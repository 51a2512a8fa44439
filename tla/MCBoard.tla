-------------------------------- MODULE MCBoard --------------------------------
EXTENDS Board, TLC

CONSTANTS r1, r2

\* A person who makes the law of /p, and a band that reads there.
op == "op"
ann == "ann"

Root == << >>
P == <<"p">>

G(grantee, root, band) == [grantee |-> grantee, root |-> root, band |-> band]

MCIdentity == {op, ann}
MCRequester == {ann}
MCNamespace == {Root, P}
MCReader == {r1, r2}

\* The threads are alike.
Threads == Permutations(MCReader)

Pol(grants, seam) ==
    [kind |-> "policy", grants |-> grants, human_read |-> seam, blind |-> {},
     rules |-> PlainRules]

MCGenesis == {Pol(<<G(op, Root, "human"), G(ann, P, "desk")>>, "open")}

Plain(author, ns, type) ==
    [type |-> type, ns |-> ns, author |-> author, grade |-> "n/a", ext |-> NoExt,
     refs |-> {}, payload |-> NoPolicy,
     lease_until |-> 0, released |-> FALSE, range |-> NoRange, read_basis |-> NoBasis]

PolicyBy(author, ns, policy) == [Plain(author, ns, "POLICY") EXCEPT !.payload = policy]

\* The person takes ann's grant away; ann seals /p by a policy that waits for a stamp;
\* and that stamp.
MCDrafts ==
    {PolicyBy(op, Root, Pol(<<G(op, Root, "human")>>, "open")),
     PolicyBy(ann, P, Pol(<<>>, "sealed")),
     [Plain(op, Root, "STAMP") EXCEPT !.refs = {[edge |-> "stamps", id |-> 2]}]}

=============================================================================
