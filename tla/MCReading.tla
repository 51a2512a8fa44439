------------------------------- MODULE MCReading -------------------------------
EXTENDS Reading, Governance

\* The operator, who lays the first law down; another person; and two bands.
op == "op"
pat == "pat"
ann == "ann"
bob == "bob"

Root == << >>
P == <<"p">>
Q == <<"q">>
W == <<"w">>
HQ == <<"hq">>
Commons == <<"commons">>
Room == <<"scratch", "bob", "notes">>
Desk == <<"scratch", "bob">>
Mailbox == <<"dm", "bob">>

G(grantee, root, band) == [grantee |-> grantee, root |-> root, band |-> band]

MCIdentity == {op, pat, ann, bob}
MCNamespace == {Root, HQ, P, Q, W, Commons, Room, Desk, Mailbox, <<"dm">>}

Pol(grants, seam, blind) ==
    [kind |-> "policy", grants |-> grants, human_read |-> seam, blind |-> blind,
     rules |-> PlainRules]

\* Two boards.  On one the operator keeps to a corner, pat makes the law, and ann runs
\* a project where everyone may post.  On the other every nest is sealed to persons and
\* answers blind, and ann and bob answer each other's questions.
MCGenesis ==
    {Pol(<<G(op, HQ, "human"), G(pat, Root, "human"), G(ann, W, "desk"),
           G(Everyone, W, "poster")>>, "open", {}),
     Pol(<<G(op, Root, "human"), G(ann, P, "poster"), G(bob, P, "poster"),
           G(Everyone, <<"dm">>, "poster")>>, "sealed", {"FINDING"})}

Plain(author, ns, type, refs) ==
    [type |-> type, ns |-> ns, author |-> author, grade |-> "n/a", ext |-> NoExt,
     refs |-> refs, payload |-> NoPolicy,
     lease_until |-> 0, released |-> FALSE, range |-> NoRange, read_basis |-> NoBasis]

To(edge, id) == {[edge |-> edge, id |-> id]}

PolicyBy(author, ns, policy) ==
    [Plain(author, ns, "POLICY", {}) EXCEPT !.payload = policy]

Grants(grants) == Pol(grants, "open", {})

Stamp(author, ns, id) == Plain(author, ns, "STAMP", {[edge |-> "stamps", id |-> id]})

Unseal(ns, since, until) ==
    [Plain(op, ns, "UNSEAL", {}) EXCEPT !.range = [since |-> since, until |-> until]]

Answer(author, round) == Plain(author, P, "FINDING", To("replies", round))

Naming(whom, d) == [d EXCEPT !.ext.mentions = whom]

\* On the sealed board rounds are opened, answered and closed in /p, which may be
\* opened up or sealed again meanwhile; a band writes to another and to itself, and
\* names others who can follow it or cannot; the person looks, early or late.
ReadersDrafts ==
    {PolicyBy(op, P, Pol(<<>>, "open", {})),
     PolicyBy(op, P, Pol(<<>>, "sealed", {"FINDING"})),
     Plain(ann, P, "OPEN", {}),
     Answer(ann, 2), Answer(bob, 2),
     Naming({bob, op}, Plain(ann, P, "NOTE", To("closes", 2))),
     Naming({bob}, Plain(ann, Mailbox, "NOTE", {})), Plain(bob, Room, "NOTE", {}),
     Naming({ann}, Plain(bob, Room, "NOTE", {})), Naming({bob}, Plain(op, Desk, "NOTE", {})),
     Unseal(P, 2, 3), Unseal(P, 4, 4), Unseal(P, 2, 9),
     Unseal(Mailbox, 2, 4), Unseal(Room, 2, 9)}

\* On the other, policies that pat writes and that ann only proposes: to make bob a
\* person, a referee of the commons, or a desk; stamps of any of them, also by bob, who
\* may come to be a person; a note that tries to stamp; and a note by bob.
LawmakersDrafts ==
    {PolicyBy(ann, W, Grants(<<G(ann, W, "desk"), G(bob, Commons, "maintainer")>>)),
     PolicyBy(ann, W, Grants(<<G(bob, W, "human")>>)),
     PolicyBy(ann, W, Grants(<<G(bob, W, "maintainer"), G(bob, W, "desk")>>)),
     PolicyBy(pat, Q, Grants(<<G(bob, Q, "desk")>>)),
     PolicyBy(pat, W, Grants(<<G(bob, W, "poster")>>))}
    \cup {Stamp(pat, Root, id) : id \in 2..4}
    \cup {Stamp(bob, W, 2)}
    \cup {Plain(pat, Root, "NOTE", {[edge |-> "stamps", id |-> 2]})}
    \cup {Plain(bob, W, "NOTE", {})}

MCDrafts == ReadersDrafts \cup LawmakersDrafts
=============================================================================
