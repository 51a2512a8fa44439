------------------------------ MODULE MCClaiming ------------------------------
EXTENDS Claiming

\* A human operator, a desk, and two bands that take work from /p.
op == "op"
dana == "dana"
ann == "ann"
bob == "bob"

Root == << >>
P == <<"p">>

G(grantee, root, band) == [grantee |-> grantee, root |-> root, band |-> band]

MCIdentity == {op, dana, ann, bob}
Room == <<"scratch", "bob", "notes">>

MCNamespace == {Root, P, Room}

MCGenesis ==
    {[kind |-> "policy", human_read |-> "open", blind |-> {}, rules |-> PlainRules,
      grants |-> <<G(op, Root, "human"), G(dana, P, "desk"),
                   G(ann, P, "claimant"), G(bob, P, "claimant")>>]}

Plain(author, type, refs) ==
    [type |-> type, ns |-> P, author |-> author, grade |-> "n/a", ext |-> NoExt,
     refs |-> refs, payload |-> NoPolicy,
     lease_until |-> 0, released |-> FALSE, range |-> NoRange, read_basis |-> NoBasis]

To(edge, ids) == {[edge |-> edge, id |-> i] : i \in ids}

Claim(author, referents, until, renewed) ==
    [Plain(author, "CLAIM", To("claims", referents) \cup To("supersedes", renewed))
        EXCEPT !.lease_until = until]

Release(author, id) ==
    [Plain(author, "SUPERSEDE", To("supersedes", {id})) EXCEPT !.released = TRUE]

\* A job, claims on it with short and long leases, renewals and releases, by
\* claimants who may only touch their own and by a desk that may touch all.
MCDrafts ==
    {Plain(dana, "JOB", {})}
    \cup {Claim(ann, {2}, t, {}) : t \in {1, 3}}
    \cup {Claim(ann, {2}, 3, {3}), Claim(bob, {2}, 2, {}), Claim(bob, {2, 3}, 3, {4})}
    \cup {Release(ann, 3), Release(dana, 3), Release(bob, 4)}

\* The same work, and a release that is posted from a room where its author is a
\* desk by the rules: the own scratch.
MCElsewhere ==
    {Plain(dana, "JOB", {}), Claim(ann, {2}, 3, {}), [Release(bob, 3) EXCEPT !.ns = Room]}

===============================================================================
