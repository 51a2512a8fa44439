-------------------------------- MODULE MCWork --------------------------------
EXTENDS Work

\* The operator, the desk of the project /p, and two bands that work there.
op == "op"
dana == "dana"
ann == "ann"
bob == "bob"

P == <<"p">>
Room == <<"scratch", "ann", "work">>

MCIdentity == {op, dana, ann, bob}
MCNamespace == {<< >>, <<"korax">>, P, Room} \cup {Nests[k].ns : k \in DOMAIN Nests}
MCGenesis == {GenesisPayload}

Plain(author, ns, type, refs) ==
    [type |-> type, ns |-> ns, author |-> author, grade |-> "n/a", ext |-> NoExt,
     refs |-> refs, payload |-> NoPolicy,
     lease_until |-> 0, released |-> FALSE, range |-> NoRange, read_basis |-> NoBasis]

To(edge, ids) == {[edge |-> edge, id |-> i] : i \in ids}

Finding(author, grade, refs) == [Plain(author, P, "FINDING", refs) EXCEPT !.grade = grade]

Claim(author, ns, referents, renewed, until) ==
    [Plain(author, ns, "CLAIM", To("claims", referents) \cup To("supersedes", renewed))
        EXCEPT !.lease_until = until]

\* A project, a job, and a job that has to wait for the first.
MCSetup ==
    <<[OperatorPost(P, "POLICY", "n/a", {}) EXCEPT !.payload =
          Law(<<GrantOf(dana, P, "desk"), GrantOf(ann, P, "claimant"),
                GrantOf(bob, P, "claimant")>>, "open", PlainRules)],
      Plain(dana, P, "JOB", {}),                              \* 16
      Plain(dana, P, "JOB", To("gated-by", {16}))>>           \* 17

\* Claims short and long, one renewed and one let go; a delivery, delivered again
\* and taken back; a mistaken close; gates that grade and that do not; and the job
\* replaced.
MCVisits ==
    {Claim(ann, P, {16}, {}, 1), Claim(ann, P, {16}, {18}, 2), Claim(bob, P, {16}, {}, 2),
     [Plain(ann, P, "SUPERSEDE", To("supersedes", {18})) EXCEPT !.released = TRUE],
     Finding(ann, "unverified", To("closes", {16})),
     Finding(ann, "unverified", To("closes", {16}) \cup To("supersedes", {18})),
     Plain(ann, P, "SUPERSEDE", To("supersedes", {19})),
     Finding(bob, "unverified", To("closes", {16})),
     Finding(dana, "verified", To("closes", {16})),
     Finding(dana, "n/a", To("closes", {16})),
     Plain(dana, P, "JOB", To("supersedes", {16}))}

\* Work that is claimed out of sight of the others.
MCHiddenVisits == {Claim(ann, Room, {16}, {}, 2)}

MCDrafts == {Plan[k] : k \in DOMAIN Plan} \cup MCVisits \cup MCHiddenVisits

=============================================================================
