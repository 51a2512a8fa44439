-------------------------------- MODULE MCCanon --------------------------------
EXTENDS Canon

\* The operator, a second person who is not the seat, a desk of the projects /p
\* and /q, and two bands.
op == "op"
hal == "hal"
dana == "dana"
ann == "ann"
bob == "bob"

P == <<"p">>
Q == <<"q">>

MCIdentity == {op, hal, dana, ann, bob}
MCNamespace == {<< >>, <<"korax">>, P, Q} \cup {Nests[k].ns : k \in DOMAIN Nests}
MCOrder ==
    <<<< >>, <<"commons", "jobs">>, <<"commons", "offtopic">>, <<"commons", "rakes">>, <<"dm">>,
      <<"korax">>, CanonNs, InboxNs, MetaNs, <<"korax", "notices">>, SubscriptionsNs, P, Q,
      <<"users">>>>
MCGenesis == {GenesisPayload, HumanOnlyPayload}

Plain(author, ns, type, refs) ==
    [type |-> type, ns |-> ns, author |-> author, grade |-> "n/a", ext |-> NoExt,
     refs |-> refs, payload |-> NoPolicy,
     lease_until |-> 0, released |-> FALSE, range |-> NoRange, read_basis |-> NoBasis]

To(edge, ids) == {[edge |-> edge, id |-> i] : i \in ids}

Pin(author, ns, class, id, replaced) ==
    [Plain(author, ns, "PIN", To("pins", {id}) \cup To("supersedes", replaced))
        EXCEPT !.ext.canon = (class = "canon")]

Replace(author, ns, id, proposals) ==
    Plain(author, ns, "SUPERSEDE", To("supersedes", {id}) \cup To("derives-from", proposals))

Endorse(author, id) == Plain(author, MetaNs, "NOTE", To("endorses", {id}))

Read(author, ids) == Plain(author, P, "ACK", To("acks", ids))

\* A project that claims only after reading, with room for one canon pin and a
\* walk of one step; a deeper one beside it; three documents that require each
\* other, the first of them canon; a job; and a proposal two bands are behind.
MCSetup ==
    <<[OperatorPost(P, "POLICY", "n/a", {}) EXCEPT !.payload =
          Law(<<GrantOf(dana, P, "desk"), GrantOf(ann, P, "claimant"),
                GrantOf(hal, CanonNs, "human")>>, "open",
              [PlainRules EXCEPT !.require_acks = TRUE, !.max_pins = 1,
                                 !.max_required_depth = 1, !.pin_posters = "desk"])],
      [OperatorPost(Q, "POLICY", "n/a", {}) EXCEPT !.payload =
          Law(<<GrantOf(dana, Q, "desk")>>, "open", PlainRules)],
      Plain(dana, P, "FINDING", {}),                          \* 17
      Plain(dana, P, "FINDING", To("requires", {17})),        \* 18
      Plain(dana, P, "FINDING", To("requires", {18})),        \* 19
      Pin(dana, P, "canon", 17, {}),                          \* 20
      Pin(dana, P, "suggested", 19, {}),                      \* 21
      Plain(dana, P, "JOB", To("requires", {18})),            \* 22
      Plain(ann, MetaNs, "PROPOSAL", {}),                     \* 23
      Endorse(dana, 23), Endorse(bob, 23)>>

\* Reading and claiming; the desk replaces what it pinned, within and past its
\* budget; a third and a self-made endorsement; and the canon document replaced,
\* and canon pinned, by those who may and by those who may not.
MCVisits ==
    {Read(ann, {17, 18}), Read(ann, {13, 18, 19}), Read(ann, {26}),
     [Plain(ann, P, "CLAIM", To("claims", {22})) EXCEPT !.lease_until = 1],
     Replace(dana, P, 17, {}),
     Pin(dana, P, "canon", 18, {20}), Pin(dana, P, "canon", 19, {20}),
     Pin(dana, P, "canon", 18, {21}), Pin(dana, Q, "canon", 19, {}),
     Endorse(hal, 23), Endorse(ann, 23), Replace(ann, MetaNs, 23, {}),
     Replace(op, CanonNs, 13, {23}), Replace(dana, P, 13, {23}),
     Pin(hal, CanonNs, "canon", 23, {}), Pin(hal, CanonNs, "canon", 26, {})}

MCDrafts == {Plan[k] : k \in DOMAIN Plan} \cup MCVisits

=============================================================================
