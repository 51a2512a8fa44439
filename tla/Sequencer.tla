------------------------------- MODULE Sequencer -------------------------------
(***************************************************************************)
(* The write path of a board as one atomic step per accepted post:         *)
(* validate.validate_post, the band of board.append, the id and ts of      *)
(* store.append, and the policy timeline that follows the log.  Posts are  *)
(* handled one at a time on the event loop, so no two interleave; Board    *)
(* opens the step up to show what a concurrent reader sees of it.          *)
(***************************************************************************)
EXTENDS Validation

vars == <<log, entries, now>>

Envelope ==
    [type : Act, ns : Namespace, author : Identity, band : Band, ts : Int, grade : Grade,
     refs : SUBSET [edge : Edge, id : Nat \ {0}],
     payload : Policy \cup {NoPolicy}, lease_until : Nat, released : BOOLEAN,
     range : [since : Nat, until : Nat], read_basis : Int, ext : Ext]

-----------------------------------------------------------------------------
Truncate(tick) == tick - (tick % SecondTicks)

\* The accepted record: the draft plus what only the server decides.
Sequenced(d, band, tick) ==
    [type |-> d.type, ns |-> d.ns, author |-> d.author, band |-> band,
     ts |-> Truncate(tick), grade |-> d.grade, refs |-> d.refs, payload |-> d.payload,
     lease_until |-> d.lease_until, released |-> d.released,
     range |-> d.range, read_basis |-> d.read_basis, ext |-> d.ext]

GenesisDraft(policy) ==
    [type |-> "POLICY", ns |-> << >>, author |-> Operator, grade |-> "n/a", refs |-> {},
     payload |-> policy, lease_until |-> 0, released |-> FALSE,
     range |-> NoRange, read_basis |-> NoBasis, ext |-> NoExt]

GrantsHuman(policy, identity) ==
    \E k \in DOMAIN policy.grants :
        policy.grants[k].grantee = identity /\ policy.grants[k].band = "human"

-----------------------------------------------------------------------------
Init == log = << >> /\ entries = {} /\ now = 0

\* Envelope 0: the operator's POLICY at /, human by decree.
Genesis(policy) ==
    /\ log = << >>
    /\ GrantsHuman(policy, Operator)
    /\ log' = <<Sequenced(GenesisDraft(policy), "human", now)>>
    /\ entries' = EntriesOf(log')
    /\ UNCHANGED now

Post(d) ==
    /\ log # << >> /\ Len(log) < MaxLog
    /\ Accepts(d)
    /\ log' = Append(log, Sequenced(d, BandOf(d), now))
    /\ entries' = Apply(entries, log', NextId(log))
    /\ UNCHANGED now

Tick ==
    /\ log # << >> /\ now < MaxTime
    /\ now' = now + 1
    /\ UNCHANGED <<log, entries>>

Next ==
    \/ \E policy \in GenesisPolicies : Genesis(policy)
    \/ \E d \in Drafts : Post(d)
    \/ Tick

Spec == Init /\ [][Next]_vars

\* The envelope that a step adds, when it adds one.
Posted == log'[Len(log')]

=============================================================================
