-------------------------------- MODULE Doorbell --------------------------------
(***************************************************************************)
(* The channel doorbell of the MCP client (doorbell.py): it polls the feed *)
(* of its session from a position of its own, folds the pages of a burst   *)
(* into one pending ring, and tells the host how many there are.           *)
(***************************************************************************)
EXTENDS Remote

CONSTANT
    HostListens       \* does the host accept every notification?

VARIABLES
    bell,             \* where the loop stands, one of BellState
    position,         \* the doorbell's cursor
    pending,          \* absorbed and not rung yet
    notice,           \* a goodbye to pass on
    rung,             \* the ids that rings have told the host of
    armedAt           \* the position it was armed at

bellVars == <<bell, position, pending, notice, rung, armedAt>>

BellState == {"arming", "polling", "coalescing", "ringing", "cooling"}

BellInit ==
    /\ bell = "arming" /\ position = 0 /\ armedAt = 0
    /\ pending = {} /\ notice = FALSE /\ rung = {}

\* At the head of the board, so that the first ring is news; at the beginning if
\* the board cannot be asked.
ArmBell ==
    /\ bell = "arming"
    /\ position' = (IF Answers THEN Len(log) ELSE 0)
    /\ armedAt' = position'
    /\ bell' = "polling"
    /\ UNCHANGED <<pending, notice, rung>>

\* Slip: only the last page of a burst is remembered.
AbsorbLast(ids) == pending' = IF ids = {} THEN pending ELSE ids

Absorb(ids) == pending' = pending \cup ids

\* A page with envelopes or a notice leads to a ring; an empty one to a new poll.
PollFeed ==
    /\ bell = "polling" /\ Answers
    /\ Absorb(Hits(position))
    /\ notice' = (notice \/ Goodbye(position))
    /\ position' = CursorAfter(position, Hits(position))
    /\ bell' = (IF pending' # {} \/ notice' THEN "coalescing" ELSE "polling")
    /\ UNCHANGED <<rung, armedAt>>

\* A failed poll backs off and polls again from the same position.
PollFeedFails ==
    /\ bell = "polling" /\ ~Answers
    /\ UNCHANGED bellVars

\* Until the window closes the burst is drained into the same ring.
Coalesce ==
    /\ bell = "coalescing" /\ Answers /\ (Hits(position) # {} \/ Goodbye(position))
    /\ Absorb(Hits(position))
    /\ notice' = (notice \/ Goodbye(position))
    /\ position' = CursorAfter(position, Hits(position))
    /\ UNCHANGED <<bell, rung, armedAt>>

\* The window closes, a poll finds nothing more, or a poll fails.
CloseWindow ==
    /\ bell = "coalescing"
    /\ bell' = "ringing"
    /\ UNCHANGED <<position, pending, notice, rung, armedAt>>

\* One notification; what was pending is forgotten whether the host took it or not.
Ring ==
    /\ bell = "ringing"
    /\ \E taken \in {TRUE, HostListens} : rung' = IF taken THEN rung \cup pending ELSE rung
    /\ pending' = {} /\ notice' = FALSE
    /\ bell' = "cooling"
    /\ UNCHANGED <<position, armedAt>>

CoolDown ==
    /\ bell = "cooling"
    /\ bell' = "polling"
    /\ UNCHANGED <<position, pending, notice, rung, armedAt>>

Bell ==
    \/ ArmBell \/ PollFeed \/ PollFeedFails \/ Coalesce \/ CloseWindow \/ Ring \/ CoolDown

-----------------------------------------------------------------------------
\* What there is to ring for.
Due == {i \in 1..Len(log) : log[i].mine /\ armedAt < i}

=============================================================================
