-------------------------------- MODULE Remote --------------------------------
(***************************************************************************)
(* The board as its clients meet it: a log that others write to as well,   *)
(* and a process that serves, says goodbye, is down and comes back.  What  *)
(* it promises a waiting call is LongPoll; here a call is one step of the  *)
(* client that makes it, or fails.                                         *)
(***************************************************************************)
EXTENDS Integers, Sequences, FiniteSetsExt

CONSTANTS
    NoKey,            \* the idempotency key of a post that has none
    Key,              \* the idempotency key of the write that is retried
    MaxLog,           \* bound on the length of the log
    MaxOutages        \* bound on the number of restarts

ASSUME RemoteAssumption ==
    /\ NoKey # Key
    /\ MaxLog \in Nat /\ MaxOutages \in Nat

VARIABLES
    log,              \* accepted envelopes: their key, and whether the client selects them
    serving,          \* up, closing or down
    outages

remoteVars == <<log, serving, outages>>

Posted == [key : {NoKey, Key}, mine : BOOLEAN]

RemoteInit == log = << >> /\ serving = "up" /\ outages = 0

\* Somebody else posts.
Arrive(mine) ==
    /\ serving = "up" /\ Len(log) < MaxLog
    /\ log' = Append(log, [key |-> NoKey, mine |-> mine])
    /\ UNCHANGED <<serving, outages>>

SayGoodbye ==
    /\ serving = "up" /\ outages < MaxOutages
    /\ serving' = "closing"
    /\ UNCHANGED <<log, outages>>

\* After a goodbye or without one.
GoDown ==
    /\ serving # "down" /\ outages < MaxOutages
    /\ serving' = "down" /\ outages' = outages + 1
    /\ UNCHANGED log

ComeUp ==
    /\ serving = "down"
    /\ serving' = "up"
    /\ UNCHANGED <<log, outages>>

\* What a poll after since selects.
Hits(since) == {i \in (since + 1)..Len(log) : log[i].mine}

CursorAfter(since, ids) == IF ids = {} THEN since ELSE Max(ids)

\* A closing board answers a poll that selects nothing with its notice; only one
\* that is up lets it wait until the time is up.
Goodbye(since) == serving = "closing" /\ Hits(since) = {}

Answers == serving # "down"

=============================================================================
