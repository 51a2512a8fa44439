-------------------------------- MODULE Waiting --------------------------------
(***************************************************************************)
(* How the board wakes those who wait (board.py: condition, notify,        *)
(* wait_for, begin_shutdown; api.py: post, /wait, /feed, /subscribe and    *)
(* the lifespan).  Requests are coroutines on one event loop: a step runs  *)
(* from one suspension to the next, and nothing else runs meanwhile.  A    *)
(* waiting call evaluates its predicate under the lock of one condition,   *)
(* gives the lock up to park, is woken by a notify, and takes the lock     *)
(* again before it looks.  The process may be told to stop, be killed, and *)
(* be started again; the log and the clients' cursors survive.             *)
(***************************************************************************)
EXTENDS Integers, Sequences, FiniteSetsExt

CONSTANTS
    Poller, Stream, Arrival, MaxLog,   \* as in LongPoll
    Writer,           \* clients that post
    Nobody,           \* the holder of a free lock
    SatisfiedYields,  \* does every wait_for whose predicate holds suspend? (CPython 3.11)
    MaxBoots          \* bound on the number of times the board is started

VARIABLES
    log, cursor, seen,
    pc,               \* where each caller's request stands
    batch,            \* what a stream has selected and not sent yet
    posting,          \* where each writer's request stands
    lock,             \* who holds the lock of the condition
    phase,            \* up, signalled, arming, draining or down
    shutting_down,    \* the flag the predicates consult
    accepting,        \* does uvicorn still take requests?
    boots

vars == <<log, cursor, seen, pc, batch, posting, lock, phase, shutting_down,
          accepting, boots>>

open == {c \in Poller \cup Stream : pc[c] # "idle"}

LP == INSTANCE LongPoll

ASSUME WaitingAssumption ==
    /\ Poller \cap Stream = {} /\ Arrival \subseteq LP!ArrivalType /\ MaxLog \in Nat
    /\ Writer \cap LP!Caller = {} /\ Nobody \notin Writer \cup LP!Caller
    /\ SatisfiedYields \in BOOLEAN /\ MaxBoots \in Nat \ {0}

\* asked:     the request has arrived, the handler has not looked yet
\* locking:   in wait_for, before the lock of the condition
\* holding:   has the lock; the task that evaluates the predicate is not run yet
\* parked:    in Condition.wait, the lock given up
\* roused:    notified, and waiting to take the lock again
\* expired:   timed out, and waiting to take the lock again
\* resuming:  done waiting; the lock is held until the handler resumes
\* spinning:  a satisfied wait_for that never lets the event loop run
CallState == {"idle", "asked", "locking", "holding", "parked", "roused", "expired",
              "resuming", "spinning"}

TypeOK ==
    /\ log \in Seq(LP!ArrivalType) /\ Len(log) <= MaxLog
    /\ cursor \in [LP!Caller -> 0..Len(log)]
    /\ seen \in [LP!Caller -> SUBSET (1..Len(log))]
    /\ pc \in [LP!Caller -> CallState]
    /\ batch \in [Stream -> SUBSET (1..Len(log))]
    /\ posting \in [Writer -> {"idle", "reading", "ringing"}]
    /\ lock \in {Nobody} \cup LP!Caller
    /\ phase \in {"up", "signalled", "arming", "draining", "down"}
    /\ shutting_down \in BOOLEAN /\ accepting \in BOOLEAN
    /\ boots \in 1..MaxBoots

Init ==
    /\ log = << >>
    /\ cursor = [c \in LP!Caller |-> 0]
    /\ seen = [c \in LP!Caller |-> {}]
    /\ pc = [c \in LP!Caller |-> "idle"]
    /\ batch = [s \in Stream |-> {}]
    /\ posting = [w \in Writer |-> "idle"]
    /\ lock = Nobody
    /\ phase = "up" /\ shutting_down = FALSE /\ accepting = TRUE /\ boots = 1

\* The event loop is free to run somebody else's step.
LoopRuns == \A c \in LP!Caller : pc[c] # "spinning"

At(c, state) == LoopRuns /\ pc[c] = state

Goto(c, state) == pc' = [pc EXCEPT ![c] = state]

-----------------------------------------------------------------------------
(* Waiting on the condition.                                               *)

\* Slips: a predicate that does not know of the goodbye; a notify that wakes
\* one waiter instead of all.
WantsArrivalsOnly(c) ==
    IF c \in Stream THEN Len(log) > cursor[c] ELSE LP!Hits(c) # {}

NotifiedFirst ==
    LET first == CHOOSE c \in LP!Caller : pc[c] = "parked"
    IN  [c \in LP!Caller |-> IF pc[c] = "parked" /\ c = first THEN "roused" ELSE pc[c]]

\* What the call waits for.  A stream asks whether the log has grown past its
\* cursor, whatever it selects.
Wants(c) ==
    \/ IF c \in Stream THEN Len(log) > cursor[c] ELSE LP!Hits(c) # {}
    \/ shutting_down

\* notify_all.
Notified ==
    [c \in LP!Caller |-> IF pc[c] = "parked" THEN "roused" ELSE pc[c]]

Look(c) == IF Wants(c) THEN Goto(c, "resuming") /\ lock' = c
                       ELSE Goto(c, "parked") /\ lock' = Nobody

\* The lock of an idle condition is taken without a suspension; from CPython
\* 3.12 on a predicate that holds at once is not a suspension either.
Lock(c) ==
    /\ At(c, "locking") /\ lock = Nobody
    /\ Goto(c, "holding")
    /\ lock' = c
    /\ UNCHANGED <<log, cursor, seen, batch, posting, phase, shutting_down, accepting, boots>>

FirstLook(c) ==
    /\ At(c, "holding")
    /\ Look(c)
    /\ UNCHANGED <<log, cursor, seen, batch, posting, phase, shutting_down, accepting, boots>>

LookAgain(c) ==
    /\ At(c, "roused") /\ lock = Nobody
    /\ Look(c)
    /\ UNCHANGED <<log, cursor, seen, batch, posting, phase, shutting_down, accepting, boots>>

\* The time is up, whether or not a notify has just come.
Expire(c) ==
    /\ pc[c] \in {"parked", "roused"} /\ LoopRuns
    /\ Goto(c, "expired")
    /\ UNCHANGED <<log, cursor, seen, batch, posting, lock, phase, shutting_down, accepting, boots>>

Unpark(c) ==
    /\ At(c, "expired") /\ lock = Nobody
    /\ Goto(c, "resuming") /\ lock' = c
    /\ UNCHANGED <<log, cursor, seen, batch, posting, phase, shutting_down, accepting, boots>>

-----------------------------------------------------------------------------
(* /wait and /feed.                                                        *)

Ask(c) ==
    /\ At(c, "idle") /\ accepting
    /\ Goto(c, "asked")
    /\ UNCHANGED <<log, cursor, seen, batch, posting, lock, phase, shutting_down, accepting, boots>>

\* Slips: a goodbye that moves the cursor to the head; a cursor that is the next
\* offset to read instead of the last one read.
PageAdvancing(c) ==
    IF LP!Hits(c) = {} THEN cursor' = [cursor EXCEPT ![c] = Len(log)] /\ UNCHANGED seen
                       ELSE LP!Serve(c, LP!Hits(c))

PageFromNext(c) ==
    IF LP!Hits(c) = {} THEN UNCHANGED <<cursor, seen>>
    ELSE /\ cursor' = [cursor EXCEPT ![c] = Len(log) + 1]
         /\ seen' = [seen EXCEPT ![c] = @ \cup LP!Hits(c)]

\* The page is computed anew when the call resumes, in the same step: an arrival
\* that raced the timeout is on it.  Without one the page is empty, a goodbye
\* when the board is shutting down, and the cursor stays.
Page(c) == IF LP!Hits(c) = {} THEN UNCHANGED <<cursor, seen>>
                              ELSE LP!Serve(c, LP!Hits(c))

AnswerAtOnce(c) ==
    /\ c \in Poller /\ At(c, "asked") /\ LP!Hits(c) # {}
    /\ Page(c)
    /\ Goto(c, "idle")
    /\ UNCHANGED <<log, batch, posting, lock, phase, shutting_down, accepting, boots>>

StartWaiting(c) ==
    /\ c \in Poller /\ At(c, "asked") /\ LP!Hits(c) = {}
    /\ Goto(c, "locking")
    /\ UNCHANGED <<log, cursor, seen, batch, posting, lock, phase, shutting_down, accepting, boots>>

Answer(c) ==
    /\ c \in Poller /\ At(c, "resuming")
    /\ Page(c)
    /\ Goto(c, "idle") /\ lock' = Nobody
    /\ UNCHANGED <<log, batch, posting, phase, shutting_down, accepting, boots>>

-----------------------------------------------------------------------------
(* /subscribe.                                                             *)

\* With nothing to send the stream goes on to wait.  From CPython 3.12 on, if what it
\* waits for is there already and the lock is free, the wait returns without the loop
\* having run: then the stream says goodbye or, where the log has grown by what it
\* does not select, goes round again, for ever and with nobody else running.
Park(s) ==
    \/ Goto(s, "locking")
    \/ /\ ~SatisfiedYields /\ Wants(s) /\ lock = Nobody
       /\ Goto(s, IF shutting_down THEN "idle" ELSE "spinning")

\* One pass over the log.

Scan(s) ==
    /\ s \in Stream /\ At(s, "asked") /\ batch[s] = {}
    /\ batch' = [batch EXCEPT ![s] = LP!Hits(s)]
    /\ IF LP!Hits(s) = {} THEN Park(s) ELSE UNCHANGED pc
    /\ UNCHANGED <<log, cursor, seen, posting, lock, phase, shutting_down, accepting, boots>>

Send(s) ==
    /\ s \in Stream /\ At(s, "asked") /\ batch[s] # {}
    /\ LP!Serve(s, {Min(batch[s])})
    /\ batch' = [batch EXCEPT ![s] = @ \ {Min(@)}]
    /\ IF batch'[s] = {} THEN Goto(s, "locking") ELSE UNCHANGED pc
    /\ UNCHANGED <<log, posting, lock, phase, shutting_down, accepting, boots>>

\* The goodbye is the last event of a stream, else it goes round again.
Resume(s) ==
    /\ s \in Stream /\ At(s, "resuming")
    /\ Goto(s, IF shutting_down THEN "idle" ELSE "asked") /\ lock' = Nobody
    /\ UNCHANGED <<log, cursor, seen, batch, posting, phase, shutting_down, accepting, boots>>

-----------------------------------------------------------------------------
(* POST /post: the flag is read, then the body, then the log is written.   *)

Submit(w) ==
    /\ LoopRuns /\ posting[w] = "idle" /\ accepting /\ ~shutting_down
    /\ posting' = [posting EXCEPT ![w] = "reading"]
    /\ UNCHANGED <<log, cursor, seen, pc, batch, lock, phase, shutting_down, accepting, boots>>

Accept(w, e) ==
    /\ LoopRuns /\ posting[w] = "reading" /\ Len(log) < MaxLog
    /\ log' = Append(log, e)
    /\ posting' = [posting EXCEPT ![w] = "ringing"]
    /\ UNCHANGED <<cursor, seen, pc, batch, lock, phase, shutting_down, accepting, boots>>

Refuse(w) ==
    /\ LoopRuns /\ posting[w] = "reading"
    /\ posting' = [posting EXCEPT ![w] = "idle"]
    /\ UNCHANGED <<log, cursor, seen, pc, batch, lock, phase, shutting_down, accepting, boots>>

Ring(w) ==
    /\ LoopRuns /\ posting[w] = "ringing" /\ lock = Nobody
    /\ pc' = Notified
    /\ posting' = [posting EXCEPT ![w] = "idle"]
    /\ UNCHANGED <<log, cursor, seen, batch, lock, phase, shutting_down, accepting, boots>>

-----------------------------------------------------------------------------
(* The life of the process.                                                *)

Signal ==
    /\ phase = "up"
    /\ phase' = "signalled"
    /\ UNCHANGED <<log, cursor, seen, pc, batch, posting, lock, shutting_down, accepting, boots>>

\* begin_shutdown: set, then notify.
BeginShutdown ==
    /\ LoopRuns /\ phase = "signalled"
    /\ shutting_down' = TRUE /\ phase' = "arming"
    /\ UNCHANGED <<log, cursor, seen, pc, batch, posting, lock, accepting, boots>>

Rouse ==
    /\ LoopRuns /\ phase = "arming" /\ lock = Nobody
    /\ pc' = Notified
    /\ phase' = "draining"
    /\ UNCHANGED <<log, cursor, seen, batch, posting, lock, shutting_down, accepting, boots>>

StopAccepting ==
    /\ LoopRuns /\ phase \in {"signalled", "arming", "draining"} /\ accepting
    /\ accepting' = FALSE
    /\ UNCHANGED <<log, cursor, seen, pc, batch, posting, lock, phase, shutting_down, boots>>

\* The process ends once no request is in flight (uvicorn waits for them without
\* a limit); a kill does not wait.
Stopped ==
    /\ phase' = "down" /\ accepting' = FALSE
    /\ pc' = [c \in LP!Caller |-> "idle"]
    /\ batch' = [s \in Stream |-> {}]
    /\ posting' = [w \in Writer |-> "idle"]
    /\ lock' = Nobody
    /\ UNCHANGED <<log, cursor, seen, shutting_down, boots>>

Idle == open = {} /\ \A w \in Writer : posting[w] = "idle"

Exit == phase \in {"signalled", "arming", "draining"} /\ ~accepting /\ Idle /\ Stopped

Kill == phase # "down" /\ Stopped

Start ==
    /\ phase = "down" /\ boots < MaxBoots
    /\ phase' = "up" /\ shutting_down' = FALSE /\ accepting' = TRUE
    /\ boots' = boots + 1
    /\ UNCHANGED <<log, cursor, seen, pc, batch, posting, lock>>

Caller(c) ==
    \/ Ask(c) \/ AnswerAtOnce(c) \/ StartWaiting(c) \/ Scan(c) \/ Send(c)
    \/ Lock(c) \/ FirstLook(c) \/ LookAgain(c) \/ Expire(c) \/ Unpark(c)
    \/ Answer(c) \/ Resume(c)

Poster(w) ==
    Submit(w) \/ (\E e \in Arrival : Accept(w, e)) \/ Refuse(w) \/ Ring(w)

Process == Signal \/ BeginShutdown \/ Rouse \/ StopAccepting \/ Exit \/ Kill \/ Start

Next ==
    \/ \E c \in LP!Caller : Caller(c)
    \/ \E w \in Writer : Poster(w)
    \/ Process

\* The loop runs every coroutine that can go on, the bodies of requests arrive,
\* and asyncio.Lock serves its waiters first in, first out (hence SF for whoever
\* needs the lock).  Nobody has to call, post or signal, and no fairness makes a
\* wait time out: what must be woken is woken by a notify.
Fairness ==
    /\ \A c \in LP!Caller :
          /\ WF_vars(AnswerAtOnce(c) \/ StartWaiting(c) \/ Scan(c) \/ Send(c)
                        \/ FirstLook(c) \/ Answer(c) \/ Resume(c))
          /\ SF_vars(Lock(c) \/ LookAgain(c) \/ Unpark(c))
    /\ \A w \in Writer :
          /\ WF_vars((\E e \in Arrival : Accept(w, e)) \/ Refuse(w))
          /\ SF_vars(Ring(w))
    /\ WF_vars(BeginShutdown) /\ SF_vars(Rouse)
    /\ WF_vars(StopAccepting) /\ WF_vars(Exit)

Spec == Init /\ [][Next]_vars /\ Fairness

-----------------------------------------------------------------------------
\* A cursor is a receipt for delivery (api.py:132-136): it stands on an envelope
\* that was served, and whatever the client could read from the start and its
\* cursor has passed was served too, over waits that timed out or were cut off,
\* goodbyes, kills and restarts.
CursorIsAReceipt ==
    \A c \in LP!Caller :
        /\ cursor[c] \in {0} \cup seen[c]
        /\ \A i \in 1..cursor[c] : c \in log[i].for \ log[i].blind => i \in seen[c]

\* The board implements LongPoll: an open call for which something arrived is
\* answered by the notify alone, and with all of it (board.py:70-82, 221-231).
ImplementsLongPoll == LP!Spec

\* A board told to stop stops, though uvicorn waits without limit for the calls
\* that wait on the board: "Releasing the parked calls first turns
\* `_wait_tasks_to_complete()` from a deadlock into a drain" (api.py:234-236), also
\* for a call that is on its way to park.
BoardDrains == (phase = "signalled") ~> (phase = "down")

=============================================================================
