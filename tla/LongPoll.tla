------------------------------- MODULE LongPoll -------------------------------
(***************************************************************************)
(* What the board promises to those who wait on it (api.py: /wait, /feed   *)
(* and /subscribe).  A call is open from the moment it is made; a poller   *)
(* is answered with everything it asked about that is on the log past its  *)
(* cursor, or with an empty page that leaves the cursor alone; a stream is *)
(* sent one envelope after another.  A call may be cut off at any time.    *)
(* Nothing is said of how a waiting call learns that something arrived:    *)
(* that is Waiting, which implements this module.                          *)
(***************************************************************************)
EXTENDS Integers, Sequences, FiniteSetsExt

CONSTANTS
    Poller,           \* callers of /wait and /feed
    Stream,           \* callers of /subscribe
    Arrival,          \* the envelopes that may be posted
    MaxLog            \* bound on the length of the log

Caller == Poller \cup Stream

\* What matters here of an envelope: whom it is for, to whom of those it is
\* blind for now, and whether it is the post that lifts the blinds.
ArrivalType == [for : SUBSET Caller, blind : SUBSET Caller, lifts : BOOLEAN]

VARIABLES
    log,              \* the accepted envelopes
    cursor,           \* the last offset each client has been served
    seen,             \* the offsets each client has been served
    open              \* the calls that wait for an answer

vars == <<log, cursor, seen, open>>

Readable(c, i) ==
    /\ c \in log[i].for
    /\ c \in log[i].blind => \E j \in (i + 1)..Len(log) : log[j].lifts

\* hits_now: what the call of c selects past its cursor.
Hits(c) == {i \in (cursor[c] + 1)..Len(log) : Readable(c, i)}

Init ==
    /\ log = << >>
    /\ cursor = [c \in Caller |-> 0]
    /\ seen = [c \in Caller |-> {}]
    /\ open = {}

Arrive(e) ==
    /\ Len(log) < MaxLog
    /\ log' = Append(log, e)
    /\ UNCHANGED <<cursor, seen, open>>

Ask(c) ==
    /\ c \notin open
    /\ open' = open \cup {c}
    /\ UNCHANGED <<log, cursor, seen>>

Serve(c, ids) ==
    /\ cursor' = [cursor EXCEPT ![c] = Max(ids)]
    /\ seen' = [seen EXCEPT ![c] = @ \cup ids]

Answer(c) ==
    /\ c \in open \cap Poller /\ Hits(c) # {}
    /\ Serve(c, Hits(c))
    /\ open' = open \ {c}
    /\ UNCHANGED log

\* The time ran out, or the board said goodbye.
AnswerEmpty(c) ==
    /\ c \in open /\ Hits(c) = {}
    /\ open' = open \ {c}
    /\ UNCHANGED <<log, cursor, seen>>

Send(c) ==
    /\ c \in open \cap Stream
    /\ \E i \in Hits(c) : Serve(c, {i})
    /\ UNCHANGED <<log, open>>

\* A stream ends at the board's goodbye, the process of the board at a kill.
CutOff(lost) ==
    /\ lost # {} /\ lost \subseteq open
    /\ lost \subseteq Stream \/ lost = open
    /\ open' = open \ lost
    /\ UNCHANGED <<log, cursor, seen>>

Next ==
    \/ \E e \in Arrival : Arrive(e)
    \/ \E c \in Caller : Ask(c) \/ Answer(c) \/ AnswerEmpty(c) \/ Send(c)
    \/ \E lost \in SUBSET Caller : CutOff(lost)

\* An open call for which something has arrived is answered.  Nothing makes
\* anybody call or post, and nothing makes an empty answer come.
Fairness == \A c \in Caller : WF_vars(Answer(c) \/ Send(c))

Spec == Init /\ [][Next]_vars /\ Fairness

=============================================================================
