------------------------------ MODULE WaitingProofs ------------------------------
(***************************************************************************)
(* For any number of callers and writers, and logs and restarts without    *)
(* bound: a cursor is a receipt, and every step of the board is a step of  *)
(* LongPoll or none at all.                                                *)
(***************************************************************************)
EXTENDS Waiting, Offsets, SequenceTheorems

-----------------------------------------------------------------------------
(* The parts of a state that cursors depend on.                            *)

\* What a client could read the moment it was posted.
OpenTo(c, i) == c \in log[i].for \ log[i].blind

\* What a stream has selected and not sent lies past its cursor, is readable, and
\* leaves out nothing that was readable from the start.
BatchOK(s) ==
    /\ batch[s] \subseteq (cursor[s] + 1)..Len(log)
    /\ \A b \in batch[s] : LP!Readable(s, b)
    /\ \A b \in batch[s] :
          \A i \in (cursor[s] + 1)..b : OpenTo(s, i) => i \in batch[s]
    /\ batch[s] # {} => pc[s] = "asked"

ServedOK ==
    /\ log \in Seq(LP!ArrivalType)
    /\ cursor \in [LP!Caller -> 0..Len(log)]
    /\ seen \in [LP!Caller -> SUBSET (1..Len(log))]
    /\ pc \in [LP!Caller -> CallState]
    /\ batch \in [Stream -> SUBSET (1..Len(log))]
    /\ \A s \in Stream : BatchOK(s)

WaitInv == ServedOK /\ CursorIsAReceipt

\* The log grows at its end, and what was readable stays readable.
LEMMA LogOnlyGrows ==
    ASSUME ServedOK, NEW e \in Arrival, log' = Append(log, e)
    PROVE  /\ log' \in Seq(LP!ArrivalType) /\ Len(log') = Len(log) + 1 /\ Len(log) \in Nat
           /\ \A i \in 1..Len(log) : log'[i] = log[i]
           /\ \A c : \A i \in 1..Len(log) : LP!Readable(c, i) => LP!Readable(c, i)'
<1>1. /\ log' \in Seq(LP!ArrivalType) /\ Len(log') = Len(log) + 1 /\ Len(log) \in Nat
      /\ \A i \in 1..Len(log) : log'[i] = log[i]
  BY WaitingAssumption DEF ServedOK
<1>2. ASSUME NEW c, NEW i \in 1..Len(log), LP!Readable(c, i) PROVE LP!Readable(c, i)'
  BY <1>1, <1>2 DEF LP!Readable
<1> QED
  BY <1>1, <1>2

LEMMA AcceptKeepsWaitInv ==
    ASSUME WaitInv, NEW w \in Writer, NEW e \in Arrival, Accept(w, e)
    PROVE  WaitInv'
<1>1. log' = Append(log, e) /\ UNCHANGED <<cursor, seen, pc, batch>> /\ ServedOK
  BY DEF Accept, WaitInv
<1>2. /\ log' \in Seq(LP!ArrivalType) /\ Len(log') = Len(log) + 1 /\ Len(log) \in Nat
      /\ \A i \in 1..Len(log) : log'[i] = log[i]
      /\ \A c : \A i \in 1..Len(log) : LP!Readable(c, i) => LP!Readable(c, i)'
  BY <1>1, LogOnlyGrows
<1>3. /\ cursor' \in [LP!Caller -> 0..Len(log')]
      /\ seen' \in [LP!Caller -> SUBSET (1..Len(log'))]
      /\ batch' \in [Stream -> SUBSET (1..Len(log'))]
  BY <1>1, <1>2 DEF ServedOK
<1>4. ASSUME NEW s \in Stream PROVE BatchOK(s)'
  <2>1. BatchOK(s) /\ s \in LP!Caller /\ cursor[s] \in Nat
    BY <1>1 DEF ServedOK, LP!Caller
  <2>2. batch[s] \subseteq 1..Len(log)
    BY <1>1 DEF ServedOK
  <2>3. batch'[s] = batch[s] /\ cursor'[s] = cursor[s] /\ pc'[s] = pc[s]
    BY <1>1
  <2>4. \A b \in batch[s] : LP!Readable(s, b)'
    BY <1>2, <2>1, <2>2 DEF BatchOK
  <2>5. \A i \in 1..Len(log) : OpenTo(s, i)' <=> OpenTo(s, i)
    BY <1>2 DEF OpenTo
  <2>6. ASSUME NEW b \in batch[s], NEW i \in (cursor[s] + 1)..b, OpenTo(s, i)'
        PROVE  i \in batch[s]
    <3>1. i \in 1..Len(log)
      BY <1>2, <2>1, <2>2
    <3> QED
      BY <3>1, <2>1, <2>5, <2>6 DEF BatchOK
  <2>7. batch[s] \subseteq (cursor[s] + 1)..Len(log')
    BY <1>2, <2>1, <2>2 DEF BatchOK
  <2> QED
    BY <2>1, <2>3, <2>4, <2>6, <2>7 DEF BatchOK
<1>5. CursorIsAReceipt'
  <2>1. \A c \in LP!Caller : cursor[c] \in 0..Len(log)
    BY <1>1 DEF ServedOK
  <2> QED
    BY <1>1, <1>2, <2>1 DEF WaitInv, CursorIsAReceipt
<1> QED
  BY <1>1, <1>2, <1>3, <1>4, <1>5 DEF WaitInv, ServedOK

-----------------------------------------------------------------------------
(* Steps that serve.                                                       *)

\* A page has all that its caller selects, so its last offset is a receipt.
LEMMA ServePageKeeps ==
    ASSUME WaitInv, NEW c \in Poller, LP!Hits(c) # {}, LP!Serve(c, LP!Hits(c)),
           UNCHANGED <<log, batch>>, pc' = [pc EXCEPT ![c] = "idle"]
    PROVE  WaitInv'
<1> DEFINE m == LP!Max(LP!Hits(c))
<1>1. c \in LP!Caller /\ ServedOK /\ c \notin Stream /\ cursor[c] \in Nat /\ Len(log) \in Nat
  BY WaitingAssumption DEF LP!Caller, WaitInv, ServedOK
<1>2. LP!Hits(c) \in SUBSET (1..Len(log))
  BY <1>1 DEF LP!Hits
<1>3. m \in LP!Hits(c) /\ \A i \in LP!Hits(c) : i <= m
  BY <1>1, <1>2, MaxOfOffsets DEF LP!Max, Max
<1>4. /\ cursor' = [cursor EXCEPT ![c] = m]
      /\ seen' = [seen EXCEPT ![c] = seen[c] \cup LP!Hits(c)]
  BY DEF LP!Serve
<1>5. m \in 1..Len(log) /\ m > cursor[c]
  BY <1>1, <1>2, <1>3 DEF LP!Hits
<1> HIDE DEF m
<1>6. ServedOK'
  <2>1. /\ cursor' \in [LP!Caller -> 0..Len(log)]
        /\ seen' \in [LP!Caller -> SUBSET (1..Len(log))]
        /\ pc' \in [LP!Caller -> CallState]
    BY <1>1, <1>2, <1>4, <1>5 DEF ServedOK, CallState
  <2>2. ASSUME NEW s \in Stream PROVE BatchOK(s)'
    <3>1. s # c /\ BatchOK(s) /\ s \in LP!Caller
      BY <1>1 DEF ServedOK, LP!Caller
    <3>2. cursor'[s] = cursor[s] /\ pc'[s] = pc[s]
      BY <1>1, <1>4, <3>1 DEF ServedOK
    <3> QED
      BY <3>1, <3>2 DEF BatchOK, OpenTo, LP!Readable
  <2> QED
    BY <2>1, <2>2, <1>1 DEF ServedOK
<1>7. ASSUME NEW d \in LP!Caller
      PROVE  /\ cursor'[d] \in {0} \cup seen'[d]
             /\ \A i \in 1..cursor'[d] : OpenTo(d, i) => i \in seen'[d]
  <2>1. /\ cursor[d] \in {0} \cup seen[d] /\ cursor[d] \in Nat
        /\ \A i \in 1..cursor[d] : OpenTo(d, i) => i \in seen[d]
    BY <1>1 DEF WaitInv, CursorIsAReceipt, OpenTo, ServedOK
  <2>2. CASE d # c
    BY <2>1, <2>2, <1>1, <1>4 DEF ServedOK
  <2>3. CASE d = c
    <3>1. cursor'[c] = m /\ seen'[c] = seen[c] \cup LP!Hits(c)
      BY <1>1, <1>4 DEF ServedOK
    <3>2. ASSUME NEW i \in 1..m, OpenTo(c, i), i > cursor[c] PROVE i \in LP!Hits(c)
      BY <3>2, <1>1, <1>5 DEF LP!Hits, LP!Readable, OpenTo
    <3>3. \A i \in 1..m : OpenTo(c, i) => i \in seen[c] \cup LP!Hits(c)
      BY <3>2, <2>1, <2>3, <1>5
    <3> QED
      BY <3>1, <3>3, <2>3, <1>3
  <2> QED
    BY <2>2, <2>3
<1> QED
  BY <1>6, <1>7 DEF WaitInv, CursorIsAReceipt, OpenTo

\* A stream is sent the first envelope of its batch: none that it selects lies between
\* its cursor and that one.
LEMMA SendKeeps ==
    ASSUME WaitInv, NEW s \in Stream, Send(s)
    PROVE  WaitInv'
<1> DEFINE m == Min(batch[s])
<1>1. s \in LP!Caller /\ ServedOK /\ BatchOK(s) /\ cursor[s] \in Nat /\ Len(log) \in Nat
  BY DEF LP!Caller, WaitInv, ServedOK
<1>2. batch[s] \in SUBSET Nat /\ batch[s] \subseteq 1..Len(log) /\ batch[s] # {}
  BY <1>1 DEF ServedOK, Send
<1>3. m \in batch[s] /\ \A i \in batch[s] : m <= i
  BY <1>2, MinOfOffsets
<1> HIDE DEF m
<1>4. LP!Max({m}) = m
  BY <1>2, <1>3 DEF LP!Max
<1>5. /\ cursor' = [cursor EXCEPT ![s] = m]
      /\ seen' = [seen EXCEPT ![s] = seen[s] \cup {m}]
      /\ batch' = [batch EXCEPT ![s] = batch[s] \ {m}]
      /\ log' = log
  BY <1>4 DEF Send, LP!Serve, m
<1>6. /\ pc' \in [LP!Caller -> CallState]
      /\ \A x \in LP!Caller : x # s => pc'[x] = pc[x]
      /\ batch'[s] # {} => pc'[s] = "asked"
  <2>1. pc' = [pc EXCEPT ![s] = "locking"] \/ (batch'[s] # {} /\ pc' = pc)
    BY DEF Send, Goto
  <2>2. pc[s] = "asked"
    BY DEF Send, At
  <2>3. batch'[s] = {} => pc' = [pc EXCEPT ![s] = "locking"]
    BY DEF Send, Goto
  <2> QED
    BY <2>1, <2>2, <2>3, <1>1 DEF ServedOK, CallState, Send
<1>7. BatchOK(s)'
  <2>1. batch'[s] = batch[s] \ {m} /\ cursor'[s] = m
    BY <1>1, <1>5 DEF ServedOK
  <2>2. batch'[s] \subseteq (m + 1)..Len(log)
    BY <1>2, <1>3, <2>1
  <2>3. ASSUME NEW b \in batch'[s], NEW i \in (m + 1)..b, OpenTo(s, i) PROVE i \in batch'[s]
    BY <1>1, <1>2, <1>3, <2>1, <2>3 DEF BatchOK
  <2>4. \A b \in batch'[s] : LP!Readable(s, b)'
    BY <1>1, <1>5, <2>1 DEF BatchOK, LP!Readable
  <2> QED
    BY <1>5, <1>6, <2>1, <2>2, <2>3, <2>4 DEF BatchOK, OpenTo
<1>8. ASSUME NEW x \in Stream, x # s PROVE BatchOK(x)'
  <2>1. BatchOK(x) /\ x \in LP!Caller
    BY <1>1 DEF ServedOK, LP!Caller
  <2>2. cursor'[x] = cursor[x] /\ batch'[x] = batch[x] /\ pc'[x] = pc[x]
    BY <1>1, <1>5, <1>6, <1>8, <2>1 DEF ServedOK
  <2> QED
    BY <1>5, <2>1, <2>2 DEF BatchOK, OpenTo, LP!Readable
<1>9. ServedOK'
  <2>1. /\ cursor' \in [LP!Caller -> 0..Len(log)]
        /\ seen' \in [LP!Caller -> SUBSET (1..Len(log))]
        /\ batch' \in [Stream -> SUBSET (1..Len(log))]
    BY <1>1, <1>2, <1>3, <1>5 DEF ServedOK
  <2> QED
    BY <2>1, <1>1, <1>5, <1>6, <1>7, <1>8 DEF ServedOK
<1>10. ASSUME NEW d \in LP!Caller
       PROVE  /\ cursor'[d] \in {0} \cup seen'[d]
              /\ \A i \in 1..cursor'[d] : OpenTo(d, i) => i \in seen'[d]
  <2>1. /\ cursor[d] \in {0} \cup seen[d] /\ cursor[d] \in Nat
        /\ \A i \in 1..cursor[d] : OpenTo(d, i) => i \in seen[d]
    BY <1>1 DEF WaitInv, CursorIsAReceipt, OpenTo, ServedOK
  <2>2. CASE d # s
    BY <2>1, <2>2, <1>1, <1>5 DEF ServedOK
  <2>3. CASE d = s
    <3>1. cursor'[s] = m /\ seen'[s] = seen[s] \cup {m}
      BY <1>1, <1>5 DEF ServedOK
    <3>2. ASSUME NEW i \in 1..m, OpenTo(s, i), i > cursor[s] PROVE i = m
      <4>1. i \in batch[s]
        BY <3>2, <1>1, <1>2, <1>3 DEF BatchOK
      <4> QED
        BY <4>1, <1>2, <1>3
    <3>3. \A i \in 1..m : OpenTo(s, i) => i \in seen[s] \cup {m}
      BY <3>2, <2>1, <2>3, <1>2, <1>3
    <3> QED
      BY <3>1, <3>3, <2>3
  <2> QED
    BY <2>2, <2>3
<1> QED
  BY <1>5, <1>9, <1>10 DEF WaitInv, CursorIsAReceipt, OpenTo

-----------------------------------------------------------------------------
(* Steps that serve nothing.                                               *)

\* A request moves on; of a stream's batch it matters only that it asked.
LEMMA MovesKeep ==
    ASSUME WaitInv, UNCHANGED <<log, cursor, seen>>,
           pc' \in [LP!Caller -> CallState], batch' \in [Stream -> SUBSET (1..Len(log))],
           \A s \in Stream :
               \/ batch'[s] = {}
               \/ batch'[s] = batch[s] /\ pc'[s] = pc[s]
               \/ batch'[s] = LP!Hits(s) /\ pc'[s] = "asked"
    PROVE  WaitInv'
<1>1. ASSUME NEW s \in Stream PROVE BatchOK(s)'
  <2>1. BatchOK(s) /\ cursor[s] \in Nat /\ Len(log) \in Nat
    BY DEF WaitInv, ServedOK, LP!Caller
  <2>2. CASE batch'[s] = {}
    BY <2>2 DEF BatchOK
  <2>3. CASE batch'[s] = batch[s] /\ pc'[s] = pc[s]
    BY <2>1, <2>3 DEF BatchOK, OpenTo, LP!Readable
  <2>4. CASE batch'[s] = LP!Hits(s) /\ pc'[s] = "asked"
    <3>1. batch'[s] \subseteq (cursor[s] + 1)..Len(log)
            /\ \A b \in batch'[s] : LP!Readable(s, b)
      BY <2>4 DEF LP!Hits
    <3>2. ASSUME NEW b \in batch'[s], NEW i \in (cursor[s] + 1)..b, OpenTo(s, i)
          PROVE  i \in batch'[s]
      BY <2>1, <2>4, <3>1, <3>2 DEF LP!Hits, LP!Readable, OpenTo
    <3>3. \A b \in batch'[s] : LP!Readable(s, b)'
      BY <3>1 DEF LP!Readable
    <3> QED
      BY <2>4, <3>1, <3>2, <3>3 DEF BatchOK, OpenTo
  <2> QED
    BY <2>2, <2>3, <2>4
<1> QED
  BY <1>1 DEF WaitInv, ServedOK, CursorIsAReceipt

\* Of a step other than one that serves or accepts, all that the invariant needs.
LEMMA GotoKeeps ==
    ASSUME WaitInv, NEW c \in LP!Caller, NEW state \in CallState, Goto(c, state),
           UNCHANGED <<log, cursor, seen, batch>>, c \in Stream => batch[c] = {}
    PROVE  WaitInv'
<1>1. pc' \in [LP!Caller -> CallState] /\ \A d \in LP!Caller : d # c => pc'[d] = pc[d]
  BY DEF Goto, WaitInv, ServedOK
<1>2. \A s \in Stream : s \in LP!Caller
  BY DEF LP!Caller
<1> QED
  BY <1>1, <1>2, MovesKeep DEF WaitInv, ServedOK

LEMMA NotifiedKeeps ==
    ASSUME WaitInv, pc' = Notified, UNCHANGED <<log, cursor, seen, batch>>
    PROVE  WaitInv'
<1>1. pc' \in [LP!Caller -> CallState]
  BY DEF Notified, WaitInv, ServedOK, CallState
<1>2. \A s \in Stream : batch[s] # {} => pc'[s] = pc[s]
  BY DEF Notified, WaitInv, ServedOK, BatchOK, LP!Caller
<1> QED
  BY <1>1, <1>2, MovesKeep DEF WaitInv, ServedOK

LEMMA StoppedKeeps ==
    ASSUME WaitInv, Stopped
    PROVE  WaitInv'
<1>1. pc' \in [LP!Caller -> CallState] /\ \A s \in Stream : batch'[s] = {}
  BY DEF Stopped, CallState
<1> QED
  BY <1>1, MovesKeep DEF Stopped

\* Only a request that has asked has a batch.
LEMMA OthersHaveNoBatch ==
    ASSUME WaitInv, NEW c \in LP!Caller, pc[c] # "asked", c \in Stream
    PROVE  batch[c] = {}
BY DEF WaitInv, ServedOK, BatchOK

LEMMA CallerKeeps ==
    ASSUME WaitInv, NEW c \in LP!Caller, Caller(c)
    PROVE  WaitInv'
<1>1. CASE Ask(c)
  BY <1>1, GotoKeeps, OthersHaveNoBatch DEF Ask, At, CallState
<1>2. CASE AnswerAtOnce(c)
  BY <1>2, ServePageKeeps DEF AnswerAtOnce, Page, Goto
<1>3. CASE StartWaiting(c)
  BY <1>3, GotoKeeps, WaitingAssumption DEF StartWaiting, CallState
<1>4. CASE Scan(c)
  <2>1. c \in Stream /\ pc[c] = "asked" /\ UNCHANGED <<log, cursor, seen>>
          /\ batch' = [batch EXCEPT ![c] = LP!Hits(c)]
    BY <1>4 DEF Scan, At
  <2>2. \/ LP!Hits(c) = {} /\ \E state \in CallState : Goto(c, state)
        \/ LP!Hits(c) # {} /\ pc' = pc
    BY <1>4 DEF Scan, Park, CallState
  <2>3. pc' \in [LP!Caller -> CallState] /\ \A d \in LP!Caller : d # c => pc'[d] = pc[d]
    BY <2>2 DEF Goto, WaitInv, ServedOK
  <2>4. LP!Hits(c) \in SUBSET (1..Len(log))
    BY DEF LP!Hits, WaitInv, ServedOK
  <2>5. /\ batch' \in [Stream -> SUBSET (1..Len(log))]
        /\ batch'[c] = LP!Hits(c) /\ \A s \in Stream : s # c => batch'[s] = batch[s]
    BY <2>1, <2>4 DEF WaitInv, ServedOK
  <2>6. LP!Hits(c) = {} \/ pc'[c] = "asked"
    BY <2>1, <2>2
  <2> QED
    BY <2>1, <2>3, <2>5, <2>6, MovesKeep DEF LP!Caller
<1>5. CASE Send(c)
  BY <1>5, SendKeeps DEF Send
<1>6. CASE Lock(c)
  BY <1>6, GotoKeeps, OthersHaveNoBatch DEF Lock, At, CallState
<1>7. CASE FirstLook(c)
  BY <1>7, GotoKeeps, OthersHaveNoBatch DEF FirstLook, Look, At, CallState
<1>8. CASE LookAgain(c)
  BY <1>8, GotoKeeps, OthersHaveNoBatch DEF LookAgain, Look, At, CallState
<1>9. CASE Expire(c)
  BY <1>9, GotoKeeps, OthersHaveNoBatch DEF Expire, CallState
<1>10. CASE Unpark(c)
  BY <1>10, GotoKeeps, OthersHaveNoBatch DEF Unpark, At, CallState
<1>11. CASE Answer(c)
  <2>1. CASE LP!Hits(c) = {}
    BY <1>11, <2>1, GotoKeeps, WaitingAssumption DEF Answer, Page, CallState
  <2>2. CASE LP!Hits(c) # {}
    BY <1>11, <2>2, ServePageKeeps DEF Answer, Page, Goto
  <2> QED
    BY <2>1, <2>2
<1>12. CASE Resume(c)
  BY <1>12, GotoKeeps, OthersHaveNoBatch DEF Resume, At, CallState
<1> QED
  BY <1>1, <1>2, <1>3, <1>4, <1>5, <1>6, <1>7, <1>8, <1>9, <1>10, <1>11, <1>12 DEF Caller

LEMMA NextKeepsWaitInv == WaitInv /\ [Next]_vars => WaitInv'
<1> SUFFICES ASSUME WaitInv, [Next]_vars PROVE WaitInv'
  OBVIOUS
<1>1. ASSUME UNCHANGED <<log, cursor, seen, pc, batch>> PROVE WaitInv'
  BY <1>1, MovesKeep DEF WaitInv, ServedOK
<1>2. ASSUME NEW w \in Writer, Poster(w) PROVE WaitInv'
  <2>1. CASE Submit(w) \/ Refuse(w)
    BY <2>1, <1>1 DEF Submit, Refuse
  <2>2. CASE \E e \in Arrival : Accept(w, e)
    BY <2>2, AcceptKeepsWaitInv
  <2>3. CASE Ring(w)
    BY <2>3, NotifiedKeeps DEF Ring
  <2> QED
    BY <1>2, <2>1, <2>2, <2>3 DEF Poster
<1>3. CASE Process
  <2>1. CASE Signal \/ BeginShutdown \/ StopAccepting \/ Start
    BY <2>1, <1>1 DEF Signal, BeginShutdown, StopAccepting, Start
  <2>2. CASE Rouse
    BY <2>2, NotifiedKeeps DEF Rouse
  <2>3. CASE Exit \/ Kill
    BY <2>3, StoppedKeeps DEF Exit, Kill
  <2> QED
    BY <1>3, <2>1, <2>2, <2>3 DEF Process
<1>4. CASE UNCHANGED vars
  BY <1>1, <1>4 DEF vars
<1> QED
  BY <1>2, <1>3, <1>4, CallerKeeps DEF Next

LEMMA InitWaitInv == Init => WaitInv
<1> SUFFICES ASSUME Init PROVE WaitInv
  OBVIOUS
<1>1. log = << >> /\ Len(log) = 0 /\ log \in Seq(LP!ArrivalType)
  BY DEF Init
<1> QED
  BY <1>1 DEF Init, WaitInv, ServedOK, BatchOK, CursorIsAReceipt, CallState, LP!Caller

\* Whoever waits, posts, times out or is cut off, and however often the board stops
\* and starts: what a cursor has passed was served (api.py wait, feed, subscribe).
THEOREM CursorsAreReceipts == Spec => []CursorIsAReceipt
<1>1. WaitInv => CursorIsAReceipt
  BY DEF WaitInv
<1> QED
  BY <1>1, InitWaitInv, NextKeepsWaitInv, PTL DEF Spec

-----------------------------------------------------------------------------
(* The board implements LongPoll, but for its fairness.                    *)

\* A call is open from its request to its answer.
LEMMA OpenMoves ==
    ASSUME WaitInv, NEW c \in LP!Caller, NEW state, Goto(c, state)
    PROVE  open' = IF state = "idle" THEN open \ {c} ELSE open \cup {c}
<1>1. pc \in [LP!Caller -> CallState] /\ pc' = [pc EXCEPT ![c] = state]
  BY DEF WaitInv, ServedOK, Goto
<1> QED
  BY <1>1 DEF open, LP!Caller

LEMMA NotifiedStutters ==
    ASSUME WaitInv, pc' = Notified
    PROVE  open' = open
<1>1. \A c \in LP!Caller : pc'[c] # "idle" <=> pc[c] # "idle"
  BY DEF Notified
<1> QED
  BY <1>1 DEF open, LP!Caller

\* Steps of a call that has not come to its answer.
LEMMA WaitingStutters ==
    ASSUME WaitInv, NEW c \in LP!Caller,
           \/ StartWaiting(c) \/ Lock(c) \/ FirstLook(c)
           \/ LookAgain(c) \/ Expire(c) \/ Unpark(c)
    PROVE  UNCHANGED LP!vars
<1>1. pc[c] # "idle" /\ UNCHANGED <<log, cursor, seen>>
  BY DEF StartWaiting, Lock, FirstLook, LookAgain, Expire, Unpark, At
<1>2. pc' = pc \/ \E state : state # "idle" /\ Goto(c, state)
  BY DEF StartWaiting, Lock, FirstLook, LookAgain, Look, Expire, Unpark
<1>3. c \in open
  BY <1>1 DEF open, LP!Caller
<1>4. open' = open
  <2>1. CASE pc' = pc
    BY <2>1 DEF open
  <2>2. CASE \E state : state # "idle" /\ Goto(c, state)
    BY <2>2, <1>3, OpenMoves
  <2> QED
    BY <1>2, <2>1, <2>2
<1> QED
  BY <1>1, <1>4 DEF LP!vars

LEMMA CallerSimulates ==
    ASSUME WaitInv, NEW c \in LP!Caller, Caller(c)
    PROVE  LP!Next \/ UNCHANGED LP!vars
<1>1. CASE Ask(c)
  <2>1. c \notin open /\ open' = open \cup {c}
    BY <1>1, OpenMoves DEF Ask, At, open
  <2>2. LP!Ask(c)
    BY <2>1, <1>1 DEF LP!Ask, Ask
  <2> QED
    BY <2>2 DEF LP!Next
<1>2. CASE AnswerAtOnce(c) \/ Answer(c)
  <2>1. c \in Poller /\ pc[c] # "idle" /\ Page(c) /\ Goto(c, "idle") /\ log' = log
    BY <1>2 DEF AnswerAtOnce, Answer, At
  <2>2. c \in open /\ open' = open \ {c}
    BY <2>1, OpenMoves DEF open
  <2>3. CASE LP!Hits(c) = {}
    <3>1. LP!AnswerEmpty(c)
      BY <2>1, <2>2, <2>3 DEF LP!AnswerEmpty, Page
    <3> QED
      BY <3>1 DEF LP!Next
  <2>4. CASE LP!Hits(c) # {}
    <3>1. LP!Answer(c)
      BY <2>1, <2>2, <2>4 DEF LP!Answer, Page
    <3> QED
      BY <3>1 DEF LP!Next
  <2> QED
    BY <2>3, <2>4
<1>3. CASE Send(c)
  <2> DEFINE m == Min(batch[c])
  <2>1. /\ c \in Stream /\ pc[c] = "asked" /\ batch[c] # {} /\ log' = log
        /\ LP!Serve(c, {m}) /\ (pc' = pc \/ Goto(c, "locking"))
    BY <1>3 DEF Send, At
  <2>2. BatchOK(c) /\ batch[c] \in SUBSET (1..Len(log)) /\ Len(log) \in Nat
    BY <2>1 DEF WaitInv, ServedOK
  <2>3. m \in batch[c]
    BY <2>1, <2>2, MinOfOffsets
  <2> HIDE DEF m
  <2>4. m \in LP!Hits(c)
    BY <2>2, <2>3 DEF BatchOK, LP!Hits
  <2>5. c \in open /\ open' = open
    BY <2>1, OpenMoves DEF open
  <2>6. LP!Send(c)
    BY <2>1, <2>4, <2>5 DEF LP!Send
  <2> QED
    BY <2>6 DEF LP!Next
<1>4. CASE Scan(c) \/ Resume(c)
  <2>1. c \in Stream /\ pc[c] # "idle" /\ UNCHANGED <<log, cursor, seen>>
    BY <1>4 DEF Scan, Resume, At
  <2>2. pc' = pc \/ \E state : Goto(c, state)
    BY <1>4 DEF Scan, Park, Resume
  <2>3. c \in open /\ (open' = open \ {c} \/ open' = open)
    BY <2>1, <2>2, OpenMoves DEF open
  <2>4. CASE open' = open \ {c}
    <3>1. LP!CutOff({c})
      BY <2>1, <2>3, <2>4 DEF LP!CutOff
    <3> QED
      BY <3>1 DEF LP!Next
  <2> QED
    BY <2>1, <2>3, <2>4 DEF LP!vars
<1> QED
  BY <1>1, <1>2, <1>3, <1>4, WaitingStutters DEF Caller

LEMMA StepIsLongPoll == WaitInv /\ [Next]_vars => [LP!Next]_(LP!vars)
<1> SUFFICES ASSUME WaitInv, [Next]_vars PROVE LP!Next \/ UNCHANGED LP!vars
  OBVIOUS
<1>1. ASSUME UNCHANGED <<log, cursor, seen, pc>> PROVE UNCHANGED LP!vars
  BY <1>1 DEF LP!vars, open
<1>2. ASSUME NEW w \in Writer, Poster(w) PROVE LP!Next \/ UNCHANGED LP!vars
  <2>1. CASE Submit(w) \/ Refuse(w)
    BY <2>1, <1>1 DEF Submit, Refuse
  <2>2. ASSUME NEW e \in Arrival, Accept(w, e) PROVE LP!Next
    <3>1. LP!Arrive(e)
      BY <2>2 DEF LP!Arrive, Accept, open
    <3> QED
      BY <3>1 DEF LP!Next
  <2>3. CASE Ring(w)
    BY <2>3, NotifiedStutters DEF Ring, LP!vars
  <2> QED
    BY <1>2, <2>1, <2>2, <2>3 DEF Poster
<1>3. CASE Process
  <2>1. CASE Signal \/ BeginShutdown \/ StopAccepting \/ Start
    BY <2>1, <1>1 DEF Signal, BeginShutdown, StopAccepting, Start
  <2>2. CASE Rouse
    BY <2>2, NotifiedStutters DEF Rouse, LP!vars
  <2>3. CASE Exit \/ Kill
    <3>1. UNCHANGED <<log, cursor, seen>> /\ open' = {}
      BY <2>3 DEF Exit, Kill, Stopped, open, LP!Caller
    <3>2. CASE open = {}
      BY <3>1, <3>2 DEF LP!vars
    <3>3. CASE open # {}
      <4>1. LP!CutOff(open) /\ open \in SUBSET LP!Caller
        BY <3>1, <3>3 DEF LP!CutOff, open, LP!Caller
      <4> QED
        BY <4>1 DEF LP!Next
    <3> QED
      BY <3>2, <3>3
  <2> QED
    BY <1>3, <2>1, <2>2, <2>3 DEF Process
<1>4. CASE UNCHANGED vars
  BY <1>1, <1>4 DEF vars
<1> QED
  BY <1>2, <1>3, <1>4, CallerSimulates DEF Next

\* Every behaviour of the board is one that LongPoll allows, step by step; that an
\* answer comes at all rests on fairness and is checked by TLC (ImplementsLongPoll).
THEOREM BoardStepsLikeLongPoll == Spec => LP!Init /\ [][LP!Next]_(LP!vars)
<1>1. Init => LP!Init
  BY DEF Init, LP!Init, open, LP!Caller
<1> QED
  BY <1>1, InitWaitInv, NextKeepsWaitInv, StepIsLongPoll, PTL DEF Spec

=============================================================================
