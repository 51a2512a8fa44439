------------------------------ MODULE ClientsProofs ------------------------------
(***************************************************************************)
(* Proofs, for logs, outages, kills, attempts and runs without bound, of   *)
(* the safety properties of a retried write and of a watch.                *)
(***************************************************************************)
EXTENDS Clients, Offsets, FiniteSetTheorems, SequenceTheorems, TLAPS

-----------------------------------------------------------------------------
(* The log grows at its end, if at all.                                     *)

\* A step of the system leaves the log alone or appends one envelope.
Grows == log' = log \/ \E e \in Posted : log' = Append(log, e)

LEMMA LogGrows ==
    ASSUME log \in Seq(Posted), NEW e \in Posted, log' = Append(log, e)
    PROVE  /\ Len(log) \in Nat /\ log' \in Seq(Posted) /\ Len(log') = Len(log) + 1
           /\ \A i \in 1..Len(log) : log'[i] = log[i]
           /\ log'[Len(log) + 1] = e
BY AppendProperties, LenProperties

\* One more envelope with the key, or as many as before.
LEMMA LandedGrows ==
    ASSUME log \in Seq(Posted), NEW e \in Posted, log' = Append(log, e)
    PROVE  /\ IsFiniteSet(Landed) /\ Cardinality(Landed) \in Nat
           /\ e.key # Key => Landed' = Landed
           /\ e.key = Key =>
                 /\ Landed' = Landed \cup {Len(log) + 1}
                 /\ Cardinality(Landed') = Cardinality(Landed) + 1
<1> DEFINE n == Len(log)
<1>1. /\ n \in Nat /\ Len(log') = n + 1
      /\ \A i \in 1..n : log'[i] = log[i]
      /\ log'[n + 1] = e
  BY LogGrows
<1> HIDE DEF n
<1>2. Landed = {i \in 1..n : log[i].key = Key}
  BY DEF Landed, n
<1>3. Landed' = {i \in 1..(n + 1) : log'[i].key = Key}
  BY <1>1 DEF Landed
<1>4. IsFiniteSet(Landed) /\ Cardinality(Landed) \in Nat
  <2>1. IsFiniteSet(1..n)
    BY <1>1, FS_Interval
  <2>2. IsFiniteSet(Landed)
    BY <1>2, <2>1, FS_Subset
  <2> QED
    BY <2>2, FS_CardinalityType
<1>5. ASSUME e.key # Key PROVE Landed' = Landed
  BY <1>1, <1>2, <1>3, <1>5
<1>6. ASSUME e.key = Key
      PROVE  Landed' = Landed \cup {n + 1} /\ Cardinality(Landed') = Cardinality(Landed) + 1
  <2>1. Landed' = Landed \cup {n + 1} /\ n + 1 \notin Landed
    BY <1>1, <1>2, <1>3, <1>6
  <2> QED
    BY <1>4, <2>1, FS_AddElement
<1> QED
  BY <1>4, <1>5, <1>6 DEF n

\* Landed is finite, and empty exactly when it counts nothing.
LEMMA LandedCounts ==
    ASSUME log \in Seq(Posted)
    PROVE  /\ IsFiniteSet(Landed) /\ Cardinality(Landed) \in Nat
           /\ Cardinality(Landed) = 0 <=> Landed = {}
<1>1. Len(log) \in Nat
  BY LenProperties
<1>2. IsFiniteSet(1..Len(log))
  BY <1>1, FS_Interval
<1>3. IsFiniteSet(Landed)
  BY <1>2, FS_Subset DEF Landed
<1> QED
  BY <1>3, FS_CardinalityType, FS_EmptySet

-----------------------------------------------------------------------------
(* The retried write.                                                       *)

\* While the client means to post (again), every envelope with its key is one
\* that the network delivered late; what a look has found is on the log.
WriteInv ==
    /\ log \in Seq(Posted) /\ late \in Nat
    /\ Cardinality(Landed) <= 1 + late
    /\ write = "ready" => Cardinality(Landed) <= late
    /\ write = "probed" => found \subseteq Landed
    /\ write = "probed" /\ found = {} => Cardinality(Landed) <= late
    /\ VerdictIsTrue

\* Steps that are not the writer's append nothing with its key.
LEMMA OthersKeepWriteInv ==
    ASSUME WriteInv, UNCHANGED writeVars,
           log' = log \/ \E mine \in BOOLEAN : log' = Append(log, [key |-> NoKey, mine |-> mine])
    PROVE  WriteInv'
<1>1. log' \in Seq(Posted) /\ Landed' = Landed
  <2>1. CASE log' = log
    BY <2>1 DEF WriteInv, Landed
  <2>2. CASE \E mine \in BOOLEAN : log' = Append(log, [key |-> NoKey, mine |-> mine])
    <3>1. PICK mine \in BOOLEAN : log' = Append(log, [key |-> NoKey, mine |-> mine])
      BY <2>2
    <3>2. [key |-> NoKey, mine |-> mine] \in Posted /\ NoKey # Key
      BY RemoteAssumption DEF Posted
    <3> QED
      BY <3>1, <3>2, LogGrows, LandedGrows DEF WriteInv
  <2> QED
    BY <2>1, <2>2
<1> QED
  BY <1>1 DEF WriteInv, VerdictIsTrue, writeVars

LEMMA WriteKeepsWriteInv ==
    ASSUME AuthorReadsBack, WriteInv, Write
    PROVE  WriteInv'
<1> DEFINE Mine == [key |-> Key, mine |-> FALSE]
<1>1. Mine \in Posted /\ Mine.key = Key
  BY DEF Posted
<1>2. /\ IsFiniteSet(Landed) /\ Cardinality(Landed) \in Nat
      /\ Cardinality(Landed) = 0 <=> Landed = {}
  BY LandedCounts DEF WriteInv
<1>3. ASSUME Land
      PROVE  /\ log' \in Seq(Posted) /\ Landed' # {} /\ Landed \subseteq Landed'
             /\ Cardinality(Landed') = Cardinality(Landed) + 1
  BY <1>1, <1>3, LogGrows, LandedGrows DEF Land, WriteInv
<1>4. ASSUME log' = log PROVE Landed' = Landed
  BY <1>4 DEF Landed
<1>5. CASE PostAnswered
  BY <1>2, <1>3, <1>5 DEF PostAnswered, WriteInv, VerdictIsTrue
<1>6. CASE PostRefused
  BY <1>2, <1>4, <1>6 DEF PostRefused, WriteInv, VerdictIsTrue, remoteVars
<1>7. CASE CleanRefusal
  BY <1>2, <1>4, <1>7 DEF CleanRefusal, WriteInv, VerdictIsTrue, remoteVars
<1>8. CASE AnswerLost
  BY <1>2, <1>3, <1>8 DEF AnswerLost, Unclear, WriteInv, VerdictIsTrue
<1>9. CASE RequestLost
  BY <1>2, <1>4, <1>9 DEF RequestLost, Unclear, WriteInv, VerdictIsTrue, remoteVars
<1>10. CASE LateArrival
  <2>1. CASE Land /\ late' = late + 1
    BY <1>2, <1>3, <1>10, <2>1 DEF LateArrival, WriteInv, VerdictIsTrue
  <2>2. CASE UNCHANGED <<late, remoteVars>>
    BY <1>2, <1>4, <1>10, <2>2 DEF LateArrival, WriteInv, VerdictIsTrue, remoteVars
  <2> QED
    BY <1>10, <2>1, <2>2 DEF LateArrival
<1>11. CASE Probe
  BY <1>2, <1>4, <1>11 DEF Probe, WriteInv, VerdictIsTrue, remoteVars
<1>12. CASE ProbeFails
  BY <1>2, <1>4, <1>12 DEF ProbeFails, LookAgain, WriteInv, VerdictIsTrue, remoteVars
<1>13. CASE Verdict
  <2>1. /\ write = "probed" /\ found \subseteq Landed
        /\ late' = late /\ found' = found /\ log' = log /\ Landed' = Landed
    BY <1>4, <1>13 DEF Verdict, WriteInv, remoteVars
  <2>2. IsFiniteSet(found) /\ Cardinality(found) \in Nat /\ Cardinality(found) <= Cardinality(Landed)
    BY <1>2, <2>1, FS_Subset, FS_CardinalityType
  <2>3. Cardinality(found) = 0 <=> found = {}
    BY <2>2, FS_EmptySet
  <2>4. CASE Cardinality(found) = 1 /\ write' = "recovered"
    <3>1. Landed # {}
      BY <2>1, <2>3, <2>4
    <3> QED
      BY <1>2, <2>1, <2>4, <3>1 DEF WriteInv, VerdictIsTrue
  <2>5. CASE Cardinality(found) > 1 /\ write' = "duplicated"
    <3>1. late > 0
      BY <1>2, <2>2, <2>5 DEF WriteInv
    <3> QED
      BY <1>2, <2>1, <2>5, <3>1 DEF WriteInv, VerdictIsTrue
  <2>6. CASE Cardinality(found) = 0 /\ write' = "ready"
    <3>1. Cardinality(Landed) <= late
      BY <2>1, <2>3, <2>6 DEF WriteInv
    <3> QED
      BY <1>2, <2>1, <2>6, <3>1 DEF WriteInv, VerdictIsTrue
  <2> QED
    BY <1>13, <2>2, <2>4, <2>5, <2>6 DEF Verdict
<1>14. CASE RunAgain
  <2>1. Landed = {} /\ Landed' = Landed /\ log' = log /\ late' = late /\ write' = "ready"
    BY <1>4, <1>14 DEF RunAgain, remoteVars
  <2>2. Cardinality(Landed') <= late'
    BY <1>2, <2>1 DEF WriteInv
  <2> QED
    BY <1>2, <2>1, <2>2 DEF WriteInv, VerdictIsTrue
<1> QED
  BY <1>5, <1>6, <1>7, <1>8, <1>9, <1>10, <1>11, <1>12, <1>13, <1>14 DEF Write

LEMMA NextKeepsWriteInv ==
    ASSUME AuthorReadsBack, WriteInv, [Next]_vars
    PROVE  WriteInv'
<1>1. CASE Board
  <2>1. CASE \E mine \in BOOLEAN : Arrive(mine) /\ Others
    <3>1. UNCHANGED writeVars
           /\ \E mine \in BOOLEAN : log' = Append(log, [key |-> NoKey, mine |-> mine])
      BY <2>1 DEF Arrive, Others
    <3> QED
      BY <3>1, OthersKeepWriteInv
  <2>2. CASE (SayGoodbye \/ GoDown \/ ComeUp) /\ Others
    <3>1. UNCHANGED writeVars /\ log' = log
      BY <2>2 DEF SayGoodbye, GoDown, ComeUp, Others
    <3> QED
      BY <3>1, OthersKeepWriteInv
  <2> QED
    BY <1>1, <2>1, <2>2 DEF Board
<1>2. CASE WatchStep \/ BellStep \/ UNCHANGED vars
  <2>1. UNCHANGED writeVars /\ log' = log
    BY <1>2 DEF WatchStep, BellStep, vars, remoteVars
  <2> QED
    BY <2>1, OthersKeepWriteInv
<1>3. CASE WriteStep
  BY <1>3, WriteKeepsWriteInv DEF WriteStep
<1> QED
  BY <1>1, <1>2, <1>3 DEF Next

LEMMA InitWriteInv == Init => WriteInv
<1> SUFFICES ASSUME Init PROVE WriteInv
  OBVIOUS
<1>1. log = << >> /\ late = 0 /\ write = "ready" /\ found = {}
  BY DEF Init, RemoteInit, WriteInit
<1>2. Landed = {}
  BY <1>1 DEF Landed
<1>3. Cardinality(Landed) = 0
  BY <1>2, FS_EmptySet
<1> QED
  BY <1>1, <1>2, <1>3 DEF WriteInv, VerdictIsTrue

\* An author that may read what it wrote never writes it twice by retrying, however
\* often answers are lost, looks fail and the board restarts, and however often a
\* person runs the write again: envelopes beyond the first came from the network
\* (client.py post_with_retry).
THEOREM WrittenOnce ==
    ASSUME AuthorReadsBack
    PROVE  Spec => []RetryNeverDuplicates
<1>1. WriteInv /\ [Next]_vars => WriteInv'
  BY NextKeepsWriteInv
<1>2. WriteInv => RetryNeverDuplicates
  BY DEF WriteInv, RetryNeverDuplicates
<1> QED
  BY <1>1, <1>2, InitWriteInv, PTL DEF Spec

\* What the client says of its write at the end is so.
THEOREM VerdictIsNeverWrong ==
    ASSUME AuthorReadsBack
    PROVE  Spec => []VerdictIsTrue
<1>1. WriteInv /\ [Next]_vars => WriteInv'
  BY NextKeepsWriteInv
<1>2. WriteInv => VerdictIsTrue
  BY DEF WriteInv
<1> QED
  BY <1>1, <1>2, InitWriteInv, PTL DEF Spec

-----------------------------------------------------------------------------
(* The watch.                                                               *)

\* Everything the consumer selects up to offset k was emitted.
Told(k) == \A i \in Selected : base < i /\ i <= k => i \in emitted

\* Nothing past offset k was emitted.
NoneAfter(k) == \A i \in emitted : i <= k

Polling == {"polling", "paged", "quiet", "emitted"}

Polled == {"paged", "quiet", "emitted"}

\* Between a poll and its commit the staged cursor stands for exactly the page in
\* hand; a watch that has never been killed has emitted nothing past its cursor.
WatchInv ==
    /\ log \in Seq(Posted) /\ kills \in Nat
    /\ base \in Nat /\ file \in 0..Len(log)
    /\ watch \in WatchState
    /\ Told(file)
    /\ watch \in Polling => since = file
    /\ watch \in Polled =>
          /\ staged \in file..Len(log)
          /\ page \subseteq (file + 1)..staged
          /\ \A i \in Selected : file < i /\ i <= staged => i \in page
    /\ watch = "quiet" => page = {}
    /\ watch = "emitted" => page \subseteq emitted
    /\ emitted \subseteq Nat
    /\ kills = 0 =>
          /\ again = {}
          /\ watch # "emitted" => NoneAfter(file)
          /\ watch = "emitted" => NoneAfter(staged)

\* What was selected so far stays so when the log grows.
LEMMA SelectedGrows ==
    ASSUME log \in Seq(Posted), log' = log \/ \E e \in Posted : log' = Append(log, e)
    PROVE  /\ log' \in Seq(Posted) /\ Len(log) \in Nat /\ Len(log') \in Nat
           /\ Len(log) <= Len(log')
           /\ \A i \in Selected' : i <= Len(log) => i \in Selected
           /\ \A i \in Selected' : i \in Nat
<1>1. Len(log) \in Nat
  BY LenProperties
<1>2. CASE log' = log
  BY <1>1, <1>2 DEF Selected
<1>3. CASE \E e \in Posted : log' = Append(log, e)
  <2>1. PICK e \in Posted : log' = Append(log, e)
    BY <1>3
  <2>2. /\ log' \in Seq(Posted) /\ Len(log') = Len(log) + 1
        /\ \A i \in 1..Len(log) : log'[i] = log[i]
    BY <2>1, LogGrows
  <2> QED
    BY <1>1, <2>2 DEF Selected
<1> QED
  BY <1>2, <1>3

LEMMA OthersKeepWatchInv ==
    ASSUME WatchInv, UNCHANGED watchVars,
           log' = log \/ \E e \in Posted : log' = Append(log, e)
    PROVE  WatchInv'
<1>1. /\ log' \in Seq(Posted) /\ Len(log) \in Nat /\ Len(log') \in Nat
      /\ Len(log) <= Len(log')
      /\ \A i \in Selected' : i <= Len(log) => i \in Selected
      /\ \A i \in Selected' : i \in Nat
  BY SelectedGrows DEF WatchInv
<1>2. /\ watch' = watch /\ file' = file /\ staged' = staged /\ since' = since
      /\ page' = page /\ emitted' = emitted /\ again' = again /\ base' = base
      /\ kills' = kills
  BY DEF watchVars
<1>3. Told(file)'
  BY <1>1, <1>2 DEF WatchInv, Told
<1>4. ASSUME watch' \in Polled
      PROVE  /\ staged' \in file'..Len(log') /\ page' \subseteq (file' + 1)..staged'
             /\ \A i \in Selected' : file' < i /\ i <= staged' => i \in page'
  BY <1>1, <1>2, <1>4 DEF WatchInv
<1> QED
  BY <1>1, <1>2, <1>3, <1>4 DEF WatchInv, NoneAfter, Polling

LEMMA WatchKeepsWatchInv ==
    ASSUME WatchInv, Watch, log' = log
    PROVE  WatchInv'
<1>1. /\ Selected' = Selected /\ Len(log') = Len(log) /\ Len(log) \in Nat
      /\ \A i \in Selected : i \in 1..Len(log)
  BY LenProperties DEF Selected, WatchInv
<1>2. file # Absent /\ base # Absent
  BY <1>1, WatchAssumption DEF WatchInv
<1>3. CASE Arm
  BY <1>1, <1>3 DEF Arm, WatchInv, Told, NoneAfter, Polling, Polled, WatchState
<1>4. CASE Resolve
  <2>1. /\ since' = file /\ base' = base /\ watch' = "polling"
        /\ UNCHANGED <<repeat, file, staged, page, emitted, again, kills>>
        /\ watch = "resolving"
    BY <1>2, <1>4 DEF Resolve, Seed
  <2> QED
    BY <1>1, <2>1 DEF WatchInv, Told, NoneAfter, Polling, Polled, WatchState
<1>5. CASE Poll
  <2>1. /\ page' = Hits(since) /\ staged' = CursorAfter(since, page')
        /\ UNCHANGED <<repeat, file, since, emitted, again, base, kills>>
        /\ watch = "polling" /\ since = file
        /\ watch' \in {"paged", "quiet"} /\ (watch' = "quiet" => page' = {})
    BY <1>5 DEF Poll, Stage, WatchInv, Polling
  <2>2. page' = {i \in (file + 1)..Len(log) : log[i].mine}
    BY <2>1 DEF Hits
  <2>3. /\ staged' \in file..Len(log) /\ page' \subseteq (file + 1)..staged'
        /\ \A i \in Selected : file < i /\ i <= staged' => i \in page'
    <3>1. CASE page' = {}
      <4>1. staged' = file
        BY <2>1, <3>1 DEF CursorAfter
      <4> QED
        BY <1>1, <3>1, <4>1 DEF WatchInv
    <3>2. CASE page' # {}
      <4>1. file \in Nat /\ page' \subseteq 1..Len(log)
        BY <1>1, <2>2 DEF WatchInv
      <4>2. staged' \in page' /\ \A y \in page' : y <= staged'
        BY <1>1, <2>1, <3>2, <4>1, MaxOfOffsets DEF CursorAfter
      <4> QED
        BY <1>1, <2>2, <4>1, <4>2 DEF Selected
    <3> QED
      BY <3>1, <3>2
  <2> QED
    BY <1>1, <2>1, <2>3 DEF WatchInv, Told, NoneAfter, Polling, Polled, WatchState
<1>6. CASE PollFails
  BY <1>1, <1>6 DEF PollFails, WatchInv, Told, NoneAfter, Polling, Polled, WatchState
<1>7. CASE BackOff
  BY <1>1, <1>7 DEF BackOff, WatchInv, Told, NoneAfter, Polling, Polled, WatchState
<1>8. CASE Emit
  <2>1. /\ watch = "paged" /\ watch' = "emitted" /\ emitted' = emitted \cup page
        /\ again' = again \cup (emitted \cap page)
        /\ UNCHANGED <<repeat, file, staged, since, page, base, kills>>
    BY <1>8 DEF Emit
  <2>2. /\ staged \in file..Len(log) /\ page \subseteq (file + 1)..staged
        /\ file \in Nat /\ staged \in Nat
    BY <1>1, <2>1 DEF WatchInv, Polled
  <2>3. ASSUME kills = 0 PROVE again' = {} /\ NoneAfter(staged)'
    <3>1. again = {} /\ \A i \in emitted : i \in Nat /\ i <= file
      BY <2>1, <2>3 DEF WatchInv, NoneAfter
    <3>2. \A i \in page : i \in Nat /\ file < i /\ i <= staged
      BY <2>2
    <3>3. emitted \cap page = {}
      BY <2>2, <3>1, <3>2
    <3>4. \A i \in emitted : i <= staged
      <4>1. file <= staged
        BY <1>1, <2>2
      <4> QED
        BY <2>2, <3>1, <4>1
    <3>5. emitted' = emitted \cup page /\ staged' = staged
      BY <2>1
    <3>6. \A i \in emitted' : i <= staged'
      BY <3>2, <3>4, <3>5
    <3> QED
      BY <2>1, <3>1, <3>3, <3>6 DEF NoneAfter
  <2> QED
    BY <1>1, <2>1, <2>2, <2>3 DEF WatchInv, Told, Polling, Polled, WatchState
<1>9. CASE Commit
  <2>1. /\ watch \in {"emitted", "quiet"} /\ watch \in Polled
        /\ staged \in file..Len(log) /\ page \subseteq (file + 1)..staged
        /\ \A i \in Selected : file < i /\ i <= staged => i \in page
    BY <1>9 DEF Commit, WatchInv, Polled
  <2>2. staged # Absent /\ file \in Nat /\ staged \in Nat
    BY <1>1, <2>1, WatchAssumption DEF WatchInv
  <2>3. /\ file' = staged /\ watch' \in {"resolving", "off"}
        /\ UNCHANGED <<repeat, since, emitted, again, base, kills>>
    BY <1>9, <2>2 DEF Commit
  <2>4. Told(file)'
    BY <1>1, <2>1, <2>2, <2>3 DEF WatchInv, Told
  <2>5. ASSUME kills = 0 PROVE NoneAfter(file)'
    BY <2>1, <2>2, <2>3, <2>5 DEF WatchInv, NoneAfter
  <2> QED
    BY <1>1, <2>1, <2>2, <2>3, <2>4, <2>5 DEF WatchInv, Polling, Polled, WatchState
<1>10. CASE KillWatch
  BY <1>1, <1>10 DEF KillWatch, WatchInv, Told, NoneAfter, Polling, Polled, WatchState
<1> QED
  BY <1>3, <1>4, <1>5, <1>6, <1>7, <1>8, <1>9, <1>10 DEF Watch

LEMMA NextKeepsWatchInv ==
    ASSUME WatchInv, [Next]_vars
    PROVE  WatchInv'
<1>1. /\ [key |-> Key, mine |-> FALSE] \in Posted
      /\ \A mine \in BOOLEAN : [key |-> NoKey, mine |-> mine] \in Posted
  BY DEF Posted
<1>2. CASE Board
  <2>1. UNCHANGED watchVars /\ (log' = log \/ \E e \in Posted : log' = Append(log, e))
    BY <1>1, <1>2 DEF Board, Arrive, SayGoodbye, GoDown, ComeUp, Others
  <2> QED
    BY <2>1, OthersKeepWatchInv
<1>3. CASE WatchStep
  BY <1>3, WatchKeepsWatchInv DEF WatchStep, remoteVars
<1>4. CASE BellStep \/ UNCHANGED vars
  <2>1. UNCHANGED watchVars /\ log' = log
    BY <1>4 DEF BellStep, vars, remoteVars
  <2> QED
    BY <2>1, OthersKeepWatchInv
<1>5. CASE WriteStep
  <2>1. UNCHANGED watchVars
    BY <1>5 DEF WriteStep
  <2>2. log' = log \/ Land
    BY <1>5 DEF WriteStep, Write, PostAnswered, PostRefused, CleanRefusal, AnswerLost,
       RequestLost, LateArrival, Probe, ProbeFails, Verdict, RunAgain, remoteVars
  <2>3. log' = log \/ \E e \in Posted : log' = Append(log, e)
    BY <1>1, <2>2 DEF Land
  <2> QED
    BY <2>1, <2>3, OthersKeepWatchInv
<1> QED
  BY <1>2, <1>3, <1>4, <1>5 DEF Next

LEMMA InitWatchInv ==
    ASSUME FileExists, Init
    PROVE  WatchInv
<1>1. /\ log = << >> /\ watch = "off" /\ file = 0 /\ base = 0
      /\ emitted = {} /\ again = {} /\ kills = 0
  BY DEF Init, RemoteInit, WatchInit
<1>2. Len(log) = 0 /\ log \in Seq(Posted) /\ Selected = {}
  BY <1>1 DEF Selected
<1> QED
  BY <1>1, <1>2 DEF WatchInv, Told, NoneAfter, Polling, Polled, WatchState

\* A watch that starts from a cursor file never skips an envelope: whatever is
\* killed between whichever two writes, what the file has passed was emitted
\* (cursor.py:84-93).
THEOREM CursorFileIsTrue ==
    ASSUME FileExists
    PROVE  Spec => []FileTellsTheTruth
<1>1. WatchInv /\ [Next]_vars => WatchInv'
  BY NextKeepsWatchInv
<1>2. WatchInv => FileTellsTheTruth
  BY DEF WatchInv, FileTellsTheTruth, Told
<1>3. Init => WatchInv
  BY InitWatchInv
<1> QED
  BY <1>1, <1>2, <1>3, PTL DEF Spec

\* And it repeats none unless it was killed.
THEOREM OnlyAKillRepeats ==
    ASSUME FileExists
    PROVE  Spec => []RepeatsOnlyAfterAKill
<1>1. WatchInv /\ [Next]_vars => WatchInv'
  BY NextKeepsWatchInv
<1>2. WatchInv => RepeatsOnlyAfterAKill
  BY DEF WatchInv, RepeatsOnlyAfterAKill
<1>3. Init => WatchInv
  BY InitWatchInv
<1> QED
  BY <1>1, <1>2, <1>3, PTL DEF Spec

=============================================================================
