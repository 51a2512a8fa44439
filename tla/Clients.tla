-------------------------------- MODULE Clients --------------------------------
(***************************************************************************)
(* A board that restarts, others that post to it, and one of the clients   *)
(* that live with it: a watch, a doorbell or a retried write.              *)
(***************************************************************************)
EXTENDS Watching, Doorbell, WriteRetry

VARIABLE client       \* which client this board is seen by

vars == <<client, remoteVars, watchVars, bellVars, writeVars>>

Init ==
    /\ client \in {"watch", "bell", "writer"}
    /\ RemoteInit /\ WatchInit /\ BellInit /\ WriteInit

Others == UNCHANGED <<client, watchVars, bellVars, writeVars>>

Board ==
    \/ \E mine \in BOOLEAN : Arrive(mine) /\ Others
    \/ (SayGoodbye \/ GoDown \/ ComeUp) /\ Others

WatchStep ==
    client = "watch" /\ Watch /\ UNCHANGED <<client, remoteVars, bellVars, writeVars>>

BellStep ==
    client = "bell" /\ Bell /\ UNCHANGED <<client, remoteVars, watchVars, writeVars>>

WriteStep == client = "writer" /\ Write /\ UNCHANGED <<client, watchVars, bellVars>>

Next == Board \/ WatchStep \/ BellStep \/ WriteStep

Quietly(A) == A /\ UNCHANGED <<client, remoteVars>>

\* A board that is down is started again, and a closing one goes down.  A client
\* runs as long as its process does; the harness re-arms a watch on any exit; the
\* board answers one of the polls a client keeps making (that is what LongPoll
\* promises; hence SF: failures and goodbyes may come in between).
Fairness ==
    /\ WF_vars((ComeUp \/ (serving = "closing" /\ GoDown)) /\ Others)
    /\ WF_vars(Quietly(client = "watch" /\ (Arm \/ Resolve \/ BackOff \/ Emit \/ Commit)
                         /\ UNCHANGED <<bellVars, writeVars>>))
    /\ SF_vars(Quietly(client = "watch" /\ Poll /\ UNCHANGED <<bellVars, writeVars>>))
    /\ WF_vars(Quietly(client = "bell" /\ (ArmBell \/ CloseWindow \/ Ring \/ CoolDown)
                         /\ UNCHANGED <<watchVars, writeVars>>))
    /\ SF_vars(Quietly(client = "bell" /\ PollFeed /\ UNCHANGED <<watchVars, writeVars>>))
    /\ WF_vars(client = "writer"
                 /\ (\/ PostAnswered \/ PostRefused \/ CleanRefusal \/ AnswerLost
                     \/ RequestLost \/ Probe \/ ProbeFails \/ Verdict)
                 /\ UNCHANGED <<client, watchVars, bellVars>>)

Spec == Init /\ [][Next]_vars /\ Fairness

-----------------------------------------------------------------------------
TypeOK ==
    /\ log \in Seq(Posted) /\ Len(log) <= MaxLog
    /\ serving \in {"up", "closing", "down"} /\ outages \in 0..MaxOutages
    /\ watch \in WatchState /\ repeat \in BOOLEAN
    /\ {file, staged, base} \subseteq {Absent} \cup 0..Len(log) /\ since \in 0..Len(log)
    /\ page \cup emitted \cup again \subseteq 1..Len(log) /\ kills \in 0..MaxKills
    /\ bell \in BellState /\ {position, armedAt} \subseteq 0..Len(log)
    /\ pending \cup rung \subseteq 1..Len(log) /\ notice \in BOOLEAN
    /\ write \in WriteState /\ attempt \in 1..Attempts /\ look \in 1..Attempts
    /\ found \subseteq 1..Len(log) /\ afloat + late \in 0..MaxLate /\ runs \in 1..MaxRuns

\* Whatever arrives while a watch is being kept is given to the consumer in the
\* end, over restarts and kills (cursor.py:4-6).
EveryArrivalIsEmitted ==
    \A i \in 1..MaxLog :
        (client = "watch" /\ base # Absent /\ i > base /\ i \in Selected) ~> i \in emitted

\* Whatever arrives on the feed is rung for in the end, over bursts, restarts of
\* the board and cooldowns.
EveryArrivalIsRung ==
    \A i \in 1..MaxLog : (bell # "arming" /\ i \in Due) ~> i \in rung

\* Every run ends, with a verdict or without one.
EveryWriteEnds == (client = "writer" /\ write = "ready") ~> (write \in Ended)

=============================================================================
