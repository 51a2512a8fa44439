-------------------------------- MODULE Watching --------------------------------
(***************************************************************************)
(* korax watch (cli.py: cmd_watch, _poll, _resolve_since_for_wait) and the *)
(* cursor file it keeps (cursor.py).  A watch resolves where it stands,    *)
(* polls, stages the new cursor beside the file, emits the page and then   *)
(* commits the cursor; it may be killed between any two of these, and its  *)
(* harness arms it again.                                                  *)
(***************************************************************************)
EXTENDS Remote

CONSTANTS
    Absent,           \* a cursor file that does not exist
    MaxKills,         \* bound on the number of times a watch is killed
    FileExists        \* has the cursor file been written before the first arm?

ASSUME WatchAssumption ==
    Absent \notin Nat /\ MaxKills \in Nat /\ FileExists \in BOOLEAN

VARIABLES
    watch,            \* where the watch stands, one of WatchState
    repeat,           \* is the watch armed with --repeat?
    file,             \* the committed cursor
    staged,           \* the scratch file beside it
    since,            \* the position this round polls from
    page,             \* the ids on the page in hand
    emitted,          \* the ids the consumer has been given
    again,            \* those it has been given more than once
    base,             \* where the first arm started
    kills

\* paged: something to say; quiet: the poll ended with nothing to say.
WatchState == {"off", "resolving", "polling", "paged", "quiet", "emitted", "backing"}

watchVars == <<watch, repeat, file, staged, since, page, emitted, again, base, kills>>

WatchInit ==
    /\ watch = "off" /\ repeat \in BOOLEAN
    /\ file = (IF FileExists THEN 0 ELSE Absent)
    /\ staged = Absent /\ since = 0 /\ page = {}
    /\ emitted = {} /\ again = {} /\ kills = 0
    /\ base = (IF FileExists THEN 0 ELSE Absent)

\* The harness arms the watch: the first time, after an exit and after a kill.
Arm ==
    /\ watch = "off"
    /\ watch' = "resolving"
    /\ UNCHANGED <<repeat, file, staged, since, page, emitted, again, base, kills>>

\* Slips: the position is one past the cursor; it is always the beginning, or
\* always the head.
SeedPastCursor(position) ==
    /\ since' = (IF file = Absent THEN position ELSE file + 1)
    /\ base' = (IF base = Absent THEN position ELSE base)

SeedAtStart(position) ==
    /\ since' = (IF file = Absent THEN position ELSE 0)
    /\ base' = (IF base = Absent THEN position ELSE base)

SeedAtHead(position) ==
    /\ since' = Len(log)
    /\ base' = (IF base = Absent THEN position ELSE base)

\* The committed cursor, or where a watch without one starts.
Seed(position) ==
    /\ since' = (IF file = Absent THEN position ELSE file)
    /\ base' = (IF base = Absent THEN position ELSE base)

\* Without a cursor file a watch starts at the head of the board, every round
\* until there is one; at the beginning when the board cannot be asked.
Resolve ==
    /\ watch = "resolving"
    /\ Seed(IF Answers THEN Len(log) ELSE 0)
    /\ watch' = "polling"
    /\ UNCHANGED <<repeat, file, staged, page, emitted, again, kills>>

\* Slip: the cursor is durable before the page it describes is delivered.
StageAndCommit(cursor) == staged' = Absent /\ file' = cursor

Stage(cursor) == staged' = cursor /\ UNCHANGED file

\* One answer of the board: a page of arrivals, a goodbye, or the poll's own end.
Poll ==
    /\ watch = "polling" /\ Answers
    /\ page' = Hits(since)
    /\ Stage(CursorAfter(since, page'))
    /\ watch' = (IF page' # {} \/ Goodbye(since) THEN "paged" ELSE "quiet")
    /\ UNCHANGED <<repeat, since, emitted, again, base, kills>>

\* A transport failure is a re-arm, never an answer; so is one that cuts off a
\* call the board was about to answer.
PollFails ==
    /\ watch = "polling"
    /\ serving = "down" \/ outages < MaxOutages
    /\ watch' = "backing"
    /\ UNCHANGED <<repeat, file, staged, since, page, emitted, again, base, kills>>

BackOff ==
    /\ watch = "backing"
    /\ watch' = "resolving"
    /\ UNCHANGED <<repeat, file, staged, since, page, emitted, again, base, kills>>

Emit ==
    /\ watch = "paged"
    /\ emitted' = emitted \cup page
    /\ again' = again \cup (emitted \cap page)
    /\ watch' = "emitted"
    /\ UNCHANGED <<repeat, file, staged, since, page, base, kills>>

\* commit_cursor is an atomic rename.  A one-shot watch exits when it has spoken;
\* a round without anything to say goes on.
Commit ==
    /\ watch \in {"emitted", "quiet"}
    /\ file' = (IF staged = Absent THEN file ELSE staged)
    /\ staged' = Absent /\ page' = {}
    /\ watch' = (IF repeat \/ watch = "quiet" THEN "resolving" ELSE "off")
    /\ UNCHANGED <<repeat, since, emitted, again, base, kills>>

KillWatch ==
    /\ watch # "off" /\ kills < MaxKills
    /\ watch' = "off" /\ page' = {} /\ kills' = kills + 1
    /\ UNCHANGED <<repeat, file, staged, since, emitted, again, base>>

Watch ==
    \/ Arm \/ Resolve \/ Poll \/ PollFails \/ BackOff \/ Emit \/ Commit \/ KillWatch

-----------------------------------------------------------------------------
Selected == {i \in 1..Len(log) : log[i].mine}

\* The cursor file never passes an envelope the consumer was not given: whatever
\* the watch or the board was killed between, the next arm finds it (cursor.py:
\* 84-93, cli.py:782-786).
FileTellsTheTruth ==
    file # Absent => \A i \in Selected : base < i /\ i <= file => i \in emitted

\* Nothing is given twice unless a watch was killed between emitting a page and
\* committing its cursor: backing off, restarts and re-arming never replay.
RepeatsOnlyAfterAKill == again # {} => kills > 0

=============================================================================
