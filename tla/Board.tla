---------------------------------- MODULE Board ----------------------------------
(***************************************************************************)
(* board.py: one sequencer on the event loop, readers on threadpool        *)
(* threads.  An append persists the envelope, joins it to the log in       *)
(* memory, joins it to the policy timeline and forgets old cached slices,  *)
(* four steps with readers in between; a reader looks its slice up in a    *)
(* cache keyed by (identity, head) and computes it outside the lock.  The  *)
(* process may stop at any moment and reload from the store.               *)
(*                                                                         *)
(* The variables log and entries of Sequencer are here what the process    *)
(* has in memory, and stored is what sqlite has committed.                 *)
(***************************************************************************)
EXTENDS Sequencer

CONSTANTS
    Reader,           \* threads of the pool
    Requester         \* the identities that read

ASSUME ReaderAssumption == Requester \subseteq Identity

VARIABLES
    stored,           \* the committed envelopes
    writer,           \* how far board.append has come
    cache,            \* the slices by (requester, head)
    reader,           \* what each thread is doing
    lookups,          \* how the lookups of the law have answered since the start
    acked             \* the largest id a client has been answered with

boardVars == <<log, entries, now, stored, writer, cache, reader, lookups, acked>>

\* The reader of a thread: who asks, at which head, the timelines it has met
\* while filtering, the slice it returned, and the largest answered id when the
\* request came in.
Idle == [pc |-> "idle", who |-> Operator, head |-> 0, met |-> {}, slice |-> {}, floor |-> 0]

Key == [who : Requester, head : Nat]

KeyOf(r) == [who |-> reader[r].who, head |-> reader[r].head]

BoardInit ==
    /\ Init
    /\ stored = << >> /\ writer = "idle"
    /\ cache = << >> /\ reader = [r \in Reader |-> Idle] /\ acked = 0
    /\ lookups = "exact"

-----------------------------------------------------------------------------
(* The write path.  genesis runs when the board is seeded, before it serves *)
(* anybody.                                                                 *)

Seed(policy) ==
    /\ writer = "idle" /\ stored = << >> /\ Genesis(policy)
    /\ stored' = log'
    /\ UNCHANGED <<writer, cache, reader, lookups, acked>>

\* A slip: a post is judged while another one is between commit and memory.
PersistUnserialized(d) ==
    /\ writer \in {"idle", "persisted"} /\ log # << >> /\ Len(stored) < MaxLog
    /\ Accepts(d)
    /\ stored' = Append(stored, Sequenced(d, BandOf(d), now))
    /\ writer' = "persisted"
    /\ UNCHANGED <<log, entries, now, cache, reader, lookups, acked>>

\* validate_post, effective_band and store.append: the commit.
Persist(d) ==
    /\ writer = "idle" /\ log # << >> /\ Len(stored) < MaxLog
    /\ Accepts(d)
    /\ stored' = Append(stored, Sequenced(d, BandOf(d), now))
    /\ writer' = "persisted"
    /\ UNCHANGED <<log, entries, now, cache, reader, lookups, acked>>

\* log.append: from here on the head is the new envelope.
Join ==
    /\ writer = "persisted"
    /\ log' = Append(log, stored[NextId(log)])
    /\ writer' = "joined"
    /\ UNCHANGED <<entries, now, stored, cache, reader, lookups, acked>>

\* timeline.apply; a thread in the middle of filtering meets the new entries.
\* Whichever thread is looking the law up while they come in, this one or one that
\* is not modelled, may find part of them there, and may leave in the memo an answer
\* of the list as it was (PolicyMemo): until the next start nothing is known then of
\* what lookups answer.  With no lookup under way they stay exact.
Enter ==
    /\ writer = "joined"
    /\ entries' = Apply(entries, log, HeadOf(log))
    /\ reader' = [r \in Reader |->
                     IF reader[r].pc = "filter"
                     THEN [reader[r] EXCEPT !.met = @ \cup {entries'}]
                     ELSE reader[r]]
    /\ writer' = "entered"
    /\ lookups' \in IF entries' = entries THEN {lookups} ELSE {lookups, "raced"}
    /\ UNCHANGED <<log, now, stored, cache, acked>>

CachedAt(head) == {k \in DOMAIN cache : k.head = head}

\* _drop_visible(keep_head).
Drop ==
    /\ writer = "entered"
    /\ cache' = [k \in CachedAt(HeadOf(log)) |-> cache[k]]
    /\ writer' = "idle"
    /\ UNCHANGED <<log, entries, now, stored, reader, lookups, acked>>

\* A slip: the client is answered as soon as the row is committed.
AnswerCommitted ==
    /\ log # << >>
    /\ acked' \in (acked + 1)..Len(stored)
    /\ UNCHANGED <<log, entries, now, stored, writer, cache, reader, lookups>>

\* The response leaves after the notify, in any order when posts queued up.
Answer ==
    /\ writer = "idle"
    /\ acked' \in (acked + 1)..Len(log)
    /\ UNCHANGED <<log, entries, now, stored, writer, cache, reader, lookups>>

-----------------------------------------------------------------------------
(* visible_for, on a thread.                                                *)

\* The head is read once and put into the key.
Ask(r, who) ==
    /\ reader[r].pc = "idle" /\ log # << >>
    /\ reader' = [reader EXCEPT ![r] =
                     [Idle EXCEPT !.pc = "lookup", !.who = who,
                                  !.head = HeadOf(log), !.floor = acked]]
    /\ UNCHANGED <<log, entries, now, stored, writer, cache, lookups, acked>>

\* A slip: the slices are kept by reader alone, without the head.
CachedForReader(r) == {k \in DOMAIN cache : k.who = reader[r].who}

CachedFor(r) == DOMAIN cache \cap {KeyOf(r)}

Lookup(r) ==
    /\ reader[r].pc = "lookup"
    /\ reader' =
          IF CachedFor(r) # {}
          THEN [reader EXCEPT ![r].pc = "served",
                   ![r].slice = cache[CHOOSE k \in CachedFor(r) : TRUE]]
          ELSE [reader EXCEPT ![r].pc = "filter", ![r].met = {entries}]
    /\ UNCHANGED <<log, entries, now, stored, writer, cache, lookups, acked>>

\* filter_log judges envelope by envelope against a timeline that may move under
\* it.  Each verdict is one of those the met timelines give as long as the lookups
\* are exact, and any verdict otherwise.
Judged(r) ==
    LET seen(E) == Visible(log, E, reader[r].who, reader[r].head)
        shown   == UNION {seen(E) : E \in reader[r].met}
        sure    == {i \in shown : \A E \in reader[r].met : i \in seen(E)}
    IN  IF lookups = "exact" THEN {sure \cup some : some \in SUBSET (shown \ sure)}
        ELSE SUBSET UpTo(log, reader[r].head)

\* setdefault keeps the slice that was stored first.
Filter(r) ==
    /\ reader[r].pc = "filter"
    /\ \E slice \in Judged(r) :
          cache' = IF KeyOf(r) \in DOMAIN cache THEN cache
                   ELSE [k \in DOMAIN cache \cup {KeyOf(r)} |->
                            IF k \in DOMAIN cache THEN cache[k] ELSE slice]
    /\ reader' = [reader EXCEPT ![r].pc = "served", ![r].slice = cache'[KeyOf(r)],
                                ![r].met = {}]
    /\ UNCHANGED <<log, entries, now, stored, writer, lookups, acked>>

Return(r) ==
    /\ reader[r].pc = "served"
    /\ reader' = [reader EXCEPT ![r] = Idle]
    /\ UNCHANGED <<log, entries, now, stored, writer, cache, lookups, acked>>

-----------------------------------------------------------------------------
(* The process stops and starts again.                                      *)

Crash ==
    /\ log # << >>
    /\ log' = << >> /\ entries' = {} /\ writer' = "down"
    /\ cache' = << >> /\ reader' = [r \in Reader |-> Idle] /\ lookups' = "exact"
    /\ UNCHANGED <<now, stored, acked>>

\* reload: the log from the store and the timeline from the log.
Reload ==
    /\ writer = "down"
    /\ log' = stored /\ entries' = EntriesOf(stored) /\ writer' = "idle"
    /\ UNCHANGED <<now, stored, cache, reader, lookups, acked>>

\* Time passes, also while the process is down.
Clock ==
    /\ stored # << >> /\ now < MaxTime
    /\ now' = now + 1
    /\ UNCHANGED <<log, entries, stored, writer, cache, reader, lookups, acked>>

BoardNext ==
    \/ \E policy \in GenesisPolicies : Seed(policy)
    \/ \E d \in Drafts : Persist(d)
    \/ Join \/ Enter \/ Drop \/ Answer
    \/ \E r \in Reader, who \in Requester : Ask(r, who)
    \/ \E r \in Reader : Lookup(r) \/ Filter(r) \/ Return(r)
    \/ Crash \/ Reload \/ Clock

BoardSpec == BoardInit /\ [][BoardNext]_boardVars

-----------------------------------------------------------------------------
\* The timeline that a slice at a head is owed: the law as of that offset.
LawAt(head) == InForce(EntriesOf(stored), head)

\* Types of the concurrent state, and what memory holds at each step of the
\* write path: log.append may be one behind the store, and apply one behind it.
BoardTypeOK ==
    /\ writer \in {"idle", "persisted", "joined", "entered", "down"}
    /\ DOMAIN cache \subseteq Key
    /\ acked \in 0..Len(stored) /\ lookups \in {"exact", "raced"}
    /\ CASE writer = "down"      -> log = << >> /\ entries = {}
         [] writer = "persisted" -> stored = Append(log, stored[NextId(log)])
                                    /\ entries = EntriesOf(log)
         [] writer = "joined"    -> stored = log
                                    /\ entries = EntriesOf(SubSeq(log, 1, Len(log) - 1))
         [] OTHER                -> stored = log /\ entries = EntriesOf(log)

\* However its steps interleave with readers, crashes and restarts, the board is
\* a sequencer that accepts one post at a time (the store is its log), and a
\* restart neither loses nor invents an envelope.
OneAtATime == INSTANCE Sequencer WITH log <- stored, entries <- EntriesOf(stored)

BoardSequences == OneAtATime!Spec

\* Read your writes: a read that starts after a post was answered is at a head
\* that includes it, also when the process died and came back in between.
AnsweredIsRead ==
    \A r \in Reader : reader[r].pc # "idle" => reader[r].floor <= reader[r].head

\* What a thread that was served is owed: the slice of its head, by the law of that
\* head, and the one by the law just before it.
Owed(r) == Visible(stored, LawAt(reader[r].head), reader[r].who, reader[r].head)
OwedBefore(r) ==
    Visible(stored, LawAt(reader[r].head - 1), reader[r].who, reader[r].head)

\* As long as no lookup of the law raced with a policy coming in: whatever else raced
\* with it (a post half way into memory, a slice stored first by another thread, a
\* crash), a served slice shows nothing that the law of its head and the law just
\* before would both withhold, and withholds nothing that both would show.  A slice
\* computed or kept after such a race is not held to this: see PolicyMemo.
ServedWithinTwoLaws ==
    \A r \in Reader : reader[r].pc = "served" /\ lookups = "exact" =>
        /\ Owed(r) \cap OwedBefore(r) \subseteq reader[r].slice
        /\ reader[r].slice \subseteq Owed(r) \cup OwedBefore(r)

=============================================================================
