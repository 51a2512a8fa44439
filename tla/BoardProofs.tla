------------------------------- MODULE BoardProofs -------------------------------
(***************************************************************************)
(* Proofs, for every choice of threads, readers, drafts and bounds, of     *)
(* what module Board states about the write path and its races: what       *)
(* memory holds at each step of it, read your writes, and that the         *)
(* concurrent board is a sequencer.  The lemmas on the timeline and on     *)
(* accepted envelopes are those of GovernanceProofs.  At the end, the memo *)
(* of module PolicyMemo when one thread alone goes through it.             *)
(***************************************************************************)
EXTENDS Board, GovernanceProofs, FiniteSetTheorems

\* What the store holds, at any moment, is a log the validator accepted.
StoreOK == stored \in Seq(Envelope) /\ Shaped(stored) /\ now \in Nat

\* A busy thread reads for a requester, at a head no older than its floor.
ReaderOK(t) ==
    /\ DOMAIN t = {"pc", "who", "head", "met", "slice", "floor"}
    /\ t.pc # "idle" =>
          t.who \in Requester /\ t.head \in Nat /\ t.floor <= t.head

\* While the process is up, nobody has been answered about an envelope that
\* memory does not hold yet; what has just joined memory is there.
MemoryOK ==
    /\ log \in Seq(Envelope)
    /\ writer = "joined" => log # << >>
    /\ writer # "down" => acked <= Len(log)

BInv ==
    /\ StoreOK /\ BoardTypeOK /\ MemoryOK
    /\ reader = [r \in Reader |-> reader[r]]
    /\ \A r \in Reader : ReaderOK(reader[r])

-----------------------------------------------------------------------------
(* The timeline is typed, so that an accepted draft makes an envelope.     *)

LEMMA EntriesOfType ==
    ASSUME NEW L \in Seq(Envelope), Shaped(L)
    PROVE  EntriesOf(L) \in SUBSET PolicyEntry
<1>1. DOMAIN L = 1..Len(L) /\ Len(L) \in Nat /\ \A p \in DOMAIN L : L[p] \in Envelope
  BY ElementOfSeq, LenProperties
<1>2. \A p \in DOMAIN L : ForceOffsets(L, p) \in SUBSET (Nat \ {0})
  BY <1>1 DEF ForceOffsets, Inbound, UpTo
<1>3. SUFFICES ASSUME NEW p \in DOMAIN L, IsPolicy(L[p].payload), ForceOffsets(L, p) # {}
               PROVE  Entry(L, p, Least(ForceOffsets(L, p))) \in PolicyEntry
  BY DEF EntriesOf
<1>4. Least(ForceOffsets(L, p)) \in Nat \ {0}
  BY <1>2, <1>3, LeastNat
<1>5. L[p].payload \in Policy /\ L[p].ns \in Namespace /\ p \in Nat \ {0}
  BY <1>1, <1>3 DEF Envelope, IsPolicy, NoPolicy
<1> QED
  BY <1>4, <1>5 DEF Entry, PolicyEntry

\* Committing one more envelope whose edges point backwards.
LEMMA CommitKeepsStore ==
    ASSUME stored \in Seq(Envelope), Shaped(stored), NEW env \in Envelope,
           \A r \in env.refs : r.id \in DOMAIN stored,
           RefsOf(env, "stamps") # {} => env.type = "STAMP",
           stored' = Append(stored, env)
    PROVE  /\ stored' \in Seq(Envelope) /\ Shaped(stored')
           /\ Len(stored) \in Nat /\ Len(stored') = Len(stored) + 1
           /\ stored'[Len(stored) + 1] = env
<1>1. /\ stored' \in Seq(Envelope) /\ Len(stored) \in Nat
      /\ Len(stored') = Len(stored) + 1
      /\ DOMAIN stored = 1..Len(stored) /\ DOMAIN stored' = 1..(Len(stored) + 1)
      /\ \A i \in DOMAIN stored : stored'[i] = stored[i]
      /\ stored'[Len(stored) + 1] = env
  BY AppendProperties, LenProperties
<1>2. Shaped(stored')
  BY <1>1 DEF Shaped
<1> QED
  BY <1>1, <1>2

\* Dropping what was appended.
LEMMA FrontOfAppend ==
    ASSUME NEW S, NEW L \in Seq(S), NEW x, Append(L, x) \in Seq(S)
    PROVE  SubSeq(Append(L, x), 1, Len(Append(L, x)) - 1) = L
<1> DEFINE M == Append(L, x)
<1>1. x \in S
  <2>1. Len(M) = Len(L) + 1 /\ M[Len(L) + 1] = x /\ Len(L) \in Nat
    OBVIOUS
  <2>2. M \in Seq(S) /\ Len(L) + 1 \in 1..Len(M)
    BY <2>1
  <2> QED
    BY <2>1, <2>2, ElementOfSeq
<1> QED
  BY <1>1, AppendProperties

\* A log is its front and its last envelope.
LEMMA LastOff ==
    ASSUME NEW L \in Seq(Envelope), L # << >>
    PROVE  /\ SubSeq(L, 1, Len(L) - 1) \in Seq(Envelope) /\ L[Len(L)] \in Envelope
           /\ Len(SubSeq(L, 1, Len(L) - 1)) + 1 = Len(L)
           /\ L = Append(SubSeq(L, 1, Len(L) - 1), L[Len(L)])
<1> DEFINE front == SubSeq(L, 1, Len(L) - 1)
           env   == L[Len(L)]
<1>1. Len(L) \in Nat /\ Len(L) >= 1 /\ \A i \in 1..Len(L) : L[i] \in Envelope
  BY ElementOfSeq, EmptySeq
<1>2. front \in Seq(Envelope) /\ Len(front) + 1 = Len(L) /\ env \in Envelope
  <2> DEFINE n == Len(L) - 1
  <2>1. n \in Nat /\ Len(L) = n + 1 /\ \A i \in 1..n : L[i] \in Envelope
    BY <1>1
  <2> HIDE DEF n
  <2>2. SubSeq(L, 1, n) \in Seq(Envelope) /\ Len(SubSeq(L, 1, n)) = n
    BY <2>1, SubSeqProperties
  <2> QED
    BY <1>1, <2>1, <2>2 DEF n
<1>3. L = front \o <<env>>
  BY <1>1, SubSeqRecursiveSecond, SubSeqFull
<1>4. L = Append(front, env)
  BY <1>2, <1>3, AppendIsConcat
<1> QED
  BY <1>2, <1>4

-----------------------------------------------------------------------------
(* The inductive invariant, action by action.                              *)

LEMMA InitBInv == BoardInit => BInv
<1> SUFFICES ASSUME BoardInit PROVE BInv
  OBVIOUS
<1>1. /\ log = << >> /\ entries = {} /\ now = 0 /\ stored = << >> /\ writer = "idle"
      /\ cache = << >> /\ acked = 0 /\ reader = [r \in Reader |-> Idle]
      /\ lookups = "exact"
  BY DEF BoardInit, Init
<1>2. EntriesOf(log) = {} /\ DOMAIN cache = {}
  BY <1>1 DEF EntriesOf
<1>3. ReaderOK(Idle)
  BY DEF Idle, ReaderOK
<1>4. StoreOK
  BY <1>1 DEF StoreOK, Shaped
<1>5. BoardTypeOK /\ MemoryOK
  BY <1>1, <1>2 DEF BoardTypeOK, MemoryOK
<1> QED
  BY <1>1, <1>3, <1>4, <1>5 DEF BInv

LEMMA SeedKeepsBInv ==
    ASSUME BInv, NEW policy \in GenesisPolicies, Seed(policy)
    PROVE  BInv'
<1> DEFINE env == Sequenced(GenesisDraft(policy), "human", now)
<1>1. env \in Envelope
  BY GenesisEnvelope DEF BInv, StoreOK
<1>2. env.refs = {} /\ RefsOf(env, "stamps") = {}
  BY DEF Sequenced, GenesisDraft, RefsOf
<1>3. /\ log' = <<env>> /\ stored' = <<env>> /\ entries' = EntriesOf(log') /\ now' = now
      /\ stored = << >> /\ writer = "idle"
      /\ writer' = writer /\ cache' = cache /\ reader' = reader /\ acked' = acked
      /\ lookups' = lookups
  BY DEF Seed, Genesis
<1> HIDE DEF env
<1>4. StoreOK'
  BY <1>1, <1>2, <1>3, CommitKeepsStore DEF BInv, StoreOK
<1>5. BoardTypeOK' /\ MemoryOK'
  <2>1. acked = 0 /\ Len(stored') = 1 /\ log' \in Seq(Envelope)
    BY <1>1, <1>3 DEF BInv, BoardTypeOK
  <2> QED
    BY <1>3, <2>1 DEF BInv, BoardTypeOK, MemoryOK
<1> QED
  BY <1>3, <1>4, <1>5 DEF BInv

LEMMA PersistKeepsBInv ==
    ASSUME BInv, NEW d \in Drafts, Persist(d)
    PROVE  BInv'
<1> DEFINE env == Sequenced(d, BandOf(d), now)
<1>1. stored = log /\ entries = EntriesOf(log) /\ writer = "idle"
  BY DEF BInv, BoardTypeOK, Persist
<1>2. TypeOK
  BY <1>1, EntriesOfType DEF BInv, StoreOK, TypeOK
<1>3. /\ env \in Envelope
      /\ \A r \in d.refs : r.id \in DOMAIN log
      /\ RefsOf(d, "stamps") # {} => d.type = "STAMP"
  BY <1>2, AcceptedEnvelope DEF Persist
<1>4. env.refs = d.refs /\ env.type = d.type /\ RefsOf(env, "stamps") = RefsOf(d, "stamps")
  BY DEF Sequenced, RefsOf
<1>5. /\ stored' = Append(stored, env) /\ writer' = "persisted"
      /\ log' = log /\ entries' = entries /\ now' = now
      /\ cache' = cache /\ reader' = reader /\ acked' = acked
      /\ lookups' = lookups
  BY DEF Persist
<1> HIDE DEF env
<1>6. StoreOK' /\ Len(stored) \in Nat /\ Len(stored') = Len(stored) + 1
      /\ stored'[Len(stored) + 1] = env
  BY <1>1, <1>3, <1>4, <1>5, CommitKeepsStore DEF BInv, StoreOK
<1>7. stored' = Append(log', stored'[NextId(log')]) /\ entries' = EntriesOf(log')
  BY <1>1, <1>5, <1>6 DEF NextId
<1>8. BoardTypeOK'
  <2>1. /\ acked' \in 0..Len(stored') /\ DOMAIN cache' \subseteq Key
        /\ lookups' \in {"exact", "raced"}
    BY <1>5, <1>6 DEF BInv, BoardTypeOK
  <2> QED
    BY <1>5, <1>7, <2>1 DEF BoardTypeOK
<1>9. MemoryOK'
  BY <1>1, <1>5 DEF BInv, MemoryOK
<1> QED
  BY <1>5, <1>6, <1>8, <1>9 DEF BInv

LEMMA JoinKeepsBInv == ASSUME BInv, Join PROVE BInv'
<1>1. /\ stored = Append(log, stored[NextId(log)]) /\ entries = EntriesOf(log)
      /\ writer = "persisted" /\ writer' = "joined"
      /\ log' = Append(log, stored[NextId(log)])
      /\ entries' = entries /\ now' = now /\ stored' = stored
      /\ cache' = cache /\ reader' = reader /\ acked' = acked
      /\ lookups' = lookups
  BY DEF BInv, BoardTypeOK, Join
<1>2. stored' = log'
  BY <1>1
<1>3. SubSeq(log', 1, Len(log') - 1) = log
  <2>1. log' \in Seq(Envelope) /\ log \in Seq(Envelope)
    BY <1>1, <1>2 DEF BInv, StoreOK, MemoryOK
  <2> QED
    BY <1>1, <2>1, FrontOfAppend
<1>4. StoreOK'
  BY <1>1 DEF BInv, StoreOK
<1>5. BoardTypeOK'
  BY <1>1, <1>2, <1>3 DEF BInv, BoardTypeOK
<1>6. MemoryOK'
  <2>1. log' \in Seq(Envelope) /\ acked' <= Len(log')
    <3>1. stored \in Seq(Envelope) /\ acked \in 0..Len(stored)
      BY DEF BInv, BoardTypeOK, StoreOK
    <3>2. log' = stored /\ acked' = acked
      BY <1>1, <1>2
    <3> QED
      BY <3>1, <3>2
  <2>2. Len(log') = Len(log) + 1 /\ Len(log) \in Nat
    BY <1>1 DEF BInv, MemoryOK
  <2>3. log' # << >>
    BY <2>2
  <2> QED
    BY <2>1, <2>3 DEF MemoryOK
<1> QED
  BY <1>1, <1>4, <1>5, <1>6 DEF BInv

\* The timeline of the log without its last envelope, joined by that envelope,
\* is the timeline of the log.
LEMMA EnterKeepsBInv == ASSUME BInv, Enter PROVE BInv'
<1>1. /\ stored = log /\ entries = EntriesOf(SubSeq(log, 1, Len(log) - 1))
      /\ writer = "joined" /\ writer' = "entered"
      /\ entries' = Apply(entries, log, Len(log))
      /\ log' = log /\ now' = now /\ stored' = stored
      /\ cache' = cache /\ acked' = acked
      /\ lookups' \in {lookups, "raced"}
  BY DEF BInv, BoardTypeOK, Enter, HeadOf
<1>2. log \in Seq(Envelope) /\ log # << >> /\ Shaped(log)
  BY <1>1 DEF BInv, StoreOK, MemoryOK
<1>3. entries' = EntriesOf(log)
  <2> DEFINE L == SubSeq(log, 1, Len(log) - 1)
             env == log[Len(log)]
  <2>1. L \in Seq(Envelope) /\ env \in Envelope /\ Len(L) + 1 = Len(log) /\ log = Append(L, env)
    BY <1>2, LastOff
  <2> HIDE DEF L, env
  <2>2. Apply(EntriesOf(L), log, Len(L) + 1) = EntriesOf(log)
    BY <1>2, <2>1, ApplyIsRebuild
  <2> QED
    BY <1>1, <2>1, <2>2 DEF L
<1>4. StoreOK' /\ MemoryOK'
  BY <1>1 DEF BInv, StoreOK, MemoryOK
<1>5. BoardTypeOK'
  BY <1>1, <1>3 DEF BInv, BoardTypeOK
<1>6. reader' = [r \in Reader |-> reader'[r]] /\ \A r \in Reader : ReaderOK(reader'[r])
  BY DEF BInv, Enter, ReaderOK
<1> QED
  BY <1>4, <1>5, <1>6 DEF BInv

LEMMA DropKeepsBInv == ASSUME BInv, Drop PROVE BInv'
<1>1. /\ writer = "entered" /\ writer' = "idle" /\ DOMAIN cache' \subseteq DOMAIN cache
      /\ log' = log /\ entries' = entries /\ now' = now /\ stored' = stored
      /\ reader' = reader /\ acked' = acked
      /\ lookups' = lookups
  BY DEF Drop, CachedAt
<1> QED
  BY <1>1 DEF BInv, StoreOK, BoardTypeOK, MemoryOK

LEMMA AnswerKeepsBInv == ASSUME BInv, Answer PROVE BInv'
<1>1. /\ writer = "idle" /\ stored = log /\ acked' \in (acked + 1)..Len(log)
      /\ writer' = writer /\ log' = log /\ entries' = entries /\ now' = now
      /\ stored' = stored /\ reader' = reader /\ cache' = cache /\ lookups' = lookups
  BY DEF Answer, BInv, BoardTypeOK
<1>2. acked \in Nat /\ Len(log) \in Nat
  BY <1>1 DEF BInv, BoardTypeOK, MemoryOK
<1>3. acked' \in 0..Len(stored')
  BY <1>1, <1>2
<1> QED
  BY <1>1, <1>3 DEF BInv, StoreOK, BoardTypeOK, MemoryOK

-----------------------------------------------------------------------------
(* The readers change nothing but themselves and the cache.                *)

\* A head is only ever taken from a log that holds all that was answered.
LEMMA AskKeepsBInv ==
    ASSUME BInv, NEW r \in Reader, NEW who \in Requester, Ask(r, who)
    PROVE  BInv'
<1> DEFINE t == [Idle EXCEPT !.pc = "lookup", !.who = who,
                             !.head = HeadOf(log), !.floor = acked]
<1>1. /\ log # << >> /\ reader' = [reader EXCEPT ![r] = t]
      /\ log' = log /\ entries' = entries /\ now' = now /\ stored' = stored
      /\ writer' = writer /\ cache' = cache /\ acked' = acked
      /\ lookups' = lookups
  BY DEF Ask
<1>2. writer # "down"
  BY <1>1 DEF BInv, BoardTypeOK
<1>3. ReaderOK(t)
  BY <1>2 DEF BInv, MemoryOK, ReaderOK, Idle, HeadOf
<1> HIDE DEF t
<1> QED
  BY <1>1, <1>3 DEF BInv, StoreOK, BoardTypeOK, MemoryOK

LEMMA LookupKeepsBInv ==
    ASSUME BInv, NEW r \in Reader, Lookup(r)
    PROVE  BInv'
<1>1. /\ reader[r].pc = "lookup"
      /\ log' = log /\ entries' = entries /\ now' = now /\ stored' = stored
      /\ writer' = writer /\ cache' = cache /\ acked' = acked
      /\ lookups' = lookups
  BY DEF Lookup
<1>2. /\ reader' = [q \in Reader |-> reader'[q]]
      /\ \A q \in Reader \ {r} : reader'[q] = reader[q]
      /\ ReaderOK(reader'[r])
  BY <1>1 DEF BInv, Lookup, ReaderOK
<1> QED
  BY <1>1, <1>2 DEF BInv, StoreOK, BoardTypeOK, MemoryOK

LEMMA FilterKeepsBInv ==
    ASSUME BInv, NEW r \in Reader, Filter(r)
    PROVE  BInv'
<1>1. /\ reader[r].pc = "filter"
      /\ reader' = [reader EXCEPT ![r].pc = "served", ![r].slice = cache'[KeyOf(r)],
                                  ![r].met = {}]
      /\ log' = log /\ entries' = entries /\ now' = now /\ stored' = stored
      /\ writer' = writer /\ acked' = acked
      /\ lookups' = lookups
  BY DEF Filter
<1>2. DOMAIN cache' \subseteq DOMAIN cache \cup {KeyOf(r)}
  BY DEF Filter
<1>3. KeyOf(r) \in Key
  BY <1>1 DEF BInv, ReaderOK, KeyOf, Key
<1>4. BoardTypeOK'
  BY <1>1, <1>2, <1>3 DEF BInv, BoardTypeOK
<1>5. /\ reader' = [q \in Reader |-> reader'[q]]
      /\ \A q \in Reader \ {r} : reader'[q] = reader[q]
      /\ ReaderOK(reader'[r])
  BY <1>1 DEF BInv, ReaderOK
<1> QED
  BY <1>1, <1>4, <1>5 DEF BInv, StoreOK, MemoryOK

LEMMA ReturnKeepsBInv ==
    ASSUME BInv, NEW r \in Reader, Return(r)
    PROVE  BInv'
<1>1. /\ reader' = [reader EXCEPT ![r] = Idle]
      /\ log' = log /\ entries' = entries /\ now' = now /\ stored' = stored
      /\ writer' = writer /\ cache' = cache /\ acked' = acked
      /\ lookups' = lookups
  BY DEF Return
<1>2. ReaderOK(Idle)
  BY DEF Idle, ReaderOK
<1> QED
  BY <1>1, <1>2 DEF BInv, StoreOK, BoardTypeOK, MemoryOK

-----------------------------------------------------------------------------
(* Stopping and starting again.                                            *)

LEMMA CrashKeepsBInv == ASSUME BInv, Crash PROVE BInv'
<1>1. /\ log' = << >> /\ entries' = {} /\ writer' = "down" /\ cache' = << >>
      /\ reader' = [r \in Reader |-> Idle]
      /\ now' = now /\ stored' = stored /\ acked' = acked /\ lookups' = "exact"
  BY DEF Crash
<1>2. ReaderOK(Idle) /\ DOMAIN cache' = {}
  BY <1>1 DEF Idle, ReaderOK
<1> QED
  BY <1>1, <1>2 DEF BInv, StoreOK, BoardTypeOK, MemoryOK

LEMMA ReloadKeepsBInv == ASSUME BInv, Reload PROVE BInv'
<1>1. /\ log' = stored /\ entries' = EntriesOf(stored) /\ writer' = "idle"
      /\ now' = now /\ stored' = stored /\ acked' = acked
      /\ cache' = cache /\ reader' = reader /\ lookups' = lookups
  BY DEF Reload
<1> QED
  BY <1>1 DEF BInv, StoreOK, BoardTypeOK, MemoryOK

LEMMA ClockKeepsBInv == ASSUME BInv, Clock PROVE BInv'
<1>1. now' \in Nat
  BY DEF Clock, BInv, StoreOK
<1> QED
  BY <1>1 DEF Clock, BInv, StoreOK, BoardTypeOK, MemoryOK

LEMMA BoardNextKeepsBInv == BInv /\ [BoardNext]_boardVars => BInv'
<1> SUFFICES ASSUME BInv, [BoardNext]_boardVars PROVE BInv'
  OBVIOUS
<1>1. CASE \E policy \in GenesisPolicies : Seed(policy)
  BY <1>1, SeedKeepsBInv
<1>2. CASE \E d \in Drafts : Persist(d)
  BY <1>2, PersistKeepsBInv
<1>3. CASE Join \/ Enter \/ Drop \/ Answer
  BY <1>3, JoinKeepsBInv, EnterKeepsBInv, DropKeepsBInv, AnswerKeepsBInv
<1>4. CASE \E r \in Reader, who \in Requester : Ask(r, who)
  BY <1>4, AskKeepsBInv
<1>5. CASE \E r \in Reader : Lookup(r) \/ Filter(r) \/ Return(r)
  BY <1>5, LookupKeepsBInv, FilterKeepsBInv, ReturnKeepsBInv
<1>6. CASE Crash \/ Reload \/ Clock
  BY <1>6, CrashKeepsBInv, ReloadKeepsBInv, ClockKeepsBInv
<1>7. CASE UNCHANGED boardVars
  BY <1>7 DEF boardVars, BInv, StoreOK, BoardTypeOK, MemoryOK
<1> QED
  BY <1>1, <1>2, <1>3, <1>4, <1>5, <1>6, <1>7 DEF BoardNext

LEMMA AlwaysBInv == BoardSpec => []BInv
BY InitBInv, BoardNextKeepsBInv, PTL DEF BoardSpec

-----------------------------------------------------------------------------
(* What the board guarantees.                                              *)

\* What memory holds at each step of board.append, crashes included: the log is
\* at most one envelope behind the store and the timeline at most one behind
\* the log, and it is always the one a restart would rebuild.
THEOREM MemoryFollowsStore == BoardSpec => []BoardTypeOK
<1>1. BInv => BoardTypeOK
  BY DEF BInv
<1> QED
  BY <1>1, AlwaysBInv, PTL

\* Read your writes, for any number of threads and through any crash: a head is
\* never older than what had been answered when the request came in.
THEOREM ReadYourWrites == BoardSpec => []AnsweredIsRead
<1>1. BInv => AnsweredIsRead
  BY DEF BInv, ReaderOK, AnsweredIsRead
<1> QED
  BY <1>1, AlwaysBInv, PTL

-----------------------------------------------------------------------------
(* What a reader may be shown at a head.                                   *)

\* The two laws a slice at a head may be judged by, of a store L.
Laws(L, h) == {InForce(EntriesOf(L), h), InForce(EntriesOf(L), h - 1)}

\* A slice that shows nothing that both laws would withhold, and withholds nothing
\* that both would show.
WithinLaws(L, who, h, slice) ==
    LET exact  == Visible(L, InForce(EntriesOf(L), h), who, h)
        before == Visible(L, InForce(EntriesOf(L), h - 1), who, h)
    IN  exact \cap before \subseteq slice /\ slice \subseteq exact \cup before

\* What a slice at a head contains depends on the log up to that head and on what
\* is in force there, and on nothing that was written later.
LEMMA SameView ==
    ASSUME NEW L \in Seq(Envelope), NEW M \in Seq(Envelope), Shaped(L),
           NEW h \in Nat, h <= Len(L), h <= Len(M), \A i \in 1..h : M[i] = L[i],
           NEW E, NEW F, InForce(E, h) = InForce(F, h),
           E \in SUBSET PolicyEntry, F \in SUBSET PolicyEntry, NEW who
    PROVE  Visible(L, E, who, h) = Visible(M, F, who, h)
<1>1. DOMAIN L = 1..Len(L) /\ DOMAIN M = 1..Len(M) /\ Len(L) \in Nat /\ Len(M) \in Nat
  BY LenProperties
<1>2. UpTo(L, h) = 1..h /\ UpTo(M, h) = 1..h
  BY <1>1 DEF UpTo
<1>3. \A x, e : Inbound(L, x, e, h) = Inbound(M, x, e, h)
  BY <1>2 DEF Inbound
<1>4. ActsIn(L, "UNSEAL", h) = ActsIn(M, "UNSEAL", h)
  BY <1>2 DEF ActsIn
<1>5. SUFFICES ASSUME NEW i \in 1..h
               PROVE  Verdict(L, E, i, who, h) = "ok" <=> Verdict(M, F, i, who, h) = "ok"
  BY <1>2 DEF Visible
<1>6. M[i] = L[i]
  OBVIOUS
<1>7. UnsealCovers(L, i, who, h) <=> UnsealCovers(M, i, who, h)
  <2>1. \A u \in ActsIn(L, "UNSEAL", h) : M[u] = L[u]
    BY <1>2 DEF ActsIn
  <2> QED
    BY <1>4, <1>6, <2>1 DEF UnsealCovers
<1>8. Rounds(L, i) = Rounds(M, i)
  <2>1. \A r \in RefsOf(L[i], "replies") : r < i
    BY <1>1 DEF Shaped, RefsOf
  <2>2. RefsOf(L[i], "replies") \cap DOMAIN L = RefsOf(M[i], "replies") \cap DOMAIN M
    BY <1>1, <1>6, <2>1
  <2>3. \A r \in RefsOf(L[i], "replies") \cap DOMAIN L : M[r] = L[r]
    BY <1>1, <2>1
  <2> QED
    BY <2>2, <2>3 DEF Rounds
<1>9. \A r : /\ RoundClosed(L, r, h) <=> RoundClosed(M, r, h)
             /\ \A act : PostedInto(L, r, act, who, h) <=> PostedInto(M, r, act, who, h)
  <2>1. \A r : \A k \in Inbound(L, r, "replies", h) : M[k] = L[k]
    BY <1>2 DEF Inbound
  <2> QED
    BY <1>3, <2>1 DEF RoundClosed, PostedInto
<1>10. InForce(E, i) = InForce(F, i)
  <2>1. \A e \in E \cup F : e.effective_at \in Nat
    BY DEF PolicyEntry
  <2>2. InForce(E, i) = {e \in InForce(E, h) : e.effective_at <= i}
    BY <2>1 DEF InForce
  <2>3. InForce(F, i) = {e \in InForce(F, h) : e.effective_at <= i}
    BY <2>1 DEF InForce
  <2> QED
    BY <2>2, <2>3
<1>11. \A ns : /\ PolicyAt(E, ns, i) = PolicyAt(F, ns, i)
               /\ EffectiveBand(E, who, ns, h) = EffectiveBand(F, who, ns, h)
  BY <1>10, PolicyOfInForce, BandOfInForce
<1>12. HoldsHumanAnywhere(E, who, h) = HoldsHumanAnywhere(F, who, h)
  BY HumanOfInForce
<1>13. \A band : Blinded(L, E, i, who, band, h) <=> Blinded(M, F, i, who, band, h)
  BY <1>6, <1>8, <1>9, <1>11 DEF Blinded
<1>14. SealedAtPost(E, L, i) <=> SealedAtPost(F, M, i)
  BY <1>6, <1>11 DEF SealedAtPost
<1> QED
  BY <1>6, <1>7, <1>11, <1>12, <1>13, <1>14, ReadableIff

\* An entry comes into force at an offset of its log.
LEMMA NobodyAhead ==
    ASSUME NEW L \in Seq(Envelope), Shaped(L)
    PROVE  \A e \in EntriesOf(L) : e.effective_at \in 1..Len(L)
<1>1. DOMAIN L = 1..Len(L) /\ Len(L) \in Nat
  BY LenProperties
<1>2. \A p \in DOMAIN L : ForceOffsets(L, p) \in SUBSET Nat /\ ForceOffsets(L, p) \subseteq 1..Len(L)
  BY <1>1 DEF ForceOffsets, Inbound, UpTo
<1>3. \A p \in DOMAIN L : ForceOffsets(L, p) # {} => Least(ForceOffsets(L, p)) \in 1..Len(L)
  BY <1>2, LeastNat
<1> QED
  BY <1>3 DEF EntriesOf, Entry

\* One more envelope leaves the law of every earlier offset as it was; at its own
\* offset the timeline without it is the law of the offset before.
LEMMA LawOfPast ==
    ASSUME NEW L \in Seq(Envelope), NEW M \in Seq(Envelope), NEW env \in Envelope,
           M = Append(L, env), Shaped(L), Shaped(M)
    PROVE  /\ \A h \in Int : h <= Len(L) =>
                 InForce(EntriesOf(M), h) = InForce(EntriesOf(L), h)
           /\ InForce(EntriesOf(L), Len(L) + 1) = InForce(EntriesOf(M), Len(L))
<1>1. Len(L) \in Nat
  BY LenProperties
<1>2. EntriesOf(M) = Apply(EntriesOf(L), M, Len(L) + 1)
  BY ApplyIsRebuild
<1>3. EntriesOf(L) \subseteq EntriesOf(M)
  BY <1>2, ApplyKeeps
<1>4. \A e \in EntriesOf(M) \ EntriesOf(L) : e.effective_at = Len(L) + 1
  BY <1>2, ApplyAddsNow
<1>5. \A e \in EntriesOf(L) : e.effective_at \in 1..Len(L)
  BY NobodyAhead
<1>6. \A h \in Int : h <= Len(L) => InForce(EntriesOf(M), h) = InForce(EntriesOf(L), h)
  BY <1>1, <1>3, <1>4 DEF InForce
<1>7. InForce(EntriesOf(L), Len(L) + 1) = EntriesOf(L)
  BY <1>1, <1>5 DEF InForce
<1>8. InForce(EntriesOf(L), Len(L)) = EntriesOf(L)
  BY <1>1, <1>5 DEF InForce
<1> QED
  BY <1>1, <1>6, <1>7, <1>8

\* The log without its last envelope is as well shaped.
LEMMA ShapedFront ==
    ASSUME NEW L \in Seq(Envelope), NEW env \in Envelope, Shaped(Append(L, env))
    PROVE  Shaped(L)
<1>1. /\ DOMAIN L \subseteq DOMAIN Append(L, env)
      /\ \A i \in DOMAIN L : Append(L, env)[i] = L[i]
  BY AppendProperties, LenProperties
<1> QED
  BY <1>1 DEF Shaped

\* What a slice owes the law of its head and of the one before it is left alone by
\* whatever keeps the log up to that head and those laws.
LEMMA WithinIsKept ==
    ASSUME NEW L \in Seq(Envelope), NEW M \in Seq(Envelope), Shaped(L), NEW h \in Nat,
           h <= Len(L), h <= Len(M), \A i \in 1..h : M[i] = L[i],
           InForce(EntriesOf(M), h) = InForce(EntriesOf(L), h),
           InForce(EntriesOf(M), h - 1) = InForce(EntriesOf(L), h - 1), NEW who
    PROVE  /\ Laws(M, h) = Laws(L, h)
           /\ \A slice : WithinLaws(L, who, h, slice) => WithinLaws(M, who, h, slice)
<1>1. ASSUME NEW o
      PROVE  Visible(L, InForce(EntriesOf(L), o), who, h)
                = Visible(M, InForce(EntriesOf(L), o), who, h)
  <2> DEFINE law == InForce(EntriesOf(L), o)
  <2>1. law \in SUBSET PolicyEntry
    BY EntriesOfType DEF InForce
  <2> HIDE DEF law
  <2>2. Visible(L, law, who, h) = Visible(M, law, who, h)
    BY <2>1, SameView
  <2> QED
    BY <2>2 DEF law
<1> QED
  BY <1>1 DEF Laws, WithinLaws

\* A commit keeps what the slices of the heads before it owe.
LEMMA CommitKeepsWithin ==
    ASSUME NEW L \in Seq(Envelope), NEW M \in Seq(Envelope), NEW env \in Envelope,
           M = Append(L, env), Shaped(L), Shaped(M), NEW h \in 1..Len(L), NEW who
    PROVE  /\ Laws(M, h) = Laws(L, h)
           /\ \A slice : WithinLaws(L, who, h, slice) => WithinLaws(M, who, h, slice)
<1>1. /\ Len(L) \in Nat /\ Len(M) = Len(L) + 1 /\ h \in Nat /\ h - 1 \in Int
      /\ h <= Len(L) /\ h - 1 <= Len(L) /\ \A i \in 1..h : M[i] = L[i]
  BY AppendProperties, LenProperties
<1>2. /\ InForce(EntriesOf(M), h) = InForce(EntriesOf(L), h)
      /\ InForce(EntriesOf(M), h - 1) = InForce(EntriesOf(L), h - 1)
  <2>1. \A o \in Int : o <= Len(L) => InForce(EntriesOf(M), o) = InForce(EntriesOf(L), o)
    BY LawOfPast
  <2> QED
    BY <1>1, <2>1
<1>3. h <= Len(M)
  BY <1>1
<1> QED
  BY <1>1, <1>2, <1>3, WithinIsKept

\* Memory is never ahead of the store, nor does it differ where both speak.
LEMMA MemoryIsPrefix ==
    ASSUME BInv, log # << >>
    PROVE  /\ Len(log) \in Nat /\ Len(log) <= Len(stored)
           /\ \A i \in 1..Len(log) : stored[i] = log[i]
<1>1. log \in Seq(Envelope) /\ stored \in Seq(Envelope) /\ Len(log) \in Nat
  BY LenProperties DEF BInv, StoreOK, MemoryOK
<1>2. CASE stored = log
  BY <1>1, <1>2
<1>3. CASE stored = Append(log, stored[NextId(log)])
  BY <1>1, <1>3
<1> QED
  BY <1>2, <1>3 DEF BInv, BoardTypeOK

\* At a head that memory has, the timeline in memory is one of the two laws.
LEMMA MemoryFollowsLaw ==
    ASSUME BInv, NEW h \in 1..Len(log)
    PROVE  entries \in SUBSET PolicyEntry /\ InForce(entries, h) \in Laws(stored, h)
<1>1. /\ stored \in Seq(Envelope) /\ log \in Seq(Envelope) /\ Shaped(stored)
      /\ Len(log) \in Nat /\ log # << >> /\ h \in Nat /\ writer # "down"
  BY LenProperties DEF BInv, StoreOK, MemoryOK, BoardTypeOK
<1>2. CASE stored = log /\ entries = EntriesOf(log)
  BY <1>1, <1>2, EntriesOfType DEF Laws
<1>3. CASE writer = "persisted"
  <2> DEFINE env == stored[NextId(log)]
  <2>1. stored = Append(log, env) /\ entries = EntriesOf(log)
    BY <1>3 DEF BInv, BoardTypeOK
  <2>2. Len(stored) = Len(log) + 1
    BY <1>1, <2>1
  <2>3. env \in Envelope
    BY <1>1, <2>2, ElementOfSeq DEF NextId
  <2>4. Shaped(log)
    BY <1>1, <2>1, <2>3, ShapedFront
  <2> HIDE DEF env
  <2>5. InForce(EntriesOf(stored), h) = InForce(EntriesOf(log), h)
    <3>1. \A o \in Int : o <= Len(log) =>
             InForce(EntriesOf(stored), o) = InForce(EntriesOf(log), o)
      BY <1>1, <2>1, <2>3, <2>4, LawOfPast
    <3> QED
      BY <1>1, <3>1
  <2> QED
    BY <1>1, <2>1, <2>4, <2>5, EntriesOfType DEF Laws
<1>4. CASE writer = "joined"
  <2> DEFINE L == SubSeq(log, 1, Len(log) - 1)
             env == log[Len(log)]
  <2>1. stored = log /\ entries = EntriesOf(L)
    BY <1>4 DEF BInv, BoardTypeOK
  <2>3. L \in Seq(Envelope) /\ env \in Envelope /\ Len(L) + 1 = Len(log)
    BY <1>1, LastOff
  <2>5. log = Append(L, env)
    BY <1>1, LastOff
  <2> HIDE DEF L, env
  <2>6. Shaped(L)
    BY <1>1, <2>1, <2>3, <2>5, ShapedFront
  <2>7. Len(L) \in Nat /\ (h <= Len(L) \/ h = Len(L) + 1)
    BY <1>1, <2>3, LenProperties
  <2>8. CASE h <= Len(L)
    <3>1. \A o \in Int : o <= Len(L) =>
             InForce(EntriesOf(stored), o) = InForce(EntriesOf(L), o)
      BY <1>1, <2>1, <2>3, <2>5, <2>6, LawOfPast
    <3>2. InForce(EntriesOf(stored), h) = InForce(EntriesOf(L), h)
      BY <1>1, <2>8, <3>1
    <3> QED
      BY <2>1, <2>3, <2>6, <3>2, EntriesOfType DEF Laws
  <2>9. CASE h = Len(L) + 1
    <3>1. InForce(EntriesOf(L), h) = InForce(EntriesOf(stored), h - 1)
      <4>1. InForce(EntriesOf(L), Len(L) + 1) = InForce(EntriesOf(stored), Len(L))
        BY <1>1, <2>1, <2>3, <2>5, <2>6, LawOfPast
      <4>2. h - 1 = Len(L)
        BY <2>7, <2>9
      <4> QED
        BY <2>9, <4>1, <4>2
    <3> QED
      BY <2>1, <2>3, <2>6, <3>1, EntriesOfType DEF Laws
  <2> QED
    BY <2>7, <2>8, <2>9
<1> QED
  BY <1>1, <1>2, <1>3, <1>4 DEF BInv, BoardTypeOK

\* A slice judged envelope by envelope against timelines that were each one of the
\* two laws.
LEMMA JudgedWithinLaws ==
    ASSUME BInv, NEW h \in 1..Len(log), NEW who, NEW met, met # {},
           \A E \in met : E \in SUBSET PolicyEntry /\ InForce(E, h) \in Laws(stored, h),
           NEW slice,
           \A i : (\A E \in met : i \in Visible(log, E, who, h)) => i \in slice,
           \A i \in slice : \E E \in met : i \in Visible(log, E, who, h)
    PROVE  WithinLaws(stored, who, h, slice)
<1> DEFINE exact  == InForce(EntriesOf(stored), h)
           before == InForce(EntriesOf(stored), h - 1)
<1>1. /\ stored \in Seq(Envelope) /\ log \in Seq(Envelope) /\ Shaped(stored)
      /\ Len(log) \in Nat /\ log # << >> /\ h \in Nat /\ h <= Len(log)
  BY LenProperties DEF BInv, StoreOK, MemoryOK, BoardTypeOK
<1>2. /\ h <= Len(stored) /\ \A i \in 1..h : log[i] = stored[i]
  <2>1. Len(stored) \in Nat
    BY <1>1, LenProperties
  <2> QED
    BY <1>1, <2>1, MemoryIsPrefix
<1>3. /\ exact \in SUBSET PolicyEntry /\ before \in SUBSET PolicyEntry
  BY <1>1, EntriesOfType DEF InForce
<1>4. InForce(exact, h) = exact /\ InForce(before, h) = before
  <2>1. \A e \in EntriesOf(stored) : e.effective_at \in Nat
    BY <1>1, EntriesOfType DEF PolicyEntry
  <2> QED
    BY <1>1, <2>1 DEF InForce
<1> HIDE DEF exact, before
<1>5. ASSUME NEW E \in met
      PROVE  \/ Visible(log, E, who, h) = Visible(stored, exact, who, h)
             \/ Visible(log, E, who, h) = Visible(stored, before, who, h)
  <2>1. E \in SUBSET PolicyEntry /\ (InForce(E, h) = exact \/ InForce(E, h) = before)
    BY DEF Laws, exact, before
  <2>2. CASE InForce(E, h) = exact
    BY <1>1, <1>2, <1>3, <1>4, <2>1, <2>2, SameView
  <2>3. CASE InForce(E, h) = before
    BY <1>1, <1>2, <1>3, <1>4, <2>1, <2>3, SameView
  <2> QED
    BY <2>1, <2>2, <2>3
<1> QED
  BY <1>5 DEF WithinLaws, exact, before

-----------------------------------------------------------------------------
(* Every slice, in the cache or served, is within the laws of its head.    *)

\* Slices are held to the laws of their head as long as the lookups are exact.
Lawful(L, who, h, slice) == lookups = "exact" => WithinLaws(L, who, h, slice)

\* The inductive invariant: heads are in memory, every timeline met while filtering
\* was one of the two laws of the head, and slices are lawful.
ViewInv ==
    /\ BInv
    /\ \A r \in Reader : reader[r].pc # "idle" => reader[r].head \in 1..Len(log)
    /\ \A r \in Reader : reader[r].pc = "filter" =>
          /\ reader[r].met # {}
          /\ \A E \in reader[r].met :
                E \in SUBSET PolicyEntry /\ InForce(E, reader[r].head) \in Laws(stored, reader[r].head)
    /\ \A r \in Reader : reader[r].pc = "served" =>
          Lawful(stored, reader[r].who, reader[r].head, reader[r].slice)
    /\ \A k \in DOMAIN cache :
          k.head \in 1..Len(log) /\ Lawful(stored, k.who, k.head, cache[k])

LEMMA InitViewInv == BoardInit => ViewInv
<1>1. BoardInit => BInv
  BY InitBInv
<1> QED
  BY <1>1 DEF BoardInit, ViewInv, Idle, Lawful

\* Steps that leave what is read alone.
LEMMA StillViewInv ==
    ASSUME ViewInv, BInv', log' = log, stored' = stored, reader' = reader,
           lookups' = lookups,
           DOMAIN cache' \subseteq DOMAIN cache,
           \A k \in DOMAIN cache' : cache'[k] = cache[k]
    PROVE  ViewInv'
BY DEF ViewInv, Lawful

\* A commit: the slices are about offsets that are all behind it.
LEMMA CommitKeepsViewInv ==
    ASSUME ViewInv, BInv', NEW env \in Envelope, stored' = Append(stored, env),
           \/ stored = << >>
           \/ log' = log /\ log # << >>,
           writer = "idle", reader' = reader, cache' = cache, lookups' = lookups
    PROVE  ViewInv'
<1>1. /\ stored \in Seq(Envelope) /\ stored' \in Seq(Envelope) /\ log \in Seq(Envelope)
      /\ Shaped(stored) /\ Shaped(stored') /\ stored = log
  BY DEF ViewInv, BInv, StoreOK, MemoryOK, BoardTypeOK
<1>2. ASSUME NEW h \in 1..Len(log), NEW who, NEW slice
      PROVE  /\ Laws(stored', h) = Laws(stored, h) /\ h \in 1..Len(log')
             /\ Lawful(stored, who, h, slice) => Lawful(stored', who, h, slice)
  <2>1. log # << >>
    BY <1>2
  <2>2. log' = log
    BY <1>1, <2>1
  <2> QED
    BY <1>1, <2>2, CommitKeepsWithin DEF Lawful
<1>3. \A r \in Reader : reader[r].pc # "idle" => reader[r].head \in 1..Len(log')
  BY <1>2 DEF ViewInv
<1>4. \A r \in Reader : reader[r].pc = "filter" =>
         Laws(stored', reader[r].head) = Laws(stored, reader[r].head)
  BY <1>2 DEF ViewInv
<1>5. \A r \in Reader : reader[r].pc = "served" =>
         Lawful(stored', reader[r].who, reader[r].head, reader[r].slice)
  BY <1>2 DEF ViewInv
<1>6. \A k \in DOMAIN cache :
         k.head \in 1..Len(log') /\ Lawful(stored', k.who, k.head, cache[k])
  BY <1>2 DEF ViewInv
<1> QED
  BY <1>3, <1>4, <1>5, <1>6 DEF ViewInv, Lawful

\* The law a slice is judged by gains nothing from the envelope's joining memory,
\* only the heads that may be asked for do.
LEMMA JoinKeepsViewInv == ASSUME ViewInv, BInv', Join PROVE ViewInv'
<1>1. /\ stored' = stored /\ reader' = reader /\ cache' = cache /\ lookups' = lookups
      /\ log \in Seq(Envelope) /\ log' = Append(log, stored[NextId(log)])
      /\ log' \in Seq(Envelope)
  BY DEF Join, ViewInv, BInv, MemoryOK
<1>2. Len(log) \in Nat /\ Len(log') = Len(log) + 1
  BY <1>1, LenProperties
<1>3. \A h \in 1..Len(log) : h \in 1..Len(log')
  BY <1>2
<1> QED
  BY <1>1, <1>3 DEF ViewInv, Lawful

\* What a thread meets when the timeline moves under it is the law of its head.
LEMMA EnterKeepsViewInv == ASSUME ViewInv, BInv', Enter PROVE ViewInv'
<1>1. /\ log' = log /\ stored' = stored /\ cache' = cache /\ writer' = "entered"
      /\ lookups' = "exact" => lookups = "exact"
      /\ reader' = [r \in Reader |->
                      IF reader[r].pc = "filter"
                      THEN [reader[r] EXCEPT !.met = @ \cup {entries'}]
                      ELSE reader[r]]
  BY DEF Enter
<1>2. stored' = log' /\ entries' = EntriesOf(log')
  BY <1>1 DEF BInv, BoardTypeOK
<1>3. ASSUME NEW h
      PROVE  entries' \in SUBSET PolicyEntry /\ InForce(entries', h) \in Laws(stored, h)
  BY <1>1, <1>2, EntriesOfType DEF BInv, StoreOK, Laws
<1>4. ASSUME NEW r \in Reader
      PROVE  /\ reader'[r].pc = reader[r].pc /\ reader'[r].who = reader[r].who
             /\ reader'[r].head = reader[r].head /\ reader'[r].slice = reader[r].slice
             /\ reader'[r].met = IF reader[r].pc = "filter"
                                 THEN reader[r].met \cup {entries'} ELSE reader[r].met
  BY <1>1 DEF ViewInv, BInv, ReaderOK
<1>5. \A r \in Reader : reader'[r].pc # "idle" => reader'[r].head \in 1..Len(log')
  BY <1>1, <1>4 DEF ViewInv
<1>6. ASSUME NEW r \in Reader, reader'[r].pc = "filter"
      PROVE  /\ reader'[r].met # {}
             /\ \A E \in reader'[r].met :
                  E \in SUBSET PolicyEntry
                  /\ InForce(E, reader'[r].head) \in Laws(stored', reader'[r].head)
  <2>1. reader'[r].met = reader[r].met \cup {entries'} /\ reader[r].pc = "filter"
    BY <1>4, <1>6
  <2>2. \A E \in reader[r].met :
           E \in SUBSET PolicyEntry /\ InForce(E, reader[r].head) \in Laws(stored, reader[r].head)
    BY <2>1 DEF ViewInv
  <2> QED
    BY <1>1, <1>3, <1>4, <2>1, <2>2
<1>7. \A r \in Reader : reader'[r].pc = "served" =>
         Lawful(stored, reader[r].who, reader[r].head, reader[r].slice)'
  BY <1>1, <1>4 DEF ViewInv, Lawful
<1>8. \A k \in DOMAIN cache' :
         /\ k.head \in 1..Len(log')
         /\ lookups' = "exact" => WithinLaws(stored', k.who, k.head, cache'[k])
  BY <1>1 DEF ViewInv, Lawful
<1> QED
  BY <1>5, <1>6, <1>7, <1>8 DEF ViewInv, Lawful

\* Only one thread moves, to a state that is as it should be.
ViewOK(t) ==
    /\ t.pc # "idle" => t.head \in 1..Len(log)
    /\ t.pc = "filter" =>
          /\ t.met # {}
          /\ \A E \in t.met : E \in SUBSET PolicyEntry /\ InForce(E, t.head) \in Laws(stored, t.head)
    /\ t.pc = "served" => Lawful(stored, t.who, t.head, t.slice)

LEMMA MoveKeepsViewInv ==
    ASSUME ViewInv, BInv', NEW r \in Reader, lookups' = lookups, log' = log, stored' = stored,
           \A q \in Reader \ {r} : reader'[q] = reader[q], ViewOK(reader'[r]),
           \A k \in DOMAIN cache' :
              k.head \in 1..Len(log) /\ Lawful(stored, k.who, k.head, cache'[k])
    PROVE  ViewInv'
<1>1. \A q \in Reader : ViewOK(reader[q])
  BY DEF ViewInv, ViewOK
<1>2. \A q \in Reader : ViewOK(reader'[q])
  BY <1>1
<1> QED
  BY <1>2 DEF ViewInv, ViewOK, Lawful

LEMMA AskKeepsViewInv ==
    ASSUME ViewInv, BInv', NEW r \in Reader, NEW who \in Requester, Ask(r, who)
    PROVE  ViewInv'
<1> DEFINE t == [Idle EXCEPT !.pc = "lookup", !.who = who,
                             !.head = HeadOf(log), !.floor = acked]
<1>1. /\ log # << >> /\ reader' = [reader EXCEPT ![r] = t]
      /\ log' = log /\ stored' = stored /\ cache' = cache /\ lookups' = lookups
  BY DEF Ask
<1>2. Len(log) \in Nat /\ Len(log) >= 1
  BY <1>1, LenProperties, EmptySeq DEF ViewInv, BInv, MemoryOK
<1>3. ViewOK(t)
  BY <1>2 DEF ViewOK, Idle, HeadOf
<1> HIDE DEF t
<1>4. reader'[r] = t /\ \A q \in Reader \ {r} : reader'[q] = reader[q]
  BY <1>1 DEF ViewInv, BInv
<1>5. \A k \in DOMAIN cache' :
         k.head \in 1..Len(log) /\ Lawful(stored, k.who, k.head, cache'[k])
  BY <1>1 DEF ViewInv
<1> QED
  BY <1>1, <1>3, <1>4, <1>5, MoveKeepsViewInv

LEMMA LookupKeepsViewInv ==
    ASSUME ViewInv, BInv', NEW r \in Reader, Lookup(r)
    PROVE  ViewInv'
<1>1. /\ reader[r].pc = "lookup" /\ lookups' = lookups
      /\ log' = log /\ stored' = stored /\ cache' = cache
  BY DEF Lookup
<1>2. reader[r].head \in 1..Len(log)
  BY <1>1 DEF ViewInv
<1>3. \A q \in Reader \ {r} : reader'[q] = reader[q]
  BY DEF Lookup, ViewInv, BInv
<1>4. \A k \in DOMAIN cache :
         k.head \in 1..Len(log) /\ Lawful(stored, k.who, k.head, cache[k])
  BY DEF ViewInv
<1>5. ViewOK(reader'[r])
  <2>1. CASE CachedFor(r) # {}
    <3> DEFINE k == CHOOSE x \in CachedFor(r) : TRUE
    <3>1. k \in CachedFor(r)
      BY <2>1
    <3> HIDE DEF k
    <3>2. k \in DOMAIN cache /\ k = KeyOf(r)
      BY <3>1 DEF CachedFor
    <3>3. k.who = reader[r].who /\ k.head = reader[r].head
      BY <3>2 DEF KeyOf
    <3>4. reader' = [reader EXCEPT ![r].pc = "served", ![r].slice = cache[k]]
      BY <2>1 DEF Lookup, k
    <3>5. /\ reader'[r].pc = "served" /\ reader'[r].slice = cache[k]
          /\ reader'[r].who = reader[r].who /\ reader'[r].head = reader[r].head
      BY <3>4 DEF ViewInv, BInv, ReaderOK
    <3>6. Lawful(stored, reader[r].who, reader[r].head, cache[k])
      BY <1>4, <3>2, <3>3
    <3> QED
      BY <1>2, <3>5, <3>6 DEF ViewOK
  <2>2. CASE CachedFor(r) = {}
    <3>1. reader' = [reader EXCEPT ![r].pc = "filter", ![r].met = {entries}]
      BY <2>2 DEF Lookup
    <3>2. /\ reader'[r].pc = "filter" /\ reader'[r].met = {entries}
          /\ reader'[r].head = reader[r].head
      BY <3>1 DEF ViewInv, BInv, ReaderOK
    <3>3. entries \in SUBSET PolicyEntry
          /\ InForce(entries, reader[r].head) \in Laws(stored, reader[r].head)
      BY <1>2, MemoryFollowsLaw DEF ViewInv
    <3> QED
      BY <1>2, <3>2, <3>3 DEF ViewOK
  <2> QED
    BY <2>1, <2>2
<1> QED
  BY <1>1, <1>3, <1>4, <1>5, MoveKeepsViewInv

\* The heart of the matter: a verdict per envelope, each against some timeline met.
LEMMA FilterKeepsViewInv ==
    ASSUME ViewInv, BInv', NEW r \in Reader, Filter(r)
    PROVE  ViewInv'
<1> DEFINE who     == reader[r].who
           h       == reader[r].head
           met     == reader[r].met
           seen(E) == Visible(log, E, who, h)
           shown   == UNION {seen(E) : E \in met}
           sure    == {i \in shown : \A E \in met : i \in seen(E)}
           key     == KeyOf(r)
<1>1. /\ reader[r].pc = "filter" /\ lookups' = lookups
      /\ log' = log /\ stored' = stored
      /\ reader' = [reader EXCEPT ![r].pc = "served", ![r].slice = cache'[key],
                                  ![r].met = {}]
  BY DEF Filter
<1>2. PICK slice \in Judged(r) :
         cache' = IF key \in DOMAIN cache THEN cache
                  ELSE [k \in DOMAIN cache \cup {key} |->
                           IF k \in DOMAIN cache THEN cache[k] ELSE slice]
  BY DEF Filter
<1>3. /\ h \in 1..Len(log) /\ met # {}
      /\ \A E \in met : E \in SUBSET PolicyEntry /\ InForce(E, h) \in Laws(stored, h)
  BY <1>1 DEF ViewInv
<1>4. key.who = who /\ key.head = h
  BY DEF KeyOf
<1>5. \A k \in DOMAIN cache :
         k.head \in 1..Len(log) /\ Lawful(stored, k.who, k.head, cache[k])
  BY DEF ViewInv
<1>6. Lawful(stored, who, h, slice)
  <2> SUFFICES ASSUME lookups = "exact" PROVE WithinLaws(stored, who, h, slice)
    BY DEF Lawful
  <2>1. PICK E0 \in met : TRUE
    BY <1>3
  <2>2. PICK some \in SUBSET (shown \ sure) : slice = sure \cup some
    BY <1>2 DEF Judged
  <2>3. \A i : (\A E \in met : i \in Visible(log, E, who, h)) => i \in slice
    BY <2>1, <2>2
  <2>4. \A i \in slice : \E E \in met : i \in Visible(log, E, who, h)
    BY <2>2
  <2> HIDE DEF who, h, met
  <2> QED
    BY <1>3, <2>3, <2>4, JudgedWithinLaws DEF ViewInv
<1> HIDE DEF who, h, met, shown, sure, key
<1>7. /\ key \in DOMAIN cache'
      /\ \A k \in DOMAIN cache' :
            \/ k \in DOMAIN cache /\ cache'[k] = cache[k]
            \/ k = key /\ cache'[k] = slice
  BY <1>2
<1>8. \A k \in DOMAIN cache' :
         k.head \in 1..Len(log) /\ Lawful(stored, k.who, k.head, cache'[k])
  BY <1>3, <1>4, <1>5, <1>6, <1>7
<1>9. \A q \in Reader \ {r} : reader'[q] = reader[q]
  BY <1>1 DEF ViewInv, BInv
<1>10. ViewOK(reader'[r])
  <2>1. /\ reader'[r].pc = "served" /\ reader'[r].slice = cache'[key]
        /\ reader'[r].who = who /\ reader'[r].head = h
    BY <1>1 DEF ViewInv, BInv, ReaderOK, who, h
  <2>2. Lawful(stored, who, h, cache'[key])
    BY <1>4, <1>7, <1>8
  <2> QED
    BY <1>3, <2>1, <2>2 DEF ViewOK
<1> QED
  BY <1>1, <1>8, <1>9, <1>10, MoveKeepsViewInv

LEMMA ReturnKeepsViewInv ==
    ASSUME ViewInv, BInv', NEW r \in Reader, Return(r)
    PROVE  ViewInv'
<1>1. /\ reader' = [reader EXCEPT ![r] = Idle]
      /\ log' = log /\ stored' = stored /\ cache' = cache /\ lookups' = lookups
  BY DEF Return
<1>2. ViewOK(Idle)
  BY DEF Idle, ViewOK
<1>3. reader'[r] = Idle /\ \A q \in Reader \ {r} : reader'[q] = reader[q]
  BY <1>1 DEF ViewInv, BInv
<1>4. \A k \in DOMAIN cache' :
         k.head \in 1..Len(log) /\ Lawful(stored, k.who, k.head, cache'[k])
  BY <1>1 DEF ViewInv
<1> QED
  BY <1>1, <1>2, <1>3, <1>4, MoveKeepsViewInv

\* Nobody reads and nothing is cached just after a crash, nor until the log is back.
LEMMA RestartKeepsViewInv == ASSUME ViewInv, BInv', Crash \/ Reload PROVE ViewInv'
<1>1. CASE Crash
  BY <1>1 DEF Crash, ViewInv, Idle, Lawful
<1>2. CASE Reload
  <2>1. /\ log = << >> /\ reader' = reader /\ cache' = cache
    BY <1>2 DEF Reload, ViewInv, BInv, BoardTypeOK
  <2>2. \A h : h \notin 1..Len(log)
    BY <2>1
  <2>3. DOMAIN cache = {} /\ \A r \in Reader : reader[r].pc = "idle"
    BY <2>2 DEF ViewInv
  <2> QED
    BY <2>1, <2>3 DEF ViewInv
<1> QED
  BY <1>1, <1>2

LEMMA BoardNextKeepsViewInv == ViewInv /\ [BoardNext]_boardVars => ViewInv'
<1> SUFFICES ASSUME ViewInv, [BoardNext]_boardVars PROVE ViewInv'
  OBVIOUS
<1>0. BInv'
  BY BoardNextKeepsBInv DEF ViewInv
<1>1. ASSUME NEW policy \in GenesisPolicies, Seed(policy) PROVE ViewInv'
  <2>1. Sequenced(GenesisDraft(policy), "human", now) \in Envelope
    BY GenesisEnvelope DEF ViewInv, BInv, StoreOK
  <2>2. stored' = <<Sequenced(GenesisDraft(policy), "human", now)>> /\ stored = << >>
    BY <1>1 DEF Seed, Genesis
  <2>3. stored' = Append(stored, Sequenced(GenesisDraft(policy), "human", now))
    BY <2>2
  <2>4. writer = "idle" /\ reader' = reader /\ cache' = cache /\ lookups' = lookups
    BY <1>1 DEF Seed
  <2> QED
    BY <1>0, <2>1, <2>2, <2>3, <2>4, CommitKeepsViewInv
<1>2. ASSUME NEW d \in Drafts, Persist(d) PROVE ViewInv'
  <2>1. /\ stored' = Append(stored, Sequenced(d, BandOf(d), now)) /\ log' = log
        /\ log # << >> /\ writer = "idle" /\ reader' = reader /\ cache' = cache
        /\ lookups' = lookups
    BY <1>2 DEF Persist
  <2>2. TypeOK
    BY <2>1, EntriesOfType DEF ViewInv, BInv, BoardTypeOK, StoreOK, TypeOK
  <2>3. Sequenced(d, BandOf(d), now) \in Envelope
    BY <1>2, <2>2, AcceptedEnvelope DEF Persist
  <2> QED
    BY <1>0, <2>1, <2>3, CommitKeepsViewInv
<1>3. CASE Drop
  <2>1. /\ log' = log /\ stored' = stored /\ reader' = reader /\ lookups' = lookups
        /\ DOMAIN cache' \subseteq DOMAIN cache /\ \A k \in DOMAIN cache' : cache'[k] = cache[k]
    BY <1>3 DEF Drop, CachedAt
  <2> QED
    BY <1>0, <2>1, StillViewInv
<1>4. CASE Answer \/ Clock \/ UNCHANGED boardVars
  <2>1. /\ log' = log /\ stored' = stored /\ reader' = reader /\ cache' = cache
        /\ lookups' = lookups
    BY <1>4 DEF Answer, Clock, boardVars
  <2> QED
    BY <1>0, <2>1, StillViewInv
<1>5. CASE \E r \in Reader, who \in Requester : Ask(r, who)
  BY <1>0, <1>5, AskKeepsViewInv
<1>6. CASE \E r \in Reader : Lookup(r) \/ Filter(r) \/ Return(r)
  BY <1>0, <1>6, LookupKeepsViewInv, FilterKeepsViewInv, ReturnKeepsViewInv
<1> QED
  BY <1>0, <1>1, <1>2, <1>3, <1>4, <1>5, <1>6, JoinKeepsViewInv, EnterKeepsViewInv,
     RestartKeepsViewInv
  DEF BoardNext

\* As long as no lookup of the law raced with a policy that came in, whatever else
\* raced (a post half way into memory, a policy entering the timeline in the middle of
\* the filtering, a slice stored first by another thread, a crash), a served slice is
\* that of its head, by the law of that head or of the one before it: visible_for never
\* shows what both withhold.
THEOREM ServedSlicesAreLawful == BoardSpec => []ServedWithinTwoLaws
<1>1. ViewInv => ServedWithinTwoLaws
  BY DEF ViewInv, Lawful, WithinLaws, ServedWithinTwoLaws, Owed, OwedBefore, LawAt
<1> QED
  BY <1>1, InitViewInv, BoardNextKeepsViewInv, PTL DEF BoardSpec

-----------------------------------------------------------------------------
(* OneAtATime, the instance of Sequencer on the store, has its own copy of *)
(* every operator.  First the copies agree, up to the test that accepts a  *)
(* draft: the queries of the log and the tables of the wire vocabulary.    *)

LEMMA SameQueries ==
    ASSUME NEW L, NEW x, NEW e, NEW o
    PROVE  /\ OneAtATime!RefsOf(x, e) = RefsOf(x, e)
           /\ OneAtATime!Inbound(L, x, e, o) = Inbound(L, x, e, o)
           /\ OneAtATime!HeadOf(L) = HeadOf(L)
           /\ OneAtATime!NextId(L) = NextId(L)
BY DEF OneAtATime!RefsOf, RefsOf, OneAtATime!Inbound, Inbound, OneAtATime!UpTo, UpTo,
       OneAtATime!HeadOf, HeadOf, OneAtATime!NextId, NextId

LEMMA SameBandRank == OneAtATime!BandRank = BandRank /\ OneAtATime!NoBand = NoBand
BY DEF OneAtATime!BandRank, BandRank, OneAtATime!Band, Band, OneAtATime!NoBand, NoBand

LEMMA SameTables ==
    ASSUME NEW e
    PROVE  /\ OneAtATime!EdgeSourceActs(e) = EdgeSourceActs(e)
           /\ OneAtATime!EdgeTargetActs(e) = EdgeTargetActs(e)
           /\ OneAtATime!MinRank(e) = MinRank(e)
BY DEF OneAtATime!EdgeSourceActs, EdgeSourceActs, OneAtATime!EdgeTargetActs,
       EdgeTargetActs, OneAtATime!Act, Act, OneAtATime!MinRank, MinRank

-----------------------------------------------------------------------------
(* The timeline, its grants and bands.                                     *)

LEMMA SameTimeline ==
    ASSUME NEW L, NEW E, NEW p
    PROVE  /\ OneAtATime!EntriesOf(L) = EntriesOf(L)
           /\ OneAtATime!Apply(E, L, p) = Apply(E, L, p)
BY DEF OneAtATime!EntriesOf, EntriesOf, OneAtATime!ForceOffsets, ForceOffsets,
       OneAtATime!Entry, Entry, OneAtATime!Least, Least, OneAtATime!IsPolicy, IsPolicy,
       OneAtATime!Inbound, Inbound, OneAtATime!UpTo, UpTo, OneAtATime!RefsOf, RefsOf,
       OneAtATime!Apply, Apply, OneAtATime!Entered, Entered

LEMMA SamePolicy ==
    ASSUME NEW E, NEW ns, NEW o
    PROVE  OneAtATime!PolicyAt(E, ns, o) = PolicyAt(E, ns, o)
BY DEF OneAtATime!PolicyAt, PolicyAt, OneAtATime!Governing, Governing,
       OneAtATime!InForce, InForce, OneAtATime!Governs, Governs,
       OneAtATime!InSubtree, InSubtree, OneAtATime!Prevails, Prevails

LEMMA SameGrants ==
    ASSUME NEW E, NEW o, NEW ns, NEW policy
    PROVE  /\ OneAtATime!GrantsAt(E, o) = GrantsAt(E, o)
           /\ OneAtATime!GrantsWith(E, o, ns, policy) = GrantsWith(E, o, ns, policy)
BY DEF OneAtATime!GrantsAt, GrantsAt, OneAtATime!GrantsWith, GrantsWith,
       OneAtATime!Flatten, Flatten, OneAtATime!LatestEntries, LatestEntries,
       OneAtATime!NsRank, NsRank, OneAtATime!InForce, InForce,
       OneAtATime!LaterThan, LaterThan, OneAtATime!Least, Least

LEMMA SameConflicts ==
    ASSUME NEW G
    PROVE  OneAtATime!GrantConflicts(G) = GrantConflicts(G)
BY DEF OneAtATime!GrantConflicts, GrantConflicts, OneAtATime!Of, Of,
       OneAtATime!Exempt, Exempt, OneAtATime!SubtreesOverlap, SubtreesOverlap,
       OneAtATime!InSubtree, InSubtree, OneAtATime!CommonsRoots, CommonsRoots

LEMMA SameBand ==
    ASSUME NEW E, NEW i, NEW ns, NEW o
    PROVE  OneAtATime!EffectiveBand(E, i, ns, o) = EffectiveBand(E, i, ns, o)
BY DEF OneAtATime!EffectiveBand, EffectiveBand, OneAtATime!GrantsAt, GrantsAt,
       OneAtATime!Flatten, Flatten, OneAtATime!LatestEntries, LatestEntries,
       OneAtATime!NsRank, NsRank, OneAtATime!InForce, InForce,
       OneAtATime!LaterThan, LaterThan, OneAtATime!Least, Least,
       OneAtATime!Covers, Covers, OneAtATime!OwnScratch, OwnScratch,
       OneAtATime!InSubtree, InSubtree, OneAtATime!Before, Before,
       OneAtATime!BandRank, BandRank, OneAtATime!Band, Band, OneAtATime!NoBand, NoBand

-----------------------------------------------------------------------------
(* Leases.                                                                 *)

LEMMA SameLiveHolder ==
    ASSUME NEW L, NEW r, NEW o, NEW t
    PROVE  OneAtATime!LiveHolder(L, r, o, t) = LiveHolder(L, r, o, t)
BY DEF OneAtATime!LiveHolder, LiveHolder, OneAtATime!LiveAt, LiveAt,
       OneAtATime!Admissible, Admissible, OneAtATime!Unblocked, Unblocked,
       OneAtATime!Runs, Runs, OneAtATime!Heads, Heads, OneAtATime!Follow, Follow,
       OneAtATime!Foremost, Foremost, OneAtATime!Least, Least,
       OneAtATime!LeaseEnd, LeaseEnd, OneAtATime!EndOfLink, EndOfLink,
       OneAtATime!LinkEnd, LinkEnd,
       OneAtATime!Releases, Releases, OneAtATime!CurrentLink, CurrentLink,
       OneAtATime!Renewals, Renewals, OneAtATime!Renewed, Renewed,
       OneAtATime!Claims, Claims, OneAtATime!ActsIn, ActsIn,
       OneAtATime!Inbound, Inbound, OneAtATime!UpTo, UpTo, OneAtATime!RefsOf, RefsOf,
       OneAtATime!Greatest, Greatest, OneAtATime!NoHold, NoHold

-----------------------------------------------------------------------------
(* The gauntlet, on a store that memory has caught up with.                *)

Synced == log = stored /\ entries = EntriesOf(stored)

LEMMA SameDraft ==
    ASSUME NEW d
    PROVE  /\ OneAtATime!BandOf(d) = EffectiveBand(EntriesOf(stored), d.author, d.ns, NextId(stored))
           /\ \A band, tick : OneAtATime!Sequenced(d, band, tick) = Sequenced(d, band, tick)
BY SameBand, SameTimeline, SameQueries
DEF OneAtATime!BandOf, BandOf, OneAtATime!Sequenced, Sequenced,
    OneAtATime!Truncate, Truncate

LEMMA SameVocabulary ==
    /\ OneAtATime!Lane = Lane /\ OneAtATime!AnyAct = AnyAct
    /\ OneAtATime!NoSelector = NoSelector /\ OneAtATime!NoSha = NoSha
    /\ OneAtATime!AnyGrade = AnyGrade /\ OneAtATime!NoBudget = NoBudget
BY DEF OneAtATime!Lane, Lane, OneAtATime!AnyAct, AnyAct, OneAtATime!NoSelector,
       NoSelector, OneAtATime!NoSha, NoSha, OneAtATime!AnyGrade, AnyGrade,
       OneAtATime!NoBudget, NoBudget

LEMMA SameCardinality == \A S : OneAtATime!Cardinality(S) = Cardinality(S)
BY DEF OneAtATime!Cardinality, Cardinality

\* The gates that consult a role, a floor or what may be reached.
LEMMA SameRoles ==
    ASSUME NEW role, NEW band
    PROVE  /\ OneAtATime!InRole(role, band) = InRole(role, band)
           /\ OneAtATime!FloorRank(role) = FloorRank(role)
BY SameBandRank DEF OneAtATime!InRole, InRole, OneAtATime!FloorRank, FloorRank

LEMMA SameRules ==
    ASSUME Synced, NEW ns
    PROVE  OneAtATime!RulesAt(ns) = RulesAt(ns)
BY SamePolicy, SameTimeline, SameQueries DEF Synced, OneAtATime!RulesAt, RulesAt

LEMMA SameRooms ==
    ASSUME NEW a, NEW b
    PROVE  /\ OneAtATime!InSubtree(a, b) = InSubtree(a, b)
           /\ OneAtATime!RoomIsOwned(a) = RoomIsOwned(a)
           /\ OneAtATime!Overlaps(a, b) = Overlaps(a, b)
           /\ OneAtATime!PrivateRoots = PrivateRoots
           /\ OneAtATime!SubscriptionsNs = SubscriptionsNs
BY DEF OneAtATime!InSubtree, InSubtree, OneAtATime!RoomIsOwned, RoomIsOwned,
       OneAtATime!InScratch, InScratch, OneAtATime!InMailbox, InMailbox,
       OneAtATime!Overlaps, Overlaps, OneAtATime!SubtreesOverlap, SubtreesOverlap,
       OneAtATime!PrivateRoots, PrivateRoots, OneAtATime!SubscriptionsNs, SubscriptionsNs

LEMMA SameReach ==
    ASSUME NEW E, NEW d, NEW o
    PROVE  OneAtATime!Reachable(E, d, o) <=> Reachable(E, d, o)
<1>1. \A who, ns : OneAtATime!EffectiveBand(E, who, ns, o) = EffectiveBand(E, who, ns, o)
  BY SameBand
<1>2. \A who, select : OneAtATime!SelectorOK(E, who, select, o) <=> SelectorOK(E, who, select, o)
  BY <1>1, SameRooms, SameVocabulary, SameBandRank
  DEF OneAtATime!SelectorOK, SelectorOK
<1>3. OneAtATime!SubscribeOK(E, d, o) <=> SubscribeOK(E, d, o)
  BY <1>2, SameRooms, SameVocabulary DEF OneAtATime!SubscribeOK, SubscribeOK
<1>4. \A ns, who : OneAtATime!MentionOK(E, ns, who, o) <=> MentionOK(E, ns, who, o)
  BY <1>1, SameRooms, SameBandRank DEF OneAtATime!MentionOK, MentionOK
<1> QED
  BY <1>3, <1>4, SameRooms DEF OneAtATime!Reachable, Reachable

-----------------------------------------------------------------------------
(* Canon and its closures.                                                 *)

LEMMA SameCanon ==
    ASSUME NEW L, NEW i, NEW ns, NEW o, NEW ids
    PROVE  /\ OneAtATime!EffectivelyStamped(L, i, o) <=> EffectivelyStamped(L, i, o)
           /\ OneAtATime!CurrentVersion(L, i, o) = CurrentVersion(L, i, o)
           /\ OneAtATime!CurrentVersions(L, ids, o) = CurrentVersions(L, ids, o)
           /\ OneAtATime!CanonPins(L, ns, o) = CanonPins(L, ns, o)
           /\ OneAtATime!Prerequisites(L, i, o) = Prerequisites(L, i, o)
           /\ OneAtATime!AckSet(L, i, o) = AckSet(L, i, o)
BY DEF OneAtATime!EffectivelyStamped, EffectivelyStamped, OneAtATime!Superseded, Superseded,
       OneAtATime!CurrentVersion, CurrentVersion, OneAtATime!CurrentVersions,
       CurrentVersions, OneAtATime!Follow, Follow, OneAtATime!CanonPins, CanonPins,
       OneAtATime!Prerequisites, Prerequisites, OneAtATime!AckSet, AckSet,
       OneAtATime!ActsIn, ActsIn, OneAtATime!Inbound, Inbound, OneAtATime!UpTo, UpTo,
       OneAtATime!RefsOf, RefsOf, OneAtATime!Greatest, Greatest

LEMMA SameSupport ==
    ASSUME NEW L, NEW i, NEW ids, NEW o
    PROVE  /\ OneAtATime!Cardinality(OneAtATime!Endorsers(L, i, o)) = Cardinality(Endorsers(L, i, o))
           /\ OneAtATime!Proposals(L, ids) = Proposals(L, ids)
           /\ OneAtATime!ReplacementSupport(L, ids, o) = ReplacementSupport(L, ids, o)
BY DEF OneAtATime!Endorsers, Endorsers, OneAtATime!Proposals, Proposals,
       OneAtATime!ReplacementSupport, ReplacementSupport, OneAtATime!Inbound, Inbound,
       OneAtATime!UpTo, UpTo, OneAtATime!RefsOf, RefsOf, OneAtATime!Greatest, Greatest,
       OneAtATime!Cardinality, Cardinality

LEMMA SameExpansion ==
    ASSUME NEW L, NEW o, NEW seen, NEW seeds, NEW start, NEW budget
    PROVE  OneAtATime!Expand(L, o, seen, seeds, start, budget) = Expand(L, o, seen, seeds, start, budget)
BY DEF OneAtATime!Expand, Expand, OneAtATime!Prerequisites, Prerequisites,
       OneAtATime!CurrentVersions, CurrentVersions, OneAtATime!CurrentVersion,
       CurrentVersion, OneAtATime!Follow, Follow, OneAtATime!Closer, Closer, OneAtATime!Cut, Cut, OneAtATime!Met, Met,
       OneAtATime!Greatest, Greatest, OneAtATime!Inbound, Inbound,
       OneAtATime!UpTo, UpTo, OneAtATime!RefsOf, RefsOf

LEMMA SameUnmet ==
    ASSUME NEW L, NEW E, NEW o, NEW ns, NEW targets, NEW who
    PROVE  OneAtATime!UnmetForClaim(L, E, o, ns, targets, who) = UnmetForClaim(L, E, o, ns, targets, who)
<1>1. OneAtATime!DepthAt(E, ns, o) = DepthAt(E, ns, o)
  BY SamePolicy DEF OneAtATime!DepthAt, DepthAt
<1>2. OneAtATime!Pinned(L, ns, o) = Pinned(L, ns, o)
  BY SameCanon DEF OneAtATime!Pinned, Pinned, OneAtATime!RefsOf, RefsOf
<1>3. \A seen : OneAtATime!ClosureForPins(L, E, ns, o, seen) = ClosureForPins(L, E, ns, o, seen)
  BY <1>1, <1>2, SameExpansion DEF OneAtATime!ClosureForPins, ClosureForPins
<1>4. UNION {OneAtATime!Prerequisites(L, t, o) : t \in targets}
          = UNION {Prerequisites(L, t, o) : t \in targets}
  BY SameCanon
<1>5. OneAtATime!NothingRead = NothingRead
  BY DEF OneAtATime!NothingRead, NothingRead
<1>6. OneAtATime!ClaimClosure(L, E, o, ns, targets) = ClaimClosure(L, E, o, ns, targets)
  BY <1>1, <1>3, <1>4, <1>5, SameExpansion DEF OneAtATime!ClaimClosure, ClaimClosure
<1> QED
  BY <1>6, SameCanon
  DEF OneAtATime!UnmetForClaim, UnmetForClaim, OneAtATime!Unread, Unread,
      OneAtATime!Met, Met

-----------------------------------------------------------------------------
(* The gauntlet as a whole.                                                *)

LEMMA SameCanonGates ==
    ASSUME Synced, NEW d, NEW band
    PROVE  /\ OneAtATime!PinBudgetOK(d) <=> PinBudgetOK(d)
           /\ OneAtATime!CanonPinOK(d) <=> CanonPinOK(d)
           /\ OneAtATime!AcksOK(d) <=> AcksOK(d)
           /\ OneAtATime!MayClose(d, band) <=> MayClose(d, band)
           /\ OneAtATime!MayAmend(d, band) <=> MayAmend(d, band)
<1>1. \A ns : OneAtATime!RulesAt(ns) = RulesAt(ns)
  BY SameRules
<1>2. OneAtATime!IsCanonPin(d) <=> IsCanonPin(d)
  BY DEF OneAtATime!IsCanonPin, IsCanonPin
<1>3. OneAtATime!PinBudgetOK(d) <=> PinBudgetOK(d)
  BY <1>1, <1>2, SameCanon, SameCardinality, SameQueries, SameVocabulary
  DEF Synced, OneAtATime!PinBudgetOK, PinBudgetOK
<1>4. \A t : OneAtATime!SupportFor(t) = SupportFor(t)
  BY SameSupport, SameQueries DEF Synced, OneAtATime!SupportFor, SupportFor
<1>5. \A g, who, ns, o : OneAtATime!HoldsGrant(g, who, ns, o, "maintainer")
                            <=> HoldsGrant(g, who, ns, o, "maintainer")
  BY SameGrants, SameRooms
  DEF OneAtATime!HoldsGrant, HoldsGrant, OneAtATime!Covers, Covers
<1>6. \A t : OneAtATime!EffectivelyStamped(stored, t, NextId(stored))
                <=> EffectivelyStamped(stored, t, NextId(stored))
  BY SameCanon
<1>7. \A t : OneAtATime!Enacted(d, t) <=> Enacted(d, t)
  BY <1>1, <1>4, <1>5, <1>6, SameTimeline, SameQueries
  DEF Synced, OneAtATime!Enacted, Enacted
<1>8. OneAtATime!CanonPinOK(d) <=> CanonPinOK(d)
  BY <1>2, <1>7, SameQueries DEF OneAtATime!CanonPinOK, CanonPinOK
<1>9. OneAtATime!AcksOK(d) <=> AcksOK(d)
  BY <1>1, SameUnmet, SameTimeline, SameQueries DEF Synced, OneAtATime!AcksOK, AcksOK
<1>10. OneAtATime!MayClose(d, band) <=> MayClose(d, band)
  BY <1>1, SameRoles, SameQueries DEF Synced, OneAtATime!MayClose, MayClose
<1>11. OneAtATime!MayAmend(d, band) <=> MayAmend(d, band)
  BY <1>1, SameRoles, SameQueries, SameSupport DEF Synced, OneAtATime!MayAmend, MayAmend
<1> QED
  BY <1>3, <1>8, <1>9, <1>10, <1>11

LEMMA SameAccepts ==
    ASSUME Synced, NEW d
    PROVE  /\ OneAtATime!BandOf(d) = BandOf(d)
           /\ OneAtATime!Accepts(d) <=> Accepts(d)
<1>1. OneAtATime!BandOf(d) = BandOf(d)
  BY SameDraft DEF Synced, BandOf
<1>2. OneAtATime!RefsExist(d) <=> RefsExist(d)
  BY DEF Synced, OneAtATime!RefsExist, RefsExist
<1>3. OneAtATime!EdgeTypesOK(d) <=> EdgeTypesOK(d)
  BY SameTables DEF Synced, OneAtATime!EdgeTypesOK, EdgeTypesOK
<1>4. OneAtATime!ShapeOK(d) <=> ShapeOK(d)
  BY DEF OneAtATime!ShapeOK, ShapeOK, OneAtATime!ExactlyOne, ExactlyOne,
         OneAtATime!AtLeastOne, AtLeastOne, OneAtATime!RefsOf, RefsOf,
         OneAtATime!Cardinality, Cardinality
<1>5. OneAtATime!MayPost(d, BandOf(d)) <=> MayPost(d, BandOf(d))
  BY SameBandRank, SameTables, SameQueries, SameRules
  DEF Synced, OneAtATime!MayPost, MayPost
<1>6. OneAtATime!MayCurate(d, BandOf(d)) <=> MayCurate(d, BandOf(d))
  BY SameBandRank, SameRoles, SameRules, SamePolicy, SameTimeline, SameQueries
  DEF Synced, OneAtATime!MayCurate, MayCurate
<1>7. OneAtATime!Reachable(EntriesOf(stored), d, OneAtATime!NextId(stored))
        <=> Reachable(entries, d, NextId(log))
  BY SameReach, SameQueries DEF Synced
<1>8. OneAtATime!NestAllows(d) <=> NestAllows(d)
  BY SameRules, SameVocabulary
  DEF OneAtATime!NestAllows, NestAllows, OneAtATime!PointerRequired, PointerRequired
<1>9. OneAtATime!NotHeldByAnother(d) <=> NotHeldByAnother(d)
  BY SameLiveHolder, SameQueries
  DEF Synced, OneAtATime!NotHeldByAnother, NotHeldByAnother, OneAtATime!NoHold, NoHold
<1>10. OneAtATime!BlindDeclares(d) <=> BlindDeclares(d)
  BY SamePolicy, SameTimeline, SameQueries
  DEF Synced, OneAtATime!BlindDeclares, BlindDeclares
<1>11. OneAtATime!CorroborationOK(d, BandOf(d)) <=> CorroborationOK(d, BandOf(d))
  <2>1. \A t : OneAtATime!Corroborations(t) = Corroborations(t)
    BY SameQueries DEF Synced, OneAtATime!Corroborations, Corroborations
  <2>2. \A ns : OneAtATime!RulesAt(ns) = RulesAt(ns)
    BY SameRules
  <2>3. OneAtATime!RefsOf(d, "corroborates") = RefsOf(d, "corroborates")
    BY SameQueries
  <2> QED
    BY <2>1, <2>2, <2>3, SameRoles, SameBandRank, SameVocabulary
    DEF Synced, OneAtATime!CorroborationOK, CorroborationOK
<1>12. OneAtATime!PolicyOK(d) <=> PolicyOK(d)
  BY SameGrants, SameConflicts, SameQueries, SameTimeline
  DEF Synced, OneAtATime!PolicyOK, PolicyOK, OneAtATime!FreshConflicts, FreshConflicts,
      OneAtATime!IsPolicy, IsPolicy, OneAtATime!InSubtree, InSubtree
<1>13. OneAtATime!UnsealOK(d) <=> UnsealOK(d)
  BY SameQueries DEF Synced, OneAtATime!UnsealOK, UnsealOK
<1>14. OneAtATime!BasisFresh(d) <=> BasisFresh(d)
  BY SameQueries
  DEF Synced, OneAtATime!BasisFresh, BasisFresh, OneAtATime!NoBasis, NoBasis,
      OneAtATime!StateChangingEdges, StateChangingEdges
<1> HIDE DEF Synced
<1> QED
  BY <1>1, <1>2, <1>3, <1>4, <1>5, <1>6, <1>7, <1>8, <1>9, <1>10, <1>11, <1>12, <1>13,
     <1>14, SameCanonGates
  DEF OneAtATime!Accepts, Accepts

-----------------------------------------------------------------------------
(* The steps.                                                              *)

LEMMA SeedIsGenesis ==
    ASSUME BInv, NEW policy \in GenesisPolicies, Seed(policy)
    PROVE  OneAtATime!Genesis(policy)
<1>1. /\ stored = << >> /\ GrantsHuman(policy, Operator) /\ now' = now
      /\ stored' = <<Sequenced(GenesisDraft(policy), "human", now)>>
  BY DEF Seed, Genesis
<1>2. OneAtATime!GenesisDraft(policy) = GenesisDraft(policy)
  BY DEF OneAtATime!GenesisDraft, GenesisDraft, OneAtATime!NoRange, NoRange,
         OneAtATime!NoBasis, NoBasis, OneAtATime!NoExt, NoExt, OneAtATime!NoSha, NoSha,
         OneAtATime!NoSelector, NoSelector
<1>3. EntriesOf(stored') = OneAtATime!EntriesOf(stored')
  BY SameTimeline
<1>4. OneAtATime!GrantsHuman(policy, Operator)
  BY <1>1 DEF OneAtATime!GrantsHuman, GrantsHuman
<1> QED
  BY <1>1, <1>2, <1>3, <1>4, SameDraft DEF OneAtATime!Genesis

\* The whole of board.append happens, to its clients, at the commit.
LEMMA PersistIsPost ==
    ASSUME BInv, NEW d \in Drafts, Persist(d)
    PROVE  OneAtATime!Post(d)
<1> DEFINE env == Sequenced(d, BandOf(d), now)
<1>1. Synced /\ writer = "idle" /\ now' = now
  BY DEF BInv, BoardTypeOK, Persist, Synced
<1>2. stored' = Append(stored, env) /\ stored # << >> /\ Len(stored) < MaxLog /\ Accepts(d)
  BY <1>1 DEF Persist, Synced
<1>3. OneAtATime!Accepts(d) /\ env = OneAtATime!Sequenced(d, OneAtATime!BandOf(d), now)
  BY <1>1, <1>2, SameAccepts, SameDraft
<1>4. env \in Envelope /\ stored \in Seq(Envelope)
  <2>1. TypeOK
    BY <1>1, EntriesOfType DEF BInv, StoreOK, TypeOK, Synced
  <2> QED
    BY <1>2, <2>1, AcceptedEnvelope DEF BInv, StoreOK
<1>5. StoreOK'
  BY PersistKeepsBInv DEF BInv
<1>6. Apply(EntriesOf(stored), stored', Len(stored) + 1) = EntriesOf(stored')
  <2> HIDE DEF env
  <2> QED
    BY <1>2, <1>4, <1>5, ApplyIsRebuild DEF StoreOK
<1>7. EntriesOf(stored') = OneAtATime!Apply(EntriesOf(stored), stored', OneAtATime!NextId(stored))
  BY <1>6, SameTimeline, SameQueries DEF NextId
<1> QED
  BY <1>1, <1>2, <1>3, <1>7 DEF OneAtATime!Post

\* A step of the board other than these and Clock leaves store and clock alone.
LEMMA BoardStepIsStep ==
    ASSUME BInv, [BoardNext]_boardVars
    PROVE  [OneAtATime!Next]_(OneAtATime!vars)
<1>1. CASE \E policy \in GenesisPolicies : Seed(policy)
  BY <1>1, SeedIsGenesis DEF OneAtATime!Next
<1>2. CASE \E d \in Drafts : Persist(d)
  BY <1>2, PersistIsPost DEF OneAtATime!Next
<1>3. CASE \/ Join \/ Enter \/ Drop \/ Answer \/ Crash \/ Reload
           \/ \E r \in Reader, who \in Requester : Ask(r, who)
           \/ \E r \in Reader : Lookup(r) \/ Filter(r) \/ Return(r)
           \/ UNCHANGED boardVars
  <2>1. stored' = stored /\ now' = now
    BY <1>3 DEF Join, Enter, Drop, Answer, Crash, Reload, Ask, Lookup, Filter, Return, boardVars
  <2> QED
    BY <2>1 DEF OneAtATime!vars
<1>4. CASE Clock
  BY <1>4 DEF Clock, OneAtATime!Tick, OneAtATime!Next
<1> QED
  BY <1>1, <1>2, <1>3, <1>4 DEF BoardNext

\* The board with its threads, its cache, its half-done appends and its crashes
\* implements the sequencer that accepts one post at a time: every append takes
\* effect at the commit of its row, and a restart is invisible.
THEOREM BoardIsSequencer == BoardSpec => BoardSequences
<1>1. BoardInit => OneAtATime!Init
  BY DEF BoardInit, Init, OneAtATime!Init, EntriesOf
<1>2. BInv /\ [BoardNext]_boardVars => [OneAtATime!Next]_(OneAtATime!vars)
  BY BoardStepIsStep
<1> QED
  BY <1>1, <1>2, AlwaysBInv, PTL DEF BoardSpec, BoardSequences, OneAtATime!Spec

-----------------------------------------------------------------------------
(* The memo that lookups of the law go through (PolicyMemo), when a single  *)
(* thread uses it.  Its state is beside that of the board.                  *)

CONSTANT Lone        \* the thread

VARIABLES memoHead, effective, entering, sorted, version, memo, call

Memo == INSTANCE PolicyMemo WITH Thread <- {Lone}, MaxHead <- MaxLog, head <- memoHead

\* No entry has come in since the lookup began.
Undisturbed == call[Lone].size = Len(effective)

Doing(pcs) == call[Lone].pc \in pcs

MemoType ==
    /\ effective \in Seq(Nat) /\ memoHead \in Nat
    /\ version \in Nat /\ version <= Len(effective)
    /\ DOMAIN call = {Lone}
    /\ DOMAIN call[Lone] = {"pc", "offset", "size", "list", "key", "answer"}
    /\ call[Lone].size \in Nat /\ call[Lone].size <= Len(effective)
    /\ call[Lone].offset \in Nat

\* A memo of as many entries as there are is counted in their list, and what it keeps
\* under a number is the answer at every offset of that number.
MemoFresh ==
    version = Len(effective) =>
        /\ sorted = effective
        /\ \A o \in Nat :
              LET key == Memo!CountUpTo(effective, o)
              IN  key \in DOMAIN memo => memo[key] = Memo!InForceAt(o)

\* A lookup works with the list that was there when it began, as long as that is the list.
LookupFresh ==
    /\ Doing({"rebuilding"}) /\ Undisturbed => call[Lone].list = effective
    /\ Doing({"keying", "looking", "computing", "keeping", "answered"}) =>
          call[Lone].size = version
    /\ Doing({"looking", "computing", "keeping"}) /\ Undisturbed =>
          call[Lone].key = Memo!CountUpTo(effective, call[Lone].offset)
    /\ Doing({"keeping", "answered"}) /\ Undisturbed =>
          call[Lone].answer = Memo!InForceAt(call[Lone].offset)

MemoInv == MemoType /\ MemoFresh /\ LookupFresh

\* Counting is the same in both modules.
LEMMA MemoCounts == \A S : Memo!Cardinality(S) = Cardinality(S)
BY DEF Memo!Cardinality, Cardinality

\* As many entries are the same entries: what comes into force later is not in force
\* earlier without what came before it.
LEMMA CountDecides ==
    ASSUME effective \in Seq(Nat), NEW o \in Nat, NEW q \in Nat,
           Memo!CountUpTo(effective, o) = Memo!CountUpTo(effective, q)
    PROVE  Memo!InForceAt(o) = Memo!InForceAt(q)
<1> DEFINE S(n) == {k \in DOMAIN effective : effective[k] <= n}
<1>1. DOMAIN effective = 1..Len(effective) /\ Len(effective) \in Nat
      /\ \A k \in DOMAIN effective : effective[k] \in Nat
  BY LenProperties, ElementOfSeq
<1>2. IsFiniteSet(DOMAIN effective)
  <2>1. 1 \in Int /\ Len(effective) \in Int
    BY <1>1
  <2>2. IsFiniteSet(1..Len(effective))
    BY <2>1, FS_Interval
  <2> QED
    BY <1>1, <2>2
<1>3. \A n \in Nat : S(n) \subseteq DOMAIN effective /\ IsFiniteSet(S(n))
  BY <1>2, FS_Subset
<1>4. \A n, m \in Nat : n <= m => S(n) \subseteq S(m)
  BY <1>1
<1>5. Cardinality(S(o)) = Cardinality(S(q))
  BY MemoCounts DEF Memo!CountUpTo
<1> HIDE DEF S
<1>6. \A n, m \in Nat : n <= m /\ Cardinality(S(n)) = Cardinality(S(m)) => S(n) = S(m)
  BY <1>3, <1>4, FS_Subset
<1>7. o <= q \/ q <= o
  OBVIOUS
<1>8. S(o) = S(q)
  BY <1>5, <1>6, <1>7
<1> QED
  BY <1>8 DEF S, Memo!InForceAt

\* What is counted is a number.
LEMMA EntriesCount ==
    ASSUME MemoType
    PROVE  Len(effective) \in Nat /\ call[Lone].size \in Nat /\ version \in Nat
BY LenProperties DEF MemoType

\* An entry that comes in leaves the memo behind the list, and so out of use.
LEMMA EntersKeepMemo ==
    ASSUME MemoInv, Memo!Enter
    PROVE  MemoInv'
<1>1. /\ effective' = Append(effective, memoHead) /\ effective \in Seq(Nat) /\ memoHead \in Nat
      /\ UNCHANGED <<memoHead, sorted, version, memo, call>>
  BY DEF Memo!Enter, MemoInv, MemoType
<1>2. effective' \in Seq(Nat) /\ Len(effective') = Len(effective) + 1 /\ Len(effective) \in Nat
  BY <1>1, AppendProperties, LenProperties
<1>3. version # Len(effective') /\ ~Undisturbed'
  BY <1>1, <1>2 DEF MemoInv, MemoType, Undisturbed
<1>4. MemoType'
  BY <1>1, <1>2 DEF MemoInv, MemoType
<1>5. MemoFresh'
  BY <1>1, <1>3 DEF MemoFresh
<1>6. LookupFresh'
  BY <1>1, <1>3 DEF MemoInv, LookupFresh, Doing
<1> QED
  BY <1>4, <1>5, <1>6 DEF MemoInv

\* Every step of the thread's lookup keeps memo and list in agreement.
LEMMA LookupsKeepMemo ==
    ASSUME MemoInv, Memo!Lookup(Lone)
    PROVE  MemoInv'
<1> DEFINE c == call[Lone]
           d == call'[Lone]
<1>1. /\ effective \in Seq(Nat) /\ memoHead \in Nat /\ version \in Nat
      /\ Len(effective) \in Nat /\ version <= Len(effective)
      /\ DOMAIN call = {Lone}
      /\ DOMAIN c = {"pc", "offset", "size", "list", "key", "answer"}
      /\ c.size \in Nat /\ c.size <= Len(effective) /\ c.offset \in Nat
  BY EntriesCount DEF MemoInv, MemoType
<1>2. UNCHANGED <<memoHead, effective, entering>>
  BY DEF Memo!Lookup, Memo!Ask, Memo!Sort, Memo!Rebuild, Memo!Count, Memo!Hit, Memo!Miss,
         Memo!Compute, Memo!Keep, Memo!Return
<1>3. ASSUME NEW what, Memo!Goto(Lone, what) PROVE DOMAIN call' = {Lone} /\ d = what
  BY <1>1, <1>3 DEF Memo!Goto
<1>4. CASE \E offset \in 1..memoHead : Memo!Ask(Lone, offset)
  <2>1. PICK offset \in 1..memoHead : Memo!Ask(Lone, offset)
    BY <1>4
  <2>2. /\ DOMAIN call' = {Lone} /\ UNCHANGED <<sorted, version, memo>>
        /\ d = [Memo!Idle EXCEPT
                  !.pc = IF Len(effective) # version THEN "sorting" ELSE "keying",
                  !.offset = offset, !.size = Len(effective)]
    BY <1>3, <2>1 DEF Memo!Ask
  <2>3. /\ DOMAIN d = {"pc", "offset", "size", "list", "key", "answer"}
        /\ d.pc = IF Len(effective) # version THEN "sorting" ELSE "keying"
        /\ d.offset = offset /\ d.size = Len(effective)
    BY <2>2 DEF Memo!Idle
  <2>4. offset \in Nat
    BY <1>1, <2>1
  <2> HIDE DEF d
  <2>5. MemoType'
    BY <1>1, <1>2, <2>2, <2>3, <2>4 DEF MemoType, d
  <2>6. MemoFresh'
    BY <1>2, <2>2 DEF MemoInv, MemoFresh, Memo!InForceAt
  <2>7. LookupFresh'
    BY <1>2, <2>2, <2>3 DEF LookupFresh, Doing, d
  <2> QED
    BY <2>5, <2>6, <2>7 DEF MemoInv
<1>5. ASSUME DOMAIN call' = {Lone}, DOMAIN d = DOMAIN c, d.size = c.size, d.offset = c.offset,
             version' \in Nat, version' <= Len(effective)
      PROVE  MemoType'
  <2> HIDE DEF c, d
  <2>1. /\ DOMAIN d = {"pc", "offset", "size", "list", "key", "answer"}
        /\ d.size \in Nat /\ d.size <= Len(effective) /\ d.offset \in Nat
    BY <1>1, <1>5
  <2> QED
    BY <1>1, <1>2, <1>5, <2>1 DEF MemoType, d
<1>6. /\ Undisturbed <=> c.size = Len(effective)
      /\ Doing({"rebuilding"}) <=> c.pc = "rebuilding"
      /\ MemoFresh /\ LookupFresh
  BY DEF Undisturbed, Doing, MemoInv
<1>7. CASE Memo!Sort(Lone)
  <2>1. /\ c.pc = "sorting" /\ UNCHANGED <<sorted, version, memo>> /\ DOMAIN call' = {Lone}
        /\ d = [c EXCEPT !.pc = "rebuilding", !.list = effective]
    BY <1>3, <1>7 DEF Memo!Sort, Memo!At
  <2>2. /\ DOMAIN d = DOMAIN c /\ d.size = c.size /\ d.offset = c.offset
        /\ d.pc = "rebuilding" /\ d.list = effective
    BY <1>1, <2>1
  <2>3. MemoType'
    BY <1>1, <1>5, <2>1, <2>2
  <2>4. MemoFresh'
    BY <1>2, <1>6, <2>1 DEF MemoFresh, Memo!InForceAt
  <2> HIDE DEF d
  <2>5. LookupFresh'
    BY <1>2, <2>2 DEF LookupFresh, Doing, d
  <2> QED
    BY <2>3, <2>4, <2>5 DEF MemoInv
<1>8. CASE Memo!Rebuild(Lone)
  <2>1. /\ c.pc = "rebuilding" /\ sorted' = c.list /\ version' = c.size /\ memo' = << >>
        /\ DOMAIN call' = {Lone}
        /\ d = [c EXCEPT !.pc = "looking", !.key = Memo!CountUpTo(sorted', c.offset)]
    BY <1>3, <1>8 DEF Memo!Rebuild, Memo!At
  <2>2. /\ DOMAIN d = DOMAIN c /\ d.size = c.size /\ d.offset = c.offset
        /\ d.pc = "looking" /\ d.key = Memo!CountUpTo(c.list, c.offset)
    BY <1>1, <2>1
  <2>3. MemoType'
    BY <1>1, <1>5, <2>1, <2>2
  <2>4. c.size = Len(effective) => c.list = effective
    BY <1>6, <2>1 DEF LookupFresh
  <2>5. MemoFresh'
    BY <1>2, <2>1, <2>4 DEF MemoFresh
  <2> HIDE DEF d
  <2>6. LookupFresh'
    BY <1>2, <2>1, <2>2, <2>4 DEF LookupFresh, Doing, Undisturbed, d
  <2> QED
    BY <2>3, <2>5, <2>6 DEF MemoInv
<1>9. CASE Memo!Count(Lone)
  <2>1. /\ c.pc = "keying" /\ UNCHANGED <<sorted, version, memo>> /\ DOMAIN call' = {Lone}
        /\ d = [c EXCEPT !.pc = "looking", !.key = Memo!CountUpTo(sorted, c.offset)]
    BY <1>3, <1>9 DEF Memo!Count, Memo!At
  <2>2. /\ DOMAIN d = DOMAIN c /\ d.size = c.size /\ d.offset = c.offset
        /\ d.pc = "looking" /\ d.key = Memo!CountUpTo(sorted, c.offset)
    BY <1>1, <2>1
  <2>3. MemoType'
    BY <1>1, <1>5, <2>1, <2>2
  <2>4. c.size = version /\ (c.size = Len(effective) => sorted = effective)
    BY <1>6, <2>1 DEF LookupFresh, Doing, MemoFresh
  <2>5. MemoFresh'
    BY <1>2, <1>6, <2>1 DEF MemoFresh, Memo!InForceAt
  <2> HIDE DEF d
  <2>6. LookupFresh'
    BY <1>2, <2>1, <2>2, <2>4 DEF LookupFresh, Doing, Undisturbed, d
  <2> QED
    BY <2>3, <2>5, <2>6 DEF MemoInv
<1>10. CASE Memo!Hit(Lone)
  <2>1. /\ c.pc = "looking" /\ UNCHANGED <<sorted, version, memo>> /\ DOMAIN call' = {Lone}
        /\ c.key \in DOMAIN memo /\ d = [c EXCEPT !.pc = "answered", !.answer = memo[c.key]]
    BY <1>3, <1>10 DEF Memo!Hit, Memo!At
  <2>2. /\ DOMAIN d = DOMAIN c /\ d.size = c.size /\ d.offset = c.offset
        /\ d.pc = "answered" /\ d.answer = memo[c.key]
    BY <1>1, <2>1
  <2>3. MemoType'
    BY <1>1, <1>5, <2>1, <2>2
  <2>4. c.size = version /\ (c.size = Len(effective) => memo[c.key] = Memo!InForceAt(c.offset))
    BY <1>1, <1>6, <2>1 DEF LookupFresh, Doing, MemoFresh
  <2>5. MemoFresh'
    BY <1>2, <1>6, <2>1 DEF MemoFresh, Memo!InForceAt
  <2> HIDE DEF d
  <2>6. LookupFresh'
    BY <1>2, <2>1, <2>2, <2>4 DEF LookupFresh, Doing, Undisturbed, d, Memo!InForceAt
  <2> QED
    BY <2>3, <2>5, <2>6 DEF MemoInv
<1>11. CASE Memo!Miss(Lone)
  <2>1. /\ c.pc = "looking" /\ UNCHANGED <<sorted, version, memo>> /\ DOMAIN call' = {Lone}
        /\ d = [c EXCEPT !.pc = "computing"]
    BY <1>3, <1>11 DEF Memo!Miss, Memo!At
  <2>2. /\ DOMAIN d = DOMAIN c /\ d.size = c.size /\ d.offset = c.offset
        /\ d.pc = "computing" /\ d.key = c.key
    BY <1>1, <2>1
  <2>3. MemoType'
    BY <1>1, <1>5, <2>1, <2>2
  <2>4. MemoFresh'
    BY <1>2, <1>6, <2>1 DEF MemoFresh, Memo!InForceAt
  <2> HIDE DEF d
  <2>5. LookupFresh'
    BY <1>2, <1>6, <2>1, <2>2 DEF LookupFresh, Doing, Undisturbed, d
  <2> QED
    BY <2>3, <2>4, <2>5 DEF MemoInv
<1>12. CASE Memo!Compute(Lone)
  <2>1. /\ c.pc = "computing" /\ UNCHANGED <<sorted, version, memo>> /\ DOMAIN call' = {Lone}
        /\ d = [c EXCEPT !.pc = "keeping", !.answer = Memo!InForceAt(c.offset)]
    BY <1>3, <1>12 DEF Memo!Compute, Memo!At
  <2>2. /\ DOMAIN d = DOMAIN c /\ d.size = c.size /\ d.offset = c.offset
        /\ d.pc = "keeping" /\ d.key = c.key /\ d.answer = Memo!InForceAt(c.offset)
    BY <1>1, <2>1
  <2>3. MemoType'
    BY <1>1, <1>5, <2>1, <2>2
  <2>4. MemoFresh'
    BY <1>2, <1>6, <2>1 DEF MemoFresh, Memo!InForceAt
  <2> HIDE DEF d
  <2>5. LookupFresh'
    BY <1>2, <1>6, <2>1, <2>2 DEF LookupFresh, Doing, Undisturbed, d, Memo!InForceAt
  <2> QED
    BY <2>3, <2>4, <2>5 DEF MemoInv
<1>13. CASE Memo!Keep(Lone)
  <2>1. /\ c.pc = "keeping" /\ UNCHANGED <<sorted, version>> /\ DOMAIN call' = {Lone}
        /\ memo' = [k \in DOMAIN memo \cup {c.key} |-> IF k = c.key THEN c.answer ELSE memo[k]]
        /\ d = [c EXCEPT !.pc = "answered"]
    BY <1>3, <1>13 DEF Memo!Keep, Memo!At
  <2>2. /\ DOMAIN d = DOMAIN c /\ d.size = c.size /\ d.offset = c.offset
        /\ d.pc = "answered" /\ d.answer = c.answer
    BY <1>1, <2>1
  <2>3. MemoType'
    BY <1>1, <1>5, <2>1, <2>2
  <2>4. /\ c.size = version
        /\ c.size = Len(effective) =>
              /\ c.key = Memo!CountUpTo(effective, c.offset)
              /\ c.answer = Memo!InForceAt(c.offset)
    BY <1>6, <2>1 DEF LookupFresh, Doing
  <2>5. MemoFresh'
    <3>1. SUFFICES ASSUME version = Len(effective), NEW o \in Nat,
                          Memo!CountUpTo(effective, o) \in DOMAIN memo'
                   PROVE  memo'[Memo!CountUpTo(effective, o)] = Memo!InForceAt(o)
      BY <1>2, <1>6, <2>1 DEF MemoFresh, Memo!InForceAt
    <3>2. CASE Memo!CountUpTo(effective, o) = c.key
      <4>1. Memo!InForceAt(o) = Memo!InForceAt(c.offset)
        BY <1>1, <2>4, <3>1, <3>2, CountDecides
      <4> QED
        BY <2>1, <2>4, <3>1, <3>2, <4>1
    <3>3. CASE Memo!CountUpTo(effective, o) # c.key
      BY <1>6, <2>1, <3>1, <3>3 DEF MemoFresh
    <3> QED
      BY <3>2, <3>3
  <2> HIDE DEF d
  <2>6. LookupFresh'
    BY <1>2, <2>1, <2>2, <2>4 DEF LookupFresh, Doing, Undisturbed, d, Memo!InForceAt
  <2> QED
    BY <2>3, <2>5, <2>6 DEF MemoInv
<1>14. CASE Memo!Return(Lone)
  <2>1. UNCHANGED <<sorted, version, memo>> /\ DOMAIN call' = {Lone} /\ d = Memo!Idle
    BY <1>3, <1>14 DEF Memo!Return
  <2>2. /\ d.pc = "idle" /\ d.size = 0 /\ d.offset = 0
        /\ DOMAIN d = {"pc", "offset", "size", "list", "key", "answer"}
    BY <2>1 DEF Memo!Idle
  <2>3. MemoFresh'
    BY <1>2, <1>6, <2>1 DEF MemoFresh, Memo!InForceAt
  <2> HIDE DEF d
  <2>4. MemoType' /\ LookupFresh'
    BY <1>1, <1>2, <2>1, <2>2 DEF MemoType, LookupFresh, Doing, d
  <2> QED
    BY <2>3, <2>4 DEF MemoInv
<1> QED
  BY <1>4, <1>7, <1>8, <1>9, <1>10, <1>11, <1>12, <1>13, <1>14 DEF Memo!Lookup

\* The memo starts out empty and behind the list.
LEMMA MemoInvHolds == Memo!Init => MemoInv
<1> SUFFICES ASSUME Memo!Init PROVE MemoInv
  OBVIOUS
<1>1. /\ memoHead = 1 /\ effective = <<1>> /\ version = 0 /\ call = [t \in {Lone} |-> Memo!Idle]
      /\ Len(effective) = 1
  BY DEF Memo!Init
<1>2. MemoType
  BY <1>1 DEF MemoType, Memo!Idle
<1>3. MemoFresh /\ LookupFresh
  BY <1>1 DEF MemoFresh, LookupFresh, Doing, Memo!Idle
<1> QED
  BY <1>2, <1>3 DEF MemoInv

\* MemoInv is inductive.
LEMMA NextKeepsMemo == MemoInv /\ [Memo!Next]_(Memo!vars) => MemoInv'
<1> SUFFICES ASSUME MemoInv, [Memo!Next]_(Memo!vars) PROVE MemoInv'
  OBVIOUS
<1>1. CASE \E n \in 0..2 : Memo!Join(n)
  <2>1. memoHead' = memoHead + 1 /\ UNCHANGED <<effective, sorted, version, memo, call>>
    BY <1>1 DEF Memo!Join
  <2> QED
    BY <2>1 DEF MemoInv, MemoType, MemoFresh, LookupFresh, Doing, Undisturbed, Memo!InForceAt
<1>2. CASE Memo!Enter
  BY <1>2, EntersKeepMemo
<1>3. CASE \E t \in {Lone} : Memo!Lookup(t)
  BY <1>3, LookupsKeepMemo
<1>4. CASE UNCHANGED Memo!vars
  BY <1>4
  DEF Memo!vars, MemoInv, MemoType, MemoFresh, LookupFresh, Doing, Undisturbed, Memo!InForceAt
<1> QED
  BY <1>1, <1>2, <1>3, <1>4 DEF Memo!Next

\* A single thread that asks for the law at an offset, through the memo of
\* PolicyTimeline.policy_at and effective_band, is answered what the uncached rule
\* says whenever no entry came in meanwhile, however the event loop appends between
\* its steps.  With two threads this fails (run policy_memo): what _in_force_key
\* takes for granted is that nobody else rebuilds the memo under a lookup.
THEOREM OneThreadAnswersByTheRule == Memo!Spec => []Memo!MemoisedAnswersEqualTheRule
<1>1. MemoInv => Memo!MemoisedAnswersEqualTheRule
  BY DEF MemoInv, LookupFresh, Doing, Undisturbed, Memo!MemoisedAnswersEqualTheRule
<1> QED
  BY <1>1, MemoInvHolds, NextKeepsMemo, PTL DEF Memo!Spec

=============================================================================
