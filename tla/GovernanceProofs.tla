---------------------------- MODULE GovernanceProofs ----------------------------
(***************************************************************************)
(* Proofs, for every choice of identities, namespaces, policies, drafts    *)
(* and bounds, of what module Governance states.                           *)
(***************************************************************************)
EXTENDS Governance, SequenceTheorems, WellFoundedInduction, TLAPS

-----------------------------------------------------------------------------
(* Facts about the operators of the timeline.                              *)

\* A non-empty set of naturals has the least element that Least chooses.
LEMMA LeastNat ==
    ASSUME NEW S \in SUBSET Nat, S # {}
    PROVE  Least(S) \in S /\ \A y \in S : Least(S) <= y
<1>1. PICK x \in S : \A y \in S : ~ (<<y, x>> \in OpToRel(<, Nat))
  BY NatLessThanWellFounded, WFMin
<1>2. \A y \in S : x <= y
  <2>1. SUFFICES ASSUME NEW y \in S PROVE x <= y
    OBVIOUS
  <2>2. ~(y < x)
    BY <1>1 DEF OpToRel
  <2> QED
    BY <2>2
<1> QED
  BY <1>2 DEF Least

\* The band of an author depends on the entries in force and on nothing else
\* of the timeline, nor on the offset that selects them.
LEMMA BandOfInForce ==
    ASSUME NEW a, NEW b, NEW o, NEW q, InForce(a, o) = InForce(b, q),
           NEW i, NEW ns
    PROVE  EffectiveBand(a, i, ns, o) = EffectiveBand(b, i, ns, q)
<1>1. LatestEntries(a, o) = LatestEntries(b, q)
  BY DEF LatestEntries
<1>2. \A m : NsRank(a, m, o) = NsRank(b, m, q)
  BY DEF NsRank
<1>3. GrantsAt(a, o) = GrantsAt(b, q)
  BY <1>1, <1>2 DEF GrantsAt, Flatten
<1> QED
  BY <1>3 DEF EffectiveBand

\* The same for being a person to the board.
LEMMA HumanOfInForce ==
    ASSUME NEW a, NEW b, NEW o, NEW q, InForce(a, o) = InForce(b, q), NEW i
    PROVE  HoldsHumanAnywhere(a, i, o) = HoldsHumanAnywhere(b, i, q)
<1>1. LatestEntries(a, o) = LatestEntries(b, q)
  BY DEF LatestEntries
<1>2. \A m : NsRank(a, m, o) = NsRank(b, m, q)
  BY DEF NsRank
<1>3. GrantsAt(a, o) = GrantsAt(b, q)
  BY <1>1, <1>2 DEF GrantsAt, Flatten
<1> QED
  BY <1>3 DEF HoldsHumanAnywhere

\* The policy that governs is a function of what is in force.
LEMMA PolicyOfInForce ==
    ASSUME NEW a, NEW b, NEW o, InForce(a, o) = InForce(b, o), NEW ns
    PROVE  PolicyAt(a, ns, o) = PolicyAt(b, ns, o)
BY DEF PolicyAt, Governing

\* When an envelope may be read: when a verdict is "ok".
LEMMA ReadableIff ==
    ASSUME NEW L, NEW E, NEW i, NEW who, NEW head
    PROVE  Verdict(L, E, i, who, head) = "ok" <=>
             LET band == EffectiveBand(E, who, L[i].ns, head)
                 look == UnsealCovers(L, i, who, head)
             IN  /\ band # NoBand
                 /\ PrivateRoom(L[i], who) => band = "human" /\ look
                 /\ ~Blinded(L, E, i, who, band, head)
                 /\ (/\ HoldsHumanAnywhere(E, who, head)
                     /\ L[i].type \notin SeamExemptActs
                     /\ ~Participant(L[i], who)
                     /\ SealedAtPost(E, L, i)) => look
BY DEF Verdict

\* A grant in force names a real band and stands at a place of two numbers.
LEMMA GrantType ==
    ASSUME NEW E \in SUBSET PolicyEntry, NEW o, NEW g \in GrantsAt(E, o)
    PROVE  g.band \in Band /\ g.place[1] \in Nat /\ g.place[2] \in Nat
<1>1. PICK e \in LatestEntries(E, o) :
        \E k \in DOMAIN e.policy.grants :
            g = [grantee |-> e.policy.grants[k].grantee,
                 root    |-> e.policy.grants[k].root,
                 band    |-> e.policy.grants[k].band,
                 place   |-> <<NsRank(E, e.ns, o), k>>]
  BY DEF GrantsAt, Flatten
<1>2. e \in InForce(E, o) /\ e \in PolicyEntry /\ e.policy.grants \in Seq(Grant)
  BY DEF LatestEntries, InForce, PolicyEntry, Policy
<1>3. NsRank(E, e.ns, o) \in Nat
  <2> DEFINE S == {x.policy_id : x \in {f \in InForce(E, o) : f.ns = e.ns}}
  <2>1. S \in SUBSET Nat /\ S # {}
    BY <1>2 DEF InForce, PolicyEntry
  <2>2. Least(S) \in S
    BY <2>1, LeastNat
  <2> QED
    BY <2>1, <2>2 DEF NsRank
<1>4. PICK k \in DOMAIN e.policy.grants :
        g = [grantee |-> e.policy.grants[k].grantee,
             root    |-> e.policy.grants[k].root,
             band    |-> e.policy.grants[k].band,
             place   |-> <<NsRank(E, e.ns, o), k>>]
  BY <1>1
<1>5. k \in 1..Len(e.policy.grants) /\ e.policy.grants[k] \in Grant
  BY <1>2, LenProperties, ElementOfSeq
<1>6. e.policy.grants[k].band \in Band /\ k \in Nat
  BY <1>5, <1>2, LenProperties DEF Grant
<1> QED
  BY <1>3, <1>4, <1>6

\* Of the grants that cover an identity one decides: of the highest rank held, and the
\* tie-break always has a first grant to choose.
LEMMA BandIsHeld ==
    ASSUME NEW E \in SUBSET PolicyEntry, NEW i, NEW ns, NEW o,
           NEW c \in GrantsAt(E, o), Covers(c, i, ns), ~OwnScratch(i, ns)
    PROVE  \E g \in GrantsAt(E, o) :
              /\ EffectiveBand(E, i, ns, o) = g.band /\ Covers(g, i, ns)
              /\ \A h \in GrantsAt(E, o) :
                    Covers(h, i, ns) => BandRank[g.band] >= BandRank[h.band]
<1> DEFINE held == {g \in GrantsAt(E, o) : Covers(g, i, ns)}
           top  == {g \in held : \A h \in held : BandRank[g.band] >= BandRank[h.band]}
<1>1. held # {}
  OBVIOUS
<1>2. \A g \in held : g.band \in Band /\ g.place[1] \in Nat /\ g.place[2] \in Nat
  BY GrantType
<1>3. \A b \in Band : BandRank[b] \in 0..5
  BY DEF Band, BandRank
<1>4. top # {}
  <2> DEFINE S == {5 - BandRank[g.band] : g \in held}
  <2>1. S \in SUBSET Nat /\ S # {}
    BY <1>1, <1>2, <1>3
  <2> HIDE DEF S
  <2>2. Least(S) \in S /\ \A y \in S : Least(S) <= y
    BY <2>1, LeastNat
  <2> USE DEF S
  <2>3. PICK g \in held : Least(S) = 5 - BandRank[g.band]
    BY <2>2
  <2>4. \A h \in held : Least(S) <= 5 - BandRank[h.band]
    BY <2>2
  <2>5. \A h \in held : BandRank[g.band] >= BandRank[h.band]
    BY <2>3, <2>4, <1>2, <1>3
  <2> QED
    BY <2>5
<1>5. PICK m \in {g.place[1] : g \in top} : \A h \in top : m <= h.place[1]
  <2> DEFINE S == {g.place[1] : g \in top}
  <2>1. S \in SUBSET Nat /\ S # {}
    BY <1>2, <1>4
  <2> HIDE DEF S
  <2>2. Least(S) \in S /\ \A y \in S : Least(S) <= y
    BY <2>1, LeastNat
  <2> QED
    BY <2>2 DEF S
<1>6. PICK n \in {g.place[2] : g \in {f \in top : f.place[1] = m}} :
        \A h \in {f \in top : f.place[1] = m} : n <= h.place[2]
  <2> DEFINE S == {g.place[2] : g \in {f \in top : f.place[1] = m}}
  <2>1. S \in SUBSET Nat /\ S # {}
    BY <1>2, <1>5
  <2> HIDE DEF S
  <2>2. Least(S) \in S /\ \A y \in S : Least(S) <= y
    BY <2>1, LeastNat
  <2> QED
    BY <2>2 DEF S
<1>7. PICK g \in top : g.place[1] = m /\ g.place[2] = n
  BY <1>6
<1>8. \A h \in top : Before(g, h)
  BY <1>2, <1>5, <1>6, <1>7 DEF Before
<1>9. (CHOOSE f \in top : \A h \in top : Before(f, h)) \in top
  BY <1>7, <1>8
<1> QED
  BY <1>1, <1>9 DEF EffectiveBand

\* An effective band is a band or the absence of one.
LEMMA BandType ==
    ASSUME NEW E \in SUBSET PolicyEntry, NEW i, NEW ns, NEW o
    PROVE  EffectiveBand(E, i, ns, o) \in Band \cup {NoBand}
<1>1. CASE OwnScratch(i, ns)
  BY <1>1 DEF EffectiveBand, Band
<1>2. CASE ~OwnScratch(i, ns) /\ {g \in GrantsAt(E, o) : Covers(g, i, ns)} # {}
  <2>1. PICK g \in GrantsAt(E, o) : EffectiveBand(E, i, ns, o) = g.band
    BY <1>2, BandIsHeld
  <2> QED
    BY <2>1, GrantType
<1>3. CASE ~OwnScratch(i, ns) /\ {g \in GrantsAt(E, o) : Covers(g, i, ns)} = {}
  BY <1>3 DEF EffectiveBand
<1> QED
  BY <1>1, <1>2, <1>3

\* To be a person outranks whatever else one holds.
LEMMA HumanAbove ==
    ASSUME NEW E \in SUBSET PolicyEntry, NEW i, NEW ns, NEW o,
           NEW c \in GrantsAt(E, o), c.band = "human", Covers(c, i, ns), ~OwnScratch(i, ns)
    PROVE  EffectiveBand(E, i, ns, o) = "human"
<1>1. PICK g \in GrantsAt(E, o) :
         EffectiveBand(E, i, ns, o) = g.band /\ BandRank[g.band] >= BandRank["human"]
  BY BandIsHeld
<1>2. g.band \in Band
  BY GrantType
<1> QED
  BY <1>1, <1>2 DEF Band, BandRank

-----------------------------------------------------------------------------
(* The log grows at its end.                                               *)

\* What appending one envelope does to the log.
LEMMA LogGrows ==
    ASSUME log \in Seq(Envelope), NEW env \in Envelope, log' = Append(log, env)
    PROVE  /\ log' \in Seq(Envelope)
           /\ Len(log) \in Nat /\ Len(log') = Len(log) + 1
           /\ DOMAIN log = 1..Len(log) /\ DOMAIN log' = 1..(Len(log) + 1)
           /\ \A i \in DOMAIN log : log'[i] = log[i] /\ log[i] \in Envelope
           /\ log'[Len(log) + 1] = env
BY AppendProperties, LenProperties, ElementOfSeq

\* The envelope of an accepted draft: typed, its edges pointing backwards and
\* only a STAMP stamping.
LEMMA AcceptedEnvelope ==
    ASSUME TypeOK, NEW d \in Drafts, Accepts(d)
    PROVE  /\ Sequenced(d, BandOf(d), now) \in Envelope
           /\ \A r \in d.refs : r.id \in DOMAIN log
           /\ RefsOf(d, "stamps") # {} => d.type = "STAMP"
<1>1. d \in Draft
  BY ClientAssumption
<1>2. BandOf(d) \in Band
  BY BandType DEF Accepts, MayPost, BandOf, TypeOK
<1>3. Truncate(now) \in Int
  BY ClockAssumption DEF TypeOK, Truncate
<1>4. Sequenced(d, BandOf(d), now) \in Envelope
  BY <1>1, <1>2, <1>3 DEF Draft, Envelope, Sequenced
<1>5. \A r \in d.refs : r.id \in DOMAIN log
  BY DEF Accepts, RefsExist
<1>6. \A r \in d.refs : r.edge = "stamps" => d.type = "STAMP"
  BY DEF Accepts, EdgeTypesOK, EdgeSourceActs
<1> QED
  BY <1>4, <1>5, <1>6 DEF RefsOf

\* The law of the past is left alone: an appended envelope can only bring
\* policies into force at its own offset.
LEMMA ApplyAddsNow ==
    ASSUME NEW E, NEW L, NEW n
    PROVE  \A e \in Apply(E, L, n) \ E : e.effective_at = n
BY DEF Apply, Entry

LEMMA ApplyKeeps ==
    ASSUME NEW E, NEW L, NEW n
    PROVE  E \subseteq Apply(E, L, n)
BY DEF Apply

\* Entries stay typed.
LEMMA ApplyType ==
    ASSUME NEW E \in SUBSET PolicyEntry, NEW L \in Seq(Envelope), NEW n \in DOMAIN L
    PROVE  Apply(E, L, n) \in SUBSET PolicyEntry
<1>1. \A p \in DOMAIN L : L[p] \in Envelope /\ p \in Nat \ {0}
  BY ElementOfSeq, LenProperties
<1>2. \A p \in DOMAIN L : IsPolicy(L[p].payload) => L[p].payload \in Policy
  BY <1>1 DEF Envelope, IsPolicy, NoPolicy
<1>3. \A p \in DOMAIN L : IsPolicy(L[p].payload) => Entry(L, p, n) \in PolicyEntry
  BY <1>1, <1>2 DEF Entry, PolicyEntry, Envelope
<1> QED
  BY <1>3 DEF Apply

-----------------------------------------------------------------------------
(* The incremental timeline is the rebuilt one.                            *)

\* The backward, stamps-only-by-STAMP shape of a log.
Shaped(L) ==
    /\ \A i \in DOMAIN L : \A r \in L[i].refs : r.id < i
    /\ \A i \in DOMAIN L : RefsOf(L[i], "stamps") # {} => L[i].type = "STAMP"

\* The policies of L that have come into force.
ForcedIn(L) ==
    {q \in DOMAIN L : /\ L[q].type = "POLICY"
                      /\ IsPolicy(L[q].payload)
                      /\ ForceOffsets(L, q) # {}}

\* The moments that env, coming next after L, gives to an earlier policy p and
\* to itself.
Gained(L, env, p) ==
    IF L[p].band # "human" /\ env.band = "human" /\ p \in RefsOf(env, "stamps")
    THEN {Len(L) + 1} ELSE {}

GainedItself(L, env) == IF env.band = "human" THEN {Len(L) + 1} ELSE {}

\* Only the new envelope can be a further moment at which a policy comes into
\* force, and only when it is a human's and the policy's own or a stamp of it.
LEMMA ForceGrows ==
    ASSUME NEW L \in Seq(Envelope), NEW M \in Seq(Envelope), NEW env \in Envelope,
           M = Append(L, env), Shaped(M)
    PROVE  /\ \A p \in DOMAIN L : ForceOffsets(L, p) \subseteq 1..Len(L)
           /\ \A p \in DOMAIN L :
                 ForceOffsets(M, p) = ForceOffsets(L, p) \cup Gained(L, env, p)
           /\ ForceOffsets(M, Len(L) + 1) = GainedItself(L, env)
<1> DEFINE n == Len(L)
<1>1. /\ n \in Nat /\ Len(M) = n + 1
      /\ DOMAIN L = 1..n /\ DOMAIN M = 1..(n + 1)
      /\ \A i \in DOMAIN L : M[i] = L[i]
      /\ M[n + 1] = env
  BY AppendProperties, LenProperties
<1> HIDE DEF n
<1>2. \A p \in DOMAIN L : Inbound(L, p, "stamps", n) \subseteq 1..n
  BY <1>1 DEF Inbound, UpTo
<1>3. \A p \in DOMAIN L :
        Inbound(M, p, "stamps", n + 1) =
            Inbound(L, p, "stamps", n) \cup
            IF p \in RefsOf(env, "stamps") THEN {n + 1} ELSE {}
  BY <1>1 DEF Inbound, UpTo
<1>4. Inbound(M, n + 1, "stamps", n + 1) = {}
  <2>1. SUFFICES ASSUME NEW i \in 1..(n + 1), n + 1 \in RefsOf(M[i], "stamps")
                 PROVE  FALSE
    BY <1>1 DEF Inbound, UpTo
  <2>2. PICK r \in M[i].refs : r.id = n + 1
    BY <2>1 DEF RefsOf
  <2>3. r.id < i
    BY <1>1, <2>2 DEF Shaped
  <2> QED
    BY <1>1, <2>2, <2>3
<1>5. \A p \in DOMAIN L : ForceOffsets(L, p) \subseteq 1..n
  BY <1>1, <1>2 DEF ForceOffsets, n
<1>6. \A p \in DOMAIN L :
        ForceOffsets(M, p) =
            ForceOffsets(L, p) \cup
            IF L[p].band # "human" /\ env.band = "human" /\ p \in RefsOf(env, "stamps")
            THEN {n + 1} ELSE {}
  <2>1. TAKE p \in DOMAIN L
  <2>2. M[p] = L[p] /\ Len(L) = n
    BY <1>1 DEF n
  <2>3. CASE L[p].band = "human"
    BY <2>2, <2>3 DEF ForceOffsets
  <2>4. CASE L[p].band # "human"
    <3>1. \A s \in Inbound(L, p, "stamps", n) : M[s] = L[s]
      BY <1>1, <1>2
    <3>2. ForceOffsets(L, p) =
              {s \in Inbound(L, p, "stamps", n) : M[s].band = "human"}
      BY <2>2, <2>4, <3>1 DEF ForceOffsets
    <3>3. ForceOffsets(M, p) =
              {s \in Inbound(M, p, "stamps", n + 1) : M[s].band = "human"}
      BY <1>1, <2>2, <2>4 DEF ForceOffsets
    <3>4. \A s \in Inbound(L, p, "stamps", n) : s # n + 1
      BY <1>1, <1>2
    <3>5. Inbound(M, p, "stamps", n + 1) =
              Inbound(L, p, "stamps", n) \cup
              IF p \in RefsOf(env, "stamps") THEN {n + 1} ELSE {}
      BY <1>3
    <3>6. M[n + 1].band = env.band
      BY <1>1
    <3> QED
      BY <2>4, <3>2, <3>3, <3>5, <3>6
  <2> QED
    BY <2>3, <2>4
<1>7. ForceOffsets(M, n + 1) = IF env.band = "human" THEN {n + 1} ELSE {}
  BY <1>1, <1>4 DEF ForceOffsets
<1> QED
  BY <1>5, <1>6, <1>7 DEF n, Gained, GainedItself

\* A later candidate does not move the moment a policy came into force.
LEMMA LeastKept ==
    ASSUME NEW n \in Nat, NEW S \in SUBSET (1..n)
    PROVE  /\ Least({n + 1}) = n + 1
           /\ S # {} => Least(S \cup {n + 1}) = Least(S)
<1>1. Least({n + 1}) \in {n + 1}
  BY LeastNat
<1>2. ASSUME S # {} PROVE Least(S \cup {n + 1}) = Least(S)
  <2> DEFINE T == S \cup {n + 1}
  <2>1. S \in SUBSET Nat /\ T \in SUBSET Nat /\ T # {}
    OBVIOUS
  <2> HIDE DEF T
  <2>2. Least(S) \in S /\ \A y \in S : Least(S) <= y
    BY <1>2, <2>1, LeastNat
  <2>3. Least(T) \in T /\ \A y \in T : Least(T) <= y
    BY <2>1, LeastNat
  <2>4. PICK l \in T : l = Least(T) /\ \A y \in T : l <= y
    BY <2>3
  <2>5. PICK k \in S : k = Least(S) /\ \A y \in S : k <= y
    BY <2>2
  <2>6. k \in T /\ k \in 1..n /\ (l \in S \/ l = n + 1)
    BY <2>4, <2>5 DEF T
  <2>7. l <= k /\ l # n + 1 /\ l \in S
    BY <2>4, <2>6
  <2>8. l = k
    <3>1. k <= l /\ l \in Nat
      BY <2>1, <2>4, <2>5, <2>7
    <3> QED
      BY <2>6, <2>7, <3>1
  <2> QED
    BY <2>4, <2>5, <2>8 DEF T
<1> QED
  BY <1>1, <1>2

\* Joining one accepted envelope to the timeline of L gives the timeline that
\* a rebuild from the longer log gives.
LEMMA ApplyIsRebuild ==
    ASSUME NEW L \in Seq(Envelope), NEW M \in Seq(Envelope), NEW env \in Envelope,
           M = Append(L, env), Shaped(M)
    PROVE  Apply(EntriesOf(L), M, Len(L) + 1) = EntriesOf(M)
<1> DEFINE n == Len(L)
<1>1. /\ n \in Nat /\ DOMAIN L = 1..n /\ DOMAIN M = 1..(n + 1)
      /\ \A i \in DOMAIN L : M[i] = L[i]
      /\ M[n + 1] = env
  BY AppendProperties, LenProperties
<1>2. /\ \A p \in DOMAIN L : ForceOffsets(L, p) \subseteq 1..n
      /\ \A p \in DOMAIN L :
            ForceOffsets(M, p) = ForceOffsets(L, p) \cup Gained(L, env, p)
      /\ ForceOffsets(M, n + 1) = GainedItself(L, env)
  BY ForceGrows
<1> HIDE DEF n
<1> DEFINE NewlyStamped ==
             {p \in DOMAIN L : /\ env.band = "human" /\ p \in RefsOf(env, "stamps")
                               /\ L[p].type = "POLICY" /\ IsPolicy(L[p].payload)
                               /\ L[p].band # "human" /\ p \notin ForcedIn(L)}
           Own == IF env.type = "POLICY" /\ IsPolicy(env.payload) /\ env.band = "human"
                  THEN {n + 1} ELSE {}
<1>3. ForcedIn(M) = ForcedIn(L) \cup NewlyStamped \cup Own
  <2>1. \A p \in DOMAIN L : p \in ForcedIn(M) <=> p \in ForcedIn(L) \cup NewlyStamped
    <3>1. TAKE p \in DOMAIN L
    <3>2. p \in DOMAIN M /\ M[p] = L[p]
      BY <1>1
    <3>3. ForceOffsets(M, p) = ForceOffsets(L, p) \cup Gained(L, env, p)
      BY <1>2
    <3>4. Gained(L, env, p) # {} <=>
            L[p].band # "human" /\ env.band = "human" /\ p \in RefsOf(env, "stamps")
      BY DEF Gained
    <3> QED
      BY <3>2, <3>3, <3>4 DEF ForcedIn
  <2>2. n + 1 \in ForcedIn(M) <=> n + 1 \in Own
    <3>1. n + 1 \in DOMAIN M
      BY <1>1
    <3> QED
      BY <1>1, <1>2, <3>1 DEF ForcedIn, GainedItself
  <2>3. ForcedIn(M) \subseteq DOMAIN L \cup {n + 1} /\ ForcedIn(L) \subseteq DOMAIN L
    BY <1>1 DEF ForcedIn
  <2>4. n + 1 \notin DOMAIN L /\ NewlyStamped \subseteq DOMAIN L /\ Own \subseteq {n + 1}
    BY <1>1
  <2> QED
    BY <2>1, <2>2, <2>3, <2>4
<1>4. \A p \in ForcedIn(L) :
        Entry(M, p, Least(ForceOffsets(M, p))) = Entry(L, p, Least(ForceOffsets(L, p)))
  <2>1. TAKE p \in ForcedIn(L)
  <2>2. p \in DOMAIN L /\ M[p] = L[p] /\ ForceOffsets(L, p) # {}
    BY <1>1 DEF ForcedIn
  <2>3. Least(ForceOffsets(M, p)) = Least(ForceOffsets(L, p))
    <3>1. ForceOffsets(L, p) \in SUBSET (1..n)
      BY <1>2, <2>2
    <3>2. Least(ForceOffsets(L, p) \cup {n + 1}) = Least(ForceOffsets(L, p))
      BY <1>1, <2>2, <3>1, LeastKept
    <3>3. \/ ForceOffsets(M, p) = ForceOffsets(L, p)
          \/ ForceOffsets(M, p) = ForceOffsets(L, p) \cup {n + 1}
      BY <1>2, <2>2 DEF Gained, n
    <3> QED
      BY <3>2, <3>3
  <2> QED
    BY <2>2, <2>3 DEF Entry
<1>5. \A p \in NewlyStamped \cup Own :
        Entry(M, p, Least(ForceOffsets(M, p))) = Entry(M, p, n + 1)
  <2>1. TAKE p \in NewlyStamped \cup Own
  <2>2. ForceOffsets(M, p) = {n + 1}
    BY <1>1, <1>2 DEF ForcedIn, Gained, GainedItself, n
  <2>3. Least({n + 1}) = n + 1
    BY <1>1, LeastKept
  <2> QED
    BY <2>2, <2>3
<1>6. EntriesOf(L) = {Entry(L, p, Least(ForceOffsets(L, p))) : p \in ForcedIn(L)}
  BY DEF EntriesOf, ForcedIn
<1>7. EntriesOf(M) = {Entry(M, p, Least(ForceOffsets(M, p))) : p \in ForcedIn(M)}
  BY DEF EntriesOf, ForcedIn
<1>8. EntriesOf(M) =
        EntriesOf(L) \cup {Entry(M, p, n + 1) : p \in NewlyStamped \cup Own}
  BY <1>3, <1>4, <1>5, <1>6, <1>7
<1>9. Entered(EntriesOf(L)) = ForcedIn(L)
  <2>1. \A p, x : Entry(L, p, x).policy_id = p
    BY DEF Entry
  <2>2. \A e \in EntriesOf(L) : e.policy_id \in ForcedIn(L)
    BY <1>6, <2>1
  <2>3. \A p \in ForcedIn(L) : \E e \in EntriesOf(L) : e.policy_id = p
    BY <1>6, <2>1
  <2> QED
    BY <2>2, <2>3 DEF Entered
<1>10. RefsOf(env, "stamps") # {} => env.type = "STAMP"
  BY <1>1 DEF Shaped
<1>11. n + 1 \notin RefsOf(env, "stamps")
  BY <1>1 DEF Shaped, RefsOf
<1>12. CASE env.type = "POLICY" /\ IsPolicy(env.payload) /\ env.band = "human"
  <2>1. NewlyStamped = {} /\ Own = {n + 1}
    BY <1>10, <1>12
  <2>2. Apply(EntriesOf(L), M, n + 1) = EntriesOf(L) \cup {Entry(M, n + 1, n + 1)}
    BY <1>1, <1>12 DEF Apply
  <2> QED
    BY <1>8, <2>1, <2>2 DEF n
<1>13. CASE env.type = "STAMP" /\ env.band = "human"
  <2>1. Own = {}
    BY <1>13
  <2>2. NewlyStamped =
          {p \in {t \in RefsOf(env, "stamps") \cap DOMAIN M :
                     /\ M[t].type = "POLICY" /\ IsPolicy(M[t].payload)
                     /\ M[t].band # "human" /\ t \notin Entered(EntriesOf(L))} : TRUE}
    BY <1>1, <1>9, <1>11, <1>13
  <2>3. Apply(EntriesOf(L), M, n + 1) =
          EntriesOf(L) \cup {Entry(M, p, n + 1) : p \in NewlyStamped}
    BY <1>1, <1>13, <2>2 DEF Apply
  <2> QED
    BY <1>8, <2>1, <2>3 DEF n
<1>14. CASE /\ ~(env.type = "POLICY" /\ IsPolicy(env.payload) /\ env.band = "human")
            /\ ~(env.type = "STAMP" /\ env.band = "human")
  <2>1. NewlyStamped = {} /\ Own = {}
    BY <1>10, <1>14
  <2>2. Apply(EntriesOf(L), M, n + 1) = EntriesOf(L)
    BY <1>1, <1>14 DEF Apply
  <2> QED
    BY <1>8, <2>1, <2>2 DEF n
<1> QED
  BY <1>12, <1>13, <1>14

-----------------------------------------------------------------------------
(* Every step joins one accepted envelope to the log, or leaves it alone.  *)

\* The envelope env joins the log and its timeline, numbered and banded.
Joins(env) ==
    /\ env \in Envelope
    /\ \A r \in env.refs : r.id \in DOMAIN log
    /\ RefsOf(env, "stamps") # {} => env.type = "STAMP"
    /\ log # << >> =>
          env.band = EffectiveBand(entries, env.author, env.ns, Len(log) + 1)
    /\ log' = Append(log, env)
    /\ entries' = Apply(entries, log', Len(log) + 1)
    /\ now' = now

\* Envelope 0 is an envelope like any other.
LEMMA GenesisEnvelope ==
    ASSUME NEW policy \in GenesisPolicies, now \in Nat
    PROVE  Sequenced(GenesisDraft(policy), "human", now) \in Envelope
<1>1. Truncate(now) \in Int
  BY ClockAssumption DEF Truncate
<1>2. policy \in Policy /\ Operator \in Identity /\ << >> \in Namespace
  BY ClientAssumption
<1>3. NoExt \in Ext
  BY DEF NoExt, Ext, NoSha
<1> QED
  BY <1>1, <1>2, <1>3
  DEF Sequenced, GenesisDraft, Envelope, Act, Band, Grade, NoRange, NoBasis

LEMMA GenesisJoins ==
    ASSUME IInv, NEW policy \in GenesisPolicies, Genesis(policy)
    PROVE  Joins(Sequenced(GenesisDraft(policy), "human", now))
<1> DEFINE env == Sequenced(GenesisDraft(policy), "human", now)
<1>1. env \in Envelope
  BY GenesisEnvelope DEF IInv, TypeOK
<1>2. env.refs = {} /\ RefsOf(env, "stamps") = {}
  BY DEF Sequenced, GenesisDraft, RefsOf
<1>3. log = << >> /\ log' = <<env>> /\ entries' = EntriesOf(log') /\ now' = now
  BY DEF Genesis
<1> HIDE DEF env
<1>4. log \in Seq(Envelope) /\ log' = Append(log, env) /\ log' \in Seq(Envelope)
  BY <1>1, <1>3
<1>5. log' = <<env>> /\ DOMAIN log' = {1} /\ log'[1] = env
  BY <1>3
<1>6. Shaped(log')
  BY <1>2, <1>5 DEF Shaped
<1>7. entries' = Apply(EntriesOf(log), log', Len(log) + 1)
  BY <1>1, <1>3, <1>4, <1>6, ApplyIsRebuild
<1>8. entries = EntriesOf(log)
  BY DEF IInv, EntriesMatchLog
<1>9. Joins(env)
  BY <1>1, <1>2, <1>3, <1>4, <1>7, <1>8 DEF Joins
<1> QED
  BY <1>9 DEF env

LEMMA PostJoins ==
    ASSUME IInv, NEW d \in Drafts, Post(d)
    PROVE  Joins(Sequenced(d, BandOf(d), now))
<1> DEFINE env == Sequenced(d, BandOf(d), now)
<1>1. TypeOK /\ Accepts(d)
  BY DEF IInv, Post
<1>2. /\ env \in Envelope
      /\ \A r \in d.refs : r.id \in DOMAIN log
      /\ RefsOf(d, "stamps") # {} => d.type = "STAMP"
  BY <1>1, AcceptedEnvelope
<1>3. env.refs = d.refs /\ env.type = d.type /\ RefsOf(env, "stamps") = RefsOf(d, "stamps")
  BY DEF Sequenced, RefsOf
<1>4. env.band = EffectiveBand(entries, env.author, env.ns, Len(log) + 1)
  BY DEF Sequenced, BandOf, NextId
<1>5. log' = Append(log, env) /\ entries' = Apply(entries, log', Len(log) + 1) /\ now' = now
  BY DEF Post, NextId
<1> QED
  BY <1>2, <1>3, <1>4, <1>5 DEF Joins

LEMMA StepJoins ==
    ASSUME IInv, [Next]_vars
    PROVE  (\E env : Joins(env)) \/ (log' = log /\ entries' = entries /\ now' \in Nat)
<1>1. now \in Nat
  BY DEF IInv, TypeOK
<1>2. CASE \E policy \in GenesisPolicies : Genesis(policy)
  BY <1>2, GenesisJoins
<1>3. CASE \E d \in Drafts : Post(d)
  BY <1>3, PostJoins
<1>4. CASE Tick
  BY <1>1, <1>4 DEF Tick
<1>5. CASE UNCHANGED vars
  BY <1>1, <1>5 DEF vars
<1> QED
  BY <1>2, <1>3, <1>4, <1>5 DEF Next

\* A joining envelope rewrites no answer about an offset of the log so far, and
\* the offset it is about to get is governed by what is in force already.
LEMMA PastIsFixed ==
    ASSUME IInv, NEW env, Joins(env)
    PROVE  /\ \A o \in DOMAIN log : InForce(entries', o) = InForce(entries, o)
           /\ InForce(entries', Len(log)) = entries
           /\ InForce(entries, Len(log) + 1) = entries
           /\ InForce(entries, Len(log)) = entries
<1>1. Len(log) \in Nat /\ DOMAIN log = 1..Len(log)
  BY LenProperties DEF IInv, TypeOK
<1>2. \A e \in entries : e.effective_at \in Nat /\ e.effective_at <= Len(log)
  BY DEF IInv, TypeOK, LogShape, PolicyEntry
<1>3. entries \subseteq entries' /\ \A e \in entries' \ entries : e.effective_at = Len(log) + 1
  BY ApplyAddsNow, ApplyKeeps DEF Joins
<1> QED
  BY <1>1, <1>2, <1>3 DEF InForce

-----------------------------------------------------------------------------
(* The inductive invariant.                                                *)

LEMMA InitIInv == Init => IInv
<1> SUFFICES ASSUME Init PROVE IInv
  OBVIOUS
<1>1. log = << >> /\ entries = {} /\ now = 0
  BY DEF Init
<1>2. EntriesOf(log) = {}
  BY <1>1 DEF EntriesOf
<1> QED
  BY <1>1, <1>2 DEF IInv, TypeOK, LogShape, EntriesMatchLog, BandsRecomputable

LEMMA JoinKeepsIInv ==
    ASSUME IInv, NEW env, Joins(env)
    PROVE  IInv'
<1>1. /\ log' \in Seq(Envelope) /\ Len(log) \in Nat /\ Len(log') = Len(log) + 1
      /\ DOMAIN log = 1..Len(log) /\ DOMAIN log' = 1..(Len(log) + 1)
      /\ \A i \in DOMAIN log : log'[i] = log[i] /\ log[i] \in Envelope
      /\ log'[Len(log) + 1] = env
  BY LogGrows DEF IInv, TypeOK, Joins
<1>2. Shaped(log')
  BY <1>1 DEF IInv, LogShape, Joins, Shaped
<1>3. TypeOK'
  <2>1. entries' \in SUBSET PolicyEntry
    <3>1. Len(log) + 1 \in DOMAIN log' /\ entries \in SUBSET PolicyEntry
      BY <1>1 DEF IInv, TypeOK
    <3>2. Apply(entries, log', Len(log) + 1) \in SUBSET PolicyEntry
      BY <1>1, <3>1, ApplyType
    <3> QED
      BY <3>2 DEF Joins
  <2> QED
    BY <1>1, <2>1 DEF IInv, TypeOK, Joins
<1>4. EntriesMatchLog'
  <2>1. entries' = Apply(EntriesOf(log), log', Len(log) + 1)
    BY DEF IInv, EntriesMatchLog, Joins
  <2>2. log \in Seq(Envelope) /\ env \in Envelope /\ log' = Append(log, env)
    BY DEF IInv, TypeOK, Joins
  <2>3. Apply(EntriesOf(log), log', Len(log) + 1) = EntriesOf(log')
    BY <1>1, <1>2, <2>2, ApplyIsRebuild
  <2> QED
    BY <2>1, <2>3 DEF EntriesMatchLog
<1>5. LogShape'
  <2>1. \A e \in entries' \ entries : e.effective_at = Len(log) + 1
    BY ApplyAddsNow DEF Joins
  <2>2. \A e \in entries' \ entries : e.policy_id \in DOMAIN log'
    BY <1>1 DEF Joins, Apply, Entry
  <2>3. \A e \in entries : e.effective_at \in Nat /\ e.policy_id \in Nat
    BY DEF IInv, TypeOK, PolicyEntry
  <2>4. \A e \in entries' : e.effective_at <= Len(log') /\ e.policy_id <= Len(log')
    BY <1>1, <2>1, <2>2, <2>3 DEF IInv, LogShape
  <2> QED
    BY <1>2, <2>4 DEF LogShape, Shaped
<1>6. BandsRecomputable'
  <2>1. SUFFICES ASSUME NEW i \in 2..(Len(log) + 1)
                 PROVE  log'[i].band =
                          EffectiveBand(entries', log'[i].author, log'[i].ns, i - 1)
    BY <1>1 DEF BandsRecomputable
  <2>2. CASE i \in 2..Len(log)
    <3>1. i - 1 \in DOMAIN log /\ i \in DOMAIN log /\ log'[i] = log[i]
      BY <1>1, <2>2
    <3>2. InForce(entries, i - 1) = InForce(entries', i - 1)
      BY <3>1, PastIsFixed
    <3>3. log[i].band = EffectiveBand(entries, log[i].author, log[i].ns, i - 1)
      BY <2>2 DEF IInv, BandsRecomputable
    <3> QED
      BY <3>1, <3>2, <3>3, BandOfInForce
  <2>3. CASE i = Len(log) + 1
    <3>1. log # << >> /\ log'[i] = env /\ i - 1 = Len(log)
      BY <1>1, <2>1, <2>3
    <3>2. InForce(entries, Len(log) + 1) = InForce(entries', Len(log))
      BY PastIsFixed
    <3>3. env.band = EffectiveBand(entries, env.author, env.ns, Len(log) + 1)
      BY <3>1 DEF Joins
    <3> QED
      BY <3>1, <3>2, <3>3, BandOfInForce
  <2> QED
    BY <1>1, <2>1, <2>2, <2>3
<1> QED
  BY <1>3, <1>4, <1>5, <1>6 DEF IInv

LEMMA NextKeepsIInv == IInv /\ [Next]_vars => IInv'
<1> SUFFICES ASSUME IInv, [Next]_vars PROVE IInv'
  OBVIOUS
<1>1. CASE \E env : Joins(env)
  BY <1>1, JoinKeepsIInv
<1>2. CASE log' = log /\ entries' = entries /\ now' \in Nat
  BY <1>2 DEF IInv, TypeOK, LogShape, EntriesMatchLog, BandsRecomputable
<1> QED
  BY <1>1, <1>2, StepJoins

LEMMA AlwaysIInv == Spec => []IInv
BY InitIInv, NextKeepsIInv, PTL DEF Spec

-----------------------------------------------------------------------------
(* What the board guarantees.                                              *)

\* A stored envelope is always of its type: no post is ever accepted from an
\* identity whose effective band is none (validate._check_band).
THEOREM TypeCorrect == Spec => []TypeOK
<1>1. IInv => TypeOK
  BY DEF IInv
<1> QED
  BY <1>1, AlwaysIInv, PTL

\* Edges point backwards and stamping is reserved to STAMP, in every log.
THEOREM ShapeCorrect == Spec => []LogShape
<1>1. IInv => LogShape
  BY DEF IInv
<1> QED
  BY <1>1, AlwaysIInv, PTL

\* The incremental policy timeline (policy.py apply) is the one a restart
\* rebuilds (policy.py __init__), for every log the validator can accept.
THEOREM ApplyEqualsRebuild == Spec => []EntriesMatchLog
<1>1. IInv => EntriesMatchLog
  BY DEF IInv
<1> QED
  BY <1>1, AlwaysIInv, PTL

\* Every recorded band is the one the law before it gives, for ever after.
THEOREM AuthorityIsAuditable == Spec => []BandsRecomputable
<1>1. IInv => BandsRecomputable
  BY DEF IInv
<1> QED
  BY <1>1, AlwaysIInv, PTL

\* No identity turns human but by an envelope that a human wrote.
THEOREM HumansMakeHumans == Spec => NoSelfElevation
<1> DEFINE A == \A i \in Identity :
                   IsHuman(i)' /\ ~IsHuman(i) => log'[Len(log')].band = "human"
<1>1. IInv /\ [Next]_vars => [A]_vars
  <2>1. SUFFICES ASSUME IInv, [Next]_vars, NEW i \in Identity,
                        IsHuman(i)', ~IsHuman(i)
                 PROVE  log'[Len(log')].band = "human"
    OBVIOUS
  <2>2. CASE log' = log /\ entries' = entries /\ now' \in Nat
    BY <2>1, <2>2 DEF IsHuman, HeadOf
  <2>3. CASE \E env : Joins(env)
    <3>1. PICK env : Joins(env)
      BY <2>3
    <3>2. Len(log') = Len(log) + 1 /\ log'[Len(log')] = env /\ Len(log) \in Nat
      BY <2>1, <3>1, LogGrows DEF IInv, TypeOK, Joins
    <3>3. SUFFICES ASSUME env.band # "human" PROVE FALSE
      BY <3>2
    <3>4. entries' = entries
      BY <3>1, <3>2, <3>3 DEF Joins, Apply
    <3>5. InForce(entries', Len(log')) = InForce(entries, Len(log))
      BY <2>1, <3>1, <3>2, <3>4, PastIsFixed
    <3> QED
      BY <2>1, <3>5, HumanOfInForce DEF IsHuman, HeadOf
  <2> QED
    BY <2>1, <2>2, <2>3, StepJoins
<1>2. Spec => [][A]_vars
  BY <1>1, AlwaysIInv, PTL DEF Spec
<1> QED
  BY <1>2 DEF NoSelfElevation

\* The grants in force are a function of the entries in force.
LEMMA GrantsOfInForce ==
    ASSUME NEW a, NEW b, NEW o, NEW q, InForce(a, o) = InForce(b, q)
    PROVE  GrantsAt(a, o) = GrantsAt(b, q)
<1>1. LatestEntries(a, o) = LatestEntries(b, q)
  BY DEF LatestEntries
<1>2. \A m : NsRank(a, m, o) = NsRank(b, m, q)
  BY DEF NsRank
<1> QED
  BY <1>1, <1>2 DEF GrantsAt, Flatten

\* The grants that validation asks about (GrantsWith) are those that hold once the
\* policy is in: it is later than every entry, so it alone speaks for its namespace.
LEMMA PostedIsLatest ==
    ASSUME NEW E \in SUBSET PolicyEntry, NEW n \in Nat,
           \A e \in E : e.effective_at <= n,
           NEW ns, NEW policy
    PROVE  GrantsAt(E \cup {[ns |-> ns, policy_id |-> n + 1, effective_at |-> n + 1,
                             policy |-> policy]}, n + 1)
             = GrantsWith(E, n + 1, ns, policy)
<1> DEFINE posted == [ns |-> ns, policy_id |-> n + 1, effective_at |-> n + 1,
                      policy |-> policy]
           F == E \cup {posted}
<1>1. /\ \A e \in E : e.effective_at \in Nat /\ e.effective_at < n + 1
      /\ posted.effective_at = n + 1 /\ posted.ns = ns
  BY DEF PolicyEntry
<1>2. InForce(E, n + 1) = E /\ InForce(F, n + 1) = F
  BY <1>1 DEF InForce
<1>3. \A e \in E : LaterThan(posted, e) /\ ~LaterThan(e, posted)
  BY <1>1 DEF LaterThan
<1>4. ~LaterThan(posted, posted)
  BY <1>1 DEF LaterThan
<1> HIDE DEF posted
<1>5. LatestEntries(F, n + 1) = {e \in LatestEntries(E, n + 1) : e.ns # ns} \cup {posted}
  BY <1>1, <1>2, <1>3, <1>4 DEF LatestEntries
<1> QED
  BY <1>5 DEF GrantsAt, GrantsWith, posted

\* No accepted policy makes a referee play by coming into force as it is posted.
LEMMA PostMakesNoConflict ==
    ASSUME IInv, NEW d \in Drafts, Post(d), d.type # "STAMP"
    PROVE  Conflicts' \subseteq Conflicts
<1> DEFINE n == Len(log)
           env == Sequenced(d, BandOf(d), now)
<1>1. /\ log' = Append(log, env) /\ entries' = Apply(entries, log', n + 1)
      /\ Accepts(d) /\ NextId(log) = n + 1 /\ HeadOf(log) = n
  BY DEF Post, NextId, HeadOf
<1>2. n \in Nat /\ Len(log') = n + 1 /\ log'[n + 1] = env
  <2>1. env \in Envelope /\ log \in Seq(Envelope)
    BY <1>1, AcceptedEnvelope DEF IInv, TypeOK
  <2> QED
    BY <1>1, <2>1, LogGrows
<1>3. env.type = d.type /\ env.ns = d.ns /\ env.payload = d.payload
  BY DEF Sequenced
<1>4. /\ entries \in SUBSET PolicyEntry /\ \A e \in entries : e.effective_at <= n
      /\ InForce(entries, n + 1) = entries /\ InForce(entries, n) = entries
  BY <1>2 DEF IInv, TypeOK, LogShape, PolicyEntry, InForce
<1>5. GrantsAt(entries, n + 1) = GrantsAt(entries, n)
  BY <1>4, GrantsOfInForce
<1> HIDE DEF n, env
<1>6. CASE d.type = "POLICY" /\ IsPolicy(env.payload) /\ env.band = "human"
  <2>1. entries' = entries \cup {Entry(log', n + 1, n + 1)}
    BY <1>1, <1>2, <1>3, <1>6 DEF Apply
  <2>2. Entry(log', n + 1, n + 1) =
          [ns |-> d.ns, policy_id |-> n + 1, effective_at |-> n + 1, policy |-> d.payload]
    BY <1>2, <1>3 DEF Entry
  <2>3. GrantsAt(entries', n + 1) = GrantsWith(entries, n + 1, d.ns, d.payload)
    BY <1>2, <1>4, <2>1, <2>2, PostedIsLatest
  <2>4. FreshConflicts(d) = {}
    BY <1>1, <1>6 DEF Accepts, PolicyOK
  <2>5. GrantConflicts(GrantsWith(entries, n + 1, d.ns, d.payload))
          \subseteq GrantConflicts(GrantsAt(entries, n))
    BY <1>1, <1>5, <2>4 DEF FreshConflicts
  <2>6. HeadOf(log') = n + 1
    BY <1>2 DEF HeadOf
  <2> QED
    BY <1>1, <2>3, <2>5, <2>6 DEF Conflicts
<1>7. CASE ~(d.type = "POLICY" /\ IsPolicy(env.payload) /\ env.band = "human")
  <2>1. entries' = entries
    BY <1>1, <1>2, <1>3, <1>7 DEF Apply
  <2>2. HeadOf(log') = n + 1
    BY <1>2 DEF HeadOf
  <2> QED
    BY <1>1, <1>5, <2>1, <2>2 DEF Conflicts
<1> QED
  BY <1>6, <1>7

\* After genesis a referee that plays is made by a STAMP or not at all, whatever
\* policies are proposed and in whatever order (validate.py _grant_conflicts).
THEOREM RefereesPlayOnlyByAStamp == Spec => OnlyAStampMakesARefereePlay
<1> DEFINE A == log # << >> =>
                  \A c \in Conflicts' : c \in Conflicts \/ log'[Len(log')].type = "STAMP"
<1>1. IInv /\ [Next]_vars => [A]_vars
  <2>1. SUFFICES ASSUME IInv, Next, log # << >>, NEW c \in Conflicts',
                        log'[Len(log')].type # "STAMP"
                 PROVE  c \in Conflicts
    OBVIOUS
  <2>2. ~ \E policy \in GenesisPolicies : Genesis(policy)
    BY <2>1 DEF Genesis
  <2>3. CASE \E d \in Drafts : Post(d)
    <3>1. PICK d \in Drafts : Post(d)
      BY <2>3
    <3>2. /\ Sequenced(d, BandOf(d), now) \in Envelope
          /\ log' = Append(log, Sequenced(d, BandOf(d), now))
      BY <2>1, <3>1, AcceptedEnvelope DEF IInv, Post
    <3>3. log'[Len(log')] = Sequenced(d, BandOf(d), now)
      BY <2>1, <3>2, LogGrows DEF IInv, TypeOK
    <3>4. d.type # "STAMP"
      BY <2>1, <3>3 DEF Sequenced
    <3> QED
      BY <2>1, <3>1, <3>4, PostMakesNoConflict
  <2>4. CASE Tick
    BY <2>1, <2>4 DEF Tick, Conflicts, HeadOf
  <2> QED
    BY <2>1, <2>2, <2>3, <2>4 DEF Next
<1>2. Spec => [][A]_vars
  BY <1>1, AlwaysIInv, PTL DEF Spec
<1> QED
  BY <1>2 DEF OnlyAStampMakesARefereePlay

\* One page of the law book per envelope.
LEMMA PagesOfLog ==
    ASSUME NEW n \in Nat, NEW E \in SUBSET PolicyEntry
    PROVE  /\ Len([o \in 1..n |-> InForce(E, o)]) = n
           /\ DOMAIN [o \in 1..n |-> InForce(E, o)] = 1..n
<1> DEFINE pages == [o \in 1..n |-> InForce(E, o)]
<1>1. pages \in [1..n -> SUBSET PolicyEntry]
  BY DEF InForce
<1>2. pages \in Seq(SUBSET PolicyEntry)
  BY <1>1, SeqDef
<1>3. Len(pages) \in Nat /\ DOMAIN pages = 1..Len(pages)
  BY <1>2, LenProperties
<1>4. 1..n = 1..Len(pages)
  BY <1>3
<1>5. n = Len(pages)
  <2>1. \A a \in Nat, b \in Nat : 1..a = 1..b => a = b
    <3>1. SUFFICES ASSUME NEW a \in Nat, NEW b \in Nat, 1..a = 1..b PROVE a <= b /\ b <= a
      OBVIOUS
    <3>2. a <= b
      <4>1. a = 0 \/ a \in 1..a
        OBVIOUS
      <4> QED
        BY <3>1, <4>1
    <3>3. b <= a
      <4>1. b = 0 \/ b \in 1..b
        OBVIOUS
      <4> QED
        BY <3>1, <4>1
    <3> QED
      BY <3>2, <3>3
  <2> QED
    BY <1>3, <1>4, <2>1
<1> QED
  BY <1>5

\* The board implements the abstract law book: every accepted envelope adds one
\* page, and no step rewrites what was in force at an earlier offset.
THEOREM BoardKeepsLaw == Spec => LawIsKept
<1> DEFINE pages == [o \in DOMAIN log |-> InForce(entries, o)]
<1>1. Init => Book!Init
  BY DEF Init, Book!Init
<1>2. IInv /\ [Next]_vars => [Book!Enact]_pages
  <2>1. SUFFICES ASSUME IInv, [Next]_vars PROVE [Book!Enact]_pages
    OBVIOUS
  <2>2. CASE log' = log /\ entries' = entries /\ now' \in Nat
    BY <2>2
  <2>3. CASE \E env : Joins(env)
    <3>1. PICK env : Joins(env)
      BY <2>3
    <3>2. /\ Len(log) \in Nat
          /\ DOMAIN log = 1..Len(log) /\ DOMAIN log' = 1..(Len(log) + 1)
      BY <2>1, <3>1, LogGrows DEF IInv, TypeOK, Joins
    <3>3. \A o \in DOMAIN log : InForce(entries', o) = InForce(entries, o)
      BY <2>1, <3>1, PastIsFixed
    <3>4. entries \in SUBSET PolicyEntry /\ entries' \in SUBSET PolicyEntry
      BY <2>1, <3>1, JoinKeepsIInv DEF IInv, TypeOK
    <3>5. Len(pages) = Len(log) /\ DOMAIN pages = DOMAIN log
      BY <3>2, <3>4, PagesOfLog
    <3>6. Len(pages') = Len(log) + 1
      <4>1. pages' = [o \in 1..(Len(log) + 1) |-> InForce(entries', o)]
        BY <3>2
      <4> QED
        BY <3>2, <3>4, <4>1, PagesOfLog
    <3>7. \A o \in DOMAIN log : pages'[o] = pages[o]
      BY <3>2, <3>3
    <3>8. Book!Enact
      BY <3>5, <3>6, <3>7 DEF Book!Enact
    <3> QED
      BY <3>8
  <2> QED
    BY <2>1, <2>2, <2>3, StepJoins
<1>3. Spec => Book!Spec
  BY <1>1, <1>2, AlwaysIInv, PTL DEF Spec, Book!Spec
<1> QED
  BY <1>3 DEF LawIsKept

-----------------------------------------------------------------------------
(* Timestamps never run backwards, nor ahead of the clock.                 *)

LEMMA NextTruncation ==
    ASSUME NEW s \in Nat \ {0}, NEW t \in Nat
    PROVE  (t + 1) % s <= (t % s) + 1
<1> DEFINE q == t \div s
           r == t % s
<1>1. q \in Int /\ r \in Nat /\ r < s /\ t = (s * q) + r
  OBVIOUS
<1> HIDE DEF q, r
<1>2. CASE r + 1 < s
  <2>1. t + 1 = (s * q) + (r + 1)
    BY <1>1
  <2>2. (t + 1) % s = r + 1
    BY <1>1, <1>2, <2>1
  <2> QED
    BY <1>1, <2>2 DEF r
<1>3. CASE r + 1 = s
  <2>1. t + 1 = (s * (q + 1)) + 0
    BY <1>1, <1>3
  <2>2. (t + 1) % s = 0
    BY <1>1, <2>1
  <2> QED
    BY <1>1, <2>2 DEF r
<1> QED
  BY <1>1, <1>2, <1>3

LEMMA Truncation ==
    ASSUME NEW t \in Nat
    PROVE  Truncate(t) \in Nat /\ Truncate(t) <= t /\ Truncate(t) <= Truncate(t + 1)
<1>1. SecondTicks \in Nat \ {0} /\ t % SecondTicks \in Nat /\ t % SecondTicks <= t
  BY ClockAssumption
<1>2. t + 1 \in Nat /\ (t + 1) % SecondTicks \in Nat
  BY <1>1
<1>3. (t + 1) % SecondTicks <= (t % SecondTicks) + 1
  BY <1>1, NextTruncation
<1> QED
  BY <1>1, <1>2, <1>3 DEF Truncate

\* The envelopes of the log in the order of their timestamps.
Chronicled ==
    /\ \A i \in DOMAIN log : log[i].ts \in Nat /\ log[i].ts <= Truncate(now)
    /\ \A i, j \in DOMAIN log : i <= j => log[i].ts <= log[j].ts

LEMMA StepStamps ==
    ASSUME IInv, [Next]_vars
    PROVE  \/ \E env : Joins(env) /\ env.ts = Truncate(now)
           \/ log' = log /\ entries' = entries /\ now' \in {now, now + 1}
<1>1. CASE \E policy \in GenesisPolicies : Genesis(policy)
  <2>1. PICK policy \in GenesisPolicies : Genesis(policy)
    BY <1>1
  <2>2. Joins(Sequenced(GenesisDraft(policy), "human", now))
    BY <2>1, GenesisJoins
  <2>3. Sequenced(GenesisDraft(policy), "human", now).ts = Truncate(now)
    BY DEF Sequenced
  <2> QED
    BY <2>2, <2>3
<1>2. CASE \E d \in Drafts : Post(d)
  <2>1. PICK d \in Drafts : Post(d)
    BY <1>2
  <2>2. Joins(Sequenced(d, BandOf(d), now))
    BY <2>1, PostJoins
  <2>3. Sequenced(d, BandOf(d), now).ts = Truncate(now)
    BY DEF Sequenced
  <2> QED
    BY <2>2, <2>3
<1>3. CASE Tick
  BY <1>3 DEF Tick
<1>4. CASE UNCHANGED vars
  BY <1>4 DEF vars
<1> QED
  BY <1>1, <1>2, <1>3, <1>4 DEF Next

LEMMA NextKeepsChronicled == IInv /\ Chronicled /\ [Next]_vars => Chronicled'
<1> SUFFICES ASSUME IInv, Chronicled, [Next]_vars PROVE Chronicled'
  OBVIOUS
<1>1. now \in Nat /\ Truncate(now) \in Nat /\ Truncate(now) <= Truncate(now + 1)
  BY Truncation DEF IInv, TypeOK
<1>2. CASE \E env : Joins(env) /\ env.ts = Truncate(now)
  <2>1. PICK env : Joins(env) /\ env.ts = Truncate(now)
    BY <1>2
  <2>2. /\ Len(log) \in Nat /\ DOMAIN log = 1..Len(log) /\ DOMAIN log' = 1..(Len(log) + 1)
        /\ \A i \in DOMAIN log : log'[i] = log[i]
        /\ log'[Len(log) + 1] = env /\ now' = now
    BY <2>1, LogGrows DEF IInv, TypeOK, Joins
  <2>3. \A i \in DOMAIN log' : i \in DOMAIN log \/ (i = Len(log) + 1 /\ log'[i] = env)
    BY <2>2
  <2>4. \A i \in DOMAIN log' : log'[i].ts \in Nat /\ log'[i].ts <= Truncate(now)
    BY <1>1, <2>1, <2>2, <2>3 DEF Chronicled
  <2>5. ASSUME NEW i \in DOMAIN log', NEW j \in DOMAIN log', i <= j
        PROVE  log'[i].ts <= log'[j].ts
    <3>1. CASE j \in DOMAIN log
      <4>1. i \in DOMAIN log
        BY <2>2, <2>5, <3>1
      <4> QED
        BY <2>2, <2>5, <3>1, <4>1 DEF Chronicled
    <3>2. CASE j = Len(log) + 1
      BY <2>1, <2>2, <2>4, <3>2
    <3> QED
      BY <2>3, <3>1, <3>2
  <2> QED
    BY <2>2, <2>4, <2>5 DEF Chronicled
<1>3. CASE log' = log /\ entries' = entries /\ now' \in {now, now + 1}
  <2>1. Truncate(now') \in Nat /\ Truncate(now) <= Truncate(now')
    BY <1>1, <1>3, Truncation
  <2>2. \A i \in DOMAIN log : log[i].ts \in Nat /\ log[i].ts <= Truncate(now')
    BY <1>1, <2>1 DEF Chronicled
  <2> QED
    BY <1>3, <2>2 DEF Chronicled
<1> QED
  BY <1>2, <1>3, StepStamps

LEMMA AlwaysChronicled == Spec => [](IInv /\ Chronicled)
<1>1. Init => IInv /\ Chronicled
  <2>1. ASSUME Init PROVE Chronicled
    <3>1. DOMAIN log = {}
      BY <2>1 DEF Init
    <3> QED
      BY <3>1 DEF Chronicled
  <2> QED
    BY <2>1, InitIInv
<1>2. IInv /\ Chronicled /\ [Next]_vars => (IInv /\ Chronicled)'
  BY NextKeepsIInv, NextKeepsChronicled
<1> QED
  BY <1>1, <1>2, PTL DEF Spec

=============================================================================
