------------------------------ MODULE ReadersProofs ------------------------------
(***************************************************************************)
(* What readers are told, for any identities, namespaces, policies, drafts *)
(* and bounds: who gets to read what (Reading), and whether the surfaces   *)
(* that report on the work of a project agree with each other (Work).      *)
(***************************************************************************)
EXTENDS Reading, Work, ClaimingProofs, SequenceTheorems

-----------------------------------------------------------------------------
(* Looks.                                                                  *)

\* The range of a look ends before the look.
LooksLookBack == \A u \in DOMAIN log : log[u].type = "UNSEAL" => log[u].range.until < u

LooksInv == IInv /\ LooksLookBack

LEMMA NextKeepsLooks == LooksInv /\ [Next]_vars => LooksInv'
<1> SUFFICES ASSUME LooksInv, [Next]_vars PROVE LooksLookBack'
  BY NextKeepsIInv DEF LooksInv
<1>1. ASSUME NEW policy \in GenesisPolicies, Genesis(policy) PROVE LooksLookBack'
  <2>1. log' = <<Sequenced(GenesisDraft(policy), "human", now)>>
    BY <1>1 DEF Genesis
  <2>2. Sequenced(GenesisDraft(policy), "human", now).type = "POLICY"
    BY DEF Sequenced, GenesisDraft
  <2> QED
    BY <2>1, <2>2 DEF LooksLookBack
<1>2. ASSUME NEW d \in Drafts, Post(d) PROVE LooksLookBack'
  <2> DEFINE env == Sequenced(d, BandOf(d), now)
  <2>1. log' = Append(log, env) /\ UnsealOK(d) /\ TypeOK /\ env \in Envelope
    BY <1>2, AcceptedEnvelope DEF Post, Accepts, LooksInv, IInv
  <2>2. env.type = d.type /\ env.range = d.range
    BY DEF Sequenced
  <2>3. env.type = "UNSEAL" => env.range.until < Len(log) + 1
    BY <2>1, <2>2 DEF UnsealOK, NextId
  <2> HIDE DEF env
  <2>4. /\ Len(log) \in Nat /\ DOMAIN log = 1..Len(log)
        /\ DOMAIN log' = 1..(Len(log) + 1)
        /\ \A i \in DOMAIN log : log'[i] = log[i]
        /\ log'[Len(log) + 1] = env
    BY <2>1, LogGrows DEF TypeOK
  <2> QED
    BY <2>3, <2>4 DEF LooksLookBack, LooksInv
<1>3. CASE Tick \/ UNCHANGED vars
  BY <1>3 DEF Tick, vars, LooksInv, LooksLookBack
<1> QED
  BY <1>1, <1>2, <1>3 DEF Next

\* What is sealed to a person or in somebody else's room is read by a look alone.
LEMMA SeenByALook ==
    ASSUME NEW reader, NEW i \in Overheard(reader)
    PROVE  UnsealCovers(log, i, reader, HeadOf(log))
<1> DEFINE band == EffectiveBand(entries, reader, log[i].ns, HeadOf(log))
           look == UnsealCovers(log, i, reader, HeadOf(log))
<1>1. /\ Verdict(log, entries, i, reader, HeadOf(log)) = "ok"
      /\ HoldsHumanAnywhere(entries, reader, HeadOf(log))
      /\ log[i].type \notin SeamExemptActs
      /\ SealedAtPost(entries, log, i) \/ PrivateRoom(log[i], reader)
      /\ ~Participant(log[i], reader)
  BY DEF Overheard, VisibleNow, Visible
<1>2. SUFFICES ASSUME ~look PROVE FALSE
  OBVIOUS
<1>3. band # NoBand
  BY <1>1 DEF Verdict
<1>4. ~PrivateRoom(log[i], reader)
  BY <1>1, <1>2, <1>3 DEF Verdict
<1>5. Verdict(log, entries, i, reader, HeadOf(log)) \in {"denied", "sealed"}
  BY <1>1, <1>2, <1>3, <1>4 DEF Verdict
<1> QED
  BY <1>1, <1>5

\* Whoever holds a human grant reads sealed or private words only under a look of
\* its own, posted after the words and in their namespace (access.py unseal_covers,
\* validate.py _check_unseal).
THEOREM EveryLookIsOnRecord == Spec => []LooksAreOnRecord
<1>1. LooksInv => LooksAreOnRecord
  <2> SUFFICES ASSUME LooksInv, NEW reader \in Identity, NEW i \in Overheard(reader)
               PROVE  \E u \in DOMAIN log :
                          /\ u > i
                          /\ log[u].type = "UNSEAL" /\ log[u].author = reader
                          /\ log[u].ns = log[i].ns
    BY DEF LooksAreOnRecord
  <2>1. PICK u \in ActsIn(log, "UNSEAL", HeadOf(log)) :
           /\ log[u].author = reader /\ log[u].ns = log[i].ns /\ i <= log[u].range.until
    BY SeenByALook DEF UnsealCovers
  <2>2. u \in DOMAIN log /\ log[u].type = "UNSEAL" /\ i \in DOMAIN log
    BY <2>1 DEF ActsIn, UpTo, Overheard, VisibleNow, Visible
  <2>3. log[u].range.until < u
    BY <2>2 DEF LooksInv, LooksLookBack
  <2>4. u \in Nat /\ i \in Nat /\ log[u].range.until \in Nat
    <3>1. log[u] \in Envelope /\ DOMAIN log \subseteq Nat
      BY <2>2, ElementOfSeq, LenProperties DEF LooksInv, IInv, TypeOK
    <3> QED
      BY <2>2, <3>1 DEF Envelope
  <2> QED
    BY <2>1, <2>2, <2>3, <2>4
<1>2. Init => LooksInv
  BY InitIInv DEF LooksInv, LooksLookBack, Init
<1> QED
  BY <1>1, <1>2, NextKeepsLooks, PTL DEF Spec

-----------------------------------------------------------------------------
(* Blind rounds.                                                           *)

\* The law of every earlier moment is the law that the board had at that moment.
PrefixLaw ==
    \A h \in DOMAIN log : EntriesOf(SubSeq(log, 1, h)) = InForce(entries, h)

LEMMA PrefixOfLog ==
    ASSUME NEW L \in Seq(Envelope), NEW h \in DOMAIN L
    PROVE  /\ h \in Nat /\ DOMAIN L = 1..Len(L) /\ Len(L) \in Nat
           /\ DOMAIN SubSeq(L, 1, h) = 1..h
           /\ \A i \in 1..h : SubSeq(L, 1, h)[i] = L[i]
OBVIOUS

LEMMA JoinKeepsPrefixLaw ==
    ASSUME IInv, PrefixLaw, NEW env, Joins(env)
    PROVE  PrefixLaw'
<1>1. IInv'
  BY JoinKeepsIInv
<1>2. /\ log' \in Seq(Envelope) /\ Len(log) \in Nat /\ Len(log') = Len(log) + 1
      /\ DOMAIN log = 1..Len(log) /\ DOMAIN log' = 1..(Len(log) + 1)
      /\ log' = Append(log, env) /\ log \in Seq(Envelope)
  BY LogGrows DEF IInv, TypeOK, Joins
<1>3. ASSUME NEW h \in DOMAIN log
      PROVE  EntriesOf(SubSeq(log', 1, h)) = InForce(entries', h)
  <2>1. SubSeq(log', 1, h) = SubSeq(log, 1, h)
    BY <1>2
  <2> QED
    BY <2>1, PastIsFixed DEF PrefixLaw
<1>4. EntriesOf(SubSeq(log', 1, Len(log'))) = InForce(entries', Len(log'))
  <2>1. SubSeq(log', 1, Len(log')) = log'
    BY <1>2
  <2>2. EntriesOf(log') = entries'
    BY <1>1 DEF IInv, EntriesMatchLog
  <2>3. InForce(entries', Len(log')) = entries'
    BY <1>1 DEF IInv, LogShape, InForce
  <2> QED
    BY <2>1, <2>2, <2>3
<1> QED
  BY <1>2, <1>3, <1>4 DEF PrefixLaw

LEMMA NextKeepsPrefixLaw == IInv /\ PrefixLaw /\ [Next]_vars => PrefixLaw'
<1> SUFFICES ASSUME IInv, PrefixLaw, [Next]_vars PROVE PrefixLaw'
  OBVIOUS
<1>1. CASE \E env : Joins(env)
  BY <1>1, JoinKeepsPrefixLaw
<1>2. CASE log' = log /\ entries' = entries
  BY <1>2 DEF PrefixLaw
<1> QED
  BY <1>1, <1>2, StepJoins

\* Seen from the log as it became later, an earlier moment was the same.
LEMMA EarlierMoment ==
    ASSUME IInv, PrefixLaw, NEW h \in DOMAIN log, NEW i \in 1..h
    PROVE  LET then == SubSeq(log, 1, h) IN
           /\ then[i] = log[i]
           /\ \A who, ns : EffectiveBand(EntriesOf(then), who, ns, h)
                             = EffectiveBand(entries, who, ns, h)
           /\ \A ns : PolicyAt(EntriesOf(then), ns, i) = PolicyAt(entries, ns, i)
           /\ Rounds(log, i) \subseteq Rounds(then, i)
<1> DEFINE then == SubSeq(log, 1, h)
<1>1. /\ h \in Nat /\ DOMAIN log = 1..Len(log) /\ Len(log) \in Nat /\ i \in DOMAIN log
      /\ DOMAIN then = 1..h /\ \A j \in 1..h : then[j] = log[j]
  BY PrefixOfLog DEF IInv, TypeOK
<1> HIDE DEF then
<1>2. EntriesOf(then) = InForce(entries, h)
  BY DEF PrefixLaw, then
<1>3. \A e \in entries : e.effective_at \in Nat
  BY DEF IInv, TypeOK, PolicyEntry
<1>4. InForce(EntriesOf(then), h) = InForce(entries, h)
        /\ InForce(EntriesOf(then), i) = InForce(entries, i)
  BY <1>1, <1>2, <1>3 DEF InForce
<1>5. \A who, ns : EffectiveBand(EntriesOf(then), who, ns, h)
                     = EffectiveBand(entries, who, ns, h)
  BY <1>4, BandOfInForce
<1>6. \A ns : PolicyAt(EntriesOf(then), ns, i) = PolicyAt(entries, ns, i)
  BY <1>4, PolicyOfInForce
<1>7. \A r \in RefsOf(log[i], "replies") : r < i
  BY <1>1 DEF IInv, LogShape, RefsOf
<1>8. Rounds(log, i) \subseteq Rounds(then, i)
  BY <1>1, <1>7 DEF Rounds
<1> QED
  BY <1>1, <1>5, <1>6, <1>8 DEF then

\* Nobody who answers an open round for the first time was ever served, while below
\* desk, a blind answer of somebody else's to it (access.py verdict and blinded).
THEOREM BlindAnswersAreIndependent == Spec => []BlindVotesAreIndependent
<1>1. IInv /\ PrefixLaw => BlindVotesAreIndependent
  <2> SUFFICES ASSUME IInv, PrefixLaw, NEW k \in DOMAIN log, NEW r \in Rounds(log, k),
                      FirstAnswer(k, r), ~RoundClosed(log, r, k - 1),
                      NEW i \in 1..(k - 1), r \in Rounds(log, i),
                      log[i].type = log[k].type,
                      log[i].type \in PolicyAt(entries, log[i].ns, i).blind,
                      log[i].author # log[k].author,
                      NEW h \in i..(k - 1),
                      BandAt(log[k].author, i, h)
                          \in {"reader", "poster", "warner", "claimant"}
               PROVE  i \notin Served(log[k].author, h)
    BY DEF BlindVotesAreIndependent
  <2> DEFINE who == log[k].author
             then == SubSeq(log, 1, h)
             law == EntriesOf(then)
             band == EffectiveBand(law, who, log[i].ns, h)
  <2>1. /\ DOMAIN log = 1..Len(log) /\ Len(log) \in Nat
        /\ k \in Nat /\ h \in DOMAIN log /\ i \in 1..h
    BY LenProperties DEF IInv, TypeOK
  <2>2. DOMAIN then = 1..h /\ \A j \in 1..h : then[j] = log[j]
    BY <2>1, PrefixOfLog DEF IInv, TypeOK
  <2>3. /\ band = EffectiveBand(entries, who, log[i].ns, h)
        /\ PolicyAt(law, log[i].ns, i) = PolicyAt(entries, log[i].ns, i)
        /\ r \in Rounds(then, i)
    BY <2>1, EarlierMoment
  <2>4. BandRank[band] < BandRank["desk"]
    <3>1. band \in {"reader", "poster", "warner", "claimant"}
      BY <2>3 DEF BandAt
    <3>2. BandRank["reader"] < BandRank["desk"] /\ BandRank["poster"] < BandRank["desk"]
            /\ BandRank["warner"] < BandRank["desk"] /\ BandRank["claimant"] < BandRank["desk"]
      BY DEF BandRank, Band
    <3> HIDE DEF band
    <3> QED
      BY <3>1, <3>2
  <2>5. ~RoundClosed(then, r, h)
    BY <2>1, <2>2 DEF RoundClosed, Inbound, UpTo
  <2>6. ~PostedInto(then, r, log[i].type, who, h)
    BY <2>1, <2>2 DEF FirstAnswer, PostedInto, Inbound, UpTo
  <2>7. Blinded(then, law, i, who, band, h)
    <3>1. then[i] = log[i]
      BY <2>1, <2>2
    <3> HIDE DEF band, law, then, who
    <3> QED
      BY <2>3, <2>4, <2>5, <2>6, <3>1 DEF Blinded, who
  <2>8. then[i] = log[i]
    BY <2>1, <2>2
  <2>9. Verdict(then, law, i, who, h) # "ok"
    <3> HIDE DEF law, then, who
    <3> QED
      BY <2>7, <2>8, ReadableIff DEF band
  <2> QED
    BY <2>9 DEF Served, Visible
<1>2. Init => PrefixLaw
  BY DEF Init, PrefixLaw
<1> QED
  BY <1>1, <1>2, InitIInv, NextKeepsIInv, NextKeepsPrefixLaw, PTL DEF Spec

-----------------------------------------------------------------------------
(* Nothing is taken back.                                                  *)

\* While the law stands, an envelope that was readable is so beside one more.
LEMMA JoinTakesNothingBack ==
    ASSUME IInv, NEW env, Joins(env), entries' = entries, NEW reader, NEW i \in VisibleNow(reader)
    PROVE  i \in VisibleNow(reader)'
<1> DEFINE n == Len(log)
<1>1. /\ log' \in Seq(Envelope) /\ n \in Nat /\ Len(log') = n + 1
      /\ DOMAIN log = 1..n /\ DOMAIN log' = 1..(n + 1)
      /\ \A j \in DOMAIN log : log'[j] = log[j]
  BY LogGrows DEF IInv, TypeOK, Joins
<1>2. i \in 1..n /\ Verdict(log, entries, i, reader, n) = "ok"
  BY <1>1 DEF VisibleNow, Visible, HeadOf, UpTo
<1>3. InForce(entries, n + 1) = InForce(entries, n)
  BY PastIsFixed
<1>4. log'[i] = log[i]
  BY <1>1, <1>2
<1> DEFINE band == EffectiveBand(entries, reader, log[i].ns, n)
<1>5. /\ EffectiveBand(entries, reader, log[i].ns, n + 1) = band
      /\ HoldsHumanAnywhere(entries, reader, n + 1) = HoldsHumanAnywhere(entries, reader, n)
  BY <1>3, BandOfInForce, HumanOfInForce
<1>6. UnsealCovers(log, i, reader, n) => UnsealCovers(log', i, reader, n + 1)
  BY <1>1, <1>4 DEF UnsealCovers, ActsIn, UpTo
<1>7. SealedAtPost(entries, log', i) = SealedAtPost(entries, log, i)
  BY <1>4 DEF SealedAtPost
<1>8. Rounds(log', i) \subseteq Rounds(log, i)
  <2>1. \A r \in RefsOf(log[i], "replies") : r < i
    BY <1>1, <1>2 DEF IInv, LogShape, RefsOf
  <2> QED
    BY <2>1, <1>1, <1>2, <1>4 DEF Rounds
<1>9. ASSUME NEW r
      PROVE  /\ RoundClosed(log, r, n) => RoundClosed(log', r, n + 1)
             /\ PostedInto(log, r, log[i].type, reader, n)
                  => PostedInto(log', r, log[i].type, reader, n + 1)
  BY <1>1 DEF RoundClosed, PostedInto, Inbound, UpTo
<1>10. Blinded(log', entries, i, reader, band, n + 1)
         => Blinded(log, entries, i, reader, band, n)
  <2> HIDE DEF band, n
  <2> QED
    BY <1>4, <1>8, <1>9 DEF Blinded
<1>11. Verdict(log', entries, i, reader, n + 1) = "ok"
  <2> HIDE DEF n
  <2> QED
    BY <1>2, <1>4, <1>5, <1>6, <1>7, <1>10, ReadableIff
<1> QED
  BY <1>1, <1>2, <1>11 DEF VisibleNow, Visible, HeadOf, UpTo

\* Whatever is posted, and however many looks, rounds and closes come: as long as no
\* policy comes into force, every reader keeps what it could read (access.py).
THEOREM ReadersLoseNothing == Spec => NothingIsTakenBack
<1> DEFINE A == \A reader \in Identity :
                   entries' = entries => VisibleNow(reader) \subseteq VisibleNow(reader)'
<1>1. IInv /\ [Next]_vars => [A]_vars
  <2> SUFFICES ASSUME IInv, [Next]_vars, NEW reader \in Identity, entries' = entries,
                      NEW i \in VisibleNow(reader)
               PROVE  i \in VisibleNow(reader)'
    OBVIOUS
  <2>1. CASE \E env : Joins(env)
    BY <2>1, JoinTakesNothingBack
  <2>2. CASE log' = log
    BY <2>2 DEF VisibleNow
  <2> QED
    BY <2>1, <2>2, StepJoins
<1> QED
  BY <1>1, AlwaysIInv, PTL DEF Spec, NothingIsTakenBack

-----------------------------------------------------------------------------
(* Namespaces of one and two segments.                                    *)

LEMMA TwoSegments ==
    ASSUME NEW a, NEW b
    PROVE  Append(<<a>>, b) = <<a, b>>
<1> DEFINE s == <<a>>
           t == <<a, b>>
<1>1. s \in Seq({a, b}) /\ t \in Seq({a, b}) /\ b \in {a, b}
  OBVIOUS
<1>2. Len(s) = 1 /\ s[1] = a /\ Len(t) = 2 /\ t[1] = a /\ t[2] = b
  OBVIOUS
<1> HIDE DEF s, t
<1> DEFINE S == {a, b}
<1> HIDE DEF S
<1>3. /\ Append(s, b) \in Seq(S) /\ Len(Append(s, b)) = Len(s) + 1
      /\ \A i \in 1..Len(s) : Append(s, b)[i] = s[i]
      /\ Append(s, b)[Len(s) + 1] = b
  BY <1>1, AppendProperties DEF S
<1>4. Append(s, b) = t
  BY <1>1, <1>2, <1>3, SeqEqual DEF S
<1> QED
  BY <1>4 DEF s, t

LEMMA FirstTwoSegments ==
    ASSUME NEW S, NEW ns \in Seq(S), NEW a, NEW b, 2 <= Len(ns), SubSeq(ns, 1, 2) = <<a, b>>
    PROVE  ns[1] = a /\ ns[2] = b
<1> DEFINE s == SubSeq(ns, 1, 2)
<1>1. s[1] = ns[1] /\ s[2] = ns[2]
  OBVIOUS
<1>2. s = <<a, b>>
  OBVIOUS
<1> HIDE DEF s
<1>3. s[1] = a /\ s[2] = b
  BY <1>2
<1> QED
  BY <1>1, <1>3

LEMMA FirstSegment ==
    ASSUME NEW S, NEW ns \in Seq(S), 1 <= Len(ns)
    PROVE  SubSeq(ns, 1, 1) = <<ns[1]>>
<1> DEFINE s == SubSeq(ns, 1, 1)
           x == ns[1]
           t == <<x>>
<1>1. s \in Seq(S) /\ Len(s) = 1 /\ s[1] = x /\ x \in S
  OBVIOUS
<1> HIDE DEF s, x
<1>2. t \in Seq(S) /\ Len(t) = 1 /\ t[1] = x
  BY <1>1
<1> HIDE DEF t
<1>3. s = t
  BY <1>1, <1>2, SeqEqual
<1> QED
  BY <1>3 DEF s, t, x

-----------------------------------------------------------------------------
(* Mentions.                                                               *)

\* A mention was fit to follow under the law before its envelope.
MentionsFit ==
    \A k \in DOMAIN log : \A who \in log[k].ext.mentions :
        MentionOK(InForce(entries, k - 1), log[k].ns, who, k)

MentionsInv == IInv /\ MentionsFit

LEMMA NextKeepsMentions == MentionsInv /\ [Next]_vars => MentionsInv'
<1> SUFFICES ASSUME MentionsInv, [Next]_vars PROVE MentionsFit'
  BY NextKeepsIInv DEF MentionsInv
<1>1. ASSUME NEW policy \in GenesisPolicies, Genesis(policy) PROVE MentionsFit'
  <2>1. log' = <<Sequenced(GenesisDraft(policy), "human", now)>>
    BY <1>1 DEF Genesis
  <2>2. Sequenced(GenesisDraft(policy), "human", now).ext.mentions = {}
    BY DEF Sequenced, GenesisDraft, NoExt
  <2> QED
    BY <2>1, <2>2 DEF MentionsFit
<1>2. ASSUME NEW d \in Drafts, Post(d) PROVE MentionsFit'
  <2> DEFINE env == Sequenced(d, BandOf(d), now)
  <2>1. /\ log' = Append(log, env) /\ TypeOK /\ IInv /\ env \in Envelope
        /\ Reachable(entries, d, Len(log) + 1) /\ log # << >>
    BY <1>2, AcceptedEnvelope DEF Post, Accepts, MentionsInv, IInv, NextId
  <2>2. env.ext = d.ext /\ env.ns = d.ns
    BY DEF Sequenced
  <2>3. PICK e : Joins(e)
    BY <1>2, <2>1, PostJoins
  <2> HIDE DEF env
  <2>4. /\ Len(log) \in Nat /\ DOMAIN log = 1..Len(log)
        /\ DOMAIN log' = 1..(Len(log) + 1)
        /\ \A i \in DOMAIN log : log'[i] = log[i]
        /\ log'[Len(log) + 1] = env
    BY <2>1, LogGrows DEF TypeOK
  <2>5. \A o \in 0..Len(log) : InForce(entries', o) = InForce(entries, o)
    <3>1. entries \subseteq entries' /\ \A f \in entries' \ entries : f.effective_at = Len(log) + 1
      BY <2>1, <2>3, ApplyAddsNow, ApplyKeeps DEF Joins
    <3> QED
      BY <3>1, <2>4 DEF InForce
  <2>6. InForce(entries', Len(log)) = entries
    BY <2>1, <2>3, PastIsFixed
  <2>7. ASSUME NEW k \in DOMAIN log, NEW who \in log'[k].ext.mentions
        PROVE  MentionOK(InForce(entries', k - 1), log'[k].ns, who, k)
    <3>1. MentionOK(InForce(entries, k - 1), log[k].ns, who, k) /\ log'[k] = log[k]
      BY <2>4, <2>7 DEF MentionsInv, MentionsFit
    <3>2. InForce(entries', k - 1) = InForce(entries, k - 1)
      BY <2>4, <2>5
    <3> QED
      BY <3>1, <3>2
  <2>8. ASSUME NEW who \in env.ext.mentions
        PROVE  MentionOK(entries, env.ns, who, Len(log) + 1)
    BY <2>1, <2>2, <2>8 DEF Reachable
  <2> QED
    BY <2>4, <2>6, <2>7, <2>8 DEF MentionsFit
<1>3. CASE Tick \/ UNCHANGED vars
  BY <1>3 DEF Tick, vars, MentionsInv, MentionsFit
<1> QED
  BY <1>1, <1>2, <1>3 DEF Next

\* A band for whom the gate found a mention fit, with a band of its own there, is in
\* no private room of another.
LEMMA FitIsNoPrivateRoom ==
    ASSUME NEW E, NEW k \in DOMAIN log, log[k].ns \in Seq(STRING), NEW who,
           MentionOK(E, log[k].ns, who, k), ~LockedOut(who, k)
    PROVE  /\ ~PrivateRoom(log[k], who)
           /\ BandAt(who, k, k) # NoBand \/ EffectiveBand(E, who, log[k].ns, k) # NoBand
<1> DEFINE ns == log[k].ns
<1>1. CASE OwnRoom(who, ns)
  <2>1. BandAt(who, k, k) # NoBand /\ ns # <<"scratch", who>>
    BY <1>1 DEF LockedOut
  <2>2. PICK root \in {"dm", "scratch"} : InSubtree(<<root, who>>, ns)
    <3>1. PICK r \in {"dm", "scratch"} : InSubtree(Append(<<r>>, who), ns)
      BY <1>1, Zenon DEF OwnRoom, PrivateRoots
    <3> QED
      BY <3>1, TwoSegments, Zenon
  <2> HIDE DEF ns
  <2>3. ns \in Seq(STRING)
    BY DEF ns
  <2>4. Len(ns) >= 2 /\ SubSeq(ns, 1, 2) = <<root, who>>
    BY <2>2 DEF InSubtree
  <2>5. ns[1] = root /\ ns[2] = who
    BY <2>3, <2>4, FirstTwoSegments
  <2>6. Len(ns) \in Nat
    BY <2>3
  <2>7. root = "scratch" => Len(ns) # 2
    <3> SUFFICES ASSUME root = "scratch", Len(ns) = 2 PROVE FALSE
      OBVIOUS
    <3>1. SubSeq(ns, 1, 2) = ns
      BY <2>3
    <3> QED
      BY <3>1, <2>1, <2>4
  <2>8. root = "scratch" => InScratchOf(who, ns)
    <3> SUFFICES ASSUME root = "scratch" PROVE InScratchOf(who, ns)
      OBVIOUS
    <3> DEFINE n == Len(ns)
    <3>1. n >= 2 /\ n # 2 /\ n \in Nat
      BY <2>4, <2>6, <2>7, Zenon
    <3> HIDE DEF n
    <3>2. n >= 3
      BY <3>1
    <3> QED
      BY <3>1, <3>2, <2>5, Zenon DEF InScratchOf, InScratch, n
  <2>9. root = "dm" => Participant(log[k], who) /\ ~InScratch(ns)
    BY <2>4, <2>5 DEF Participant, InMailbox, InScratch, ns
  <2>10. root = "scratch" => ~InMailbox(ns)
    BY <2>5 DEF InMailbox
  <2> QED
    BY <2>1, <2>2, <2>8, <2>9, <2>10 DEF PrivateRoom, ns
<1>2. CASE ~OwnRoom(who, ns)
  <2>1. /\ ~InSubtree(<<"dm">>, ns) /\ ~InSubtree(<<"scratch">>, ns)
        /\ EffectiveBand(E, who, ns, k) # NoBand
    BY <1>2 DEF MentionOK, OwnRoom, PrivateRoots
  <2> HIDE DEF ns
  <2>2. ns \in Seq(STRING)
    BY DEF ns
  <2>3. Len(ns) >= 2 => InSubtree(<<ns[1]>>, ns)
    <3> SUFFICES ASSUME Len(ns) >= 2 PROVE InSubtree(<<ns[1]>>, ns)
      OBVIOUS
    <3>1. SubSeq(ns, 1, 1) = <<ns[1]>> /\ Len(ns) \in Nat
      BY <2>2, FirstSegment
    <3> QED
      BY <3>1 DEF InSubtree
  <2>4. ~InScratch(ns) /\ ~InMailbox(ns)
    BY <2>1, <2>3, Zenon DEF InScratch, InMailbox
  <2> QED
    BY <2>1, <2>4 DEF PrivateRoom, ns
<1> QED
  BY <1>1, <1>2

\* Whatever policies, rooms and drafts there are: a mention that the gate lets through
\* is readable to the band it names and on its mention lane (feed.mention_refusal,
\* access.verdict), but for the exceptions MentionsArrive names.
THEOREM MentionsReachWhomTheyName == Spec => []MentionsArrive
<1>1. MentionsInv => MentionsArrive
  <2> SUFFICES ASSUME MentionsInv, NEW k \in DOMAIN log,
                      NEW who \in log[k].ext.mentions \ {log[k].author},
                      ~ShutOut(who, k), ~LockedOut(who, k), ~BringsLaw(k)
               PROVE  LET seen == Visible(log, entries, who, k) IN
                      k \in seen /\ "mention" \in ReasonsFor(log, seen, who, k)
    BY DEF MentionsArrive
  <2> DEFINE seen == Visible(log, entries, who, k)
             law == InForce(entries, k - 1)
             band == EffectiveBand(entries, who, log[k].ns, k)
  <2>1. log[k] \in Envelope /\ k \in Nat /\ k \in 1..Len(log) /\ DOMAIN log = 1..Len(log)
    BY ElementOfSeq, LenProperties DEF MentionsInv, IInv, TypeOK
  <2>2. log[k].ns \in Seq(STRING)
    BY <2>1, ClientAssumption DEF Envelope
  <2>3. MentionOK(law, log[k].ns, who, k)
    BY DEF MentionsInv, MentionsFit
  <2>4. InForce(law, k) = InForce(entries, k)
    <3>1. \A e \in entries : e.effective_at \in Nat /\ e.effective_at # k
      BY DEF MentionsInv, IInv, TypeOK, PolicyEntry, BringsLaw
    <3> QED
      BY <3>1, <2>1 DEF InForce
  <2>5. EffectiveBand(law, who, log[k].ns, k) = band
    BY <2>4, BandOfInForce
  <2> HIDE DEF law
  <2>6. ~PrivateRoom(log[k], who) /\ band # NoBand
    BY <2>2, <2>3, <2>5, FitIsNoPrivateRoom DEF BandAt
  <2>7. ~Blinded(log, entries, k, who, band, k)
    BY DEF ShutOut, Blinded
  <2>8. Verdict(log, entries, k, who, k) = "ok"
    BY <2>6, <2>7, ReadableIff DEF ShutOut
  <2>9. k \in seen
    BY <2>1, <2>8 DEF Visible, UpTo
  <2>10. "mention" \in ReasonsFor(log, seen, who, k)
    <3> HIDE DEF seen
    <3> QED
      BY DEF ReasonsFor, Lanes
  <2> QED
    BY <2>9, <2>10
<1>2. Init => MentionsInv
  BY InitIInv DEF MentionsInv, MentionsFit, Init
<1> QED
  BY <1>1, <1>2, NextKeepsMentions, PTL DEF Spec

-----------------------------------------------------------------------------
(* What the lists of work say, and what the gate says.                     *)

\* A seeded log has a last envelope, and jobs reads the board at it.
LEMMA SeededHasClock ==
    ASSUME TypeOK, Seeded
    PROVE  Top \in DOMAIN log /\ Top \in Nat \ {0} /\ HasClock(log, Top) /\ UpTo(log, Top) = DOMAIN log
<1>1. Plan \in Seq(Drafts)
  BY SeedAssumption
<1>2. Len(Plan) \in Nat /\ Len(log) \in Nat /\ DOMAIN log = 1..Len(log)
  BY <1>1, LenProperties DEF TypeOK
<1>3. Len(log) > 0
  BY <1>2 DEF Seeded
<1> QED
  BY <1>2, <1>3 DEF Top, HeadOf, HasClock, UpTo

\* Nobody holds a referent exactly when no hold on it is live.
LEMMA FreeIsUnheld ==
    ASSUME IInv, NEW r, NEW when
    PROVE  LiveHolder(log, r, Top, when) = NoHold <=> LiveAt(log, r, Top, when) = {}
<1> DEFINE live == LiveAt(log, r, Top, when)
<1>1. live \in SUBSET Nat /\ 0 \notin live
  <2>1. DOMAIN log = 1..Len(log) /\ Len(log) \in Nat
    BY LenProperties DEF IInv, TypeOK
  <2>2. Heads(log, r, Top) \subseteq DOMAIN log
    BY DEF Heads, Claims, ActsIn, UpTo
  <2>3. Admissible(log, r, Top) \subseteq Heads(log, r, Top)
    BY <2>1, <2>2, AdmissibleIs
  <2> QED
    BY <2>1, <2>2, <2>3 DEF LiveAt
<1> HIDE DEF live
<1>2. live # {} => Least(live) \in live
  BY <1>1, LeastNat
<1> QED
  BY <1>1, <1>2 DEF LiveHolder, Foremost, NoHold, live

\* What is free by the time of the log stays free until somebody posts.
LEMMA FreeStaysFree ==
    ASSUME IInv, Chronicled, Seeded, NEW r, LiveAt(log, r, Top, log[Top].ts) = {}
    PROVE  LiveAt(log, r, Top, now) = {}
<1>1. /\ Top \in DOMAIN log /\ Top \in Nat /\ now \in Nat /\ Truncate(now) <= now
      /\ Truncate(now) \in Nat /\ log[Top].ts \in Nat /\ log[Top].ts <= Truncate(now)
  BY SeededHasClock, Truncation DEF IInv, TypeOK, Chronicled
<1> SUFFICES ASSUME NEW h \in LiveAt(log, r, Top, now) PROVE FALSE
  OBVIOUS
<1>2. h \in Admissible(log, r, Top) /\ now < LeaseEnd(log, r, Top, h)
  BY DEF LiveAt, Runs
<1>3. h \in DOMAIN log /\ log[h].ts \in Nat /\ LeaseEnd(log, r, Top, h) \in Nat
  BY <1>2, HoldType DEF Top
<1>4. h <= Top
  BY <1>3, LenProperties DEF IInv, TypeOK, Top, HeadOf
<1>5. log[h].ts <= log[Top].ts
  BY <1>1, <1>3, <1>4 DEF Chronicled
<1>6. log[Top].ts < LeaseEnd(log, r, Top, h)
  BY <1>1, <1>2, <1>3
<1> QED
  BY <1>2, <1>5, <1>6 DEF LiveAt, Runs

\* The gate asks about a claim of one job only who holds that job now.
LEMMA GateAsksForHolder ==
    ASSUME NEW who, NEW j
    PROVE  GateIsOpen(who, j) <=>
             (LiveHolder(log, j, Top, now) # NoHold => log[LiveHolder(log, j, Top, now)].author = who)
<1> DEFINE edge == [edge |-> "claims", id |-> j]
           d == [type |-> "CLAIM", author |-> who, refs |-> {edge}]
<1>1. d.type = "CLAIM" /\ d.author = who /\ d.refs = {edge}
  OBVIOUS
<1>2. RefsOf(d, "claims") = {j}
  <2>1. edge.edge = "claims" /\ edge.id = j
    OBVIOUS
  <2> HIDE DEF d, edge
  <2> QED
    BY <1>1, <2>1 DEF RefsOf
<1> HIDE DEF d
<1>3. NotHeldByAnother(d) <=>
        (LiveHolder(log, j, Top, now) # NoHold => log[LiveHolder(log, j, Top, now)].author = who)
  BY <1>1, <1>2 DEF NotHeldByAnother, Top
<1> QED
  BY <1>3 DEF GateIsOpen, d, edge

\* The lists of jobs by the bucket of each job.
LEMMA ListsByBucket ==
    /\ \A j \in JobsNow.open : Bucket(log, j, Top) = "open"
    /\ \A l \in JobsNow.lapsed : Bucket(log, l.job, Top) = "lapsed"
    /\ \A t \in JobsNow.taken :
          /\ Bucket(log, t.job, Top) = "taken" /\ log[t.job].type = "JOB"
          /\ t.job \in UpTo(log, Top) /\ InSubtree(Project, log[t.job].ns)
          /\ t.holder = log[JobHolder(log, t.job, Top)].author
    /\ \A j \in ActsIn(log, "JOB", Top) :
          InSubtree(Project, log[j].ns) =>
             /\ Bucket(log, j, Top) = "taken" =>
                   [job |-> j, holder |-> log[JobHolder(log, j, Top)].author]
                      \in {[job |-> t.job, holder |-> t.holder] : t \in JobsNow.taken}
             /\ Bucket(log, j, Top) = "superseded" =>
                   j \in {s.job : s \in JobsNow.superseded}
<1> DEFINE D == {i \in ActsIn(log, "JOB", Top) : InSubtree(Project, log[i].ns)}
           kept(b) == {j \in D : Bucket(log, j, Top) = b}
           taken(j) == [job |-> j, holder |-> log[JobHolder(log, j, Top)].author,
                        via |-> CurrentLink(log, j, Top, JobHolder(log, j, Top))]
           gone(j) == [job |-> j, by |-> Least(Replacements(log, j, Top))]
<1>1. /\ JobsNow.open = kept("open")
      /\ JobsNow.lapsed = {Lapse(log, j, Top) : j \in kept("lapsed")}
      /\ JobsNow.taken = {taken(j) : j \in kept("taken")}
      /\ JobsNow.superseded = {gone(j) : j \in kept("superseded")}
  BY DEF JobsNow, Jobs, JobLists
<1>2. \A j : Lapse(log, j, Top).job = j
  BY DEF Lapse
<1>3. \A j : taken(j).job = j /\ taken(j).holder = log[JobHolder(log, j, Top)].author /\ gone(j).job = j
  OBVIOUS
<1>4. \A j \in D : j \in UpTo(log, Top) /\ log[j].type = "JOB" /\ InSubtree(Project, log[j].ns)
  BY DEF ActsIn
<1> HIDE DEF taken, gone
<1>5. \A j \in JobsNow.open : Bucket(log, j, Top) = "open"
  BY <1>1
<1>6. \A l \in JobsNow.lapsed : Bucket(log, l.job, Top) = "lapsed"
  BY <1>1, <1>2
<1>7. \A t \in JobsNow.taken :
          /\ Bucket(log, t.job, Top) = "taken" /\ log[t.job].type = "JOB"
          /\ t.job \in UpTo(log, Top) /\ InSubtree(Project, log[t.job].ns)
          /\ t.holder = log[JobHolder(log, t.job, Top)].author
  BY <1>1, <1>3, <1>4
<1>8. ASSUME NEW j \in D, Bucket(log, j, Top) = "taken"
      PROVE  [job |-> j, holder |-> log[JobHolder(log, j, Top)].author]
                \in {[job |-> t.job, holder |-> t.holder] : t \in JobsNow.taken}
  BY <1>1, <1>3, <1>8
<1>9. ASSUME NEW j \in D, Bucket(log, j, Top) = "superseded"
      PROVE  j \in {s.job : s \in JobsNow.superseded}
  BY <1>1, <1>3, <1>9
<1> QED
  BY <1>5, <1>6, <1>7, <1>8, <1>9

\* Whatever renewals, releases and lapses there were: what jobs shows as free no
\* lease bars anybody from, and what it shows as taken is, at the moment of the last
\* post, barred to all but the holder (reductions.jobs, validate._check_claim).
THEOREM JobsTellsWhatIsFree == Spec => []JobsAgreesWithTheGate
<1>1. IInv /\ Chronicled => JobsAgreesWithTheGate
  <2> SUFFICES ASSUME IInv, Chronicled, Seeded PROVE GateAgreesWith(JobsNow)
    BY DEF JobsAgreesWithTheGate
  <2>1. HasClock(log, Top)
    BY SeededHasClock DEF IInv
  <2>2. ASSUME NEW j, Bucket(log, j, Top) \in {"open", "lapsed"}, NEW who
        PROVE  GateIsOpen(who, j)
    <3>1. JobHolder(log, j, Top) = NoHold
      BY <2>2 DEF Bucket
    <3>2. LiveAt(log, j, Top, log[Top].ts) = {}
      BY <2>1, <3>1, FreeIsUnheld DEF JobHolder
    <3>3. LiveHolder(log, j, Top, now) = NoHold
      BY <3>2, FreeStaysFree, FreeIsUnheld
    <3> QED
      BY <3>3, GateAsksForHolder
  <2>3. ASSUME NEW t \in JobsNow.taken, NEW who, now = log[Top].ts
        PROVE  GateIsOpen(who, t.job) <=> who = t.holder
    <3>1. Bucket(log, t.job, Top) = "taken" /\ t.holder = log[JobHolder(log, t.job, Top)].author
      BY ListsByBucket
    <3>2. JobHolder(log, t.job, Top) # NoHold
      BY <3>1 DEF Bucket
    <3>3. JobHolder(log, t.job, Top) = LiveHolder(log, t.job, Top, now)
      BY <2>1, <2>3 DEF JobHolder
    <3> QED
      BY <3>1, <3>2, <3>3, GateAsksForHolder
  <2>4. \A j \in JobsNow.open \cup {l.job : l \in JobsNow.lapsed} :
           Bucket(log, j, Top) \in {"open", "lapsed"}
    BY ListsByBucket
  <2> DEFINE free == JobsNow.open \cup {l.job : l \in JobsNow.lapsed}
  <2>5. ASSUME NEW who \in Identity, NEW j \in free
        PROVE  GateIsOpen(who, j)
    <3>1. Bucket(log, j, Top) \in {"open", "lapsed"}
      BY <2>4
    <3> QED
      BY <2>2, <3>1
  <2>6. now = log[Top].ts =>
          \A who \in Identity : \A t \in JobsNow.taken : GateIsOpen(who, t.job) <=> who = t.holder
    BY <2>3, Zenon
  <2> QED
    BY <2>5, <2>6, Zenon DEF GateAgreesWith
<1> QED
  BY <1>1, AlwaysChronicled, PTL

\* What lies in a project is in no room of scratch.
LEMMA ProjectsAreOpen ==
    ASSUME NEW ns, InSubtree(Project, ns)
    PROVE  ~InScratch(ns)
<1>1. Len(Project) \in Nat /\ Len(Project) >= 1
  BY ProjectAssumption
<1>2. SubSeq(ns, 1, Len(Project)) = Project
  BY DEF InSubtree
<1>3. Project[1] = ns[1]
  <2>1. SubSeq(ns, 1, Len(Project))[1] = ns[1]
    BY <1>1
  <2> QED
    BY <1>2, <2>1
<1> QED
  BY <1>3, ProjectAssumption DEF InScratch

\* state and jobs list the same holds, whatever is in the log (the two walks of
\* reductions.py that JOB X2 found apart).
THEOREM HoldsAreListedAlike == Spec => []StateAndJobsAgree
<1>1. IInv => StateAndJobsAgree
  <2> SUFFICES ASSUME IInv, Seeded
               PROVE  SameHolds(JobsNow, State(log, entries, Top, Project).claims)
    BY DEF StateAndJobsAgree
  <2> DEFINE E == {j \in InNest(log, Project, Top) :
                      log[j].type \in {"OPEN", "JOB"} /\ Held(log, j, Top) # NoHold}
             claims == {[referent |-> i, holder |-> Held(log, i, Top)] : i \in E}
             taken == {[job |-> t.job, holder |-> t.holder] : t \in JobsNow.taken}
             held == {[job |-> c.referent, holder |-> log[c.holder].author] :
                         c \in {d \in claims : d.referent \in JobIds}}
  <2>1. State(log, entries, Top, Project).claims = claims
    BY DEF State, StateOf
  <2>2. HasClock(log, Top)
    BY SeededHasClock DEF IInv
  <2>3. \A j : Bucket(log, j, Top) = "taken" =>
                  Held(log, j, Top) = JobHolder(log, j, Top) /\ Held(log, j, Top) # NoHold
    BY <2>2 DEF Bucket, Held, JobHolder
  <2>4. \A j : Held(log, j, Top) # NoHold =>
                  /\ Held(log, j, Top) = JobHolder(log, j, Top)
                  /\ Bucket(log, j, Top) \in {"taken", "superseded"}
    BY <2>2 DEF Bucket, Held, JobHolder
  <2>5. ASSUME NEW t \in JobsNow.taken
        PROVE  [job |-> t.job, holder |-> t.holder] \in held
    <3> DEFINE j == t.job
               c == [referent |-> j, holder |-> Held(log, j, Top)]
    <3>1. /\ Bucket(log, j, Top) = "taken" /\ log[j].type = "JOB"
          /\ j \in UpTo(log, Top) /\ InSubtree(Project, log[j].ns)
          /\ t.holder = log[JobHolder(log, j, Top)].author
      BY ListsByBucket
    <3>2. j \in E /\ j \in JobIds
      BY <3>1, <2>3, ProjectsAreOpen DEF InNest, JobIds, UpTo
    <3>3. c \in claims /\ c.referent = j /\ c.holder = Held(log, j, Top)
      BY <3>2
    <3> HIDE DEF claims, c, j
    <3>4. c \in {d \in claims : d.referent \in JobIds}
      BY <3>2, <3>3
    <3>5. [job |-> c.referent, holder |-> log[c.holder].author] \in held
      BY <3>4
    <3>6. log[c.holder].author = t.holder
      BY <3>1, <3>3, <2>3
    <3> QED
      BY <3>3, <3>5, <3>6 DEF j
  <2>6. ASSUME NEW h \in held, h \notin taken
        PROVE  h.job \in {s.job : s \in JobsNow.superseded}
    <3>1. PICK i \in E : i \in JobIds /\ h = [job |-> i, holder |-> log[Held(log, i, Top)].author]
      OBVIOUS
    <3>2. i \in ActsIn(log, "JOB", Top) /\ InSubtree(Project, log[i].ns) /\ Held(log, i, Top) # NoHold
      BY <3>1 DEF InNest, JobIds, ActsIn
    <3>3. Bucket(log, i, Top) # "taken"
      BY <2>3, <2>6, <3>1, <3>2, ListsByBucket
    <3>4. Bucket(log, i, Top) = "superseded"
      BY <2>4, <3>2, <3>3
    <3>5. i \in {s.job : s \in JobsNow.superseded}
      BY <3>2, <3>4, ListsByBucket
    <3> QED
      BY <3>1, <3>5
  <2> HIDE DEF claims, taken, held
  <2>7. taken \subseteq held
    BY <2>5 DEF taken
  <2>8. {h.job : h \in held \ taken} \subseteq {s.job : s \in JobsNow.superseded}
    BY <2>6
  <2> QED
    BY <2>1, <2>7, <2>8 DEF SameHolds, taken, held
<1> QED
  BY <1>1, AlwaysIInv, PTL

\* What no longer waits for a gate why calls gated too, but for a desk's own delivery
\* and a gate that declined to grade (reductions.ungated against why.py).
THEOREM GatesAreSeenAlike == Spec => []WhyAgreesWithTheDocket
<1>1. IInv => WhyAgreesWithTheDocket
  <2> SUFFICES ASSUME IInv, Seeded, NEW j \in JobIds, Deliveries(log, j, Project, Top) # {},
                      j \notin {u.closes : u \in Ungated(log, Top, Project)},
                      GatedAnswer(log, FirstDelivery(j), Top) = "false"
               PROVE  \E c \in Deliveries(log, j, Project, Top) :
                         Gates(log[c]) /\ (c = FirstDelivery(j) \/ log[c].grade = "n/a")
    BY DEF WhyAgreesWithTheDocket
  <2> DEFINE D == Deliveries(log, j, Project, Top)
             first == FirstDelivery(j)
  <2>1. UpTo(log, Top) = DOMAIN log /\ j \in UpTo(log, Top)
    BY SeededHasClock DEF IInv, JobIds
  <2>2. D \in SUBSET Nat /\ D \subseteq UpTo(log, Top)
    <3>1. DOMAIN log \subseteq Nat
      BY LenProperties DEF IInv, TypeOK
    <3> QED
      BY <3>1 DEF Deliveries, Closers, Inbound, UpTo
  <2>3. first \in D
    BY <2>2, LeastNat DEF FirstDelivery
  <2>4. Gated(log, D, Top)
    <3> SUFFICES ASSUME ~Gated(log, D, Top) PROVE FALSE
      OBVIOUS
    <3>1. UngatedEntry(log, j, D, Top) \in Ungated(log, Top, Project)
      BY <2>1 DEF Ungated
    <3>2. UngatedEntry(log, j, D, Top).closes = j
      BY DEF UngatedEntry
    <3> QED
      BY <3>1, <3>2
  <2>5. PICK c \in D : Gates(log[c])
    <3>1. StandingOrAll(log, D, Top) \subseteq D
      BY DEF StandingOrAll, Standing
    <3>2. first = Least(D)
      BY DEF FirstDelivery
    <3> HIDE DEF D, first
    <3> QED
      BY <2>3, <2>4, <3>1, <3>2 DEF Gated
  <2>6. CASE c = first \/ log[c].grade = "n/a"
    BY <2>5, <2>6
  <2>7. CASE c # first /\ log[c].grade # "n/a"
    <3>1. log[c].grade = "verified"
      BY <2>5, <2>7 DEF Gates
    <3>2. j \in RefsOf(log[c], "closes") /\ j \in RefsOf(log[first], "closes")
      BY <2>3, <2>5 DEF Deliveries, Closers, Inbound
    <3>3. c \in Others(log, first, Top)
      BY <2>2, <2>7 DEF Others
    <3>4. c \in RouteClosesOnTarget(log, first, Top).found
      BY <3>2, <3>3 DEF RouteClosesOnTarget, Report
    <3>5. c \in AttestedOnTargets(log, first, Top)
      BY <3>1, <3>4 DEF AttestedOnTargets, AttestingGrades
    <3>6. GatedAnswer(log, first, Top) # "false"
      BY <3>5 DEF GatedAnswer
    <3> QED
      BY <3>6
  <2> QED
    BY <2>6, <2>7
<1> QED
  BY <1>1, AlwaysIInv, PTL

-----------------------------------------------------------------------------
(* A log, and the log in which what was withdrawn never closed anything.   *)

\* The same envelopes but for what withdrawn ones close.
SameButCloses(L, C, o) ==
    /\ DOMAIN C = DOMAIN L
    /\ \A i \in DOMAIN L :
          /\ C[i].type = L[i].type /\ C[i].ns = L[i].ns /\ C[i].author = L[i].author
          /\ C[i].ts = L[i].ts /\ C[i].lease_until = L[i].lease_until
          /\ C[i].released = L[i].released
          /\ \A e \in Edge \ {"closes"} : RefsOf(C[i], e) = RefsOf(L[i], e)
          /\ ~Superseded(L, i, o) => C[i] = L[i]

LEMMA NeverClosedIsSame ==
    ASSUME TypeOK
    PROVE  SameButCloses(log, NeverClosed, Top)
<1> SUFFICES ASSUME NEW i \in DOMAIN log
             PROVE  LET c == NeverClosed[i] IN
                    /\ c.type = log[i].type /\ c.ns = log[i].ns /\ c.author = log[i].author
                    /\ c.ts = log[i].ts /\ c.lease_until = log[i].lease_until
                    /\ c.released = log[i].released
                    /\ \A e \in Edge \ {"closes"} : RefsOf(c, e) = RefsOf(log[i], e)
                    /\ ~Superseded(log, i, Top) => c = log[i]
  BY DEF SameButCloses, NeverClosed
<1> DEFINE env == log[i]
           c == [env EXCEPT !.refs = {r \in env.refs : r.edge # "closes"}]
<1>1. env \in Envelope
  BY ElementOfSeq, LenProperties DEF TypeOK
<1> HIDE DEF env
<1>2. /\ c.type = env.type /\ c.ns = env.ns /\ c.author = env.author
      /\ c.ts = env.ts /\ c.lease_until = env.lease_until /\ c.released = env.released
      /\ c.refs = {r \in env.refs : r.edge # "closes"}
  BY <1>1 DEF Envelope
<1> HIDE DEF c
<1>3. \A e \in Edge \ {"closes"} : RefsOf(c, e) = RefsOf(env, e)
  BY <1>2 DEF RefsOf
<1>4. NeverClosed[i] = IF Superseded(log, i, Top) THEN c ELSE env
  BY DEF NeverClosed, c, env
<1> QED
  BY <1>2, <1>3, <1>4 DEF env

LEMMA SameQueries ==
    ASSUME NEW L, NEW C, NEW o, SameButCloses(L, C, o)
    PROVE  /\ UpTo(C, o) = UpTo(L, o)
           /\ \A act : ActsIn(C, act, o) = ActsIn(L, act, o)
           /\ \A t : \A e \in Edge \ {"closes"} : Inbound(C, t, e, o) = Inbound(L, t, e, o)
           /\ \A i : Superseded(C, i, o) <=> Superseded(L, i, o)
           /\ \A t : StandingClosers(C, t, o) = StandingClosers(L, t, o)
           /\ HasClock(C, o) <=> HasClock(L, o)
<1>1. UpTo(C, o) = UpTo(L, o) /\ (HasClock(C, o) <=> HasClock(L, o))
  BY DEF SameButCloses, UpTo, HasClock
<1>2. \A act : ActsIn(C, act, o) = ActsIn(L, act, o)
  BY <1>1 DEF SameButCloses, ActsIn, UpTo
<1>3. ASSUME NEW t, NEW e \in Edge \ {"closes"}
      PROVE  Inbound(C, t, e, o) = Inbound(L, t, e, o)
  BY <1>1 DEF SameButCloses, Inbound, UpTo
<1>4. "supersedes" \in Edge \ {"closes"}
  BY DEF Edge
<1>5. \A i : Superseded(C, i, o) <=> Superseded(L, i, o)
  BY <1>3, <1>4 DEF Superseded
<1>6. ASSUME NEW t
      PROVE  StandingClosers(C, t, o) = StandingClosers(L, t, o)
  <2>1. \A i \in UpTo(L, o) : ~Superseded(L, i, o) => C[i] = L[i]
    BY DEF SameButCloses, UpTo
  <2> QED
    BY <1>1, <1>5, <2>1 DEF StandingClosers, Standing, Closers, Inbound
<1> QED
  BY <1>1, <1>2, <1>3, <1>5, <1>6

\* The claims on r hang together alike.
SameClaims(L, C, o, r) ==
    /\ Claims(C, r, o) = Claims(L, r, o)
    /\ Heads(C, r, o) = Heads(L, r, o)
    /\ \A c \in Claims(L, r, o) : CurrentLink(C, r, o, c) = CurrentLink(L, r, o, c)

LEMMA SameLinks ==
    ASSUME NEW L, NEW C, NEW o, NEW r, SameButCloses(L, C, o)
    PROVE  SameClaims(L, C, o, r)
<1>1. "claims" \in Edge \ {"closes"} /\ "supersedes" \in Edge \ {"closes"}
  BY DEF Edge
<1>2. \A i \in DOMAIN L :
         /\ RefsOf(C[i], "claims") = RefsOf(L[i], "claims")
         /\ RefsOf(C[i], "supersedes") = RefsOf(L[i], "supersedes")
         /\ C[i].author = L[i].author
  BY <1>1 DEF SameButCloses
<1>3. Claims(C, r, o) = Claims(L, r, o)
  BY <1>2, SameQueries DEF Claims, ActsIn, UpTo
<1>4. \A c \in Claims(L, r, o) : c \in DOMAIN L
  BY DEF Claims, ActsIn, UpTo
<1>5. \A c \in Claims(L, r, o) : Renewed(C, r, o, c) = Renewed(L, r, o, c)
  BY <1>2, <1>3, <1>4 DEF Renewed
<1>6. Heads(C, r, o) = Heads(L, r, o)
  BY <1>3, <1>5 DEF Heads
<1>7. \A t : Renewals(C, r, o, t) = Renewals(L, r, o, t)
  BY <1>3, <1>5 DEF Renewals
<1>8. [k \in Claims(C, r, o) |-> Renewals(C, r, o, k)]
        = [k \in Claims(L, r, o) |-> Renewals(L, r, o, k)]
  BY <1>3, <1>7
<1>9. \A c : CurrentLink(C, r, o, c) = CurrentLink(L, r, o, c)
  BY <1>8 DEF CurrentLink
<1> QED
  BY <1>3, <1>6, <1>9 DEF SameClaims

\* The holds on r are the same, at any time.
SameHolders(L, C, o, r) ==
    /\ Admissible(C, r, o) = Admissible(L, r, o)
    /\ \A when : LiveHolder(C, r, o, when) = LiveHolder(L, r, o, when)

LEMMA HoldersAreSame ==
    ASSUME NEW L \in Seq(Envelope), Shaped(L), NEW C, NEW o, NEW r, SameButCloses(L, C, o)
    PROVE  SameHolders(L, C, o, r)
<1>1. /\ Heads(C, r, o) = Heads(L, r, o)
      /\ \A c \in Claims(L, r, o) : CurrentLink(C, r, o, c) = CurrentLink(L, r, o, c)
  <2>1. SameClaims(L, C, o, r)
    BY SameLinks
  <2> QED
    BY <2>1 DEF SameClaims
<1>2. \A h \in Heads(L, r, o) : h \in Claims(L, r, o) /\ h \in DOMAIN L
  BY DEF Heads, Claims, ActsIn, UpTo
<1>3. ASSUME NEW link \in DOMAIN L
      PROVE  EndOfLink(C, o, link) = EndOfLink(L, o, link)
  <2>1. Inbound(C, link, "supersedes", o) = Inbound(L, link, "supersedes", o)
    BY SameQueries DEF Edge
  <2>2. \A i \in DOMAIN L : C[i].type = L[i].type /\ C[i].released = L[i].released /\ C[i].ts = L[i].ts
    BY DEF SameButCloses
  <2>3. Releases(C, o, link) = Releases(L, o, link) /\ Releases(L, o, link) \subseteq DOMAIN L
    BY <2>1, <2>2 DEF Releases, Inbound, UpTo
  <2>4. C[link].lease_until = L[link].lease_until
    BY DEF SameButCloses
  <2> DEFINE R == Releases(L, o, link)
             first == {s \in R : \A t \in R : s <= t}
  <2>5. \A s \in first : C[s].ts = L[s].ts
    BY <2>2, <2>3
  <2>6. /\ EndOfLink(C, o, link) = LinkEnd(C, link, R)
        /\ EndOfLink(L, o, link) = LinkEnd(L, link, R)
    BY <2>3 DEF EndOfLink
  <2>7. /\ LinkEnd(C, link, R) = Least({C[link].lease_until} \cup {C[s].ts : s \in first})
        /\ LinkEnd(L, link, R) = Least({L[link].lease_until} \cup {L[s].ts : s \in first})
    BY DEF LinkEnd
  <2> HIDE DEF R, first
  <2>8. {C[s].ts : s \in first} = {L[s].ts : s \in first}
    BY <2>5
  <2> QED
    BY <2>4, <2>6, <2>7, <2>8
<1>4. \A h \in Heads(L, r, o) : LeaseEnd(C, r, o, h) = LeaseEnd(L, r, o, h)
  BY <1>1, <1>2, <1>3, LinkKeepsAuthor DEF LeaseEnd, Claims, ActsIn, UpTo
<1>5. \A h \in Heads(L, r, o) : C[h].ts = L[h].ts
  BY <1>2 DEF SameButCloses
<1>6. \A h \in Heads(L, r, o) : \A when : Runs(C, r, o, h, when) <=> Runs(L, r, o, h, when)
  BY <1>4, <1>5 DEF Runs
<1>7. {p \in Heads(L, r, o) \X Heads(L, r, o) : Runs(C, r, o, p[1], C[p[2]].ts)}
        = {p \in Heads(L, r, o) \X Heads(L, r, o) : Runs(L, r, o, p[1], L[p[2]].ts)}
  BY <1>5, <1>6
<1>8. Admissible(C, r, o) = Admissible(L, r, o)
  BY <1>1, <1>7 DEF Admissible
<1>9. Admissible(L, r, o) \subseteq Heads(L, r, o)
  BY LenProperties, AdmissibleIs DEF Heads, Claims, ActsIn, UpTo
<1>10. \A when : LiveAt(C, r, o, when) = LiveAt(L, r, o, when)
  BY <1>6, <1>8, <1>9 DEF LiveAt
<1> QED
  BY <1>8, <1>10 DEF LiveHolder, SameHolders

\* Whatever was closed by mistake and taken back, and by whatever kind of envelope:
\* no surface of the work can tell that it had been closed (JOB #2207).
THEOREM WithdrawnClosesLeaveNoTrace == Spec => []WithdrawnCloseIsInert
<1>1. IInv => WithdrawnCloseIsInert
  <2> SUFFICES ASSUME IInv, Seeded
               PROVE  LET clean == NeverClosed IN
                      /\ \A j \in JobIds :
                            /\ Bucket(log, j, Top) = Bucket(clean, j, Top)
                            /\ Blockers(log, j, Top) = Blockers(clean, j, Top)
                      /\ State(log, entries, Top, Project).opens
                           = State(clean, entries, Top, Project).opens
                      /\ State(log, entries, Top, Project).claims
                           = State(clean, entries, Top, Project).claims
    BY DEF WithdrawnCloseIsInert
  <2> DEFINE C == NeverClosed
  <2>1. SameButCloses(log, C, Top) /\ log \in Seq(Envelope) /\ Shaped(log)
    BY NeverClosedIsSame DEF IInv, TypeOK, LogShape, Shaped
  <2> HIDE DEF C
  <2>2. /\ UpTo(C, Top) = UpTo(log, Top) /\ (HasClock(C, Top) <=> HasClock(log, Top))
        /\ \A t : StandingClosers(C, t, Top) = StandingClosers(log, t, Top)
        /\ \A t : Inbound(C, t, "supersedes", Top) = Inbound(log, t, "supersedes", Top)
    BY <2>1, SameQueries DEF Edge
  <2>3. \A i \in DOMAIN log :
           /\ C[i].type = log[i].type /\ C[i].ns = log[i].ns /\ C[i].ts = log[i].ts
           /\ RefsOf(C[i], "gated-by") = RefsOf(log[i], "gated-by")
    BY <2>1 DEF SameButCloses, Edge
  <2>4. \A r : Replacements(C, r, Top) = Replacements(log, r, Top)
    BY <2>2, <2>3 DEF Replacements, Inbound, UpTo
  <2>5. ASSUME NEW r
        PROVE  /\ Admissible(C, r, Top) = Admissible(log, r, Top)
               /\ \A when : LiveHolder(C, r, Top, when) = LiveHolder(log, r, Top, when)
    <3>1. SameHolders(log, C, Top, r)
      BY <2>1, HoldersAreSame
    <3> QED
      BY <3>1 DEF SameHolders
  <2>6. HasClock(log, Top) => C[Top].ts = log[Top].ts
    BY <2>3 DEF HasClock
  <2>7. \A r : /\ JobHolder(C, r, Top) = JobHolder(log, r, Top)
               /\ Held(C, r, Top) = Held(log, r, Top)
    BY <2>2, <2>5, <2>6 DEF JobHolder, Held
  <2>8. \A r : Bucket(C, r, Top) = Bucket(log, r, Top)
    BY <2>2, <2>4, <2>5, <2>7 DEF Bucket
  <2>9. \A j \in JobIds : Blockers(C, j, Top) = Blockers(log, j, Top)
    BY <2>2, <2>3, <2>4 DEF Blockers, Released, JobIds
  <2>10. InNest(C, Project, Top) = InNest(log, Project, Top)
           /\ InNest(log, Project, Top) \subseteq DOMAIN log
    BY <2>2, <2>3 DEF InNest, UpTo
  <2>11. State(C, entries, Top, Project).opens = State(log, entries, Top, Project).opens
    <3>1. /\ State(C, entries, Top, Project).opens
               = {i \in InNest(C, Project, Top) :
                     C[i].type = "OPEN" /\ StandingClosers(C, i, Top) = {}}
          /\ State(log, entries, Top, Project).opens
               = {i \in InNest(log, Project, Top) :
                     log[i].type = "OPEN" /\ StandingClosers(log, i, Top) = {}}
      BY DEF State, StateOf
    <3> QED
      BY <3>1, <2>2, <2>3, <2>10
  <2>12. State(C, entries, Top, Project).claims = State(log, entries, Top, Project).claims
    <3> DEFINE E == {j \in InNest(log, Project, Top) :
                        log[j].type \in {"OPEN", "JOB"} /\ Held(log, j, Top) # NoHold}
               F == {j \in InNest(C, Project, Top) :
                        C[j].type \in {"OPEN", "JOB"} /\ Held(C, j, Top) # NoHold}
    <3>1. /\ State(C, entries, Top, Project).claims
               = {[referent |-> i, holder |-> Held(C, i, Top)] : i \in F}
          /\ State(log, entries, Top, Project).claims
               = {[referent |-> i, holder |-> Held(log, i, Top)] : i \in E}
      BY DEF State, StateOf
    <3>2. E = F
      BY <2>3, <2>7, <2>10
    <3> HIDE DEF E, F
    <3>3. {[referent |-> i, holder |-> Held(C, i, Top)] : i \in F}
            = {[referent |-> i, holder |-> Held(log, i, Top)] : i \in E}
      BY <2>7, <3>2
    <3> QED
      BY <3>1, <3>3
  <2> QED
    BY <2>8, <2>9, <2>11, <2>12 DEF C
<1> QED
  BY <1>1, AlwaysIInv, PTL

=============================================================================
