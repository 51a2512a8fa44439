----------------------------- MODULE ClaimingProofs -----------------------------
(***************************************************************************)
(* Proofs, for every choice of identities, policies, drafts and bounds, of *)
(* what modules Claiming and Canon state: who holds a piece of work, what  *)
(* a claimant had read, what is shown of it beforehand, and who decides    *)
(* what everybody must read.                                               *)
(***************************************************************************)
EXTENDS Claiming, Canon, GovernanceProofs, Offsets, FiniteSetTheorems

-----------------------------------------------------------------------------
(* The two recursions over a log: the holds that none keeps out, and the   *)
(* end of a chain.                                                         *)

\* What Unblocked's recursion asks for.
LEMMA UnblockedExists ==
    ASSUME NEW heads \in SUBSET Nat, NEW blocks
    PROVE  \E ok : ok = [h \in heads |-> \A g \in heads : g < h /\ ok[g] => <<g, h>> \notin blocks]
<1> DEFINE rank == [h \in heads |-> h]
           step == [h \in heads |->
                      [r \in [Below(heads, rank, h) -> BOOLEAN] |->
                         \A g \in heads : g < h /\ r[g] => <<g, h>> \notin blocks]]
<1>1. rank \in [heads -> Nat]
  OBVIOUS
<1>2. \A h \in heads : Below(heads, rank, h) = {g \in heads : g < h}
  BY DEF Below
<1>3. \A h \in heads : \A r \in [Below(heads, rank, h) -> BOOLEAN] :
         step[h][r] = \A g \in heads : g < h /\ r[g] => <<g, h>> \notin blocks
  OBVIOUS
<1> DEFINE V == BOOLEAN
<1> HIDE DEF rank, step
<1>4. \A h \in heads : \A r \in [Below(heads, rank, h) -> V] : step[h][r] \in V
  BY <1>3
<1> HIDE DEF V
<1>5. PICK ok \in [heads -> V] :
         \A h \in heads : ok[h] = step[h][Earlier(heads, rank, ok, h)]
  <2>1. Solvable(heads, V, rank, step)
    BY <1>1, <1>4, RecursionByRank
  <2> QED
    BY <2>1 DEF Solvable
<1> USE DEF V
<1>6. \A h \in heads : ok[h] = \A g \in heads : g < h /\ ok[g] => <<g, h>> \notin blocks
  <2> TAKE h \in heads
  <2>1. [g \in Below(heads, rank, h) |-> ok[g]] \in [Below(heads, rank, h) -> BOOLEAN]
    BY DEF Below
  <2>2. ok[h] = \A g \in heads :
                  g < h /\ [f \in Below(heads, rank, h) |-> ok[f]][g] => <<g, h>> \notin blocks
    BY <1>3, <1>5, <2>1 DEF Earlier
  <2>3. \A g \in heads : g < h => [f \in Below(heads, rank, h) |-> ok[f]][g] = ok[g]
    BY <1>2
  <2> QED
    BY <2>2, <2>3
<1> QED
  BY <1>6

\* A head is among the unblocked when no earlier unblocked one blocks it.
LEMMA UnblockedIs ==
    ASSUME NEW heads \in SUBSET Nat, NEW blocks
    PROVE  /\ Unblocked(heads, blocks) \subseteq heads
           /\ \A h \in heads :
                 h \in Unblocked(heads, blocks) <=>
                    \A g \in Unblocked(heads, blocks) : g < h => <<g, h>> \notin blocks
<1> DEFINE Is(f) == f = [h \in heads |-> \A g \in heads : g < h /\ f[g] => <<g, h>> \notin blocks]
           ok == CHOOSE f : Is(f)
<1>1. Is(ok)
  <2>1. \E f : Is(f)
    BY UnblockedExists
  <2> QED
    BY <2>1, Zenon
<1>2. Unblocked(heads, blocks) = {h \in heads : ok[h]}
  BY DEF Unblocked
<1> HIDE DEF ok
<1>3. \A h \in heads : ok[h] <=> \A g \in heads : g < h /\ ok[g] => <<g, h>> \notin blocks
  BY <1>1
<1> QED
  BY <1>2, <1>3

\* It is the only set of heads with that property: a later head, or a pair whose
\* first is kept out anyway, changes nothing for the earlier heads.
LEMMA UnblockedGrows ==
    ASSUME NEW n \in Nat, NEW heads \in SUBSET Nat, NEW more \in SUBSET Nat,
           heads = {h \in more : h <= n}, NEW blocks, NEW moreBlocks,
           \A g \in Unblocked(heads, blocks), h \in heads :
               g < h => (<<g, h>> \in blocks <=> <<g, h>> \in moreBlocks)
    PROVE  Unblocked(heads, blocks) = Unblocked(more, moreBlocks) \cap heads
<1> DEFINE U == Unblocked(heads, blocks)
           W == Unblocked(more, moreBlocks)
           wrong == {h \in heads : ~(h \in U <=> h \in W)}
<1>1. U \subseteq heads /\ W \subseteq more
  BY UnblockedIs
<1>2. \A h \in heads : h \in U <=> \A g \in U : g < h => <<g, h>> \notin blocks
  BY UnblockedIs
<1>3. \A h \in more : h \in W <=> \A g \in W : g < h => <<g, h>> \notin moreBlocks
  BY UnblockedIs
<1>4. \A g \in U, h \in heads : g < h => (<<g, h>> \in blocks <=> <<g, h>> \in moreBlocks)
  OBVIOUS
<1> HIDE DEF U, W
<1>5. SUFFICES ASSUME wrong # {} PROVE FALSE
  BY <1>1 DEF U, W
<1>6. PICK h \in wrong : \A g \in wrong : h <= g
  <2>1. wrong \in SUBSET Nat
    OBVIOUS
  <2> HIDE DEF wrong
  <2> QED
    BY <1>5, <2>1, SmallestNat
<1>7. \A g \in heads : g < h => (g \in U <=> g \in W)
  BY <1>6
<1>8. h \in heads /\ h \in more /\ h <= n
  BY <1>6
<1>9. \A g \in W : g < h => g \in heads /\ g \in U
  BY <1>1, <1>7, <1>8
<1>10. \A g \in U : g < h => g \in W
  BY <1>1, <1>7
<1>11. h \in U <=> h \in W
  BY <1>2, <1>3, <1>4, <1>8, <1>9, <1>10
<1> QED
  BY <1>6, <1>11

-----------------------------------------------------------------------------
(* The end of a chain.                                                     *)

LEMMA GreatestOffset ==
    ASSUME NEW n \in Nat, NEW S \in SUBSET (1..n), S # {}
    PROVE  Greatest(S) \in S /\ \A y \in S : y <= Greatest(S)
<1>1. Max(S) \in S /\ \A y \in S : y <= Max(S)
  BY MaxOfOffsets
<1> QED
  BY <1>1, Zenon DEF Greatest

\* What comes next to an offset comes later.
Onward(n, D, next) ==
    /\ n \in Nat /\ D \in SUBSET (1..n)
    /\ next \in [D -> SUBSET D]
    /\ \A k \in D : \A j \in next[k] : k < j

LEMMA NextLink ==
    ASSUME NEW n, NEW D, NEW next, Onward(n, D, next), NEW k \in D, next[k] # {}
    PROVE  Greatest(next[k]) \in next[k] /\ Greatest(next[k]) \in D /\ k < Greatest(next[k])
<1>1. next[k] \in SUBSET (1..n) /\ n \in Nat /\ next[k] \subseteq D
  BY DEF Onward
<1>2. Greatest(next[k]) \in next[k]
  BY <1>1, GreatestOffset
<1> QED
  BY <1>1, <1>2 DEF Onward

LEMMA FollowExists ==
    ASSUME NEW n, NEW D, NEW next, Onward(n, D, next)
    PROVE  \E end : end = [k \in D |-> IF next[k] = {} THEN k ELSE end[Greatest(next[k])]]
<1> DEFINE rank == [k \in D |-> n - k]
           step == [k \in D |->
                      [r \in [Below(D, rank, k) -> D] |->
                         IF next[k] = {} THEN k ELSE r[Greatest(next[k])]]]
<1>1. rank \in [D -> Nat]
  BY DEF Onward
<1>2. \A k \in D : next[k] # {} => Greatest(next[k]) \in Below(D, rank, k)
  <2>1. SUFFICES ASSUME NEW k \in D, next[k] # {}
                 PROVE  Greatest(next[k]) \in Below(D, rank, k)
    OBVIOUS
  <2>2. PICK j \in D : j = Greatest(next[k]) /\ k < j
    BY <2>1, NextLink
  <2>3. j \in Nat /\ k \in Nat /\ n \in Nat /\ n - j < n - k
    BY <2>1, <2>2 DEF Onward
  <2> QED
    BY <2>2, <2>3 DEF Below
<1>3. \A k \in D : \A r \in [Below(D, rank, k) -> D] :
         step[k][r] = IF next[k] = {} THEN k ELSE r[Greatest(next[k])]
  OBVIOUS
<1> HIDE DEF rank, step
<1>4. \A k \in D : \A r \in [Below(D, rank, k) -> D] : step[k][r] \in D
  BY <1>2, <1>3
<1>5. PICK end \in [D -> D] : \A k \in D : end[k] = step[k][Earlier(D, rank, end, k)]
  <2>1. Solvable(D, D, rank, step)
    BY <1>1, <1>4, RecursionByRank
  <2> QED
    BY <2>1 DEF Solvable
<1>6. \A k \in D : end[k] = IF next[k] = {} THEN k ELSE end[Greatest(next[k])]
  <2> TAKE k \in D
  <2>1. Earlier(D, rank, end, k) \in [Below(D, rank, k) -> D]
    BY DEF Earlier, Below
  <2>2. end[k] = IF next[k] = {} THEN k ELSE Earlier(D, rank, end, k)[Greatest(next[k])]
    BY <1>3, <1>5, <2>1
  <2>3. next[k] # {} => Earlier(D, rank, end, k)[Greatest(next[k])] = end[Greatest(next[k])]
    BY <1>2 DEF Earlier
  <2> QED
    BY <2>2, <2>3
<1> QED
  BY <1>6

LEMMA FollowIs ==
    ASSUME NEW n, NEW D, NEW next, Onward(n, D, next)
    PROVE  \A k \in D :
              Follow(next)[k] = IF next[k] = {} THEN k ELSE Follow(next)[Greatest(next[k])]
<1> DEFINE Is(f) == f = [k \in D |-> IF next[k] = {} THEN k ELSE f[Greatest(next[k])]]
           end == CHOOSE f : Is(f)
<1>1. Is(end)
  <2>1. \E f : Is(f)
    BY FollowExists
  <2> QED
    BY <2>1, Zenon
<1>2. Follow(next) = end
  <2>1. DOMAIN next = D
    BY DEF Onward
  <2> QED
    BY <2>1 DEF Follow
<1> HIDE DEF end
<1> QED
  BY <1>1, <1>2

\* A chain ends where nothing comes next, and never leaves a set that the last of
\* what comes next to each of its members is in.
LEMMA FollowEnds ==
    ASSUME NEW n, NEW D, NEW next, Onward(n, D, next), NEW P \in SUBSET D,
           \A k \in P : next[k] # {} => Greatest(next[k]) \in P
    PROVE  \A k \in P : Follow(next)[k] \in P /\ next[Follow(next)[k]] = {}
<1> DEFINE Ends(k) == Follow(next)[k] \in P /\ next[Follow(next)[k]] = {}
           wrong == {k \in P : ~Ends(k)}
<1>1. SUFFICES ASSUME wrong # {} PROVE FALSE
  OBVIOUS
<1>2. n \in Nat /\ wrong \in SUBSET (1..n)
  BY DEF Onward
<1>3. PICK k \in wrong : \A j \in wrong : j <= k
  <2> HIDE DEF wrong
  <2> QED
    BY <1>1, <1>2, GreatestOffset
<1>4. k \in P /\ k \in D /\ k \in 1..n /\ ~Ends(k)
  BY <1>2, <1>3
<1>5. CASE next[k] = {}
  BY <1>4, <1>5, FollowIs
<1>6. CASE next[k] # {}
  <2>1. PICK j \in P : j = Greatest(next[k]) /\ k < j
    BY <1>4, <1>6, NextLink
  <2>2. j \in 1..n /\ ~(j <= k)
    BY <1>4, <2>1 DEF Onward
  <2>3. Ends(j)
    BY <1>3, <2>1, <2>2
  <2>4. Follow(next)[k] = Follow(next)[j]
    BY <1>4, <1>6, <2>1, FollowIs
  <2> QED
    BY <1>4, <2>3, <2>4
<1> QED
  BY <1>5, <1>6

\* A longer log with the same links leaves the ends where they were.
LEMMA FollowGrows ==
    ASSUME NEW n, NEW D, NEW next, Onward(n, D, next),
           NEW m, NEW E, NEW further, Onward(m, E, further), D \subseteq E,
           \A k \in D : further[k] = next[k]
    PROVE  \A k \in D : Follow(further)[k] = Follow(next)[k]
<1> DEFINE wrong == {k \in D : Follow(further)[k] # Follow(next)[k]}
<1>1. SUFFICES ASSUME wrong # {} PROVE FALSE
  OBVIOUS
<1>2. n \in Nat /\ wrong \in SUBSET (1..n)
  BY DEF Onward
<1>3. PICK k \in wrong : \A j \in wrong : j <= k
  <2> HIDE DEF wrong
  <2> QED
    BY <1>1, <1>2, GreatestOffset
<1>4. /\ k \in D /\ k \in E /\ k \in 1..n /\ Follow(further)[k] # Follow(next)[k]
      /\ further[k] = next[k]
  BY <1>2, <1>3
<1>5. CASE next[k] = {}
  BY <1>4, <1>5, FollowIs
<1>6. CASE next[k] # {}
  <2>1. PICK j \in D : j = Greatest(next[k]) /\ k < j
    BY <1>4, <1>6, NextLink
  <2>2. j \in 1..n /\ ~(j <= k)
    BY <1>4, <2>1 DEF Onward
  <2>3. Follow(further)[j] = Follow(next)[j]
    BY <1>3, <2>1, <2>2
  <2>4. Follow(next)[k] = Follow(next)[j]
    BY <1>4, <1>6, <2>1, FollowIs
  <2>5. Follow(further)[k] = Follow(further)[j]
    BY <1>4, <1>6, <2>1, FollowIs
  <2> QED
    BY <1>4, <2>3, <2>4, <2>5
<1> QED
  BY <1>5, <1>6

-----------------------------------------------------------------------------
(* The holds of a log whose edges point backwards.                         *)

\* The successor map of the claims on a referent.
Links(L, r, o) == [k \in Claims(L, r, o) |-> Renewals(L, r, o, k)]

LEMMA RenewedEarlier ==
    ASSUME NEW L \in Seq(Envelope), Shaped(L), NEW r, NEW o, NEW c \in Claims(L, r, o)
    PROVE  /\ c \in 1..Len(L) /\ Len(L) \in Nat /\ L[c] \in Envelope
           /\ Renewed(L, r, o, c) \in SUBSET Nat
           /\ \A t \in Renewed(L, r, o, c) :
                 t < c /\ t \in Claims(L, r, o) /\ L[t].author = L[c].author
<1>1. c \in 1..Len(L) /\ Len(L) \in Nat /\ L[c] \in Envelope /\ DOMAIN L = 1..Len(L)
  BY LenProperties, ElementOfSeq DEF Claims, ActsIn, UpTo
<1>2. Claims(L, r, o) \subseteq 1..Len(L)
  BY LenProperties DEF Claims, ActsIn, UpTo
<1>3. \A t \in RefsOf(L[c], "supersedes") : t < c
  BY <1>1 DEF RefsOf, Shaped
<1> QED
  BY <1>1, <1>2, <1>3 DEF Renewed

LEMMA LinksOnward ==
    ASSUME NEW L \in Seq(Envelope), Shaped(L), NEW r, NEW o
    PROVE  Onward(Len(L), Claims(L, r, o), Links(L, r, o))
<1>1. Len(L) \in Nat /\ Claims(L, r, o) \in SUBSET (1..Len(L))
  BY LenProperties DEF Claims, ActsIn, UpTo
<1>2. \A k \in Claims(L, r, o) : \A c \in Renewals(L, r, o, k) : c \in Claims(L, r, o) /\ k < c
  <2> TAKE k \in Claims(L, r, o)
  <2> TAKE c \in Renewals(L, r, o, k)
  <2>1. c \in Claims(L, r, o) /\ Renewed(L, r, o, c) # {} /\ k = Least(Renewed(L, r, o, c))
    BY DEF Renewals
  <2>2. k \in Renewed(L, r, o, c)
    BY <2>1, RenewedEarlier, LeastNat
  <2> QED
    BY <2>1, <2>2, RenewedEarlier
<1>3. Links(L, r, o) \in [Claims(L, r, o) -> SUBSET Claims(L, r, o)]
  BY <1>2 DEF Links
<1> QED
  BY <1>1, <1>2, <1>3 DEF Onward, Links

\* A hold stays one author's on one referent, whoever renews it.
LEMMA LinkKeepsAuthor ==
    ASSUME NEW L \in Seq(Envelope), Shaped(L), NEW r, NEW o, NEW c \in Claims(L, r, o)
    PROVE  /\ CurrentLink(L, r, o, c) \in Claims(L, r, o)
           /\ L[CurrentLink(L, r, o, c)].author = L[c].author
<1> DEFINE P == {k \in Claims(L, r, o) : L[k].author = L[c].author}
<1>1. Onward(Len(L), Claims(L, r, o), Links(L, r, o))
  BY LinksOnward
<1>2. \A k \in P : Links(L, r, o)[k] # {} => Greatest(Links(L, r, o)[k]) \in P
  <2>1. SUFFICES ASSUME NEW k \in P, Links(L, r, o)[k] # {}
                 PROVE  Greatest(Links(L, r, o)[k]) \in P
    OBVIOUS
  <2>2. PICK j \in Links(L, r, o)[k] : j = Greatest(Links(L, r, o)[k])
    BY <1>1, <2>1, NextLink
  <2>3. j \in Renewals(L, r, o, k)
    BY <2>2 DEF Links
  <2>4. /\ j \in Claims(L, r, o) /\ Renewed(L, r, o, j) # {}
        /\ k = Least(Renewed(L, r, o, j))
    BY <2>3 DEF Renewals
  <2>5. k \in Renewed(L, r, o, j)
    BY <2>4, RenewedEarlier, LeastNat
  <2>6. L[k].author = L[j].author
    BY <2>4, <2>5, RenewedEarlier
  <2> QED
    BY <2>2, <2>4, <2>6
<1>3. P \in SUBSET Claims(L, r, o) /\ c \in P
  OBVIOUS
<1> HIDE DEF P
<1>4. Follow(Links(L, r, o))[c] \in P
  BY <1>1, <1>2, <1>3, FollowEnds
<1> QED
  BY <1>4 DEF P, CurrentLink, Links

\* A hold ends at its lease, or at its first release if that was before.
LEMMA LinkEndIs ==
    ASSUME NEW L \in Seq(Envelope), \A i \in DOMAIN L : L[i].ts \in Nat,
           NEW link \in DOMAIN L, NEW R \in SUBSET (DOMAIN L)
    PROVE  /\ LinkEnd(L, link, R) \in Nat /\ L[link].lease_until \in Nat
           /\ LinkEnd(L, link, R) <= L[link].lease_until
           /\ R = {} => LinkEnd(L, link, R) = L[link].lease_until
<1> DEFINE first == {s \in R : \A t \in R : s <= t}
           ends == {L[link].lease_until} \cup {L[s].ts : s \in first}
<1>1. L[link].lease_until \in Nat
  <2>1. L[link] \in Envelope
    BY ElementOfSeq, LenProperties
  <2> QED
    BY <2>1 DEF Envelope
<1>2. ends \in SUBSET Nat /\ ends # {}
  BY <1>1
<1>3. Least(ends) \in ends /\ \A y \in ends : Least(ends) <= y
  BY <1>2, LeastNat
<1>4. LinkEnd(L, link, R) = Least(ends)
  BY DEF LinkEnd
<1>5. R = {} => ends = {L[link].lease_until}
  OBVIOUS
<1>6. L[link].lease_until \in ends
  OBVIOUS
<1> HIDE DEF ends
<1> QED
  BY <1>1, <1>2, <1>3, <1>4, <1>5, <1>6

-----------------------------------------------------------------------------
(* One hold at a time.                                                     *)

\* A head is admitted when no earlier admitted one was still running against it.
LEMMA AdmissibleIs ==
    ASSUME NEW L, NEW r, NEW o, Heads(L, r, o) \in SUBSET Nat
    PROVE  /\ Admissible(L, r, o) \subseteq Heads(L, r, o)
           /\ \A h \in Heads(L, r, o) :
                 h \in Admissible(L, r, o) <=>
                    \A g \in Admissible(L, r, o) : g < h => ~Runs(L, r, o, g, L[h].ts)
<1> DEFINE heads == Heads(L, r, o)
           blocks == {p \in heads \X heads : Runs(L, r, o, p[1], L[p[2]].ts)}
<1>1. Admissible(L, r, o) = Unblocked(heads, blocks)
  BY DEF Admissible
<1>2. \A g, h \in heads : <<g, h>> \in blocks <=> Runs(L, r, o, g, L[h].ts)
  OBVIOUS
<1> HIDE DEF heads, blocks
<1>3. heads \in SUBSET Nat
  BY DEF heads
<1>4. /\ Unblocked(heads, blocks) \subseteq heads
      /\ \A h \in heads :
            h \in Unblocked(heads, blocks) <=>
               \A g \in Unblocked(heads, blocks) : g < h => <<g, h>> \notin blocks
  BY <1>3, UnblockedIs
<1> QED
  BY <1>1, <1>2, <1>4 DEF heads

\* An admissible hold is an offset of the log that claims the referent, and runs
\* from its own ts to a moment that is a number.
LEMMA HoldType ==
    ASSUME IInv, Chronicled, NEW r, NEW h \in Admissible(log, r, HeadOf(log))
    PROVE  /\ h \in Heads(log, r, HeadOf(log)) /\ h \in Claims(log, r, HeadOf(log))
           /\ h \in DOMAIN log /\ h \in Nat
           /\ log[h].ts \in Nat /\ LeaseEnd(log, r, HeadOf(log), h) \in Nat
<1>1. Heads(log, r, HeadOf(log)) \in SUBSET Nat
  BY LenProperties DEF Heads, Claims, ActsIn, UpTo, IInv, TypeOK
<1>2. h \in Heads(log, r, HeadOf(log))
  BY <1>1, AdmissibleIs
<1>3. h \in Claims(log, r, HeadOf(log)) /\ h \in DOMAIN log
  BY <1>2 DEF Heads, Claims, ActsIn, UpTo
<1>4. log \in Seq(Envelope) /\ Shaped(log)
  BY DEF IInv, TypeOK, LogShape, Shaped
<1>5. CurrentLink(log, r, HeadOf(log), h) \in DOMAIN log
  BY <1>3, <1>4, LinkKeepsAuthor DEF Claims, ActsIn, UpTo
<1>6. Releases(log, HeadOf(log), CurrentLink(log, r, HeadOf(log), h)) \in SUBSET (DOMAIN log)
  BY DEF Releases, Inbound, UpTo
<1>7. LeaseEnd(log, r, HeadOf(log), h) \in Nat
  BY <1>4, <1>5, <1>6, LinkEndIs DEF LeaseEnd, EndOfLink, Chronicled
<1> QED
  BY <1>1, <1>2, <1>3, <1>7 DEF Chronicled

\* Of two admissible holds the later one was claimed when the earlier was over.
LEMMA HoldsInTurn ==
    ASSUME IInv, Chronicled, NEW r,
           NEW g \in Admissible(log, r, HeadOf(log)), NEW h \in Admissible(log, r, HeadOf(log)),
           g < h
    PROVE  LeaseEnd(log, r, HeadOf(log), g) <= log[h].ts
<1>1. Heads(log, r, HeadOf(log)) \in SUBSET Nat
  BY LenProperties DEF Heads, Claims, ActsIn, UpTo, IInv, TypeOK
<1>2. ~Runs(log, r, HeadOf(log), g, log[h].ts)
  BY <1>1, AdmissibleIs
<1>3. /\ log[g].ts <= log[h].ts
      /\ log[h].ts \in Nat /\ LeaseEnd(log, r, HeadOf(log), g) \in Nat
  BY HoldType DEF Chronicled
<1> QED
  BY <1>2, <1>3 DEF Runs

LEMMA AtMostOneHold ==
    ASSUME IInv, Chronicled, NEW r, NEW when \in Nat,
           NEW g \in LiveAt(log, r, HeadOf(log), when), NEW h \in LiveAt(log, r, HeadOf(log), when)
    PROVE  g = h
<1>1. \A x \in LiveAt(log, r, HeadOf(log), when) :
        /\ x \in Admissible(log, r, HeadOf(log)) /\ x \in Nat
        /\ log[x].ts \in Nat /\ LeaseEnd(log, r, HeadOf(log), x) \in Nat
        /\ log[x].ts <= when /\ when < LeaseEnd(log, r, HeadOf(log), x)
  BY HoldType DEF LiveAt, Runs
<1>2. \A x, y \in LiveAt(log, r, HeadOf(log), when) : ~(x < y)
  BY <1>1, HoldsInTurn
<1> QED
  BY <1>1, <1>2

\* Two claimants never both believe they have it, whatever is claimed, renewed and
\* released, in whatever order and at whatever clock (leases.resolve).
THEOREM HoldsAreExclusive == Spec => []OneHold
<1>1. ASSUME IInv, Chronicled PROVE OneHold
  <2>1. SUFFICES ASSUME NEW r \in Referents, NEW when \in 0..MaxTime
                 PROVE  Cardinality(LiveAt(log, r, HeadOf(log), when)) <= 1
    BY DEF OneHold
  <2>2. when \in Nat
    BY ClockAssumption
  <2>3. CASE LiveAt(log, r, HeadOf(log), when) = {}
    BY <2>3, FS_EmptySet
  <2>4. CASE \E h : h \in LiveAt(log, r, HeadOf(log), when)
    <3>1. PICK h : h \in LiveAt(log, r, HeadOf(log), when)
      BY <2>4
    <3>2. LiveAt(log, r, HeadOf(log), when) = {h}
      BY <1>1, <2>2, <3>1, AtMostOneHold
    <3> QED
      BY <3>2, FS_Singleton
  <2> QED
    BY <2>3, <2>4
<1> QED
  BY <1>1, AlwaysChronicled, PTL

-----------------------------------------------------------------------------
(* The holds of a log and of the log with one envelope more.               *)

\* env is a claim on r; env ends the hold whose current link is l.
ClaimsIt(env, r) == env.type = "CLAIM" /\ r \in RefsOf(env, "claims")

EndsIt(env, l) ==
    env.type = "SUPERSEDE" /\ env.released /\ l \in RefsOf(env, "supersedes")

LEMMA GrownLog ==
    ASSUME IInv, NEW env, Joins(env)
    PROVE  /\ HeadOf(log) = Len(log) /\ HeadOf(log') = Len(log) + 1 /\ Len(log) \in Nat
           /\ DOMAIN log = 1..Len(log) /\ DOMAIN log' = 1..(Len(log) + 1)
           /\ UpTo(log, HeadOf(log)) = 1..Len(log)
           /\ UpTo(log', HeadOf(log')) = 1..(Len(log) + 1)
           /\ \A i \in 1..Len(log) : log'[i] = log[i]
           /\ log'[Len(log) + 1] = env
           /\ \A e : \A i \in 1..Len(log) : Len(log) + 1 \notin RefsOf(log[i], e)
           /\ \A e : Len(log) + 1 \notin RefsOf(env, e)
           /\ log \in Seq(Envelope) /\ Shaped(log) /\ log' \in Seq(Envelope) /\ Shaped(log')
<1>1. /\ Len(log) \in Nat /\ Len(log') = Len(log) + 1
      /\ DOMAIN log = 1..Len(log) /\ DOMAIN log' = 1..(Len(log) + 1)
      /\ \A i \in DOMAIN log : log'[i] = log[i]
      /\ log'[Len(log) + 1] = env
  BY LogGrows DEF IInv, TypeOK, Joins
<1>2. IInv'
  BY JoinKeepsIInv
<1>3. log \in Seq(Envelope) /\ Shaped(log) /\ log' \in Seq(Envelope) /\ Shaped(log')
  BY <1>2 DEF IInv, TypeOK, LogShape, Shaped
<1>4. \A e : \A i \in 1..(Len(log) + 1) : Len(log) + 1 \notin RefsOf(log'[i], e)
  <2>1. SUFFICES ASSUME NEW e, NEW i \in 1..(Len(log) + 1), NEW x \in log'[i].refs,
                        x.id = Len(log) + 1
                 PROVE  FALSE
    BY DEF RefsOf
  <2>2. x.id < i
    BY <1>1, <1>3 DEF Shaped
  <2> QED
    BY <1>1, <2>1, <2>2
<1> QED
  BY <1>1, <1>3, <1>4 DEF HeadOf, UpTo

LEMMA ClaimsGrow ==
    ASSUME IInv, NEW env, Joins(env), NEW r
    PROVE  /\ Claims(log, r, HeadOf(log)) \subseteq 1..Len(log)
           /\ Claims(log', r, HeadOf(log')) =
                 Claims(log, r, HeadOf(log)) \cup {c \in {Len(log) + 1} : ClaimsIt(env, r)}
           /\ \A c \in Claims(log, r, HeadOf(log)) :
                 Renewed(log', r, HeadOf(log'), c) = Renewed(log, r, HeadOf(log), c)
           /\ Renewed(log', r, HeadOf(log'), Len(log) + 1) \subseteq RefsOf(env, "supersedes")
<1> DEFINE n == Len(log)
<1>1. /\ n \in Nat /\ UpTo(log, HeadOf(log)) = 1..n /\ UpTo(log', HeadOf(log')) = 1..(n + 1)
      /\ \A i \in 1..n : log'[i] = log[i]
      /\ log'[n + 1] = env
      /\ \A e : \A i \in 1..n : n + 1 \notin RefsOf(log[i], e)
  BY GrownLog
<1> HIDE DEF n
<1>2. Claims(log, r, HeadOf(log)) =
        {c \in 1..n : log[c].type = "CLAIM" /\ r \in RefsOf(log[c], "claims")}
  BY <1>1 DEF Claims, ActsIn
<1>3. Claims(log', r, HeadOf(log')) =
        {c \in 1..(n + 1) : log'[c].type = "CLAIM" /\ r \in RefsOf(log'[c], "claims")}
  BY <1>1 DEF Claims, ActsIn
<1>4. \A c \in 1..(n + 1) : c \in 1..n \/ c = n + 1
  BY <1>1
<1>5. n + 1 \in 1..(n + 1) /\ n + 1 \notin 1..n /\ 1..n \subseteq 1..(n + 1)
  BY <1>1
<1>6. Claims(log', r, HeadOf(log')) =
        Claims(log, r, HeadOf(log)) \cup {c \in {n + 1} : ClaimsIt(env, r)}
  <2>1. \A c \in 1..n : c \in Claims(log', r, HeadOf(log')) <=> c \in Claims(log, r, HeadOf(log))
    BY <1>1, <1>2, <1>3, <1>5
  <2>2. n + 1 \in Claims(log', r, HeadOf(log')) <=> ClaimsIt(env, r)
    BY <1>1, <1>3, <1>5 DEF ClaimsIt
  <2>3. Claims(log', r, HeadOf(log')) \subseteq 1..(n + 1) /\ Claims(log, r, HeadOf(log)) \subseteq 1..n
    BY <1>2, <1>3
  <2> QED
    BY <1>4, <1>5, <2>1, <2>2, <2>3
<1>7. ASSUME NEW c \in Claims(log, r, HeadOf(log))
      PROVE  Renewed(log', r, HeadOf(log'), c) = Renewed(log, r, HeadOf(log), c)
  <2>1. c \in 1..n /\ log'[c] = log[c] /\ n + 1 \notin RefsOf(log[c], "supersedes")
    BY <1>1, <1>2
  <2>2. RefsOf(log'[c], "supersedes") \cap Claims(log', r, HeadOf(log'))
          = RefsOf(log[c], "supersedes") \cap Claims(log, r, HeadOf(log))
    BY <1>6, <2>1
  <2>3. \A t \in Claims(log, r, HeadOf(log)) : log'[t] = log[t]
    BY <1>1, <1>2
  <2> QED
    BY <2>1, <2>2, <2>3 DEF Renewed
<1> QED
  BY <1>1, <1>2, <1>6, <1>7 DEF Renewed, n

LEMMA HeadsGrow ==
    ASSUME IInv, NEW env, Joins(env), NEW r
    PROVE  /\ Heads(log', r, HeadOf(log')) \in SUBSET Nat
           /\ Heads(log, r, HeadOf(log)) \in SUBSET Nat
           /\ Heads(log, r, HeadOf(log)) = {h \in Heads(log', r, HeadOf(log')) : h <= Len(log)}
           /\ Heads(log', r, HeadOf(log')) \ Heads(log, r, HeadOf(log)) =
                 {c \in {Len(log) + 1} :
                     ClaimsIt(env, r) /\ Renewed(log', r, HeadOf(log'), c) = {}}
<1>1. Len(log) \in Nat
  BY GrownLog
<1>2. \A c \in Claims(log, r, HeadOf(log)) : c \in Nat /\ c <= Len(log)
  BY <1>1, ClaimsGrow
<1>3. Len(log) + 1 \in Nat /\ ~(Len(log) + 1 <= Len(log))
  BY <1>1
<1> QED
  BY <1>2, <1>3, ClaimsGrow DEF Heads

\* An envelope that renews no claim on r leaves every chain of claims on r where it
\* was; a claim of its own is a chain of one.
LEMMA LinksUnmoved ==
    ASSUME IInv, NEW env, Joins(env), NEW r,
           ~ClaimsIt(env, r) \/ RefsOf(env, "supersedes") = {}
    PROVE  /\ \A c \in Claims(log, r, HeadOf(log)) :
                 CurrentLink(log', r, HeadOf(log'), c) = CurrentLink(log, r, HeadOf(log), c)
           /\ ClaimsIt(env, r) =>
                 CurrentLink(log', r, HeadOf(log'), Len(log) + 1) = Len(log) + 1
<1> DEFINE old == Claims(log, r, HeadOf(log))
           new == Claims(log', r, HeadOf(log'))
<1>1. /\ old \subseteq 1..Len(log) /\ Len(log) \in Nat
      /\ new = old \cup {c \in {Len(log) + 1} : ClaimsIt(env, r)}
      /\ \A c \in old : Renewed(log', r, HeadOf(log'), c) = Renewed(log, r, HeadOf(log), c)
  BY ClaimsGrow, GrownLog
<1>2. Len(log) + 1 \in new => Renewed(log', r, HeadOf(log'), Len(log) + 1) = {}
  <2>1. Len(log) + 1 \in new => ClaimsIt(env, r)
    BY <1>1
  <2> QED
    BY <2>1, ClaimsGrow
<1>3. \A k : Renewals(log', r, HeadOf(log'), k) = Renewals(log, r, HeadOf(log), k)
  <2>1. \A k, c : c \in Renewals(log', r, HeadOf(log'), k) <=>
                   /\ c \in new /\ Renewed(log', r, HeadOf(log'), c) # {}
                   /\ k = Least(Renewed(log', r, HeadOf(log'), c))
    BY DEF Renewals
  <2>2. \A k, c : c \in Renewals(log, r, HeadOf(log), k) <=>
                   /\ c \in old /\ Renewed(log, r, HeadOf(log), c) # {}
                   /\ k = Least(Renewed(log, r, HeadOf(log), c))
    BY DEF Renewals
  <2>3. \A c : c \in new /\ Renewed(log', r, HeadOf(log'), c) # {} =>
                 c \in old
    BY <1>1, <1>2
  <2>4. old \subseteq new
    BY <1>1
  <2> HIDE DEF old, new
  <2>5. \A k, c : c \in Renewals(log', r, HeadOf(log'), k) <=> c \in Renewals(log, r, HeadOf(log), k)
    BY <1>1, <2>1, <2>2, <2>3, <2>4
  <2> QED
    BY <2>5
<1>4. Onward(Len(log), old, Links(log, r, HeadOf(log)))
  BY GrownLog, LinksOnward
<1>5. Onward(Len(log'), new, Links(log', r, HeadOf(log')))
  BY GrownLog, LinksOnward
<1> HIDE DEF old, new
<1>6. \A k \in old : Links(log', r, HeadOf(log'))[k] = Links(log, r, HeadOf(log))[k]
  BY <1>1, <1>3 DEF Links, old, new
<1>7. \A k \in old : Follow(Links(log', r, HeadOf(log')))[k] = Follow(Links(log, r, HeadOf(log)))[k]
  <2>1. old \subseteq new
    BY <1>1
  <2> QED
    BY <1>4, <1>5, <1>6, <2>1, FollowGrows
<1>8. ASSUME ClaimsIt(env, r)
      PROVE  Follow(Links(log', r, HeadOf(log')))[Len(log) + 1] = Len(log) + 1
  <2>1. Len(log) + 1 \in new
    BY <1>1, <1>8
  <2>2. Renewals(log, r, HeadOf(log), Len(log) + 1) = {}
    <3>1. \A c \in old : Len(log) + 1 # Least(Renewed(log, r, HeadOf(log), c))
                          \/ Renewed(log, r, HeadOf(log), c) = {}
      <4> TAKE c \in old
      <4>1. c \in 1..Len(log) /\ Renewed(log, r, HeadOf(log), c) \in SUBSET Nat
        BY <1>1, GrownLog, RenewedEarlier DEF old
      <4>2. \A t \in Renewed(log, r, HeadOf(log), c) : t < c
        BY GrownLog, RenewedEarlier DEF old
      <4>3. Renewed(log, r, HeadOf(log), c) # {} =>
              Least(Renewed(log, r, HeadOf(log), c)) \in Renewed(log, r, HeadOf(log), c)
        BY <4>1, LeastNat
      <4> QED
        BY <1>1, <4>1, <4>2, <4>3
    <3> QED
      BY <3>1 DEF Renewals, old
  <2>3. Links(log', r, HeadOf(log'))[Len(log) + 1] = {}
    BY <1>3, <2>1, <2>2 DEF Links, new
  <2> QED
    BY <1>5, <2>1, <2>3, FollowIs
<1> QED
  BY <1>7, <1>8 DEF CurrentLink, Links, old

LEMMA ReleasesGrow ==
    ASSUME IInv, NEW env, Joins(env), NEW l
    PROVE  /\ Releases(log, HeadOf(log), l) \subseteq 1..Len(log)
           /\ Releases(log', HeadOf(log'), l) =
                 Releases(log, HeadOf(log), l) \cup {x \in {Len(log) + 1} : EndsIt(env, l)}
           /\ Releases(log', HeadOf(log'), Len(log) + 1) = {}
<1> DEFINE n == Len(log)
<1>1. /\ n \in Nat /\ UpTo(log, HeadOf(log)) = 1..n /\ UpTo(log', HeadOf(log')) = 1..(n + 1)
      /\ \A i \in 1..n : log'[i] = log[i]
      /\ log'[n + 1] = env
      /\ \A i \in 1..n : n + 1 \notin RefsOf(log[i], "supersedes")
      /\ n + 1 \notin RefsOf(env, "supersedes")
  BY GrownLog
<1> HIDE DEF n
<1>2. \A t : Releases(log, HeadOf(log), t) = {x \in 1..n : EndsIt(log[x], t)}
  BY <1>1 DEF Releases, Inbound, EndsIt
<1>3. \A t : Releases(log', HeadOf(log'), t) = {x \in 1..(n + 1) : EndsIt(log'[x], t)}
  BY <1>1 DEF Releases, Inbound, EndsIt
<1>4. \A x \in 1..(n + 1) : x \in 1..n \/ x = n + 1
  BY <1>1
<1>5. n + 1 \in 1..(n + 1) /\ n + 1 \notin 1..n /\ 1..n \subseteq 1..(n + 1)
  BY <1>1
<1>6. Releases(log', HeadOf(log'), l) =
        Releases(log, HeadOf(log), l) \cup {x \in {n + 1} : EndsIt(env, l)}
  BY <1>1, <1>2, <1>3, <1>4, <1>5
<1>7. Releases(log', HeadOf(log'), n + 1) = {}
  BY <1>1, <1>3, <1>4 DEF EndsIt
<1> QED
  BY <1>2, <1>6, <1>7 DEF n

\* A hold whose chain is not renewed ends when it did, unless it is released before
\* its end.
LEMMA EndUnmoved ==
    ASSUME IInv, Chronicled, NEW env, Joins(env), env.ts = Truncate(now), NEW r,
           ~ClaimsIt(env, r) \/ RefsOf(env, "supersedes") = {},
           NEW h \in Claims(log, r, HeadOf(log)),
           EndsIt(env, CurrentLink(log, r, HeadOf(log), h)) =>
               LeaseEnd(log, r, HeadOf(log), h) <= Truncate(now)
    PROVE  LeaseEnd(log', r, HeadOf(log'), h) = LeaseEnd(log, r, HeadOf(log), h)
<1> DEFINE l == CurrentLink(log, r, HeadOf(log), h)
           R == Releases(log, HeadOf(log), l)
           S == Releases(log', HeadOf(log'), l)
<1>1. CurrentLink(log', r, HeadOf(log'), h) = l
  BY LinksUnmoved
<1>2. l \in Claims(log, r, HeadOf(log))
  BY GrownLog, LinkKeepsAuthor
<1>3. l \in 1..Len(log) /\ R \subseteq 1..Len(log)
  BY <1>2, ClaimsGrow, ReleasesGrow
<1>4. S = R \cup {x \in {Len(log) + 1} : EndsIt(env, l)}
  BY ReleasesGrow
<1>5. /\ Len(log) \in Nat /\ DOMAIN log = 1..Len(log)
      /\ \A i \in 1..Len(log) : log'[i] = log[i]
      /\ log'[Len(log) + 1] = env
  BY GrownLog
<1>6. /\ LeaseEnd(log, r, HeadOf(log), h) = LinkEnd(log, l, R)
      /\ LeaseEnd(log', r, HeadOf(log'), h) = LinkEnd(log', l, S)
  BY <1>1 DEF LeaseEnd, EndOfLink
<1>7. Truncate(now) \in Nat
  BY Truncation DEF IInv, TypeOK
<1>8. /\ LinkEnd(log, l, R) \in Nat /\ log[l].lease_until \in Nat
      /\ R = {} => LinkEnd(log, l, R) = log[l].lease_until
  <2>1. log \in Seq(Envelope) /\ \A i \in DOMAIN log : log[i].ts \in Nat
    BY GrownLog DEF Chronicled
  <2> HIDE DEF l, R
  <2> QED
    BY <1>3, <1>5, <2>1, LinkEndIs
<1> DEFINE first(T) == {s \in T : \A t \in T : s <= t}
           ends(L, T) == {L[l].lease_until} \cup {L[s].ts : s \in first(T)}
<1>9. LinkEnd(log, l, R) = Least(ends(log, R)) /\ LinkEnd(log', l, S) = Least(ends(log', S))
  BY DEF LinkEnd
<1>10. ends(log', R) = ends(log, R)
  <2>1. log'[l] = log[l] /\ \A s \in first(R) : log'[s] = log[s]
    BY <1>3, <1>5
  <2> QED
    BY <2>1
<1> HIDE DEF l, R, S
<1>11. CASE S = R
  BY <1>6, <1>9, <1>10, <1>11
<1>12. CASE S = R \cup {Len(log) + 1} /\ R # {}
  <2>1. first(S) = first(R)
    <3>1. \A s \in R : s \in Nat /\ s < Len(log) + 1
      BY <1>3, <1>5
    <3>2. \E s \in R : s < Len(log) + 1
      BY <1>12, <3>1
    <3>3. ~(Len(log) + 1 <= Len(log)) /\ Len(log) + 1 \notin first(S)
      BY <1>5, <1>12, <3>1, <3>2
    <3> QED
      BY <1>12, <3>1, <3>3
  <2>2. ends(log', S) = ends(log', R)
    BY <2>1
  <2> QED
    BY <1>6, <1>9, <1>10, <2>2
<1>13. CASE S = {Len(log) + 1} /\ R = {} /\ EndsIt(env, l)
  <2>1. log[l].lease_until <= Truncate(now)
    BY <1>6, <1>8, <1>13 DEF l
  <2>2. ends(log', S) = {log[l].lease_until, Truncate(now)}
    <3>1. first(S) = {Len(log) + 1}
      BY <1>5, <1>13
    <3>2. log'[l] = log[l] /\ log'[Len(log) + 1].ts = Truncate(now)
      BY <1>3, <1>5
    <3> QED
      BY <3>1, <3>2
  <2> HIDE DEF ends
  <2>3. ends(log', S) \in SUBSET Nat /\ ends(log', S) # {}
    BY <1>7, <1>8, <2>2
  <2>4. Least(ends(log', S)) \in ends(log', S) /\ \A y \in ends(log', S) : Least(ends(log', S)) <= y
    BY <2>3, LeastNat
  <2>5. Least(ends(log', S)) = log[l].lease_until
    BY <1>7, <1>8, <2>1, <2>2, <2>4
  <2> QED
    BY <1>6, <1>8, <1>9, <1>13, <2>5
<1> QED
  BY <1>4, <1>11, <1>12, <1>13

\* Where no admissible hold is renewed, or cut short, the earlier heads keep their
\* standing: one that was admitted stays so, one that was kept out stays out.
LEMMA HoldsStand ==
    ASSUME IInv, Chronicled, NEW env, Joins(env), env.ts = Truncate(now), NEW r,
           ~ClaimsIt(env, r) \/ RefsOf(env, "supersedes") = {},
           \A g \in Admissible(log, r, HeadOf(log)) :
               EndsIt(env, CurrentLink(log, r, HeadOf(log), g)) =>
                   LeaseEnd(log, r, HeadOf(log), g) <= Truncate(now)
    PROVE  /\ \A g \in Admissible(log, r, HeadOf(log)) :
                 LeaseEnd(log', r, HeadOf(log'), g) = LeaseEnd(log, r, HeadOf(log), g)
           /\ Admissible(log', r, HeadOf(log')) \cap Heads(log, r, HeadOf(log))
                 = Admissible(log, r, HeadOf(log))
           /\ Admissible(log, r, HeadOf(log)) \subseteq Heads(log, r, HeadOf(log))
<1> DEFINE heads == Heads(log, r, HeadOf(log))
           more == Heads(log', r, HeadOf(log'))
           blocks == {p \in heads \X heads : Runs(log, r, HeadOf(log), p[1], log[p[2]].ts)}
           moreBlocks == {p \in more \X more : Runs(log', r, HeadOf(log'), p[1], log'[p[2]].ts)}
<1>1. \A g \in Admissible(log, r, HeadOf(log)) :
        LeaseEnd(log', r, HeadOf(log'), g) = LeaseEnd(log, r, HeadOf(log), g)
  BY HoldType, EndUnmoved
<1>2. /\ heads \in SUBSET Nat /\ more \in SUBSET Nat
      /\ heads = {h \in more : h <= Len(log)} /\ Len(log) \in Nat
  BY HeadsGrow, GrownLog
<1>3. /\ Admissible(log, r, HeadOf(log)) = Unblocked(heads, blocks)
      /\ Admissible(log', r, HeadOf(log')) = Unblocked(more, moreBlocks)
  BY DEF Admissible
<1>4. heads \subseteq 1..Len(log) /\ \A h \in heads : log'[h] = log[h]
  BY GrownLog, ClaimsGrow DEF Heads
<1>5. Unblocked(heads, blocks) \subseteq heads
  <2> HIDE DEF heads, blocks
  <2> QED
    BY <1>2, UnblockedIs
<1>6. ASSUME NEW g \in Unblocked(heads, blocks), NEW h \in heads
      PROVE  <<g, h>> \in blocks <=> <<g, h>> \in moreBlocks
  <2>1. g \in heads /\ g \in more /\ h \in more /\ g \in Admissible(log, r, HeadOf(log))
    BY <1>2, <1>3, <1>5, <1>6
  <2>2. Runs(log, r, HeadOf(log), g, log[h].ts) <=> Runs(log', r, HeadOf(log'), g, log'[h].ts)
    BY <1>1, <1>4, <2>1 DEF Runs
  <2> QED
    BY <1>6, <2>1, <2>2
<1> HIDE DEF heads, more, blocks, moreBlocks
<1>7. Unblocked(heads, blocks) = Unblocked(more, moreBlocks) \cap heads
  BY <1>2, <1>6, UnblockedGrows
<1> QED
  BY <1>1, <1>3, <1>5, <1>7 DEF heads

\* What the gate asks of a post, said of the envelope it becomes: a claim is of
\* nothing that another holds, and who releases what another wrote is a desk.
LEMMA PostedByRule ==
    ASSUME IInv, NEW d \in Drafts, Post(d)
    PROVE  \E env :
              /\ Joins(env) /\ env.ts = Truncate(now)
              /\ now' = now /\ Posted = env
              /\ \A r : ClaimsIt(env, r) =>
                     LET h == LiveHolder(log, r, HeadOf(log), now)
                     IN  h # NoHold => log[h].author = env.author
              /\ \A l \in RefsOf(env, "supersedes") :
                     log[l].author = env.author \/ BandRank[env.band] >= 4
<1> DEFINE env == Sequenced(d, BandOf(d), now)
<1>1. Joins(env)
  BY PostJoins
<1>2. /\ env.ts = Truncate(now) /\ env.author = d.author /\ env.type = d.type
      /\ env.band = BandOf(d) /\ env.refs = d.refs
  BY DEF Sequenced
<1> HIDE DEF env
<1>3. \A e : RefsOf(env, e) = RefsOf(d, e)
  BY <1>2 DEF RefsOf
<1>4. Accepts(d) /\ now' = now
  BY DEF Post
<1>5. Posted = env
  <2>1. Len(log') = Len(log) + 1 /\ log'[Len(log) + 1] = env
    BY <1>1, LogGrows DEF IInv, TypeOK, Joins
  <2> QED
    BY <2>1 DEF Posted
<1>6. ASSUME NEW r, ClaimsIt(env, r)
      PROVE  LET h == LiveHolder(log, r, HeadOf(log), now)
             IN  h # NoHold => log[h].author = env.author
  <2>1. NotHeldByAnother(d) /\ d.type = "CLAIM" /\ r \in RefsOf(d, "claims")
    BY <1>2, <1>3, <1>4, <1>6 DEF Accepts, ClaimsIt
  <2> QED
    BY <1>2, <2>1 DEF NotHeldByAnother
<1>7. \A l \in RefsOf(env, "supersedes") : log[l].author = env.author \/ BandRank[env.band] >= 4
  BY <1>2, <1>3, <1>4 DEF Accepts, MayPost
<1> QED
  BY <1>1, <1>2, <1>4, <1>5, <1>6, <1>7

\* A live holder is a live hold, and the only one.
LEMMA HolderIs ==
    ASSUME IInv, Chronicled, NEW r, NEW when \in Nat
    PROVE  /\ LiveHolder(log, r, HeadOf(log), when) # NoHold =>
                 LiveAt(log, r, HeadOf(log), when) = {LiveHolder(log, r, HeadOf(log), when)}
           /\ LiveHolder(log, r, HeadOf(log), when) = NoHold =>
                 LiveAt(log, r, HeadOf(log), when) = {}
<1> DEFINE live == LiveAt(log, r, HeadOf(log), when)
<1>1. live \in SUBSET Nat /\ \A h \in live : h # 0
  <2>1. DOMAIN log = 1..Len(log) /\ Len(log) \in Nat
    BY LenProperties DEF IInv, TypeOK
  <2> QED
    BY <2>1, HoldType DEF LiveAt
<1>2. \A g, h \in live : g = h
  BY AtMostOneHold
<1> HIDE DEF live
<1>3. live # {} => Least(live) \in live
  BY <1>1, LeastNat
<1>4. LiveHolder(log, r, HeadOf(log), when) = IF live = {} THEN NoHold ELSE Least(live)
  BY DEF LiveHolder, Foremost, live
<1> QED
  BY <1>1, <1>2, <1>3, <1>4 DEF NoHold, live

\* The singleton's least is its element.
LEMMA LeastOfOne ==
    ASSUME NEW h \in Nat
    PROVE  Least({h}) = h
<1>1. Least({h}) \in {h}
  BY LeastNat
<1> QED
  BY <1>1

\* While a hold is live nobody but its holder ends it, shortens it, extends it or
\* takes its place, but for a desk's release: the clock that the gate reads and the
\* truncated stamps that the resolution reads never disagree about it.
THEOREM HoldsAreKept == Spec => HoldIsKept
<1> DEFINE Kept(r) ==
             /\ now' = now /\ log' # log
             /\ Holder(r) # NoHold
             /\ Posted.author # log[Holder(r)].author
             /\ ~(Posted.released /\ BandRank[Posted.band] >= BandRank["desk"])
             => /\ Holder(r)' = Holder(r)
                /\ LeaseEnd(log, r, HeadOf(log), Holder(r))' =
                       LeaseEnd(log, r, HeadOf(log), Holder(r))
<1>1. IInv /\ Chronicled /\ [Next]_vars => \A r \in Referents : Kept(r)
  <2>1. SUFFICES ASSUME IInv, Chronicled, [Next]_vars, NEW r \in Referents,
                        now' = now, log' # log, Holder(r) # NoHold,
                        Posted.author # log[Holder(r)].author,
                        ~(Posted.released /\ BandRank[Posted.band] >= BandRank["desk"])
                 PROVE  /\ Holder(r)' = Holder(r)
                        /\ LeaseEnd(log', r, HeadOf(log'), Holder(r)') =
                               LeaseEnd(log, r, HeadOf(log), Holder(r))
    OBVIOUS
  <2>2. PICK d \in Drafts : Post(d)
    <3>1. ~ \E policy \in GenesisPolicies : Genesis(policy)
      BY <2>1 DEF Genesis, Referents
    <3> QED
      BY <2>1, <3>1 DEF Next, Tick, vars
  <2>3. PICK env :
          /\ Joins(env) /\ env.ts = Truncate(now)
          /\ now' = now /\ Posted = env
          /\ \A x : ClaimsIt(env, x) =>
                 LET h == LiveHolder(log, x, HeadOf(log), now)
                 IN  h # NoHold => log[h].author = env.author
          /\ \A l \in RefsOf(env, "supersedes") :
                 log[l].author = env.author \/ BandRank[env.band] >= 4
    BY <2>1, <2>2, PostedByRule
  <2> DEFINE h == LiveHolder(log, r, HeadOf(log), now)
  <2>4. h # NoHold /\ Holder(r) = h /\ log[h].author # env.author
    BY <2>1, <2>3 DEF Holder
  <2>5. now \in Nat /\ Truncate(now) \in Nat /\ Truncate(now) <= now
    BY <2>1, Truncation DEF IInv, TypeOK
  <2>6. LiveAt(log, r, HeadOf(log), now) = {h}
    BY <2>1, <2>4, <2>5, HolderIs
  <2> HIDE DEF h
  <2>7. ~ClaimsIt(env, r)
    BY <2>3, <2>4 DEF h
  <2>8. /\ h \in Admissible(log, r, HeadOf(log))
        /\ log[h].ts <= now /\ now < LeaseEnd(log, r, HeadOf(log), h)
    BY <2>6 DEF LiveAt, Runs
  <2>9. \A g \in Admissible(log, r, HeadOf(log)) :
          /\ g \in Claims(log, r, HeadOf(log)) /\ g \in DOMAIN log /\ g \in Nat
          /\ log[g].ts \in Nat /\ LeaseEnd(log, r, HeadOf(log), g) \in Nat
          /\ log[g].ts <= Truncate(now)
    BY <2>1, HoldType DEF Chronicled
  <2>10. ASSUME NEW g \in Admissible(log, r, HeadOf(log)),
                EndsIt(env, CurrentLink(log, r, HeadOf(log), g))
         PROVE  LeaseEnd(log, r, HeadOf(log), g) <= Truncate(now)
    <3>1. BandRank["desk"] = 4
      BY DEF BandRank, Band
    <3>2. /\ env.released
          /\ CurrentLink(log, r, HeadOf(log), g) \in RefsOf(env, "supersedes")
      BY <2>10 DEF EndsIt
    <3>3. log[CurrentLink(log, r, HeadOf(log), g)].author = env.author
      BY <2>1, <2>3, <3>1, <3>2
    <3>4. log[g].author = env.author
      BY <2>1, <2>3, <2>9, <3>3, GrownLog, LinkKeepsAuthor
    <3>5. g # h
      BY <2>4, <3>4
    <3>6. ~(h < g)
      <4>1. SUFFICES ASSUME h < g PROVE FALSE
        OBVIOUS
      <4>2. LeaseEnd(log, r, HeadOf(log), h) <= log[g].ts
        BY <2>1, <2>8, <4>1, HoldsInTurn
      <4> QED
        BY <2>5, <2>8, <2>9, <4>2
    <3>7. LeaseEnd(log, r, HeadOf(log), g) <= log[h].ts
      BY <2>1, <2>8, <2>9, <3>5, <3>6, HoldsInTurn
    <3> QED
      BY <2>5, <2>8, <2>9, <3>7
  <2>11. /\ \A g \in Admissible(log, r, HeadOf(log)) :
               LeaseEnd(log', r, HeadOf(log'), g) = LeaseEnd(log, r, HeadOf(log), g)
         /\ Admissible(log', r, HeadOf(log')) \cap Heads(log, r, HeadOf(log))
               = Admissible(log, r, HeadOf(log))
    BY <2>1, <2>3, <2>7, <2>10, HoldsStand
  <2>12. Admissible(log', r, HeadOf(log')) = Admissible(log, r, HeadOf(log))
    <3>1. Heads(log', r, HeadOf(log')) = Heads(log, r, HeadOf(log))
      BY <2>1, <2>3, <2>7, HeadsGrow
    <3>2. Admissible(log', r, HeadOf(log')) \subseteq Heads(log', r, HeadOf(log'))
      <4>1. Heads(log', r, HeadOf(log')) \in SUBSET Nat
        BY <2>1, <2>3, HeadsGrow
      <4> QED
        BY <4>1, AdmissibleIs
    <3> QED
      BY <2>11, <3>1, <3>2
  <2>13. LiveAt(log', r, HeadOf(log'), now) = {h}
    <3>1. \A g \in Admissible(log, r, HeadOf(log)) :
            Runs(log', r, HeadOf(log'), g, now) <=> Runs(log, r, HeadOf(log), g, now)
      BY <2>1, <2>3, <2>9, <2>11, GrownLog DEF Runs
    <3> QED
      BY <2>6, <2>12, <3>1 DEF LiveAt
  <2>14. Holder(r)' = h
    <3>1. LiveHolder(log', r, HeadOf(log'), now) = Least({h})
      BY <2>13 DEF LiveHolder, Foremost
    <3> QED
      BY <2>3, <2>8, <2>9, <3>1, LeastOfOne DEF Holder
  <2> QED
    BY <2>4, <2>8, <2>11, <2>14
<1>2. Spec => [][\A r \in Referents : Kept(r)]_vars
  BY <1>1, AlwaysChronicled, PTL DEF Spec
<1> QED
  BY <1>2 DEF HoldIsKept

\* Who claims free work has it from that moment.
THEOREM FreeWorkGoesToTheClaimant == Spec => FreeWorkIsWon
<1> DEFINE Won(r) ==
             /\ now' = now /\ log' # log
             /\ Posted.type = "CLAIM" /\ r \in RefsOf(Posted, "claims")
             /\ RefsOf(Posted, "supersedes") = {}
             /\ Posted.lease_until > now
             /\ LiveHolder(log, r, HeadOf(log), Posted.ts) = NoHold
             => Holder(r)' = Len(log')
<1>1. IInv /\ Chronicled /\ [Next]_vars => \A r \in Referents : Won(r)
  <2>1. SUFFICES ASSUME IInv, Chronicled, [Next]_vars, NEW r \in Referents,
                        now' = now, log' # log,
                        Posted.type = "CLAIM", r \in RefsOf(Posted, "claims"),
                        RefsOf(Posted, "supersedes") = {},
                        Posted.lease_until > now,
                        LiveHolder(log, r, HeadOf(log), Posted.ts) = NoHold
                 PROVE  Holder(r)' = Len(log')
    OBVIOUS
  <2>2. PICK env : Joins(env) /\ env.ts = Truncate(now)
    BY <2>1, StepStamps
  <2> DEFINE n == Len(log)
  <2>3. /\ HeadOf(log') = n + 1 /\ n \in Nat /\ log'[n + 1] = env
        /\ \A i \in 1..n : log'[i] = log[i]
        /\ DOMAIN log = 1..n
        /\ Len(log') = n + 1
        /\ env \in Envelope
    BY <2>1, <2>2, GrownLog DEF HeadOf, Joins
  <2>4. Posted = env
    BY <2>3 DEF Posted
  <2> HIDE DEF n
  <2>5. ClaimsIt(env, r) /\ RefsOf(env, "supersedes") = {}
    BY <2>1, <2>4 DEF ClaimsIt
  <2>6. now \in Nat /\ Truncate(now) \in Nat /\ Truncate(now) <= now
    BY <2>1, Truncation DEF IInv, TypeOK
  <2>7. LiveAt(log, r, HeadOf(log), Truncate(now)) = {}
    BY <2>1, <2>2, <2>4, <2>6, HolderIs
  <2>8. \A g \in Admissible(log, r, HeadOf(log)) :
          /\ g \in DOMAIN log /\ g \in Nat
          /\ log[g].ts \in Nat /\ LeaseEnd(log, r, HeadOf(log), g) \in Nat
          /\ log[g].ts <= Truncate(now)
          /\ LeaseEnd(log, r, HeadOf(log), g) <= Truncate(now)
    <3> TAKE g \in Admissible(log, r, HeadOf(log))
    <3>1. /\ g \in DOMAIN log /\ g \in Nat
          /\ log[g].ts \in Nat /\ LeaseEnd(log, r, HeadOf(log), g) \in Nat
          /\ log[g].ts <= Truncate(now)
      BY <2>1, HoldType DEF Chronicled
    <3>2. ~Runs(log, r, HeadOf(log), g, Truncate(now))
      BY <2>7 DEF LiveAt
    <3> QED
      BY <2>6, <3>1, <3>2 DEF Runs
  <2>9. /\ \A g \in Admissible(log, r, HeadOf(log)) :
               LeaseEnd(log', r, HeadOf(log'), g) = LeaseEnd(log, r, HeadOf(log), g)
        /\ Admissible(log', r, HeadOf(log')) \cap Heads(log, r, HeadOf(log))
               = Admissible(log, r, HeadOf(log))
    BY <2>1, <2>2, <2>5, <2>8, HoldsStand
  <2>10. /\ Heads(log', r, HeadOf(log')) \in SUBSET Nat
         /\ n + 1 \in Heads(log', r, HeadOf(log'))
         /\ Heads(log', r, HeadOf(log')) \subseteq Heads(log, r, HeadOf(log)) \cup {n + 1}
    BY <2>1, <2>2, <2>5, HeadsGrow, ClaimsGrow DEF n
  <2>11. \A g \in Admissible(log, r, HeadOf(log)) :
           /\ ~Runs(log', r, HeadOf(log'), g, Truncate(now))
           /\ ~Runs(log', r, HeadOf(log'), g, now)
    BY <2>6, <2>8, <2>9 DEF Runs
  <2>12. n + 1 \in Admissible(log', r, HeadOf(log'))
    <3>1. \A g \in Admissible(log', r, HeadOf(log')) :
            g < n + 1 => g \in Admissible(log, r, HeadOf(log))
      <4>1. Admissible(log', r, HeadOf(log')) \subseteq Heads(log', r, HeadOf(log'))
        BY <2>10, AdmissibleIs
      <4>2. ~(n + 1 < n + 1)
        BY <2>3
      <4> QED
        BY <2>9, <2>10, <4>1, <4>2
    <3>2. log'[n + 1].ts = Truncate(now)
      BY <2>2, <2>3
    <3> QED
      BY <2>10, <2>11, <3>1, <3>2, AdmissibleIs
  <2>13. LeaseEnd(log', r, HeadOf(log'), n + 1) = env.lease_until
    <3>1. CurrentLink(log', r, HeadOf(log'), n + 1) = n + 1
      BY <2>1, <2>2, <2>5, LinksUnmoved DEF n
    <3>2. Releases(log', HeadOf(log'), n + 1) = {}
      BY <2>1, <2>2, ReleasesGrow DEF n
    <3>3. LeaseEnd(log', r, HeadOf(log'), n + 1) = Least({env.lease_until})
      BY <2>3, <3>1, <3>2 DEF LeaseEnd, EndOfLink, LinkEnd
    <3> QED
      BY <2>3, <3>3, LeastOfOne DEF Envelope
  <2>14. Runs(log', r, HeadOf(log'), n + 1, now)
    BY <2>1, <2>2, <2>3, <2>4, <2>6, <2>13 DEF Runs, Envelope
  <2>15. LiveAt(log', r, HeadOf(log'), now) = {n + 1}
    <3>1. \A g \in Admissible(log', r, HeadOf(log')) :
            g # n + 1 => g \in Admissible(log, r, HeadOf(log))
      <4>1. Admissible(log', r, HeadOf(log')) \subseteq Heads(log', r, HeadOf(log'))
        BY <2>10, AdmissibleIs
      <4> QED
        BY <2>9, <2>10, <4>1
    <3> QED
      BY <2>11, <2>12, <2>14, <3>1 DEF LiveAt
  <2>16. LiveHolder(log', r, HeadOf(log'), now) = Least({n + 1})
    BY <2>15 DEF LiveHolder, Foremost
  <2> QED
    BY <2>1, <2>3, <2>16, LeastOfOne DEF Holder
<1>2. Spec => [][\A r \in Referents : Won(r)]_vars
  BY <1>1, AlwaysChronicled, PTL DEF Spec
<1> QED
  BY <1>2 DEF FreeWorkIsWon

-----------------------------------------------------------------------------
(* Who supersedes what another wrote.                                      *)

\* The inductive part: whoever superseded what another wrote had a desk's rank where it
\* posted, and whoever took back a stamp was a person.
SupersedersHadTheRank ==
    \A k \in 2..Len(log) : \A t \in RefsOf(log[k], "supersedes") :
        /\ log[t].author = log[k].author \/ BandRank[log[k].band] >= 4
        /\ log[t].type = "STAMP" => log[k].band = "human"

\* SupersedesAreAuthorized for what is superseded from its own namespace.
SupersedesAreAuthorizedAtHome ==
    \A k \in 2..Len(log) : \A t \in RefsOf(log[k], "supersedes") :
        log[t].ns = log[k].ns =>
            \/ log[t].author = log[k].author
            \/ LET band == EffectiveBand(entries, log[k].author, log[t].ns, k - 1)
               IN  band # NoBand /\ BandRank[band] >= BandRank["desk"]

\* The gate asks this of every post, and what it asked about does not change.
LEMMA NextKeepsRank ==
    IInv /\ SupersedersHadTheRank /\ [Next]_vars => SupersedersHadTheRank'
<1> SUFFICES ASSUME IInv, SupersedersHadTheRank, [Next]_vars PROVE SupersedersHadTheRank'
  OBVIOUS
<1>1. Len(log) \in Nat
  BY LenProperties DEF IInv, TypeOK
<1>2. CASE \E policy \in GenesisPolicies : Genesis(policy)
  <2>1. Len(log') = 1
    BY <1>2 DEF Genesis
  <2> QED
    BY <2>1 DEF SupersedersHadTheRank
<1>3. CASE \E d \in Drafts : Post(d)
  <2>1. PICK d \in Drafts : Post(d)
    BY <1>3
  <2> DEFINE env == Sequenced(d, BandOf(d), now)
  <2>2. Joins(env)
    BY <2>1, PostJoins
  <2>3. /\ env.refs = d.refs /\ env.author = d.author /\ env.band = BandOf(d)
        /\ RefsOf(env, "supersedes") = RefsOf(d, "supersedes")
    BY DEF Sequenced, RefsOf
  <2> HIDE DEF env
  <2>4. /\ DOMAIN log = 1..Len(log) /\ DOMAIN log' = 1..(Len(log) + 1)
        /\ \A i \in 1..Len(log) : log'[i] = log[i]
        /\ log'[Len(log) + 1] = env /\ Len(log') = Len(log) + 1
        /\ log' \in Seq(Envelope) /\ Shaped(log')
    BY <1>1, <2>2, GrownLog DEF HeadOf
  <2>5. \A t \in RefsOf(env, "supersedes") :
           /\ log[t].author = env.author \/ BandRank[env.band] >= 4
           /\ log[t].type = "STAMP" => env.band = "human"
    BY <2>1, <2>3 DEF Post, Accepts, MayPost
  <2>6. ASSUME NEW k \in 2..Len(log'), NEW t \in RefsOf(log'[k], "supersedes")
        PROVE  /\ log'[t].author = log'[k].author \/ BandRank[log'[k].band] >= 4
               /\ log'[t].type = "STAMP" => log'[k].band = "human"
    <3>1. t \in 1..Len(log) /\ t < k
      <4>1. k \in DOMAIN log' /\ k \in Nat /\ k <= Len(log) + 1
        BY <1>1, <2>4, <2>6
      <4>2. log'[k] \in Envelope
        BY <2>4, <4>1, ElementOfSeq
      <4>3. PICK r \in log'[k].refs : t = r.id
        BY <2>6 DEF RefsOf
      <4>4. r.id \in Nat \ {0}
        BY <4>2, <4>3 DEF Envelope
      <4>5. r.id < k
        BY <2>4, <4>1, <4>3 DEF Shaped
      <4> QED
        BY <1>1, <4>1, <4>3, <4>4, <4>5
    <3>2. CASE k \in 1..Len(log)
      BY <2>4, <2>6, <3>1, <3>2 DEF SupersedersHadTheRank
    <3>3. CASE k = Len(log) + 1
      BY <2>4, <2>5, <2>6, <3>1, <3>3
    <3> QED
      BY <1>1, <2>4, <2>6, <3>2, <3>3
  <2> QED
    BY <2>6 DEF SupersedersHadTheRank
<1>4. CASE Tick \/ UNCHANGED vars
  BY <1>4 DEF SupersedersHadTheRank, Tick, vars
<1> QED
  BY <1>2, <1>3, <1>4 DEF Next

\* docs/korax-protocol.md:619-621 holds of what is superseded from the namespace it was
\* posted in: whoever supersedes what another wrote there is of a desk's rank there, by
\* the law of that moment as the log tells it ever after.  validate._check_band looks at the
\* namespace of the new envelope, and run claiming_elsewhere shows what that lets through.
THEOREM SupersededAtHomeByADesk == Spec => []SupersedesAreAuthorizedAtHome
<1>1. Init => SupersedersHadTheRank
  BY DEF Init, SupersedersHadTheRank
<1>2. IInv /\ SupersedersHadTheRank => SupersedesAreAuthorizedAtHome
  <2>1. SUFFICES ASSUME IInv, SupersedersHadTheRank,
                        NEW k \in 2..Len(log), NEW t \in RefsOf(log[k], "supersedes"),
                        log[t].ns = log[k].ns, log[t].author # log[k].author
                 PROVE  LET band == EffectiveBand(entries, log[k].author, log[t].ns, k - 1)
                        IN  band # NoBand /\ BandRank[band] >= BandRank["desk"]
    BY DEF SupersedesAreAuthorizedAtHome
  <2>2. log[k].band = EffectiveBand(entries, log[k].author, log[t].ns, k - 1)
    BY <2>1 DEF IInv, BandsRecomputable
  <2>3. log[k].band \in Band /\ BandRank[log[k].band] >= 4
    <3>1. log \in Seq(Envelope) /\ k \in 1..Len(log)
      <4>1. log \in Seq(Envelope)
        BY <2>1 DEF IInv, TypeOK
      <4>2. Len(log) \in Nat
        BY <4>1, LenProperties
      <4> QED
        BY <2>1, <4>1, <4>2
    <3>2. log[k] \in Envelope
      BY <3>1, ElementOfSeq
    <3>3. BandRank[log[k].band] >= 4
      BY <2>1 DEF SupersedersHadTheRank
    <3> QED
      BY <3>2, <3>3 DEF Envelope
  <2>4. BandRank["desk"] = 4 /\ NoBand \notin Band
    BY DEF BandRank, Band, NoBand
  <2> QED
    BY <2>2, <2>3, <2>4
<1> QED
  BY <1>1, <1>2, InitIInv, NextKeepsIInv, NextKeepsRank, PTL DEF Spec

-----------------------------------------------------------------------------
(* What governs a namespace.                                               *)

\* Everything is under the root: the genesis law governs where nothing else does.
Rooted == log # << >> => \E e \in entries : e.ns = << >>

LEMMA NextKeepsRooted == IInv /\ Rooted /\ [Next]_vars => Rooted'
<1> SUFFICES ASSUME IInv, Rooted, [Next]_vars PROVE Rooted'
  OBVIOUS
<1>1. CASE \E policy \in GenesisPolicies : Genesis(policy)
  <2>1. PICK policy \in GenesisPolicies : Genesis(policy)
    BY <1>1
  <2> DEFINE env == Sequenced(GenesisDraft(policy), "human", now)
  <2>2. Joins(env)
    BY <2>1, GenesisJoins
  <2>3. /\ env.type = "POLICY" /\ env.band = "human" /\ env.ns = << >>
        /\ env.payload = policy
    BY DEF Sequenced, GenesisDraft
  <2> HIDE DEF env
  <2>4. IsPolicy(env.payload)
    <3>1. policy \in Policy
      BY ClientAssumption
    <3> QED
      BY <2>3, <3>1 DEF IsPolicy, Policy
  <2>5. log'[Len(log) + 1] = env /\ entries' = Apply(entries, log', Len(log) + 1)
    BY <2>2, LogGrows DEF IInv, TypeOK, Joins
  <2>6. entries' = entries \cup {Entry(log', Len(log) + 1, Len(log) + 1)}
    BY <2>3, <2>4, <2>5 DEF Apply
  <2>7. Entry(log', Len(log) + 1, Len(log) + 1).ns = << >>
    BY <2>3, <2>5 DEF Entry
  <2> QED
    BY <2>6, <2>7 DEF Rooted
<1>2. CASE \E d \in Drafts : Post(d)
  <2>1. log # << >> /\ entries \subseteq entries'
    BY <1>2, ApplyKeeps DEF Post
  <2> QED
    BY <2>1 DEF Rooted
<1>3. CASE Tick \/ UNCHANGED vars
  BY <1>3 DEF Rooted, Tick, vars
<1> QED
  BY <1>1, <1>2, <1>3 DEF Next

\* Of the entries that govern a namespace one prevails.
LEMMA PolicyOfAnEntry ==
    ASSUME NEW E \in SUBSET PolicyEntry, NEW ns \in Namespace, NEW o \in Nat,
           Governing(E, ns, o) # {}
    PROVE  \E e \in Governing(E, ns, o) : PolicyAt(E, ns, o) = e.policy
<1> DEFINE G == Governing(E, ns, o)
           prevails(e) == \A f \in G : Prevails(e, f)
<1>1. Len(ns) \in Nat
  BY ClientAssumption, LenProperties
<1>2. \A e \in G : /\ e.policy \in Policy
                   /\ Len(e.ns) \in Nat /\ Len(e.ns) <= Len(ns)
                   /\ e.effective_at \in Nat /\ e.effective_at <= o
  <2> TAKE e \in G
  <2>1. /\ e \in PolicyEntry /\ e.effective_at <= o /\ InSubtree(e.ns, ns)
    BY DEF Governing, InForce, Governs
  <2>2. e.ns \in Namespace /\ e.effective_at \in Nat /\ e.policy \in Policy
    BY <2>1 DEF PolicyEntry
  <2>3. Len(e.ns) \in Nat
    BY <2>2, ClientAssumption, LenProperties
  <2> QED
    BY <2>1, <2>2, <2>3 DEF InSubtree
<1>3. PICK x \in G : \A f \in G : Len(f.ns) <= Len(x.ns)
  <2> DEFINE S == {Len(ns) - Len(e.ns) : e \in G}
  <2>1. S \in SUBSET Nat /\ S # {}
    BY <1>1, <1>2
  <2>2. PICK m \in S : \A y \in S : m <= y
    BY <2>1, SmallestNat
  <2>3. PICK x \in G : m = Len(ns) - Len(x.ns)
    BY <2>2
  <2>4. \A f \in G : Len(ns) - Len(x.ns) <= Len(ns) - Len(f.ns)
    BY <2>2, <2>3
  <2> QED
    BY <1>1, <1>2, <2>4
<1>4. PICK e \in {f \in G : Len(f.ns) = Len(x.ns)} :
         \A f \in {g \in G : Len(g.ns) = Len(x.ns)} : f.effective_at <= e.effective_at
  <2> DEFINE T == {f \in G : Len(f.ns) = Len(x.ns)}
             S == {o - e.effective_at : e \in T}
  <2>1. S \in SUBSET Nat /\ S # {}
    BY <1>2
  <2>2. PICK m \in S : \A y \in S : m <= y
    BY <2>1, SmallestNat
  <2>3. PICK e \in T : m = o - e.effective_at
    BY <2>2
  <2>4. \A f \in T : o - e.effective_at <= o - f.effective_at
    BY <2>2, <2>3
  <2>5. T \subseteq G
    OBVIOUS
  <2>6. \A f \in T : f.effective_at \in Nat
    BY <1>2, <2>5
  <2> HIDE DEF T
  <2>7. \A f \in T : f.effective_at <= e.effective_at
    BY <2>3, <2>4, <2>6
  <2> QED
    BY <2>3, <2>7 DEF T
<1>5. e \in G /\ prevails(e)
  BY <1>2, <1>3, <1>4 DEF Prevails
<1> DEFINE c == CHOOSE f \in G : prevails(f)
<1>6. c \in G
  <2>1. \E f \in G : prevails(f)
    BY <1>5
  <2> HIDE DEF G, prevails
  <2> QED
    BY <2>1
<1>7. PolicyAt(E, ns, o) = c.policy
  BY DEF PolicyAt
<1> HIDE DEF c
<1> QED
  BY <1>6, <1>7

LEMMA PolicyAtType ==
    ASSUME NEW E \in SUBSET PolicyEntry, NEW ns \in Namespace, NEW o \in Nat,
           Governing(E, ns, o) # {}
    PROVE  PolicyAt(E, ns, o) \in Policy
BY PolicyOfAnEntry DEF Governing, InForce, PolicyEntry

\* Every namespace of a board that has its first envelope is governed.
LEMMA Governed ==
    ASSUME IInv, Rooted, log # << >>, NEW ns \in Namespace
    PROVE  RulesAt(ns) \in Rules
<1>1. Len(log) + 1 \in Nat /\ entries \in SUBSET PolicyEntry
  BY LenProperties DEF IInv, TypeOK
<1>2. PICK e \in entries : e.ns = << >>
  BY DEF Rooted
<1>3. InSubtree(<< >>, ns)
  <2>1. ns \in Seq(STRING)
    BY ClientAssumption
  <2> QED
    BY <2>1 DEF InSubtree
<1>4. e \in Governing(entries, ns, Len(log) + 1)
  BY <1>1, <1>2, <1>3 DEF Governing, InForce, Governs, IInv, LogShape, PolicyEntry
<1>5. PolicyAt(entries, ns, Len(log) + 1) \in Policy
  BY <1>1, <1>4, PolicyAtType
<1> QED
  BY <1>5 DEF RulesAt, NextId, Policy

-----------------------------------------------------------------------------
(* The requirement closure.                                                *)

\* What a query answers depends on the envelopes up to its offset alone.
LEMMA SameReads ==
    ASSUME NEW L, NEW M, NEW o, NEW q, UpTo(L, o) = UpTo(M, q),
           \A i \in UpTo(L, o) : L[i] = M[i]
    PROVE  /\ \A ns : CanonPins(L, ns, o) = CanonPins(M, ns, q)
           /\ \A i : CurrentVersion(L, i, o) = CurrentVersion(M, i, q)
           /\ \A a : AckSet(L, a, o) = AckSet(M, a, q)
<1> DEFINE U == UpTo(L, o)
<1>1. \A t, e : Inbound(L, t, e, o) = Inbound(M, t, e, q)
  BY DEF Inbound
<1>2. \A i : Superseded(L, i, o) <=> Superseded(M, i, q)
  BY <1>1 DEF Superseded
<1>3. ActsIn(L, "PIN", o) = ActsIn(M, "PIN", q) /\ ActsIn(L, "PIN", o) \subseteq U
  BY DEF ActsIn
<1>4. \A ns : CanonPins(L, ns, o) = CanonPins(M, ns, q)
  BY <1>2, <1>3 DEF CanonPins
<1>5. [k \in UpTo(L, o) |-> Inbound(L, k, "supersedes", o)]
        = [k \in UpTo(M, q) |-> Inbound(M, k, "supersedes", q)]
  BY <1>1
<1>6. \A i : CurrentVersion(L, i, o) = CurrentVersion(M, i, q)
  BY <1>5 DEF CurrentVersion
<1>7. \A a : AckSet(L, a, o) = AckSet(M, a, q)
  <2> TAKE a
  <2> DEFINE mine  == {k \in UpTo(L, o) : L[k].author = a}
             yours == {k \in UpTo(M, q) : M[k].author = a}
  <2>1. mine = yours
    OBVIOUS
  <2>2. \A i \in mine : RefsOf(L[i], "acks") = RefsOf(M[i], "acks")
    OBVIOUS
  <2> HIDE DEF mine, yours
  <2>3. UNION {RefsOf(L[i], "acks") : i \in mine} = UNION {RefsOf(M[i], "acks") : i \in yours}
    BY <2>1, <2>2
  <2> QED
    BY <2>3 DEF AckSet, mine, yours
<1> QED
  BY <1>4, <1>6, <1>7

\* The versions of a document are documents of the log.
LEMMA VersionType ==
    ASSUME NEW L \in Seq(Envelope), Shaped(L), NEW o, UpTo(L, o) = DOMAIN L, NEW i \in DOMAIN L
    PROVE  CurrentVersion(L, i, o) \in DOMAIN L
<1> DEFINE D    == DOMAIN L
           next == [k \in D |-> Inbound(L, k, "supersedes", o)]
<1>1. Len(L) \in Nat /\ D = 1..Len(L)
  BY LenProperties
<1>2. next \in [D -> SUBSET D]
  BY DEF Inbound
<1>3. \A k \in D : \A j \in next[k] : k < j
  BY DEF Inbound, RefsOf, Shaped
<1>4. Onward(Len(L), D, next)
  BY <1>1, <1>2, <1>3 DEF Onward
<1>5. \A k \in D : next[k] # {} => Greatest(next[k]) \in D
  BY <1>4, NextLink
<1> HIDE DEF next
<1>6. Follow(next)[i] \in D
  BY <1>4, <1>5, FollowEnds
<1> QED
  BY <1>6 DEF CurrentVersion, next

\* Edges stay within the log.
LEMMA EdgesWithin ==
    ASSUME NEW L \in Seq(Envelope), Shaped(L), NEW i \in DOMAIN L, NEW e
    PROVE  RefsOf(L[i], e) \subseteq DOMAIN L
<1>1. Len(L) \in Nat /\ DOMAIN L = 1..Len(L) /\ L[i] \in Envelope
  BY LenProperties, ElementOfSeq
<1>2. \A r \in L[i].refs : r.id \in Nat \ {0}
  BY <1>1 DEF Envelope
<1>3. \A r \in L[i].refs : r.id < i
  BY DEF Shaped
<1>4. \A r \in L[i].refs : r.id \in DOMAIN L
  BY <1>1, <1>2, <1>3
<1> QED
  BY <1>4 DEF RefsOf

LEMMA PrerequisitesType ==
    ASSUME NEW L \in Seq(Envelope), Shaped(L), NEW o, UpTo(L, o) = DOMAIN L, NEW i \in DOMAIN L
    PROVE  Prerequisites(L, i, o) \subseteq DOMAIN L
  BY EdgesWithin, VersionType DEF Prerequisites, CurrentVersions

\* What Expand's recursion asks for.
AreLayers(layer, L, o, seen, seeds, start, budget) ==
    layer =
        [k \in Nat |->
            IF k < start THEN {}
            ELSE IF k = start
            THEN {i \in seeds : Closer(seen, i, k)}
            ELSE {i \in UNION {Prerequisites(L, j, o) : j \in layer[k - 1]} :
                    /\ k <= budget
                    /\ Closer(seen, i, k)
                    /\ \A m \in start..(k - 1) : i \notin layer[m]}]

\* There are layers.
LEMMA LayersExist ==
    ASSUME NEW L \in Seq(Envelope), Shaped(L), NEW o, UpTo(L, o) = DOMAIN L,
           NEW seen, NEW seeds \in SUBSET (DOMAIN L), NEW start \in Nat, NEW budget \in Nat
    PROVE  \E layer : AreLayers(layer, L, o, seen, seeds, start, budget)
<1> DEFINE V    == SUBSET (DOMAIN L)
           rank == [k \in Nat |-> k]
           Next0(k, f) ==
              {i \in UNION {Prerequisites(L, j, o) : j \in f[k - 1]} :
                  /\ k <= budget
                  /\ Closer(seen, i, k)
                  /\ \A m \in start..(k - 1) : i \notin f[m]}
           First0(k) == {i \in seeds : Closer(seen, i, k)}
           step == [k \in Nat |->
                      [r \in [Below(Nat, rank, k) -> V] |->
                         IF k < start THEN {} ELSE IF k = start THEN First0(k) ELSE Next0(k, r)]]
<1>1. rank \in [Nat -> Nat]
  OBVIOUS
<1>2. \A k \in Nat : Below(Nat, rank, k) = {j \in Nat : j < k}
  BY DEF Below
<1>3. \A k \in Nat : \A r \in [Below(Nat, rank, k) -> V] :
         step[k][r] = IF k < start THEN {} ELSE IF k = start THEN First0(k) ELSE Next0(k, r)
  OBVIOUS
<1>4. \A k \in Nat : First0(k) \in V
  OBVIOUS
<1>5. \A k \in Nat : \A r \in [Below(Nat, rank, k) -> V] :
         ~(k < start) /\ k # start => Next0(k, r) \in V
  <2> TAKE k \in Nat
  <2> TAKE r \in [Below(Nat, rank, k) -> V]
  <2>1. SUFFICES ASSUME ~(k < start), k # start PROVE Next0(k, r) \in V
    OBVIOUS
  <2>2. k - 1 \in Below(Nat, rank, k)
    BY <1>2, <2>1
  <2>3. r[k - 1] \in SUBSET (DOMAIN L)
    BY <2>2
  <2>4. \A j \in r[k - 1] : Prerequisites(L, j, o) \subseteq DOMAIN L
    BY <2>3, PrerequisitesType
  <2> QED
    BY <2>4
<1> HIDE DEF rank, step, First0, Next0
<1>6. \A k \in Nat : \A r \in [Below(Nat, rank, k) -> V] : step[k][r] \in V
  <2>1. {} \in V
    OBVIOUS
  <2> HIDE DEF V
  <2> QED
    BY <1>3, <1>4, <1>5, <2>1
<1>7. PICK layer \in [Nat -> V] : \A k \in Nat : layer[k] = step[k][Earlier(Nat, rank, layer, k)]
  <2> HIDE DEF V
  <2>1. Solvable(Nat, V, rank, step)
    BY <1>1, <1>6, RecursionByRank
  <2> QED
    BY <2>1 DEF Solvable
<1>8. \A k \in Nat :
         layer[k] = IF k < start THEN {} ELSE IF k = start THEN First0(k) ELSE Next0(k, layer)
  <2> TAKE k \in Nat
  <2> DEFINE r == Earlier(Nat, rank, layer, k)
  <2> HIDE DEF V
  <2>1. r \in [Below(Nat, rank, k) -> V]
    BY DEF Earlier, Below
  <2>2. layer[k] = IF k < start THEN {} ELSE IF k = start THEN First0(k) ELSE Next0(k, r)
    BY <1>3, <1>7, <2>1
  <2>3. \A j \in Nat : j < k => r[j] = layer[j]
    BY <1>2 DEF Earlier
  <2> HIDE DEF r
  <2>4. ~(k < start) /\ k # start => Next0(k, r) = Next0(k, layer)
    <3>1. SUFFICES ASSUME ~(k < start), k # start PROVE Next0(k, r) = Next0(k, layer)
      OBVIOUS
    <3>2. k - 1 \in Nat /\ k - 1 < k /\ \A m \in start..(k - 1) : m \in Nat /\ m < k
      BY <3>1
    <3>3. r[k - 1] = layer[k - 1] /\ \A m \in start..(k - 1) : r[m] = layer[m]
      BY <2>3, <3>2
    <3> QED
      BY <3>3 DEF Next0
  <2> QED
    BY <2>2, <2>4
<1>9. layer = [k \in Nat |->
                 IF k < start THEN {} ELSE IF k = start THEN First0(k) ELSE Next0(k, layer)]
  BY <1>7, <1>8
<1> QED
  BY <1>9 DEF First0, Next0, AreLayers

\* A document that an expansion meets anew, at the depth at says: seeds are met
\* first, what a document requires one deeper, unless it was met closer before.
Reaches(L, o, seen, seeds, start, budget, at) ==
    /\ DOMAIN at \subseteq DOMAIN L /\ at \in [DOMAIN at -> Nat]
    /\ \A i \in DOMAIN at : Closer(seen, i, at[i])
    /\ \A i \in seeds : Closer(seen, i, start) => i \in DOMAIN at /\ at[i] = start
    /\ \A i \in DOMAIN at :
          \/ at[i] = start /\ i \in seeds
          \/ /\ at[i] <= budget
             /\ \E j \in DOMAIN at : at[j] = at[i] - 1 /\ i \in Prerequisites(L, j, o)
    /\ \A j \in DOMAIN at : at[j] < budget =>
          \A i \in Prerequisites(L, j, o) :
              Closer(seen, i, at[j] + 1) => i \in DOMAIN at /\ at[i] <= at[j] + 1

\* What the expansion makes of what was met before.
Joined(L, seen, budget, at) ==
    [depth |-> [i \in Met(seen) \cup DOMAIN at |-> IF i \in DOMAIN at THEN at[i] ELSE seen.depth[i]],
     truncated |-> (seen.truncated \ DOMAIN at) \cup {i \in DOMAIN at : Cut(L, i, at[i], budget)}]

\* An expansion is what it reaches, joined to what was met before.
LEMMA ExpandIs ==
    ASSUME NEW L \in Seq(Envelope), Shaped(L), NEW o, UpTo(L, o) = DOMAIN L,
           NEW seen, NEW seeds \in SUBSET (DOMAIN L), NEW start \in Nat, NEW budget \in Nat
    PROVE  \E at : /\ Reaches(L, o, seen, seeds, start, budget, at)
                   /\ Expand(L, o, seen, seeds, start, budget) = Joined(L, seen, budget, at)
<1> DEFINE Is(f) == AreLayers(f, L, o, seen, seeds, start, budget)
           layer == CHOOSE f : Is(f)
           last  == Greatest({start, budget})
           new   == UNION {layer[k] : k \in start..last}
           at    == [i \in new |-> CHOOSE k \in start..last : i \in layer[k]]
<1>1. Is(layer)
  <2>1. \E f : Is(f)
    BY LayersExist
  <2> QED
    BY <2>1, Zenon
<1>2. last \in {start, budget} /\ start <= last /\ budget <= last
  <2>1. \E x \in {start, budget} : \A y \in {start, budget} : y <= x
    OBVIOUS
  <2>2. last \in {start, budget} /\ \A y \in {start, budget} : y <= last
    BY <2>1, Zenon DEF Greatest
  <2> QED
    BY <2>2
<1>3. Expand(L, o, seen, seeds, start, budget) = Joined(L, seen, budget, at)
  <2> DEFINE at0(i) == CHOOSE k \in start..last : i \in layer[k]
  <2>1. Expand(L, o, seen, seeds, start, budget)
          = [depth |-> [i \in Met(seen) \cup new |-> IF i \in new THEN at0(i) ELSE seen.depth[i]],
             truncated |-> (seen.truncated \ new) \cup {i \in new : Cut(L, i, at0(i), budget)}]
    BY DEF Expand, AreLayers
  <2>2. DOMAIN at = new /\ \A i \in new : at[i] = at0(i)
    OBVIOUS
  <2> HIDE DEF new, at0, at
  <2>3. {i \in new : Cut(L, i, at0(i), budget)} = {i \in DOMAIN at : Cut(L, i, at[i], budget)}
    BY <2>2
  <2>4. [i \in Met(seen) \cup new |-> IF i \in new THEN at0(i) ELSE seen.depth[i]]
          = [i \in Met(seen) \cup DOMAIN at |-> IF i \in DOMAIN at THEN at[i] ELSE seen.depth[i]]
    BY <2>2
  <2> QED
    BY <2>1, <2>2, <2>3, <2>4 DEF Joined
<1> HIDE DEF layer, last
<1> DEFINE further(k) == {i \in UNION {Prerequisites(L, j, o) : j \in layer[k - 1]} :
                            /\ k <= budget
                            /\ Closer(seen, i, k)
                            /\ \A m \in start..(k - 1) : i \notin layer[m]}
<1>4. /\ \A k \in Nat : k < start => layer[k] = {}
      /\ layer[start] = {i \in seeds : Closer(seen, i, start)}
      /\ \A k \in Nat : start < k => layer[k] = further(k)
  <2>1. \A k \in Nat : layer[k] = IF k < start THEN {}
                                  ELSE IF k = start THEN {i \in seeds : Closer(seen, i, k)}
                                  ELSE further(k)
    BY <1>1 DEF AreLayers
  <2> HIDE DEF further
  <2>2. \A k \in Nat : start < k => ~(k < start) /\ k # start
    OBVIOUS
  <2> QED
    BY <2>1, <2>2
<1>5. \A k \in Nat : layer[k] \subseteq DOMAIN L
  <2> DEFINE wrong == {k \in Nat : ~(layer[k] \subseteq DOMAIN L)}
  <2>1. SUFFICES ASSUME wrong # {} PROVE FALSE
    OBVIOUS
  <2>2. PICK k \in wrong : \A m \in wrong : k <= m
    BY <2>1, SmallestNat
  <2>3. k \in Nat /\ start < k
    BY <1>4, <2>2
  <2>4. k - 1 \in Nat /\ ~(k <= k - 1)
    BY <2>3
  <2>5. layer[k - 1] \subseteq DOMAIN L
    BY <2>2, <2>4
  <2>6. \A j \in layer[k - 1] : Prerequisites(L, j, o) \subseteq DOMAIN L
    BY <2>5, PrerequisitesType
  <2>7. layer[k] \subseteq DOMAIN L
    BY <1>4, <2>3, <2>6
  <2> QED
    BY <2>2, <2>7
<1>6. \A k \in Nat : layer[k] # {} => k \in start..last
  BY <1>2, <1>4
<1>7. \A k, m \in Nat : \A i : i \in layer[k] /\ i \in layer[m] => k = m
  <2>1. \A k, m \in Nat : \A i : i \in layer[k] /\ i \in layer[m] => ~(m < k)
    <3> SUFFICES ASSUME NEW k \in Nat, NEW m \in Nat, NEW i, i \in layer[k], i \in layer[m], m < k
                 PROVE  FALSE
      OBVIOUS
    <3>1. m \in start..last
      BY <1>6
    <3>2. start < k /\ m \in start..(k - 1)
      BY <3>1, <1>2
    <3> QED
      BY <1>4, <3>2
  <2> QED
    BY <2>1
<1>8. \A k \in Nat : \A i \in layer[k] : i \in DOMAIN at /\ at[i] = k
  <2> SUFFICES ASSUME NEW k \in Nat, NEW i \in layer[k] PROVE i \in DOMAIN at /\ at[i] = k
    OBVIOUS
  <2>1. k \in start..last
    BY <1>6
  <2>2. i \in new
    BY <2>1
  <2>3. at[i] \in start..last /\ i \in layer[at[i]]
    BY <2>1, <2>2
  <2> QED
    BY <1>2, <1>7, <2>2, <2>3
<1>9. \A i \in DOMAIN at : at[i] \in Nat /\ i \in layer[at[i]]
  <2> SUFFICES ASSUME NEW i \in new PROVE at[i] \in Nat /\ i \in layer[at[i]]
    OBVIOUS
  <2>1. PICK k \in start..last : i \in layer[k]
    OBVIOUS
  <2>2. k \in Nat
    BY <1>2
  <2> QED
    BY <1>8, <2>1, <2>2
<1>10. at = [i \in DOMAIN at |-> at[i]]
  OBVIOUS
<1> HIDE DEF at, new
<1>11. Reaches(L, o, seen, seeds, start, budget, at)
  <2>1. DOMAIN at \subseteq DOMAIN L /\ at \in [DOMAIN at -> Nat]
    BY <1>5, <1>9, <1>10
  <2>2. \A i \in DOMAIN at : start <= at[i]
    BY <1>4, <1>9
  <2>3. \A i \in DOMAIN at : Closer(seen, i, at[i])
    BY <1>4, <1>9, <2>2
  <2>4. \A i \in seeds : Closer(seen, i, start) => i \in DOMAIN at /\ at[i] = start
    BY <1>4, <1>8
  <2>5. \A i \in DOMAIN at :
          \/ at[i] = start /\ i \in seeds
          \/ /\ at[i] <= budget
             /\ \E j \in DOMAIN at : at[j] = at[i] - 1 /\ i \in Prerequisites(L, j, o)
    <3> TAKE i \in DOMAIN at
    <3>1. at[i] \in Nat /\ i \in layer[at[i]] /\ start <= at[i]
      BY <1>9, <2>2
    <3>2. CASE at[i] = start
      BY <1>4, <3>1, <3>2
    <3>3. CASE start < at[i]
      <4>1. i \in further(at[i])
        BY <1>4, <3>1, <3>3
      <4>2. PICK j \in layer[at[i] - 1] : at[i] <= budget /\ i \in Prerequisites(L, j, o)
        BY <4>1
      <4>3. at[i] - 1 \in Nat
        BY <3>1, <3>3
      <4> QED
        BY <1>8, <4>2, <4>3
    <3> QED
      BY <3>1, <3>2, <3>3
  <2>6. \A j \in DOMAIN at : at[j] < budget =>
          \A i \in Prerequisites(L, j, o) :
              Closer(seen, i, at[j] + 1) => i \in DOMAIN at /\ at[i] <= at[j] + 1
    <3> SUFFICES ASSUME NEW j \in DOMAIN at, at[j] < budget, NEW i \in Prerequisites(L, j, o),
                        Closer(seen, i, at[j] + 1)
                 PROVE  i \in DOMAIN at /\ at[i] <= at[j] + 1
      OBVIOUS
    <3> DEFINE k == at[j] + 1
    <3>1. at[j] \in Nat /\ j \in layer[at[j]] /\ start <= at[j]
      BY <1>9, <2>2
    <3>2. k \in Nat /\ start < k /\ k <= budget /\ k - 1 = at[j]
      BY <3>1
    <3>3. CASE \E m \in start..(k - 1) : i \in layer[m]
      <4>1. PICK m \in start..(k - 1) : i \in layer[m]
        BY <3>3
      <4>2. m \in Nat /\ m <= k
        BY <3>2, <4>1
      <4> QED
        BY <1>8, <4>1, <4>2
    <3>4. CASE \A m \in start..(k - 1) : i \notin layer[m]
      <4>1. i \in further(k)
        BY <3>1, <3>2, <3>4
      <4>2. i \in layer[k]
        BY <1>4, <3>2, <4>1
      <4> QED
        BY <1>8, <3>2, <4>2
    <3> QED
      BY <3>3, <3>4
  <2> QED
    BY <2>1, <2>3, <2>4, <2>5, <2>6 DEF Reaches
<1> QED
  BY <1>3, <1>11

\* An expansion forgets nothing that was met, and meets what it starts from.
LEMMA ExpandMeets ==
    ASSUME NEW L \in Seq(Envelope), Shaped(L), NEW o, UpTo(L, o) = DOMAIN L,
           NEW seen, NEW seeds \in SUBSET (DOMAIN L), NEW start \in Nat, NEW budget \in Nat
    PROVE  /\ Met(seen) \subseteq Met(Expand(L, o, seen, seeds, start, budget))
           /\ seeds \subseteq Met(Expand(L, o, seen, seeds, start, budget))
<1>1. PICK at : /\ Reaches(L, o, seen, seeds, start, budget, at)
                /\ Expand(L, o, seen, seeds, start, budget) = Joined(L, seen, budget, at)
  BY ExpandIs
<1>2. Met(Joined(L, seen, budget, at)) = Met(seen) \cup DOMAIN at
  BY DEF Met, Joined
<1>3. \A i \in seeds : i \in Met(seen) \cup DOMAIN at
  BY <1>1 DEF Reaches, Closer
<1> QED
  BY <1>1, <1>2, <1>3

-----------------------------------------------------------------------------
(* What a claimant had read.                                               *)

\* What a claim in nest ns of the jobs targets asks for first, as of offset o.
Asked(L, ns, targets, o) ==
    {CurrentVersion(L, i, o) :
        i \in (UNION {RefsOf(L[p], "pins") : p \in CanonPins(L, ns, o)})
              \cup (UNION {RefsOf(L[t], "requires") : t \in targets})}

\* The claim at k was made with all that it asked for attested.
ReadFirst(L, E, k) ==
    PolicyAt(E, L[k].ns, k).rules.require_acks =>
        Asked(L, L[k].ns, RefsOf(L[k], "claims"), k - 1) \subseteq AckSet(L, L[k].author, k - 1)

\* The gate asks for all of it, however deep or shallow the nest has it walk.
LEMMA GateAsksAll ==
    ASSUME IInv, Rooted, log # << >>, NEW d \in Drafts, Accepts(d),
           d.type = "CLAIM", RulesAt(d.ns).require_acks
    PROVE  Asked(log, d.ns, RefsOf(d, "claims"), Len(log) + 1)
              \subseteq AckSet(log, d.author, Len(log) + 1)
<1> DEFINE o       == Len(log) + 1
           targets == RefsOf(d, "claims")
           depth   == DepthAt(entries, d.ns, o)
           first   == ClosureForPins(log, entries, d.ns, o, NothingRead)
           second  == ClaimClosure(log, entries, o, d.ns, targets)
           pinned  == UNION {RefsOf(log[p], "pins") : p \in CanonPins(log, d.ns, o)}
           needed  == UNION {RefsOf(log[t], "requires") : t \in targets}
<1>1. /\ log \in Seq(Envelope) /\ Shaped(log) /\ Len(log) \in Nat
      /\ DOMAIN log = 1..Len(log) /\ UpTo(log, o) = DOMAIN log
  <2>1. log \in Seq(Envelope) /\ Shaped(log)
    BY DEF IInv, TypeOK, LogShape, Shaped
  <2>2. Len(log) \in Nat /\ DOMAIN log = 1..Len(log)
    BY <2>1, LenProperties
  <2> QED
    BY <2>1, <2>2 DEF UpTo
<1>2. depth \in Nat
  <2>1. d.ns \in Namespace
    BY ClientAssumption DEF Draft
  <2>2. RulesAt(d.ns) \in Rules
    BY <2>1, Governed
  <2> QED
    BY <2>2 DEF RulesAt, NextId, DepthAt, Rules
<1>3. targets \subseteq DOMAIN log
  BY DEF Accepts, RefsExist, RefsOf
<1>4. pinned \subseteq DOMAIN log
  <2>1. CanonPins(log, d.ns, o) \subseteq DOMAIN log
    BY <1>1 DEF CanonPins, ActsIn
  <2> QED
    BY <1>1, <2>1, EdgesWithin
<1>5. Pinned(log, d.ns, o) = {CurrentVersion(log, i, o) : i \in pinned}
  BY DEF Pinned, CurrentVersions
<1> HIDE DEF pinned
<1>6. Pinned(log, d.ns, o) \subseteq DOMAIN log
  BY <1>1, <1>4, <1>5, VersionType
<1>7. UNION {Prerequisites(log, t, o) : t \in targets} \subseteq DOMAIN log
  BY <1>1, <1>3, PrerequisitesType
<1>8. {CurrentVersion(log, i, o) : i \in needed}
        \subseteq UNION {Prerequisites(log, t, o) : t \in targets}
  BY DEF Prerequisites, CurrentVersions
<1> HIDE DEF needed, targets
<1>9. Pinned(log, d.ns, o) \subseteq Met(first)
  BY <1>1, <1>2, <1>6, ExpandMeets DEF ClosureForPins
<1>10. /\ Met(first) \subseteq Met(second)
       /\ UNION {Prerequisites(log, t, o) : t \in targets} \subseteq Met(second)
  <2> DEFINE seeds == UNION {Prerequisites(log, t, o) : t \in targets}
  <2>1. second = Expand(log, o, first, seeds, 1, depth)
    BY DEF ClaimClosure
  <2>2. seeds \in SUBSET (DOMAIN log)
    BY <1>7
  <2> HIDE DEF first, second, seeds, depth, o
  <2>3. Met(first) \subseteq Met(second) /\ seeds \subseteq Met(second)
    BY <1>1, <1>2, <2>1, <2>2, ExpandMeets
  <2> QED
    BY <2>3 DEF seeds
<1>11. Met(second) \subseteq AckSet(log, d.author, o)
  <2>1. UnmetForClaim(log, entries, o, d.ns, targets, d.author) = {}
    BY DEF Accepts, AcksOK, NextId, targets
  <2> QED
    BY <2>1 DEF UnmetForClaim, Unread
<1>12. Asked(log, d.ns, targets, o)
         = {CurrentVersion(log, i, o) : i \in pinned} \cup {CurrentVersion(log, i, o) : i \in needed}
  <2> DEFINE both == pinned \cup needed
  <2>1. Asked(log, d.ns, targets, o) = {CurrentVersion(log, i, o) : i \in both}
    BY DEF Asked, pinned, needed
  <2> HIDE DEF o
  <2> QED
    BY <2>1
<1> QED
  BY <1>5, <1>8, <1>9, <1>10, <1>11, <1>12 DEF targets

\* What was asked for then can be recomputed at any later time.
LEMMA AskedOfPrefix ==
    ASSUME NEW L, NEW M, NEW o, NEW q, UpTo(L, o) = UpTo(M, q),
           \A i \in UpTo(L, o) : L[i] = M[i],
           NEW ns, NEW targets \in SUBSET UpTo(L, o)
    PROVE  Asked(L, ns, targets, o) = Asked(M, ns, targets, q)
<1>1. /\ CanonPins(L, ns, o) = CanonPins(M, ns, q)
      /\ \A i : CurrentVersion(L, i, o) = CurrentVersion(M, i, q)
  BY SameReads
<1>2. CanonPins(L, ns, o) \subseteq UpTo(L, o)
  BY DEF CanonPins, ActsIn
<1> DEFINE pinned(X, x) == UNION {RefsOf(X[p], "pins") : p \in CanonPins(X, ns, x)}
           needed(X)    == UNION {RefsOf(X[t], "requires") : t \in targets}
<1>3. pinned(L, o) = pinned(M, q)
  BY <1>1, <1>2
<1>4. needed(L) = needed(M)
  OBVIOUS
<1>5. /\ Asked(L, ns, targets, o) = {CurrentVersion(L, i, o) : i \in pinned(L, o) \cup needed(L)}
      /\ Asked(M, ns, targets, q) = {CurrentVersion(M, i, q) : i \in pinned(M, q) \cup needed(M)}
  BY DEF Asked
<1> HIDE DEF pinned, needed
<1> QED
  BY <1>1, <1>3, <1>4, <1>5

\* A claim that was made stays one made with all attested: nothing that comes later
\* changes what its nest asked for then.
LEMMA ReadingStands ==
    ASSUME IInv, NEW env, Joins(env), NEW k \in DOMAIN log, ReadFirst(log, entries, k)
    PROVE  ReadFirst(log', entries', k)
<1>1. /\ Len(log) \in Nat /\ DOMAIN log = 1..Len(log) /\ DOMAIN log' = 1..(Len(log) + 1)
      /\ \A i \in DOMAIN log : log'[i] = log[i]
  BY LogGrows DEF IInv, TypeOK, Joins
<1>2. k \in 1..Len(log) /\ log'[k] = log[k]
  BY <1>1
<1>3. /\ UpTo(log, k - 1) = UpTo(log', k - 1)
      /\ \A i \in UpTo(log, k - 1) : log[i] = log'[i]
  BY <1>1, <1>2 DEF UpTo
<1>4. RefsOf(log[k], "claims") \subseteq UpTo(log, k - 1)
  <2>1. RefsOf(log[k], "claims") \subseteq DOMAIN log
    BY EdgesWithin DEF IInv, TypeOK, LogShape, Shaped
  <2>2. \A t \in RefsOf(log[k], "claims") : t < k
    BY DEF RefsOf, IInv, LogShape
  <2> QED
    BY <1>1, <1>2, <2>1, <2>2 DEF UpTo
<1>5. InForce(entries', k) = InForce(entries, k)
  BY PastIsFixed
<1>6. \A ns : PolicyAt(entries', ns, k) = PolicyAt(entries, ns, k)
  BY <1>5 DEF PolicyAt, Governing
<1>7. \A a : AckSet(log, a, k - 1) = AckSet(log', a, k - 1)
  BY <1>3, SameReads
<1>8. \A ns : Asked(log, ns, RefsOf(log[k], "claims"), k - 1)
                 = Asked(log', ns, RefsOf(log[k], "claims"), k - 1)
  BY <1>3, <1>4, AskedOfPrefix
<1> QED
  BY <1>2, <1>6, <1>7, <1>8 DEF ReadFirst

\* What the gate let through was asked for under the law that governs it still when
\* it is in the log.
LEMMA ClaimReads ==
    ASSUME IInv, Rooted, NEW d \in Drafts, Post(d), d.type = "CLAIM"
    PROVE  ReadFirst(log', entries', Len(log) + 1)
<1> DEFINE n   == Len(log)
           env == Sequenced(d, BandOf(d), now)
<1>1. Joins(env) /\ log # << >> /\ Accepts(d)
  BY PostJoins DEF Post
<1>2. env.ns = d.ns /\ env.author = d.author /\ env.refs = d.refs
  BY DEF Sequenced
<1> HIDE DEF env
<1>3. /\ n \in Nat /\ DOMAIN log = 1..n /\ DOMAIN log' = 1..(n + 1)
      /\ \A i \in DOMAIN log : log'[i] = log[i]
      /\ log'[n + 1] = env
  BY <1>1, LogGrows DEF IInv, TypeOK, Joins
<1>4. entries' = entries
  <2>1. log'[n + 1].type = "CLAIM"
    BY <1>1 DEF Post, Sequenced, Joins, env
  <2> QED
    BY <1>1, <2>1 DEF Joins, Apply
<1>5. /\ UpTo(log, n + 1) = UpTo(log', (n + 1) - 1)
      /\ \A i \in UpTo(log, n + 1) : log[i] = log'[i]
  BY <1>3 DEF UpTo
<1>6. RefsOf(d, "claims") \subseteq UpTo(log, n + 1)
  <2>1. RefsOf(d, "claims") \subseteq DOMAIN log
    BY <1>1 DEF Accepts, RefsExist, RefsOf
  <2> QED
    BY <1>3, <2>1 DEF UpTo
<1>7. RefsOf(log'[n + 1], "claims") = RefsOf(d, "claims")
  BY <1>2, <1>3 DEF RefsOf
<1>8. Asked(log', d.ns, RefsOf(d, "claims"), (n + 1) - 1)
        = Asked(log, d.ns, RefsOf(d, "claims"), n + 1)
  BY <1>5, <1>6, AskedOfPrefix
<1>9. AckSet(log', d.author, (n + 1) - 1) = AckSet(log, d.author, n + 1)
  BY <1>5, SameReads
<1>10. PolicyAt(entries', d.ns, n + 1).rules.require_acks =>
          Asked(log, d.ns, RefsOf(d, "claims"), n + 1) \subseteq AckSet(log, d.author, n + 1)
  BY <1>1, <1>4, GateAsksAll DEF RulesAt, NextId
<1> QED
  BY <1>2, <1>3, <1>7, <1>8, <1>9, <1>10 DEF ReadFirst

\* In a nest that requires acks, whoever claimed had attested, before claiming, to
\* the very versions that its pins and its job asked for at that moment, whatever was
\* pinned, replaced or retired since (civic.unmet_for_claim behind the claim gate of
\* validate._check_policy; nothing refuses such a law).
THEOREM ClaimantsAttested == Spec => []ClaimantsHaveReadCanon
<1> DEFINE Read == \A k \in {c \in DOMAIN log : log[c].type = "CLAIM"} : ReadFirst(log, entries, k)
<1>1. Init => Rooted /\ Read
  <2>1. Init => log = << >> /\ DOMAIN log = {}
    BY DEF Init
  <2> QED
    BY <2>1 DEF Rooted
<1>2. IInv /\ Rooted /\ Read /\ [Next]_vars => Read'
  <2>1. SUFFICES ASSUME IInv, Rooted, Read, [Next]_vars,
                        NEW k \in DOMAIN log', log'[k].type = "CLAIM"
                 PROVE  ReadFirst(log', entries', k)
    OBVIOUS
  <2>2. CASE log' = log /\ entries' = entries
    BY <2>1, <2>2
  <2>3. CASE \E policy \in GenesisPolicies : Genesis(policy)
    <3>1. k = 1 /\ log'[1].type = "POLICY"
      BY <2>1, <2>3 DEF Genesis, Sequenced, GenesisDraft
    <3> QED
      BY <2>1, <3>1
  <2>4. CASE \E d \in Drafts : Post(d)
    <3>1. PICK d \in Drafts : Post(d)
      BY <2>4
    <3>2. PICK env : env = Sequenced(d, BandOf(d), now) /\ Joins(env)
      BY <2>1, <3>1, PostJoins
    <3>3. /\ Len(log) \in Nat /\ DOMAIN log = 1..Len(log) /\ DOMAIN log' = 1..(Len(log) + 1)
          /\ \A i \in DOMAIN log : log'[i] = log[i]
          /\ log'[Len(log) + 1] = env
      BY <2>1, <3>2, LogGrows DEF IInv, TypeOK, Joins
    <3>4. CASE k \in DOMAIN log
      <4>1. ReadFirst(log, entries, k)
        BY <2>1, <3>3, <3>4
      <4> QED
        BY <2>1, <3>2, <3>4, <4>1, ReadingStands
    <3>5. CASE k = Len(log) + 1
      <4>1. d.type = "CLAIM"
        BY <2>1, <3>2, <3>3, <3>5 DEF Sequenced
      <4> QED
        BY <2>1, <3>1, <3>5, <4>1, ClaimReads
    <3> QED
      BY <2>1, <3>3, <3>4, <3>5
  <2> QED
    BY <2>1, <2>2, <2>3, <2>4 DEF Next, Tick, vars
<1>3. Read <=> ClaimantsHaveReadCanon
  BY DEF ClaimantsHaveReadCanon, ReadFirst, Asked, MustHaveRead
<1> HIDE DEF Read
<1> QED
  BY <1>1, <1>2, <1>3, AlwaysIInv, NextKeepsRooted, PTL DEF Spec

-----------------------------------------------------------------------------
(* Two walks to one depth.                                                 *)

IsWalk(L, seen) ==
    /\ Met(seen) \subseteq DOMAIN L
    /\ \A i \in Met(seen) : seen.depth[i] \in Nat

\* The ids were met, no deeper down than at depth.
MetBy(seen, ids, depth) == \A i \in ids : i \in Met(seen) /\ seen.depth[i] <= depth

\* Whatever one met, the other met no deeper down.
Inside(seen, other) == \A i \in Met(seen) : i \in Met(other) /\ other.depth[i] <= seen.depth[i]

\* Whatever was met above the budget has had its prerequisites met below it.
Settled(L, o, seen, budget) ==
    \A i \in Met(seen) : seen.depth[i] < budget =>
        MetBy(seen, Prerequisites(L, i, o), seen.depth[i] + 1)

LEMMA JoinedIs ==
    ASSUME NEW L \in Seq(Envelope), Shaped(L), NEW o, UpTo(L, o) = DOMAIN L,
           NEW seen, IsWalk(L, seen), NEW seeds \in SUBSET (DOMAIN L), NEW start \in Nat,
           NEW budget \in Nat, NEW at, Reaches(L, o, seen, seeds, start, budget, at),
           NEW out, out = Joined(L, seen, budget, at)
    PROVE  /\ Met(out) = Met(seen) \cup DOMAIN at
           /\ \A i \in DOMAIN at : out.depth[i] = at[i]
           /\ \A i \in Met(seen) \ DOMAIN at : out.depth[i] = seen.depth[i]
           /\ IsWalk(L, out)
           /\ Inside(seen, out)
<1>1. /\ Met(out) = Met(seen) \cup DOMAIN at
      /\ \A i \in DOMAIN at : out.depth[i] = at[i]
      /\ \A i \in Met(seen) \ DOMAIN at : out.depth[i] = seen.depth[i]
  BY DEF Met, Joined
<1>2. \A i \in DOMAIN at : i \in DOMAIN L /\ at[i] \in Nat /\ Closer(seen, i, at[i])
  BY DEF Reaches
<1>3. IsWalk(L, out)
  BY <1>1, <1>2 DEF IsWalk
<1>4. Inside(seen, out)
  <2> SUFFICES ASSUME NEW i \in Met(seen)
               PROVE  i \in Met(out) /\ out.depth[i] <= seen.depth[i]
    BY DEF Inside
  <2>1. CASE i \in DOMAIN at
    BY <1>1, <1>2, <2>1 DEF Closer, IsWalk
  <2>2. CASE i \notin DOMAIN at
    BY <1>1, <2>2 DEF IsWalk
  <2> QED
    BY <2>1, <2>2
<1> QED
  BY <1>1, <1>3, <1>4

\* An expansion keeps a settled walk settled, and has met what it starts from.
LEMMA ExpandSettles ==
    ASSUME NEW L \in Seq(Envelope), Shaped(L), NEW o, UpTo(L, o) = DOMAIN L,
           NEW seen, IsWalk(L, seen), NEW seeds \in SUBSET (DOMAIN L), NEW start \in Nat,
           NEW budget \in Nat, Settled(L, o, seen, budget),
           NEW out, out = Expand(L, o, seen, seeds, start, budget)
    PROVE  /\ IsWalk(L, out) /\ Settled(L, o, out, budget)
           /\ Inside(seen, out) /\ MetBy(out, seeds, start)
<1>1. PICK at : /\ Reaches(L, o, seen, seeds, start, budget, at)
                /\ out = Joined(L, seen, budget, at)
  BY ExpandIs
<1>2. /\ Met(out) = Met(seen) \cup DOMAIN at
      /\ \A i \in DOMAIN at : out.depth[i] = at[i]
      /\ \A i \in Met(seen) \ DOMAIN at : out.depth[i] = seen.depth[i]
      /\ IsWalk(L, out)
      /\ Inside(seen, out)
  BY <1>1, JoinedIs
<1>3. \A i, k : k \in Nat /\ i \in Met(seen) /\ ~Closer(seen, i, k) =>
         i \in Met(out) /\ out.depth[i] <= k
  BY <1>2 DEF Closer, IsWalk, Inside
<1>4. MetBy(out, seeds, start)
  <2> SUFFICES ASSUME NEW i \in seeds PROVE i \in Met(out) /\ out.depth[i] <= start
    BY DEF MetBy
  <2>1. CASE Closer(seen, i, start)
    BY <1>1, <1>2, <2>1 DEF Reaches
  <2>2. CASE ~Closer(seen, i, start)
    BY <1>3, <2>2 DEF Closer
  <2> QED
    BY <2>1, <2>2
<1>5. Settled(L, o, out, budget)
  <2> SUFFICES ASSUME NEW j \in Met(out), out.depth[j] < budget, NEW i \in Prerequisites(L, j, o)
               PROVE  i \in Met(out) /\ out.depth[i] <= out.depth[j] + 1
    BY DEF Settled, MetBy
  <2>1. CASE j \in DOMAIN at
    <3>1. at[j] \in Nat /\ out.depth[j] = at[j] /\ at[j] < budget
      BY <1>1, <1>2, <2>1 DEF Reaches
    <3>2. CASE Closer(seen, i, at[j] + 1)
      <4>1. i \in DOMAIN at /\ at[i] <= at[j] + 1
        BY <1>1, <2>1, <3>1, <3>2 DEF Reaches
      <4> QED
        BY <1>2, <3>1, <4>1
    <3>3. CASE ~Closer(seen, i, at[j] + 1)
      BY <1>3, <3>1, <3>3 DEF Closer
    <3> QED
      BY <3>2, <3>3
  <2>2. CASE j \notin DOMAIN at
    <3>1. j \in Met(seen) /\ out.depth[j] = seen.depth[j] /\ seen.depth[j] \in Nat
      BY <1>2, <2>2 DEF IsWalk
    <3>2. i \in Met(seen) /\ seen.depth[i] <= seen.depth[j] + 1 /\ seen.depth[i] \in Nat
      BY <3>1 DEF Settled, MetBy, IsWalk
    <3>3. i \in Met(out) /\ out.depth[i] <= seen.depth[i] /\ out.depth[i] \in Nat
      BY <1>2, <3>2 DEF Inside, IsWalk
    <3> QED
      BY <3>1, <3>2, <3>3
  <2> QED
    BY <2>1, <2>2
<1> QED
  BY <1>2, <1>4, <1>5

\* An expansion that starts inside a settled walk stays inside.
LEMMA ExpandInside ==
    ASSUME NEW L \in Seq(Envelope), Shaped(L), NEW o, UpTo(L, o) = DOMAIN L,
           NEW seen, IsWalk(L, seen), NEW seeds \in SUBSET (DOMAIN L), NEW start \in Nat,
           NEW budget \in Nat,
           NEW other, IsWalk(L, other), Settled(L, o, other, budget),
           Inside(seen, other), MetBy(other, seeds, start),
           NEW out, out = Expand(L, o, seen, seeds, start, budget)
    PROVE  Inside(out, other)
<1>1. PICK at : /\ Reaches(L, o, seen, seeds, start, budget, at)
                /\ out = Joined(L, seen, budget, at)
  BY ExpandIs
<1> DEFINE Fine(i) == i \in Met(other) /\ other.depth[i] <= at[i]
           wrong == {at[i] : i \in {k \in DOMAIN at : ~Fine(k)}}
<1>2. /\ Met(out) = Met(seen) \cup DOMAIN at
      /\ \A i \in DOMAIN at : out.depth[i] = at[i]
      /\ \A i \in Met(seen) \ DOMAIN at : out.depth[i] = seen.depth[i]
  BY <1>1 DEF Met, Joined
<1>3. \A i \in DOMAIN at : at[i] \in Nat
  BY <1>1 DEF Reaches
<1>4. \A i \in DOMAIN at : Fine(i)
  <2>1. SUFFICES ASSUME wrong # {} PROVE FALSE
    OBVIOUS
  <2>2. PICK i \in DOMAIN at : ~Fine(i) /\ \A j \in DOMAIN at : ~Fine(j) => at[i] <= at[j]
    <3>1. wrong \in SUBSET Nat
      BY <1>3
    <3>2. PICK w \in wrong : \A x \in wrong : w <= x
      BY <2>1, <3>1, SmallestNat
    <3> QED
      BY <3>2
  <2>3. CASE at[i] = start /\ i \in seeds
    BY <2>2, <2>3 DEF MetBy
  <2>4. CASE /\ at[i] <= budget
             /\ \E j \in DOMAIN at : at[j] = at[i] - 1 /\ i \in Prerequisites(L, j, o)
    <3>1. PICK j \in DOMAIN at : at[j] = at[i] - 1 /\ i \in Prerequisites(L, j, o)
      BY <2>4
    <3>2. Fine(j)
      BY <1>3, <2>2, <3>1
    <3>3. other.depth[j] \in Nat /\ at[i] \in Nat /\ other.depth[j] < budget
      BY <1>3, <2>4, <3>1, <3>2 DEF IsWalk
    <3>4. i \in Met(other) /\ other.depth[i] <= other.depth[j] + 1 /\ other.depth[i] \in Nat
      BY <3>1, <3>2, <3>3 DEF Settled, MetBy, IsWalk
    <3> QED
      BY <2>2, <3>1, <3>2, <3>3, <3>4
  <2> QED
    BY <1>1, <2>3, <2>4 DEF Reaches
<1> QED
  BY <1>1, <1>2, <1>4 DEF Inside

\* Walked in either order, everything that two sets of documents lead to is met.
LEMMA EitherOrderReaches ==
    ASSUME NEW L \in Seq(Envelope), Shaped(L), NEW o, UpTo(L, o) = DOMAIN L, NEW budget \in Nat,
           NEW A \in SUBSET (DOMAIN L), NEW a \in Nat, NEW B \in SUBSET (DOMAIN L), NEW b \in Nat,
           NEW one, one = Expand(L, o, Expand(L, o, NothingRead, A, a, budget), B, b, budget),
           NEW two, two = Expand(L, o, Expand(L, o, NothingRead, B, b, budget), A, a, budget)
    PROVE  Met(two) \subseteq Met(one)
<1>1. IsWalk(L, NothingRead) /\ Settled(L, o, NothingRead, budget)
  BY DEF IsWalk, Settled, Met, NothingRead
<1>2. PICK half : half = Expand(L, o, NothingRead, A, a, budget)
  OBVIOUS
<1>3. IsWalk(L, half) /\ Settled(L, o, half, budget) /\ MetBy(half, A, a)
  BY <1>1, <1>2, ExpandSettles
<1>4. one = Expand(L, o, half, B, b, budget)
  BY <1>2
<1>5. /\ IsWalk(L, one) /\ Settled(L, o, one, budget)
      /\ Inside(half, one) /\ MetBy(one, B, b)
  BY <1>3, <1>4, ExpandSettles
<1>6. MetBy(one, A, a)
  BY <1>3, <1>5 DEF MetBy, Inside, IsWalk
<1>7. Inside(NothingRead, one)
  BY DEF Inside, Met, NothingRead
<1>8. PICK other : other = Expand(L, o, NothingRead, B, b, budget)
  OBVIOUS
<1>9. Inside(other, one)
  BY <1>1, <1>5, <1>7, <1>8, ExpandInside
<1>10. IsWalk(L, other)
  BY <1>1, <1>8, ExpandSettles
<1>11. two = Expand(L, o, other, A, a, budget)
  BY <1>8
<1>12. Inside(two, one)
  BY <1>5, <1>6, <1>9, <1>10, <1>11, ExpandInside
<1> QED
  BY <1>12 DEF Inside

LEMMA EitherOrder ==
    ASSUME NEW L \in Seq(Envelope), Shaped(L), NEW o, UpTo(L, o) = DOMAIN L, NEW budget \in Nat,
           NEW A \in SUBSET (DOMAIN L), NEW a \in Nat, NEW B \in SUBSET (DOMAIN L), NEW b \in Nat,
           NEW one, one = Expand(L, o, Expand(L, o, NothingRead, A, a, budget), B, b, budget),
           NEW two, two = Expand(L, o, Expand(L, o, NothingRead, B, b, budget), A, a, budget)
    PROVE  Met(one) = Met(two)
<1>1. Met(two) \subseteq Met(one)
  BY EitherOrderReaches
<1>2. Met(one) \subseteq Met(two)
  BY EitherOrderReaches
<1> QED
  BY <1>1, <1>2

\* The head of a log of a board, and the law there.
LEMMA AtHead ==
    ASSUME IInv
    PROVE  /\ log \in Seq(Envelope) /\ Shaped(log) /\ Len(log) \in Nat
           /\ DOMAIN log = 1..Len(log) /\ UpTo(log, HeadOf(log)) = DOMAIN log
           /\ UpTo(log, NextId(log)) = DOMAIN log
           /\ InForce(entries, HeadOf(log)) = entries
           /\ InForce(entries, NextId(log)) = entries
<1>1. log \in Seq(Envelope) /\ Shaped(log)
  BY DEF IInv, TypeOK, LogShape, Shaped
<1>2. Len(log) \in Nat /\ DOMAIN log = 1..Len(log)
  BY <1>1, LenProperties
<1>3. \A e \in entries : e.effective_at \in Nat /\ e.effective_at <= Len(log)
  BY DEF IInv, TypeOK, LogShape, PolicyEntry
<1> QED
  BY <1>1, <1>2, <1>3 DEF UpTo, HeadOf, NextId, InForce

LEMMA DepthGoverned ==
    ASSUME IInv, Rooted, log # << >>, NEW ns \in Namespace
    PROVE  DepthAt(entries, ns, HeadOf(log)) \in Nat
<1>1. PolicyAt(entries, ns, HeadOf(log)) = PolicyAt(entries, ns, NextId(log))
  BY AtHead DEF PolicyAt, Governing
<1>2. RulesAt(ns) \in Rules
  BY Governed
<1> QED
  BY <1>1, <1>2 DEF RulesAt, DepthAt, Rules

LEMMA PinnedType ==
    ASSUME NEW L \in Seq(Envelope), Shaped(L), NEW o, UpTo(L, o) = DOMAIN L, NEW ns
    PROVE  Pinned(L, ns, o) \subseteq DOMAIN L
<1> DEFINE pinned == UNION {RefsOf(L[p], "pins") : p \in CanonPins(L, ns, o)}
<1>1. CanonPins(L, ns, o) \subseteq DOMAIN L
  BY DEF CanonPins, ActsIn
<1>2. pinned \subseteq DOMAIN L
  BY <1>1, EdgesWithin
<1>3. Pinned(L, ns, o) = {CurrentVersion(L, i, o) : i \in pinned}
  BY DEF Pinned, CurrentVersions
<1> HIDE DEF pinned
<1> QED
  BY <1>2, <1>3, VersionType

\* The reading list that required shows for a job is, document by document, the list
\* the claim gate enforces, for whoever sees the whole log (civic.required_reading
\* against civic.unmet_for_claim, which walk the same requirements in opposite
\* orders and with one memory each).
THEOREM OneReadingList == Spec => []RequiredIsTheClaimList
<1>1. IInv /\ Rooted => RequiredIsTheClaimList
  <2> SUFFICES ASSUME IInv, Rooted, NEW who \in Identity, NEW j \in DOMAIN log
               PROVE  Unread(log, Required(log, entries, Offset, j), who, Offset)
                        = UnmetForClaim(log, entries, Offset, log[j].ns, {j}, who)
    BY DEF RequiredIsTheClaimList
  <2> DEFINE o      == HeadOf(log)
             budget == DepthAt(entries, log[j].ns, o)
             A      == Prerequisites(log, j, o)
             B      == Pinned(log, log[j].ns, o)
  <2>1. /\ log \in Seq(Envelope) /\ Shaped(log) /\ UpTo(log, o) = DOMAIN log
        /\ log # << >> /\ log[j] \in Envelope
    BY AtHead, ElementOfSeq
  <2>2. budget \in Nat
    BY <2>1, DepthGoverned DEF Envelope
  <2>3. A \in SUBSET (DOMAIN log) /\ B \in SUBSET (DOMAIN log)
    BY <2>1, PrerequisitesType, PinnedType
  <2>4. UNION {Prerequisites(log, t, o) : t \in {j}} = A
    OBVIOUS
  <2>5. /\ Required(log, entries, o, j)
              = Expand(log, o, Expand(log, o, NothingRead, A, 1, budget), B, 0, budget)
        /\ ClaimClosure(log, entries, o, log[j].ns, {j})
              = Expand(log, o, Expand(log, o, NothingRead, B, 0, budget), A, 1, budget)
    BY <2>4 DEF Required, ClaimClosure, ClosureForPins
  <2> HIDE DEF o, A, B, budget
  <2>6. Met(Required(log, entries, o, j)) = Met(ClaimClosure(log, entries, o, log[j].ns, {j}))
    BY <2>1, <2>2, <2>3, <2>5, EitherOrder
  <2> QED
    BY <2>6 DEF Unread, UnmetForClaim, Offset, o
<1>2. Init => Rooted
  BY DEF Init, Rooted
<1> QED
  BY <1>1, <1>2, AlwaysIInv, NextKeepsRooted, PTL DEF Spec

-----------------------------------------------------------------------------
(* One walk through nests of different depths.                             *)

Walks(L) ==
    [depth : UNION {[D -> Nat] : D \in SUBSET (DOMAIN L)}, truncated : SUBSET (DOMAIN L)]

\* Where nothing was cut short, what was met requires nothing that was not.
Reported(L, o, seen) ==
    \A i \in Met(seen) : i \in seen.truncated \/ Prerequisites(L, i, o) \subseteq Met(seen)

LEMMA WalkType ==
    ASSUME NEW L, NEW seen \in Walks(L)
    PROVE  IsWalk(L, seen) /\ seen.truncated \subseteq DOMAIN L
  BY DEF Walks, IsWalk, Met

LEMMA ExpandType ==
    ASSUME NEW L \in Seq(Envelope), Shaped(L), NEW o, UpTo(L, o) = DOMAIN L,
           NEW seen \in Walks(L), NEW seeds \in SUBSET (DOMAIN L), NEW start \in Nat,
           NEW budget \in Nat, NEW out, out = Expand(L, o, seen, seeds, start, budget)
    PROVE  out \in Walks(L)
<1>1. IsWalk(L, seen) /\ seen.truncated \subseteq DOMAIN L
  BY WalkType
<1>2. PICK at : /\ Reaches(L, o, seen, seeds, start, budget, at)
                /\ out = Joined(L, seen, budget, at)
  BY ExpandIs
<1>3. DOMAIN at \subseteq DOMAIN L /\ \A i \in DOMAIN at : at[i] \in Nat
  BY <1>2 DEF Reaches
<1> DEFINE D     == Met(seen) \cup DOMAIN at
           depth == [i \in D |-> IF i \in DOMAIN at THEN at[i] ELSE seen.depth[i]]
           cut   == (seen.truncated \ DOMAIN at) \cup {i \in DOMAIN at : Cut(L, i, at[i], budget)}
<1>4. D \in SUBSET (DOMAIN L) /\ depth \in [D -> Nat]
  BY <1>1, <1>3 DEF IsWalk
<1>5. cut \in SUBSET (DOMAIN L)
  BY <1>1, <1>3
<1>6. out = [depth |-> depth, truncated |-> cut]
  BY <1>2 DEF Joined
<1> HIDE DEF D, depth, cut
<1> QED
  BY <1>4, <1>5, <1>6 DEF Walks

\* An expansion reports what it cuts, and takes a report back only of what it now
\* expands.
LEMMA ExpandReports ==
    ASSUME NEW L \in Seq(Envelope), Shaped(L), NEW o, UpTo(L, o) = DOMAIN L,
           NEW seen, Reported(L, o, seen), NEW seeds \in SUBSET (DOMAIN L), NEW start \in Nat,
           NEW budget \in Nat, NEW out, out = Expand(L, o, seen, seeds, start, budget)
    PROVE  Reported(L, o, out)
<1>1. PICK at : /\ Reaches(L, o, seen, seeds, start, budget, at)
                /\ out = Joined(L, seen, budget, at)
  BY ExpandIs
<1>2. /\ Met(out) = Met(seen) \cup DOMAIN at
      /\ out.truncated = (seen.truncated \ DOMAIN at)
                            \cup {i \in DOMAIN at : Cut(L, i, at[i], budget)}
  BY <1>1 DEF Joined, Met
<1>3. SUFFICES ASSUME NEW i \in Met(out), i \notin out.truncated
               PROVE  Prerequisites(L, i, o) \subseteq Met(out)
  BY DEF Reported
<1>4. CASE i \in DOMAIN at
  <2>1. at[i] \in Nat /\ ~Cut(L, i, at[i], budget)
    BY <1>1, <1>2, <1>3, <1>4 DEF Reaches
  <2>2. CASE RefsOf(L[i], "requires") = {}
    BY <2>2 DEF Prerequisites, CurrentVersions
  <2>3. CASE at[i] < budget
    <3>1. \A p \in Prerequisites(L, i, o) : Closer(seen, p, at[i] + 1) => p \in DOMAIN at
      BY <1>1, <1>4, <2>3 DEF Reaches
    <3> QED
      BY <1>2, <3>1 DEF Closer
  <2> QED
    BY <2>1, <2>2, <2>3 DEF Cut
<1>5. CASE i \notin DOMAIN at
  BY <1>2, <1>3, <1>5 DEF Reported
<1> QED
  BY <1>4, <1>5

\* An expansion stays within what is closed under prerequisites.
LEMMA ExpandStays ==
    ASSUME NEW L \in Seq(Envelope), Shaped(L), NEW o, UpTo(L, o) = DOMAIN L,
           NEW seen, NEW seeds \in SUBSET (DOMAIN L), NEW start \in Nat, NEW budget \in Nat,
           NEW W, \A i \in W : Prerequisites(L, i, o) \subseteq W,
           Met(seen) \subseteq W, seeds \subseteq W,
           NEW out, out = Expand(L, o, seen, seeds, start, budget)
    PROVE  Met(out) \subseteq W
<1>1. PICK at : /\ Reaches(L, o, seen, seeds, start, budget, at)
                /\ out = Joined(L, seen, budget, at)
  BY ExpandIs
<1> DEFINE wrong == {at[i] : i \in {k \in DOMAIN at : k \notin W}}
<1>2. \A i \in DOMAIN at : at[i] \in Nat
  BY <1>1 DEF Reaches
<1>3. DOMAIN at \subseteq W
  <2>1. SUFFICES ASSUME wrong # {} PROVE FALSE
    OBVIOUS
  <2>2. PICK i \in DOMAIN at : i \notin W /\ \A j \in DOMAIN at : j \notin W => at[i] <= at[j]
    <3>1. wrong \in SUBSET Nat
      BY <1>2
    <3>2. PICK w \in wrong : \A x \in wrong : w <= x
      BY <2>1, <3>1, SmallestNat
    <3> QED
      BY <3>2
  <2>3. PICK j \in DOMAIN at : at[j] = at[i] - 1 /\ i \in Prerequisites(L, j, o)
    BY <1>1, <2>2 DEF Reaches
  <2>4. j \in W
    BY <1>2, <2>2, <2>3
  <2> QED
    BY <2>2, <2>3, <2>4
<1>4. Met(out) = Met(seen) \cup DOMAIN at
  BY <1>1 DEF Joined, Met
<1> QED
  BY <1>3, <1>4

\* What Onboard's recursion asks for, nest by nest.
AreVisits(seen, L, E, o, nests, order) ==
    seen =
        [k \in 0..Len(order) |->
            IF k = 0 THEN NothingRead
            ELSE IF order[k] \in nests
            THEN ClosureForPins(L, E, order[k], o, seen[k - 1])
            ELSE seen[k - 1]]

LEMMA VisitType ==
    ASSUME NEW L \in Seq(Envelope), Shaped(L), NEW E, NEW o, UpTo(L, o) = DOMAIN L,
           NEW ns, DepthAt(E, ns, o) \in Nat, NEW seen \in Walks(L)
    PROVE  /\ ClosureForPins(L, E, ns, o, seen) \in Walks(L)
           /\ Reported(L, o, seen) => Reported(L, o, ClosureForPins(L, E, ns, o, seen))
           /\ Met(seen) \cup Pinned(L, ns, o) \subseteq Met(ClosureForPins(L, E, ns, o, seen))
<1>1. PICK seeds \in SUBSET (DOMAIN L) : seeds = Pinned(L, ns, o)
  BY PinnedType
<1>2. PICK budget \in Nat : budget = DepthAt(E, ns, o)
  OBVIOUS
<1>3. PICK out : out = ClosureForPins(L, E, ns, o, seen)
  OBVIOUS
<1>4. out = Expand(L, o, seen, seeds, 0, budget)
  BY <1>1, <1>2, <1>3 DEF ClosureForPins
<1>5. out \in Walks(L)
  BY <1>4, ExpandType
<1>6. Reported(L, o, seen) => Reported(L, o, out)
  BY <1>4, ExpandReports
<1>7. Met(seen) \subseteq Met(out) /\ seeds \subseteq Met(out)
  <2>1. 0 \in Nat
    OBVIOUS
  <2> QED
    BY <1>4, <2>1, ExpandMeets
<1> QED
  BY <1>1, <1>3, <1>5, <1>6, <1>7

LEMMA NothingReadType ==
    ASSUME NEW L
    PROVE  NothingRead \in Walks(L)
<1>1. << >> \in [{} -> Nat]
  OBVIOUS
<1>2. {} \in SUBSET (DOMAIN L)
  OBVIOUS
<1> QED
  BY <1>1, <1>2 DEF NothingRead, Walks

LEMMA VisitsExist ==
    ASSUME NEW L \in Seq(Envelope), Shaped(L), NEW E, NEW o, UpTo(L, o) = DOMAIN L,
           NEW nests, NEW n \in Nat, NEW order, Len(order) = n,
           \A k \in 1..n : order[k] \in nests => DepthAt(E, order[k], o) \in Nat
    PROVE  \E seen : AreVisits(seen, L, E, o, nests, order)
<1> DEFINE D    == 0..n
           V    == Walks(L)
           rank == [k \in D |-> k]
           Next0(k, before) == IF order[k] \in nests THEN ClosureForPins(L, E, order[k], o, before)
                               ELSE before
           step == [k \in D |->
                      [r \in [Below(D, rank, k) -> V] |->
                         IF k = 0 THEN NothingRead ELSE Next0(k, r[k - 1])]]
<1>1. rank \in [D -> Nat] /\ \A k \in D : k # 0 => k - 1 \in Below(D, rank, k)
  BY DEF Below
<1>2. \A k \in D : \A r \in [Below(D, rank, k) -> V] :
         step[k][r] = IF k = 0 THEN NothingRead ELSE Next0(k, r[k - 1])
  OBVIOUS
<1>3. \A k \in D : k # 0 => \A before \in V : Next0(k, before) \in V
  <2> SUFFICES ASSUME NEW k \in 1..n, NEW before \in V PROVE Next0(k, before) \in V
    OBVIOUS
  <2>1. CASE order[k] \in nests
    BY <2>1, VisitType
  <2>2. CASE order[k] \notin nests
    BY <2>2
  <2> QED
    BY <2>1, <2>2
<1>4. NothingRead \in V
  BY NothingReadType
<1> HIDE DEF step, rank, V, Next0
<1>5. \A k \in D : \A r \in [Below(D, rank, k) -> V] : step[k][r] \in V
  <2> HIDE DEF D
  <2> TAKE k \in D
  <2> TAKE r \in [Below(D, rank, k) -> V]
  <2>1. CASE k = 0
    BY <1>2, <1>4, <2>1
  <2>2. CASE k # 0
    <3>1. r[k - 1] \in V
      BY <1>1, <2>2
    <3> QED
      BY <1>2, <1>3, <2>2, <3>1
  <2> QED
    BY <2>1, <2>2
<1>6. PICK seen \in [D -> V] : \A k \in D : seen[k] = step[k][Earlier(D, rank, seen, k)]
  <2>1. Solvable(D, V, rank, step)
    BY <1>1, <1>5, RecursionByRank
  <2> QED
    BY <2>1 DEF Solvable
<1>7. \A k \in D : seen[k] = IF k = 0 THEN NothingRead ELSE Next0(k, seen[k - 1])
  <2> TAKE k \in D
  <2>1. Earlier(D, rank, seen, k) \in [Below(D, rank, k) -> V]
    BY DEF Earlier, Below
  <2>2. k # 0 => Earlier(D, rank, seen, k)[k - 1] = seen[k - 1]
    BY <1>1 DEF Earlier
  <2> QED
    BY <1>2, <1>6, <2>1, <2>2
<1>8. seen = [k \in D |-> IF k = 0 THEN NothingRead ELSE Next0(k, seen[k - 1])]
  BY <1>6, <1>7
<1> QED
  BY <1>8 DEF AreVisits, Next0

\* Onboarding reports what it cuts, and has met what the pins of every nest name.
LEMMA OnboardIs ==
    ASSUME NEW L \in Seq(Envelope), Shaped(L), NEW E, NEW o, UpTo(L, o) = DOMAIN L,
           NEW who, NEW n \in Nat, NEW order, Len(order) = n,
           \A k \in 1..n : DepthAt(E, order[k], o) \in Nat,
           NEW walk, walk = Onboard(L, E, o, who, order)
    PROVE  /\ Reported(L, o, walk)
           /\ \A k \in 1..n : order[k] \in CanonNests(L, E, who, o) =>
                 Pinned(L, order[k], o) \subseteq Met(walk)
<1> DEFINE nests == CanonNests(L, E, who, o)
           Is(f) == AreVisits(f, L, E, o, nests, order)
           seen  == CHOOSE f : Is(f)
<1> HIDE DEF nests
<1>1. Is(seen)
  <2>1. \E f : Is(f)
    BY VisitsExist
  <2> QED
    BY <2>1, Zenon
<1>2. walk = seen[n]
  BY DEF Onboard, AreVisits, nests
<1> HIDE DEF seen
<1>3. /\ seen[0] = NothingRead
      /\ \A k \in 1..n : seen[k] = IF order[k] \in nests
                                   THEN ClosureForPins(L, E, order[k], o, seen[k - 1])
                                   ELSE seen[k - 1]
  BY <1>1 DEF AreVisits
<1> DEFINE Fine(k) == /\ seen[k] \in Walks(L) /\ Reported(L, o, seen[k])
                      /\ \A m \in 1..k : order[m] \in nests =>
                            Pinned(L, order[m], o) \subseteq Met(seen[k])
           wrong == {k \in 0..n : ~Fine(k)}
<1>4. Fine(0)
  <2>1. Reported(L, o, NothingRead)
    BY DEF Reported, Met, NothingRead
  <2> QED
    BY <1>3, <2>1, NothingReadType
<1>5. \A k \in 1..n : Fine(k - 1) => Fine(k)
  <2> SUFFICES ASSUME NEW k \in 1..n, Fine(k - 1) PROVE Fine(k)
    OBVIOUS
  <2>1. PICK before \in Walks(L) : before = seen[k - 1]
    OBVIOUS
  <2>2. Reported(L, o, before)
    BY <2>1
  <2>3. \A m \in 1..(k - 1) : order[m] \in nests => Pinned(L, order[m], o) \subseteq Met(before)
    BY <2>1
  <2>4. \A m \in 1..k : m = k \/ m \in 1..(k - 1)
    OBVIOUS
  <2>5. CASE order[k] \in nests
    <3>1. PICK after : after = ClosureForPins(L, E, order[k], o, before)
      OBVIOUS
    <3>2. /\ after \in Walks(L) /\ Reported(L, o, after)
          /\ Met(before) \cup Pinned(L, order[k], o) \subseteq Met(after)
      BY <2>2, <3>1, VisitType
    <3>3. seen[k] = after
      BY <1>3, <2>1, <2>5, <3>1
    <3>4. \A m \in 1..k : order[m] \in nests => Pinned(L, order[m], o) \subseteq Met(after)
      BY <2>3, <2>4, <3>2
    <3> QED
      BY <3>2, <3>3, <3>4
  <2>6. CASE order[k] \notin nests
    <3>1. seen[k] = before
      BY <1>3, <2>1, <2>6
    <3> QED
      BY <2>2, <2>3, <2>4, <2>6, <3>1
  <2> QED
    BY <2>5, <2>6
<1> HIDE DEF Fine
<1>6. Fine(n)
  <2>1. SUFFICES ASSUME wrong # {} PROVE FALSE
    OBVIOUS
  <2>2. wrong \in SUBSET Nat
    OBVIOUS
  <2>3. PICK k \in wrong : \A m \in wrong : k <= m
    BY <2>1, <2>2, SmallestNat
  <2>4. k \in 1..n
    BY <1>4, <2>3
  <2>5. k - 1 \in 0..n /\ ~(k <= k - 1)
    BY <2>4
  <2>6. Fine(k - 1)
    BY <2>3, <2>5
  <2> QED
    BY <1>5, <2>3, <2>4, <2>6
<1> QED
  BY <1>2, <1>6 DEF Fine, nests

\* The page that onboarding is computed from, for a reader from whom nothing is hidden.
LEMMA WholePage ==
    ASSUME IInv, NEW who, SeesAll(who),
           NEW page, page = ViewSlice(log, entries, who, "onboard", WholeBoard, {})
    PROVE  page.log = log /\ page.offset = Offset
<1> DEFINE filter == FilterLog(log, entries, who, HeadOf(log))
<1>1. /\ log \in Seq(Envelope) /\ Len(log) \in Nat /\ DOMAIN log = 1..Len(log)
  BY AtHead
<1>2. filter.visible = DOMAIN log
  BY DEF SeesAll, FilterLog, Offset
<1>3. VisibleHead(DOMAIN log) = Len(log)
  <2> DEFINE S == DOMAIN log \cup {0}
  <2>1. Len(log) \in S /\ \A y \in S : y \in Nat /\ y <= Len(log)
    BY <1>1
  <2>2. Greatest(S) \in S /\ \A y \in S : y <= Greatest(S)
    BY <2>1, Zenon DEF Greatest
  <2> HIDE DEF S
  <2>3. Greatest(S) = Len(log)
    BY <1>1, <2>1, <2>2
  <2> QED
    BY <2>3 DEF S, VisibleHead
<1>4. Slice(log, DOMAIN log) = log
  BY <1>1 DEF Slice
<1>5. "onboard" \notin RotatingViews
  BY DEF RotatingViews
<1> HIDE DEF filter
<1>6. /\ page.offset = ViewOffset(filter.visible, {})
      /\ page.log = Slice(log, filter.visible \ {})
  BY <1>5, Zenon DEF ViewSlice, ViewOf, filter
<1> QED
  BY <1>2, <1>3, <1>4, <1>6 DEF ViewOffset, Offset, HeadOf

\* A reader from whom nothing is hidden and who is told at onboarding that nothing is
\* unread and that nothing was cut short is refused by no nest for its canon
\* (civic.onboard on the reader's page, one walk through nests of different depths,
\* against civic.unmet_for_claim on the whole log, one walk per nest).
THEOREM OnboardingIsHonest == Spec => []OnboardHidesNothing
<1>1. IInv /\ Rooted => OnboardHidesNothing
  <2> SUFFICES ASSUME IInv, Rooted, Seeded, NEW who \in Identity, SeesAll(who),
                      NEW walk, walk = Onboard(log, entries, Offset, who, NestOrder),
                      Unread(log, walk, who, Offset) = {}, walk.truncated = {},
                      NEW ns \in CanonNests(log, entries, who, Offset)
               PROVE  UnmetForClaim(log, entries, Offset, ns, {}, who) = {}
    BY WholePage DEF OnboardHidesNothing
  <2> DEFINE o == HeadOf(log)
  <2>1. o = Offset
    BY DEF Offset
  <2>2. /\ log \in Seq(Envelope) /\ Shaped(log) /\ UpTo(log, o) = DOMAIN log
        /\ Len(log) \in Nat
    BY AtHead
  <2> HIDE DEF o
  <2>3. PICK p \in DOMAIN log : ns = log[p].ns
    BY <2>1, <2>2 DEF CanonNests, ActsIn
  <2>4. log # << >> /\ ns \in Namespace
    <3>1. log[p] \in Envelope /\ DOMAIN log # {}
      BY <2>2, <2>3, ElementOfSeq
    <3> QED
      BY <2>3, <3>1 DEF Envelope
  <2>5. PICK n \in Nat : n = Len(NestOrder) /\ DOMAIN NestOrder = 1..n
    BY NestAssumption, LenProperties
  <2>6. \A k \in 1..n : NestOrder[k] \in Namespace
    BY <2>5, NestAssumption, ElementOfSeq
  <2>7. \A k \in 1..n : DepthAt(entries, NestOrder[k], o) \in Nat
    BY <2>4, <2>6, DepthGoverned DEF o
  <2>8. PICK k \in 1..n : NestOrder[k] = ns
    BY <2>4, <2>5, NestAssumption
  <2>9. Reported(log, o, walk) /\ Pinned(log, ns, o) \subseteq Met(walk)
    <3>1. walk = Onboard(log, entries, o, who, NestOrder)
      BY <2>1
    <3>2. /\ Reported(log, o, walk)
          /\ \A m \in 1..n : NestOrder[m] \in CanonNests(log, entries, who, o) =>
                Pinned(log, NestOrder[m], o) \subseteq Met(walk)
      BY <2>2, <2>5, <2>7, <3>1, OnboardIs
    <3> QED
      BY <2>1, <2>8, <3>2
  <2>10. \A i \in Met(walk) : Prerequisites(log, i, o) \subseteq Met(walk)
    BY <2>9 DEF Reported
  <2>11. PICK budget \in Nat : budget = DepthAt(entries, ns, o)
    BY <2>7, <2>8
  <2>12. PICK first : first = Expand(log, o, NothingRead, Pinned(log, ns, o), 0, budget)
    OBVIOUS
  <2>13. Met(first) \subseteq Met(walk)
    <3>1. PICK seeds \in SUBSET (DOMAIN log) : seeds = Pinned(log, ns, o)
      BY <2>2, PinnedType
    <3>2. Met(NothingRead) \subseteq Met(walk)
      BY DEF Met, NothingRead
    <3>3. 0 \in Nat
      OBVIOUS
    <3> QED
      BY <2>2, <2>9, <2>10, <2>12, <3>1, <3>2, <3>3, ExpandStays
  <2>14. PICK second : second = ClaimClosure(log, entries, o, ns, {})
    OBVIOUS
  <2>15. second = Expand(log, o, first, {}, 1, budget)
    <3>1. UNION {Prerequisites(log, t, o) : t \in {}} = {}
      OBVIOUS
    <3> QED
      BY <2>11, <2>12, <2>14, <3>1 DEF ClaimClosure, ClosureForPins
  <2>16. Met(second) \subseteq Met(walk)
    <3>1. {} \in SUBSET (DOMAIN log) /\ {} \subseteq Met(walk) /\ 1 \in Nat
      OBVIOUS
    <3> QED
      BY <2>2, <2>10, <2>13, <2>15, <3>1, ExpandStays
  <2> QED
    BY <2>1, <2>14, <2>16 DEF UnmetForClaim, Unread
<1>2. Init => Rooted
  BY DEF Init, Rooted
<1> QED
  BY <1>1, <1>2, AlwaysIInv, NextKeepsRooted, PTL DEF Spec

-----------------------------------------------------------------------------
(* The pin budget.                                                         *)

\* On a board with a root law, every nest has rules.
NestsRuled == log # << >> => \A ns \in Namespace : RulesAt(ns) \in Rules

LEMMA AllGoverned == IInv /\ Rooted => NestsRuled
  BY Governed DEF NestsRuled

\* A post adds to the pins in force in a nest itself at most, and retires those that
\* it supersedes.
LEMMA PinsMove ==
    ASSUME IInv, NEW env, Joins(env), NEW ns
    PROVE  /\ IsFiniteSet(CanonPins(log, ns, HeadOf(log)))
           /\ Len(log) + 1 \notin CanonPins(log, ns, HeadOf(log))
           /\ CanonPins(log', ns, HeadOf(log'))
                = (CanonPins(log, ns, HeadOf(log)) \ RefsOf(env, "supersedes"))
                    \cup {k \in {Len(log) + 1} : IsCanonPin(env) /\ env.ns = ns}
<1> DEFINE n == Len(log)
<1>1. /\ n \in Nat
      /\ UpTo(log, HeadOf(log)) = 1..n /\ UpTo(log', HeadOf(log')) = 1..(n + 1)
      /\ \A i \in 1..n : log'[i] = log[i]
      /\ log'[n + 1] = env
      /\ n + 1 \notin RefsOf(env, "supersedes")
      /\ \A i \in 1..n : n + 1 \notin RefsOf(log[i], "supersedes")
  BY GrownLog
<1> DEFINE pins == CanonPins(log, ns, HeadOf(log))
           more == CanonPins(log', ns, HeadOf(log'))
<1>2. pins = {p \in 1..n : /\ log[p].type = "PIN" /\ log[p].ns = ns /\ log[p].ext.canon
                           /\ \A i \in 1..n : p \notin RefsOf(log[i], "supersedes")}
  BY <1>1 DEF CanonPins, ActsIn, Superseded, Inbound
<1>3. more = {p \in 1..(n + 1) : /\ log'[p].type = "PIN" /\ log'[p].ns = ns /\ log'[p].ext.canon
                                 /\ \A i \in 1..(n + 1) : p \notin RefsOf(log'[i], "supersedes")}
  BY <1>1 DEF CanonPins, ActsIn, Superseded, Inbound
<1> HIDE DEF pins, more
<1>4. \A p \in 1..n : p \in more <=> p \in pins /\ p \notin RefsOf(env, "supersedes")
  BY <1>1, <1>2, <1>3
<1>5. n + 1 \in more <=> IsCanonPin(env) /\ env.ns = ns
  BY <1>1, <1>3 DEF IsCanonPin
<1>6. pins \subseteq 1..n /\ more \subseteq 1..(n + 1) /\ n + 1 \notin 1..n
      /\ 1..(n + 1) = 1..n \cup {n + 1}
  BY <1>1, <1>2, <1>3
<1>7. IsFiniteSet(pins)
  <2>1. IsFiniteSet(1..n)
    BY <1>1, FS_Interval
  <2> QED
    BY <1>6, <2>1, FS_Subset
<1>8. more = (pins \ RefsOf(env, "supersedes")) \cup {k \in {n + 1} : IsCanonPin(env) /\ env.ns = ns}
  <2>1. \A p \in more : p \in (pins \ RefsOf(env, "supersedes")) \/ (p = n + 1 /\ IsCanonPin(env) /\ env.ns = ns)
    BY <1>4, <1>5, <1>6
  <2> HIDE DEF n
  <2> QED
    BY <1>4, <1>5, <1>6, <2>1
<1> QED
  BY <1>6, <1>7, <1>8 DEF pins, more

\* The gate's check of a pin is enough: one more than before where there is room, no
\* more than before where one of them is replaced.
LEMMA PinsFit ==
    ASSUME IInv, Rooted, NEW d \in Drafts, Post(d), NEW ns \in Namespace, NEW budget \in Nat,
           budget = RulesAt(ns).max_pins,
           Cardinality(CanonPins(log, ns, HeadOf(log))) <= budget
    PROVE  Cardinality(CanonPins(log', ns, HeadOf(log'))) <= budget
<1> DEFINE n   == Len(log)
           env == Sequenced(d, BandOf(d), now)
           S   == RefsOf(d, "supersedes")
<1>1. PICK pins : pins = CanonPins(log, ns, HeadOf(log))
  OBVIOUS
<1>2. PICK more : more = CanonPins(log', ns, HeadOf(log'))
  OBVIOUS
<1>3. Joins(env) /\ Accepts(d)
  BY PostJoins DEF Post
<1>4. RefsOf(env, "supersedes") = S /\ (IsCanonPin(env) <=> IsCanonPin(d)) /\ env.ns = d.ns
  BY DEF Sequenced, RefsOf, IsCanonPin
<1> HIDE DEF env
<1>5. /\ IsFiniteSet(pins) /\ n + 1 \notin pins
      /\ more = (pins \ S) \cup {k \in {n + 1} : IsCanonPin(d) /\ d.ns = ns}
  BY <1>1, <1>2, <1>3, <1>4, PinsMove
<1> HIDE DEF n, S
<1>6. Cardinality(pins) \in Nat /\ Cardinality(pins) <= budget
  BY <1>1, <1>5, FS_CardinalityType
<1>7. CASE ~(IsCanonPin(d) /\ d.ns = ns)
  <2>1. more \subseteq pins
    BY <1>5, <1>7
  <2>2. IsFiniteSet(more) /\ Cardinality(more) <= Cardinality(pins)
    BY <1>5, <2>1, FS_Subset
  <2>3. Cardinality(more) \in Nat
    BY <2>2, FS_CardinalityType
  <2> QED
    BY <1>2, <1>6, <2>2, <2>3
<1>8. CASE IsCanonPin(d) /\ d.ns = ns
  <2>1. CanonPins(log, ns, NextId(log)) = pins
    <3>1. UpTo(log, NextId(log)) = UpTo(log, HeadOf(log))
      BY AtHead
    <3> QED
      BY <1>1, <3>1, SameReads
  <2>2. budget # NoBudget
    BY DEF NoBudget
  <2>3. Cardinality(pins) < budget \/ S \cap pins # {}
    BY <1>3, <1>8, <2>1, <2>2 DEF Accepts, PinBudgetOK, S
  <2>4. CASE Cardinality(pins) < budget
    <3>1. more \subseteq pins \cup {n + 1}
      BY <1>5
    <3>2. /\ IsFiniteSet(pins \cup {n + 1})
          /\ Cardinality(pins \cup {n + 1}) = Cardinality(pins) + 1
      BY <1>5, FS_AddElement
    <3>3. IsFiniteSet(more) /\ Cardinality(more) <= Cardinality(pins) + 1
      BY <3>1, <3>2, FS_Subset
    <3>4. Cardinality(more) \in Nat
      BY <3>3, FS_CardinalityType
    <3> QED
      BY <1>2, <1>6, <2>4, <3>3, <3>4
  <2>5. CASE S \cap pins # {}
    <3>1. PICK x \in pins : x \in S
      BY <2>5
    <3>2. more \subseteq (pins \ {x}) \cup {n + 1} /\ n + 1 \notin pins \ {x}
      BY <1>5, <3>1
    <3>3. IsFiniteSet(pins \ {x}) /\ Cardinality(pins \ {x}) = Cardinality(pins) - 1
      BY <1>5, <3>1, FS_RemoveElement
    <3>4. /\ IsFiniteSet((pins \ {x}) \cup {n + 1})
          /\ Cardinality((pins \ {x}) \cup {n + 1}) = Cardinality(pins \ {x}) + 1
      BY <3>2, <3>3, FS_AddElement
    <3>5. /\ IsFiniteSet(more)
          /\ Cardinality(more) <= Cardinality((pins \ {x}) \cup {n + 1})
      BY <3>2, <3>4, FS_Subset
    <3>6. Cardinality(more) \in Nat
      BY <3>5, FS_CardinalityType
    <3> QED
      BY <1>2, <1>6, <3>3, <3>4, <3>5, <3>6
  <2> QED
    BY <2>3, <2>4, <2>5
<1> QED
  BY <1>7, <1>8

\* No sequence of pins, replacements and retirements takes a nest past its budget, as
\* long as no law sets one that is exceeded from the start (the pin budget of
\* validate._check_policy; nothing refuses such a law).
THEOREM PinsStayWithinBudget == Spec /\ [][LawLeavesRoom]_vars => []PinBudgetHolds
<1>2. Init => PinBudgetHolds
  BY DEF Init, PinBudgetHolds
<1>3. IInv /\ Rooted /\ PinBudgetHolds /\ [Next]_vars /\ [LawLeavesRoom]_vars => PinBudgetHolds'
  <2> SUFFICES ASSUME IInv, Rooted, PinBudgetHolds, [Next]_vars, [LawLeavesRoom]_vars
               PROVE  PinBudgetHolds'
    OBVIOUS
  <2>1. CASE log' = log /\ entries' = entries
    BY <2>1 DEF PinBudgetHolds, Offset, RulesAt
  <2>2. CASE \E policy \in GenesisPolicies : Genesis(policy)
    <3>1. PICK policy \in GenesisPolicies : Genesis(policy)
      BY <2>2
    <3> DEFINE env == Sequenced(GenesisDraft(policy), "human", now)
    <3>2. Joins(env) /\ ~IsCanonPin(env)
      BY <3>1, GenesisJoins DEF Sequenced, GenesisDraft, IsCanonPin
    <3> HIDE DEF env
    <3>3. IInv' /\ Rooted' /\ log' # << >>
      <4>1. Len(log') = Len(log) + 1 /\ Len(log) \in Nat
        BY <3>2, LogGrows DEF IInv, TypeOK, Joins
      <4>2. log' # << >>
        BY <4>1
      <4> QED
        BY <4>2, NextKeepsIInv, NextKeepsRooted
    <3>4. \A ns \in Namespace : CanonPins(log', ns, HeadOf(log')) = {}
      <4> TAKE ns \in Namespace
      <4>1. log = << >>
        BY <3>1 DEF Genesis
      <4>2. CanonPins(log, ns, HeadOf(log)) = {}
        BY <4>1 DEF CanonPins, ActsIn, UpTo
      <4> QED
        BY <3>2, <4>2, PinsMove
    <3>5. \A ns \in Namespace : RulesAt(ns)' \in Rules
      <4>1. NestsRuled'
        BY <3>3, AllGoverned, PTL
      <4> QED
        BY <3>3, <4>1 DEF NestsRuled
    <3>6. \A ns \in Namespace : RulesAt(ns)'.max_pins # NoBudget => RulesAt(ns)'.max_pins \in Nat
      BY <3>5 DEF Rules
    <3>7. Cardinality({}) = 0
      BY FS_EmptySet
    <3>8. \A ns \in Namespace : Cardinality(CanonPins(log', ns, HeadOf(log'))) = 0
      BY <3>4, <3>7
    <3> QED
      BY <3>6, <3>8 DEF PinBudgetHolds, Offset
  <2>3. CASE \E d \in Drafts : Post(d)
    <3>1. PICK d \in Drafts : Post(d)
      BY <2>3
    <3>2. log # << >> /\ Len(log') = Len(log) + 1 /\ Len(log) \in Nat
      BY <3>1, PostJoins, LogGrows DEF Post, IInv, TypeOK, Joins
    <3>3. LawLeavesRoom
      BY <3>2 DEF vars
    <3> SUFFICES ASSUME NEW ns \in Namespace, RulesAt(ns)'.max_pins # NoBudget
                 PROVE  Cardinality(CanonPins(log', ns, HeadOf(log'))) <= RulesAt(ns)'.max_pins
      BY DEF PinBudgetHolds, Offset
    <3>4. CASE RulesAt(ns)'.max_pins # RulesAt(ns).max_pins
      BY <3>3, <3>4 DEF LawLeavesRoom, Offset
    <3>5. CASE RulesAt(ns)'.max_pins = RulesAt(ns).max_pins
      <4>1. RulesAt(ns).max_pins \in Nat
        BY <3>2, <3>5, Governed DEF Rules
      <4>2. Cardinality(CanonPins(log, ns, HeadOf(log))) <= RulesAt(ns).max_pins
        BY <3>2, <3>5 DEF PinBudgetHolds, Offset
      <4> QED
        BY <3>1, <3>5, <4>1, <4>2, PinsFit
    <3> QED
      BY <3>4, <3>5
  <2> QED
    BY <2>1, <2>2, <2>3 DEF Next, Tick, vars
<1>4. Init => Rooted
  BY DEF Init, Rooted
<1> QED
  BY <1>2, <1>3, <1>4, AlwaysIInv, NextKeepsRooted, PTL DEF Spec

-----------------------------------------------------------------------------
(* Who moves canon.                                                        *)

\* A chain that goes on ends where the last of what comes next does.
LEMMA FollowOn ==
    ASSUME NEW n, NEW D, NEW next, Onward(n, D, next), NEW k \in D, next[k] # {}
    PROVE  Follow(next)[k] = Follow(next)[Greatest(next[k])]
BY FollowIs

\* A post moves the end of a chain to itself, where it supersedes a link of it, and
\* no other end.
LEMMA FollowStep ==
    ASSUME NEW n, NEW D, NEW next, Onward(n, D, next),
           NEW m, NEW E, NEW further, Onward(m, E, further), D \subseteq E,
           NEW S, NEW x \in E, further[x] = {},
           \A k \in D : k < x /\ further[k] = next[k] \cup {j \in {x} : k \in S}
    PROVE  \A k \in D :
              \/ Follow(further)[k] = Follow(next)[k]
              \/ /\ Follow(further)[k] = x
                 /\ \E j \in S \cap D : Follow(next)[j] = Follow(next)[k]
<1> DEFINE Moves(k) == \/ Follow(further)[k] = Follow(next)[k]
                       \/ /\ Follow(further)[k] = x
                          /\ \E j \in S \cap D : Follow(next)[j] = Follow(next)[k]
           wrong == {k \in D : ~Moves(k)}
<1>1. SUFFICES ASSUME wrong # {} PROVE FALSE
  OBVIOUS
<1>2. n \in Nat /\ wrong \in SUBSET (1..n)
  BY DEF Onward
<1>3. PICK k \in wrong : \A j \in wrong : j <= k
  <2> HIDE DEF wrong
  <2> QED
    BY <1>1, <1>2, GreatestOffset
<1>4. /\ k \in D /\ k \in E /\ k \in 1..n /\ ~Moves(k)
      /\ further[k] = next[k] \cup {j \in {x} : k \in S}
  BY <1>2, <1>3
<1>5. CASE k \in S
  <2>1. x \in further[k]
    BY <1>4, <1>5
  <2>2. PICK g \in E : g = Greatest(further[k]) /\ g \in further[k]
    BY <1>4, <2>1, NextLink
  <2>3. x <= g
    <3>1. further[k] \in SUBSET (1..m) /\ m \in Nat
      BY <1>4 DEF Onward
    <3> QED
      BY <2>1, <2>2, <3>1, GreatestOffset
  <2>4. g \in next[k] => g \in D
    BY <1>4 DEF Onward
  <2>5. x \in Nat /\ (g \in D => g \in Nat /\ g < x)
    BY DEF Onward
  <2>6. g = x
    BY <1>4, <2>2, <2>3, <2>4, <2>5
  <2>7. Follow(further)[x] = x
    BY FollowIs
  <2>8. Follow(further)[k] = Follow(further)[x]
    <3>1. further[k] # {} /\ Greatest(further[k]) = x
      BY <2>1, <2>2, <2>6
    <3>2. Follow(further)[k] = Follow(further)[Greatest(further[k])]
      BY <1>4, <3>1, FollowOn
    <3> QED
      BY <3>1, <3>2
  <2> QED
    BY <1>4, <1>5, <2>7, <2>8
<1>6. CASE k \notin S /\ next[k] = {}
  <2>1. further[k] = {}
    BY <1>4, <1>6
  <2> QED
    BY <1>4, <1>6, <2>1, FollowIs
<1>7. CASE k \notin S /\ next[k] # {}
  <2>1. further[k] = next[k]
    BY <1>4, <1>7
  <2>2. PICK j \in D : j = Greatest(next[k]) /\ k < j
    BY <1>4, <1>7, NextLink
  <2>3. j \in 1..n /\ ~(j <= k)
    BY <1>4, <2>2 DEF Onward
  <2>4. Moves(j)
    BY <1>3, <2>2, <2>3
  <2>5. Follow(next)[k] = Follow(next)[j]
    BY <1>4, <1>7, <2>2, FollowIs
  <2>6. Follow(further)[k] = Follow(further)[j]
    BY <1>4, <1>7, <2>1, <2>2, FollowIs
  <2> QED
    BY <1>4, <2>4, <2>5, <2>6
<1> QED
  BY <1>5, <1>6, <1>7

\* What a post makes of the version in force of a document.
LEMMA VersionMoves ==
    ASSUME IInv, NEW env, Joins(env), NEW i \in DOMAIN log
    PROVE  LET S      == RefsOf(env, "supersedes")
               before == CurrentVersion(log, i, HeadOf(log))
               after  == CurrentVersion(log', i, HeadOf(log'))
           IN  \/ after = before
               \/ /\ after = Len(log')
                  /\ \E j \in S : j \in DOMAIN log /\ CurrentVersion(log, j, HeadOf(log)) = before
<1> DEFINE n       == Len(log)
           S       == RefsOf(env, "supersedes")
           next    == [k \in DOMAIN log |-> Inbound(log, k, "supersedes", HeadOf(log))]
           further == [k \in DOMAIN log' |-> Inbound(log', k, "supersedes", HeadOf(log'))]
<1>1. /\ n \in Nat /\ Len(log') = n + 1
      /\ DOMAIN log = 1..n /\ DOMAIN log' = 1..(n + 1)
      /\ UpTo(log, HeadOf(log)) = 1..n /\ UpTo(log', HeadOf(log')) = 1..(n + 1)
      /\ \A k \in 1..n : log'[k] = log[k]
      /\ log'[n + 1] = env
      /\ n + 1 \notin S
      /\ \A k \in 1..n : n + 1 \notin RefsOf(log[k], "supersedes")
      /\ log \in Seq(Envelope) /\ Shaped(log) /\ log' \in Seq(Envelope) /\ Shaped(log')
  BY GrownLog DEF HeadOf
<1>2. Onward(n, DOMAIN log, next)
  BY <1>1 DEF Onward, Inbound, RefsOf, Shaped
<1>3. Onward(n + 1, DOMAIN log', further)
  BY <1>1 DEF Onward, Inbound, RefsOf, Shaped
<1>4. \A k \in DOMAIN log : further[k] = next[k] \cup {j \in {n + 1} : k \in S}
  <2> TAKE k \in DOMAIN log
  <2>1. further[k] = {j \in 1..(n + 1) : k \in RefsOf(log'[j], "supersedes")}
    BY <1>1 DEF Inbound
  <2>2. next[k] = {j \in 1..n : k \in RefsOf(log[j], "supersedes")}
    BY <1>1 DEF Inbound
  <2> HIDE DEF S, next, further
  <2>3. \A j \in 1..n : j \in further[k] <=> j \in next[k]
    BY <1>1, <2>1, <2>2
  <2>4. n + 1 \in further[k] <=> k \in S
    BY <1>1, <2>1 DEF S
  <2> HIDE DEF n
  <2> QED
    BY <1>1, <2>1, <2>2, <2>3, <2>4
<1>5. n + 1 \in DOMAIN log' /\ further[n + 1] = {}
  <2>1. \A j \in 1..(n + 1) : n + 1 \notin RefsOf(log'[j], "supersedes")
    BY <1>1
  <2> QED
    BY <1>1, <2>1 DEF Inbound
<1>6. DOMAIN log \subseteq DOMAIN log' /\ \A k \in DOMAIN log : k < n + 1
  BY <1>1
<1>7. /\ \A k : CurrentVersion(log, k, HeadOf(log)) = Follow(next)[k]
      /\ \A k : CurrentVersion(log', k, HeadOf(log')) = Follow(further)[k]
  BY <1>1 DEF CurrentVersion
<1> HIDE DEF n, S, next, further
<1>8. \/ Follow(further)[i] = Follow(next)[i]
      \/ /\ Follow(further)[i] = n + 1
         /\ \E j \in S \cap DOMAIN log : Follow(next)[j] = Follow(next)[i]
  BY <1>2, <1>3, <1>4, <1>5, <1>6, FollowStep
<1> QED
  BY <1>1, <1>7, <1>8 DEF S

\* Where a quorum is asked for, and there is one, some proposal has it.
LEMMA SupportIsBacking ==
    ASSUME IInv, NEW derived \in SUBSET (DOMAIN log), NEW quorum \in Nat \ {0},
           ReplacementSupport(log, derived, NextId(log)) >= quorum
    PROVE  \E t \in derived : log[t].type = "PROPOSAL" /\ Cardinality(BackersOf(t)) >= quorum
<1> DEFINE backing == {Cardinality(Endorsers(log, p, NextId(log))) : p \in Proposals(log, derived)}
<1>1. \A p : Endorsers(log, p, NextId(log)) = BackersOf(p)
  BY AtHead DEF Endorsers, BackersOf, Inbound
<1>2. \A p : Cardinality(BackersOf(p)) \in 0..Len(log)
  <2> TAKE p
  <2> DEFINE by      == {k \in DOMAIN log : p \in RefsOf(log[k], "endorses")}
             authors == {log[e].author : e \in by}
             author  == [e \in by |-> log[e].author]
  <2>1. IsFiniteSet(DOMAIN log) /\ Cardinality(DOMAIN log) = Len(log) /\ Len(log) \in Nat
    <3>1. Len(log) \in Nat /\ DOMAIN log = 1..Len(log)
      BY AtHead
    <3>2. /\ IsFiniteSet(1..Len(log))
          /\ Cardinality(1..Len(log)) = IF 1 > Len(log) THEN 0 ELSE Len(log) - 1 + 1
      <4>1. 1 \in Int /\ Len(log) \in Int
        BY <3>1
      <4> QED
        BY <4>1, FS_Interval
    <3>3. (IF 1 > Len(log) THEN 0 ELSE Len(log) - 1 + 1) = Len(log)
      BY <3>1
    <3> QED
      BY <3>1, <3>2, <3>3
  <2>2. IsFiniteSet(by) /\ Cardinality(by) <= Len(log)
    BY <2>1, FS_Subset
  <2>3. author \in Surjection(by, authors)
    BY DEF Surjection
  <2> HIDE DEF by, authors, author
  <2>4. IsFiniteSet(authors) /\ Cardinality(authors) <= Cardinality(by)
    BY <2>2, <2>3, FS_Surjection
  <2>5. BackersOf(p) \subseteq authors
    BY DEF BackersOf, authors, by
  <2>6. IsFiniteSet(BackersOf(p)) /\ Cardinality(BackersOf(p)) <= Cardinality(authors)
    BY <2>4, <2>5, FS_Subset
  <2>7. Cardinality(BackersOf(p)) \in Nat /\ Cardinality(authors) \in Nat /\ Cardinality(by) \in Nat
    BY <2>2, <2>4, <2>6, FS_CardinalityType
  <2> QED
    BY <2>1, <2>2, <2>4, <2>6, <2>7
<1>3. {0} \cup backing \in SUBSET (0..Len(log)) /\ Len(log) \in Nat
  BY <1>1, <1>2, AtHead
<1>4. ReplacementSupport(log, derived, NextId(log)) = Greatest({0} \cup backing)
  BY DEF ReplacementSupport
<1> HIDE DEF backing
<1>5. Greatest({0} \cup backing) \in {0} \cup backing
  <2> DEFINE shifted == {y + 1 : y \in {0} \cup backing}
  <2>1. shifted \in SUBSET (1..(Len(log) + 1)) /\ shifted # {}
    BY <1>3
  <2>2. PICK g \in shifted : \A y \in shifted : y <= g
    <3> HIDE DEF shifted
    <3>1. Len(log) + 1 \in Nat
      BY <1>3
    <3> QED
      BY <2>1, <3>1, GreatestOffset
  <2>3. PICK y \in {0} \cup backing : g = y + 1
    BY <2>2
  <2>4. \A z \in {0} \cup backing : z <= y
    <3> TAKE z \in {0} \cup backing
    <3>1. z + 1 <= g
      BY <2>2
    <3>2. z \in Int /\ y \in Int
      BY <1>3
    <3> QED
      BY <2>3, <3>1, <3>2
  <2> QED
    BY <2>3, <2>4, Zenon DEF Greatest
<1>6. Greatest({0} \cup backing) \in backing
  BY <1>4, <1>5
<1>7. PICK p \in Proposals(log, derived) :
         Greatest({0} \cup backing) = Cardinality(Endorsers(log, p, NextId(log)))
  BY <1>6 DEF backing
<1> QED
  BY <1>1, <1>4, <1>7 DEF Proposals

\* What the gate asks of who supersedes a document of the canon nest (validate.py,
\* the amendment check of _check_policy).
LEMMA AmendedByRule ==
    ASSUME IInv, CanonLawStands, NEW d, RefsOf(d, "derives-from") \subseteq DOMAIN log,
           MayAmend(d, BandOf(d)),
           NEW j \in RefsOf(d, "supersedes"), log[j].ns = CanonNs, log[j].type # "POLICY"
    PROVE  /\ BandOf(d) \in {"maintainer", "human"}
           /\ \E t \in RefsOf(d, "derives-from") :
                 log[t].type = "PROPOSAL" /\ Cardinality(BackersOf(t)) >= QuorumOf(CanonNs)
<1>1. RulesAt(CanonNs).amend = CanonRules.amend
  BY DEF CanonLawStands
<1>2. CanonRules.amend = [rule |-> "pin-or-quorum", min_endorsements |-> 3,
                          adjudicator |-> "maintainer"]
  BY DEF CanonRules, PlainRules
<1>3. RulesAt(CanonNs).amend.min_endorsements = 3 /\ RulesAt(CanonNs).amend.adjudicator = "maintainer"
  BY <1>1, <1>2
<1>4. /\ InRole("maintainer", BandOf(d))
      /\ ReplacementSupport(log, RefsOf(d, "derives-from"), NextId(log)) >= 3
  BY <1>3 DEF MayAmend
<1>5. BandOf(d) \in {"maintainer", "human"}
  BY <1>4 DEF InRole, NoBand
<1>6. \E t \in RefsOf(d, "derives-from") :
         log[t].type = "PROPOSAL" /\ Cardinality(BackersOf(t)) >= 3
  BY <1>4, SupportIsBacking
<1> QED
  BY <1>3, <1>5, <1>6 DEF QuorumOf

\* What the gate asks of who pins a document as canon.
LEMMA PinnedByRule ==
    ASSUME IInv, CanonLawStands, NEW d, CanonPinOK(d), IsCanonPin(d), d.ns = CanonNs,
           NEW t \in RefsOf(d, "pins"), t \in DOMAIN log
    PROVE  Seat(d.author, log[t].ns) \/ Backed(t, log[t], QuorumOf(CanonNs))
<1>1. RulesAt(CanonNs).amend = CanonRules.amend
  BY DEF CanonLawStands
<1>2. CanonRules.amend = [rule |-> "pin-or-quorum", min_endorsements |-> 3,
                          adjudicator |-> "maintainer"]
  BY DEF CanonRules, PlainRules
<1>3. RulesAt(CanonNs).amend.rule = "pin-or-quorum" /\ RulesAt(CanonNs).amend.min_endorsements = 3
  BY <1>1, <1>2
<1>4. Enacted(d, t)
  BY DEF CanonPinOK
<1>5. \/ HoldsGrant(entries, d.author, log[t].ns, NextId(log), "maintainer")
      \/ SupportFor(t) >= 3
  BY <1>3, <1>4 DEF Enacted
<1>6. CASE HoldsGrant(entries, d.author, log[t].ns, NextId(log), "maintainer")
  <2>1. GrantsAt(entries, NextId(log)) = GrantsAt(entries, HeadOf(log))
    BY AtHead, GrantsOfInForce
  <2> QED
    BY <1>6, <2>1 DEF Seat, HoldsGrant, Offset
<1>7. CASE SupportFor(t) >= 3 /\ RefsOf(log[t], "supersedes") # {}
  <2>1. RefsOf(log[t], "derives-from") \subseteq DOMAIN log
    BY AtHead, EdgesWithin
  <2>2. ReplacementSupport(log, RefsOf(log[t], "derives-from"), NextId(log)) >= 3
    BY <1>7 DEF SupportFor
  <2>3. \E p \in RefsOf(log[t], "derives-from") :
           log[p].type = "PROPOSAL" /\ Cardinality(BackersOf(p)) >= 3
    BY <2>1, <2>2, SupportIsBacking
  <2> QED
    BY <1>3, <2>3 DEF Backed, QuorumOf
<1>8. CASE SupportFor(t) >= 3 /\ RefsOf(log[t], "supersedes") = {}
  <2>1. Endorsers(log, t, NextId(log)) = BackersOf(t)
    BY AtHead DEF Endorsers, BackersOf, Inbound
  <2>2. Cardinality(BackersOf(t)) >= 3
    BY <1>8, <2>1 DEF SupportFor
  <2> QED
    BY <1>3, <2>2 DEF Backed, QuorumOf
<1> QED
  BY <1>5, <1>6, <1>7, <1>8

\* Nobody alone decides what everybody must read: canon is moved by the seat, by a
\* quorum of others, or by a new version of what was canon; and what stands in the
\* canon nest leaves it only by amendment.
THEOREM CanonIsMovedByRule == Spec => CanonMovesByRule
<1> DEFINE Moves == /\ \A i \in CanonNow' \ CanonNow : EntersByRule(i)
                    /\ \A i \in {k \in CanonNow \ CanonNow' : log[k].ns = CanonNs} : LeavesByRule(i)
<1>1. IInv /\ [Next]_vars => [Seeded /\ CanonLawStands => Moves]_vars
  <2> SUFFICES ASSUME IInv, Next, Seeded, CanonLawStands, log' # log PROVE Moves
    <3>1. log' = log => CanonNow' = CanonNow
      BY DEF CanonNow, Offset
    <3>2. log' = log => Moves
      BY <3>1
    <3> HIDE DEF Moves
    <3> QED
      BY <3>2
  <2>1. PICK d \in Drafts : Post(d)
    <3>1. log # << >>
      <4>1. Plan \in Seq(Drafts)
        BY SeedAssumption
      <4>2. Len(Plan) \in Nat
        BY <4>1, LenProperties
      <4> QED
        BY <4>2 DEF Seeded
    <3> QED
      BY <3>1 DEF Next, Genesis, Tick
  <2> DEFINE n   == Len(log)
             env == Sequenced(d, BandOf(d), now)
             S   == RefsOf(d, "supersedes")
             Pins(L)     == CanonPins(L, CanonNs, HeadOf(L))
             Version(L, i) == CurrentVersion(L, i, HeadOf(L))
  <2>2. Joins(env) /\ Accepts(d)
    BY <2>1, PostJoins DEF Post
  <2>3. /\ \A e : RefsOf(env, e) = RefsOf(d, e)
        /\ env.author = d.author /\ env.band = BandOf(d) /\ env.ns = d.ns
        /\ IsCanonPin(env) <=> IsCanonPin(d)
    BY DEF Sequenced, RefsOf, IsCanonPin
  <2> HIDE DEF env
  <2>4. /\ n \in Nat /\ Len(log') = n + 1 /\ Posted = env /\ log'[n + 1] = env
        /\ DOMAIN log = 1..n
        /\ \A i \in DOMAIN log : log'[i] = log[i]
        /\ log \in Seq(Envelope) /\ Shaped(log)
    BY <2>2, GrownLog DEF HeadOf, Posted
  <2>5. \A e : RefsOf(d, e) \subseteq DOMAIN log
    BY <2>2 DEF Accepts, RefsExist, RefsOf
  <2>6. CanonNow = {Version(log, i) : i \in UNION {RefsOf(log[p], "pins") : p \in Pins(log)}}
    BY DEF CanonNow, Pinned, CurrentVersions, Offset
  <2>7. CanonNow' = {Version(log', i) : i \in UNION {RefsOf(log'[p], "pins") : p \in Pins(log')}}
    BY DEF CanonNow, Pinned, CurrentVersions, Offset
  <2>8. /\ n + 1 \notin Pins(log) /\ Pins(log) \subseteq DOMAIN log
        /\ Pins(log') = (Pins(log) \ S) \cup {k \in {n + 1} : IsCanonPin(d) /\ d.ns = CanonNs}
        /\ \A p \in Pins(log) : log[p].type = "PIN" /\ log[p].ns = CanonNs
    <3>1. Pins(log) \subseteq DOMAIN log /\ \A p \in Pins(log) : log[p].type = "PIN" /\ log[p].ns = CanonNs
      BY AtHead DEF CanonPins, ActsIn
    <3>2. /\ n + 1 \notin Pins(log)
          /\ Pins(log') = (Pins(log) \ RefsOf(env, "supersedes"))
                             \cup {k \in {n + 1} : IsCanonPin(env) /\ env.ns = CanonNs}
      BY <2>2, PinsMove
    <3> HIDE DEF n, Pins
    <3> QED
      BY <2>3, <3>1, <3>2
  <2>9. \A i \in DOMAIN log :
           \/ Version(log', i) = Version(log, i)
           \/ Version(log', i) = n + 1 /\ \E j \in S : Version(log, j) = Version(log, i)
    BY <2>2, <2>3, <2>4, VersionMoves
  <2>10. /\ \A k : CurrentVersion(log, k, Offset) = Version(log, k)
         /\ \A k : CurrentVersion(log', k, Offset') = Version(log', k)
    BY DEF Offset
  <2> HIDE DEF n, S, Pins, Version
  <2>11. ASSUME NEW i \in CanonNow' \ CanonNow PROVE EntersByRule(i)
    <3>0. PICK p \in Pins(log') : \E t \in RefsOf(log'[p], "pins") : i = Version(log', t)
      BY <2>7
    <3>1. PICK t \in RefsOf(log'[p], "pins") : i = Version(log', t)
      BY <3>0
    <3>2. CASE p \in Pins(log)
      <4>1. t \in RefsOf(log[p], "pins") /\ t \in DOMAIN log
        BY <2>4, <2>8, <3>1, <3>2, EdgesWithin
      <4>2. Version(log, t) \in CanonNow
        BY <2>6, <3>2, <4>1
      <4>3. i = n + 1 /\ \E j \in S : Version(log, j) = Version(log, t)
        BY <2>9, <3>1, <4>1, <4>2
      <4> QED
        BY <2>3, <2>4, <2>10, <4>2, <4>3 DEF S, EntersByRule
    <3>3. CASE p = n + 1 /\ IsCanonPin(d) /\ d.ns = CanonNs
      <4>1. t \in RefsOf(d, "pins") /\ t \in DOMAIN log
        BY <2>3, <2>4, <2>5, <3>1, <3>3
      <4>2. CanonPinOK(d)
        BY <2>2 DEF Accepts
      <4>3. Seat(d.author, log[t].ns) \/ Backed(t, log[t], QuorumOf(CanonNs))
        BY <3>3, <4>1, <4>2, PinnedByRule
      <4> QED
        BY <2>3, <2>4, <2>10, <3>1, <4>1, <4>3 DEF EntersByRule
    <3> QED
      BY <2>8, <3>1, <3>2, <3>3
  <2>12. ASSUME NEW i \in CanonNow \ CanonNow', log[i].ns = CanonNs PROVE LeavesByRule(i)
    <3>0. PICK p \in Pins(log) : \E t \in RefsOf(log[p], "pins") : i = Version(log, t)
      BY <2>6
    <3>1. PICK t \in RefsOf(log[p], "pins") : i = Version(log, t)
      BY <3>0
    <3>2. ASSUME NEW j \in S, log[j].ns = CanonNs, log[j].type # "POLICY"
          PROVE  /\ Posted.band \in {"maintainer", "human"}
                 /\ Backed(0, Posted, QuorumOf(CanonNs))
      <4>1. MayAmend(d, BandOf(d))
        BY <2>2 DEF Accepts
      <4>2. /\ BandOf(d) \in {"maintainer", "human"}
            /\ \E x \in RefsOf(d, "derives-from") :
                  log[x].type = "PROPOSAL" /\ Cardinality(BackersOf(x)) >= QuorumOf(CanonNs)
        BY <2>5, <3>2, <4>1, AmendedByRule DEF S
      <4> QED
        BY <2>3, <2>4, <4>2 DEF Backed
    <3>3. CASE p \in S
      BY <2>8, <3>2, <3>3 DEF LeavesByRule
    <3>4. CASE p \notin S
      <4>1. p \in Pins(log') /\ t \in RefsOf(log'[p], "pins") /\ t \in DOMAIN log
        BY <2>4, <2>8, <3>1, <3>4, EdgesWithin
      <4>2. Version(log', t) \in CanonNow'
        BY <2>7, <4>1
      <4>3. PICK j \in S : Version(log, j) = i
        BY <2>9, <3>1, <4>1, <4>2
      <4>4. CASE Unprotected(j)
        BY <2>3, <2>4, <2>10, <4>3, <4>4 DEF S, LeavesByRule
      <4>5. CASE ~Unprotected(j)
        BY <3>2, <4>5 DEF Unprotected, LeavesByRule
      <4> QED
        BY <4>4, <4>5
    <3> QED
      BY <3>3, <3>4
  <2> QED
    BY <2>11, <2>12
<1> HIDE DEF Moves
<1>2. CanonMovesByRule <=> [][Seeded /\ CanonLawStands => Moves]_vars
  BY DEF CanonMovesByRule, Moves
<1> QED
  BY <1>1, <1>2, AlwaysIInv, PTL DEF Spec

-----------------------------------------------------------------------------
(* A seeded board is a board.                                              *)

LEMMA SeededStep == IInv /\ [SeededNext]_vars => [Next]_vars
<1> SUFFICES ASSUME IInv, [SeededNext]_vars PROVE [Next]_vars
  OBVIOUS
<1>1. CASE Genesis(GenesisPayload)
  BY <1>1, SeedAssumption DEF Next
<1>2. CASE Seed
  <2>1. log # << >> /\ Len(log) <= Len(Plan) /\ Post(Plan[Len(log)])
    <3>1. Len(log) \in Nat /\ Len(Plan) \in Nat
      BY SeedAssumption, LenProperties DEF IInv, TypeOK
    <3> QED
      BY <1>2, <3>1 DEF Seed, Seeded
  <2>2. Len(log) \in 1..Len(Plan)
    <3>1. Len(log) \in Nat /\ Len(log) # 0 /\ Len(Plan) \in Nat
      BY <2>1, SeedAssumption, LenProperties, EmptySeq DEF IInv, TypeOK
    <3> QED
      BY <2>1, <3>1
  <2>3. Plan[Len(log)] \in Drafts
    BY <2>2, SeedAssumption, ElementOfSeq
  <2> QED
    BY <2>1, <2>3 DEF Next
<1>3. CASE \E d \in Visits : Visit(d)
  BY <1>3, SeedAssumption DEF Visit, Next
<1>4. CASE Wait
  BY <1>4 DEF Wait, Next
<1> QED
  BY <1>1, <1>2, <1>3, <1>4 DEF SeededNext

\* However a board is brought up and whoever visits it, it is a board of the
\* sequencer (seed.py and every setup post through the gauntlet of api.post): what is
\* proved of every board holds for the seeded one.
THEOREM SeededIsSequenced == SeededSpec => Spec
<1>1. IInv /\ [SeededNext]_vars => IInv'
  BY SeededStep, NextKeepsIInv
<1> QED
  BY <1>1, InitIInv, SeededStep, PTL DEF Spec, SeededSpec

\* In particular on a seeded board whoever claimed had read, is shown beforehand what
\* to read, and is told of every cut; and canon moves by rule.
COROLLARY SeededReadingIsHonest ==
    SeededSpec => /\ [](ClaimantsHaveReadCanon /\ RequiredIsTheClaimList /\ OnboardHidesNothing)
                  /\ CanonMovesByRule
  BY SeededIsSequenced, ClaimantsAttested, OneReadingList, OnboardingIsHonest, CanonIsMovedByRule,
     PTL

-----------------------------------------------------------------------------
(* A board comes up: every post of the seed is accepted.                    *)

\* A namespace under a root agrees with it, segment by segment.
LEMMA UnderRoot ==
    ASSUME NEW S, NEW root \in Seq(S), NEW ns \in Seq(S), InSubtree(root, ns)
    PROVE  /\ Len(root) \in Nat /\ Len(root) <= Len(ns)
           /\ \A i \in 1..Len(root) : root[i] = ns[i]
<1>1. /\ Len(root) \in Nat /\ Len(ns) \in Nat /\ Len(root) <= Len(ns)
      /\ SubSeq(ns, 1, Len(root)) = root
  BY LenProperties DEF InSubtree
<1>2. \A i \in 1..Len(root) : SubSeq(ns, 1, Len(root))[i] = ns[i]
  BY <1>1
<1> QED
  BY <1>1, <1>2

\* The steps of the seed in order.
LEMMA SeedBoardIs ==
    /\ Len(SeedBoard) = 13 /\ \A k \in 1..10 : SeedBoard[k] = Nests[k]
    /\ SeedBoard[11] = Rake /\ SeedBoard[12] = InboxDoc /\ SeedBoard[13] = InboxPin
    /\ InboxDocId = 13
<1>1. ASSUME NEW a, NEW b, NEW c, NEW d, NEW e, NEW f, NEW g, NEW h, NEW i, NEW j,
             NEW x, NEW y, NEW z
      PROVE  LET s == <<a, b, c, d, e, f, g, h, i, j>> \o <<x, y, z>> IN
             /\ Len(s) = 13 /\ \A k \in 1..10 : s[k] = <<a, b, c, d, e, f, g, h, i, j>>[k]
             /\ s[11] = x /\ s[12] = y /\ s[13] = z
             /\ Len(<<a, b, c, d, e, f, g, h, i, j>>) = 10
  OBVIOUS
<1> QED
  BY <1>1 DEF SeedBoard, Nests, InboxDocId

\* The plan of a board begins with them.
LEMMA PlanIs ==
    /\ Len(Plan) >= Len(SeedBoard) /\ Len(Plan) \in Nat
    /\ \A k \in 1..13 : Plan[k] = SeedBoard[k] /\ SeedBoard[k] \in Drafts
<1> DEFINE D == {SeedBoard[k] : k \in 1..13}
<1>1. SeedBoard \in Seq(D) /\ Len(SeedBoard) = 13
  <2>1. ASSUME NEW a, NEW b, NEW c, NEW d, NEW e, NEW f, NEW g, NEW h, NEW i, NEW j,
               NEW x, NEW y, NEW z
        PROVE  LET s == <<a, b, c, d, e, f, g, h, i, j>> \o <<x, y, z>> IN
               s \in Seq({s[k] : k \in 1..13})
    OBVIOUS
  <2> QED
    BY <2>1, SeedBoardIs DEF SeedBoard, Nests
<1>2. Plan \in Seq(Drafts) /\ Setup \in Seq(Drafts)
  BY SeedAssumption
<1> HIDE DEF D
<1>3. SeedBoard \in Seq(D \cup Drafts) /\ Setup \in Seq(D \cup Drafts)
  BY <1>1, <1>2
<1>4. Len(SeedBoard \o Setup) = Len(SeedBoard) + Len(Setup) /\ Len(Setup) \in Nat
  BY <1>3, ConcatProperties, LenProperties
<1>5. \A k \in 1..13 : (SeedBoard \o Setup)[k] = SeedBoard[k]
  <2>1. \A k \in 1..13 : k \in 1..Len(SeedBoard) + Len(Setup) /\ k <= Len(SeedBoard)
    BY <1>1, <1>4
  <2> QED
    BY <1>3, <2>1, ConcatProperties
<1>6. \A k \in 1..13 : Plan[k] \in Drafts
  BY <1>1, <1>2, <1>4, ElementOfSeq DEF Plan
<1> QED
  BY <1>1, <1>4, <1>5, <1>6 DEF Plan


\* A law of the seed: nothing is blind, evidence is asked of jobs alone, and what is
\* posted to the rakes and to canon while seeding is among what it takes.
OpenLaw(policy) ==
    /\ policy.kind = "policy" /\ policy.blind = {}
    /\ \A x \in policy.rules.require_pointer : x.act = "JOB"

EveryoneOnly(grants) == \A g \in DOMAIN grants : grants[g].grantee = Everyone

TakesRakes(rules) == "WARN" \in rules.acts /\ rules.grades

TakesCanon(rules) ==
    /\ {"FINDING", "PIN"} \subseteq rules.acts /\ rules.grades
    /\ rules.max_pins \in {NoBudget, 8} /\ rules.amend.rule # "stamp"

\* A post of the seed: of the operator, naming nothing and asking for nothing.
PlainPost(d) ==
    /\ d.author = Operator /\ d.read_basis = NoBasis
    /\ d.ext.mentions = {} /\ ~InScratch(d.ns) /\ ~InMailbox(d.ns)

NestPost(d) ==
    /\ PlainPost(d) /\ d.type = "POLICY" /\ d.grade = "n/a" /\ d.refs = {} /\ ~d.ext.canon
    /\ d.ns # << >>
    /\ OpenLaw(d.payload)
    /\ EveryoneOnly(d.payload.grants)
    /\ d.payload.human_read = "sealed" => d.ns[1] # "korax"
    /\ InSubtree(d.ns, <<"commons", "rakes">>) => TakesRakes(d.payload.rules)
    /\ InSubtree(d.ns, CanonNs) => TakesCanon(d.payload.rules)

-----------------------------------------------------------------------------
(* What the seed consists of.                                               *)

LEMMA OperatorPostIs ==
    ASSUME NEW ns, NEW type, NEW grade, NEW refs
    PROVE  LET d == OperatorPost(ns, type, grade, refs) IN
           /\ d.type = type /\ d.ns = ns /\ d.grade = grade /\ d.refs = refs
           /\ d.author = Operator /\ d.read_basis = NoBasis /\ d.payload = NoPolicy
           /\ d.ext = NoExt /\ d.ext.mentions = {} /\ ~d.ext.canon
BY DEF OperatorPost, NoExt

LEMMA NestIs ==
    ASSUME NEW ns, NEW grants, NEW seam, NEW rules
    PROVE  LET d == Nest(ns, grants, seam, rules) IN
           /\ d.type = "POLICY" /\ d.ns = ns /\ d.grade = "n/a" /\ d.refs = {}
           /\ d.author = Operator /\ d.read_basis = NoBasis
           /\ d.ext.mentions = {} /\ ~d.ext.canon
           /\ d.payload.kind = "policy" /\ d.payload.grants = grants
           /\ d.payload.human_read = seam /\ d.payload.blind = {} /\ d.payload.rules = rules
BY DEF Nest, Law, OperatorPost, NoExt

\* Of the nests only the rakes and canon are over their own namespaces.
LEMMA NestsApart ==
    ASSUME NEW a, NEW b
    PROVE  /\ InSubtree(<<a, b>>, <<"commons", "rakes">>) => a = "commons" /\ b = "rakes"
           /\ InSubtree(<<a, b>>, CanonNs) => a = "korax" /\ b = "canon"
           /\ InSubtree(<<a>>, <<"commons", "rakes">>) => a = "commons"
           /\ InSubtree(<<a>>, CanonNs) => a = "korax"
<1>1. \A x, y : InSubtree(<<a, b>>, <<x, y>>) => a = x /\ b = y
  <2>1. SUFFICES ASSUME NEW x, NEW y, InSubtree(<<a, b>>, <<x, y>>)
                 PROVE  a = x /\ b = y
    OBVIOUS
  <2>2. <<a, b>> \in Seq({a, b, x, y}) /\ <<x, y>> \in Seq({a, b, x, y}) /\ Len(<<a, b>>) = 2
    OBVIOUS
  <2>3. \A i \in 1..2 : <<a, b>>[i] = <<x, y>>[i]
    BY <2>1, <2>2, UnderRoot
  <2> QED
    BY <2>3
<1>2. \A x, y : InSubtree(<<a>>, <<x, y>>) => a = x
  <2>1. SUFFICES ASSUME NEW x, NEW y, InSubtree(<<a>>, <<x, y>>)
                 PROVE  a = x
    OBVIOUS
  <2>2. <<a>> \in Seq({a, x, y}) /\ <<x, y>> \in Seq({a, x, y}) /\ Len(<<a>>) = 1
    OBVIOUS
  <2>3. \A i \in 1..1 : <<a>>[i] = <<x, y>>[i]
    BY <2>1, <2>2, UnderRoot
  <2> QED
    BY <2>3
<1> QED
  BY <1>1, <1>2 DEF CanonNs

LEMMA FloorIs ==
    ASSUME NEW ns, NEW band
    PROVE  EveryoneOnly(Floor(ns, band))
BY DEF Floor, GrantOf, EveryoneOnly

\* What the rules of the nests ask for.
LEMMA RulesAre ==
    /\ \A r \in {CanonRules, MetaRules, RakesRules, InboxRules, MailRules,
                 SubscriptionsRules, OfftopicRules, UsersRules, NoticesRules, GenesisRules} :
          r.require_pointer = {}
    /\ \A x \in JobsRules.require_pointer : x.act = "JOB"
    /\ TakesRakes(RakesRules) /\ TakesRakes(GenesisRules)
    /\ TakesCanon(CanonRules) /\ TakesCanon(GenesisRules)
<1>1. /\ CanonRules.require_pointer = {} /\ MetaRules.require_pointer = {}
      /\ RakesRules.require_pointer = {} /\ InboxRules.require_pointer = {}
  BY DEF CanonRules, MetaRules, RakesRules, InboxRules, PlainRules
<1>2. /\ MailRules.require_pointer = {} /\ SubscriptionsRules.require_pointer = {}
      /\ OfftopicRules.require_pointer = {}
  BY DEF MailRules, SubscriptionsRules, OfftopicRules, PlainRules
<1>3. /\ UsersRules.require_pointer = {}
      /\ NoticesRules.require_pointer = {} /\ GenesisRules.require_pointer = {}
  BY DEF UsersRules, NoticesRules, GenesisRules, PlainRules
<1>4. \A x \in JobsRules.require_pointer : x.act = "JOB"
  BY DEF JobsRules, PlainRules
<1>5. TakesRakes(RakesRules) /\ TakesRakes(GenesisRules)
  BY DEF TakesRakes, RakesRules, GenesisRules, PlainRules, Act
<1>6. TakesCanon(CanonRules)
  BY DEF TakesCanon, CanonRules, PlainRules
<1>7. TakesCanon(GenesisRules)
  BY DEF TakesCanon, GenesisRules, PlainRules, Act
<1> QED
  BY <1>1, <1>2, <1>3, <1>4, <1>5, <1>6, <1>7

\* A nest of two segments, and one of a single segment, is such a post.
LEMMA PairIsPlain ==
    ASSUME NEW a, NEW b, NEW grants, NEW seam, NEW rules,
           a # "scratch", a # "dm", seam = "sealed" => a # "korax",
           a = "commons" /\ b = "rakes" => TakesRakes(rules),
           a = "korax" /\ b = "canon" => TakesCanon(rules),
           EveryoneOnly(grants), \A x \in rules.require_pointer : x.act = "JOB"
    PROVE  NestPost(Nest(<<a, b>>, grants, seam, rules))
<1>1. <<a, b>> # << >> /\ ~InScratch(<<a, b>>) /\ ~InMailbox(<<a, b>>) /\ <<a, b>>[1] = a
  BY DEF InScratch, InMailbox
<1>2. /\ InSubtree(<<a, b>>, <<"commons", "rakes">>) => TakesRakes(rules)
      /\ InSubtree(<<a, b>>, CanonNs) => TakesCanon(rules)
  BY NestsApart
<1> QED
  BY <1>1, <1>2, NestIs DEF NestPost, PlainPost, OpenLaw

LEMMA SingleIsPlain ==
    ASSUME NEW a, NEW grants, NEW seam, NEW rules, a # "commons", a # "korax",
           EveryoneOnly(grants), \A x \in rules.require_pointer : x.act = "JOB"
    PROVE  NestPost(Nest(<<a>>, grants, seam, rules))
<1>1. <<a>> # << >> /\ ~InScratch(<<a>>) /\ ~InMailbox(<<a>>) /\ <<a>>[1] = a
  BY DEF InScratch, InMailbox
<1>2. ~InSubtree(<<a>>, <<"commons", "rakes">>) /\ ~InSubtree(<<a>>, CanonNs)
  BY NestsApart
<1> QED
  BY <1>1, <1>2, NestIs DEF NestPost, PlainPost, OpenLaw

\* All ten of them.
LEMMA NestsArePlain == \A k \in 1..10 : NestPost(Nests[k])
<1>1. NestPost(Nest(CanonNs, Floor(CanonNs, "reader"), "open", CanonRules))
  BY PairIsPlain, FloorIs, RulesAre DEF CanonNs
<1>2. NestPost(Nest(MetaNs, Floor(MetaNs, "warner"), "open", MetaRules))
  BY PairIsPlain, FloorIs, RulesAre DEF MetaNs
<1>3. NestPost(Nest(<<"commons", "rakes">>, Floor(<<"commons", "rakes">>, "warner"),
                    "open", RakesRules))
  BY PairIsPlain, FloorIs, RulesAre
<1>4. NestPost(Nest(<<"commons", "jobs">>, << >>, "open", JobsRules))
  BY PairIsPlain, RulesAre DEF EveryoneOnly
<1>5. NestPost(Nest(InboxNs, Floor(InboxNs, "poster"), "open", InboxRules))
  BY PairIsPlain, FloorIs, RulesAre DEF InboxNs
<1>6. NestPost(Nest(<<"dm">>, Floor(<<"dm">>, "poster"), "sealed", MailRules))
  BY SingleIsPlain, FloorIs, RulesAre
<1>7. NestPost(Nest(SubscriptionsNs, Floor(SubscriptionsNs, "poster"),
                    "open", SubscriptionsRules))
  BY PairIsPlain, FloorIs, RulesAre DEF SubscriptionsNs
<1>8. NestPost(Nest(<<"commons", "offtopic">>, Floor(<<"commons", "offtopic">>, "poster"),
                    "sealed", OfftopicRules))
  BY PairIsPlain, FloorIs, RulesAre
<1>9. NestPost(Nest(<<"users">>, Floor(<<"users">>, "reader"), "open", UsersRules))
  BY SingleIsPlain, FloorIs, RulesAre
<1>10. NestPost(Nest(<<"korax", "notices">>, Floor(<<"korax", "notices">>, "reader"),
                     "open", NoticesRules))
  BY PairIsPlain, FloorIs, RulesAre
<1>11. ASSUME NEW a, NEW b, NEW c, NEW d, NEW e, NEW f, NEW g, NEW h, NEW i, NEW j
       PROVE  \A k \in 1..10 :
                 <<a, b, c, d, e, f, g, h, i, j>>[k] \in {a, b, c, d, e, f, g, h, i, j}
  OBVIOUS
<1> QED
  BY <1>1, <1>2, <1>3, <1>4, <1>5, <1>6, <1>7, <1>8, <1>9, <1>10, <1>11 DEF Nests


\* The constitution: the operator is a person everywhere and has the seat of canon.
LEMMA GenesisPayloadIs ==
    /\ OpenLaw(GenesisPayload) /\ GenesisPayload.rules = GenesisRules
    /\ DOMAIN GenesisPayload.grants = 1..3
    /\ GenesisPayload.grants[1] = GrantOf(Operator, << >>, "human")
    /\ GenesisPayload.grants[2] = GrantOf(Operator, <<"korax">>, "maintainer")
    /\ GenesisPayload.grants[3] = GrantOf(Everyone, << >>, "reader")
<1>1. OpenLaw(GenesisPayload) /\ GenesisPayload.rules = GenesisRules
  BY RulesAre DEF OpenLaw, GenesisPayload, Law
<1>2. GenesisPayload.grants = <<GrantOf(Operator, << >>, "human"),
                                GrantOf(Operator, <<"korax">>, "maintainer"),
                                GrantOf(Everyone, << >>, "reader")>>
  BY DEF GenesisPayload, Law
<1> QED
  BY <1>1, <1>2

\* What is posted to the log at offset i while the board comes up.
SeedPost(i) == IF i = 1 THEN GenesisDraft(GenesisPayload) ELSE SeedBoard[i - 1]

\* Accepted as drafted, and from a person.
ByTheSeed(env, d) ==
    /\ env.type = d.type /\ env.ns = d.ns /\ env.payload = d.payload /\ env.band = "human"

\* The inductive invariant: the first envelopes of the log are the seed's, in order.
AsSeeded == \A i \in DOMAIN log : i <= Len(SeedBoard) + 1 => ByTheSeed(log[i], SeedPost(i))

\* The law of a board that is coming up: the constitution and nests.
SeedLaw(root) ==
    /\ root \in entries /\ root.ns = << >> /\ root.policy = GenesisPayload
    /\ \A e \in entries :
          e = root \/ \E k \in 1..10 : e.ns = Nests[k].ns /\ e.policy = Nests[k].payload

-----------------------------------------------------------------------------
(* The law and the standing of the operator while the board comes up.       *)

LEMMA WhileSeeding ==
    ASSUME IInv, log # << >>, Len(log) <= 13
    PROVE  Len(log) \in 1..13 /\ DOMAIN log = 1..Len(log)
<1>1. log \in Seq(Envelope)
  BY DEF IInv, TypeOK
<1>2. Len(log) \in Nat /\ Len(log) # 0 /\ DOMAIN log = 1..Len(log)
  BY <1>1, LenProperties, EmptySeq
<1>3. \A n \in Nat : n # 0 /\ n <= 13 => n \in 1..13
  OBVIOUS
<1> QED
  BY <1>2, <1>3

LEMMA LawOfSeed ==
    ASSUME IInv, AsSeeded, log # << >>, Len(log) <= 13
    PROVE  \E root : SeedLaw(root)
<1>1. /\ log \in Seq(Envelope) /\ Len(log) \in 1..13 /\ DOMAIN log = 1..Len(log)
      /\ entries = EntriesOf(log)
  <2>1. log \in Seq(Envelope) /\ entries = EntriesOf(log)
    BY DEF IInv, TypeOK, EntriesMatchLog
  <2> QED
    BY <2>1, WhileSeeding
<1>2. \A p \in DOMAIN log : ByTheSeed(log[p], SeedPost(p))
  BY <1>1, SeedBoardIs DEF AsSeeded
<1>3. \A p \in DOMAIN log : Entry(log, p, Least(ForceOffsets(log, p))) = Entry(log, p, p)
  BY <1>1, <1>2, LeastOfOne DEF ForceOffsets, ByTheSeed
<1>4. \A e \in entries : \E p \in DOMAIN log : log[p].type = "POLICY" /\ e = Entry(log, p, p)
  BY <1>1, <1>3 DEF EntriesOf
<1> DEFINE root == Entry(log, 1, 1)
<1>5. root \in entries
  <2>1. 1 \in DOMAIN log /\ log[1].type = "POLICY" /\ log[1].payload = GenesisPayload
    BY <1>1, <1>2 DEF SeedPost, ByTheSeed, GenesisDraft
  <2>2. IsPolicy(log[1].payload)
    BY <2>1, GenesisPayloadIs DEF IsPolicy, OpenLaw
  <2>3. ForceOffsets(log, 1) # {}
    BY <2>1, <1>2 DEF ForceOffsets, ByTheSeed
  <2> QED
    BY <1>1, <1>3, <2>1, <2>2, <2>3 DEF EntriesOf
<1>6. root.ns = << >> /\ root.policy = GenesisPayload
  BY <1>1, <1>2 DEF SeedPost, ByTheSeed, GenesisDraft, Entry
<1>7. \A e \in entries :
         e = root \/ \E k \in 1..10 : e.ns = Nests[k].ns /\ e.policy = Nests[k].payload
  <2>1. SUFFICES ASSUME NEW e \in entries, e # root
                 PROVE  \E k \in 1..10 : e.ns = Nests[k].ns /\ e.policy = Nests[k].payload
    OBVIOUS
  <2>2. PICK p \in DOMAIN log : log[p].type = "POLICY" /\ e = Entry(log, p, p)
    BY <1>4
  <2>3. p \in 2..13
    BY <1>1, <2>1, <2>2
  <2>4. /\ log[p].type = SeedBoard[p - 1].type /\ log[p].ns = SeedBoard[p - 1].ns
        /\ log[p].payload = SeedBoard[p - 1].payload
    BY <1>2, <2>3 DEF ByTheSeed, SeedPost
  <2>5. p - 1 \in 1..10
    <3>1. Rake.type = "WARN" /\ InboxDoc.type = "FINDING"
      BY OperatorPostIs DEF Rake, InboxDoc
    <3>2. p # 12 /\ p # 13
      BY <2>2, <2>4, <3>1, SeedBoardIs
    <3> QED
      BY <2>3, <3>2
  <2>6. SeedBoard[p - 1] = Nests[p - 1]
    BY <2>5, SeedBoardIs
  <2> QED
    BY <2>2, <2>4, <2>5, <2>6 DEF Entry
<1> HIDE DEF root
<1> QED
  BY <1>5, <1>6, <1>7 DEF SeedLaw

\* The constitution stays the latest word on the root.
LEMMA RootIsLatest ==
    ASSUME IInv, log # << >>, NEW root, SeedLaw(root)
    PROVE  /\ root \in LatestEntries(entries, Len(log) + 1)
           /\ LatestEntries(entries, Len(log) + 1) \subseteq entries
           /\ \A g \in 1..3 :
                [grantee |-> GenesisPayload.grants[g].grantee,
                 root    |-> GenesisPayload.grants[g].root,
                 band    |-> GenesisPayload.grants[g].band,
                 place   |-> <<NsRank(entries, << >>, Len(log) + 1), g>>]
                    \in GrantsAt(entries, Len(log) + 1)
<1> DEFINE o == Len(log) + 1
<1>1. root \in PolicyEntry /\ root.effective_at \in Nat /\ root.effective_at <= o
  BY LenProperties DEF SeedLaw, IInv, TypeOK, LogShape, PolicyEntry
<1>2. \A e \in entries : e.ns = << >> => e = root
  BY NestsArePlain DEF SeedLaw, NestPost
<1>3. root \in InForce(entries, o) /\ InForce(entries, o) \subseteq entries
  BY <1>1 DEF InForce, SeedLaw
<1>4. \A f \in InForce(entries, o) : f.ns = root.ns => ~LaterThan(f, root)
  BY <1>1, <1>2, <1>3 DEF LaterThan, SeedLaw
<1>5. root \in LatestEntries(entries, o) /\ LatestEntries(entries, o) \subseteq entries
  BY <1>3, <1>4 DEF LatestEntries
<1>6. \A g \in 1..3 : g \in DOMAIN root.policy.grants
  BY GenesisPayloadIs DEF SeedLaw
<1> QED
  BY <1>5, <1>6 DEF GrantsAt, Flatten, SeedLaw

\* Hence the operator is a person wherever it has no room of its own, and has the seat
\* of canon.
LEMMA OperatorIsHuman ==
    ASSUME IInv, log # << >>, NEW root, SeedLaw(root), NEW ns \in Namespace, ~InScratch(ns)
    PROVE  EffectiveBand(entries, Operator, ns, Len(log) + 1) = "human"
<1> DEFINE o == Len(log) + 1
<1>1. PICK g \in GrantsAt(entries, o) :
         g.grantee = Operator /\ g.root = << >> /\ g.band = "human"
  <2>1. 1 \in 1..3
    OBVIOUS
  <2> QED
    BY <2>1, RootIsLatest, GenesisPayloadIs DEF GrantOf
<1>2. Covers(g, Operator, ns)
  <2>1. ns \in Seq(STRING)
    BY ClientAssumption
  <2> QED
    BY <1>1, <2>1 DEF Covers, InSubtree
<1>3. ~OwnScratch(Operator, ns)
  <2>1. SUFFICES ASSUME OwnScratch(Operator, ns) PROVE FALSE
    OBVIOUS
  <2>2. ns \in Seq(STRING \cup {"scratch", Operator})
    BY ClientAssumption
  <2>3. /\ <<"scratch", Operator>> \in Seq(STRING \cup {"scratch", Operator})
        /\ Len(<<"scratch", Operator>>) = 2
    OBVIOUS
  <2>4. 2 <= Len(ns) /\ \A i \in 1..2 : <<"scratch", Operator>>[i] = ns[i]
    BY <2>1, <2>2, <2>3, UnderRoot DEF OwnScratch
  <2> QED
    BY <2>2, <2>4, LenProperties DEF InScratch
<1> QED
  BY <1>1, <1>2, <1>3, HumanAbove DEF IInv, TypeOK

\* A seat that no nest grants and that being a person does not bring.
LEMMA OperatorHoldsTheSeat ==
    ASSUME IInv, log # << >>, NEW root, SeedLaw(root)
    PROVE  HoldsGrant(entries, Operator, CanonNs, Len(log) + 1, "maintainer")
<1> DEFINE o == Len(log) + 1
<1>1. PICK g \in GrantsAt(entries, o) :
         g.grantee = Operator /\ g.root = <<"korax">> /\ g.band = "maintainer"
  <2>1. 2 \in 1..3
    OBVIOUS
  <2> QED
    BY <2>1, RootIsLatest, GenesisPayloadIs DEF GrantOf
<1>2. InSubtree(<<"korax">>, CanonNs)
  <2>1. SubSeq(<<"korax", "canon">>, 1, 1) = <<"korax">>
    <3>1. ASSUME NEW a, NEW b PROVE SubSeq(<<a, b>>, 1, 1) = <<a>>
      <4> DEFINE s == SubSeq(<<a, b>>, 1, 1)
      <4>1. 1 \in Int /\ \A i \in 1..1 : <<a, b>>[i] \in {a}
        OBVIOUS
      <4>2. s \in Seq({a}) /\ Len(s) = 1 /\ s[1] = a
        BY <4>1, SubSeqProperties
      <4>3. <<a>> \in Seq({a}) /\ Len(<<a>>) = 1 /\ \A i \in 1..1 : s[i] = <<a>>[i]
        BY <4>2
      <4> HIDE DEF s
      <4>4. s = <<a>>
        BY <4>2, <4>3, SeqEqual
      <4> QED
        BY <4>4 DEF s
    <3> QED
      BY <3>1
  <2>2. Len(<<"korax">>) = 1 /\ Len(<<"korax", "canon">>) = 2
    OBVIOUS
  <2> QED
    BY <2>1, <2>2 DEF InSubtree, CanonNs
<1> QED
  BY <1>1, <1>2 DEF HoldsGrant, Covers


\* Whatever governs while the board comes up is the constitution or one of the nests.
LEMMA LawBySeed ==
    ASSUME IInv, log # << >>, NEW root, SeedLaw(root), NEW ns \in Namespace
    PROVE  \/ PolicyAt(entries, ns, NextId(log)) = GenesisPayload
           \/ \E k \in 1..10 : /\ InSubtree(Nests[k].ns, ns)
                               /\ PolicyAt(entries, ns, NextId(log)) = Nests[k].payload
<1> DEFINE o == Len(log) + 1
<1>1. o \in Nat /\ entries \in SUBSET PolicyEntry
  BY LenProperties DEF IInv, TypeOK
<1>2. InSubtree(<< >>, ns)
  <2>1. ns \in Seq(STRING)
    BY ClientAssumption
  <2> QED
    BY <2>1 DEF InSubtree
<1>3. root \in Governing(entries, ns, o)
  <2>1. root \in InForce(entries, o)
    BY RootIsLatest DEF LatestEntries
  <2> QED
    BY <1>2, <2>1 DEF Governing, Governs, SeedLaw
<1>4. PICK e \in Governing(entries, ns, o) : PolicyAt(entries, ns, o) = e.policy
  BY <1>1, <1>3, PolicyOfAnEntry
<1>5. e \in entries /\ InSubtree(e.ns, ns)
  BY DEF Governing, InForce, Governs
<1> QED
  BY <1>4, <1>5 DEF SeedLaw, NextId

\* So nothing is blind and no evidence is asked of what the seed posts.
LEMMA OpenBySeed ==
    ASSUME IInv, log # << >>, NEW root, SeedLaw(root), NEW ns \in Namespace
    PROVE  OpenLaw(PolicyAt(entries, ns, NextId(log)))
BY LawBySeed, NestsArePlain, GenesisPayloadIs DEF NestPost

\* The nests grant everybody something and nobody a seat: they make no referee play.
LEMMA NestsMakeNoConflict ==
    ASSUME IInv, log # << >>, NEW root, SeedLaw(root), NEW d, NestPost(d)
    PROVE  FreshConflicts(d) = {}
<1> DEFINE o == Len(log) + 1
           posted == [ns |-> d.ns, policy_id |-> o, effective_at |-> o, policy |-> d.payload]
           latest == {e \in LatestEntries(entries, o) : e.ns # d.ns} \cup {posted}
           G == GrantsWith(entries, o, d.ns, d.payload)
<1>1. G = Flatten(entries \cup {posted}, latest, o)
  BY DEF GrantsWith
<1>2. \A e \in latest : e = root \/ EveryoneOnly(e.policy.grants)
  <2> TAKE e \in latest
  <2>1. CASE e = posted
    BY <2>1 DEF NestPost
  <2>2. CASE e \in LatestEntries(entries, o)
    <3>1. e = root \/ \E k \in 1..10 : e.policy = Nests[k].payload
      BY <2>2, RootIsLatest DEF SeedLaw
    <3> QED
      BY <3>1, NestsArePlain DEF NestPost
  <2> QED
    BY <2>1, <2>2
<1>3. root \in latest
  BY RootIsLatest DEF SeedLaw, NestPost
<1> HIDE DEF posted, latest
<1>4. \A g \in G : g.grantee \in {Everyone, Operator}
  <2> TAKE g \in G
  <2>1. PICK e \in latest :
           \E k \in DOMAIN e.policy.grants : g.grantee = e.policy.grants[k].grantee
    BY <1>1 DEF Flatten
  <2>2. \A k \in 1..3 : GenesisPayload.grants[k].grantee \in {Everyone, Operator}
    BY GenesisPayloadIs DEF GrantOf
  <2> QED
    BY <1>2, <2>1, <2>2, GenesisPayloadIs DEF SeedLaw, EveryoneOnly
<1>5. \E g \in G : g.grantee = Operator /\ g.band = "human"
  <2>1. 1 \in DOMAIN root.policy.grants
    BY GenesisPayloadIs DEF SeedLaw
  <2>2. /\ root.policy.grants[1].grantee = Operator /\ root.policy.grants[1].band = "human"
    BY GenesisPayloadIs DEF SeedLaw, GrantOf
  <2>3. [grantee |-> root.policy.grants[1].grantee, root |-> root.policy.grants[1].root,
         band |-> root.policy.grants[1].band,
         place |-> <<NsRank(entries \cup {posted}, root.ns, o), 1>>] \in G
    BY <1>1, <1>3, <2>1 DEF Flatten
  <2> QED
    BY <2>2, <2>3
<1> HIDE DEF G
<1>6. {Everyone, Operator} \subseteq Exempt(G)
  BY <1>5 DEF Exempt
<1>7. Of(G, "maintainer") = {}
  BY <1>4, <1>6 DEF Of
<1>8. GrantConflicts(G) = {}
  BY <1>7 DEF GrantConflicts
<1> QED
  BY <1>8 DEF FreshConflicts, NextId, G

\* What a post of the operator still has to meet, once the operator is known to be a
\* person and the law to be the seed's.
LEMMA SeedPasses ==
    ASSUME IInv, log # << >>, NEW root, SeedLaw(root),
           NEW d \in Drafts, PlainPost(d), d.type \in {"POLICY", "WARN", "FINDING", "PIN"},
           \A r \in d.refs : r.edge = "pins" /\ d.type = "PIN" /\ r.id \in DOMAIN log,
           d.type = "PIN" => Cardinality(RefsOf(d, "pins")) = 1,
           d.type # "POLICY" => d.type \in RulesAt(d.ns).acts /\ RulesAt(d.ns).grades,
           d.type = "POLICY" => d.grade = "n/a",
           PolicyOK(d), PinBudgetOK(d), CanonPinOK(d)
    PROVE  Accepts(d)
<1>1. d.ns \in Namespace
  BY ClientAssumption DEF Draft
<1>2. BandOf(d) = "human"
  BY <1>1, OperatorIsHuman DEF BandOf, NextId, PlainPost
<1>3. \A edge : edge # "pins" => RefsOf(d, edge) = {}
  BY DEF RefsOf
<1>4. RefsExist(d) /\ EdgeTypesOK(d)
  <2>1. \A i \in DOMAIN log : log[i].type \in Act
    <3>1. log \in Seq(Envelope)
      BY DEF IInv, TypeOK
    <3>2. \A i \in DOMAIN log : log[i] \in Envelope
      BY <3>1, LenProperties, ElementOfSeq
    <3> QED
      BY <3>2 DEF Envelope
  <2> QED
    BY <2>1 DEF RefsExist, EdgeTypesOK, EdgeSourceActs, EdgeTargetActs
<1>5. ShapeOK(d)
  <2>1. d.type \in DOMAIN ExactlyOne => d.type = "PIN" /\ ExactlyOne[d.type] = "pins"
    BY DEF ExactlyOne
  <2>2. d.type \notin DOMAIN AtLeastOne
    BY DEF AtLeastOne
  <2> QED
    BY <2>1, <2>2 DEF ShapeOK
<1>6. MayPost(d, BandOf(d)) /\ MayCurate(d, BandOf(d))
  <2>1. BandRank["human"] = 5
    BY DEF BandRank, Band
  <2>2. MayPost(d, "human")
    <3>1. MinRank(d.type) <= 5
      BY DEF MinRank
    <3>2. /\ RefsOf(d, "supersedes") = {} /\ RefsOf(d, "endorses") = {}
          /\ d.type # "JOB" /\ NoBand # "human"
      BY <1>3 DEF NoBand
    <3> QED
      BY <2>1, <3>1, <3>2 DEF MayPost
  <2>3. MayCurate(d, "human")
    BY DEF MayCurate, InRole
  <2> QED
    BY <1>2, <2>2, <2>3
<1>7. Reachable(entries, d, NextId(log))
  BY DEF Reachable, SubscribeOK, RoomIsOwned, PlainPost
<1>8. NestAllows(d)
  <2>1. OpenLaw(PolicyAt(entries, d.ns, NextId(log)))
    BY <1>1, OpenBySeed
  <2>2. ~PointerRequired(RulesAt(d.ns), d.type, d.grade)
    BY <2>1 DEF PointerRequired, RulesAt, OpenLaw
  <2> QED
    BY <2>2 DEF NestAllows
<1>9. NotHeldByAnother(d) /\ BlindDeclares(d)
  <2>1. OpenLaw(PolicyAt(entries, d.ns, NextId(log)))
    BY <1>1, OpenBySeed
  <2> QED
    BY <2>1 DEF NotHeldByAnother, BlindDeclares, OpenLaw
<1>10. CorroborationOK(d, BandOf(d)) /\ AcksOK(d)
  BY <1>3 DEF CorroborationOK, AcksOK
<1>11. MayClose(d, BandOf(d)) /\ MayAmend(d, BandOf(d))
  BY <1>3 DEF MayClose, MayAmend
<1>12. UnsealOK(d) /\ BasisFresh(d)
  BY DEF UnsealOK, BasisFresh, PlainPost
<1> QED
  BY <1>4, <1>5, <1>6, <1>7, <1>8, <1>9, <1>10, <1>11, <1>12 DEF Accepts


\* The law that a type of post meets in the rakes and in canon.
LEMMA RakesTake ==
    ASSUME IInv, log # << >>, NEW root, SeedLaw(root), <<"commons", "rakes">> \in Namespace
    PROVE  TakesRakes(RulesAt(<<"commons", "rakes">>))
BY LawBySeed, NestsArePlain, GenesisPayloadIs, RulesAre DEF RulesAt, NestPost

LEMMA CanonTakes ==
    ASSUME IInv, log # << >>, NEW root, SeedLaw(root), CanonNs \in Namespace
    PROVE  TakesCanon(RulesAt(CanonNs))
BY LawBySeed, NestsArePlain, GenesisPayloadIs, RulesAre DEF RulesAt, NestPost

\* Every step of the seed is accepted after those before it.
LEMMA SeedStepPasses ==
    ASSUME IInv, AsSeeded, log # << >>, Len(log) <= 13
    PROVE  Accepts(SeedBoard[Len(log)])
<1> SUFFICES ASSUME NEW k \in 1..13, k = Len(log) PROVE Accepts(SeedBoard[k])
  BY WhileSeeding
<1> DEFINE d == SeedBoard[k]
<1>1. DOMAIN log = 1..k
  BY WhileSeeding
<1>2. PICK root : SeedLaw(root)
  BY LawOfSeed
<1>3. d \in Drafts /\ d.ns \in Namespace
  <2>1. d \in Drafts
    BY <1>1, PlanIs
  <2> QED
    BY <2>1, ClientAssumption DEF Draft
<1>4. CASE k \in 1..10
  <2>1. NestPost(d)
    BY <1>4, NestsArePlain, SeedBoardIs
  <2>2. PolicyOK(d)
    <3>1. d.payload.human_read = "sealed" => ~InSubtree(<<"korax">>, d.ns)
      <4>1. ASSUME InSubtree(<<"korax">>, d.ns) PROVE d.ns[1] = "korax"
        <5>1. d.ns \in Seq(STRING \cup {"korax"})
          BY <1>3, ClientAssumption
        <5>2. <<"korax">> \in Seq(STRING \cup {"korax"}) /\ Len(<<"korax">>) = 1
          OBVIOUS
        <5>3. \A i \in 1..1 : <<"korax">>[i] = d.ns[i]
          BY <4>1, <5>1, <5>2, UnderRoot
        <5> QED
          BY <5>3
      <4> QED
        BY <2>1, <4>1 DEF NestPost
    <3>2. FreshConflicts(d) = {}
      BY <1>2, <2>1, NestsMakeNoConflict
    <3> QED
      BY <2>1, <3>1, <3>2 DEF PolicyOK, NestPost, OpenLaw, IsPolicy
  <2>3. PinBudgetOK(d) /\ CanonPinOK(d)
    BY <2>1 DEF PinBudgetOK, CanonPinOK, IsCanonPin, NestPost
  <2> QED
    BY <1>2, <1>3, <2>1, <2>2, <2>3, SeedPasses DEF NestPost
<1>5. CASE k = 11
  <2>1. /\ d.type = "WARN" /\ d.ns = <<"commons", "rakes">> /\ d.refs = {}
        /\ d.author = Operator /\ d.read_basis = NoBasis /\ d.ext.mentions = {}
    BY <1>5, SeedBoardIs, OperatorPostIs DEF Rake
  <2>2. PlainPost(d)
    BY <2>1 DEF PlainPost, InScratch, InMailbox
  <2>3. "WARN" \in RulesAt(d.ns).acts /\ RulesAt(d.ns).grades
    BY <1>2, <1>3, <2>1, RakesTake DEF TakesRakes
  <2>4. PolicyOK(d) /\ PinBudgetOK(d) /\ CanonPinOK(d)
    BY <2>1 DEF PolicyOK, PinBudgetOK, CanonPinOK, IsCanonPin
  <2> QED
    BY <1>2, <1>3, <2>1, <2>2, <2>3, <2>4, SeedPasses
<1>6. CASE k = 12
  <2>1. /\ d.type = "FINDING" /\ d.ns = CanonNs /\ d.refs = {}
        /\ d.author = Operator /\ d.read_basis = NoBasis /\ d.ext.mentions = {}
    BY <1>6, SeedBoardIs, OperatorPostIs DEF InboxDoc
  <2>2. PlainPost(d)
    BY <2>1 DEF PlainPost, InScratch, InMailbox, CanonNs
  <2>3. "FINDING" \in RulesAt(d.ns).acts /\ RulesAt(d.ns).grades
    BY <1>2, <1>3, <2>1, CanonTakes DEF TakesCanon
  <2>4. PolicyOK(d) /\ PinBudgetOK(d) /\ CanonPinOK(d)
    BY <2>1 DEF PolicyOK, PinBudgetOK, CanonPinOK, IsCanonPin
  <2> QED
    BY <1>2, <1>3, <2>1, <2>2, <2>3, <2>4, SeedPasses
<1>7. CASE k = 13
  <2>1. /\ d.type = "PIN" /\ d.ns = CanonNs /\ d.refs = {[edge |-> "pins", id |-> 13]}
        /\ d.author = Operator /\ d.read_basis = NoBasis /\ d.ext.mentions = {}
    BY <1>7, SeedBoardIs DEF InboxPin, OperatorPost, NoExt
  <2>2. PlainPost(d)
    BY <2>1 DEF PlainPost, InScratch, InMailbox, CanonNs
  <2>3. TakesCanon(RulesAt(CanonNs))
    BY <1>2, <1>3, <2>1, CanonTakes
  <2>4. RefsOf(d, "pins") = {13} /\ Cardinality({13}) = 1
    <3>1. RefsOf(d, "pins") = {13}
      <4>1. \A x \in d.refs : x.edge = "pins" /\ x.id = 13
        BY <2>1
      <4>2. \E x \in d.refs : TRUE
        BY <2>1
      <4> HIDE DEF d
      <4> QED
        BY <4>1, <4>2 DEF RefsOf
    <3> QED
      BY <3>1, FS_Singleton
  <2>5. \A i \in DOMAIN log : log[i].type # "PIN" /\ log[i].ns = SeedPost(i).ns
    <3> TAKE i \in DOMAIN log
    <3>1. ByTheSeed(log[i], SeedPost(i)) /\ i \in 1..13
      BY <1>1, <1>7, SeedBoardIs DEF AsSeeded
    <3>2. CASE i = 1
      BY <3>1, <3>2 DEF ByTheSeed, SeedPost, GenesisDraft
    <3>3. CASE i \in 2..11
      <4>1. i - 1 \in 1..10 /\ SeedPost(i) = SeedBoard[i - 1]
        BY <3>3 DEF SeedPost
      <4> QED
        BY <3>1, <4>1, SeedBoardIs, NestsArePlain DEF ByTheSeed, NestPost
    <3>4. CASE i = 12
      BY <3>1, <3>4, SeedBoardIs, OperatorPostIs DEF ByTheSeed, SeedPost, Rake
    <3>5. CASE i = 13
      BY <3>1, <3>5, SeedBoardIs, OperatorPostIs DEF ByTheSeed, SeedPost, InboxDoc
    <3> QED
      BY <3>1, <3>2, <3>3, <3>4, <3>5
  <2>6. log[13].ns = CanonNs /\ 13 \in DOMAIN log
    <3>1. 13 \in DOMAIN log /\ SeedPost(13) = InboxDoc
      BY <1>1, <1>7, SeedBoardIs DEF SeedPost
    <3> QED
      BY <2>5, <3>1, OperatorPostIs DEF InboxDoc
  <2>7. PolicyOK(d)
    BY <2>1 DEF PolicyOK
  <2>8. PinBudgetOK(d)
    <3>1. CanonPins(log, d.ns, NextId(log)) = {}
      BY <2>5 DEF CanonPins, ActsIn, UpTo
    <3>2. Cardinality({}) = 0
      BY FS_EmptySet
    <3> QED
      BY <2>1, <2>3, <3>1, <3>2 DEF PinBudgetOK, TakesCanon, NoBudget
  <2>9. CanonPinOK(d)
    <3>1. HoldsGrant(entries, d.author, log[13].ns, NextId(log), "maintainer")
      BY <1>2, <2>1, <2>6, OperatorHoldsTheSeat DEF NextId
    <3>2. RulesAt(d.ns).amend.rule # "stamp"
      BY <2>1, <2>3 DEF TakesCanon
    <3>3. Enacted(d, 13)
      BY <3>1, <3>2 DEF Enacted
    <3> QED
      BY <2>4, <3>3 DEF CanonPinOK
  <2>10. "PIN" \in RulesAt(d.ns).acts /\ RulesAt(d.ns).grades
    BY <2>1, <2>3 DEF TakesCanon
  <2>11. \A r \in d.refs : r.edge = "pins" /\ r.id \in DOMAIN log
    BY <2>1, <2>6
  <2> QED
    BY <1>2, <1>3, <2>1, <2>2, <2>4, <2>7, <2>8, <2>9, <2>10, <2>11, SeedPasses
<1>8. \A n \in 1..13 : n \in 1..10 \/ n = 11 \/ n = 12 \/ n = 13
  OBVIOUS
<1> QED
  BY <1>4, <1>5, <1>6, <1>7, <1>8

-----------------------------------------------------------------------------
(* The order of the posts, and what follows.                                *)

\* Until the seed is through, the log is what seed.py has posted so far.
LEMMA SeedKeepsOrder == IInv /\ AsSeeded /\ [SeededNext]_vars => AsSeeded'
<1> SUFFICES ASSUME IInv, AsSeeded, [SeededNext]_vars PROVE AsSeeded'
  OBVIOUS
<1>1. Len(SeedBoard) = 13 /\ Len(Plan) >= 13 /\ Len(Plan) \in Nat
  BY SeedBoardIs, PlanIs
<1>2. Len(log) \in Nat
  BY LenProperties DEF IInv, TypeOK
<1>3. ASSUME NEW env, Joins(env), Len(log) + 1 <= 14 => ByTheSeed(env, SeedPost(Len(log) + 1))
      PROVE  AsSeeded'
  <2>1. /\ DOMAIN log = 1..Len(log) /\ DOMAIN log' = 1..(Len(log) + 1)
        /\ \A i \in 1..Len(log) : log'[i] = log[i]
        /\ log'[Len(log) + 1] = env
    BY <1>3, GrownLog
  <2>2. ASSUME NEW i \in 1..(Len(log) + 1), i <= 14
        PROVE  ByTheSeed(log'[i], SeedPost(i))
    <3>1. CASE i \in 1..Len(log)
      BY <1>1, <2>1, <2>2, <3>1 DEF AsSeeded
    <3>2. CASE i = Len(log) + 1
      BY <1>3, <2>1, <2>2, <3>2
    <3> QED
      BY <1>2, <2>2, <3>1, <3>2
  <2> QED
    BY <1>1, <2>1, <2>2 DEF AsSeeded
<1>4. CASE Genesis(GenesisPayload)
  <2>1. Joins(Sequenced(GenesisDraft(GenesisPayload), "human", now))
    BY <1>4, SeedAssumption, GenesisJoins
  <2>2. Len(log) = 0
    BY <1>4 DEF Genesis
  <2>3. ByTheSeed(Sequenced(GenesisDraft(GenesisPayload), "human", now), SeedPost(1))
    BY DEF ByTheSeed, SeedPost, Sequenced
  <2> QED
    BY <1>3, <2>1, <2>2, <2>3
<1>5. CASE Seed
  <2> DEFINE d == Plan[Len(log)]
  <2>1. log # << >> /\ Len(log) \in 1..Len(Plan) /\ Post(d)
    <3>1. log # << >> /\ Len(log) <= Len(Plan) /\ Post(d)
      BY <1>1, <1>2, <1>5 DEF Seed, Seeded
    <3>2. Len(log) # 0
      BY <3>1, EmptySeq DEF IInv, TypeOK
    <3> QED
      BY <1>1, <1>2, <3>1, <3>2
  <2>2. d \in Drafts
    BY <2>1, SeedAssumption, ElementOfSeq
  <2>3. Joins(Sequenced(d, BandOf(d), now))
    BY <2>1, <2>2, PostJoins
  <2>4. ASSUME Len(log) + 1 <= 14
        PROVE  ByTheSeed(Sequenced(d, BandOf(d), now), SeedPost(Len(log) + 1))
    <3>1. Len(log) <= 13
      BY <1>2, <2>4
    <3>2. Len(log) \in 1..13
      BY <2>1, <3>1, WhileSeeding
    <3>3. SeedPost(Len(log) + 1) = SeedBoard[Len(log)]
      <4>1. \A n \in 1..13 : n + 1 # 1 /\ (n + 1) - 1 = n
        OBVIOUS
      <4> QED
        BY <3>2, <4>1 DEF SeedPost
    <3>4. d = SeedBoard[Len(log)] /\ d.ns \in Namespace
      BY <2>2, <3>2, PlanIs, ClientAssumption DEF Draft
    <3>5. PICK root : SeedLaw(root)
      BY <2>1, <3>1, LawOfSeed
    <3>6. d.author = Operator /\ ~InScratch(d.ns)
      <4>1. CASE Len(log) \in 1..10
        BY <3>4, <4>1, NestsArePlain, SeedBoardIs DEF NestPost, PlainPost
      <4>2. CASE Len(log) = 11
        BY <3>4, <4>2, SeedBoardIs, OperatorPostIs DEF Rake, InScratch
      <4>3. CASE Len(log) = 12
        BY <3>4, <4>3, SeedBoardIs, OperatorPostIs DEF InboxDoc, InScratch, CanonNs
      <4>4. CASE Len(log) = 13
        BY <3>4, <4>4, SeedBoardIs DEF InboxPin, OperatorPost, InScratch, CanonNs
      <4> QED
        BY <3>2, <4>1, <4>2, <4>3, <4>4
    <3>7. BandOf(d) = "human"
      BY <2>1, <3>4, <3>5, <3>6, OperatorIsHuman DEF BandOf, NextId
    <3> QED
      BY <3>3, <3>4, <3>7 DEF ByTheSeed, Sequenced
  <2> QED
    BY <1>3, <2>3, <2>4
<1>6. CASE \E d \in Visits : Visit(d)
  <2>1. PICK d \in Visits : Visit(d)
    BY <1>6
  <2>2. Joins(Sequenced(d, BandOf(d), now)) /\ Len(log) > 13
    BY <1>1, <1>2, <2>1, SeedAssumption, PostJoins DEF Visit, Seeded
  <2> QED
    BY <1>2, <1>3, <2>2
<1>7. CASE Wait \/ UNCHANGED vars
  BY <1>7 DEF AsSeeded, Wait, Tick, vars
<1> QED
  BY <1>4, <1>5, <1>6, <1>7 DEF SeededNext

\* SeedIsAccepted of the part that seed.py itself posts.
KoraxSeedIsAccepted ==
    log # << >> /\ Len(log) <= Len(SeedBoard) => Accepts(SeedBoard[Len(log)])

\* SeedIsAccepted of the part that a team posts on top of it, which is the team's own
\* doing: it may plan what its law refuses.
SetupIsAccepted == Len(log) > Len(SeedBoard) /\ ~Seeded => Accepts(Plan[Len(log)])

\* Neither the seed nor the visits after it disturb the invariant.
LEMMA AlwaysAsSeeded == SeededSpec => [](IInv /\ AsSeeded)
<1>1. Init => AsSeeded
  BY DEF Init, AsSeeded
<1>2. IInv /\ [SeededNext]_vars => IInv'
  BY SeededStep, NextKeepsIInv
<1> QED
  BY <1>1, <1>2, InitIInv, SeedKeepsOrder, PTL DEF SeededSpec

\* The board comes up, whatever is to be set up on it and whoever the operator is: the
\* gauntlet of api.post lets every post of seed_board through, under the law that the
\* posts before it laid down, to the pin of the canon document (seed.py, validate.py).
THEOREM KoraxSeedComesUp == SeededSpec => []KoraxSeedIsAccepted
<1>1. IInv /\ AsSeeded => KoraxSeedIsAccepted
  BY SeedStepPasses, SeedBoardIs DEF KoraxSeedIsAccepted
<1> QED
  BY <1>1, AlwaysAsSeeded, PTL

\* The whole plan comes up when the team's part of it does; with nothing to set up, that
\* is always so.
THEOREM SeedComesUp == SeededSpec /\ []SetupIsAccepted => []SeedIsAccepted
<1>1. IInv /\ KoraxSeedIsAccepted /\ SetupIsAccepted => SeedIsAccepted
  <2>1. SUFFICES ASSUME IInv, KoraxSeedIsAccepted, SetupIsAccepted, log # << >>, ~Seeded
                 PROVE  Accepts(Plan[Len(log)])
    BY DEF SeedIsAccepted
  <2>2. Len(log) \in Nat /\ Len(log) # 0
    BY <2>1, LenProperties, EmptySeq DEF IInv, TypeOK
  <2>3. CASE Len(log) > 13
    BY <2>1, <2>3, SeedBoardIs DEF SetupIsAccepted
  <2>4. CASE Len(log) <= 13
    <3>1. Plan[Len(log)] = SeedBoard[Len(log)]
      BY <2>1, <2>4, WhileSeeding, PlanIs
    <3> QED
      BY <2>1, <2>4, <3>1, SeedBoardIs DEF KoraxSeedIsAccepted
  <2> QED
    BY <2>2, <2>3, <2>4
<1> QED
  BY <1>1, AlwaysAsSeeded, KoraxSeedComesUp, PTL

=============================================================================
