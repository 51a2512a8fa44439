----------------------------- MODULE AccountsProofs -----------------------------
(***************************************************************************)
(* For any number of worker threads, names and contents: an invite mints   *)
(* what it was issued for and no more, and an upload outruns neither its   *)
(* bytes nor its band's budget.                                            *)
(***************************************************************************)
EXTENDS Accounts, Offsets, SequenceTheorems

(* The registry.                                                           *)

\* A request that will mint a band.
MintRequest == [step : {"naming", "minting"}, display : Display, by : Nat,
                via : Nat \cup {NoInvite}]

RotateRequest == [step : {"rotating"}, band : Nat, by : Nat]

Mints(k) == {b \in DOMAIN bands : bands[b].via = k}

\* The uses of an invite that are spent and have not become a band yet.
InFlight(k) == {t \in Thread : request[t] \in MintRequest /\ request[t].via = k}

\* Whoever authorised a mint is on the board and, with an invite, issued it.
VouchedBy(row) ==
    /\ row.by \in DOMAIN bands
    /\ row.via # NoInvite => row.via \in DOMAIN invites /\ row.by = invites[row.via].by

RegistryOK ==
    /\ bands \in Seq(BandRow) /\ invites \in Seq(InviteRow) /\ tokens \in Nat
    /\ humans \subseteq DOMAIN bands
    /\ request \in [Thread -> {Idle} \cup MintRequest \cup RotateRequest]
    /\ \A t \in Thread : request[t] \in MintRequest => VouchedBy(request[t])
    /\ \A b \in DOMAIN bands : VouchedBy(bands[b]) /\ bands[b].by <= b
    /\ \A k \in DOMAIN invites : invites[k].by \in DOMAIN bands

\* What is left, what is in flight and what was minted is what was issued, but for
\* the uses that a refused name or a crash has burnt.
Balance(k) ==
    invites[k].left + Cardinality(InFlight(k)) + Cardinality(Mints(k))
        <= invites[k].issued

MintInv == RegistryOK /\ \A k \in DOMAIN invites : Balance(k)

LEMMA SetsAreFinite ==
    ASSUME RegistryOK
    PROVE  \A k : /\ IsFiniteSet(InFlight(k)) /\ Cardinality(InFlight(k)) \in Nat
                  /\ IsFiniteSet(Mints(k)) /\ Cardinality(Mints(k)) \in Nat
<1> SUFFICES ASSUME NEW k
             PROVE  /\ IsFiniteSet(InFlight(k)) /\ Cardinality(InFlight(k)) \in Nat
                    /\ IsFiniteSet(Mints(k)) /\ Cardinality(Mints(k)) \in Nat
  OBVIOUS
<1>1. InFlight(k) \subseteq Thread /\ Mints(k) \subseteq 1..Len(bands)
  BY DEF InFlight, Mints, RegistryOK
<1>2. IsFiniteSet(1..Len(bands))
  BY FS_Interval DEF RegistryOK
<1>3. IsFiniteSet(InFlight(k)) /\ IsFiniteSet(Mints(k))
  BY <1>1, <1>2, FS_Subset, AccountsAssumption
<1> QED
  BY <1>3, FS_CardinalityType

\* An idle thread is in nobody's flight.
LEMMA OtherRequests ==
    /\ Idle \notin MintRequest
    /\ RotateRequest \cap MintRequest = {}
BY DEF Idle, MintRequest, RotateRequest

LEMMA CreateInviteKeeps ==
    ASSUME MintInv, NEW who \in DOMAIN bands, NEW uses \in 1..MaxUses,
           NEW expires \in 1..MaxTime, CreateInvite(who, uses, expires)
    PROVE  MintInv'
<1> DEFINE row == [issued |-> uses, left |-> uses, expires |-> expires, by |-> who]
<1> USE DEF MintInv, RegistryOK
<1>1. /\ invites' = Append(invites, row)
      /\ UNCHANGED <<bands, humans, tokens, request>>
  BY DEF CreateInvite
<1>2. row \in InviteRow /\ who \in DOMAIN bands
  BY AccountsAssumption DEF InviteRow
<1>3. PICK n \in Nat : n = Len(invites) + 1
  OBVIOUS
<1>4. /\ invites' \in Seq(InviteRow) /\ DOMAIN invites' = DOMAIN invites \cup {n}
      /\ \A k \in DOMAIN invites : invites'[k] = invites[k]
      /\ invites'[n] = row /\ n \notin DOMAIN invites
  <2> HIDE DEF row
  <2> QED
    BY <1>1, <1>2, <1>3
<1>5. RegistryOK'
  <2>1. \A k \in DOMAIN invites' : invites'[k].by \in DOMAIN bands'
    BY <1>1, <1>2, <1>4
  <2>2. \A r : VouchedBy(r) => VouchedBy(r)'
    BY <1>1, <1>4 DEF VouchedBy
  <2> QED
    BY <2>1, <2>2, <1>1, <1>4
<1>6. ASSUME NEW k \in DOMAIN invites PROVE Balance(k)'
  BY <1>6, <1>1, <1>4 DEF Balance, InFlight, Mints
<1>7. Balance(n)'
  <2>1. InFlight(n)' = {} /\ Mints(n)' = {}
    <3>1. n # NoInvite
      BY AccountsAssumption
    <3>2. \A r : VouchedBy(r) => r.via # n
      BY <3>1, <1>4 DEF VouchedBy
    <3>3. InFlight(n) = {} /\ Mints(n) = {}
      BY <3>2 DEF InFlight, Mints
    <3> QED
      BY <3>3, <1>1 DEF InFlight, Mints
  <2> QED
    BY <2>1, <1>2, <1>4, FS_EmptySet DEF Balance, InviteRow
<1> QED
  BY <1>4, <1>5, <1>6, <1>7

\* Requests come, go and move on; the tables stay.
LEMMA RequestsKeep ==
    ASSUME MintInv, UNCHANGED <<bands, invites>>, tokens' \in Nat,
           (humans \subseteq DOMAIN bands)',
           request' \in [Thread -> {Idle} \cup MintRequest \cup RotateRequest],
           \A t \in Thread : request'[t] \in MintRequest =>
               /\ VouchedBy(request'[t])
               /\ \A k \in DOMAIN invites : request'[t].via = k =>
                      request[t] \in MintRequest /\ request[t].via = k
    PROVE  MintInv'
<1> USE DEF MintInv
<1>1. RegistryOK'
  BY DEF RegistryOK, VouchedBy
<1>2. ASSUME NEW k \in DOMAIN invites PROVE Balance(k)'
  <2>1. InFlight(k)' \subseteq InFlight(k) /\ Mints(k)' = Mints(k)
    BY <1>2 DEF InFlight, Mints
  <2>2. Cardinality(InFlight(k)') <= Cardinality(InFlight(k))
    BY <2>1, SetsAreFinite, FS_Subset
  <2>3. IsFiniteSet(InFlight(k)') /\ Cardinality(InFlight(k)') \in Nat
    BY <2>1, SetsAreFinite, FS_Subset, FS_CardinalityType
  <2>4. invites[k] \in InviteRow
    BY <1>2 DEF RegistryOK
  <2>5. Balance(k)
    BY <1>2
  <2> HIDE DEF MintInv
  <2> QED
    BY <2>1, <2>2, <2>3, <2>4, <2>5, SetsAreFinite DEF Balance, InviteRow, MintInv
<1> QED
  BY <1>1, <1>2

LEMMA ConsumeInviteKeeps ==
    ASSUME MintInv, NEW t \in Thread, NEW d \in Display, NEW k \in DOMAIN invites,
           ConsumeInvite(t, k, d)
    PROVE  MintInv'
<1> DEFINE new == [step |-> "naming", display |-> d, by |-> invites[k].by, via |-> k]
<1> USE DEF MintInv
<1>1. /\ invites' = [invites EXCEPT ![k].left = @ - 1] /\ invites[k].left > 0
      /\ request' = [request EXCEPT ![t] = new] /\ request[t] = Idle
      /\ UNCHANGED <<bands, humans, tokens>>
  BY DEF ConsumeInvite, Spendable, Do
<1>2. k \in Nat /\ invites[k] \in InviteRow /\ k # NoInvite
  BY AccountsAssumption DEF RegistryOK
<1>3. new \in MintRequest /\ invites[k].by \in DOMAIN bands
  BY <1>2 DEF MintRequest, RegistryOK, InviteRow
<1>4. /\ invites' \in Seq(InviteRow) /\ DOMAIN invites' = DOMAIN invites
      /\ \A j \in DOMAIN invites : /\ invites'[j].by = invites[j].by
                                   /\ invites'[j].issued = invites[j].issued
                                   /\ j # k => invites'[j].left = invites[j].left
      /\ invites'[k].left = invites[k].left - 1
  <2> DEFINE row == [issued |-> invites[k].issued, left |-> invites[k].left - 1,
                     expires |-> invites[k].expires, by |-> invites[k].by]
  <2>1. row = [invites[k] EXCEPT !.left = @ - 1] /\ row \in InviteRow
    BY <1>1, <1>2 DEF InviteRow
  <2>2. invites' = [invites EXCEPT ![k] = row]
    BY <1>1, <2>1
  <2>3. row.left = invites[k].left - 1 /\ row.issued = invites[k].issued
          /\ row.by = invites[k].by
    OBVIOUS
  <2>4. invites \in Seq(InviteRow) /\ k \in 1..Len(invites)
    BY DEF RegistryOK
  <2> HIDE DEF row
  <2>5. /\ invites' \in Seq(InviteRow) /\ Len(invites') = Len(invites)
        /\ \A j \in 1..Len(invites) : invites'[j] = IF j = k THEN row ELSE invites[j]
    BY <2>1, <2>2, <2>4, ExceptSeq
  <2>6. DOMAIN invites' = 1..Len(invites) /\ DOMAIN invites = 1..Len(invites)
    BY <2>4, <2>5
  <2> QED
    BY <2>3, <2>5, <2>6
<1>5. RegistryOK'
  <2>1. request' \in [Thread -> {Idle} \cup MintRequest \cup RotateRequest]
    BY <1>1, <1>3 DEF RegistryOK
  <2>2. ASSUME NEW x \in Thread, request'[x] \in MintRequest
        PROVE  VouchedBy(request[x])'
    <3>1. CASE x = t
      <4>1. request'[x] = new
        BY <1>1, <3>1 DEF RegistryOK
      <4>2. new.by = invites'[k].by /\ new.via = k /\ new.by \in DOMAIN bands'
        BY <1>1, <1>3, <1>4
      <4> HIDE DEF new
      <4> QED
        BY <4>1, <4>2, <1>4 DEF VouchedBy
    <3>2. CASE x # t
      <4>1. request'[x] = request[x] /\ VouchedBy(request[x])
        BY <1>1, <2>2, <3>2 DEF RegistryOK
      <4> HIDE DEF new
      <4> QED
        BY <4>1, <1>1, <1>4 DEF VouchedBy
    <3> QED
      BY <3>1, <3>2
  <2>3. /\ \A b \in DOMAIN bands' : VouchedBy(bands[b])' /\ bands'[b].by <= b
        /\ \A j \in DOMAIN invites' : invites'[j].by \in DOMAIN bands'
    BY <1>1, <1>4 DEF RegistryOK, VouchedBy
  <2> QED
    BY <2>1, <2>2, <2>3, <1>1, <1>4 DEF RegistryOK
<1>6. ASSUME NEW j \in DOMAIN invites, j # k PROVE Balance(j)'
  <2>1. InFlight(j)' = InFlight(j)
    BY <1>1, <1>3, <1>6, OtherRequests DEF InFlight, RegistryOK
  <2> QED
    BY <2>1, <1>1, <1>4, <1>6 DEF Balance, Mints
<1>7. Balance(k)'
  <2>1. InFlight(k)' = InFlight(k) \cup {t} /\ t \notin InFlight(k)
    BY <1>1, <1>3, OtherRequests DEF InFlight, RegistryOK
  <2>2. Cardinality(InFlight(k)') = Cardinality(InFlight(k)) + 1
    BY <2>1, SetsAreFinite, FS_AddElement
  <2>3. Mints(k)' = Mints(k)
    BY <1>1 DEF Mints
  <2>4. Balance(k)
    OBVIOUS
  <2> QED
    BY <2>2, <2>3, <2>4, <1>2, <1>4, SetsAreFinite DEF Balance, InviteRow
<1> QED
  BY <1>4, <1>5, <1>6, <1>7

LEMMA StartMintKeeps ==
    ASSUME MintInv, NEW t \in Thread, NEW who \in DOMAIN bands, NEW d \in Display,
           StartMint(t, who, d)
    PROVE  MintInv'
<1> DEFINE new == [step |-> "naming", display |-> d, by |-> who, via |-> NoInvite]
<1>1. request' = [request EXCEPT ![t] = new] /\ UNCHANGED <<bands, invites, humans, tokens>>
  BY DEF StartMint, Do
<1>2. new \in MintRequest /\ new.by = who /\ new.via = NoInvite
  BY DEF MintRequest, MintInv, RegistryOK
<1> HIDE DEF new
<1>3. VouchedBy(new) /\ \A k \in DOMAIN invites : new.via # k
  <2>1. DOMAIN invites = 1..Len(invites) /\ Len(invites) \in Nat
    BY DEF MintInv, RegistryOK
  <2>2. \A k \in DOMAIN invites : NoInvite # k
    BY <2>1, AccountsAssumption
  <2> QED
    BY <1>2, <2>2 DEF VouchedBy
<1> QED
  BY <1>1, <1>2, <1>3, RequestsKeep DEF MintInv, RegistryOK

LEMMA CheckDisplayKeeps ==
    ASSUME MintInv, NEW t \in Thread, CheckDisplay(t)
    PROVE  MintInv'
<1>1. PICK new : /\ request' = [request EXCEPT ![t] = new]
                 /\ new = Idle \/ new = [request[t] EXCEPT !.step = "minting"]
  BY DEF CheckDisplay, Do
<1>2. UNCHANGED <<bands, invites, humans, tokens>> /\ request[t] \in MintRequest
  BY DEF CheckDisplay, MintInv, RegistryOK, Idle, RotateRequest
<1>3. new \in MintRequest => new.via = request[t].via /\ new.by = request[t].by
  BY <1>1, <1>2, OtherRequests DEF MintRequest
<1>4. new \in {Idle} \cup MintRequest
  BY <1>1, <1>2 DEF MintRequest
<1>5. new \in MintRequest => VouchedBy(new)
  BY <1>2, <1>3 DEF VouchedBy, MintInv, RegistryOK
<1> QED
  BY <1>1, <1>2, <1>3, <1>4, <1>5, RequestsKeep DEF MintInv, RegistryOK

LEMMA StartRotateKeeps ==
    ASSUME MintInv, NEW t \in Thread, NEW token, NEW band \in DOMAIN bands,
           StartRotate(t, token, band)
    PROVE  MintInv'
<1>1. PICK who \in DOMAIN bands :
         request' = [request EXCEPT ![t] =
                        [step |-> "rotating", band |-> band, by |-> who]]
  BY DEF StartRotate, Do, Authenticates
<1>2. UNCHANGED <<bands, invites, humans, tokens>>
  BY DEF StartRotate
<1> DEFINE new == [step |-> "rotating", band |-> band, by |-> who]
<1>3. new \in RotateRequest /\ new \notin MintRequest
  BY OtherRequests DEF RotateRequest, MintRequest, MintInv, RegistryOK
<1>4. request' = [request EXCEPT ![t] = new]
  BY <1>1
<1> HIDE DEF new
<1> QED
  BY <1>2, <1>3, <1>4, RequestsKeep DEF MintInv, RegistryOK

LEMMA CrashKeeps == MintInv /\ Crash => MintInv'
<1> SUFFICES ASSUME MintInv, Crash PROVE MintInv'
  OBVIOUS
<1>1. request' = [t \in Thread |-> Idle] /\ UNCHANGED <<bands, invites, humans, tokens>>
  BY DEF Crash
<1> QED
  BY <1>1, RequestsKeep, OtherRequests DEF MintInv, RegistryOK

LEMMA CreateIdentityKeeps ==
    ASSUME MintInv, NEW t \in Thread, CreateIdentity(t)
    PROVE  MintInv'
<1> DEFINE row == [display |-> request[t].display, token |-> tokens + 1,
                   by |-> request[t].by, via |-> request[t].via]
<1>1. /\ bands' = Append(bands, row) /\ tokens' = tokens + 1
      /\ request' = [request EXCEPT ![t] = Idle] /\ UNCHANGED <<invites, humans>>
  BY DEF CreateIdentity, Do
<1>2. request[t] \in MintRequest /\ VouchedBy(request[t]) /\ bands \in Seq(BandRow)
  BY DEF CreateIdentity, MintInv, RegistryOK, Idle, RotateRequest
<1>3. row \in BandRow /\ VouchedBy(row) /\ row.via = request[t].via
  BY <1>2 DEF MintRequest, BandRow, VouchedBy, MintInv, RegistryOK
<1>4. PICK n \in Nat : n = Len(bands) + 1
  BY <1>2
<1> HIDE DEF row
<1>5. /\ bands' \in Seq(BandRow) /\ DOMAIN bands' = DOMAIN bands \cup {n}
      /\ \A b \in DOMAIN bands : bands'[b] = bands[b] /\ b <= n
      /\ bands'[n] = row /\ n \notin DOMAIN bands
  BY <1>1, <1>2, <1>3, <1>4
<1>6. \A r : VouchedBy(r) => VouchedBy(r)'
  BY <1>1, <1>5 DEF VouchedBy
<1>7. RegistryOK'
  <2>1. \A b \in DOMAIN bands' : VouchedBy(bands'[b]) /\ bands'[b].by <= b
    BY <1>3, <1>5 DEF VouchedBy, MintInv, RegistryOK
  <2>2. \A b \in DOMAIN bands' : VouchedBy(bands[b])' /\ bands'[b].by <= b
    BY <2>1, <1>1, <1>5 DEF VouchedBy
  <2>3. \A x \in Thread : (request[x] \in MintRequest => VouchedBy(request[x]))'
    BY <1>1, <1>5, OtherRequests DEF VouchedBy, MintInv, RegistryOK
  <2> QED
    BY <2>2, <2>3, <1>1, <1>5 DEF MintInv, RegistryOK
<1>8. ASSUME NEW k \in DOMAIN invites PROVE Balance(k)'
  <2> DEFINE c == IF request[t].via = k THEN 1 ELSE 0
  <2>1. Cardinality(Mints(k)') = Cardinality(Mints(k)) + c
    <3>1. Mints(k)' = IF request[t].via = k THEN Mints(k) \cup {n} ELSE Mints(k)
      BY <1>3, <1>5 DEF Mints
    <3>2. n \notin Mints(k)
      BY <1>5 DEF Mints
    <3>3. IsFiniteSet(Mints(k)) /\ Cardinality(Mints(k)) \in Nat
      BY SetsAreFinite DEF MintInv
    <3>4. Cardinality(Mints(k) \cup {n}) = Cardinality(Mints(k)) + 1
      BY <3>2, <3>3, FS_AddElement
    <3> QED
      BY <3>1, <3>3, <3>4
  <2>2. Cardinality(InFlight(k)') = Cardinality(InFlight(k)) - c
    <3>1. InFlight(k)' = InFlight(k) \ {t}
      BY <1>1, OtherRequests DEF InFlight, MintInv, RegistryOK
    <3>2. t \in InFlight(k) <=> request[t].via = k
      BY <1>2 DEF InFlight
    <3>3. IsFiniteSet(InFlight(k)) /\ Cardinality(InFlight(k)) \in Nat
      BY SetsAreFinite DEF MintInv
    <3>4. Cardinality(InFlight(k) \ {t}) =
            IF t \in InFlight(k) THEN Cardinality(InFlight(k)) - 1
                                 ELSE Cardinality(InFlight(k))
      BY <3>3, FS_RemoveElement
    <3> QED
      BY <3>1, <3>2, <3>3, <3>4
  <2>3. Balance(k) /\ invites[k] \in InviteRow
    BY DEF MintInv, RegistryOK
  <2> QED
    BY <2>1, <2>2, <2>3, <1>1, SetsAreFinite DEF Balance, InviteRow, MintInv
<1> QED
  BY <1>1, <1>7, <1>8 DEF MintInv

LEMMA RotateKeeps ==
    ASSUME MintInv, NEW t \in Thread, Rotate(t)
    PROVE  MintInv'
<1>1. PICK b \in Nat : b = request[t].band /\ request[t] \in RotateRequest
  BY DEF Rotate, MintInv, RegistryOK, Idle, MintRequest, RotateRequest
<1>2. /\ bands' = [bands EXCEPT ![b].token = tokens + 1] /\ tokens' = tokens + 1
      /\ request' = [request EXCEPT ![t] = Idle] /\ UNCHANGED <<invites, humans>>
  BY <1>1 DEF Rotate, Do
<1>3. bands \in Seq(BandRow) /\ tokens \in Nat
  BY DEF MintInv, RegistryOK
<1>4. /\ bands' \in Seq(BandRow) /\ DOMAIN bands' = DOMAIN bands
      /\ \A x \in DOMAIN bands : bands'[x].by = bands[x].by /\ bands'[x].via = bands[x].via
  <2>1. CASE b \in DOMAIN bands
    <3> DEFINE row == [display |-> bands[b].display, token |-> tokens + 1,
                       by |-> bands[b].by, via |-> bands[b].via]
    <3>1. b \in 1..Len(bands) /\ bands[b] \in BandRow
      BY <2>1, <1>3
    <3>2. row = [bands[b] EXCEPT !.token = tokens + 1] /\ row \in BandRow
      BY <3>1, <1>3 DEF BandRow
    <3>3. bands' = [bands EXCEPT ![b] = row]
      BY <1>2, <3>2
    <3>4. row.by = bands[b].by /\ row.via = bands[b].via
      OBVIOUS
    <3> HIDE DEF row
    <3>5. /\ bands' \in Seq(BandRow) /\ Len(bands') = Len(bands)
          /\ \A x \in 1..Len(bands) : bands'[x] = IF x = b THEN row ELSE bands[x]
      BY <1>3, <3>1, <3>2, <3>3, ExceptSeq
    <3>6. DOMAIN bands' = 1..Len(bands) /\ DOMAIN bands = 1..Len(bands)
      BY <1>3, <3>5
    <3> QED
      BY <3>4, <3>5, <3>6
  <2>2. CASE b \notin DOMAIN bands
    <3>1. bands' = bands
      BY <1>2, <1>3, <2>2
    <3> QED
      BY <3>1, <1>3
  <2> QED
    BY <2>1, <2>2
<1>5. RegistryOK'
  <2>1. \A x \in Thread : (request[x] \in MintRequest => VouchedBy(request[x]))'
    BY <1>2, <1>4, OtherRequests DEF VouchedBy, MintInv, RegistryOK
  <2>2. \A x \in DOMAIN bands' : VouchedBy(bands[x])' /\ bands'[x].by <= x
    <3>1. \A x \in DOMAIN bands : VouchedBy(bands[x]) /\ bands[x].by <= x
      BY DEF MintInv, RegistryOK
    <3> QED
      BY <1>2, <1>4, <3>1 DEF VouchedBy
  <2>3. request' \in [Thread -> {Idle} \cup MintRequest \cup RotateRequest]
    BY <1>2 DEF MintInv, RegistryOK
  <2>4. /\ humans' \subseteq DOMAIN bands' /\ invites' \in Seq(InviteRow)
        /\ \A k \in DOMAIN invites' : invites'[k].by \in DOMAIN bands'
    BY <1>2, <1>4 DEF MintInv, RegistryOK
  <2>5. tokens' \in Nat /\ bands' \in Seq(BandRow)
    BY <1>2, <1>3, <1>4
  <2> QED
    BY <2>1, <2>2, <2>3, <2>4, <2>5 DEF RegistryOK
<1>6. ASSUME NEW k \in DOMAIN invites PROVE Balance(k)'
  <2>1. InFlight(k)' = InFlight(k)
    BY <1>1, <1>2, OtherRequests DEF InFlight, MintInv, RegistryOK
  <2>2. Mints(k)' = Mints(k)
    BY <1>4 DEF Mints
  <2> QED
    BY <2>1, <2>2, <1>2, <1>6 DEF Balance, MintInv
<1> QED
  BY <1>2, <1>5, <1>6 DEF MintInv

LEMMA NextKeepsMintInv == MintInv /\ [Next]_vars => MintInv'
<1> SUFFICES ASSUME MintInv, [Next]_vars PROVE MintInv'
  OBVIOUS
<1>1. ASSUME UNCHANGED Registry, (humans \subseteq DOMAIN bands)' PROVE MintInv'
  BY <1>1 DEF Registry, MintInv, RegistryOK, VouchedBy, Balance, InFlight, Mints
<1>2. ASSUME NEW band \in DOMAIN bands, ChangeHumans(band) PROVE MintInv'
  BY <1>1, <1>2 DEF ChangeHumans, Registry, MintInv, RegistryOK
<1>3. ASSUME UNCHANGED <<Registry, humans>> PROVE MintInv'
  BY <1>1, <1>3 DEF Registry, MintInv, RegistryOK
<1>4. ASSUME NEW band, NEW sha, StoreBlob(band, sha) PROVE MintInv'
  BY <1>3, <1>4 DEF StoreBlob
<1>5. CASE PostAnchor \/ RefuseAnchor \/ Tick \/ UNCHANGED vars
  BY <1>3, <1>5 DEF PostAnchor, RefuseAnchor, Tick, vars, Registry
<1>6. ASSUME NEW band, NEW sha, NEW bytes, PostPointer(band, sha, bytes) PROVE MintInv'
  BY <1>3, <1>6 DEF PostPointer
<1> QED
  BY <1>2, <1>4, <1>5, <1>6, CreateInviteKeeps, ConsumeInviteKeeps, StartMintKeeps,
     CheckDisplayKeeps, CreateIdentityKeeps, StartRotateKeeps, RotateKeeps, CrashKeeps
  DEF Next

LEMMA InitMintInv == Init => MintInv
<1> SUFFICES ASSUME Init PROVE MintInv
  OBVIOUS
<1>1. PICK d \in Display :
         bands = <<[display |-> d, token |-> 1, by |-> 1, via |-> NoInvite]>>
  BY DEF Init
<1> DEFINE row == [display |-> d, token |-> 1, by |-> 1, via |-> NoInvite]
<1>2. row \in BandRow /\ row.by = 1 /\ row.via = NoInvite /\ bands = <<row>>
  BY <1>1 DEF BandRow
<1> HIDE DEF row
<1>3. bands \in Seq(BandRow) /\ DOMAIN bands = {1} /\ bands[1] = row
  BY <1>2
<1>4. invites \in Seq(InviteRow) /\ DOMAIN invites = {} /\ humans = {1} /\ tokens = 1
  BY DEF Init
<1>5. /\ request \in [Thread -> {Idle} \cup MintRequest \cup RotateRequest]
      /\ \A t \in Thread : request[t] = Idle
  BY DEF Init
<1>6. RegistryOK
  BY <1>2, <1>3, <1>4, <1>5, OtherRequests DEF RegistryOK, VouchedBy
<1> QED
  BY <1>4, <1>6 DEF MintInv

\* However many threads present an invite at once, and wherever the process crashes,
\* it mints no more bands than it was issued for, and each is put down to the band
\* that issued it (store.py consume_invite, api.py create_identity).
THEOREM InvitesAreNotOverspent == Spec => []EveryMintIsVouchedFor
<1>1. MintInv => EveryMintIsVouchedFor
  <2> SUFFICES ASSUME MintInv PROVE EveryMintIsVouchedFor
    OBVIOUS
  <2>1. ASSUME NEW k \in DOMAIN invites
        PROVE  invites[k].left + Cardinality(Mints(k)) \in 0..invites[k].issued
    <3>1. Balance(k) /\ invites[k] \in InviteRow
      BY DEF MintInv, RegistryOK
    <3>2. Cardinality(InFlight(k)) \in Nat /\ Cardinality(Mints(k)) \in Nat
      BY SetsAreFinite DEF MintInv
    <3> QED
      BY <3>1, <3>2 DEF Balance, InviteRow
  <2>2. ASSUME NEW b \in DOMAIN bands
        PROVE  /\ bands[b].by \in 1..b
               /\ bands[b].via # NoInvite => bands[b].by = invites[bands[b].via].by
    BY <2>2 DEF MintInv, RegistryOK, VouchedBy
  <2> QED
    BY <2>1, <2>2 DEF EveryMintIsVouchedFor, Mints
<1> QED
  BY <1>1, InitMintInv, NextKeepsMintInv, PTL DEF Spec

-----------------------------------------------------------------------------
(* Anchors.                                                                *)

\* An upload that is about to be anchored has its bytes in the store.
BytesInv ==
    /\ anchors \in Seq(Anchor)
    /\ EveryUploadHasItsBytes
    /\ upload = Idle \/ (upload.sha \in blobs \cap Sha /\ upload.band \in Nat)
    /\ now \in Nat

\* A note of the nest joins the log; the log's seconds lose less than one.
LEMMA NoteJoins ==
    ASSUME BytesInv, NEW band \in Nat, NEW sha \in Sha, NEW bytes \in Nat,
           NEW handler \in {"upload", "post"},
           anchors' = Append(anchors, Note(band, sha, bytes, handler))
    PROVE  LET n    == Len(anchors) + 1
               note == Note(band, sha, bytes, handler)
           IN  /\ note \in Anchor /\ note.at = now /\ note.ts <= now
               /\ now <= note.ts + SecondTicks - 1
               /\ anchors' \in Seq(Anchor) /\ n \in Nat /\ n \notin DOMAIN anchors
               /\ DOMAIN anchors' = DOMAIN anchors \cup {n}
               /\ \A k \in DOMAIN anchors : anchors'[k] = anchors[k]
               /\ anchors'[n] = note
<1> DEFINE note == Note(band, sha, bytes, handler)
<1>1. now \in Nat /\ anchors \in Seq(Anchor) /\ SecondTicks \in Nat \ {0}
  BY AccountsAssumption DEF BytesInv
<1>2. now % SecondTicks \in 0..(SecondTicks - 1) /\ now % SecondTicks <= now
  BY <1>1
<1>3. Truncate(now) \in Nat /\ Truncate(now) <= now /\ now <= Truncate(now) + SecondTicks - 1
  BY <1>1, <1>2 DEF Truncate
<1>4. note \in Anchor /\ note.at = now /\ note.ts = Truncate(now)
  BY <1>1, <1>3 DEF Note, Anchor
<1> HIDE DEF note
<1>5. /\ anchors' \in Seq(Anchor) /\ Len(anchors) \in Nat
      /\ DOMAIN anchors = 1..Len(anchors) /\ DOMAIN anchors' = 1..(Len(anchors) + 1)
      /\ \A k \in DOMAIN anchors : anchors'[k] = anchors[k]
      /\ anchors'[Len(anchors) + 1] = note
  <2>1. anchors' = Append(anchors, note)
    BY DEF note
  <2> QED
    BY <2>1, <1>1, <1>4
<1>6. DOMAIN anchors' = DOMAIN anchors \cup {Len(anchors) + 1} /\ Len(anchors) + 1 \notin DOMAIN anchors
  BY <1>5
<1> QED
  BY <1>3, <1>4, <1>5, <1>6 DEF note

LEMMA NextKeepsBytes == MintInv /\ BytesInv /\ [Next]_vars => BytesInv'
<1> SUFFICES ASSUME MintInv, BytesInv, [Next]_vars PROVE BytesInv'
  OBVIOUS
<1>0. \A band \in DOMAIN bands : band \in Nat
  BY DEF MintInv, RegistryOK
<1>1. ASSUME UNCHANGED Store, now' \in Nat PROVE BytesInv'
  BY <1>1 DEF Store, BytesInv, EveryUploadHasItsBytes
<1>2. ASSUME NEW band \in DOMAIN bands, NEW sha \in Sha, StoreBlob(band, sha)
      PROVE  BytesInv'
  BY <1>0, <1>2 DEF StoreBlob, PutBlob, Idle, BytesInv, EveryUploadHasItsBytes
<1>3. ASSUME NEW band \in Nat, NEW sha \in Sha, NEW bytes \in Nat,
             NEW handler \in {"upload", "post"},
             anchors' = Append(anchors, Note(band, sha, bytes, handler)),
             handler = "upload" => sha \in blobs,
             upload' = upload \/ upload' = Idle, UNCHANGED <<blobs, now>>
      PROVE  BytesInv'
  <2> DEFINE n    == Len(anchors) + 1
             note == Note(band, sha, bytes, handler)
  <2>1. /\ anchors' \in Seq(Anchor) /\ DOMAIN anchors' = DOMAIN anchors \cup {n}
        /\ \A k \in DOMAIN anchors : anchors'[k] = anchors[k]
        /\ anchors'[n] = note
    BY <1>3, NoteJoins
  <2>2. note.by = handler /\ note.sha = sha
    BY DEF Note
  <2> HIDE DEF note, n
  <2>3. EveryUploadHasItsBytes'
    BY <1>3, <2>1, <2>2 DEF BytesInv, EveryUploadHasItsBytes
  <2> QED
    BY <1>3, <2>1, <2>3 DEF BytesInv
<1>4. CASE PostAnchor
  <2>1. upload.sha \in blobs \cap Sha /\ upload.band \in Nat /\ Size[upload.sha] \in Nat
    BY <1>4, AccountsAssumption DEF PostAnchor, BytesInv
  <2> QED
    BY <1>3, <1>4, <2>1 DEF PostAnchor
<1>5. ASSUME NEW band \in DOMAIN bands, NEW sha \in Sha, NEW bytes \in 0..MaxBlob,
             PostPointer(band, sha, bytes)
      PROVE  BytesInv'
  <2>1. band \in Nat /\ bytes \in Nat
    BY <1>0, AccountsAssumption
  <2> QED
    BY <1>3, <1>5, <2>1 DEF PostPointer
<1>6. CASE RefuseAnchor \/ Crash
  BY <1>6 DEF RefuseAnchor, Crash, BytesInv, EveryUploadHasItsBytes
<1>7. CASE Tick \/ UNCHANGED vars
  BY <1>1, <1>7 DEF Tick, vars, Store, BytesInv
<1>8. ASSUME UNCHANGED <<Store, now>> PROVE BytesInv'
  BY <1>1, <1>8 DEF BytesInv
<1> QED
  BY <1>2, <1>4, <1>5, <1>6, <1>7, <1>8
  DEF Next, CreateInvite, ConsumeInvite, StartMint, CheckDisplay, CreateIdentity,
      StartRotate, Rotate, ChangeHumans

\* No anchor that an upload wrote points at bytes the store does not hold, also when
\* the process dies in the middle of one and whatever pointers are posted by hand
\* (api.py post_blob and post).
THEOREM UploadsHaveTheirBytes == Spec => []EveryUploadHasItsBytes
<1>1. Init => MintInv /\ BytesInv
  BY InitMintInv DEF Init, BytesInv, EveryUploadHasItsBytes
<1>2. MintInv /\ BytesInv /\ [Next]_vars => (MintInv /\ BytesInv)'
  BY NextKeepsMintInv, NextKeepsBytes
<1>3. BytesInv => EveryUploadHasItsBytes
  BY DEF BytesInv
<1> QED
  BY <1>1, <1>2, <1>3, PTL DEF Spec

-----------------------------------------------------------------------------
(* The daily budget.                                                       *)

\* What anchors say they hold, by offset of the anchor.
Weigh(notes) == [k \in DOMAIN notes |-> notes[k].bytes]

\* What BytesOf computes is a sum.
LEMMA BytesAreSum ==
    ASSUME NEW notes \in Seq(Anchor), NEW ids \in SUBSET (DOMAIN notes)
    PROVE  /\ IsFiniteSet(ids) /\ \A k \in DOMAIN notes : Weigh(notes)[k] \in Nat
           /\ \E sum : IsSum(sum, Weigh(notes), ids) /\ BytesOf(notes, ids) = sum[ids]
<1>1. DOMAIN notes = 1..Len(notes) /\ IsFiniteSet(1..Len(notes))
  BY LenProperties, FS_Interval
<1>2. IsFiniteSet(ids)
  BY <1>1, FS_Subset
<1>3. \A k \in DOMAIN notes : Weigh(notes)[k] \in Nat
  <2> TAKE k \in DOMAIN notes
  <2>1. notes[k] \in Anchor
    BY <1>1, ElementOfSeq
  <2>2. notes[k].bytes \in Nat
    BY <2>1 DEF Anchor
  <2> QED
    BY <2>2 DEF Weigh
<1> DEFINE Is(f) ==
              f = [s \in SUBSET ids |->
                     IF s = {} THEN 0
                     ELSE LET x == CHOOSE x \in s : TRUE
                          IN  notes[x].bytes + f[s \ {x}]]
           sum == CHOOSE f : Is(f)
<1>4. BytesOf(notes, ids) = sum[ids]
  BY DEF BytesOf, MapThenSumSet, MapThenFoldSet
<1>5. \A f : Is(f) <=> IsSum(f, Weigh(notes), ids)
  <2> TAKE f
  <2>1. \A s \in SUBSET ids : s # {} => notes[Pick(s)].bytes = Weigh(notes)[Pick(s)]
    BY PickOne DEF Weigh
  <2>2. [s \in SUBSET ids |->
           IF s = {} THEN 0 ELSE notes[Pick(s)].bytes + f[s \ {Pick(s)}]]
        = [s \in SUBSET ids |->
             IF s = {} THEN 0 ELSE Weigh(notes)[Pick(s)] + f[s \ {Pick(s)}]]
    BY <2>1
  <2>3. Is(f) <=> f = [s \in SUBSET ids |->
                        IF s = {} THEN 0 ELSE notes[Pick(s)].bytes + f[s \ {Pick(s)}]]
    BY DEF Pick
  <2> QED
    BY <2>2, <2>3 DEF IsSum
<1>6. \E f : IsSum(f, Weigh(notes), ids)
  BY <1>2, <1>3, SumExists
<1> HIDE DEF Is
<1>7. Is(sum)
  BY <1>5, <1>6, Zenon
<1> HIDE DEF sum
<1> QED
  BY <1>2, <1>3, <1>4, <1>5, <1>7

\* More anchors weigh more, each its own size, whenever they are weighed.
LEMMA BytesFacts ==
    ASSUME NEW notes \in Seq(Anchor)
    PROVE  /\ \A ids \in SUBSET (DOMAIN notes) : BytesOf(notes, ids) \in Nat
           /\ \A ids \in SUBSET (DOMAIN notes) :
                 \A few \in SUBSET ids : BytesOf(notes, few) <= BytesOf(notes, ids)
           /\ BytesOf(notes, {}) = 0
           /\ \A ids \in SUBSET (DOMAIN notes) : \A k \in ids :
                 BytesOf(notes, ids) = notes[k].bytes + BytesOf(notes, ids \ {k})
<1> DEFINE w == Weigh(notes)
<1>1. \A ids \in SUBSET (DOMAIN notes) :
         /\ IsFiniteSet(ids) /\ \A k \in ids : w[k] \in Nat
         /\ \E sum : IsSum(sum, w, ids) /\ BytesOf(notes, ids) = sum[ids]
  BY BytesAreSum
<1> HIDE DEF w
<1>2. \A ids \in SUBSET (DOMAIN notes) : BytesOf(notes, ids) \in Nat
  BY <1>1, SumType
<1>3. ASSUME NEW ids \in SUBSET (DOMAIN notes), NEW few \in SUBSET ids,
             NEW sum, IsSum(sum, w, ids)
      PROVE  BytesOf(notes, few) = sum[few]
  <2>1. PICK part : IsSum(part, w, few) /\ BytesOf(notes, few) = part[few]
    BY <1>1
  <2>2. part[few] = sum[few]
    BY <1>1, <1>3, <2>1, SumsAgree
  <2> QED
    BY <2>1, <2>2
<1>4. ASSUME NEW ids \in SUBSET (DOMAIN notes), NEW few \in SUBSET ids
      PROVE  BytesOf(notes, few) <= BytesOf(notes, ids)
  <2>1. PICK sum : IsSum(sum, w, ids) /\ BytesOf(notes, ids) = sum[ids]
    BY <1>1
  <2>2. BytesOf(notes, few) = sum[few]
    BY <1>3, <2>1
  <2>3. sum[few] <= sum[ids]
    BY <1>1, <2>1, SumGrows
  <2> QED
    BY <2>1, <2>2, <2>3
<1>5. BytesOf(notes, {}) = 0
  <2>1. PICK sum : IsSum(sum, w, {}) /\ BytesOf(notes, {}) = sum[{}]
    BY <1>1
  <2> QED
    BY <2>1 DEF IsSum
<1>6. ASSUME NEW ids \in SUBSET (DOMAIN notes), NEW k \in ids
      PROVE  BytesOf(notes, ids) = notes[k].bytes + BytesOf(notes, ids \ {k})
  <2>1. PICK sum : IsSum(sum, w, ids) /\ BytesOf(notes, ids) = sum[ids]
    BY <1>1
  <2>2. BytesOf(notes, ids \ {k}) = sum[ids \ {k}]
    BY <1>3, <2>1
  <2>3. sum[ids] = w[k] + sum[ids \ {k}]
    <3>1. IsFiniteSet(ids) /\ \A x \in ids : w[x] \in Nat
      BY <1>1
    <3>2. IsSum(sum, w, ids)
      BY <2>1
    <3>3. TakesAny(sum, w, ids)
      BY <3>1, <3>2, SumTakesAny
    <3>4. ids \in SUBSET ids
      OBVIOUS
    <3> QED
      BY <3>3, <3>4 DEF TakesAny
  <2>4. w[k] = notes[k].bytes
    BY DEF w, Weigh
  <2> QED
    BY <2>1, <2>2, <2>3, <2>4
<1> QED
  BY <1>2, <1>4, <1>5, <1>6

LEMMA AnchorTimes ==
    ASSUME anchors \in Seq(Anchor)
    PROVE  \A k \in DOMAIN anchors : anchors[k].ts \in Nat /\ anchors[k].at \in Nat
<1> TAKE k \in DOMAIN anchors
<1>1. anchors[k] \in Anchor
  BY LenProperties, ElementOfSeq
<1> QED
  BY <1>1 DEF Anchor

\* The uploads of a band in a stretch of a day but for the last of its seconds.
InDay(b, t) == Uploads(b, t - Day + SecondTicks - 1, t)

\* No day is over its budget, nor will be once the upload in flight is anchored: a ts
\* is behind the clock by less than a second.
BudgetInv ==
    /\ \A k \in DOMAIN anchors :
          anchors[k].at <= now /\ anchors[k].at <= anchors[k].ts + SecondTicks - 1
    /\ upload # Idle => DailyUsage(upload.band) + Size[upload.sha] <= MaxDaily
    /\ \A b : \A t \in Nat : BytesOf(anchors, InDay(b, t)) <= MaxDaily

\* The sum of anchors does not change with the anchors that come after them.
LEMMA BytesStand ==
    ASSUME anchors \in Seq(Anchor), anchors' \in Seq(Anchor),
           DOMAIN anchors \subseteq DOMAIN anchors',
           \A k \in DOMAIN anchors : anchors'[k] = anchors[k],
           NEW ids \in SUBSET (DOMAIN anchors)
    PROVE  BytesOf(anchors', ids) = BytesOf(anchors, ids)
<1>1. PICK old : IsSum(old, Weigh(anchors), ids) /\ BytesOf(anchors, ids) = old[ids]
  BY BytesAreSum
<1>2. PICK new : IsSum(new, Weigh(anchors'), ids) /\ BytesOf(anchors', ids) = new[ids]
  <2>1. ids \in SUBSET (DOMAIN anchors')
    OBVIOUS
  <2> QED
    BY <2>1, BytesAreSum
<1>3. \A k \in ids : Weigh(anchors)[k] = Weigh(anchors')[k]
  BY DEF Weigh
<1>4. IsFiniteSet(ids)
  BY BytesAreSum
<1>5. old[ids] = new[ids]
  BY <1>1, <1>2, <1>3, <1>4, SumsAgree
<1> QED
  BY <1>1, <1>2, <1>5

\* Nothing but an anchor and the clock moves a budget.
LEMMA BudgetStands ==
    ASSUME BudgetInv, BytesInv, UNCHANGED anchors, now' = now \/ now' = now + 1,
           upload' = upload \/ upload' = Idle
    PROVE  BudgetInv'
<1>1. anchors \in Seq(Anchor) /\ now \in Nat
  BY DEF BytesInv
<1>2. \A k \in DOMAIN anchors : anchors[k].ts \in Nat /\ anchors[k].at \in Nat
  BY <1>1, AnchorTimes
<1>3. \A k \in DOMAIN anchors' :
         anchors'[k].at <= now' /\ anchors'[k].at <= anchors'[k].ts + SecondTicks - 1
  <2>1. now' \in Nat /\ now <= now'
    BY <1>1
  <2> QED
    BY <1>1, <1>2, <2>1 DEF BudgetInv
<1>4. ASSUME upload' # Idle PROVE DailyUsage(upload.band)' + Size[upload.sha]' <= MaxDaily
  <2>1. upload' = upload /\ upload.sha \in Sha /\ Size[upload.sha] \in Nat
    BY <1>4, AccountsAssumption DEF BytesInv
  <2> DEFINE old == {k \in DOMAIN anchors : anchors[k].band = upload.band /\ anchors[k].ts >= now - Day}
             new == {k \in DOMAIN anchors : anchors[k].band = upload.band /\ anchors[k].ts >= now' - Day}
  <2>2. new \subseteq old
    BY <1>1, <1>2, AccountsAssumption
  <2>3. old \subseteq DOMAIN anchors
    OBVIOUS
  <2>4. DailyUsage(upload.band)' = BytesOf(anchors, new) /\ DailyUsage(upload.band) = BytesOf(anchors, old)
    BY <2>1 DEF DailyUsage
  <2> HIDE DEF old, new
  <2>5. /\ BytesOf(anchors, new) \in Nat /\ BytesOf(anchors, old) \in Nat
        /\ BytesOf(anchors, new) <= BytesOf(anchors, old)
    BY <1>1, <2>2, <2>3, BytesFacts
  <2>6. DailyUsage(upload.band) + Size[upload.sha] <= MaxDaily
    BY <1>4, <2>1 DEF BudgetInv
  <2> QED
    BY <2>1, <2>4, <2>5, <2>6, AccountsAssumption
<1>5. \A b : \A t \in Nat : InDay(b, t)' = InDay(b, t)
  BY DEF InDay, Uploads
<1>6. \A b : \A t \in Nat : BytesOf(anchors, InDay(b, t))' <= MaxDaily
  BY <1>5 DEF BudgetInv
<1> QED
  BY <1>3, <1>4, <1>6 DEF BudgetInv

\* The gate looks at the day up to now, which takes in whatever any stretch that the
\* new upload falls into has so far; a note posted by hand falls into none.
LEMMA NoteWithinBudget ==
    ASSUME BudgetInv, BytesInv, NEW band \in Nat, NEW sha \in Sha, NEW bytes \in Nat,
           NEW handler \in {"upload", "post"},
           anchors' = Append(anchors, Note(band, sha, bytes, handler)),
           handler = "upload" => DailyUsage(band) + bytes <= MaxDaily,
           upload' = Idle, UNCHANGED now
    PROVE  BudgetInv'
<1> DEFINE n    == Len(anchors) + 1
           note == Note(band, sha, bytes, handler)
<1>1. anchors \in Seq(Anchor) /\ now \in Nat /\ SecondTicks \in Nat \ {0}
  BY AccountsAssumption DEF BytesInv
<1>2. /\ note \in Anchor /\ note.at = now /\ now <= note.ts + SecondTicks - 1
      /\ anchors' \in Seq(Anchor) /\ n \in Nat /\ n \notin DOMAIN anchors
      /\ DOMAIN anchors' = DOMAIN anchors \cup {n}
      /\ \A k \in DOMAIN anchors : anchors'[k] = anchors[k]
      /\ anchors'[n] = note
  BY NoteJoins
<1>3. note.band = band /\ note.by = handler /\ note.bytes = bytes
  BY DEF Note
<1> HIDE DEF note, n
<1>4. \A k \in DOMAIN anchors :
         /\ anchors[k].ts \in Nat /\ anchors[k].at \in Nat
         /\ anchors[k].at <= now /\ anchors[k].at <= anchors[k].ts + SecondTicks - 1
  BY <1>1, AnchorTimes DEF BudgetInv
<1>5. \A k \in DOMAIN anchors' :
         anchors'[k].at <= now' /\ anchors'[k].at <= anchors'[k].ts + SecondTicks - 1
  BY <1>1, <1>2, <1>4
<1>6. ASSUME NEW b, NEW t \in Nat
      PROVE  BytesOf(anchors, InDay(b, t))' <= MaxDaily
  <2> DEFINE old == InDay(b, t)
             new == InDay(b, t)'
  <2>1. old \subseteq DOMAIN anchors /\ new \subseteq DOMAIN anchors'
    BY DEF InDay, Uploads
  <2>2. BytesOf(anchors', old) = BytesOf(anchors, old) /\ BytesOf(anchors, old) <= MaxDaily
    <3>1. DOMAIN anchors \subseteq DOMAIN anchors'
      BY <1>2
    <3>2. BytesOf(anchors, old) <= MaxDaily
      BY DEF BudgetInv
    <3> HIDE DEF old
    <3> QED
      BY <1>1, <1>2, <2>1, <3>1, <3>2, BytesStand
  <2>3. \A k \in DOMAIN anchors : k \in new <=> k \in old
    BY <1>2 DEF InDay, Uploads
  <2>4. n \in new => b = band /\ handler = "upload" /\ now \in (t - Day + SecondTicks - 1)..t
    BY <1>2, <1>3 DEF InDay, Uploads
  <2>5. BytesOf(anchors, InDay(b, t))' = BytesOf(anchors', new)
    OBVIOUS
  <2>6. CASE n \notin new
    <3>1. new = old
      BY <1>2, <2>1, <2>3, <2>6
    <3> QED
      BY <2>2, <2>5, <3>1
  <2>7. CASE n \in new
    <3>1. new \ {n} = old
      BY <1>2, <2>1, <2>3, <2>7
    <3>2. BytesOf(anchors', new) = bytes + BytesOf(anchors', old)
      <4> HIDE DEF old, new
      <4>1. \A ids \in SUBSET (DOMAIN anchors') : \A k \in ids :
               BytesOf(anchors', ids) = anchors'[k].bytes + BytesOf(anchors', ids \ {k})
        <5>1. anchors' \in Seq(Anchor)
          BY <1>2
        <5> QED
          BY <5>1, BytesFacts
      <4>2. BytesOf(anchors', new) = anchors'[n].bytes + BytesOf(anchors', new \ {n})
        BY <2>1, <2>7, <4>1
      <4> QED
        BY <1>2, <1>3, <3>1, <4>2
    <3> DEFINE day == {k \in DOMAIN anchors :
                         anchors[k].band = band /\ anchors[k].ts >= now - Day}
    <3>3. old \subseteq day /\ day \subseteq DOMAIN anchors
      <4>1. Day \in Nat /\ t - Day + SecondTicks - 1 \in Int
        BY <1>1, AccountsAssumption
      <4>2. t >= now /\ band = b
        BY <1>1, <2>4, <2>7, <4>1
      <4>3. \A k \in old : /\ k \in DOMAIN anchors /\ anchors[k].band = b
                           /\ anchors[k].at \in (t - Day + SecondTicks - 1)..t
        BY DEF InDay, Uploads
      <4>4. ASSUME NEW k \in old PROVE anchors[k].ts >= now - Day
        <5>1. /\ anchors[k].ts \in Nat /\ anchors[k].at \in Nat
              /\ anchors[k].at <= anchors[k].ts + SecondTicks - 1
              /\ t - Day + SecondTicks - 1 <= anchors[k].at
          BY <1>4, <4>1, <4>3
        <5> HIDE DEF old
        <5> QED
          BY <1>1, <4>1, <4>2, <5>1
      <4> HIDE DEF old
      <4> QED
        BY <4>2, <4>3, <4>4
    <3>4. DailyUsage(band) = BytesOf(anchors, day)
      BY DEF DailyUsage
    <3> HIDE DEF old, new, day
    <3>5. /\ BytesOf(anchors, old) \in Nat /\ BytesOf(anchors, day) \in Nat
          /\ BytesOf(anchors, old) <= BytesOf(anchors, day)
      BY <1>1, <2>1, <3>3, BytesFacts
    <3>6. DailyUsage(band) + bytes <= MaxDaily /\ MaxDaily \in Nat
      BY <2>4, <2>7, AccountsAssumption
    <3> QED
      BY <2>2, <2>5, <3>2, <3>4, <3>5, <3>6
  <2> QED
    BY <2>6, <2>7
<1> QED
  BY <1>5, <1>6 DEF BudgetInv

LEMMA AnchorWithinBudget == BudgetInv /\ BytesInv /\ PostAnchor => BudgetInv'
<1> SUFFICES ASSUME BudgetInv, BytesInv, PostAnchor PROVE BudgetInv'
  OBVIOUS
<1>1. upload # Idle /\ upload.sha \in Sha /\ upload.band \in Nat /\ Size[upload.sha] \in Nat
  BY AccountsAssumption DEF BytesInv, PostAnchor
<1>2. DailyUsage(upload.band) + Size[upload.sha] <= MaxDaily
  BY <1>1 DEF BudgetInv
<1> QED
  BY <1>1, <1>2, NoteWithinBudget DEF PostAnchor

LEMMA NextKeepsBudget == MintInv /\ BytesInv /\ BudgetInv /\ [Next]_vars => BudgetInv'
<1> SUFFICES ASSUME MintInv, BytesInv, BudgetInv, [Next]_vars PROVE BudgetInv'
  OBVIOUS
<1>1. ASSUME UNCHANGED Store, UNCHANGED now PROVE BudgetInv'
  BY <1>1, BudgetStands DEF Store
<1>2. ASSUME NEW band \in DOMAIN bands, NEW sha \in Sha, StoreBlob(band, sha)
      PROVE  BudgetInv'
  <2>1. /\ DailyUsage(band) + Size[sha] <= MaxDaily
        /\ upload' = [step |-> "anchoring", band |-> band, sha |-> sha]
        /\ UNCHANGED <<anchors, now>>
    BY <1>2 DEF StoreBlob, Fits, PutBlob
  <2>2. upload'.band = band /\ upload'.sha = sha
    BY <2>1
  <2>3. DailyUsage(upload.band)' = DailyUsage(band)
    BY <2>1, <2>2 DEF DailyUsage
  <2>4. \A b : \A t \in Nat : InDay(b, t)' = InDay(b, t)
    BY <2>1 DEF InDay, Uploads
  <2> QED
    BY <2>1, <2>2, <2>3, <2>4 DEF BudgetInv
<1>3. CASE PostAnchor
  BY <1>3, AnchorWithinBudget
<1>4. CASE RefuseAnchor \/ Crash \/ Tick \/ UNCHANGED vars
  BY <1>4, BudgetStands DEF RefuseAnchor, Crash, Tick, Store, vars
<1>5. ASSUME NEW band \in DOMAIN bands, NEW sha \in Sha, NEW bytes \in 0..MaxBlob,
             PostPointer(band, sha, bytes)
      PROVE  BudgetInv'
  <2>1. band \in Nat /\ bytes \in Nat
    BY AccountsAssumption DEF MintInv, RegistryOK
  <2> QED
    BY <1>5, <2>1, NoteWithinBudget DEF PostPointer
<1> QED
  BY <1>1, <1>2, <1>3, <1>4, <1>5
  DEF Next, CreateInvite, ConsumeInvite, StartMint, CheckDisplay, CreateIdentity,
      StartRotate, Rotate, ChangeHumans

\* In no stretch that is a second short of a day, past or running, does a band upload
\* more than its budget: the gate counts at the moment of the upload by stamps that have
\* lost their fraction of a second, the anchor is stamped later, the clock may move or
\* the process die in between, and the band may post pointers of its own meanwhile
\* (api.py post_blob and post, blobstore.py daily_usage, store.py append).
THEOREM BudgetsHold == Spec => []UploadsKeepTheBudget
<1>1. Init => BytesInv /\ BudgetInv
  <2> SUFFICES ASSUME Init PROVE BytesInv /\ BudgetInv
    OBVIOUS
  <2>1. BytesInv
    BY DEF Init, BytesInv, EveryUploadHasItsBytes
  <2>2. anchors = << >> /\ DOMAIN anchors = {} /\ upload = Idle
    BY DEF Init
  <2>3. \A b : \A t \in Nat : InDay(b, t) = {}
    BY <2>2 DEF InDay, Uploads
  <2>4. BytesOf(anchors, {}) = 0
    BY <2>1, BytesFacts DEF BytesInv
  <2> QED
    <3>1. \A b : \A t \in Nat : BytesOf(anchors, InDay(b, t)) <= MaxDaily
      BY <2>3, <2>4, AccountsAssumption
    <3> QED
      BY <2>1, <2>2, <3>1 DEF BudgetInv
<1>2. BudgetInv /\ BytesInv => UploadsKeepTheBudget
  <2> SUFFICES ASSUME BudgetInv, BytesInv PROVE UploadsKeepTheBudget
    OBVIOUS
  <2>1. \A t \in 0..now : t \in Nat
    BY DEF BytesInv
  <2> QED
    BY <2>1 DEF UploadsKeepTheBudget, BudgetInv, InDay
<1> QED
  BY <1>1, <1>2, InitMintInv, NextKeepsMintInv, NextKeepsBytes, NextKeepsBudget, PTL DEF Spec

=============================================================================
