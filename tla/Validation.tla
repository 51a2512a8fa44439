------------------------------ MODULE Validation ------------------------------
(***************************************************************************)
(* validate.py: the gauntlet a submission runs before it is sequenced,     *)
(* check by check in the code's order.  All checks read the log and the    *)
(* law as they are now, and the policies in force at the offset the        *)
(* submission is about to get.                                             *)
(***************************************************************************)
EXTENDS Feed, Civic, Leases

CONSTANTS
    Operator,         \* the identity that writes envelope 0
    GenesisPolicies,  \* the payloads it may write there
    Drafts,           \* the submissions clients make
    MaxLog,           \* bound on the length of the log
    SecondTicks       \* clock ticks per second, the resolution of a ts

\* What a client may submit; an id, a band and a ts are the server's to assign.
\* The grade is the one it asked for, or else the one resolved for it (6.1).
Draft ==
    [type : Act, ns : Namespace, author : Identity, grade : Grade,
     refs : SUBSET [edge : Edge, id : Nat \ {0}],
     payload : Policy \cup {NoPolicy}, lease_until : Nat, released : BOOLEAN,
     range : [since : Nat, until : Nat], read_basis : Int, ext : Ext]

ASSUME ClockAssumption == SecondTicks \in Nat \ {0} /\ MaxTime \in Nat

ASSUME ClientAssumption ==
    /\ Drafts \subseteq Draft
    /\ GenesisPolicies \subseteq Policy
    /\ Operator \in Identity /\ Everyone \notin Identity
    /\ Namespace \subseteq Seq(STRING) /\ << >> \in Namespace

VARIABLES
    log,              \* the accepted envelopes
    entries,          \* the policy timeline
    now               \* the wall clock, in ticks

-----------------------------------------------------------------------------
(* Existence, endpoints and shape.                                          *)

NoRange == [since |-> 1, until |-> 0]

NoBasis == -1

RefsExist(d) == \A r \in d.refs : r.id \in DOMAIN log

\* A slip: the table of source acts is not consulted, so any act may stamp.
EdgeSourcesUnchecked(d) ==
    \A r \in d.refs :
        /\ log[r.id].type \in EdgeTargetActs(r.edge)
        /\ r.edge = "supersedes" => d.type \in {log[r.id].type, "SUPERSEDE"}

EdgeTypesOK(d) ==
    \A r \in d.refs :
        /\ d.type \in EdgeSourceActs(r.edge)
        /\ log[r.id].type \in EdgeTargetActs(r.edge)
        /\ r.edge = "supersedes" => d.type \in {log[r.id].type, "SUPERSEDE"}

\* The edges an act cannot do without.
ExactlyOne ==
    [SUPERSEDE |-> "supersedes", BESIDE |-> "beside", STAMP |-> "stamps", PIN |-> "pins"]

AtLeastOne == [CLAIM |-> "claims", ACK |-> "acks"]

ShapeOK(d) ==
    /\ d.type \in DOMAIN ExactlyOne => Cardinality(RefsOf(d, ExactlyOne[d.type])) = 1
    /\ d.type \in DOMAIN AtLeastOne => RefsOf(d, AtLeastOne[d.type]) # {}

MinRank(act) ==
    CASE act \in {"WARN", "PROPOSAL"} -> 2
      [] act = "CLAIM" -> 3
      [] act \in {"JOB", "POLICY", "PIN"} -> 4
      [] act \in {"STAMP", "UNSEAL"} -> 5
      [] OTHER -> 1

BandOf(d) == EffectiveBand(entries, d.author, d.ns, NextId(log))

\* The rules a namespace is under at the offset the submission is to get.
RulesAt(ns) == PolicyAt(entries, ns, NextId(log)).rules

-----------------------------------------------------------------------------
(* _check_band: what a band may do, whatever its nest says, and what only   *)
(* the role that the nest names may do.                                     *)

\* A slip: an identity without any grant is let through.
MayPostUngranted(d, band) == band = NoBand \/ BandRank[band] >= MinRank(d.type)

\* A slip: whoever may post may supersede what others wrote.
MayPostOverOthers(d, band) ==
    band \notin {NoBand, "reader"} /\ BandRank[band] >= MinRank(d.type)

MayPost(d, band) ==
    /\ band \notin {NoBand, "reader"}
    /\ d.type \in {"STAMP", "UNSEAL"} => band = "human"
    /\ d.type = "JOB" => band \in {"desk", "human"}
    /\ BandRank[band] >= MinRank(d.type)
    /\ d.grade = "verified" => BandRank[band] >= 4
    /\ \A t \in RefsOf(d, "supersedes") :
          /\ log[t].type = "STAMP" => band = "human"
          /\ log[t].author = d.author \/ BandRank[band] >= 4
    /\ RefsOf(d, "endorses") # {} => BandRank[band] >= BandRank[RulesAt(d.ns).endorse_floor]

\* The rank a floor asks for; none is asked where it is not set.
FloorRank(floor) == IF floor = NoBand THEN 0 ELSE BandRank[floor]

\* Equal rank is not equal role: a desk does not stand in for a maintainer.
InRole(role, band) == role = NoBand \/ band \in {role, "human"}

MayCurate(d, band) ==
    LET rules == RulesAt(d.ns) IN
    /\ d.type = "PIN" =>
          InRole(rules.pin_posters, band) \/ BandRank[band] > FloorRank(rules.pin_posters)
    /\ d.type = "OPEN" /\ PolicyAt(entries, d.ns, NextId(log)).blind # {} =>
          BandRank[band] >= FloorRank(rules.round_openers)

-----------------------------------------------------------------------------
(* _check_policy: what the nest asks of an act.                             *)

\* The governance plane may always post: a nest cannot configure itself shut.
NestAllows(d) ==
    LET rules == RulesAt(d.ns) IN
    /\ d.type \in rules.acts \cup {"POLICY", "STAMP", "UNSEAL"}
    /\ ~rules.grades => d.grade = "n/a"
    /\ PointerRequired(rules, d.type, d.grade) => d.ext.sha # NoSha
    /\ d.type = "CLAIM" /\ rules.require_lease => d.lease_until # 0

\* A CLAIM on what somebody else holds now is refused; now is the wall clock,
\* not the ts the claim is about to get.
NotHeldByAnother(d) ==
    d.type = "CLAIM" =>
        \A referent \in RefsOf(d, "claims") :
            LET h == LiveHolder(log, referent, HeadOf(log), now)
            IN  h # NoHold => log[h].author = d.author

\* In a nest that blinds the act, an answer names the round it answers.
BlindDeclares(d) ==
    d.type \in PolicyAt(entries, d.ns, NextId(log)).blind =>
        \E t \in RefsOf(d, "replies") : log[t].type = "OPEN"

Corroborations(t) == Inbound(log, t, "corroborates", HeadOf(log))

\* A slip: the same evidence may be offered again.
CorroborationByAnyone(d, band) ==
    \A t \in RefsOf(d, "corroborates") : \A k \in Corroborations(t) : log[k].author # d.author

\* One corroboration per author and target, from the floor up; where the target's
\* act ever needs a pointer, with evidence that nobody has offered for it yet.
CorroborationOK(d, band) ==
    \A t \in RefsOf(d, "corroborates") :
        LET floor  == RulesAt(d.ns).corroborate_floor[log[t].type]
            proved == \E e \in RulesAt(log[t].ns).require_pointer : e.act = log[t].type
        IN  /\ BandRank[band] >= FloorRank(floor)
            /\ \A k \in Corroborations(t) : log[k].author # d.author
            /\ proved => d.ext.sha \notin {NoSha, log[t].ext.sha}
                                          \cup {log[k].ext.sha : k \in Corroborations(t)}

-----------------------------------------------------------------------------
(* Canon: the pin budget, the two ways a canon pin enacts, required reading *)
(* and amendment.                                                           *)

IsCanonPin(d) == d.type = "PIN" /\ d.ext.canon

\* A slip: superseding any pin at all makes room.
PinBudgetOnPaper(d) ==
    IsCanonPin(d) /\ RulesAt(d.ns).max_pins # NoBudget =>
        \/ Cardinality(CanonPins(log, d.ns, NextId(log))) < RulesAt(d.ns).max_pins
        \/ RefsOf(d, "supersedes") # {}

PinBudgetOK(d) ==
    IsCanonPin(d) /\ RulesAt(d.ns).max_pins # NoBudget =>
        LET inForce == CanonPins(log, d.ns, NextId(log)) IN
        Cardinality(inForce) < RulesAt(d.ns).max_pins \/ RefsOf(d, "supersedes") \cap inForce # {}

\* A replacement is backed by its proposal, an addition by its own bytes.
SupportFor(t) ==
    IF RefsOf(log[t], "supersedes") # {}
    THEN ReplacementSupport(log, RefsOf(log[t], "derives-from"), NextId(log))
    ELSE Cardinality(Endorsers(log, t, NextId(log)))

\* A slip: the seat is held by rank, so that any desk or human pins canon.
EnactedByRank(d, t) ==
    LET amend == RulesAt(d.ns).amend IN
    CASE amend.rule = "none"  -> TRUE
      [] amend.rule = "stamp" -> EffectivelyStamped(log, t, NextId(log))
      [] OTHER -> BandRank[BandOf(d)] >= 4

\* A human's stamp, the seat's own pin, or the quorum at the time of the pin.
Enacted(d, t) ==
    LET amend == RulesAt(d.ns).amend IN
    CASE amend.rule = "none"  -> TRUE
      [] amend.rule = "stamp" -> EffectivelyStamped(log, t, NextId(log))
      [] OTHER ->
           \/ HoldsGrant(entries, d.author, log[t].ns, NextId(log), "maintainer")
           \/ amend.min_endorsements > 0 /\ SupportFor(t) >= amend.min_endorsements

CanonPinOK(d) == IsCanonPin(d) => \A t \in RefsOf(d, "pins") : Enacted(d, t)

AcksOK(d) ==
    d.type = "CLAIM" /\ RulesAt(d.ns).require_acks =>
        UnmetForClaim(log, entries, NextId(log), d.ns, RefsOf(d, "claims"), d.author) = {}

\* A slip: the closer's own nest is asked who may close.
MayCloseByOwnNest(d, band) ==
    RefsOf(d, "closes") # {} => InRole(RulesAt(d.ns).closers, band)

\* The target's nest says who may close it; the band is that of the closer's nest.
MayClose(d, band) == \A t \in RefsOf(d, "closes") : InRole(RulesAt(log[t].ns).closers, band)

\* A slip: one endorsement too few.
AmendEarly(d, band) ==
    \A t \in {s \in RefsOf(d, "supersedes") : log[s].type # "POLICY"} :
        LET amend == RulesAt(log[t].ns).amend IN
        amend.min_endorsements > 0 =>
            /\ InRole(amend.adjudicator, band)
            /\ ReplacementSupport(log, RefsOf(d, "derives-from"), NextId(log))
                    >= amend.min_endorsements - 1

\* Content of an amendment-gated nest is superseded by its adjudicator, from a
\* proposal that met the quorum; policies follow their own path.
MayAmend(d, band) ==
    \A t \in {s \in RefsOf(d, "supersedes") : log[s].type # "POLICY"} :
        LET amend == RulesAt(log[t].ns).amend IN
        amend.min_endorsements > 0 =>
            /\ InRole(amend.adjudicator, band)
            /\ Proposals(log, RefsOf(d, "derives-from")) # {}
            /\ ReplacementSupport(log, RefsOf(d, "derives-from"), NextId(log))
                    >= amend.min_endorsements

-----------------------------------------------------------------------------
(* The governance plane, and the opt-in compare-and-set.                    *)

\* A slip: only the grants of the policy itself are looked at.
ConflictsOfItsOwn(d) ==
    GrantConflicts(GrantsWith({}, NextId(log), d.ns, d.payload))

\* The conflicts that the policy of d adds to the grants as they are now.
FreshConflicts(d) ==
    GrantConflicts(GrantsWith(entries, NextId(log), d.ns, d.payload))
        \ GrantConflicts(GrantsAt(entries, NextId(log)))

PolicyOK(d) ==
    d.type = "POLICY" =>
        /\ IsPolicy(d.payload)
        /\ d.payload.human_read = "sealed" => ~InSubtree(<<"korax">>, d.ns)
        /\ FreshConflicts(d) = {}

\* A slip: a look may reach forward, over what nobody has written yet.
UnsealUnbounded(d) == d.type = "UNSEAL" => d.range.since <= d.range.until

UnsealOK(d) == d.type = "UNSEAL" => d.range.until < NextId(log)

BasisFresh(d) ==
    d.read_basis # NoBasis =>
        \A r \in d.refs, edge \in StateChangingEdges :
            \A src \in Inbound(log, r.id, edge, HeadOf(log)) : src <= d.read_basis

Accepts(d) ==
    /\ RefsExist(d) /\ EdgeTypesOK(d) /\ ShapeOK(d)
    /\ MayPost(d, BandOf(d)) /\ MayCurate(d, BandOf(d))
    /\ Reachable(entries, d, NextId(log))
    /\ NestAllows(d) /\ NotHeldByAnother(d) /\ BlindDeclares(d)
    /\ CorroborationOK(d, BandOf(d))
    /\ PinBudgetOK(d) /\ CanonPinOK(d) /\ AcksOK(d)
    /\ MayClose(d, BandOf(d)) /\ MayAmend(d, BandOf(d))
    /\ PolicyOK(d) /\ UnsealOK(d) /\ BasisFresh(d)

=============================================================================
