-------------------------------- MODULE Civic --------------------------------
(***************************************************************************)
(* civic.py and the stamp rule of reductions.py: what is canon in a nest,  *)
(* who backs a change of it, what acting on an envelope requires one to    *)
(* have read, and what an identity has attested to reading.                *)
(***************************************************************************)
EXTENDS PolicyTimeline

\* An active STAMP that does not take back names the envelope.
EffectivelyStamped(log, i, offset) ==
    \E s \in Inbound(log, i, "stamps", offset) :
        log[s].type = "STAMP" /\ ~log[s].ext.retracts /\ ~Superseded(log, s, offset)

\* The live head of a document: where several supersede it, the latest.
CurrentVersion(log, i, offset) ==
    Follow([k \in UpTo(log, offset) |-> Inbound(log, k, "supersedes", offset)])[i]

\* A slip: a canon pin stays in force although it was replaced or retired.
CanonPinsEver(log, ns, offset) ==
    {p \in ActsIn(log, "PIN", offset) : log[p].ns = ns /\ log[p].ext.canon}

\* Canon-class pins in force in exactly this nest.
CanonPins(log, ns, offset) ==
    {p \in ActsIn(log, "PIN", offset) :
        log[p].ns = ns /\ log[p].ext.canon /\ ~Superseded(log, p, offset)}

\* Distinct bands behind i; its author's own endorsement does not count.
Endorsers(log, i, offset) ==
    {log[e].author : e \in Inbound(log, i, "endorses", offset)} \ {log[i].author}

Proposals(log, ids) == {t \in ids : log[t].type = "PROPOSAL"}

\* The best-backed of the proposals an enacting supersede derives from; several
\* half quorums do not add up.
ReplacementSupport(log, derived, offset) ==
    Greatest({0} \cup {Cardinality(Endorsers(log, p, offset)) : p \in Proposals(log, derived)})

\* Every target the identity has acked, at any version, on whatever act.
AckSet(log, identity, offset) ==
    UNION {RefsOf(log[i], "acks") : i \in {k \in UpTo(log, offset) : log[k].author = identity}}

-----------------------------------------------------------------------------
(* The requirement closure.  An expansion remembers, for every document     *)
(* that it met, the least depth at which it was met; a document at or below *)
(* the depth budget is on the list but what it requires is not.             *)

NothingRead == [depth |-> << >>, truncated |-> {}]

Met(seen) == DOMAIN seen.depth

\* A slip: a document is required at the version that was named.
CurrentVersionsAsNamed(log, ids, offset) == ids

CurrentVersions(log, ids, offset) == {CurrentVersion(log, i, offset) : i \in ids}

\* The prerequisites of a document, at the versions in force.
Prerequisites(log, i, offset) == CurrentVersions(log, RefsOf(log[i], "requires"), offset)

\* A slip: a cut is never reported.
NeverCut(log, i, depth, budget) == FALSE

Cut(log, i, depth, budget) == depth >= budget /\ RefsOf(log[i], "requires") # {}

\* A slip: a document once met is never looked at again.
CloserNever(seen, i, depth) == i \notin Met(seen)

\* Not met before, or only deeper down.
Closer(seen, i, depth) == i \notin Met(seen) \/ seen.depth[i] > depth

\* _Expander.add for a set of documents met at depth start: layer k holds those
\* met at depth k for the first time, or closer than before.
Expand(log, offset, seen, seeds, start, budget) ==
    LET layer[k \in Nat] ==
            IF k < start THEN {}
            ELSE IF k = start
            THEN {i \in seeds : Closer(seen, i, k)}
            ELSE {i \in UNION {Prerequisites(log, j, offset) : j \in layer[k - 1]} :
                    /\ k <= budget
                    /\ Closer(seen, i, k)
                    /\ \A m \in start..(k - 1) : i \notin layer[m]}
        last == Greatest({start, budget})
        new  == UNION {layer[k] : k \in start..last}
        at(i) == CHOOSE k \in start..last : i \in layer[k]
        cut  == {i \in new : Cut(log, i, at(i), budget)}
    IN  [depth |-> [i \in Met(seen) \cup new |-> IF i \in new THEN at(i) ELSE seen.depth[i]],
         truncated |-> (seen.truncated \ new) \cup cut]

\* The documents the canon pins of a nest name.
Pinned(log, ns, offset) ==
    CurrentVersions(log, UNION {RefsOf(log[p], "pins") : p \in CanonPins(log, ns, offset)}, offset)

DepthAt(entries, ns, offset) == PolicyAt(entries, ns, offset).rules.max_required_depth

\* One nest's pins, to that nest's depth.
ClosureForPins(log, entries, ns, offset, seen) ==
    Expand(log, offset, seen, Pinned(log, ns, offset), 0, DepthAt(entries, ns, offset))

Unread(log, seen, identity, offset) == Met(seen) \ AckSet(log, identity, offset)

\* The nests that hold a PIN and that a grant of the identity covers.
CanonNests(log, entries, identity, offset) ==
    {ns \in {log[p].ns : p \in ActsIn(log, "PIN", offset)} :
        /\ ~(Len(ns) >= 2 /\ ns[1] = "scratch")
        /\ \E g \in GrantsAt(entries, offset) : Covers(g, identity, ns)}

\* onboard: one walk over those nests, with one memory, in the order given (the
\* code's is that of their names).
Onboard(log, entries, offset, identity, order) ==
    LET nests == CanonNests(log, entries, identity, offset)
        seen[k \in 0..Len(order)] ==
            IF k = 0 THEN NothingRead
            ELSE IF order[k] \in nests
            THEN ClosureForPins(log, entries, order[k], offset, seen[k - 1])
            ELSE seen[k - 1]
    IN  seen[Len(order)]

\* required: what the target requires, which is met at depth 1, then its nest's
\* canon.
Required(log, entries, offset, target) ==
    LET ns    == log[target].ns
        first == Expand(log, offset, NothingRead, Prerequisites(log, target, offset), 1,
                        DepthAt(entries, ns, offset))
    IN  ClosureForPins(log, entries, ns, offset, first)

\* unmet_for_claim: the canon of the claim's nest, then what each target
\* requires, to the depth of the claim's nest.
ClaimClosure(log, entries, offset, ns, targets) ==
    Expand(log, offset, ClosureForPins(log, entries, ns, offset, NothingRead),
           UNION {Prerequisites(log, t, offset) : t \in targets}, 1, DepthAt(entries, ns, offset))

UnmetForClaim(log, entries, offset, ns, targets, identity) ==
    Unread(log, ClaimClosure(log, entries, offset, ns, targets), identity, offset)

=============================================================================
