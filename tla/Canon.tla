--------------------------------- MODULE Canon ---------------------------------
(***************************************************************************)
(* What a board makes its members read, and who decides it: canon pins,    *)
(* their budget and quorums, amendment, acks and the claim gate            *)
(* (validate._check_policy, civic.py) on a board seeded by seed.py.        *)
(***************************************************************************)
EXTENDS Seeding, Serving

CONSTANT NestOrder       \* the namespaces, by name

ASSUME NestAssumption ==
    /\ NestOrder \in Seq(Namespace)
    /\ \A ns \in Namespace : \E k \in DOMAIN NestOrder : NestOrder[k] = ns

Offset == HeadOf(log)

-----------------------------------------------------------------------------
(* Who decides what is canon.                                               *)

Seat(who, ns) == HoldsGrant(entries, who, ns, Offset, "maintainer")

\* Bands other than its author that endorsed i before now.
BackersOf(i) ==
    {log[e].author : e \in {k \in DOMAIN log : i \in RefsOf(log[k], "endorses")}} \ {log[i].author}

\* A document is backed through the proposals that its envelope derives from, or
\* directly.
Backed(i, env, quorum) ==
    \/ i \in DOMAIN log /\ Cardinality(BackersOf(i)) >= quorum
    \/ \E t \in RefsOf(env, "derives-from") :
          log[t].type = "PROPOSAL" /\ Cardinality(BackersOf(t)) >= quorum

QuorumOf(ns) == RulesAt(ns).amend.min_endorsements

CanonNow == Pinned(log, CanonNs, Offset)

CanonLawStands == RulesAt(CanonNs).amend = CanonRules.amend

\* The amendment rule protects what stands in the canon nest.  A document of another
\* nest, pinned there, stays its author's to rewrite, also after a version of it
\* moved into the canon nest, and policies follow their own path.
Unprotected(k) == log[k].ns # CanonNs \/ log[k].type = "POLICY"

\* A new version of what was canon, or what the seat pinned or a quorum of others
\* stood behind when it was pinned.
EntersByRule(i) ==
    \/ /\ i = Len(log')
       /\ \E k \in RefsOf(Posted, "supersedes") : CurrentVersion(log, k, Offset) \in CanonNow
    \/ \E t \in RefsOf(Posted, "pins") :
          /\ i = CurrentVersion(log', t, Offset')
          /\ Seat(Posted.author, log[t].ns) \/ Backed(t, log[t], QuorumOf(CanonNs))

\* Amended by the adjudicator from a proposal with a quorum, or open to be rewritten.
LeavesByRule(i) ==
    \/ Posted.band \in {"maintainer", "human"} /\ Backed(0, Posted, QuorumOf(CanonNs))
    \/ \E k \in RefsOf(Posted, "supersedes") :
          Unprotected(k) /\ CurrentVersion(log, k, Offset) = i

\* Nobody alone decides what everybody must read.  What comes to be canon and is not
\* a new version of what was, the seat pinned or a quorum of others stood behind,
\* whatever the rank of who pins it; and a document of the canon nest stops being
\* canon only by the act of a maintainer or a person, from a proposal that a quorum
\* backed (protocol 8.6, 8.6.1).
CanonMovesByRule ==
    [][Seeded /\ CanonLawStands =>
        /\ \A i \in CanonNow' \ CanonNow : EntersByRule(i)
        /\ \A i \in {k \in CanonNow \ CanonNow' : log[k].ns = CanonNs} : LeavesByRule(i)]_vars

\* Adding to canon costs a curation decision: where a nest has a budget, no
\* sequence of pins and of replacements of pins gets past it (protocol 4.4).
PinBudgetHolds ==
    log # << >> =>
        \A ns \in Namespace :
            LET budget == RulesAt(ns).max_pins IN
            budget # NoBudget => Cardinality(CanonPins(log, ns, Offset)) <= budget

\* A law that changes a budget leaves room for the pins in force.  Nothing makes it:
\* a policy may set a budget that is exceeded from the start.
LawLeavesRoom ==
    \A ns \in Namespace :
        LET budget == RulesAt(ns)'.max_pins IN
        budget \in {NoBudget, RulesAt(ns).max_pins}
            \/ Cardinality(CanonPins(log, ns, Offset)') <= budget

-----------------------------------------------------------------------------
(* Who has read it.                                                         *)

\* What a claim of the job j requires first: what the nest's pins name and what the
\* job requires, at the versions in force just before offset k.
MustHaveRead(ns, targets, k) ==
    {CurrentVersion(log, i, k - 1) :
        i \in (UNION {RefsOf(log[p], "pins") : p \in CanonPins(log, ns, k - 1)})
              \cup (UNION {RefsOf(log[t], "requires") : t \in targets})}

\* In a nest that requires acks, whoever claimed had attested, before claiming, to
\* the very versions in force at that moment: a pin or a prerequisite replaced in
\* between voids the attestation (protocol 4.4).
ClaimantsHaveReadCanon ==
    \A k \in {c \in DOMAIN log : log[c].type = "CLAIM"} :
        PolicyAt(entries, log[k].ns, k).rules.require_acks =>
            MustHaveRead(log[k].ns, RefsOf(log[k], "claims"), k)
                \subseteq AckSet(log, log[k].author, k - 1)

SeesAll(who) == Visible(log, entries, who, Offset) = DOMAIN log

\* The reading list that `required` shows for a job is the list that the claim gate
\* enforces, document by document, although the two walk the requirements in
\* opposite orders and a walk does not revisit what it has expanded closer by.  For
\* a reader from whom nothing is hidden: the gate walks the whole log, `required`
\* what the reader may see.
RequiredIsTheClaimList ==
    Seeded =>
        \A who \in Identity, j \in {i \in DOMAIN log : log[i].type = "JOB"} :
            SeesAll(who) =>
                Unread(log, Required(log, entries, Offset, j), who, Offset)
                    = UnmetForClaim(log, entries, Offset, log[j].ns, {j}, who)

\* Whoever is told at onboarding that nothing is unread and that nothing was cut
\* short is refused by no nest for its canon, although one walk with one memory
\* passes through nests of different depths (protocol 4.4: "reductions MUST report
\* truncation at depth rather than silently capping").  The endpoint walks the page of
\* the reader, so this too is for a reader from whom nothing is hidden: of a pin or a
\* new version that it may not see, onboarding says nothing and the gate asks.
OnboardHidesNothing ==
    Seeded =>
        \A who \in Identity :
            SeesAll(who) =>
                LET page == ViewSlice(log, entries, who, "onboard", WholeBoard, {})
                    walk == Onboard(page.log, entries, page.offset, who, NestOrder)
                IN  Unread(page.log, walk, who, page.offset) = {} /\ walk.truncated = {} =>
                        \A ns \in CanonNests(log, entries, who, Offset) :
                            UnmetForClaim(log, entries, Offset, ns, {}, who) = {}

=============================================================================
