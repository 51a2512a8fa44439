---------------------------------- MODULE Why ----------------------------------
(***************************************************************************)
(* why.py: what happened to one envelope, by four routes that each report  *)
(* on their own question, and the answers that are drawn from them.        *)
(***************************************************************************)
EXTENDS JobBoard

AttestingGrades == {"verified"}

\* What a route found, or that its question does not apply to the subject.
Report(applies, found) ==
    IF applies THEN [status |-> "searched", found |-> found]
    ELSE [status |-> "not-applicable", found |-> {}]

EdgesOnto(log, i, target) == {r.edge : r \in {x \in log[i].refs : x.id = target}}

Targets(log, i) == {r.id : r \in log[i].refs}

Others(log, subject, offset) == UpTo(log, offset) \ {subject}

RouteInbound(log, subject, offset) ==
    Report(TRUE, {i \in Others(log, subject, offset) : EdgesOnto(log, i, subject) # {}})

RouteClosesOnTarget(log, subject, offset) ==
    LET closed == RefsOf(log[subject], "closes")
    IN  Report(closed # {}, {i \in Others(log, subject, offset) :
                                RefsOf(log[i], "closes") \cap closed # {}})

RouteAttestedOnTarget(log, subject, offset) ==
    LET targets == Targets(log, subject)
    IN  Report(targets # {}, {i \in Others(log, subject, offset) :
                                 /\ Targets(log, i) \cap targets # {}
                                 /\ log[i].grade \in AttestingGrades})

\* quoting are the envelopes whose text contains the sha the subject pins.
RouteShaInProse(log, subject, offset, quoting) ==
    Report(log[subject].ext.sha # NoSha, Others(log, subject, offset) \cap quoting)

-----------------------------------------------------------------------------
(* The answers.                                                             *)

\* Only a delivery can have been gated: it is marked as one, or closes a job.
Gateable(log, subject, offset) ==
    \/ log[subject].ext.delivery
    \/ \E t \in RefsOf(log[subject], "closes") \cap UpTo(log, offset) : log[t].type = "JOB"

AttestsTo(log, i, subject) ==
    log[i].grade \in AttestingGrades \/ "stamps" \in EdgesOnto(log, i, subject)

GatesOf(log, subject, offset) ==
    {i \in RouteInbound(log, subject, offset).found :
        BandRank[log[i].band] >= BandRank["desk"] /\ AttestsTo(log, i, subject)}

AttestedOnTargets(log, subject, offset) ==
    {i \in RouteClosesOnTarget(log, subject, offset).found
           \cup RouteAttestedOnTarget(log, subject, offset).found :
        log[i].grade \in AttestingGrades}

GatedAnswer(log, subject, offset) ==
    IF ~Gateable(log, subject, offset) THEN "not-applicable"
    ELSE IF GatesOf(log, subject, offset) # {} THEN "true"
    ELSE IF AttestedOnTargets(log, subject, offset) # {} THEN "indirect"
    ELSE "false"

InboundWith(log, subject, offset, edge) ==
    {i \in RouteInbound(log, subject, offset).found : edge \in EdgesOnto(log, i, subject)}

\* What was not read may hold what was not found; a route that does not apply
\* has read nothing.
Bounds(routes, withheld) ==
    {[source |-> route, withheld |-> IF routes[route].status = "searched"
                                     THEN Cardinality(withheld) ELSE 0] : route \in DOMAIN routes}

WhyIs(log, subject, offset, quoting, withheld) ==
    LET routes == [inbound  |-> RouteInbound(log, subject, offset),
                   closes   |-> RouteClosesOnTarget(log, subject, offset),
                   attested |-> RouteAttestedOnTarget(log, subject, offset),
                   sha      |-> RouteShaInProse(log, subject, offset, quoting)]
    IN  [gated      |-> GatedAnswer(log, subject, offset),
         gates      |-> IF Gateable(log, subject, offset)
                        THEN GatesOf(log, subject, offset) ELSE {},
         attested   |-> AttestedOnTargets(log, subject, offset),
         disposed   |-> InboundWith(log, subject, offset, "closes"),
         superseded |-> InboundWith(log, subject, offset, "supersedes"),
         stamped    |-> InboundWith(log, subject, offset, "stamps"),
         cited      |-> UNION {routes[route].found : route \in DOMAIN routes},
         bounds     |-> Bounds(routes, withheld)]

=============================================================================
