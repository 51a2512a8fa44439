---------------------------- MODULE PolicyTimeline ----------------------------
(***************************************************************************)
(* policy.py: which nest policies are in force at an offset, and which     *)
(* grants and bands follow.  A timeline is a set of entries; an entry says *)
(* that the POLICY envelope policy_id, posted at ns, came into force at    *)
(* offset effective_at.  EntriesOf is the wholesale rebuild                *)
(* (PolicyTimeline.__init__) and Apply the incremental path (apply).       *)
(***************************************************************************)
EXTENDS Envelopes, FiniteSets

\* A grant of band to grantee on root/**.
Grant == [grantee : Identity \cup {Everyone}, root : Namespace, band : Band]

\* Amend: how canon enacts, and the quorum an amendment has to meet.
Amendment ==
    [rule : {"none", "stamp", "pin-or-quorum"}, min_endorsements : Nat,
     adjudicator : Band \cup {NoBand}]

AnyGrade == "any"

NoBudget == -1

\* What a nest asks of what is posted there, field by field of NestPolicy: NoBand
\* where a role is not set, horizon 0 where nothing rotates.
Rules ==
    [acts : SUBSET Act, grades : BOOLEAN,
     require_pointer : SUBSET [act : Act, grade : Grade \cup {AnyGrade}],
     require_lease : BOOLEAN, round_openers : Band \cup {NoBand},
     corroborate_floor : [{"FINDING", "WARN"} -> Band \cup {NoBand}],
     endorse_floor : Band, horizon : Nat,
     view_floor : {"n/a", "unverified", "verified", "stamped"},
     pin_posters : Band \cup {NoBand}, max_pins : Nat \cup {NoBudget},
     max_required_depth : Nat, require_acks : BOOLEAN, amend : Amendment,
     closers : Band \cup {NoBand}]

PlainRules ==
    [acts |-> Act, grades |-> TRUE, require_pointer |-> {}, require_lease |-> FALSE,
     round_openers |-> NoBand,
     corroborate_floor |-> [act \in {"FINDING", "WARN"} |-> NoBand],
     endorse_floor |-> "warner", horizon |-> 0, view_floor |-> "unverified",
     pin_posters |-> NoBand, max_pins |-> NoBudget, max_required_depth |-> 2,
     require_acks |-> FALSE,
     amend |-> [rule |-> "none", min_endorsements |-> 0, adjudicator |-> NoBand],
     closers |-> NoBand]

\* An act that needs evidence at this grade.
PointerRequired(rules, act, grade) ==
    \E e \in rules.require_pointer : e.act = act /\ e.grade \in {AnyGrade, grade}

Policy == [kind : {"policy"}, grants : Seq(Grant), human_read : {"open", "sealed"},
           blind : SUBSET Act, rules : Rules]

PolicyEntry ==
    [ns : Namespace, policy_id : Nat \ {0}, effective_at : Nat \ {0}, policy : Policy]

\* The payload of an envelope that carries no policy.
NoPolicy == [kind |-> "none"]

IsPolicy(payload) == payload.kind = "policy"

Entry(log, id, effective) ==
    [ns |-> log[id].ns, policy_id |-> id, effective_at |-> effective,
     policy |-> log[id].payload]

-----------------------------------------------------------------------------
(* Building the timeline.                                                  *)

\* The offsets at which the policy at p could have come into force: its own
\* when a human wrote it, else those of the human STAMPs naming it.
ForceOffsets(log, p) ==
    IF log[p].band = "human"
    THEN {p}
    ELSE {s \in Inbound(log, p, "stamps", Len(log)) : log[s].band = "human"}

EntriesOf(log) ==
    {Entry(log, p, Least(ForceOffsets(log, p))) :
        p \in {q \in DOMAIN log : /\ log[q].type = "POLICY"
                                  /\ IsPolicy(log[q].payload)
                                  /\ ForceOffsets(log, q) # {}}}

Entered(entries) == {e.policy_id : e \in entries}

\* Three slips in Apply, each put in its place by a mutation run: a policy
\* stamped twice is entered twice; a stamp reaches back to the policy's own
\* offset; a policy binds before any human has looked at it.
ApplyReentering(entries, log, id) ==
    IF log[id].type = "STAMP"
    THEN entries \cup {Entry(log, p, id) :
             p \in {t \in RefsOf(log[id], "stamps") : log[t].type = "POLICY"}}
    ELSE EntriesOf(log)

ApplyBackdating(entries, log, id) ==
    IF log[id].type = "STAMP"
    THEN entries \cup {Entry(log, p, p) :
             p \in {t \in RefsOf(log[id], "stamps") : log[t].type = "POLICY"}}
    ELSE EntriesOf(log)

ApplyUnstamped(entries, log, id) ==
    IF log[id].type = "POLICY" THEN entries \cup {Entry(log, id, id)} ELSE entries

\* Joining the envelope at offset id, the last of log, to the entries.
Apply(entries, log, id) ==
    LET env == log[id] IN
    CASE env.type = "POLICY" /\ IsPolicy(env.payload) /\ env.band = "human" ->
           entries \cup {Entry(log, id, id)}
      [] env.type = "STAMP" /\ env.band = "human" ->
           entries \cup {Entry(log, p, id) :
               p \in {t \in RefsOf(env, "stamps") \cap DOMAIN log :
                         /\ log[t].type = "POLICY"
                         /\ IsPolicy(log[t].payload)
                         /\ log[t].band # "human"
                         /\ t \notin Entered(entries)}}
      [] OTHER -> entries

-----------------------------------------------------------------------------
(* Queries at an offset.                                                   *)

InForce(entries, offset) == {e \in entries : e.effective_at <= offset}

LaterThan(e, f) == e.effective_at > f.effective_at

\* Most specific governing namespace, then the latest entry; two entries
\* never share an offset (ShapeOK in Sequencer), so the choice is unique.
Prevails(e, f) ==
    \/ Len(e.ns) > Len(f.ns)
    \/ Len(e.ns) = Len(f.ns) /\ e.effective_at >= f.effective_at

Governing(entries, ns, offset) ==
    {e \in InForce(entries, offset) : Governs(e.ns, ns)}

PolicyAt(entries, ns, offset) ==
    LET candidates == Governing(entries, ns, offset)
    IN  (CHOOSE e \in candidates : \A f \in candidates : Prevails(e, f)).policy

LatestEntries(entries, offset) ==
    {e \in InForce(entries, offset) :
        \A f \in InForce(entries, offset) : f.ns = e.ns => ~LaterThan(f, e)}

\* The first entry of a namespace fixes where its grants stand in the list of
\* grants (a dict keeps the position of a key whose value is replaced).
NsRank(entries, ns, offset) ==
    Least({e.policy_id : e \in {f \in InForce(entries, offset) : f.ns = ns}})

\* (identity, root, band) of every grant of latest, with its place in the list.
Flatten(entries, latest, offset) ==
    UNION {{[grantee |-> e.policy.grants[k].grantee,
             root    |-> e.policy.grants[k].root,
             band    |-> e.policy.grants[k].band,
             place   |-> <<NsRank(entries, e.ns, offset), k>>] :
                k \in DOMAIN e.policy.grants} : e \in latest}

GrantsAt(entries, offset) ==
    Flatten(entries, LatestEntries(entries, offset), offset)

\* The grants there would be if policy, posted at ns, were in force.
GrantsWith(entries, offset, ns, policy) ==
    LET posted == [ns |-> ns, policy_id |-> offset, effective_at |-> offset,
                   policy |-> policy]
    IN  Flatten(entries \cup {posted},
                {e \in LatestEntries(entries, offset) : e.ns # ns} \cup {posted},
                offset)

Covers(grant, identity, ns) ==
    grant.grantee \in {identity, Everyone} /\ InSubtree(grant.root, ns)

HoldsHumanAnywhere(entries, identity, offset) ==
    \E g \in GrantsAt(entries, offset) :
        g.band = "human" /\ g.grantee \in {identity, Everyone}

HoldsGrant(entries, identity, ns, offset, band) ==
    \E g \in GrantsAt(entries, offset) : g.band = band /\ Covers(g, identity, ns)

OwnScratch(identity, ns) == InSubtree(<<"scratch", identity>>, ns)

Before(g, h) ==
    \/ g.place[1] < h.place[1]
    \/ g.place[1] = h.place[1] /\ g.place[2] <= h.place[2]

\* The highest rank wins, the first grant of that rank when several have it
\* (desk and maintainer share one); human outranks every other band.
EffectiveBand(entries, identity, ns, offset) ==
    LET held == {g \in GrantsAt(entries, offset) : Covers(g, identity, ns)}
        top  == {g \in held : \A h \in held : BandRank[g.band] >= BandRank[h.band]}
    IN  IF OwnScratch(identity, ns) THEN "desk"
        ELSE IF held = {} THEN NoBand
        ELSE (CHOOSE g \in top : \A h \in top : Before(g, h)).band

-----------------------------------------------------------------------------
(* validate._grant_conflicts: the two ways a set of grants makes a referee *)
(* a player.  Humans and "band:*" are exempt.                              *)

Exempt(grants) == {Everyone} \cup {g.grantee : g \in {h \in grants : h.band = "human"}}

Of(grants, band) == {g \in grants : g.band = band /\ g.grantee \notin Exempt(grants)}

CommonsRoots == {<<"korax">>, <<"commons">>}

GrantConflicts(grants) ==
    LET desks == Of(grants, "desk")
        own(i) == {d \in desks : d.grantee = i}
    IN  UNION {
          {[grantee |-> m.grantee, root |-> m.root, why |-> "commons"] :
              c \in {c \in CommonsRoots : SubtreesOverlap(m.root, c)}}
          \cup
          {[grantee |-> m.grantee, root |-> m.root, why |-> d.grantee] :
              d \in {d \in desks \ own(m.grantee) : SubtreesOverlap(m.root, d.root)}}
          : m \in {m \in Of(grants, "maintainer") : own(m.grantee) # {}}}

=============================================================================
