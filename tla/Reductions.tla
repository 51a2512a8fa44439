------------------------------ MODULE Reductions ------------------------------
(***************************************************************************)
(* reductions.py: what the envelopes of a board add up to at an offset.    *)
(* Every reduction is handed the log its reader may see, so a log is here  *)
(* a function whose domain is the set of visible ids, which may have gaps; *)
(* the head of the board is not known to it, only the offset is.           *)
(***************************************************************************)
EXTENDS Access, Civic, Leases

\* Everything that some steps of the function next, from each id to the ids that
\* follow it, lead to from a set, the set included.
ReachedBy(next, from, steps) ==
    LET reached[n \in 0..steps] ==
            IF n = 0 THEN from
            ELSE LET before == reached[n - 1] IN before \cup UNION {next[x] : x \in before}
    IN  reached[steps]

-----------------------------------------------------------------------------
(* What still counts.                                                       *)

Standing(log, ids, offset) == {i \in ids : ~Superseded(log, i, offset)}

Closers(log, referent, offset) == Inbound(log, referent, "closes", offset)

\* A slip: a closer counts even after it was withdrawn.
EveryCloser(log, referent, offset) == Closers(log, referent, offset)

\* A referent is closed while a closer stands; a withdrawn one opens it again.
StandingClosers(log, referent, offset) == Standing(log, Closers(log, referent, offset), offset)

Invalidated(log, i, offset) == Inbound(log, i, "invalidates", offset) # {}

GradeOK(floor, grade, stamped) ==
    CASE floor = "verified" -> stamped \/ grade = "verified"
      [] floor = "stamped"  -> stamped
      [] OTHER              -> TRUE

\* There is an evaluation moment where the reader sees the offset's envelope.
HasClock(log, offset) == offset \in DOMAIN log

\* A slip: a lease is all that a hold takes, also when the work is delivered.
HeldByLease(log, referent, offset) ==
    IF HasClock(log, offset) THEN LiveHolder(log, referent, offset, log[offset].ts) ELSE NoHold

\* Work that is finished is not held, whatever its lease says.
Held(log, referent, offset) ==
    IF HasClock(log, offset) /\ StandingClosers(log, referent, offset) = {}
    THEN LiveHolder(log, referent, offset, log[offset].ts)
    ELSE NoHold

-----------------------------------------------------------------------------
(* Lineage: a supersede carries corrected text, it does not reclassify.     *)

LineageRoot(log, i, offset) ==
    LET root[k \in DOMAIN log] ==
            LET parents == RefsOf(log[k], "supersedes") \cap UpTo(log, offset)
            IN  IF parents = {} THEN k ELSE root[Least(parents)]
    IN  root[i]

\* The members of the chain; where several supersede one envelope, the first
\* does (and CurrentVersion of Civic takes the last).
Lineage(log, i, offset) ==
    LET onward[k \in DOMAIN log] ==
            LET heirs == Inbound(log, k, "supersedes", offset)
            IN  {k} \cup IF heirs = {} THEN {} ELSE onward[Least(heirs)]
    IN  onward[LineageRoot(log, i, offset)]

\* Distinct bands other than the author that corroborate i, oldest first; where
\* the act needs evidence, each has to bring some that was not offered before.
Corroborators(log, entries, i, offset) ==
    LET rules  == PolicyAt(entries, log[i].ns, offset).rules
        proof  == PointerRequired(rules, log[i].type, log[i].grade)
        offers == Inbound(log, i, "corroborates", offset)
        counts[k \in offers] ==
            LET before == {h \in offers : h < k /\ counts[h]} IN
            /\ log[k].author \notin {log[i].author} \cup {log[h].author : h \in before}
            /\ proof => log[k].ext.sha \notin {NoSha, log[i].ext.sha}
                                              \cup {log[h].ext.sha : h \in before}
    IN  {log[k].author : k \in {h \in offers : counts[h]}}

\* No author of any version adds weight to the chain.
LineageCorroborators(log, entries, chain, offset) ==
    (UNION {Corroborators(log, entries, i, offset) : i \in chain}) \ {log[i].author : i \in chain}

-----------------------------------------------------------------------------
(* state: what stands in a nest.                                            *)

InNest(log, ns, offset) ==
    {i \in UpTo(log, offset) : InSubtree(ns, log[i].ns) /\ ~InScratch(log[i].ns)}

\* Groups of envelopes put beside each other; no member is the first.
BesideClusters(log, ids) ==
    LET besides == [i \in ids |->
            {j \in ids : j \in RefsOf(log[i], "beside") \/ i \in RefsOf(log[j], "beside")}]
    IN  {ReachedBy(besides, {i}, Cardinality(ids)) : i \in {j \in ids : besides[j] # {}}}

\* What is left of the envelopes when a requester below desk, in the nest the state
\* is asked of, has not yet posted into the open rounds they answer blind.
BlindFilter(log, entries, envs, ns, offset, requester) ==
    LET band == EffectiveBand(entries, requester, ns, offset) IN
    IF band # NoBand /\ BandRank[band] >= BandRank["desk"] THEN envs
    ELSE {i \in envs : ~Blinded(log, entries, i, requester, "reader", offset)}

StateOf(log, entries, offset, ns, envs) ==
    LET floor == PolicyAt(entries, ns, offset).rules.view_floor
        stamped(i) == EffectivelyStamped(log, i, offset)
        alive(acts) == {i \in envs : log[i].type \in acts /\ ~Superseded(log, i, offset)}
    IN  [opens       |-> {i \in envs : log[i].type = "OPEN" /\ StandingClosers(log, i, offset) = {}},
         proposals   |-> alive({"PROPOSAL"}),
         findings    |-> {i \in alive({"FINDING", "BESIDE"}) :
                             GradeOK(floor, log[i].grade, stamped(i))},
         warns       |-> {i \in alive(Act) : log[LineageRoot(log, i, offset)].type = "WARN"},
         stamped     |-> {i \in envs : log[i].type # "POLICY" /\ stamped(i)},
         invalidated |-> {i \in envs : Invalidated(log, i, offset)},
         beside      |-> BesideClusters(log, envs),
         claims      |-> {[referent |-> i, holder |-> Held(log, i, offset)] :
                             i \in {j \in envs : /\ log[j].type \in {"OPEN", "JOB"}
                                                 /\ Held(log, j, offset) # NoHold}}]

\* The state that is served is that of the desk, who is nobody's peer.
State(log, entries, offset, ns) ==
    StateOf(log, entries, offset, ns, InNest(log, ns, offset))

StateFor(log, entries, offset, ns, requester) ==
    StateOf(log, entries, offset, ns,
            BlindFilter(log, entries, InNest(log, ns, offset), ns, offset, requester))

-----------------------------------------------------------------------------
(* The edge walks.                                                          *)

Thread(log, root, offset) == Inbound(log, root, "replies", offset)

AncestryEdges == {"derives-from", "supersedes", "beside"}

StandsOn(log, i) == {r.id : r \in {x \in log[i].refs : x.edge \in AncestryEdges}}

\* Ancestors that are withheld from the reader are named and not followed.
Provenance(log, i, offset) ==
    LET onto == [k \in 1..offset |->
            IF k \in UpTo(log, offset) THEN StandsOn(log, k) ELSE {}]
        closure == ReachedBy(onto, {i}, offset)
        ground  == {k \in closure \cap DOMAIN log : StandsOn(log, k) = {}}
    IN  [chain |-> closure \ ground, ground |-> ground]

Descendants(log, i, offset) ==
    LET below == [k \in 1..offset |-> Inbound(log, k, "derives-from", offset)]
    IN  ReachedBy(below, {i}, offset) \ {i}

\* What to check again after i was invalidated, with the distance from it.
Taint(log, i, offset) ==
    LET below == Descendants(log, i, offset)
        distance[k \in below] ==
            LET above == RefsOf(log[k], "derives-from") \cap (below \cup {i})
            IN  1 + Least({IF a = i THEN 0 ELSE distance[a] : a \in above})
    IN  IF Invalidated(log, i, offset)
        THEN {[id |-> k, distance |-> distance[k]] : k \in below}
        ELSE {}

-----------------------------------------------------------------------------
(* The digests.                                                             *)

\* One entry per lineage, at its live head, of what was said within the horizon
\* in nests that grade: warnings, and findings that are verified or stamped.
Fresh(log, entries, offset, roots, horizon) ==
    LET live(i) == i = Greatest(Lineage(log, i, offset))
        kind(i) == log[LineageRoot(log, i, offset)].type
        told(i) == \/ kind(i) = "WARN"
                   \/ /\ kind(i) = "FINDING"
                      /\ GradeOK("verified", log[i].grade, EffectivelyStamped(log, i, offset))
    IN  IF ~HasClock(log, offset) THEN {}
        ELSE {[id     |-> i,
               weight |-> Cardinality(Corroborators(log, entries, i, offset)),
               lineage_weight |->
                   Cardinality(LineageCorroborators(log, entries, Lineage(log, i, offset), offset))] :
              i \in {k \in UpTo(log, offset) :
                        /\ live(k) /\ ~InScratch(log[k].ns)
                        /\ \E root \in roots : InSubtree(root, log[k].ns)
                        /\ PolicyAt(entries, log[k].ns, k).rules.grades
                        /\ log[k].ts >= log[offset].ts - horizon
                        /\ told(k)}}

OfRecord(log, offset, project) ==
    {i \in UpTo(log, offset) :
        /\ InSubtree(project, log[i].ns) /\ log[i].type # "POLICY"
        /\ EffectivelyStamped(log, i, offset)}

\* browse ranks by the edges that arrive from anywhere, each edge one point; the
\* decay that hot applies to a point is left out.
Score(log, i, offset) ==
    Cardinality({p \in UpTo(log, offset) \X Edge : i \in RefsOf(log[p[1]], p[2])})

Above(log, offset, sort, i, j) ==
    IF sort = "recent" THEN i > j
    ELSE LET a == Score(log, i, offset)
             b == Score(log, j, offset)
         IN  a > b \/ (a = b /\ i > j)

Browse(log, offset, ns, sort, limit) ==
    LET envs == IF sort = "recent" \/ HasClock(log, offset) THEN InNest(log, ns, offset) ELSE {}
    IN  [total   |-> Cardinality(envs),
         entries |-> {i \in envs :
                        Cardinality({j \in envs : Above(log, offset, sort, j, i)}) < limit}]

=============================================================================
