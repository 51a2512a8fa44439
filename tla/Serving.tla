-------------------------------- MODULE Serving --------------------------------
(***************************************************************************)
(* What a request for a page is answered: api.py over access.py,           *)
(* retention.py, counters.py and search.py.  A page is drawn from the      *)
(* envelopes its reader may see; rotation hides what is old from those     *)
(* surfaces that discover; and every page counts what was withheld.  In a  *)
(* query, a filter that is not given is the empty set.                     *)
(***************************************************************************)
EXTENDS Why

Slice(log, ids) == [i \in ids |-> log[i]]

-----------------------------------------------------------------------------
(* retention.py.                                                            *)

RotationExempt == {"POLICY", "STAMP", "UNSEAL", "PIN"}

\* Older than the horizon of its nest, by the law in force at the offset and by
\* the clock of the whole board, whoever reads.
Rotated(log, entries, i, offset) ==
    LET horizon == PolicyAt(entries, log[i].ns, offset).rules.horizon IN
    /\ offset \in DOMAIN log
    /\ log[i].type \notin RotationExempt
    /\ horizon # 0
    /\ log[i].ts < log[offset].ts - horizon

RotatedOut(log, entries, ids, offset) == {i \in ids : Rotated(log, entries, i, offset)}

\* The surfaces that discover; the others follow edges and always arrive.
RotatingViews == {"state", "jobs", "fresh", "of-record", "docket", "browse"}

-----------------------------------------------------------------------------
(* counters.py: what was withheld, by namespace and by nothing else.        *)

\* A scope is a set of subtrees; where no namespace was asked for it is the board.
WholeBoard == {}

InScope(log, scope, ids) ==
    {i \in ids : scope = WholeBoard \/ \E root \in scope : InSubtree(root, log[i].ns)}

\* Zero stays zero; any other number of private envelopes is "some".
Bucketed(n) == IF n = 0 THEN "none" ELSE "some"

\* A "denied" envelope is counted nowhere.
WithheldCounts(log, scope, filter, rotated) ==
    [sealed        |-> Cardinality(InScope(log, scope, filter.sealed)),
     participation |-> Bucketed(Cardinality(InScope(log, scope, filter.private))),
     rotated       |-> Cardinality(InScope(log, scope, rotated)),
     scope         |-> IF scope = WholeBoard THEN "board" ELSE "slice"]

NothingWithheld(counts) ==
    counts.sealed = 0 /\ counts.participation = "none" /\ counts.rotated = 0

-----------------------------------------------------------------------------
(* /read and /search.                                                       *)

\* Whose envelopes a page leaves out: the reader's own, where it asks by identity.
SelfDrop(who, query) ==
    IF query.include_self \/ (query.to_author = {} /\ query.to_worked = {}) THEN {} ELSE {who}

Passes(filter, value) == filter = {} \/ value \in filter

Matches(log, seen, who, query, i) ==
    LET env     == log[i]
        targets == Targets(log, i)
        byThem(of(_, _, _), whom) == whom # {} =>
            targets \cap UNION {of(log, seen, w) : w \in whom} # {}
    IN  /\ query.since < i /\ (query.until = {} \/ \E u \in query.until : i <= u)
        /\ env.author \notin SelfDrop(who, query)
        /\ query.roots = {} \/ \E root \in query.roots : InSubtree(root, env.ns)
        /\ Passes(query.types, env.type)
        /\ Passes(query.authors, env.author)
        /\ Passes(query.grades, env.grade)
        /\ query.to # {} => targets \cap query.to # {}
        /\ byThem(Authored, query.to_author)
        /\ byThem(Worked, query.to_worked)

\* The first of the ids, as many as the limit.
Firsts(ids, limit) == {i \in ids : Cardinality({j \in ids : j < i}) < limit}

Lasts(ids, limit) == {i \in ids : Cardinality({j \in ids : j > i}) < limit}

ReadPage(log, entries, who, query) ==
    LET filter  == FilterLog(log, entries, who, HeadOf(log))
        hits    == {i \in filter.visible : Matches(log, filter.visible, who, query, i)}
        rotated == IF query.pierce THEN {} ELSE RotatedOut(log, entries, hits, HeadOf(log))
        page    == Firsts(hits \ rotated, query.limit)
    IN  [envelopes |-> page, cursor |-> Greatest(page \cup {query.since}),
         counts |-> WithheldCounts(log, query.roots, filter, rotated)]

\* Newest first, over texts that contain the needle; rotation does not apply.
SearchPage(log, entries, who, query, containing) ==
    LET filter == FilterLog(log, entries, who, HeadOf(log))
        hits   == {i \in filter.visible \cap containing :
                      Matches(log, filter.visible, who, query, i)}
    IN  [envelopes |-> Lasts(hits, query.limit),
         truncated |-> Cardinality(hits) > query.limit,
         counts |-> WithheldCounts(log, query.roots, filter, {})]

-----------------------------------------------------------------------------
(* /neighbourhood and /envelope.                                            *)

MaxDepth == 3

\* The visible envelopes around a root, hop by hop, newest first until the node
\* budget is spent.
Neighbourhood(log, entries, who, root, depth, budget) ==
    LET filter == FilterLog(log, entries, who, HeadOf(log))
        seen   == filter.visible
        joined(i) == (Targets(log, i) \cap seen) \cup {k \in seen : i \in Targets(log, k)}
        nodes[n \in Nat] ==
            IF n = 0 THEN {root}
            ELSE LET before == nodes[n - 1]
                     next   == (UNION {joined(i) : i \in before}) \ before
                 IN  before \cup Lasts(next, budget - Cardinality(before))
        hops   == Least({depth, MaxDepth})
        around == nodes[hops]
    IN  IF root \notin seen THEN [found |-> FALSE]
        ELSE [found |-> TRUE, nodes |-> around \ {root},
              truncated |-> Cardinality(around) >= budget
                  /\ (UNION {joined(i) : i \in nodes[hops - 1]}) \ around # {},
              counts |-> WithheldCounts(log, WholeBoard, filter, {})]

\* Anything but "sealed" and "ok" answers as if the envelope did not exist.
FetchEnvelope(log, entries, who, i) ==
    LET offset  == HeadOf(log)
        verdict == IF i \in DOMAIN log THEN Verdict(log, entries, i, who, offset) ELSE "denied"
        reading == Required(log, entries, offset, i)
    IN  CASE verdict = "ok" ->
               [status |-> 200, unread |-> Unread(log, reading, who, offset),
                truncated |-> reading.truncated]
          [] verdict = "sealed" -> [status |-> 403]
          [] OTHER -> [status |-> 404]

-----------------------------------------------------------------------------
(* /view.                                                                   *)

VisibleHead(seen) == Greatest(seen \cup {0})

\* An offset past what the reader sees is refused; none given is the last it sees.
OffsetRefused(seen, at) == \E a \in at : a > VisibleHead(seen)

ViewOffset(seen, at) == IF at = {} THEN VisibleHead(seen) ELSE Least(at)

\* Where a view looks further than the namespaces it is asked about, it says so.
ViewScope(name, roots) ==
    CASE name = "docket" -> UNION {DocketNamespaces(ns) : ns \in roots}
      [] name \in {"browse", "why"} -> WholeBoard
      [] OTHER -> roots

\* The slice that a view is computed from, and the counters beside it.
ViewOf(log, entries, name, roots, at, filter) ==
    LET offset  == ViewOffset(filter.visible, at)
        rotated == IF name \in RotatingViews
                   THEN RotatedOut(log, entries, filter.visible, offset) ELSE {}
    IN  [offset |-> offset, log |-> Slice(log, filter.visible \ rotated),
         counts |-> WithheldCounts(log, ViewScope(name, roots), filter, rotated)]

ViewSlice(log, entries, who, name, roots, at) ==
    ViewOf(log, entries, name, roots, at, FilterLog(log, entries, who, HeadOf(log)))

-----------------------------------------------------------------------------
(* Introspection: /whoami, /policy and the first page of onboard.            *)

Whoami(entries, who, head) ==
    [head |-> head, grants |-> {[root |-> g.root, band |-> g.band] :
        g \in {h \in GrantsAt(entries, head) : h.grantee \in {who, Everyone}}}]

\* Laws that were posted for a namespace and are not in force: those that wait
\* for a stamp, and those that no stamp will help, for they are not POLICY acts.
PendingFor(log, entries, ns, offset) ==
    LET laws == {i \in UpTo(log, offset) : IsPolicy(log[i].payload) /\ Governs(log[i].ns, ns)}
    IN  [pending |-> {i \in laws : /\ log[i].type = "POLICY" /\ log[i].band # "human"
                                   /\ i \notin Entered(InForce(entries, offset))},
         inert   |-> {i \in laws : log[i].type \in {"SUPERSEDE", "FINDING", "OPEN"}}]

MinuteZero(log, offset, who, canon) ==
    [posted  |-> Cardinality({i \in UpTo(log, offset) : log[i].author = who}),
     jobs    |-> {log[j].ns : j \in ActsIn(log, "JOB", offset)},
     canon   |-> Met(canon), unread |-> Unread(log, canon, who, offset), head |-> offset]

=============================================================================
