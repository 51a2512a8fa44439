------------------------------- MODULE JobBoard -------------------------------
(***************************************************************************)
(* reductions.py, the work of a project: its jobs with their holders and   *)
(* deliveries, what is finished and still waits for a gate, the docket     *)
(* that every session opens with, and the notice of one's mail.  Logs are  *)
(* slices, as in Reductions.                                               *)
(***************************************************************************)
EXTENDS Reductions, Feed

\* Where every closer was replaced by something that closes nothing, all count.
StandingOrAll(log, ids, offset) ==
    IF Standing(log, ids, offset) = {} THEN ids ELSE Standing(log, ids, offset)

-----------------------------------------------------------------------------
(* What was delivered, and whose grade it carries.                          *)

Attests(env) == env.type \in {"FINDING", "WARN"} /\ env.grade # "n/a"

Delivery(log, entries, job, offset) ==
    LET closers   == Closers(log, job, offset)
        standing  == StandingOrAll(log, closers, offset)
        deliverer == Least(standing)
        rank(c)   == GradeRank[log[c].grade]
        others    == {c \in standing :
                         log[c].author # log[deliverer].author /\ Attests(log[c])}
        rivals    == {c \in others :
                         /\ rank(c) >= rank(deliverer)
                         /\ \A d \in others : rank(d) < rank(c) \/ (rank(d) = rank(c) /\ d <= c)}
        graded    == PolicyAt(entries, log[job].ns, job).rules.grades
        source    == IF graded /\ rivals # {} THEN Greatest(rivals) ELSE deliverer
        merges    == {c \in others : graded /\ log[c].ext.merged_sha # NoSha}
    IN  [job      |-> job,
         by       |-> Least(closers),
         current  |-> CurrentVersion(log, Least(closers), offset),
         grade    |-> IF graded /\ EffectivelyStamped(log, source, offset)
                      THEN "stamped" ELSE log[source].grade,
         grade_by |-> source,
         grade_source |-> IF ~graded THEN "ungraded"
                          ELSE IF rivals # {} THEN "other"
                          ELSE IF Attests(log[deliverer]) THEN "self" ELSE "unattested",
         merged   |-> IF merges = {} THEN NoSha ELSE log[Greatest(merges)].ext.merged_sha]

\* i and everything that supersedes it, on every branch.
SupersedeChain(log, i, offset) ==
    LET heirs == [k \in 1..offset |-> Inbound(log, k, "supersedes", offset)]
    IN  ReachedBy(heirs, {i}, offset)

\* A desk's word that ends the wait, whatever its author's part in the work.
Gates(env) == BandRank[env.band] >= BandRank["desk"] /\ env.grade \in {"verified", "n/a"}

\* The findings of the project that close the target.
Deliveries(log, target, project, offset) ==
    {c \in Closers(log, target, offset) :
        log[c].type = "FINDING" /\ InSubtree(project, log[c].ns)}

\* A slip: whoever closes beside the delivery is taken for its gate.
GatedByAnyCloser(log, closers, offset) ==
    \/ Gates(log[Least(closers)])
    \/ Standing(log, closers, offset) \ SupersedeChain(log, Least(closers), offset) # {}

\* The first delivery disposes of the target itself, or a gate by a band that had
\* no part in the chain of deliveries stands beside it.
Gated(log, closers, offset) ==
    LET chain   == SupersedeChain(log, Least(closers), offset)
        authors == {log[k].author : k \in chain}
    IN  \/ Gates(log[Least(closers)])
        \/ \E c \in StandingOrAll(log, closers, offset) \ chain :
              log[c].author \notin authors /\ Gates(log[c])

UngatedEntry(log, target, closers, offset) ==
    LET first == Least(closers)
        tips  == StandingOrAll(log, closers, offset) \cap SupersedeChain(log, first, offset)
        tip   == IF tips = {} THEN first ELSE Greatest(tips)
    IN  [closes |-> target, author |-> log[first].author, by |-> first,
         current |-> CurrentVersion(log, first, offset), grade |-> log[tip].grade]

\* Finished work that still waits for a gate, by what it closes.
Ungated(log, offset, project) ==
    {UngatedEntry(log, t, Deliveries(log, t, project, offset), offset) :
        t \in {i \in UpTo(log, offset) :
                  /\ Deliveries(log, i, project, offset) # {}
                  /\ ~Gated(log, Deliveries(log, i, project, offset), offset)}}

-----------------------------------------------------------------------------
(* jobs.                                                                    *)

Replacements(log, job, offset) ==
    {r \in Inbound(log, job, "supersedes", offset) : log[r].type = "JOB"}

\* Done with, for those it blocks: a job somebody works on still blocks.
Released(log, job, offset) ==
    StandingClosers(log, job, offset) # {} \/ Replacements(log, job, offset) # {}

Blockers(log, job, offset) ==
    {b \in RefsOf(log[job], "gated-by") \cap UpTo(log, offset) : ~Released(log, b, offset)}

\* A slip: a lease is over when its first claim said so, whatever was renewed.
JobHolderAsClaimed(log, job, offset) ==
    LET live == {h \in Admissible(log, job, offset) :
                    HasClock(log, offset) /\ log[offset].ts < log[h].lease_until}
    IN  IF live = {} THEN NoHold ELSE Least(live)

JobHolder(log, job, offset) ==
    IF HasClock(log, offset) THEN LiveHolder(log, job, offset, log[offset].ts) ELSE NoHold

Bucket(log, job, offset) ==
    IF Replacements(log, job, offset) # {} THEN "superseded"
    ELSE IF StandingClosers(log, job, offset) # {} THEN "delivered"
    ELSE IF JobHolder(log, job, offset) # NoHold THEN "taken"
    ELSE IF Admissible(log, job, offset) # {} THEN "lapsed"
    ELSE "open"

\* Who let go of the job last, and by which release if there was one.
Lapse(log, job, offset) ==
    LET holds == Admissible(log, job, offset)
        last  == Releases(log, offset, CurrentLink(log, job, offset, Greatest(holds)))
    IN  [job |-> job, prior_holders |-> {log[h].author : h \in holds},
         released_by |-> IF last = {} THEN NoHold ELSE Least(last)]

\* The lists of the board, given the bucket of each job.
JobLists(log, entries, offset, bucket) ==
    LET kept(b)     == {j \in DOMAIN bucket : bucket[j] = b}
        current     == kept("open") \cup kept("taken") \cup kept("lapsed")
        blockers(j) == Blockers(log, j, offset)
        taken(j, h) == [job |-> j, holder |-> log[h].author,
                        via |-> CurrentLink(log, j, offset, h)]
    IN  [open       |-> kept("open"),
         taken      |-> {taken(j, JobHolder(log, j, offset)) : j \in kept("taken")},
         delivered  |-> {Delivery(log, entries, j, offset) : j \in kept("delivered")},
         lapsed     |-> {Lapse(log, j, offset) : j \in kept("lapsed")},
         superseded |-> {[job |-> j, by |-> Least(Replacements(log, j, offset))] :
                            j \in kept("superseded")},
         inadmissible |-> UNION {Heads(log, j, offset) \ Admissible(log, j, offset) : j \in current},
         blocked_by |-> {[job |-> j, blockers |-> blockers(j)] :
                            j \in {k \in current : blockers(k) # {}}},
         ready      |-> {j \in kept("open") : blockers(j) = {}},
         forest     |-> UNION {{[parent |-> p, child |-> j] : p \in RefsOf(log[j], "part-of")} :
                                  j \in DOMAIN bucket}]

Jobs(log, entries, offset, ns) ==
    JobLists(log, entries, offset,
             [j \in {i \in ActsIn(log, "JOB", offset) : InSubtree(ns, log[i].ns)} |->
                 Bucket(log, j, offset)])

-----------------------------------------------------------------------------
(* The docket, and mail.                                                    *)

DocketInbox == <<"korax", "inbox">>

Issues(project) == Append(project, "issues")

DocketNamespaces(project) == {project, DocketInbox}

\* Who holds a grant that reaches into the project and no wider.
ProjectBands(entries, project, offset) ==
    {g.grantee : g \in {h \in GrantsAt(entries, offset) :
                           h.grantee # Everyone /\ InSubtree(project, h.root)}}

\* Open questions of the inbox that a band of the project asked, or that point
\* into it.
Escalated(log, entries, offset, project) ==
    {i \in State(log, entries, offset, DocketInbox).opens :
        \/ log[i].author \in ProjectBands(entries, project, offset)
        \/ \E r \in log[i].refs :
              r.id \in UpTo(log, offset) /\ InSubtree(project, log[r.id].ns)}

NoIdentity == Everyone

\* An identity narrows the lists; totals are those of the whole project.
Docket(log, entries, offset, project, identity) ==
    LET work      == Jobs(log, entries, offset, project)
        filed     == State(log, entries, offset, Issues(project)).opens
        escalated == Escalated(log, entries, offset, project)
        ungated   == Ungated(log, offset, project)
        mine(who) == identity \in {NoIdentity, who}
    IN  [work      |-> [work EXCEPT !.taken = {t \in work.taken : mine(t.holder)}],
         filed     |-> {i \in filed : mine(log[i].author)},
         escalated |-> {i \in escalated : mine(log[i].author)},
         ungated   |-> {u \in ungated : mine(u.author)},
         totals    |-> [open |-> Cardinality(work.open), taken |-> Cardinality(work.taken),
                        filed |-> Cardinality(filed), escalated |-> Cardinality(escalated),
                        ungated |-> Cardinality(ungated)]]

\* Who wrote to who since, never what; and the cursor to ask from next.
Mail(log, offset, who, since) ==
    LET messages == {i \in UpTo(log, offset) :
                        InSubtree(MailboxNs(who), log[i].ns) /\ i > since}
    IN  [messages |-> {[id |-> i, from |-> log[i].author, type |-> log[i].type] : i \in messages},
         cursor   |-> Greatest(messages \cup {since})]

=============================================================================
