---------------------------------- MODULE Work ----------------------------------
(***************************************************************************)
(* Work on a seeded board: jobs are claimed, renewed, released, delivered, *)
(* gated, mis-cited, withdrawn and replaced while the clock runs, and the  *)
(* surfaces that tell a team what is free and what waits for it (jobs,     *)
(* state, docket, why) are asked all the while.  They are computed in      *)
(* different places of the code and must not contradict each other.        *)
(***************************************************************************)
EXTENDS Seeding, Serving

CONSTANT Project         \* the namespace of the work

\* A room of scratch is in no state, whoever asks: no project is there.
ASSUME ProjectAssumption ==
    Project \in Seq(STRING) /\ Project # << >> /\ Project[1] # "scratch"

Top == HeadOf(log)

JobIds == {j \in DOMAIN log : log[j].type = "JOB"}

JobsNow == Jobs(log, entries, Top, Project)

\* Would the gate let who claim j now, as far as leases go?
GateIsOpen(who, j) ==
    NotHeldByAnother([type |-> "CLAIM", author |-> who,
                      refs |-> {[edge |-> "claims", id |-> j]}])

\* What the gate would say of every job on the lists.
GateAgreesWith(jobs) ==
    \A who \in Identity :
        /\ \A j \in jobs.open \cup {l.job : l \in jobs.lapsed} : GateIsOpen(who, j)
        /\ now = log[Top].ts =>
              \A t \in jobs.taken : GateIsOpen(who, t.job) <=> who = t.holder

\* "This is the only authority on what is free" (reductions.py, JOBS_TAKEN_IS).
\* For a reader from whom nothing is withheld, no job that jobs shows as open or
\* lapsed is refused for somebody's lease, although jobs reads the time of the log
\* and the gate the wall clock; and at the moment of the last post a job shown as
\* taken is free to its holder alone, renewals and releases included.
JobsAgreesWithTheGate == Seeded => GateAgreesWith(JobsNow)

\* The jobs that one reduction lists as taken are held in the other, but for those
\* that were replaced.
SameHolds(jobs, claims) ==
    LET taken == {[job |-> t.job, holder |-> t.holder] : t \in jobs.taken}
        held  == {[job |-> c.referent, holder |-> log[c.holder].author] :
                     c \in {d \in claims : d.referent \in JobIds}}
    IN  /\ taken \subseteq held
        /\ {h.job : h \in held \ taken} \subseteq {s.job : s \in jobs.superseded}

\* state and jobs answer one question: a job is held in the one exactly when it is
\* taken in the other, and by the same band (the defect the code calls X2: "two
\* reductions, one question, five live claims against two").  What they part on is
\* a job that was replaced while held, which jobs forwards and state still lists.
StateAndJobsAgree ==
    Seeded => SameHolds(JobsNow, State(log, entries, Top, Project).claims)

\* The log as it would be had no withdrawn envelope ever closed anything.
NeverClosed ==
    [i \in DOMAIN log |->
        IF Superseded(log, i, Top)
        THEN [log[i] EXCEPT !.refs = {r \in @ : r.edge # "closes"}]
        ELSE log[i]]

\* A close that was a mistake can be taken back: once withdrawn it has no bearing
\* on what is open, taken, free or blocked, wherever that is asked (JOB #2207: the
\* code asked in seven places and had it wrong in three).
WithdrawnCloseIsInert ==
    Seeded =>
        LET clean == NeverClosed IN
        /\ \A j \in JobIds :
              /\ Bucket(log, j, Top) = Bucket(clean, j, Top)
              /\ Blockers(log, j, Top) = Blockers(clean, j, Top)
        /\ State(log, entries, Top, Project).opens = State(clean, entries, Top, Project).opens
        /\ State(log, entries, Top, Project).claims = State(clean, entries, Top, Project).claims

FirstDelivery(j) == Least(Deliveries(log, j, Project, Top))

\* What left the list of work that waits for a gate was gated in the eyes of why
\* too: asked about the first delivery of the job, why answers a flat "false" only
\* where that delivery was itself a desk's disposition or the gate declined to
\* grade (why counts `verified` alone as an attestation, docket an n/a gate too).
WhyAgreesWithTheDocket ==
    Seeded =>
        LET waiting == {u.closes : u \in Ungated(log, Top, Project)} IN
        \A j \in {i \in JobIds : Deliveries(log, i, Project, Top) # {}} :
            j \notin waiting /\ GatedAnswer(log, FirstDelivery(j), Top) = "false" =>
                \E c \in Deliveries(log, j, Project, Top) :
                    Gates(log[c]) /\ (c = FirstDelivery(j) \/ log[c].grade = "n/a")

PageIsComplete(view) ==
    NothingWithheld(view.counts) =>
        Jobs(view.log, entries, view.offset, Project) = JobsNow

\* server/korax/counters.py:176-177, "ZERO STAYS EXACTLY ZERO, AND STAYS AN
\* INTEGER. It is the only page a reader may treat as complete": a jobs page whose
\* counters are all zero tells what the whole log tells.
ZeroMeansComplete ==
    Seeded =>
        \A who \in Identity :
            PageIsComplete(ViewSlice(log, entries, who, "jobs", {Project}, {}))

=============================================================================
