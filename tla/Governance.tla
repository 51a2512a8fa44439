------------------------------- MODULE Governance -------------------------------
(***************************************************************************)
(* What the write path and the policy timeline guarantee together: the law *)
(* of the board is a function of its log, and its past is fixed.           *)
(***************************************************************************)
EXTENDS Sequencer

\* Every variable keeps its type; in particular a stored band is a real band,
\* never the "no band" of an author that may not post.
TypeOK ==
    /\ log \in Seq(Envelope)
    /\ entries \in SUBSET PolicyEntry
    /\ now \in Nat

\* The incremental timeline (apply, one envelope at a time) is the timeline a
\* restart rebuilds from the whole log (__init__): a board that was reloaded
\* and one that was not are governed alike.
EntriesMatchLog == entries = EntriesOf(log)

\* Every band the server ever recorded can be derived again, at any later time,
\* from the law as of the offset before it: authority in the log is auditable
\* and does not drift as policies are stamped, replaced or superseded.
BandsRecomputable ==
    \A i \in 2..Len(log) :
        log[i].band = EffectiveBand(entries, log[i].author, log[i].ns, i - 1)

\* The shape of an accepted log that the agreement of the two timelines rests
\* on: edges point backwards, only a STAMP carries a stamps edge, and no entry
\* is ahead of the log.
LogShape ==
    /\ \A i \in DOMAIN log : \A r \in log[i].refs : r.id < i
    /\ \A i \in DOMAIN log : RefsOf(log[i], "stamps") # {} => log[i].type = "STAMP"
    /\ \A e \in entries : e.effective_at <= Len(log) /\ e.policy_id <= Len(log)

\* The inductive invariant of the governance proofs.
IInv == TypeOK /\ LogShape /\ EntriesMatchLog /\ BandsRecomputable

IsHuman(identity) == HoldsHumanAnywhere(entries, identity, HeadOf(log))

\* Nobody becomes a person to the board except by a human's own envelope: a
\* POLICY below the human band grants nothing until a human stamps it.
NoSelfElevation ==
    [][\A i \in Identity :
          IsHuman(i)' /\ ~IsHuman(i) => log'[Len(log')].band = "human"]_vars

\* The board implements the law book: one page per accepted envelope, the
\* policies in force at that offset, and no page is ever rewritten, although a
\* stamp may bring an old policy into force much later.
Book == INSTANCE LawBook WITH book <- [o \in DOMAIN log |-> InForce(entries, o)]

LawIsKept == Book!Spec

Conflicts == GrantConflicts(GrantsAt(entries, HeadOf(log)))

\* "the act that would create the violation" (validate.py:880-881): a maintainer of
\* the commons, or of another desk's project, who runs a desk of its own is never
\* made by a policy as it is posted (protocol 3.2 rules 1 and 2), whoever else holds
\* what by other policies in force.  A late STAMP may make one: the grants are asked
\* about when the policy is proposed, and not again when it is stamped.  The operator's
\* first law is not asked about at all.
OnlyAStampMakesARefereePlay ==
    [][log # << >> =>
          \A c \in Conflicts' : c \in Conflicts \/ log'[Len(log')].type = "STAMP"]_vars

=============================================================================
