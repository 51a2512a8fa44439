------------------------------- MODULE WriteRetry -------------------------------
(***************************************************************************)
(* post_with_retry of the two clients (cli client.py, mcp client.py): one  *)
(* write under an idempotency key, against a board that restarts and a     *)
(* network that loses answers.  A failure proves that nothing was appended *)
(* (clean), that the board said no (refused), or nothing at all            *)
(* (ambiguous); after the last the client looks for its key before it      *)
(* posts again.                                                            *)
(***************************************************************************)
EXTENDS Remote

CONSTANTS
    Attempts,         \* the bound on posts, and on looks after each
    MaxRuns,          \* bound on the runs a person starts with the same key
    MaxLate,          \* bound on the requests that land after their client gave them up
    AuthorReadsBack   \* may the author read what it wrote there?

ASSUME RetryAssumption ==
    /\ Attempts \in Nat \ {0} /\ MaxRuns \in Nat \ {0}
    /\ MaxLate \in Nat /\ AuthorReadsBack \in BOOLEAN

VARIABLES
    write,            \* where the client stands, one of WriteState
    attempt,          \* posts made in this run
    look,             \* looks made after this post
    found,            \* the ids the last look found
    afloat,           \* requests given up on that may still reach the board
    late,             \* those that have landed after all
    runs

writeVars == <<write, attempt, look, found, afloat, late, runs>>

\* The last five are how a run ends.
WriteState == {"ready", "ambiguous", "probed", "posted", "recovered", "refused",
               "exhausted", "undetermined", "duplicated"}

Ended == {"posted", "recovered", "refused", "exhausted", "undetermined", "duplicated"}

WriteInit ==
    /\ write = "ready" /\ attempt = 1 /\ look = 1
    /\ found = {} /\ afloat = 0 /\ late = 0 /\ runs = 1

Landed == {i \in 1..Len(log) : log[i].key = Key}

Land == log' = Append(log, [key |-> Key, mine |-> FALSE])

GivesUp == attempt >= Attempts

\* Posting, and what comes of it.

PostAnswered ==
    /\ write = "ready" /\ serving = "up" /\ Len(log) < MaxLog
    /\ Land
    /\ write' = "posted"
    /\ UNCHANGED <<attempt, look, found, afloat, late, runs, serving, outages>>

PostRefused ==
    /\ write = "ready" /\ serving = "up"
    /\ write' = "refused"
    /\ UNCHANGED <<attempt, look, found, afloat, late, runs, remoteVars>>

\* The board's own 503, before it reads the envelope.
CleanRefusal ==
    /\ write = "ready" /\ serving = "closing"
    /\ IF GivesUp THEN write' = "exhausted" /\ UNCHANGED attempt
                  ELSE attempt' = attempt + 1 /\ UNCHANGED write
    /\ UNCHANGED <<look, found, afloat, late, runs, remoteVars>>

\* Slip: a failure that proves nothing is taken for a refusal.
UnclearIsRefusal == write' = "refused" /\ look' = 1

Unclear ==
    /\ write' = (IF GivesUp THEN "exhausted" ELSE "ambiguous")
    /\ look' = 1

\* The board appended the envelope and the answer was lost.
AnswerLost ==
    /\ write = "ready" /\ serving = "up" /\ Len(log) < MaxLog
    /\ Land /\ Unclear
    /\ UNCHANGED <<attempt, found, afloat, late, runs, serving, outages>>

\* The request did not reach the board, or has not yet.
RequestLost ==
    /\ write = "ready"
    /\ Unclear
    /\ afloat' \in {afloat} \cup (IF late + afloat < MaxLate THEN {afloat + 1} ELSE {})
    /\ UNCHANGED <<attempt, found, late, runs, remoteVars>>

LateArrival ==
    /\ afloat > 0
    /\ afloat' = afloat - 1
    /\ \/ /\ serving = "up" /\ Len(log) < MaxLog
          /\ Land /\ late' = late + 1
          /\ UNCHANGED <<serving, outages>>
       \/ serving # "up" /\ UNCHANGED <<late, remoteVars>>
    /\ UNCHANGED <<write, attempt, look, found, runs>>

\* Looking for the key: every envelope of the author in the namespace, as far as
\* the board lets the author read them.
Probe ==
    /\ write = "ambiguous" /\ Answers
    /\ found' = (IF AuthorReadsBack THEN Landed ELSE {})
    /\ write' = "probed"
    /\ UNCHANGED <<attempt, look, afloat, late, runs, remoteVars>>

\* Slip: a look that failed counts as a look that found nothing.
LookAgainOrGuess ==
    /\ write' = "probed" /\ found' = {} /\ UNCHANGED look

\* A look that cannot be had is repeated and never taken for "did not land".
LookAgain ==
    /\ IF look >= Attempts THEN write' = "undetermined" /\ UNCHANGED look
                           ELSE look' = look + 1 /\ UNCHANGED write
    /\ UNCHANGED found

ProbeFails ==
    /\ write = "ambiguous"
    /\ LookAgain
    /\ UNCHANGED <<attempt, afloat, late, runs, remoteVars>>

\* Slip: a post after a look that found nothing is not counted.
VerdictUncounted ==
    /\ write = "probed"
    /\ write' = (CASE Cardinality(found) = 1 -> "recovered"
                   [] Cardinality(found) > 1 -> "duplicated"
                   [] OTHER                  -> "ready")
    /\ UNCHANGED <<attempt, look, found, afloat, late, runs, remoteVars>>

\* One hit is the write itself, several are nobody's, none means post again.
Verdict ==
    /\ write = "probed"
    /\ CASE Cardinality(found) = 1 -> write' = "recovered" /\ UNCHANGED attempt
         [] Cardinality(found) > 1 -> write' = "duplicated" /\ UNCHANGED attempt
         [] OTHER                  -> write' = "ready" /\ attempt' = attempt + 1
    /\ UNCHANGED <<look, found, afloat, late, runs, remoteVars>>

\* A person told that the write is unknown searches for the key once the board is
\* back, and posts again with it if there is nothing.
RunAgain ==
    /\ write \in {"exhausted", "undetermined"} /\ runs < MaxRuns
    /\ Answers /\ (AuthorReadsBack => Landed = {})
    /\ write' = "ready" /\ attempt' = 1 /\ look' = 1 /\ found' = {} /\ runs' = runs + 1
    /\ UNCHANGED <<afloat, late, remoteVars>>

Write ==
    \/ PostAnswered \/ PostRefused \/ CleanRefusal \/ AnswerLost \/ RequestLost
    \/ LateArrival \/ Probe \/ ProbeFails \/ Verdict \/ RunAgain

-----------------------------------------------------------------------------
\* The retry itself never writes twice, whatever answers were lost and whenever
\* the board was down: every envelope with the key beyond the first is a request
\* that the network delivered after its client had given it up.
RetryNeverDuplicates == Cardinality(Landed) <= 1 + late

\* A client that says its write is on the log is right, and one that was told no,
\* or that finds its key twice, has the network's late deliveries to blame.
VerdictIsTrue ==
    /\ write \in {"posted", "recovered"} => Landed # {}
    /\ write \in {"refused", "duplicated"} => Landed = {} \/ late > 0

=============================================================================
