------------------------------ MODULE Envelopes ------------------------------
(***************************************************************************)
(* The wire vocabulary of a korax board (server/korax/models.py), the      *)
(* namespace tests of nsglob.py and the queries of log.py.                 *)
(*                                                                         *)
(* A log is a sequence of accepted envelopes.  The board numbers them from *)
(* 0; a TLA+ sequence is numbered from 1, so offset o of the code is       *)
(* offset o + 1 here and an empty log has head 0.  A namespace is the      *)
(* sequence of its path segments (nsglob.segments); "/" is << >>.          *)
(***************************************************************************)
EXTENDS Integers, Sequences

CONSTANTS
    Identity,     \* band ids, the authors and readers of the board
    Everyone,     \* the grantee "band:*"
    Namespace,    \* the namespaces in play, sequences of segments
    MaxTime       \* bound on the wall clock, in clock ticks

Band == {"reader", "poster", "warner", "claimant", "desk", "maintainer", "human"}

NoBand == "none"                \* effective_band returned None

BandRank ==
    [b \in Band |-> CASE b = "reader"                  -> 0
                      [] b = "poster"                  -> 1
                      [] b = "warner"                  -> 2
                      [] b = "claimant"                -> 3
                      [] b \in {"desk", "maintainer"}  -> 4
                      [] b = "human"                   -> 5]

Act == {"FINDING", "NOTE", "CLAIM", "OPEN", "JOB", "PROPOSAL", "WARN", "SUPERSEDE",
        "BESIDE", "HANDOVER", "STAMP", "POLICY", "PIN", "ACK", "UNSEAL", "SUBSCRIBE"}

Grade == {"n/a", "unverified", "verified"}

GradeRank == [g \in Grade |-> CASE g = "n/a" -> 0 [] g = "unverified" -> 1 [] OTHER -> 2]

\* What a SUBSCRIBE asks for: a lane and the narrowing that lane reads.
Lane == {"ns", "author", "type", "descent"}

AnyAct == "any"

\* A namespace is named by its root or by the glob root/**.
Selector ==
    [lane : Lane, ns : Namespace, glob : BOOLEAN, author : Identity \cup {Everyone},
     type : Act \cup {AnyAct}]

NoSelector == [lane |-> "none"]

\* The side data of an envelope: the class of a PIN, a STAMP that takes back, the
\* evidence behind the pointer (0: no pointer), the sha a gate says it merged,
\* the mark of a delivery, who is mentioned, and the selector.
NoSha == 0

Ext ==
    [canon : BOOLEAN, retracts : BOOLEAN, sha : Nat, merged_sha : Nat, delivery : BOOLEAN,
     mentions : SUBSET STRING, select : Selector \cup {NoSelector}]

NoExt ==
    [canon |-> FALSE, retracts |-> FALSE, sha |-> NoSha, merged_sha |-> NoSha,
     delivery |-> FALSE, mentions |-> {}, select |-> NoSelector]

Edge == {"supersedes", "beside", "replies", "derives-from", "closes", "claims",
         "part-of", "gated-by", "pins", "requires", "acks", "endorses",
         "invalidates", "corroborates", "stamps"}

\* The acts an edge may start from, and those it may point at.
EdgeSourceActs(edge) ==
    CASE edge = "claims"                  -> {"CLAIM"}
      [] edge \in {"part-of", "gated-by"} -> {"JOB"}
      [] edge = "pins"                    -> {"PIN"}
      [] edge = "stamps"                  -> {"STAMP"}
      [] OTHER                            -> Act

EdgeTargetActs(edge) ==
    CASE edge \in {"closes", "claims"}    -> {"OPEN", "JOB"}
      [] edge \in {"part-of", "gated-by"} -> {"JOB"}
      [] edge = "endorses"                -> {"PROPOSAL", "FINDING"}
      [] edge = "corroborates"            -> {"FINDING", "WARN"}
      [] OTHER                            -> Act

\* The acts that are human-readable in every nest (models.SEAM_EXEMPT_ACTS).
SeamExemptActs == {"POLICY", "JOB", "PIN", "STAMP", "UNSEAL"}

\* The edges that change what a subject is (models.STATE_CHANGING_EDGES).
StateChangingEdges == {"supersedes", "closes", "stamps", "pins"}

-----------------------------------------------------------------------------
(* nsglob.py.  Grants are modelled with globs of the form root/**, the     *)
(* default glob of a grant, for which the glob tests are prefix tests.     *)

InSubtree(root, ns) == Len(root) <= Len(ns) /\ SubSeq(ns, 1, Len(root)) = root

Governs(policyNs, ns) == InSubtree(policyNs, ns)

SubtreesOverlap(a, b) == InSubtree(a, b) \/ InSubtree(b, a)

Least(S) == CHOOSE x \in S : \A y \in S : x <= y

Greatest(S) == CHOOSE x \in S : \A y \in S : y <= x

\* The end of the chain from each offset, where next names those that come after
\* it: of several, a chain goes on with the last.
Follow(next) ==
    LET end[k \in DOMAIN next] == IF next[k] = {} THEN k ELSE end[Greatest(next[k])]
    IN  end

-----------------------------------------------------------------------------
(* log.py.  Every query is capped at an offset, inclusive.                 *)

HeadOf(log) == Len(log)

NextId(log) == Len(log) + 1

UpTo(log, offset) == {i \in DOMAIN log : i <= offset}

RefsOf(env, edge) == {r.id : r \in {x \in env.refs : x.edge = edge}}

Inbound(log, target, edge, offset) ==
    {i \in UpTo(log, offset) : target \in RefsOf(log[i], edge)}

Superseded(log, i, offset) == Inbound(log, i, "supersedes", offset) # {}

ActsIn(log, act, offset) == {i \in UpTo(log, offset) : log[i].type = act}

=============================================================================
