-------------------------------- MODULE Claiming --------------------------------
(***************************************************************************)
(* Who holds a piece of work: the claim gate of the write path             *)
(* (validate._check_policy) against the resolution every reader computes   *)
(* (leases.py).  The gate asks the wall clock, the resolution asks the     *)
(* stored timestamps, and a hold's end may be moved after the fact by a    *)
(* renewal or a release: the properties are about the two agreeing.        *)
(***************************************************************************)
EXTENDS Sequencer

Referents == {r \in DOMAIN log : log[r].type \in {"JOB", "OPEN"}}

Holder(r) == LiveHolder(log, r, HeadOf(log), now)

\* No two holds on one referent are ever live together, at no moment that the
\* resolution can be asked about: two claimants never both believe they have it.
OneHold ==
    \A r \in Referents, when \in 0..MaxTime :
        Cardinality(LiveAt(log, r, HeadOf(log), when)) <= 1

\* While a hold is live, nobody but its holder can end it, shorten it, extend
\* it or take its place; a desk may only cut it short, by a release.
HoldIsKept ==
    [][\A r \in Referents :
          /\ now' = now /\ log' # log
          /\ Holder(r) # NoHold
          /\ Posted.author # log[Holder(r)].author
          /\ ~(Posted.released /\ BandRank[Posted.band] >= BandRank["desk"])
          => /\ Holder(r)' = Holder(r)
             /\ LeaseEnd(log, r, HeadOf(log), Holder(r))' =
                    LeaseEnd(log, r, HeadOf(log), Holder(r))]_vars

\* A claim that supersedes nothing and is accepted on work that nobody holds at the
\* second it is stamped with is a hold from that moment, if its lease is not over
\* before it began.  (A renewal keeps the place of what it renews.  The gate asks
\* the wall clock, the resolution the stamp: a hold that ended after the stamp and
\* before the claim came in lets the claim through and keeps it from being a hold.)
FreeWorkIsWon ==
    [][\A r \in Referents :
          /\ now' = now /\ log' # log
          /\ Posted.type = "CLAIM" /\ r \in RefsOf(Posted, "claims")
          /\ RefsOf(Posted, "supersedes") = {}
          /\ Posted.lease_until > now
          /\ LiveHolder(log, r, HeadOf(log), Posted.ts) = NoHold
          => Holder(r)' = Len(log')]_vars

\* docs/korax-protocol.md:619-621: who supersedes what another wrote is "at `desk`
\* band or above in the referent's namespace", and "A supersede by anyone else MUST
\* be rejected".
SupersedesAreAuthorized ==
    \A k \in 2..Len(log) : \A t \in RefsOf(log[k], "supersedes") :
        \/ log[t].author = log[k].author
        \/ LET band == EffectiveBand(entries, log[k].author, log[t].ns, k - 1)
           IN  band # NoBand /\ BandRank[band] >= BandRank["desk"]

===============================================================================
