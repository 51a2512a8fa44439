-------------------------------- MODULE Access --------------------------------
(***************************************************************************)
(* access.py: what one requester may read of the log at a head.  Every     *)
(* read surface of the board is a projection of FilterLog.                 *)
(***************************************************************************)
EXTENDS PolicyTimeline

\* A slip: only the reader's last look counts.
UnsealCoversLast(log, i, requester, head) ==
    LET looks == {u \in ActsIn(log, "UNSEAL", head) : log[u].author = requester}
    IN  \E u \in looks :
          /\ \A v \in looks : v <= u
          /\ log[u].ns = log[i].ns
          /\ log[u].range.since <= i /\ i <= log[u].range.until

\* An UNSEAL by the reader, in the envelope's own namespace, whose range holds
\* the envelope.  Nobody else's look counts, nor one in another namespace.
UnsealCovers(log, i, requester, head) ==
    \E u \in ActsIn(log, "UNSEAL", head) :
        /\ log[u].author = requester
        /\ log[u].ns = log[i].ns
        /\ log[u].range.since <= i /\ i <= log[u].range.until

\* The rounds i answers: the OPEN envelopes it replies to.
Rounds(log, i) ==
    {r \in RefsOf(log[i], "replies") \cap DOMAIN log : log[r].type = "OPEN"}

RoundClosed(log, r, head) == Inbound(log, r, "closes", head) # {}

PostedInto(log, r, act, requester, head) ==
    \E k \in Inbound(log, r, "replies", head) :
        log[k].author = requester /\ log[k].type = act

\* A slip: the round is judged by the nest's policy of today.
BlindedToday(log, entries, i, requester, band, head) ==
    /\ BandRank[band] < BandRank["desk"]
    /\ log[i].author # requester
    /\ log[i].type \in PolicyAt(entries, log[i].ns, head).blind
    /\ \E r \in Rounds(log, i) :
          /\ ~RoundClosed(log, r, head)
          /\ ~PostedInto(log, r, log[i].type, requester, head)

\* Withheld from a below-desk peer that has not yet posted into the round.
Blinded(log, entries, i, requester, band, head) ==
    /\ BandRank[band] < BandRank["desk"]
    /\ log[i].author # requester
    /\ log[i].type \in PolicyAt(entries, log[i].ns, i).blind
    /\ \E r \in Rounds(log, i) :
          /\ ~RoundClosed(log, r, head)
          /\ ~PostedInto(log, r, log[i].type, requester, head)

InScratch(ns) == Len(ns) >= 2 /\ ns[1] = "scratch"

InScratchOf(identity, ns) == Len(ns) >= 3 /\ InScratch(ns) /\ ns[2] = identity

InMailbox(ns) == Len(ns) >= 2 /\ ns[1] = "dm"

Participant(env, requester) ==
    InMailbox(env.ns) /\ (requester = env.ns[2] \/ env.author = requester)

\* In a private room of somebody else's: scratch, or a mailbox in which the
\* reader is neither the owner nor the author.
PrivateRoom(env, requester) ==
    \/ InScratch(env.ns) /\ ~InScratchOf(requester, env.ns)
    \/ InMailbox(env.ns) /\ ~Participant(env, requester)

SealedAtPost(entries, log, i) ==
    PolicyAt(entries, log[i].ns, i).human_read = "sealed"

Verdict(log, entries, i, requester, head) ==
    LET env  == log[i]
        band == EffectiveBand(entries, requester, env.ns, head)
        look == UnsealCovers(log, i, requester, head)
    IN  IF band = NoBand THEN "denied"
        ELSE IF PrivateRoom(env, requester) /\ band # "human" THEN "participation"
        ELSE IF PrivateRoom(env, requester) /\ ~look THEN "sealed"
        ELSE IF Blinded(log, entries, i, requester, band, head) THEN "denied"
        ELSE IF /\ HoldsHumanAnywhere(entries, requester, head)
                /\ env.type \notin SeamExemptActs
                /\ ~Participant(env, requester)
                /\ SealedAtPost(entries, log, i)
                /\ ~look
        THEN "sealed"
        ELSE "ok"

Visible(log, entries, requester, head) ==
    {i \in UpTo(log, head) : Verdict(log, entries, i, requester, head) = "ok"}

\* filter_log: the readable envelopes and the two exclusions owed a count.
FilterLog(log, entries, requester, head) ==
    [visible |-> Visible(log, entries, requester, head),
     sealed  |-> {i \in UpTo(log, head) :
                     Verdict(log, entries, i, requester, head) = "sealed"},
     private |-> {i \in UpTo(log, head) :
                     Verdict(log, entries, i, requester, head) = "participation"}]

=============================================================================
