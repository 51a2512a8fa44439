-------------------------------- MODULE Leases --------------------------------
(***************************************************************************)
(* leases.py: the holds on a referent at an offset, and who holds it.  A   *)
(* hold is a head CLAIM followed by its renewals; it is named by the       *)
(* offset of its head.  Time is counted in clock ticks; an envelope's ts   *)
(* is the tick of its sequencing cut down to a whole second (see Truncate  *)
(* in Sequencer), a lease_until is any tick.                               *)
(***************************************************************************)
EXTENDS Envelopes, FiniteSets

Claims(log, referent, offset) ==
    {c \in ActsIn(log, "CLAIM", offset) : referent \in RefsOf(log[c], "claims")}

\* The claims by the same author on the same referent that c supersedes.
Renewed(log, referent, offset, c) ==
    {t \in RefsOf(log[c], "supersedes") \cap Claims(log, referent, offset) :
        log[t].author = log[c].author}

Heads(log, referent, offset) ==
    {c \in Claims(log, referent, offset) : Renewed(log, referent, offset, c) = {}}

\* The claims that continue t: a claim continues one claim, the first it names (of
\* several, the earliest; the edges of an envelope are a set here).
Renewals(log, referent, offset, t) ==
    {c \in Claims(log, referent, offset) :
        LET renewed == Renewed(log, referent, offset, c)
        IN  renewed # {} /\ t = Least(renewed)}

\* The current link of the hold whose links include c: the successor map keeps
\* only the last renewal of a claim, so an earlier one is lost.
CurrentLink(log, referent, offset, c) ==
    Follow([k \in Claims(log, referent, offset) |-> Renewals(log, referent, offset, k)])[c]

\* The first SUPERSEDE of the current link that carries ext.released.
Releases(log, offset, c) ==
    {r \in Inbound(log, c, "supersedes", offset) :
        log[r].type = "SUPERSEDE" /\ log[r].released}

\* When the hold whose current link is given ends: at its lease, or at its first
\* release if that was before.
LinkEnd(log, link, releases) ==
    Least({log[link].lease_until} \cup
          {log[r].ts : r \in {s \in releases : \A t \in releases : s <= t}})

EndOfLink(log, offset, link) == LinkEnd(log, link, Releases(log, offset, link))

LeaseEnd(log, referent, offset, h) ==
    EndOfLink(log, offset, CurrentLink(log, referent, offset, h))

Runs(log, referent, offset, h, when) ==
    log[h].ts <= when /\ when < LeaseEnd(log, referent, offset, h)

\* Those of heads that no earlier one among them keeps out; <<g, h>> is in blocks
\* when g, if it is a hold at all, keeps h out.
Unblocked(heads, blocks) ==
    LET ok[h \in heads] == \A g \in heads : g < h /\ ok[g] => <<g, h>> \notin blocks
    IN  {h \in heads : ok[h]}

\* Two slips: every head is a hold; a lease still runs at the tick it ends.
AdmissibleUnchecked(log, referent, offset) == Heads(log, referent, offset)

AdmissibleInclusive(log, referent, offset) ==
    LET heads == Heads(log, referent, offset)
    IN  Unblocked(heads, {p \in heads \X heads :
            /\ log[p[1]].ts <= log[p[2]].ts
            /\ log[p[2]].ts <= LeaseEnd(log, referent, offset, p[1])})

\* The heads that no earlier admissible hold was still running against.
Admissible(log, referent, offset) ==
    LET heads == Heads(log, referent, offset)
    IN  Unblocked(heads, {p \in heads \X heads :
            Runs(log, referent, offset, p[1], log[p[2]].ts)})

LiveAt(log, referent, offset, when) ==
    {h \in Admissible(log, referent, offset) : Runs(log, referent, offset, h, when)}

NoHold == 0

Foremost(holds) == IF holds = {} THEN NoHold ELSE Least(holds)

\* live_holder: the first live hold in head order, if any.
LiveHolder(log, referent, offset, when) == Foremost(LiveAt(log, referent, offset, when))

=============================================================================
