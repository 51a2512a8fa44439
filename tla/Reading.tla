--------------------------------- MODULE Reading ---------------------------------
(***************************************************************************)
(* Who gets to read what, over the life of a board: the visibility rules   *)
(* of access.py while envelopes, policies, rounds and looks keep arriving. *)
(***************************************************************************)
EXTENDS Sequencer

VisibleNow(reader) == Visible(log, entries, reader, HeadOf(log))

BandAt(reader, i, head) == EffectiveBand(entries, reader, log[i].ns, head)

\* While the law stands, no later envelope takes back what a reader could read:
\* a blind lifts irreversibly (access.py:99-101), a look stays a look, and an
\* envelope's audience was fixed when it was posted.
NothingIsTakenBack ==
    [][\A reader \in Identity :
          entries' = entries => VisibleNow(reader) \subseteq VisibleNow(reader)']_vars

\* Sealed words that a person can read without being a party to them.
Overheard(reader) ==
    {i \in VisibleNow(reader) :
        /\ HoldsHumanAnywhere(entries, reader, HeadOf(log))
        /\ log[i].type \notin SeamExemptActs
        /\ SealedAtPost(entries, log, i) \/ PrivateRoom(log[i], reader)
        /\ ~Participant(log[i], reader)}

\* Every such reading has its look on the record, by that person, in that
\* namespace, and posted after the words were: no look was ever standing open
\* over what had not been written yet (protocol 8.7.3).
LooksAreOnRecord ==
    \A reader \in Identity : \A i \in Overheard(reader) :
        \E u \in DOMAIN log :
            /\ u > i
            /\ log[u].type = "UNSEAL" /\ log[u].author = reader
            /\ log[u].ns = log[i].ns

\* k is its author's first answer of its kind to the round r.
FirstAnswer(k, r) ==
    r \in Rounds(log, k) /\ ~PostedInto(log, r, log[k].type, log[k].author, k - 1)

\* What the board served when its log had h envelopes, under the law it had then.
Served(who, h) ==
    LET then == SubSeq(log, 1, h) IN Visible(then, EntriesOf(then), who, h)

\* Whoever gives a first answer to a round that is still open was never served a
\* blind answer of others to it, at any moment since that was posted at which it
\* was below desk: whatever policies (also one that lifts the blindness), stamps,
\* looks and other posts came in between (protocol 8.3).
BlindVotesAreIndependent ==
    \A k \in DOMAIN log : \A r \in Rounds(log, k) :
        FirstAnswer(k, r) /\ ~RoundClosed(log, r, k - 1) =>
            \A i \in 1..(k - 1) :
                /\ r \in Rounds(log, i)
                /\ log[i].type = log[k].type
                /\ log[i].type \in PolicyAt(entries, log[i].ns, i).blind
                /\ log[i].author # log[k].author
                => \A h \in i..(k - 1) :
                      BandAt(log[k].author, i, h) \in {"reader", "poster", "warner", "claimant"}
                          => i \notin Served(log[k].author, h)

\* Words that a band of the board is shut out from whoever names it: a person from
\* what is sealed, everybody from an answer given blind.
ShutOut(who, k) ==
    \/ HoldsHumanAnywhere(entries, who, k) /\ SealedAtPost(entries, log, k)
    \/ log[k].type \in PolicyAt(entries, log[k].ns, k).blind

\* The gate does not look into a band's own room: it takes the band to read what is
\* there by participation (feed.py:511-512), although access.py gives nobody a room
\* without a grant in it, and in scratch only what lies below /scratch/who.
OwnRoom(who, ns) == \E root \in PrivateRoots : InSubtree(Append(root, who), ns)

LockedOut(who, k) ==
    /\ OwnRoom(who, log[k].ns)
    /\ BandAt(who, k, k) = NoBand \/ log[k].ns = <<"scratch", who>>

\* The gate judges by the law before the envelope: a policy comes into force with it.
BringsLaw(k) == \E e \in entries : e.effective_at = k

\* A mention the server accepts is one that arrives: the band it names can read the
\* envelope and finds it on the mention lane of its feed (feed.py:461-522 against
\* access.py and reasons_for), or is shut out by the seam or by a blind round; but
\* for the three cases in which the gate and the reader ask different questions.
MentionsArrive ==
    \A k \in DOMAIN log : \A who \in log[k].ext.mentions \ {log[k].author} :
        LET seen == Visible(log, entries, who, k) IN
        \/ ShutOut(who, k) \/ LockedOut(who, k) \/ BringsLaw(k)
        \/ k \in seen /\ "mention" \in ReasonsFor(log, seen, who, k)

=============================================================================
