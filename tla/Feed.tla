--------------------------------- MODULE Feed ---------------------------------
(***************************************************************************)
(* feed.py: the lanes on which an envelope reaches an identity, and what a *)
(* subscription or a mention may name when it is posted.  A feed is read   *)
(* from the log its reader may see, so every operator takes that set of    *)
(* envelopes, seen, and not the whole log.                                 *)
(***************************************************************************)
EXTENDS Access

SubscriptionsNs == <<"korax", "subscriptions">>

PrivateRoots == {<<"dm">>, <<"scratch">>}

MailboxNs(who) == <<"dm", who>>

\* Both spellings of a namespace, its root and root/**, select the subtree.
NsSelects(root, ns) == InSubtree(root, ns)

Authored(log, seen, who) == {i \in seen : log[i].author = who}

\* What who has claimed or delivered.
Worked(log, seen, who) ==
    UNION {RefsOf(log[i], edge) : i \in Authored(log, seen, who), edge \in {"claims", "closes"}}

\* One hop: everything an envelope of who points at.
Descended(log, seen, who) == UNION {{r.id : r \in log[i].refs} : i \in Authored(log, seen, who)}

-----------------------------------------------------------------------------
(* Subscriptions.                                                           *)

Declared(log, seen, who) ==
    {i \in Authored(log, seen, who) :
        /\ log[i].type = "SUBSCRIBE" /\ InSubtree(SubscriptionsNs, log[i].ns)
        /\ log[i].ext.select # NoSelector}

\* A slip: a subscription reaches back over what was posted before it.
InWindowRetroactive(log, seen, who, sub, i) ==
    \A k \in Inbound(log, sub, "supersedes", HeadOf(log)) \cap Authored(log, seen, who) : i < k

\* A subscription holds from its own offset until its author supersedes it.
InWindow(log, seen, who, sub, i) ==
    /\ i >= sub
    /\ \A k \in Inbound(log, sub, "supersedes", HeadOf(log)) \cap Authored(log, seen, who) : i < k

Selects(log, seen, who, sub, i) ==
    LET select == log[sub].ext.select IN
    /\ InWindow(log, seen, who, sub, i)
    /\ select.type \in {AnyAct, log[i].type}
    /\ CASE select.lane = "ns"      -> NsSelects(select.ns, log[i].ns)
         [] select.lane = "author"  -> log[i].author = select.author
         [] select.lane = "type"    -> select.type # AnyAct
         [] select.lane = "descent" ->
              \E r \in log[i].refs : r.id \in Descended(log, seen, who)

-----------------------------------------------------------------------------
(* reasons_for and in_feed, for a reader that does not ask for its own      *)
(* envelopes.                                                               *)

SubscriptionReasons(log, seen, who, i) ==
    {[lane |-> IF log[s].ext.select.lane = "descent" THEN "descent" ELSE "subscription",
      via |-> s] : s \in {t \in Declared(log, seen, who) : Selects(log, seen, who, t, i)}}

Lanes(log, seen, who, i) ==
    LET edges == {r.id : r \in log[i].refs}
        on(lane, condition) == {l \in {lane} : condition}
    IN  on("to_author", edges \cap Authored(log, seen, who) # {})
        \cup on("to_worked", edges \cap Worked(log, seen, who) # {})
        \cup on("mention", who \in log[i].ext.mentions)
        \cup {r.lane : r \in SubscriptionReasons(log, seen, who, i)}

\* Only the mailbox lane carries an identity's own envelopes.
ReasonsFor(log, seen, who, i) ==
    {l \in {"mailbox"} : InSubtree(MailboxNs(who), log[i].ns)}
    \cup IF log[i].author = who THEN {} ELSE Lanes(log, seen, who, i)

InFeed(log, seen, who, since) ==
    {i \in seen : i > since /\ ReasonsFor(log, seen, who, i) # {}}

-----------------------------------------------------------------------------
(* The checks at post time.                                                 *)

Overlaps(select, root) ==
    IF select.glob THEN SubtreesOverlap(select.ns, root) ELSE InSubtree(root, select.ns)

\* A selector names its poster's own private room, or a namespace it holds a
\* band in; a glob over somebody's private room is refused.
SelectorOK(entries, who, select, offset) ==
    /\ select.lane \in Lane
    /\ select.lane = "author" => select.author # Everyone
    /\ select.lane = "type" => select.type # AnyAct
    /\ select.lane = "ns" =>
          LET rooms == {root \in PrivateRoots : Overlaps(select, root)} IN
          IF rooms # {} THEN \E root \in rooms : select.ns = Append(root, who)
          ELSE EffectiveBand(entries, who, select.ns, offset) # NoBand

SubscribeOK(entries, d, offset) ==
    d.type = "SUBSCRIBE" =>
        /\ InSubtree(SubscriptionsNs, d.ns)
        /\ d.ext.select # NoSelector
        /\ SelectorOK(entries, d.author, d.ext.select, offset)

\* A slip: a mention is checked for being a band, not for being able to follow it.
MentionKnown(entries, ns, who, offset) == who \in Identity

\* A mention names a band of the board that may read the namespace: its own
\* private room, or a public one it holds a band in.
MentionOK(entries, ns, who, offset) ==
    /\ who \in Identity
    /\ \/ \E root \in PrivateRoots : InSubtree(Append(root, who), ns)
       \/ /\ \A root \in PrivateRoots : ~InSubtree(root, ns)
          /\ EffectiveBand(entries, who, ns, offset) # NoBand

\* private_room_refusal: a mailbox or a scratch room belongs to a band.
RoomIsOwned(ns) == InScratch(ns) \/ InMailbox(ns) => ns[2] \in Identity

Reachable(entries, d, offset) ==
    /\ SubscribeOK(entries, d, offset)
    /\ RoomIsOwned(d.ns)
    /\ \A who \in d.ext.mentions : MentionOK(entries, d.ns, who, offset)

=============================================================================
