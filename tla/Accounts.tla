-------------------------------- MODULE Accounts --------------------------------
(***************************************************************************)
(* Who is on the board and what they may store there: the registry of      *)
(* bands, tokens and invites (store.py; api.py: invite, identity,          *)
(* rotate_identity) and the blob store (blobstore.py; api.py: post_blob,   *)
(* get_blob, and post for a note that carries a pointer of its own).  The  *)
(* registry's handlers run on worker threads, one SQL statement under the  *)
(* store's lock at a time; an upload runs on the event loop, whose only    *)
(* suspension is the wait for its body.  The process may crash between any *)
(* two steps; what was committed survives.                                 *)
(***************************************************************************)
EXTENDS Integers, Sequences, FiniteSetsExt

CONSTANTS
    Thread,           \* worker threads
    Display,          \* display names
    Sha,              \* digests of the contents clients upload
    Size,             \* the size of each content
    MaxBlob,          \* MAX_BLOB_BYTES
    MaxDaily,         \* MAX_DAILY_BYTES
    Day,              \* the trailing window of the daily budget, in ticks
    SecondTicks,      \* ticks of the clock in a second, the unit of the log's ts
    NoInvite,         \* the invite of a band minted by an authenticated caller
    MaxBands, MaxInvites, MaxUses, MaxTokens, MaxAnchors, MaxTime   \* bounds

ASSUME AccountsAssumption ==
    /\ IsFiniteSet(Thread) /\ NoInvite \notin Nat
    /\ Size \in [Sha -> Nat]
    /\ {MaxBlob, MaxDaily, Day, MaxTime} \subseteq Nat /\ SecondTicks \in Nat \ {0}
    /\ {MaxBands, MaxInvites, MaxUses, MaxTokens, MaxAnchors} \subseteq Nat

VARIABLES
    bands,            \* the identities table, in the order of the mints
    invites,          \* the invites table
    humans,           \* the bands that hold a human grant in force
    tokens,           \* the number of tokens issued so far
    request,          \* what each worker thread is doing
    blobs,            \* the digests in the blobs table
    anchors,          \* the notes of the artifacts nest that point into the store
    upload,           \* the upload the event loop is in the middle of
    now               \* the wall clock

vars == <<bands, invites, humans, tokens, request, blobs, anchors, upload, now>>

Idle == [step |-> "idle"]

\* A band's token authenticates it; by is the band that authorised the mint, and
\* via the invite that was spent on it.
BandRow == [display : Display, token : Nat, by : Nat, via : Nat \cup {NoInvite}]

InviteRow == [issued : 1..MaxUses, left : Nat, expires : Nat, by : Nat]

\* Bytes is what the note's pointer says, ts what the log says of its time; at and by
\* are not on the log: the clock when it was written, and the handler that wrote it.
Anchor == [sha : Sha, bytes : Nat, band : Nat, ts : Nat, at : Nat, by : {"upload", "post"}]

TypeOK ==
    /\ bands \in Seq(BandRow) /\ Len(bands) <= MaxBands + Cardinality(Thread)
    /\ invites \in Seq(InviteRow) /\ Len(invites) <= MaxInvites
    /\ humans \subseteq DOMAIN bands /\ tokens \in 0..MaxTokens
    /\ blobs \subseteq Sha /\ anchors \in Seq(Anchor) /\ now \in 0..MaxTime
    /\ upload = Idle \/ (upload.sha \in Sha /\ upload.band \in DOMAIN bands)

Init ==
    /\ \E d \in Display :
          bands = <<[display |-> d, token |-> 1, by |-> 1, via |-> NoInvite]>>
    /\ invites = << >> /\ humans = {1} /\ tokens = 1
    /\ request = [t \in Thread |-> Idle]
    /\ blobs = {} /\ anchors = << >> /\ upload = Idle /\ now = 0

Registry == <<bands, invites, tokens, request>>

Store == <<blobs, anchors, upload>>

Do(t, what) == request' = [request EXCEPT ![t] = what]

-----------------------------------------------------------------------------
(* Invites.                                                                *)

\* Only a band with a human grant somewhere mints one.
CreateInvite(who, uses, expires) ==
    /\ who \in humans /\ uses >= 1 /\ expires > now /\ Len(invites) < MaxInvites
    /\ invites' = Append(invites, [issued |-> uses, left |-> uses,
                                   expires |-> expires, by |-> who])
    /\ UNCHANGED <<bands, humans, tokens, request, Store, now>>

\* Slip: the use that is left is counted one too late.
SpendableTwice(k) == invites[k].left >= 0 /\ invites[k].expires > now

\* The WHERE of consume_invite's UPDATE.
Spendable(k) == invites[k].left > 0 /\ invites[k].expires > now

\* The check and the decrement are one statement; the mint goes on as the inviter.
ConsumeInvite(t, k, display) ==
    /\ request[t] = Idle /\ Len(bands) < MaxBands
    /\ Spendable(k)
    /\ invites' = [invites EXCEPT ![k].left = @ - 1]
    /\ Do(t, [step |-> "naming", display |-> display, by |-> invites[k].by, via |-> k])
    /\ UNCHANGED <<bands, humans, tokens, Store, now>>

-----------------------------------------------------------------------------
(* Minting a band.                                                         *)

StartMint(t, who, display) ==
    /\ request[t] = Idle /\ Len(bands) < MaxBands
    /\ Do(t, [step |-> "naming", display |-> display, by |-> who, via |-> NoInvite])
    /\ UNCHANGED <<bands, invites, humans, tokens, Store, now>>

\* display_holder: a name that is carried is refused, and an invite stays spent.
CheckDisplay(t) ==
    /\ request[t].step = "naming"
    /\ Do(t, IF \E b \in DOMAIN bands : bands[b].display = request[t].display
             THEN Idle ELSE [request[t] EXCEPT !.step = "minting"])
    /\ UNCHANGED <<bands, invites, humans, tokens, Store, now>>

\* create_identity, a statement of its own: the name is not looked at again.
CreateIdentity(t) ==
    /\ request[t].step = "minting" /\ tokens < MaxTokens
    /\ bands' = Append(bands, [display |-> request[t].display, token |-> tokens + 1,
                               by |-> request[t].by, via |-> request[t].via])
    /\ tokens' = tokens + 1
    /\ Do(t, Idle)
    /\ UNCHANGED <<invites, humans, Store, now>>

-----------------------------------------------------------------------------
(* Rotating a token.                                                       *)

Authenticates(token) == {b \in DOMAIN bands : bands[b].token = token}

MayRotate(who, band) == who = band \/ who \in humans

StartRotate(t, token, band) ==
    /\ request[t] = Idle
    /\ \E who \in Authenticates(token) :
          /\ MayRotate(who, band)
          /\ Do(t, [step |-> "rotating", band |-> band, by |-> who])
    /\ UNCHANGED <<bands, invites, humans, tokens, Store, now>>

Rotate(t) ==
    /\ request[t].step = "rotating" /\ tokens < MaxTokens
    /\ bands' = [bands EXCEPT ![request[t].band].token = tokens + 1]
    /\ tokens' = tokens + 1
    /\ Do(t, Idle)
    /\ UNCHANGED <<invites, humans, Store, now>>

\* A policy that grants or withdraws a human band comes into force meanwhile.
ChangeHumans(band) ==
    /\ humans' = IF band \in humans THEN humans \ {band} ELSE humans \cup {band}
    /\ 1 \in humans'
    /\ UNCHANGED <<Registry, Store, now>>

-----------------------------------------------------------------------------
(* Blobs.                                                                  *)

\* The log's ts is the clock, cut down to whole seconds.
Truncate(t) == t - (t % SecondTicks)

BytesOf(notes, ids) == MapThenSumSet(LAMBDA k : notes[k].bytes, ids)

\* Slip: the budget covers what the band anchored this very moment.
DailyUsageNow(band) ==
    BytesOf(anchors, {k \in DOMAIN anchors : anchors[k].band = band /\ anchors[k].ts >= now})

\* What the band's own anchors of the trailing day say they hold, by the wall clock.
DailyUsage(band) ==
    BytesOf(anchors,
            {k \in DOMAIN anchors : anchors[k].band = band /\ anchors[k].ts >= now - Day})

Fits(band, sha) ==
    Size[sha] \in 1..MaxBlob /\ DailyUsage(band) + Size[sha] <= MaxDaily

Note(band, sha, bytes, handler) ==
    [sha |-> sha, bytes |-> bytes, band |-> band, ts |-> Truncate(now), at |-> now,
     by |-> handler]

\* Slip: the anchor is written first and the content after it.
AnchorFirst(band, sha) ==
    /\ anchors' = Append(anchors, Note(band, sha, Size[sha], "upload"))
    /\ UNCHANGED blobs

\* The body has arrived: from here to the anchor nothing else runs on the loop.
PutBlob(band, sha) == blobs' = blobs \cup {sha} /\ UNCHANGED anchors

StoreBlob(band, sha) ==
    /\ upload = Idle /\ Len(anchors) < MaxAnchors
    /\ Fits(band, sha)
    /\ PutBlob(band, sha)
    /\ upload' = [step |-> "anchoring", band |-> band, sha |-> sha]
    /\ UNCHANGED <<Registry, humans, now>>

\* Every upload gets an anchor of its own, also of bytes the store holds already.
PostAnchor ==
    /\ upload # Idle
    /\ anchors' = Append(anchors, Note(upload.band, upload.sha, Size[upload.sha], "upload"))
    /\ upload' = Idle
    /\ UNCHANGED <<Registry, humans, blobs, now>>

\* board.append may refuse the note, and the bytes stay without one.
RefuseAnchor ==
    /\ upload # Idle
    /\ upload' = Idle
    /\ UNCHANGED <<Registry, humans, blobs, anchors, now>>

\* A plain post of a note with a pointer of its own: neither the digest nor the bytes
\* it names are looked up, and anchors_for and daily_usage take it for an anchor.
PostPointer(band, sha, bytes) ==
    /\ upload = Idle /\ Len(anchors) < MaxAnchors
    /\ anchors' = Append(anchors, Note(band, sha, bytes, "post"))
    /\ UNCHANGED <<Registry, humans, blobs, upload, now>>

-----------------------------------------------------------------------------
Crash ==
    /\ request' = [t \in Thread |-> Idle] /\ upload' = Idle
    /\ UNCHANGED <<bands, invites, humans, tokens, blobs, anchors, now>>

Tick ==
    /\ now < MaxTime
    /\ now' = now + 1
    /\ UNCHANGED <<Registry, humans, Store>>

Next ==
    \/ \E who \in DOMAIN bands, uses \in 1..MaxUses, expires \in 1..MaxTime :
          CreateInvite(who, uses, expires)
    \/ \E t \in Thread, d \in Display :
          \/ \E k \in DOMAIN invites : ConsumeInvite(t, k, d)
          \/ \E who \in DOMAIN bands : StartMint(t, who, d)
    \/ \E t \in Thread : CheckDisplay(t) \/ CreateIdentity(t) \/ Rotate(t)
    \/ \E t \in Thread, token \in 1..tokens, band \in DOMAIN bands :
          StartRotate(t, token, band)
    \/ \E band \in DOMAIN bands : ChangeHumans(band)
    \/ \E band \in DOMAIN bands, sha \in Sha :
          \/ StoreBlob(band, sha)
          \/ \E bytes \in 0..MaxBlob : PostPointer(band, sha, bytes)
    \/ PostAnchor \/ RefuseAnchor \/ Crash \/ Tick

Spec == Init /\ [][Next]_vars

-----------------------------------------------------------------------------
\* An invite mints no more bands than it was issued for, whatever threads present
\* it at once, and a band minted with it is put down to the band that issued it
\* (store.py:365-409 "The check and the decrement are one statement").
EveryMintIsVouchedFor ==
    /\ \A k \in DOMAIN invites :
          invites[k].left + Cardinality({b \in DOMAIN bands : bands[b].via = k})
              \in 0..invites[k].issued
    /\ \A b \in DOMAIN bands :
          /\ bands[b].by \in 1..b
          /\ bands[b].via # NoInvite => bands[b].by = invites[bands[b].via].by

\* The anchors that a band's uploads left in a stretch of time.
Uploads(b, from, to) ==
    {k \in DOMAIN anchors : /\ anchors[k].band = b /\ anchors[k].by = "upload"
                            /\ anchors[k].at \in from..to}

\* A band uploads no more than its budget in any stretch that falls short of a day by
\* the fraction of a second a ts has lost, also where the clock moves between the
\* check and the anchor and whatever pointers the band posts by hand: those count
\* against it and are not held to it (api.py:622-629, blobstore.py:81-93, store.py:147).
UploadsKeepTheBudget ==
    \A b \in DOMAIN bands, t \in 0..now :
        BytesOf(anchors, Uploads(b, t - Day + SecondTicks - 1, t)) <= MaxDaily

\* The anchor of an upload points at bytes the store holds, also after a crash in the
\* middle of it (api.py:631-641: the bytes first, the anchor after them).  A pointer
\* posted by hand may name bytes that nobody uploaded.
EveryUploadHasItsBytes ==
    \A k \in DOMAIN anchors : anchors[k].by = "upload" => anchors[k].sha \in blobs

=============================================================================
