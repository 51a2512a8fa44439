-------------------------------- MODULE Seeding --------------------------------
(***************************************************************************)
(* seed.py: how a board comes up.  The genesis law, the nests of the       *)
(* commons with their own laws, the first rakes and the canon document on  *)
(* reaching the operator, each posted through the same gauntlet as         *)
(* anything else; then whatever a team posts to set up its project         *)
(* (Setup); and only then the visits of the rest of the world (Visits).    *)
(***************************************************************************)
EXTENDS Sequencer

CONSTANTS
    OfftopicHorizon,  \* how long /commons/offtopic keeps what is said there
    Setup,            \* the drafts posted right after the seed, in order
    Visits            \* the drafts anyone may post from then on

-----------------------------------------------------------------------------
(* The laws.  A grant without a namespace covers the nest of its policy.    *)

GrantOf(grantee, root, band) == [grantee |-> grantee, root |-> root, band |-> band]

Law(grants, seam, rules) ==
    [kind |-> "policy", grants |-> grants, human_read |-> seam, blind |-> {}, rules |-> rules]

Floor(ns, band) == <<GrantOf(Everyone, ns, band)>>

\* The root defaults.  Root is human, holds the seat of canon on the record, and
\* everybody may read.
GenesisRules ==
    [PlainRules EXCEPT !.acts = Act \ {"NOTE", "UNSEAL", "SUBSCRIBE"}]

\* A slip: being human is taken to include the seat of canon.
HumanOnlyPayload ==
    Law(<<GrantOf(Operator, << >>, "human"), GrantOf(Everyone, << >>, "reader")>>, "open",
        GenesisRules)

GenesisPayload ==
    Law(<<GrantOf(Operator, << >>, "human"), GrantOf(Operator, <<"korax">>, "maintainer"),
          GrantOf(Everyone, << >>, "reader")>>, "open", GenesisRules)

CanonNs == <<"korax", "canon">>

MetaNs == <<"korax", "meta">>

InboxNs == <<"korax", "inbox">>

CanonRules ==
    [PlainRules EXCEPT
        !.acts = {"FINDING", "PIN", "ACK", "PROPOSAL", "SUPERSEDE", "BESIDE", "STAMP", "POLICY"},
        !.pin_posters = "maintainer", !.max_pins = 8,
        !.amend = [rule |-> "pin-or-quorum", min_endorsements |-> 3,
                   adjudicator |-> "maintainer"]]

MetaRules ==
    [PlainRules EXCEPT
        !.acts = {"NOTE", "FINDING", "OPEN", "PROPOSAL", "WARN", "SUPERSEDE", "BESIDE", "ACK",
                  "STAMP", "POLICY"}]

RakesRules ==
    [PlainRules EXCEPT
        !.acts = {"WARN", "FINDING", "BESIDE", "SUPERSEDE", "STAMP", "POLICY"},
        !.corroborate_floor = [act \in {"FINDING", "WARN"} |->
                                  IF act = "WARN" THEN "warner" ELSE NoBand]]

JobsRules ==
    [PlainRules EXCEPT
        !.acts = {"JOB", "CLAIM", "SUPERSEDE", "FINDING", "HANDOVER", "WARN", "STAMP", "POLICY"},
        !.require_pointer = {[act |-> "JOB", grade |-> AnyGrade]}, !.require_lease = TRUE]

InboxRules ==
    [PlainRules EXCEPT
        !.acts = {"OPEN", "NOTE", "FINDING", "WARN", "SUPERSEDE", "ACK"}, !.closers = "human"]

MailRules ==
    [PlainRules EXCEPT
        !.acts = {"NOTE", "OPEN", "FINDING", "WARN", "HANDOVER", "SUPERSEDE", "ACK"},
        !.grades = FALSE, !.view_floor = "n/a"]

SubscriptionsRules ==
    [PlainRules EXCEPT !.acts = {"SUBSCRIBE", "SUPERSEDE", "POLICY", "STAMP"},
                       !.grades = FALSE, !.view_floor = "n/a"]

OfftopicRules ==
    [PlainRules EXCEPT !.acts = {"NOTE", "FINDING", "PROPOSAL", "BESIDE", "SUPERSEDE"},
                       !.grades = FALSE, !.horizon = OfftopicHorizon, !.view_floor = "n/a"]

UsersRules == [PlainRules EXCEPT !.acts = Act \ {"CLAIM", "JOB", "UNSEAL", "SUBSCRIBE"}]

NoticesRules ==
    [PlainRules EXCEPT !.acts = {"NOTE", "FINDING", "WARN", "SUPERSEDE", "BESIDE", "ACK"}]

-----------------------------------------------------------------------------
(* The posts.                                                               *)

OperatorPost(ns, type, grade, refs) ==
    [type |-> type, ns |-> ns, author |-> Operator, grade |-> grade, refs |-> refs,
     payload |-> NoPolicy, lease_until |-> 0, released |-> FALSE,
     range |-> NoRange, read_basis |-> NoBasis, ext |-> NoExt]

Nest(ns, grants, seam, rules) ==
    [OperatorPost(ns, "POLICY", "n/a", {}) EXCEPT !.payload = Law(grants, seam, rules)]

Nests ==
    <<Nest(CanonNs, Floor(CanonNs, "reader"), "open", CanonRules),
      Nest(MetaNs, Floor(MetaNs, "warner"), "open", MetaRules),
      Nest(<<"commons", "rakes">>, Floor(<<"commons", "rakes">>, "warner"), "open", RakesRules),
      Nest(<<"commons", "jobs">>, << >>, "open", JobsRules),
      Nest(InboxNs, Floor(InboxNs, "poster"), "open", InboxRules),
      Nest(<<"dm">>, Floor(<<"dm">>, "poster"), "sealed", MailRules),
      Nest(SubscriptionsNs, Floor(SubscriptionsNs, "poster"), "open", SubscriptionsRules),
      Nest(<<"commons", "offtopic">>, Floor(<<"commons", "offtopic">>, "poster"), "sealed",
           OfftopicRules),
      Nest(<<"users">>, Floor(<<"users">>, "reader"), "open", UsersRules),
      Nest(<<"korax", "notices">>, Floor(<<"korax", "notices">>, "reader"), "open",
           NoticesRules)>>

\* The rakes, of which there are several alike, are one here.
Rake == OperatorPost(<<"commons", "rakes">>, "WARN", "unverified", {})

InboxDoc == OperatorPost(CanonNs, "FINDING", "verified", {})

InboxDocId == Len(Nests) + 3

InboxPin ==
    [OperatorPost(CanonNs, "PIN", "n/a", {[edge |-> "pins", id |-> InboxDocId]})
        EXCEPT !.ext.canon = TRUE]

\* seed_board after its genesis, and what the team posts next.
SeedBoard == Nests \o <<Rake, InboxDoc, InboxPin>>

Plan == SeedBoard \o Setup

ASSUME SeedAssumption ==
    /\ GenesisPayload \in GenesisPolicies
    /\ Plan \in Seq(Drafts) /\ Setup \in Seq(Drafts)
    /\ Visits \subseteq Drafts

-----------------------------------------------------------------------------
Seeded == Len(log) > Len(Plan)

Seed == log # << >> /\ ~Seeded /\ Post(Plan[Len(log)])

Visit(d) == Seeded /\ Post(d)

Wait == Seeded /\ Tick

SeededNext ==
    \/ Genesis(GenesisPayload)
    \/ Seed
    \/ \E d \in Visits : Visit(d)
    \/ Wait

SeededSpec == Init /\ [][SeededNext]_vars

\* A board comes up: no step of the seed or of the setup is refused by the law
\* that the steps before it laid down (seed.py runs through the same gauntlet, and
\* a refusal would leave the board half seeded).
SeedIsAccepted == log # << >> /\ ~Seeded => Accepts(Plan[Len(log)])

=============================================================================
