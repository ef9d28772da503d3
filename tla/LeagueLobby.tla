------------------------------ MODULE LeagueLobby ------------------------------
(***************************************************************************)
(* A league from lobby to season: members join and are removed             *)
(* (leagues/actions.ts), the order is rolled or set by hand                *)
(* (leagues/draft-setup.ts), the draft starts, finishes or is thrown away  *)
(* (drafts/actions.ts, drafts/pipeline.ts), the league is deleted, and     *)
(* every page that shows it repairs its status from the draft              *)
(* (reconcileLeagueStatus, drafts/repair.ts).                              *)
(*                                                                         *)
(* One manager, whose calls may die between two requests; what a call read *)
(* at its start it uses to its end.  A draft is one round of picks.        *)
(***************************************************************************)
EXTENDS DraftEngine, SequencesExt

CONSTANTS
  Users, Founders,      \* who may be a member, and who is at the start
  MaxMembersAllowed,    \* the league's capacity
  Seeds,                \* positive numbers a roll may draw
  DrawsOf,              \* the numbers each seed draws
  MaxMishaps            \* calls that die and writes that are refused

VARIABLES
  league,     \* "setup", "drafting", "season", or "gone" once deleted
  members,    \* member to draft_position, 0 while unset
  seed,       \* settings.roll_seed, 0 while there is none
  draft,      \* the newest draft
  roster,     \* members with materialized membership windows
  call,       \* what the manager's call is doing
  joining,    \* users between joinLeague's check and its create
  finishing,  \* the last pick's finish
  page,       \* a render between its read and its repair
  mishaps

lobbyVars == <<league, members, seed, draft, roster, call, joining, finishing, page,
               mishaps>>

NoDraft == [status |-> "none", order |-> <<>>, picks |-> 0]
NoCall  == [pc |-> "idle", order |-> <<>>, at |-> 1, league |-> "setup", then |-> "idle"]
NoFinish == [pc |-> "idle", todo |-> {}, thrown |-> FALSE]   \* thrown: its draft was deleted
NoPage  == [pc |-> "idle", should |-> "setup"]

LobbyInit ==
  /\ league = "setup" /\ members = [m \in Founders |-> 0] /\ seed = 0
  /\ draft = NoDraft /\ roster = {}
  /\ call = NoCall /\ joining = {} /\ finishing = NoFinish /\ page = NoPage
  /\ mishaps = 0

Others == <<joining, finishing, page>>
Begin(pc) == call' = [NoCall EXCEPT !.pc = pc, !.league = league]
Then(pc)  == call' = IF pc = "idle" THEN NoCall
                     ELSE [NoCall EXCEPT !.pc = pc, !.league = call.league, !.then = call.then]

-----------------------------------------------------------------------------
(* The order: rollDraftOrder, reshuffleDraftOrder, setManualOrder *)

InSetup == call.pc = "idle" /\ league = "setup"

Rolled(drawn) == RollOrder(SetToSortSeq(DOMAIN members, <), DrawsOf[drawn])

WriteOrder(order, after) ==
  call' = [NoCall EXCEPT !.pc = "position", !.order = order, !.then = after]

(* A stored seed is applied again; only a league without one draws. *)
RollDraftOrder ==
  /\ InSetup /\ Cardinality(DOMAIN members) >= 2
  /\ \E drawn \in Seeds :
       /\ seed # 0 => drawn = seed
       /\ seed' = drawn
       /\ WriteOrder(Rolled(drawn), "idle")
  /\ UNCHANGED <<league, members, draft, roster, Others, mishaps>>

ReshuffleDraftOrder ==
  /\ InSetup /\ Cardinality(DOMAIN members) >= 2
  /\ \E drawn \in Seeds : /\ seed' = drawn
                          /\ WriteOrder(Rolled(drawn), "idle")
  /\ UNCHANGED <<league, members, draft, roster, Others, mishaps>>

SetManualOrder ==
  /\ InSetup
  /\ \E order \in SetToSeqs(DOMAIN members) : WriteOrder(order, IF seed = 0 THEN "idle" ELSE "unseed")
  /\ UNCHANGED <<league, members, seed, draft, roster, Others, mishaps>>

(* writePositions: one member at a time, a refused one skipped. *)
WritePosition ==
  /\ call.pc = "position" /\ call.at <= Len(call.order)
  /\ LET m == call.order[call.at]
     IN  \/ m \in DOMAIN members /\ members' = [members EXCEPT ![m] = call.at] /\ UNCHANGED mishaps
         \/ mishaps < MaxMishaps /\ mishaps' = mishaps + 1 /\ UNCHANGED members
  /\ call' = [call EXCEPT !.at = @ + 1]
  /\ UNCHANGED <<league, seed, draft, roster, Others>>

PositionsWritten ==
  /\ call.pc = "position" /\ call.at > Len(call.order)
  /\ Then(call.then)
  /\ UNCHANGED <<league, members, seed, draft, roster, Others, mishaps>>

ClearSeed ==
  /\ call.pc = "unseed" /\ seed' = 0 /\ Then("idle")
  /\ UNCHANGED <<league, members, draft, roster, Others, mishaps>>

-----------------------------------------------------------------------------
(* Members: joinLeague, kickMember *)

ReadLobby(user) ==
  /\ user \notin DOMAIN members \cup joining
  /\ league = "setup" /\ Cardinality(DOMAIN members) < MaxMembersAllowed
  /\ joining' = joining \cup {user}
  /\ UNCHANGED <<league, members, seed, draft, roster, call, finishing, page, mishaps>>

Join(user) ==
  /\ user \in joining /\ joining' = joining \ {user}
  /\ members' = IF league = "gone" THEN members ELSE members @@ (user :> 0)
  /\ UNCHANGED <<league, seed, draft, roster, call, finishing, page, mishaps>>

(* Refused by the database while a pick or a window names the member. *)
KickMember ==
  /\ InSetup
  /\ \E m \in DOMAIN members :
       /\ m \notin roster /\ m \notin {draft.order[i] : i \in 1..draft.picks}
       /\ members' = [n \in DOMAIN members \ {m} |-> members[n]]
  /\ UNCHANGED <<league, seed, draft, roster, call, Others, mishaps>>

-----------------------------------------------------------------------------
(* startDraft, the picks, the finish *)

ByPosition == SetToSortSeq(DOMAIN members, LAMBDA m, n : members[m] < members[n]
                                              \/ (members[m] = members[n] /\ m < n))

StartDraft ==
  /\ call.pc = "idle" /\ league \in {"setup", "drafting"}
  /\ \/ draft.status = "live" /\ Begin("drafting")
     \/ /\ draft.status # "live" /\ Cardinality(DOMAIN members) >= 2
        /\ \A m \in DOMAIN members : members[m] # 0
        /\ call' = [NoCall EXCEPT !.pc = "create", !.order = ByPosition, !.league = league]
  /\ UNCHANGED <<league, members, seed, draft, roster, Others, mishaps>>

(* The unfinished-draft index refuses a second one. *)
CreateDraft ==
  /\ call.pc = "create"
  /\ draft' = IF draft.status = "live" THEN draft
              ELSE [status |-> "live", order |-> call.order, picks |-> 0]
  /\ Then("drafting")
  /\ UNCHANGED <<league, members, seed, roster, Others, mishaps>>

MarkDrafting ==
  /\ call.pc = "drafting"
  /\ league' = IF call.league = "drafting" THEN league ELSE "drafting"
  /\ Then("idle")
  /\ UNCHANGED <<members, seed, draft, roster, Others, mishaps>>

(* A pick needs its member. *)
MakePick ==
  /\ draft.status = "live" /\ draft.picks < Len(draft.order)
  /\ draft.order[draft.picks + 1] \in DOMAIN members
  /\ draft' = [draft EXCEPT !.picks = @ + 1]
  /\ UNCHANGED <<league, members, seed, roster, call, Others, mishaps>>

(* The last pick's advance, or the sweep's repair of one that died. *)
FinishBoard ==
  /\ draft.status = "live" /\ draft.picks = Len(draft.order) /\ finishing.pc = "idle"
  /\ finishing' = [NoFinish EXCEPT !.pc = "complete", !.todo = ToSet(draft.order)]
  /\ UNCHANGED <<league, members, seed, draft, roster, call, joining, page, mishaps>>

(* advance's first write, refused once the draft was thrown away. *)
CompleteDraft ==
  /\ finishing.pc = "complete"
  /\ draft' = IF finishing.thrown THEN draft ELSE [draft EXCEPT !.status = "complete"]
  /\ finishing' = IF finishing.thrown THEN NoFinish ELSE [finishing EXCEPT !.pc = "season"]
  /\ UNCHANGED <<league, members, seed, roster, call, joining, page, mishaps>>

(* The league's move to its season; an error is swallowed. *)
MarkSeason ==
  /\ finishing.pc = "season" /\ finishing' = [finishing EXCEPT !.pc = "materialize"]
  /\ \/ league' = (IF league = "gone" THEN league ELSE "season") /\ UNCHANGED mishaps
     \/ mishaps < MaxMishaps /\ mishaps' = mishaps + 1 /\ UNCHANGED league
  /\ UNCHANGED <<members, seed, draft, roster, call, joining, page>>

(* materializeDraftMemberships, a member's windows at a time. *)
Materialize ==
  /\ finishing.pc = "materialize" /\ league # "gone" /\ finishing.todo # {}
  /\ LET m == CHOOSE t \in finishing.todo : TRUE
     IN  /\ roster' = roster \cup {m}
         /\ finishing' = [finishing EXCEPT !.todo = @ \ {m}]
  /\ UNCHANGED <<league, members, seed, draft, call, joining, page, mishaps>>

Materialized ==
  /\ finishing.pc = "materialize" /\ (finishing.todo = {} \/ league = "gone")
  /\ finishing' = NoFinish
  /\ UNCHANGED <<league, members, seed, draft, roster, call, joining, page, mishaps>>

-----------------------------------------------------------------------------
(* resetDraft: windows, draft, status; deleteLeague: windows, draft, league. *)

(* Offered in the draft room, which a league without a draft does not open. *)
ResetDraft ==
  /\ call.pc = "idle" /\ league # "gone" /\ draft.status # "none"
  /\ call' = [NoCall EXCEPT !.pc = "clear", !.then = "setup"]
  /\ UNCHANGED <<league, members, seed, draft, roster, Others, mishaps>>

DeleteLeague ==
  /\ call.pc = "idle" /\ league # "gone"
  /\ call' = [NoCall EXCEPT !.pc = "clear", !.then = "gone"]
  /\ UNCHANGED <<league, members, seed, draft, roster, Others, mishaps>>

ClearMemberships ==
  /\ call.pc = "clear" /\ roster' = {} /\ Then("undraft")
  /\ UNCHANGED <<league, members, seed, draft, Others, mishaps>>

DeleteDrafts ==
  /\ call.pc = "undraft" /\ draft' = NoDraft /\ Then(call.then)
  /\ finishing' = [finishing EXCEPT !.thrown = @ \/ finishing.pc # "idle"]
  /\ UNCHANGED <<league, members, seed, roster, joining, page, mishaps>>

MarkSetup ==
  /\ call.pc = "setup" /\ league' = "setup" /\ Then("idle")
  /\ UNCHANGED <<members, seed, draft, roster, Others, mishaps>>

(* The cascade takes the members, and refuses while a window names one. *)
MarkGone ==
  /\ call.pc = "gone" /\ Then("idle")
  /\ league' = IF roster = {} THEN "gone" ELSE league
  /\ members' = IF roster = {} THEN [m \in {} |-> 0] ELSE members
  /\ draft' = IF roster = {} THEN NoDraft ELSE draft
  /\ UNCHANGED <<seed, roster, Others, mishaps>>

-----------------------------------------------------------------------------
(* reconcileLeagueStatus *)

(* Only a finished board and a running one are told apart. *)
ShouldBeWithoutLobby(status, draftStatus) ==
  IF draftStatus = "none" THEN status
  ELSE IF draftStatus = "complete" THEN "season" ELSE "drafting"

ShouldBe(status, draftStatus) ==
  CASE draftStatus = "complete"                        -> "season"
    [] draftStatus = "live"                            -> "drafting"
    [] draftStatus = "none" /\ status = "drafting"     -> "setup"
    [] draftStatus = "none" /\ status # "drafting"     -> status

ReadPage ==
  /\ page.pc = "idle" /\ league \in {"drafting", "season"}
  /\ ShouldBe(league, draft.status) # league
  /\ page' = [pc |-> "repair", should |-> ShouldBe(league, draft.status)]
  /\ UNCHANGED <<league, members, seed, draft, roster, call, joining, finishing, mishaps>>

RepairPage ==
  /\ page.pc = "repair" /\ page' = NoPage
  /\ league' = IF league = "gone" THEN league ELSE page.should
  /\ UNCHANGED <<members, seed, draft, roster, call, joining, finishing, mishaps>>

-----------------------------------------------------------------------------
CallDies ==
  /\ call.pc # "idle" /\ mishaps < MaxMishaps
  /\ mishaps' = mishaps + 1 /\ call' = NoCall
  /\ UNCHANGED <<league, members, seed, draft, roster, Others>>

FinishDies ==
  /\ finishing.pc # "idle" /\ mishaps < MaxMishaps
  /\ mishaps' = mishaps + 1 /\ finishing' = NoFinish
  /\ UNCHANGED <<league, members, seed, draft, roster, call, joining, page>>

(* controls: the calls the manager uses. *)
ManagerActs(controls) ==
  \/ "roll" \in controls /\ RollDraftOrder
  \/ "reshuffle" \in controls /\ ReshuffleDraftOrder
  \/ "manual" \in controls /\ SetManualOrder
  \/ "kick" \in controls /\ KickMember
  \/ "start" \in controls /\ StartDraft
  \/ "reset" \in controls /\ ResetDraft
  \/ "delete" \in controls /\ DeleteLeague

CallGoesOn ==
  WritePosition \/ PositionsWritten \/ ClearSeed \/ CreateDraft \/ MarkDrafting
    \/ ClearMemberships \/ DeleteDrafts \/ MarkSetup \/ MarkGone

FinishGoesOn == FinishBoard \/ CompleteDraft \/ MarkSeason \/ Materialize \/ Materialized
Render == ReadPage \/ RepairPage

LobbyNext(controls) ==
  \/ ManagerActs(controls) \/ CallGoesOn \/ MakePick \/ FinishGoesOn \/ Render \/ CallDies \/ FinishDies
  \/ \E user \in Users : ReadLobby(user) \/ Join(user)

(* A call that lives goes on, the sweep sweeps, pages are opened. *)
LobbyFairness ==
  WF_lobbyVars(CallGoesOn) /\ WF_lobbyVars(FinishGoesOn) /\ WF_lobbyVars(Render)

-----------------------------------------------------------------------------
LobbyTypeOK ==
  /\ league \in {"setup", "drafting", "season", "gone"} /\ seed \in Seeds \cup {0}
  /\ DOMAIN members \subseteq Users /\ roster \subseteq Users /\ joining \subseteq Users
  /\ draft.status \in {"none", "live", "complete"} /\ draft.picks \in 0..Len(draft.order)

(* The league's status fits its newest draft again and again, though starts,  *)
(* finishes and start-overs write draft and league apart, either write may    *)
(* be the last one its process made, and a page may repair from a draft that  *)
(* changed after it was read.  (A league still in the lobby is left alone,    *)
(* and so is a season without a draft.)                                       *)
Fits ==
  \/ league \in {"setup", "gone"}
  \/ league = "drafting" /\ draft.status = "live"
  \/ league = "season" /\ draft.status \in {"complete", "none"}

StatusHeals == []<>Fits

(* drafts/repair.ts: "A season league with no draft record is not something   *)
(* the app can produce", but for the moment a start-over takes.               *)
SeasonsHaveADraft == []<>(league = "season" => draft.status # "none")
=============================================================================
