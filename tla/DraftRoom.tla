------------------------------- MODULE DraftRoom -------------------------------
(***************************************************************************)
(* One live draft: the drafts and picks records in PocketBase, the league  *)
(* status and the season memberships a finished draft writes, and the      *)
(* processes that read and write them without transactions:                *)
(*                                                                         *)
(*   - Calls: server actions being executed for somebody's browser         *)
(*     (makePick, setDraftPaused, setPickClock, rollbackDraft,             *)
(*     setAutodraft, and the reconcileLeagueStatus of a page render);      *)
(*   - Worker: the sweep of the PM2 worker, one draft, one tick at a time. *)
(*                                                                         *)
(* Every PocketBase request is one step.  What a process read earlier it   *)
(* keeps in hand (seen, hand) and acts on however stale it has become;     *)
(* any process may die between two requests.                               *)
(***************************************************************************)
EXTENDS DraftEngine

CONSTANTS
  Order,          \* drafts.order: the members in drafting order, frozen at start
  Format,         \* drafts.format
  Template,       \* the league's roster template; it also fixes the rounds
  Players,        \* the draftable pool, a set of positive naturals
  Position,       \* Players -> Positions
  Sheet,          \* cheat sheet of each member, a sequence of players
  RankPir,        \* projections, a function on some of the players
  InitiallyArmed, \* members who had autodraft on before the draft
  Calls,          \* server actions that may run at the same time
  Worker,         \* the sweep
  Requests,       \* the kinds of request the room submits
  PickIds,        \* record ids for picks (bound: a pick needs an unused one)
  MaxFaults,      \* bound: crashes and failed requests in one behaviour
  MaxOvershoot,   \* bound: how far past the last slot current_pick is followed
  None            \* a slot that holds no pick

RequestKinds == {"pick", "pause", "resume", "clock", "arm", "undo", "render"}

Members == {Order[i] : i \in 1..Len(Order)}
Rounds  == RosterSize(Template)
Total   == TotalPicks(Len(Order), Rounds)
Slots   == 1..Total
PickOrder == BuildPickOrder(Format, Order, Rounds)
Procs   == Calls \cup {Worker}

StuckReasons == {"no_legal_player", "board_hole", "repeated_failure"}

(* Consecutive thrown ticks before the sweep flags the draft. *)
STUCK_FAILURE_THRESHOLD == 3

MaxCurrentPick == Total + 1 + MaxOvershoot

(* drafts: `deadline' is "" (none), in the future (running) or more than    *)
(* the grace period ago (out).                                              *)
Drafts == [status: {"live", "paused", "complete"}, current_pick: Nat,
           deadline: {"none", "running", "out"},
           stuck_reason: StuckReasons \cup {"none"}]

Picks  == [id: PickIds, member: Members, player: Players]
Boards == [Slots -> Picks \cup {None}]

ASSUME RoomAssumption ==
  /\ Order \in Seq(Members) /\ Len(Order) >= 1
  /\ Format \in Formats
  /\ Template \in [Positions -> Nat] /\ Rounds >= 1
  /\ Players \subseteq Nat \ {0} /\ Position \in [Players -> Positions]
  /\ InitiallyArmed \subseteq Members
  /\ Worker \notin Calls /\ Requests \subseteq RequestKinds
  /\ MaxFaults \in Nat /\ MaxOvershoot \in Nat
  /\ None \notin Picks

(* What a process does next. *)
Labels ==
  {"idle", "read", "repair", "choose", "advance", "season", "materialize",
   "write_pause", "write_resume", "write_clock",
   "undo_read", "undo_pause", "undo_delete", "undo_point", "undo_league", "reconcile",
   "sweep_read", "close", "restart", "sweep_member", "last_look", "last_look_armed",
   "commit", "clear"} \cup StuckReasons

VARIABLES
  draft,     \* the drafts record
  picks,     \* the picks collection, by overall_no
  league,    \* leagues.status
  held,      \* the open roster_memberships: player -> member, or None
  armed,     \* members with autodraft_enabled
  pc,        \* what each process does next
  seen,      \* the drafts record each process has in hand
  hand,      \* the picks each process has in hand
  turn,      \* the slot and player each process is dealing with
  doomed,    \* the pick records an undo has still to delete
  failures,  \* the worker's consecutive thrown ticks (in memory)
  faults,    \* crashes and failures so far (bound)
  forfeited  \* history: empty slots the sweep may take, because their clock ran
             \* out or because their member was seen with autodraft on

records == <<draft, picks, league, held, armed>>
locals  == <<pc, seen, hand, turn, doomed>>
vars    == <<records, locals, failures, faults, forfeited>>

-----------------------------------------------------------------------------
(* Readings of a board *)

Taken(board)        == {no \in Slots : board[no] # None}
TakenPlayers(board) == {board[no].player : no \in Taken(board)}

(* rosterPositionsOf: what the member already holds on this board. *)
RosterOf(board, member) ==
  {board[no].player : no \in {s \in Taken(board) : board[s].member = member}}

EmptyBoard == [no \in Slots |-> None]
FreshDraft == [status |-> "live", current_pick |-> 1, deadline |-> "running",
               stuck_reason |-> "none"]
NoTurn     == [slot |-> NoSlot, player |-> NoPlayer]

OnClock(state, board) ==
  WhoIsOnClock(state.status, state.current_pick, Taken(board), Total)

(* needsDeadline: live with no clock at all. *)
NeedsDeadline(state) == state.status = "live" /\ state.deadline = "none"

(* isPickDue on the record as it is now: live, deadline and grace gone by. *)
IsPickDue(state) == state.status = "live" /\ state.deadline = "out"

-----------------------------------------------------------------------------
(* Moving a process along *)

Goto(p, label) == pc' = [pc EXCEPT ![p] = label]

(* The request is over: nothing it read is kept. *)
Leave(p) ==
  /\ pc'     = [pc EXCEPT ![p] = "idle"]
  /\ seen'   = [seen EXCEPT ![p] = FreshDraft]
  /\ hand'   = [hand EXCEPT ![p] = EmptyBoard]
  /\ turn'   = [turn EXCEPT ![p] = NoTurn]
  /\ doomed' = [doomed EXCEPT ![p] = {}]

(* A handled tick forgets the failures and clears a stuck reason it had read. *)
Done(p) ==
  /\ failures' = IF p = Worker THEN 0 ELSE failures
  /\ IF p = Worker /\ seen[p].stuck_reason # "none"
     THEN Goto(p, "clear") /\ UNCHANGED <<seen, hand, turn, doomed>>
     ELSE Leave(p)

Init ==
  /\ draft = FreshDraft
  /\ picks = EmptyBoard
  /\ league = "drafting"
  /\ held = [player \in Players |-> None]
  /\ armed = InitiallyArmed
  /\ pc = [p \in Procs |-> "idle"]
  /\ seen = [p \in Procs |-> FreshDraft]
  /\ hand = [p \in Procs |-> EmptyBoard]
  /\ turn = [p \in Procs |-> NoTurn]
  /\ doomed = [p \in Procs |-> {}]
  /\ failures = 0 /\ faults = 0 /\ forfeited = {}

-----------------------------------------------------------------------------
(* The pick pipeline, shared by makePick and the sweep *)

(* Ids in use: no new record gets the id of one that exists, or of one an   *)
(* undo still means to delete.                                              *)
UsedIds == {picks[no].id : no \in Taken(picks)}
             \cup UNION {{doom.id : doom \in doomed[p]} : p \in Procs}
FreshId == CHOOSE id \in PickIds : id \notin UsedIds

(* One of the two indexes left off. *)
RefusedBySlotOnly(slot, player)   == picks[slot] # None
RefusedByPlayerOnly(slot, player) == player \in TakenPlayers(picks)

(* unique(draft, overall_no) and unique(draft, player). *)
RefusedByIndex(slot, player) ==
  picks[slot] # None \/ player \in TakenPlayers(picks)

(* commitPick, write 1: create the pick, or learn that it was raced. *)
CreatePick(p, slot, player) ==
  LET pick == [id |-> FreshId, member |-> PickOrder[slot], player |-> player]
  IN  IF RefusedByIndex(slot, player)
      THEN Done(p) /\ UNCHANGED <<picks, forfeited>>
      ELSE /\ UsedIds # PickIds
           /\ picks' = [picks EXCEPT ![slot] = pick]
           /\ forfeited' = forfeited \ {slot}
           /\ hand'  = [hand EXCEPT ![p][slot] = pick]
           /\ turn'  = [turn EXCEPT ![p] = [slot |-> slot, player |-> player]]
           /\ Goto(p, "advance")
           /\ UNCHANGED <<seen, doomed, failures>>

(* The same patch as an increment of whatever is stored, which a late *)
(* advance and a repair of the same pick would both apply.            *)
AdvanceByIncrement(p, record, filledNo) ==
  IF IsDraftComplete(Taken(hand[p]), Total)
  THEN [record EXCEPT !.status = "complete", !.current_pick = @ + 1, !.deadline = "none"]
  ELSE [record EXCEPT !.current_pick = @ + 1, !.deadline = "running"]

(* advance: the patch is computed from the record and the picks in hand and *)
(* written over whatever the draft has become; without a finish it leaves   *)
(* status alone.                                                            *)
AdvancePatch(p, record, filledNo) ==
  LET next == Max({seen[p].current_pick, filledNo}) + 1
  IN  IF IsDraftComplete(Taken(hand[p]), Total)
      THEN [record EXCEPT !.status = "complete", !.current_pick = next,
                          !.deadline = "none"]
      ELSE [record EXCEPT !.current_pick = next, !.deadline = "running"]

WriteAdvance(p, filledNo) ==
  /\ draft' = AdvancePatch(p, draft, filledNo)
  /\ IF IsDraftComplete(Taken(hand[p]), Total)
     THEN /\ Goto(p, "season")
          /\ seen' = [seen EXCEPT ![p] = AdvancePatch(p, seen[p], filledNo)]
          /\ UNCHANGED <<hand, turn, doomed, failures>>
     ELSE Done(p)

(* commitPick, write 2. *)
Advance(p) ==
  /\ pc[p] = "advance"
  /\ WriteAdvance(p, turn[p].slot)
  /\ UNCHANGED <<picks, league, held, armed, faults, forfeited>>

(* repairUnadvanced: finish an advance that never happened.  The worker's   *)
(* tick ends there; makePick carries on with the patched record in hand.    *)
RepairUnadvanced(p) ==
  /\ pc[p] = "repair"
  /\ LET filledNo == FindUnadvancedPick(seen[p].current_pick, Taken(hand[p])) - 1
     IN  IF p = Worker \/ IsDraftComplete(Taken(hand[p]), Total)
         THEN WriteAdvance(p, filledNo)
         ELSE /\ draft' = AdvancePatch(p, draft, filledNo)
              /\ seen'  = [seen EXCEPT ![p] = AdvancePatch(p, seen[p], filledNo)]
              /\ Goto(p, "choose")
              /\ UNCHANGED <<hand, turn, doomed, failures>>
  /\ UNCHANGED <<picks, league, held, armed, faults, forfeited>>

(* The draft's word for over is not the league's. *)
FinishLeagueAsDraft(p) ==
  /\ pc[p] = "season"
  /\ league' = "complete"
  /\ Goto(p, "materialize")
  /\ UNCHANGED <<draft, picks, held, armed, seen, hand, turn, doomed, failures, faults, forfeited>>

(* The draft is over: the league follows, unless that write is lost (its    *)
(* error is swallowed).                                                     *)
FinishLeague(p) ==
  /\ pc[p] = "season"
  /\ \/ league' = "season" /\ UNCHANGED faults
     \/ faults < MaxFaults /\ faults' = faults + 1 /\ UNCHANGED league
  /\ Goto(p, "materialize")
  /\ UNCHANGED <<draft, picks, held, armed, seen, hand, turn, doomed, failures, forfeited>>

(* Credit the column a pick stands in, forgetting that the order turns. *)
MaterializeByColumn(p) ==
  /\ pc[p] = "materialize"
  /\ held' = [player \in Players |->
                IF held[player] = None /\ player \in TakenPlayers(hand[p])
                THEN Order[SlotOf(CHOOSE no \in Taken(hand[p]) : hand[p][no].player = player,
                                  Len(Order))]
                ELSE held[player]]
  /\ Done(p)
  /\ UNCHANGED <<draft, picks, league, armed, faults, forfeited>>

(* materializeDraftMemberships: one membership per pick in hand, skipping   *)
(* players who already have an open window.  The loop is one step here.     *)
Materialize(p) ==
  /\ pc[p] = "materialize"
  /\ held' = [player \in Players |->
                IF held[player] = None /\ player \in TakenPlayers(hand[p])
                THEN (CHOOSE pick \in {hand[p][no] : no \in Taken(hand[p])} :
                        pick.player = player).member
                ELSE held[player]]
  /\ Done(p)
  /\ UNCHANGED <<draft, picks, league, armed, faults, forfeited>>

-----------------------------------------------------------------------------
(* makePick *)

(* findUnfinishedDraft, refused unless it is live.  Of that record makePick  *)
(* goes on to use current_pick alone.                                       *)
MakePick(c) ==
  /\ pc[c] = "idle" /\ "pick" \in Requests
  /\ draft.status = "live"
  /\ seen' = [seen EXCEPT ![c].current_pick = draft.current_pick]
  /\ Goto(c, "read")
  /\ UNCHANGED <<records, hand, turn, doomed, failures, faults, forfeited>>

ReadPicks(c) ==
  /\ pc[c] = "read"
  /\ hand' = [hand EXCEPT ![c] = picks]
  /\ Goto(c, IF FindUnadvancedPick(seen[c].current_pick, Taken(picks)) # NoSlot
             THEN "repair" ELSE "choose")
  /\ UNCHANGED <<records, seen, turn, doomed, failures, faults, forfeited>>

(* The pick somebody entitled to the turn submitted, if it is legal on the  *)
(* board in hand; then write 1.                                             *)
CommitOwnPick(c) ==
  LET slot == OnClock(seen[c], hand[c])
  IN  /\ pc[c] = "choose"
      /\ slot # NoSlot
      /\ \E player \in Players :
           /\ IsLegalPick(player, RosterOf(hand[c], PickOrder[slot]), Position,
                          Template, TakenPlayers(hand[c]))
           /\ CreatePick(c, slot, player)
      /\ UNCHANGED <<draft, league, held, armed, faults>>

(* Every refusal: finished, somebody else's turn, an illegal player. *)
RefusePick(c) ==
  /\ pc[c] = "choose"
  /\ Leave(c)
  /\ UNCHANGED <<records, failures, faults, forfeited>>

-----------------------------------------------------------------------------
(* setDraftPaused, setPickClock, setAutodraft *)

Control(kind) == CASE kind = "pause"  -> "write_pause"
                   [] kind = "resume" -> "write_resume"
                   [] kind = "clock"  -> "write_clock"

(* What the write goes on to use of the record findUnfinishedDraft returns: *)
(* a pause keeps its deadline, a new clock depends on its status.           *)
InHand(kind) ==
  CASE kind = "pause"  -> [FreshDraft EXCEPT !.deadline = draft.deadline]
    [] kind = "resume" -> FreshDraft
    [] kind = "clock"  -> [FreshDraft EXCEPT !.status = draft.status]

ReadForControl(c, kind) ==
  /\ pc[c] = "idle" /\ kind \in Requests
  /\ draft.status # "complete"
  /\ seen' = [seen EXCEPT ![c] = InHand(kind)]
  /\ Goto(c, Control(kind))
  /\ UNCHANGED <<records, hand, turn, doomed, failures, faults, forfeited>>

SetDraftPaused(c) ==
  /\ \/ /\ pc[c] = "write_pause"
        /\ draft' = [draft EXCEPT !.status = "paused", !.deadline = seen[c].deadline]
     \/ /\ pc[c] = "write_resume"
        /\ draft.current_pick < MaxCurrentPick
        /\ draft' = [draft EXCEPT !.status = "live", !.deadline = "running"]
  /\ Leave(c)
  /\ UNCHANGED <<picks, league, held, armed, failures, faults, forfeited>>

(* The new number of seconds is left out; the deadline it stamps is not. *)
SetPickClock(c) ==
  /\ pc[c] = "write_clock"
  /\ draft' = [draft EXCEPT !.deadline =
                 IF seen[c].status = "live" THEN "running" ELSE "none"]
  /\ Leave(c)
  /\ UNCHANGED <<picks, league, held, armed, failures, faults, forfeited>>

(* One write to one field, by the member or a manager. *)
SetAutodraft(member) ==
  /\ "arm" \in Requests
  /\ armed' = IF member \in armed THEN armed \ {member} ELSE armed \cup {member}
  /\ UNCHANGED <<draft, picks, league, held, locals, failures, faults, forfeited>>

-----------------------------------------------------------------------------
(* rollbackDraft *)

(* The newest draft, whatever its status. *)
RollbackDraft(c, target) ==
  /\ pc[c] = "idle" /\ "undo" \in Requests
  /\ RollbackAllowed(target, Total)
  /\ seen' = [seen EXCEPT ![c] = draft]
  /\ turn' = [turn EXCEPT ![c] = [slot |-> target, player |-> NoPlayer]]
  /\ Goto(c, "undo_read")
  /\ UNCHANGED <<records, hand, doomed, failures, faults, forfeited>>

(* computeRollback; nothing to delete is refused unless the draft points    *)
(* past the target.                                                         *)
ComputeRollback(c) ==
  LET slots == Doomed(Taken(picks), turn[c].slot)
  IN  /\ pc[c] = "undo_read"
      /\ IF slots = {} /\ seen[c].current_pick <= turn[c].slot
         THEN Leave(c)
         ELSE /\ doomed' = [doomed EXCEPT ![c] =
                   {[no |-> no, id |-> picks[no].id] : no \in slots}]
              /\ Goto(c, IF seen[c].status = "live" THEN "undo_pause" ELSE "undo_delete")
              /\ UNCHANGED <<seen, hand, turn>>
      /\ UNCHANGED <<records, failures, faults, forfeited>>

PauseForRollback(c) ==
  /\ pc[c] = "undo_pause"
  /\ draft' = [draft EXCEPT !.status = "paused", !.deadline = "none"]
  /\ Goto(c, "undo_delete")
  /\ UNCHANGED <<picks, league, held, armed, seen, hand, turn, doomed, failures,
                 faults, forfeited>>

(* The order rollback.ts rules out: from the target upwards. *)
DeleteLowestFirst(c) ==
  /\ pc[c] = "undo_delete"
  /\ IF doomed[c] = {}
     THEN Goto(c, "undo_point") /\ UNCHANGED <<picks, seen, hand, turn, doomed>>
     ELSE LET doom == CHOOSE d \in doomed[c] : \A e \in doomed[c] : d.no <= e.no
          IN  /\ picks'  = [picks EXCEPT ![doom.no] = None]
              /\ doomed' = [doomed EXCEPT ![c] = @ \ {doom}]
              /\ UNCHANGED <<pc, seen, hand, turn>>
  /\ UNCHANGED <<draft, league, held, armed, failures, faults, forfeited>>

(* Delete by record id, highest number first; a record that is gone already *)
(* is a 404 and ends the action there.                                      *)
DeletePick(c) ==
  /\ pc[c] = "undo_delete"
  /\ IF doomed[c] = {}
     THEN Goto(c, "undo_point") /\ UNCHANGED <<picks, seen, hand, turn, doomed>>
     ELSE LET doom == CHOOSE d \in doomed[c] : \A e \in doomed[c] : d.no >= e.no
          IN  IF picks[doom.no] # None /\ picks[doom.no].id = doom.id
              THEN /\ picks'  = [picks EXCEPT ![doom.no] = None]
                   /\ doomed' = [doomed EXCEPT ![c] = @ \ {doom}]
                   /\ UNCHANGED <<pc, seen, hand, turn>>
              ELSE Leave(c) /\ UNCHANGED picks
  /\ UNCHANGED <<draft, league, held, armed, failures, faults, forfeited>>

(* An undo that trusts whoIsOnClock to find the gap: current_pick is kept. *)
KeepPointing(c) ==
  /\ pc[c] = "undo_point"
  /\ draft'  = [draft EXCEPT !.status = "paused", !.deadline = "none"]
  /\ forfeited' = {no \in forfeited : no < turn[c].slot}
  /\ IF seen[c].status = "complete"
     THEN Goto(c, "undo_league") /\ UNCHANGED <<seen, hand, turn, doomed>>
     ELSE Leave(c)
  /\ UNCHANGED <<picks, league, held, armed, failures, faults>>

(* Re-point the draft last, and paused. *)
RepointDraft(c) ==
  /\ pc[c] = "undo_point"
  /\ draft'  = [draft EXCEPT !.current_pick = turn[c].slot, !.status = "paused",
                             !.deadline = "none"]
  /\ forfeited' = {no \in forfeited : no < turn[c].slot}
  /\ IF seen[c].status = "complete"
     THEN Goto(c, "undo_league") /\ UNCHANGED <<seen, hand, turn, doomed>>
     ELSE Leave(c)
  /\ UNCHANGED <<picks, league, held, armed, failures, faults>>

(* A finished draft that was undone is running again; a lost write here is  *)
(* swallowed.                                                               *)
UnfinishLeague(c) ==
  /\ pc[c] = "undo_league"
  /\ \/ league' = "drafting" /\ UNCHANGED faults
     \/ faults < MaxFaults /\ faults' = faults + 1 /\ UNCHANGED league
  /\ Leave(c)
  /\ UNCHANGED <<draft, picks, held, armed, failures, forfeited>>

-----------------------------------------------------------------------------
(* reconcileLeagueStatus, run by every render of the lobby or the room *)

LeagueShouldBe(state) == IF state.status = "complete" THEN "season" ELSE "drafting"

ReadForRender(c) ==
  /\ pc[c] = "idle" /\ "render" \in Requests
  /\ LeagueShouldBe(draft) # league
  /\ seen' = [seen EXCEPT ![c] = draft]
  /\ Goto(c, "reconcile")
  /\ UNCHANGED <<records, hand, turn, doomed, failures, faults, forfeited>>

ReconcileLeagueStatus(c) ==
  /\ pc[c] = "reconcile"
  /\ league' = LeagueShouldBe(seen[c])
  /\ Leave(c)
  /\ UNCHANGED <<draft, picks, held, armed, failures, faults, forfeited>>

-----------------------------------------------------------------------------
(* sweepOnce and sweepDraft, by the worker *)

ListLiveDraft ==
  /\ pc[Worker] = "idle"
  /\ draft.status = "live"
  /\ seen' = [seen EXCEPT ![Worker] = draft]
  /\ Goto(Worker, "sweep_read")
  /\ UNCHANGED <<records, hand, turn, doomed, failures, faults, forfeited>>

(* Where the tick goes from the record and the picks it has just read. *)
SweepJob(state, board) ==
  LET onClock == OnClock(state, board)
  IN  CASE FindUnadvancedPick(state.current_pick, Taken(board)) # NoSlot -> "repair"
        [] OTHER ->
           IF onClock = NoSlot
           THEN IF IsDraftComplete(Taken(board), Total) THEN "close" ELSE "board_hole"
           ELSE IF NeedsDeadline(state) THEN "restart" ELSE "sweep_member"

SweepReadPicks ==
  /\ pc[Worker] = "sweep_read"
  /\ hand' = [hand EXCEPT ![Worker] = picks]
  /\ Goto(Worker, SweepJob(seen[Worker], picks))
  /\ UNCHANGED <<records, seen, turn, doomed, failures, faults, forfeited>>

(* Every slot filled, still live, and current_pick past the board, as a      *)
(* resume written over a finish leaves it (a lost last advance is repaired). *)
CloseDraft ==
  /\ pc[Worker] = "close"
  /\ WriteAdvance(Worker, Total)
  /\ UNCHANGED <<picks, league, held, armed, faults, forfeited>>

RestartClock ==
  /\ pc[Worker] = "restart"
  /\ draft' = [draft EXCEPT !.deadline = "running"]
  /\ Done(Worker)
  /\ UNCHANGED <<picks, league, held, armed, faults, forfeited>>

(* What the engine picks for the member on the clock of the record in hand. *)
Choice(slot, sheet) ==
  SelectAutoPick(Players, sheet, RankPir, RosterOf(hand[Worker], PickOrder[slot]),
                 Position, Template, TakenPlayers(hand[Worker]))

(* Only the switch makes the sweep move: a member who is away is waited for. *)
SweepArmedOnly ==
  LET slot == OnClock(seen[Worker], hand[Worker])
  IN  /\ pc[Worker] = "sweep_member"
      /\ IF PickOrder[slot] \in armed
         THEN /\ Goto(Worker, "last_look_armed")
              /\ turn' = [turn EXCEPT ![Worker] =
                            [slot |-> slot, player |-> Choice(slot, Sheet[PickOrder[slot]])]]
              /\ UNCHANGED <<seen, hand, doomed, failures>>
         ELSE Done(Worker)
      /\ UNCHANGED <<records, faults, forfeited>>

(* The member's switch is read, then the choice is made from their sheet; a *)
(* member that cannot be read counts as not armed, a sheet as empty.  Time  *)
(* passes between the list and here, so a clock that was running in the     *)
(* record in hand may have run out by now.                                  *)
SweepMember ==
  LET slot     == OnClock(seen[Worker], hand[Worker])
      member   == PickOrder[slot]
      mayBeDue == seen[Worker].status = "live" /\ seen[Worker].deadline # "none"
  IN  /\ pc[Worker] = "sweep_member"
      /\ \E memberRead, sheetRead \in BOOLEAN :
           LET isArmed == memberRead /\ member \in armed
               choice  == Choice(slot, IF sheetRead THEN Sheet[member] ELSE << >>)
           IN  /\ (memberRead /\ sheetRead) \/ faults < MaxFaults
               /\ faults' = IF memberRead /\ sheetRead THEN faults ELSE faults + 1
               /\ forfeited' = IF isArmed THEN forfeited \cup {slot} ELSE forfeited
               /\ \/ ~isArmed /\ ~IsPickDue(seen[Worker]) /\ Done(Worker)
                  \/ /\ isArmed \/ mayBeDue
                     /\ IF choice = NoPlayer
                        THEN Goto(Worker, "no_legal_player") /\ UNCHANGED turn
                        ELSE /\ Goto(Worker, IF isArmed THEN "last_look_armed" ELSE "last_look")
                             /\ turn' = [turn EXCEPT ![Worker] = [slot |-> slot, player |-> choice]]
                     /\ UNCHANGED <<seen, hand, doomed, failures>>
      /\ UNCHANGED records

(* No last look: straight to the write with what the tick started from. *)
LastLookSkipped ==
  /\ pc[Worker] \in {"last_look", "last_look_armed"}
  /\ Goto(Worker, "commit")
  /\ UNCHANGED <<records, seen, hand, turn, doomed, failures, faults, forfeited>>

(* The last look before the write: still live, same current_pick, and still *)
(* due unless the member is armed.                                          *)
LastLook ==
  /\ pc[Worker] \in {"last_look", "last_look_armed"}
  /\ IF /\ draft.status = "live"
        /\ draft.current_pick = seen[Worker].current_pick
        /\ pc[Worker] = "last_look_armed" \/ IsPickDue(draft)
     THEN Goto(Worker, "commit") /\ UNCHANGED <<seen, hand, turn, doomed, failures>>
     ELSE Done(Worker)
  /\ UNCHANGED <<records, faults, forfeited>>

CommitAutoPick ==
  /\ pc[Worker] = "commit"
  /\ CreatePick(Worker, turn[Worker].slot, turn[Worker].player)
  /\ UNCHANGED <<draft, league, held, armed, faults>>

(* Written only when the reason in hand changes. *)
MarkStuck ==
  /\ pc[Worker] \in StuckReasons
  /\ draft' = IF seen[Worker].stuck_reason = pc[Worker] THEN draft
              ELSE [draft EXCEPT !.stuck_reason = pc[Worker]]
  /\ Leave(Worker)
  /\ UNCHANGED <<picks, league, held, armed, failures, faults, forfeited>>

ClearStuck ==
  /\ pc[Worker] = "clear"
  /\ draft' = [draft EXCEPT !.stuck_reason = "none"]
  /\ Leave(Worker)
  /\ UNCHANGED <<picks, league, held, armed, failures, faults, forfeited>>

-----------------------------------------------------------------------------
(* Faults and the clock *)

(* A process dies, or a request of a server action fails and the action     *)
(* throws.  A restarted worker has no memory of failed ticks.               *)
Crash(p) ==
  /\ pc[p] # "idle" /\ faults < MaxFaults
  /\ faults' = faults + 1
  /\ failures' = IF p = Worker THEN 0 ELSE failures
  /\ Leave(p)
  /\ UNCHANGED <<records, forfeited>>

(* A request of the sweep fails: the tick is counted, three in a row are a  *)
(* stuck draft.  The write of that mark itself is not counted.              *)
ThrowTick ==
  LET marking == pc[Worker] = "repeated_failure"
  IN  /\ pc[Worker] # "idle" /\ faults < MaxFaults
      /\ faults' = faults + 1
      /\ failures' = IF marking THEN failures ELSE failures + 1
      /\ IF ~marking /\ failures + 1 >= STUCK_FAILURE_THRESHOLD
         THEN Goto(Worker, "repeated_failure") /\ UNCHANGED <<seen, hand, turn, doomed>>
         ELSE Leave(Worker)
      /\ UNCHANGED <<records, forfeited>>

ClockRunsOut ==
  /\ draft.deadline = "running"
  /\ draft' = [draft EXCEPT !.deadline = "out"]
  /\ forfeited' = IF draft.status = "live" THEN forfeited \cup {draft.current_pick} ELSE forfeited
  /\ UNCHANGED <<picks, league, held, armed, locals, failures, faults>>

-----------------------------------------------------------------------------
(* The specification *)

Pipeline(p) ==
  Advance(p) \/ RepairUnadvanced(p) \/ FinishLeague(p) \/ Materialize(p)

Sweep ==
  \/ ListLiveDraft \/ SweepReadPicks \/ CloseDraft \/ RestartClock \/ SweepMember
  \/ LastLook \/ CommitAutoPick \/ MarkStuck \/ ClearStuck \/ Pipeline(Worker)

ServerAction(c) ==
  \/ MakePick(c) \/ ReadPicks(c) \/ CommitOwnPick(c) \/ RefusePick(c)
  \/ \E kind \in {"pause", "resume", "clock"} : ReadForControl(c, kind)
  \/ SetDraftPaused(c) \/ SetPickClock(c)
  \/ \E target \in 0..Total + 1 : RollbackDraft(c, target)
  \/ ComputeRollback(c) \/ PauseForRollback(c) \/ DeletePick(c) \/ RepointDraft(c)
  \/ UnfinishLeague(c)
  \/ ReadForRender(c) \/ ReconcileLeagueStatus(c)
  \/ Pipeline(c)

Next ==
  \/ \E c \in Calls : ServerAction(c)
  \/ Sweep
  \/ \E member \in Members : SetAutodraft(member)
  \/ \E p \in Procs : Crash(p)
  \/ ThrowTick
  \/ ClockRunsOut

Spec == Init /\ [][Next]_vars

-----------------------------------------------------------------------------
(* Properties *)

TypeOK ==
  /\ draft \in Drafts
  /\ picks \in Boards
  /\ league \in {"drafting", "season"}
  /\ held \in [Players -> Members \cup {None}]
  /\ armed \subseteq Members
  /\ pc \in [Procs -> Labels]
  /\ seen \in [Procs -> Drafts]
  /\ hand \in [Procs -> Boards]
  /\ turn \in [Procs -> [slot: Nat, player: Players \cup {NoPlayer}]]
  /\ doomed \in [Procs -> SUBSET [no: Slots, id: PickIds]]
  /\ forfeited \subseteq Nat

(* A player is never on the board twice, even when an undo runs under picks  *)
(* that were decided on the board it takes back: the pick in flight is then  *)
(* above slots that are picked again, and only unique(draft, player) is left *)
(* to refuse it (the schema of picks, and the comment above makePick).       *)
NoDoublePick ==
  \A s, t \in Taken(picks) : picks[s].player = picks[t].player => s = t

(* Whoever the clock points at is the member of the lowest empty slot: no    *)
(* turn is ever skipped, so the board never gets a hole that no later pick   *)
(* can fill (ADR-0003; the hole is what sweep.ts reports as board_hole).     *)
NobodySkipped ==
  LET empty == Slots \ Taken(picks)
  IN  draft.status = "live" /\ empty # {} => OnClock(draft, picks) = Min(empty)

(* Every roster on the board stays inside the positional caps, although the  *)
(* cap is checked against picks that were read several requests before the   *)
(* pick is written.                                                          *)
RostersLegal ==
  \A member \in Members, bucket \in Positions :
    CountByPosition(RosterOf(picks, member), Position, bucket) <= Template[bucket]

(* The draft is only closed, and the league only sent into its season, over  *)
(* a board with every slot filled, although advance decides that from the    *)
(* picks in hand.                                                            *)
FinishedMeansFull ==
  draft.status = "complete" \/ league = "season" => Taken(picks) = Slots

(* The sweep never takes a turn that was not given its whole clock: it *)
(* picks for a slot whose own deadline ran out, or for a member who was seen *)
(* with autodraft on (the bug the comment above advance recalls).            *)
AutoPickWaited ==
  [][pc[Worker] = "commit" /\ picks' # picks /\ pc'[Worker] # pc[Worker]
       => turn[Worker].slot \in forfeited]_vars

(* A season membership is always some pick's: the member holds a player they *)
(* drafted.                                                                  *)
MembershipsComeFromPicks ==
  \A player \in Players :
    held[player] # None =>
      \E no \in Taken(picks) : picks[no].player = player /\ picks[no].member = held[player]

(* The board as the league sees it. *)
PromisedBoard ==
  [no \in 1..Cardinality(Taken(picks)) |->
     IF picks[no] = None THEN None
     ELSE [member |-> picks[no].member, player |-> picks[no].player]]

Promise == INSTANCE DraftBoard WITH board <- PromisedBoard, season <- (league = "season")

(* The room implements the board it promises: one legal pick at a time, in   *)
(* drafting order, undone only from the end, a season only on a full board.  *)
KeepsItsPromise == Promise!Spec

(* With the worker sweeping and time passing, a live draft is finished even  *)
(* if nobody in the room ever does anything.                                 *)
DraftFinishes == (draft.status = "live") ~> (draft.status = "complete")

(* An undo that nothing else interleaves with leaves exactly the picks below *)
(* its target, the draft pointing at the target and paused, whatever state   *)
(* the board was in when it started.                                         *)
UndoLandsClean ==
  [][\A c \in Calls :
       pc[c] = "undo_point" /\ pc'[c] # "undo_point" /\ faults' = faults =>
         /\ Taken(picks') = 1..turn[c].slot - 1
         /\ draft'.current_pick = turn[c].slot /\ draft'.status = "paused"]_vars

(* What the comment of rollbackDraft says of an undo that dies half-way: the *)
(* board is always an initial segment, never a hole with picks after it.     *)
NeverAHole == \A s, t \in Slots : s < t /\ t \in Taken(picks) => s \in Taken(picks)

(* What the comment of setDraftPaused says: it is refused once the draft is  *)
(* complete, so that only an undo reopens one.                               *)
CompleteStaysComplete ==
  [][draft.status = "complete" /\ draft'.status # "complete" =>
       \E c \in Calls : pc[c] = "undo_point"]_vars
=============================================================================
