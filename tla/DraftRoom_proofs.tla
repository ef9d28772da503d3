--------------------------- MODULE DraftRoom_proofs ---------------------------
(***************************************************************************)
(* Theorems about the draft room, for every order, template, pool, number  *)
(* of server actions at once and number of faults: first its records and   *)
(* the lock of its sweep, then its board.  Whatever is undone, a player is *)
(* drafted once.  In a room where nothing is undone the board is filled in *)
(* order, within the caps and with everybody given their clock, however    *)
(* stale what the processes hold in hand; and every step of the room is    *)
(* one the abstract board of DraftBoard allows.  So it is where a manager  *)
(* undoes, as often as they like, while nothing else is under way.         *)
(***************************************************************************)
EXTENDS DraftRoom, DraftEngine_proofs

-----------------------------------------------------------------------------
(* The constants *)

LEMMA TotalType == Total \in Nat /\ Len(Order) \in Nat \ {0} /\ Rounds \in Nat \ {0}
<1>1. Rounds \in Nat \ {0}
  BY RoomAssumption DEF Rounds, RosterSize, Positions
<1>2. Len(Order) \in Nat \ {0}
  BY RoomAssumption
<1>. QED BY <1>1, <1>2 DEF Total, TotalPicks

LEMMA PickOrderType == \A slot \in Slots : PickOrder[slot] \in Members
<1>. DEFINE n == Len(Order)
<1>1. n \in Nat \ {0} /\ Total \in Nat /\ \A i \in 1..n : Order[i] \in Members
  BY TotalType DEF Members
<1>. HIDE DEF n
<1>2. SUFFICES ASSUME NEW slot \in Slots PROVE PickOrder[slot] \in Members
  OBVIOUS
<1>3. slot - 1 \in Nat
  BY <1>1, <1>2 DEF Slots
<1>4. (slot - 1) % n \in 0..n - 1
  BY <1>1, <1>3
<1>5. SlotOf(slot, n) \in 1..n /\ n + 1 - SlotOf(slot, n) \in 1..n
  BY <1>1, <1>4 DEF SlotOf
<1>6. PickOrder[slot] = IF IsReversed(Format, RoundOf(slot, n))
                        THEN Order[n + 1 - SlotOf(slot, n)]
                        ELSE Order[SlotOf(slot, n)]
  BY DEF PickOrder, BuildPickOrder, Slots, Total, n
<1>. QED BY <1>1, <1>5, <1>6

LEMMA TakenType ==
  ASSUME NEW board \in Boards
  PROVE  /\ Taken(board) \in SUBSET (1..Total)
         /\ \A no \in Taken(board) : board[no] \in Picks
BY DEF Boards, Taken, Slots

LEMMA OnClockInSlots ==
  ASSUME NEW state \in Drafts, NEW board \in Boards
  PROVE  /\ OnClock(state, board) \in Nat
         /\ OnClock(state, board) # NoSlot => OnClock(state, board) \in Slots
<1>1. Taken(board) \in SUBSET (1..Total) /\ Total \in Nat /\ state.current_pick \in Nat
  BY TakenType, TotalType DEF Drafts
<1>2. OnClock(state, board) \in 0..Total
  BY <1>1, OnClockType DEF OnClock
<1>. QED BY <1>1, <1>2 DEF Slots, NoSlot

-----------------------------------------------------------------------------
(* Types.  TypeOK is not inductive: that the slot and the player a process  *)
(* writes are a slot and a player depends on where the process is.          *)

ProcOK(p) ==
  /\ pc[p] = "sweep_member" => OnClock(seen[p], hand[p]) # NoSlot
  /\ pc[p] \in {"advance", "last_look", "last_look_armed", "commit"} =>
       turn[p].slot \in Slots /\ turn[p].player \in Players
  /\ pc[p] \in {"undo_read", "undo_pause", "undo_delete", "undo_point", "undo_league"} =>
       turn[p].slot \in Slots

TypeInv == TypeOK /\ \A p \in Procs : ProcOK(p)

LocalsOK ==
  /\ pc \in [Procs -> Labels]
  /\ seen \in [Procs -> Drafts]
  /\ hand \in [Procs -> Boards]
  /\ turn \in [Procs -> [slot: Nat, player: Players \cup {NoPlayer}]]
  /\ doomed \in [Procs -> SUBSET [no: Slots, id: PickIds]]

RecordsOK ==
  /\ draft \in Drafts
  /\ picks \in Boards
  /\ league \in {"drafting", "season"}
  /\ held \in [Players -> Members \cup {None}]
  /\ armed \subseteq Members
  /\ forfeited \subseteq Nat

LEMMA TypeParts == TypeOK <=> RecordsOK /\ LocalsOK
BY DEF TypeOK, RecordsOK, LocalsOK

(* A step of p leaves what the other processes have in hand alone. *)
Frame(p) ==
  \A q \in Procs \ {p} : /\ pc'[q] = pc[q] /\ seen'[q] = seen[q] /\ hand'[q] = hand[q]
                         /\ turn'[q] = turn[q] /\ doomed'[q] = doomed[q]

LEMMA FrameProcOK ==
  ASSUME NEW p \in Procs, \A q \in Procs : ProcOK(q), Frame(p), ProcOK(p)'
  PROVE  (\A q \in Procs : ProcOK(q))'
<1>1. ASSUME NEW q \in Procs \ {p} PROVE ProcOK(q)'
  BY DEF ProcOK, Frame, OnClock
<1>. QED BY <1>1

LEMMA InitialValues ==
  FreshDraft \in Drafts /\ EmptyBoard \in Boards
    /\ NoTurn \in [slot: Nat, player: Players \cup {NoPlayer}]
BY DEF FreshDraft, Drafts, EmptyBoard, Boards, NoTurn, NoSlot, NoPlayer, StuckReasons

LEMMA LeaveFact ==
  ASSUME LocalsOK, NEW p \in Procs, Leave(p)
  PROVE  /\ LocalsOK' /\ Frame(p)
         /\ pc'[p] = "idle" /\ ProcOK(p)'
<1>1. LocalsOK'
  BY InitialValues DEF Leave, LocalsOK, Labels
<1>2. Frame(p)
  BY DEF Leave, LocalsOK, Frame
<1>3. pc'[p] = "idle"
  BY DEF Leave, LocalsOK
<1>. QED BY <1>1, <1>2, <1>3 DEF ProcOK

LEMMA GotoFact ==
  ASSUME LocalsOK, NEW p \in Procs, NEW label \in Labels, Goto(p, label)
  PROVE  /\ pc' \in [Procs -> Labels] /\ pc'[p] = label
         /\ \A q \in Procs \ {p} : pc'[q] = pc[q]
BY DEF Goto, LocalsOK

LEMMA DoneFact ==
  ASSUME LocalsOK, NEW p \in Procs, Done(p)
  PROVE  /\ LocalsOK' /\ Frame(p)
         /\ pc'[p] \in {"idle", "clear"} /\ ProcOK(p)'
<1>1. CASE Leave(p)
  BY <1>1, LeaveFact
<1>2. CASE Goto(p, "clear") /\ UNCHANGED <<seen, hand, turn, doomed>>
  <2>1. /\ pc' \in [Procs -> Labels] /\ pc'[p] = "clear"
        /\ \A q \in Procs \ {p} : pc'[q] = pc[q]
    BY <1>2, GotoFact DEF Labels
  <2>. QED BY <1>2, <2>1 DEF LocalsOK, Frame, ProcOK
<1>. QED BY <1>1, <1>2 DEF Done

(* What a step of p owes to the type invariant. *)
Sound(p) == RecordsOK' /\ LocalsOK' /\ Frame(p) /\ ProcOK(p)'

LEMMA AdvancePatchType ==
  ASSUME LocalsOK, NEW p \in Procs, NEW record \in Drafts, NEW filledNo \in Int
  PROVE  AdvancePatch(p, record, filledNo) \in Drafts
<1>. DEFINE next == Max({seen[p].current_pick, filledNo}) + 1
<1>1. seen[p].current_pick \in Nat
  BY DEF LocalsOK, Drafts
<1>2. next \in Nat
  <2>. DEFINE read == seen[p].current_pick
              m    == Max({read, filledNo})
  <2>. HIDE DEF read
  <2>1. m \in {read, filledNo} /\ m >= read
    <3>1. read \in Int
      BY <1>1 DEF read
    <3>. QED BY ONLY <3>1, filledNo \in Int, MaxOfTwo
  <2>. HIDE DEF m
  <2>2. m \in Nat
    BY <1>1, <2>1 DEF read
  <2>3. m + 1 \in Nat
    BY <2>2
  <2>. QED BY <2>3 DEF m, read
<1>. HIDE DEF next
<1>3. \/ AdvancePatch(p, record, filledNo)
           = [record EXCEPT !.status = "complete", !.current_pick = next, !.deadline = "none"]
      \/ AdvancePatch(p, record, filledNo)
           = [record EXCEPT !.current_pick = next, !.deadline = "running"]
  BY DEF AdvancePatch, next
<1>. QED BY <1>2, <1>3 DEF Drafts

LEMMA WriteAdvanceFact ==
  ASSUME RecordsOK, LocalsOK, NEW p \in Procs, NEW filledNo \in Int,
         WriteAdvance(p, filledNo)
  PROVE  draft' \in Drafts /\ LocalsOK' /\ Frame(p) /\ ProcOK(p)'
<1>1. draft' \in Drafts
  BY AdvancePatchType DEF WriteAdvance, RecordsOK
<1>2. CASE IsDraftComplete(Taken(hand[p]), Total)
  <2>1. AdvancePatch(p, seen[p], filledNo) \in Drafts
    BY AdvancePatchType DEF LocalsOK
  <2>2. /\ Goto(p, "season")
        /\ seen' = [seen EXCEPT ![p] = AdvancePatch(p, seen[p], filledNo)]
        /\ UNCHANGED <<hand, turn, doomed>>
    BY <1>2 DEF WriteAdvance
  <2>3. /\ pc' \in [Procs -> Labels] /\ pc'[p] = "season"
        /\ \A q \in Procs \ {p} : pc'[q] = pc[q]
    BY <2>2, GotoFact DEF Labels
  <2>4. /\ seen' \in [Procs -> Drafts]
        /\ \A q \in Procs \ {p} : seen'[q] = seen[q]
    BY <2>1, <2>2 DEF LocalsOK
  <2>. QED BY <1>1, <2>2, <2>3, <2>4 DEF LocalsOK, Frame, ProcOK
<1>3. CASE ~IsDraftComplete(Taken(hand[p]), Total)
  BY <1>1, <1>3, DoneFact DEF WriteAdvance
<1>. QED BY <1>2, <1>3

LEMMA FreshIdFact ==
  ASSUME RecordsOK, LocalsOK, UsedIds # PickIds
  PROVE  FreshId \in PickIds /\ FreshId \notin UsedIds
<1>1. \A no \in Taken(picks) : picks[no].id \in PickIds
  BY TakenType DEF RecordsOK, Picks
<1>2. \A q \in Procs : \A doom \in doomed[q] : doom.id \in PickIds
  BY DEF LocalsOK
<1>3. UsedIds \subseteq PickIds
  BY <1>1, <1>2 DEF UsedIds
<1>4. \E id \in PickIds : id \notin UsedIds
  BY <1>3
<1>. QED BY <1>4 DEF FreshId

LEMMA CreatePickFact ==
  ASSUME RecordsOK, LocalsOK, NEW p \in Procs, NEW slot \in Slots, NEW player \in Players,
         CreatePick(p, slot, player)
  PROVE  /\ picks' \in Boards /\ forfeited' \subseteq Nat
         /\ LocalsOK' /\ Frame(p) /\ ProcOK(p)'
<1>. DEFINE pick == [id |-> FreshId, member |-> PickOrder[slot], player |-> player]
<1>1. CASE RefusedByIndex(slot, player)
  <2>1. Done(p) /\ UNCHANGED <<picks, forfeited>>
    BY <1>1 DEF CreatePick
  <2>. QED BY <2>1, DoneFact DEF RecordsOK
<1>2. CASE ~RefusedByIndex(slot, player)
  <2>1. /\ UsedIds # PickIds
        /\ picks' = [picks EXCEPT ![slot] = pick]
        /\ forfeited' = forfeited \ {slot}
        /\ hand' = [hand EXCEPT ![p][slot] = pick]
        /\ turn' = [turn EXCEPT ![p] = [slot |-> slot, player |-> player]]
        /\ Goto(p, "advance")
        /\ UNCHANGED <<seen, doomed>>
    BY <1>2 DEF CreatePick
  <2>2. pick \in Picks
    BY <2>1, FreshIdFact, PickOrderType DEF Picks
  <2>. HIDE DEF pick
  <2>3. picks' \in Boards /\ forfeited' \subseteq Nat
    BY <2>1, <2>2 DEF RecordsOK, Boards
  <2>4. /\ hand' \in [Procs -> Boards]
        /\ \A q \in Procs \ {p} : hand'[q] = hand[q]
    BY <2>1, <2>2 DEF LocalsOK, Boards
  <2>5. /\ turn' \in [Procs -> [slot: Nat, player: Players \cup {NoPlayer}]]
        /\ turn'[p] = [slot |-> slot, player |-> player]
        /\ \A q \in Procs \ {p} : turn'[q] = turn[q]
    BY <2>1, TotalType DEF LocalsOK, Slots
  <2>6. /\ pc' \in [Procs -> Labels] /\ pc'[p] = "advance"
        /\ \A q \in Procs \ {p} : pc'[q] = pc[q]
    BY <2>1, GotoFact DEF Labels
  <2>7. LocalsOK' /\ Frame(p)
    BY <2>1, <2>4, <2>5, <2>6 DEF LocalsOK, Frame
  <2>8. ProcOK(p)'
    BY <2>5, <2>6 DEF ProcOK
  <2>. QED BY <2>3, <2>7, <2>8
<1>. QED BY <1>1, <1>2

-----------------------------------------------------------------------------
(* One step per action *)

LEMMA SoundPipeline ==
  ASSUME TypeInv, NEW p \in Procs, Pipeline(p)
  PROVE  Sound(p)
<1>. USE TypeParts DEF TypeInv
<1>1. CASE Advance(p)
  <2>1. turn[p].slot \in Int
    BY <1>1, TotalType DEF Advance, ProcOK, Slots
  <2>2. WriteAdvance(p, turn[p].slot) /\ UNCHANGED <<picks, league, held, armed, forfeited>>
    BY <1>1 DEF Advance
  <2>. QED BY <2>1, <2>2, WriteAdvanceFact DEF Sound, RecordsOK
<1>2. CASE RepairUnadvanced(p)
  <2>. DEFINE filledNo == FindUnadvancedPick(seen[p].current_pick, Taken(hand[p])) - 1
  <2>1. filledNo \in Int
    <3>1. /\ Taken(hand[p]) \in SUBSET (1..Total) /\ Total \in Nat
          /\ seen[p].current_pick \in Nat /\ seen[p].current_pick + 1 \in Nat
      BY TakenType, TotalType DEF LocalsOK, Drafts
    <3>2. FirstFree(seen[p].current_pick + 1, Taken(hand[p])) \in Nat
      BY <3>1, FirstFreeFact
    <3>3. FindUnadvancedPick(seen[p].current_pick, Taken(hand[p])) \in Nat
      BY <3>2 DEF FindUnadvancedPick, NoSlot
    <3>. QED BY <3>3
  <2>2. UNCHANGED <<picks, league, held, armed, forfeited>>
    BY <1>2 DEF RepairUnadvanced
  <2>3. CASE WriteAdvance(p, filledNo)
    BY <2>1, <2>2, <2>3, WriteAdvanceFact DEF Sound, RecordsOK
  <2>4. CASE /\ draft' = AdvancePatch(p, draft, filledNo)
             /\ seen'  = [seen EXCEPT ![p] = AdvancePatch(p, seen[p], filledNo)]
             /\ Goto(p, "choose")
             /\ UNCHANGED <<hand, turn, doomed, failures>>
    <3>. HIDE DEF filledNo
    <3>1. draft \in Drafts /\ seen[p] \in Drafts /\ seen \in [Procs -> Drafts]
      BY DEF LocalsOK, RecordsOK
    <3>2. draft' \in Drafts /\ AdvancePatch(p, seen[p], filledNo) \in Drafts
      BY <2>1, <2>4, <3>1, AdvancePatchType
    <3>3. seen' \in [Procs -> Drafts] /\ \A q \in Procs \ {p} : seen'[q] = seen[q]
      BY <2>4, <3>1, <3>2
    <3>4. /\ pc' \in [Procs -> Labels] /\ pc'[p] = "choose"
          /\ \A q \in Procs \ {p} : pc'[q] = pc[q]
      BY <2>4, GotoFact DEF Labels
    <3>. QED BY <2>2, <2>4, <3>2, <3>3, <3>4 DEF Sound, RecordsOK, LocalsOK, Frame, ProcOK
  <2>. QED BY <1>2, <2>3, <2>4 DEF RepairUnadvanced
<1>3. CASE FinishLeague(p)
  <2>1. /\ pc' \in [Procs -> Labels] /\ pc'[p] = "materialize"
        /\ \A q \in Procs \ {p} : pc'[q] = pc[q]
    BY <1>3, GotoFact DEF FinishLeague, Labels
  <2>. QED BY <1>3, <2>1 DEF FinishLeague, Sound, RecordsOK, LocalsOK, Frame, ProcOK
<1>4. CASE Materialize(p)
  <2>1. held' \in [Players -> Members \cup {None}]
    <3>1. ASSUME NEW player \in Players, player \in TakenPlayers(hand[p])
          PROVE  (CHOOSE pick \in {hand[p][no] : no \in Taken(hand[p])} :
                    pick.player = player).member \in Members
      <4>1. hand[p] \in Boards
        BY DEF LocalsOK
      <4>2. \A pick \in {hand[p][no] : no \in Taken(hand[p])} : pick \in Picks
        BY <4>1, TakenType
      <4>3. \E pick \in {hand[p][no] : no \in Taken(hand[p])} : pick.player = player
        BY <3>1 DEF TakenPlayers
      <4>. QED BY <4>2, <4>3 DEF Picks
    <3>2. held \in [Players -> Members \cup {None}]
      BY DEF RecordsOK
    <3>. QED BY <1>4, <3>1, <3>2 DEF Materialize
  <2>2. Done(p) /\ UNCHANGED <<draft, picks, league, armed, forfeited>>
    BY <1>4 DEF Materialize
  <2>. QED BY <2>1, <2>2, DoneFact DEF Sound, RecordsOK
<1>. QED BY <1>1, <1>2, <1>3, <1>4 DEF Pipeline

LEMMA SoundPick ==
  ASSUME TypeInv, NEW c \in Procs, MakePick(c) \/ ReadPicks(c) \/ CommitOwnPick(c) \/ RefusePick(c)
  PROVE  Sound(c)
<1>. USE TypeParts DEF TypeInv
<1>1. CASE MakePick(c)
  <2>1. /\ pc' \in [Procs -> Labels] /\ pc'[c] = "read"
        /\ \A q \in Procs \ {c} : pc'[q] = pc[q]
    BY <1>1, GotoFact DEF MakePick, Labels
  <2>2. /\ seen' = [seen EXCEPT ![c].current_pick = draft.current_pick]
        /\ UNCHANGED <<records, hand, turn, doomed, forfeited>>
    BY <1>1 DEF MakePick
  <2>3. seen' \in [Procs -> Drafts] /\ \A q \in Procs \ {c} : seen'[q] = seen[q]
    BY <2>2 DEF LocalsOK, RecordsOK, Drafts
  <2>. QED BY <2>1, <2>2, <2>3 DEF records, Sound, RecordsOK, LocalsOK, Frame, ProcOK
<1>2. CASE ReadPicks(c)
  <2>. DEFINE label == IF FindUnadvancedPick(seen[c].current_pick, Taken(picks)) # NoSlot
                       THEN "repair" ELSE "choose"
  <2>1. label \in Labels /\ label \in {"repair", "choose"} /\ Goto(c, label)
    BY <1>2 DEF ReadPicks, Labels
  <2>. HIDE DEF label
  <2>2. /\ pc' \in [Procs -> Labels] /\ pc'[c] \in {"repair", "choose"}
        /\ \A q \in Procs \ {c} : pc'[q] = pc[q]
    BY <2>1, GotoFact
  <2>3. hand' = [hand EXCEPT ![c] = picks] /\ UNCHANGED <<records, seen, turn, doomed, forfeited>>
    BY <1>2 DEF ReadPicks
  <2>4. hand' \in [Procs -> Boards] /\ \A q \in Procs \ {c} : hand'[q] = hand[q]
    BY <2>3 DEF LocalsOK, RecordsOK
  <2>. QED BY <2>2, <2>3, <2>4 DEF records, Sound, RecordsOK, LocalsOK, Frame, ProcOK
<1>3. CASE CommitOwnPick(c)
  <2>. DEFINE slot == OnClock(seen[c], hand[c])
  <2>1. slot \in Slots
    <3>1. slot # NoSlot /\ seen[c] \in Drafts /\ hand[c] \in Boards
      BY <1>3 DEF CommitOwnPick, LocalsOK
    <3>. QED BY <3>1, OnClockInSlots
  <2>2. /\ \E player \in Players : CreatePick(c, slot, player)
        /\ UNCHANGED <<draft, league, held, armed>>
    BY <1>3 DEF CommitOwnPick
  <2>. HIDE DEF slot
  <2>. QED BY <2>1, <2>2, CreatePickFact DEF Sound, RecordsOK
<1>4. CASE RefusePick(c)
  BY <1>4, LeaveFact DEF RefusePick, records, Sound, RecordsOK
<1>. QED BY <1>1, <1>2, <1>3, <1>4

LEMMA SoundControl ==
  ASSUME TypeInv, NEW c \in Procs,
         \/ \E kind \in {"pause", "resume", "clock"} : ReadForControl(c, kind)
         \/ SetDraftPaused(c) \/ SetPickClock(c) \/ ReadForRender(c) \/ ReconcileLeagueStatus(c)
  PROVE  Sound(c)
<1>. USE TypeParts DEF TypeInv
<1>1. ASSUME NEW kind \in {"pause", "resume", "clock"}, ReadForControl(c, kind)
      PROVE  Sound(c)
  <2>1. Control(kind) \in {"write_pause", "write_resume", "write_clock"}
    BY DEF Control
  <2>2. InHand(kind) \in Drafts
    BY InitialValues DEF InHand, RecordsOK, Drafts
  <2>3. /\ seen' = [seen EXCEPT ![c] = InHand(kind)] /\ Goto(c, Control(kind))
        /\ UNCHANGED <<records, hand, turn, doomed, forfeited>>
    BY <1>1 DEF ReadForControl
  <2>4. seen' \in [Procs -> Drafts] /\ \A q \in Procs \ {c} : seen'[q] = seen[q]
    BY <2>2, <2>3 DEF LocalsOK
  <2>5. Control(kind) \in Labels
    BY <2>1 DEF Labels
  <2>6. /\ pc' \in [Procs -> Labels] /\ pc'[c] = Control(kind)
        /\ \A q \in Procs \ {c} : pc'[q] = pc[q]
    BY <2>3, <2>5, GotoFact
  <2>. QED BY <2>1, <2>3, <2>4, <2>6 DEF records, Sound, RecordsOK, LocalsOK, Frame, ProcOK
<1>2. CASE SetDraftPaused(c)
  <2>1. draft' \in Drafts
    BY <1>2 DEF SetDraftPaused, RecordsOK, LocalsOK, Drafts
  <2>. QED BY <1>2, <2>1, LeaveFact DEF SetDraftPaused, Sound, RecordsOK
<1>3. CASE SetPickClock(c)
  <2>1. draft' \in Drafts
    BY <1>3 DEF SetPickClock, RecordsOK, Drafts
  <2>. QED BY <1>3, <2>1, LeaveFact DEF SetPickClock, Sound, RecordsOK
<1>4. CASE ReadForRender(c)
  <2>1. /\ seen' = [seen EXCEPT ![c] = draft] /\ Goto(c, "reconcile")
        /\ UNCHANGED <<records, hand, turn, doomed, forfeited>>
    BY <1>4 DEF ReadForRender
  <2>2. seen' \in [Procs -> Drafts] /\ \A q \in Procs \ {c} : seen'[q] = seen[q]
    BY <2>1 DEF LocalsOK, RecordsOK
  <2>3. /\ pc' \in [Procs -> Labels] /\ pc'[c] = "reconcile"
        /\ \A q \in Procs \ {c} : pc'[q] = pc[q]
    BY <2>1, GotoFact DEF Labels
  <2>. QED BY <2>1, <2>2, <2>3 DEF records, Sound, RecordsOK, LocalsOK, Frame, ProcOK
<1>5. CASE ReconcileLeagueStatus(c)
  BY <1>5, LeaveFact DEF ReconcileLeagueStatus, LeagueShouldBe, Sound, RecordsOK
<1>. QED BY <1>1, <1>2, <1>3, <1>4, <1>5

LEMMA SoundUndo ==
  ASSUME TypeInv, NEW c \in Procs,
         \/ \E target \in 0..Total + 1 : RollbackDraft(c, target)
         \/ ComputeRollback(c) \/ PauseForRollback(c) \/ DeletePick(c) \/ RepointDraft(c)
         \/ UnfinishLeague(c)
  PROVE  Sound(c)
<1>. USE TypeParts DEF TypeInv
<1>1. ASSUME NEW target \in 0..Total + 1, RollbackDraft(c, target)
      PROVE  Sound(c)
  <2>1. target \in Slots /\ target \in Nat
    BY <1>1, TotalType DEF RollbackDraft, RollbackAllowed, Slots
  <2>2. /\ seen' = [seen EXCEPT ![c] = draft]
        /\ turn' = [turn EXCEPT ![c] = [slot |-> target, player |-> NoPlayer]]
        /\ Goto(c, "undo_read") /\ UNCHANGED <<records, hand, doomed, forfeited>>
    BY <1>1 DEF RollbackDraft
  <2>3. /\ seen' \in [Procs -> Drafts] /\ \A q \in Procs \ {c} : seen'[q] = seen[q]
    BY <2>2 DEF LocalsOK, RecordsOK
  <2>4. /\ turn' \in [Procs -> [slot: Nat, player: Players \cup {NoPlayer}]]
        /\ turn'[c].slot = target /\ \A q \in Procs \ {c} : turn'[q] = turn[q]
    BY <2>1, <2>2 DEF LocalsOK
  <2>5. /\ pc' \in [Procs -> Labels] /\ pc'[c] = "undo_read"
        /\ \A q \in Procs \ {c} : pc'[q] = pc[q]
    BY <2>2, GotoFact DEF Labels
  <2>. QED BY <2>1, <2>2, <2>3, <2>4, <2>5 DEF records, Sound, RecordsOK, LocalsOK, Frame, ProcOK
<1>2. CASE ComputeRollback(c)
  <2>. DEFINE slots == Doomed(Taken(picks), turn[c].slot)
  <2>1. CASE Leave(c)
    BY <1>2, <2>1, LeaveFact DEF ComputeRollback, records, Sound, RecordsOK
  <2>2. CASE /\ doomed' = [doomed EXCEPT ![c] = {[no |-> no, id |-> picks[no].id] : no \in slots}]
             /\ Goto(c, IF seen[c].status = "live" THEN "undo_pause" ELSE "undo_delete")
             /\ UNCHANGED <<seen, hand, turn>>
    <3>1. {[no |-> no, id |-> picks[no].id] : no \in slots} \subseteq [no: Slots, id: PickIds]
      <4>1. \A no \in slots : no \in Slots /\ picks[no] \in Picks
        BY TakenType DEF Doomed, RecordsOK, Slots
      <4>. HIDE DEF slots
      <4>. QED BY <4>1 DEF Picks
    <3>. HIDE DEF slots
    <3>2. doomed' \in [Procs -> SUBSET [no: Slots, id: PickIds]]
            /\ \A q \in Procs \ {c} : doomed'[q] = doomed[q]
      BY <2>2, <3>1 DEF LocalsOK
    <3>3. \E label \in {"undo_pause", "undo_delete"} : Goto(c, label)
      BY <2>2
    <3>4. /\ pc' \in [Procs -> Labels] /\ pc'[c] \in {"undo_pause", "undo_delete"}
          /\ \A q \in Procs \ {c} : pc'[q] = pc[q]
      BY <3>3, GotoFact DEF Labels
    <3>5. pc[c] = "undo_read" /\ UNCHANGED <<records, forfeited>>
      BY <1>2 DEF ComputeRollback
    <3>6. turn'[c].slot \in Slots
      BY <2>2, <3>5 DEF ProcOK
    <3>. QED BY <2>2, <3>2, <3>4, <3>5, <3>6
             DEF records, Sound, RecordsOK, LocalsOK, Frame, ProcOK
  <2>. QED BY <1>2, <2>1, <2>2 DEF ComputeRollback
<1>3. CASE PauseForRollback(c)
  <2>1. draft' \in Drafts
    BY <1>3 DEF PauseForRollback, RecordsOK, Drafts
  <2>2. /\ pc' \in [Procs -> Labels] /\ pc'[c] = "undo_delete"
        /\ \A q \in Procs \ {c} : pc'[q] = pc[q]
    BY <1>3, GotoFact DEF PauseForRollback, Labels
  <2>3. turn'[c].slot \in Slots
    BY <1>3 DEF PauseForRollback, ProcOK
  <2>. QED BY <1>3, <2>1, <2>2, <2>3
           DEF PauseForRollback, Sound, RecordsOK, LocalsOK, Frame, ProcOK
<1>4. CASE DeletePick(c)
  <2>. DEFINE doom == CHOOSE d \in doomed[c] : \A e \in doomed[c] : d.no >= e.no
  <2>1. UNCHANGED <<draft, league, held, armed, forfeited>> /\ turn[c].slot \in Slots
          /\ pc[c] = "undo_delete"
    BY <1>4 DEF DeletePick, ProcOK
  <2>2. CASE Goto(c, "undo_point") /\ UNCHANGED <<picks, seen, hand, turn, doomed>>
    <3>1. /\ pc' \in [Procs -> Labels] /\ pc'[c] = "undo_point"
          /\ \A q \in Procs \ {c} : pc'[q] = pc[q]
      BY <2>2, GotoFact DEF Labels
    <3>. QED BY <2>1, <2>2, <3>1 DEF Sound, RecordsOK, LocalsOK, Frame, ProcOK
  <2>3. CASE /\ picks'  = [picks EXCEPT ![doom.no] = None]
             /\ doomed' = [doomed EXCEPT ![c] = @ \ {doom}]
             /\ UNCHANGED <<pc, seen, hand, turn>>
    <3>. HIDE DEF doom
    <3>1. picks' \in Boards
      BY <2>3 DEF RecordsOK, Boards
    <3>2. doomed' \in [Procs -> SUBSET [no: Slots, id: PickIds]]
            /\ \A q \in Procs \ {c} : doomed'[q] = doomed[q]
      BY <2>3 DEF LocalsOK
    <3>. QED BY <2>1, <2>3, <3>1, <3>2 DEF Sound, RecordsOK, LocalsOK, Frame, ProcOK
  <2>4. CASE Leave(c) /\ UNCHANGED picks
    BY <2>1, <2>4, LeaveFact DEF Sound, RecordsOK
  <2>. QED BY <1>4, <2>2, <2>3, <2>4 DEF DeletePick
<1>5. CASE RepointDraft(c)
  <2>1. turn[c].slot \in Slots /\ turn[c].slot \in Nat
    BY <1>5, TotalType DEF RepointDraft, ProcOK, Slots
  <2>2. draft' \in Drafts /\ forfeited' \subseteq Nat /\ UNCHANGED <<picks, league, held, armed>>
    BY <1>5, <2>1 DEF RepointDraft, RecordsOK, Drafts
  <2>3. CASE Goto(c, "undo_league") /\ UNCHANGED <<seen, hand, turn, doomed>>
    <3>1. /\ pc' \in [Procs -> Labels] /\ pc'[c] = "undo_league"
          /\ \A q \in Procs \ {c} : pc'[q] = pc[q]
      BY <2>3, GotoFact DEF Labels
    <3>. QED BY <2>1, <2>2, <2>3, <3>1 DEF Sound, RecordsOK, LocalsOK, Frame, ProcOK
  <2>4. CASE Leave(c)
    BY <2>2, <2>4, LeaveFact DEF Sound, RecordsOK
  <2>. QED BY <1>5, <2>3, <2>4 DEF RepointDraft
<1>6. CASE UnfinishLeague(c)
  BY <1>6, LeaveFact DEF UnfinishLeague, Sound, RecordsOK
<1>. QED BY <1>1, <1>2, <1>3, <1>4, <1>5, <1>6

LEMMA SweepJobFact ==
  ASSUME NEW state, NEW board
  PROVE  /\ SweepJob(state, board) \in
              {"repair", "close", "board_hole", "restart", "sweep_member"}
         /\ SweepJob(state, board) = "sweep_member" => OnClock(state, board) # NoSlot
BY DEF SweepJob

LEMMA ChoiceType ==
  ASSUME NEW slot, NEW sheet
  PROVE  Choice(slot, sheet) \in Players \cup {NoPlayer}
BY DEF Choice, SelectAutoPick

LEMMA SoundSweep ==
  ASSUME TypeInv, Sweep
  PROVE  Sound(Worker)
<1>. USE TypeParts DEF TypeInv
<1>0. Worker \in Procs
  BY DEF Procs
<1>1. CASE ListLiveDraft
  <2>1. /\ seen' = [seen EXCEPT ![Worker] = draft] /\ Goto(Worker, "sweep_read")
        /\ UNCHANGED <<records, hand, turn, doomed, forfeited>>
    BY <1>1 DEF ListLiveDraft
  <2>2. seen' \in [Procs -> Drafts] /\ \A q \in Procs \ {Worker} : seen'[q] = seen[q]
    BY <2>1, <1>0 DEF LocalsOK, RecordsOK
  <2>3. /\ pc' \in [Procs -> Labels] /\ pc'[Worker] = "sweep_read"
        /\ \A q \in Procs \ {Worker} : pc'[q] = pc[q]
    BY <2>1, <1>0, GotoFact DEF Labels
  <2>. QED BY <2>1, <2>2, <2>3 DEF records, Sound, RecordsOK, LocalsOK, Frame, ProcOK
<1>2. CASE SweepReadPicks
  <2>. DEFINE job == SweepJob(seen[Worker], picks)
  <2>1. /\ hand' = [hand EXCEPT ![Worker] = picks] /\ Goto(Worker, job)
        /\ UNCHANGED <<records, seen, turn, doomed, forfeited>>
    BY <1>2 DEF SweepReadPicks
  <2>2. /\ job \in {"repair", "close", "board_hole", "restart", "sweep_member"}
        /\ job = "sweep_member" => OnClock(seen[Worker], picks) # NoSlot
    BY SweepJobFact
  <2>. HIDE DEF job
  <2>3. job \in Labels
    BY <2>2 DEF Labels, StuckReasons
  <2>4. /\ pc' \in [Procs -> Labels] /\ pc'[Worker] = job
        /\ \A q \in Procs \ {Worker} : pc'[q] = pc[q]
    BY <2>1, <2>3, <1>0, GotoFact
  <2>5. /\ hand' \in [Procs -> Boards] /\ hand'[Worker] = picks
        /\ \A q \in Procs \ {Worker} : hand'[q] = hand[q]
    BY <2>1, <1>0 DEF LocalsOK, RecordsOK
  <2>6. ProcOK(Worker)'
    BY <2>1, <2>2, <2>4, <2>5 DEF ProcOK, OnClock
  <2>. QED BY <2>1, <2>4, <2>5, <2>6 DEF records, Sound, RecordsOK, LocalsOK, Frame
<1>3. CASE CloseDraft
  <2>1. Total \in Int
    BY TotalType
  <2>. QED BY <1>0, <1>3, <2>1, WriteAdvanceFact DEF CloseDraft, Sound, RecordsOK
<1>4. CASE RestartClock
  <2>1. draft' \in Drafts
    BY <1>4 DEF RestartClock, RecordsOK, Drafts
  <2>. QED BY <1>0, <1>4, <2>1, DoneFact DEF RestartClock, Sound, RecordsOK
<1>5. CASE SweepMember
  <2>. DEFINE slot == OnClock(seen[Worker], hand[Worker])
  <2>1. slot \in Slots /\ slot \in Nat
    <3>1. slot # NoSlot /\ seen[Worker] \in Drafts /\ hand[Worker] \in Boards
      BY <1>0, <1>5 DEF SweepMember, ProcOK, LocalsOK
    <3>. QED BY <3>1, OnClockInSlots
  <2>. DEFINE Chosen(choice) ==
         /\ IF choice = NoPlayer
            THEN Goto(Worker, "no_legal_player") /\ UNCHANGED turn
            ELSE /\ \E label \in {"last_look", "last_look_armed"} : Goto(Worker, label)
                 /\ turn' = [turn EXCEPT ![Worker] = [slot |-> slot, player |-> choice]]
         /\ UNCHANGED <<seen, hand, doomed, failures>>
  <2>2. /\ UNCHANGED records
        /\ forfeited' = forfeited \/ forfeited' = forfeited \cup {slot}
        /\ Done(Worker) \/ \E choice \in Players \cup {NoPlayer} : Chosen(choice)
    BY <1>5, ChoiceType DEF SweepMember
  <2>. HIDE DEF slot
  <2>3. RecordsOK'
    BY <2>1, <2>2 DEF records, RecordsOK
  <2>4. CASE Done(Worker)
    BY <1>0, <2>3, <2>4, DoneFact DEF Sound
  <2>5. ASSUME NEW choice \in Players \cup {NoPlayer}, Chosen(choice)
        PROVE  Sound(Worker)
    <3>1. CASE choice = NoPlayer
      <4>1. /\ pc' \in [Procs -> Labels] /\ pc'[Worker] = "no_legal_player"
            /\ \A q \in Procs \ {Worker} : pc'[q] = pc[q]
        BY <1>0, <2>5, <3>1, GotoFact DEF Labels, StuckReasons
      <4>. QED BY <2>3, <2>5, <3>1, <4>1 DEF Sound, LocalsOK, Frame, ProcOK
    <3>2. CASE choice # NoPlayer
      <4>1. /\ pc' \in [Procs -> Labels] /\ pc'[Worker] \in {"last_look", "last_look_armed"}
            /\ \A q \in Procs \ {Worker} : pc'[q] = pc[q]
        BY <1>0, <2>5, <3>2, GotoFact DEF Labels
      <4>2. turn' = [turn EXCEPT ![Worker] = [slot |-> slot, player |-> choice]]
        BY <2>5, <3>2
      <4>3. /\ turn' \in [Procs -> [slot: Nat, player: Players \cup {NoPlayer}]]
            /\ turn'[Worker] = [slot |-> slot, player |-> choice]
            /\ \A q \in Procs \ {Worker} : turn'[q] = turn[q]
        BY <1>0, <2>1, <4>2 DEF LocalsOK
      <4>4. LocalsOK' /\ Frame(Worker)
        BY <2>5, <4>1, <4>3 DEF LocalsOK, Frame
      <4>5. ProcOK(Worker)'
        BY <2>1, <3>2, <4>1, <4>3 DEF ProcOK
      <4>. QED BY <2>3, <4>4, <4>5 DEF Sound
    <3>. QED BY <3>1, <3>2
  <2>. QED BY <2>2, <2>4, <2>5
<1>6. CASE LastLook
  <2>1. UNCHANGED <<records, forfeited>> /\ turn[Worker].slot \in Slots
          /\ turn[Worker].player \in Players
    BY <1>0, <1>6 DEF LastLook, ProcOK
  <2>2. CASE Goto(Worker, "commit") /\ UNCHANGED <<seen, hand, turn, doomed>>
    <3>1. /\ pc' \in [Procs -> Labels] /\ pc'[Worker] = "commit"
          /\ \A q \in Procs \ {Worker} : pc'[q] = pc[q]
      BY <1>0, <2>2, GotoFact DEF Labels
    <3>. QED BY <2>1, <2>2, <3>1 DEF records, Sound, RecordsOK, LocalsOK, Frame, ProcOK
  <2>3. CASE Done(Worker)
    BY <1>0, <2>1, <2>3, DoneFact DEF records, Sound, RecordsOK
  <2>. QED BY <1>6, <2>2, <2>3 DEF LastLook
<1>7. CASE CommitAutoPick
  <2>1. /\ turn[Worker].slot \in Slots /\ turn[Worker].player \in Players
        /\ CreatePick(Worker, turn[Worker].slot, turn[Worker].player)
        /\ UNCHANGED <<draft, league, held, armed>>
    BY <1>0, <1>7 DEF CommitAutoPick, ProcOK
  <2>. QED BY <1>0, <2>1, CreatePickFact DEF Sound, RecordsOK
<1>8. CASE MarkStuck
  <2>1. draft' \in Drafts
    BY <1>8 DEF MarkStuck, RecordsOK, Drafts, StuckReasons
  <2>. QED BY <1>0, <1>8, <2>1, LeaveFact DEF MarkStuck, Sound, RecordsOK
<1>9. CASE ClearStuck
  <2>1. draft' \in Drafts
    BY <1>9 DEF ClearStuck, RecordsOK, Drafts
  <2>. QED BY <1>0, <1>9, <2>1, LeaveFact DEF ClearStuck, Sound, RecordsOK
<1>10. CASE Pipeline(Worker)
  BY <1>0, <1>10, SoundPipeline
<1>. QED BY <1>1, <1>2, <1>3, <1>4, <1>5, <1>6, <1>7, <1>8, <1>9, <1>10 DEF Sweep

LEMMA SoundFault ==
  ASSUME TypeInv
  PROVE  /\ \A p \in Procs : Crash(p) => Sound(p)
         /\ ThrowTick => Sound(Worker)
<1>. USE TypeParts DEF TypeInv
<1>1. ASSUME NEW p \in Procs, Crash(p) PROVE Sound(p)
  BY <1>1, LeaveFact DEF Crash, records, Sound, RecordsOK
<1>2. ASSUME ThrowTick PROVE Sound(Worker)
  <2>0. Worker \in Procs /\ UNCHANGED <<records, forfeited>>
    BY <1>2 DEF Procs, ThrowTick
  <2>1. CASE Goto(Worker, "repeated_failure") /\ UNCHANGED <<seen, hand, turn, doomed>>
    <3>1. /\ pc' \in [Procs -> Labels] /\ pc'[Worker] = "repeated_failure"
          /\ \A q \in Procs \ {Worker} : pc'[q] = pc[q]
      BY <2>0, <2>1, GotoFact DEF Labels, StuckReasons
    <3>. QED BY <2>0, <2>1, <3>1 DEF records, Sound, RecordsOK, LocalsOK, Frame, ProcOK
  <2>2. CASE Leave(Worker)
    BY <2>0, <2>2, LeaveFact DEF records, Sound, RecordsOK
  <2>. QED BY <1>2, <2>1, <2>2 DEF ThrowTick
<1>. QED BY <1>1, <1>2

-----------------------------------------------------------------------------
(* The type of every record and of everything a process has in hand, and    *)
(* that no process ever writes to a slot or a player that does not exist.   *)

LEMMA TypeInit == Init => TypeInv
<1>. SUFFICES ASSUME Init PROVE TypeInv
  OBVIOUS
<1>1. RecordsOK
  BY InitialValues, RoomAssumption DEF Init, RecordsOK
<1>2. LocalsOK
  BY InitialValues DEF Init, LocalsOK, Labels
<1>3. \A p \in Procs : ProcOK(p)
  BY DEF Init, ProcOK
<1>. QED BY <1>1, <1>2, <1>3, TypeParts DEF TypeInv

LEMMA TypeStep == TypeInv /\ [Next]_vars => TypeInv'
<1>. SUFFICES ASSUME TypeInv, [Next]_vars PROVE TypeInv'
  OBVIOUS
<1>1. ASSUME NEW p \in Procs, Sound(p) PROVE TypeInv'
  <2>1. (\A q \in Procs : ProcOK(q))'
    BY <1>1, FrameProcOK DEF Sound, TypeInv
  <2>2. TypeOK'
    BY <1>1, TypeParts DEF Sound, TypeOK, RecordsOK, LocalsOK
  <2>. QED BY <2>1, <2>2 DEF TypeInv
<1>2. ASSUME UNCHANGED locals, RecordsOK' PROVE TypeInv'
  <2>1. TypeOK'
    BY <1>2 DEF TypeInv, TypeOK, RecordsOK, locals
  <2>2. ASSUME NEW q \in Procs PROVE ProcOK(q)'
    BY <1>2 DEF TypeInv, ProcOK, locals, OnClock
  <2>. QED BY <2>1, <2>2 DEF TypeInv
<1>3. ASSUME NEW c \in Calls, ServerAction(c) PROVE TypeInv'
  <2>1. c \in Procs
    BY DEF Procs
  <2>2. Sound(c)
    BY <1>3, <2>1, SoundPick, SoundControl, SoundUndo, SoundPipeline DEF ServerAction
  <2>. QED BY <1>1, <2>1, <2>2
<1>4. CASE Sweep
  BY <1>1, <1>4, SoundSweep DEF Procs
<1>5. ASSUME NEW member \in Members, SetAutodraft(member) PROVE TypeInv'
  <2>1. RecordsOK'
    BY <1>5 DEF SetAutodraft, TypeInv, TypeOK, RecordsOK
  <2>. QED BY <1>2, <1>5, <2>1 DEF SetAutodraft
<1>6. ASSUME NEW p \in Procs, Crash(p) PROVE TypeInv'
  BY <1>1, <1>6, SoundFault
<1>7. CASE ThrowTick
  BY <1>1, <1>7, SoundFault DEF Procs
<1>8. CASE ClockRunsOut
  <2>1. draft' \in Drafts
    BY <1>8 DEF ClockRunsOut, TypeInv, TypeOK, Drafts
  <2>2. RecordsOK'
    BY <1>8, <2>1 DEF ClockRunsOut, TypeInv, TypeOK, RecordsOK, Drafts
  <2>. QED BY <1>2, <1>8, <2>2 DEF ClockRunsOut
<1>9. CASE UNCHANGED vars
  BY <1>2, <1>9 DEF vars, records, TypeInv, TypeOK, RecordsOK
<1>. QED BY <1>3, <1>4, <1>5, <1>6, <1>7, <1>8, <1>9 DEF Next

LEMMA TypeAlways == Spec => []TypeInv
BY TypeInit, TypeStep, PTL DEF Spec

(* Every record and everything a process has in hand keeps its type, for    *)
(* every league and whatever interleaves, fails or crashes: in particular   *)
(* the league status is never anything but "drafting" or "season", and      *)
(* every pick belongs to a member of the order (lib/drafts/types.ts).       *)
THEOREM TypeCorrect == Spec => []TypeOK
<1>1. TypeInv => TypeOK
  BY DEF TypeInv
<1>. QED BY <1>1, TypeAlways, PTL

-----------------------------------------------------------------------------
(* The board *)

(* The only three things a step can do to the picks. *)
LEMMA PicksChange ==
  ASSUME TypeInv, [Next]_vars
  PROVE  \/ UNCHANGED picks
         \/ \E slot \in Slots, pick \in Picks :
              ~RefusedByIndex(slot, pick.player) /\ picks' = [picks EXCEPT ![slot] = pick]
         \/ \E c \in Calls : DeletePick(c) /\ \E no : picks' = [picks EXCEPT ![no] = None]
<1>. USE TypeParts DEF TypeInv
<1>1. ASSUME NEW p \in Procs, NEW slot \in Slots, NEW player \in Players,
             CreatePick(p, slot, player)
      PROVE  \/ UNCHANGED picks
             \/ \E pick \in Picks :
                  ~RefusedByIndex(slot, pick.player) /\ picks' = [picks EXCEPT ![slot] = pick]
  <2>1. CASE RefusedByIndex(slot, player)
    BY <1>1, <2>1 DEF CreatePick
  <2>2. CASE ~RefusedByIndex(slot, player)
    <3>. DEFINE pick == [id |-> FreshId, member |-> PickOrder[slot], player |-> player]
    <3>1. UsedIds # PickIds /\ picks' = [picks EXCEPT ![slot] = pick]
      BY <1>1, <2>2 DEF CreatePick
    <3>2. pick \in Picks /\ pick.player = player
      BY <3>1, FreshIdFact, PickOrderType DEF Picks
    <3>. QED BY <2>2, <3>1, <3>2
  <2>. QED BY <2>1, <2>2
<1>2. ASSUME NEW p \in Procs, Pipeline(p) PROVE UNCHANGED picks
  BY <1>2 DEF Pipeline, Advance, RepairUnadvanced, FinishLeague, Materialize
<1>3. ASSUME NEW c \in Calls, CommitOwnPick(c)
      PROVE  \E slot \in Slots, player \in Players : CreatePick(c, slot, player)
  <2>1. c \in Procs
    BY DEF Procs
  <2>2. OnClock(seen[c], hand[c]) \in Slots
    BY <1>3, <2>1, OnClockInSlots DEF CommitOwnPick, LocalsOK
  <2>. QED BY <1>3, <2>2 DEF CommitOwnPick
<1>4. ASSUME NEW c \in Calls, DeletePick(c)
      PROVE  UNCHANGED picks \/ \E no : DeletePick(c) /\ picks' = [picks EXCEPT ![no] = None]
  BY <1>4 DEF DeletePick
<1>5. ASSUME NEW c \in Calls, ServerAction(c), ~CommitOwnPick(c), ~DeletePick(c)
      PROVE  UNCHANGED picks
  BY <1>2, <1>5 DEF ServerAction, MakePick, ReadPicks, RefusePick, ReadForControl,
     SetDraftPaused, SetPickClock, RollbackDraft, ComputeRollback, PauseForRollback,
     RepointDraft, UnfinishLeague, ReadForRender, ReconcileLeagueStatus, records, Procs
<1>6. CASE CommitAutoPick
  <2>1. Worker \in Procs
    BY DEF Procs
  <2>2. /\ turn[Worker].slot \in Slots /\ turn[Worker].player \in Players
        /\ CreatePick(Worker, turn[Worker].slot, turn[Worker].player)
    BY <1>6, <2>1 DEF CommitAutoPick, ProcOK
  <2>. QED BY <1>1, <2>1, <2>2
<1>7. ASSUME Sweep, ~CommitAutoPick PROVE UNCHANGED picks
  BY <1>2, <1>7 DEF Sweep, ListLiveDraft, SweepReadPicks, CloseDraft, RestartClock,
     SweepMember, LastLook, MarkStuck, ClearStuck, records, Procs
<1>8. ASSUME \/ \E member \in Members : SetAutodraft(member)
             \/ \E p \in Procs : Crash(p)
             \/ ThrowTick \/ ClockRunsOut \/ UNCHANGED vars
      PROVE  UNCHANGED picks
  BY <1>8 DEF SetAutodraft, Crash, ThrowTick, ClockRunsOut, vars, records
<1>9. ASSUME NEW c \in Calls, CommitOwnPick(c)
      PROVE  \/ UNCHANGED picks
             \/ \E slot \in Slots, pick \in Picks :
                  ~RefusedByIndex(slot, pick.player) /\ picks' = [picks EXCEPT ![slot] = pick]
  BY <1>1, <1>3, <1>9 DEF Procs
<1>. QED BY <1>4, <1>5, <1>6, <1>7, <1>8, <1>9 DEF Next

(* A player is never on the board twice, with undos, pauses, crashes and    *)
(* late writes of every kind (the two unique indexes on picks are all the   *)
(* code has for it, and makePick's comment says so).                        *)
THEOREM PlayerOnce == Spec => []NoDoublePick
<1>1. Init => NoDoublePick
  BY DEF Init, EmptyBoard, NoDoublePick, Taken
<1>2. TypeInv /\ NoDoublePick /\ [Next]_vars => NoDoublePick'
  <2>. SUFFICES ASSUME TypeInv, NoDoublePick, [Next]_vars PROVE NoDoublePick'
    OBVIOUS
  <2>1. picks \in [Slots -> Picks \cup {None}]
    BY DEF TypeInv, TypeOK, Boards
  <2>2. CASE UNCHANGED picks
    BY <2>2 DEF NoDoublePick, Taken
  <2>3. ASSUME NEW slot \in Slots, NEW pick \in Picks,
               ~RefusedByIndex(slot, pick.player), picks' = [picks EXCEPT ![slot] = pick]
        PROVE  NoDoublePick'
    <3>1. /\ \A no \in Slots \ {slot} : picks'[no] = picks[no]
          /\ picks'[slot] = pick
      BY <2>1, <2>3
    <3>2. \A no \in Taken(picks) : picks[no].player # pick.player
      BY <2>3 DEF RefusedByIndex, TakenPlayers
    <3>. QED BY <3>1, <3>2 DEF NoDoublePick, Taken
  <2>4. ASSUME NEW no, picks' = [picks EXCEPT ![no] = None]
        PROVE  NoDoublePick'
    <3>1. \A s \in Slots : picks'[s] = picks[s] \/ picks'[s] = None
      BY <2>1, <2>4
    <3>. QED BY <3>1 DEF NoDoublePick, Taken
  <2>. QED BY <2>2, <2>3, <2>4, PicksChange
<1>. QED BY <1>1, <1>2, TypeAlways, PTL DEF Spec

-----------------------------------------------------------------------------
(* The board while no undo is under way.  It is an initial segment, and     *)
(* what a process has in hand is an older, shorter board, that reaches at   *)
(* least as far as the record it was read after; a process that is idle has *)
(* nothing in hand.  What the league and its season make of the board       *)
(* (Outcomes) follows it only where nothing is ever undone.                 *)

UndoLabels == {"undo_read", "undo_pause", "undo_delete", "undo_point", "undo_league"}
HasRead    == {"repair", "choose", "advance", "close", "restart", "sweep_member",
               "last_look", "last_look_armed", "commit"}
HandIsFull == {"close", "season", "materialize"}

Reached(no, board) == \A s \in Slots : s < no => s \in Taken(board)
Gapless(board)     == \A t \in Taken(board) : Reached(t, board)

HandOK(p) ==
  /\ pc[p] \notin UndoLabels
  /\ \A s \in Taken(hand[p]) : picks[s] = hand[p][s]
  /\ Gapless(hand[p])
  /\ Reached(seen[p].current_pick, picks)
  /\ seen[p].status = "complete" => Taken(picks) = Slots
  /\ pc[p] \in HasRead => Reached(seen[p].current_pick, hand[p])
  /\ pc[p] = "repair" => seen[p].current_pick \in Taken(hand[p])
  /\ pc[p] = "advance" => turn[p].slot \in Taken(hand[p]) /\ turn[p].slot >= seen[p].current_pick
  /\ pc[p] \in {"last_look", "last_look_armed", "commit"} =>
       turn[p].slot = OnClock(seen[p], hand[p])
  /\ pc[p] \in HandIsFull => Taken(hand[p]) = Slots
  /\ pc[p] = "idle" => seen[p] = FreshDraft /\ hand[p] = EmptyBoard

(* A process at any other label is bound by nothing it has in hand. *)
Binding == UndoLabels \cup HasRead \cup HandIsFull \cup {"idle"}

ClosedMeansFull == draft.status = "complete" => Taken(picks) = Slots

Outcomes == "undo" \notin Requests => FinishedMeansFull /\ MembershipsComeFromPicks

BoardInv ==
  /\ Gapless(picks) /\ Reached(draft.current_pick, picks)
  /\ ClosedMeansFull /\ Outcomes
  /\ \A p \in Procs : HandOK(p)

(* No pick is lost or changed, and p keeps its part of the invariant. *)
Grows == \A s \in Taken(picks) : s \in Taken(picks') /\ picks'[s] = picks[s]

Kept(p) ==
  /\ Grows /\ Gapless(picks') /\ Reached(draft'.current_pick, picks')
  /\ ClosedMeansFull' /\ Outcomes'
  /\ Frame(p) /\ HandOK(p)'

LEMMA HandSubset ==
  ASSUME TypeInv, BoardInv, NEW p \in Procs
  PROVE  Taken(hand[p]) \subseteq Taken(picks)
BY DEF BoardInv, HandOK, Taken

LEMMA SlotsNat == Slots \subseteq Nat /\ \A board : Taken(board) \subseteq Slots
BY TotalType DEF Slots, Taken

(* What the others hold stays an older board when the board only grows. *)
LEMMA GrowsKeeps ==
  ASSUME Grows, NEW q \in Procs, HandOK(q),
         seen'[q] = seen[q], hand'[q] = hand[q]
  PROVE  /\ \A s \in Taken(hand'[q]) : picks'[s] = hand'[q][s]
         /\ Gapless(hand'[q])
         /\ Reached(seen'[q].current_pick, picks')
         /\ seen'[q].status = "complete" => Taken(picks') = Slots
<1>1. ASSUME NEW s \in Taken(hand[q]) PROVE picks'[s] = hand[q][s]
  <2>1. picks[s] = hand[q][s] /\ hand[q][s] # None /\ s \in Slots
    BY <1>1 DEF HandOK, Taken
  <2>2. s \in Taken(picks)
    BY <2>1 DEF Taken
  <2>. QED BY <2>1, <2>2 DEF Grows
<1>2. Gapless(hand[q])
  BY DEF HandOK
<1>3. Reached(seen[q].current_pick, picks')
  BY DEF HandOK, Reached, Grows
<1>4. seen[q].status = "complete" => Taken(picks') = Slots
  BY SlotsNat DEF HandOK, Grows
<1>. QED BY <1>1, <1>2, <1>3, <1>4

LEMMA KeptInv ==
  ASSUME TypeInv, BoardInv, NEW p \in Procs, Kept(p)
  PROVE  BoardInv'
<1>1. ASSUME NEW q \in Procs \ {p} PROVE HandOK(q)'
  <2>1. /\ HandOK(q) /\ Grows /\ seen'[q] = seen[q] /\ hand'[q] = hand[q]
        /\ pc'[q] = pc[q] /\ turn'[q] = turn[q]
    BY <1>1 DEF BoardInv, Kept, Frame
  <2>2. /\ \A s \in Taken(hand'[q]) : picks'[s] = hand'[q][s]
        /\ Gapless(hand'[q])
        /\ Reached(seen'[q].current_pick, picks')
        /\ seen'[q].status = "complete" => Taken(picks') = Slots
    BY <2>1, GrowsKeeps
  <2>3. OnClock(seen[q], hand[q]) = OnClock(seen'[q], hand'[q])
    BY <2>1
  <2>. QED BY <2>1, <2>2, <2>3 DEF HandOK, Gapless, Reached, Taken
<1>. QED BY <1>1 DEF BoardInv, Kept, Gapless, Reached, Taken

(* A step that writes none of the records. *)
LEMMA QuietKept ==
  ASSUME BoardInv, NEW p \in Procs, Frame(p), HandOK(p)',
         UNCHANGED <<picks, held>>, draft'.current_pick = draft.current_pick,
         draft'.status = "complete" => draft.status = "complete" \/ Taken(picks) = Slots,
         league' = "season" => league = "season" \/ Taken(picks) = Slots
  PROVE  Kept(p)
<1>1. Grows
  BY DEF Grows
<1>2. Gapless(picks') /\ Reached(draft'.current_pick, picks')
  BY DEF BoardInv
<1>3. ClosedMeansFull' /\ Outcomes'
  BY DEF BoardInv, ClosedMeansFull, Outcomes, FinishedMeansFull, MembershipsComeFromPicks, Taken
<1>. QED BY <1>1, <1>2, <1>3 DEF Kept

(* After Leave, and after Done, nothing the process holds binds it. *)
LEMMA IdleHand ==
  ASSUME NEW p \in Procs, pc'[p] = "idle", seen'[p] = FreshDraft, hand'[p] = EmptyBoard
  PROVE  HandOK(p)'
<1>1. Taken(EmptyBoard) = {}
  BY DEF Taken, EmptyBoard
<1>2. Gapless(hand'[p]) /\ \A s \in Taken(hand'[p]) : picks'[s] = hand'[p][s]
  BY <1>1 DEF Gapless
<1>3. Reached(seen'[p].current_pick, picks') /\ seen'[p].status # "complete"
  BY TotalType DEF FreshDraft, Reached, Slots
<1>. QED BY <1>2, <1>3 DEF HandOK, UndoLabels, HasRead, HandIsFull, Gapless, Reached, Taken

LEMMA LeaveHand ==
  ASSUME TypeInv, NEW p \in Procs, Leave(p)
  PROVE  HandOK(p)'
<1>1. /\ pc'[p] = "idle" /\ seen'[p] = FreshDraft /\ hand'[p] = EmptyBoard
  BY DEF Leave, TypeInv, TypeOK
<1>. QED BY <1>1, IdleHand

LEMMA GotoHand ==
  ASSUME TypeInv, BoardInv, Grows, NEW p \in Procs, seen'[p] = seen[p], hand'[p] = hand[p],
         pc'[p] \notin Binding
  PROVE  HandOK(p)'
<1>1. HandOK(p)
  BY DEF BoardInv
<1>2. /\ \A s \in Taken(hand'[p]) : picks'[s] = hand'[p][s]
      /\ Gapless(hand'[p])
      /\ Reached(seen'[p].current_pick, picks')
      /\ seen'[p].status = "complete" => Taken(picks') = Slots
  BY <1>1, GrowsKeeps
<1>. QED BY <1>2 DEF HandOK, Binding, UndoLabels, HasRead, HandIsFull, Gapless, Reached, Taken

LEMMA DoneHand ==
  ASSUME TypeInv, BoardInv, Grows, NEW p \in Procs, Done(p)
  PROVE  HandOK(p)'
<1>1. CASE Leave(p)
  BY <1>1, LeaveHand
<1>2. CASE Goto(p, "clear") /\ UNCHANGED <<seen, hand, turn, doomed>>
  <2>1. pc'[p] = "clear"
    BY <1>2 DEF Goto, TypeInv, TypeOK
  <2>2. pc'[p] \notin Binding
    BY <2>1 DEF Binding, UndoLabels, HasRead, HandIsFull
  <2>. QED BY <1>2, <2>2, GotoHand
<1>. QED BY <1>1, <1>2 DEF Done

(* The slot on the clock of what a process has in hand is the first one it  *)
(* knows of that is empty.                                                  *)
LEMMA NextSlot ==
  ASSUME NEW state \in Drafts, NEW board \in Boards, Gapless(board),
         Reached(state.current_pick, board), OnClock(state, board) # NoSlot
  PROVE  /\ OnClock(state, board) \in Slots \ Taken(board)
         /\ \A s \in Slots : s < OnClock(state, board) => s \in Taken(board)
         /\ \A t \in Taken(board) : t < OnClock(state, board)
<1>. DEFINE taken == Taken(board)
            no    == OnClock(state, board)
            cp    == state.current_pick
<1>1. taken \in SUBSET (1..Total) /\ Total \in Nat /\ cp \in Nat /\ Slots = 1..Total
  BY TakenType, TotalType DEF Drafts, Slots
<1>2. no = WhoIsOnClock(state.status, cp, taken, Total)
  BY DEF OnClock
<1>3. no # NoSlot
  OBVIOUS
<1>4. /\ Gapless(board) /\ Reached(cp, board)
  OBVIOUS
<1>. HIDE DEF taken, no, cp
<1>5. /\ no \in 1..Total /\ no \notin taken /\ \A t \in taken : t < no
      /\ \A other \in 1..Total : (other >= cp /\ \A t \in taken : t < other) => no <= other
  BY <1>1, <1>2, <1>3, OnClockFact
<1>6. ASSUME NEW s \in Slots, s < no PROVE s \in taken
  <2>1. CASE s < cp
    BY <1>4, <2>1 DEF Reached, taken
  <2>2. CASE s >= cp
    <3>1. ~(no <= s) /\ s \in 1..Total
      BY <1>1, <1>5, <1>6
    <3>2. PICK t \in taken : ~(t < s)
      BY <1>5, <2>2, <3>1
    <3>3. t = s \/ s < t
      BY <1>1, <3>1, <3>2
    <3>. QED BY <1>4, <3>3 DEF Gapless, Reached, taken
  <2>3. s < cp \/ s >= cp
    BY <1>1
  <2>. QED BY <2>1, <2>2, <2>3
<1>. QED BY <1>1, <1>5, <1>6 DEF no, taken

LEMMA CreateKept ==
  ASSUME TypeInv, BoardInv, NEW p \in Procs, NEW slot, NEW player \in Players,
         pc[p] \in HasRead, slot = OnClock(seen[p], hand[p]), slot # NoSlot,
         CreatePick(p, slot, player), UNCHANGED <<draft, league, held>>
  PROVE  Kept(p)
<1>. DEFINE pick == [id |-> FreshId, member |-> PickOrder[slot], player |-> player]
<1>1. /\ RecordsOK /\ LocalsOK /\ seen[p] \in Drafts /\ hand[p] \in Boards
      /\ picks \in Boards
  BY TypeParts DEF TypeInv, TypeOK, LocalsOK
<1>2. HandOK(p)
  BY DEF BoardInv
<1>3. /\ slot \in Slots \ Taken(hand[p])
      /\ \A s \in Slots : s < slot => s \in Taken(hand[p])
      /\ \A t \in Taken(hand[p]) : t < slot
  BY <1>1, <1>2, NextSlot DEF HandOK
<1>4. Frame(p)
  BY <1>1, <1>3, CreatePickFact
<1>5. CASE RefusedByIndex(slot, player)
  <2>1. Done(p) /\ UNCHANGED picks
    BY <1>5 DEF CreatePick
  <2>2. HandOK(p)'
    BY <2>1, DoneHand DEF Grows
  <2>. QED BY <1>4, <2>1, <2>2, QuietKept
<1>6. CASE ~RefusedByIndex(slot, player)
  <2>1. /\ picks' = [picks EXCEPT ![slot] = pick]
        /\ hand'  = [hand EXCEPT ![p][slot] = pick]
        /\ turn'  = [turn EXCEPT ![p] = [slot |-> slot, player |-> player]]
        /\ pc'    = [pc EXCEPT ![p] = "advance"]
        /\ UNCHANGED seen /\ picks[slot] = None /\ UsedIds # PickIds
    BY <1>6 DEF CreatePick, Goto, RefusedByIndex
  <2>2. pick \in Picks
    BY <1>1, <1>3, <2>1, FreshIdFact, PickOrderType DEF Picks
  <2>3. pick # None
    BY <2>2, RoomAssumption
  <2>. HIDE DEF pick
  <2>4. /\ picks'[slot] = pick /\ \A s \in Slots \ {slot} : picks'[s] = picks[s]
    BY <1>1, <1>3, <2>1 DEF Boards
  <2>5. /\ hand'[p][slot] = pick /\ \A s \in Slots \ {slot} : hand'[p][s] = hand[p][s]
    BY <1>1, <1>3, <2>1 DEF Boards, LocalsOK
  <2>6. /\ pc'[p] = "advance" /\ turn'[p].slot = slot /\ seen'[p] = seen[p]
    BY <1>1, <2>1 DEF LocalsOK
  <2>7. Taken(picks') = Taken(picks) \cup {slot}
    BY <1>3, <2>3, <2>4 DEF Taken
  <2>8. Taken(hand'[p]) = Taken(hand[p]) \cup {slot}
    BY <1>3, <2>3, <2>5 DEF Taken
  <2>9. Taken(hand[p]) \subseteq Taken(picks) /\ slot \notin Taken(picks)
    BY <2>1, HandSubset DEF Taken
  <2>10. Grows
    BY <2>4, <2>7, <2>9 DEF Grows, Taken
  <2>11. \A s \in Slots : s < slot => s \in Taken(hand'[p]) /\ s \in Taken(picks')
    BY <1>3, <2>7, <2>8, <2>9
  <2>12. Gapless(picks') /\ Reached(draft'.current_pick, picks')
    BY <2>7, <2>11 DEF BoardInv, Gapless, Reached
  <2>13. ClosedMeansFull' /\ (FinishedMeansFull => FinishedMeansFull')
    <3>1. Taken(picks) = Slots => Taken(picks') = Slots
      BY <1>3, <2>7
    <3>. QED BY <3>1 DEF BoardInv, ClosedMeansFull, FinishedMeansFull, Taken
  <2>14. Outcomes'
    <3>1. \A no \in Taken(picks) : no \in Taken(picks') /\ picks'[no] = picks[no]
      BY <2>10 DEF Grows
    <3>2. MembershipsComeFromPicks => MembershipsComeFromPicks'
      BY <3>1 DEF MembershipsComeFromPicks, Taken
    <3>. QED BY <2>13, <3>2 DEF BoardInv, Outcomes
  <2>15. HandOK(p)'
    <3>1. \A s \in Taken(hand'[p]) : picks'[s] = hand'[p][s]
      BY <1>2, <1>3, <2>4, <2>5, <2>8 DEF HandOK, Taken
    <3>2. Gapless(hand'[p])
      BY <1>2, <2>8, <2>11 DEF HandOK, Gapless, Reached
    <3>3. Reached(seen'[p].current_pick, picks') /\ Reached(seen'[p].current_pick, hand'[p])
      BY <1>2, <2>6, <2>7, <2>8 DEF HandOK, Reached
    <3>4. seen'[p].status = "complete" => Taken(picks') = Slots
      BY <1>2, <1>3, <2>6, <2>7 DEF HandOK
    <3>5. turn'[p].slot \in Taken(hand'[p]) /\ turn'[p].slot >= seen'[p].current_pick
      <4>1. slot \in Nat /\ seen[p].current_pick \in Nat /\ ~(slot < seen[p].current_pick)
        BY <1>1, <1>2, <1>3, SlotsNat DEF HandOK, Reached, Drafts
      <4>. QED BY <2>6, <2>8, <4>1
    <3>. QED BY <2>6, <3>1, <3>2, <3>3, <3>4, <3>5
             DEF HandOK, UndoLabels, HandIsFull, Gapless, Reached, Taken
  <2>. QED BY <1>4, <2>10, <2>12, <2>13, <2>14, <2>15 DEF Kept
<1>. QED BY <1>5, <1>6

(* The patch of an advance never points past an empty slot.                 *)
LEMMA PatchReached ==
  ASSUME TypeInv, BoardInv, NEW p \in Procs, NEW filledNo \in Int, NEW record \in Drafts,
         Reached(seen[p].current_pick, hand[p]),
         Reached(filledNo + 1, hand[p]),
         seen[p].current_pick \in Slots => seen[p].current_pick \in Taken(hand[p])
           \/ seen[p].current_pick <= filledNo
  PROVE  /\ Reached(AdvancePatch(p, record, filledNo).current_pick, hand[p])
         /\ AdvancePatch(p, record, filledNo).status =
               IF IsDraftComplete(Taken(hand[p]), Total) THEN "complete" ELSE record.status
<1>. DEFINE read == seen[p].current_pick
            m    == Max({read, filledNo})
            next == m + 1
<1>1. read \in Int
  BY DEF TypeInv, TypeOK, Drafts
<1>2. Reached(read, hand[p]) /\ Reached(filledNo + 1, hand[p])
  OBVIOUS
<1>3. read \in Slots => read \in Taken(hand[p]) \/ read <= filledNo
  OBVIOUS
<1>4. AdvancePatch(p, record, filledNo) =
        IF IsDraftComplete(Taken(hand[p]), Total)
        THEN [record EXCEPT !.status = "complete", !.current_pick = next, !.deadline = "none"]
        ELSE [record EXCEPT !.current_pick = next, !.deadline = "running"]
  BY DEF AdvancePatch
<1>. HIDE DEF read, next
<1>5. /\ AdvancePatch(p, record, filledNo).current_pick = next
      /\ AdvancePatch(p, record, filledNo).status =
            IF IsDraftComplete(Taken(hand[p]), Total) THEN "complete" ELSE record.status
  BY <1>4 DEF Drafts
<1>6. Reached(next, hand[p])
  <2>1. m \in {read, filledNo} /\ m >= read /\ m >= filledNo
    BY ONLY <1>1, filledNo \in Int, MaxOfTwo DEF m
  <2>. HIDE DEF m
  <2>2. SUFFICES ASSUME NEW s \in Slots, s < next PROVE s \in Taken(hand[p])
    BY DEF Reached
  <2>3. s \in Int /\ m \in Int /\ s <= m
    BY <1>1, <2>1, SlotsNat, <2>2 DEF next
  <2>4. CASE s < read
    BY <1>2, <2>4 DEF Reached
  <2>5. CASE s <= filledNo
    <3>1. s < filledNo + 1
      BY <2>3, <2>5
    <3>. QED BY <1>2, <3>1 DEF Reached
  <2>6. CASE s = read
    BY <1>3, <2>5, <2>6
  <2>7. s < read \/ s <= filledNo \/ s = read
    BY <1>1, <2>1, <2>3
  <2>. QED BY <2>4, <2>5, <2>6, <2>7
<1>. QED BY <1>5, <1>6

LEMMA AdvanceKept ==
  ASSUME TypeInv, BoardInv, NEW p \in Procs, NEW filledNo \in Int, pc[p] \in HasRead,
         Reached(filledNo + 1, hand[p]),
         seen[p].current_pick \in Slots => seen[p].current_pick \in Taken(hand[p])
           \/ seen[p].current_pick <= filledNo,
         \/ WriteAdvance(p, filledNo)
         \/ /\ draft' = AdvancePatch(p, draft, filledNo)
            /\ seen'  = [seen EXCEPT ![p] = AdvancePatch(p, seen[p], filledNo)]
            /\ ~IsDraftComplete(Taken(hand[p]), Total)
            /\ Goto(p, "choose")
            /\ UNCHANGED <<hand, turn, doomed>>,
         UNCHANGED <<picks, league, held>>
  PROVE  Kept(p)
<1>1. /\ RecordsOK /\ LocalsOK /\ seen[p] \in Drafts /\ draft \in Drafts
      /\ hand[p] \in Boards /\ pc \in [Procs -> Labels] /\ seen \in [Procs -> Drafts]
  BY TypeParts DEF TypeInv, TypeOK, LocalsOK
<1>2. HandOK(p) /\ Taken(hand[p]) \subseteq Taken(picks)
  BY HandSubset DEF BoardInv
<1>3. Reached(seen[p].current_pick, hand[p])
  BY <1>2 DEF HandOK
<1>. DEFINE complete == IsDraftComplete(Taken(hand[p]), Total)
            patched(record) == AdvancePatch(p, record, filledNo)
<1>4. \A record \in Drafts :
        /\ Reached(patched(record).current_pick, hand[p])
        /\ patched(record).status = IF complete THEN "complete" ELSE record.status
  BY <1>3, PatchReached
<1>5. complete => Taken(hand[p]) = Slots /\ Taken(picks) = Slots
  BY <1>2, SlotsNat DEF IsDraftComplete, Slots
<1>. HIDE DEF complete, patched
<1>6. draft' = patched(draft)
  BY DEF WriteAdvance, patched
<1>7. Grows /\ Gapless(picks')
  BY DEF BoardInv, Grows
<1>8. Reached(draft'.current_pick, picks')
  BY <1>1, <1>2, <1>4, <1>6 DEF Reached
<1>9. ClosedMeansFull' /\ Outcomes'
  <2>1. draft'.status = "complete" => draft.status = "complete" \/ Taken(picks) = Slots
    BY <1>1, <1>4, <1>5, <1>6
  <2>2. MembershipsComeFromPicks => MembershipsComeFromPicks'
    BY DEF MembershipsComeFromPicks, Taken
  <2>. QED BY <2>1, <2>2 DEF BoardInv, ClosedMeansFull, Outcomes, FinishedMeansFull, Taken
<1>10. CASE WriteAdvance(p, filledNo)
  <2>1. Frame(p)
    BY <1>1, <1>10, WriteAdvanceFact
  <2>2. CASE complete
    <3>1. /\ pc' = [pc EXCEPT ![p] = "season"]
          /\ seen' = [seen EXCEPT ![p] = patched(seen[p])]
          /\ UNCHANGED <<hand, turn>>
      BY <1>10, <2>2 DEF WriteAdvance, complete, patched, Goto
    <3>2. pc'[p] = "season" /\ seen'[p] = patched(seen[p])
      BY <1>1, <3>1
    <3>3. HandOK(p)'
      BY <1>2, <1>5, <2>2, <3>1, <3>2
         DEF HandOK, Binding, UndoLabels, HasRead, HandIsFull, Gapless, Reached, Taken
    <3>. QED BY <1>7, <1>8, <1>9, <2>1, <3>3 DEF Kept
  <2>3. CASE ~complete
    <3>1. Done(p)
      BY <1>10, <2>3 DEF WriteAdvance, complete
    <3>2. HandOK(p)'
      BY <1>7, <3>1, DoneHand
    <3>. QED BY <1>7, <1>8, <1>9, <2>1, <3>2 DEF Kept
  <2>. QED BY <2>2, <2>3
<1>11. CASE /\ seen'  = [seen EXCEPT ![p] = patched(seen[p])]
            /\ ~complete
            /\ Goto(p, "choose")
            /\ UNCHANGED <<hand, turn, doomed>>
  <2>1. /\ pc' = [pc EXCEPT ![p] = "choose"] /\ pc'[p] = "choose" /\ seen'[p] = patched(seen[p])
    BY <1>1, <1>11 DEF Goto
  <2>2. Frame(p)
    BY <1>1, <1>11, <2>1 DEF Frame
  <2>3. /\ Reached(seen'[p].current_pick, hand[p])
        /\ seen'[p].status = "complete" => Taken(picks) = Slots
    BY <1>1, <1>2, <1>4, <1>11, <2>1 DEF HandOK
  <2>4. Reached(seen'[p].current_pick, picks)
    BY <1>2, <2>3 DEF Reached
  <2>5. HandOK(p)'
    BY <1>2, <1>11, <2>1, <2>3, <2>4
       DEF HandOK, Binding, UndoLabels, HasRead, HandIsFull, Gapless, Reached, Taken
  <2>. QED BY <1>7, <1>8, <1>9, <2>2, <2>5 DEF Kept
<1>. QED BY <1>10, <1>11 DEF complete, patched

LEMMA BoardPipeline ==
  ASSUME TypeInv, BoardInv, NEW p \in Procs, Pipeline(p)
  PROVE  Kept(p)
<1>. DEFINE read == seen[p].current_pick
<1>1. /\ HandOK(p) /\ read \in Nat /\ hand[p] \in Boards /\ Total \in Nat
      /\ Frame(p) /\ LocalsOK /\ Taken(hand[p]) \subseteq Taken(picks)
  BY SoundPipeline, TypeParts, TotalType, HandSubset
     DEF BoardInv, TypeInv, TypeOK, Drafts, Sound
<1>2. CASE Advance(p)
  <2>1. /\ turn[p].slot \in Taken(hand[p]) /\ turn[p].slot >= read /\ pc[p] \in HasRead
        /\ turn[p].slot \in Nat
    BY <1>1, <1>2, SlotsNat DEF Advance, HandOK, HasRead
  <2>2. Reached(turn[p].slot + 1, hand[p])
    <3>1. SUFFICES ASSUME NEW s \in Slots, s < turn[p].slot + 1 PROVE s \in Taken(hand[p])
      BY DEF Reached
    <3>2. s < turn[p].slot \/ s = turn[p].slot
      BY <2>1, <3>1, SlotsNat
    <3>. QED BY <1>1, <2>1, <3>2 DEF HandOK, Gapless, Reached
  <2>. QED BY <1>1, <1>2, <2>1, <2>2, AdvanceKept DEF Advance
<1>3. CASE RepairUnadvanced(p)
  <2>. DEFINE free     == FirstFree(read + 1, Taken(hand[p]))
              filledNo == FindUnadvancedPick(read, Taken(hand[p])) - 1
  <2>1. /\ read \in Taken(hand[p]) /\ Reached(read, hand[p]) /\ pc[p] \in HasRead
    BY <1>1, <1>3 DEF RepairUnadvanced, HandOK, HasRead
  <2>2. /\ free \in Nat /\ \A no \in read + 1..free - 1 : no \in Taken(hand[p])
    <3>1. Taken(hand[p]) \in SUBSET (1..Total) /\ read + 1 \in Nat
      BY <1>1, TakenType
    <3>. HIDE DEF read
    <3>. QED BY <1>1, <3>1, FirstFreeFact
  <2>3. filledNo = free - 1
    BY <2>1 DEF FindUnadvancedPick
  <2>. HIDE DEF free, filledNo
  <2>4. filledNo \in Int /\ Reached(filledNo + 1, hand[p])
    <3>1. SUFFICES ASSUME NEW s \in Slots, s < free PROVE s \in Taken(hand[p])
      BY <2>2, <2>3 DEF Reached
    <3>2. s < read \/ s = read \/ s \in read + 1..free - 1
      BY <1>1, <2>2, <3>1, SlotsNat
    <3>. QED BY <2>1, <2>2, <3>2 DEF Reached
  <2>5. UNCHANGED <<picks, league, held>>
    BY <1>3 DEF RepairUnadvanced
  <2>6. \/ WriteAdvance(p, filledNo)
        \/ /\ draft' = AdvancePatch(p, draft, filledNo)
           /\ seen'  = [seen EXCEPT ![p] = AdvancePatch(p, seen[p], filledNo)]
           /\ ~IsDraftComplete(Taken(hand[p]), Total)
           /\ Goto(p, "choose")
           /\ UNCHANGED <<hand, turn, doomed>>
    BY <1>3 DEF RepairUnadvanced, filledNo
  <2>. QED BY <2>1, <2>4, <2>5, <2>6, AdvanceKept
<1>4. CASE FinishLeague(p)
  <2>1. pc' = [pc EXCEPT ![p] = "materialize"] /\ pc'[p] = "materialize"
    BY <1>1, <1>4 DEF FinishLeague, Goto, LocalsOK
  <2>2. Taken(hand[p]) = Slots /\ Taken(picks) = Slots
    BY <1>1, <1>4, SlotsNat DEF FinishLeague, HandOK, HandIsFull
  <2>3. UNCHANGED <<draft, picks, held, seen, hand, turn>>
    BY <1>4 DEF FinishLeague
  <2>4. HandOK(p)'
    BY <1>1, <2>1, <2>2, <2>3 DEF HandOK, Binding, UndoLabels, HasRead, HandIsFull, Gapless, Reached, Taken
  <2>. QED BY <1>1, <2>2, <2>3, <2>4, QuietKept
<1>5. CASE Materialize(p)
  <2>1. Done(p) /\ UNCHANGED <<draft, picks, league>>
    BY <1>5 DEF Materialize
  <2>2. Grows
    BY <2>1 DEF Grows
  <2>3. HandOK(p)'
    BY <2>1, <2>2, DoneHand
  <2>4. ASSUME MembershipsComeFromPicks PROVE MembershipsComeFromPicks'
    <3>1. SUFFICES ASSUME NEW player \in Players, held'[player] # None
                   PROVE  \E no \in Taken(picks) :
                            picks[no].player = player /\ picks[no].member = held'[player]
      BY <2>1 DEF MembershipsComeFromPicks, Taken
    <3>2. CASE held'[player] = held[player]
      BY <2>4, <3>1, <3>2 DEF MembershipsComeFromPicks
    <3>3. CASE held'[player] # held[player]
      <4>. DEFINE pick == CHOOSE k \in {hand[p][no] : no \in Taken(hand[p])} : k.player = player
      <4>1. player \in TakenPlayers(hand[p]) /\ held'[player] = pick.member
        BY <1>5, <3>1, <3>3 DEF Materialize
      <4>2. \E k \in {hand[p][no] : no \in Taken(hand[p])} : k.player = player
        BY <4>1 DEF TakenPlayers
      <4>3. pick \in {hand[p][no] : no \in Taken(hand[p])} /\ pick.player = player
        BY <4>2
      <4>. HIDE DEF pick
      <4>4. PICK no \in Taken(hand[p]) : pick = hand[p][no]
        BY <4>3
      <4>5. no \in Taken(picks) /\ picks[no] = pick
        BY <1>1, <4>4 DEF HandOK
      <4>. QED BY <4>1, <4>3, <4>5
    <3>. QED BY <3>2, <3>3
  <2>. QED BY <1>1, <2>1, <2>2, <2>3, <2>4
           DEF Kept, BoardInv, ClosedMeansFull, Outcomes, FinishedMeansFull, Taken
<1>. QED BY <1>2, <1>3, <1>4, <1>5 DEF Pipeline

(* A step that takes a fresh copy of the draft record, or of part of it.    *)
LEMMA ReadRecordKept ==
  ASSUME TypeInv, BoardInv, NEW p \in Procs, Frame(p), UNCHANGED <<records, hand>>,
         pc'[p] \notin Binding,
         seen'[p].current_pick \in {1, draft.current_pick, seen[p].current_pick},
         seen'[p].status \in {"live", draft.status, seen[p].status}
  PROVE  Kept(p)
<1>1. HandOK(p) /\ UNCHANGED <<draft, picks, league, held>>
  BY DEF BoardInv, records
<1>2. Reached(1, picks) /\ Reached(draft.current_pick, picks)
  BY SlotsNat, TotalType DEF BoardInv, Reached, Slots
<1>3. Reached(seen'[p].current_pick, picks)
  BY <1>1, <1>2 DEF HandOK
<1>4. seen'[p].status = "complete" => Taken(picks) = Slots
  BY <1>1 DEF HandOK, BoardInv, ClosedMeansFull
<1>5. HandOK(p)'
  BY <1>1, <1>3, <1>4 DEF HandOK, Binding, UndoLabels, HasRead, HandIsFull, Gapless, Reached, Taken
<1>. QED BY <1>1, <1>5, QuietKept

(* A step that takes a fresh copy of the picks. *)
LEMMA ReadPicksKept ==
  ASSUME TypeInv, BoardInv, NEW p \in Procs, Frame(p), UNCHANGED <<records, seen>>,
         hand'[p] = picks,
         pc'[p] \in {"repair", "choose", "close", "restart", "sweep_member"} \cup StuckReasons,
         pc'[p] = "repair" => seen[p].current_pick \in Taken(picks),
         pc'[p] = "close" => IsDraftComplete(Taken(picks), Total)
  PROVE  Kept(p)
<1>1. HandOK(p) /\ UNCHANGED <<draft, picks, league, held>>
  BY DEF BoardInv, records
<1>2. pc'[p] \notin UndoLabels \cup {"season", "materialize", "advance", "last_look",
                                    "last_look_armed", "commit", "idle"}
  BY DEF StuckReasons, UndoLabels
<1>3. pc'[p] = "close" => Taken(picks) = Slots
  BY SlotsNat DEF IsDraftComplete, Slots
<1>4. Gapless(picks) /\ Reached(seen[p].current_pick, picks)
  BY <1>1 DEF BoardInv, HandOK
<1>5. HandOK(p)'
  BY <1>1, <1>2, <1>3, <1>4 DEF HandOK, UndoLabels, HandIsFull, Gapless, Reached, Taken
<1>. QED BY <1>1, <1>5, QuietKept

LEMMA BoardAction ==
  ASSUME TypeInv, BoardInv, NEW c \in Calls, ServerAction(c),
         \A target \in 0..Total + 1 : ~RollbackDraft(c, target)
  PROVE  Kept(c)
<1>. USE TypeParts DEF TypeInv
<1>1. c \in Procs /\ HandOK(c) /\ pc[c] \notin UndoLabels
  BY DEF Procs, BoardInv, HandOK
<1>2. CASE MakePick(c)
  <2>1. /\ pc' = [pc EXCEPT ![c] = "read"] /\ UNCHANGED <<records, hand>>
        /\ seen' = [seen EXCEPT ![c].current_pick = draft.current_pick]
    BY <1>2 DEF MakePick, Goto
  <2>2. /\ pc'[c] = "read" /\ seen'[c].current_pick = draft.current_pick
        /\ seen'[c].status = seen[c].status
    BY <1>1, <2>1 DEF LocalsOK, Drafts
  <2>3. Frame(c)
    BY <1>1, <1>2, SoundPick DEF Sound
  <2>. QED BY <1>1, <2>1, <2>2, <2>3, ReadRecordKept DEF Binding, UndoLabels, HasRead, HandIsFull
<1>3. CASE ReadPicks(c)
  <2>1. Frame(c) /\ UNCHANGED <<records, seen>>
    BY <1>1, <1>3, SoundPick DEF Sound, ReadPicks
  <2>2. /\ hand'[c] = picks
        /\ pc'[c] = IF FindUnadvancedPick(seen[c].current_pick, Taken(picks)) # NoSlot
                    THEN "repair" ELSE "choose"
    BY <1>1, <1>3 DEF ReadPicks, Goto, LocalsOK
  <2>3. /\ pc'[c] \in {"repair", "choose"}
        /\ pc'[c] = "repair" => seen[c].current_pick \in Taken(picks)
    BY <2>2 DEF FindUnadvancedPick
  <2>. QED BY <1>1, <2>1, <2>2, <2>3, ReadPicksKept
<1>4. CASE CommitOwnPick(c)
  <2>. DEFINE slot == OnClock(seen[c], hand[c])
  <2>1. /\ pc[c] \in HasRead /\ slot # NoSlot /\ UNCHANGED <<draft, league, held>>
        /\ \E player \in Players : CreatePick(c, slot, player)
    BY <1>4 DEF CommitOwnPick, HasRead
  <2>. QED BY <1>1, <2>1, CreateKept
<1>5. CASE \/ RefusePick(c) \/ SetDraftPaused(c) \/ SetPickClock(c)
           \/ ReconcileLeagueStatus(c)
  <2>1. /\ Leave(c) /\ UNCHANGED <<picks, held>> /\ draft'.current_pick = draft.current_pick
        /\ draft'.status = "complete" => draft.status = "complete"
    BY <1>5 DEF RefusePick, SetDraftPaused, SetPickClock, ReconcileLeagueStatus, records,
       RecordsOK, Drafts
  <2>2. league' = "season" => league = "season" \/ Taken(picks) = Slots
    BY <1>1, <1>5 DEF RefusePick, SetDraftPaused, SetPickClock, ReconcileLeagueStatus, records,
       LeagueShouldBe, HandOK
  <2>3. HandOK(c)' /\ Frame(c)
    BY <1>1, <2>1, LeaveHand, LeaveFact
  <2>. QED BY <1>1, <2>1, <2>2, <2>3, QuietKept
<1>6. ASSUME NEW kind \in {"pause", "resume", "clock"}, ReadForControl(c, kind)
      PROVE  Kept(c)
  <2>1. /\ pc' = [pc EXCEPT ![c] = Control(kind)] /\ UNCHANGED <<records, hand>>
        /\ seen' = [seen EXCEPT ![c] = InHand(kind)]
    BY <1>6 DEF ReadForControl, Goto
  <2>2. pc'[c] = Control(kind) /\ seen'[c] = InHand(kind)
    BY <1>1, <2>1 DEF LocalsOK
  <2>3. Control(kind) \notin Binding
    BY DEF Control, Binding, UndoLabels, HasRead, HandIsFull
  <2>4. InHand(kind).current_pick = 1 /\ InHand(kind).status \in {"live", draft.status}
    BY DEF InHand, FreshDraft
  <2>5. Frame(c)
    BY <1>1, <1>6, SoundControl DEF Sound
  <2>. QED BY <1>1, <2>1, <2>2, <2>3, <2>4, <2>5, ReadRecordKept
<1>7. CASE ReadForRender(c)
  <2>1. /\ pc' = [pc EXCEPT ![c] = "reconcile"] /\ UNCHANGED <<records, hand>>
        /\ seen' = [seen EXCEPT ![c] = draft]
    BY <1>7 DEF ReadForRender, Goto
  <2>2. pc'[c] = "reconcile" /\ seen'[c] = draft
    BY <1>1, <2>1 DEF LocalsOK
  <2>3. Frame(c)
    BY <1>1, <1>7, SoundControl DEF Sound
  <2>. QED BY <1>1, <2>1, <2>2, <2>3, ReadRecordKept DEF Binding, UndoLabels, HasRead, HandIsFull
<1>8. CASE Pipeline(c)
  BY <1>1, <1>8, BoardPipeline
<1>9. ~\E target \in 0..Total + 1 : RollbackDraft(c, target)
  OBVIOUS
<1>10. ~(\/ ComputeRollback(c) \/ PauseForRollback(c) \/ DeletePick(c) \/ RepointDraft(c)
         \/ UnfinishLeague(c))
  BY <1>1 DEF ComputeRollback, PauseForRollback, DeletePick, RepointDraft, UnfinishLeague,
     UndoLabels
<1>. QED BY <1>2, <1>3, <1>4, <1>5, <1>6, <1>7, <1>8, <1>9, <1>10 DEF ServerAction

LEMMA BoardSweep ==
  ASSUME TypeInv, BoardInv, Sweep
  PROVE  Kept(Worker)
<1>. USE TypeParts DEF TypeInv
<1>1. Worker \in Procs /\ HandOK(Worker) /\ Frame(Worker) /\ seen[Worker] \in Drafts
  BY SoundSweep DEF Procs, BoardInv, Sound, LocalsOK
<1>2. CASE ListLiveDraft
  <2>1. /\ pc' = [pc EXCEPT ![Worker] = "sweep_read"] /\ UNCHANGED <<records, hand>>
        /\ seen' = [seen EXCEPT ![Worker] = draft]
    BY <1>2 DEF ListLiveDraft, Goto
  <2>2. pc'[Worker] = "sweep_read" /\ seen'[Worker] = draft
    BY <1>1, <2>1 DEF LocalsOK
  <2>. QED BY <1>1, <2>1, <2>2, ReadRecordKept DEF Binding, UndoLabels, HasRead, HandIsFull
<1>3. CASE SweepReadPicks
  <2>1. UNCHANGED <<records, seen>>
    BY <1>3 DEF SweepReadPicks
  <2>2. hand'[Worker] = picks /\ pc'[Worker] = SweepJob(seen[Worker], picks)
    BY <1>1, <1>3 DEF SweepReadPicks, Goto, LocalsOK
  <2>3. /\ pc'[Worker] \in {"repair", "close", "board_hole", "restart", "sweep_member"}
        /\ pc'[Worker] = "repair" => seen[Worker].current_pick \in Taken(picks)
        /\ pc'[Worker] = "close" => IsDraftComplete(Taken(picks), Total)
    BY <2>2 DEF SweepJob, FindUnadvancedPick
  <2>. QED BY <1>1, <2>1, <2>2, <2>3, ReadPicksKept DEF StuckReasons
<1>4. CASE CloseDraft
  <2>1. /\ Taken(hand[Worker]) = Slots /\ pc[Worker] \in HasRead /\ Total \in Int
        /\ WriteAdvance(Worker, Total) /\ UNCHANGED <<picks, league, held>>
    BY <1>1, <1>4, TotalType DEF CloseDraft, HandOK, HandIsFull, HasRead
  <2>2. Reached(Total + 1, hand[Worker])
    BY <2>1 DEF Reached
  <2>3. seen[Worker].current_pick \in Slots => seen[Worker].current_pick \in Taken(hand[Worker])
    BY <2>1
  <2>. QED BY <1>1, <2>1, <2>2, <2>3, AdvanceKept
<1>5. CASE RestartClock
  <2>1. /\ Done(Worker) /\ UNCHANGED <<picks, held, league>>
        /\ draft'.current_pick = draft.current_pick /\ draft'.status = draft.status
    BY <1>5 DEF RestartClock, RecordsOK, Drafts
  <2>2. HandOK(Worker)'
    BY <1>1, <2>1, DoneHand DEF Grows
  <2>. QED BY <1>1, <2>1, <2>2, QuietKept
<1>6. CASE SweepMember
  <2>. DEFINE slot == OnClock(seen[Worker], hand[Worker])
  <2>1. UNCHANGED <<draft, picks, league, held>> /\ pc[Worker] = "sweep_member"
    BY <1>6 DEF SweepMember, records
  <2>2. CASE Done(Worker)
    <3>1. HandOK(Worker)'
      BY <1>1, <2>1, <2>2, DoneHand DEF Grows
    <3>. QED BY <1>1, <2>1, <3>1, QuietKept
  <2>3. CASE Goto(Worker, "no_legal_player") /\ UNCHANGED <<seen, hand>>
    <3>1. pc'[Worker] = "no_legal_player"
      BY <1>1, <2>3 DEF Goto, LocalsOK
    <3>2. HandOK(Worker)'
      BY <1>1, <2>1, <2>3, <3>1, GotoHand DEF Grows, Binding, UndoLabels, HasRead, HandIsFull
    <3>. QED BY <1>1, <2>1, <3>2, QuietKept
  <2>4. ASSUME NEW label \in {"last_look", "last_look_armed"}, NEW choice,
               Goto(Worker, label), UNCHANGED <<seen, hand>>,
               turn' = [turn EXCEPT ![Worker] = [slot |-> slot, player |-> choice]]
        PROVE  Kept(Worker)
    <3>1. /\ pc'[Worker] = label /\ turn'[Worker].slot = slot
      BY <1>1, <2>4 DEF Goto, LocalsOK
    <3>2. HandOK(Worker)'
      BY <1>1, <2>1, <2>4, <3>1
         DEF HandOK, Binding, UndoLabels, HasRead, HandIsFull, Gapless, Reached, Taken, OnClock
    <3>. QED BY <1>1, <2>1, <3>2, QuietKept
  <2>5. \/ Done(Worker)
        \/ Goto(Worker, "no_legal_player") /\ UNCHANGED <<seen, hand>>
        \/ \E label \in {"last_look", "last_look_armed"}, choice \in Players \cup {NoPlayer} :
             /\ Goto(Worker, label) /\ UNCHANGED <<seen, hand>>
             /\ turn' = [turn EXCEPT ![Worker] = [slot |-> slot, player |-> choice]]
    BY <1>6, ChoiceType DEF SweepMember
  <2>. QED BY <2>2, <2>3, <2>4, <2>5
<1>7. CASE LastLook
  <2>1. UNCHANGED <<draft, picks, league, held>> /\ pc[Worker] \in {"last_look", "last_look_armed"}
    BY <1>7 DEF LastLook, records
  <2>2. CASE Done(Worker)
    <3>1. HandOK(Worker)'
      BY <1>1, <2>1, <2>2, DoneHand DEF Grows
    <3>. QED BY <1>1, <2>1, <3>1, QuietKept
  <2>3. CASE Goto(Worker, "commit") /\ UNCHANGED <<seen, hand, turn>>
    <3>1. pc'[Worker] = "commit"
      BY <1>1, <2>3 DEF Goto, LocalsOK
    <3>2. HandOK(Worker)'
      BY <1>1, <2>1, <2>3, <3>1
         DEF HandOK, Binding, UndoLabels, HasRead, HandIsFull, Gapless, Reached, Taken, OnClock
    <3>. QED BY <1>1, <2>1, <3>2, QuietKept
  <2>. QED BY <1>7, <2>2, <2>3 DEF LastLook
<1>8. CASE CommitAutoPick
  <2>1. /\ turn[Worker].slot \in Slots /\ turn[Worker].player \in Players
        /\ turn[Worker].slot = OnClock(seen[Worker], hand[Worker]) /\ pc[Worker] \in HasRead
        /\ CreatePick(Worker, turn[Worker].slot, turn[Worker].player)
        /\ UNCHANGED <<draft, league, held>>
    BY <1>1, <1>8 DEF CommitAutoPick, ProcOK, HandOK, HasRead
  <2>2. turn[Worker].slot # NoSlot
    BY <2>1, TotalType DEF Slots, NoSlot
  <2>. QED BY <1>1, <2>1, <2>2, CreateKept
<1>9. CASE MarkStuck \/ ClearStuck
  <2>1. /\ Leave(Worker) /\ UNCHANGED <<picks, held, league>>
        /\ draft'.current_pick = draft.current_pick /\ draft'.status = draft.status
    BY <1>9 DEF MarkStuck, ClearStuck, RecordsOK, Drafts
  <2>2. HandOK(Worker)'
    BY <1>1, <2>1, LeaveHand
  <2>. QED BY <1>1, <2>1, <2>2, QuietKept
<1>10. CASE Pipeline(Worker)
  BY <1>1, <1>10, BoardPipeline
<1>. QED BY <1>2, <1>3, <1>4, <1>5, <1>6, <1>7, <1>8, <1>9, <1>10 DEF Sweep

LEMMA BoardFault ==
  ASSUME TypeInv, BoardInv
  PROVE  /\ \A p \in Procs : Crash(p) => Kept(p)
         /\ ThrowTick => Kept(Worker)
<1>. USE TypeParts DEF TypeInv
<1>1. ASSUME NEW p \in Procs, Crash(p) PROVE Kept(p)
  <2>1. Leave(p) /\ Frame(p) /\ UNCHANGED <<draft, picks, held, league>>
    BY <1>1, SoundFault DEF Crash, records, Sound
  <2>. QED BY <2>1, LeaveHand, QuietKept
<1>2. ASSUME ThrowTick PROVE Kept(Worker)
  <2>1. /\ Worker \in Procs /\ Frame(Worker) /\ UNCHANGED <<draft, picks, held, league>>
    BY <1>2, SoundFault DEF Procs, ThrowTick, records, Sound
  <2>2. CASE Leave(Worker)
    BY <2>1, <2>2, LeaveHand, QuietKept
  <2>3. CASE Goto(Worker, "repeated_failure") /\ UNCHANGED <<seen, hand, turn, doomed>>
    <3>1. pc'[Worker] = "repeated_failure"
      BY <2>1, <2>3 DEF Goto, LocalsOK
    <3>2. HandOK(Worker)'
      BY <2>1, <2>3, <3>1, GotoHand DEF Grows, Binding, UndoLabels, HasRead, HandIsFull
    <3>. QED BY <2>1, <3>2, QuietKept
  <2>. QED BY <1>2, <2>2, <2>3 DEF ThrowTick
<1>. QED BY <1>1, <1>2

LEMMA BoardInit == Init => BoardInv
<1>. SUFFICES ASSUME Init PROVE BoardInv
  OBVIOUS
<1>1. Taken(EmptyBoard) = {}
  BY DEF Taken, EmptyBoard
<1>2. Reached(1, EmptyBoard)
  BY TotalType DEF Reached, Slots
<1>3. ASSUME NEW p \in Procs PROVE HandOK(p)
  BY <1>1, <1>2 DEF Init, HandOK, Binding, UndoLabels, HasRead, HandIsFull, FreshDraft, Gapless
<1>. QED BY <1>1, <1>2, <1>3
         DEF Init, BoardInv, FreshDraft, Gapless, ClosedMeansFull, Outcomes, FinishedMeansFull,
             MembershipsComeFromPicks

LEMMA BoardStep ==
  ASSUME TypeInv, BoardInv, [Next]_vars,
         \A c \in Calls, target \in 0..Total + 1 : ~RollbackDraft(c, target)
  PROVE  BoardInv'
<1>1. ASSUME NEW c \in Calls, ServerAction(c) PROVE BoardInv'
  BY <1>1, BoardAction, KeptInv DEF Procs
<1>2. CASE Sweep
  BY <1>2, BoardSweep, KeptInv DEF Procs
<1>3. ASSUME NEW p \in Procs, Crash(p) PROVE BoardInv'
  BY <1>3, BoardFault, KeptInv
<1>4. CASE ThrowTick
  BY <1>4, BoardFault, KeptInv DEF Procs
<1>5. ASSUME UNCHANGED <<picks, held, league, locals>>,
             draft'.current_pick = draft.current_pick, draft'.status = draft.status
      PROVE  BoardInv'
  <2>1. ASSUME NEW q \in Procs PROVE HandOK(q)'
    BY <1>5 DEF BoardInv, HandOK, locals, OnClock, Taken, Gapless, Reached
  <2>. QED BY <1>5, <2>1
           DEF BoardInv, Gapless, Reached, ClosedMeansFull, Outcomes, FinishedMeansFull,
               MembershipsComeFromPicks, Taken
<1>6. ASSUME NEW member \in Members, SetAutodraft(member) PROVE BoardInv'
  BY <1>5, <1>6 DEF SetAutodraft
<1>7. CASE ClockRunsOut
  <2>1. draft'.current_pick = draft.current_pick /\ draft'.status = draft.status
    BY <1>7 DEF ClockRunsOut, TypeInv, TypeOK, Drafts
  <2>. QED BY <1>5, <1>7, <2>1 DEF ClockRunsOut
<1>8. CASE UNCHANGED vars
  BY <1>5, <1>8 DEF vars, records
<1>. QED BY <1>1, <1>2, <1>3, <1>4, <1>6, <1>7, <1>8 DEF Next

LEMMA BoardAlways ==
  ASSUME "undo" \notin Requests
  PROVE  Spec => []BoardInv
<1>1. \A c \in Calls, target \in 0..Total + 1 : ~RollbackDraft(c, target)
  BY DEF RollbackDraft
<1>2. TypeInv /\ BoardInv /\ [Next]_vars => BoardInv'
  BY <1>1, BoardStep
<1>. QED BY <1>2, BoardInit, TypeAlways, PTL DEF Spec

(* On an initial segment that reaches as far as the draft points, the clock *)
(* is on the lowest empty slot.                                             *)
LEMMA NextIsLowest ==
  ASSUME TypeInv, Gapless(picks), draft.status = "live" => Reached(draft.current_pick, picks)
  PROVE  NobodySkipped
<1>. DEFINE taken == Taken(picks)
            empty == Slots \ taken
            cp    == draft.current_pick
            high  == HighestPicked(taken)
<1>. SUFFICES ASSUME draft.status = "live", empty # {}
              PROVE  OnClock(draft, picks) = Min(empty)
  BY DEF NobodySkipped
<1>1. /\ taken \in SUBSET (1..Total) /\ Total \in Nat /\ cp \in Nat /\ Slots = 1..Total
  BY TakenType, TotalType DEF TypeInv, TypeOK, Drafts, Slots
<1>2. /\ \A t \in taken, s \in Slots : s < t => s \in taken
      /\ \A s \in Slots : s < cp => s \in taken
  BY DEF Gapless, Reached
<1>3. OnClock(draft, picks) = WhoIsOnClock("live", cp, taken, Total)
  BY DEF OnClock
<1>4. empty # {} /\ empty \in SUBSET Nat
  BY <1>1
<1>. HIDE DEF taken, cp
<1>5. Min(empty) \in empty /\ \A e \in empty : Min(empty) <= e
  BY <1>4, NatMin
<1>. DEFINE least == Min(empty)
<1>6. /\ high \in 0..Total /\ \A t \in taken : t <= high
      /\ taken # {} => high \in taken
      /\ taken = {} => high = 0
  BY <1>1, HighestPickedFact
<1>. HIDE DEF high, least
<1>7. least \in Slots /\ least \notin taken /\ \A e \in Slots \ taken : least <= e
  BY <1>5 DEF least
<1>8. least >= high + 1
  <2>1. CASE taken = {}
    BY <1>1, <1>6, <1>7, <2>1
  <2>2. CASE taken # {}
    <3>1. least # high /\ ~(least < high)
      BY <1>2, <1>6, <1>7, <2>2
    <3>. QED BY <1>1, <1>6, <1>7, <3>1
  <2>. QED BY <2>1, <2>2
<1>9. high + 1 \in Slots \ taken
  BY <1>1, <1>6, <1>7, <1>8
<1>10. least = high + 1
  BY <1>1, <1>6, <1>7, <1>8, <1>9
<1>11. cp <= high + 1
  BY <1>1, <1>2, <1>6, <1>9
<1>12. WhoIsOnClock("live", cp, taken, Total) = IF high + 1 > Total THEN NoSlot ELSE high + 1
  BY <1>1, <1>11, OnClockIsNext DEF high
<1>13. ~(high + 1 > Total)
  BY <1>1, <1>6, <1>9
<1>. QED BY <1>3, <1>10, <1>12, <1>13 DEF least

(* With nothing undone, whoever the stored record and the picks put on the  *)
(* clock is the member of the lowest empty slot, however the advances, the  *)
(* repairs, the pauses and the crashes interleave: no turn is skipped.      *)
THEOREM NobodyIsSkipped ==
  ASSUME "undo" \notin Requests
  PROVE  Spec => []NobodySkipped
<1>1. TypeInv /\ BoardInv => NobodySkipped
  BY NextIsLowest DEF BoardInv
<1>. QED BY <1>1, BoardAlways, TypeAlways, PTL

(* With nothing undone, the draft is only closed, and the league only sent  *)
(* into its season, over a full board, although advance decides that from   *)
(* the picks it has in hand and reconcileLeagueStatus from a stale record.  *)
THEOREM FinishedIsFull ==
  ASSUME "undo" \notin Requests
  PROVE  Spec => []FinishedMeansFull
<1>1. BoardInv => FinishedMeansFull
  BY DEF BoardInv, Outcomes
<1>. QED BY <1>1, BoardAlways, PTL

(* With nothing undone, every season membership is some pick's.             *)
THEOREM MembershipsArePicks ==
  ASSUME "undo" \notin Requests
  PROVE  Spec => []MembershipsComeFromPicks
<1>1. BoardInv => MembershipsComeFromPicks
  BY DEF BoardInv, Outcomes
<1>. QED BY <1>1, BoardAlways, PTL

-----------------------------------------------------------------------------
(* An undo the manager does alone: while it is under way no other server    *)
(* action and no tick is, and one that has begun to delete is not cut       *)
(* short.  Before and after it anything may happen, crashes included.       *)

UndoAlone ==
  \A c \in Calls, p \in Procs : pc[c] \in UndoLabels /\ p # c => pc[p] = "idle"

Uncut == \A c \in Calls : pc[c] \in {"undo_delete", "undo_point"} => ~Crash(c)

AloneSpec == Init /\ [][Next /\ UndoAlone' /\ Uncut]_vars

(* What is left to delete from the target up, highest first: the board is   *)
(* an initial segment at every moment of the undo, and always holds every   *)
(* pick below the target.                                                   *)
StillToDelete(c) ==
  {[no |-> no, id |-> picks[no].id] : no \in Doomed(Taken(picks), turn[c].slot)}

UndoOK(c) ==
  /\ c \in Calls /\ "undo" \in Requests /\ Gapless(picks)
  /\ pc[c] \in {"undo_read", "undo_pause", "undo_league"} =>
       Reached(draft.current_pick, picks) /\ ClosedMeansFull
  /\ pc[c] = "undo_read" =>
       seen[c].current_pick = draft.current_pick /\ seen[c].status = draft.status
  /\ pc[c] \in {"undo_pause", "undo_delete", "undo_point"} => Reached(turn[c].slot, picks)
  /\ pc[c] \in {"undo_pause", "undo_delete"} => doomed[c] = StillToDelete(c)
  /\ pc[c] \in {"undo_delete", "undo_point"} => draft.status # "live"
  /\ pc[c] = "undo_point" => Doomed(Taken(picks), turn[c].slot) = {}
  /\ pc[c] = "undo_league" => Taken(picks) # Slots
  /\ \A q \in Procs \ {c} : pc[q] = "idle" /\ seen[q] = FreshDraft /\ hand[q] = EmptyBoard

AloneInv ==
  /\ (\A p \in Procs : pc[p] \notin UndoLabels) => BoardInv
  /\ \A c \in Procs : pc[c] \in UndoLabels => UndoOK(c)

(* What an undo does to the board and to the league. *)
Unmakes ==
  \/ UNCHANGED <<picks, league>>
  \/ UNCHANGED league /\ \E no \in Taken(picks) : picks' = [picks EXCEPT ![no] = None]
  \/ UNCHANGED picks /\ league' = "drafting" /\ Taken(picks) # Slots

(* After a step of the undo c: it goes on, or the room is itself again. *)
UndoMoves(c) ==
  Frame(c) /\ Unmakes /\ IF pc'[c] \in UndoLabels THEN UndoOK(c)' ELSE BoardInv'

LEMMA UndoOver ==
  ASSUME TypeInv, NEW c \in Procs, UndoOK(c), Leave(c), Unmakes,
         Gapless(picks'), Reached(draft'.current_pick, picks'), ClosedMeansFull'
  PROVE  UndoMoves(c)
<1>1. Frame(c) /\ pc'[c] = "idle"
  BY LeaveFact, TypeParts DEF TypeInv
<1>2. ASSUME NEW q \in Procs \ {c} PROVE HandOK(q)'
  <2>1. pc'[q] = "idle" /\ seen'[q] = FreshDraft /\ hand'[q] = EmptyBoard
    BY <1>1 DEF Frame, UndoOK
  <2>. QED BY <2>1, IdleHand
<1>3. HandOK(c)'
  BY LeaveHand
<1>4. Outcomes'
  BY DEF UndoOK, Outcomes
<1>. QED BY <1>1, <1>2, <1>3, <1>4 DEF UndoMoves, BoardInv, UndoLabels, Gapless, Reached, Taken

LEMMA UndoStarts ==
  ASSUME TypeInv, BoardInv, NEW c \in Calls, NEW target \in 0..Total + 1,
         RollbackDraft(c, target), UndoAlone'
  PROVE  UndoMoves(c)
<1>1. c \in Procs /\ Frame(c)
  BY SoundUndo DEF Procs, Sound
<1>2. /\ pc'[c] = "undo_read" /\ seen'[c] = draft /\ UNCHANGED <<draft, picks>>
  BY <1>1 DEF RollbackDraft, Goto, TypeInv, TypeOK, records
<1>3. ASSUME NEW q \in Procs \ {c}
      PROVE  pc'[q] = "idle" /\ seen'[q] = FreshDraft /\ hand'[q] = EmptyBoard
  <2>1. pc'[q] = "idle"
    BY <1>2 DEF UndoAlone, UndoLabels
  <2>. QED BY <1>1, <2>1 DEF Frame, BoardInv, HandOK
<1>4. /\ Gapless(picks') /\ Reached(draft'.current_pick, picks') /\ ClosedMeansFull'
      /\ "undo" \in Requests
  BY <1>2 DEF BoardInv, ClosedMeansFull, RollbackDraft, Gapless, Reached, Taken
<1>5. UndoOK(c)'
  BY <1>2, <1>3, <1>4 DEF UndoOK, Gapless, Reached, Taken
<1>6. Unmakes
  BY DEF RollbackDraft, records, Unmakes
<1>. QED BY <1>1, <1>2, <1>5, <1>6 DEF UndoMoves, UndoLabels

(* One record of the undo is deleted, or none is left.                      *)
LEMMA DeleteHighest ==
  ASSUME TypeInv, NEW c \in Procs, UndoOK(c), DeletePick(c)
  PROVE  UndoMoves(c)
<1>. DEFINE slots   == Doomed(Taken(picks), turn[c].slot)
            rec(no) == [no |-> no, id |-> picks[no].id]
            doom    == CHOOSE d \in doomed[c] : \A e \in doomed[c] : d.no >= e.no
<1>1. /\ pc[c] = "undo_delete" /\ Frame(c) /\ turn[c].slot \in Slots
      /\ UNCHANGED <<draft, league>>
  BY SoundUndo DEF DeletePick, Sound, TypeInv, ProcOK
<1>2. /\ doomed[c] = {rec(no) : no \in slots} /\ Gapless(picks) /\ Reached(turn[c].slot, picks)
      /\ draft.status # "live"
  BY <1>1 DEF UndoOK, StillToDelete
<1>3. /\ picks \in Boards /\ Taken(picks) \subseteq Slots /\ Slots \subseteq Nat
      /\ pc \in [Procs -> Labels] /\ doomed \in [Procs -> SUBSET [no: Slots, id: PickIds]]
      /\ turn[c].slot \in Nat
  BY <1>1, SlotsNat DEF TypeInv, TypeOK
<1>4. \A q \in Procs \ {c} : pc'[q] = "idle" /\ seen'[q] = FreshDraft /\ hand'[q] = EmptyBoard
  BY <1>1 DEF UndoOK, Frame
<1>5. slots \subseteq Taken(picks) /\ \A no \in Taken(picks) : no \in slots <=> no >= turn[c].slot
  BY DEF Doomed
<1>. HIDE DEF slots
<1>6. CASE doomed[c] = {}
  <2>1. slots = {}
    BY <1>2, <1>6
  <2>2. pc'[c] = "undo_point" /\ UNCHANGED <<picks, turn>>
    BY <1>1, <1>3, <1>6 DEF DeletePick, Goto
  <2>3. UndoOK(c)'
    BY <1>1, <1>2, <1>4, <2>1, <2>2 DEF UndoOK, slots, Gapless, Reached, Taken
  <2>. QED BY <1>1, <2>2, <2>3 DEF UndoMoves, UndoLabels, Unmakes
<1>7. CASE doomed[c] # {}
  <2>. DEFINE top == Max(slots)
  <2>1. slots # {} /\ slots \in SUBSET (1..Total) /\ Total \in Nat
    BY <1>2, <1>3, <1>5, <1>7, TotalType DEF Slots
  <2>2. top \in slots /\ \A no \in slots : top >= no
    <3>. HIDE DEF slots
    <3>. QED BY <2>1, NatMax
  <2>. HIDE DEF top
  <2>3. \A no \in slots : rec(no).no = no
    OBVIOUS
  <2>4. rec(top) \in doomed[c] /\ \A e \in doomed[c] : rec(top).no >= e.no
    BY <1>2, <2>2, <2>3
  <2>5. doom \in doomed[c] /\ \A e \in doomed[c] : doom.no >= e.no
    BY <2>4
  <2>. HIDE DEF doom
  <2>6. PICK no \in slots : doom = rec(no)
    BY <1>2, <2>5
  <2>7. top \in Nat /\ no \in Nat /\ no >= top /\ top >= no
    BY <1>3, <1>5, <2>2, <2>3, <2>4, <2>5, <2>6
  <2>8. doom = rec(top) /\ doom.no = top /\ doom.id = picks[top].id /\ picks[top] # None
    BY <1>5, <2>2, <2>6, <2>7 DEF Taken
  <2>9. /\ picks'  = [picks EXCEPT ![doom.no] = None]
        /\ doomed' = [doomed EXCEPT ![c] = @ \ {doom}]
        /\ UNCHANGED <<pc, turn>>
    BY <1>7, <2>8 DEF DeletePick, doom
  <2>10. /\ \A s \in Slots \ {top} : picks'[s] = picks[s]
         /\ picks'[top] = None /\ doomed'[c] = doomed[c] \ {rec(top)}
    BY <1>3, <1>5, <2>2, <2>8, <2>9 DEF Boards
  <2>11. Taken(picks') = Taken(picks) \ {top}
    BY <2>10 DEF Taken
  <2>12. ASSUME NEW t \in Taken(picks) PROVE t \in Nat /\ t <= top
    <3>1. t \in Nat /\ top >= turn[c].slot
      BY <1>3, <1>5, <2>2
    <3>2. CASE t \in slots
      BY <2>2, <2>7, <3>1, <3>2
    <3>3. CASE ~(t >= turn[c].slot)
      BY <1>3, <2>7, <3>1, <3>3
    <3>. QED BY <1>5, <3>2, <3>3
  <2>13. Gapless(picks')
    <3>1. SUFFICES ASSUME NEW t \in Taken(picks'), NEW s \in Slots, s < t PROVE s \in Taken(picks')
      BY DEF Gapless, Reached
    <3>2. s \in Taken(picks) /\ s \in Nat
      BY <1>2, <1>3, <2>11, <3>1 DEF Gapless, Reached
    <3>3. t \in Nat /\ t <= top
      BY <2>11, <2>12
    <3>4. s # top
      BY <2>7, <3>1, <3>2, <3>3
    <3>. QED BY <2>11, <3>2, <3>4
  <2>14. Reached(turn'[c].slot, picks')
    <3>1. SUFFICES ASSUME NEW s \in Slots, s < turn[c].slot PROVE s \in Taken(picks')
      BY <2>9 DEF Reached
    <3>2. s \in Taken(picks) /\ s \in Nat /\ top >= turn[c].slot
      BY <1>2, <1>3, <1>5, <2>2, <3>1 DEF Reached
    <3>3. s # top
      BY <1>3, <2>7, <3>1, <3>2
    <3>. QED BY <2>11, <3>2, <3>3
  <2>15. Doomed(Taken(picks'), turn'[c].slot) = slots \ {top}
    BY <1>5, <2>9, <2>11 DEF Doomed
  <2>16. StillToDelete(c)' = {rec(s) : s \in slots \ {top}}
    BY <1>3, <1>5, <2>10, <2>15 DEF StillToDelete
  <2>17. doomed'[c] = StillToDelete(c)'
    BY <1>2, <2>3, <2>10, <2>16
  <2>18. pc'[c] = "undo_delete" /\ draft' = draft
    BY <1>1, <2>9
  <2>19. UndoOK(c)'
    BY <1>2, <1>4, <2>13, <2>14, <2>17, <2>18 DEF UndoOK, Gapless, Reached, Taken
  <2>20. Unmakes
    BY <1>1, <1>5, <2>2, <2>8, <2>9 DEF Unmakes
  <2>. QED BY <1>1, <2>18, <2>19, <2>20 DEF UndoMoves, UndoLabels
<1>. QED BY <1>6, <1>7

LEMMA UndoGoesOn ==
  ASSUME TypeInv, NEW c \in Procs, UndoOK(c),
         ComputeRollback(c) \/ PauseForRollback(c) \/ DeletePick(c) \/ RepointDraft(c)
           \/ UnfinishLeague(c)
  PROVE  UndoMoves(c)
<1>1. /\ Frame(c) /\ Gapless(picks) /\ LocalsOK /\ RecordsOK /\ Slots \subseteq Nat
      /\ draft.current_pick \in Nat
  BY SoundUndo, SlotsNat, TypeParts DEF Sound, UndoOK, TypeInv, RecordsOK, Drafts
<1>2. \A q \in Procs \ {c} : pc'[q] = "idle" /\ seen'[q] = FreshDraft /\ hand'[q] = EmptyBoard
  BY <1>1 DEF UndoOK, Frame
<1>3. CASE ComputeRollback(c)
  <2>. DEFINE slots == Doomed(Taken(picks), turn[c].slot)
  <2>1. /\ pc[c] = "undo_read" /\ UNCHANGED <<draft, picks, league>> /\ turn[c].slot \in Slots
        /\ Reached(draft.current_pick, picks) /\ ClosedMeansFull
        /\ seen[c].current_pick = draft.current_pick /\ seen[c].status = draft.status
    BY <1>3 DEF ComputeRollback, records, UndoOK, TypeInv, ProcOK
  <2>2. CASE slots = {} /\ seen[c].current_pick <= turn[c].slot
    <3>1. Leave(c)
      BY <1>3, <2>2 DEF ComputeRollback
    <3>. QED BY <1>1, <2>1, <3>1, UndoOver DEF ClosedMeansFull, Gapless, Reached, Taken, Unmakes
  <2>3. CASE ~(slots = {} /\ seen[c].current_pick <= turn[c].slot)
    <3>1. /\ doomed' = [doomed EXCEPT ![c] = StillToDelete(c)] /\ UNCHANGED turn
          /\ pc' = [pc EXCEPT ![c] = IF seen[c].status = "live" THEN "undo_pause" ELSE "undo_delete"]
      BY <1>3, <2>3 DEF ComputeRollback, StillToDelete, Goto
    <3>2. /\ doomed'[c] = StillToDelete(c) /\ turn'[c].slot = turn[c].slot
          /\ pc'[c] = IF draft.status = "live" THEN "undo_pause" ELSE "undo_delete"
      BY <1>1, <2>1, <3>1 DEF LocalsOK
    <3>3. Reached(turn[c].slot, picks)
      <4>1. CASE slots # {}
        <5>1. PICK t \in Taken(picks) : t >= turn[c].slot
          BY <4>1 DEF Doomed
        <5>2. t \in Nat /\ turn[c].slot \in Nat /\ Reached(t, picks)
          BY <1>1, <2>1, <5>1, SlotsNat DEF Gapless
        <5>3. ASSUME NEW s \in Slots, s < turn[c].slot PROVE s \in Taken(picks)
          <6>1. s \in Nat /\ s < t
            BY <1>1, <5>1, <5>2, <5>3
          <6>. QED BY <5>2, <6>1 DEF Reached
        <5>. QED BY <5>3 DEF Reached
      <4>2. CASE ~(draft.current_pick <= turn[c].slot)
        <5>1. ASSUME NEW s \in Slots, s < turn[c].slot PROVE s \in Taken(picks)
          <6>1. s \in Nat /\ turn[c].slot \in Nat
            BY <1>1, <2>1
          <6>2. s < draft.current_pick
            BY <1>1, <4>2, <5>1, <6>1
          <6>. QED BY <2>1, <6>2 DEF Reached
        <5>. QED BY <5>1 DEF Reached
      <4>. QED BY <2>1, <2>3, <4>1, <4>2
    <3>4. StillToDelete(c)' = StillToDelete(c)
      BY <2>1, <3>1 DEF StillToDelete, Taken
    <3>5. UndoOK(c)'
      BY <1>1, <1>2, <2>1, <3>2, <3>3, <3>4 DEF UndoOK, ClosedMeansFull, Gapless, Reached, Taken
    <3>. QED BY <1>1, <2>1, <3>2, <3>5 DEF UndoMoves, UndoLabels, Unmakes
  <2>. QED BY <2>2, <2>3
<1>4. CASE PauseForRollback(c)
  <2>1. /\ pc[c] = "undo_pause" /\ UNCHANGED <<picks, league, turn, doomed>>
        /\ Reached(turn[c].slot, picks) /\ doomed[c] = StillToDelete(c)
    BY <1>4 DEF PauseForRollback, UndoOK
  <2>2. pc'[c] = "undo_delete" /\ draft'.status = "paused"
    BY <1>1, <1>4 DEF PauseForRollback, Goto, LocalsOK, RecordsOK, Drafts
  <2>3. StillToDelete(c)' = StillToDelete(c)
    BY <2>1 DEF StillToDelete, Taken
  <2>4. UndoOK(c)'
    BY <1>1, <1>2, <2>1, <2>2, <2>3 DEF UndoOK, Gapless, Reached, Taken
  <2>. QED BY <1>1, <2>1, <2>2, <2>4 DEF UndoMoves, UndoLabels, Unmakes
<1>5. CASE DeletePick(c)
  BY <1>5, DeleteHighest
<1>6. CASE RepointDraft(c)
  <2>1. /\ pc[c] = "undo_point" /\ UNCHANGED <<picks, league>> /\ Reached(turn[c].slot, picks)
        /\ Doomed(Taken(picks), turn[c].slot) = {} /\ turn[c].slot \in Slots
    BY <1>6 DEF RepointDraft, UndoOK, TypeInv, ProcOK
  <2>2. draft'.current_pick = turn[c].slot /\ draft'.status = "paused"
    BY <1>1, <1>6 DEF RepointDraft, RecordsOK, Drafts
  <2>3. Gapless(picks') /\ Reached(draft'.current_pick, picks') /\ ClosedMeansFull'
    BY <1>1, <2>1, <2>2 DEF Gapless, Reached, ClosedMeansFull, Taken
  <2>4. CASE Leave(c)
    BY <2>1, <2>3, <2>4, UndoOver DEF Unmakes
  <2>5. CASE Goto(c, "undo_league")
    <3>1. pc'[c] = "undo_league"
      BY <1>1, <2>5 DEF Goto, LocalsOK
    <3>2. Taken(picks) # Slots
      <4>1. \A no \in Slots : no >= no
        BY TotalType DEF Slots
      <4>2. turn[c].slot \in Slots /\ Doomed(Taken(picks), turn[c].slot) = {}
        BY <2>1
      <4>. QED BY <4>1, <4>2 DEF Doomed
    <3>3. UndoOK(c)'
      BY <1>2, <2>1, <2>3, <3>1, <3>2 DEF UndoOK, Gapless, Reached, Taken
    <3>. QED BY <1>1, <2>1, <3>1, <3>3 DEF UndoMoves, UndoLabels, Unmakes
  <2>. QED BY <1>6, <2>4, <2>5 DEF RepointDraft
<1>7. CASE UnfinishLeague(c)
  <2>1. /\ pc[c] = "undo_league" /\ UNCHANGED <<draft, picks>> /\ Leave(c)
        /\ Reached(draft.current_pick, picks) /\ ClosedMeansFull
    BY <1>7 DEF UnfinishLeague, UndoOK
  <2>2. Unmakes
    BY <1>7 DEF UnfinishLeague, UndoOK, Unmakes
  <2>. QED BY <1>1, <2>1, <2>2, UndoOver DEF ClosedMeansFull, Gapless, Reached, Taken
<1>. QED BY <1>3, <1>4, <1>5, <1>6, <1>7

(* Nobody who is idle can do anything and still be idle, whatever is asked  *)
(* of the room.                                                             *)
LEMMA IdleStarts ==
  ASSUME TypeInv, NEW d \in Procs, pc[d] = "idle",
         (d \in Calls /\ ServerAction(d)) \/ (d = Worker /\ Sweep)
  PROVE  pc'[d] # "idle"
<1>1. pc \in [Procs -> Labels]
  BY DEF TypeInv, TypeOK
<1>2. ~Pipeline(d)
  BY DEF Pipeline, Advance, RepairUnadvanced, FinishLeague, Materialize
<1>3. CASE d \in Calls /\ ServerAction(d)
  <2>1. \/ MakePick(d) \/ \E kind \in {"pause", "resume", "clock"} : ReadForControl(d, kind)
        \/ \E target \in 0..Total + 1 : RollbackDraft(d, target)
        \/ ReadForRender(d)
    BY <1>2, <1>3 DEF ServerAction, ReadPicks, CommitOwnPick, RefusePick, SetDraftPaused,
       SetPickClock, ComputeRollback, PauseForRollback, DeletePick, RepointDraft, UnfinishLeague,
       ReconcileLeagueStatus
  <2>2. \E label \in {"read", "write_pause", "write_resume", "write_clock", "undo_read",
                      "reconcile"} : Goto(d, label)
    BY <2>1 DEF MakePick, ReadForControl, RollbackDraft, ReadForRender, Control
  <2>. QED BY <1>1, <2>2 DEF Goto
<1>4. CASE d = Worker /\ Sweep
  <2>1. ListLiveDraft
    BY <1>2, <1>4 DEF Sweep, SweepReadPicks, CloseDraft, RestartClock, SweepMember, LastLook,
       CommitAutoPick, MarkStuck, ClearStuck, StuckReasons
  <2>. QED BY <1>1, <1>4, <2>1 DEF ListLiveDraft, Goto
<1>. QED BY <1>3, <1>4

(* While the undo c is under way, only c and the clock go on. *)
LEMMA OnlyTheUndoMoves ==
  ASSUME TypeInv, NEW c \in Procs, pc[c] \in UndoLabels, UndoOK(c), Next, UndoAlone', Uncut
  PROVE  \/ UndoMoves(c)
         \/ /\ UNCHANGED <<picks, league, locals>>
            /\ draft'.current_pick = draft.current_pick /\ draft'.status = draft.status
<1>1. /\ c \in Calls /\ c # Worker /\ Worker \in Procs
      /\ \A q \in Procs \ {c} : pc[q] = "idle"
  BY RoomAssumption DEF UndoOK, Procs
<1>2. ASSUME NEW d \in Procs \ {c}, Frame(d) PROVE pc'[d] = "idle"
  <2>1. pc'[c] \in UndoLabels
    BY <1>2 DEF Frame
  <2>. QED BY <1>1, <2>1 DEF UndoAlone
<1>3. CASE \E d \in Calls : ServerAction(d)
  <2>1. PICK d \in Calls : ServerAction(d)
    BY <1>3
  <2>2. d \in Procs /\ Frame(d)
    BY <2>1, SoundPick, SoundControl, SoundUndo, SoundPipeline DEF Procs, ServerAction, Sound
  <2>3. d = c
    BY <1>1, <1>2, <2>1, <2>2, IdleStarts
  <2>4. ~Pipeline(c)
    BY DEF UndoLabels, Pipeline, Advance, RepairUnadvanced, FinishLeague, Materialize
  <2>5. \/ ComputeRollback(c) \/ PauseForRollback(c) \/ DeletePick(c) \/ RepointDraft(c)
        \/ UnfinishLeague(c)
    BY <2>1, <2>3, <2>4 DEF UndoLabels, ServerAction, MakePick, ReadPicks, CommitOwnPick,
       RefusePick, ReadForControl, SetDraftPaused, SetPickClock, RollbackDraft, ReadForRender,
       ReconcileLeagueStatus
  <2>. QED BY <2>5, UndoGoesOn
<1>4. CASE Sweep
  <2>1. Frame(Worker)
    BY <1>4, SoundSweep DEF Sound
  <2>. QED BY <1>1, <1>2, <1>4, <2>1, IdleStarts
<1>5. ASSUME NEW member \in Members, SetAutodraft(member)
      PROVE  /\ UNCHANGED <<picks, league, locals>>
             /\ draft'.current_pick = draft.current_pick /\ draft'.status = draft.status
  BY <1>5 DEF SetAutodraft
<1>6. ASSUME NEW p \in Procs, Crash(p) PROVE UndoMoves(c)
  <2>1. p = c /\ pc[c] \in {"undo_read", "undo_pause", "undo_league"}
    BY <1>1, <1>6 DEF Crash, Uncut, UndoLabels
  <2>2. Leave(c) /\ UNCHANGED <<draft, picks, league>>
    BY <1>6, <2>1 DEF Crash, records
  <2>3. Gapless(picks') /\ Reached(draft'.current_pick, picks') /\ ClosedMeansFull'
    BY <2>1, <2>2 DEF UndoOK, ClosedMeansFull, Gapless, Reached, Taken
  <2>. QED BY <2>2, <2>3, UndoOver DEF Unmakes
<1>7. CASE ThrowTick
  BY <1>1, <1>7 DEF ThrowTick
<1>8. CASE ClockRunsOut
  BY <1>8 DEF ClockRunsOut, TypeInv, TypeOK, Drafts
<1>. QED BY <1>3, <1>4, <1>5, <1>6, <1>7, <1>8 DEF Next

LEMMA AloneStep ==
  ASSUME TypeInv, AloneInv, [Next /\ UndoAlone' /\ Uncut]_vars
  PROVE  AloneInv'
<1>1. ASSUME NEW c \in Procs, UndoMoves(c), \A q \in Procs \ {c} : pc[q] \notin UndoLabels
      PROVE  AloneInv'
  <2>1. \A q \in Procs \ {c} : pc'[q] \notin UndoLabels
    BY <1>1 DEF UndoMoves, Frame
  <2>2. BoardInv' => pc'[c] \notin UndoLabels
    BY DEF BoardInv, HandOK
  <2>. QED BY <1>1, <2>1, <2>2 DEF UndoMoves, AloneInv
<1>2. ASSUME NEW c \in Procs, pc[c] \in UndoLabels, Next, UndoAlone', Uncut PROVE AloneInv'
  <2>1. UndoOK(c) /\ \A q \in Procs \ {c} : pc[q] \notin UndoLabels
    BY <1>2 DEF AloneInv, UndoOK, UndoLabels
  <2>2. CASE UndoMoves(c)
    BY <1>1, <2>1, <2>2
  <2>3. CASE /\ UNCHANGED <<picks, league, locals>>
             /\ draft'.current_pick = draft.current_pick /\ draft'.status = draft.status
    <3>1. StillToDelete(c)' = StillToDelete(c)
      BY <2>3 DEF StillToDelete, Taken, locals
    <3>2. UndoOK(c)'
      BY <2>1, <2>3, <3>1 DEF UndoOK, ClosedMeansFull, Gapless, Reached, Taken, locals
    <3>. QED BY <1>2, <2>1, <2>3, <3>2 DEF AloneInv, locals
  <2>. QED BY <1>2, <2>1, <2>2, <2>3, OnlyTheUndoMoves
<1>3. ASSUME \A p \in Procs : pc[p] \notin UndoLabels, Next, UndoAlone' PROVE AloneInv'
  <2>1. BoardInv
    BY <1>3 DEF AloneInv
  <2>2. ASSUME NEW c \in Calls, NEW target \in 0..Total + 1, RollbackDraft(c, target)
        PROVE  AloneInv'
    BY <1>1, <1>3, <2>1, <2>2, UndoStarts DEF Procs
  <2>3. CASE \A c \in Calls, target \in 0..Total + 1 : ~RollbackDraft(c, target)
    <3>1. BoardInv'
      BY <1>3, <2>1, <2>3, BoardStep
    <3>. QED BY <3>1 DEF AloneInv, BoardInv, HandOK
  <2>. QED BY <2>2, <2>3
<1>4. CASE UNCHANGED vars
  <2>1. ASSUME BoardInv PROVE BoardInv'
    <3>1. \A c \in Calls, target \in 0..Total + 1 : ~RollbackDraft(c, target)
      BY <1>4 DEF vars, locals, RollbackDraft, Goto, TypeInv, TypeOK, Procs
    <3>. QED BY <1>4, <2>1, <3>1, BoardStep
  <2>2. ASSUME NEW c \in Procs, UndoOK(c) PROVE UndoOK(c)'
    BY <1>4, <2>2 DEF UndoOK, ClosedMeansFull, StillToDelete, Gapless, Reached, Taken, vars,
       locals, records
  <2>. QED BY <1>4, <2>1, <2>2 DEF AloneInv, vars, locals
<1>. QED BY <1>2, <1>3, <1>4

LEMMA AloneGapless == AloneInv => Gapless(picks)
BY DEF AloneInv, BoardInv, UndoOK

LEMMA AloneAlways == AloneSpec => [](TypeInv /\ AloneInv)
<1>1. Init => TypeInv /\ AloneInv
  BY TypeInit, BoardInit DEF AloneInv, Init, UndoLabels
<1>2. TypeInv /\ AloneInv /\ [Next /\ UndoAlone' /\ Uncut]_vars => TypeInv' /\ AloneInv'
  BY TypeStep, AloneStep
<1>. QED BY <1>1, <1>2, PTL DEF AloneSpec

(* An undo the manager does alone leaves exactly the picks below its target *)
(* and the draft paused at the target, from every board that picks, ticks,  *)
(* pauses, resumes, crashes and earlier undos can leave, a finished one     *)
(* included.                                                                *)
THEOREM UndoAlwaysLandsClean == AloneSpec => UndoLandsClean
<1>. DEFINE Lands(c) ==
       pc[c] = "undo_point" /\ pc'[c] # "undo_point" /\ faults' = faults =>
         /\ Taken(picks') = 1..turn[c].slot - 1
         /\ draft'.current_pick = turn[c].slot /\ draft'.status = "paused"
<1>1. ASSUME TypeInv, AloneInv, Next, Uncut, NEW c \in Calls, pc[c] = "undo_point",
             pc'[c] # "undo_point", faults' = faults
      PROVE  Lands(c)
  <2>1. c \in Procs /\ pc[c] \in UndoLabels /\ UndoOK(c) /\ turn[c].slot \in Slots
    BY <1>1 DEF AloneInv, Procs, UndoLabels, TypeInv, ProcOK
  <2>2. RepointDraft(c)
    <3>1. ASSUME NEW d \in Procs, Frame(d) PROVE d = c
      BY <1>1, <2>1, <3>1 DEF Frame
    <3>2. ASSUME NEW d \in Calls, ServerAction(d) PROVE RepointDraft(c)
      <4>1. d \in Procs /\ Frame(d)
        BY <1>1, <3>2, SoundPick, SoundControl, SoundUndo, SoundPipeline
           DEF Procs, ServerAction, Sound
      <4>2. d = c
        BY <3>1, <4>1
      <4>. QED BY <1>1, <3>2, <4>2
           DEF ServerAction, MakePick, ReadPicks, CommitOwnPick, RefusePick, ReadForControl,
               SetDraftPaused, SetPickClock, RollbackDraft, ComputeRollback, PauseForRollback,
               DeletePick, UnfinishLeague, ReadForRender, ReconcileLeagueStatus, Pipeline,
               Advance, RepairUnadvanced, FinishLeague, Materialize
    <3>3. ~Sweep
      <4>1. SUFFICES ASSUME Sweep PROVE FALSE
        OBVIOUS
      <4>2. Frame(Worker) /\ Worker \in Procs /\ Worker # c
        BY <1>1, <4>1, SoundSweep, RoomAssumption DEF Sound, Procs
      <4>. QED BY <3>1, <4>2
    <3>4. ASSUME NEW p \in Procs, Crash(p) PROVE FALSE
      <4>1. Frame(p)
        BY <1>1, <3>4, SoundFault DEF Sound
      <4>. QED BY <1>1, <3>1, <3>4, <4>1 DEF Uncut
    <3>5. ~ThrowTick
      <4>1. SUFFICES ASSUME ThrowTick PROVE FALSE
        OBVIOUS
      <4>2. Frame(Worker) /\ Worker \in Procs /\ Worker # c
        BY <1>1, <4>1, SoundFault, RoomAssumption DEF Sound, Procs
      <4>. QED BY <3>1, <4>2
    <3>6. ~(UNCHANGED locals)
      BY <1>1 DEF locals
    <3>7. \/ \E d \in Calls : ServerAction(d)
          \/ Sweep \/ \E member \in Members : SetAutodraft(member)
          \/ \E p \in Procs : Crash(p)
          \/ ThrowTick \/ ClockRunsOut
      BY <1>1 DEF Next
    <3>8. (\A member \in Members : ~SetAutodraft(member)) /\ ~ClockRunsOut
      BY <3>6 DEF SetAutodraft, ClockRunsOut
    <3>. QED BY <3>2, <3>3, <3>4, <3>5, <3>7, <3>8
  <2>3. /\ picks' = picks /\ draft'.current_pick = turn[c].slot /\ draft'.status = "paused"
    BY <1>1, <2>2 DEF RepointDraft, TypeInv, TypeOK, Drafts
  <2>4. Doomed(Taken(picks), turn[c].slot) = {} /\ Reached(turn[c].slot, picks)
    BY <1>1, <2>1 DEF UndoOK
  <2>5. Taken(picks) = 1..turn[c].slot - 1
    <3>1. Taken(picks) \subseteq Slots /\ Slots = 1..Total /\ Total \in Nat
      BY SlotsNat, TotalType DEF Slots
    <3>. DEFINE target == turn[c].slot
    <3>2. target \in 1..Total /\ \A no \in Taken(picks) : ~(no >= target)
      BY <2>1, <2>4, <3>1 DEF Doomed
    <3>3. \A s \in 1..Total : s < target => s \in Taken(picks)
      BY <2>4, <3>1 DEF Reached
    <3>. HIDE DEF target
    <3>4. ASSUME NEW s \in Taken(picks) PROVE s \in 1..target - 1
      BY <3>1, <3>2
    <3>5. ASSUME NEW s \in 1..target - 1 PROVE s \in Taken(picks)
      <4>1. s \in 1..Total /\ s < target
        BY <3>1, <3>2
      <4>. QED BY <3>3, <4>1
    <3>6. Taken(picks) = 1..target - 1
      BY <3>4, <3>5
    <3>. QED BY <3>6 DEF target
  <2>6. Taken(picks') = Taken(picks)
    BY <2>3
  <2>. QED BY <2>3, <2>5, <2>6
<1>2. TypeInv /\ AloneInv /\ [Next /\ UndoAlone' /\ Uncut]_vars => [\A c \in Calls : Lands(c)]_vars
  BY <1>1
<1>. QED BY <1>2, AloneAlways, PTL DEF AloneSpec, UndoLandsClean

(* Nor does such an undo ever leave anybody out: whatever was undone, a     *)
(* live draft is on the lowest empty slot.                                  *)
THEOREM UndoneNobodyIsSkipped == AloneSpec => []NobodySkipped
<1>1. ASSUME TypeInv, AloneInv PROVE NobodySkipped
  <2>1. Gapless(picks) /\ (draft.status = "live" => Reached(draft.current_pick, picks))
    BY <1>1 DEF AloneInv, BoardInv, UndoOK, UndoLabels
  <2>. QED BY <1>1, <2>1, NextIsLowest
<1>. QED BY <1>1, AloneAlways, PTL

-----------------------------------------------------------------------------
(* What the sweep has decided.  From the moment it comes to a member until  *)
(* it writes, nothing in hand is stranded, and the player it means to pick  *)
(* is legal on the board in hand.                                           *)

Deciding == {"last_look", "last_look_armed", "commit"}

LegalInHand ==
  IsLegalPick(turn[Worker].player, RosterOf(hand[Worker], PickOrder[turn[Worker].slot]),
              Position, Template, TakenPlayers(hand[Worker]))

DecisionOK ==
  /\ pc[Worker] \in Deciding \cup {"sweep_member"} =>
       seen[Worker].current_pick \notin Taken(hand[Worker])
  /\ pc[Worker] \in Deciding => LegalInHand

LEMMA ChosenIsLegal ==
  ASSUME NEW slot, NEW sheet, Choice(slot, sheet) # NoPlayer
  PROVE  IsLegalPick(Choice(slot, sheet), RosterOf(hand[Worker], PickOrder[slot]),
                     Position, Template, TakenPlayers(hand[Worker]))
BY DEF Choice, SelectAutoPick

(* Nothing the tick has in hand is stranded once it comes to a member.      *)
LEMMA NothingStranded ==
  ASSUME NEW state \in Drafts, NEW board \in Boards, SweepJob(state, board) = "sweep_member"
  PROVE  state.current_pick \notin Taken(board)
<1>1. FindUnadvancedPick(state.current_pick, Taken(board)) = NoSlot
  BY DEF SweepJob
<1>2. ASSUME state.current_pick \in Taken(board)
      PROVE  FirstFree(state.current_pick + 1, Taken(board)) >= state.current_pick + 1
  <2>1. Taken(board) \in SUBSET (1..Total) /\ Total \in Nat /\ state.current_pick + 1 \in Nat
    BY TakenType, TotalType DEF Drafts
  <2>. QED BY <2>1, FirstFreeFact
<1>3. state.current_pick \in Nat
  BY DEF Drafts
<1>. QED BY <1>1, <1>2, <1>3 DEF FindUnadvancedPick, NoSlot

LEMMA DecisionKept ==
  ASSUME TypeInv, DecisionOK, [Next]_vars
  PROVE  DecisionOK'
<1>. USE TypeParts DEF TypeInv
<1>0. Worker \in Procs /\ LocalsOK /\ picks \in Boards
  BY DEF Procs, RecordsOK
<1>1. ASSUME pc'[Worker] \notin Deciding \cup {"sweep_member"} PROVE DecisionOK'
  BY <1>1 DEF DecisionOK
<1>2. ASSUME pc'[Worker] = pc[Worker], seen'[Worker] = seen[Worker],
             hand'[Worker] = hand[Worker], turn'[Worker] = turn[Worker]
      PROVE  DecisionOK'
  BY <1>2 DEF DecisionOK, LegalInHand, Taken, TakenPlayers, RosterOf
<1>3. ASSUME Done(Worker) \/ Leave(Worker) PROVE DecisionOK'
  BY <1>0, <1>1, <1>3, DoneFact, LeaveFact DEF Deciding
<1>4. ASSUME NEW label \in Labels \ (Deciding \cup {"sweep_member"}), Goto(Worker, label)
      PROVE  DecisionOK'
  BY <1>0, <1>1, <1>4, GotoFact
<1>5. ASSUME NEW filledNo, WriteAdvance(Worker, filledNo) PROVE DecisionOK'
  BY <1>3, <1>4, <1>5 DEF WriteAdvance, Labels, Deciding
<1>6. CASE Pipeline(Worker)
  BY <1>3, <1>4, <1>5, <1>6
     DEF Pipeline, Advance, RepairUnadvanced, FinishLeague, Materialize, Labels, Deciding
<1>7. CASE SweepReadPicks
  <2>1. /\ hand'[Worker] = picks /\ pc'[Worker] = SweepJob(seen[Worker], picks)
        /\ seen'[Worker] = seen[Worker] /\ seen[Worker] \in Drafts
    BY <1>0, <1>7 DEF SweepReadPicks, Goto, LocalsOK
  <2>2. pc'[Worker] \notin Deciding
    BY <2>1, SweepJobFact DEF Deciding
  <2>. QED BY <1>0, <2>1, <2>2, NothingStranded DEF DecisionOK, Taken
<1>8. CASE SweepMember
  <2>. DEFINE slot == OnClock(seen[Worker], hand[Worker])
  <2>1. pc[Worker] = "sweep_member" /\ seen[Worker].current_pick \notin Taken(hand[Worker])
    BY <1>8 DEF SweepMember, DecisionOK
  <2>2. \/ Done(Worker) \/ Goto(Worker, "no_legal_player")
        \/ \E label \in {"last_look", "last_look_armed"} : \E sheet :
             /\ Choice(slot, sheet) # NoPlayer
             /\ Goto(Worker, label) /\ UNCHANGED <<seen, hand>>
             /\ turn' = [turn EXCEPT ![Worker] = [slot |-> slot, player |-> Choice(slot, sheet)]]
    BY <1>8 DEF SweepMember
  <2>3. ASSUME NEW label \in {"last_look", "last_look_armed"}, NEW sheet,
               Choice(slot, sheet) # NoPlayer,
               Goto(Worker, label), UNCHANGED <<seen, hand>>,
               turn' = [turn EXCEPT ![Worker] = [slot |-> slot, player |-> Choice(slot, sheet)]]
        PROVE  DecisionOK'
    <3>1. /\ turn'[Worker] = [slot |-> slot, player |-> Choice(slot, sheet)]
          /\ seen' = seen /\ hand' = hand
      BY <1>0, <2>3 DEF LocalsOK
    <3>2. LegalInHand'
      BY <2>3, <3>1, ChosenIsLegal DEF LegalInHand, RosterOf, Taken, TakenPlayers
    <3>. QED BY <2>1, <3>1, <3>2 DEF DecisionOK, Taken
  <2>. QED BY <1>3, <1>4, <2>2, <2>3 DEF Labels, Deciding, StuckReasons
<1>9. CASE LastLook
  <2>1. CASE Done(Worker)
    BY <1>3, <2>1
  <2>2. CASE Goto(Worker, "commit") /\ UNCHANGED <<seen, hand, turn>>
    BY <1>9, <2>2 DEF LastLook, DecisionOK, Deciding, LegalInHand, Taken, TakenPlayers, RosterOf
  <2>. QED BY <1>9, <2>1, <2>2 DEF LastLook
<1>10. CASE CommitAutoPick
  BY <1>3, <1>4, <1>10 DEF CommitAutoPick, CreatePick, Labels, Deciding
<1>11. CASE ListLiveDraft \/ CloseDraft \/ RestartClock \/ MarkStuck \/ ClearStuck
  BY <1>3, <1>4, <1>5, <1>11
     DEF ListLiveDraft, CloseDraft, RestartClock, MarkStuck, ClearStuck, Labels, Deciding
<1>12. CASE Sweep
  BY <1>6, <1>7, <1>8, <1>9, <1>10, <1>11, <1>12 DEF Sweep
<1>13. ASSUME NEW p \in Calls, Frame(p) PROVE DecisionOK'
  BY <1>0, <1>2, <1>13, RoomAssumption DEF Frame
<1>14. ASSUME NEW c \in Calls, ServerAction(c) PROVE DecisionOK'
  <2>1. c \in Procs
    BY DEF Procs
  <2>2. Sound(c)
    BY <1>14, <2>1, SoundPick, SoundControl, SoundUndo, SoundPipeline DEF ServerAction
  <2>. QED BY <1>13, <2>2 DEF Sound
<1>15. ASSUME NEW p \in Procs, Crash(p) PROVE DecisionOK'
  BY <1>3, <1>13, <1>15, SoundFault DEF Crash, Sound, Procs
<1>16. CASE ThrowTick
  BY <1>3, <1>4, <1>16 DEF ThrowTick, Labels, Deciding, StuckReasons
<1>17. ASSUME UNCHANGED locals PROVE DecisionOK'
  BY <1>2, <1>17 DEF locals
<1>18. CASE (\E member \in Members : SetAutodraft(member)) \/ ClockRunsOut \/ UNCHANGED vars
  BY <1>17, <1>18 DEF SetAutodraft, ClockRunsOut, vars, locals
<1>. QED BY <1>12, <1>14, <1>15, <1>16, <1>18 DEF Next

-----------------------------------------------------------------------------
(* The board a pick lands on.  Every slot below the one a process is about  *)
(* to fill was taken on the board it read, so if that slot is still empty   *)
(* the board has not moved: unique(draft, overall_no) makes the decision    *)
(* exactly as fresh as the write.                                           *)

(* If the slot a process is about to fill is still empty, nothing has       *)
(* happened to the board since it read it.                                  *)
LEMMA HandIsBoard ==
  ASSUME TypeInv, BoardInv, NEW p \in Procs, pc[p] \in HasRead,
         NEW slot, slot = OnClock(seen[p], hand[p]), slot # NoSlot, picks[slot] = None
  PROVE  /\ hand[p] = picks /\ slot \in Slots
         /\ \A s \in Slots : s \in Taken(picks) <=> s < slot
<1>1. /\ HandOK(p) /\ Gapless(picks) /\ seen[p] \in Drafts
      /\ hand[p] \in [Slots -> Picks \cup {None}] /\ picks \in [Slots -> Picks \cup {None}]
  BY DEF BoardInv, TypeInv, TypeOK, Boards
<1>2. /\ slot \in Slots \ Taken(hand[p])
      /\ \A s \in Slots : s < slot => s \in Taken(hand[p])
      /\ \A t \in Taken(hand[p]) : t < slot
  BY <1>1, NextSlot DEF HandOK, Boards
<1>3. \A s \in Slots : s \in Taken(hand[p]) <=> s < slot
  BY <1>2
<1>4. \A s \in Slots : s \in Taken(picks) <=> s < slot
  <2>1. ASSUME NEW s \in Slots, s < slot PROVE s \in Taken(picks)
    BY <1>3, <2>1, HandSubset
  <2>2. ASSUME NEW s \in Taken(picks) PROVE s < slot
    <3>1. s \in Slots /\ s # slot /\ ~(slot < s)
      BY <1>1, <1>2, <2>2 DEF Gapless, Reached, Taken
    <3>. QED BY <1>2, <3>1, SlotsNat
  <2>. QED BY <2>1, <2>2
<1>5. \A s \in Slots : hand[p][s] = picks[s]
  BY <1>1, <1>3, <1>4 DEF HandOK, Taken
<1>. QED BY <1>1, <1>2, <1>4, <1>5

(* A legal pick at the first empty slot of the board. *)
LegalPick(slot, pick) ==
  /\ slot \in Slots /\ pick \in Picks /\ pick.member = PickOrder[slot]
  /\ \A s \in Slots : s \in Taken(picks) <=> s < slot
  /\ IsLegalPick(pick.player, RosterOf(picks, PickOrder[slot]), Position, Template,
                 TakenPlayers(picks))
  /\ picks' = [picks EXCEPT ![slot] = pick]

(* Whoever writes a pick, and however long ago the caps were checked: it is *)
(* legal on the board it lands on.                                          *)
LEMMA LegalOnArrival ==
  ASSUME TypeInv, BoardInv, DecisionOK, [Next]_vars
  PROVE  UNCHANGED picks \/ \E slot, pick : LegalPick(slot, pick)
<1>. USE TypeParts DEF TypeInv
<1>1. ASSUME NEW p \in Procs, NEW slot, NEW player \in Players,
             pc[p] \in HasRead, slot = OnClock(seen[p], hand[p]), slot # NoSlot,
             IsLegalPick(player, RosterOf(hand[p], PickOrder[slot]), Position, Template,
                         TakenPlayers(hand[p])),
             CreatePick(p, slot, player)
      PROVE  UNCHANGED picks \/ \E no, pick : LegalPick(no, pick)
  <2>. DEFINE pick == [id |-> FreshId, member |-> PickOrder[slot], player |-> player]
  <2>1. CASE RefusedByIndex(slot, player)
    BY <1>1, <2>1 DEF CreatePick
  <2>2. CASE ~RefusedByIndex(slot, player)
    <3>1. /\ UsedIds # PickIds /\ picks' = [picks EXCEPT ![slot] = pick]
          /\ picks[slot] = None
      BY <1>1, <2>2 DEF CreatePick, RefusedByIndex
    <3>2. /\ hand[p] = picks /\ slot \in Slots
          /\ \A s \in Slots : s \in Taken(picks) <=> s < slot
      BY <1>1, <3>1, HandIsBoard
    <3>3. pick \in Picks /\ pick.player = player /\ pick.member = PickOrder[slot]
      BY <3>1, <3>2, FreshIdFact, PickOrderType DEF Picks
    <3>4. IsLegalPick(player, RosterOf(picks, PickOrder[slot]), Position, Template,
                      TakenPlayers(picks))
      BY <1>1, <3>2
    <3>. HIDE DEF pick
    <3>5. LegalPick(slot, pick)
      BY <3>1, <3>2, <3>3, <3>4 DEF LegalPick
    <3>. QED BY <3>5
  <2>. QED BY <2>1, <2>2
<1>2. ASSUME NEW c \in Calls, CommitOwnPick(c)
      PROVE  UNCHANGED picks \/ \E slot, pick : LegalPick(slot, pick)
  <2>1. c \in Procs /\ pc[c] \in HasRead
    BY <1>2 DEF Procs, CommitOwnPick, HasRead
  <2>. QED BY <1>1, <1>2, <2>1 DEF CommitOwnPick
<1>3. CASE CommitAutoPick
  <2>1. /\ Worker \in Procs /\ pc[Worker] \in HasRead /\ turn[Worker].player \in Players
        /\ turn[Worker].slot = OnClock(seen[Worker], hand[Worker])
        /\ turn[Worker].slot \in Slots
    BY <1>3 DEF Procs, CommitAutoPick, HasRead, ProcOK, BoardInv, HandOK
  <2>2. turn[Worker].slot # NoSlot
    BY <2>1, TotalType DEF Slots, NoSlot
  <2>3. LegalInHand /\ CreatePick(Worker, turn[Worker].slot, turn[Worker].player)
    BY <1>3 DEF CommitAutoPick, DecisionOK, Deciding
  <2>. QED BY <1>1, <2>1, <2>2, <2>3 DEF LegalInHand
<1>4. ASSUME NEW c \in Calls, ServerAction(c), ~CommitOwnPick(c) PROVE UNCHANGED picks
  <2>1. pc[c] \notin UndoLabels
    BY DEF BoardInv, HandOK, Procs
  <2>2. ~DeletePick(c)
    BY <2>1 DEF DeletePick, UndoLabels
  <2>. QED BY <1>4, <2>2 DEF ServerAction, MakePick, ReadPicks, RefusePick, ReadForControl,
     SetDraftPaused, SetPickClock, RollbackDraft, ComputeRollback, PauseForRollback,
     RepointDraft, UnfinishLeague, ReadForRender, ReconcileLeagueStatus, records,
     Pipeline, Advance, RepairUnadvanced, FinishLeague, Materialize
<1>5. ASSUME Sweep, ~CommitAutoPick PROVE UNCHANGED picks
  BY <1>5 DEF Sweep, ListLiveDraft, SweepReadPicks, CloseDraft, RestartClock,
     SweepMember, LastLook, MarkStuck, ClearStuck, records,
     Pipeline, Advance, RepairUnadvanced, FinishLeague, Materialize
<1>6. ASSUME \/ \E member \in Members : SetAutodraft(member)
             \/ \E p \in Procs : Crash(p)
             \/ ThrowTick \/ ClockRunsOut \/ UNCHANGED vars
      PROVE  UNCHANGED picks
  BY <1>6 DEF SetAutodraft, Crash, ThrowTick, ClockRunsOut, vars, records
<1>. QED BY <1>2, <1>3, <1>4, <1>5, <1>6 DEF Next

-----------------------------------------------------------------------------
(* Rosters stay inside the caps.                                            *)

LEMMA RosterFinite ==
  ASSUME NEW board \in Boards, NEW member
  PROVE  IsFiniteSet(RosterOf(board, member))
<1>. DEFINE nos == {s \in Taken(board) : board[s].member = member}
            f   == [no \in nos |-> board[no].player]
<1>1. IsFiniteSet(1..Total)
  BY TotalType, FS_Interval
<1>2. nos \in SUBSET (1..Total)
  BY DEF Taken, Slots
<1>3. IsFiniteSet(nos)
  <2>. HIDE DEF nos
  <2>. QED BY <1>1, <1>2, FS_Subset
<1>4. f \in Surjection(nos, RosterOf(board, member))
  BY DEF Surjection, RosterOf
<1>. HIDE DEF nos, f
<1>. QED BY <1>3, <1>4, FS_Surjection

(* A legal pick adds one player to one roster. *)
LEMMA RosterGrows ==
  ASSUME NEW slot, NEW pick, picks \in Boards, LegalPick(slot, pick), NEW member
  PROVE  RosterOf(picks', member) =
           IF member = PickOrder[slot] THEN RosterOf(picks, member) \cup {pick.player}
                                       ELSE RosterOf(picks, member)
<1>1. /\ slot \in Slots /\ pick # None /\ slot \notin Taken(picks)
      /\ pick.member = PickOrder[slot]
  BY RoomAssumption, SlotsNat DEF LegalPick
<1>2. /\ picks'[slot] = pick
      /\ \A s \in Slots \ {slot} : picks'[s] = picks[s]
  BY <1>1 DEF LegalPick, Boards
<1>3. Taken(picks') = Taken(picks) \cup {slot}
  BY <1>1, <1>2 DEF Taken
<1>4. \A s \in Taken(picks) : picks'[s] = picks[s]
  BY <1>1, <1>2 DEF Taken
<1>. QED BY <1>1, <1>2, <1>3, <1>4 DEF RosterOf

LEMMA CapsKept ==
  ASSUME TypeInv, RostersLegal, NEW slot, NEW pick, LegalPick(slot, pick)
  PROVE  RostersLegal'
<1>1. picks \in Boards /\ picks' = [picks EXCEPT ![slot] = pick]
  BY DEF TypeInv, TypeOK, LegalPick
<1>2. SUFFICES ASSUME NEW member \in Members, NEW bucket \in Positions
               PROVE  CountByPosition(RosterOf(picks', member), Position, bucket)
                        <= Template[bucket]
  BY DEF RostersLegal
<1>. DEFINE before == RosterOf(picks, member)
            after  == RosterOf(picks', member)
            had == {player \in before : Position[player] = bucket}
            has == {player \in after : Position[player] = bucket}
            cap == Template[bucket]
<1>3. Cardinality(had) <= cap
  BY DEF RostersLegal, CountByPosition
<1>4. after = IF member = PickOrder[slot] THEN before \cup {pick.player} ELSE before
  BY <1>1, RosterGrows
<1>5. IsFiniteSet(had)
  BY <1>1, RosterFinite, FS_Subset
<1>6. /\ member = PickOrder[slot] /\ Position[pick.player] = bucket => Cardinality(had) < cap
      /\ cap \in Nat
  BY RoomAssumption DEF LegalPick, IsLegalPick, CountByPosition
<1>. HIDE DEF before, after, cap
<1>7. has = had \/ /\ has = had \cup {pick.player}
                   /\ member = PickOrder[slot] /\ Position[pick.player] = bucket
  BY <1>4
<1>. HIDE DEF had, has
<1>8. Cardinality(had) \in Nat
  BY <1>5, FS_CardinalityType
<1>9. Cardinality(had \cup {pick.player}) \in {Cardinality(had), Cardinality(had) + 1}
  BY <1>5, FS_AddElement
<1>10. ASSUME has = had PROVE Cardinality(has) <= cap
  BY <1>3, <1>10
<1>11. ASSUME has # had PROVE Cardinality(has) <= cap
  <2>1. has = had \cup {pick.player} /\ Cardinality(had) < cap
    BY <1>6, <1>7, <1>11
  <2>. QED BY <1>6, <1>8, <1>9, <2>1
<1>12. Cardinality(has) <= cap
  BY <1>10, <1>11
<1>13. CountByPosition(after, Position, bucket) = Cardinality(has)
  BY DEF has, CountByPosition
<1>. QED BY <1>12, <1>13 DEF after, cap

LEMMA NobodyHasAny == Init => RostersLegal
<1>. SUFFICES ASSUME Init, NEW member \in Members, NEW bucket \in Positions
              PROVE  CountByPosition(RosterOf(picks, member), Position, bucket)
                       <= Template[bucket]
  BY DEF RostersLegal
<1>1. RosterOf(picks, member) = {}
  BY DEF Init, EmptyBoard, RosterOf, Taken
<1>2. CountByPosition({}, Position, bucket) = 0
  BY FS_EmptySet DEF CountByPosition
<1>. QED BY <1>1, <1>2, RoomAssumption

LEMMA DecisionAlways == Spec => []DecisionOK
<1>1. Init => DecisionOK
  BY DEF Init, DecisionOK, Deciding, Procs
<1>2. TypeInv /\ DecisionOK /\ [Next]_vars => DecisionOK'
  BY DecisionKept
<1>. QED BY <1>1, <1>2, TypeAlways, PTL DEF Spec

(* RostersLegal for a room in which nothing is undone: no member ever holds *)
(* more players of a position than the template has places, although        *)
(* makePick and the sweep check the cap (legality.ts) against picks they    *)
(* read several requests before commitPick writes, and others write in      *)
(* between.                                                                 *)
THEOREM RostersStayLegal ==
  ASSUME "undo" \notin Requests
  PROVE  Spec => []RostersLegal
<1>1. Init => RostersLegal
  BY NobodyHasAny
<1>2. TypeInv /\ BoardInv /\ DecisionOK /\ RostersLegal /\ [Next]_vars => RostersLegal'
  <2>. SUFFICES ASSUME TypeInv, BoardInv, DecisionOK, RostersLegal, [Next]_vars
                PROVE  RostersLegal'
    OBVIOUS
  <2>1. CASE UNCHANGED picks
    BY <2>1 DEF RostersLegal, RosterOf, Taken
  <2>. QED BY <2>1, LegalOnArrival, CapsKept
<1>. QED BY <1>1, <1>2, TypeAlways, BoardAlways, DecisionAlways, PTL DEF Spec

(* An undo takes players away. *)
LEMMA UnmakingKeepsCaps ==
  ASSUME TypeInv, RostersLegal, Unmakes
  PROVE  RostersLegal'
<1>1. ASSUME NEW member \in Members, NEW bucket \in Positions
      PROVE  CountByPosition(RosterOf(picks', member), Position, bucket) <= Template[bucket]
  <2>. DEFINE had == {player \in RosterOf(picks, member) : Position[player] = bucket}
              has == {player \in RosterOf(picks', member) : Position[player] = bucket}
              cap == Template[bucket]
  <2>1. picks \in Boards /\ cap \in Nat
    BY RoomAssumption DEF TypeInv, TypeOK
  <2>2. \A s \in Slots : picks'[s] = picks[s] \/ picks'[s] = None
    BY <2>1 DEF Unmakes, Boards
  <2>3. RosterOf(picks', member) \subseteq RosterOf(picks, member)
    BY <2>2 DEF RosterOf, Taken
  <2>4. IsFiniteSet(had) /\ Cardinality(had) <= cap
    BY <2>1, RosterFinite, FS_Subset DEF RostersLegal, CountByPosition
  <2>5. has \subseteq had
    BY <2>3
  <2>. HIDE DEF had, has, cap
  <2>6. /\ Cardinality(has) <= Cardinality(had)
        /\ Cardinality(has) \in Nat /\ Cardinality(had) \in Nat
    BY <2>4, <2>5, FS_Subset, FS_CardinalityType
  <2>7. Cardinality(has) <= cap
    BY <2>1, <2>4, <2>6
  <2>. QED BY <2>7 DEF has, cap, CountByPosition
<1>. QED BY <1>1 DEF RostersLegal

(* RostersLegal as well where the manager undoes, on their own: the picks   *)
(* after an undo are checked against what it left.                          *)
THEOREM UndoneRostersStayLegal == AloneSpec => []RostersLegal
<1>1. Init => RostersLegal /\ DecisionOK
  BY NobodyHasAny DEF Init, DecisionOK, Deciding, Procs
<1>2. TypeInv /\ AloneInv /\ DecisionOK /\ RostersLegal /\ [Next /\ UndoAlone' /\ Uncut]_vars
        => RostersLegal' /\ DecisionOK'
  <2>. SUFFICES ASSUME TypeInv, AloneInv, DecisionOK, RostersLegal,
                       [Next /\ UndoAlone' /\ Uncut]_vars
                PROVE  RostersLegal' /\ DecisionOK'
    OBVIOUS
  <2>0. [Next]_vars
    OBVIOUS
  <2>1. DecisionOK'
    BY <2>0, DecisionKept
  <2>2. ASSUME UNCHANGED picks PROVE RostersLegal'
    BY <2>2 DEF RostersLegal, RosterOf, Taken
  <2>3. ASSUME BoardInv PROVE RostersLegal'
    BY <2>0, <2>2, <2>3, LegalOnArrival, CapsKept
  <2>4. ASSUME NEW c \in Procs, pc[c] \in UndoLabels PROVE RostersLegal'
    <3>1. UndoOK(c)
      BY <2>4 DEF AloneInv
    <3>2. Unmakes \/ UNCHANGED picks
      BY <2>4, <3>1, OnlyTheUndoMoves DEF UndoMoves, vars, records
    <3>. QED BY <2>2, <3>2, UnmakingKeepsCaps
  <2>. QED BY <2>1, <2>3, <2>4 DEF AloneInv
<1>. QED BY <1>1, <1>2, AloneAlways, PTL DEF AloneSpec

-----------------------------------------------------------------------------
(* The sweep and the clock.  Two facts go with each other: a draft whose    *)
(* clock is out points at a slot the sweep may take or somebody has taken,  *)
(* and so does the turn the sweep is about to fill.  They need the draft to *)
(* point at a slot that exists.                                             *)

(* The slots the sweep may take, or that somebody has taken.                *)
Waited == forfeited \cup Taken(picks)

PointsAtASlot == draft.current_pick >= 1 /\ \A p \in Procs : seen[p].current_pick >= 1

DueOK ==
  /\ IsPickDue(draft) => draft.current_pick \in Waited
  /\ pc[Worker] \in {"last_look_armed", "commit"} => turn[Worker].slot \in Waited

LEMMA PatchPoints ==
  ASSUME LocalsOK, NEW p \in Procs, NEW record \in Drafts, NEW filledNo \in Int
  PROVE  /\ AdvancePatch(p, record, filledNo).current_pick >= 1
         /\ ~IsPickDue(AdvancePatch(p, record, filledNo))
<1>. DEFINE read == seen[p].current_pick
            m    == Max({read, filledNo})
            next == m + 1
<1>1. read \in Nat /\ read \in Int
  BY DEF LocalsOK, Drafts
<1>2. \/ AdvancePatch(p, record, filledNo)
           = [record EXCEPT !.status = "complete", !.current_pick = next, !.deadline = "none"]
      \/ AdvancePatch(p, record, filledNo)
           = [record EXCEPT !.current_pick = next, !.deadline = "running"]
  BY DEF AdvancePatch
<1>. HIDE DEF read
<1>3. m \in {read, filledNo} /\ m >= read
  BY ONLY <1>1, filledNo \in Int, MaxOfTwo
<1>. HIDE DEF m
<1>4. next >= 1
  BY <1>1, <1>3
<1>. HIDE DEF next
<1>. QED BY <1>2, <1>4 DEF Drafts, IsPickDue

(* What one step writes of the draft: the pointer stays at a slot, and no   *)
(* step makes a pick due but the clock running out.                         *)
Points(p) ==
  /\ draft'.current_pick >= 1 /\ seen'[p].current_pick >= 1
  /\ IsPickDue(draft') => IsPickDue(draft) /\ draft'.current_pick = draft.current_pick

LEMMA LeavePoints ==
  ASSUME LocalsOK, PointsAtASlot, NEW p \in Procs, Leave(p) \/ Done(p)
  PROVE  seen'[p].current_pick >= 1
<1>1. Leave(p) => seen'[p] = FreshDraft
  BY DEF Leave, LocalsOK
<1>2. FreshDraft.current_pick = 1
  BY DEF FreshDraft
<1>. QED BY <1>1, <1>2 DEF Done, PointsAtASlot

LEMMA WriteAdvancePoints ==
  ASSUME RecordsOK, LocalsOK, PointsAtASlot, NEW p \in Procs, NEW filledNo \in Int,
         \/ WriteAdvance(p, filledNo)
         \/ /\ draft' = AdvancePatch(p, draft, filledNo)
            /\ seen'  = [seen EXCEPT ![p] = AdvancePatch(p, seen[p], filledNo)]
  PROVE  Points(p)
<1>1. draft \in Drafts /\ seen[p] \in Drafts /\ seen \in [Procs -> Drafts]
  BY DEF RecordsOK, LocalsOK
<1>2. /\ AdvancePatch(p, draft, filledNo).current_pick >= 1
      /\ ~IsPickDue(AdvancePatch(p, draft, filledNo))
      /\ AdvancePatch(p, seen[p], filledNo).current_pick >= 1
  BY <1>1, PatchPoints
<1>3. draft' = AdvancePatch(p, draft, filledNo)
  BY DEF WriteAdvance
<1>4. \/ seen'  = [seen EXCEPT ![p] = AdvancePatch(p, seen[p], filledNo)]
      \/ Done(p)
  BY DEF WriteAdvance
<1>5. seen'[p].current_pick >= 1
  BY <1>1, <1>2, <1>4, LeavePoints
<1>. QED BY <1>2, <1>3, <1>5 DEF Points

LEMMA PipelinePoints ==
  ASSUME TypeInv, PointsAtASlot, NEW p \in Procs, Pipeline(p)
  PROVE  Points(p)
<1>. USE TypeParts DEF TypeInv
<1>1. CASE Advance(p)
  <2>1. turn[p].slot \in Int
    BY <1>1, TotalType DEF Advance, ProcOK, Slots
  <2>. QED BY <1>1, <2>1, WriteAdvancePoints DEF Advance
<1>2. CASE RepairUnadvanced(p)
  <2>. DEFINE filledNo == FindUnadvancedPick(seen[p].current_pick, Taken(hand[p])) - 1
  <2>1. filledNo \in Int
    <3>1. /\ Taken(hand[p]) \in SUBSET (1..Total) /\ Total \in Nat
          /\ seen[p].current_pick \in Nat /\ seen[p].current_pick + 1 \in Nat
      BY TakenType, TotalType DEF LocalsOK, Drafts
    <3>2. FirstFree(seen[p].current_pick + 1, Taken(hand[p])) \in Nat
      BY <3>1, FirstFreeFact
    <3>3. FindUnadvancedPick(seen[p].current_pick, Taken(hand[p])) \in Nat
      BY <3>2 DEF FindUnadvancedPick, NoSlot
    <3>. QED BY <3>3
  <2>2. \/ WriteAdvance(p, filledNo)
        \/ /\ draft' = AdvancePatch(p, draft, filledNo)
           /\ seen'  = [seen EXCEPT ![p] = AdvancePatch(p, seen[p], filledNo)]
    BY <1>2 DEF RepairUnadvanced
  <2>. HIDE DEF filledNo
  <2>. QED BY <2>1, <2>2, WriteAdvancePoints
<1>3. CASE FinishLeague(p) \/ Materialize(p)
  <2>1. draft' = draft /\ (seen' = seen \/ Done(p))
    BY <1>3 DEF FinishLeague, Materialize
  <2>. QED BY <2>1, LeavePoints DEF Points, PointsAtASlot
<1>. QED BY <1>1, <1>2, <1>3 DEF Pipeline

LEMMA ActionPoints ==
  ASSUME TypeInv, PointsAtASlot, NEW c \in Calls, ServerAction(c)
  PROVE  Points(c)
<1>. USE TypeParts DEF TypeInv
<1>0. c \in Procs /\ draft \in Drafts /\ seen \in [Procs -> Drafts] /\ LocalsOK
  BY DEF Procs, RecordsOK, LocalsOK
<1>1. ASSUME draft' = draft, \/ Leave(c) \/ seen' = seen \/ Done(c)
                             \/ seen' = [seen EXCEPT ![c] = draft]
                             \/ seen' = [seen EXCEPT ![c].current_pick = draft.current_pick]
      PROVE  Points(c)
  <2>1. CASE \/ seen' = seen \/ seen' = [seen EXCEPT ![c] = draft]
             \/ seen' = [seen EXCEPT ![c].current_pick = draft.current_pick]
    <3>1. seen'[c].current_pick \in {seen[c].current_pick, draft.current_pick}
      BY <1>0, <2>1 DEF Drafts
    <3>. QED BY <1>0, <1>1, <3>1 DEF Points, PointsAtASlot
  <2>2. CASE Leave(c) \/ Done(c)
    BY <1>0, <1>1, <2>2, LeavePoints DEF Points, PointsAtASlot
  <2>. QED BY <1>1, <2>1, <2>2
<1>2. CASE \/ MakePick(c) \/ ReadPicks(c) \/ CommitOwnPick(c) \/ RefusePick(c)
           \/ ReadForRender(c) \/ ReconcileLeagueStatus(c)
  BY <1>1, <1>2 DEF MakePick, ReadPicks, CommitOwnPick, CreatePick, RefusePick, ReadForRender,
     ReconcileLeagueStatus, records
<1>3. ASSUME NEW kind \in {"pause", "resume", "clock"}, ReadForControl(c, kind)
      PROVE  Points(c)
  <2>1. draft' = draft /\ seen' = [seen EXCEPT ![c] = InHand(kind)]
    BY <1>3 DEF ReadForControl, records
  <2>2. InHand(kind).current_pick = 1
    BY DEF InHand, FreshDraft
  <2>. QED BY <1>0, <2>1, <2>2 DEF Points, PointsAtASlot
<1>4. CASE SetDraftPaused(c) \/ SetPickClock(c)
  <2>1. /\ draft'.current_pick = draft.current_pick
        /\ ~IsPickDue(draft') /\ Leave(c)
    BY <1>0, <1>4 DEF SetDraftPaused, SetPickClock, IsPickDue, Drafts
  <2>. QED BY <1>0, <2>1, LeavePoints DEF Points, PointsAtASlot
<1>5. CASE Pipeline(c)
  BY <1>0, <1>5, PipelinePoints
<1>6. ASSUME NEW target \in 0..Total + 1, RollbackDraft(c, target) PROVE Points(c)
  BY <1>1, <1>6 DEF RollbackDraft, records
<1>7. CASE ComputeRollback(c) \/ DeletePick(c) \/ UnfinishLeague(c)
  BY <1>1, <1>7 DEF ComputeRollback, DeletePick, UnfinishLeague, records
<1>8. CASE PauseForRollback(c)
  <2>1. draft'.current_pick = draft.current_pick /\ ~IsPickDue(draft') /\ seen' = seen
    BY <1>0, <1>8 DEF PauseForRollback, IsPickDue, Drafts
  <2>. QED BY <1>0, <2>1 DEF Points, PointsAtASlot
<1>9. CASE RepointDraft(c)
  <2>1. turn[c].slot >= 1
    BY <1>0, <1>9, TotalType DEF RepointDraft, ProcOK, Slots
  <2>2. draft'.current_pick = turn[c].slot /\ ~IsPickDue(draft')
    BY <1>0, <1>9 DEF RepointDraft, IsPickDue, Drafts
  <2>3. Leave(c) \/ seen' = seen
    BY <1>9 DEF RepointDraft
  <2>. QED BY <1>0, <2>1, <2>2, <2>3, LeavePoints DEF Points, PointsAtASlot
<1>. QED BY <1>2, <1>3, <1>4, <1>5, <1>6, <1>7, <1>8, <1>9 DEF ServerAction

LEMMA SweepPoints ==
  ASSUME TypeInv, PointsAtASlot, Sweep \/ ThrowTick \/ Crash(Worker)
  PROVE  Points(Worker)
<1>. USE TypeParts DEF TypeInv
<1>0. Worker \in Procs /\ draft \in Drafts /\ seen \in [Procs -> Drafts] /\ LocalsOK /\ RecordsOK
  BY DEF Procs, RecordsOK, LocalsOK
<1>1. ASSUME draft' = draft, \/ Leave(Worker) \/ seen' = seen \/ Done(Worker)
                             \/ seen' = [seen EXCEPT ![Worker] = draft]
      PROVE  Points(Worker)
  BY <1>0, <1>1, LeavePoints DEF Points, PointsAtASlot
<1>2. CASE \/ ListLiveDraft \/ SweepReadPicks \/ SweepMember \/ LastLook \/ CommitAutoPick
           \/ ThrowTick \/ Crash(Worker)
  BY <1>1, <1>2 DEF ListLiveDraft, SweepReadPicks, SweepMember, LastLook, CommitAutoPick,
     CreatePick, ThrowTick, Crash, records
<1>3. CASE CloseDraft
  <2>1. Total \in Int
    BY TotalType
  <2>. QED BY <1>0, <1>3, <2>1, WriteAdvancePoints DEF CloseDraft
<1>4. CASE RestartClock \/ MarkStuck \/ ClearStuck
  <2>1. /\ draft'.current_pick = draft.current_pick
        /\ IsPickDue(draft') => IsPickDue(draft)
        /\ Leave(Worker) \/ Done(Worker)
    BY <1>0, <1>4 DEF RestartClock, MarkStuck, ClearStuck, IsPickDue, Drafts
  <2>. QED BY <1>0, <2>1, LeavePoints DEF Points, PointsAtASlot
<1>5. CASE Pipeline(Worker)
  BY <1>0, <1>5, PipelinePoints
<1>. QED BY <1>2, <1>3, <1>4, <1>5 DEF Sweep

LEMMA TakenKept ==
  ASSUME TypeInv, BoardInv, DecisionOK, [Next]_vars
  PROVE  Taken(picks) \subseteq Taken(picks')
<1>1. CASE UNCHANGED picks
  BY <1>1 DEF Taken
<1>2. ASSUME NEW slot, NEW pick, LegalPick(slot, pick) PROVE Taken(picks) \subseteq Taken(picks')
  <2>1. picks \in Boards /\ pick # None
    BY <1>2, RoomAssumption DEF LegalPick, TypeInv, TypeOK
  <2>. QED BY <1>2, <2>1 DEF LegalPick, Taken, Boards
<1>. QED BY <1>1, <1>2, LegalOnArrival

(* A slot is only ever given up by being taken, or by an undo.              *)
LEMMA WaitedKept ==
  ASSUME TypeInv, [Next]_vars, Taken(picks) \subseteq Taken(picks'),
         \A c \in Calls : pc[c] # "undo_point"
  PROVE  Waited \subseteq Waited'
<1>2. ASSUME NEW p, NEW slot \in Slots, NEW player \in Players, CreatePick(p, slot, player)
      PROVE  forfeited \subseteq forfeited' \cup Taken(picks')
  <2>. DEFINE pick == [id |-> FreshId, member |-> PickOrder[slot], player |-> player]
  <2>1. CASE RefusedByIndex(slot, player)
    BY <1>2, <2>1 DEF CreatePick
  <2>2. CASE ~RefusedByIndex(slot, player)
    <3>1. /\ UsedIds # PickIds /\ picks' = [picks EXCEPT ![slot] = pick]
          /\ forfeited' = forfeited \ {slot} /\ picks \in Boards
      BY <1>2, <2>2, TypeParts DEF CreatePick, TypeInv, TypeOK
    <3>2. pick \in Picks
      BY <3>1, FreshIdFact, PickOrderType, TypeParts DEF Picks, TypeInv
    <3>. HIDE DEF pick
    <3>3. pick # None
      BY <3>2, RoomAssumption
    <3>4. slot \in Taken(picks')
      BY <3>1, <3>3 DEF Taken, Boards
    <3>. QED BY <3>1, <3>4
  <2>. QED BY <2>1, <2>2
<1>3. ASSUME NEW c \in Calls, CommitOwnPick(c)
      PROVE  forfeited \subseteq forfeited' \cup Taken(picks')
  <2>1. seen[c] \in Drafts /\ hand[c] \in Boards
    BY DEF TypeInv, TypeOK, Procs
  <2>2. OnClock(seen[c], hand[c]) \in Slots
    BY <1>3, <2>1, OnClockInSlots DEF CommitOwnPick
  <2>. QED BY <1>2, <1>3, <2>2 DEF CommitOwnPick
<1>4. ASSUME CommitAutoPick PROVE forfeited \subseteq forfeited' \cup Taken(picks')
  <2>1. turn[Worker].slot \in Slots /\ turn[Worker].player \in Players
    BY <1>4 DEF CommitAutoPick, TypeInv, ProcOK, Procs
  <2>. QED BY <1>2, <1>4, <2>1 DEF CommitAutoPick
<1>5. ASSUME NEW c \in Calls, ServerAction(c), ~CommitOwnPick(c)
      PROVE  UNCHANGED forfeited
  <2>. QED BY <1>5 DEF RepointDraft, ServerAction, MakePick, ReadPicks, RefusePick, ReadForControl,
     SetDraftPaused, SetPickClock, RollbackDraft, ComputeRollback, PauseForRollback, DeletePick,
     UnfinishLeague, ReadForRender, ReconcileLeagueStatus,
     Pipeline, Advance, RepairUnadvanced, FinishLeague, Materialize
<1>6. ASSUME Sweep, ~CommitAutoPick PROVE forfeited \subseteq forfeited'
  <2>1. SweepMember => forfeited \subseteq forfeited'
    BY DEF SweepMember
  <2>. QED BY <1>6, <2>1 DEF Sweep, ListLiveDraft, SweepReadPicks, CloseDraft, RestartClock,
     LastLook, MarkStuck, ClearStuck,
     Pipeline, Advance, RepairUnadvanced, FinishLeague, Materialize
<1>7. ASSUME \/ \E member \in Members : SetAutodraft(member)
             \/ \E p \in Procs : Crash(p)
             \/ ThrowTick \/ ClockRunsOut \/ UNCHANGED vars
      PROVE  forfeited \subseteq forfeited'
  BY <1>7 DEF SetAutodraft, Crash, ThrowTick, ClockRunsOut, vars
<1>8. forfeited \subseteq forfeited' \cup Taken(picks')
  BY <1>3, <1>4, <1>5, <1>6, <1>7 DEF Next
<1>. QED BY <1>8 DEF Waited

(* The turn a process is about to be given is the slot the draft points at. *)
LEMMA OnClockIsPointer ==
  ASSUME NEW state \in Drafts, NEW board \in Boards, Gapless(board),
         Reached(state.current_pick, board), OnClock(state, board) # NoSlot,
         state.current_pick >= 1, state.current_pick \notin Taken(board)
  PROVE  OnClock(state, board) = state.current_pick
<1>. DEFINE no == OnClock(state, board)
            cp == state.current_pick
<1>1. /\ no \in Slots \ Taken(board)
      /\ \A s \in Slots : s < no => s \in Taken(board)
  BY NextSlot
<1>2. cp \in Nat /\ Slots = 1..Total /\ Total \in Nat /\ cp >= 1 /\ cp \notin Taken(board)
      /\ Reached(cp, board)
  BY TotalType DEF Drafts, Slots
<1>. HIDE DEF no, cp
<1>3. ~(no < cp)
  BY <1>1, <1>2 DEF Reached
<1>4. ~(cp < no)
  BY <1>1, <1>2
<1>5. no = cp
  BY <1>1, <1>2, <1>3, <1>4
<1>. QED BY <1>5 DEF no, cp

LEMMA OnlyDeletesUntake ==
  ASSUME TypeInv, [Next]_vars, ~(\E c \in Calls : DeletePick(c))
  PROVE  Taken(picks) \subseteq Taken(picks')
<1>1. CASE UNCHANGED picks
  BY <1>1 DEF Taken
<1>2. ASSUME NEW slot \in Slots, NEW pick \in Picks, picks' = [picks EXCEPT ![slot] = pick]
      PROVE  Taken(picks) \subseteq Taken(picks')
  <2>1. picks \in Boards /\ pick # None
    BY <1>2, RoomAssumption DEF TypeInv, TypeOK
  <2>. QED BY <1>2, <2>1 DEF Taken, Boards
<1>. QED BY <1>1, <1>2, PicksChange

LEMMA DueKept ==
  ASSUME TypeInv, PointsAtASlot, DueOK, [Next]_vars,
         (BoardInv /\ DecisionOK) \/ pc[Worker] = "idle",
         IsPickDue(draft) \/ pc[Worker] # "idle" => Waited \subseteq Waited'
  PROVE  PointsAtASlot' /\ DueOK'
<1>. USE TypeParts DEF TypeInv
<1>0. Worker \in Procs /\ LocalsOK /\ RecordsOK
  BY DEF Procs
<1>1. IsPickDue(draft) \/ pc[Worker] # "idle" => Waited \subseteq Waited'
  OBVIOUS
<1>2. ASSUME NEW p \in Procs, Sound(p), Points(p)
      PROVE  PointsAtASlot' /\ (IsPickDue(draft') => draft'.current_pick \in Waited')
  <2>1. \A q \in Procs \ {p} : seen'[q] = seen[q]
    BY <1>2 DEF Sound, Frame
  <2>2. IsPickDue(draft') => draft.current_pick \in Waited /\ draft'.current_pick = draft.current_pick
    BY <1>2 DEF Points, DueOK
  <2>3. \A q \in Procs : seen'[q].current_pick >= 1
    BY <1>2, <2>1 DEF Points, PointsAtASlot
  <2>. QED BY <1>1, <1>2, <2>2, <2>3 DEF Points, PointsAtASlot
<1>3. ASSUME pc'[Worker] = pc[Worker], turn'[Worker] = turn[Worker]
      PROVE  pc'[Worker] \in {"last_look_armed", "commit"} => turn'[Worker].slot \in Waited'
  BY <1>1, <1>3 DEF DueOK
<1>4. ASSUME pc'[Worker] \notin {"last_look_armed", "commit"}
      PROVE  pc'[Worker] \in {"last_look_armed", "commit"} => turn'[Worker].slot \in Waited'
  BY <1>4
<1>5. ASSUME NEW c \in Calls, Sound(c), Points(c)
      PROVE  PointsAtASlot' /\ DueOK'
  <2>1. c \in Procs /\ Worker \in Procs \ {c}
    BY RoomAssumption DEF Procs
  <2>2. pc'[Worker] = pc[Worker] /\ turn'[Worker] = turn[Worker]
    BY <1>5, <2>1 DEF Sound, Frame
  <2>. QED BY <1>2, <1>3, <1>5, <2>1, <2>2 DEF DueOK
<1>6. ASSUME NEW c \in Calls, ServerAction(c) PROVE PointsAtASlot' /\ DueOK'
  <2>1. c \in Procs
    BY DEF Procs
  <2>2. Sound(c)
    BY <1>6, <2>1, SoundPick, SoundControl, SoundUndo, SoundPipeline DEF ServerAction
  <2>. QED BY <1>5, <1>6, <2>2, ActionPoints
<1>7. ASSUME NEW c \in Calls, Crash(c) PROVE PointsAtASlot' /\ DueOK'
  <2>1. c \in Procs /\ draft' = draft /\ Leave(c)
    BY <1>7 DEF Procs, Crash, records
  <2>2. Points(c)
    BY <1>0, <2>1, LeavePoints DEF Points, PointsAtASlot
  <2>. QED BY <1>5, <1>7, <2>1, <2>2, SoundFault
<1>8. ASSUME Sweep \/ ThrowTick \/ Crash(Worker) PROVE PointsAtASlot' /\ DueOK'
  <2>1. Sound(Worker) /\ Points(Worker)
    BY <1>0, <1>8, SoundSweep, SoundFault, SweepPoints
  <2>2. ASSUME Leave(Worker) \/ Done(Worker)
        PROVE  pc'[Worker] \notin {"last_look_armed", "commit"}
    BY <1>0, <2>2, LeaveFact, DoneFact
  <2>3. ASSUME NEW label \in Labels \ {"last_look_armed", "commit"}, Goto(Worker, label)
        PROVE  pc'[Worker] \notin {"last_look_armed", "commit"}
    BY <1>0, <2>3, GotoFact
  <2>4. ASSUME NEW filledNo, WriteAdvance(Worker, filledNo)
        PROVE  pc'[Worker] \notin {"last_look_armed", "commit"}
    BY <2>2, <2>3, <2>4 DEF WriteAdvance, Labels
  <2>5. ASSUME Pipeline(Worker) PROVE pc'[Worker] \notin {"last_look_armed", "commit"}
    BY <2>2, <2>3, <2>4, <2>5
       DEF Pipeline, Advance, RepairUnadvanced, FinishLeague, Materialize, Labels
  <2>6. ASSUME SweepReadPicks PROVE pc'[Worker] \notin {"last_look_armed", "commit"}
    <3>1. SweepJob(seen[Worker], picks) \in Labels \ {"last_look_armed", "commit"}
      BY SweepJobFact DEF Labels, StuckReasons
    <3>. QED BY <2>3, <2>6, <3>1 DEF SweepReadPicks
  <2>7. ASSUME \/ ListLiveDraft \/ CloseDraft \/ RestartClock \/ MarkStuck \/ ClearStuck
               \/ ThrowTick \/ Crash(Worker) \/ CommitAutoPick
        PROVE  pc'[Worker] \notin {"last_look_armed", "commit"}
    BY <2>2, <2>3, <2>4, <2>7 DEF ListLiveDraft, CloseDraft, RestartClock, MarkStuck,
       ClearStuck, ThrowTick, Crash, CommitAutoPick, CreatePick, Labels, StuckReasons
  <2>8. ASSUME SweepMember
        PROVE  pc'[Worker] \in {"last_look_armed", "commit"} => turn'[Worker].slot \in Waited'
    <3>. DEFINE slot == OnClock(seen[Worker], hand[Worker])
    <3>1. \/ Leave(Worker) \/ Done(Worker)
          \/ \E label \in Labels \ {"last_look_armed", "commit"} : Goto(Worker, label)
          \/ \E player : /\ turn' = [turn EXCEPT ![Worker] = [slot |-> slot, player |-> player]]
                         /\ slot \in forfeited'
      BY <2>8 DEF SweepMember, Labels, StuckReasons
    <3>. HIDE DEF slot
    <3>. QED BY <1>0, <2>2, <2>3, <3>1 DEF LocalsOK, Waited
  <2>9. ASSUME LastLook
        PROVE  pc'[Worker] \in {"last_look_armed", "commit"} => turn'[Worker].slot \in Waited'
    <3>1. \/ Done(Worker)
          \/ /\ UNCHANGED turn
             /\ \/ pc[Worker] = "last_look_armed"
                \/ /\ pc[Worker] = "last_look" /\ IsPickDue(draft)
                   /\ draft.current_pick = seen[Worker].current_pick
      BY <2>9 DEF LastLook
    <3>2. ASSUME pc[Worker] = "last_look" PROVE turn[Worker].slot = seen[Worker].current_pick
      <4>1. /\ turn[Worker].slot = OnClock(seen[Worker], hand[Worker])
            /\ Gapless(hand[Worker]) /\ Reached(seen[Worker].current_pick, hand[Worker])
            /\ seen[Worker].current_pick \notin Taken(hand[Worker])
            /\ seen[Worker].current_pick >= 1
        BY <1>0, <3>2 DEF BoardInv, HandOK, HasRead, DecisionOK, Deciding, PointsAtASlot
      <4>2. turn[Worker].slot # NoSlot
        BY <1>0, <3>2, TotalType DEF ProcOK, Slots, NoSlot
      <4>. QED BY <1>0, <4>1, <4>2, OnClockIsPointer DEF LocalsOK
    <3>. QED BY <1>1, <2>2, <3>1, <3>2 DEF DueOK
  <2>10. pc'[Worker] \in {"last_look_armed", "commit"} => turn'[Worker].slot \in Waited'
    BY <1>8, <2>5, <2>6, <2>7, <2>8, <2>9 DEF Sweep
  <2>. QED BY <1>0, <1>2, <2>1, <2>10 DEF DueOK
<1>9. ASSUME UNCHANGED locals, draft'.current_pick = draft.current_pick,
             IsPickDue(draft') => IsPickDue(draft) \/ draft.current_pick \in forfeited'
      PROVE  PointsAtASlot' /\ DueOK'
  BY <1>1, <1>9 DEF locals, PointsAtASlot, DueOK, Waited
<1>10. CASE \/ \E member \in Members : SetAutodraft(member)
            \/ ClockRunsOut \/ UNCHANGED vars
  <2>1. /\ UNCHANGED locals /\ draft'.current_pick = draft.current_pick
        /\ IsPickDue(draft') => IsPickDue(draft) \/ draft.current_pick \in forfeited'
    BY <1>0, <1>10 DEF SetAutodraft, ClockRunsOut, vars, records, RecordsOK, Drafts, IsPickDue
  <2>. QED BY <1>9, <2>1
<1>. QED BY <1>6, <1>7, <1>8, <1>10 DEF Next, Procs

LEMMA DueInit == Init => PointsAtASlot /\ DueOK
<1>1. Init => /\ draft = FreshDraft /\ \A p \in Procs : seen[p] = FreshDraft /\ pc[p] = "idle"
  BY DEF Init
<1>2. FreshDraft.current_pick = 1 /\ ~IsPickDue(FreshDraft) /\ Worker \in Procs
  BY DEF FreshDraft, IsPickDue, Procs
<1>. QED BY <1>1, <1>2 DEF PointsAtASlot, DueOK

(* A due pick is what the sweep takes, and only that.                       *)
LEMMA DueIsWaited ==
  ASSUME TypeInv, DueOK, Next, pc[Worker] = "commit", picks' # picks, pc'[Worker] # pc[Worker]
  PROVE  turn[Worker].slot \in forfeited
<1>. USE TypeParts DEF TypeInv
<1>0. Worker \in Procs /\ LocalsOK /\ RecordsOK
  BY DEF Procs
<1>1. ASSUME NEW c \in Calls, ServerAction(c) PROVE FALSE
  <2>1. c \in Procs /\ Worker \in Procs \ {c}
    BY RoomAssumption DEF Procs
  <2>2. Sound(c)
    BY <1>1, <2>1, SoundPick, SoundControl, SoundUndo, SoundPipeline DEF ServerAction
  <2>. QED BY <2>1, <2>2 DEF Sound, Frame
<1>2. CASE CommitAutoPick
  <2>1. /\ ~RefusedByIndex(turn[Worker].slot, turn[Worker].player)
        /\ turn[Worker].slot \in Waited
    BY <1>2 DEF CommitAutoPick, CreatePick, DueOK
  <2>. QED BY <2>1 DEF RefusedByIndex, Waited, Taken
<1>3. ASSUME Sweep, ~CommitAutoPick PROVE FALSE
  BY <1>3 DEF Sweep, ListLiveDraft, SweepReadPicks, CloseDraft, RestartClock,
   SweepMember, LastLook, MarkStuck, ClearStuck, records,
   Pipeline, Advance, RepairUnadvanced, FinishLeague, Materialize
<1>4. ASSUME \/ \E member \in Members : SetAutodraft(member)
             \/ \E p \in Procs : Crash(p)
             \/ ThrowTick \/ ClockRunsOut
      PROVE  FALSE
  BY <1>4 DEF SetAutodraft, Crash, ThrowTick, ClockRunsOut, records
<1>. QED BY <1>1, <1>2, <1>3, <1>4 DEF Next

(* AutoPickWaited for a room in which nothing is undone: whatever pauses,   *)
(* resumes and changes of the clock interleave with a tick, the pick it     *)
(* writes is for a slot whose own deadline ran out while the draft was      *)
(* live, or whose member was seen with autodraft on (sweep.ts, the last     *)
(* look before the write).                                                  *)
THEOREM SweepAlwaysWaited ==
  ASSUME "undo" \notin Requests
  PROVE  Spec => AutoPickWaited
<1>1. TypeInv /\ BoardInv /\ DecisionOK /\ PointsAtASlot /\ DueOK /\ [Next]_vars
        => PointsAtASlot' /\ DueOK'
  <2>. SUFFICES ASSUME TypeInv, BoardInv, DecisionOK, PointsAtASlot, DueOK, [Next]_vars
                PROVE  PointsAtASlot' /\ DueOK'
    OBVIOUS
  <2>1. \A c \in Calls : pc[c] # "undo_point"
    BY DEF BoardInv, HandOK, Procs, UndoLabels
  <2>. QED BY <2>1, TakenKept, WaitedKept, DueKept
<1>2. TypeInv /\ DueOK /\ [Next]_vars =>
        [pc[Worker] = "commit" /\ picks' # picks /\ pc'[Worker] # pc[Worker]
           => turn[Worker].slot \in forfeited]_vars
  BY DueIsWaited
<1>. QED BY <1>1, <1>2, DueInit, TypeAlways, BoardAlways, DecisionAlways, PTL
         DEF Spec, AutoPickWaited

(* An undo leaves no clock running over what it deletes.                    *)
LEMMA UndoKeepsDue ==
  ASSUME TypeInv, AloneInv, PointsAtASlot, DueOK, NEW c \in Procs, pc[c] \in UndoLabels,
         [Next /\ UndoAlone' /\ Uncut]_vars
  PROVE  PointsAtASlot' /\ DueOK'
<1>. USE TypeParts DEF TypeInv
<1>1. /\ UndoOK(c) /\ c \in Calls /\ [Next]_vars
      /\ \A q \in Procs \ {c} : pc[q] = "idle"
  BY DEF AloneInv, UndoOK
<1>2. pc[Worker] = "idle"
  BY <1>1, RoomAssumption DEF Procs
<1>3. ASSUME IsPickDue(draft) PROVE Waited \subseteq Waited'
  <2>1. pc[c] \notin {"undo_delete", "undo_point"}
    BY <1>1, <1>3 DEF UndoOK, IsPickDue
  <2>2. \A d \in Calls : pc[d] \notin {"undo_delete", "undo_point"}
    BY <1>1, <2>1 DEF Procs
  <2>3. ~(\E d \in Calls : DeletePick(d))
    BY <2>2 DEF DeletePick
  <2>. QED BY <1>1, <2>2, <2>3, OnlyDeletesUntake, WaitedKept
<1>. QED BY <1>1, <1>2, <1>3, DueKept

(* AutoPickWaited as well where the manager undoes, on their own: the       *)
(* sweep never takes a turn on the strength of a clock that ran out before  *)
(* the undo that gave the turn back.                                        *)
THEOREM UndoneSweepAlwaysWaited == AloneSpec => AutoPickWaited
<1>1. Init => PointsAtASlot /\ DueOK /\ DecisionOK
  BY DueInit DEF Init, DecisionOK, Deciding, Procs
<1>2. TypeInv /\ AloneInv /\ DecisionOK /\ PointsAtASlot /\ DueOK
        /\ [Next /\ UndoAlone' /\ Uncut]_vars
        => PointsAtASlot' /\ DueOK' /\ DecisionOK'
  <2>. SUFFICES ASSUME TypeInv, AloneInv, DecisionOK, PointsAtASlot, DueOK,
                       [Next /\ UndoAlone' /\ Uncut]_vars
                PROVE  PointsAtASlot' /\ DueOK' /\ DecisionOK'
    OBVIOUS
  <2>1. [Next]_vars
    OBVIOUS
  <2>2. DecisionOK'
    BY <2>1, DecisionKept
  <2>3. ASSUME BoardInv PROVE PointsAtASlot' /\ DueOK'
    <3>1. \A c \in Calls : pc[c] # "undo_point"
      BY <2>3 DEF BoardInv, HandOK, Procs, UndoLabels
    <3>. QED BY <2>1, <2>3, <3>1, TakenKept, WaitedKept, DueKept
  <2>. QED BY <2>2, <2>3, UndoKeepsDue DEF AloneInv
<1>3. TypeInv /\ DueOK /\ [Next /\ UndoAlone' /\ Uncut]_vars =>
        [pc[Worker] = "commit" /\ picks' # picks /\ pc'[Worker] # pc[Worker]
           => turn[Worker].slot \in forfeited]_vars
  BY DueIsWaited
<1>. QED BY <1>1, <1>2, <1>3, AloneAlways, PTL DEF AloneSpec, AutoPickWaited

-----------------------------------------------------------------------------
(* The refinement: DraftRoom implements DraftBoard.                         *)

(* DraftBoard's own copies of the engine's operators are the engine's.      *)
LEMMA PromiseTerms ==
  /\ Promise!Total = Total /\ Promise!PickOrder = PickOrder
  /\ \A player, roster, taken :
       Promise!IsLegalPick(player, roster, Position, Template, taken)
         <=> IsLegalPick(player, roster, Position, Template, taken)
<1>1. \A format, round : Promise!IsReversed(format, round) = IsReversed(format, round)
  BY Zenon DEF Promise!IsReversed, IsReversed
<1>2. Promise!Total = Total
  BY DEF Promise!Total, Total, Promise!TotalPicks, TotalPicks, Promise!RosterSize, Rounds, RosterSize
<1>3. Promise!PickOrder = PickOrder
  BY <1>1, Zenon DEF Promise!PickOrder, PickOrder, Promise!BuildPickOrder, BuildPickOrder,
     Promise!RosterSize, Rounds, RosterSize, Promise!TotalPicks, TotalPicks,
     Promise!RoundOf, RoundOf, Promise!SlotOf, SlotOf
<1>4. \A player, roster, taken :
       Promise!IsLegalPick(player, roster, Position, Template, taken)
         <=> IsLegalPick(player, roster, Position, Template, taken)
  <2>0. \A S : Promise!Cardinality(S) = Cardinality(S)
    BY Zenon DEF Promise!Cardinality, Cardinality
  <2>1. \A roster, bucket :
          Promise!CountByPosition(roster, Position, bucket) = CountByPosition(roster, Position, bucket)
    BY <2>0 DEF Promise!CountByPosition, CountByPosition
  <2>2. Promise!RosterSize(Template) = RosterSize(Template)
    BY DEF Promise!RosterSize, RosterSize
  <2>. QED BY <2>0, <2>1, <2>2 DEF Promise!IsLegalPick, IsLegalPick
<1>. QED BY <1>2, <1>3, <1>4

(* Without holes the picks made are the first ones. *)
LEMMA FirstPicks ==
  ASSUME NEW board \in Boards, Gapless(board)
  PROVE  /\ Cardinality(Taken(board)) \in 0..Total
         /\ Taken(board) = 1..Cardinality(Taken(board))
<1>1. Taken(board) \in SUBSET (1..Total) /\ Total \in Nat /\ Slots = 1..Total
  BY TakenType, TotalType DEF Slots
<1>2. PICK n \in 0..Total : Taken(board) = 1..n
  <2>. DEFINE T == Taken(board)
  <2>1. CASE T = {}
    <3>1. T = 1..0 /\ 0 \in 0..Total
      BY <1>1, <2>1
    <3>. QED BY <3>1
  <2>2. CASE T # {}
    <3>1. Max(T) \in T /\ \A t \in T : Max(T) >= t
      <4>1. T \in SUBSET Nat /\ \A t \in T : t <= Total
        BY <1>1
      <4>. HIDE DEF T
      <4>. QED BY <1>1, <2>2, <4>1, NatMax
    <3>2. \A s \in 1..Max(T) : s \in T
      <4>1. Max(T) \in 1..Total /\ \A s \in 1..Max(T) : s \in Slots /\ (s < Max(T) \/ s = Max(T))
        BY <1>1, <3>1
      <4>. QED BY <3>1, <4>1 DEF Gapless, Reached
    <3>3. \A t \in T : t \in 1..Max(T)
      BY <1>1, <3>1
    <3>. DEFINE top == Max(T)
    <3>4. T = 1..top /\ top \in 0..Total
      <4>1. top \in T /\ T \in SUBSET (1..Total)
            /\ (\A s \in 1..top : s \in T) /\ (\A t \in T : t \in 1..top)
        BY <1>1, <3>1, <3>2, <3>3
      <4>. HIDE DEF T, top
      <4>2. T \subseteq 1..top /\ 1..top \subseteq T
        BY <4>1
      <4>3. top \in 0..Total
        BY <1>1, <4>1
      <4>. QED BY <4>2, <4>3
    <3>. QED BY <3>4
  <2>. QED BY <2>1, <2>2
<1>3. n \in Nat /\ Cardinality(1..n) = n
  BY <1>1, FS_Interval
<1>. QED BY <1>2, <1>3

Row(pick)     == [member |-> pick.member, player |-> pick.player]
Prefix(board) == [no \in 1..Cardinality(Taken(board)) |->
                    IF board[no] = None THEN None ELSE Row(board[no])]

LEMMA PrefixSpan ==
  ASSUME NEW board \in Boards, Gapless(board)
  PROVE  /\ Taken(board) = DOMAIN Prefix(board)
         /\ DOMAIN Prefix(board) = 1..Len(Prefix(board)) /\ Len(Prefix(board)) \in 0..Total
         /\ Prefix(board) \in Seq([member: Members, player: Players])
         /\ \A no \in Taken(board) : Prefix(board)[no] = Row(board[no])
<1>. DEFINE n == Cardinality(Taken(board))
<1>1. /\ n \in 0..Total /\ Taken(board) = 1..n /\ n \in Nat
      /\ \A no \in Taken(board) : board[no] \in Picks /\ board[no] # None
  BY FirstPicks, TotalType, TakenType DEF Taken
<1>2. Prefix(board) = [no \in 1..n |-> IF board[no] = None THEN None ELSE Row(board[no])]
  BY DEF Prefix
<1>. HIDE DEF n
<1>3. \A no \in 1..n : Prefix(board)[no] = Row(board[no])
  BY <1>1, <1>2
<1>4. \A no \in 1..n : Row(board[no]) \in [member: Members, player: Players]
  BY <1>1 DEF Row, Picks
<1>. QED BY <1>1, <1>2, <1>3, <1>4

LEMMA PromisedNow ==
  ASSUME TypeInv, Gapless(picks)
  PROVE  /\ PromisedBoard = Prefix(picks) /\ PromisedBoard' = Prefix(picks')
         /\ Promise!Drafted = TakenPlayers(picks)
         /\ \A member : Promise!Roster(member) = RosterOf(picks, member)
<1>1. picks \in Boards
  BY DEF TypeInv, TypeOK
<1>2. PromisedBoard = Prefix(picks) /\ PromisedBoard' = Prefix(picks')
  BY DEF PromisedBoard, Prefix, Row, Taken
<1>3. /\ DOMAIN PromisedBoard = Taken(picks)
      /\ \A no \in Taken(picks) : /\ PromisedBoard[no].member = picks[no].member
                                 /\ PromisedBoard[no].player = picks[no].player
  <2>1. /\ Taken(picks) = DOMAIN Prefix(picks)
        /\ \A no \in Taken(picks) : Prefix(picks)[no] = Row(picks[no])
    BY <1>1, PrefixSpan
  <2>2. \A no : Row(picks[no]).member = picks[no].member /\ Row(picks[no]).player = picks[no].player
    BY DEF Row
  <2>. QED BY <1>2, <2>1, <2>2
<1>4. Promise!Drafted = TakenPlayers(picks)
  BY <1>3 DEF Promise!Drafted, TakenPlayers
<1>5. ASSUME NEW member PROVE Promise!Roster(member) = RosterOf(picks, member)
  BY <1>3 DEF Promise!Roster, RosterOf
<1>. QED BY <1>2, <1>4, <1>5

(* A legal pick on the board is a draft of the promise. *)
LEMMA PickIsPromised ==
  ASSUME TypeInv, BoardInv, NEW slot, NEW pick, LegalPick(slot, pick), Gapless(picks'),
         picks' \in Boards, UNCHANGED league
  PROVE  Promise!Next
<1>. DEFINE old == Prefix(picks)
            new == Prefix(picks')
            row == [member |-> PickOrder[slot], player |-> pick.player]
<1>1. /\ slot \in Slots /\ pick \in Picks /\ pick.member = PickOrder[slot] /\ pick # None
      /\ picks \in Boards /\ Gapless(picks)
      /\ picks'[slot] = pick /\ \A s \in Slots \ {slot} : picks'[s] = picks[s]
  BY RoomAssumption DEF LegalPick, TypeInv, TypeOK, BoardInv, Boards
<1>2. /\ Slots = 1..Total /\ Total \in Nat
      /\ \A s \in Slots : s \in Taken(picks) <=> s < slot
  BY TotalType DEF Slots, LegalPick
<1>3. \A s \in Slots : s \in Taken(picks') <=> s <= slot
  BY <1>1, <1>2 DEF Taken
<1>4. /\ Taken(picks) = 1..Len(old) /\ Len(old) \in 0..Total /\ DOMAIN old = 1..Len(old)
      /\ old \in Seq([member: Members, player: Players])
      /\ \A no \in Taken(picks) : old[no] = Row(picks[no])
  BY <1>1, PrefixSpan
<1>5. /\ Taken(picks') = 1..Len(new) /\ Len(new) \in 0..Total /\ DOMAIN new = 1..Len(new)
      /\ new \in Seq([member: Members, player: Players])
      /\ \A no \in Taken(picks') : new[no] = Row(picks'[no])
  BY <1>1, PrefixSpan
<1>. HIDE DEF old, new
<1>6. Len(old) = slot - 1 /\ Len(new) = slot
  <2>1. ASSUME NEW k \in 0..Total, NEW last \in 0..Total,
               \A s \in 1..Total : s \in 1..k <=> s <= last
        PROVE  k = last
    <3>1. k >= last
      BY <1>2, <2>1
    <3>2. k <= last
      BY <1>2, <2>1
    <3>. QED BY <3>1, <3>2
  <2>2. slot - 1 \in 0..Total /\ slot \in 0..Total
        /\ \A s \in 1..Total : s < slot <=> s <= slot - 1
    BY <1>1, <1>2
  <2>3. Len(old) = slot - 1
    BY <1>2, <1>4, <2>1, <2>2
  <2>4. Len(new) = slot
    BY <1>2, <1>3, <1>5, <2>1, <2>2
  <2>. QED BY <2>3, <2>4
<1>7. new = Append(old, row)
  <2>1. row \in [member: Members, player: Players]
    BY <1>1, PickOrderType DEF Picks
  <2>2. \A no \in 1..slot - 1 : new[no] = old[no]
    BY <1>1, <1>2, <1>4, <1>5, <1>6
  <2>3. new[slot] = row
    BY <1>1, <1>2, <1>5, <1>6 DEF Row
  <2>. HIDE DEF row
  <2>4. /\ Append(old, row) \in Seq([member: Members, player: Players])
        /\ Len(Append(old, row)) = slot
        /\ \A no \in 1..slot - 1 : Append(old, row)[no] = old[no]
        /\ Append(old, row)[slot] = row
    BY <1>4, <1>6, <2>1
  <2>. QED BY <1>5, <1>6, <2>2, <2>3, <2>4
<1>8. pick.player \in Players
      /\ IsLegalPick(pick.player, RosterOf(picks, PickOrder[slot]), Position, Template,
                     TakenPlayers(picks))
  BY <1>1 DEF LegalPick, Picks
<1>9. PromisedBoard = old /\ PromisedBoard' = new
  BY <1>1, PromisedNow DEF old, new
<1>10. Promise!Draft(pick.player)
  BY <1>1, <1>2, <1>4, <1>5, <1>6, <1>7, <1>8, <1>9, PromisedNow, PromiseTerms DEF Promise!Draft
<1>. QED BY <1>4, <1>5, <1>6, <1>8, <1>9, <1>10 DEF Promise!Next

(* A league status that follows the draft.  With renders about, that a      *)
(* finished draft stays finished; without them, that nobody reconciles.     *)
FollowsDraft ==
  /\ \A p \in Procs : pc[p] = "reconcile" => seen[p].status = "complete"
  /\ "render" \in Requests =>
       /\ league = "season" => draft.status = "complete"
       /\ \A p \in Procs : /\ pc[p] \in {"season", "reconcile"} => draft.status = "complete"
                           /\ pc[p] \notin {"write_pause", "write_resume"}

NoReopening == "undo" \notin Requests
                 /\ ("render" \in Requests => "pause" \notin Requests /\ "resume" \notin Requests)

(* What a step of p owes to FollowsDraft.                                   *)
Follows(p) ==
  /\ pc'[p] = "reconcile" => seen'[p].status = "complete"
  /\ "render" \in Requests =>
       /\ draft.status = "complete" => draft'.status = "complete"
       /\ league' = "season" => league = "season" \/ draft'.status = "complete"
       /\ pc'[p] \in {"season", "reconcile"} => draft'.status = "complete"
       /\ pc'[p] \notin {"write_pause", "write_resume"}

LEMMA FollowsFrame ==
  ASSUME FollowsDraft, NEW p \in Procs, Frame(p), Follows(p)
  PROVE  FollowsDraft'
BY DEF FollowsDraft, Follows, Frame

LEMMA WriteAdvanceFollows ==
  ASSUME RecordsOK, LocalsOK, NEW p \in Procs, NEW filledNo,
         \/ WriteAdvance(p, filledNo)
         \/ draft' = AdvancePatch(p, draft, filledNo) /\ Goto(p, "choose"),
         UNCHANGED league
  PROVE  Follows(p)
<1>. DEFINE full == IsDraftComplete(Taken(hand[p]), Total)
<1>1. draft \in Drafts /\ draft' = AdvancePatch(p, draft, filledNo)
  BY DEF WriteAdvance, RecordsOK
<1>2. /\ full => draft'.status = "complete"
      /\ ~full => draft'.status = draft.status
  BY <1>1 DEF AdvancePatch, Drafts
<1>3. \/ full /\ Goto(p, "season")
      \/ Done(p) \/ Goto(p, "choose")
  BY DEF WriteAdvance
<1>. HIDE DEF full
<1>4. \/ full /\ pc'[p] = "season"
      \/ pc'[p] \in {"idle", "clear", "choose"}
  BY <1>3, DoneFact, GotoFact DEF Labels
<1>. QED BY <1>2, <1>4 DEF Follows

LEMMA FollowsKept ==
  ASSUME (NoReopening /\ BoardInv) \/ "render" \notin Requests,
         TypeInv, FollowsDraft, [Next]_vars
  PROVE  FollowsDraft'
<1>. USE TypeParts DEF TypeInv
<1>0. Worker \in Procs /\ LocalsOK /\ RecordsOK /\ draft \in Drafts
  BY DEF Procs, RecordsOK
<1>1. ASSUME NEW p \in Procs, UNCHANGED league, draft'.status = draft.status,
             \/ Leave(p) \/ Done(p)
             \/ \E label \in Labels \ {"reconcile", "season", "write_pause", "write_resume"} :
                  Goto(p, label)
      PROVE  Follows(p)
  <2>1. pc'[p] \notin {"reconcile", "season", "write_pause", "write_resume"}
    BY <1>0, <1>1, LeaveFact, DoneFact, GotoFact
  <2>. QED BY <1>1, <2>1 DEF Follows
<1>2. ASSUME NEW p \in Procs, Pipeline(p) PROVE Follows(p)
  <2>1. CASE Advance(p) \/ RepairUnadvanced(p)
    BY <1>0, <2>1, WriteAdvanceFollows DEF Advance, RepairUnadvanced
  <2>2. CASE FinishLeague(p)
    <3>1. /\ pc[p] = "season" /\ draft' = draft /\ Goto(p, "materialize")
          /\ league' = "season" \/ league' = league
      BY <2>2 DEF FinishLeague
    <3>2. pc'[p] = "materialize"
      BY <1>0, <3>1, GotoFact DEF Labels
    <3>. QED BY <3>1, <3>2 DEF Follows, FollowsDraft
  <2>3. CASE Materialize(p)
    BY <1>1, <2>3 DEF Materialize
  <2>. QED BY <1>2, <2>1, <2>2, <2>3 DEF Pipeline
<1>3. ASSUME NEW c \in Calls, ServerAction(c) PROVE Follows(c) /\ Sound(c)
  <2>0. c \in Procs
    BY DEF Procs
  <2>1. ASSUME MakePick(c) \/ ReadPicks(c) \/ CommitOwnPick(c) \/ RefusePick(c) \/ SetPickClock(c) PROVE Follows(c)
    <3>1. draft'.status = draft.status
      BY <1>0, <2>1 DEF MakePick, ReadPicks, CommitOwnPick, RefusePick, SetPickClock, records, Drafts
    <3>. QED BY <1>1, <2>0, <2>1, <3>1 DEF MakePick, ReadPicks, CommitOwnPick, CreatePick,
           RefusePick, SetPickClock, records, Labels
  <2>2. ASSUME NEW kind \in {"pause", "resume", "clock"}, ReadForControl(c, kind)
        PROVE  Follows(c)
    <3>1. UNCHANGED <<draft, league>> /\ Goto(c, Control(kind)) /\ kind \in Requests
      BY <2>2 DEF ReadForControl, records
    <3>2. /\ Control(kind) \in {"write_pause", "write_resume", "write_clock"}
          /\ "render" \in Requests => Control(kind) = "write_clock"
      BY <3>1 DEF Control, NoReopening
    <3>3. pc'[c] = Control(kind)
      BY <1>0, <2>0, <3>1, <3>2, GotoFact DEF Labels
    <3>. QED BY <3>1, <3>2, <3>3 DEF Follows
  <2>3. ASSUME SetDraftPaused(c) PROVE Follows(c)
    <3>1. "render" \notin Requests
      BY <2>0, <2>3 DEF SetDraftPaused, FollowsDraft
    <3>2. pc'[c] = "idle"
      BY <1>0, <2>0, <2>3, LeaveFact DEF SetDraftPaused
    <3>. QED BY <3>1, <3>2 DEF Follows
  <2>4. ASSUME ReadForRender(c) PROVE Follows(c)
    <3>1. /\ "render" \in Requests /\ LeagueShouldBe(draft) # league
          /\ UNCHANGED <<draft, league>> /\ pc'[c] = "reconcile" /\ seen'[c] = draft
      BY <1>0, <2>0, <2>4, GotoFact DEF ReadForRender, records, Labels, LocalsOK
    <3>2. league # "season" => league = "drafting"
      BY DEF RecordsOK
    <3>3. draft.status = "complete"
      BY <3>1, <3>2 DEF LeagueShouldBe, FollowsDraft
    <3>. QED BY <3>1, <3>3 DEF Follows
  <2>5. ASSUME ReconcileLeagueStatus(c) PROVE Follows(c)
    <3>1. draft' = draft /\ pc'[c] = "idle" /\ seen[c].status = "complete"
      BY <1>0, <2>0, <2>5, LeaveFact DEF ReconcileLeagueStatus, FollowsDraft
    <3>2. "render" \in Requests => draft.status = "complete"
      BY <2>0, <2>5 DEF ReconcileLeagueStatus, FollowsDraft
    <3>. QED BY <3>1, <3>2 DEF Follows
  <2>6. ASSUME Pipeline(c) PROVE Follows(c)
    BY <1>2, <2>0, <2>6
  <2>7. ASSUME \/ \E target \in 0..Total + 1 : RollbackDraft(c, target)
               \/ ComputeRollback(c) \/ PauseForRollback(c) \/ DeletePick(c)
               \/ RepointDraft(c) \/ UnfinishLeague(c)
        PROVE  Follows(c)
    <3>1. "render" \notin Requests
      BY <2>0, <2>7 DEF BoardInv, HandOK, NoReopening, UndoLabels, RollbackDraft, ComputeRollback,
         PauseForRollback, DeletePick, RepointDraft, UnfinishLeague
    <3>2. \/ (pc' = pc /\ pc[c] = "undo_delete") \/ Leave(c)
          \/ \E label \in UndoLabels : Goto(c, label)
      BY <2>7 DEF UndoLabels, RollbackDraft, ComputeRollback,
         PauseForRollback, DeletePick, RepointDraft, UnfinishLeague
    <3>3. UndoLabels \subseteq Labels \ {"reconcile"}
      BY DEF UndoLabels, Labels
    <3>4. pc'[c] # "reconcile"
      BY <1>0, <2>0, <3>2, <3>3, LeaveFact, GotoFact
    <3>. QED BY <3>1, <3>4 DEF Follows
  <2>8. Sound(c)
    BY <1>3, <2>0, SoundPick, SoundControl, SoundUndo, SoundPipeline DEF ServerAction
  <2>. QED BY <1>3, <2>1, <2>2, <2>3, <2>4, <2>5, <2>6, <2>7, <2>8 DEF ServerAction
<1>4. ASSUME Sweep PROVE Follows(Worker)
  <2>1. ASSUME ListLiveDraft \/ SweepReadPicks \/ SweepMember \/ LastLook \/ CommitAutoPick
        PROVE  Follows(Worker)
    <3>1. SweepJob(seen[Worker], picks) \in
            Labels \ {"reconcile", "season", "write_pause", "write_resume"}
      BY SweepJobFact DEF Labels, StuckReasons
    <3>. QED BY <1>0, <1>1, <2>1, <3>1 DEF ListLiveDraft, SweepReadPicks, SweepMember, LastLook,
           CommitAutoPick, CreatePick, records, Labels, StuckReasons
  <2>2. ASSUME CloseDraft PROVE Follows(Worker)
    BY <1>0, <2>2, WriteAdvanceFollows DEF CloseDraft
  <2>3. ASSUME RestartClock \/ MarkStuck \/ ClearStuck PROVE Follows(Worker)
    <3>1. draft'.status = draft.status
      BY <1>0, <2>3 DEF RestartClock, MarkStuck, ClearStuck, Drafts
    <3>. QED BY <1>0, <1>1, <2>3, <3>1 DEF RestartClock, MarkStuck, ClearStuck
  <2>4. ASSUME Pipeline(Worker) PROVE Follows(Worker)
    BY <1>0, <1>2, <2>4
  <2>. QED BY <1>4, <2>1, <2>2, <2>3, <2>4 DEF Sweep
<1>5. ASSUME NEW p \in Procs, Crash(p) PROVE Follows(p)
  BY <1>0, <1>1, <1>5 DEF Crash, records
<1>6. ASSUME ThrowTick PROVE Follows(Worker)
  BY <1>0, <1>1, <1>6 DEF ThrowTick, records, Labels, StuckReasons
<1>7. ASSUME UNCHANGED <<locals, league>>, draft'.status = draft.status PROVE FollowsDraft'
  BY <1>7 DEF FollowsDraft, locals
<1>8. CASE (\E member \in Members : SetAutodraft(member)) \/ ClockRunsOut \/ UNCHANGED vars
  <2>1. UNCHANGED <<locals, league>> /\ draft'.status = draft.status
    BY <1>0, <1>8 DEF SetAutodraft, ClockRunsOut, vars, records, Drafts
  <2>. QED BY <1>7, <2>1
<1>9. ASSUME NEW p \in Procs, Sound(p), Follows(p) PROVE FollowsDraft'
  BY <1>9, FollowsFrame DEF Sound
<1>. QED BY <1>0, <1>3, <1>4, <1>5, <1>6, <1>8, <1>9, SoundSweep, SoundFault DEF Next, Procs

(* Where nothing is being undone nobody but a pick changes the board, and   *)
(* nobody but a finish or a reconciliation the league, over a full board.   *)
LEMMA LeagueMoves ==
  ASSUME TypeInv, BoardInv, FollowsDraft, [Next]_vars
  PROVE  /\ picks' # picks => UNCHANGED league
         /\ league' # league => league' = "season" /\ Taken(picks) = Slots
<1>0. /\ \A c \in Calls : c \in Procs
      /\ Worker \in Procs
  BY DEF Procs
<1>. DEFINE Moves == /\ picks' # picks => UNCHANGED league
                     /\ league' # league => league' = "season" /\ Taken(picks) = Slots
<1>1. ASSUME NEW p \in Procs, Pipeline(p) PROVE Moves
  <2>1. pc[p] = "season" => Taken(picks) = Slots
    <3>1. /\ pc[p] \in HandIsFull => Taken(hand[p]) = Slots
          /\ Taken(picks) \subseteq Slots
      BY DEF BoardInv, HandOK, Taken
    <3>2. Taken(hand[p]) \subseteq Taken(picks)
      BY HandSubset
    <3>. QED BY <3>1, <3>2 DEF HandIsFull
  <2>. QED BY <1>1, <2>1
           DEF Pipeline, Advance, RepairUnadvanced, FinishLeague, Materialize
<1>2. ASSUME NEW c \in Calls, ServerAction(c) PROVE Moves
  <2>1. /\ pc[c] \notin UndoLabels
        /\ pc[c] = "reconcile" => seen[c].status = "complete" /\ Taken(picks) = Slots
    BY <1>0 DEF BoardInv, HandOK, FollowsDraft
  <2>2. ~(DeletePick(c) \/ UnfinishLeague(c))
    BY <2>1 DEF DeletePick, UnfinishLeague, UndoLabels
  <2>3. ReconcileLeagueStatus(c) => league' = "season" /\ UNCHANGED picks /\ Taken(picks) = Slots
    BY <2>1 DEF ReconcileLeagueStatus, LeagueShouldBe
  <2>. QED BY <1>0, <1>1, <1>2, <2>2, <2>3 DEF ServerAction, MakePick, ReadPicks, CommitOwnPick,
     RefusePick, ReadForControl, SetDraftPaused, SetPickClock, RollbackDraft, ComputeRollback,
     PauseForRollback, RepointDraft, ReadForRender, records
<1>3. ASSUME Sweep PROVE Moves
  BY <1>0, <1>1, <1>3 DEF Sweep, ListLiveDraft, SweepReadPicks, CloseDraft, RestartClock,
     CommitAutoPick, SweepMember, LastLook, MarkStuck, ClearStuck, records
<1>4. ASSUME \/ \E member \in Members : SetAutodraft(member)
             \/ \E p \in Procs : Crash(p)
             \/ ThrowTick \/ ClockRunsOut \/ UNCHANGED vars
      PROVE  UNCHANGED <<picks, league>>
  BY <1>4 DEF SetAutodraft, Crash, ThrowTick, ClockRunsOut, vars, records
<1>. QED BY <1>2, <1>3, <1>4 DEF Next

LEMMA FullIsLong ==
  ASSUME NEW board \in Boards, Gapless(board)
  PROVE  /\ Len(Prefix(board)) = Total <=> Taken(board) = Slots
         /\ Len(Prefix(board)) \in 0..Total /\ Total \in Nat
<1>. DEFINE k == Len(Prefix(board))
<1>1. Taken(board) = 1..k /\ k \in 0..Total /\ Total \in Nat /\ Slots = 1..Total
  BY PrefixSpan, TotalType DEF Slots
<1>. HIDE DEF k
<1>2. 1..k = 1..Total => k = Total
  <2>1. k < Total => Total \in (1..Total) \ (1..k)
    BY <1>1
  <2>. QED BY <1>1, <2>1
<1>. QED BY <1>1, <1>2 DEF k

LEMMA PromiseStep ==
  ASSUME TypeInv, BoardInv, DecisionOK, FollowsDraft, [Next]_vars, TypeInv', Gapless(picks')
  PROVE  [Promise!Next]_<<PromisedBoard, league = "season">>
<1>1. /\ Gapless(picks) /\ picks \in Boards /\ picks' \in Boards
      /\ league \in {"drafting", "season"}
  BY DEF BoardInv, TypeInv, TypeOK
<1>2. CASE picks' # picks
  BY <1>1, <1>2, LegalOnArrival, LeagueMoves, PickIsPromised
<1>3. CASE picks' = picks /\ league' = league
  BY <1>3 DEF PromisedBoard, Taken
<1>4. CASE picks' = picks /\ league' # league
  <2>1. league' = "season" /\ league = "drafting"
    BY <1>1, <1>4, LeagueMoves
  <2>2. Taken(picks) = Slots
    BY <1>4, LeagueMoves
  <2>3. Len(Prefix(picks)) = Total
    BY <1>1, <2>2, FullIsLong
  <2>4. PromisedBoard' = PromisedBoard
    BY <1>4 DEF PromisedBoard, Taken
  <2>5. Promise!OpenSeason
    BY <1>1, <2>1, <2>3, <2>4, PromisedNow, PromiseTerms DEF Promise!OpenSeason
  <2>. QED BY <2>5 DEF Promise!Next
<1>. QED BY <1>2, <1>3, <1>4

LEMMA PromiseInit == Init => Promise!Init
<1>. SUFFICES ASSUME Init PROVE Promise!Init
  OBVIOUS
<1>1. Taken(picks) = {} /\ league # "season"
  BY DEF Init, EmptyBoard, Taken
<1>2. PromisedBoard = << >>
  BY <1>1, FS_EmptySet DEF PromisedBoard
<1>. QED BY <1>1, <1>2 DEF Promise!Init

(* KeepsItsPromise: every step of the room is a step of DraftBoard or none  *)
(* at all.  The board grows by one legal pick at a time, for the member     *)
(* whose turn it is, is never changed otherwise, and the season is opened   *)
(* over a full board (commitPick, advance and reconcileLeagueStatus).  The  *)
(* hypothesis leaves out the undo, and a render beside a pause or a resume: *)
(* a pause can be written over a finish (the finding of pause_over_finish), *)
(* and the next render then reopens the league over a full board.           *)
THEOREM RoomKeepsItsPromise ==
  ASSUME NoReopening
  PROVE  Spec => KeepsItsPromise
<1>1. Init => Promise!Init
  BY PromiseInit
<1>2. Init => FollowsDraft
  BY DEF Init, FollowsDraft
<1>3. TypeInv /\ BoardInv /\ FollowsDraft /\ [Next]_vars => FollowsDraft'
  BY FollowsKept
<1>4. TypeInv /\ BoardInv /\ DecisionOK /\ FollowsDraft /\ [Next]_vars /\ TypeInv' /\ BoardInv'
        => [Promise!Next]_<<PromisedBoard, league = "season">>
  <2>. SUFFICES ASSUME TypeInv, BoardInv, DecisionOK, FollowsDraft, [Next]_vars,
                       TypeInv', BoardInv'
                PROVE  [Promise!Next]_<<PromisedBoard, league = "season">>
    OBVIOUS
  <2>. QED BY PromiseStep DEF BoardInv
<1>5. Spec => []BoardInv
  BY BoardAlways DEF NoReopening
<1>. QED BY <1>1, <1>2, <1>3, <1>4, <1>5, TypeAlways, DecisionAlways, PTL
         DEF Spec, KeepsItsPromise, Promise!Spec

LEMMA RowsOf ==
  ASSUME NEW board \in Boards, Gapless(board)
  PROVE  /\ Taken(board) = 1..Len(Prefix(board)) /\ Len(Prefix(board)) \in Nat
         /\ DOMAIN Prefix(board) = 1..Len(Prefix(board))
         /\ Prefix(board) \in Seq([member: Members, player: Players])
         /\ \A no \in Taken(board) : Prefix(board)[no] = Row(board[no])
<1>. DEFINE k == Len(Prefix(board))
<1>1. k \in 0..Total /\ Total \in Nat
  BY PrefixSpan, TotalType
<1>. HIDE DEF k
<1>2. k \in Nat
  BY <1>1
<1>. QED BY <1>2, PrefixSpan DEF k

(* What an undo does to the board is an undo of the promise, and what it    *)
(* does to the league reopens it over a board that is not full.             *)
LEMMA UnmakingIsPromised ==
  ASSUME TypeInv, TypeInv', Gapless(picks), Gapless(picks'), Unmakes
  PROVE  [Promise!Next]_<<PromisedBoard, league = "season">>
<1>. DEFINE old == Prefix(picks)
            new == Prefix(picks')
<1>1. /\ picks \in Boards /\ picks' \in Boards
      /\ PromisedBoard = old /\ PromisedBoard' = new
  BY PromisedNow DEF TypeInv, TypeOK
<1>2. CASE UNCHANGED <<picks, league>>
  BY <1>1, <1>2
<1>3. ASSUME UNCHANGED league, NEW no \in Taken(picks), picks' = [picks EXCEPT ![no] = None]
      PROVE  Promise!Next
  <2>. DEFINE rows == [member: Members, player: Players]
  <2>1. /\ picks'[no] = None /\ \A s \in Slots \ {no} : picks'[s] = picks[s]
        /\ no \in Slots
    BY <1>1, <1>3 DEF Boards, Taken
  <2>2. Taken(picks') = Taken(picks) \ {no}
    BY <2>1 DEF Taken
  <2>3. /\ Taken(picks) = 1..Len(old) /\ Len(old) \in Nat /\ DOMAIN old = 1..Len(old)
        /\ old \in Seq(rows)
        /\ \A s \in Taken(picks) : old[s] = Row(picks[s])
    BY <1>1, RowsOf
  <2>4. /\ Taken(picks') = 1..Len(new) /\ Len(new) \in Nat /\ DOMAIN new = 1..Len(new)
        /\ new \in Seq(rows)
        /\ \A s \in Taken(picks') : new[s] = Row(picks'[s])
    BY <1>1, RowsOf
  <2>. HIDE DEF old, new, rows
  <2>5. ASSUME NEW n \in Nat, NEW m \in Nat, 1..m = (1..n) \ {no}, no \in 1..n
        PROVE  n = m + 1
    <3>1. m + 1 \notin 1..m /\ n \in 1..n /\ n >= 1
      BY <2>5
    <3>2. m < n
      <4>1. ~(m >= n)
        <5>1. m >= n => no \in 1..m
          BY <2>5
        <5>. QED BY <2>5, <5>1
      <4>. QED BY <2>5, <4>1
    <3>3. m + 1 \in 1..n /\ m + 1 = no
      <4>1. m + 1 \in 1..n
        BY <2>5, <3>2
      <4>. QED BY <2>5, <3>1, <4>1
    <3>4. n \in 1..m \/ n = no
      BY <2>5, <3>1
    <3>. QED BY <2>5, <3>2, <3>3, <3>4
  <2>6. Len(old) = Len(new) + 1
    BY <1>3, <2>2, <2>3, <2>4, <2>5
  <2>7. \A s \in 1..Len(new) : new[s] = old[s]
    BY <2>1, <2>2, <2>3, <2>4 DEF Taken
  <2>8. /\ old # << >> /\ Len(old) - 1 = Len(new)
        /\ SubSeq(old, 1, Len(old) - 1) \in Seq(rows)
        /\ Len(SubSeq(old, 1, Len(old) - 1)) = Len(new)
        /\ \A s \in 1..Len(new) : SubSeq(old, 1, Len(old) - 1)[s] = old[s]
    BY <2>3, <2>4, <2>6
  <2>9. new = SubSeq(old, 1, Len(old) - 1)
    BY <2>4, <2>7, <2>8
  <2>10. Promise!Undo
    BY <1>1, <1>3, <2>8, <2>9 DEF Promise!Undo
  <2>. QED BY <2>10 DEF Promise!Next
<1>4. ASSUME UNCHANGED picks, league' = "drafting", Taken(picks) # Slots, league = "season"
      PROVE  Promise!Next
  <2>1. Len(old) < Total
    BY <1>1, <1>4, FullIsLong
  <2>2. PromisedBoard' = PromisedBoard
    BY <1>4 DEF PromisedBoard, Taken
  <2>3. Promise!ReopenDraft
    BY <1>1, <1>4, <2>1, <2>2, PromiseTerms DEF Promise!ReopenDraft
  <2>. QED BY <2>3 DEF Promise!Next
<1>5. CASE UNCHANGED picks /\ league' = "drafting" /\ league # "season"
  <2>1. PromisedBoard' = PromisedBoard
    BY <1>5 DEF PromisedBoard, Taken
  <2>. QED BY <1>5, <2>1
<1>. QED BY <1>2, <1>3, <1>4, <1>5 DEF Unmakes

(* KeepsItsPromise where the manager undoes, on their own: an undo takes    *)
(* picks off the end, one at a time, and a league is reopened over a board  *)
(* that is not full, whatever was lost or died before and after.  Pauses    *)
(* and resumes may come at any time outside it; the hypothesis leaves out   *)
(* the renders, of which one that read an undone board and writes after it  *)
(* was filled again takes the league back over a full board.                *)
THEOREM UndoneRoomKeepsItsPromise ==
  ASSUME "render" \notin Requests
  PROVE  AloneSpec => KeepsItsPromise
<1>1. Init => Promise!Init /\ FollowsDraft /\ DecisionOK
  BY PromiseInit DEF Init, FollowsDraft, DecisionOK, Deciding, Procs
<1>2. TypeInv /\ FollowsDraft /\ DecisionOK /\ [Next /\ UndoAlone' /\ Uncut]_vars
        => FollowsDraft' /\ DecisionOK'
  BY FollowsKept, DecisionKept
<1>3. TypeInv /\ AloneInv /\ FollowsDraft /\ DecisionOK /\ TypeInv' /\ AloneInv'
        /\ [Next /\ UndoAlone' /\ Uncut]_vars
        => [Promise!Next]_<<PromisedBoard, league = "season">>
  <2>. SUFFICES ASSUME TypeInv, AloneInv, FollowsDraft, DecisionOK, TypeInv', AloneInv',
                       [Next /\ UndoAlone' /\ Uncut]_vars
                PROVE  [Promise!Next]_<<PromisedBoard, league = "season">>
    OBVIOUS
  <2>0. [Next]_vars
    OBVIOUS
  <2>1. Gapless(picks) /\ Gapless(picks')
    <3>1. Gapless(picks)'
      BY DEF AloneInv, BoardInv, UndoOK
    <3>. QED BY <3>1, AloneGapless DEF Gapless, Reached, Taken
  <2>2. ASSUME BoardInv PROVE [Promise!Next]_<<PromisedBoard, league = "season">>
    BY <2>0, <2>1, <2>2, PromiseStep
  <2>3. ASSUME NEW c \in Procs, pc[c] \in UndoLabels
        PROVE  [Promise!Next]_<<PromisedBoard, league = "season">>
    <3>1. UNCHANGED <<picks, league>> => Unmakes
      BY DEF Unmakes
    <3>2. Unmakes
      BY <2>3, <3>1, OnlyTheUndoMoves DEF AloneInv, UndoMoves, vars, records
    <3>. QED BY <2>1, <3>2, UnmakingIsPromised
  <2>. QED BY <2>2, <2>3 DEF AloneInv
<1>. QED BY <1>1, <1>2, <1>3, AloneAlways, PTL DEF AloneSpec, KeepsItsPromise, Promise!Spec
=============================================================================
