----------------------------- MODULE MCRoomRaces -----------------------------
(***************************************************************************)
(* Races in two draft rooms that differ in who has autodraft on: one where *)
(* nothing is undone, and one where the manager undoes.  One run over both *)
(* asks what neither asks alone, and a behaviour stays in its room.        *)
(***************************************************************************)
EXTENDS MCDraftRoom

CONSTANT ArmedInUndoRoom   \* who has autodraft on where the manager undoes

UndoRoom == INSTANCE DraftRoom WITH InitiallyArmed <- ArmedInUndoRoom

InUndoRoom == armed = ArmedInUndoRoom
SameRoom == InUndoRoom' = InUndoRoom

UndoLabels == ManagerLabels \ {"write_resume"}
ControlLabels == {"write_pause", "write_resume", "write_clock"}
Nobody(labels) == \A p \in Procs : pc[p] \notin labels

(* Picks by two calls and the sweep; an undo and what follows it, with one   *)
(* call about.                                                               *)
PicksOrUndo ==
  IF InUndoRoom THEN ManagerAlone /\ \E c \in Calls : \A d \in Calls \ {c} : pc[d] = "idle"
  ELSE Nobody(UndoLabels \cup ControlLabels \cup {"reconcile"})

(* Two calls, the sweep and the controls; two calls and undos in a room      *)
(* nobody sweeps.                                                            *)
ControlsOrUndos ==
  IF InUndoRoom THEN NoSweep /\ Nobody({"write_pause", "write_clock"}) /\ draft.current_pick <= Total + 1
  ELSE OneSwitch /\ Nobody(UndoLabels)

RacesSpec == (Init \/ UndoRoom!Init) /\ [][Next]_vars
=============================================================================
