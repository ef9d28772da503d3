----------------------------- MODULE MCDraftRoom -----------------------------
(***************************************************************************)
(* Instances of DraftRoom: a league of two with a guard and a forward each *)
(* (MC...), one of three and one of two with a single place each (Trio...,  *)
(* Pair...), all drafted in a snake.                                        *)
(***************************************************************************)
EXTENDS DraftRoom, TLC

CONSTANTS m1, m2, m3, c1, c2

MCOrder    == <<m1, m2>>
MCTemplate == [G |-> 1, F |-> 1, C |-> 0]
MCPlayers  == 1..4
MCPosition == (1 :> "G") @@ (2 :> "G") @@ (3 :> "F") @@ (4 :> "F")
MCSheet    == (m1 :> <<3, 9, 1>>) @@ (m2 :> << >>)
MCRankPir  == (2 :> 11) @@ (4 :> 7)
MCPickIds  == 1..8

(* Three members with one place each, for races of three processes. *)
TrioOrder    == <<m1, m2, m3>>
TrioTemplate == [G |-> 1, F |-> 0, C |-> 0]
TrioPlayers  == 1..4
TrioPosition == [player \in TrioPlayers |-> IF player = 4 THEN "F" ELSE "G"]
TrioSheet    == (m1 :> <<3, 9, 1>>) @@ (m2 :> << >>) @@ (m3 :> <<2>>)

(* Two members with one place each, for runs that change the clock as well. *)
PairOrder    == <<m1, m2>>
PairPlayers  == 1..3
PairPosition == [player \in PairPlayers |-> IF player = 3 THEN "F" ELSE "G"]
PairSheet    == (m1 :> <<3, 9, 1>>) @@ (m2 :> << >>)

(* The runs in which the manager has the room to themselves: while an undo or  *)
(* a resume is under way no other server action and no tick is.                *)
ManagerLabels == {"undo_read", "undo_pause", "undo_delete", "undo_point", "undo_league",
                  "write_resume"}
ManagerAlone ==
  \A c \in Calls, p \in Procs : pc[c] \in ManagerLabels /\ p # c => pc[p] = "idle"

(* Only m2 switches autodraft on and off; m1 never does. *)
OneSwitch == armed \subseteq {m2}

(* A room nobody sweeps: only server actions race. *)
NoSweep == pc[Worker] = "idle" /\ draft.deadline # "out"

CallSymmetry == Permutations(Calls)

(* One crash or lost write among the calls; and, while no call is about,     *)
(* ticks thrown in a row until the flag they raise is taken down.            *)
OneFaultOrAFlag ==
  \/ faults <= 1
  \/ /\ \A c \in Calls : pc[c] = "idle"
     /\ failures = faults \/ faults = MaxFaults
=============================================================================
