----------------------------- MODULE PickInHand -----------------------------
(***************************************************************************)
(* One person's way to a pick in the draft room: a row of the pool is      *)
(* armed, the tap that drafts it is made in the band above (armed-pick.tsx,*)
(* confirm-pick.tsx, pick-form.tsx), and makePick decides against the      *)
(* draft as it is by then.  Meanwhile the others pick, the worker picks    *)
(* for whoever was too slow, somebody pauses or undoes, and the screen is  *)
(* as old as its last render.                                              *)
(*                                                                         *)
(* The board is a sequence of players and the slot on the clock is the     *)
(* next one: stranded and missing picks are DraftRoom's.                   *)
(***************************************************************************)
EXTENDS Naturals, Sequences

CONSTANTS
    Order,       \* whose each slot is
    Me,          \* the member whose screen is followed
    Manages,     \* whether they may pick for the others
    Pool,
    MaxChanges   \* bound: pauses, resumptions and undos

VARIABLES
    board, paused,   \* the draft
    screen,          \* what the room showed when it was last rendered
    armed, refused,  \* the context shared by the pool and the band
    result,          \* the last answer of makePick, which React keeps
    tap,             \* the tap on its way, with what its screen showed
    changes

handVars == <<armed, refused, result>>
vars     == <<board, paused, screen, handVars, tap, changes>>

Nobody == 0          \* no player; players are positive naturals
Nothing  == [player |-> Nobody, whose |-> Me]
NoTap    == [player |-> Nobody, whose |-> Me, stage |-> "none", shown |-> 0, slot |-> 0]
NoResult == [picked |-> FALSE, error |-> FALSE, player |-> Nobody]

OnClock(b)  == Len(b) + 1
Finished(b) == Len(b) = Len(Order)
Taken(b)    == {b[i] : i \in DOMAIN b}
Rendered    == [board |-> board, paused |-> paused]
Live(s)     == ~s.paused /\ ~Finished(s.board)
Whose(s)    == Order[OnClock(s.board)]

(* useEffect of ConfirmPick, run whenever the result or the hand changes. *)
Settle(hand, refusal, answer) ==
    /\ result' = answer
    /\ IF answer.picked /\ answer.player = hand.player
       THEN armed' = Nothing /\ refused' = Nobody
       ELSE /\ armed' = hand
            /\ refused' = IF answer.error THEN answer.player ELSE refusal

(* A row may be chosen where the screen says that it may be drafted. *)
Arm ==
    /\ Live(screen)
    /\ Manages \/ Whose(screen) = Me
    /\ \E p \in Pool \ Taken(screen.board) :
         Settle([player |-> p, whose |-> Whose(screen)], Nobody, result)
    /\ UNCHANGED <<board, paused, screen, tap, changes>>

Disarm ==
    /\ armed # Nothing
    /\ Settle(Nothing, Nobody, result)
    /\ UNCHANGED <<board, paused, screen, tap, changes>>

(* The band's button, disabled while a tap is pending. *)
Tap ==
    /\ armed # Nothing
    /\ Live(screen)
    /\ tap = NoTap
    /\ tap' = [NoTap EXCEPT !.player = armed.player, !.whose = armed.whose,
                            !.stage = "asked", !.shown = OnClock(screen.board)]
    /\ UNCHANGED <<board, paused, screen, handVars, changes>>

MayPick(p) ==
    /\ Live(Rendered)
    /\ Manages \/ Whose(Rendered) = Me
    /\ p \notin Taken(board)

(* makePick reads the draft and decides whose turn it is. *)
MakePick ==
    /\ tap.stage = "asked"
    /\ tap' = IF MayPick(tap.player)
              THEN [tap EXCEPT !.stage = "commit", !.slot = OnClock(board)]
              ELSE [tap EXCEPT !.stage = "refused"]
    /\ UNCHANGED <<board, paused, screen, handVars, changes>>

(* commitPick: the create, or one of the two indexes refuses it. *)
Lands == /\ tap.stage = "commit"
         /\ tap.slot = OnClock(board)
         /\ tap.player \notin Taken(board)
CommitPick ==
    /\ tap.stage = "commit"
    /\ IF Lands THEN /\ board' = Append(board, tap.player)
                     /\ tap' = [tap EXCEPT !.stage = "landed"]
                ELSE /\ tap' = [tap EXCEPT !.stage = "refused"]
                     /\ UNCHANGED board
    /\ UNCHANGED <<paused, screen, handVars, changes>>

(* The answer, with the render that every answer brings. *)
Answer ==
    /\ tap.stage \in {"landed", "refused"}
    /\ Settle(armed, refused, [picked |-> tap.stage = "landed",
                               error |-> tap.stage = "refused", player |-> tap.player])
    /\ screen' = Rendered
    /\ tap' = NoTap
    /\ UNCHANGED <<board, paused, changes>>

Render ==
    /\ screen # Rendered
    /\ screen' = Rendered
    /\ UNCHANGED <<board, paused, handVars, tap, changes>>

(* Another member's pick, or the worker's for whoever is on the clock. *)
OtherPick ==
    /\ Live(Rendered)
    /\ \E p \in Pool \ Taken(board) : board' = Append(board, p)
    /\ UNCHANGED <<paused, screen, handVars, tap, changes>>

(* Undo of the last pick, between two taps; it leaves the draft paused. *)
Undo ==
    /\ board # <<>> /\ tap = NoTap
    /\ changes < MaxChanges /\ changes' = changes + 1
    /\ board' = SubSeq(board, 1, Len(board) - 1)
    /\ paused' = TRUE
    /\ UNCHANGED <<screen, handVars, tap>>

SetPaused ==
    /\ ~Finished(board)
    /\ changes < MaxChanges /\ changes' = changes + 1
    /\ paused' = ~paused
    /\ UNCHANGED <<board, screen, handVars, tap>>

Init ==
    /\ board = <<>> /\ paused = FALSE
    /\ screen = Rendered
    /\ armed = Nothing /\ refused = Nobody /\ result = NoResult
    /\ tap = NoTap /\ changes = 0

Next == \/ Arm \/ Disarm \/ Tap \/ MakePick \/ CommitPick \/ Answer
        \/ Render \/ OtherPick \/ Undo \/ SetPaused

Spec == Init /\ [][Next]_vars

-----------------------------------------------------------------------------
(* confirm-pick.tsx:143: where a manager spends somebody else's turn, the   *)
(* line that says whose "is the fact that prevents a mis-pick": a tap that  *)
(* spends the very turn its screen showed spends it for whom the line said. *)
TurnsAreSpentAsSaid ==
    [][tap.stage = "commit" /\ tap'.stage = "landed" /\ tap.slot = tap.shown
         => Order[tap.slot] = tap.whose]_vars

(* actions.ts:374: the answer names its player so that a freshly armed row  *)
(* does not "silently un-choose itself".  Arming a row puts it in the hand. *)
ArmedIsInHand == [][Arm => armed'.player # Nobody]_vars

(* armed-pick.tsx:89: arming a different row clears the refusal of the last,*)
(* "so a stale correction cannot sit on a row nobody is looking at".        *)
ArmingClearsRefusals == [][Arm => refused' \in {Nobody, armed'.player}]_vars
=============================================================================
