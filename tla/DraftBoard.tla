------------------------------ MODULE DraftBoard ------------------------------
(***************************************************************************)
(* What a league is promised of its draft, without processes, requests or  *)
(* records: a board that grows by one legal pick at a time in drafting     *)
(* order, from which an undo takes picks off the end only, and a season    *)
(* that is opened only by a full board.                                    *)
(***************************************************************************)
EXTENDS DraftEngine

CONSTANTS Order, Format, Template, Players, Position

VARIABLES
  board,    \* the picks so far, a sequence of [member, player]
  season    \* whether the league has moved on to its season

Total     == TotalPicks(Len(Order), RosterSize(Template))
PickOrder == BuildPickOrder(Format, Order, RosterSize(Template))

Drafted       == {board[i].player : i \in DOMAIN board}
Roster(member) == {board[i].player : i \in {j \in DOMAIN board : board[j].member = member}}

Init == board = <<>> /\ season = FALSE

(* The member whose turn it is gets a player nobody has, within the caps. *)
Draft(player) ==
  LET no == Len(board) + 1
  IN  /\ Len(board') = no /\ no <= Total
      /\ IsLegalPick(player, Roster(PickOrder[no]), Position, Template, Drafted)
      /\ board' = Append(board, [member |-> PickOrder[no], player |-> player])
      /\ UNCHANGED season

Undo ==
  /\ board # <<>>
  /\ board' = SubSeq(board, 1, Len(board) - 1)
  /\ UNCHANGED season

OpenSeason  == ~season /\ season' = TRUE /\ Len(board) = Total /\ UNCHANGED board
ReopenDraft == season /\ season' = FALSE /\ Len(board) < Total /\ UNCHANGED board

Next ==
  \/ Len(board') > Len(board) /\ \E player \in Players : Draft(player)
  \/ Undo \/ OpenSeason \/ ReopenDraft

Spec == Init /\ [][Next]_<<board, season>>
=============================================================================
