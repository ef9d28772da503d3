------------------------------- MODULE MCEngine -------------------------------
(***************************************************************************)
(* The pure engine put questions to: a step asks one of them, over bounded *)
(* inputs, and the invariants compare the engine's answer with what the    *)
(* rule says, stated another way.  Boards with holes are asked about too,  *)
(* because an interrupted undo leaves them.                                *)
(***************************************************************************)
EXTENDS DraftEngine, SequencesExt

CONSTANTS
  MaxMembers,   \* leagues of 1..MaxMembers
  MaxRounds,    \* rounds 1..MaxRounds
  MaxSlots,     \* boards of 1..MaxSlots slots for the clock and the undo
  Pool,         \* candidates for the autodraft, naturals
  None          \* no question

(* Players are naturals above NoPlayer.                                      *)
ASSUME EngineAssumption ==
  /\ MaxMembers \in Nat /\ MaxRounds \in Nat /\ MaxSlots \in Nat
  /\ Pool \subseteq Nat \ {0} /\ IsFiniteSet(Pool)

VARIABLE question

Templates == [G : 0..1, F : 0..1, C : {0}]
PoolPosition == [player \in Pool |-> IF player % 2 = 0 THEN "F" ELSE "G"]
Sheets == UNION {[1..n -> Pool] : n \in 0..2}
Pirs   == {-2, 5}

Init == question = None

AskOrder ==
  \E format \in Formats, n \in 1..MaxMembers, rounds \in 1..MaxRounds :
    question' = [kind |-> "order", format |-> format, members |-> [i \in 1..n |-> i],
                 rounds |-> rounds]

AskRoll == \E n \in 1..MaxMembers : question' = [kind |-> "roll", n |-> n]

AskClock ==
  \E total \in 1..MaxSlots, status \in {"live", "paused", "complete"} :
    \E taken \in SUBSET (1..total), currentPick \in 0..total + 1 :
      question' = [kind |-> "clock", total |-> total, status |-> status,
                   taken |-> taken, currentPick |-> currentPick]

AskChoice ==
  \E sheet \in Sheets, rankPir \in UNION {[known -> Pirs] : known \in SUBSET Pool},
     template \in Templates, roster, others \in SUBSET Pool :
    /\ roster \cap others = {} /\ Cardinality(roster) <= 1 /\ Cardinality(others) <= 1
    /\ question' = [kind |-> "choice", sheet |-> sheet, rankPir |-> rankPir,
                    template |-> template, roster |-> roster, taken |-> roster \cup others]

Next == question = None /\ (AskOrder \/ AskRoll \/ AskClock \/ AskChoice)

Spec == Init /\ [][Next]_question

Asked(kind) == question # None /\ question.kind = kind
-----------------------------------------------------------------------------
Row(format, members, rounds, round) ==
  LET n == Len(members)
  IN  [slot \in 1..n |-> BuildPickOrder(format, members, rounds)[(round - 1) * n + slot]]

(* The first round is the frozen order; every later round mirrors the one    *)
(* before it, except that a linear draft repeats it, and so does the third   *)
(* round of third-round reversal, after which it turns again (order.ts).     *)
OrderTurns ==
  Asked("order") =>
    LET row(r) == Row(question.format, question.members, question.rounds, r)
    IN  /\ row(1) = question.members
        /\ \A r \in 1..question.rounds - 1 :
             IF question.format = "linear" \/ (question.format = "snake3rr" /\ r = 2)
             THEN row(r + 1) = row(r)
             ELSE row(r + 1) = Reverse(row(r))

(* The board the room draws shows every pick once, in the row of its round   *)
(* and the column of the member it belongs to.                               *)
BoardShowsTheOrder ==
  Asked("order") =>
    LET n     == Len(question.members)
        shape == BuildBoardShape(question.format, question.members, question.rounds)
        drafted == BuildPickOrder(question.format, question.members, question.rounds)
    IN  \A no \in 1..n * question.rounds :
          \E round \in 1..question.rounds, column \in 1..n :
            /\ shape[round][column] = no
            /\ drafted[no] = question.members[column]
            /\ no \in (round - 1) * n + 1..round * n

(* The order of a draft turns as its format says, and the board shows it.    *)
OrderReachesTheBoard == OrderTurns /\ BoardShowsTheOrder

(* The roll is fair: with one draw out of i for the i-th swap there are as   *)
(* many outcomes of the draws as orders, and every order is drawn once.      *)
RollIsFair ==
  Asked("roll") =>
    LET n      == question.n
        draws  == {d \in [1..n -> 1..n] : d[1] = 1 /\ \A i \in 1..n : d[i] <= i}
        orders == {f \in [1..n -> 1..n] : \A i, j \in 1..n : f[i] = f[j] => i = j}
    IN  \A order \in orders :
          Cardinality({d \in draws : RollOrder([i \in 1..n |-> i], d) = order}) = 1

(* Whoever is on the clock has the lowest empty slot that is above every     *)
(* pick and not below current_pick, on any board, holes included; nobody is  *)
(* when there is none or the draft is not live.                              *)
ClockIsAboveTheBoard ==
  Asked("clock") =>
    LET open == {no \in 1..question.total :
                   no >= question.currentPick /\ \A t \in question.taken : no > t}
        onClock == WhoIsOnClock(question.status, question.currentPick, question.taken,
                                question.total)
    IN  IF question.status # "live" \/ open = {} THEN onClock = NoSlot
        ELSE onClock \in open /\ \A no \in open : onClock <= no

(* A repair leaves nothing to repair, and does not change whose turn it is,  *)
(* however many picks were stranded.                                         *)
RepairIsIdempotent ==
  Asked("clock") =>
    LET onClock(pick) == WhoIsOnClock("live", pick, question.taken, question.total)
        repaired == FindUnadvancedPick(question.currentPick, question.taken)
    IN  repaired # NoSlot =>
          /\ FindUnadvancedPick(repaired, question.taken) = NoSlot
          /\ onClock(repaired) = onClock(question.currentPick)

(* An undo to a pick puts exactly that pick on the clock again, and takes    *)
(* nothing from below it.                                                    *)
UndoPutsTargetOnClock ==
  Asked("clock") =>
    \A target \in {t \in 1..question.total : RollbackAllowed(t, question.total)} :
      LET left == question.taken \ Doomed(question.taken, target)
      IN  /\ WhoIsOnClock("live", target, left, question.total) = target
          /\ question.taken \cap (1..target - 1) = left

(* The clock holds on any board an interrupted pick or undo leaves: it is    *)
(* never below a pick, a repair ends in one step, an undo lands on its target. *)
ClockHoldsOnAnyBoard == ClockIsAboveTheBoard /\ RepairIsIdempotent /\ UndoPutsTargetOnClock

(* Autodraft takes the first legal player of the member's sheet; when the    *)
(* sheet has none, the best known projection, a negative one included, then  *)
(* the players without one, and between equals the lowest id.                *)
AutodraftObeysTheSheet ==
  Asked("choice") =>
    LET legal  == {p \in Pool : IsLegalPick(p, question.roster, PoolPosition,
                                            question.template, question.taken)}
        choice == SelectAutoPick(Pool, question.sheet, question.rankPir, question.roster,
                                 PoolPosition, question.template, question.taken)
        listed == {i \in DOMAIN question.sheet : question.sheet[i] \in legal}
        known  == legal \cap DOMAIN question.rankPir
        best   == {p \in known : \A q \in known : question.rankPir[p] >= question.rankPir[q]}
    IN  choice = IF legal = {} THEN NoPlayer
                 ELSE IF listed # {} THEN question.sheet[Min(listed)]
                 ELSE IF known # {} THEN Min(best) ELSE Min(legal)

(* The ranking the room shows next to a sheet and the pick the sweep makes   *)
(* agree: the choice is the first legal player of the ranking.               *)
ChoiceHeadsTheRanking ==
  Asked("choice") =>
    LET ranking == RankForMember(Pool, question.sheet, question.rankPir)
        choice == SelectAutoPick(Pool, question.sheet, question.rankPir, question.roster,
                                 PoolPosition, question.template, question.taken)
        legal(i) == IsLegalPick(ranking[i], question.roster, PoolPosition,
                                question.template, question.taken)
    IN  choice # NoPlayer =>
          \E i \in DOMAIN ranking :
            ranking[i] = choice /\ legal(i) /\ \A j \in 1..i - 1 : ~legal(j)

(* The member's own order decides, and the room shows that order.            *)
AutodraftKeepsToTheSheet == AutodraftObeysTheSheet /\ ChoiceHeadsTheRanking
=============================================================================
