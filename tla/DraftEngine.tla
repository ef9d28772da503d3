------------------------------ MODULE DraftEngine ------------------------------
(***************************************************************************)
(* The pure draft engine (src/lib/engine): pick order, whose turn it is,   *)
(* legality, autodraft choice, rollback.  No state: every operator is a    *)
(* function of its arguments, as the TypeScript is.                        *)
(*                                                                         *)
(* Overall numbers, rounds and slots are 1-based, as in the code.  A       *)
(* player is a natural number (record ids are totally ordered strings and  *)
(* the tie-break needs that order); 0 stands for null.  `taken' is the set *)
(* of overall numbers that hold a pick.                                    *)
(***************************************************************************)
EXTENDS Integers, Sequences, FiniteSets, FiniteSetsExt

Formats   == {"linear", "snake", "snake3rr"}
Positions == {"G", "F", "C"}
NoPlayer  == 0
NoSlot    == 0

RosterSize(template) == template["G"] + template["F"] + template["C"]

-----------------------------------------------------------------------------
(* Order generation: order.ts, board.ts, roll.ts *)

(* The version order.ts warns against: "even rounds, and round 3 as well". *)
IsReversedNaive(format, round) ==
  format # "linear" /\ (round % 2 = 0 \/ (format = "snake3rr" /\ round = 3))

(* From round 3 on, third-round reversal is the opposite of plain snake. *)
IsReversed(format, round) ==
  CASE format = "linear"                    -> FALSE
    [] format = "snake"                     -> round % 2 = 0
    [] format = "snake3rr" /\ round < 3     -> round % 2 = 0
    [] format = "snake3rr" /\ round >= 3    -> round % 2 # 0

RoundOf(no, memberCount) == ((no - 1) \div memberCount) + 1
SlotOf(no, memberCount)  == ((no - 1) % memberCount) + 1

TotalPicks(memberCount, rounds) == memberCount * rounds

BuildPickOrder(format, members, rounds) ==
  LET n == Len(members)
  IN  [no \in 1..TotalPicks(n, rounds) |->
         IF IsReversed(format, RoundOf(no, n))
         THEN members[n + 1 - SlotOf(no, n)]
         ELSE members[SlotOf(no, n)]]

(* A board that forgot the snake: every row numbered left to right. *)
BuildBoardShapeStraight(format, members, rounds) ==
  [round \in 1..rounds |->
     [column \in 1..Len(members) |-> (round - 1) * Len(members) + column]]

(* Rows are rounds, columns are members; the pick numbers zigzag. *)
BuildBoardShape(format, members, rounds) ==
  LET n        == Len(members)
      sequence == BuildPickOrder(format, members, rounds)
  IN  [round \in 1..rounds |->
         [column \in 1..n |->
            CHOOSE no \in ((round - 1) * n + 1)..(round * n) :
              sequence[no] = members[column]]]

(* A shuffle that swaps with any position: "naive Fisher-Yates", biased. *)
SwapOver(order, i, j) ==
  [order EXCEPT ![i] = order[j], ![j] = order[j]]

Swap(order, i, j) == [order EXCEPT ![i] = order[j], ![j] = order[i]]

(* Fisher-Yates, downwards, over the sorted member ids; draws[i] \in 1..i is *)
(* what the seeded generator says at index i (32-bit hashing left out).      *)
RollOrder(sorted, draws) ==
  LET n == Len(sorted)
      after[i \in 1..n] ==
        IF i = n THEN sorted ELSE Swap(after[i + 1], i + 1, draws[i + 1])
  IN  after[1]

-----------------------------------------------------------------------------
(* The clock: clock.ts *)

(* The least number from `from' upwards that holds no pick. *)
FirstFree(from, taken) ==
  Min({no \in from..(from + Cardinality(taken)) : no \notin taken})

HighestPicked(taken) == IF taken = {} THEN 0 ELSE Max(taken)

(* One step on, as if the worker could strand one pick at most. *)
FindUnadvancedOne(currentPick, taken) ==
  IF currentPick \in taken THEN currentPick + 1 ELSE NoSlot

(* The pick at current_pick that was never advanced past: the number the     *)
(* draft should point at, or NoSlot when there is nothing to repair.         *)
FindUnadvancedPick(currentPick, taken) ==
  IF currentPick \in taken THEN FirstFree(currentPick + 1, taken) ELSE NoSlot

(* current_pick believed blindly, as the module note of clock.ts rules out. *)
WhoIsOnClockBlindly(status, currentPick, taken, total) ==
  IF status # "live" \/ currentPick > total THEN NoSlot ELSE currentPick

WhoIsOnClock(status, currentPick, taken, total) ==
  LET start == Max({currentPick, HighestPicked(taken) + 1, 1})
      no    == FirstFree(start, taken)
  IN  IF status # "live" \/ no > total THEN NoSlot ELSE no

(* Stops before the last slot. *)
IsDraftCompleteButOne(taken, total) == 1..total - 1 \subseteq taken

IsDraftComplete(taken, total) == 1..total \subseteq taken

-----------------------------------------------------------------------------
(* Legality: legality.ts *)

CountByPosition(roster, position, bucket) ==
  Cardinality({player \in roster : position[player] = bucket})

(* Total roster size only: the implementation legality.ts calls naive. *)
IsLegalPickBySize(player, roster, position, template, takenPlayers) ==
  /\ player \notin takenPlayers
  /\ Cardinality(roster) < RosterSize(template)

IsLegalPick(player, roster, position, template, takenPlayers) ==
  /\ player \notin takenPlayers
  /\ Cardinality(roster) < RosterSize(template)
  /\ CountByPosition(roster, position, position[player]) < template[position[player]]

-----------------------------------------------------------------------------
(* Autodraft: autodraft.ts.  `sheet' is a cheat sheet (a sequence that may   *)
(* repeat players or name absent ones); a player outside DOMAIN rankPir has  *)
(* no projection.                                                            *)

OnSheet(sheet, player) == \E i \in DOMAIN sheet : sheet[i] = player

SheetRank(sheet, player) == Min({i \in DOMAIN sheet : sheet[i] = player})

(* An absent projection counted as zero. *)
ProjectedAboveZero(rankPir, a, b) ==
  LET pir(player) == IF player \in DOMAIN rankPir THEN rankPir[player] ELSE 0
  IN  pir(a) > pir(b) \/ (pir(a) = pir(b) /\ a < b)

(* Best projection first, none at all worst, the player id as total tiebreak. *)
ProjectedAbove(rankPir, a, b) ==
  LET known(player) == player \in DOMAIN rankPir
  IN  \/ known(a) /\ ~known(b)
      \/ known(a) /\ known(b) /\ rankPir[a] > rankPir[b]
      \/ /\ known(a) <=> known(b)
         /\ known(a) => rankPir[a] = rankPir[b]
         /\ a < b

RankedAbove(sheet, rankPir, a, b) ==
  \/ OnSheet(sheet, a) /\ ~OnSheet(sheet, b)
  \/ OnSheet(sheet, a) /\ OnSheet(sheet, b) /\ SheetRank(sheet, a) < SheetRank(sheet, b)
  \/ ~OnSheet(sheet, a) /\ ~OnSheet(sheet, b) /\ ProjectedAbove(rankPir, a, b)

(* The pool by projection alone, the sheet forgotten. *)
RankWithoutSheet(candidates, sheet, rankPir) ==
  CHOOSE ranking \in [1..Cardinality(candidates) -> candidates] :
    \A i, j \in 1..Cardinality(candidates) :
      i < j => ProjectedAbove(rankPir, ranking[i], ranking[j])

(* The pool in the order this member would want it. *)
RankForMember(candidates, sheet, rankPir) ==
  CHOOSE ranking \in [1..Cardinality(candidates) -> candidates] :
    \A i, j \in 1..Cardinality(candidates) :
      i < j => RankedAbove(sheet, rankPir, ranking[i], ranking[j])

(* The first of the ranked pool that is legal, or NoPlayer. *)
SelectAutoPick(candidates, sheet, rankPir, roster, position, template, takenPlayers) ==
  LET legal == {player \in candidates :
                  IsLegalPick(player, roster, position, template, takenPlayers)}
      best  == {player \in legal :
                  \A other \in legal \ {player} : RankedAbove(sheet, rankPir, player, other)}
  IN  IF best = {} THEN NoPlayer ELSE CHOOSE player \in best : TRUE

-----------------------------------------------------------------------------
(* Rollback: rollback.ts.  The numbers discarded by an undo to `target';     *)
(* they are deleted from the highest down.                                   *)

(* The off-by-one rollback.ts names: keep the target, re-point after it. *)
DoomedKeepingTarget(taken, target) == {no \in taken : no > target}

Doomed(taken, target) == {no \in taken : no >= target}

RollbackAllowed(target, total) == target \in 1..total
=============================================================================
