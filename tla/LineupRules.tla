------------------------------ MODULE LineupRules ------------------------------
(***************************************************************************)
(* Lineups: what a legal one is, which roles a game-day read freezes, what *)
(* a round is scored at, and the lineup the optimizer proposes             *)
(* (lineups/lineup.ts, lineups/optimize.ts).                               *)
(*                                                                         *)
(* Players are naturals in the order of their ids, 0 is nobody; game days  *)
(* are naturals.  Multipliers are in halves, so that the bench's 0.5 is 1. *)
(***************************************************************************)
EXTENDS DraftEngine, SequencesExt, Listings

NoCaptain == 0
Roles == {"captain", "starter", "sixth", "bench", "inactive"}

(* ROLE_MULTIPLIERS, doubled. *)
RoleMultipliers == [captain |-> 4, starter |-> 2, sixth |-> 2, bench |-> 1, inactive |-> 0]

FullWeight == 2

Shape(g, f, c) == [G |-> g, F |-> f, C |-> c]
Formations == {Shape(2, 2, 1), Shape(1, 2, 2), Shape(2, 1, 2), Shape(1, 3, 1), Shape(3, 1, 1)}

LineupSize(template) == template.starters + template.sixth + template.bench + template.inactive

Placed(slots) == slots.starters \o slots.sixth \o slots.bench \o slots.inactive

(* Assignments are [player, role] in the order of the form. *)
SlotsFromRoles(assignments) ==
  LET pick(role) == LET chosen == Selected(assignments, LAMBDA a : a.role = role)
                    IN  [i \in DOMAIN chosen |-> chosen[i].player]
      captains == pick("captain")
  IN  [starters |-> captains \o pick("starter"),
       captain  |-> IF captains = <<>> THEN NoCaptain ELSE captains[1],
       sixth |-> pick("sixth"), bench |-> pick("bench"), inactive |-> pick("inactive")]

(* The last list to name a player decides, and the captain's mark decides all. *)
RolesFromSlots(slots) ==
  LET in(list) == ToSet(list)
      role(p) == CASE p = slots.captain -> "captain"
                   [] p \in in(slots.inactive) -> "inactive"
                   [] p \in in(slots.bench) -> "bench"
                   [] p \in in(slots.sixth) -> "sixth"
                   [] OTHER -> "starter"
  IN  [p \in ToSet(Placed(slots)) \cup ({slots.captain} \ {NoCaptain}) |-> role(p)]

ValidLineup(slots, template, squad, position) ==
  LET placed == Placed(slots)
  IN  /\ squad # {} /\ Cardinality(squad) \in template.starters..LineupSize(template)
      /\ Cardinality(ToSet(placed)) = Len(placed) /\ ToSet(placed) = squad
      /\ Len(slots.starters) = template.starters
      /\ Len(slots.sixth) <= template.sixth
      /\ Len(slots.bench) <= template.bench
      /\ Len(slots.inactive) <= template.inactive
      /\ slots.captain # NoCaptain /\ slots.captain \in ToSet(slots.starters)
      /\ [bucket \in Positions |-> CountByPosition(ToSet(slots.starters), position, bucket)]
           \in Formations

-----------------------------------------------------------------------------
(* Frozen roles are a function from players to [role, day]. *)

(* One function over another: where both are defined, the first decides. *)
Over(f, g) == [x \in DOMAIN f \cup DOMAIN g |-> IF x \in DOMAIN f THEN f[x] ELSE g[x]]

(* A read that freezes everybody again. *)
FreezeRolesAgain(previous, slots, gameDays, readDay) ==
  LET now == RolesFromSlots(slots)
  IN  Over([p \in {q \in DOMAIN now : q \in DOMAIN gameDays /\ gameDays[q] <= readDay} |->
              [role |-> now[p], day |-> gameDays[p]]], previous)

(* A read freezes whoever has played by its day, unless he froze before. *)
FreezeRoles(previous, slots, gameDays, readDay) ==
  LET now == RolesFromSlots(slots)
  IN  Over(previous,
           [p \in {q \in DOMAIN now : q \in DOMAIN gameDays /\ gameDays[q] <= readDay} |->
              [role |-> now[p], day |-> gameDays[p]]])

EffectiveRoles(slots, frozen) ==
  Over([p \in DOMAIN frozen |-> frozen[p].role], RolesFromSlots(slots))

MultipliersOf(slots, frozen) ==
  LET roles == EffectiveRoles(slots, frozen)
  IN  [p \in DOMAIN roles |-> RoleMultipliers[roles[p]]]

(* The first frozen captain to play, else the one marked now. *)
EffectiveCaptain(slots, frozen) ==
  LET captains == {p \in DOMAIN frozen : frozen[p].role = "captain"}
      first == {p \in captains : \A q \in captains : frozen[p].day <= frozen[q].day}
  IN  IF captains = {} THEN slots.captain ELSE Min(first)

(* Recorded lineups are [member, round, slots, frozen], one per member and   *)
(* round; a round without one carries the last one before it, without its    *)
(* frozen roles.                                                             *)
ResolveLineup(recorded, member, round) ==
  LET mine == {r \in recorded : r.member = member}
      exact == {r \in mine : r.round = round}
      earlier == {r \in mine : r.round < round}
      last == CHOOSE r \in earlier : \A q \in earlier : q.round <= r.round
  IN  IF exact # {} THEN LET r == CHOOSE e \in exact : TRUE
                         IN  [source |-> "recorded", slots |-> r.slots, frozen |-> r.frozen]
      ELSE IF earlier # {} THEN [source |-> "carried", slots |-> last.slots, frozen |-> <<>>]
      ELSE [source |-> "absent"]

(* A player the round's lineup does not name scores in full. *)
MultiplierFor(recorded, member, round, player) ==
  LET lineup == ResolveLineup(recorded, member, round)
      weights == IF lineup.source = "absent" THEN <<>> ELSE MultipliersOf(lineup.slots, lineup.frozen)
  IN  IF player \in DOMAIN weights THEN weights[player] ELSE FullWeight

-----------------------------------------------------------------------------
(* The optimizer: of every legal five with the best captain, sixth man and   *)
(* bench behind it, the one worth most; then the one that keeps more roles;  *)
(* then the one whose roles read first.                                      *)

Worth(estimate, p) == IF p \in DOMAIN estimate THEN estimate[p] ELSE 0

Outranks(estimate, current, role, p, q) ==
  LET holds(x) == x \in DOMAIN current /\ current[x] = role
  IN  \/ Worth(estimate, p) > Worth(estimate, q)
      \/ /\ Worth(estimate, p) = Worth(estimate, q)
         /\ (holds(p) /\ ~holds(q)) \/ (holds(p) = holds(q) /\ p < q)

BestOf(players, estimate, current, role, count) ==
  {p \in players : Cardinality({q \in players : Outranks(estimate, current, role, q, p)}) < count}

Fives(squad, position) ==
  {S \in kSubset(5, squad) :
     [bucket \in Positions |-> CountByPosition(S, position, bucket)] \in Formations}

(* The bench filled before the sixth man is named. *)
RolesAroundBenchFirst(five, squad, estimate, current, template) ==
  LET captain == BestOf(five, estimate, current, "captain", 1)
      bench == BestOf(squad \ five, estimate, current, "bench", template.bench)
      sixth == BestOf((squad \ five) \ bench, estimate, current, "sixth", 1)
  IN  [p \in squad |-> IF p \in captain THEN "captain" ELSE IF p \in five THEN "starter"
                       ELSE IF p \in sixth THEN "sixth"
                       ELSE IF p \in bench THEN "bench" ELSE "inactive"]

RolesAround(five, squad, estimate, current, template) ==
  LET captain == BestOf(five, estimate, current, "captain", 1)
      sixth == BestOf(squad \ five, estimate, current, "sixth", 1)
      bench == BestOf((squad \ five) \ sixth, estimate, current, "bench", template.bench)
  IN  [p \in squad |-> IF p \in captain THEN "captain" ELSE IF p \in five THEN "starter"
                       ELSE IF p \in sixth THEN "sixth"
                       ELSE IF p \in bench THEN "bench" ELSE "inactive"]

(* Half-tenths: twice the estimate times the multiplier. *)
LineupScore(roles, estimate) ==
  MapThenSumSet(LAMBDA p : Worth(estimate, p) * RoleMultipliers[roles[p]], DOMAIN roles)

Retained(roles, current) == Cardinality({p \in DOMAIN roles \cap DOMAIN current : roles[p] = current[p]})

Alphabetical == [bench |-> 1, captain |-> 2, inactive |-> 3, sixth |-> 4, starter |-> 5]
ReadsFirst(roles, other) ==
  \E p \in DOMAIN roles : /\ Alphabetical[roles[p]] < Alphabetical[other[p]]
                          /\ \A q \in DOMAIN roles : q < p => roles[q] = other[q]

Better(roles, other, estimate, current) ==
  LET score(r) == LineupScore(r, estimate)
  IN  \/ score(roles) > score(other)
      \/ score(roles) = score(other) /\ Retained(roles, current) > Retained(other, current)
      \/ /\ score(roles) = score(other) /\ Retained(roles, current) = Retained(other, current)
         /\ ReadsFirst(roles, other)

NoProposal == <<>>

OptimizeLineup(squad, position, estimate, current, template) ==
  LET proposals == {RolesAround(five, squad, estimate, current, template) : five \in Fives(squad, position)}
  IN  IF template.starters # 5 \/ proposals = {} THEN NoProposal
      ELSE CHOOSE best \in proposals :
             \A other \in proposals \ {best} : Better(best, other, estimate, current)
=============================================================================
