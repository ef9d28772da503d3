------------------------------ MODULE RosterPlans ------------------------------
(***************************************************************************)
(* The pure half of a season's roster moves: may a recorded trade, add or  *)
(* drop be planned (memberships/plan.ts), what do the official rosters say *)
(* that ours do not (fantasy/plan.ts), what does an official move log say  *)
(* (fantasy/plan.ts, basketnews/transfers.ts), and how history reads the   *)
(* recorded rows back (memberships/history.ts).                            *)
(*                                                                         *)
(* A seat is an open membership window [id, member, player], at most one   *)
(* per player; a target is a function from members to sets of players.     *)
(* Members and players are naturals, in the order of their names; 0 is     *)
(* null.  A plan carries the transactions row (members, players out and in *)
(* per member) and the windows it closes and opens.                        *)
(***************************************************************************)
EXTENDS DraftEngine, SequencesExt, Listings

Nobody == 0
NoPlayers == [m \in {} |-> <<>>]
NoPlan == [ok |-> FALSE]
Planned(plan) == [ok |-> TRUE, plan |-> plan]

HeldBy(seats, member) == {s.player : s \in {t \in seats : t.member = member}}
Seated(seats) == {s.player : s \in seats}
SeatOf(seats, player) == CHOOSE s \in seats : s.player = player
HolderOf(seats, player) ==
  IF player \in Seated(seats) THEN SeatOf(seats, player).member ELSE Nobody

OneTeam(member, players) == [m \in {member} |-> players]
TwoTeams(a, playersA, b, playersB) == [m \in {a, b} |-> IF m = a THEN playersA ELSE playersB]
Mapped(f(_), seq) == [i \in DOMAIN seq |-> f(seq[i])]
Opened(member, players, round, via) ==
  {[member |-> member, player |-> p, fromRound |-> round, via |-> via] : p \in players}
Closed(seats, players, round) ==
  {[seat |-> SeatOf(seats, p).id, toRound |-> round] : p \in players}

-----------------------------------------------------------------------------
(* Recording a transaction by hand: memberships/plan.ts *)

(* The template's total only, the position caps forgotten. *)
FitsTemplateBySize(roster, position, template, exact) ==
  IF exact THEN Cardinality(roster) = RosterSize(template)
  ELSE Cardinality(roster) <= RosterSize(template)

FitsTemplate(roster, position, template, exact) ==
  /\ \A bucket \in Positions : CountByPosition(roster, position, bucket) <= template[bucket]
  /\ exact => Cardinality(roster) = RosterSize(template)

NamedOnce(players) == Cardinality(ToSet(players)) = Len(players)

PlanTrade(seats, position, template, proposal) ==
  LET a == proposal.memberA   b == proposal.memberB
      outA == ToSet(proposal.outA)   outB == ToSet(proposal.outB)
      allowed ==
        /\ Nobody \notin {a, b} /\ a # b
        /\ Len(proposal.outA) = Len(proposal.outB) /\ proposal.outA # <<>>
        /\ NamedOnce(proposal.outA) /\ NamedOnce(proposal.outB)
        /\ outA \cap outB = {}
        /\ outA \subseteq HeldBy(seats, a) /\ outB \subseteq HeldBy(seats, b)
        /\ FitsTemplate((HeldBy(seats, a) \ outA) \cup outB, position, template, TRUE)
        /\ FitsTemplate((HeldBy(seats, b) \ outB) \cup outA, position, template, TRUE)
      round == proposal.fromRound
  IN  IF ~allowed THEN NoPlan
      ELSE Planned(
        [type |-> "trade", fromRound |-> round, members |-> <<a, b>>,
         playersOut |-> TwoTeams(a, proposal.outA, b, proposal.outB),
         playersIn  |-> TwoTeams(a, proposal.outB, b, proposal.outA),
         closes |-> Closed(seats, outA \cup outB, round),
         opens  |-> Opened(b, outA, round, "trade") \cup Opened(a, outB, round, "trade")])

PlanDrop(seats, proposal) ==
  LET member == proposal.member   players == proposal.players
      allowed == /\ players # <<>> /\ NamedOnce(players)
                 /\ ToSet(players) \subseteq HeldBy(seats, member)
  IN  IF ~allowed THEN NoPlan
      ELSE Planned(
        [type |-> "drop", fromRound |-> proposal.fromRound, members |-> <<member>>,
         playersOut |-> OneTeam(member, players), playersIn |-> NoPlayers,
         closes |-> Closed(seats, ToSet(players), proposal.fromRound), opens |-> {}])

PlanAdd(seats, position, template, proposal) ==
  LET member == proposal.member   players == proposal.players
      next == HeldBy(seats, member) \cup ToSet(players)
      allowed == /\ players # <<>> /\ NamedOnce(players)
                 /\ ToSet(players) \cap Seated(seats) = {}
                 /\ FitsTemplate(next, position, template, FALSE)
                 /\ Cardinality(next) <= RosterSize(template)
  IN  IF ~allowed THEN NoPlan
      ELSE Planned(
        [type |-> "add", fromRound |-> proposal.fromRound, members |-> <<member>>,
         playersOut |-> NoPlayers, playersIn |-> OneTeam(member, players),
         closes |-> {},
         opens |-> Opened(member, ToSet(players), proposal.fromRound, "signing")])

PlanTransaction(seats, position, template, proposal) ==
  IF proposal.fromRound < 1 THEN NoPlan
  ELSE CASE proposal.type = "trade" -> PlanTrade(seats, position, template, proposal)
         [] proposal.type = "drop"  -> PlanDrop(seats, proposal)
         [] proposal.type = "add"   -> PlanAdd(seats, position, template, proposal)

-----------------------------------------------------------------------------
(* Carrying plans out: memberships/store.ts, with nobody writing in between. *)
(* Windows named by the plan close if they are still open; then every player *)
(* nobody holds is seated where the plan says.                               *)
ApplyPlan(seats, plan) ==
  LET kept == {s \in seats : \A c \in plan.closes : c.seat # s.id}
  IN  kept \cup {[id |-> <<o.member, o.player>>, member |-> o.member, player |-> o.player] :
                   o \in {p \in plan.opens : p.player \notin Seated(kept)}}

ApplyPlans(seats, plans) == FoldLeft(ApplyPlan, seats, plans)

(* Does the league's roster now read exactly as the official one? *)
RostersAgree(seats, target) ==
  /\ \A m \in DOMAIN target : HeldBy(seats, m) = target[m]
  /\ \A s \in seats : s.member \in DOMAIN target

-----------------------------------------------------------------------------
(* From the difference of two rosters: fantasy/plan.ts *)

(* ownership: a partial roster, or a player on two, refuses to be planned. *)
Plannable(seats, target) ==
  /\ \A s \in seats : s.member \in DOMAIN target
  /\ \A m, n \in DOMAIN target : m # n => target[m] \cap target[n] = {}

DropRow(member, players, round, closes) ==
  [type |-> "drop", fromRound |-> round, members |-> <<member>>,
   playersOut |-> OneTeam(member, players), playersIn |-> NoPlayers,
   closes |-> closes, opens |-> {}]

AddRow(member, players, round, opens) ==
  [type |-> "add", fromRound |-> round, members |-> <<member>>,
   playersOut |-> NoPlayers, playersIn |-> OneTeam(member, players),
   closes |-> {}, opens |-> opens]

TradeRow(a, b, sent, received, round, closes, opens) ==
  [type |-> "trade", fromRound |-> round, members |-> <<a, b>>,
   playersOut |-> TwoTeams(a, sent, b, received), playersIn |-> TwoTeams(a, received, b, sent),
   closes |-> closes, opens |-> opens]

Leaving(seats, target, member)  == HeldBy(seats, member) \ target[member]
Arriving(seats, target, member) == target[member] \ HeldBy(seats, member)
Flow(seats, target, from, to)   == Leaving(seats, target, from) \cap target[to]

(* The pairs that exchange players ... *)
Trading(seats, target) ==
  {pair \in (DOMAIN target) \X (DOMAIN target) :
     /\ pair[1] < pair[2]
     /\ Flow(seats, target, pair[1], pair[2]) # {}
     /\ Flow(seats, target, pair[2], pair[1]) # {}}

(* ... in the order of the members' names. *)
TradingPairs(seats, target) ==
  LET pairs == Trading(seats, target)
  IN  InOrder(pairs, [p \in pairs |->
        {q \in pairs : q[1] < p[1] \/ (q[1] = p[1] /\ q[2] < p[2])}])

TradedPlayers(seats, target) ==
  UNION {Flow(seats, target, p[1], p[2]) \cup Flow(seats, target, p[2], p[1]) :
           p \in Trading(seats, target)}

SyncDrops(round, seats, target) ==
  LET released(m) == Leaving(seats, target, m) \ TradedPlayers(seats, target)
      row(m) == DropRow(m, Ascending(released(m)), round, Closed(seats, released(m), round))
  IN  Mapped(row, Ascending({m \in DOMAIN target : released(m) # {}}))

SyncTrades(round, seats, target) ==
  LET row(p) ==
        LET sent == Flow(seats, target, p[1], p[2])
            received == Flow(seats, target, p[2], p[1])
        IN  TradeRow(p[1], p[2], Ascending(sent), Ascending(received), round,
                     Closed(seats, sent \cup received, round),
                     Opened(p[2], sent, round, "trade") \cup Opened(p[1], received, round, "trade"))
  IN  Mapped(row, TradingPairs(seats, target))

SyncAdds(round, seats, target) ==
  LET acquired(m) == Arriving(seats, target, m) \ TradedPlayers(seats, target)
      row(m) == AddRow(m, Ascending(acquired(m)), round, Opened(m, acquired(m), round, "signing"))
  IN  Mapped(row, Ascending({m \in DOMAIN target : acquired(m) # {}}))

(* A signing before the release that frees its player. *)
PlanSyncAddsFirst(round, seats, target) ==
  SyncAdds(round, seats, target) \o SyncTrades(round, seats, target)
    \o SyncDrops(round, seats, target)

(* Every drop, then every trade, then every add. *)
PlanSync(round, seats, target) ==
  SyncDrops(round, seats, target) \o SyncTrades(round, seats, target)
    \o SyncAdds(round, seats, target)
=============================================================================
