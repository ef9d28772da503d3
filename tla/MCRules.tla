-------------------------------- MODULE MCRules --------------------------------
(***************************************************************************)
(* The season's rules put questions to, next to the engine's: planned and  *)
(* logged transactions, histories, lineups, standings, the sync clock.  A  *)
(* step asks one question over bounded inputs; the invariants compare the  *)
(* answer with what the rule says, stated another way.                     *)
(***************************************************************************)
EXTENDS MCEngine, MoveLogs, SeasonScoring, SyncClock, CheatSheets, RosterImports

CONSTANT PoolSize   \* players in the pool an import finds, at most

Members == 1..3
Teams == 1..2

(* Who holds each player, as seats; nobody holds the players at 0. *)
SeatsOf(owner) ==
  {[id |-> <<0, p>>, member |-> owner[p], player |-> p] : p \in {q \in DOMAIN owner : owner[q] # Nobody}}
TargetOf(owner, members) == [m \in members |-> {p \in DOMAIN owner : owner[p] = m}]

Tuples(S, n) == [1..n -> S]
UpTo(S, n) == UNION {Tuples(S, k) : k \in 0..n}
-----------------------------------------------------------------------------
(* Which players a team holds is all the same to the plan: they are taken in *)
(* the order of their holders.                                               *)
AskSync ==
  \E before, after \in [1..4 -> 0..3] :
    /\ before # <<0, 0, 0, 0>> /\ \A p \in 1..3 : before[p] <= before[p + 1]
    /\ question' = [kind |-> "sync", before |-> before, after |-> after]

(* Players 1 and 2 start on their teams, 4 is free, 3 is anywhere; the log   *)
(* is what was announced and the rosters are what became of it.              *)
LogStarts == {<<1, 2, x, 0>> : x \in 0..2}
Move == [member : Teams, to : 0..2, arrival : 1..4, departure : 1..4]
AfterMove(owner, move) == [owner EXCEPT ![move.arrival] = move.member, ![move.departure] = move.to]

AskLog ==
  \E before \in LogStarts, log \in UpTo({m \in Move : m.arrival # m.departure}, 2), lost \in 0..1 :
    LET after == FoldLeft(AfterMove, before, SubSeq(log, 1, Len(log) - lost))
    IN  /\ lost <= Len(log)
        /\ question' = [kind |-> "log", before |-> before, after |-> after, log |-> log]

Event == [offer : Teams, request : 0..2, sent : {<<1>>, <<2>>, <<1, 3>>},
          received : {<<2>>, <<3>>, <<4>>, <<3, 4>>}]
AfterEvent(owner, event) ==
  [p \in DOMAIN owner |-> IF p \in ToSet(event.received) THEN event.offer
                          ELSE IF p \in ToSet(event.sent) THEN event.request ELSE owner[p]]

AskTransfers ==
  \E before \in LogStarts, log \in UpTo(Event, 2), missing \in 0..1 :
    LET named == [i \in DOMAIN log |-> [id |-> i, accepted |-> TRUE, offer |-> log[i].offer,
                    request |-> log[i].request, sent |-> log[i].sent, received |-> log[i].received]]
        after == FoldLeft(AfterEvent, before, SubSeq(log, 1 + missing, Len(log)))
    IN  /\ missing <= Len(log)
        /\ question' = [kind |-> "transfers", before |-> before, after |-> after, log |-> named,
                        applied |-> {}]

PoolPosition4 == [p \in 1..4 |-> IF p % 2 = 0 THEN "F" ELSE "G"]
SmallTemplate == [G |-> 1, F |-> 1, C |-> 0]
TransactionTemplates == {SmallTemplate, [G |-> 2, F |-> 0, C |-> 0], [G |-> 1, F |-> 0, C |-> 0]}

AskTransaction ==
  \E before \in [1..4 -> 0..2], template \in TransactionTemplates, type \in {"trade", "drop", "add"},
     players, others \in UpTo(1..4, 2) :
    /\ \A m \in Teams : FitsTemplate(TargetOf(before, Teams)[m], PoolPosition4, template, FALSE)
    /\ type # "trade" => others = <<>>
    /\ question' = [kind |-> "transaction", before |-> before, template |-> template,
                    proposal |-> [type |-> type, fromRound |-> 1, member |-> 1, players |-> players,
                                  memberA |-> 1, memberB |-> 2, outA |-> players, outB |-> others]]

AskHistory ==
  \E rows \in Tuples([type : {"add", "drop"}, member : Teams, player : 1..2], 4),
     events \in {<<0, 0, 0, 0>>, <<7, 7, 7, 7>>, <<0, 0, 7, 7>>}, gap \in {1, SyncWindow + 1} :
    LET row(i) == [type |-> rows[i].type, fromRound |-> 1, members |-> <<rows[i].member>>,
                   playersOut |-> IF rows[i].type = "drop" THEN rows[i].member :> <<rows[i].player>>
                                  ELSE NoPlayers,
                   playersIn |-> IF rows[i].type = "add" THEN rows[i].member :> <<rows[i].player>>
                                 ELSE NoPlayers,
                   time |-> gap * (4 - i), event |-> events[i]]
    IN  question' = [kind |-> "history", rows |-> [i \in 1..4 |-> row(i)]]

(* Seven players for five starters, a sixth man and one on the bench; within *)
(* a position the order of the players is their worth, but for player 1,     *)
(* whose worth nobody knows.                                                 *)
LineupShape == [starters |-> 5, sixth |-> 1, bench |-> 1, inactive |-> 1]
Squads == {<<"G", "G", "G", "F", "F", "C", "C">>, <<"G", "G", "F", "F", "F", "F", "C">>,
           <<"G", "F", "F", "C", "C", "C", "C">>, <<"G", "G", "G", "G", "F", "F", "F">>}

AskLineup ==
  \E position \in Squads, size \in 6..7 :
    \E estimate \in [2..7 -> {1, 3}] :
      /\ \A p, q \in 2..7 : p < q /\ position[p] = position[q] => estimate[p] >= estimate[q]
      /\ question' = [kind |-> "lineup", squad |-> 1..size, position |-> position,
                      estimate |-> estimate]

(* Four players, two game days; three reads, each of the lineup as it stood. *)
Sides == {<<"captain", "starter", "bench", "inactive">>, <<"bench", "captain", "starter", "inactive">>,
          <<"starter", "bench", "captain", "sixth">>}
SideSlots(side) == SlotsFromRoles([p \in DOMAIN side |-> [player |-> p, role |-> side[p]]])

AskReads ==
  \E sides \in Tuples(Sides, 3), days \in Tuples(0..2, 3), gameDays \in [1..3 -> 1..2] :
    /\ days[1] <= days[2] /\ days[2] <= days[3]
    /\ question' = [kind |-> "reads", sides |-> sides, days |-> days, gameDays |-> gameDays]

(* Two players, two rounds: held throughout, traded in between, or released. *)
Window(m, p, from, to) == [member |-> m, player |-> p, fromRound |-> from, toRound |-> to,
                           closed |-> to > 0]
Careers(p) == {{Window(1, p, 1, 0)}, {Window(1, p, 1, 2), Window(2, p, 2, 0)}, {Window(2, p, 1, 2)}}
Reports == [Teams \X (1..2) -> {0, -3, 4}]
SeasonLineups ==
  {{[member |-> 1, round |-> r, slots |-> SideSlots(side), frozen |-> <<>>]} :
     r \in 1..2, side \in Sides} \cup {{}}

AskSeason ==
  \E career1 \in Careers(1), career2 \in Careers(2), points \in Reports,
     phase \in Tuples({"RS", "PO"}, 2), recorded \in SeasonLineups :
    question' = [kind |-> "season", windows |-> career1 \cup career2, recorded |-> recorded,
                 lines |-> {[player |-> x[1], round |-> x[2], phase |-> phase[x[2]], tenths |-> points[x]] :
                              x \in {y \in DOMAIN points : points[y] # 0}}]

(* When the worker is up, and whether its read gets through. *)
Ticks == <<3, 4, 5, 7, 9, 10, 11, 12, 15>>
Starts == {{2, 8}, {2, 3, 8, 20}}

AskClockwork ==
  \E tipOffs \in Starts, outcome \in Tuples({"applied", "failed", "down"}, Len(Ticks)) :
    question' = [kind |-> "clockwork", tipOffs |-> tipOffs, outcome |-> outcome]

(* A sheet of up to four, in tiers, and one edit of it; player 5 is not on   *)
(* it, and places before, after and past its ends are asked for.             *)
Edits ==
  [kind : {"move", "insert"}, player : 1..5, at : -1..6] \cup [kind : {"nudge"}, player : 1..5, at : {-2, -1, 1, 3}]
    \cup [kind : {"remove"}, player : 1..5] \cup [kind : {"break"}, at : 0..6]

AskEdit ==
  \E size \in 0..4, edit \in Edits : \E tiers \in SUBSET (1..size - 1) :
    question' = [kind |-> "edit", sheet |-> NewSheet([r \in 1..size |-> r], tiers), edit |-> edit]

(* Up to three lines, what the search finds for each, and the answers given. *)
Finds == {[exact |-> {1}, hits |-> <<>>, clear |-> FALSE], [exact |-> {1, 2}, hits |-> <<>>, clear |-> FALSE],
          [exact |-> {}, hits |-> <<>>, clear |-> FALSE]}
           \cup [exact : {{}}, hits : {<<2, 1>>, <<1, 3>>}, clear : BOOLEAN]
Written3 == {[exact |-> f.exact, hits |-> f.hits, clear |-> f.clear, tier |-> t] : f \in Finds, t \in 1..2}

AskPaste ==
  \E lines \in UpTo(Written3, 3) : \E answered \in SUBSET DOMAIN lines :
    \E choices \in [answered -> {0, 1, 3}] :
      question' = [kind |-> "paste", lines |-> lines, choices |-> choices]

(* A pool of up to two, the second of whom may be locked, injured, gone or    *)
(* awaited, and an import of up to two rows.  A club that was not read has    *)
(* none.                                                                      *)
Names == {<<1, 2>>, <<1, 2, 3>>, <<1, 4>>}
Nicknames == {<<2, 4>>}
PoolPlayer(id, code, name, status, lock, awaiting) ==
  [id |-> id, code |-> code, name |-> name, club |-> 1, shirt |-> 1, bio |-> 7,
   status |-> status, lock |-> lock, awaiting |-> awaiting]
Pools ==
  {{}} \cup {{PoolPlayer(1, code, name, "active", FALSE, FALSE)} : code \in 0..2, name \in Names}
    \cup {{PoolPlayer(1, a[1], a[2], "active", FALSE, FALSE), PoolPlayer(2, b[1], b[2], f[1], f[2], f[3])} :
            a \in (0..1) \X Names, b \in {0, 2} \X Names,
            f \in {<<"active", FALSE, FALSE>>, <<"active", TRUE, FALSE>>, <<"injured", FALSE, FALSE>>,
                   <<"left", FALSE, FALSE>>, <<"active", FALSE, TRUE>>}}
FeedRow == [code : 0..2, name : Names, club : 1..2, shirt : {1}, bio : {0}, status : {"active"}]

AskImport ==
  \E pool \in Pools, rows \in UpTo(FeedRow, 2), unread \in {{}, {1}} :
    /\ Cardinality(pool) <= PoolSize /\ \A p \in pool : ~Refused(pool, p)
    /\ unread # {} => \A i \in DOMAIN rows : rows[i].club \notin unread
    /\ question' = [kind |-> "import", pool |-> pool, rows |-> rows,
                    unread |-> [clubs |-> unread, codes |-> {}]]

RulesNext ==
  \/ Next
  \/ /\ question = None
     /\ \/ AskSync \/ AskLog \/ AskTransfers \/ AskTransaction \/ AskHistory
        \/ AskLineup \/ AskReads \/ AskSeason \/ AskClockwork
        \/ AskEdit \/ AskPaste \/ AskImport

RulesSpec == Init /\ [][RulesNext]_question
-----------------------------------------------------------------------------
(* The rows planned for the asked question, and the two rosters they lie     *)
(* between.                                                                  *)
PlannedRows ==
  CASE question.kind = "sync" ->
         [ok |-> TRUE, steps |-> PlanSync(1, SeatsOf(question.before), TargetOf(question.after, Members))]
    [] question.kind = "log" ->
         PlanFromLog(1, SeatsOf(question.before), TargetOf(question.after, Teams), question.log)
    [] question.kind = "transfers" ->
         PlanBasketNewsTransfers(1, SeatsOf(question.before), TargetOf(question.after, Teams),
                                 question.log, question.applied)

AskedForPlan == \E kind \in {"sync", "log", "transfers"} : Asked(kind)

(* A plan the sync makes, from the difference of the rosters or from a move  *)
(* log that explains them, carried out one row after the other by            *)
(* applyTransaction, leaves the league's rosters reading as the official     *)
(* ones: no row finds a player still held where a later row frees him.       *)
PlansReachTheOfficialRosters ==
  AskedForPlan =>
    LET planned == PlannedRows
    IN  planned.ok =>
          RostersAgree(ApplyPlans(SeatsOf(question.before), planned.steps),
                       TargetOf(question.after, IF question.kind = "sync" THEN Members ELSE Teams))

(* How often a row names a player among those a team received, less how      *)
(* often among those it sent.                                                *)
ListOf(players, m) == IF m \in DOMAIN players THEN players[m] ELSE <<>>
PlacesOf(p, list) == {i \in DOMAIN list : list[i] = p}
Gained(row, m, p) ==
  Cardinality(PlacesOf(p, ListOf(row.playersIn, m))) - Cardinality(PlacesOf(p, ListOf(row.playersOut, m)))

(* The rows add up: over all of them, what a team is said to have received   *)
(* less what it is said to have sent is what its roster gained, players who  *)
(* only passed through included.                                             *)
RowsExplainTheRosters ==
  AskedForPlan =>
    LET planned == PlannedRows
        steps == planned.steps
        holds(m, p, owner) == IF owner[p] = m THEN 1 ELSE 0
    IN  planned.ok =>
          \A m \in IF question.kind = "sync" THEN Members ELSE Teams, p \in 1..4 :
            SumFunction([i \in DOMAIN steps |-> Gained(steps[i], m, p)])
              = holds(m, p, question.after) - holds(m, p, question.before)

(* Whatever a manager may record, no roster it leaves breaks the template,   *)
(* and a trade leaves both full.                                             *)
TransactionsKeepRostersLegal ==
  Asked("transaction") =>
    LET planned == PlanTransaction(SeatsOf(question.before), PoolPosition4, question.template,
                                   question.proposal)
        after == ApplyPlan(SeatsOf(question.before), planned.plan)
    IN  planned.ok =>
          \A m \in Teams :
            /\ \A bucket \in Positions :
                 Cardinality({p \in HeldBy(after, m) : PoolPosition4[p] = bucket})
                   <= question.template[bucket]
            /\ question.proposal.type = "trade" =>
                 Cardinality(HeldBy(after, m)) = Cardinality(HeldBy(SeatsOf(question.before), m))

(* The history a league reads tells every recorded row once, whatever swaps  *)
(* and exchanges it makes of them, and keeps them newest first.              *)
HistoryTellsEveryRowOnce ==
  Asked("history") =>
    LET told == GroupTransactionHistory(question.rows)
    IN  /\ \A i \in DOMAIN question.rows : Cardinality({at \in DOMAIN told : i \in ToSet(told[at])}) = 1
        /\ \A at \in DOMAIN told : NamedOnce(told[at])
        /\ \A at, later \in DOMAIN told : at < later => told[at][1] < told[later][1]

(* No lineup the validator admits is estimated higher than the optimizer's,  *)
(* which it admits itself; the optimizer gives up only where none is legal.  *)
OptimizedLineupIsBest ==
  Asked("lineup") =>
    LET squad == question.squad
        value(p) == IF p \in DOMAIN question.estimate THEN question.estimate[p] ELSE 0
        slots(roles) == SlotsFromRoles([p \in squad |-> [player |-> p, role |-> roles[p]]])
        valid(roles) == ValidLineup(slots(roles), LineupShape, squad, question.position)
        score(roles) == MapThenSumSet(LAMBDA p : value(p) * RoleMultipliers[roles[p]], squad)
        best == OptimizeLineup(squad, question.position, question.estimate, <<>>, LineupShape)
        elsewhere(five) == [squad \ five -> {"sixth", "bench", "inactive"}]
        anyLineup == UNION {{[p \in squad |-> IF p = pair[1] THEN "captain"
                                               ELSE IF p \in five THEN "starter" ELSE pair[2][p]] :
                               pair \in five \X elsewhere(five)} : five \in kSubset(5, squad)}
        legal == {roles \in anyLineup : valid(roles)}
    IN  IF best = NoProposal THEN legal = {}
        ELSE valid(best) /\ \A roles \in legal : score(roles) <= score(best)

(* A player scores in the role he held at the first read that reached his    *)
(* game day, whatever the manager or a later read does; one who has not      *)
(* played yet scores where he stands now.                                    *)
FrozenRolesSurviveEdits ==
  Asked("reads") =>
    LET slots(i) == SideSlots(question.sides[i])
        frozen == FoldLeft(LAMBDA roles, i : FreezeRoles(roles, slots(i), question.gameDays, question.days[i]),
                           <<>>, <<1, 2, 3>>)
        reached(p) == {i \in 1..3 : p \in DOMAIN question.gameDays /\ question.days[i] >= question.gameDays[p]}
        standsAt(p) == IF reached(p) = {} THEN 3 ELSE Min(reached(p))
    IN  \A p \in 1..4 :
          EffectiveRoles(slots(3), frozen)[p] = question.sides[standsAt(p)][p]

(* The table a page rebuilds from the stored rounds, for the phases it       *)
(* shows, is the one computed from the box scores of those phases, in the    *)
(* same order.                                                               *)
PhaseTablesAgree ==
  Asked("season") =>
    \A phases \in {{"RS"}, {"PO"}, {"RS", "PO"}} :
      LET full == ComputeStandings(question.windows, question.lines, {"RS", "PO"}, question.recorded)
          stored == SnapshotsFromStandings(full, PhaseByRound(question.lines))
          shown == TableFromSnapshots(stored, phases)
          direct == ComputeStandings(question.windows, question.lines, phases, question.recorded)
      IN  (\E r \in DOMAIN stored : stored[r].phase \in phases) =>
            /\ \A m \in DOMAIN direct : shown[m].total = direct[m].total
            /\ RankRows(shown) = RankRows(direct)

(* The reads of a round, as the clock asks for them and the worker, when it  *)
(* is up, makes them.                                                        *)
ReadsOf(tipOffs, outcome) ==
  LET window == RoundWindow(1, tipOffs)
  IN  FoldLeft(LAMBDA runs, i :
                 IF outcome[i] # "down" /\ LineupRoundsDue(Ticks[i], {window}, runs, FALSE) # {}
                 THEN runs \cup {[round |-> 1, ranAt |-> Ticks[i], status |-> outcome[i]]}
                 ELSE runs,
               {}, [i \in DOMAIN Ticks |-> i])

(* Each game day of a round is read at most once, and goes unread only if    *)
(* whenever the worker was up the read failed or one had failed shortly      *)
(* before; so is the settled round.                                          *)
EveryGameDayIsReadOnce ==
  Asked("clockwork") =>
    LET window == RoundWindow(1, question.tipOffs)
        runs == ReadsOf(question.tipOffs, question.outcome)
        opens(day) == day + ApplyAfterLock
        until(day) == Min({opens(d) - 1 : d \in {e \in window.days : e > day}} \cup {window.closesAt})
        spans == {<<opens(day), until(day), RetryFailed>> : day \in window.days}
                   \cup {<<window.settledAt, Ticks[Len(Ticks)], PreviewEvery>>}
        read(span) == {run \in runs : run.status = "applied" /\ run.ranAt \in span[1]..span[2]}
        failed(span, at) == {run \in runs : run.status = "failed" /\ run.ranAt \in at - span[3] + 1..at}
    IN  \A span \in spans :
          /\ Cardinality(read(span)) <= 1
          /\ read(span) = {} =>
               \A i \in DOMAIN Ticks :
                 Ticks[i] \in span[1]..span[2] /\ question.outcome[i] # "down"
                   => failed(span, Ticks[i]) # {}

(* An edit leaves the rest of a sheet as it was: everybody is on it once,    *)
(* breaks lie inside it, the others keep their order, a removal or a return  *)
(* keeps who shares a tier with whom, a return undoes a removal but at a     *)
(* break, and two nudges are the nudge of both.                              *)
SheetEditsKeepTheRest ==
  Asked("edit") =>
    LET sheet == question.sheet
        edit == question.edit
        edited == ApplyOperation(sheet, edit)
        moved == IF edit.kind = "break" THEN {} ELSE {edit.player}
        others == Ranked(sheet) \ moved
        tierOf(s, p) == TierOfRank(RankOf(s, p), s.tiers)
    IN  /\ NamedOnce(edited.ranking) /\ edited.tiers \subseteq 1..Len(edited.ranking) - 1
        /\ \A p, q \in others : RankOf(sheet, p) < RankOf(sheet, q) <=> RankOf(edited, p) < RankOf(edited, q)
        /\ edit.kind \in {"remove", "insert"} =>
             \A p, q \in others : tierOf(sheet, p) = tierOf(sheet, q) <=> tierOf(edited, p) = tierOf(edited, q)
        /\ edit.kind = "remove" /\ edit.player \in Ranked(sheet) =>
             LET rank == RankOf(sheet, edit.player)
                 back == PutBack(edited, edit.player, rank)
             IN  back.ranking = sheet.ranking /\ ({rank - 1, rank} \cap sheet.tiers = {} => back = sheet)
        /\ edit.kind = "nudge" =>
             Nudge(edited, edit.player, edit.at) = Nudge(sheet, edit.player, 2 * edit.at)

(* The sheet saved from a list is the one its confirmation showed: each line *)
(* at the rank it stands at, nobody whom neither the search was sure of nor  *)
(* a person named, and a break exactly where the tier changes between lines  *)
(* that stand next to each other.                                            *)
SavedSheetIsTheOneShown ==
  Asked("paste") =>
    LET lines == question.lines
        choices == question.choices
        entries == MatchSheet(lines)
        shown == PlanRanks(entries, choices)
        saved == ResolveSheet(entries, choices)
        at == {i \in DOMAIN lines : shown[i] # 0}
        sure(i) == \/ lines[i].exact = {saved.ranking[shown[i]]}
                   \/ lines[i].exact = {} /\ lines[i].clear /\ lines[i].hits[1] = saved.ranking[shown[i]]
    IN  /\ {shown[i] : i \in at} = DOMAIN saved.ranking /\ Cardinality(at) = Len(saved.ranking)
        /\ NamedOnce(saved.ranking)
        /\ \A i, j \in at : /\ i < j => shown[i] < shown[j]
                            /\ shown[j] = shown[i] + 1 =>
                                 (shown[i] \in saved.tiers <=> lines[i].tier # lines[j].tier)
        /\ \A i \in at : IF i \in DOMAIN choices THEN saved.ranking[shown[i]] = choices[i] ELSE sure(i)

(* Importing again repairs an import that stopped anywhere: whole imports    *)
(* after it come to rest with nobody left to add, and every row's player is  *)
(* in the pool and not marked left, but for four kinds of row: his player is *)
(* locked; the codes clash, which is left for a person; his change is one    *)
(* the indexes of the pool refuse; or the row waits for a person to say      *)
(* whether it renames somebody (diff.ts, rename.ts, apply.ts:196).  Nobody   *)
(* is touched who is locked, whose codes clash, or who is not listed and     *)
(* awaits registration or was not read; no code is ever replaced; and a      *)
(* likely rename still waits, its player as he was and its row not added,    *)
(* unless a second row has the same name at the same club.                   *)
RerunsSettle ==
  Asked("import") =>
    LET pool == question.pool
        rows == ToSet(OncePerKey(question.rows))
        again(stored) == RunRosterImport(Nicknames, stored, question.rows, question.unread)
        rerun(died) == FoldLeft(LAMBDA stored, times : again(stored), died, <<1, 2, 3>>)
        diff == DiffRosters(Nicknames, pool, question.rows, question.unread)
        ends == {rerun(PartlyImported(pool, diff, writes)) : writes \in 0..Len(Writes(diff))}
        listing(p) == {row \in rows : MatchOf(pool, row) = p}
        alone(row) == \A other \in rows : NameClub(other) = NameClub(row) => other = row
        untouchable(p) ==
          \/ p.lock
          \/ listing(p) = {} /\ (p.awaiting \/ Unseen(question.unread, p))
          \/ listing(p) # {} /\ \A row \in listing(p) : CodesClash(row, p)
    IN  \A rest \in ends : \A left \in {DiffRosters(Nicknames, rest, question.rows, question.unread)} :
          /\ again(rest) = rest
          /\ left.adds = <<>>
          /\ \A row \in rows :
               LET match == MatchOf(rest, row)
               IN  \/ match # Absent /\ (match.status # "left" \/ match.lock \/ CodesClash(row, match))
                   \/ \E change \in ToSet(left.changes) :
                        change.row = row /\ Refused(rest, Rewrite(rest, change))
                   \/ \E rename \in ToSet(left.renames) :
                        rename.incoming = row /\ rename.confidence = "likely"
          /\ \A p \in pool : untouchable(p) => p \in rest
          /\ \A rename \in ToSet(diff.renames) : rename.confidence = "likely" /\ alone(rename.incoming) =>
               rename.existing \in rest /\ rename \in ToSet(left.renames)
          /\ \A p \in pool : \A q \in rest : p.id = q.id /\ p.code # NoCode => q.code = p.code
=============================================================================
