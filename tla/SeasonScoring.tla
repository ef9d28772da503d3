----------------------------- MODULE SeasonScoring -----------------------------
(***************************************************************************)
(* What a season's rosters score: which rounds a membership window owns    *)
(* (memberships/from.ts), the ranked table of windows times box-score      *)
(* lines times lineup multipliers, its per-round snapshots, and the table  *)
(* a page rebuilds from them for the phases it shows (stats/standings.ts). *)
(*                                                                         *)
(* A window is [member, player, fromRound, toRound, closed], toRound 0     *)
(* while open; a line is [player, round, phase, tenths].  A table is a     *)
(* function from members to [total, byRound], in hundredths.               *)
(***************************************************************************)
EXTENDS LineupRules

(* Inclusive from_round, exclusive to_round; a window closed by date only    *)
(* owns nothing.                                                             *)
CoversRound(window, round) ==
  /\ round >= (IF window.fromRound > 0 THEN window.fromRound ELSE 1)
  /\ IF window.toRound > 0 THEN round < window.toRound ELSE ~window.closed

(* Tenths times halves, in hundredths. *)
WeighHundredths(tenths, multiplier) == tenths * multiplier * 5

MembersOf(windows) == {w.member : w \in windows}

Scored(window, lines, phases) ==
  {l \in lines : l.player = window.player /\ l.phase \in phases /\ CoversRound(window, l.round)}

ComputeStandings(windows, lines, phases, recorded) ==
  LET own(m) == {w \in windows : w.member = m}
      rounds(m) == {l.round : l \in UNION {Scored(w, lines, phases) : w \in own(m)}}
      weighed(m, l) == WeighHundredths(l.tenths, MultiplierFor(recorded, m, l.round, l.player))
      ofWindow(m, w, r) ==
        SumFunction([l \in {s \in Scored(w, lines, phases) : s.round = r} |-> weighed(m, l)])
      roundTotal(m, r) == SumFunction([w \in own(m) |-> ofWindow(m, w, r)])
  IN  [m \in MembersOf(windows) |->
         [byRound |-> [r \in rounds(m) |-> roundTotal(m, r)],
          total |-> SumFunction([r \in rounds(m) |-> roundTotal(m, r)])]]

(* The higher total first, then the lower member. *)
RankRows(table) ==
  InOrder(DOMAIN table, [a \in DOMAIN table |->
    {b \in DOMAIN table : \/ table[b].total > table[a].total
                          \/ table[b].total = table[a].total /\ b < a}])

PhaseByRound(lines) ==
  [r \in {l.round : l \in lines} |-> (CHOOSE l \in lines : l.round = r).phase]

ScoredRounds(table) == UNION {DOMAIN table[m].byRound : m \in DOMAIN table}

RoundPoints(table, m, r) == IF r \in DOMAIN table[m].byRound THEN table[m].byRound[r] ELSE 0

SnapshotsFromStandings(table, phaseOfRound) ==
  [r \in ScoredRounds(table) |->
     [phase |-> phaseOfRound[r],
      table |-> [m \in DOMAIN table |->
        [round |-> RoundPoints(table, m, r),
         total |-> SumFunction([q \in {p \in ScoredRounds(table) : p <= r} |-> RoundPoints(table, m, q)])]]]]

(* The last snapshot's season-to-date instead of the phases asked for. *)
TableFromSnapshotTotals(snapshots, phases) ==
  LET counted == {r \in DOMAIN snapshots : snapshots[r].phase \in phases}
  IN  [m \in UNION {DOMAIN snapshots[r].table : r \in counted} |->
         [byRound |-> [r \in counted |-> snapshots[r].table[m].round],
          total |-> snapshots[Max(counted)].table[m].total]]

TableFromSnapshots(snapshots, phases) ==
  LET counted == {r \in DOMAIN snapshots : snapshots[r].phase \in phases}
  IN  [m \in UNION {DOMAIN snapshots[r].table : r \in counted} |->
         [byRound |-> [r \in counted |-> snapshots[r].table[m].round],
          total |-> SumFunction([r \in counted |-> snapshots[r].table[m].round])]]
=============================================================================
