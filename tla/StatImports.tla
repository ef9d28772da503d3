------------------------------ MODULE StatImports ------------------------------
(***************************************************************************)
(* Box scores become standings.  The worker's pass (ingestFinishedGames,   *)
(* stats/ingest.ts) imports the games that are played and have nothing     *)
(* stored, as a batch (importStatPlan), then rebuilds the standings        *)
(* snapshots (stats/standings-store.ts) and only then marks the batch      *)
(* applied.  A recompute checks, before it writes, that the season's       *)
(* newest batch is the one it started with.                                *)
(*                                                                         *)
(* One league and one round, so the snapshots are the set of lines they    *)
(* were computed from; the pool averages are rebuilt beside them.          *)
(***************************************************************************)
EXTENDS Integers, Sequences, FiniteSets

CONSTANTS
  Worker,             \* the process that imports
  Recorders,          \* processes that recompute after a recorded move
  Games, LinesOf,     \* games, and the lines of each box score
  MaxStatCrashes, MaxStatFailures

VARIABLES
  played,       \* games the schedule says are played
  lines,        \* player_game_stats
  batches,      \* stat_imports, oldest first: [applied, updated]
  snapshot,     \* the lines standings_snapshots were computed from
  job,          \* what each process is doing
  statCrashes, statFailures

statVars == <<played, lines, batches, snapshot, job, statCrashes, statFailures>>

NoBatch == 0
Unversioned == <<>>
AtRest == [pc |-> "idle", force |-> FALSE, todo |-> {}, batch |-> NoBatch, waiting |-> {},
           checked |-> TRUE, version |-> Unversioned, read |-> {}]

StatInit ==
  /\ played = {} /\ lines = {} /\ batches = <<>> /\ snapshot = {}
  /\ job = [p \in {Worker} \cup Recorders |-> AtRest]
  /\ statCrashes = 0 /\ statFailures = 0

Set(p, state) == job' = [job EXCEPT ![p] = state]
Sound == UNCHANGED <<statCrashes, statFailures>>
Fails == statFailures < MaxStatFailures /\ statFailures' = statFailures + 1 /\ UNCHANGED statCrashes

Unapplied == {b \in DOMAIN batches : ~batches[b].applied}

(* linesVersion: the newest batch, and when it was last written. *)
LinesVersion == <<Len(batches), IF batches = <<>> THEN 0 ELSE batches[Len(batches)].updated>>

(* readStoredGameCodes: a game with any line stored counts as stored. *)
StoredGames == {g \in Games : LinesOf[g] \cap lines # {}}

GameIsPlayed ==
  /\ \E g \in Games \ played : played' = played \cup {g}
  /\ UNCHANGED <<lines, batches, snapshot, job>> /\ Sound

-----------------------------------------------------------------------------
(* ingestFinishedGames *)

(* Nothing outstanding, or nothing readable yet: settle what is waiting. *)
QuietPass ==
  /\ job[Worker].pc = "idle"
  /\ played \subseteq StoredGames \/ statFailures < MaxStatFailures
  /\ statFailures' = IF played \subseteq StoredGames THEN statFailures ELSE statFailures + 1
  /\ Set(Worker, [AtRest EXCEPT !.pc = "settle"])
  /\ UNCHANGED <<played, lines, batches, snapshot, statCrashes>>

(* The outstanding games' box scores, planned against what is stored. *)
ImportingPass ==
  /\ job[Worker].pc = "idle" /\ ~(played \subseteq StoredGames)
  /\ \E fetched \in (SUBSET (played \ StoredGames)) \ {{}} :
       Set(Worker, [AtRest EXCEPT !.pc = "batch",
                    !.todo = (UNION {LinesOf[g] : g \in fetched}) \ lines])
  /\ UNCHANGED <<played, lines, batches, snapshot>> /\ Sound

-----------------------------------------------------------------------------
(* importStatPlan *)

RecordStatBatch ==
  /\ job[Worker].pc = "batch"
  /\ batches' = Append(batches, [applied |-> FALSE, updated |-> 0])
  /\ Set(Worker, [job[Worker] EXCEPT !.pc = "rows", !.batch = Len(batches) + 1])
  /\ UNCHANGED <<played, lines, snapshot>> /\ Sound

(* One row created, or refused and listed in the batch's log. *)
ApplyStatRow ==
  /\ job[Worker].pc = "rows" /\ job[Worker].todo # {}
  /\ LET line == CHOOSE l \in job[Worker].todo : TRUE
     IN  /\ \/ lines' = lines \cup {line} /\ Sound
            \/ UNCHANGED lines /\ Fails
         /\ Set(Worker, [job[Worker] EXCEPT !.todo = @ \ {line}])
  /\ UNCHANGED <<played, batches, snapshot>>

(* The counts written as if they finished the batch. *)
MarkCountsApplied ==
  /\ job[Worker].pc = "rows" /\ job[Worker].todo = {}
  /\ batches' = [batches EXCEPT ![job[Worker].batch] = [applied |-> TRUE, updated |-> 1]]
  /\ Set(Worker, [job[Worker] EXCEPT !.pc = "settle", !.force = TRUE])
  /\ UNCHANGED <<played, lines, snapshot>> /\ Sound

(* markStatBatch with the counts: still not applied.  Tolerates a failure. *)
MarkCounts ==
  /\ job[Worker].pc = "rows" /\ job[Worker].todo = {}
  /\ \/ batches' = [batches EXCEPT ![job[Worker].batch].updated = @ + 1] /\ Sound
     \/ UNCHANGED batches /\ Fails
  /\ Set(Worker, [job[Worker] EXCEPT !.pc = "settle", !.force = TRUE])
  /\ UNCHANGED <<played, lines, snapshot>>

-----------------------------------------------------------------------------
(* settleStatBatches *)

(* Only an import rebuilds the caches. *)
SettleOnlyOwnImport ==
  /\ job[Worker].pc = "settle"
  /\ Set(Worker, IF ~job[Worker].force THEN AtRest
                 ELSE [job[Worker] EXCEPT !.pc = "version", !.waiting = Unapplied])
  /\ UNCHANGED <<played, lines, batches, snapshot>> /\ Sound

SettleStatBatches ==
  /\ job[Worker].pc = "settle"
  /\ Set(Worker, IF Unapplied = {} /\ ~job[Worker].force THEN AtRest
                 ELSE [job[Worker] EXCEPT !.pc = "version", !.waiting = Unapplied])
  /\ UNCHANGED <<played, lines, batches, snapshot>> /\ Sound

(* The rebuild throws; the batches stay waiting. *)
RebuildFails ==
  /\ job[Worker].pc = "lines" /\ Fails
  /\ Set(Worker, AtRest)
  /\ UNCHANGED <<played, lines, batches, snapshot>>

(* A mark that fails is tolerated, too. *)
MarkApplied ==
  /\ job[Worker].pc = "mark" /\ job[Worker].waiting # {}
  /\ LET b == CHOOSE w \in job[Worker].waiting : TRUE
     IN  /\ \/ /\ batches' = [batches EXCEPT ![b] = [applied |-> TRUE, updated |-> @.updated + 1]]
               /\ Sound
            \/ UNCHANGED batches /\ Fails
         /\ Set(Worker, [job[Worker] EXCEPT !.waiting = @ \ {b}])
  /\ UNCHANGED <<played, lines, snapshot>>

PassEnds ==
  /\ job[Worker].pc = "mark" /\ job[Worker].waiting = {}
  /\ Set(Worker, AtRest)
  /\ UNCHANGED <<played, lines, batches, snapshot>> /\ Sound

-----------------------------------------------------------------------------
(* recomputeStandings *)

ReadVersion(p) ==
  /\ job[p].pc = "version"
  /\ Set(p, [job[p] EXCEPT !.pc = "lines", !.version = LinesVersion])
  /\ UNCHANGED <<played, lines, batches, snapshot>> /\ Sound

ReadLines(p) ==
  /\ job[p].pc = "lines"
  /\ Set(p, [job[p] EXCEPT !.pc = IF job[p].checked THEN "check" ELSE "write", !.read = lines])
  /\ UNCHANGED <<played, lines, batches, snapshot>> /\ Sound

CheckVersion(p) ==
  /\ job[p].pc = "check" /\ LinesVersion = job[p].version
  /\ Set(p, [job[p] EXCEPT !.pc = "write"])
  /\ UNCHANGED <<played, lines, batches, snapshot>> /\ Sound

(* The lines moved on: once more, unchecked. *)
RunAgain(p) ==
  /\ job[p].pc = "check" /\ LinesVersion # job[p].version
  /\ Set(p, [job[p] EXCEPT !.pc = "lines", !.checked = FALSE])
  /\ UNCHANGED <<played, lines, batches, snapshot>> /\ Sound

(* A round without a line keeps the snapshot it has. *)
WriteSnapshots(p) ==
  /\ job[p].pc = "write"
  /\ snapshot' = IF job[p].read = {} THEN snapshot ELSE job[p].read
  /\ Set(p, IF p = Worker THEN [job[p] EXCEPT !.pc = "mark"] ELSE AtRest)
  /\ UNCHANGED <<played, lines, batches>> /\ Sound

(* recordTransaction and the other doors recompute when they have written. *)
MoveIsRecorded(p) ==
  /\ job[p].pc = "idle"
  /\ Set(p, [AtRest EXCEPT !.pc = "version"])
  /\ UNCHANGED <<played, lines, batches, snapshot>> /\ Sound

-----------------------------------------------------------------------------
WorkerDies ==
  /\ job[Worker].pc # "idle" /\ statCrashes < MaxStatCrashes
  /\ statCrashes' = statCrashes + 1 /\ Set(Worker, AtRest)
  /\ UNCHANGED <<played, lines, batches, snapshot, statFailures>>

Recomputes(p) == ReadVersion(p) \/ ReadLines(p) \/ CheckVersion(p) \/ WriteSnapshots(p)

Imports ==
  QuietPass \/ ImportingPass \/ RecordStatBatch \/ ApplyStatRow \/ MarkCounts
    \/ SettleStatBatches \/ RebuildFails \/ MarkApplied \/ PassEnds \/ Recomputes(Worker)

(* The worker alone, and with recorded moves beside it. *)
StatNext == Imports \/ GameIsPlayed \/ WorkerDies

StatSpec == StatInit /\ [][StatNext]_statVars

StatRaceNext ==
  \/ StatNext \/ RunAgain(Worker)
  \/ \E p \in Recorders : MoveIsRecorded(p) \/ Recomputes(p) \/ RunAgain(p)

(* The pass comes back every fifteen minutes. *)
StatFairness == WF_statVars(Imports)

-----------------------------------------------------------------------------
StatTypeOK ==
  /\ played \subseteq Games /\ lines \subseteq UNION {LinesOf[g] : g \in Games}
  /\ snapshot \subseteq lines
  /\ \A b \in DOMAIN batches : batches[b].applied \in BOOLEAN

(* Standings that miss a stored line are owed: some batch is still           *)
(* unapplied, so the next pass rebuilds them even with nothing to import -    *)
(* wherever the worker died, and whichever write or rebuild failed.          *)
MissingLinesAreOwed == snapshot # lines => Unapplied # {}

(* The standings catch up with the stored lines again and again: a dead      *)
(* pass, a failed rebuild or a failed mark delays them, nothing loses them.  *)
StandingsCatchUp == []<>(snapshot = lines)

(* stats/standings-store.ts: "A recompute that read the lines before an      *)
(* import landed must not write over one that read them after".              *)
OldLinesNeverWin == [][snapshot \subseteq snapshot']_statVars

StatRaceSpec == StatInit /\ [][StatRaceNext]_statVars /\ StatFairness
=============================================================================
