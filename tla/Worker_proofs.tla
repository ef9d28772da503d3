------------------------------ MODULE Worker_proofs ------------------------------
(***************************************************************************)
(* What the worker never leaves behind: it stops with nothing in flight; a *)
(* league that waits for an approval is not forgotten; standings that miss *)
(* a line are owed.  For any passes, leagues and games, and any number of  *)
(* stops, deaths, lost tokens and failed requests.                         *)
(***************************************************************************)
EXTENDS WorkerPasses, BasketNewsJobs, StatImports, TLAPS

-----------------------------------------------------------------------------
(* Passes.                                                                 *)

(* What the drain waits for is all there is: nothing is in flight that was   *)
(* not when it took its list, and nothing at all once it ended by itself.    *)
DrainInv ==
  /\ pass \in [Passes -> {"idle", "login", "run", "failing"}]
  /\ stop = "draining" => InFlight \subseteq awaited
  /\ stop = "clean" => InFlight = {}

LEMMA DrainInit == PassInit => DrainInv
BY DEF PassInit, DrainInv, NoPass, InFlight

(* Timers: a pass starts only while nothing is being stopped. *)
LEMMA FireStep ==
  ASSUME DrainInv, NEW p \in Passes, Fire(p)
  PROVE  DrainInv'
BY DEF DrainInv, Fire, InFlight

(* Requests and logins move a pass on or end it; they never start one. *)
LEMMA PassStep ==
  ASSUME DrainInv, NEW p \in Passes, PassReturns(p) \/ RequestRefused(p) \/ NoteFailure(p)
  PROVE  DrainInv'
<1>1. CASE PassReturns(p)
  BY <1>1 DEF DrainInv, PassReturns, InFlight
<1>2. CASE RequestRefused(p)
  BY <1>2 DEF DrainInv, RequestRefused, InFlight
<1>3. CASE NoteFailure(p)
  BY <1>3 DEF DrainInv, NoteFailure, InFlight
<1>. QED BY <1>1, <1>2, <1>3

LEMMA LoginStep ==
  ASSUME DrainInv, LoggedIn \/ LoginFails \/ TokenLost
  PROVE  DrainInv'
<1>1. CASE LoggedIn
  BY <1>1 DEF DrainInv, LoggedIn, InFlight
<1>2. CASE LoginFails
  BY <1>2 DEF DrainInv, LoginFails, InFlight
<1>3. CASE TokenLost
  BY <1>3 DEF DrainInv, TokenLost, InFlight
<1>. QED BY <1>1, <1>2, <1>3

(* The drain itself: its list is complete when it is taken. *)
LEMMA StopStep ==
  ASSUME DrainInv, Shutdown \/ DrainEnds \/ DeadlinePassed \/ StartAgain
  PROVE  DrainInv'
<1>1. CASE Shutdown
  BY <1>1 DEF DrainInv, Shutdown, InFlight
<1>2. CASE DrainEnds
  <2>1. InFlight = {}
    BY <1>2 DEF DrainInv, DrainEnds, InFlight
  <2>. QED BY <1>2, <2>1 DEF DrainInv, DrainEnds, InFlight
<1>3. CASE DeadlinePassed
  BY <1>3 DEF DrainInv, DeadlinePassed, InFlight
<1>4. CASE StartAgain
  BY <1>4 DEF DrainInv, StartAgain, InFlight, NoPass
<1>. QED BY <1>1, <1>2, <1>3, <1>4

LEMMA DrainStep == DrainInv /\ [PassNext]_passVars => DrainInv'
<1>. SUFFICES ASSUME DrainInv, [PassNext]_passVars PROVE DrainInv'
  OBVIOUS
<1>1. ASSUME NEW p \in Passes, Fire(p) PROVE DrainInv'
  BY <1>1, FireStep
<1>2. ASSUME NEW p \in Passes, PassReturns(p) \/ RequestRefused(p) \/ NoteFailure(p) PROVE DrainInv'
  BY <1>2, PassStep
<1>3. CASE LoggedIn \/ LoginFails \/ TokenLost
  BY <1>3, LoginStep
<1>4. CASE Shutdown \/ DrainEnds \/ DeadlinePassed \/ StartAgain
  BY <1>4, StopStep
<1>5. CASE UNCHANGED passVars
  BY <1>5 DEF DrainInv, passVars, counts, InFlight
<1>. QED BY <1>1, <1>2, <1>3, <1>4, <1>5 DEF PassNext

(* A process that says it stopped has nothing in flight (drain of            *)
(* worker/passes.ts), whatever its passes are and however they share locks   *)
(* and the login.                                                            *)
THEOREM StopsClean == PassSpec => []CleanStop
<1>1. DrainInv => CleanStop
  BY DEF DrainInv, CleanStop
<1>. QED BY <1>1, DrainInit, DrainStep, PTL DEF PassSpec

-----------------------------------------------------------------------------
(* Jobs, approvals and recoveries.                                         *)

IsRun(r) == r = [pc |-> r.pc, queue |-> r.queue, saw |-> r.saw, asked |-> r.asked,
                 outcome |-> r.outcome]
IsApproval(a) == a = [pc |-> a.pc, league |-> a.league, asked |-> a.asked]
IsQuestion(q) == q = [leagues |-> q.leagues, approved |-> q.approved, player |-> q.player,
                      recovery |-> q.recovery, pending |-> q.pending]

Records == IsRun(runner) /\ IsApproval(approval) /\ IsQuestion(question)

(* An approval is under way only while the player is not linked to his       *)
(* question, but for the jobs it queues last; before the player exists       *)
(* nothing is owed.                                                          *)
ApprovalInv ==
  /\ approval.pc \in {"intent", "create"} => ~linked
  /\ approval.pc = "link" => linked
  /\ ~linked => owed = {}
  /\ question.player => linked /\ approval.pc \in {"idle", "recover"}
  /\ ~question.player => owed = {}

(* The league whose recovery is being written has applied, and the question  *)
(* is still as it was read: no approval may write it any more.               *)
RecoveryInv ==
  /\ runner.pc \in {"complete", "recovered"} => League \in caughtUp
  /\ runner.pc = "recovered" => question.player /\ runner.asked = question.pending \ {League}

OwedInv == Records /\ ApprovalInv /\ RecoveryInv /\ RecoveryIsNotLost

LEMMA OwedInit == JobInit => OwedInv
BY DEF JobInit, OwedInv, Records, IsRun, IsApproval, IsQuestion, NoRun, NoApproval, NoQuestion,
       ApprovalInv, RecoveryInv, RecoveryIsNotLost

(* What the runner does until a job has its verdict writes no recovery. *)
LEMMA RunStep ==
  ASSUME OwedInv,
         ListJobs \/ QueueDone \/ MarkRunning \/ LoadPool \/ ReadQuestion \/ WriteQuestion
           \/ SyncFails \/ MarkingFails \/ WorkerRestarts
  PROVE  OwedInv'
<1>. USE DEF OwedInv, Records, IsRun, IsApproval, IsQuestion, ApprovalInv, RecoveryInv,
             RecoveryIsNotLost, NoRun, Run, NextJob
<1>1. CASE ListJobs
  BY <1>1 DEF ListJobs
<1>2. CASE QueueDone
  BY <1>2 DEF QueueDone
<1>3. CASE MarkRunning
  BY <1>3 DEF MarkRunning
<1>4. CASE LoadPool
  BY <1>4 DEF LoadPool
<1>5. CASE ReadQuestion
  BY <1>5 DEF ReadQuestion
<1>6. CASE WriteQuestion
  BY <1>6 DEF WriteQuestion
<1>7. CASE SyncFails
  BY <1>7 DEF SyncFails
<1>8. CASE MarkingFails
  BY <1>8 DEF MarkingFails
<1>9. CASE WorkerRestarts
  BY <1>9 DEF WorkerRestarts
<1>. QED BY <1>1, <1>2, <1>3, <1>4, <1>5, <1>6, <1>7, <1>8, <1>9

(* Only a job that applied reaches the recovery, and takes its own league    *)
(* off what the question says now.                                           *)
LEMMA VerdictStep ==
  ASSUME OwedInv, MarkOutcome \/ ReadRecovery \/ WriteRecovery
  PROVE  OwedInv'
<1>. USE DEF OwedInv, Records, IsRun, IsApproval, IsQuestion, ApprovalInv, RecoveryInv,
             RecoveryIsNotLost, NoRun, Run, NextJob
<1>1. CASE MarkOutcome
  BY <1>1 DEF MarkOutcome, League
<1>2. CASE ReadRecovery
  BY <1>2 DEF ReadRecovery, League
<1>3. CASE WriteRecovery
  <2>1. owed \subseteq caughtUp \cup runner.asked
    BY <1>3 DEF WriteRecovery
  <2>. QED BY <1>3, <2>1 DEF WriteRecovery
<1>. QED BY <1>1, <1>2, <1>3

(* An approval writes the question only before the player is linked to it. *)
LEMMA ApprovalStep ==
  ASSUME OwedInv,
         StartApproval \/ ResumeApproval \/ ReadForApproval \/ WriteIntent \/ CreatePlayer
           \/ LinkQuestion \/ RecoverLeagues \/ ApprovalDies
  PROVE  OwedInv'
<1>. USE DEF OwedInv, Records, IsRun, IsApproval, IsQuestion, ApprovalInv, RecoveryInv,
             RecoveryIsNotLost, NoApproval, Approve, AskedOf, League
<1>1. CASE StartApproval
  <2>1. PICK l : approval' = [pc |-> "question", league |-> l, asked |-> {}]
    BY <1>1 DEF StartApproval
  <2>. QED BY <1>1, <2>1 DEF StartApproval
<1>2. CASE ResumeApproval
  <2>1. PICK l : approval' = [pc |-> "question", league |-> l, asked |-> {}]
    BY <1>2 DEF ResumeApproval
  <2>. QED BY <1>2, <2>1 DEF ResumeApproval
<1>3. CASE ReadForApproval
  BY <1>3 DEF ReadForApproval
<1>4. CASE WriteIntent
  BY <1>4 DEF WriteIntent
<1>5. CASE CreatePlayer
  BY <1>5 DEF CreatePlayer
<1>6. CASE LinkQuestion
  BY <1>6 DEF LinkQuestion
<1>7. CASE RecoverLeagues
  BY <1>7 DEF RecoverLeagues
<1>8. CASE ApprovalDies
  BY <1>8 DEF ApprovalDies
<1>. QED BY <1>1, <1>2, <1>3, <1>4, <1>5, <1>6, <1>7, <1>8

LEMMA OwedStep == OwedInv /\ [JobNext]_jobVars => OwedInv'
<1>. SUFFICES ASSUME OwedInv, [JobNext]_jobVars PROVE OwedInv'
  OBVIOUS
<1>1. CASE QueueLeague \/ RosterPass \/ UNCHANGED jobVars
  BY <1>1 DEF OwedInv, Records, ApprovalInv, RecoveryInv, RecoveryIsNotLost, League,
              QueueLeague, RosterPass, jobVars
<1>2. CASE Processes \/ SyncFails \/ MarkingFails \/ WorkerRestarts
  BY <1>2, RunStep, VerdictStep DEF Processes
<1>3. CASE StartApproval \/ Approves \/ ApprovalDies
  BY <1>3, ApprovalStep DEF Approves
<1>. QED BY <1>1, <1>2, <1>3 DEF JobNext

(* "Queued is not recovered" (basketnews/registrations.ts): a league that an *)
(* approval wrote down waits until a job of its own has read the link and    *)
(* applied, whoever died or was coalesced meanwhile.                         *)
THEOREM RecoveryNeverLost == JobSpec => []RecoveryIsNotLost
<1>1. OwedInv => RecoveryIsNotLost
  BY DEF OwedInv
<1>. QED BY <1>1, OwedInit, OwedStep, PTL DEF JobSpec

-----------------------------------------------------------------------------
(* Box scores and standings.                                               *)

J == job[Worker]

(* A record with, at least, the fields the argument is about. *)
IsJob(j) == {"pc", "batch", "waiting", "checked", "read"} \subseteq DOMAIN j

Batch == [applied : BOOLEAN, updated : Nat]

StatTypes ==
  /\ job = [p \in {Worker} \cup Recorders |-> job[p]] /\ IsJob(J) /\ J.checked = TRUE
  /\ batches \in Seq(Batch)
  /\ snapshot \subseteq lines

(* What the worker's place in its pass says: the batch whose rows it writes  *)
(* is unapplied, the lines it is about to compute from are today's, and      *)
(* while it marks batches the standings miss nothing.                        *)
PlaceInv ==
  /\ J.pc = "rows" => J.batch \in Unapplied
  /\ J.pc \in {"check", "write"} => J.read = lines
  /\ J.pc = "mark" => snapshot = lines
  /\ J.waiting \subseteq DOMAIN batches

OweInv == StatTypes /\ PlaceInv /\ MissingLinesAreOwed

(* Writing one batch again leaves a sequence of as many. *)
LEMMA BatchReplaced ==
  ASSUME batches \in Seq(Batch), NEW b \in DOMAIN batches, NEW v \in Batch
  PROVE  /\ [batches EXCEPT ![b] = v] \in Seq(Batch)
         /\ DOMAIN [batches EXCEPT ![b] = v] = DOMAIN batches
         /\ [batches EXCEPT ![b] = v][b] = v
<1>. DEFINE s == [batches EXCEPT ![b] = v]
<1>1. batches \in [1..Len(batches) -> Batch] /\ Len(batches) \in Nat
  OBVIOUS
<1>2. s \in [1..Len(batches) -> Batch] /\ s[b] = v
  BY <1>1
<1>. QED BY <1>1, <1>2

(* A batch written once more is a batch. *)
LEMMA BatchUpdated ==
  ASSUME NEW c \in Batch, NEW applied \in BOOLEAN
  PROVE  /\ [applied |-> applied, updated |-> c.updated + 1] \in Batch
         /\ [c EXCEPT !.updated = @ + 1] = [applied |-> c.applied, updated |-> c.updated + 1]
BY DEF Batch

LEMMA OweInit == StatInit => OweInv
BY DEF StatInit, OweInv, StatTypes, PlaceInv, MissingLinesAreOwed, J, IsJob, AtRest, NoBatch

(* Only the worker's own entry of job changes. *)
LEMMA SetFact ==
  ASSUME OweInv, NEW state, Set(Worker, state)
  PROVE  J' = state /\ job' = [p \in {Worker} \cup Recorders |-> job'[p]]
BY DEF OweInv, StatTypes, Set, J

(* Steps that store nothing keep what was owed. *)
LEMMA QuietStep ==
  ASSUME OweInv, NEW state, Set(Worker, state), UNCHANGED <<lines, batches, snapshot>>,
         IsJob(state), state.checked = TRUE,
         state.pc = "rows" => state.batch \in Unapplied,
         state.pc \in {"check", "write"} => state.read = lines,
         state.pc = "mark" => snapshot = lines,
         state.waiting \subseteq DOMAIN batches
  PROVE  OweInv'
<1>1. J' = state /\ job' = [p \in {Worker} \cup Recorders |-> job'[p]]
  BY SetFact
<1>2. Unapplied' = Unapplied
  BY DEF Unapplied
<1>. QED BY <1>1, <1>2 DEF OweInv, StatTypes, PlaceInv, MissingLinesAreOwed, IsJob

(* A death, or any other way back to the start of a pass. *)
LEMMA RestFact == IsJob(AtRest) /\ AtRest.checked = TRUE /\ AtRest.pc = "idle" /\ AtRest.waiting = {}
BY DEF IsJob, AtRest

LEMMA PassBegins ==
  ASSUME OweInv, QuietPass \/ ImportingPass
  PROVE  OweInv'
<1>1. CASE QuietPass
  <2>. DEFINE state == [AtRest EXCEPT !.pc = "settle"]
  <2>1. IsJob(state) /\ state.checked = TRUE /\ state.pc = "settle" /\ state.waiting = {}
    BY DEF IsJob, AtRest
  <2>2. Set(Worker, state) /\ UNCHANGED <<lines, batches, snapshot>>
    BY <1>1 DEF QuietPass
  <2>. HIDE DEF state
  <2>. QED BY <2>1, <2>2, QuietStep
<1>2. CASE ImportingPass
  <2>1. PICK todo : /\ Set(Worker, [AtRest EXCEPT !.pc = "batch", !.todo = todo])
                    /\ UNCHANGED <<lines, batches, snapshot>>
    BY <1>2 DEF ImportingPass
  <2>. DEFINE state == [AtRest EXCEPT !.pc = "batch", !.todo = todo]
  <2>2. IsJob(state) /\ state.checked = TRUE /\ state.pc = "batch" /\ state.waiting = {}
    BY DEF IsJob, AtRest
  <2>3. Set(Worker, state)
    BY <2>1
  <2>. HIDE DEF state
  <2>. QED BY <2>1, <2>2, <2>3, QuietStep
<1>. QED BY <1>1, <1>2

(* Recorded unapplied before any row, and not applied by its counts. *)
LEMMA BatchWritten ==
  ASSUME OweInv, RecordStatBatch \/ MarkCounts
  PROVE  OweInv'
<1>. USE DEF OweInv, StatTypes, PlaceInv
<1>1. CASE RecordStatBatch
  <2>. DEFINE n == Len(batches) + 1
              state == [J EXCEPT !.pc = "rows", !.batch = n]
  <2>1. /\ Set(Worker, state) /\ UNCHANGED <<lines, snapshot>>
        /\ batches' = Append(batches, [applied |-> FALSE, updated |-> 0])
    BY <1>1 DEF RecordStatBatch, J
  <2>2. J' = state /\ job' = [p \in {Worker} \cup Recorders |-> job'[p]]
    BY <2>1, SetFact
  <2>3. /\ IsJob(state) /\ state.checked = TRUE /\ state.pc = "rows" /\ state.batch = n
        /\ state.waiting = J.waiting
    BY DEF IsJob
  <2>4. /\ batches' \in Seq(Batch) /\ DOMAIN batches \subseteq DOMAIN batches'
        /\ n \in DOMAIN batches' /\ ~batches'[n].applied
    BY <2>1 DEF Batch
  <2>5. n \in Unapplied'
    BY <2>4 DEF Unapplied
  <2>. HIDE DEF state, n
  <2>. QED BY <2>1, <2>2, <2>3, <2>4, <2>5 DEF MissingLinesAreOwed
<1>2. CASE MarkCounts
  <2>. DEFINE state == [J EXCEPT !.pc = "settle", !.force = TRUE]
  <2>1. /\ J.pc = "rows" /\ Set(Worker, state) /\ UNCHANGED <<lines, snapshot>>
        /\ batches' = [batches EXCEPT ![J.batch].updated = @ + 1] \/ UNCHANGED batches
    BY <1>2 DEF MarkCounts, J
  <2>2. J' = state /\ job' = [p \in {Worker} \cup Recorders |-> job'[p]]
    BY <2>1, SetFact
  <2>3. IsJob(state) /\ state.checked = TRUE /\ state.pc = "settle" /\ state.waiting = J.waiting
    BY DEF IsJob
  <2>4. J.batch \in DOMAIN batches /\ ~batches[J.batch].applied
    BY <2>1 DEF Unapplied
  <2>. DEFINE v == [applied |-> FALSE, updated |-> batches[J.batch].updated + 1]
  <2>5. batches[J.batch] \in Batch /\ batches[J.batch].applied = FALSE
    <3>1. batches[J.batch] \in Batch
      BY <2>4
    <3>2. batches[J.batch].applied \in BOOLEAN
      BY <3>1 DEF Batch
    <3>. QED BY <2>4, <3>1, <3>2
  <2>6. v \in Batch /\ [batches[J.batch] EXCEPT !.updated = @ + 1] = v
    BY <2>4, <2>5, BatchUpdated
  <2>7. batches' = [batches EXCEPT ![J.batch] = v] \/ batches' = batches
    BY <2>1, <2>6
  <2>8. /\ batches' \in Seq(Batch) /\ DOMAIN batches' = DOMAIN batches
        /\ ~batches'[J.batch].applied
    BY <2>4, <2>6, <2>7, BatchReplaced
  <2>9. J.batch \in Unapplied'
    BY <2>4, <2>8 DEF Unapplied
  <2>. HIDE DEF state
  <2>. QED BY <2>1, <2>2, <2>3, <2>8, <2>9 DEF MissingLinesAreOwed
<1>. QED BY <1>1, <1>2

(* The row's batch is unapplied, and stays so. *)
LEMMA RowWritten ==
  ASSUME OweInv, ApplyStatRow
  PROVE  OweInv'
<1>. USE DEF OweInv, StatTypes, PlaceInv
<1>1. PICK line : /\ Set(Worker, [J EXCEPT !.todo = @ \ {line}]) /\ J.pc = "rows"
                  /\ lines \subseteq lines' /\ UNCHANGED <<batches, snapshot>>
  BY DEF ApplyStatRow, J
<1>. DEFINE state == [J EXCEPT !.todo = @ \ {line}]
<1>2. J' = state /\ job' = [p \in {Worker} \cup Recorders |-> job'[p]]
  BY <1>1, SetFact
<1>3. /\ IsJob(state) /\ state.checked = TRUE /\ state.pc = "rows" /\ state.batch = J.batch
      /\ state.waiting = J.waiting
  BY <1>1 DEF IsJob
<1>4. J.batch \in Unapplied /\ Unapplied' = Unapplied
  BY <1>1 DEF Unapplied
<1>. HIDE DEF state
<1>. QED BY <1>1, <1>2, <1>3, <1>4 DEF MissingLinesAreOwed

LEMMA SettleStep ==
  ASSUME OweInv, SettleStatBatches \/ RebuildFails \/ PassEnds \/ WorkerDies
  PROVE  OweInv'
<1>. USE DEF OweInv, StatTypes, PlaceInv
<1>. DEFINE state == [J EXCEPT !.pc = "version", !.waiting = Unapplied]
<1>1. /\ IsJob(state) /\ state.checked = TRUE /\ state.pc = "version"
      /\ state.waiting \subseteq DOMAIN batches
  BY DEF IsJob, Unapplied
<1>2. /\ Set(Worker, AtRest) \/ Set(Worker, state)
      /\ UNCHANGED <<lines, batches, snapshot>>
  BY DEF SettleStatBatches, RebuildFails, PassEnds, WorkerDies, J
<1>. HIDE DEF state
<1>. QED BY <1>1, <1>2, RestFact, QuietStep

(* Marked applied only while the standings miss nothing. *)
LEMMA BatchApplied ==
  ASSUME OweInv, MarkApplied
  PROVE  OweInv'
<1>. USE DEF OweInv, StatTypes, PlaceInv
<1>. DEFINE b == CHOOSE w \in J.waiting : TRUE
            state == [J EXCEPT !.waiting = @ \ {b}]
<1>1. /\ J.pc = "mark" /\ J.waiting # {} /\ Set(Worker, state) /\ UNCHANGED <<lines, snapshot>>
      /\ \/ batches' = [batches EXCEPT ![b] = [applied |-> TRUE, updated |-> @.updated + 1]]
         \/ UNCHANGED batches
  BY DEF MarkApplied, J
<1>2. J' = state /\ job' = [p \in {Worker} \cup Recorders |-> job'[p]]
  BY <1>1, SetFact
<1>3. /\ IsJob(state) /\ state.checked = TRUE /\ state.pc = "mark"
      /\ state.waiting \subseteq J.waiting
  BY <1>1 DEF IsJob
<1>4. b \in DOMAIN batches
  BY <1>1
<1>5. batches' \in Seq(Batch) /\ DOMAIN batches' = DOMAIN batches
  <2>. DEFINE v == [applied |-> TRUE, updated |-> batches[b].updated + 1]
  <2>1. v \in Batch
    <3>1. batches[b] \in Batch
      BY <1>4
    <3>. HIDE DEF b
    <3>. QED BY <3>1, BatchUpdated
  <2>2. batches' = [batches EXCEPT ![b] = v] \/ batches' = batches
    BY <1>1
  <2>. HIDE DEF v, b
  <2>. QED BY <1>4, <2>1, <2>2, BatchReplaced
<1>6. snapshot' = lines'
  BY <1>1
<1>. HIDE DEF state, b
<1>. QED BY <1>1, <1>2, <1>3, <1>5, <1>6 DEF MissingLinesAreOwed

(* recomputeStandings: the lines it read are still the lines when it writes. *)
LEMMA RecomputeStep ==
  ASSUME OweInv, Recomputes(Worker)
  PROVE  OweInv'
<1>. USE DEF OweInv, StatTypes, PlaceInv
<1>1. CASE ReadVersion(Worker)
  <2>. DEFINE state == [J EXCEPT !.pc = "lines", !.version = LinesVersion]
  <2>1. IsJob(state) /\ state.checked = TRUE /\ state.pc = "lines" /\ state.waiting = J.waiting
    BY DEF IsJob
  <2>2. Set(Worker, state) /\ UNCHANGED <<lines, batches, snapshot>>
    BY <1>1 DEF ReadVersion, J
  <2>. HIDE DEF state
  <2>. QED BY <2>1, <2>2, QuietStep
<1>2. CASE ReadLines(Worker)
  <2>. DEFINE state == [J EXCEPT !.pc = "check", !.read = lines]
  <2>1. /\ IsJob(state) /\ state.checked = TRUE /\ state.pc = "check" /\ state.waiting = J.waiting
        /\ state.read = lines
    BY DEF IsJob
  <2>2. Set(Worker, state) /\ UNCHANGED <<lines, batches, snapshot>>
    BY <1>2 DEF ReadLines, J
  <2>. HIDE DEF state
  <2>. QED BY <2>1, <2>2, QuietStep
<1>3. CASE CheckVersion(Worker)
  <2>. DEFINE state == [J EXCEPT !.pc = "write"]
  <2>1. Set(Worker, state) /\ UNCHANGED <<lines, batches, snapshot>> /\ J.pc = "check"
    BY <1>3 DEF CheckVersion, J
  <2>2. /\ IsJob(state) /\ state.checked = TRUE /\ state.pc = "write" /\ state.waiting = J.waiting
        /\ state.read = lines
    BY <2>1 DEF IsJob
  <2>. HIDE DEF state
  <2>. QED BY <2>1, <2>2, QuietStep
<1>4. CASE WriteSnapshots(Worker)
  <2>. DEFINE state == [J EXCEPT !.pc = "mark"]
  <2>1. /\ J.pc = "write" /\ Set(Worker, state) /\ UNCHANGED <<lines, batches>>
        /\ snapshot' = IF J.read = {} THEN snapshot ELSE J.read
    BY <1>4 DEF WriteSnapshots, J
  <2>2. J' = state /\ job' = [p \in {Worker} \cup Recorders |-> job'[p]]
    BY <2>1, SetFact
  <2>3. IsJob(state) /\ state.checked = TRUE /\ state.pc = "mark" /\ state.waiting = J.waiting
    BY DEF IsJob
  <2>4. snapshot' = lines'
    BY <2>1
  <2>. HIDE DEF state
  <2>. QED BY <2>1, <2>2, <2>3, <2>4 DEF MissingLinesAreOwed
<1>. QED BY <1>1, <1>2, <1>3, <1>4 DEF Recomputes

LEMMA OweStep == OweInv /\ [StatNext]_statVars => OweInv'
<1>. SUFFICES ASSUME OweInv, [StatNext]_statVars PROVE OweInv'
  OBVIOUS
<1>1. CASE GameIsPlayed \/ UNCHANGED statVars
  BY <1>1 DEF OweInv, StatTypes, PlaceInv, MissingLinesAreOwed, J, Unapplied, GameIsPlayed, statVars
<1>2. CASE Imports \/ WorkerDies
  BY <1>2, PassBegins, BatchWritten, RowWritten, SettleStep, BatchApplied, RecomputeStep DEF Imports
<1>. QED BY <1>1, <1>2 DEF StatNext

(* Wherever the worker died and whichever write or rebuild failed, a stored  *)
(* line the standings miss has a batch that is still unapplied, from which   *)
(* the next pass rebuilds them (settleStatBatches, stats/ingest.ts).         *)
THEOREM MissingLinesAlwaysOwed == StatSpec => []MissingLinesAreOwed
<1>1. OweInv => MissingLinesAreOwed
  BY DEF OweInv
<1>. QED BY <1>1, OweInit, OweStep, PTL DEF StatSpec
=============================================================================
