----------------------------- MODULE BasketNewsJobs -----------------------------
(***************************************************************************)
(* Leagues mirrored from BasketNews.  Reads are queued as jobs, at most    *)
(* one active per league, and processed by the worker's pass one after     *)
(* another (basketnews/jobs.ts).  A source player the pool does not know   *)
(* blocks a league's job and is remembered as a question                   *)
(* (basketnews/registrations.ts); a manager's approval links the player    *)
(* and owes a new job to every league that asked: the recovery, pending    *)
(* until a job of that league has applied.                                 *)
(*                                                                         *)
(* One source player.  A job is its league's newest row in fantasy_syncs.  *)
(***************************************************************************)
EXTENDS Integers, Sequences, FiniteSets, SequencesExt

CONSTANTS
  Leagues,            \* source-owned leagues, naturals in the order their jobs are read
  MaxJobMishaps       \* crashes and failed requests

VARIABLES
  jobs,         \* league to the status of its newest job
  question,     \* the source player's row
  linked,       \* the pool has the player, linked to the source
  runner,       \* the worker's pass over the queue
  approval,     \* a manager's approval, or the roster pass resuming one
  caughtUp,     \* history: the leagues with an applied job that read the link
  owed,         \* history: the leagues the approval wrote down as waiting
  jobMishaps

jobVars == <<jobs, question, linked, runner, approval, caughtUp, owed, jobMishaps>>

Active == {"queued", "running"}

NoQuestion == [leagues |-> {}, approved |-> FALSE, player |-> FALSE,
               recovery |-> FALSE, pending |-> {}]
NoRun      == [pc |-> "idle", queue |-> <<>>, saw |-> FALSE, asked |-> {}, outcome |-> "queued"]
NoApproval == [pc |-> "idle", league |-> 0, asked |-> {}]

JobInit ==
  /\ jobs = [l \in Leagues |-> "none"]
  /\ question = NoQuestion /\ linked = FALSE
  /\ runner = NoRun /\ approval = NoApproval /\ caughtUp = {} /\ owed = {}
  /\ jobMishaps = 0

(* queueBasketNewsSync: an active job is coalesced with. *)
Queued(status, asked) ==
  [l \in Leagues |-> IF l \in asked /\ status[l] \notin Active THEN "queued" ELSE status[l]]

(* queueBasketNewsLeagues and "Sync now". *)
QueueLeague ==
  /\ \E l \in Leagues : jobs[l] \notin Active /\ jobs' = Queued(jobs, {l})
  /\ UNCHANGED <<question, linked, runner, approval, caughtUp, owed, jobMishaps>>

-----------------------------------------------------------------------------
(* processBasketNewsJobs *)

League == Head(runner.queue)
Run(pc) == runner' = [runner EXCEPT !.pc = pc]
NextJob == runner' = [NoRun EXCEPT !.pc = "job", !.queue = Tail(runner.queue)]

(* Running ones too: a restart retries them. *)
ListJobs ==
  /\ runner.pc = "idle"
  /\ runner' = [NoRun EXCEPT !.pc = "job",
                !.queue = SetToSortSeq({l \in Leagues : jobs[l] \in Active}, <)]
  /\ UNCHANGED <<jobs, question, linked, approval, caughtUp, owed, jobMishaps>>

QueueDone ==
  /\ runner.pc = "job" /\ runner.queue = <<>> /\ runner' = NoRun
  /\ UNCHANGED <<jobs, question, linked, approval, caughtUp, owed, jobMishaps>>

MarkRunning ==
  /\ runner.pc = "job" /\ runner.queue # <<>>
  /\ jobs' = [jobs EXCEPT ![League] = "running"] /\ Run("load")
  /\ UNCHANGED <<question, linked, approval, caughtUp, owed, jobMishaps>>

(* syncBasketNews reads the pool; what it read decides to the end. *)
LoadPool ==
  /\ runner.pc = "load"
  /\ runner' = [runner EXCEPT !.saw = linked, !.pc = IF linked THEN "mark" ELSE "remember",
                !.outcome = IF linked THEN "applied" ELSE "blocked"]
  /\ UNCHANGED <<jobs, question, linked, approval, caughtUp, owed, jobMishaps>>

(* rememberSourcePlayers: the leagues that ask are read, then written. *)
ReadQuestion ==
  /\ runner.pc = "remember"
  /\ runner' = [runner EXCEPT !.pc = "ask", !.asked = question.leagues \cup {League}]
  /\ UNCHANGED <<jobs, question, linked, approval, caughtUp, owed, jobMishaps>>

WriteQuestion ==
  /\ runner.pc = "ask"
  /\ question' = [question EXCEPT !.leagues = runner.asked] /\ Run("mark")
  /\ UNCHANGED <<jobs, linked, approval, caughtUp, owed, jobMishaps>>

(* The source does not answer, or a write throws. *)
SyncFails ==
  /\ runner.pc \in {"load", "remember", "ask"} /\ jobMishaps < MaxJobMishaps
  /\ jobMishaps' = jobMishaps + 1
  /\ runner' = [runner EXCEPT !.pc = "mark", !.outcome = "failed"]
  /\ UNCHANGED <<jobs, question, linked, approval, caughtUp, owed>>

(* Any verdict completes: also one reached with the pool as it was before.    *)
MarkOutcomeAndComplete ==
  /\ runner.pc = "mark"
  /\ jobs' = [jobs EXCEPT ![League] = runner.outcome]
  /\ caughtUp' = IF runner.outcome = "applied" THEN caughtUp \cup {League} ELSE caughtUp
  /\ Run("complete")
  /\ UNCHANGED <<question, linked, approval, owed, jobMishaps>>

(* The verdict frees the league's active slot. *)
MarkOutcome ==
  /\ runner.pc = "mark"
  /\ jobs' = [jobs EXCEPT ![League] = runner.outcome]
  /\ caughtUp' = IF runner.outcome = "applied" THEN caughtUp \cup {League} ELSE caughtUp
  /\ IF runner.outcome = "applied" THEN Run("complete") ELSE NextJob
  /\ UNCHANGED <<question, linked, approval, owed, jobMishaps>>

(* A verdict that cannot be written leaves the job running. *)
MarkingFails ==
  /\ runner.pc = "mark" /\ jobMishaps < MaxJobMishaps
  /\ jobMishaps' = jobMishaps + 1 /\ NextJob
  /\ UNCHANGED <<jobs, question, linked, approval, caughtUp, owed>>

(* One league's job settles the question for all of them.                    *)
ReadRecoveryOfAll ==
  /\ runner.pc = "complete"
  /\ IF question.recovery /\ question.player
     THEN runner' = [runner EXCEPT !.pc = "recovered", !.asked = {}]
     ELSE NextJob
  /\ UNCHANGED <<jobs, question, linked, approval, caughtUp, owed, jobMishaps>>

(* completeSourcePlayerRecovery, for one question: read, then written. *)
ReadRecovery ==
  /\ runner.pc = "complete"
  /\ IF question.recovery /\ question.player
     THEN runner' = [runner EXCEPT !.pc = "recovered", !.asked = question.pending \ {League}]
     ELSE NextJob
  /\ UNCHANGED <<jobs, question, linked, approval, caughtUp, owed, jobMishaps>>

WriteRecovery ==
  /\ runner.pc = "recovered"
  /\ question' = [question EXCEPT !.pending = runner.asked, !.recovery = runner.asked # {}]
  /\ NextJob
  /\ UNCHANGED <<jobs, linked, approval, caughtUp, owed, jobMishaps>>

-----------------------------------------------------------------------------
(* approveSourcePlayer *)

Approve(pc) == approval' = [approval EXCEPT !.pc = pc]

AskedOf(league) == approval' = [NoApproval EXCEPT !.pc = "question", !.league = league]

(* A manager of a league that asked answers. *)
StartApproval ==
  /\ approval.pc = "idle" /\ ~question.player /\ \E l \in question.leagues : AskedOf(l)
  /\ UNCHANGED <<jobs, question, linked, runner, caughtUp, owed, jobMishaps>>

(* confirmSourcePlayers, in the roster pass, finishes an approval that died. *)
ResumeApproval ==
  /\ approval.pc = "idle" /\ question.approved /\ ~question.player
  /\ \E l \in question.leagues : AskedOf(l)
  /\ UNCHANGED <<jobs, question, linked, runner, caughtUp, owed, jobMishaps>>

(* The league is remembered (it asked already), and the question read. *)
ReadForApproval ==
  /\ approval.pc = "question"
  /\ approval' = [approval EXCEPT !.asked = question.leagues, !.pc = IF linked THEN "link" ELSE "intent"]
  /\ UNCHANGED <<jobs, question, linked, runner, caughtUp, owed, jobMishaps>>

(* Intent before creation. *)
WriteIntent ==
  /\ approval.pc = "intent"
  /\ question' = [question EXCEPT !.approved = TRUE, !.recovery = TRUE, !.pending = approval.asked]
  /\ Approve("create")
  /\ UNCHANGED <<jobs, linked, runner, caughtUp, owed, jobMishaps>>

CreatePlayer ==
  /\ approval.pc = "create" /\ linked' = TRUE /\ Approve("link")
  /\ UNCHANGED <<jobs, question, runner, caughtUp, owed, jobMishaps>>

LinkQuestion ==
  /\ approval.pc = "link"
  /\ question' = [question EXCEPT !.player = TRUE, !.approved = TRUE, !.recovery = TRUE,
                  !.pending = approval.asked]
  /\ owed' = approval.asked /\ Approve("recover")
  /\ UNCHANGED <<jobs, linked, runner, caughtUp, jobMishaps>>

(* recoverSourcePlayers: a job for every league that waits. *)
RecoverLeagues ==
  /\ approval.pc = "recover"
  /\ jobs' = IF question.recovery THEN Queued(jobs, question.pending) ELSE jobs
  /\ approval' = NoApproval
  /\ UNCHANGED <<question, linked, runner, caughtUp, owed, jobMishaps>>

(* The roster pass ends with the same recovery. *)
RosterPass ==
  /\ approval.pc = "idle" /\ question.recovery /\ question.player
  /\ \E l \in question.pending : jobs[l] \notin Active
  /\ jobs' = Queued(jobs, question.pending)
  /\ UNCHANGED <<question, linked, runner, approval, caughtUp, owed, jobMishaps>>

-----------------------------------------------------------------------------
WorkerRestarts ==
  /\ runner.pc # "idle" /\ jobMishaps < MaxJobMishaps
  /\ jobMishaps' = jobMishaps + 1 /\ runner' = NoRun
  /\ UNCHANGED <<jobs, question, linked, approval, caughtUp, owed>>

ApprovalDies ==
  /\ approval.pc # "idle" /\ jobMishaps < MaxJobMishaps
  /\ jobMishaps' = jobMishaps + 1 /\ approval' = NoApproval
  /\ UNCHANGED <<jobs, question, linked, runner, caughtUp, owed>>

Processes ==
  ListJobs \/ QueueDone \/ MarkRunning \/ LoadPool \/ ReadQuestion \/ WriteQuestion
    \/ MarkOutcome \/ ReadRecovery \/ WriteRecovery

Approves ==
  ResumeApproval \/ ReadForApproval \/ WriteIntent \/ CreatePlayer \/ LinkQuestion
    \/ RecoverLeagues

JobNext ==
  QueueLeague \/ Processes \/ SyncFails \/ MarkingFails \/ StartApproval \/ Approves \/ RosterPass
    \/ WorkerRestarts \/ ApprovalDies

JobSpec == JobInit /\ [][JobNext]_jobVars

(* Fair: Processes, Approves and RosterPass - the worker's pass, an approval  *)
(* that lives and the daily roster pass go on.                                *)
-----------------------------------------------------------------------------
JobTypeOK ==
  /\ \A l \in Leagues : jobs[l] \in Active \cup {"none", "applied", "blocked", "failed"}
  /\ question.leagues \subseteq Leagues /\ question.pending \subseteq Leagues
  /\ question.player => linked

(* "Queued is not recovered: a running job may already have read old          *)
(* mappings": a league the approval wrote down leaves the pending list only   *)
(* once a job of its own, that read the new link, has applied - also when the *)
(* approval's job was coalesced with one already running, failed, or died.    *)
RecoveryIsNotLost == owed \subseteq caughtUp \cup question.pending

(* A league an approval counts as waiting - from its first written intent,    *)
(* also when the approval then died - applies a job that reads the link.      *)
EveryLeagueCatchesUp == \A l \in Leagues : l \in question.pending ~> l \in caughtUp
=============================================================================
