------------------------------- MODULE WriteUps -------------------------------
(***************************************************************************)
(* What the model writes about a league (lib/ai): the summary of a round,  *)
(* a member's brief of it, a member's reasons to move.  Only the worker    *)
(* writes, one pass at a time: it claims a row, asks, and finishes the     *)
(* row, with no transaction over the three; the web process only marks     *)
(* rows the commissioner wants written again.                              *)
(*                                                                         *)
(* A sheet of facts is a version; text written from a version says what    *)
(* that version supports, and holds against another that supports the      *)
(* same.  Every row's sheet moves with the league's, and one member stands *)
(* for all: their rows share one call.                                     *)
(***************************************************************************)
EXTENDS Integers, Sequences, FiniteSets, SequencesExt

CONSTANTS
  Scopes,         \* [kinds, rounds, troubles]: what may be written, of "round",
                  \* "brief" and "scout", how many rounds finish, and the bound on
                  \* crashes of the worker, calls that throw, answers the guard
                  \* refuses and rewrites the commissioner asks for
  Supports        \* what each version of the sheet supports

VARIABLES
  scope,          \* the one of Scopes a behaviour is about
  sheet,          \* the version of the facts
  finished,       \* the last finished round, 0 before there is one
  written,        \* the rows of ai_writeups
  writer,         \* the worker: its pass, what is left of it, the row it holds
  asker,          \* a request of the commissioner's under way
  troubles        \* how many there have been

writeVars == <<scope, sheet, finished, written, writer, asker, troubles>>

MAX_ATTEMPTS == 3
CALLS_PER_PASS == 2
Keys == scope.kinds \X (1..scope.rounds)
RoundsOf(kind) == IF kind \in scope.kinds THEN 1..scope.rounds ELSE {}
NoText == 0
NoRow == [status |-> "none", hash |-> 0, text |-> NoText, attempts |-> 0, fresh |-> FALSE,
          due |-> FALSE, request |-> FALSE]
NoClaim == [key |-> <<"none", 0>>, previous |-> "none", attempts |-> 0, supports |-> NoText]
Unoccupied == [pc |-> "idle", jobs |-> <<>>, tasks |-> <<>>, calls |-> 0, corrected |-> FALSE, claim |-> NoClaim]

WriteInit ==
  /\ scope \in Scopes
  /\ sheet = 1 /\ finished = 0
  /\ written = [key \in Keys |-> NoRow]
  /\ writer = Unoccupied
  /\ asker = [pc |-> "idle", round |-> 0]
  /\ troubles = 0

Trouble == troubles < scope.troubles /\ troubles' = troubles + 1

FreshClaim(row) == row.status = "pending" /\ row.fresh
Spent(row) == row.status = "failed" /\ row.attempts >= MAX_ATTEMPTS
NotDue(row) == FreshClaim(row) \/ Spent(row)
Holds(row) == row.text = Supports[sheet]

-----------------------------------------------------------------------------
(* Passes *)

(* A dead writer's claims are left alone. *)
ReleaseNothing(rows) == rows

ReleaseStaleClaims(rows) ==
  [key \in Keys |-> IF rows[key].status # "pending" \/ rows[key].fresh THEN rows[key]
                    ELSE [rows[key] EXCEPT !.status = IF rows[key].text # NoText THEN "ready" ELSE "failed"]]

BeginPass(jobs, tasks) ==
  [Unoccupied EXCEPT !.pc = "pass", !.jobs = jobs, !.tasks = tasks, !.calls = CALLS_PER_PASS]

Task(kind, key) == [kind |-> kind, key |-> key]
Over(what, kind, rounds) ==
  LET order == SetToSortSeq(rounds, <) IN [i \in DOMAIN order |-> Task(what, <<kind, order[i]>>)]

(* The fifteen-minute pass: the rounds, the briefs, the scout's reasons.     *)
StartPass ==
  /\ writer.pc = "idle"
  /\ written' = ReleaseStaleClaims(written)
  /\ writer' = BeginPass(<<"rounds", "briefs", "scout">>, <<>>)
  /\ UNCHANGED <<scope, sheet, finished, asker, troubles>>

(* The one-minute check: the requests are read once, rounds go first. *)
StartRequests ==
  LET asked(kind) == {r \in RoundsOf(kind) : LET row == written[<<kind, r>>] IN row.request /\ ~FreshClaim(row)}
      tasks == Over("request", "round", asked("round")) \o Over("request", "brief", asked("brief"))
  IN  /\ writer.pc = "idle" /\ tasks # <<>>
      /\ writer' = BeginPass(<<>>, tasks)
      /\ UNCHANGED <<scope, sheet, finished, written, asker, troubles>>

(* What a job finds to do.  Rounds: every finished one without text, then    *)
(* the texts there already were; briefs: the latest round's, then the texts  *)
(* there are by then; reasons: the latest round's.                           *)
TasksOf(job) ==
  LET rows(kind) == RoundsOf(kind) \cap (1..finished)
      ready(kind) == {r \in rows(kind) : written[<<kind, r>>].status = "ready"}
      open(kind) == {r \in rows(kind) \ ready(kind) : ~NotDue(written[<<kind, r>>])}
  IN  CASE job = "rounds" -> Over("write", "round", open("round")) \o Over("reguard", "round", ready("round"))
        [] job = "briefs" -> Over("write", "brief", open("brief") \cap {finished})
                               \o Over("reguard", "brief", rows("brief"))
        [] job = "scout"  -> Over("scout", "scout", rows("scout") \cap {finished})

NextWriting ==
  /\ writer.pc = "pass" /\ writer.tasks = <<>>
  /\ writer' = IF writer.jobs = <<>> THEN Unoccupied
               ELSE [writer EXCEPT !.jobs = Tail(@), !.tasks = TasksOf(Head(writer.jobs)),
                                   !.corrected = FALSE]
  /\ UNCHANGED <<scope, sheet, finished, written, asker, troubles>>

-----------------------------------------------------------------------------
(* One row *)

GoOnWith(tasks) == writer' = [writer EXCEPT !.tasks = tasks]
Skip == GoOnWith(Tail(writer.tasks)) /\ UNCHANGED written

(* claimWriteup: unless forced, not a row that is written from this sheet,   *)
(* that somebody writes, or that was refused too often on this sheet.        *)
ClaimWriteup(key, force) ==
  LET row == written[key]
      same == row.status # "none" /\ row.hash = sheet
      attempts == IF same THEN row.attempts + 1 ELSE 1
  IN  IF ~force /\ ((row.status = "ready" /\ same) \/ FreshClaim(row) \/ (Spent(row) /\ same))
      THEN Skip
      ELSE /\ written' = [written EXCEPT ![key] =
                [@ EXCEPT !.status = "pending", !.hash = sheet, !.attempts = attempts, !.fresh = TRUE]]
           /\ writer' = [writer EXCEPT !.pc = "asking", !.tasks = Tail(@), !.calls = @ - 1,
                           !.claim = [key |-> key, previous |-> row.status, attempts |-> attempts,
                                      supports |-> Supports[sheet]]]

(* Checked as of the start of the job: a correction since then still counts. *)
MarkGuarded(key) ==
  /\ written' = [written EXCEPT ![key] =
       [@ EXCEPT !.due = writer.corrected /\ key[1] # "scout"]]
  /\ GoOnWith(Tail(writer.tasks))

WriteMissing(key) ==
  IF writer.calls = 0
  THEN GoOnWith(SelectSeq(Tail(writer.tasks), LAMBDA t : key[1] = "brief" /\ t.kind = "reguard")) /\ UNCHANGED written
  ELSE ClaimWriteup(key, FALSE)

(* Text that was checked a day ago, or before a correction, is checked       *)
(* again, and written again when it no longer holds.                         *)
Reguard(key) ==
  LET row == written[key]
  IN  IF row.status # "ready" \/ ~row.due THEN Skip
      ELSE IF Holds(row) THEN MarkGuarded(key)
      ELSE IF writer.calls > 0 THEN ClaimWriteup(key, TRUE)
      ELSE IF key[1] = "round" THEN GoOnWith(<<>>) /\ UNCHANGED written ELSE Skip

(* Reasons are only looked at again when their sheet has another hash.       *)
ScoutReasons(key) ==
  LET row == written[key]
  IN  IF writer.calls = 0 \/ (row.status # "ready" /\ NotDue(row)) THEN Skip
      ELSE IF row.status # "ready" THEN ClaimWriteup(key, FALSE)
      ELSE IF row.hash = sheet \/ ~row.due THEN Skip
      ELSE IF Holds(row) THEN MarkGuarded(key)
      ELSE ClaimWriteup(key, FALSE)

WriteRequested(key) ==
  IF writer.calls = 0 THEN GoOnWith(<<>>) /\ UNCHANGED written ELSE ClaimWriteup(key, TRUE)

DoTask ==
  /\ writer.pc = "pass" /\ writer.tasks # <<>>
  /\ LET task == Head(writer.tasks)
     IN  \/ task.kind = "write"   /\ WriteMissing(task.key)
         \/ task.kind = "reguard" /\ Reguard(task.key)
         \/ task.kind = "scout"   /\ ScoutReasons(task.key)
         \/ task.kind = "request" /\ WriteRequested(task.key)
  /\ UNCHANGED <<scope, sheet, finished, asker, troubles>>

FinishRow(row) ==
  /\ writer.pc = "asking"
  /\ written' = [written EXCEPT ![writer.claim.key] = row]
  /\ UNCHANGED <<scope, sheet, finished, asker>>

Claimed == written[writer.claim.key]
Resume == [writer EXCEPT !.pc = "pass", !.claim = NoClaim]

(* New text counts as checked, but not where its row was checked before: the *)
(* date of that check, which is left out, stands.                            *)
CompleteWriteup ==
  /\ \E kept \in BOOLEAN :
       FinishRow([Claimed EXCEPT !.status = "ready", !.text = writer.claim.supports,
                              !.request = FALSE, !.due = @ /\ kept])
  /\ writer' = Resume
  /\ UNCHANGED troubles

FailWriteup ==
  /\ Trouble
  /\ FinishRow([Claimed EXCEPT !.status = "failed", !.request = FALSE])
  /\ writer' = Resume

(* The call threw.  An outage gives the attempt back and ends the pass; any  *)
(* other fault ends its job, and the requests are one job.                   *)
AbandonClaim(outage) ==
  /\ Trouble
  /\ FinishRow([Claimed EXCEPT !.status = IF writer.claim.previous = "ready" THEN "ready" ELSE "failed",
                            !.attempts = IF outage THEN writer.claim.attempts - 1 ELSE @])
  /\ writer' = IF outage THEN Unoccupied ELSE [Resume EXCEPT !.tasks = <<>>]

WriterDies ==
  /\ writer.pc # "idle" /\ Trouble
  /\ writer' = Unoccupied
  /\ UNCHANGED <<scope, sheet, finished, written, asker>>

-----------------------------------------------------------------------------
(* requestRoundRewrite: the briefs are marked first, the round last. *)

RequestRewrite ==
  /\ asker.pc = "idle" /\ Trouble
  /\ \E r \in RoundsOf("round") :
       /\ written[<<"round", r>>].status \notin {"none", "pending"}
       /\ asker' = [pc |-> "brief", round |-> r]
  /\ UNCHANGED <<scope, sheet, finished, written, writer>>

Mark ==
  LET key == <<asker.pc, asker.round>>
  IN  /\ asker.pc # "idle"
      /\ written' = [k \in Keys |-> [written[k] EXCEPT !.request = @ \/ (k = key /\ written[k].status # "none")]]
      /\ asker' = [asker EXCEPT !.pc = IF @ = "brief" THEN "round" ELSE "idle"]
      /\ UNCHANGED <<scope, sheet, finished, writer, troubles>>

MarkFails ==
  /\ asker.pc # "idle"
  /\ asker' = [asker EXCEPT !.pc = "idle"]
  /\ UNCHANGED <<scope, sheet, finished, written, writer, troubles>>

-----------------------------------------------------------------------------
(* The season and the clock *)

RoundFinishes ==
  /\ finished < scope.rounds
  /\ finished' = finished + 1
  /\ UNCHANGED <<scope, sheet, written, writer, asker, troubles>>

(* The facts move: with a correction of stored lines, which makes every      *)
(* summary and brief due, or by what only the sheet says.                    *)
SheetMoves(correction) ==
  /\ sheet < Len(Supports)
  /\ sheet' = sheet + 1
  /\ IF correction
     THEN /\ written' = [key \in Keys |-> [written[key] EXCEPT !.due =
                           @ \/ (key[1] # "scout" /\ written[key].status # "none")]]
          /\ writer' = [writer EXCEPT !.corrected = TRUE]
     ELSE UNCHANGED <<written, writer>>
  /\ UNCHANGED <<scope, finished, asker, troubles>>

TextsAge ==
  /\ \E key \in Keys : written[key].status # "none" /\ ~written[key].due
  /\ written' = [key \in Keys |-> [written[key] EXCEPT !.due = written[key].status # "none"]]
  /\ UNCHANGED <<scope, sheet, finished, writer, asker, troubles>>

(* A call answers, or is given up, long before its claim is presumed dead.   *)
ClaimsGoStale ==
  LET dead == {key \in Keys : FreshClaim(written[key]) /\ key # writer.claim.key}
  IN  /\ dead # {}
      /\ written' = [key \in Keys |-> [written[key] EXCEPT !.fresh = @ /\ key \notin dead]]
      /\ UNCHANGED <<scope, sheet, finished, writer, asker, troubles>>

WriterGoesOn == NextWriting \/ DoTask \/ CompleteWriteup \/ FailWriteup \/ \E o \in BOOLEAN : AbandonClaim(o)

WriteNext ==
  \/ StartPass \/ StartRequests \/ WriterGoesOn \/ WriterDies
  \/ RequestRewrite \/ Mark \/ MarkFails
  \/ RoundFinishes \/ (\E c \in BOOLEAN : SheetMoves(c)) \/ TextsAge \/ ClaimsGoStale

-----------------------------------------------------------------------------
(* Properties *)

Current(key) == (written[key].status = "ready" /\ Holds(written[key])) \/ Spent(written[key])

(* Whatever dies, is refused or is asked for, the passes come to an end of   *)
(* it: no row is left claimed, no request unanswered, and every finished     *)
(* round's summary and the latest round's brief say what the facts support,  *)
(* unless their attempts are spent (store.ts, round-pass.ts, brief-pass.ts). *)
WriteupsSettle ==
  <>[](/\ \A key \in Keys : written[key].status # "pending" /\ ~written[key].request
       /\ \A key \in Keys : (key[1] = "round" /\ key[2] <= finished) \/ key = <<"brief", finished>> => Current(key))

(* "Prose stays written (the re-guard checks it again)" (store.ts): reasons  *)
(* that no longer hold are found and written again.                          *)
ReasonsSettle == <>[](finished > 0 => Current(<<"scout", finished>>))
=============================================================================
