------------------------------- MODULE SyncClock -------------------------------
(***************************************************************************)
(* When the official rosters are read (fantasy/windows.ts): the freeze of  *)
(* a round taken from its tip-offs, one read per game day, a retry after a *)
(* failed one, a last read once the round has settled, and a preview every *)
(* few hours between rounds.                                               *)
(*                                                                         *)
(* A window is [round, lockAt, closesAt, settledAt, days], in units of     *)
(* time; a run is [round, ranAt, status].                                  *)
(***************************************************************************)
EXTENDS Integers, FiniteSets, FiniteSetsExt

CONSTANTS ApplyAfterLock, CloseAfterLastTip, SettleAfterLastTip, PreviewEvery, RetryFailed,
          RoundSpan, DayLength

(* Times are naturals; a round settles after it has closed, and no sooner    *)
(* after its last tip-off than its freeze holds after the first.             *)
ASSUME SyncAssumption ==
  /\ {ApplyAfterLock, CloseAfterLastTip, SettleAfterLastTip, RoundSpan, DayLength} \subseteq Nat
  /\ {PreviewEvery, RetryFailed} \subseteq Nat \ {0}
  /\ CloseAfterLastTip < SettleAfterLastTip /\ ApplyAfterLock <= SettleAfterLastTip

DayOf(at) == at \div DayLength

(* One round's window from its tip-offs; a game beyond the span is a         *)
(* postponement.                                                             *)
RoundWindow(round, tipOffs) ==
  LET lockAt == Min(tipOffs)
      tips == {t \in tipOffs : t <= lockAt + RoundSpan}
  IN  [round |-> round, lockAt |-> lockAt,
       closesAt |-> Max(tips) + CloseAfterLastTip, settledAt |-> Max(tips) + SettleAfterLastTip,
       days |-> {t \in tips : \A s \in tips : s < t => DayOf(s) # DayOf(t)}]

(* The first window whose freeze holds. *)
SyncModeAt(now, windows) ==
  LET frozen == {w \in windows : now \in w.lockAt + ApplyAfterLock..w.closesAt}
      ahead == {w \in windows : w.lockAt > now}
      first(ws) == CHOOSE w \in ws : \A v \in ws : w.lockAt <= v.lockAt
  IN  IF frozen # {} THEN [mode |-> "apply", round |-> first(frozen).round]
      ELSE [mode |-> "preview", round |-> IF ahead = {} THEN 0 ELSE first(ahead).round]

Elapsed(now, runs, wait) == runs = {} \/ now - Max({run.ranAt : run \in runs}) >= wait

(* A failed try counts as the day's read. *)
DayUnreadOnce(now, window, runs) ==
  LET begun == {at \in window.days : now >= at + ApplyAfterLock}
  IN  begun # {} /\ {run \in runs : run.ranAt >= Max(begun) + ApplyAfterLock} = {}

DayUnread(now, window, runs) ==
  LET begun == {at \in window.days : now >= at + ApplyAfterLock}
      since == {run \in runs : run.ranAt >= Max(begun) + ApplyAfterLock}
  IN  /\ begun # {}
      /\ \A run \in since : run.status \in {"failed", "blocked"}
      /\ Elapsed(now, since, RetryFailed)

SyncDue(now, decision, windows, applyRuns, lastRuns) ==
  IF decision.mode = "apply"
  THEN DayUnread(now, CHOOSE w \in windows : w.round = decision.round, applyRuns)
  ELSE Elapsed(now, lastRuns, PreviewEvery)

(* One round's lineups, read by the clock or because a person asked. *)
RoundDue(now, window, runs, force) ==
  LET sinceSettled == {run \in runs : run.ranAt >= window.settledAt}
  IN  /\ now >= window.lockAt + ApplyAfterLock
      /\ IF now <= window.closesAt THEN force \/ DayUnread(now, window, runs)
         ELSE IF now < window.settledAt THEN force
         ELSE \/ sinceSettled = {}
              \/ /\ \A run \in sinceSettled : run.status # "applied"
                 /\ force \/ Elapsed(now, runs, PreviewEvery)

LineupRoundsDue(now, windows, runs, force) ==
  {w.round : w \in {v \in windows :
     RoundDue(now, v, {run \in runs : run.round = v.round}, force)}}

(* One BasketNews job reads every open round, so its runs count for each.    *)
BasketNewsDue(now, windows, runs) ==
  \/ \E w \in windows : RoundDue(now, w, runs, FALSE)
  \/ /\ \A w \in windows : now \notin w.lockAt..w.settledAt - 1
     /\ Elapsed(now, runs, PreviewEvery)
=============================================================================
