----------------------------- MODULE WorkerPasses -----------------------------
(***************************************************************************)
(* The worker process: its passes on their timers, each behind a lock, the *)
(* one superuser session they share (worker/passes.ts), the sweep's tick   *)
(* with the same guard, and the shutdown that waits for what is in flight  *)
(* (worker/index.ts).  PM2 starts the process again when it exits.         *)
(***************************************************************************)
EXTENDS Integers

CONSTANTS
  Passes,             \* the scheduled passes and the sweep
  LockOf,             \* pass to the lock it holds while in flight
  MaxTokenLosses,     \* times the database stops accepting a token
  MaxLoginFailures, MaxStops

VARIABLES
  pass,       \* pass to "idle", "login", "run" or "failing"
  token,      \* "good", "refused" by the database, "expired" as the clock shows
  stale,      \* a refused request marked the session
  login,      \* a login is under way
  stop,       \* "no", "draining", or how the process ended: "clean", "late"
  awaited,    \* what the drain waits for
  losses, loginFailures, stops

passVars == <<pass, token, stale, login, stop, awaited, losses, loginFailures, stops>>
counts == <<losses, loginFailures, stops>>

NoPass == [p \in Passes |-> "idle"]

PassInit ==
  /\ pass = NoPass /\ token = "expired" /\ stale = FALSE /\ login = FALSE
  /\ stop = "no" /\ awaited = {}
  /\ losses = 0 /\ loginFailures = 0 /\ stops = 0

InFlight == {p \in Passes : pass[p] # "idle"}
LockFree(p) == \A q \in InFlight : LockOf[q] # LockOf[p]

(* A timer that fires while the process drains starts its pass all the same. *)
FireRegardless(p) ==
  /\ stop \in {"no", "draining"} /\ LockFree(p)
  /\ LET needed == stale \/ token = "expired"
     IN  /\ pass' = [pass EXCEPT ![p] = IF needed THEN "login" ELSE "run"]
         /\ login' = (login \/ needed)
  /\ UNCHANGED <<token, stale, stop, awaited, counts>>

(* fire, and ensure: a login that is under way is shared. *)
Fire(p) ==
  /\ stop = "no" /\ LockFree(p)
  /\ LET needed == stale \/ token = "expired"
     IN  /\ pass' = [pass EXCEPT ![p] = IF needed THEN "login" ELSE "run"]
         /\ login' = (login \/ needed)
  /\ UNCHANGED <<token, stale, stop, awaited, counts>>

LoggedIn ==
  /\ login /\ stop \in {"no", "draining"}
  /\ login' = FALSE /\ token' = "good" /\ stale' = FALSE
  /\ pass' = [p \in Passes |-> IF pass[p] = "login" THEN "run" ELSE pass[p]]
  /\ UNCHANGED <<stop, awaited, counts>>

(* Whoever shares the login fails with it; the next pass tries again. *)
LoginFails ==
  /\ login /\ stop \in {"no", "draining"} /\ loginFailures < MaxLoginFailures
  /\ loginFailures' = loginFailures + 1
  /\ login' = FALSE
  /\ pass' = [p \in Passes |-> IF pass[p] = "login" THEN "idle" ELSE pass[p]]
  /\ UNCHANGED <<token, stale, stop, awaited, losses, stops>>

(* A pass that throws nothing, or whose feed was down: nothing is noted.     *)
(* That is so on a refused token as well, for a list under an auth rule      *)
(* hands a guest "200 and no rows"; the sweep may find no draft to look at.  *)
PassReturns(p) ==
  /\ pass[p] = "run" /\ stop \in {"no", "draining"}
  /\ pass' = [pass EXCEPT ![p] = "idle"]
  /\ UNCHANGED <<token, stale, login, stop, awaited, counts>>

(* A request answered 401 or 403; also where the time of a token that was   *)
(* about to lapse is up before the pass is done.                            *)
RequestRefused(p) ==
  /\ pass[p] = "run" /\ token # "good" /\ stop \in {"no", "draining"}
  /\ pass' = [pass EXCEPT ![p] = "failing"]
  /\ UNCHANGED <<token, stale, login, stop, awaited, counts>>

(* The failure is counted and forgotten: the token looks good until it lapses. *)
NoteNothing(p) ==
  /\ pass[p] = "failing" /\ stop \in {"no", "draining"}
  /\ pass' = [pass EXCEPT ![p] = "idle"]
  /\ UNCHANGED <<token, stale, login, stop, awaited, counts>>

NoteFailure(p) ==
  /\ pass[p] = "failing" /\ stop \in {"no", "draining"}
  /\ pass' = [pass EXCEPT ![p] = "idle"] /\ stale' = TRUE
  /\ UNCHANGED <<token, login, stop, awaited, counts>>

(* The token nears its end, be it accepted until then or not, or the         *)
(* database no longer accepts it.                                            *)
TokenLost ==
  /\ token # "expired" /\ stop \in {"no", "draining"} /\ losses < MaxTokenLosses
  /\ losses' = losses + 1 /\ token' \in {"expired", "refused"} \ {token}
  /\ UNCHANGED <<pass, stale, login, stop, awaited, loginFailures, stops>>

-----------------------------------------------------------------------------
(* shutdown and drain *)

Shutdown ==
  /\ stop = "no" /\ stops < MaxStops
  /\ stops' = stops + 1 /\ stop' = "draining" /\ awaited' = InFlight
  /\ UNCHANGED <<pass, token, stale, login, losses, loginFailures>>

DrainEnds ==
  /\ stop = "draining" /\ \A p \in awaited : pass[p] = "idle"
  /\ stop' = "clean"
  /\ UNCHANGED <<pass, token, stale, login, awaited, counts>>

DeadlinePassed ==
  /\ stop = "draining" /\ \E p \in awaited : pass[p] # "idle"
  /\ stop' = "late"
  /\ UNCHANGED <<pass, token, stale, login, awaited, counts>>

StartAgain ==
  /\ stop \in {"clean", "late"}
  /\ pass' = NoPass /\ token' = "expired" /\ stale' = FALSE /\ login' = FALSE
  /\ stop' = "no" /\ awaited' = {}
  /\ UNCHANGED counts

-----------------------------------------------------------------------------
PassNext ==
  \/ \E p \in Passes : Fire(p) \/ PassReturns(p) \/ RequestRefused(p) \/ NoteFailure(p)
  \/ LoggedIn \/ LoginFails \/ TokenLost
  \/ Shutdown \/ DrainEnds \/ DeadlinePassed \/ StartAgain

PassSpec == PassInit /\ [][PassNext]_passVars

(* Fair: timers fire, requests end, a drain ends, a process is started again. *)
PassGoesOn(p) == PassReturns(p) \/ RequestRefused(p) \/ NoteFailure(p)
DrainGoesOn   == DrainEnds \/ DeadlinePassed

-----------------------------------------------------------------------------
PassTypeOK ==
  /\ pass \in [Passes -> {"idle", "login", "run", "failing"}] /\ awaited \subseteq Passes
  /\ token \in {"good", "refused", "expired"} /\ stale \in BOOLEAN /\ login \in BOOLEAN
  /\ stop \in {"no", "draining", "clean", "late"}

(* The token is never cleared, only replaced.  While passes run, one whose   *)
(* time is up is; and so is one that a pass was refused over, by 401 or 403, *)
(* though any number of passes may find out, log in or fail to at the same   *)
(* time, a refusal may be noted after the login that answered it, and the    *)
(* process may be restarted.  Of a token that the database refuses while every pass only    *)
(* reads lists, and so is answered with no rows, nothing is promised before  *)
(* its time is up.                                                           *)
SessionRecovers ==
  /\ (InFlight # {} /\ token = "expired") ~> token = "good"
  /\ (\E p \in Passes : pass[p] = "failing") ~> token = "good"

(* "stopped" is logged only by a process with nothing in flight: no pass      *)
(* started after the drain looked, none still waiting for the shared login.   *)
CleanStop == stop = "clean" => InFlight = {}
=============================================================================
