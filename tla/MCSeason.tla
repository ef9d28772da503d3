------------------------------- MODULE MCSeason -------------------------------
(***************************************************************************)
(* One behaviour of the season at a time, chosen by scene: the parts share *)
(* no state within the bounds, so a run over all of them would only        *)
(* multiply their interleavings.  The scenes of one part differ in their   *)
(* budgets of crashes, failures and hand moves, or in the manager's calls. *)
(***************************************************************************)
EXTENDS SeasonRosters, LeagueLobby, StatImports, BasketNewsJobs, WorkerPasses

CONSTANTS
  Second,     \* the web process's sync, the second of Syncers
  Scenes      \* the scenes a run plays

VARIABLE scene

RosterScenes == {"two syncs", "one sync"}
LobbyScenes  == {"lobby", "order", "deletion"}

MCPosition == [p \in 1..3 |-> "G"]
MCSlots    == [position \in {"G"} |-> 1]
MCOpening  == 1 :> {1} @@ 2 :> {2}
MCOfficial == {MCOpening, 1 :> {3} @@ 2 :> {2}}
MCLines    == "g1" :> {1, 2} @@ "g2" :> {3}
MCDraws    == 1 :> <<1, 2>> @@ 2 :> <<1, 1>>
MCLocks    == "sweep" :> "sweep" @@ "write-ups" :> "ai" @@ "rewrite" :> "ai"

ControlsOf(s) ==
  CASE s = "lobby"    -> {"roll", "reshuffle", "kick", "start", "reset"}
    [] s = "order"    -> {"roll", "manual", "start"}
    [] s = "deletion" -> {"roll", "start", "delete"}

(* Two syncs and a crash in the last round; or, over the rounds, one sync, a *)
(* crash, a failed fetch and a drop.                                         *)
ChooseBudgets ==
  IF scene = "two syncs"
  THEN /\ crashes = 0 /\ failures = MaxFailures /\ handMoves = MaxHandMoves
       /\ actor = [a \in Writers |-> Resting]
  ELSE /\ crashes = 0 /\ failures = 0 /\ handMoves = 0
       /\ actor = [a \in Writers |-> IF a = Second THEN [Resting EXCEPT !.pc = "away"] ELSE Resting]

SeasonInit ==
  /\ scene \in Scenes
  /\ ChooseBudgets /\ RosterStart
  /\ round = (IF scene = "two syncs" THEN MaxRound ELSE 1)
  /\ (scene \in RosterScenes \/ official = OpeningRosters)
  /\ LobbyInit /\ StatInit /\ JobInit /\ PassInit

PlayRosters == scene \in RosterScenes /\ RosterNext
               /\ UNCHANGED <<scene, lobbyVars, statVars, jobVars, passVars>>
PlayLobby   == scene \in LobbyScenes /\ LobbyNext(ControlsOf(scene))
               /\ UNCHANGED <<scene, rosterVars, statVars, jobVars, passVars>>
PlayStats   == scene = "stats" /\ StatNext
               /\ UNCHANGED <<scene, rosterVars, lobbyVars, jobVars, passVars>>
PlayJobs    == scene = "jobs" /\ JobNext
               /\ UNCHANGED <<scene, rosterVars, lobbyVars, statVars, passVars>>
PlayPasses  == scene = "passes" /\ PassNext
               /\ UNCHANGED <<scene, rosterVars, lobbyVars, statVars, jobVars>>

SeasonNext == PlayRosters \/ PlayLobby \/ PlayStats \/ PlayJobs \/ PlayPasses

seasonVars == <<scene, rosterVars, lobbyVars, statVars, jobVars, passVars>>

(* Each part's fairness, in its scenes. *)
RostersAreFair ==
  /\ \A a \in Syncers : WF_rosterVars(scene \in RosterScenes /\ SyncGoesOn(a))
  /\ WF_rosterVars(scene \in RosterScenes /\ MoveGoesOn)

JobsAreFair ==
  /\ WF_jobVars(scene = "jobs" /\ Processes) /\ WF_jobVars(scene = "jobs" /\ Approves)
  /\ WF_jobVars(scene = "jobs" /\ RosterPass)

PassesAreFair ==
  /\ \A p \in Passes : /\ WF_passVars(scene = "passes" /\ Fire(p))
                       /\ WF_passVars(scene = "passes" /\ PassGoesOn(p))
  /\ WF_passVars(scene = "passes" /\ LoggedIn) /\ WF_passVars(scene = "passes" /\ DrainGoesOn)
  /\ WF_passVars(scene = "passes" /\ StartAgain)

(* Outside its scenes nothing in the lobby's fairness is ever enabled. *)
SeasonSpec ==
  /\ SeasonInit /\ [][SeasonNext]_seasonVars
  /\ RostersAreFair /\ JobsAreFair /\ PassesAreFair /\ LobbyFairness
  /\ WF_statVars(scene = "stats" /\ Imports)
=============================================================================
