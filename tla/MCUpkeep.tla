------------------------------- MODULE MCUpkeep -------------------------------
(***************************************************************************)
(* What the worker keeps right about a league day after day: the write-ups *)
(* and the positions read from a fantasy game, one at a time, chosen by    *)
(* scene.                                                                  *)
(***************************************************************************)
EXTENDS WriteUps, PositionQuestions, TLC

CONSTANT Scenes     \* the scenes a run plays: "write-ups", "questions"

VARIABLE scene

upkeepVars == <<scene, writeVars, questionVars>>

MCSupports == <<1, 2>>
(* A row alone may spend its three attempts, and then be asked for. *)
MCScopes   == {[kinds |-> {"round"}, rounds |-> 1, troubles |-> 4],
               [kinds |-> {"brief"}, rounds |-> 2, troubles |-> 3],
               [kinds |-> {"round"}, rounds |-> 2, troubles |-> 2],
               [kinds |-> {"round", "brief"}, rounds |-> 1, troubles |-> 2],
               [kinds |-> {"scout"}, rounds |-> 1, troubles |-> 4]}
MCOwn      == [player \in 1..2 |-> "G"]
MCCounts   == "G" :> 1 @@ "F" :> 1
MCListings == {[player \in 1..2 |-> IF player = 1 THEN "G" ELSE x] : x \in {"none", "G", "F"}}

UpkeepInit ==
  /\ scene \in Scenes
  /\ WriteInit /\ (scene # "write-ups" => scope = CHOOSE s \in Scopes : TRUE)
  /\ QuestionInit /\ (scene # "questions" => listing = CHOOSE l \in Listings : TRUE)

UpkeepNext ==
  \/ scene = "write-ups" /\ WriteNext /\ UNCHANGED <<scene, questionVars>>
  \/ scene = "questions" /\ QuestionNext /\ UNCHANGED <<scene, writeVars>>

(* The passes fire again and again, and each finds its lock free in the end. *)
WriteUpsAreFair ==
  /\ SF_writeVars(scene = "write-ups" /\ StartPass) /\ SF_writeVars(scene = "write-ups" /\ StartRequests)
  /\ WF_writeVars(scene = "write-ups" /\ WriterGoesOn)
  /\ WF_writeVars(scene = "write-ups" /\ TextsAge) /\ WF_writeVars(scene = "write-ups" /\ ClaimsGoStale)

(* A pass reads every league that is due. *)
QuestionsAreFair ==
  /\ WF_questionVars(scene = "questions" /\ ReadGoesOn) /\ WF_questionVars(scene = "questions" /\ ReadingsAge)
  /\ \A l \in LinkedLeagues : SF_questionVars(scene = "questions" /\ PlanPositionRead(l))

UpkeepSpec == UpkeepInit /\ [][UpkeepNext]_upkeepVars /\ WriteUpsAreFair /\ QuestionsAreFair
-----------------------------------------------------------------------------
(* Position questions come to rest wherever reads and answers go on: every   *)
(* disagreement that stands is asked about, and nothing else is.             *)
QuestionsComeToRest == scene = "questions" => QuestionsSettle
=============================================================================
