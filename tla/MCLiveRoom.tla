------------------------------ MODULE MCLiveRoom ------------------------------
(***************************************************************************)
(* A draft night, one part at a time, chosen by scene: the room the worker *)
(* sweeps, the pages on which it is watched and the chat beside it.        *)
(***************************************************************************)
EXTENDS MCDraftRoom, LiveStream, LeagueChat

CONSTANT Scenes     \* the scenes a run plays: "room", "pages", "chat"

VARIABLE scene

nightVars == <<scene, vars, streamVars, chatVars>>

NightInit == scene \in Scenes /\ Init /\ StreamInit /\ ChatInit

NightNext ==
  \/ scene = "room" /\ Next /\ UNCHANGED <<scene, streamVars, chatVars>>
  \/ scene = "pages" /\ StreamNext /\ UNCHANGED <<scene, vars, chatVars>>
  \/ scene = "chat" /\ ChatNext /\ UNCHANGED <<scene, vars, streamVars>>

(* PM2 keeps the worker sweeping once a second and time passes; nobody       *)
(* else's step is promised.                                                  *)
RoomIsSwept == WF_vars(scene = "room" /\ Sweep) /\ WF_vars(scene = "room" /\ ClockRunsOut)

(* The network comes back in the end, a sent event arrives while its stream  *)
(* is up, timers run out and a request is answered.  Nobody has to look at   *)
(* the page, write or navigate.                                              *)
PagesAreServed ==
  /\ WF_streamVars(scene = "pages" /\ StreamGoesOn)
  /\ \A s \in Surfaces : WF_streamVars(scene = "pages" /\ SurfaceGoesOn(s))

NightSpec == NightInit /\ [][NightNext]_nightVars /\ RoomIsSwept /\ PagesAreServed
-----------------------------------------------------------------------------
(* The worker finishes every draft that is live, whoever stays away and      *)
(* whatever fails (worker/sweep.ts).                                         *)
DraftsFinish == scene = "room" => DraftFinishes

(* Pages come to rest wherever the network does: a page somebody looks at    *)
(* shows the database, says that it may be behind, or is at sign-in, and its *)
(* stream is up (lib/pb/browser.ts, use-live.ts).  The lobby's list alone    *)
(* may be behind without saying so: where a re-read failed and no event and  *)
(* no connect has asked for another since (live-lobby.tsx:129-133).          *)
PagesComeToRest == scene = "pages" => ScreensCatchUp
=============================================================================
