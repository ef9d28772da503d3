------------------------------ MODULE SeasonRosters ------------------------------
(***************************************************************************)
(* A season's rosters follow the official ones.  The worker's pass and a   *)
(* manager's "Sync now" both run runFantasySync (fantasy/store.ts) request *)
(* by request: finish what an interrupted run left, read the official      *)
(* rosters and ours, plan the difference, store the plan, carry it out row *)
(* by row (applyTransaction, memberships/store.ts), give the verdict.  A   *)
(* manager may record a move by hand.  Any of them may die between two     *)
(* requests.                                                               *)
(*                                                                         *)
(* Assumed: official rosters change only between rounds and no run lasts   *)
(* that long (a sync writes only inside a round's freeze); a hand move is  *)
(* recorded for the current round.  Transactions rows are a set: two       *)
(* processes that both miss a row create it twice, and no window or verdict *)
(* depends on it.                                                          *)
(***************************************************************************)
EXTENDS RosterPlans

CONSTANTS
  Syncers, Manager,        \* the processes: the passes that sync, the manager who records
  Members, Players,        \* naturals
  PlayerPosition, Slots,   \* positions and the roster template, for a hand move
  OpeningRosters,          \* the rosters the draft left
  OfficialRosters,         \* what the official game may show in a round
  HandMoveKinds,           \* the moves recorded by hand: "trade", "drop", "add"
  MaxRound, MaxCrashes, MaxFailures, MaxHandMoves

(* A league drafts each player once; members and players are known by their  *)
(* place in the order of their names.                                        *)
ASSUME RosterAssumption ==
  /\ Members \subseteq Nat \ {0} /\ IsFiniteSet(Members)
  /\ Players \subseteq Nat \ {0} /\ IsFiniteSet(Players)
  /\ OpeningRosters \in [Members -> SUBSET Players]
  /\ \A m, n \in Members : m # n => OpeningRosters[m] \cap OpeningRosters[n] = {}
  /\ OfficialRosters \subseteq [Members -> SUBSET Players]
  /\ MaxRound \in Nat

VARIABLES
  round,       \* the round whose freeze holds
  official,    \* the official rosters, member to players
  windows,     \* roster_memberships: a sequence of [member, player, from, to], to 0 while open
  rows,        \* the transactions rows stored
  applying,    \* fantasy_syncs reports in status applying: [no, steps]
  reports,     \* how many reports were stored
  actor,       \* what each process is doing
  crashes, failures, handMoves

rosterVars ==
  <<round, official, windows, rows, applying, reports, actor, crashes, failures, handMoves>>

Writers == Syncers \cup {Manager}

Resting == [pc |-> "idle", queue |-> <<>>, steps |-> <<>>, todo |-> {}, held |-> {},
            report |-> 0, resumed |-> FALSE]

RowOf(step) == [type |-> step.type, fromRound |-> step.fromRound, members |-> step.members,
                playersOut |-> step.playersOut, playersIn |-> step.playersIn]

(* listActiveMemberships, as seats. *)
OpenWindows == {i \in DOMAIN windows : windows[i].to = 0}
Seats ==
  {[id |-> i, member |-> windows[i].member, player |-> windows[i].player] : i \in OpenWindows}

NewWindow(member, player, from) == [member |-> member, player |-> player, from |-> from, to |-> 0]

(* The rosters as the draft left them, before any process has begun. *)
RosterStart ==
  /\ round \in 1..MaxRound /\ official \in OfficialRosters
  /\ windows = SetToSeq({NewWindow(mp[1], mp[2], 1) : mp \in
                 {q \in Members \X Players : q[2] \in OpeningRosters[q[1]]}})
  /\ rows = {} /\ applying = {} /\ reports = 0

RosterInit ==
  /\ RosterStart
  /\ actor = [a \in Writers |-> Resting]
  /\ crashes = 0 /\ failures = 0 /\ handMoves = 0

Become(a, state) == actor' = [actor EXCEPT ![a] = state]
Go(a, pc) == Become(a, [actor[a] EXCEPT !.pc = pc])
Elsewhere == UNCHANGED <<round, official, crashes, failures, handMoves>>
Stored == UNCHANGED <<windows, rows, applying, reports>>

-----------------------------------------------------------------------------
(* runFantasySync *)

(* Only the new plan counts: what an interrupted run left is never finished. *)
StartSyncAfresh(a) ==
  /\ a \in Syncers /\ actor[a].pc = "idle"
  /\ Become(a, [Resting EXCEPT !.pc = "resume"])
  /\ Elsewhere /\ Stored

(* finishInterrupted lists the runs that never got their verdict, in the order *)
(* the table keeps them.                                                       *)
StartSync(a) ==
  /\ a \in Syncers /\ actor[a].pc = "idle"
  /\ Become(a, [Resting EXCEPT !.pc = "resume",
                !.queue = InOrder(applying, [r \in applying |-> {s \in applying : s.no < r.no}])])
  /\ Elsewhere /\ Stored

ResumeNext(a) ==
  /\ actor[a].pc = "resume" /\ actor[a].queue # <<>>
  /\ Become(a, [actor[a] EXCEPT !.pc = "record", !.queue = Tail(@),
                !.steps = Head(actor[a].queue).steps, !.report = Head(actor[a].queue).no,
                !.resumed = TRUE])
  /\ Elsewhere /\ Stored

Caught(a) == actor[a].pc = "resume" /\ actor[a].queue = <<>>

(* The official game does not answer, or a question blocks the pass. *)
FetchFails(a) ==
  /\ Caught(a) /\ failures < MaxFailures
  /\ failures' = failures + 1 /\ Become(a, Resting)
  /\ Stored /\ UNCHANGED <<round, official, crashes, handMoves>>

(* readSeats refuses a league nobody holds anyone in. *)
PlanRun(a) ==
  /\ Caught(a)
  /\ LET steps == IF OpenWindows = {} THEN <<>> ELSE PlanSync(round, Seats, official)
     IN  Become(a, IF steps = <<>> THEN Resting
                   ELSE [Resting EXCEPT !.pc = "report", !.steps = steps])
  /\ Elsewhere /\ Stored

(* The plan is stored before any of it is carried out. *)
StoreReport(a) ==
  /\ actor[a].pc = "report"
  /\ reports' = reports + 1
  /\ applying' = applying \cup {[no |-> reports + 1, steps |-> actor[a].steps]}
  /\ Become(a, [actor[a] EXCEPT !.pc = "record", !.report = reports + 1])
  /\ Elsewhere /\ UNCHANGED <<windows, rows>>

(* Every step done: applied, or failed when the rosters still differ, and in *)
(* either case applying no longer.  A resumed run goes on with the next.     *)
Verdict(a) ==
  /\ actor[a].pc = "record" /\ actor[a].steps = <<>> /\ a \in Syncers
  /\ applying' = {r \in applying : r.no # actor[a].report}
  /\ \/ actor[a].resumed /\ Go(a, "resume")
     \/ ~actor[a].resumed /\ Become(a, Resting)
  /\ Elsewhere /\ UNCHANGED <<windows, rows, reports>>

-----------------------------------------------------------------------------
(* recordTransaction: one move by hand *)

HandProposals ==
  LET both == {p \in Members \X Members : p[1] < p[2]}
  IN  {[type |-> "drop", fromRound |-> round, member |-> s.member, players |-> <<s.player>>] :
         s \in Seats}
      \cup {[type |-> "add", fromRound |-> round, member |-> m, players |-> <<p>>] :
         m \in Members, p \in Players}
      \cup {[type |-> "trade", fromRound |-> round, memberA |-> q[1], memberB |-> q[2],
             outA |-> <<x>>, outB |-> <<y>>] : q \in both, x \in Players, y \in Players}

HandMove ==
  /\ actor[Manager].pc = "idle" /\ handMoves < MaxHandMoves
  /\ handMoves' = handMoves + 1
  /\ \E proposal \in {p \in HandProposals : p.type \in HandMoveKinds} :
       LET verdict == PlanTransaction(Seats, PlayerPosition, Slots, proposal)
       IN  /\ verdict.ok
           /\ Become(Manager, [Resting EXCEPT !.pc = "record", !.steps = <<verdict.plan>>])
  /\ Stored /\ UNCHANGED <<round, official, crashes, failures>>

HandDone ==
  /\ actor[Manager].pc = "record" /\ actor[Manager].steps = <<>>
  /\ Become(Manager, Resting)
  /\ Elsewhere /\ Stored

-----------------------------------------------------------------------------
(* applyTransaction: one planned move *)

Step(a) == Head(actor[a].steps)

(* Windows close and open one by one, in an order the plan fixed. *)
FirstOf(todo) == CHOOSE t \in todo : TRUE

(* The row written only when some window is left to close or open. *)
RecordRowIfOpen(a) ==
  /\ actor[a].pc = "record" /\ actor[a].steps # <<>>
  /\ rows' = IF \E c \in Step(a).closes : windows[c.seat].to = 0
             THEN rows \cup {RowOf(Step(a))} ELSE rows
  /\ Become(a, [actor[a] EXCEPT !.pc = "close", !.todo = Step(a).closes])
  /\ Elsewhere /\ UNCHANGED <<windows, applying, reports>>

(* The row first: found, or created. *)
RecordRow(a) ==
  /\ actor[a].pc = "record" /\ actor[a].steps # <<>>
  /\ rows' = rows \cup {RowOf(Step(a))}
  /\ Become(a, [actor[a] EXCEPT !.pc = "close", !.todo = Step(a).closes])
  /\ Elsewhere /\ UNCHANGED <<windows, applying, reports>>

(* A window found closed is passed over ... *)
LookAtWindow(a) ==
  /\ actor[a].pc = "close" /\ actor[a].todo # {}
  /\ LET c == FirstOf(actor[a].todo)
     IN  Become(a, IF windows[c.seat].to # 0 THEN [actor[a] EXCEPT !.todo = @ \ {c}]
                   ELSE [actor[a] EXCEPT !.pc = "closing"])
  /\ Elsewhere /\ Stored

(* ... and one found open is closed, whatever has become of it since. *)
CloseWindow(a) ==
  /\ actor[a].pc = "closing"
  /\ LET c == FirstOf(actor[a].todo)
     IN  /\ windows' = [windows EXCEPT ![c.seat].to = c.toRound]
         /\ Become(a, [actor[a] EXCEPT !.pc = "close", !.todo = @ \ {c}])
  /\ Elsewhere /\ UNCHANGED <<rows, applying, reports>>

ListHeld(a) ==
  /\ actor[a].pc = "close" /\ actor[a].todo = {}
  /\ Become(a, [actor[a] EXCEPT !.pc = "open", !.todo = Step(a).opens, !.held = Seated(Seats)])
  /\ Elsewhere /\ Stored

(* The unique active (league, player) index. *)
IndexAllows(player) == player \notin Seated(Seats)

(* A player listed as held is skipped; one taken since is refused and skipped. *)
OpenOne(a) ==
  /\ actor[a].pc = "open" /\ actor[a].todo # {}
  /\ LET o == FirstOf(actor[a].todo)
     IN  /\ windows' = IF o.player \in actor[a].held \/ ~IndexAllows(o.player) THEN windows
                       ELSE Append(windows, NewWindow(o.member, o.player, o.fromRound))
         /\ Become(a, [actor[a] EXCEPT !.todo = @ \ {o}])
  /\ Elsewhere /\ UNCHANGED <<rows, applying, reports>>

StepDone(a) ==
  /\ actor[a].pc = "open" /\ actor[a].todo = {}
  /\ Become(a, [actor[a] EXCEPT !.pc = "record", !.steps = Tail(@), !.held = {}])
  /\ Elsewhere /\ Stored

-----------------------------------------------------------------------------
(* A process dies between two requests; the rounds go on. *)

Crash(a) ==
  /\ actor[a].pc \notin {"idle", "away"} /\ crashes < MaxCrashes
  /\ crashes' = crashes + 1 /\ Become(a, Resting)
  /\ Stored /\ UNCHANGED <<round, official, failures, handMoves>>

RoundTurns ==
  /\ round < MaxRound /\ \A a \in Writers : actor[a].pc \in {"idle", "away"}
  /\ round' = round + 1 /\ official' \in OfficialRosters
  /\ Stored /\ UNCHANGED <<actor, crashes, failures, handMoves>>

Applies(a) ==
  RecordRow(a) \/ LookAtWindow(a) \/ CloseWindow(a) \/ ListHeld(a) \/ OpenOne(a) \/ StepDone(a)

Syncs(a) ==
  StartSync(a) \/ ResumeNext(a) \/ FetchFails(a) \/ PlanRun(a)
    \/ StoreReport(a) \/ Verdict(a)

RosterNext ==
  \/ \E a \in Syncers : Syncs(a)
  \/ HandMove \/ HandDone
  \/ \E a \in Writers : Applies(a) \/ Crash(a)
  \/ RoundTurns

RosterSpec == RosterInit /\ [][RosterNext]_rosterVars

(* Fair: a syncing process comes back, and a process that lives goes on. *)
SyncGoesOn(a) == Syncs(a) \/ Applies(a)
MoveGoesOn == HandDone \/ Applies(Manager)

-----------------------------------------------------------------------------
RosterTypeOK ==
  /\ round \in 1..MaxRound /\ official \in OfficialRosters
  /\ \A i \in DOMAIN windows :
       windows[i] \in [member : Members, player : Players, from : 1..MaxRound, to : 0..MaxRound]
  /\ \A r \in applying : r.no \in 1..reports
  /\ \A a \in Writers :
       actor[a].pc \in {"idle", "resume", "report", "record", "close", "closing", "open", "away"}

Covers(w, r) == w.from <= r /\ (w.to = 0 \/ r < w.to)

(* No player's night is scored twice: no two windows of one player cover the *)
(* same round (coversRound: from the round a window opens, up to the round   *)
(* it closes).  fantasy/store.ts says a replay "skips windows already closed *)
(* or opened".                                                               *)
NoDoubleScoring ==
  \A i, j \in DOMAIN windows :
    i # j /\ windows[i].player = windows[j].player
      => \A r \in 1..MaxRound : ~(Covers(windows[i], r) /\ Covers(windows[j], r))

(* History explains the rosters at every instant, whoever died between two   *)
(* requests: a window opened since the draft, or closed, has the             *)
(* transactions row that says so.                                            *)
DraftSeats == Cardinality({q \in Members \X Players : q[2] \in OpeningRosters[q[1]]})
Names(seats, w) == w.member \in DOMAIN seats /\ w.player \in ToSet(seats[w.member])

EveryMoveHasItsRow ==
  \A i \in DOMAIN windows :
    LET w == windows[i]
    IN  /\ i > DraftSeats => \E r \in rows : r.fromRound = w.from /\ Names(r.playersIn, w)
        /\ w.to # 0 => \E r \in rows : r.fromRound = w.to /\ Names(r.playersOut, w)

(* However the syncs, the hand move, the crashes and the failed fetches fell, *)
(* the league ends with the official rosters and no run left in applying.     *)
Settled == RostersAgree(Seats, official) /\ applying = {}

RostersConverge == <>[]Settled
=============================================================================
