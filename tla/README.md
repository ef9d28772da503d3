# A verification of the Eurovafliai draft and season

Eurovafliai runs private EuroLeague fantasy leagues: a lobby, a live draft, and a season of
line-ups, transactions and standings. It is a Next.js application whose server actions write
to PocketBase, and a PM2 worker that does the same on a timer. PocketBase gives neither of
them a transaction (ADR-0003), so every operation is a chain of single requests, each of which
may be the last one its process manages, and between any two of which other processes write.
What keeps a league right is the order of the writes, a few unique indexes, and repairs that
whoever looks next carries out. This directory models the draft and the season's chains of
writes, and the pure rules they rest on, checks them with TLC, and proves the draft's safety with
TLAPS.

## 1. The system and its parts

| part (under `src/src`) | state it keeps | operations | hard behaviour |
|---|---|---|---|
| **draft engine** `lib/engine` | none | pick order, board shape, roll, who is on the clock, legality, autodraft choice, rollback | boundaries: third-round reversal, boards with holes, several stranded picks, absent projections |
| **pick pipeline** `lib/drafts/pipeline.ts` | `drafts`, `picks` | `commitPick` (create, then advance), `repairUnadvanced`, finish | two writes with a crash between them, stale records written late |
| **room actions** `lib/drafts/actions.ts`, `repair.ts` | `drafts`, `picks`, `leagues.status`, `league_members.autodraft_enabled` | start, pick, pause, resume, clock, autodraft, undo, start-over, reconcile on render | check-then-act on a record read earlier, undo under picks in flight |
| **sweep** `worker/sweep.ts` | the same, and a failure count in memory | repair, close, restart the clock, autopick, flag a stuck draft | acts on reads several requests old; must never take a turn early, must finish the draft |
| **worker passes** `worker/index.ts`, `passes.ts` | timers, locks, one login, in memory | fire a pass, share a login, mark a session stale, drain, restart | overlap, shutdown, a token the database refuses |
| **lobby and life cycle** `lib/leagues`, `drafts/actions.ts`, `repair.ts` | `leagues`, `league_members`, `drafts` | create, join, kick, roll, manual order, start, start-over, delete | capacity race, order written member by member, status and draft written apart |
| **season rosters** `lib/memberships` | `roster_memberships`, `transactions` | materialize a draft, apply a transaction, clear, tell the history | intent row first, replay of half a transaction, two writers on one window |
| **fantasy sync** `lib/fantasy` | `fantasy_syncs` | decide whether a read is due, plan the difference, store it, carry it out, give a verdict | a run that died is finished by the next, before it reads anything |
| **line-ups** `lib/lineups` | `round_lineups` | validate, freeze, resolve, optimize | roles frozen game day by game day, find-then-create race |
| **BasketNews sync** `lib/basketnews` | `fantasy_syncs`, `source_player_questions` | queue, run, block on unknown players, approve, recover | one active job per league, a job that read the pool before an approval |
| **standings and stats** `lib/stats` | `player_game_stats`, `stat_imports`, `standings_snapshots` | import played games, recompute, settle | a pass that dies between lines and standings, recomputes over older lines |
| **cheat sheets** `lib/sheets` | `cheat_sheets` | match a pasted list, confirm it, edit by hand | what is confirmed is planned by one function and saved by another; breaks are counts |
| **roster imports** `lib/rosters` | `players` | diff a feed against the pool, propose renames, apply | no transaction, refusals by two unique indexes, re-run from a half-imported pool |
| **positions read from a game** `lib/source-positions` | `players`, `position_questions` | read daily per league, ask, answer | reads and answers over shared players, questions of several leagues |
| **write-ups** `lib/ai` | `ai_writeups` | claim, ask a model, finish, re-guard, rewrite on request | a call that throws, is refused or dies between claim and finish; facts that move |
| **live pages** `lib/pb` | one realtime stream per page, its surfaces, a gate per surface | connect, retry, open topics, re-read, hold while hidden | nothing is replayed; first connects are not retried; reads race events |
| **chat** `lib/chat`, `components/league-chat.tsx` | `chat_messages`; each device's list | send, delete, put back, announce, merge | events, older transcripts and echoes meet in one list; answers that never come |
| **choosing and drafting** `app/l/[league]/draft` | the player in hand, the last answer | choose, cancel, draft | the turn, the board and the screen move on under the hand |
| feeds `lib/fixtures`, `live`, `mapping`, `news` | rows upserted by key | ingest | external data; idempotent by unique key |
| slugs, advisor, roll ceremony, exports, the rest of the UI | own rows or none | text, rendering | not about the league's state |

How they interact: the room's actions and the sweep share the `drafts` and `picks` records and
both go through the pipeline and the engine; a finish writes the league's status and the season
memberships, which transactions and standings then build on; a page render repairs the league's
status; the lobby freezes the order the draft uses. The worker's passes - sweep, syncs, imports -
share one superuser session; the syncs and a manager's hand moves both write the season's windows
through `applyTransaction`; an import, and every recorded move, recomputes the standings; the
roster pass finishes approvals that died and queues the jobs they owe. The draft's autopick reads
the sheets; the pool that drafts, sheets and line-ups refer to is the imports', and the positions
in it are also a game's and a manager's; the write-ups read standings and are marked due by a
correction of stored lines. There are no messages between processes on the server: everything is
read from and written to PocketBase. Browsers hear of writes over one realtime stream, which
replays nothing: every live surface answers an event, and every connect, by reading again, except
the chat, which also appends the event itself. A tap in the draft room goes through `makePick`,
whose answer finds whatever is in hand by then.

What makes each part correct, in short: the engine answers what its rule says on every board,
also on one that an interrupted undo left; the pipeline never skips a turn and never draws one
twice, closes a draft only when it is full, and needs nobody in particular to finish it; the
sweep never takes a turn whose clock has not run out; an undo lands on exactly its target; a
season membership is somebody's pick; rosters end as the official ones, and every move has its
row; standings never miss a stored line for good; a league's status heals; a league that waited
for an approval applies a job that has read it; the worker's session recovers and it stops with
nothing in flight; a sheet is saved as it was confirmed; an import that stopped is repaired by the
next; every disagreement about a position is asked about, once; every write-up ends up saying what
the facts support, or its attempts are spent; a screen that listens catches up with the database, and
one that may be behind says so; every line of the chat is on its way to whoever is connected.
`PROJECT.json` lists every part with its status
(`components`) and what in the code matters most and is hardest to test (`hazards`), with the
property that watches it or the reason none does; section 6 has the rest.

## 2. The modules

| module | what it is |
|---|---|
| `DraftEngine` | the pure engine as operators, one for each function of `lib/engine` |
| `MCEngine` | puts questions to the engine over bounded inputs; its invariants state the rules another way |
| `Listings` | a set listed in ascending order and the elements of a list that pass a test: the sorts and filters of the source |
| `RosterPlans` | planned trades, drops and adds (`memberships/plan.ts`) and the sync's plan (`fantasy/plan.ts`), over seats |
| `MoveLogs` | the plan from a move log and from BasketNews transfers; the history's grouping of rows |
| `LineupRules` | line-ups: validity, frozen roles, resolution over rounds, the optimizer |
| `SeasonScoring` | standings, cumulative snapshots and the tables of a phase |
| `SyncClock` | rounds' windows and when a read is due (`fantasy/windows.ts`) |
| `CheatSheets` | a sheet edited by hand, and a pasted list matched, planned and resolved |
| `RosterImports` | the difference of a roster import, its renames, and the import write by write |
| `MCRules` | `MCEngine` and the same kind of questions to these seven |
| `DraftBoard` | the abstract specification: what the league is promised of its draft |
| `DraftRoom` | the draft as records and processes, one step per PocketBase request |
| `MCDraftRoom` | the leagues TLC checks `DraftRoom` on |
| `MCRoomRaces` | two rooms at once, by who has autodraft on: one where the manager undoes, one where nobody does |
| `LeagueLobby` | a league from lobby to season and back, and the repair of its status |
| `SeasonRosters` | the season's rosters: syncs, a hand move, and `applyTransaction` request by request |
| `StatImports` | box scores imported in batches and the standings rebuilt from them |
| `BasketNewsJobs` | the job queue, the questions it asks, approvals and recoveries |
| `WorkerPasses` | the worker process: passes, locks, one session, shutdown |
| `MCSeason` | one of these five at a time, by scene |
| `WriteUps` | rows claimed, asked for, finished, re-guarded and requested again |
| `PositionQuestions` | the daily read of a game's positions, the questions and the answers |
| `MCUpkeep` | one of these two at a time, by scene |
| `LiveStream` | one browser page: the stream, its surfaces, and when each reads again |
| `LeagueChat` | the chat's rows, the actions that write them, and the list a device keeps |
| `MCLiveRoom` | a draft night: `DraftRoom`, `LiveStream` or `LeagueChat`, by scene |
| `PickInHand`, `MCPickInHand` | one person's way from choosing a player to drafting him; its instance |
| `DraftEngine_proofs` | lemmas about least elements, listings, folds and the clock; the engine's theorems |
| `RosterPlans_proofs` | whichever source a sync's plan is made from, carried out it leaves the official rosters; facts about sums |
| `MCRules_proofs` | the engine's four rules, the legality of transactions, what a sync's plan reaches and what its rows add up to, which roles the reads of a round freeze, when they are made, what an edit leaves of a sheet, what a pasted list saves, what the history tells and what the table of a phase shows, proved of any boards, orders, pools, rosters, reads, sheets, lists, rows and seasons |
| `DraftRoom_proofs` | type correctness, no double pick, the inductive invariant of the board, legal rosters, the sweep's patience, and the refinement to `DraftBoard` |
| `SeasonRosters_proofs` | what plans say of the windows they were drawn from; history explains every window |
| `Worker_proofs` | the worker stops clean, an approval's recovery is never lost, standings that miss a line are owed |
| `LiveStream_proofs` | a screen that listens and is behind is owed a read; views only advance |
| `LeagueChat_proofs` | no line is forgotten, none is invented |

### DraftEngine

`taken` is the set of overall numbers that hold a pick: every function of `clock.ts` reads no
more of a pick than its number. Players are naturals because the tie-break of `autodraft.ts`
compares record ids, which are totally ordered. The roll's hash and generator are left out: the
draws are an argument, and the property is about which order each sequence of draws gives.
`isDraftComplete`, `rankForMember` and the others are written by what they return, not by the
loops that compute it.

### DraftRoom

The records are variables: `draft` (status, current_pick, deadline, stuck_reason), `picks` (by
overall number, each with a record id, because undo deletes by id), `league` (its status),
`held` (open season memberships) and `armed` (autodraft switches). `Calls` are server actions in
execution and `Worker` is the sweep. A process has a `pc` that names the next request, and keeps
what it read: `seen` (a drafts record), `hand` (a list of picks), `turn` (the slot and player it
is dealing with), `doomed` (picks an undo has still to delete). Each action is one request with
everything the code decides from its answer:

* **makePick**: `MakePick` (find the unfinished draft, live), `ReadPicks`, then
  `RepairUnadvanced` if the pick at `current_pick` exists, then `CommitOwnPick` (whose turn,
  legality, create) or `RefusePick`, then `Advance`; a finish goes on to `FinishLeague` and
  `Materialize`.
* **advance** is in `AdvancePatch`/`WriteAdvance`: the patch is computed from `seen` and `hand`
  and written over the record as it is by then, field by field. A patch without a finish leaves
  `status` alone, so an advance that lands after a pause does not undo it.
* **setDraftPaused, setPickClock**: `ReadForControl`, then one unconditional write.
* **setAutodraft**: one write to one field.
* **rollbackDraft**: `RollbackDraft` (the newest draft, whatever its status), `ComputeRollback`,
  `PauseForRollback` when it was live, `DeletePick` once per pick from the highest down (a pick
  that is gone ends the action), `RepointDraft`, and `UnfinishLeague` when it was complete.
* **reconcileLeagueStatus**: `ReadForRender` and `ReconcileLeagueStatus`, two requests apart.
* **sweep**: `ListLiveDraft`, `SweepReadPicks`, then by `SweepJob`: a repair (which ends the
  tick), `CloseDraft`, a stuck mark for a hole, `RestartClock`, or `SweepMember` (switch and
  sheet read, each of which may fail and then counts as off or empty; choice made),
  `LastLook` and `CommitAutoPick`; `ClearStuck` at the end of a handled tick.
* **faults**: `Crash` (any process, between any two requests; also a server action whose request
  fails), `ThrowTick` (a failed request of the sweep is counted, and the third in a row flags
  the draft), and the lost writes the code swallows, inside `FinishLeague` and `UnfinishLeague`.
* **time**: `ClockRunsOut` turns a running deadline into one that ran out, grace included.

Abstractions: a deadline is none, running or out; who may submit a request is not modelled (any
call may submit any kind the run allows, which only adds behaviours); the list request of the
picks, the creation of a record and the loop of `materializeDraftMemberships` are one step
each. The loop is idempotent per player; its being interrupted shows up as a crash before it.
Chat, logging and revalidation are left out. Some of what a call keeps in hand is reset to the
values of a fresh record when the code does not use it again, which merges states that behave
alike.

`forfeited` is a history variable: the empty slots the sweep may take, because the draft's clock
ran out on them while it was live or because the member was read with autodraft on.
`FreshId` takes some unused record id, as PocketBase does.

### DraftBoard

The abstract specification has a sequence of picks and whether the season is open. A step
appends a legal pick of the member whose turn it is, takes one off the end, or opens or reopens
the season on a full or unfinished board. `DraftRoom!KeepsItsPromise` is that specification
under the refinement mapping that reads the board off the `picks` records: `current_pick`,
clocks, processes and repairs are invisible in it, so that every request of every process is
one of these steps or none.

### The season's rules

`RosterPlans`, `MoveLogs`, `LineupRules`, `SeasonScoring` and `SyncClock` are operators, one for
each function and one for each idea inside a long one. Members and players are naturals, since
plans are made in the order of ids. A *seat* is an open window of a member and a player. A plan
carries what `applyTransaction` needs: closes, opens and the row. Notes, announcements and the
wording of moves are left out; what the history reads back from a note - its having one, and the
BasketNews event in it - is a field of the row. Points are naturals (tenths, hundredths), and the
fantasy-points formula is not here. Times are hours.

### SeasonRosters

`windows` are the records of `roster_memberships` in the order of their creation, `rows` the
transactions, `applying` the reports of runs that never got their verdict. A syncing process
lists those (`StartSync`), carries out each (`ResumeNext`, then `applyTransaction`, then
`Verdict`), reads both rosters and plans (`PlanRun`), stores the plan (`StoreReport`), carries it
out and gives its verdict. `applyTransaction` is `RecordRow`, then for each window to close a read
(`LookAtWindow`) and a write that no longer asks (`CloseWindow`), then one list of who is held
(`ListHeld`) and a create for each player to open (`OpenOne`), which the unique index on (league,
player, open) may refuse. `HandMove` plans one move with `planTransaction` and goes the same way.
Assumed: official rosters change only between rounds and no process lasts that long; a hand move
is for the current round; rows are a set. The hand move of the runs is a drop. An add or a trade
by hand differs in `PlanTransaction` only, which the `engine` run asks about. A league whose every
window is closed is never synced again (`readSeats` refuses it), so the league of the runs starts
with two players, of whom a hand drop takes one.

### LeagueLobby

`call` is the one manager's call in execution; what it read is in it, and what happens next. A
draft is one round of picks. `finishing` is the last pick's finish - complete the draft, move the
league to its season, create the windows - by whichever process: `FinishBoard` starts it again
after a death, as the sweep does, while the draft is not complete. `thrown` says that its draft
has been deleted, which is when `CompleteDraft` is a 404. `page` is a render between the read and
the repair of `reconcileLeagueStatus`. A start-over is offered only where a draft exists.

### StatImports

A batch is recorded, rows are created one by one (each may be refused), the counts are written,
and then `SettleStatBatches` takes every unapplied batch, recomputes standings and only then marks
them. The recompute reads the version, the lines, the version again, and writes. One league and
one round: the snapshots are the set of lines they were computed from.

### BasketNewsJobs

`jobs` has the status of each league's newest job. The runner lists queued and running jobs and
takes them one by one; a sync reads the pool once (`LoadPool`) and its verdict follows from that,
also when the player it lacks is linked meanwhile. There is one source player, and `question` is
his row. An approval writes its intent, creates the player, links the row and queues the leagues;
it may die anywhere, and the roster pass resumes it. `caughtUp` and `owed` are history variables.

### WorkerPasses

A pass is idle, waiting for the shared login, running, or handling a failure. `token` is what the
database thinks of the session, `stale` what a refused request has noted. Passes of one lock
exclude each other. A pass that throws nothing returns whatever the token: the lists of a guest are
not refused. A process that stopped is started again by PM2 with nothing in memory.

### CheatSheets and RosterImports

Both are operators, one per function. A sheet is a sequence of players and its breaks, each the
count of players above it; `ApplyOperation` is what the browser and the server both apply. A pasted
line arrives with what the search found for its name - players of exactly that name, close ones best
first, whether the best is clear of the next - because fuse.js and its scores are not here.
`MatchSheet` claims players in the order of the lines, `PlanRanks` is the plan the confirmation shows
and `ResolveSheet` the sheet that is saved.

A row of an import and a stored player are records of a code, a name (tokens), a club, one field that
stands for everything else compared (`shirt`), a biography and a status. Which tokens are alike is
an argument, and so is what was not read. `DiffRosters` is the difference with its renames;
`Written` is one write of `runRosterImport`, which the indexes of `players` may refuse (`Store`).
The order fuse gives the alternatives of an uncertain rename is left out.

### WriteUps

`written` is the row of each kind and round, `writer` the worker with what is left of its pass, its
budget and the claim it holds, `asker` a request of the commissioner's between its marks. A sheet
of facts is a version, and `Supports` says what a version supports: text written from one version
holds against another that supports the same. `StartPass` is the quarter-hourly pass over rounds,
briefs and reasons, `StartRequests` the check of every minute; both take one lock, so a new one
starts only from idle. A task is one row: `ClaimWriteup` (which writes the new hash first), then the
call, which ends in `CompleteWriteup`, `FailWriteup` (the guard refused the text), `AbandonClaim`
(it threw) or the worker's death. Dates are two Booleans of a row: `fresh` (a claim younger than
ten minutes) and `due` (last checked a day ago, or before a correction). Where a rewrite of a row
that had been checked before leaves that date, `CompleteWriteup` may keep it due. The rows of all
members share a call, so one member stands for all; every row's facts move together.

### PositionQuestions

Several leagues are linked to one game, whose positions are stored with the player. A read is of one
league: plan (`PlanPositionRead`), patch the players one by one, list the open questions, create
and settle questions one by one, count the rosters, settle their question by that count, stamp.
An answer checks, writes and confirms the position, closes every league's question about the player
and judges the roster of the league asked. Both may die between any two requests. Open questions are
a function or a set because their open key is unique. Names, links to the game's ids and who may
answer are left out; every league has one full roster of every player.

### LiveStream

`link` is the page's one PB_CONNECT subscription as `keepLinked` sees it: connecting, failed (the
listener is still registered), waiting for its retry, open, or dropped, which is the SDK's to
repair. `screen` has a record per surface: whether its topics are open, an event on the wire, the
gate's timer and two flags, the reads in the air by the version they began at, the version on
screen, and whether it claims to be connected. A read lands with some version committed since it
began. `Up` is `attachSurface`: an answer to the topics is a step of its own (`TopicsOpen`,
`TopicsFail`), and may cross a drop. The lobby's surface reads in the browser and swallows a failure
(`ReadFails`); the others ask the server to render, which ends. A page is visible, hidden or has
left for sign-in; an expired token is noticed where `tokenExpired` is called, and nowhere else.
Several connects within one wait, topics of a surface that go one by one, and times are left out.

### LeagueChat

A row is whose it is, which of their sentences, and whether it is a tombstone; a device's list is a
function from rows to that. `Connect` asks for a transcript, `ReadMessages` reads it,
`TranscriptLands` merges it; the answer of an action carries the transcript of the render it caused.
Server actions of one device run one after the other, as the framework queues them, and any may be
refused, or lost before or after its write (`AnswerLost`). Names, order on the screen, the unread
badge, and focus are left out.

### PickInHand

`armed` is the player in hand with whose turn it was when he was chosen, `result` the last answer of
`makePick`, which React keeps, `screen` the draft as last rendered, and `tap` the request on its way
with what its screen showed. `Settle` is the effect that runs whenever the hand or the answer
changes. `makePick` decides who is on the clock (`MakePick`) and creates the pick (`CommitPick`) one
request apart, against the board as it is by then. The board is a sequence, since stranded and
missing picks are `DraftRoom`'s; an undo happens between two taps; rosters are not counted.

## 3. The runs

All states are those of complete explorations, and the numbers are distinct states.

| run | league | processes and requests | faults | states |
|---|---|---|---|---|
| `engine` | questions to the rules: see below | - | - | 437 thousand |
| `season` | scenes: see below | by scene | by scene | 133 thousand |
| `upkeep` | scenes: see below | by scene | 2 to 4 troubles, 1 read | 281 thousand |
| `room_race` | 3 members, 1 place, snake, pool of 4 | two rooms: 2 calls that pick and the sweep; 1 call: pick, undo, resume, render, and the sweep, manager alone | 0 | 611 thousand |
| `room_solo` | 2 members, a guard and a forward each, pool of 4 | 1 call: pick; sweep | 1, or 3 while no call is about | 950 thousand |
| `room_controls` | 2 members, 1 place, pool of 3 | two rooms: 2 calls: pick, pause, resume, clock, arm (one member's switch), and the sweep; 2 calls: pick, resume, undo, and nobody sweeps | 0 | 1.3 million |
| `room_live` | scenes: 2 members, 1 place; a room and a lobby on one page, 2 writes; one device, one other writer, 1 sentence | 1 call: pick, and the sweep, fair; the page and the network, fair; events, reads, one action at a time | 3 faults; 2 troubles; 2 troubles | 231 thousand |
| `rollback_crash` | 2 members, 1 place | 1 call: pick, resume, undo; sweep; manager alone | 1 | violation |
| `pause_over_finish` | 2 members, 1 place | 2 calls: pick, pause; sweep | 0 | violation |
| `season_without_draft` | the lobby's scene | the manager, two users, a page, a finish | 1 | violation |
| `replay_reopens` | the scene of one sync | one sync, a hand drop, two rounds | 1 crash, 1 failed fetch | violation |
| `wrong_turn` | 2 members, 1 place, pool of 3 | a manager's screen and taps, others' picks, pause, undo | 2 changes | violation |

**engine** states the rules independently of the code. Of the draft: rounds mirror each other
except where the format says otherwise, and the board drawn shows the order drafted
(`OrderReachesTheBoard`); every order comes out of exactly one sequence of draws (`RollIsFair`, which
says nothing about the quality of the hash); on any board, holes included, the clock stands on the
lowest empty slot above every pick, a repair of any number of stranded picks is complete and
harmless, and an undo puts its target on the clock (`ClockHoldsOnAnyBoard`); the autopick is the
sheet's, then the projection's, then the id's, and heads the ranking the room shows
(`AutodraftKeepsToTheSheet`). Then the season's rules, over up to four players and three members:

* `PlansReachTheOfficialRosters`: carrying out the sync's plan, row by row, ends with the official
  rosters from any rosters, without giving anybody a player who is still held.
* `RowsExplainTheRosters`: rows planned from the difference, from a log of moves, or of BasketNews
  transfers, some of them applied earlier, some already overtaken, add up to the official rosters,
  or the log is refused. A row may name a player more than once (a log that trades him back and forth
  becomes one row), so each time counts.
* `TransactionsKeepRostersLegal`: a hand move that is accepted leaves every roster it touches
  within its places, and moves exactly the players it names.
* `HistoryTellsEveryRowOnce`: swaps and exchanges partition the rows they claim, newest first.
* `OptimizedLineupIsBest`: no line-up of the squad is worth more than the optimizer's.
* `FrozenRolesSurviveEdits`: whatever the edits between two game days, a player who has played
  keeps the role he had when he did.
* `PhaseTablesAgree`: the table rebuilt from cumulative snapshots is the table of the lines.
* `EveryGameDayIsReadOnce`: a pass that comes at any hours, and fails at some, reads every game
  day after its games, and does not ask again before the next is due.
* `SheetEditsKeepTheRest`: an edit by hand keeps everybody else's order, and a removal or a return
  who shares a tier with whom; breaks stay inside; a return undoes a removal; two nudges are the
  nudge of both. Every sheet of up to three players, every break and every edit.
* `SavedSheetIsTheOneShown`: whatever a pasted list, its duplicates and a person's answers, the
  sheet saved has each line at the rank its confirmation showed, a break exactly where the tier
  changes between neighbours, and nobody neither the search was sure of nor a person named.
* `RerunsSettle`: an import cut off after any of its writes, over pools of two players with and
  without codes, locked, awaited, renamed or left, is repaired by importing again: it comes to rest
  with nobody left to add and every listed player in the pool and not marked left. Four kinds of row
  are excepted, each a decision of the code: the player is locked; the codes clash; his change is one
  the pool's indexes refuse; the row waits as an open rename. Nobody is touched who is locked, whose
  codes clash, or who is unlisted and awaits registration or was not read; a code is never replaced;
  and a likely rename still waits, its player untouched and its row not added, unless a second row has
  the same name and club (one row without a code is then added, and the other fills its code in).
  It does not say that the re-run writes exactly what was left: see section 6.

**season** explores one behaviour at a time (`MCSeason`): within these bounds the parts share no
state, so their product would only multiply interleavings. The scenes are

| scene | what happens in it |
|---|---|
| two syncs | the worker's pass and a manager's "Sync now" in the last round, one crash |
| one sync | two rounds, one crash, one failed fetch, one drop by hand |
| lobby | two users and one place to join; roll, reshuffle, kick, start, start-over; a page; one mishap |
| order | roll, a manual order, start; one mishap |
| deletion | roll, start, delete; one mishap |
| stats | two games of three lines in all, one crash, two failures |
| jobs | two leagues, one mishap |
| passes | the sweep and two passes with one lock; two lost tokens, one failed login, one stop |

A mishap is a process that dies or a write that is refused. One is enough for every hazard listed
there: each of them is one death at the wrong moment beside another process; two syncs are enough
for one to replay, or overtake, the other, and two leagues for one to settle what the other is
owed. The properties:

* `EveryMoveHasItsRow`: at every instant a window opened or closed since the draft has a row that
  says so, which is what "the row first" is for.
* `RostersConverge`: the league ends with the official rosters and no run in applying, though a
  plan made from rosters that another process is changing was half carried out and replayed.
* `StatusHeals`: the league's status fits its newest draft again and again, over every
  interleaving of start, finish, start-over, deletion and renders that read before and wrote
  after. It says nothing of a season without a draft: see below.
* `MissingLinesAreOwed` and `StandingsCatchUp`: standings that miss a stored line have an
  unapplied batch to show for it, and catch up.
* `RecoveryIsNotLost` and `EveryLeagueCatchesUp`: a league an approval counts as waiting stays
  so until a job that read the link has applied, and one eventually does. An
  active job that blocked its league for good would keep it from that.
* `SessionRecovers`: while passes run, a token whose time is up is replaced, and so is one that a
  pass was refused over. A token the database refuses while every pass gets by on lists - a guest
  is handed no rows instead of a refusal - is found out only by the clock: `PassReturns` lets a pass
  end so, and nothing is promised before the time is up (section 6).
  `CleanStop`: a process that says it stopped has nothing in flight.

**upkeep** has two scenes. In *write-ups* rounds finish, facts move with or without a correction,
and two to four troubles happen, by scope: a crash of the worker, a call that throws, a text the guard refuses,
a request of the commissioner. `WriteupsSettle`: the passes come to an end of it - no row stays
claimed, no request unanswered, every finished round's summary and the latest round's brief say what
the facts support or have spent their attempts. The scopes are two rounds of summaries, two of
briefs, a summary with its brief, a summary alone, which has troubles enough to spend its three
attempts and then be asked for, and a member's reasons. Write-ups are taken to be switched on, and
the facts to be readable whenever a pass looks. In *questions* two leagues follow one game
whose listing changes once; one read dies and one answer is given, or dies, anywhere.
`QuestionsComeToRest`: every league ends with a question exactly about the players its game
disagrees about and nobody confirmed, of those it lists, and about its roster exactly while that
does not count.

**room_race** is the heart: three processes decide on the same board and land in any order.
`NobodySkipped` says that the clock is always on the lowest empty slot, so no late advance,
repair or repair of a repair ever leaves somebody out. `KeepsItsPromise` says that the room
implements `DraftBoard`. Three processes are the smallest number in which a pick, a repair of it and
a later pick can be one each; three slots leave room for a stale record two picks old. Its second
room has undo and resume with the manager alone: while one of them is under way, no other action
and no tick is (`ManagerAlone`); picks, ticks and renders come in between. The undo then lands on
exactly its target from every board and every status (`UndoLandsClean`), and the other properties
hold there too. The constraint is needed: see `room_controls` and the first finding.

**room_solo** adds positions and a crash or a lost write anywhere - more of them only while no call is
about, until a flag raised over three thrown ticks is taken down (`OneFaultOrAFlag`) - with the smallest template in
which the positional cap is not the roster size: rosters stay inside it (`RostersLegal`), although
it was checked on an older board; memberships are picks, whoever dies while finishing; and a draft
is not closed on the strength of picks in hand that are not all on the board (`FinishedMeansFull`,
which is also proved for any number of processes).

**room_controls** lets every control race with picks. `AutoPickWaited` is the promise of the
sweep's "last look": that the slot it is about to fill is one whose own clock ran out, or whose
member was seen with autodraft on. It covers the bug the comments of the pipeline recall, of a
worker taking the next member's whole turn. Its second room lets two actions interleave with undo
without restriction. Holes then do occur, and `NoDoublePick` shows what still holds: without undo the
slot index alone prevents a double pick, but under an undo a pick in flight lands above slots that
are drafted again, and only unique (draft, player) is left to refuse the same player twice.

**room_live** is a draft night, one scene at a time (`MCLiveRoom`), under fairness. In *room* the
worker sweeps: `DraftsFinish`, a live draft is finished though nobody in the room does anything and
any three requests fail or processes die - which includes that a pick whose advance was lost is
advanced past. The bound of faults is what makes three failed ticks in a row, and the flag they
raise, reachable, and its states are those `TypeOK` is checked on.

In *pages* two surfaces hang on one stream that fails to connect, drops, loses a topic, is hidden,
remounted, or meets an expired token. `NothingForgotten` is the promise that a refresh is "owed,
not dropped": at every instant, a surface that is listening and shows less than the database holds
has something coming - an event, a timer, a read that began late enough, or a debt that somebody is
bound to collect. `ViewsOnlyAdvance` is why the gate exists: two reads at once may land in either
order. `PagesComeToRest` puts them together with the stream: a page somebody looks at ends up right,
or admits that it may be behind, and a first connect that failed is tried until the stream is up.
Both except, by name, the lobby's list after a re-read that failed: the failure is swallowed and the
read not repeated, so until an event or a connect asks again the list may be behind and say nothing
(`LeftBehind`; section 6 has the comment that says otherwise). A refresh asked for while the failing
read was in the air is not excepted: it is owed, and paid.
In *chat* lines are said and deleted around a device whose stream drops and whose reads fail or come
late. `NoLineForgotten`: a line it does not show is on the wire or in a transcript on its way.

**wrong_turn** follows one manager's hand. The band says whose turn a tap spends, "the fact that
prevents a mis-pick"; but it says whose turn it was when the player was chosen. The run finds a
manager who chooses a player in their own turn and waits; the turn passes, the room is rendered
again, and the tap in the band, which still says nothing, drafts the player for the next member. The
property asks only about taps that spend the very turn their screen showed, so that no request
overtakes another.

**season_without_draft** and **replay_reopens** are what the season's scenes contradict. A
start-over does not look at a finish under way: the finish may write "season" after the draft is
gone, and nothing repairs a season without a draft, which a comment of `repair.ts` takes to be
impossible. And a replayed run does not skip "windows already opened" but players held at that
moment: one who was let go since is opened again, from the round of the dead run, and that round
counts twice.

**rollback_crash** and **pause_over_finish** are disagreements between the code and its comments.
The first: an undo pauses, deletes, and dies before it re-points the draft. Its comment says that
the board is "still contiguous - never a hole with picks after it" and that the room "stays
coherent" because `whoIsOnClock` skips forward. It does skip forward, from a `current_pick` that
is above the emptied slots: a manager who resumes instead of undoing again gets a board on which
the emptied slots are never on the clock, so the next pick is above a hole. The second:
`setDraftPaused` is "refused once the draft is complete", but the test is of the record it read;
the last pick can finish the draft before the write, which then turns it back into a paused one.

`PROJECT.json` quotes the comments under `findings`.

**Bounds.** `PickIds` (8 ids) limits how many records exist or are awaited at once, not how many
are ever made, and no run reaches it. `MaxFaults` bounds crashes and failures.
`MaxOvershoot` bounds how far past the last slot a resume may follow `current_pick`: each
resume that is written over a finish lets the sweep close the draft again with `current_pick` one
higher. `room_controls` lets that happen once, and that is the only way the sweep's `CloseDraft`
is reached - a lost last advance, which the comment there speaks of, leaves `current_pick` on a
filled slot, and the repair before it finishes the draft. `Calls` is how many actions are in
execution at once; a call that ends starts again, so their number over time is unbounded.
`CallSymmetry` permutes calls, which nothing distinguishes, in runs without liveness.
`OneSwitch` in `room_controls` lets one of the two members change autodraft; the other never has
it on. `NoSweep` in the room of undos keeps the worker out so that two calls can be explored fully.
The `troubles` of a scope count crashes, thrown calls, refusals and requests together: two are one to
strand a row and one to disturb its recovery, four spend a row's attempts and ask for it again. `CALLS_PER_PASS` is the code's. `MaxListings`, `MaxAnswers` and
`MaxReadFaults` are one each: a position that stops and one that starts to disagree, an answer
beside it, a read cut in two. `PoolSize` bounds the stored players of an import, whose feeds have two rows. `MaxVersion` is two
writes - one a read began before, one after - and `MaxPageTrouble` two: one to put a page behind, one
while it recovers. `MaxTyped`, `MaxLines` and `MaxRenders` count sentences typed, rows when one is
said elsewhere (one more may be put back), and renders nobody on the device asked for;
`MaxChatTrouble` counts drops, failed reads, refusals and lost answers, `MaxChanges` pauses,
resumptions and undos beside a hand.
Deadlock checking is off: a finished draft may stop.

**Fairness.** In `room_live`'s room, weak fairness of `Sweep` - the worker's steps without crashes and failures - and of
`ClockRunsOut`. The code justifies the first with the timer of `worker/index.ts` (a tick a
second, PM2 restarts the process) and the second is that time passes. Nothing is assumed of any
server action: browsers may leave, and calls may stay in the middle for ever.

In `season`, weak fairness of each part's steps that are not faults, in its scenes only: a syncing
process comes back and one that lives goes on (a pass runs on its timer; in the roster scenes the
hand move goes on as well, or a row whose windows were never closed would be all that is left of
it); the stats pass, the job pass and the daily roster pass run on theirs, and an approval that
lives goes on; each worker pass's timer fires, its requests end, a login is answered, a drain ends
and PM2 starts the process; in the lobby, a call that lives and a finish go on, the sweep finishes
a full board, and pages are opened. Nobody need join, pick, approve or move anything.

In `upkeep`, the worker that lives goes on, days pass and claims grow old (weak fairness), and both
passes are started again and again, for strong fairness: a timer fires while the other holds the
lock, but not every time. A pass reads every league that is due (strong fairness for each). No
commissioner need ask and no manager answer.

In `room_live`'s pages, weak fairness of the stream - connecting, the retry and its timer, the SDK's
reconnect - and of each surface: its topics are answered, its events arrive while its stream is up,
its timers run out, its reads land. The network comes back in the end; nobody need look at the page,
navigate or write.

**Mutants.** Each property of a passing run is paired with a plausible bug in a mapped
definition, written next to it with a comment, that the same run then reports. Mutants are not
used by any specification.

## 4. The proofs

Assumed: `RoomAssumption` (in `DraftRoom`, evaluated by TLC in each of its runs): a nonempty
order, a format, a template with at least one place, players that are positive naturals and have
a position, a `Worker` that is not a call, and a `None` that is not a pick. In
`DraftRoom_proofs`, the theorems below `PlayerOnce` ask additionally either that `"undo"` is
not among the requests, as a hypothesis of each theorem, or, those named *Undo...*, that an undo is
done alone: with undos interleaving they are false, as the runs above show.

* **`TypeCorrect`**: `Spec => []TypeOK`. `TypeOK` is not inductive; `TypeInv` in
  `DraftRoom_proofs` adds what each label implies of `turn`, `seen` and `hand`. The proof has
  one lemma per group of actions: pipeline, picking, controls, undo, sweep, faults. The
  obligations that matter are that the slot on the clock is a slot, that a choice is a player
  of the pool, and that a pick's id is unused.
* **`PlayerOnce`**: `Spec => []NoDoublePick`, for all requests, undo included. The board changes
  only by a creation that the index let through or by a deletion (`PicksChange`).
* **`NobodyIsSkipped`, `FinishedIsFull`, `MembershipsArePicks`**, from one inductive invariant,
  `BoardInv`: the board is an initial segment; no slot below `current_pick` is empty; and, for
  each process, what it has in hand is an older part of today's board (`HandOK`): its picks are
  still there, they are an initial segment, the record it read reaches no further than they do,
  and the slot it is about to fill is the one its own board puts on the clock. The last is the
  crux: a pick decided on an old board is for the first slot that board lacks, so either that
  slot is still the first empty one or the index refuses it. From this an advance, however late,
  moves `current_pick` to a number with nothing empty below (`PatchReached`), a completion
  decided from the hand is one of the board, and memberships credited from the hand are those of
  the board. What it says of memberships and of the league (`Outcomes`) it says where nothing is
  undone; the rest it says of any room no undo is under way in, and every step but the start of an undo
  keeps it. `BoardInv` was checked with TLC as an invariant on the instances of `room_race`,
  `room_controls` and `room_solo` before it was proved.
* **`RostersStayLegal`** (`RostersLegal`). The rosters are sets and the caps are cardinalities, and a
  choice was legal on the board its process read, which may be picks behind. `DecisionOK` keeps
  what was decided: the player is free on that board and, for the member whose slot it is, within
  the caps. When the pick is written, the slot is still empty only if the board in hand *is* the
  board: `HandIsBoard` shows that the unique index on `(draft, overall_no)`, which looks only at
  the number, thereby makes a stale decision as good as a fresh one (`LegalOnArrival`). What remains
  is that a roster gains one player, within the caps (`RosterGrows`, `CapsKept`).
* **`SweepAlwaysWaited`** (`AutoPickWaited`). `DueOK` says of a sweep that holds a decision what made
  it due: the member it is for has autodraft on, or the time of the slot at which the draft it read
  was pointing had run out, and that draft was pointing at a slot (`PointsAtASlot`). The slot it
  fills is then the one whose time it was (`OnClockIsPointer`).
* **`RoomKeepsItsPromise`** (`KeepsItsPromise`), the refinement of `DraftBoard`: an initial state maps to
  an initial state (`PromiseTerms`, `FirstPicks`), the creation of a pick to the abstract pick of
  the next player of the order (`PickIsPromised`), the advance, pause, start and finish to the
  abstract change of the draft or a stutter (`PromiseStep`). `FollowsDraft` is the part of the
  invariant it adds: where the league stands, given the draft, so that a league written late does
  not go back. Its hypothesis `NoReopening` asks, beside no undo, that a room which renders pages,
  and so repairs its league's status, does not pause: a pause written over a finish
  (`CompleteStaysComplete`, which `pause_over_finish` refutes) lets the next render take the league
  back to drafting over a full board, and the promise is then broken in the model as in the code.
* **An undo done alone**: `UndoAlwaysLandsClean` (`UndoLandsClean`), `UndoneNobodyIsSkipped`
  (`NobodySkipped`), `UndoneRostersStayLegal` (`RostersLegal`), `UndoneSweepAlwaysWaited`
  (`AutoPickWaited`) and `UndoneRoomKeepsItsPromise` (`KeepsItsPromise`), of `AloneSpec`: `Spec` in
  which, while an undo is under way, every other process is idle (`UndoAlone`) and the undo does not
  die once it has begun to delete (`Uncut`). Both are needed, as `room_controls` (holes under
  an undo that interleaves) and `rollback_crash` (an undo cut short) show. Before the deletions an undo
  may die, and outside it anything may happen: races, crashes, lost writes, a finish, pauses, resumes, one
  undo after another. The invariant is `AloneInv`: `BoardInv` between undos, and during one `UndoOK`, the crux
  of which is that the board is an initial segment *at every moment* of the deletions, because they
  go from the highest number down, that what is still doomed is exactly what is left from the target up
  (`StillToDelete`), and that a draft with picks being deleted is not live. So nobody is left out
  between two deletions either, a room that is itself again has the target as its lowest empty
  slot, no clock that ran out before an undo is one the sweep may act on after it (`UndoKeepsDue`), and
  to the abstract board each deletion is an undo of its last pick (`UnmakingIsPromised`). The last
  theorem leaves out renders: one that read an undone board and writes after it was filled again
  takes the league back over a full board.
* **The engine and its rules**: `OnClockFact`, `RepairIsHarmless` and `UndoPutsTargetOnTheClock` for
  every finite board rest on `FirstFreeFact`: among `n + 1` consecutive numbers one is not in a set of
  `n`. `MCRules_proofs` carries them and the other rules to what the `engine` run checks, as invariants
  of `RulesSpec`, for any values of its bounds (`EngineAssumption`, which TLC evaluates in that run:
  the bounds are naturals, the pool is a finite set of positive ones). `Posed` says what question was
  asked, so that each theorem is a fact about an operator:
  * `ClockAlwaysHolds` (`ClockHoldsOnAnyBoard`), on boards with any holes.
  * `OrderAlwaysReaches` (`OrderReachesTheBoard`): a number has one round and one slot (`Rounds`,
    `RoundAndSlot`), a round is the frozen order or its mirror image (`OrderFact`), and which of them
    alternates but for third-round reversal (`TurnFact`).
  * `RollAlwaysFair` (`RollIsFair`), by downward induction along the shuffle, stated for a set
    (`Downward`). What a place holds is settled by its own swap (`WalkSettles`), so that two sequences
    of draws with one order agree from the last place down (`RollOnce`), and a sequence for a given
    order can be chosen from the last place down (`RollReaches`).
  * `AutodraftAlwaysObeys` (`AutodraftKeepsToTheSheet`): being ranked above is a linear order of the pool
    (`RankingIsLinear`), so there is a first legal player and one ranking (`ChoiceFact`,
    `RankingFact`, both from `RankFact`), and he is the one of the rule (`ChoiceByTheRule`). The lemmas
    are of any sheet, projections, positions and template; the theorem is of the sheets and projections
    that `AskChoice` asks about, over any pool.
  * `TransactionsStayLegal` (`TransactionsKeepRostersLegal`): what carrying out a plan does to each
    roster (`CarriedOut`), for any windows of which nobody has two; a trade leaves both as full
    as they were because as many go as come (`SameSize`). The lemmas are of any rosters, templates and proposals; the
    theorem adds only what `AskTransaction` asks.
  * `PlansAlwaysReach` (`PlansReachTheOfficialRosters`), from the three theorems below.
  * `FrozenRolesAlwaysSurvive` (`FrozenRolesSurviveEdits`), from `ReadsFreeze`: after any number of
    reads, in any order of their days, of any lineups, a player is frozen exactly when he had played by
    the day of one, in the role he had at the first (`FrozenBy`, by induction along the fold). A lineup
    with one captain at most reads back as the roles it was saved from (`RolesReadBack`).
  * `SheetEditsAlwaysKeep` (`SheetEditsKeepTheRest`), from `EditsKeepTheRest`, of sheets of any length
    and edits anywhere. A name leaves or enters the list at one place, and everybody else's place
    shifts by a map that keeps the order (`RemovedOrder`, `InsertedOrder`); two ranks share a tier
    exactly when no break lies between them (`TierFact`), and the breaks shift with the ranks
    (`RemovedBreaksFact`, `InsertedBreaksFact`), so the tiers do too (`SameTiers`).
  * `GameDaysAlwaysReadOnce` (`EveryGameDayIsReadOnce`), from `GameDaysAreReadOnce`: any tip-offs, asked
    about at any rising ticks, with the worker down or failing at any of them. A read is due by the runs
    before it, so the runs are all and only those that were due at their tick (`ReadsBy`, by induction
    along the fold); of two reads of one span the second was not due, and one not due was preceded by a
    read or a fresh failure (`Owed`, for a game day and for the settled round). Assumed is
    `SyncAssumption` (in `SyncClock`, evaluated by TLC in `engine`): a round settles after it closes, and
    the freeze begins no later after a tip-off than the round settles, as 5 and 90 minutes and 3 hours do.
  * `SavedSheetAlwaysShown` (`SavedSheetIsTheOneShown`), from `SavedAsShown`: lists of any length,
    whatever the search found and whatever was answered. The confirmation counts who stands before a
    line, the save walks the lines and remembers; they agree because after any number of lines the sheet
    holds those that stand so far, each at the count (`PlacedUpTo`), with a break at each change of tier
    and the last tier in hand (`BrokenUpTo`, both by induction along the fold). Whom a line was matched to without
    asking is `EntryOf`, after `MatchSheet`'s own fold.
  * `HistoryAlwaysTells` (`HistoryTellsEveryRowOnce`), from `HistoryTellsOnce`: any rows. A swap is made
    of rows that no earlier swap took (`SwapsApart`), and exchanges of rows no swap took; hanging
    together in time is an equivalence (`ChainedIsEquivalence`), so that two exchanges of one team with
    one event are the same or have no row in common (`ExchangesApart`). Groups with no row in
    common, each told at its newest row, tell every row once (`GroupsToldOnce`). Assumed is
    `MoveLogsAssumption`: the window in which moves hang together is a natural number.
  * `PhaseTablesAlwaysAgree` (`PhaseTablesAgree`), from `StoredTablesAgree`: any season. A sum over a
    finite set is pinned down by its recursion (`IsSum`, `SumExists`, by `SubsetInduction`), so that two
    sums of the same amounts are one. A round of the phase counts the same whatever else counts
    (`SameTotals`, by the roles frozen for it and the windows open in it), and any other round is zero in
    the table of the phase (`SumZeros`); the totals agree, and with them the ranks (`SameRanks`). Of a season
    it is assumed (`Scoreable`) that its windows and lines are finitely many, that a round has one
    phase, and that frozen roles are roles.
  * `RowsAlwaysExplain` (`RowsExplainTheRosters`), from one theorem for each way to plan, of any rosters
    and any log. Replaying a log keeps a tally (`MoveTallied`, `EventTold`): what the moves applied so
    far say a team gained of a player is how its hold on him changed. The rows of a log say the same in
    another order: they group the moves by team and by pair (`FreeSums`, `PairSums`), and a sum over
    groups is the sum (`SumOfGroups`), however often one row names a player. A window placed on a row
    leaves the players it names (`PlacedGains`). Of the rows of a difference, an exchange tells of a
    player only if it is the one he is part of, and then no other row does (`SyncTradeGains`,
    `SameBetween`); else he is in his old team's release, in his new team's signing, in both or in
    neither (`SyncBalance`). Of a sync it is assumed that nobody has two teams or two windows
    (`Comparable`) and that players are finitely many (`Known`).

* **The plans of a sync** (`RosterPlans_proofs`): `SyncReaches`, `LogReaches` and `TransfersReach` say
  that the plan of `planSync`, and one of `planFromLog` or `planBasketNewsTransfers` where there is
  one, carried out on the windows it was made for leaves the official rosters. They hold of any
  windows, rosters, logs and announcements, long or contradictory. `Windows` and `Recorded` are what
  they take from the open windows: finitely many players, each with one window and each window a
  record of its own; a holder is not null, and a record made by the plan is a new one. `Comparable`
  adds, for `planSync`, that the teams are finitely many, everybody open is on one of them, and nobody
  is official on two. They do not ask that a log be true: a log that does not end at the official
  rosters gives no plan, and what is proved is that this is all that has to be checked. Nothing else
  writes while the plan is carried out (`ApplyPlans`); what may happen between its requests is in
  `SeasonRosters`.
  * What a fold leaves after each element is a function that the fold of the community modules, a
    `CHOOSE` over subsets, must equal (`FoldExists`, from `Folds` and induction over `0..n`,
    `Upward`). `PlansAreSteps`, `MovesReplayed`, `EventsReplayed` and `Flattened` are this for each of
    the folds.
  * A plan is a schedule: per row, whom it takes off a roster and whom it puts on one. If nobody is in
    two rows, nobody put on before he is off, and everybody who moved is in one, what stands at the
    end is where each belongs (`Standing`, `Scheduled`, `ScheduleReaches`). For the two logs that is
    the last row to name a player (`PlacedWindowsReach`); for `planSync`, the releases before the trades
    before the signings (`ArrangedReaches`), whose sets are disjoint because a player leaves one
    team and arrives at one (`AloneFact`, `TradedFact`, `BetweenFact`).

* **The worker**: three theorems, for all values of the constants and any number of faults, of the
  specifications without fairness and without scenes (`PassSpec`, `JobSpec`, `StatSpec`; the last is
  of the worker alone, without recompute requests beside it). What makes each inductive is what a
  process in the middle of its chain still owes:
  * `StopsClean` (`CleanStop`), from `DrainInv`: everything in flight is in what the drain waits for,
    because nothing fires once the list is taken and no step of a pass starts another.
  * `RecoveryNeverLost` (`RecoveryIsNotLost`), from `OwedInv`: an approval is under way only while
    the player is not linked to his question, so that a recovery being written is of the question
    as it still is; and only the runner whose league has applied is about to take it off.
  * `MissingLinesAlwaysOwed` (`MissingLinesAreOwed`), from `OweInv`: the batch whose rows are being
    written is unapplied, the lines a rebuild is about to write are today's, and batches are marked
    only while the standings miss nothing.

  Nothing else is assumed of their constants.

* **The season's rosters** (`RosterAssumption`, which TLC evaluates in the `season` runs: members
  and players are finite sets of positive naturals, the draft gave no player to two members, official
  rosters are of these members and players; `RosterSpec`, without fairness): `HistoryExplains`
  (`EveryMoveHasItsRow`), for any syncs at once, each resuming what any of them left, beside moves by
  hand. The property speaks of windows and rows; the steps that could break it carry out plans
  that were drawn from rosters several requests, crashes and resumptions ago. `HistoryInv` therefore
  follows a plan wherever it is kept - in a process, in its queue, in a report that waits to be
  finished - and says what stays true of it (`Sound`): the windows it closes exist, its row names
  their players and members, and it closes them with the round of its row, which is never 0. That
  lasts because a window once written keeps its member and player (`LastingFact`), so that closing one
  twice, or late, is still explained by the row (`CloseStep`). `Busy` adds that whoever carries out a
  step has stored its row first. `DropIsSound`, `AddIsSound` and `TradeIsSound` say that what is
  planned is sound, for `planSync` (`SyncIsSound`) and for a move by hand (`HandIsSound`); they need
  that nobody is held twice (`HeldOnce`, kept by the unique index and by the closes never writing 0),
  as the plan finds a player's window by his name, and that listing a set in order loses nobody
  (`InOrderFact`, from `RankFact`: an injection into as many numbers is a surjection).

* **The live page** (`StreamAssumption`, which only types the constants; `StreamSpec`, without
  fairness): `GateIsSingle` (`OneReadAtATime`), `OwedNotDropped` (`NothingForgotten`) and
  `ReadsNeverGoBack` (`ViewsOnlyAdvance`), for any surfaces, writes and faults, with `StreamTypes`.
  The invariant says of every surface that its gate's flag is the truth, that reads in the air lie
  between what is shown and what is stored, and that a surface behind has something coming. The
  lemmas about the gate (`Fire`, `Shown`) say what each leaves true of one screen; `OneSurface`
  carries that over to the others.

* **The chat** (`ChatSpec`, without fairness; nothing is assumed of the constants):
  `EveryLineIsComing` (`NoLineForgotten`) and `NothingIsInvented`, from `ChatInv`. A transcript read
  covers every row there is (`TranscriptFact`), a row written reaches the wire of whoever listens
  (`EmitFact`), and whatever leaves the wire or lands is merged (`MergeKeeps`), which forgets
  nothing. For the second, every copy on its way - event, transcript, answer - is of rows that
  exist and shows as deleted only what is (`TrueCopy`); rows only grow (`GrownFact`), so an old copy
  stays true. That an old copy may still hide a deletion is `TombstonesStand`, below.

Left to TLC: the liveness properties (fairness and `ENABLED` are beyond this prover); of the
season's rules, `OptimizedLineupIsBest` (a search against all line-ups) and `RerunsSettle` (three imports,
each a fold over the writes of a difference); `KeepsItsPromise` in rooms with both
renders and undos, or both renders and pauses; and the properties of `upkeep`.

## 5. The plan

Done: the draft (`DraftEngine`, `DraftBoard`, `DraftRoom`) with its proofs; the season's rules; the
season's rosters, the imports, the job queue and the worker with their proofs, the lobby and the life
cycle; cheat sheets, roster imports, write-ups and the questions about positions; the live page and the
chat, with their proofs, and the player in hand.

Left, in order of importance:

1. Proofs over the upkeep: a row's hash and text while it is claimed (`WriteUps`), and imports that
   are run again (`RosterImports`).
2. The browser's other editors: the line-up's pending taps, the sheet's drags, the pick clock shown
   beside the server's.
3. Composition: a transaction while the standings rematerialize the draft, line-ups written by a
   member and by the sync at once.

## 6. Known and not checked

Some behaviours are in the model, or were met while modelling, and have no property because
nothing in the code promises otherwise:

* **A member is kicked between `startDraft`'s read and its create** and is in the frozen order; the
  draft waits at his place until a start-over (`LeagueLobby`).
* **Memberships after an undo of a finished draft** stay, and the next finish skips the players who
  have one, whoever drafted them now (`drafts/actions.ts:609`).
* **A second draft** of a league whose status write was lost shadows the finished one
  (`StartDraft`, `CreateDraft`).
* **The capacity** is checked before the create, so two people may take the last place
  (`ReadLobby`, `Join`).
* **Positions are written one by one**; a refused one is skipped and reported. A manual order that
  dies before it clears the old seed leaves a roll that draws the old order again, and a stored
  seed is applied again over other members (`WritePosition`, `ClearSeed`, `RollDraftOrder`).
* **A game counts as stored once any line of it is** (`StoredGames`): a refused line stays missing
  until it is imported by hand. `MissingLinesAreOwed` speaks of stored lines.
* **The leagues that ask** are read and written back whole (`WriteQuestion`): one added between an
  approval's read and its link is owed nothing, and reads the link in its next scheduled job.
* **A hand move for an earlier round** than a recorded close may cover a round twice; a hand move
  that dies is finished by nobody but the next sync (`memberships/actions.ts:148`, `279`).
* **Settings, line-ups and stuck marks** are read and written whole; the later write is the
  intended one, or the next tick corrects it. Standings rematerialize a draft when no window was
  ever closed (`standings-store.ts:306`), which is not composed with `SeasonRosters`.
* **A draft with no legal player left** for the member on the clock waits, flagged
  (`sweep.ts:309`); the runs' pools cover their templates.

* **An import that stopped may quarantine on its re-run**: where two arrivals look like one stored
  player without a code, and the import dies after adding one, the other is now a "likely" rename
  and waits for a person, while `rosters/apply.ts:30` says that a partly-applied batch "produces
  exactly the remainder" (`ProposeRenames`, `PartlyImported`).
* **A failed row waits for its facts**: `notDue` (`ai/store.ts:164`) looks at the attempts and not at
  the sheet they were spent on, so a pass skips a row whose facts have moved since; the header says
  "Three failures on the same input stop asking". A request of the commissioner asks again.

* **A refused token that nobody is refused over**: "A rejected token marks the session stale, so the
  next tick logs in again" (`worker/index.ts:277`) is so where a request is answered 401 or 403. A pass
  that only lists collections under an auth rule reads no rows and ends as if there were nothing to do
  (`PassReturns`), as the header of `passes.ts` says of a guest: the sweep then sees no draft. It lasts
  until some pass is refused, the token nears its end or the process is started again.
* **An answer that crosses a drop**: a surface whose topics were posted just before the stream
  dropped says it is connected until the SDK has reconnected (`TopicsOpen`).
* **A chat's re-read on a connect that fails** is swallowed, and the lines of the gap stay unseen until
  the next connect or render (`TranscriptFails`; `NoLineForgotten` excepts it by name).

More promises of comments are stated in the modules than have a run. TLC finds each of these violated
on instances of the sizes above:

* `ConfirmedStays` (`PositionQuestions`): a position confirmed by an answer is "written and confirmed
  so no later read touches it" (`source-positions/store.ts:272`). A read that planned an addition
  before the answer writes it after (`PatchPlayer`), over the confirmed position.
* `OldLinesNeverWin` (`StatImports`): a recompute of older lines does not write over one of newer
  lines (the header of `standings-store.ts`). With recompute requests beside the worker
  (`StatRaceSpec`) the version is checked one request before the write, and the second attempt is not
  guarded. The next import or recorded move recomputes.
* `ReasonsSettle` (`WriteUps`): a claim writes the new sheet's hash before there is text, and where the
  call then fails or the worker dies, the row goes back to "ready" with its old text. The comment of
  `releaseStaleClaims` (`ai/store.ts:170`) counts on the re-guard; but the scout's re-guard skips rows
  whose hash is the sheet's (`scout-pass.ts:94`), so reasons that no longer hold stand until the sheet
  moves again. Summaries and briefs have no such test, and `upkeep` shows that they settle.
* `TheListCannotDrift` (`LiveStream`): the lobby's list "cannot drift from the database no matter which
  events were missed" (`live-lobby.tsx:59`). A re-read that fails is counted as settled and not
  repeated.
* `ReconnectingMeansIt` (`LiveStream`): a surface that says "Reconnecting" (`live-draft.tsx:66`) is on
  its way back. Where posting its topics failed while the stream is up, it waits for a connect that
  an open stream does not announce (`browser.ts:141`).
* `TombstonesStand` (`LeagueChat`): merging a transcript "makes the component self-healing"
  (`league-chat.tsx:124`). One read before a delete and merged after its event shows the text again.
* `SentencesSurviveRefusals` (`LeagueChat`): "a refusal never costs somebody their sentence"
  (`league-chat.tsx:308`). The refused one is put back over the next one being typed.
* `SendersAreTold` (`LeagueChat`): "the sender is told" (`chat/actions.ts:49`). A request lost on the
  network leaves the panel in "Sending" with an empty box.
* `ArmedIsInHand` (`PickInHand`): a freshly chosen row does not "silently un-choose itself"
  (`drafts/actions.ts:374`). A player chosen again, after his landed pick was undone, is: the kept
  answer is about him.
* `ArmingClearsRefusals` (`PickInHand`): a refusal about the last row cannot "sit on a row nobody is
  looking at" (`armed-pick.tsx:89`). The effect runs again with the kept answer and puts it back.

## 7. Not modelled

Most of the implementation are outside what these methods are for, and the map
shows it: most React pages and components (`src/src/app`, `src/src/components`), read-only queries for
them, operator scripts (`src/scripts`), parsing of feeds, CSV files and sheets, the scores of
fuzzy searches, matching of names across providers, formatting, slugs, exports, prompts, the facts
and the guard of generated text, news and the advisor. They keep no state that another
part's correctness rests on. Of the parts that do, left out are: settings forms and invite codes;
sign-in and cookies, and the access rules of
PocketBase (who may submit a request is nondeterministic everywhere); ingest of fixtures, live
games and mappings (rows upserted under unique keys from external data); projections and
comparisons (arithmetic that decides nothing). PocketBase itself is modelled by what the code relies on: one request is atomic, a
unique index refuses, a required reference refuses a delete, a deleted record is a 404. Its own
crashes are a failed request of every process.
