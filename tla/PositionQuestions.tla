--------------------------- MODULE PositionQuestions ---------------------------
(***************************************************************************)
(* Positions read from a fantasy game (lib/source-positions): the worker's *)
(* daily read of each linked league adds what is missing and asks about    *)
(* what differs; a manager's answer confirms a position; rosters that do   *)
(* not count the template are asked about too.                             *)
(*                                                                         *)
(* All leagues here follow one game, whose positions are stored with the   *)
(* player; a league has one full roster, of every player.  An open         *)
(* question is in a set of its own kind, for its open key is unique.       *)
(***************************************************************************)
EXTENDS Integers, FiniteSets

CONSTANTS
  LinkedLeagues,   \* leagues linked to the game
  GamePlayers,     \* the players of the pool, who are every league's roster
  OwnPosition,     \* the position a player has outside the game
  RosterCounts,    \* [position -> number] of a roster that counts the template
  Listings,        \* what the game may list: player to position, Unplaced
  MaxListings,     \* bound: how often the listing changes
  MaxAnswers,      \* bound: answers managers give
  MaxReadFaults    \* bound: reads that die

VARIABLES
  listing,         \* the game's positions, as they would be read now
  changes,         \* how often the listing changed
  stored,          \* player to [position, confirmed]
  playerQuestions, \* open: <<league, player>> to [stored, read]
  rosterQuestions, \* open: leagues
  unread,          \* leagues whose last stamped read is a day old
  reading,         \* the worker's read of one league
  answering,       \* a manager's answer
  given,           \* answers given
  readFaults

questionVars == <<listing, changes, stored, playerQuestions, rosterQuestions, unread, reading, answering,
                  given, readFaults>>

Unplaced == "none"
Positioned == {"G", "F"}

NoReading == [pc |-> "idle", league |-> 0, additions |-> <<>>, ask |-> <<>>, placed |-> {}, open |-> {},
              counts |-> FALSE]
NoAnswer == [pc |-> "idle", league |-> 0, player |-> 0, position |-> Unplaced, own |-> FALSE, counts |-> FALSE]

QuestionInit ==
  /\ listing \in Listings /\ changes = 0
  /\ stored = [p \in GamePlayers |-> [position |-> Unplaced, confirmed |-> FALSE]]
  /\ playerQuestions = <<>> /\ rosterQuestions = {}
  /\ unread = LinkedLeagues
  /\ reading = NoReading /\ answering = NoAnswer /\ given = 0 /\ readFaults = 0

Only(f, S) == [x \in DOMAIN f \cap S |-> f[x]]
Without(f, S) == [x \in DOMAIN f \ S |-> f[x]]

(* The game says otherwise than is stored, and nobody confirmed that.       *)
Disagrees(p) == stored[p].position \notin {Unplaced, listing[p]} /\ ~stored[p].confirmed

(* checkRosters, its count: a player without a position in the game counts   *)
(* at his own.                                                               *)
CountsTemplate ==
  LET at(p) == IF stored[p].position = Unplaced THEN OwnPosition[p] ELSE stored[p].position
  IN  \A position \in Positioned : Cardinality({p \in GamePlayers : at(p) = position}) = RosterCounts[position]

-----------------------------------------------------------------------------
(* readDuePositions, a league at a time *)

Advance(to) == reading' = [reading EXCEPT !.pc = to]

(* The game is read and the plan made from what is stored. *)
PlanPositionRead(l) ==
  LET placed == {p \in GamePlayers : listing[p] # Unplaced}
  IN  /\ reading.pc = "idle" /\ l \in unread
      /\ reading' = [NoReading EXCEPT !.pc = "patch", !.league = l, !.placed = placed,
           !.additions = Only(listing, {p \in placed : stored[p].position = Unplaced}),
           !.ask = [p \in {q \in placed : Disagrees(q)} |-> [stored |-> stored[p].position, read |-> listing[p]]]]
      /\ UNCHANGED <<listing, changes, stored, playerQuestions, rosterQuestions, unread, answering, given, readFaults>>

(* One player after the other is given the position the plan has for him. *)
PatchPlayer ==
  /\ reading.pc = "patch"
  /\ IF reading.additions = <<>> THEN Advance("open") /\ UNCHANGED stored
     ELSE \E p \in DOMAIN reading.additions :
            /\ stored' = [stored EXCEPT ![p].position = reading.additions[p]]
            /\ reading' = [reading EXCEPT !.additions = Without(@, {p})]
  /\ UNCHANGED <<listing, changes, playerQuestions, rosterQuestions, unread, answering, given, readFaults>>

ReadOpenQuestions ==
  /\ reading.pc = "open"
  /\ reading' = [reading EXCEPT !.pc = "ask", !.open = {q[2] : q \in {k \in DOMAIN playerQuestions : k[1] = reading.league}},
                                !.placed = @ \ DOMAIN reading.ask]
  /\ UNCHANGED <<listing, changes, stored, playerQuestions, rosterQuestions, unread, answering, given, readFaults>>

(* A question whose open key is taken is open already. *)
CreateQuestion ==
  /\ reading.pc = "ask"
  /\ IF reading.ask = <<>> THEN Advance("settle") /\ UNCHANGED playerQuestions
     ELSE \E p \in DOMAIN reading.ask :
            LET key == <<reading.league, p>>
            IN  /\ playerQuestions' = [k \in DOMAIN playerQuestions \cup {key} |->
                     IF k \in DOMAIN playerQuestions THEN playerQuestions[k] ELSE reading.ask[p]]
                /\ reading' = [reading EXCEPT !.ask = Without(@, {p})]
  /\ UNCHANGED <<listing, changes, stored, rosterQuestions, unread, answering, given, readFaults>>

(* Everything that was open is settled, also what the game still disputes.   *)
AllOpen == {p \in reading.open : <<reading.league, p>> \in DOMAIN playerQuestions}

(* What was open, about players this read placed and has no question about.  *)
Settled == {p \in reading.open \cap reading.placed : <<reading.league, p>> \in DOMAIN playerQuestions}

ResolveSettled ==
  /\ reading.pc = "settle"
  /\ IF Settled = {} THEN Advance("count") /\ UNCHANGED playerQuestions
     ELSE \E p \in Settled :
            /\ playerQuestions' = Without(playerQuestions, {<<reading.league, p>>})
            /\ UNCHANGED reading
  /\ UNCHANGED <<listing, changes, stored, rosterQuestions, unread, answering, given, readFaults>>

(* The rosters are counted, and their questions settled by that count. *)
Judge(league, counts) ==
  rosterQuestions' = IF counts THEN rosterQuestions \ {league} ELSE rosterQuestions \cup {league}

CountRosters ==
  /\ reading.pc = "count"
  /\ reading' = [reading EXCEPT !.pc = "judge", !.counts = CountsTemplate]
  /\ UNCHANGED <<listing, changes, stored, playerQuestions, rosterQuestions, unread, answering, given, readFaults>>

JudgeRosters ==
  /\ reading.pc = "judge"
  /\ Judge(reading.league, reading.counts)
  /\ Advance("stamp")
  /\ UNCHANGED <<listing, changes, stored, playerQuestions, unread, answering, given, readFaults>>

StampRead ==
  /\ reading.pc = "stamp"
  /\ unread' = unread \ {reading.league}
  /\ reading' = NoReading
  /\ UNCHANGED <<listing, changes, stored, playerQuestions, rosterQuestions, answering, given, readFaults>>

(* A request fails, or the worker dies: unstamped, the league is read again. *)
ReadDies ==
  /\ reading.pc # "idle" /\ readFaults < MaxReadFaults
  /\ reading' = NoReading /\ readFaults' = readFaults + 1
  /\ UNCHANGED <<listing, changes, stored, playerQuestions, rosterQuestions, unread, answering, given>>

-----------------------------------------------------------------------------
(* answerQuestion *)

Answer(l, p, position, own) ==
  [NoAnswer EXCEPT !.pc = "write", !.league = l, !.player = p, !.position = position, !.own = own]

(* Of a player's question, one of the two it names; of a roster's, anyone on *)
(* it and any position.                                                      *)
CheckAnswer ==
  /\ answering.pc = "idle" /\ given < MaxAnswers
  /\ \/ \E q \in DOMAIN playerQuestions :
          \E position \in {playerQuestions[q].stored, playerQuestions[q].read} :
            answering' = Answer(q[1], q[2], position, FALSE)
     \/ \E l \in rosterQuestions, p \in GamePlayers, position \in Positioned :
          answering' = Answer(l, p, position, TRUE)
  /\ given' = given + 1
  /\ UNCHANGED <<listing, changes, stored, playerQuestions, rosterQuestions, unread, reading, readFaults>>

ConfirmPosition ==
  /\ answering.pc = "write"
  /\ stored' = [stored EXCEPT ![answering.player] = [position |-> answering.position, confirmed |-> TRUE]]
  /\ answering' = [answering EXCEPT !.pc = "close"]
  /\ UNCHANGED <<listing, changes, playerQuestions, rosterQuestions, unread, reading, given, readFaults>>

(* The question that was answered, and every league's about him. *)
CloseQuestions ==
  LET about == {q \in DOMAIN playerQuestions : q[2] = answering.player}
  IN  /\ answering.pc = "close"
      /\ IF answering.own
         THEN /\ rosterQuestions' = rosterQuestions \ {answering.league}
              /\ answering' = [answering EXCEPT !.own = FALSE]
              /\ UNCHANGED playerQuestions
         ELSE IF about = {}
         THEN /\ answering' = [answering EXCEPT !.pc = "judge", !.counts = CountsTemplate]
              /\ UNCHANGED <<playerQuestions, rosterQuestions>>
         ELSE \E q \in about :
                /\ playerQuestions' = Without(playerQuestions, {q})
                /\ UNCHANGED <<answering, rosterQuestions>>
      /\ UNCHANGED <<listing, changes, stored, unread, reading, given, readFaults>>

JudgeAfterAnswer ==
  /\ answering.pc = "judge"
  /\ Judge(answering.league, answering.counts)
  /\ answering' = NoAnswer
  /\ UNCHANGED <<listing, changes, stored, playerQuestions, unread, reading, given, readFaults>>

AnswerDies ==
  /\ answering.pc # "idle"
  /\ answering' = NoAnswer
  /\ UNCHANGED <<listing, changes, stored, playerQuestions, rosterQuestions, unread, reading, given, readFaults>>

-----------------------------------------------------------------------------
ListingChanges ==
  /\ changes < MaxListings
  /\ listing' \in Listings \ {listing} /\ changes' = changes + 1
  /\ UNCHANGED <<stored, playerQuestions, rosterQuestions, unread, reading, answering, given, readFaults>>

ReadingsAge ==
  /\ unread # LinkedLeagues
  /\ unread' = LinkedLeagues
  /\ UNCHANGED <<listing, changes, stored, playerQuestions, rosterQuestions, reading, answering, given, readFaults>>

ReadGoesOn ==
  \/ (\E l \in LinkedLeagues : PlanPositionRead(l)) \/ PatchPlayer \/ ReadOpenQuestions \/ CreateQuestion
  \/ ResolveSettled \/ CountRosters \/ JudgeRosters \/ StampRead

QuestionNext ==
  \/ ReadGoesOn \/ ReadDies
  \/ CheckAnswer \/ ConfirmPosition \/ CloseQuestions \/ JudgeAfterAnswer \/ AnswerDies
  \/ ListingChanges \/ ReadingsAge

-----------------------------------------------------------------------------
(* Properties *)

(* Whatever reads and answers do to each other, die or interleave, every     *)
(* league ends with a question open exactly about the players its game       *)
(* disagrees about and nobody confirmed, of those it lists, and about its    *)
(* roster exactly while that does not count: no disagreement is asked about  *)
(* twice, and none is lost (plan.ts, store.ts).                              *)
QuestionsSettle ==
  <>[]\A l \in LinkedLeagues :
        /\ \A p \in GamePlayers :
             listing[p] # Unplaced => (<<l, p>> \in DOMAIN playerQuestions <=> Disagrees(p))
        /\ l \in rosterQuestions <=> ~CountsTemplate

(* "Written and confirmed so no later read touches it" (store.ts): only an   *)
(* answer changes a confirmed position.                                      *)
ConfirmedStays ==
  [][\A p \in GamePlayers : stored[p].confirmed /\ stored'[p] # stored[p] => answering.pc = "write"]_questionVars
=============================================================================
