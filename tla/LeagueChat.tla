----------------------------- MODULE LeagueChat -----------------------------
(***************************************************************************)
(* League chat: the transcript in the database (lib/chat/store.ts), the    *)
(* actions that write it (lib/chat/actions.ts) and the copy every device   *)
(* keeps for itself (components/league-chat.tsx).  Chat is the surface that*)
(* appends straight from the realtime payload instead of asking the server *)
(* to render again, so three sources meet in one list: events in order,    *)
(* whole transcripts read some time ago, and the echo of one's own line.   *)
(*                                                                         *)
(* What a line says is abstracted to whose it is and which of their        *)
(* sentences; a device's server actions run one at a time, as the          *)
(* framework queues them.  How a stream comes up is LiveStream's.          *)
(***************************************************************************)
EXTENDS Naturals, Sequences

CONSTANTS
    Devices,     \* the members whose devices are followed, one each
    Others,      \* members known by what they write only
    App,         \* who speaks a system line
    MaxTyped,    \* bound: sentences a member types
    MaxLines,    \* bound: rows when one is said elsewhere; one more put back
    MaxRenders,  \* bound: re-renders of the page that nobody here asked for
    MaxChatTrouble   \* bound: drops, failed reads, refusals and lost answers

ASSUME ChatAssumption == App \notin Devices \cup Others /\ Devices \cap Others = {}

VARIABLES
    rows,        \* chat_messages, oldest first: whose, which sentence, deleted
    lines,       \* what a device shows: row -> deleted
    wire,        \* realtime events on their way to a device, in order
    up,          \* the device's stream and topic
    asked,       \* a transcript has been asked for and not yet read
    reads,       \* transcripts read and not yet landed
    swallowed,   \* the last transcript asked for on a connect failed
    box,         \* the sentence in the input, 0 when empty
    sending,     \* the Send button's "sending"
    undone,      \* the sentence that can be put back, 0 when none
    request,     \* the server action in flight
    typed, renders, chatTrouble

deviceVars == <<lines, wire, up, asked, reads, swallowed>>
panelVars  == <<box, sending, undone, request, typed>>
chatVars == <<rows, deviceVars, panelVars, renders, chatTrouble>>

Rows  == 1..Len(rows)
Idle  == [kind |-> "none", what |-> 0, stage |-> "asked", transcript |-> <<>>]
Transcript(all) == [id \in 1..Len(all) |-> all[id].deleted]

ChatTroubled == /\ chatTrouble < MaxChatTrouble
            /\ chatTrouble' = chatTrouble + 1

----------------------------------------------------------------------------
(* The list a device keeps.                                                *)

(* mergeById: the incoming copy wins on a collision. *)
MergeById(mine, theirs) ==
    [id \in DOMAIN mine \cup DOMAIN theirs |->
        IF id \in DOMAIN theirs THEN theirs[id] ELSE mine[id]]

One(id, deleted) == [i \in {id} |-> deleted]

(* A row written reaches the wire of every device that is listening. *)
Emit(id, deleted) ==
    wire' = [d \in Devices |->
               IF up[d] THEN Append(wire[d], [id |-> id, deleted |-> deleted])
                        ELSE wire[d]]

EventArrives(d) ==
    /\ wire[d] # <<>>
    /\ LET event == Head(wire[d])
       IN  lines' = [lines EXCEPT ![d] = MergeById(@, One(event.id, event.deleted))]
    /\ wire' = [wire EXCEPT ![d] = Tail(@)]
    /\ UNCHANGED <<rows, up, asked, reads, swallowed, panelVars, renders, chatTrouble>>

ChatDrops(d) ==
    /\ up[d]
    /\ ChatTroubled
    /\ up' = [up EXCEPT ![d] = FALSE]
    /\ wire' = [wire EXCEPT ![d] = <<>>]
    /\ UNCHANGED <<rows, lines, asked, reads, swallowed, panelVars, renders>>

(* Listening again, without the re-read. *)
ConnectOnly(d) ==
    /\ ~up[d]
    /\ up' = [up EXCEPT ![d] = TRUE]
    /\ UNCHANGED <<rows, lines, wire, asked, reads, swallowed, panelVars, renders, chatTrouble>>

(* onConnect: "Every connect re-reads the transcript". *)
Connect(d) ==
    /\ ~up[d]
    /\ up' = [up EXCEPT ![d] = TRUE]
    /\ asked' = [asked EXCEPT ![d] = TRUE]
    /\ swallowed' = [swallowed EXCEPT ![d] = FALSE]
    /\ UNCHANGED <<rows, lines, wire, reads, panelVars, renders, chatTrouble>>

(* The page is rendered again, for a pick or a roll. *)
Render(d) ==
    /\ renders < MaxRenders
    /\ renders' = renders + 1
    /\ reads' = [reads EXCEPT ![d] = @ \cup {Transcript(rows)}]
    /\ UNCHANGED <<rows, lines, wire, up, asked, swallowed, panelVars, chatTrouble>>

ReadMessages(d) ==
    /\ asked[d]
    /\ asked' = [asked EXCEPT ![d] = FALSE]
    /\ reads' = [reads EXCEPT ![d] = @ \cup {Transcript(rows)}]
    /\ UNCHANGED <<rows, lines, wire, up, swallowed, panelVars, renders, chatTrouble>>

(* ".then(..., () => {})" *)
TranscriptFails(d) ==
    /\ asked[d]
    /\ ChatTroubled
    /\ asked' = [asked EXCEPT ![d] = FALSE]
    /\ swallowed' = [swallowed EXCEPT ![d] = TRUE]
    /\ UNCHANGED <<rows, lines, wire, up, reads, panelVars, renders>>

TranscriptLands(d) ==
    /\ \E transcript \in reads[d] :
         /\ lines' = [lines EXCEPT ![d] = MergeById(@, transcript)]
         /\ reads' = [reads EXCEPT ![d] = @ \ {transcript}]
    /\ UNCHANGED <<rows, wire, up, asked, swallowed, panelVars, renders, chatTrouble>>

----------------------------------------------------------------------------
(* The panel and its server actions.                                       *)

Type(d) ==
    /\ box[d] = 0
    /\ typed[d] < MaxTyped
    /\ typed' = [typed EXCEPT ![d] = @ + 1]
    /\ box' = [box EXCEPT ![d] = typed[d] + 1]
    /\ UNCHANGED <<rows, deviceVars, sending, undone, request, renders, chatTrouble>>

Asking(d, kind, what) ==
    /\ request[d].kind = "none"
    /\ request' = [request EXCEPT ![d] = [Idle EXCEPT !.kind = kind, !.what = what]]

(* send: the box is cleared before the action is awaited. *)
Send(d) ==
    /\ box[d] # 0
    /\ ~sending[d]
    /\ Asking(d, "send", box[d])
    /\ sending' = [sending EXCEPT ![d] = TRUE]
    /\ box' = [box EXCEPT ![d] = 0]
    /\ UNCHANGED <<rows, deviceVars, undone, typed, renders, chatTrouble>>

Mine(d, id) == rows[id].by = d

(* Delete is offered on one's own line while it shows its text. *)
Retract(d) ==
    /\ \E id \in DOMAIN lines[d] :
         /\ Mine(d, id) /\ ~lines[d][id]
         /\ Asking(d, "retract", id)
    /\ UNCHANGED <<rows, deviceVars, box, sending, undone, typed, renders, chatTrouble>>

PutBack(d) ==
    /\ undone[d] # 0
    /\ Len(rows) <= MaxLines
    /\ Asking(d, "restore", undone[d])
    /\ undone' = [undone EXCEPT ![d] = 0]
    /\ UNCHANGED <<rows, deviceVars, box, sending, typed, renders, chatTrouble>>

(* The action's one write, and the render its answer carries. *)
Written(d, all) ==
    /\ rows' = all
    /\ request' = [request EXCEPT ![d].stage = "done",
                                  ![d].transcript = Transcript(all)]

Post(d) ==
    /\ request[d].kind \in {"send", "restore"} /\ request[d].stage = "asked"
    /\ Written(d, Append(rows, [by |-> d, sentence |-> request[d].what,
                                deleted |-> FALSE]))
    /\ Emit(Len(rows) + 1, FALSE)
    /\ UNCHANGED <<lines, up, asked, reads, swallowed, box, sending, undone, typed,
                   renders, chatTrouble>>

(* retractMessage: a row already retracted answers yes without a write. *)
RetractMessage(d) ==
    /\ request[d].kind = "retract" /\ request[d].stage = "asked"
    /\ LET id == request[d].what
       IN  /\ Written(d, [rows EXCEPT ![id].deleted = TRUE])
           /\ IF rows[id].deleted THEN UNCHANGED wire ELSE Emit(id, TRUE)
    /\ UNCHANGED <<lines, up, asked, reads, swallowed, box, sending, undone, typed,
                   renders, chatTrouble>>

(* The gap between messages, or a request to the database that failed. *)
Refuse(d) ==
    /\ request[d].kind # "none" /\ request[d].stage = "asked"
    /\ ChatTroubled
    /\ request' = [request EXCEPT ![d].stage = "refused"]
    /\ UNCHANGED <<rows, deviceVars, box, sending, undone, typed, renders>>

(* The answer: the transcript it carries, the echo, or what was refused. *)
Answered(d) ==
    LET r == request[d]
    IN  /\ r.stage \in {"done", "refused"}
        /\ request' = [request EXCEPT ![d] = Idle]
        /\ sending' = [sending EXCEPT ![d] = @ /\ r.kind # "send"]
        /\ lines' = [lines EXCEPT ![d] = MergeById(@, r.transcript)]
        /\ box' = [box EXCEPT ![d] =
                     IF r.kind = "send" /\ r.stage = "refused" THEN r.what ELSE @]
        /\ undone' = [undone EXCEPT ![d] =
                        CASE r.kind = "retract" /\ r.stage = "done"
                                -> rows[r.what].sentence
                          [] r.kind = "restore" /\ r.stage = "refused" -> r.what
                          [] OTHER -> @]
        /\ UNCHANGED <<rows, wire, up, asked, reads, swallowed, typed, renders, chatTrouble>>

(* The network loses the request or its answer: the action's promise       *)
(* rejects, and nothing after the await runs.                              *)
AnswerLost(d) ==
    /\ request[d].kind # "none"
    /\ ChatTroubled
    /\ request' = [request EXCEPT ![d] = Idle]
    /\ UNCHANGED <<rows, deviceVars, box, sending, undone, typed, renders>>

(* Somebody else's line; or the app speaks, or fails to and nobody minds.  *)
Say ==
    /\ Len(rows) < MaxLines
    /\ \E by \in Others \cup {App} :
         rows' = Append(rows, [by |-> by, sentence |-> 0, deleted |-> FALSE])
    /\ Emit(Len(rows) + 1, FALSE)
    /\ UNCHANGED <<lines, up, asked, reads, swallowed, panelVars, renders, chatTrouble>>

(* A system line belongs to nobody and is never retracted. *)
Unsay ==
    /\ \E id \in Rows :
         /\ rows[id].by \in Others /\ ~rows[id].deleted
         /\ rows' = [rows EXCEPT ![id].deleted = TRUE]
         /\ Emit(id, TRUE)
    /\ UNCHANGED <<lines, up, asked, reads, swallowed, panelVars, renders, chatTrouble>>

----------------------------------------------------------------------------
ChatInit ==
    /\ rows = <<>>
    /\ lines = [d \in Devices |-> <<>>]
    /\ wire = [d \in Devices |-> <<>>]
    /\ up = [d \in Devices |-> FALSE]
    /\ asked = [d \in Devices |-> FALSE]
    /\ reads = [d \in Devices |-> {}]
    /\ swallowed = [d \in Devices |-> FALSE]
    /\ box = [d \in Devices |-> 0]
    /\ sending = [d \in Devices |-> FALSE]
    /\ undone = [d \in Devices |-> 0]
    /\ request = [d \in Devices |-> Idle]
    /\ typed = [d \in Devices |-> 0]
    /\ renders = 0
    /\ chatTrouble = 0

Listens(d) == \/ EventArrives(d) \/ ChatDrops(d) \/ Connect(d) \/ Render(d)
              \/ ReadMessages(d) \/ TranscriptFails(d) \/ TranscriptLands(d)
Speaks(d)  == \/ Type(d) \/ Send(d) \/ Retract(d) \/ PutBack(d)
              \/ Post(d) \/ RetractMessage(d) \/ Refuse(d)
              \/ Answered(d) \/ AnswerLost(d)

ChatNext == Say \/ Unsay \/ \E d \in Devices : Listens(d) \/ Speaks(d)

ChatSpec == ChatInit /\ [][ChatNext]_chatVars

(* What the promises about the end assume: streams come back, events and    *)
(* transcripts arrive, requests are answered.  Nobody has to say anything.  *)
ChatFairness == \A d \in Devices :
    /\ WF_chatVars(Connect(d)) /\ WF_chatVars(EventArrives(d))
    /\ WF_chatVars(ReadMessages(d)) /\ WF_chatVars(TranscriptLands(d))
    /\ WF_chatVars(Post(d) \/ RetractMessage(d) \/ Refuse(d)) /\ WF_chatVars(Answered(d))

----------------------------------------------------------------------------
(* Properties                                                              *)

(* A line a device does not show is on its way: an event of it is on the    *)
(* wire, or a transcript that holds it has been asked for or read.  It does *)
(* not matter when it was said: before the panel connected, while the phone *)
(* slept, or while another transcript was in the air.  Only a connect whose *)
(* re-read was swallowed leaves a hole.                                     *)
NoLineForgotten == \A d \in Devices : up[d] /\ ~swallowed[d] =>
    \A id \in Rows \ DOMAIN lines[d] :
        \/ asked[d]
        \/ \E transcript \in reads[d] : id \in DOMAIN transcript
        \/ \E i \in DOMAIN wire[d] : wire[d][i].id = id

(* league-chat.tsx:124: merging the transcript "makes the component         *)
(* self-healing": in the end a connected device shows deleted what is.      *)
TombstonesStand == \A d \in Devices :
    <>[](up[d] /\ ~swallowed[d] =>
           \A id \in DOMAIN lines[d] : lines[d][id] = rows[id].deleted)

(* league-chat.tsx:308: "a refusal never costs somebody their sentence".    *)
Held(d, k) ==
    \/ k \in {box[d], undone[d]}
    \/ request[d].kind \in {"send", "restore"} /\ request[d].what = k
    \/ \E id \in Rows : rows[id].by = d /\ rows[id].sentence = k

SentencesSurviveRefusals ==
    [][\A d \in Devices :
         request[d].kind = "send" /\ request[d].stage = "refused" /\ request'[d] = Idle
           => \A k \in 1..typed[d] : Held(d, k) => Held(d, k)']_chatVars

(* lib/chat/actions.ts:49: "A send that fails leaves no trace and the       *)
(* sender is told": a send is over at some time, one way or the other.      *)
SendersAreTold == \A d \in Devices : sending[d] ~> ~sending[d]

=============================================================================
