------------------------- MODULE LeagueChat_proofs -------------------------
(***************************************************************************)
(* Proofs about the league chat, for any members and any number of         *)
(* sentences, re-renders, drops and lost answers: what three unordered     *)
(* sources tell a device is always true, and no line is forgotten.         *)
(***************************************************************************)
EXTENDS LeagueChat, TLAPS

Speakers == Devices \cup Others \cup {App}
Line     == [by : Speakers, sentence : Nat, deleted : BOOLEAN]
Event    == [id : Nat, deleted : BOOLEAN]
Lists    == UNION {[S -> BOOLEAN] : S \in SUBSET Nat}
Asks     == [kind : {"none", "send", "retract", "restore"}, what : Nat,
             stage : {"asked", "done", "refused"}, transcript : Lists]

ListTypeOK ==
    /\ rows \in Seq(Line)
    /\ lines \in [Devices -> Lists]
    /\ wire \in [Devices -> Seq(Event)]
    /\ up \in [Devices -> BOOLEAN]
    /\ asked \in [Devices -> BOOLEAN]
    /\ reads \in [Devices -> SUBSET Lists]
    /\ swallowed \in [Devices -> BOOLEAN]

PanelTypeOK ==
    /\ box \in [Devices -> Nat]
    /\ undone \in [Devices -> Nat]
    /\ typed \in [Devices -> Nat]
    /\ request \in [Devices -> Asks]

(* A copy is true to the transcript: it holds rows that exist, and shows as *)
(* deleted only what is.  It may be old: what was deleted since still shows.*)
TrueCopy(all, copy) ==
    \A id \in DOMAIN copy : id \in 1..Len(all) /\ (copy[id] => all[id].deleted)

TrueEvent(all, event) ==
    event.id \in 1..Len(all) /\ (event.deleted => all[event.id].deleted)

ListTrue(d) ==
    /\ TrueCopy(rows, lines[d])
    /\ \A transcript \in reads[d] : TrueCopy(rows, transcript)
    /\ \A i \in DOMAIN wire[d] : TrueEvent(rows, wire[d][i])

PanelTrue(d) ==
    /\ TrueCopy(rows, request[d].transcript)
    /\ request[d].kind = "retract" => request[d].what \in Rows

(* The part of NoLineForgotten about one line of one device. *)
Coming(d, id) ==
    \/ asked[d]
    \/ \E transcript \in reads[d] : id \in DOMAIN transcript
    \/ \E i \in DOMAIN wire[d] : wire[d][i].id = id

Remembers(d) == up[d] /\ ~swallowed[d] => \A id \in Rows \ DOMAIN lines[d] : Coming(d, id)

ListInv  == ListTypeOK  /\ \A d \in Devices : ListTrue(d) /\ Remembers(d)
PanelInv == PanelTypeOK /\ \A d \in Devices : PanelTrue(d)
ChatInv  == ListInv /\ PanelInv

(* No line a device shows is invented, and none is shown as deleted that    *)
(* its author, or the app's clean-up, did not delete: whatever order events,*)
(* transcripts and echoes come in.                                          *)
ShownIsTrue == \A d \in Devices : TrueCopy(rows, lines[d])

----------------------------------------------------------------------------
(* Lists, transcripts and events.                                          *)

(* A list is known by what it holds. *)
LEMMA ListFact ==
    ASSUME NEW list
    PROVE  list \in Lists
             <=> /\ DOMAIN list \subseteq Nat
                 /\ \A id \in DOMAIN list : list[id] \in BOOLEAN
                 /\ list = [id \in DOMAIN list |-> list[id]]
<1>1. ASSUME list \in Lists
      PROVE  /\ DOMAIN list \subseteq Nat
             /\ \A id \in DOMAIN list : list[id] \in BOOLEAN
             /\ list = [id \in DOMAIN list |-> list[id]]
    <2>1. PICK S \in SUBSET Nat : list \in [S -> BOOLEAN]
        BY <1>1 DEF Lists
    <2>2. QED BY <2>1
<1>2. ASSUME DOMAIN list \subseteq Nat,
             \A id \in DOMAIN list : list[id] \in BOOLEAN,
             list = [id \in DOMAIN list |-> list[id]]
      PROVE  list \in Lists
    <2>1. list \in [DOMAIN list -> BOOLEAN]
        BY <1>2
    <2>2. QED BY <1>2, <2>1 DEF Lists
<1>3. QED BY <1>1, <1>2

LEMMA EmptyList == <<>> \in Lists /\ DOMAIN <<>> = {}
<1>1. <<>> \in [{} -> BOOLEAN]
    OBVIOUS
<1>2. QED BY <1>1 DEF Lists

(* Merging holds what either list holds, and nothing else (league-chat's    *)
(* mergeById); two true copies merge to a true one.                         *)
LEMMA MergeFact ==
    ASSUME NEW mine \in Lists, NEW theirs \in Lists
    PROVE  /\ MergeById(mine, theirs) \in Lists
           /\ DOMAIN MergeById(mine, theirs) = DOMAIN mine \cup DOMAIN theirs
           /\ TrueCopy(rows, mine) /\ TrueCopy(rows, theirs)
                => TrueCopy(rows, MergeById(mine, theirs))
<1> DEFINE merged == MergeById(mine, theirs)
           held   == DOMAIN mine \cup DOMAIN theirs
<1>1. DOMAIN merged = held
    BY DEF MergeById
<1>2. \A id \in held : merged[id] = IF id \in DOMAIN theirs THEN theirs[id] ELSE mine[id]
    BY DEF MergeById
<1>3. held \in SUBSET Nat /\ \A id \in held : merged[id] \in BOOLEAN
    BY <1>2, ListFact
<1>4. merged \in [held -> BOOLEAN]
    BY <1>3 DEF MergeById
<1>5. merged \in Lists
    BY <1>3, <1>4 DEF Lists
<1>6. TrueCopy(rows, mine) /\ TrueCopy(rows, theirs) => TrueCopy(rows, merged)
    BY <1>1, <1>2 DEF TrueCopy
<1>7. QED BY <1>1, <1>5, <1>6

(* A transcript holds every row as it is. *)
LEMMA TranscriptFact ==
    ASSUME NEW all \in Seq(Line)
    PROVE  /\ Transcript(all) \in Lists
           /\ DOMAIN Transcript(all) = 1..Len(all)
           /\ TrueCopy(all, Transcript(all))
<1>1. Len(all) \in Nat /\ \A id \in 1..Len(all) : all[id].deleted \in BOOLEAN
    <2>1. Len(all) \in Nat /\ \A id \in 1..Len(all) : all[id] \in Line
        OBVIOUS
    <2>2. \A line \in Line : line.deleted \in BOOLEAN
        BY DEF Line
    <2>3. QED BY <2>1, <2>2
<1>2. 1..Len(all) \in SUBSET Nat
    BY <1>1
<1>3. Transcript(all) \in [1..Len(all) -> BOOLEAN]
    BY <1>1 DEF Transcript
<1>4. Transcript(all) \in Lists
    BY <1>2, <1>3 DEF Lists
<1>5. QED BY <1>4 DEF Transcript, TrueCopy

LEMMA OneFact ==
    ASSUME NEW id \in Nat, NEW deleted \in BOOLEAN
    PROVE  One(id, deleted) \in Lists /\ DOMAIN One(id, deleted) = {id}
                /\ One(id, deleted)[id] = deleted
<1>1. One(id, deleted) \in [{id} -> BOOLEAN] /\ {id} \in SUBSET Nat
    BY DEF One
<1>2. QED BY <1>1 DEF Lists, One

(* Rows are only added, and only ever deleted. *)
Grown(old, new) ==
    /\ Len(old) <= Len(new)
    /\ \A id \in 1..Len(old) : old[id].deleted => new[id].deleted

LEMMA GrownFact ==
    ASSUME NEW old \in Seq(Line), NEW new \in Seq(Line), Grown(old, new)
    PROVE  /\ 1..Len(old) \subseteq 1..Len(new)
           /\ \A copy : TrueCopy(old, copy) => TrueCopy(new, copy)
           /\ \A event : TrueEvent(old, event) => TrueEvent(new, event)
<1>1. Len(old) \in Nat /\ Len(new) \in Nat
    OBVIOUS
<1>2. 1..Len(old) \subseteq 1..Len(new)
    BY <1>1 DEF Grown
<1>3. QED BY <1>1, <1>2 DEF Grown, TrueCopy, TrueEvent

LEMMA AppendGrows ==
    ASSUME NEW all \in Seq(Line), NEW line \in Line
    PROVE  /\ Append(all, line) \in Seq(Line)
           /\ Len(Append(all, line)) = Len(all) + 1
           /\ Grown(all, Append(all, line))
           /\ Append(all, line)[Len(all) + 1] = line
BY DEF Grown

LEMMA DeleteGrows ==
    ASSUME NEW all \in Seq(Line), NEW id \in 1..Len(all)
    PROVE  LET new == [all EXCEPT ![id].deleted = TRUE]
           IN  /\ new \in Seq(Line)
               /\ Len(new) = Len(all)
               /\ Grown(all, new)
               /\ new[id].deleted
<1> DEFINE new == [all EXCEPT ![id].deleted = TRUE]
<1>1. new = [all EXCEPT ![id] = [all[id] EXCEPT !.deleted = TRUE]]
    OBVIOUS
<1>2. all[id] \in Line
    OBVIOUS
<1>3. [all[id] EXCEPT !.deleted = TRUE] \in Line /\ [all[id] EXCEPT !.deleted = TRUE].deleted
    BY <1>2 DEF Line
<1> HIDE DEF new
<1>4. new \in Seq(Line) /\ Len(new) = Len(all)
    BY <1>1, <1>3
<1>5. \A i \in 1..Len(all) :
          new[i] = IF i = id THEN [all[id] EXCEPT !.deleted = TRUE] ELSE all[i]
    BY <1>1
<1>6. QED BY <1>3, <1>4, <1>5 DEF Grown, new

(* An event emitted reaches every device that listens, after what is on its *)
(* way; no device loses or gains anything else.                             *)
LEMMA EmitFact ==
    ASSUME ListTypeOK, NEW id \in Nat, NEW deleted \in BOOLEAN, Emit(id, deleted),
           NEW d \in Devices
    PROVE  /\ wire'[d] \in Seq(Event)
           /\ DOMAIN wire[d] \subseteq DOMAIN wire'[d]
           /\ \A i \in DOMAIN wire[d] : wire'[d][i] = wire[d][i]
           /\ \A i \in DOMAIN wire'[d] :
                \/ i \in DOMAIN wire[d]
                \/ wire'[d][i] = [id |-> id, deleted |-> deleted]
           /\ up[d] => \E i \in DOMAIN wire'[d] : wire'[d][i].id = id
<1> DEFINE event == [id |-> id, deleted |-> deleted]
<1>1. event \in Event /\ event.id = id
    BY DEF Event
<1> HIDE DEF event
<1>2. wire[d] \in Seq(Event) /\ up[d] \in BOOLEAN
    BY DEF ListTypeOK
<1>3. wire'[d] = IF up[d] THEN Append(wire[d], event) ELSE wire[d]
    BY DEF Emit, event
<1>4. CASE up[d]
    <2>1. wire'[d] = Append(wire[d], event)
        BY <1>3, <1>4
    <2>2. /\ wire'[d] \in Seq(Event)
          /\ Len(wire'[d]) = Len(wire[d]) + 1
          /\ wire'[d][Len(wire[d]) + 1] = event
          /\ \A i \in 1..Len(wire[d]) : wire'[d][i] = wire[d][i]
        BY <2>1, <1>1, <1>2
    <2>3. DOMAIN wire[d] = 1..Len(wire[d]) /\ DOMAIN wire'[d] = 1..(Len(wire[d]) + 1)
            /\ Len(wire[d]) \in Nat
        BY <1>2, <2>2
    <2>4. QED BY <2>2, <2>3, <1>1 DEF event
<1>5. CASE ~up[d]
    BY <1>2, <1>3, <1>5
<1>6. QED BY <1>4, <1>5

----------------------------------------------------------------------------
(* The panel's steps that touch neither the rows nor any list.             *)

LEMMA SameList ==
    ASSUME ListInv, UNCHANGED <<rows, deviceVars>>
    PROVE  ListInv'
<1>1. UNCHANGED <<rows, lines, wire, up, asked, reads, swallowed>>
    BY DEF deviceVars
<1>2. ListTypeOK'
    BY <1>1 DEF ListInv, ListTypeOK
<1>3. ASSUME NEW d \in Devices PROVE ListTrue(d)' /\ Remembers(d)'
    <2>1. ListTrue(d) /\ Remembers(d)
        BY DEF ListInv
    <2>2. ListTrue(d)'
        BY <1>1, <2>1 DEF ListTrue
    <2>3. Remembers(d)'
        BY <1>1, <2>1 DEF Remembers, Coming, Rows
    <2>4. QED BY <2>2, <2>3
<1>4. QED BY <1>2, <1>3 DEF ListInv

LEMMA SamePanel ==
    ASSUME PanelInv, ListTypeOK, ListTypeOK', Grown(rows, rows'), UNCHANGED panelVars
    PROVE  PanelInv'
<1>1. PanelTypeOK'
    BY DEF PanelInv, PanelTypeOK, panelVars
<1>2. ASSUME NEW d \in Devices PROVE PanelTrue(d)'
    <2>1. PanelTrue(d) /\ request' = request
        BY DEF PanelInv, panelVars
    <2>2. rows \in Seq(Line) /\ rows' \in Seq(Line)
        BY DEF ListTypeOK
    <2>3. QED BY <2>1, <2>2, GrownFact DEF PanelTrue, Rows
<1>3. QED BY <1>1, <1>2 DEF PanelInv

LEMMA SameRowsGrown == ASSUME ListTypeOK, UNCHANGED rows PROVE Grown(rows, rows')
<1>1. Len(rows) \in Nat
    BY DEF ListTypeOK
<1>2. QED BY <1>1 DEF Grown

(* One device's request is replaced by another that is true to the rows.   *)
LEMMA RequestChanges ==
    ASSUME PanelInv, ListTypeOK, ListTypeOK', Grown(rows, rows'),
           NEW d \in Devices, NEW r \in Asks, request' = [request EXCEPT ![d] = r],
           TrueCopy(rows', r.transcript), r.kind = "retract" => r.what \in Rows',
           box' \in [Devices -> Nat], undone' \in [Devices -> Nat], typed' \in [Devices -> Nat]
    PROVE  PanelInv'
<1>1. PanelTypeOK'
    BY DEF PanelInv, PanelTypeOK
<1>2. ASSUME NEW e \in Devices PROVE PanelTrue(e)'
    <2>1. request \in [Devices -> Asks] /\ PanelTrue(e)
        BY DEF PanelInv, PanelTypeOK
    <2>2. rows \in Seq(Line) /\ rows' \in Seq(Line)
        BY DEF ListTypeOK
    <2>3. CASE e = d
        BY <2>1, <2>3 DEF PanelTrue
    <2>4. CASE e # d
        BY <2>1, <2>2, <2>4, GrownFact DEF PanelTrue, Rows
    <2>5. QED BY <2>3, <2>4
<1>3. QED BY <1>1, <1>2 DEF PanelInv

LEMMA IdleFact == Idle \in Asks /\ Idle.kind = "none" /\ \A all : TrueCopy(all, Idle.transcript)
<1>1. Idle.transcript = <<>> /\ Idle.kind = "none"
    BY DEF Idle
<1>2. Idle \in Asks
    BY EmptyList DEF Idle, Asks
<1>3. QED BY <1>1, <1>2, EmptyList DEF TrueCopy

(* Asking replaces an idle request by one that carries nothing yet. *)
LEMMA AskingKeeps ==
    ASSUME PanelInv, ListTypeOK, ListTypeOK', Grown(rows, rows'),
           NEW d \in Devices, NEW kind \in {"send", "retract", "restore"}, NEW what \in Nat,
           Asking(d, kind, what), kind = "retract" => what \in Rows',
           box' \in [Devices -> Nat], undone' \in [Devices -> Nat], typed' \in [Devices -> Nat]
    PROVE  PanelInv'
<1> DEFINE r == [Idle EXCEPT !.kind = kind, !.what = what]
<1>1. r.kind = kind /\ r.what = what /\ r.transcript = <<>> /\ r \in Asks
    BY EmptyList DEF Idle, Asks
<1>2. request' = [request EXCEPT ![d] = r]
    BY DEF Asking
<1>3. TrueCopy(rows', r.transcript)
    BY <1>1, EmptyList DEF TrueCopy
<1> HIDE DEF r
<1>4. QED BY <1>1, <1>2, <1>3, RequestChanges

LEMMA PanelStep ==
    ASSUME ChatInv, NEW d \in Devices,
           Type(d) \/ Send(d) \/ Retract(d) \/ PutBack(d) \/ Refuse(d) \/ AnswerLost(d)
    PROVE  ChatInv'
<1>1. UNCHANGED <<rows, deviceVars>>
    BY DEF Type, Send, Retract, PutBack, Refuse, AnswerLost
<1>2. ListInv /\ ListTypeOK /\ PanelInv /\ PanelTypeOK
    BY DEF ChatInv, ListInv, PanelInv
<1>3. ListInv' /\ ListTypeOK'
    BY <1>1, <1>2, SameList DEF ListInv
<1>4. Grown(rows, rows') /\ Rows' = Rows
    BY <1>1, <1>2, SameRowsGrown DEF Rows
<1>5. /\ box \in [Devices -> Nat] /\ undone \in [Devices -> Nat] /\ typed \in [Devices -> Nat]
      /\ request \in [Devices -> Asks]
    BY <1>2 DEF PanelTypeOK
<1>6. CASE Type(d)
    <2>1. typed' \in [Devices -> Nat] /\ box' \in [Devices -> Nat]
        BY <1>5, <1>6 DEF Type
    <2>2. PanelTypeOK' /\ request' = request
        BY <2>1, <1>5, <1>6 DEF Type, PanelTypeOK
    <2>3. PanelInv'
        BY <2>2, <1>2, <1>1, <1>4 DEF PanelInv, PanelTrue
    <2>4. QED BY <2>3, <1>3 DEF ChatInv
<1>7. CASE Send(d)
    <2>1. /\ Asking(d, "send", box[d]) /\ box[d] \in Nat
          /\ box' \in [Devices -> Nat] /\ undone' = undone /\ typed' = typed
        BY <1>5, <1>7 DEF Send
    <2>2. PanelInv'
        BY <2>1, <1>2, <1>3, <1>4, <1>5, AskingKeeps
    <2>3. QED BY <2>2, <1>3 DEF ChatInv
<1>8. CASE Retract(d)
    <2>1. PICK id \in DOMAIN lines[d] : Asking(d, "retract", id)
        BY <1>8 DEF Retract
    <2>2. id \in Rows
        BY <1>2 DEF ListInv, ListTrue, TrueCopy, Rows
    <2>3. id \in Nat
        BY <2>2 DEF Rows
    <2>4. box' = box /\ undone' = undone /\ typed' = typed
        BY <1>8 DEF Retract
    <2>5. PanelInv'
        BY <2>1, <2>2, <2>3, <2>4, <1>2, <1>3, <1>4, <1>5, AskingKeeps
    <2>6. QED BY <2>5, <1>3 DEF ChatInv
<1>9. CASE PutBack(d)
    <2>1. /\ Asking(d, "restore", undone[d]) /\ undone[d] \in Nat
          /\ undone' \in [Devices -> Nat] /\ box' = box /\ typed' = typed
        BY <1>5, <1>9 DEF PutBack
    <2>2. PanelInv'
        BY <2>1, <1>2, <1>3, <1>4, <1>5, AskingKeeps
    <2>3. QED BY <2>2, <1>3 DEF ChatInv
<1>10. CASE Refuse(d)
    <2> DEFINE r == [request[d] EXCEPT !.stage = "refused"]
    <2>1. request' = [request EXCEPT ![d] = r]
        BY <1>10 DEF Refuse
    <2>2. /\ r \in Asks /\ r.transcript = request[d].transcript
          /\ r.kind = request[d].kind /\ r.what = request[d].what
        BY <1>5 DEF Asks
    <2>3. box' = box /\ undone' = undone /\ typed' = typed
        BY <1>10 DEF Refuse
    <2>4. TrueCopy(rows', r.transcript) /\ (r.kind = "retract" => r.what \in Rows')
        BY <2>2, <1>1, <1>2, <1>4 DEF PanelInv, PanelTrue
    <2> HIDE DEF r
    <2>5. PanelInv'
        BY <2>1, <2>2, <2>3, <2>4, <1>2, <1>3, <1>4, <1>5, RequestChanges
    <2>6. QED BY <2>5, <1>3 DEF ChatInv
<1>11. CASE AnswerLost(d)
    <2>1. /\ request' = [request EXCEPT ![d] = Idle]
          /\ box' = box /\ undone' = undone /\ typed' = typed
        BY <1>11 DEF AnswerLost
    <2>2. PanelInv'
        BY <2>1, <1>2, <1>3, <1>4, <1>5, IdleFact, RequestChanges
    <2>3. QED BY <2>2, <1>3 DEF ChatInv
<1>12. QED BY <1>6, <1>7, <1>8, <1>9, <1>10, <1>11

----------------------------------------------------------------------------
(* A device's own steps: the list changes, the rows do not.                *)

LEMMA OneListChanges ==
    ASSUME ListInv, ListTypeOK', UNCHANGED rows, NEW d \in Devices,
           \A e \in Devices \ {d} :
              /\ lines'[e] = lines[e] /\ wire'[e] = wire[e] /\ reads'[e] = reads[e]
              /\ up'[e] = up[e] /\ asked'[e] = asked[e] /\ swallowed'[e] = swallowed[e],
           ListTrue(d)', Remembers(d)'
    PROVE  ListInv'
<1>1. ASSUME NEW e \in Devices PROVE ListTrue(e)' /\ Remembers(e)'
    <2>1. ListTrue(e) /\ Remembers(e)
        BY DEF ListInv
    <2>2. CASE e = d
        BY <2>2
    <2>3. CASE e # d
        BY <2>1, <2>3 DEF ListTrue, Remembers, Coming, Rows
    <2>4. QED BY <2>2, <2>3
<1>2. QED BY <1>1 DEF ListInv

(* Merging a true list into what a device shows forgets nothing, as long as *)
(* what it takes off the way to the device is what it merges.               *)
LEMMA MergeKeeps ==
    ASSUME ListInv, UNCHANGED <<rows, up, asked, swallowed>>, NEW d \in Devices,
           NEW list \in Lists, TrueCopy(rows, list),
           lines' = [lines EXCEPT ![d] = MergeById(@, list)],
           wire' \in [Devices -> Seq(Event)], reads' \in [Devices -> SUBSET Lists],
           \A e \in Devices \ {d} : wire'[e] = wire[e] /\ reads'[e] = reads[e],
           reads'[d] \subseteq reads[d],
           \A i \in DOMAIN wire'[d] : TrueEvent(rows, wire'[d][i]),
           \A transcript \in reads[d] \ reads'[d] : DOMAIN transcript \subseteq DOMAIN list,
           \A i \in DOMAIN wire[d] :
              \/ wire[d][i].id \in DOMAIN list
              \/ \E j \in DOMAIN wire'[d] : wire'[d][j].id = wire[d][i].id
    PROVE  ListInv'
<1>1. /\ ListTypeOK /\ ListTrue(d) /\ Remembers(d)
      /\ lines[d] \in Lists /\ lines \in [Devices -> Lists]
    BY DEF ListInv, ListTypeOK
<1>2. /\ lines'[d] = MergeById(lines[d], list) /\ lines'[d] \in Lists
      /\ DOMAIN lines'[d] = DOMAIN lines[d] \cup DOMAIN list
      /\ TrueCopy(rows, lines'[d])
    BY <1>1, MergeFact DEF ListTrue
<1>3. ListTypeOK'
    <2>1. lines' \in [Devices -> Lists]
        BY <1>1, <1>2
    <2>2. QED BY <2>1, <1>1 DEF ListTypeOK
<1>4. ListTrue(d)'
    BY <1>1, <1>2 DEF ListTrue
<1>5. Remembers(d)'
    <2>1. SUFFICES ASSUME up[d], ~swallowed[d], NEW id \in Rows, id \notin DOMAIN lines'[d]
                   PROVE  Coming(d, id)'
        BY DEF Remembers, Rows
    <2>2. id \notin DOMAIN lines[d] /\ id \notin DOMAIN list
        BY <1>2, <2>1
    <2>3. Coming(d, id)
        BY <1>1, <2>1, <2>2 DEF Remembers
    <2>4. QED BY <2>2, <2>3 DEF Coming
<1>6. \A e \in Devices \ {d} : lines'[e] = lines[e]
    BY <1>1
<1>7. QED BY <1>3, <1>4, <1>5, <1>6, OneListChanges

LEMMA ArrivalKeeps ==
    ASSUME ListInv, NEW d \in Devices, EventArrives(d)
    PROVE  ListInv'
<1> DEFINE event == Head(wire[d])
           list  == One(event.id, event.deleted)
<1>1. ListTypeOK /\ ListTrue(d)
    BY DEF ListInv
<1>2. wire[d] \in Seq(Event) /\ wire[d] # <<>> /\ wire \in [Devices -> Seq(Event)]
    BY <1>1 DEF ListTypeOK, EventArrives
<1>3. /\ 1 \in DOMAIN wire[d] /\ event = wire[d][1] /\ event \in Event
      /\ Tail(wire[d]) \in Seq(Event)
      /\ \A i \in DOMAIN wire[d] : i # 1 => /\ i - 1 \in DOMAIN Tail(wire[d])
                                            /\ Tail(wire[d])[i - 1] = wire[d][i]
      /\ \A i \in DOMAIN Tail(wire[d]) : /\ i + 1 \in DOMAIN wire[d]
                                         /\ Tail(wire[d])[i] = wire[d][i + 1]
    BY <1>2
<1>4. event.id \in Nat /\ event.deleted \in BOOLEAN /\ TrueEvent(rows, event)
    BY <1>1, <1>3 DEF Event, ListTrue
<1> HIDE DEF event
<1>5. list \in Lists /\ DOMAIN list = {event.id} /\ list[event.id] = event.deleted
    BY <1>4, OneFact
<1>6. TrueCopy(rows, list)
    BY <1>4, <1>5 DEF TrueCopy, TrueEvent
<1>7. /\ lines' = [lines EXCEPT ![d] = MergeById(@, list)]
      /\ wire' = [wire EXCEPT ![d] = Tail(@)]
      /\ UNCHANGED <<rows, up, asked, swallowed, reads>>
    BY DEF EventArrives, event
<1> HIDE DEF list
<1>8. wire'[d] = Tail(wire[d]) /\ wire' \in [Devices -> Seq(Event)]
    BY <1>2, <1>3, <1>7
<1>9. \A i \in DOMAIN wire'[d] : TrueEvent(rows, wire'[d][i])
    BY <1>1, <1>3, <1>8 DEF ListTrue
<1>10. \A i \in DOMAIN wire[d] :
          \/ wire[d][i].id \in DOMAIN list
          \/ \E j \in DOMAIN wire'[d] : wire'[d][j].id = wire[d][i].id
    BY <1>3, <1>5, <1>8
<1>11. reads' \in [Devices -> SUBSET Lists]
    BY <1>1, <1>7 DEF ListTypeOK
<1>12. \A e \in Devices \ {d} : wire'[e] = wire[e] /\ reads'[e] = reads[e]
    BY <1>2, <1>7
<1>13. reads'[d] = reads[d]
    BY <1>7
<1>14. QED BY <1>5, <1>6, <1>7, <1>8, <1>9, <1>10, <1>11, <1>12, <1>13, MergeKeeps

LEMMA LandingKeeps ==
    ASSUME ListInv, NEW d \in Devices, TranscriptLands(d)
    PROVE  ListInv'
<1>1. /\ ListTypeOK /\ ListTrue(d) /\ reads \in [Devices -> SUBSET Lists]
      /\ wire \in [Devices -> Seq(Event)]
    BY DEF ListInv, ListTypeOK
<1>2. PICK list \in reads[d] : /\ lines' = [lines EXCEPT ![d] = MergeById(@, list)]
                               /\ reads' = [reads EXCEPT ![d] = @ \ {list}]
    BY DEF TranscriptLands
<1>3. list \in Lists /\ TrueCopy(rows, list)
    BY <1>1 DEF ListTrue
<1>4. /\ reads' \in [Devices -> SUBSET Lists] /\ reads'[d] = reads[d] \ {list}
      /\ \A e \in Devices \ {d} : reads'[e] = reads[e]
    BY <1>1, <1>2
<1>5. UNCHANGED <<rows, wire, up, asked, swallowed>>
    BY DEF TranscriptLands
<1>6. \A i \in DOMAIN wire'[d] : TrueEvent(rows, wire'[d][i])
    BY <1>1, <1>5 DEF ListTrue
<1>7. \A transcript \in reads[d] \ reads'[d] : DOMAIN transcript \subseteq DOMAIN list
    BY <1>4
<1>8. QED BY <1>1, <1>2, <1>3, <1>4, <1>5, <1>6, <1>7, MergeKeeps

(* Asking, reading and failing only move a device along.                   *)
LEMMA TranscriptRead ==
    ASSUME ListInv, NEW d \in Devices, Render(d) \/ ReadMessages(d)
    PROVE  ListInv'
<1> DEFINE read == Transcript(rows)
<1>1. ListTypeOK /\ ListTrue(d) /\ Remembers(d)
    BY DEF ListInv
<1>2. read \in Lists /\ DOMAIN read = Rows /\ TrueCopy(rows, read)
    BY <1>1, TranscriptFact DEF ListTypeOK, Rows
<1> HIDE DEF read
<1>3. /\ reads' = [reads EXCEPT ![d] = @ \cup {read}]
      /\ UNCHANGED <<rows, lines, wire, up, swallowed>>
      /\ asked' \in [Devices -> BOOLEAN]
      /\ \A e \in Devices \ {d} : asked'[e] = asked[e]
    BY <1>1 DEF Render, ReadMessages, ListTypeOK, read
<1>4. reads \in [Devices -> SUBSET Lists]
    BY <1>1 DEF ListTypeOK
<1>5. /\ reads' \in [Devices -> SUBSET Lists] /\ reads'[d] = reads[d] \cup {read}
      /\ \A e \in Devices \ {d} : reads'[e] = reads[e]
    BY <1>2, <1>3, <1>4
<1>6. ListTypeOK'
    BY <1>1, <1>3, <1>5 DEF ListTypeOK
<1>7. ListTrue(d)'
    BY <1>1, <1>2, <1>3, <1>5 DEF ListTrue
<1>8. Remembers(d)'
    BY <1>2, <1>3, <1>5 DEF Remembers, Coming, Rows
<1>9. QED BY <1>3, <1>5, <1>6, <1>7, <1>8, OneListChanges

LEMMA ConnectionKeeps ==
    ASSUME ListInv, NEW d \in Devices, ChatDrops(d) \/ Connect(d) \/ TranscriptFails(d)
    PROVE  ListInv'
<1>1. ListTypeOK /\ ListTrue(d) /\ Remembers(d)
    BY DEF ListInv
<1>2. UNCHANGED <<rows, lines, reads>>
    BY DEF ChatDrops, Connect, TranscriptFails
<1>3. CASE ChatDrops(d)
    <2>1. /\ up'[d] = FALSE /\ wire'[d] = <<>> /\ UNCHANGED <<asked, swallowed>>
          /\ up' \in [Devices -> BOOLEAN] /\ wire' \in [Devices -> Seq(Event)]
          /\ \A e \in Devices \ {d} : up'[e] = up[e] /\ wire'[e] = wire[e]
        BY <1>1, <1>3 DEF ChatDrops, ListTypeOK
    <2>2. ListTypeOK'
        BY <1>1, <1>2, <2>1 DEF ListTypeOK
    <2>3. ListTrue(d)'
        BY <1>1, <1>2, <2>1, EmptyList DEF ListTrue
    <2>4. Remembers(d)'
        BY <2>1 DEF Remembers
    <2>5. QED BY <1>2, <2>1, <2>2, <2>3, <2>4, OneListChanges
<1>4. CASE Connect(d)
    <2>1. /\ asked'[d] = TRUE /\ UNCHANGED wire
          /\ up' \in [Devices -> BOOLEAN] /\ asked' \in [Devices -> BOOLEAN]
          /\ swallowed' \in [Devices -> BOOLEAN]
          /\ \A e \in Devices \ {d} :
                up'[e] = up[e] /\ asked'[e] = asked[e] /\ swallowed'[e] = swallowed[e]
        BY <1>1, <1>4 DEF Connect, ListTypeOK
    <2>2. ListTypeOK'
        BY <1>1, <1>2, <2>1 DEF ListTypeOK
    <2>3. ListTrue(d)'
        BY <1>1, <1>2, <2>1 DEF ListTrue
    <2>4. Remembers(d)'
        BY <2>1 DEF Remembers, Coming
    <2>5. QED BY <1>2, <2>1, <2>2, <2>3, <2>4, OneListChanges
<1>5. CASE TranscriptFails(d)
    <2>1. /\ swallowed'[d] = TRUE /\ UNCHANGED <<wire, up>>
          /\ asked' \in [Devices -> BOOLEAN] /\ swallowed' \in [Devices -> BOOLEAN]
          /\ \A e \in Devices \ {d} : asked'[e] = asked[e] /\ swallowed'[e] = swallowed[e]
        BY <1>1, <1>5 DEF TranscriptFails, ListTypeOK
    <2>2. ListTypeOK'
        BY <1>1, <1>2, <2>1 DEF ListTypeOK
    <2>3. ListTrue(d)'
        BY <1>1, <1>2, <2>1 DEF ListTrue
    <2>4. Remembers(d)'
        BY <2>1 DEF Remembers
    <2>5. QED BY <1>2, <2>1, <2>2, <2>3, <2>4, OneListChanges
<1>6. QED BY <1>3, <1>4, <1>5

LEMMA ListenStep ==
    ASSUME ChatInv, NEW d \in Devices, Listens(d)
    PROVE  ChatInv'
<1>1. ListInv /\ PanelInv /\ ListTypeOK
    BY DEF ChatInv, ListInv
<1>2. UNCHANGED <<rows, panelVars>>
    BY DEF Listens, EventArrives, ChatDrops, Connect, Render, ReadMessages,
           TranscriptFails, TranscriptLands
<1>3. ListInv' /\ ListTypeOK'
    <2>1. ListInv'
        BY <1>1, ArrivalKeeps, LandingKeeps, TranscriptRead, ConnectionKeeps DEF Listens
    <2>2. QED BY <2>1 DEF ListInv
<1>4. PanelInv'
    BY <1>1, <1>2, <1>3, SameRowsGrown, SamePanel
<1>5. QED BY <1>3, <1>4 DEF ChatInv

(* An answer merges the transcript it carries, true since it was written.  *)
LEMMA AnswerKeeps ==
    ASSUME ChatInv, NEW d \in Devices, Answered(d)
    PROVE  ChatInv'
<1> DEFINE r == request[d]
<1>1. ListInv /\ PanelInv /\ ListTypeOK /\ PanelTypeOK /\ PanelTrue(d) /\ ListTrue(d)
    BY DEF ChatInv, ListInv, PanelInv
<1>2. r \in Asks /\ r.transcript \in Lists /\ r.what \in Nat
    BY <1>1 DEF PanelTypeOK, Asks
<1>3. UNCHANGED <<rows, wire, up, asked, reads, swallowed, typed>>
    BY DEF Answered
<1>4. lines' = [lines EXCEPT ![d] = MergeById(@, r.transcript)]
    BY DEF Answered
<1>5. ListInv'
    <2>1. TrueCopy(rows, r.transcript)
        BY <1>1 DEF PanelTrue
    <2>2. wire' \in [Devices -> Seq(Event)] /\ reads' \in [Devices -> SUBSET Lists]
        BY <1>1, <1>3 DEF ListTypeOK
    <2>3. \A i \in DOMAIN wire'[d] : TrueEvent(rows, wire'[d][i])
        BY <1>1, <1>3 DEF ListTrue
    <2> HIDE DEF r
    <2>4. QED BY <1>1, <1>2, <1>3, <1>4, <2>1, <2>2, <2>3, MergeKeeps
<1>6. Grown(rows, rows') /\ ListTypeOK'
    BY <1>1, <1>3, <1>5, SameRowsGrown DEF ListInv
<1>7. request' = [request EXCEPT ![d] = Idle]
    BY DEF Answered
<1>8. box' \in [Devices -> Nat] /\ typed' \in [Devices -> Nat]
    BY <1>1, <1>2, <1>3 DEF Answered, PanelTypeOK
<1>9. undone' \in [Devices -> Nat]
    <2>1. undone \in [Devices -> Nat]
        BY <1>1 DEF PanelTypeOK
    <2>2. r.kind = "retract" => rows[r.what].sentence \in Nat
        <3>1. r.kind = "retract" => r.what \in Rows
            BY <1>1 DEF PanelTrue
        <3>2. \A id \in Rows : rows[id] \in Line
            BY <1>1 DEF ListTypeOK, Rows
        <3>3. QED BY <3>1, <3>2 DEF Line
    <2>3. undone' = [undone EXCEPT ![d] =
                       CASE r.kind = "retract" /\ r.stage = "done" -> rows[r.what].sentence
                         [] r.kind = "restore" /\ r.stage = "refused" -> r.what
                         [] OTHER -> @]
        BY DEF Answered
    <2> HIDE DEF r
    <2>4. QED BY <1>2, <2>1, <2>2, <2>3
<1>10. PanelInv'
    BY <1>1, <1>6, <1>7, <1>8, <1>9, IdleFact, RequestChanges
<1>11. QED BY <1>5, <1>10 DEF ChatInv

----------------------------------------------------------------------------
(* The steps that write a row, and tell every device that listens.         *)

LEMMA WriteKeeps ==
    ASSUME ListInv, NEW id \in Nat, NEW deleted \in BOOLEAN, Emit(id, deleted),
           rows' \in Seq(Line), Grown(rows, rows'),
           TrueEvent(rows', [id |-> id, deleted |-> deleted]),
           \/ Len(rows') = Len(rows)
           \/ id = Len(rows) + 1 /\ Len(rows') = Len(rows) + 1,
           UNCHANGED <<lines, up, asked, reads, swallowed>>
    PROVE  ListInv'
<1>1. ListTypeOK /\ rows \in Seq(Line) /\ Len(rows) \in Nat
    BY DEF ListInv, ListTypeOK
<1>2. /\ \A copy : TrueCopy(rows, copy) => TrueCopy(rows', copy)
      /\ \A event : TrueEvent(rows, event) => TrueEvent(rows', event)
    BY <1>1, GrownFact
<1>3. ListTypeOK'
    <2>1. \A d \in Devices : wire'[d] \in Seq(Event)
        BY <1>1, EmitFact
    <2>2. wire' = [d \in Devices |-> wire'[d]]
        BY DEF Emit
    <2>3. wire' \in [Devices -> Seq(Event)]
        BY <2>1, <2>2
    <2>4. QED BY <1>1, <2>3 DEF ListTypeOK
<1>4. ASSUME NEW d \in Devices PROVE ListTrue(d)' /\ Remembers(d)'
    <2>1. ListTrue(d) /\ Remembers(d)
        BY DEF ListInv
    <2>2. /\ DOMAIN wire[d] \subseteq DOMAIN wire'[d]
          /\ \A i \in DOMAIN wire[d] : wire'[d][i] = wire[d][i]
          /\ \A i \in DOMAIN wire'[d] :
               i \in DOMAIN wire[d] \/ wire'[d][i] = [id |-> id, deleted |-> deleted]
          /\ up[d] => \E i \in DOMAIN wire'[d] : wire'[d][i].id = id
        BY <1>1, EmitFact
    <2>3. ListTrue(d)'
        BY <1>2, <2>1, <2>2 DEF ListTrue
    <2>4. Remembers(d)'
        <3>1. SUFFICES ASSUME up[d], ~swallowed[d],
                              NEW line \in Rows', line \notin DOMAIN lines[d]
                       PROVE  Coming(d, line)'
            BY DEF Remembers
        <3>2. line \in Rows \/ line = id
            BY <1>1, <3>1 DEF Rows
        <3>3. CASE line \in Rows
            <4>1. Coming(d, line)
                BY <2>1, <3>1, <3>3 DEF Remembers
            <4>2. QED BY <4>1, <2>2 DEF Coming
        <3>4. CASE line = id
            BY <2>2, <3>1, <3>4 DEF Coming
        <3>5. QED BY <3>2, <3>3, <3>4
    <2>5. QED BY <2>3, <2>4
<1>5. QED BY <1>3, <1>4 DEF ListInv

(* A line said. *)
LEMMA SayingKeeps ==
    ASSUME ListInv, NEW line \in Line, line.deleted = FALSE,
           rows' = Append(rows, line), Emit(Len(rows) + 1, FALSE),
           UNCHANGED <<lines, up, asked, reads, swallowed>>
    PROVE  ListInv' /\ Grown(rows, rows')
<1>1. rows \in Seq(Line) /\ Len(rows) \in Nat
    BY DEF ListInv, ListTypeOK
<1>2. rows' \in Seq(Line) /\ Len(rows') = Len(rows) + 1 /\ Grown(rows, rows')
    BY <1>1, AppendGrows
<1>3. TrueEvent(rows', [id |-> Len(rows) + 1, deleted |-> FALSE])
    BY <1>1, <1>2 DEF TrueEvent
<1>4. Len(rows) + 1 \in Nat
    BY <1>1
<1>5. ListInv'
    BY <1>2, <1>3, <1>4, WriteKeeps
<1>6. QED BY <1>2, <1>5

(* Word of a line deleted. *)
LEMMA TellingKeeps ==
    ASSUME ListInv, NEW id \in Rows, rows' \in Seq(Line), Grown(rows, rows'),
           Len(rows') = Len(rows), rows'[id].deleted, Emit(id, TRUE),
           UNCHANGED <<lines, up, asked, reads, swallowed>>
    PROVE  ListInv'
<1>1. rows \in Seq(Line) /\ Len(rows) \in Nat
    BY DEF ListInv, ListTypeOK
<1>2. TrueEvent(rows', [id |-> id, deleted |-> TRUE])
    BY <1>1 DEF TrueEvent, Rows
<1>3. id \in Nat
    BY <1>1 DEF Rows
<1>4. QED BY <1>2, <1>3, WriteKeeps

(* A line deleted. *)
LEMMA DeletingKeeps ==
    ASSUME ListInv, NEW id \in Rows,
           rows' = [rows EXCEPT ![id].deleted = TRUE],
           Emit(id, TRUE) \/ (rows[id].deleted /\ UNCHANGED wire),
           UNCHANGED <<lines, up, asked, reads, swallowed>>
    PROVE  ListInv' /\ Grown(rows, rows')
<1>1. ListTypeOK /\ rows \in Seq(Line) /\ Len(rows) \in Nat
    BY DEF ListInv, ListTypeOK
<1>2. /\ rows' \in Seq(Line) /\ Len(rows') = Len(rows) /\ Grown(rows, rows')
      /\ rows'[id].deleted
    BY <1>1, DeleteGrows DEF Rows
<1>3. CASE Emit(id, TRUE)
    BY <1>1, <1>2, <1>3, TellingKeeps
<1>4. CASE UNCHANGED wire
    <2>1. /\ \A copy : TrueCopy(rows, copy) => TrueCopy(rows', copy)
          /\ \A event : TrueEvent(rows, event) => TrueEvent(rows', event)
        BY <1>1, <1>2, GrownFact
    <2>2. ListTypeOK'
        BY <1>1, <1>2, <1>4 DEF ListTypeOK
    <2>3. ASSUME NEW d \in Devices PROVE ListTrue(d)' /\ Remembers(d)'
        <3>1. ListTrue(d) /\ Remembers(d)
            BY DEF ListInv
        <3>2. ListTrue(d)'
            BY <1>4, <2>1, <3>1 DEF ListTrue
        <3>3. Remembers(d)'
            BY <1>2, <1>4, <3>1 DEF Remembers, Coming, Rows
        <3>4. QED BY <3>2, <3>3
    <2>4. ListInv'
        BY <2>2, <2>3 DEF ListInv
    <2>5. QED BY <1>2, <2>4
<1>5. QED BY <1>3, <1>4

LEMMA OthersStep ==
    ASSUME ChatInv, Say \/ Unsay
    PROVE  ChatInv'
<1>1. ListInv /\ PanelInv /\ ListTypeOK /\ UNCHANGED panelVars
    BY DEF ChatInv, ListInv, Say, Unsay
<1>2. ListInv' /\ Grown(rows, rows')
    <2>1. CASE Say
        <3>1. PICK by \in Others \cup {App} :
                 rows' = Append(rows, [by |-> by, sentence |-> 0, deleted |-> FALSE])
            BY <2>1 DEF Say
        <3>2. [by |-> by, sentence |-> 0, deleted |-> FALSE] \in Line
            BY DEF Line, Speakers
        <3>3. Emit(Len(rows) + 1, FALSE) /\ UNCHANGED <<lines, up, asked, reads, swallowed>>
            BY <2>1 DEF Say
        <3>4. QED BY <1>1, <3>1, <3>2, <3>3, SayingKeeps
    <2>2. CASE Unsay
        BY <1>1, <2>2, DeletingKeeps DEF Unsay
    <2>3. QED BY <2>1, <2>2
<1>3. ListTypeOK'
    BY <1>2 DEF ListInv
<1>4. PanelInv'
    BY <1>1, <1>2, <1>3, SamePanel
<1>5. QED BY <1>2, <1>4 DEF ChatInv

LEMMA WriteStep ==
    ASSUME ChatInv, NEW d \in Devices, Post(d) \/ RetractMessage(d)
    PROVE  ChatInv'
<1> DEFINE r == [request[d] EXCEPT !.stage = "done", !.transcript = Transcript(rows')]
<1>1. /\ ListInv /\ PanelInv /\ ListTypeOK /\ PanelTypeOK /\ PanelTrue(d)
      /\ UNCHANGED <<lines, up, asked, reads, swallowed, box, undone, typed>>
    BY DEF ChatInv, ListInv, PanelInv, Post, RetractMessage
<1>2. request[d] \in Asks /\ request[d].what \in Nat
    BY <1>1 DEF PanelTypeOK, Asks
<1>3. ListInv' /\ Grown(rows, rows')
    <2>1. CASE Post(d)
        <3> DEFINE line == [by |-> d, sentence |-> request[d].what, deleted |-> FALSE]
        <3>1. line \in Line /\ line.deleted = FALSE
            BY <1>2 DEF Line, Speakers
        <3>2. rows' = Append(rows, line) /\ Emit(Len(rows) + 1, FALSE)
            BY <2>1 DEF Post, Written
        <3> HIDE DEF line
        <3>3. QED BY <1>1, <3>1, <3>2, SayingKeeps
    <2>2. CASE RetractMessage(d)
        <3> DEFINE id == request[d].what
        <3>1. id \in Rows
            BY <1>1, <2>2 DEF PanelTrue, RetractMessage
        <3>2. /\ rows' = [rows EXCEPT ![id].deleted = TRUE]
              /\ Emit(id, TRUE) \/ (rows[id].deleted /\ UNCHANGED wire)
            BY <2>2 DEF RetractMessage, Written
        <3> HIDE DEF id
        <3>3. QED BY <1>1, <3>1, <3>2, DeletingKeeps
    <2>3. QED BY <2>1, <2>2
<1>4. ListTypeOK' /\ rows' \in Seq(Line)
    BY <1>3 DEF ListInv, ListTypeOK
<1>5. Transcript(rows') \in Lists /\ TrueCopy(rows', Transcript(rows'))
    BY <1>4, TranscriptFact
<1>6. request' = [request EXCEPT ![d] = r]
    BY <1>1 DEF Post, RetractMessage, Written, PanelTypeOK
<1>7. /\ r \in Asks /\ r.transcript = Transcript(rows')
      /\ r.kind = request[d].kind /\ r.what = request[d].what
    BY <1>2, <1>5 DEF Asks
<1>8. r.kind = "retract" => r.what \in Rows'
    BY <1>1, <1>3, <1>4, <1>7, GrownFact DEF PanelTrue, Rows, ListTypeOK
<1> HIDE DEF r
<1>9. box' \in [Devices -> Nat] /\ undone' \in [Devices -> Nat] /\ typed' \in [Devices -> Nat]
    BY <1>1 DEF PanelTypeOK
<1>10. PanelInv'
    BY <1>1, <1>3, <1>4, <1>5, <1>6, <1>7, <1>8, <1>9, RequestChanges
<1>11. QED BY <1>3, <1>10 DEF ChatInv

----------------------------------------------------------------------------

LEMMA ChatInvInit == ASSUME ChatInit PROVE ChatInv
<1>1. ListTypeOK
    BY EmptyList DEF ChatInit, ListTypeOK
<1>2. PanelTypeOK
    BY IdleFact DEF ChatInit, PanelTypeOK
<1>3. \A d \in Devices : ListTrue(d) /\ Remembers(d) /\ PanelTrue(d)
    BY EmptyList, IdleFact DEF ChatInit, ListTrue, Remembers, PanelTrue, TrueCopy
<1>4. QED BY <1>1, <1>2, <1>3 DEF ChatInv, ListInv, PanelInv

LEMMA ChatInvStep == ASSUME ChatInv, [ChatNext]_chatVars PROVE ChatInv'
<1>1. CASE Say \/ Unsay
    BY <1>1, OthersStep
<1>2. CASE \E d \in Devices : Listens(d)
    BY <1>2, ListenStep
<1>3. CASE \E d \in Devices : Speaks(d)
    BY <1>3, PanelStep, WriteStep, AnswerKeeps DEF Speaks
<1>4. CASE UNCHANGED chatVars
    <2>1. ListInv /\ PanelInv /\ ListTypeOK
        BY DEF ChatInv, ListInv
    <2>2. UNCHANGED <<rows, deviceVars>> /\ UNCHANGED panelVars
        BY <1>4 DEF chatVars
    <2>3. ListInv' /\ ListTypeOK'
        BY <2>1, <2>2, SameList DEF ListInv
    <2>4. PanelInv'
        BY <2>1, <2>2, <2>3, SameRowsGrown, SamePanel
    <2>5. QED BY <2>3, <2>4 DEF ChatInv
<1>5. QED BY <1>1, <1>2, <1>3, <1>4 DEF ChatNext

LEMMA ChatInvAlways == ChatSpec => []ChatInv
<1>1. ChatInit => ChatInv
    BY ChatInvInit
<1>2. ChatInv /\ [ChatNext]_chatVars => ChatInv'
    BY ChatInvStep
<1>3. QED BY <1>1, <1>2, PTL DEF ChatSpec

(* A device that listens, and whose last re-read was not lost, has every    *)
(* line of the league on its screen or on its way there: said before it     *)
(* connected, while it slept, or while another transcript was in the air    *)
(* (league-chat.tsx, "every connect re-reads the transcript").              *)
THEOREM EveryLineIsComing == ChatSpec => []NoLineForgotten
<1>1. ChatInv => NoLineForgotten
    BY DEF ChatInv, ListInv, Remembers, Coming, NoLineForgotten
<1>2. QED BY <1>1, ChatInvAlways, PTL

(* What a device shows is true of the transcript, if perhaps old: no event, *)
(* transcript or echo, in whatever order they land, leaves a line nobody    *)
(* wrote or a tombstone over a line nobody deleted.                         *)
THEOREM NothingIsInvented == ChatSpec => []ShownIsTrue
<1>1. ChatInv => ShownIsTrue
    BY DEF ChatInv, ListInv, ListTrue, ShownIsTrue
<1>2. QED BY <1>1, ChatInvAlways, PTL
=============================================================================
