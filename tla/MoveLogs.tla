------------------------------- MODULE MoveLogs -------------------------------
(***************************************************************************)
(* Official move logs and the stored history.  A log names players who     *)
(* passed through a team between two passes, whom the difference of two    *)
(* rosters cannot see: planFromLog (fantasy/plan.ts) and                   *)
(* planBasketNewsTransfers (basketnews/transfers.ts) replay it, and give   *)
(* up when it does not explain the rosters.  groupTransactionHistory       *)
(* (memberships/history.ts) reads the rows back as the moves people made.  *)
(***************************************************************************)
EXTENDS RosterPlans

CONSTANT SyncWindow    \* rows of one sync are at most this far apart

ASSUME MoveLogsAssumption == SyncWindow \in Nat

Unexplained == [ok |-> FALSE, steps |-> <<>>]
FromOfficialData == 0  \* the `event' of a row no source event stands behind

Of(players, member) == IF member \in DOMAIN players THEN ToSet(players[member]) ELSE {}

Owners(seats, players) == [p \in players |-> HolderOf(seats, p)]

(* The rosters a replayed ownership amounts to are the official ones. *)
OwnersAgree(owner, target) ==
  /\ \A m \in DOMAIN target : {p \in DOMAIN owner : owner[p] = m} = target[m]
  /\ \A p \in DOMAIN owner : owner[p] \in DOMAIN target \cup {Nobody}

(* Every close is on the first row that sends the player out of his window's *)
(* team, every open on the last that brings him where he ends; a player who  *)
(* passes through gets no window.  Refused when the windows of a player      *)
(* cannot be ordered.                                                        *)
PlaceWindows(seats, owner, rows, round) ==
  LET moved == {p \in DOMAIN owner : HolderOf(seats, p) # owner[p]}
      leaving == {p \in moved : p \in Seated(seats)}
      settling == {p \in moved : owner[p] # Nobody}
      closeAt(p) == SelectInSeq(rows, LAMBDA row :
                      p \in Of(row.playersOut, HolderOf(seats, p)))
      openAt(p) == SelectLastInSeq(rows, LAMBDA row : p \in Of(row.playersIn, owner[p]))
      orderly == /\ \A p \in leaving : closeAt(p) # 0
                 /\ \A p \in settling : openAt(p) # 0
                 /\ \A p \in leaving \cap settling : closeAt(p) <= openAt(p)
      opens(i) == {[member |-> owner[p], player |-> p, fromRound |-> round,
                    via |-> IF rows[i].type = "trade" THEN "trade" ELSE "signing"] :
                     p \in {q \in settling : openAt(q) = i}}
  IN  IF ~orderly THEN Unexplained
      ELSE [ok |-> TRUE,
            steps |-> [i \in DOMAIN rows |->
              [rows[i] EXCEPT !.closes = Closed(seats, {p \in leaving : closeAt(p) = i}, round),
                              !.opens = opens(i)]]]

-----------------------------------------------------------------------------
(* The Fantasy Challenge log: moves [member, arrival, departure, to], `to'   *)
(* where the departing player went, Nobody for free agency.                  *)

Ready(owner, move) ==
  /\ move.member # move.to
  /\ owner[move.departure] = move.member
  /\ owner[move.arrival] = move.to

(* What an earlier pass has applied already. *)
AppliedEarlier(owner, move) ==
  owner[move.arrival] = move.member /\ owner[move.departure] # move.member

ReplayMove(state, move) ==
  IF Ready(state.owner, move)
  THEN [state EXCEPT !.owner = [@ EXCEPT ![move.arrival] = move.member, ![move.departure] = move.to],
                     !.applied = Append(@, move)]
  ELSE [state EXCEPT !.ok = @ /\ AppliedEarlier(state.owner, move)]

PairOf(move) == IF move.member < move.to THEN <<move.member, move.to>> ELSE <<move.to, move.member>>

(* One trade per pair in log order; one release and one signing per team     *)
(* that dealt with free agency.                                              *)
LoggedRows(round, applied) ==
  LET trades == Selected(applied, LAMBDA move : move.to # Nobody)
      free(m) == Selected(applied, LAMBDA move : move.to = Nobody /\ move.member = m)
      pairs == FoldLeft(LAMBDA acc, move : IF Contains(acc, PairOf(move)) THEN acc
                                           ELSE Append(acc, PairOf(move)),
                        <<>>, trades)
      dealers == Ascending({applied[i].member : i \in {j \in DOMAIN applied : applied[j].to = Nobody}})
      of(pair) == Selected(trades, LAMBDA move : PairOf(move) = pair)
      tradeRow(pair) ==
        TradeRow(pair[1], pair[2],
                 Mapped(LAMBDA move : IF move.member = pair[1] THEN move.departure ELSE move.arrival,
                        of(pair)),
                 Mapped(LAMBDA move : IF move.member = pair[1] THEN move.arrival ELSE move.departure,
                        of(pair)),
                 round, {}, {})
      dropRow(m) == DropRow(m, Mapped(LAMBDA move : move.departure, free(m)), round, {})
      addRow(m)  == AddRow(m, Mapped(LAMBDA move : move.arrival, free(m)), round, {})
  IN  Mapped(dropRow, dealers) \o Mapped(tradeRow, pairs) \o Mapped(addRow, dealers)

PlanFromLog(round, seats, target, log) ==
  LET players == Seated(seats) \cup (UNION {target[m] : m \in DOMAIN target})
                   \cup (UNION {{log[i].arrival, log[i].departure} : i \in DOMAIN log})
      replay == FoldLeft(ReplayMove,
                         [owner |-> Owners(seats, players), applied |-> <<>>, ok |-> TRUE], log)
  IN  IF ~replay.ok \/ ~OwnersAgree(replay.owner, target) THEN Unexplained
      ELSE PlaceWindows(seats, replay.owner, LoggedRows(round, replay.applied), round)

-----------------------------------------------------------------------------
(* The BasketNews log: events [id, accepted, offer, request, sent, received] *)
(* in the order they were accepted; `request' is Nobody for free agency.     *)

(* The event's check of ownership left out. *)
EventAppliesUnowned(owner, event) ==
  /\ event.offer # Nobody /\ event.offer # event.request
  /\ event.sent # <<>> /\ event.received # <<>>
  /\ NamedOnce(event.sent \o event.received)

EventApplies(owner, event) ==
  /\ event.offer # Nobody /\ event.offer # event.request
  /\ event.sent # <<>> /\ event.received # <<>>
  /\ \A p \in ToSet(event.sent) : owner[p] = event.offer
  /\ \A p \in ToSet(event.received) : owner[p] = event.request
  /\ NamedOnce(event.sent \o event.received)

ReplayEvent(state, event) ==
  [owner |-> [p \in DOMAIN state.owner |->
                IF p \in ToSet(event.received) THEN event.offer
                ELSE IF p \in ToSet(event.sent) THEN event.request
                ELSE state.owner[p]],
   ok |-> state.ok /\ EventApplies(state.owner, event)]

EventRows(round, event) ==
  IF event.request # Nobody
  THEN <<TradeRow(event.offer, event.request, event.sent, event.received, round, {}, {})>>
  ELSE <<DropRow(event.offer, event.sent, round, {}), AddRow(event.offer, event.received, round, {})>>

PlanBasketNewsTransfers(round, seats, target, log, appliedIds) ==
  LET events == Selected(log, LAMBDA event : event.accepted /\ event.id \notin appliedIds)
      players == Seated(seats) \cup (UNION {target[m] : m \in DOMAIN target})
                   \cup (UNION {ToSet(log[i].sent \o log[i].received) : i \in DOMAIN log})
      replay == FoldLeft(ReplayEvent, [owner |-> Owners(seats, players), ok |-> TRUE], events)
      rows(event) == EventRows(round, event)
  IN  IF ~replay.ok \/ ~OwnersAgree(replay.owner, target) THEN Unexplained
      ELSE PlaceWindows(seats, replay.owner, FlattenSeq(Mapped(rows, events)), round)

-----------------------------------------------------------------------------
(* History, newest row first: rows [type, fromRound, members, playersOut,    *)
(* playersIn, time, event], `event' the transfer its note names.             *)

(* A one-team row that names players on one side only. *)
IsMove(row) == row.type \in {"add", "drop"}
MemberOf(row) == row.members[1]
IdsOf(row) == Of(IF row.type = "add" THEN row.playersIn ELSE row.playersOut, MemberOf(row))
Meets(a, b) == a \cap b # {}

FirstOf(S) == IF S = {} THEN 0 ELSE Min(S)

(* Two teams in one round where each dropped a player the other added: each  *)
(* drop in turn looks for the first rows, not taken yet, that complete it.   *)
SwapOf(rows, taken, dropA) ==
  LET live == {i \in DOMAIN rows : IsMove(rows[i]) /\ rows[i].event = FromOfficialData}
      same == {i \in live \ taken : rows[i].fromRound = rows[dropA].fromRound}
      addB == FirstOf({i \in same : /\ rows[i].type = "add"
                                    /\ MemberOf(rows[i]) # MemberOf(rows[dropA])
                                    /\ Meets(IdsOf(rows[i]), IdsOf(rows[dropA]))})
      dropB == IF addB = 0 THEN 0
               ELSE FirstOf({i \in same : /\ rows[i].type = "drop"
                                          /\ MemberOf(rows[i]) = MemberOf(rows[addB])})
      addA == IF dropB = 0 THEN 0
              ELSE FirstOf({i \in same : /\ rows[i].type = "add"
                                         /\ MemberOf(rows[i]) = MemberOf(rows[dropA])
                                         /\ Meets(IdsOf(rows[i]), IdsOf(rows[dropB]))})
  IN  IF dropA \in live \ taken /\ rows[dropA].type = "drop" /\ addA # 0
      THEN {dropA, addB, dropB, addA} ELSE {}

Swaps(rows) ==
  FoldLeft(LAMBDA found, i : LET swap == SwapOf(rows, UNION found, i)
                             IN  IF swap = {} THEN found ELSE found \cup {swap},
           {}, [i \in DOMAIN rows |-> i])

(* One team's rows of one round, from one event or written within a sync     *)
(* window of one another.                                                    *)
SameCluster(rows, group, i, j) ==
  LET early == IF rows[i].time <= rows[j].time THEN rows[i].time ELSE rows[j].time
      late  == IF rows[i].time <= rows[j].time THEN rows[j].time ELSE rows[i].time
  IN  \/ rows[i].event # FromOfficialData
      \/ \A k \in group : rows[k].time \in early..late - 1 =>
           \E l \in group : rows[l].time \in rows[k].time + 1..rows[k].time + SyncWindow

(* A cluster with drops and adds that never signs whom it releases. *)
ExchangesAmong(rows, free) ==
  LET key(i) == <<MemberOf(rows[i]), rows[i].fromRound, rows[i].event>>
      group(i) == {j \in free : key(j) = key(i)}
      cluster(i) == {j \in group(i) : SameCluster(rows, group(i), i, j)}
      ids(c, type) == UNION {IdsOf(rows[j]) : j \in {k \in c : rows[k].type = type}}
  IN  {c \in {cluster(i) : i \in free} :
         /\ ids(c, "add") # {} /\ ids(c, "drop") # {}
         /\ ~Meets(ids(c, "add"), ids(c, "drop"))}

Moves(rows) == {i \in DOMAIN rows : IsMove(rows[i])}

(* The rows already told as a swap forgotten. *)
ExchangesOverSwaps(rows, taken) == ExchangesAmong(rows, Moves(rows))

Exchanges(rows, taken) == ExchangesAmong(rows, Moves(rows) \ taken)

(* Each group takes the place of its newest row. *)
GroupTransactionHistory(rows) ==
  LET swaps == Swaps(rows)
      groups == swaps \cup Exchanges(rows, UNION swaps)
      heads == {i \in DOMAIN rows : \A g \in groups : i \in g => i = Min(g)}
      eventAt(i) == IF \E g \in groups : i \in g
                    THEN Ascending(CHOOSE g \in groups : i \in g) ELSE <<i>>
  IN  Mapped(eventAt, Ascending(heads))
=============================================================================
