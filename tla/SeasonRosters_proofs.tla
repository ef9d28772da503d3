-------------------------- MODULE SeasonRosters_proofs --------------------------
(***************************************************************************)
(* Proofs about a season's rosters, for any members, players and official  *)
(* rosters, any syncs and moves by hand running at once, and any number of *)
(* deaths between two requests: history explains every window that was     *)
(* opened or closed.                                                       *)
(***************************************************************************)
EXTENDS SeasonRosters, DraftEngine_proofs

-----------------------------------------------------------------------------
(* The invariant.                                                          *)

Window == [member : Members, player : Players, from : Nat, to : Nat]

(* What a planned step says is of windows that exist, and its row names all *)
(* the players it closes and opens windows for, with their members.         *)
Sound(ws, step) ==
  /\ step.fromRound \in Nat \ {0}
  /\ \A c \in step.closes :
       c.seat \in DOMAIN ws /\ c.toRound = step.fromRound /\ Names(step.playersOut, ws[c.seat])
  /\ \A o \in step.opens :
       /\ o.member \in Members /\ o.player \in Players
       /\ o.fromRound = step.fromRound /\ Names(step.playersIn, o)

Plan(ws, steps) == \E X : steps \in Seq(X) /\ \A x \in X : Sound(ws, x)

Backlog(ws, queue) == \E X : queue \in Seq(X) /\ \A x \in X : Plan(ws, x.steps)

Fields == {"pc", "queue", "steps", "todo", "held", "report", "resumed"}
IsHand(r) == r = [f \in Fields |-> r[f]]

(* What a process has in hand: while it carries a step out, the step's row  *)
(* is stored, and what is left to do is the step's.                         *)
Busy(ws, stored, r) ==
  /\ IsHand(r)
  /\ Plan(ws, r.steps)
  /\ Backlog(ws, r.queue)
  /\ r.pc \in {"close", "closing", "open"} => r.steps # <<>> /\ RowOf(Head(r.steps)) \in stored
  /\ r.pc \in {"close", "closing"} => r.todo \subseteq Head(r.steps).closes
  /\ r.pc = "closing" => r.todo # {}
  /\ r.pc = "open" => r.todo \subseteq Head(r.steps).opens

ReportsOK(ws, waiting, last) ==
  /\ IsFiniteSet(waiting)
  /\ \A r \in waiting : r.no \in Nat /\ r.no <= last /\ Plan(ws, r.steps)
  /\ \A r, s \in waiting : r.no = s.no => r = s

(* A player has one open window at most. *)
HeldOnce(ws) ==
  \A i, j \in DOMAIN ws :
    ws[i].to = 0 /\ ws[j].to = 0 /\ ws[i].player = ws[j].player => i = j

Explained(ws, stored) ==
  \A i \in DOMAIN ws :
    /\ i > DraftSeats => \E r \in stored : r.fromRound = ws[i].from /\ Names(r.playersIn, ws[i])
    /\ ws[i].to # 0 => \E r \in stored : r.fromRound = ws[i].to /\ Names(r.playersOut, ws[i])

SeasonOK ==
  /\ round \in 1..MaxRound /\ official \in [Members -> SUBSET Players] /\ reports \in Nat
  /\ windows \in Seq(Window)
  /\ actor = [a \in Writers |-> actor[a]]

HistoryInv ==
  /\ SeasonOK
  /\ ReportsOK(windows, applying, reports)
  /\ HeldOnce(windows)
  /\ Explained(windows, rows)
  /\ \A a \in Writers : Busy(windows, rows, actor[a])

-----------------------------------------------------------------------------
(* Windows are added and their end rounds written; who and whom they are of *)
(* never changes.                                                           *)

Lasting(ws, vs) ==
  /\ DOMAIN ws \subseteq DOMAIN vs
  /\ \A i \in DOMAIN ws : vs[i].member = ws[i].member /\ vs[i].player = ws[i].player

LEMMA LastingFact ==
  ASSUME NEW ws, NEW vs, Lasting(ws, vs)
  PROVE  /\ \A step : Sound(ws, step) => Sound(vs, step)
         /\ \A steps : Plan(ws, steps) => Plan(vs, steps)
         /\ \A queue : Backlog(ws, queue) => Backlog(vs, queue)
<1>1. ASSUME NEW step, Sound(ws, step) PROVE Sound(vs, step)
  BY <1>1 DEF Sound, Lasting, Names
<1>2. ASSUME NEW steps, Plan(ws, steps) PROVE Plan(vs, steps)
  <2>1. PICK X : steps \in Seq(X) /\ \A x \in X : Sound(ws, x)
    BY <1>2 DEF Plan
  <2>. QED BY <1>1, <2>1 DEF Plan
<1>3. ASSUME NEW queue, Backlog(ws, queue) PROVE Backlog(vs, queue)
  <2>1. PICK X : queue \in Seq(X) /\ \A x \in X : Plan(ws, x.steps)
    BY <1>3 DEF Backlog
  <2>. QED BY <1>2, <2>1 DEF Backlog
<1>. QED BY <1>1, <1>2, <1>3

LEMMA BusyLasts ==
  ASSUME NEW ws, NEW vs, Lasting(ws, vs), NEW stored, NEW more, stored \subseteq more,
         NEW r, Busy(ws, stored, r)
  PROVE  Busy(vs, more, r)
<1>1. Plan(vs, r.steps) /\ Backlog(vs, r.queue)
  BY LastingFact DEF Busy
<1>. QED BY <1>1 DEF Busy

-----------------------------------------------------------------------------
(* Plans.                                                                  *)

LEMMA NoSteps == ASSUME NEW ws PROVE Plan(ws, <<>>) /\ Backlog(ws, <<>>)
<1>. DEFINE X == {}
<1>1. <<>> \in Seq(X) /\ \A x : x \notin X
  OBVIOUS
<1>. HIDE DEF X
<1>. QED BY <1>1 DEF Plan, Backlog

LEMMA OneStep == ASSUME NEW ws, NEW step, Sound(ws, step) PROVE Plan(ws, <<step>>)
<1>. DEFINE X == {step}
<1>1. <<step>> \in Seq(X) /\ \A x \in X : Sound(ws, x)
  OBVIOUS
<1>. HIDE DEF X
<1>. QED BY <1>1 DEF Plan

LEMMA NextStep ==
  ASSUME NEW ws, NEW steps, Plan(ws, steps), steps # <<>>
  PROVE  Sound(ws, Head(steps)) /\ Plan(ws, Tail(steps))
<1>1. PICK X : steps \in Seq(X) /\ \A x \in X : Sound(ws, x)
  BY DEF Plan
<1>2. Head(steps) \in X /\ Tail(steps) \in Seq(X)
  BY <1>1
<1>. QED BY <1>1, <1>2 DEF Plan

LEMMA NextReport ==
  ASSUME NEW ws, NEW queue, Backlog(ws, queue), queue # <<>>
  PROVE  Plan(ws, Head(queue).steps) /\ Backlog(ws, Tail(queue))
<1>1. PICK X : queue \in Seq(X) /\ \A x \in X : Plan(ws, x.steps)
  BY DEF Backlog
<1>2. Head(queue) \in X /\ Tail(queue) \in Seq(X)
  BY <1>1
<1>. QED BY <1>1, <1>2 DEF Backlog

LEMMA Joined ==
  ASSUME NEW ws, NEW s, NEW t, Plan(ws, s), Plan(ws, t)
  PROVE  Plan(ws, s \o t)
<1>1. PICK X : s \in Seq(X) /\ \A x \in X : Sound(ws, x)
  BY DEF Plan
<1>2. PICK Y : t \in Seq(Y) /\ \A y \in Y : Sound(ws, y)
  BY DEF Plan
<1>3. s \in Seq(X \cup Y) /\ t \in Seq(X \cup Y)
  BY <1>1, <1>2
<1>4. s \o t \in Seq(X \cup Y)
  BY <1>3
<1>. QED BY <1>1, <1>2, <1>4 DEF Plan

LEMMA ListedSteps ==
  ASSUME NEW ws, NEW n \in Nat, NEW steps, steps = [i \in 1..n |-> steps[i]],
         \A i \in 1..n : Sound(ws, steps[i])
  PROVE  Plan(ws, steps)
<1>. DEFINE X == {steps[i] : i \in 1..n}
<1>1. steps \in [1..n -> X]
  OBVIOUS
<1>. HIDE DEF X
<1>2. steps \in Seq(X)
  BY <1>1
<1>3. \A x \in X : Sound(ws, x)
  BY DEF X
<1>. QED BY <1>2, <1>3 DEF Plan

-----------------------------------------------------------------------------
(* What plans say, of rosters in which nobody is held twice.               *)

Typed == windows \in Seq(Window) /\ HeldOnce(windows)

LEMMA SeatsFact ==
  ASSUME Typed, NEW s \in Seats
  PROVE  /\ s.id \in DOMAIN windows /\ windows[s.id].to = 0
         /\ windows[s.id].member = s.member /\ windows[s.id].player = s.player
         /\ s.member \in Members /\ s.player \in Players
<1>1. PICK i \in OpenWindows :
        s = [id |-> i, member |-> windows[i].member, player |-> windows[i].player]
  BY DEF Seats
<1>2. i \in DOMAIN windows /\ windows[i].to = 0 /\ windows[i] \in Window
  BY DEF OpenWindows, Typed
<1>. QED BY <1>1, <1>2 DEF Window

(* A player held has one seat, his member's. *)
LEMMA SeatFact ==
  ASSUME Typed, NEW m, NEW p \in HeldBy(Seats, m)
  PROVE  LET i == SeatOf(Seats, p).id
         IN  /\ i \in DOMAIN windows
             /\ windows[i].member = m /\ windows[i].player = p
             /\ m \in Members /\ p \in Players
<1>1. PICK s \in Seats : s.member = m /\ s.player = p
  BY DEF HeldBy
<1>2. SeatOf(Seats, p) \in Seats /\ SeatOf(Seats, p).player = p
  BY <1>1 DEF SeatOf
<1>3. SeatOf(Seats, p).id = s.id
  BY <1>1, <1>2, SeatsFact DEF Typed, HeldOnce
<1>. QED BY <1>1, <1>3, SeatsFact

LEMMA HeldPlayers == ASSUME Typed, NEW m PROVE HeldBy(Seats, m) \subseteq Players
BY SeatFact

LEMMA ClosedFact ==
  ASSUME Typed, NEW m, NEW players, players \subseteq HeldBy(Seats, m), NEW no,
         NEW c \in Closed(Seats, players, no)
  PROVE  /\ c.toRound = no /\ c.seat \in DOMAIN windows
         /\ windows[c.seat].member = m /\ windows[c.seat].player \in players
<1>1. PICK p \in players : c = [seat |-> SeatOf(Seats, p).id, toRound |-> no]
  BY DEF Closed
<1>. QED BY <1>1, SeatFact

LEMMA OpenedFact ==
  ASSUME NEW m, NEW players, NEW no, NEW via, NEW o \in Opened(m, players, no, via)
  PROVE  o.member = m /\ o.player \in players /\ o.fromRound = no
BY DEF Opened

LEMMA DropIsSound ==
  ASSUME Typed, NEW m, NEW players, players \subseteq HeldBy(Seats, m),
         NEW list, ToSet(list) = players, NEW no \in Nat \ {0}
  PROVE  Sound(windows, DropRow(m, list, no, Closed(Seats, players, no)))
<1>. DEFINE step == DropRow(m, list, no, Closed(Seats, players, no))
<1>1. /\ step.fromRound = no /\ step.opens = {} /\ step.closes = Closed(Seats, players, no)
      /\ DOMAIN step.playersOut = {m} /\ step.playersOut[m] = list
  BY DEF DropRow, OneTeam
<1>. HIDE DEF step
<1>2. ASSUME NEW c \in Closed(Seats, players, no)
      PROVE  c.seat \in DOMAIN windows /\ c.toRound = no /\ Names(step.playersOut, windows[c.seat])
  BY <1>1, ClosedFact DEF Names
<1>. QED BY <1>1, <1>2 DEF Sound, step

LEMMA AddIsSound ==
  ASSUME NEW m \in Members, NEW players, players \subseteq Players,
         NEW list, ToSet(list) = players, NEW no \in Nat \ {0}, NEW via
  PROVE  Sound(windows, AddRow(m, list, no, Opened(m, players, no, via)))
<1>. DEFINE step == AddRow(m, list, no, Opened(m, players, no, via))
<1>1. /\ step.fromRound = no /\ step.closes = {} /\ step.opens = Opened(m, players, no, via)
      /\ DOMAIN step.playersIn = {m} /\ step.playersIn[m] = list
  BY DEF AddRow, OneTeam
<1>. HIDE DEF step
<1>2. ASSUME NEW o \in Opened(m, players, no, via)
      PROVE  /\ o.member \in Members /\ o.player \in Players
             /\ o.fromRound = no /\ Names(step.playersIn, o)
  BY <1>1, OpenedFact DEF Names
<1>. QED BY <1>1, <1>2 DEF Sound, step

LEMMA TradeIsSound ==
  ASSUME Typed, NEW a \in Members, NEW b \in Members, a # b,
         NEW sent, sent \subseteq HeldBy(Seats, a),
         NEW received, received \subseteq HeldBy(Seats, b),
         NEW listed, ToSet(listed) = sent, NEW returned, ToSet(returned) = received,
         NEW no \in Nat \ {0}
  PROVE  Sound(windows,
               TradeRow(a, b, listed, returned, no, Closed(Seats, sent \cup received, no),
                        Opened(b, sent, no, "trade") \cup Opened(a, received, no, "trade")))
<1>. DEFINE closes == Closed(Seats, sent \cup received, no)
            opens == Opened(b, sent, no, "trade") \cup Opened(a, received, no, "trade")
            step == TradeRow(a, b, listed, returned, no, closes, opens)
<1>1. /\ step.fromRound = no /\ step.closes = closes /\ step.opens = opens
      /\ DOMAIN step.playersOut = {a, b} /\ DOMAIN step.playersIn = {a, b}
      /\ step.playersOut[a] = listed /\ step.playersOut[b] = returned
      /\ step.playersIn[a] = returned /\ step.playersIn[b] = listed
  BY DEF TradeRow, TwoTeams
<1>2. closes = Closed(Seats, sent, no) \cup Closed(Seats, received, no)
  BY DEF Closed
<1>. HIDE DEF step
<1>3. ASSUME NEW c \in closes
      PROVE  c.seat \in DOMAIN windows /\ c.toRound = no /\ Names(step.playersOut, windows[c.seat])
  <2>1. CASE c \in Closed(Seats, sent, no)
    BY <1>1, <2>1, ClosedFact DEF Names
  <2>2. CASE c \in Closed(Seats, received, no)
    BY <1>1, <2>2, ClosedFact DEF Names
  <2>. QED BY <1>2, <1>3, <2>1, <2>2
<1>4. ASSUME NEW o \in opens
      PROVE  /\ o.member \in Members /\ o.player \in Players
             /\ o.fromRound = no /\ Names(step.playersIn, o)
  <2>1. CASE o \in Opened(b, sent, no, "trade")
    BY <1>1, <2>1, OpenedFact, HeldPlayers DEF Names
  <2>2. CASE o \in Opened(a, received, no, "trade")
    BY <1>1, <2>2, OpenedFact, HeldPlayers DEF Names
  <2>. QED BY <1>4, <2>1, <2>2
<1>5. Sound(windows, step)
  BY <1>1, <1>3, <1>4 DEF Sound
<1>. QED BY <1>5 DEF step

-----------------------------------------------------------------------------
(* planSync: drops, trades and signings are all sound.                     *)

LEMMA PlayersListed ==
  ASSUME NEW S, S \subseteq Players
  PROVE  ToSet(Ascending(S)) = S
<1>. DEFINE listed == Ascending(S)
            n == Cardinality(S)
<1>1. S \subseteq Nat /\ IsFiniteSet(S)
  BY RosterAssumption, FS_Subset
<1>2. listed \in [1..n -> S] /\ \A x \in S : \E i \in 1..n : listed[i] = x
  BY <1>1, AscendingFact
<1>. HIDE DEF listed, n
<1>3. {listed[i] : i \in DOMAIN listed} = S
  BY <1>2
<1>. QED BY <1>3 DEF ToSet, listed

LEMMA MembersListed ==
  ASSUME NEW S, S \subseteq Members
  PROVE  /\ Cardinality(S) \in Nat
         /\ Ascending(S) \in [1..Cardinality(S) -> S]
<1>1. S \subseteq Nat /\ IsFiniteSet(S)
  BY RosterAssumption, FS_Subset
<1>. QED BY <1>1, AscendingFact

Official(target) == target \in [Members -> SUBSET Players]

LEMMA DropsAreSound ==
  ASSUME Typed, NEW target, Official(target), NEW no \in Nat \ {0}
  PROVE  Plan(windows, SyncDrops(no, Seats, target))
<1>. DEFINE released(m) == Leaving(Seats, target, m) \ TradedPlayers(Seats, target)
            order == Ascending({m \in DOMAIN target : released(m) # {}})
            row(m) == DropRow(m, Ascending(released(m)), no, Closed(Seats, released(m), no))
            steps == [i \in DOMAIN order |-> row(order[i])]
<1>1. SyncDrops(no, Seats, target) = steps
  BY DEF SyncDrops, Mapped
<1>2. \A m : released(m) \subseteq HeldBy(Seats, m) /\ released(m) \subseteq Players
  BY HeldPlayers DEF Leaving
<1>3. \A m : Sound(windows, row(m))
  <2>. TAKE m
  <2>. HIDE DEF released
  <2>. QED BY <1>2, PlayersListed, DropIsSound
<1>4. PICK n \in Nat : DOMAIN order = 1..n
  <2>1. {m \in DOMAIN target : released(m) # {}} \subseteq Members
    BY DEF Official
  <2>. QED BY <2>1, MembersListed
<1>. HIDE DEF order, row
<1>5. steps = [i \in 1..n |-> steps[i]] /\ \A i \in 1..n : Sound(windows, steps[i])
  BY <1>3, <1>4
<1>. HIDE DEF steps
<1>6. Plan(windows, steps)
  BY <1>5, ListedSteps
<1>. QED BY <1>1, <1>6

LEMMA AddsAreSound ==
  ASSUME Typed, NEW target, Official(target), NEW no \in Nat \ {0}
  PROVE  Plan(windows, SyncAdds(no, Seats, target))
<1>. DEFINE acquired(m) == Arriving(Seats, target, m) \ TradedPlayers(Seats, target)
            signing == {m \in DOMAIN target : acquired(m) # {}}
            order == Ascending(signing)
            row(m) == AddRow(m, Ascending(acquired(m)), no,
                             Opened(m, acquired(m), no, "signing"))
            steps == [i \in DOMAIN order |-> row(order[i])]
<1>1. SyncAdds(no, Seats, target) = steps
  BY DEF SyncAdds, Mapped
<1>2. \A m \in Members : acquired(m) \subseteq Players
  BY DEF Arriving, Official
<1>3. \A m \in Members : Sound(windows, row(m))
  <2>. TAKE m \in Members
  <2>. HIDE DEF acquired
  <2>. QED BY <1>2, PlayersListed, AddIsSound
<1>4. signing \subseteq Members
  BY DEF Official
<1>. HIDE DEF signing
<1>5. PICK n \in Nat : order \in [1..n -> signing]
  BY <1>4, MembersListed
<1>. HIDE DEF order, row
<1>6. steps = [i \in 1..n |-> steps[i]] /\ \A i \in 1..n : Sound(windows, steps[i])
  BY <1>3, <1>4, <1>5
<1>. HIDE DEF steps
<1>7. Plan(windows, steps)
  BY <1>6, ListedSteps
<1>. QED BY <1>1, <1>7

LEMMA PairsListed ==
  ASSUME NEW target, Official(target)
  PROVE  \E n \in Nat : TradingPairs(Seats, target) \in [1..n -> Trading(Seats, target)]
<1>. DEFINE pairs == Trading(Seats, target)
            below == [p \in pairs |-> {q \in pairs : q[1] < p[1] \/ (q[1] = p[1] /\ q[2] < p[2])}]
<1>1. pairs \subseteq Members \X Members
  BY DEF Trading, Official
<1>2. IsFiniteSet(pairs)
  <2>1. IsFiniteSet(Members \X Members)
    BY RosterAssumption, FS_Product
  <2>. QED BY <1>1, <2>1, FS_Subset
<1>3. pairs \subseteq Nat \X Nat
  <2>1. \A m \in Members : m \in Nat
    BY RosterAssumption
  <2>. HIDE DEF pairs
  <2>. QED BY <1>1, <2>1
<1>4. TradingPairs(Seats, target) = InOrder(pairs, below)
  BY DEF TradingPairs
<1>. HIDE DEF pairs
<1>5. Cardinality(pairs) \in Nat /\ InOrder(pairs, below) \in [1..Cardinality(pairs) -> pairs]
  BY <1>2, <1>3, PairsInOrderFact
<1>. QED BY <1>4, <1>5 DEF pairs

LEMMA TradesAreSound ==
  ASSUME Typed, NEW target, Official(target), NEW no \in Nat \ {0}
  PROVE  Plan(windows, SyncTrades(no, Seats, target))
<1>. DEFINE flow(a, b) == Flow(Seats, target, a, b)
            order == TradingPairs(Seats, target)
            row(p) == TradeRow(p[1], p[2], Ascending(flow(p[1], p[2])),
                               Ascending(flow(p[2], p[1])), no,
                               Closed(Seats, flow(p[1], p[2]) \cup flow(p[2], p[1]), no),
                               Opened(p[2], flow(p[1], p[2]), no, "trade")
                                 \cup Opened(p[1], flow(p[2], p[1]), no, "trade"))
            steps == [i \in DOMAIN order |-> row(order[i])]
<1>1. SyncTrades(no, Seats, target) = steps
  BY DEF SyncTrades, Mapped
<1>2. \A a, b : flow(a, b) \subseteq HeldBy(Seats, a) /\ flow(a, b) \subseteq Players
  BY HeldPlayers DEF Flow, Leaving
<1>3. \A p \in Trading(Seats, target) : p[1] \in Members /\ p[2] \in Members /\ p[1] # p[2]
  <2>1. \A m \in Members : m \in Nat
    BY RosterAssumption
  <2>2. \A p \in Trading(Seats, target) : p \in Members \X Members /\ p[1] < p[2]
    BY DEF Trading, Official
  <2>. QED BY <2>1, <2>2
<1>4. \A p \in Trading(Seats, target) : Sound(windows, row(p))
  <2>. TAKE p \in Trading(Seats, target)
  <2>. HIDE DEF flow
  <2>. QED BY <1>2, <1>3, PlayersListed, TradeIsSound
<1>5. PICK n \in Nat : order \in [1..n -> Trading(Seats, target)]
  BY PairsListed
<1>. HIDE DEF order, row
<1>6. steps = [i \in 1..n |-> steps[i]] /\ \A i \in 1..n : Sound(windows, steps[i])
  BY <1>4, <1>5
<1>. HIDE DEF steps
<1>7. Plan(windows, steps)
  BY <1>6, ListedSteps
<1>. QED BY <1>1, <1>7

LEMMA SyncIsSound ==
  ASSUME Typed, NEW target, Official(target), NEW no \in Nat \ {0}
  PROVE  Plan(windows, PlanSync(no, Seats, target))
BY DropsAreSound, TradesAreSound, AddsAreSound, Joined DEF PlanSync

(* A move by hand that is planned is sound as well.                        *)
LEMMA HandIsSound ==
  ASSUME Typed, round \in Nat \ {0}, NEW proposal \in HandProposals,
         PlanTransaction(Seats, PlayerPosition, Slots, proposal).ok
  PROVE  Sound(windows, PlanTransaction(Seats, PlayerPosition, Slots, proposal).plan)
<1>. DEFINE verdict == PlanTransaction(Seats, PlayerPosition, Slots, proposal)
            no == proposal.fromRound
<1>1. ~NoPlan.ok /\ \A plan : Planned(plan).plan = plan
  BY DEF NoPlan, Planned
<1>2. CASE proposal \in {[type |-> "drop", fromRound |-> round, member |-> s.member,
                          players |-> <<s.player>>] : s \in Seats}
  <2>1. proposal.type = "drop" /\ no = round
    BY <1>2
  <2>2. verdict = PlanDrop(Seats, proposal)
    BY <2>1 DEF PlanTransaction
  <2>. DEFINE m == proposal.member
              players == proposal.players
  <2>3. /\ ToSet(players) \subseteq HeldBy(Seats, m)
        /\ verdict = Planned(DropRow(m, players, no, Closed(Seats, ToSet(players), no)))
    BY <1>1, <2>2 DEF PlanDrop, DropRow
  <2>. HIDE DEF verdict, m, players
  <2>4. Sound(windows, DropRow(m, players, no, Closed(Seats, ToSet(players), no)))
    BY <2>1, <2>3, DropIsSound
  <2>. QED BY <1>1, <2>3, <2>4 DEF verdict
<1>3. CASE proposal \in {[type |-> "add", fromRound |-> round, member |-> m, players |-> <<p>>] :
                           m \in Members, p \in Players}
  <2>1. /\ proposal.type = "add" /\ no = round /\ proposal.member \in Members
        /\ \E p \in Players : proposal.players = <<p>>
    BY <1>3
  <2>2. verdict = PlanAdd(Seats, PlayerPosition, Slots, proposal)
    BY <2>1 DEF PlanTransaction
  <2>. DEFINE m == proposal.member
              players == proposal.players
  <2>3. verdict = Planned(AddRow(m, players, no, Opened(m, ToSet(players), no, "signing")))
    BY <1>1, <2>2 DEF PlanAdd, AddRow
  <2>4. ToSet(players) \subseteq Players
    BY <2>1 DEF ToSet
  <2>. HIDE DEF verdict, m, players
  <2>5. Sound(windows, AddRow(m, players, no, Opened(m, ToSet(players), no, "signing")))
    BY <2>1, <2>4, AddIsSound DEF m
  <2>. QED BY <1>1, <2>3, <2>5 DEF verdict
<1>4. CASE proposal \in {[type |-> "trade", fromRound |-> round, memberA |-> q[1],
                          memberB |-> q[2], outA |-> <<x>>, outB |-> <<y>>] :
                           q \in {p \in Members \X Members : p[1] < p[2]},
                           x \in Players, y \in Players}
  <2>. DEFINE a == proposal.memberA
              b == proposal.memberB
              outA == proposal.outA
              outB == proposal.outB
              plan == TradeRow(a, b, outA, outB, no,
                        Closed(Seats, ToSet(outA) \cup ToSet(outB), no),
                        Opened(b, ToSet(outA), no, "trade") \cup Opened(a, ToSet(outB), no, "trade"))
  <2>1. /\ proposal.type = "trade" /\ no = round
        /\ a \in Members /\ b \in Members
    BY <1>4
  <2>2. verdict = PlanTrade(Seats, PlayerPosition, Slots, proposal)
    BY <2>1 DEF PlanTransaction
  <2>3. /\ a # b
        /\ ToSet(outA) \subseteq HeldBy(Seats, a) /\ ToSet(outB) \subseteq HeldBy(Seats, b)
        /\ verdict = Planned(plan)
    BY <1>1, <2>2 DEF PlanTrade, TradeRow
  <2>. HIDE DEF verdict, a, b, outA, outB
  <2>4. Sound(windows, plan)
    BY <2>1, <2>3, TradeIsSound
  <2>. QED BY <1>1, <2>3, <2>4 DEF verdict
<1>. QED BY <1>2, <1>3, <1>4 DEF HandProposals

-----------------------------------------------------------------------------
(* Steps that change no window and no row, but at most one process.        *)

LEMMA OneActs ==
  ASSUME HistoryInv, NEW a \in Writers, NEW r, Become(a, r),
         Busy(windows, rows, r), SeasonOK', ReportsOK(windows, applying', reports'),
         UNCHANGED <<windows, rows>>
  PROVE  HistoryInv'
<1>1. actor = [b \in Writers |-> actor[b]]
  BY DEF HistoryInv, SeasonOK
<1>2. actor'[a] = r /\ \A b \in Writers \ {a} : actor'[b] = actor[b]
  BY <1>1 DEF Become
<1>3. ASSUME NEW b \in Writers PROVE Busy(windows, rows, actor'[b])
  <2>1. Busy(windows, rows, actor[b])
    BY DEF HistoryInv
  <2>. QED BY <1>2, <2>1
<1>. QED BY <1>3 DEF HistoryInv

LEMMA OnlyActs ==
  ASSUME HistoryInv, NEW a \in Writers, NEW r, Become(a, r), Busy(windows, rows, r),
         UNCHANGED <<round, official, windows, rows, applying, reports>>
  PROVE  HistoryInv'
<1>1. SeasonOK'
  BY DEF HistoryInv, SeasonOK, Become
<1>2. ReportsOK(windows, applying', reports')
  BY DEF HistoryInv
<1>. QED BY <1>1, <1>2, OneActs

(* What the unprimed half of the invariant says, once. *)
LEMMA Known ==
  ASSUME HistoryInv
  PROVE  /\ Typed /\ SeasonOK /\ round \in Nat \ {0} /\ Official(official)
         /\ ReportsOK(windows, applying, reports)
         /\ \A a \in Writers : Busy(windows, rows, actor[a])
<1>1. round \in Nat \ {0}
  BY RosterAssumption DEF HistoryInv, SeasonOK
<1>. QED BY <1>1 DEF HistoryInv, SeasonOK, Typed, Official

LEMMA RestingFact == Busy(windows, rows, Resting)
<1>1. /\ Resting.pc = "idle" /\ Resting.steps = <<>> /\ Resting.queue = <<>>
      /\ IsHand(Resting)
  BY DEF Resting, IsHand, Fields
<1>. QED BY <1>1, NoSteps DEF Busy

(* The queue of unfinished reports is of the reports there are. *)
LEMMA QueueFact ==
  ASSUME ReportsOK(windows, applying, reports)
  PROVE  Backlog(windows, InOrder(applying, [r \in applying |-> {s \in applying : s.no < r.no}]))
<1>. DEFINE below == [r \in applying |-> {s \in applying : s.no < r.no}]
<1>1. below \in [applying -> SUBSET applying]
  OBVIOUS
<1>2. \A r, s \in applying : s \in below[r] <=> s.no < r.no
  OBVIOUS
<1>. HIDE DEF below
<1>3. \A r \in applying : r.no \in Nat
  BY DEF ReportsOK
<1>4. \A r, s \in applying : r = s \/ r \in below[s] \/ s \in below[r]
  BY <1>2, <1>3 DEF ReportsOK
<1>5. \A r \in applying : r \notin below[r]
  BY <1>2, <1>3
<1>6. \A r, s \in applying : r \in below[s] => below[r] \subseteq below[s]
  BY <1>1, <1>2, <1>3
<1>7. Linear(applying, below) /\ IsFiniteSet(applying)
  BY <1>1, <1>4, <1>5, <1>6 DEF Linear, ReportsOK
<1>8. /\ Cardinality(applying) \in Nat
      /\ InOrder(applying, below) \in [1..Cardinality(applying) -> applying]
  BY <1>7, InOrderFact
<1>9. InOrder(applying, below) \in Seq(applying)
  BY <1>8
<1>10. \A r \in applying : Plan(windows, r.steps)
  BY DEF ReportsOK
<1>11. Backlog(windows, InOrder(applying, below))
  BY <1>9, <1>10 DEF Backlog
<1>. QED BY <1>11 DEF below

LEMMA SyncStep ==
  ASSUME HistoryInv, NEW a \in Syncers, Syncs(a)
  PROVE  HistoryInv'
<1>. USE Known
<1>0. a \in Writers /\ Busy(windows, rows, actor[a])
  BY DEF Writers
<1>1. UNCHANGED <<windows, rows, round, official>>
  BY DEF Syncs, StartSync, ResumeNext, FetchFails, PlanRun, StoreReport, Verdict, Elsewhere, Stored
<1>2. ASSUME NEW r, Become(a, r), reports' \in Nat PROVE SeasonOK'
  BY <1>1, <1>2 DEF SeasonOK, Become
<1>3. CASE StartSync(a)
  <2>. DEFINE queue == InOrder(applying, [r \in applying |-> {s \in applying : s.no < r.no}])
              r == [Resting EXCEPT !.pc = "resume", !.queue = queue]
  <2>1. Backlog(windows, queue)
    BY QueueFact
  <2>. HIDE DEF queue
  <2>2. Busy(windows, rows, r)
    BY <2>1, NoSteps, RestingFact DEF Busy, Resting, IsHand, Fields
  <2>3. Become(a, r) /\ UNCHANGED <<applying, reports>>
    BY <1>3 DEF StartSync, Stored, queue
  <2>. HIDE DEF r
  <2>. QED BY <1>0, <1>1, <2>2, <2>3, OnlyActs
<1>4. CASE ResumeNext(a)
  <2>. DEFINE queue == actor[a].queue
              r == [actor[a] EXCEPT !.pc = "record", !.queue = Tail(queue),
                      !.steps = Head(queue).steps, !.report = Head(queue).no, !.resumed = TRUE]
  <2>1. Plan(windows, Head(queue).steps) /\ Backlog(windows, Tail(queue))
    BY <1>0, <1>4, NextReport DEF ResumeNext, Busy
  <2>2. Busy(windows, rows, r)
    BY <1>0, <2>1 DEF Busy, IsHand, Fields
  <2>3. Become(a, r) /\ UNCHANGED <<applying, reports>>
    BY <1>4 DEF ResumeNext, Stored
  <2>. HIDE DEF r
  <2>. QED BY <1>0, <1>1, <2>2, <2>3, OnlyActs
<1>5. CASE FetchFails(a)
  <2>1. Become(a, Resting) /\ UNCHANGED <<applying, reports>>
    BY <1>5 DEF FetchFails, Stored
  <2>. QED BY <1>0, <1>1, <2>1, RestingFact, OnlyActs
<1>6. CASE PlanRun(a)
  <2>. DEFINE steps == IF OpenWindows = {} THEN <<>> ELSE PlanSync(round, Seats, official)
              next == [Resting EXCEPT !.pc = "report", !.steps = steps]
              r == IF steps = <<>> THEN Resting ELSE next
  <2>1. Plan(windows, steps)
    BY NoSteps, SyncIsSound
  <2>. HIDE DEF steps
  <2>2. Busy(windows, rows, next)
    BY <2>1, NoSteps, RestingFact DEF Busy, Resting, IsHand, Fields
  <2>. HIDE DEF next
  <2>3. Busy(windows, rows, r)
    BY <2>2, RestingFact
  <2>4. Become(a, r) /\ UNCHANGED <<applying, reports>>
    BY <1>6 DEF PlanRun, Stored, steps, next
  <2>. HIDE DEF r
  <2>. QED BY <1>0, <1>1, <2>3, <2>4, OnlyActs
<1>7. CASE StoreReport(a)
  <2>. DEFINE report == [no |-> reports + 1, steps |-> actor[a].steps]
              r == [actor[a] EXCEPT !.pc = "record", !.report = reports + 1]
  <2>1. Become(a, r) /\ reports' = reports + 1 /\ applying' = applying \cup {report}
    BY <1>7 DEF StoreReport
  <2>2. Busy(windows, rows, r)
    BY <1>0 DEF Busy, IsHand, Fields
  <2>3. reports \in Nat /\ Plan(windows, actor[a].steps)
    BY <1>0 DEF SeasonOK, Busy
  <2>4. report.no = reports + 1 /\ Plan(windows, report.steps)
    BY <2>3
  <2>. HIDE DEF report, r
  <2>5. IsFiniteSet(applying \cup {report})
    BY FS_AddElement DEF ReportsOK
  <2>6. ReportsOK(windows, applying', reports')
    BY <2>1, <2>3, <2>4, <2>5 DEF ReportsOK
  <2>7. SeasonOK'
    BY <1>2, <2>1, <2>3
  <2>. QED BY <1>0, <1>1, <2>1, <2>2, <2>6, <2>7, OneActs
<1>8. CASE Verdict(a)
  <2>1. PICK r : Become(a, r) /\ Busy(windows, rows, r)
    <3>1. Busy(windows, rows, [actor[a] EXCEPT !.pc = "resume"])
      BY <1>0 DEF Busy, IsHand, Fields
    <3>. QED BY <1>8, <3>1, RestingFact DEF Verdict, Go
  <2>2. applying' \subseteq applying /\ reports' = reports /\ reports \in Nat
    BY <1>8 DEF Verdict, SeasonOK
  <2>3. IsFiniteSet(applying')
    BY <2>2, FS_Subset DEF ReportsOK
  <2>4. ReportsOK(windows, applying', reports')
    BY <2>2, <2>3 DEF ReportsOK
  <2>5. SeasonOK'
    BY <1>2, <2>1, <2>2
  <2>. QED BY <1>0, <1>1, <2>1, <2>4, <2>5, OneActs
<1>. QED BY <1>3, <1>4, <1>5, <1>6, <1>7, <1>8 DEF Syncs

LEMMA HandStep ==
  ASSUME HistoryInv, HandMove \/ HandDone
  PROVE  HistoryInv'
<1>. USE Known
<1>0. Manager \in Writers
  BY DEF Writers
<1>1. UNCHANGED <<windows, rows, round, official, applying, reports>>
  BY DEF HandMove, HandDone, Elsewhere, Stored
<1>2. CASE HandMove
  <2>1. PICK proposal \in HandProposals :
          /\ PlanTransaction(Seats, PlayerPosition, Slots, proposal).ok
          /\ Become(Manager, [Resting EXCEPT !.pc = "record",
               !.steps = <<PlanTransaction(Seats, PlayerPosition, Slots, proposal).plan>>])
    BY <1>2 DEF HandMove
  <2>. DEFINE plan == PlanTransaction(Seats, PlayerPosition, Slots, proposal).plan
              r == [Resting EXCEPT !.pc = "record", !.steps = <<plan>>]
  <2>2. Plan(windows, <<plan>>)
    BY <2>1, HandIsSound, OneStep
  <2>3. Become(Manager, r)
    BY <2>1
  <2>. HIDE DEF plan
  <2>4. Busy(windows, rows, r)
    BY <2>2, NoSteps, RestingFact DEF Busy, Resting, IsHand, Fields
  <2>. HIDE DEF r
  <2>. QED BY <1>0, <1>1, <2>3, <2>4, OnlyActs
<1>3. CASE HandDone
  <2>1. Become(Manager, Resting)
    BY <1>3 DEF HandDone
  <2>. QED BY <1>0, <1>1, <2>1, RestingFact, OnlyActs
<1>. QED BY <1>2, <1>3

-----------------------------------------------------------------------------
(* Carrying a step out.                                                    *)

LEMMA Carried ==
  ASSUME HistoryInv, NEW a \in Writers, NEW r, Become(a, r),
         UNCHANGED <<round, official, applying, reports>>,
         Lasting(windows, windows'), rows \subseteq rows', windows' \in Seq(Window),
         HeldOnce(windows'), Explained(windows', rows'), Busy(windows', rows', r)
  PROVE  HistoryInv'
<1>1. actor = [b \in Writers |-> actor[b]]
  BY DEF HistoryInv, SeasonOK
<1>2. actor'[a] = r /\ \A b \in Writers \ {a} : actor'[b] = actor[b]
  BY <1>1 DEF Become
<1>3. ASSUME NEW b \in Writers PROVE Busy(windows', rows', actor'[b])
  <2>1. Busy(windows, rows, actor[b])
    BY DEF HistoryInv
  <2>2. Busy(windows', rows', actor[b])
    BY <2>1, BusyLasts
  <2>. QED BY <1>2, <2>2
<1>4. ReportsOK(windows', applying', reports')
  <2>1. \A steps : Plan(windows, steps) => Plan(windows', steps)
    BY LastingFact
  <2>2. ReportsOK(windows, applying, reports)
    BY DEF HistoryInv
  <2>. QED BY <2>1, <2>2 DEF ReportsOK
<1>5. SeasonOK'
  BY DEF HistoryInv, SeasonOK, Become
<1>. QED BY <1>3, <1>4, <1>5 DEF HistoryInv

LEMMA RecordStep ==
  ASSUME HistoryInv, NEW a \in Writers, RecordRow(a)
  PROVE  HistoryInv'
<1>. USE Known
<1>. DEFINE row == RowOf(Head(actor[a].steps))
            r == [actor[a] EXCEPT !.pc = "close", !.todo = Head(actor[a].steps).closes]
<1>1. /\ actor[a].steps # <<>> /\ Become(a, r)
      /\ rows' = rows \cup {row}
      /\ UNCHANGED <<round, official, windows, applying, reports>>
  BY DEF RecordRow, Step, Elsewhere
<1>2. Busy(windows, rows, actor[a])
  OBVIOUS
<1>3. Busy(windows, rows', r)
  BY <1>1, <1>2 DEF Busy, IsHand, Fields
<1>. HIDE DEF r, row
<1>4. Lasting(windows, windows') /\ windows' \in Seq(Window) /\ HeldOnce(windows')
  BY <1>1 DEF Lasting, Typed
<1>5. Explained(windows', rows')
  <2>1. Explained(windows, rows)
    BY DEF HistoryInv
  <2>. QED BY <1>1, <2>1 DEF Explained
<1>. QED BY <1>1, <1>3, <1>4, <1>5, Carried

LEMMA LookStep ==
  ASSUME HistoryInv, NEW a \in Writers, LookAtWindow(a)
  PROVE  HistoryInv'
<1>. USE Known
<1>. DEFINE c == FirstOf(actor[a].todo)
            passed == [actor[a] EXCEPT !.todo = @ \ {c}]
            found == [actor[a] EXCEPT !.pc = "closing"]
<1>1. /\ actor[a].pc = "close" /\ actor[a].todo # {}
      /\ UNCHANGED <<round, official, windows, rows, applying, reports>>
      /\ Become(a, passed) \/ Become(a, found)
  BY DEF LookAtWindow, Elsewhere, Stored
<1>2. Busy(windows, rows, actor[a])
  OBVIOUS
<1>. HIDE DEF c
<1>3. Busy(windows, rows, passed)
  BY <1>1, <1>2 DEF Busy, IsHand, Fields
<1>4. Busy(windows, rows, found)
  BY <1>1, <1>2 DEF Busy, IsHand, Fields
<1>. HIDE DEF passed, found
<1>. QED BY <1>1, <1>3, <1>4, OnlyActs

(* Whatever became of the window since it was looked at, the row that is   *)
(* stored names its player and the round it is closed with.                *)
LEMMA CloseStep ==
  ASSUME HistoryInv, NEW a \in Writers, CloseWindow(a)
  PROVE  HistoryInv'
<1>. USE Known
<1>. DEFINE c == FirstOf(actor[a].todo)
            step == Head(actor[a].steps)
            r == [actor[a] EXCEPT !.pc = "close", !.todo = @ \ {c}]
<1>1. /\ actor[a].pc = "closing" /\ Become(a, r)
      /\ windows' = [windows EXCEPT ![c.seat].to = c.toRound]
      /\ UNCHANGED <<round, official, rows, applying, reports>>
  BY DEF CloseWindow, Elsewhere
<1>2. Busy(windows, rows, actor[a])
  OBVIOUS
<1>3. /\ actor[a].steps # <<>> /\ RowOf(step) \in rows
      /\ actor[a].todo \subseteq step.closes /\ c \in actor[a].todo
  BY <1>1, <1>2 DEF Busy, FirstOf
<1>4. Sound(windows, step)
  BY <1>2, <1>3, NextStep DEF Busy
<1>5. /\ c.seat \in DOMAIN windows /\ c.toRound = step.fromRound /\ c.toRound \in Nat \ {0}
      /\ Names(step.playersOut, windows[c.seat])
  BY <1>3, <1>4 DEF Sound
<1>6. RowOf(step).fromRound = c.toRound /\ RowOf(step).playersOut = step.playersOut
  BY <1>5 DEF RowOf
<1>7. Busy(windows, rows, r)
  BY <1>1, <1>2 DEF Busy, IsHand, Fields
<1>. HIDE DEF c, step, r
<1>8. windows \in Seq(Window) /\ HeldOnce(windows) /\ Explained(windows, rows)
  BY DEF Typed, HistoryInv
<1>9. /\ DOMAIN windows' = DOMAIN windows
      /\ \A i \in DOMAIN windows :
           /\ windows[i] \in Window
           /\ windows'[i] = IF i = c.seat THEN [windows[i] EXCEPT !.to = c.toRound]
                            ELSE windows[i]
  BY <1>1, <1>5, <1>8
<1>10. \A i \in DOMAIN windows :
         /\ windows'[i].member = windows[i].member /\ windows'[i].player = windows[i].player
         /\ windows'[i].from = windows[i].from
         /\ windows'[i].to = IF i = c.seat THEN c.toRound ELSE windows[i].to
  BY <1>9 DEF Window
<1>11. Lasting(windows, windows') /\ HeldOnce(windows')
  BY <1>5, <1>8, <1>9, <1>10 DEF Lasting, HeldOnce
<1>12. windows' \in Seq(Window)
  <2>1. \A i \in DOMAIN windows : windows'[i] \in Window
    BY <1>5, <1>9 DEF Window
  <2>2. windows' = [i \in DOMAIN windows |-> windows'[i]]
    BY <1>1
  <2>3. DOMAIN windows = 1..Len(windows) /\ Len(windows) \in Nat
    BY <1>8
  <2>. QED BY <2>1, <2>2, <2>3
<1>13. Explained(windows', rows')
  <2>. SUFFICES ASSUME NEW i \in DOMAIN windows
                PROVE  /\ i > DraftSeats => \E q \in rows : /\ q.fromRound = windows'[i].from
                                                           /\ Names(q.playersIn, windows'[i])
                       /\ windows'[i].to # 0 => \E q \in rows : /\ q.fromRound = windows'[i].to
                                                               /\ Names(q.playersOut, windows'[i])
    BY <1>1, <1>9 DEF Explained
  <2>1. \A seats : Names(seats, windows'[i]) <=> Names(seats, windows[i])
    BY <1>10 DEF Names
  <2>2. i > DraftSeats => \E q \in rows : /\ q.fromRound = windows'[i].from
                                          /\ Names(q.playersIn, windows'[i])
    BY <1>8, <1>10, <2>1 DEF Explained
  <2>3. CASE i = c.seat
    BY <1>3, <1>5, <1>6, <1>10, <2>1, <2>2, <2>3
  <2>4. CASE i # c.seat
    BY <1>8, <1>10, <2>1, <2>2, <2>4 DEF Explained
  <2>. QED BY <2>3, <2>4
<1>14. Busy(windows', rows', r)
  BY <1>1, <1>7, <1>11, BusyLasts
<1>. QED BY <1>1, <1>11, <1>12, <1>13, <1>14, Carried

LEMMA ListStep ==
  ASSUME HistoryInv, NEW a \in Writers, ListHeld(a)
  PROVE  HistoryInv'
<1>. USE Known
<1>. DEFINE r == [actor[a] EXCEPT !.pc = "open", !.todo = Head(actor[a].steps).opens,
                                  !.held = Seated(Seats)]
<1>1. /\ actor[a].pc = "close" /\ Become(a, r)
      /\ UNCHANGED <<round, official, windows, rows, applying, reports>>
  BY DEF ListHeld, Step, Elsewhere, Stored
<1>2. Busy(windows, rows, actor[a])
  OBVIOUS
<1>3. Busy(windows, rows, r)
  BY <1>1, <1>2 DEF Busy, IsHand, Fields
<1>. HIDE DEF r
<1>. QED BY <1>1, <1>3, OnlyActs

(* A window opens for a player nobody holds at that instant, and the row   *)
(* that is stored names him and the round.                                 *)
LEMMA OpenStep ==
  ASSUME HistoryInv, NEW a \in Writers, OpenOne(a)
  PROVE  HistoryInv'
<1>. USE Known
<1>. DEFINE o == FirstOf(actor[a].todo)
            step == Head(actor[a].steps)
            r == [actor[a] EXCEPT !.todo = @ \ {o}]
            w == NewWindow(o.member, o.player, o.fromRound)
<1>1. /\ actor[a].pc = "open" /\ actor[a].todo # {} /\ Become(a, r)
      /\ \/ windows' = windows
         \/ IndexAllows(o.player) /\ windows' = Append(windows, w)
      /\ UNCHANGED <<round, official, rows, applying, reports>>
  BY DEF OpenOne, Elsewhere
<1>2. Busy(windows, rows, actor[a])
  OBVIOUS
<1>3. /\ actor[a].steps # <<>> /\ RowOf(step) \in rows
      /\ o \in actor[a].todo /\ o \in step.opens
  BY <1>1, <1>2 DEF Busy, FirstOf
<1>4. Sound(windows, step)
  BY <1>2, <1>3, NextStep DEF Busy
<1>5. /\ o.member \in Members /\ o.player \in Players
      /\ o.fromRound = step.fromRound /\ o.fromRound \in Nat \ {0} /\ Names(step.playersIn, o)
  BY <1>3, <1>4 DEF Sound
<1>6. RowOf(step).fromRound = o.fromRound /\ RowOf(step).playersIn = step.playersIn
  BY <1>5 DEF RowOf
<1>7. Busy(windows, rows, r)
  BY <1>1, <1>2 DEF Busy, IsHand, Fields
<1>8. /\ w \in Window /\ w.to = 0 /\ w.member = o.member /\ w.player = o.player
      /\ w.from = o.fromRound
  BY <1>5 DEF NewWindow, Window
<1>. HIDE DEF o, step, r, w
<1>9. windows \in Seq(Window) /\ HeldOnce(windows) /\ Explained(windows, rows)
  BY DEF Typed, HistoryInv
<1>10. CASE windows' = windows
  BY <1>1, <1>7, <1>10, OnlyActs
<1>11. CASE IndexAllows(o.player) /\ windows' = Append(windows, w)
  <2>. DEFINE n == Len(windows)
  <2>1. n \in Nat /\ DOMAIN windows = 1..n /\ DOMAIN windows' = 1..(n + 1)
    BY <1>8, <1>9, <1>11
  <2>2. windows'[n + 1] = w /\ \A i \in 1..n : windows'[i] = windows[i]
    BY <1>8, <1>9, <1>11
  <2>3. windows' \in Seq(Window)
    BY <1>8, <1>9, <1>11
  <2>. HIDE DEF n
  <2>4. Lasting(windows, windows')
    BY <2>1, <2>2 DEF Lasting
  <2>5. \A i \in 1..n : windows[i].to = 0 => windows[i].player # o.player
    <3>. SUFFICES ASSUME NEW i \in 1..n, windows[i].to = 0
                  PROVE  windows[i].player # o.player
      OBVIOUS
    <3>1. i \in OpenWindows
      BY <2>1 DEF OpenWindows
    <3>2. [id |-> i, member |-> windows[i].member, player |-> windows[i].player] \in Seats
      BY <3>1 DEF Seats
    <3>3. windows[i].player \in Seated(Seats)
      BY <3>2 DEF Seated
    <3>. QED BY <1>11, <3>3 DEF IndexAllows
  <2>6. HeldOnce(windows')
    <3>1. 1..(n + 1) = (1..n) \cup {n + 1}
      BY <2>1
    <3>. QED BY <1>8, <1>9, <2>1, <2>2, <2>5, <3>1 DEF HeldOnce
  <2>7. \E q \in rows : q.fromRound = w.from /\ Names(q.playersIn, w)
    BY <1>3, <1>5, <1>6, <1>8 DEF Names
  <2>8. Explained(windows', rows')
    <3>. SUFFICES ASSUME NEW i \in 1..(n + 1)
                  PROVE  /\ i > DraftSeats => \E q \in rows : /\ q.fromRound = windows'[i].from
                                                             /\ Names(q.playersIn, windows'[i])
                         /\ windows'[i].to # 0 => \E q \in rows :
                                                    /\ q.fromRound = windows'[i].to
                                                    /\ Names(q.playersOut, windows'[i])
      BY <1>1, <2>1 DEF Explained
    <3>1. CASE i = n + 1
      BY <1>8, <2>2, <2>7, <3>1
    <3>2. CASE i \in 1..n
      BY <1>9, <2>1, <2>2, <3>2 DEF Explained
    <3>. QED BY <2>1, <3>1, <3>2
  <2>9. Busy(windows', rows', r)
    BY <1>1, <1>7, <2>4, BusyLasts
  <2>. QED BY <1>1, <2>3, <2>4, <2>6, <2>8, <2>9, Carried
<1>. QED BY <1>1, <1>10, <1>11

LEMMA DoneStep ==
  ASSUME HistoryInv, NEW a \in Writers, StepDone(a)
  PROVE  HistoryInv'
<1>. USE Known
<1>. DEFINE steps == actor[a].steps
            r == [actor[a] EXCEPT !.pc = "record", !.steps = Tail(steps), !.held = {}]
<1>1. /\ actor[a].pc = "open" /\ Become(a, r)
      /\ UNCHANGED <<round, official, windows, rows, applying, reports>>
  BY DEF StepDone, Elsewhere, Stored
<1>2. Busy(windows, rows, actor[a])
  OBVIOUS
<1>3. Plan(windows, Tail(steps))
  BY <1>1, <1>2, NextStep DEF Busy
<1>4. Busy(windows, rows, r)
  BY <1>1, <1>2, <1>3 DEF Busy, IsHand, Fields
<1>. HIDE DEF r
<1>. QED BY <1>1, <1>4, OnlyActs

LEMMA CrashStep ==
  ASSUME HistoryInv, NEW a \in Writers, Crash(a)
  PROVE  HistoryInv'
<1>1. /\ Become(a, Resting)
      /\ UNCHANGED <<round, official, windows, rows, applying, reports>>
  BY DEF Crash, Stored
<1>. QED BY <1>1, RestingFact, OnlyActs

LEMMA RoundStep ==
  ASSUME HistoryInv, RoundTurns
  PROVE  HistoryInv'
<1>1. /\ round < MaxRound /\ round' = round + 1 /\ official' \in OfficialRosters
      /\ UNCHANGED <<actor, windows, rows, applying, reports>>
  BY DEF RoundTurns, Stored
<1>2. round' \in 1..MaxRound /\ official' \in [Members -> SUBSET Players]
  BY <1>1, RosterAssumption DEF HistoryInv, SeasonOK
<1>3. SeasonOK'
  BY <1>1, <1>2 DEF HistoryInv, SeasonOK
<1>. QED BY <1>1, <1>3 DEF HistoryInv

-----------------------------------------------------------------------------
(* The rosters the draft left.                                             *)

LEMMA StartWindows ==
  ASSUME RosterInit
  PROVE  /\ windows \in Seq(Window) /\ HeldOnce(windows)
         /\ \A i \in DOMAIN windows : windows[i].to = 0 /\ i <= DraftSeats
<1>. DEFINE drafted == {q \in Members \X Players : q[2] \in OpeningRosters[q[1]]}
            window(q) == NewWindow(q[1], q[2], 1)
            opened == {window(q) : q \in drafted}
            f == [q \in drafted |-> window(q)]
            n == Cardinality(opened)
<1>1. IsFiniteSet(drafted)
  <2>1. IsFiniteSet(Members \X Players)
    BY RosterAssumption, FS_Product
  <2>. QED BY <2>1, FS_Subset
<1>2. DraftSeats = Cardinality(drafted) /\ windows = SetToSeq(opened)
  BY DEF DraftSeats, RosterInit, RosterStart
<1>3. f \in Surjection(drafted, opened)
  BY DEF Surjection
<1>4. \A w \in opened : /\ w \in Window /\ w.to = 0
                        /\ w.player \in OpeningRosters[w.member]
                        /\ w = NewWindow(w.member, w.player, 1)
  BY RosterAssumption DEF NewWindow, Window
<1>5. IsFiniteSet(opened) /\ n <= Cardinality(drafted)
  <2>. HIDE DEF f, opened, drafted
  <2>. QED BY <1>1, <1>3, FS_Surjection
<1>6. n \in Nat /\ DraftSeats \in Nat /\ n <= DraftSeats
  <2>. HIDE DEF opened, drafted
  <2>. QED BY <1>1, <1>2, <1>5, FS_CardinalityType
<1>. HIDE DEF opened, drafted
<1>7. \E g \in [1..n -> opened] : IsInjective(g)
  BY <1>5, FS_CardinalityType DEF ExistsBijection, Bijection, Injection
<1>8. windows \in [1..n -> opened] /\ IsInjective(windows)
  BY <1>2, <1>7 DEF SetToSeq
<1>. HIDE DEF n
<1>9. DOMAIN windows = 1..n /\ \A i \in 1..n : windows[i] \in opened
  BY <1>8
<1>10. windows \in Seq(Window)
  BY <1>4, <1>6, <1>8
<1>11. HeldOnce(windows)
  <2>. SUFFICES ASSUME NEW i \in 1..n, NEW j \in 1..n, windows[i].player = windows[j].player
                PROVE  i = j
    BY <1>9 DEF HeldOnce
  <2>1. windows[i].member \in Members /\ windows[j].member \in Members
    BY <1>4, <1>9 DEF Window
  <2>2. windows[i].member = windows[j].member
    BY <1>4, <1>9, <2>1, RosterAssumption
  <2>3. windows[i] = windows[j]
    BY <1>4, <1>9, <2>2
  <2>. QED BY <1>8, <1>9, <2>3 DEF IsInjective
<1>. QED BY <1>4, <1>6, <1>9, <1>10, <1>11

LEMMA HistoryStarts == RosterInit => HistoryInv
<1>. SUFFICES ASSUME RosterInit PROVE HistoryInv
  OBVIOUS
<1>1. /\ round \in 1..MaxRound /\ official \in OfficialRosters
      /\ rows = {} /\ applying = {} /\ reports = 0 /\ actor = [a \in Writers |-> Resting]
  BY DEF RosterInit, RosterStart
<1>2. SeasonOK
  BY <1>1, StartWindows, RosterAssumption DEF SeasonOK
<1>3. ReportsOK(windows, applying, reports)
  <2>1. IsFiniteSet(applying) /\ \A r : r \notin applying
    BY <1>1, FS_EmptySet
  <2>. QED BY <2>1 DEF ReportsOK
<1>4. Explained(windows, rows)
  <2>1. DraftSeats \in Nat /\ DOMAIN windows \subseteq Nat
    <3>1. IsFiniteSet(Members \X Players)
      BY RosterAssumption, FS_Product
    <3>2. IsFiniteSet({q \in Members \X Players : q[2] \in OpeningRosters[q[1]]})
      BY <3>1, FS_Subset
    <3>. QED BY <3>2, FS_CardinalityType, StartWindows DEF DraftSeats
  <2>2. \A i \in DOMAIN windows : ~(i > DraftSeats) /\ windows[i].to = 0
    BY <2>1, StartWindows
  <2>. QED BY <2>2 DEF Explained
<1>5. \A a \in Writers : Busy(windows, rows, actor[a])
  BY <1>1, RestingFact
<1>. QED BY <1>2, <1>3, <1>4, <1>5, StartWindows DEF HistoryInv

LEMMA HistoryKept == HistoryInv /\ [RosterNext]_rosterVars => HistoryInv'
<1>. SUFFICES ASSUME HistoryInv, [RosterNext]_rosterVars PROVE HistoryInv'
  OBVIOUS
<1>1. ASSUME NEW a \in Syncers, Syncs(a) PROVE HistoryInv'
  BY <1>1, SyncStep
<1>2. CASE HandMove \/ HandDone
  BY <1>2, HandStep
<1>3. ASSUME NEW a \in Writers, Applies(a) PROVE HistoryInv'
  BY <1>3, RecordStep, LookStep, CloseStep, ListStep, OpenStep, DoneStep DEF Applies
<1>4. ASSUME NEW a \in Writers, Crash(a) PROVE HistoryInv'
  BY <1>4, CrashStep
<1>5. CASE RoundTurns
  BY <1>5, RoundStep
<1>6. CASE UNCHANGED rosterVars
  <2>1. UNCHANGED <<round, official, windows, rows, applying, reports, actor>>
    BY <1>6 DEF rosterVars
  <2>. QED BY <2>1 DEF HistoryInv, SeasonOK
<1>. QED BY <1>1, <1>2, <1>3, <1>4, <1>5, <1>6 DEF RosterNext

(* A window opened since the draft, or closed, has the transactions row    *)
(* that names its player and round at every instant, though runs are       *)
(* resumed by several processes at once and any of them dies between two   *)
(* requests (applyTransaction writes the row before any window).           *)
THEOREM HistoryExplains == RosterSpec => []EveryMoveHasItsRow
<1>1. HistoryInv => EveryMoveHasItsRow
  BY DEF HistoryInv, Explained, EveryMoveHasItsRow
<1>. QED BY <1>1, HistoryStarts, HistoryKept, PTL DEF RosterSpec
=============================================================================
