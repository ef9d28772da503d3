----------------------------- MODULE MCRules_proofs -----------------------------
(***************************************************************************)
(* The engine's rules, for leagues, drafts, boards and pools of every      *)
(* size: what the questions of MCEngine find on small ones.                *)
(***************************************************************************)
EXTENDS MCRules, RosterPlans_proofs

-----------------------------------------------------------------------------
(* Questions: what is known of the one that was asked.                     *)

IsOrder ==
  \E format \in Formats, n \in 1..MaxMembers, rounds \in 1..MaxRounds :
    question = [kind |-> "order", format |-> format, members |-> [i \in 1..n |-> i],
                rounds |-> rounds]

IsRoll == \E n \in 1..MaxMembers : question = [kind |-> "roll", n |-> n]

IsClock ==
  \E total \in 1..MaxSlots, status \in {"live", "paused", "complete"} :
    \E taken \in SUBSET (1..total), currentPick \in 0..total + 1 :
      question = [kind |-> "clock", total |-> total, status |-> status,
                  taken |-> taken, currentPick |-> currentPick]

IsChoice ==
  \E sheet \in Sheets, rankPir \in UNION {[known -> Pirs] : known \in SUBSET Pool},
     template \in Templates, roster, others \in SUBSET Pool :
    question = [kind |-> "choice", sheet |-> sheet, rankPir |-> rankPir,
                template |-> template, roster |-> roster, taken |-> roster \cup others]

IsTransaction ==
  \E before \in [1..4 -> 0..2], template \in TransactionTemplates, type \in {"trade", "drop", "add"},
     players, others \in UpTo(1..4, 2) :
    /\ \A m \in Teams : FitsTemplate(TargetOf(before, Teams)[m], PoolPosition4, template, FALSE)
    /\ question = [kind |-> "transaction", before |-> before, template |-> template,
                   proposal |-> [type |-> type, fromRound |-> 1, member |-> 1, players |-> players,
                                 memberA |-> 1, memberB |-> 2, outA |-> players, outB |-> others]]

IsSync ==
  \E before, after \in [1..4 -> 0..3] :
    question = [kind |-> "sync", before |-> before, after |-> after]

IsLog ==
  \E before, after \in [1..4 -> 0..3], log \in Seq(Move) :
    question = [kind |-> "log", before |-> before, after |-> after, log |-> log]

(* A transfer whose players are listed. *)
Transfer(e, X) == e.sent \in Seq(X) /\ e.received \in Seq(X)
Transfers(E, X) == \A e \in E : Transfer(e, X)

IsTransfers ==
  \E before, after \in [1..4 -> 0..3] : \E log, applied, X, E :
    /\ log \in Seq(E) /\ Transfers(E, X)
    /\ question = [kind |-> "transfers", before |-> before, after |-> after, log |-> log,
                   applied |-> applied]

IsReads ==
  \E sides \in Tuples(Sides, 3), days \in Tuples(0..2, 3), gameDays \in [1..3 -> 1..2] :
    question = [kind |-> "reads", sides |-> sides, days |-> days, gameDays |-> gameDays]

IsEdit ==
  \E size \in Nat, edit \in Edits : \E tiers \in SUBSET (1..size - 1) :
    question = [kind |-> "edit", sheet |-> NewSheet([r \in 1..size |-> r], tiers), edit |-> edit]

IsClockwork ==
  \E tipOffs \in Starts, outcome \in Tuples({"applied", "failed", "down"}, Len(Ticks)) :
    question = [kind |-> "clockwork", tipOffs |-> tipOffs, outcome |-> outcome]

IsPaste ==
  \E lines \in UpTo(Written3, 3) : \E answered \in SUBSET DOMAIN lines :
    \E choices \in [answered -> {0, 1, 3}] :
      question = [kind |-> "paste", lines |-> lines, choices |-> choices]

IsHistory ==
  question.kind = "history" /\ DOMAIN question.rows = 1..4 /\ \A i \in 1..4 : question.rows[i].time \in Int

IsSeason ==
  \E career1 \in Careers(1), career2 \in Careers(2), points \in Reports,
     phase \in Tuples({"RS", "PO"}, 2), recorded \in SeasonLineups :
    question = [kind |-> "season", windows |-> career1 \cup career2, recorded |-> recorded,
                lines |-> {[player |-> x[1], round |-> x[2], phase |-> phase[x[2]], tenths |-> points[x]] :
                             x \in {y \in DOMAIN points : points[y] # 0}}]

OtherKinds == {"lineup", "import"}

Posed ==
  question # None => \/ IsOrder \/ IsRoll \/ IsClock \/ IsChoice \/ IsTransaction
                      \/ IsSync \/ IsLog \/ IsTransfers \/ IsReads \/ IsEdit
                      \/ IsClockwork
                      \/ IsPaste
                      \/ IsHistory
                      \/ IsSeason
                      \/ question.kind \in OtherKinds

LEMMA OtherAsks ==
  AskLineup \/ AskImport
  => question'.kind \in OtherKinds
<1>1. AskLineup => question'.kind = "lineup"
  BY DEF AskLineup
<1>2. AskImport => question'.kind = "import"
  BY DEF AskImport
<1>. QED BY <1>1, <1>2 DEF OtherKinds

(* The logs asked about are sequences, and start where a team may hold     *)
(* anybody.                                                                *)
LEMMA StartsFact == LogStarts \subseteq [1..4 -> 0..3]
BY DEF LogStarts

LEMMA UpToFact ==
  ASSUME NEW S, NEW n \in Nat, NEW seq \in UpTo(S, n)
  PROVE  seq \in Seq(S)
<1>1. PICK k \in 0..n : seq \in [1..k -> S]
  BY DEF UpTo, Tuples
<1>. QED BY <1>1

(* What every move of a log leaves as it is, the whole log does, and so of   *)
(* the transfers.                                                            *)
LEMMA AfterMovesKeep ==
  ASSUME NEW n \in Nat, NEW L, NEW moves \in [1..n -> L], NEW V, NEW base \in V,
         \A x \in V, move \in L : AfterMove(x, move) \in V
  PROVE  FoldLeft(AfterMove, base, moves) \in V
<1>. DEFINE step == [x \in V \X (1..n) |-> AfterMove(x[1], moves[x[2]])]
            next(f) == [s \in SUBSET (1..n) |->
                          IF s = {} THEN base ELSE AfterMove(f[s \ {Max(s)}], moves[Max(s)])]
            iter == CHOOSE f : f = next(f)
<1>1. FoldLeft(AfterMove, base, moves) = iter[1..n]
  BY Zenon DEF FoldLeft, MapThenFoldSet
<1>4. step \in [V \X (1..n) -> V]
  OBVIOUS
<1>5. PICK g : Folds(n, V, base, step, g)
  <2>. HIDE DEF step
  <2>. QED BY <1>4, FoldExists
<1>6. g = next(g)
  BY <1>5 DEF Folds
<1>. HIDE DEF step
<1>7. iter = next(iter)
  <2>. HIDE DEF next
  <2>. QED BY <1>6
<1>. HIDE DEF iter
<1>. DEFINE S == {k \in 0..n : iter[1..k] \in V}
<1>8. 0 \in S
  <2>1. 1..0 = {} /\ {} \in SUBSET (1..n)
    OBVIOUS
  <2>2. iter[{}] = base
    BY <1>7, <2>1
  <2>3. iter[1..0] = base
    BY <2>1, <2>2
  <2>. HIDE DEF next
  <2>. QED BY <2>3
<1>9. ASSUME NEW k \in 1..n, k - 1 \in S PROVE k \in S
  <2>1. /\ 1..k \in SUBSET (1..n) /\ 1..k # {}
        /\ Max(1..k) = k /\ (1..k) \ {k} = 1..k - 1
    BY PrefixFact
  <2>2. iter[1..k] = AfterMove(iter[1..k - 1], moves[k])
    BY <1>7, <2>1
  <2>. HIDE DEF next
  <2>. QED BY <1>9, <2>2
<1>. HIDE DEF S
<1>10. n \in S
  <2>1. \A k \in 1..n : k - 1 \in S => k \in S
    BY <1>9
  <2>. HIDE DEF next
  <2>2. \A k \in 0..n : k \in S
    BY <1>8, <2>1, Upward
  <2>. QED BY <2>2
<1>. QED BY <1>1, <1>10 DEF S

LEMMA AfterEventsKeep ==
  ASSUME NEW n \in Nat, NEW L, NEW events \in [1..n -> L], NEW V, NEW base \in V,
         \A x \in V, event \in L : AfterEvent(x, event) \in V
  PROVE  FoldLeft(AfterEvent, base, events) \in V
<1>. DEFINE step == [x \in V \X (1..n) |-> AfterEvent(x[1], events[x[2]])]
            next(f) == [s \in SUBSET (1..n) |->
                          IF s = {} THEN base ELSE AfterEvent(f[s \ {Max(s)}], events[Max(s)])]
            iter == CHOOSE f : f = next(f)
<1>1. FoldLeft(AfterEvent, base, events) = iter[1..n]
  BY Zenon DEF FoldLeft, MapThenFoldSet
<1>4. step \in [V \X (1..n) -> V]
  OBVIOUS
<1>5. PICK g : Folds(n, V, base, step, g)
  <2>. HIDE DEF step
  <2>. QED BY <1>4, FoldExists
<1>6. g = next(g)
  BY <1>5 DEF Folds
<1>. HIDE DEF step
<1>7. iter = next(iter)
  <2>. HIDE DEF next
  <2>. QED BY <1>6
<1>. HIDE DEF iter
<1>. DEFINE S == {k \in 0..n : iter[1..k] \in V}
<1>8. 0 \in S
  <2>1. 1..0 = {} /\ {} \in SUBSET (1..n)
    OBVIOUS
  <2>2. iter[{}] = base
    BY <1>7, <2>1
  <2>3. iter[1..0] = base
    BY <2>1, <2>2
  <2>. HIDE DEF next
  <2>. QED BY <2>3
<1>9. ASSUME NEW k \in 1..n, k - 1 \in S PROVE k \in S
  <2>1. /\ 1..k \in SUBSET (1..n) /\ 1..k # {}
        /\ Max(1..k) = k /\ (1..k) \ {k} = 1..k - 1
    BY PrefixFact
  <2>2. iter[1..k] = AfterEvent(iter[1..k - 1], events[k])
    BY <1>7, <2>1
  <2>. HIDE DEF next
  <2>. QED BY <1>9, <2>2
<1>. HIDE DEF S
<1>10. n \in S
  <2>1. \A k \in 1..n : k - 1 \in S => k \in S
    BY <1>9
  <2>. HIDE DEF next
  <2>2. \A k \in 0..n : k \in S
    BY <1>8, <2>1, Upward
  <2>. QED BY <2>2
<1>. QED BY <1>1, <1>10 DEF S

LEMMA MovesLeaveOwners ==
  ASSUME NEW n \in Nat, NEW log \in [1..n -> Move], NEW before \in [1..4 -> 0..3]
  PROVE  FoldLeft(AfterMove, before, log) \in [1..4 -> 0..3]
<1>. DEFINE V == [1..4 -> 0..3]
<1>1. \A x \in V, move \in Move : AfterMove(x, move) \in V
  BY DEF Move, Teams, AfterMove
<1>. HIDE DEF V
<1>2. before \in V
  BY DEF V
<1>3. FoldLeft(AfterMove, before, log) \in V
  BY <1>1, <1>2, AfterMovesKeep
<1>. QED BY <1>3 DEF V

LEMMA EventsLeaveOwners ==
  ASSUME NEW n \in Nat, NEW log \in [1..n -> Event], NEW before \in [1..4 -> 0..3]
  PROVE  FoldLeft(AfterEvent, before, log) \in [1..4 -> 0..3]
<1>. DEFINE V == [1..4 -> 0..3]
<1>1. \A x \in V, event \in Event : AfterEvent(x, event) \in V
  <2>. SUFFICES ASSUME NEW x \in V, NEW event \in Event PROVE AfterEvent(x, event) \in V
    OBVIOUS
  <2>1. event.offer \in 0..3 /\ event.request \in 0..3
    BY DEF Event, Teams
  <2>2. DOMAIN x = 1..4 /\ \A p \in 1..4 : x[p] \in 0..3
    OBVIOUS
  <2>. QED BY <2>1, <2>2, SMT DEF AfterEvent
<1>. HIDE DEF V
<1>2. before \in V
  BY DEF V
<1>3. FoldLeft(AfterEvent, before, log) \in V
  BY <1>1, <1>2, AfterEventsKeep
<1>. QED BY <1>3 DEF V

LEMMA Part ==
  ASSUME NEW S, NEW seq \in Seq(S), NEW i \in 1..Len(seq) + 1, NEW j \in 0..Len(seq), i <= j + 1
  PROVE  \E n \in Nat : SubSeq(seq, i, j) \in [1..n -> S]
<1>. DEFINE part == SubSeq(seq, i, j)
<1>1. Len(seq) \in Nat /\ i \in Int /\ j \in Int /\ \A k \in i..j : seq[k] \in S
  OBVIOUS
<1>2. part \in Seq(S)
  BY <1>1
<1>. HIDE DEF part
<1>3. Len(part) \in Nat /\ part \in [1..Len(part) -> S]
  BY <1>2
<1>. QED BY <1>3 DEF part

LEMMA LogAsked == AskLog => IsLog'
<1>. SUFFICES ASSUME AskLog PROVE IsLog'
  OBVIOUS
<1>1. PICK before \in LogStarts, log \in UpTo({m \in Move : m.arrival # m.departure}, 2), lost \in 0..1 :
        /\ lost <= Len(log)
        /\ question' = [kind |-> "log", before |-> before,
                        after |-> FoldLeft(AfterMove, before, SubSeq(log, 1, Len(log) - lost)),
                        log |-> log]
  BY Zenon DEF AskLog
<1>. DEFINE after == FoldLeft(AfterMove, before, SubSeq(log, 1, Len(log) - lost))
<1>2. before \in [1..4 -> 0..3]
  BY StartsFact
<1>3. log \in Seq(Move)
  <2>. DEFINE S == {m \in Move : m.arrival # m.departure}
  <2>1. log \in Seq(S)
    BY UpToFact
  <2>2. S \subseteq Move
    OBVIOUS
  <2>. HIDE DEF S
  <2>. QED BY <2>1, <2>2
<1>4. question' = [kind |-> "log", before |-> before, after |-> after, log |-> log]
  BY <1>1
<1>5. after \in [1..4 -> 0..3]
  <2>. DEFINE k == Len(log) - lost
              part == SubSeq(log, 1, k)
  <2>1. Len(log) \in Nat
    BY <1>3
  <2>2. 1 \in 1..Len(log) + 1 /\ k \in 0..Len(log) /\ 1 <= k + 1
    BY <1>1, <2>1
  <2>. HIDE DEF k
  <2>3. PICK n \in Nat : part \in [1..n -> Move]
    BY <1>3, <2>2, Part
  <2>. HIDE DEF part
  <2>4. FoldLeft(AfterMove, before, part) \in [1..4 -> 0..3]
    BY <1>2, <2>3, MovesLeaveOwners
  <2>. QED BY <2>4 DEF part, k
<1>. HIDE DEF after
<1>. QED BY <1>2, <1>3, <1>4, <1>5, Zenon DEF IsLog

LEMMA TransfersAsked == AskTransfers => IsTransfers'
<1>. SUFFICES ASSUME AskTransfers PROVE IsTransfers'
  OBVIOUS
<1>. DEFINE named(log) == [i \in DOMAIN log |-> [id |-> i, accepted |-> TRUE, offer |-> log[i].offer,
                            request |-> log[i].request, sent |-> log[i].sent,
                            received |-> log[i].received]]
            became(before, log, missing) ==
              FoldLeft(AfterEvent, before, SubSeq(log, 1 + missing, Len(log)))
<1>1. PICK before \in LogStarts, log \in UpTo(Event, 2), missing \in 0..1 :
        /\ missing <= Len(log)
        /\ question' = [kind |-> "transfers", before |-> before, after |-> became(before, log, missing),
                        log |-> named(log), applied |-> {}]
  BY Zenon DEF AskTransfers
<1>. DEFINE after == became(before, log, missing)
            list == named(log)
            E == {list[i] : i \in DOMAIN list}
<1>2. before \in [1..4 -> 0..3]
  BY StartsFact
<1>3. list \in Seq(E)
  <2>1. log \in Seq(Event)
    BY UpToFact
  <2>2. Len(log) \in Nat /\ DOMAIN list = 1..Len(log)
    BY <2>1
  <2>3. list = [i \in DOMAIN list |-> list[i]]
    OBVIOUS
  <2>. HIDE DEF list
  <2>4. list \in [1..Len(log) -> E]
    BY <2>2, <2>3
  <2>. QED BY <2>2, <2>4
<1>4. question' = [kind |-> "transfers", before |-> before, after |-> after, log |-> list, applied |-> {}]
  BY <1>1
<1>5. log \in Seq(Event)
  BY UpToFact
<1>6. after \in [1..4 -> 0..3]
  <2>. DEFINE k == Len(log)
              i == 1 + missing
              part == SubSeq(log, i, k)
  <2>1. k \in Nat
    BY <1>5
  <2>2. i \in 1..k + 1 /\ k \in 0..k /\ i <= k + 1
    BY <1>1, <2>1
  <2>. HIDE DEF i
  <2>3. PICK n \in Nat : part \in [1..n -> Event]
    BY <1>5, <2>2, Part
  <2>. HIDE DEF part
  <2>4. FoldLeft(AfterEvent, before, part) \in [1..4 -> 0..3]
    BY <1>2, <2>3, EventsLeaveOwners
  <2>. QED BY <2>4 DEF part, i
<1>7. Transfers(E, 1..4)
  <2>1. \A e \in Event : e.sent \in Seq(1..4) /\ e.received \in Seq(1..4)
    <3>1. <<1>> \in Seq(1..4) /\ <<2>> \in Seq(1..4) /\ <<3>> \in Seq(1..4) /\ <<4>> \in Seq(1..4)
      OBVIOUS
    <3>2. <<1, 3>> \in Seq(1..4) /\ <<3, 4>> \in Seq(1..4)
      OBVIOUS
    <3>3. \A e \in Event : /\ e.sent \in {<<1>>, <<2>>, <<1, 3>>}
                          /\ e.received \in {<<2>>, <<3>>, <<4>>, <<3, 4>>}
      BY DEF Event
    <3>4. {<<1>>, <<2>>, <<1, 3>>} \subseteq Seq(1..4)
          /\ {<<2>>, <<3>>, <<4>>, <<3, 4>>} \subseteq Seq(1..4)
      BY Zenon, <3>1, <3>2
    <3>. QED BY Zenon, <3>3, <3>4
  <2>2. \A i \in DOMAIN log : log[i] \in Event
    BY <1>5
  <2>3. \A i \in DOMAIN log : list[i].sent = log[i].sent /\ list[i].received = log[i].received
    OBVIOUS
  <2>4. DOMAIN list = DOMAIN log
    OBVIOUS
  <2>. HIDE DEF list
  <2>. QED BY <2>1, <2>2, <2>3, <2>4 DEF Transfers, Transfer
<1>. HIDE DEF after, list, E
<1>. QED BY <1>2, <1>3, <1>4, <1>6, <1>7, Zenon DEF IsTransfers

(* The histories asked about are four rows, each written at some time.      *)
LEMMA HistoryAsked == AskHistory => IsHistory'
<1>. SUFFICES ASSUME AskHistory PROVE IsHistory'
  OBVIOUS
<1>. DEFINE told(rows, events, gap, i) ==
              [type |-> rows[i].type, fromRound |-> 1, members |-> <<rows[i].member>>,
               playersOut |-> IF rows[i].type = "drop" THEN rows[i].member :> <<rows[i].player>> ELSE NoPlayers,
               playersIn |-> IF rows[i].type = "add" THEN rows[i].member :> <<rows[i].player>> ELSE NoPlayers,
               time |-> gap * (4 - i), event |-> events[i]]
<1>1. PICK rows \in Tuples([type : {"add", "drop"}, member : Teams, player : 1..2], 4),
           events \in {<<0, 0, 0, 0>>, <<7, 7, 7, 7>>, <<0, 0, 7, 7>>}, gap \in {1, SyncWindow + 1} :
        question' = [kind |-> "history", rows |-> [i \in 1..4 |-> told(rows, events, gap, i)]]
  BY Zenon DEF AskHistory
<1>2. \A i \in 1..4 : told(rows, events, gap, i).time = gap * (4 - i)
  OBVIOUS
<1>. HIDE DEF told
<1>3. question'.kind = "history" /\ question'.rows = [i \in 1..4 |-> told(rows, events, gap, i)]
  BY <1>1
<1>4. gap \in Int
  BY MoveLogsAssumption
<1>5. \A i \in 1..4 : question'.rows[i].time \in Int
  BY <1>2, <1>3, <1>4
<1>. QED BY <1>3, <1>5 DEF IsHistory

LEMMA PosedStep == Posed /\ [RulesNext]_question => Posed'
<1>. SUFFICES ASSUME Posed, [RulesNext]_question PROVE Posed'
  OBVIOUS
<1>1. AskOrder => IsOrder'
  BY DEF AskOrder, IsOrder
<1>2. AskRoll => IsRoll'
  BY DEF AskRoll, IsRoll
<1>3. AskClock => IsClock'
  BY DEF AskClock, IsClock
<1>4. AskChoice => IsChoice'
  BY DEF AskChoice, IsChoice
<1>5. AskTransaction => IsTransaction'
  BY Zenon DEF AskTransaction, IsTransaction
<1>6. AskSync => IsSync'
  BY Zenon DEF AskSync, IsSync
<1>7. AskLog => IsLog'
  BY LogAsked
<1>8. AskTransfers => IsTransfers'
  BY TransfersAsked
<1>9. AskReads => IsReads'
  BY Zenon DEF AskReads, IsReads
<1>10. AskEdit => IsEdit'
  <2>1. 0..4 \subseteq Nat
    OBVIOUS
  <2>. QED BY <2>1, Zenon DEF AskEdit, IsEdit
<1>11. AskClockwork => IsClockwork'
  BY Zenon DEF AskClockwork, IsClockwork
<1>12. AskPaste => IsPaste'
  BY Zenon DEF AskPaste, IsPaste
<1>13. AskHistory => IsHistory'
  BY HistoryAsked
<1>14. AskSeason => IsSeason'
  BY Zenon DEF AskSeason, IsSeason
<1>15. CASE UNCHANGED question
  <2>1. /\ (IsOrder => IsOrder')
         /\ (IsRoll => IsRoll')
         /\ (IsClock => IsClock')
         /\ (IsChoice => IsChoice')
         /\ (IsTransaction => IsTransaction')
         /\ (IsSync => IsSync')
         /\ (IsLog => IsLog')
         /\ (IsTransfers => IsTransfers')
    BY <1>15 DEF IsOrder, IsRoll, IsClock, IsChoice, IsTransaction, IsSync, IsLog, IsTransfers
  <2>2. (IsReads => IsReads') /\ (IsEdit => IsEdit') /\ (IsClockwork => IsClockwork')
    BY <1>15 DEF IsReads, IsEdit, IsClockwork
  <2>3. (IsPaste => IsPaste') /\ (IsHistory => IsHistory') /\ (IsSeason => IsSeason')
    BY <1>15 DEF IsPaste, IsHistory, IsSeason
  <2>4. question'.kind = question.kind /\ (question # None <=> question' # None)
    BY <1>15
  <2>. QED BY <2>1, <2>2, <2>3, <2>4 DEF Posed, OtherKinds
<1>16. CASE RulesNext
  BY <1>1, <1>2, <1>3, <1>4, <1>5, <1>6, <1>7, <1>8, <1>9, <1>10, <1>11, <1>12, <1>13, <1>14, <1>16, OtherAsks
     DEF RulesNext, Next, Posed
<1>. QED BY <1>15, <1>16

LEMMA PosedAlways == RulesSpec => []Posed
<1>1. Init => Posed
  BY DEF Init, Posed
<1>. QED BY <1>1, PosedStep, PTL DEF RulesSpec

(* The kind tells the questions apart.                                     *)
LEMMA KindFact ==
  ASSUME Posed
  PROVE  /\ Asked("order") => IsOrder
         /\ Asked("roll") => IsRoll
         /\ Asked("clock") => IsClock
         /\ Asked("choice") => IsChoice
         /\ Asked("transaction") => IsTransaction
         /\ Asked("sync") => IsSync
         /\ Asked("log") => IsLog
         /\ Asked("transfers") => IsTransfers
         /\ Asked("reads") => IsReads
         /\ Asked("edit") => IsEdit
         /\ Asked("clockwork") => IsClockwork
         /\ Asked("paste") => IsPaste
         /\ Asked("history") => IsHistory
         /\ Asked("season") => IsSeason
<1>1. IsOrder => question.kind = "order"
  BY DEF IsOrder
<1>2. IsRoll => question.kind = "roll"
  BY DEF IsRoll
<1>3. IsClock => question.kind = "clock"
  BY DEF IsClock
<1>4. IsChoice => question.kind = "choice"
  BY DEF IsChoice
<1>5. IsTransaction => question.kind = "transaction"
  BY DEF IsTransaction
<1>6. IsSync => question.kind = "sync"
  BY DEF IsSync
<1>7. IsLog => question.kind = "log"
  BY DEF IsLog
<1>8. IsTransfers => question.kind = "transfers"
  BY DEF IsTransfers
<1>9. IsReads => question.kind = "reads"
  BY DEF IsReads
<1>10. IsEdit => question.kind = "edit"
  BY DEF IsEdit
<1>11. IsClockwork => question.kind = "clockwork"
  BY DEF IsClockwork
<1>12. IsPaste => question.kind = "paste"
  BY DEF IsPaste
<1>13. IsHistory => question.kind = "history"
  BY DEF IsHistory
<1>14. IsSeason => question.kind = "season"
  BY DEF IsSeason
<1>. QED BY <1>1, <1>2, <1>3, <1>4, <1>5, <1>6, <1>7, <1>8, <1>9, <1>10, <1>11, <1>12, <1>13, <1>14 DEF Posed, Asked, OtherKinds

-----------------------------------------------------------------------------
(* The clock.                                                              *)

LEMMA UndoLands ==
  ASSUME NEW total \in Nat, NEW taken \in SUBSET (1..total), NEW target \in 1..total
  PROVE  LET left == taken \ Doomed(taken, target)
         IN  /\ taken \cap (1..target - 1) = left
             /\ WhoIsOnClock("live", target, left, total) = target
<1>. DEFINE left == taken \ Doomed(taken, target)
<1>1. left = taken \cap (1..target - 1)
  <2>1. ASSUME NEW no \in taken PROVE no \in 1..total
    OBVIOUS
  <2>2. ASSUME NEW no \in taken PROVE no \in Doomed(taken, target) <=> ~(no \in 1..target - 1)
    BY <2>1 DEF Doomed
  <2>. QED BY <2>2
<1>2. left \in SUBSET (1..total)
  OBVIOUS
<1>. HIDE DEF left
<1>3. HighestPicked(left) \in 0..target - 1
  <2>1. /\ HighestPicked(left) \in 0..total
        /\ IF left = {} THEN HighestPicked(left) = 0 ELSE HighestPicked(left) \in left
    BY <1>2, HighestPickedFact
  <2>. QED BY <1>1, <2>1
<1>. DEFINE status == "live"
            start == ClockStart(target, left)
<1>. HIDE DEF status, start
<1>4. /\ start \in Nat /\ start \in {target, HighestPicked(left) + 1, 1} /\ start >= target
      /\ WhoIsOnClock(status, target, left, total)
           = IF status # "live" \/ start > total THEN NoSlot ELSE start
  <2>1. target \in Nat
    OBVIOUS
  <2>. QED BY <1>2, <2>1, OnClockIs DEF start
<1>5. WhoIsOnClock("live", target, left, total) = target
  <2>1. start = target
    BY <1>3, <1>4
  <2>2. WhoIsOnClock(status, target, left, total) = target
    BY <1>4, <2>1 DEF status
  <2>. QED BY <2>2 DEF status
<1>. QED BY <1>1, <1>5 DEF left

LEMMA ClockAnswers ==
  ASSUME Posed
  PROVE  ClockHoldsOnAnyBoard
<1>1. ASSUME NEW total \in 1..MaxSlots, NEW status, NEW taken \in SUBSET (1..total),
             NEW currentPick \in 0..total + 1,
             question = [kind |-> "clock", total |-> total, status |-> status,
                         taken |-> taken, currentPick |-> currentPick]
      PROVE  ClockHoldsOnAnyBoard
  <2>1. total \in Nat /\ currentPick \in Nat
    BY <1>1, EngineAssumption
  <2>2. /\ question.total = total /\ question.status = status
        /\ question.taken = taken /\ question.currentPick = currentPick
    BY <1>1
  <2>3. ClockIsAboveTheBoard
    <3>. DEFINE open == {no \in 1..total : no >= currentPick /\ \A t \in taken : no > t}
                clock == WhoIsOnClock(status, currentPick, taken, total)
    <3>1. \A no \in 1..total : \A t \in taken : t < no <=> no > t
      OBVIOUS
    <3>2. CASE clock = NoSlot
      <4>1. status # "live" \/ open = {}
        BY <2>1, <3>1, <3>2, NobodyOnClock
      <4>. QED BY <2>2, <3>2, <4>1 DEF ClockIsAboveTheBoard
    <3>3. CASE clock # NoSlot
      <4>1. /\ status = "live" /\ clock \in open
            /\ \A no \in open : clock <= no
        BY <2>1, <3>1, <3>3, OnClockFact
      <4>. QED BY <2>2, <4>1 DEF ClockIsAboveTheBoard
    <3>. QED BY <3>2, <3>3
  <2>4. RepairIsIdempotent
    <3>1. ASSUME FindUnadvancedPick(currentPick, taken) # NoSlot PROVE currentPick \in taken
      BY <3>1 DEF FindUnadvancedPick
    <3>. QED BY <2>1, <2>2, <3>1, RepairIsHarmless DEF RepairIsIdempotent
  <2>5. UndoPutsTargetOnClock
    BY <2>1, <2>2, UndoLands DEF UndoPutsTargetOnClock, RollbackAllowed
  <2>. QED BY <2>3, <2>4, <2>5 DEF ClockHoldsOnAnyBoard
<1>2. CASE IsClock
  BY <1>1, <1>2 DEF IsClock
<1>3. CASE ~Asked("clock")
  BY <1>3 DEF ClockHoldsOnAnyBoard, ClockIsAboveTheBoard, RepairIsIdempotent, UndoPutsTargetOnClock
<1>. QED BY <1>2, <1>3, KindFact

(* On boards of any size, holes included: the clock is above every pick, a *)
(* repair ends in one step and an undo lands on its target (clock.ts,      *)
(* rollback.ts).                                                           *)
THEOREM ClockAlwaysHolds == RulesSpec => []ClockHoldsOnAnyBoard
BY ClockAnswers, PosedAlways, PTL

-----------------------------------------------------------------------------
(* Autodraft.                                                              *)

(* A sheet names players, maybe twice; a projection is an integer.         *)
Preferences(pool, sheet, rankPir) ==
  /\ pool \subseteq Nat /\ IsFiniteSet(pool)
  /\ \E n \in Nat : sheet \in [1..n -> pool]
  /\ \E known \in SUBSET pool : rankPir \in [known -> Int]

LEMMA SheetRankFact ==
  ASSUME NEW pool, NEW sheet, NEW rankPir, Preferences(pool, sheet, rankPir),
         NEW p, OnSheet(sheet, p)
  PROVE  /\ SheetRank(sheet, p) \in DOMAIN sheet /\ SheetRank(sheet, p) \in Nat
         /\ sheet[SheetRank(sheet, p)] = p
         /\ \A i \in DOMAIN sheet : sheet[i] = p => SheetRank(sheet, p) <= i
<1>. DEFINE at == {i \in DOMAIN sheet : sheet[i] = p}
<1>1. at \in SUBSET Nat /\ at # {}
  BY DEF Preferences, OnSheet
<1>. HIDE DEF at
<1>2. Min(at) \in at /\ \A i \in at : Min(at) <= i
  BY <1>1, NatMin
<1>. QED BY <1>1, <1>2 DEF at, SheetRank

(* Of two players one is projected above the other, and never both.        *)
LEMMA ProjectedOrder ==
  ASSUME NEW pool, NEW sheet, NEW rankPir, Preferences(pool, sheet, rankPir)
  PROVE  \A a, b, c \in pool :
           /\ ~ProjectedAbove(rankPir, a, a)
           /\ a = b \/ ProjectedAbove(rankPir, a, b) \/ ProjectedAbove(rankPir, b, a)
           /\ ProjectedAbove(rankPir, a, b) /\ ProjectedAbove(rankPir, b, c)
                => ProjectedAbove(rankPir, a, c)
<1>. SUFFICES ASSUME NEW a \in pool, NEW b \in pool, NEW c \in pool
              PROVE  /\ ~ProjectedAbove(rankPir, a, a)
                     /\ a = b \/ ProjectedAbove(rankPir, a, b) \/ ProjectedAbove(rankPir, b, a)
                     /\ ProjectedAbove(rankPir, a, b) /\ ProjectedAbove(rankPir, b, c)
                          => ProjectedAbove(rankPir, a, c)
  OBVIOUS
<1>1. a \in Nat /\ b \in Nat /\ c \in Nat
  BY DEF Preferences
<1>2. \A p \in DOMAIN rankPir : rankPir[p] \in Int
  BY DEF Preferences
<1>. QED BY <1>1, <1>2 DEF ProjectedAbove

LEMMA RankedOrder ==
  ASSUME NEW pool, NEW sheet, NEW rankPir, Preferences(pool, sheet, rankPir)
  PROVE  \A a, b, c \in pool :
           /\ ~RankedAbove(sheet, rankPir, a, a)
           /\ a = b \/ RankedAbove(sheet, rankPir, a, b) \/ RankedAbove(sheet, rankPir, b, a)
           /\ RankedAbove(sheet, rankPir, a, b) /\ RankedAbove(sheet, rankPir, b, c)
                => RankedAbove(sheet, rankPir, a, c)
<1>. SUFFICES ASSUME NEW a \in pool, NEW b \in pool, NEW c \in pool
              PROVE  /\ ~RankedAbove(sheet, rankPir, a, a)
                     /\ a = b \/ RankedAbove(sheet, rankPir, a, b)
                              \/ RankedAbove(sheet, rankPir, b, a)
                     /\ RankedAbove(sheet, rankPir, a, b) /\ RankedAbove(sheet, rankPir, b, c)
                          => RankedAbove(sheet, rankPir, a, c)
  OBVIOUS
<1>1. \A p : OnSheet(sheet, p) => SheetRank(sheet, p) \in Nat
                                  /\ sheet[SheetRank(sheet, p)] = p
  BY SheetRankFact
<1>2. /\ ~ProjectedAbove(rankPir, a, a)
      /\ a = b \/ ProjectedAbove(rankPir, a, b) \/ ProjectedAbove(rankPir, b, a)
      /\ ProjectedAbove(rankPir, a, b) /\ ProjectedAbove(rankPir, b, c)
           => ProjectedAbove(rankPir, a, c)
  BY ProjectedOrder
<1>. QED BY <1>1, <1>2 DEF RankedAbove

(* Any part of the pool, each with the players it is ranked below.         *)
LEMMA RankingIsLinear ==
  ASSUME NEW pool, NEW sheet, NEW rankPir, Preferences(pool, sheet, rankPir),
         NEW S \in SUBSET pool
  PROVE  /\ IsFiniteSet(S)
         /\ Linear(S, [x \in S |-> {y \in S : RankedAbove(sheet, rankPir, y, x)}])
<1>. DEFINE above == [x \in S |-> {y \in S : RankedAbove(sheet, rankPir, y, x)}]
<1>1. IsFiniteSet(S)
  BY FS_Subset DEF Preferences
<1>2. \A a, b, c \in S :
        /\ ~RankedAbove(sheet, rankPir, a, a)
        /\ a = b \/ RankedAbove(sheet, rankPir, a, b) \/ RankedAbove(sheet, rankPir, b, a)
        /\ RankedAbove(sheet, rankPir, a, b) /\ RankedAbove(sheet, rankPir, b, c)
             => RankedAbove(sheet, rankPir, a, c)
  BY RankedOrder
<1>3. above \in [S -> SUBSET S]
  OBVIOUS
<1>4. \A x, y \in S : y \in above[x] <=> RankedAbove(sheet, rankPir, y, x)
  OBVIOUS
<1>. HIDE DEF above
<1>5. \A x \in S : x \notin above[x]
  BY <1>2, <1>4
<1>6. \A x, y \in S : x = y \/ x \in above[y] \/ y \in above[x]
  BY <1>2, <1>4
<1>7. \A x, y \in S : x \in above[y] => above[x] \subseteq above[y]
  <2>. SUFFICES ASSUME NEW x \in S, NEW y \in S, x \in above[y], NEW z \in above[x]
                PROVE  z \in above[y]
    OBVIOUS
  <2>1. z \in S
    BY <1>3
  <2>. QED BY <1>2, <1>4, <2>1
<1>8. Linear(S, above)
  BY <1>3, <1>5, <1>6, <1>7 DEF Linear
<1>. QED BY <1>1, <1>8 DEF above

(* The choice is a legal player ranked above every other legal one.        *)
LEMMA ChoiceFact ==
  ASSUME NEW pool, NEW sheet, NEW rankPir, Preferences(pool, sheet, rankPir),
         NEW roster, NEW position, NEW template, NEW gone
  PROVE  LET legal == {p \in pool : IsLegalPick(p, roster, position, template, gone)}
             choice == SelectAutoPick(pool, sheet, rankPir, roster, position, template, gone)
         IN  IF legal = {} THEN choice = NoPlayer
             ELSE /\ choice \in legal
                  /\ \A other \in legal \ {choice} : RankedAbove(sheet, rankPir, choice, other)
<1>. DEFINE legal == {p \in pool : IsLegalPick(p, roster, position, template, gone)}
            above == [x \in legal |-> {y \in legal : RankedAbove(sheet, rankPir, y, x)}]
            best == {p \in legal : \A other \in legal \ {p} : RankedAbove(sheet, rankPir, p, other)}
            choice == SelectAutoPick(pool, sheet, rankPir, roster, position, template, gone)
<1>1. choice = IF best = {} THEN NoPlayer ELSE CHOOSE p \in best : TRUE
  BY DEF SelectAutoPick
<1>2. legal \in SUBSET pool
  OBVIOUS
<1>. HIDE DEF legal, choice
<1>3. CASE legal = {}
  <2>1. best = {}
    BY <1>3
  <2>. QED BY <1>1, <1>3, <2>1 DEF legal, choice
<1>4. CASE legal # {}
  <2>1. IsFiniteSet(legal) /\ Linear(legal, above)
    BY <1>2, RankingIsLinear
  <2>2. \A x, y \in legal : y \in above[x] <=> RankedAbove(sheet, rankPir, y, x)
    OBVIOUS
  <2>. HIDE DEF above
  <2>3. /\ Cardinality(legal) \in Nat
        /\ \A x \in legal : Cardinality(above[x]) \in 0..Cardinality(legal) - 1
        /\ \A k \in 0..Cardinality(legal) - 1 : \E x \in legal : Cardinality(above[x]) = k
    BY <2>1, RankFact
  <2>4. 0 \in 0..Cardinality(legal) - 1
    BY <1>4, <2>3
  <2>5. PICK x \in legal : Cardinality(above[x]) = 0
    BY <2>3, <2>4
  <2>6. IsFiniteSet(above[x])
    BY <2>1, FS_Subset DEF Linear
  <2>7. above[x] = {}
    BY <2>5, <2>6, FS_EmptySet
  <2>8. x \in best
    BY <2>1, <2>2, <2>7 DEF Linear
  <2>9. choice \in best
    BY <1>1, <2>8
  <2>. QED BY <1>4, <2>9 DEF legal, choice
<1>. QED BY <1>3, <1>4

(* The ranking lists the pool, each player above those after him.          *)
LEMMA RankingFact ==
  ASSUME NEW pool, NEW sheet, NEW rankPir, Preferences(pool, sheet, rankPir)
  PROVE  LET ranking == RankForMember(pool, sheet, rankPir)
             n == Cardinality(pool)
         IN  /\ n \in Nat /\ ranking \in [1..n -> pool]
             /\ \A i, j \in 1..n : i < j => RankedAbove(sheet, rankPir, ranking[i], ranking[j])
             /\ \A p \in pool : \E i \in 1..n : ranking[i] = p
<1>. DEFINE n == Cardinality(pool)
            above == [x \in pool |-> {y \in pool : RankedAbove(sheet, rankPir, y, x)}]
            ranking == RankForMember(pool, sheet, rankPir)
            sorted(r) == \A i, j \in 1..n : i < j => RankedAbove(sheet, rankPir, r[i], r[j])
            list == [i \in 1..n |-> CHOOSE x \in pool : Cardinality(above[x]) = i - 1]
<1>1. IsFiniteSet(pool) /\ Linear(pool, above)
  BY RankingIsLinear
<1>2. \A x, y \in pool : y \in above[x] <=> RankedAbove(sheet, rankPir, y, x)
  OBVIOUS
<1>3. ranking = CHOOSE r \in [1..n -> pool] : sorted(r)
  BY DEF RankForMember
<1>. HIDE DEF above
<1>4. /\ n \in Nat
      /\ \A x \in pool : Cardinality(above[x]) \in 0..(n - 1)
      /\ \A x, y \in pool : x \in above[y] => Cardinality(above[x]) < Cardinality(above[y])
      /\ \A k \in 0..(n - 1) : \E x \in pool : Cardinality(above[x]) = k
  BY <1>1, RankFact
<1>. HIDE DEF n, ranking
<1>5. \A i \in 1..n : list[i] \in pool /\ Cardinality(above[list[i]]) = i - 1
  <2>. TAKE i \in 1..n
  <2>1. i - 1 \in 0..(n - 1)
    BY <1>4
  <2>2. \E x \in pool : Cardinality(above[x]) = i - 1
    BY <1>4, <2>1
  <2>. QED BY <2>2
<1>6. list \in [1..n -> pool]
  BY <1>5
<1>. HIDE DEF list
<1>7. sorted(list)
  <2>. SUFFICES ASSUME NEW i \in 1..n, NEW j \in 1..n, i < j
                PROVE  RankedAbove(sheet, rankPir, list[i], list[j])
    OBVIOUS
  <2>1. list[i] \in above[list[j]]
    BY <1>1, <1>4, <1>5 DEF Linear
  <2>. QED BY <1>2, <1>5, <2>1
<1>8. ranking \in [1..n -> pool] /\ sorted(ranking)
  BY <1>3, <1>6, <1>7
<1>9. \A i, j \in 1..n : ranking[i] = ranking[j] => i = j
  <2>. SUFFICES ASSUME NEW i \in 1..n, NEW j \in 1..n, ranking[i] = ranking[j], i # j
                PROVE  FALSE
    OBVIOUS
  <2>1. i < j \/ j < i
    BY <1>4
  <2>. QED BY <1>8, <2>1, RankedOrder
<1>10. \A p \in pool : \E i \in 1..n : ranking[i] = p
  <2>1. ranking \in Injection(1..n, pool)
    BY <1>8, <1>9 DEF Injection, IsInjective
  <2>2. IsFiniteSet(1..n) /\ Cardinality(1..n) = n
    BY <1>4, FS_Interval
  <2>3. ranking \in Surjection(1..n, pool)
    BY <1>1, <2>1, <2>2, FS_Injection DEF n
  <2>. QED BY <2>3 DEF Surjection
<1>. QED BY <1>4, <1>8, <1>10 DEF n, ranking

LEMMA AskedPreferences ==
  ASSUME NEW sheet \in Sheets, NEW known \in SUBSET Pool, NEW rankPir \in [known -> Pirs]
  PROVE  Preferences(Pool, sheet, rankPir)
<1>1. Pool \subseteq Nat /\ IsFiniteSet(Pool)
  BY EngineAssumption
<1>2. \E n \in Nat : sheet \in [1..n -> Pool]
  <2>1. \E n \in 0..2 : sheet \in [1..n -> Pool]
    BY Zenon DEF Sheets
  <2>. QED BY <2>1
<1>3. rankPir \in [known -> Int]
  BY DEF Pirs
<1>. QED BY <1>1, <1>2, <1>3 DEF Preferences

(* The member's own order, then the projections, then the ids.             *)
Rule(sheet, rankPir, legal) ==
  LET listed == {i \in DOMAIN sheet : sheet[i] \in legal}
      known  == legal \cap DOMAIN rankPir
      best   == {p \in known : \A q \in known : rankPir[p] >= rankPir[q]}
  IN  IF listed # {} THEN sheet[Min(listed)]
      ELSE IF known # {} THEN Min(best) ELSE Min(legal)

IsTop(sheet, rankPir, legal, choice) ==
  /\ choice \in legal
  /\ \A other \in legal \ {choice} : RankedAbove(sheet, rankPir, choice, other)

LEMMA ChoiceByTheRule ==
  ASSUME NEW pool, NEW sheet, NEW rankPir, Preferences(pool, sheet, rankPir),
         NEW legal \in SUBSET pool, NEW choice, IsTop(sheet, rankPir, legal, choice)
  PROVE  choice = Rule(sheet, rankPir, legal)
<1>. USE DEF IsTop
<1>. DEFINE listed == {i \in DOMAIN sheet : sheet[i] \in legal}
            known  == legal \cap DOMAIN rankPir
            best   == {p \in known : \A q \in known : rankPir[p] >= rankPir[q]}
<1>1. legal \in SUBSET Nat /\ choice \in Nat
  BY DEF Preferences
<1>2. listed \in SUBSET Nat
  BY DEF Preferences
<1>3. \A p \in DOMAIN rankPir : rankPir[p] \in Int
  BY DEF Preferences
<1>4. CASE listed # {}
  <2>. DEFINE first == Min(listed)
  <2>1. first \in listed /\ \A i \in listed : first <= i
    BY <1>2, <1>4, NatMin
  <2>. HIDE DEF first
  <2>2. first \in DOMAIN sheet /\ sheet[first] \in legal /\ first \in Nat
    BY <1>2, <2>1
  <2>3. OnSheet(sheet, sheet[first])
    BY <2>2 DEF OnSheet
  <2>4. SUFFICES ASSUME sheet[first] # choice PROVE FALSE
    BY <1>4 DEF first, Rule
  <2>5. RankedAbove(sheet, rankPir, choice, sheet[first])
    BY <2>2, <2>4
  <2>6. OnSheet(sheet, choice) /\ SheetRank(sheet, choice) < SheetRank(sheet, sheet[first])
    BY <2>3, <2>5 DEF RankedAbove
  <2>7. /\ SheetRank(sheet, choice) \in DOMAIN sheet /\ SheetRank(sheet, choice) \in Nat
        /\ sheet[SheetRank(sheet, choice)] = choice
    BY <2>6, SheetRankFact
  <2>8. SheetRank(sheet, sheet[first]) \in Nat /\ SheetRank(sheet, sheet[first]) <= first
    BY <2>2, <2>3, SheetRankFact
  <2>9. first <= SheetRank(sheet, choice)
    BY <2>1, <2>7
  <2>. QED BY <2>2, <2>6, <2>7, <2>8, <2>9
<1>5. CASE listed = {}
  <2>1. \A p \in legal : ~OnSheet(sheet, p)
    BY <1>5 DEF OnSheet
  <2>2. \A other \in legal \ {choice} : ProjectedAbove(rankPir, choice, other)
    BY <2>1 DEF RankedAbove
  <2>3. CASE known # {}
    <3>1. choice \in known
      BY <2>2, <2>3 DEF ProjectedAbove
    <3>2. choice \in best
      <4>1. \A q \in known : rankPir[choice] >= rankPir[q]
        BY <1>3, <2>2, <3>1 DEF ProjectedAbove
      <4>. QED BY <3>1, <4>1
    <3>3. best \in SUBSET Nat /\ best # {}
      BY <1>1, <3>2
    <3>4. \A p \in best : choice <= p
      <4>. SUFFICES ASSUME NEW p \in best, p # choice PROVE choice < p
        BY <1>1
      <4>1. rankPir[p] >= rankPir[choice]
        BY <3>1
      <4>2. p \in known /\ p \in legal
        OBVIOUS
      <4>3. ProjectedAbove(rankPir, choice, p)
        BY <2>2, <4>2
      <4>. QED BY <1>3, <3>1, <4>1, <4>2, <4>3 DEF ProjectedAbove
    <3>. HIDE DEF best
    <3>. DEFINE least == Min(best)
    <3>5. least \in best /\ \A p \in best : least <= p
      BY <3>3, NatMin
    <3>. HIDE DEF least
    <3>6. least = choice
      BY <1>1, <3>2, <3>3, <3>4, <3>5
    <3>. QED BY <1>5, <2>3, <3>6 DEF best, least, Rule
  <2>4. CASE known = {}
    <3>1. \A p \in legal : choice <= p
      BY <1>1, <2>2, <2>4 DEF ProjectedAbove
    <3>. DEFINE least == Min(legal)
    <3>2. least \in legal /\ \A p \in legal : least <= p
      BY <1>1, NatMin
    <3>. HIDE DEF least
    <3>3. least = choice
      BY <1>1, <3>1, <3>2
    <3>. QED BY <1>5, <2>4, <3>3 DEF least, Rule
  <2>. QED BY <2>3, <2>4
<1>. QED BY <1>4, <1>5

LEMMA ChoiceAnswers ==
  ASSUME Posed
  PROVE  AutodraftKeepsToTheSheet
<1>1. ASSUME NEW sheet \in Sheets, NEW known \in SUBSET Pool, NEW rankPir \in [known -> Pirs],
             NEW template, NEW roster, NEW taken,
             question = [kind |-> "choice", sheet |-> sheet, rankPir |-> rankPir,
                         template |-> template, roster |-> roster, taken |-> taken]
      PROVE  AutodraftKeepsToTheSheet
  <2>. DEFINE allowed(p) == IsLegalPick(p, roster, PoolPosition, template, taken)
              legal == {p \in Pool : allowed(p)}
              choice == SelectAutoPick(Pool, sheet, rankPir, roster, PoolPosition, template, taken)
              n == Cardinality(Pool)
              ranking == RankForMember(Pool, sheet, rankPir)
  <2>1. /\ question.sheet = sheet /\ question.rankPir = rankPir
        /\ question.template = template /\ question.roster = roster /\ question.taken = taken
    BY <1>1
  <2>2. Preferences(Pool, sheet, rankPir)
    BY AskedPreferences
  <2>3. IF legal = {} THEN choice = NoPlayer
        ELSE /\ choice \in legal
             /\ \A other \in legal \ {choice} : RankedAbove(sheet, rankPir, choice, other)
    BY <2>2, ChoiceFact
  <2>4. /\ n \in Nat /\ ranking \in [1..n -> Pool]
        /\ \A i, j \in 1..n : i < j => RankedAbove(sheet, rankPir, ranking[i], ranking[j])
        /\ \A p \in Pool : \E i \in 1..n : ranking[i] = p
    BY <2>2, RankingFact
  <2>5. legal \in SUBSET Pool
    OBVIOUS
  <2>6. AutodraftObeysTheSheet
    <3>1. CASE legal = {}
      BY <2>1, <2>3, <3>1 DEF AutodraftObeysTheSheet
    <3>2. CASE legal # {}
      <4>. HIDE DEF legal, choice
      <4>1. IsTop(sheet, rankPir, legal, choice)
        BY <2>3, <3>2 DEF IsTop
      <4>2. choice = Rule(sheet, rankPir, legal)
        BY <2>2, <2>5, <4>1, ChoiceByTheRule
      <4>. QED BY <2>1, <3>2, <4>2 DEF AutodraftObeysTheSheet, Rule, legal, choice
    <3>. QED BY <3>1, <3>2
  <2>7. ChoiceHeadsTheRanking
    <3>1. ASSUME choice # NoPlayer
          PROVE  \E i \in DOMAIN ranking :
                   ranking[i] = choice /\ allowed(ranking[i])
                   /\ \A j \in 1..i - 1 : ~allowed(ranking[j])
      <4>1. choice \in legal
        BY <2>3, <3>1
      <4>2. PICK i \in 1..n : ranking[i] = choice
        BY <2>4, <4>1
      <4>3. ASSUME NEW j \in 1..i - 1, allowed(ranking[j])
            PROVE  FALSE
        <5>1. j \in 1..n /\ j < i
          BY <2>4
        <5>2. RankedAbove(sheet, rankPir, ranking[j], choice)
          BY <2>4, <4>2, <5>1
        <5>3. ranking[j] \in legal
          BY <2>4, <4>3, <5>1
        <5>. HIDE DEF choice, ranking, legal
        <5>4. ranking[j] # choice
          BY <2>2, <2>5, <4>1, <5>2, RankedOrder
        <5>5. RankedAbove(sheet, rankPir, choice, ranking[j])
          BY <2>3, <4>1, <5>3, <5>4
        <5>. QED BY <2>2, <2>5, <4>1, <5>2, <5>3, <5>5, RankedOrder
      <4>4. DOMAIN ranking = 1..n
        BY <2>4
      <4>. QED BY <4>1, <4>2, <4>3, <4>4
    <3>. QED BY <2>1, <3>1 DEF ChoiceHeadsTheRanking
  <2>. QED BY <2>6, <2>7 DEF AutodraftKeepsToTheSheet
<1>2. CASE IsChoice
  BY <1>1, <1>2 DEF IsChoice
<1>3. CASE ~Asked("choice")
  BY <1>3 DEF AutodraftKeepsToTheSheet, AutodraftObeysTheSheet, ChoiceHeadsTheRanking
<1>. QED BY <1>2, <1>3, KindFact

(* For every pool: autodraft takes the first legal player of the member's  *)
(* sheet, then the best projection, and the ranking the room shows agrees  *)
(* with it (autodraft.ts).  The lemmas it rests on are of any sheet,       *)
(* projections, positions and template.                                    *)
THEOREM AutodraftAlwaysObeys == RulesSpec => []AutodraftKeepsToTheSheet
BY ChoiceAnswers, PosedAlways, PTL

-----------------------------------------------------------------------------
(* The order.                                                              *)

(* Every number is in some round, at some slot of it.                      *)
LEMMA Rounds ==
  ASSUME NEW n \in Nat \ {0}, NEW no \in Nat \ {0}
  PROVE  \E round \in Nat \ {0}, slot \in 1..n : no = (round - 1) * n + slot
<1>. DEFINE past == {r \in Nat : no <= r * n}
            round == Min(past)
<1>1. past \in SUBSET Nat /\ past # {}
  <2>1. no \in past
    OBVIOUS
  <2>. QED BY <2>1
<1>. HIDE DEF past
<1>2. round \in past /\ \A r \in past : round <= r
  BY <1>1, NatMin
<1>. HIDE DEF round
<1>3. round \in Nat /\ no <= round * n
  BY <1>2 DEF past
<1>4. round # 0
  BY <1>3
<1>5. round - 1 \in Nat /\ round - 1 \notin past
  BY <1>2, <1>3, <1>4
<1>6. no > (round - 1) * n
  BY <1>3, <1>5 DEF past
<1>7. (round - 1) * n \in Nat /\ (round - 1) * n = round * n - n
  BY <1>3, <1>5
<1>. DEFINE slot == no - (round - 1) * n
<1>8. slot \in 1..n
  BY <1>3, <1>6, <1>7
<1>. QED BY <1>3, <1>4, <1>7, <1>8

LEMMA RoundAndSlot ==
  ASSUME NEW n \in Nat \ {0}, NEW round \in Nat \ {0}, NEW slot \in 1..n
  PROVE  LET no == (round - 1) * n + slot
         IN  /\ no \in Nat \ {0} /\ RoundOf(no, n) = round /\ SlotOf(no, n) = slot
             /\ no \in (round - 1) * n + 1..round * n
<1>. DEFINE q == round - 1
            s == slot - 1
<1>1. q \in Nat /\ s \in 0..n - 1 /\ (round - 1) * n + slot - 1 = q * n + s
  OBVIOUS
<1>. HIDE DEF q, s
<1>2. (q * n + s) \div n = q
  BY <1>1
<1>3. (q * n + s) % n = s
  BY <1>1
<1>4. q * n \in Nat /\ (round - 1) * n = q * n /\ round * n = q * n + n
  BY <1>1 DEF q
<1>5. slot = s + 1 /\ round = q + 1
  BY DEF q, s
<1>. QED BY <1>1, <1>2, <1>3, <1>4, <1>5 DEF RoundOf, SlotOf

LEMMA InTheDraft ==
  ASSUME NEW n \in Nat \ {0}, NEW rounds \in Nat, NEW round \in 1..rounds, NEW slot \in 1..n
  PROVE  (round - 1) * n + slot \in 1..n * rounds
<1>. DEFINE rest == rounds - round
<1>1. rest \in Nat /\ rounds = round + rest
  OBVIOUS
<1>. HIDE DEF rest
<1>2. rest * n \in Nat
  BY <1>1
<1>3. n * rounds = (round - 1) * n + n + rest * n /\ (round - 1) * n \in Nat
  BY <1>1
<1>. QED BY <1>2, <1>3

OrderOf(format, n, rounds) == BuildPickOrder(format, [i \in 1..n |-> i], rounds)

(* A round is the frozen order, or its mirror image.                       *)
LEMMA OrderFact ==
  ASSUME NEW format \in Formats, NEW n \in Nat \ {0}, NEW rounds \in Nat
  PROVE  \A round \in 1..rounds, slot \in 1..n :
           /\ (round - 1) * n + slot \in 1..n * rounds
           /\ OrderOf(format, n, rounds)[(round - 1) * n + slot]
                = IF IsReversed(format, round) THEN n + 1 - slot ELSE slot
<1>. TAKE round \in 1..rounds, slot \in 1..n
<1>. DEFINE no == (round - 1) * n + slot
            members == [i \in 1..n |-> i]
<1>1. members \in Seq(Nat) /\ Len(members) = n /\ \A i \in 1..n : members[i] = i
  OBVIOUS
<1>2. no \in 1..n * rounds
  BY InTheDraft
<1>3. round \in Nat \ {0}
  OBVIOUS
<1>4. RoundOf(no, n) = round /\ SlotOf(no, n) = slot
  BY <1>3, RoundAndSlot
<1>. HIDE DEF no, members
<1>5. OrderOf(format, n, rounds)
        = [k \in 1..Len(members) * rounds |->
             IF IsReversed(format, RoundOf(k, Len(members)))
             THEN members[Len(members) + 1 - SlotOf(k, Len(members))]
             ELSE members[SlotOf(k, Len(members))]]
  BY Zenon DEF OrderOf, BuildPickOrder, TotalPicks, members
<1>6. n + 1 - slot \in 1..n
  OBVIOUS
<1>7. OrderOf(format, n, rounds)[no]
        = IF IsReversed(format, round) THEN members[n + 1 - slot] ELSE members[slot]
  BY <1>1, <1>2, <1>4, <1>5
<1>. QED BY <1>1, <1>2, <1>6, <1>7 DEF no

LEMMA TurnFact ==
  ASSUME NEW format \in Formats, NEW r \in Nat \ {0}
  PROVE  /\ ~IsReversed(format, 1)
         /\ IF format = "linear" \/ (format = "snake3rr" /\ r = 2)
            THEN IsReversed(format, r + 1) = IsReversed(format, r)
            ELSE IsReversed(format, r + 1) = ~IsReversed(format, r)
<1>1. /\ r % 2 \in {0, 1} /\ (r + 1) % 2 \in {0, 1} /\ r % 2 # (r + 1) % 2
      /\ 1 % 2 = 1 /\ 2 % 2 = 0 /\ 3 % 2 = 1
  OBVIOUS
<1>2. CASE format = "linear"
  BY <1>2 DEF IsReversed
<1>3. CASE format = "snake"
  BY <1>1, <1>3 DEF IsReversed
<1>4. CASE format = "snake3rr"
  <2>1. CASE r = 1
    BY <1>1, <1>4, <2>1 DEF IsReversed
  <2>2. CASE r = 2
    BY <1>1, <1>4, <2>2 DEF IsReversed
  <2>3. CASE r >= 3
    BY <1>1, <1>4, <2>3 DEF IsReversed
  <2>. QED BY <2>1, <2>2, <2>3
<1>. QED BY <1>2, <1>3, <1>4 DEF Formats

LEMMA OrderAnswers ==
  ASSUME Posed
  PROVE  OrderReachesTheBoard
<1>1. ASSUME NEW format \in Formats, NEW n \in 1..MaxMembers, NEW rounds \in 1..MaxRounds,
             question = [kind |-> "order", format |-> format,
                         members |-> [i \in 1..n |-> i], rounds |-> rounds]
      PROVE  OrderReachesTheBoard
  <2>. DEFINE members == [i \in 1..n |-> i]
              order == OrderOf(format, n, rounds)
              shape == BuildBoardShape(format, members, rounds)
              row(r) == Row(format, members, rounds, r)
              plain == [slot \in 1..n |-> slot]
              mirror == [slot \in 1..n |-> n + 1 - slot]
  <2>1. n \in Nat \ {0} /\ rounds \in Nat
    BY EngineAssumption
  <2>2. /\ question.format = format /\ question.members = members
        /\ question.rounds = rounds
    BY <1>1
  <2>3. /\ members \in Seq(Nat) /\ Len(members) = n
        /\ \A i \in 1..n : members[i] = i
    BY <2>1
  <2>4. ASSUME NEW r \in 1..rounds, NEW slot \in 1..n
        PROVE  /\ (r - 1) * n + slot \in 1..n * rounds
               /\ order[(r - 1) * n + slot]
                    = IF IsReversed(format, r) THEN n + 1 - slot ELSE slot
    BY <2>1, OrderFact
  <2>. HIDE DEF order
  <2>5. ASSUME NEW r \in 1..rounds
        PROVE  row(r) = IF IsReversed(format, r) THEN mirror ELSE plain
    <3>1. row(r) = [slot \in 1..n |-> order[(r - 1) * n + slot]]
      BY <2>3, Zenon DEF Row, order, OrderOf
    <3>. QED BY <2>4, <3>1
  <2>6. plain = members /\ Reverse(plain) = mirror /\ Reverse(mirror) = plain
    <3>1. /\ plain \in Seq(Nat) /\ Len(plain) = n
          /\ mirror \in Seq(Nat) /\ Len(mirror) = n
      BY <2>1
    <3>. QED BY <2>1, <3>1 DEF Reverse
  <2>7. OrderTurns
    <3>1. 1 \in 1..rounds /\ \A r \in 1..rounds - 1 : r \in 1..rounds /\ r + 1 \in 1..rounds
      BY <2>1
    <3>. HIDE DEF row, plain, mirror, members
    <3>2. row(1) = members
      <4>1. ~IsReversed(format, 1)
        BY TurnFact
      <4>. QED BY <2>5, <2>6, <3>1, <4>1
    <3>3. ASSUME NEW r \in 1..rounds - 1
          PROVE  IF format = "linear" \/ (format = "snake3rr" /\ r = 2)
                 THEN row(r + 1) = row(r) ELSE row(r + 1) = Reverse(row(r))
      <4>1. /\ row(r) = IF IsReversed(format, r) THEN mirror ELSE plain
            /\ row(r + 1) = IF IsReversed(format, r + 1) THEN mirror ELSE plain
        BY <2>5, <3>1
      <4>2. r \in Nat \ {0}
        OBVIOUS
      <4>3. IF format = "linear" \/ (format = "snake3rr" /\ r = 2)
            THEN IsReversed(format, r + 1) = IsReversed(format, r)
            ELSE IsReversed(format, r + 1) = ~IsReversed(format, r)
        BY <4>2, TurnFact
      <4>. QED BY <2>6, <4>1, <4>3
    <3>. QED BY <2>2, <3>2, <3>3 DEF OrderTurns, row
  <2>8. BoardShowsTheOrder
    <3>1. ASSUME NEW no \in 1..n * rounds
          PROVE  \E round \in 1..rounds, column \in 1..n :
                   /\ shape[round][column] = no
                   /\ order[no] = members[column]
                   /\ no \in (round - 1) * n + 1..round * n
      <4>1. no \in Nat \ {0} /\ no <= n * rounds
        BY <2>1
      <4>2. PICK round \in Nat \ {0}, slot \in 1..n : no = (round - 1) * n + slot
        BY <2>1, <4>1, Rounds
      <4>3. round \in 1..rounds
        <5>1. SUFFICES ASSUME round > rounds PROVE FALSE
          BY <2>1
        <5>. DEFINE more == round - 1 - rounds
        <5>2. more \in Nat /\ round - 1 = rounds + more
          BY <2>1, <5>1
        <5>. HIDE DEF more
        <5>3. more * n \in Nat /\ (round - 1) * n = n * rounds + more * n
          BY <2>1, <5>2
        <5>. QED BY <2>1, <4>1, <4>2, <5>3
      <4>4. no \in (round - 1) * n + 1..round * n
        BY <2>1, <4>2, RoundAndSlot
      <4>. DEFINE column == order[no]
                  span == (round - 1) * n + 1..round * n
      <4>5. column = IF IsReversed(format, round) THEN n + 1 - slot ELSE slot
        BY <2>4, <4>2, <4>3
      <4>6. column \in 1..n
        BY <2>1, <4>5
      <4>7. ASSUME NEW other \in span, order[other] = column
            PROVE  other = no
        <5>. DEFINE at == other - (round - 1) * n
        <5>1. (round - 1) * n \in Nat /\ round * n = (round - 1) * n + n
          BY <2>1, <4>3
        <5>2. at \in 1..n /\ other = (round - 1) * n + at
          BY <2>1, <5>1
        <5>. HIDE DEF at
        <5>3. column = IF IsReversed(format, round) THEN n + 1 - at ELSE at
          BY <2>4, <4>3, <4>7, <5>2
        <5>4. at = slot
          BY <2>1, <4>5, <5>2, <5>3
        <5>. QED BY <4>2, <5>2, <5>4
      <4>. HIDE DEF column
      <4>8. shape[round][column] = CHOOSE k \in span : order[k] = members[column]
        BY <2>3, <4>3, <4>6, Zenon DEF BuildBoardShape, order, OrderOf
      <4>9. members[column] = column /\ order[no] = column
        BY <2>3, <4>6 DEF column
      <4>10. shape[round][column] = no
        BY <4>4, <4>7, <4>8, <4>9
      <4>. DEFINE shown(r, c) == /\ shape[r][c] = no
                                 /\ order[no] = members[c]
                                 /\ no \in (r - 1) * n + 1..r * n
      <4>11. shown(round, column)
        BY <4>4, <4>9, <4>10
      <4>12. \E r \in 1..rounds, c \in 1..n : shown(r, c)
        <5>. HIDE DEF shown
        <5>. QED BY <4>3, <4>6, <4>11
      <4>. QED BY <4>12, Zenon
    <3>. HIDE DEF shape, members
    <3>. QED BY <2>2, <2>3, <3>1, Zenon DEF BoardShowsTheOrder, shape, order, OrderOf, members
  <2>. QED BY <2>7, <2>8 DEF OrderReachesTheBoard
<1>2. CASE IsOrder
  BY <1>1, <1>2 DEF IsOrder
<1>3. CASE ~Asked("order")
  BY <1>3 DEF OrderReachesTheBoard, OrderTurns, BoardShowsTheOrder
<1>. QED BY <1>2, <1>3, KindFact

(* For every format, league size and number of rounds: the order turns     *)
(* round by round as the format says, and the board shows each pick once,  *)
(* under the member it belongs to (order.ts, board.ts).                    *)
THEOREM OrderAlwaysReaches == RulesSpec => []OrderReachesTheBoard
BY OrderAnswers, PosedAlways, PTL

-----------------------------------------------------------------------------
(* The roll.                                                               *)

Draws(n)  == {d \in [1..n -> 1..n] : d[1] = 1 /\ \A i \in 1..n : d[i] <= i}
Orders(n) == {f \in [1..n -> 1..n] : \A i, j \in 1..n : f[i] = f[j] => i = j}
Roll(n, d) == RollOrder([i \in 1..n |-> i], d)

(* What the shuffle holds after each of its swaps, down to the last.       *)
Walk(n, d, after) ==
  after = [i \in 1..n |-> IF i = n THEN [k \in 1..n |-> k]
                          ELSE Swap(after[i + 1], i + 1, d[i + 1])]

(* Downward induction.                                                     *)
LEMMA Downward ==
  ASSUME NEW n \in Nat, NEW S, n \in S, \A i \in 1..n - 1 : i + 1 \in S => i \in S
  PROVE  \A i \in 1..n : i \in S
<1>. DEFINE bad == {k \in Nat : k < n /\ n - k \notin S}
<1>1. bad = {}
  <2>1. SUFFICES ASSUME bad # {} PROVE FALSE
    OBVIOUS
  <2>2. PICK k \in bad : \A other \in bad : k <= other
    <3>1. bad \in SUBSET Nat
      OBVIOUS
    <3>. HIDE DEF bad
    <3>2. Min(bad) \in bad /\ \A other \in bad : Min(bad) <= other
      BY <2>1, <3>1, NatMin
    <3>. QED BY <3>2
  <2>3. k # 0
    OBVIOUS
  <2>4. k - 1 \notin bad /\ k - 1 \in Nat /\ k - 1 < n
    BY <2>2, <2>3
  <2>5. n - (k - 1) \in S /\ n - (k - 1) = (n - k) + 1 /\ n - k \in 1..n - 1
    BY <2>3, <2>4
  <2>. QED BY <2>5
<1>2. ASSUME NEW i \in 1..n PROVE i \in S
  <2>1. n - i \in Nat /\ n - i < n /\ n - (n - i) = i
    OBVIOUS
  <2>2. n - i \notin bad
    BY <1>1
  <2>. QED BY <2>1, <2>2
<1>. QED BY <1>2

LEMMA WalkExists ==
  ASSUME NEW n \in Nat \ {0}, NEW d
  PROVE  \E after : Walk(n, d, after)
<1>. DEFINE next(g, j) == IF j = n THEN [k \in 1..n |-> k] ELSE Swap(g[j + 1], j + 1, d[j + 1])
            part(i, g) == g = [j \in i..n |-> next(g, j)]
            S == {i \in 1..n : \E g : part(i, g)}
<1>1. n \in S
  <2>. DEFINE g == [j \in n..n |-> [k \in 1..n |-> k]]
  <2>1. g = [j \in n..n |-> next(g, j)]
    <3>1. \A j \in n..n : j = n
      OBVIOUS
    <3>. QED BY <3>1
  <2>2. \E f : part(n, f)
    <3>1. part(n, g)
      BY <2>1
    <3>. HIDE DEF g, part
    <3>. QED BY <3>1
  <2>. QED BY <2>2
<1>2. ASSUME NEW i \in 1..n - 1, i + 1 \in S
      PROVE  i \in S
  <2>1. PICK g : part(i + 1, g)
    BY <1>2
  <2>. DEFINE h == [j \in i..n |-> IF j = i THEN next(g, i) ELSE g[j]]
  <2>2. \A j \in i + 1..n : g[j] = next(g, j)
    BY <2>1
  <2>3. \A j \in i..n : j + 1 \in i + 1..n \/ j = n
    OBVIOUS
  <2>4. \A j \in i..n : j # n => h[j + 1] = g[j + 1]
    BY <2>3
  <2>. HIDE DEF part
  <2>5. \A j \in i..n : h[j] = next(h, j)
    <3>. SUFFICES ASSUME NEW j \in i..n PROVE h[j] = next(h, j)
      OBVIOUS
    <3>1. next(h, j) = next(g, j)
      <4>. HIDE DEF h
      <4>. QED BY <2>4
    <3>2. CASE j = i
      BY <3>1, <3>2
    <3>3. CASE j # i
      <4>1. j \in i + 1..n
        BY <3>3
      <4>. HIDE DEF next
      <4>. QED BY <2>2, <3>1, <3>3, <4>1
    <3>. QED BY <3>2, <3>3
  <2>6. h = [j \in i..n |-> next(h, j)]
    <3>. HIDE DEF next
    <3>. QED BY <2>5
  <2>7. part(i, h)
    BY <2>6 DEF part
  <2>8. \E f : part(i, f)
    <3>. HIDE DEF h
    <3>. QED BY <2>7
  <2>. QED BY <2>8
<1>3. 1 \in 1..n
  OBVIOUS
<1>. HIDE DEF S
<1>4. 1 \in S
  BY <1>1, <1>2, <1>3, Downward
<1>5. PICK g : part(1, g)
  BY <1>4 DEF S
<1>. QED BY <1>5 DEF Walk

LEMMA RollWalks ==
  ASSUME NEW n \in Nat \ {0}, NEW d
  PROVE  \E after : Walk(n, d, after) /\ Roll(n, d) = after[1]
<1>. DEFINE sorted == [i \in 1..n |-> i]
            after[i \in 1..n] == IF i = n THEN sorted ELSE Swap(after[i + 1], i + 1, d[i + 1])
            swaps(f) == [i \in 1..n |-> IF i = n THEN sorted ELSE Swap(f[i + 1], i + 1, d[i + 1])]
<1>1. Len(sorted) = n
  OBVIOUS
<1>2. Roll(n, d) = after[1]
  BY <1>1, ZenonT(60) DEF Roll, RollOrder
<1>3. \E f : f = swaps(f)
  BY WalkExists DEF Walk
<1>4. after = swaps(after)
  <2>. HIDE DEF swaps
  <2>1. after = CHOOSE f : f = swaps(f)
    BY Zenon DEF swaps
  <2>. QED BY <1>3, <2>1
<1>5. Walk(n, d, after)
  BY <1>4 DEF Walk
<1>. HIDE DEF after
<1>. QED BY <1>2, <1>5

LEMMA SwapOrder ==
  ASSUME NEW n \in Nat, NEW f \in Orders(n), NEW i \in 1..n, NEW j \in 1..n
  PROVE  Swap(f, i, j) \in Orders(n)
<1>1. f \in [1..n -> 1..n] /\ \A a, b \in 1..n : f[a] = f[b] => a = b
  BY DEF Orders
<1>2. Swap(f, i, j) \in [1..n -> 1..n]
  BY <1>1 DEF Swap
<1>3. /\ Swap(f, i, j)[i] = f[j] /\ Swap(f, i, j)[j] = f[i]
      /\ \A k \in 1..n : k # i /\ k # j => Swap(f, i, j)[k] = f[k]
  BY <1>1 DEF Swap
<1>4. \A a, b \in 1..n : Swap(f, i, j)[a] = Swap(f, i, j)[b] => a = b
  BY <1>1, <1>3
<1>. QED BY <1>2, <1>4 DEF Orders

LEMMA SwapValues ==
  ASSUME NEW n \in Nat, NEW f \in Orders(n), NEW i \in 1..n, NEW j \in 1..n, NEW k \in 1..n
  PROVE  Swap(f, i, j)[k] = IF k = j THEN f[i] ELSE IF k = i THEN f[j] ELSE f[k]
<1>1. f \in [1..n -> 1..n]
  BY DEF Orders
<1>. QED BY <1>1 DEF Swap

(* The walk goes through orders, a swap at a time.                         *)
Stepped(d, after, i) == after[i] = Swap(after[i + 1], i + 1, d[i + 1])

LEMMA WalkFact ==
  ASSUME NEW n \in Nat \ {0}, NEW d \in Draws(n), NEW after, Walk(n, d, after)
  PROVE  /\ \A i \in 1..n : after[i] \in Orders(n)
         /\ after[n] = [k \in 1..n |-> k]
         /\ \A i \in 1..n - 1 : Stepped(d, after, i)
<1>1. d \in [1..n -> 1..n]
  BY DEF Draws
<1>2. n \in 1..n /\ \A i \in 1..n - 1 : i \in 1..n /\ i + 1 \in 1..n /\ i # n
  OBVIOUS
<1>3. /\ after[n] = [k \in 1..n |-> k]
      /\ \A i \in 1..n - 1 : Stepped(d, after, i)
  BY <1>2 DEF Walk, Stepped
<1>. DEFINE S == {i \in 1..n : after[i] \in Orders(n)}
<1>4. [k \in 1..n |-> k] \in Orders(n)
  BY DEF Orders
<1>5. n \in S
  BY <1>2, <1>3, <1>4
<1>6. ASSUME NEW i \in 1..n - 1, i + 1 \in S PROVE i \in S
  <2>1. i + 1 \in 1..n /\ d[i + 1] \in 1..n /\ after[i + 1] \in Orders(n)
    BY <1>1, <1>2, <1>6
  <2>2. Swap(after[i + 1], i + 1, d[i + 1]) \in Orders(n)
    BY <2>1, SwapOrder
  <2>. QED BY <1>2, <1>3, <2>2 DEF Stepped
<1>. HIDE DEF S
<1>7. \A i \in 1..n : i \in S
  BY <1>5, <1>6, Downward
<1>. QED BY <1>3, <1>7 DEF S

(* Once its own swap has been made, a place is no longer touched.          *)
Settled(d, after, i, j) == after[i][j] = after[j][d[j]]

LEMMA WalkSettles ==
  ASSUME NEW n \in Nat \ {0}, NEW d \in Draws(n), NEW after, Walk(n, d, after),
         NEW j \in 1..n
  PROVE  \A i \in 1..n : i < j => Settled(d, after, i, j)
<1>1. /\ d \in [1..n -> 1..n] /\ \A i \in 1..n : d[i] <= i
  BY DEF Draws
<1>2. n \in 1..n /\ \A i \in 1..n - 1 : i \in 1..n /\ i + 1 \in 1..n
  OBVIOUS
<1>. DEFINE S == {i \in 1..n : i < j => Settled(d, after, i, j)}
<1>3. n \in S
  BY <1>2
<1>4. ASSUME NEW i \in 1..n - 1, i + 1 \in S PROVE i \in S
  <2>. SUFFICES ASSUME i < j PROVE Settled(d, after, i, j)
    BY <1>2
  <2>. DEFINE above == after[i + 1]
              k == i + 1
              at == d[i + 1]
  <2>1. above \in Orders(n) /\ after[i] = Swap(above, k, at)
    <3>1. after[i + 1] \in Orders(n) /\ Stepped(d, after, i)
      BY <1>2, WalkFact
    <3>. QED BY <3>1 DEF Stepped
  <2>2. k \in 1..n /\ at \in 1..n /\ at <= k /\ k = i + 1
    BY <1>1, <1>2
  <2>3. above = after[k] /\ at = d[k]
    OBVIOUS
  <2>4. k < j => above[j] = after[j][d[j]]
    BY <1>4, <2>2 DEF Settled
  <2>. HIDE DEF above, k, at
  <2>5. after[i][j] = IF j = at THEN above[k] ELSE IF j = k THEN above[at] ELSE above[j]
    <3>1. Swap(above, k, at)[j] = IF j = at THEN above[k] ELSE IF j = k THEN above[at] ELSE above[j]
      BY <2>1, <2>2, SwapValues
    <3>. QED BY <2>1, <3>1
  <2>6. CASE j = k
    BY <2>3, <2>5, <2>6 DEF Settled
  <2>7. CASE j # k
    <3>1. k < j /\ j # at
      BY <2>2, <2>7
    <3>. QED BY <2>4, <2>5, <2>7, <3>1 DEF Settled
  <2>. QED BY <2>6, <2>7
<1>. HIDE DEF S
<1>5. \A i \in 1..n : i \in S
  BY <1>3, <1>4, Downward
<1>. QED BY <1>5 DEF S

(* A walk is decided by the draws it has used.                             *)
LEMMA WalkIsLocal ==
  ASSUME NEW n \in Nat \ {0}, NEW d \in Draws(n), NEW e \in Draws(n),
         NEW after, NEW other, Walk(n, d, after), Walk(n, e, other),
         NEW m \in 1..n, \A j \in 1..n : j > m => d[j] = e[j]
  PROVE  \A i \in 1..n : i >= m => after[i] = other[i]
<1>. DEFINE S == {i \in 1..n : i >= m => after[i] = other[i]}
<1>1. /\ after[n] = other[n]
      /\ \A i \in 1..n - 1 : Stepped(d, after, i) /\ Stepped(e, other, i)
  BY WalkFact
<1>2. n \in S
  BY <1>1
<1>3. ASSUME NEW i \in 1..n - 1, i + 1 \in S PROVE i \in S
  <2>1. i \in 1..n /\ i + 1 \in 1..n
    OBVIOUS
  <2>2. ASSUME i >= m PROVE after[i] = other[i]
    <3>1. after[i + 1] = other[i + 1] /\ d[i + 1] = e[i + 1]
      BY <1>3, <2>1, <2>2
    <3>2. Stepped(d, after, i) /\ Stepped(e, other, i)
      BY <1>1
    <3>. QED BY <3>1, <3>2 DEF Stepped
  <2>. QED BY <2>1, <2>2
<1>. HIDE DEF S
<1>4. \A i \in 1..n : i \in S
  BY <1>2, <1>3, Downward
<1>. QED BY <1>4 DEF S

(* Two draws that give one order are the same draw.                        *)
LEMMA RollOnce ==
  ASSUME NEW n \in Nat \ {0}, NEW d \in Draws(n), NEW e \in Draws(n),
         Roll(n, d) = Roll(n, e)
  PROVE  d = e
<1>1. PICK after : Walk(n, d, after) /\ Roll(n, d) = after[1]
  BY RollWalks
<1>2. PICK other : Walk(n, e, other) /\ Roll(n, e) = other[1]
  BY RollWalks
<1>3. /\ d \in [1..n -> 1..n] /\ e \in [1..n -> 1..n] /\ d[1] = 1 /\ e[1] = 1
  BY DEF Draws
<1>. DEFINE S == {i \in 1..n : after[i] = other[i] /\ \A j \in 1..n : j > i => d[j] = e[j]}
<1>4. n \in S
  <2>1. after[n] = other[n]
    BY <1>1, <1>2, WalkFact
  <2>. QED BY <2>1
<1>5. ASSUME NEW i \in 1..n - 1, i + 1 \in S PROVE i \in S
  <2>1. i \in 1..n /\ i + 1 \in 1..n /\ 1 \in 1..n /\ 1 < i + 1
    OBVIOUS
  <2>2. after[i + 1] = other[i + 1] /\ \A j \in 1..n : j > i + 1 => d[j] = e[j]
    BY <1>5
  <2>3. after[1][i + 1] = after[i + 1][d[i + 1]]
    <3>1. Settled(d, after, 1, i + 1)
      BY <1>1, <2>1, WalkSettles
    <3>. QED BY <3>1 DEF Settled
  <2>4. other[1][i + 1] = other[i + 1][e[i + 1]]
    <3>1. Settled(e, other, 1, i + 1)
      BY <1>2, <2>1, WalkSettles
    <3>. QED BY <3>1 DEF Settled
  <2>5. after[i + 1] \in Orders(n)
    BY <1>1, <2>1, WalkFact
  <2>6. d[i + 1] = e[i + 1]
    <3>. DEFINE f == after[i + 1]
    <3>1. f[d[i + 1]] = f[e[i + 1]]
      BY <1>1, <1>2, <2>2, <2>3, <2>4
    <3>2. d[i + 1] \in 1..n /\ e[i + 1] \in 1..n
      BY <1>3, <2>1
    <3>3. f \in Orders(n)
      BY <2>5
    <3>. HIDE DEF f
    <3>. QED BY <3>1, <3>2, <3>3 DEF Orders
  <2>7. Stepped(d, after, i)
    BY <1>1, WalkFact
  <2>8. Stepped(e, other, i)
    BY <1>2, WalkFact
  <2>10. after[i] = other[i]
    BY <2>2, <2>6, <2>7, <2>8 DEF Stepped
  <2>9. \A j \in 1..n : j > i => j = i + 1 \/ j > i + 1
    OBVIOUS
  <2>. QED BY <2>1, <2>2, <2>6, <2>9, <2>10
<1>. HIDE DEF S
<1>6. 1 \in S
  BY <1>4, <1>5, Downward
<1>7. \A j \in 1..n : d[j] = e[j]
  BY <1>3, <1>6 DEF S
<1>. QED BY <1>3, <1>7

(* Every order comes out of some draw.                                     *)
LEMMA RollReaches ==
  ASSUME NEW n \in Nat \ {0}, NEW order \in Orders(n)
  PROVE  \E d \in Draws(n) : Roll(n, d) = order
<1>. DEFINE reached(m, d, after) == /\ Walk(n, d, after)
                                    /\ \A j \in 1..n : j > m => after[m][j] = order[j]
            S == {m \in 1..n : \E d \in Draws(n) : \E after : reached(m, d, after)}
<1>1. order \in [1..n -> 1..n] /\ \A a, b \in 1..n : order[a] = order[b] => a = b
  BY DEF Orders
<1>2. n \in S
  <2>. DEFINE d == [i \in 1..n |-> 1]
  <2>1. d \in Draws(n)
    BY DEF Draws
  <2>. HIDE DEF d
  <2>2. PICK after : Walk(n, d, after)
    BY WalkExists
  <2>3. reached(n, d, after)
    BY <2>2
  <2>4. n \in 1..n
    OBVIOUS
  <2>. HIDE DEF reached
  <2>. QED BY <2>1, <2>3, <2>4
<1>3. \A f \in Orders(n), v \in 1..n : \E p \in 1..n : f[p] = v
  <2>. SUFFICES ASSUME NEW f \in Orders(n), NEW v \in 1..n PROVE \E p \in 1..n : f[p] = v
    OBVIOUS
  <2>1. f \in Injection(1..n, 1..n)
    BY DEF Orders, Injection, IsInjective
  <2>2. IsFiniteSet(1..n)
    BY FS_Interval
  <2>3. f \in Surjection(1..n, 1..n)
    BY <2>1, <2>2, FS_Injection
  <2>. QED BY <2>3 DEF Surjection
<1>4. ASSUME NEW i \in 1..n - 1, i + 1 \in S PROVE i \in S
  <2>. DEFINE m == i + 1
  <2>0. i \in 1..n /\ m \in 1..n /\ 1 < m /\ m = i + 1
    OBVIOUS
  <2>1. PICK d \in Draws(n) : \E after : reached(m, d, after)
    BY <1>4
  <2>2. PICK after : reached(m, d, after)
    BY <2>1
  <2>. HIDE DEF m, S
  <2>3. after[m] \in Orders(n)
    BY <2>0, <2>2, WalkFact
  <2>4. PICK p \in 1..n : after[m][p] = order[m]
    BY <1>1, <1>3, <2>0, <2>3
  <2>5. p <= m
    <3>1. SUFFICES ASSUME p > m PROVE FALSE
      BY <2>0
    <3>2. order[p] = order[m]
      BY <2>2, <2>4, <3>1
    <3>. QED BY <1>1, <2>0, <3>1, <3>2
  <2>. DEFINE e == [d EXCEPT ![m] = p]
  <2>6. /\ e \in Draws(n) /\ e[m] = p
        /\ \A j \in 1..n : j > m => d[j] = e[j]
    <3>1. /\ d \in [1..n -> 1..n] /\ d[1] = 1 /\ \A k \in 1..n : d[k] <= k
      BY DEF Draws
    <3>2. e \in [1..n -> 1..n] /\ e[m] = p /\ \A k \in 1..n : k # m => e[k] = d[k]
      BY <2>0, <3>1
    <3>. HIDE DEF e
    <3>3. e[1] = 1
      BY <2>0, <3>1, <3>2
    <3>4. \A k \in 1..n : e[k] <= k
      BY <2>5, <3>1, <3>2
    <3>5. ASSUME NEW j \in 1..n, j > m PROVE d[j] = e[j]
      <4>1. j # m
        BY <2>0, <3>5
      <4>. QED BY <3>2, <4>1
    <3>. QED BY <3>2, <3>3, <3>4, <3>5 DEF Draws
  <2>. HIDE DEF e
  <2>7. PICK other : Walk(n, e, other)
    BY WalkExists
  <2>8. other[m] = after[m]
    <3>1. \A k \in 1..n : k >= m => after[k] = other[k]
      BY <2>0, <2>2, <2>6, <2>7, WalkIsLocal
    <3>. QED BY <2>0, <3>1
  <2>9. other[i] = Swap(after[m], m, p)
    <3>1. Stepped(e, other, i)
      BY <2>6, <2>7, WalkFact
    <3>. QED BY <2>0, <2>6, <2>8, <3>1 DEF Stepped
  <2>10. ASSUME NEW j \in 1..n, j > i PROVE other[i][j] = order[j]
    <3>. DEFINE g == after[m]
    <3>. HIDE DEF g
    <3>1. other[i][j] = IF j = p THEN g[m] ELSE IF j = m THEN g[p] ELSE g[j]
      BY <2>0, <2>3, <2>9, SwapValues DEF g
    <3>2. CASE j = m
      BY <2>4, <3>1, <3>2 DEF g
    <3>3. CASE j # m
      <4>1. j > m /\ j # p
        BY <2>0, <2>5, <2>10, <3>3
      <4>2. g[j] = order[j]
        BY <2>2, <4>1 DEF g
      <4>. QED BY <3>1, <3>3, <4>1, <4>2
    <3>. QED BY <3>2, <3>3
  <2>11. reached(i, e, other)
    BY <2>7, <2>10
  <2>. HIDE DEF reached
  <2>. QED BY <2>0, <2>6, <2>11 DEF S
<1>5. 1 \in S
  <2>. HIDE DEF S
  <2>. QED BY <1>2, <1>4, Downward
<1>6. PICK d \in Draws(n) : \E after : reached(1, d, after)
  BY <1>5
<1>7. PICK after : reached(1, d, after)
  BY <1>6
<1>8. PICK walk : Walk(n, d, walk) /\ Roll(n, d) = walk[1]
  BY RollWalks
<1>9. walk[1] = after[1]
  BY <1>7, <1>8, WalkIsLocal
<1>10. after[1] \in Orders(n)
  <2>1. 1 \in 1..n
    OBVIOUS
  <2>. QED BY <1>7, <2>1, WalkFact
<1>11. after[1] \in [1..n -> 1..n]
  BY <1>10 DEF Orders
<1>12. after[1][1] = order[1]
  <2>1. PICK p \in 1..n : after[1][p] = order[1]
    <3>1. order[1] \in 1..n
      BY <1>1
    <3>. QED BY <1>3, <1>10, <3>1
  <2>2. p > 1 => order[p] = order[1]
    BY <1>7, <2>1
  <2>3. p = 1
    BY <1>1, <2>2
  <2>. QED BY <2>1, <2>3
<1>13. \A j \in 1..n : after[1][j] = order[j]
  BY <1>7, <1>12
<1>14. after[1] = order
  <2>. DEFINE f == after[1]
  <2>1. f \in [1..n -> 1..n] /\ \A j \in 1..n : f[j] = order[j]
    BY <1>11, <1>13
  <2>. HIDE DEF f
  <2>2. f = order
    BY <1>1, <2>1
  <2>. QED BY <2>2 DEF f
<1>. QED BY <1>8, <1>9, <1>14

LEMMA RollAnswers ==
  ASSUME Posed
  PROVE  RollIsFair
<1>1. ASSUME NEW n \in 1..MaxMembers, question = [kind |-> "roll", n |-> n]
      PROVE  RollIsFair
  <2>1. n \in Nat \ {0} /\ question.n = n
    BY <1>1, EngineAssumption
  <2>. DEFINE fair(k) == \A order \in Orders(k) :
                           Cardinality({d \in Draws(k) : Roll(k, d) = order}) = 1
  <2>2. ASSUME NEW order \in Orders(n)
        PROVE  Cardinality({d \in Draws(n) : Roll(n, d) = order}) = 1
    <3>1. PICK d \in Draws(n) : Roll(n, d) = order
      BY <2>1, RollReaches
    <3>2. \A e \in Draws(n) : Roll(n, e) = order => e = d
      BY <2>1, <3>1, RollOnce
    <3>3. {e \in Draws(n) : Roll(n, e) = order} = {d}
      BY <3>1, <3>2
    <3>. QED BY <3>3, FS_Singleton
  <2>3. fair(question.n)
    BY <2>1, <2>2
  <2>. QED BY <2>3, Zenon DEF RollIsFair, Draws, Orders, Roll
<1>2. CASE IsRoll
  BY <1>1, <1>2 DEF IsRoll
<1>3. CASE ~Asked("roll")
  BY <1>3 DEF RollIsFair
<1>. QED BY <1>2, <1>3, KindFact

(* For every number of members: the shuffle gives each order of them for   *)
(* exactly one sequence of draws (roll.ts).                                *)
THEOREM RollAlwaysFair == RulesSpec => []RollIsFair
BY RollAnswers, PosedAlways, PTL

-----------------------------------------------------------------------------
(* Transactions.                                                           *)

LEMMA HeldFact ==
  ASSUME NEW seats, Windows(seats), NEW m
  PROVE  /\ HeldBy(seats, m) \subseteq Seated(seats) /\ IsFiniteSet(HeldBy(seats, m))
         /\ \A other : other # m => HeldBy(seats, m) \cap HeldBy(seats, other) = {}
<1>1. HeldBy(seats, m) \subseteq Seated(seats)
  BY DEF HeldBy, Seated
<1>2. IsFiniteSet(HeldBy(seats, m))
  BY <1>1, FS_Subset DEF Windows
<1>3. ASSUME NEW other, other # m, NEW p \in HeldBy(seats, m) \cap HeldBy(seats, other)
      PROVE  FALSE
  <2>1. PICK s \in seats : s.member = m /\ s.player = p
    BY <1>3 DEF HeldBy
  <2>2. PICK t \in seats : t.member = other /\ t.player = p
    BY <1>3 DEF HeldBy
  <2>. QED BY <1>3, <2>1, <2>2 DEF Windows
<1>. QED BY <1>1, <1>2, <1>3

(* A plan that ends the windows of those who go, and seats nobody else who *)
(* has one.                                                                *)
Replaces(seats, plan, out, round) ==
  /\ plan.closes = Closed(seats, out, round)
  /\ \A o \in plan.opens : o.player \in out \/ o.player \notin Seated(seats)

SeatedFor(plan, m) == {o.player : o \in {p \in plan.opens : p.member = m}}

(* Carried out with nobody in between, a plan takes from the rosters those *)
(* it closes and seats those it opens where it says.                       *)
LEMMA CarriedOut ==
  ASSUME NEW seats, Windows(seats), NEW out \in SUBSET Seated(seats), NEW round,
         NEW plan, Replaces(seats, plan, out, round), NEW m
  PROVE  HeldBy(ApplyPlan(seats, plan), m)
           = (HeldBy(seats, m) \ out) \cup SeatedFor(plan, m)
<1>. USE DEF Replaces
<1>. DEFINE kept == {s \in seats : \A c \in plan.closes : c.seat # s.id}
            opened == {[id |-> <<o.member, o.player>>, member |-> o.member, player |-> o.player] :
                         o \in {p \in plan.opens : p.player \notin Seated(kept)}}
<1>1. \A s \in seats : s \in kept <=> s.player \notin out
  <2>. SUFFICES ASSUME NEW s \in seats PROVE s \in kept <=> s.player \notin out
    OBVIOUS
  <2>1. ASSUME NEW c \in plan.closes PROVE \E p \in out : c.seat = SeatOf(seats, p).id
    <3>1. PICK p \in out : c = [seat |-> SeatOf(seats, p).id, toRound |-> round]
      BY <2>1, Zenon DEF Closed
    <3>. QED BY <3>1
  <2>2. ASSUME NEW p \in out PROVE \E c \in plan.closes : c.seat = SeatOf(seats, p).id
    <3>. DEFINE c == [seat |-> SeatOf(seats, p).id, toRound |-> round]
    <3>1. c \in plan.closes
      BY Zenon DEF Closed
    <3>2. c.seat = SeatOf(seats, p).id
      OBVIOUS
    <3>. HIDE DEF c
    <3>. QED BY <3>1, <3>2
  <2>3. \A p \in out : SeatOf(seats, p) \in seats /\ SeatOf(seats, p).player = p
    BY SeatFact
  <2>4. CASE s.player \in out
    <3>1. SeatOf(seats, s.player) = s
      BY <2>3, <2>4 DEF Windows
    <3>. QED BY <2>2, <2>4, <3>1
  <2>5. CASE s.player \notin out
    <3>1. \A p \in out : SeatOf(seats, p).id # s.id
      BY <2>3, <2>5 DEF Windows
    <3>. QED BY <2>1, <2>5, <3>1
  <2>. QED BY <2>4, <2>5
<1>2. kept \subseteq seats
  OBVIOUS
<1>3. ApplyPlan(seats, plan) = kept \cup opened
  BY DEF ApplyPlan
<1>. HIDE DEF kept
<1>4. \A o \in plan.opens : o.player \notin Seated(kept)
  BY <1>1, <1>2 DEF Seated
<1>5. ASSUME NEW o \in plan.opens
      PROVE  \E s \in opened : s.member = o.member /\ s.player = o.player
  <2>. DEFINE s == [id |-> <<o.member, o.player>>, member |-> o.member, player |-> o.player]
  <2>1. s \in opened
    BY <1>4, Zenon
  <2>2. s.member = o.member /\ s.player = o.player
    OBVIOUS
  <2>. HIDE DEF s, opened
  <2>. QED BY <2>1, <2>2
<1>6. \A s \in opened : \E o \in plan.opens : s.member = o.member /\ s.player = o.player
  OBVIOUS
<1>. HIDE DEF opened
<1>7. ASSUME NEW p \in HeldBy(kept \cup opened, m)
      PROVE  p \in (HeldBy(seats, m) \ out) \cup SeatedFor(plan, m)
  BY <1>1, <1>2, <1>6, <1>7 DEF HeldBy, SeatedFor
<1>8. ASSUME NEW p \in HeldBy(seats, m) \ out
      PROVE  p \in HeldBy(kept \cup opened, m)
  BY <1>1, <1>8 DEF HeldBy
<1>9. ASSUME NEW p \in SeatedFor(plan, m)
      PROVE  p \in HeldBy(kept \cup opened, m)
  BY <1>5, <1>9 DEF HeldBy, SeatedFor
<1>. QED BY <1>3, <1>7, <1>8, <1>9

(* A team whose roster fits.                                               *)
Fits(roster, position, template) ==
  \A bucket \in Positions : CountByPosition(roster, position, bucket) <= template[bucket]

LEMMA FewerFit ==
  ASSUME NEW roster, IsFiniteSet(roster), NEW part \in SUBSET roster, NEW position, NEW template,
         \A bucket \in Positions : template[bucket] \in Nat,
         Fits(roster, position, template)
  PROVE  Fits(part, position, template)
<1>. SUFFICES ASSUME NEW bucket \in Positions
              PROVE  CountByPosition(part, position, bucket) <= template[bucket]
  BY DEF Fits
<1>. DEFINE at(r) == {player \in r : position[player] = bucket}
<1>1. IsFiniteSet(at(roster)) /\ at(part) \subseteq at(roster)
  BY FS_Subset
<1>2. /\ Cardinality(at(part)) <= Cardinality(at(roster))
      /\ IsFiniteSet(at(part))
  BY <1>1, FS_Subset
<1>3. Cardinality(at(part)) \in Nat /\ Cardinality(at(roster)) \in Nat
  BY <1>1, <1>2, FS_CardinalityType
<1>4. Cardinality(at(roster)) <= template[bucket]
  BY DEF Fits, CountByPosition
<1>5. template[bucket] \in Nat
  OBVIOUS
<1>. HIDE DEF at
<1>6. Cardinality(at(part)) <= template[bucket]
  BY <1>2, <1>3, <1>4, <1>5
<1>. QED BY <1>6 DEF CountByPosition, at

(* As many go as come.                                                     *)
LEMMA SameSize ==
  ASSUME NEW roster, IsFiniteSet(roster), NEW out \in SUBSET roster, NEW in,
         IsFiniteSet(in), in \cap roster = {}, Cardinality(in) = Cardinality(out)
  PROVE  Cardinality((roster \ out) \cup in) = Cardinality(roster)
<1>1. IsFiniteSet(out) /\ IsFiniteSet(roster \ out)
  BY FS_Subset
<1>2. Cardinality(roster \ out) = Cardinality(roster) - Cardinality(out)
  <2>1. roster \cap out = out
    OBVIOUS
  <2>. QED BY <2>1, FS_Difference
<1>3. Cardinality((roster \ out) \cup in)
        = Cardinality(roster \ out) + Cardinality(in) - Cardinality((roster \ out) \cap in)
  BY <1>1, FS_Union
<1>4. (roster \ out) \cap in = {}
  OBVIOUS
<1>5. Cardinality((roster \ out) \cap in) = 0
  BY <1>4, FS_EmptySet
<1>6. /\ Cardinality(roster) \in Nat /\ Cardinality(out) \in Nat /\ Cardinality(in) \in Nat
  BY <1>1, FS_CardinalityType
<1>. QED BY <1>2, <1>3, <1>5, <1>6

LEMMA OpenedFact ==
  ASSUME NEW member, NEW players, NEW round, NEW via
  PROVE  /\ \A o \in Opened(member, players, round, via) :
              o.member = member /\ o.player \in players
         /\ \A p \in players : \E o \in Opened(member, players, round, via) :
              o.member = member /\ o.player = p
<1>1. ASSUME NEW p \in players
      PROVE  \E o \in Opened(member, players, round, via) : o.member = member /\ o.player = p
  <2>. DEFINE o == [member |-> member, player |-> p, fromRound |-> round, via |-> via]
  <2>1. o \in Opened(member, players, round, via)
    BY Zenon DEF Opened
  <2>2. o.member = member /\ o.player = p
    OBVIOUS
  <2>. HIDE DEF o
  <2>. QED BY <2>1, <2>2
<1>2. ASSUME NEW o \in Opened(member, players, round, via)
      PROVE  o.member = member /\ o.player \in players
  <2>1. PICK p \in players : o = [member |-> member, player |-> p, fromRound |-> round, via |-> via]
    BY <1>2, Zenon DEF Opened
  <2>. QED BY <2>1
<1>. QED BY <1>1, <1>2

LEMMA TradeKeepsLegal ==
  ASSUME NEW seats, Windows(seats), NEW position, NEW template, NEW proposal, NEW m,
         PlanTrade(seats, position, template, proposal).ok,
         Fits(HeldBy(seats, m), position, template)
  PROVE  LET after == ApplyPlan(seats, PlanTrade(seats, position, template, proposal).plan)
         IN  /\ Fits(HeldBy(after, m), position, template)
             /\ Cardinality(HeldBy(after, m)) = Cardinality(HeldBy(seats, m))
<1>. DEFINE planned == PlanTrade(seats, position, template, proposal)
            plan == planned.plan
            after == ApplyPlan(seats, plan)
            a == proposal.memberA
            b == proposal.memberB
            outA == ToSet(proposal.outA)
            outB == ToSet(proposal.outB)
            round == proposal.fromRound
            nextA == (HeldBy(seats, a) \ outA) \cup outB
            nextB == (HeldBy(seats, b) \ outB) \cup outA
            allowed ==
              /\ Nobody \notin {a, b} /\ a # b
              /\ Len(proposal.outA) = Len(proposal.outB) /\ proposal.outA # <<>>
              /\ NamedOnce(proposal.outA) /\ NamedOnce(proposal.outB)
              /\ outA \cap outB = {}
              /\ outA \subseteq HeldBy(seats, a) /\ outB \subseteq HeldBy(seats, b)
              /\ FitsTemplate(nextA, position, template, TRUE)
              /\ FitsTemplate(nextB, position, template, TRUE)
            row == [type |-> "trade", fromRound |-> round, members |-> <<a, b>>,
                    playersOut |-> TwoTeams(a, proposal.outA, b, proposal.outB),
                    playersIn  |-> TwoTeams(a, proposal.outB, b, proposal.outA),
                    closes |-> Closed(seats, outA \cup outB, round),
                    opens  |-> Opened(b, outA, round, "trade") \cup Opened(a, outB, round, "trade")]
<1>1. planned = IF ~allowed THEN NoPlan ELSE Planned(row)
  BY Zenon DEF PlanTrade
<1>2. planned.ok
  OBVIOUS
<1>. HIDE DEF planned, row, allowed
<1>3. allowed /\ plan = row
  BY <1>1, <1>2 DEF NoPlan, Planned
<1>4. /\ plan.closes = Closed(seats, outA \cup outB, round)
      /\ plan.opens = Opened(b, outA, round, "trade") \cup Opened(a, outB, round, "trade")
  BY <1>3 DEF row
<1>5. /\ a # b /\ outA \cap outB = {}
      /\ outA \subseteq HeldBy(seats, a) /\ outB \subseteq HeldBy(seats, b)
      /\ FitsTemplate(nextA, position, template, TRUE)
      /\ FitsTemplate(nextB, position, template, TRUE)
  BY <1>3 DEF allowed
<1>6. Cardinality(outA) = Cardinality(outB)
  BY <1>3 DEF allowed, NamedOnce
<1>. HIDE DEF plan, a, b, outA, outB, round, nextA, nextB
<1>7. outA \cup outB \in SUBSET Seated(seats)
  BY <1>5, HeldFact
<1>8. \A o \in plan.opens : /\ o.player \in outA \cup outB
                            /\ \/ o.member = b /\ o.player \in outA
                               \/ o.member = a /\ o.player \in outB
  <2>1. \A o \in Opened(b, outA, round, "trade") : o.member = b /\ o.player \in outA
    BY OpenedFact
  <2>2. \A o \in Opened(a, outB, round, "trade") : o.member = a /\ o.player \in outB
    BY OpenedFact
  <2>. QED BY <1>4, <2>1, <2>2
<1>9. /\ \A p \in outA : \E o \in plan.opens : o.member = b /\ o.player = p
      /\ \A p \in outB : \E o \in plan.opens : o.member = a /\ o.player = p
  BY <1>4, OpenedFact
<1>10. HeldBy(after, m)
         = (HeldBy(seats, m) \ (outA \cup outB)) \cup SeatedFor(plan, m)
  <2>. DEFINE out == outA \cup outB
  <2>1. Replaces(seats, plan, out, round)
    BY <1>4, <1>8 DEF Replaces
  <2>2. out \in SUBSET Seated(seats)
    BY <1>7
  <2>. HIDE DEF out
  <2>3. HeldBy(ApplyPlan(seats, plan), m)
          = (HeldBy(seats, m) \ out) \cup SeatedFor(plan, m)
    BY <2>1, <2>2, CarriedOut
  <2>. QED BY <2>3 DEF out
<1>11. /\ IsFiniteSet(HeldBy(seats, a)) /\ IsFiniteSet(HeldBy(seats, b))
       /\ HeldBy(seats, a) \cap HeldBy(seats, b) = {}
       /\ m # a => HeldBy(seats, m) \cap HeldBy(seats, a) = {}
       /\ m # b => HeldBy(seats, m) \cap HeldBy(seats, b) = {}
  BY <1>5, HeldFact
<1>12. IsFiniteSet(outA) /\ IsFiniteSet(outB)
  BY <1>5, <1>11, FS_Subset
<1>. HIDE DEF after
<1>13. CASE m = a
  <2>1. SeatedFor(plan, m) = outB
    BY <1>5, <1>8, <1>9, <1>13 DEF SeatedFor
  <2>2. HeldBy(after, m) = nextA
    BY <1>5, <1>10, <1>11, <1>13, <2>1 DEF nextA
  <2>3. Cardinality(nextA) = Cardinality(HeldBy(seats, a))
    BY <1>5, <1>6, <1>11, <1>12, SameSize DEF nextA
  <2>. QED BY <1>5, <1>13, <2>2, <2>3 DEF FitsTemplate, Fits, after, plan, planned
<1>14. CASE m = b
  <2>1. SeatedFor(plan, m) = outA
    BY <1>5, <1>8, <1>9, <1>14 DEF SeatedFor
  <2>2. HeldBy(after, m) = nextB
    BY <1>5, <1>10, <1>11, <1>14, <2>1 DEF nextB
  <2>3. Cardinality(nextB) = Cardinality(HeldBy(seats, b))
    BY <1>5, <1>6, <1>11, <1>12, SameSize DEF nextB
  <2>. QED BY <1>5, <1>14, <2>2, <2>3 DEF FitsTemplate, Fits, after, plan, planned
<1>15. CASE m # a /\ m # b
  <2>1. SeatedFor(plan, m) = {}
    BY <1>8, <1>15 DEF SeatedFor
  <2>2. HeldBy(after, m) = HeldBy(seats, m)
    BY <1>5, <1>10, <1>11, <1>15, <2>1
  <2>. QED BY <2>2 DEF after, plan, planned
<1>. QED BY <1>13, <1>14, <1>15

LEMMA DropKeepsLegal ==
  ASSUME NEW seats, Windows(seats), NEW position, NEW template, NEW proposal, NEW m,
         \A bucket \in Positions : template[bucket] \in Nat,
         PlanDrop(seats, proposal).ok,
         Fits(HeldBy(seats, m), position, template)
  PROVE  Fits(HeldBy(ApplyPlan(seats, PlanDrop(seats, proposal).plan), m), position, template)
<1>. DEFINE planned == PlanDrop(seats, proposal)
            plan == planned.plan
            out == ToSet(proposal.players)
            round == proposal.fromRound
            allowed == /\ proposal.players # <<>> /\ NamedOnce(proposal.players)
                       /\ out \subseteq HeldBy(seats, proposal.member)
            row == [type |-> "drop", fromRound |-> round, members |-> <<proposal.member>>,
                    playersOut |-> OneTeam(proposal.member, proposal.players),
                    playersIn |-> NoPlayers,
                    closes |-> Closed(seats, out, round), opens |-> {}]
<1>1. planned = IF ~allowed THEN NoPlan ELSE Planned(row)
  BY Zenon DEF PlanDrop
<1>2. planned.ok
  OBVIOUS
<1>. HIDE DEF planned, row, allowed
<1>3. allowed /\ plan = row
  BY <1>1, <1>2 DEF NoPlan, Planned
<1>4. plan.closes = Closed(seats, out, round) /\ plan.opens = {}
  BY <1>3 DEF row
<1>5. out \in SUBSET Seated(seats)
  BY <1>3, HeldFact DEF allowed
<1>. HIDE DEF plan, out, round
<1>6. HeldBy(ApplyPlan(seats, plan), m)
        = (HeldBy(seats, m) \ out) \cup SeatedFor(plan, m)
  <2>1. Replaces(seats, plan, out, round)
    BY <1>4 DEF Replaces
  <2>. QED BY <1>5, <2>1, CarriedOut
<1>7. HeldBy(ApplyPlan(seats, plan), m) \in SUBSET HeldBy(seats, m)
  BY <1>4, <1>6 DEF SeatedFor
<1>8. IsFiniteSet(HeldBy(seats, m))
  BY HeldFact
<1>9. Fits(HeldBy(ApplyPlan(seats, plan), m), position, template)
  BY <1>7, <1>8, FewerFit
<1>. QED BY <1>9 DEF plan, planned

LEMMA AddKeepsLegal ==
  ASSUME NEW seats, Windows(seats), NEW position, NEW template, NEW proposal, NEW m,
         PlanAdd(seats, position, template, proposal).ok,
         Fits(HeldBy(seats, m), position, template)
  PROVE  Fits(HeldBy(ApplyPlan(seats, PlanAdd(seats, position, template, proposal).plan), m),
              position, template)
<1>. DEFINE planned == PlanAdd(seats, position, template, proposal)
            plan == planned.plan
            member == proposal.member
            in == ToSet(proposal.players)
            round == proposal.fromRound
            next == HeldBy(seats, member) \cup in
            allowed == /\ proposal.players # <<>> /\ NamedOnce(proposal.players)
                       /\ in \cap Seated(seats) = {}
                       /\ FitsTemplate(next, position, template, FALSE)
                       /\ Cardinality(next) <= RosterSize(template)
            row == [type |-> "add", fromRound |-> round, members |-> <<member>>,
                    playersOut |-> NoPlayers, playersIn |-> OneTeam(member, proposal.players),
                    closes |-> {}, opens |-> Opened(member, in, round, "signing")]
<1>1. planned = IF ~allowed THEN NoPlan ELSE Planned(row)
  BY Zenon DEF PlanAdd
<1>2. planned.ok
  OBVIOUS
<1>. HIDE DEF planned, row, allowed
<1>3. allowed /\ plan = row
  BY <1>1, <1>2 DEF NoPlan, Planned
<1>4. plan.closes = {} /\ plan.opens = Opened(member, in, round, "signing")
  BY <1>3 DEF row
<1>5. in \cap Seated(seats) = {} /\ FitsTemplate(next, position, template, FALSE)
  BY <1>3 DEF allowed
<1>. HIDE DEF plan, member, in, round, next
<1>6. plan.closes = Closed(seats, {}, round)
  BY <1>4 DEF Closed
<1>7. /\ \A o \in plan.opens : o.member = member /\ o.player \in in
      /\ \A p \in in : \E o \in plan.opens : o.member = member /\ o.player = p
  BY <1>4, OpenedFact
<1>8. HeldBy(ApplyPlan(seats, plan), m)
        = (HeldBy(seats, m) \ {}) \cup SeatedFor(plan, m)
  <2>1. {} \in SUBSET Seated(seats)
    OBVIOUS
  <2>2. Replaces(seats, plan, {}, round)
    BY <1>5, <1>6, <1>7 DEF Replaces
  <2>. QED BY <2>1, <2>2, CarriedOut
<1>9. CASE m = member
  <2>1. SeatedFor(plan, m) = in
    BY <1>7, <1>9 DEF SeatedFor
  <2>2. HeldBy(ApplyPlan(seats, plan), m) = next
    BY <1>8, <1>9, <2>1 DEF next
  <2>. QED BY <1>5, <2>2 DEF FitsTemplate, Fits, plan, planned
<1>10. CASE m # member
  <2>1. SeatedFor(plan, m) = {}
    BY <1>7, <1>10 DEF SeatedFor
  <2>2. HeldBy(ApplyPlan(seats, plan), m) = HeldBy(seats, m)
    BY <1>8, <2>1
  <2>. QED BY <2>2 DEF plan, planned
<1>. QED BY <1>9, <1>10

LEMMA SeatsAreWindows ==
  ASSUME NEW before \in [1..4 -> 0..3]
  PROVE  /\ Windows(SeatsOf(before)) /\ Recorded(SeatsOf(before))
         /\ \A s \in SeatsOf(before) : s.member \in Members
         /\ \A m \in Teams : HeldBy(SeatsOf(before), m) = TargetOf(before, Teams)[m]
<1>. DEFINE seat(p) == [id |-> <<0, p>>, member |-> before[p], player |-> p]
            held == {p \in 1..4 : before[p] # Nobody}
<1>1. SeatsOf(before) = {seat(p) : p \in held}
  BY Zenon DEF SeatsOf
<1>2. \A p \in held : seat(p).player = p /\ seat(p).member = before[p] /\ seat(p).id = <<0, p>>
  OBVIOUS
<1>. HIDE DEF seat
<1>3. \A s \in SeatsOf(before) :
        /\ s.player \in held /\ s = seat(s.player)
        /\ s.member = before[s.player] /\ s.id = <<0, s.player>>
  BY <1>1, <1>2
<1>4. \A p \in held : seat(p) \in SeatsOf(before)
  BY <1>1
<1>5. Windows(SeatsOf(before))
  <2>1. Seated(SeatsOf(before)) \subseteq 1..4
    BY <1>3 DEF Seated
  <2>2. IsFiniteSet(1..4)
    <3>1. 1 \in Int /\ 4 \in Int
      OBVIOUS
    <3>. QED BY <3>1, FS_Interval, Zenon
  <2>3. IsFiniteSet(Seated(SeatsOf(before)))
    BY <2>1, <2>2, FS_Subset
  <2>4. \A s, t \in SeatsOf(before) : s.player = t.player \/ s.id = t.id => s = t
    BY <1>3
  <2>. QED BY <2>3, <2>4 DEF Windows
<1>6. ASSUME NEW m \in Teams
      PROVE  HeldBy(SeatsOf(before), m) = TargetOf(before, Teams)[m]
  <2>1. m # Nobody
    BY DEF Teams, Nobody
  <2>2. TargetOf(before, Teams)[m] = {p \in 1..4 : before[p] = m}
    BY DEF TargetOf
  <2>3. \A p \in HeldBy(SeatsOf(before), m) : p \in 1..4 /\ before[p] = m
    BY <1>3 DEF HeldBy
  <2>4. ASSUME NEW p \in 1..4, before[p] = m PROVE p \in HeldBy(SeatsOf(before), m)
    <3>1. seat(p) \in SeatsOf(before) /\ seat(p).member = m /\ seat(p).player = p
      BY <1>2, <1>4, <2>1, <2>4
    <3>. QED BY <3>1 DEF HeldBy
  <2>. QED BY <2>2, <2>3, <2>4
<1>7. Recorded(SeatsOf(before))
  <2>. SUFFICES ASSUME NEW s \in SeatsOf(before)
                PROVE  s.member # Nobody /\ \A m, p : s.id = <<m, p>> => m = Nobody
    BY DEF Recorded
  <2>1. s.member # Nobody
    BY <1>3
  <2>. QED BY <1>3, <2>1 DEF Nobody
<1>8. \A s \in SeatsOf(before) : s.member \in Members
  <2>1. \A p \in held : before[p] \in Members
    BY DEF Members, Nobody
  <2>. QED BY <1>3, <2>1
<1>. QED BY <1>5, <1>6, <1>7, <1>8

StaysLegal(before, template, proposal) ==
  LET planned == PlanTransaction(SeatsOf(before), PoolPosition4, template, proposal)
      after == ApplyPlan(SeatsOf(before), planned.plan)
  IN  planned.ok =>
        \A m \in Teams :
          /\ \A bucket \in Positions :
               Cardinality({p \in HeldBy(after, m) : PoolPosition4[p] = bucket})
                 <= template[bucket]
          /\ proposal.type = "trade" =>
               Cardinality(HeldBy(after, m)) = Cardinality(HeldBy(SeatsOf(before), m))

StartsLegal(before, template) ==
  \A m \in Teams : FitsTemplate(TargetOf(before, Teams)[m], PoolPosition4, template, FALSE)

LEMMA TransactionAnswers ==
  ASSUME Posed
  PROVE  TransactionsKeepRostersLegal
<1>1. ASSUME NEW before \in [1..4 -> 0..2], NEW template \in TransactionTemplates, NEW proposal,
             proposal.type \in {"trade", "drop", "add"},
             StartsLegal(before, template),
             question = [kind |-> "transaction", before |-> before, template |-> template,
                         proposal |-> proposal]
      PROVE  TransactionsKeepRostersLegal
  <2>. DEFINE seats == SeatsOf(before)
              planned == PlanTransaction(seats, PoolPosition4, template, proposal)
              after == ApplyPlan(seats, planned.plan)
  <2>1. /\ question.before = before /\ question.template = template
        /\ question.proposal = proposal
    BY <1>1
  <2>2. \A bucket \in Positions : template[bucket] \in Nat
    BY DEF Positions, TransactionTemplates, SmallTemplate
  <2>3. Windows(seats) /\ \A m \in Teams : Fits(HeldBy(seats, m), PoolPosition4, template)
    <3>1. before \in [1..4 -> 0..3]
      OBVIOUS
    <3>. QED BY <1>1, <3>1, SeatsAreWindows DEF FitsTemplate, Fits, StartsLegal
  <2>4. ASSUME planned.ok, NEW m \in Teams
        PROVE  /\ Fits(HeldBy(after, m), PoolPosition4, template)
               /\ proposal.type = "trade" =>
                    Cardinality(HeldBy(after, m)) = Cardinality(HeldBy(seats, m))
    <3>. HIDE DEF seats
    <3>1. CASE proposal.type = "trade"
      <4>1. planned = PlanTrade(seats, PoolPosition4, template, proposal)
        BY <2>4, <3>1 DEF PlanTransaction, NoPlan
      <4>. QED BY <2>3, <2>4, <4>1, TradeKeepsLegal
    <3>2. CASE proposal.type = "drop"
      <4>1. planned = PlanDrop(seats, proposal)
        BY <2>4, <3>2 DEF PlanTransaction, NoPlan
      <4>. QED BY <2>2, <2>3, <2>4, <3>2, <4>1, DropKeepsLegal
    <3>3. CASE proposal.type = "add"
      <4>1. planned = PlanAdd(seats, PoolPosition4, template, proposal)
        BY <2>4, <3>3 DEF PlanTransaction, NoPlan
      <4>. QED BY <2>3, <2>4, <3>3, <4>1, AddKeepsLegal
    <3>. QED BY <1>1, <3>1, <3>2, <3>3
  <2>5. StaysLegal(before, template, proposal)
    BY <2>4, Zenon DEF StaysLegal, Fits, CountByPosition
  <2>. HIDE DEF seats, planned, after
  <2>6. StaysLegal(question.before, question.template, question.proposal)
    BY <2>1, <2>5
  <2>. QED BY <2>6 DEF TransactionsKeepRostersLegal, StaysLegal
<1>2. CASE IsTransaction
  <2>1. PICK before \in [1..4 -> 0..2], template \in TransactionTemplates,
             type \in {"trade", "drop", "add"}, players \in UpTo(1..4, 2), others \in UpTo(1..4, 2) :
          /\ \A m \in Teams : FitsTemplate(TargetOf(before, Teams)[m], PoolPosition4, template, FALSE)
          /\ question = [kind |-> "transaction", before |-> before, template |-> template,
                         proposal |-> [type |-> type, fromRound |-> 1, member |-> 1,
                                       players |-> players, memberA |-> 1, memberB |-> 2,
                                       outA |-> players, outB |-> others]]
    BY <1>2 DEF IsTransaction
  <2>. DEFINE proposal == [type |-> type, fromRound |-> 1, member |-> 1, players |-> players,
                           memberA |-> 1, memberB |-> 2, outA |-> players, outB |-> others]
  <2>2. /\ proposal.type \in {"trade", "drop", "add"} /\ StartsLegal(before, template)
        /\ question = [kind |-> "transaction", before |-> before, template |-> template,
                       proposal |-> proposal]
    BY <2>1 DEF StartsLegal
  <2>. HIDE DEF proposal
  <2>. QED BY <1>1, <2>1, <2>2
<1>3. CASE ~Asked("transaction")
  BY <1>3 DEF TransactionsKeepRostersLegal
<1>. QED BY <1>2, <1>3, KindFact

(* Whatever a manager records: no roster it leaves breaks the template, and *)
(* a trade leaves both as full as they were (memberships/plan.ts).  The    *)
(* lemmas it rests on are of any rosters, templates and proposals.         *)
THEOREM TransactionsStayLegal == RulesSpec => []TransactionsKeepRostersLegal
BY TransactionAnswers, PosedAlways, PTL

-----------------------------------------------------------------------------
(* Plans made from the official rosters.                                   *)

LEMMA SyncAnswers ==
  ASSUME IsSync
  PROVE  PlansReachTheOfficialRosters
<1>1. PICK before \in [1..4 -> 0..3], after \in [1..4 -> 0..3] :
        question = [kind |-> "sync", before |-> before, after |-> after]
  BY DEF IsSync
<1>. DEFINE seats == SeatsOf(before)
            target == TargetOf(after, Members)
            steps == PlanSync(1, seats, target)
<1>2. question.kind = "sync" /\ question.before = before /\ question.after = after
  BY <1>1
<1>3. PlannedRows = [ok |-> TRUE, steps |-> steps]
  BY <1>2 DEF PlannedRows
<1>4. DOMAIN target = Members /\ \A m \in Members : target[m] = {p \in DOMAIN after : after[p] = m}
  BY DEF TargetOf
<1>5. Comparable(seats, target)
  <2>1. Windows(seats) /\ Recorded(seats) /\ \A s \in seats : s.member \in Members
    BY SeatsAreWindows
  <2>. HIDE DEF seats, target
  <2>2. Plannable(seats, target)
    BY <1>4, <2>1 DEF Plannable
  <2>3. Members \subseteq Nat \ {Nobody}
    BY DEF Members, Nobody
  <2>4. IsFiniteSet(Members)
    <3>1. 1 \in Int /\ 3 \in Int
      OBVIOUS
    <3>. QED BY <3>1, FS_Interval, Zenon DEF Members
  <2>. QED BY <1>4, <2>1, <2>2, <2>3, <2>4 DEF Comparable
<1>. HIDE DEF seats, target, steps
<1>6. RostersAgree(ApplyPlans(seats, steps), target)
  BY <1>5, SyncReaches DEF steps
<1>7. PlannedRows.steps = steps
  BY <1>3
<1>. QED BY <1>2, <1>6, <1>7 DEF PlansReachTheOfficialRosters, seats, target

LEMMA LogAnswers ==
  ASSUME IsLog
  PROVE  PlansReachTheOfficialRosters
<1>1. PICK before, after \in [1..4 -> 0..3], log \in Seq(Move) :
        question = [kind |-> "log", before |-> before, after |-> after, log |-> log]
  BY DEF IsLog
<1>. DEFINE seats == SeatsOf(before)
            target == TargetOf(after, Teams)
<1>2. /\ question.kind = "log" /\ question.before = before /\ question.after = after
      /\ question.log = log
  BY <1>1
<1>3. PlannedRows = PlanFromLog(1, seats, target, log)
  BY <1>2 DEF PlannedRows
<1>4. Windows(seats) /\ Recorded(seats)
  BY SeatsAreWindows
<1>5. Nobody \notin DOMAIN target
  BY DEF TargetOf, Teams, Nobody
<1>6. \A move \in Move : move.member \in Nat
  BY DEF Move, Teams
<1>. HIDE DEF seats, target
<1>7. ASSUME PlannedRows.ok PROVE RostersAgree(ApplyPlans(seats, PlannedRows.steps), target)
  BY <1>3, <1>4, <1>5, <1>6, <1>7, LogReaches
<1>. QED BY <1>2, <1>7 DEF PlansReachTheOfficialRosters, seats, target

LEMMA TransfersAnswers ==
  ASSUME IsTransfers
  PROVE  PlansReachTheOfficialRosters
<1>0. PICK before, after \in [1..4 -> 0..3] : \E log, applied, X, E :
        /\ log \in Seq(E) /\ Transfers(E, X)
        /\ question = [kind |-> "transfers", before |-> before, after |-> after, log |-> log,
                       applied |-> applied]
  BY DEF IsTransfers
<1>1. PICK log, applied, X, E :
        /\ log \in Seq(E) /\ Transfers(E, X)
        /\ question = [kind |-> "transfers", before |-> before, after |-> after, log |-> log,
                       applied |-> applied]
  BY <1>0
<1>. DEFINE seats == SeatsOf(before)
            target == TargetOf(after, Teams)
<1>2. /\ question.kind = "transfers" /\ question.before = before /\ question.after = after
      /\ question.log = log /\ question.applied = applied
  BY <1>1
<1>3. PlannedRows = PlanBasketNewsTransfers(1, seats, target, log, applied)
  BY <1>2 DEF PlannedRows
<1>4. Windows(seats) /\ Recorded(seats)
  BY SeatsAreWindows
<1>5. Nobody \notin DOMAIN target
  BY DEF TargetOf, Teams, Nobody
<1>. HIDE DEF seats, target
<1>6. ASSUME PlannedRows.ok PROVE RostersAgree(ApplyPlans(seats, PlannedRows.steps), target)
  BY <1>1, <1>3, <1>4, <1>5, <1>6, TransfersReach
<1>. QED BY <1>2, <1>6 DEF PlansReachTheOfficialRosters, seats, target

LEMMA PlanAnswers ==
  ASSUME Posed
  PROVE  PlansReachTheOfficialRosters
<1>1. CASE ~AskedForPlan
  BY <1>1 DEF PlansReachTheOfficialRosters
<1>2. CASE AskedForPlan
  BY <1>2, KindFact, SyncAnswers, LogAnswers, TransfersAnswers DEF AskedForPlan
<1>. QED BY <1>1, <1>2

(* A plan a sync makes, from the difference of the rosters (fantasy/plan.ts) *)
(* or from a move log that explains them (fantasy/plan.ts, basketnews/       *)
(* transfers.ts), carried out row by row (memberships/store.ts) leaves the   *)
(* league's rosters reading as the official ones.                            *)
THEOREM PlansAlwaysReach == RulesSpec => []PlansReachTheOfficialRosters
BY PlanAnswers, PosedAlways, PTL

-----------------------------------------------------------------------------
(* Roles: what the reads of a round freeze.                                *)

LEMMA ConcatNames ==
  ASSUME NEW R, NEW a \in Seq(R), NEW b \in Seq(R)
  PROVE  a \o b \in Seq(R) /\ ToSet(a \o b) = ToSet(a) \cup ToSet(b)
<1>1. /\ Len(a) \in Nat /\ Len(b) \in Nat /\ a \o b \in Seq(R) /\ Len(a \o b) = Len(a) + Len(b)
      /\ DOMAIN a = 1..Len(a) /\ DOMAIN b = 1..Len(b) /\ DOMAIN (a \o b) = 1..Len(a) + Len(b)
  OBVIOUS
<1>2. \A i \in 1..Len(a) : i \in DOMAIN (a \o b) /\ (a \o b)[i] = a[i]
  OBVIOUS
<1>3. \A i \in 1..Len(b) : Len(a) + i \in DOMAIN (a \o b) /\ (a \o b)[Len(a) + i] = b[i]
  OBVIOUS
<1>4. ASSUME NEW i \in DOMAIN (a \o b) PROVE (a \o b)[i] \in ToSet(a) \cup ToSet(b)
  <2>1. CASE i \in 1..Len(a)
    BY <1>1, <1>2, <2>1 DEF ToSet
  <2>2. CASE i \notin 1..Len(a)
    <3>1. i - Len(a) \in 1..Len(b) /\ i = Len(a) + (i - Len(a))
      BY <1>1, <2>2
    <3>2. (a \o b)[i] = b[i - Len(a)]
      BY <1>3, <3>1
    <3>. QED BY <1>1, <3>1, <3>2 DEF ToSet
  <2>. QED BY <2>1, <2>2
<1>5. ToSet(a \o b) \subseteq ToSet(a) \cup ToSet(b)
  BY <1>4 DEF ToSet
<1>6. ToSet(a) \subseteq ToSet(a \o b)
  BY <1>1, <1>2 DEF ToSet
<1>7. ToSet(b) \subseteq ToSet(a \o b)
  BY <1>1, <1>3 DEF ToSet
<1>. QED BY <1>1, <1>5, <1>6, <1>7

(* The players a side gives a role to, in their order.                     *)
InRole(side, role) ==
  LET chosen == Selected([p \in DOMAIN side |-> [player |-> p, role |-> side[p]]],
                         LAMBDA a : a.role = role)
  IN  [i \in DOMAIN chosen |-> chosen[i].player]

LEMMA InRoleFact ==
  ASSUME NEW n \in Nat, NEW side, DOMAIN side = 1..n, NEW role
  PROVE  /\ InRole(side, role) \in Seq(1..n)
         /\ ToSet(InRole(side, role)) = {p \in 1..n : side[p] = role}
<1>. DEFINE given == [p \in DOMAIN side |-> [player |-> p, role |-> side[p]]]
            places == {i \in DOMAIN given : given[i].role = role}
            order == Ascending(places)
            count == Cardinality(places)
            chosen == [i \in DOMAIN order |-> given[order[i]]]
<1>1. InRole(side, role) = [i \in DOMAIN chosen |-> chosen[i].player]
  BY Zenon DEF InRole, Selected, Picked
<1>2. places = {p \in 1..n : side[p] = role}
  OBVIOUS
<1>3. places \subseteq 1..n /\ places \subseteq Nat /\ IsFiniteSet(places)
  <2>1. 1 \in Int /\ n \in Int
    OBVIOUS
  <2>2. IsFiniteSet(1..n)
    BY <2>1, FS_Interval
  <2>3. places \subseteq 1..n
    BY <1>2
  <2>. HIDE DEF places
  <2>4. IsFiniteSet(places)
    BY <2>2, <2>3, FS_Subset
  <2>5. places \subseteq Nat
    BY <2>3
  <2>. QED BY <2>3, <2>4, <2>5
<1>. HIDE DEF places
<1>4. /\ count \in Nat /\ order \in [1..count -> places]
      /\ \A p \in places : \E i \in 1..count : order[i] = p
  BY <1>3, AscendingFact
<1>. HIDE DEF order, count
<1>5. [i \in DOMAIN chosen |-> chosen[i].player] = order
  <2>1. \A i \in 1..count : order[i] \in 1..n
    BY <1>3, <1>4
  <2>2. DOMAIN chosen = 1..count /\ \A i \in 1..count : chosen[i] = given[order[i]]
    BY <1>4
  <2>0. \A p \in 1..n : given[p].player = p
    OBVIOUS
  <2>. HIDE DEF given, chosen
  <2>3. \A i \in 1..count : chosen[i].player = order[i]
    BY <2>0, <2>1, <2>2
  <2>4. order = [i \in 1..count |-> order[i]]
    BY <1>4
  <2>. QED BY <2>2, <2>3, <2>4
<1>6. order \in Seq(1..n)
  <2>1. order \in [1..count -> 1..n]
    BY <1>3, <1>4
  <2>. QED BY <1>4, <2>1
<1>7. ToSet(order) = places
  BY <1>4 DEF ToSet
<1>. QED BY <1>1, <1>2, <1>5, <1>6, <1>7

(* A lineup saved from roles, with one captain at most, reads back as them. *)
LEMMA RolesReadBack ==
  ASSUME NEW n \in Nat, NEW side \in [1..n -> Roles],
         \A p, q \in 1..n : side[p] = "captain" /\ side[q] = "captain" => p = q
  PROVE  RolesFromSlots(SideSlots(side)) = side
<1>. DEFINE in(role) == InRole(side, role)
            slots == SideSlots(side)
            captain == IF in("captain") = <<>> THEN NoCaptain ELSE in("captain")[1]
            held(role) == {p \in 1..n : side[p] = role}
<1>1. slots = [starters |-> in("captain") \o in("starter"), captain |-> captain,
               sixth |-> in("sixth"), bench |-> in("bench"), inactive |-> in("inactive")]
  BY Zenon DEF SideSlots, SlotsFromRoles, InRole
<1>2. \A role : in(role) \in Seq(1..n) /\ ToSet(in(role)) = held(role)
  BY InRoleFact
<1>3. captain = NoCaptain \/ captain \in held("captain")
  <2>1. in("captain") \in Seq(1..n) /\ ToSet(in("captain")) = held("captain")
    BY <1>2
  <2>. HIDE DEF in, held
  <2>2. CASE in("captain") # <<>>
    <3>1. 1 \in DOMAIN in("captain")
      BY <2>1, <2>2
    <3>. QED BY <2>1, <2>2, <3>1 DEF ToSet
  <2>. QED BY <2>2
<1>4. \A p \in held("captain") : p = captain
  <2>1. in("captain") \in Seq(1..n) /\ ToSet(in("captain")) = held("captain")
    BY <1>2
  <2>2. ASSUME NEW p \in held("captain") PROVE in("captain") # <<>>
    BY <2>1, <2>2 DEF ToSet
  <2>3. ASSUME NEW p \in held("captain") PROVE captain \in held("captain")
    <3>1. in("captain") # <<>>
      BY <2>2, <2>3
    <3>. HIDE DEF in, held
    <3>2. 1 \in DOMAIN in("captain")
      BY <2>1, <3>1
    <3>. QED BY <2>1, <3>1, <3>2 DEF ToSet
  <2>. QED BY <2>3
<1>5. NoCaptain \notin 1..n
  BY DEF NoCaptain
<1>. HIDE DEF captain, in
<1>6. /\ slots.captain = captain /\ ToSet(slots.inactive) = held("inactive")
      /\ ToSet(slots.bench) = held("bench") /\ ToSet(slots.sixth) = held("sixth")
  BY <1>1, <1>2
<1>7. ToSet(Placed(slots)) = held("captain") \cup held("starter") \cup held("sixth")
                               \cup held("bench") \cup held("inactive")
  <2>. DEFINE a == in("captain")
              b == in("starter")
              c == in("sixth")
              d == in("bench")
              e == in("inactive")
  <2>1. Placed(slots) = ((((a \o b) \o c) \o d) \o e)
    BY <1>1 DEF Placed
  <2>2. /\ a \in Seq(1..n) /\ b \in Seq(1..n) /\ c \in Seq(1..n) /\ d \in Seq(1..n) /\ e \in Seq(1..n)
        /\ ToSet(a) = held("captain") /\ ToSet(b) = held("starter") /\ ToSet(c) = held("sixth")
        /\ ToSet(d) = held("bench") /\ ToSet(e) = held("inactive")
    BY <1>2
  <2>. HIDE DEF a, b, c, d, e, held, slots
  <2>. DEFINE ab == a \o b
              abc == ab \o c
              abcd == abc \o d
  <2>3. ab \in Seq(1..n) /\ ToSet(ab) = ToSet(a) \cup ToSet(b)
    BY <2>2, ConcatNames
  <2>. HIDE DEF ab
  <2>4. abc \in Seq(1..n) /\ ToSet(abc) = ToSet(ab) \cup ToSet(c)
    BY <2>2, <2>3, ConcatNames
  <2>. HIDE DEF abc
  <2>5. abcd \in Seq(1..n) /\ ToSet(abcd) = ToSet(abc) \cup ToSet(d)
    BY <2>2, <2>4, ConcatNames
  <2>. HIDE DEF abcd
  <2>6. ToSet(abcd \o e) = ToSet(abcd) \cup ToSet(e)
    BY <2>2, <2>5, ConcatNames
  <2>7. Placed(slots) = abcd \o e
    BY <2>1 DEF ab, abc, abcd
  <2>. QED BY <2>2, <2>3, <2>4, <2>5, <2>6, <2>7
<1>8. \A p \in 1..n : side[p] \in Roles
  OBVIOUS
<1>9. ToSet(Placed(slots)) = 1..n
  BY <1>7, <1>8 DEF Roles
<1>. DEFINE roleOf(p) == CASE p = slots.captain -> "captain"
                           [] p \in ToSet(slots.inactive) -> "inactive"
                           [] p \in ToSet(slots.bench) -> "bench"
                           [] p \in ToSet(slots.sixth) -> "sixth"
                           [] OTHER -> "starter"
<1>10. RolesFromSlots(slots) = [p \in ToSet(Placed(slots)) \cup ({slots.captain} \ {NoCaptain}) |-> roleOf(p)]
  BY Zenon DEF RolesFromSlots
<1>11. ToSet(Placed(slots)) \cup ({slots.captain} \ {NoCaptain}) = 1..n
  BY <1>3, <1>6, <1>9
<1>. HIDE DEF slots
<1>12. \A p \in 1..n : roleOf(p) = side[p]
  <2>. TAKE p \in 1..n
  <2>1. p = captain <=> side[p] = "captain"
    BY <1>3, <1>4, <1>5
  <2>2. side[p] \in Roles
    BY <1>8
  <2>. QED BY <1>6, <2>1, <2>2 DEF Roles
<1>. HIDE DEF roleOf
<1>13. [p \in 1..n |-> roleOf(p)] = [p \in 1..n |-> side[p]]
  BY <1>12, Zenon
<1>14. side = [p \in 1..n |-> side[p]]
  OBVIOUS
<1>15. RolesFromSlots(slots) = [p \in 1..n |-> roleOf(p)]
  BY <1>10, <1>11
<1>. QED BY <1>13, <1>14, <1>15 DEF slots

(* What the first k reads have frozen: whoever had played by the day of one *)
(* of them, in the role he held at the first of these.                      *)
FrozenBy(roles, gameDays, days, k, frozen) ==
  \A p : IF \E i \in 1..k : p \in DOMAIN roles[i] \cap DOMAIN gameDays /\ gameDays[p] <= days[i]
         THEN /\ p \in DOMAIN frozen
              /\ \E i \in 1..k :
                   /\ p \in DOMAIN roles[i] /\ gameDays[p] <= days[i]
                   /\ \A j \in 1..i - 1 : ~(p \in DOMAIN roles[j] /\ gameDays[p] <= days[j])
                   /\ frozen[p].role = roles[i][p]
         ELSE p \notin DOMAIN frozen

LEMMA FreezeStep ==
  ASSUME NEW n \in Nat, NEW roles, NEW gameDays, NEW days, NEW k \in 1..n,
         NEW f, FrozenBy(roles, gameDays, days, k - 1, f),
         NEW slots, RolesFromSlots(slots) = roles[k]
  PROVE  FrozenBy(roles, gameDays, days, k, FreezeRoles(f, slots, gameDays, days[k]))
<1>. DEFINE now == roles[k]
            D == {q \in DOMAIN now : q \in DOMAIN gameDays /\ gameDays[q] <= days[k]}
            g == [p \in D |-> [role |-> now[p], day |-> gameDays[p]]]
            h == FreezeRoles(f, slots, gameDays, days[k])
            hit(p, i) == p \in DOMAIN roles[i] \cap DOMAIN gameDays /\ gameDays[p] <= days[i]
<1>1. h = Over(f, g)
  BY Zenon DEF FreezeRoles
<1>2. /\ DOMAIN h = DOMAIN f \cup D
      /\ \A p \in DOMAIN f : h[p] = f[p]
      /\ \A p \in D : p \notin DOMAIN f => h[p].role = roles[k][p]
  <2>. HIDE DEF h, D
  <2>1. DOMAIN g = D /\ \A p \in D : g[p].role = now[p]
    OBVIOUS
  <2>. HIDE DEF g
  <2>2. h = [x \in (DOMAIN f) \cup (DOMAIN g) |-> IF x \in DOMAIN f THEN f[x] ELSE g[x]]
    BY <1>1 DEF Over
  <2>. QED BY <2>1, <2>2
<1>3. \A p : p \in D <=> hit(p, k)
  OBVIOUS
<1>4. \A i : i \in 1..k <=> i \in 1..k - 1 \/ i = k
  OBVIOUS
<1>5. \A i \in 1..k - 1 : 1..i - 1 \subseteq 1..k - 1
  OBVIOUS
<1>. HIDE DEF h, D, hit
<1>6. ASSUME NEW p
      PROVE  IF \E i \in 1..k : hit(p, i)
             THEN /\ p \in DOMAIN h
                  /\ \E i \in 1..k : /\ hit(p, i) /\ \A j \in 1..i - 1 : ~hit(p, j)
                                     /\ h[p].role = roles[i][p]
             ELSE p \notin DOMAIN h
  <2>1. IF \E i \in 1..k - 1 : hit(p, i)
        THEN /\ p \in DOMAIN f
             /\ \E i \in 1..k - 1 : /\ hit(p, i) /\ \A j \in 1..i - 1 : ~hit(p, j)
                                    /\ f[p].role = roles[i][p]
        ELSE p \notin DOMAIN f
    <3>1. CASE \E i \in 1..k - 1 : hit(p, i)
      BY <3>1 DEF FrozenBy, hit
    <3>2. CASE ~\E i \in 1..k - 1 : hit(p, i)
      BY <3>2 DEF FrozenBy, hit
    <3>. QED BY <3>1, <3>2
  <2>2. CASE \E i \in 1..k - 1 : hit(p, i)
    <3>1. h[p] = f[p] /\ p \in DOMAIN h
      BY <1>2, <2>1, <2>2
    <3>. QED BY <1>4, <2>1, <2>2, <3>1
  <2>3. CASE ~(\E i \in 1..k - 1 : hit(p, i)) /\ hit(p, k)
    <3>1. p \notin DOMAIN f /\ p \in D
      BY <1>3, <2>1, <2>3
    <3>2. p \in DOMAIN h /\ h[p].role = roles[k][p]
      BY <1>2, <3>1
    <3>3. k \in 1..k
      OBVIOUS
    <3>. QED BY <2>3, <3>2, <3>3
  <2>4. CASE ~(\E i \in 1..k - 1 : hit(p, i)) /\ ~hit(p, k)
    <3>1. p \notin DOMAIN f /\ p \notin D
      BY <1>3, <2>1, <2>4
    <3>. QED BY <1>2, <1>4, <2>4, <3>1
  <2>. QED BY <2>2, <2>3, <2>4
<1>7. ASSUME NEW p, \E i \in 1..k : hit(p, i)
      PROVE  p \in DOMAIN gameDays
  BY <1>7 DEF hit
<1>. QED BY <1>6, <1>7 DEF FrozenBy, h, hit

FrozenAt(sides, gameDays, days, frozen, i) == FreezeRoles(frozen, SideSlots(sides[i]), gameDays, days[i])

FrozenAfter(sides, gameDays, days, seq) ==
  FoldLeft(LAMBDA frozen, i : FreezeRoles(frozen, SideSlots(sides[i]), gameDays, days[i]), <<>>, seq)

(* The frozen roles after n reads, each of the lineup as it stood            *)
(* (freezeRoles, lineups/lineup.ts): whoever had played by the day of a read *)
(* stands at the role he had at the first such read, and nobody else is      *)
(* frozen.                                                                   *)
THEOREM ReadsFreeze ==
  ASSUME NEW n \in Nat, NEW P, NEW R, NEW roles \in [1..n -> [P -> R]], NEW sides,
         \A i \in 1..n : RolesFromSlots(SideSlots(sides[i])) = roles[i],
         NEW gameDays, NEW days, NEW seq \in [1..n -> 1..n], \A i \in 1..n : seq[i] = i
  PROVE  FrozenBy(roles, gameDays, days, n, FrozenAfter(sides, gameDays, days, seq))
<1>. DEFINE base == <<>>
            F == [role : R, day : {gameDays[p] : p \in DOMAIN gameDays}]
            V == UNION {[D -> F] : D \in SUBSET P}
            step == [x \in V \X (1..n) |-> FrozenAt(sides, gameDays, days, x[1], seq[x[2]])]
            next(f) == [s \in SUBSET (1..n) |->
                          IF s = {} THEN base ELSE FrozenAt(sides, gameDays, days, f[s \ {Max(s)}], seq[Max(s)])]
            iter == CHOOSE f : f = next(f)
            result == FrozenAfter(sides, gameDays, days, seq)
<1>1. result = iter[1..n]
  BY Zenon DEF FoldLeft, MapThenFoldSet, FrozenAt, FrozenAfter
<1>. HIDE DEF result
<1>2. \A x \in V, i \in 1..n : FrozenAt(sides, gameDays, days, x, i) \in V
  <2>. TAKE x \in V, i \in 1..n
  <2>. DEFINE now == roles[i]
              D == {q \in DOMAIN now : q \in DOMAIN gameDays /\ gameDays[q] <= days[i]}
              g == [p \in D |-> [role |-> now[p], day |-> gameDays[p]]]
  <2>1. FrozenAt(sides, gameDays, days, x, i) = Over(x, g)
    BY Zenon DEF FreezeRoles, FrozenAt
  <2>2. PICK C \in SUBSET P : x \in [C -> F]
    OBVIOUS
  <2>3. g \in [D -> F] /\ D \in SUBSET P
    OBVIOUS
  <2>. HIDE DEF g, D, F
  <2>4. Over(x, g) = [p \in C \cup D |-> IF p \in C THEN x[p] ELSE g[p]]
    BY <2>2, <2>3 DEF Over
  <2>5. Over(x, g) \in [C \cup D -> F]
    BY <2>2, <2>3, <2>4
  <2>6. \A E \in SUBSET P : \A y \in [E -> F] : y \in V
    OBVIOUS
  <2>. HIDE DEF V
  <2>7. C \cup D \in SUBSET P
    BY <2>2, <2>3
  <2>. QED BY <2>1, <2>5, <2>6, <2>7
<1>3. base \in V
  <2>1. base \in Seq(F) /\ Len(base) = 0
    OBVIOUS
  <2>. HIDE DEF base, F
  <2>2. base \in [{} -> F]
    BY <2>1
  <2>. QED BY <2>2
<1>4. FrozenBy(roles, gameDays, days, 0, base)
  <2>1. DOMAIN base = {} /\ 1..0 = {}
    OBVIOUS
  <2>. QED BY <2>1 DEF FrozenBy
<1>. HIDE DEF V, base
<1>5. step \in [V \X (1..n) -> V]
  BY <1>2
<1>6. PICK g : Folds(n, V, base, step, g)
  <2>. HIDE DEF step
  <2>. QED BY <1>3, <1>5, FoldExists
<1>7. g = next(g)
  BY <1>6 DEF Folds
<1>. HIDE DEF step
<1>8. iter = next(iter)
  <2>. HIDE DEF next
  <2>. QED BY <1>7
<1>. HIDE DEF iter
<1>. DEFINE S == {k \in 0..n : FrozenBy(roles, gameDays, days, k, iter[1..k])}
<1>9. 0 \in S
  <2>1. 1..0 = {} /\ {} \in SUBSET (1..n)
    OBVIOUS
  <2>2. iter[{}] = base
    BY <1>8, <2>1
  <2>3. iter[1..0] = base
    BY <2>1, <2>2
  <2>. HIDE DEF next
  <2>. QED BY <1>4, <2>3
<1>10. ASSUME NEW k \in 1..n, k - 1 \in S PROVE k \in S
  <2>1. /\ 1..k \in SUBSET (1..n) /\ 1..k # {}
        /\ Max(1..k) = k /\ (1..k) \ {k} = 1..k - 1
    BY PrefixFact
  <2>. DEFINE s == 1..k
  <2>2. iter[s] = IF s = {} THEN base
                  ELSE FrozenAt(sides, gameDays, days, iter[s \ {Max(s)}], seq[Max(s)])
    <3>. HIDE DEF s
    <3>. QED BY <1>8, <2>1 DEF s
  <2>. HIDE DEF next
  <2>3. iter[1..k] = FreezeRoles(iter[1..k - 1], SideSlots(sides[k]), gameDays, days[k])
    BY <2>1, <2>2 DEF FrozenAt
  <2>. HIDE DEF S
  <2>6. RolesFromSlots(SideSlots(sides[k])) = roles[k]
    OBVIOUS
  <2>4. FrozenBy(roles, gameDays, days, k - 1, iter[1..k - 1])
    BY <1>10 DEF S
  <2>5. FrozenBy(roles, gameDays, days, k, iter[1..k])
    <3>. DEFINE f == iter[1..k - 1]
                slot == SideSlots(sides[k])
                more == FreezeRoles(f, slot, gameDays, days[k])
    <3>1. FrozenBy(roles, gameDays, days, k - 1, f) /\ RolesFromSlots(slot) = roles[k]
      BY <2>4, <2>6
    <3>2. iter[1..k] = more
      BY <2>3
    <3>. HIDE DEF f, slot
    <3>3. FrozenBy(roles, gameDays, days, k, more)
      BY <3>1, FreezeStep, Zenon
    <3>. QED BY <3>2, <3>3
  <2>. QED BY <2>5 DEF S
<1>. HIDE DEF S
<1>11. n \in S
  <2>1. \A k \in 1..n : k - 1 \in S => k \in S
    BY <1>10
  <2>. HIDE DEF next
  <2>2. \A k \in 0..n : k \in S
    BY <1>9, <2>1, Upward
  <2>. QED BY <2>2
<1>. QED BY <1>1, <1>11 DEF S, result

LEMMA SidesFact ==
  ASSUME NEW side \in Sides
  PROVE  side \in [1..4 -> Roles] /\ RolesFromSlots(SideSlots(side)) = side
<1>1. side \in [1..4 -> Roles]
  BY DEF Sides, Roles
<1>2. \A p, q \in 1..4 : side[p] = "captain" /\ side[q] = "captain" => p = q
  BY DEF Sides
<1>3. 4 \in Nat
  OBVIOUS
<1>. QED BY <1>1, <1>2, <1>3, RolesReadBack

LEMMA ReadsAnswers ==
  ASSUME IsReads
  PROVE  FrozenRolesSurviveEdits
<1>. DEFINE sides == question.sides
            days == question.days
            gameDays == question.gameDays
            seq == <<1, 2, 3>>
            frozen == FrozenAfter(sides, gameDays, days, seq)
            now == SideSlots(sides[3])
            reached(p) == {i \in 1..3 : p \in DOMAIN gameDays /\ days[i] >= gameDays[p]}
            standsAt(p) == IF reached(p) = {} THEN 3 ELSE Min(reached(p))
<1>1. sides \in Tuples(Sides, 3) /\ days \in Tuples(0..2, 3) /\ gameDays \in [1..3 -> 1..2]
  BY DEF IsReads
<1>2. FrozenRolesSurviveEdits
      <=> (Asked("reads") => \A p \in 1..4 : EffectiveRoles(now, frozen)[p] = sides[standsAt(p)][p])
  BY Zenon DEF FrozenRolesSurviveEdits, FrozenAfter
<1>. HIDE DEF sides, days, gameDays
<1>3. sides \in [1..3 -> Sides]
  BY <1>1 DEF Tuples
<1>4. /\ sides \in [1..3 -> [1..4 -> Roles]]
      /\ \A i \in 1..3 : RolesFromSlots(SideSlots(sides[i])) = sides[i]
  <2>1. \A i \in 1..3 : /\ sides[i] \in [1..4 -> Roles]
                        /\ RolesFromSlots(SideSlots(sides[i])) = sides[i]
    BY <1>3, SidesFact
  <2>. QED BY <1>3, <2>1
<1>5. FrozenBy(sides, gameDays, days, 3, frozen)
  <2>1. /\ 3 \in Nat /\ seq \in [1..3 -> 1..3] /\ \A i \in 1..3 : seq[i] = i
    OBVIOUS
  <2>. HIDE DEF seq
  <2>. QED BY <1>4, <2>1, ReadsFreeze
<1>6. \A p \in 1..4 : EffectiveRoles(now, frozen)[p] = sides[standsAt(p)][p]
  <2>. HIDE DEF frozen
  <2>. TAKE p \in 1..4
  <2>1. EffectiveRoles(now, frozen) = Over([x \in DOMAIN frozen |-> frozen[x].role], sides[3])
    BY <1>4 DEF EffectiveRoles
  <2>2. \A i \in 1..3 : DOMAIN sides[i] = 1..4
    BY <1>4
  <2>3. EffectiveRoles(now, frozen)[p] = IF p \in DOMAIN frozen THEN frozen[p].role ELSE sides[3][p]
    BY <2>1, <2>2 DEF Over
  <2>4. days \in [1..3 -> 0..2]
    BY <1>1 DEF Tuples
  <2>5. \A i \in 1..3 : i \in reached(p) <=> p \in DOMAIN gameDays /\ gameDays[p] <= days[i]
    BY <1>1, <2>4
  <2>6. reached(p) # {} => Min(reached(p)) \in reached(p) /\ \A i \in reached(p) : Min(reached(p)) <= i
    <3>1. reached(p) \in SUBSET Nat
      OBVIOUS
    <3>. DEFINE T == reached(p)
    <3>. HIDE DEF T
    <3>2. T # {} /\ T \in SUBSET Nat => Min(T) \in T /\ \A i \in T : Min(T) <= i
      BY NatMin
    <3>. QED BY <3>1, <3>2 DEF T
  <2>7. CASE reached(p) = {}
    <3>1. p \notin DOMAIN frozen
      BY <1>5, <2>5, <2>7 DEF FrozenBy
    <3>. QED BY <2>3, <2>7, <3>1
  <2>8. CASE reached(p) # {}
    <3>1. PICK i \in 1..3 : /\ p \in DOMAIN frozen /\ gameDays[p] <= days[i]
                            /\ \A j \in 1..i - 1 : ~(p \in DOMAIN sides[j] /\ gameDays[p] <= days[j])
                            /\ frozen[p].role = sides[i][p]
      BY <1>5, <2>2, <2>5, <2>8 DEF FrozenBy
    <3>2. i \in reached(p)
      BY <2>5, <2>8, <3>1
    <3>3. Min(reached(p)) = i
      <4>. DEFINE least == Min(reached(p))
      <4>1. least \in reached(p) /\ least <= i /\ least \in 1..3
        BY <2>6, <2>8, <3>2
      <4>2. p \in DOMAIN sides[least] /\ gameDays[p] <= days[least]
        BY <2>2, <2>5, <4>1
      <4>. HIDE DEF least
      <4>3. least \notin 1..i - 1
        BY <3>1, <4>2
      <4>4. least = i
        BY <4>1, <4>3
      <4>. QED BY <4>4 DEF least
    <3>. QED BY <2>3, <2>8, <3>1, <3>3
  <2>. QED BY <2>7, <2>8
<1>. QED BY <1>2, <1>6

LEMMA ReadsAsked ==
  ASSUME Posed
  PROVE  FrozenRolesSurviveEdits
<1>1. CASE ~Asked("reads")
  BY <1>1, Zenon DEF FrozenRolesSurviveEdits
<1>2. CASE Asked("reads")
  BY <1>2, KindFact, ReadsAnswers
<1>. QED BY <1>1, <1>2

(* A player's role is the one he held at the first read that reached his     *)
(* game day, whatever the manager or a later read does (lineups/lineup.ts).  *)
THEOREM FrozenRolesAlwaysSurvive == RulesSpec => []FrozenRolesSurviveEdits
BY ReadsAsked, PosedAlways, PTL

-----------------------------------------------------------------------------
(* A sheet edited by hand.  Its ranking is a list that names nobody twice.  *)

ListedOnce(n, s) == \A i, j \in 1..n : s[i] = s[j] => i = j

Listing(P, n, s) == n \in Nat /\ s \in [1..n -> P] /\ ListedOnce(n, s)

(* A list without its i-th name, and one with a name put in at i: where each *)
(* name of the list goes is the same for every list.                        *)
After(r, i) == IF r < i THEN r ELSE r - 1
Before(r, i) == IF r < i THEN r ELSE r + 1
Without(n, s, i) == [j \in 1..n - 1 |-> s[Before(j, i)]]
With(n, s, i, e) == [j \in 1..n + 1 |-> IF j = i THEN e ELSE s[After(j, i)]]

JoinedLists(R, ab, a, b, k, m) ==
  /\ ab \in Seq(R) /\ Len(ab) = k + m /\ ab \in [1..k + m -> R]
  /\ \A j \in 1..k : ab[j] = a[j]
  /\ \A j \in 1..m : ab[k + j] = b[j]

LEMMA ConcatAt ==
  ASSUME NEW R, NEW a \in Seq(R), NEW b \in Seq(R), NEW k, Len(a) = k, NEW m, Len(b) = m
  PROVE  JoinedLists(R, a \o b, a, b, k, m)
<1>1. k \in Nat /\ m \in Nat
  OBVIOUS
<1>2. a \o b \in Seq(R) /\ Len(a \o b) = k + m
  OBVIOUS
<1>3. a \o b \in [1..k + m -> R]
  <2>. DEFINE c == a \o b
  <2>1. c \in Seq(R) /\ Len(c) = k + m
    BY <1>2
  <2>. HIDE DEF c
  <2>2. c \in [1..k + m -> R]
    BY <2>1
  <2>. QED BY <2>2 DEF c
<1>4. \A j \in 1..k : (a \o b)[j] = a[j]
  OBVIOUS
<1>5. \A j \in 1..m : (a \o b)[k + j] = b[j]
  OBVIOUS
<1>. QED BY <1>2, <1>3, <1>4, <1>5 DEF JoinedLists

LEMMA RemoveFact ==
  ASSUME NEW P, NEW n \in Nat, NEW s \in [1..n -> P], NEW i \in 1..n
  PROVE  RemoveAt(s, i) = Without(n, s, i)
<1>. DEFINE a == SubSeq(s, 1, i - 1)
            b == SubSeq(s, i + 1, n)
<1>1. s \in Seq(P) /\ Len(s) = n
  OBVIOUS
<1>2. /\ a \in Seq(P) /\ Len(a) = i - 1 /\ \A j \in 1..i - 1 : a[j] = s[j]
      /\ b \in Seq(P) /\ Len(b) = n - i /\ \A j \in 1..n - i : b[j] = s[i + j]
  BY <1>1
<1>3. RemoveAt(s, i) = a \o b
  BY <1>1 DEF RemoveAt
<1>. HIDE DEF a, b
<1>4. /\ a \o b \in [1..n - 1 -> P]
      /\ \A j \in 1..i - 1 : (a \o b)[j] = a[j]
      /\ \A j \in 1..n - i : (a \o b)[i - 1 + j] = b[j]
  <2>. DEFINE k == i - 1
              m == n - i
  <2>1. a \in Seq(P) /\ Len(a) = k /\ b \in Seq(P) /\ Len(b) = m /\ k + m = n - 1
    BY <1>2
  <2>. HIDE DEF k, m
  <2>2. JoinedLists(P, a \o b, a, b, k, m)
    BY <2>1, ConcatAt
  <2>. QED BY <2>1, <2>2 DEF JoinedLists, k, m
<1>5. ASSUME NEW j \in 1..n - 1 PROVE (a \o b)[j] = s[Before(j, i)]
  <2>1. CASE j < i
    BY <1>2, <1>4, <2>1 DEF Before
  <2>2. CASE ~(j < i)
    <3>. DEFINE k == j - (i - 1)
    <3>1. k \in 1..n - i /\ i - 1 + k = j /\ i + k = j + 1
      BY <2>2
    <3>. HIDE DEF k
    <3>2. (a \o b)[i - 1 + k] = b[k] /\ b[k] = s[i + k]
      BY <1>2, <1>4, <3>1
    <3>3. Before(j, i) = j + 1
      BY <2>2 DEF Before
    <3>. QED BY <3>1, <3>2, <3>3
  <2>. QED BY <2>1, <2>2
<1>6. a \o b = [j \in 1..n - 1 |-> (a \o b)[j]]
  BY <1>4
<1>. QED BY <1>3, <1>5, <1>6 DEF Without

LEMMA InsertFact ==
  ASSUME NEW P, NEW n \in Nat, NEW s \in [1..n -> P], NEW i \in 1..n + 1, NEW e \in P
  PROVE  InsertAt(s, i, e) = With(n, s, i, e)
<1>. DEFINE a == SubSeq(s, 1, i - 1)
            b == <<e>>
            c == SubSeq(s, i, n)
            ab == a \o b
<1>1. s \in Seq(P) /\ Len(s) = n
  OBVIOUS
<1>2. /\ a \in Seq(P) /\ Len(a) = i - 1 /\ \A j \in 1..i - 1 : a[j] = s[j]
      /\ c \in Seq(P) /\ Len(c) = n + 1 - i /\ \A j \in 1..n + 1 - i : c[j] = s[i - 1 + j]
      /\ b \in Seq(P) /\ Len(b) = 1 /\ b[1] = e
  BY <1>1
<1>3. InsertAt(s, i, e) = ab \o c
  BY <1>1 DEF InsertAt
<1>. HIDE DEF a, b, c
<1>4. /\ ab \in Seq(P) /\ Len(ab) = i
      /\ \A j \in 1..i - 1 : ab[j] = a[j]
      /\ ab[i] = e
  <2>. DEFINE k == i - 1
              m == 1
  <2>1. a \in Seq(P) /\ Len(a) = k /\ b \in Seq(P) /\ Len(b) = m /\ k + m = i /\ m \in 1..m
    BY <1>2
  <2>. HIDE DEF k, m
  <2>2. JoinedLists(P, ab, a, b, k, m)
    BY <2>1, ConcatAt
  <2>. HIDE DEF ab
  <2>3. ab[k + m] = b[m]
    BY <2>1, <2>2 DEF JoinedLists
  <2>. QED BY <1>2, <2>1, <2>2, <2>3 DEF JoinedLists, k, m
<1>. HIDE DEF ab
<1>5. /\ ab \o c \in [1..n + 1 -> P]
      /\ \A j \in 1..i : (ab \o c)[j] = ab[j]
      /\ \A j \in 1..n + 1 - i : (ab \o c)[i + j] = c[j]
  <2>. DEFINE k == i
              m == n + 1 - i
  <2>1. ab \in Seq(P) /\ Len(ab) = k /\ c \in Seq(P) /\ Len(c) = m /\ k + m = n + 1
    BY <1>2, <1>4
  <2>. HIDE DEF k, m
  <2>2. JoinedLists(P, ab \o c, ab, c, k, m)
    BY <2>1, ConcatAt
  <2>. QED BY <2>1, <2>2 DEF JoinedLists, k, m
<1>6. ASSUME NEW j \in 1..n + 1 PROVE (ab \o c)[j] = IF j = i THEN e ELSE s[After(j, i)]
  <2>1. CASE j < i
    BY <1>2, <1>4, <1>5, <2>1 DEF After
  <2>2. CASE j = i
    BY <1>4, <1>5, <2>2
  <2>3. CASE j > i
    <3>. DEFINE k == j - i
    <3>1. k \in 1..n + 1 - i /\ i + k = j /\ i - 1 + k = j - 1
      BY <2>3
    <3>. HIDE DEF k
    <3>2. (ab \o c)[i + k] = c[k] /\ c[k] = s[i - 1 + k]
      BY <1>2, <1>5, <3>1
    <3>3. After(j, i) = j - 1 /\ j # i
      BY <2>3 DEF After
    <3>. QED BY <3>1, <3>2, <3>3
  <2>4. j < i \/ j = i \/ j > i
    OBVIOUS
  <2>. QED BY <2>1, <2>2, <2>3, <2>4
<1>7. ab \o c = [j \in 1..n + 1 |-> (ab \o c)[j]]
  BY <1>5
<1>. QED BY <1>3, <1>6, <1>7 DEF With

LEMMA WithoutFact ==
  ASSUME NEW P, NEW n, NEW s, Listing(P, n, s), NEW i \in 1..n
  PROVE  /\ Listing(P, n - 1, Without(n, s, i))
         /\ \A j \in 1..n - 1 : Without(n, s, i)[j] # s[i]
         /\ \A r \in 1..n : r # i => After(r, i) \in 1..n - 1 /\ Without(n, s, i)[After(r, i)] = s[r]
         /\ With(n - 1, Without(n, s, i), i, s[i]) = s
<1>. DEFINE t == Without(n, s, i)
<1>0. n \in Nat /\ s \in [1..n -> P] /\ ListedOnce(n, s)
  BY DEF Listing
<1>1. n - 1 \in Nat /\ \A j \in 1..n - 1 : Before(j, i) \in 1..n /\ Before(j, i) # i
  BY <1>0 DEF Before
<1>2. \A j, k \in 1..n - 1 : Before(j, i) = Before(k, i) => j = k
  BY <1>0 DEF Before
<1>3. \A r \in 1..n : r # i => After(r, i) \in 1..n - 1 /\ Before(After(r, i), i) = r
  BY <1>0 DEF After, Before
<1>4. t \in [1..n - 1 -> P] /\ \A j \in 1..n - 1 : t[j] = s[Before(j, i)]
  BY <1>0, <1>1 DEF Without
<1>. HIDE DEF t
<1>5. ListedOnce(n - 1, t) /\ \A j \in 1..n - 1 : t[j] # s[i]
  BY <1>0, <1>1, <1>2, <1>4 DEF ListedOnce
<1>6. \A r \in 1..n : r # i => After(r, i) \in 1..n - 1 /\ t[After(r, i)] = s[r]
  BY <1>3, <1>4
<1>7. With(n - 1, t, i, s[i]) = s
  <2>1. With(n - 1, t, i, s[i]) = [j \in 1..n |-> IF j = i THEN s[i] ELSE t[After(j, i)]]
    BY <1>0 DEF With
  <2>2. \A j \in 1..n : (IF j = i THEN s[i] ELSE t[After(j, i)]) = s[j]
    BY <1>6
  <2>3. s = [j \in 1..n |-> s[j]]
    BY <1>0
  <2>. QED BY <2>1, <2>2, <2>3
<1>. QED BY <1>0, <1>1, <1>4, <1>5, <1>6, <1>7 DEF t, Listing

PutIn(P, n, s, i, e, t) ==
  /\ Listing(P, n + 1, t) /\ t[i] = e
  /\ \A r \in 1..n : Before(r, i) \in 1..n + 1 /\ t[Before(r, i)] = s[r]
  /\ Without(n + 1, t, i) = s

LEMMA WithFact ==
  ASSUME NEW P, NEW n, NEW s, Listing(P, n, s), NEW i \in 1..n + 1,
         NEW e \in P, \A j \in 1..n : s[j] # e
  PROVE  PutIn(P, n, s, i, e, With(n, s, i, e))
<1>. DEFINE t == With(n, s, i, e)
<1>0. n \in Nat /\ s \in [1..n -> P] /\ ListedOnce(n, s)
  BY DEF Listing
<1>1. n + 1 \in Nat /\ \A j \in 1..n + 1 : j # i => After(j, i) \in 1..n
  BY <1>0 DEF After
<1>2. \A j, k \in 1..n + 1 : j # i /\ k # i /\ After(j, i) = After(k, i) => j = k
  BY <1>0 DEF After
<1>3. \A r \in 1..n : Before(r, i) \in 1..n + 1 /\ Before(r, i) # i /\ After(Before(r, i), i) = r
  BY <1>0 DEF After, Before
<1>4. /\ t \in [1..n + 1 -> P]
      /\ \A j \in 1..n + 1 : t[j] = IF j = i THEN e ELSE s[After(j, i)]
  BY <1>0, <1>1 DEF With
<1>. HIDE DEF t
<1>5. ListedOnce(n + 1, t)
  BY <1>0, <1>1, <1>2, <1>4 DEF ListedOnce
<1>6. t[i] = e /\ \A r \in 1..n : Before(r, i) \in 1..n + 1 /\ t[Before(r, i)] = s[r]
  BY <1>3, <1>4
<1>7. Without(n + 1, t, i) = s
  <2>1. Without(n + 1, t, i) = [j \in 1..n |-> t[Before(j, i)]]
    BY <1>0 DEF Without
  <2>2. \A j \in 1..n : t[Before(j, i)] = s[j]
    BY <1>6
  <2>3. s = [j \in 1..n |-> s[j]]
    BY <1>0
  <2>. QED BY <2>1, <2>2, <2>3
<1>. QED BY <1>0, <1>1, <1>4, <1>5, <1>6, <1>7 DEF t, Listing, PutIn

(* What is named where.                                                     *)
LEMMA RankingFactOf ==
  ASSUME NEW P, NEW n, NEW s, Listing(P, n, s), NEW T
  PROVE  /\ NamedOnce(s) /\ Len(s) = n /\ NewSheet(s, T).ranking = s /\ NewSheet(s, T).tiers = T
         /\ Ranked(NewSheet(s, T)) = {s[r] : r \in 1..n}
         /\ \A r \in 1..n : RankOf(NewSheet(s, T), s[r]) = r
<1>. DEFINE names == {s[r] : r \in 1..n}
<1>0. n \in Nat /\ s \in [1..n -> P] /\ ListedOnce(n, s)
  BY DEF Listing
<1>1. s \in Seq(P) /\ Len(s) = n /\ DOMAIN s = 1..n
  BY <1>0
<1>2. NewSheet(s, T).ranking = s /\ NewSheet(s, T).tiers = T
  BY DEF NewSheet
<1>3. ToSet(s) = names
  BY <1>1 DEF ToSet
<1>4. Cardinality(names) = n
  <2>1. s \in [1..n -> names]
    BY <1>0
  <2>2. \A x \in names : \E r \in 1..n : s[r] = x
    OBVIOUS
  <2>. HIDE DEF names
  <2>3. s \in Bijection(1..n, names)
    BY <1>0, <2>1, <2>2, Zenon DEF Bijection, Injection, Surjection, IsInjective, ListedOnce
  <2>4. ExistsBijection(1..n, names)
    BY <2>3 DEF ExistsBijection
  <2>. QED BY <1>0, <2>4, FS_CountingElements
<1>5. NamedOnce(s)
  BY <1>1, <1>3, <1>4 DEF NamedOnce
<1>6. \A r \in 1..n : RankOf(NewSheet(s, T), s[r]) = r
  <2>. TAKE r \in 1..n
  <2>1. RankOf(NewSheet(s, T), s[r]) = CHOOSE i \in 1..n : s[i] = s[r]
    BY <1>1, <1>2 DEF RankOf
  <2>2. \A i \in 1..n : s[i] = s[r] => i = r
    BY <1>0 DEF ListedOnce
  <2>. QED BY <2>1, <2>2
<1>. QED BY <1>1, <1>2, <1>3, <1>5, <1>6 DEF Ranked

(* What an edit keeps of the others: their order, and who shares a tier.     *)
KeepsOrder(sheet, edited, others) ==
  \A p, q \in others : RankOf(sheet, p) < RankOf(sheet, q) <=> RankOf(edited, p) < RankOf(edited, q)

TierOf(sheet, p) == TierOfRank(RankOf(sheet, p), sheet.tiers)
KeepsTiers(sheet, edited, others) ==
  \A p, q \in others : TierOf(sheet, p) = TierOf(sheet, q) <=> TierOf(edited, p) = TierOf(edited, q)

TakenOut(n, s, T, i, edited) ==
  LET sheet == NewSheet(s, T)
  IN  /\ KeepsOrder(sheet, edited, Ranked(sheet) \ {s[i]})
      /\ Ranked(edited) = Ranked(sheet) \ {s[i]}
      /\ \A r \in 1..n : r # i => RankOf(edited, s[r]) = After(r, i)

LEMMA RemovedOrder ==
  ASSUME NEW P, NEW n, NEW s, Listing(P, n, s), NEW T, NEW U, NEW i \in 1..n
  PROVE  TakenOut(n, s, T, i, NewSheet(Without(n, s, i), U))
<1>. DEFINE t == Without(n, s, i)
            sheet == NewSheet(s, T)
            edited == NewSheet(t, U)
<1>1. /\ Listing(P, n - 1, t) /\ \A j \in 1..n - 1 : t[j] # s[i]
      /\ \A r \in 1..n : r # i => After(r, i) \in 1..n - 1 /\ t[After(r, i)] = s[r]
  BY WithoutFact
<1>2. /\ Ranked(sheet) = {s[r] : r \in 1..n}
      /\ \A r \in 1..n : RankOf(sheet, s[r]) = r
  BY RankingFactOf
<1>0. n \in Nat
  BY DEF Listing
<1>3. \A j \in 1..n - 1 : t[j] = s[Before(j, i)] /\ Before(j, i) \in 1..n
  BY <1>0 DEF Without, Before
<1>. HIDE DEF t
<1>4. /\ Ranked(edited) = {t[r] : r \in 1..n - 1}
      /\ \A r \in 1..n - 1 : RankOf(edited, t[r]) = r
  <2>. HIDE DEF edited
  <2>. QED BY <1>1, RankingFactOf DEF edited
<1>. HIDE DEF sheet, edited
<1>5. \A r \in 1..n : r # i => RankOf(edited, s[r]) = After(r, i)
  BY <1>1, <1>4
<1>6. Ranked(edited) = Ranked(sheet) \ {s[i]}
  <2>1. \A p \in Ranked(edited) : p \in Ranked(sheet) /\ p # s[i]
    BY <1>1, <1>2, <1>3, <1>4
  <2>2. ASSUME NEW p \in Ranked(sheet), p # s[i] PROVE p \in Ranked(edited)
    <3>1. PICK r \in 1..n : p = s[r]
      BY <1>2
    <3>2. r # i
      BY <2>2, <3>1
    <3>3. t[After(r, i)] = p /\ After(r, i) \in 1..n - 1
      BY <1>1, <3>1, <3>2
    <3>. QED BY <1>4, <3>3
  <2>. QED BY <2>1, <2>2
<1>7. KeepsOrder(sheet, edited, Ranked(sheet) \ {s[i]})
  <2>. SUFFICES ASSUME NEW p \in Ranked(sheet) \ {s[i]}, NEW q \in Ranked(sheet) \ {s[i]}
                PROVE  RankOf(sheet, p) < RankOf(sheet, q) <=> RankOf(edited, p) < RankOf(edited, q)
    BY DEF KeepsOrder
  <2>1. PICK a \in 1..n : p = s[a]
    BY <1>2
  <2>2. PICK b \in 1..n : q = s[b]
    BY <1>2
  <2>3. a # i /\ b # i
    BY <2>1, <2>2
  <2>4. After(a, i) < After(b, i) <=> a < b
    BY <1>0, <2>3 DEF After
  <2>. QED BY <1>2, <1>5, <2>1, <2>2, <2>3, <2>4
<1>. QED BY <1>5, <1>6, <1>7 DEF TakenOut, t, sheet, edited

PutBetween(n, s, T, i, edited) ==
  LET sheet == NewSheet(s, T)
  IN  /\ KeepsOrder(sheet, edited, Ranked(sheet))
      /\ \A r \in 1..n : RankOf(edited, s[r]) = Before(r, i)

LEMMA InsertedOrder ==
  ASSUME NEW P, NEW n, NEW s, Listing(P, n, s), NEW T, NEW U,
         NEW i \in 1..n + 1, NEW e \in P, \A j \in 1..n : s[j] # e
  PROVE  PutBetween(n, s, T, i, NewSheet(With(n, s, i, e), U))
<1>. DEFINE t == With(n, s, i, e)
            sheet == NewSheet(s, T)
            edited == NewSheet(t, U)
            m == n + 1
<1>0. n \in Nat
  BY DEF Listing
<1>1. /\ Listing(P, m, t) /\ t[i] = e /\ i \in 1..m
      /\ \A r \in 1..n : Before(r, i) \in 1..m /\ t[Before(r, i)] = s[r]
  <2>1. PutIn(P, n, s, i, e, t)
    BY WithFact
  <2>. HIDE DEF t
  <2>. QED BY <2>1 DEF PutIn
<1>2. /\ Ranked(sheet) = {s[r] : r \in 1..n}
      /\ \A r \in 1..n : RankOf(sheet, s[r]) = r
  BY RankingFactOf
<1>. HIDE DEF t, m
<1>3. \A r \in 1..m : RankOf(edited, t[r]) = r
  BY <1>1, RankingFactOf
<1>. HIDE DEF sheet, edited
<1>4. \A r \in 1..n : RankOf(edited, s[r]) = Before(r, i)
  BY <1>1, <1>3
<1>5. KeepsOrder(sheet, edited, Ranked(sheet))
  <2>. SUFFICES ASSUME NEW p \in Ranked(sheet), NEW q \in Ranked(sheet)
                PROVE  RankOf(sheet, p) < RankOf(sheet, q) <=> RankOf(edited, p) < RankOf(edited, q)
    BY DEF KeepsOrder
  <2>1. PICK a \in 1..n : p = s[a]
    BY <1>2
  <2>2. PICK b \in 1..n : q = s[b]
    BY <1>2
  <2>3. Before(a, i) < Before(b, i) <=> a < b
    BY <1>0 DEF Before
  <2>. QED BY <1>2, <1>4, <2>1, <2>2, <2>3
<1>. QED BY <1>4, <1>5 DEF PutBetween, t, sheet, edited

(* Two ranks share a tier unless a break lies between them.                 *)
BreakBetween(T, a, b) == \E brk \in T : a <= brk /\ brk < b

LEMMA TierFact ==
  ASSUME NEW n \in Nat, NEW T \in SUBSET (1..n), NEW a \in Nat, NEW b \in Nat, a <= b
  PROVE  TierOfRank(a, T) = TierOfRank(b, T) <=> ~BreakBetween(T, a, b)
<1>. DEFINE A == {brk \in T : a > brk}
            B == {brk \in T : b > brk}
<1>1. TierOfRank(a, T) = 1 + Cardinality(A) /\ TierOfRank(b, T) = 1 + Cardinality(B)
  BY Zenon DEF TierOfRank
<1>0. \A brk \in T : brk \in Nat
  OBVIOUS
<1>2. A \in SUBSET B /\ B \in SUBSET T
  <2>1. \A brk \in T : a > brk => b > brk
    BY <1>0
  <2>2. A \subseteq B /\ B \subseteq T
    BY <2>1
  <2>. HIDE DEF A, B
  <2>. QED BY <2>2
<1>3. A = B <=> ~BreakBetween(T, a, b)
  <2>1. \A brk \in T : brk \in B /\ brk \notin A <=> a <= brk /\ brk < b
    BY <1>0
  <2>. HIDE DEF A, B
  <2>. QED BY <1>2, <2>1 DEF BreakBetween
<1>. HIDE DEF A, B
<1>4. IsFiniteSet(B)
  <2>1. 1 \in Int /\ n \in Int
    OBVIOUS
  <2>2. IsFiniteSet(1..n)
    BY <2>1, FS_Interval
  <2>. QED BY <1>2, <2>2, FS_Subset
<1>5. /\ Cardinality(A) \in Nat /\ Cardinality(B) \in Nat
      /\ Cardinality(B) = Cardinality(A) => B = A
  <2>1. IsFiniteSet(A) /\ (Cardinality(B) = Cardinality(A) => B = A)
    BY <1>2, <1>4, FS_Subset
  <2>. QED BY <1>4, <2>1, FS_CardinalityType
<1>. QED BY <1>1, <1>3, <1>5

RemovedBreaks(T, i, n) == TidyBreaks({IF brk >= i THEN brk - 1 ELSE brk : brk \in T}, n - 1)
InsertedBreaks(T, i, n) == TidyBreaks({IF brk >= i THEN brk + 1 ELSE brk : brk \in T}, n + 1)

LEMMA RemovedBreaksFact ==
  ASSUME NEW n \in Nat, NEW T \in SUBSET (1..n - 1), NEW i \in 1..n
  PROVE  /\ RemovedBreaks(T, i, n) \subseteq 1..n - 2
         /\ \A a, b \in 1..n : a # i /\ b # i /\ a < b =>
              (BreakBetween(T, a, b) <=> BreakBetween(RemovedBreaks(T, i, n), After(a, i), After(b, i)))
<1>. DEFINE U == RemovedBreaks(T, i, n)
            to(brk) == IF brk >= i THEN brk - 1 ELSE brk
<1>1. \A x : x \in U <=> (\E brk \in T : x = to(brk)) /\ x > 0 /\ x < n - 1
  BY Zenon DEF RemovedBreaks, TidyBreaks
<1>2. \A brk \in T : brk \in 1..n - 1 /\ to(brk) \in Int
  OBVIOUS
<1>3. U \subseteq 1..n - 2
  BY <1>1, <1>2
<1>. HIDE DEF U
<1>4. ASSUME NEW a \in 1..n, NEW b \in 1..n, a # i, b # i, a < b
      PROVE  BreakBetween(T, a, b) <=> BreakBetween(U, After(a, i), After(b, i))
  <2>1. ASSUME NEW brk \in T, a <= brk, brk < b
        PROVE  /\ to(brk) > 0 /\ to(brk) < n - 1 /\ After(a, i) <= to(brk) /\ to(brk) < After(b, i)
    BY <1>2, <1>4, <2>1 DEF After
  <2>2. ASSUME NEW brk \in T, After(a, i) <= to(brk), to(brk) < After(b, i)
        PROVE  a <= brk /\ brk < b
    BY <1>2, <1>4, <2>2 DEF After
  <2>3. ASSUME BreakBetween(T, a, b) PROVE BreakBetween(U, After(a, i), After(b, i))
    <3>1. PICK brk \in T : a <= brk /\ brk < b
      BY <2>3 DEF BreakBetween
    <3>. DEFINE x == to(brk)
    <3>2. x \in U /\ After(a, i) <= x /\ x < After(b, i)
      BY <1>1, <2>1, <3>1
    <3>. HIDE DEF x
    <3>. QED BY <3>2 DEF BreakBetween
  <2>4. ASSUME BreakBetween(U, After(a, i), After(b, i)) PROVE BreakBetween(T, a, b)
    <3>1. PICK x \in U : After(a, i) <= x /\ x < After(b, i)
      BY <2>4 DEF BreakBetween
    <3>2. PICK brk \in T : x = to(brk)
      BY <1>1, <3>1
    <3>3. a <= brk /\ brk < b
      BY <2>2, <3>1, <3>2
    <3>. QED BY <3>3 DEF BreakBetween
  <2>. QED BY <2>3, <2>4
<1>. QED BY <1>3, <1>4 DEF U

LEMMA InsertedBreaksFact ==
  ASSUME NEW n \in Nat, NEW T \in SUBSET (1..n - 1), NEW i \in 1..n + 1
  PROVE  /\ InsertedBreaks(T, i, n) \subseteq 1..n
         /\ \A a, b \in 1..n : a < b =>
              (BreakBetween(T, a, b) <=> BreakBetween(InsertedBreaks(T, i, n), Before(a, i), Before(b, i)))
<1>. DEFINE U == InsertedBreaks(T, i, n)
            to(brk) == IF brk >= i THEN brk + 1 ELSE brk
<1>1. \A x : x \in U <=> (\E brk \in T : x = to(brk)) /\ x > 0 /\ x < n + 1
  BY Zenon DEF InsertedBreaks, TidyBreaks
<1>2. \A brk \in T : brk \in 1..n - 1 /\ to(brk) \in Int
  OBVIOUS
<1>3. U \subseteq 1..n
  BY <1>1, <1>2
<1>. HIDE DEF U
<1>4. ASSUME NEW a \in 1..n, NEW b \in 1..n, a < b
      PROVE  BreakBetween(T, a, b) <=> BreakBetween(U, Before(a, i), Before(b, i))
  <2>1. ASSUME NEW brk \in T, a <= brk, brk < b
        PROVE  /\ to(brk) > 0 /\ to(brk) < n + 1 /\ Before(a, i) <= to(brk) /\ to(brk) < Before(b, i)
    BY <1>2, <1>4, <2>1 DEF Before
  <2>2. ASSUME NEW brk \in T, Before(a, i) <= to(brk), to(brk) < Before(b, i)
        PROVE  a <= brk /\ brk < b
    BY <1>2, <1>4, <2>2 DEF Before
  <2>3. ASSUME BreakBetween(T, a, b) PROVE BreakBetween(U, Before(a, i), Before(b, i))
    <3>1. PICK brk \in T : a <= brk /\ brk < b
      BY <2>3 DEF BreakBetween
    <3>. DEFINE x == to(brk)
    <3>2. x \in U /\ Before(a, i) <= x /\ x < Before(b, i)
      BY <1>1, <2>1, <3>1
    <3>. HIDE DEF x
    <3>. QED BY <3>2 DEF BreakBetween
  <2>4. ASSUME BreakBetween(U, Before(a, i), Before(b, i)) PROVE BreakBetween(T, a, b)
    <3>1. PICK x \in U : Before(a, i) <= x /\ x < Before(b, i)
      BY <2>4 DEF BreakBetween
    <3>2. PICK brk \in T : x = to(brk)
      BY <1>1, <3>1
    <3>3. a <= brk /\ brk < b
      BY <2>2, <3>1, <3>2
    <3>. QED BY <3>3 DEF BreakBetween
  <2>. QED BY <2>3, <2>4
<1>. QED BY <1>3, <1>4 DEF U

(* Where breaks and ranks go together, so do the tiers.                     *)
GoTogether(n, T, U, others, to) ==
  /\ n \in Nat /\ T \subseteq 1..n /\ U \subseteq 1..n
  /\ others \subseteq 1..n /\ to \in [others -> Nat]
  /\ \A a, b \in others : a < b => /\ to[a] < to[b]
                                   /\ BreakBetween(T, a, b) <=> BreakBetween(U, to[a], to[b])

StandAt(sheet, edited, s, others, to) ==
  \A r \in others : RankOf(sheet, s[r]) = r /\ RankOf(edited, s[r]) = to[r]

NamesAt(s, ranks) == {s[r] : r \in ranks}

LEMMA SameTiers ==
  ASSUME NEW n, NEW others, NEW to, NEW s, NEW sheet, NEW edited,
         StandAt(sheet, edited, s, others, to), GoTogether(n, sheet.tiers, edited.tiers, others, to)
  PROVE  KeepsTiers(sheet, edited, NamesAt(s, others))
<1>. DEFINE T == sheet.tiers
            U == edited.tiers
<1>0. /\ n \in Nat /\ T \in SUBSET (1..n) /\ U \in SUBSET (1..n)
      /\ others \subseteq 1..n /\ to \in [others -> Nat]
  BY DEF GoTogether
<1>1. ASSUME NEW a \in others, NEW b \in others, a < b
      PROVE  TierOf(sheet, s[a]) = TierOf(sheet, s[b]) <=> TierOf(edited, s[a]) = TierOf(edited, s[b])
  <2>1. /\ TierOf(sheet, s[a]) = TierOfRank(a, T) /\ TierOf(sheet, s[b]) = TierOfRank(b, T)
        /\ TierOf(edited, s[a]) = TierOfRank(to[a], U) /\ TierOf(edited, s[b]) = TierOfRank(to[b], U)
    BY DEF TierOf, StandAt
  <2>2. /\ to[a] < to[b]
        /\ BreakBetween(T, a, b) <=> BreakBetween(U, to[a], to[b])
    BY <1>1 DEF GoTogether
  <2>. HIDE DEF T, U
  <2>3. a \in Nat /\ b \in Nat /\ a <= b
    BY <1>0, <1>1
  <2>4. to[a] \in Nat /\ to[b] \in Nat /\ to[a] <= to[b]
    BY <1>0, <2>2
  <2>5. TierOfRank(a, T) = TierOfRank(b, T) <=> ~BreakBetween(T, a, b)
    BY <1>0, <2>3, TierFact
  <2>6. TierOfRank(to[a], U) = TierOfRank(to[b], U) <=> ~BreakBetween(U, to[a], to[b])
    BY <1>0, <2>4, TierFact
  <2>. QED BY Zenon, <2>1, <2>2, <2>5, <2>6
<1>. HIDE DEF T, U
<1>2. ASSUME NEW a \in others, NEW b \in others
      PROVE  TierOf(sheet, s[a]) = TierOf(sheet, s[b]) <=> TierOf(edited, s[a]) = TierOf(edited, s[b])
  <2>1. a < b \/ a = b \/ b < a
    BY <1>0
  <2>. QED BY <1>1, <2>1
<1>. QED BY Zenon, <1>2 DEF KeepsTiers, NamesAt

(* What a removal and a return leave of the breaks away from the player.    *)
LEMMA BreaksComeBack ==
  ASSUME NEW n \in Nat, NEW T \in SUBSET (1..n - 1), NEW i \in 1..n, {i - 1, i} \cap T = {}
  PROVE  InsertedBreaks(RemovedBreaks(T, i, n), i, n - 1) = T
<1>. DEFINE U == RemovedBreaks(T, i, n)
            W == InsertedBreaks(U, i, n - 1)
            down(brk) == IF brk >= i THEN brk - 1 ELSE brk
            up(brk) == IF brk >= i THEN brk + 1 ELSE brk
<1>1. \A x : x \in U <=> (\E brk \in T : x = down(brk)) /\ x > 0 /\ x < n - 1
  BY Zenon DEF RemovedBreaks, TidyBreaks
<1>2. \A x : x \in W <=> (\E brk \in U : x = up(brk)) /\ x > 0 /\ x < n - 1 + 1
  BY Zenon DEF InsertedBreaks, TidyBreaks
<1>3. \A brk \in T : /\ brk \in 1..n - 1 /\ brk # i /\ brk # i - 1
                     /\ up(down(brk)) = brk /\ down(brk) > 0 /\ down(brk) < n - 1
  <2>1. \A brk \in T : brk \in 1..n - 1 /\ brk # i /\ brk # i - 1
    OBVIOUS
  <2>. QED BY <2>1
<1>. HIDE DEF U, W
<1>4. ASSUME NEW x \in W PROVE x \in T
  <2>1. PICK y \in U : x = up(y)
    BY <1>2
  <2>2. PICK brk \in T : y = down(brk)
    BY <1>1
  <2>. QED BY <1>3, <2>1, <2>2
<1>5. ASSUME NEW x \in T PROVE x \in W
  <2>. DEFINE y == down(x)
  <2>1. y \in U /\ x = up(y) /\ x > 0 /\ x < n - 1 + 1
    BY <1>1, <1>3
  <2>. HIDE DEF y
  <2>. QED BY <1>2, <2>1
<1>6. W = T
  BY <1>4, <1>5
<1>. QED BY <1>6 DEF U, W

(* What every edit keeps: everybody on the sheet once, breaks inside it, and *)
(* the others in their order.                                                *)
Kept(sheet, edited, moved) ==
  /\ NamedOnce(edited.ranking) /\ edited.tiers \subseteq 1..Len(edited.ranking) - 1
  /\ KeepsOrder(sheet, edited, Ranked(sheet) \ moved)

LEMMA UneditedFact ==
  ASSUME NEW P, NEW n, NEW s, Listing(P, n, s), NEW T \in SUBSET (1..n - 1), NEW moved
  PROVE  LET sheet == NewSheet(s, T)
         IN  Kept(sheet, sheet, moved) /\ KeepsTiers(sheet, sheet, Ranked(sheet) \ moved)
<1>. DEFINE sheet == NewSheet(s, T)
<1>1. NamedOnce(s) /\ Len(s) = n /\ sheet.ranking = s /\ sheet.tiers = T
  BY RankingFactOf
<1>. HIDE DEF sheet
<1>2. Kept(sheet, sheet, moved)
  BY <1>1 DEF Kept, KeepsOrder
<1>3. KeepsTiers(sheet, sheet, Ranked(sheet) \ moved)
  BY DEF KeepsTiers
<1>. QED BY <1>2, <1>3 DEF sheet

LEMMA FoundFact ==
  ASSUME NEW P, NEW n, NEW s, Listing(P, n, s), NEW T, NEW player,
         player \in Ranked(NewSheet(s, T))
  PROVE  \E r \in 1..n : s[r] = player /\ RankOf(NewSheet(s, T), player) = r
<1>1. /\ Ranked(NewSheet(s, T)) = {s[r] : r \in 1..n}
      /\ \A r \in 1..n : RankOf(NewSheet(s, T), s[r]) = r
  BY RankingFactOf
<1>2. PICK r \in 1..n : player = s[r]
  BY <1>1
<1>. QED BY <1>1, <1>2

(* A move.                                                                  *)
Moved(n, s, r, to) == With(n - 1, Without(n, s, r), to, s[r])

MovesTo(P, n, s, T, r, to, t) ==
  /\ MoveTo(NewSheet(s, T), s[r], to) = NewSheet(t, T)
  /\ Listing(P, n, t) /\ t[to] = s[r] /\ Without(n, t, to) = Without(n, s, r)
  /\ KeepsOrder(NewSheet(s, T), NewSheet(t, T), Ranked(NewSheet(s, T)) \ {s[r]})

LEMMA MoveFact ==
  ASSUME NEW P, NEW n, NEW s, Listing(P, n, s), NEW T, NEW r \in 1..n, NEW to \in 1..n
  PROVE  MovesTo(P, n, s, T, r, to, Moved(n, s, r, to))
<1>. DEFINE sheet == NewSheet(s, T)
            u == Without(n, s, r)
            m == n - 1
            e == s[r]
            t == With(m, u, to, e)
            edited == NewSheet(t, T)
            between == NewSheet(u, T)
<1>0. n \in Nat /\ s \in [1..n -> P] /\ e \in P
  BY DEF Listing
<1>1. Listing(P, m, u) /\ \A j \in 1..m : u[j] # e
  BY WithoutFact
<1>2. m \in Nat /\ u \in [1..m -> P] /\ to \in 1..m + 1 /\ m + 1 = n
  BY <1>0, <1>1 DEF Listing
<1>3. RemoveAt(s, r) = u
  BY <1>0, RemoveFact
<1>4. /\ sheet.ranking = s /\ sheet.tiers = T /\ RankOf(sheet, e) = r /\ e \in Ranked(sheet)
      /\ DOMAIN s = 1..n
  BY <1>0, RankingFactOf
<1>5. KeepsOrder(sheet, between, Ranked(sheet) \ {e}) /\ Ranked(between) = Ranked(sheet) \ {e}
  <2>1. TakenOut(n, s, T, r, between)
    BY RemovedOrder
  <2>. QED BY <2>1 DEF TakenOut
<1>. HIDE DEF e, u, sheet, between, m
<1>6. InsertAt(u, to, e) = t
  BY <1>0, <1>2, InsertFact
<1>7. Listing(P, m + 1, t) /\ t[to] = e /\ Without(m + 1, t, to) = u
  <2>1. PutIn(P, m, u, to, e, t)
    BY <1>0, <1>1, <1>2, WithFact
  <2>. HIDE DEF t
  <2>. QED BY <2>1 DEF PutIn
<1>8. KeepsOrder(between, edited, Ranked(between))
  <2>1. PutBetween(m, u, T, to, edited)
    BY <1>0, <1>1, <1>2, InsertedOrder
  <2>. HIDE DEF edited
  <2>. QED BY <2>1 DEF PutBetween, between
<1>. HIDE DEF t
<1>9. MoveTo(sheet, e, to) = edited
  BY <1>3, <1>4, <1>6 DEF MoveTo
<1>. HIDE DEF edited
<1>10. KeepsOrder(sheet, edited, Ranked(sheet) \ {e})
  BY <1>5, <1>8 DEF KeepsOrder
<1>11. Moved(n, s, r, to) = t
  BY DEF Moved, t, m, u, e
<1>. QED BY <1>2, <1>7, <1>9, <1>10, <1>11 DEF MovesTo, sheet, edited, e, u

LEMMA MoveKeeps ==
  ASSUME NEW P, NEW n, NEW s, Listing(P, n, s), NEW T \in SUBSET (1..n - 1), NEW player, NEW to
  PROVE  Kept(NewSheet(s, T), MoveTo(NewSheet(s, T), player, to), {player})
<1>. DEFINE sheet == NewSheet(s, T)
<1>1. sheet.ranking = s /\ DOMAIN s = 1..n
  BY RankingFactOf DEF Listing
<1>2. CASE player \notin Ranked(sheet) \/ to \notin DOMAIN sheet.ranking
  <2>1. MoveTo(sheet, player, to) = sheet
    BY <1>2 DEF MoveTo
  <2>. QED BY <2>1, UneditedFact
<1>3. CASE player \in Ranked(sheet) /\ to \in DOMAIN sheet.ranking
  <2>1. PICK r \in 1..n : s[r] = player
    BY <1>3, FoundFact
  <2>2. to \in 1..n
    BY <1>1, <1>3
  <2>. DEFINE t == Moved(n, s, r, to)
              edited == NewSheet(t, T)
  <2>3. /\ MoveTo(sheet, s[r], to) = edited /\ Listing(P, n, t)
        /\ KeepsOrder(sheet, edited, Ranked(sheet) \ {s[r]})
    <3>1. MovesTo(P, n, s, T, r, to, t)
      BY <2>2, MoveFact
    <3>. HIDE DEF t
    <3>. QED BY <3>1 DEF MovesTo
  <2>. HIDE DEF t
  <2>4. NamedOnce(t) /\ Len(t) = n /\ edited.ranking = t /\ edited.tiers = T
    BY <2>3, RankingFactOf
  <2>. HIDE DEF edited, sheet
  <2>5. Kept(sheet, edited, {player})
    BY <2>1, <2>3, <2>4 DEF Kept
  <2>. QED BY <2>1, <2>3, <2>5 DEF sheet
<1>. QED BY <1>2, <1>3

(* Two nudges.                                                              *)
LEMMA NudgeTwice ==
  ASSUME NEW P, NEW n, NEW s, Listing(P, n, s), NEW T, NEW player, NEW by \in Int
  PROVE  LET sheet == NewSheet(s, T)
         IN  Nudge(Nudge(sheet, player, by), player, by) = Nudge(sheet, player, 2 * by)
<1>. DEFINE sheet == NewSheet(s, T)
<1>1. CASE player \notin Ranked(sheet)
  BY <1>1 DEF Nudge
<1>2. CASE player \in Ranked(sheet)
  <2>1. PICK r \in 1..n : s[r] = player /\ RankOf(sheet, player) = r
    BY <1>2, FoundFact
  <2>2. sheet.ranking = s /\ Len(s) = n /\ n \in Nat
    BY RankingFactOf DEF Listing
  <2>. DEFINE a == Clamped(r + by, 1, n)
              b == Clamped(a + by, 1, n)
              t == Moved(n, s, r, a)
              edited == NewSheet(t, T)
  <2>3. a \in 1..n /\ b \in 1..n /\ b = Clamped(r + 2 * by, 1, n)
    BY <2>1, <2>2 DEF Clamped
  <2>4. Nudge(sheet, player, by) = MoveTo(sheet, player, a)
    BY <1>2, <2>1, <2>2 DEF Nudge
  <2>5. Nudge(sheet, player, 2 * by) = MoveTo(sheet, player, b)
    BY <1>2, <2>1, <2>2, <2>3 DEF Nudge
  <2>. HIDE DEF a, b, t
  <2>6. /\ MoveTo(sheet, player, a) = edited /\ Listing(P, n, t) /\ t[a] = player
        /\ Without(n, t, a) = Without(n, s, r)
    <3>1. MovesTo(P, n, s, T, r, a, t)
      BY <2>3, MoveFact DEF t
    <3>. QED BY <2>1, <3>1 DEF MovesTo
  <2>7. MoveTo(sheet, player, b) = NewSheet(Moved(n, s, r, b), T)
    <3>1. MovesTo(P, n, s, T, r, b, Moved(n, s, r, b))
      BY <2>3, MoveFact
    <3>. QED BY <2>1, <3>1 DEF MovesTo
  <2>8. /\ edited.ranking = t /\ Len(t) = n /\ RankOf(edited, t[a]) = a
        /\ t[a] \in Ranked(edited)
    BY <2>3, <2>6, RankingFactOf
  <2>9. Nudge(edited, player, by) = MoveTo(edited, player, b)
    BY <2>6, <2>8 DEF Nudge, b
  <2>10. MoveTo(edited, t[a], b) = NewSheet(Moved(n, t, a, b), T)
    <3>1. MovesTo(P, n, t, T, a, b, Moved(n, t, a, b))
      BY <2>3, <2>6, MoveFact
    <3>. QED BY <3>1 DEF MovesTo
  <2>11. Moved(n, t, a, b) = Moved(n, s, r, b)
    BY <2>1, <2>6 DEF Moved
  <2>. QED BY <2>4, <2>5, <2>6, <2>7, <2>9, <2>10, <2>11
<1>. QED BY <1>1, <1>2

(* A removal, and the way back.                                             *)
RemovalKeeps(sheet, edited, player) ==
  LET rank == RankOf(sheet, player)
      back == PutBack(edited, player, rank)
  IN  /\ Kept(sheet, edited, {player})
      /\ KeepsTiers(sheet, edited, Ranked(sheet) \ {player})
      /\ player \in Ranked(sheet) =>
           back.ranking = sheet.ranking /\ ({rank - 1, rank} \cap sheet.tiers = {} => back = sheet)

LEMMA RemoveKeeps ==
  ASSUME NEW P, NEW n, NEW s, Listing(P, n, s), NEW T \in SUBSET (1..n - 1), NEW player
  PROVE  RemovalKeeps(NewSheet(s, T), RemoveFromSheet(NewSheet(s, T), player), player)
<1>. DEFINE sheet == NewSheet(s, T)
<1>0. n \in Nat /\ s \in [1..n -> P]
  BY DEF Listing
<1>1. CASE player \notin Ranked(sheet)
  <2>1. RemoveFromSheet(sheet, player) = sheet
    BY <1>1 DEF RemoveFromSheet
  <2>2. Kept(sheet, sheet, {player}) /\ KeepsTiers(sheet, sheet, Ranked(sheet) \ {player})
    BY UneditedFact
  <2>. HIDE DEF sheet
  <2>3. RemovalKeeps(sheet, sheet, player)
    BY <1>1, <2>2 DEF RemovalKeeps
  <2>. QED BY <2>1, <2>3 DEF sheet
<1>2. CASE player \in Ranked(sheet)
  <2>1. PICK i \in 1..n : s[i] = player /\ RankOf(sheet, player) = i
    BY <1>2, FoundFact
  <2>. DEFINE t == Without(n, s, i)
              U == RemovedBreaks(T, i, n)
              edited == NewSheet(t, U)
              m == n - 1
              others == 1..n \ {i}
              to == [r \in others |-> After(r, i)]
  <2>2. /\ sheet.ranking = s /\ sheet.tiers = T /\ Len(s) = n /\ Ranked(sheet) = {s[r] : r \in 1..n}
        /\ \A r \in 1..n : RankOf(sheet, s[r]) = r
    BY RankingFactOf
  <2>3. Listing(P, m, t) /\ With(m, t, i, player) = s /\ (\A j \in 1..m : t[j] # player)
    BY <2>1, WithoutFact
  <2>4. RemoveAt(s, i) = t
    BY <1>0, RemoveFact
  <2>5. /\ KeepsOrder(sheet, edited, Ranked(sheet) \ {player})
        /\ \A r \in others : RankOf(edited, s[r]) = After(r, i)
    <3>1. TakenOut(n, s, T, i, edited)
      BY RemovedOrder
    <3>. HIDE DEF edited
    <3>. QED BY <2>1, <3>1 DEF TakenOut
  <2>6. /\ U \subseteq 1..n - 2
        /\ \A a, b \in others : a < b => (BreakBetween(T, a, b) <=> BreakBetween(U, After(a, i), After(b, i)))
    <3>1. /\ U \subseteq 1..n - 2
          /\ \A a, b \in 1..n : a # i /\ b # i /\ a < b =>
               (BreakBetween(T, a, b) <=> BreakBetween(U, After(a, i), After(b, i)))
      BY <1>0, RemovedBreaksFact
    <3>. HIDE DEF U
    <3>. QED BY <3>1
  <2>. HIDE DEF t, sheet
  <2>7. RemoveFromSheet(sheet, player) = edited
    <3>1. RemoveFromSheet(sheet, player)
            = NewSheet(RemoveAt(sheet.ranking, RankOf(sheet, player)),
                       RemovedBreaks(sheet.tiers, RankOf(sheet, player), Len(sheet.ranking)))
      BY <1>2, Zenon DEF RemoveFromSheet, RemovedBreaks
    <3>. QED BY <2>1, <2>2, <2>4, <3>1
  <2>8. m \in Nat /\ m + 1 = n /\ m - 1 = n - 2
    BY <1>0, <2>1
  <2>9. NamedOnce(t) /\ Len(t) = m /\ edited.ranking = t /\ edited.tiers = U
        /\ Ranked(edited) = {t[r] : r \in 1..m}
    BY <2>3, RankingFactOf
  <2>. HIDE DEF U, edited
  <2>10. Kept(sheet, edited, {player})
    BY <2>5, <2>6, <2>8, <2>9 DEF Kept
  <2>11. KeepsTiers(sheet, edited, Ranked(sheet) \ {player})
    <3>1. /\ others \subseteq 1..n /\ to \in [others -> Nat]
          /\ \A a, b \in others : a < b => to[a] < to[b]
          /\ \A r \in others : to[r] = After(r, i)
      BY <1>0 DEF After
    <3>. HIDE DEF to
    <3>2. T \subseteq 1..n /\ U \subseteq 1..n
      BY <1>0, <2>6
    <3>3. StandAt(sheet, edited, s, others, to)
      BY <2>2, <2>5, <3>1 DEF StandAt
    <3>4. GoTogether(n, T, U, others, to)
      BY <1>0, <2>6, <3>1, <3>2 DEF GoTogether
    <3>5. NamesAt(s, others) = Ranked(sheet) \ {player}
      <4>1. \A r \in 1..n : s[r] = player <=> r = i
        BY <2>1 DEF Listing, ListedOnce
      <4>. QED BY <2>2, <4>1 DEF NamesAt
    <3>. HIDE DEF others, m
    <3>6. KeepsTiers(sheet, edited, NamesAt(s, others))
      BY <2>2, <2>9, <3>3, <3>4, SameTiers
    <3>. QED BY <3>5, <3>6
  <2>12. /\ PutBack(edited, player, i).ranking = s
         /\ {i - 1, i} \cap T = {} => PutBack(edited, player, i) = sheet
    <3>1. player \notin Ranked(edited)
      BY <2>3, <2>9
    <3>2. Clamped(i, 1, m + 1) = i
      BY <1>0, <2>8 DEF Clamped
    <3>3. InsertAt(t, i, player) = s
      <4>1. t \in [1..m -> P] /\ i \in 1..m + 1 /\ player \in P
        BY <1>0, <2>1, <2>3, <2>8 DEF Listing
      <4>. QED BY <2>3, <2>8, <4>1, InsertFact
    <3>4. PutBack(edited, player, i) = NewSheet(s, InsertedBreaks(U, i, m))
      <4>1. PutBack(edited, player, i)
              = LET rank == Clamped(i, 1, Len(edited.ranking) + 1)
                IN  NewSheet(InsertAt(edited.ranking, rank, player),
                             InsertedBreaks(edited.tiers, rank, Len(edited.ranking)))
        BY <3>1, Zenon DEF PutBack, InsertedBreaks
      <4>. QED BY <2>9, <3>2, <3>3, <4>1
    <3>5. {i - 1, i} \cap T = {} => InsertedBreaks(U, i, m) = T
      BY <1>0, BreaksComeBack DEF U, m
    <3>. QED BY <3>4, <3>5 DEF NewSheet, sheet
  <2>13. RemovalKeeps(sheet, edited, player)
    BY <2>1, <2>2, <2>10, <2>11, <2>12 DEF RemovalKeeps
  <2>. QED BY <2>7, <2>13 DEF sheet
<1>. QED BY <1>1, <1>2

LEMMA InsertKeeps ==
  ASSUME NEW P, NEW n, NEW s, Listing(P, n, s), NEW T \in SUBSET (1..n - 1), NEW player \in P, NEW at \in Int
  PROVE  LET sheet == NewSheet(s, T)
             edited == PutBack(sheet, player, at)
         IN  /\ Kept(sheet, edited, {player})
             /\ KeepsTiers(sheet, edited, Ranked(sheet) \ {player})
<1>. DEFINE sheet == NewSheet(s, T)
<1>0. n \in Nat /\ s \in [1..n -> P]
  BY DEF Listing
<1>1. CASE player \in Ranked(sheet)
  <2>1. PutBack(sheet, player, at) = sheet
    BY <1>1 DEF PutBack
  <2>. QED BY <2>1, UneditedFact
<1>2. CASE player \notin Ranked(sheet)
  <2>. DEFINE i == Clamped(at, 1, n + 1)
              t == With(n, s, i, player)
              U == InsertedBreaks(T, i, n)
              edited == NewSheet(t, U)
              m == n + 1
              others == 1..n
              to == [r \in others |-> Before(r, i)]
  <2>1. i \in 1..n + 1
    BY <1>0 DEF Clamped
  <2>2. /\ sheet.ranking = s /\ sheet.tiers = T /\ Len(s) = n /\ Ranked(sheet) = {s[r] : r \in 1..n}
        /\ \A r \in 1..n : RankOf(sheet, s[r]) = r
    BY RankingFactOf
  <2>3. \A j \in 1..n : s[j] # player
    BY <1>2, <2>2
  <2>. HIDE DEF i
  <2>4. InsertAt(s, i, player) = t
    BY <1>0, <2>1, InsertFact
  <2>5. Listing(P, m, t)
    <3>1. PutIn(P, n, s, i, player, t)
      BY <2>1, <2>3, WithFact
    <3>. HIDE DEF t
    <3>. QED BY <3>1 DEF PutIn
  <2>6. /\ KeepsOrder(sheet, edited, Ranked(sheet))
        /\ \A r \in others : RankOf(edited, s[r]) = Before(r, i)
    <3>1. PutBetween(n, s, T, i, edited)
      BY <2>1, <2>3, InsertedOrder
    <3>. HIDE DEF edited
    <3>. QED BY <3>1 DEF PutBetween
  <2>7. /\ U \subseteq 1..n
        /\ \A a, b \in others : a < b => (BreakBetween(T, a, b) <=> BreakBetween(U, Before(a, i), Before(b, i)))
    BY <1>0, <2>1, InsertedBreaksFact
  <2>. HIDE DEF t, sheet
  <2>8. PutBack(sheet, player, at) = edited
    <3>1. PutBack(sheet, player, at)
            = LET rank == Clamped(at, 1, Len(sheet.ranking) + 1)
              IN  NewSheet(InsertAt(sheet.ranking, rank, player),
                           InsertedBreaks(sheet.tiers, rank, Len(sheet.ranking)))
      BY <1>2, Zenon DEF PutBack, InsertedBreaks
    <3>. QED BY <2>2, <2>4, <3>1 DEF i
  <2>9. NamedOnce(t) /\ Len(t) = m /\ edited.ranking = t /\ edited.tiers = U
    BY <2>5, RankingFactOf
  <2>. HIDE DEF U, edited
  <2>10. Kept(sheet, edited, {player})
    BY <1>0, <2>6, <2>7, <2>9 DEF Kept, KeepsOrder
  <2>11. KeepsTiers(sheet, edited, Ranked(sheet) \ {player})
    <3>1. /\ others \subseteq 1..n /\ to \in [others -> Nat]
          /\ \A a, b \in others : a < b => to[a] < to[b]
          /\ \A r \in others : to[r] = Before(r, i)
      BY <1>0, <2>1 DEF Before
    <3>. HIDE DEF to
    <3>2. T \subseteq 1..n
      BY <1>0
    <3>3. StandAt(sheet, edited, s, others, to)
      BY <2>2, <2>6, <3>1 DEF StandAt
    <3>4. GoTogether(n, T, U, others, to)
      BY <1>0, <2>7, <3>1, <3>2 DEF GoTogether
    <3>5. NamesAt(s, others) = Ranked(sheet) \ {player}
      BY <1>2, <2>2 DEF NamesAt
    <3>. HIDE DEF others, m
    <3>6. KeepsTiers(sheet, edited, NamesAt(s, others))
      BY <2>2, <2>9, <3>3, <3>4, SameTiers
    <3>. QED BY <3>5, <3>6
  <2>. QED BY <2>8, <2>10, <2>11 DEF sheet
<1>. QED BY <1>1, <1>2

LEMMA BreakKeeps ==
  ASSUME NEW P, NEW n, NEW s, Listing(P, n, s), NEW T \in SUBSET (1..n - 1), NEW at \in Int
  PROVE  Kept(NewSheet(s, T), ToggleBreak(NewSheet(s, T), at), {})
<1>. DEFINE sheet == NewSheet(s, T)
            brk == at - 1
            U == TidyBreaks(IF brk \in T THEN T \ {brk} ELSE T \cup {brk}, n)
            edited == NewSheet(s, U)
<1>1. n \in Nat /\ Len(s) = n /\ sheet.ranking = s /\ sheet.tiers = T
  <2>1. Len(s) = n /\ sheet.ranking = s /\ sheet.tiers = T
    BY RankingFactOf
  <2>. QED BY <2>1 DEF Listing
<1>2. CASE brk <= 0 \/ brk >= n
  <2>1. ToggleBreak(sheet, at) = sheet
    BY <1>1, <1>2 DEF ToggleBreak
  <2>. QED BY <2>1, UneditedFact
<1>3. CASE ~(brk <= 0 \/ brk >= n)
  <2>1. ToggleBreak(sheet, at) = edited
    BY <1>1, <1>3, Zenon DEF ToggleBreak
  <2>2. U \subseteq 1..n - 1
    <3>1. \A x \in U : x \in T \cup {brk} /\ x > 0 /\ x < n
      BY DEF TidyBreaks
    <3>2. \A x \in T \cup {brk} : x \in Int
      BY <1>1
    <3>. HIDE DEF U
    <3>3. \A x \in U : x \in Int /\ x > 0 /\ x < n
      BY <3>1, <3>2
    <3>. QED BY <1>1, <3>3
  <2>. HIDE DEF U
  <2>3. /\ NamedOnce(s) /\ edited.ranking = s /\ edited.tiers = U
        /\ Ranked(sheet) = {s[r] : r \in 1..n}
        /\ \A r \in 1..n : RankOf(sheet, s[r]) = r /\ RankOf(edited, s[r]) = r
    BY RankingFactOf
  <2>. HIDE DEF edited, sheet
  <2>4. KeepsOrder(sheet, edited, Ranked(sheet) \ {})
    BY <2>3 DEF KeepsOrder
  <2>5. Kept(sheet, edited, {})
    BY <1>1, <2>2, <2>3, <2>4 DEF Kept
  <2>. QED BY <2>1, <2>5 DEF sheet
<1>. QED BY <1>2, <1>3

(* The four edits.                                                          *)
MovedBy(edit) == IF edit.kind = "break" THEN {} ELSE {edit.player}

EditKeeps(sheet, edit, edited) ==
  /\ Kept(sheet, edited, MovedBy(edit))
  /\ edit.kind \in {"remove", "insert"} => KeepsTiers(sheet, edited, Ranked(sheet) \ MovedBy(edit))
  /\ edit.kind = "remove" => RemovalKeeps(sheet, edited, edit.player)
  /\ edit.kind = "nudge" =>
       Nudge(edited, edit.player, edit.at) = Nudge(sheet, edit.player, 2 * edit.at)

IsEditOf(P, edit) ==
  /\ edit.kind \in {"move", "insert", "nudge", "remove", "break"}
  /\ edit.kind # "break" => edit.player \in P
  /\ edit.kind # "remove" => edit.at \in Int

(* An edit by hand (sheets/reorder.ts) of a sheet of any length, at any place *)
(* in it or past its ends, leaves everybody on it once, its breaks inside and *)
(* the others in their order.  A removal or an insertion keeps who shares a   *)
(* tier with whom, a return undoes a removal (its breaks too, where none was  *)
(* at the player), and two nudges are one of both.                            *)
THEOREM EditsKeepTheRest ==
  ASSUME NEW P, NEW n, NEW s, Listing(P, n, s), NEW T \in SUBSET (1..n - 1),
         NEW edit, IsEditOf(P, edit)
  PROVE  EditKeeps(NewSheet(s, T), edit, ApplyOperation(NewSheet(s, T), edit))
<1>. DEFINE sheet == NewSheet(s, T)
            edited == ApplyOperation(sheet, edit)
            player == edit.player
            at == edit.at
<1>1. /\ edit.kind \in {"move", "insert", "nudge", "remove", "break"}
      /\ edit.kind # "break" => player \in P
      /\ edit.kind # "remove" => at \in Int
  BY DEF IsEditOf
<1>2. edit.kind # "break" => MovedBy(edit) = {player}
  BY Zenon DEF MovedBy
<1>3. CASE edit.kind = "move"
  <2>1. edited = MoveTo(sheet, player, at)
    BY <1>3 DEF ApplyOperation
  <2>2. Kept(sheet, MoveTo(sheet, player, at), {player})
    BY MoveKeeps
  <2>. HIDE DEF sheet, edited, player, at
  <2>3. EditKeeps(sheet, edit, edited)
    BY <1>2, <1>3, <2>1, <2>2 DEF EditKeeps
  <2>. QED BY <2>3 DEF sheet, edited
<1>4. CASE edit.kind = "insert"
  <2>1. edited = PutBack(sheet, player, at)
    BY <1>4 DEF ApplyOperation
  <2>2. player \in P /\ at \in Int
    BY <1>1, <1>4
  <2>. HIDE DEF player, at
  <2>3. /\ Kept(sheet, PutBack(sheet, player, at), {player})
        /\ KeepsTiers(sheet, PutBack(sheet, player, at), Ranked(sheet) \ {player})
    BY <2>2, InsertKeeps
  <2>. HIDE DEF sheet, edited
  <2>4. EditKeeps(sheet, edit, edited)
    BY <1>2, <1>4, <2>1, <2>3 DEF EditKeeps
  <2>. QED BY <2>4 DEF sheet, edited
<1>5. CASE edit.kind = "nudge"
  <2>1. edited = Nudge(sheet, player, at)
    BY <1>5 DEF ApplyOperation
  <2>2. at \in Int
    BY <1>1, <1>5
  <2>. HIDE DEF player, at
  <2>3. Nudge(Nudge(sheet, player, at), player, at) = Nudge(sheet, player, 2 * at)
    BY <2>2, NudgeTwice
  <2>4. Kept(sheet, Nudge(sheet, player, at), {player})
    <3>1. CASE player \notin Ranked(sheet)
      <4>1. Nudge(sheet, player, at) = sheet
        BY <3>1 DEF Nudge
      <4>2. Kept(sheet, sheet, {player})
        BY UneditedFact
      <4>. QED BY <4>1, <4>2
    <3>2. CASE player \in Ranked(sheet)
      <4>. DEFINE rank == Clamped(RankOf(sheet, player) + at, 1, Len(sheet.ranking))
      <4>1. Nudge(sheet, player, at) = MoveTo(sheet, player, rank)
        BY <3>2 DEF Nudge
      <4>. HIDE DEF rank
      <4>2. Kept(sheet, MoveTo(sheet, player, rank), {player})
        BY MoveKeeps
      <4>. QED BY <4>1, <4>2
    <3>. QED BY <3>1, <3>2
  <2>. HIDE DEF sheet, edited
  <2>5. EditKeeps(sheet, edit, edited)
    BY <1>2, <1>5, <2>1, <2>3, <2>4 DEF EditKeeps, player, at
  <2>. QED BY <2>5 DEF sheet, edited
<1>6. CASE edit.kind = "remove"
  <2>1. edited = RemoveFromSheet(sheet, player)
    BY <1>6 DEF ApplyOperation
  <2>. HIDE DEF player
  <2>2. RemovalKeeps(sheet, RemoveFromSheet(sheet, player), player)
    BY RemoveKeeps
  <2>. HIDE DEF sheet, edited
  <2>3. Kept(sheet, edited, {player}) /\ KeepsTiers(sheet, edited, Ranked(sheet) \ {player})
    BY <2>1, <2>2 DEF RemovalKeeps
  <2>4. EditKeeps(sheet, edit, edited)
    BY <1>2, <1>6, <2>1, <2>2, <2>3 DEF EditKeeps, player
  <2>. QED BY <2>4 DEF sheet, edited
<1>7. CASE edit.kind = "break"
  <2>1. edited = ToggleBreak(sheet, at)
    BY <1>7 DEF ApplyOperation
  <2>2. at \in Int /\ MovedBy(edit) = {}
    BY <1>1, <1>7 DEF MovedBy
  <2>. HIDE DEF player, at
  <2>3. Kept(sheet, ToggleBreak(sheet, at), {})
    BY <2>2, BreakKeeps
  <2>. HIDE DEF sheet, edited
  <2>4. EditKeeps(sheet, edit, edited)
    BY <1>7, <2>1, <2>2, <2>3 DEF EditKeeps
  <2>. QED BY <2>4 DEF sheet, edited
<1>. QED BY <1>1, <1>3, <1>4, <1>5, <1>6, <1>7

LEMMA EditAnswers == ASSUME IsEdit PROVE SheetEditsKeepTheRest
<1>1. PICK n \in Nat, edit \in Edits : \E tiers \in SUBSET (1..n - 1) :
        question = [kind |-> "edit", sheet |-> NewSheet([r \in 1..n |-> r], tiers), edit |-> edit]
  BY Zenon DEF IsEdit
<1>2. PICK T \in SUBSET (1..n - 1) :
        question = [kind |-> "edit", sheet |-> NewSheet([r \in 1..n |-> r], T), edit |-> edit]
  BY <1>1
<1>. DEFINE s == [r \in 1..n |-> r]
            sheet == NewSheet(s, T)
            edited == ApplyOperation(sheet, edit)
<1>3. question.sheet = sheet /\ question.edit = edit
  <2>. HIDE DEF sheet
  <2>. QED BY <1>2 DEF sheet
<1>4. EditKeeps(sheet, edit, edited)
  <2>1. Listing(Nat, n, s)
    BY DEF Listing, ListedOnce
  <2>2. IsEditOf(Nat, edit)
    BY DEF Edits, IsEditOf
  <2>. HIDE DEF s
  <2>. QED BY <2>1, <2>2, EditsKeepTheRest
<1>. HIDE DEF sheet, edited
<1>5. /\ NamedOnce(edited.ranking) /\ edited.tiers \subseteq 1..Len(edited.ranking) - 1
      /\ KeepsOrder(sheet, edited, Ranked(sheet) \ MovedBy(edit))
      /\ edit.kind \in {"remove", "insert"} => KeepsTiers(sheet, edited, Ranked(sheet) \ MovedBy(edit))
      /\ edit.kind = "remove" /\ edit.player \in Ranked(sheet) =>
           LET rank == RankOf(sheet, edit.player)
               back == PutBack(edited, edit.player, rank)
           IN  back.ranking = sheet.ranking /\ ({rank - 1, rank} \cap sheet.tiers = {} => back = sheet)
      /\ edit.kind = "nudge" =>
           Nudge(edited, edit.player, edit.at) = Nudge(sheet, edit.player, 2 * edit.at)
  BY Zenon, <1>4 DEF EditKeeps, Kept, RemovalKeeps
<1>. QED BY Zenon, <1>3, <1>5 DEF SheetEditsKeepTheRest, KeepsOrder, KeepsTiers, TierOf, MovedBy, edited

LEMMA EditAsked ==
  ASSUME Posed
  PROVE  SheetEditsKeepTheRest
<1>1. CASE ~Asked("edit")
  BY <1>1, Zenon DEF SheetEditsKeepTheRest
<1>2. CASE Asked("edit")
  BY <1>2, KindFact, EditAnswers
<1>. QED BY <1>1, <1>2

(* The answers of reorder.ts to an edit keep the rest of the sheet.          *)
THEOREM SheetEditsAlwaysKeep == RulesSpec => []SheetEditsKeepTheRest
BY EditAsked, PosedAlways, PTL

-----------------------------------------------------------------------------
(* The clock of a round's reads.  The worker is up at some of the ticks, and *)
(* reads when one is due.                                                    *)

RunAt(ticks, outcome, i) == [round |-> 1, ranAt |-> ticks[i], status |-> outcome[i]]

ReadAt(window, ticks, outcome, runs, i) ==
  IF outcome[i] # "down" /\ LineupRoundsDue(ticks[i], {window}, runs, FALSE) # {}
  THEN runs \cup {[round |-> 1, ranAt |-> ticks[i], status |-> outcome[i]]}
  ELSE runs

ReadsAfter(window, ticks, outcome, seq) ==
  FoldLeft(LAMBDA runs, i :
             IF outcome[i] # "down" /\ LineupRoundsDue(ticks[i], {window}, runs, FALSE) # {}
             THEN runs \cup {[round |-> 1, ranAt |-> ticks[i], status |-> outcome[i]]}
             ELSE runs,
           {}, seq)

Rising(n, ticks) == ticks \in [1..n -> Nat] /\ \A i, j \in 1..n : i < j => ticks[i] < ticks[j]

(* The runs there were before a tick, and whether it made one.              *)
Past(runs, at) == {r \in runs : r.ranAt < at}
ReadsNow(window, ticks, outcome, runs, i) ==
  outcome[i] # "down" /\ LineupRoundsDue(ticks[i], {window}, Past(runs, ticks[i]), FALSE) # {}

ReadsBy(window, ticks, outcome, k, runs) ==
  \A r : r \in runs <=> \E i \in 1..k : r = RunAt(ticks, outcome, i) /\ ReadsNow(window, ticks, outcome, runs, i)

LEMMA ReadStep ==
  ASSUME NEW n \in Nat, NEW ticks, Rising(n, ticks), NEW window, NEW outcome, NEW k \in 1..n,
         NEW f, ReadsBy(window, ticks, outcome, k - 1, f)
  PROVE  ReadsBy(window, ticks, outcome, k, ReadAt(window, ticks, outcome, f, k))
<1>. DEFINE run == RunAt(ticks, outcome, k)
            g == ReadAt(window, ticks, outcome, f, k)
            now == outcome[k] # "down" /\ LineupRoundsDue(ticks[k], {window}, f, FALSE) # {}
<1>1. g = IF now THEN f \cup {run} ELSE f
  BY Zenon DEF ReadAt, RunAt
<1>. HIDE DEF now
<1>2. /\ ticks[k] \in Nat /\ k \in Nat
      /\ \A i \in 1..k - 1 : i \in 1..n /\ ticks[i] \in Nat /\ ticks[i] < ticks[k]
  BY DEF Rising
<1>3. \A r \in f : \E i \in 1..k - 1 : r = RunAt(ticks, outcome, i)
  BY Zenon DEF ReadsBy
<1>4. \A r \in f : r.ranAt < ticks[k]
  BY <1>2, <1>3 DEF RunAt
<1>5. run.ranAt = ticks[k]
  BY DEF RunAt
<1>. HIDE DEF run, g
<1>6. Past(g, ticks[k]) = f
  BY <1>1, <1>2, <1>4, <1>5 DEF Past
<1>7. \A i \in 1..k - 1 : Past(g, ticks[i]) = Past(f, ticks[i])
  BY <1>1, <1>2, <1>5 DEF Past
<1>8. ReadsNow(window, ticks, outcome, g, k) <=> now
  BY <1>6 DEF ReadsNow, now
<1>9. \A i \in 1..k - 1 : ReadsNow(window, ticks, outcome, g, i) <=> ReadsNow(window, ticks, outcome, f, i)
  BY <1>7, Zenon DEF ReadsNow
<1>10. 1..k = (1..k - 1) \cup {k}
  BY <1>2
<1>11. ASSUME NEW r
       PROVE  r \in g <=> \E i \in 1..k : r = RunAt(ticks, outcome, i) /\ ReadsNow(window, ticks, outcome, g, i)
  <2>1. r \in g <=> r \in f \/ (now /\ r = run)
    BY <1>1
  <2>2. r \in f <=> \E i \in 1..k - 1 : r = RunAt(ticks, outcome, i) /\ ReadsNow(window, ticks, outcome, f, i)
    BY Zenon DEF ReadsBy
  <2>3. (\E i \in 1..k : r = RunAt(ticks, outcome, i) /\ ReadsNow(window, ticks, outcome, g, i))
        <=> \/ \E i \in 1..k - 1 : r = RunAt(ticks, outcome, i) /\ ReadsNow(window, ticks, outcome, g, i)
            \/ r = RunAt(ticks, outcome, k) /\ ReadsNow(window, ticks, outcome, g, k)
    BY <1>10
  <2>. QED BY <1>8, <1>9, <2>1, <2>2, <2>3 DEF run
<1>. QED BY <1>11 DEF ReadsBy, g

LEMMA ReadsAreDue ==
  ASSUME NEW n \in Nat, NEW ticks, Rising(n, ticks), NEW window, NEW outcome,
         NEW seq \in [1..n -> 1..n], \A i \in 1..n : seq[i] = i
  PROVE  ReadsBy(window, ticks, outcome, n, ReadsAfter(window, ticks, outcome, seq))
<1>. DEFINE base == {}
            F == {RunAt(ticks, outcome, i) : i \in 1..n}
            V == SUBSET F
            step == [x \in V \X (1..n) |-> ReadAt(window, ticks, outcome, x[1], seq[x[2]])]
            next(f) == [s \in SUBSET (1..n) |->
                          IF s = {} THEN base ELSE ReadAt(window, ticks, outcome, f[s \ {Max(s)}], seq[Max(s)])]
            iter == CHOOSE f : f = next(f)
            result == ReadsAfter(window, ticks, outcome, seq)
<1>1. result = iter[1..n]
  BY Zenon DEF FoldLeft, MapThenFoldSet, ReadAt, ReadsAfter
<1>. HIDE DEF result
<1>2. \A x \in V, i \in 1..n : ReadAt(window, ticks, outcome, x, i) \in V
  <2>. TAKE x \in V, i \in 1..n
  <2>1. RunAt(ticks, outcome, i) \in F
    OBVIOUS
  <2>. HIDE DEF F
  <2>2. ReadAt(window, ticks, outcome, x, i) \in {x, x \cup {RunAt(ticks, outcome, i)}}
    BY DEF ReadAt, RunAt
  <2>. QED BY <2>1, <2>2
<1>3. base \in V
  OBVIOUS
<1>4. ReadsBy(window, ticks, outcome, 0, base)
  <2>1. 1..0 = {}
    OBVIOUS
  <2>. QED BY <2>1 DEF ReadsBy
<1>. HIDE DEF V, base
<1>5. step \in [V \X (1..n) -> V]
  BY <1>2
<1>6. PICK g : Folds(n, V, base, step, g)
  <2>. HIDE DEF step
  <2>. QED BY <1>3, <1>5, FoldExists
<1>7. g = next(g)
  BY <1>6 DEF Folds
<1>. HIDE DEF step
<1>8. iter = next(iter)
  <2>. HIDE DEF next
  <2>. QED BY <1>7
<1>. HIDE DEF iter
<1>. DEFINE S == {k \in 0..n : ReadsBy(window, ticks, outcome, k, iter[1..k])}
<1>9. 0 \in S
  <2>1. 1..0 = {} /\ {} \in SUBSET (1..n)
    OBVIOUS
  <2>2. iter[{}] = base
    BY <1>8, <2>1
  <2>3. iter[1..0] = base
    BY <2>1, <2>2
  <2>. HIDE DEF next
  <2>. QED BY <1>4, <2>3
<1>10. ASSUME NEW k \in 1..n, k - 1 \in S PROVE k \in S
  <2>1. /\ 1..k \in SUBSET (1..n) /\ 1..k # {}
        /\ Max(1..k) = k /\ (1..k) \ {k} = 1..k - 1
    BY PrefixFact
  <2>. DEFINE s == 1..k
  <2>2. iter[s] = IF s = {} THEN base
                  ELSE ReadAt(window, ticks, outcome, iter[s \ {Max(s)}], seq[Max(s)])
    <3>. HIDE DEF s
    <3>. QED BY <1>8, <2>1 DEF s
  <2>. HIDE DEF next
  <2>3. iter[1..k] = ReadAt(window, ticks, outcome, iter[1..k - 1], k)
    BY <2>1, <2>2
  <2>. HIDE DEF S
  <2>4. ReadsBy(window, ticks, outcome, k - 1, iter[1..k - 1])
    BY <1>10 DEF S
  <2>5. ReadsBy(window, ticks, outcome, k, iter[1..k])
    BY <2>3, <2>4, ReadStep
  <2>. QED BY <2>5 DEF S
<1>. HIDE DEF S
<1>11. n \in S
  <2>1. \A k \in 1..n : k - 1 \in S => k \in S
    BY <1>10
  <2>. HIDE DEF next
  <2>2. \A k \in 0..n : k \in S
    BY <1>9, <2>1, Upward
  <2>. QED BY <2>2
<1>. QED BY <1>1, <1>11 DEF S, result

(* What a span of times is owed: while it lasts, a tick reads if nothing has  *)
(* been read in it, or else because a try failed shortly before.              *)
Since(runs, from, at) == {r \in runs : r.ranAt >= from /\ r.ranAt < at}

Owed(window, ticks, outcome, n, runs, span) ==
  \A i \in 1..n :
    ticks[i] \in span[1]..span[2] /\ outcome[i] # "down" =>
      /\ ReadsNow(window, ticks, outcome, runs, i) =>
           \A r \in Since(runs, span[1], ticks[i]) : r.status # "applied"
      /\ ~ReadsNow(window, ticks, outcome, runs, i) =>
           \E r \in Since(runs, span[1], ticks[i]) : r.status = "applied" \/ ticks[i] - r.ranAt < span[3]

ReadIn(runs, span) == {run \in runs : run.status = "applied" /\ run.ranAt \in span[1]..span[2]}
FailedIn(runs, span, at) == {run \in runs : run.status = "failed" /\ run.ranAt \in at - span[3] + 1..at}

ReadOnce(ticks, outcome, n, runs, span) ==
  /\ Cardinality(ReadIn(runs, span)) <= 1
  /\ ReadIn(runs, span) = {} =>
       \A i \in 1..n :
         ticks[i] \in span[1]..span[2] /\ outcome[i] # "down" => FailedIn(runs, span, ticks[i]) # {}

LEMMA AtMostOne ==
  ASSUME NEW S, \A x, y \in S : x = y
  PROVE  Cardinality(S) <= 1
<1>1. CASE S = {}
  BY <1>1, FS_EmptySet
<1>2. CASE S # {}
  <2>1. PICK x : x \in S
    BY <1>2
  <2>2. S = {x}
    BY <2>1
  <2>. QED BY <2>2, FS_Singleton
<1>. QED BY <1>1, <1>2

LEMMA OwedIsRead ==
  ASSUME NEW n \in Nat, NEW ticks, Rising(n, ticks), NEW window, NEW outcome,
         \A i \in 1..n : outcome[i] \in {"applied", "failed", "down"},
         NEW runs, ReadsBy(window, ticks, outcome, n, runs),
         NEW span, span[1] \in Nat, span[2] \in Int, span[3] \in Nat \ {0},
         Owed(window, ticks, outcome, n, runs, span)
  PROVE  ReadOnce(ticks, outcome, n, runs, span)
<1>. DEFINE lo == span[1]
            hi == span[2]
            wait == span[3]
            reads(i) == ReadsNow(window, ticks, outcome, runs, i)
<1>0. lo \in Nat /\ hi \in Int /\ wait \in Nat /\ wait >= 1
  OBVIOUS
<1>1. \A i \in 1..n : ticks[i] \in Nat
  BY DEF Rising
<1>2. \A r : r \in runs <=> \E i \in 1..n : r = RunAt(ticks, outcome, i) /\ reads(i)
  BY Zenon DEF ReadsBy
<1>3. \A i \in 1..n : RunAt(ticks, outcome, i).ranAt = ticks[i] /\ RunAt(ticks, outcome, i).status = outcome[i]
  BY DEF RunAt
<1>4. \A r \in runs : r.ranAt \in Nat /\ r.status \in {"applied", "failed"}
  <2>1. \A i \in 1..n : reads(i) => outcome[i] # "down"
    BY DEF ReadsNow
  <2>. QED BY <1>1, <1>2, <1>3, <2>1
<1>5. \A i \in 1..n : ticks[i] \in lo..hi /\ outcome[i] # "down" =>
        /\ reads(i) => \A r \in Since(runs, lo, ticks[i]) : r.status # "applied"
        /\ ~reads(i) => \E r \in Since(runs, lo, ticks[i]) : r.status = "applied" \/ ticks[i] - r.ranAt < wait
  BY Zenon DEF Owed
<1>6. \A r \in ReadIn(runs, span) : r \in runs /\ r.status = "applied" /\ r.ranAt \in lo..hi
  BY DEF ReadIn
<1>7. \A r \in runs : r.status = "applied" /\ r.ranAt \in lo..hi => r \in ReadIn(runs, span)
  BY DEF ReadIn
<1>8. \A at : \A r \in runs : r.status = "failed" /\ r.ranAt \in at - wait + 1..at => r \in FailedIn(runs, span, at)
  BY DEF FailedIn
<1>. HIDE DEF lo, hi, wait, reads
<1>9. ASSUME NEW i \in 1..n, NEW j \in 1..n, i < j, reads(i), reads(j),
             RunAt(ticks, outcome, i) \in ReadIn(runs, span), RunAt(ticks, outcome, j) \in ReadIn(runs, span)
      PROVE  FALSE
  <2>. DEFINE r == RunAt(ticks, outcome, i)
  <2>1. ticks[i] < ticks[j]
    BY <1>9 DEF Rising
  <2>2. r \in runs /\ r.status = "applied" /\ r.ranAt = ticks[i] /\ ticks[i] \in lo..hi
    BY <1>3, <1>6, <1>9
  <2>3. ticks[j] \in lo..hi /\ outcome[j] # "down"
    BY <1>3, <1>6, <1>9
  <2>. HIDE DEF r
  <2>4. r \in Since(runs, lo, ticks[j])
    BY <1>0, <1>1, <2>1, <2>2 DEF Since
  <2>. QED BY <1>5, <1>9, <2>2, <2>3, <2>4
<1>10. Cardinality(ReadIn(runs, span)) <= 1
  <2>1. ASSUME NEW x \in ReadIn(runs, span), NEW y \in ReadIn(runs, span) PROVE x = y
    <3>1. PICK i \in 1..n : x = RunAt(ticks, outcome, i) /\ reads(i)
      BY <1>2, <1>6
    <3>2. PICK j \in 1..n : y = RunAt(ticks, outcome, j) /\ reads(j)
      BY <1>2, <1>6
    <3>3. ~(i < j) /\ ~(j < i)
      BY <1>9, <2>1, <3>1, <3>2
    <3>4. i = j
      BY <3>3
    <3>. QED BY <3>1, <3>2, <3>4
  <2>. QED BY <2>1, AtMostOne
<1>11. ASSUME ReadIn(runs, span) = {}, NEW i \in 1..n, ticks[i] \in lo..hi, outcome[i] # "down"
       PROVE  FailedIn(runs, span, ticks[i]) # {}
  <2>1. CASE reads(i)
    <3>. DEFINE r == RunAt(ticks, outcome, i)
    <3>1. r \in runs /\ r.ranAt = ticks[i] /\ r.status = outcome[i]
      BY <1>2, <1>3, <2>1
    <3>. HIDE DEF r
    <3>2. r.status = "failed"
      BY <1>4, <1>7, <1>11, <3>1
    <3>3. r.ranAt \in ticks[i] - wait + 1..ticks[i]
      BY <1>0, <1>1, <3>1
    <3>. QED BY <1>8, <3>1, <3>2, <3>3
  <2>2. CASE ~reads(i)
    <3>1. PICK r \in Since(runs, lo, ticks[i]) : r.status = "applied" \/ ticks[i] - r.ranAt < wait
      BY <1>5, <1>11, <2>2
    <3>2. r \in runs /\ r.ranAt >= lo /\ r.ranAt < ticks[i]
      BY DEF Since
    <3>3. r.ranAt \in Nat /\ ticks[i] \in Nat
      BY <1>1, <1>4, <3>2
    <3>4. r.ranAt \in lo..hi
      BY <1>0, <1>11, <3>2, <3>3
    <3>5. r.status = "failed" /\ ticks[i] - r.ranAt < wait
      BY <1>4, <1>7, <1>11, <3>1, <3>2, <3>4
    <3>6. r.ranAt \in ticks[i] - wait + 1..ticks[i]
      BY <1>0, <3>2, <3>3, <3>5
    <3>. QED BY <1>8, <3>2, <3>5, <3>6
  <2>. QED BY <2>1, <2>2
<1>. QED BY Zenon, <1>10, <1>11 DEF ReadOnce, lo, hi

(* The window of a round.                                                    *)
GameDay(window, day) ==
  <<day + ApplyAfterLock,
    Min({(d + ApplyAfterLock) - 1 : d \in {e \in window.days : e > day}} \cup {window.closesAt}), RetryFailed>>

WindowOf(window) ==
  /\ window.round = 1 /\ window.lockAt \in Nat /\ window.closesAt \in Nat /\ window.settledAt \in Nat
  /\ window.days \subseteq Nat /\ \A day \in window.days : day >= window.lockAt
  /\ window.closesAt < window.settledAt /\ window.lockAt + ApplyAfterLock <= window.settledAt

LEMMA WindowFact ==
  ASSUME NEW tipOffs \in SUBSET Nat, IsFiniteSet(tipOffs), tipOffs # {}
  PROVE  WindowOf(RoundWindow(1, tipOffs))
<1>. DEFINE lockAt == Min(tipOffs)
            tips == {t \in tipOffs : t <= lockAt + RoundSpan}
            last == Max(tips)
            window == RoundWindow(1, tipOffs)
<1>0. /\ ApplyAfterLock \in Nat /\ CloseAfterLastTip \in Nat /\ SettleAfterLastTip \in Nat /\ RoundSpan \in Nat
      /\ CloseAfterLastTip < SettleAfterLastTip /\ ApplyAfterLock <= SettleAfterLastTip
  BY SyncAssumption
<1>1. lockAt \in tipOffs /\ \A t \in tipOffs : lockAt <= t
  BY NatMin
<1>2. lockAt \in Nat
  BY <1>1
<1>3. window.round = 1 /\ window.lockAt = lockAt /\ window.closesAt = last + CloseAfterLastTip
      /\ window.settledAt = last + SettleAfterLastTip /\ window.days \subseteq tips
  BY DEF RoundWindow
<1>. HIDE DEF lockAt, window
<1>4. tips \in SUBSET Nat /\ tips # {} /\ \A t \in tips : t <= lockAt + RoundSpan /\ lockAt <= t
  <2>1. lockAt \in tips
    BY <1>0, <1>1, <1>2
  <2>. QED BY <1>1, <2>1
<1>5. lockAt + RoundSpan \in Nat
  BY <1>0, <1>2
<1>. HIDE DEF tips
<1>6. last \in tips
  <2>. DEFINE bound == lockAt + RoundSpan
  <2>1. bound \in Nat /\ \A t \in tips : t <= bound
    BY <1>4, <1>5
  <2>. HIDE DEF bound
  <2>. QED BY <1>4, <2>1, NatMax
<1>. HIDE DEF last
<1>7. last \in Nat /\ last >= lockAt
  BY <1>4, <1>6
<1>8. \A day \in window.days : day \in Nat /\ day >= lockAt
  BY <1>3, <1>4
<1>9. WindowOf(window)
  BY <1>0, <1>2, <1>3, <1>7, <1>8 DEF WindowOf
<1>. QED BY <1>9 DEF window

LEMMA RoundDueFact ==
  ASSUME NEW window, window.round = 1, NEW runs, \A r \in runs : r.round = 1, NEW at
  PROVE  LineupRoundsDue(at, {window}, runs, FALSE) # {} <=> RoundDue(at, window, runs, FALSE)
<1>1. {run \in runs : run.round = window.round} = runs
  OBVIOUS
<1>2. LineupRoundsDue(at, {window}, runs, FALSE)
        = {w.round : w \in {v \in {window} : RoundDue(at, v, {run \in runs : run.round = v.round}, FALSE)}}
  BY Zenon DEF LineupRoundsDue
<1>3. \A v \in {window} : RoundDue(at, v, {run \in runs : run.round = v.round}, FALSE)
                            <=> RoundDue(at, window, runs, FALSE)
  BY <1>1
<1>. QED BY <1>2, <1>3

(* The last of some runs.                                                    *)
LEMMA LastRun ==
  ASSUME NEW runs, runs # {}, \A r \in runs : r.ranAt \in Nat, NEW bound \in Nat, \A r \in runs : r.ranAt <= bound
  PROVE  \E last \in runs : /\ Max({r.ranAt : r \in runs}) = last.ranAt
                           /\ \A r \in runs : r.ranAt <= last.ranAt
<1>. DEFINE T == {r.ranAt : r \in runs}
<1>1. T \in SUBSET Nat /\ T # {} /\ \A t \in T : t <= bound
  OBVIOUS
<1>2. \A r \in runs : r.ranAt \in T
  OBVIOUS
<1>3. \A t \in T : \E r \in runs : t = r.ranAt
  OBVIOUS
<1>. HIDE DEF T
<1>4. Max(T) \in T /\ \A t \in T : Max(T) >= t
  BY <1>1, NatMax
<1>5. PICK last \in runs : Max(T) = last.ranAt
  BY <1>3, <1>4
<1>6. \A r \in runs : r.ranAt <= last.ranAt
  BY <1>1, <1>2, <1>4, <1>5
<1>. QED BY <1>5, <1>6 DEF T

LEMMA NotElapsed ==
  ASSUME NEW runs, \A r \in runs : r.ranAt \in Nat, NEW at \in Nat, \A r \in runs : r.ranAt < at,
         NEW wait \in Nat, ~Elapsed(at, runs, wait)
  PROVE  \E last \in runs : at - last.ranAt < wait /\ \A r \in runs : r.ranAt <= last.ranAt
<1>1. runs # {} /\ ~(at - Max({run.ranAt : run \in runs}) >= wait)
  BY DEF Elapsed
<1>2. PICK last \in runs : /\ Max({r.ranAt : r \in runs}) = last.ranAt
                           /\ \A r \in runs : r.ranAt <= last.ranAt
  <2>1. \A r \in runs : r.ranAt <= at
    OBVIOUS
  <2>. QED BY <1>1, <2>1, LastRun
<1>. QED BY <1>1, <1>2

LEMMA DayIsOwed ==
  ASSUME NEW n \in Nat, NEW ticks, Rising(n, ticks), NEW outcome, NEW window, WindowOf(window),
         NEW runs, \A r \in runs : r.round = 1 /\ r.ranAt \in Nat /\ r.status \in {"applied", "failed"},
         NEW day \in window.days
  PROVE  Owed(window, ticks, outcome, n, runs, GameDay(window, day))
<1>. DEFINE span == GameDay(window, day)
            ends == {(d + ApplyAfterLock) - 1 : d \in {e \in window.days : e > day}} \cup {window.closesAt}
            lo == day + ApplyAfterLock
<1>0. /\ ApplyAfterLock \in Nat /\ RetryFailed \in Nat /\ window.round = 1
      /\ day \in Nat /\ window.days \subseteq Nat /\ window.closesAt \in Nat
      /\ window.lockAt \in Nat /\ day >= window.lockAt
  BY SyncAssumption DEF WindowOf
<1>1. span[1] = lo /\ span[2] = Min(ends) /\ span[3] = RetryFailed
  BY DEF GameDay
<1>2. /\ ends \in SUBSET Nat /\ ends # {}
      /\ window.closesAt \in ends /\ \A d \in window.days : d > day => d + ApplyAfterLock - 1 \in ends
  BY <1>0
<1>. HIDE DEF span, ends
<1>3. Min(ends) \in ends /\ \A e \in ends : Min(ends) <= e
  BY <1>2, NatMin
<1>4. SUFFICES ASSUME NEW i \in 1..n, ticks[i] \in lo..Min(ends), outcome[i] # "down"
               PROVE  /\ ReadsNow(window, ticks, outcome, runs, i) =>
                           \A r \in Since(runs, lo, ticks[i]) : r.status # "applied"
                      /\ ~ReadsNow(window, ticks, outcome, runs, i) =>
                           \E r \in Since(runs, lo, ticks[i]) :
                             r.status = "applied" \/ ticks[i] - r.ranAt < RetryFailed
  BY <1>1, Zenon DEF Owed, span
<1>. DEFINE at == ticks[i]
            past == Past(runs, at)
            since == Since(runs, lo, at)
            begun == {d \in window.days : at >= d + ApplyAfterLock}
<1>5. at \in Nat
  BY DEF Rising
<1>6. at >= lo /\ at <= window.closesAt /\ \A d \in window.days : d > day => at < d + ApplyAfterLock
  <2>1. Min(ends) \in Nat /\ at >= lo /\ at <= Min(ends)
    <3>1. Min(ends) \in Nat
      BY <1>2, <1>3, Zenon
    <3>2. lo \in Nat /\ ticks[i] \in Nat
      BY <1>0, <1>5
    <3>. HIDE DEF lo
    <3>. QED BY <1>4, <3>1, <3>2
  <2>2. at <= window.closesAt
    BY <1>0, <1>2, <1>3, <1>5, <2>1
  <2>3. ASSUME NEW d \in window.days, d > day PROVE at < d + ApplyAfterLock
    <3>1. Min(ends) <= d + ApplyAfterLock - 1
      BY <1>2, <1>3, <2>3
    <3>2. d \in Nat
      BY <1>0
    <3>. QED BY <1>0, <1>5, <2>1, <3>1, <3>2
  <2>. QED BY <2>1, <2>2, <2>3
<1>7. begun # {} /\ Max(begun) = day
  <2>1. \A d \in begun : d \in window.days /\ d \in Nat /\ at >= d + ApplyAfterLock
    BY <1>0
  <2>2. day \in begun
    BY <1>6
  <2>. HIDE DEF begun
  <2>3. \A d \in begun : d \in Nat /\ d <= day
    BY <1>0, <1>5, <1>6, <2>1
  <2>4. \A d \in begun : (\A e \in begun : d >= e) => d = day
    BY <1>0, <2>2, <2>3
  <2>5. \A e \in begun : day >= e
    BY <1>0, <2>3
  <2>6. Max(begun) = day
    BY <2>2, <2>4, <2>5 DEF Max
  <2>. QED BY <2>2, <2>6
<1>8. since = {run \in past : run.ranAt >= lo}
  BY DEF Since, Past
<1>9. /\ \A r \in past : r.round = 1 /\ r.ranAt \in Nat
      /\ \A r \in since : r.ranAt \in Nat /\ r.ranAt < at /\ r.status \in {"applied", "failed"}
  BY DEF Past, Since
<1>10. DayUnread(at, window, past)
         <=> (\A run \in since : run.status \in {"failed", "blocked"}) /\ Elapsed(at, since, RetryFailed)
  <2>1. DayUnread(at, window, past)
          <=> /\ begun # {}
              /\ \A run \in {run \in past : run.ranAt >= Max(begun) + ApplyAfterLock} :
                   run.status \in {"failed", "blocked"}
              /\ Elapsed(at, {run \in past : run.ranAt >= Max(begun) + ApplyAfterLock}, RetryFailed)
    BY Zenon DEF DayUnread
  <2>. HIDE DEF begun, since
  <2>. QED BY <1>7, <1>8, <2>1
<1>. HIDE DEF past, since, begun
<1>11. RoundDue(at, window, past, FALSE) <=> DayUnread(at, window, past)
  <2>1. at >= window.lockAt + ApplyAfterLock
    BY <1>0, <1>5, <1>6
  <2>. HIDE DEF at
  <2>. QED BY <1>6, <2>1 DEF RoundDue
<1>12. ReadsNow(window, ticks, outcome, runs, i) <=> DayUnread(at, window, past)
  <2>1. LineupRoundsDue(at, {window}, past, FALSE) # {} <=> RoundDue(at, window, past, FALSE)
    BY <1>0, <1>9, RoundDueFact
  <2>. QED BY <1>4, <1>11, <2>1, Zenon DEF ReadsNow, past
<1>. HIDE DEF at, lo
<1>13. ASSUME ~DayUnread(at, window, past)
       PROVE  \E r \in since : r.status = "applied" \/ at - r.ranAt < RetryFailed
  <2>1. CASE \E r \in since : r.status \notin {"failed", "blocked"}
    BY <1>9, <2>1
  <2>2. CASE ~Elapsed(at, since, RetryFailed)
    BY <1>0, <1>5, <1>9, <2>2, NotElapsed
  <2>. QED BY <1>10, <1>13, <2>1, <2>2
<1>14. ASSUME DayUnread(at, window, past) PROVE \A r \in since : r.status # "applied"
  BY <1>10, <1>14
<1>. QED BY <1>12, <1>13, <1>14 DEF at, since

SettledRound(window, last) == <<window.settledAt, last, PreviewEvery>>

LEMMA SettledIsOwed ==
  ASSUME NEW n \in Nat, NEW ticks, Rising(n, ticks), NEW outcome, NEW window, WindowOf(window),
         NEW runs, \A r \in runs : r.round = 1 /\ r.ranAt \in Nat /\ r.status \in {"applied", "failed"},
         NEW last
  PROVE  Owed(window, ticks, outcome, n, runs, SettledRound(window, last))
<1>. DEFINE lo == window.settledAt
<1>0. /\ ApplyAfterLock \in Nat /\ PreviewEvery \in Nat /\ window.round = 1
      /\ lo \in Nat /\ window.closesAt \in Nat /\ window.lockAt \in Nat
      /\ window.closesAt < lo /\ window.lockAt + ApplyAfterLock <= lo
  BY SyncAssumption DEF WindowOf
<1>1. SUFFICES ASSUME NEW i \in 1..n, ticks[i] \in lo..last, outcome[i] # "down"
               PROVE  /\ ReadsNow(window, ticks, outcome, runs, i) =>
                           \A r \in Since(runs, lo, ticks[i]) : r.status # "applied"
                      /\ ~ReadsNow(window, ticks, outcome, runs, i) =>
                           \E r \in Since(runs, lo, ticks[i]) :
                             r.status = "applied" \/ ticks[i] - r.ranAt < PreviewEvery
  <2>1. SettledRound(window, last)[1] = lo /\ SettledRound(window, last)[2] = last /\ SettledRound(window, last)[3] = PreviewEvery
    BY DEF SettledRound
  <2>. QED BY <2>1, Zenon DEF Owed
<1>. DEFINE at == ticks[i]
            past == Past(runs, at)
            since == Since(runs, lo, at)
<1>2. at \in Nat /\ at >= lo
  BY <1>0, <1>1 DEF Rising
<1>3. since = {run \in past : run.ranAt >= lo}
  BY DEF Since, Past
<1>4. /\ \A r \in past : r.round = 1 /\ r.ranAt \in Nat /\ r.ranAt < at
      /\ \A r \in since : r.ranAt \in Nat /\ r.ranAt >= lo /\ r.status \in {"applied", "failed"}
  BY DEF Past, Since
<1>. HIDE DEF since, past
<1>5. RoundDue(at, window, past, FALSE)
        <=> since = {} \/ ((\A run \in since : run.status # "applied") /\ Elapsed(at, past, PreviewEvery))
  <2>1. /\ at >= window.lockAt + ApplyAfterLock /\ ~(at <= window.closesAt) /\ ~(at < lo)
    BY <1>0, <1>2
  <2>. HIDE DEF at
  <2>2. RoundDue(at, window, past, FALSE)
          <=> \/ {run \in past : run.ranAt >= lo} = {}
              \/ /\ \A run \in {run \in past : run.ranAt >= lo} : run.status # "applied"
                 /\ Elapsed(at, past, PreviewEvery)
    BY <2>1 DEF RoundDue
  <2>. QED BY <1>3, <2>2
<1>6. ReadsNow(window, ticks, outcome, runs, i) <=> RoundDue(at, window, past, FALSE)
  <2>1. LineupRoundsDue(at, {window}, past, FALSE) # {} <=> RoundDue(at, window, past, FALSE)
    BY <1>0, <1>4, RoundDueFact
  <2>. QED BY <1>1, <2>1, Zenon DEF ReadsNow, past
<1>. HIDE DEF at, lo
<1>7. ASSUME ~RoundDue(at, window, past, FALSE)
      PROVE  \E r \in since : r.status = "applied" \/ at - r.ranAt < PreviewEvery
  <2>1. since # {}
    BY <1>5, <1>7
  <2>2. CASE \E r \in since : r.status = "applied"
    BY <2>2
  <2>3. CASE ~Elapsed(at, past, PreviewEvery)
    <3>1. PICK r \in past : at - r.ranAt < PreviewEvery /\ \A q \in past : q.ranAt <= r.ranAt
      BY <1>0, <1>2, <1>4, <2>3, NotElapsed
    <3>2. PICK q \in since : q \in past /\ q.ranAt >= lo /\ q.ranAt \in Nat
      BY <1>3, <1>4, <2>1
    <3>3. r.ranAt \in Nat /\ r.ranAt >= lo
      BY <1>0, <1>4, <3>1, <3>2
    <3>4. r \in since
      BY <1>3, <3>3
    <3>. QED BY <3>1, <3>4
  <2>. QED BY <1>5, <1>7, <2>1, <2>2, <2>3
<1>8. ASSUME RoundDue(at, window, past, FALSE) PROVE \A r \in since : r.status # "applied"
  BY <1>5, <1>8
<1>. QED BY <1>6, <1>7, <1>8 DEF at, since

(* A worker that asks at any ticks which reads of a round are due             *)
(* (fantasy/windows.ts), is up at some of them and gets through at some of    *)
(* those: each game day is read at most once, and goes unread only if a try   *)
(* failed shortly before every tick it was up at; and so the settled round.   *)
THEOREM GameDaysAreReadOnce ==
  ASSUME NEW n \in Nat, NEW ticks, Rising(n, ticks), NEW tipOffs \in SUBSET Nat, IsFiniteSet(tipOffs),
         tipOffs # {}, NEW outcome, \A i \in 1..n : outcome[i] \in {"applied", "failed", "down"},
         NEW seq \in [1..n -> 1..n], \A i \in 1..n : seq[i] = i, NEW last \in Int
  PROVE  LET window == RoundWindow(1, tipOffs)
             runs == ReadsAfter(window, ticks, outcome, seq)
         IN  /\ \A day \in window.days : ReadOnce(ticks, outcome, n, runs, GameDay(window, day))
             /\ ReadOnce(ticks, outcome, n, runs, SettledRound(window, last))
<1>. DEFINE window == RoundWindow(1, tipOffs)
            runs == ReadsAfter(window, ticks, outcome, seq)
<1>1. WindowOf(window)
  BY WindowFact
<1>. HIDE DEF window
<1>2. ReadsBy(window, ticks, outcome, n, runs)
  BY ReadsAreDue
<1>. HIDE DEF runs
<1>3. \A r \in runs : r.round = 1 /\ r.ranAt \in Nat /\ r.status \in {"applied", "failed"}
  <2>. SUFFICES ASSUME NEW r \in runs
                PROVE  r.round = 1 /\ r.ranAt \in Nat /\ r.status \in {"applied", "failed"}
    OBVIOUS
  <2>1. PICK i \in 1..n : r = RunAt(ticks, outcome, i) /\ ReadsNow(window, ticks, outcome, runs, i)
    BY <1>2, Zenon DEF ReadsBy
  <2>2. outcome[i] # "down"
    BY <2>1 DEF ReadsNow
  <2>3. ticks[i] \in Nat
    BY DEF Rising
  <2>. QED BY <2>1, <2>2, <2>3 DEF RunAt
<1>4. ASSUME NEW day \in window.days
      PROVE  ReadOnce(ticks, outcome, n, runs, GameDay(window, day))
  <2>. DEFINE span == GameDay(window, day)
  <2>1. Owed(window, ticks, outcome, n, runs, span)
    BY <1>1, <1>3, DayIsOwed
  <2>2. span[1] \in Nat /\ span[2] \in Int /\ span[3] \in Nat \ {0}
    <3>. DEFINE ends == {(d + ApplyAfterLock) - 1 : d \in {e \in window.days : e > day}} \cup {window.closesAt}
    <3>1. /\ ApplyAfterLock \in Nat /\ RetryFailed \in Nat \ {0} /\ day \in Nat
          /\ window.days \subseteq Nat /\ window.closesAt \in Nat
      BY <1>1, SyncAssumption DEF WindowOf
    <3>2. ends \in SUBSET Nat /\ ends # {}
      BY <3>1
    <3>3. span[1] = day + ApplyAfterLock /\ span[2] = Min(ends) /\ span[3] = RetryFailed
      BY DEF GameDay
    <3>. HIDE DEF ends, span
    <3>4. Min(ends) \in ends
      BY <3>2, NatMin
    <3>. QED BY <3>1, <3>2, <3>3, <3>4
  <2>. HIDE DEF span
  <2>3. ReadOnce(ticks, outcome, n, runs, span)
    BY <1>2, <2>1, <2>2, OwedIsRead
  <2>. QED BY <2>3 DEF span
<1>5. ReadOnce(ticks, outcome, n, runs, SettledRound(window, last))
  <2>. DEFINE span == SettledRound(window, last)
  <2>1. Owed(window, ticks, outcome, n, runs, span)
    BY <1>1, <1>3, SettledIsOwed
  <2>2. span[1] \in Nat /\ span[2] \in Int /\ span[3] \in Nat \ {0}
    BY <1>1, SyncAssumption DEF WindowOf, SettledRound
  <2>. HIDE DEF span
  <2>3. ReadOnce(ticks, outcome, n, runs, span)
    BY <1>2, <2>1, <2>2, OwedIsRead
  <2>. QED BY <2>3 DEF span
<1>. QED BY <1>4, <1>5 DEF window, runs

LEMMA TicksRise == Len(Ticks) = 9 /\ DOMAIN Ticks = 1..9 /\ Ticks[9] \in Int /\ Rising(9, Ticks)
<1>1. Len(Ticks) = 9 /\ DOMAIN Ticks = 1..9 /\ Ticks \in [1..9 -> Nat]
  BY DEF Ticks
<1>2. /\ Ticks[1] < Ticks[2] /\ Ticks[2] < Ticks[3] /\ Ticks[3] < Ticks[4] /\ Ticks[4] < Ticks[5]
      /\ Ticks[5] < Ticks[6] /\ Ticks[6] < Ticks[7] /\ Ticks[7] < Ticks[8] /\ Ticks[8] < Ticks[9]
  BY DEF Ticks
<1>3. ASSUME NEW i \in 1..9, NEW j \in 1..9, i < j PROVE Ticks[i] < Ticks[j]
  BY <1>1, <1>2, <1>3
<1>. QED BY <1>1, <1>3 DEF Rising

LEMMA ClockworkAnswers == ASSUME IsClockwork PROVE EveryGameDayIsReadOnce
<1>. DEFINE tipOffs == question.tipOffs
            outcome == question.outcome
            window == RoundWindow(1, tipOffs)
            seq == [i \in DOMAIN Ticks |-> i]
            runs == ReadsAfter(window, Ticks, outcome, seq)
            n == Len(Ticks)
            last == Ticks[Len(Ticks)]
            opens(day) == day + ApplyAfterLock
            until(day) == Min({opens(d) - 1 : d \in {e \in window.days : e > day}} \cup {window.closesAt})
            spans == {<<opens(day), until(day), RetryFailed>> : day \in window.days}
                       \cup {<<window.settledAt, last, PreviewEvery>>}
<1>1. tipOffs \in Starts /\ outcome \in Tuples({"applied", "failed", "down"}, Len(Ticks))
  BY DEF IsClockwork
<1>2. ReadsOf(tipOffs, outcome) = runs
  BY Zenon DEF ReadsOf, ReadsAfter
<1>3. tipOffs \in SUBSET Nat /\ IsFiniteSet(tipOffs) /\ tipOffs # {}
  <2>1. tipOffs = {2, 8} \/ tipOffs = {2, 3, 8, 20}
    BY <1>1 DEF Starts
  <2>. HIDE DEF tipOffs
  <2>2. tipOffs \subseteq 1..20
    BY <2>1
  <2>3. 1 \in Int /\ 20 \in Int
    OBVIOUS
  <2>4. IsFiniteSet(1..20)
    BY <2>3, FS_Interval
  <2>5. IsFiniteSet(tipOffs)
    BY <2>2, <2>4, FS_Subset
  <2>. QED BY <2>1, <2>2, <2>5
<1>4. \A i \in 1..n : outcome[i] \in {"applied", "failed", "down"}
  <2>. HIDE DEF outcome
  <2>. QED BY <1>1, TicksRise DEF Tuples
<1>5. /\ \A day \in window.days : ReadOnce(Ticks, outcome, n, runs, GameDay(window, day))
      /\ ReadOnce(Ticks, outcome, n, runs, SettledRound(window, last))
  <2>1. /\ n \in Nat /\ Rising(n, Ticks) /\ last \in Int
        /\ seq \in [1..n -> 1..n] /\ \A i \in 1..n : seq[i] = i
    BY TicksRise
  <2>. HIDE DEF seq, n, last, tipOffs, outcome
  <2>. QED BY <1>3, <1>4, <2>1, GameDaysAreReadOnce
<1>. HIDE DEF tipOffs, outcome, window, runs
<1>6. \A span \in spans : ReadOnce(Ticks, outcome, n, runs, span)
  <2>1. \A day \in window.days : GameDay(window, day) = <<opens(day), until(day), RetryFailed>>
    BY Zenon DEF GameDay
  <2>2. SettledRound(window, last) = <<window.settledAt, last, PreviewEvery>>
    BY Zenon DEF SettledRound
  <2>. HIDE DEF last
  <2>. QED BY <1>5, <2>1, <2>2, Zenon
<1>7. DOMAIN Ticks = 1..n
  BY TicksRise
<1>. HIDE DEF spans, n
<1>8. \A span \in spans :
        /\ Cardinality(ReadIn(runs, span)) <= 1
        /\ ReadIn(runs, span) = {} =>
             \A i \in DOMAIN Ticks :
               Ticks[i] \in span[1]..span[2] /\ outcome[i] # "down" => FailedIn(runs, span, Ticks[i]) # {}
  BY Zenon, <1>6, <1>7 DEF ReadOnce
<1>. QED BY Zenon, <1>2, <1>8 DEF EveryGameDayIsReadOnce, ReadIn, FailedIn, spans, window, tipOffs, outcome

LEMMA ClockworkAsked ==
  ASSUME Posed
  PROVE  EveryGameDayIsReadOnce
<1>1. CASE ~Asked("clockwork")
  BY <1>1, Zenon DEF EveryGameDayIsReadOnce
<1>2. CASE Asked("clockwork")
  BY <1>2, KindFact, ClockworkAnswers
<1>. QED BY <1>1, <1>2

(* The reads the clock of windows.ts asks for, whatever the constants of its *)
(* freeze, retries and previews: GameDaysAreReadOnce, of the rounds and      *)
(* workers asked about.                                                      *)
THEOREM GameDaysAlwaysReadOnce == RulesSpec => []EveryGameDayIsReadOnce
BY ClockworkAsked, PosedAlways, PTL

-----------------------------------------------------------------------------
(* The sheet saved from a list.  Line i of n names player c[i], or nobody,   *)
(* in tier t[i]; it is shown if no line before it names him.                 *)
Choosing(n, c, t) == n \in Nat /\ c \in [1..n -> Nat] /\ t \in [1..n -> Nat \ {Unmatched}]

Named(c, k) == {c[j] : j \in 1..k} \ {Unmatched}
Stands(c, i) == c[i] \notin Named(c, i - 1) \cup {Unmatched}
StandsAt(c, i) == Cardinality(Named(c, i - 1)) + 1

LEMMA NamedStep ==
  ASSUME NEW n, NEW c, NEW t, Choosing(n, c, t), NEW k \in 1..n
  PROVE  Named(c, k) = IF Stands(c, k) THEN Named(c, k - 1) \cup {c[k]} ELSE Named(c, k - 1)
<1>1. n \in Nat /\ k \in Nat /\ 1..k = (1..k - 1) \cup {k}
  BY DEF Choosing
<1>. QED BY <1>1 DEF Named, Stands

LEMMA NamedFinite ==
  ASSUME NEW n, NEW c, NEW t, Choosing(n, c, t)
  PROVE  \A k \in 0..n : Named(c, k) \subseteq Nat /\ IsFiniteSet(Named(c, k)) /\ Cardinality(Named(c, k)) \in Nat
<1>. DEFINE S == {k \in 0..n : IsFiniteSet(Named(c, k))}
<1>1. n \in Nat /\ \A k \in 1..n : k \in Nat /\ c[k] \in Nat /\ k - 1 \in 0..n
  BY DEF Choosing
<1>2. 0 \in S
  <2>1. Named(c, 0) = {}
    BY DEF Named
  <2>. QED BY <1>1, <2>1, FS_EmptySet
<1>3. ASSUME NEW k \in 1..n, k - 1 \in S PROVE k \in S
  <2>1. IsFiniteSet(Named(c, k - 1))
    BY <1>3
  <2>2. IsFiniteSet(Named(c, k - 1) \cup {c[k]})
    BY <2>1, FS_AddElement
  <2>3. Named(c, k) = Named(c, k - 1) \cup {c[k]} \/ Named(c, k) = Named(c, k - 1)
    BY NamedStep
  <2>4. IsFiniteSet(Named(c, k))
    BY <2>1, <2>2, <2>3
  <2>. QED BY <1>1, <2>4
<1>. HIDE DEF S
<1>4. \A k \in 0..n : k \in S
  <2>1. \A k \in 1..n : k - 1 \in S => k \in S
    BY <1>3
  <2>. QED BY <1>1, <1>2, <2>1, Upward
<1>. TAKE k \in 0..n
<1>5. IsFiniteSet(Named(c, k)) /\ Cardinality(Named(c, k)) \in Nat
  BY <1>4, FS_CardinalityType DEF S
<1>6. Named(c, k) \subseteq Nat
  BY <1>1 DEF Named
<1>. QED BY <1>5, <1>6

LEMMA NamedCount ==
  ASSUME NEW n, NEW c, NEW t, Choosing(n, c, t), NEW k \in 1..n
  PROVE  /\ k - 1 \in 0..n /\ k \in 0..n
         /\ Cardinality(Named(c, k - 1)) \in Nat
         /\ Cardinality(Named(c, k)) = Cardinality(Named(c, k - 1)) + (IF Stands(c, k) THEN 1 ELSE 0)
<1>1. n \in Nat /\ k - 1 \in 0..n /\ k \in 0..n
  BY DEF Choosing
<1>2. IsFiniteSet(Named(c, k - 1)) /\ Cardinality(Named(c, k - 1)) \in Nat
  BY <1>1, NamedFinite
<1>3. CASE Stands(c, k)
  <2>1. c[k] \notin Named(c, k - 1)
    BY <1>3 DEF Stands
  <2>2. Cardinality(Named(c, k - 1) \cup {c[k]}) = Cardinality(Named(c, k - 1)) + 1
    BY <1>2, <2>1, FS_AddElement
  <2>. QED BY <1>1, <1>2, <1>3, <2>2, NamedStep
<1>4. CASE ~Stands(c, k)
  BY <1>1, <1>2, <1>4, NamedStep
<1>. QED BY <1>3, <1>4

(* Of two lines that stand, the later stands lower.                          *)
LEMMA StandsInOrder ==
  ASSUME NEW n, NEW c, NEW t, Choosing(n, c, t), NEW i \in 1..n, NEW j \in 1..n, i < j, Stands(c, i)
  PROVE  StandsAt(c, i) \in Nat /\ StandsAt(c, j) \in Nat /\ StandsAt(c, i) < StandsAt(c, j)
<1>1. n \in Nat /\ j - 1 \in 0..n /\ i \in 0..n /\ 1..i \subseteq 1..j - 1
  BY DEF Choosing
<1>2. Named(c, i) \subseteq Named(c, j - 1)
  BY <1>1 DEF Named
<1>3. IsFiniteSet(Named(c, j - 1)) /\ Cardinality(Named(c, j - 1)) \in Nat /\ Cardinality(Named(c, i)) \in Nat
  BY <1>1, NamedFinite
<1>4. Cardinality(Named(c, i)) <= Cardinality(Named(c, j - 1))
  BY <1>2, <1>3, FS_Subset
<1>5. Cardinality(Named(c, i - 1)) \in Nat /\ Cardinality(Named(c, i)) = Cardinality(Named(c, i - 1)) + 1
  BY NamedCount
<1>. QED BY <1>3, <1>4, <1>5 DEF StandsAt

-----------------------------------------------------------------------------
PlaceLine(c, t, sheet, i) ==
  IF c[i] = Unmatched \/ c[i] \in ToSet(sheet.ranking) THEN sheet
  ELSE [ranking |-> Append(sheet.ranking, c[i]),
        tiers |-> IF sheet.tier # Unmatched /\ t[i] # sheet.tier
                  THEN sheet.tiers \cup {Len(sheet.ranking)} ELSE sheet.tiers,
        tier |-> t[i]]

Drafted == [ranking : Seq(Nat), tiers : SUBSET Nat, tier : Nat]

(* The sheet after k lines: those that stand, each at its place, and a break *)
(* between two next to each other where the tier changes.                    *)
PlacedUpTo(c, t, k, sheet) ==
  /\ sheet \in Drafted
  /\ Len(sheet.ranking) = Cardinality(Named(c, k)) /\ ToSet(sheet.ranking) = Named(c, k)
  /\ \A i \in 1..k : Stands(c, i) =>
       StandsAt(c, i) \in 1..Len(sheet.ranking) /\ sheet.ranking[StandsAt(c, i)] = c[i]
  /\ \A r \in 1..Len(sheet.ranking) : \E i \in 1..k : Stands(c, i) /\ StandsAt(c, i) = r

BrokenUpTo(c, t, k, sheet) ==
  /\ sheet.tiers \subseteq 1..Len(sheet.ranking) - 1
  /\ Len(sheet.ranking) = 0 => sheet.tier = Unmatched
  /\ \A i \in 1..k : Stands(c, i) /\ StandsAt(c, i) = Len(sheet.ranking) => sheet.tier = t[i]
  /\ \A i, j \in 1..k : Stands(c, i) /\ Stands(c, j) /\ StandsAt(c, j) = StandsAt(c, i) + 1 =>
       (StandsAt(c, i) \in sheet.tiers <=> t[i] # t[j])

LEMMA PlaceKind ==
  ASSUME NEW n, NEW c, NEW t, Choosing(n, c, t), NEW k \in 1..n, NEW sheet \in Drafted
  PROVE  PlaceLine(c, t, sheet, k) \in Drafted
<1>1. /\ sheet.ranking \in Seq(Nat) /\ sheet.tiers \in SUBSET Nat /\ sheet.tier \in Nat
      /\ c[k] \in Nat /\ t[k] \in Nat
  BY DEF Drafted, Choosing
<1>2. Append(sheet.ranking, c[k]) \in Seq(Nat) /\ Len(sheet.ranking) \in Nat
  BY <1>1
<1>. QED BY <1>1, <1>2 DEF PlaceLine, Drafted

LEMMA PlaceKeeps ==
  ASSUME NEW n, NEW c, NEW t, Choosing(n, c, t), NEW k \in 1..n, NEW sheet,
         PlacedUpTo(c, t, k - 1, sheet), BrokenUpTo(c, t, k - 1, sheet), ~Stands(c, k)
  PROVE  PlaceLine(c, t, sheet, k) = sheet /\ PlacedUpTo(c, t, k, sheet) /\ BrokenUpTo(c, t, k, sheet)
<1>1. n \in Nat /\ k \in Nat /\ k - 1 \in Nat /\ 1..k = (1..k - 1) \cup {k}
  BY DEF Choosing
<1>2. Named(c, k) = Named(c, k - 1)
  BY NamedStep
<1>3. ToSet(sheet.ranking) = Named(c, k - 1)
  BY DEF PlacedUpTo
<1>4. PlaceLine(c, t, sheet, k) = sheet
  BY <1>3 DEF PlaceLine, Stands
<1>5. PlacedUpTo(c, t, k, sheet)
  BY <1>1, <1>2 DEF PlacedUpTo
<1>6. BrokenUpTo(c, t, k, sheet)
  BY <1>1 DEF BrokenUpTo
<1>. QED BY <1>4, <1>5, <1>6

LEMMA PlaceAdds ==
  ASSUME NEW n, NEW c, NEW t, Choosing(n, c, t), NEW k \in 1..n, NEW sheet,
         PlacedUpTo(c, t, k - 1, sheet), BrokenUpTo(c, t, k - 1, sheet), Stands(c, k)
  PROVE  LET next == PlaceLine(c, t, sheet, k)
         IN  PlacedUpTo(c, t, k, next) /\ BrokenUpTo(c, t, k, next)
<1>. DEFINE m == Len(sheet.ranking)
            ranking == Append(sheet.ranking, c[k])
            tiers == IF sheet.tier # Unmatched /\ t[k] # sheet.tier THEN sheet.tiers \cup {m} ELSE sheet.tiers
            next == PlaceLine(c, t, sheet, k)
<1>1. n \in Nat /\ k \in Nat /\ k - 1 \in Nat /\ 1..k = (1..k - 1) \cup {k} /\ c[k] \in Nat
  BY DEF Choosing
<1>2. sheet \in Drafted /\ sheet.ranking \in Seq(Nat) /\ m \in Nat /\ sheet.tiers \in SUBSET Nat
  BY DEF PlacedUpTo, Drafted
<1>3. next = [ranking |-> ranking, tiers |-> tiers, tier |-> t[k]]
  <2>1. ToSet(sheet.ranking) = Named(c, k - 1)
    BY DEF PlacedUpTo
  <2>. QED BY <2>1 DEF PlaceLine, Stands
<1>4. /\ ranking \in Seq(Nat) /\ Len(ranking) = m + 1 /\ ranking[m + 1] = c[k]
      /\ \A r \in 1..m : ranking[r] = sheet.ranking[r]
  BY <1>1, <1>2
<1>5. next \in Drafted
  BY <1>2, PlaceKind
<1>6. next.ranking = ranking /\ next.tiers = tiers /\ next.tier = t[k]
  BY <1>3
<1>7. StandsAt(c, k) = m + 1 /\ Cardinality(Named(c, k)) = m + 1
  BY <1>2, NamedCount DEF PlacedUpTo, StandsAt
<1>8. ToSet(ranking) = Named(c, k)
  <2>1. ToSet(sheet.ranking) = Named(c, k - 1) /\ Named(c, k) = Named(c, k - 1) \cup {c[k]}
    BY NamedStep DEF PlacedUpTo
  <2>2. ToSet(ranking) = ToSet(sheet.ranking) \cup {c[k]}
    <3>1. DOMAIN ranking = 1..m + 1 /\ DOMAIN sheet.ranking = 1..m
      BY <1>2, <1>4
    <3>2. 1..m + 1 = (1..m) \cup {m + 1}
      BY <1>2
    <3>. HIDE DEF ranking
    <3>. QED BY <1>4, <3>1, <3>2 DEF ToSet
  <2>. QED BY <2>1, <2>2
<1>. HIDE DEF ranking, tiers, next
<1>9. \A i \in 1..k - 1 : Stands(c, i) => StandsAt(c, i) \in 1..m /\ sheet.ranking[StandsAt(c, i)] = c[i]
  BY DEF PlacedUpTo
<1>10. PlacedUpTo(c, t, k, next)
  <2>1. \A i \in 1..k : Stands(c, i) =>
          StandsAt(c, i) \in 1..m + 1 /\ ranking[StandsAt(c, i)] = c[i]
    <3>. SUFFICES ASSUME NEW i \in 1..k, Stands(c, i)
                  PROVE  StandsAt(c, i) \in 1..m + 1 /\ ranking[StandsAt(c, i)] = c[i]
      OBVIOUS
    <3>1. CASE i = k
      BY <1>2, <1>4, <1>7, <3>1
    <3>2. CASE i \in 1..k - 1
      <4>1. StandsAt(c, i) \in 1..m /\ sheet.ranking[StandsAt(c, i)] = c[i]
        BY <1>9, <3>2
      <4>2. ranking[StandsAt(c, i)] = sheet.ranking[StandsAt(c, i)]
        BY <1>4, <4>1, Zenon
      <4>3. 1..m \subseteq 1..m + 1
        BY <1>2
      <4>. QED BY <4>1, <4>2, <4>3, Zenon
    <3>. QED BY <1>1, <3>1, <3>2
  <2>2. \A r \in 1..m + 1 : \E i \in 1..k : Stands(c, i) /\ StandsAt(c, i) = r
    <3>. TAKE r \in 1..m + 1
    <3>1. CASE r = m + 1
      BY <1>1, <1>7, <3>1
    <3>2. CASE r \in 1..m
      <4>1. \E i \in 1..k - 1 : Stands(c, i) /\ StandsAt(c, i) = r
        BY <3>2 DEF PlacedUpTo
      <4>2. 1..k - 1 \subseteq 1..k
        BY <1>1
      <4>. QED BY <4>1, <4>2
    <3>. QED BY <1>2, <3>1, <3>2
  <2>. QED BY <1>4, <1>5, <1>6, <1>7, <1>8, <2>1, <2>2 DEF PlacedUpTo
<1>11. BrokenUpTo(c, t, k, next)
  <2>1. sheet.tiers \subseteq 1..m - 1 /\ (m = 0 => sheet.tier = Unmatched)
    BY DEF BrokenUpTo
  <2>2. tiers \subseteq 1..m
    BY <1>2, <2>1 DEF tiers
  <2>3. \A i \in 1..k : Stands(c, i) /\ StandsAt(c, i) = m + 1 => i = k
    BY <1>1, <1>2, <1>9
  <2>4. ASSUME NEW i \in 1..k, NEW j \in 1..k, Stands(c, i), Stands(c, j), StandsAt(c, j) = StandsAt(c, i) + 1
        PROVE  StandsAt(c, i) \in tiers <=> t[i] # t[j]
    <3>1. i # k
      <4>. SUFFICES ASSUME i = k PROVE FALSE
        OBVIOUS
      <4>1. CASE j = k
        BY <1>2, <1>7, <2>4, <4>1
      <4>2. CASE j \in 1..k - 1
        BY <1>2, <1>7, <1>9, <2>4, <4>2
      <4>. QED BY <1>1, <4>1, <4>2
    <3>2. i \in 1..k - 1 /\ StandsAt(c, i) \in 1..m
      BY <1>1, <1>9, <2>4, <3>1
    <3>3. CASE j = k
      <4>1. StandsAt(c, i) = m
        BY <1>2, <1>7, <2>4, <3>2, <3>3
      <4>2. sheet.tier = t[i] /\ m \notin sheet.tiers
        BY <1>2, <2>1, <2>4, <3>2, <4>1 DEF BrokenUpTo
      <4>3. t[i] # Unmatched
        BY <3>2, <1>1 DEF Choosing
      <4>. QED BY <3>3, <4>1, <4>2, <4>3 DEF tiers
    <3>4. CASE j \in 1..k - 1
      <4>1. StandsAt(c, j) \in 1..m
        BY <1>9, <2>4, <3>4
      <4>2. StandsAt(c, i) # m
        BY <1>2, <2>4, <3>2, <4>1
      <4>3. StandsAt(c, i) \in tiers <=> StandsAt(c, i) \in sheet.tiers
        BY <4>2 DEF tiers
      <4>4. StandsAt(c, i) \in sheet.tiers <=> t[i] # t[j]
        BY <2>4, <3>2, <3>4 DEF BrokenUpTo
      <4>. QED BY <4>3, <4>4
    <3>. QED BY <1>1, <3>3, <3>4
  <2>5. Len(next.ranking) = m + 1 /\ m + 1 # 0 /\ (m + 1) - 1 = m
    BY <1>2, <1>4, <1>6
  <2>6. \A i \in 1..k : Stands(c, i) /\ StandsAt(c, i) = m + 1 => next.tier = t[i]
    BY <1>6, <2>3
  <2>7. \A i, j \in 1..k : Stands(c, i) /\ Stands(c, j) /\ StandsAt(c, j) = StandsAt(c, i) + 1 =>
          (StandsAt(c, i) \in tiers <=> t[i] # t[j])
    BY <2>4
  <2>. HIDE DEF m
  <2>. QED BY <1>6, <2>2, <2>5, <2>6, <2>7 DEF BrokenUpTo
<1>. QED BY <1>10, <1>11 DEF next

(* What a list's entries and the answers to them come to.                    *)
Answering(n, c, t, entries, choices) ==
  /\ Choosing(n, c, t) /\ DOMAIN entries = 1..n
  /\ \A i \in 1..n : c[i] = ChosenFor(entries, choices, i) /\ t[i] = entries[i].tier

Resolved(entries, choices, seq) ==
  FoldLeft(LAMBDA sheet, i : ResolveLine(entries, choices, sheet, i), Resolution, seq)

LEMMA ResolvedFact ==
  ASSUME NEW n, NEW c, NEW t, NEW entries, NEW choices, Answering(n, c, t, entries, choices),
         NEW seq \in [1..n -> 1..n], \A i \in 1..n : seq[i] = i
  PROVE  LET sheet == Resolved(entries, choices, seq)
         IN  PlacedUpTo(c, t, n, sheet) /\ BrokenUpTo(c, t, n, sheet)
<1>. DEFINE base == Resolution
            step == [x \in Drafted \X (1..n) |-> PlaceLine(c, t, x[1], x[2])]
            next(f) == [s \in SUBSET (1..n) |->
                          IF s = {} THEN base ELSE ResolveLine(entries, choices, f[s \ {Max(s)}], seq[Max(s)])]
            iter == CHOOSE f : f = next(f)
            result == Resolved(entries, choices, seq)
<1>0. n \in Nat /\ Choosing(n, c, t)
  BY DEF Answering, Choosing
<1>1. result = iter[1..n]
  BY Zenon DEF FoldLeft, MapThenFoldSet, Resolved
<1>. HIDE DEF result
<1>2. \A x \in Drafted, i \in 1..n : PlaceLine(c, t, x, i) \in Drafted
  BY <1>0, PlaceKind
<1>3. base \in Drafted
  <2>1. <<>> \in Seq(Nat) /\ {} \in SUBSET Nat /\ Unmatched \in Nat
    BY DEF Unmatched
  <2>. QED BY <2>1 DEF Drafted, Resolution
<1>4. PlacedUpTo(c, t, 0, base) /\ BrokenUpTo(c, t, 0, base)
  <2>1. 1..0 = {} /\ base.ranking = <<>> /\ base.tiers = {} /\ base.tier = Unmatched /\ Len(base.ranking) = 0
    BY DEF Resolution
  <2>2. Named(c, 0) = {} /\ ToSet(base.ranking) = {}
    BY <2>1 DEF Named, ToSet
  <2>3. Cardinality(Named(c, 0)) = 0
    BY <2>2, FS_EmptySet
  <2>. HIDE DEF base
  <2>4. PlacedUpTo(c, t, 0, base)
    BY <1>3, <2>1, <2>2, <2>3 DEF PlacedUpTo
  <2>5. BrokenUpTo(c, t, 0, base)
    BY <2>1 DEF BrokenUpTo
  <2>. QED BY <2>4, <2>5
<1>. HIDE DEF base
<1>5. step \in [Drafted \X (1..n) -> Drafted]
  BY <1>2
<1>6. PICK g : Folds(n, Drafted, base, step, g)
  <2>. HIDE DEF step
  <2>. QED BY <1>0, <1>3, <1>5, FoldExists
<1>7. \A sheet, i : i \in 1..n => ResolveLine(entries, choices, sheet, seq[i]) = PlaceLine(c, t, sheet, i)
  <2>. SUFFICES ASSUME NEW sheet, NEW i \in 1..n
                PROVE  ResolveLine(entries, choices, sheet, i) = PlaceLine(c, t, sheet, i)
    OBVIOUS
  <2>1. c[i] = ChosenFor(entries, choices, i) /\ t[i] = entries[i].tier
    BY DEF Answering
  <2>. QED BY <2>1, Zenon DEF ResolveLine, PlaceLine
<1>8. g = next(g)
  <2>1. \A s \in SUBSET (1..n) : s # {} => Max(s) \in 1..n /\ g[s \ {Max(s)}] \in Drafted
    BY <1>6 DEF Folds
  <2>2. \A s \in SUBSET (1..n) :
          g[s] = IF s = {} THEN base ELSE step[<<g[s \ {Max(s)}], Max(s)>>]
    BY <1>6 DEF Folds
  <2>3. \A x \in Drafted, i \in 1..n : step[<<x, i>>] = PlaceLine(c, t, x, i)
    OBVIOUS
  <2>. HIDE DEF step
  <2>4. \A s \in SUBSET (1..n) :
          g[s] = IF s = {} THEN base ELSE ResolveLine(entries, choices, g[s \ {Max(s)}], seq[Max(s)])
    <3>. TAKE s \in SUBSET (1..n)
    <3>1. CASE s = {}
      BY <2>2, <3>1
    <3>2. CASE s # {}
      <4>1. Max(s) \in 1..n /\ g[s \ {Max(s)}] \in Drafted
        BY <2>1, <3>2
      <4>2. g[s] = step[<<g[s \ {Max(s)}], Max(s)>>]
        BY <2>2, <3>2
      <4>3. step[<<g[s \ {Max(s)}], Max(s)>>] = PlaceLine(c, t, g[s \ {Max(s)}], Max(s))
        BY <2>3, <4>1, Zenon
      <4>4. ResolveLine(entries, choices, g[s \ {Max(s)}], seq[Max(s)]) = PlaceLine(c, t, g[s \ {Max(s)}], Max(s))
        BY <1>7, <4>1, Zenon
      <4>. QED BY <3>2, <4>2, <4>3, <4>4
    <3>. QED BY <3>1, <3>2
  <2>5. g = [s \in SUBSET (1..n) |-> g[s]]
    BY <1>6 DEF Folds
  <2>. QED BY <2>4, <2>5
<1>. HIDE DEF step
<1>9. iter = next(iter)
  <2>. HIDE DEF next
  <2>. QED BY <1>8
<1>. HIDE DEF iter
<1>. DEFINE S == {k \in 0..n : PlacedUpTo(c, t, k, iter[1..k]) /\ BrokenUpTo(c, t, k, iter[1..k])}
<1>10. 0 \in S
  <2>1. 1..0 = {} /\ {} \in SUBSET (1..n)
    OBVIOUS
  <2>2. iter[{}] = base
    BY <1>9, <2>1
  <2>3. iter[1..0] = base
    BY <2>1, <2>2
  <2>. HIDE DEF next
  <2>. QED BY <1>0, <1>4, <2>3
<1>11. ASSUME NEW k \in 1..n, k - 1 \in S PROVE k \in S
  <2>1. /\ 1..k \in SUBSET (1..n) /\ 1..k # {}
        /\ Max(1..k) = k /\ (1..k) \ {k} = 1..k - 1
    BY <1>0, PrefixFact
  <2>. DEFINE s == 1..k
  <2>2. iter[s] = IF s = {} THEN base
                  ELSE ResolveLine(entries, choices, iter[s \ {Max(s)}], seq[Max(s)])
    <3>. HIDE DEF s
    <3>. QED BY <1>9, <2>1 DEF s
  <2>. HIDE DEF next
  <2>3. iter[1..k] = ResolveLine(entries, choices, iter[1..k - 1], seq[k])
    BY <2>1, <2>2
  <2>4. iter[1..k] = PlaceLine(c, t, iter[1..k - 1], k)
    BY <1>7, <2>3
  <2>. HIDE DEF S
  <2>5. PlacedUpTo(c, t, k - 1, iter[1..k - 1]) /\ BrokenUpTo(c, t, k - 1, iter[1..k - 1])
    BY <1>11 DEF S
  <2>6. PlacedUpTo(c, t, k, iter[1..k]) /\ BrokenUpTo(c, t, k, iter[1..k])
    <3>1. CASE Stands(c, k)
      BY <1>0, <2>4, <2>5, <3>1, PlaceAdds
    <3>2. CASE ~Stands(c, k)
      BY <1>0, <2>4, <2>5, <3>2, PlaceKeeps
    <3>. QED BY <3>1, <3>2
  <2>7. k \in 0..n
    BY <1>0
  <2>. QED BY <2>6, <2>7 DEF S
<1>. HIDE DEF S
<1>12. n \in S
  <2>1. \A k \in 1..n : k - 1 \in S => k \in S
    BY <1>11
  <2>. HIDE DEF next
  <2>2. \A k \in 0..n : k \in S
    BY <1>0, <1>10, <2>1, Upward
  <2>. QED BY <1>0, <2>2
<1>. QED BY <1>1, <1>12 DEF S, result

-----------------------------------------------------------------------------
(* What the search finds for a line, and whom it is sure of.                 *)
IsLine(line) ==
  /\ line.exact \subseteq Nat \ {Unmatched} /\ IsFiniteSet(line.exact)
  /\ line.hits \in Seq(Nat \ {Unmatched}) /\ line.tier \in Nat \ {Unmatched}

SureOf(line, player) ==
  \/ line.exact = {player}
  \/ line.exact = {} /\ line.hits # <<>> /\ (line.clear \/ Len(line.hits) = 1) /\ line.hits[1] = player

EntryOf(line, entry) ==
  /\ entry.tier = line.tier /\ entry.player \in Nat
  /\ entry.player # Unmatched => SureOf(line, entry.player)

LEMMA MatchFact ==
  ASSUME NEW line, IsLine(line), NEW claimed
  PROVE  EntryOf(line, MatchLine(claimed, line))
<1>. DEFINE found == Candidates(line)
            entry == MatchLine(claimed, line)
<1>1. entry.tier = line.tier
  BY Zenon DEF MatchLine, Entry
<1>2. entry.player = Unmatched \/ (entry.player = found[1] /\ found # <<>> /\ Decisive(line))
  BY DEF MatchLine, Entry
<1>3. ASSUME found # <<>>, Decisive(line)
      PROVE  found[1] \in Nat /\ SureOf(line, found[1])
  <2>1. CASE line.exact # {}
    <3>1. Cardinality(line.exact) = 1 /\ found = Ascending(line.exact)
      BY <1>3, <2>1 DEF Decisive, Candidates
    <3>2. PICK p : line.exact = {p}
      BY <3>1, FS_Singleton DEF IsLine
    <3>3. found \in [1..1 -> line.exact]
      <4>1. /\ line.exact \subseteq Nat /\ IsFiniteSet(line.exact)
        BY DEF IsLine
      <4>. QED BY <3>1, <4>1, AscendingFact
    <3>. QED BY <3>2, <3>3 DEF SureOf, IsLine
  <2>2. CASE line.exact = {}
    <3>1. line.hits # <<>> /\ (line.clear \/ Len(line.hits) = 1)
      BY <1>3, <2>2 DEF Decisive
    <3>. DEFINE m == IF Len(line.hits) < MaxCandidates THEN Len(line.hits) ELSE MaxCandidates
    <3>2. found = SubSeq(line.hits, 1, m)
      BY <2>2 DEF Candidates
    <3>3. line.hits \in Seq(Nat) /\ m \in 1..Len(line.hits)
      BY <3>1 DEF IsLine, MaxCandidates
    <3>. HIDE DEF m
    <3>4. found[1] = line.hits[1] /\ line.hits[1] \in Nat
      BY <3>2, <3>3
    <3>. QED BY <2>2, <3>1, <3>4 DEF SureOf
  <2>. QED BY <2>1, <2>2
<1>. HIDE DEF found, entry
<1>4. entry.player \in Nat /\ (entry.player # Unmatched => SureOf(line, entry.player))
  BY <1>2, <1>3 DEF Unmatched
<1>. QED BY <1>1, <1>4 DEF EntryOf, entry

AreLines(n, lines) == n \in Nat /\ DOMAIN lines = 1..n /\ \A i \in 1..n : IsLine(lines[i])

Entries(n, lines) == {MatchLine(x[1], lines[x[2]]) : x \in (SUBSET Nat) \X (1..n)}

MatchedUpTo(n, lines, k, entries) ==
  /\ entries \in Seq(Entries(n, lines)) /\ Len(entries) = k
  /\ \A i \in 1..k : EntryOf(lines[i], entries[i])

LEMMA MatchKind ==
  ASSUME NEW n, NEW lines, AreLines(n, lines), NEW entries \in Seq(Entries(n, lines)), NEW i \in 1..n
  PROVE  Append(entries, MatchLine(Claimed(entries), lines[i])) \in Seq(Entries(n, lines))
<1>1. \A entry \in Entries(n, lines) : entry.player \in Nat
  <2>. SUFFICES ASSUME NEW x \in (SUBSET Nat) \X (1..n)
                PROVE  MatchLine(x[1], lines[x[2]]).player \in Nat
    BY DEF Entries
  <2>1. IsLine(lines[x[2]])
    BY DEF AreLines
  <2>. QED BY <2>1, MatchFact DEF EntryOf
<1>2. \A j \in DOMAIN entries : entries[j] \in Entries(n, lines)
  OBVIOUS
<1>3. Claimed(entries) \in SUBSET Nat
  BY <1>1, <1>2 DEF Claimed
<1>4. MatchLine(Claimed(entries), lines[i]) \in Entries(n, lines)
  <2>. DEFINE x == <<Claimed(entries), i>>
  <2>1. x \in (SUBSET Nat) \X (1..n) /\ MatchLine(Claimed(entries), lines[i]) = MatchLine(x[1], lines[x[2]])
    BY <1>3
  <2>. HIDE DEF x
  <2>. QED BY <2>1 DEF Entries
<1>. QED BY <1>4

LEMMA MatchStep ==
  ASSUME NEW n, NEW lines, AreLines(n, lines), NEW k \in 1..n, NEW entries,
         MatchedUpTo(n, lines, k - 1, entries)
  PROVE  MatchedUpTo(n, lines, k, Append(entries, MatchLine(Claimed(entries), lines[k])))
<1>. DEFINE entry == MatchLine(Claimed(entries), lines[k])
            E == Entries(n, lines)
<1>1. n \in Nat /\ k \in Nat /\ 1..k = (1..k - 1) \cup {k} /\ (k - 1) + 1 = k
  BY DEF AreLines
<1>2. entries \in Seq(E) /\ Len(entries) = k - 1
  BY DEF MatchedUpTo
<1>3. Append(entries, entry) \in Seq(E)
  BY <1>2, MatchKind
<1>4. EntryOf(lines[k], entry)
  <2>1. IsLine(lines[k])
    BY DEF AreLines
  <2>. QED BY <2>1, MatchFact
<1>. HIDE DEF entry, E
<1>5. /\ Len(Append(entries, entry)) = k /\ Append(entries, entry)[k] = entry
      /\ \A i \in 1..k - 1 : Append(entries, entry)[i] = entries[i]
  BY <1>1, <1>2
<1>6. \A i \in 1..k : EntryOf(lines[i], Append(entries, entry)[i])
  <2>. SUFFICES ASSUME NEW i \in 1..k PROVE EntryOf(lines[i], Append(entries, entry)[i])
    OBVIOUS
  <2>1. CASE i = k
    BY <1>4, <1>5, <2>1
  <2>2. CASE i \in 1..k - 1
    BY <1>5, <2>2 DEF MatchedUpTo
  <2>. QED BY <1>1, <2>1, <2>2
<1>. QED BY <1>3, <1>5, <1>6 DEF MatchedUpTo, entry, E

LEMMA MatchedFact ==
  ASSUME NEW n, NEW lines, AreLines(n, lines)
  PROVE  MatchedUpTo(n, lines, n, MatchSheet(lines))
<1>. DEFINE V == Seq(Entries(n, lines))
            base == <<>>
            step == [x \in V \X (1..n) |-> Append(x[1], MatchLine(Claimed(x[1]), lines[x[2]]))]
            next(f) == [s \in SUBSET (1..n) |->
                          IF s = {} THEN base
                          ELSE Append(f[s \ {Max(s)}], MatchLine(Claimed(f[s \ {Max(s)}]), lines[Max(s)]))]
            iter == CHOOSE f : f = next(f)
            result == MatchSheet(lines)
<1>0. n \in Nat /\ DOMAIN lines = 1..n
  BY DEF AreLines
<1>1. result = iter[1..n]
  BY Zenon, <1>0 DEF FoldLeft, MapThenFoldSet, MatchSheet
<1>. HIDE DEF result
<1>2. \A x \in V, i \in 1..n : Append(x, MatchLine(Claimed(x), lines[i])) \in V
  BY MatchKind
<1>3. base \in V
  OBVIOUS
<1>4. MatchedUpTo(n, lines, 0, base)
  <2>1. 1..0 = {} /\ Len(base) = 0
    OBVIOUS
  <2>. QED BY <1>3, <2>1 DEF MatchedUpTo
<1>. HIDE DEF V, base
<1>5. step \in [V \X (1..n) -> V]
  BY <1>2
<1>6. PICK g : Folds(n, V, base, step, g)
  <2>. HIDE DEF step
  <2>. QED BY <1>0, <1>3, <1>5, FoldExists
<1>7. g = next(g)
  BY <1>6 DEF Folds
<1>. HIDE DEF step
<1>8. iter = next(iter)
  <2>. HIDE DEF next
  <2>. QED BY <1>7
<1>. HIDE DEF iter
<1>. DEFINE S == {k \in 0..n : MatchedUpTo(n, lines, k, iter[1..k])}
<1>9. 0 \in S
  <2>1. 1..0 = {} /\ {} \in SUBSET (1..n)
    OBVIOUS
  <2>2. iter[{}] = base
    BY <1>8, <2>1
  <2>3. iter[1..0] = base
    BY <2>1, <2>2
  <2>. HIDE DEF next
  <2>. QED BY <1>0, <1>4, <2>3
<1>10. ASSUME NEW k \in 1..n, k - 1 \in S PROVE k \in S
  <2>1. /\ 1..k \in SUBSET (1..n) /\ 1..k # {}
        /\ Max(1..k) = k /\ (1..k) \ {k} = 1..k - 1
    BY <1>0, PrefixFact
  <2>. DEFINE s == 1..k
              before == iter[s \ {Max(s)}]
  <2>2. iter[s] = IF s = {} THEN base ELSE Append(before, MatchLine(Claimed(before), lines[Max(s)]))
    <3>. HIDE DEF s
    <3>. QED BY <1>8, <2>1 DEF s
  <2>. HIDE DEF next
  <2>3. iter[1..k] = Append(iter[1..k - 1], MatchLine(Claimed(iter[1..k - 1]), lines[k]))
    BY <2>1, <2>2
  <2>. HIDE DEF S
  <2>4. MatchedUpTo(n, lines, k - 1, iter[1..k - 1])
    BY <1>10 DEF S
  <2>5. MatchedUpTo(n, lines, k, iter[1..k])
    BY <2>3, <2>4, MatchStep
  <2>6. k \in 0..n
    BY <1>0
  <2>. QED BY <2>5, <2>6 DEF S
<1>. HIDE DEF S
<1>11. n \in S
  <2>1. \A k \in 1..n : k - 1 \in S => k \in S
    BY <1>10
  <2>. HIDE DEF next
  <2>2. \A k \in 0..n : k \in S
    BY <1>0, <1>9, <2>1, Upward
  <2>. QED BY <1>0, <2>2
<1>. QED BY <1>1, <1>11 DEF S, result

ShownRows(n, shown) == {i \in 1..n : shown[i] # 0}
RanksOf(rows, shown) == {shown[i] : i \in rows}

(* The rows shown with a rank are the players of the sheet, each once and in  *)
(* order, with a break between neighbours of different tiers and nobody whom  *)
(* neither the search was sure of nor a person named.                         *)
SheetIsTheOneShown(n, lines, choices, shown, saved) ==
  LET at == ShownRows(n, shown)
  IN  /\ RanksOf(at, shown) = DOMAIN saved.ranking /\ Cardinality(at) = Len(saved.ranking)
      /\ NamedOnce(saved.ranking)
      /\ \A i, j \in at : /\ i < j => shown[i] < shown[j]
                          /\ shown[j] = shown[i] + 1 =>
                               (shown[i] \in saved.tiers <=> lines[i].tier # lines[j].tier)
      /\ \A i \in at : IF i \in DOMAIN choices THEN saved.ranking[shown[i]] = choices[i]
                       ELSE SureOf(lines[i], saved.ranking[shown[i]])

LEMMA ShownFact ==
  ASSUME NEW n, NEW c, NEW t, NEW entries, NEW choices, Answering(n, c, t, entries, choices)
  PROVE  \A i \in 1..n : PlanRanks(entries, choices)[i] = IF Stands(c, i) THEN StandsAt(c, i) ELSE 0
<1>. SUFFICES ASSUME NEW i \in 1..n
              PROVE  PlanRanks(entries, choices)[i] = IF Stands(c, i) THEN StandsAt(c, i) ELSE 0
  OBVIOUS
<1>. DEFINE before == {ChosenFor(entries, choices, j) : j \in 1..i - 1} \ {Unmatched}
<1>1. PlanRanks(entries, choices)[i] =
        IF ChosenFor(entries, choices, i) \notin before \cup {Unmatched} THEN Cardinality(before) + 1 ELSE 0
  BY Zenon DEF PlanRanks, Answering
<1>2. \A j \in 1..n : c[j] = ChosenFor(entries, choices, j)
  BY DEF Answering
<1>3. before = Named(c, i - 1)
  <2>1. n \in Nat /\ 1..i - 1 \subseteq 1..n
    BY DEF Answering, Choosing
  <2>. QED BY <1>2, <2>1 DEF Named
<1>. HIDE DEF before
<1>. QED BY <1>1, <1>2, <1>3 DEF Stands, StandsAt

LEMMA ShownOnce ==
  ASSUME NEW n, NEW c, NEW t, Choosing(n, c, t), NEW sheet,
         PlacedUpTo(c, t, n, sheet), NEW shown,
         \A i \in 1..n : shown[i] = IF Stands(c, i) THEN StandsAt(c, i) ELSE 0
  PROVE  LET at == ShownRows(n, shown)
         IN  /\ \A i \in at : i \in 1..n /\ Stands(c, i)
             /\ RanksOf(at, shown) = 1..Len(sheet.ranking) /\ Cardinality(at) = Len(sheet.ranking)
<1>. DEFINE at == ShownRows(n, shown)
            m == Len(sheet.ranking)
            place == [i \in at |-> shown[i]]
<1>1. n \in Nat /\ m \in Nat
  BY DEF Choosing, PlacedUpTo, Drafted
<1>2. \A i \in 1..n : Stands(c, i) => shown[i] \in 1..m
  BY DEF PlacedUpTo
<1>3. at = {i \in 1..n : Stands(c, i)}
  BY <1>1, <1>2 DEF ShownRows
<1>4. \A r \in 1..m : \E i \in at : shown[i] = r
  BY <1>3 DEF PlacedUpTo
<1>5. \A i, j \in at : i < j => shown[i] # shown[j]
  <2>. SUFFICES ASSUME NEW i \in at, NEW j \in at, i < j PROVE shown[i] # shown[j]
    OBVIOUS
  <2>1. i \in 1..n /\ j \in 1..n /\ Stands(c, i) /\ Stands(c, j)
    BY <1>3
  <2>2. StandsAt(c, i) \in Nat /\ StandsAt(c, j) \in Nat /\ StandsAt(c, i) < StandsAt(c, j)
    BY <2>1, StandsInOrder
  <2>. QED BY <2>1, <2>2
<1>6. at \subseteq 1..n /\ \A i \in at : shown[i] \in 1..m
  BY <1>2, <1>3
<1>. HIDE DEF at, m
<1>7. RanksOf(at, shown) = 1..m
  BY <1>4, <1>6 DEF RanksOf
<1>8. place \in Bijection(at, 1..m)
  <2>1. place \in [at -> 1..m]
    BY <1>6
  <2>2. \A i, j \in at : place[i] = place[j] => i = j
    BY <1>1, <1>5, <1>6
  <2>3. \A r \in 1..m : \E i \in at : place[i] = r
    BY <1>4
  <2>. HIDE DEF place
  <2>. QED BY <2>1, <2>2, <2>3 DEF Bijection, Injection, Surjection, IsInjective
<1>9. Cardinality(at) = m
  <2>1. IsFiniteSet(1..n) /\ IsFiniteSet(1..m) /\ Cardinality(1..m) = m
    <3>1. 1 \in Int /\ n \in Int /\ m \in Int /\ m - 1 + 1 = m
      BY <1>1
    <3>. QED BY <1>1, <3>1, FS_Interval
  <2>2. IsFiniteSet(at)
    BY <1>6, <2>1, FS_Subset
  <2>3. ExistsBijection(at, 1..m)
    BY <1>8 DEF ExistsBijection
  <2>. QED BY <2>1, <2>2, <2>3, FS_Bijection
<1>. QED BY <1>3, <1>7, <1>9 DEF at, m

(* A list pasted, matched and confirmed (sheets/match.ts), of any length, any *)
(* finds and any answers: the sheet saved is the one the confirm step showed  *)
(* (sheets/actions.ts).                                                       *)
THEOREM SavedAsShown ==
  ASSUME NEW n, NEW lines, AreLines(n, lines),
         NEW choices, \A i \in DOMAIN choices : choices[i] \in Nat
  PROVE  LET entries == MatchSheet(lines)
         IN  /\ DOMAIN entries = 1..n
             /\ SheetIsTheOneShown(n, lines, choices, PlanRanks(entries, choices), ResolveSheet(entries, choices))
<1>. DEFINE entries == MatchSheet(lines)
            c == [i \in 1..n |-> ChosenFor(entries, choices, i)]
            t == [i \in 1..n |-> entries[i].tier]
            seq == [i \in 1..n |-> i]
            shown == PlanRanks(entries, choices)
            saved == ResolveSheet(entries, choices)
            sheet == Resolved(entries, choices, seq)
            at == ShownRows(n, shown)
<1>1. n \in Nat /\ \A i \in 1..n : IsLine(lines[i])
  BY DEF AreLines
<1>2. entries \in Seq(Entries(n, lines)) /\ Len(entries) = n /\ \A i \in 1..n : EntryOf(lines[i], entries[i])
  BY MatchedFact DEF MatchedUpTo
<1>3. DOMAIN entries = 1..n
  BY <1>2
<1>. HIDE DEF entries
<1>4. \A i \in 1..n : ChosenFor(entries, choices, i) \in Nat /\ entries[i].tier = lines[i].tier
  BY <1>2 DEF ChosenFor, EntryOf
<1>5. \A i \in 1..n : lines[i].tier \in Nat \ {Unmatched}
  BY <1>1 DEF IsLine
<1>6. Answering(n, c, t, entries, choices)
  <2>1. c \in [1..n -> Nat] /\ t \in [1..n -> Nat \ {Unmatched}]
    BY <1>4, <1>5
  <2>. QED BY <1>1, <1>3, <2>1 DEF Answering, Choosing
<1>7. \A i \in 1..n : c[i] = ChosenFor(entries, choices, i) /\ t[i] = lines[i].tier
  BY <1>4
<1>. HIDE DEF c, t
<1>8. saved = NewSheet(sheet.ranking, sheet.tiers)
  BY Zenon, <1>3 DEF ResolveSheet, Resolved
<1>9. saved.ranking = sheet.ranking /\ saved.tiers = sheet.tiers
  BY <1>8 DEF NewSheet
<1>10. PlacedUpTo(c, t, n, sheet) /\ BrokenUpTo(c, t, n, sheet)
  <2>1. seq \in [1..n -> 1..n] /\ \A i \in 1..n : seq[i] = i
    OBVIOUS
  <2>. HIDE DEF seq
  <2>. QED BY <1>6, <2>1, ResolvedFact
<1>11. \A i \in 1..n : shown[i] = IF Stands(c, i) THEN StandsAt(c, i) ELSE 0
  BY <1>6, ShownFact
<1>12. Choosing(n, c, t)
  BY <1>6 DEF Answering
<1>. HIDE DEF shown, saved, sheet
<1>13. /\ \A i \in at : i \in 1..n /\ Stands(c, i)
       /\ RanksOf(at, shown) = 1..Len(sheet.ranking) /\ Cardinality(at) = Len(sheet.ranking)
  BY <1>10, <1>11, <1>12, ShownOnce
<1>14. DOMAIN saved.ranking = 1..Len(saved.ranking) /\ NamedOnce(saved.ranking)
  <2>1. sheet.ranking \in Seq(Nat) /\ Len(sheet.ranking) = Cardinality(ToSet(sheet.ranking))
    BY <1>10 DEF PlacedUpTo, Drafted
  <2>. QED BY <1>9, <2>1 DEF NamedOnce
<1>15. \A i \in at : i \in 1..n /\ Stands(c, i) /\ shown[i] = StandsAt(c, i)
  BY <1>11, <1>13
<1>. HIDE DEF at
<1>16. ASSUME NEW i \in at, NEW j \in at
       PROVE  /\ i < j => shown[i] < shown[j]
              /\ shown[j] = shown[i] + 1 => (shown[i] \in saved.tiers <=> lines[i].tier # lines[j].tier)
  <2>1. /\ i \in 1..n /\ Stands(c, i) /\ shown[i] = StandsAt(c, i)
        /\ j \in 1..n /\ Stands(c, j) /\ shown[j] = StandsAt(c, j)
    BY <1>15
  <2>2. i < j => StandsAt(c, i) < StandsAt(c, j)
    BY <1>12, <2>1, StandsInOrder
  <2>3. StandsAt(c, j) = StandsAt(c, i) + 1 => (StandsAt(c, i) \in sheet.tiers <=> t[i] # t[j])
    BY <1>10, <2>1 DEF BrokenUpTo
  <2>. QED BY <1>7, <1>9, <2>1, <2>2, <2>3
<1>17. ASSUME NEW i \in at
       PROVE  IF i \in DOMAIN choices THEN saved.ranking[shown[i]] = choices[i]
              ELSE SureOf(lines[i], saved.ranking[shown[i]])
  <2>1. i \in 1..n /\ Stands(c, i) /\ shown[i] = StandsAt(c, i)
    BY <1>15
  <2>2. saved.ranking[shown[i]] = c[i] /\ c[i] # Unmatched
    BY <1>9, <1>10, <2>1 DEF PlacedUpTo, Stands
  <2>3. i \notin DOMAIN choices => c[i] = entries[i].player
    BY <1>7, <2>1 DEF ChosenFor
  <2>4. i \in DOMAIN choices => c[i] = choices[i]
    BY <1>7, <2>1 DEF ChosenFor
  <2>5. entries[i].player # Unmatched => SureOf(lines[i], entries[i].player)
    BY <1>2, <2>1 DEF EntryOf
  <2>. QED BY <2>2, <2>3, <2>4, <2>5
<1>18. SheetIsTheOneShown(n, lines, choices, shown, saved)
  BY <1>9, <1>13, <1>14, <1>16, <1>17 DEF SheetIsTheOneShown, at
<1>. QED BY <1>3, <1>18 DEF shown, saved, entries

(* What the lists asked about find is as a search finds it.                 *)
LEMMA WrittenFact ==
  \A line \in Written3 : IsLine(line) /\ (line.exact = {} => Len(line.hits) # 1)
<1>. SUFFICES ASSUME NEW line \in Written3
              PROVE  IsLine(line) /\ (line.exact = {} => Len(line.hits) # 1)
  OBVIOUS
<1>1. PICK f \in Finds, tier \in 1..2 :
        line = [exact |-> f.exact, hits |-> f.hits, clear |-> f.clear, tier |-> tier]
  BY SMT DEF Written3
<1>2. line.exact = f.exact /\ line.hits = f.hits /\ line.tier = tier
  BY <1>1
<1>3. f.exact \in {{}, {1}, {1, 2}} /\ f.hits \in {<<>>, <<2, 1>>, <<1, 3>>}
  BY DEF Finds
<1>4. IsFiniteSet({}) /\ IsFiniteSet({1}) /\ IsFiniteSet({1, 2})
  <2>1. IsFiniteSet({}) /\ IsFiniteSet({1})
    BY FS_EmptySet, FS_Singleton
  <2>2. IsFiniteSet({1} \cup {2}) /\ {1} \cup {2} = {1, 2}
    BY <2>1, FS_AddElement
  <2>. QED BY <2>1, <2>2
<1>5. /\ f.exact \subseteq Nat \ {Unmatched} /\ IsFiniteSet(f.exact)
      /\ f.hits \in Seq(Nat \ {Unmatched}) /\ Len(f.hits) # 1
  <2>1. f.exact \subseteq Nat \ {Unmatched} /\ IsFiniteSet(f.exact)
    <3>1. f.exact = {} \/ f.exact = {1} \/ f.exact = {1, 2}
      BY <1>3
    <3>2. IsFiniteSet(f.exact)
      BY <1>4, <3>1
    <3>. QED BY <3>1, <3>2 DEF Unmatched
  <2>2. f.hits \in Seq(Nat \ {Unmatched}) /\ Len(f.hits) # 1
    <3>1. CASE f.hits = <<>>
      BY <3>1
    <3>2. CASE f.hits = <<2, 1>>
      BY <3>2 DEF Unmatched
    <3>3. CASE f.hits = <<1, 3>>
      BY <3>3 DEF Unmatched
    <3>. QED BY <1>3, <3>1, <3>2, <3>3
  <2>. QED BY <2>1, <2>2
<1>. QED BY <1>2, <1>5 DEF IsLine, Unmatched

LEMMA PasteAnswers == ASSUME IsPaste PROVE SavedSheetIsTheOneShown
<1>. DEFINE lines == question.lines
            choices == question.choices
            n == Len(lines)
            entries == MatchSheet(lines)
            shown == PlanRanks(entries, choices)
            saved == ResolveSheet(entries, choices)
            at == {i \in DOMAIN lines : shown[i] # 0}
<1>1. PICK ls \in UpTo(Written3, 3) :
        \E answered \in SUBSET DOMAIN ls : \E answers \in [answered -> {0, 1, 3}] :
          question = [kind |-> "paste", lines |-> ls, choices |-> answers]
  BY Zenon DEF IsPaste
<1>2. PICK answered \in SUBSET DOMAIN ls : lines = ls /\ choices \in [answered -> {0, 1, 3}]
  BY <1>1
<1>3. PICK k \in 0..3 : lines \in [1..k -> Written3]
  BY <1>2, Zenon DEF UpTo, Tuples
<1>4. AreLines(k, lines) /\ DOMAIN lines = 1..k
  BY <1>3, WrittenFact DEF AreLines
<1>5. \A i \in DOMAIN choices : choices[i] \in Nat
  BY <1>2
<1>. HIDE DEF lines, choices
<1>6. SheetIsTheOneShown(k, lines, choices, shown, saved)
  BY <1>4, <1>5, SavedAsShown
<1>. HIDE DEF entries, shown, saved
<1>7. ASSUME NEW i \in at, SureOf(lines[i], saved.ranking[shown[i]])
      PROVE  \/ lines[i].exact = {saved.ranking[shown[i]]}
             \/ lines[i].exact = {} /\ lines[i].clear /\ lines[i].hits[1] = saved.ranking[shown[i]]
  <2>1. lines[i] \in Written3
    BY <1>3, <1>4
  <2>. QED BY <1>7, <2>1, WrittenFact DEF SureOf
<1>8. /\ RanksOf(at, shown) = DOMAIN saved.ranking /\ Cardinality(at) = Len(saved.ranking)
      /\ NamedOnce(saved.ranking)
      /\ \A i, j \in at : /\ i < j => shown[i] < shown[j]
                          /\ shown[j] = shown[i] + 1 =>
                               (shown[i] \in saved.tiers <=> lines[i].tier # lines[j].tier)
      /\ \A i \in at : IF i \in DOMAIN choices THEN saved.ranking[shown[i]] = choices[i]
                       ELSE SureOf(lines[i], saved.ranking[shown[i]])
  <2>1. at = ShownRows(k, shown)
    BY <1>4 DEF ShownRows
  <2>. HIDE DEF at
  <2>. QED BY <1>6, <2>1, Zenon DEF SheetIsTheOneShown
<1>9. \A i \in at : IF i \in DOMAIN choices THEN saved.ranking[shown[i]] = choices[i]
                    ELSE \/ lines[i].exact = {saved.ranking[shown[i]]}
                         \/ lines[i].exact = {} /\ lines[i].clear /\ lines[i].hits[1] = saved.ranking[shown[i]]
  BY <1>7, <1>8, Zenon
<1>. HIDE DEF at
<1>. QED BY <1>8, <1>9, Zenon DEF RanksOf, SavedSheetIsTheOneShown, at, shown, saved, entries, lines, choices

LEMMA PasteAsked ==
  ASSUME Posed
  PROVE  SavedSheetIsTheOneShown
<1>1. CASE ~Asked("paste")
  BY <1>1, Zenon DEF SavedSheetIsTheOneShown
<1>2. CASE Asked("paste")
  BY <1>2, KindFact, PasteAnswers
<1>. QED BY <1>1, <1>2

(* The sheet saved from any list asked about is the one the confirm step      *)
(* showed: SavedAsShown, of those lists and answers.                          *)
THEOREM SavedSheetAlwaysShown == RulesSpec => []SavedSheetIsTheOneShown
BY PasteAsked, PosedAlways, PTL

-----------------------------------------------------------------------------
(* The history.  Groups of rows that have no row in common.                  *)
Disjointed(n, groups) ==
  /\ groups \subseteq SUBSET (1..n) /\ {} \notin groups
  /\ \A g, h \in groups : g = h \/ g \cap h = {}

AreRows(n, rows) == n \in Nat /\ DOMAIN rows = 1..n /\ \A i \in 1..n : rows[i].time \in Int

LEMMA SwapFact ==
  ASSUME NEW n, NEW rows, AreRows(n, rows), NEW taken, NEW i
  PROVE  SwapOf(rows, taken, i) \in SUBSET (1..n) /\ SwapOf(rows, taken, i) \cap taken = {}
<1>. DEFINE live == {j \in DOMAIN rows : IsMove(rows[j]) /\ rows[j].event = FromOfficialData}
            same == {j \in live \ taken : rows[j].fromRound = rows[i].fromRound}
            addsB == {j \in same : /\ rows[j].type = "add"
                                   /\ MemberOf(rows[j]) # MemberOf(rows[i])
                                   /\ Meets(IdsOf(rows[j]), IdsOf(rows[i]))}
            addB == FirstOf(addsB)
            dropsB == {j \in same : rows[j].type = "drop" /\ MemberOf(rows[j]) = MemberOf(rows[addB])}
            dropB == IF addB = 0 THEN 0 ELSE FirstOf(dropsB)
            addsA == {j \in same : /\ rows[j].type = "add"
                                   /\ MemberOf(rows[j]) = MemberOf(rows[i])
                                   /\ Meets(IdsOf(rows[j]), IdsOf(rows[dropB]))}
            addA == IF dropB = 0 THEN 0 ELSE FirstOf(addsA)
            swap == SwapOf(rows, taken, i)
<1>1. n \in Nat /\ DOMAIN rows = 1..n
  BY DEF AreRows
<1>2. \A S \in SUBSET (1..n) : FirstOf(S) # 0 => FirstOf(S) \in S
  <2>. SUFFICES ASSUME NEW S \in SUBSET (1..n), FirstOf(S) # 0 PROVE FirstOf(S) \in S
    OBVIOUS
  <2>1. S # {} /\ FirstOf(S) = Min(S)
    BY DEF FirstOf
  <2>2. S \in SUBSET Nat
    OBVIOUS
  <2>. QED BY <2>1, <2>2, NatMin
<1>3. swap = {} \/ (swap = {i, addB, dropB, addA} /\ i \in live \ taken /\ addA # 0)
  BY Zenon DEF SwapOf
<1>4. same \subseteq live \ taken /\ live \subseteq 1..n
  BY <1>1
<1>5. addsB \subseteq same /\ dropsB \subseteq same /\ addsA \subseteq same
  OBVIOUS
<1>. HIDE DEF addsB, dropsB, addsA, same, live, swap
<1>6. addA # 0 => addA \in addsA /\ dropB \in dropsB /\ addB \in addsB
  <2>1. \A S \in {addsA, addsB, dropsB} : FirstOf(S) # 0 => FirstOf(S) \in S
    BY <1>2, <1>4, <1>5
  <2>. QED BY <2>1
<1>. HIDE DEF addA, addB, dropB
<1>7. swap \subseteq live \ taken
  <2>1. CASE swap = {}
    BY <2>1
  <2>2. CASE swap = {i, addB, dropB, addA} /\ i \in live \ taken /\ addA # 0
    <3>1. addB \in same /\ dropB \in same /\ addA \in same
      BY <1>5, <1>6, <2>2
    <3>2. {i, addB, dropB, addA} \subseteq live \ taken
      BY <1>4, <2>2, <3>1
    <3>. QED BY <2>2, <3>2
  <2>. QED BY <1>3, <2>1, <2>2
<1>. QED BY <1>4, <1>7 DEF swap

WithSwap(rows, found, i) ==
  IF SwapOf(rows, UNION found, i) = {} THEN found ELSE found \cup {SwapOf(rows, UNION found, i)}

LEMMA SwapKeeps ==
  ASSUME NEW n, NEW rows, AreRows(n, rows), NEW found, Disjointed(n, found), NEW i
  PROVE  Disjointed(n, WithSwap(rows, found, i))
<1>. DEFINE swap == SwapOf(rows, UNION found, i)
<1>1. swap \in SUBSET (1..n) /\ swap \cap UNION found = {}
  BY SwapFact
<1>2. WithSwap(rows, found, i) = IF swap = {} THEN found ELSE found \cup {swap}
  BY DEF WithSwap
<1>. HIDE DEF swap
<1>3. CASE swap = {}
  BY <1>2, <1>3
<1>4. CASE swap # {}
  <2>1. \A g \in found : g \cap swap = {}
    BY <1>1
  <2>2. WithSwap(rows, found, i) = found \cup {swap}
    BY <1>2, <1>4
  <2>3. found \cup {swap} \subseteq SUBSET (1..n) /\ {} \notin found \cup {swap}
    BY <1>1, <1>4 DEF Disjointed
  <2>4. \A g, h \in found \cup {swap} : g = h \/ g \cap h = {}
    <3>. SUFFICES ASSUME NEW g \in found \cup {swap}, NEW h \in found \cup {swap}, g # h
                  PROVE  g \cap h = {}
      OBVIOUS
    <3>1. CASE g \in found /\ h \in found
      BY <3>1 DEF Disjointed
    <3>2. CASE g = swap \/ h = swap
      BY <2>1, <3>2
    <3>. QED BY <3>1, <3>2
  <2>. QED BY <2>2, <2>3, <2>4 DEF Disjointed
<1>. QED BY <1>3, <1>4

SwapsFound(rows, seq) ==
  FoldLeft(LAMBDA found, i : LET swap == SwapOf(rows, UNION found, i)
                             IN  IF swap = {} THEN found ELSE found \cup {swap}, {}, seq)

LEMMA SwapsApart ==
  ASSUME NEW n, NEW rows, AreRows(n, rows), NEW seq \in [1..n -> 1..n]
  PROVE  Disjointed(n, SwapsFound(rows, seq))
<1>. DEFINE V == {found \in SUBSET SUBSET (1..n) : Disjointed(n, found)}
            base == {}
            step == [x \in V \X (1..n) |-> WithSwap(rows, x[1], seq[x[2]])]
            next(f) == [s \in SUBSET (1..n) |->
                          IF s = {} THEN base ELSE WithSwap(rows, f[s \ {Max(s)}], seq[Max(s)])]
            iter == CHOOSE f : f = next(f)
            result == SwapsFound(rows, seq)
<1>0. n \in Nat
  BY DEF AreRows
<1>1. result = iter[1..n]
  BY Zenon DEF FoldLeft, MapThenFoldSet, WithSwap, SwapsFound
<1>. HIDE DEF result
<1>2. \A x \in V, i \in 1..n : WithSwap(rows, x, seq[i]) \in V
  <2>. TAKE x \in V, i \in 1..n
  <2>1. Disjointed(n, WithSwap(rows, x, seq[i]))
    BY SwapKeeps
  <2>. QED BY <2>1 DEF Disjointed
<1>3. base \in V
  BY DEF Disjointed
<1>. HIDE DEF V, base
<1>5. step \in [V \X (1..n) -> V]
  BY <1>2
<1>6. PICK g : Folds(n, V, base, step, g)
  <2>. HIDE DEF step
  <2>. QED BY <1>0, <1>3, <1>5, FoldExists
<1>7. g = next(g)
  BY <1>6 DEF Folds
<1>. HIDE DEF step
<1>8. iter = next(iter)
  <2>. HIDE DEF next
  <2>. QED BY <1>7
<1>. HIDE DEF iter
<1>. DEFINE S == {k \in 0..n : iter[1..k] \in V}
<1>9. 0 \in S
  <2>1. 1..0 = {} /\ {} \in SUBSET (1..n)
    OBVIOUS
  <2>2. iter[{}] = base
    BY <1>8, <2>1
  <2>3. iter[1..0] = base
    BY <2>1, <2>2
  <2>. HIDE DEF next
  <2>. QED BY <1>0, <1>3, <2>3
<1>10. ASSUME NEW k \in 1..n, k - 1 \in S PROVE k \in S
  <2>1. /\ 1..k \in SUBSET (1..n) /\ 1..k # {}
        /\ Max(1..k) = k /\ (1..k) \ {k} = 1..k - 1
    BY <1>0, PrefixFact
  <2>. DEFINE s == 1..k
  <2>2. iter[s] = IF s = {} THEN base ELSE WithSwap(rows, iter[s \ {Max(s)}], seq[Max(s)])
    <3>. HIDE DEF s
    <3>. QED BY <1>8, <2>1 DEF s
  <2>. HIDE DEF next
  <2>3. iter[1..k] = WithSwap(rows, iter[1..k - 1], seq[k])
    BY <2>1, <2>2
  <2>4. k \in 0..n
    BY <1>0
  <2>. QED BY <1>2, <1>10, <2>3, <2>4
<1>. HIDE DEF S
<1>11. n \in S
  <2>1. \A k \in 1..n : k - 1 \in S => k \in S
    BY <1>10
  <2>. HIDE DEF next
  <2>2. \A k \in 0..n : k \in S
    BY <1>0, <1>9, <2>1, Upward
  <2>. QED BY <1>0, <2>2
<1>. QED BY <1>1, <1>11 DEF S, V, result

-----------------------------------------------------------------------------
(* A team's rows of a round that hang together in time.                      *)
MoveKey(rows, i) == <<MemberOf(rows[i]), rows[i].fromRound, rows[i].event>>
MoveGroup(rows, free, i) == {j \in free : MoveKey(rows, j) = MoveKey(rows, i)}
MoveCluster(rows, free, i) == {j \in MoveGroup(rows, free, i) : SameCluster(rows, MoveGroup(rows, free, i), i, j)}

(* A row of the group is followed within the window.                         *)
Followed(rows, group, k) ==
  \E l \in group : rows[l].time \in rows[k].time + 1..rows[k].time + SyncWindow

Chained(rows, group, i, j) ==
  \A k \in group :
    /\ rows[i].time <= rows[k].time /\ rows[k].time < rows[j].time => Followed(rows, group, k)
    /\ rows[j].time <= rows[k].time /\ rows[k].time < rows[i].time => Followed(rows, group, k)

LEMMA ClusterFact ==
  ASSUME NEW n, NEW rows, AreRows(n, rows), NEW group \in SUBSET (1..n), NEW i \in 1..n, NEW j \in 1..n
  PROVE  SameCluster(rows, group, i, j) <=>
           rows[i].event # FromOfficialData \/ Chained(rows, group, i, j)
<1>. DEFINE early == IF rows[i].time <= rows[j].time THEN rows[i].time ELSE rows[j].time
            late  == IF rows[i].time <= rows[j].time THEN rows[j].time ELSE rows[i].time
<1>1. SameCluster(rows, group, i, j) <=>
        \/ rows[i].event # FromOfficialData
        \/ \A k \in group : rows[k].time \in early..late - 1 => Followed(rows, group, k)
  BY Zenon DEF SameCluster, Followed
<1>2. rows[i].time \in Int /\ rows[j].time \in Int /\ \A k \in group : rows[k].time \in Int
  BY DEF AreRows
<1>3. \A k \in group : rows[k].time \in early..late - 1 <=>
        \/ rows[i].time <= rows[k].time /\ rows[k].time < rows[j].time
        \/ rows[j].time <= rows[k].time /\ rows[k].time < rows[i].time
  BY <1>2
<1>. HIDE DEF early, late
<1>4. (\A k \in group : rows[k].time \in early..late - 1 => Followed(rows, group, k))
        <=> Chained(rows, group, i, j)
  BY <1>3, Zenon DEF Chained
<1>. QED BY <1>1, <1>4

LEMMA ChainedIsEquivalence ==
  ASSUME NEW n, NEW rows, AreRows(n, rows), NEW group \in SUBSET (1..n)
  PROVE  /\ \A i \in group : Chained(rows, group, i, i)
         /\ \A i, j \in group : Chained(rows, group, i, j) => Chained(rows, group, j, i)
         /\ \A i, j, k \in group :
              Chained(rows, group, i, j) /\ Chained(rows, group, j, k) => Chained(rows, group, i, k)
<1>1. \A k \in group : rows[k].time \in Int
  BY DEF AreRows
<1>2. \A i \in group : Chained(rows, group, i, i)
  BY <1>1 DEF Chained
<1>3. \A i, j \in group : Chained(rows, group, i, j) => Chained(rows, group, j, i)
  BY Zenon DEF Chained
<1>4. ASSUME NEW i \in group, NEW j \in group, NEW k \in group,
             Chained(rows, group, i, j), Chained(rows, group, j, k)
      PROVE  Chained(rows, group, i, k)
  <2>. SUFFICES ASSUME NEW l \in group,
                       \/ rows[i].time <= rows[l].time /\ rows[l].time < rows[k].time
                       \/ rows[k].time <= rows[l].time /\ rows[l].time < rows[i].time
                PROVE  Followed(rows, group, l)
    BY Zenon DEF Chained
  <2>1. \/ rows[i].time <= rows[l].time /\ rows[l].time < rows[j].time
        \/ rows[j].time <= rows[l].time /\ rows[l].time < rows[i].time
        \/ rows[j].time <= rows[l].time /\ rows[l].time < rows[k].time
        \/ rows[k].time <= rows[l].time /\ rows[l].time < rows[j].time
    BY <1>1
  <2>. QED BY <1>4, <2>1, Zenon DEF Chained
<1>. QED BY <1>2, <1>3, <1>4

LEMMA ClustersApart ==
  ASSUME NEW n, NEW rows, AreRows(n, rows), NEW free \in SUBSET (1..n), NEW i \in free, NEW j \in free
  PROVE  /\ i \in MoveCluster(rows, free, i) /\ MoveCluster(rows, free, i) \subseteq free
         /\ \/ MoveCluster(rows, free, i) = MoveCluster(rows, free, j)
            \/ MoveCluster(rows, free, i) \cap MoveCluster(rows, free, j) = {}
<1>. DEFINE group == MoveGroup(rows, free, i)
            event == rows[i].event # FromOfficialData
<1>1. /\ group \in SUBSET (1..n) /\ group \subseteq free /\ i \in group
      /\ \A k \in group : rows[k].event = rows[i].event
  BY DEF MoveGroup, MoveKey
<1>2. \A k \in free : k \in group <=> MoveKey(rows, k) = MoveKey(rows, i)
  BY DEF MoveGroup
<1>3. \A k \in free : ~(k \in group) => MoveGroup(rows, free, k) \cap group = {}
  BY <1>2 DEF MoveGroup
<1>4. \A k \in group : MoveGroup(rows, free, k) = group
  BY <1>2 DEF MoveGroup
<1>. HIDE DEF group
<1>5. \A k, l \in group : SameCluster(rows, group, k, l) <=> event \/ Chained(rows, group, k, l)
  BY <1>1, ClusterFact
<1>6. /\ \A k \in group : Chained(rows, group, k, k)
      /\ \A k, l \in group : Chained(rows, group, k, l) => Chained(rows, group, l, k)
      /\ \A k, l, m \in group :
           Chained(rows, group, k, l) /\ Chained(rows, group, l, m) => Chained(rows, group, k, m)
  BY <1>1, ChainedIsEquivalence
<1>7. \A k \in group : MoveCluster(rows, free, k) = {l \in group : event \/ Chained(rows, group, k, l)}
  BY <1>4, <1>5, Zenon DEF MoveCluster
<1>8. i \in MoveCluster(rows, free, i) /\ MoveCluster(rows, free, i) \subseteq free
  BY <1>1, <1>6, <1>7
<1>9. CASE j \in group
  BY <1>1, <1>6, <1>7, <1>9
<1>10. CASE j \notin group
  <2>1. MoveGroup(rows, free, j) \cap group = {}
    BY <1>3, <1>10
  <2>2. MoveCluster(rows, free, j) \subseteq MoveGroup(rows, free, j) /\ MoveCluster(rows, free, i) \subseteq group
    BY DEF MoveCluster, group
  <2>. QED BY <1>8, <2>1, <2>2
<1>. QED BY <1>8, <1>9, <1>10

LEMMA ExchangesApart ==
  ASSUME NEW n, NEW rows, AreRows(n, rows), NEW free \in SUBSET (1..n)
  PROVE  Disjointed(n, ExchangesAmong(rows, free)) /\ \A c \in ExchangesAmong(rows, free) : c \subseteq free
<1>1. \A c \in ExchangesAmong(rows, free) : \E i \in free : c = MoveCluster(rows, free, i)
  BY Zenon DEF ExchangesAmong, MoveCluster, MoveGroup, MoveKey
<1>. DEFINE cs == ExchangesAmong(rows, free)
<1>. HIDE DEF cs
<1>2. \A c \in cs : c # {} /\ c \subseteq free
  BY <1>1, ClustersApart DEF cs
<1>3. \A c, d \in cs : c = d \/ c \cap d = {}
  <2>. TAKE c, d \in cs
  <2>1. PICK i \in free : c = MoveCluster(rows, free, i)
    BY <1>1 DEF cs
  <2>2. PICK j \in free : d = MoveCluster(rows, free, j)
    BY <1>1 DEF cs
  <2>. QED BY <2>1, <2>2, ClustersApart
<1>4. Disjointed(n, cs)
  BY <1>2, <1>3 DEF Disjointed
<1>. QED BY <1>2, <1>4 DEF cs

-----------------------------------------------------------------------------
(* Rows told in groups, each at the place of its newest.                     *)
Heads(n, groups) == {i \in 1..n : \A g \in groups : i \in g => i = Min(g)}
GroupAt(groups, i) == IF \E g \in groups : i \in g THEN CHOOSE g \in groups : i \in g ELSE {i}
EventAt(groups, i) ==
  IF \E g \in groups : i \in g THEN Ascending(CHOOSE g \in groups : i \in g) ELSE <<i>>

ToldInGroups(n, groups) ==
  [at \in DOMAIN Ascending(Heads(n, groups)) |-> EventAt(groups, Ascending(Heads(n, groups))[at])]

LEMMA GroupFact ==
  ASSUME NEW n \in Nat, NEW groups, Disjointed(n, groups)
  PROVE  /\ \A g \in groups : g \subseteq 1..n /\ IsFiniteSet(g) /\ g # {} /\ Min(g) \in g /\ \A i \in g : Min(g) <= i
         /\ \A g \in groups, i \in 1..n : i \in g => GroupAt(groups, i) = g
         /\ \A i \in 1..n : i \notin UNION groups => GroupAt(groups, i) = {i}
<1>1. ASSUME NEW g \in groups
      PROVE  g \subseteq 1..n /\ IsFiniteSet(g) /\ g # {} /\ Min(g) \in g /\ \A i \in g : Min(g) <= i
  <2>1. g \subseteq 1..n /\ g # {}
    BY DEF Disjointed
  <2>2. IsFiniteSet(1..n)
    <3>1. 1 \in Int /\ n \in Int
      OBVIOUS
    <3>. QED BY <3>1, FS_Interval
  <2>3. IsFiniteSet(g)
    BY <2>1, <2>2, FS_Subset
  <2>4. g \in SUBSET Nat
    BY <2>1
  <2>. QED BY <2>1, <2>3, <2>4, NatMin
<1>2. ASSUME NEW g \in groups, NEW i \in 1..n, i \in g
      PROVE  GroupAt(groups, i) = g
  <2>1. \A h \in groups : i \in h => h = g
    BY <1>2 DEF Disjointed
  <2>. QED BY <1>2, <2>1 DEF GroupAt
<1>3. \A i \in 1..n : i \notin UNION groups => GroupAt(groups, i) = {i}
  BY DEF GroupAt
<1>. QED BY <1>1, <1>2, <1>3

LEMMA EventFact ==
  ASSUME NEW n \in Nat, NEW groups, Disjointed(n, groups), NEW i \in Heads(n, groups)
  PROVE  LET event == EventAt(groups, i)
         IN  ToSet(event) = GroupAt(groups, i) /\ NamedOnce(event) /\ event[1] = i
<1>. DEFINE event == EventAt(groups, i)
<1>1. i \in 1..n /\ \A g \in groups : i \in g => i = Min(g)
  BY DEF Heads
<1>2. CASE \E g \in groups : i \in g
  <2>1. PICK g \in groups : i \in g
    BY <1>2
  <2>2. GroupAt(groups, i) = g
    BY <1>1, <2>1, GroupFact
  <2>3. event = Ascending(g)
    BY <1>2, <2>2 DEF EventAt, GroupAt
  <2>4. g \subseteq Nat /\ IsFiniteSet(g) /\ i \in g /\ \A j \in g : i <= j
    BY <1>1, <2>1, GroupFact
  <2>. DEFINE m == Cardinality(g)
  <2>5. /\ m \in Nat /\ event \in [1..m -> g]
        /\ \A x \in g : \E k \in 1..m : event[k] = x
        /\ \A k, l \in 1..m : k < l <=> event[k] < event[l]
    BY <2>3, <2>4, AscendingFact
  <2>. HIDE DEF event, m
  <2>6. ToSet(event) = g
    BY <2>5 DEF ToSet
  <2>7. event \in Seq(g) /\ Len(event) = m
    BY <2>5
  <2>8. event[1] = i
    <3>1. PICK k \in 1..m : event[k] = i
      BY <2>4, <2>5
    <3>2. 1 \in 1..m /\ event[1] \in g /\ event[1] \in Nat
      <4>1. 1 \in 1..m
        BY <2>5, <3>1
      <4>. QED BY <2>4, <2>5, <4>1
    <3>3. ~(event[1] > i)
      <4>1. 1 < k \/ 1 = k
        BY <2>5, <3>1
      <4>. QED BY <2>4, <2>5, <3>1, <3>2, <4>1
    <3>. QED BY <1>1, <2>4, <3>2, <3>3
  <2>. QED BY <2>2, <2>6, <2>7, <2>8 DEF NamedOnce, m, event
<1>3. CASE ~\E g \in groups : i \in g
  <2>1. event = <<i>> /\ GroupAt(groups, i) = {i}
    BY <1>3 DEF EventAt, GroupAt
  <2>2. ToSet(event) = {i} /\ Len(event) = 1 /\ event[1] = i
    BY <2>1 DEF ToSet
  <2>3. Cardinality({i}) = 1
    BY FS_Singleton
  <2>. QED BY <2>1, <2>2, <2>3 DEF NamedOnce
<1>. QED BY <1>2, <1>3

ToldOnce(n, told) ==
  /\ \A i \in 1..n : Cardinality({at \in DOMAIN told : i \in ToSet(told[at])}) = 1
  /\ \A at \in DOMAIN told : NamedOnce(told[at])
  /\ \A at, later \in DOMAIN told : at < later => told[at][1] < told[later][1]

LEMMA GroupsToldOnce ==
  ASSUME NEW n \in Nat, NEW groups, Disjointed(n, groups)
  PROVE  ToldOnce(n, ToldInGroups(n, groups))
<1>. DEFINE heads == Heads(n, groups)
            m == Cardinality(heads)
            order == Ascending(heads)
            told == ToldInGroups(n, groups)
<1>1. heads \subseteq 1..n /\ heads \subseteq Nat /\ IsFiniteSet(heads)
  <2>1. heads \subseteq 1..n
    BY DEF Heads
  <2>2. IsFiniteSet(1..n)
    <3>1. 1 \in Int /\ n \in Int
      OBVIOUS
    <3>. QED BY <3>1, FS_Interval
  <2>. QED BY <2>1, <2>2, FS_Subset
<1>2. /\ m \in Nat /\ order \in [1..m -> heads]
      /\ \A h \in heads : \E at \in 1..m : order[at] = h
      /\ \A at, later \in 1..m : at < later <=> order[at] < order[later]
  BY <1>1, AscendingFact
<1>3. DOMAIN told = 1..m /\ \A at \in 1..m : told[at] = EventAt(groups, order[at])
  BY <1>2 DEF ToldInGroups
<1>. HIDE DEF told, order, m, heads
<1>4. \A at \in 1..m : /\ order[at] \in heads /\ order[at] \in 1..n
                      /\ ToSet(told[at]) = GroupAt(groups, order[at])
                      /\ NamedOnce(told[at]) /\ told[at][1] = order[at]
  <2>. TAKE at \in 1..m
  <2>1. order[at] \in heads /\ told[at] = EventAt(groups, order[at])
    BY <1>2, <1>3
  <2>2. /\ ToSet(told[at]) = GroupAt(groups, order[at])
        /\ NamedOnce(told[at]) /\ told[at][1] = order[at]
    BY <2>1, EventFact DEF heads
  <2>. QED BY <1>1, <2>1, <2>2
<1>5. \A i \in 1..n : \E h \in heads : i \in GroupAt(groups, h)
  <2>. TAKE i \in 1..n
  <2>1. CASE \E g \in groups : i \in g
    <3>1. PICK g \in groups : i \in g
      BY <2>1
    <3>2. Min(g) \in g /\ g \subseteq 1..n
      BY GroupFact
    <3>3. \A h \in groups : Min(g) \in h => h = g
      BY <3>2 DEF Disjointed
    <3>4. Min(g) \in heads
      BY <3>2, <3>3 DEF heads, Heads
    <3>5. GroupAt(groups, Min(g)) = g
      BY <3>2, GroupFact
    <3>. QED BY <3>1, <3>4, <3>5
  <2>2. CASE ~\E g \in groups : i \in g
    <3>1. i \in heads
      BY <2>2 DEF heads, Heads
    <3>2. GroupAt(groups, i) = {i}
      BY <2>2, GroupFact
    <3>. QED BY <3>1, <3>2
  <2>. QED BY <2>1, <2>2
<1>6. ASSUME NEW i \in 1..n, NEW h \in heads, NEW k \in heads, i \in GroupAt(groups, h), i \in GroupAt(groups, k)
      PROVE  h = k
  <2>1. \A x \in heads : /\ x \in 1..n
                        /\ \/ \E g \in groups : x \in g /\ GroupAt(groups, x) = g /\ x = Min(g)
                           \/ x \notin UNION groups /\ GroupAt(groups, x) = {x}
    <3>. TAKE x \in heads
    <3>1. x \in 1..n /\ \A g \in groups : x \in g => x = Min(g)
      BY DEF heads, Heads
    <3>2. CASE \E g \in groups : x \in g
      <4>1. PICK g \in groups : x \in g
        BY <3>2
      <4>2. GroupAt(groups, x) = g
        BY <3>1, <4>1, GroupFact
      <4>. QED BY <3>1, <4>1, <4>2
    <3>3. CASE ~\E g \in groups : x \in g
      <4>1. GroupAt(groups, x) = {x}
        BY <3>1, <3>3, GroupFact
      <4>. QED BY <3>1, <3>3, <4>1
    <3>. QED BY <3>2, <3>3
  <2>2. CASE i \in UNION groups
    <3>1. PICK g \in groups : i \in g
      BY <2>2
    <3>2. \A f \in groups : i \in f => f = g
      BY <3>1 DEF Disjointed
    <3>3. \A x \in heads : i \in GroupAt(groups, x) => x = Min(g)
      BY <2>1, <2>2, <3>2
    <3>. QED BY <1>6, <3>3
  <2>3. CASE i \notin UNION groups
    <3>1. \A x \in heads : i \in GroupAt(groups, x) => x = i
      BY <2>1, <2>3
    <3>. QED BY <1>6, <3>1
  <2>. QED BY <2>2, <2>3
<1>7. ASSUME NEW i \in 1..n
      PROVE  Cardinality({at \in DOMAIN told : i \in ToSet(told[at])}) = 1
  <2>1. PICK h \in heads : i \in GroupAt(groups, h)
    BY <1>5
  <2>2. PICK a \in 1..m : order[a] = h
    BY <1>2
  <2>3. \A at \in 1..m : i \in ToSet(told[at]) <=> at = a
    <3>. TAKE at \in 1..m
    <3>1. i \in ToSet(told[at]) <=> i \in GroupAt(groups, order[at])
      BY <1>4
    <3>2. i \in GroupAt(groups, order[at]) => order[at] = h
      BY <1>4, <1>6, <2>1
    <3>3. order[at] = h => at = a
      BY <1>1, <1>2, <1>4, <2>2
    <3>. QED BY <2>1, <2>2, <3>1, <3>2, <3>3
  <2>4. {at \in DOMAIN told : i \in ToSet(told[at])} = {a}
    BY <1>3, <2>2, <2>3
  <2>. QED BY <2>4, FS_Singleton
<1>8. \A at, later \in DOMAIN told : at < later => told[at][1] < told[later][1]
  BY <1>2, <1>3, <1>4
<1>9. \A at \in DOMAIN told : NamedOnce(told[at])
  BY <1>3, <1>4
<1>. QED BY <1>7, <1>8, <1>9 DEF ToldOnce, told

(* However many rows a season has, whatever swaps and exchanges the history   *)
(* (memberships/history.ts) makes of them: every row is told once, in a group *)
(* at the place of its newest row.                                            *)
THEOREM HistoryTellsOnce ==
  ASSUME NEW n, NEW rows, AreRows(n, rows)
  PROVE  ToldOnce(n, GroupTransactionHistory(rows))
<1>. DEFINE seq == [i \in DOMAIN rows |-> i]
            swaps == SwapsFound(rows, seq)
            free == Moves(rows) \ UNION swaps
            groups == swaps \cup ExchangesAmong(rows, free)
<1>1. n \in Nat /\ DOMAIN rows = 1..n
  BY DEF AreRows
<1>2. GroupTransactionHistory(rows) = ToldInGroups(n, groups)
  <2>1. Swaps(rows) = swaps
    BY Zenon DEF Swaps, SwapsFound
  <2>. HIDE DEF swaps
  <2>. QED BY Zenon, <1>1, <2>1 DEF GroupTransactionHistory, Exchanges, ToldInGroups, Heads, EventAt, Mapped
<1>3. Disjointed(n, swaps)
  <2>1. seq \in [1..n -> 1..n]
    BY <1>1
  <2>. HIDE DEF seq
  <2>. QED BY <2>1, SwapsApart
<1>4. free \in SUBSET (1..n)
  BY <1>1 DEF Moves
<1>. HIDE DEF swaps
<1>5. free \cap UNION swaps = {}
  OBVIOUS
<1>. HIDE DEF free
<1>6. Disjointed(n, ExchangesAmong(rows, free)) /\ \A c \in ExchangesAmong(rows, free) : c \subseteq free
  BY <1>4, ExchangesApart
<1>7. Disjointed(n, groups)
  <2>1. \A s \in swaps, c \in ExchangesAmong(rows, free) : s \cap c = {}
    BY <1>5, <1>6
  <2>. DEFINE exchanges == ExchangesAmong(rows, free)
  <2>. HIDE DEF exchanges
  <2>2. Disjointed(n, swaps \cup exchanges)
    BY <1>3, <1>6, <2>1 DEF Disjointed, exchanges
  <2>. QED BY <2>2 DEF exchanges
<1>. HIDE DEF groups
<1>. QED BY <1>1, <1>2, <1>7, GroupsToldOnce

LEMMA HistoryAnswers == ASSUME IsHistory PROVE HistoryTellsEveryRowOnce
<1>1. AreRows(4, question.rows) /\ DOMAIN question.rows = 1..4
  BY DEF IsHistory, AreRows
<1>2. ToldOnce(4, GroupTransactionHistory(question.rows))
  BY <1>1, HistoryTellsOnce
<1>. QED BY <1>1, <1>2, Zenon DEF HistoryTellsEveryRowOnce, ToldOnce

LEMMA HistoryPosed ==
  ASSUME Posed
  PROVE  HistoryTellsEveryRowOnce
<1>1. CASE ~Asked("history")
  BY <1>1, Zenon DEF HistoryTellsEveryRowOnce
<1>2. CASE Asked("history")
  BY <1>2, KindFact, HistoryAnswers
<1>. QED BY <1>1, <1>2

(* Every recorded row is told once, newest group first, in any history asked *)
(* about: HistoryTellsOnce, of those rows.                                   *)
THEOREM HistoryAlwaysTells == RulesSpec => []HistoryTellsEveryRowOnce
BY HistoryPosed, PosedAlways, PTL

-----------------------------------------------------------------------------
(* The tables of a phase.                                                    *)

LinesIn(lines, w, phases, r) == {l \in Scored(w, lines, phases) : l.round = r}

WindowTotal(lines, phases, recorded, m, w, r) ==
  SumFunction([l \in LinesIn(lines, w, phases, r) |->
                 WeighHundredths(l.tenths, MultiplierFor(recorded, m, l.round, l.player))])

WindowsOf(windows, m) == {w \in windows : w.member = m}

RoundTotal(windows, lines, phases, recorded, m, r) ==
  SumFunction([w \in WindowsOf(windows, m) |-> WindowTotal(lines, phases, recorded, m, w, r)])

RoundsOf(windows, lines, phases, m) ==
  {l.round : l \in UNION {Scored(w, lines, phases) : w \in WindowsOf(windows, m)}}

ByRound(windows, lines, phases, recorded, m) ==
  [r \in RoundsOf(windows, lines, phases, m) |-> RoundTotal(windows, lines, phases, recorded, m, r)]

(* What the tables are made of: finitely many windows and lines, one phase to *)
(* a round, points and rounds that are numbers, and roles.                    *)
Scoreable(windows, lines, all, recorded) ==
  /\ IsFiniteSet(windows) /\ IsFiniteSet(lines)
  /\ \A l \in lines : l.phase \in all /\ l.tenths \in Int
  /\ \A l, k \in lines : l.round = k.round => l.phase = k.phase
  /\ \A x \in recorded : \A p \in DOMAIN x.frozen : x.frozen[p].role \in Roles

LEMMA RolesFact ==
  ASSUME NEW slots, NEW p \in DOMAIN RolesFromSlots(slots)
  PROVE  RolesFromSlots(slots)[p] \in Roles
BY DEF RolesFromSlots, Roles

LEMMA WeightFact ==
  ASSUME NEW slots, NEW frozen, \A p \in DOMAIN frozen : frozen[p].role \in Roles,
         NEW p \in DOMAIN MultipliersOf(slots, frozen)
  PROVE  MultipliersOf(slots, frozen)[p] \in Int
<1>. DEFINE roles == EffectiveRoles(slots, frozen)
            now == RolesFromSlots(slots)
            then == [q \in DOMAIN frozen |-> frozen[q].role]
<1>1. p \in DOMAIN roles /\ MultipliersOf(slots, frozen)[p] = RoleMultipliers[roles[p]]
  BY DEF MultipliersOf
<1>2. roles = Over(then, now)
  BY DEF EffectiveRoles
<1>3. \A q \in DOMAIN now : now[q] \in Roles
  BY RolesFact
<1>4. DOMAIN then = DOMAIN frozen /\ \A q \in DOMAIN then : then[q] \in Roles
  OBVIOUS
<1>. HIDE DEF roles, now, then
<1>5. roles[p] \in Roles
  BY <1>1, <1>2, <1>3, <1>4 DEF Over
<1>6. \A role \in Roles : RoleMultipliers[role] \in Int
  BY DEF Roles, RoleMultipliers
<1>. QED BY <1>1, <1>5, <1>6

LEMMA MultiplierFact ==
  ASSUME NEW recorded, \A x \in recorded : \A p \in DOMAIN x.frozen : x.frozen[p].role \in Roles,
         NEW m, NEW r, NEW p
  PROVE  MultiplierFor(recorded, m, r, p) \in Int
<1>. DEFINE lineup == ResolveLineup(recorded, m, r)
            weights == IF lineup.source = "absent" THEN <<>> ELSE MultipliersOf(lineup.slots, lineup.frozen)
<1>1. MultiplierFor(recorded, m, r, p) = IF p \in DOMAIN weights THEN weights[p] ELSE FullWeight
  BY Zenon DEF MultiplierFor
<1>2. lineup.source # "absent" => \A q \in DOMAIN lineup.frozen : lineup.frozen[q].role \in Roles
  <2>. DEFINE mine == {x \in recorded : x.member = m}
              exact == {x \in mine : x.round = r}
              earlier == {x \in mine : x.round < r}
              last == CHOOSE x \in earlier : \A q \in earlier : q.round <= x.round
              chosen == CHOOSE e \in exact : TRUE
  <2>1. lineup = IF exact # {} THEN [source |-> "recorded", slots |-> chosen.slots, frozen |-> chosen.frozen]
                 ELSE IF earlier # {} THEN [source |-> "carried", slots |-> last.slots, frozen |-> <<>>]
                 ELSE [source |-> "absent"]
    BY Zenon DEF ResolveLineup
  <2>2. exact # {} => chosen \in recorded
    OBVIOUS
  <2>. HIDE DEF lineup, exact, earlier, last, chosen
  <2>3. CASE exact # {}
    BY <2>1, <2>2, <2>3
  <2>4. CASE exact = {} /\ earlier # {}
    <3>1. lineup = [source |-> "carried", slots |-> last.slots, frozen |-> <<>>]
      BY <2>1, <2>4
    <3>. QED BY <3>1
  <2>5. CASE exact = {} /\ earlier = {}
    <3>1. lineup = [source |-> "absent"]
      BY <2>1, <2>5
    <3>. QED BY <3>1
  <2>. QED BY <2>3, <2>4, <2>5
<1>. HIDE DEF lineup
<1>3. CASE lineup.source = "absent"
  BY <1>1, <1>3 DEF FullWeight
<1>4. CASE lineup.source # "absent"
  <2>1. weights = MultipliersOf(lineup.slots, lineup.frozen)
    BY <1>4
  <2>2. \A q \in DOMAIN weights : weights[q] \in Int
    BY <1>2, <1>4, <2>1, WeightFact
  <2>. HIDE DEF weights
  <2>. QED BY <1>1, <2>2 DEF FullWeight
<1>. QED BY <1>3, <1>4

(* Finitely many lines are of finitely many rounds.                          *)
LEMMA RoundsFinite ==
  ASSUME NEW lines, IsFiniteSet(lines)
  PROVE  IsFiniteSet({l.round : l \in lines})
<1>. DEFINE f == [l \in lines |-> l.round]
            T == {l.round : l \in lines}
<1>1. f \in Surjection(lines, T)
  BY DEF Surjection
<1>. QED BY <1>1, FS_Surjection

LEMMA TotalsType ==
  ASSUME NEW windows, NEW lines, NEW all, NEW recorded, Scoreable(windows, lines, all, recorded),
         NEW m, NEW r
  PROVE  RoundTotal(windows, lines, all, recorded, m, r) \in Int
<1>1. ASSUME NEW w PROVE WindowTotal(lines, all, recorded, m, w, r) \in Int
  <2>. DEFINE S == LinesIn(lines, w, all, r)
              v == [l \in S |-> WeighHundredths(l.tenths, MultiplierFor(recorded, m, l.round, l.player))]
  <2>1. S \in SUBSET lines
    BY DEF LinesIn, Scored
  <2>2. IsFiniteSet(S)
    BY <2>1, FS_Subset DEF Scoreable
  <2>3. ASSUME NEW l \in S
        PROVE  WeighHundredths(l.tenths, MultiplierFor(recorded, m, l.round, l.player)) \in Int
    <3>1. MultiplierFor(recorded, m, l.round, l.player) \in Int
      BY MultiplierFact DEF Scoreable
    <3>2. l.tenths \in Int
      BY <2>1 DEF Scoreable
    <3>. QED BY <3>1, <3>2 DEF WeighHundredths
  <2>. HIDE DEF S
  <2>4. v \in [S -> Int]
    BY <2>3
  <2>5. WindowTotal(lines, all, recorded, m, w, r) = SumFunction(v)
    BY Zenon DEF WindowTotal, S
  <2>. HIDE DEF v
  <2>. QED BY <2>2, <2>4, <2>5, SumType
<1>. DEFINE W == WindowsOf(windows, m)
            v == [w \in W |-> WindowTotal(lines, all, recorded, m, w, r)]
<1>2. IsFiniteSet(W)
  <2>1. W \in SUBSET windows
    BY DEF WindowsOf
  <2>. QED BY <2>1, FS_Subset DEF Scoreable
<1>3. v \in [W -> Int]
  BY <1>1
<1>4. RoundTotal(windows, lines, all, recorded, m, r) = SumFunction(v)
  BY Zenon DEF RoundTotal
<1>. HIDE DEF v, W
<1>. QED BY <1>2, <1>3, <1>4, SumType

(* A round of a phase that counts is worth the same whatever else counts.    *)
LEMMA SameTotals ==
  ASSUME NEW windows, NEW lines, NEW all, NEW recorded, Scoreable(windows, lines, all, recorded),
         NEW phases \in SUBSET all, NEW r, NEW l \in lines, l.round = r, l.phase \in phases, NEW m
  PROVE  /\ RoundTotal(windows, lines, phases, recorded, m, r) = RoundTotal(windows, lines, all, recorded, m, r)
         /\ r \in RoundsOf(windows, lines, all, m) <=> r \in RoundsOf(windows, lines, phases, m)
<1>1. ASSUME NEW w PROVE LinesIn(lines, w, phases, r) = LinesIn(lines, w, all, r)
  BY DEF LinesIn, Scored, Scoreable
<1>2. ASSUME NEW w
      PROVE  WindowTotal(lines, phases, recorded, m, w, r) = WindowTotal(lines, all, recorded, m, w, r)
  BY <1>1, Zenon DEF WindowTotal
<1>3. RoundTotal(windows, lines, phases, recorded, m, r) = RoundTotal(windows, lines, all, recorded, m, r)
  <2>1. [w \in WindowsOf(windows, m) |-> WindowTotal(lines, phases, recorded, m, w, r)]
          = [w \in WindowsOf(windows, m) |-> WindowTotal(lines, all, recorded, m, w, r)]
    BY <1>2
  <2>. QED BY <2>1, Zenon DEF RoundTotal
<1>4. \A P : r \in RoundsOf(windows, lines, P, m) <=>
               \E w \in WindowsOf(windows, m) : \E k \in LinesIn(lines, w, P, r) : TRUE
  BY DEF RoundsOf, LinesIn
<1>5. r \in RoundsOf(windows, lines, all, m) <=> r \in RoundsOf(windows, lines, phases, m)
  BY <1>1, <1>4
<1>. QED BY <1>3, <1>5

LEMMA StandingsFact ==
  ASSUME NEW windows, NEW lines, NEW phases, NEW recorded
  PROVE  LET table == ComputeStandings(windows, lines, phases, recorded)
         IN  /\ DOMAIN table = MembersOf(windows)
             /\ \A m \in MembersOf(windows) :
                  /\ table[m].byRound = ByRound(windows, lines, phases, recorded, m)
                  /\ table[m].total = SumFunction(ByRound(windows, lines, phases, recorded, m))
<1>1. ComputeStandings(windows, lines, phases, recorded)
        = [m \in MembersOf(windows) |->
             [byRound |-> ByRound(windows, lines, phases, recorded, m),
              total |-> SumFunction(ByRound(windows, lines, phases, recorded, m))]]
  BY Zenon DEF ComputeStandings, ByRound, RoundTotal, RoundsOf, WindowsOf, WindowTotal, LinesIn
<1>. QED BY <1>1

(* Tables of the same members and totals rank them alike.                    *)
LEMMA SameRanks ==
  ASSUME NEW one, NEW other, DOMAIN one = DOMAIN other,
         \A m \in DOMAIN one : one[m].total = other[m].total
  PROVE  RankRows(one) = RankRows(other)
<1>. DEFINE ahead(table) == [a \in DOMAIN table |->
                               {b \in DOMAIN table : \/ table[b].total > table[a].total
                                                     \/ table[b].total = table[a].total /\ b < a}]
<1>1. ahead(one) = ahead(other)
  <2>1. ASSUME NEW a \in DOMAIN one
        PROVE  {b \in DOMAIN one : \/ one[b].total > one[a].total
                                   \/ one[b].total = one[a].total /\ b < a}
                 = {b \in DOMAIN other : \/ other[b].total > other[a].total
                                         \/ other[b].total = other[a].total /\ b < a}
    OBVIOUS
  <2>. QED BY <2>1
<1>2. \A table : RankRows(table) = InOrder(DOMAIN table, ahead(table))
  BY Zenon DEF RankRows
<1>. HIDE DEF ahead
<1>. QED BY <1>1, <1>2

StoredTables(windows, lines, all, recorded) ==
  SnapshotsFromStandings(ComputeStandings(windows, lines, all, recorded), PhaseByRound(lines))

CountedIn(stored, phases) == {r \in DOMAIN stored : stored[r].phase \in phases}

(* What is stored of each round: its phase, and everybody's points in it.    *)
LEMMA StoredFact ==
  ASSUME NEW windows, NEW lines, NEW all, NEW recorded, Scoreable(windows, lines, all, recorded)
  PROVE  LET stored == StoredTables(windows, lines, all, recorded)
         IN  /\ \A r : r \in DOMAIN stored <=>
                         \E m \in MembersOf(windows) : r \in RoundsOf(windows, lines, all, m)
             /\ \A r \in DOMAIN stored :
                  /\ \E l \in lines : l.round = r /\ stored[r].phase = l.phase
                  /\ DOMAIN stored[r].table = MembersOf(windows)
                  /\ \A m \in MembersOf(windows) :
                       stored[r].table[m].round =
                         IF r \in RoundsOf(windows, lines, all, m)
                         THEN RoundTotal(windows, lines, all, recorded, m, r) ELSE 0
<1>. DEFINE full == ComputeStandings(windows, lines, all, recorded)
            stored == StoredTables(windows, lines, all, recorded)
            phase == PhaseByRound(lines)
            body(r) ==
              [phase |-> phase[r],
               table |-> [m \in DOMAIN full |->
                 [round |-> RoundPoints(full, m, r),
                  total |-> SumFunction([q \in {p \in ScoredRounds(full) : p <= r} |-> RoundPoints(full, m, q)])]]]
<1>1. stored = [r \in ScoredRounds(full) |-> body(r)]
  BY Zenon DEF StoredTables, SnapshotsFromStandings
<1>2. /\ DOMAIN full = MembersOf(windows)
      /\ \A m \in MembersOf(windows) : full[m].byRound = ByRound(windows, lines, all, recorded, m)
  BY StandingsFact
<1>3. \A m : /\ DOMAIN ByRound(windows, lines, all, recorded, m) = RoundsOf(windows, lines, all, m)
             /\ \A r \in RoundsOf(windows, lines, all, m) :
                  ByRound(windows, lines, all, recorded, m)[r] = RoundTotal(windows, lines, all, recorded, m, r)
  BY DEF ByRound
<1>. HIDE DEF full, stored
<1>4. DOMAIN stored = ScoredRounds(full)
  BY <1>1
<1>5. ASSUME NEW r
      PROVE  r \in DOMAIN stored <=> \E m \in MembersOf(windows) : r \in RoundsOf(windows, lines, all, m)
  BY <1>2, <1>3, <1>4 DEF ScoredRounds
<1>6. ASSUME NEW r \in DOMAIN stored
      PROVE  /\ \E l \in lines : l.round = r /\ stored[r].phase = l.phase
             /\ DOMAIN stored[r].table = MembersOf(windows)
             /\ \A m \in MembersOf(windows) :
                  stored[r].table[m].round =
                    IF r \in RoundsOf(windows, lines, all, m)
                    THEN RoundTotal(windows, lines, all, recorded, m, r) ELSE 0
  <2>1. stored[r] = body(r)
    BY <1>1, <1>4, <1>6
  <2>2. PICK m \in MembersOf(windows) : r \in RoundsOf(windows, lines, all, m)
    BY <1>5
  <2>3. PICK l \in lines : l.round = r
    BY <2>2 DEF RoundsOf, Scored
  <2>4. phase[r] = l.phase
    <3>. DEFINE k == CHOOSE x \in lines : x.round = r
    <3>1. k \in lines /\ k.round = r
      BY <2>3
    <3>2. r \in {x.round : x \in lines}
      BY <2>3
    <3>3. phase[r] = k.phase
      BY <3>2 DEF PhaseByRound
    <3>. QED BY <2>3, <3>1, <3>3 DEF Scoreable
  <2>5. stored[r].phase = l.phase
    BY <2>1, <2>4
  <2>6. DOMAIN stored[r].table = MembersOf(windows)
    BY <1>2, <2>1
  <2>7. ASSUME NEW n \in MembersOf(windows)
        PROVE  stored[r].table[n].round = IF r \in RoundsOf(windows, lines, all, n)
                                          THEN RoundTotal(windows, lines, all, recorded, n, r) ELSE 0
    <3>1. stored[r].table[n].round = RoundPoints(full, n, r)
      BY <1>2, <2>1
    <3>. QED BY <1>2, <1>3, <3>1 DEF RoundPoints
  <2>. QED BY <2>3, <2>5, <2>6, <2>7
<1>. QED BY <1>5, <1>6 DEF stored

(* The tables of a phase, stored and computed.                               *)
TablesAgree(shown, direct) ==
  /\ \A m \in DOMAIN direct : shown[m].total = direct[m].total
  /\ RankRows(shown) = RankRows(direct)

(* Whatever was scored, in whichever phases: the table that a page rebuilds   *)
(* from the stored rounds of some of them (stats/standings.ts) has the totals *)
(* and the ranks that computing those phases from the lines gives.            *)
THEOREM StoredTablesAgree ==
  ASSUME NEW windows, NEW lines, NEW all, NEW recorded, Scoreable(windows, lines, all, recorded),
         NEW phases \in SUBSET all,
         CountedIn(StoredTables(windows, lines, all, recorded), phases) # {}
  PROVE  TablesAgree(TableFromSnapshots(StoredTables(windows, lines, all, recorded), phases),
                     ComputeStandings(windows, lines, phases, recorded))
<1>. DEFINE stored == StoredTables(windows, lines, all, recorded)
            counted == CountedIn(stored, phases)
            shown == TableFromSnapshots(stored, phases)
            direct == ComputeStandings(windows, lines, phases, recorded)
            points(m) == [r \in counted |-> stored[r].table[m].round]
            mine(m) == RoundsOf(windows, lines, phases, m)
<1>1. /\ \A r : r \in DOMAIN stored <=>
                  \E m \in MembersOf(windows) : r \in RoundsOf(windows, lines, all, m)
      /\ \A r \in DOMAIN stored :
           /\ \E l \in lines : l.round = r /\ stored[r].phase = l.phase
           /\ DOMAIN stored[r].table = MembersOf(windows)
           /\ \A m \in MembersOf(windows) :
                stored[r].table[m].round =
                  IF r \in RoundsOf(windows, lines, all, m)
                  THEN RoundTotal(windows, lines, all, recorded, m, r) ELSE 0
  BY StoredFact
<1>2. shown = [m \in UNION {DOMAIN stored[r].table : r \in counted} |->
                 [byRound |-> points(m), total |-> SumFunction(points(m))]]
  BY Zenon DEF TableFromSnapshots, CountedIn
<1>3. /\ DOMAIN direct = MembersOf(windows)
      /\ \A m \in MembersOf(windows) :
           direct[m].total = SumFunction(ByRound(windows, lines, phases, recorded, m))
  BY StandingsFact
<1>. HIDE DEF stored, shown, direct
<1>4. counted # {} /\ counted \subseteq DOMAIN stored
  BY DEF CountedIn, stored
<1>5. UNION {DOMAIN stored[r].table : r \in counted} = MembersOf(windows)
  BY <1>1, <1>4
<1>6. IsFiniteSet(counted)
  <2>1. counted \subseteq {l.round : l \in lines}
    BY <1>1, <1>4
  <2>2. IsFiniteSet({l.round : l \in lines})
    BY RoundsFinite DEF Scoreable
  <2>. QED BY <2>1, <2>2, FS_Subset
<1>7. ASSUME NEW r \in counted PROVE \E l \in lines : l.round = r /\ l.phase \in phases
  BY <1>1, <1>7 DEF CountedIn
<1>8. ASSUME NEW m \in MembersOf(windows) PROVE shown[m].total = direct[m].total
  <2>1. mine(m) \subseteq counted
    <3>. SUFFICES ASSUME NEW r \in mine(m) PROVE r \in counted
      OBVIOUS
    <3>1. PICK l \in lines : l.round = r /\ l.phase \in phases
      BY DEF RoundsOf, Scored
    <3>2. r \in RoundsOf(windows, lines, all, m)
      BY <3>1, SameTotals
    <3>3. r \in DOMAIN stored
      BY <1>1, <3>2
    <3>4. stored[r].phase = l.phase
      BY <1>1, <3>1, <3>3 DEF Scoreable
    <3>. QED BY <3>1, <3>3, <3>4 DEF CountedIn
  <2>2. ASSUME NEW r \in counted
        PROVE  points(m)[r] = IF r \in mine(m)
                              THEN RoundTotal(windows, lines, phases, recorded, m, r) ELSE 0
    <3>1. PICK l \in lines : l.round = r /\ l.phase \in phases
      BY <1>7
    <3>2. /\ RoundTotal(windows, lines, phases, recorded, m, r) = RoundTotal(windows, lines, all, recorded, m, r)
          /\ r \in RoundsOf(windows, lines, all, m) <=> r \in mine(m)
      BY <3>1, SameTotals
    <3>3. points(m)[r] = stored[r].table[m].round /\ r \in DOMAIN stored
      BY <1>4
    <3>4. stored[r].table[m].round = IF r \in RoundsOf(windows, lines, all, m)
                                     THEN RoundTotal(windows, lines, all, recorded, m, r) ELSE 0
      BY <1>1, <3>3
    <3>. QED BY <3>2, <3>3, <3>4
  <2>3. points(m) \in [counted -> Int]
    <3>1. ASSUME NEW r \in counted PROVE stored[r].table[m].round \in Int
      <4>1. RoundTotal(windows, lines, all, recorded, m, r) \in Int
        BY TotalsType
      <4>. QED BY <1>1, <1>4, <4>1
    <3>. QED BY <3>1
  <2>4. SumFunction(points(m)) = SumFunction([r \in mine(m) |-> points(m)[r]])
    <3>. DEFINE w == points(m)
                T == mine(m)
    <3>1. w \in [counted -> Int] /\ T \in SUBSET counted /\ \A r \in counted \ T : w[r] = 0
      BY <2>1, <2>2, <2>3
    <3>. HIDE DEF w, T, counted
    <3>2. SumFunction(w) = SumFunction([r \in T |-> w[r]])
      BY <1>6, <3>1, SumZeros
    <3>. QED BY <3>2 DEF w, T
  <2>5. [r \in mine(m) |-> points(m)[r]] = ByRound(windows, lines, phases, recorded, m)
    <3>1. ASSUME NEW r \in mine(m)
          PROVE  points(m)[r] = RoundTotal(windows, lines, phases, recorded, m, r)
      BY <2>1, <2>2
    <3>. HIDE DEF points
    <3>. QED BY <3>1 DEF ByRound
  <2>6. shown[m].total = SumFunction(points(m))
    <3>. HIDE DEF points, counted
    <3>. QED BY <1>2, <1>5
  <2>. QED BY <1>3, <2>4, <2>5, <2>6
<1>9. DOMAIN shown = DOMAIN direct
  BY <1>2, <1>3, <1>5
<1>10. RankRows(shown) = RankRows(direct)
  BY <1>3, <1>8, <1>9, SameRanks
<1>. QED BY <1>3, <1>8, <1>10 DEF TablesAgree, shown, direct, stored

LEMMA CareersFinite ==
  ASSUME NEW p, NEW career \in Careers(p)
  PROVE  IsFiniteSet(career)
<1>1. \E v, w : career = {v} \cup {w}
  <2>1. CASE career = {Window(1, p, 1, 0)}
    BY <2>1
  <2>2. CASE career = {Window(1, p, 1, 2), Window(2, p, 2, 0)}
    BY <2>2
  <2>3. CASE career = {Window(2, p, 1, 2)}
    BY <2>3
  <2>. QED BY <2>1, <2>2, <2>3 DEF Careers
<1>2. PICK v, w : career = {v} \cup {w}
  BY <1>1
<1>3. IsFiniteSet({v}) /\ IsFiniteSet({w})
  BY FS_Singleton
<1>. QED BY <1>2, <1>3, FS_Union

LEMMA SeasonScoreable ==
  ASSUME IsSeason
  PROVE  Scoreable(question.windows, question.lines, {"RS", "PO"}, question.recorded)
<1>1. PICK career1 \in Careers(1), career2 \in Careers(2), points \in Reports,
           phase \in Tuples({"RS", "PO"}, 2), recorded \in SeasonLineups :
        question = [kind |-> "season", windows |-> career1 \cup career2, recorded |-> recorded,
                    lines |-> {[player |-> x[1], round |-> x[2], phase |-> phase[x[2]], tenths |-> points[x]] :
                                 x \in {y \in DOMAIN points : points[y] # 0}}]
  BY Zenon DEF IsSeason
<1>. DEFINE Y == {y \in DOMAIN points : points[y] # 0}
            line(x) == [player |-> x[1], round |-> x[2], phase |-> phase[x[2]], tenths |-> points[x]]
            lines == {line(x) : x \in Y}
<1>2. /\ question.windows = career1 \cup career2
      /\ question.lines = lines
      /\ question.recorded = recorded
  BY <1>1
<1>3. Y \in SUBSET (Teams \X (1..2)) /\ points \in [Teams \X (1..2) -> Int]
  BY DEF Reports
<1>4. \A y \in Y : y[2] \in 1..2 /\ phase[y[2]] \in {"RS", "PO"} /\ points[y] \in Int
  BY <1>3 DEF Tuples
<1>5. IsFiniteSet(career1 \cup career2)
  BY CareersFinite, FS_Union
<1>6. IsFiniteSet(lines)
  <2>. DEFINE R == 1..2
  <2>0. IsFiniteSet(R) /\ IsFiniteSet(Teams)
    <3>1. 1 \in Int /\ 2 \in Int
      OBVIOUS
    <3>. QED BY <3>1, FS_Interval DEF Teams
  <2>. HIDE DEF R
  <2>1. IsFiniteSet(Teams \X R)
    BY <2>0, FS_Product
  <2>2. IsFiniteSet(Y)
    BY <1>3, <2>1, FS_Subset DEF R
  <2>. DEFINE f == [x \in Y |-> line(x)]
  <2>3. f \in Surjection(Y, lines)
    BY DEF Surjection
  <2>. HIDE DEF f, lines, Y
  <2>. QED BY <2>2, <2>3, FS_Surjection
<1>7. \A x \in recorded : x.frozen = <<>>
  BY DEF SeasonLineups
<1>8. \A x \in recorded : \A p \in DOMAIN x.frozen : x.frozen[p].role \in Roles
  <2>1. DOMAIN <<>> = {}
    OBVIOUS
  <2>. QED BY <1>7, <2>1
<1>9. \A l \in lines : \E y \in Y : l = line(y)
  OBVIOUS
<1>10. \A y \in Y : line(y).round = y[2] /\ line(y).phase = phase[y[2]] /\ line(y).tenths = points[y]
  OBVIOUS
<1>. HIDE DEF lines, line, Y
<1>11. \A l \in lines : l.phase \in {"RS", "PO"} /\ l.tenths \in Int
  BY <1>4, <1>9, <1>10
<1>12. \A l, k \in lines : l.round = k.round => l.phase = k.phase
  BY <1>9, <1>10
<1>. QED BY <1>2, <1>5, <1>6, <1>8, <1>11, <1>12 DEF Scoreable

LEMMA SeasonAnswers == ASSUME IsSeason PROVE PhaseTablesAgree
<1>1. SUFFICES ASSUME NEW phases \in {{"RS"}, {"PO"}, {"RS", "PO"}},
                      CountedIn(StoredTables(question.windows, question.lines, {"RS", "PO"}, question.recorded),
                                phases) # {}
               PROVE  TablesAgree(TableFromSnapshots(StoredTables(question.windows, question.lines, {"RS", "PO"},
                                                                  question.recorded), phases),
                                  ComputeStandings(question.windows, question.lines, phases, question.recorded))
  <2>1. \A phases \in {{"RS"}, {"PO"}, {"RS", "PO"}} :
          LET stored == StoredTables(question.windows, question.lines, {"RS", "PO"}, question.recorded)
              shown == TableFromSnapshots(stored, phases)
              direct == ComputeStandings(question.windows, question.lines, phases, question.recorded)
          IN  (\E r \in DOMAIN stored : stored[r].phase \in phases) =>
                /\ \A m \in DOMAIN direct : shown[m].total = direct[m].total
                /\ RankRows(shown) = RankRows(direct)
    <3>. TAKE phases \in {{"RS"}, {"PO"}, {"RS", "PO"}}
    <3>. DEFINE stored == StoredTables(question.windows, question.lines, {"RS", "PO"}, question.recorded)
    <3>. SUFFICES ASSUME \E r \in DOMAIN stored : stored[r].phase \in phases
                  PROVE  TablesAgree(TableFromSnapshots(stored, phases),
                           ComputeStandings(question.windows, question.lines, phases, question.recorded))
      BY Zenon DEF TablesAgree
    <3>1. CountedIn(stored, phases) # {}
      <4>. HIDE DEF stored
      <4>. QED BY DEF CountedIn
    <3>. QED BY <1>1, <3>1
  <2>. QED BY <2>1, Zenon DEF PhaseTablesAgree, StoredTables
<1>2. phases \in SUBSET {"RS", "PO"}
  OBVIOUS
<1>. QED BY <1>1, <1>2, SeasonScoreable, StoredTablesAgree

LEMMA SeasonPosed ==
  ASSUME Posed
  PROVE  PhaseTablesAgree
<1>1. CASE ~Asked("season")
  BY <1>1, Zenon DEF PhaseTablesAgree
<1>2. CASE Asked("season")
  BY <1>2, KindFact, SeasonAnswers
<1>. QED BY <1>1, <1>2

(* The table of any phases a page shows, rebuilt from the stored rounds, is   *)
(* the one computed from the lines: StoredTablesAgree, of the seasons asked    *)
(* about.                                                                     *)
THEOREM PhaseTablesAlwaysAgree == RulesSpec => []PhaseTablesAgree
BY SeasonPosed, PosedAlways, PTL

-----------------------------------------------------------------------------
(* What the rows of a plan add up to.                                        *)

LEMMA CountInList ==
  ASSUME NEW R, NEW list \in Seq(R), NEW p
  PROVE  /\ Cardinality(PlacesOf(p, list))
              = SumFunction([i \in DOMAIN list |-> IF list[i] = p THEN 1 ELSE 0])
         /\ Cardinality(PlacesOf(p, list)) \in Int /\ IsFiniteSet(PlacesOf(p, list))
<1>. DEFINE S == DOMAIN list
            A == PlacesOf(p, list)
<1>1. IsFiniteSet(S)
  <2>1. Len(list) \in Nat /\ S = 1..Len(list) /\ 1 \in Int /\ Len(list) \in Int
    OBVIOUS
  <2>. QED BY <2>1, FS_Interval
<1>2. A \in SUBSET S /\ \A i \in S : i \in A <=> list[i] = p
  BY DEF PlacesOf
<1>3. IsFiniteSet(A) /\ Cardinality(A) \in Int
  BY <1>1, <1>2, FS_Subset, FS_CardinalityType
<1>4. [i \in S |-> IF list[i] = p THEN 1 ELSE 0] = [i \in S |-> IF i \in A THEN 1 ELSE 0]
  BY <1>2
<1>. HIDE DEF S, A
<1>5. Cardinality(A) = SumFunction([i \in S |-> IF i \in A THEN 1 ELSE 0])
  BY <1>1, <1>2, CountIsSum
<1>. QED BY <1>3, <1>4, <1>5 DEF A, S

-----------------------------------------------------------------------------
(* What a row says a team gained.                                            *)

RowSum(rows, m, p) == SumFunction([i \in DOMAIN rows |-> Gained(rows[i], m, p)])
Often(p, list) == Cardinality(PlacesOf(p, list))

LEMMA DropGains ==
  ASSUME NEW X, NEW a, NEW players \in Seq(X), NEW round, NEW closes, NEW m, NEW p
  PROVE  Gained(DropRow(a, players, round, closes), m, p) = IF m = a THEN -Often(p, players) ELSE 0
<1>. DEFINE row == DropRow(a, players, round, closes)
<1>1. row.playersIn = NoPlayers /\ row.playersOut = OneTeam(a, players)
  BY DEF DropRow
<1>2. ListOf(NoPlayers, m) = <<>>
  BY DEF ListOf, NoPlayers
<1>3. ListOf(OneTeam(a, players), m) = IF m = a THEN players ELSE <<>>
  BY DEF ListOf, OneTeam
<1>4. PlacesOf(p, <<>>) = {}
  BY DEF PlacesOf
<1>5. Cardinality({}) = 0
  BY FS_EmptySet
<1>6. Often(p, players) \in Int
  BY CountInList DEF Often
<1>. HIDE DEF row
<1>7. Gained(row, m, p) = 0 - (IF m = a THEN Often(p, players) ELSE 0)
  BY <1>1, <1>2, <1>3, <1>4, <1>5 DEF Gained, Often
<1>. QED BY <1>6, <1>7 DEF row

LEMMA AddGains ==
  ASSUME NEW X, NEW a, NEW players \in Seq(X), NEW round, NEW opens, NEW m, NEW p
  PROVE  Gained(AddRow(a, players, round, opens), m, p) = IF m = a THEN Often(p, players) ELSE 0
<1>. DEFINE row == AddRow(a, players, round, opens)
<1>1. row.playersOut = NoPlayers /\ row.playersIn = OneTeam(a, players)
  BY DEF AddRow
<1>2. ListOf(NoPlayers, m) = <<>>
  BY DEF ListOf, NoPlayers
<1>3. ListOf(OneTeam(a, players), m) = IF m = a THEN players ELSE <<>>
  BY DEF ListOf, OneTeam
<1>4. PlacesOf(p, <<>>) = {}
  BY DEF PlacesOf
<1>5. Cardinality({}) = 0
  BY FS_EmptySet
<1>6. Often(p, players) \in Int
  BY CountInList DEF Often
<1>. HIDE DEF row
<1>7. Gained(row, m, p) = (IF m = a THEN Often(p, players) ELSE 0) - 0
  BY <1>1, <1>2, <1>3, <1>4, <1>5 DEF Gained, Often
<1>. QED BY <1>6, <1>7 DEF row

LEMMA TradeGains ==
  ASSUME NEW X, NEW a, NEW b, a # b, NEW sent \in Seq(X), NEW received \in Seq(X),
         NEW round, NEW closes, NEW opens, NEW m, NEW p
  PROVE  Gained(TradeRow(a, b, sent, received, round, closes, opens), m, p)
           = IF m = a THEN Often(p, received) - Often(p, sent)
             ELSE IF m = b THEN Often(p, sent) - Often(p, received) ELSE 0
<1>. DEFINE row == TradeRow(a, b, sent, received, round, closes, opens)
<1>1. row.playersOut = TwoTeams(a, sent, b, received) /\ row.playersIn = TwoTeams(a, received, b, sent)
  BY DEF TradeRow
<1>2. \A u, v : ListOf(TwoTeams(a, u, b, v), m) = IF m = a THEN u ELSE IF m = b THEN v ELSE <<>>
  BY DEF ListOf, TwoTeams
<1>4. PlacesOf(p, <<>>) = {}
  BY DEF PlacesOf
<1>5. Cardinality({}) = 0
  BY FS_EmptySet
<1>6. Often(p, sent) \in Int /\ Often(p, received) \in Int
  BY CountInList DEF Often
<1>. HIDE DEF row
<1>7. Gained(row, m, p) = Cardinality(PlacesOf(p, ListOf(TwoTeams(a, received, b, sent), m)))
                            - Cardinality(PlacesOf(p, ListOf(TwoTeams(a, sent, b, received), m)))
  BY <1>1 DEF Gained
<1>8. Gained(row, m, p) = IF m = a THEN Often(p, received) - Often(p, sent)
                          ELSE IF m = b THEN Often(p, sent) - Often(p, received) ELSE 0 - 0
  <2>. DEFINE in == ListOf(TwoTeams(a, received, b, sent), m)
              out == ListOf(TwoTeams(a, sent, b, received), m)
  <2>1. in = IF m = a THEN received ELSE IF m = b THEN sent ELSE <<>>
    BY <1>2
  <2>2. out = IF m = a THEN sent ELSE IF m = b THEN received ELSE <<>>
    BY <1>2
  <2>3. Gained(row, m, p) = Often(p, in) - Often(p, out)
    BY <1>7 DEF Often
  <2>4. Often(p, <<>>) = 0
    BY <1>4, <1>5 DEF Often
  <2>. HIDE DEF in, out
  <2>. QED BY <2>1, <2>2, <2>3, <2>4
<1>. QED BY <1>6, <1>8 DEF row

(* A window placed on a row leaves the players it names.                     *)
HasPlayers(r) == {"playersIn", "playersOut", "closes", "opens"} \subseteq DOMAIN r

LEMMA PlacedGains ==
  ASSUME NEW seats, NEW R, NEW rows \in Seq(R), \A r \in R : HasPlayers(r), NEW owner, NEW round,
         PlaceWindows(seats, owner, rows, round).ok, NEW m, NEW p
  PROVE  RowSum(PlaceWindows(seats, owner, rows, round).steps, m, p) = RowSum(rows, m, p)
<1>. DEFINE moved == {q \in DOMAIN owner : HolderOf(seats, q) # owner[q]}
            leaving == {q \in moved : q \in Seated(seats)}
            settling == {q \in moved : owner[q] # Nobody}
            closeAt(q) == SelectInSeq(rows, LAMBDA row :
                            q \in Of(row.playersOut, HolderOf(seats, q)))
            openAt(q) == SelectLastInSeq(rows, LAMBDA row : q \in Of(row.playersIn, owner[q]))
            orderly == /\ \A q \in leaving : closeAt(q) # 0
                       /\ \A q \in settling : openAt(q) # 0
                       /\ \A q \in leaving \cap settling : closeAt(q) <= openAt(q)
            opens(i) == {[member |-> owner[q], player |-> q, fromRound |-> round,
                          via |-> IF rows[i].type = "trade" THEN "trade" ELSE "signing"] :
                           q \in {c \in settling : openAt(c) = i}}
            closes(i) == Closed(seats, {q \in leaving : closeAt(q) = i}, round)
            steps == [i \in DOMAIN rows |-> [rows[i] EXCEPT !.closes = closes(i), !.opens = opens(i)]]
            plan == PlaceWindows(seats, owner, rows, round)
<1>1. plan = IF ~orderly THEN Unexplained ELSE [ok |-> TRUE, steps |-> steps]
  BY Zenon DEF PlaceWindows
<1>. HIDE DEF moved, leaving, settling, closeAt, openAt, orderly, opens, closes
<1>2. plan.steps = steps
  <2>. HIDE DEF steps, plan
  <2>1. plan.ok
    BY DEF plan
  <2>. QED BY <1>1, <2>1 DEF Unexplained
<1>3. \A i \in DOMAIN rows : HasPlayers(rows[i])
  OBVIOUS
<1>4. ASSUME NEW r, HasPlayers(r), NEW c, NEW o
      PROVE  Gained([r EXCEPT !.closes = c, !.opens = o], m, p) = Gained(r, m, p)
  <2>. DEFINE s == [r EXCEPT !.closes = c, !.opens = o]
  <2>1. "playersIn" \in DOMAIN r /\ "playersOut" \in DOMAIN r
    BY <1>4 DEF HasPlayers
  <2>2. s.playersIn = r.playersIn /\ s.playersOut = r.playersOut
    BY <2>1
  <2>. HIDE DEF s
  <2>. QED BY <2>2 DEF Gained, s
<1>5. \A i \in DOMAIN rows : Gained(steps[i], m, p) = Gained(rows[i], m, p)
  BY <1>3, <1>4
<1>6. DOMAIN steps = DOMAIN rows
  OBVIOUS
<1>. HIDE DEF steps
<1>7. [i \in DOMAIN steps |-> Gained(steps[i], m, p)] = [i \in DOMAIN rows |-> Gained(rows[i], m, p)]
  BY <1>5, <1>6
<1>8. RowSum(steps, m, p) = RowSum(rows, m, p)
  BY <1>7 DEF RowSum
<1>. QED BY <1>2, <1>8 DEF plan

LEMMA RowsHavePlayers ==
  ASSUME NEW round, NEW closes, NEW opens
  PROVE  /\ \A m, out : HasPlayers(DropRow(m, out, round, closes))
         /\ \A m, in : HasPlayers(AddRow(m, in, round, opens))
         /\ \A a, b, sent, got : HasPlayers(TradeRow(a, b, sent, got, round, closes, opens))
BY DEF HasPlayers, DropRow, AddRow, TradeRow

(* The sum of rows as a sum along a sequence.                                *)
LEMMA RowSumFact ==
  ASSUME NEW R, NEW rows \in Seq(R), NEW m, NEW p, NEW g \in [R -> Int],
         \A r \in R : g[r] = Gained(r, m, p)
  PROVE  RowSum(rows, m, p) = SumOver(rows, g)
<1>1. \A i \in DOMAIN rows : g[rows[i]] = Gained(rows[i], m, p)
  <2>1. \A i \in DOMAIN rows : rows[i] \in R
    OBVIOUS
  <2>. QED BY <2>1
<1>2. [i \in DOMAIN rows |-> Gained(rows[i], m, p)] = [i \in DOMAIN rows |-> g[rows[i]]]
  BY <1>1
<1>. QED BY <1>2 DEF RowSum, SumOver

LEMMA SumOfZeros ==
  ASSUME NEW S, IsFiniteSet(S), NEW w \in [S -> Int], \A x \in S : w[x] = 0
  PROVE  SumFunction(w) = 0
<1>1. PICK f : IsSum(S, w, f)
  BY SumExists
<1>. DEFINE T == {}
            v == [x \in T |-> w[x]]
<1>2. T \in SUBSET S /\ \A x \in S \ T : w[x] = 0
  OBVIOUS
<1>3. f[T] = 0
  BY <1>1 DEF IsSum
<1>. HIDE DEF T
<1>4. SumFunction(v) = f[T]
  BY <1>1, <1>2, SumOfPart
<1>5. SumFunction(w) = SumFunction(v)
  BY <1>2, SumZeros
<1>. QED BY <1>3, <1>4, <1>5

-----------------------------------------------------------------------------
(* The Fantasy Challenge log: what each move changes, the rows add up to.    *)

Is(a, b) == IF a = b THEN 1 ELSE 0

(* How often one list names a player, less how often another.                *)
SameLength(X, n, in, out) == n \in Nat /\ in \in [1..n -> X] /\ out \in [1..n -> X]

LEMMA SameLengthFact ==
  ASSUME NEW X, NEW n, NEW in, NEW out, SameLength(X, n, in, out)
  PROVE  /\ n \in Nat /\ in \in [1..n -> X] /\ out \in [1..n -> X]
         /\ in \in Seq(X) /\ out \in Seq(X) /\ DOMAIN in = 1..n /\ DOMAIN out = 1..n
<1>1. n \in Nat /\ in \in [1..n -> X] /\ out \in [1..n -> X]
  BY DEF SameLength
<1>2. in \in Seq(X) /\ out \in Seq(X)
  BY <1>1
<1>. QED BY <1>1, <1>2

LEMMA ListsDiffer ==
  ASSUME NEW X, NEW n, NEW in, NEW out, SameLength(X, n, in, out), NEW p
  PROVE  Often(p, in) - Often(p, out) = SumFunction([i \in 1..n |-> Is(in[i], p) - Is(out[i], p)])
<1>. DEFINE N == 1..n
            u == [i \in N |-> Is(in[i], p)]
            v == [i \in N |-> Is(out[i], p)]
            w == [i \in N |-> u[i] - v[i]]
<1>0. n \in Nat /\ in \in [1..n -> X] /\ out \in [1..n -> X]
  BY SameLengthFact
<1>1. IsFiniteSet(N)
  <2>1. 1 \in Int /\ n \in Int
    BY <1>0
  <2>. QED BY <2>1, FS_Interval
<1>2. u \in [N -> Int] /\ v \in [N -> Int]
  BY DEF Is
<1>3. in \in Seq(X) /\ out \in Seq(X) /\ DOMAIN in = N /\ DOMAIN out = N
  BY SameLengthFact
<1>4. Often(p, in) = SumFunction(u)
  <2>1. Often(p, in) = SumFunction([i \in DOMAIN in |-> IF in[i] = p THEN 1 ELSE 0])
    BY <1>3, CountInList DEF Often
  <2>. HIDE DEF N
  <2>. QED BY <1>3, <2>1 DEF Is
<1>5. Often(p, out) = SumFunction(v)
  <2>1. Often(p, out) = SumFunction([i \in DOMAIN out |-> IF out[i] = p THEN 1 ELSE 0])
    BY <1>3, CountInList DEF Often
  <2>. HIDE DEF N
  <2>. QED BY <1>3, <2>1 DEF Is
<1>6. w = [i \in N |-> Is(in[i], p) - Is(out[i], p)]
  OBVIOUS
<1>. HIDE DEF u, v, N
<1>7. SumFunction(w) = SumFunction(u) - SumFunction(v)
  BY <1>1, <1>2, SumLess
<1>. HIDE DEF w
<1>. QED BY <1>4, <1>5, <1>6, <1>7 DEF N

MoveGains(move, m, p) ==
  IF m = move.member THEN Is(move.arrival, p) - Is(move.departure, p)
  ELSE IF m = move.to THEN Is(move.departure, p) - Is(move.arrival, p) ELSE 0

LEMMA MoveGainsType ==
  ASSUME NEW move, NEW m, NEW p
  PROVE  MoveGains(move, m, p) \in Int
BY DEF MoveGains, Is

(* Whom the moves of a team sent away, whom they brought.                    *)
Departures(moves) == [i \in DOMAIN moves |-> moves[i].departure]
Arrivals(moves) == [i \in DOMAIN moves |-> moves[i].arrival]

(* And those of a pair, as its first team sees them.                         *)
Sent(moves, a) == [i \in DOMAIN moves |-> IF moves[i].member = a THEN moves[i].departure
                                          ELSE moves[i].arrival]
Got(moves, a) == [i \in DOMAIN moves |-> IF moves[i].member = a THEN moves[i].arrival
                                         ELSE moves[i].departure]

(* A team's release and signing, for its moves with free agency.             *)
LEMMA FreeGains ==
  ASSUME NEW L, NEW moves \in Seq(L), NEW a, NEW round, NEW m, m # Nobody, NEW p,
         NEW g \in [L -> Int], \A move \in L : g[move] = MoveGains(move, m, p),
         \A i \in DOMAIN moves : moves[i].member = a /\ moves[i].to = Nobody
  PROVE  Gained(DropRow(a, Departures(moves), round, {}), m, p)
           + Gained(AddRow(a, Arrivals(moves), round, {}), m, p)
         = SumOver(moves, g)
<1>. DEFINE n == Len(moves)
            out == [i \in DOMAIN moves |-> moves[i].departure]
            in == [i \in DOMAIN moves |-> moves[i].arrival]
            X == {moves[i].departure : i \in 1..n} \cup {moves[i].arrival : i \in 1..n}
            w == [i \in DOMAIN moves |-> g[moves[i]]]
<1>1. n \in Nat /\ DOMAIN moves = 1..n /\ \A i \in 1..n : moves[i] \in L
  OBVIOUS
<1>2. SameLength(X, n, in, out)
  <2>1. in \in [DOMAIN moves -> X] /\ out \in [DOMAIN moves -> X]
    BY <1>1
  <2>. HIDE DEF n, in, out, X
  <2>. QED BY <1>1, <2>1 DEF SameLength
<1>4. \A i \in 1..n : w[i] = IF m = a THEN Is(in[i], p) - Is(out[i], p) ELSE 0
  BY <1>1 DEF MoveGains
<1>5. IsFiniteSet(DOMAIN moves) /\ w \in [DOMAIN moves -> Int]
  BY SumOverType
<1>6. SumOver(moves, g) = SumFunction(w)
  BY DEF SumOver
<1>. HIDE DEF in, out, X, n
<1>3. in \in Seq(X) /\ out \in Seq(X)
  BY <1>2, SameLengthFact
<1>7. /\ Gained(DropRow(a, out, round, {}), m, p) = IF m = a THEN -Often(p, out) ELSE 0
      /\ Gained(AddRow(a, in, round, {}), m, p) = IF m = a THEN Often(p, in) ELSE 0
      /\ Often(p, in) \in Int /\ Often(p, out) \in Int
  <2>1. Gained(DropRow(a, out, round, {}), m, p) = IF m = a THEN -Often(p, out) ELSE 0
    BY <1>3, DropGains
  <2>2. Gained(AddRow(a, in, round, {}), m, p) = IF m = a THEN Often(p, in) ELSE 0
    BY <1>3, AddGains
  <2>. QED BY <1>3, <2>1, <2>2, CountInList DEF Often
<1>8. CASE m = a
  <2>1. Often(p, in) - Often(p, out) = SumFunction([i \in 1..n |-> Is(in[i], p) - Is(out[i], p)])
    BY <1>2, ListsDiffer
  <2>2. w = [i \in 1..n |-> Is(in[i], p) - Is(out[i], p)]
    <3>1. w = [i \in 1..n |-> w[i]]
      BY <1>1
    <3>. HIDE DEF w
    <3>. QED BY <1>4, <1>8, <3>1
  <2>3. Often(p, in) - Often(p, out) = SumFunction(w)
    BY <2>1, <2>2
  <2>. HIDE DEF w
  <2>. QED BY <1>6, <1>7, <1>8, <2>3 DEF in, out, Departures, Arrivals
<1>9. CASE m # a
  <2>1. \A i \in DOMAIN moves : w[i] = 0
    BY <1>1, <1>4, <1>9
  <2>. HIDE DEF w
  <2>2. SumFunction(w) = 0
    BY <1>5, <2>1, SumOfZeros
  <2>. QED BY <1>6, <1>7, <1>9, <2>2 DEF in, out, Departures, Arrivals
<1>. QED BY <1>8, <1>9 DEF in, out, Departures, Arrivals

(* A pair's trade, for the moves between the two.                            *)
PairTrade(round, moves, pair) ==
  TradeRow(pair[1], pair[2], Sent(moves, pair[1]), Got(moves, pair[1]), round, {}, {})

IsPair(moves, pair) ==
  /\ pair[1] # pair[2]
  /\ \A i \in DOMAIN moves : PairOf(moves[i]) = pair /\ moves[i].member # moves[i].to

LEMMA PairGains ==
  ASSUME NEW L, NEW moves \in Seq(L), NEW pair, NEW round, NEW m, NEW p,
         NEW g \in [L -> Int], \A move \in L : g[move] = MoveGains(move, m, p),
         IsPair(moves, pair)
  PROVE  Gained(PairTrade(round, moves, pair), m, p) = SumOver(moves, g)
<1>. DEFINE n == Len(moves)
            a == pair[1]
            b == pair[2]
            sent == [i \in DOMAIN moves |-> IF moves[i].member = a THEN moves[i].departure
                                            ELSE moves[i].arrival]
            got == [i \in DOMAIN moves |-> IF moves[i].member = a THEN moves[i].arrival
                                           ELSE moves[i].departure]
            X == {moves[i].departure : i \in 1..n} \cup {moves[i].arrival : i \in 1..n}
            w == [i \in DOMAIN moves |-> g[moves[i]]]
<1>1. n \in Nat /\ DOMAIN moves = 1..n /\ \A i \in 1..n : moves[i] \in L
  OBVIOUS
<1>2. SameLength(X, n, got, sent) /\ SameLength(X, n, sent, got)
  <2>1. sent \in [DOMAIN moves -> X] /\ got \in [DOMAIN moves -> X]
    BY <1>1
  <2>. HIDE DEF n, sent, got, X
  <2>. QED BY <1>1, <2>1 DEF SameLength
<1>4. ASSUME NEW i \in 1..n
      PROVE  w[i] = IF m = a THEN Is(got[i], p) - Is(sent[i], p)
                    ELSE IF m = b THEN Is(sent[i], p) - Is(got[i], p) ELSE 0
  <2>. DEFINE move == moves[i]
  <2>1. PairOf(move) = pair /\ move.member # move.to /\ w[i] = MoveGains(move, m, p)
    BY <1>1 DEF IsPair
  <2>2. (move.member = a /\ move.to = b) \/ (move.member = b /\ move.to = a)
    <3>. HIDE DEF move
    <3>. QED BY <2>1 DEF PairOf
  <2>3. /\ sent[i] = IF move.member = a THEN move.departure ELSE move.arrival
        /\ got[i] = IF move.member = a THEN move.arrival ELSE move.departure
    BY <1>1
  <2>. HIDE DEF move, sent, got, w
  <2>. QED BY <2>1, <2>2, <2>3 DEF MoveGains
<1>5. IsFiniteSet(DOMAIN moves) /\ w \in [DOMAIN moves -> Int]
  BY SumOverType
<1>6. SumOver(moves, g) = SumFunction(w)
  BY DEF SumOver
<1>10. w = [i \in 1..n |-> w[i]] /\ a # b
  BY <1>1 DEF IsPair
<1>. HIDE DEF sent, got, X, n, w
<1>3. got \in Seq(X) /\ sent \in Seq(X)
  BY <1>2, SameLengthFact
<1>. DEFINE row == TradeRow(a, b, sent, got, round, {}, {})
<1>. HIDE DEF a, b
<1>7. /\ Gained(row, m, p) = IF m = a THEN Often(p, got) - Often(p, sent)
                             ELSE IF m = b THEN Often(p, sent) - Often(p, got) ELSE 0
      /\ Often(p, sent) \in Int /\ Often(p, got) \in Int
  <2>1. Gained(row, m, p) = IF m = a THEN Often(p, got) - Often(p, sent)
                            ELSE IF m = b THEN Often(p, sent) - Often(p, got) ELSE 0
    BY <1>3, <1>10, TradeGains
  <2>. QED BY <1>3, <2>1, CountInList DEF Often
<1>. HIDE DEF row
<1>8. ASSUME m = a PROVE Gained(row, m, p) = SumOver(moves, g)
  <2>1. Often(p, got) - Often(p, sent) = SumFunction([i \in 1..n |-> Is(got[i], p) - Is(sent[i], p)])
    BY <1>2, ListsDiffer
  <2>2. w = [i \in 1..n |-> Is(got[i], p) - Is(sent[i], p)]
    BY <1>4, <1>8, <1>10
  <2>. QED BY <1>6, <1>7, <1>8, <2>1, <2>2
<1>9. ASSUME m # a, m = b PROVE Gained(row, m, p) = SumOver(moves, g)
  <2>1. Often(p, sent) - Often(p, got) = SumFunction([i \in 1..n |-> Is(sent[i], p) - Is(got[i], p)])
    BY <1>2, ListsDiffer
  <2>2. w = [i \in 1..n |-> Is(sent[i], p) - Is(got[i], p)]
    BY <1>4, <1>9, <1>10
  <2>. QED BY <1>6, <1>7, <1>9, <2>1, <2>2
<1>11. ASSUME m # a, m # b PROVE Gained(row, m, p) = SumOver(moves, g)
  <2>1. \A i \in DOMAIN moves : w[i] = 0
    BY <1>1, <1>4, <1>11
  <2>2. SumFunction(w) = 0
    BY <1>5, <2>1, SumOfZeros
  <2>. QED BY <1>6, <1>7, <1>11, <2>2
<1>12. Gained(row, m, p) = SumOver(moves, g)
  BY <1>8, <1>9, <1>11
<1>. QED BY <1>12 DEF row, sent, got, a, b, Sent, Got, PairTrade

(* The pairs that traded, each listed once.                                  *)
LEMMA PairsListed ==
  ASSUME NEW n \in Nat, NEW L, NEW trades \in [1..n -> L]
  PROVE  Lists(Len(PairsOf(trades)), PairsOf(trades), {PairOf(trades[j]) : j \in 1..n})
<1>. DEFINE P == {PairOf(move) : move \in L}
            upTo(k) == {PairOf(trades[j]) : j \in 1..k}
<1>0. PICK after : PairsGrow(after, n, trades, P)
  BY PairsAreSteps
<1>. HIDE DEF P
<1>1. /\ after[0] = <<>> /\ after[n] = PairsOf(trades)
      /\ \A k \in 0..n : after[k] \in Seq(P)
      /\ \A k \in 1..n :
           after[k] = IF Contains(after[k - 1], PairOf(trades[k])) THEN after[k - 1]
                      ELSE Append(after[k - 1], PairOf(trades[k]))
  BY <1>0 DEF PairsGrow
<1>. DEFINE S == {k \in 0..n : Lists(Len(after[k]), after[k], upTo(k))}
<1>2. 0 \in S
  <2>1. upTo(0) = {} /\ 0 \in 0..n
    OBVIOUS
  <2>2. Len(<<>>) = 0 /\ <<>> \in [1..0 -> {}] /\ 1..0 = {}
    OBVIOUS
  <2>. HIDE DEF upTo
  <2>. QED BY <1>1, <2>1, <2>2 DEF Lists
<1>3. ASSUME NEW k \in 1..n, k - 1 \in S PROVE k \in S
  <2>. DEFINE a == after[k - 1]
              x == PairOf(trades[k])
              U == upTo(k - 1)
              l == Len(a)
  <2>1. k \in 0..n /\ k - 1 \in 0..n
    OBVIOUS
  <2>2. a \in Seq(P) /\ Lists(l, a, U)
    BY <1>1, <1>3, <2>1
  <2>3. upTo(k) = U \cup {x}
    <3>1. 1..k = 1..k - 1 \cup {k}
      OBVIOUS
    <3>. QED BY <3>1
  <2>4. after[k] = IF Contains(a, x) THEN a ELSE Append(a, x)
    BY <1>1
  <2>. HIDE DEF a, x, U, upTo, l
  <2>5. /\ l \in Nat /\ a \in [1..l -> U]
        /\ \A y \in U : \E i \in 1..l : a[i] = y
        /\ \A i, j \in 1..l : a[i] = a[j] => i = j
    BY <2>2 DEF Lists
  <2>6. Contains(a, x) <=> x \in U
    <3>1. Contains(a, x) <=> \E i \in 1..l : a[i] = x
      BY DEF Contains, l
    <3>. QED BY <2>5, <3>1
  <2>7. CASE x \in U
    <3>1. upTo(k) = U /\ after[k] = a
      BY <2>3, <2>4, <2>6, <2>7
    <3>. QED BY <2>1, <2>2, <3>1 DEF l
  <2>8. CASE x \notin U
    <3>. DEFINE b == Append(a, x)
                W == U \cup {x}
    <3>1. a \in Seq(U)
      BY <2>5
    <3>2. /\ Len(b) = l + 1 /\ b \in Seq(W)
          /\ \A i \in 1..l : b[i] = a[i]
          /\ b[l + 1] = x
      <4>1. a \in Seq(W) /\ Len(a) = l
        BY <3>1 DEF l
      <4>. HIDE DEF W
      <4>2. x \in W
        BY DEF W
      <4>. QED BY <4>1, <4>2
    <3>. HIDE DEF b
    <3>3. b \in [1..l + 1 -> W]
      <4>. HIDE DEF W
      <4>. QED BY <2>5, <3>2
    <3>4. \A y \in W : \E i \in 1..l + 1 : b[i] = y
      <4>1. l + 1 \in 1..l + 1 /\ \A i \in 1..l : i \in 1..l + 1
        BY <2>5
      <4>. QED BY <2>5, <3>2, <4>1
    <3>5. ASSUME NEW i \in 1..l + 1, NEW j \in 1..l + 1, b[i] = b[j] PROVE i = j
      <4>1. (i \in 1..l \/ i = l + 1) /\ (j \in 1..l \/ j = l + 1)
        BY <2>5
      <4>2. \A h \in 1..l : a[h] # x
        BY <2>5, <2>8
      <4>. QED BY <2>5, <3>2, <3>5, <4>1, <4>2
    <3>6. l + 1 \in Nat
      BY <2>5
    <3>7. Lists(l + 1, b, W)
      BY <3>3, <3>4, <3>5, <3>6 DEF Lists
    <3>8. after[k] = b /\ upTo(k) = W
      BY <2>3, <2>4, <2>6, <2>8 DEF b
    <3>. HIDE DEF W
    <3>. QED BY <2>1, <3>2, <3>7, <3>8
  <2>. QED BY <2>7, <2>8
<1>4. \A k \in 1..n : k - 1 \in S => k \in S
  BY <1>3
<1>. HIDE DEF S
<1>5. \A k \in 0..n : k \in S
  BY <1>2, <1>4, Upward
<1>6. n \in S
  BY <1>5
<1>. HIDE DEF upTo
<1>7. Lists(Len(after[n]), after[n], upTo(n))
  BY <1>6 DEF S
<1>. QED BY <1>1, <1>7 DEF upTo

(* The rows of a log by name.                                                *)
FreePlaces(applied, a) == {i \in DOMAIN applied : applied[i].to = Nobody /\ applied[i].member = a}
FreeMoves(applied, a) == Picked(applied, FreePlaces(applied, a))
FreeDrop(round, applied, a) == DropRow(a, Departures(FreeMoves(applied, a)), round, {})
FreeAdd(round, applied, a) == AddRow(a, Arrivals(FreeMoves(applied, a)), round, {})
PairPlaces(trades, pair) == {j \in DOMAIN trades : PairOf(trades[j]) = pair}
PairMoves(trades, pair) == Picked(trades, PairPlaces(trades, pair))
PairRow(round, trades, pair) == PairTrade(round, PairMoves(trades, pair), pair)
TradePlaces(applied) == {i \in DOMAIN applied : applied[i].to # Nobody}
FreeDeals(applied) == {j \in DOMAIN applied : applied[j].to = Nobody}
Dealing(applied) == {applied[i].member : i \in FreeDeals(applied)}

LEMMA LoggedAs ==
  ASSUME NEW round, NEW applied
  PROVE  LET D == Ascending(Dealing(applied))
             trades == Picked(applied, TradePlaces(applied))
             P == PairsOf(trades)
         IN  LoggedRows(round, applied)
               = [i \in DOMAIN D |-> FreeDrop(round, applied, D[i])]
                   \o [i \in DOMAIN P |-> PairRow(round, trades, P[i])]
                   \o [i \in DOMAIN D |-> FreeAdd(round, applied, D[i])]
BY Zenon DEF LoggedRows, Mapped, Selected, FreePlaces, FreeMoves, Departures, Arrivals, FreeDrop,
  FreeAdd, PairPlaces, PairMoves, Sent, Got, PairTrade, PairRow, TradePlaces, FreeDeals, Dealing, PairsOf

LEMMA PickedFrom ==
  ASSUME NEW R, NEW s \in Seq(R), NEW J \in SUBSET (DOMAIN s)
  PROVE  /\ Picked(s, J) \in Seq(R) /\ IsFiniteSet(J) /\ J \subseteq Nat
         /\ \A i \in DOMAIN Picked(s, J) : \E k \in J : Picked(s, J)[i] = s[k]
<1>. DEFINE h == Ascending(J)
            picked == Picked(s, J)
<1>1. DOMAIN s \subseteq Nat /\ IsFiniteSet(DOMAIN s)
  <2>1. Len(s) \in Nat /\ DOMAIN s = 1..Len(s) /\ 1 \in Int /\ Len(s) \in Int
    OBVIOUS
  <2>. QED BY <2>1, FS_Interval
<1>2. IsFiniteSet(J) /\ J \subseteq Nat
  BY <1>1, FS_Subset
<1>3. Lists(Cardinality(J), h, J)
  BY <1>2, AscendingLists
<1>4. picked = [i \in DOMAIN h |-> s[h[i]]]
  BY Zenon DEF Picked
<1>. HIDE DEF h, picked
<1>5. DOMAIN picked = DOMAIN h /\ \A i \in DOMAIN h : h[i] \in J /\ picked[i] = s[h[i]]
  BY <1>3, <1>4 DEF Lists
<1>6. picked \in Seq(R)
  BY PickedFact DEF picked
<1>. QED BY <1>2, <1>5, <1>6 DEF picked

(* What moves change of a player, by move.                                   *)
Weighs(L, g, m, p) == g \in [L -> Int] /\ \A move \in L : g[move] = MoveGains(move, m, p)

FreeListed(L, applied, g, m, p, n, D) ==
  applied \in Seq(L) /\ m # Nobody /\ Weighs(L, g, m, p) /\ Lists(n, D, Dealing(applied))

(* What the releases and signings tell, and what the moves with free agency  *)
(* did.                                                                      *)
FreeTold(round, applied, m, p, n, D) ==
  SumFunction([i \in 1..n |-> Gained(FreeDrop(round, applied, D[i]), m, p)
                                + Gained(FreeAdd(round, applied, D[i]), m, p)])
FreeDone(applied, g) == SumFunction([k \in FreeDeals(applied) |-> g[applied[k]]])

LEMMA FreeSums ==
  ASSUME NEW L, NEW applied, NEW round, NEW m, NEW p, NEW g, NEW n, NEW D,
         FreeListed(L, applied, g, m, p, n, D)
  PROVE  FreeTold(round, applied, m, p, n, D) = FreeDone(applied, g)
<1>. applied \in Seq(L) /\ m # Nobody /\ g \in [L -> Int]
     /\ (\A move \in L : g[move] = MoveGains(move, m, p)) /\ Lists(n, D, Dealing(applied))
  BY DEF FreeListed, Weighs
<1>. DEFINE S == FreeDeals(applied)
            w == [k \in S |-> g[applied[k]]]
            G == 1..n
            K == [i \in G |-> FreePlaces(applied, D[i])]
            v == [i \in G |-> Gained(FreeDrop(round, applied, D[i]), m, p)
                                + Gained(FreeAdd(round, applied, D[i]), m, p)]
<1>1. \A k \in DOMAIN applied : applied[k] \in L
  OBVIOUS
<1>2. S \in SUBSET (DOMAIN applied) /\ IsFiniteSet(S)
  <2>1. S \in SUBSET (DOMAIN applied)
    BY DEF FreeDeals
  <2>. HIDE DEF S
  <2>. QED BY <2>1, PickedFrom
<1>3. w \in [S -> Int]
  <2>1. \A k \in S : g[applied[k]] \in Int
    BY <1>1, <1>2
  <2>. HIDE DEF S
  <2>. QED BY <2>1
<1>4. /\ n \in Nat /\ D \in [G -> Dealing(applied)]
      /\ \A x \in Dealing(applied) : \E i \in G : D[i] = x
      /\ \A i, j \in G : D[i] = D[j] => i = j
  BY DEF Lists
<1>5. IsFiniteSet(G)
  <2>1. 1 \in Int /\ n \in Int
    BY <1>4
  <2>. QED BY <2>1, FS_Interval
<1>. HIDE DEF G
<1>6. \A a : FreePlaces(applied, a) \in SUBSET S
             /\ \A k \in S : k \in FreePlaces(applied, a) <=> applied[k].member = a
  BY DEF FreePlaces, FreeDeals
<1>7. K \in [G -> SUBSET S]
  <2>. HIDE DEF S
  <2>. QED BY <1>6
<1>8. \A i, j \in G : i # j => K[i] \cap K[j] = {}
  <2>. HIDE DEF S
  <2>. QED BY <1>4, <1>6
<1>9. \A k \in S : \E i \in G : k \in K[i]
  <2>. TAKE k \in S
  <2>1. applied[k].member \in Dealing(applied)
    BY DEF Dealing
  <2>2. PICK i \in G : D[i] = applied[k].member
    BY <1>4, <2>1
  <2>. HIDE DEF S
  <2>3. k \in K[i]
    BY <1>6, <2>2
  <2>. QED BY <2>3
<1>10. ASSUME NEW i \in G PROVE v[i] = SumFunction([k \in K[i] |-> w[k]]) /\ v[i] \in Int
  <2>. DEFINE a == D[i]
              J == FreePlaces(applied, a)
              moves == FreeMoves(applied, a)
  <2>1. J \in SUBSET (DOMAIN applied) /\ J \in SUBSET S
    BY <1>2, <1>6
  <2>2. moves = Picked(applied, J)
    BY DEF FreeMoves
  <2>3. \A k \in J : applied[k].member = a /\ applied[k].to = Nobody
    BY DEF FreePlaces
  <2>4. v[i] = Gained(DropRow(a, Departures(moves), round, {}), m, p)
                 + Gained(AddRow(a, Arrivals(moves), round, {}), m, p)
    BY DEF FreeDrop, FreeAdd
  <2>5. K[i] = J
    OBVIOUS
  <2>. HIDE DEF a, J, moves, K, v, S
  <2>6. moves \in Seq(L) /\ \A j \in DOMAIN moves : \E k \in J : moves[j] = applied[k]
    BY <2>1, <2>2, PickedFrom
  <2>7. \A j \in DOMAIN moves : moves[j].member = a /\ moves[j].to = Nobody
    BY <2>3, <2>6
  <2>8. v[i] = SumOver(moves, g)
    <3>1. Gained(DropRow(a, Departures(moves), round, {}), m, p)
            + Gained(AddRow(a, Arrivals(moves), round, {}), m, p)
          = SumOver(moves, g)
      BY <2>6, <2>7, FreeGains
    <3>. QED BY <2>4, <3>1
  <2>9. SumOver(moves, g) = SumFunction([k \in J |-> g[applied[k]]])
    BY <2>1, <2>2, SumPicked
  <2>10. [k \in J |-> g[applied[k]]] = [k \in K[i] |-> w[k]]
    BY <2>1, <2>5
  <2>11. SumOver(moves, g) \in Int
    BY <2>6, SumOverType
  <2>. HIDE DEF w
  <2>. QED BY <2>8, <2>9, <2>10, <2>11
<1>11. v \in [G -> Int]
  <2>1. \A i \in G : v[i] \in Int
    BY <1>10
  <2>2. v = [i \in G |-> v[i]]
    OBVIOUS
  <2>. HIDE DEF v
  <2>. QED BY <2>1, <2>2
<1>. HIDE DEF S, w, K, v
<1>12. Grouped(S, w, G, K, v)
  BY <1>2, <1>3, <1>5, <1>7, <1>8, <1>9, <1>10, <1>11 DEF Grouped
<1>13. SumFunction(v) = SumFunction(w)
  BY <1>12, SumOfGroups
<1>. QED BY <1>13 DEF v, w, G, S, FreeTold, FreeDone

PairsListedIn(L, trades, g, m, p, n, P) ==
  /\ trades \in Seq(L) /\ \A move \in L : move.member # move.to
  /\ Weighs(L, g, m, p) /\ Lists(n, P, {PairOf(trades[j]) : j \in DOMAIN trades})

PairsTold(round, trades, m, p, n, P) ==
  SumFunction([i \in 1..n |-> Gained(PairRow(round, trades, P[i]), m, p)])

LEMMA PairSums ==
  ASSUME NEW L, NEW trades, NEW round, NEW m, NEW p, NEW g, NEW n, NEW P,
         PairsListedIn(L, trades, g, m, p, n, P)
  PROVE  PairsTold(round, trades, m, p, n, P) = SumOver(trades, g)
<1>. trades \in Seq(L) /\ (\A move \in L : move.member # move.to)
     /\ g \in [L -> Int] /\ (\A move \in L : g[move] = MoveGains(move, m, p))
     /\ Lists(n, P, {PairOf(trades[j]) : j \in DOMAIN trades})
  BY DEF PairsListedIn, Weighs
<1>. DEFINE S == DOMAIN trades
            w == [k \in S |-> g[trades[k]]]
            G == 1..n
            K == [i \in G |-> PairPlaces(trades, P[i])]
            v == [i \in G |-> Gained(PairRow(round, trades, P[i]), m, p)]
            pairs == {PairOf(trades[j]) : j \in S}
<1>1. \A k \in S : trades[k] \in L
  OBVIOUS
<1>2. IsFiniteSet(S) /\ w \in [S -> Int]
  BY SumOverType
<1>4. /\ n \in Nat /\ P \in [G -> pairs]
      /\ \A x \in pairs : \E i \in G : P[i] = x
      /\ \A i, j \in G : P[i] = P[j] => i = j
  BY DEF Lists
<1>5. IsFiniteSet(G)
  <2>1. 1 \in Int /\ n \in Int
    BY <1>4
  <2>. QED BY <2>1, FS_Interval
<1>. HIDE DEF G
<1>6. \A a : PairPlaces(trades, a) \in SUBSET S
             /\ \A k \in S : k \in PairPlaces(trades, a) <=> PairOf(trades[k]) = a
  BY DEF PairPlaces
<1>7. K \in [G -> SUBSET S]
  <2>. HIDE DEF S
  <2>. QED BY <1>6
<1>8. \A i, j \in G : i # j => K[i] \cap K[j] = {}
  <2>. HIDE DEF S, pairs
  <2>. QED BY <1>4, <1>6
<1>9. \A k \in S : \E i \in G : k \in K[i]
  <2>. TAKE k \in S
  <2>1. PairOf(trades[k]) \in pairs
    OBVIOUS
  <2>. HIDE DEF pairs
  <2>2. PICK i \in G : P[i] = PairOf(trades[k])
    BY <1>4, <2>1
  <2>. HIDE DEF S
  <2>3. k \in K[i]
    BY <1>6, <2>2
  <2>. QED BY <2>3
<1>10. ASSUME NEW i \in G PROVE v[i] = SumFunction([k \in K[i] |-> w[k]]) /\ v[i] \in Int
  <2>. DEFINE a == P[i]
              J == PairPlaces(trades, a)
              moves == PairMoves(trades, a)
  <2>1. J \in SUBSET S
    BY <1>6
  <2>2. moves = Picked(trades, J)
    BY DEF PairMoves
  <2>3. \A k \in J : PairOf(trades[k]) = a /\ trades[k].member # trades[k].to
    BY <1>1 DEF PairPlaces
  <2>4. v[i] = Gained(PairTrade(round, moves, a), m, p)
    BY DEF PairRow
  <2>5. K[i] = J
    OBVIOUS
  <2>. HIDE DEF J, moves, K, v
  <2>6. moves \in Seq(L) /\ \A j \in DOMAIN moves : \E k \in J : moves[j] = trades[k]
    BY <2>1, <2>2, PickedFrom
  <2>7. \A j \in DOMAIN moves : PairOf(moves[j]) = a /\ moves[j].member # moves[j].to
    <3>. HIDE DEF a
    <3>. QED BY <2>3, <2>6
  <2>12. a[1] # a[2]
    <3>1. PICK k \in S : a = PairOf(trades[k])
      BY <1>4
    <3>2. trades[k].member # trades[k].to
      BY <1>1
    <3>. HIDE DEF a
    <3>. QED BY <3>1, <3>2 DEF PairOf
  <2>. HIDE DEF a, S
  <2>8. v[i] = SumOver(moves, g)
    <3>1. Gained(PairTrade(round, moves, a), m, p) = SumOver(moves, g)
      <4>1. IsPair(moves, a)
        BY <2>7, <2>12 DEF IsPair
      <4>. QED BY <2>6, <4>1, PairGains
    <3>. QED BY <2>4, <3>1
  <2>9. SumOver(moves, g) = SumFunction([k \in J |-> g[trades[k]]])
    BY <2>1, <2>2, SumPicked DEF S
  <2>10. [k \in J |-> g[trades[k]]] = [k \in K[i] |-> w[k]]
    BY <2>1, <2>5
  <2>11. SumOver(moves, g) \in Int
    BY <2>6, SumOverType
  <2>. HIDE DEF w
  <2>. QED BY <2>8, <2>9, <2>10, <2>11
<1>11. v \in [G -> Int]
  <2>1. \A i \in G : v[i] \in Int
    BY <1>10
  <2>2. v = [i \in G |-> v[i]]
    OBVIOUS
  <2>. HIDE DEF v
  <2>. QED BY <2>1, <2>2
<1>13. SumOver(trades, g) = SumFunction(w)
  BY DEF SumOver
<1>. HIDE DEF S, w, K, v
<1>12. Grouped(S, w, G, K, v)
  BY <1>2, <1>5, <1>7, <1>8, <1>9, <1>10, <1>11 DEF Grouped
<1>14. SumFunction(v) = SumFunction(w)
  BY <1>12, SumOfGroups
<1>. QED BY <1>13, <1>14 DEF v, G, PairsTold

(* What each row tells of a player, by row.                                  *)
Tells(R, g, m, p) == g \in [R -> Int] /\ \A r \in R : g[r] = Gained(r, m, p)

LEMMA RowSumTold ==
  ASSUME NEW R, NEW rows \in Seq(R), NEW m, NEW p, NEW g, Tells(R, g, m, p)
  PROVE  RowSum(rows, m, p) = SumOver(rows, g)
BY RowSumFact DEF Tells

LEMMA RowSumsTogether ==
  ASSUME NEW R, NEW a \in Seq(R), NEW b \in Seq(R), NEW c \in Seq(R), NEW m, NEW p,
         \A r \in R : Gained(r, m, p) \in Int
  PROVE  /\ RowSum(a \o b \o c, m, p) = RowSum(a, m, p) + RowSum(b, m, p) + RowSum(c, m, p)
         /\ RowSum(a \o b, m, p) = RowSum(a, m, p) + RowSum(b, m, p)
         /\ RowSum(a, m, p) \in Int
<1>. DEFINE g == [r \in R |-> Gained(r, m, p)]
            ab == a \o b
            abc == ab \o c
<1>1. g \in [R -> Int] /\ \A r \in R : g[r] = Gained(r, m, p)
  OBVIOUS
<1>2. ab \in Seq(R) /\ abc \in Seq(R)
  OBVIOUS
<1>20. Tells(R, g, m, p)
  BY <1>1 DEF Tells
<1>. HIDE DEF g
<1>3. SumOver(ab, g) = SumOver(a, g) + SumOver(b, g)
  BY <1>1, SumOverBoth
<1>4. SumOver(abc, g) = SumOver(ab, g) + SumOver(c, g)
  <2>. HIDE DEF ab
  <2>. QED BY <1>1, <1>2, SumOverBoth
<1>5. /\ SumOver(a, g) \in Int /\ RowSum(a, m, p) = SumOver(a, g)
      /\ RowSum(b, m, p) = SumOver(b, g) /\ RowSum(c, m, p) = SumOver(c, g)
  BY <1>1, <1>20, RowSumTold, SumOverType
<1>. HIDE DEF ab, abc
<1>6. RowSum(abc, m, p) = SumOver(abc, g)
  BY <1>2, <1>20, RowSumTold
<1>7. RowSum(ab, m, p) = SumOver(ab, g)
  BY <1>2, <1>20, RowSumTold
<1>. QED BY <1>3, <1>4, <1>5, <1>6, <1>7 DEF ab, abc

(* As many rows as there are names, each made of its name.                   *)
RowsOf(n, rows, R) == n \in Nat /\ rows \in [1..n -> R]

LEMMA RowsOfFact ==
  ASSUME NEW n, NEW rows, NEW R, RowsOf(n, rows, R), NEW m, NEW p
  PROVE  rows \in Seq(R) /\ RowSum(rows, m, p) = SumFunction([i \in 1..n |-> Gained(rows[i], m, p)])
<1>1. n \in Nat /\ rows \in [1..n -> R]
  BY DEF RowsOf
<1>2. rows \in Seq(R) /\ DOMAIN rows = 1..n
  BY <1>1
<1>. QED BY <1>2 DEF RowSum

LEMMA FreeRowsType ==
  ASSUME NEW L, NEW applied \in Seq(L), NEW round, NEW a, NEW m, NEW p
  PROVE  /\ Gained(FreeDrop(round, applied, a), m, p) \in Int
         /\ Gained(FreeAdd(round, applied, a), m, p) \in Int
<1>. DEFINE moves == FreeMoves(applied, a)
            n == Len(moves)
            X == {moves[i].departure : i \in 1..n} \cup {moves[i].arrival : i \in 1..n}
            out == Departures(moves)
            in == Arrivals(moves)
<1>1. moves \in Seq(L)
  <2>. DEFINE J == FreePlaces(applied, a)
  <2>1. J \in SUBSET (DOMAIN applied) /\ moves = Picked(applied, J)
    BY DEF FreePlaces, FreeMoves
  <2>. HIDE DEF J, moves
  <2>. QED BY <2>1, PickedFrom
<1>. HIDE DEF moves
<1>2. n \in Nat /\ DOMAIN moves = 1..n
  BY <1>1
<1>3. in \in [1..n -> X] /\ out \in [1..n -> X]
  BY <1>2 DEF Departures, Arrivals
<1>. HIDE DEF in, out, X, n
<1>4. in \in Seq(X) /\ out \in Seq(X)
  BY <1>2, <1>3
<1>5. Often(p, in) \in Int /\ Often(p, out) \in Int
  BY <1>4, CountInList DEF Often
<1>6. Gained(DropRow(a, out, round, {}), m, p) = IF m = a THEN -Often(p, out) ELSE 0
  BY <1>4, DropGains
<1>7. Gained(AddRow(a, in, round, {}), m, p) = IF m = a THEN Often(p, in) ELSE 0
  BY <1>4, AddGains
<1>. QED BY <1>5, <1>6, <1>7 DEF FreeDrop, FreeAdd, in, out, moves

LEMMA PairRowType ==
  ASSUME NEW L, NEW trades \in Seq(L), NEW round, NEW k \in DOMAIN trades, NEW m, NEW p,
         \A move \in L : move.member # move.to
  PROVE  Gained(PairRow(round, trades, PairOf(trades[k])), m, p) \in Int
<1>. DEFINE a == PairOf(trades[k])
            J == PairPlaces(trades, a)
            moves == PairMoves(trades, a)
            g == [move \in L |-> MoveGains(move, m, p)]
<1>1. J \in SUBSET (DOMAIN trades) /\ moves = Picked(trades, J)
      /\ \A j \in J : PairOf(trades[j]) = a
  BY DEF PairPlaces, PairMoves
<1>2. g \in [L -> Int] /\ \A move \in L : g[move] = MoveGains(move, m, p)
  BY MoveGainsType
<1>3. \A j \in DOMAIN trades : trades[j] \in L
  OBVIOUS
<1>4. a[1] # a[2]
  <2>1. trades[k].member # trades[k].to
    BY <1>3
  <2>. QED BY <2>1 DEF PairOf
<1>. HIDE DEF a, J, moves, g
<1>5. moves \in Seq(L) /\ \A j \in DOMAIN moves : \E i \in J : moves[j] = trades[i]
  BY <1>1, PickedFrom
<1>6. IsPair(moves, a)
  <2>1. \A j \in DOMAIN moves : PairOf(moves[j]) = a /\ moves[j].member # moves[j].to
    BY <1>1, <1>3, <1>5
  <2>. QED BY <1>4, <2>1 DEF IsPair
<1>7. Gained(PairTrade(round, moves, a), m, p) = SumOver(moves, g)
  BY <1>2, <1>5, <1>6, PairGains
<1>8. SumOver(moves, g) \in Int
  BY <1>2, <1>5, SumOverType
<1>. QED BY <1>7, <1>8 DEF PairRow, moves, a

(* What the log's rows add up to is what its moves did.                      *)
Dealt(L, applied) ==
  /\ applied \in Seq(L)
  /\ \A move \in L : move.member \in Nat /\ move.member # move.to

LEMMA DealersListed ==
  ASSUME NEW L, NEW applied, Dealt(L, applied)
  PROVE  Lists(Cardinality(Dealing(applied)), Ascending(Dealing(applied)), Dealing(applied))
<1>. DEFINE S == FreeDeals(applied)
            D == Dealing(applied)
            f == [i \in S |-> applied[i].member]
<1>1. \A i \in DOMAIN applied : applied[i] \in L /\ applied[i].member \in Nat
  BY DEF Dealt
<1>2. S \in SUBSET (DOMAIN applied)
  BY DEF FreeDeals
<1>3. IsFiniteSet(S)
  <2>1. applied \in Seq(L)
    BY DEF Dealt
  <2>. HIDE DEF S
  <2>. QED BY <1>2, <2>1, PickedFrom
<1>4. D = {applied[i].member : i \in S}
  BY DEF Dealing
<1>5. D \subseteq Nat
  BY <1>1, <1>2, <1>4
<1>6. IsFiniteSet(D)
  <2>. HIDE DEF S, D
  <2>1. f \in Surjection(S, D)
    BY <1>4 DEF Surjection
  <2>. QED BY <1>3, <2>1, FS_Surjection
<1>. HIDE DEF D
<1>. QED BY <1>5, <1>6, AscendingLists DEF D

LEMMA LogSum ==
  ASSUME NEW L, NEW applied, Dealt(L, applied), NEW round, NEW m, m # Nobody, NEW p,
         NEW g \in [L -> Int], Weighs(L, g, m, p)
  PROVE  /\ RowSum(LoggedRows(round, applied), m, p) = SumOver(applied, g)
         /\ \E R : LoggedRows(round, applied) \in Seq(R) /\ \A r \in R : HasPlayers(r)
<1>. DEFINE S == Dealing(applied)
            D == Ascending(S)
            n == Cardinality(S)
            trades == Picked(applied, TradePlaces(applied))
            P == PairsOf(trades)
            k == Len(P)
            drops == [i \in 1..n |-> FreeDrop(round, applied, D[i])]
            deals == [i \in 1..k |-> PairRow(round, trades, P[i])]
            adds == [i \in 1..n |-> FreeAdd(round, applied, D[i])]
            R == {drops[i] : i \in 1..n} \cup {deals[i] : i \in 1..k} \cup {adds[i] : i \in 1..n}
            u == [i \in 1..n |-> Gained(drops[i], m, p)]
            v == [i \in 1..n |-> Gained(adds[i], m, p)]
            w == [i \in 1..k |-> Gained(deals[i], m, p)]
<1>1. applied \in Seq(L) /\ \A move \in L : move.member # move.to
  BY DEF Dealt
<1>2. Lists(n, D, S)
  BY DealersListed
<1>3. TradePlaces(applied) \in SUBSET (DOMAIN applied)
  BY DEF TradePlaces
<1>4. trades \in Seq(L)
  BY <1>1, <1>3, PickedFrom
<1>. HIDE DEF trades
<1>5. Lists(k, P, {PairOf(trades[j]) : j \in DOMAIN trades})
  <2>1. Len(trades) \in Nat /\ trades \in [1..Len(trades) -> L] /\ DOMAIN trades = 1..Len(trades)
    BY <1>4
  <2>2. Lists(Len(PairsOf(trades)), PairsOf(trades), {PairOf(trades[j]) : j \in 1..Len(trades)})
    BY <2>1, PairsListed
  <2>. QED BY <2>1, <2>2
<1>. HIDE DEF n, D, S, k, P
<1>6. n \in Nat /\ DOMAIN D = 1..n /\ k \in Nat /\ DOMAIN P = 1..k
  BY <1>2, <1>5 DEF Lists
<1>7. LoggedRows(round, applied) = drops \o deals \o adds
  <2>1. LoggedRows(round, applied)
               = [i \in DOMAIN D |-> FreeDrop(round, applied, D[i])]
                   \o [i \in DOMAIN P |-> PairRow(round, trades, P[i])]
                   \o [i \in DOMAIN D |-> FreeAdd(round, applied, D[i])]
    BY LoggedAs, Zenon DEF D, P, S, trades
  <2>. QED BY <1>6, <2>1
<1>8. \A i \in 1..n : Gained(drops[i], m, p) \in Int /\ Gained(adds[i], m, p) \in Int
  <2>1. \A i \in 1..n : Gained(FreeDrop(round, applied, D[i]), m, p) \in Int
                        /\ Gained(FreeAdd(round, applied, D[i]), m, p) \in Int
    BY <1>1, FreeRowsType
  <2>. QED BY <2>1
<1>9. \A i \in 1..k : Gained(deals[i], m, p) \in Int
  <2>. TAKE i \in 1..k
  <2>1. PICK j \in DOMAIN trades : P[i] = PairOf(trades[j])
    BY <1>5 DEF Lists
  <2>2. Gained(PairRow(round, trades, PairOf(trades[j])), m, p) \in Int
    BY <1>1, <1>4, PairRowType
  <2>. QED BY <2>1, <2>2
<1>10. RowsOf(n, drops, R) /\ RowsOf(k, deals, R) /\ RowsOf(n, adds, R)
  <2>1. drops \in [1..n -> R] /\ deals \in [1..k -> R] /\ adds \in [1..n -> R]
    <3>. DEFINE a(i) == FreeDrop(round, applied, D[i])
                b(i) == PairRow(round, trades, P[i])
                c(i) == FreeAdd(round, applied, D[i])
    <3>. HIDE DEF a, b, c
    <3>. QED BY Zenon
  <2>. QED BY <1>6, <2>1, Zenon DEF RowsOf
<1>24. \A r \in R : HasPlayers(r)
  <2>1. /\ \A i \in 1..n : HasPlayers(drops[i]) /\ HasPlayers(adds[i])
        /\ \A i \in 1..k : HasPlayers(deals[i])
    BY RowsHavePlayers DEF FreeDrop, FreeAdd, PairRow, PairTrade
  <2>. HIDE DEF drops, deals, adds
  <2>. QED BY <2>1
<1>11. \A r \in R : Gained(r, m, p) \in Int
  <2>. HIDE DEF drops, deals, adds
  <2>. QED BY <1>8, <1>9
<1>. HIDE DEF drops, deals, adds, R
<1>12. /\ drops \in Seq(R) /\ RowSum(drops, m, p) = SumFunction(u)
       /\ deals \in Seq(R) /\ RowSum(deals, m, p) = SumFunction(w)
       /\ adds \in Seq(R) /\ RowSum(adds, m, p) = SumFunction(v)
  <2>1. drops \in Seq(R) /\ RowSum(drops, m, p) = SumFunction(u)
    BY <1>10, RowsOfFact
  <2>2. deals \in Seq(R) /\ RowSum(deals, m, p) = SumFunction(w)
    BY <1>10, RowsOfFact
  <2>3. adds \in Seq(R) /\ RowSum(adds, m, p) = SumFunction(v)
    BY <1>10, RowsOfFact
  <2>. QED BY <2>1, <2>2, <2>3
<1>13. /\ IsFiniteSet(1..n) /\ IsFiniteSet(1..k)
       /\ u \in [1..n -> Int] /\ v \in [1..n -> Int] /\ w \in [1..k -> Int]
  <2>1. 1 \in Int /\ n \in Int /\ k \in Int
    BY <1>6
  <2>. QED BY <1>8, <1>9, <2>1, FS_Interval
<1>14. RowSum(drops \o deals \o adds, m, p) = SumFunction(u) + SumFunction(w) + SumFunction(v)
  BY <1>11, <1>12, RowSumsTogether
<1>15. SumFunction([i \in 1..n |-> u[i] + v[i]]) = SumFunction([j \in FreeDeals(applied) |-> g[applied[j]]])
  <2>1. [i \in 1..n |-> u[i] + v[i]]
          = [i \in 1..n |-> Gained(FreeDrop(round, applied, D[i]), m, p)
                              + Gained(FreeAdd(round, applied, D[i]), m, p)]
    BY DEF drops, adds
  <2>2. FreeListed(L, applied, g, m, p, n, D)
    BY <1>1, <1>2 DEF S, FreeListed
  <2>3. FreeTold(round, applied, m, p, n, D) = FreeDone(applied, g)
    BY <2>2, FreeSums
  <2>. QED BY <2>1, <2>3 DEF FreeTold, FreeDone
<1>16. SumFunction(w) = SumFunction([j \in TradePlaces(applied) |-> g[applied[j]]])
  <2>1. w = [i \in 1..k |-> Gained(PairRow(round, trades, P[i]), m, p)]
    BY DEF deals
  <2>4. PairsListedIn(L, trades, g, m, p, k, P)
    BY <1>1, <1>4, <1>5 DEF PairsListedIn
  <2>5. PairsTold(round, trades, m, p, k, P) = SumOver(trades, g)
    BY <2>4, PairSums
  <2>2. SumFunction([i \in 1..k |-> Gained(PairRow(round, trades, P[i]), m, p)]) = SumOver(trades, g)
    BY <2>5 DEF PairsTold
  <2>3. SumOver(trades, g) = SumFunction([j \in TradePlaces(applied) |-> g[applied[j]]])
    BY <1>1, <1>3, SumPicked DEF trades
  <2>. QED BY <2>1, <2>2, <2>3
<1>17. SumFunction([i \in 1..n |-> u[i] + v[i]]) = SumFunction(u) + SumFunction(v)
  <2>. DEFINE N == 1..n
  <2>. HIDE DEF u, v
  <2>1. IsFiniteSet(N) /\ u \in [N -> Int] /\ v \in [N -> Int]
    BY <1>13
  <2>. HIDE DEF N
  <2>2. SumFunction([i \in N |-> u[i] + v[i]]) = SumFunction(u) + SumFunction(v)
    BY <2>1, SumTogether
  <2>. QED BY <2>2 DEF N
<1>18. SumFunction(u) \in Int /\ SumFunction(v) \in Int /\ SumFunction(w) \in Int
  <2>. HIDE DEF u, v, w
  <2>. QED BY <1>13, SumType
<1>. DEFINE x == [j \in DOMAIN applied |-> g[applied[j]]]
            A == TradePlaces(applied)
            B == FreeDeals(applied)
<1>19. Halves(DOMAIN applied, x, A, B)
  <2>1. IsFiniteSet(DOMAIN applied) /\ x \in [DOMAIN applied -> Int]
    BY <1>1, SumOverType
  <2>. HIDE DEF x
  <2>. QED BY <2>1 DEF Halves, TradePlaces, FreeDeals
<1>20. SumFunction(x) = SumFunction([j \in A |-> x[j]]) + SumFunction([j \in B |-> x[j]])
  <2>. HIDE DEF x, A, B
  <2>. QED BY <1>19, SumOfHalves
<1>21. [j \in A |-> x[j]] = [j \in A |-> g[applied[j]]] /\ [j \in B |-> x[j]] = [j \in B |-> g[applied[j]]]
  BY DEF TradePlaces, FreeDeals
<1>22. SumOver(applied, g) = SumFunction(x)
  BY DEF SumOver
<1>. HIDE DEF u, v, w, x, A, B
<1>23. SumFunction(x) = SumFunction(w) + (SumFunction(u) + SumFunction(v))
  BY <1>15, <1>16, <1>17, <1>20, <1>21 DEF A, B
<1>25. drops \o deals \o adds \in Seq(R)
  BY <1>12
<1>. QED BY <1>7, <1>14, <1>18, <1>22, <1>23, <1>24, <1>25

(* Who has a player as the moves go by, and what they did so far.            *)
Has(owner, p, m) == IF p \in DOMAIN owner /\ owner[p] = m THEN 1 ELSE 0
In(p, S) == IF p \in S THEN 1 ELSE 0

Tallied(owner, players, O, L, g, m, p) ==
  {x \in [owner : [players -> O], applied : Seq(L), ok : BOOLEAN] :
     Has(x.owner, p, m) - Has(owner, p, m) = SumOver(x.applied, g)}

Movable(players, O, moves) ==
  \A move \in moves :
    move.member \in O /\ move.to \in O /\ move.arrival \in players /\ move.departure \in players

LEMMA MoveTallied ==
  ASSUME NEW players, NEW O, NEW moves, Movable(players, O, moves), NEW m, NEW p, NEW g, NEW owner,
         NEW L, L = {move \in moves : move.member # move.to}, Weighs(L, g, m, p),
         NEW x \in Tallied(owner, players, O, L, g, m, p), NEW move \in moves
  PROVE  ReplayMove(x, move) \in Tallied(owner, players, O, L, g, m, p)
<1>. DEFINE given == [x.owner EXCEPT ![move.arrival] = move.member, ![move.departure] = move.to]
            more == Append(x.applied, move)
            still == x.ok /\ AppliedEarlier(x.owner, move)
            V == [owner : [players -> O], applied : Seq(L), ok : BOOLEAN]
<1>1. x \in V /\ Has(x.owner, p, m) - Has(owner, p, m) = SumOver(x.applied, g)
  BY DEF Tallied
<1>2. g \in [L -> Int] /\ \A y \in L : g[y] = MoveGains(y, m, p)
  BY DEF Weighs
<1>3. ReplayMove(x, move) = IF Ready(x.owner, move)
                            THEN [x EXCEPT !.owner = given, !.applied = more]
                            ELSE [x EXCEPT !.ok = still]
  BY Zenon DEF ReplayMove
<1>4. given \in [players -> O]
  BY <1>1 DEF Movable
<1>5. CASE Ready(x.owner, move)
  <2>1. move \in L /\ move.arrival # move.departure
    BY <1>5 DEF Ready
  <2>2. more \in Seq(L) /\ SumOver(more, g) = SumOver(x.applied, g) + g[move]
    <3>1. x.applied \in Seq(L)
      BY <1>1
    <3>2. SumOver(Append(x.applied, move), g) = SumOver(x.applied, g) + g[move]
      BY <1>2, <2>1, <3>1, SumOfMore
    <3>. QED BY <2>1, <3>1, <3>2
  <2>3. Has(given, p, m) - Has(x.owner, p, m) = g[move]
    <3>1. /\ move.arrival \in players /\ move.departure \in players /\ x.owner \in [players -> O]
          /\ x.owner[move.departure] = move.member /\ x.owner[move.arrival] = move.to
          /\ move.member # move.to
      BY <1>1, <1>5 DEF Movable, Ready
    <3>2. g[move] = MoveGains(move, m, p)
      BY <1>2, <2>1
    <3>3. CASE p = move.arrival
      <4>1. given[p] = move.member /\ x.owner[p] = move.to /\ p \in DOMAIN given /\ p \in DOMAIN x.owner
        BY <2>1, <3>1, <3>3
      <4>. HIDE DEF given
      <4>. QED BY <2>1, <3>1, <3>2, <3>3, <4>1 DEF Has, MoveGains, Is
    <3>4. CASE p = move.departure
      <4>1. given[p] = move.to /\ x.owner[p] = move.member /\ p \in DOMAIN given /\ p \in DOMAIN x.owner
        BY <2>1, <3>1, <3>4
      <4>. HIDE DEF given
      <4>. QED BY <2>1, <3>1, <3>2, <3>4, <4>1 DEF Has, MoveGains, Is
    <3>5. CASE p # move.arrival /\ p # move.departure
      <4>1. DOMAIN given = DOMAIN x.owner /\ (p \in DOMAIN given => given[p] = x.owner[p])
        BY <3>1, <3>5
      <4>. HIDE DEF given
      <4>2. MoveGains(move, m, p) = 0
        BY <3>5 DEF MoveGains, Is
      <4>. QED BY <3>2, <4>1, <4>2 DEF Has
    <3>. QED BY <3>3, <3>4, <3>5
  <2>4. Has(given, p, m) \in Int /\ Has(x.owner, p, m) \in Int /\ Has(owner, p, m) \in Int
    BY DEF Has
  <2>5. g[move] \in Int
    BY <1>2, <2>1
  <2>. HIDE DEF given, more, still
  <2>6. [x EXCEPT !.owner = given, !.applied = more] \in V
    BY <1>1, <1>4, <2>2
  <2>. DEFINE y == [x EXCEPT !.owner = given, !.applied = more]
  <2>7. y.owner = given /\ y.applied = more
    BY <1>1
  <2>. HIDE DEF y
  <2>8. Has(given, p, m) - Has(owner, p, m) = SumOver(more, g)
    BY <1>1, <2>2, <2>3, <2>4, <2>5
  <2>. QED BY <1>3, <1>5, <2>6, <2>7, <2>8 DEF Tallied, y
<1>6. CASE ~Ready(x.owner, move)
  <2>1. still \in BOOLEAN
    BY <1>1
  <2>. HIDE DEF still
  <2>. DEFINE y == [x EXCEPT !.ok = still]
  <2>2. y \in V /\ y.owner = x.owner /\ y.applied = x.applied
    BY <1>1, <2>1
  <2>. HIDE DEF y
  <2>. QED BY <1>1, <1>3, <1>6, <2>2 DEF Tallied, y
<1>. QED BY <1>5, <1>6

(* A plan made from the moves the source logged (planFromLog in              *)
(* fantasy/plan.ts) tells of every team and player what the two rosters do,  *)
(* whatever was logged.                                                      *)
THEOREM LogRowsAddUp ==
  ASSUME NEW seats, Windows(seats), NEW target,
         NEW L, \A move \in L : move.member \in Nat, NEW log \in Seq(L), NEW round,
         PlanFromLog(round, seats, target, log).ok,
         NEW m \in DOMAIN target, m # Nobody, NEW p
  PROVE  RowSum(PlanFromLog(round, seats, target, log).steps, m, p)
           = In(p, target[m]) - In(p, HeldBy(seats, m))
<1>. DEFINE players == Seated(seats) \cup (UNION {target[a] : a \in DOMAIN target})
                         \cup (UNION {{log[i].arrival, log[i].departure} : i \in DOMAIN log})
            owner == Owners(seats, players)
            base == [owner |-> owner, applied |-> <<>>, ok |-> TRUE]
            replay == FoldLeft(ReplayMove, base, log)
            rows == LoggedRows(round, replay.applied)
            plan == PlanFromLog(round, seats, target, log)
            n == Len(log)
            moves == {log[i] : i \in DOMAIN log}
            O == {HolderOf(seats, q) : q \in players} \cup {move.member : move \in moves}
                   \cup {move.to : move \in moves}
            K == {move \in moves : move.member # move.to}
            g == [move \in K |-> MoveGains(move, m, p)]
            V == Tallied(owner, players, O, K, g, m, p)
<1>1. plan = IF ~replay.ok \/ ~OwnersAgree(replay.owner, target) THEN Unexplained
             ELSE PlaceWindows(seats, replay.owner, rows, round)
  BY Zenon DEF PlanFromLog
<1>2. n \in Nat /\ log \in [1..n -> moves] /\ \A move \in moves : move.member \in Nat
  OBVIOUS
<1>3. owner = [q \in players |-> HolderOf(seats, q)] /\ owner \in [players -> O]
  BY DEF Owners
<1>4. Movable(players, O, moves)
  <2>1. \A i \in DOMAIN log : log[i].arrival \in players /\ log[i].departure \in players
    <3>. DEFINE C == {{log[i].arrival, log[i].departure} : i \in DOMAIN log}
    <3>. DEFINE A == Seated(seats) \cup (UNION {target[a] : a \in DOMAIN target})
    <3>1. players = A \cup UNION C
      OBVIOUS
    <3>2. \A i \in DOMAIN log : {log[i].arrival, log[i].departure} \in C
      OBVIOUS
    <3>. HIDE DEF A, C, players
    <3>. QED BY <3>1, <3>2
  <2>2. \A i \in DOMAIN log : log[i].member \in O /\ log[i].to \in O
    OBVIOUS
  <2>. HIDE DEF players, O
  <2>. QED BY <2>1, <2>2 DEF Movable
<1>5. Weighs(K, g, m, p)
  BY MoveGainsType DEF Weighs
<1>6. \A q \in Seated(seats) : q \in players
  OBVIOUS
<1>. HIDE DEF players, O, n, moves, g
<1>7. \A x \in V, move \in moves : ReplayMove(x, move) \in V
  <2>. HIDE DEF owner
  <2>. QED BY <1>4, <1>5, MoveTallied
<1>8. base \in V
  <2>. HIDE DEF owner
  <2>1. SumOver(<<>>, g) = 0
    BY <1>5, SumOfNone DEF Weighs
  <2>2. <<>> \in Seq(K)
    OBVIOUS
  <2>3. Has(owner, p, m) - Has(owner, p, m) = 0
    BY DEF Has
  <2>. HIDE DEF K
  <2>. QED BY <1>3, <2>1, <2>2, <2>3 DEF Tallied
<1>. HIDE DEF V, base
<1>9. replay \in V
  BY <1>2, <1>7, <1>8, MovesKeep
<1>. HIDE DEF replay
<1>10. replay.owner \in [players -> O] /\ replay.applied \in Seq(K)
       /\ Has(replay.owner, p, m) - Has(owner, p, m) = SumOver(replay.applied, g)
  <2>. HIDE DEF K, owner
  <2>. QED BY <1>9 DEF V, Tallied
<1>11. Dealt(K, replay.applied)
  BY <1>2, <1>10 DEF Dealt
<1>. HIDE DEF K
<1>12. /\ RowSum(rows, m, p) = SumOver(replay.applied, g)
       /\ \E R : rows \in Seq(R) /\ \A r \in R : HasPlayers(r)
  <2>1. g \in [K -> Int]
    BY <1>5 DEF Weighs
  <2>. QED BY <1>5, <1>11, <2>1, LogSum
<1>. HIDE DEF rows, plan
<1>13. OwnersAgree(replay.owner, target) /\ plan = PlaceWindows(seats, replay.owner, rows, round)
  BY <1>1 DEF Unexplained, plan
<1>14. PlaceWindows(seats, replay.owner, rows, round).ok
  BY <1>13 DEF plan
<1>15. RowSum(PlaceWindows(seats, replay.owner, rows, round).steps, m, p) = RowSum(rows, m, p)
  BY <1>12, <1>14, PlacedGains
<1>16. Has(replay.owner, p, m) = In(p, target[m])
  BY <1>13 DEF OwnersAgree, Has, In
<1>17. Has(owner, p, m) = In(p, HeldBy(seats, m))
  <2>1. p \in HeldBy(seats, m) <=> p \in Seated(seats) /\ SeatOf(seats, p).member = m
    BY HolderFact
  <2>. QED BY <1>3, <1>6, <2>1 DEF HolderOf, Has, In
<1>. QED BY <1>10, <1>12, <1>13, <1>15, <1>16, <1>17 DEF plan

-----------------------------------------------------------------------------
(* The BasketNews log: what each transfer changes, its rows tell.            *)

LEMMA NamedOnceFact ==
  ASSUME NEW X, NEW s \in Seq(X), NamedOnce(s)
  PROVE  \A i, j \in DOMAIN s : s[i] = s[j] => i = j
<1>. DEFINE S == DOMAIN s
            T == ToSet(s)
            n == Len(s)
<1>1. n \in Nat /\ S = 1..n /\ s \in [S -> T] /\ \A x \in T : \E i \in S : s[i] = x
  BY DEF ToSet
<1>2. IsFiniteSet(S) /\ Cardinality(S) = n
  <2>1. 1 \in Int /\ n \in Int
    BY <1>1
  <2>2. IsFiniteSet(1..n) /\ Cardinality(1..n) = IF 1 > n THEN 0 ELSE n - 1 + 1
    BY <2>1, FS_Interval
  <2>. QED BY <1>1, <2>2
<1>3. Cardinality(T) = n
  BY DEF NamedOnce
<1>. HIDE DEF S, T, n
<1>4. s \in Surjection(S, T)
  BY <1>1 DEF Surjection
<1>5. s \in Injection(S, T)
  BY <1>2, <1>3, <1>4, FS_Surjection
<1>6. \A i, j \in S : s[i] = s[j] => i = j
  BY <1>5 DEF Injection, IsInjective
<1>. QED BY <1>6 DEF S

LEMMA OftenOnce ==
  ASSUME NEW X, NEW s \in Seq(X), \A i, j \in DOMAIN s : s[i] = s[j] => i = j, NEW p
  PROVE  Often(p, s) = In(p, ToSet(s))
<1>1. CASE p \in ToSet(s)
  <2>1. PICK i \in DOMAIN s : s[i] = p
    BY <1>1 DEF ToSet
  <2>2. PlacesOf(p, s) = {i}
    BY <2>1 DEF PlacesOf
  <2>3. Cardinality({i}) = 1
    BY FS_Singleton
  <2>. QED BY <1>1, <2>2, <2>3 DEF Often, In
<1>2. CASE p \notin ToSet(s)
  <2>1. PlacesOf(p, s) = {}
    BY <1>2 DEF PlacesOf, ToSet
  <2>2. Cardinality({}) = 0
    BY FS_EmptySet
  <2>. QED BY <1>2, <2>1, <2>2 DEF Often, In
<1>. QED BY <1>1, <1>2

(* A list without repetition names the two it joins once each, and nobody    *)
(* twice.                                                                    *)
LEMMA NamedOnceBoth ==
  ASSUME NEW X, NEW a \in Seq(X), NEW b \in Seq(X), NamedOnce(a \o b), NEW p
  PROVE  /\ Often(p, a) = In(p, ToSet(a)) /\ Often(p, b) = In(p, ToSet(b))
         /\ p \in ToSet(a) => p \notin ToSet(b)
<1>. DEFINE s == a \o b
            n == Len(a)
            k == Len(b)
<1>1. s \in Seq(X) /\ Joined(a, b, s)
  BY TwoLists
<1>2. n \in Nat /\ k \in Nat /\ DOMAIN a = 1..n /\ DOMAIN b = 1..k
  OBVIOUS
<1>. HIDE DEF s
<1>3. \A i, j \in DOMAIN s : s[i] = s[j] => i = j
  BY <1>1, NamedOnceFact DEF s
<1>4. DOMAIN s = 1..n + k /\ (\A i \in 1..n : s[i] = a[i]) /\ \A i \in 1..k : s[n + i] = b[i]
  <2>1. DOMAIN s = 1..Len(s) /\ Len(s) = n + k /\ (\A i \in 1..n : s[i] = a[i])
        /\ \A i \in n + 1..n + k : s[i] = b[i - n]
    BY <1>1 DEF Joined
  <2>2. \A i \in 1..k : n + i \in n + 1..n + k /\ (n + i) - n = i
    BY <1>2
  <2>. HIDE DEF n, k
  <2>. QED BY <2>1, <2>2
<1>. HIDE DEF n, k
<1>5. \A i \in 1..n : i \in DOMAIN s
  BY <1>2, <1>4
<1>6. \A i \in 1..k : n + i \in DOMAIN s
  BY <1>2, <1>4
<1>7. \A i, j \in DOMAIN a : a[i] = a[j] => i = j
  BY <1>2, <1>3, <1>4, <1>5
<1>8. \A i, j \in DOMAIN b : b[i] = b[j] => i = j
  <2>1. \A i, j \in 1..k : n + i = n + j => i = j
    BY <1>2
  <2>2. \A i, j \in 1..k : b[i] = b[j] => n + i = n + j
    BY <1>3, <1>4, <1>6
  <2>. QED BY <1>2, <2>1, <2>2
<1>9. ASSUME p \in ToSet(a), p \in ToSet(b) PROVE FALSE
  <2>1. PICK i \in 1..n : a[i] = p
    BY <1>2, <1>9 DEF ToSet
  <2>2. PICK j \in 1..k : b[j] = p
    BY <1>2, <1>9 DEF ToSet
  <2>3. i = n + j
    BY <1>3, <1>4, <1>5, <1>6, <2>1, <2>2
  <2>. QED BY <1>2, <2>3
<1>. QED BY <1>7, <1>8, <1>9, OftenOnce

LEMMA GainedType ==
  ASSUME NEW X, NEW row, NEW m, NEW p,
         ListOf(row.playersIn, m) \in Seq(X), ListOf(row.playersOut, m) \in Seq(X)
  PROVE  Gained(row, m, p) \in Int
<1>. DEFINE in == ListOf(row.playersIn, m)
            out == ListOf(row.playersOut, m)
<1>1. in \in Seq(X) /\ out \in Seq(X)
  OBVIOUS
<1>2. Gained(row, m, p) = Cardinality(PlacesOf(p, in)) - Cardinality(PlacesOf(p, out))
  BY DEF Gained
<1>. HIDE DEF in, out
<1>3. Cardinality(PlacesOf(p, in)) \in Int /\ Cardinality(PlacesOf(p, out)) \in Int
  BY <1>1, CountInList
<1>. QED BY <1>2, <1>3

LEMMA RowsGain ==
  ASSUME NEW X, NEW a, NEW b, NEW sent \in Seq(X), NEW got \in Seq(X), NEW round, NEW m, NEW p
  PROVE  /\ Gained(DropRow(a, sent, round, {}), m, p) \in Int
         /\ Gained(AddRow(a, got, round, {}), m, p) \in Int
         /\ Gained(TradeRow(a, b, sent, got, round, {}, {}), m, p) \in Int
<1>1. ListOf(NoPlayers, m) \in Seq(X)
  BY DEF ListOf, NoPlayers
<1>2. \A u \in Seq(X) : ListOf(OneTeam(a, u), m) \in Seq(X)
  BY DEF ListOf, OneTeam
<1>3. \A u, v \in Seq(X) : ListOf(TwoTeams(a, u, b, v), m) \in Seq(X)
  BY DEF ListOf, TwoTeams
<1>4. Gained(DropRow(a, sent, round, {}), m, p) \in Int
  <2>. DEFINE row == DropRow(a, sent, round, {})
  <2>1. row.playersIn = NoPlayers /\ row.playersOut = OneTeam(a, sent)
    BY DEF DropRow
  <2>. HIDE DEF row
  <2>2. ListOf(row.playersIn, m) \in Seq(X) /\ ListOf(row.playersOut, m) \in Seq(X)
    BY <1>1, <1>2, <2>1
  <2>3. Gained(row, m, p) \in Int
    BY <2>2, GainedType
  <2>. QED BY <2>3 DEF row
<1>5. Gained(AddRow(a, got, round, {}), m, p) \in Int
  <2>. DEFINE row == AddRow(a, got, round, {})
  <2>1. row.playersIn = OneTeam(a, got) /\ row.playersOut = NoPlayers
    BY DEF AddRow
  <2>. HIDE DEF row
  <2>2. ListOf(row.playersIn, m) \in Seq(X) /\ ListOf(row.playersOut, m) \in Seq(X)
    BY <1>1, <1>2, <2>1
  <2>3. Gained(row, m, p) \in Int
    BY <2>2, GainedType
  <2>. QED BY <2>3 DEF row
<1>6. Gained(TradeRow(a, b, sent, got, round, {}, {}), m, p) \in Int
  <2>. DEFINE row == TradeRow(a, b, sent, got, round, {}, {})
  <2>1. row.playersOut = TwoTeams(a, sent, b, got) /\ row.playersIn = TwoTeams(a, got, b, sent)
    BY DEF TradeRow
  <2>. HIDE DEF row
  <2>2. ListOf(row.playersIn, m) \in Seq(X) /\ ListOf(row.playersOut, m) \in Seq(X)
    BY <1>3, <2>1
  <2>3. Gained(row, m, p) \in Int
    BY <2>2, GainedType
  <2>. QED BY <2>3 DEF row
<1>. QED BY <1>4, <1>5, <1>6

LEMMA AppendFact ==
  ASSUME NEW R, NEW s \in Seq(R), NEW y \in R
  PROVE  /\ Append(s, y) \in Seq(R) /\ Len(Append(s, y)) = Len(s) + 1
         /\ \A i \in 1..Len(s) : Append(s, y)[i] = s[i]
         /\ Append(s, y)[Len(s) + 1] = y
<1>1. Append(s, y) \in Seq(R) /\ Len(Append(s, y)) = Len(s) + 1
  OBVIOUS
<1>2. \A i \in 1..Len(s) : Append(s, y)[i] = s[i]
  OBVIOUS
<1>3. Append(s, y)[Len(s) + 1] = y
  OBVIOUS
<1>. QED BY <1>1, <1>2, <1>3

LEMMA TwoInARow ==
  ASSUME NEW R, NEW x \in R, NEW y \in R
  PROVE  Append(<<x>>, y) = <<x, y>> /\ <<x>> \in Seq(R) /\ <<x, y>> \in Seq(R)
<1>. DEFINE one == <<x>>
            two == <<x, y>>
            t == Append(one, y)
<1>1. one \in Seq(R) /\ Len(one) = 1 /\ one[1] = x
  OBVIOUS
<1>2. two \in Seq(R) /\ Len(two) = 2 /\ two[1] = x /\ two[2] = y
  OBVIOUS
<1>. HIDE DEF one, two
<1>3. /\ t \in Seq(R) /\ Len(t) = Len(one) + 1
      /\ \A i \in 1..Len(one) : t[i] = one[i]
      /\ t[Len(one) + 1] = y
  BY <1>1, AppendFact
<1>. HIDE DEF t
<1>4. Len(t) = 2 /\ t[1] = x /\ t[2] = y
  BY <1>1, <1>3
<1>5. t = two
  <2>3. \A s \in Seq(R) : s \in [1..Len(s) -> R]
    OBVIOUS
  <2>4. t \in [1..Len(t) -> R] /\ two \in [1..Len(two) -> R]
    BY <1>2, <1>3, <2>3
  <2>1. t \in [1..2 -> R] /\ two \in [1..2 -> R]
    BY <1>2, <1>4, <2>4
  <2>2. \A i \in 1..2 : t[i] = two[i]
    <3>1. \A i \in 1..2 : i = 1 \/ i = 2
      OBVIOUS
    <3>. QED BY <1>2, <1>4, <3>1
  <2>. QED BY <2>1, <2>2
<1>. QED BY <1>1, <1>2, <1>5 DEF t, one, two

Counted(R, m, p) == \A r \in R : Gained(r, m, p) \in Int

OneRow(x) == <<x>>
TwoRows(x, y) == <<x, y>>

LEMMA RowSumFew ==
  ASSUME NEW R, NEW x \in R, NEW y \in R, NEW m, NEW p, Counted(R, m, p)
  PROVE  /\ RowSum(OneRow(x), m, p) = Gained(x, m, p)
         /\ RowSum(TwoRows(x, y), m, p) = Gained(x, m, p) + Gained(y, m, p)
<1>. DEFINE g == [r \in R |-> Gained(r, m, p)]
            one == <<x>>
            two == Append(one, y)
<1>1. g \in [R -> Int] /\ g[x] = Gained(x, m, p) /\ g[y] = Gained(y, m, p)
  BY DEF Counted
<1>2. Tells(R, g, m, p)
  BY DEF Tells, Counted
<1>3. one \in Seq(R) /\ two \in Seq(R) /\ two = <<x, y>>
  BY TwoInARow
<1>. HIDE DEF g
<1>4. SumOver(<<x>>, g) = g[x]
  <2>1. <<>> \in Seq(R)
    OBVIOUS
  <2>. QED BY <1>1, <2>1, SumOfMore
<1>. HIDE DEF one
<1>5. SumOver(Append(one, y), g) = SumOver(one, g) + g[y]
  BY <1>1, <1>3, SumOfMore
<1>6. RowSum(one, m, p) = SumOver(one, g)
  BY <1>2, <1>3, RowSumTold
<1>. HIDE DEF two
<1>7. RowSum(two, m, p) = SumOver(two, g)
  <2>1. two \in Seq(R)
    BY <1>3
  <2>. QED BY <1>2, <2>1, RowSumTold
<1>8. RowSum(TwoRows(x, y), m, p) = SumOver(two, g)
  BY <1>3, <1>7 DEF TwoRows
<1>9. SumOver(one, g) = g[x] /\ RowSum(OneRow(x), m, p) = SumOver(one, g)
  BY <1>4, <1>6 DEF one, OneRow
<1>. QED BY <1>1, <1>5, <1>8, <1>9 DEF two

(* The rows made of transfers.                                               *)
EventRow(r, E, round) ==
  \E e \in E : \/ r = DropRow(e.offer, e.sent, round, {})
               \/ r = AddRow(e.offer, e.received, round, {})
               \/ r = TradeRow(e.offer, e.request, e.sent, e.received, round, {}, {})

LEMMA EventRowGains ==
  ASSUME NEW X, NEW E, \A e \in E : Transfer(e, X), NEW round, NEW r, EventRow(r, E, round),
         NEW m, NEW p
  PROVE  Gained(r, m, p) \in Int /\ HasPlayers(r)
<1>1. PICK e \in E : \/ r = DropRow(e.offer, e.sent, round, {})
                     \/ r = AddRow(e.offer, e.received, round, {})
                     \/ r = TradeRow(e.offer, e.request, e.sent, e.received, round, {}, {})
  BY DEF EventRow
<1>2. e.sent \in Seq(X) /\ e.received \in Seq(X)
  BY DEF Transfer
<1>3. Gained(r, m, p) \in Int
  BY <1>1, <1>2, RowsGain
<1>4. HasPlayers(r)
  BY <1>1, RowsHavePlayers
<1>. QED BY <1>3, <1>4

LEMMA EventRowsFact ==
  ASSUME NEW E, NEW e \in E, NEW round, NEW R, R = {r \in R : EventRow(r, E, round)},
         \A r : EventRow(r, E, round) => r \in R
  PROVE  EventRows(round, e) \in Seq(R)
<1>. DEFINE drop == DropRow(e.offer, e.sent, round, {})
            add == AddRow(e.offer, e.received, round, {})
            trade == TradeRow(e.offer, e.request, e.sent, e.received, round, {}, {})
<1>1. EventRow(drop, E, round) /\ EventRow(add, E, round) /\ EventRow(trade, E, round)
  BY DEF EventRow
<1>2. EventRows(round, e) = IF e.request # Nobody THEN <<trade>> ELSE <<drop, add>>
  BY DEF EventRows
<1>. HIDE DEF drop, add, trade
<1>3. drop \in R /\ add \in R /\ trade \in R
  BY <1>1
<1>. QED BY <1>2, <1>3, TwoInARow

Naming(e, S) == \A q \in ToSet(e.sent) \cup ToSet(e.received) : q \in S

(* What a transfer that applies changes of a player, its rows tell.          *)
LEMMA EventTold ==
  ASSUME NEW X, NEW e, Transfer(e, X), NEW round, NEW x, EventApplies(x.owner, e), NEW m, m # Nobody,
         NEW p, Naming(e, DOMAIN x.owner)
  PROVE  Has(ReplayEvent(x, e).owner, p, m) - Has(x.owner, p, m) = RowSum(EventRows(round, e), m, p)
<1>. DEFINE owner == x.owner
            R == {DropRow(e.offer, e.sent, round, {}), AddRow(e.offer, e.received, round, {}),
                  TradeRow(e.offer, e.request, e.sent, e.received, round, {}, {})}
            drop == DropRow(e.offer, e.sent, round, {})
            add == AddRow(e.offer, e.received, round, {})
            trade == TradeRow(e.offer, e.request, e.sent, e.received, round, {}, {})
            sent == Often(p, e.sent)
            got == Often(p, e.received)
            next == ReplayEvent(x, e).owner
<1>1. e.sent \in Seq(X) /\ e.received \in Seq(X)
  BY DEF Transfer
<1>2. /\ e.offer # Nobody /\ e.offer # e.request
      /\ \A q \in ToSet(e.sent) : owner[q] = e.offer
      /\ \A q \in ToSet(e.received) : owner[q] = e.request
      /\ NamedOnce(e.sent \o e.received)
  BY DEF EventApplies
<1>3. sent = In(p, ToSet(e.sent)) /\ got = In(p, ToSet(e.received))
      /\ (p \in ToSet(e.sent) => p \notin ToSet(e.received))
  BY <1>1, <1>2, NamedOnceBoth
<1>4. /\ Gained(drop, m, p) = IF m = e.offer THEN -sent ELSE 0
      /\ Gained(add, m, p) = IF m = e.offer THEN got ELSE 0
  <2>1. Gained(drop, m, p) = IF m = e.offer THEN -sent ELSE 0
    BY <1>1, DropGains
  <2>2. Gained(add, m, p) = IF m = e.offer THEN got ELSE 0
    BY <1>1, AddGains
  <2>. QED BY <2>1, <2>2
<1>5. Gained(trade, m, p) = IF m = e.offer THEN got - sent ELSE IF m = e.request THEN sent - got ELSE 0
  BY <1>1, <1>2, TradeGains
<1>6. EventRows(round, e) = IF e.request # Nobody THEN OneRow(trade) ELSE TwoRows(drop, add)
  BY DEF EventRows, OneRow, TwoRows
<1>7. drop \in R /\ add \in R /\ trade \in R /\ Counted(R, m, p)
  <2>1. Gained(drop, m, p) \in Int /\ Gained(add, m, p) \in Int /\ Gained(trade, m, p) \in Int
    BY <1>1, RowsGain
  <2>. QED BY <2>1 DEF Counted
<1>8. /\ DOMAIN next = DOMAIN owner
      /\ \A q \in DOMAIN owner : next[q] = IF q \in ToSet(e.received) THEN e.offer
                                           ELSE IF q \in ToSet(e.sent) THEN e.request ELSE owner[q]
  BY DEF ReplayEvent
<1>14. \A q \in ToSet(e.sent) \cup ToSet(e.received) : q \in DOMAIN owner
  BY DEF Naming
<1>. HIDE DEF owner
<1>. HIDE DEF drop, add, trade, R, next, sent, got
<1>9. RowSum(OneRow(trade), m, p) = Gained(trade, m, p)
  BY <1>7, RowSumFew
<1>10. RowSum(TwoRows(drop, add), m, p) = Gained(drop, m, p) + Gained(add, m, p)
  BY <1>7, RowSumFew
<1>11. sent \in {0, 1} /\ got \in {0, 1}
  BY <1>3 DEF In
<1>12. RowSum(EventRows(round, e), m, p)
         = IF m = e.offer THEN got - sent ELSE IF m = e.request THEN sent - got ELSE 0
  <2>1. CASE e.request # Nobody
    BY <1>5, <1>6, <1>9, <2>1
  <2>2. CASE e.request = Nobody
    BY <1>4, <1>6, <1>10, <1>11, <2>2
  <2>. QED BY <2>1, <2>2
<1>13. Has(next, p, m) - Has(owner, p, m)
         = IF m = e.offer THEN got - sent ELSE IF m = e.request THEN sent - got ELSE 0
  <2>1. CASE p \in ToSet(e.received)
    <3>1. p \in DOMAIN owner /\ p \in DOMAIN next /\ next[p] = e.offer /\ owner[p] = e.request
          /\ got = 1 /\ sent = 0
      BY <1>2, <1>3, <1>8, <1>14, <2>1 DEF In
    <3>. QED BY <1>2, <3>1 DEF Has
  <2>2. CASE p \in ToSet(e.sent)
    <3>1. p \in DOMAIN owner /\ p \in DOMAIN next /\ next[p] = e.request /\ owner[p] = e.offer
          /\ got = 0 /\ sent = 1
      BY <1>2, <1>3, <1>8, <1>14, <2>2 DEF In
    <3>. QED BY <1>2, <3>1 DEF Has
  <2>3. CASE p \notin ToSet(e.sent) /\ p \notin ToSet(e.received)
    <3>1. got = 0 /\ sent = 0 /\ Has(next, p, m) = Has(owner, p, m)
      BY <1>3, <1>8, <2>3 DEF In, Has
    <3>2. Has(owner, p, m) \in Int
      BY DEF Has
    <3>. QED BY <3>1, <3>2
  <2>. QED BY <2>1, <2>2, <2>3
<1>. QED BY <1>12, <1>13 DEF next, owner

Replayable(X, E, n, events, players, O, owner) ==
  /\ \A e \in E : Transfer(e, X)
  /\ n \in Nat /\ events \in [1..n -> E] /\ owner \in [players -> O]
  /\ \A i \in 1..n : events[i].offer \in O /\ events[i].request \in O
  /\ \A i \in 1..n : Naming(events[i], players)

ReplayOf(owner, events) == FoldLeft(ReplayEvent, [owner |-> owner, ok |-> TRUE], events)
RowsOfEvents(round, n, events) == FlattenSeq([i \in 1..n |-> EventRows(round, events[i])])

EventsTell(owner, events, round, n, m, p) ==
  /\ RowSum(RowsOfEvents(round, n, events), m, p)
       = Has(ReplayOf(owner, events).owner, p, m) - Has(owner, p, m)
  /\ \E R : RowsOfEvents(round, n, events) \in Seq(R) /\ \A r \in R : HasPlayers(r)

LEMMA NoRows ==
  ASSUME NEW m, NEW p
  PROVE  RowSum(<<>>, m, p) = 0
<1>. DEFINE w == [i \in DOMAIN <<>> |-> Gained(<<>>[i], m, p)]
<1>1. DOMAIN <<>> = {} /\ IsFiniteSet({})
  BY FS_EmptySet
<1>2. w \in [{} -> Int]
  BY <1>1
<1>. HIDE DEF w
<1>3. PICK f : IsSum({}, w, f)
  BY <1>1, <1>2, SumExists
<1>4. SumFunction(w) = f[{}] /\ f[{}] = 0
  BY <1>1, <1>2, <1>3, SumFact DEF IsSum
<1>. QED BY <1>4 DEF w, RowSum

LEMMA EventsTold ==
  ASSUME NEW X, NEW E, NEW n, NEW events, NEW players, NEW O, NEW owner,
         Replayable(X, E, n, events, players, O, owner), NEW round, NEW m, m # Nobody, NEW p,
         ReplayOf(owner, events).ok
  PROVE  EventsTell(owner, events, round, n, m, p)
<1>. DEFINE base == [owner |-> owner, ok |-> TRUE]
            V == [owner : [players -> O], ok : BOOLEAN]
            R == {DropRow(e.offer, e.sent, round, {}) : e \in E}
                   \cup {AddRow(e.offer, e.received, round, {}) : e \in E}
                   \cup {TradeRow(e.offer, e.request, e.sent, e.received, round, {}, {}) : e \in E}
            seqs == [i \in 1..n |-> EventRows(round, events[i])]
            replay == FoldLeft(ReplayEvent, base, events)
<1>1. /\ \A e \in E : Transfer(e, X)
      /\ n \in Nat /\ events \in [1..n -> E] /\ owner \in [players -> O] /\ DOMAIN events = 1..n
      /\ \A i \in 1..n : events[i].offer \in O /\ events[i].request \in O
      /\ \A i \in 1..n : Naming(events[i], players)
  BY DEF Replayable
<1>2. PICK after : Replays(after, n, events, base, V)
  BY <1>1, EventsAreSteps
<1>3. /\ after[0] = base /\ after[n] = replay
      /\ \A k \in 0..n : after[k] \in V
      /\ \A k \in 1..n : after[k] = ReplayEvent(after[k - 1], events[k])
  BY <1>2 DEF Replays
<1>20. replay.ok
  BY DEF ReplayOf
<1>. HIDE DEF replay
<1>4. \A r \in R : EventRow(r, E, round)
  BY DEF EventRow
<1>5. \A r : EventRow(r, E, round) => r \in R
  BY DEF EventRow
<1>. HIDE DEF R
<1>6. (\A r \in R : HasPlayers(r)) /\ (\A r \in R : Gained(r, m, p) \in Int)
  BY <1>1, <1>4, EventRowGains
<1>7. R = {r \in R : EventRow(r, E, round)}
  BY <1>4
<1>8. \A e \in E : EventRows(round, e) \in Seq(R)
  BY <1>5, <1>7, EventRowsFact
<1>9. seqs \in Seq(Seq(R)) /\ Len(seqs) = n /\ \A i \in 1..n : seqs[i] = EventRows(round, events[i])
  <2>1. \A i \in 1..n : EventRows(round, events[i]) \in Seq(R)
    BY <1>1, <1>8
  <2>2. seqs \in [1..n -> Seq(R)]
    BY <2>1
  <2>3. \A i \in 1..n : seqs[i] = EventRows(round, events[i])
    OBVIOUS
  <2>. HIDE DEF seqs
  <2>. QED BY <1>1, <2>2, <2>3
<1>. HIDE DEF seqs
<1>10. PICK rows : /\ rows[0] = <<>> /\ rows[Len(seqs)] = FlattenSeq(seqs)
                   /\ \A k \in 0..Len(seqs) : rows[k] \in Seq(R)
                   /\ \A k \in 1..Len(seqs) : rows[k] = rows[k - 1] \o seqs[k]
  BY <1>9, FlattenedSteps
<1>11. /\ rows[0] = <<>> /\ rows[n] = FlattenSeq(seqs)
       /\ \A k \in 0..n : rows[k] \in Seq(R)
       /\ \A k \in 1..n : rows[k] = rows[k - 1] \o seqs[k]
  BY <1>9, <1>10
<1>. DEFINE has(k) == Has(after[k].owner, p, m)
            S == {k \in 0..n : after[k].ok => RowSum(rows[k], m, p) = has(k) - Has(owner, p, m)}
<1>12. 0 \in S
  <2>1. RowSum(<<>>, m, p) = 0
    BY NoRows
  <2>2. has(0) = Has(owner, p, m)
    BY <1>3
  <2>3. Has(owner, p, m) \in Int /\ 0 \in 0..n
    BY <1>1 DEF Has
  <2>. HIDE DEF has
  <2>. QED BY <1>11, <2>1, <2>2, <2>3
<1>13. ASSUME NEW k \in 1..n, k - 1 \in S PROVE k \in S
  <2>. DEFINE x == after[k - 1]
              e == events[k]
              a == rows[k - 1]
              b == EventRows(round, e)
  <2>1. k \in 0..n /\ k - 1 \in 0..n
    BY <1>1
  <2>2. x \in V /\ x.ok \in BOOLEAN /\ x = [owner |-> x.owner, ok |-> x.ok] /\ DOMAIN x.owner = players
    <3>1. x \in V
      BY <1>3, <2>1
    <3>. HIDE DEF x
    <3>. QED BY <3>1
  <2>3. e \in E /\ Transfer(e, X) /\ Naming(e, players)
    BY <1>1
  <2>4. after[k] = ReplayEvent(x, e)
    BY <1>3
  <2>5. rows[k] = a \o b /\ a \in Seq(R) /\ b \in Seq(R)
    BY <1>8, <1>9, <1>11, <2>1, <2>3
  <2>6. ASSUME after[k].ok PROVE RowSum(rows[k], m, p) = has(k) - Has(owner, p, m)
    <3>7. ReplayEvent(x, e).ok = (x.ok /\ EventApplies(x.owner, e))
      <4>. HIDE DEF x, e
      <4>. QED BY Zenon DEF ReplayEvent
    <3>1. x.ok /\ EventApplies(x.owner, e)
      <4>. HIDE DEF x, e
      <4>. QED BY <2>4, <2>6, <3>7
    <3>2. RowSum(a, m, p) = Has(x.owner, p, m) - Has(owner, p, m)
      BY <1>13, <3>1
    <3>. HIDE DEF x, e, a, b, V
    <3>3. Has(ReplayEvent(x, e).owner, p, m) - Has(x.owner, p, m) = RowSum(EventRows(round, e), m, p)
      BY <2>2, <2>3, <3>1, EventTold
    <3>4. Has(after[k].owner, p, m) - Has(x.owner, p, m) = RowSum(b, m, p)
      BY <2>2, <2>4, <3>3 DEF b
    <3>5. RowSum(a \o b, m, p) = RowSum(a, m, p) + RowSum(b, m, p)
      BY <1>6, <2>5, RowSumsTogether
    <3>6. Has(after[k].owner, p, m) \in Int /\ Has(x.owner, p, m) \in Int /\ Has(owner, p, m) \in Int
      BY DEF Has
    <3>. QED BY <2>5, <3>2, <3>4, <3>5, <3>6
  <2>. HIDE DEF has
  <2>. QED BY <2>1, <2>6
<1>14. \A k \in 1..n : k - 1 \in S => k \in S
  BY <1>13
<1>. HIDE DEF S
<1>15. \A k \in 0..n : k \in S
  BY <1>1, <1>12, <1>14, Upward
<1>16. n \in 0..n
  BY <1>1
<1>17. after[n].ok => RowSum(rows[n], m, p) = has(n) - Has(owner, p, m)
  BY <1>15, <1>16 DEF S
<1>18. RowSum(FlattenSeq(seqs), m, p) = Has(replay.owner, p, m) - Has(owner, p, m)
  BY <1>3, <1>11, <1>17, <1>20
<1>19. FlattenSeq(seqs) \in Seq(R)
  BY <1>11, <1>16
<1>. QED BY <1>6, <1>18, <1>19 DEF seqs, replay, ReplayOf, RowsOfEvents, EventsTell

(* A plan made from the transfers BasketNews logged                          *)
(* (planBasketNewsTransfers in basketnews/transfers.ts) tells of every team  *)
(* and player what the two rosters do, whatever was logged.                  *)
THEOREM TransferRowsAddUp ==
  ASSUME NEW seats, Windows(seats), NEW target, NEW X, NEW E, Transfers(E, X),
         NEW log \in Seq(E), NEW appliedIds, NEW round,
         PlanBasketNewsTransfers(round, seats, target, log, appliedIds).ok,
         NEW m \in DOMAIN target, m # Nobody, NEW p
  PROVE  RowSum(PlanBasketNewsTransfers(round, seats, target, log, appliedIds).steps, m, p)
           = In(p, target[m]) - In(p, HeldBy(seats, m))
<1>. \A e \in E : Transfer(e, X)
  BY DEF Transfers
<1>. DEFINE events == Selected(log, LAMBDA event : event.accepted /\ event.id \notin appliedIds)
            places == {i \in DOMAIN log : log[i].accepted /\ log[i].id \notin appliedIds}
            named == {ToSet(log[i].sent \o log[i].received) : i \in DOMAIN log}
            known == Seated(seats) \cup (UNION {target[a] : a \in DOMAIN target})
            players == known \cup (UNION named)
            owner == Owners(seats, players)
            replay == FoldLeft(ReplayEvent, [owner |-> owner, ok |-> TRUE], events)
            rowsOf(event) == EventRows(round, event)
            rows == FlattenSeq(Mapped(rowsOf, events))
            plan == PlanBasketNewsTransfers(round, seats, target, log, appliedIds)
            n == Len(events)
            O == {HolderOf(seats, q) : q \in players} \cup {events[i].offer : i \in 1..n}
                   \cup {events[i].request : i \in 1..n}
<1>1. plan = IF ~replay.ok \/ ~OwnersAgree(replay.owner, target) THEN Unexplained
             ELSE PlaceWindows(seats, replay.owner, rows, round)
  BY Zenon DEF PlanBasketNewsTransfers
<1>2. events = Picked(log, places) /\ places \in SUBSET (DOMAIN log)
  BY Zenon DEF Selected
<1>3. owner = [q \in players |-> HolderOf(seats, q)] /\ owner \in [players -> O]
  BY DEF Owners
<1>4. \A i \in 1..n : events[i].offer \in O /\ events[i].request \in O
  OBVIOUS
<1>5. \A i \in DOMAIN log : ToSet(log[i].sent \o log[i].received) \in named
  OBVIOUS
<1>6. (\A q \in Seated(seats) : q \in players) /\ \A s \in named : \A q \in s : q \in players
  <2>1. \A q \in Seated(seats) : q \in known
    OBVIOUS
  <2>. HIDE DEF known, named
  <2>. QED BY <2>1
<1>. HIDE DEF events, players, named, known, O, places
<1>7. /\ events \in Seq(E) /\ n \in Nat /\ DOMAIN events = 1..n /\ events \in [1..n -> E]
      /\ \A i \in 1..n : \E j \in DOMAIN log : events[i] = log[j]
  <2>1. events \in Seq(E) /\ \A i \in DOMAIN events : \E j \in places : events[i] = log[j]
    BY <1>2, PickedFrom
  <2>2. n \in Nat /\ DOMAIN events = 1..n /\ events \in [1..n -> E]
    BY <2>1
  <2>. HIDE DEF n
  <2>. QED BY <1>2, <2>1, <2>2
<1>13. ASSUME NEW i \in 1..n, NEW q \in ToSet(events[i].sent) \cup ToSet(events[i].received)
      PROVE  q \in players
  <2>1. PICK j \in DOMAIN log : events[i] = log[j]
    BY <1>7
  <2>. DEFINE a == log[j].sent
              b == log[j].received
              s == a \o b
  <2>2. a \in Seq(X) /\ b \in Seq(X)
    BY DEF Transfer
  <2>3. s \in Seq(X) /\ Joined(a, b, s)
    BY <2>2, TwoLists
  <2>4. q \in ToSet(a) \cup ToSet(b)
    BY <2>1, <1>13
  <2>5. ToSet(s) \in named
    BY <1>5
  <2>. HIDE DEF a, b, s
  <2>6. q \in ToSet(s)
    <3>1. DOMAIN s = 1..Len(s) /\ Len(s) = Len(a) + Len(b) /\ Len(a) \in Nat /\ Len(b) \in Nat
          /\ DOMAIN a = 1..Len(a) /\ DOMAIN b = 1..Len(b)
      BY <2>2, <2>3 DEF Joined
    <3>2. CASE q \in ToSet(a)
      <4>1. PICK k \in 1..Len(a) : a[k] = q
        BY <3>1, <3>2 DEF ToSet
      <4>2. k \in 1..Len(s) /\ s[k] = q
        BY <2>3, <3>1, <4>1 DEF Joined
      <4>. QED BY <3>1, <4>2 DEF ToSet
    <3>3. CASE q \in ToSet(b)
      <4>1. PICK k \in 1..Len(b) : b[k] = q
        BY <3>1, <3>3 DEF ToSet
      <4>2. Len(a) + k \in Len(a) + 1..Len(a) + Len(b) /\ (Len(a) + k) - Len(a) = k
        BY <3>1
      <4>4. Len(a) + k \in 1..Len(s)
        BY <3>1, <4>2
      <4>5. s[Len(a) + k] = b[(Len(a) + k) - Len(a)]
        BY <2>3, <4>2 DEF Joined
      <4>3. Len(a) + k \in 1..Len(s) /\ s[Len(a) + k] = q
        BY <4>1, <4>2, <4>4, <4>5
      <4>. QED BY <3>1, <4>3 DEF ToSet
    <3>. QED BY <2>4, <3>2, <3>3
  <2>. QED BY <1>6, <2>5, <2>6
<1>8. \A i \in 1..n : Naming(events[i], players)
  BY <1>13 DEF Naming
<1>9. rows = RowsOfEvents(round, n, events)
  <2>1. Mapped(rowsOf, events) = [i \in 1..n |-> EventRows(round, events[i])]
    BY <1>7 DEF Mapped
  <2>. QED BY <2>1 DEF RowsOfEvents
<1>. HIDE DEF n, rows, rowsOf, plan
<1>10. Replayable(X, E, n, events, players, O, owner)
  BY <1>3, <1>4, <1>7, <1>8 DEF Replayable
<1>. HIDE DEF owner, replay
<1>11. replay.ok /\ OwnersAgree(replay.owner, target)
       /\ plan = PlaceWindows(seats, replay.owner, rows, round)
  BY <1>1 DEF Unexplained, plan
<1>18. replay = ReplayOf(owner, events)
  BY DEF replay, ReplayOf
<1>12. /\ RowSum(rows, m, p) = Has(replay.owner, p, m) - Has(owner, p, m)
       /\ \E R : rows \in Seq(R) /\ \A r \in R : HasPlayers(r)
  <2>1. ReplayOf(owner, events).ok
    BY <1>11, <1>18
  <2>2. EventsTell(owner, events, round, n, m, p)
    BY <1>10, <2>1, EventsTold
  <2>. QED BY <1>9, <1>18, <2>2 DEF EventsTell
<1>14. PlaceWindows(seats, replay.owner, rows, round).ok
  BY <1>11 DEF plan
<1>15. RowSum(PlaceWindows(seats, replay.owner, rows, round).steps, m, p) = RowSum(rows, m, p)
  BY <1>12, <1>14, PlacedGains
<1>16. Has(replay.owner, p, m) = In(p, target[m])
  BY <1>11 DEF OwnersAgree, Has, In
<1>17. Has(owner, p, m) = In(p, HeldBy(seats, m))
  <2>1. p \in HeldBy(seats, m) <=> p \in Seated(seats) /\ SeatOf(seats, p).member = m
    BY HolderFact
  <2>. QED BY <1>3, <1>6, <2>1 DEF HolderOf, Has, In
<1>. QED BY <1>11, <1>12, <1>15, <1>16, <1>17 DEF plan

-----------------------------------------------------------------------------
(* The difference of two rosters: what the rows of a sync tell.              *)

LEMMA OftenListed ==
  ASSUME NEW n, NEW list, NEW S, Lists(n, list, S), NEW p
  PROVE  list \in Seq(S) /\ DOMAIN list = 1..n /\ Often(p, list) = In(p, S)
<1>1. /\ n \in Nat /\ list \in [1..n -> S]
      /\ \A x \in S : \E i \in 1..n : list[i] = x
      /\ \A i, j \in 1..n : list[i] = list[j] => i = j
  BY DEF Lists
<1>2. list \in Seq(S) /\ DOMAIN list = 1..n
  BY <1>1
<1>3. \A i, j \in DOMAIN list : list[i] = list[j] => i = j
  BY <1>1, <1>2
<1>4. Often(p, list) = In(p, ToSet(list))
  BY <1>2, <1>3, OftenOnce
<1>5. p \in ToSet(list) <=> p \in S
  BY <1>1, <1>2 DEF ToSet
<1>. QED BY <1>2, <1>4, <1>5 DEF In

(* Of a list without repetition, what only one of its members adds.          *)
OneCounts(n, list, S, a, c, w) ==
  /\ Lists(n, list, S) /\ c \in Int
  /\ w \in [1..n -> Int] /\ \A i \in 1..n : w[i] = IF list[i] = a THEN c ELSE 0

LEMMA SumOfTheOne ==
  ASSUME NEW n, NEW list, NEW S, NEW a, NEW c, NEW w, OneCounts(n, list, S, a, c, w)
  PROVE  SumFunction(w) = IF a \in S THEN c ELSE 0
<1>. DEFINE N == 1..n
<1>1. /\ n \in Nat /\ list \in [N -> S] /\ c \in Int
      /\ \A x \in S : \E i \in N : list[i] = x
      /\ \A i, j \in N : list[i] = list[j] => i = j
      /\ w \in [N -> Int] /\ \A i \in N : w[i] = IF list[i] = a THEN c ELSE 0
  BY DEF OneCounts, Lists
<1>2. IsFiniteSet(N)
  <2>1. 1 \in Int /\ n \in Int
    BY <1>1
  <2>. QED BY <2>1, FS_Interval
<1>. HIDE DEF N
<1>3. CASE a \in S
  <2>1. PICK k \in N : list[k] = a
    BY <1>1, <1>3
  <2>. DEFINE T == {k}
              v == [i \in T |-> w[i]]
  <2>2. T \in SUBSET N /\ \A i \in N \ T : w[i] = 0
    BY <1>1, <2>1
  <2>3. v \in [{k} -> Int] /\ v[k] = c
    BY <1>1, <2>1
  <2>4. SumFunction(w) = SumFunction([i \in T |-> w[i]])
    <3>. HIDE DEF T
    <3>. QED BY <1>1, <1>2, <2>2, SumZeros
  <2>. HIDE DEF v
  <2>5. SumFunction(v) = v[k]
    BY <2>3, SumOfOne
  <2>. QED BY <1>3, <2>3, <2>4, <2>5 DEF v
<1>4. CASE a \notin S
  <2>1. \A i \in N : w[i] = 0
    BY <1>1, <1>4
  <2>2. SumFunction(w) = 0
    BY <1>1, <1>2, <2>1, SumOfZeros
  <2>. QED BY <1>4, <2>2
<1>. QED BY <1>3, <1>4

Known(seats, target, P) ==
  /\ P \subseteq Nat /\ IsFiniteSet(P) /\ Seated(seats) \subseteq P
  /\ \A m \in DOMAIN target : target[m] \subseteq P

LEMMA KnownPlayers ==
  ASSUME NEW seats, NEW target, NEW P, Known(seats, target, P), NEW S, S \subseteq P
  PROVE  Lists(Cardinality(S), Ascending(S), S)
<1>1. S \subseteq Nat /\ IsFiniteSet(S)
  BY FS_Subset DEF Known
<1>. QED BY <1>1, AscendingLists

LEMMA SyncMembersListed ==
  ASSUME NEW seats, NEW target, Comparable(seats, target), NEW S, S \subseteq DOMAIN target
  PROVE  Lists(Cardinality(S), Ascending(S), S)
<1>1. S \subseteq Nat /\ IsFiniteSet(S)
  BY FS_Subset DEF Comparable
<1>. QED BY <1>1, AscendingLists

(* The rows by name.                                                         *)
SyncDrop(round, seats, target, a) ==
  DropRow(a, Ascending(Released(seats, target, a)), round,
          Closed(seats, Released(seats, target, a), round))
SyncAdd(round, seats, target, a) ==
  AddRow(a, Ascending(Acquired(seats, target, a)), round,
         Opened(a, Acquired(seats, target, a), round, "signing"))
SyncTrade(round, seats, target, q) ==
  TradeRow(q[1], q[2], Ascending(Flow(seats, target, q[1], q[2])),
           Ascending(Flow(seats, target, q[2], q[1])), round,
           Closed(seats, Flow(seats, target, q[1], q[2]) \cup Flow(seats, target, q[2], q[1]), round),
           Opened(q[2], Flow(seats, target, q[1], q[2]), round, "trade")
             \cup Opened(q[1], Flow(seats, target, q[2], q[1]), round, "trade"))
Releasing(seats, target) == {a \in DOMAIN target : Released(seats, target, a) # {}}
Acquiring(seats, target) == {a \in DOMAIN target : Acquired(seats, target, a) # {}}

LEMMA SyncedAs ==
  ASSUME NEW round, NEW seats, NEW target
  PROVE  LET D == Ascending(Releasing(seats, target))
             T == TradingPairs(seats, target)
             A == Ascending(Acquiring(seats, target))
         IN  PlanSync(round, seats, target)
               = [i \in DOMAIN D |-> SyncDrop(round, seats, target, D[i])]
                   \o [i \in DOMAIN T |-> SyncTrade(round, seats, target, T[i])]
                   \o [i \in DOMAIN A |-> SyncAdd(round, seats, target, A[i])]
BY Zenon DEF PlanSync, SyncDrops, SyncTrades, SyncAdds, Mapped, SyncDrop, SyncTrade, SyncAdd,
  Releasing, Acquiring, Released, Acquired

(* What each row of a sync tells of a player.                                *)
LEMMA SyncDropGains ==
  ASSUME NEW seats, NEW target, NEW P, Known(seats, target, P), NEW a \in DOMAIN target,
         NEW round, NEW m, NEW p
  PROVE  /\ Gained(SyncDrop(round, seats, target, a), m, p)
              = IF m = a THEN -In(p, Released(seats, target, a)) ELSE 0
         /\ HasPlayers(SyncDrop(round, seats, target, a))
<1>. DEFINE S == Released(seats, target, a)
            list == Ascending(S)
            closes == Closed(seats, S, round)
<1>1. S \subseteq P
  BY DEF Released, Leaving, HeldBy, Known, Seated
<1>. HIDE DEF S
<1>2. Lists(Cardinality(S), list, S)
  BY <1>1, KnownPlayers
<1>. HIDE DEF list, closes
<1>3. list \in Seq(S) /\ Often(p, list) = In(p, S)
  BY <1>2, OftenListed
<1>4. Gained(DropRow(a, list, round, closes), m, p) = IF m = a THEN -Often(p, list) ELSE 0
  BY <1>3, DropGains
<1>5. HasPlayers(DropRow(a, list, round, closes))
  BY RowsHavePlayers
<1>6. SyncDrop(round, seats, target, a) = DropRow(a, list, round, closes)
  BY DEF SyncDrop, list, closes, S
<1>. QED BY <1>3, <1>4, <1>5, <1>6 DEF S

LEMMA SyncAddGains ==
  ASSUME NEW seats, NEW target, NEW P, Known(seats, target, P), NEW a \in DOMAIN target,
         NEW round, NEW m, NEW p
  PROVE  /\ Gained(SyncAdd(round, seats, target, a), m, p)
              = IF m = a THEN In(p, Acquired(seats, target, a)) ELSE 0
         /\ HasPlayers(SyncAdd(round, seats, target, a))
<1>. DEFINE S == Acquired(seats, target, a)
            list == Ascending(S)
            opens == Opened(a, S, round, "signing")
<1>1. S \subseteq P
  BY DEF Acquired, Arriving, Known
<1>. HIDE DEF S
<1>2. Lists(Cardinality(S), list, S)
  BY <1>1, KnownPlayers
<1>. HIDE DEF list, opens
<1>3. list \in Seq(S) /\ Often(p, list) = In(p, S)
  BY <1>2, OftenListed
<1>4. Gained(AddRow(a, list, round, opens), m, p) = IF m = a THEN Often(p, list) ELSE 0
  BY <1>3, AddGains
<1>5. HasPlayers(AddRow(a, list, round, opens))
  BY RowsHavePlayers
<1>6. SyncAdd(round, seats, target, a) = AddRow(a, list, round, opens)
  BY DEF SyncAdd, list, opens, S
<1>. QED BY <1>3, <1>4, <1>5, <1>6 DEF S

LEMMA SyncTradeRow ==
  ASSUME NEW seats, NEW target, NEW P, Known(seats, target, P), NEW q \in Trading(seats, target),
         q[1] # q[2], NEW round, NEW m, NEW p
  PROVE  /\ Gained(SyncTrade(round, seats, target, q), m, p)
              = LET sent == In(p, Flow(seats, target, q[1], q[2]))
                    got == In(p, Flow(seats, target, q[2], q[1]))
                IN  IF m = q[1] THEN got - sent ELSE IF m = q[2] THEN sent - got ELSE 0
         /\ HasPlayers(SyncTrade(round, seats, target, q))
<1>. DEFINE a == q[1]
            b == q[2]
            S == Flow(seats, target, a, b)
            G == Flow(seats, target, b, a)
            sent == Ascending(S)
            got == Ascending(G)
            closes == Closed(seats, S \cup G, round)
            opens == Opened(b, S, round, "trade") \cup Opened(a, G, round, "trade")
<1>1. S \subseteq P /\ G \subseteq P
  BY DEF Flow, Leaving, HeldBy, Known, Seated
<1>2. SyncTrade(round, seats, target, q) = TradeRow(a, b, sent, got, round, closes, opens)
  BY DEF SyncTrade
<1>. HIDE DEF S, G
<1>3. Lists(Cardinality(S), sent, S)
  BY <1>1, KnownPlayers
<1>4. Lists(Cardinality(G), got, G)
  BY <1>1, KnownPlayers
<1>. HIDE DEF sent, got, closes, opens
<1>5. sent \in Seq(S) /\ Often(p, sent) = In(p, S)
  BY <1>3, OftenListed
<1>6. got \in Seq(G) /\ Often(p, got) = In(p, G)
  BY <1>4, OftenListed
<1>7. sent \in Seq(S \cup G) /\ got \in Seq(S \cup G)
  BY <1>5, <1>6
<1>. DEFINE X == S \cup G
<1>. HIDE DEF X
<1>8. a # b /\ sent \in Seq(X) /\ got \in Seq(X)
  BY <1>7 DEF X
<1>. HIDE DEF a, b
<1>9. Gained(TradeRow(a, b, sent, got, round, closes, opens), m, p)
        = IF m = a THEN Often(p, got) - Often(p, sent)
          ELSE IF m = b THEN Often(p, sent) - Often(p, got) ELSE 0
  BY <1>8, TradeGains
<1>10. HasPlayers(TradeRow(a, b, sent, got, round, closes, opens))
  BY RowsHavePlayers
<1>11. Gained(SyncTrade(round, seats, target, q), m, p)
         = IF m = a THEN In(p, G) - In(p, S) ELSE IF m = b THEN In(p, S) - In(p, G) ELSE 0
  BY <1>2, <1>5, <1>6, <1>9
<1>. QED BY <1>2, <1>10, <1>11 DEF S, G, a, b

(* Only the exchange a player is part of tells of him.                       *)
LEMMA SyncTradeGains ==
  ASSUME NEW seats, NEW target, Comparable(seats, target), NEW P, Known(seats, target, P),
         NEW q \in Trading(seats, target), NEW round, NEW m, NEW p
  PROVE  /\ Gained(SyncTrade(round, seats, target, q), m, p)
              = IF p \in Between(seats, target, q)
                  THEN Is(OwnerIn(target)[p], m) - Is(Holder(seats, p), m) ELSE 0
         /\ HasPlayers(SyncTrade(round, seats, target, q))
<1>. DEFINE S == Flow(seats, target, q[1], q[2])
            G == Flow(seats, target, q[2], q[1])
            h == Holder(seats, p)
            o == OwnerIn(target)[p]
            a == q[1]
            b == q[2]
            row == SyncTrade(round, seats, target, q)
<1>0. q[1] # q[2]
  <2>1. q[1] \in DOMAIN target /\ q[2] \in DOMAIN target /\ q[1] < q[2]
    BY DEF Trading
  <2>2. q[1] \in Nat /\ q[2] \in Nat
    BY <2>1 DEF Comparable
  <2>. QED BY <2>1, <2>2
<1>1. /\ Gained(row, m, p)
           = IF m = a THEN In(p, G) - In(p, S) ELSE IF m = b THEN In(p, S) - In(p, G) ELSE 0
      /\ HasPlayers(row)
  BY <1>0, SyncTradeRow
<1>2. p \in Between(seats, target, q) <=> p \in S \/ p \in G
  BY DEF Between
<1>3. p \in Between(seats, target, q)
        => /\ {a, b} = {h, o} /\ (p \in S => o = b) /\ (p \in G => o = a)
  BY BetweenFact
<1>4. a # b
  BY <1>0
<1>. HIDE DEF S, G, h, o, a, b, row
<1>5. CASE p \notin S /\ p \notin G
  BY <1>1, <1>2, <1>5 DEF In, row
<1>6. CASE p \in S
  <2>1. o = b /\ h = a /\ p \notin G
    BY <1>2, <1>3, <1>4, <1>6
  <2>2. Gained(row, m, p) = IF m = a THEN -1 ELSE IF m = b THEN 1 ELSE 0
    BY <1>1, <1>6, <2>1 DEF In
  <2>3. Is(o, m) - Is(h, m) = IF m = a THEN -1 ELSE IF m = b THEN 1 ELSE 0
    BY <1>4, <2>1 DEF Is
  <2>. QED BY <1>1, <1>2, <1>6, <2>2, <2>3 DEF o, h, row
<1>7. CASE p \in G
  <2>1. o = a /\ h = b /\ p \notin S
    BY <1>2, <1>3, <1>4, <1>7
  <2>2. Gained(row, m, p) = IF m = a THEN 1 ELSE IF m = b THEN -1 ELSE 0
    BY <1>1, <1>7, <2>1 DEF In
  <2>3. Is(o, m) - Is(h, m) = IF m = a THEN 1 ELSE IF m = b THEN -1 ELSE 0
    BY <1>4, <2>1 DEF Is
  <2>. QED BY <1>1, <1>2, <1>7, <2>2, <2>3 DEF o, h, row
<1>. QED BY <1>5, <1>6, <1>7

LEMMA SameBetween ==
  ASSUME NEW seats, NEW target, Comparable(seats, target), NEW p,
         NEW q \in Trading(seats, target), NEW r \in Trading(seats, target),
         p \in Between(seats, target, q), p \in Between(seats, target, r)
  PROVE  q = r
<1>1. q = <<q[1], q[2]>> /\ q[1] \in Nat /\ q[2] \in Nat /\ q[1] < q[2]
      /\ {q[1], q[2]} = {Holder(seats, p), OwnerIn(target)[p]}
  BY BetweenFact
<1>2. r = <<r[1], r[2]>> /\ r[1] \in Nat /\ r[2] \in Nat /\ r[1] < r[2]
      /\ {r[1], r[2]} = {Holder(seats, p), OwnerIn(target)[p]}
  BY BetweenFact
<1>. DEFINE a == q[1]
            b == q[2]
            c == r[1]
            d == r[2]
<1>3. a \in Nat /\ b \in Nat /\ c \in Nat /\ d \in Nat /\ a < b /\ c < d /\ {a, b} = {c, d}
  BY <1>1, <1>2
<1>. HIDE DEF a, b, c, d
<1>4. (a = c /\ b = d) \/ (a = d /\ b = c)
  BY <1>3
<1>5. a = c /\ b = d
  BY <1>3, <1>4
<1>. QED BY <1>1, <1>2, <1>5 DEF a, b, c, d

(* Rows of the teams of a list, of which only one's own tells of it.         *)
OwnRows(n, list, S, rows, m, p, c) ==
  /\ Lists(n, list, S) /\ c \in Int /\ (m \notin S => c = 0)
  /\ DOMAIN rows = 1..n
  /\ \A i \in 1..n : /\ Gained(rows[i], m, p) = IF list[i] = m THEN c ELSE 0
                     /\ HasPlayers(rows[i])

LEMMA OwnRowsSum ==
  ASSUME NEW n, NEW list, NEW S, NEW rows, NEW m, NEW p, NEW c, OwnRows(n, list, S, rows, m, p, c)
  PROVE  SumFunction([i \in 1..n |-> Gained(rows[i], m, p)]) = c
<1>. DEFINE w == [i \in 1..n |-> Gained(rows[i], m, p)]
<1>1. OneCounts(n, list, S, m, c, w)
  BY DEF OwnRows, OneCounts
<1>. HIDE DEF w
<1>2. SumFunction(w) = IF m \in S THEN c ELSE 0
  BY <1>1, SumOfTheOne
<1>3. SumFunction(w) = c
  BY <1>2 DEF OwnRows
<1>. QED BY <1>3 DEF w

LEMMA SyncTradesSum ==
  ASSUME NEW seats, NEW target, Comparable(seats, target), NEW P, Known(seats, target, P),
         NEW round, NEW m, NEW p
  PROVE  LET T == TradingPairs(seats, target)
             k == Cardinality(Trading(seats, target))
         IN  SumFunction([i \in 1..k |-> Gained(SyncTrade(round, seats, target, T[i]), m, p)])
               = IF p \in TradedPlayers(seats, target)
                   THEN Is(OwnerIn(target)[p], m) - Is(Holder(seats, p), m) ELSE 0
<1>. DEFINE S == Trading(seats, target)
            T == TradingPairs(seats, target)
            k == Cardinality(S)
            c == Is(OwnerIn(target)[p], m) - Is(Holder(seats, p), m)
            w == [i \in 1..k |-> Gained(SyncTrade(round, seats, target, T[i]), m, p)]
<1>1. Lists(k, T, S)
  BY TradingLists
<1>2. c \in Int
  BY DEF Is
<1>3. \A q \in S : Gained(SyncTrade(round, seats, target, q), m, p)
                     = IF p \in Between(seats, target, q) THEN c ELSE 0
  BY SyncTradeGains
<1>9. p \in TradedPlayers(seats, target) <=> \E q \in S : p \in Between(seats, target, q)
  BY TradedFact
<1>10. \A q, r \in S : p \in Between(seats, target, q) /\ p \in Between(seats, target, r) => q = r
  BY SameBetween
<1>. HIDE DEF S, T, k, c
<1>4. k \in Nat /\ T \in [1..k -> S]
  BY <1>1 DEF Lists
<1>5. w \in [1..k -> Int] /\ \A i \in 1..k : w[i] = IF p \in Between(seats, target, T[i]) THEN c ELSE 0
  BY <1>2, <1>3, <1>4
<1>. HIDE DEF w
<1>6. CASE p \notin TradedPlayers(seats, target)
  <2>1. \A i \in 1..k : w[i] = 0
    BY <1>4, <1>5, <1>6, <1>9
  <2>2. IsFiniteSet(1..k)
    <3>1. 1 \in Int /\ k \in Int
      BY <1>4
    <3>. QED BY <3>1, FS_Interval
  <2>3. SumFunction(w) = 0
    BY <1>5, <2>1, <2>2, SumOfZeros
  <2>. QED BY <1>6, <2>3 DEF w, k, T, S
<1>7. CASE p \in TradedPlayers(seats, target)
  <2>1. PICK q \in S : p \in Between(seats, target, q)
    BY <1>7, <1>9
  <2>2. \A i \in 1..k : w[i] = IF T[i] = q THEN c ELSE 0
    BY <1>4, <1>5, <1>10, <2>1
  <2>3. OneCounts(k, T, S, q, c, w)
    BY <1>1, <1>2, <1>5, <2>2 DEF OneCounts
  <2>4. SumFunction(w) = IF q \in S THEN c ELSE 0
    BY <2>3, SumOfTheOne
  <2>5. SumFunction(w) = c
    BY <2>4
  <2>. QED BY <1>7, <2>5 DEF w, k, T, S, c
<1>. QED BY <1>6, <1>7

(* What the rows of a sync add up to, by the part each kind of row plays.    *)
LEMMA SyncBalance ==
  ASSUME NEW seats, NEW target, Comparable(seats, target), NEW m \in DOMAIN target, NEW p
  PROVE  -In(p, Released(seats, target, m))
           + (IF p \in TradedPlayers(seats, target)
                THEN Is(OwnerIn(target)[p], m) - Is(Holder(seats, p), m) ELSE 0)
           + In(p, Acquired(seats, target, m))
         = In(p, target[m]) - In(p, HeldBy(seats, m))
<1>. DEFINE h == Holder(seats, p)
            o == OwnerIn(target)[p]
            traded == p \in TradedPlayers(seats, target)
            held == p \in HeldBy(seats, m)
            due == p \in target[m]
            out == p \in Released(seats, target, m)
            in == p \in Acquired(seats, target, m)
<1>1. held <=> p \in Seated(seats) /\ h = m
  BY HolderFact DEF Comparable, Holder
<1>2. (out <=> held /\ ~due /\ ~traded) /\ (in <=> due /\ ~held /\ ~traded)
  BY DEF Released, Acquired, Leaving, Arriving
<1>3. due => o = m
  BY AloneFact
<1>4. traded => p \in Seated(seats) /\ p \in target[o]
  <2>1. ASSUME traded PROVE p \in Seated(seats) /\ p \in target[o]
    <3>1. PICK q \in Trading(seats, target) : p \in Between(seats, target, q)
      BY <2>1, TradedFact
    <3>2. Leaves(seats, target, p, h) /\ Arrives(seats, target, p, o)
      BY <3>1, BetweenFact
    <3>. QED BY <3>2 DEF Leaves, Arrives
  <2>. QED BY <2>1
<1>5. traded /\ o = m => due
  BY <1>4
<1>. HIDE DEF h, o
<1>6. CASE traded
  <2>1. In(p, target[m]) = Is(o, m) /\ In(p, HeldBy(seats, m)) = Is(h, m)
    BY <1>1, <1>3, <1>4, <1>5, <1>6 DEF In, Is
  <2>2. In(p, Released(seats, target, m)) = 0 /\ In(p, Acquired(seats, target, m)) = 0
    BY <1>2, <1>6 DEF In
  <2>3. Is(o, m) \in Int /\ Is(h, m) \in Int
    BY DEF Is
  <2>. QED BY <1>6, <2>1, <2>2, <2>3 DEF o, h
<1>7. CASE ~traded
  <2>1. -In(p, Released(seats, target, m)) + 0 + In(p, Acquired(seats, target, m))
          = In(p, target[m]) - In(p, HeldBy(seats, m))
    BY <1>2, <1>7 DEF In
  <2>. QED BY <1>7, <2>1
<1>. QED BY <1>6, <1>7

(* The rows a sync makes of the difference of two rosters (fantasy/plan.ts)  *)
(* account for it: of any player, what they say a team gained is whether it  *)
(* has him in the new rosters less whether it had him in the old.            *)
THEOREM SyncRowsAddUp ==
  ASSUME NEW seats, NEW target, Comparable(seats, target), NEW P, Known(seats, target, P),
         NEW m \in DOMAIN target, NEW p, NEW round
  PROVE  RowSum(PlanSync(round, seats, target), m, p) = In(p, target[m]) - In(p, HeldBy(seats, m))
<1>. DEFINE DS == Releasing(seats, target)
            AS == Acquiring(seats, target)
            TS == Trading(seats, target)
            D == Ascending(DS)
            A == Ascending(AS)
            T == TradingPairs(seats, target)
            n == Cardinality(DS)
            k == Cardinality(TS)
            l == Cardinality(AS)
            drops == [i \in 1..n |-> SyncDrop(round, seats, target, D[i])]
            deals == [i \in 1..k |-> SyncTrade(round, seats, target, T[i])]
            adds == [i \in 1..l |-> SyncAdd(round, seats, target, A[i])]
            R == {drops[i] : i \in 1..n} \cup {deals[i] : i \in 1..k} \cup {adds[i] : i \in 1..l}
            out == -In(p, Released(seats, target, m))
            in == In(p, Acquired(seats, target, m))
            over == IF p \in TradedPlayers(seats, target)
                      THEN Is(OwnerIn(target)[p], m) - Is(Holder(seats, p), m) ELSE 0
<1>1. DS \subseteq DOMAIN target /\ AS \subseteq DOMAIN target
  BY DEF Releasing, Acquiring
<1>2. (m \notin DS => out = 0) /\ (m \notin AS => in = 0)
  <2>1. m \notin DS => Released(seats, target, m) = {}
    BY DEF Releasing
  <2>2. m \notin AS => Acquired(seats, target, m) = {}
    BY DEF Acquiring
  <2>3. In(p, {}) = 0
    BY DEF In
  <2>4. m \notin DS => out = -0
    BY <2>1, <2>3
  <2>. HIDE DEF DS, AS
  <2>. QED BY <2>2, <2>3, <2>4
<1>3. out \in Int /\ in \in Int
  BY DEF In
<1>4. PlanSync(round, seats, target)
        = [i \in DOMAIN D |-> SyncDrop(round, seats, target, D[i])]
            \o [i \in DOMAIN T |-> SyncTrade(round, seats, target, T[i])]
            \o [i \in DOMAIN A |-> SyncAdd(round, seats, target, A[i])]
  BY Zenon, SyncedAs
<1>5. SumFunction([i \in 1..k |-> Gained(SyncTrade(round, seats, target, T[i]), m, p)]) = over
  BY Zenon, SyncTradesSum
<1>6. \A a \in DOMAIN target :
        /\ Gained(SyncDrop(round, seats, target, a), m, p)
             = IF m = a THEN -In(p, Released(seats, target, a)) ELSE 0
        /\ HasPlayers(SyncDrop(round, seats, target, a))
  BY SyncDropGains
<1>7. \A a \in DOMAIN target :
        /\ Gained(SyncAdd(round, seats, target, a), m, p)
             = IF m = a THEN In(p, Acquired(seats, target, a)) ELSE 0
        /\ HasPlayers(SyncAdd(round, seats, target, a))
  BY SyncAddGains
<1>8. \A q \in TS : /\ Gained(SyncTrade(round, seats, target, q), m, p) \in Int
                    /\ HasPlayers(SyncTrade(round, seats, target, q))
  <2>1. Is(OwnerIn(target)[p], m) - Is(Holder(seats, p), m) \in Int
    BY DEF Is
  <2>. QED BY <2>1, SyncTradeGains
<1>9. out + over + in = In(p, target[m]) - In(p, HeldBy(seats, m))
  BY SyncBalance
<1>. HIDE DEF over
<1>10. Lists(k, T, TS)
  BY TradingLists
<1>. HIDE DEF DS, AS, TS
<1>11. Lists(n, D, DS)
  BY <1>1, SyncMembersListed
<1>12. Lists(l, A, AS)
  BY <1>1, SyncMembersListed
<1>. HIDE DEF n, k, l, D, T, A
<1>13. /\ n \in Nat /\ D \in [1..n -> DS] /\ DOMAIN D = 1..n
       /\ k \in Nat /\ T \in [1..k -> TS] /\ DOMAIN T = 1..k
       /\ l \in Nat /\ A \in [1..l -> AS] /\ DOMAIN A = 1..l
  BY <1>10, <1>11, <1>12 DEF Lists
<1>14. PlanSync(round, seats, target) = drops \o deals \o adds
  BY <1>4, <1>13
<1>15. \A i \in 1..n : /\ Gained(drops[i], m, p) = IF D[i] = m THEN out ELSE 0
                       /\ HasPlayers(drops[i])
  BY <1>1, <1>6, <1>13
<1>16. \A i \in 1..l : /\ Gained(adds[i], m, p) = IF A[i] = m THEN in ELSE 0
                       /\ HasPlayers(adds[i])
  BY <1>1, <1>7, <1>13
<1>17. \A i \in 1..k : Gained(deals[i], m, p) \in Int /\ HasPlayers(deals[i])
  BY <1>8, <1>13
<1>18. [i \in 1..k |-> Gained(deals[i], m, p)]
         = [i \in 1..k |-> Gained(SyncTrade(round, seats, target, T[i]), m, p)]
  OBVIOUS
<1>19. DOMAIN drops = 1..n /\ DOMAIN deals = 1..k /\ DOMAIN adds = 1..l
  OBVIOUS
<1>. HIDE DEF drops, deals, adds, out, in
<1>20. RowsOf(n, drops, R) /\ RowsOf(k, deals, R) /\ RowsOf(l, adds, R)
  <2>1. drops = [i \in 1..n |-> drops[i]] /\ deals = [i \in 1..k |-> deals[i]]
        /\ adds = [i \in 1..l |-> adds[i]]
    BY Zenon DEF drops, deals, adds
  <2>. QED BY <1>13, <2>1 DEF RowsOf
<1>21. \A r \in R : Gained(r, m, p) \in Int
  BY <1>3, <1>15, <1>16, <1>17
<1>. HIDE DEF R
<1>22. drops \in Seq(R) /\ RowSum(drops, m, p) = SumFunction([i \in 1..n |-> Gained(drops[i], m, p)])
  BY <1>20, RowsOfFact
<1>23. deals \in Seq(R) /\ RowSum(deals, m, p) = SumFunction([i \in 1..k |-> Gained(deals[i], m, p)])
  BY <1>20, RowsOfFact
<1>24. adds \in Seq(R) /\ RowSum(adds, m, p) = SumFunction([i \in 1..l |-> Gained(adds[i], m, p)])
  BY <1>20, RowsOfFact
<1>25. OwnRows(n, D, DS, drops, m, p, out) /\ OwnRows(l, A, AS, adds, m, p, in)
  BY <1>2, <1>3, <1>11, <1>12, <1>15, <1>16, <1>19 DEF OwnRows
<1>26. SumFunction([i \in 1..n |-> Gained(drops[i], m, p)]) = out
  BY <1>25, OwnRowsSum
<1>27. SumFunction([i \in 1..l |-> Gained(adds[i], m, p)]) = in
  BY <1>25, OwnRowsSum
<1>28. RowSum(drops \o deals \o adds, m, p) = RowSum(drops, m, p) + RowSum(deals, m, p) + RowSum(adds, m, p)
  BY <1>21, <1>22, <1>23, <1>24, RowSumsTogether
<1>29. RowSum(deals, m, p) = over
  BY <1>5, <1>18, <1>23
<1>. QED BY <1>9, <1>14, <1>22, <1>24, <1>26, <1>27, <1>28, <1>29 DEF out, in

-----------------------------------------------------------------------------
(* Questions of plans: whatever is asked, the rows add up.                   *)

(* What the property asks of the rows, team by team and player by player.    *)
AddsUp(steps, teams, after, before) ==
  \A m \in teams, p \in 1..4 :
    RowSum(steps, m, p) = Is(after[p], m) - Is(before[p], m)

LEMMA OwnersRead ==
  ASSUME NEW owner \in [1..4 -> 0..3], NEW teams, NEW m \in teams, m # Nobody, NEW p \in 1..4
  PROVE  /\ In(p, TargetOf(owner, teams)[m]) = Is(owner[p], m)
         /\ In(p, HeldBy(SeatsOf(owner), m)) = Is(owner[p], m)
<1>1. TargetOf(owner, teams)[m] = {q \in 1..4 : owner[q] = m}
  BY DEF TargetOf
<1>2. p \in HeldBy(SeatsOf(owner), m) <=> owner[p] = m
  <2>. DEFINE seat(q) == [id |-> <<0, q>>, member |-> owner[q], player |-> q]
              held == {q \in 1..4 : owner[q] # Nobody}
  <2>1. SeatsOf(owner) = {seat(q) : q \in held}
    BY Zenon DEF SeatsOf
  <2>2. \A q \in held : seat(q).player = q /\ seat(q).member = owner[q]
    OBVIOUS
  <2>. HIDE DEF seat
  <2>3. ASSUME p \in HeldBy(SeatsOf(owner), m) PROVE owner[p] = m
    <3>1. PICK s \in SeatsOf(owner) : s.member = m /\ s.player = p
      BY <2>3 DEF HeldBy
    <3>. QED BY <2>1, <2>2, <3>1
  <2>4. ASSUME owner[p] = m PROVE p \in HeldBy(SeatsOf(owner), m)
    <3>1. seat(p) \in SeatsOf(owner) /\ seat(p).member = m /\ seat(p).player = p
      BY <2>1, <2>2, <2>4
    <3>. QED BY <3>1 DEF HeldBy
  <2>. QED BY <2>3, <2>4
<1>. QED BY <1>1, <1>2 DEF In, Is

LEMMA SyncRowsAnswer ==
  ASSUME NEW before \in [1..4 -> 0..3], NEW after \in [1..4 -> 0..3]
  PROVE  AddsUp(PlanSync(1, SeatsOf(before), TargetOf(after, Members)), Members, after, before)
<1>. DEFINE seats == SeatsOf(before)
            target == TargetOf(after, Members)
            P == 1..4
<1>1. Windows(seats) /\ Recorded(seats) /\ \A s \in seats : s.member \in Members
  BY SeatsAreWindows
<1>2. DOMAIN target = Members /\ \A m \in Members : target[m] = {p \in P : after[p] = m}
  BY DEF TargetOf
<1>3. Comparable(seats, target)
  <2>. HIDE DEF seats, target
  <2>1. Plannable(seats, target)
    BY <1>1, <1>2 DEF Plannable
  <2>2. Members \subseteq Nat \ {Nobody}
    BY DEF Members, Nobody
  <2>3. IsFiniteSet(Members)
    <3>1. 1 \in Int /\ 3 \in Int
      OBVIOUS
    <3>. QED BY <3>1, FS_Interval, Zenon DEF Members
  <2>. QED BY <1>1, <1>2, <2>1, <2>2, <2>3 DEF Comparable
<1>4. Known(seats, target, P)
  <2>1. Seated(seats) \subseteq P
    BY DEF Seated, SeatsOf
  <2>2. IsFiniteSet(P)
    <3>1. 1 \in Int /\ 4 \in Int
      OBVIOUS
    <3>. QED BY <3>1, FS_Interval, Zenon
  <2>. HIDE DEF seats, target
  <2>3. P \subseteq Nat
    OBVIOUS
  <2>. HIDE DEF P
  <2>. QED BY <1>2, <2>1, <2>2, <2>3 DEF Known
<1>5. \A m \in Members : m # Nobody
  BY DEF Members, Nobody
<1>. SUFFICES ASSUME NEW m \in Members, NEW p \in 1..4
              PROVE  RowSum(PlanSync(1, seats, target), m, p) = Is(after[p], m) - Is(before[p], m)
  BY DEF AddsUp
<1>6. In(p, target[m]) = Is(after[p], m)
  BY <1>5, OwnersRead
<1>7. In(p, HeldBy(seats, m)) = Is(before[p], m)
  BY <1>5, OwnersRead
<1>. HIDE DEF seats, target, P
<1>8. RowSum(PlanSync(1, seats, target), m, p) = In(p, target[m]) - In(p, HeldBy(seats, m))
  BY <1>2, <1>3, <1>4, SyncRowsAddUp
<1>. QED BY <1>6, <1>7, <1>8

LEMMA LogRowsAnswer ==
  ASSUME NEW before \in [1..4 -> 0..3], NEW after \in [1..4 -> 0..3], NEW log \in Seq(Move),
         PlanFromLog(1, SeatsOf(before), TargetOf(after, Teams), log).ok
  PROVE  AddsUp(PlanFromLog(1, SeatsOf(before), TargetOf(after, Teams), log).steps, Teams, after, before)
<1>. DEFINE seats == SeatsOf(before)
            target == TargetOf(after, Teams)
            steps == PlanFromLog(1, seats, target, log).steps
<1>1. Windows(seats)
  BY SeatsAreWindows
<1>2. DOMAIN target = Teams /\ \A m \in Teams : m # Nobody
  BY DEF TargetOf, Teams, Nobody
<1>3. \A move \in Move : move.member \in Nat
  BY DEF Move, Teams
<1>. SUFFICES ASSUME NEW m \in Teams, NEW p \in 1..4
              PROVE  RowSum(steps, m, p) = Is(after[p], m) - Is(before[p], m)
  BY DEF AddsUp
<1>4. In(p, target[m]) = Is(after[p], m)
  BY <1>2, OwnersRead
<1>5. In(p, HeldBy(seats, m)) = Is(before[p], m)
  <2>1. m \in Members /\ m # Nobody
    BY <1>2 DEF Teams, Members
  <2>. QED BY <2>1, OwnersRead
<1>. HIDE DEF seats, target
<1>6. PlanFromLog(1, seats, target, log).ok /\ m \in DOMAIN target /\ m # Nobody
  BY <1>2 DEF seats, target
<1>7. RowSum(PlanFromLog(1, seats, target, log).steps, m, p)
        = In(p, target[m]) - In(p, HeldBy(seats, m))
  BY <1>1, <1>3, <1>6, LogRowsAddUp
<1>. QED BY <1>4, <1>5, <1>7

LEMMA TransferRowsAnswer ==
  ASSUME NEW before \in [1..4 -> 0..3], NEW after \in [1..4 -> 0..3], NEW X, NEW E,
         Transfers(E, X), NEW log \in Seq(E), NEW applied,
         PlanBasketNewsTransfers(1, SeatsOf(before), TargetOf(after, Teams), log, applied).ok
  PROVE  AddsUp(PlanBasketNewsTransfers(1, SeatsOf(before), TargetOf(after, Teams), log, applied).steps,
                Teams, after, before)
<1>. DEFINE seats == SeatsOf(before)
            target == TargetOf(after, Teams)
            steps == PlanBasketNewsTransfers(1, seats, target, log, applied).steps
<1>1. Windows(seats)
  BY SeatsAreWindows
<1>2. DOMAIN target = Teams /\ \A m \in Teams : m # Nobody
  BY DEF TargetOf, Teams, Nobody
<1>. SUFFICES ASSUME NEW m \in Teams, NEW p \in 1..4
              PROVE  RowSum(steps, m, p) = Is(after[p], m) - Is(before[p], m)
  BY DEF AddsUp
<1>4. In(p, target[m]) = Is(after[p], m)
  BY <1>2, OwnersRead
<1>5. In(p, HeldBy(seats, m)) = Is(before[p], m)
  <2>1. m \in Members /\ m # Nobody
    BY <1>2 DEF Teams, Members
  <2>. QED BY <2>1, OwnersRead
<1>. HIDE DEF seats, target
<1>6. /\ PlanBasketNewsTransfers(1, seats, target, log, applied).ok
      /\ m \in DOMAIN target /\ m # Nobody
  BY <1>2 DEF seats, target
<1>7. RowSum(PlanBasketNewsTransfers(1, seats, target, log, applied).steps, m, p)
        = In(p, target[m]) - In(p, HeldBy(seats, m))
  BY <1>1, <1>6, TransferRowsAddUp
<1>. QED BY <1>4, <1>5, <1>7

(* The plan that was asked for, and what its rows are to add up to.          *)
RowsAsked ==
  AskedForPlan /\ PlannedRows.ok
    => AddsUp(PlannedRows.steps, IF question.kind = "sync" THEN Members ELSE Teams,
              question.after, question.before)

LEMMA RowsAskedFact == RowsAsked => RowsExplainTheRosters
BY Zenon DEF RowsAsked, RowsExplainTheRosters, AddsUp, RowSum, Is

LEMMA RowsAnswer ==
  ASSUME Posed
  PROVE  RowsExplainTheRosters
<1>1. ASSUME Asked("sync") PROVE RowsAsked
  <2>1. PICK before \in [1..4 -> 0..3], after \in [1..4 -> 0..3] :
          question = [kind |-> "sync", before |-> before, after |-> after]
    BY <1>1, KindFact DEF IsSync
  <2>. DEFINE steps == PlanSync(1, SeatsOf(before), TargetOf(after, Members))
  <2>2. question.kind = "sync" /\ question.before = before /\ question.after = after
    BY <2>1
  <2>3. PlannedRows = [ok |-> TRUE, steps |-> steps]
    BY <2>2 DEF PlannedRows
  <2>4. AddsUp(steps, Members, after, before)
    BY SyncRowsAnswer
  <2>. HIDE DEF steps
  <2>5. PlannedRows.steps = steps
    BY <2>3
  <2>. QED BY <2>2, <2>4, <2>5 DEF RowsAsked
<1>2. ASSUME Asked("log") PROVE RowsAsked
  <2>1. PICK before \in [1..4 -> 0..3], after \in [1..4 -> 0..3], log \in Seq(Move) :
          question = [kind |-> "log", before |-> before, after |-> after, log |-> log]
    BY <1>2, KindFact DEF IsLog
  <2>. DEFINE plan == PlanFromLog(1, SeatsOf(before), TargetOf(after, Teams), log)
  <2>2. /\ question.kind = "log" /\ question.before = before /\ question.after = after
        /\ question.log = log
    BY <2>1
  <2>3. PlannedRows = plan
    BY <2>2 DEF PlannedRows
  <2>4. plan.ok => AddsUp(plan.steps, Teams, after, before)
    BY LogRowsAnswer
  <2>. HIDE DEF plan
  <2>. QED BY <2>2, <2>3, <2>4 DEF RowsAsked
<1>3. ASSUME Asked("transfers") PROVE RowsAsked
  <2>0. PICK before \in [1..4 -> 0..3], after \in [1..4 -> 0..3] : \E log, applied, X, E :
          /\ log \in Seq(E) /\ Transfers(E, X)
          /\ question = [kind |-> "transfers", before |-> before, after |-> after, log |-> log,
                         applied |-> applied]
    BY <1>3, KindFact DEF IsTransfers
  <2>1. PICK log, applied, X, E :
          /\ log \in Seq(E) /\ Transfers(E, X)
          /\ question = [kind |-> "transfers", before |-> before, after |-> after, log |-> log,
                         applied |-> applied]
    BY <2>0
  <2>. DEFINE plan == PlanBasketNewsTransfers(1, SeatsOf(before), TargetOf(after, Teams), log, applied)
  <2>2. /\ question.kind = "transfers" /\ question.before = before /\ question.after = after
        /\ question.log = log /\ question.applied = applied
    BY <2>1
  <2>3. PlannedRows = plan
    BY <2>2 DEF PlannedRows
  <2>4. plan.ok => AddsUp(plan.steps, Teams, after, before)
    <3>1. ASSUME plan.ok PROVE AddsUp(plan.steps, Teams, after, before)
      BY <2>1, <3>1, TransferRowsAnswer
    <3>. QED BY <3>1
  <2>. HIDE DEF plan
  <2>. QED BY <2>2, <2>3, <2>4 DEF RowsAsked
<1>4. CASE AskedForPlan
  <2>1. Asked("sync") \/ Asked("log") \/ Asked("transfers")
    BY <1>4 DEF AskedForPlan
  <2>2. RowsAsked
    BY <1>1, <1>2, <1>3, <2>1
  <2>. QED BY <2>2, RowsAskedFact
<1>5. CASE ~AskedForPlan
  BY <1>5 DEF RowsExplainTheRosters
<1>. QED BY <1>4, <1>5

(* The rows of a plan add up (fantasy/plan.ts, basketnews/transfers.ts): of  *)
(* every team and player, what they say was received less what they say was  *)
(* sent is what the roster gained, players who only passed through included. *)
(* The three theorems it rests on are of any rosters, moves and transfers.   *)
THEOREM RowsAlwaysExplain == RulesSpec => []RowsExplainTheRosters
BY RowsAnswer, PosedAlways, PTL
=============================================================================
