--------------------------- MODULE RosterPlans_proofs ---------------------------
(***************************************************************************)
(* Theorems about the plans of a sync: whichever of its three sources a    *)
(* plan is made from, carried out on the open windows it was made for it   *)
(* leaves the official rosters.                                            *)
(*                                                                         *)
(* A fold over a list is followed by its value after each element          *)
(* (FoldExists); what is carried out closes windows and opens others, so   *)
(* what it leaves depends only on which, and on that no player is put on a *)
(* roster before he is off the one he was on.                              *)
(*                                                                         *)
(* Last come facts about sums over finite sets and lists, which the rows   *)
(* of a plan and the tables of a season are counted with.                  *)
(***************************************************************************)
EXTENDS MoveLogs, DraftEngine_proofs

-----------------------------------------------------------------------------
(* Plans carried out one after the other.                                  *)

LEMMA PlansAreSteps ==
  ASSUME NEW seats, NEW n \in Nat, NEW plans, DOMAIN plans = 1..n
  PROVE  \E after : /\ after[0] = seats
                    /\ \A k \in 1..n : after[k] = ApplyPlan(after[k - 1], plans[k])
                    /\ after[n] = ApplyPlans(seats, plans)
<1>. DEFINE seat(o) == [id |-> <<o.member, o.player>>, member |-> o.member, player |-> o.player]
            fresh == UNION {{seat(o) : o \in plans[k].opens} : k \in 1..n}
            V == SUBSET (seats \cup fresh)
            step == [x \in V \X (1..n) |-> ApplyPlan(x[1], plans[x[2]])]
            next(f) == [s \in SUBSET (1..n) |->
                          IF s = {} THEN seats ELSE ApplyPlan(f[s \ {Max(s)}], plans[Max(s)])]
            iter == CHOOSE f : f = next(f)
<1>1. ApplyPlans(seats, plans) = iter[1..n]
  BY Zenon DEF ApplyPlans, FoldLeft, MapThenFoldSet
<1>2. step \in [V \X (1..n) -> V]
  <2>1. ASSUME NEW x \in V, NEW k \in 1..n PROVE ApplyPlan(x, plans[k]) \in V
    <3>1. ASSUME NEW o \in plans[k].opens PROVE seat(o) \in fresh
      <4>1. seat(o) \in {seat(q) : q \in plans[k].opens}
        OBVIOUS
      <4>. HIDE DEF seat
      <4>. QED BY <4>1
    <3>. DEFINE kept == {s \in x : \A c \in plans[k].closes : c.seat # s.id}
                added == {seat(o) : o \in {p \in plans[k].opens : p.player \notin Seated(kept)}}
    <3>2. ApplyPlan(x, plans[k]) = kept \cup added
      BY Zenon DEF ApplyPlan
    <3>. HIDE DEF fresh, seat
    <3>3. kept \subseteq x /\ added \subseteq fresh
      BY <3>1
    <3>4. x \subseteq seats \cup fresh
      OBVIOUS
    <3>. HIDE DEF kept, added
    <3>5. kept \cup added \subseteq seats \cup fresh
      BY <3>3, <3>4
    <3>. QED BY <3>2, <3>5
  <2>. HIDE DEF V
  <2>. QED BY <2>1
<1>3. PICK g : Folds(n, V, seats, step, g)
  <2>1. seats \in V
    OBVIOUS
  <2>. HIDE DEF V, step
  <2>. QED BY <1>2, <2>1, FoldExists
<1>. HIDE DEF V
<1>4. g = next(g)
  BY <1>3 DEF Folds
<1>. HIDE DEF step
<1>5. iter = next(iter)
  <2>. HIDE DEF next
  <2>. QED BY <1>4
<1>. HIDE DEF iter
<1>. DEFINE after == [k \in 0..n |-> iter[1..k]]
<1>6. after[0] = seats
  BY <1>5
<1>7. ASSUME NEW k \in 1..n PROVE iter[1..k] = ApplyPlan(iter[1..k - 1], plans[k])
  <2>1. /\ 1..k \in SUBSET (1..n) /\ 1..k # {}
        /\ Max(1..k) = k /\ (1..k) \ {k} = 1..k - 1
    BY PrefixFact
  <2>. QED BY <1>5, <2>1
<1>8. \A k \in 1..n : after[k] = iter[1..k] /\ after[k - 1] = iter[1..k - 1]
  OBVIOUS
<1>9. after[n] = iter[1..n]
  OBVIOUS
<1>. HIDE DEF after
<1>. QED BY <1>1, <1>6, <1>7, <1>8, <1>9

(* Open windows: nobody has two, no two have one record.                   *)
Windows(seats) ==
  /\ IsFiniteSet(Seated(seats))
  /\ \A s, t \in seats : s.player = t.player \/ s.id = t.id => s = t

LEMMA SeatFact ==
  ASSUME NEW seats, Windows(seats), NEW p \in Seated(seats)
  PROVE  SeatOf(seats, p) \in seats /\ SeatOf(seats, p).player = p
<1>1. \E s \in seats : s.player = p
  BY DEF Seated
<1>. QED BY <1>1 DEF SeatOf

(* A schedule of moves: each player who leaves does so in one row, each    *)
(* who settles in one row, not before; the rows close and open nothing     *)
(* else.                                                                   *)
NewSeat(owner, p) == [id |-> <<owner[p], p>>, member |-> owner[p], player |-> p]

OpensOnly(opens, owner, players) ==
  /\ \A o \in opens : o.player \in players /\ o.member = owner[o.player]
  /\ \A p \in players : \E o \in opens : o.player = p

Scheduled(seats, n, plans, round, owner, closeAt, openAt) ==
  /\ DOMAIN closeAt \subseteq Seated(seats)
  /\ DOMAIN openAt \cap Seated(seats) \subseteq DOMAIN closeAt
  /\ closeAt \in [DOMAIN closeAt -> 1..n] /\ openAt \in [DOMAIN openAt -> 1..n]
  /\ \A p \in DOMAIN closeAt \cap DOMAIN openAt : closeAt[p] <= openAt[p]
  /\ \A s \in seats, p \in DOMAIN openAt : s.id # NewSeat(owner, p).id
  /\ \A k \in 1..n :
       /\ plans[k].closes = Closed(seats, {p \in DOMAIN closeAt : closeAt[p] = k}, round)
       /\ OpensOnly(plans[k].opens, owner, {p \in DOMAIN openAt : openAt[p] = k})

(* The windows after the first k rows of a schedule.                       *)
Standing(seats, owner, closeAt, openAt, k) ==
  {s \in seats : s.player \in DOMAIN closeAt => closeAt[s.player] > k}
    \cup {NewSeat(owner, p) : p \in {q \in DOMAIN openAt : openAt[q] <= k}}

LEMMA RowCarriedOut ==
  ASSUME NEW seats, Windows(seats), NEW n \in Nat, NEW plans, NEW round, NEW owner,
         NEW closeAt, NEW openAt, Scheduled(seats, n, plans, round, owner, closeAt, openAt),
         NEW k \in 1..n
  PROVE  ApplyPlan(Standing(seats, owner, closeAt, openAt, k - 1), plans[k])
           = Standing(seats, owner, closeAt, openAt, k)
<1>. DEFINE before == Standing(seats, owner, closeAt, openAt, k - 1)
            after == Standing(seats, owner, closeAt, openAt, k)
            closing == {p \in DOMAIN closeAt : closeAt[p] = k}
            opening == {p \in DOMAIN openAt : openAt[p] = k}
            seat(o) == [id |-> <<o.member, o.player>>, member |-> o.member, player |-> o.player]
            kept == {s \in before : \A c \in plans[k].closes : c.seat # s.id}
            new == {seat(o) : o \in {p \in plans[k].opens : p.player \notin Seated(kept)}}
            old == {s \in seats : s.player \in DOMAIN closeAt => closeAt[s.player] > k}
            arrived == {NewSeat(owner, p) : p \in {q \in DOMAIN openAt : openAt[q] <= k - 1}}
<1>1. ApplyPlan(before, plans[k]) = kept \cup new
  BY Zenon DEF ApplyPlan
<1>2. /\ DOMAIN closeAt \subseteq Seated(seats)
      /\ DOMAIN openAt \cap Seated(seats) \subseteq DOMAIN closeAt
      /\ \A p \in DOMAIN closeAt : closeAt[p] \in 1..n
      /\ \A p \in DOMAIN openAt : openAt[p] \in 1..n
      /\ \A p \in DOMAIN closeAt \cap DOMAIN openAt : closeAt[p] <= openAt[p]
      /\ \A s \in seats, p \in DOMAIN openAt : s.id # NewSeat(owner, p).id
      /\ plans[k].closes = Closed(seats, closing, round)
      /\ OpensOnly(plans[k].opens, owner, opening)
  BY DEF Scheduled
<1>3. \A p \in closing : \E c \in plans[k].closes : c.seat = SeatOf(seats, p).id
  <2>. SUFFICES ASSUME NEW p \in closing PROVE \E c \in plans[k].closes : c.seat = SeatOf(seats, p).id
    OBVIOUS
  <2>. DEFINE c == [seat |-> SeatOf(seats, p).id, toRound |-> round]
  <2>. HIDE DEF closing
  <2>1. c \in plans[k].closes
    BY <1>2, Zenon DEF Closed
  <2>2. c.seat = SeatOf(seats, p).id
    OBVIOUS
  <2>. HIDE DEF c
  <2>. QED BY <2>1, <2>2
<1>4. \A c \in plans[k].closes : \E p \in closing : c.seat = SeatOf(seats, p).id
  <2>. SUFFICES ASSUME NEW c \in plans[k].closes PROVE \E p \in closing : c.seat = SeatOf(seats, p).id
    OBVIOUS
  <2>. HIDE DEF closing
  <2>1. PICK p \in closing : c = [seat |-> SeatOf(seats, p).id, toRound |-> round]
    BY <1>2, Zenon DEF Closed
  <2>. QED BY <2>1
<1>5. \A p \in closing : SeatOf(seats, p) \in seats /\ SeatOf(seats, p).player = p
  BY <1>2, SeatFact
<1>6. \A s, t \in seats : s.player = t.player \/ s.id = t.id => s = t
  BY DEF Windows
<1>7. \A s \in before : \/ s \in seats /\ (s.player \in DOMAIN closeAt => closeAt[s.player] > k - 1)
                        \/ s \in arrived
  BY DEF Standing
<1>8. \A s \in arrived : \E p \in DOMAIN openAt : openAt[p] <= k - 1 /\ s = NewSeat(owner, p)
                                                    /\ s.player = p
  BY DEF NewSeat
<1>9. old \subseteq kept
  <2>. SUFFICES ASSUME NEW s \in old PROVE s \in kept
    OBVIOUS
  <2>1. s \in before
    BY <1>2 DEF Standing
  <2>2. \A p \in closing : p # s.player
    BY <1>2
  <2>3. \A p \in closing : SeatOf(seats, p).id # s.id
    BY <1>5, <1>6, <2>2
  <2>. QED BY <1>4, <2>1, <2>3
<1>10. arrived \subseteq kept
  <2>. SUFFICES ASSUME NEW s \in arrived PROVE s \in kept
    OBVIOUS
  <2>1. s \in before
    BY DEF Standing
  <2>2. \A t \in seats : t.id # s.id
    BY <1>2, <1>8
  <2>. QED BY <1>4, <1>5, <2>1, <2>2
<1>11. kept \subseteq old \cup arrived
  <2>. SUFFICES ASSUME NEW s \in kept, s \notin arrived PROVE s \in old
    OBVIOUS
  <2>1. s \in seats /\ (s.player \in DOMAIN closeAt => closeAt[s.player] > k - 1)
    BY <1>7
  <2>2. s.player \notin closing
    <3>1. SUFFICES ASSUME s.player \in closing PROVE FALSE
      OBVIOUS
    <3>2. SeatOf(seats, s.player) = s
      BY <1>5, <1>6, <2>1, <3>1
    <3>. QED BY <1>3, <3>1, <3>2
  <2>. QED BY <1>2, <2>1, <2>2
<1>12. kept = old \cup arrived
  BY <1>9, <1>10, <1>11
<1>. HIDE DEF kept
<1>13. \A p \in opening : p \notin Seated(kept)
  <2>. SUFFICES ASSUME NEW p \in opening, NEW s \in kept, s.player = p PROVE FALSE
    BY DEF Seated
  <2>1. CASE s \in old
    <3>1. p \in Seated(seats)
      BY <2>1 DEF Seated
    <3>. QED BY <1>2, <2>1, <3>1
  <2>2. CASE s \in arrived
    <3>1. openAt[p] <= k - 1 /\ openAt[p] = k
      BY <1>8, <2>2
    <3>. QED BY <3>1
  <2>. QED BY <1>12, <2>1, <2>2
<1>14. new = {NewSeat(owner, p) : p \in opening}
  <2>1. \A o \in plans[k].opens : o.player \in opening /\ seat(o) = NewSeat(owner, o.player)
    BY <1>2 DEF OpensOnly, NewSeat
  <2>2. \A p \in opening : \E o \in plans[k].opens : o.player = p
    BY <1>2 DEF OpensOnly
  <2>. HIDE DEF seat, opening
  <2>. QED BY <1>13, <2>1, <2>2
<1>15. {q \in DOMAIN openAt : openAt[q] <= k} = {q \in DOMAIN openAt : openAt[q] <= k - 1} \cup opening
  BY <1>2
<1>16. after = old \cup arrived \cup new
  <2>. DEFINE settled(T) == {NewSeat(owner, p) : p \in T}
  <2>1. settled({q \in DOMAIN openAt : openAt[q] <= k}) = arrived \cup settled(opening)
    BY <1>15
  <2>. HIDE DEF new
  <2>. QED BY <1>14, <2>1 DEF Standing
<1>. QED BY <1>1, <1>12, <1>16

LEMMA ScheduleCarriedOut ==
  ASSUME NEW seats, Windows(seats), NEW n \in Nat, NEW plans, DOMAIN plans = 1..n, NEW round,
         NEW owner, NEW closeAt, NEW openAt,
         Scheduled(seats, n, plans, round, owner, closeAt, openAt)
  PROVE  ApplyPlans(seats, plans) = Standing(seats, owner, closeAt, openAt, n)
<1>. DEFINE standing(k) == Standing(seats, owner, closeAt, openAt, k)
<1>1. PICK after : /\ after[0] = seats
                   /\ \A k \in 1..n : after[k] = ApplyPlan(after[k - 1], plans[k])
                   /\ after[n] = ApplyPlans(seats, plans)
  BY PlansAreSteps
<1>2. standing(0) = seats
  <2>1. /\ \A p \in DOMAIN closeAt : closeAt[p] > 0
        /\ \A p \in DOMAIN openAt : ~(openAt[p] <= 0)
    BY DEF Scheduled
  <2>. QED BY <2>1 DEF Standing
<1>3. \A k \in 1..n : ApplyPlan(standing(k - 1), plans[k]) = standing(k)
  BY RowCarriedOut
<1>. HIDE DEF standing
<1>. DEFINE S == {k \in 0..n : after[k] = standing(k)}
<1>4. 0 \in S
  BY <1>1, <1>2
<1>5. ASSUME NEW k \in 1..n, k - 1 \in S PROVE k \in S
  BY <1>1, <1>3, <1>5
<1>. HIDE DEF S
<1>6. n \in S
  BY <1>4, <1>5, Upward
<1>. QED BY <1>1, <1>6 DEF S, standing

(* Whom the schedule leaves where he is stands where the target says, and  *)
(* so does whom it seats, and nobody else does.                            *)
Explains(seats, owner, closeAt, openAt, target) ==
  /\ \A s \in seats : s.player \notin DOMAIN closeAt =>
                        s.member \in DOMAIN target /\ s.player \in target[s.member]
  /\ \A p \in DOMAIN openAt : owner[p] \in DOMAIN target /\ p \in target[owner[p]]
  /\ \A m \in DOMAIN target : \A p \in target[m] :
       \/ p \in DOMAIN openAt /\ owner[p] = m
       \/ p \notin DOMAIN closeAt /\ \E s \in seats : s.player = p /\ s.member = m

LEMMA ScheduleReaches ==
  ASSUME NEW seats, Windows(seats), NEW n \in Nat, NEW plans, DOMAIN plans = 1..n, NEW round,
         NEW owner, NEW closeAt, NEW openAt, NEW target,
         Scheduled(seats, n, plans, round, owner, closeAt, openAt),
         Explains(seats, owner, closeAt, openAt, target)
  PROVE  RostersAgree(ApplyPlans(seats, plans), target)
<1>. DEFINE end == Standing(seats, owner, closeAt, openAt, n)
            stayed == {s \in seats : s.player \notin DOMAIN closeAt}
            arrived == {NewSeat(owner, p) : p \in DOMAIN openAt}
<1>1. ApplyPlans(seats, plans) = end
  BY ScheduleCarriedOut
<1>2. end = stayed \cup arrived
  <2>1. /\ \A p \in DOMAIN closeAt : ~(closeAt[p] > n)
        /\ \A p \in DOMAIN openAt : openAt[p] <= n
    BY DEF Scheduled
  <2>2. {q \in DOMAIN openAt : openAt[q] <= n} = DOMAIN openAt
    BY <2>1
  <2>. QED BY <2>1, <2>2 DEF Standing
<1>3. \A s \in arrived : \E p \in DOMAIN openAt : s.player = p /\ s.member = owner[p]
  BY DEF NewSeat
<1>4. ASSUME NEW p \in DOMAIN openAt
      PROVE  \E s \in arrived : s.player = p /\ s.member = owner[p]
  <2>. DEFINE s == NewSeat(owner, p)
  <2>1. s \in arrived
    OBVIOUS
  <2>2. s.player = p /\ s.member = owner[p]
    BY DEF NewSeat
  <2>. HIDE DEF s, arrived
  <2>. QED BY <2>1, <2>2
<1>. HIDE DEF end, arrived
<1>5. \A s \in end : s.member \in DOMAIN target /\ s.player \in target[s.member]
  BY <1>2, <1>3 DEF Explains
<1>6. ASSUME NEW m \in DOMAIN target, NEW p \in target[m]
      PROVE  \E s \in end : s.player = p /\ s.member = m
  <2>1. CASE p \in DOMAIN openAt /\ owner[p] = m
    BY <1>2, <1>4, <2>1
  <2>2. CASE p \notin DOMAIN closeAt /\ \E s \in seats : s.player = p /\ s.member = m
    BY <1>2, <2>2
  <2>. QED BY <2>1, <2>2 DEF Explains
<1>7. \A m \in DOMAIN target : HeldBy(end, m) = target[m]
  BY <1>5, <1>6 DEF HeldBy
<1>. QED BY <1>1, <1>5, <1>7 DEF RostersAgree

-----------------------------------------------------------------------------
(* Rows that a replayed log gives: the windows placed on them.             *)

HasWindows(r) == {"closes", "opens"} \subseteq DOMAIN r

LEMMA WindowsSet ==
  ASSUME NEW r, HasWindows(r), NEW closes, NEW opens
  PROVE  LET placed == [r EXCEPT !.closes = closes, !.opens = opens]
         IN  placed.closes = closes /\ placed.opens = opens
<1>1. "closes" \in DOMAIN r /\ "opens" \in DOMAIN r
  BY DEF HasWindows
<1>. QED BY <1>1

(* Nobody is null, and a record that is made is a new one.                 *)
Recorded(seats) ==
  \A s \in seats : s.member # Nobody /\ \A m, p : s.id = <<m, p>> => m = Nobody

LEMMA PlacedWindowsReach ==
  ASSUME NEW seats, Windows(seats), NEW R, NEW rows \in Seq(R), \A r \in R : HasWindows(r),
         NEW owner, Seated(seats) \subseteq DOMAIN owner, Recorded(seats),
         NEW target, Nobody \notin DOMAIN target, OwnersAgree(owner, target), NEW round,
         PlaceWindows(seats, owner, rows, round).ok
  PROVE  RostersAgree(ApplyPlans(seats, PlaceWindows(seats, owner, rows, round).steps), target)
<1>. DEFINE n == Len(rows)
            moved == {p \in DOMAIN owner : HolderOf(seats, p) # owner[p]}
            leaving == {p \in moved : p \in Seated(seats)}
            settling == {p \in moved : owner[p] # Nobody}
            out(p) == SelectInSeq(rows, LAMBDA row : p \in Of(row.playersOut, HolderOf(seats, p)))
            in(p) == SelectLastInSeq(rows, LAMBDA row : p \in Of(row.playersIn, owner[p]))
            orderly == /\ \A p \in leaving : out(p) # 0
                       /\ \A p \in settling : in(p) # 0
                       /\ \A p \in leaving \cap settling : out(p) <= in(p)
            opens(i) == {[member |-> owner[p], player |-> p, fromRound |-> round,
                          via |-> IF rows[i].type = "trade" THEN "trade" ELSE "signing"] :
                           p \in {q \in settling : in(q) = i}}
            closes(i) == Closed(seats, {p \in leaving : out(p) = i}, round)
            row(i) == [rows[i] EXCEPT !.closes = closes(i), !.opens = opens(i)]
            steps == [i \in DOMAIN rows |-> row(i)]
            closeAt == [p \in leaving |-> out(p)]
            openAt == [p \in settling |-> in(p)]
<1>1. PlaceWindows(seats, owner, rows, round)
        = IF ~orderly THEN Unexplained ELSE [ok |-> TRUE, steps |-> steps]
  BY Zenon DEF PlaceWindows
<1>2. n \in Nat /\ DOMAIN rows = 1..n /\ \A i \in 1..n : rows[i] \in R
  OBVIOUS
<1>3. \A p : out(p) \in 0..n
  <2>. TAKE p
  <2>. DEFINE I == {i \in 1..Len(rows) : p \in Of(rows[i].playersOut, HolderOf(seats, p))}
  <2>1. out(p) = IF I # {} THEN Min(I) ELSE 0
    BY Zenon DEF SelectInSeq
  <2>2. I \in SUBSET Nat /\ I \subseteq 1..n
    BY <1>2
  <2>. HIDE DEF I, out
  <2>3. I # {} => Min(I) \in 1..n
    BY <2>2, NatMin
  <2>. QED BY <1>2, <2>1, <2>3
<1>4. \A p : in(p) \in 0..n
  <2>. TAKE p
  <2>. DEFINE I == {i \in 1..Len(rows) : p \in Of(rows[i].playersIn, owner[p])}
  <2>1. in(p) = IF I # {} THEN Max(I) ELSE 0
    BY Zenon DEF SelectLastInSeq
  <2>2. I \in SUBSET Nat /\ I \subseteq 1..n /\ \A i \in I : i <= n
    BY <1>2
  <2>. HIDE DEF I, in
  <2>3. I # {} => Max(I) \in 1..n
    BY <1>2, <2>2, NatMax
  <2>. QED BY <1>2, <2>1, <2>3
<1>. HIDE DEF out, in
<1>5. orderly
  <2>. HIDE DEF orderly, steps
  <2>. QED BY <1>1 DEF Unexplained
<1>6. PlaceWindows(seats, owner, rows, round).steps = steps
  <2>. HIDE DEF orderly, steps
  <2>. QED BY <1>1, <1>5
<1>7. DOMAIN steps = 1..n
  BY <1>2
<1>8. ASSUME NEW k \in 1..n
      PROVE  /\ steps[k].closes = Closed(seats, {p \in DOMAIN closeAt : closeAt[p] = k}, round)
             /\ OpensOnly(steps[k].opens, owner, {p \in DOMAIN openAt : openAt[p] = k})
  <2>. DEFINE closing == {p \in leaving : out(p) = k}
              opening == {p \in settling : in(p) = k}
  <2>1. HasWindows(rows[k])
    BY <1>2
  <2>2. steps[k] = row(k)
    BY <1>2
  <2>3. row(k).closes = closes(k) /\ row(k).opens = opens(k)
    <3>. HIDE DEF closes, opens
    <3>. QED BY <2>1, WindowsSet
  <2>4. {p \in DOMAIN closeAt : closeAt[p] = k} = closing
    <3>. HIDE DEF leaving
    <3>. QED OBVIOUS
  <2>5. {p \in DOMAIN openAt : openAt[p] = k} = opening
    <3>. HIDE DEF settling
    <3>. QED OBVIOUS
  <2>6. OpensOnly(opens(k), owner, opening)
    <3>. DEFINE open(p) == [member |-> owner[p], player |-> p, fromRound |-> round,
                            via |-> IF rows[k].type = "trade" THEN "trade" ELSE "signing"]
    <3>. HIDE DEF settling
    <3>1. \A p : open(p).player = p /\ open(p).member = owner[p]
      OBVIOUS
    <3>2. opens(k) = {open(p) : p \in opening}
      OBVIOUS
    <3>. HIDE DEF open, opens, opening
    <3>. QED BY <3>1, <3>2 DEF OpensOnly
  <2>7. closes(k) = Closed(seats, closing, round)
    OBVIOUS
  <2>. HIDE DEF steps, row, closing, opening, closes, opens, closeAt, openAt
  <2>. QED BY <2>2, <2>3, <2>4, <2>5, <2>6, <2>7
<1>9. Scheduled(seats, n, steps, round, owner, closeAt, openAt)
  <2>1. DOMAIN closeAt = leaving /\ DOMAIN openAt = settling
    OBVIOUS
  <2>2. leaving \subseteq Seated(seats) /\ settling \cap Seated(seats) \subseteq leaving
        /\ settling \subseteq DOMAIN owner
    OBVIOUS
  <2>3. closeAt \in [leaving -> 1..n] /\ openAt \in [settling -> 1..n]
    <3>1. \A p \in leaving : out(p) \in 1..n
      BY <1>2, <1>3, <1>5
    <3>2. \A p \in settling : in(p) \in 1..n
      BY <1>2, <1>4, <1>5
    <3>. HIDE DEF leaving, settling
    <3>. QED BY <3>1, <3>2
  <2>4. \A p \in leaving \cap settling : closeAt[p] <= openAt[p]
    <3>. HIDE DEF leaving, settling
    <3>. QED BY <1>5
  <2>5. \A s \in seats, p \in settling : s.id # NewSeat(owner, p).id
    BY DEF Recorded, NewSeat
  <2>. HIDE DEF leaving, settling, closeAt, openAt, steps
  <2>. QED BY <1>8, <2>1, <2>2, <2>3, <2>4, <2>5 DEF Scheduled
<1>10. \A s \in seats : HolderOf(seats, s.player) = s.member /\ s.player \in Seated(seats)
  <2>. TAKE s \in seats
  <2>1. s.player \in Seated(seats)
    BY DEF Seated
  <2>2. SeatOf(seats, s.player) \in seats /\ SeatOf(seats, s.player).player = s.player
    BY <2>1, SeatFact
  <2>3. SeatOf(seats, s.player) = s
    BY <2>2 DEF Windows
  <2>. QED BY <2>1, <2>3 DEF HolderOf
<1>11. \A m \in DOMAIN target : \A p : p \in target[m] <=> p \in DOMAIN owner /\ owner[p] = m
  BY DEF OwnersAgree
<1>12. \A p \in DOMAIN owner : owner[p] \in DOMAIN target \/ owner[p] = Nobody
  BY DEF OwnersAgree
<1>13. Explains(seats, owner, closeAt, openAt, target)
  <2>1. DOMAIN closeAt = leaving /\ DOMAIN openAt = settling
    OBVIOUS
  <2>2. ASSUME NEW s \in seats, s.player \notin leaving
        PROVE  s.member \in DOMAIN target /\ s.player \in target[s.member]
    <3>1. s.player \in DOMAIN owner /\ owner[s.player] = s.member
      BY <1>10, <2>2
    <3>2. s.member # Nobody
      BY DEF Recorded
    <3>. QED BY <1>11, <1>12, <3>1, <3>2
  <2>3. ASSUME NEW p \in settling
        PROVE  owner[p] \in DOMAIN target /\ p \in target[owner[p]]
    BY <1>11, <1>12
  <2>4. ASSUME NEW m \in DOMAIN target, NEW p \in target[m]
        PROVE  \/ p \in settling /\ owner[p] = m
               \/ p \notin leaving /\ \E s \in seats : s.player = p /\ s.member = m
    <3>1. p \in DOMAIN owner /\ owner[p] = m /\ m # Nobody
      BY <1>11
    <3>2. CASE p \in moved
      BY <3>1, <3>2
    <3>3. CASE p \notin moved
      <4>1. HolderOf(seats, p) = m
        BY <3>1, <3>3
      <4>2. p \in Seated(seats) /\ SeatOf(seats, p).member = m
        BY <3>1, <4>1 DEF HolderOf
      <4>3. SeatOf(seats, p) \in seats /\ SeatOf(seats, p).player = p
        BY <4>2, SeatFact
      <4>. QED BY <3>3, <4>2, <4>3
    <3>. QED BY <3>2, <3>3
  <2>. HIDE DEF leaving, settling, closeAt, openAt
  <2>. QED BY <2>1, <2>2, <2>3, <2>4 DEF Explains
<1>. HIDE DEF n, steps, closeAt, openAt
<1>14. RostersAgree(ApplyPlans(seats, steps), target)
  BY <1>2, <1>7, <1>9, <1>13, ScheduleReaches
<1>. QED BY <1>6, <1>14

-----------------------------------------------------------------------------
(* The BasketNews log.                                                     *)

(* Replayed, a log tells who owns each of the players it was asked about.  *)
Replays(after, n, events, base, V) ==
  /\ after[0] = base /\ after[n] = FoldLeft(ReplayEvent, base, events)
  /\ \A k \in 0..n : after[k] \in V
  /\ \A k \in 1..n : after[k] = ReplayEvent(after[k - 1], events[k])

LEMMA EventsAreSteps ==
  ASSUME NEW n \in Nat, NEW events, DOMAIN events = 1..n, NEW players, NEW O,
         NEW owner \in [players -> O],
         \A i \in 1..n : events[i].offer \in O /\ events[i].request \in O
  PROVE  \E after : Replays(after, n, events, [owner |-> owner, ok |-> TRUE],
                            [owner : [players -> O], ok : BOOLEAN])
<1>. DEFINE base == [owner |-> owner, ok |-> TRUE]
            V == [owner : [players -> O], ok : BOOLEAN]
            step == [x \in V \X (1..n) |-> ReplayEvent(x[1], events[x[2]])]
            next(f) == [s \in SUBSET (1..n) |->
                          IF s = {} THEN base ELSE ReplayEvent(f[s \ {Max(s)}], events[Max(s)])]
            iter == CHOOSE f : f = next(f)
<1>1. FoldLeft(ReplayEvent, base, events) = iter[1..n]
  BY Zenon DEF FoldLeft, MapThenFoldSet
<1>2. \A x \in V, k \in 1..n : ReplayEvent(x, events[k]) \in V
  <2>. TAKE x \in V, k \in 1..n
  <2>1. DOMAIN x.owner = players /\ \A p \in players : x.owner[p] \in O
    OBVIOUS
  <2>2. (x.ok /\ EventApplies(x.owner, events[k])) \in BOOLEAN
    OBVIOUS
  <2>. QED BY <2>1, <2>2 DEF ReplayEvent
<1>3. base \in V
  OBVIOUS
<1>. HIDE DEF V, base
<1>4. step \in [V \X (1..n) -> V]
  BY <1>2
<1>5. PICK g : Folds(n, V, base, step, g)
  <2>. HIDE DEF step
  <2>. QED BY <1>3, <1>4, FoldExists
<1>6. g = next(g)
  BY <1>5 DEF Folds
<1>. HIDE DEF step
<1>7. iter = next(iter)
  <2>. HIDE DEF next
  <2>. QED BY <1>6
<1>. HIDE DEF iter
<1>. DEFINE S == {k \in 0..n : iter[1..k] \in V}
            after == [k \in 0..n |-> iter[1..k]]
<1>8. 0 \in S /\ iter[1..0] = base
  <2>1. 1..0 = {} /\ {} \in SUBSET (1..n)
    OBVIOUS
  <2>2. iter[{}] = base
    BY <1>7, <2>1
  <2>3. iter[1..0] = base
    BY <2>1, <2>2
  <2>. HIDE DEF next
  <2>. QED BY <1>3, <2>3
<1>9. \A k \in 1..n : iter[1..k] = ReplayEvent(iter[1..k - 1], events[k])
  <2>. TAKE k \in 1..n
  <2>1. /\ 1..k \in SUBSET (1..n) /\ 1..k # {}
        /\ Max(1..k) = k /\ (1..k) \ {k} = 1..k - 1
    BY PrefixFact
  <2>. QED BY <1>7, <2>1
<1>. HIDE DEF next
<1>10. \A k \in 1..n : k - 1 \in S => k \in S
  BY <1>2, <1>9
<1>. HIDE DEF S
<1>11. \A k \in 0..n : k \in S
  BY <1>8, <1>10, Upward
<1>12. \A k \in 0..n : after[k] = iter[1..k] /\ iter[1..k] \in V
  BY <1>11 DEF S
<1>13. \A k \in 1..n : after[k] = iter[1..k] /\ after[k - 1] = iter[1..k - 1]
  OBVIOUS
<1>14. 0 \in 0..n /\ n \in 0..n
  OBVIOUS
<1>. HIDE DEF after
<1>15. \A k \in 1..n : after[k] = ReplayEvent(after[k - 1], events[k])
  BY <1>9, <1>13
<1>16. after[0] = base /\ after[n] = FoldLeft(ReplayEvent, base, events)
  BY <1>1, <1>8, <1>12, <1>14
<1>17. \A k \in 0..n : after[k] \in V
  BY <1>12
<1>18. Replays(after, n, events, base, V)
  BY <1>15, <1>16, <1>17 DEF Replays
<1>. QED BY <1>18 DEF V, base

LEMMA EventsReplayed ==
  ASSUME NEW n \in Nat, NEW events, DOMAIN events = 1..n, NEW players, NEW O,
         NEW owner \in [players -> O],
         \A i \in 1..n : events[i].offer \in O /\ events[i].request \in O
  PROVE  FoldLeft(ReplayEvent, [owner |-> owner, ok |-> TRUE], events)
           \in [owner : [players -> O], ok : BOOLEAN]
<1>. DEFINE base == [owner |-> owner, ok |-> TRUE]
            V == [owner : [players -> O], ok : BOOLEAN]
<1>1. n \in 0..n
  OBVIOUS
<1>2. PICK after : Replays(after, n, events, base, V)
  BY EventsAreSteps
<1>3. after[n] = FoldLeft(ReplayEvent, base, events) /\ \A k \in 0..n : after[k] \in V
  BY <1>2 DEF Replays
<1>. HIDE DEF V, base
<1>4. after[n] \in V
  BY <1>1, <1>3
<1>. QED BY <1>3, <1>4 DEF V, base

LEMMA FlattenedSteps ==
  ASSUME NEW R, NEW seqs \in Seq(Seq(R))
  PROVE  \E after : /\ after[0] = <<>> /\ after[Len(seqs)] = FlattenSeq(seqs)
                    /\ \A k \in 0..Len(seqs) : after[k] \in Seq(R)
                    /\ \A k \in 1..Len(seqs) : after[k] = after[k - 1] \o seqs[k]
<1>. DEFINE n == Len(seqs)
            V == Seq(R)
            step == [x \in V \X (1..n) |-> IF x[2] = 1 THEN seqs[x[2]] ELSE x[1] \o seqs[x[2]]]
            next(f) == [i \in 1..n |-> IF i = 1 THEN seqs[i] ELSE f[i - 1] \o seqs[i]]
            flatten == CHOOSE f : f = next(f)
<1>0. n \in Nat /\ \A i \in 1..n : seqs[i] \in V
  OBVIOUS
<1>1. CASE n = 0
  <2>1. FlattenSeq(seqs) = seqs
    <3>1. Len(seqs) = 0
      BY <1>1
    <3>. HIDE DEF n
    <3>. QED BY <3>1, Zenon DEF FlattenSeq
  <2>2. seqs = <<>> /\ <<>> \in V
    BY <1>1
  <2>. DEFINE after == [k \in 0..n |-> <<>>]
  <2>3. after[0] = <<>> /\ after[n] = <<>> /\ (\A k \in 0..n : after[k] = <<>>) /\ 1..n = {}
    BY <1>1
  <2>. HIDE DEF after
  <2>4. /\ after[0] = <<>> /\ after[n] = FlattenSeq(seqs)
        /\ \A k \in 0..n : after[k] \in V
        /\ \A k \in 1..n : after[k] = after[k - 1] \o seqs[k]
    BY <2>1, <2>2, <2>3
  <2>. QED BY <2>4
<1>2. CASE n # 0
  <2>1. FlattenSeq(seqs) = flatten[n]
    <3>1. Len(seqs) # 0
      BY <1>2
    <3>. QED BY <3>1, Zenon DEF FlattenSeq
  <2>2. step \in [V \X (1..n) -> V]
    <3>1. \A x \in V, k \in 1..n : x \o seqs[k] \in V
      BY <1>0
    <3>. HIDE DEF V, n
    <3>. QED BY <1>0, <3>1
  <2>3. <<>> \in V
    OBVIOUS
  <2>. HIDE DEF V, step
  <2>4. PICK g : Folds(n, V, <<>>, step, g)
    BY <1>0, <2>2, <2>3, FoldExists
  <2>. DEFINE f == [i \in 1..n |-> g[1..i]]
  <2>5. f = next(f)
    <3>1. ASSUME NEW i \in 1..n
          PROVE  g[1..i] = IF i = 1 THEN seqs[i] ELSE g[1..i - 1] \o seqs[i]
      <4>1. /\ 1..i \in SUBSET (1..n) /\ 1..i # {}
            /\ Max(1..i) = i /\ (1..i) \ {i} = 1..i - 1
        BY <1>0, PrefixFact
      <4>2. g[1..i] = step[<<g[1..i - 1], i>>] /\ g[1..i - 1] \in V
        BY <2>4, <4>1 DEF Folds
      <4>. HIDE DEF n
      <4>. QED BY <4>2 DEF step
    <3>2. \A i \in 1..n : i # 1 => i - 1 \in 1..n
      BY <1>0
    <3>. HIDE DEF n
    <3>. QED BY <3>1, <3>2
  <2>6. flatten = next(flatten)
    <3>. HIDE DEF f, next
    <3>. QED BY <2>5
  <2>. HIDE DEF flatten, f, n
  <2>. DEFINE S == {k \in 0..n : k # 0 => flatten[k] \in V}
  <2>7. 0 \in S
    BY <1>0
  <2>8. ASSUME NEW k \in 1..n, k - 1 \in S PROVE k \in S
    <3>1. flatten[k] = IF k = 1 THEN seqs[k] ELSE flatten[k - 1] \o seqs[k]
      BY <2>6
    <3>2. k # 1 => k - 1 # 0 /\ flatten[k - 1] \in V
      BY <1>0, <2>8
    <3>3. flatten[k] \in V
      BY <1>0, <3>1, <3>2 DEF V
    <3>. QED BY <1>0, <3>3
  <2>. HIDE DEF S
  <2>9. \A k \in 0..n : k \in S
    <3>1. \A k \in 1..n : k - 1 \in S => k \in S
      BY <2>8
    <3>. HIDE DEF next
    <3>. QED BY <1>0, <2>7, <3>1, Upward
  <2>. DEFINE after == [k \in 0..n |-> IF k = 0 THEN <<>> ELSE flatten[k]]
  <2>10. \A k \in 1..n : flatten[k] \in V
    <3>1. \A k \in 1..n : k \in 0..n /\ k # 0
      BY <1>0
    <3>. QED BY <2>9, <3>1 DEF S
  <2>11. /\ after[0] = <<>> /\ after[n] = flatten[n]
         /\ \A k \in 1..n : after[k] = flatten[k]
         /\ \A k \in 1..n : k = 1 => after[k - 1] = <<>>
         /\ \A k \in 1..n : k # 1 => after[k - 1] = flatten[k - 1]
         /\ \A k \in 0..n : k # 0 => k \in 1..n
    BY <1>0, <1>2
  <2>. HIDE DEF after
  <2>12. ASSUME NEW k \in 1..n PROVE after[k] = after[k - 1] \o seqs[k]
    <3>1. flatten[k] = IF k = 1 THEN seqs[k] ELSE flatten[k - 1] \o seqs[k]
      BY <2>6
    <3>2. CASE k # 1
      BY <2>11, <3>1, <3>2
    <3>3. CASE k = 1
      <4>1. seqs[k] \in Seq(R)
        BY <1>0 DEF V
      <4>2. <<>> \o seqs[k] = seqs[k]
        BY <4>1
      <4>. QED BY <2>11, <3>1, <3>3, <4>2
    <3>. QED BY <3>2, <3>3
  <2>13. \A k \in 0..n : after[k] \in V
    BY <2>3, <2>10, <2>11
  <2>14. after[0] = <<>> /\ after[n] = FlattenSeq(seqs)
    BY <2>1, <2>11
  <2>. HIDE DEF next
  <2>. QED BY <2>12, <2>13, <2>14 DEF V, n
<1>. QED BY <1>1, <1>2

LEMMA Flattened ==
  ASSUME NEW R, NEW seqs \in Seq(Seq(R))
  PROVE  FlattenSeq(seqs) \in Seq(R)
<1>1. Len(seqs) \in 0..Len(seqs)
  OBVIOUS
<1>. QED BY <1>1, FlattenedSteps

LEMMA RowsHaveWindows ==
  ASSUME NEW round, NEW closes, NEW opens
  PROVE  /\ \A m, out : HasWindows(DropRow(m, out, round, closes))
         /\ \A m, in : HasWindows(AddRow(m, in, round, opens))
         /\ \A a, b, sent, got : HasWindows(TradeRow(a, b, sent, got, round, closes, opens))
BY DEF HasWindows, DropRow, AddRow, TradeRow

LEMMA PickedFact ==
  ASSUME NEW R, NEW seq \in Seq(R), NEW places, places \subseteq DOMAIN seq
  PROVE  Picked(seq, places) \in Seq(R)
<1>. DEFINE order == Ascending(places)
            n == Cardinality(places)
<1>1. Len(seq) \in Nat /\ DOMAIN seq = 1..Len(seq) /\ \A i \in DOMAIN seq : seq[i] \in R
  OBVIOUS
<1>2. places \subseteq Nat /\ IsFiniteSet(places)
  <2>1. 1 \in Int /\ Len(seq) \in Int
    BY <1>1
  <2>2. IsFiniteSet(1..Len(seq))
    BY <2>1, FS_Interval
  <2>. QED BY <1>1, <2>2, FS_Subset
<1>3. n \in Nat /\ order \in [1..n -> places]
  BY <1>2, AscendingFact
<1>4. Picked(seq, places) = [i \in DOMAIN order |-> seq[order[i]]]
  BY Zenon DEF Picked
<1>. HIDE DEF order, n
<1>5. [i \in 1..n |-> seq[order[i]]] \in [1..n -> R]
  BY <1>1, <1>3
<1>. QED BY <1>3, <1>4, <1>5

(* A plan made from the transfers the source announced, where there is one *)
(* (planBasketNewsTransfers in basketnews/transfers.ts), carried out       *)
(* leaves the official rosters, whatever was announced or applied before.  *)
THEOREM TransfersReach ==
  ASSUME NEW seats, Windows(seats), Recorded(seats), NEW target, Nobody \notin DOMAIN target,
         NEW E, NEW log \in Seq(E), NEW appliedIds, NEW round,
         PlanBasketNewsTransfers(round, seats, target, log, appliedIds).ok
  PROVE  RostersAgree(ApplyPlans(seats, PlanBasketNewsTransfers(round, seats, target, log,
                                                                appliedIds).steps),
                      target)
<1>. DEFINE events == Selected(log, LAMBDA event : event.accepted /\ event.id \notin appliedIds)
            places == {i \in DOMAIN log : log[i].accepted /\ log[i].id \notin appliedIds}
            players == Seated(seats) \cup (UNION {target[m] : m \in DOMAIN target})
                         \cup (UNION {ToSet(log[i].sent \o log[i].received) : i \in DOMAIN log})
            owner == Owners(seats, players)
            replay == FoldLeft(ReplayEvent, [owner |-> owner, ok |-> TRUE], events)
            rowsOf(event) == EventRows(round, event)
            rows == FlattenSeq(Mapped(rowsOf, events))
            plan == PlanBasketNewsTransfers(round, seats, target, log, appliedIds)
<1>1. plan = IF ~replay.ok \/ ~OwnersAgree(replay.owner, target) THEN Unexplained
             ELSE PlaceWindows(seats, replay.owner, rows, round)
  BY Zenon DEF PlanBasketNewsTransfers
<1>2. events \in Seq(E)
  <2>1. events = Picked(log, places)
    BY Zenon DEF Selected
  <2>2. places \subseteq DOMAIN log
    OBVIOUS
  <2>. HIDE DEF events, places
  <2>. QED BY <2>1, <2>2, PickedFact
<1>. HIDE DEF events, players
<1>. DEFINE n == Len(events)
            O == {HolderOf(seats, p) : p \in players} \cup {events[i].offer : i \in 1..n}
                   \cup {events[i].request : i \in 1..n}
<1>3. n \in Nat /\ DOMAIN events = 1..n
  BY <1>2
<1>4. owner \in [players -> O]
  BY DEF Owners
<1>5. \A i \in 1..n : events[i].offer \in O /\ events[i].request \in O
  OBVIOUS
<1>. HIDE DEF owner, O
<1>6. replay \in [owner : [players -> O], ok : BOOLEAN]
  BY <1>3, <1>4, <1>5, EventsReplayed
<1>. HIDE DEF replay
<1>. DEFINE drop(e) == DropRow(e.offer, e.sent, round, {})
            add(e) == AddRow(e.offer, e.received, round, {})
            trade(e) == TradeRow(e.offer, e.request, e.sent, e.received, round, {}, {})
            R == {drop(e) : e \in E} \cup {add(e) : e \in E} \cup {trade(e) : e \in E}
<1>7. \A r \in R : HasWindows(r)
  <2>1. \A e \in E : HasWindows(drop(e)) /\ HasWindows(add(e)) /\ HasWindows(trade(e))
    BY RowsHaveWindows
  <2>. HIDE DEF drop, add, trade
  <2>. QED BY <2>1
<1>8. \A e \in E : rowsOf(e) \in Seq(R)
  <2>. TAKE e \in E
  <2>1. rowsOf(e) = IF e.request # Nobody THEN <<trade(e)>> ELSE <<drop(e), add(e)>>
    BY DEF EventRows
  <2>2. drop(e) \in R /\ add(e) \in R /\ trade(e) \in R
    <3>. HIDE DEF drop, add, trade
    <3>. QED OBVIOUS
  <2>. HIDE DEF drop, add, trade, R, rowsOf
  <2>. QED BY <2>1, <2>2
<1>. HIDE DEF R, rowsOf
<1>9. rows \in Seq(R)
  <2>1. Mapped(rowsOf, events) \in Seq(Seq(R))
    <3>1. Mapped(rowsOf, events) = [i \in 1..n |-> rowsOf(events[i])]
      BY <1>3 DEF Mapped
    <3>2. \A i \in 1..n : rowsOf(events[i]) \in Seq(R)
      BY <1>2, <1>8
    <3>3. [i \in 1..n |-> rowsOf(events[i])] \in [1..n -> Seq(R)]
      BY <3>2
    <3>. HIDE DEF n
    <3>. QED BY <1>3, <3>1, <3>3
  <2>. QED BY <2>1, Flattened
<1>. HIDE DEF rows, plan
<1>10. OwnersAgree(replay.owner, target) /\ plan = PlaceWindows(seats, replay.owner, rows, round)
  BY <1>1 DEF Unexplained, plan
<1>11. Seated(seats) \subseteq DOMAIN replay.owner
  BY <1>6 DEF players
<1>12. PlaceWindows(seats, replay.owner, rows, round).ok
  BY <1>10 DEF plan
<1>13. RostersAgree(ApplyPlans(seats, PlaceWindows(seats, replay.owner, rows, round).steps), target)
  BY <1>7, <1>9, <1>10, <1>11, <1>12, PlacedWindowsReach
<1>. QED BY <1>10, <1>13 DEF plan

-----------------------------------------------------------------------------
(* The Fantasy Challenge log.                                              *)

(* What every move leaves as it is, the whole log does.                     *)
LEMMA MovesKeep ==
  ASSUME NEW n \in Nat, NEW L, NEW moves \in [1..n -> L], NEW V, NEW base \in V,
         \A x \in V, move \in L : ReplayMove(x, move) \in V
  PROVE  FoldLeft(ReplayMove, base, moves) \in V
<1>. DEFINE step == [x \in V \X (1..n) |-> ReplayMove(x[1], moves[x[2]])]
            next(f) == [s \in SUBSET (1..n) |->
                          IF s = {} THEN base ELSE ReplayMove(f[s \ {Max(s)}], moves[Max(s)])]
            iter == CHOOSE f : f = next(f)
<1>1. FoldLeft(ReplayMove, base, moves) = iter[1..n]
  BY Zenon DEF FoldLeft, MapThenFoldSet
<1>4. step \in [V \X (1..n) -> V]
  OBVIOUS
<1>5. PICK g : Folds(n, V, base, step, g)
  <2>. HIDE DEF step
  <2>. QED BY <1>4, FoldExists
<1>6. g = next(g)
  BY <1>5 DEF Folds
<1>. HIDE DEF step
<1>7. iter = next(iter)
  <2>. HIDE DEF next
  <2>. QED BY <1>6
<1>. HIDE DEF iter
<1>. DEFINE S == {k \in 0..n : iter[1..k] \in V}
<1>8. 0 \in S
  <2>1. 1..0 = {} /\ {} \in SUBSET (1..n)
    OBVIOUS
  <2>2. iter[{}] = base
    BY <1>7, <2>1
  <2>3. iter[1..0] = base
    BY <2>1, <2>2
  <2>. HIDE DEF next
  <2>. QED BY <2>3
<1>9. ASSUME NEW k \in 1..n, k - 1 \in S PROVE k \in S
  <2>1. /\ 1..k \in SUBSET (1..n) /\ 1..k # {}
        /\ Max(1..k) = k /\ (1..k) \ {k} = 1..k - 1
    BY PrefixFact
  <2>2. iter[1..k] = ReplayMove(iter[1..k - 1], moves[k])
    BY <1>7, <2>1
  <2>. HIDE DEF next
  <2>. QED BY <1>9, <2>2
<1>. HIDE DEF S
<1>10. n \in S
  <2>1. \A k \in 1..n : k - 1 \in S => k \in S
    BY <1>9
  <2>. HIDE DEF next
  <2>2. \A k \in 0..n : k \in S
    BY <1>8, <2>1, Upward
  <2>. QED BY <2>2
<1>. QED BY <1>1, <1>10 DEF S

LEMMA MovesReplayed ==
  ASSUME NEW n \in Nat, NEW L, NEW moves \in [1..n -> L], NEW players, NEW O,
         NEW owner \in [players -> O], \A move \in L : move.member \in O /\ move.to \in O
  PROVE  FoldLeft(ReplayMove, [owner |-> owner, applied |-> <<>>, ok |-> TRUE], moves)
           \in [owner : [players -> O], applied : Seq(L), ok : BOOLEAN]
<1>. DEFINE base == [owner |-> owner, applied |-> <<>>, ok |-> TRUE]
            V == [owner : [players -> O], applied : Seq(L), ok : BOOLEAN]
<1>1. \A x \in V, move \in L : ReplayMove(x, move) \in V
  <2>. TAKE x \in V, move \in L
  <2>. DEFINE given == [x.owner EXCEPT ![move.arrival] = move.member, ![move.departure] = move.to]
              more == Append(x.applied, move)
              still == x.ok /\ AppliedEarlier(x.owner, move)
  <2>1. given \in [players -> O]
    OBVIOUS
  <2>2. more \in Seq(L)
    OBVIOUS
  <2>3. still \in BOOLEAN
    OBVIOUS
  <2>4. ReplayMove(x, move) = IF Ready(x.owner, move)
                              THEN [x EXCEPT !.owner = given, !.applied = more]
                              ELSE [x EXCEPT !.ok = still]
    BY Zenon DEF ReplayMove
  <2>. HIDE DEF given, more, still
  <2>. QED BY <2>1, <2>2, <2>3, <2>4
<1>2. base \in V
  OBVIOUS
<1>. HIDE DEF V, base
<1>3. FoldLeft(ReplayMove, base, moves) \in V
  BY <1>1, <1>2, MovesKeep
<1>. QED BY <1>3 DEF V, base

(* The pairs that traded, in the order of their first trade.               *)
PairsOf(trades) ==
  FoldLeft(LAMBDA acc, move : IF Contains(acc, PairOf(move)) THEN acc
                              ELSE Append(acc, PairOf(move)),
           <<>>, trades)

PairsGrow(after, n, trades, P) ==
  /\ after[0] = <<>> /\ after[n] = PairsOf(trades)
  /\ \A k \in 0..n : after[k] \in Seq(P)
  /\ \A k \in 1..n :
       after[k] = IF Contains(after[k - 1], PairOf(trades[k])) THEN after[k - 1]
                  ELSE Append(after[k - 1], PairOf(trades[k]))

LEMMA PairsAreSteps ==
  ASSUME NEW n \in Nat, NEW L, NEW trades \in [1..n -> L]
  PROVE  \E after : PairsGrow(after, n, trades, {PairOf(move) : move \in L})
<1>. DEFINE P == {PairOf(move) : move \in L}
            V == Seq(P)
            op(acc, move) == IF Contains(acc, PairOf(move)) THEN acc ELSE Append(acc, PairOf(move))
            step == [x \in V \X (1..n) |-> op(x[1], trades[x[2]])]
            next(f) == [s \in SUBSET (1..n) |->
                          IF s = {} THEN <<>> ELSE op(f[s \ {Max(s)}], trades[Max(s)])]
            iter == CHOOSE f : f = next(f)
<1>1. PairsOf(trades) = iter[1..n]
  BY Zenon DEF PairsOf, FoldLeft, MapThenFoldSet
<1>2. \A x \in V, move \in L : op(x, move) \in V
  <2>. TAKE x \in V, move \in L
  <2>1. PairOf(move) \in P
    OBVIOUS
  <2>. HIDE DEF P
  <2>2. Append(x, PairOf(move)) \in V
    BY <2>1
  <2>. HIDE DEF V
  <2>. QED BY <2>2
<1>3. <<>> \in V
  OBVIOUS
<1>. HIDE DEF P, V, op
<1>4. step \in [V \X (1..n) -> V]
  BY <1>2
<1>5. PICK g : Folds(n, V, <<>>, step, g)
  <2>. HIDE DEF step
  <2>. QED BY <1>3, <1>4, FoldExists
<1>6. g = next(g)
  BY <1>5 DEF Folds
<1>. HIDE DEF step
<1>7. iter = next(iter)
  <2>. HIDE DEF next
  <2>. QED BY <1>6
<1>. HIDE DEF iter
<1>. DEFINE S == {k \in 0..n : iter[1..k] \in V}
            after == [k \in 0..n |-> iter[1..k]]
<1>8. 0 \in S /\ iter[1..0] = <<>>
  <2>1. 1..0 = {} /\ {} \in SUBSET (1..n)
    OBVIOUS
  <2>2. iter[{}] = <<>>
    BY <1>7, <2>1
  <2>3. iter[1..0] = <<>>
    BY <2>1, <2>2
  <2>. HIDE DEF next
  <2>. QED BY <1>3, <2>3
<1>9. \A k \in 1..n : iter[1..k] = op(iter[1..k - 1], trades[k])
  <2>. TAKE k \in 1..n
  <2>1. /\ 1..k \in SUBSET (1..n) /\ 1..k # {}
        /\ Max(1..k) = k /\ (1..k) \ {k} = 1..k - 1
    BY PrefixFact
  <2>. QED BY <1>7, <2>1
<1>. HIDE DEF next
<1>10. \A k \in 1..n : k - 1 \in S => k \in S
  BY <1>2, <1>9
<1>. HIDE DEF S
<1>11. \A k \in 0..n : k \in S
  BY <1>8, <1>10, Upward
<1>12. \A k \in 0..n : after[k] = iter[1..k] /\ iter[1..k] \in V
  BY <1>11 DEF S
<1>13. \A k \in 1..n : after[k] = iter[1..k] /\ after[k - 1] = iter[1..k - 1]
  OBVIOUS
<1>14. 0 \in 0..n /\ n \in 0..n
  OBVIOUS
<1>. HIDE DEF after
<1>15. \A k \in 1..n : after[k] = op(after[k - 1], trades[k])
  BY <1>9, <1>13
<1>16. \A k \in 1..n : after[k] = IF Contains(after[k - 1], PairOf(trades[k])) THEN after[k - 1]
                                   ELSE Append(after[k - 1], PairOf(trades[k]))
  BY <1>15 DEF op
<1>17. after[0] = <<>> /\ after[n] = PairsOf(trades) /\ \A k \in 0..n : after[k] \in Seq(P)
  BY <1>1, <1>8, <1>12, <1>14 DEF V
<1>18. PairsGrow(after, n, trades, P)
  BY <1>16, <1>17 DEF PairsGrow
<1>. QED BY <1>18 DEF P

LEMMA PairsFact ==
  ASSUME NEW n \in Nat, NEW L, NEW trades \in [1..n -> L]
  PROVE  PairsOf(trades) \in Seq({PairOf(move) : move \in L})
<1>. DEFINE P == {PairOf(move) : move \in L}
<1>1. n \in 0..n
  OBVIOUS
<1>2. PICK after : PairsGrow(after, n, trades, P)
  BY PairsAreSteps
<1>. HIDE DEF P
<1>3. PairsOf(trades) \in Seq(P)
  BY <1>1, <1>2 DEF PairsGrow
<1>. QED BY <1>3 DEF P

LEMMA LoggedRowsFact ==
  ASSUME NEW L, \A move \in L : move.member \in Nat, NEW applied \in Seq(L), NEW round
  PROVE  \E R : (\A r \in R : HasWindows(r)) /\ LoggedRows(round, applied) \in Seq(R)
<1>. DEFINE trades == Selected(applied, LAMBDA move : move.to # Nobody)
            places == {i \in DOMAIN applied : applied[i].to # Nobody}
            free(m) == Selected(applied, LAMBDA move : move.to = Nobody /\ move.member = m)
            pairs == FoldLeft(LAMBDA acc, move : IF Contains(acc, PairOf(move)) THEN acc
                                                 ELSE Append(acc, PairOf(move)),
                              <<>>, trades)
            dealing == {applied[i].member : i \in {j \in DOMAIN applied : applied[j].to = Nobody}}
            dealers == Ascending(dealing)
            of(pair) == Selected(trades, LAMBDA move : PairOf(move) = pair)
            tradeRow(pair) ==
              TradeRow(pair[1], pair[2],
                       Mapped(LAMBDA move : IF move.member = pair[1] THEN move.departure
                                            ELSE move.arrival, of(pair)),
                       Mapped(LAMBDA move : IF move.member = pair[1] THEN move.arrival
                                            ELSE move.departure, of(pair)),
                       round, {}, {})
            dropRow(m) == DropRow(m, Mapped(LAMBDA move : move.departure, free(m)), round, {})
            addRow(m)  == AddRow(m, Mapped(LAMBDA move : move.arrival, free(m)), round, {})
            P == {PairOf(move) : move \in L}
            drops == Mapped(dropRow, dealers)
            swaps == Mapped(tradeRow, pairs)
            adds == Mapped(addRow, dealers)
            R == {dropRow(m) : m \in dealing} \cup {tradeRow(p) : p \in P} \cup {addRow(m) : m \in dealing}
<1>1. LoggedRows(round, applied) = drops \o swaps \o adds
  BY Zenon DEF LoggedRows
<1>2. trades \in Seq(L)
  <2>1. trades = Picked(applied, places)
    BY Zenon DEF Selected
  <2>2. places \subseteq DOMAIN applied
    OBVIOUS
  <2>. HIDE DEF trades, places
  <2>. QED BY <2>1, <2>2, PickedFact
<1>3. pairs \in Seq(P)
  <2>1. pairs = PairsOf(trades)
    BY Zenon DEF PairsOf
  <2>. HIDE DEF trades, pairs, P
  <2>2. Len(trades) \in Nat /\ trades \in [1..Len(trades) -> L]
    BY <1>2
  <2>3. PairsOf(trades) \in Seq(P)
    BY <2>2, PairsFact DEF P
  <2>. QED BY <2>1, <2>3
<1>4. dealers \in Seq(dealing)
  <2>1. Len(applied) \in Nat /\ DOMAIN applied = 1..Len(applied)
        /\ \A i \in DOMAIN applied : applied[i] \in L
    OBVIOUS
  <2>2. dealing \subseteq Nat
    BY <2>1
  <2>3. IsFiniteSet(dealing)
    <3>. DEFINE J == {j \in DOMAIN applied : applied[j].to = Nobody}
    <3>1. 1 \in Int /\ Len(applied) \in Int
      BY <2>1
    <3>2. IsFiniteSet(1..Len(applied))
      BY <3>1, FS_Interval
    <3>3. IsFiniteSet(J)
      BY <2>1, <3>2, FS_Subset
    <3>. DEFINE f == [j \in J |-> applied[j].member]
    <3>4. f \in [J -> dealing] /\ \A m \in dealing : \E j \in J : f[j] = m
      OBVIOUS
    <3>. HIDE DEF J, f, dealing
    <3>5. f \in Surjection(J, dealing)
      BY <3>4 DEF Surjection
    <3>. QED BY <3>3, <3>5, FS_Surjection
  <2>. HIDE DEF dealing, dealers
  <2>4. Cardinality(dealing) \in Nat /\ Ascending(dealing) \in [1..Cardinality(dealing) -> dealing]
    BY <2>2, <2>3, AscendingFact
  <2>. QED BY <2>4 DEF dealers
<1>. HIDE DEF dealers, pairs, dealing, trades, free, of
<1>5. \A r \in R : HasWindows(r)
  <2>1. \A m : HasWindows(dropRow(m)) /\ HasWindows(addRow(m))
    BY RowsHaveWindows
  <2>2. \A p : HasWindows(tradeRow(p))
    BY RowsHaveWindows
  <2>. HIDE DEF dropRow, addRow, tradeRow
  <2>. QED BY <2>1, <2>2
<1>6. /\ \A m \in dealing : dropRow(m) \in R /\ addRow(m) \in R
      /\ \A p \in P : tradeRow(p) \in R
  <2>. HIDE DEF dropRow, addRow, tradeRow, P
  <2>. QED OBVIOUS
<1>. HIDE DEF dropRow, addRow, tradeRow, P, R
<1>7. drops \in Seq(R) /\ adds \in Seq(R)
  <2>1. Len(dealers) \in Nat /\ DOMAIN dealers = 1..Len(dealers)
        /\ \A i \in 1..Len(dealers) : dealers[i] \in dealing
    BY <1>4
  <2>2. /\ [i \in 1..Len(dealers) |-> dropRow(dealers[i])] \in [1..Len(dealers) -> R]
        /\ [i \in 1..Len(dealers) |-> addRow(dealers[i])] \in [1..Len(dealers) -> R]
    BY <1>6, <2>1
  <2>. QED BY <2>1, <2>2 DEF Mapped
<1>8. swaps \in Seq(R)
  <2>1. Len(pairs) \in Nat /\ DOMAIN pairs = 1..Len(pairs)
        /\ \A i \in 1..Len(pairs) : pairs[i] \in P
    BY <1>3
  <2>2. [i \in 1..Len(pairs) |-> tradeRow(pairs[i])] \in [1..Len(pairs) -> R]
    BY <1>6, <2>1
  <2>. QED BY <2>1, <2>2 DEF Mapped
<1>. HIDE DEF drops, adds, swaps
<1>9. drops \o swaps \o adds \in Seq(R)
  BY <1>7, <1>8
<1>. QED BY <1>1, <1>5, <1>9

(* A plan made from the moves the source logged, where there is one        *)
(* (planFromLog in fantasy/plan.ts), carried out leaves the official       *)
(* rosters, whatever was logged: any length, any order, contradictions.    *)
THEOREM LogReaches ==
  ASSUME NEW seats, Windows(seats), Recorded(seats), NEW target, Nobody \notin DOMAIN target,
         NEW L, \A move \in L : move.member \in Nat, NEW log \in Seq(L), NEW round,
         PlanFromLog(round, seats, target, log).ok
  PROVE  RostersAgree(ApplyPlans(seats, PlanFromLog(round, seats, target, log).steps), target)
<1>. DEFINE players == Seated(seats) \cup (UNION {target[m] : m \in DOMAIN target})
                         \cup (UNION {{log[i].arrival, log[i].departure} : i \in DOMAIN log})
            owner == Owners(seats, players)
            replay == FoldLeft(ReplayMove, [owner |-> owner, applied |-> <<>>, ok |-> TRUE], log)
            rows == LoggedRows(round, replay.applied)
            plan == PlanFromLog(round, seats, target, log)
            n == Len(log)
            O == {HolderOf(seats, p) : p \in players} \cup {move.member : move \in L}
                   \cup {move.to : move \in L}
<1>1. plan = IF ~replay.ok \/ ~OwnersAgree(replay.owner, target) THEN Unexplained
             ELSE PlaceWindows(seats, replay.owner, rows, round)
  BY Zenon DEF PlanFromLog
<1>. HIDE DEF players
<1>2. n \in Nat /\ log \in [1..n -> L]
  OBVIOUS
<1>3. owner \in [players -> O]
  BY DEF Owners
<1>4. \A move \in L : move.member \in O /\ move.to \in O
  OBVIOUS
<1>. HIDE DEF owner, O, n
<1>5. replay \in [owner : [players -> O], applied : Seq(L), ok : BOOLEAN]
  BY <1>2, <1>3, <1>4, MovesReplayed
<1>. HIDE DEF replay
<1>6. PICK R : (\A r \in R : HasWindows(r)) /\ rows \in Seq(R)
  <2>1. replay.applied \in Seq(L)
    BY <1>5
  <2>. QED BY <2>1, LoggedRowsFact
<1>. HIDE DEF rows, plan
<1>7. OwnersAgree(replay.owner, target) /\ plan = PlaceWindows(seats, replay.owner, rows, round)
  BY <1>1 DEF Unexplained, plan
<1>8. Seated(seats) \subseteq DOMAIN replay.owner
  BY <1>5 DEF players
<1>9. PlaceWindows(seats, replay.owner, rows, round).ok
  BY <1>7 DEF plan
<1>10. RostersAgree(ApplyPlans(seats, PlaceWindows(seats, replay.owner, rows, round).steps), target)
  BY <1>6, <1>7, <1>8, <1>9, PlacedWindowsReach
<1>. QED BY <1>7, <1>10 DEF plan

-----------------------------------------------------------------------------
(* The difference of two rosters.                                          *)

(* Whom each row takes off a roster and whom it puts on one: each player   *)
(* in one row at most, off one before he is put on another.                *)
Apart(n, named) == \A i, j \in 1..n : i # j => named[i] \cap named[j] = {}

Arranged(seats, n, plans, round, owner, outs, ins) ==
  /\ \A k \in 1..n :
       /\ outs[k] \subseteq Seated(seats)
       /\ plans[k].closes = Closed(seats, outs[k], round)
       /\ OpensOnly(plans[k].opens, owner, ins[k])
       /\ \A p \in ins[k] : p \in Seated(seats) => \E j \in 1..n : p \in outs[j]
       /\ \A p \in ins[k] : owner[p] # Nobody
  /\ Apart(n, outs) /\ Apart(n, ins)
  /\ \A i, j \in 1..n : \A p \in outs[i] \cap ins[j] : i <= j

(* The row a player is named in.                                           *)
RowOf(n, named, at) ==
  /\ at \in [UNION {named[k] : k \in 1..n} -> 1..n]
  /\ \A k \in 1..n : {p \in DOMAIN at : at[p] = k} = named[k]

LEMMA RowOfFact ==
  ASSUME NEW n \in Nat, NEW named, Apart(n, named)
  PROVE  \E at : RowOf(n, named, at)
<1>. DEFINE all == UNION {named[k] : k \in 1..n}
            at == [p \in all |-> CHOOSE k \in 1..n : p \in named[k]]
<1>1. \A p : p \in all <=> \E k \in 1..n : p \in named[k]
  OBVIOUS
<1>2. \A p \in all : at[p] \in 1..n /\ p \in named[at[p]]
  <2>. TAKE p \in all
  <2>. DEFINE k == CHOOSE k \in 1..n : p \in named[k]
  <2>1. at[p] = k
    OBVIOUS
  <2>2. k \in 1..n /\ p \in named[k]
    BY <1>1
  <2>. HIDE DEF at, k
  <2>. QED BY <2>1, <2>2
<1>3. DOMAIN at = all /\ at = [p \in all |-> at[p]]
  OBVIOUS
<1>. HIDE DEF at, all
<1>4. at \in [all -> 1..n]
  BY <1>2, <1>3
<1>5. ASSUME NEW k \in 1..n PROVE {p \in DOMAIN at : at[p] = k} = named[k]
  <2>1. ASSUME NEW p \in named[k] PROVE p \in all /\ at[p] = k
    <3>1. p \in all
      BY <1>1
    <3>2. at[p] \in 1..n /\ p \in named[at[p]]
      BY <1>2, <3>1
    <3>. QED BY <3>1, <3>2 DEF Apart
  <2>. QED BY <1>2, <1>3, <2>1
<1>6. RowOf(n, named, at)
  BY <1>4, <1>5 DEF all, RowOf
<1>. QED BY <1>6

LEMMA ArrangedReaches ==
  ASSUME NEW seats, Windows(seats), Recorded(seats), NEW n \in Nat, NEW plans,
         DOMAIN plans = 1..n, NEW round, NEW owner, NEW outs, NEW ins, NEW target,
         Arranged(seats, n, plans, round, owner, outs, ins),
         /\ \A s \in seats : (\A k \in 1..n : s.player \notin outs[k]) =>
                s.member \in DOMAIN target /\ s.player \in target[s.member]
         /\ \A k \in 1..n : \A p \in ins[k] : owner[p] \in DOMAIN target /\ p \in target[owner[p]]
         /\ \A m \in DOMAIN target : \A p \in target[m] :
              \/ owner[p] = m /\ \E k \in 1..n : p \in ins[k]
              \/ /\ \A k \in 1..n : p \notin outs[k]
                 /\ \E s \in seats : s.player = p /\ s.member = m
  PROVE  RostersAgree(ApplyPlans(seats, plans), target)
<1>1. Apart(n, outs) /\ Apart(n, ins)
  BY DEF Arranged
<1>2. PICK closeAt : RowOf(n, outs, closeAt)
  BY <1>1, RowOfFact
<1>3. PICK openAt : RowOf(n, ins, openAt)
  BY <1>1, RowOfFact
<1>4. /\ \A p : p \in DOMAIN closeAt <=> \E k \in 1..n : p \in outs[k]
      /\ \A p : p \in DOMAIN openAt <=> \E k \in 1..n : p \in ins[k]
  BY <1>2, <1>3 DEF RowOf
<1>5. /\ \A p \in DOMAIN closeAt : closeAt[p] \in 1..n /\ p \in outs[closeAt[p]]
      /\ \A p \in DOMAIN openAt : openAt[p] \in 1..n /\ p \in ins[openAt[p]]
  BY <1>2, <1>3 DEF RowOf
<1>6. Scheduled(seats, n, plans, round, owner, closeAt, openAt)
  <2>1. /\ DOMAIN closeAt \subseteq Seated(seats)
        /\ DOMAIN openAt \cap Seated(seats) \subseteq DOMAIN closeAt
        /\ \A p \in DOMAIN closeAt \cap DOMAIN openAt : closeAt[p] <= openAt[p]
    BY <1>4, <1>5 DEF Arranged
  <2>2. closeAt \in [DOMAIN closeAt -> 1..n] /\ openAt \in [DOMAIN openAt -> 1..n]
    BY <1>2, <1>3 DEF RowOf
  <2>3. \A s \in seats, p \in DOMAIN openAt : s.id # NewSeat(owner, p).id
    <3>1. \A p \in DOMAIN openAt : owner[p] # Nobody
      BY <1>4 DEF Arranged
    <3>. QED BY <3>1 DEF Recorded, NewSeat
  <2>4. \A k \in 1..n :
          /\ plans[k].closes = Closed(seats, {p \in DOMAIN closeAt : closeAt[p] = k}, round)
          /\ OpensOnly(plans[k].opens, owner, {p \in DOMAIN openAt : openAt[p] = k})
    <3>. TAKE k \in 1..n
    <3>1. {p \in DOMAIN closeAt : closeAt[p] = k} = outs[k]
      BY <1>2 DEF RowOf
    <3>2. {p \in DOMAIN openAt : openAt[p] = k} = ins[k]
      BY <1>3 DEF RowOf
    <3>3. plans[k].closes = Closed(seats, outs[k], round) /\ OpensOnly(plans[k].opens, owner, ins[k])
      BY DEF Arranged
    <3>. QED BY <3>1, <3>2, <3>3
  <2>. QED BY <2>1, <2>2, <2>3, <2>4 DEF Scheduled
<1>7. Explains(seats, owner, closeAt, openAt, target)
  BY <1>4 DEF Explains
<1>. QED BY <1>6, <1>7, ScheduleReaches

(* Three lists of rows, one after the other.                               *)
Listed(n, a) == a = [i \in 1..n |-> a[i]]

Follow(n1, n2, n3, a, b, c, all) ==
  /\ DOMAIN all = 1..n1 + n2 + n3
  /\ \A k \in 1..n1 : all[k] = a[k]
  /\ \A k \in n1 + 1..n1 + n2 : all[k] = b[k - n1]
  /\ \A k \in n1 + n2 + 1..n1 + n2 + n3 : all[k] = c[k - n1 - n2]

Joined(a, b, all) ==
  /\ Len(all) = Len(a) + Len(b)
  /\ \A k \in 1..Len(a) : all[k] = a[k]
  /\ \A k \in Len(a) + 1..Len(a) + Len(b) : all[k] = b[k - Len(a)]

LEMMA TwoLists ==
  ASSUME NEW R, NEW a \in Seq(R), NEW b \in Seq(R)
  PROVE  a \o b \in Seq(R) /\ Joined(a, b, a \o b)
<1>1. a \o b \in Seq(R) /\ Len(a \o b) = Len(a) + Len(b)
  OBVIOUS
<1>2. ASSUME NEW k \in 1..Len(a) PROVE (a \o b)[k] = a[k]
  OBVIOUS
<1>3. ASSUME NEW k \in Len(a) + 1..Len(a) + Len(b) PROVE (a \o b)[k] = b[k - Len(a)]
  OBVIOUS
<1>. QED BY <1>1, <1>2, <1>3 DEF Joined

LEMMA ThreeLists ==
  ASSUME NEW n1 \in Nat, NEW n2 \in Nat, NEW n3 \in Nat, NEW a, NEW b, NEW c,
         Listed(n1, a), Listed(n2, b), Listed(n3, c)
  PROVE  Follow(n1, n2, n3, a, b, c, a \o b \o c)
<1>. DEFINE R == {a[i] : i \in 1..n1} \cup {b[i] : i \in 1..n2} \cup {c[i] : i \in 1..n3}
            ab == a \o b
            all == ab \o c
<1>1. a \in [1..n1 -> R] /\ b \in [1..n2 -> R] /\ c \in [1..n3 -> R]
  <2>1. /\ \A i \in 1..n1 : a[i] \in R
        /\ \A i \in 1..n2 : b[i] \in R
        /\ \A i \in 1..n3 : c[i] \in R
    OBVIOUS
  <2>. HIDE DEF R
  <2>. QED BY <2>1 DEF Listed
<1>. HIDE DEF R
<1>2. a \in Seq(R) /\ b \in Seq(R) /\ c \in Seq(R)
      /\ Len(a) = n1 /\ Len(b) = n2 /\ Len(c) = n3
  BY <1>1
<1>3. /\ ab \in Seq(R) /\ Len(ab) = n1 + n2
      /\ \A k \in 1..n1 : ab[k] = a[k]
      /\ \A k \in n1 + 1..n1 + n2 : ab[k] = b[k - n1]
  <2>1. ab \in Seq(R) /\ Joined(a, b, ab)
    BY <1>2, TwoLists
  <2>. HIDE DEF ab
  <2>. QED BY <1>2, <2>1 DEF Joined
<1>. HIDE DEF ab
<1>4. /\ Len(all) = n1 + n2 + n3 /\ all \in Seq(R)
      /\ \A k \in 1..n1 + n2 : all[k] = ab[k]
      /\ \A k \in n1 + n2 + 1..n1 + n2 + n3 : all[k] = c[k - (n1 + n2)]
  <2>1. all \in Seq(R) /\ Joined(ab, c, all)
    BY <1>2, <1>3, TwoLists
  <2>. HIDE DEF all
  <2>. QED BY <1>2, <1>3, <2>1 DEF Joined
<1>. HIDE DEF all
<1>5. DOMAIN all = 1..n1 + n2 + n3
  BY <1>4
<1>6. \A k \in 1..n1 : all[k] = a[k]
  <2>1. \A k \in 1..n1 : k \in 1..n1 + n2
    OBVIOUS
  <2>. QED BY <1>3, <1>4, <2>1
<1>7. \A k \in n1 + 1..n1 + n2 : all[k] = b[k - n1]
  <2>1. \A k \in n1 + 1..n1 + n2 : k \in 1..n1 + n2
    OBVIOUS
  <2>. QED BY <1>3, <1>4, <2>1
<1>8. \A k \in n1 + n2 + 1..n1 + n2 + n3 : all[k] = c[k - n1 - n2]
  <2>1. \A k \in n1 + n2 + 1..n1 + n2 + n3 : k - (n1 + n2) = k - n1 - n2
    OBVIOUS
  <2>. QED BY <1>4, <2>1
<1>. QED BY <1>5, <1>6, <1>7, <1>8 DEF all, ab, Follow

(* Rosters a sync can compare: everybody is on one of the teams known, and *)
(* nobody is on two.                                                       *)
Comparable(seats, target) ==
  /\ Windows(seats) /\ Recorded(seats) /\ Plannable(seats, target)
  /\ DOMAIN target \subseteq Nat \ {Nobody} /\ IsFiniteSet(DOMAIN target)

Released(seats, target, m) == Leaving(seats, target, m) \ TradedPlayers(seats, target)
Acquired(seats, target, m) == Arriving(seats, target, m) \ TradedPlayers(seats, target)
Between(seats, target, p) == Flow(seats, target, p[1], p[2]) \cup Flow(seats, target, p[2], p[1])

OwnerIn(target) ==
  [p \in UNION {target[m] : m \in DOMAIN target} |-> CHOOSE m \in DOMAIN target : p \in target[m]]

LEMMA OwnerFact ==
  ASSUME NEW seats, NEW target, Plannable(seats, target), NEW m \in DOMAIN target, NEW p \in target[m]
  PROVE  OwnerIn(target)[p] = m
<1>. DEFINE owner == CHOOSE o \in DOMAIN target : p \in target[o]
<1>1. p \in UNION {target[o] : o \in DOMAIN target}
  OBVIOUS
<1>2. OwnerIn(target)[p] = owner
  BY <1>1 DEF OwnerIn
<1>3. owner \in DOMAIN target /\ p \in target[owner]
  OBVIOUS
<1>. HIDE DEF owner
<1>. QED BY <1>2, <1>3 DEF Plannable

LEMMA HolderFact ==
  ASSUME NEW seats, Windows(seats), NEW m, NEW p
  PROVE  p \in HeldBy(seats, m) <=> p \in Seated(seats) /\ SeatOf(seats, p).member = m
<1>1. ASSUME p \in HeldBy(seats, m) PROVE p \in Seated(seats) /\ SeatOf(seats, p).member = m
  <2>1. PICK s \in seats : s.member = m /\ s.player = p
    BY <1>1 DEF HeldBy
  <2>2. p \in Seated(seats)
    BY <2>1 DEF Seated
  <2>3. SeatOf(seats, p) \in seats /\ SeatOf(seats, p).player = p
    BY <2>2, SeatFact
  <2>4. SeatOf(seats, p) = s
    BY <2>1, <2>3 DEF Windows
  <2>. QED BY <2>1, <2>2, <2>4
<1>2. ASSUME p \in Seated(seats), SeatOf(seats, p).member = m PROVE p \in HeldBy(seats, m)
  <2>1. SeatOf(seats, p) \in seats /\ SeatOf(seats, p).player = p
    BY <1>2, SeatFact
  <2>. QED BY <1>2, <2>1 DEF HeldBy
<1>. QED BY <1>1, <1>2

(* In which row a player stands, told by who holds him and who is to.      *)
Holder(seats, p) == SeatOf(seats, p).member

Leaves(seats, target, p, m) ==
  p \in Seated(seats) /\ Holder(seats, p) = m /\ p \notin target[m]

Arrives(seats, target, p, m) ==
  p \in target[m] /\ ~(p \in Seated(seats) /\ Holder(seats, p) = m)

LEMMA AloneFact ==
  ASSUME NEW seats, NEW target, Comparable(seats, target), NEW p, NEW m \in DOMAIN target
  PROVE  /\ p \in Released(seats, target, m)
              <=> Leaves(seats, target, p, m) /\ p \notin TradedPlayers(seats, target)
         /\ p \in Acquired(seats, target, m)
              <=> Arrives(seats, target, p, m) /\ p \notin TradedPlayers(seats, target)
         /\ p \in target[m] => OwnerIn(target)[p] = m
<1>1. p \in HeldBy(seats, m) <=> p \in Seated(seats) /\ Holder(seats, p) = m
  BY HolderFact DEF Comparable, Holder
<1>2. p \in target[m] => OwnerIn(target)[p] = m
  BY OwnerFact DEF Comparable
<1>. QED BY <1>1, <1>2 DEF Released, Acquired, Leaving, Arriving, Leaves, Arrives

LEMMA TradedFact ==
  ASSUME NEW seats, NEW target, Comparable(seats, target), NEW p
  PROVE  p \in TradedPlayers(seats, target)
           <=> \E q \in Trading(seats, target) : p \in Between(seats, target, q)
BY DEF TradedPlayers, Between

LEMMA BetweenFact ==
  ASSUME NEW seats, NEW target, Comparable(seats, target),
         NEW q \in Trading(seats, target), NEW p \in Between(seats, target, q)
  PROVE  /\ q[1] \in DOMAIN target /\ q[2] \in DOMAIN target /\ q = <<q[1], q[2]>>
         /\ q[1] \in Nat /\ q[2] \in Nat /\ q[1] < q[2]
         /\ {q[1], q[2]} = {Holder(seats, p), OwnerIn(target)[p]}
         /\ Leaves(seats, target, p, Holder(seats, p))
         /\ Arrives(seats, target, p, OwnerIn(target)[p])
         /\ p \in Flow(seats, target, q[1], q[2]) => OwnerIn(target)[p] = q[2]
         /\ p \in Flow(seats, target, q[2], q[1]) => OwnerIn(target)[p] = q[1]
<1>. DEFINE h == Holder(seats, p)
            o == OwnerIn(target)[p]
            a == q[1]
            b == q[2]
<1>1. /\ a \in DOMAIN target /\ b \in DOMAIN target /\ a < b /\ q = <<a, b>>
  BY DEF Trading
<1>2. a \in Nat /\ b \in Nat
  BY <1>1 DEF Comparable
<1>3. \A c, d : p \in Flow(seats, target, c, d) => /\ p \in Seated(seats) /\ h = c
                                                   /\ p \notin target[c] /\ p \in target[d]
  <2>1. \A m : p \in HeldBy(seats, m) => p \in Seated(seats) /\ h = m
    BY HolderFact DEF Comparable, Holder
  <2>. HIDE DEF h
  <2>. QED BY <2>1 DEF Flow, Leaving
<1>4. \A m \in DOMAIN target : p \in target[m] => o = m
  BY OwnerFact DEF Comparable
<1>5. p \in Flow(seats, target, a, b) \/ p \in Flow(seats, target, b, a)
  BY DEF Between
<1>. HIDE DEF h, o, a, b
<1>6. CASE p \in Flow(seats, target, a, b)
  <2>1. h = a /\ o = b /\ p \in Seated(seats) /\ p \notin target[a] /\ p \in target[b] /\ a # b
    BY <1>1, <1>2, <1>3, <1>4, <1>6
  <2>. QED BY <1>1, <1>2, <1>3, <1>4, <2>1 DEF h, o, a, b, Leaves, Arrives
<1>7. CASE p \in Flow(seats, target, b, a)
  <2>1. h = b /\ o = a /\ p \in Seated(seats) /\ p \notin target[b] /\ p \in target[a] /\ a # b
    BY <1>1, <1>2, <1>3, <1>4, <1>7
  <2>. QED BY <1>1, <1>2, <1>3, <1>4, <2>1 DEF h, o, a, b, Leaves, Arrives
<1>. QED BY <1>5, <1>6, <1>7

(* A list of a set names each member once.                                 *)
Lists(n, list, S) ==
  /\ n \in Nat /\ list \in [1..n -> S]
  /\ \A x \in S : \E i \in 1..n : list[i] = x
  /\ \A i, j \in 1..n : list[i] = list[j] => i = j

LEMMA AscendingLists ==
  ASSUME NEW S, S \subseteq Nat, IsFiniteSet(S)
  PROVE  Lists(Cardinality(S), Ascending(S), S)
<1>. DEFINE n == Cardinality(S)
            listed == Ascending(S)
<1>1. /\ n \in Nat /\ listed \in [1..n -> S]
      /\ \A x \in S : \E i \in 1..n : listed[i] = x
      /\ \A i, j \in 1..n : i < j <=> listed[i] < listed[j]
  BY AscendingFact
<1>. HIDE DEF n, listed
<1>2. ASSUME NEW i \in 1..n, NEW j \in 1..n, listed[i] = listed[j] PROVE i = j
  <2>1. i \in Nat /\ j \in Nat
    OBVIOUS
  <2>2. listed[i] \in S
    BY <1>1
  <2>3. listed[i] \in Nat
    BY <2>2
  <2>4. ~(i < j) /\ ~(j < i)
    BY <1>1, <1>2, <2>3
  <2>. QED BY <2>1, <2>4
<1>3. Lists(n, listed, S)
  BY <1>1, <1>2 DEF Lists
<1>. QED BY <1>3 DEF n, listed

LEMMA TradingLists ==
  ASSUME NEW seats, NEW target, Comparable(seats, target)
  PROVE  Lists(Cardinality(Trading(seats, target)), TradingPairs(seats, target), Trading(seats, target))
<1>. DEFINE pairs == Trading(seats, target)
            below == [p \in pairs |-> {q \in pairs : q[1] < p[1] \/ (q[1] = p[1] /\ q[2] < p[2])}]
<1>1. pairs \subseteq (DOMAIN target) \X (DOMAIN target)
  BY DEF Trading
<1>2. IsFiniteSet(pairs)
  <2>1. IsFiniteSet((DOMAIN target) \X (DOMAIN target))
    BY FS_Product DEF Comparable
  <2>. QED BY <1>1, <2>1, FS_Subset
<1>3. TradingPairs(seats, target) = InOrder(pairs, below)
  BY DEF TradingPairs
<1>. HIDE DEF pairs
<1>4. pairs \subseteq Nat \X Nat
  <2>1. DOMAIN target \subseteq Nat
    BY DEF Comparable
  <2>. QED BY <1>1, <2>1
<1>. DEFINE n == Cardinality(pairs)
            listed == InOrder(pairs, below)
<1>5. /\ n \in Nat /\ listed \in [1..n -> pairs]
      /\ \A x \in pairs : \E i \in 1..n : listed[i] = x
      /\ \A i, j \in 1..n : listed[i] = listed[j] => i = j
  BY <1>2, <1>4, PairsInOrderFact
<1>. HIDE DEF n, listed
<1>6. Lists(n, listed, pairs)
  BY <1>5 DEF Lists
<1>. QED BY <1>3, <1>6 DEF pairs, n, listed

(* The rows of a sync: a release per team that gives players up, a trade   *)
(* per pair that exchanges some, a signing per team that takes players on. *)
SyncRows(seats, target, round, plans, n1, n2, n3, D, T, A) ==
  /\ Lists(n1, D, {m \in DOMAIN target : Released(seats, target, m) # {}})
  /\ Lists(n2, T, Trading(seats, target))
  /\ Lists(n3, A, {m \in DOMAIN target : Acquired(seats, target, m) # {}})
  /\ DOMAIN plans = 1..n1 + n2 + n3
  /\ \A k \in 1..n1 :
       plans[k].closes = Closed(seats, Released(seats, target, D[k]), round) /\ plans[k].opens = {}
  /\ \A i \in 1..n2 :
       LET q == T[i]
           sent == Flow(seats, target, q[1], q[2])
           received == Flow(seats, target, q[2], q[1])
       IN  /\ plans[n1 + i].closes = Closed(seats, Between(seats, target, q), round)
           /\ plans[n1 + i].opens = Opened(q[2], sent, round, "trade")
                                      \cup Opened(q[1], received, round, "trade")
  /\ \A i \in 1..n3 :
       /\ plans[n1 + n2 + i].closes = {}
       /\ plans[n1 + n2 + i].opens = Opened(A[i], Acquired(seats, target, A[i]), round, "signing")

LEMMA SyncRowsFact ==
  ASSUME NEW seats, NEW target, Comparable(seats, target), NEW round
  PROVE  \E n1, n2, n3, D, T, A :
           SyncRows(seats, target, round, PlanSync(round, seats, target), n1, n2, n3, D, T, A)
<1>. DEFINE released(m) == Released(seats, target, m)
            acquired(m) == Acquired(seats, target, m)
            flow(a, b) == Flow(seats, target, a, b)
            giving == {m \in DOMAIN target : released(m) # {}}
            taking == {m \in DOMAIN target : acquired(m) # {}}
            D == Ascending(giving)
            T == TradingPairs(seats, target)
            A == Ascending(taking)
            n1 == Cardinality(giving)
            n2 == Cardinality(Trading(seats, target))
            n3 == Cardinality(taking)
            dropRow(m) == DropRow(m, Ascending(released(m)), round, Closed(seats, released(m), round))
            addRow(m) == AddRow(m, Ascending(acquired(m)), round, Opened(m, acquired(m), round, "signing"))
            tradeRow(p) == TradeRow(p[1], p[2], Ascending(flow(p[1], p[2])), Ascending(flow(p[2], p[1])),
                                    round, Closed(seats, flow(p[1], p[2]) \cup flow(p[2], p[1]), round),
                                    Opened(p[2], flow(p[1], p[2]), round, "trade")
                                      \cup Opened(p[1], flow(p[2], p[1]), round, "trade"))
            drops == SyncDrops(round, seats, target)
            trades == SyncTrades(round, seats, target)
            adds == SyncAdds(round, seats, target)
            plans == PlanSync(round, seats, target)
<1>1. /\ drops = [i \in DOMAIN D |-> dropRow(D[i])]
      /\ trades = [i \in DOMAIN T |-> tradeRow(T[i])]
      /\ adds = [i \in DOMAIN A |-> addRow(A[i])]
  BY Zenon DEF SyncDrops, SyncTrades, SyncAdds, Mapped, Released, Acquired
<1>2. plans = drops \o trades \o adds
  BY DEF PlanSync
<1>3. /\ giving \subseteq Nat /\ IsFiniteSet(giving)
      /\ taking \subseteq Nat /\ IsFiniteSet(taking)
  <2>1. giving \subseteq DOMAIN target /\ taking \subseteq DOMAIN target
    OBVIOUS
  <2>. HIDE DEF giving, taking
  <2>. QED BY <2>1, FS_Subset DEF Comparable
<1>. HIDE DEF giving, taking
<1>4. Lists(n1, D, giving) /\ Lists(n2, T, Trading(seats, target)) /\ Lists(n3, A, taking)
  BY <1>3, AscendingLists, TradingLists
<1>. HIDE DEF D, T, A, n1, n2, n3
<1>5. /\ n1 \in Nat /\ n2 \in Nat /\ n3 \in Nat
      /\ DOMAIN D = 1..n1 /\ DOMAIN T = 1..n2 /\ DOMAIN A = 1..n3
  BY <1>4 DEF Lists
<1>. HIDE DEF drops, trades, adds, plans, dropRow, tradeRow, addRow
<1>6. /\ drops = [i \in 1..n1 |-> drops[i]] /\ \A i \in 1..n1 : drops[i] = dropRow(D[i])
      /\ trades = [i \in 1..n2 |-> trades[i]] /\ \A i \in 1..n2 : trades[i] = tradeRow(T[i])
      /\ adds = [i \in 1..n3 |-> adds[i]] /\ \A i \in 1..n3 : adds[i] = addRow(A[i])
  BY <1>1, <1>5
<1>7. /\ DOMAIN plans = 1..n1 + n2 + n3
      /\ \A k \in 1..n1 : plans[k] = drops[k]
      /\ \A k \in n1 + 1..n1 + n2 : plans[k] = trades[k - n1]
      /\ \A k \in n1 + n2 + 1..n1 + n2 + n3 : plans[k] = adds[k - n1 - n2]
  <2>1. Listed(n1, drops) /\ Listed(n2, trades) /\ Listed(n3, adds)
    BY <1>6 DEF Listed
  <2>2. Follow(n1, n2, n3, drops, trades, adds, drops \o trades \o adds)
    BY <1>5, <2>1, ThreeLists
  <2>. QED BY <1>2, <2>2 DEF Follow
<1>8. \A i \in 1..n2 : plans[n1 + i] = tradeRow(T[i])
  <2>. TAKE i \in 1..n2
  <2>1. n1 + i \in n1 + 1..n1 + n2 /\ (n1 + i) - n1 = i
    BY <1>5
  <2>. QED BY <1>6, <1>7, <2>1
<1>9. \A i \in 1..n3 : plans[n1 + n2 + i] = addRow(A[i])
  <2>. TAKE i \in 1..n3
  <2>1. n1 + n2 + i \in n1 + n2 + 1..n1 + n2 + n3 /\ (n1 + n2 + i) - n1 - n2 = i
    BY <1>5
  <2>. QED BY <1>6, <1>7, <2>1
<1>10. \A m : dropRow(m).closes = Closed(seats, released(m), round) /\ dropRow(m).opens = {}
  BY DEF dropRow, DropRow
<1>11. \A m : addRow(m).closes = {} /\ addRow(m).opens = Opened(m, acquired(m), round, "signing")
  BY DEF addRow, AddRow
<1>12. \A p : /\ tradeRow(p).closes = Closed(seats, flow(p[1], p[2]) \cup flow(p[2], p[1]), round)
              /\ tradeRow(p).opens = Opened(p[2], flow(p[1], p[2]), round, "trade")
                                       \cup Opened(p[1], flow(p[2], p[1]), round, "trade")
  BY DEF tradeRow, TradeRow
<1>13. SyncRows(seats, target, round, plans, n1, n2, n3, D, T, A)
  BY <1>4, <1>6, <1>7, <1>8, <1>9, <1>10, <1>11, <1>12 DEF SyncRows, Between, giving, taking
<1>. HIDE DEF released, acquired, flow
<1>. QED BY <1>13 DEF plans

LEMMA OpenedOnly ==
  ASSUME NEW m, NEW players, NEW round, NEW via, NEW owner, \A p \in players : owner[p] = m
  PROVE  OpensOnly(Opened(m, players, round, via), owner, players)
<1>. DEFINE open(p) == [member |-> m, player |-> p, fromRound |-> round, via |-> via]
<1>1. Opened(m, players, round, via) = {open(p) : p \in players}
  BY DEF Opened
<1>2. \A p : open(p).player = p /\ open(p).member = m
  OBVIOUS
<1>. HIDE DEF open
<1>. QED BY <1>1, <1>2 DEF OpensOnly

LEMMA OpensBoth ==
  ASSUME NEW a, NEW b, NEW owner, NEW S, NEW T, OpensOnly(a, owner, S), OpensOnly(b, owner, T)
  PROVE  OpensOnly(a \cup b, owner, S \cup T)
BY DEF OpensOnly

(* Carried out, the rows that planSync (fantasy/plan.ts) makes *)
(* of the difference between the open windows and the official rosters     *)
(* leave the official rosters, with any number of teams and exchanges.     *)
THEOREM SyncReaches ==
  ASSUME NEW seats, NEW target, Comparable(seats, target), NEW round
  PROVE  RostersAgree(ApplyPlans(seats, PlanSync(round, seats, target)), target)
<1>. DEFINE plans == PlanSync(round, seats, target)
            owner == OwnerIn(target)
            holder(p) == Holder(seats, p)
            M == DOMAIN target
            leaves(p, m) == Leaves(seats, target, p, m)
            arrives(p, m) == Arrives(seats, target, p, m)
            traded == TradedPlayers(seats, target)
            released(m) == Released(seats, target, m)
            acquired(m) == Acquired(seats, target, m)
            between(q) == Between(seats, target, q)
            trading == Trading(seats, target)
<1>1. PICK n1, n2, n3, D, T, A : SyncRows(seats, target, round, plans, n1, n2, n3, D, T, A)
  BY SyncRowsFact
<1>2. \A m \in M : \A p : p \in released(m) <=> leaves(p, m) /\ p \notin traded
  BY AloneFact
<1>3. \A m \in M : \A p : p \in acquired(m) <=> arrives(p, m) /\ p \notin traded
  BY AloneFact
<1>4. \A m \in M : \A p : p \in target[m] => owner[p] = m
  BY AloneFact
<1>5. \A p : p \in traded <=> \E q \in trading : p \in between(q)
  BY TradedFact
<1>6. \A q \in trading : \A p \in between(q) :
        /\ q[1] \in M /\ q[2] \in M /\ q = <<q[1], q[2]>>
        /\ q[1] \in Nat /\ q[2] \in Nat /\ q[1] < q[2]
        /\ {q[1], q[2]} = {holder(p), owner[p]}
        /\ leaves(p, holder(p)) /\ arrives(p, owner[p])
  BY BetweenFact
<1>7. M \subseteq Nat /\ Nobody \notin M
  BY DEF Comparable
<1>8. Windows(seats) /\ Recorded(seats) /\ \A s \in seats : s.member \in M
  BY DEF Comparable, Plannable
<1>9. /\ n1 \in Nat /\ n2 \in Nat /\ n3 \in Nat
      /\ \A k \in 1..n1 : D[k] \in M
      /\ \A i \in 1..n2 : T[i] \in trading
      /\ \A i \in 1..n3 : A[i] \in M
  BY <1>1 DEF SyncRows, Lists
<1>10. /\ \A i, j \in 1..n1 : D[i] = D[j] => i = j
       /\ \A i, j \in 1..n2 : T[i] = T[j] => i = j
       /\ \A i, j \in 1..n3 : A[i] = A[j] => i = j
  BY <1>1 DEF SyncRows, Lists
<1>11. /\ \A m \in M : \A p : p \in released(m) => \E i \in 1..n1 : D[i] = m
       /\ \A q \in trading : \E i \in 1..n2 : T[i] = q
       /\ \A m \in M : \A p : p \in acquired(m) => \E i \in 1..n3 : A[i] = m
  BY <1>1 DEF SyncRows, Lists
<1>12. \A p, m : /\ leaves(p, m) => p \in Seated(seats) /\ holder(p) = m /\ p \notin target[m]
                 /\ arrives(p, m) => p \in target[m] /\ ~(p \in Seated(seats) /\ holder(p) = m)
                 /\ p \in target[m] => arrives(p, m) \/ (p \in Seated(seats) /\ holder(p) = m)
                 /\ (p \in Seated(seats) /\ holder(p) = m) => (leaves(p, m) \/ p \in target[m])
  BY DEF Leaves, Arrives
<1>. DEFINE n == n1 + n2 + n3
            outs == [k \in 1..n |-> IF k <= n1 THEN released(D[k])
                                    ELSE IF k <= n1 + n2 THEN between(T[k - n1]) ELSE {}]
            ins == [k \in 1..n |-> IF k <= n1 THEN {}
                                   ELSE IF k <= n1 + n2 THEN between(T[k - n1])
                                   ELSE acquired(A[k - n1 - n2])]
<1>13. n \in Nat /\ DOMAIN plans = 1..n
  BY <1>1, <1>9 DEF SyncRows
<1>. HIDE DEF plans, released, acquired, between, trading, M, leaves, arrives, traded, holder, owner
<1>14. \A k \in 1..n1 : k \in 1..n /\ outs[k] = released(D[k]) /\ ins[k] = {}
  BY <1>9
<1>15. \A i \in 1..n2 : /\ n1 + i \in 1..n
                        /\ outs[n1 + i] = between(T[i]) /\ ins[n1 + i] = between(T[i])
  BY <1>9
<1>16. \A i \in 1..n3 : /\ n1 + n2 + i \in 1..n
                        /\ outs[n1 + n2 + i] = {} /\ ins[n1 + n2 + i] = acquired(A[i])
  BY <1>9
<1>. HIDE DEF outs, ins
<1>17. ASSUME NEW k \in 1..n
       PROVE  \/ k \in 1..n1
              \/ \E i \in 1..n2 : k = n1 + i
              \/ \E i \in 1..n3 : k = n1 + n2 + i
  <2>1. CASE k <= n1
    BY <1>9, <2>1
  <2>2. CASE ~(k <= n1) /\ k <= n1 + n2
    <3>1. k - n1 \in 1..n2 /\ k = n1 + (k - n1)
      BY <1>9, <2>2
    <3>. QED BY <3>1
  <2>3. CASE ~(k <= n1 + n2)
    <3>1. k - n1 - n2 \in 1..n3 /\ k = n1 + n2 + (k - n1 - n2)
      BY <1>9, <2>3
    <3>. QED BY <3>1
  <2>. QED BY <2>1, <2>2, <2>3
<1>18. ASSUME NEW q \in trading, NEW r \in trading, NEW p \in between(q), p \in between(r)
       PROVE  q = r
  <2>1. {q[1], q[2]} = {r[1], r[2]}
    BY <1>6, <1>18
  <2>2. /\ q[1] \in Nat /\ q[2] \in Nat /\ q[1] < q[2] /\ q = <<q[1], q[2]>>
        /\ r[1] \in Nat /\ r[2] \in Nat /\ r[1] < r[2] /\ r = <<r[1], r[2]>>
    BY <1>6, <1>18
  <2>3. q[1] = r[1] /\ q[2] = r[2]
    BY <2>1, <2>2
  <2>. QED BY <2>2, <2>3
<1>. DEFINE sentIn(p, k) ==
              /\ leaves(p, holder(p)) /\ holder(p) \in M
              /\ \/ k \in 1..n1 /\ p \notin traded /\ D[k] = holder(p)
                 \/ p \in traded /\ \E i \in 1..n2 : k = n1 + i /\ p \in between(T[i])
            takenIn(p, k) ==
              /\ arrives(p, owner[p]) /\ owner[p] \in M
              /\ \/ p \notin traded /\ \E i \in 1..n3 : k = n1 + n2 + i /\ A[i] = owner[p]
                 \/ p \in traded /\ \E i \in 1..n2 : k = n1 + i /\ p \in between(T[i])
<1>19. ASSUME NEW k \in 1..n, NEW p \in outs[k] PROVE sentIn(p, k)
  <2>1. CASE k \in 1..n1
    <3>1. D[k] \in M /\ p \in released(D[k])
      BY <1>9, <1>14, <2>1
    <3>2. leaves(p, D[k]) /\ p \notin traded
      BY <1>2, <3>1
    <3>3. holder(p) = D[k]
      BY <1>12, <3>2
    <3>. QED BY <2>1, <3>1, <3>2, <3>3
  <2>2. ASSUME NEW i \in 1..n2, k = n1 + i PROVE sentIn(p, k)
    <3>1. T[i] \in trading /\ p \in between(T[i])
      BY <1>9, <1>15, <2>2
    <3>2. p \in traded /\ leaves(p, holder(p))
      BY <1>5, <1>6, <3>1
    <3>3. holder(p) \in M
      BY <1>6, <3>1
    <3>. QED BY <2>2, <3>1, <3>2, <3>3
  <2>3. ~ \E i \in 1..n3 : k = n1 + n2 + i
    BY <1>16
  <2>. HIDE DEF sentIn
  <2>. QED BY <1>17, <2>1, <2>2, <2>3
<1>20. ASSUME NEW k \in 1..n, NEW p \in ins[k] PROVE takenIn(p, k)
  <2>1. k \notin 1..n1
    BY <1>14
  <2>2. ASSUME NEW i \in 1..n2, k = n1 + i PROVE takenIn(p, k)
    <3>1. T[i] \in trading /\ p \in between(T[i])
      BY <1>9, <1>15, <2>2
    <3>2. p \in traded /\ arrives(p, owner[p])
      BY <1>5, <1>6, <3>1
    <3>3. owner[p] \in M
      BY <1>6, <3>1
    <3>. QED BY <2>2, <3>1, <3>2, <3>3
  <2>3. ASSUME NEW i \in 1..n3, k = n1 + n2 + i PROVE takenIn(p, k)
    <3>1. A[i] \in M /\ p \in acquired(A[i])
      BY <1>9, <1>16, <2>3
    <3>2. arrives(p, A[i]) /\ p \notin traded
      BY <1>3, <3>1
    <3>3. owner[p] = A[i]
      BY <1>4, <1>12, <3>1, <3>2
    <3>. QED BY <2>3, <3>1, <3>2, <3>3
  <2>. HIDE DEF takenIn
  <2>. QED BY <1>17, <2>1, <2>2, <2>3
<1>21. Apart(n, outs)
  <2>. SUFFICES ASSUME NEW i \in 1..n, NEW j \in 1..n, NEW p \in outs[i], p \in outs[j] PROVE i = j
    BY DEF Apart
  <2>1. sentIn(p, i) /\ sentIn(p, j)
    BY <1>19
  <2>2. CASE p \in traded
    <3>1. PICK a \in 1..n2 : i = n1 + a /\ p \in between(T[a])
      BY <2>1, <2>2
    <3>2. PICK b \in 1..n2 : j = n1 + b /\ p \in between(T[b])
      BY <2>1, <2>2
    <3>3. T[a] = T[b]
      BY <1>9, <1>18, <3>1, <3>2
    <3>. QED BY <1>10, <3>1, <3>2, <3>3
  <2>3. CASE p \notin traded
    BY <1>10, <2>1, <2>3
  <2>. QED BY <2>2, <2>3
<1>22. Apart(n, ins)
  <2>. SUFFICES ASSUME NEW i \in 1..n, NEW j \in 1..n, NEW p \in ins[i], p \in ins[j] PROVE i = j
    BY DEF Apart
  <2>1. takenIn(p, i) /\ takenIn(p, j)
    BY <1>20
  <2>2. CASE p \in traded
    <3>1. PICK a \in 1..n2 : i = n1 + a /\ p \in between(T[a])
      BY <2>1, <2>2
    <3>2. PICK b \in 1..n2 : j = n1 + b /\ p \in between(T[b])
      BY <2>1, <2>2
    <3>3. T[a] = T[b]
      BY <1>9, <1>18, <3>1, <3>2
    <3>. QED BY <1>10, <3>1, <3>2, <3>3
  <2>3. CASE p \notin traded
    <3>1. PICK a \in 1..n3 : i = n1 + n2 + a /\ A[a] = owner[p]
      BY <2>1, <2>3
    <3>2. PICK b \in 1..n3 : j = n1 + n2 + b /\ A[b] = owner[p]
      BY <2>1, <2>3
    <3>. QED BY <1>10, <3>1, <3>2
  <2>. QED BY <2>2, <2>3
<1>23. ASSUME NEW i \in 1..n, NEW j \in 1..n, NEW p \in outs[i] \cap ins[j] PROVE i <= j
  <2>1. sentIn(p, i) /\ takenIn(p, j)
    BY <1>19, <1>20
  <2>2. CASE p \in traded
    <3>1. PICK a \in 1..n2 : i = n1 + a /\ p \in between(T[a])
      BY <2>1, <2>2
    <3>2. PICK b \in 1..n2 : j = n1 + b /\ p \in between(T[b])
      BY <2>1, <2>2
    <3>3. T[a] = T[b]
      BY <1>9, <1>18, <3>1, <3>2
    <3>4. a = b
      BY <1>10, <3>3
    <3>. QED BY <1>13, <3>1, <3>2, <3>4
  <2>3. CASE p \notin traded
    <3>1. PICK b \in 1..n3 : j = n1 + n2 + b
      BY <2>1, <2>3
    <3>2. i \in 1..n1
      BY <2>1, <2>3
    <3>. QED BY <1>9, <3>1, <3>2
  <2>. QED BY <2>2, <2>3
<1>. HIDE DEF sentIn, takenIn
(* Whoever leaves is taken off a roster, whoever arrives is put on one.    *)
<1>24. ASSUME NEW p, p \in traded
       PROVE  \E k \in 1..n : p \in outs[k] /\ p \in ins[k]
  <2>1. PICK q \in trading : p \in between(q)
    BY <1>5, <1>24
  <2>2. PICK i \in 1..n2 : T[i] = q
    BY <1>11
  <2>. QED BY <1>15, <2>1, <2>2
<1>25. ASSUME NEW m \in M, NEW p, leaves(p, m)
       PROVE  \E k \in 1..n : p \in outs[k]
  <2>1. CASE p \in traded
    BY <1>24, <2>1
  <2>2. CASE p \notin traded
    <3>1. p \in released(m)
      BY <1>2, <1>25, <2>2
    <3>2. PICK i \in 1..n1 : D[i] = m
      BY <1>11, <3>1
    <3>. QED BY <1>14, <3>1, <3>2
  <2>. QED BY <2>1, <2>2
<1>26. ASSUME NEW m \in M, NEW p, arrives(p, m)
       PROVE  \E k \in 1..n : p \in ins[k]
  <2>1. CASE p \in traded
    BY <1>24, <2>1
  <2>2. CASE p \notin traded
    <3>1. p \in acquired(m)
      BY <1>3, <1>26, <2>2
    <3>2. PICK i \in 1..n3 : A[i] = m
      BY <1>11, <3>1
    <3>. QED BY <1>16, <3>1, <3>2
  <2>. QED BY <2>1, <2>2
<1>27. ASSUME NEW k \in 1..n
       PROVE  plans[k].closes = Closed(seats, outs[k], round)
  <2>1. CASE k \in 1..n1
    BY <1>1, <1>14, <2>1 DEF SyncRows, released
  <2>2. ASSUME NEW i \in 1..n2, k = n1 + i PROVE plans[k].closes = Closed(seats, outs[k], round)
    BY <1>1, <1>15, <2>2 DEF SyncRows, between
  <2>3. ASSUME NEW i \in 1..n3, k = n1 + n2 + i PROVE plans[k].closes = Closed(seats, outs[k], round)
    BY <1>1, <1>16, <2>3 DEF SyncRows, Closed
  <2>. QED BY <1>17, <2>1, <2>2, <2>3
<1>28. ASSUME NEW k \in 1..n
       PROVE  OpensOnly(plans[k].opens, owner, ins[k])
  <2>1. CASE k \in 1..n1
    <3>1. plans[k].opens = {} /\ ins[k] = {}
      BY <1>1, <1>14, <2>1 DEF SyncRows
    <3>. QED BY <3>1 DEF OpensOnly
  <2>2. ASSUME NEW i \in 1..n2, k = n1 + i PROVE OpensOnly(plans[k].opens, owner, ins[k])
    <3>. DEFINE q == T[i]
                sent == Flow(seats, target, q[1], q[2])
                received == Flow(seats, target, q[2], q[1])
    <3>1. plans[k].opens = Opened(q[2], sent, round, "trade") \cup Opened(q[1], received, round, "trade")
      BY <1>1, <2>2 DEF SyncRows
    <3>2. ins[k] = sent \cup received
      BY <1>15, <2>2 DEF between, Between
    <3>3. q \in Trading(seats, target)
      BY <1>9 DEF trading
    <3>4. (\A p \in sent : owner[p] = q[2]) /\ (\A p \in received : owner[p] = q[1])
      <4>1. \A p : p \in sent \/ p \in received => p \in Between(seats, target, q)
        BY DEF Between
      <4>. HIDE DEF q
      <4>. QED BY <3>3, <4>1, BetweenFact DEF owner
    <3>. HIDE DEF q, sent, received
    <3>5. /\ OpensOnly(Opened(q[2], sent, round, "trade"), owner, sent)
          /\ OpensOnly(Opened(q[1], received, round, "trade"), owner, received)
      BY <3>4, OpenedOnly
    <3>. QED BY <3>1, <3>2, <3>5, OpensBoth
  <2>3. ASSUME NEW i \in 1..n3, k = n1 + n2 + i PROVE OpensOnly(plans[k].opens, owner, ins[k])
    <3>1. plans[k].opens = Opened(A[i], ins[k], round, "signing") /\ ins[k] = acquired(A[i])
      BY <1>1, <1>16, <2>3 DEF SyncRows, acquired
    <3>2. \A p \in ins[k] : owner[p] = A[i]
      BY <1>3, <1>4, <1>9, <1>12, <3>1
    <3>. QED BY <3>1, <3>2, OpenedOnly
  <2>. QED BY <1>17, <2>1, <2>2, <2>3
<1>29. \A s \in seats : s.player \in Seated(seats) /\ holder(s.player) = s.member
  <2>. TAKE s \in seats
  <2>1. s.player \in Seated(seats)
    BY DEF Seated
  <2>2. SeatOf(seats, s.player) \in seats /\ SeatOf(seats, s.player).player = s.player
    BY <1>8, <2>1, SeatFact
  <2>3. SeatOf(seats, s.player) = s
    BY <1>8, <2>2 DEF Windows
  <2>. QED BY <2>1, <2>3 DEF holder, Holder
<1>30. \A p \in Seated(seats) : \E s \in seats : s.player = p /\ s.member = holder(p)
  BY <1>8, SeatFact DEF holder, Holder
<1>31. Arranged(seats, n, plans, round, owner, outs, ins)
  <2>1. \A k \in 1..n : outs[k] \subseteq Seated(seats)
    BY <1>12, <1>19 DEF sentIn
  <2>2. ASSUME NEW k \in 1..n, NEW p \in ins[k], p \in Seated(seats)
        PROVE  \E j \in 1..n : p \in outs[j]
    <3>1. arrives(p, owner[p]) /\ owner[p] \in M
      BY <1>20 DEF takenIn
    <3>2. holder(p) \in M
      BY <1>8, <1>30, <2>2
    <3>3. leaves(p, holder(p))
      BY <1>4, <1>12, <2>2, <3>1, <3>2
    <3>. QED BY <1>25, <3>2, <3>3
  <2>3. \A k \in 1..n : \A p \in ins[k] : owner[p] # Nobody
    BY <1>7, <1>20 DEF takenIn
  <2>. QED BY <1>21, <1>22, <1>23, <1>27, <1>28, <2>1, <2>2, <2>3 DEF Arranged
<1>32. ASSUME NEW s \in seats, \A k \in 1..n : s.player \notin outs[k]
       PROVE  s.member \in M /\ s.player \in target[s.member]
  BY <1>8, <1>12, <1>25, <1>29, <1>32
<1>33. \A k \in 1..n : \A p \in ins[k] : owner[p] \in M /\ p \in target[owner[p]]
  BY <1>12, <1>20 DEF takenIn
<1>34. ASSUME NEW m \in M, NEW p \in target[m]
       PROVE  \/ owner[p] = m /\ \E k \in 1..n : p \in ins[k]
              \/ /\ \A k \in 1..n : p \notin outs[k]
                 /\ \E s \in seats : s.player = p /\ s.member = m
  <2>1. owner[p] = m
    BY <1>4
  <2>2. CASE arrives(p, m)
    BY <1>26, <2>1, <2>2
  <2>3. CASE ~arrives(p, m)
    <3>1. p \in Seated(seats) /\ holder(p) = m
      BY <1>12, <2>3
    <3>2. \A k \in 1..n : p \notin outs[k]
      BY <1>12, <1>19, <3>1 DEF sentIn
    <3>. QED BY <1>30, <3>1, <3>2
  <2>. QED BY <2>2, <2>3
<1>. HIDE DEF n
<1>35. RostersAgree(ApplyPlans(seats, plans), target)
  BY <1>8, <1>13, <1>31, <1>32, <1>33, <1>34, ArrangedReaches DEF M
<1>. QED BY <1>35 DEF plans

-----------------------------------------------------------------------------
(* Sums.                                                                     *)

(* What holds of a set when it holds of the set without any one member.      *)
LEMMA SubsetInduction ==
  ASSUME NEW S, IsFiniteSet(S), NEW P,
         \A s \in SUBSET S : (\A x \in s : s \ {x} \in P) => s \in P
  PROVE  SUBSET S \subseteq P
<1>. DEFINE n == Cardinality(S)
            good == {k \in 0..n : \A s \in SUBSET S : Cardinality(s) = k => s \in P}
<1>1. n \in Nat
  BY FS_CardinalityType
<1>2. \A s \in SUBSET S : IsFiniteSet(s) /\ Cardinality(s) \in 0..n
  BY <1>1, FS_Subset, FS_CardinalityType
<1>3. 0 \in good
  <2>. SUFFICES ASSUME NEW s \in SUBSET S, Cardinality(s) = 0 PROVE s \in P
    BY <1>1
  <2>1. s = {}
    BY <1>2, FS_EmptySet
  <2>. QED BY <2>1
<1>4. ASSUME NEW k \in 1..n, k - 1 \in good PROVE k \in good
  <2>. SUFFICES ASSUME NEW s \in SUBSET S, Cardinality(s) = k PROVE s \in P
    BY <1>1
  <2>1. ASSUME NEW x \in s PROVE s \ {x} \in P
    <3>1. Cardinality(s \ {x}) = k - 1
      BY <1>2, FS_RemoveElement
    <3>. QED BY <1>4, <3>1
  <2>. QED BY <2>1
<1>. HIDE DEF good
<1>5. \A k \in 0..n : k \in good
  BY <1>1, <1>3, <1>4, Upward
<1>. QED BY <1>2, <1>5 DEF good

(* A function that gives every subset the sum of its weights.                *)
IsSum(S, w, f) ==
  /\ f \in [SUBSET S -> Int] /\ f[{}] = 0
  /\ \A s \in SUBSET S : \A x \in s : f[s] = w[x] + f[s \ {x}]

LEMMA SumExists ==
  ASSUME NEW S, IsFiniteSet(S), NEW w \in [S -> Int]
  PROVE  \E f : IsSum(S, w, f)
<1>. DEFINE P == {T \in SUBSET S : \E f : IsSum(T, w, f)}
<1>1. ASSUME NEW T \in SUBSET S, \A x \in T : T \ {x} \in P PROVE T \in P
  <2>1. CASE T = {}
    <3>. DEFINE f == [s \in SUBSET {} |-> 0]
    <3>1. f \in [SUBSET {} -> Int] /\ f[{}] = 0 /\ \A s \in SUBSET {} : s = {}
      OBVIOUS
    <3>. HIDE DEF f
    <3>2. IsSum({}, w, f)
      BY <3>1 DEF IsSum
    <3>. QED BY <2>1, <3>2
  <2>2. CASE T # {}
    <3>1. PICK a \in T : TRUE
      BY <2>2
    <3>. DEFINE R == T \ {a}
    <3>2. PICK f : IsSum(R, w, f)
      BY <1>1, <3>1
    <3>. DEFINE g == [s \in SUBSET T |-> IF a \in s THEN w[a] + f[s \ {a}] ELSE f[s]]
    <3>3. \A s \in SUBSET T : s \ {a} \in SUBSET R /\ (a \notin s => s \in SUBSET R)
      OBVIOUS
    <3>4. w[a] \in Int /\ \A s \in SUBSET R : f[s] \in Int
      BY <3>1, <3>2 DEF IsSum
    <3>5. g \in [SUBSET T -> Int] /\ g[{}] = 0
      BY <3>2, <3>3, <3>4 DEF IsSum
    <3>6. ASSUME NEW s \in SUBSET T, NEW x \in s PROVE g[s] = w[x] + g[s \ {x}]
      <4>0. s \ {x} \in SUBSET T
        OBVIOUS
      <4>1. CASE x = a
        <5>1. g[s] = w[a] + f[s \ {a}] /\ g[s \ {x}] = f[s \ {x}]
          BY <4>0, <4>1
        <5>. QED BY <4>1, <5>1
      <4>2. CASE x # a /\ a \in s
        <5>1. g[s] = w[a] + f[s \ {a}] /\ g[s \ {x}] = w[a] + f[(s \ {x}) \ {a}]
          BY <4>0, <4>2
        <5>2. f[s \ {a}] = w[x] + f[(s \ {a}) \ {x}]
          BY <3>2, <3>3, <4>2 DEF IsSum
        <5>3. (s \ {a}) \ {x} = (s \ {x}) \ {a} /\ (s \ {x}) \ {a} \in SUBSET R
          OBVIOUS
        <5>4. w[x] \in Int
          OBVIOUS
        <5>5. /\ f[s \ {a}] = w[x] + f[(s \ {x}) \ {a}]
              /\ f[(s \ {x}) \ {a}] \in Int
          BY <3>4, <5>2, <5>3
        <5>. HIDE DEF g, R
        <5>. QED BY <3>4, <5>1, <5>4, <5>5
      <4>3. CASE a \notin s
        <5>1. g[s] = f[s] /\ g[s \ {x}] = f[s \ {x}]
          BY <4>0, <4>3
        <5>2. f[s] = w[x] + f[s \ {x}]
          BY <3>2, <3>3, <4>3 DEF IsSum
        <5>. QED BY <5>1, <5>2
      <4>. QED BY <4>1, <4>2, <4>3
    <3>. HIDE DEF g
    <3>7. IsSum(T, w, g)
      BY <3>5, <3>6 DEF IsSum
    <3>. QED BY <3>7
  <2>. QED BY <2>1, <2>2
<1>. HIDE DEF P
<1>2. SUBSET S \subseteq P
  BY <1>1, SubsetInduction
<1>. QED BY <1>2 DEF P

LEMMA SumFact ==
  ASSUME NEW S, IsFiniteSet(S), NEW w \in [S -> Int], NEW f, IsSum(S, w, f)
  PROVE  SumFunction(w) = f[S]
<1>. DEFINE next(h) == [s \in SUBSET S |->
                          IF s = {} THEN 0 ELSE w[CHOOSE x \in s : TRUE] + h[s \ {CHOOSE x \in s : TRUE}]]
            iter == CHOOSE h : h = next(h)
<1>1. SumFunction(w) = iter[S]
  <2>1. DOMAIN w = S
    OBVIOUS
  <2>. QED BY <2>1, Zenon DEF SumFunction, SumFunctionOnSet, FoldFunctionOnSet, MapThenFoldSet
<1>2. f = next(f)
  <2>1. ASSUME NEW s \in SUBSET S PROVE f[s] = next(f)[s]
    <3>1. CASE s = {}
      BY <3>1 DEF IsSum
    <3>2. CASE s # {}
      <4>. DEFINE c == CHOOSE x \in s : TRUE
      <4>1. c \in s
        BY <3>2
      <4>2. f[s] = w[c] + f[s \ {c}]
        BY <4>1 DEF IsSum
      <4>3. next(f)[s] = w[c] + f[s \ {c}]
        BY <3>2
      <4>. QED BY <4>2, <4>3
    <3>. QED BY <3>1, <3>2
  <2>2. f = [s \in SUBSET S |-> f[s]]
    BY DEF IsSum
  <2>3. next(f) = [s \in SUBSET S |-> next(f)[s]]
    OBVIOUS
  <2>. HIDE DEF next
  <2>. QED BY <2>1, <2>2, <2>3
<1>3. iter = next(iter)
  <2>. HIDE DEF next
  <2>. QED BY <1>2
<1>. HIDE DEF iter
<1>. DEFINE P == {s \in SUBSET S : iter[s] = f[s]}
<1>4. ASSUME NEW s \in SUBSET S, \A x \in s : s \ {x} \in P PROVE s \in P
  <2>1. CASE s = {}
    BY <1>3, <2>1 DEF IsSum
  <2>2. CASE s # {}
    <3>. DEFINE c == CHOOSE x \in s : TRUE
    <3>1. c \in s
      BY <2>2
    <3>2. f[s] = w[c] + f[s \ {c}]
      BY <3>1 DEF IsSum
    <3>3. iter[s] = w[c] + iter[s \ {c}]
      BY <1>3, <2>2
    <3>4. iter[s \ {c}] = f[s \ {c}]
      BY <1>4, <3>1
    <3>. QED BY <3>2, <3>3, <3>4
  <2>. QED BY <2>1, <2>2
<1>. HIDE DEF P, next
<1>5. SUBSET S \subseteq P
  BY <1>4, SubsetInduction
<1>. QED BY <1>1, <1>5 DEF P

LEMMA SumType ==
  ASSUME NEW S, IsFiniteSet(S), NEW w \in [S -> Int]
  PROVE  SumFunction(w) \in Int
<1>1. PICK f : IsSum(S, w, f)
  BY SumExists
<1>2. SumFunction(w) = f[S]
  BY <1>1, SumFact
<1>. QED BY <1>1, <1>2 DEF IsSum

(* Weights of nothing add nothing.                                           *)
LEMMA SumZeros ==
  ASSUME NEW S, IsFiniteSet(S), NEW w \in [S -> Int], NEW T \in SUBSET S, \A x \in S \ T : w[x] = 0
  PROVE  SumFunction(w) = SumFunction([x \in T |-> w[x]])
<1>. DEFINE v == [x \in T |-> w[x]]
            R == S \ T
            P == {r \in SUBSET R : \A f : IsSum(S, w, f) => f[T \cup r] = f[T]}
<1>1. PICK f : IsSum(S, w, f)
  BY SumExists
<1>2. SumFunction(w) = f[S]
  BY <1>1, SumFact
<1>3. SumFunction(v) = f[T]
  <2>. DEFINE g == [s \in SUBSET T |-> f[s]]
  <2>1. IsSum(T, v, g)
    <3>1. g \in [SUBSET T -> Int] /\ g[{}] = 0
      BY <1>1 DEF IsSum
    <3>2. ASSUME NEW s \in SUBSET T, NEW x \in s PROVE g[s] = v[x] + g[s \ {x}]
      <4>1. s \ {x} \in SUBSET T /\ s \in SUBSET S /\ v[x] = w[x]
        OBVIOUS
      <4>. QED BY <1>1, <4>1 DEF IsSum
    <3>. HIDE DEF g, v
    <3>. QED BY <3>1, <3>2 DEF IsSum
  <2>2. IsFiniteSet(T) /\ v \in [T -> Int] /\ g[T] = f[T]
    BY FS_Subset
  <2>. HIDE DEF g, v
  <2>. QED BY <2>1, <2>2, SumFact
<1>4. ASSUME NEW r \in SUBSET R, \A x \in r : r \ {x} \in P PROVE r \in P
  <2>. SUFFICES ASSUME NEW h, IsSum(S, w, h) PROVE h[T \cup r] = h[T]
    OBVIOUS
  <2>1. CASE r = {}
    BY <2>1
  <2>2. CASE r # {}
    <3>1. PICK x \in r : TRUE
      BY <2>2
    <3>2. h[T \cup (r \ {x})] = h[T]
      BY <1>4, <3>1
    <3>3. T \cup r \in SUBSET S /\ x \in T \cup r /\ (T \cup r) \ {x} = T \cup (r \ {x}) /\ w[x] = 0
      OBVIOUS
    <3>4. h[T \cup r] = 0 + h[T]
      BY <3>2, <3>3 DEF IsSum
    <3>. QED BY <3>4 DEF IsSum
  <2>. QED BY <2>1, <2>2
<1>. HIDE DEF P
<1>5. R \in P
  <2>1. IsFiniteSet(R)
    BY FS_Subset
  <2>2. SUBSET R \subseteq P
    <3>. HIDE DEF R
    <3>. QED BY <1>4, <2>1, SubsetInduction
  <2>. QED BY <2>2
<1>6. f[T \cup R] = f[T] /\ T \cup R = S
  BY <1>1, <1>5 DEF P
<1>. QED BY <1>2, <1>3, <1>6

LEMMA SumOfParts ==
  ASSUME NEW S, IsFiniteSet(S), NEW w \in [S -> Int], NEW f, IsSum(S, w, f),
         NEW A \in SUBSET S, NEW B \in SUBSET S, A \cap B = {}
  PROVE  f[A \cup B] = f[A] + f[B]
<1>. DEFINE P == {r \in SUBSET B : f[A \cup r] = f[A] + f[r]}
<1>1. \A s \in SUBSET S : f[s] \in Int
  BY DEF IsSum
<1>2. ASSUME NEW r \in SUBSET B, \A x \in r : r \ {x} \in P PROVE r \in P
  <2>1. CASE r = {}
    <3>1. f[A] = f[A] + f[{}]
      BY <1>1 DEF IsSum
    <3>. QED BY <2>1, <3>1
  <2>2. CASE r # {}
    <3>1. PICK x \in r : TRUE
      BY <2>2
    <3>2. f[A \cup (r \ {x})] = f[A] + f[r \ {x}]
      BY <1>2, <3>1
    <3>3. /\ A \cup r \in SUBSET S /\ x \in A \cup r /\ (A \cup r) \ {x} = A \cup (r \ {x})
          /\ r \in SUBSET S /\ r \ {x} \in SUBSET S /\ w[x] \in Int
      OBVIOUS
    <3>4. f[A \cup r] = w[x] + f[A \cup (r \ {x})] /\ f[r] = w[x] + f[r \ {x}]
      BY <3>1, <3>3 DEF IsSum
    <3>5. f[A] \in Int /\ f[r \ {x}] \in Int
      BY <1>1, <3>3
    <3>6. f[A \cup r] = f[A] + f[r]
      BY <3>2, <3>3, <3>4, <3>5
    <3>. QED BY <3>6
  <2>. QED BY <2>1, <2>2
<1>. HIDE DEF P
<1>3. IsFiniteSet(B)
  BY FS_Subset
<1>4. SUBSET B \subseteq P
  BY <1>2, <1>3, SubsetInduction
<1>. QED BY <1>4 DEF P

(* The sum over a part of what is summed.                                    *)
LEMMA SumOfPart ==
  ASSUME NEW S, IsFiniteSet(S), NEW w \in [S -> Int], NEW f, IsSum(S, w, f), NEW T \in SUBSET S
  PROVE  SumFunction([x \in T |-> w[x]]) = f[T]
<1>. DEFINE v == [x \in T |-> w[x]]
            g == [s \in SUBSET T |-> f[s]]
<1>1. IsSum(T, v, g)
  <2>1. g \in [SUBSET T -> Int] /\ g[{}] = 0
    BY DEF IsSum
  <2>2. ASSUME NEW s \in SUBSET T, NEW x \in s PROVE g[s] = v[x] + g[s \ {x}]
    <3>1. s \ {x} \in SUBSET T /\ s \in SUBSET S /\ v[x] = w[x]
      OBVIOUS
    <3>. QED BY <3>1 DEF IsSum
  <2>. HIDE DEF g, v
  <2>. QED BY <2>1, <2>2 DEF IsSum
<1>2. IsFiniteSet(T) /\ v \in [T -> Int] /\ g[T] = f[T]
  BY FS_Subset
<1>. HIDE DEF g, v
<1>3. SumFunction(v) = f[T]
  BY <1>1, <1>2, SumFact
<1>. QED BY <1>3 DEF v

LEMMA SumTogether ==
  ASSUME NEW S, IsFiniteSet(S), NEW u \in [S -> Int], NEW v \in [S -> Int]
  PROVE  SumFunction([x \in S |-> u[x] + v[x]]) = SumFunction(u) + SumFunction(v)
<1>. DEFINE w == [x \in S |-> u[x] + v[x]]
<1>1. PICK f : IsSum(S, u, f)
  BY SumExists
<1>2. PICK g : IsSum(S, v, g)
  BY SumExists
<1>. DEFINE h == [s \in SUBSET S |-> f[s] + g[s]]
<1>3. /\ \A s \in SUBSET S : f[s] \in Int /\ g[s] \in Int
      /\ \A x \in S : u[x] \in Int /\ v[x] \in Int
  BY <1>1, <1>2 DEF IsSum
<1>4. h \in [SUBSET S -> Int] /\ h[{}] = 0
  BY <1>1, <1>2, <1>3 DEF IsSum
<1>5. ASSUME NEW s \in SUBSET S, NEW x \in s PROVE h[s] = w[x] + h[s \ {x}]
  <2>1. s \ {x} \in SUBSET S /\ x \in S
    OBVIOUS
  <2>2. f[s] = u[x] + f[s \ {x}] /\ g[s] = v[x] + g[s \ {x}]
    BY <1>1, <1>2 DEF IsSum
  <2>3. h[s] = f[s] + g[s] /\ h[s \ {x}] = f[s \ {x}] + g[s \ {x}] /\ w[x] = u[x] + v[x]
    BY <2>1
  <2>4. f[s \ {x}] \in Int /\ g[s \ {x}] \in Int /\ u[x] \in Int /\ v[x] \in Int
    BY <1>3, <2>1
  <2>. HIDE DEF h, w
  <2>. QED BY <2>2, <2>3, <2>4
<1>6. w \in [S -> Int]
  BY <1>3
<1>7. SumFunction(u) = f[S] /\ SumFunction(v) = g[S] /\ h[S] = f[S] + g[S]
  BY <1>1, <1>2, SumFact
<1>. HIDE DEF w, h
<1>8. IsSum(S, w, h)
  BY <1>4, <1>5 DEF IsSum
<1>9. SumFunction(w) = h[S]
  BY <1>6, <1>8, SumFact
<1>. QED BY <1>7, <1>9 DEF w

(* A sum of sums over groups with no element in common.                      *)
Grouped(S, w, G, K, v) ==
  /\ IsFiniteSet(S) /\ w \in [S -> Int]
  /\ IsFiniteSet(G) /\ K \in [G -> SUBSET S] /\ v \in [G -> Int]
  /\ \A a, b \in G : a # b => K[a] \cap K[b] = {}
  /\ \A x \in S : w[x] # 0 => \E a \in G : x \in K[a]
  /\ \A a \in G : v[a] = SumFunction([x \in K[a] |-> w[x]])

LEMMA SumOfGroups ==
  ASSUME NEW S, NEW w, NEW G, NEW K, NEW v, Grouped(S, w, G, K, v)
  PROVE  SumFunction(v) = SumFunction(w)
<1>0. /\ IsFiniteSet(S) /\ w \in [S -> Int]
      /\ IsFiniteSet(G) /\ K \in [G -> SUBSET S] /\ v \in [G -> Int]
      /\ \A a, b \in G : a # b => K[a] \cap K[b] = {}
      /\ \A x \in S : w[x] # 0 => \E a \in G : x \in K[a]
      /\ \A a \in G : v[a] = SumFunction([x \in K[a] |-> w[x]])
  BY DEF Grouped
<1>1. PICK f : IsSum(S, w, f)
  BY <1>0, SumExists
<1>. DEFINE all(r) == {x \in S : \E a \in r : x \in K[a]}
            h == [r \in SUBSET G |-> f[all(r)]]
<1>2. ASSUME NEW a \in G PROVE v[a] = f[K[a]]
  <2>1. K[a] \in SUBSET S
    BY <1>0
  <2>2. SumFunction([x \in K[a] |-> w[x]]) = f[K[a]]
    BY <1>0, <1>1, <2>1, SumOfPart
  <2>. QED BY <1>0, <2>2
<1>3. IsSum(G, v, h)
  <2>1. \A r \in SUBSET G : all(r) \in SUBSET S
    OBVIOUS
  <2>2. h \in [SUBSET G -> Int]
    BY <1>1, <2>1 DEF IsSum
  <2>3. h[{}] = 0
    <3>1. all({}) = {}
      OBVIOUS
    <3>2. h[{}] = f[all({})]
      OBVIOUS
    <3>. QED BY <1>1, <3>1, <3>2 DEF IsSum
  <2>4. ASSUME NEW r \in SUBSET G, NEW a \in r PROVE h[r] = v[a] + h[r \ {a}]
    <3>1. r \ {a} \in SUBSET G /\ a \in G
      OBVIOUS
    <3>2. K[a] \in SUBSET S /\ all(r \ {a}) \in SUBSET S
      BY <1>0, <3>1
    <3>3. K[a] \cap all(r \ {a}) = {}
      BY <1>0, <3>1
    <3>4. all(r) = K[a] \cup all(r \ {a})
      BY <1>0, <3>1
    <3>5. h[r] = f[all(r)] /\ h[r \ {a}] = f[all(r \ {a})]
      BY <3>1
    <3>. HIDE DEF all, h
    <3>6. f[K[a] \cup all(r \ {a})] = f[K[a]] + f[all(r \ {a})]
      <4>. DEFINE A == K[a]
                  B == all(r \ {a})
      <4>1. A \in SUBSET S /\ B \in SUBSET S /\ A \cap B = {}
        BY <3>2, <3>3
      <4>. HIDE DEF A, B
      <4>2. f[A \cup B] = f[A] + f[B]
        BY <1>0, <1>1, <4>1, SumOfParts
      <4>. QED BY <4>2 DEF A, B
    <3>. QED BY <1>2, <3>1, <3>4, <3>5, <3>6
  <2>. HIDE DEF h, all
  <2>. QED BY <2>2, <2>3, <2>4 DEF IsSum
<1>4. SumFunction(v) = h[G]
  <2>. HIDE DEF h
  <2>. QED BY <1>0, <1>3, SumFact
<1>. DEFINE T == all(G)
<1>5. T \in SUBSET S /\ h[G] = f[T]
  OBVIOUS
<1>6. \A x \in S \ T : w[x] = 0
  BY <1>0
<1>. HIDE DEF T, h
<1>7. SumFunction(w) = SumFunction([x \in T |-> w[x]])
  BY <1>0, <1>5, <1>6, SumZeros
<1>8. SumFunction([x \in T |-> w[x]]) = f[T]
  BY <1>0, <1>1, <1>5, SumOfPart
<1>. QED BY <1>4, <1>5, <1>7, <1>8

(* How many there are of something, as a sum.                                *)
LEMMA CountIsSum ==
  ASSUME NEW S, IsFiniteSet(S), NEW A \in SUBSET S
  PROVE  Cardinality(A) = SumFunction([x \in S |-> IF x \in A THEN 1 ELSE 0])
<1>. DEFINE w == [x \in S |-> IF x \in A THEN 1 ELSE 0]
            f == [s \in SUBSET S |-> Cardinality(s \cap A)]
<1>1. ASSUME NEW s \in SUBSET S PROVE IsFiniteSet(s \cap A) /\ Cardinality(s \cap A) \in Int
  BY FS_Subset, FS_CardinalityType
<1>2. f \in [SUBSET S -> Int]
  BY <1>1
<1>3. f[{}] = 0
  <2>1. {} \cap A = {} /\ {} \in SUBSET S
    OBVIOUS
  <2>. QED BY <2>1, FS_EmptySet
<1>4. ASSUME NEW s \in SUBSET S, NEW x \in s PROVE f[s] = w[x] + f[s \ {x}]
  <2>0. s \ {x} \in SUBSET S /\ x \in S
    OBVIOUS
  <2>1. f[s] = Cardinality(s \cap A) /\ f[s \ {x}] = Cardinality((s \ {x}) \cap A)
    BY <2>0
  <2>2. (s \ {x}) \cap A = (s \cap A) \ {x}
    OBVIOUS
  <2>3. Cardinality((s \cap A) \ {x}) = IF x \in A THEN Cardinality(s \cap A) - 1 ELSE Cardinality(s \cap A)
    <3>1. x \in s \cap A <=> x \in A
      OBVIOUS
    <3>. QED BY <1>1, <3>1, FS_RemoveElement
  <2>4. w[x] = IF x \in A THEN 1 ELSE 0
    BY <2>0
  <2>5. Cardinality(s \cap A) \in Int
    BY <1>1
  <2>. HIDE DEF f, w
  <2>6. f[s] = Cardinality(s \cap A)
        /\ f[s \ {x}] = IF x \in A THEN Cardinality(s \cap A) - 1 ELSE Cardinality(s \cap A)
    BY <2>1, <2>2, <2>3
  <2>. QED BY <2>4, <2>5, <2>6
<1>5. w \in [S -> Int] /\ f[S] = Cardinality(A)
  <2>1. S \cap A = A
    OBVIOUS
  <2>. QED BY <2>1
<1>. HIDE DEF w, f
<1>6. IsSum(S, w, f)
  BY <1>2, <1>3, <1>4 DEF IsSum
<1>7. SumFunction(w) = f[S]
  BY <1>5, <1>6, SumFact
<1>. QED BY <1>5, <1>7 DEF w

LEMMA SumOfOne ==
  ASSUME NEW x, NEW w \in [{x} -> Int]
  PROVE  SumFunction(w) = w[x]
<1>1. IsFiniteSet({x})
  BY FS_Singleton
<1>2. PICK f : IsSum({x}, w, f)
  BY <1>1, SumExists
<1>3. {x} \in SUBSET {x} /\ x \in {x} /\ {x} \ {x} = {} /\ w[x] \in Int
  OBVIOUS
<1>4. f[{x}] = w[x] + f[{}] /\ f[{}] = 0
  BY <1>2, <1>3 DEF IsSum
<1>5. SumFunction(w) = f[{x}]
  BY <1>1, <1>2, SumFact
<1>. QED BY <1>3, <1>4, <1>5

(* The same amounts under other names.                                       *)
Renames(S, w, T, h) ==
  /\ IsFiniteSet(S) /\ w \in [S -> Int] /\ IsFiniteSet(T) /\ h \in [T -> S]
  /\ \A t, u \in T : h[t] = h[u] => t = u
  /\ \A x \in S : w[x] # 0 => \E t \in T : h[t] = x

LEMMA SumRenamed ==
  ASSUME NEW S, NEW w, NEW T, NEW h, Renames(S, w, T, h)
  PROVE  SumFunction([t \in T |-> w[h[t]]]) = SumFunction(w)
<1>. DEFINE K == [t \in T |-> {h[t]}]
            v == [t \in T |-> w[h[t]]]
<1>0. /\ IsFiniteSet(S) /\ w \in [S -> Int] /\ IsFiniteSet(T) /\ h \in [T -> S]
      /\ \A t, u \in T : h[t] = h[u] => t = u
      /\ \A x \in S : w[x] # 0 => \E t \in T : h[t] = x
  BY DEF Renames
<1>1. /\ K \in [T -> SUBSET S] /\ v \in [T -> Int]
      /\ \A t, u \in T : t # u => K[t] \cap K[u] = {}
      /\ \A x \in S : w[x] # 0 => \E t \in T : x \in K[t]
  BY <1>0
<1>2. ASSUME NEW t \in T PROVE v[t] = SumFunction([x \in K[t] |-> w[x]])
  <2>1. K[t] = {h[t]} /\ v[t] = w[h[t]] /\ h[t] \in S
    BY <1>0
  <2>. DEFINE one == [x \in {h[t]} |-> w[x]]
  <2>2. one \in [{h[t]} -> Int] /\ one[h[t]] = w[h[t]]
    BY <1>0, <2>1
  <2>. HIDE DEF one, v, K
  <2>3. SumFunction(one) = one[h[t]]
    BY <2>2, SumOfOne
  <2>. QED BY <2>1, <2>2, <2>3 DEF one
<1>. HIDE DEF K, v
<1>3. Grouped(S, w, T, K, v)
  BY <1>0, <1>1, <1>2 DEF Grouped
<1>4. SumFunction(v) = SumFunction(w)
  BY <1>3, SumOfGroups
<1>. QED BY <1>4 DEF v

LEMMA SumLess ==
  ASSUME NEW S, IsFiniteSet(S), NEW u \in [S -> Int], NEW v \in [S -> Int]
  PROVE  SumFunction([x \in S |-> u[x] - v[x]]) = SumFunction(u) - SumFunction(v)
<1>. DEFINE w == [x \in S |-> u[x] - v[x]]
            t == [x \in S |-> w[x] + v[x]]
<1>1. w \in [S -> Int]
  OBVIOUS
<1>2. t = u
  <2>1. \A x \in S : t[x] = u[x]
    OBVIOUS
  <2>2. t = [x \in S |-> t[x]] /\ u = [x \in S |-> u[x]]
    OBVIOUS
  <2>. HIDE DEF t
  <2>. QED BY <2>1, <2>2
<1>. HIDE DEF w
<1>3. SumFunction(t) = SumFunction(w) + SumFunction(v)
  BY <1>1, SumTogether
<1>4. SumFunction(w) \in Int /\ SumFunction(v) \in Int
  BY <1>1, SumType
<1>5. SumFunction(u) = SumFunction(w) + SumFunction(v)
  BY <1>2, <1>3
<1>. HIDE DEF t
<1>. QED BY <1>4, <1>5 DEF w

Halves(S, w, A, B) ==
  /\ IsFiniteSet(S) /\ w \in [S -> Int]
  /\ A \in SUBSET S /\ B \in SUBSET S /\ A \cap B = {} /\ A \cup B = S

LEMMA SumOfHalves ==
  ASSUME NEW S, NEW w, NEW A, NEW B, Halves(S, w, A, B)
  PROVE  SumFunction(w) = SumFunction([x \in A |-> w[x]]) + SumFunction([x \in B |-> w[x]])
<1>. USE DEF Halves
<1>1. PICK f : IsSum(S, w, f)
  BY SumExists
<1>2. f[A \cup B] = f[A] + f[B]
  BY <1>1, SumOfParts
<1>3. SumFunction(w) = f[S]
  BY <1>1, SumFact
<1>4. SumFunction([x \in A |-> w[x]]) = f[A]
  BY <1>1, SumOfPart
<1>5. SumFunction([x \in B |-> w[x]]) = f[B]
  BY <1>1, SumOfPart
<1>. QED BY <1>2, <1>3, <1>4, <1>5

-----------------------------------------------------------------------------
(* Sums along a sequence.                                                    *)

SumOver(s, g) == SumFunction([i \in DOMAIN s |-> g[s[i]]])

LEMMA SumOverType ==
  ASSUME NEW R, NEW g \in [R -> Int], NEW s \in Seq(R)
  PROVE  /\ SumOver(s, g) \in Int /\ IsFiniteSet(DOMAIN s)
         /\ [i \in DOMAIN s |-> g[s[i]]] \in [DOMAIN s -> Int]
<1>1. Len(s) \in Nat /\ DOMAIN s = 1..Len(s) /\ 1 \in Int /\ Len(s) \in Int
      /\ \A i \in DOMAIN s : s[i] \in R
  OBVIOUS
<1>2. IsFiniteSet(DOMAIN s)
  BY <1>1, FS_Interval
<1>3. [i \in DOMAIN s |-> g[s[i]]] \in [DOMAIN s -> Int]
  BY <1>1
<1>. QED BY <1>2, <1>3, SumType DEF SumOver

LEMMA SumOfNone ==
  ASSUME NEW R, NEW g \in [R -> Int]
  PROVE  SumOver(<<>>, g) = 0
<1>. DEFINE w == [i \in DOMAIN <<>> |-> g[<<>>[i]]]
<1>1. DOMAIN <<>> = {} /\ IsFiniteSet({})
  BY FS_EmptySet
<1>2. w \in [{} -> Int]
  BY <1>1
<1>. HIDE DEF w
<1>3. PICK f : IsSum({}, w, f)
  BY <1>1, <1>2, SumExists
<1>4. SumFunction(w) = f[{}] /\ f[{}] = 0
  BY <1>1, <1>2, <1>3, SumFact DEF IsSum
<1>. QED BY <1>4 DEF w, SumOver

LEMMA SumOverBoth ==
  ASSUME NEW R, NEW g \in [R -> Int], NEW a \in Seq(R), NEW b \in Seq(R)
  PROVE  SumOver(a \o b, g) = SumOver(a, g) + SumOver(b, g)
<1>. DEFINE n == Len(a)
            k == Len(b)
            s == a \o b
            w == [i \in 1..n + k |-> g[s[i]]]
            N == 1..n + k
            A == 1..n
            B == n + 1..n + k
            T == 1..k
            h == [i \in T |-> n + i]
            v == [j \in B |-> w[j]]
<1>1. n \in Nat /\ k \in Nat /\ DOMAIN a = 1..n /\ DOMAIN b = 1..k
  OBVIOUS
<1>2. s \in Seq(R) /\ DOMAIN s = 1..n + k
      /\ (\A i \in 1..n : s[i] = a[i]) /\ (\A i \in n + 1..n + k : s[i] = b[i - n])
  <2>1. s \in Seq(R) /\ Joined(a, b, s)
    BY TwoLists
  <2>. HIDE DEF s
  <2>2. DOMAIN s = 1..Len(s)
    BY <2>1
  <2>3. /\ Len(s) = n + k
        /\ (\A i \in 1..n : s[i] = a[i]) /\ (\A i \in n + 1..n + k : s[i] = b[i - n])
    BY <2>1 DEF Joined
  <2>. HIDE DEF n, k
  <2>. QED BY <2>1, <2>2, <2>3
<1>3. SumOver(s, g) = SumFunction(w) /\ IsFiniteSet(1..n + k) /\ w \in [1..n + k -> Int]
  <2>1. w = [i \in DOMAIN s |-> g[s[i]]]
    BY <1>2
  <2>. HIDE DEF s, w, n, k
  <2>2. IsFiniteSet(DOMAIN s) /\ [i \in DOMAIN s |-> g[s[i]]] \in [DOMAIN s -> Int]
    BY <1>2, SumOverType
  <2>. QED BY <1>2, <2>1, <2>2 DEF SumOver
<1>. HIDE DEF s, n, k
<1>4. A \in SUBSET (1..n + k) /\ B \in SUBSET (1..n + k) /\ A \cap B = {} /\ A \cup B = 1..n + k
  BY <1>1
<1>5. SumOver(a, g) = SumFunction([i \in A |-> w[i]])
  <2>1. \A i \in 1..n : g[a[i]] = w[i]
    BY <1>1, <1>2
  <2>2. [i \in 1..n |-> g[a[i]]] = [i \in A |-> w[i]]
    <3>. HIDE DEF w
    <3>. QED BY <2>1
  <2>. QED BY <1>1, <2>2 DEF SumOver
<1>6. SumOver(b, g) = SumFunction([i \in 1..k |-> v[h[i]]])
  <2>1. ASSUME NEW i \in 1..k PROVE g[b[i]] = v[h[i]]
    <3>1. h[i] = n + i /\ n + i \in B /\ n + i \in 1..n + k /\ (n + i) - n = i
      BY <1>1
    <3>2. v[h[i]] = g[s[n + i]] /\ s[n + i] = b[i]
      BY <1>2, <3>1
    <3>. QED BY <3>2
  <2>2. [i \in 1..k |-> g[b[i]]] = [i \in 1..k |-> v[h[i]]]
    <3>. HIDE DEF h, v
    <3>. QED BY <2>1
  <2>. HIDE DEF h, v
  <2>. QED BY <1>1, <2>2 DEF SumOver
<1>7. /\ IsFiniteSet(B) /\ v \in [B -> Int] /\ IsFiniteSet(1..k) /\ h \in [1..k -> B]
      /\ \A i, j \in 1..k : h[i] = h[j] => i = j
      /\ \A x \in B : \E i \in 1..k : h[i] = x
  <2>1. IsFiniteSet(B)
    BY <1>3, <1>4, FS_Subset
  <2>2. v \in [B -> Int]
    <3>. HIDE DEF B, w
    <3>. QED BY <1>3, <1>4
  <2>3. IsFiniteSet(1..k)
    <3>1. 1 \in Int /\ k \in Int
      BY <1>1
    <3>. QED BY <3>1, FS_Interval
  <2>4. h \in [1..k -> B] /\ \A i, j \in 1..k : h[i] = h[j] => i = j
    BY <1>1
  <2>5. ASSUME NEW x \in B PROVE \E i \in 1..k : h[i] = x
    <3>1. x - n \in 1..k /\ h[x - n] = x
      BY <1>1
    <3>. QED BY <3>1
  <2>. QED BY <2>1, <2>2, <2>3, <2>4, <2>5
<1>14. SumFunction([i \in T |-> v[h[i]]]) = SumFunction(v)
  <2>1. /\ IsFiniteSet(B) /\ v \in [B -> Int] /\ IsFiniteSet(T) /\ h \in [T -> B]
        /\ \A i, j \in T : h[i] = h[j] => i = j
        /\ \A x \in B : \E i \in T : h[i] = x
    BY <1>7
  <2>. HIDE DEF h, v, B, T, w, N, A
  <2>2. Renames(B, v, T, h)
    BY <2>1 DEF Renames
  <2>. QED BY <2>2, SumRenamed
<1>8. SumOver(b, g) = SumFunction(v)
  BY <1>6, <1>14
<1>15. /\ IsFiniteSet(N) /\ w \in [N -> Int]
       /\ A \in SUBSET N /\ B \in SUBSET N /\ A \cap B = {}
  BY <1>3, <1>4
<1>16. A \cup B = N
  BY <1>4
<1>. HIDE DEF h, B, A, N, w, T, v
<1>9. SumFunction(w) = SumFunction([x \in A |-> w[x]]) + SumFunction([x \in B |-> w[x]])
  <2>1. Halves(N, w, A, B)
    BY <1>15, <1>16 DEF Halves
  <2>. QED BY <2>1, SumOfHalves
<1>10. v = [x \in B |-> w[x]]
  BY DEF v
<1>11. SumOver(a, g) = SumFunction([x \in A |-> w[x]])
  BY <1>5
<1>. QED BY <1>3, <1>8, <1>9, <1>10, <1>11 DEF s

LEMMA SumOfMore ==
  ASSUME NEW R, NEW g \in [R -> Int], NEW s \in Seq(R), NEW x \in R
  PROVE  SumOver(Append(s, x), g) = SumOver(s, g) + g[x] /\ SumOver(<<x>>, g) = g[x]
<1>. DEFINE one == <<x>>
            w == [i \in DOMAIN one |-> g[one[i]]]
<1>1. one \in Seq(R) /\ DOMAIN one = {1} /\ one[1] = x /\ Append(s, x) = s \o one
  OBVIOUS
<1>2. SumOver(s \o one, g) = SumOver(s, g) + SumOver(one, g)
  <2>. HIDE DEF one
  <2>. QED BY <1>1, SumOverBoth
<1>3. w \in [{1} -> Int] /\ w[1] = g[x]
  BY <1>1
<1>. HIDE DEF one, w
<1>4. SumFunction(w) = w[1]
  BY <1>3, SumOfOne
<1>5. SumOver(one, g) = SumFunction(w)
  BY DEF SumOver, w
<1>. QED BY <1>1, <1>2, <1>3, <1>4, <1>5 DEF one

(* Of what is picked from a sequence, the sum is over the places picked.     *)
LEMMA SumPicked ==
  ASSUME NEW R, NEW g \in [R -> Int], NEW s \in Seq(R), NEW J \in SUBSET (DOMAIN s)
  PROVE  SumOver(Picked(s, J), g) = SumFunction([i \in J |-> g[s[i]]])
<1>. DEFINE n == Cardinality(J)
            h == Ascending(J)
            w == [i \in J |-> g[s[i]]]
            picked == Picked(s, J)
<1>1. Len(s) \in Nat /\ DOMAIN s = 1..Len(s) /\ \A i \in DOMAIN s : s[i] \in R
  OBVIOUS
<1>2. IsFiniteSet(J) /\ J \subseteq Nat
  BY <1>1, SumOverType, FS_Subset
<1>3. Lists(n, h, J)
  BY <1>2, AscendingLists
<1>4. picked = [i \in DOMAIN h |-> s[h[i]]]
  BY Zenon DEF Picked
<1>. HIDE DEF h, n, picked
<1>5. /\ n \in Nat /\ h \in [1..n -> J]
      /\ \A i, j \in 1..n : h[i] = h[j] => i = j
      /\ \A x \in J : \E i \in 1..n : h[i] = x
  BY <1>3 DEF Lists
<1>6. w \in [J -> Int]
  BY <1>1
<1>7. IsFiniteSet(1..n)
  <2>1. 1 \in Int /\ n \in Int
    BY <1>5
  <2>. QED BY <2>1, FS_Interval
<1>8. DOMAIN picked = 1..n /\ \A i \in 1..n : g[picked[i]] = w[h[i]]
  BY <1>4, <1>5
<1>9. [i \in DOMAIN picked |-> g[picked[i]]] = [i \in 1..n |-> w[h[i]]]
  <2>. HIDE DEF w
  <2>. QED BY <1>8
<1>. HIDE DEF w
<1>10. SumFunction([i \in 1..n |-> w[h[i]]]) = SumFunction(w)
  <2>. DEFINE T == 1..n
  <2>1. /\ IsFiniteSet(T) /\ h \in [T -> J]
        /\ \A i, j \in T : h[i] = h[j] => i = j
        /\ \A x \in J : \E i \in T : h[i] = x
    BY <1>5, <1>7
  <2>. HIDE DEF T
  <2>. HIDE DEF h, n
  <2>2. SumFunction([i \in T |-> w[h[i]]]) = SumFunction(w)
    <3>1. Renames(J, w, T, h)
      BY <1>2, <1>6, <2>1 DEF Renames
    <3>. QED BY <3>1, SumRenamed
  <2>. QED BY <2>2 DEF T
<1>11. SumOver(picked, g) = SumFunction(w)
  BY <1>9, <1>10 DEF SumOver
<1>. QED BY <1>11 DEF w, picked
=============================================================================
