-------------------------- MODULE LiveStream_proofs --------------------------
(***************************************************************************)
(* Proofs about the browser's live surfaces, for any set of surfaces and   *)
(* any number of writes, drops, failures, navigations and hidden tabs: the *)
(* gate never has two reads in the air, nothing is forgotten, and a        *)
(* re-read never puts an older picture over a newer one.                   *)
(***************************************************************************)
EXTENDS LiveStream, TLAPS

(* The inductive part about one surface: every read in the air began at or  *)
(* after what is on the screen, and there is at most one.                   *)
Sound(sc) ==
    /\ sc.view <= version
    /\ \A since \in sc.reads : since <= version /\ sc.view <= since
    /\ sc.inFlight <=> sc.reads # {}
    /\ \A a, b \in sc.reads : a = b

Kept(sc) == Listening(sc) /\ Behind(sc) => Coming(sc)

Good(sc) == Sound(sc) /\ Kept(sc)

IInv == StreamTypeOK /\ \A s \in Surfaces : Good(screen[s])

(* A gate that fires either starts a read of the present or owes one.       *)
LEMMA FireKeeps ==
    ASSUME version \in Nat, NEW sc \in Screen, Sound(sc), NEW hidden \in BOOLEAN
    PROVE  LET f == Fire(sc, hidden)
           IN  /\ f \in Screen
               /\ Sound(f)
               /\ f.view = sc.view
               /\ \/ version \in f.reads
                  \/ f.owed /\ (f.inFlight \/ hidden)
<1>1. CASE sc.inFlight \/ hidden
    BY <1>1 DEF Fire, Screen, Sound
<1>2. CASE ~(sc.inFlight \/ hidden)
    <2>1. sc.reads = {}
        BY <1>2 DEF Screen, Sound
    <2>2. Fire(sc, hidden) = [sc EXCEPT !.inFlight = TRUE, !.reads = {version}]
        BY <2>1, <1>2 DEF Fire, Screen
    <2>3. /\ Fire(sc, hidden).inFlight = TRUE
          /\ Fire(sc, hidden).reads = {version}
          /\ Fire(sc, hidden).view = sc.view
        BY <2>2 DEF Screen
    <2>4. Fire(sc, hidden) \in Screen
        <3>1. {version} \in SUBSET Nat
            OBVIOUS
        <3>2. QED BY <2>2, <3>1 DEF Screen
    <2>5. Sound(Fire(sc, hidden))
        BY <2>3 DEF Sound, Screen
    <2>6. QED BY <2>3, <2>4, <2>5
<1>3. QED BY <1>1, <1>2

(* A debt is collected when the tab is shown or the read in the air ends.   *)
LEMMA ShownKeeps ==
    ASSUME version \in Nat, NEW sc \in Screen, Sound(sc), NEW hidden \in BOOLEAN
    PROVE  LET f == Shown(sc, hidden)
           IN  /\ f \in Screen
               /\ Sound(f)
               /\ f.view = sc.view
               /\ f.mounted = sc.mounted
               /\ f.topics = sc.topics
               /\ f.event = sc.event
               /\ f.timer = sc.timer
               /\ f.failed = sc.failed
               /\ sc.owed => \/ version \in f.reads
                             \/ f.owed /\ (f.inFlight \/ hidden)
               /\ ~sc.owed => f = sc
<1> DEFINE paid == [sc EXCEPT !.owed = FALSE]
<1>1. paid \in Screen /\ Sound(paid)
    BY DEF Screen, Sound
<1>2. CASE ~sc.owed \/ sc.inFlight
    BY <1>2 DEF Shown
<1>3. CASE sc.owed /\ ~sc.inFlight
    <2>1. Shown(sc, hidden) = Fire(paid, hidden)
        BY <1>3 DEF Shown
    <2>2. /\ Fire(paid, hidden) \in Screen
          /\ Sound(Fire(paid, hidden))
          /\ Fire(paid, hidden).view = paid.view
          /\ \/ version \in Fire(paid, hidden).reads
             \/ Fire(paid, hidden).owed /\ (Fire(paid, hidden).inFlight \/ hidden)
        BY <1>1, FireKeeps
    <2>3. /\ Fire(paid, hidden).mounted = sc.mounted
          /\ Fire(paid, hidden).topics = sc.topics
          /\ Fire(paid, hidden).event = sc.event
          /\ Fire(paid, hidden).timer = sc.timer
          /\ Fire(paid, hidden).failed = sc.failed
        BY DEF Fire, Screen
    <2>4. paid.view = sc.view
        BY DEF Screen
    <2>5. QED BY <2>1, <2>2, <2>3, <2>4, <1>3
<1>4. QED BY <1>2, <1>3

(* A step of one surface, which leaves the stream, the page and the data.   *)
LEMMA OneSurface ==
    ASSUME IInv, NEW s \in Surfaces, NEW f \in Screen, Sound(f), Kept(f),
           UNCHANGED <<version, link, page, expired>>,
           pageTrouble' \in 0..MaxPageTrouble,
           screen' = [screen EXCEPT ![s] = f]
    PROVE  IInv'
<1>1. StreamTypeOK'
    BY DEF IInv, StreamTypeOK
<1>2. ASSUME NEW r \in Surfaces PROVE Good(screen[r])'
    <2>1. screen'[r] = IF r = s THEN f ELSE screen[r]
        BY DEF IInv, StreamTypeOK
    <2>2. Good(screen[r]) /\ Good(f)
        BY DEF IInv, Good
    <2>3. QED BY <2>1, <2>2 DEF Good, Sound, Kept, Listening, Behind, Coming
<1>3. QED BY <1>1, <1>2 DEF IInv


LEMMA DeliverKeeps ==
    ASSUME IInv, NEW s \in Surfaces, Deliver(s)
    PROVE  IInv'
<1> DEFINE f == Request([screen[s] EXCEPT !.event = FALSE])
<1>1. screen[s] \in Screen /\ Good(screen[s])
    BY DEF IInv, StreamTypeOK
<1>2. f \in Screen
    BY <1>1 DEF Request, Screen
<1>3. Sound(f) /\ Kept(f)
    BY <1>1 DEF Good, Sound, Kept, Coming, Request, Screen
<1>4. pageTrouble' \in 0..MaxPageTrouble
    BY DEF Deliver, IInv, StreamTypeOK
<1>5. QED BY <1>2, <1>3, <1>4, OneSurface DEF Deliver

LEMMA TimerFiresKeeps ==
    ASSUME IInv, NEW s \in Surfaces, TimerFires(s)
    PROVE  IInv'
<1> DEFINE x == [screen[s] EXCEPT !.timer = FALSE]
           f == Fire(x, page = "hidden")
<1>1. screen[s] \in Screen /\ Good(screen[s]) /\ version \in Nat
    BY StreamAssumption DEF IInv, StreamTypeOK
<1>2. x \in Screen /\ Sound(x)
    BY <1>1 DEF Good, Sound, Screen
<1>3. /\ f \in Screen
      /\ Sound(f)
      /\ \/ version \in f.reads
         \/ f.owed /\ (f.inFlight \/ page = "hidden")
    <2>1. (page = "hidden") \in BOOLEAN
        OBVIOUS
    <2>2. QED BY <1>1, <1>2, <2>1, FireKeeps
<1>4. Kept(f)
    BY <1>3 DEF Kept, Coming
<1>5. pageTrouble' \in 0..MaxPageTrouble
    BY DEF TimerFires, IInv, StreamTypeOK
<1>6. QED BY <1>3, <1>4, <1>5, OneSurface DEF TimerFires

(* A read that lands is of a moment since it began: if that is not now, the *)
(* write it missed had an event, a timer or a debt, and those it leaves.    *)
LEMMA LandsKeeps ==
    ASSUME IInv, NEW s \in Surfaces, Lands(s)
    PROVE  IInv'
<1>0. PICK since \in screen[s].reads : \E seen \in since..version :
        screen' = [screen EXCEPT
                     ![s] = ReadSettled(Landed(@, since, seen), page = "hidden")]
    BY DEF Lands
<1>1. PICK seen \in since..version :
        screen' = [screen EXCEPT
                     ![s] = ReadSettled(Landed(@, since, seen), page = "hidden")]
    BY <1>0
<1> DEFINE z == [Landed(screen[s], since, seen) EXCEPT !.inFlight = FALSE]
           f == Shown(z, page = "hidden")
<1>2. /\ screen[s] \in Screen
      /\ Good(screen[s])
      /\ version \in Nat
      /\ since \in Nat
    BY StreamAssumption DEF IInv, StreamTypeOK, Screen
<1>3. screen[s].reads \ {since} = {}
    BY <1>2 DEF Good, Sound
<1>4. /\ z \in Screen
      /\ z.reads = {} /\ z.inFlight = FALSE /\ z.view = seen /\ z.failed = FALSE
      /\ z.owed = screen[s].owed
      /\ z.event = screen[s].event
      /\ z.timer = screen[s].timer
      /\ z.mounted = screen[s].mounted
      /\ z.topics = screen[s].topics
    <2>1. z = [screen[s] EXCEPT !.reads = {}, !.view = seen, !.failed = FALSE,
                               !.inFlight = FALSE]
        BY <1>2, <1>3 DEF Landed, Screen
    <2>2. seen \in Nat /\ {} \in SUBSET Nat
        BY <1>2
    <2>3. QED BY <1>2, <2>1, <2>2 DEF Screen
<1>5. Sound(z)
    BY <1>2, <1>4 DEF Sound
<1>6. /\ f \in Screen
      /\ Sound(f)
      /\ f.event = z.event /\ f.timer = z.timer
      /\ f.mounted = z.mounted /\ f.topics = z.topics
      /\ z.owed => \/ version \in f.reads
                   \/ f.owed /\ (f.inFlight \/ page = "hidden")
      /\ ~z.owed => f = z
    BY <1>2, <1>4, <1>5, ShownKeeps
<1>7. Kept(f)
    <2>1. CASE z.owed
        BY <2>1, <1>6 DEF Kept, Coming
    <2>2. CASE ~z.owed
        <3>1. SUFFICES ASSUME Listening(z), Behind(z) PROVE Coming(z)
            BY <2>2, <1>6 DEF Kept
        <3>2. since < version
            BY <3>1, <1>2, <1>4 DEF Behind
        <3>3. Listening(screen[s]) /\ Behind(screen[s])
            BY <3>1, <3>2, <1>4 DEF Listening, Behind
        <3>4. Coming(screen[s])
            BY <3>3, <1>2 DEF Good, Kept
        <3>5. version \notin screen[s].reads
            BY <3>2, <1>2 DEF Good, Sound
        <3>6. QED BY <3>4, <3>5, <2>2, <1>4 DEF Coming
    <2>3. QED BY <2>1, <2>2
<1>8. pageTrouble' \in 0..MaxPageTrouble
    BY DEF Lands, IInv, StreamTypeOK
<1>9. screen' = [screen EXCEPT ![s] = f]
    BY <1>1 DEF ReadSettled
<1>10. QED BY <1>6, <1>7, <1>8, <1>9, OneSurface DEF Lands

LEMMA ReadFailsKeeps ==
    ASSUME IInv, NEW s \in Surfaces, ReadFails(s)
    PROVE  IInv'
<1>1. PICK since \in screen[s].reads :
        screen' = [screen EXCEPT
                     ![s] = ReadSettled(Swallowed(@, since), page = "hidden")]
    BY DEF ReadFails
<1> DEFINE z == [Swallowed(screen[s], since) EXCEPT !.inFlight = FALSE]
           f == Shown(z, page = "hidden")
<1>2. /\ screen[s] \in Screen
      /\ Good(screen[s])
      /\ version \in Nat
      /\ since \in Nat
    BY StreamAssumption DEF IInv, StreamTypeOK, Screen
<1>3. screen[s].reads \ {since} = {}
    BY <1>2 DEF Good, Sound
<1>4. /\ z \in Screen
      /\ z.reads = {} /\ z.inFlight = FALSE /\ z.view = screen[s].view
      /\ z.owed \/ z.timer \/ z.failed
    <2>1. z = [screen[s] EXCEPT !.reads = {}, !.failed = ~screen[s].owed /\ ~screen[s].timer,
                               !.inFlight = FALSE]
        BY <1>2, <1>3 DEF Swallowed, Screen
    <2>2. /\ {} \in SUBSET Nat
          /\ (~screen[s].owed /\ ~screen[s].timer) \in BOOLEAN
        OBVIOUS
    <2>3. QED BY <1>2, <2>1, <2>2 DEF Screen
<1>5. Sound(z)
    BY <1>2, <1>4 DEF Good, Sound
<1>6. /\ f \in Screen
      /\ Sound(f)
      /\ z.owed => \/ version \in f.reads
                   \/ f.owed /\ (f.inFlight \/ page = "hidden")
      /\ ~z.owed => f = z
    BY <1>2, <1>4, <1>5, ShownKeeps
<1>7. Kept(f)
    BY <1>4, <1>6 DEF Kept, Coming, Behind
<1>8. pageTrouble' \in 0..MaxPageTrouble
    BY StreamAssumption DEF ReadFails, PageTroubled, IInv, StreamTypeOK
<1>9. screen' = [screen EXCEPT ![s] = f]
    BY <1>1 DEF ReadSettled
<1>10. QED BY <1>6, <1>7, <1>8, <1>9, OneSurface DEF ReadFails

LEMMA TopicsOpenKeeps ==
    ASSUME IInv, NEW s \in Surfaces, TopicsOpen(s)
    PROVE  IInv'
<1> DEFINE f == OnUp([screen[s] EXCEPT !.topics = "open"])
<1>1. screen[s] \in Screen /\ Good(screen[s])
    BY DEF IInv, StreamTypeOK
<1>2. f \in Screen /\ Sound(f) /\ Kept(f)
    BY <1>1 DEF Good, Sound, Kept, Coming, OnUp, Request, Screen
<1>3. pageTrouble' \in 0..MaxPageTrouble
    BY DEF TopicsOpen, IInv, StreamTypeOK
<1>4. QED BY <1>2, <1>3, OneSurface DEF TopicsOpen

LEMMA GraceEndsKeeps ==
    ASSUME IInv, NEW s \in Surfaces, GraceEnds(s)
    PROVE  IInv'
<1> DEFINE f == [Lost(screen[s]) EXCEPT !.grace = FALSE]
<1>1. screen[s] \in Screen /\ Good(screen[s])
    BY DEF IInv, StreamTypeOK
<1>2. f \in Screen /\ Sound(f) /\ Kept(f)
    BY <1>1 DEF Good, Sound, Kept, Listening, Behind, Coming, Lost, Screen
<1>3. pageTrouble' \in 0..MaxPageTrouble
    BY DEF GraceEnds, IInv, StreamTypeOK
<1>4. QED BY <1>2, <1>3, OneSurface DEF GraceEnds

LEMMA MountingFields ==
    ASSUME NEW v \in Nat
    PROVE  /\ Mounting(v) \in Screen
           /\ Mounting(v).reads = {} /\ Mounting(v).inFlight = FALSE
           /\ Mounting(v).view = v /\ Mounting(v).topics = "closed"
           /\ Mounting(v).mounted = TRUE
<1>1. {} \in SUBSET Nat
    OBVIOUS
<1>2. QED BY <1>1 DEF Mounting, Screen

(* A surface just mounted has nothing to lose: its topics are not open.     *)
LEMMA FreshKeeps ==
    ASSUME version \in Nat, NEW f \in Screen, f.reads = {}, ~f.inFlight,
           f.view \in 0..version, f.topics # "open"
    PROVE  Sound(f) /\ Kept(f)
BY DEF Sound, Kept, Listening, Screen

LEMMA UnmountKeeps ==
    ASSUME IInv, NEW s \in Surfaces, Unmount(s)
    PROVE  IInv'
<1>1. version \in Nat /\ 0 \in 0..version
    BY StreamAssumption DEF IInv, StreamTypeOK
<1>2. /\ Unmounted \in Screen
      /\ Unmounted.reads = {} /\ Unmounted.inFlight = FALSE
      /\ Unmounted.view = 0 /\ Unmounted.topics = "closed"
    <2>1. /\ Mounting(0) \in Screen
          /\ Mounting(0).reads = {} /\ Mounting(0).inFlight = FALSE
          /\ Mounting(0).view = 0 /\ Mounting(0).topics = "closed"
        BY MountingFields, 0 \in Nat, Zenon
    <2>2. QED BY <2>1 DEF Unmounted, Screen
<1>3. Sound(Unmounted) /\ Kept(Unmounted)
    BY <1>1, <1>2, FreshKeeps
<1>4. pageTrouble' \in 0..MaxPageTrouble
    BY StreamAssumption DEF Unmount, PageTroubled, IInv, StreamTypeOK
<1>5. QED BY <1>2, <1>3, <1>4, OneSurface DEF Unmount

LEMMA MountKeeps ==
    ASSUME IInv, NEW s \in Surfaces, Mount(s)
    PROVE  IInv'
<1>1. version \in Nat
    BY StreamAssumption DEF IInv, StreamTypeOK
<1>2. PICK rendered \in 0..version :
        \/ LeaveForLogin
        \/ screen' = [screen EXCEPT ![s] = Mounting(rendered)] /\ page' = page
        \/ screen' = [screen EXCEPT ![s] = Up(Mounting(rendered))] /\ page' = page
    BY DEF Mount
<1> DEFINE m == Mounting(rendered)
<1>3. /\ m \in Screen /\ m.reads = {} /\ m.inFlight = FALSE
      /\ m.view = rendered /\ m.topics = "closed" /\ m.mounted = TRUE
    <2>1. rendered \in Nat
        BY <1>1
    <2>2. QED BY <2>1, MountingFields, Zenon
<1>4. m \in Screen /\ Sound(m) /\ Kept(m)
    BY <1>1, <1>3, FreshKeeps
<1>5. Up(m) \in Screen /\ Sound(Up(m)) /\ Kept(Up(m))
    <2>1. Up(m) = [m EXCEPT !.topics = "opening"]
        BY <1>3 DEF Up
    <2>2. /\ Up(m) \in Screen /\ Up(m).reads = {} /\ Up(m).inFlight = FALSE
          /\ Up(m).view = rendered /\ Up(m).topics = "opening"
        BY <1>3, <2>1 DEF Screen
    <2>3. QED BY <1>1, <2>2, FreshKeeps
<1>6. pageTrouble' \in 0..MaxPageTrouble
    BY StreamAssumption DEF Mount, PageTroubled, IInv, StreamTypeOK
<1>7. UNCHANGED <<version, link, expired>>
    BY DEF Mount
<1>8. CASE LeaveForLogin
    BY <1>6, <1>7, <1>8 DEF LeaveForLogin, IInv, StreamTypeOK, Pages, Good, Sound, Kept, Listening
<1>9. CASE screen' = [screen EXCEPT ![s] = Mounting(rendered)] /\ page' = page
    BY <1>3, <1>4, <1>6, <1>7, <1>9, OneSurface
<1>10. CASE screen' = [screen EXCEPT ![s] = Up(Mounting(rendered))] /\ page' = page
    BY <1>5, <1>6, <1>7, <1>10, OneSurface
<1>11. QED BY <1>2, <1>8, <1>9, <1>10

LEMMA TopicsFailKeeps ==
    ASSUME IInv, NEW s \in Surfaces, TopicsFail(s)
    PROVE  IInv'
<1> DEFINE f(r) == Lost(IF r = s THEN [screen[r] EXCEPT !.topics = "closed"]
                                 ELSE screen[r])
<1>1. ASSUME NEW r \in Surfaces PROVE f(r) \in Screen /\ Sound(f(r)) /\ Kept(f(r))
    <2>1. screen[r] \in Screen /\ Good(screen[r])
        BY DEF IInv, StreamTypeOK
    <2>2. CASE r = s
        BY <2>1, <2>2 DEF Lost, Good, Sound, Kept, Listening, Screen
    <2>3. CASE r # s
        BY <2>1, <2>3 DEF Lost, Good, Sound, Kept, Listening, Behind, Coming, Screen
    <2>4. QED BY <2>2, <2>3
<1>2. screen' = [r \in Surfaces |-> f(r)]
    BY DEF TopicsFail
<1>3. UNCHANGED <<version, link, page, expired>> /\ pageTrouble' \in 0..MaxPageTrouble
    BY StreamAssumption DEF TopicsFail, PageTroubled, IInv, StreamTypeOK
<1>4. StreamTypeOK'
    BY <1>1, <1>2, <1>3 DEF IInv, StreamTypeOK
<1>5. ASSUME NEW r \in Surfaces PROVE Good(screen[r])'
    <2>1. screen'[r] = f(r)
        BY <1>2
    <2>2. Sound(f(r)) /\ Kept(f(r))
        BY <1>1
    <2>3. Sound(screen[r])'
        BY <2>1, <2>2, <1>3 DEF Sound
    <2>4. Kept(screen[r])'
        BY <2>1, <2>2, <1>3 DEF Kept, Listening, Behind, Coming
    <2>5. QED BY <2>3, <2>4 DEF Good
<1>6. QED BY <1>4, <1>5 DEF IInv

(* The stream goes: nobody is listening any more.                           *)
LEMMA LinkDownKeeps ==
    ASSUME IInv, Drop \/ ConnectFails
    PROVE  IInv'
<1> DEFINE f(r) == IF Drop THEN [Lost(screen[r]) EXCEPT !.event = FALSE]
                           ELSE Lost(screen[r])
<1>1. ASSUME NEW r \in Surfaces PROVE f(r) \in Screen /\ Sound(f(r))
    <2>1. screen[r] \in Screen /\ Sound(screen[r])
        BY DEF IInv, StreamTypeOK, Good
    <2>2. CASE Drop
        <3>1. f(r) = [Lost(screen[r]) EXCEPT !.event = FALSE]
            BY <2>2
        <3>2. QED BY <2>1, <3>1 DEF Lost, Sound, Screen
    <2>3. CASE ~Drop
        <3>1. f(r) = Lost(screen[r])
            BY <2>3
        <3>2. QED BY <2>1, <3>1 DEF Lost, Sound, Screen
    <2>4. QED BY <2>2, <2>3
<1>2. screen' = [r \in Surfaces |-> f(r)]
    BY DEF Drop, ConnectFails, LoseAll
<1>3. /\ version' = version /\ page' = page /\ expired' = expired
      /\ link' \in Links \ {"open"} /\ pageTrouble' \in 0..MaxPageTrouble
    BY StreamAssumption DEF Drop, ConnectFails, PageTroubled, IInv, StreamTypeOK, Links
<1>4. StreamTypeOK'
    BY <1>1, <1>2, <1>3 DEF IInv, StreamTypeOK
<1>5. ASSUME NEW r \in Surfaces PROVE Good(screen[r])'
    <2>1. screen'[r] = f(r)
        BY <1>2
    <2>2. QED BY <2>1, <1>1, <1>3 DEF Good, Sound, Kept, Listening
<1>6. QED BY <1>4, <1>5 DEF IInv

(* The stream comes (back) up: a surface whose topics were open asks to be  *)
(* refreshed, since nothing written meanwhile reached it.                   *)
LEMMA LinkUpKeeps ==
    ASSUME IInv, Connected \/ Reopened
    PROVE  IInv'
<1>1. /\ version' = version /\ expired' = expired /\ link' = "open"
      /\ pageTrouble' = pageTrouble /\ AnnounceUp
    BY DEF Connected, Reopened
<1>2. CASE expired
    BY <1>1, <1>2
    DEF AnnounceUp, LeaveForLogin, IInv, StreamTypeOK, Links, Pages, Good, Sound, Kept, Listening
<1>3. CASE ~expired
    <2>1. screen' = [r \in Surfaces |-> Up(screen[r])] /\ page' = page
        BY <1>1, <1>3 DEF AnnounceUp
    <2>2. ASSUME NEW r \in Surfaces
          PROVE  /\ Up(screen[r]) \in Screen
                 /\ Sound(Up(screen[r]))
                 /\ \/ Up(screen[r]).topics # "open"
                    \/ ~Up(screen[r]).mounted
                    \/ Up(screen[r]).timer
        <3>1. screen[r] \in Screen /\ Sound(screen[r])
            BY DEF IInv, StreamTypeOK, Good
        <3>2. CASE ~screen[r].mounted
            BY <3>1, <3>2 DEF Up
        <3>3. CASE screen[r].mounted /\ screen[r].topics = "closed"
            <4>1. Up(screen[r]) = [screen[r] EXCEPT !.topics = "opening"]
                BY <3>3 DEF Up
            <4>2. QED BY <3>1, <4>1 DEF Screen, Sound
        <3>4. CASE screen[r].mounted /\ screen[r].topics = "opening"
            BY <3>1, <3>4 DEF Up
        <3>5. CASE screen[r].mounted /\ screen[r].topics = "open"
            <4>1. Up(screen[r]) = OnUp(screen[r])
                BY <3>5 DEF Up
            <4>2. QED BY <3>1, <4>1 DEF OnUp, Request, Screen, Sound
        <3>6. screen[r].topics \in {"closed", "opening", "open"}
            BY <3>1 DEF Screen
        <3>7. QED BY <3>2, <3>3, <3>4, <3>5, <3>6
    <2>3. StreamTypeOK'
        BY <1>1, <2>1, <2>2 DEF IInv, StreamTypeOK, Links
    <2>4. ASSUME NEW r \in Surfaces PROVE Good(screen[r])'
        <3>1. screen'[r] = Up(screen[r])
            BY <2>1
        <3>2. QED BY <3>1, <2>1, <2>2, <1>1 DEF Good, Sound, Kept, Listening, Coming
    <2>5. QED BY <2>3, <2>4 DEF IInv
<1>4. QED BY <1>2, <1>3

(* A write reaches the wire of everyone listening.                          *)
LEMMA WriteKeeps ==
    ASSUME IInv, Write
    PROVE  IInv'
<1> DEFINE heard(r) == link = "open" /\ screen[r].topics = "open"
           f(r) == [screen[r] EXCEPT !.event = @ \/ heard(r)]
<1>1. screen' = [r \in Surfaces |-> f(r)]
    BY DEF Write
<1>2. /\ version' = version + 1 /\ version' \in 0..MaxVersion /\ version \in Nat
      /\ UNCHANGED <<link, page, expired, pageTrouble>>
    BY StreamAssumption DEF Write, IInv, StreamTypeOK
<1>3. ASSUME NEW r \in Surfaces
      PROVE  /\ f(r) \in Screen
             /\ f(r).view = screen[r].view /\ f(r).reads = screen[r].reads
             /\ f(r).inFlight = screen[r].inFlight
             /\ f(r).topics = screen[r].topics
             /\ heard(r) => f(r).event
    <2>1. screen[r] \in Screen
        BY DEF IInv, StreamTypeOK
    <2>2. (screen[r].event \/ heard(r)) \in BOOLEAN
        OBVIOUS
    <2>3. QED BY <2>1, <2>2 DEF Screen
<1>4. StreamTypeOK'
    BY <1>1, <1>2, <1>3 DEF IInv, StreamTypeOK
<1>5. ASSUME NEW r \in Surfaces PROVE Good(screen[r])'
    <2>1. screen'[r] = f(r)
        BY <1>1
    <2>2. Sound(screen[r]) /\ screen[r] \in Screen
        BY DEF IInv, StreamTypeOK, Good
    <2>3. Sound(screen[r])'
        BY <2>1, <2>2, <1>2, <1>3 DEF Sound, Screen
    <2>4. Kept(screen[r])'
        BY <2>1, <1>2, <1>3 DEF Kept, Listening, Coming
    <2>5. QED BY <2>3, <2>4 DEF Good
<1>6. QED BY <1>4, <1>5 DEF IInv

(* Showing the tab collects every debt a hidden tab ran up.                 *)
LEMMA ShowKeeps ==
    ASSUME IInv, Show
    PROVE  IInv'
<1> DEFINE f(r) == Shown(screen[r], FALSE)
<1>1. screen' = [r \in Surfaces |-> f(r)]
    BY DEF Show
<1>2. /\ UNCHANGED <<version, expired, pageTrouble>>
      /\ page = "hidden" /\ page' \in {"left", "visible"}
      /\ link' \in Links
      /\ link' = "open" => link = "open"
    BY DEF Show, IInv, StreamTypeOK, Links
<1>3. ASSUME NEW r \in Surfaces
      PROVE  LET sc == screen[r]
             IN  /\ f(r) \in Screen
                 /\ Sound(f(r))
                 /\ f(r).view = sc.view
                 /\ f(r).mounted = sc.mounted
                 /\ f(r).topics = sc.topics
                 /\ f(r).event = sc.event
                 /\ f(r).timer = sc.timer
                 /\ f(r).failed = sc.failed
                 /\ sc.owed => \/ version \in f(r).reads
                               \/ f(r).owed /\ (f(r).inFlight \/ FALSE)
                 /\ ~sc.owed => f(r) = sc
    <2>1. screen[r] \in Screen /\ Sound(screen[r]) /\ version \in Nat
        BY StreamAssumption DEF IInv, StreamTypeOK, Good
    <2>2. QED BY <2>1, ShownKeeps
<1>4. StreamTypeOK'
    BY <1>1, <1>2, <1>3 DEF IInv, StreamTypeOK, Pages
<1>5. ASSUME NEW r \in Surfaces PROVE Good(screen[r])'
    <2>1. screen'[r] = f(r)
        BY <1>1
    <2>2. Sound(screen[r])'
        <3>1. Sound(f(r))
            BY <1>3
        <3>2. QED BY <2>1, <3>1, <1>2 DEF Sound
    <2>3. CASE screen[r].owed
        <3>1. Coming(screen[r])'
            BY <2>1, <2>3, <1>2, <1>3 DEF Coming
        <3>2. QED BY <2>2, <3>1 DEF Good, Kept
    <2>4. CASE ~screen[r].owed
        <3>1. screen'[r] = screen[r]
            BY <2>1, <2>4, <1>3
        <3>2. Kept(screen[r])
            BY DEF IInv, Good
        <3>3. Kept(screen[r])'
            BY <3>1, <3>2, <2>4, <1>2 DEF Kept, Listening, Behind, Coming
        <3>4. QED BY <2>2, <3>3 DEF Good
    <2>5. QED BY <2>3, <2>4
<1>6. QED BY <1>4, <1>5 DEF IInv

(* The rest leave every surface's gate alone.                               *)
LEMMA QuietKeeps ==
    ASSUME IInv, ConnectRefused \/ Cleared \/ Retry \/ Hide \/ TokenExpires
                 \/ UNCHANGED streamVars
    PROVE  IInv'
<1>1. /\ UNCHANGED <<version, screen>>
      /\ link' \in Links /\ (link' = "open" => link = "open")
      /\ page' \in Pages
      /\ page' = page \/ (page = "visible" /\ page' = "hidden") \/ page' = "left"
      /\ expired' \in BOOLEAN /\ pageTrouble' \in 0..MaxPageTrouble
    <2>1. CASE ConnectRefused
        BY <2>1, StreamAssumption
        DEF ConnectRefused, LeaveForLogin, PageTroubled, IInv, StreamTypeOK, Links, Pages
    <2>2. CASE Cleared \/ Retry
        BY <2>2 DEF Cleared, Retry, IInv, StreamTypeOK, Links
    <2>3. CASE Hide
        BY <2>3 DEF Hide, IInv, StreamTypeOK, Pages
    <2>4. CASE TokenExpires
        BY <2>4, StreamAssumption DEF TokenExpires, PageTroubled, IInv, StreamTypeOK
    <2>5. CASE UNCHANGED streamVars
        BY <2>5 DEF streamVars, IInv, StreamTypeOK
    <2>6. QED BY <2>1, <2>2, <2>3, <2>4, <2>5
<1>2. StreamTypeOK'
    BY <1>1 DEF IInv, StreamTypeOK
<1>3. ASSUME NEW r \in Surfaces PROVE Good(screen[r])'
    <2>1. Sound(screen[r]) /\ Kept(screen[r])
        BY DEF IInv, Good
    <2>2. Sound(screen[r])'
        BY <1>1, <2>1 DEF Sound
    <2>3. Kept(screen[r])'
        BY <1>1, <2>1 DEF Kept, Listening, Behind, Coming
    <2>4. QED BY <2>2, <2>3 DEF Good
<1>4. QED BY <1>2, <1>3 DEF IInv

LEMMA InitGood == StreamInit => IInv
<1> SUFFICES ASSUME StreamInit PROVE IInv
    OBVIOUS
<1>1. /\ Mounting(0) \in Screen
      /\ Mounting(0).reads = {} /\ Mounting(0).inFlight = FALSE
      /\ Mounting(0).view = 0 /\ Mounting(0).topics = "closed"
    BY MountingFields, 0 \in Nat, Zenon
<1>2. Sound(Mounting(0)) /\ Kept(Mounting(0))
    BY <1>1, FreshKeeps DEF StreamInit
<1>3. StreamTypeOK
    <2>1. screen \in [Surfaces -> Screen]
        BY <1>1 DEF StreamInit
    <2>2. 0 \in 0..MaxVersion /\ 0 \in 0..MaxPageTrouble
        BY StreamAssumption
    <2>3. QED BY <2>1, <2>2 DEF StreamInit, StreamTypeOK, Links, Pages
<1>4. QED BY <1>2, <1>3 DEF StreamInit, IInv, Good

LEMMA NextKeeps == IInv /\ [StreamNext]_streamVars => IInv'
<1> SUFFICES ASSUME IInv, [StreamNext]_streamVars PROVE IInv'
    OBVIOUS
<1>1. ASSUME NEW s \in Surfaces, Surface(s) PROVE IInv'
    BY <1>1, TopicsOpenKeeps, TopicsFailKeeps, DeliverKeeps, TimerFiresKeeps,
       LandsKeeps, ReadFailsKeeps, GraceEndsKeeps, MountKeeps, UnmountKeeps
    DEF Surface, SurfaceGoesOn
<1>2. CASE Stream
    BY <1>2, LinkUpKeeps, LinkDownKeeps, QuietKeeps DEF Stream, StreamGoesOn
<1>3. CASE Write \/ Hide \/ Show \/ TokenExpires \/ UNCHANGED streamVars
    BY <1>3, WriteKeeps, ShowKeeps, QuietKeeps
<1>4. QED BY <1>1, <1>2, <1>3 DEF StreamNext

(* The page's types hold throughout.                                        *)
THEOREM StreamTypes == StreamSpec => []StreamTypeOK
<1>1. IInv => StreamTypeOK
    BY DEF IInv
<1>2. QED BY <1>1, InitGood, NextKeeps, PTL DEF StreamSpec

(* The gate's promise: one read at a time, whatever events, hidden tabs,    *)
(* failed reads and remounts come between its request and its answer.       *)
THEOREM GateIsSingle == StreamSpec => []OneReadAtATime
<1>1. IInv => OneReadAtATime
    BY DEF IInv, Good, Sound, OneReadAtATime
<1>2. QED BY <1>1, InitGood, NextKeeps, PTL DEF StreamSpec

(* No listening surface is ever behind with nothing under way to bring it   *)
(* up to date.                                                              *)
THEOREM OwedNotDropped == StreamSpec => []NothingForgotten
<1>1. IInv => NothingForgotten
    BY DEF IInv, Good, Kept, NothingForgotten
<1>2. QED BY <1>1, InitGood, NextKeeps, PTL DEF StreamSpec

(* A read that lands began at or after what is on the screen; nothing else  *)
(* changes what a mounted surface shows.                                    *)
LEMMA ViewSteps ==
    ASSUME IInv, [StreamNext]_streamVars, NEW s \in Surfaces,
           screen[s].mounted, screen'[s].mounted
    PROVE  screen'[s].view >= screen[s].view
<1> DEFINE Goal == screen'[s].view >= screen[s].view
<1>1. /\ screen[s] \in Screen /\ Sound(screen[s]) /\ screen[s].view \in Nat
      /\ screen \in [Surfaces -> Screen] /\ version \in Nat
    BY StreamAssumption DEF IInv, StreamTypeOK, Good, Screen
<1>2. ASSUME NEW r \in Surfaces, Lands(r) PROVE Goal
    <2>1. CASE r # s
        BY <2>1, <1>1, <1>2 DEF Lands
    <2>2. CASE r = s
        <3>1. PICK since \in screen[s].reads : \E seen \in since..version :
                screen' = [screen EXCEPT
                             ![s] = ReadSettled(Landed(@, since, seen), page = "hidden")]
            BY <1>2, <2>2 DEF Lands
        <3>2. PICK seen \in since..version :
                screen' = [screen EXCEPT
                             ![s] = ReadSettled(Landed(@, since, seen), page = "hidden")]
            BY <3>1
        <3>3. since \in Nat /\ seen \in Nat /\ seen >= screen[s].view
            BY <1>1 DEF Sound, Screen
        <3>4. ReadSettled(Landed(screen[s], since, seen), page = "hidden").view = seen
            BY <1>1 DEF ReadSettled, Shown, Fire, Landed, Screen
        <3>5. QED BY <1>1, <3>2, <3>3, <3>4
    <2>3. QED BY <2>1, <2>2
<1>3. ASSUME NEW r \in Surfaces, ReadFails(r) PROVE Goal
    <2>1. PICK since \in screen[r].reads :
            screen' = [screen EXCEPT
                         ![r] = ReadSettled(Swallowed(@, since), page = "hidden")]
        BY <1>3 DEF ReadFails
    <2>2. CASE r # s
        BY <2>1, <2>2, <1>1
    <2>3. CASE r = s
        <3>1. ReadSettled(Swallowed(screen[s], since), page = "hidden").view
                = screen[s].view
            BY <1>1 DEF ReadSettled, Shown, Fire, Swallowed, Screen
        <3>2. QED BY <2>1, <2>3, <3>1, <1>1
    <2>4. QED BY <2>2, <2>3
<1>4. ASSUME NEW r \in Surfaces, Mount(r) PROVE Goal
    <2>1. CASE r = s
        BY <1>4, <2>1 DEF Mount
    <2>2. CASE r # s
        BY <1>1, <1>4, <2>2 DEF Mount, LeaveForLogin
    <2>3. QED BY <2>1, <2>2
<1>5. ASSUME NEW r \in Surfaces, Unmount(r) PROVE Goal
    <2>1. CASE r = s
        <3>1. screen'[s] = Unmounted
            BY <1>1, <1>5, <2>1 DEF Unmount
        <3>2. ~Unmounted.mounted
            BY DEF Unmounted, Mounting
        <3>3. QED BY <3>1, <3>2
    <2>2. CASE r # s
        BY <1>1, <1>5, <2>2 DEF Unmount
    <2>3. QED BY <2>1, <2>2
<1>6. ASSUME NEW r \in Surfaces,
             TopicsOpen(r) \/ TopicsFail(r) \/ Deliver(r) \/ TimerFires(r) \/ GraceEnds(r)
      PROVE  Goal
    <2>1. CASE TopicsOpen(r)
        BY <1>1, <2>1 DEF TopicsOpen, OnUp, Request, Screen
    <2>2. CASE TopicsFail(r)
        BY <1>1, <2>2 DEF TopicsFail, Lost, Screen
    <2>3. CASE Deliver(r)
        BY <1>1, <2>3 DEF Deliver, Request, Screen
    <2>4. CASE TimerFires(r)
        BY <1>1, <2>4 DEF TimerFires, Fire, Screen
    <2>5. CASE GraceEnds(r)
        BY <1>1, <2>5 DEF GraceEnds, Lost, Screen
    <2>6. QED BY <1>6, <2>1, <2>2, <2>3, <2>4, <2>5
<1>7. CASE Stream
    <2>1. CASE Connected \/ Reopened
        <3>1. screen'[s] = screen[s] \/ screen'[s] = Up(screen[s])
            BY <1>1, <2>1 DEF Connected, Reopened, AnnounceUp, LeaveForLogin
        <3>2. Up(screen[s]).view = screen[s].view
            BY <1>1 DEF Up, OnUp, Request, Screen
        <3>3. screen'[s].view = screen[s].view
            BY <3>1, <3>2, Zenon
        <3>4. QED BY <1>1, <3>3
    <2>2. CASE Drop \/ ConnectFails
        <3>1. \/ screen'[s] = Lost(screen[s])
              \/ screen'[s] = [Lost(screen[s]) EXCEPT !.event = FALSE]
            BY <1>1, <2>2 DEF Drop, ConnectFails, LoseAll
        <3>2. /\ Lost(screen[s]).view = screen[s].view
              /\ [Lost(screen[s]) EXCEPT !.event = FALSE].view = screen[s].view
            BY <1>1 DEF Lost, Screen
        <3>3. screen'[s].view = screen[s].view
            BY <3>1, <3>2, Zenon
        <3>4. QED BY <1>1, <3>3
    <2>3. CASE ConnectRefused \/ Cleared \/ Retry
        BY <1>1, <2>3 DEF ConnectRefused, LeaveForLogin, Cleared, Retry
    <2>4. QED BY <1>7, <2>1, <2>2, <2>3 DEF Stream, StreamGoesOn
<1>8. CASE Write
    BY <1>1, <1>8 DEF Write, Screen
<1>9. CASE Show
    <2>1. screen'[s] = Shown(screen[s], FALSE)
        BY <1>9 DEF Show
    <2>2. Shown(screen[s], FALSE).view = screen[s].view
        BY <1>1 DEF Shown, Fire, Screen
    <2>3. screen'[s].view = screen[s].view
        BY <2>1, <2>2, Zenon
    <2>4. QED BY <2>3, <1>1
<1>10. CASE Hide \/ TokenExpires \/ UNCHANGED streamVars
    BY <1>1, <1>10 DEF Hide, TokenExpires, streamVars
<1>11. QED
    BY <1>2, <1>3, <1>4, <1>5, <1>6, <1>7, <1>8, <1>9, <1>10 DEF StreamNext, Surface, SurfaceGoesOn

(* No re-read of a mounted surface ever shows an older picture than the one *)
(* it replaces.                                                             *)
THEOREM ReadsNeverGoBack == StreamSpec => ViewsOnlyAdvance
<1> DEFINE Advance == \A s \in Surfaces :
        screen[s].mounted /\ screen'[s].mounted
            => screen'[s].view >= screen[s].view
<1>1. IInv /\ [StreamNext]_streamVars => Advance
    BY ViewSteps
<1>2. IInv /\ [StreamNext]_streamVars => [Advance]_streamVars
    BY <1>1
<1>3. QED BY <1>2, InitGood, NextKeeps, PTL DEF StreamSpec, ViewsOnlyAdvance
=============================================================================
