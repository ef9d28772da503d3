----------------------------- MODULE LiveStream -----------------------------
(***************************************************************************)
(* One browser page and what it shows of a database that moves under it:   *)
(* the one shared realtime stream (lib/pb/browser.ts), the live surfaces   *)
(* hung on it (lib/pb/use-live.ts) and the gate that decides when a        *)
(* surface re-reads (lib/pb/refresher.ts).  A surface stands for the draft *)
(* room, a feed or the lobby's member list; "version" counts the writes it *)
(* would show, and a surface's "view" is the write its screen is at.       *)
(*                                                                         *)
(* The PocketBase SDK is external and is modelled by what these files rely *)
(* on: a dropped stream is retried forever and its topics are posted again *)
(* before PB_CONNECT is announced; a first connect that fails is not       *)
(* retried; nothing written while the stream is down is ever replayed.     *)
(***************************************************************************)
EXTENDS Naturals, FiniteSets

CONSTANTS
    Surfaces,    \* the live surfaces the page can mount
    Rereads,     \* those that read in the browser and swallow a failed read
    MaxVersion,  \* bound: writes
    MaxPageTrouble   \* bound: drops, failures, remounts and token expiry together

ASSUME StreamAssumption ==
    /\ Rereads \subseteq Surfaces
    /\ MaxVersion \in Nat
    /\ MaxPageTrouble \in Nat

VARIABLES
    version,     \* writes committed in the database
    link,        \* the page's PB_CONNECT subscription
    page,        \* document.visibilityState, or "left" for /login
    expired,     \* whether the page's token has run out
    screen,      \* one record per surface
    pageTrouble      \* what MaxPageTrouble bounds

streamVars == <<version, link, page, expired, screen, pageTrouble>>

Links == {"connecting", "failed", "waiting", "open", "dropped"}
Pages == {"visible", "hidden", "left"}

Screen == [mounted: BOOLEAN, topics: {"closed", "opening", "open"},
           event: BOOLEAN,                     \* an event on the wire
           timer: BOOLEAN, inFlight: BOOLEAN, owed: BOOLEAN,  \* refresher.ts
           reads: SUBSET Nat,                  \* reads in the air, by their start
           view: Nat, connected: BOOLEAN, grace: BOOLEAN,
           failed: BOOLEAN]    \* a read was swallowed, and no other asked for

Mounting(v) ==
    [mounted |-> TRUE, topics |-> "closed", event |-> FALSE,
     timer |-> FALSE, inFlight |-> FALSE, owed |-> FALSE,
     reads |-> {}, view |-> v, connected |-> TRUE, grace |-> TRUE, failed |-> FALSE]

Unmounted == [Mounting(0) EXCEPT !.mounted = FALSE]

PageTroubled == /\ pageTrouble < MaxPageTrouble
            /\ pageTrouble' = pageTrouble + 1

----------------------------------------------------------------------------
(* refresher.ts: when a surface re-reads.                                  *)

Request(sc) == [sc EXCEPT !.timer = TRUE, !.failed = FALSE]

(* The refresh that found another in flight forgotten; or sent beside it. *)
FireOrDrop(sc, hidden) ==
    IF sc.inFlight \/ hidden THEN sc
    ELSE [sc EXCEPT !.inFlight = TRUE, !.reads = @ \cup {version}]
FireBeside(sc, hidden) ==
    IF hidden
    THEN [sc EXCEPT !.owed = TRUE]
    ELSE [sc EXCEPT !.inFlight = TRUE, !.reads = @ \cup {version}]

Fire(sc, hidden) ==
    IF sc.inFlight \/ hidden
    THEN [sc EXCEPT !.owed = TRUE]
    ELSE [sc EXCEPT !.inFlight = TRUE, !.reads = @ \cup {version}]

Shown(sc, hidden) ==
    IF ~sc.owed \/ sc.inFlight THEN sc
    ELSE Fire([sc EXCEPT !.owed = FALSE], hidden)

ReadSettled(sc, hidden) == Shown([sc EXCEPT !.inFlight = FALSE], hidden)

----------------------------------------------------------------------------
(* browser.ts: the shared stream.                                          *)

Lost(sc) == [sc EXCEPT !.connected = FALSE]

(* Hearing again taken for having missed nothing. *)
OnUpQuietly(sc) == [sc EXCEPT !.connected = TRUE, !.grace = FALSE]

OnUp(sc) == [Request(sc) EXCEPT !.connected = TRUE, !.grace = FALSE]

Up(sc) ==
    IF ~sc.mounted \/ sc.topics = "opening" THEN sc
    ELSE IF sc.topics = "closed" THEN [sc EXCEPT !.topics = "opening"]
    ELSE OnUp(sc)

LoseAll == screen' = [s \in Surfaces |-> Lost(screen[s])]

(* authLostListeners: every surface sends the page to /login. *)
LeaveForLogin == /\ page' = "left"
         /\ UNCHANGED screen

(* PB_CONNECT reaches every attached surface; an expired token leaves. *)
AnnounceUp ==
    IF expired
    THEN LeaveForLogin
    ELSE /\ screen' = [s \in Surfaces |-> Up(screen[s])]
         /\ UNCHANGED page

Connected ==
    /\ page # "left"
    /\ link = "connecting"
    /\ link' = "open"
    /\ AnnounceUp
    /\ UNCHANGED <<version, expired, pageTrouble>>

(* The SDK's own retry of a stream that was up. *)
Reopened ==
    /\ page # "left"
    /\ link = "dropped"
    /\ link' = "open"
    /\ AnnounceUp
    /\ UNCHANGED <<version, expired, pageTrouble>>

(* A first connect that fails for want of a network. *)
ConnectFails ==
    /\ page # "left"
    /\ link = "connecting"
    /\ PageTroubled
    /\ link' = "failed"
    /\ LoseAll
    /\ UNCHANGED <<version, page, expired>>

(* 401 or 403: terminal, whoever it was that asked. *)
ConnectRefused ==
    /\ page # "left"
    /\ link = "connecting"
    /\ PageTroubled
    /\ link' = "failed"
    /\ LeaveForLogin
    /\ UNCHANGED <<version, expired>>

(* The failed listener is cleared, then the retry is put on its timer. *)
Cleared ==
    /\ page # "left"
    /\ link = "failed"
    /\ link' = "waiting"
    /\ UNCHANGED <<version, page, expired, screen, pageTrouble>>

(* The timer, or "wake" on the window's online event. *)
Retry ==
    /\ page # "left"
    /\ link = "waiting"
    /\ link' = "connecting"
    /\ UNCHANGED <<version, page, expired, screen, pageTrouble>>

(* The stream drops: what was on the wire is gone. *)
Drop ==
    /\ page # "left"
    /\ link = "open"
    /\ PageTroubled
    /\ link' = "dropped"
    /\ screen' = [s \in Surfaces |->
                    [Lost(screen[s]) EXCEPT !.event = FALSE]]
    /\ UNCHANGED <<version, page, expired>>

(* The answer to a surface's own topics; it may cross a drop. *)
TopicsOpen(s) ==
    /\ page # "left"
    /\ screen[s].topics = "opening"
    /\ screen' = [screen EXCEPT ![s] = OnUp([@ EXCEPT !.topics = "open"])]
    /\ UNCHANGED <<version, link, page, expired, pageTrouble>>

TopicsFail(s) ==
    /\ page # "left"
    /\ screen[s].topics = "opening"
    /\ PageTroubled
    /\ screen' = [r \in Surfaces |->
                    Lost(IF r = s THEN [screen[r] EXCEPT !.topics = "closed"]
                                  ELSE screen[r])]
    /\ UNCHANGED <<version, link, page, expired>>

----------------------------------------------------------------------------
(* use-live.ts: the surfaces, and the page they are on.                    *)

(* A write commits; the stream carries it to whoever is listening. *)
Write ==
    /\ version < MaxVersion
    /\ version' = version + 1
    /\ screen' = [s \in Surfaces |->
                    [screen[s] EXCEPT !.event = @ \/ /\ link = "open"
                                                     /\ screen[s].topics = "open"]]
    /\ UNCHANGED <<link, page, expired, pageTrouble>>

Deliver(s) ==
    /\ page # "left"
    /\ screen[s].event
    /\ screen' = [screen EXCEPT ![s] = Request([@ EXCEPT !.event = FALSE])]
    /\ UNCHANGED <<version, link, page, expired, pageTrouble>>

TimerFires(s) ==
    /\ page # "left"
    /\ screen[s].timer
    /\ screen' = [screen EXCEPT ![s] = Fire([@ EXCEPT !.timer = FALSE],
                                            page = "hidden")]
    /\ UNCHANGED <<version, link, page, expired, pageTrouble>>

Landed(sc, since, seen) ==
    [sc EXCEPT !.reads = @ \ {since}, !.view = seen, !.failed = FALSE]

Swallowed(sc, since) ==
    [sc EXCEPT !.reads = @ \ {since}, !.failed = ~sc.owed /\ ~sc.timer]

(* The database was read at some moment since the read began. *)
Lands(s) ==
    /\ page # "left"
    /\ \E since \in screen[s].reads : \E seen \in since..version :
         screen' = [screen EXCEPT
                      ![s] = ReadSettled(Landed(@, since, seen), page = "hidden")]
    /\ UNCHANGED <<version, link, page, expired, pageTrouble>>

(* live-lobby.tsx: "A failed refresh leaves the last good list on screen." *)
ReadFails(s) ==
    /\ page # "left"
    /\ s \in Rereads
    /\ PageTroubled
    /\ \E since \in screen[s].reads :
         screen' = [screen EXCEPT
                      ![s] = ReadSettled(Swallowed(@, since), page = "hidden")]
    /\ UNCHANGED <<version, link, page, expired>>

GraceEnds(s) ==
    /\ page # "left"
    /\ screen[s].mounted /\ screen[s].grace
    /\ screen' = [screen EXCEPT ![s] = [Lost(@) EXCEPT !.grace = FALSE]]
    /\ UNCHANGED <<version, link, page, expired, pageTrouble>>

Hide ==
    /\ page = "visible"
    /\ page' = "hidden"
    /\ UNCHANGED <<version, link, expired, screen, pageTrouble>>

(* Every gate pays what it owes, and "wake" looks to the stream. *)
Show ==
    /\ page = "hidden"
    /\ page' = IF expired THEN "left" ELSE "visible"
    /\ link' = IF ~expired /\ link = "waiting" THEN "connecting" ELSE link
    /\ screen' = [s \in Surfaces |-> Shown(screen[s], FALSE)]
    /\ UNCHANGED <<version, expired, pageTrouble>>

(* A client-side navigation; the server rendered the page a moment ago. *)
Mount(s) ==
    /\ page = "visible"
    /\ ~screen[s].mounted
    /\ PageTroubled
    /\ \E rendered \in 0..version :
         IF link # "open"
         THEN /\ screen' = [screen EXCEPT ![s] = Mounting(rendered)]
              /\ UNCHANGED page
         ELSE IF expired
         THEN LeaveForLogin
         ELSE /\ screen' = [screen EXCEPT ![s] = Up(Mounting(rendered))]
              /\ UNCHANGED page
    /\ UNCHANGED <<version, link, expired>>

Unmount(s) ==
    /\ page = "visible"
    /\ screen[s].mounted
    /\ PageTroubled
    /\ screen' = [screen EXCEPT ![s] = Unmounted]
    /\ UNCHANGED <<version, link, page, expired>>

TokenExpires ==
    /\ ~expired
    /\ PageTroubled
    /\ expired' = TRUE
    /\ UNCHANGED <<version, link, page, screen>>

----------------------------------------------------------------------------
StreamInit ==
    /\ version = 0
    /\ link = "connecting"
    /\ page = "visible"
    /\ expired = FALSE
    /\ screen = [s \in Surfaces |-> Mounting(0)]
    /\ pageTrouble = 0

StreamGoesOn == Connected \/ Reopened \/ Cleared \/ Retry

Stream == StreamGoesOn \/ ConnectFails \/ ConnectRefused \/ Drop

SurfaceGoesOn(s) == TopicsOpen(s) \/ Deliver(s) \/ TimerFires(s) \/ Lands(s) \/ GraceEnds(s)

Surface(s) == \/ SurfaceGoesOn(s) \/ TopicsFail(s) \/ ReadFails(s)
              \/ Mount(s) \/ Unmount(s)

StreamNext ==
    \/ Stream
    \/ Write \/ Hide \/ Show \/ TokenExpires
    \/ \E s \in Surfaces : Surface(s)

StreamSpec == StreamInit /\ [][StreamNext]_streamVars

----------------------------------------------------------------------------
(* Properties                                                              *)

StreamTypeOK ==
    /\ version \in 0..MaxVersion
    /\ link \in Links
    /\ page \in Pages
    /\ expired \in BOOLEAN
    /\ screen \in [Surfaces -> Screen]
    /\ pageTrouble \in 0..MaxPageTrouble

(* "Never two at once": the gate's flag says truly whether a read is in the *)
(* air, and there is never a second one to overtake it (refresher.ts).      *)
OneReadAtATime == \A s \in Surfaces :
    /\ screen[s].inFlight <=> screen[s].reads # {}
    /\ \A a, b \in screen[s].reads : a = b

(* What will bring a surface up to date without anybody's help.             *)
Coming(sc) ==
    \/ sc.event
    \/ sc.timer
    \/ sc.owed /\ (sc.inFlight \/ page = "hidden")
    \/ version \in sc.reads

Listening(sc) == /\ sc.mounted /\ sc.topics = "open"
                 /\ link = "open" /\ page # "left"

(* What it shows, or is about to show, is older than the database.          *)
Behind(sc) == \/ sc.view < version /\ ~sc.failed
              \/ \E since \in sc.reads : since < version

(* A refresh asked for is "owed, not dropped": a surface that is listening  *)
(* and shows less than the database holds has an event on the wire, a timer *)
(* running, a read that began after the last write, or a debt that somebody *)
(* is bound to collect.  Writes from before its topics opened, under a      *)
(* hidden tab, during a dropped stream and in the middle of a read are all  *)
(* covered; only a read the lobby swallowed is not, until the next request. *)
NothingForgotten == \A s \in Surfaces :
    Listening(screen[s]) /\ Behind(screen[s]) => Coming(screen[s])

(* A re-read never puts an older picture over a newer one while the surface *)
(* stays mounted.                                                           *)
ViewsOnlyAdvance == [][\A s \in Surfaces :
    screen[s].mounted /\ screen'[s].mounted
        => screen'[s].view >= screen[s].view]_streamVars

(* The one surface that is allowed to be behind: a failed re-read that was  *)
(* swallowed, with no event and no connect since.                           *)
LeftBehind(s) == s \in Rereads /\ screen[s].failed

(* Whatever went wrong on the way, a page somebody is looking at ends up    *)
(* showing the database, admitting it may be behind, or at sign-in; and a   *)
(* first connect that failed is tried until the stream is up.  One case is  *)
(* excepted by name: the lobby swallows a re-read that fails and does not   *)
(* repeat it, so its list may stay behind, and say nothing of it, until the *)
(* next event or connect asks again.  What its comment says of that is      *)
(* TheListCannotDrift, below, which does not hold.                          *)
ScreensCatchUp == <>[](
    /\ link = "open" \/ page = "left"
    /\ \A s \in Surfaces : \/ screen[s].view = version
                           \/ ~screen[s].connected
                           \/ ~screen[s].mounted
                           \/ page # "visible"
                           \/ LeftBehind(s))

(* live-lobby.tsx:59: "the list cannot drift from the database no matter    *)
(* which events were missed".  Not so where the re-read fails.              *)
TheListCannotDrift == \A s \in Surfaces : <>[](
    \/ screen[s].view = version
    \/ ~screen[s].connected
    \/ ~screen[s].mounted
    \/ page # "visible")

(* live-draft.tsx:66: "Reconnecting": a surface that says so while the      *)
(* stream is up is on its way back.                                         *)
ReconnectingMeansIt == \A s \in Surfaces :
    <>[](link = "open" /\ screen[s].mounted /\ page # "left")
        => <>[](screen[s].connected)

=============================================================================
