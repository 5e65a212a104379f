------------------------------- MODULE Webapp -------------------------------
(***************************************************************************)
(* The plugin in the browser (webapp/src) together with the service it     *)
(* calls: pages that load the plugin, clicks on the header button, the     *)
(* configuration status (handleConfigStatus in server/api.go), the         *)
(* websocket event of a new meeting and the post about it.                 *)
(*                                                                         *)
(* The service is MeetingService, which MeetPluginRefinement shows the     *)
(* server side to implement.  Between the two are the network, whatever    *)
(* answers in the plugin's place, and websocket connections that come and  *)
(* go; a page forgets everything when it closes.                           *)
(***************************************************************************)
EXTENDS MeetingService

CONSTANTS
    Tabs,           \* browser pages, which open and close again and again
    Admins,         \* the users who are system administrators
    Faults,         \* what may go wrong: "network" (requests and answers are lost),
                    \* "drop" (websockets break), "api", "stop", "close", "reload"
    MaxConns,       \* websocket connections a tab may ever have
    MaxMeetings     \* nobody asks for a meeting once there are so many

ASSUME WebAssumption ==
    /\ Admins \subseteq Users
    /\ MaxConns \in Nat /\ MaxMeetings \in Nat
    /\ None \notin Users /\ None \notin Tabs /\ None \notin Channels
    /\ None \notin Tabs \X Nat

VARIABLES
    tab,            \* the pages
    inbox,          \* per tab, the meetings whose event is on its way there
    click,          \* per slot of the service, the click or command behind it
    started,        \* per meeting, what the service does not know of it
    opened,         \* history: the windows that events have opened
    ripe            \* history: the plugin was fully configured at some moment
                    \* since the tab's plugin was loaded

pageVars == <<tab, inbox, click, started, opened>>
webVars == <<serviceVars, pageVars, ripe>>

\* A connection is named by its tab and how many that tab had before it.
Connection == Tabs \X Nat

ConfigStatus == [configured: BOOLEAN, is_admin: BOOLEAN]
SafeDefault == [configured |-> FALSE, is_admin |-> FALSE]

\* `conn' is the connection id in the Redux store, 0 for none; it stays there
\* when the connection breaks, until the next one is up.
Tab == [phase: {"closed", "asking", "answered", "loaded"}, user: Users \cup {None},
        conns: Nat, conn: Nat, up: BOOLEAN, status: ConfigStatus, button: BOOLEAN]

TabClosed(conns) ==
    [phase |-> "closed", user |-> None, conns |-> conns, conn |-> 0, up |-> FALSE,
     status |-> SafeDefault, button |-> FALSE]

IsOpen(p) == tab[p].phase # "closed"

\* What may come back for a request, whoever answers.  "page" and "odd" are
\* answers with status 200, one of them not JSON; "error" and "failure" are
\* the same with another status; "torn" is JSON cut short.
Responses == {"ok", "handled", "page", "odd", "error", "failure", "torn", "none"}
Strange == Responses \ {"ok", "handled"}

\* The local posts a click may end with, "" for none.
Notices == {"", "unreachable", "unexpected", "unreadable", "failed"}

\* A click is "sent", "served" while its request runs, "answered" while the
\* answer is on its way, then "settled".  `watch' is the tab as long as it has
\* been loaded and connected ever since the click; `made' is history, the
\* meetings made for the click.  `word' is what has become of the server's post
\* about it: none has reached the page, or it is on its way there, or there.
Click == [pc: {"idle", "sent", "served", "answered", "settled"},
          tab: Tabs \cup {None}, user: Users \cup {None}, chan: Channels \cup {None},
          scope: Connection \cup {None}, watch: Tabs \cup {None},
          resp: Responses \cup {""}, notice: Notices, made: Nat,
          word: {"", "underway", "there"}]

ClickIdle == [pc |-> "idle", tab |-> None, user |-> None, chan |-> None,
              scope |-> None, watch |-> None, resp |-> "", notice |-> "",
              made |-> 0, word |-> ""]

Free(r) == click[r].pc \in {"idle", "settled"} /\ ~ Open(r)

Started == [scope: Connection \cup {None}, watch: Tabs \cup {None},
            url: {"meet", "other"}]

\* The meetings and clicks that rely on the tab do so no longer.
Unwatch(p) ==
    started' = [i \in DOMAIN started |->
        IF started[i].watch = p THEN [started[i] EXCEPT !.watch = None] ELSE started[i]]

Unwatched(c, p) == [c EXCEPT !.watch = IF c.watch = p THEN None ELSE c.watch]

\* So it is with a connection that ends, and a post on its way is lost.
Dropped(c, p) ==
    [Unwatched(c, p) EXCEPT !.word = IF c.tab = p /\ c.word = "underway" THEN ""
                                     ELSE c.word]

-----------------------------------------------------------------------------
(* Pages *)

OpenPage(p, u) ==
    /\ ~ IsOpen(p)
    /\ tab' = [tab EXCEPT ![p].phase = "asking", ![p].user = u]
    /\ UNCHANGED <<serviceVars, inbox, click, started, opened>>

\* What a page leaves behind of a click: a request on its way.
Orphan(c, p) ==
    IF c.tab # p THEN Dropped(c, p)
    ELSE [Dropped(c, p) EXCEPT !.tab = None,
                               !.pc = IF c.pc = "settled" THEN "idle" ELSE c.pc]

ClosePage(p) ==
    /\ "close" \in Faults
    /\ IsOpen(p)
    /\ tab' = [tab EXCEPT ![p] = TabClosed(tab[p].conns)]
    /\ inbox' = [inbox EXCEPT ![p] = {}]
    /\ click' = [r \in Starts |-> Orphan(click[r], p)]
    /\ Unwatch(p)
    /\ UNCHANGED <<serviceVars, opened>>

\* The server has the page drop the plugin and load it anew; the page keeps
\* its websocket connection.
PluginEnabled(p) ==
    /\ "reload" \in Faults
    /\ tab[p].phase = "loaded"
    /\ tab' = [tab EXCEPT ![p].phase = "asking", ![p].status = SafeDefault,
                          ![p].button = FALSE]
    /\ click' = [r \in Starts |-> Unwatched(click[r], p)]
    /\ Unwatch(p)
    /\ UNCHANGED <<serviceVars, inbox, opened>>

Connect(p) ==
    /\ IsOpen(p)
    /\ ~ tab[p].up
    /\ tab[p].conns < MaxConns
    /\ tab' = [tab EXCEPT ![p].conns = @ + 1, ![p].conn = tab[p].conns + 1,
                          ![p].up = TRUE]
    /\ UNCHANGED <<serviceVars, inbox, click, started, opened>>

Break(p) ==
    /\ "drop" \in Faults
    /\ tab[p].up
    /\ tab' = [tab EXCEPT ![p].up = FALSE]
    /\ inbox' = [inbox EXCEPT ![p] = {}]
    /\ click' = [r \in Starts |-> Dropped(click[r], p)]
    /\ Unwatch(p)
    /\ UNCHANGED <<serviceVars, opened>>

-----------------------------------------------------------------------------
(* initialize: the configuration status, then what is registered *)

Learn(p, status) ==
    tab' = [tab EXCEPT ![p].phase = "answered", ![p].status = status]

\* A user whom the server cannot look up is no administrator.
HandleConfigStatus(p) ==
    /\ tab[p].phase = "asking"
    /\ serving
    /\ \E is_admin \in {tab[p].user \in Admins}
                       \cup (IF "api" \in Faults THEN {FALSE} ELSE {}) :
         Learn(p, [configured |-> ready, is_admin |-> is_admin])
    /\ UNCHANGED <<serviceVars, inbox, click, started, opened>>

\* Mutant: what is unknown is taken for configured.
ConfigStatusAssumed(p) ==
    /\ tab[p].phase = "asking"
    /\ ~ serving \/ "network" \in Faults
    /\ Learn(p, [configured |-> TRUE, is_admin |-> FALSE])
    /\ UNCHANGED <<serviceVars, inbox, click, started, opened>>

\* Mutant: the variables have no values to begin with.
ConfigStatusUndefined(p) ==
    /\ tab[p].phase = "asking"
    /\ ~ serving \/ "network" \in Faults
    /\ Learn(p, None)
    /\ UNCHANGED <<serviceVars, inbox, click, started, opened>>

\* Mutant: the failure is not caught, and initialize ends with it.
ConfigStatusUncaught(p) ==
    /\ tab[p].phase = "asking"
    /\ ~ serving
    /\ UNCHANGED <<serviceVars, tab, inbox, click, started, opened>>

ConfigStatusFails(p) ==
    /\ tab[p].phase = "asking"
    /\ ~ serving \/ "network" \in Faults
    /\ Learn(p, SafeDefault)
    /\ UNCHANGED <<serviceVars, inbox, click, started, opened>>

\* The post component and the event handler come with "loaded".
Register(p) ==
    /\ tab[p].phase = "answered"
    /\ tab' = [tab EXCEPT ![p].phase = "loaded",
                          ![p].button = tab[p].status.configured \/ tab[p].status.is_admin]
    /\ UNCHANGED <<serviceVars, inbox, click, started, opened>>

Initialize(p) == HandleConfigStatus(p) \/ ConfigStatusFails(p) \/ Register(p)

-----------------------------------------------------------------------------
(* Requests for meetings, and their answers *)

\* Mutant: the connection id is the one of when the page was loaded.
ScopeOfLoad(p) == IF tab[p].conn = 0 THEN None ELSE <<p, 1>>

ScopeOf(p) == IF tab[p].conn = 0 THEN None ELSE <<p, tab[p].conn>>

\* The header button: nothing keeps the user from clicking again and again.
ClickButton(p, r, ch) ==
    /\ tab[p].phase = "loaded" /\ tab[p].button
    /\ Free(r)
    /\ Len(meetings) < MaxMeetings
    /\ click' = [click EXCEPT ![r] =
                   [ClickIdle EXCEPT !.pc = "sent", !.tab = p, !.user = tab[p].user,
                                     !.chan = ch, !.scope = ScopeOf(p),
                                     !.watch = IF tab[p].up THEN p ELSE None]]
    /\ UNCHANGED <<serviceVars, tab, inbox, started, opened>>

\* /meet start, in any client, passes no connection.
MeetStart(r, u, ch) ==
    /\ Free(r)
    /\ Len(meetings) < MaxMeetings
    /\ Ask(r, u, ch)
    /\ click' = [click EXCEPT ![r] =
                   [ClickIdle EXCEPT !.pc = IF ready THEN "served" ELSE "idle",
                                     !.user = u, !.chan = ch]]
    /\ UNCHANGED <<tab, inbox, started, opened>>

\* Mutant: JSON with status 200 is good enough.
NoticeByHttpStatus(resp) ==
    CASE resp = "none" -> "unreachable"
      [] resp = "page" -> "unexpected"
      [] resp = "torn" -> "unreadable"
      [] resp \in {"error", "failure"} -> "failed"
      [] OTHER -> ""

\* createMeeting in client.ts and the rest of the click: which local post the
\* user is shown, "" for none.
Notice(resp) ==
    CASE resp = "none" -> "unreachable"
      [] resp \in {"page", "odd"} -> "unexpected"
      [] resp = "torn" -> "unreadable"
      [] resp \in {"error", "failure"} -> "failed"
      [] resp \in {"ok", "handled"} -> ""

\* An answer arrives; it is lost on a page that is gone.
Settled(c, resp) ==
    IF c.tab = None THEN [c EXCEPT !.pc = "idle", !.resp = ""]
    ELSE [c EXCEPT !.pc = "settled", !.resp = "", !.notice = Notice(resp)]

\* SendEphemeralPost goes out over the user's websockets and is not kept: the
\* page of the click gets it if it is connected.
Ephemeral(c) ==
    IF c.tab # None /\ tab[c.tab].up THEN [c EXCEPT !.word = "underway"] ELSE c

\* The plugin's handler takes the request; without a process the Mattermost
\* server answers.  Before it is configured, the plugin refuses at once.
FetchReaches(r) ==
    /\ click[r].pc = "sent"
    /\ \/ /\ Ask(r, click[r].user, click[r].chan)
          /\ click' = [click EXCEPT ![r] =
                         IF ready THEN [click[r] EXCEPT !.pc = "served"]
                         ELSE [Ephemeral(click[r]) EXCEPT !.pc = "answered",
                                                          !.resp = "handled"]]
       \/ /\ ~ serving
          /\ click' = [click EXCEPT ![r].pc = "answered", ![r].resp = "error"]
          /\ UNCHANGED serviceVars
    /\ UNCHANGED <<tab, inbox, started, opened>>

ResponseArrives(r) ==
    /\ click[r].pc = "answered"
    /\ click' = [click EXCEPT ![r] = Settled(click[r], click[r].resp)]
    /\ UNCHANGED <<serviceVars, tab, inbox, started, opened>>

\* Mutant: a request that the server may not have seen is sent again.
FetchRetried(r) ==
    /\ "network" \in Faults
    /\ click[r].pc \in {"sent", "answered"}
    /\ click' = [click EXCEPT ![r].pc = "sent", ![r].resp = ""]
    /\ UNCHANGED <<serviceVars, tab, inbox, started, opened>>

\* The fetch fails, or something on the way answers: before the plugin has the
\* request, while it runs, or after.  The request itself is not undone.
FetchFails(r) ==
    /\ "network" \in Faults
    /\ click[r].pc \in {"sent", "served", "answered"}
    /\ \E resp \in Strange : click' = [click EXCEPT ![r] = Settled(click[r], resp)]
    /\ UNCHANGED <<serviceVars, tab, inbox, started, opened>>

Fetch(r) == FetchReaches(r) \/ ResponseArrives(r) \/ FetchFails(r)

-----------------------------------------------------------------------------
(* The service at work, as far as it shows *)

\* The answer of the service to click c, if its page still waits for it.
Answered(c, resp) ==
    IF c.pc # "served" THEN c
    ELSE IF c.tab = None THEN [c EXCEPT !.pc = "idle"]
    ELSE [c EXCEPT !.pc = "answered", !.resp = resp]

\* Mutant: the answer says "handled", and no post says why.
RefusedQuietly(r) ==
    /\ Refuse(r)
    /\ click' = [click EXCEPT ![r] = Answered(click[r], "handled")]
    /\ UNCHANGED <<tab, inbox, started, opened>>

\* sendMeetingEphemeralResponse: the post goes out before the answer.
Refused(r) ==
    /\ Refuse(r)
    /\ click' = [click EXCEPT ![r] = Answered(Ephemeral(click[r]), "handled")]
    /\ UNCHANGED <<tab, inbox, started, opened>>

Made(r) ==
    /\ Make(r)
    /\ \E url \in {"meet", "other"} :
         started' = Append(started, [scope |-> click[r].scope, watch |-> click[r].watch,
                                     url |-> url])
    /\ click' = [click EXCEPT ![r] =
                   LET c == [click[r] EXCEPT !.made = @ + 1]
                   IN  IF Open(r)' THEN c ELSE Answered(Ephemeral(c), "handled")]
    /\ UNCHANGED <<tab, inbox, opened>>

\* A post in the channel is kept: a page that misses it has it later.
Posted(r) ==
    /\ Post(r)
    /\ click' = [click EXCEPT ![r].word = "there"]
    /\ UNCHANGED <<tab, inbox, started, opened>>

\* Mutant: the event goes to every session of the user.
RecipientsAll(i) == { p \in Tabs : tab[p].up /\ tab[p].user = meetings[i].user }

\* Mutant: the connection is left out, not singled out.
RecipientsOthers(i) ==
    { p \in Tabs : /\ tab[p].up /\ tab[p].user = meetings[i].user
                   /\ started[i].scope # <<p, tab[p].conn>> }

\* A connection id decides alone; without one, the user does.
Recipients(i) ==
    { p \in Tabs : /\ tab[p].up
                   /\ IF started[i].scope = None
                      THEN tab[p].user = meetings[i].user
                      ELSE started[i].scope = <<p, tab[p].conn>> }

Announced(r) ==
    LET i == request[r].meeting
    IN  /\ Announce(r)
        /\ inbox' = [p \in Tabs |-> IF p \in Recipients(i)
                                    THEN inbox[p] \cup {i} ELSE inbox[p]]
        /\ click' = [click EXCEPT ![r] = Answered(click[r], "ok")]
        /\ UNCHANGED <<tab, started, opened>>

Work(r) == Refused(r) \/ Made(r) \/ Posted(r) \/ Announced(r)

Settings ==
    /\ Configure
    /\ UNCHANGED pageVars

\* The Mattermost server answers in place of a process that ends.
PluginStops ==
    /\ "stop" \in Faults
    /\ serving
    /\ StopServing
    /\ click' = [r \in Starts |-> Answered(click[r], "error")]
    /\ UNCHANGED <<tab, inbox, started, opened>>

-----------------------------------------------------------------------------
(* Events and posts *)

isAllowedGoogleMeetURL(url) == url = "meet"

\* An event that comes before the handler is registered is lost.
HandleMeetingStarted(p, i) ==
    /\ i \in inbox[p]
    /\ inbox' = [inbox EXCEPT ![p] = @ \ {i}]
    /\ opened' = IF tab[p].phase = "loaded" /\ isAllowedGoogleMeetURL(started[i].url)
                 THEN opened \cup {[meeting |-> i, tab |-> p, conn |-> tab[p].conn,
                                    user |-> tab[p].user]}
                 ELSE opened
    /\ UNCHANGED <<serviceVars, tab, click, started>>

Receive(p) == \E i \in inbox[p] : HandleMeetingStarted(p, i)

\* The post of a refusal comes to the page, loaded or not.
ShowPost(p, r) ==
    /\ click[r].tab = p /\ click[r].word = "underway"
    /\ click' = [click EXCEPT ![r].word = "there"]
    /\ UNCHANGED <<serviceVars, tab, inbox, started, opened>>

\* A title, and with a link the ways to join.
PostTypeGoogleMeet(meetingLink) ==
    {"title"} \cup (IF meetingLink # "" THEN {"url", "join"} ELSE {})

\* How the page shows a meeting's post; without the component, as its bare
\* message.
Shown(p, i) ==
    IF tab[p].phase = "loaded" THEN PostTypeGoogleMeet(started[i].url) ELSE {"message"}

-----------------------------------------------------------------------------
WebInit ==
    /\ ServiceInit
    /\ tab = [p \in Tabs |-> TabClosed(0)]
    /\ inbox = [p \in Tabs |-> {}]
    /\ click = [r \in Starts |-> ClickIdle]
    /\ started = <<>>
    /\ opened = {}
    /\ ripe = [p \in Tabs |-> FALSE]

WebStep ==
    \/ \E p \in Tabs :
         \/ \E u \in Users : OpenPage(p, u)
         \/ ClosePage(p) \/ PluginEnabled(p) \/ Connect(p) \/ Break(p)
         \/ Initialize(p) \/ Receive(p)
         \/ \E r \in Starts : ShowPost(p, r)
         \/ \E r \in Starts, ch \in Channels : ClickButton(p, r, ch)
    \/ \E r \in Starts : Fetch(r) \/ Work(r)
    \/ \E r \in Starts, u \in Users, ch \in Channels : MeetStart(r, u, ch)
    \/ Settings
    \/ PluginStops

\* The history of each tab begins anew with each load of the plugin.
Ripen ==
    ripe' = [p \in Tabs |->
        IF tab'[p].phase = "asking" /\ tab[p].phase # "asking"
        THEN serving' /\ ready'
        ELSE tab'[p].phase # "closed" /\ (ripe[p] \/ (serving' /\ ready'))]

WebNext == WebStep /\ Ripen

WebSpec == WebInit /\ [][WebNext]_webVars

\* A page runs initialize to its end, a fetch settles, the service works, and
\* a connection that is up delivers.
WebFairness ==
    /\ \A p \in Tabs : /\ WF_webVars(Initialize(p) /\ Ripen)
                       /\ WF_webVars(Receive(p) /\ Ripen)
    /\ \A r \in Starts : /\ WF_webVars(Fetch(r) /\ Ripen)
                         /\ WF_webVars(Work(r) /\ Ripen)

WebFairSpec == WebSpec /\ WebFairness

-----------------------------------------------------------------------------
(* Properties *)

WebTypeOK ==
    /\ ServiceTypeOK
    /\ tab \in [Tabs -> Tab]
    /\ inbox \in [Tabs -> SUBSET (1..Len(meetings))]
    /\ click \in [Starts -> Click]
    /\ started \in Seq(Started) /\ Len(started) = Len(meetings)
    /\ opened \subseteq [meeting: 1..Len(meetings), tab: Tabs, conn: Nat, user: Users]
    /\ ripe \in [Tabs -> BOOLEAN]

\* "Hide the meeting button for non-admin users until the plugin is fully
\* configured" (README): who is no administrator has the button only if the
\* plugin was fully configured at some moment since it was loaded in the page.
ButtonEarned ==
    \A p \in Tabs : tab[p].button /\ tab[p].user \notin Admins => ripe[p]

\* "connectionID, when non-empty, scopes the WebSocket event to that browser
\* session only" (meeting.go): the window of a meeting opens for the user who
\* asked for it, and if a button asked, in no other session than the button's,
\* whatever pages are closed and opened again by whom meanwhile.
OpensInOwnSession ==
    \A o \in opened :
        /\ o.user = meetings[o.meeting].user
        /\ started[o.meeting].scope \in {None, <<o.tab, o.conn>>}

\* One click makes at most one meeting, whatever is lost on the way.
OncePerClick == \A r \in Starts : click[r].made <= 1

\* The page of the click has stayed loaded and connected ever since.
Stayed(c) == c.tab # None /\ c.watch = c.tab

\* Nobody who stays is left without a word (index.tsx, client.ts, api.go): in a
\* page that stays loaded and connected, a click that comes to its end without
\* a local post about it has led to a post of the server's, on the meeting or
\* on why there is none, that is there or on its way.
EveryClickTold ==
    \A r \in Starts :
        /\ Stayed(click[r])
        /\ click[r].pc = "settled" /\ click[r].notice = ""
        => click[r].word # ""

\* The click behind the meeting was in this page, which has stayed loaded and
\* connected ever since.
Awaited(i, p) ==
    /\ i <= Len(meetings)
    /\ meetings[i].announced
    /\ started[i].watch = p /\ isAllowedGoogleMeetURL(started[i].url)

OpenedIn(i, p) == \E o \in opened : o.meeting = i /\ o.tab = p

\* The event of a meeting is not lost on its way (meeting.go, index.tsx): from
\* when it is announced, it is underway to the page of the click, or has opened
\* the meeting there, as long as that page stays loaded and connected.
NoEventLost ==
    \A i \in 1..Len(meetings), p \in Tabs :
        Awaited(i, p) => i \in inbox[p] \/ OpenedIn(i, p)

\* "for opening the join URL" (meeting.go): the meeting of a click opens in the
\* page of the click if that page stays loaded and connected from the click on.
OwnWindowOpens ==
    \A i \in 1..MaxMeetings, p \in Tabs :
        Awaited(i, p)
        ~> ~ Awaited(i, p) \/ OpenedIn(i, p)

\* "The created post includes the meeting URL and an obvious join action"
\* (README): in every page that is open, and be the plugin's server side down.
JoinShown ==
    \A p \in Tabs, i \in 1..MaxMeetings :
        IsOpen(p) /\ i <= Len(meetings) /\ meetings[i].posted
        ~> ~ IsOpen(p) \/ (i <= Len(meetings) /\ "join" \in Shown(p, i))
=============================================================================
