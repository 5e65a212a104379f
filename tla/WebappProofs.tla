---------------------------- MODULE WebappProofs ----------------------------
(***************************************************************************)
(* Proofs about Webapp, for every number of pages, users, clicks,          *)
(* connections and meetings: the types, who has the button, in which       *)
(* session a window opens, how many meetings a click makes, what the user  *)
(* is told of it, and that the event of a meeting is not lost.             *)
(***************************************************************************)
EXTENDS Webapp, TLAPS

(***************************************************************************)
(* The inductive invariant                                                 *)
(***************************************************************************)

\* A request that runs is for somebody, and past "asked" it has its meeting.
RequestsFilled ==
    \A r \in Starts :
        /\ Open(r) => request[r].user \in Users /\ request[r].chan \in Channels
        /\ request[r].stage \in {"made", "posted"} => request[r].meeting # 0

ServiceInv == ServiceTypeOK /\ RequestsFilled

\* A click that is on its way, and a page that is open, are somebody's.
ClickFilled(c) == c.pc = "sent" => c.user \in Users /\ c.chan \in Channels

ClicksFilled == \A r \in Starts : ClickFilled(click[r])

\* What a page knows of the configuration was so at some time since it was
\* loaded.
PageInv(p) ==
    /\ tab[p].phase = "closed" => tab[p].conn = 0 /\ ~ tab[p].up
    /\ tab[p].phase # "closed" => tab[p].user \in Users
    /\ tab[p].phase # "loaded" => ~ tab[p].button
    /\ tab[p].phase \in {"answered", "loaded"} =>
         /\ tab[p].status.configured => ripe[p]
         /\ tab[p].status.is_admin => tab[p].user \in Admins
    /\ tab[p].button => tab[p].status.configured \/ tab[p].status.is_admin
    /\ tab[p].conn <= tab[p].conns

PagesInv == \A p \in Tabs : PageInv(p)

\* The connection has been in use, and as long as the page has it, the page is
\* the user's.
Own(pages, scope, user) ==
    scope # None =>
        /\ 1 <= scope[2] /\ scope[2] <= pages[scope[1]].conns
        /\ pages[scope[1]].conn = scope[2] => pages[scope[1]].user = user

ClickSession(r) ==
    /\ Own(tab, click[r].scope, click[r].user)
    /\ Open(r) => request[r].user = click[r].user

ClickSessions == \A r \in Starts : ClickSession(r)

MeetingSessions ==
    \A i \in 1..Len(meetings) : Own(tab, started[i].scope, meetings[i].user)

InboxSessions ==
    \A p \in Tabs : \A i \in inbox[p] :
        /\ tab[p].up
        /\ tab[p].user = meetings[i].user
        /\ started[i].scope \in {None, <<p, tab[p].conn>>}

\* A click asks for one meeting, and what answers it is an answer.
ClickInv(r) ==
    /\ click[r].pc = "sent" => click[r].made = 0 /\ ~ Open(r)
    /\ request[r].stage = "asked" => click[r].made = 0
    /\ click[r].made <= 1
    /\ click[r].pc = "answered" => click[r].resp \in Responses

ClicksInv == \A r \in Starts : ClickInv(r)

WebInv ==
    /\ WebTypeOK /\ ServiceInv /\ ClicksFilled /\ PagesInv /\ ClicksInv
    /\ ClickSessions /\ MeetingSessions /\ InboxSessions /\ OpensInOwnSession

(***************************************************************************)
(* The service                                                             *)
(***************************************************************************)

MeetingsKept ==
    /\ meetings' \in Seq(Meeting)
    /\ Len(meetings) <= Len(meetings')
    /\ \A i \in 1..Len(meetings) : meetings'[i].user = meetings[i].user

RequestFilled(x) ==
    /\ x.stage # "idle" => x.user \in Users /\ x.chan \in Channels
    /\ x.stage \in {"made", "posted"} => x.meeting # 0

LEMMA RequestMoves ==
    ASSUME ServiceInv, MeetingsKept, serving' \in BOOLEAN, ready' \in BOOLEAN,
           NEW r \in Starts, NEW x \in Request, request' = [request EXCEPT ![r] = x],
           x.meeting <= Len(meetings'), RequestFilled(x)
    PROVE  /\ ServiceInv'
           /\ request'[r] = x
           /\ \A q \in Starts : q # r => request'[q] = request[q]
<1>1. request \in [Starts -> Request] /\ meetings \in Seq(Meeting)
  BY DEF ServiceInv, ServiceTypeOK
<1>2. /\ request' \in [Starts -> Request] /\ request'[r] = x
      /\ \A q \in Starts : q # r => request'[q] = request[q]
  BY <1>1
<1>3. \A q \in Starts : request'[q].meeting <= Len(meetings')
  <2>1. Len(meetings) \in Nat /\ Len(meetings') \in Nat
    BY <1>1 DEF MeetingsKept
  <2>2. \A q \in Starts : request[q].meeting \in Nat /\ request[q].meeting <= Len(meetings)
    BY <1>1 DEF ServiceInv, ServiceTypeOK, Request
  <2> QED
    BY <1>2, <2>1, <2>2 DEF MeetingsKept
<1>4. RequestsFilled'
  BY <1>2 DEF ServiceInv, RequestsFilled, RequestFilled, Open
<1> QED
  BY <1>2, <1>3, <1>4 DEF ServiceInv, ServiceTypeOK, MeetingsKept

Replies == {NotAnswered, "ok"} \cup Refusals

LEMMA ReplyMoves ==
    ASSUME ServiceInv, MeetingsKept, serving' \in BOOLEAN, ready' \in BOOLEAN,
           NEW r \in Starts, NEW reply \in Replies, Reply(r, reply)
    PROVE  /\ ServiceInv' /\ request'[r].stage = "idle"
           /\ \A q \in Starts : q # r => request'[q] = request[q]
<1>1. request \in [Starts -> Request] /\ meetings \in Seq(Meeting)
  BY DEF ServiceInv, ServiceTypeOK
<1> DEFINE x == [RequestIdle EXCEPT !.user = request[r].user, !.reply = reply]
<1>2. request' = [request EXCEPT ![r] = x]
  BY DEF Reply
<1>3. x \in Request /\ x.stage = "idle" /\ x.meeting = 0
  BY <1>1 DEF RequestIdle, Request, Replies
<1> HIDE DEF x
<1>4. RequestFilled(x) /\ x.meeting <= Len(meetings')
  BY <1>3 DEF RequestFilled, MeetingsKept
<1> QED
  BY <1>2, <1>3, <1>4, RequestMoves

LEMMA MeetingsSame ==
    ASSUME ServiceInv, UNCHANGED meetings
    PROVE  MeetingsKept
BY DEF ServiceInv, ServiceTypeOK, MeetingsKept

LEMMA AskEffect ==
    ASSUME ServiceInv, NEW r \in Starts, NEW u \in Users, NEW ch \in Channels, Ask(r, u, ch)
    PROVE  /\ ServiceInv' /\ UNCHANGED <<serving, ready, meetings>> /\ ~ Open(r)
           /\ request'[r].stage = IF ready THEN "asked" ELSE "idle"
           /\ request'[r].user = u
           /\ \A q \in Starts : q # r => request'[q] = request[q]
<1>0. MeetingsKept /\ ready \in BOOLEAN /\ UNCHANGED <<serving, ready, meetings>> /\ serving' \in BOOLEAN
  BY MeetingsSame DEF Ask, ServiceInv, ServiceTypeOK
<1>1. CASE ready
  <2> DEFINE x == [RequestIdle EXCEPT !.stage = "asked", !.user = u, !.chan = ch]
  <2>1. request' = [request EXCEPT ![r] = x]
    BY <1>1 DEF Ask
  <2>2. x \in Request /\ x.stage = "asked" /\ x.meeting = 0 /\ x.user = u /\ x.chan = ch
    BY DEF RequestIdle, Request, NotAnswered
  <2> HIDE DEF x
  <2>3. RequestFilled(x) /\ x.meeting <= Len(meetings')
    BY <2>2, <1>0 DEF RequestFilled, MeetingsKept
  <2> QED
    BY <1>0, <1>1, <2>1, <2>2, <2>3, RequestMoves DEF Ask
<1>2. CASE ~ ready
  <2> DEFINE x == [RequestIdle EXCEPT !.user = u, !.reply = "not_configured"]
  <2>1. request' = [request EXCEPT ![r] = x]
    BY <1>2 DEF Ask
  <2>2. x \in Request /\ x.stage = "idle" /\ x.meeting = 0 /\ x.user = u
    BY DEF RequestIdle, Request, NotAnswered, Refusals
  <2> HIDE DEF x
  <2>3. RequestFilled(x) /\ x.meeting <= Len(meetings')
    BY <2>2, <1>0 DEF RequestFilled, MeetingsKept
  <2> QED
    BY <1>0, <1>2, <2>1, <2>2, <2>3, RequestMoves DEF Ask
<1> QED
  BY <1>1, <1>2

LEMMA RefuseEffect ==
    ASSUME ServiceInv, NEW r \in Starts, Refuse(r)
    PROVE  /\ ServiceInv' /\ UNCHANGED <<serving, ready, meetings>> /\ Open(r)
           /\ request'[r].stage = "idle"
           /\ \A q \in Starts : q # r => request'[q] = request[q]
<1>1. MeetingsKept /\ serving' \in BOOLEAN /\ ready' \in BOOLEAN
  BY MeetingsSame DEF Refuse, ServiceInv, ServiceTypeOK
<1>2. \E reply \in Replies : Reply(r, reply)
  BY DEF Refuse, Replies, Refusals
<1> QED
  BY <1>1, <1>2, ReplyMoves DEF Refuse, Open

LEMMA MakeEffect ==
    ASSUME ServiceInv, NEW r \in Starts, Make(r)
    PROVE  /\ ServiceInv' /\ UNCHANGED <<serving, ready>> /\ MeetingsKept
           /\ request[r].stage = "asked" /\ request'[r].stage \in {"idle", "made"}
           /\ request'[r].stage = "made" => request'[r].user = request[r].user
           /\ Len(meetings') = Len(meetings) + 1
           /\ meetings'[Len(meetings) + 1].user = request[r].user
           /\ \A q \in Starts : q # r => request'[q] = request[q]
<1>1. request \in [Starts -> Request] /\ meetings \in Seq(Meeting) /\ Len(meetings) \in Nat
  BY DEF ServiceInv, ServiceTypeOK
<1>2. /\ request[r].stage = "asked" /\ request[r].user \in Users /\ request[r].chan \in Channels
      /\ UNCHANGED <<serving, ready>> /\ serving' \in BOOLEAN /\ ready' \in BOOLEAN
  BY DEF Make, ServiceInv, ServiceTypeOK, RequestsFilled, Open
<1> DEFINE m == [user |-> request[r].user, chan |-> request[r].chan,
                 posted |-> FALSE, announced |-> FALSE]
<1>3. m \in Meeting /\ m.user = request[r].user
  BY <1>2 DEF Meeting
<1>4. meetings' = Append(meetings, m)
  BY DEF Make
<1> HIDE DEF m
<1>5. /\ MeetingsKept /\ Len(meetings') = Len(meetings) + 1
      /\ meetings'[Len(meetings) + 1] = m
  BY <1>1, <1>3, <1>4 DEF MeetingsKept
<1>6. CASE request' = [request EXCEPT ![r].stage = "made", ![r].meeting = Len(meetings) + 1]
  <2> DEFINE n == Len(meetings) + 1
             x == [request[r] EXCEPT !.stage = "made", !.meeting = n]
  <2>1. request' = [request EXCEPT ![r] = x]
    BY <1>6
  <2>0. n \in Nat /\ request[r] \in Request
    BY <1>1
  <2> HIDE DEF n
  <2>4. /\ x \in Request /\ x.stage = "made" /\ x.meeting = n
        /\ x.user = request[r].user /\ x.chan = request[r].chan
    BY <2>0 DEF Request
  <2>2. /\ x \in Request /\ x.stage = "made" /\ x.meeting = Len(meetings) + 1
        /\ x.user = request[r].user /\ x.chan = request[r].chan
    BY <2>4 DEF n
  <2> HIDE DEF x
  <2>3. RequestFilled(x) /\ x.meeting <= Len(meetings')
    BY <1>1, <1>2, <1>5, <2>2 DEF RequestFilled
  <2> QED
    BY <1>2, <1>3, <1>5, <2>1, <2>2, <2>3, RequestMoves
<1>7. CASE Reply(r, "meeting_failed")
  BY <1>2, <1>3, <1>5, <1>7, ReplyMoves DEF Replies, Refusals
<1> QED
  BY <1>6, <1>7 DEF Make

\* A step that only marks the meeting of a request.
LEMMA MarkEffect ==
    ASSUME ServiceInv, NEW r \in Starts,
           request[r].stage \in {"made", "posted"},
           \/ meetings' = [meetings EXCEPT ![request[r].meeting].posted = TRUE]
           \/ meetings' = [meetings EXCEPT ![request[r].meeting].announced = TRUE]
    PROVE  /\ MeetingsKept /\ Len(meetings') = Len(meetings)
           /\ request[r].meeting \in 1..Len(meetings)
<1>1. request \in [Starts -> Request] /\ meetings \in Seq(Meeting) /\ Len(meetings) \in Nat
  BY DEF ServiceInv, ServiceTypeOK
<1>2. request[r].meeting \in 1..Len(meetings)
  BY <1>1 DEF ServiceInv, ServiceTypeOK, RequestsFilled, Request
<1> DEFINE i == request[r].meeting
<1>3. ASSUME NEW x \in Meeting, x.user = meetings[i].user, meetings' = [meetings EXCEPT ![i] = x]
      PROVE  MeetingsKept /\ Len(meetings') = Len(meetings)
  BY <1>1, <1>2, <1>3 DEF MeetingsKept
<1>4. meetings[i] \in Meeting
  BY <1>1, <1>2
<1>5. CASE meetings' = [meetings EXCEPT ![i].posted = TRUE]
  <2> DEFINE x == [meetings[i] EXCEPT !.posted = TRUE]
  <2>1. meetings' = [meetings EXCEPT ![i] = x]
    BY <1>5
  <2>2. x \in Meeting /\ x.user = meetings[i].user
    BY <1>4 DEF Meeting
  <2> HIDE DEF x
  <2> QED
    BY <1>2, <1>3, <2>1, <2>2
<1>6. CASE meetings' = [meetings EXCEPT ![i].announced = TRUE]
  <2> DEFINE x == [meetings[i] EXCEPT !.announced = TRUE]
  <2>1. meetings' = [meetings EXCEPT ![i] = x]
    BY <1>6
  <2>2. x \in Meeting /\ x.user = meetings[i].user
    BY <1>4 DEF Meeting
  <2> HIDE DEF x
  <2> QED
    BY <1>2, <1>3, <2>1, <2>2
<1> QED
  BY <1>5, <1>6

LEMMA PostEffect ==
    ASSUME ServiceInv, NEW r \in Starts, Post(r)
    PROVE  /\ ServiceInv' /\ UNCHANGED <<serving, ready>> /\ MeetingsKept
           /\ Len(meetings') = Len(meetings)
           /\ request[r].stage = "made" /\ request'[r].stage = "posted"
           /\ request'[r].user = request[r].user
           /\ \A q \in Starts : q # r => request'[q] = request[q]
<1>1. /\ request \in [Starts -> Request] /\ request[r].stage = "made"
      /\ request[r].user \in Users /\ request[r].chan \in Channels
      /\ UNCHANGED <<serving, ready>> /\ serving' \in BOOLEAN /\ ready' \in BOOLEAN
  BY DEF Post, ServiceInv, ServiceTypeOK, RequestsFilled, Open
<1>2. /\ MeetingsKept /\ Len(meetings') = Len(meetings)
      /\ request[r].meeting \in 1..Len(meetings)
  BY <1>1, MarkEffect DEF Post
<1> DEFINE x == [request[r] EXCEPT !.stage = "posted"]
<1>3. request' = [request EXCEPT ![r] = x]
  BY DEF Post
<1>4. /\ x \in Request /\ x.stage = "posted" /\ x.meeting = request[r].meeting
      /\ x.user = request[r].user /\ x.chan = request[r].chan
  BY <1>1 DEF Request
<1> HIDE DEF x
<1>5. RequestFilled(x) /\ x.meeting <= Len(meetings')
  BY <1>1, <1>2, <1>4 DEF RequestFilled
<1> QED
  BY <1>1, <1>2, <1>3, <1>4, <1>5, RequestMoves

LEMMA AnnounceEffect ==
    ASSUME ServiceInv, NEW r \in Starts, Announce(r)
    PROVE  /\ ServiceInv' /\ UNCHANGED <<serving, ready>> /\ MeetingsKept
           /\ Len(meetings') = Len(meetings)
           /\ request[r].meeting \in 1..Len(meetings)
           /\ request[r].stage = "posted" /\ request'[r].stage = "idle"
           /\ \A q \in Starts : q # r => request'[q] = request[q]
<1>1. /\ request[r].stage = "posted"
      /\ UNCHANGED <<serving, ready>> /\ serving' \in BOOLEAN /\ ready' \in BOOLEAN
  BY DEF Announce, ServiceInv, ServiceTypeOK
<1>2. /\ MeetingsKept /\ Len(meetings') = Len(meetings)
      /\ request[r].meeting \in 1..Len(meetings)
  BY <1>1, MarkEffect DEF Announce
<1> QED
  BY <1>1, <1>2, ReplyMoves DEF Announce, Replies

LEMMA StopEffect ==
    ASSUME ServiceInv, StopServing
    PROVE  /\ ServiceInv' /\ UNCHANGED meetings
           /\ \A q \in Starts : request'[q].stage = "idle"
<1>1. RequestIdle \in Request /\ RequestIdle.stage = "idle" /\ RequestIdle.meeting = 0
  BY DEF RequestIdle, Request
<1>2. \A q \in Starts : request'[q] = RequestIdle
  BY DEF StopServing
<1>3. meetings' = meetings /\ meetings \in Seq(Meeting) /\ Len(meetings) \in Nat
  BY DEF StopServing, ServiceInv, ServiceTypeOK
<1>4. \A q \in Starts : request'[q].stage = "idle" /\ request'[q].meeting <= Len(meetings')
  BY <1>1, <1>2, <1>3
<1>5. request' \in [Starts -> Request] /\ serving' \in BOOLEAN /\ ready' \in BOOLEAN
  BY <1>1 DEF StopServing
<1>6. RequestsFilled'
  BY <1>4 DEF RequestsFilled, Open
<1> QED
  BY <1>3, <1>4, <1>5, <1>6 DEF ServiceInv, ServiceTypeOK

(***************************************************************************)
(* What a step leaves as it was                                            *)
(***************************************************************************)

\* The session behind a connection: it is gone, it is new, or it is the same.
TabsKept ==
    \A p \in Tabs :
        /\ tab[p].conns <= tab'[p].conns
        /\ \/ tab'[p].conn = 0
           \/ tab'[p].conn > tab[p].conns
           \/ tab'[p].conn = tab[p].conn /\ tab'[p].user = tab[p].user

LEMMA OwnKept ==
    ASSUME tab \in [Tabs -> Tab], tab' \in [Tabs -> Tab], TabsKept,
           NEW scope \in Connection \cup {None}, NEW user, Own(tab, scope, user)
    PROVE  Own(tab', scope, user)
<1>1. CASE scope = None
  BY <1>1 DEF Own
<1>2. CASE scope # None
  <2>1. scope[1] \in Tabs /\ scope[2] \in Nat
    BY <1>2 DEF Connection
  <2> DEFINE p == scope[1]
  <2>2. /\ tab[p].conns \in Nat /\ tab[p].conn \in Nat
        /\ tab'[p].conns \in Nat /\ tab'[p].conn \in Nat
    BY <2>1 DEF Tab
  <2> QED
    BY <1>2, <2>1, <2>2 DEF Own, TabsKept
<1> QED
  BY <1>1, <1>2

LEMMA TabsSame ==
    ASSUME tab \in [Tabs -> Tab], UNCHANGED tab
    PROVE  TabsKept
BY DEF TabsKept, Tab

\* What the service does not know of a meeting is settled when it is made.
StartedKept ==
    /\ started' \in Seq(Started) /\ Len(started') = Len(meetings')
    /\ \A i \in 1..Len(meetings) : started'[i].scope = started[i].scope

LEMMA StartedSame ==
    ASSUME WebTypeOK, UNCHANGED started, Len(meetings') = Len(meetings)
    PROVE  StartedKept
BY DEF WebTypeOK, StartedKept

LEMMA UnwatchKeeps ==
    ASSUME WebTypeOK, NEW p, Unwatch(p), UNCHANGED meetings
    PROVE  StartedKept
<1> DEFINE After(i) == IF started[i].watch = p THEN [started[i] EXCEPT !.watch = None]
                                              ELSE started[i]
<1>1. started \in Seq(Started) /\ Len(started) = Len(meetings) /\ Len(started) \in Nat
  BY DEF WebTypeOK
<1>2. ASSUME NEW i \in 1..Len(started)
      PROVE  After(i) \in Started /\ After(i).scope = started[i].scope
  <2>1. started[i] \in Started
    BY <1>1
  <2> DEFINE y == [started[i] EXCEPT !.watch = None]
  <2>2. y \in Started /\ y.scope = started[i].scope
    BY <2>1 DEF Started
  <2> HIDE DEF y
  <2>3. After(i) = IF started[i].watch = p THEN y ELSE started[i]
    BY DEF y
  <2> HIDE DEF After
  <2> QED
    BY <2>1, <2>2, <2>3
<1>3. started' = [i \in 1..Len(started) |-> After(i)]
  BY <1>1 DEF Unwatch
<1> HIDE DEF After
<1>4. started' \in Seq(Started) /\ Len(started') = Len(started)
  BY <1>1, <1>2, <1>3
<1> QED
  BY <1>1, <1>2, <1>3, <1>4 DEF StartedKept

\* A meeting stays that of its user and connection.
LEMMA MeetingSessionsKept ==
    ASSUME WebInv, tab' \in [Tabs -> Tab], TabsKept, MeetingsKept, StartedKept,
           \A i \in 1..Len(meetings') :
               i \notin 1..Len(meetings) => Own(tab', started'[i].scope, meetings'[i].user)
    PROVE  MeetingSessions'
<1>1. ASSUME NEW i \in 1..Len(meetings)
      PROVE  Own(tab', started'[i].scope, meetings'[i].user)
  <2>1. started[i].scope \in Connection \cup {None}
    <3>1. started[i] \in Started
      BY DEF WebInv, WebTypeOK
    <3> QED
      BY <3>1 DEF Started
  <2>2. Own(tab, started[i].scope, meetings[i].user)
    BY DEF WebInv, MeetingSessions
  <2>3. Own(tab', started[i].scope, meetings[i].user)
    BY <2>1, <2>2, OwnKept DEF WebInv, WebTypeOK
  <2> QED
    BY <2>3 DEF StartedKept, MeetingsKept
<1> QED
  BY <1>1 DEF MeetingSessions

\* An event on its way stays that of the session it goes to, or is lost.
LEMMA InboxKept ==
    ASSUME WebInv, MeetingsKept, StartedKept, inbox' \in [Tabs -> SUBSET (1..Len(meetings))],
           \A p \in Tabs : \/ inbox'[p] = {}
                           \/ /\ inbox'[p] \subseteq inbox[p]
                              /\ tab'[p].up = tab[p].up
                              /\ tab'[p].conn = tab[p].conn /\ tab'[p].user = tab[p].user
    PROVE  inbox' \in [Tabs -> SUBSET (1..Len(meetings'))] /\ InboxSessions'
<1>1. Len(meetings) \in Nat /\ Len(meetings') \in Nat /\ Len(meetings) <= Len(meetings')
  BY DEF WebInv, ServiceInv, ServiceTypeOK, MeetingsKept
<1>2. inbox' \in [Tabs -> SUBSET (1..Len(meetings'))]
  <2>1. 1..Len(meetings) \subseteq 1..Len(meetings')
    BY <1>1
  <2> QED
    BY <2>1
<1>3. ASSUME NEW p \in Tabs, NEW i \in inbox'[p]
      PROVE  /\ tab'[p].up
             /\ tab'[p].user = meetings'[i].user
             /\ started'[i].scope \in {None, <<p, tab'[p].conn>>}
  <2>1. /\ i \in inbox[p] /\ i \in 1..Len(meetings) /\ tab'[p].up = tab[p].up
        /\ tab'[p].conn = tab[p].conn /\ tab'[p].user = tab[p].user
    BY <1>3
  <2>2. /\ tab[p].up /\ tab[p].user = meetings[i].user
        /\ started[i].scope \in {None, <<p, tab[p].conn>>}
    BY <2>1 DEF WebInv, InboxSessions
  <2> QED
    BY <2>1, <2>2 DEF MeetingsKept, StartedKept
<1> QED
  BY <1>2, <1>3 DEF InboxSessions

LEMMA OpenedKept ==
    ASSUME WebInv, MeetingsKept, StartedKept, UNCHANGED opened
    PROVE  /\ opened' \subseteq [meeting: 1..Len(meetings'), tab: Tabs, conn: Nat, user: Users]
           /\ OpensInOwnSession'
<1>1. 1..Len(meetings) \subseteq 1..Len(meetings')
  BY DEF WebInv, ServiceInv, ServiceTypeOK, MeetingsKept
<1>2. \A o \in opened : /\ o \in [meeting: 1..Len(meetings), tab: Tabs, conn: Nat, user: Users]
                        /\ o.meeting \in 1..Len(meetings)
  BY DEF WebInv, WebTypeOK
<1>3. opened' \subseteq [meeting: 1..Len(meetings'), tab: Tabs, conn: Nat, user: Users]
  BY <1>1, <1>2
<1>4. ASSUME NEW o \in opened
      PROVE  /\ o.user = meetings'[o.meeting].user
             /\ started'[o.meeting].scope \in {None, <<o.tab, o.conn>>}
  BY <1>2 DEF WebInv, OpensInOwnSession, MeetingsKept, StartedKept
<1> QED
  BY <1>3, <1>4 DEF OpensInOwnSession

LEMMA RipeTyped ==
    ASSUME WebTypeOK, Ripen
    PROVE  ripe' \in [Tabs -> BOOLEAN]
BY Zenon DEF WebTypeOK, Ripen

\* A page that does not move knows what it knew.
LEMMA PageKept ==
    ASSUME WebTypeOK, Ripen, NEW p \in Tabs, PageInv(p), tab'[p] = tab[p]
    PROVE  PageInv(p)'
<1>1. ripe[p] /\ tab[p].phase \in {"answered", "loaded"} => ripe'[p]
  BY DEF Ripen
<1> QED
  BY <1>1 DEF PageInv

LEMMA PagesKept ==
    ASSUME WebTypeOK, Ripen, PagesInv, UNCHANGED tab
    PROVE  PagesInv'
BY PageKept DEF PagesInv

\* What becomes of a click that a page or its connection leaves alone.
ClickKept(r) ==
    /\ click'[r].user = click[r].user /\ click'[r].chan = click[r].chan
    /\ click'[r].scope = click[r].scope
    /\ click'[r].made = click[r].made /\ click'[r].resp = click[r].resp
    /\ click'[r].pc = click[r].pc \/ click'[r].pc = "idle"

LEMMA ClickKeeps ==
    ASSUME WebInv, tab' \in [Tabs -> Tab], TabsKept,
           NEW r \in Starts, ClickKept(r), request'[r] = request[r]
    PROVE  ClickFilled(click[r])' /\ ClickInv(r)' /\ ClickSession(r)'
<1>1. ClickFilled(click[r]) /\ ClickInv(r) /\ ClickSession(r)
  BY DEF WebInv, ClicksFilled, ClicksInv, ClickSessions
<1>2. ClickFilled(click[r])'
  BY <1>1 DEF ClickFilled, ClickKept
<1>3. ClickInv(r)'
  BY <1>1 DEF ClickInv, ClickKept, Open
<1>4. click[r].scope \in Connection \cup {None}
  BY DEF WebInv, WebTypeOK, Click
<1>5. Own(tab', click[r].scope, click[r].user)
  BY <1>1, <1>4, OwnKept DEF WebInv, WebTypeOK, ClickSession
<1>6. ClickSession(r)'
  BY <1>1, <1>5 DEF ClickSession, ClickKept, Open
<1> QED
  BY <1>2, <1>3, <1>6

(***************************************************************************)
(* Pages                                                                   *)
(***************************************************************************)

\* A step of one page, which the service does not notice.
PageMoves(p) ==
    /\ tab' \in [Tabs -> Tab]
    /\ \A q \in Tabs : q # p => tab'[q] = tab[q]

LEMMA TabMoves ==
    ASSUME WebTypeOK, NEW p \in Tabs, NEW x \in Tab, tab' = [tab EXCEPT ![p] = x]
    PROVE  PageMoves(p) /\ tab'[p] = x
BY DEF WebTypeOK, PageMoves

LEMMA PageStep ==
    ASSUME WebInv, Ripen, UNCHANGED <<serviceVars, opened>>,
           NEW p \in Tabs, PageMoves(p), PageInv(p)',
           tab[p].conns <= tab'[p].conns,
           \/ tab'[p].conn = 0
           \/ tab'[p].conn > tab[p].conns
           \/ tab'[p].conn = tab[p].conn /\ tab'[p].user = tab[p].user,
           inbox' \in [Tabs -> SUBSET (1..Len(meetings))],
           \A q \in Tabs : q # p => inbox'[q] = inbox[q],
           \/ inbox'[p] = {}
           \/ /\ inbox'[p] = inbox[p] /\ tab'[p].up = tab[p].up
              /\ tab'[p].conn = tab[p].conn /\ tab'[p].user = tab[p].user,
           click' \in [Starts -> Click], \A r \in Starts : ClickKept(r),
           StartedKept
    PROVE  WebInv'
<1>1. TabsKept /\ tab' \in [Tabs -> Tab]
  <2>1. \A q \in Tabs : tab[q].conns <= tab[q].conns
    BY DEF WebInv, WebTypeOK, Tab
  <2>2. \A q \in Tabs : q # p => tab'[q] = tab[q]
    BY DEF PageMoves
  <2>3. TabsKept
    BY <2>1, <2>2 DEF TabsKept
  <2> QED
    BY <2>3 DEF PageMoves
<1>2. /\ MeetingsKept /\ Len(meetings') = Len(meetings)
      /\ ServiceInv' /\ UNCHANGED request
  BY MeetingsSame DEF WebInv, serviceVars, ServiceInv, ServiceTypeOK, RequestsFilled, Open
<1>3. PagesInv'
  <2>1. ASSUME NEW q \in Tabs, q # p
        PROVE  PageInv(q)'
    <3>1. tab'[q] = tab[q] /\ PageInv(q) /\ WebTypeOK
      BY <2>1 DEF PageMoves, WebInv, PagesInv
    <3> QED
      BY <3>1, PageKept
  <2> QED
    BY <2>1 DEF PagesInv
<1>4. ClicksFilled' /\ ClicksInv' /\ ClickSessions'
  BY <1>1, <1>2, ClickKeeps DEF ClicksFilled, ClicksInv, ClickSessions
<1>5. MeetingSessions'
  BY <1>1, <1>2, MeetingSessionsKept
<1>6. inbox' \in [Tabs -> SUBSET (1..Len(meetings'))] /\ InboxSessions'
  <2>1. \A q \in Tabs : \/ inbox'[q] = {}
                        \/ /\ inbox'[q] \subseteq inbox[q]
                           /\ tab'[q].up = tab[q].up
                           /\ tab'[q].conn = tab[q].conn /\ tab'[q].user = tab[q].user
    BY DEF PageMoves
  <2> QED
    BY <1>2, <2>1, InboxKept
<1>7. /\ opened' \subseteq [meeting: 1..Len(meetings'), tab: Tabs, conn: Nat, user: Users]
      /\ OpensInOwnSession'
  BY <1>2, OpenedKept
<1>8. WebTypeOK'
  BY <1>1, <1>2, <1>6, <1>7, RipeTyped DEF WebInv, WebTypeOK, ServiceInv, StartedKept
<1> QED
  BY <1>2, <1>3, <1>4, <1>5, <1>6, <1>7, <1>8 DEF WebInv

\* The same for a step that changes the page and nothing else.
LEMMA PageStepAlone ==
    ASSUME WebInv, Ripen, UNCHANGED <<serviceVars, inbox, click, started, opened>>,
           NEW p \in Tabs, PageMoves(p), PageInv(p)',
           tab[p].conns <= tab'[p].conns,
           \/ tab'[p].conn = 0
           \/ tab'[p].conn > tab[p].conns
           \/ tab'[p].conn = tab[p].conn /\ tab'[p].user = tab[p].user,
           \/ ~ tab[p].up
           \/ /\ tab'[p].up = tab[p].up
              /\ tab'[p].conn = tab[p].conn /\ tab'[p].user = tab[p].user
    PROVE  WebInv'
<1>1. /\ inbox' \in [Tabs -> SUBSET (1..Len(meetings))]
      /\ click' \in [Starts -> Click] /\ StartedKept
  BY StartedSame DEF WebInv, WebTypeOK, serviceVars
<1>2. \A r \in Starts : ClickKept(r)
  BY DEF ClickKept
<1>3. ~ tab[p].up => inbox[p] = {}
  BY DEF WebInv, InboxSessions
<1> QED
  BY <1>1, <1>2, <1>3, PageStep

\* A click that no longer relies on a tab is the same click.
LEMMA UnwatchedKeeps ==
    ASSUME NEW c \in Click, NEW p
    PROVE  /\ Unwatched(c, p) \in Click
           /\ Unwatched(c, p).pc = c.pc /\ Unwatched(c, p).tab = c.tab
           /\ Unwatched(c, p).user = c.user /\ Unwatched(c, p).chan = c.chan
           /\ Unwatched(c, p).scope = c.scope
           /\ Unwatched(c, p).made = c.made /\ Unwatched(c, p).word = c.word
           /\ Unwatched(c, p).resp = c.resp /\ Unwatched(c, p).notice = c.notice
<1> DEFINE w == IF c.watch = p THEN None ELSE c.watch
<1>1. w \in Tabs \cup {None}
  BY DEF Click
<1>2. Unwatched(c, p) = [c EXCEPT !.watch = w]
  BY DEF Unwatched
<1> HIDE DEF w
<1> QED
  BY <1>1, <1>2 DEF Click

LEMMA WordMoves ==
    ASSUME NEW c \in Click, NEW w \in {"", "underway", "there"}
    PROVE  [c EXCEPT !.word = w] \in Click
<1>1. CASE w = ""
  BY <1>1 DEF Click
<1>2. CASE w = "underway"
  BY <1>2 DEF Click
<1>3. CASE w = "there"
  BY <1>3 DEF Click
<1> QED
  BY <1>1, <1>2, <1>3

LEMMA DroppedKeeps ==
    ASSUME NEW c \in Click, NEW p
    PROVE  /\ Dropped(c, p) \in Click
           /\ Dropped(c, p).pc = c.pc /\ Dropped(c, p).tab = c.tab
           /\ Dropped(c, p).user = c.user /\ Dropped(c, p).chan = c.chan
           /\ Dropped(c, p).scope = c.scope /\ Dropped(c, p).made = c.made
           /\ Dropped(c, p).resp = c.resp /\ Dropped(c, p).notice = c.notice
           /\ c.tab # p => Dropped(c, p).word = c.word
<1> DEFINE d == Unwatched(c, p)
           w == IF c.tab = p /\ c.word = "underway" THEN "" ELSE c.word
<1>1. /\ d \in Click /\ d.pc = c.pc /\ d.tab = c.tab /\ d.user = c.user
      /\ d.chan = c.chan /\ d.scope = c.scope /\ d.made = c.made
      /\ d.resp = c.resp /\ d.notice = c.notice
  BY UnwatchedKeeps
<1>2. w \in {"", "underway", "there"} /\ (c.tab # p => w = c.word)
  BY DEF Click
<1> DEFINE e == [d EXCEPT !.word = w]
<1>3. Dropped(c, p) = e
  BY DEF Dropped
<1> HIDE DEF d, w
<1>4. e \in Click
  BY <1>1, <1>2, WordMoves
<1>5. /\ e.pc = d.pc /\ e.tab = d.tab /\ e.user = d.user /\ e.chan = d.chan
      /\ e.scope = d.scope /\ e.made = d.made /\ e.resp = d.resp
      /\ e.notice = d.notice /\ e.word = w
  BY <1>1 DEF Click
<1> HIDE DEF e
<1> QED
  BY <1>1, <1>2, <1>3, <1>4, <1>5

LEMMA OrphanKeeps ==
    ASSUME NEW c \in Click, NEW p
    PROVE  /\ Orphan(c, p) \in Click
           /\ Orphan(c, p).pc = c.pc \/ Orphan(c, p).pc = "idle"
           /\ Orphan(c, p).user = c.user /\ Orphan(c, p).chan = c.chan
           /\ Orphan(c, p).scope = c.scope /\ Orphan(c, p).made = c.made
           /\ Orphan(c, p).resp = c.resp /\ Orphan(c, p).notice = c.notice
           /\ Orphan(c, p).tab = IF c.tab = p THEN None ELSE c.tab
           /\ c.tab # p => Orphan(c, p).word = c.word
<1> DEFINE d == Dropped(c, p)
           pc == IF c.pc = "settled" THEN "idle" ELSE c.pc
           e == [d EXCEPT !.tab = None, !.pc = pc]
<1>1. /\ d \in Click /\ d.pc = c.pc /\ d.tab = c.tab /\ d.user = c.user
      /\ d.chan = c.chan /\ d.scope = c.scope /\ d.made = c.made
      /\ d.resp = c.resp /\ d.notice = c.notice
      /\ c.tab # p => d.word = c.word
  BY DroppedKeeps
<1>2. /\ pc \in {"idle", "sent", "served", "answered", "settled"}
      /\ pc = c.pc \/ pc = "idle"
  BY DEF Click
<1>3. Orphan(c, p) = IF c.tab # p THEN d ELSE e
  BY DEF Orphan
<1> HIDE DEF d, pc
<1>4. /\ e \in Click /\ e.pc = pc /\ e.tab = None /\ e.user = d.user /\ e.chan = d.chan
      /\ e.scope = d.scope /\ e.made = d.made /\ e.resp = d.resp /\ e.notice = d.notice
  BY <1>1, <1>2 DEF Click
<1> HIDE DEF e
<1> QED
  BY <1>1, <1>2, <1>3, <1>4

LEMMA ClicksUnwatched ==
    ASSUME WebTypeOK, NEW p, click' = [r \in Starts |-> Unwatched(click[r], p)]
    PROVE  click' \in [Starts -> Click] /\ \A r \in Starts : ClickKept(r)
BY UnwatchedKeeps DEF WebTypeOK, ClickKept

LEMMA ClicksDropped ==
    ASSUME WebTypeOK, NEW p, click' = [r \in Starts |-> Dropped(click[r], p)]
    PROVE  click' \in [Starts -> Click] /\ \A r \in Starts : ClickKept(r)
BY DroppedKeeps DEF WebTypeOK, ClickKept

LEMMA ClicksOrphaned ==
    ASSUME WebTypeOK, NEW p, click' = [r \in Starts |-> Orphan(click[r], p)]
    PROVE  click' \in [Starts -> Click] /\ \A r \in Starts : ClickKept(r)
BY OrphanKeeps DEF WebTypeOK, ClickKept

LEMMA EmptyInbox ==
    ASSUME WebTypeOK, NEW p \in Tabs, inbox' = [inbox EXCEPT ![p] = {}]
    PROVE  /\ inbox' \in [Tabs -> SUBSET (1..Len(meetings))] /\ inbox'[p] = {}
           /\ \A q \in Tabs : q # p => inbox'[q] = inbox[q]
<1> DEFINE S == SUBSET (1..Len(meetings))
<1>1. inbox \in [Tabs -> S] /\ {} \in S
  BY DEF WebTypeOK
<1> HIDE DEF S
<1>2. /\ inbox' \in [Tabs -> S] /\ inbox'[p] = {}
      /\ \A q \in Tabs : q # p => inbox'[q] = inbox[q]
  BY <1>1
<1> QED
  BY <1>2 DEF S

LEMMA OpenPageKeeps ==
    ASSUME WebInv, Ripen, NEW p \in Tabs, NEW u \in Users, OpenPage(p, u)
    PROVE  WebInv'
<1> DEFINE x == [tab[p] EXCEPT !.phase = "asking", !.user = u]
<1>0. tab[p] \in Tab /\ PageInv(p) /\ tab[p].phase = "closed" /\ WebTypeOK
  BY DEF OpenPage, IsOpen, WebInv, WebTypeOK, PagesInv
<1>1. tab' = [tab EXCEPT ![p] = x]
  BY DEF OpenPage
<1>2. /\ x \in Tab /\ x.phase = "asking" /\ x.user = u /\ x.conns = tab[p].conns
      /\ x.conn = tab[p].conn /\ x.up = tab[p].up /\ x.button = tab[p].button
  BY <1>0 DEF Tab
<1> HIDE DEF x
<1>3. PageMoves(p) /\ tab'[p] = x
  BY <1>0, <1>1, <1>2, TabMoves
<1>4. tab[p].conn = 0 /\ ~ tab[p].up /\ tab[p].conns \in Nat /\ ~ tab[p].button
  BY <1>0 DEF PageInv, Tab
<1>5. PageInv(p)'
  BY <1>2, <1>3, <1>4 DEF PageInv
<1>6. tab[p].conns <= tab'[p].conns /\ tab'[p].conn = 0
  BY <1>2, <1>3, <1>4
<1>7. UNCHANGED <<serviceVars, inbox, click, started, opened>>
  BY DEF OpenPage
<1> QED
  BY <1>3, <1>4, <1>5, <1>6, <1>7, PageStepAlone

LEMMA ClosePageKeeps ==
    ASSUME WebInv, Ripen, NEW p \in Tabs, ClosePage(p)
    PROVE  WebInv'
<1> DEFINE x == TabClosed(tab[p].conns)
<1>0. tab[p] \in Tab /\ WebTypeOK /\ tab[p].conns \in Nat
  BY DEF WebInv, WebTypeOK, Tab
<1>1. tab' = [tab EXCEPT ![p] = x]
  BY DEF ClosePage
<1>2. /\ x \in Tab /\ x.phase = "closed" /\ x.conns = tab[p].conns /\ x.conn = 0
      /\ ~ x.up /\ ~ x.button
  BY <1>0 DEF Tab, TabClosed, ConfigStatus, SafeDefault
<1> HIDE DEF x
<1>3. PageMoves(p) /\ tab'[p] = x
  BY <1>0, <1>1, <1>2, TabMoves
<1>4. PageInv(p)'
  BY <1>0, <1>2, <1>3 DEF PageInv
<1>5. click' \in [Starts -> Click] /\ \A r \in Starts : ClickKept(r)
  BY <1>0, ClicksOrphaned DEF ClosePage
<1>6. StartedKept
  BY <1>0, UnwatchKeeps DEF ClosePage, serviceVars
<1>7. /\ inbox' \in [Tabs -> SUBSET (1..Len(meetings))] /\ inbox'[p] = {}
      /\ \A q \in Tabs : q # p => inbox'[q] = inbox[q]
  BY <1>0, EmptyInbox DEF ClosePage
<1> QED
  BY <1>0, <1>2, <1>3, <1>4, <1>5, <1>6, <1>7, PageStep DEF ClosePage

LEMMA PluginEnabledKeeps ==
    ASSUME WebInv, Ripen, NEW p \in Tabs, PluginEnabled(p)
    PROVE  WebInv'
<1> DEFINE x == [tab[p] EXCEPT !.phase = "asking", !.status = SafeDefault, !.button = FALSE]
<1>0. tab[p] \in Tab /\ PageInv(p) /\ tab[p].phase = "loaded" /\ WebTypeOK
  BY DEF PluginEnabled, WebInv, WebTypeOK, PagesInv
<1>1. tab' = [tab EXCEPT ![p] = x]
  BY DEF PluginEnabled
<1>2. /\ x \in Tab /\ x.phase = "asking" /\ x.user = tab[p].user /\ x.conns = tab[p].conns
      /\ x.conn = tab[p].conn /\ x.up = tab[p].up /\ ~ x.button
  BY <1>0 DEF Tab, ConfigStatus, SafeDefault
<1> HIDE DEF x
<1>3. PageMoves(p) /\ tab'[p] = x
  BY <1>0, <1>1, <1>2, TabMoves
<1>4. PageInv(p)' /\ tab[p].conns <= tab'[p].conns
  BY <1>0, <1>2, <1>3 DEF PageInv, Tab
<1>5. click' \in [Starts -> Click] /\ \A r \in Starts : ClickKept(r)
  BY <1>0, ClicksUnwatched DEF PluginEnabled
<1>6. StartedKept
  BY <1>0, UnwatchKeeps DEF PluginEnabled, serviceVars
<1>7. /\ inbox' \in [Tabs -> SUBSET (1..Len(meetings))]
      /\ \A q \in Tabs : inbox'[q] = inbox[q]
  BY <1>0 DEF PluginEnabled, WebTypeOK
<1> QED
  BY <1>2, <1>3, <1>4, <1>5, <1>6, <1>7, PageStep DEF PluginEnabled

LEMMA ConnectKeeps ==
    ASSUME WebInv, Ripen, NEW p \in Tabs, Connect(p)
    PROVE  WebInv'
<1> DEFINE n == tab[p].conns + 1
           x == [tab[p] EXCEPT !.conns = n, !.conn = n, !.up = TRUE]
<1>0. tab[p] \in Tab /\ PageInv(p) /\ tab[p].phase # "closed" /\ WebTypeOK /\ ~ tab[p].up
  BY DEF Connect, IsOpen, WebInv, WebTypeOK, PagesInv
<1>1. tab' = [tab EXCEPT ![p] = x]
  BY DEF Connect
<1>2. n \in Nat /\ tab[p].conns \in Nat /\ n > tab[p].conns
  BY <1>0 DEF Tab
<1> HIDE DEF n
<1>3. /\ x \in Tab /\ x.phase = tab[p].phase /\ x.user = tab[p].user /\ x.conns = n
      /\ x.conn = n /\ x.up /\ x.button = tab[p].button /\ x.status = tab[p].status
  BY <1>0, <1>2 DEF Tab
<1> HIDE DEF x
<1>4. PageMoves(p) /\ tab'[p] = x
  BY <1>0, <1>1, <1>3, TabMoves
<1>5. ripe[p] /\ tab[p].phase \in {"answered", "loaded"} => ripe'[p]
  BY <1>3, <1>4 DEF Ripen
<1>6. PageInv(p)'
  BY <1>0, <1>2, <1>3, <1>4, <1>5 DEF PageInv
<1>7. tab[p].conns <= tab'[p].conns /\ tab'[p].conn > tab[p].conns
  BY <1>2, <1>3, <1>4
<1>8. UNCHANGED <<serviceVars, inbox, click, started, opened>>
  BY DEF Connect
<1> QED
  BY <1>0, <1>4, <1>6, <1>7, <1>8, PageStepAlone

LEMMA BreakKeeps ==
    ASSUME WebInv, Ripen, NEW p \in Tabs, Break(p)
    PROVE  WebInv'
<1> DEFINE x == [tab[p] EXCEPT !.up = FALSE]
<1>0. tab[p] \in Tab /\ PageInv(p) /\ WebTypeOK
  BY DEF WebInv, WebTypeOK, PagesInv
<1>1. tab' = [tab EXCEPT ![p] = x]
  BY DEF Break
<1>2. /\ x \in Tab /\ x.phase = tab[p].phase /\ x.user = tab[p].user
      /\ x.conns = tab[p].conns /\ x.conn = tab[p].conn /\ ~ x.up
      /\ x.button = tab[p].button /\ x.status = tab[p].status
  BY <1>0 DEF Tab
<1> HIDE DEF x
<1>3. PageMoves(p) /\ tab'[p] = x
  BY <1>0, <1>1, <1>2, TabMoves
<1>4. ripe[p] /\ tab[p].phase \in {"answered", "loaded"} => ripe'[p]
  BY <1>2, <1>3 DEF Ripen
<1>5. PageInv(p)' /\ tab[p].conns <= tab'[p].conns
  BY <1>0, <1>2, <1>3, <1>4 DEF PageInv, Tab
<1>6. click' \in [Starts -> Click] /\ \A r \in Starts : ClickKept(r)
  BY <1>0, ClicksDropped DEF Break
<1>7. StartedKept
  BY <1>0, UnwatchKeeps DEF Break, serviceVars
<1>8. /\ inbox' \in [Tabs -> SUBSET (1..Len(meetings))] /\ inbox'[p] = {}
      /\ \A q \in Tabs : q # p => inbox'[q] = inbox[q]
  BY <1>0, EmptyInbox DEF Break
<1> QED
  BY <1>2, <1>3, <1>5, <1>6, <1>7, <1>8, PageStep DEF Break

LEMMA LearnKeeps ==
    ASSUME WebInv, Ripen, NEW p \in Tabs, NEW status \in ConfigStatus,
           tab[p].phase = "asking", Learn(p, status),
           status.configured => serving /\ ready,
           status.is_admin => tab[p].user \in Admins,
           UNCHANGED <<serviceVars, inbox, click, started, opened>>
    PROVE  WebInv'
<1> DEFINE x == [tab[p] EXCEPT !.phase = "answered", !.status = status]
<1>0. tab[p] \in Tab /\ PageInv(p) /\ WebTypeOK /\ tab[p].conns \in Nat
  BY DEF WebInv, WebTypeOK, PagesInv, Tab
<1>1. tab' = [tab EXCEPT ![p] = x]
  BY DEF Learn
<1>2. /\ x \in Tab /\ x.phase = "answered" /\ x.user = tab[p].user
      /\ x.conns = tab[p].conns /\ x.conn = tab[p].conn /\ x.up = tab[p].up
      /\ x.button = tab[p].button /\ x.status = status
  BY <1>0 DEF Tab
<1> HIDE DEF x
<1>3. PageMoves(p) /\ tab'[p] = x
  BY <1>0, <1>1, <1>2, TabMoves
<1>4. serving /\ ready => ripe'[p]
  BY <1>2, <1>3 DEF Ripen, serviceVars
<1>5. PageInv(p)'
  BY <1>0, <1>2, <1>3, <1>4 DEF PageInv
<1>6. /\ tab[p].conns <= tab'[p].conns /\ tab'[p].up = tab[p].up
      /\ tab'[p].conn = tab[p].conn /\ tab'[p].user = tab[p].user
  BY <1>0, <1>2, <1>3
<1> QED
  BY <1>3, <1>5, <1>6, PageStepAlone

LEMMA HandleConfigStatusKeeps ==
    ASSUME WebInv, Ripen, NEW p \in Tabs, HandleConfigStatus(p)
    PROVE  WebInv'
<1> DEFINE admin == tab[p].user \in Admins
           unknown == IF "api" \in Faults THEN {FALSE} ELSE {}
<1>0. unknown \subseteq {FALSE}
  OBVIOUS
<1>7. admin \in BOOLEAN
  OBVIOUS
<1>8. admin => tab[p].user \in Admins
  OBVIOUS
<1>1. \E is_admin \in {admin} \cup unknown :
        Learn(p, [configured |-> ready, is_admin |-> is_admin])
  BY DEF HandleConfigStatus
<1> HIDE DEF admin, unknown
<1>2. PICK is_admin \in {admin} \cup unknown :
        Learn(p, [configured |-> ready, is_admin |-> is_admin])
  BY <1>1
<1> DEFINE status == [configured |-> ready, is_admin |-> is_admin]
<1>6. is_admin \in BOOLEAN /\ (is_admin => tab[p].user \in Admins)
  <2>1. CASE is_admin = admin
    BY <1>7, <1>8, <2>1, Zenon
  <2>2. CASE is_admin = FALSE
    BY <2>2
  <2> QED
    BY <1>0, <1>2, <2>1, <2>2
<1>3. ready \in BOOLEAN
  BY DEF WebInv, ServiceInv, ServiceTypeOK
<1>4. status \in ConfigStatus /\ status.configured = ready /\ status.is_admin = is_admin
  BY <1>3, <1>6 DEF ConfigStatus
<1>5. /\ tab[p].phase = "asking" /\ serving /\ Learn(p, status)
      /\ UNCHANGED <<serviceVars, inbox, click, started, opened>>
  BY <1>2 DEF HandleConfigStatus
<1> HIDE DEF status
<1> QED
  BY <1>4, <1>5, <1>6, LearnKeeps

LEMMA ConfigStatusFailsKeeps ==
    ASSUME WebInv, Ripen, NEW p \in Tabs, ConfigStatusFails(p)
    PROVE  WebInv'
<1>1. /\ SafeDefault \in ConfigStatus
      /\ ~ SafeDefault.configured /\ ~ SafeDefault.is_admin
  BY DEF SafeDefault, ConfigStatus
<1> QED
  BY <1>1, LearnKeeps DEF ConfigStatusFails

LEMMA RegisterKeeps ==
    ASSUME WebInv, Ripen, NEW p \in Tabs, Register(p)
    PROVE  WebInv'
<1> DEFINE b == tab[p].status.configured \/ tab[p].status.is_admin
           x == [tab[p] EXCEPT !.phase = "loaded", !.button = b]
<1>0. /\ tab[p] \in Tab /\ PageInv(p) /\ WebTypeOK /\ tab[p].conns \in Nat
      /\ tab[p].phase = "answered"
  BY DEF WebInv, WebTypeOK, PagesInv, Tab, Register
<1>1. tab' = [tab EXCEPT ![p] = x]
  BY DEF Register
<1>2. b \in BOOLEAN /\ (b => tab[p].status.configured \/ tab[p].status.is_admin)
  OBVIOUS
<1> HIDE DEF b
<1>3. /\ x \in Tab /\ x.phase = "loaded" /\ x.user = tab[p].user
      /\ x.conns = tab[p].conns /\ x.conn = tab[p].conn /\ x.up = tab[p].up
      /\ x.button = b /\ x.status = tab[p].status
  BY <1>0, <1>2 DEF Tab
<1> HIDE DEF x
<1>4. PageMoves(p) /\ tab'[p] = x
  BY <1>0, <1>1, <1>3, TabMoves
<1>5. ripe[p] => ripe'[p]
  BY <1>3, <1>4 DEF Ripen
<1>6. PageInv(p)'
  BY <1>0, <1>2, <1>3, <1>4, <1>5 DEF PageInv
<1>7. /\ tab[p].conns <= tab'[p].conns /\ tab'[p].up = tab[p].up
      /\ tab'[p].conn = tab[p].conn /\ tab'[p].user = tab[p].user
  BY <1>0, <1>3, <1>4
<1>8. UNCHANGED <<serviceVars, inbox, click, started, opened>>
  BY DEF Register
<1> QED
  BY <1>4, <1>6, <1>7, <1>8, PageStepAlone

(***************************************************************************)
(* Clicks                                                                  *)
(***************************************************************************)

\* A step of one click or of the request behind it: what it has to keep.
LEMMA SlotStep ==
    ASSUME WebInv, Ripen, UNCHANGED <<tab, opened>>,
           NEW r \in Starts, NEW c \in Click, click' = [click EXCEPT ![r] = c],
           ServiceInv', \A q \in Starts : q # r => request'[q] = request[q],
           MeetingsKept, StartedKept,
           inbox' \in [Tabs -> SUBSET (1..Len(meetings'))], InboxSessions',
           \A i \in 1..Len(meetings') :
               i \notin 1..Len(meetings) => Own(tab, started'[i].scope, meetings'[i].user),
           ClickFilled(c), ClickInv(r)',
           Own(tab, c.scope, c.user), Open(r)' => request'[r].user = c.user
    PROVE  WebInv'
<1>1. TabsKept /\ tab' \in [Tabs -> Tab]
  BY TabsSame DEF WebInv, WebTypeOK
<1>2. /\ click' \in [Starts -> Click] /\ click'[r] = c
      /\ \A q \in Starts : q # r => click'[q] = click[q]
  BY DEF WebInv, WebTypeOK
<1>3. \A q \in Starts : q # r =>
         /\ ClickFilled(click[q])' /\ ClickInv(q)' /\ ClickSession(q)'
  <2>1. \A q \in Starts : q # r => ClickKept(q)
    BY <1>2 DEF ClickKept
  <2> QED
    BY <1>1, <2>1, ClickKeeps
<1>4. ClickFilled(click[r])' /\ ClickSession(r)'
  BY <1>2 DEF ClickSession, ClickFilled
<1>5. ClicksFilled' /\ ClicksInv' /\ ClickSessions'
  BY <1>3, <1>4 DEF ClicksFilled, ClicksInv, ClickSessions
<1>6. MeetingSessions'
  BY <1>1, MeetingSessionsKept
<1>7. /\ opened' \subseteq [meeting: 1..Len(meetings'), tab: Tabs, conn: Nat, user: Users]
      /\ OpensInOwnSession'
  BY OpenedKept
<1>8. PagesInv'
  BY PagesKept DEF WebInv
<1>9. WebTypeOK'
  BY <1>1, <1>2, <1>7, RipeTyped DEF WebInv, WebTypeOK, ServiceInv, StartedKept
<1> QED
  BY <1>5, <1>6, <1>7, <1>8, <1>9 DEF WebInv

\* The same for a step that makes no meeting and sends no event.
LEMMA SlotStepAlone ==
    ASSUME WebInv, Ripen, UNCHANGED <<tab, inbox, started, opened>>,
           NEW r \in Starts, NEW c \in Click, click' = [click EXCEPT ![r] = c],
           ServiceInv', \A q \in Starts : q # r => request'[q] = request[q],
           MeetingsKept, Len(meetings') = Len(meetings),
           ClickFilled(c), ClickInv(r)',
           Own(tab, c.scope, c.user), Open(r)' => request'[r].user = c.user
    PROVE  WebInv'
<1>1. StartedKept
  BY StartedSame DEF WebInv
<1>2. inbox' \in [Tabs -> SUBSET (1..Len(meetings))]
  BY DEF WebInv, WebTypeOK
<1>3. inbox' \in [Tabs -> SUBSET (1..Len(meetings'))] /\ InboxSessions'
  BY <1>1, <1>2, InboxKept
<1> QED
  BY <1>1, <1>3, SlotStep

\* The answers.
LEMMA NoticeIs ==
    ASSUME NEW resp \in Responses
    PROVE  /\ Notice(resp) \in Notices
           /\ Notice(resp) = "" => resp \in {"ok", "handled"}
BY DEF Notice, Notices, Responses

LEMMA SettledKeeps ==
    ASSUME NEW c \in Click, NEW resp \in Responses
    PROVE  /\ Settled(c, resp) \in Click
           /\ Settled(c, resp).pc \in {"idle", "settled"}
           /\ Settled(c, resp).user = c.user /\ Settled(c, resp).scope = c.scope
           /\ Settled(c, resp).made = c.made /\ Settled(c, resp).word = c.word
           /\ Settled(c, resp).tab = c.tab
           /\ Settled(c, resp).pc = "settled" => Settled(c, resp).notice = Notice(resp)
<1> DEFINE n == Notice(resp)
           d == [c EXCEPT !.pc = "idle", !.resp = ""]
           e == [c EXCEPT !.pc = "settled", !.resp = "", !.notice = n]
<1>1. n \in Notices
  BY NoticeIs
<1> HIDE DEF n
<1>2. /\ d \in Click /\ d.pc = "idle" /\ d.user = c.user /\ d.scope = c.scope
      /\ d.made = c.made /\ d.word = c.word /\ d.tab = c.tab
  BY DEF Click
<1>3. /\ e \in Click /\ e.pc = "settled" /\ e.user = c.user /\ e.scope = c.scope
      /\ e.made = c.made /\ e.word = c.word /\ e.tab = c.tab /\ e.notice = n
  BY <1>1 DEF Click
<1> HIDE DEF d, e
<1>4. Settled(c, resp) = IF c.tab = None THEN d ELSE e
  BY DEF Settled, d, e, n
<1> QED
  BY <1>2, <1>3, <1>4 DEF n

LEMMA AnsweredKeeps ==
    ASSUME NEW c \in Click, NEW resp \in Responses
    PROVE  /\ Answered(c, resp) \in Click
           /\ Answered(c, resp).user = c.user /\ Answered(c, resp).scope = c.scope
           /\ Answered(c, resp).made = c.made /\ Answered(c, resp).word = c.word
           /\ Answered(c, resp).tab = c.tab /\ Answered(c, resp).notice = c.notice
           /\ \/ Answered(c, resp).pc = c.pc /\ Answered(c, resp).resp = c.resp
              \/ Answered(c, resp).pc = "idle"
              \/ Answered(c, resp).pc = "answered" /\ Answered(c, resp).resp = resp
<1> DEFINE d == [c EXCEPT !.pc = "idle"]
           e == [c EXCEPT !.pc = "answered", !.resp = resp]
<1>1. /\ d \in Click /\ d.pc = "idle" /\ d.user = c.user /\ d.scope = c.scope
      /\ d.made = c.made /\ d.word = c.word /\ d.tab = c.tab /\ d.notice = c.notice
  BY DEF Click
<1>2. /\ e \in Click /\ e.pc = "answered" /\ e.user = c.user /\ e.scope = c.scope
      /\ e.made = c.made /\ e.word = c.word /\ e.tab = c.tab /\ e.notice = c.notice
      /\ e.resp = resp
  BY DEF Click
<1> HIDE DEF d, e
<1>3. Answered(c, resp) = IF c.pc # "served" THEN c ELSE IF c.tab = None THEN d ELSE e
  BY DEF Answered, d, e
<1> QED
  BY <1>1, <1>2, <1>3

LEMMA SettledRelies ==
    ASSUME NEW c \in Click, NEW resp
    PROVE  Settled(c, resp).watch = c.watch /\ Settled(c, resp).scope = c.scope
BY DEF Settled, Click

LEMMA AnsweredRelies ==
    ASSUME NEW c \in Click, NEW resp
    PROVE  Answered(c, resp).watch = c.watch /\ Answered(c, resp).scope = c.scope
BY DEF Answered, Click

\* The post to the user is the click's, whether the page gets it or not.
LEMMA EphemeralKeeps ==
    ASSUME NEW c \in Click
    PROVE  /\ Ephemeral(c) \in Click
           /\ Ephemeral(c).pc = c.pc /\ Ephemeral(c).tab = c.tab
           /\ Ephemeral(c).user = c.user /\ Ephemeral(c).chan = c.chan
           /\ Ephemeral(c).scope = c.scope /\ Ephemeral(c).watch = c.watch
           /\ Ephemeral(c).resp = c.resp /\ Ephemeral(c).notice = c.notice
           /\ Ephemeral(c).made = c.made
           /\ c.tab # None /\ tab[c.tab].up => Ephemeral(c).word = "underway"
<1> DEFINE d == [c EXCEPT !.word = "underway"]
<1>1. /\ d \in Click /\ d.pc = c.pc /\ d.tab = c.tab /\ d.user = c.user
      /\ d.chan = c.chan /\ d.scope = c.scope /\ d.watch = c.watch
      /\ d.resp = c.resp /\ d.notice = c.notice /\ d.made = c.made
      /\ d.word = "underway"
  BY DEF Click
<1>2. Ephemeral(c) = IF c.tab # None /\ tab[c.tab].up THEN d ELSE c
  BY DEF Ephemeral
<1> HIDE DEF d
<1> QED
  BY <1>1, <1>2

\* What holds of a click and its request before the step.
LEMMA SlotFacts ==
    ASSUME WebInv, NEW r \in Starts
    PROVE  /\ click[r] \in Click /\ ClickFilled(click[r]) /\ ClickInv(r)
           /\ Own(tab, click[r].scope, click[r].user)
           /\ Open(r) => request[r].user = click[r].user
           /\ click \in [Starts -> Click] /\ ServiceInv
BY DEF WebInv, WebTypeOK, ClicksFilled, ClicksInv, ClickSessions, ClickSession

LEMMA ClickButtonKeeps ==
    ASSUME WebInv, Ripen, NEW p \in Tabs, NEW r \in Starts, NEW ch \in Channels,
           ClickButton(p, r, ch)
    PROVE  WebInv'
<1> DEFINE u == tab[p].user
           s == ScopeOf(p)
           w == IF tab[p].up THEN p ELSE None
           c == [ClickIdle EXCEPT !.pc = "sent", !.tab = p, !.user = u, !.chan = ch,
                                  !.scope = s, !.watch = w]
<1>1. /\ tab[p] \in Tab /\ PageInv(p) /\ tab[p].phase = "loaded" /\ ~ Open(r)
      /\ UNCHANGED <<serviceVars, tab, inbox, started, opened>>
  BY DEF WebInv, WebTypeOK, PagesInv, ClickButton, Free
<1>2. u \in Users /\ w \in Tabs \cup {None}
  BY <1>1 DEF PageInv
<1>3. s \in Connection \cup {None} /\ Own(tab, s, u)
  <2>1. CASE tab[p].conn = 0
    BY <2>1 DEF ScopeOf, Own
  <2>2. CASE tab[p].conn # 0
    <3>1. s = <<p, tab[p].conn>> /\ s \in Connection /\ s[1] = p /\ s[2] = tab[p].conn
      BY <1>1, <2>2 DEF ScopeOf, Connection, Tab
    <3>2. 1 <= tab[p].conn /\ tab[p].conn <= tab[p].conns
      BY <1>1, <2>2 DEF PageInv, Tab
    <3> QED
      BY <3>1, <3>2 DEF Own
  <2> QED
    BY <2>1, <2>2
<1>4. click' = [click EXCEPT ![r] = c]
  BY DEF ClickButton
<1> HIDE DEF u, s, w
<1>5. /\ c \in Click /\ c.pc = "sent" /\ c.user = u /\ c.chan = ch /\ c.scope = s
      /\ c.made = 0
  BY <1>2, <1>3 DEF Click, ClickIdle, Notices
<1> HIDE DEF c
<1>6. /\ MeetingsKept /\ Len(meetings') = Len(meetings) /\ ServiceInv'
      /\ UNCHANGED request /\ request'[r].stage = "idle"
  BY <1>1, MeetingsSame DEF WebInv, serviceVars, ServiceInv, ServiceTypeOK, RequestsFilled, Open
<1>7. click'[r] = c
  BY <1>4, SlotFacts
<1>8. ClickInv(r)' /\ ~ Open(r)'
  <2>1. 0 <= 1
    OBVIOUS
  <2> QED
    BY <1>5, <1>6, <1>7, <2>1, Zenon DEF ClickInv, Open
<1>9. ClickFilled(c)
  BY <1>2, <1>5 DEF ClickFilled
<1> QED
  BY <1>1, <1>3, <1>4, <1>5, <1>6, <1>8, <1>9, SlotStepAlone

LEMMA MeetStartKeeps ==
    ASSUME WebInv, Ripen, NEW r \in Starts, NEW u \in Users, NEW ch \in Channels,
           MeetStart(r, u, ch)
    PROVE  WebInv'
<1> DEFINE pc == IF ready THEN "served" ELSE "idle"
           c == [ClickIdle EXCEPT !.pc = pc, !.user = u, !.chan = ch]
<1>1. pc \in {"idle", "served"}
  OBVIOUS
<1>2. click' = [click EXCEPT ![r] = c]
  BY DEF MeetStart
<1> HIDE DEF pc
<1>3. c \in Click /\ c.pc = pc /\ c.user = u /\ c.scope = None /\ c.made = 0
  BY <1>1 DEF Click, ClickIdle, Notices
<1> HIDE DEF c
<1>4. click'[r] = c
  BY <1>2, SlotFacts
<1>5. /\ ServiceInv' /\ UNCHANGED <<serving, ready, meetings>>
      /\ request'[r].stage \in {"asked", "idle"} /\ request'[r].user = u
      /\ \A q \in Starts : q # r => request'[q] = request[q]
  <2>1. ServiceInv /\ Ask(r, u, ch)
    BY SlotFacts DEF MeetStart
  <2> QED
    BY <2>1, AskEffect
<1>6. MeetingsKept /\ Len(meetings') = Len(meetings)
  BY <1>5, SlotFacts, MeetingsSame
<1>7. ClickInv(r)'
  <2>1. 0 <= 1
    OBVIOUS
  <2> QED
    BY <1>1, <1>3, <1>4, <1>5, <2>1 DEF ClickInv
<1>8. ClickFilled(c) /\ Own(tab, c.scope, c.user)
  BY <1>1, <1>3 DEF ClickFilled, Own
<1>9. UNCHANGED <<tab, inbox, started, opened>>
  BY DEF MeetStart
<1> QED
  BY <1>2, <1>3, <1>5, <1>6, <1>7, <1>8, <1>9, SlotStepAlone

LEMMA FetchReachesKeeps ==
    ASSUME WebInv, Ripen, NEW r \in Starts, FetchReaches(r)
    PROVE  WebInv'
<1>1. /\ click[r] \in Click /\ ClickFilled(click[r]) /\ ClickInv(r) /\ ServiceInv
      /\ Own(tab, click[r].scope, click[r].user) /\ click[r].pc = "sent"
      /\ UNCHANGED <<tab, inbox, started, opened>>
      /\ click[r].user \in Users /\ click[r].chan \in Channels
      /\ click[r].made = 0 /\ ~ Open(r)
  BY SlotFacts DEF FetchReaches, ClickFilled, ClickInv
<1>2. CASE /\ Ask(r, click[r].user, click[r].chan)
           /\ click' = [click EXCEPT ![r] =
                          IF ready THEN [click[r] EXCEPT !.pc = "served"]
                          ELSE [Ephemeral(click[r]) EXCEPT !.pc = "answered",
                                                           !.resp = "handled"]]
  <2> DEFINE e == Ephemeral(click[r])
             d == [click[r] EXCEPT !.pc = "served"]
             f == [e EXCEPT !.pc = "answered", !.resp = "handled"]
             c == IF ready THEN d ELSE f
  <2>1. click' = [click EXCEPT ![r] = c]
    BY <1>2
  <2>2. /\ e \in Click /\ e.user = click[r].user /\ e.scope = click[r].scope
        /\ e.made = click[r].made
    BY <1>1, EphemeralKeeps
  <2> HIDE DEF e
  <2>10. /\ d \in Click /\ d.pc = "served" /\ d.user = click[r].user
         /\ d.scope = click[r].scope /\ d.made = click[r].made
    BY <1>1 DEF Click
  <2>3. /\ f \in Click /\ f.pc = "answered" /\ f.resp = "handled" /\ f.user = e.user
        /\ f.scope = e.scope /\ f.made = e.made
    BY <2>2 DEF Click, Responses
  <2> HIDE DEF d, f
  <2>4. /\ c \in Click /\ c.user = click[r].user /\ c.scope = click[r].scope
        /\ c.made = click[r].made
        /\ c.pc = "served" \/ (c.pc = "answered" /\ c.resp = "handled")
    BY <2>2, <2>3, <2>10
  <2> HIDE DEF c
  <2>5. click'[r] = c
    BY <2>1, SlotFacts
  <2>6. /\ ServiceInv' /\ UNCHANGED <<serving, ready, meetings>>
        /\ request'[r].stage \in {"asked", "idle"} /\ request'[r].user = click[r].user
        /\ \A q \in Starts : q # r => request'[q] = request[q]
    BY <1>1, <1>2, AskEffect
  <2>7. MeetingsKept /\ Len(meetings') = Len(meetings)
    BY <1>1, <2>6, MeetingsSame
  <2>8. ClickInv(r)'
    BY <1>1, <2>4, <2>5, <2>6 DEF ClickInv, Responses
  <2>9. ClickFilled(c)
    BY <2>4 DEF ClickFilled
  <2> QED
    BY <1>1, <2>1, <2>4, <2>6, <2>7, <2>8, <2>9, SlotStepAlone
<1>3. CASE /\ click' = [click EXCEPT ![r].pc = "answered", ![r].resp = "error"]
           /\ UNCHANGED serviceVars
  <2> DEFINE c == [click[r] EXCEPT !.pc = "answered", !.resp = "error"]
  <2>1. click' = [click EXCEPT ![r] = c]
    BY <1>3
  <2>2. /\ c \in Click /\ c.pc = "answered" /\ c.resp = "error"
        /\ c.user = click[r].user /\ c.scope = click[r].scope /\ c.made = click[r].made
    BY <1>1 DEF Click, Responses
  <2> HIDE DEF c
  <2>3. click'[r] = c
    BY <2>1, SlotFacts
  <2>4. /\ MeetingsKept /\ Len(meetings') = Len(meetings) /\ ServiceInv'
        /\ UNCHANGED request /\ ~ Open(r)'
    BY <1>1, <1>3, MeetingsSame
    DEF serviceVars, ServiceInv, ServiceTypeOK, RequestsFilled, Open
  <2>5. ClickInv(r)'
    BY <1>1, <2>2, <2>3, <2>4 DEF ClickInv, Responses, Open
  <2>6. ClickFilled(c)
    BY <2>2 DEF ClickFilled
  <2> QED
    BY <1>1, <2>1, <2>2, <2>4, <2>5, <2>6, SlotStepAlone
<1> QED
  BY <1>2, <1>3 DEF FetchReaches

\* An answer, or what stands for it, reaches the page.
LEMMA SettleKeeps ==
    ASSUME WebInv, Ripen, NEW r \in Starts, NEW resp \in Responses,
           click' = [click EXCEPT ![r] = Settled(click[r], resp)],
           UNCHANGED <<serviceVars, tab, inbox, started, opened>>
    PROVE  WebInv'
<1> DEFINE c == Settled(click[r], resp)
<1>1. /\ click[r] \in Click /\ ClickInv(r) /\ ServiceInv
      /\ Own(tab, click[r].scope, click[r].user)
      /\ Open(r) => request[r].user = click[r].user
  BY SlotFacts
<1>2. /\ c \in Click /\ c.pc \in {"idle", "settled"} /\ c.user = click[r].user
      /\ c.scope = click[r].scope /\ c.made = click[r].made
  BY <1>1, SettledKeeps
<1>3. click' = [click EXCEPT ![r] = c]
  OBVIOUS
<1> HIDE DEF c
<1>4. click'[r] = c
  BY <1>3, SlotFacts
<1>5. /\ MeetingsKept /\ Len(meetings') = Len(meetings) /\ ServiceInv' /\ UNCHANGED request
  BY <1>1, MeetingsSame DEF serviceVars, ServiceInv, ServiceTypeOK, RequestsFilled, Open
<1>6. ClickInv(r)'
  BY <1>1, <1>2, <1>4, <1>5 DEF ClickInv
<1>7. ClickFilled(c)
  BY <1>2 DEF ClickFilled
<1>8. /\ UNCHANGED <<tab, inbox, started, opened>>
      /\ \A q \in Starts : q # r => request'[q] = request[q]
      /\ Open(r)' => request'[r].user = c.user
  BY <1>1, <1>2, <1>5 DEF Open
<1> QED
  BY <1>1, <1>2, <1>3, <1>5, <1>6, <1>7, <1>8, SlotStepAlone

LEMMA ResponseArrivesKeeps ==
    ASSUME WebInv, Ripen, NEW r \in Starts, ResponseArrives(r)
    PROVE  WebInv'
<1>1. click[r].resp \in Responses
  BY SlotFacts DEF ResponseArrives, ClickInv
<1> QED
  BY <1>1, SettleKeeps DEF ResponseArrives

LEMMA FetchFailsKeeps ==
    ASSUME WebInv, Ripen, NEW r \in Starts, FetchFails(r)
    PROVE  WebInv'
<1>1. PICK resp \in Strange : click' = [click EXCEPT ![r] = Settled(click[r], resp)]
  BY DEF FetchFails
<1>2. resp \in Responses
  BY DEF Strange
<1> QED
  BY <1>1, <1>2, SettleKeeps DEF FetchFails

(***************************************************************************)
(* The service at work                                                     *)
(***************************************************************************)

LEMMA RefusedKeeps ==
    ASSUME WebInv, Ripen, NEW r \in Starts, Refused(r)
    PROVE  WebInv'
<1> DEFINE e == Ephemeral(click[r])
           c == Answered(e, "handled")
<1>1. /\ click[r] \in Click /\ ClickFilled(click[r]) /\ ClickInv(r) /\ ServiceInv
      /\ Own(tab, click[r].scope, click[r].user)
      /\ UNCHANGED <<tab, inbox, started, opened>>
  BY SlotFacts DEF Refused
<1>2. click' = [click EXCEPT ![r] = c]
  BY DEF Refused
<1>3. /\ e \in Click /\ e.pc = click[r].pc /\ e.resp = click[r].resp
      /\ e.user = click[r].user /\ e.scope = click[r].scope /\ e.made = click[r].made
  BY <1>1, EphemeralKeeps
<1> HIDE DEF e
<1>4. /\ c \in Click /\ c.user = e.user /\ c.scope = e.scope /\ c.made = e.made
      /\ \/ c.pc = e.pc /\ c.resp = e.resp
         \/ c.pc = "idle"
         \/ c.pc = "answered" /\ c.resp = "handled"
  BY <1>3, AnsweredKeeps DEF Responses
<1> HIDE DEF c
<1>5. click'[r] = c
  BY <1>2, SlotFacts
<1>6. /\ ServiceInv' /\ UNCHANGED <<serving, ready, meetings>> /\ Open(r)
      /\ request'[r].stage = "idle"
      /\ \A q \in Starts : q # r => request'[q] = request[q]
  BY <1>1, RefuseEffect DEF Refused
<1>7. MeetingsKept /\ Len(meetings') = Len(meetings) /\ ~ Open(r)'
  BY <1>1, <1>6, MeetingsSame DEF Open
<1>8. c.pc # "sent"
  BY <1>1, <1>3, <1>4, <1>6 DEF ClickInv
<1>9. ClickInv(r)'
  <2>1. c.pc = "answered" => c.resp \in Responses
    BY <1>1, <1>3, <1>4 DEF ClickInv, Responses
  <2> QED
    BY <1>1, <1>3, <1>4, <1>5, <1>6, <1>8, <2>1 DEF ClickInv
<1>10. ClickFilled(c) /\ Own(tab, c.scope, c.user)
  BY <1>1, <1>3, <1>4, <1>8 DEF ClickFilled
<1> QED
  BY <1>1, <1>2, <1>4, <1>6, <1>7, <1>9, <1>10, SlotStepAlone

LEMMA PostedKeeps ==
    ASSUME WebInv, Ripen, NEW r \in Starts, Posted(r)
    PROVE  WebInv'
<1> DEFINE c == [click[r] EXCEPT !.word = "there"]
<1>1. /\ click[r] \in Click /\ ClickFilled(click[r]) /\ ClickInv(r) /\ ServiceInv
      /\ Own(tab, click[r].scope, click[r].user)
      /\ Open(r) => request[r].user = click[r].user
      /\ UNCHANGED <<tab, inbox, started, opened>>
  BY SlotFacts DEF Posted
<1>2. click' = [click EXCEPT ![r] = c]
  BY DEF Posted
<1>3. /\ c \in Click /\ c.pc = click[r].pc /\ c.resp = click[r].resp
      /\ c.user = click[r].user /\ c.chan = click[r].chan
      /\ c.scope = click[r].scope /\ c.made = click[r].made
  BY <1>1 DEF Click
<1> HIDE DEF c
<1>4. click'[r] = c
  BY <1>2, SlotFacts
<1>5. /\ ServiceInv' /\ UNCHANGED <<serving, ready>> /\ MeetingsKept
      /\ Len(meetings') = Len(meetings)
      /\ request[r].stage = "made" /\ request'[r].stage = "posted"
      /\ request'[r].user = request[r].user
      /\ \A q \in Starts : q # r => request'[q] = request[q]
  BY <1>1, PostEffect DEF Posted
<1>6. Open(r)
  BY <1>5 DEF Open
<1>7. ClickInv(r)'
  BY <1>1, <1>3, <1>4, <1>5, <1>6 DEF ClickInv
<1>8. ClickFilled(c) /\ request'[r].user = c.user
  BY <1>1, <1>3, <1>5, <1>6 DEF ClickFilled
<1>9. Own(tab, c.scope, c.user)
  BY <1>1, <1>3
<1> QED
  BY <1>1, <1>2, <1>3, <1>5, <1>7, <1>8, <1>9, SlotStepAlone

\* What Made makes of the click: it has its meeting, and perhaps its answer.
LEMMA MadeClick ==
    ASSUME WebInv, NEW r \in Starts, Made(r)
    PROVE  \E c \in Click :
             /\ click' = [click EXCEPT ![r] = c]
             /\ c.tab = click[r].tab /\ c.user = click[r].user
             /\ c.scope = click[r].scope /\ c.watch = click[r].watch
             /\ c.made = click[r].made + 1 /\ c.notice = click[r].notice
             /\ \/ /\ c.pc = click[r].pc /\ c.resp = click[r].resp
                   /\ c.word = click[r].word
                \/ /\ \/ c.pc = "idle" \/ (c.pc = "answered" /\ c.resp = "handled")
                      \/ c.pc = click[r].pc /\ c.resp = click[r].resp
                   /\ c.tab # None /\ tab[c.tab].up => c.word = "underway"
<1> DEFINE n == click[r].made + 1
           b == [click[r] EXCEPT !.made = n]
           e == Ephemeral(b)
           a == Answered(e, "handled")
           c == IF Open(r)' THEN b ELSE a
<1>1. click[r] \in Click
  BY SlotFacts
<1>2. n \in Nat
  <2>1. click[r].made \in Nat
    BY <1>1 DEF Click
  <2> QED
    BY <2>1
<1>3. click' = [click EXCEPT ![r] = c]
  BY DEF Made
<1> HIDE DEF n
<1>4. /\ b \in Click /\ b.pc = click[r].pc /\ b.resp = click[r].resp
      /\ b.tab = click[r].tab /\ b.user = click[r].user /\ b.scope = click[r].scope
      /\ b.watch = click[r].watch /\ b.made = n /\ b.word = click[r].word
      /\ b.notice = click[r].notice
  BY <1>1, <1>2 DEF Click
<1> HIDE DEF b
<1>5. /\ e \in Click /\ e.pc = b.pc /\ e.resp = b.resp
      /\ e.tab = b.tab /\ e.user = b.user /\ e.scope = b.scope
      /\ e.watch = b.watch /\ e.made = b.made /\ e.notice = b.notice
      /\ b.tab # None /\ tab[b.tab].up => e.word = "underway"
  BY <1>4, EphemeralKeeps
<1> HIDE DEF e
<1>6. /\ a \in Click /\ a.tab = e.tab /\ a.user = e.user /\ a.scope = e.scope
      /\ a.watch = e.watch /\ a.made = e.made /\ a.word = e.word /\ a.notice = e.notice
      /\ \/ a.pc = e.pc /\ a.resp = e.resp
         \/ a.pc = "idle"
         \/ a.pc = "answered" /\ a.resp = "handled"
  BY <1>5, AnsweredKeeps, AnsweredRelies DEF Responses
<1> HIDE DEF a
<1>7. c \in Click /\ (c = b \/ c = a)
  BY <1>4, <1>6
<1> HIDE DEF c
<1>8. n = click[r].made + 1
  BY DEF n
<1>9. /\ c.tab = click[r].tab /\ c.user = click[r].user
      /\ c.scope = click[r].scope /\ c.watch = click[r].watch
      /\ c.made = click[r].made + 1 /\ c.notice = click[r].notice
  BY <1>4, <1>5, <1>6, <1>7, <1>8
<1>10. CASE c = b
  BY <1>3, <1>4, <1>7, <1>9, <1>10
<1>11. CASE c = a
  <2>1. \/ c.pc = "idle" \/ (c.pc = "answered" /\ c.resp = "handled")
        \/ c.pc = click[r].pc /\ c.resp = click[r].resp
    BY <1>4, <1>5, <1>6, <1>11
  <2>2. c.tab # None /\ tab[c.tab].up => c.word = "underway"
    BY <1>5, <1>6, <1>11
  <2> QED
    BY <1>3, <1>7, <1>9, <2>1, <2>2
<1> QED
  BY <1>7, <1>10, <1>11

LEMMA MadeKeeps ==
    ASSUME WebInv, Ripen, NEW r \in Starts, Made(r)
    PROVE  WebInv'
<1>1. /\ click[r] \in Click /\ ClickFilled(click[r]) /\ ClickInv(r) /\ ServiceInv
      /\ Own(tab, click[r].scope, click[r].user)
      /\ Open(r) => request[r].user = click[r].user
      /\ UNCHANGED <<tab, inbox, opened>>
  BY SlotFacts DEF Made
<1>2. /\ ServiceInv' /\ UNCHANGED <<serving, ready>> /\ MeetingsKept
      /\ request[r].stage = "asked" /\ request'[r].stage \in {"idle", "made"}
      /\ request'[r].stage = "made" => request'[r].user = request[r].user
      /\ Len(meetings') = Len(meetings) + 1
      /\ meetings'[Len(meetings) + 1].user = request[r].user
      /\ \A q \in Starts : q # r => request'[q] = request[q]
  BY <1>1, MakeEffect DEF Made
<1>3. Open(r) /\ request[r].user = click[r].user
  BY <1>1, <1>2 DEF Open
<1>4. PICK c \in Click :
        /\ click' = [click EXCEPT ![r] = c]
        /\ c.user = click[r].user /\ c.scope = click[r].scope
        /\ c.made = click[r].made + 1
        /\ \/ c.pc = click[r].pc /\ c.resp = click[r].resp
           \/ c.pc = "idle"
           \/ c.pc = "answered" /\ c.resp = "handled"
  BY MadeClick
<1>5. click'[r] = c
  BY <1>4, SlotFacts
<1>6. c.pc # "sent" /\ c.made = 1
  <2>1. click[r].pc # "sent" /\ click[r].made = 0
    BY <1>1, <1>2, <1>3 DEF ClickInv
  <2>2. c.pc # "sent"
    BY <1>4, <2>1
  <2>3. c.made = 0 + 1
    BY <1>4, <2>1, Zenon
  <2> QED
    BY <2>2, <2>3
<1>7. ClickInv(r)'
  <2>1. 1 <= 1
    OBVIOUS
  <2>2. c.pc = "answered" => c.resp \in Responses
    BY <1>1, <1>4 DEF ClickInv, Responses
  <2> QED
    BY <1>2, <1>5, <1>6, <2>1, <2>2 DEF ClickInv
<1>8. ClickFilled(c) /\ Own(tab, c.scope, c.user)
  BY <1>1, <1>4, <1>6 DEF ClickFilled
<1>9. Open(r)' => request'[r].user = c.user
  BY <1>2, <1>3, <1>4 DEF Open
<1>10. /\ StartedKept
       /\ started'[Len(meetings) + 1].scope = click[r].scope
  <2>1. PICK url \in {"meet", "other"} :
          started' = Append(started, [scope |-> click[r].scope, watch |-> click[r].watch,
                                      url |-> url])
    BY DEF Made
  <2> DEFINE m == [scope |-> click[r].scope, watch |-> click[r].watch, url |-> url]
  <2>2. m \in Started /\ m.scope = click[r].scope
    BY <1>1 DEF Click, Started
  <2>3. started \in Seq(Started) /\ Len(started) = Len(meetings) /\ Len(started) \in Nat
    BY DEF WebInv, WebTypeOK
  <2>4. started' = Append(started, m)
    BY <2>1
  <2> HIDE DEF m
  <2> QED
    BY <1>2, <2>2, <2>3, <2>4 DEF StartedKept
<1>11. \A i \in 1..Len(meetings') :
         i \notin 1..Len(meetings) => Own(tab, started'[i].scope, meetings'[i].user)
  <2>1. Len(meetings) \in Nat
    BY <1>1 DEF ServiceInv, ServiceTypeOK
  <2>2. \A i \in 1..Len(meetings') : i \notin 1..Len(meetings) => i = Len(meetings) + 1
    BY <1>2, <2>1
  <2> QED
    BY <1>1, <1>2, <1>3, <1>10, <2>2
<1>12. inbox' \in [Tabs -> SUBSET (1..Len(meetings'))] /\ InboxSessions'
  <2>1. inbox' \in [Tabs -> SUBSET (1..Len(meetings))]
    BY <1>1 DEF WebInv, WebTypeOK
  <2> QED
    BY <1>1, <1>2, <1>10, <2>1, InboxKept
<1> QED
  BY <1>1, <1>2, <1>4, <1>7, <1>8, <1>9, <1>10, <1>11, <1>12, SlotStep

\* The event goes to sessions of the user who asked, the connection's alone if
\* there is one.
LEMMA RecipientsOwn ==
    ASSUME WebInv, NEW i \in 1..Len(meetings), NEW p \in Recipients(i)
    PROVE  /\ p \in Tabs /\ tab[p].up
           /\ tab[p].user = meetings[i].user
           /\ started[i].scope \in {None, <<p, tab[p].conn>>}
<1>1. /\ p \in Tabs /\ tab[p].up
      /\ IF started[i].scope = None THEN tab[p].user = meetings[i].user
         ELSE started[i].scope = <<p, tab[p].conn>>
  BY DEF Recipients
<1>2. CASE started[i].scope = None
  BY <1>1, <1>2
<1>3. CASE started[i].scope # None
  <2>1. Own(tab, started[i].scope, meetings[i].user)
    BY DEF WebInv, MeetingSessions
  <2>2. started[i].scope = <<p, tab[p].conn>>
    BY <1>1, <1>3
  <2>3. started[i].scope[1] = p /\ started[i].scope[2] = tab[p].conn
    BY <2>2
  <2> QED
    BY <1>1, <1>3, <2>1, <2>2, <2>3 DEF Own
<1> QED
  BY <1>2, <1>3

LEMMA AnnouncedKeeps ==
    ASSUME WebInv, Ripen, NEW r \in Starts, Announced(r)
    PROVE  WebInv'
<1> DEFINE i == request[r].meeting
           c == Answered(click[r], "ok")
<1>1. /\ click[r] \in Click /\ ClickFilled(click[r]) /\ ClickInv(r) /\ ServiceInv
      /\ Own(tab, click[r].scope, click[r].user)
      /\ UNCHANGED <<tab, started, opened>>
  BY SlotFacts DEF Announced
<1>2. /\ ServiceInv' /\ UNCHANGED <<serving, ready>> /\ MeetingsKept
      /\ Len(meetings') = Len(meetings) /\ i \in 1..Len(meetings)
      /\ request[r].stage = "posted" /\ request'[r].stage = "idle"
      /\ \A q \in Starts : q # r => request'[q] = request[q]
  BY <1>1, AnnounceEffect DEF Announced
<1>3. click' = [click EXCEPT ![r] = c]
  BY DEF Announced
<1>4. inbox' = [p \in Tabs |-> IF p \in Recipients(i) THEN inbox[p] \cup {i} ELSE inbox[p]]
  BY DEF Announced
<1> HIDE DEF i
<1>5. /\ c \in Click /\ c.user = click[r].user /\ c.scope = click[r].scope
      /\ c.made = click[r].made
      /\ \/ c.pc = click[r].pc /\ c.resp = click[r].resp
         \/ c.pc = "idle"
         \/ c.pc = "answered" /\ c.resp = "ok"
  BY <1>1, AnsweredKeeps DEF Responses
<1> HIDE DEF c
<1>6. click'[r] = c
  BY <1>3, SlotFacts
<1>7. ~ Open(r)' /\ Open(r)
  BY <1>2 DEF Open
<1>8. c.pc # "sent"
  BY <1>1, <1>2, <1>5, <1>7 DEF ClickInv
<1>9. ClickInv(r)'
  <2>1. c.pc = "answered" => c.resp \in Responses
    BY <1>1, <1>5 DEF ClickInv, Responses
  <2> QED
    BY <1>1, <1>2, <1>5, <1>6, <1>8, <2>1 DEF ClickInv
<1>10. ClickFilled(c) /\ Own(tab, c.scope, c.user)
  BY <1>1, <1>5, <1>8 DEF ClickFilled
<1>11. StartedKept
  BY <1>1, <1>2, StartedSame DEF WebInv
<1>12. ASSUME NEW p \in Tabs, NEW j \in inbox'[p]
       PROVE  /\ j \in 1..Len(meetings) /\ tab[p].up
              /\ tab[p].user = meetings[j].user
              /\ started[j].scope \in {None, <<p, tab[p].conn>>}
  <2>1. inbox[p] \subseteq 1..Len(meetings)
    BY DEF WebInv, WebTypeOK
  <2>2. CASE j \in inbox[p]
    BY <2>1, <2>2 DEF WebInv, InboxSessions
  <2>3. CASE j = i /\ p \in Recipients(i)
    BY <1>2, <2>3, RecipientsOwn
  <2> QED
    BY <1>4, <2>2, <2>3
<1>13. inbox' \in [Tabs -> SUBSET (1..Len(meetings'))]
  <2>1. \A p \in Tabs : inbox'[p] \subseteq 1..Len(meetings')
    BY <1>2, <1>12
  <2> QED
    BY <1>4, <2>1
<1>14. InboxSessions'
  <2>1. ASSUME NEW p \in Tabs, NEW j \in inbox'[p]
        PROVE  /\ tab'[p].up /\ tab'[p].user = meetings'[j].user
               /\ started'[j].scope \in {None, <<p, tab'[p].conn>>}
    BY <1>1, <1>2, <1>12 DEF MeetingsKept
  <2> QED
    BY <2>1 DEF InboxSessions
<1>15. \A j \in 1..Len(meetings') :
         j \notin 1..Len(meetings) => Own(tab, started'[j].scope, meetings'[j].user)
  BY <1>2
<1> QED
  BY <1>1, <1>2, <1>3, <1>5, <1>7, <1>9, <1>10, <1>11, <1>13, <1>14, <1>15, SlotStep

\* A step of the whole service, and what it does to the clicks.
LEMMA ServiceStep ==
    ASSUME WebInv, Ripen, UNCHANGED <<meetings, tab, inbox, started, opened>>,
           ServiceInv', click' \in [Starts -> Click],
           \A r \in Starts : ClickFilled(click[r])' /\ ClickInv(r)' /\ ClickSession(r)'
    PROVE  WebInv'
<1>1. TabsKept /\ tab' \in [Tabs -> Tab]
  BY TabsSame DEF WebInv, WebTypeOK
<1>2. MeetingsKept /\ Len(meetings') = Len(meetings) /\ StartedKept
  BY MeetingsSame, StartedSame DEF WebInv
<1>3. ClicksFilled' /\ ClicksInv' /\ ClickSessions'
  BY DEF ClicksFilled, ClicksInv, ClickSessions
<1>4. MeetingSessions'
  BY <1>1, <1>2, MeetingSessionsKept
<1>5. inbox' \in [Tabs -> SUBSET (1..Len(meetings'))] /\ InboxSessions'
  <2>1. inbox' \in [Tabs -> SUBSET (1..Len(meetings))]
    BY DEF WebInv, WebTypeOK
  <2> QED
    BY <1>2, <2>1, InboxKept
<1>6. /\ opened' \subseteq [meeting: 1..Len(meetings'), tab: Tabs, conn: Nat, user: Users]
      /\ OpensInOwnSession'
  BY <1>2, OpenedKept
<1>7. PagesInv'
  BY PagesKept DEF WebInv
<1>8. WebTypeOK'
  BY <1>1, <1>2, <1>5, <1>6, RipeTyped DEF WebInv, WebTypeOK, ServiceInv, StartedKept
<1> QED
  BY <1>3, <1>4, <1>5, <1>6, <1>7, <1>8 DEF WebInv

LEMMA SettingsKeep ==
    ASSUME WebInv, Ripen, Settings
    PROVE  WebInv'
<1>1. UNCHANGED <<meetings, request, tab, inbox, click, started, opened>>
  BY DEF Settings, Configure, pageVars
<1>2. serving' \in BOOLEAN /\ ready' \in BOOLEAN
  BY DEF Settings, Configure, WebInv, ServiceInv, ServiceTypeOK
<1>3. ServiceInv'
  BY <1>1, <1>2 DEF WebInv, ServiceInv, ServiceTypeOK, RequestsFilled, Open
<1>4. TabsKept /\ tab' \in [Tabs -> Tab] /\ click' \in [Starts -> Click]
  BY <1>1, TabsSame DEF WebInv, WebTypeOK
<1>5. \A r \in Starts : ClickKept(r)
  BY <1>1 DEF ClickKept
<1>6. \A r \in Starts : ClickFilled(click[r])' /\ ClickInv(r)' /\ ClickSession(r)'
  BY <1>1, <1>4, <1>5, ClickKeeps
<1> QED
  BY <1>1, <1>3, <1>4, <1>6, ServiceStep

LEMMA PluginStopsKeeps ==
    ASSUME WebInv, Ripen, PluginStops
    PROVE  WebInv'
<1>1. /\ UNCHANGED <<meetings, tab, inbox, started, opened>> /\ ServiceInv'
      /\ \A r \in Starts : request'[r].stage = "idle"
  BY StopEffect DEF PluginStops, WebInv
<1>2. click' = [r \in Starts |-> Answered(click[r], "error")]
  BY DEF PluginStops
<1>3. ASSUME NEW r \in Starts
      PROVE  /\ click'[r] \in Click
             /\ ClickFilled(click[r])' /\ ClickInv(r)' /\ ClickSession(r)'
  <2> DEFINE c == Answered(click[r], "error")
  <2>1. /\ click[r] \in Click /\ ClickFilled(click[r]) /\ ClickInv(r)
        /\ Own(tab, click[r].scope, click[r].user)
    BY SlotFacts
  <2>2. click'[r] = c /\ ~ Open(r)'
    BY <1>1, <1>2 DEF Open
  <2>3. /\ c \in Click /\ c.user = click[r].user /\ c.scope = click[r].scope
        /\ c.made = click[r].made
        /\ \/ c.pc = click[r].pc /\ c.resp = click[r].resp
           \/ c.pc = "idle"
           \/ c.pc = "answered" /\ c.resp = "error"
    BY <2>1, AnsweredKeeps DEF Responses
  <2>4. c.pc = "sent" => /\ click[r].pc = "sent" /\ c = click[r]
    BY <2>3 DEF Answered
  <2> HIDE DEF c
  <2>5. ClickFilled(click[r])'
    BY <2>1, <2>2, <2>4 DEF ClickFilled
  <2>6. ClickInv(r)'
    <3>1. c.pc = "answered" => c.resp \in Responses
      BY <2>1, <2>3 DEF ClickInv, Responses
    <3> QED
      BY <1>1, <2>1, <2>2, <2>3, <2>4, <3>1 DEF ClickInv
  <2>7. ClickSession(r)'
    BY <1>1, <2>1, <2>2, <2>3 DEF ClickSession
  <2> QED
    BY <2>2, <2>3, <2>5, <2>6, <2>7
<1>4. click' \in [Starts -> Click]
  BY <1>2, <1>3
<1> QED
  BY <1>1, <1>3, <1>4, ServiceStep

(***************************************************************************)
(* Events                                                                  *)
(***************************************************************************)

LEMMA ReceiveKeeps ==
    ASSUME WebInv, Ripen, NEW p \in Tabs, Receive(p)
    PROVE  WebInv'
<1>1. PICK i \in inbox[p] : HandleMeetingStarted(p, i)
  BY DEF Receive
<1> DEFINE o == [meeting |-> i, tab |-> p, conn |-> tab[p].conn, user |-> tab[p].user]
<1>2. /\ UNCHANGED <<serviceVars, tab, click, started>>
      /\ inbox' = [inbox EXCEPT ![p] = @ \ {i}]
      /\ opened' = opened \/ (tab[p].phase = "loaded" /\ opened' = opened \cup {o})
  BY <1>1 DEF HandleMeetingStarted
<1>3. /\ i \in 1..Len(meetings) /\ tab[p] \in Tab /\ PageInv(p)
      /\ tab[p].user = meetings[i].user
      /\ started[i].scope \in {None, <<p, tab[p].conn>>}
  BY DEF WebInv, WebTypeOK, InboxSessions, PagesInv
<1>4. /\ UNCHANGED <<meetings, request>> /\ MeetingsKept /\ Len(meetings') = Len(meetings)
      /\ ServiceInv' /\ StartedKept
  BY <1>2, MeetingsSame, StartedSame
  DEF WebInv, serviceVars, ServiceInv, ServiceTypeOK, RequestsFilled, Open
<1>5. TabsKept /\ tab' \in [Tabs -> Tab] /\ click' \in [Starts -> Click]
  BY <1>2, TabsSame DEF WebInv, WebTypeOK
<1>6. ClicksFilled' /\ ClicksInv' /\ ClickSessions'
  <2>1. \A r \in Starts : ClickKept(r) /\ request'[r] = request[r]
    BY <1>2, <1>4 DEF ClickKept
  <2> QED
    BY <1>5, <2>1, ClickKeeps DEF ClicksFilled, ClicksInv, ClickSessions
<1>7. MeetingSessions'
  BY <1>4, <1>5, MeetingSessionsKept
<1>8. inbox' \in [Tabs -> SUBSET (1..Len(meetings'))] /\ InboxSessions'
  <2>1. inbox' \in [Tabs -> SUBSET (1..Len(meetings))] /\ \A q \in Tabs : inbox'[q] \subseteq inbox[q]
    BY <1>2 DEF WebInv, WebTypeOK
  <2>2. \A q \in Tabs : /\ inbox'[q] \subseteq inbox[q]
                        /\ tab'[q].up = tab[q].up
                        /\ tab'[q].conn = tab[q].conn /\ tab'[q].user = tab[q].user
    BY <1>2, <2>1
  <2> QED
    BY <1>4, <2>1, <2>2, InboxKept
<1>9. ASSUME tab[p].phase = "loaded", opened' = opened \cup {o}
      PROVE  /\ opened' \subseteq [meeting: 1..Len(meetings'), tab: Tabs, conn: Nat, user: Users]
             /\ OpensInOwnSession'
  <2>1. o \in [meeting: 1..Len(meetings), tab: Tabs, conn: Nat, user: Users]
    BY <1>3, <1>9 DEF PageInv, Tab
  <2>2. /\ o.meeting = i /\ o.tab = p /\ o.conn = tab[p].conn /\ o.user = tab[p].user
    OBVIOUS
  <2> HIDE DEF o
  <2>3. /\ opened' \subseteq [meeting: 1..Len(meetings'), tab: Tabs, conn: Nat, user: Users]
    BY <1>4, <1>9, <2>1 DEF WebInv, WebTypeOK
  <2>4. \A w \in opened' : /\ w.user = meetings[w.meeting].user
                           /\ started[w.meeting].scope \in {None, <<w.tab, w.conn>>}
    BY <1>3, <1>9, <2>2 DEF WebInv, OpensInOwnSession
  <2>5. OpensInOwnSession'
    BY <1>2, <1>4, <2>4 DEF OpensInOwnSession
  <2> QED
    BY <2>3, <2>5
<1>10. ASSUME opened' = opened
      PROVE  /\ opened' \subseteq [meeting: 1..Len(meetings'), tab: Tabs, conn: Nat, user: Users]
             /\ OpensInOwnSession'
  BY <1>4, <1>10, OpenedKept
<1>11. /\ opened' \subseteq [meeting: 1..Len(meetings'), tab: Tabs, conn: Nat, user: Users]
       /\ OpensInOwnSession'
  BY <1>2, <1>9, <1>10
<1>12. PagesInv'
  BY <1>2, PagesKept DEF WebInv
<1>13. WebTypeOK'
  BY <1>4, <1>5, <1>8, <1>11, RipeTyped DEF WebInv, WebTypeOK, ServiceInv, StartedKept
<1> QED
  BY <1>4, <1>6, <1>7, <1>8, <1>11, <1>12, <1>13 DEF WebInv

LEMMA ShowPostKeeps ==
    ASSUME WebInv, Ripen, NEW p \in Tabs, NEW r \in Starts, ShowPost(p, r)
    PROVE  WebInv'
<1> DEFINE c == [click[r] EXCEPT !.word = "there"]
<1>1. /\ click[r] \in Click /\ click \in [Starts -> Click]
      /\ click' = [click EXCEPT ![r] = c]
      /\ UNCHANGED <<serviceVars, tab, inbox, started, opened>>
  BY SlotFacts DEF ShowPost
<1>2. /\ c \in Click /\ c.pc = click[r].pc /\ c.user = click[r].user
      /\ c.chan = click[r].chan /\ c.scope = click[r].scope
      /\ c.made = click[r].made /\ c.resp = click[r].resp
  BY <1>1 DEF Click
<1> HIDE DEF c
<1>3. click' \in [Starts -> Click] /\ \A q \in Starts : ClickKept(q)
  BY <1>1, <1>2 DEF ClickKept
<1>4. TabsKept /\ tab' \in [Tabs -> Tab]
  BY <1>1, TabsSame DEF WebInv, WebTypeOK
<1>5. \A q \in Starts : ClickFilled(click[q])' /\ ClickInv(q)' /\ ClickSession(q)'
  BY <1>1, <1>3, <1>4, ClickKeeps DEF serviceVars
<1>6. ServiceInv'
  BY <1>1 DEF WebInv, serviceVars, ServiceInv, ServiceTypeOK, RequestsFilled, Open
<1> QED
  BY <1>1, <1>3, <1>5, <1>6, ServiceStep DEF serviceVars

(***************************************************************************)
(* The specification                                                       *)
(***************************************************************************)

LEMMA InitEstablishes == WebInit => WebInv
<1> SUFFICES ASSUME WebInit PROVE WebInv
  OBVIOUS
<1>1. /\ RequestIdle \in Request /\ RequestIdle.stage = "idle" /\ RequestIdle.meeting = 0
      /\ ClickIdle \in Click /\ ClickIdle.pc = "idle" /\ ClickIdle.scope = None
      /\ ClickIdle.made = 0
  BY DEF RequestIdle, Request, ClickIdle, Click, Notices
<1> DEFINE x == TabClosed(0)
<1>2. /\ x \in Tab /\ x.phase = "closed" /\ x.conn = 0 /\ x.conns = 0
      /\ ~ x.up /\ ~ x.button
  BY DEF Tab, TabClosed, ConfigStatus, SafeDefault
<1>3. \A p \in Tabs : tab[p] = x
  BY DEF WebInit
<1>4. tab = [p \in Tabs |-> x]
  BY DEF WebInit
<1> HIDE DEF x
<1>5. meetings = <<>> /\ started = <<>> /\ Len(meetings) = 0
  BY DEF WebInit, ServiceInit
<1>6. ServiceInv
  <2>1. request = [r \in Starts |-> RequestIdle] /\ serving = FALSE /\ ready \in BOOLEAN
    BY DEF WebInit, ServiceInit
  <2>2. request \in [Starts -> Request] /\ \A r \in Starts : request[r] = RequestIdle
    BY <1>1, <2>1
  <2>3. meetings \in Seq(Meeting) /\ 0 <= Len(meetings)
    BY <1>5
  <2>4. ServiceTypeOK
    BY <1>1, <1>5, <2>1, <2>2, <2>3 DEF ServiceTypeOK
  <2>5. RequestsFilled
    BY <1>1, <2>2 DEF RequestsFilled, Open
  <2> QED
    BY <2>4, <2>5 DEF ServiceInv
<1>7. PagesInv
  <2>1. 0 <= 0
    OBVIOUS
  <2> QED
    BY <1>2, <1>3, <2>1 DEF PagesInv, PageInv
<1>8. \A r \in Starts : click[r] = ClickIdle /\ request[r] = RequestIdle
  BY DEF WebInit, ServiceInit
<1>9. ClicksFilled /\ ClickSessions
  BY <1>1, <1>8 DEF ClicksFilled, ClickFilled, ClickSessions, ClickSession, Own, Open
<1>10. ClicksInv
  <2>1. 0 <= 1
    OBVIOUS
  <2> QED
    BY <1>1, <1>8, <2>1 DEF ClicksInv, ClickInv
<1>11. MeetingSessions /\ InboxSessions /\ OpensInOwnSession
  BY <1>5 DEF WebInit, MeetingSessions, InboxSessions, OpensInOwnSession
<1>12. WebTypeOK
  <2>1. tab \in [Tabs -> Tab] /\ click \in [Starts -> Click]
    BY <1>1, <1>2, <1>4 DEF WebInit
  <2>2. inbox \in [Tabs -> SUBSET (1..Len(meetings))]
    BY DEF WebInit
  <2>3. ripe \in [Tabs -> BOOLEAN]
    BY DEF WebInit
  <2>4. started \in Seq(Started) /\ Len(started) = Len(meetings)
    BY <1>5
  <2> QED
    BY <1>6, <2>1, <2>2, <2>3, <2>4 DEF WebTypeOK, ServiceInv, WebInit
<1> QED
  BY <1>6, <1>7, <1>9, <1>10, <1>11, <1>12 DEF WebInv

LEMMA StepKeeps == WebInv /\ [WebNext]_webVars => WebInv'
<1> SUFFICES ASSUME WebInv, [WebNext]_webVars PROVE WebInv'
  OBVIOUS
<1>1. CASE UNCHANGED webVars
  <2>1. UNCHANGED <<serving, ready, request, meetings, tab, inbox, click, started, opened, ripe>>
    BY <1>1 DEF webVars, pageVars, serviceVars
  <2>2. ServiceInv' /\ WebTypeOK' /\ ClicksFilled'
    BY <2>1 DEF WebInv, WebTypeOK, ServiceInv, ServiceTypeOK, RequestsFilled, Open,
                ClicksFilled, ClickFilled
  <2>3. PagesInv' /\ ClicksInv'
    BY <2>1 DEF WebInv, PagesInv, PageInv, ClicksInv, ClickInv, Open
  <2>4. ClickSessions' /\ MeetingSessions' /\ InboxSessions' /\ OpensInOwnSession'
    BY <2>1 DEF WebInv, ClickSessions, ClickSession, MeetingSessions, InboxSessions,
                OpensInOwnSession, Open
  <2> QED
    BY <2>2, <2>3, <2>4 DEF WebInv
<1>2. ASSUME NEW p \in Tabs, NEW u \in Users, OpenPage(p, u), Ripen
      PROVE  WebInv'
  BY <1>2, OpenPageKeeps
<1>3. ASSUME NEW p \in Tabs, Ripen,
             \/ ClosePage(p) \/ PluginEnabled(p) \/ Connect(p) \/ Break(p) \/ Receive(p)
      PROVE  WebInv'
  BY <1>3, ClosePageKeeps, PluginEnabledKeeps, ConnectKeeps, BreakKeeps, ReceiveKeeps
<1>4. ASSUME NEW p \in Tabs, Ripen, Initialize(p)
      PROVE  WebInv'
  BY <1>4, HandleConfigStatusKeeps, ConfigStatusFailsKeeps, RegisterKeeps DEF Initialize
<1>5. ASSUME NEW p \in Tabs, NEW r \in Starts, NEW ch \in Channels, Ripen,
             ClickButton(p, r, ch)
      PROVE  WebInv'
  BY <1>5, ClickButtonKeeps
<1>6. ASSUME NEW r \in Starts, Ripen, Fetch(r)
      PROVE  WebInv'
  BY <1>6, FetchReachesKeeps, ResponseArrivesKeeps, FetchFailsKeeps DEF Fetch
<1>7. ASSUME NEW r \in Starts, Ripen, Work(r)
      PROVE  WebInv'
  BY <1>7, RefusedKeeps, MadeKeeps, PostedKeeps, AnnouncedKeeps DEF Work
<1>8. ASSUME NEW r \in Starts, NEW u \in Users, NEW ch \in Channels, Ripen,
             MeetStart(r, u, ch)
      PROVE  WebInv'
  BY <1>8, MeetStartKeeps
<1>9. ASSUME Ripen, Settings \/ PluginStops
      PROVE  WebInv'
  BY <1>9, SettingsKeep, PluginStopsKeeps
<1>10. ASSUME NEW p \in Tabs, NEW r \in Starts, Ripen, ShowPost(p, r)
       PROVE  WebInv'
  BY <1>10, ShowPostKeeps
<1> QED
  BY <1>1, <1>2, <1>3, <1>4, <1>5, <1>6, <1>7, <1>8, <1>9, <1>10 DEF WebNext, WebStep

THEOREM WebInvariant == WebSpec => []WebInv
BY InitEstablishes, StepKeeps, PTL DEF WebSpec

\* The types of pages, clicks, events and windows (webapp/src).
THEOREM WebTypeCorrect == WebSpec => []WebTypeOK
<1>1. WebInv => WebTypeOK
  BY DEF WebInv
<1> QED
  BY <1>1, WebInvariant, PTL

\* The button of who is no administrator means that the plugin was fully
\* configured at some moment since the page loaded it (index.tsx, api.go).
THEOREM ButtonEarnedCorrect == WebSpec => []ButtonEarned
<1>1. WebInv => ButtonEarned
  BY DEF WebInv, PagesInv, PageInv, ButtonEarned
<1> QED
  BY <1>1, WebInvariant, PTL

\* The window of a meeting opens in a session of the user who asked for it, and
\* if a button asked, in the button's session only (meeting.go, client.ts).
THEOREM OpensInOwnSessionCorrect == WebSpec => []OpensInOwnSession
<1>1. WebInv => OpensInOwnSession
  BY DEF WebInv
<1> QED
  BY <1>1, WebInvariant, PTL

\* One click makes at most one meeting (client.ts).
THEOREM OncePerClickCorrect == WebSpec => []OncePerClick
<1>1. WebInv => OncePerClick
  BY DEF WebInv, ClicksInv, ClickInv, OncePerClick
<1> QED
  BY <1>1, WebInvariant, PTL

(***************************************************************************)
(* Pages that wait for their window                                        *)
(***************************************************************************)

\* Who relies on a page finds it loaded, and connected as when it was clicked.
Rely(pages, watch, scope) ==
    watch # None =>
        /\ watch \in Tabs
        /\ pages[watch].phase = "loaded" /\ pages[watch].up
        /\ scope = <<watch, pages[watch].conn>>

PagesNamed == \A p \in Tabs : tab[p].up => tab[p].conn # 0

ClicksRely == \A r \in Starts : Rely(tab, click[r].watch, click[r].scope)

MeetingsRely ==
    \A i \in 1..Len(meetings) : Rely(tab, started[i].watch, started[i].scope)

WatchInv == PagesNamed /\ ClicksRely /\ MeetingsRely /\ NoEventLost

\* What still relies on a page is what it was.
WatchKept(x, y) == y.scope = x.scope /\ y.watch \in {x.watch, None}

LEMMA WatchInvInit == WebInit => WatchInv
<1> SUFFICES ASSUME WebInit PROVE WatchInv
  OBVIOUS
<1>1. PagesNamed
  BY DEF WebInit, PagesNamed, TabClosed
<1>2. ClicksRely
  BY DEF WebInit, ClicksRely, Rely, ClickIdle
<1>3. Len(meetings) = 0
  BY DEF WebInit, ServiceInit
<1> QED
  BY <1>1, <1>2, <1>3 DEF WatchInv, MeetingsRely, NoEventLost

\* A step of one page, on which nobody relies after it.
LEMMA PageWatch ==
    ASSUME WatchInv, NEW p \in Tabs, UNCHANGED <<meetings, opened>>,
           \A q \in Tabs : q # p => tab'[q] = tab[q] /\ inbox'[q] = inbox[q],
           tab'[p].up => tab'[p].conn # 0,
           \A r \in Starts : WatchKept(click[r], click'[r]) /\ click'[r].watch # p,
           \A i \in 1..Len(meetings) :
               /\ WatchKept(started[i], started'[i]) /\ started'[i].watch # p
               /\ started'[i].url = started[i].url
    PROVE  WatchInv'
<1>1. PagesNamed'
  BY DEF WatchInv, PagesNamed
<1>2. ASSUME NEW w, NEW s, Rely(tab, w, s), w # p
      PROVE  Rely(tab', w, s)
  BY <1>2 DEF Rely
<1>3. ASSUME NEW s
      PROVE  Rely(tab, None, s)
  BY DEF Rely
<1>4. ClicksRely'
  <2>1. ASSUME NEW r \in Starts
        PROVE  Rely(tab', click'[r].watch, click'[r].scope)
    <3>1. Rely(tab, click[r].watch, click[r].scope)
      BY DEF WatchInv, ClicksRely
    <3>2. Rely(tab, click'[r].watch, click'[r].scope)
      BY <1>3, <3>1 DEF WatchKept
    <3> QED
      BY <1>2, <3>2
  <2> QED
    BY <2>1 DEF ClicksRely
<1>5. MeetingsRely'
  <2>1. ASSUME NEW i \in 1..Len(meetings)
        PROVE  Rely(tab', started'[i].watch, started'[i].scope)
    <3>1. Rely(tab, started[i].watch, started[i].scope)
      BY DEF WatchInv, MeetingsRely
    <3>2. Rely(tab, started'[i].watch, started'[i].scope)
      BY <1>3, <3>1 DEF WatchKept
    <3> QED
      BY <1>2, <3>2
  <2> QED
    BY <2>1 DEF MeetingsRely
<1>6. NoEventLost'
  <2>1. ASSUME NEW i \in 1..Len(meetings), NEW q \in Tabs, Awaited(i, q)'
        PROVE  i \in inbox'[q] \/ OpenedIn(i, q)'
    <3>1. q # p /\ started'[i].watch = q
      BY <2>1 DEF Awaited
    <3>2. started[i].watch = q
      BY <3>1, WebAssumption DEF WatchKept
    <3>3. Awaited(i, q)
      BY <2>1, <3>2 DEF Awaited, isAllowedGoogleMeetURL
    <3>4. i \in inbox[q] \/ OpenedIn(i, q)
      BY <3>3 DEF WatchInv, NoEventLost
    <3> QED
      BY <3>1, <3>4 DEF OpenedIn
  <2> QED
    BY <2>1 DEF NoEventLost
<1> QED
  BY <1>1, <1>4, <1>5, <1>6 DEF WatchInv

\* Nobody relies on a page that is not loaded, or not connected.
LEMMA Unrelied ==
    ASSUME WatchInv, NEW p \in Tabs, tab[p].phase # "loaded" \/ ~ tab[p].up,
           UNCHANGED <<click, started>>
    PROVE  /\ \A r \in Starts : WatchKept(click[r], click'[r]) /\ click'[r].watch # p
           /\ \A i \in 1..Len(meetings) :
                /\ WatchKept(started[i], started'[i]) /\ started'[i].watch # p
                /\ started'[i].url = started[i].url
<1>1. p # None
  BY WebAssumption
<1>2. \A r \in Starts : click[r].watch # p
  BY <1>1 DEF WatchInv, ClicksRely, Rely
<1>3. \A i \in 1..Len(meetings) : started[i].watch # p
  BY <1>1 DEF WatchInv, MeetingsRely, Rely
<1> QED
  BY <1>2, <1>3 DEF WatchKept

LEMMA UnwatchEnds ==
    ASSUME WebTypeOK, NEW p \in Tabs, Unwatch(p)
    PROVE  \A i \in 1..Len(meetings) :
             /\ WatchKept(started[i], started'[i]) /\ started'[i].watch # p
             /\ started'[i].url = started[i].url
<1> TAKE i \in 1..Len(meetings)
<1>1. /\ started[i] \in Started /\ DOMAIN started = 1..Len(meetings)
      /\ None # p
  BY WebAssumption DEF WebTypeOK
<1>2. started'[i] = IF started[i].watch = p THEN [started[i] EXCEPT !.watch = None]
                                            ELSE started[i]
  BY <1>1 DEF Unwatch
<1> QED
  BY <1>1, <1>2 DEF WatchKept, Started

LEMMA UnwatchedEnds ==
    ASSUME NEW c \in Click, NEW p \in Tabs
    PROVE  WatchKept(c, Unwatched(c, p)) /\ Unwatched(c, p).watch # p
<1>1. None # p
  BY WebAssumption
<1> QED
  BY <1>1 DEF Unwatched, WatchKept, Click

LEMMA DroppedEnds ==
    ASSUME NEW c \in Click, NEW p \in Tabs
    PROVE  WatchKept(c, Dropped(c, p)) /\ Dropped(c, p).watch # p
<1> DEFINE d == Unwatched(c, p)
<1>1. d \in Click /\ WatchKept(c, d) /\ d.watch # p
  BY UnwatchedKeeps, UnwatchedEnds
<1>2. Dropped(c, p) = [d EXCEPT !.word = IF c.tab = p /\ c.word = "underway" THEN ""
                                         ELSE c.word]
  BY DEF Dropped
<1> HIDE DEF d
<1> QED
  BY <1>1, <1>2 DEF WatchKept, Click

LEMMA OrphanEnds ==
    ASSUME NEW c \in Click, NEW p \in Tabs
    PROVE  WatchKept(c, Orphan(c, p)) /\ Orphan(c, p).watch # p
<1> DEFINE d == Dropped(c, p)
<1>1. d \in Click /\ WatchKept(c, d) /\ d.watch # p
  BY DroppedKeeps, DroppedEnds
<1>2. \/ Orphan(c, p) = d
      \/ Orphan(c, p) = [d EXCEPT !.tab = None,
                                  !.pc = IF c.pc = "settled" THEN "idle" ELSE c.pc]
  BY DEF Orphan
<1> HIDE DEF d
<1> QED
  BY <1>1, <1>2 DEF WatchKept, Click

LEMMA PagesWatch ==
    ASSUME WebInv, WatchInv, NEW p \in Tabs,
           \/ \E u \in Users : OpenPage(p, u)
           \/ ClosePage(p) \/ PluginEnabled(p) \/ Connect(p) \/ Break(p) \/ Initialize(p)
    PROVE  WatchInv'
<1>0. /\ WebTypeOK /\ tab \in [Tabs -> Tab] /\ tab[p] \in Tab /\ PageInv(p)
      /\ inbox \in [Tabs -> SUBSET (1..Len(meetings))]
      /\ click \in [Starts -> Click]
      /\ tab[p].up => tab[p].conn # 0
  BY DEF WebInv, WebTypeOK, PagesInv, WatchInv, PagesNamed
<1>1. ASSUME NEW u \in Users, OpenPage(p, u)
      PROVE  WatchInv'
  <2>1. /\ UNCHANGED <<meetings, opened, click, started>>
        /\ \A q \in Tabs : q # p => tab'[q] = tab[q] /\ inbox'[q] = inbox[q]
        /\ tab'[p].up = tab[p].up /\ tab[p].phase = "closed"
    BY <1>0, <1>1 DEF OpenPage, IsOpen, serviceVars, Tab
  <2>2. ~ tab'[p].up
    BY <1>0, <2>1 DEF PageInv
  <2> QED
    BY <2>1, <2>2, Unrelied, PageWatch
<1>2. CASE ClosePage(p)
  <2>1. /\ UNCHANGED <<meetings, opened>>
        /\ \A q \in Tabs : q # p => tab'[q] = tab[q] /\ inbox'[q] = inbox[q]
        /\ tab'[p].up = FALSE
        /\ \A r \in Starts : click'[r] = Orphan(click[r], p)
    BY <1>0, <1>2 DEF ClosePage, TabClosed, serviceVars
  <2>2. \A r \in Starts : WatchKept(click[r], click'[r]) /\ click'[r].watch # p
    BY <1>0, <2>1, OrphanEnds
  <2> QED
    BY <1>0, <1>2, <2>1, <2>2, UnwatchEnds, PageWatch DEF ClosePage
<1>3. CASE PluginEnabled(p)
  <2>1. /\ UNCHANGED <<meetings, opened>>
        /\ \A q \in Tabs : q # p => tab'[q] = tab[q] /\ inbox'[q] = inbox[q]
        /\ tab'[p].up = tab[p].up /\ tab'[p].conn = tab[p].conn
        /\ \A r \in Starts : click'[r] = Unwatched(click[r], p)
    BY <1>0, <1>3 DEF PluginEnabled, serviceVars, Tab
  <2>2. \A r \in Starts : WatchKept(click[r], click'[r]) /\ click'[r].watch # p
    BY <1>0, <2>1, UnwatchedEnds
  <2> QED
    BY <1>0, <1>3, <2>1, <2>2, UnwatchEnds, PageWatch DEF PluginEnabled
<1>4. CASE Connect(p)
  <2>1. /\ UNCHANGED <<meetings, opened, click, started>>
        /\ \A q \in Tabs : q # p => tab'[q] = tab[q] /\ inbox'[q] = inbox[q]
        /\ tab'[p].conn = tab[p].conns + 1 /\ ~ tab[p].up
    BY <1>0, <1>4 DEF Connect, serviceVars, Tab
  <2>2. tab'[p].conn # 0
    BY <1>0, <2>1 DEF Tab
  <2> QED
    BY <2>1, <2>2, Unrelied, PageWatch
<1>5. CASE Break(p)
  <2>1. /\ UNCHANGED <<meetings, opened>>
        /\ \A q \in Tabs : q # p => tab'[q] = tab[q] /\ inbox'[q] = inbox[q]
        /\ tab'[p].up = FALSE
        /\ \A r \in Starts : click'[r] = Dropped(click[r], p)
    BY <1>0, <1>5 DEF Break, serviceVars, Tab
  <2>2. \A r \in Starts : WatchKept(click[r], click'[r]) /\ click'[r].watch # p
    BY <1>0, <2>1, DroppedEnds
  <2> QED
    BY <1>0, <1>5, <2>1, <2>2, UnwatchEnds, PageWatch DEF Break
<1>6. CASE Initialize(p)
  <2>1. /\ UNCHANGED <<meetings, opened, click, started, inbox>>
        /\ tab[p].phase # "loaded"
    BY <1>6 DEF Initialize, HandleConfigStatus, ConfigStatusFails, Register, serviceVars
  <2>2. \/ \E status : Learn(p, status)
        \/ tab' = [tab EXCEPT ![p].phase = "loaded",
                              ![p].button = tab[p].status.configured \/ tab[p].status.is_admin]
    BY <1>6 DEF Initialize, HandleConfigStatus, ConfigStatusFails, Register
  <2>3. /\ \A q \in Tabs : q # p => tab'[q] = tab[q]
        /\ tab'[p].up = tab[p].up /\ tab'[p].conn = tab[p].conn
    BY <1>0, <2>2 DEF Learn, Tab
  <2> QED
    BY <1>0, <2>1, <2>3, Unrelied, PageWatch
<1> QED
  BY <1>1, <1>2, <1>3, <1>4, <1>5, <1>6

\* A step that neither a page nor an event takes part in.
LEMMA ServiceWatch ==
    ASSUME WatchInv, UNCHANGED <<tab, inbox, started, opened>>,
           Len(meetings') = Len(meetings),
           \A i \in 1..Len(meetings) : meetings'[i].announced => meetings[i].announced,
           \A r \in Starts : Rely(tab, click'[r].watch, click'[r].scope)
    PROVE  WatchInv'
<1>1. PagesNamed' /\ ClicksRely' /\ MeetingsRely'
  BY DEF WatchInv, PagesNamed, ClicksRely, MeetingsRely
<1>2. ASSUME NEW i \in 1..Len(meetings), NEW p \in Tabs, Awaited(i, p)'
      PROVE  i \in inbox'[p] \/ OpenedIn(i, p)'
  <2>1. Awaited(i, p)
    BY <1>2 DEF Awaited
  <2>2. i \in inbox[p] \/ OpenedIn(i, p)
    BY <2>1 DEF WatchInv, NoEventLost
  <2> QED
    BY <2>2 DEF OpenedIn
<1>3. NoEventLost'
  BY <1>2 DEF NoEventLost
<1> QED
  BY <1>1, <1>3 DEF WatchInv

\* A step of one slot, whose click relies on what it relied on, or on nothing.
LEMMA SlotRelies ==
    ASSUME WebInv, WatchInv, NEW r \in Starts, NEW c,
           click' = [click EXCEPT ![r] = c], Rely(tab, c.watch, c.scope)
    PROVE  \A q \in Starts : Rely(tab, click'[q].watch, click'[q].scope)
<1>1. /\ click'[r] = c
      /\ \A q \in Starts : q # r => click'[q] = click[q]
  BY DEF WebInv, WebTypeOK
<1>2. \A q \in Starts : Rely(tab, click[q].watch, click[q].scope)
  BY DEF WatchInv, ClicksRely
<1> QED
  BY <1>1, <1>2

LEMMA ClickButtonWatch ==
    ASSUME WebInv, WatchInv, NEW p \in Tabs, NEW r \in Starts, NEW ch \in Channels,
           ClickButton(p, r, ch)
    PROVE  WatchInv'
<1> DEFINE c == [ClickIdle EXCEPT !.pc = "sent", !.tab = p, !.user = tab[p].user,
                                  !.chan = ch, !.scope = ScopeOf(p),
                                  !.watch = IF tab[p].up THEN p ELSE None]
<1>1. /\ click' = [click EXCEPT ![r] = c] /\ tab[p].phase = "loaded"
      /\ UNCHANGED <<meetings, tab, inbox, started, opened>>
  BY DEF ClickButton, serviceVars
<1>2. c.scope = ScopeOf(p) /\ c.watch = IF tab[p].up THEN p ELSE None
  BY DEF ClickIdle
<1> HIDE DEF c
<1>3. tab[p].up => c.scope = <<p, tab[p].conn>>
  BY <1>2 DEF ScopeOf, WatchInv, PagesNamed
<1>4. Rely(tab, c.watch, c.scope)
  BY <1>1, <1>2, <1>3 DEF Rely
<1> QED
  BY <1>1, <1>4, SlotRelies, ServiceWatch

LEMMA MeetStartWatch ==
    ASSUME WebInv, WatchInv, NEW r \in Starts, NEW u \in Users, NEW ch \in Channels,
           MeetStart(r, u, ch)
    PROVE  WatchInv'
<1> DEFINE c == [ClickIdle EXCEPT !.pc = IF ready THEN "served" ELSE "idle",
                                  !.user = u, !.chan = ch]
<1>1. /\ click' = [click EXCEPT ![r] = c]
      /\ UNCHANGED <<meetings, tab, inbox, started, opened>>
  BY DEF MeetStart, Ask
<1>2. Rely(tab, c.watch, c.scope)
  BY DEF ClickIdle, Rely
<1> HIDE DEF c
<1> QED
  BY <1>1, <1>2, SlotRelies, ServiceWatch

LEMMA FetchWatch ==
    ASSUME WebInv, WatchInv, NEW r \in Starts, Fetch(r)
    PROVE  WatchInv'
<1>0. click[r] \in Click /\ Rely(tab, click[r].watch, click[r].scope)
  BY DEF WebInv, WebTypeOK, WatchInv, ClicksRely
<1>1. UNCHANGED <<meetings, tab, inbox, started, opened>>
  BY DEF Fetch, FetchReaches, ResponseArrives, FetchFails, Ask, serviceVars
<1>2. ASSUME NEW c, click' = [click EXCEPT ![r] = c],
             c.watch = click[r].watch, c.scope = click[r].scope
      PROVE  WatchInv'
  BY <1>0, <1>1, <1>2, SlotRelies, ServiceWatch
<1>3. CASE FetchReaches(r)
  <2> DEFINE e == Ephemeral(click[r])
             b == [click[r] EXCEPT !.pc = "served"]
             c == [e EXCEPT !.pc = "answered", !.resp = "handled"]
             d == [click[r] EXCEPT !.pc = "answered", !.resp = "error"]
  <2>1. \/ click' = [click EXCEPT ![r] = b]
        \/ click' = [click EXCEPT ![r] = c]
        \/ click' = [click EXCEPT ![r] = d]
    BY <1>3 DEF FetchReaches
  <2>2. e \in Click /\ e.watch = click[r].watch /\ e.scope = click[r].scope
    BY <1>0, EphemeralKeeps
  <2> HIDE DEF e
  <2>3. /\ b.watch = click[r].watch /\ b.scope = click[r].scope
        /\ c.watch = e.watch /\ c.scope = e.scope
        /\ d.watch = click[r].watch /\ d.scope = click[r].scope
    BY <1>0, <2>2 DEF Click
  <2> HIDE DEF b, c, d
  <2> QED
    BY <1>2, <2>1, <2>2, <2>3
<1>4. CASE ResponseArrives(r)
  BY <1>0, <1>2, <1>4, SettledRelies DEF ResponseArrives
<1>5. CASE FetchFails(r)
  BY <1>0, <1>2, <1>5, SettledRelies DEF FetchFails
<1> QED
  BY <1>3, <1>4, <1>5 DEF Fetch

LEMMA RefusedWatch ==
    ASSUME WebInv, WatchInv, NEW r \in Starts, Refused(r)
    PROVE  WatchInv'
<1> DEFINE e == Ephemeral(click[r])
           c == Answered(e, "handled")
<1>1. click[r] \in Click /\ Rely(tab, click[r].watch, click[r].scope)
  BY DEF WebInv, WebTypeOK, WatchInv, ClicksRely
<1>2. /\ UNCHANGED <<meetings, tab, inbox, started, opened>>
      /\ click' = [click EXCEPT ![r] = c]
  BY DEF Refused, Refuse
<1>3. e \in Click /\ e.watch = click[r].watch /\ e.scope = click[r].scope
  BY <1>1, EphemeralKeeps
<1> HIDE DEF e
<1>4. c.watch = click[r].watch /\ c.scope = click[r].scope
  BY <1>3, AnsweredRelies
<1> HIDE DEF c
<1> QED
  BY <1>1, <1>2, <1>4, SlotRelies, ServiceWatch

LEMMA PostedWatch ==
    ASSUME WebInv, WatchInv, NEW r \in Starts, Posted(r)
    PROVE  WatchInv'
<1> DEFINE c == [click[r] EXCEPT !.word = "there"]
<1>1. click[r] \in Click /\ Rely(tab, click[r].watch, click[r].scope)
  BY DEF WebInv, WebTypeOK, WatchInv, ClicksRely
<1>2. /\ UNCHANGED <<tab, inbox, started, opened>> /\ Post(r)
      /\ click' = [click EXCEPT ![r] = c]
  BY DEF Posted
<1>3. c.watch = click[r].watch /\ c.scope = click[r].scope
  BY <1>1 DEF Click
<1> HIDE DEF c
<1>4. Len(meetings') = Len(meetings)
  BY <1>2, PostEffect DEF WebInv
<1>5. \A i \in 1..Len(meetings) : meetings'[i].announced = meetings[i].announced
  <2>1. /\ meetings \in Seq(Meeting)
        /\ meetings' = [meetings EXCEPT ![request[r].meeting].posted = TRUE]
    BY <1>2 DEF WebInv, ServiceInv, ServiceTypeOK, Post
  <2> QED
    BY <2>1 DEF Meeting
<1> QED
  BY <1>1, <1>2, <1>3, <1>4, <1>5, SlotRelies, ServiceWatch

LEMMA ShowPostWatch ==
    ASSUME WebInv, WatchInv, NEW p \in Tabs, NEW r \in Starts, ShowPost(p, r)
    PROVE  WatchInv'
<1> DEFINE c == [click[r] EXCEPT !.word = "there"]
<1>1. click[r] \in Click /\ Rely(tab, click[r].watch, click[r].scope)
  BY DEF WebInv, WebTypeOK, WatchInv, ClicksRely
<1>2. /\ UNCHANGED <<meetings, tab, inbox, started, opened>>
      /\ click' = [click EXCEPT ![r] = c]
  BY DEF ShowPost, serviceVars
<1>3. c.watch = click[r].watch /\ c.scope = click[r].scope
  BY <1>1 DEF Click
<1> HIDE DEF c
<1> QED
  BY <1>1, <1>2, <1>3, SlotRelies, ServiceWatch

LEMMA StopWatch ==
    ASSUME WebInv, WatchInv, Settings \/ PluginStops
    PROVE  WatchInv'
<1>0. UNCHANGED <<meetings, tab, inbox, started, opened>>
  BY DEF Settings, Configure, pageVars, PluginStops, StopServing
<1>1. \A r \in Starts : click[r] \in Click /\ Rely(tab, click[r].watch, click[r].scope)
  BY DEF WebInv, WebTypeOK, WatchInv, ClicksRely
<1>2. CASE Settings
  <2>1. click' = click
    BY <1>2 DEF Settings, pageVars
  <2> QED
    BY <1>0, <1>1, <2>1, ServiceWatch
<1>3. CASE PluginStops
  <2>1. \A r \in Starts : click'[r] = Answered(click[r], "error")
    BY <1>3 DEF PluginStops
  <2>2. \A r \in Starts : Rely(tab, click'[r].watch, click'[r].scope)
    BY <1>1, <2>1, AnsweredRelies
  <2> QED
    BY <1>0, <2>2, ServiceWatch
<1> QED
  BY <1>2, <1>3

\* The meeting takes over what its click relied on.
LEMMA MadeWatch ==
    ASSUME WebInv, WatchInv, NEW r \in Starts, Made(r)
    PROVE  WatchInv'
<1>0. /\ click[r] \in Click /\ Rely(tab, click[r].watch, click[r].scope)
      /\ UNCHANGED <<tab, inbox, opened>> /\ Make(r)
  BY DEF WebInv, WebTypeOK, WatchInv, ClicksRely, Made
<1>1. PICK url \in {"meet", "other"} :
        started' = Append(started, [scope |-> click[r].scope, watch |-> click[r].watch,
                                    url |-> url])
  BY DEF Made
<1> DEFINE n == Len(meetings) + 1
           m == [scope |-> click[r].scope, watch |-> click[r].watch, url |-> url]
           x == [user |-> request[r].user, chan |-> request[r].chan,
                 posted |-> FALSE, announced |-> FALSE]
<1>2. /\ meetings \in Seq(Meeting) /\ started \in Seq(Started)
      /\ Len(started) = Len(meetings) /\ Len(meetings) \in Nat
      /\ meetings' = Append(meetings, x) /\ started' = Append(started, m)
  BY <1>0, <1>1 DEF WebInv, WebTypeOK, ServiceInv, ServiceTypeOK, Make
<1>3. /\ m.scope = click[r].scope /\ m.watch = click[r].watch /\ x.announced = FALSE
  OBVIOUS
<1> HIDE DEF m, x
<1>4. /\ Len(meetings') = n /\ meetings'[n] = x /\ started'[n] = m
      /\ \A i \in 1..Len(meetings) :
           meetings'[i] = meetings[i] /\ started'[i] = started[i]
      /\ \A i \in 1..n : i = n \/ i \in 1..Len(meetings)
  BY <1>2
<1> HIDE DEF n
<1>5. ClicksRely'
  <2>1. PICK c \in Click : /\ click' = [click EXCEPT ![r] = c]
                           /\ c.watch = click[r].watch /\ c.scope = click[r].scope
    BY MadeClick
  <2> QED
    BY <1>0, <2>1, SlotRelies DEF ClicksRely
<1>6. MeetingsRely'
  <2>1. ASSUME NEW i \in 1..n
        PROVE  Rely(tab, started'[i].watch, started'[i].scope)
    BY <1>0, <1>3, <1>4 DEF WatchInv, MeetingsRely
  <2> QED
    BY <1>0, <1>4, <2>1 DEF MeetingsRely
<1>7. NoEventLost'
  <2>1. ASSUME NEW i \in 1..n, NEW p \in Tabs, Awaited(i, p)'
        PROVE  i \in inbox[p] \/ OpenedIn(i, p)
    <3>1. i \in 1..Len(meetings)
      BY <1>3, <1>4, <2>1 DEF Awaited
    <3>2. Awaited(i, p)
      BY <1>2, <1>4, <2>1, <3>1 DEF Awaited
    <3> QED
      BY <3>1, <3>2 DEF WatchInv, NoEventLost
  <2> QED
    BY <1>0, <1>4, <2>1 DEF NoEventLost, OpenedIn
<1> QED
  BY <1>0, <1>5, <1>6, <1>7 DEF WatchInv, PagesNamed

\* Who waits for the meeting is among those who hear of it.
LEMMA AnnouncedWatch ==
    ASSUME WebInv, WatchInv, NEW r \in Starts, Announced(r)
    PROVE  WatchInv'
<1> DEFINE i == request[r].meeting
           c == Answered(click[r], "ok")
<1>1. /\ click[r] \in Click /\ Rely(tab, click[r].watch, click[r].scope)
      /\ UNCHANGED <<tab, started, opened>> /\ Announce(r)
      /\ click' = [click EXCEPT ![r] = c]
      /\ inbox' = [p \in Tabs |-> IF p \in Recipients(i) THEN inbox[p] \cup {i} ELSE inbox[p]]
  BY DEF WebInv, WebTypeOK, WatchInv, ClicksRely, Announced
<1>2. Len(meetings') = Len(meetings) /\ i \in 1..Len(meetings)
  BY <1>1, AnnounceEffect DEF WebInv
<1>3. c.watch = click[r].watch /\ c.scope = click[r].scope
  BY <1>1, AnsweredRelies
<1> HIDE DEF c
<1>4. ClicksRely'
  BY <1>1, <1>3, SlotRelies DEF ClicksRely
<1>5. \A j \in 1..Len(meetings) : j # i => meetings'[j] = meetings[j]
  <2>1. /\ meetings \in Seq(Meeting)
        /\ meetings' = [meetings EXCEPT ![i].announced = TRUE]
    BY <1>1 DEF WebInv, ServiceInv, ServiceTypeOK, Announce
  <2> QED
    BY <2>1
<1> HIDE DEF i
<1>6. ASSUME NEW j \in 1..Len(meetings), NEW p \in Tabs, Awaited(j, p)'
      PROVE  j \in inbox'[p] \/ OpenedIn(j, p)
  <2>1. CASE j = i
    <3>1. started[i].watch = p /\ p # None
      BY <1>1, <1>6, <2>1, WebAssumption DEF Awaited
    <3>2. tab[p].up /\ started[i].scope = <<p, tab[p].conn>>
      BY <1>2, <3>1 DEF WatchInv, MeetingsRely, Rely
    <3>3. started[i].scope # None
      <4>1. <<p, tab[p].conn>> \in Tabs \X Nat
        BY DEF WebInv, WebTypeOK, Tab
      <4> QED
        BY <3>2, <4>1, WebAssumption
    <3>4. p \in Recipients(i)
      BY <3>2, <3>3 DEF Recipients
    <3> QED
      BY <1>1, <2>1, <3>4
  <2>2. CASE j # i
    <3>1. Awaited(j, p)
      BY <1>1, <1>5, <1>6, <2>2 DEF Awaited
    <3>2. j \in inbox[p] \/ OpenedIn(j, p)
      BY <3>1 DEF WatchInv, NoEventLost
    <3> QED
      BY <1>1, <3>2
  <2> QED
    BY <2>1, <2>2
<1>7. NoEventLost'
  BY <1>1, <1>2, <1>6 DEF NoEventLost, OpenedIn
<1>8. PagesNamed' /\ MeetingsRely'
  BY <1>1, <1>2 DEF WatchInv, PagesNamed, MeetingsRely
<1> QED
  BY <1>4, <1>7, <1>8 DEF WatchInv

\* Whoever hears of the meeting it waits for opens it.
LEMMA ReceiveWatch ==
    ASSUME WebInv, WatchInv, NEW p \in Tabs, Receive(p)
    PROVE  WatchInv'
<1>1. PICK i \in inbox[p] : HandleMeetingStarted(p, i)
  BY DEF Receive
<1> DEFINE o == [meeting |-> i, tab |-> p, conn |-> tab[p].conn, user |-> tab[p].user]
<1>2. /\ UNCHANGED <<meetings, tab, click, started>>
      /\ inbox' = [inbox EXCEPT ![p] = @ \ {i}]
      /\ opened' = IF tab[p].phase = "loaded" /\ isAllowedGoogleMeetURL(started[i].url)
                   THEN opened \cup {o} ELSE opened
  BY <1>1 DEF HandleMeetingStarted, serviceVars
<1>3. o.meeting = i /\ o.tab = p
  OBVIOUS
<1> HIDE DEF o
<1>4. /\ inbox'[p] = inbox[p] \ {i}
      /\ \A q \in Tabs : q # p => inbox'[q] = inbox[q]
  BY <1>2 DEF WebInv, WebTypeOK
<1>5. PagesNamed' /\ ClicksRely' /\ MeetingsRely'
  BY <1>2 DEF WatchInv, PagesNamed, ClicksRely, MeetingsRely
<1>6. ASSUME NEW j \in 1..Len(meetings), NEW q \in Tabs, Awaited(j, q)'
      PROVE  j \in inbox'[q] \/ OpenedIn(j, q)'
  <2>1. Awaited(j, q)
    BY <1>2, <1>6 DEF Awaited
  <2>2. CASE OpenedIn(j, q)
    BY <1>2, <2>2 DEF OpenedIn
  <2>3. CASE j \in inbox[q] /\ ~ (j = i /\ q = p)
    BY <1>4, <2>3
  <2>4. CASE j = i /\ q = p
    <3>1. started[i].watch = p /\ p # None /\ isAllowedGoogleMeetURL(started[i].url)
      BY <2>1, <2>4, WebAssumption DEF Awaited
    <3>2. tab[p].phase = "loaded"
      BY <2>4, <3>1 DEF WatchInv, MeetingsRely, Rely
    <3>3. o \in opened'
      BY <1>2, <3>1, <3>2
    <3> QED
      BY <1>3, <2>4, <3>3 DEF OpenedIn
  <2> QED
    BY <2>1, <2>2, <2>3, <2>4 DEF WatchInv, NoEventLost
<1>7. NoEventLost'
  BY <1>2, <1>6 DEF NoEventLost
<1> QED
  BY <1>5, <1>7 DEF WatchInv

LEMMA WatchInvStep == WebInv /\ WatchInv /\ [WebNext]_webVars => WatchInv'
<1> SUFFICES ASSUME WebInv, WatchInv, [WebNext]_webVars PROVE WatchInv'
  OBVIOUS
<1>1. CASE UNCHANGED webVars
  <2>1. UNCHANGED <<meetings, tab, inbox, click, started, opened>>
    BY <1>1 DEF webVars, pageVars, serviceVars
  <2>2. \A r \in Starts : Rely(tab, click'[r].watch, click'[r].scope)
    BY <2>1 DEF WatchInv, ClicksRely
  <2> QED
    BY <2>1, <2>2, ServiceWatch
<1>2. ASSUME NEW p \in Tabs,
             \/ \E u \in Users : OpenPage(p, u)
             \/ ClosePage(p) \/ PluginEnabled(p) \/ Connect(p) \/ Break(p) \/ Initialize(p)
      PROVE  WatchInv'
  BY <1>2, PagesWatch
<1>3. ASSUME NEW p \in Tabs, Receive(p)
      PROVE  WatchInv'
  BY <1>3, ReceiveWatch
<1>4. ASSUME NEW p \in Tabs, NEW r \in Starts, NEW ch \in Channels, ClickButton(p, r, ch)
      PROVE  WatchInv'
  BY <1>4, ClickButtonWatch
<1>5. ASSUME NEW r \in Starts, Fetch(r) \/ Work(r)
      PROVE  WatchInv'
  BY <1>5, FetchWatch, RefusedWatch, MadeWatch, PostedWatch, AnnouncedWatch DEF Work
<1>6. ASSUME NEW r \in Starts, NEW u \in Users, NEW ch \in Channels, MeetStart(r, u, ch)
      PROVE  WatchInv'
  BY <1>6, MeetStartWatch
<1>7. ASSUME Settings \/ PluginStops
      PROVE  WatchInv'
  BY <1>7, StopWatch
<1>8. ASSUME NEW p \in Tabs, NEW r \in Starts, ShowPost(p, r)
      PROVE  WatchInv'
  BY <1>8, ShowPostWatch
<1> QED
  BY <1>1, <1>2, <1>3, <1>4, <1>5, <1>6, <1>7, <1>8 DEF WebNext, WebStep

\* The event of a meeting that a page waits for is on its way to the page, or
\* has opened the window there (meeting.go, index.tsx, meeting_started.ts).
THEOREM NoEventLostCorrect == WebSpec => []NoEventLost
<1>1. WatchInv => NoEventLost
  BY DEF WatchInv
<1> QED
  BY <1>1, WebInvariant, WatchInvInit, WatchInvStep, PTL DEF WebSpec

(***************************************************************************)
(* Clicks that hear of their end                                           *)
(***************************************************************************)

\* If the page of the click has stayed, a word of the server's is on its way.
Told(c) == Stayed(c) => c.word # ""

\* So it is once the meeting is posted, when the service itself answers, and
\* when the click ends with nothing said in the page.
Tells(stage, c) ==
    /\ stage = "posted" => Told(c)
    /\ c.pc = "answered" /\ c.resp \in {"ok", "handled"} => Told(c)
    /\ c.pc = "settled" /\ c.notice = "" => Told(c)

ToldInv == \A r \in Starts : Tells(request[r].stage, click[r])

\* The page of a click that relies on it is connected: the post gets there.
LEMMA EphemeralTells ==
    ASSUME WatchInv, NEW c \in Click, Rely(tab, c.watch, c.scope)
    PROVE  Told(Ephemeral(c))
<1>1. /\ Ephemeral(c).tab = c.tab /\ Ephemeral(c).watch = c.watch
      /\ c.tab # None /\ tab[c.tab].up => Ephemeral(c).word = "underway"
  BY EphemeralKeeps
<1> QED
  BY <1>1 DEF Told, Stayed, Rely

LEMMA SameTold ==
    ASSUME NEW c, NEW d, d.tab = c.tab, d.watch = c.watch, d.word = c.word, Told(c)
    PROVE  Told(d)
BY DEF Told, Stayed

\* What a page that goes leaves of a click tells no less.
LEMMA LeftTold ==
    ASSUME NEW c, NEW d, NEW p \in Tabs, WatchKept(c, d), d.watch # p,
           d.tab = c.tab \/ d.tab = None, c.tab # p => d.word = c.word, Told(c)
    PROVE  Told(d)
BY DEF Told, Stayed, WatchKept

LEMMA LeftTells ==
    ASSUME NEW stage, NEW c, NEW d, Told(c) => Told(d), Tells(stage, c),
           \/ d.pc = c.pc /\ d.resp = c.resp /\ d.notice = c.notice
           \/ d.pc = "idle"
    PROVE  Tells(stage, d)
BY DEF Tells

\* A step of one slot.
LEMMA SlotTells ==
    ASSUME WebInv, ToldInv, NEW r \in Starts, NEW c,
           click' = [click EXCEPT ![r] = c], Tells(request'[r].stage, c),
           \A q \in Starts : q # r => request'[q] = request[q]
    PROVE  ToldInv'
<1>1. /\ click'[r] = c
      /\ \A q \in Starts : q # r => click'[q] = click[q]
  BY DEF WebInv, WebTypeOK
<1>2. ASSUME NEW q \in Starts
      PROVE  Tells(request'[q].stage, click'[q])
  BY <1>1 DEF ToldInv
<1> QED
  BY <1>2 DEF ToldInv

LEMMA ToldInvInit == WebInit => ToldInv
<1> SUFFICES ASSUME WebInit, NEW r \in Starts PROVE Tells(request[r].stage, click[r])
  BY DEF ToldInv
<1>1. request[r].stage = "idle" /\ click[r].pc = "idle"
  BY DEF WebInit, ServiceInit, RequestIdle, ClickIdle
<1> QED
  BY <1>1 DEF Tells

LEMMA PagesTell ==
    ASSUME WebInv, ToldInv, NEW p \in Tabs,
           ClosePage(p) \/ PluginEnabled(p) \/ Break(p)
    PROVE  ToldInv'
<1>0. UNCHANGED request
  BY DEF ClosePage, PluginEnabled, Break, serviceVars
<1> SUFFICES ASSUME NEW r \in Starts PROVE Tells(request[r].stage, click'[r])
  BY <1>0 DEF ToldInv
<1> DEFINE c == click[r]
<1>1. c \in Click /\ Tells(request[r].stage, c)
  BY SlotFacts DEF ToldInv
<1>2. \/ click'[r] = Orphan(c, p)
      \/ click'[r] = Unwatched(c, p)
      \/ click'[r] = Dropped(c, p)
  BY DEF ClosePage, PluginEnabled, Break
<1> HIDE DEF c
<1>3. CASE click'[r] = Orphan(c, p)
  <2> DEFINE d == Orphan(c, p)
  <2>1. /\ d.pc = c.pc \/ d.pc = "idle"
        /\ d.resp = c.resp /\ d.notice = c.notice
        /\ d.tab = c.tab \/ d.tab = None
        /\ c.tab # p => d.word = c.word
        /\ WatchKept(c, d) /\ d.watch # p
    BY <1>1, OrphanKeeps, OrphanEnds
  <2> HIDE DEF d
  <2>2. Told(c) => Told(d)
    BY <2>1, LeftTold
  <2>3. Tells(request[r].stage, d)
    BY <1>1, <2>1, <2>2, LeftTells
  <2> QED
    BY <1>3, <2>3 DEF d
<1>4. CASE click'[r] = Unwatched(c, p)
  <2> DEFINE d == Unwatched(c, p)
  <2>1. /\ d.pc = c.pc /\ d.resp = c.resp /\ d.notice = c.notice
        /\ d.tab = c.tab /\ d.word = c.word
        /\ WatchKept(c, d) /\ d.watch # p
    BY <1>1, UnwatchedKeeps, UnwatchedEnds
  <2> HIDE DEF d
  <2>2. Told(c) => Told(d)
    BY <2>1, LeftTold
  <2>3. Tells(request[r].stage, d)
    BY <1>1, <2>1, <2>2, LeftTells
  <2> QED
    BY <1>4, <2>3 DEF d
<1>5. CASE click'[r] = Dropped(c, p)
  <2> DEFINE d == Dropped(c, p)
  <2>1. /\ d.pc = c.pc /\ d.resp = c.resp /\ d.notice = c.notice
        /\ d.tab = c.tab
        /\ c.tab # p => d.word = c.word
        /\ WatchKept(c, d) /\ d.watch # p
    BY <1>1, DroppedKeeps, DroppedEnds
  <2> HIDE DEF d
  <2>2. Told(c) => Told(d)
    BY <2>1, LeftTold
  <2>3. Tells(request[r].stage, d)
    BY <1>1, <2>1, <2>2, LeftTells
  <2> QED
    BY <1>5, <2>3 DEF d
<1> QED
  BY <1>2, <1>3, <1>4, <1>5

\* A new click has not come to anything, and one of no page needs no word.
LEMMA AskedTells ==
    ASSUME WebInv, ToldInv, NEW r \in Starts, NEW ch \in Channels,
           \/ \E p \in Tabs : ClickButton(p, r, ch)
           \/ \E u \in Users : MeetStart(r, u, ch)
    PROVE  ToldInv'
<1>1. ASSUME NEW p \in Tabs, ClickButton(p, r, ch)
      PROVE  ToldInv'
  <2> DEFINE c == [ClickIdle EXCEPT !.pc = "sent", !.tab = p, !.user = tab[p].user,
                                    !.chan = ch, !.scope = ScopeOf(p),
                                    !.watch = IF tab[p].up THEN p ELSE None]
  <2>1. /\ click' = [click EXCEPT ![r] = c] /\ UNCHANGED request
        /\ request[r].stage = "idle"
    BY <1>1 DEF ClickButton, Free, Open, serviceVars
  <2>2. c.pc = "sent"
    BY DEF ClickIdle
  <2> HIDE DEF c
  <2>3. Tells(request'[r].stage, c)
    BY <2>1, <2>2 DEF Tells
  <2> QED
    BY <2>1, <2>3, SlotTells
<1>2. ASSUME NEW u \in Users, MeetStart(r, u, ch)
      PROVE  ToldInv'
  <2> DEFINE c == [ClickIdle EXCEPT !.pc = IF ready THEN "served" ELSE "idle",
                                    !.user = u, !.chan = ch]
  <2>1. click' = [click EXCEPT ![r] = c] /\ Ask(r, u, ch)
    BY <1>2 DEF MeetStart
  <2>2. c.tab = None
    BY DEF ClickIdle
  <2> HIDE DEF c
  <2>3. Tells(request'[r].stage, c)
    BY <2>2 DEF Tells, Told, Stayed
  <2>4. \A q \in Starts : q # r => request'[q] = request[q]
    BY <2>1, SlotFacts, AskEffect
  <2> QED
    BY <2>1, <2>3, <2>4, SlotTells
<1> QED
  BY <1>1, <1>2

LEMMA FetchReachesTells ==
    ASSUME WebInv, WatchInv, ToldInv, NEW r \in Starts, FetchReaches(r)
    PROVE  ToldInv'
<1>1. /\ click[r] \in Click /\ Rely(tab, click[r].watch, click[r].scope)
      /\ click[r].user \in Users /\ click[r].chan \in Channels /\ ~ Open(r) /\ ServiceInv
  BY SlotFacts DEF FetchReaches, ClickFilled, ClickInv, WatchInv, ClicksRely
<1> DEFINE e == Ephemeral(click[r])
           b == [click[r] EXCEPT !.pc = "served"]
           c == [e EXCEPT !.pc = "answered", !.resp = "handled"]
           d == [click[r] EXCEPT !.pc = "answered", !.resp = "error"]
<1>2. \/ Ask(r, click[r].user, click[r].chan) /\ click' = [click EXCEPT ![r] = b]
      \/ Ask(r, click[r].user, click[r].chan) /\ click' = [click EXCEPT ![r] = c]
      \/ click' = [click EXCEPT ![r] = d] /\ UNCHANGED serviceVars
  BY DEF FetchReaches
<1>3. /\ request'[r].stage # "posted"
      /\ \A q \in Starts : q # r => request'[q] = request[q]
  <2>1. CASE Ask(r, click[r].user, click[r].chan)
    BY <1>1, <2>1, AskEffect
  <2>2. CASE UNCHANGED serviceVars
    BY <1>1, <2>2 DEF serviceVars, Open
  <2> QED
    BY <2>1, <2>2 DEF FetchReaches
<1>4. e \in Click /\ Told(e)
  BY <1>1, EphemeralKeeps, EphemeralTells
<1> HIDE DEF e
<1>5. b.pc = "served" /\ d.pc = "answered" /\ d.resp = "error"
  BY <1>1 DEF Click
<1>6. c.tab = e.tab /\ c.watch = e.watch /\ c.word = e.word
  BY <1>4 DEF Click
<1> HIDE DEF b, c, d
<1>7. Told(c)
  BY <1>4, <1>6, SameTold
<1>8. Tells(request'[r].stage, b) /\ Tells(request'[r].stage, c) /\ Tells(request'[r].stage, d)
  BY <1>3, <1>5, <1>7 DEF Tells
<1> QED
  BY <1>2, <1>3, <1>8, SlotTells

\* An answer that says nothing in the page is one of the service's own.
LEMMA SettlesTell ==
    ASSUME WebInv, ToldInv, NEW r \in Starts, ResponseArrives(r) \/ FetchFails(r)
    PROVE  ToldInv'
<1>1. click[r] \in Click /\ Tells(request[r].stage, click[r])
  BY SlotFacts DEF ToldInv
<1>2. PICK resp \in Responses :
        /\ click' = [click EXCEPT ![r] = Settled(click[r], resp)]
        /\ resp \in {"ok", "handled"} => click[r].pc = "answered" /\ resp = click[r].resp
  BY SlotFacts DEF ResponseArrives, FetchFails, Strange, ClickInv
<1> DEFINE c == Settled(click[r], resp)
<1>3. /\ c.pc \in {"idle", "settled"} /\ c.tab = click[r].tab
      /\ c.word = click[r].word /\ c.watch = click[r].watch
      /\ c.pc = "settled" => c.notice = Notice(resp)
  BY <1>1, SettledKeeps, SettledRelies
<1> HIDE DEF c
<1>4. Told(click[r]) => Told(c)
  BY <1>3, SameTold
<1>5. c.pc = "settled" /\ c.notice = "" => Told(c)
  BY <1>1, <1>2, <1>3, <1>4, NoticeIs DEF Tells
<1>6. UNCHANGED request
  BY DEF ResponseArrives, FetchFails, serviceVars
<1>7. Tells(request'[r].stage, c)
  BY <1>1, <1>3, <1>4, <1>5, <1>6 DEF Tells
<1> QED
  BY <1>2, <1>6, <1>7, SlotTells DEF c

LEMMA RefusedTells ==
    ASSUME WebInv, WatchInv, ToldInv, NEW r \in Starts, Refused(r)
    PROVE  ToldInv'
<1> DEFINE e == Ephemeral(click[r])
           c == Answered(e, "handled")
<1>1. click[r] \in Click /\ Rely(tab, click[r].watch, click[r].scope) /\ ServiceInv
  BY SlotFacts DEF WatchInv, ClicksRely
<1>2. e \in Click /\ Told(e)
  BY <1>1, EphemeralKeeps, EphemeralTells
<1>3. click' = [click EXCEPT ![r] = c]
  BY DEF Refused
<1> HIDE DEF e
<1>4. c.tab = e.tab /\ c.watch = e.watch /\ c.word = e.word
  BY <1>2, AnsweredKeeps, AnsweredRelies DEF Responses
<1> HIDE DEF c
<1>5. Told(c)
  BY <1>2, <1>4, SameTold
<1>6. Tells(request'[r].stage, c)
  BY <1>5 DEF Tells
<1>7. \A q \in Starts : q # r => request'[q] = request[q]
  BY <1>1, RefuseEffect DEF Refused
<1> QED
  BY <1>3, <1>6, <1>7, SlotTells

LEMMA MadeTells ==
    ASSUME WebInv, WatchInv, ToldInv, NEW r \in Starts, Made(r)
    PROVE  ToldInv'
<1>1. /\ Rely(tab, click[r].watch, click[r].scope) /\ ServiceInv
      /\ Tells(request[r].stage, click[r])
  BY SlotFacts DEF WatchInv, ClicksRely, ToldInv
<1>2. PICK c \in Click :
        /\ click' = [click EXCEPT ![r] = c]
        /\ c.tab = click[r].tab /\ c.watch = click[r].watch /\ c.notice = click[r].notice
        /\ \/ /\ c.pc = click[r].pc /\ c.resp = click[r].resp
              /\ c.word = click[r].word
           \/ c.tab # None /\ tab[c.tab].up => c.word = "underway"
  BY MadeClick
<1>3. /\ request'[r].stage # "posted"
      /\ \A q \in Starts : q # r => request'[q] = request[q]
  BY <1>1, MakeEffect DEF Made
<1>4. CASE c.tab # None /\ tab[c.tab].up => c.word = "underway"
  <2>1. Told(c)
    BY <1>1, <1>2, <1>4 DEF Told, Stayed, Rely
  <2> QED
    BY <1>2, <1>3, <2>1, SlotTells DEF Tells
<1>5. CASE c.pc = click[r].pc /\ c.resp = click[r].resp /\ c.word = click[r].word
  <2>1. Told(click[r]) => Told(c)
    BY <1>2, <1>5, SameTold
  <2>2. Tells(request'[r].stage, c)
    BY <1>1, <1>2, <1>3, <1>5, <2>1 DEF Tells
  <2> QED
    BY <1>2, <1>3, <2>2, SlotTells
<1> QED
  BY <1>2, <1>4, <1>5

\* What is posted in the channel is there for good.
LEMMA PostsTell ==
    ASSUME WebInv, ToldInv, NEW r \in Starts,
           Posted(r) \/ \E p \in Tabs : ShowPost(p, r)
    PROVE  ToldInv'
<1> DEFINE c == [click[r] EXCEPT !.word = "there"]
<1>1. click[r] \in Click /\ ServiceInv
  BY SlotFacts
<1>2. click' = [click EXCEPT ![r] = c]
  BY DEF Posted, ShowPost
<1>3. c.word = "there"
  BY <1>1 DEF Click
<1> HIDE DEF c
<1>4. Tells(request'[r].stage, c)
  BY <1>3 DEF Tells, Told
<1>5. \A q \in Starts : q # r => request'[q] = request[q]
  BY <1>1, PostEffect DEF Posted, ShowPost, serviceVars
<1> QED
  BY <1>2, <1>4, <1>5, SlotTells

LEMMA AnnouncedTells ==
    ASSUME WebInv, ToldInv, NEW r \in Starts, Announced(r)
    PROVE  ToldInv'
<1> DEFINE c == Answered(click[r], "ok")
<1>1. click[r] \in Click /\ Tells(request[r].stage, click[r]) /\ ServiceInv
  BY SlotFacts DEF ToldInv
<1>2. click' = [click EXCEPT ![r] = c] /\ Announce(r)
  BY DEF Announced
<1>3. /\ request[r].stage = "posted"
      /\ \A q \in Starts : q # r => request'[q] = request[q]
  BY <1>1, <1>2, AnnounceEffect
<1>4. c.tab = click[r].tab /\ c.watch = click[r].watch /\ c.word = click[r].word
  BY <1>1, AnsweredKeeps, AnsweredRelies DEF Responses
<1> HIDE DEF c
<1>5. Told(c)
  BY <1>1, <1>3, <1>4, SameTold DEF Tells
<1>6. Tells(request'[r].stage, c)
  BY <1>5 DEF Tells
<1> QED
  BY <1>2, <1>3, <1>6, SlotTells

LEMMA StopTells ==
    ASSUME WebInv, ToldInv, PluginStops
    PROVE  ToldInv'
<1> SUFFICES ASSUME NEW r \in Starts PROVE Tells(request'[r].stage, click'[r])
  BY DEF ToldInv
<1> DEFINE c == Answered(click[r], "error")
<1>1. click[r] \in Click /\ Tells(request[r].stage, click[r]) /\ ServiceInv
  BY SlotFacts DEF ToldInv
<1>2. click'[r] = c /\ request'[r].stage = "idle"
  BY <1>1, StopEffect DEF PluginStops
<1>3. /\ c.tab = click[r].tab /\ c.watch = click[r].watch /\ c.word = click[r].word
      /\ c.notice = click[r].notice
      /\ \/ c.pc = click[r].pc /\ c.resp = click[r].resp
         \/ c.pc = "idle"
         \/ c.pc = "answered" /\ c.resp = "error"
  BY <1>1, AnsweredKeeps, AnsweredRelies DEF Responses
<1> HIDE DEF c
<1>4. Told(click[r]) => Told(c)
  BY <1>3, SameTold
<1>5. Tells("idle", c)
  BY <1>1, <1>3, <1>4 DEF Tells
<1> QED
  BY <1>2, <1>5

LEMMA ToldInvStep == WebInv /\ WatchInv /\ ToldInv /\ [WebNext]_webVars => ToldInv'
<1> SUFFICES ASSUME WebInv, WatchInv, ToldInv, [WebNext]_webVars PROVE ToldInv'
  OBVIOUS
<1>1. ASSUME UNCHANGED <<request, click>>
      PROVE  ToldInv'
  BY <1>1 DEF ToldInv
<1>2. CASE UNCHANGED webVars \/ Settings
  BY <1>1, <1>2 DEF webVars, pageVars, serviceVars, Settings, Configure
<1>3. ASSUME NEW p \in Tabs,
             \/ \E u \in Users : OpenPage(p, u)
             \/ Connect(p) \/ Initialize(p) \/ Receive(p)
      PROVE  ToldInv'
  BY <1>1, <1>3 DEF OpenPage, Connect, Initialize, HandleConfigStatus, ConfigStatusFails,
                    Register, Receive, HandleMeetingStarted, serviceVars
<1>4. ASSUME NEW p \in Tabs, ClosePage(p) \/ PluginEnabled(p) \/ Break(p)
      PROVE  ToldInv'
  BY <1>4, PagesTell
<1>5. ASSUME NEW p \in Tabs, NEW r \in Starts, ShowPost(p, r)
      PROVE  ToldInv'
  BY <1>5, PostsTell
<1>6. ASSUME NEW r \in Starts, NEW ch \in Channels,
             \/ \E p \in Tabs : ClickButton(p, r, ch)
             \/ \E u \in Users : MeetStart(r, u, ch)
      PROVE  ToldInv'
  BY <1>6, AskedTells
<1>7. ASSUME NEW r \in Starts, Fetch(r)
      PROVE  ToldInv'
  BY <1>7, FetchReachesTells, SettlesTell DEF Fetch
<1>8. ASSUME NEW r \in Starts, Work(r)
      PROVE  ToldInv'
  BY <1>8, RefusedTells, MadeTells, PostsTell, AnnouncedTells DEF Work
<1>9. CASE PluginStops
  BY <1>9, StopTells
<1> QED
  BY <1>2, <1>3, <1>4, <1>5, <1>6, <1>7, <1>8, <1>9 DEF WebNext, WebStep

\* In a page that stays loaded and connected, no click comes to its end without
\* a word: a local post, or one of the server's that is there or on its way
\* (client.ts, ephemeral.ts, api.go).
THEOREM EveryClickToldCorrect == WebSpec => []EveryClickTold
<1>1. ToldInv => EveryClickTold
  BY DEF ToldInv, Tells, Told, EveryClickTold
<1> QED
  BY <1>1, WebInvariant, WatchInvInit, WatchInvStep, ToldInvInit, ToldInvStep, PTL
  DEF WebSpec

(***************************************************************************)
(* The browser and the service                                             *)
(***************************************************************************)

LEMMA FetchAsks ==
    ASSUME WebInv, NEW r \in Starts, Fetch(r)
    PROVE  ServiceNext \/ UNCHANGED serviceVars
<1>1. CASE ResponseArrives(r) \/ FetchFails(r)
  BY <1>1 DEF ResponseArrives, FetchFails
<1>2. CASE FetchReaches(r)
  <2>1. click[r].user \in Users /\ click[r].chan \in Channels
    BY <1>2 DEF FetchReaches, WebInv, ClicksFilled, ClickFilled
  <2> QED
    BY <1>2, <2>1 DEF FetchReaches, ServiceNext
<1> QED
  BY <1>1, <1>2 DEF Fetch

\* Pages, clicks and the network do to the service only what it allows for: no
\* request reaches it for nobody, and none is begun while its slot is in use
\* (client.ts, api.go).  So what holds of every MeetingService holds here.
THEOREM UsesService == WebSpec => ServiceSpec
<1>1. WebInit => ServiceInit
  BY DEF WebInit
<1>2. WebInv /\ [WebNext]_webVars => [ServiceNext]_serviceVars
  <2> SUFFICES ASSUME WebInv, [WebNext]_webVars PROVE ServiceNext \/ UNCHANGED serviceVars
    OBVIOUS
  <2>1. CASE UNCHANGED webVars
    BY <2>1 DEF webVars
  <2>2. ASSUME NEW p \in Tabs,
               \/ \E u \in Users : OpenPage(p, u)
               \/ ClosePage(p) \/ PluginEnabled(p) \/ Connect(p) \/ Break(p)
               \/ Initialize(p) \/ Receive(p)
               \/ \E r \in Starts : ShowPost(p, r)
               \/ \E r \in Starts, ch \in Channels : ClickButton(p, r, ch)
        PROVE  UNCHANGED serviceVars
    BY <2>2 DEF OpenPage, ClosePage, PluginEnabled, Connect, Break, Initialize,
                HandleConfigStatus, ConfigStatusFails, Register, Receive,
                HandleMeetingStarted, ShowPost, ClickButton
  <2>3. ASSUME NEW r \in Starts, Fetch(r)
        PROVE  ServiceNext \/ UNCHANGED serviceVars
    BY <2>3, FetchAsks
  <2>4. ASSUME NEW r \in Starts, Work(r)
        PROVE  ServiceNext
    BY <2>4 DEF Work, Refused, Made, Posted, Announced, ServiceNext, Serve
  <2>5. ASSUME NEW r \in Starts, NEW u \in Users, NEW ch \in Channels, MeetStart(r, u, ch)
        PROVE  ServiceNext
    BY <2>5 DEF MeetStart, ServiceNext
  <2>6. CASE Settings \/ PluginStops
    BY <2>6 DEF Settings, PluginStops, ServiceNext
  <2> QED
    BY <2>1, <2>2, <2>3, <2>4, <2>5, <2>6 DEF WebNext, WebStep
<1> QED
  BY <1>1, <1>2, WebInvariant, PTL DEF WebSpec, ServiceSpec
=============================================================================
