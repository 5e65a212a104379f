--------------------- MODULE MeetPluginRefinementProofs ---------------------
(***************************************************************************)
(* MeetPlugin implements MeetingService, for every number of users,        *)
(* requests, settings, grants and channels.  Each step of a request is a   *)
(* step of the service or none; the type invariant is what it takes.       *)
(***************************************************************************)
EXTENDS MeetPluginRefinement, MeetPluginTypeProofs

\* A request as the service has it.
ReqOf(x) ==
    [stage |-> StageOf(x.pc), user |-> x.user, chan |-> x.chan,
     meeting |-> x.link, reply |-> x.reply]

\* A meeting as the service has it.
MeetingOf(s) ==
    [user |-> s.user, chan |-> s.chan, posted |-> s.posted, announced |-> s.announced]

LEMMA BarOf ==
    /\ requestBar = [r \in Starts |-> ReqOf(start[r])]
    /\ meetingsBar = [i \in 1..Len(spaces) |-> MeetingOf(spaces[i])]
BY DEF requestBar, meetingsBar, ReqOf, MeetingOf

LEMMA InitMaps ==
    ASSUME Init
    PROVE  Service!ServiceInit
<1>1. requestBar = [r \in Starts |-> Service!RequestIdle]
  BY DEF requestBar, Init, MeetingInit, StartIdle, StageOf, Service!RequestIdle,
         NotAnswered, Service!NotAnswered
<1>2. meetingsBar = <<>>
  BY DEF meetingsBar, Init, MeetingInit
<1>3. (phase = "active") = FALSE /\ Ready \in BOOLEAN
  BY DEF Init, ConfInit, Ready
<1> QED
  BY <1>1, <1>2, <1>3 DEF Service!ServiceInit

LEMMA BarMoves ==
    ASSUME start \in [Starts -> StartRequest], NEW r \in Starts, NEW x,
           start' = [start EXCEPT ![r] = x]
    PROVE  requestBar' = [requestBar EXCEPT ![r] = ReqOf(x)]
<1>1. start'[r] = x /\ \A q \in Starts : q # r => start'[q] = start[q]
  OBVIOUS
<1>2. requestBar' = [q \in Starts |-> ReqOf(start'[q])]
  BY DEF requestBar, ReqOf
<1> QED
  BY <1>1, <1>2, BarOf

LEMMA AnswerBar ==
    ASSUME start \in [Starts -> StartRequest], NEW r \in Starts, NEW reply, Answer(r, reply)
    PROVE  Service!Reply(r, reply)
<1> DEFINE x == [StartIdle EXCEPT !.user = start[r].user, !.reply = reply]
<1>1. start' = [start EXCEPT ![r] = x]
  BY DEF Answer
<1>2. requestBar[r].user = start[r].user
  BY BarOf DEF ReqOf
<1>3. x.pc = "idle" /\ x.user = start[r].user /\ x.chan = None /\ x.link = 0 /\ x.reply = reply
  BY DEF StartIdle
<1> HIDE DEF x
<1>4. requestBar' = [requestBar EXCEPT ![r] = ReqOf(x)]
  BY <1>1, BarMoves
<1>5. ReqOf(x) = [stage |-> "idle", user |-> start[r].user, chan |-> None,
                  meeting |-> 0, reply |-> reply]
  BY <1>3 DEF ReqOf, StageOf
<1>6. [Service!RequestIdle EXCEPT !.user = requestBar[r].user, !.reply = reply] = ReqOf(x)
  <2> DEFINE idle == Service!RequestIdle
             u == requestBar[r].user
             y == [idle EXCEPT !.user = u, !.reply = reply]
  <2>1. idle = [stage |-> "idle", user |-> None, chan |-> None,
                meeting |-> 0, reply |-> Service!NotAnswered]
    BY DEF Service!RequestIdle
  <2> HIDE DEF idle, u
  <2>2. y = [idle EXCEPT !.user = u, !.reply = reply]
    OBVIOUS
  <2> HIDE DEF y
  <2>3. y = [stage |-> "idle", user |-> u, chan |-> None, meeting |-> 0, reply |-> reply]
    BY <2>1, <2>2
  <2>4. y = ReqOf(x)
    BY <1>2, <1>5, <2>3 DEF u
  <2> QED
    BY <2>4 DEF y, idle, u
<1> QED
  BY <1>4, <1>6 DEF Service!Reply

\* A step that the service does not see.
LEMMA SameBar ==
    ASSUME start \in [Starts -> StartRequest], NEW r \in Starts, NEW x,
           start' = [start EXCEPT ![r] = x],
           StageOf(x.pc) = StageOf(start[r].pc),
           x.user = start[r].user, x.chan = start[r].chan,
           x.link = start[r].link, x.reply = start[r].reply
    PROVE  requestBar' = requestBar
<1>1. ReqOf(x) = ReqOf(start[r])
  BY DEF ReqOf
<1>2. requestBar' = [requestBar EXCEPT ![r] = ReqOf(x)]
  BY BarMoves
<1> QED
  BY <1>1, <1>2, BarOf

LEMMA GotoBar ==
    ASSUME start \in [Starts -> StartRequest], NEW r \in Starts, NEW pc, Goto(r, pc)
    PROVE  requestBar' = [requestBar EXCEPT ![r].stage = StageOf(pc)]
<1> DEFINE x == [start[r] EXCEPT !.pc = pc]
<1>1. start' = [start EXCEPT ![r] = x]
  BY DEF Goto
<1>2. ReqOf(x) = [ReqOf(start[r]) EXCEPT !.stage = StageOf(pc)]
  BY DEF ReqOf, StartRequest
<1> HIDE DEF x
<1>3. requestBar' = [requestBar EXCEPT ![r] = ReqOf(x)]
  BY <1>1, BarMoves
<1> QED
  BY <1>2, <1>3, BarOf

LEMMA MeetingsSame ==
    ASSUME UNCHANGED spaces
    PROVE  meetingsBar' = meetingsBar
BY DEF meetingsBar

LEMMA MeetingsGrow ==
    ASSUME spaces \in Seq(Space), NEW s, spaces' = Append(spaces, s)
    PROVE  meetingsBar' = Append(meetingsBar, MeetingOf(s)) /\ Len(meetingsBar) = Len(spaces)
<1>1. /\ Len(spaces) \in Nat /\ Len(spaces') = Len(spaces) + 1
      /\ spaces'[Len(spaces) + 1] = s
      /\ \A i \in 1..Len(spaces) : spaces'[i] = spaces[i]
  OBVIOUS
<1>2. meetingsBar' = [i \in 1..Len(spaces') |-> MeetingOf(spaces'[i])]
  BY DEF meetingsBar, MeetingOf
<1>3. Len(meetingsBar) = Len(spaces)
  BY <1>1 DEF meetingsBar
<1> QED
  BY <1>1, <1>2, <1>3, BarOf

LEMMA MeetingsMark ==
    ASSUME spaces \in Seq(Space), NEW i \in 1..Len(spaces)
    PROVE  /\ spaces' = [spaces EXCEPT ![i].posted = TRUE]
              => meetingsBar' = [meetingsBar EXCEPT ![i].posted = TRUE]
           /\ spaces' = [spaces EXCEPT ![i].announced = TRUE]
              => meetingsBar' = [meetingsBar EXCEPT ![i].announced = TRUE]
<1>1. meetingsBar' = [j \in 1..Len(spaces') |-> MeetingOf(spaces'[j])]
  BY DEF meetingsBar, MeetingOf
<1>2. ASSUME NEW s \in Space
      PROVE  /\ MeetingOf([s EXCEPT !.posted = TRUE]) = [MeetingOf(s) EXCEPT !.posted = TRUE]
             /\ MeetingOf([s EXCEPT !.announced = TRUE]) = [MeetingOf(s) EXCEPT !.announced = TRUE]
  <2>1. MeetingOf([s EXCEPT !.posted = TRUE]) = [MeetingOf(s) EXCEPT !.posted = TRUE]
    <3> DEFINE t == [s EXCEPT !.posted = TRUE]
    <3>1. t.user = s.user /\ t.chan = s.chan /\ t.posted = TRUE /\ t.announced = s.announced
      BY DEF Space
    <3> HIDE DEF t
    <3> DEFINE m == MeetingOf(s)
               y == [m EXCEPT !.posted = TRUE]
    <3>2. m = [user |-> s.user, chan |-> s.chan, posted |-> s.posted, announced |-> s.announced]
      BY DEF MeetingOf
    <3> HIDE DEF m
    <3>3. y = [m EXCEPT !.posted = TRUE]
      OBVIOUS
    <3> HIDE DEF y
    <3>4. y = MeetingOf(t)
      BY <3>1, <3>2, <3>3 DEF MeetingOf
    <3> QED
      BY <3>4 DEF t, y, m
  <2>2. MeetingOf([s EXCEPT !.announced = TRUE]) = [MeetingOf(s) EXCEPT !.announced = TRUE]
    <3> DEFINE t == [s EXCEPT !.announced = TRUE]
    <3>1. t.user = s.user /\ t.chan = s.chan /\ t.announced = TRUE /\ t.posted = s.posted
      BY DEF Space
    <3> HIDE DEF t
    <3> DEFINE m == MeetingOf(s)
               y == [m EXCEPT !.announced = TRUE]
    <3>2. m = [user |-> s.user, chan |-> s.chan, posted |-> s.posted, announced |-> s.announced]
      BY DEF MeetingOf
    <3> HIDE DEF m
    <3>3. y = [m EXCEPT !.announced = TRUE]
      OBVIOUS
    <3> HIDE DEF y
    <3>4. y = MeetingOf(t)
      BY <3>1, <3>2, <3>3 DEF MeetingOf
    <3> QED
      BY <3>4 DEF t, y, m
  <2> QED
    BY <2>1, <2>2
<1>3. ASSUME NEW x, spaces' = [spaces EXCEPT ![i] = x]
      PROVE  meetingsBar' = [meetingsBar EXCEPT ![i] = MeetingOf(x)]
  BY <1>1, <1>3, BarOf
<1>4. spaces[i] \in Space /\ meetingsBar[i] = MeetingOf(spaces[i])
  BY BarOf
<1> QED
  BY <1>2, <1>3, <1>4, Zenon

Failures == Refusals \ {"not_configured"}

LEMMA ReadySame ==
    ASSUME UNCHANGED confVars
    PROVE  (phase = "active")' = (phase = "active") /\ Ready' = Ready
BY DEF confVars, Ready, IsValid, SiteURL, Cfg, Latest

\* A request that is answered with a failure is refused.
LEMMA FailureRefuses ==
    ASSUME start \in [Starts -> StartRequest], NEW r \in Starts, NEW reply, Answer(r, reply),
           \/ StageOf(start[r].pc) = "asked" /\ reply \in Failures
           \/ StageOf(start[r].pc) = "made" /\ reply = "meeting_failed",
           UNCHANGED <<confVars, spaces>>
    PROVE  Service!Refuse(r)
<1>1. requestBar[r].stage = StageOf(start[r].pc)
  BY BarOf DEF ReqOf
<1>2. Service!Reply(r, reply)
  BY AnswerBar
<1>3. /\ (phase = "active")' = (phase = "active") /\ Ready' = Ready
      /\ meetingsBar' = meetingsBar
  BY ReadySame, MeetingsSame
<1>4. reply \in Failures => reply \in Service!Refusals \ {"not_configured"}
  BY DEF Failures, Refusals, Service!Refusals
<1> QED
  BY <1>1, <1>2, <1>3, <1>4 DEF Service!Refuse

\* What a request does before it asks Google for a space, or when Google has
\* refused it, is a refusal or nothing to the service.
Hidden(r) ==
    \/ \E reply \in Failures : Answer(r, reply)
    \/ requestBar' = requestBar

LEMMA MovesHidden ==
    ASSUME start \in [Starts -> StartRequest], NEW r \in Starts, NEW pc \in StartPc,
           StageOf(start[r].pc) = "asked", StageOf(pc) = "asked", Goto(r, pc)
    PROVE  Hidden(r)
<1> DEFINE x == [start[r] EXCEPT !.pc = pc]
<1>1. start' = [start EXCEPT ![r] = x]
  BY DEF Goto
<1>2. /\ x.pc = pc /\ x.user = start[r].user /\ x.chan = start[r].chan
      /\ x.link = start[r].link /\ x.reply = start[r].reply
  BY DEF StartRequest
<1> HIDE DEF x
<1> QED
  BY <1>1, <1>2, SameBar DEF Hidden

LEMMA HandleHidden ==
    ASSUME TypeInv, NEW r \in Starts, NEW next \in StartPc, NEW failure \in Failures,
           StageOf(start[r].pc) = "asked", StageOf(next) = "asked",
           StoreHandle(r, next, failure)
    PROVE  Hidden(r) /\ UNCHANGED spaces
<1>0. start \in [Starts -> StartRequest]
  BY DEF TypeInv, StartInv, MeetingInv
<1> DEFINE x == [start[r] EXCEPT !.pc = next, !.key = OAuthStore]
<1>1. CASE start' = [start EXCEPT ![r].pc = next, ![r].key = OAuthStore]
  <2>1. start' = [start EXCEPT ![r] = x]
    BY <1>1
  <2>2. /\ x.pc = next /\ x.user = start[r].user /\ x.chan = start[r].chan
        /\ x.link = start[r].link /\ x.reply = start[r].reply
    BY <1>0 DEF StartRequest
  <2> HIDE DEF x
  <2> QED
    BY <1>0, <2>1, <2>2, SameBar DEF Hidden, StoreHandle
<1> QED
  BY <1>1 DEF StoreHandle, Hidden

LEMMA AskedHidden ==
    ASSUME TypeInv, NEW r \in Starts,
           \/ CheckOpen(r) \/ CheckGet(r) \/ CheckPurge(r) \/ Admit(r) \/ UseOpen(r)
           \/ UseGet(r) \/ UsePurge(r) \/ Refresh(r) \/ Save(r) \/ DropOpen(r) \/ Drop(r)
    PROVE  Hidden(r) /\ UNCHANGED spaces /\ StageOf(start[r].pc) = "asked"
<1>0. start \in [Starts -> StartRequest]
  BY DEF TypeInv, StartInv, MeetingInv
<1>s. \A pc \in StartPc \ {"idle", "post", "publish"} : StageOf(pc) = "asked"
  BY DEF StageOf, StartPc
<1>f. \A reply \in Failures : Answer(r, reply) => Hidden(r)
  BY DEF Hidden
<1>g. \A pc \in StartPc \ {"idle", "post", "publish"} :
        StageOf(start[r].pc) = "asked" /\ Goto(r, pc) => Hidden(r)
  BY <1>0, <1>s, MovesHidden
<1>1. CASE CheckOpen(r) \/ UseOpen(r)
  BY <1>1, <1>s, HandleHidden DEF CheckOpen, UseOpen, StartPc, Failures, Refusals
<1>2. CASE CheckGet(r)
  BY <1>2, <1>s, <1>f, <1>g DEF CheckGet, StartPc, Failures, Refusals
<1>3. CASE CheckPurge(r) \/ UsePurge(r)
  BY <1>3, <1>s, <1>f DEF CheckPurge, UsePurge, Purge, StartPc, Failures, Refusals
<1>4. CASE Admit(r)
  BY <1>4, <1>s, <1>f, <1>g DEF Admit, StartPc, Failures, Refusals
<1>5. CASE UseGet(r)
  <2>1. ASSUME NEW pc \in {"refresh", "create"},
               start' = [start EXCEPT ![r].pc = pc, ![r].tok = Stored(r).tok],
               start[r].pc = "use_get"
        PROVE  Hidden(r)
    <3> DEFINE x == [start[r] EXCEPT !.pc = pc, !.tok = Stored(r).tok]
    <3>1. start' = [start EXCEPT ![r] = x]
      BY <2>1
    <3>2. /\ x.pc = pc /\ x.user = start[r].user /\ x.chan = start[r].chan
          /\ x.link = start[r].link /\ x.reply = start[r].reply
      BY <1>0 DEF StartRequest
    <3>3. StageOf(x.pc) = StageOf(start[r].pc)
      BY <2>1, <3>2, <1>s DEF StartPc
    <3> HIDE DEF x
    <3> QED
      BY <1>0, <3>1, <3>2, <3>3, SameBar DEF Hidden
  <2> QED
    BY <1>5, <2>1, <1>s, <1>f, <1>g DEF UseGet, StartPc, Failures, Refusals
<1>6. CASE Refresh(r)
  <2>1. ASSUME NEW rt, start' = [start EXCEPT ![r].pc = "save", ![r].tok.rt = rt],
               start[r].pc = "refresh"
        PROVE  Hidden(r)
    <3> DEFINE t == [start[r].tok EXCEPT !.rt = rt]
               x == [start[r] EXCEPT !.pc = "save", !.tok = t]
    <3>1. start' = [start EXCEPT ![r] = x]
      BY <2>1
    <3> HIDE DEF t
    <3>2. /\ x.pc = "save" /\ x.user = start[r].user /\ x.chan = start[r].chan
          /\ x.link = start[r].link /\ x.reply = start[r].reply
      BY <1>0 DEF StartRequest
    <3>3. StageOf(x.pc) = StageOf(start[r].pc)
      BY <2>1, <3>2, <1>s DEF StartPc
    <3> HIDE DEF x
    <3> QED
      BY <1>0, <3>1, <3>2, <3>3, SameBar DEF Hidden
  <2> QED
    BY <1>6, <2>1, <1>s, <1>f DEF Refresh, StartPc, Failures, Refusals
<1>7. CASE Save(r)
  BY <1>7, <1>s, <1>g DEF Save, StartPc
<1>8. CASE DropOpen(r)
  BY <1>8, <1>s, <1>f, <1>g DEF DropOpen, StartPc, Failures, Refusals
<1>9. CASE Drop(r)
  BY <1>9, <1>s, <1>f DEF Drop, StartPc, Failures, Refusals
<1> QED
  BY <1>1, <1>2, <1>3, <1>4, <1>5, <1>6, <1>7, <1>8, <1>9

\* The last steps of a request make its meeting, post and announce it.
LEMMA CreateMakes ==
    ASSUME TypeInv, NEW r \in Starts, Create(r), UNCHANGED confVars
    PROVE  \/ Service!Make(r) \/ Service!Refuse(r)
           \/ requestBar' = requestBar /\ UNCHANGED spaces
<1>0. /\ start \in [Starts -> StartRequest] /\ spaces \in Seq(Space)
      /\ start[r].pc = "create" /\ StageOf(start[r].pc) = "asked"
  BY DEF TypeInv, StartInv, MeetingInv, Create, StageOf
<1> DEFINE s == [account |-> google[start[r].tok.grant].owner, user |-> start[r].user,
                 chan |-> start[r].chan, posted |-> FALSE, announced |-> FALSE]
           m == [user |-> requestBar[r].user, chan |-> requestBar[r].chan,
                 posted |-> FALSE, announced |-> FALSE]
<1>1. /\ requestBar[r].stage = "asked"
      /\ requestBar[r].user = start[r].user /\ requestBar[r].chan = start[r].chan
  BY <1>0, BarOf DEF ReqOf
<1>2. MeetingOf(s) = m
  BY <1>1 DEF MeetingOf
<1>3. /\ (phase = "active")' = (phase = "active") /\ Ready' = Ready
  BY ReadySame
<1> HIDE DEF s, m
<1>4. ASSUME spaces' = Append(spaces, s)
      PROVE  meetingsBar' = Append(meetingsBar, m) /\ Len(meetingsBar) = Len(spaces)
  BY <1>0, <1>2, <1>4, MeetingsGrow
<1>5. CASE /\ spaces' = Append(spaces, s)
           /\ start' = [start EXCEPT ![r].pc = "post", ![r].link = Len(spaces) + 1]
  <2> DEFINE x == [start[r] EXCEPT !.pc = "post", !.link = Len(spaces) + 1]
             b == requestBar[r]
             n == Len(meetingsBar) + 1
             y == [b EXCEPT !.stage = "made", !.meeting = n]
  <2>1. start' = [start EXCEPT ![r] = x]
    BY <1>5
  <2>2. /\ x.pc = "post" /\ x.user = start[r].user /\ x.chan = start[r].chan
        /\ x.link = Len(spaces) + 1 /\ x.reply = start[r].reply
    BY <1>0 DEF StartRequest
  <2> HIDE DEF x
  <2>3. requestBar' = [requestBar EXCEPT ![r] = ReqOf(x)]
    BY <1>0, <2>1, BarMoves
  <2>4. b = [stage |-> StageOf(start[r].pc), user |-> start[r].user, chan |-> start[r].chan,
             meeting |-> start[r].link, reply |-> start[r].reply]
    BY BarOf DEF ReqOf
  <2>5. y = [b EXCEPT !.stage = "made", !.meeting = n]
    OBVIOUS
  <2>6. requestBar' = [requestBar EXCEPT ![r] = y]
    <3>0. n = Len(spaces) + 1
      BY <1>4, <1>5
    <3> HIDE DEF b, y, n
    <3>1. ReqOf(x) = [stage |-> "made", user |-> start[r].user, chan |-> start[r].chan,
                      meeting |-> Len(spaces) + 1, reply |-> start[r].reply]
      BY <2>2 DEF ReqOf, StageOf
    <3>2. y = [stage |-> "made", user |-> start[r].user, chan |-> start[r].chan,
               meeting |-> n, reply |-> start[r].reply]
      BY <2>4, <2>5
    <3>3. y = ReqOf(x)
      BY <3>0, <3>1, <3>2
    <3> QED
      BY <2>3, <3>3
  <2>7. requestBar' = [requestBar EXCEPT ![r].stage = "made",
                                         ![r].meeting = Len(meetingsBar) + 1]
    BY <2>6
  <2> QED
    BY <1>1, <1>3, <1>4, <1>5, <2>7 DEF Service!Make, m
<1>6. CASE spaces' = Append(spaces, s) /\ Answer(r, "meeting_failed")
  <2>1. Service!Reply(r, "meeting_failed")
    BY <1>0, <1>6, AnswerBar
  <2> QED
    BY <1>1, <1>3, <1>4, <1>6, <2>1 DEF Service!Make, m
<1>7. CASE Goto(r, "drop_open") /\ UNCHANGED spaces
  <2>1. requestBar' = requestBar \/ \E reply \in Failures : Answer(r, reply)
    BY <1>0, <1>7, MovesHidden DEF Hidden, StageOf, StartPc
  <2> QED
    BY <1>0, <1>7, <2>1, FailureRefuses
<1>8. CASE Answer(r, "meeting_failed") /\ UNCHANGED spaces
  BY <1>0, <1>8, FailureRefuses DEF Failures, Refusals
<1> QED
  BY <1>5, <1>6, <1>7, <1>8 DEF Create, s

LEMMA PostPosts ==
    ASSUME TypeInv, NEW r \in Starts, CreatePost(r), UNCHANGED confVars
    PROVE  Service!Post(r) \/ Service!Refuse(r)
<1>0. /\ start \in [Starts -> StartRequest] /\ spaces \in Seq(Space)
      /\ start[r].pc = "post" /\ StageOf(start[r].pc) = "made"
      /\ start[r].link \in 1..Len(spaces)
  BY DEF TypeInv, StartInv, MeetingInv, StartsFilled, StartFilled, StartRequest,
         CreatePost, StageOf
<1>1. requestBar[r].stage = "made" /\ requestBar[r].meeting = start[r].link
  BY <1>0, BarOf DEF ReqOf
<1>2. /\ (phase = "active")' = (phase = "active") /\ Ready' = Ready
  BY ReadySame
<1>3. CASE /\ spaces' = [spaces EXCEPT ![start[r].link].posted = TRUE]
           /\ Goto(r, "publish")
  <2>1. meetingsBar' = [meetingsBar EXCEPT ![start[r].link].posted = TRUE]
    BY <1>0, <1>3, MeetingsMark
  <2>2. requestBar' = [requestBar EXCEPT ![r].stage = "posted"]
    BY <1>0, <1>3, GotoBar DEF StageOf
  <2> QED
    BY <1>1, <1>2, <2>1, <2>2 DEF Service!Post
<1>4. CASE Answer(r, "meeting_failed") /\ UNCHANGED spaces
  BY <1>0, <1>4, FailureRefuses
<1> QED
  BY <1>3, <1>4 DEF CreatePost

LEMMA PublishAnnounces ==
    ASSUME TypeInv, NEW r \in Starts, PublishWebSocketEvent(r), UNCHANGED confVars
    PROVE  Service!Announce(r)
<1>0. /\ start \in [Starts -> StartRequest] /\ spaces \in Seq(Space)
      /\ start[r].pc = "publish" /\ StageOf(start[r].pc) = "posted"
      /\ start[r].link \in 1..Len(spaces)
  BY DEF TypeInv, StartInv, MeetingInv, StartsFilled, StartFilled, StartRequest,
         PublishWebSocketEvent, StageOf
<1>1. requestBar[r].stage = "posted" /\ requestBar[r].meeting = start[r].link
  BY <1>0, BarOf DEF ReqOf
<1>2. meetingsBar' = [meetingsBar EXCEPT ![start[r].link].announced = TRUE]
  BY <1>0, MeetingsMark DEF PublishWebSocketEvent
<1>3. Service!Reply(r, "ok")
  BY <1>0, AnswerBar DEF PublishWebSocketEvent
<1> QED
  BY <1>1, <1>2, <1>3, ReadySame DEF Service!Announce

LEMMA CallAsks ==
    ASSUME TypeInv, NEW r \in Starts, NEW u \in Users, NEW ch \in Channels, NEW o \in Origins,
           StartCall(r, u, ch, o), UNCHANGED confVars
    PROVE  Service!Ask(r, u, ch)
<1>0. start \in [Starts -> StartRequest] /\ start[r].pc = "idle" /\ UNCHANGED spaces
  BY DEF TypeInv, StartInv, MeetingInv, StartCall, Begun
<1>1. requestBar[r].stage = "idle"
  BY <1>0, BarOf DEF ReqOf, StageOf
<1> DEFINE idle == Service!RequestIdle
<1>2. idle = [stage |-> "idle", user |-> None, chan |-> None, meeting |-> 0,
              reply |-> Service!NotAnswered]
  BY DEF Service!RequestIdle
<1>3. CASE Ready
  <2> DEFINE x == [StartIdle EXCEPT !.pc = "check_open", !.user = u, !.chan = ch,
                                    !.origin = o, !.since = configuration]
             y == [idle EXCEPT !.stage = "asked", !.user = u, !.chan = ch]
  <2>1. start' = [start EXCEPT ![r] = x]
    BY <1>3 DEF StartCall
  <2>2. x.pc = "check_open" /\ x.user = u /\ x.chan = ch /\ x.link = 0 /\ x.reply = NotAnswered
    BY DEF StartIdle
  <2> HIDE DEF x, idle
  <2>3. y = [idle EXCEPT !.stage = "asked", !.user = u, !.chan = ch]
    OBVIOUS
  <2> HIDE DEF y
  <2>4. y = [stage |-> "asked", user |-> u, chan |-> ch, meeting |-> 0,
             reply |-> Service!NotAnswered]
    BY <1>2, <2>3
  <2>5. ReqOf(x) = y
    BY <2>2, <2>4 DEF ReqOf, StageOf, NotAnswered, Service!NotAnswered
  <2>6. requestBar' = [requestBar EXCEPT ![r] = y]
    BY <1>0, <2>1, <2>5, BarMoves
  <2> QED
    BY <1>0, <1>1, <1>3, <2>6, ReadySame, MeetingsSame
       DEF StartCall, Service!Ask, Service!Open, y, idle
<1>4. CASE ~ Ready
  <2> DEFINE x == [StartIdle EXCEPT !.user = u, !.reply = "not_configured"]
             y == [idle EXCEPT !.user = u, !.reply = "not_configured"]
  <2>1. start' = [start EXCEPT ![r] = x]
    BY <1>4 DEF StartCall
  <2>2. x.pc = "idle" /\ x.user = u /\ x.chan = None /\ x.link = 0 /\ x.reply = "not_configured"
    BY DEF StartIdle
  <2> HIDE DEF x, idle
  <2>3. y = [idle EXCEPT !.user = u, !.reply = "not_configured"]
    OBVIOUS
  <2> HIDE DEF y
  <2>4. y = [stage |-> "idle", user |-> u, chan |-> None, meeting |-> 0,
             reply |-> "not_configured"]
    BY <1>2, <2>3
  <2>5. ReqOf(x) = y
    BY <2>2, <2>4 DEF ReqOf, StageOf
  <2>6. requestBar' = [requestBar EXCEPT ![r] = y]
    BY <1>0, <2>1, <2>5, BarMoves
  <2> QED
    BY <1>0, <1>1, <1>4, <2>6, ReadySame, MeetingsSame
       DEF StartCall, Service!Ask, Service!Open, y, idle
<1> QED
  BY <1>3, <1>4

\* A step of the settings shows as Configure, the end of a process as
\* StopServing.
LEMMA SettingsConfigure ==
    ASSUME TypeInv, ConfStep, UNCHANGED <<connectVars, meetingVars>>
    PROVE  Service!Configure
<1>1. phase = "active" => phase' = "active"
  BY DEF ConfStep, AdminSave, HookCall, HookStep, HookLoad, HookLoadFails,
         HookSetConfiguration, HookSetKVStore, ProcessStart, OnActivate, OnActivateEnsureBot,
         Halt
<1>2. (phase = "active")' \in {phase = "active", TRUE}
  BY <1>1
<1>3. Ready' \in BOOLEAN
  BY DEF Ready
<1>4. requestBar' = requestBar /\ meetingsBar' = meetingsBar
  BY DEF meetingVars, requestBar, meetingsBar
<1> QED
  BY <1>2, <1>3, <1>4 DEF Service!Configure

LEMMA StopStops ==
    ASSUME Stop, MeetingKill
    PROVE  Service!StopServing
<1>1. (phase = "active")' = FALSE /\ Ready' \in BOOLEAN
  BY DEF Stop, Halt, Ready
<1>2. requestBar' = [r \in Starts |-> Service!RequestIdle]
  BY DEF MeetingKill, requestBar, StartIdle, StageOf, Service!RequestIdle, NotAnswered,
         Service!NotAnswered
<1>3. meetingsBar' = meetingsBar
  BY MeetingsSame DEF MeetingKill
<1> QED
  BY <1>1, <1>2, <1>3 DEF Service!StopServing

LEMMA StepMaps ==
    ASSUME TypeInv, [Next]_vars
    PROVE  [Service!ServiceNext]_(Service!serviceVars)
<1>u. ASSUME UNCHANGED <<confVars, meetingVars>>
      PROVE  UNCHANGED Service!serviceVars
  BY <1>u, ReadySame DEF meetingVars, requestBar, meetingsBar, Service!serviceVars
<1>1. CASE UNCHANGED vars
  BY <1>1, <1>u DEF vars
<1>2. CASE ConfStep /\ UNCHANGED <<connectVars, meetingVars, severed>>
  BY <1>2, SettingsConfigure DEF Service!ServiceNext
<1>3. CASE Stop /\ ConnectKill /\ MeetingKill /\ UNCHANGED severed
  BY <1>3, StopStops DEF Service!ServiceNext
<1>4. CASE MeetingStep /\ UNCHANGED <<confVars, severed>>
  <2>1. ASSUME NEW r \in Starts, StartStep(r)
        PROVE  Service!Serve(r) \/ UNCHANGED Service!serviceVars
    <3>0. start \in [Starts -> StartRequest]
      BY DEF TypeInv, StartInv, MeetingInv
    <3>1. CASE Hidden(r) /\ UNCHANGED spaces /\ StageOf(start[r].pc) = "asked"
      BY <1>4, <3>0, <3>1, FailureRefuses, ReadySame, MeetingsSame
         DEF Hidden, Service!Serve, Service!serviceVars
    <3>2. CASE Create(r)
      BY <1>4, <3>2, CreateMakes, ReadySame, MeetingsSame DEF Service!Serve, Service!serviceVars
    <3>3. CASE CreatePost(r)
      BY <1>4, <3>3, PostPosts DEF Service!Serve
    <3>4. CASE PublishWebSocketEvent(r)
      BY <1>4, <3>4, PublishAnnounces DEF Service!Serve
    <3> QED
      BY <2>1, <3>1, <3>2, <3>3, <3>4, AskedHidden DEF StartStep
  <2>2. ASSUME NEW r \in Starts, NEW u \in Users, NEW ch \in Channels, NEW o \in Origins,
               StartCall(r, u, ch, o)
        PROVE  Service!ServiceNext
    BY <1>4, <2>2, CallAsks DEF Service!ServiceNext
  <2> QED
    BY <1>4, <2>1, <2>2 DEF MeetingStep, Service!ServiceNext
<1>5. CASE UNCHANGED <<confVars, meetingVars>>
  BY <1>5, <1>u
<1> QED
  BY <1>1, <1>2, <1>3, <1>4, <1>5 DEF Next

\* The server side implements the abstract service: whatever becomes of
\* settings, tokens and processes, a request makes one meeting at most, and
\* posts, announces and answers in this order.
THEOREM ImplementsServiceCorrect == Spec => ImplementsService
<1>1. Init => Service!ServiceInit
  BY InitMaps
<1>2. TypeInv /\ [Next]_vars => [Service!ServiceNext]_(Service!serviceVars)
  BY StepMaps
<1> QED
  BY <1>1, <1>2, TypeInvAlways, PTL DEF Spec, ImplementsService, Service!ServiceSpec
=============================================================================
