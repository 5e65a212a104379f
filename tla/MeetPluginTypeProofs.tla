----------------------- MODULE MeetPluginTypeProofs -----------------------
(***************************************************************************)
(* The type invariant of MeetPlugin, for any numbers of users, requests,   *)
(* grants, keys and settings, and with every kind of failure allowed.      *)
(* Fields of a request hold None until it comes to them, so the types are  *)
(* inductive only together with what a request has in hand by how far it   *)
(* has come.                                                               *)
(***************************************************************************)
EXTENDS MeetPlugin, ConfigurationProofs

(* What a request in flight has in hand *)

ConnectsFilled ==
    \A n \in Connects :
        connect[n].pc # "idle" => connect[n].user \in Users /\ connect[n].state \in States

CallbacksFilled ==
    \A c \in Callbacks :
        /\ callback[c].pc # "idle" =>
             /\ callback[c].grant \in Grants /\ callback[c].key \in Keys
             /\ google[callback[c].grant] # None
             /\ google[callback[c].grant].state \in States
        /\ callback[c].pc \in {"delete", "exchange", "store"} => callback[c].user \in Users

DisconnectsFilled ==
    \A d \in Disconnects : disconnect[d].pc # "idle" => disconnect[d].user \in Users

\* Where a request holds a token.
Holding == {"refresh", "save", "create", "drop_open", "drop", "post", "publish"}

StartFilled(r) ==
    /\ start[r].pc # "idle" => start[r].user \in Users /\ start[r].chan \in Channels
    /\ start[r].pc \notin {"idle", "check_open"} => start[r].key \in Keys
    /\ start[r].pc \in Holding => /\ start[r].tok \in Token
                                  /\ google[start[r].tok.grant] # None
    /\ start[r].pc \in {"post", "publish"} => start[r].link # 0

StartsFilled == \A r \in Starts : StartFilled(r)

TokensBacked ==
    \A u \in Users : tokens[u] # None => google[tokens[u].tok.grant] # None

-----------------------------------------------------------------------------
(* Facts about the parts of the state that several steps need *)

LEMMA OAuthStoreType ==
    ASSUME ConfTypeOK
    PROVE  OAuthStore \in Keys \cup {None}
BY DEF ConfTypeOK, OAuthStore

\* A step of the configuration, seen from the rest of the plugin.
LEMMA ConfStepFrame ==
    ASSUME ConfTypeOK, ConfStep \/ Stop
    PROVE  Latest \in Nat /\ Latest' \in Nat /\ Latest <= Latest'
<1>0. Latest \in Nat /\ (UNCHANGED saves => Latest' = Latest)
  BY DEF ConfTypeOK, Latest
<1>1. ASSUME NEW c \in Settings, AdminSave(c)
      PROVE  Latest' \in Nat /\ Latest <= Latest'
  BY <1>0, <1>1, AdminSaveKeepsVersions DEF Latest
<1> QED
  BY <1>0, <1>1
     DEF ConfStep, HookCall, HookStep, HookLoad, HookLoadFails, HookSetConfiguration,
         HookSetKVStore, ProcessStart, OnActivate, OnActivateEnsureBot, Stop, Halt

ConnectInv ==
    /\ ConnectTypeOK
    /\ ConnectsFilled
    /\ CallbacksFilled
    /\ DisconnectsFilled

MeetingInv ==
    /\ start \in [Starts -> StartRequest]
    /\ spaces \in Seq(Space)
    /\ \A r \in Starts : start[r].since <= Latest /\ start[r].link <= Len(spaces)
    /\ StartsFilled

LEMMA CredentialsType ==
    ASSUME ConfTypeOK
    PROVE  Cfg(configuration).creds \in Credentials \cup {None}
<1>1. configuration # 0 => saves[configuration] \in Settings
  BY DEF ConfTypeOK, Latest
<1> QED
  BY <1>1, ConfigurationAssumption DEF Cfg, ZeroConfiguration, AllSettings

\* How a callback's record changes as it goes on.
LEMMA CallbackGoes ==
    ASSUME callback \in [Callbacks -> CallbackRequest],
           NEW c \in Callbacks,
           NEW pc \in {"delete", "exchange", "store"},
           callback' = [callback EXCEPT ![c].pc = pc]
    PROVE  /\ callback' \in [Callbacks -> CallbackRequest]
           /\ callback'[c].pc = pc
           /\ \A d \in Callbacks :
                /\ d # c => callback'[d] = callback[d]
                /\ callback'[d].grant = callback[d].grant
                /\ callback'[d].key = callback[d].key
                /\ callback'[d].user = callback[d].user
                /\ callback'[d].late = callback[d].late
BY DEF CallbackRequest

LEMMA CallbackFinds ==
    ASSUME callback \in [Callbacks -> CallbackRequest],
           NEW c \in Callbacks, NEW u \in Users,
           callback' = [callback EXCEPT ![c].pc = "delete", ![c].user = u]
    PROVE  /\ callback' \in [Callbacks -> CallbackRequest]
           /\ callback'[c].pc = "delete" /\ callback'[c].user = u
           /\ \A d \in Callbacks :
                /\ d # c => callback'[d] = callback[d]
                /\ callback'[d].grant = callback[d].grant
                /\ callback'[d].key = callback[d].key
                /\ callback'[d].late = callback[d].late
BY DEF CallbackRequest
LEMMA CallbackStops ==
    ASSUME callback \in [Callbacks -> CallbackRequest],
           NEW c \in Callbacks, CallbackEnds(c)
    PROVE  /\ callback' \in [Callbacks -> CallbackRequest]
           /\ callback'[c].pc = "idle"
           /\ \A d \in Callbacks : d # c => callback'[d] = callback[d]
BY DEF CallbackEnds, CallbackIdle, CallbackRequest

LEMMA ConnectStops ==
    ASSUME connect \in [Connects -> ConnectRequest],
           NEW n \in Connects, connect' = [connect EXCEPT ![n] = ConnectIdle]
    PROVE  /\ connect' \in [Connects -> ConnectRequest]
           /\ connect'[n].pc = "idle"
           /\ \A m \in Connects : m # n => connect'[m] = connect[m]
BY DEF ConnectIdle, ConnectRequest

LEMMA ConnectInvStep ==
    ASSUME ConfTypeOK, ConnectInv, ConnectStep
    PROVE  ConnectInv'
<1> USE ConnectAssumption
    DEF ConnectInv, ConnectTypeOK, ConnectsFilled, CallbacksFilled, DisconnectsFilled,
        storeVars, googleVars, requestVars
<1>1. ASSUME NEW n \in Connects, NEW u \in Users, NEW s \in States, ConnectCall(n, u, s)
      PROVE  ConnectInv'
  BY <1>1 DEF ConnectCall, ConnectRequest
<1>2. ASSUME NEW n \in Connects, ConnectStore(n)
      PROVE  ConnectInv'
  <2>1. /\ connect[n].pc = "store" /\ connect[n].user \in Users
        /\ UNCHANGED <<tokens, pages, google, callback, disconnect, spent>>
    BY <1>2 DEF ConnectStore
  <2>2. states' \in [States -> Users \cup {"undrawn", "absent"}]
    BY <1>2, <2>1 DEF ConnectStore
  <2>3. connect' \in [Connects -> ConnectRequest] /\ ConnectsFilled'
    <3>1. CASE connect' = [connect EXCEPT ![n] = ConnectIdle]
      BY <3>1, ConnectStops
    <3>2. CASE connect' = [connect EXCEPT ![n].pc = "redirect"]
      BY <3>2, <2>1 DEF ConnectRequest
    <3> QED
      BY <1>2, <3>1, <3>2 DEF ConnectStore
  <2> QED
    BY <2>1, <2>2, <2>3
<1>3. ASSUME NEW n \in Connects, ConnectRedirect(n)
      PROVE  ConnectInv'
  <2>1. pages' \in [States -> Page \cup {None}]
    BY <1>3, CredentialsType DEF ConnectRedirect, Page
  <2> QED
    BY <1>3, <2>1, ConnectStops DEF ConnectRedirect
<1>4. ASSUME NEW s \in States, NEW g \in Grants, NEW scope \in BOOLEAN, Consent(s, g, scope)
      PROVE  ConnectInv'
  <2>1. pages[s] \in Page
    BY <1>4 DEF Consent
  <2>2. /\ google[g] = None
        /\ google' \in [Grants -> Grant \cup {None}]
        /\ \A f \in Grants : f # g => google'[f] = google[f]
    BY <1>4, <2>1 DEF Consent, Page, Grant
  <2> QED
    BY <1>4, <2>2 DEF Consent
<1>5. ASSUME NEW g \in Grants, GoogleRevoke(g)
      PROVE  ConnectInv'
  <2>1. /\ google' \in [Grants -> Grant \cup {None}]
        /\ \A f \in Grants : google[f] # None =>
             google'[f] # None /\ google'[f].state = google[f].state
    BY <1>5 DEF GoogleRevoke, Grant
  <2> QED
    BY <1>5, <2>1 DEF GoogleRevoke
<1>6. ASSUME NEW s \in States, StateExpire(s)
      PROVE  ConnectInv'
  BY <1>6 DEF StateExpire
<1>7. ASSUME NEW c \in Callbacks, NEW g \in Grants, CallbackCall(c, g)
      PROVE  ConnectInv'
  <2>1. callback' \in [Callbacks -> CallbackRequest]
    BY <1>7, OAuthStoreType DEF CallbackCall, CallbackRequest
  <2>2. google[g].state \in States
    BY <1>7 DEF CallbackCall, Grant
  <2> QED
    BY <1>7, <2>1, <2>2, OAuthStoreType DEF CallbackCall
<1>8. ASSUME NEW c \in Callbacks, CallbackGetState(c)
      PROVE  ConnectInv'
  <2>1. CASE CallbackEnds(c)
    BY <1>8, <2>1, CallbackStops DEF CallbackGetState
  <2>2. CASE /\ Pending(CallbackState(c))
             /\ callback' = [callback EXCEPT ![c].pc = "delete",
                                             ![c].user = states[CallbackState(c)]]
    <3>1. states[CallbackState(c)] \in Users
      BY <2>2 DEF Pending
    <3>2. /\ callback[c].pc = "get"
          /\ UNCHANGED <<tokens, states, pages, google, connect, disconnect, spent>>
      BY <1>8 DEF CallbackGetState
    <3>3. /\ callback' \in [Callbacks -> CallbackRequest]
          /\ callback'[c].pc = "delete" /\ callback'[c].user \in Users
          /\ \A d \in Callbacks : /\ d # c => callback'[d] = callback[d]
                                  /\ callback'[d].grant = callback[d].grant
                                  /\ callback'[d].key = callback[d].key
      BY <2>2, <3>1, CallbackFinds
    <3> QED
      BY <3>2, <3>3
  <2> QED
    BY <1>8, <2>1, <2>2 DEF CallbackGetState
<1>9. ASSUME NEW c \in Callbacks, CallbackDeleteState(c)
      PROVE  ConnectInv'
  <2>1. CASE CallbackEnds(c) /\ UNCHANGED <<states, spent>>
    BY <1>9, <2>1, CallbackStops DEF CallbackDeleteState
  <2>2. CASE /\ states' = [states EXCEPT ![CallbackState(c)] = "absent"]
             /\ spent' = spent \cup {CallbackState(c)}
             /\ callback' = [callback EXCEPT ![c].pc = "exchange"]
    <3>1. /\ callback[c].pc = "delete"
          /\ UNCHANGED <<tokens, pages, google, connect, disconnect>>
      BY <1>9 DEF CallbackDeleteState
    <3>2. states' \in [States -> Users \cup {"undrawn", "absent"}] /\ spent' \subseteq States
      BY <2>2, <3>1 DEF CallbackState
    <3>3. /\ callback' \in [Callbacks -> CallbackRequest]
          /\ callback'[c].pc = "exchange" /\ callback'[c].user = callback[c].user
          /\ \A d \in Callbacks : /\ d # c => callback'[d] = callback[d]
                                  /\ callback'[d].grant = callback[d].grant
                                  /\ callback'[d].key = callback[d].key
      BY <2>2, CallbackGoes
    <3> QED
      BY <3>1, <3>2, <3>3
  <2> QED
    BY <1>9, <2>1, <2>2 DEF CallbackDeleteState
<1>10. ASSUME NEW c \in Callbacks, CallbackExchange(c)
       PROVE  ConnectInv'
  <2>1. /\ google' \in [Grants -> Grant \cup {None}]
        /\ \A f \in Grants : google[f] # None =>
             google'[f] # None /\ google'[f].state = google[f].state
    BY <1>10 DEF CallbackExchange, Grant
  <2>2. CASE CallbackEnds(c)
    BY <1>10, <2>1, <2>2, CallbackStops DEF CallbackExchange
  <2>3. CASE callback' = [callback EXCEPT ![c].pc = "store"]
    <3>1. /\ callback[c].pc = "exchange"
          /\ UNCHANGED <<tokens, states, pages, connect, disconnect, spent>>
      BY <1>10 DEF CallbackExchange
    <3>2. /\ callback' \in [Callbacks -> CallbackRequest]
          /\ callback'[c].pc = "store" /\ callback'[c].user = callback[c].user
          /\ \A d \in Callbacks : /\ d # c => callback'[d] = callback[d]
                                  /\ callback'[d].grant = callback[d].grant
                                  /\ callback'[d].key = callback[d].key
      BY <2>3, CallbackGoes
    <3> QED
      BY <2>1, <3>1, <3>2
  <2> QED
    BY <1>10, <2>2, <2>3 DEF CallbackExchange
<1>11. ASSUME NEW c \in Callbacks, CallbackStore(c)
       PROVE  ConnectInv'
  <2>1. tokens' \in [Users -> Blob \cup {None}]
    BY <1>11 DEF CallbackStore, Blob, Token
  <2> QED
    BY <1>11, <2>1, CallbackStops DEF CallbackStore
<1> QED
  BY <1>1, <1>2, <1>3, <1>4, <1>5, <1>6, <1>7, <1>8, <1>9, <1>10, <1>11 DEF ConnectStep

-----------------------------------------------------------------------------
(* How the record of a request to start a meeting changes *)

StartPc == {"idle", "check_open", "check_get", "check_purge", "admit", "use_open",
            "use_get", "use_purge", "refresh", "save", "create", "drop_open", "drop",
            "post", "publish"}

LEMMA AnswerType ==
    ASSUME start \in [Starts -> StartRequest], NEW r \in Starts,
           NEW reply \in Refusals \cup {"ok"}, Answer(r, reply)
    PROVE  /\ start' \in [Starts -> StartRequest]
           /\ start'[r].pc = "idle" /\ start'[r].since = 0 /\ start'[r].link = 0
           /\ \A q \in Starts : q # r => start'[q] = start[q]
BY DEF Answer, StartIdle, StartRequest

LEMMA GotoType ==
    ASSUME start \in [Starts -> StartRequest], NEW r \in Starts,
           NEW pc \in StartPc, Goto(r, pc)
    PROVE  /\ start' \in [Starts -> StartRequest]
           /\ start'[r].pc = pc
           /\ \A q \in Starts :
                /\ q # r => start'[q] = start[q]
                /\ start'[q].user = start[q].user /\ start'[q].chan = start[q].chan
                /\ start'[q].key = start[q].key /\ start'[q].tok = start[q].tok
                /\ start'[q].since = start[q].since /\ start'[q].link = start[q].link
BY DEF Goto, StartRequest, StartPc

LEMMA StartMoves ==
    ASSUME start \in [Starts -> StartRequest], NEW r \in Starts, NEW x \in StartRequest,
           start' = [start EXCEPT ![r] = x]
    PROVE  /\ start' \in [Starts -> StartRequest]
           /\ start'[r] = x
           /\ \A q \in Starts : q # r => start'[q] = start[q]
OBVIOUS

LEMMA GotoKeyType ==
    ASSUME start \in [Starts -> StartRequest], NEW r \in Starts,
           NEW pc \in StartPc, NEW key \in Keys,
           start' = [start EXCEPT ![r].pc = pc, ![r].key = key]
    PROVE  /\ start' \in [Starts -> StartRequest]
           /\ start'[r].pc = pc /\ start'[r].key = key
           /\ start'[r].user = start[r].user /\ start'[r].chan = start[r].chan
           /\ start'[r].tok = start[r].tok
           /\ start'[r].since = start[r].since /\ start'[r].link = start[r].link
           /\ \A q \in Starts : q # r => start'[q] = start[q]
<1> DEFINE x == [start[r] EXCEPT !.pc = pc, !.key = key]
<1>1. start[r] \in StartRequest /\ start' = [start EXCEPT ![r] = x]
  OBVIOUS
<1>2. /\ x \in StartRequest
      /\ x.pc = pc /\ x.key = key /\ x.user = start[r].user /\ x.chan = start[r].chan
      /\ x.tok = start[r].tok /\ x.since = start[r].since /\ x.link = start[r].link
  BY <1>1 DEF StartRequest, StartPc
<1> HIDE DEF x
<1> QED
  BY <1>1, <1>2, StartMoves

LEMMA GotoTokType ==
    ASSUME start \in [Starts -> StartRequest], NEW r \in Starts,
           NEW pc \in StartPc, NEW tok \in Token,
           start' = [start EXCEPT ![r].pc = pc, ![r].tok = tok]
    PROVE  /\ start' \in [Starts -> StartRequest]
           /\ start'[r].pc = pc /\ start'[r].tok = tok
           /\ start'[r].user = start[r].user /\ start'[r].chan = start[r].chan
           /\ start'[r].key = start[r].key
           /\ start'[r].since = start[r].since /\ start'[r].link = start[r].link
           /\ \A q \in Starts : q # r => start'[q] = start[q]
<1> DEFINE x == [start[r] EXCEPT !.pc = pc, !.tok = tok]
<1>1. start[r] \in StartRequest /\ start' = [start EXCEPT ![r] = x]
  OBVIOUS
<1>2. /\ x \in StartRequest
      /\ x.pc = pc /\ x.tok = tok /\ x.user = start[r].user /\ x.chan = start[r].chan
      /\ x.key = start[r].key /\ x.since = start[r].since /\ x.link = start[r].link
  BY <1>1 DEF StartRequest, StartPc
<1> HIDE DEF x
<1> QED
  BY <1>1, <1>2, StartMoves

\* A refreshed token is still one of the same grant.
LEMMA RefreshedType ==
    ASSUME start \in [Starts -> StartRequest], NEW r \in Starts,
           start[r].tok \in Token, NEW rt \in 1..MaxRefresh,
           start' = [start EXCEPT ![r].pc = "save", ![r].tok.rt = rt]
    PROVE  /\ start' \in [Starts -> StartRequest]
           /\ start'[r].pc = "save"
           /\ start'[r].tok \in Token /\ start'[r].tok.grant = start[r].tok.grant
           /\ start'[r].tok.rt = rt
           /\ start'[r].user = start[r].user /\ start'[r].chan = start[r].chan
           /\ start'[r].key = start[r].key
           /\ start'[r].since = start[r].since /\ start'[r].link = start[r].link
           /\ \A q \in Starts : q # r => start'[q] = start[q]
<1> DEFINE tok == [start[r].tok EXCEPT !.rt = rt]
           x == [start[r] EXCEPT !.pc = "save", !.tok = tok]
<1>1. tok \in Token /\ tok.grant = start[r].tok.grant /\ tok.rt = rt
  BY DEF Token
<1>2. /\ start[r] \in StartRequest
      /\ start' = [start EXCEPT ![r] = [start[r] EXCEPT !.pc = "save", !.tok.rt = rt]]
  OBVIOUS
<1>3. [start[r] EXCEPT !.pc = "save", !.tok.rt = rt] = x
  OBVIOUS
<1>4. start' = [start EXCEPT ![r] = x]
  BY <1>2, <1>3
<1> HIDE DEF tok
<1>5. /\ x \in StartRequest
      /\ x.pc = "save" /\ x.tok = tok /\ x.user = start[r].user /\ x.chan = start[r].chan
      /\ x.key = start[r].key /\ x.since = start[r].since /\ x.link = start[r].link
  BY <1>1, <1>2 DEF StartRequest
<1> HIDE DEF x
<1>6. /\ start' \in [Starts -> StartRequest] /\ start'[r] = x
      /\ \A q \in Starts : q # r => start'[q] = start[q]
  BY <1>4, <1>5, StartMoves
<1> QED
  BY <1>1, <1>5, <1>6

-----------------------------------------------------------------------------
(* Starting meetings *)

\* Google never forgets a grant, nor whose it is and which page it came from.
GrantsKept ==
    \A g \in Grants : google[g] # None =>
        /\ google'[g] # None
        /\ google'[g].owner = google[g].owner /\ google'[g].state = google[g].state

SpacesKept == spaces' \in Seq(Space) /\ Len(spaces) <= Len(spaces')

LEMMA OneMoves ==
    ASSUME MeetingInv, ConfTypeOK, UNCHANGED saves, GrantsKept, SpacesKept,
           NEW r \in Starts,
           start' \in [Starts -> StartRequest],
           \A q \in Starts : q # r => start'[q] = start[q],
           StartFilled(r)', start'[r].since <= Latest, start'[r].link <= Len(spaces')
    PROVE  MeetingInv'
<1>1. ASSUME NEW q \in Starts
      PROVE  StartFilled(q)' /\ start'[q].since <= Latest /\ start'[q].link <= Len(spaces')
  <2>1. CASE q = r
    BY <2>1
  <2>2. CASE q # r
    <3>1. start'[q] = start[q] /\ StartFilled(q)
      BY <2>2 DEF MeetingInv, StartsFilled
    <3>2. start[q].link \in Nat /\ start[q].link <= Len(spaces')
      BY DEF MeetingInv, SpacesKept, StartRequest
    <3>3. StartFilled(q)'
      BY <3>1 DEF StartFilled, GrantsKept, Token
    <3> QED
      BY <3>1, <3>2, <3>3 DEF MeetingInv
  <2> QED
    BY <2>1, <2>2
<1> QED
  BY <1>1 DEF MeetingInv, StartsFilled, SpacesKept, Latest

LEMMA AnswerKeeps ==
    ASSUME MeetingInv, ConfTypeOK, UNCHANGED saves, GrantsKept, SpacesKept,
           NEW r \in Starts, NEW reply \in Refusals \cup {"ok"}, Answer(r, reply)
    PROVE  MeetingInv'
<1>1. /\ start' \in [Starts -> StartRequest]
      /\ start'[r].pc = "idle" /\ start'[r].since = 0 /\ start'[r].link = 0
      /\ \A q \in Starts : q # r => start'[q] = start[q]
  BY AnswerType DEF MeetingInv
<1>2. StartFilled(r)'
  BY <1>1 DEF StartFilled, Holding
<1>3. Latest \in Nat /\ Len(spaces') \in Nat
  BY DEF ConfTypeOK, Latest, SpacesKept
<1> QED
  BY <1>1, <1>2, <1>3, OneMoves

LEMMA GotoKeeps ==
    ASSUME MeetingInv, ConfTypeOK, UNCHANGED saves, GrantsKept, SpacesKept,
           NEW r \in Starts, NEW pc \in StartPc \ {"idle", "check_open"}, Goto(r, pc),
           start[r].pc \notin {"idle", "check_open"},
           pc \in Holding => start[r].pc \in Holding,
           pc \in {"post", "publish"} => start[r].pc \in {"post", "publish"}
    PROVE  MeetingInv'
<1>1. /\ start' \in [Starts -> StartRequest]
      /\ start'[r].pc = pc
      /\ start'[r].user = start[r].user /\ start'[r].chan = start[r].chan
      /\ start'[r].key = start[r].key /\ start'[r].tok = start[r].tok
      /\ start'[r].since = start[r].since /\ start'[r].link = start[r].link
      /\ \A q \in Starts : q # r => start'[q] = start[q]
  BY GotoType DEF MeetingInv
<1>2. /\ StartFilled(r) /\ start[r].link \in Nat
      /\ start[r].since <= Latest /\ start[r].link <= Len(spaces)
  BY DEF MeetingInv, StartsFilled, StartRequest
<1>3. StartFilled(r)'
  BY <1>1, <1>2 DEF StartFilled, GrantsKept, Token
<1>4. Len(spaces) \in Nat /\ Len(spaces') \in Nat /\ start[r].link <= Len(spaces')
  BY <1>2 DEF MeetingInv, SpacesKept
<1> QED
  BY <1>1, <1>2, <1>3, <1>4, OneMoves

\* What starting a meeting may do to the rest of the plugin.
LEMMA ConnectInvKept ==
    ASSUME ConnectInv, GrantsKept,
           google' \in [Grants -> Grant \cup {None}],
           tokens' \in [Users -> Blob \cup {None}],
           UNCHANGED <<states, pages, requestVars, spent>>
    PROVE  ConnectInv'
<1>1. UNCHANGED <<connect, callback, disconnect>>
  BY DEF requestVars
<1>2. CallbacksFilled'
  BY <1>1 DEF ConnectInv, CallbacksFilled, GrantsKept
<1> QED
  BY <1>1, <1>2 DEF ConnectInv, ConnectTypeOK, ConnectsFilled, DisconnectsFilled

StartInv == ConnectInv /\ MeetingInv /\ TokensBacked

\* A token that is stored is one of a grant Google knows.
LEMMA TokenPut ==
    ASSUME ConnectTypeOK, TokensBacked, UNCHANGED google,
           NEW u \in Users, NEW key \in Keys, NEW tok \in Token, google[tok.grant] # None,
           tokens' = [tokens EXCEPT ![u] = [key |-> key, tok |-> tok]]
    PROVE  tokens' \in [Users -> Blob \cup {None}] /\ TokensBacked'
<1>1. [key |-> key, tok |-> tok] \in Blob
  BY DEF Blob
<1> QED
  BY <1>1 DEF ConnectTypeOK, TokensBacked

LEMMA TokenGone ==
    ASSUME ConnectTypeOK, TokensBacked, UNCHANGED google,
           NEW u \in Users, tokens' = [tokens EXCEPT ![u] = None]
    PROVE  tokens' \in [Users -> Blob \cup {None}] /\ TokensBacked'
BY DEF ConnectTypeOK, TokensBacked

LEMMA StartInvStep ==
    ASSUME ConfTypeOK, StartInv, UNCHANGED confVars, MeetingStep
    PROVE  StartInv' /\ GrantsKept
<1>0. /\ ConnectInv /\ MeetingInv /\ TokensBacked /\ ConnectTypeOK
      /\ UNCHANGED saves /\ Latest' = Latest /\ Latest \in Nat
      /\ start \in [Starts -> StartRequest] /\ spaces \in Seq(Space)
      /\ \A r \in Starts : StartFilled(r)
  BY DEF StartInv, ConnectInv, confVars, Latest, ConfTypeOK, MeetingInv, StartsFilled
<1>g. UNCHANGED google => GrantsKept
  BY DEF GrantsKept
<1>s. UNCHANGED spaces => SpacesKept
  BY <1>0 DEF SpacesKept
<1>c. UNCHANGED connectVars => ConnectInv' /\ TokensBacked' /\ GrantsKept
  BY <1>0, <1>g DEF connectVars, storeVars, googleVars, requestVars, ConnectInv,
     ConnectTypeOK, ConnectsFilled, CallbacksFilled, DisconnectsFilled, TokensBacked
<1>1. ASSUME NEW r \in Starts, NEW u \in Users, NEW ch \in Channels, NEW o \in Origins,
             StartCall(r, u, ch, o)
      PROVE  StartInv' /\ GrantsKept
  <2> DEFINE x == IF Ready
                  THEN [StartIdle EXCEPT !.pc = "check_open", !.user = u, !.chan = ch,
                                         !.origin = o, !.since = configuration]
                  ELSE [StartIdle EXCEPT !.user = u, !.reply = "not_configured"]
  <2>1. UNCHANGED connectVars /\ UNCHANGED spaces /\ start' = [start EXCEPT ![r] = x]
    BY <1>1 DEF StartCall
  <2>2. /\ x \in StartRequest
        /\ x.pc \in {"idle", "check_open"} /\ x.user \in Users
        /\ (x.pc = "check_open" => x.chan \in Channels)
        /\ x.since <= Latest /\ x.link = 0
    <3>1. StartIdle \in StartRequest /\ StartIdle.pc = "idle"
         /\ StartIdle.link = 0 /\ StartIdle.since = 0
      BY DEF StartIdle, StartRequest
    <3>2. configuration \in Nat /\ configuration <= Latest
      BY <1>0 DEF ConfTypeOK
    <3>3. CASE Ready
      BY <1>0, <3>1, <3>2, <3>3 DEF StartRequest
    <3>4. CASE ~ Ready
      <4>1. x = [StartIdle EXCEPT !.user = u, !.reply = "not_configured"]
        BY <3>4
      <4> HIDE DEF x
      <4>2. x \in StartRequest
        BY <3>1, <4>1 DEF StartRequest, Refusals
      <4>3. x.pc = "idle" /\ x.since = 0 /\ x.link = 0 /\ x.user = u
        BY <3>1, <4>1 DEF StartRequest
      <4> QED
        BY <1>0, <4>2, <4>3
    <3> QED
      BY <3>3, <3>4
  <2> HIDE DEF x
  <2>3. /\ start' \in [Starts -> StartRequest] /\ start'[r] = x
        /\ \A q \in Starts : q # r => start'[q] = start[q]
    BY <1>0, <2>1, <2>2, StartMoves
  <2>4. StartFilled(r)'
    BY <2>2, <2>3 DEF StartFilled, Holding
  <2>5. GrantsKept /\ SpacesKept /\ start'[r].since <= Latest /\ start'[r].link <= Len(spaces')
    BY <1>0, <1>c, <1>s, <2>1, <2>2, <2>3
  <2> QED
    BY <1>0, <1>c, <2>1, <2>3, <2>4, <2>5, OneMoves DEF StartInv
<1>2. ASSUME NEW r \in Starts,
             \/ CheckOpen(r) \/ UseOpen(r)
      PROVE  StartInv' /\ GrantsKept
  <2>1. /\ UNCHANGED connectVars /\ UNCHANGED spaces
        /\ start[r].pc \in {"check_open", "use_open"}
        /\ \/ \E reply \in Refusals : Answer(r, reply)
           \/ /\ OAuthStore # None
              /\ \E pc \in {"check_get", "use_get"} :
                   start' = [start EXCEPT ![r].pc = pc, ![r].key = OAuthStore]
    BY <1>2 DEF CheckOpen, UseOpen, StoreHandle, Refusals
  <2>2. GrantsKept /\ SpacesKept /\ ConnectInv' /\ TokensBacked'
    BY <1>c, <1>s, <2>1
  <2>3. ASSUME NEW reply \in Refusals, Answer(r, reply)
        PROVE  MeetingInv'
    BY <1>0, <2>2, <2>3, AnswerKeeps
  <2>4. ASSUME OAuthStore # None, NEW pc \in {"check_get", "use_get"},
               start' = [start EXCEPT ![r].pc = pc, ![r].key = OAuthStore]
        PROVE  MeetingInv'
    <3>1. OAuthStore \in Keys /\ pc \in StartPc
      BY <2>4, OAuthStoreType DEF StartPc
    <3>2. /\ start' \in [Starts -> StartRequest]
          /\ start'[r].pc = pc /\ start'[r].key \in Keys
          /\ start'[r].user = start[r].user /\ start'[r].chan = start[r].chan
          /\ start'[r].since = start[r].since /\ start'[r].link = start[r].link
          /\ \A q \in Starts : q # r => start'[q] = start[q]
      BY <1>0, <2>4, <3>1, GotoKeyType
    <3>3. StartFilled(r)'
      BY <1>0, <2>1, <2>4, <3>2 DEF StartFilled, Holding
    <3>4. start'[r].since <= Latest /\ start'[r].link <= Len(spaces')
      BY <1>0, <2>1, <3>2 DEF MeetingInv
    <3> QED
      BY <1>0, <2>2, <3>2, <3>3, <3>4, OneMoves
  <2> QED
    BY <2>1, <2>2, <2>3, <2>4 DEF StartInv
<1>3. ASSUME NEW r \in Starts,
             \/ CheckGet(r) \/ Admit(r) \/ DropOpen(r)
      PROVE  StartInv' /\ GrantsKept
  <2>1. /\ UNCHANGED connectVars /\ UNCHANGED spaces
        /\ \/ \E reply \in Refusals : Answer(r, reply)
           \/ /\ start[r].pc \in {"check_get", "admit"}
              /\ \E pc \in {"admit", "check_purge", "use_open"} : Goto(r, pc)
           \/ start[r].pc = "drop_open" /\ Goto(r, "drop")
    BY <1>3 DEF CheckGet, Admit, DropOpen, Refusals
  <2>2. GrantsKept /\ SpacesKept /\ ConnectInv' /\ TokensBacked'
    BY <1>c, <1>s, <2>1
  <2>3. ASSUME NEW reply \in Refusals, Answer(r, reply)
        PROVE  MeetingInv'
    BY <1>0, <2>2, <2>3, AnswerKeeps
  <2>4. ASSUME start[r].pc \in {"check_get", "admit"},
               NEW pc \in {"admit", "check_purge", "use_open"}, Goto(r, pc)
        PROVE  MeetingInv'
    BY <1>0, <2>2, <2>4, GotoKeeps DEF StartPc, Holding
  <2>5. ASSUME start[r].pc = "drop_open", Goto(r, "drop")
        PROVE  MeetingInv'
    BY <1>0, <2>2, <2>5, GotoKeeps DEF StartPc, Holding
  <2> QED
    BY <2>1, <2>2, <2>3, <2>4, <2>5 DEF StartInv
<1>4. ASSUME NEW r \in Starts, UseGet(r)
      PROVE  StartInv' /\ GrantsKept
  <2>1. /\ UNCHANGED connectVars /\ UNCHANGED spaces /\ start[r].pc = "use_get"
        /\ \/ \E reply \in Refusals : Answer(r, reply)
           \/ Goto(r, "use_purge")
           \/ /\ Stored(r) # None
              /\ \E pc \in {"refresh", "create"} :
                   start' = [start EXCEPT ![r].pc = pc, ![r].tok = Stored(r).tok]
    BY <1>4 DEF UseGet, Refusals
  <2>2. GrantsKept /\ SpacesKept /\ ConnectInv' /\ TokensBacked' /\ google' = google
    BY <1>c, <1>s, <2>1 DEF connectVars, googleVars
  <2>3. ASSUME NEW reply \in Refusals, Answer(r, reply)
        PROVE  MeetingInv'
    BY <1>0, <2>2, <2>3, AnswerKeeps
  <2>4. ASSUME Goto(r, "use_purge")
        PROVE  MeetingInv'
    BY <1>0, <2>1, <2>2, <2>4, GotoKeeps DEF StartPc, Holding
  <2>5. ASSUME Stored(r) # None, NEW pc \in {"refresh", "create"},
               start' = [start EXCEPT ![r].pc = pc, ![r].tok = Stored(r).tok]
        PROVE  MeetingInv'
    <3>1. StartFilled(r) /\ start[r].user \in Users
      BY <1>0, <2>1 DEF StartFilled
    <3>2. Stored(r).tok \in Token /\ google[Stored(r).tok.grant] # None /\ pc \in StartPc
      BY <1>0, <2>5, <3>1 DEF Stored, ConnectTypeOK, Blob, TokensBacked, StartPc
    <3>3. /\ start' \in [Starts -> StartRequest]
          /\ start'[r].pc = pc /\ start'[r].tok = Stored(r).tok
          /\ start'[r].user = start[r].user /\ start'[r].chan = start[r].chan
          /\ start'[r].key = start[r].key
          /\ start'[r].since = start[r].since /\ start'[r].link = start[r].link
          /\ \A q \in Starts : q # r => start'[q] = start[q]
      BY <1>0, <2>5, <3>2, GotoTokType
    <3>4. StartFilled(r)'
      BY <2>1, <2>2, <2>5, <3>1, <3>2, <3>3 DEF StartFilled, Holding
    <3>5. start'[r].since <= Latest /\ start'[r].link <= Len(spaces')
      BY <1>0, <2>1, <3>3 DEF MeetingInv
    <3> QED
      BY <1>0, <2>2, <3>3, <3>4, <3>5, OneMoves
  <2> QED
    BY <2>1, <2>2, <2>3, <2>4, <2>5 DEF StartInv
<1>5. ASSUME NEW r \in Starts, CheckPurge(r) \/ UsePurge(r) \/ Drop(r)
      PROVE  StartInv' /\ GrantsKept
  <2>1. /\ UNCHANGED <<states, googleVars, requestVars, spent, spaces>>
        /\ start[r].pc # "idle"
        /\ \E reply \in Refusals : Answer(r, reply)
        /\ tokens' = [tokens EXCEPT ![start[r].user] = None] \/ UNCHANGED tokens
    BY <1>5 DEF CheckPurge, UsePurge, Purge, Drop, Refusals
  <2>2. UNCHANGED google /\ UNCHANGED pages
    BY <2>1 DEF googleVars
  <2>3. start[r].user \in Users
    BY <1>0, <2>1 DEF StartFilled
  <2>4. tokens' \in [Users -> Blob \cup {None}] /\ TokensBacked'
    <3>1. CASE UNCHANGED tokens
      BY <1>0, <2>2, <3>1 DEF ConnectTypeOK, TokensBacked
    <3> QED
      BY <1>0, <2>1, <2>2, <2>3, <3>1, TokenGone
  <2>5. GrantsKept /\ SpacesKept
    BY <1>g, <1>s, <2>1, <2>2
  <2>6. ConnectInv'
    BY <1>0, <2>1, <2>2, <2>4, <2>5, ConnectInvKept DEF ConnectTypeOK
  <2> QED
    BY <1>0, <2>1, <2>4, <2>5, <2>6, AnswerKeeps DEF StartInv
<1>6. ASSUME NEW r \in Starts, Save(r)
      PROVE  StartInv' /\ GrantsKept
  <2>1. /\ UNCHANGED <<states, googleVars, requestVars, spent, spaces>>
        /\ start[r].pc = "save"
        /\ Goto(r, "create")
        /\ \/ tokens' = [tokens EXCEPT ![start[r].user] =
                           [key |-> start[r].key, tok |-> start[r].tok]]
           \/ UNCHANGED tokens
    BY <1>6 DEF Save
  <2>2. UNCHANGED google /\ UNCHANGED pages
    BY <2>1 DEF googleVars
  <2>3. /\ start[r].user \in Users /\ start[r].key \in Keys
        /\ start[r].tok \in Token /\ google[start[r].tok.grant] # None
    BY <1>0, <2>1 DEF StartFilled, Holding
  <2>4. tokens' \in [Users -> Blob \cup {None}] /\ TokensBacked'
    <3>1. CASE UNCHANGED tokens
      BY <1>0, <2>2, <3>1 DEF ConnectTypeOK, TokensBacked
    <3> QED
      BY <1>0, <2>1, <2>2, <2>3, <3>1, TokenPut
  <2>5. GrantsKept /\ SpacesKept
    BY <1>g, <1>s, <2>1, <2>2
  <2>6. ConnectInv'
    BY <1>0, <2>1, <2>2, <2>4, <2>5, ConnectInvKept DEF ConnectTypeOK
  <2>7. MeetingInv'
    BY <1>0, <2>1, <2>5, GotoKeeps DEF StartPc, Holding
  <2> QED
    BY <2>4, <2>5, <2>6, <2>7 DEF StartInv
<1>7. ASSUME NEW r \in Starts, Refresh(r)
      PROVE  StartInv' /\ GrantsKept
  <2> DEFINE t == start[r].tok
  <2>1. /\ UNCHANGED <<tokens, states, pages, requestVars, spent, spaces>>
        /\ start[r].pc = "refresh"
        /\ \/ \E rt \in 1..MaxRefresh :
                /\ google' = [google EXCEPT ![t.grant].rt = rt]
                /\ \/ start' = [start EXCEPT ![r].pc = "save", ![r].tok.rt = rt]
                   \/ Answer(r, "meeting_failed")
           \/ UNCHANGED google /\ Answer(r, "meeting_failed")
    BY <1>7 DEF Refresh, storeVars
  <2>2. /\ StartFilled(r) /\ t \in Token /\ t.grant \in Grants
        /\ google[t.grant] # None /\ google[t.grant] \in Grant
    BY <1>0, <2>1 DEF StartFilled, Holding, Token, ConnectTypeOK
  <2>3. ASSUME NEW rt \in 1..MaxRefresh, google' = [google EXCEPT ![t.grant].rt = rt]
        PROVE  google' \in [Grants -> Grant \cup {None}] /\ GrantsKept
    <3>1. google' = [google EXCEPT ![t.grant] = [google[t.grant] EXCEPT !.rt = rt]]
      BY <2>3
    <3>2. LET x == [google[t.grant] EXCEPT !.rt = rt]
          IN  /\ x \in Grant /\ x.owner = google[t.grant].owner
              /\ x.state = google[t.grant].state
      BY <2>2 DEF Grant
    <3> QED
      BY <1>0, <2>2, <3>1, <3>2, ConnectAssumption DEF GrantsKept, ConnectTypeOK
  <2>4. google' \in [Grants -> Grant \cup {None}] /\ GrantsKept
    BY <1>0, <1>g, <2>1, <2>3 DEF ConnectTypeOK
  <2>5. ConnectInv' /\ TokensBacked'
    <3>1. TokensBacked'
      BY <1>0, <2>1, <2>4 DEF TokensBacked, GrantsKept, ConnectTypeOK, Blob, Token
    <3> QED
      BY <1>0, <2>1, <2>4, <3>1, ConnectInvKept DEF ConnectTypeOK
  <2>6. SpacesKept
    BY <1>s, <2>1
  <2>7. ASSUME Answer(r, "meeting_failed")
        PROVE  MeetingInv'
    BY <1>0, <2>4, <2>6, <2>7, AnswerKeeps DEF Refusals
  <2>8. ASSUME NEW rt \in 1..MaxRefresh,
               start' = [start EXCEPT ![r].pc = "save", ![r].tok.rt = rt]
        PROVE  MeetingInv'
    <3>1. /\ start' \in [Starts -> StartRequest]
          /\ start'[r].pc = "save"
          /\ start'[r].tok \in Token /\ start'[r].tok.grant = t.grant
          /\ start'[r].user = start[r].user /\ start'[r].chan = start[r].chan
          /\ start'[r].key = start[r].key
          /\ start'[r].since = start[r].since /\ start'[r].link = start[r].link
          /\ \A q \in Starts : q # r => start'[q] = start[q]
      BY <1>0, <2>2, <2>8, RefreshedType
    <3>2. StartFilled(r)'
      BY <2>1, <2>2, <2>4, <3>1 DEF StartFilled, Holding, GrantsKept
    <3>3. start'[r].since <= Latest /\ start'[r].link <= Len(spaces')
      BY <1>0, <2>1, <3>1 DEF MeetingInv
    <3> QED
      BY <1>0, <2>4, <2>6, <3>1, <3>2, <3>3, OneMoves
  <2> QED
    BY <2>1, <2>4, <2>5, <2>7, <2>8 DEF StartInv
<1>8. ASSUME NEW r \in Starts, Create(r)
      PROVE  StartInv' /\ GrantsKept
  <2> DEFINE space == [account |-> google[start[r].tok.grant].owner,
                       user |-> start[r].user, chan |-> start[r].chan,
                       posted |-> FALSE, announced |-> FALSE]
  <2>1. /\ UNCHANGED connectVars /\ start[r].pc = "create"
        /\ \/ /\ spaces' = Append(spaces, space)
              /\ \/ start' = [start EXCEPT ![r].pc = "post", ![r].link = Len(spaces) + 1]
                 \/ Answer(r, "meeting_failed")
           \/ Goto(r, "drop_open") /\ UNCHANGED spaces
           \/ Answer(r, "meeting_failed") /\ UNCHANGED spaces
    BY <1>8 DEF Create
  <2>2. /\ start[r].user \in Users /\ start[r].chan \in Channels
        /\ StartFilled(r)
        /\ start[r].tok \in Token /\ google[start[r].tok.grant] \in Grant
    BY <1>0, <2>1 DEF StartFilled, Holding, Token, ConnectTypeOK
  <2>3. space \in Space
    BY <2>2 DEF Grant, Space
  <2> HIDE DEF space
  <2>4. GrantsKept /\ ConnectInv' /\ TokensBacked' /\ google' = google
    BY <1>c, <2>1 DEF connectVars, googleVars
  <2>5. SpacesKept
    BY <1>0, <1>s, <2>1, <2>3 DEF SpacesKept
  <2>6. ASSUME Answer(r, "meeting_failed")
        PROVE  MeetingInv'
    BY <1>0, <2>4, <2>5, <2>6, AnswerKeeps DEF Refusals
  <2>7. ASSUME Goto(r, "drop_open")
        PROVE  MeetingInv'
    BY <1>0, <2>1, <2>4, <2>5, <2>7, GotoKeeps DEF StartPc, Holding
  <2>8. ASSUME spaces' = Append(spaces, space),
               start' = [start EXCEPT ![r].pc = "post", ![r].link = Len(spaces) + 1]
        PROVE  MeetingInv'
    <3> DEFINE link == Len(spaces) + 1
               x == [start[r] EXCEPT !.pc = "post", !.link = link]
    <3>1. Len(spaces) \in Nat /\ link \in Nat /\ link = Len(spaces) + 1 /\ Len(spaces') = link
      BY <1>0, <2>3, <2>8
    <3>0. start' = [start EXCEPT ![r].pc = "post", ![r].link = link]
      BY <2>8
    <3> HIDE DEF link
    <3>2. start[r] \in StartRequest /\ start' = [start EXCEPT ![r] = x]
      BY <1>0, <3>0
    <3>3. /\ x \in StartRequest
          /\ x.pc = "post" /\ x.link = link
          /\ x.user = start[r].user /\ x.chan = start[r].chan
          /\ x.key = start[r].key /\ x.tok = start[r].tok /\ x.since = start[r].since
      BY <3>1, <3>2 DEF StartRequest
    <3> HIDE DEF x
    <3>4. /\ start' \in [Starts -> StartRequest] /\ start'[r] = x
          /\ \A q \in Starts : q # r => start'[q] = start[q]
      BY <1>0, <3>2, <3>3, StartMoves
    <3>5. StartFilled(r)'
      BY <2>1, <2>2, <2>4, <3>1, <3>3, <3>4 DEF StartFilled, Holding
    <3>6. start'[r].since <= Latest /\ start'[r].link <= Len(spaces')
      BY <1>0, <3>1, <3>3, <3>4 DEF MeetingInv
    <3> QED
      BY <1>0, <2>4, <2>5, <3>4, <3>5, <3>6, OneMoves
  <2> QED
    BY <2>1, <2>4, <2>6, <2>7, <2>8 DEF StartInv
<1>9. ASSUME NEW r \in Starts, CreatePost(r) \/ PublishWebSocketEvent(r)
      PROVE  StartInv' /\ GrantsKept
  <2> DEFINE i == start[r].link
  <2>1. /\ UNCHANGED connectVars /\ start[r].pc \in {"post", "publish"}
        /\ \/ spaces' = [spaces EXCEPT ![i].posted = TRUE]
           \/ spaces' = [spaces EXCEPT ![i].announced = TRUE]
           \/ UNCHANGED spaces
        /\ \/ start[r].pc = "post" /\ Goto(r, "publish")
           \/ \E reply \in Refusals \cup {"ok"} : Answer(r, reply)
    BY <1>9 DEF CreatePost, PublishWebSocketEvent, Refusals
  <2>2. i \in 1..Len(spaces) /\ spaces[i] \in Space
    <3>1. i \in Nat /\ i # 0 /\ i <= Len(spaces) /\ Len(spaces) \in Nat
      BY <1>0, <2>1 DEF StartFilled, MeetingInv, StartRequest
    <3> QED
      BY <1>0, <3>1
  <2>3. SpacesKept
    <3>1. ASSUME NEW x \in Space, spaces' = [spaces EXCEPT ![i] = x]
          PROVE  SpacesKept
      BY <1>0, <2>2, <3>1 DEF SpacesKept
    <3>2. CASE spaces' = [spaces EXCEPT ![i].posted = TRUE]
      <4>1. [spaces[i] EXCEPT !.posted = TRUE] \in Space
        BY <2>2 DEF Space
      <4> QED
        BY <3>1, <3>2, <4>1
    <3>3. CASE spaces' = [spaces EXCEPT ![i].announced = TRUE]
      <4>1. [spaces[i] EXCEPT !.announced = TRUE] \in Space
        BY <2>2 DEF Space
      <4> QED
        BY <3>1, <3>3, <4>1
    <3> QED
      BY <1>s, <2>1, <3>2, <3>3
  <2>4. GrantsKept /\ ConnectInv' /\ TokensBacked'
    BY <1>c, <2>1
  <2>5. ASSUME NEW reply \in Refusals \cup {"ok"}, Answer(r, reply)
        PROVE  MeetingInv'
    BY <1>0, <2>3, <2>4, <2>5, AnswerKeeps
  <2>6. ASSUME start[r].pc = "post", Goto(r, "publish")
        PROVE  MeetingInv'
    BY <1>0, <2>3, <2>4, <2>6, GotoKeeps DEF StartPc, Holding
  <2> QED
    BY <2>1, <2>4, <2>5, <2>6 DEF StartInv
<1> QED
  BY <1>1, <1>2, <1>3, <1>4, <1>5, <1>6, <1>7, <1>8, <1>9 DEF MeetingStep, StartStep

-----------------------------------------------------------------------------
(* Connecting and disconnecting, seen from the meetings *)

LEMMA MeetingInvKept ==
    ASSUME MeetingInv, Latest \in Nat, Latest' \in Nat, Latest <= Latest',
           GrantsKept, UNCHANGED meetingVars
    PROVE  MeetingInv'
<1>1. UNCHANGED start /\ UNCHANGED spaces
  BY DEF meetingVars
<1>2. ASSUME NEW r \in Starts
      PROVE  StartFilled(r)' /\ start[r].since <= Latest'
  <2>1. StartFilled(r) /\ start[r].since \in Nat /\ start[r].since <= Latest
    BY DEF MeetingInv, StartsFilled, StartRequest
  <2>2. StartFilled(r)'
    BY <1>1, <2>1 DEF StartFilled, GrantsKept, Token
  <2> QED
    BY <2>1, <2>2
<1> QED
  BY <1>1, <1>2 DEF MeetingInv, StartsFilled

LEMMA ConnectGrantsKept ==
    ASSUME ConnectTypeOK, ConnectStep
    PROVE  GrantsKept
<1>1. ASSUME NEW s \in States, NEW g \in Grants, NEW scope \in BOOLEAN, Consent(s, g, scope)
      PROVE  GrantsKept
  BY <1>1 DEF Consent, GrantsKept, ConnectTypeOK
<1>2. ASSUME NEW g \in Grants, NEW stage \in {"token", "revoked"},
             google' = [google EXCEPT ![g].stage = stage]
      PROVE  GrantsKept
  <2>1. ASSUME NEW f \in Grants, google[f] # None
        PROVE  /\ google'[f] \in Grant
               /\ google'[f].owner = google[f].owner /\ google'[f].state = google[f].state
    <3>1. google[f] \in Grant
      BY <2>1 DEF ConnectTypeOK
    <3>2. google'[f] = google[f] \/ google'[f] = [google[f] EXCEPT !.stage = stage]
      BY <1>2 DEF ConnectTypeOK
    <3> QED
      BY <3>1, <3>2 DEF Grant
  <2> QED
    BY <2>1, ConnectAssumption DEF GrantsKept
<1>3. UNCHANGED google => GrantsKept
  BY DEF GrantsKept
<1>4. ASSUME NEW c \in Callbacks, CallbackExchange(c)
      PROVE  GrantsKept
  <2> DEFINE g == callback[c].grant
  <2>1. google' = google \/ google' = [google EXCEPT ![g].stage = "token"]
    BY <1>4 DEF CallbackExchange
  <2>2. CASE g \in Grants
    BY <1>2, <1>3, <2>1, <2>2
  <2>3. CASE g \notin Grants
    BY <1>3, <2>1, <2>3 DEF ConnectTypeOK, GrantsKept
  <2> QED
    BY <2>2, <2>3
<1>5. ASSUME NEW g \in Grants, GoogleRevoke(g)
      PROVE  GrantsKept
  BY <1>2, <1>5 DEF GoogleRevoke
<1> QED
  BY <1>1, <1>3, <1>4, <1>5
     DEF ConnectStep, ConnectCall, ConnectStore, ConnectRedirect, StateExpire,
         CallbackCall, CallbackGetState, CallbackDeleteState, CallbackStore, googleVars

LEMMA ConnectTokensBacked ==
    ASSUME ConnectInv, TokensBacked, ConnectStep
    PROVE  TokensBacked'
<1>1. GrantsKept
  BY ConnectGrantsKept DEF ConnectInv
<1>2. ASSUME NEW c \in Callbacks, CallbackStore(c)
      PROVE  TokensBacked'
  <2>1. /\ callback[c].user \in Users /\ callback[c].grant \in Grants
        /\ google[callback[c].grant] # None /\ UNCHANGED google
    BY <1>2 DEF CallbackStore, ConnectInv, CallbacksFilled, googleVars
  <2> QED
    BY <1>2, <2>1 DEF CallbackStore, ConnectInv, ConnectTypeOK, TokensBacked
<1>3. UNCHANGED tokens => TokensBacked'
  BY <1>1 DEF ConnectInv, ConnectTypeOK, TokensBacked, GrantsKept, Blob, Token
<1> QED
  BY <1>2, <1>3
     DEF ConnectStep, ConnectCall, ConnectStore, ConnectRedirect, Consent, GoogleRevoke,
         StateExpire, CallbackCall, CallbackGetState, CallbackDeleteState,
         CallbackExchange, storeVars

LEMMA DisconnectInvStep ==
    ASSUME ConnectInv, TokensBacked, DisconnectStep
    PROVE  ConnectInv' /\ TokensBacked' /\ GrantsKept
<1>1. UNCHANGED <<states, pages, google, connect, callback, spent>>
  BY DEF DisconnectStep, DisconnectCall, DisconnectDelete, DisconnectDeleteFails,
         storeVars, googleVars
<1>2. GrantsKept /\ CallbacksFilled' /\ ConnectsFilled'
  BY <1>1 DEF GrantsKept, ConnectInv, CallbacksFilled, ConnectsFilled
<1>3. disconnect' \in [Disconnects -> DisconnectRequest] /\ DisconnectsFilled'
  BY ConnectAssumption
     DEF DisconnectStep, DisconnectCall, DisconnectDelete, DisconnectDeleteFails,
         DisconnectIdle, DisconnectRequest, ConnectInv, ConnectTypeOK, DisconnectsFilled
<1>4. tokens' \in [Users -> Blob \cup {None}] /\ TokensBacked'
  <2>1. CASE UNCHANGED tokens
    BY <1>1, <2>1 DEF ConnectInv, ConnectTypeOK, TokensBacked
  <2>2. ASSUME NEW d \in Disconnects, DisconnectDelete(d)
        PROVE  tokens' \in [Users -> Blob \cup {None}] /\ TokensBacked'
    <3>1. disconnect[d].user \in Users
      BY <2>2 DEF DisconnectDelete, ConnectInv, DisconnectsFilled
    <3> QED
      BY <1>1, <2>2, <3>1, TokenGone DEF DisconnectDelete, ConnectInv
  <2> QED
    BY <2>1, <2>2 DEF DisconnectStep, DisconnectCall, DisconnectDeleteFails, storeVars
<1> QED
  BY <1>1, <1>2, <1>3, <1>4 DEF ConnectInv, ConnectTypeOK

-----------------------------------------------------------------------------
(* The plugin as a whole *)

TypeInv ==
    /\ ConfTypeOK
    /\ StartInv
    /\ severed \in [Users -> {"no", "quiet", "busy"}]

LEMMA TypeInvInit ==
    ASSUME Init
    PROVE  TypeInv
<1>1. ConfTypeOK
  BY ConfTypeInit DEF Init
<1>2. /\ connect \in [Connects -> ConnectRequest] /\ ConnectsFilled
      /\ callback \in [Callbacks -> CallbackRequest] /\ CallbacksFilled
      /\ disconnect \in [Disconnects -> DisconnectRequest] /\ DisconnectsFilled
  BY DEF Init, ConnectInit, ConnectIdle, ConnectRequest, ConnectsFilled,
         CallbackIdle, CallbackRequest, CallbacksFilled,
         DisconnectIdle, DisconnectRequest, DisconnectsFilled
<1>3. /\ google \in [Grants -> Grant \cup {None}]
      /\ \A g \in PriorGrants : google[g] \in Grant
  <2>1. PICK prior \in [PriorGrants -> PriorGrant] :
          google = [g \in Grants |-> IF g \in PriorGrants THEN prior[g] ELSE None]
    BY DEF Init, ConnectInit
  <2>2. PriorGrant \subseteq Grant
    BY ConnectAssumption DEF PriorGrant, Grant
  <2> QED
    BY <2>1, <2>2, ConnectAssumption
<1>4. ConnectTypeOK
  BY <1>2, <1>3 DEF Init, ConnectInit, ConnectTypeOK
<1>5. TokensBacked
  <2>1. \A u \in Users : tokens[u] # None => tokens[u].tok.grant \in PriorGrants
    BY DEF Init, ConnectInit, PriorToken
  <2>2. \A g \in PriorGrants : google[g] # None
    BY <1>3, ConnectAssumption
  <2> QED
    BY <2>1, <2>2 DEF TokensBacked
<1>6. MeetingInv
  <2>1. StartIdle \in StartRequest /\ StartIdle.pc = "idle"
        /\ StartIdle.since = 0 /\ StartIdle.link = 0
    BY DEF StartIdle, StartRequest
  <2>2. start = [r \in Starts |-> StartIdle] /\ spaces = <<>>
    BY DEF Init, MeetingInit
  <2>3. spaces \in Seq(Space) /\ Len(spaces) = 0 /\ Latest \in Nat
    BY <1>1, <2>2 DEF ConfTypeOK, Latest
  <2> QED
    BY <2>1, <2>2, <2>3 DEF MeetingInv, StartsFilled, StartFilled, Holding
<1> QED
  BY <1>1, <1>2, <1>4, <1>5, <1>6 DEF TypeInv, StartInv, ConnectInv, Init

LEMMA KillKeeps ==
    ASSUME ConfTypeOK, StartInv, Stop, ConnectKill, MeetingKill
    PROVE  StartInv' /\ GrantsKept
<1>1. UNCHANGED <<tokens, states, pages, google, spent, spaces>>
  BY DEF ConnectKill, MeetingKill, storeVars, googleVars
<1>2. /\ connect' \in [Connects -> ConnectRequest] /\ ConnectsFilled'
      /\ callback' \in [Callbacks -> CallbackRequest] /\ CallbacksFilled'
      /\ disconnect' \in [Disconnects -> DisconnectRequest] /\ DisconnectsFilled'
  BY DEF ConnectKill, ConnectIdle, ConnectRequest, ConnectsFilled,
         CallbackIdle, CallbackRequest, CallbacksFilled,
         DisconnectIdle, DisconnectRequest, DisconnectsFilled
<1>3. MeetingInv'
  <2>1. StartIdle \in StartRequest /\ StartIdle.pc = "idle"
        /\ StartIdle.since = 0 /\ StartIdle.link = 0
    BY DEF StartIdle, StartRequest
  <2>2. start' = [r \in Starts |-> StartIdle] /\ spaces' \in Seq(Space)
    BY <1>1 DEF MeetingKill, StartInv, MeetingInv
  <2>3. Latest' \in Nat /\ Len(spaces') \in Nat
    BY <2>2, ConfStepFrame
  <2> QED
    BY <2>1, <2>2, <2>3 DEF MeetingInv, StartsFilled, StartFilled, Holding
<1> QED
  BY <1>1, <1>2, <1>3
     DEF StartInv, ConnectInv, ConnectTypeOK, TokensBacked, GrantsKept

LEMMA SeveredType ==
    ASSUME NEW u
    PROVE  Severed(u) \in {"no", "quiet", "busy"}
BY DEF Severed

\* Every step of the plugin is one of the configuration, which the prover can
\* thus treat apart, and keeps what Google knows.
LEMMA TypeInvStep ==
    ASSUME TypeInv, [Next]_vars
    PROVE  TypeInv' /\ GrantsKept /\ [ConfNext]_confVars
<1>0. /\ ConfTypeOK /\ StartInv /\ ConnectInv /\ MeetingInv /\ TokensBacked
      /\ severed \in [Users -> {"no", "quiet", "busy"}]
      /\ Latest \in Nat
  BY DEF TypeInv, StartInv, ConfTypeOK, Latest
<1>g. UNCHANGED google => GrantsKept
  BY DEF GrantsKept
<1>u. UNCHANGED connectVars => ConnectInv' /\ TokensBacked' /\ GrantsKept
  BY <1>0, <1>g DEF connectVars, storeVars, googleVars, requestVars, ConnectInv,
     ConnectTypeOK, ConnectsFilled, CallbacksFilled, DisconnectsFilled, TokensBacked
<1>n. UNCHANGED confVars => ConfTypeOK' /\ Latest' = Latest
  BY <1>0, ConfTypeStep DEF confVars, Latest
<1>1. CASE UNCHANGED vars
  BY <1>0, <1>1, <1>u, <1>n, MeetingInvKept DEF vars, TypeInv, StartInv
<1>2. CASE ConfStep /\ UNCHANGED <<connectVars, meetingVars, severed>>
  BY <1>0, <1>2, <1>u, ConfTypeStep, ConfStepFrame, MeetingInvKept
     DEF ConfNext, TypeInv, StartInv
<1>3. CASE /\ ConnectStep
           /\ severed' = [u \in Users |-> IF Returning(u)' THEN "no" ELSE severed[u]]
           /\ UNCHANGED <<confVars, meetingVars>>
  <2>1. ConnectInv' /\ TokensBacked' /\ GrantsKept
    BY <1>0, <1>3, ConnectInvStep, ConnectGrantsKept, ConnectTokensBacked DEF ConnectInv
  <2>2. severed' \in [Users -> {"no", "quiet", "busy"}]
    BY <1>0, <1>3
  <2> QED
    BY <1>0, <1>3, <1>n, <2>1, <2>2, MeetingInvKept DEF TypeInv, StartInv
<1>4. CASE /\ \E d \in Disconnects :
                \/ \E u \in Users : DisconnectCall(d, u) /\ UNCHANGED severed
                \/ /\ DisconnectDelete(d)
                   /\ severed' = [severed EXCEPT ![disconnect[d].user] =
                                    Severed(disconnect[d].user)]
                \/ DisconnectDeleteFails(d) /\ UNCHANGED severed
           /\ UNCHANGED <<confVars, meetingVars>>
  <2>1. DisconnectStep
    BY <1>4 DEF DisconnectStep
  <2>2. severed' \in [Users -> {"no", "quiet", "busy"}]
    BY <1>0, <1>4, SeveredType
  <2> QED
    BY <1>0, <1>4, <1>n, <2>1, <2>2, DisconnectInvStep, MeetingInvKept
       DEF TypeInv, StartInv
<1>5. CASE MeetingStep /\ UNCHANGED <<confVars, severed>>
  BY <1>0, <1>5, <1>n, StartInvStep DEF TypeInv
<1>6. CASE Stop /\ ConnectKill /\ MeetingKill /\ UNCHANGED severed
  BY <1>0, <1>6, ConfTypeStep, KillKeeps DEF TypeInv, ConfNext
<1> QED
  BY <1>1, <1>2, <1>3, <1>4, <1>5, <1>6 DEF Next

LEMMA TypeInvAlways == Spec => []TypeInv
<1>1. Init => TypeInv
  BY TypeInvInit
<1>2. TypeInv /\ [Next]_vars => TypeInv'
  BY TypeInvStep
<1> QED
  BY <1>1, <1>2, PTL DEF Spec

\* Every reachable state is of the declared types: a request has a user, a key
\* and a token in hand when it uses them, and no index runs out of bounds.
THEOREM TypeCorrect == Spec => []TypeOK
<1>1. TypeInv => TypeOK
  BY DEF TypeInv, StartInv, ConnectInv, MeetingInv, TypeOK
<1> QED
  BY <1>1, TypeInvAlways, PTL

\* The accounts' part of it: tokens, states, consent pages and the requests that
\* pass them on keep their types beside meetings, refreshes and disconnects that
\* write the same store.
THEOREM ConnectTypeCorrect == Spec => []ConnectTypeOK
<1>1. TypeInv => ConnectTypeOK
  BY DEF TypeInv, StartInv, ConnectInv
<1> QED
  BY <1>1, TypeInvAlways, PTL

\* Whatever requests do, the settings and the store handle move only as the
\* configuration's own specification says, which is proved about apart.
THEOREM ImplementsConfiguration == Spec => ConfSpec
<1>1. Init => ConfInit
  BY DEF Init
<1>2. TypeInv /\ [Next]_vars => [ConfNext]_confVars
  BY TypeInvStep
<1> QED
  BY <1>1, <1>2, TypeInvAlways, PTL DEF Spec, ConfSpec
=============================================================================
