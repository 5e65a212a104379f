-------------------------- MODULE MeetPluginProofs --------------------------
(***************************************************************************)
(* The safety of MeetPlugin, for any numbers of users, requests, grants,   *)
(* keys and settings, and with every kind of failure allowed.              *)
(*                                                                         *)
(* Whose account a token belongs to is a chain of facts that every         *)
(* request extends by one link: the state a connect draws is its own, the  *)
(* page under the state names the user who asked, the grant names the page *)
(* it came from, the callback takes the user from the state, the token     *)
(* lies under that user, and the meeting is held with that token.          *)
(***************************************************************************)
EXTENDS MeetPluginTypeProofs

\* A consent page names the user its state was stored for; the state stays in
\* the store until it is spent.
PagesTrue ==
    \A s \in States : pages[s] # None =>
        /\ states[s] # "undrawn"
        /\ Pending(s) => states[s] = pages[s].user
        /\ Pending(s) \/ s \in spent

\* A connect in flight is the only one that uses its state, and has not opened
\* a page under it.
ConnectsApart ==
    \A n \in Connects : connect[n].pc # "idle" =>
        LET s == connect[n].state
        IN  /\ states[s] # "undrawn" /\ pages[s] = None
            /\ connect[n].pc = "store" => ~ Pending(s) /\ s \notin spent
            /\ connect[n].pc = "redirect" => /\ Pending(s) => states[s] = connect[n].user
                                             /\ Pending(s) \/ s \in spent
            /\ \A m \in Connects : connect[m].pc # "idle" /\ connect[m].state = s => m = n

SpentGone == \A s \in spent : states[s] = "absent"

GrantsTrue ==
    \A g \in Grants : google[g] # None /\ google[g].state \in States =>
        pages[google[g].state] # None /\ pages[google[g].state].user = google[g].owner

CallbacksTrue ==
    \A c \in Callbacks :
        /\ callback[c].pc \in {"delete", "exchange", "store"} =>
             callback[c].user = google[callback[c].grant].owner
        /\ callback[c].late => callback[c].pc = "get" /\ CallbackState(c) \in spent

StartsTrue ==
    \A r \in Starts :
        start[r].pc \in Holding => google[start[r].tok.grant].owner = start[r].user

FlowInv ==
    /\ PagesTrue
    /\ ConnectsApart
    /\ SpentGone
    /\ GrantsTrue
    /\ CallbacksTrue

LinkInv ==
    /\ FlowInv
    /\ OwnAccount
    /\ StartsTrue
    /\ MeetingOwnAccount

-----------------------------------------------------------------------------
(* The chain is kept: connects, consents and callbacks *)

\* Google learns of no grant but by consent.
NoNewGrants == \A g \in Grants : google'[g] # None => google[g] # None

LEMMA FlowKept ==
    ASSUME ConnectInv, FlowInv, GrantsKept, NoNewGrants,
           UNCHANGED <<states, pages, connect, callback, spent>>
    PROVE  FlowInv'
<1>1. PagesTrue' /\ ConnectsApart' /\ SpentGone'
  BY DEF FlowInv, PagesTrue, ConnectsApart, SpentGone, Pending
<1>2. GrantsTrue'
  BY DEF FlowInv, GrantsTrue, GrantsKept, NoNewGrants
<1>3. CallbacksTrue'
  <2>1. ASSUME NEW c \in Callbacks, callback[c].pc # "idle"
        PROVE  /\ CallbackState(c)' = CallbackState(c)
               /\ google'[callback[c].grant].owner = google[callback[c].grant].owner
    BY <2>1 DEF ConnectInv, CallbacksFilled, CallbackState, GrantsKept
  <2> QED
    BY <2>1 DEF FlowInv, CallbacksTrue
<1> QED
  BY <1>1, <1>2, <1>3 DEF FlowInv

LEMMA FlowStep ==
    ASSUME ConfTypeOK, ConnectInv, FlowInv, ConnectStep
    PROVE  FlowInv'
<1>0. /\ PagesTrue /\ ConnectsApart /\ SpentGone /\ GrantsTrue /\ CallbacksTrue
      /\ ConnectTypeOK /\ ConnectsFilled /\ CallbacksFilled
      /\ GrantsKept
  BY ConnectGrantsKept DEF FlowInv, ConnectInv
<1>g. ASSUME UNCHANGED <<pages, google>>
      PROVE  GrantsTrue'
  BY <1>0, <1>g DEF GrantsTrue
<1>c. ASSUME UNCHANGED <<google, callback>>, spent \subseteq spent'
      PROVE  CallbacksTrue'
  BY <1>0, <1>c DEF CallbacksTrue, CallbackState
<1>1. ASSUME NEW n \in Connects, NEW u \in Users, NEW s \in States, ConnectCall(n, u, s)
      PROVE  FlowInv'
  <2>1. /\ UNCHANGED <<pages, google, callback, spent>>
        /\ states[s] = "undrawn" /\ states' = [states EXCEPT ![s] = "absent"]
        /\ connect' = [connect EXCEPT ![n] = [pc |-> "store", user |-> u, state |-> s]]
    BY <1>1 DEF ConnectCall, googleVars
  <2>2. /\ states' [s] = "absent" /\ \A t \in States : t # s => states'[t] = states[t]
        /\ connect'[n] = [pc |-> "store", user |-> u, state |-> s]
        /\ \A m \in Connects : m # n => connect'[m] = connect[m]
    BY <1>0, <2>1 DEF ConnectTypeOK
  <2>3. pages[s] = None /\ s \notin spent
    BY <1>0, <2>1 DEF PagesTrue, SpentGone, ConnectTypeOK
  <2>4. PagesTrue' /\ SpentGone'
    BY <1>0, <2>1, <2>2, <2>3 DEF PagesTrue, SpentGone, Pending, ConnectTypeOK
  <2>5. ConnectsApart'
    <3>1. "absent" \notin Users
      BY ConnectAssumption
    <3>2. \A m \in Connects : connect[m].pc # "idle" => connect[m].state # s
      BY <1>0, <2>1 DEF ConnectsApart
    <3> QED
      BY <1>0, <2>1, <2>2, <2>3, <3>1, <3>2 DEF ConnectsApart, ConnectsFilled, Pending
  <2> QED
    BY <1>g, <1>c, <2>1, <2>4, <2>5 DEF FlowInv
<1>2. ASSUME NEW n \in Connects, ConnectStore(n)
      PROVE  FlowInv'
  <2> DEFINE s == connect[n].state
  <2>1. /\ UNCHANGED <<pages, google, callback, spent>>
        /\ connect[n].pc = "store" /\ connect[n].user \in Users /\ s \in States
    BY <1>0, <1>2 DEF ConnectStore, googleVars, ConnectsFilled
  <2>2. pages[s] = None /\ ~ Pending(s) /\ s \notin spent
    BY <1>0, <2>1 DEF ConnectsApart
  <2>3. CASE /\ states' = [states EXCEPT ![s] = connect[n].user]
             /\ connect' = [connect EXCEPT ![n].pc = "redirect"]
    <3>1. /\ states' [s] = connect[n].user
          /\ \A t \in States : t # s => states'[t] = states[t]
          /\ connect'[n].pc = "redirect" /\ connect'[n].state = s
          /\ connect'[n].user = connect[n].user
          /\ \A m \in Connects : m # n => connect'[m] = connect[m]
      BY <1>0, <2>1, <2>3 DEF ConnectTypeOK, ConnectRequest
    <3>2. PagesTrue' /\ SpentGone'
      BY <1>0, <2>1, <2>2, <3>1 DEF PagesTrue, SpentGone, Pending, ConnectTypeOK
    <3>3. ConnectsApart'
      <4>1. "undrawn" \notin Users
        BY ConnectAssumption
      <4>2. \A m \in Connects : connect[m].pc # "idle" /\ m # n => connect[m].state # s
        BY <1>0, <2>1 DEF ConnectsApart
      <4> QED
        BY <1>0, <2>1, <2>2, <3>1, <4>1, <4>2 DEF ConnectsApart, ConnectsFilled, Pending
    <3> QED
      BY <1>g, <1>c, <2>1, <3>2, <3>3 DEF FlowInv
  <2>4. CASE UNCHANGED states /\ connect' = [connect EXCEPT ![n] = ConnectIdle]
    <3>1. connect'[n].pc = "idle" /\ \A m \in Connects : m # n => connect'[m] = connect[m]
      BY <1>0, <2>4, ConnectStops DEF ConnectTypeOK
    <3>2. PagesTrue' /\ SpentGone'
      BY <1>0, <2>1, <2>4 DEF PagesTrue, SpentGone, Pending
    <3>3. ConnectsApart'
      BY <1>0, <2>1, <2>4, <3>1 DEF ConnectsApart, Pending
    <3> QED
      BY <1>g, <1>c, <2>1, <3>2, <3>3 DEF FlowInv
  <2> QED
    BY <1>2, <2>3, <2>4 DEF ConnectStore
<1>3. ASSUME NEW n \in Connects, ConnectRedirect(n)
      PROVE  FlowInv'
  <2> DEFINE s == connect[n].state
  <2>1. /\ UNCHANGED <<states, google, callback, spent>>
        /\ connect[n].pc = "redirect" /\ connect[n].user \in Users /\ s \in States
        /\ connect' = [connect EXCEPT ![n] = ConnectIdle]
    BY <1>0, <1>3 DEF ConnectRedirect, storeVars, ConnectsFilled
  <2>2. connect'[n].pc = "idle" /\ \A m \in Connects : m # n => connect'[m] = connect[m]
    BY <1>0, <2>1, ConnectStops DEF ConnectTypeOK
  <2>3. /\ pages[s] = None /\ states[s] # "undrawn"
        /\ Pending(s) => states[s] = connect[n].user
        /\ Pending(s) \/ s \in spent
    BY <1>0, <2>1 DEF ConnectsApart
  <2>4. /\ \A t \in States : t # s => pages'[t] = pages[t]
        /\ pages'[s] = None \/ pages'[s].user = connect[n].user
    BY <1>0, <1>3, <2>1, <2>3 DEF ConnectRedirect, ConnectTypeOK
  <2>5. PagesTrue' /\ SpentGone'
    BY <1>0, <2>1, <2>3, <2>4 DEF PagesTrue, SpentGone, Pending
  <2>6. ConnectsApart'
    <3>1. \A m \in Connects : connect[m].pc # "idle" /\ m # n => connect[m].state # s
      BY <1>0, <2>1 DEF ConnectsApart
    <3> QED
      BY <1>0, <2>1, <2>2, <2>4, <3>1 DEF ConnectsApart, ConnectsFilled, Pending
  <2>7. GrantsTrue'
    BY <1>0, <2>1, <2>3, <2>4 DEF GrantsTrue
  <2> QED
    BY <1>c, <2>1, <2>5, <2>6, <2>7 DEF FlowInv
<1>4. ASSUME NEW s \in States, NEW g \in Grants, NEW scope \in BOOLEAN, Consent(s, g, scope)
      PROVE  FlowInv'
  <2>1. /\ UNCHANGED <<states, pages, connect, callback, spent>>
        /\ google[g] = None /\ pages[s] # None
        /\ google'[g].owner = pages[s].user /\ google'[g].state = s
        /\ \A f \in Grants : f # g => google'[f] = google[f]
    BY <1>0, <1>4 DEF Consent, storeVars, requestVars, ConnectTypeOK
  <2>2. PagesTrue' /\ ConnectsApart' /\ SpentGone'
    BY <1>0, <2>1 DEF PagesTrue, ConnectsApart, SpentGone, Pending
  <2>3. GrantsTrue'
    BY <1>0, <2>1 DEF GrantsTrue
  <2>4. CallbacksTrue'
    <3>1. ASSUME NEW c \in Callbacks, callback[c].pc # "idle"
          PROVE  google'[callback[c].grant] = google[callback[c].grant]
      BY <1>0, <2>1, <3>1 DEF CallbacksFilled
    <3> QED
      BY <1>0, <2>1, <3>1 DEF CallbacksTrue, CallbackState
  <2> QED
    BY <2>2, <2>3, <2>4 DEF FlowInv
<1>5. ASSUME NEW g \in Grants, GoogleRevoke(g)
      PROVE  FlowInv'
  <2>1. UNCHANGED <<states, pages, connect, callback, spent>> /\ NoNewGrants
    BY <1>0, <1>5 DEF GoogleRevoke, NoNewGrants, storeVars, requestVars, ConnectTypeOK
  <2> QED
    BY <1>0, <2>1, FlowKept
<1>6. ASSUME NEW s \in States, StateExpire(s)
      PROVE  FlowInv'
  <2>1. /\ UNCHANGED <<pages, google, connect, callback>> /\ spent' = spent \cup {s}
        /\ Pending(s)
        /\ states'[s] = "absent" /\ \A t \in States : t # s => states'[t] = states[t]
        /\ "absent" \notin Users
    BY <1>0, <1>6, ConnectAssumption DEF StateExpire, googleVars, requestVars, ConnectTypeOK
  <2>2. PagesTrue' /\ SpentGone'
    BY <1>0, <2>1 DEF PagesTrue, SpentGone, Pending, ConnectTypeOK
  <2>3. ConnectsApart'
    BY <1>0, <2>1 DEF ConnectsApart, ConnectsFilled, Pending
  <2> QED
    BY <1>g, <1>c, <2>1, <2>2, <2>3 DEF FlowInv
<1>7. ASSUME NEW c \in Callbacks, NEW g \in Grants, CallbackCall(c, g)
      PROVE  FlowInv'
  <2>1. /\ UNCHANGED <<states, pages, google, connect, spent>>
        /\ callback'[c].pc = "get" /\ callback'[c].grant = g
        /\ callback'[c].late = (google[g].state \in spent)
        /\ \A d \in Callbacks : d # c => callback'[d] = callback[d]
    BY <1>0, <1>7 DEF CallbackCall, storeVars, googleVars, ConnectTypeOK
  <2>2. PagesTrue' /\ ConnectsApart' /\ SpentGone'
    BY <1>0, <2>1 DEF PagesTrue, ConnectsApart, SpentGone, Pending
  <2>3. CallbacksTrue'
    BY <1>0, <2>1 DEF CallbacksTrue, CallbackState
  <2> QED
    BY <1>g, <2>1, <2>2, <2>3 DEF FlowInv
<1>8. ASSUME NEW c \in Callbacks, CallbackGetState(c)
      PROVE  FlowInv'
  <2> DEFINE s == CallbackState(c)
  <2>1. UNCHANGED <<states, pages, google, connect, spent>> /\ callback[c].pc = "get"
    BY <1>8 DEF CallbackGetState, storeVars, googleVars
  <2>2. PagesTrue' /\ ConnectsApart' /\ SpentGone'
    BY <1>0, <2>1 DEF PagesTrue, ConnectsApart, SpentGone, Pending
  <2>3. ASSUME CallbackEnds(c)
        PROVE  CallbacksTrue'
    <3>1. callback'[c] = CallbackIdle /\ \A d \in Callbacks : d # c => callback'[d] = callback[d]
      BY <1>0, <2>3 DEF CallbackEnds, ConnectTypeOK
    <3> QED
      BY <1>0, <2>1, <3>1 DEF CallbacksTrue, CallbackState, CallbackIdle
  <2>4. ASSUME Pending(s),
               callback' = [callback EXCEPT ![c].pc = "delete", ![c].user = states[s]]
        PROVE  CallbacksTrue'
    <3>1. /\ states[s] \in Users /\ s \in States /\ callback[c].grant \in Grants
          /\ google[callback[c].grant] # None
      BY <1>0, <2>1, <2>4 DEF Pending, CallbacksFilled, CallbackState
    <3>2. states[s] = google[callback[c].grant].owner
      BY <1>0, <2>4, <3>1 DEF GrantsTrue, PagesTrue, CallbackState
    <3>3. /\ callback'[c].pc = "delete" /\ callback'[c].user = states[s]
          /\ \A d \in Callbacks : /\ d # c => callback'[d] = callback[d]
                                  /\ callback'[d].grant = callback[d].grant
                                  /\ callback'[d].late = callback[d].late
      BY <1>0, <2>4, <3>1, CallbackFinds DEF ConnectTypeOK
    <3>4. ~ callback[c].late
      BY <1>0, <2>4, <3>1, ConnectAssumption DEF CallbacksTrue, SpentGone, Pending
    <3> QED
      BY <1>0, <2>1, <3>2, <3>3, <3>4 DEF CallbacksTrue, CallbackState
  <2> QED
    BY <1>8, <1>g, <2>1, <2>2, <2>3, <2>4 DEF FlowInv, CallbackGetState
<1>9. ASSUME NEW c \in Callbacks, CallbackDeleteState(c)
      PROVE  FlowInv'
  <2> DEFINE s == CallbackState(c)
  <2>1. UNCHANGED <<pages, google, connect>> /\ callback[c].pc = "delete" /\ ~ callback[c].late
    BY <1>0, <1>9 DEF CallbackDeleteState, googleVars, CallbacksTrue
  <2>2. CASE CallbackEnds(c) /\ UNCHANGED <<states, spent>>
    <3>1. callback'[c] = CallbackIdle /\ \A d \in Callbacks : d # c => callback'[d] = callback[d]
      BY <1>0, <2>2 DEF CallbackEnds, ConnectTypeOK
    <3>2. CallbacksTrue'
      BY <1>0, <2>1, <2>2, <3>1 DEF CallbacksTrue, CallbackState, CallbackIdle
    <3>3. PagesTrue' /\ ConnectsApart' /\ SpentGone'
      BY <1>0, <2>1, <2>2 DEF PagesTrue, ConnectsApart, SpentGone, Pending
    <3> QED
      BY <1>g, <2>1, <3>2, <3>3 DEF FlowInv
  <2>3. CASE /\ states' = [states EXCEPT ![s] = "absent"]
             /\ spent' = spent \cup {s}
             /\ callback' = [callback EXCEPT ![c].pc = "exchange"]
    <3>1. /\ s \in States /\ pages[s] # None /\ "absent" \notin Users
      BY <1>0, <2>1, ConnectAssumption DEF CallbacksFilled, CallbackState, GrantsTrue
    <3>2. states'[s] = "absent" /\ \A t \in States : t # s => states'[t] = states[t]
      BY <1>0, <2>3, <3>1 DEF ConnectTypeOK
    <3>3. /\ callback'[c].pc = "exchange"
          /\ \A d \in Callbacks : /\ d # c => callback'[d] = callback[d]
                                  /\ callback'[d].grant = callback[d].grant
                                  /\ callback'[d].user = callback[d].user
                                  /\ callback'[d].late = callback[d].late
      BY <1>0, <2>3, CallbackGoes DEF ConnectTypeOK
    <3>4. PagesTrue' /\ SpentGone'
      BY <1>0, <2>1, <2>3, <3>1, <3>2 DEF PagesTrue, SpentGone, Pending, ConnectTypeOK
    <3>5. ConnectsApart'
      BY <1>0, <2>1, <2>3, <3>1, <3>2 DEF ConnectsApart, ConnectsFilled, Pending
    <3>6. CallbacksTrue'
      BY <1>0, <2>1, <2>3, <3>3 DEF CallbacksTrue, CallbackState
    <3> QED
      BY <1>g, <2>1, <3>4, <3>5, <3>6 DEF FlowInv
  <2> QED
    BY <1>9, <2>2, <2>3 DEF CallbackDeleteState
<1>10. ASSUME NEW c \in Callbacks, CallbackExchange(c)
       PROVE  FlowInv'
  <2>0. /\ UNCHANGED <<states, pages, connect, spent>>
        /\ callback[c].pc = "exchange" /\ ~ callback[c].late
    BY <1>0, <1>10 DEF CallbackExchange, storeVars, CallbacksTrue
  <2>1. NoNewGrants
    <3>1. google[callback[c].grant] # None
      BY <1>0, <2>0 DEF CallbacksFilled
    <3> QED
      BY <1>0, <1>10, <3>1 DEF CallbackExchange, NoNewGrants, ConnectTypeOK
  <2>2. PagesTrue' /\ ConnectsApart' /\ SpentGone'
    BY <1>0, <2>0 DEF PagesTrue, ConnectsApart, SpentGone, Pending
  <2>3. GrantsTrue'
    BY <1>0, <2>0, <2>1 DEF GrantsTrue, GrantsKept, NoNewGrants
  <2>4. \A d \in Callbacks : callback[d].pc # "idle" =>
          /\ google'[callback[d].grant].owner = google[callback[d].grant].owner
          /\ google'[callback[d].grant].state = google[callback[d].grant].state
    BY <1>0 DEF CallbacksFilled, GrantsKept
  <2>5. ASSUME CallbackEnds(c)
        PROVE  CallbacksTrue'
    <3>1. callback'[c] = CallbackIdle /\ \A d \in Callbacks : d # c => callback'[d] = callback[d]
      BY <1>0, <2>5 DEF CallbackEnds, ConnectTypeOK
    <3> QED
      BY <1>0, <2>0, <2>4, <3>1 DEF CallbacksTrue, CallbackState, CallbackIdle
  <2>6. ASSUME callback' = [callback EXCEPT ![c].pc = "store"]
        PROVE  CallbacksTrue'
    <3>1. /\ callback'[c].pc = "store"
          /\ \A d \in Callbacks : /\ d # c => callback'[d] = callback[d]
                                  /\ callback'[d].grant = callback[d].grant
                                  /\ callback'[d].user = callback[d].user
                                  /\ callback'[d].late = callback[d].late
      BY <1>0, <2>6, CallbackGoes DEF ConnectTypeOK
    <3> QED
      BY <1>0, <2>0, <2>4, <3>1 DEF CallbacksTrue, CallbackState
  <2> QED
    BY <1>10, <2>2, <2>3, <2>5, <2>6 DEF FlowInv, CallbackExchange
<1>11. ASSUME NEW c \in Callbacks, CallbackStore(c)
       PROVE  FlowInv'
  <2>1. /\ UNCHANGED <<states, pages, google, connect, spent>>
        /\ callback'[c] = CallbackIdle
        /\ \A d \in Callbacks : d # c => callback'[d] = callback[d]
    BY <1>0, <1>11 DEF CallbackStore, CallbackEnds, googleVars, ConnectTypeOK
  <2>2. PagesTrue' /\ ConnectsApart' /\ SpentGone'
    BY <1>0, <2>1 DEF PagesTrue, ConnectsApart, SpentGone, Pending
  <2>3. CallbacksTrue'
    BY <1>0, <2>1 DEF CallbacksTrue, CallbackState, CallbackIdle
  <2> QED
    BY <1>g, <2>1, <2>2, <2>3 DEF FlowInv
<1> QED
  BY <1>1, <1>2, <1>3, <1>4, <1>5, <1>6, <1>7, <1>8, <1>9, <1>10, <1>11 DEF ConnectStep
-----------------------------------------------------------------------------
(* What a step of a request to start a meeting may do *)

LEMMA MeetingTokens ==
    ASSUME TypeInv, MeetingStep, NEW u \in Users
    PROVE  \/ tokens'[u] \in {tokens[u], None}
           \/ \E r \in Starts : /\ start[r].pc = "save" /\ start[r].user = u
                                /\ tokens'[u] = [key |-> start[r].key, tok |-> start[r].tok]
<1>0. tokens \in [Users -> Blob \cup {None}]
  BY DEF TypeInv, StartInv, ConnectInv, ConnectTypeOK
<1>1. ASSUME NEW r \in Starts, StartStep(r), tokens' # tokens
      PROVE  \/ tokens' = [tokens EXCEPT ![start[r].user] = None]
             \/ /\ start[r].pc = "save"
                /\ tokens' = [tokens EXCEPT ![start[r].user] =
                                [key |-> start[r].key, tok |-> start[r].tok]]
  BY <1>1 DEF StartStep, CheckOpen, CheckGet, CheckPurge, Admit, UseOpen, UseGet, UsePurge,
     Refresh, Save, Create, DropOpen, Drop, CreatePost, PublishWebSocketEvent,
     StoreHandle, Purge, connectVars, storeVars
<1>2. CASE tokens' = tokens
  BY <1>2
<1>3. CASE tokens' # tokens
  <2>1. PICK r \in Starts : StartStep(r)
    BY <1>3 DEF MeetingStep, StartCall, connectVars, storeVars
  <2> QED
    BY <1>0, <1>1, <1>3, <2>1
<1> QED
  BY <1>2, <1>3

Purging == {"check_purge", "use_purge"}

Admitted == {"use_open", "use_get", "use_purge", "refresh", "save", "create",
             "drop_open", "drop", "post", "publish"}

\* The request goes on: it keeps the token it holds, or an older one of the
\* grant gives way to a newer, or it just read it under its user; and the same
\* for the key, the blob it will purge and the admission.
GoesOn(r) ==
    /\ start[r].pc # "idle"
    /\ start'[r].user = start[r].user /\ start'[r].chan = start[r].chan
    /\ start'[r].since = start[r].since
    /\ \/ start'[r].key = start[r].key /\ start[r].pc # "check_open"
       \/ /\ OAuthStore # None /\ start'[r].key = OAuthStore
          /\ start'[r].pc \in {"check_get", "use_get"}
    /\ start'[r].pc \in Holding =>
         \/ /\ start[r].pc \in Holding
            /\ start'[r].tok.grant = start[r].tok.grant
            /\ start'[r].pc \in {"refresh", "save"} => start[r].pc = "refresh"
         \/ /\ start[r].pc = "use_get"
            /\ tokens[start[r].user] # None
            /\ start'[r].tok = tokens[start[r].user].tok
    /\ start'[r].pc \in Purging =>
         tokens[start[r].user] # None /\ tokens[start[r].user].key # start'[r].key
    /\ start'[r].pc \in Admitted =>
         start[r].pc \in Admitted \/ (start[r].pc = "admit" /\ ~ Restricted(r))

Begins(r) ==
    /\ start[r].pc = "idle" /\ start'[r].pc = "check_open"
    /\ start'[r].since = configuration /\ phase = "active"

LEMMA MeetingMoves ==
    ASSUME TypeInv, MeetingStep, NEW r \in Starts
    PROVE  start'[r] = start[r] \/ start'[r].pc = "idle" \/ Begins(r) \/ GoesOn(r)
<1>0. /\ start \in [Starts -> StartRequest]
      /\ \A q \in Starts : StartFilled(q)
      /\ tokens \in [Users -> Blob \cup {None}]
  BY DEF TypeInv, StartInv, MeetingInv, StartsFilled, ConnectInv, ConnectTypeOK
<1> SUFFICES ASSUME start'[r] # start[r], start'[r].pc # "idle"
             PROVE  Begins(r) \/ GoesOn(r)
  OBVIOUS
<1>1. ASSUME NEW q \in Starts, NEW x, start' = [start EXCEPT ![q] = x]
      PROVE  q = r /\ start'[r] = x
  BY <1>0, <1>1
<1>2. ASSUME NEW q \in Starts, NEW reply, Answer(q, reply)
      PROVE  FALSE
  <2> DEFINE x == [StartIdle EXCEPT !.user = start[q].user, !.reply = reply]
  <2>1. x.pc = "idle"
    BY DEF StartIdle
  <2>2. start' = [start EXCEPT ![q] = x]
    BY <1>2 DEF Answer
  <2> HIDE DEF x
  <2> QED
    BY <1>1, <2>1, <2>2
<1>3. ASSUME NEW q \in Starts, NEW u \in Users, NEW ch \in Channels, NEW o \in Origins,
             StartCall(q, u, ch, o)
      PROVE  Begins(r)
  <2> DEFINE x == [StartIdle EXCEPT !.pc = "check_open", !.user = u, !.chan = ch,
                                    !.origin = o, !.since = configuration]
             y == [StartIdle EXCEPT !.user = u, !.reply = "not_configured"]
  <2>1. x.pc = "check_open" /\ x.since = configuration /\ y.pc = "idle"
    BY DEF StartIdle
  <2>2. /\ start' = [start EXCEPT ![q] = IF Ready THEN x ELSE y]
        /\ start[q].pc = "idle" /\ phase = "active"
    BY <1>3 DEF StartCall, Begun
  <2> HIDE DEF x, y
  <2>3. q = r /\ start'[r] \in {x, y}
    BY <1>1, <2>2
  <2> QED
    BY <2>1, <2>2, <2>3 DEF Begins
<1>4. ASSUME NEW q \in Starts, NEW pc \in StartPc, Goto(q, pc)
      PROVE  /\ q = r /\ start'[r].pc = pc
             /\ start'[r].user = start[r].user /\ start'[r].chan = start[r].chan
             /\ start'[r].key = start[r].key /\ start'[r].tok = start[r].tok
             /\ start'[r].since = start[r].since
  BY <1>0, <1>4, GotoType
<1>5. ASSUME NEW q \in Starts, CheckOpen(q) \/ UseOpen(q)
      PROVE  GoesOn(r)
  <2>1. ASSUME OAuthStore # None, NEW pc \in {"check_get", "use_get"},
               start' = [start EXCEPT ![q].pc = pc, ![q].key = OAuthStore]
        PROVE  /\ q = r /\ start'[r].pc = pc /\ start'[r].key = OAuthStore
               /\ start'[r].user = start[r].user /\ start'[r].chan = start[r].chan
               /\ start'[r].since = start[r].since
    <3> DEFINE x == [start[q] EXCEPT !.pc = pc, !.key = OAuthStore]
    <3>1. start[q] \in StartRequest /\ start' = [start EXCEPT ![q] = x]
      BY <1>0, <2>1
    <3>2. /\ x.pc = pc /\ x.key = OAuthStore /\ x.user = start[q].user
          /\ x.chan = start[q].chan /\ x.since = start[q].since
      BY <3>1 DEF StartRequest
    <3> HIDE DEF x
    <3> QED
      BY <1>1, <3>1, <3>2
  <2>2. CASE CheckOpen(q)
    <3>1. /\ start[q].pc = "check_open" /\ OAuthStore # None
          /\ start' = [start EXCEPT ![q].pc = "check_get", ![q].key = OAuthStore]
      BY <1>2, <2>2 DEF CheckOpen, StoreHandle
    <3> QED
      BY <2>1, <3>1 DEF GoesOn, Holding, Purging, Admitted
  <2>3. CASE UseOpen(q)
    <3>1. /\ start[q].pc = "use_open" /\ OAuthStore # None
          /\ start' = [start EXCEPT ![q].pc = "use_get", ![q].key = OAuthStore]
      BY <1>2, <2>3 DEF UseOpen, StoreHandle
    <3> QED
      BY <2>1, <3>1 DEF GoesOn, Holding, Purging, Admitted
  <2> QED
    BY <1>5, <2>2, <2>3
<1>6. ASSUME NEW q \in Starts, UseGet(q)
      PROVE  GoesOn(r)
  <2>1. CASE Stored(q) # None /\ ~ Readable(q) /\ Goto(q, "use_purge")
    BY <1>4, <1>6, <2>1
       DEF UseGet, Stored, Readable, StartPc, GoesOn, Holding, Purging, Admitted
  <2>2. ASSUME Stored(q) # None, NEW pc \in {"refresh", "create"},
               start' = [start EXCEPT ![q].pc = pc, ![q].tok = Stored(q).tok]
        PROVE  GoesOn(r)
    <3> DEFINE tok == Stored(q).tok
               x == [start[q] EXCEPT !.pc = pc, !.tok = tok]
    <3>1. start[q] \in StartRequest /\ start' = [start EXCEPT ![q] = x]
      BY <1>0, <2>2
    <3> HIDE DEF tok
    <3>2. /\ x.pc = pc /\ x.tok = tok /\ x.user = start[q].user /\ x.chan = start[q].chan
          /\ x.key = start[q].key /\ x.since = start[q].since
      BY <3>1 DEF StartRequest
    <3> HIDE DEF x
    <3>3. q = r /\ start'[r] = x /\ start[q].pc = "use_get"
      BY <1>1, <1>6, <3>1 DEF UseGet
    <3> QED
      BY <2>2, <3>2, <3>3 DEF tok, Stored, GoesOn, Holding, Purging, Admitted
  <2> QED
    BY <1>2, <1>6, <2>1, <2>2 DEF UseGet
<1>7. ASSUME NEW q \in Starts, Refresh(q)
      PROVE  GoesOn(r)
  <2>1. ASSUME NEW rt \in 1..MaxRefresh,
               start' = [start EXCEPT ![q].pc = "save", ![q].tok.rt = rt]
        PROVE  GoesOn(r)
    <3>1. start[q].tok \in Token /\ start[q].pc = "refresh"
      BY <1>0, <1>7 DEF Refresh, StartFilled, Holding
    <3>2. /\ q = r /\ start'[r].pc = "save" /\ start'[r].tok.grant = start[r].tok.grant
          /\ start'[r].user = start[r].user /\ start'[r].chan = start[r].chan
          /\ start'[r].key = start[r].key /\ start'[r].since = start[r].since
      BY <1>0, <2>1, <3>1, RefreshedType
    <3> QED
      BY <3>1, <3>2 DEF GoesOn, Holding, Purging, Admitted
  <2> QED
    BY <1>2, <1>7, <2>1 DEF Refresh
<1>8. ASSUME NEW q \in Starts, Create(q)
      PROVE  GoesOn(r)
  <2>1. CASE start' = [start EXCEPT ![q].pc = "post", ![q].link = Len(spaces) + 1]
    <3> DEFINE link == Len(spaces) + 1
               x == [start[q] EXCEPT !.pc = "post", !.link = link]
    <3>1. start[q] \in StartRequest /\ start' = [start EXCEPT ![q] = x]
      BY <1>0, <2>1
    <3> HIDE DEF link
    <3>2. /\ x.pc = "post" /\ x.tok = start[q].tok /\ x.user = start[q].user
          /\ x.chan = start[q].chan /\ x.key = start[q].key /\ x.since = start[q].since
      BY <3>1 DEF StartRequest
    <3> HIDE DEF x
    <3>3. q = r /\ start'[r] = x /\ start[q].pc = "create"
      BY <1>1, <1>8, <3>1 DEF Create
    <3> QED
      BY <3>2, <3>3 DEF GoesOn, Holding, Purging, Admitted
  <2>2. CASE Goto(q, "drop_open")
    BY <1>4, <1>8, <2>2 DEF Create, StartPc, GoesOn, Holding, Purging, Admitted
  <2> QED
    BY <1>2, <1>8, <2>1, <2>2 DEF Create
<1>9. ASSUME NEW q \in Starts,
             \/ CheckPurge(q) \/ UsePurge(q) \/ Drop(q) \/ PublishWebSocketEvent(q)
      PROVE  FALSE
  BY <1>2, <1>9 DEF CheckPurge, UsePurge, Drop, PublishWebSocketEvent
<1>10. ASSUME NEW q \in Starts, CheckGet(q)
       PROVE  GoesOn(r)
  BY <1>2, <1>4, <1>10
     DEF CheckGet, Stored, Readable, StartPc, GoesOn, Holding, Purging, Admitted
<1>11. ASSUME NEW q \in Starts, Admit(q)
       PROVE  GoesOn(r)
  BY <1>2, <1>4, <1>11 DEF Admit, StartPc, GoesOn, Holding, Purging, Admitted
<1>12. ASSUME NEW q \in Starts, Save(q) \/ DropOpen(q) \/ CreatePost(q)
       PROVE  GoesOn(r)
  BY <1>2, <1>4, <1>12
     DEF Save, DropOpen, CreatePost, StartPc, GoesOn, Holding, Purging, Admitted
<1> QED
  BY <1>3, <1>5, <1>6, <1>7, <1>8, <1>9, <1>10, <1>11, <1>12 DEF MeetingStep, StartStep

\* What that means for the token in hand.
LEMMA MeetingHolds ==
    ASSUME TypeInv, MeetingStep, NEW r \in Starts, start'[r].pc \in Holding
    PROVE  /\ start'[r].user = start[r].user
           /\ \/ /\ start[r].pc \in Holding
                 /\ start'[r].tok.grant = start[r].tok.grant
                 /\ start'[r].pc \in {"refresh", "save"} => start[r].pc \in {"refresh", "save"}
              \/ /\ start[r].pc = "use_get"
                 /\ tokens[start[r].user] # None
                 /\ start'[r].tok = tokens[start[r].user].tok
BY MeetingMoves DEF Begins, GoesOn, Holding

\* Spaces stay whose they are; a new one is held on the account whose token
\* the request has.
LEMMA MeetingSpaces ==
    ASSUME TypeInv, MeetingStep, NEW i \in 1..Len(spaces')
    PROVE  \/ /\ i \in 1..Len(spaces)
              /\ spaces'[i].account = spaces[i].account
              /\ spaces'[i].user = spaces[i].user
           \/ \E r \in Starts : /\ start[r].pc = "create"
                                /\ spaces'[i].account = google[start[r].tok.grant].owner
                                /\ spaces'[i].user = start[r].user
<1>0. spaces \in Seq(Space) /\ \A q \in Starts : StartFilled(q)
  BY DEF TypeInv, StartInv, MeetingInv, StartsFilled
<1>1. CASE UNCHANGED spaces
  BY <1>1
<1>2. ASSUME NEW r \in Starts, Create(r), spaces' # spaces
      PROVE  \/ i \in 1..Len(spaces) /\ spaces'[i] = spaces[i]
             \/ /\ start[r].pc = "create"
                /\ spaces'[i].account = google[start[r].tok.grant].owner
                /\ spaces'[i].user = start[r].user
  <2> DEFINE space == [account |-> google[start[r].tok.grant].owner,
                       user |-> start[r].user, chan |-> start[r].chan,
                       posted |-> FALSE, announced |-> FALSE]
  <2>1. spaces' = Append(spaces, space) /\ start[r].pc = "create"
    BY <1>2 DEF Create
  <2>2. space.account = google[start[r].tok.grant].owner /\ space.user = start[r].user
    OBVIOUS
  <2> HIDE DEF space
  <2>3. (i \in 1..Len(spaces) /\ spaces'[i] = spaces[i]) \/ spaces'[i] = space
    BY <1>0, <2>1
  <2> QED
    BY <2>1, <2>2, <2>3
<1>3. ASSUME NEW r \in Starts, CreatePost(r) \/ PublishWebSocketEvent(r)
      PROVE  /\ i \in 1..Len(spaces)
             /\ spaces'[i].account = spaces[i].account
             /\ spaces'[i].user = spaces[i].user
  <2> DEFINE j == start[r].link
  <2>1. \/ spaces' = [spaces EXCEPT ![j].posted = TRUE]
        \/ spaces' = [spaces EXCEPT ![j].announced = TRUE]
        \/ UNCHANGED spaces
    BY <1>3 DEF CreatePost, PublishWebSocketEvent
  <2>2. Len(spaces') = Len(spaces)
    BY <1>0, <2>1
  <2>3. i \in 1..Len(spaces) /\ spaces[i] \in Space
    BY <1>0, <2>2
  <2>4. \/ spaces'[i] = spaces[i]
        \/ spaces'[i] = [spaces[i] EXCEPT !.posted = TRUE]
        \/ spaces'[i] = [spaces[i] EXCEPT !.announced = TRUE]
    <3>1. DOMAIN spaces = 1..Len(spaces)
      BY <1>0
    <3> QED
      BY <2>1, <2>3, <3>1, Zenon
  <2> QED
    BY <2>3, <2>4 DEF Space
<1>4. UNCHANGED spaces
      \/ \E r \in Starts : Create(r) \/ CreatePost(r) \/ PublishWebSocketEvent(r)
  BY DEF MeetingStep, StartStep, StartCall, CheckOpen, CheckGet, CheckPurge, Admit, UseOpen,
     UseGet, UsePurge, Refresh, Save, DropOpen, Drop, StoreHandle, Purge
<1> QED
  BY <1>1, <1>2, <1>3, <1>4

\* Starting a meeting touches nothing of the connects and callbacks in flight.
LEMMA MeetingFrame ==
    ASSUME TypeInv, MeetingStep
    PROVE  UNCHANGED <<states, pages, connect, callback, disconnect, spent>> /\ NoNewGrants
<1>0. google \in [Grants -> Grant \cup {None}] /\ \A q \in Starts : StartFilled(q)
  BY DEF TypeInv, StartInv, MeetingInv, StartsFilled, ConnectInv, ConnectTypeOK
<1>1. UNCHANGED <<states, pages, connect, callback, disconnect, spent>>
  BY DEF MeetingStep, StartStep, StartCall, CheckOpen, CheckGet, CheckPurge, Admit, UseOpen,
     UseGet, UsePurge, Refresh, Save, Create, DropOpen, Drop, CreatePost,
     PublishWebSocketEvent, StoreHandle, Purge, connectVars, storeVars, googleVars,
     requestVars
<1>2. ASSUME NEW r \in Starts, Refresh(r)
      PROVE  NoNewGrants
  <2>1. google[start[r].tok.grant] # None
    BY <1>0, <1>2 DEF Refresh, StartFilled, Holding
  <2> QED
    BY <1>0, <1>2, <2>1 DEF Refresh, NoNewGrants
<1>3. UNCHANGED google => NoNewGrants
  BY DEF NoNewGrants
<1> QED
  BY <1>1, <1>2, <1>3
     DEF MeetingStep, StartStep, StartCall, CheckOpen, CheckGet, CheckPurge, Admit, UseOpen,
     UseGet, UsePurge, Save, Create, DropOpen, Drop, CreatePost,
     PublishWebSocketEvent, StoreHandle, Purge, connectVars, googleVars
-----------------------------------------------------------------------------
(* The chain holds *)

\* What was true of a token stays true while it lies where it is.
LEMMA OwnersKept ==
    ASSUME TypeInv, LinkInv, GrantsKept,
           \A u \in Users : tokens'[u] \in {tokens[u], None}, UNCHANGED meetingVars
    PROVE  OwnAccount' /\ StartsTrue' /\ MeetingOwnAccount'
<1>1. OwnAccount'
  <2>1. ASSUME NEW u \in Users, tokens'[u] # None
        PROVE  google'[tokens'[u].tok.grant].owner = u
    <3>1. tokens'[u] = tokens[u] /\ tokens[u] \in Blob
      BY <2>1 DEF TypeInv, StartInv, ConnectInv, ConnectTypeOK
    <3>2. google[tokens[u].tok.grant] # None /\ google[tokens[u].tok.grant].owner = u
      BY <2>1, <3>1 DEF TypeInv, StartInv, TokensBacked, LinkInv, OwnAccount
    <3> QED
      BY <3>1, <3>2 DEF GrantsKept, Blob, Token
  <2> QED
    BY <2>1 DEF OwnAccount
<1>2. StartsTrue'
  <2>1. ASSUME NEW r \in Starts, start[r].pc \in Holding
        PROVE  google'[start[r].tok.grant].owner = google[start[r].tok.grant].owner
    BY <2>1 DEF TypeInv, StartInv, MeetingInv, StartsFilled, StartFilled, GrantsKept, Token
  <2> QED
    BY <2>1 DEF meetingVars, LinkInv, StartsTrue
<1>3. MeetingOwnAccount'
  BY DEF meetingVars, LinkInv, MeetingOwnAccount
<1> QED
  BY <1>1, <1>2, <1>3

LEMMA LinkInvInit ==
    ASSUME Init
    PROVE  LinkInv
<1>1. PICK prior \in [PriorGrants -> PriorGrant] :
        google = [g \in Grants |-> IF g \in PriorGrants THEN prior[g] ELSE None]
  BY DEF Init, ConnectInit
<1>2. GrantsTrue
  BY <1>1, ConnectAssumption DEF GrantsTrue, PriorGrant
<1>3. PagesTrue /\ ConnectsApart /\ SpentGone /\ CallbacksTrue
  BY DEF Init, ConnectInit, ConnectIdle, CallbackIdle, PagesTrue, ConnectsApart, SpentGone,
         CallbacksTrue
<1>4. OwnAccount
  BY DEF Init, ConnectInit, PriorToken, OwnAccount
<1>5. StartsTrue /\ MeetingOwnAccount
  BY DEF Init, MeetingInit, StartIdle, StartsTrue, Holding, MeetingOwnAccount
<1> QED
  BY <1>2, <1>3, <1>4, <1>5 DEF LinkInv, FlowInv

LEMMA LinkInvStep ==
    ASSUME TypeInv, LinkInv, [Next]_vars
    PROVE  LinkInv'
<1>0. /\ ConfTypeOK /\ ConnectInv /\ FlowInv /\ ConnectTypeOK
      /\ GrantsKept
  BY TypeInvStep DEF TypeInv, StartInv, ConnectInv, LinkInv
<1>1. ASSUME UNCHANGED <<connectVars, meetingVars>>
      PROVE  LinkInv'
  <2>1. /\ UNCHANGED <<tokens, states, pages, google, connect, callback, spent>>
        /\ NoNewGrants
    BY <1>1 DEF connectVars, storeVars, googleVars, requestVars, NoNewGrants
  <2> QED
    BY <1>0, <1>1, <2>1, FlowKept, OwnersKept DEF LinkInv
<1>2. CASE ConnectStep /\ UNCHANGED meetingVars
  <2>1. FlowInv'
    BY <1>0, <1>2, FlowStep
  <2>2. ASSUME NEW c \in Callbacks, CallbackStore(c)
        PROVE  OwnAccount'
    <3>1. /\ callback[c].user = google[callback[c].grant].owner
          /\ UNCHANGED google
      BY <2>2 DEF CallbackStore, googleVars, LinkInv, FlowInv, CallbacksTrue
    <3> QED
      BY <1>0, <2>2, <3>1 DEF CallbackStore, LinkInv, OwnAccount, ConnectTypeOK
  <2>3. (\E c \in Callbacks : CallbackStore(c)) \/ UNCHANGED tokens
    BY <1>2
       DEF ConnectStep, ConnectCall, ConnectStore, ConnectRedirect, Consent, GoogleRevoke,
           StateExpire, CallbackCall, CallbackGetState, CallbackDeleteState,
           CallbackExchange, storeVars
  <2>4. StartsTrue' /\ MeetingOwnAccount'
    <3>1. ASSUME NEW r \in Starts, start[r].pc \in Holding
          PROVE  google'[start[r].tok.grant].owner = google[start[r].tok.grant].owner
      BY <1>0, <3>1
         DEF TypeInv, StartInv, MeetingInv, StartsFilled, StartFilled, GrantsKept, Token
    <3> QED
      BY <1>2, <3>1 DEF meetingVars, LinkInv, StartsTrue, MeetingOwnAccount
  <2> QED
    BY <1>0, <1>2, <2>1, <2>2, <2>3, <2>4, OwnersKept DEF LinkInv
<1>3. CASE DisconnectStep /\ UNCHANGED meetingVars
  <2>1. UNCHANGED <<states, pages, google, connect, callback, spent>> /\ NoNewGrants
    BY <1>3 DEF DisconnectStep, DisconnectCall, DisconnectDelete, DisconnectDeleteFails,
                storeVars, googleVars, NoNewGrants
  <2>2. \A u \in Users : tokens'[u] \in {tokens[u], None}
    BY <1>0, <1>3 DEF DisconnectStep, DisconnectCall, DisconnectDelete,
                      DisconnectDeleteFails, storeVars, ConnectTypeOK
  <2> QED
    BY <1>0, <1>3, <2>1, <2>2, FlowKept, OwnersKept DEF LinkInv
<1>4. CASE MeetingStep
  <2>1. FlowInv'
    BY <1>0, <1>4, FlowKept, MeetingFrame
  <2>2. ASSUME NEW r \in Starts, start[r].pc \in Holding
        PROVE  /\ google[start[r].tok.grant].owner = start[r].user
               /\ google'[start[r].tok.grant].owner = start[r].user
    BY <1>0, <2>2 DEF TypeInv, StartInv, MeetingInv, StartsFilled, StartFilled, GrantsKept,
       Token, LinkInv, StartsTrue
  <2>3. ASSUME NEW u \in Users, tokens[u] # None
        PROVE  google'[tokens[u].tok.grant].owner = u
    BY <1>0, <2>3 DEF TypeInv, StartInv, TokensBacked, GrantsKept, ConnectTypeOK, Blob, Token,
       LinkInv, OwnAccount
  <2>4. OwnAccount'
    <3>1. ASSUME NEW u \in Users, tokens'[u] # None
          PROVE  google'[tokens'[u].tok.grant].owner = u
      <4>1. ASSUME NEW r \in Starts, start[r].pc = "save", start[r].user = u,
                   tokens'[u] = [key |-> start[r].key, tok |-> start[r].tok]
            PROVE  google'[tokens'[u].tok.grant].owner = u
        BY <2>2, <4>1 DEF Holding
      <4> QED
        BY <1>4, <2>3, <3>1, <4>1, MeetingTokens
    <3> QED
      BY <3>1 DEF OwnAccount
  <2>5. StartsTrue'
    <3>1. ASSUME NEW r \in Starts, start'[r].pc \in Holding
          PROVE  google'[start'[r].tok.grant].owner = start'[r].user
      <4>1. start'[r].user = start[r].user
        BY <1>4, <3>1, MeetingHolds
      <4>2. CASE start[r].pc \in Holding /\ start'[r].tok.grant = start[r].tok.grant
        BY <2>2, <4>1, <4>2
      <4>3. CASE /\ start[r].pc = "use_get"
                 /\ tokens[start[r].user] # None
                 /\ start'[r].tok = tokens[start[r].user].tok
        <5>1. start[r].user \in Users
          BY <4>3 DEF TypeInv, StartInv, MeetingInv, StartsFilled, StartFilled
        <5> QED
          BY <2>3, <4>1, <4>3, <5>1
      <4> QED
        BY <1>4, <3>1, <4>2, <4>3, MeetingHolds
    <3> QED
      BY <3>1 DEF StartsTrue
  <2>6. MeetingOwnAccount'
    BY <1>4, <2>2, MeetingSpaces DEF LinkInv, MeetingOwnAccount, Holding
  <2> QED
    BY <2>1, <2>4, <2>5, <2>6 DEF LinkInv
<1>5. CASE ConnectKill /\ MeetingKill
  <2>1. /\ UNCHANGED <<tokens, states, pages, google, spent, spaces>>
        /\ connect' = [n \in Connects |-> ConnectIdle]
        /\ callback' = [c \in Callbacks |-> CallbackIdle]
        /\ start' = [r \in Starts |-> StartIdle]
    BY <1>5 DEF ConnectKill, MeetingKill, storeVars, googleVars
  <2>2. FlowInv'
    <3>1. PagesTrue' /\ SpentGone' /\ GrantsTrue'
      BY <1>0, <2>1 DEF FlowInv, PagesTrue, SpentGone, GrantsTrue, Pending
    <3>2. ConnectsApart' /\ CallbacksTrue'
      BY <2>1 DEF ConnectsApart, CallbacksTrue, ConnectIdle, CallbackIdle
    <3> QED
      BY <3>1, <3>2 DEF FlowInv
  <2>3. StartsTrue'
    BY <2>1 DEF StartsTrue, StartIdle, Holding
  <2>4. OwnAccount' /\ MeetingOwnAccount'
    BY <2>1 DEF LinkInv, OwnAccount, MeetingOwnAccount
  <2> QED
    BY <2>2, <2>3, <2>4 DEF LinkInv
<1> QED
  BY <1>1, <1>2, <1>3, <1>4, <1>5 DEF Next, vars, DisconnectStep

LEMMA LinkInvAlways == Spec => []LinkInv
<1>1. Init => LinkInv
  BY LinkInvInit
<1>2. TypeInv /\ LinkInv /\ [Next]_vars => LinkInv'
  BY LinkInvStep
<1> QED
  BY <1>1, <1>2, TypeInvAlways, PTL DEF Spec

\* Nobody's connection is ever made with what another user consented to.
THEOREM OwnAccountCorrect == Spec => []OwnAccount
<1>1. LinkInv => OwnAccount
  BY DEF LinkInv
<1> QED
  BY <1>1, LinkInvAlways, PTL

\* No meeting is ever held on another user's Google account.
THEOREM MeetingOwnAccountCorrect == Spec => []MeetingOwnAccount
<1>1. LinkInv => MeetingOwnAccount
  BY DEF LinkInv
<1> QED
  BY <1>1, LinkInvAlways, PTL

\* A callback that comes after its state was spent never reaches the exchange.
THEOREM StateOneShotCorrect == Spec => []StateOneShot
<1>1. LinkInv => StateOneShot
  BY DEF LinkInv, FlowInv, CallbacksTrue, StateOneShot
<1> QED
  BY <1>1, LinkInvAlways, PTL

\* An open consent page has its state in the store until it is spent.
THEOREM PageBackedCorrect == Spec => []PageBacked
<1>1. LinkInv => PageBacked
  BY DEF LinkInv, FlowInv, PagesTrue, PageBacked
<1> QED
  BY <1>1, LinkInvAlways, PTL

-----------------------------------------------------------------------------
(* Disconnecting *)

\* A quiet disconnect leaves nothing behind that could bring the token back.
QuietInv ==
    \A u \in Users :
        severed[u] = "quiet" => tokens[u] = None /\ ~ Refreshing(u) /\ ~ Returning(u)

LEMMA QuietInvStep ==
    ASSUME TypeInv, LinkInv, QuietInv, [Next]_vars
    PROVE  QuietInv'
<1>0. /\ GrantsKept /\ ConnectInv /\ ConnectTypeOK /\ CallbacksFilled /\ CallbacksTrue
      /\ severed \in [Users -> {"no", "quiet", "busy"}]
  BY TypeInvStep DEF TypeInv, StartInv, ConnectInv, LinkInv, FlowInv
<1>r. ASSUME UNCHANGED callback
      PROVE  \A u \in Users : Returning(u)' = Returning(u)
  <2>1. \A c \in Callbacks : callback[c].pc # "idle" =>
          google'[callback[c].grant].owner = google[callback[c].grant].owner
    BY <1>0 DEF CallbacksFilled, GrantsKept
  <2> QED
    BY <1>r, <2>1 DEF Returning
<1>1. ASSUME UNCHANGED <<connectVars, meetingVars, severed>>
      PROVE  QuietInv'
  BY <1>1, <1>r DEF connectVars, storeVars, requestVars, meetingVars, QuietInv, Refreshing
<1>2. CASE /\ ConnectStep
           /\ severed' = [u \in Users |-> IF Returning(u)' THEN "no" ELSE severed[u]]
           /\ UNCHANGED meetingVars
  <2>1. ASSUME NEW u \in Users, severed'[u] = "quiet"
        PROVE  tokens'[u] = None /\ ~ Refreshing(u)' /\ ~ Returning(u)'
    <3>1. severed[u] = "quiet" /\ ~ Returning(u)'
      BY <1>2, <2>1
    <3>2. tokens[u] = None /\ ~ Refreshing(u) /\ ~ Returning(u)
      BY <3>1 DEF QuietInv
    <3>3. ASSUME NEW c \in Callbacks, CallbackStore(c)
          PROVE  tokens'[u] = None
      <4>1. callback[c].user # u
        BY <1>0, <3>2, <3>3 DEF CallbackStore, CallbacksTrue, Returning
      <4> QED
        BY <1>0, <3>2, <3>3, <4>1 DEF CallbackStore, ConnectTypeOK
    <3>4. (\E c \in Callbacks : CallbackStore(c)) \/ UNCHANGED tokens
      BY <1>2
         DEF ConnectStep, ConnectCall, ConnectStore, ConnectRedirect, Consent, GoogleRevoke,
             StateExpire, CallbackCall, CallbackGetState, CallbackDeleteState,
             CallbackExchange, storeVars
    <3>5. ~ Refreshing(u)'
      BY <1>2, <3>2 DEF meetingVars, Refreshing
    <3> QED
      BY <3>1, <3>2, <3>3, <3>4, <3>5
  <2> QED
    BY <2>1 DEF QuietInv
<1>3. ASSUME NEW d \in Disconnects, UNCHANGED meetingVars,
             \/ (\E u \in Users : DisconnectCall(d, u)) /\ UNCHANGED severed
             \/ DisconnectDeleteFails(d) /\ UNCHANGED severed
      PROVE  QuietInv'
  BY <1>3, <1>r
     DEF DisconnectCall, DisconnectDeleteFails, storeVars, meetingVars, QuietInv, Refreshing
<1>4. ASSUME NEW d \in Disconnects, DisconnectDelete(d), UNCHANGED meetingVars,
             severed' = [severed EXCEPT ![disconnect[d].user] =
                           Severed(disconnect[d].user)]
      PROVE  QuietInv'
  <2> DEFINE u == disconnect[d].user
  <2>1. \A v \in Users : Returning(v)' = Returning(v) /\ Refreshing(v)' = Refreshing(v)
    BY <1>4, <1>r DEF DisconnectDelete, meetingVars, Refreshing
  <2>2. u \in Users /\ tokens'[u] = None /\ severed'[u] = Severed(u)
    BY <1>0, <1>4 DEF DisconnectDelete, ConnectInv, DisconnectsFilled, ConnectTypeOK
  <2>3. \A v \in Users : v # u => tokens'[v] = tokens[v] /\ severed'[v] = severed[v]
    BY <1>0, <1>4 DEF DisconnectDelete, ConnectTypeOK
  <2>4. Severed(u) = "quiet" => ~ Returning(u) /\ ~ Refreshing(u)
    BY DEF Severed
  <2> QED
    BY <2>1, <2>2, <2>3, <2>4 DEF QuietInv
<1>5. CASE MeetingStep /\ UNCHANGED severed
  <2>1. ASSUME NEW u \in Users, severed[u] = "quiet"
        PROVE  tokens'[u] = None /\ ~ Refreshing(u)' /\ ~ Returning(u)'
    <3>1. tokens[u] = None /\ ~ Refreshing(u) /\ ~ Returning(u)
      BY <2>1 DEF QuietInv
    <3>2. tokens'[u] = None
      BY <1>5, <3>1, MeetingTokens DEF Refreshing
    <3>3. ~ Refreshing(u)'
      <4>1. SUFFICES ASSUME NEW r \in Starts,
                            start'[r].user = u, start'[r].pc \in {"refresh", "save"}
                     PROVE  FALSE
        BY DEF Refreshing
      <4>2. start'[r].pc \in Holding
        BY <4>1 DEF Holding
      <4>3. start[r].user = u /\ (start[r].pc \in {"refresh", "save"} \/ tokens[u] # None)
        BY <1>5, <4>1, <4>2, MeetingHolds
      <4> QED
        BY <3>1, <4>3 DEF Refreshing
    <3>4. ~ Returning(u)'
      BY <1>5, <1>r, <3>1, MeetingFrame
    <3> QED
      BY <3>2, <3>3, <3>4
  <2> QED
    BY <1>5, <2>1 DEF QuietInv
<1>6. CASE ConnectKill /\ MeetingKill /\ UNCHANGED severed
  <2>1. /\ UNCHANGED tokens
        /\ \A c \in Callbacks : callback'[c].pc = "idle"
        /\ \A r \in Starts : start'[r].pc = "idle"
    BY <1>6 DEF ConnectKill, MeetingKill, CallbackIdle, StartIdle, storeVars
  <2> QED
    BY <1>6, <2>1 DEF QuietInv, Refreshing, Returning
<1> QED
  BY <1>1, <1>2, <1>3, <1>4, <1>5, <1>6 DEF Next, vars

\* A disconnect that raced with neither a refresh nor a callback of the user's
\* lasts until the user connects again.
THEOREM QuietDisconnectCorrect == Spec => []QuietDisconnect
<1>1. Init => QuietInv
  BY DEF Init, QuietInv
<1>2. TypeInv /\ LinkInv /\ QuietInv /\ [Next]_vars => QuietInv'
  BY QuietInvStep
<1>3. QuietInv => QuietDisconnect
  BY DEF QuietInv, QuietDisconnect
<1> QED
  BY <1>1, <1>2, <1>3, TypeInvAlways, LinkInvAlways, PTL DEF Spec

-----------------------------------------------------------------------------
(* Refresh tokens *)

\* A user's refreshes come one at a time.
OneRefresh ==
    \A r, q \in Starts :
        /\ start[r].pc \in {"refresh", "save"} /\ start[q].pc \in {"refresh", "save"}
        /\ start[r].user = start[q].user
        => r = q

\* A refresh that fails here has not happened at Google either, and one that
\* succeeds is saved.
RefreshLands ==
    \A r \in Starts :
        /\ start[r].pc = "refresh" /\ start'[r].pc = "idle" => UNCHANGED google
        /\ start[r].pc = "save" /\ start'[r].pc # "save" =>
             tokens'[start[r].user] = [key |-> start[r].key, tok |-> start[r].tok]

Refreshes(r) == start[r].pc \in {"refresh", "save"}

Used(g) == google[g].stage # "code"

\* Only a grant whose code was exchanged has tokens here.
TokensUsed ==
    /\ \A u \in Users : tokens[u] # None => Used(tokens[u].tok.grant)
    /\ \A r \in Starts : start[r].pc \in Holding => Used(start[r].tok.grant)

\* A callback is about to store the first token of its grant.
FirstTokens ==
    \A c \in Callbacks : callback[c].pc = "store" =>
        LET g == callback[c].grant
        IN  /\ Used(g) /\ google[g].rt = 1
            /\ \A u \in Users : tokens[u] # None => tokens[u].tok.grant # g
            /\ \A r \in Starts : start[r].pc \in Holding => start[r].tok.grant # g
            /\ \A d \in Callbacks : callback[d].pc = "store" /\ callback[d].grant = g => d = c

CodesFresh == \A g \in Grants : google[g] # None /\ ~ Used(g) => google[g].rt = 1

\* A request refreshes with the grant's present refresh token.
RefreshesCurrent ==
    \A r \in Starts : Refreshes(r) => start[r].tok.rt = google[start[r].tok.grant].rt

RefreshInv ==
    /\ TokensUsed
    /\ FirstTokens
    /\ CodesFresh
    /\ RefreshesCurrent
    /\ RefreshTokenKept

\* A refresh moves one request, and the refresh token of one grant.
LEMMA RefreshMoves ==
    ASSUME TypeInv, NEW r \in Starts, Refresh(r)
    PROVE  LET g == start[r].tok.grant
           IN  /\ start[r].pc = "refresh" /\ g \in Grants /\ google[g] # None
               /\ UNCHANGED tokens
               /\ \A q \in Starts : q # r => start'[q] = start[q]
               /\ \A f \in Grants : f # g => google'[f] = google[f]
               /\ google'[g].stage = google[g].stage
               /\ \/ start'[r].pc = "idle"
                  \/ /\ start'[r].pc = "save" /\ start'[r].user = start[r].user
                     /\ start'[r].tok.grant = g /\ start'[r].tok.rt = google'[g].rt
               /\ UNCHANGED google \/ google[g].stage = "token"
<1> DEFINE g == start[r].tok.grant
<1>0. /\ start \in [Starts -> StartRequest]
      /\ google \in [Grants -> Grant \cup {None}]
      /\ start[r].pc = "refresh" /\ UNCHANGED tokens
      /\ StartFilled(r)
  BY DEF TypeInv, StartInv, MeetingInv, StartsFilled, ConnectInv, ConnectTypeOK, Refresh,
         storeVars
<1>1. start[r].tok \in Token /\ google[g] # None /\ g \in Grants /\ google[g] \in Grant
  BY <1>0 DEF StartFilled, Holding, Token
<1>2. ASSUME NEW rt \in 1..MaxRefresh, google' = [google EXCEPT ![g].rt = rt]
      PROVE  /\ google'[g].stage = google[g].stage /\ google'[g].rt = rt
             /\ \A f \in Grants : f # g => google'[f] = google[f]
  <2> DEFINE x == [google[g] EXCEPT !.rt = rt]
  <2>1. google' = [google EXCEPT ![g] = x] /\ x.rt = rt /\ x.stage = google[g].stage
    BY <1>0, <1>1, <1>2 DEF Grant
  <2> HIDE DEF x, g
  <2> QED
    BY <1>0, <1>1, <2>1
<1>3. ASSUME NEW rt \in 1..MaxRefresh, start' = [start EXCEPT ![r].pc = "save", ![r].tok.rt = rt]
      PROVE  /\ start'[r].pc = "save" /\ start'[r].user = start[r].user
             /\ start'[r].tok.grant = g /\ start'[r].tok.rt = rt
             /\ \A q \in Starts : q # r => start'[q] = start[q]
  <2>1. start \in [Starts -> StartRequest] /\ start[r].tok \in Token
    BY <1>0, <1>1
  <2> QED
    BY <1>3, <2>1, RefreshedType
<1>4. ASSUME Answer(r, "meeting_failed")
      PROVE  start'[r].pc = "idle" /\ \A q \in Starts : q # r => start'[q] = start[q]
  BY <1>0, <1>4, AnswerType DEF Refusals
<1>5. \/ /\ google[g].stage = "token"
         /\ \E rt \in 1..MaxRefresh :
              /\ google' = [google EXCEPT ![g].rt = rt]
              /\ start' = [start EXCEPT ![r].pc = "save", ![r].tok.rt = rt]
      \/ /\ google[g].stage = "token"
         /\ \E rt \in 1..MaxRefresh : google' = [google EXCEPT ![g].rt = rt]
         /\ Answer(r, "meeting_failed")
      \/ Answer(r, "meeting_failed") /\ UNCHANGED google
  BY DEF Refresh, Refreshable
<1> HIDE DEF g
<1>6. /\ \A q \in Starts : q # r => start'[q] = start[q]
      /\ \A f \in Grants : f # g => google'[f] = google[f]
      /\ google'[g].stage = google[g].stage
      /\ \/ start'[r].pc = "idle"
         \/ /\ start'[r].pc = "save" /\ start'[r].user = start[r].user
            /\ start'[r].tok.grant = g /\ start'[r].tok.rt = google'[g].rt
      /\ UNCHANGED google \/ google[g].stage = "token"
  BY <1>2, <1>3, <1>4, <1>5
<1> QED
  BY <1>0, <1>1, <1>6 DEF g

\* Where the token in a request's hand comes from.
LEMMA TokenInHand ==
    ASSUME TypeInv, MeetingStep, NEW r \in Starts, start'[r].pc \in Holding
    PROVE  /\ start'[r].user = start[r].user
           /\ \/ /\ start[r].pc \in Holding /\ start'[r].tok = start[r].tok
                 /\ start'[r].pc \in {"refresh", "save"} => start'[r].pc = start[r].pc
              \/ /\ Refresh(r) /\ start'[r].pc = "save"
                 /\ start'[r].tok.grant = start[r].tok.grant
                 /\ start'[r].tok.rt = google'[start[r].tok.grant].rt
              \/ /\ start[r].pc = "use_get" /\ UNCHANGED <<tokens, google>>
                 /\ tokens[start[r].user] # None
                 /\ start'[r].tok = tokens[start[r].user].tok
                 /\ start'[r].pc # "save"
<1>0. /\ start \in [Starts -> StartRequest]
      /\ \A q \in Starts : StartFilled(q)
      /\ google \in [Grants -> Grant \cup {None}]
  BY DEF TypeInv, StartInv, MeetingInv, StartsFilled, ConnectInv, ConnectTypeOK
<1>u. start'[r].user = start[r].user
  BY MeetingHolds
<1> SUFFICES ASSUME start'[r] # start[r]
             PROVE  \/ /\ start[r].pc \in Holding /\ start'[r].tok = start[r].tok
                       /\ start'[r].pc \in {"refresh", "save"} => start'[r].pc = start[r].pc
                    \/ /\ Refresh(r) /\ start'[r].pc = "save"
                       /\ start'[r].tok.grant = start[r].tok.grant
                       /\ start'[r].tok.rt = google'[start[r].tok.grant].rt
                    \/ /\ start[r].pc = "use_get" /\ UNCHANGED <<tokens, google>>
                       /\ tokens[start[r].user] # None
                       /\ start'[r].tok = tokens[start[r].user].tok
                       /\ start'[r].pc # "save"
  BY <1>u DEF Holding
<1>1. ASSUME NEW q \in Starts, NEW x, start' = [start EXCEPT ![q] = x]
      PROVE  q = r /\ start'[r] = x
  BY <1>0, <1>1
<1>2. ASSUME NEW q \in Starts, NEW reply, Answer(q, reply)
      PROVE  FALSE
  <2> DEFINE x == [StartIdle EXCEPT !.user = start[q].user, !.reply = reply]
  <2>1. x.pc = "idle"
    BY DEF StartIdle
  <2>2. start' = [start EXCEPT ![q] = x]
    BY <1>2 DEF Answer
  <2> HIDE DEF x
  <2> QED
    BY <1>1, <2>1, <2>2 DEF Holding
<1>3. ASSUME NEW q \in Starts, NEW pc \in StartPc, Goto(q, pc)
      PROVE  q = r /\ start'[r].pc = pc /\ start'[r].tok = start[r].tok
  BY <1>0, <1>3, GotoType
<1>4. ASSUME NEW q \in Starts, NEW u \in Users, NEW ch \in Channels, NEW o \in Origins,
             StartCall(q, u, ch, o)
      PROVE  FALSE
  <2> DEFINE x == [StartIdle EXCEPT !.pc = "check_open", !.user = u, !.chan = ch,
                                    !.origin = o, !.since = configuration]
             y == [StartIdle EXCEPT !.user = u, !.reply = "not_configured"]
  <2>1. x.pc \notin Holding /\ y.pc \notin Holding
    BY DEF StartIdle, Holding
  <2>2. start' = [start EXCEPT ![q] = IF Ready THEN x ELSE y]
    BY <1>4 DEF StartCall
  <2> HIDE DEF x, y
  <2> QED
    BY <1>1, <2>1, <2>2
<1>5. ASSUME NEW q \in Starts, CheckOpen(q) \/ UseOpen(q)
      PROVE  FALSE
  <2>1. ASSUME NEW pc \in {"check_get", "use_get"}, start' = [start EXCEPT ![q].pc = pc, ![q].key = OAuthStore]
        PROVE  FALSE
    <3> DEFINE x == [start[q] EXCEPT !.pc = pc, !.key = OAuthStore]
    <3>1. start[q] \in StartRequest /\ start' = [start EXCEPT ![q] = x]
      BY <1>0, <2>1
    <3>2. x.pc = pc
      BY <3>1 DEF StartRequest
    <3> HIDE DEF x
    <3> QED
      BY <1>1, <3>1, <3>2 DEF Holding
  <2> QED
    BY <1>2, <1>5, <2>1 DEF CheckOpen, UseOpen, StoreHandle
<1>6. ASSUME NEW q \in Starts, UseGet(q)
      PROVE  /\ start[r].pc = "use_get" /\ UNCHANGED <<tokens, google>>
             /\ tokens[start[r].user] # None
             /\ start'[r].tok = tokens[start[r].user].tok
             /\ start'[r].pc # "save"
  <2>1. UNCHANGED <<tokens, google>> /\ start[q].pc = "use_get"
    BY <1>6 DEF UseGet, connectVars, storeVars, googleVars
  <2>2. ASSUME NEW pc \in {"refresh", "create"}, Stored(q) # None,
               start' = [start EXCEPT ![q].pc = pc, ![q].tok = Stored(q).tok]
        PROVE  /\ q = r /\ tokens[start[r].user] # None
               /\ start'[r].tok = tokens[start[r].user].tok /\ start'[r].pc # "save"
    <3> DEFINE tok == Stored(q).tok
               x == [start[q] EXCEPT !.pc = pc, !.tok = tok]
    <3>1. start[q] \in StartRequest /\ start' = [start EXCEPT ![q] = x]
      BY <1>0, <2>2
    <3> HIDE DEF tok
    <3>2. x.pc = pc /\ x.tok = tok
      BY <3>1 DEF StartRequest
    <3> HIDE DEF x
    <3>3. q = r /\ start'[r] = x
      BY <1>1, <3>1
    <3> QED
      BY <2>2, <3>2, <3>3 DEF tok, Stored
  <2>3. ~ Goto(q, "use_purge")
    BY <1>3 DEF StartPc, Holding
  <2> QED
    BY <1>2, <1>6, <2>1, <2>2, <2>3 DEF UseGet
<1>7. ASSUME NEW q \in Starts, Refresh(q)
      PROVE  /\ Refresh(r) /\ start'[r].pc = "save"
             /\ start'[r].tok.grant = start[r].tok.grant
             /\ start'[r].tok.rt = google'[start[r].tok.grant].rt
  BY <1>7, RefreshMoves DEF Holding
<1>8. ASSUME NEW q \in Starts, Create(q)
      PROVE  /\ start[r].pc \in Holding /\ start'[r].tok = start[r].tok
             /\ start'[r].pc \notin {"refresh", "save"}
  <2>1. CASE start' = [start EXCEPT ![q].pc = "post", ![q].link = Len(spaces) + 1]
    <3> DEFINE link == Len(spaces) + 1
               x == [start[q] EXCEPT !.pc = "post", !.link = link]
    <3>1. start[q] \in StartRequest /\ start' = [start EXCEPT ![q] = x]
      BY <1>0, <2>1
    <3> HIDE DEF link
    <3>2. x.pc = "post" /\ x.tok = start[q].tok
      BY <3>1 DEF StartRequest
    <3> HIDE DEF x
    <3>3. q = r /\ start'[r] = x /\ start[q].pc = "create"
      BY <1>1, <1>8, <3>1 DEF Create
    <3> QED
      BY <3>2, <3>3 DEF Holding
  <2>2. CASE Goto(q, "drop_open")
    BY <1>3, <1>8, <2>2 DEF Create, StartPc, Holding
  <2> QED
    BY <1>2, <1>8, <2>1, <2>2 DEF Create
<1>9. ASSUME NEW q \in Starts,
             \/ CheckPurge(q) \/ UsePurge(q) \/ Drop(q) \/ PublishWebSocketEvent(q)
             \/ CheckGet(q) \/ Admit(q)
      PROVE  FALSE
  BY <1>2, <1>3, <1>9
     DEF CheckPurge, UsePurge, Drop, PublishWebSocketEvent, CheckGet, Admit, StartPc, Holding
<1>10. ASSUME NEW q \in Starts, Save(q) \/ DropOpen(q) \/ CreatePost(q)
       PROVE  /\ start[r].pc \in Holding /\ start'[r].tok = start[r].tok
              /\ start'[r].pc \notin {"refresh", "save"}
  BY <1>2, <1>3, <1>10 DEF Save, DropOpen, CreatePost, StartPc, Holding
<1> QED
  BY <1>4, <1>5, <1>6, <1>7, <1>8, <1>9, <1>10 DEF MeetingStep, StartStep

\* Grants only go on, and keep their refresh token.
GrantsGoOn ==
    \A g \in Grants : google[g] # None =>
        google'[g].rt = google[g].rt /\ (Used(g) => Used(g)')

\* Steps that leave the requests to start a meeting alone and store no token.
LEMMA RefreshKept ==
    ASSUME TypeInv, RefreshInv, GrantsGoOn, UNCHANGED start,
           \A u \in Users : tokens'[u] \in {tokens[u], None}
    PROVE  /\ TokensUsed' /\ RefreshesCurrent' /\ RefreshTokenKept'
           /\ (\A c \in Callbacks : callback'[c].pc = "store" =>
                 callback[c].pc = "store" /\ callback'[c].grant = callback[c].grant)
              => FirstTokens'
<1>1. ASSUME NEW u \in Users, tokens[u] # None
      PROVE  tokens[u].tok.grant \in Grants /\ google[tokens[u].tok.grant] # None
  BY <1>1 DEF TypeInv, StartInv, TokensBacked, ConnectInv, ConnectTypeOK, Blob, Token
<1>2. ASSUME NEW r \in Starts, start[r].pc \in Holding
      PROVE  start[r].tok.grant \in Grants /\ google[start[r].tok.grant] # None
  BY <1>2 DEF TypeInv, StartInv, MeetingInv, StartsFilled, StartFilled, Token
<1>3. ASSUME NEW c \in Callbacks, callback[c].pc = "store"
      PROVE  callback[c].grant \in Grants /\ google[callback[c].grant] # None
  BY <1>3 DEF TypeInv, StartInv, ConnectInv, CallbacksFilled
<1>4. TokensUsed'
  BY <1>1, <1>2 DEF RefreshInv, TokensUsed, GrantsGoOn
<1>5. RefreshesCurrent'
  BY <1>2 DEF RefreshInv, RefreshesCurrent, GrantsGoOn, Refreshes, Holding
<1>6. RefreshTokenKept'
  BY <1>1 DEF RefreshInv, RefreshTokenKept, GrantsGoOn
<1>7. ASSUME \A c \in Callbacks : callback'[c].pc = "store" =>
               callback[c].pc = "store" /\ callback'[c].grant = callback[c].grant
      PROVE  FirstTokens'
  BY <1>3, <1>7 DEF RefreshInv, FirstTokens, GrantsGoOn
<1> QED
  BY <1>4, <1>5, <1>6, <1>7

LEMMA RefreshConnect ==
    ASSUME TypeInv, RefreshInv, ConnectStep, UNCHANGED start
    PROVE  RefreshInv'
<1>0. /\ ConnectTypeOK /\ CallbacksFilled
      /\ TokensUsed /\ FirstTokens /\ CodesFresh /\ RefreshTokenKept
  BY DEF TypeInv, StartInv, ConnectInv, RefreshInv
<1>g. ASSUME UNCHANGED google
      PROVE  GrantsGoOn /\ CodesFresh'
  BY <1>0, <1>g DEF GrantsGoOn, CodesFresh, Used
<1>c. UNCHANGED callback => \A c \in Callbacks : callback'[c].pc = "store" =>
        callback[c].pc = "store" /\ callback'[c].grant = callback[c].grant
  OBVIOUS
<1>1. ASSUME \/ \E n \in Connects, u \in Users, s \in States : ConnectCall(n, u, s)
             \/ \E n \in Connects : ConnectStore(n) \/ ConnectRedirect(n)
             \/ \E s \in States : StateExpire(s)
      PROVE  RefreshInv'
  <2>1. UNCHANGED <<tokens, google, callback>>
    BY <1>1 DEF ConnectCall, ConnectStore, ConnectRedirect, StateExpire, storeVars,
                googleVars, requestVars
  <2> QED
    BY <1>g, <1>c, <2>1, RefreshKept DEF RefreshInv
<1>2. ASSUME NEW s \in States, NEW g \in Grants, NEW scope \in BOOLEAN, Consent(s, g, scope)
      PROVE  RefreshInv'
  <2>1. /\ UNCHANGED <<tokens, callback>>
        /\ google[g] = None /\ google'[g].rt = 1
        /\ \A f \in Grants : f # g => google'[f] = google[f]
    BY <1>0, <1>2 DEF Consent, storeVars, requestVars, ConnectTypeOK
  <2>2. GrantsGoOn /\ CodesFresh'
    BY <1>0, <2>1 DEF GrantsGoOn, CodesFresh, Used
  <2> QED
    BY <1>c, <2>1, <2>2, RefreshKept DEF RefreshInv
<1>3. ASSUME NEW g \in Grants, NEW stage \in {"token", "revoked"}, google[g] # None,
             google' = [google EXCEPT ![g].stage = stage]
      PROVE  GrantsGoOn /\ CodesFresh'
  <2> DEFINE x == [google[g] EXCEPT !.stage = stage]
  <2>1. /\ google' = [google EXCEPT ![g] = x] /\ google[g] \in Grant
        /\ x.stage = stage /\ x.rt = google[g].rt
    BY <1>0, <1>3 DEF ConnectTypeOK, Grant
  <2> HIDE DEF x
  <2>2. google'[g] = x /\ \A f \in Grants : f # g => google'[f] = google[f]
    BY <1>0, <2>1 DEF ConnectTypeOK
  <2> QED
    BY <1>0, <2>1, <2>2 DEF GrantsGoOn, CodesFresh, Used
<1>4. ASSUME NEW g \in Grants, GoogleRevoke(g)
      PROVE  RefreshInv'
  <2>1. UNCHANGED <<tokens, callback>>
    BY <1>4 DEF GoogleRevoke, storeVars, requestVars
  <2>2. GrantsGoOn /\ CodesFresh'
    BY <1>3, <1>4 DEF GoogleRevoke
  <2> QED
    BY <1>c, <2>1, <2>2, RefreshKept DEF RefreshInv
<1>5. ASSUME NEW c \in Callbacks,
             \/ \E g \in Grants : CallbackCall(c, g)
             \/ CallbackGetState(c) \/ CallbackDeleteState(c)
      PROVE  RefreshInv'
  <2>1. UNCHANGED <<tokens, google>>
    BY <1>5 DEF CallbackCall, CallbackGetState, CallbackDeleteState, storeVars, googleVars
  <2>2. callback'[c].pc # "store" /\ \A d \in Callbacks : d # c => callback'[d] = callback[d]
    <3>1. ASSUME NEW x, x.pc # "store", callback' = [callback EXCEPT ![c] = x]
          PROVE  callback'[c].pc # "store" /\ \A d \in Callbacks : d # c => callback'[d] = callback[d]
      BY <1>0, <3>1 DEF ConnectTypeOK
    <3>2. CASE CallbackEnds(c)
      BY <1>0, <3>2, CallbackStops DEF ConnectTypeOK
    <3>3. ASSUME NEW g \in Grants, CallbackCall(c, g)
          PROVE  callback'[c].pc # "store" /\ \A d \in Callbacks : d # c => callback'[d] = callback[d]
      BY <1>0, <3>3 DEF CallbackCall, ConnectTypeOK
    <3>4. ASSUME Pending(CallbackState(c)),
                 callback' = [callback EXCEPT ![c].pc = "delete",
                                              ![c].user = states[CallbackState(c)]]
          PROVE  callback'[c].pc # "store" /\ \A d \in Callbacks : d # c => callback'[d] = callback[d]
      BY <1>0, <3>4, CallbackFinds DEF ConnectTypeOK, Pending
    <3>5. ASSUME callback' = [callback EXCEPT ![c].pc = "exchange"]
          PROVE  callback'[c].pc # "store" /\ \A d \in Callbacks : d # c => callback'[d] = callback[d]
      BY <1>0, <3>5, CallbackGoes DEF ConnectTypeOK
    <3> QED
      BY <1>5, <3>2, <3>3, <3>4, <3>5 DEF CallbackGetState, CallbackDeleteState
  <2> QED
    BY <1>g, <2>1, <2>2, RefreshKept DEF RefreshInv
<1>6. ASSUME NEW c \in Callbacks, CallbackExchange(c)
      PROVE  RefreshInv'
  <2> DEFINE g == callback[c].grant
  <2>1. /\ UNCHANGED tokens /\ callback[c].pc = "exchange"
        /\ g \in Grants /\ google[g] # None
    BY <1>0, <1>6 DEF CallbackExchange, storeVars, CallbacksFilled
  <2>2. CASE CallbackEnds(c)
    <3>1. GrantsGoOn /\ CodesFresh'
      BY <1>g, <1>3, <1>6, <2>1 DEF CallbackExchange
    <3>2. callback'[c].pc = "idle" /\ \A d \in Callbacks : d # c => callback'[d] = callback[d]
      BY <1>0, <2>2, CallbackStops DEF ConnectTypeOK
    <3> QED
      BY <2>1, <3>1, <3>2, RefreshKept DEF RefreshInv
  <2>3. CASE /\ google[g].stage = "code"
             /\ google' = [google EXCEPT ![g].stage = "token"]
             /\ callback' = [callback EXCEPT ![c].pc = "store"]
    <3>1. GrantsGoOn /\ CodesFresh'
      BY <1>3, <2>1, <2>3
    <3>2. google'[g].stage = "token" /\ google'[g].rt = google[g].rt
      BY <1>0, <2>1, <2>3, <3>1 DEF ConnectTypeOK, Grant, GrantsGoOn
    <3>3. /\ callback'[c].pc = "store" /\ callback'[c].grant = g
          /\ \A d \in Callbacks : d # c => callback'[d] = callback[d]
      BY <1>0, <2>3, CallbackGoes DEF ConnectTypeOK
    <3>4. /\ ~ Used(g) /\ google[g].rt = 1
          /\ \A u \in Users : tokens[u] # None => tokens[u].tok.grant # g
          /\ \A r \in Starts : start[r].pc \in Holding => start[r].tok.grant # g
          /\ \A d \in Callbacks : callback[d].pc = "store" => callback[d].grant # g
      BY <1>0, <2>1, <2>3 DEF TokensUsed, CodesFresh, FirstTokens, Used
    <3>5. \A d \in Callbacks : callback[d].pc = "store" =>
            callback[d].grant \in Grants /\ google[callback[d].grant] # None
      BY <1>0 DEF CallbacksFilled
    <3>6. FirstTokens'
      <4>1. ASSUME NEW d \in Callbacks, d # c, callback'[d].pc = "store"
            PROVE  /\ callback'[d] = callback[d] /\ callback[d].pc = "store"
                   /\ callback[d].grant # g
                   /\ google'[callback[d].grant].stage # "code"
                   /\ google'[callback[d].grant].rt = 1
        <5>1. callback'[d] = callback[d] /\ callback[d].pc = "store" /\ callback[d].grant # g
          BY <3>3, <3>4, <4>1
        <5>2. Used(callback[d].grant) /\ google[callback[d].grant].rt = 1
          BY <1>0, <5>1 DEF FirstTokens
        <5> QED
          BY <3>1, <3>5, <5>1, <5>2 DEF GrantsGoOn, Used
      <4> HIDE DEF g
      <4>2. \A d \in Callbacks : callback'[d].pc = "store" =>
              /\ google'[callback'[d].grant].stage # "code"
              /\ google'[callback'[d].grant].rt = 1
              /\ \A e \in Callbacks :
                   callback'[e].pc = "store" /\ callback'[e].grant = callback'[d].grant => e = d
        <5>1. \A d, e \in Callbacks :
                /\ d # c /\ callback'[d].pc = "store" /\ e # c /\ callback'[e].pc = "store"
                /\ callback'[e].grant = callback'[d].grant
                => e = d
          BY <1>0, <4>1 DEF FirstTokens
        <5> QED
          BY <3>2, <3>3, <3>4, <4>1, <5>1
      <4>3. \A d \in Callbacks : callback'[d].pc = "store" =>
              /\ \A u \in Users : tokens[u] # None => tokens[u].tok.grant # callback'[d].grant
              /\ \A r \in Starts : start[r].pc \in Holding =>
                   start[r].tok.grant # callback'[d].grant
        BY <1>0, <3>3, <3>4, <4>1 DEF FirstTokens
      <4> QED
        BY <2>1, <4>2, <4>3 DEF FirstTokens, Used
    <3> QED
      BY <2>1, <3>1, <3>6, RefreshKept DEF RefreshInv
  <2> QED
    BY <1>6, <2>2, <2>3 DEF CallbackExchange, Exchangeable
<1>7. ASSUME NEW c \in Callbacks, CallbackStore(c)
      PROVE  RefreshInv'
  <2> DEFINE g == callback[c].grant
             blob == [key |-> callback[c].key, tok |-> [grant |-> g, rt |-> 1]]
  <2>1. /\ UNCHANGED google /\ callback[c].pc = "store"
        /\ callback'[c].pc = "idle" /\ \A d \in Callbacks : d # c => callback'[d] = callback[d]
        /\ \/ tokens' = [tokens EXCEPT ![callback[c].user] = blob]
           \/ UNCHANGED tokens
    BY <1>0, <1>7, CallbackStops DEF CallbackStore, googleVars, ConnectTypeOK
  <2>2. /\ blob.tok.grant = g /\ blob.tok.rt = 1
        /\ Used(g) /\ google[g].rt = 1
        /\ \A d \in Callbacks : callback[d].pc = "store" /\ callback[d].grant = g => d = c
    BY <1>0, <2>1 DEF FirstTokens
  <2> HIDE DEF blob, g
  <2>3. \A u \in Users : tokens'[u] \in {tokens[u], blob}
    BY <1>0, <2>1 DEF ConnectTypeOK
  <2>4. TokensUsed' /\ RefreshTokenKept'
    BY <1>0, <2>1, <2>2, <2>3 DEF TokensUsed, RefreshTokenKept, Used
  <2>5. FirstTokens'
    BY <1>0, <2>1, <2>2, <2>3 DEF FirstTokens, Used, g
  <2>6. RefreshesCurrent'
    BY <2>1 DEF RefreshInv, RefreshesCurrent, Refreshes
  <2> QED
    BY <1>g, <2>1, <2>4, <2>5, <2>6 DEF RefreshInv
<1> QED
  BY <1>1, <1>2, <1>4, <1>5, <1>6, <1>7 DEF ConnectStep

LEMMA SavedToken ==
    ASSUME RefreshLands, NEW r \in Starts, start[r].pc = "save", start'[r].pc # "save"
    PROVE  tokens'[start[r].user].tok = start[r].tok
<1> DEFINE blob == [key |-> start[r].key, tok |-> start[r].tok]
<1>1. tokens'[start[r].user] = blob
  BY DEF RefreshLands
<1>2. blob.tok = start[r].tok
  OBVIOUS
<1> QED
  BY <1>1, <1>2

\* Requests to start a meeting hand refresh tokens on without loss.
LEMMA RefreshMeeting ==
    ASSUME TypeInv, LinkInv, RefreshInv, MeetingStep, OneRefresh, OneRefresh', RefreshLands
    PROVE  RefreshInv'
<1>0. /\ TokensUsed /\ FirstTokens /\ CodesFresh /\ RefreshesCurrent /\ RefreshTokenKept
      /\ OwnAccount /\ StartsTrue
      /\ UNCHANGED callback
  BY MeetingFrame DEF RefreshInv, LinkInv
<1>t. ASSUME NEW u \in Users, tokens[u] # None
      PROVE  tokens[u].tok.grant \in Grants /\ google[tokens[u].tok.grant].owner = u
  BY <1>0, <1>t DEF TypeInv, StartInv, ConnectInv, ConnectTypeOK, Blob, Token, OwnAccount
<1>h. ASSUME NEW r \in Starts, start[r].pc \in Holding
      PROVE  /\ start[r].user \in Users /\ start[r].tok.grant \in Grants
             /\ google[start[r].tok.grant].owner = start[r].user
  BY <1>0, <1>h
     DEF TypeInv, StartInv, MeetingInv, StartsFilled, StartFilled, Token, Holding, StartsTrue
<1>1. ASSUME NEW r \in Starts, Refresh(r)
      PROVE  RefreshInv'
  <2> DEFINE g == start[r].tok.grant
  <2>1. /\ start[r].pc = "refresh" /\ g \in Grants /\ google[g] # None
        /\ UNCHANGED tokens
        /\ \A q \in Starts : q # r => start'[q] = start[q]
        /\ \A f \in Grants : f # g => google'[f] = google[f]
        /\ google'[g].stage = google[g].stage
        /\ \/ start'[r].pc = "idle"
           \/ /\ start'[r].pc = "save" /\ start'[r].user = start[r].user
              /\ start'[r].tok.grant = g /\ start'[r].tok.rt = google'[g].rt
    BY <1>1, RefreshMoves
  <2>2. start[r].pc \in Holding /\ google[g].stage # "code" /\ google[g].owner = start[r].user
    BY <1>0, <1>h, <2>1 DEF Holding, TokensUsed, Used
  <2>3. \A f \in Grants : google'[f].stage = google[f].stage
    BY <2>1
  <2>4. TokensUsed'
    <3>1. \A u \in Users : tokens'[u] # None => google'[tokens'[u].tok.grant].stage # "code"
      BY <1>0, <1>t, <2>1, <2>3 DEF TokensUsed, Used
    <3>2. \A q \in Starts : start'[q].pc \in Holding =>
            start[q].pc \in Holding /\ start'[q].tok.grant = start[q].tok.grant
      BY <2>1, <2>2 DEF Holding
    <3>3. \A q \in Starts : start'[q].pc \in Holding =>
            google'[start'[q].tok.grant].stage # "code"
      BY <1>0, <1>h, <2>3, <3>2 DEF TokensUsed, Used
    <3> QED
      BY <3>1, <3>3 DEF TokensUsed, Used
  <2>5. FirstTokens'
    <3>1. ASSUME NEW c \in Callbacks, callback[c].pc = "store"
          PROVE  /\ callback[c].grant # g /\ callback[c].grant \in Grants
                 /\ google'[callback[c].grant] = google[callback[c].grant]
      <4>1. callback[c].grant # g
        BY <1>0, <2>2, <3>1 DEF FirstTokens
      <4>2. callback[c].grant \in Grants
        BY <3>1 DEF TypeInv, StartInv, ConnectInv, CallbacksFilled
      <4> QED
        BY <2>1, <4>1, <4>2
    <3>2. \A q \in Starts : start'[q].pc \in Holding =>
            start[q].pc \in Holding /\ start'[q].tok.grant = start[q].tok.grant
      BY <2>1, <2>2 DEF Holding
    <3> HIDE DEF g
    <3> QED
      BY <1>0, <2>1, <3>1, <3>2 DEF FirstTokens, Used
  <2>6. CodesFresh'
    BY <1>0, <2>1, <2>2 DEF CodesFresh, Used
  <2>7. ASSUME NEW q \in Starts, Refreshes(q), start[q].tok.grant = g
        PROVE  q = r
    <3>1. start[q].user = start[r].user
      BY <1>h, <2>2, <2>7 DEF Refreshes, Holding
    <3> QED
      BY <2>1, <2>7, <3>1 DEF OneRefresh, Refreshes
  <2>8. RefreshesCurrent'
    <3>1. ASSUME NEW q \in Starts, q # r, Refreshes(q)
          PROVE  start'[q].tok.rt = google'[start'[q].tok.grant].rt
      <4>1. start[q].tok.grant \in Grants /\ start[q].tok.grant # g
        BY <1>h, <2>7, <3>1 DEF Refreshes, Holding
      <4> QED
        BY <1>0, <2>1, <3>1, <4>1 DEF RefreshesCurrent
    <3>2. start'[r].pc # "idle" => start'[r].tok.rt = google'[start'[r].tok.grant].rt
      BY <2>1
    <3> QED
      BY <2>1, <3>1, <3>2 DEF RefreshesCurrent, Refreshes
  <2>9. RefreshTokenKept'
    <3> SUFFICES ASSUME NEW u \in Users, tokens[u] # None
                 PROVE  \/ tokens[u].tok.rt = google'[tokens[u].tok.grant].rt
                        \/ \E q \in Starts : /\ start'[q].pc = "save" /\ start'[q].user = u
                                             /\ start'[q].tok.grant = tokens[u].tok.grant
      BY <2>1 DEF RefreshTokenKept
    <3>1. \/ tokens[u].tok.rt = google[tokens[u].tok.grant].rt
          \/ \E q \in Starts : /\ start'[q].pc = "save" /\ start'[q].user = u
                               /\ start'[q].tok.grant = tokens[u].tok.grant
      BY <1>0, <2>1 DEF RefreshTokenKept
    <3>2. CASE tokens[u].tok.grant # g
      BY <1>t, <2>1, <3>1, <3>2
    <3>3. CASE tokens[u].tok.grant = g /\ start'[r].pc = "save"
      BY <1>t, <2>1, <2>2, <3>3
    <3>4. CASE start'[r].pc = "idle"
      BY <2>1, <3>1, <3>4 DEF RefreshLands
    <3> QED
      BY <2>1, <3>2, <3>3, <3>4
  <2> QED
    BY <2>4, <2>5, <2>6, <2>8, <2>9 DEF RefreshInv
<1>2. ASSUME UNCHANGED google, \A r \in Starts : ~ Refresh(r)
      PROVE  RefreshInv'
  <2>1. ASSUME NEW r \in Starts, start'[r].pc \in Holding
        PROVE  /\ start'[r].user = start[r].user
               /\ \/ /\ start[r].pc \in Holding /\ start'[r].tok = start[r].tok
                     /\ start'[r].pc \in {"refresh", "save"} => start'[r].pc = start[r].pc
                  \/ /\ start[r].pc = "use_get" /\ UNCHANGED tokens
                     /\ tokens[start[r].user] # None /\ start[r].user \in Users
                     /\ start'[r].tok = tokens[start[r].user].tok
                     /\ start'[r].pc # "save"
    <3>1. start[r].pc = "use_get" => start[r].user \in Users
      BY DEF TypeInv, StartInv, MeetingInv, StartsFilled, StartFilled
    <3> QED
      BY <1>2, <2>1, <3>1, TokenInHand
  <2>2. ASSUME NEW u \in Users, tokens'[u] # None
        PROVE  \/ tokens'[u] = tokens[u]
               \/ \E r \in Starts : /\ start[r].pc = "save" /\ start[r].user = u
                                    /\ tokens'[u].tok = start[r].tok
    <3>1. ASSUME NEW r \in Starts, tokens'[u] = [key |-> start[r].key, tok |-> start[r].tok]
          PROVE  tokens'[u].tok = start[r].tok
      BY <3>1
    <3>2. tokens'[u] = tokens[u] \/ ~ (tokens'[u] \in {tokens[u], None})
      BY <2>2
    <3> QED
      BY <3>1, <3>2, MeetingTokens, Zenon
  <2>3. ASSUME NEW q \in Starts, start[q].pc = "save"
        PROVE  \/ /\ start'[q].pc = "save" /\ start'[q].user = start[q].user
                  /\ start'[q].tok = start[q].tok
               \/ tokens'[start[q].user].tok = start[q].tok
    <3>1. CASE start'[q].pc = "save"
      BY <2>1, <2>3, <3>1 DEF Holding
    <3>2. CASE start'[q].pc # "save"
      BY <2>3, <3>2, SavedToken
    <3> QED
      BY <3>1, <3>2
  <2>4. TokensUsed'
    BY <1>0, <1>2, <2>1, <2>2 DEF TokensUsed, Used, Holding
  <2>5. FirstTokens'
    BY <1>0, <1>2, <2>1, <2>2 DEF FirstTokens, Used, Holding
  <2>6. CodesFresh'
    BY <1>0, <1>2 DEF CodesFresh, Used
  <2>7. RefreshesCurrent'
    <3> SUFFICES ASSUME NEW r \in Starts, start'[r].pc \in {"refresh", "save"}
                 PROVE  start'[r].tok.rt = google[start'[r].tok.grant].rt
      BY <1>2 DEF RefreshesCurrent, Refreshes
    <3>1. CASE start[r].pc \in Holding /\ start'[r].tok = start[r].tok /\ start'[r].pc = start[r].pc
      BY <1>0, <3>1 DEF RefreshesCurrent, Refreshes
    <3>2. CASE /\ start[r].pc = "use_get" /\ UNCHANGED tokens /\ start'[r].user = start[r].user
               /\ tokens[start[r].user] # None /\ start[r].user \in Users
               /\ start'[r].tok = tokens[start[r].user].tok
               /\ start'[r].pc # "save"
      <4> DEFINE u == start[r].user
      <4>1. ASSUME NEW q \in Starts, start[q].pc = "save", start[q].user = u
            PROVE  tokens[u].tok.rt = google[tokens[u].tok.grant].rt
        <5>1. start'[q].pc # "save" \/ start'[q].user # u
          BY <3>2, <4>1 DEF OneRefresh
        <5>2. tokens[u].tok = start[q].tok
          BY <2>3, <3>2, <4>1, <5>1
        <5> QED
          BY <1>0, <4>1, <5>2 DEF RefreshesCurrent, Refreshes
      <4> QED
        BY <1>0, <3>2, <4>1 DEF RefreshTokenKept
    <3> QED
      BY <2>1, <3>1, <3>2 DEF Holding
  <2>8. RefreshTokenKept'
    <3> SUFFICES ASSUME NEW u \in Users, tokens'[u] # None
                 PROVE  \/ tokens'[u].tok.rt = google[tokens'[u].tok.grant].rt
                        \/ \E q \in Starts : /\ start'[q].pc = "save" /\ start'[q].user = u
                                             /\ start'[q].tok.grant = tokens'[u].tok.grant
      BY <1>2 DEF RefreshTokenKept
    <3>1. ASSUME NEW q \in Starts, start[q].pc = "save", tokens'[u].tok = start[q].tok
          PROVE  tokens'[u].tok.rt = google[tokens'[u].tok.grant].rt
      BY <1>0, <3>1 DEF RefreshesCurrent, Refreshes
    <3>2. CASE tokens'[u] = tokens[u]
      BY <1>0, <2>3, <3>1, <3>2 DEF RefreshTokenKept
    <3> QED
      BY <2>2, <3>1, <3>2
  <2> QED
    BY <2>4, <2>5, <2>6, <2>7, <2>8 DEF RefreshInv
<1>3. (\E r \in Starts : Refresh(r)) \/ UNCHANGED google
  BY DEF MeetingStep, StartStep, StartCall, CheckOpen, CheckGet, CheckPurge, Admit, UseOpen,
     UseGet, UsePurge, Save, Create, DropOpen, Drop, CreatePost,
     PublishWebSocketEvent, StoreHandle, Purge, connectVars, googleVars
<1> QED
  BY <1>1, <1>2, <1>3

LEMMA RefreshInvInit ==
    ASSUME Init
    PROVE  RefreshInv
<1>1. PICK prior \in [PriorGrants -> PriorGrant] :
        google = [g \in Grants |-> IF g \in PriorGrants THEN prior[g] ELSE None]
  BY DEF Init, ConnectInit
<1>2. \A g \in PriorGrants : g \in Grants /\ google[g].stage = "token" /\ google[g].rt = 1
  BY <1>1, ConnectAssumption DEF PriorGrant
<1>3. \A g \in Grants : google[g] # None => g \in PriorGrants
  BY <1>1
<1>4. \A u \in Users : tokens[u] # None =>
        tokens[u].tok.grant \in PriorGrants /\ tokens[u].tok.rt = 1
  BY DEF Init, ConnectInit, PriorToken
<1>5. /\ \A r \in Starts : start[r].pc = "idle"
      /\ \A c \in Callbacks : callback[c].pc = "idle"
  BY DEF Init, ConnectInit, MeetingInit, StartIdle, CallbackIdle
<1> QED
  BY <1>2, <1>3, <1>4, <1>5
     DEF RefreshInv, TokensUsed, FirstTokens, CodesFresh, RefreshesCurrent, RefreshTokenKept,
         Used, Refreshes, Holding

LEMMA RefreshInvStep ==
    ASSUME TypeInv, LinkInv, RefreshInv, OneRefresh, OneRefresh', [Next /\ RefreshLands]_vars
    PROVE  RefreshInv'
<1>1. ASSUME UNCHANGED <<google, callback, start>>,
             \A u \in Users : tokens'[u] \in {tokens[u], None}
      PROVE  RefreshInv'
  <2>1. GrantsGoOn /\ CodesFresh'
    BY <1>1 DEF GrantsGoOn, RefreshInv, CodesFresh, Used
  <2> QED
    BY <1>1, <2>1, RefreshKept DEF RefreshInv
<1>2. CASE UNCHANGED <<connectVars, meetingVars>>
  BY <1>1, <1>2 DEF connectVars, storeVars, googleVars, requestVars, meetingVars
<1>3. CASE ConnectStep /\ UNCHANGED meetingVars
  BY <1>3, RefreshConnect DEF meetingVars
<1>4. CASE DisconnectStep /\ UNCHANGED meetingVars
  <2>1. tokens \in [Users -> Blob \cup {None}]
    BY DEF TypeInv, StartInv, ConnectInv, ConnectTypeOK
  <2> QED
    BY <1>1, <1>4, <2>1 DEF DisconnectStep, DisconnectCall, DisconnectDelete,
                            DisconnectDeleteFails, storeVars, googleVars, meetingVars
<1>5. CASE MeetingStep /\ RefreshLands
  BY <1>5, RefreshMeeting
<1>6. CASE ConnectKill /\ MeetingKill /\ RefreshLands
  <2>1. /\ UNCHANGED <<tokens, google>>
        /\ \A c \in Callbacks : callback'[c].pc = "idle"
        /\ \A r \in Starts : start'[r].pc = "idle"
    BY <1>6 DEF ConnectKill, MeetingKill, CallbackIdle, StartIdle, storeVars, googleVars
  <2>2. TokensUsed' /\ FirstTokens' /\ CodesFresh' /\ RefreshesCurrent'
    BY <2>1 DEF RefreshInv, TokensUsed, FirstTokens, CodesFresh, RefreshesCurrent, Refreshes,
                Used, Holding
  <2>3. ASSUME NEW r \in Starts, start[r].pc = "save"
        PROVE  /\ tokens[start[r].user].tok = start[r].tok
               /\ start[r].tok.rt = google[start[r].tok.grant].rt
    <3>1. tokens'[start[r].user].tok = start[r].tok
      BY <1>6, <2>1, <2>3, SavedToken
    <3>2. Refreshes(r)
      BY <2>3 DEF Refreshes
    <3> QED
      BY <2>1, <3>1, <3>2 DEF RefreshInv, RefreshesCurrent
  <2>4. RefreshTokenKept'
    BY <2>1, <2>3 DEF RefreshInv, RefreshTokenKept
  <2> QED
    BY <2>2, <2>4 DEF RefreshInv
<1> QED
  BY <1>2, <1>3, <1>4, <1>5, <1>6 DEF Next, vars, DisconnectStep

\* Requests one at a time, and no failure between a refresh and its save,
\* never leave a user with a refresh token that Google has replaced: whatever
\* else fails, and whoever connects and disconnects meanwhile.
THEOREM RefreshTokenKeptCorrect ==
    Spec /\ []OneRefresh /\ [][RefreshLands]_vars => []RefreshTokenKept
<1>1. Init => RefreshInv
  BY RefreshInvInit
<1>2. TypeInv /\ LinkInv /\ RefreshInv /\ OneRefresh /\ OneRefresh'
      /\ [Next]_vars /\ [RefreshLands]_vars => RefreshInv'
  BY RefreshInvStep
<1>3. RefreshInv => RefreshTokenKept
  BY DEF RefreshInv
<1> QED
  BY <1>1, <1>2, <1>3, TypeInvAlways, LinkInvAlways, PTL DEF Spec
=============================================================================
