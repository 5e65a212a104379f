---------------------------- MODULE ConnectFlow ----------------------------
(***************************************************************************)
(* Connecting and disconnecting Google accounts: handleOAuthConnect and    *)
(* handleOAuthCallback in server/api.go, DisconnectUser in server/auth.go, *)
(* the exchange in server/google.go, and the store they share in           *)
(* server/store/kvstore/oauth.go.                                          *)
(*                                                                         *)
(* Each handler runs in a goroutine of its own and is cut where it reads   *)
(* or writes what others share: the store handle, the KV store (one call   *)
(* each; the server gives no transaction over two), Google.  A request     *)
(* slot is reused once its request is answered.  Requests that are refused *)
(* before they change anything are not steps.                              *)
(***************************************************************************)
EXTENDS Configuration

CONSTANTS
    Users,
    States,         \* OAuth state values generateState may draw
    Grants,         \* accesses Google may grant, each with its one-time code
    PriorGrants,    \* those of them given before the model starts
    MaxRefresh,     \* bound on the refresh tokens of one grant
    Connects, Callbacks, Disconnects    \* slots for requests in flight

VARIABLES
    tokens,         \* KV: the blob under each user's key, or None
    states,         \* KV: the user a state was stored for, or why there is none
    pages,          \* Google's consent pages open in browsers, by state
    google,         \* what Google knows of each grant, or None
    connect, callback, disconnect,
    spent           \* history: states a callback consumed, or that expired

storeVars == <<tokens, states>>
googleVars == <<pages, google>>
requestVars == <<connect, callback, disconnect>>
connectVars == <<storeVars, googleVars, requestVars, spent>>

\* A blob: a token encrypted under a key.  The token holds the grant's
\* refresh token number rt.
Token == [grant: Grants, rt: 1..MaxRefresh]
Blob == [key: Keys, tok: Token]
Page == [user: Users, creds: Credentials]
Grant == [owner: Users, state: States \cup {None}, creds: Credentials,
          scope: BOOLEAN, stage: {"code", "token", "revoked"}, rt: 1..MaxRefresh]

ASSUME ConnectAssumption ==
    /\ PriorGrants \subseteq Grants
    /\ MaxRefresh \in Nat \ {0}
    /\ Users \cap {"undrawn", "absent"} = {}
    /\ None \notin Users \cup States \cup Blob \cup Page \cup Grant

\* Requests in flight; fields are None until the request comes to them.
ConnectRequest == [pc: {"idle", "store", "redirect"},
                   user: Users \cup {None}, state: States \cup {None}]
CallbackRequest == [pc: {"idle", "get", "delete", "exchange", "store"},
                    grant: Grants \cup {None}, key: Keys \cup {None},
                    user: Users \cup {None}, late: BOOLEAN]
DisconnectRequest == [pc: {"idle", "delete"}, user: Users \cup {None}]

ConnectIdle == [pc |-> "idle", user |-> None, state |-> None]
CallbackIdle ==
    [pc |-> "idle", grant |-> None, key |-> None, user |-> None, late |-> FALSE]
DisconnectIdle == [pc |-> "idle", user |-> None]

\* The store holds a user for the state: it was stored, and not yet consumed.
Pending(s) == states[s] \in Users

-----------------------------------------------------------------------------
(* GET /oauth/connect *)

\* Mutant: the state is not drawn afresh.
ConnectCallFixedState(n, u, s) ==
    /\ phase = "active"
    /\ OAuthStore # None
    /\ connect[n] = ConnectIdle
    /\ connect' = [connect EXCEPT ![n] = [pc |-> "store", user |-> u, state |-> s]]
    /\ states' = [states EXCEPT ![s] = "absent"]
    /\ UNCHANGED <<tokens, googleVars, callback, disconnect, spent>>

\* The two checks and generateState; the state is not stored yet.
ConnectCall(n, u, s) ==
    /\ phase = "active"
    /\ OAuthStore # None
    /\ connect[n] = ConnectIdle
    /\ states[s] = "undrawn"
    /\ connect' = [connect EXCEPT ![n] = [pc |-> "store", user |-> u, state |-> s]]
    /\ states' = [states EXCEPT ![s] = "absent"]
    /\ UNCHANGED <<tokens, googleVars, callback, disconnect, spent>>

\* Mutant: the state goes under the state's name twice over.
ConnectStoreSwapped(n) ==
    /\ connect[n].pc = "store"
    /\ states' = [states EXCEPT ![connect[n].state] = connect[n].state]
    /\ connect' = [connect EXCEPT ![n].pc = "redirect"]
    /\ UNCHANGED <<tokens, googleVars, callback, disconnect, spent>>

\* Mutant: a state that could not be stored is only logged.
ConnectStoreLogged(n) ==
    /\ connect[n].pc = "store"
    /\ \/ states' = [states EXCEPT ![connect[n].state] = connect[n].user]
       \/ "kv" \in Faults /\ UNCHANGED states
    /\ connect' = [connect EXCEPT ![n].pc = "redirect"]
    /\ UNCHANGED <<tokens, googleVars, callback, disconnect, spent>>

ConnectStore(n) ==
    /\ connect[n].pc = "store"
    /\ \/ /\ states' = [states EXCEPT ![connect[n].state] = connect[n].user]
          /\ connect' = [connect EXCEPT ![n].pc = "redirect"]
       \/ /\ "kv" \in Faults
          /\ connect' = [connect EXCEPT ![n] = ConnectIdle]
          /\ UNCHANGED states
    /\ UNCHANGED <<tokens, googleVars, callback, disconnect, spent>>

\* buildAuthURL reads the configuration and the site URL again.  Without a
\* site URL the request fails and the state stays behind; without a client
\* ID Google shows no consent page.
ConnectRedirect(n) ==
    LET creds == Cfg(configuration).creds
    IN  /\ connect[n].pc = "redirect"
        /\ connect' = [connect EXCEPT ![n] = ConnectIdle]
        /\ IF SiteURL /\ creds # None
           THEN pages' = [pages EXCEPT ![connect[n].state] =
                             [user |-> connect[n].user, creds |-> creds]]
           ELSE UNCHANGED pages
        /\ UNCHANGED <<storeVars, google, callback, disconnect, spent>>

-----------------------------------------------------------------------------
(* Google and the browsers (external), and the KV store's expiry *)

\* The user consents, to all the plugin asks for or to less; a page consents
\* again when the browser goes back to it.
Consent(s, g, scope) ==
    /\ pages[s] # None
    /\ google[g] = None
    /\ google' = [google EXCEPT ![g] =
                    [owner |-> pages[s].user, state |-> s, creds |-> pages[s].creds,
                     scope |-> scope, stage |-> "code", rt |-> 1]]
    /\ UNCHANGED <<storeVars, pages, requestVars, spent>>

GoogleRevoke(g) ==
    /\ "revoke" \in Faults
    /\ google[g] # None
    /\ google[g].stage = "token"
    /\ google' = [google EXCEPT ![g].stage = "revoked"]
    /\ UNCHANGED <<storeVars, pages, requestVars, spent>>

\* stateTTL has passed since the state was stored.
StateExpire(s) ==
    /\ Pending(s)
    /\ states' = [states EXCEPT ![s] = "absent"]
    /\ spent' = spent \cup {s}
    /\ UNCHANGED <<tokens, googleVars, requestVars>>

-----------------------------------------------------------------------------
(* GET /oauth/callback *)

\* The browser follows Google's redirect, once or several times, and soon or
\* late.  The store handle captured here serves the request to its end.
CallbackCall(c, g) ==
    /\ phase = "active"
    /\ OAuthStore # None
    /\ callback[c] = CallbackIdle
    /\ google[g] # None
    /\ google[g].state # None
    /\ callback' = [callback EXCEPT ![c] =
                      [pc |-> "get", grant |-> g, key |-> OAuthStore, user |-> None,
                       late |-> google[g].state \in spent]]
    /\ UNCHANGED <<storeVars, googleVars, connect, disconnect, spent>>

CallbackState(c) == google[callback[c].grant].state

\* The request is answered, with whatever page.
CallbackEnds(c) == callback' = [callback EXCEPT ![c] = CallbackIdle]

\* GetAndDeleteOAuth2State is a Get and then a Delete.
CallbackGetState(c) ==
    /\ callback[c].pc = "get"
    /\ \/ /\ Pending(CallbackState(c))
          /\ callback' = [callback EXCEPT ![c].pc = "delete",
                                          ![c].user = states[CallbackState(c)]]
       \/ (~ Pending(CallbackState(c)) \/ "kv" \in Faults) /\ CallbackEnds(c)
    /\ UNCHANGED <<storeVars, googleVars, connect, disconnect, spent>>

\* Mutant: the state is read and left.
CallbackKeepsState(c) ==
    /\ callback[c].pc = "delete"
    /\ spent' = spent \cup {CallbackState(c)}
    /\ callback' = [callback EXCEPT ![c].pc = "exchange"]
    /\ UNCHANGED <<storeVars, googleVars, connect, disconnect>>

CallbackDeleteState(c) ==
    /\ callback[c].pc = "delete"
    /\ \/ /\ states' = [states EXCEPT ![CallbackState(c)] = "absent"]
          /\ spent' = spent \cup {CallbackState(c)}
          /\ callback' = [callback EXCEPT ![c].pc = "exchange"]
       \/ "kv" \in Faults /\ CallbackEnds(c) /\ UNCHANGED <<states, spent>>
    /\ UNCHANGED <<tokens, googleVars, connect, disconnect>>

\* Google honours a code once, for the client it was given to.
Exchangeable(g) ==
    /\ SiteURL
    /\ google[g].stage = "code"
    /\ google[g].creds = Cfg(configuration).creds

CallbackExchange(c) ==
    LET g == callback[c].grant
        Honoured == google' = [google EXCEPT ![g].stage = "token"]
    IN  /\ callback[c].pc = "exchange"
        /\ \/ /\ Exchangeable(g)
              /\ Honoured
              /\ callback' = [callback EXCEPT ![c].pc = "store"]
           \/ "lost" \in Faults /\ Exchangeable(g) /\ Honoured /\ CallbackEnds(c)
           \/ /\ ~ Exchangeable(g) \/ "google" \in Faults
              /\ CallbackEnds(c)
              /\ UNCHANGED google
        /\ UNCHANGED <<storeVars, pages, connect, disconnect, spent>>

CallbackStore(c) ==
    LET tok == [grant |-> callback[c].grant, rt |-> 1]
    IN  /\ callback[c].pc = "store"
        /\ CallbackEnds(c)
        /\ \/ tokens' = [tokens EXCEPT ![callback[c].user] =
                            [key |-> callback[c].key, tok |-> tok]]
           \/ "kv" \in Faults /\ UNCHANGED tokens
        /\ UNCHANGED <<states, googleVars, connect, disconnect, spent>>

-----------------------------------------------------------------------------
(* /meet disconnect *)

DisconnectCall(d, u) ==
    /\ phase = "active"
    /\ OAuthStore # None
    /\ disconnect[d] = DisconnectIdle
    /\ disconnect' = [disconnect EXCEPT ![d] = [pc |-> "delete", user |-> u]]
    /\ UNCHANGED <<storeVars, googleVars, connect, callback, spent>>

\* The user is told that the account has been disconnected.
DisconnectDelete(d) ==
    /\ disconnect[d].pc = "delete"
    /\ tokens' = [tokens EXCEPT ![disconnect[d].user] = None]
    /\ disconnect' = [disconnect EXCEPT ![d] = DisconnectIdle]
    /\ UNCHANGED <<states, googleVars, connect, callback, spent>>

DisconnectDeleteFails(d) ==
    /\ "kv" \in Faults
    /\ disconnect[d].pc = "delete"
    /\ disconnect' = [disconnect EXCEPT ![d] = DisconnectIdle]
    /\ UNCHANGED <<storeVars, googleVars, connect, callback, spent>>

-----------------------------------------------------------------------------
PriorGrant ==
    [owner: Users, state: {None}, creds: Credentials, scope: BOOLEAN,
     stage: {"token"}, rt: {1}]

PriorToken(u) ==
    /\ tokens[u].key = saves[1].key
    /\ tokens[u].tok.grant \in PriorGrants
    /\ tokens[u].tok.rt = 1
    /\ google[tokens[u].tok.grant].owner = u

\* Tokens of earlier sessions lie in the store under the first key; grants
\* may outlive them.
ConnectInit ==
    /\ \E prior \in [PriorGrants -> PriorGrant] :
          google = [g \in Grants |-> IF g \in PriorGrants THEN prior[g] ELSE None]
    /\ tokens \in [Users -> Blob \cup {None}]
    /\ \A u \in Users : tokens[u] # None => PriorToken(u)
    /\ states = [s \in States |-> "undrawn"]
    /\ pages = [s \in States |-> None]
    /\ connect = [n \in Connects |-> ConnectIdle]
    /\ callback = [c \in Callbacks |-> CallbackIdle]
    /\ disconnect = [d \in Disconnects |-> DisconnectIdle]
    /\ spent = {}

ConnectStep ==
    \/ \E n \in Connects, u \in Users, s \in States : ConnectCall(n, u, s)
    \/ \E n \in Connects : ConnectStore(n) \/ ConnectRedirect(n)
    \/ \E s \in States, g \in Grants, scope \in BOOLEAN : Consent(s, g, scope)
    \/ \E g \in Grants : GoogleRevoke(g)
    \/ \E s \in States : StateExpire(s)
    \/ \E c \in Callbacks, g \in Grants : CallbackCall(c, g)
    \/ \E c \in Callbacks : \/ CallbackGetState(c) \/ CallbackDeleteState(c)
                            \/ CallbackExchange(c) \/ CallbackStore(c)

DisconnectStep ==
    \/ \E d \in Disconnects, u \in Users : DisconnectCall(d, u)
    \/ \E d \in Disconnects : DisconnectDelete(d) \/ DisconnectDeleteFails(d)

\* The requests in flight die with the process; the KV store, Google and the
\* browsers' pages remain.
ConnectKill ==
    /\ connect' = [n \in Connects |-> ConnectIdle]
    /\ callback' = [c \in Callbacks |-> CallbackIdle]
    /\ disconnect' = [d \in Disconnects |-> DisconnectIdle]
    /\ UNCHANGED <<storeVars, googleVars, spent>>

ConnectNext ==
    \/ ConfStep /\ UNCHANGED connectVars
    \/ (ConnectStep \/ DisconnectStep) /\ UNCHANGED confVars
    \/ Stop /\ ConnectKill

ConnectSpec == ConfInit /\ ConnectInit /\ [][ConnectNext]_<<confVars, connectVars>>

-----------------------------------------------------------------------------
(* Properties *)

ConnectTypeOK ==
    /\ tokens \in [Users -> Blob \cup {None}]
    /\ states \in [States -> Users \cup {"undrawn", "absent"}]
    /\ pages \in [States -> Page \cup {None}]
    /\ google \in [Grants -> Grant \cup {None}]
    /\ connect \in [Connects -> ConnectRequest]
    /\ callback \in [Callbacks -> CallbackRequest]
    /\ disconnect \in [Disconnects -> DisconnectRequest]
    /\ spent \subseteq States

\* No interleaving of connects, callbacks and disconnects stores for a user a
\* token that another user's consent produced: the state leads a callback back
\* to the user whose browser asked for it.
OwnAccount ==
    \A u \in Users : tokens[u] # None => google[tokens[u].tok.grant].owner = u

\* A state is good for one connection: a callback that arrives after another
\* one consumed its state, or after the state expired, never gets as far as the
\* exchange.  (Two that arrive together may both: the Get and the Delete of
\* GetAndDeleteOAuth2State are two calls.)
StateOneShot ==
    \A c \in Callbacks : callback[c].late => callback[c].pc \in {"idle", "get"}

\* Nobody is sent to Google in vain: while a consent page is open its state is
\* in the store, until a callback consumes it or it expires.
PageBacked ==
    \A s \in States : pages[s] # None => Pending(s) \/ s \in spent
=============================================================================
