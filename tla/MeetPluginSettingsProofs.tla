---------------------- MODULE MeetPluginSettingsProofs ----------------------
(***************************************************************************)
(* What settings that change under the requests may not lead to: a blob    *)
(* deleted although its key was never changed, and a meeting in a public   *)
(* channel that was restricted all along.                                  *)
(***************************************************************************)
EXTENDS MeetPluginProofs

\* The keys the administrator saved at some time.
SavedKeys == {saves[v].key : v \in 1..Latest}

KeysInv ==
    /\ kvstore \in SavedKeys \cup {None}
    /\ \A u \in Users : tokens[u] # None => tokens[u].key \in SavedKeys
    /\ \A c \in Callbacks : callback[c].pc # "idle" => callback[c].key \in SavedKeys
    /\ \A r \in Starts :
         start[r].pc \notin {"idle", "check_open"} => start[r].key \in SavedKeys
    /\ NoNeedlessPurge

SavesGrow ==
    /\ Latest' \in Nat /\ Latest <= Latest'
    /\ \A v \in 1..Latest : saves'[v] = saves[v]
    /\ \A v \in 0..Latest : Cfg(v)' = Cfg(v)

LEMMA SavesGrowAlways ==
    ASSUME ConfTypeOK, [ConfNext]_confVars
    PROVE  SavesGrow
<1>0. Latest \in Nat /\ saves \in Seq(Settings)
  BY DEF ConfTypeOK, Latest
<1>t. Latest' \in Nat
  BY ConfTypeStep DEF ConfTypeOK, Latest
<1>1. CASE UNCHANGED saves
  BY <1>0, <1>t, <1>1 DEF SavesGrow, Latest, Cfg
<1>2. ASSUME NEW c \in Settings, AdminSave(c)
      PROVE  SavesGrow
  <2>1. \A v \in 1..Latest : saves'[v] = saves[v]
    BY <1>0, <1>2 DEF AdminSave, Latest
  <2> QED
    BY <1>0, <1>t, <1>2, <2>1, AdminSaveKeepsVersions DEF SavesGrow, Latest
<1> QED
  BY <1>1, <1>2
     DEF ConfNext, ConfStep, confVars, HookCall, HookStep, HookLoad, HookLoadFails,
         HookSetConfiguration, HookSetKVStore, ProcessStart, OnActivate,
         OnActivateEnsureBot, Stop, Halt

LEMMA SavedKeysGrow ==
    ASSUME ConfTypeOK, SavesGrow
    PROVE  SavedKeys \subseteq SavedKeys'
<1>1. Latest \in Nat /\ Latest' \in Nat
  BY DEF ConfTypeOK, Latest, SavesGrow
<1> QED
  BY <1>1 DEF SavesGrow, SavedKeys

\* The store handle is given only keys that were saved.
LEMMA StoreSaved ==
    ASSUME ConfTypeOK, KeysInv, [ConfNext]_confVars
    PROVE  kvstore' \in SavedKeys' \cup {None}
<1>0. SavedKeys \subseteq SavedKeys'
  BY SavesGrowAlways, SavedKeysGrow
<1>1. CASE kvstore' \in {kvstore, None}
  BY <1>0, <1>1 DEF KeysInv
<1>2. ASSUME NEW h \in Slots, HookSetKVStore(h)
      PROVE  kvstore' \in SavedKeys' \cup {None}
  <2> DEFINE v == hook[h].cfg
  <2>1. v \in 0..Latest /\ kvstore' = StoreFor(v)
    BY <1>2 DEF ConfTypeOK, HookSetKVStore
  <2>2. kvstore' = None \/ (v # 0 /\ kvstore' = saves[v].key)
    BY <2>1 DEF StoreFor, IsValid, Cfg, ZeroConfiguration
  <2>3. Latest \in Nat
    BY DEF ConfTypeOK, Latest
  <2>4. v # 0 => saves[v].key \in SavedKeys
    BY <2>1, <2>3 DEF SavedKeys
  <2> QED
    BY <1>0, <2>2, <2>4
<1> QED
  BY <1>1, <1>2
     DEF ConfNext, ConfStep, confVars, AdminSave, HookCall, HookStep, HookLoad,
         HookLoadFails, HookSetConfiguration, ProcessStart, OnActivate,
         OnActivateEnsureBot, Stop, Halt

\* Two keys were saved.
KeyChanged ==
    \E v, w \in 1..Latest : /\ saves[v].key # saves[w].key
                            /\ saves[v].key # None /\ saves[w].key # None

LEMMA KeyChangedStays ==
    ASSUME ConfTypeOK, SavesGrow, KeyChanged
    PROVE  KeyChanged'
<1>1. PICK v, w \in 1..Latest : /\ saves[v].key # saves[w].key
                               /\ saves[v].key # None /\ saves[w].key # None
  BY DEF KeyChanged
<1>2. /\ v \in 1..Latest' /\ saves'[v] = saves[v]
      /\ w \in 1..Latest' /\ saves'[w] = saves[w]
  BY <1>1 DEF SavesGrow, ConfTypeOK, Latest
<1> QED
  BY <1>1, <1>2 DEF KeyChanged

LEMMA KeysInvStep ==
    ASSUME TypeInv, KeysInv, [Next]_vars
    PROVE  KeysInv'
<1>0. /\ ConfTypeOK /\ ConnectInv /\ ConnectTypeOK /\ CallbacksFilled
      /\ \A r \in Starts : StartFilled(r)
      /\ callback \in [Callbacks -> CallbackRequest]
      /\ [ConfNext]_confVars /\ SavesGrow /\ SavedKeys \subseteq SavedKeys'
  BY TypeInvStep, SavesGrowAlways, SavedKeysGrow
     DEF TypeInv, StartInv, ConnectInv, ConnectTypeOK, MeetingInv, StartsFilled
<1>s. kvstore' \in SavedKeys' \cup {None}
  BY <1>0, StoreSaved
<1>t. ASSUME \A u \in Users : tokens'[u] \in {tokens[u], None}
      PROVE  \A u \in Users : tokens'[u] # None => tokens'[u].key \in SavedKeys'
  BY <1>0, <1>t DEF KeysInv
<1>k. OAuthStore # None => OAuthStore \in SavedKeys'
  BY <1>0 DEF OAuthStore, KeysInv
<1>c. ASSUME \A c \in Callbacks : callback'[c].pc # "idle" =>
               \/ callback[c].pc # "idle" /\ callback'[c].key = callback[c].key
               \/ OAuthStore # None /\ callback'[c].key = OAuthStore
      PROVE  \A c \in Callbacks : callback'[c].pc # "idle" => callback'[c].key \in SavedKeys'
  BY <1>0, <1>c, <1>k DEF KeysInv
<1>m. ASSUME \A r \in Starts : start'[r] = start[r] \/ start'[r].pc = "idle"
      PROVE  /\ \A r \in Starts :
                  start'[r].pc \notin {"idle", "check_open"} => start'[r].key \in SavedKeys'
             /\ NoNeedlessPurge'
  <2>1. \A r \in Starts :
          start'[r].pc \notin {"idle", "check_open"} => start'[r].key \in SavedKeys'
    BY <1>0, <1>m DEF KeysInv
  <2>2. NoNeedlessPurge'
    BY <1>0, <1>m, KeyChangedStays DEF KeysInv, NoNeedlessPurge, KeyChanged
  <2> QED
    BY <2>1, <2>2
<1>1. ASSUME UNCHANGED <<connectVars, meetingVars>>
      PROVE  KeysInv'
  BY <1>1, <1>s, <1>t, <1>c, <1>m
     DEF connectVars, storeVars, requestVars, meetingVars, KeysInv
<1>2. CASE ConnectStep /\ UNCHANGED meetingVars
  <2>1. \A c \in Callbacks : callback'[c].pc # "idle" =>
          \/ callback[c].pc # "idle" /\ callback'[c].key = callback[c].key
          \/ OAuthStore # None /\ callback'[c].key = OAuthStore
    <3>1. ASSUME NEW c \in Callbacks, CallbackEnds(c)
          PROVE  \A d \in Callbacks : callback'[d].pc # "idle" => callback'[d] = callback[d]
      BY <1>0, <3>1, CallbackStops
    <3>2. ASSUME NEW c \in Callbacks, NEW pc \in {"exchange", "store"},
                 callback[c].pc # "idle", callback' = [callback EXCEPT ![c].pc = pc]
          PROVE  \A d \in Callbacks :
                   callback'[d].key = callback[d].key
                   /\ (callback'[d].pc # "idle" => callback[d].pc # "idle")
      BY <1>0, <3>2, CallbackGoes
    <3>3. ASSUME NEW c \in Callbacks, CallbackGetState(c)
          PROVE  \A d \in Callbacks : callback'[d].pc # "idle" =>
                   callback[d].pc # "idle" /\ callback'[d].key = callback[d].key
      <4>1. CASE /\ Pending(CallbackState(c))
                 /\ callback' = [callback EXCEPT ![c].pc = "delete",
                                                 ![c].user = states[CallbackState(c)]]
        BY <1>0, <3>3, <4>1, CallbackFinds DEF CallbackGetState, Pending
      <4> QED
        BY <3>1, <3>3, <4>1 DEF CallbackGetState
    <3>4. ASSUME NEW c \in Callbacks, NEW g \in Grants, CallbackCall(c, g)
          PROVE  \A d \in Callbacks :
                   \/ callback'[d] = callback[d]
                   \/ OAuthStore # None /\ callback'[d].key = OAuthStore
      BY <1>0, <3>4 DEF CallbackCall
    <3>5. ASSUME NEW c \in Callbacks,
                 CallbackDeleteState(c) \/ CallbackExchange(c) \/ CallbackStore(c)
          PROVE  \A d \in Callbacks : callback'[d].pc # "idle" =>
                   callback[d].pc # "idle" /\ callback'[d].key = callback[d].key
      BY <3>1, <3>2, <3>5 DEF CallbackDeleteState, CallbackExchange, CallbackStore
    <3>6. \/ UNCHANGED callback
          \/ \E c \in Callbacks, g \in Grants : CallbackCall(c, g)
          \/ \E c \in Callbacks : CallbackGetState(c)
          \/ \E c \in Callbacks :
               CallbackDeleteState(c) \/ CallbackExchange(c) \/ CallbackStore(c)
      BY <1>2 DEF ConnectStep, ConnectCall, ConnectStore, ConnectRedirect, Consent,
                  GoogleRevoke, StateExpire, requestVars
    <3> QED
      BY <3>3, <3>4, <3>5, <3>6
  <2>2. \A u \in Users : tokens'[u] # None => tokens'[u].key \in SavedKeys'
    <3>1. ASSUME NEW c \in Callbacks, CallbackStore(c)
          PROVE  \A u \in Users : tokens'[u] # None => tokens'[u].key \in SavedKeys'
      <4>1. callback[c].key \in SavedKeys'
        BY <1>0, <3>1 DEF CallbackStore, KeysInv
      <4>2. \A u \in Users : \/ tokens'[u] = tokens[u]
                             \/ tokens'[u].key = callback[c].key
        BY <1>0, <3>1 DEF CallbackStore, ConnectTypeOK
      <4> QED
        BY <1>0, <4>1, <4>2 DEF KeysInv
    <3>2. (\E c \in Callbacks : CallbackStore(c)) \/ UNCHANGED tokens
      BY <1>2
         DEF ConnectStep, ConnectCall, ConnectStore, ConnectRedirect, Consent, GoogleRevoke,
             StateExpire, CallbackCall, CallbackGetState, CallbackDeleteState,
             CallbackExchange, storeVars
    <3> QED
      BY <1>t, <3>1, <3>2
  <2> QED
    BY <1>2, <1>s, <1>c, <1>m, <2>1, <2>2 DEF meetingVars, KeysInv
<1>3. CASE DisconnectStep /\ UNCHANGED meetingVars
  <2>1. UNCHANGED callback /\ \A u \in Users : tokens'[u] \in {tokens[u], None}
    BY <1>0, <1>3 DEF DisconnectStep, DisconnectCall, DisconnectDelete,
                      DisconnectDeleteFails, storeVars, ConnectTypeOK
  <2> QED
    BY <1>3, <1>s, <1>t, <1>c, <1>m, <2>1 DEF meetingVars, KeysInv
<1>4. CASE MeetingStep
  <2>1. \A u \in Users : tokens'[u] # None => tokens'[u].key \in SavedKeys'
    <3>1. ASSUME NEW u \in Users, tokens'[u] # None
          PROVE  tokens'[u].key \in SavedKeys'
      <4>1. ASSUME NEW r \in Starts, start[r].pc = "save",
                   tokens'[u] = [key |-> start[r].key, tok |-> start[r].tok]
            PROVE  tokens'[u].key \in SavedKeys'
        BY <1>0, <4>1 DEF KeysInv
      <4>2. CASE tokens'[u] = tokens[u]
        BY <1>0, <3>1, <4>2 DEF KeysInv
      <4> QED
        BY <1>4, <3>1, <4>1, <4>2, MeetingTokens
    <3> QED
      BY <3>1
  <2>2. ASSUME NEW r \in Starts, GoesOn(r)
        PROVE  start'[r].key \in SavedKeys'
    BY <1>0, <1>k, <2>2 DEF GoesOn, KeysInv
  <2>3. \A r \in Starts :
          start'[r].pc \notin {"idle", "check_open"} => start'[r].key \in SavedKeys'
    BY <1>0, <1>4, <2>2, MeetingMoves DEF Begins, KeysInv
  <2>4. NoNeedlessPurge'
    <3>1. ASSUME NEW r \in Starts, start'[r].pc \in Purging
          PROVE  KeyChanged'
      <4>1. CASE start'[r] = start[r]
        BY <1>0, <3>1, <4>1, KeyChangedStays DEF KeysInv, NoNeedlessPurge, KeyChanged, Purging
      <4>2. CASE GoesOn(r)
        <5>1. start[r].user \in Users
          BY <1>0, <4>2 DEF GoesOn, StartFilled
        <5>2. /\ tokens[start[r].user] # None
              /\ tokens[start[r].user].key # start'[r].key
              /\ tokens[start[r].user].key \in Keys
          BY <1>0, <3>1, <4>2, <5>1 DEF GoesOn, ConnectTypeOK, Blob
        <5>3. start'[r].key \in Keys
          BY <3>1, TypeInvStep
             DEF TypeInv, StartInv, MeetingInv, StartsFilled, StartFilled, Purging
        <5>4. tokens[start[r].user].key \in SavedKeys' /\ start'[r].key \in SavedKeys'
          BY <1>0, <2>2, <4>2, <5>1, <5>2 DEF KeysInv
        <5> QED
          BY <5>2, <5>3, <5>4, ConfigurationAssumption DEF SavedKeys, KeyChanged
      <4> QED
        BY <1>4, <3>1, <4>1, <4>2, MeetingMoves DEF Purging, Begins
    <3> QED
      BY <3>1 DEF NoNeedlessPurge, Purging, KeyChanged
  <2>5. UNCHANGED callback
    BY <1>4, MeetingFrame
  <2> QED
    BY <1>s, <1>c, <2>1, <2>3, <2>4, <2>5 DEF KeysInv
<1>5. CASE ConnectKill /\ MeetingKill
  <2>1. /\ UNCHANGED tokens
        /\ \A c \in Callbacks : callback'[c].pc = "idle"
        /\ \A r \in Starts : start'[r].pc = "idle"
    BY <1>5 DEF ConnectKill, MeetingKill, CallbackIdle, StartIdle, storeVars
  <2> QED
    BY <1>s, <1>t, <1>c, <1>m, <2>1 DEF KeysInv
<1> QED
  BY <1>1, <1>2, <1>3, <1>4, <1>5 DEF Next, vars, DisconnectStep

\* Unless the administrator changed the encryption key, no request ever deletes
\* a blob as one it cannot read.
THEOREM NoNeedlessPurgeCorrect == Spec => []NoNeedlessPurge
<1>1. Init => KeysInv
  <2>1. ASSUME Init
        PROVE  \A u \in Users : tokens[u] # None => tokens[u].key \in SavedKeys
    <3>1. 1 \in 1..Latest
      BY <2>1, ConfTypeInit DEF Init, ConfTypeOK, Latest
    <3> QED
      BY <2>1, <3>1 DEF Init, ConnectInit, PriorToken, SavedKeys
  <2> QED
    BY <2>1 DEF Init, ConfInit, ConnectInit, MeetingInit, CallbackIdle, StartIdle, KeysInv,
                NoNeedlessPurge
<1>2. TypeInv /\ KeysInv /\ [Next]_vars => KeysInv'
  BY KeysInvStep
<1>3. KeysInv => NoNeedlessPurge
  BY DEF KeysInv
<1> QED
  BY <1>1, <1>2, <1>3, TypeInvAlways, PTL DEF Spec

-----------------------------------------------------------------------------
(* The restriction to private channels *)

\* A request is served by the process it came to, whose configuration has not
\* gone back since.
AdmitInv ==
    /\ \A r \in Starts :
         start[r].pc # "idle" => phase = "active" /\ start[r].since <= configuration
    /\ RestrictionRespected

\* Within a process the window of configurations a request has seen only grows.
LEMMA ConfWindow ==
    ASSUME ConfInv, ConfStep, phase = "active"
    PROVE  phase' = "active" /\ configuration' >= configuration
<1>1. phase' = "active"
  BY DEF ConfStep, AdminSave, HookCall, HookStep, HookLoad, HookLoadFails,
         HookSetConfiguration, HookSetKVStore, ProcessStart, OnActivate,
         OnActivateEnsureBot
<1> QED
  BY <1>1, ConfForward DEF ConfNext

LEMMA AdmitInvStep ==
    ASSUME TypeInv, ConfInv, AdmitInv, [Next]_vars
    PROVE  AdmitInv'
<1>0. /\ ConfTypeOK /\ SavesGrow /\ TypeInv'
      /\ configuration \in Nat /\ configuration <= Latest /\ Latest \in Nat
      /\ configuration' \in Nat
      /\ \A r \in Starts : start[r].since \in Nat
  BY TypeInvStep, SavesGrowAlways
     DEF TypeInv, ConfTypeOK, Latest, StartInv, MeetingInv, StartRequest
<1>w. ASSUME UNCHANGED meetingVars,
             phase = "active" => phase' = "active" /\ configuration' >= configuration
      PROVE  AdmitInv'
  <2>1. UNCHANGED start
    BY <1>w DEF meetingVars
  <2>2. \A r \in Starts :
          start[r].pc # "idle" => phase' = "active" /\ start[r].since <= configuration'
    BY <1>0, <1>w DEF AdmitInv
  <2>3. ASSUME NEW r \in Starts, start[r].pc \in Admitted, start[r].chan \in PublicChannels
        PROVE  \E v \in start[r].since .. configuration' : ~ Cfg(v)'.restrict
    <3>1. PICK v \in start[r].since .. configuration : ~ Cfg(v).restrict
      BY <2>3 DEF AdmitInv, RestrictionRespected, Admitted
    <3>2. Cfg(v)' = Cfg(v)
      BY <1>0 DEF SavesGrow
    <3>3. phase = "active"
      BY <2>3 DEF AdmitInv, Admitted
    <3> QED
      BY <1>0, <1>w, <3>1, <3>2, <3>3
  <2> QED
    BY <2>1, <2>2, <2>3 DEF AdmitInv, RestrictionRespected, Admitted
<1>n. UNCHANGED confVars => UNCHANGED <<phase, configuration>>
  BY DEF confVars
<1>1. CASE UNCHANGED vars
  BY <1>0, <1>1, <1>n, <1>w DEF vars
<1>2. CASE ConfStep /\ UNCHANGED meetingVars
  BY <1>2, <1>w, ConfWindow
<1>3. CASE UNCHANGED <<confVars, meetingVars>>
  BY <1>0, <1>3, <1>n, <1>w
<1>4. CASE MeetingStep /\ UNCHANGED confVars
  <2>1. UNCHANGED <<phase, configuration>> /\ \A v \in Nat : Cfg(v)' = Cfg(v)
    BY <1>4 DEF confVars, Cfg
  <2>2. ASSUME NEW r \in Starts, start'[r].pc # "idle"
        PROVE  phase' = "active" /\ start'[r].since <= configuration'
    BY <1>0, <1>4, <2>1, <2>2, MeetingMoves DEF AdmitInv, Begins, GoesOn
  <2>3. ASSUME NEW r \in Starts,
               start'[r].pc \in Admitted, start'[r].chan \in PublicChannels
        PROVE  \E v \in start'[r].since .. configuration' : ~ Cfg(v)'.restrict
    <3>1. ASSUME start[r].pc \in Admitted, start'[r].chan = start[r].chan,
                 start'[r].since = start[r].since
          PROVE  \E v \in start'[r].since .. configuration' : ~ Cfg(v)'.restrict
      <4>1. PICK v \in start[r].since .. configuration : ~ Cfg(v).restrict
        BY <2>3, <3>1 DEF AdmitInv, RestrictionRespected, Admitted
      <4> QED
        BY <1>0, <2>1, <3>1, <4>1
    <3>2. ASSUME GoesOn(r), start[r].pc = "admit", ~ Restricted(r)
          PROVE  \E v \in start'[r].since .. configuration' : ~ Cfg(v)'.restrict
      <4>1. /\ start'[r].since = start[r].since /\ start'[r].chan = start[r].chan
            /\ start[r].since <= configuration
        BY <3>2 DEF GoesOn, AdmitInv
      <4>2. ~ Cfg(configuration).restrict
        BY <2>3, <3>2, <4>1 DEF Restricted
      <4> QED
        BY <1>0, <2>1, <4>1, <4>2
    <3> QED
      BY <1>4, <2>3, <3>1, <3>2, MeetingMoves DEF Begins, GoesOn, Admitted
  <2> QED
    BY <2>2, <2>3 DEF AdmitInv, RestrictionRespected, Admitted
<1>5. CASE MeetingKill
  BY <1>5 DEF MeetingKill, StartIdle, AdmitInv, RestrictionRespected
<1> QED
  BY <1>1, <1>2, <1>3, <1>4, <1>5 DEF Next

\* While hook calls come one at a time, a request goes on to a meeting in a
\* public channel only if the settings allowed it at a moment of the request.
THEOREM RestrictionRespectedCorrect ==
    ASSUME SerialHooks
    PROVE  Spec => []RestrictionRespected
<1>1. Init => AdmitInv
  BY DEF Init, MeetingInit, StartIdle, AdmitInv, RestrictionRespected
<1>2. TypeInv /\ ConfInv /\ AdmitInv /\ [Next]_vars => AdmitInv'
  BY AdmitInvStep
<1>3. AdmitInv => RestrictionRespected
  BY DEF AdmitInv
<1> QED
  BY <1>1, <1>2, <1>3, TypeInvAlways, ConfInvAlways, ImplementsConfiguration, PTL DEF Spec
=============================================================================
