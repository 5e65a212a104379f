------------------------- MODULE ConfigurationProofs -------------------------
(***************************************************************************)
(* Proofs about Configuration, for every number of settings, keys and      *)
(* saves.  The type invariant holds however the hook's calls overlap; the  *)
(* agreement of the store with the configuration needs them serial: the    *)
(* server runs the hook for one save at a time.                            *)
(***************************************************************************)
EXTENDS Configuration, TLAPS

\* One slot stands for any number of calls, one after the other.
SerialHooks == \A g, h \in Hooks : g = h

\* Saving adds a version and leaves the older ones as they are.
LEMMA AdminSaveKeepsVersions ==
    ASSUME ConfTypeOK, NEW c \in Settings, AdminSave(c)
    PROVE  /\ saves' \in Seq(Settings)
           /\ Len(saves') = Len(saves) + 1
           /\ \A v \in 0..Latest : Cfg(v)' = Cfg(v) /\ StoreFor(v)' = StoreFor(v)
<1>1. saves \in Seq(Settings) /\ saves' = Append(saves, c)
  BY DEF ConfTypeOK, AdminSave
<1>2. /\ saves' \in Seq(Settings) /\ Len(saves') = Len(saves) + 1
      /\ \A v \in 1..Len(saves) : saves'[v] = saves[v]
  BY <1>1
<1>3. \A v \in 0..Latest : Cfg(v)' = Cfg(v)
  BY <1>2 DEF Cfg, Latest
<1> QED
  BY <1>2, <1>3 DEF StoreFor, IsValid

\* A version of the settings, or the zero configuration, has a key or none.
LEMMA StoreForType ==
    ASSUME ConfTypeOK, NEW v \in 0..Latest
    PROVE  StoreFor(v) \in Keys \cup {None}
<1>1. CASE v = 0
  BY <1>1 DEF StoreFor, IsValid, Cfg, ZeroConfiguration
<1>2. CASE v # 0
  <2>1. saves[v] \in Settings
    BY <1>2 DEF ConfTypeOK, Latest
  <2> QED
    BY <1>2, <2>1, ConfigurationAssumption DEF StoreFor, IsValid, Cfg, AllSettings
<1> QED
  BY <1>1, <1>2

LEMMA HaltType ==
    ASSUME ConfTypeOK, Halt
    PROVE  ConfTypeOK'
BY DEF ConfTypeOK, Halt, HookIdle, Latest

\* One step of the configuration's actions preserves the types.
LEMMA ConfTypeStep ==
    ASSUME ConfTypeOK, [ConfNext]_confVars
    PROVE  ConfTypeOK'
<1> USE DEF ConfTypeOK, Latest, Slots
<1>1. CASE UNCHANGED confVars
  BY <1>1 DEF confVars
<1>2. ASSUME NEW c \in Settings, AdminSave(c)
      PROVE  ConfTypeOK'
  BY <1>2, AdminSaveKeepsVersions DEF AdminSave
<1>3. ASSUME NEW h \in Hooks, HookCall(h)
      PROVE  ConfTypeOK'
  BY <1>3 DEF HookCall
<1>4. ASSUME NEW h \in Slots, HookStep(h)
      PROVE  ConfTypeOK'
  <2>1. CASE HookLoad(h)
    BY <2>1 DEF HookLoad
  <2>2. CASE HookLoadFails(h)
    BY <2>2, HaltType DEF HookLoadFails, HookIdle
  <2>3. CASE HookSetConfiguration(h)
    BY <2>3 DEF HookSetConfiguration, HookIdle
  <2>4. CASE HookSetKVStore(h)
    BY <2>4, StoreForType DEF HookSetKVStore, HookIdle
  <2> QED
    BY <1>4, <2>1, <2>2, <2>3, <2>4 DEF HookStep
<1>5. CASE ProcessStart
  BY <1>5 DEF ProcessStart
<1>6. CASE OnActivate
  BY <1>6 DEF OnActivate
<1>7. CASE OnActivateEnsureBot
  BY <1>7, HaltType DEF OnActivateEnsureBot
<1>8. CASE Stop
  BY <1>8, HaltType DEF Stop
<1> QED
  BY <1>1, <1>2, <1>3, <1>4, <1>5, <1>6, <1>7, <1>8 DEF ConfNext, ConfStep

LEMMA ConfTypeInit ==
    ASSUME ConfInit
    PROVE  ConfTypeOK
BY DEF ConfInit, ConfTypeOK, Latest, HookIdle

\* The settings, the hook's calls and what they set keep their types.
THEOREM ConfTypeCorrect == ConfSpec => []ConfTypeOK
<1>1. ConfInit => ConfTypeOK
  BY ConfTypeInit
<1>2. ConfTypeOK /\ [ConfNext]_confVars => ConfTypeOK'
  BY ConfTypeStep
<1> QED
  BY <1>1, <1>2, PTL DEF ConfSpec

-----------------------------------------------------------------------------
(* The inductive invariant behind the agreement of store and configuration. *)
(* Its parts say where calls can be in flight, what a call in flight has in *)
(* hand, and that store and configuration differ only inside a call that    *)
(* has set the one and not yet the other.                                   *)

CallsInPhase ==
    /\ phase = "down" => hook[Boot].pc = "idle" /\ configuration = 0
    /\ phase # "active" => \A h \in Hooks : hook[h].pc = "idle"
    /\ phase = "active" => hook[Boot].pc = "idle"

CallsAhead ==
    \A h \in Slots :
        /\ hook[h].pc = "idle" => hook[h] = HookIdle
        /\ hook[h].pc = "loaded" => hook[h].cfg > 0 /\ hook[h].cfg >= configuration
        /\ hook[h].pc = "set" => Client /\ hook[h].cfg > 0 /\ hook[h].cfg = configuration

\* OnConfigurationChange has run to its end since p.client was set.
Settled == phase = "active" \/ (phase = "activating" /\ hook[Boot].pc = "idle")

StoreSettled ==
    Settled =>
        /\ configuration > 0
        /\ kvstore = StoreFor(configuration) \/ \E h \in Slots : hook[h].pc = "set"

ConfInv == ConfTypeOK /\ CallsInPhase /\ CallsAhead /\ StoreSettled

LEMMA ConfInvInit ==
    ASSUME ConfInit
    PROVE  ConfInv
BY ConfTypeInit, ConfigurationAssumption
   DEF ConfInit, ConfInv, CallsInPhase, CallsAhead, StoreSettled, Settled, HookIdle, Slots

LEMMA ConfInvHalt ==
    ASSUME ConfInv, Halt
    PROVE  CallsInPhase' /\ CallsAhead' /\ StoreSettled'
BY ConfigurationAssumption
   DEF Halt, CallsInPhase, CallsAhead, StoreSettled, Settled, HookIdle, Slots

LEMMA ConfInvStep ==
    ASSUME SerialHooks, ConfInv, [ConfNext]_confVars
    PROVE  ConfInv'
<1> USE DEF ConfInv
<1>t. ConfTypeOK'
  BY ConfTypeStep
<1>c. /\ configuration \in Nat
      /\ \A h \in Slots : hook[h].cfg \in Nat /\ hook[h].cfg \in 0..Latest
      /\ Latest \in Nat \ {0}
  BY DEF ConfTypeOK, Latest
<1>b. Boot \in Slots /\ Boot \notin Hooks /\ Hooks \subseteq Slots
  BY ConfigurationAssumption DEF Slots
<1>1. CASE UNCHANGED confVars
  BY <1>1, <1>t DEF confVars, CallsInPhase, CallsAhead, StoreSettled, Settled,
                    Client, StoreFor, IsValid, Cfg
<1>2. ASSUME NEW c \in Settings, AdminSave(c)
      PROVE  ConfInv'
  <2>1. UNCHANGED <<phase, configuration, kvstore, hook>>
    BY <1>2 DEF AdminSave
  <2>2. StoreFor(configuration)' = StoreFor(configuration)
    BY <1>2, <2>1, AdminSaveKeepsVersions DEF ConfTypeOK
  <2> QED
    BY <2>1, <2>2, <1>t DEF CallsInPhase, CallsAhead, StoreSettled, Settled, Client
<1>3. ASSUME NEW h \in Hooks, HookCall(h)
      PROVE  ConfInv'
  <2>1. /\ UNCHANGED <<saves, phase, configuration, kvstore>>
        /\ phase = "active" /\ hook[h].pc = "idle"
        /\ hook' = [hook EXCEPT ![h].pc = "called"]
    BY <1>3 DEF HookCall, HookIdle
  <2>2. \A g \in Slots : g # h => hook'[g] = hook[g]
    BY <2>1 DEF ConfTypeOK
  <2>3. hook'[h].pc = "called" /\ h \in Slots /\ h # Boot
    BY <2>1, <1>b DEF ConfTypeOK
  <2>4. StoreFor(configuration)' = StoreFor(configuration)
    BY <2>1 DEF StoreFor, IsValid, Cfg
  <2> QED
    BY <2>1, <2>2, <2>3, <2>4, <1>t, <1>b
       DEF CallsInPhase, CallsAhead, StoreSettled, Settled, Client, HookIdle
<1>4. ASSUME NEW h \in Slots, HookStep(h)
      PROVE  ConfInv'
  <2>d. /\ hook[h].pc # "idle"
        /\ \A g \in Slots : g # h => hook[g].pc = "idle"
    <3>1. hook[h].pc # "idle"
      BY <1>4 DEF HookStep, HookLoad, HookLoadFails, HookSetConfiguration, HookSetKVStore
    <3> QED
      BY <3>1, <1>b DEF SerialHooks, CallsInPhase, Slots, ConfTypeOK
  <2>1. CASE HookLoad(h)
    <3>1. /\ UNCHANGED <<saves, due, phase, configuration, kvstore>>
          /\ hook'[h].pc = "loaded" /\ hook'[h].cfg = Latest
          /\ \A g \in Slots : g # h => hook'[g] = hook[g]
          /\ hook[h].pc = "called"
      BY <2>1 DEF HookLoad, ConfTypeOK
    <3>2. StoreFor(configuration)' = StoreFor(configuration)
      BY <3>1 DEF StoreFor, IsValid, Cfg
    <3>3. configuration <= Latest
      BY DEF ConfTypeOK
    <3> QED
      BY <3>1, <3>2, <3>3, <1>t, <1>b, <1>c
         DEF CallsInPhase, CallsAhead, StoreSettled, Settled, Client, Slots
  <2>2. CASE HookLoadFails(h)
    <3>1. CASE Halt
      BY <3>1, <1>t, ConfInvHalt
    <3>2. CASE /\ phase # "activating"
               /\ hook' = [hook EXCEPT ![h] = HookIdle]
               /\ UNCHANGED <<saves, due, phase, configuration, kvstore>>
      <4>1. /\ hook'[h] = HookIdle /\ hook'[h].pc = "idle"
            /\ \A g \in Slots : g # h => hook'[g] = hook[g]
            /\ hook[h].pc = "called"
        BY <3>2, <2>2 DEF HookLoadFails, ConfTypeOK, HookIdle
      <4>2. StoreFor(configuration)' = StoreFor(configuration)
        BY <3>2 DEF StoreFor, IsValid, Cfg
      <4> QED
        BY <3>2, <4>1, <4>2, <1>t, <1>b
           DEF CallsInPhase, CallsAhead, StoreSettled, Settled, Client, Slots
    <3> QED
      BY <2>2, <3>1, <3>2 DEF HookLoadFails
  <2>3. CASE HookSetConfiguration(h)
    <3>1. /\ UNCHANGED <<saves, due, phase, kvstore>>
          /\ configuration' = hook[h].cfg /\ hook[h].pc = "loaded"
          /\ \A g \in Slots : g # h => hook'[g] = hook[g]
          /\ Client => hook'[h].pc = "set" /\ hook'[h].cfg = hook[h].cfg
          /\ ~ Client => hook'[h] = HookIdle /\ hook'[h].pc = "idle"
      BY <2>3 DEF HookSetConfiguration, ConfTypeOK, HookIdle
    <3>2. \A g \in Slots : g # h => hook'[g].pc = "idle" /\ hook'[g] = HookIdle
      BY <3>1, <2>d DEF CallsAhead
    <3>3. hook[h].cfg > 0 /\ phase # "down"
      BY <3>1, <2>d DEF CallsAhead, CallsInPhase, Slots
    <3> QED
      BY <3>1, <3>2, <3>3, <2>d, <1>t, <1>b, <1>c
         DEF CallsInPhase, CallsAhead, StoreSettled, Settled, Client, Slots, HookIdle
  <2>4. CASE HookSetKVStore(h)
    <3>1. /\ UNCHANGED <<saves, due, phase, configuration>>
          /\ kvstore' = StoreFor(configuration)
          /\ configuration > 0
          /\ hook'[h] = HookIdle /\ hook'[h].pc = "idle"
          /\ \A g \in Slots : g # h => hook'[g] = hook[g]
      BY <2>4, <1>c DEF HookSetKVStore, ConfTypeOK, HookIdle, CallsAhead
    <3>2. StoreFor(configuration)' = StoreFor(configuration)
      BY <3>1 DEF StoreFor, IsValid, Cfg
    <3> QED
      BY <3>1, <3>2, <2>d, <1>t, <1>b
         DEF CallsInPhase, CallsAhead, StoreSettled, Settled, Client, Slots
  <2> QED
    BY <1>4, <2>1, <2>2, <2>3, <2>4 DEF HookStep
<1>5. ASSUME ProcessStart \/ OnActivate
      PROVE  ConfInv'
  <2>1. /\ UNCHANGED <<saves, due, configuration, kvstore>>
        /\ hook'[Boot].pc = "called"
        /\ \A g \in Slots : g # Boot => hook'[g] = hook[g]
        /\ phase \in {"down", "loading"} /\ phase' \in {"loading", "activating"}
    BY <1>5, <1>b DEF ProcessStart, OnActivate, ConfTypeOK
  <2> QED
    BY <2>1, <1>t, <1>b
       DEF CallsInPhase, CallsAhead, StoreSettled, Settled, Client, Slots
<1>7. CASE OnActivateEnsureBot
  <2>1. CASE Halt
    BY <2>1, <1>t, ConfInvHalt
  <2>2. CASE phase' = "active" /\ UNCHANGED <<saves, due, configuration, kvstore, hook>>
    <3>1. phase = "activating" /\ hook[Boot].pc = "idle"
      BY <1>7 DEF OnActivateEnsureBot, HookIdle
    <3>2. StoreFor(configuration)' = StoreFor(configuration)
      BY <2>2 DEF StoreFor, IsValid, Cfg
    <3> QED
      BY <2>2, <3>1, <3>2, <1>t
         DEF CallsInPhase, CallsAhead, StoreSettled, Settled, Client, Slots
  <2> QED
    BY <1>7, <2>1, <2>2 DEF OnActivateEnsureBot
<1>8. CASE Stop
  BY <1>8, <1>t, ConfInvHalt DEF Stop
<1> QED
  BY <1>1, <1>2, <1>3, <1>4, <1>5, <1>7, <1>8 DEF ConfNext, ConfStep

LEMMA ConfInvAlways ==
    ASSUME SerialHooks
    PROVE  ConfSpec => []ConfInv
<1>1. ConfInit => ConfInv
  BY ConfInvInit
<1>2. ConfInv /\ [ConfNext]_confVars => ConfInv'
  BY ConfInvStep
<1> QED
  BY <1>1, <1>2, PTL DEF ConfSpec

\* While hook calls come one at a time, a plugin that serves requests with no
\* call under way has the token store of the configuration it shows.
THEOREM StoreMatchesConfigurationCorrect ==
    ASSUME SerialHooks
    PROVE  ConfSpec => []StoreMatchesConfiguration
<1>1. ConfInv => StoreMatchesConfiguration
  BY DEF ConfInv, ConfTypeOK, StoreSettled, Settled, StoreMatchesConfiguration,
         HooksIdle, HookIdle
<1> QED
  BY <1>1, ConfInvAlways, PTL

LEMMA ConfForward ==
    ASSUME ConfInv, ConfNext
    PROVE  configuration' >= configuration \/ phase' = "down"
<1>1. configuration \in Nat
  BY DEF ConfInv, ConfTypeOK
<1>2. CASE configuration' = configuration
  BY <1>1, <1>2
<1>3. ASSUME NEW h \in Slots, HookSetConfiguration(h)
      PROVE  configuration' >= configuration
  BY <1>3 DEF ConfInv, CallsAhead, HookSetConfiguration
<1>4. CASE Halt
  BY <1>4 DEF Halt
<1> QED
  BY <1>2, <1>3, <1>4
     DEF ConfNext, ConfStep, AdminSave, HookCall, HookStep, HookLoad, HookLoadFails,
         HookSetKVStore, ProcessStart, OnActivate, OnActivateEnsureBot, Stop

\* While hook calls come one at a time, the plugin's settings only move forward.
THEOREM SettingsNeverGoBackCorrect ==
    ASSUME SerialHooks
    PROVE  ConfSpec => SettingsNeverGoBack
<1>1. ConfInv /\ [ConfNext]_confVars
      => [configuration' >= configuration \/ phase' = "down"]_confVars
  BY ConfForward
<1> QED
  BY <1>1, ConfInvAlways, PTL DEF ConfSpec, SettingsNeverGoBack
=============================================================================
