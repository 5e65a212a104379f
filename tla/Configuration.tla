--------------------------- MODULE Configuration ---------------------------
(***************************************************************************)
(* How the plugin learns its settings: server/configuration.go and the     *)
(* activation in server/plugin.go.                                         *)
(*                                                                         *)
(* The Mattermost server keeps the settings; an administrator saves new    *)
(* ones at any time, and each save makes the server call the plugin's      *)
(* OnConfigurationChange hook.  The hook loads the settings, sets          *)
(* p.configuration under one lock and p.kvstore, the token store that      *)
(* encrypts under the settings' key, under ANOTHER lock.  Requests read    *)
(* the two separately, so a hook in flight shows them out of step.         *)
(*                                                                         *)
(* A version is a position in `saves', the settings ever saved; version 0  *)
(* is Go's zero configuration, seen before the first load.                 *)
(***************************************************************************)
EXTENDS Naturals, Sequences, FiniteSets

CONSTANTS
    Credentials,    \* pairs of Google client ID and client secret
    Keys,           \* encryption keys
    None,           \* an empty setting, a nil store
    Settings,       \* the settings an administrator may save
    Hooks,          \* slots for hook calls caused by saves
    Boot,           \* the slot of the calls made while the plugin starts
    MaxSaves,       \* bound on the length of saves
    Faults          \* which calls may fail; see FaultKinds

\* "load": LoadPluginConfiguration; "bot": EnsureBot; "kv": a call to the KV
\* store; "google": a request to Google, refused or never delivered;
\* "lost": a request Google acted on, its answer lost; "api": another call
\* of the Mattermost API; "stop": the plugin's process ends; "revoke": users
\* withdraw the plugin's access in their Google account.
FaultKinds == {"load", "bot", "kv", "google", "lost", "api", "stop", "revoke"}

AllSettings == [creds: Credentials \cup {None}, key: Keys \cup {None},
                restrict: BOOLEAN, site: BOOLEAN]

ASSUME ConfigurationAssumption ==
    /\ None \notin Credentials \cup Keys
    /\ Settings \subseteq AllSettings
    /\ Boot \notin Hooks
    /\ MaxSaves \in Nat \ {0}
    /\ Faults \subseteq FaultKinds

VARIABLES
    saves,          \* the server's settings, every version saved so far
    due,            \* hook calls the server owes the plugin
    phase,          \* of the plugin's process
    configuration,  \* p.configuration: a version
    kvstore,        \* p.kvstore: the key the store encrypts under, or None
    hook            \* the calls of OnConfigurationChange in flight

confVars == <<saves, due, phase, configuration, kvstore, hook>>

Slots == Hooks \cup {Boot}

HookIdle == [pc |-> "idle", cfg |-> 0]

\* p.client is set: OnActivate has run its first line.
Client == phase \in {"activating", "active"}

Latest == Len(saves)

ZeroConfiguration ==
    [creds |-> None, key |-> None, restrict |-> FALSE, site |-> FALSE]

Cfg(v) == IF v = 0 THEN ZeroConfiguration ELSE saves[v]

IsValid(v) == Cfg(v).creds # None /\ Cfg(v).key # None

\* Mutant: NewKVStore is handed the client secret.
StoreForSecret(v) == IF IsValid(v) THEN Cfg(v).creds ELSE None

\* What the hook makes of p.kvstore when it loaded version v.
StoreFor(v) == IF IsValid(v) THEN Cfg(v).key ELSE None

\* The site URL is read from the server's settings on each use.
SiteURL == Cfg(Latest).site

\* pluginReadinessError() = nil
Ready == IsValid(configuration) /\ SiteURL

\* getOAuthKVStore: None stands for either of its errors.
OAuthStore == IF Ready THEN kvstore ELSE None

-----------------------------------------------------------------------------
ConfInit ==
    /\ \E c \in Settings : saves = <<c>>
    /\ due = 0
    /\ phase = "down"
    /\ configuration = 0
    /\ kvstore = None
    /\ hook = [h \in Slots |-> HookIdle]

\* An administrator saves settings that differ from the present ones.
AdminSave(c) ==
    /\ Latest < MaxSaves
    /\ c # Cfg(Latest)
    /\ saves' = Append(saves, c)
    /\ due' = due + 1
    /\ UNCHANGED <<phase, configuration, kvstore, hook>>

\* Mutant: a call that finds another under way leaves it at that.
HookCallSkips(h) ==
    /\ phase = "active"
    /\ due > 0
    /\ hook[h] = HookIdle
    /\ due' = due - 1
    /\ hook' = IF \A g \in Slots : hook[g] = HookIdle
               THEN [hook EXCEPT ![h].pc = "called"] ELSE hook
    /\ UNCHANGED <<saves, phase, configuration, kvstore>>

\* The server runs the hook of an active plugin.
HookCall(h) ==
    /\ phase = "active"
    /\ due > 0
    /\ hook[h] = HookIdle
    /\ due' = due - 1
    /\ hook' = [hook EXCEPT ![h].pc = "called"]
    /\ UNCHANGED <<saves, phase, configuration, kvstore>>

HookLoad(h) ==
    /\ hook[h].pc = "called"
    /\ hook' = [hook EXCEPT ![h] = [pc |-> "loaded", cfg |-> Latest]]
    /\ UNCHANGED <<saves, due, phase, configuration, kvstore>>

\* The memory of the process is gone.
Halt ==
    /\ phase' = "down"
    /\ configuration' = 0
    /\ kvstore' = None
    /\ hook' = [h \in Slots |-> HookIdle]
    /\ UNCHANGED <<saves, due>>

\* Mutant: the configuration is set before the error is looked at.
HookLoadFailsUnchecked(h) ==
    /\ "load" \in Faults
    /\ hook[h].pc = "called"
    /\ configuration' = 0
    /\ hook' = [hook EXCEPT ![h] = HookIdle]
    /\ UNCHANGED <<saves, due, phase, kvstore>>

\* LoadPluginConfiguration fails: the hook returns early and everything it
\* would have set stays.  Only OnActivate acts on the error, and gives up.
HookLoadFails(h) ==
    /\ "load" \in Faults
    /\ hook[h].pc = "called"
    /\ IF phase = "activating"
       THEN Halt
       ELSE /\ hook' = [hook EXCEPT ![h] = HookIdle]
            /\ UNCHANGED <<saves, due, phase, configuration, kvstore>>

\* Mutant: the hook never comes to the store.
HookSetConfigurationOnly(h) ==
    /\ hook[h].pc = "loaded"
    /\ configuration' = hook[h].cfg
    /\ hook' = [hook EXCEPT ![h] = HookIdle]
    /\ UNCHANGED <<saves, due, phase, kvstore>>

HookSetConfiguration(h) ==
    /\ hook[h].pc = "loaded"
    /\ configuration' = hook[h].cfg
    /\ hook' = [hook EXCEPT ![h] = IF Client THEN [@ EXCEPT !.pc = "set"]
                                             ELSE HookIdle]
    /\ UNCHANGED <<saves, due, phase, kvstore>>

\* Mutant: settings that are not valid leave the store as it is.
HookKeepsKVStore(h) ==
    /\ hook[h].pc = "set"
    /\ kvstore' = IF IsValid(hook[h].cfg) THEN StoreFor(hook[h].cfg) ELSE kvstore
    /\ hook' = [hook EXCEPT ![h] = HookIdle]
    /\ UNCHANGED <<saves, due, phase, configuration>>

HookSetKVStore(h) ==
    /\ hook[h].pc = "set"
    /\ kvstore' = StoreFor(hook[h].cfg)
    /\ hook' = [hook EXCEPT ![h] = HookIdle]
    /\ UNCHANGED <<saves, due, phase, configuration>>

\* The server starts the process and runs the hook before it activates the
\* plugin, while p.client is still nil.
ProcessStart ==
    /\ phase = "down"
    /\ phase' = "loading"
    /\ hook' = [hook EXCEPT ![Boot].pc = "called"]
    /\ UNCHANGED <<saves, due, configuration, kvstore>>

\* OnActivate sets p.client and calls OnConfigurationChange itself.
OnActivate ==
    /\ phase = "loading"
    /\ hook[Boot] = HookIdle
    /\ phase' = "activating"
    /\ hook' = [hook EXCEPT ![Boot].pc = "called"]
    /\ UNCHANGED <<saves, due, configuration, kvstore>>

\* The rest of OnActivate: EnsureBot, which may fail, and the handlers.
OnActivateEnsureBot ==
    /\ phase = "activating"
    /\ hook[Boot] = HookIdle
    /\ \/ /\ phase' = "active"
          /\ UNCHANGED <<saves, due, configuration, kvstore, hook>>
       \/ "bot" \in Faults /\ Halt

\* The process crashes, or the plugin is disabled or upgraded.
Stop ==
    /\ "stop" \in Faults
    /\ phase # "down"
    /\ Halt

HookStep(h) ==
    HookLoad(h) \/ HookLoadFails(h) \/ HookSetConfiguration(h) \/ HookSetKVStore(h)

\* Everything but Stop, which ends the requests in flight as well.
ConfStep ==
    \/ \E c \in Settings : AdminSave(c)
    \/ \E h \in Hooks : HookCall(h)
    \/ \E h \in Slots : HookStep(h)
    \/ ProcessStart
    \/ OnActivate
    \/ OnActivateEnsureBot

ConfNext == ConfStep \/ Stop

\* The server delivers the calls it owes, and a call once begun is run.
ConfFairness ==
    /\ WF_confVars(\E h \in Hooks : HookCall(h))
    /\ \A h \in Slots : WF_confVars(HookStep(h))

ConfSpec == ConfInit /\ [][ConfNext]_confVars

-----------------------------------------------------------------------------
(* Properties *)

ConfTypeOK ==
    /\ saves \in Seq(Settings) /\ Len(saves) > 0
    /\ due \in Nat
    /\ phase \in {"down", "loading", "activating", "active"}
    /\ configuration \in 0..Latest
    /\ kvstore \in Keys \cup {None}
    /\ hook \in [Slots -> [pc: {"idle", "called", "loaded", "set"}, cfg: 0..Latest]]

HooksIdle == \A h \in Slots : hook[h] = HookIdle

\* Whenever the plugin serves requests and no hook call is running, the token
\* store belongs to the configuration the requests see: OnActivate's own call
\* of OnConfigurationChange makes up for the store that the call before
\* activation could not set (p.client was nil), and a failed load leaves the
\* two as they were, never one of them.
StoreMatchesConfiguration ==
    phase = "active" /\ HooksIdle =>
        /\ configuration # 0
        /\ kvstore = StoreFor(configuration)

\* The plugin never goes back to settings older than those it has seen,
\* except by losing its memory.
SettingsNeverGoBack ==
    [][configuration' >= configuration \/ phase' = "down"]_confVars
=============================================================================
