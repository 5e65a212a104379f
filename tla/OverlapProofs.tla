---------------------------- MODULE OverlapProofs ----------------------------
(***************************************************************************)
(* Proof about Overlap: any number of calls of OnConfigurationChange may   *)
(* overlap, in any order, and still the next call that runs alone to its   *)
(* end leaves the token store of the configuration.                        *)
(***************************************************************************)
EXTENDS Overlap, ConfigurationProofs

\* What a call in flight has in hand, whatever the others do.
CallsLoaded ==
    \A h \in Slots :
        /\ hook[h].pc = "idle" => hook[h] = HookIdle
        /\ hook[h].pc = "loaded" => hook[h].cfg > 0
        /\ hook[h].pc = "set" => Client /\ hook[h].cfg > 0

CallsInv == ConfTypeOK /\ CallsInPhase /\ CallsLoaded

\* Calls that overlap are known to, and only a plugin that is active has any.
TornByOverlap ==
    /\ trust \in TrustKinds
    /\ Overlapping => trust = "torn"
    /\ trust \in {"torn", "mending"} => phase = "active"
    /\ trust = "mending" => ~ HooksIdle

\* While calls do not overlap, what a call set is what is set.
LoneCallInForce ==
    trust # "torn" => \A h \in Slots : hook[h].pc = "set" => hook[h].cfg = configuration

TrustedStore ==
    Settled /\ trust \in {"whole", "old"} =>
        /\ configuration > 0
        /\ kvstore = StoreFor(configuration) \/ \E h \in Slots : hook[h].pc = "set"

OverlapInv == CallsInv /\ TornByOverlap /\ LoneCallInForce /\ TrustedStore

LEMMA OverlapInvInit ==
    ASSUME OverlapInit
    PROVE  OverlapInv
<1>1. ConfInv
  BY ConfInvInit DEF OverlapInit
<1>2. /\ phase = "down" /\ trust = "whole"
      /\ \A h \in Slots : hook[h] = HookIdle /\ hook[h].pc = "idle"
  BY DEF OverlapInit, ConfInit, HookIdle
<1> QED
  BY <1>1, <1>2
     DEF OverlapInv, CallsInv, CallsLoaded, ConfInv, TornByOverlap, TrustKinds, Overlapping,
         LoneCallInForce, TrustedStore, Settled

\* The calls keep what they have in hand, with or without others.
LEMMA CallsInvStep ==
    ASSUME CallsInv, ConfNext
    PROVE  CallsInv'
<1> USE DEF CallsInv
<1>t. ConfTypeOK'
  BY ConfTypeStep
<1>b. Boot \in Slots /\ Boot \notin Hooks /\ Hooks \subseteq Slots
  BY ConfigurationAssumption DEF Slots
<1>h. ASSUME Halt PROVE CallsInPhase' /\ CallsLoaded'
  BY <1>h, ConfigurationAssumption DEF Halt, CallsInPhase, CallsLoaded, HookIdle, Slots
<1>2. ASSUME NEW c \in Settings, AdminSave(c)
      PROVE  CallsInv'
  BY <1>2, <1>t DEF AdminSave, CallsInPhase, CallsLoaded, Client
<1>3. ASSUME NEW h \in Hooks, HookCall(h)
      PROVE  CallsInv'
  <2>1. /\ UNCHANGED <<saves, phase, configuration, kvstore>>
        /\ phase = "active" /\ hook'[h].pc = "called" /\ h \in Slots /\ h # Boot
        /\ \A g \in Slots : g # h => hook'[g] = hook[g]
    BY <1>3, <1>b DEF HookCall, ConfTypeOK
  <2> QED
    BY <2>1, <1>t, <1>b DEF CallsInPhase, CallsLoaded, Client
<1>4. ASSUME NEW h \in Slots, HookStep(h)
      PROVE  CallsInv'
  <2>1. CASE Halt
    BY <2>1, <1>h, <1>t
  <2>2. CASE ~ Halt
    <3>1. /\ phase' = phase /\ hook[h].pc # "idle"
          /\ \A g \in Slots : g # h => hook'[g] = hook[g]
      BY <1>4, <2>2 DEF HookStep, HookLoad, HookLoadFails, HookSetConfiguration,
                        HookSetKVStore, ConfTypeOK
    <3>2. \/ hook'[h] = HookIdle /\ hook'[h].pc = "idle"
          \/ hook'[h].pc = "loaded" /\ hook'[h].cfg = Latest
          \/ hook'[h].pc = "set" /\ hook'[h].cfg = hook[h].cfg /\ hook[h].pc = "loaded" /\ Client
      BY <1>4, <2>2 DEF HookStep, HookLoad, HookLoadFails, HookSetConfiguration,
                        HookSetKVStore, ConfTypeOK, HookIdle
    <3>3. Latest > 0
      BY DEF ConfTypeOK, Latest
    <3>4. phase # "down" /\ (configuration' = configuration \/ phase' # "down")
      BY <3>1 DEF CallsInPhase, Slots
    <3>5. CallsInPhase'
      BY <3>1, <3>4, <1>b DEF CallsInPhase, Slots
    <3>6. CallsLoaded'
      BY <3>1, <3>2, <3>3 DEF CallsLoaded, Client
    <3> QED
      BY <3>5, <3>6, <1>t
  <2> QED
    BY <2>1, <2>2
<1>5. ASSUME ProcessStart \/ OnActivate
      PROVE  CallsInv'
  <2>1. /\ hook'[Boot].pc = "called"
        /\ \A g \in Slots : g # Boot => hook'[g] = hook[g]
        /\ phase \in {"down", "loading"} /\ phase' \in {"loading", "activating"}
    BY <1>5, <1>b DEF ProcessStart, OnActivate, ConfTypeOK
  <2> QED
    BY <2>1, <1>t, <1>b DEF CallsInPhase, CallsLoaded, Client, Slots
<1>6. ASSUME OnActivateEnsureBot
      PROVE  CallsInv'
  BY <1>6, <1>t, <1>h DEF OnActivateEnsureBot, CallsInPhase, CallsLoaded, Client, HookIdle
<1>7. ASSUME Stop
      PROVE  CallsInv'
  BY <1>7, <1>t, <1>h DEF Stop
<1> QED
  BY <1>2, <1>3, <1>4, <1>5, <1>6, <1>7 DEF ConfNext, ConfStep

\* A process that ends takes all of it away.
LEMMA OverlapHalt ==
    ASSUME OverlapInv, Halt, OverlapNext
    PROVE  TornByOverlap' /\ LoneCallInForce' /\ TrustedStore'
<1>1. phase' = "down" /\ trust' = "whole"
  BY DEF Halt, OverlapNext, Restarted, Tears, Begins, Ends, GoesOn
<1>2. \A h \in Slots : hook'[h] = HookIdle /\ hook'[h].pc = "idle"
  BY DEF Halt, HookIdle
<1> QED
  BY <1>1, <1>2
     DEF TornByOverlap, TrustKinds, Overlapping, LoneCallInForce, TrustedStore, Settled

\* Steps that begin and end no call and set nothing.
LEMMA OverlapFrame ==
    ASSUME OverlapInv, OverlapNext,
           UNCHANGED <<configuration, kvstore, hook>>,
           StoreFor(configuration)' = StoreFor(configuration),
           \/ phase' = phase
           \/ phase = "activating" /\ phase' = "active" /\ hook[Boot].pc = "idle"
    PROVE  TornByOverlap' /\ LoneCallInForce' /\ TrustedStore'
<1>1. Overlapping' = Overlapping /\ HooksIdle' = HooksIdle
  BY DEF Overlapping, HooksIdle
<1>2. CASE phase' = "down"
  <2>1. trust' = "whole" /\ HooksIdle /\ phase = "down"
    BY <1>1, <1>2, ConfigurationAssumption
       DEF OverlapInv, CallsInv, CallsInPhase, CallsLoaded, HooksIdle, Slots,
           OverlapNext, Restarted, Tears, Begins, Ends, GoesOn
  <2>2. \A h \in Slots : hook'[h] = HookIdle /\ hook'[h].pc = "idle"
    BY <2>1 DEF HooksIdle, HookIdle
  <2> QED
    BY <1>2, <2>1, <2>2
       DEF TornByOverlap, TrustKinds, Overlapping, LoneCallInForce, TrustedStore, Settled
<1>3. CASE phase' # "down"
  <2>1. trust' = trust
    BY <1>1, <1>3
       DEF OverlapInv, TornByOverlap, OverlapNext, Restarted, Tears, Begins, Ends, GoesOn
  <2>2. TornByOverlap'
    BY <1>1, <2>1 DEF OverlapInv, TornByOverlap
  <2>3. LoneCallInForce'
    BY <2>1 DEF OverlapInv, LoneCallInForce
  <2>4. Settled' => Settled
    BY DEF Settled
  <2>5. TrustedStore'
    BY <2>1, <2>4 DEF OverlapInv, TrustedStore
  <2> QED
    BY <2>2, <2>3, <2>5
<1> QED
  BY <1>2, <1>3

\* A call begins: it is alone, or it overlaps another.
LEMMA OverlapCall ==
    ASSUME OverlapInv, OverlapNext, NEW h \in Hooks, HookCall(h)
    PROVE  TornByOverlap' /\ LoneCallInForce' /\ TrustedStore'
<1>1. /\ UNCHANGED <<saves, phase, configuration, kvstore>>
      /\ phase = "active" /\ h \in Slots
      /\ hook[h] = HookIdle /\ hook[h].pc = "idle"
      /\ hook'[h].pc = "called" /\ hook'[h] # HookIdle
      /\ \A g \in Slots : g # h => hook'[g] = hook[g]
  BY DEF HookCall, OverlapInv, CallsInv, ConfTypeOK, HookIdle, Slots
<1>2. StoreFor(configuration)' = StoreFor(configuration)
  BY <1>1 DEF StoreFor, IsValid, Cfg
<1>3. ~ HooksIdle' /\ phase' # "down" /\ Settled
  BY <1>1 DEF HooksIdle, Settled
<1>4. CASE Overlapping'
  <2>1. trust' = "torn"
    BY <1>3, <1>4 DEF OverlapNext, Restarted, Tears, Begins, Ends, GoesOn
  <2> QED
    BY <1>1, <2>1 DEF TornByOverlap, TrustKinds, LoneCallInForce, TrustedStore
<1>5. CASE ~ Overlapping'
  <2>1. \A g \in Slots : g # h => hook'[g] = HookIdle /\ hook[g] = HookIdle
    BY <1>1, <1>5 DEF Overlapping
  <2>2. \A g \in Slots : hook'[g].pc # "set" /\ hook[g].pc # "set"
    BY <1>1, <2>1 DEF HookIdle
  <2>3. HooksIdle
    BY <1>1, <2>1 DEF HooksIdle
  <2>4. trust' = IF trust = "torn" THEN "mending" ELSE trust
    BY <1>3, <1>5, <2>3 DEF OverlapNext, Restarted, Tears, Begins, Ends, GoesOn
  <2>5. TornByOverlap'
    BY <1>1, <1>3, <1>5, <2>4 DEF OverlapInv, TornByOverlap, TrustKinds
  <2>6. LoneCallInForce' /\ TrustedStore'
    BY <1>1, <1>2, <1>3, <2>2, <2>4 DEF OverlapInv, LoneCallInForce, TrustedStore
  <2> QED
    BY <2>5, <2>6
<1> QED
  BY <1>4, <1>5

\* A call goes on while others have overlapped since the last that ran alone:
\* nothing can be said but that.
LEMMA OverlapTornStep ==
    ASSUME OverlapInv, OverlapNext, NEW h \in Slots, HookStep(h), ~ Halt, trust = "torn"
    PROVE  TornByOverlap' /\ LoneCallInForce' /\ TrustedStore'
<1>1. /\ phase = "active" /\ phase' = phase /\ hook[h] # HookIdle
  BY DEF OverlapInv, TornByOverlap, HookStep, HookLoad, HookLoadFails,
         HookSetConfiguration, HookSetKVStore, HookIdle
<1>2. trust' = "torn"
  BY <1>1 DEF OverlapNext, Restarted, Tears, Begins, Ends, GoesOn, HooksIdle
<1> QED
  BY <1>1, <1>2 DEF TornByOverlap, TrustKinds, LoneCallInForce, TrustedStore

\* A call that runs alone goes on.  The store is its configuration's when it has
\* set both; until then it is what it was.
LEMMA OverlapLoneStep ==
    ASSUME OverlapInv, OverlapNext, NEW h \in Slots, HookStep(h), ~ Halt, trust # "torn"
    PROVE  TornByOverlap' /\ LoneCallInForce' /\ TrustedStore'
<1>t. ConfTypeOK /\ CallsInPhase /\ CallsLoaded
  BY DEF OverlapInv, CallsInv
<1>1. /\ phase' = phase /\ hook[h] # HookIdle /\ hook[h].pc # "idle" /\ saves' = saves
      /\ \A g \in Slots : g # h => hook'[g] = hook[g]
  BY <1>t DEF HookStep, HookLoad, HookLoadFails, HookSetConfiguration, HookSetKVStore,
              ConfTypeOK, HookIdle
<1>2. \A g \in Slots : g # h => /\ hook[g] = HookIdle /\ hook'[g] = HookIdle
                                /\ hook[g].pc = "idle" /\ hook'[g].pc = "idle"
  BY <1>1 DEF OverlapInv, TornByOverlap, Overlapping, HookIdle
<1>3. /\ ~ Overlapping' /\ ~ HooksIdle /\ phase # "down"
      /\ HooksIdle' <=> hook'[h] = HookIdle
      /\ NotLoaded <=> hook[h].pc = "called"
      /\ Settled' <=> phase = "active" \/ (phase = "activating" /\ hook'[Boot].pc = "idle")
  BY <1>1, <1>2, <1>t
     DEF Overlapping, HooksIdle, NotLoaded, Settled, CallsInPhase, Slots, HookIdle
<1>4. CASE hook'[h] # HookIdle
  <2>1. trust' = trust
    BY <1>1, <1>3, <1>4 DEF OverlapNext, Restarted, Tears, Begins, Ends, GoesOn
  <2>2. TornByOverlap'
    BY <1>1, <1>3, <1>4, <2>1 DEF OverlapInv, TornByOverlap
  <2>3. CASE HookLoad(h)
    <3>1. hook[h].pc = "called" /\ hook'[h].pc = "loaded" /\ UNCHANGED <<configuration, kvstore>>
      BY <2>3, <1>t DEF HookLoad, ConfTypeOK
    <3>2. StoreFor(configuration)' = StoreFor(configuration)
      BY <1>1, <3>1 DEF StoreFor, IsValid, Cfg
    <3>3. LoneCallInForce'
      BY <1>2, <3>1 DEF LoneCallInForce
    <3>4. Settled' => phase = "active" /\ Settled
      BY <1>2, <1>3, <1>t, <3>1 DEF Settled, CallsInPhase, Slots
    <3>5. TrustedStore'
      BY <1>2, <2>1, <3>1, <3>2, <3>4 DEF OverlapInv, TrustedStore
    <3> QED
      BY <2>2, <3>3, <3>5
  <2>4. CASE HookSetConfiguration(h)
    <3>1. /\ hook'[h].pc = "set" /\ hook'[h].cfg = hook[h].cfg
          /\ configuration' = hook[h].cfg /\ hook[h].cfg > 0
      BY <1>4, <2>4, <1>t DEF HookSetConfiguration, ConfTypeOK, CallsLoaded
    <3>2. LoneCallInForce'
      BY <1>2, <3>1 DEF LoneCallInForce
    <3>3. TrustedStore'
      BY <3>1 DEF TrustedStore
    <3> QED
      BY <2>2, <3>2, <3>3
  <2>5. HookLoad(h) \/ HookSetConfiguration(h)
    BY <1>4, <1>t DEF HookStep, HookLoadFails, HookSetKVStore, ConfTypeOK
  <2> QED
    BY <2>3, <2>4, <2>5
<1>5. CASE hook'[h] = HookIdle
  <2>1. /\ trust' = CASE trust = "mending" /\ NotLoaded -> "torn"
                      [] trust \in {"whole", "old"} /\ NotLoaded -> "old"
                      [] OTHER -> "whole"
        /\ trust \in {"whole", "old", "mending"}
    BY <1>1, <1>3, <1>5
       DEF OverlapInv, TornByOverlap, TrustKinds, OverlapNext, Restarted, Tears, Begins,
           Ends, GoesOn
  <2>2. TornByOverlap'
    BY <1>1, <1>3, <2>1 DEF OverlapInv, TornByOverlap, TrustKinds
  <2>3. LoneCallInForce'
    BY <1>2, <1>5 DEF LoneCallInForce, HookIdle
  <2>4. CASE HookLoadFails(h)
    <3>1. hook[h].pc = "called" /\ phase # "activating" /\ UNCHANGED <<configuration, kvstore>>
      BY <2>4 DEF HookLoadFails
    <3>2. StoreFor(configuration)' = StoreFor(configuration)
      BY <1>1, <3>1 DEF StoreFor, IsValid, Cfg
    <3>3. /\ trust' \in {"whole", "old"} => trust \in {"whole", "old"}
          /\ Settled' => Settled
          /\ \A g \in Slots : hook[g].pc # "set"
      BY <1>1, <1>2, <1>3, <2>1, <3>1 DEF Settled
    <3>4. TrustedStore'
      BY <3>2, <3>1, <3>3 DEF OverlapInv, TrustedStore
    <3> QED
      BY <2>2, <2>3, <3>4
  <2>5. CASE HookSetConfiguration(h)
    <3>1. ~ Client
      BY <1>5, <2>5, <1>t DEF HookSetConfiguration, ConfTypeOK, HookIdle
    <3>2. TrustedStore'
      BY <1>3, <3>1 DEF TrustedStore, Client
    <3> QED
      BY <2>2, <2>3, <3>2
  <2>6. CASE HookSetKVStore(h)
    <3>1. /\ hook[h].pc = "set" /\ UNCHANGED configuration
          /\ hook[h].cfg = configuration /\ hook[h].cfg > 0
          /\ kvstore' = StoreFor(hook[h].cfg)
      BY <2>6, <1>t DEF HookSetKVStore, OverlapInv, LoneCallInForce, CallsLoaded
    <3>2. StoreFor(configuration)' = StoreFor(configuration)
      BY <1>1, <3>1 DEF StoreFor, IsValid, Cfg
    <3>3. TrustedStore'
      BY <3>1, <3>2 DEF TrustedStore
    <3> QED
      BY <2>2, <2>3, <3>3
  <2>7. HookLoadFails(h) \/ HookSetConfiguration(h) \/ HookSetKVStore(h)
    BY <1>5, <1>t DEF HookStep, HookLoad, ConfTypeOK, HookIdle
  <2> QED
    BY <2>4, <2>5, <2>6, <2>7
<1> QED
  BY <1>4, <1>5

\* The calls of a plugin that starts run alone, and before it is active its
\* store does not matter.
LEMMA OverlapStarts ==
    ASSUME OverlapInv, OverlapNext, ProcessStart \/ OnActivate
    PROVE  TornByOverlap' /\ LoneCallInForce' /\ TrustedStore'
<1>t. ConfTypeOK /\ CallsInPhase /\ CallsLoaded /\ Boot \in Slots
  BY DEF OverlapInv, CallsInv, Slots
<1>1. /\ phase \in {"down", "loading"} /\ phase' \in {"loading", "activating"}
      /\ hook[Boot].pc = "idle" /\ hook[Boot] = HookIdle
      /\ hook'[Boot].pc = "called" /\ hook'[Boot] # HookIdle
      /\ \A g \in Slots : g # Boot => hook'[g] = hook[g]
  BY <1>t DEF ProcessStart, OnActivate, ConfTypeOK, CallsInPhase, CallsLoaded, HookIdle
<1>2. \A g \in Slots : g # Boot => /\ hook'[g] = HookIdle /\ hook'[g].pc = "idle"
                                   /\ hook[g] = HookIdle
  BY <1>1, <1>t DEF CallsInPhase, CallsLoaded, Slots
<1>3. ~ Overlapping' /\ HooksIdle /\ ~ HooksIdle' /\ ~ Settled'
  BY <1>1, <1>2, <1>t DEF Overlapping, HooksIdle, Settled
<1>4. trust \in {"whole", "old"}
  BY <1>1 DEF OverlapInv, TornByOverlap, TrustKinds
<1>5. trust' = trust
  BY <1>1, <1>3, <1>4 DEF OverlapNext, Restarted, Tears, Begins, Ends, GoesOn
<1>6. \A g \in Slots : hook'[g].pc # "set"
  BY <1>1, <1>2
<1> QED
  BY <1>3, <1>4, <1>5, <1>6 DEF TornByOverlap, TrustKinds, LoneCallInForce, TrustedStore

LEMMA OverlapInvStep ==
    ASSUME OverlapInv, [OverlapNext]_overlapVars
    PROVE  OverlapInv'
<1>0. CASE UNCHANGED overlapVars
  BY <1>0
     DEF overlapVars, confVars, OverlapInv, CallsInv, ConfTypeOK, Latest, CallsInPhase,
         CallsLoaded, Client, TornByOverlap, Overlapping, HooksIdle, LoneCallInForce,
         TrustedStore, Settled, StoreFor, IsValid, Cfg
<1>1. CASE OverlapNext
  <2>c. CallsInv'
    BY <1>1, CallsInvStep DEF OverlapInv, OverlapNext
  <2> SUFFICES TornByOverlap' /\ LoneCallInForce' /\ TrustedStore'
    BY <2>c DEF OverlapInv
  <2>t. ConfTypeOK /\ CallsInv
    BY DEF OverlapInv, CallsInv
  <2>1. ASSUME NEW c \in Settings, AdminSave(c)
        PROVE  TornByOverlap' /\ LoneCallInForce' /\ TrustedStore'
    <3>1. UNCHANGED <<phase, configuration, kvstore, hook>>
      BY <2>1 DEF AdminSave
    <3>2. StoreFor(configuration)' = StoreFor(configuration)
      BY <2>1, <2>t, <3>1, AdminSaveKeepsVersions DEF ConfTypeOK
    <3> QED
      BY <1>1, <3>1, <3>2, OverlapFrame
  <2>2. ASSUME NEW h \in Slots, HookStep(h)
        PROVE  TornByOverlap' /\ LoneCallInForce' /\ TrustedStore'
    BY <1>1, <2>2, OverlapHalt, OverlapTornStep, OverlapLoneStep
  <2>3. CASE OnActivateEnsureBot
    <3>1. CASE Halt
      BY <1>1, <3>1, OverlapHalt
    <3>2. CASE ~ Halt
      <4>1. /\ phase = "activating" /\ phase' = "active" /\ hook[Boot].pc = "idle"
            /\ UNCHANGED <<saves, due, configuration, kvstore, hook>>
        BY <2>3, <3>2 DEF OnActivateEnsureBot, HookIdle
      <4>2. StoreFor(configuration)' = StoreFor(configuration)
        BY <4>1 DEF StoreFor, IsValid, Cfg
      <4> QED
        BY <1>1, <4>1, <4>2, OverlapFrame
    <3> QED
      BY <3>1, <3>2
  <2>4. CASE Stop
    BY <1>1, <2>4, OverlapHalt DEF Stop
  <2> QED
    BY <1>1, <2>1, <2>2, <2>3, <2>4, OverlapCall, OverlapStarts
       DEF OverlapNext, ConfNext, ConfStep
<1> QED
  BY <1>0, <1>1

\* However the calls of OnConfigurationChange overlap, the next that runs alone
\* to its end leaves the token store that belongs to its configuration, for any
\* number of calls at once.
THEOREM LoneCallRepairsCorrect == OverlapSpec => []LoneCallRepairs
<1>1. OverlapInit => OverlapInv
  BY OverlapInvInit
<1>2. OverlapInv /\ [OverlapNext]_overlapVars => OverlapInv'
  BY OverlapInvStep
<1>3. OverlapInv => LoneCallRepairs
  BY DEF OverlapInv, CallsInv, ConfTypeOK, TrustedStore, Settled, LoneCallRepairs,
         HooksIdle, HookIdle
<1> QED
  BY <1>1, <1>2, <1>3, PTL DEF OverlapSpec

-----------------------------------------------------------------------------
(* No save is missed *)

\* A call that runs alone has the latest settings, or the server owes another.
FreshCalls ==
    trust # "torn" /\ due = 0 =>
        \A h \in Slots : hook[h].pc \in {"loaded", "set"} => hook[h].cfg = Latest

LatestInForce ==
    Settled /\ HooksIdle /\ due = 0 /\ trust = "whole" => configuration = Latest

LatestInv == FreshCalls /\ LatestInForce

LEMMA LatestInvInit ==
    ASSUME OverlapInit
    PROVE  LatestInv
BY DEF OverlapInit, ConfInit, HookIdle, LatestInv, FreshCalls, LatestInForce, Settled

LEMMA LatestHalt ==
    ASSUME Halt
    PROVE  LatestInv'
BY DEF Halt, HookIdle, LatestInv, FreshCalls, LatestInForce, Settled

\* A call begins, and takes what the server owed for one save.
LEMMA LatestCall ==
    ASSUME OverlapInv, OverlapInv', NEW h \in Hooks, HookCall(h)
    PROVE  LatestInv'
<1>1. h \in Slots /\ hook'[h].pc = "called" /\ hook'[h] # HookIdle
  BY DEF HookCall, OverlapInv, CallsInv, ConfTypeOK, HookIdle, Slots
<1>2. trust' # "torn" => \A g \in Slots : g # h => hook'[g] = HookIdle
  BY <1>1 DEF OverlapInv, TornByOverlap, Overlapping
<1> QED
  BY <1>1, <1>2 DEF LatestInv, FreshCalls, LatestInForce, HooksIdle, HookIdle

\* A call goes on, alone or not.
LEMMA LatestStep ==
    ASSUME OverlapInv, LatestInv, OverlapNext, NEW h \in Slots, HookStep(h), ~ Halt
    PROVE  LatestInv'
<1>t. ConfTypeOK /\ CallsInPhase /\ CallsLoaded
  BY DEF OverlapInv, CallsInv
<1>1. /\ UNCHANGED <<saves, due, phase>> /\ phase # "down"
      /\ hook[h] # HookIdle /\ hook[h].pc # "idle"
      /\ \A g \in Slots : g # h => hook'[g] = hook[g]
  BY <1>t DEF HookStep, HookLoad, HookLoadFails, HookSetConfiguration, HookSetKVStore,
              ConfTypeOK, HookIdle, CallsInPhase, Slots
<1>2. Latest' = Latest
  BY <1>1 DEF Latest
<1>3. CASE trust = "torn"
  <2>1. trust' = "torn"
    BY <1>1, <1>3 DEF OverlapNext, Restarted, Tears, Begins, Ends, GoesOn, HooksIdle
  <2> QED
    BY <2>1 DEF LatestInv, FreshCalls, LatestInForce
<1>4. CASE trust # "torn"
  <2>1. \A g \in Slots : g # h => /\ hook[g] = HookIdle /\ hook'[g] = HookIdle
                                  /\ hook'[g].pc = "idle"
    BY <1>1, <1>4 DEF OverlapInv, TornByOverlap, Overlapping, HookIdle
  <2>2. HooksIdle' <=> hook'[h] = HookIdle
    BY <2>1 DEF HooksIdle
  <2>3. CASE HookLoad(h)
    <3>1. hook'[h].pc = "loaded" /\ hook'[h].cfg = Latest
      BY <2>3, <1>t DEF HookLoad, ConfTypeOK
    <3> QED
      BY <1>2, <2>1, <2>2, <3>1 DEF LatestInv, FreshCalls, LatestInForce, HookIdle
  <2>4. CASE HookLoadFails(h)
    <3>1. hook[h].pc = "called" /\ hook'[h] = HookIdle /\ hook'[h].pc = "idle"
      BY <2>4, <1>t DEF HookLoadFails, ConfTypeOK, HookIdle
    <3>2. ~ Overlapping' /\ ~ HooksIdle /\ HooksIdle' /\ NotLoaded
      BY <1>1, <2>1, <2>2, <3>1 DEF Overlapping, HooksIdle, NotLoaded
    <3>3. trust' # "whole"
      BY <1>1, <1>4, <3>2
         DEF OverlapInv, TornByOverlap, TrustKinds, OverlapNext, Restarted, Tears, Begins,
             Ends, GoesOn
    <3> QED
      BY <2>1, <3>1, <3>3 DEF LatestInv, FreshCalls, LatestInForce
  <2>5. CASE HookSetConfiguration(h) /\ Client
    <3>1. hook'[h].pc = "set" /\ hook'[h].cfg = hook[h].cfg /\ hook[h].pc = "loaded"
      BY <2>5, <1>t DEF HookSetConfiguration, ConfTypeOK
    <3> QED
      BY <1>1, <1>2, <1>4, <2>1, <2>2, <3>1
         DEF LatestInv, FreshCalls, LatestInForce, HookIdle
  <2>6. CASE HookSetConfiguration(h) /\ ~ Client
    <3>1. hook'[h].pc = "idle" /\ ~ Settled'
      BY <1>1, <2>6, <1>t DEF HookSetConfiguration, ConfTypeOK, HookIdle, Settled, Client
    <3> QED
      BY <2>1, <3>1 DEF LatestInv, FreshCalls, LatestInForce
  <2>7. CASE HookSetKVStore(h)
    <3>1. /\ hook[h].pc = "set" /\ hook'[h].pc = "idle" /\ UNCHANGED configuration
          /\ hook[h].cfg = configuration
      BY <1>4, <2>7, <1>t DEF HookSetKVStore, ConfTypeOK, HookIdle, OverlapInv, LoneCallInForce
    <3> QED
      BY <1>1, <1>2, <1>4, <2>1, <3>1 DEF LatestInv, FreshCalls, LatestInForce
  <2> QED
    BY <2>3, <2>4, <2>5, <2>6, <2>7 DEF HookStep
<1> QED
  BY <1>3, <1>4

LEMMA LatestInvStep ==
    ASSUME OverlapInv, OverlapInv', LatestInv, [OverlapNext]_overlapVars
    PROVE  LatestInv'
<1>t. ConfTypeOK /\ CallsInPhase /\ CallsLoaded /\ Boot \in Slots
  BY DEF OverlapInv, CallsInv, Slots
<1>0. CASE UNCHANGED overlapVars
  BY <1>0 DEF overlapVars, confVars, LatestInv, FreshCalls, LatestInForce, HooksIdle,
              Settled, Latest
<1>1. ASSUME NEW c \in Settings, AdminSave(c)
      PROVE  LatestInv'
  <2>1. due' # 0
    BY <1>1, <1>t DEF AdminSave, ConfTypeOK
  <2> QED
    BY <2>1 DEF LatestInv, FreshCalls, LatestInForce
<1>2. ASSUME ProcessStart \/ OnActivate
      PROVE  LatestInv'
  <2>1. /\ UNCHANGED <<saves, due>> /\ trust # "torn"
        /\ hook'[Boot].pc = "called" /\ hook'[Boot] # HookIdle
        /\ \A g \in Slots : g # Boot => hook'[g] = hook[g]
    BY <1>2, <1>t DEF ProcessStart, OnActivate, ConfTypeOK, HookIdle, OverlapInv, TornByOverlap
  <2> QED
    BY <2>1, <1>t DEF LatestInv, FreshCalls, LatestInForce, HooksIdle, Latest
<1>3. ASSUME OnActivateEnsureBot, ~ Halt, OverlapNext
      PROVE  LatestInv'
  <2>1. /\ UNCHANGED <<saves, due, configuration, kvstore, hook>>
        /\ phase = "activating" /\ phase' = "active" /\ hook[Boot].pc = "idle"
    BY <1>3 DEF OnActivateEnsureBot, HookIdle
  <2>2. trust' = trust
    BY <1>3, <2>1
       DEF OverlapInv, TornByOverlap, Overlapping, HooksIdle, OverlapNext, Restarted, Tears,
           Begins, Ends, GoesOn
  <2> QED
    BY <2>1, <2>2 DEF LatestInv, FreshCalls, LatestInForce, HooksIdle, Settled, Latest
<1> QED
  BY <1>0, <1>1, <1>2, <1>3, LatestHalt, LatestCall, LatestStep
     DEF OverlapNext, ConfNext, ConfStep, Stop

\* Whatever saves, calls and restarts met: once no call is owed and none runs,
\* a plugin whose last calls were not torn serves by the settings saved last.
THEOREM NoSaveMissedCorrect == OverlapSpec => []NoSaveMissed
<1>1. OverlapInit => OverlapInv /\ LatestInv
  BY OverlapInvInit, LatestInvInit
<1>2. OverlapInv /\ [OverlapNext]_overlapVars => OverlapInv'
  BY OverlapInvStep
<1>3. OverlapInv /\ OverlapInv' /\ LatestInv /\ [OverlapNext]_overlapVars => LatestInv'
  BY LatestInvStep
<1>4. LoneCallRepairs /\ LatestInv => NoSaveMissed
  BY DEF LoneCallRepairs, LatestInv, LatestInForce, NoSaveMissed, Settled
<1> QED
  BY <1>1, <1>2, <1>3, <1>4, LoneCallRepairsCorrect, PTL DEF OverlapSpec
=============================================================================
