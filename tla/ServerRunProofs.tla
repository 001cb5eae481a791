--------------------------- MODULE ServerRunProofs --------------------------
(***************************************************************************)
(* Proofs about ServerRun, for any clients, hooks and amounts of memory:   *)
(* what a start that fails leaves behind; whatever run(), serve() and the  *)
(* signal do, the server itself only takes the steps of Shutdown; and so   *)
(* the invariant of ShutdownProofs carries over, and an Ok from run()      *)
(* means that the drain has ended and that every hook was settled; the     *)
(* types of its states follow from the same invariant.                     *)
(***************************************************************************)
EXTENDS ServerRun, TLAPS

SP == INSTANCE ShutdownProofs

(* Until the tasks are spawned, nothing of the server has moved; the       *)
(* trackers are there from their own step on.                              *)
Tracking == trackers = "running" <=> stage \notin {"start", "built"}

NotSpawned == S!Init /\ sampler = "none" /\ failure = "none"

StartInv ==
  /\ mode \in {"run", "serve"}
  /\ stage \in Starting => NotSpawned /\ Tracking
  /\ FailedStartLeaves

LEMMA InitStartInv == Init => StartInv
  BY DEF Init, StartInv, NotSpawned, Tracking, FailedStartLeaves, Mem!Init

(* What is said of the server's variables stays true while they do.        *)
LEMMA InitStays == S!Init /\ UNCHANGED srv_vars => S!Init'
  BY DEF S!Init, srv_vars

(* A step of the start that fails, or that spawns nothing, moves no task.  *)
LEMMA StartStepStartInv == StartInv /\ StartNext => StartInv'
<1> SUFFICES ASSUME StartInv, StartNext PROVE StartInv'
  OBVIOUS
<1>1. ASSUME NEW from \in Starting, NEW to, StartStep(from, to)
      PROVE  /\ stage = from /\ stage' = to /\ mode' = mode
             /\ NotSpawned /\ S!Init'
             /\ trackers' = trackers /\ Tracking
  <2>1. UNCHANGED srv_vars
    BY <1>1 DEF StartStep
  <2>2. stage = from /\ stage' = to /\ mode' = mode /\ trackers' = trackers
    BY <1>1 DEF StartStep
  <2>3. NotSpawned /\ Tracking
    BY <1>1, <2>2 DEF StartInv
  <2> QED
    BY <2>1, <2>2, <2>3, InitStays DEF NotSpawned
<1>2. ASSUME NEW from \in Starting, NEW to \in Starting, Succeed(from, to),
             from \in {"start", "built"} <=> to \in {"start", "built"}
      PROVE  StartInv'
  <2>1. UNCHANGED <<failure, sampler>> /\ StartStep(from, to)
    BY <1>2 DEF Succeed, mem_vars
  <2>2. stage' \in Starting /\ NotSpawned' /\ mode' = mode
    BY <1>1, <2>1 DEF NotSpawned
  <2>3. Tracking'
    BY <1>1, <1>2, <2>1 DEF Tracking
  <2> QED
    BY <2>2, <2>3 DEF StartInv, FailedStartLeaves, Starting
<1>3. ASSUME NEW from \in Starting, NEW step, step # "certificate",
             from \in {"start", "built"} <=> step \in {"builder", "config"},
             Fail(from, step)
      PROVE  StartInv'
  <2>1. failure' = step /\ sampler' = sampler /\ StartStep(from, "failed")
    BY <1>3 DEF Fail, mem_vars
  <2>2. stage' = "failed" /\ S!Init' /\ mode' = mode /\ sampler' = "none"
    BY <1>1, <2>1 DEF NotSpawned
  <2>3. trackers' = "running" <=> step \notin {"builder", "config"}
    BY <1>1, <1>3, <2>1 DEF Tracking
  <2> QED
    BY <1>3, <2>1, <2>2, <2>3 DEF StartInv, FailedStartLeaves, Starting
<1>4. CASE CheckBuilder
  BY <1>2, <1>3, <1>4 DEF CheckBuilder, Starting
<1>5. CASE CreateTrackers
  <2>1. /\ stage = "built" /\ stage' = "tracking" /\ trackers' = "running"
        /\ UNCHANGED <<mode, failure, sampler>> /\ UNCHANGED srv_vars
    BY <1>5 DEF CreateTrackers, mem_vars
  <2>2. NotSpawned
    BY <2>1 DEF StartInv, Starting
  <2>3. NotSpawned'
    BY <2>1, <2>2, InitStays DEF NotSpawned
  <2>4. Tracking'
    BY <2>1 DEF Tracking
  <2> QED
    BY <2>1, <2>3, <2>4 DEF StartInv, FailedStartLeaves
<1>6. CASE InitConfig
  BY <1>3, <1>5, <1>6 DEF InitConfig, Starting
<1>7. CASE RegisterTools
  BY <1>2, <1>3, <1>7 DEF RegisterTools, Starting
<1>8. CASE Listen
  BY <1>2, <1>3, <1>8 DEF Listen, Starting
<1>9. CASE BadAddress
  BY <1>3, <1>9 DEF BadAddress, Starting
<1>10. CASE BadCertificate
  <2>1. /\ StartStep("listening", "failed")
        /\ failure' = "certificate" /\ sampler' = "running"
    BY <1>10 DEF BadCertificate, Mem!Spawn
  <2>2. stage = "listening" /\ stage' = "failed" /\ S!Init' /\ mode' = mode
    BY <1>1, <2>1 DEF Starting
  <2>3. trackers' = "running"
    BY <1>1, <2>1, <2>2 DEF Tracking, Starting
  <2> QED
    BY <2>1, <2>2, <2>3 DEF StartInv, FailedStartLeaves, Starting
<1>11. CASE SpawnServer
  <2>1. StartStep("listening", "serving")
    BY <1>11 DEF SpawnServer
  <2>2. stage' = "serving" /\ mode' = mode
    BY <1>1, <2>1 DEF Starting
  <2> QED
    BY <2>2 DEF StartInv, FailedStartLeaves, Starting
<1> QED
  BY <1>4, <1>6, <1>7, <1>8, <1>9, <1>10, <1>11 DEF StartNext

(* run() fails in ways of its own, but then it is run().                   *)
LEMMA RunStepStartInv ==
  StartInv /\ (RunNext \/ Signal) => StartInv'
<1> SUFFICES ASSUME StartInv, RunNext \/ Signal PROVE StartInv'
  OBVIOUS
<1>1. mode = "run" /\ mode' = "run"
  BY DEF RunNext, Signal, InstallHandlers, HandlersFail, CancelOnSignal,
         WaitForCompletion, Return, RunStep
<1>2. stage' \notin Starting
  BY DEF RunNext, Signal, InstallHandlers, HandlersFail, CancelOnSignal,
         WaitForCompletion, Return, RunStep, Starting
<1> QED
  BY <1>1, <1>2 DEF StartInv, FailedStartLeaves

(* The tasks run, and the owner of a handle acts, only while it serves.    *)
LEMMA ServingStartInv ==
  ASSUME StartInv, stage \in Serving, UNCHANGED builder
  PROVE  StartInv'
  BY DEF StartInv, FailedStartLeaves, Starting, Serving, builder

(* A sampler that runs is stopped only by the token.                       *)
LEMMA SamplerStartInv ==
  StartInv /\ (UseMemory \/ SampleStep \/ StopSampler) => StartInv'
<1> SUFFICES ASSUME StartInv, UseMemory \/ SampleStep \/ StopSampler
             PROVE  StartInv'
  OBVIOUS
<1>1. UNCHANGED srv_vars /\ UNCHANGED builder /\ sampler = "running"
  BY DEF UseMemory, SampleStep, StopSampler, Sampler, Mem!Sample,
         Mem!FirstSample, Mem!Report, Mem!NoReport, Mem!Reading, Mem!Stop
<1>2. stage \notin Starting
  BY <1>1 DEF StartInv, NotSpawned
<1>3. S!Init => sampler' = sampler
  BY DEF UseMemory, SampleStep, StopSampler, Sampler, Mem!Use, Mem!Sample,
         Mem!FirstSample, Mem!Report, Mem!NoReport, Mem!Reading, S!Init
<1>4. FailedStartLeaves'
  BY <1>1, <1>3, InitStays DEF StartInv, FailedStartLeaves, builder
<1> QED
  BY <1>1, <1>2, <1>4 DEF StartInv, builder

LEMMA NextStartInv == StartInv /\ [Next]_vars => StartInv'
<1> SUFFICES ASSUME StartInv, [Next]_vars PROVE StartInv'
  OBVIOUS
<1>1. CASE OwnerStep \/ ClientStep \/ ServerStep \/ MonitorStep
  <2>1. stage \in Serving /\ UNCHANGED builder
    BY <1>1 DEF OwnerStep, ClientStep, ServerStep, MonitorStep, Task, Serving
  <2> QED
    BY <2>1, ServingStartInv
<1>2. CASE UNCHANGED vars
  <2>1. UNCHANGED builder /\ UNCHANGED srv_vars /\ sampler' = sampler
    BY <1>2 DEF vars, mem_vars
  <2>2. S!Init => S!Init'
    BY <2>1, InitStays
  <2> QED
    BY <2>1, <2>2 DEF StartInv, NotSpawned, Tracking, FailedStartLeaves, builder
<1> QED
  BY <1>1, <1>2, StartStepStartInv, RunStepStartInv, SamplerStartInv DEF Next

(* A start that fails leaves the tasks of the trackers if it came that     *)
(* far, the memory monitor if it was the certificate, and of the server    *)
(* nothing.                                                                *)
THEOREM FailedStart == Spec => []FailedStartLeaves
<1>1. StartInv => FailedStartLeaves
  BY DEF StartInv
<1> QED
  BY <1>1, InitStartInv, NextStartInv, PTL DEF Spec

-----------------------------------------------------------------------------
(* The steps that leave the server alone.                                  *)
LEMMA ServerAlone ==
  \/ StartNext
  \/ InstallHandlers
  \/ Signal
  \/ UseMemory
  \/ SampleStep
  \/ StopSampler
  => UNCHANGED srv_vars
  BY DEF StartNext, CheckBuilder, InitConfig, CreateTrackers, RegisterTools,
         Listen, BadAddress, BadCertificate, SpawnServer, Succeed, Fail, StartStep,
         InstallHandlers, Signal, UseMemory, SampleStep, StopSampler, Sampler

(* The others are steps of it.                                             *)
LEMMA ServerMoves ==
  \/ HandlersFail
  \/ CancelOnSignal
  \/ WaitForCompletion
  \/ Return
  \/ OwnerStep
  \/ ClientStep
  \/ ServerStep
  \/ MonitorStep
  => S!Next
  BY DEF HandlersFail, CancelOnSignal, WaitForCompletion, Return, OwnerStep,
         ClientStep, ServerStep, MonitorStep, Task, S!Next, S!HandleNext,
         S!WaitEnds

LEMMA NextRunsShutdown == [Next]_vars => [S!Next]_srv_vars
<1>1. CASE Next
  BY <1>1, ServerAlone, ServerMoves DEF Next, RunNext
<1>2. CASE UNCHANGED vars
  BY <1>2 DEF vars
<1> QED
  BY <1>1, <1>2

(* Whatever starts and ends it, the server inside run() and serve() is one *)
(* of Shutdown: the signal and the end of run() move it only as the owner  *)
(* of its handle may.                                                      *)
THEOREM RunsShutdown == Spec => S!Init /\ [][S!Next]_srv_vars
<1>1. Init => S!Init
  BY DEF Init
<1> QED
  BY <1>1, NextRunsShutdown, PTL DEF Spec

-----------------------------------------------------------------------------
(* The steps of the server are those that ShutdownProofs is about.         *)
LEMMA SameInit == S!Init => SP!Init
  BY DEF S!Init, SP!Init

(* The owner of the handle acts alike in both.                             *)
LEMMA SameHandle == S!HandleNext => SP!HandleNext
  BY DEF S!HandleNext, SP!HandleNext, S!Cancel, SP!Cancel,
         S!WaitForCompletion, SP!WaitForCompletion, S!DropHandle,
         SP!DropHandle, S!WaitEnds, SP!WaitEnds, S!WaitOk, SP!WaitOk,
         S!WaitLost, SP!WaitLost, S!WaitTimesOut, SP!WaitTimesOut,
         S!HandleStep, SP!HandleStep, S!hooks, SP!hooks

(* So do the connections and the calls,                                    *)
LEMMA SameClients ==
  /\ S!ConnNext => SP!ConnNext
  /\ S!CallNext => SP!CallNext
  BY DEF S!ConnNext, SP!ConnNext, S!Accept, SP!Accept, S!HandshakeOk,
         SP!HandshakeOk, S!HandshakeFails, SP!HandshakeFails, S!CloseConn,
         SP!CloseConn, S!ConnStep, SP!ConnStep, S!CallNext, SP!CallNext,
         S!Submit, SP!Submit, S!BeginCall, SP!BeginCall, S!EndCall,
         SP!EndCall, S!CallStep, SP!CallStep, S!hooks, SP!hooks

(* the server task,                                                        *)
LEMMA SameServer == S!ServerNext => SP!ServerNext
  BY DEF S!ServerNext, SP!ServerNext, S!StopAccepting, SP!StopAccepting,
         S!ServerFinish, SP!ServerFinish, S!ServerPanic, SP!ServerPanic,
         S!ServerStep, SP!ServerStep, S!hooks, SP!hooks

(* the shutdown hooks,                                                     *)
LEMMA SameHooks ==
  /\ S!HooksStep => SP!HooksStep
  /\ S!M!HookPanics => SP!M!HookPanics
  BY DEF S!HooksStep, SP!HooksStep, S!M!BeginShutdown, SP!M!BeginShutdown,
         S!M!StartHook, SP!M!StartHook, S!M!HookOk, SP!M!HookOk,
         S!M!HookErr, SP!M!HookErr, S!M!HookTimesOut, SP!M!HookTimesOut,
         S!M!Return, SP!M!Return, S!M!Settle, SP!M!Settle,
         S!M!HookPanics, SP!M!HookPanics

(* and the monitor that runs them.                                         *)
LEMMA SameMonitor == S!MonitorNext => SP!MonitorNext
  BY SameHooks
     DEF S!MonitorNext, SP!MonitorNext, S!MonitorCancelled,
         SP!MonitorCancelled, S!MonitorServerExit, SP!MonitorServerExit,
         S!AwaitDone, SP!AwaitDone, S!AwaitTimesOut, SP!AwaitTimesOut,
         S!DrainDone, SP!DrainDone, S!DrainTimesOut, SP!DrainTimesOut,
         S!Drain, SP!Drain, S!ShutDownManagers, SP!ShutDownManagers,
         S!MonitorPanics, SP!MonitorPanics, S!SignalCompletion,
         SP!SignalCompletion, S!MonitorStep, SP!MonitorStep,
         S!svars, SP!svars, S!hooks, SP!hooks

(* Hence a step of the one is a step of the other.                         *)
LEMMA SameNext == [S!Next]_srv_vars => [SP!Next]_SP!vars
<1>1. S!Next => SP!Next
  BY SameHandle, SameClients, SameServer, SameMonitor DEF S!Next, SP!Next
<1>2. UNCHANGED srv_vars => UNCHANGED SP!vars
  BY DEF srv_vars, SP!vars, SP!svars, SP!hooks
<1> QED
  BY <1>1, <1>2

(* What ShutdownProofs assumes of the constants, as its instance names it. *)
LEMMA Assumed ==
  /\ SP!IsFiniteSet(Conns)
  /\ SP!IsFiniteSet(Calls)
  /\ Conns \cap Calls = {}
  /\ NHooks \in Nat
  BY RunAssumption DEF SP!IsFiniteSet, IsFiniteSet

(* The inductive invariant of Shutdown holds of the server inside run().   *)
LEMMA InstanceIInv ==
  /\ SP!Init => SP!IInv
  /\ SP!IInv /\ [SP!Next]_SP!vars => SP!IInv'
  /\ SP!IInv => SP!HandleIsHonest
<1>1. SP!Init => SP!IInv
  BY Assumed, SP!InitIInv
<1>2. SP!IInv /\ [SP!Next]_SP!vars => SP!IInv'
  BY Assumed, SP!NextIInv, Zenon
<1>3. SP!IInv => SP!HandleIsHonest
  BY Assumed, SP!HonestByIInv
<1> QED
  BY <1>1, <1>2, <1>3

(* run() answers Ok only if wait_for_completion did.                       *)
OkInv == SP!IInv /\ (stage = "ok" => handle = "ok")

LEMMA InitOkInv == Init => OkInv
<1>1. Init => SP!IInv
  BY SameInit, InstanceIInv DEF Init
<1> QED
  BY <1>1 DEF Init, OkInv

LEMMA NextOkInv == OkInv /\ [Next]_vars => OkInv'
<1> SUFFICES ASSUME OkInv, [Next]_vars PROVE OkInv'
  OBVIOUS
<1>1. SP!IInv'
  BY NextRunsShutdown, SameNext, InstanceIInv DEF OkInv
<1>2. ASSUME stage' = "ok" PROVE handle' = "ok"
  <2>1. CASE Return
    BY <1>2, <2>1 DEF Return, RunStep, S!WaitOk, S!HandleStep
  <2>2. CASE stage = "ok" /\ UNCHANGED srv_vars
    BY <2>2 DEF OkInv, srv_vars
  <2>3. CASE HandlersFail \/ CancelOnSignal \/ WaitForCompletion
    BY <1>2, <2>3 DEF HandlersFail, CancelOnSignal, WaitForCompletion, RunStep
  <2>4. CASE OwnerStep \/ ClientStep \/ ServerStep \/ MonitorStep
    BY <1>2, <2>4 DEF OwnerStep, ClientStep, ServerStep, MonitorStep, Task,
                      Serving, builder
  <2>5. CASE UseMemory \/ SampleStep \/ StopSampler
    <3>1. UNCHANGED srv_vars /\ stage' = stage
      BY <2>5 DEF UseMemory, SampleStep, StopSampler, Sampler, builder
    <3> QED
      BY <1>2, <2>2, <3>1
  <2>6. CASE StartNext \/ InstallHandlers \/ Signal
    BY <1>2, <2>6
       DEF StartNext, CheckBuilder, InitConfig, CreateTrackers, RegisterTools,
           Listen, BadAddress, BadCertificate, SpawnServer, Succeed, Fail, StartStep,
           InstallHandlers, Signal, RunStep
  <2>7. CASE UNCHANGED vars
    <3>1. UNCHANGED srv_vars /\ stage' = stage
      BY <2>7 DEF vars, builder
    <3> QED
      BY <1>2, <2>2, <3>1
  <2> QED
    BY <2>1, <2>3, <2>4, <2>5, <2>6, <2>7 DEF Next, RunNext
<1> QED
  BY <1>1, <1>2 DEF OkInv

(* When run() answers Ok the server has drained, or given up draining, and *)
(* no hook is left that could still need the process.                      *)
THEOREM OkIsStopped == Spec => []OkMeansStopped
<1>1. OkInv => OkMeansStopped
  <2> SUFFICES ASSUME OkInv, stage = "ok" PROVE OkMeansStopped
    BY DEF OkMeansStopped
  <2>1. SP!IInv /\ handle = "ok"
    BY DEF OkInv
  <2>2. SP!HandleIsHonest
    BY <2>1, InstanceIInv
  <2>3. /\ monitor = "done"
        /\ \A i \in 1..NHooks : shutdown_hooks[i] \in SP!M!Settled
    BY <2>1, <2>2 DEF SP!HandleIsHonest
  <2>4. drained # "no"
    BY <2>1, <2>3 DEF SP!IInv, SP!SignalFollowsMonitor
  <2>5. SP!M!Settled = S!M!Settled
    BY DEF S!M!Settled, SP!M!Settled, S!M!Failed, SP!M!Failed
  <2> QED
    BY <2>3, <2>4, <2>5 DEF OkMeansStopped
<1> QED
  BY <1>1, InitOkInv, NextOkInv, PTL DEF Spec

-----------------------------------------------------------------------------
(* Types.  The server has those of Shutdown, whose theorem carries over.   *)
LEMMA ServerTyped == SP!IInv => S!TypeOK
<1>1. SP!IInv => SP!TypeOK
  BY DEF SP!IInv
<1>2. SP!M!TypeOK => S!M!TypeOK
  BY DEF SP!M!TypeOK, S!M!TypeOK, SP!M!HookState, S!M!HookState,
         SP!M!Phase, S!M!Phase, SP!M!Settled, S!M!Settled, SP!M!Failed,
         S!M!Failed
<1>3. SP!TypeOK => S!TypeOK
  BY <1>2 DEF SP!TypeOK, S!TypeOK
<1> QED
  BY <1>1, <1>3

(* Where run() or serve() is, and what the memory monitor remembers.       *)
BuilderTyped ==
  /\ mode \in {"run", "serve"}
  /\ stage \in Starting \cup Serving \cup {"failed", "killed", "ok", "error"}
  /\ failure \in {"none", "builder", "config", "tools", "listener", "address",
                  "certificate", "handlers"}
  /\ trackers \in {"none", "running"}
  /\ signal \in BOOLEAN

RunTyped == BuilderTyped /\ Mem!TypeOK

LEMMA InitRunTyped == Init => RunTyped
  BY DEF Init, RunTyped, BuilderTyped, Starting, Mem!Init, Mem!TypeOK

(* The memory monitor only remembers what it has read.                     *)
LEMMA MemoryTyped ==
  /\ Mem!TypeOK /\ (Mem!Spawn \/ Mem!Use \/ Mem!Sample \/ Mem!Stop)
       => Mem!TypeOK'
  /\ Mem!TypeOK /\ UNCHANGED mem_vars => Mem!TypeOK'
<1>1. Mem!TypeOK /\ Mem!Sample => Mem!TypeOK'
  BY DEF Mem!TypeOK, Mem!Sample, Mem!FirstSample, Mem!Report, Mem!NoReport,
         Mem!Reading
<1>2. Mem!TypeOK /\ (Mem!Spawn \/ Mem!Use \/ Mem!Stop) => Mem!TypeOK'
  BY DEF Mem!TypeOK, Mem!Spawn, Mem!Use, Mem!Stop
<1>3. Mem!TypeOK /\ UNCHANGED mem_vars => Mem!TypeOK'
  BY DEF Mem!TypeOK, mem_vars
<1> QED
  BY <1>1, <1>2, <1>3

(* The start, which may spawn the memory monitor,                          *)
LEMMA StartTyped == RunTyped /\ StartNext => RunTyped'
<1> SUFFICES ASSUME RunTyped, StartNext PROVE RunTyped'
  OBVIOUS
<1>1. Mem!Spawn \/ UNCHANGED mem_vars
  BY DEF StartNext, CheckBuilder, InitConfig, CreateTrackers, RegisterTools,
         Listen, BadAddress, BadCertificate, SpawnServer, Succeed, Fail
<1>2. Mem!TypeOK'
  BY <1>1, MemoryTyped DEF RunTyped
<1>3. BuilderTyped'
  BY DEF RunTyped, BuilderTyped, StartNext, CheckBuilder, InitConfig,
         CreateTrackers, RegisterTools, Listen,
         BadAddress, BadCertificate, SpawnServer, Succeed, Fail, StartStep,
         Starting, Serving
<1> QED
  BY <1>2, <1>3 DEF RunTyped

(* the rest of run(), which leaves it alone,                               *)
LEMMA EndTyped == RunTyped /\ (RunNext \/ Signal) => RunTyped'
<1> SUFFICES ASSUME RunTyped, RunNext \/ Signal PROVE RunTyped'
  OBVIOUS
<1>1. UNCHANGED mem_vars
  BY DEF RunNext, Signal, InstallHandlers, HandlersFail, CancelOnSignal,
         WaitForCompletion, Return, RunStep
<1>2. Mem!TypeOK'
  BY <1>1, MemoryTyped DEF RunTyped
<1>3. BuilderTyped'
  BY DEF RunTyped, BuilderTyped, RunNext, Signal, InstallHandlers,
         HandlersFail, CancelOnSignal, WaitForCompletion, Return, RunStep,
         Serving
<1> QED
  BY <1>2, <1>3 DEF RunTyped

(* the tasks and the owner of a handle, and the memory monitor itself.     *)
LEMMA TasksTyped ==
  /\ RunTyped /\ (OwnerStep \/ ClientStep \/ ServerStep \/ MonitorStep)
       => RunTyped'
  /\ RunTyped /\ (UseMemory \/ SampleStep \/ StopSampler) => RunTyped'
  /\ RunTyped /\ UNCHANGED vars => RunTyped'
<1>1. RunTyped /\ UNCHANGED builder => BuilderTyped'
  BY DEF RunTyped, BuilderTyped, builder
<1>2. OwnerStep \/ ClientStep \/ ServerStep \/ MonitorStep
        => UNCHANGED builder /\ UNCHANGED mem_vars
  BY DEF OwnerStep, ClientStep, ServerStep, MonitorStep, Task
<1>3. UseMemory \/ SampleStep \/ StopSampler
        => UNCHANGED builder /\ (Mem!Use \/ Mem!Sample \/ Mem!Stop)
  BY DEF UseMemory, SampleStep, StopSampler, Sampler
<1>4. UNCHANGED vars => UNCHANGED builder /\ UNCHANGED mem_vars
  BY DEF vars
<1> QED
  BY <1>1, <1>2, <1>3, <1>4, MemoryTyped DEF RunTyped

LEMMA NextRunTyped == RunTyped /\ [Next]_vars => RunTyped'
  BY StartTyped, EndTyped, TasksTyped DEF Next

(* Every stage, every state of the server and of its hooks, and every      *)
(* sample of the memory is one of those the code knows.                    *)
THEOREM TypeCorrect == Spec => []TypeOK
<1>1. OkInv /\ RunTyped => TypeOK
  <2>1. OkInv => S!TypeOK
    BY ServerTyped DEF OkInv
  <2> QED
    BY <2>1 DEF TypeOK, RunTyped, BuilderTyped
<1> QED
  BY <1>1, InitOkInv, NextOkInv, InitRunTyped, NextRunTyped, PTL DEF Spec

-----------------------------------------------------------------------------
(* What the owner of a handle is promised holds of the server inside       *)
(* run() and serve() as well.                                              *)
LEMMA InstanceLifecycle ==
  /\ SP!Init => SP!L!Init
  /\ SP!IInv /\ [SP!Next]_SP!vars
       => [SP!L!Next]_<<SP!life, SP!Cardinality(SP!Unsettled), SP!answer>>
<1>1. SP!Init => SP!L!Init
  BY Assumed, SP!InitLifecycle
<1>2. SP!IInv /\ [SP!Next]_SP!vars
        => [SP!L!Next]_<<SP!life, SP!Cardinality(SP!Unsettled), SP!answer>>
  BY Assumed, SP!NextLifecycle, Zenon
<1> QED
  BY <1>1, <1>2

(* A signal, a handler that cannot be installed and the end of run() reach *)
(* the server only as the promises of Lifecycle allow: it goes down once,  *)
(* its hooks one after another, and is not answered for with a better      *)
(* answer than what happened.                                              *)
THEOREM ImplementsLifecycle ==
  Spec => /\ SP!L!Init
          /\ [][SP!L!Next]_<<SP!life, SP!Cardinality(SP!Unsettled), SP!answer>>
<1>1. Init => SP!L!Init
  BY SameInit, InstanceLifecycle DEF Init
<1>2. OkInv /\ [Next]_vars
        => [SP!L!Next]_<<SP!life, SP!Cardinality(SP!Unsettled), SP!answer>>
  BY NextRunsShutdown, SameNext, InstanceLifecycle DEF OkInv
<1> QED
  BY <1>1, <1>2, InitOkInv, NextOkInv, PTL DEF Spec

-----------------------------------------------------------------------------
(* The baseline moves only when a growth is reported.                      *)
BaselineInv == Mem!TypeOK /\ last_snapshot = reported

LEMMA NextBaseline == BaselineInv /\ RunTyped /\ [Next]_vars => BaselineInv'
<1> SUFFICES ASSUME BaselineInv, RunTyped, [Next]_vars PROVE BaselineInv'
  OBVIOUS
<1>1. Mem!TypeOK'
  BY NextRunTyped DEF RunTyped
<1>2. CASE UNCHANGED <<last_snapshot, reported>>
  BY <1>1, <1>2 DEF BaselineInv
<1>3. CASE SampleStep \/ StopSampler
  <2>1. last_snapshot' = reported'
    BY <1>3 DEF SampleStep, StopSampler, Sampler, Mem!Sample, Mem!FirstSample,
                Mem!Report, Mem!NoReport, Mem!Reading, Mem!Stop, BaselineInv
  <2> QED
    BY <1>1, <2>1 DEF BaselineInv
<1>4. CASE StartNext
  BY <1>2, <1>4
     DEF StartNext, CheckBuilder, InitConfig, CreateTrackers, RegisterTools,
         Listen, BadAddress, BadCertificate, SpawnServer, Succeed, Fail, Mem!Spawn, mem_vars
<1>5. CASE RunNext \/ Signal
  BY <1>2, <1>5
     DEF RunNext, Signal, InstallHandlers, HandlersFail, CancelOnSignal,
         WaitForCompletion, Return, RunStep, mem_vars
<1>6. CASE OwnerStep \/ ClientStep \/ ServerStep \/ MonitorStep
  BY <1>2, <1>6
     DEF OwnerStep, ClientStep, ServerStep, MonitorStep, Task, mem_vars
<1>7. CASE UseMemory \/ UNCHANGED vars
  BY <1>2, <1>7 DEF UseMemory, Sampler, Mem!Use, vars, mem_vars
<1> QED
  BY <1>3, <1>4, <1>5, <1>6, <1>7 DEF Next

(* A sample that is taken while the process has grown by the threshold     *)
(* since the last report reports it, however many smaller steps the growth *)
(* took: what is left to LeakIsReported is that the sample is taken.       *)
SampleReports == [][SampleStep /\ Mem!Leaking => ~Mem!Leaking']_vars

THEOREM SampledLeakIsReported == Spec => SampleReports
<1>1. Init => BaselineInv
  BY DEF Init, BaselineInv, Mem!Init, Mem!TypeOK
<1>2. ASSUME BaselineInv, SampleStep, Mem!Leaking
      PROVE  ~Mem!Leaking'
  <2>1. Mem!Report
    <3>1. /\ memory # None /\ reported # None
          /\ memory - reported >= Threshold
          /\ last_snapshot = reported
      BY <1>2 DEF Mem!Leaking, BaselineInv
    <3>2. Mem!Grown
      BY <3>1 DEF Mem!Grown
    <3> QED
      BY <1>2, <3>1, <3>2
         DEF SampleStep, Sampler, Mem!Sample, Mem!FirstSample, Mem!NoReport,
             Mem!Reading
  <2>2. reported' = memory /\ memory' = memory /\ memory # None
    BY <2>1 DEF Mem!Report, Mem!Reading
  <2>3. memory \in Nat
    BY <1>2, <2>2, RunAssumption DEF BaselineInv, Mem!TypeOK
  <2>4. memory' - reported' = 0
    BY <2>2, <2>3
  <2> QED
    BY <2>4, RunAssumption DEF Mem!Leaking
<1>3. BaselineInv /\ RunTyped /\ [Next]_vars
        => [SampleStep /\ Mem!Leaking => ~Mem!Leaking']_vars
  BY <1>2
<1> QED
  BY <1>1, <1>3, InitRunTyped, NextRunTyped, NextBaseline, PTL
     DEF Spec, SampleReports
=============================================================================
