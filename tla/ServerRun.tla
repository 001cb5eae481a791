------------------------------ MODULE ServerRun -----------------------------
(***************************************************************************)
(* ServerBuilder::run and ServerBuilder::serve (src/src/lib.rs): the steps *)
(* that start a server, what is running when one of them fails, and, in    *)
(* run(), the signal that ends it.  The server is the module Shutdown, and *)
(* the memory monitor that serve_with_listener spawns MemoryMonitor.       *)
(*                                                                         *)
(* Of the trackers, which both functions create early and which have       *)
(* modules of their own, only this is kept here: new() spawns their tasks  *)
(* (the processor and the timer of the one, the processor of the other),   *)
(* and nothing in this code ever stops them.  The handle of serve() is     *)
(* left to the program that embeds the server.                             *)
(*                                                                         *)
(* External: the configuration, the registration of the tools, the         *)
(* operating system (addresses, certificates, signals; a signal that comes *)
(* before its handler is installed kills the process), and the main        *)
(* function, which returns as soon as run() does and takes the runtime     *)
(* and all its tasks with it.                                              *)
(***************************************************************************)
EXTENDS Integers, Sequences, FiniteSets

CONSTANTS
  Conns, Calls, NHooks,        \* those of Shutdown
  Levels, Threshold, None      \* those of MemoryMonitor

ASSUME RunAssumption ==
  /\ Levels \subseteq Nat
  /\ Threshold \in Nat \ {0}
  /\ None \notin Nat
  /\ IsFiniteSet(Conns)
  /\ IsFiniteSet(Calls)
  /\ Conns \cap Calls = {}
  /\ NHooks \in Nat

VARIABLES
  mode,      \* "run" or "serve"
  stage,     \* how far it has come, or how it has ended
  failure,   \* the step that failed
  trackers,  \* the three tasks of the trackers
  signal,    \* SIGTERM or SIGINT has been delivered to its handler
  sampler, memory, last_snapshot, reported,
             \* those of MemoryMonitor, then those of Shutdown
  tls, cancelled, accepting, server, conn, call, active_requests, monitor,
  early_exit, drained, completion, handle, shutdown_hooks, phase, count, next

S   == INSTANCE Shutdown
Mem == INSTANCE MemoryMonitor

builder  == <<mode, stage, failure, trackers, signal>>
mem_vars == <<sampler, memory, last_snapshot, reported>>
srv_vars == <<tls, cancelled, accepting, server, conn, call, active_requests,
              monitor, early_exit, drained, completion, handle,
              shutdown_hooks, phase, count, next>>
vars     == <<builder, mem_vars, srv_vars>>

Starting == {"start", "built", "tracking", "registered", "listening"}
Serving  == {"serving", "waiting", "cancelled", "completing"}

(* run() has returned and the process is gone, or it was killed.           *)
Exited == stage = "killed" \/ (mode = "run" /\ stage \in {"failed", "ok", "error"})

-----------------------------------------------------------------------------
Init ==
  /\ mode \in {"run", "serve"}
  /\ stage = "start"
  /\ failure = "none"
  /\ trackers = "none"
  /\ signal = FALSE
  /\ Mem!Init
  /\ S!Init

(* A step of run() or serve() that touches neither trackers nor server.    *)
StartStep(from, to) ==
  /\ stage = from
  /\ stage' = to
  /\ UNCHANGED <<mode, trackers, signal, srv_vars>>

Succeed(from, to) ==
  /\ StartStep(from, to)
  /\ UNCHANGED <<failure, mem_vars>>

Fail(from, step) ==
  /\ StartStep(from, "failed")
  /\ failure' = step
  /\ UNCHANGED mem_vars

(* The fields the builder must have, and for run() the command line, whose *)
(* errors end the process.                                                 *)
CheckBuilder == Succeed("start", "built") \/ Fail("start", "builder")

(* UsageTracker::new and ToolHistory::new.                                 *)
CreateTrackers ==
  /\ stage = "built"
  /\ stage' = "tracking"
  /\ trackers' = "running"
  /\ UNCHANGED <<mode, failure, signal, mem_vars, srv_vars>>

(* config_manager.init(), and once that is done the trackers.              *)
InitConfig == CreateTrackers \/ Fail("built", "config")

(* register_tools_fn(): the routers, and the hooks in their Managers.      *)
RegisterTools == Succeed("tracking", "registered") \/ Fail("tracking", "tools")

(* The listener: given by the caller, or bound to the address of --http.   *)
Listen == Succeed("registered", "listening") \/ Fail("registered", "listener")

-----------------------------------------------------------------------------
(* serve_with_listener awaits nothing, so it is one step: the address of   *)
(* the listener, the memory monitor, the certificate, the tasks.  What the *)
(* tasks do from there on is Shutdown.                                     *)
BadAddress_AfterSpawn ==
  /\ StartStep("listening", "failed")
  /\ failure' = "address"
  /\ Mem!Spawn

BadAddress == Fail("listening", "address")

(* The token of the memory monitor is dropped without being cancelled.     *)
BadCertificate ==
  /\ tls
  /\ StartStep("listening", "failed")
  /\ failure' = "certificate"
  /\ Mem!Spawn

SpawnServer ==
  /\ StartStep("listening", "serving")
  /\ Mem!Spawn
  /\ UNCHANGED failure

-----------------------------------------------------------------------------
(* run() goes on with wait_for_shutdown_signal().                          *)
RunStep(from, to) ==
  /\ mode = "run"
  /\ stage = from
  /\ stage' = to
  /\ UNCHANGED <<mode, failure, trackers, mem_vars>>

InstallHandlers ==
  /\ RunStep("serving", "waiting")
  /\ UNCHANGED <<signal, srv_vars>>

(* The ? of signal() drops the handle, which cancels nothing.              *)
HandlersFail ==
  /\ mode = "run"
  /\ stage = "serving" /\ stage' = "failed"
  /\ failure' = "handlers"
  /\ S!DropHandle
  /\ UNCHANGED <<mode, trackers, signal, mem_vars>>

Signal ==
  /\ ~signal
  /\ signal' = TRUE
  /\ \/ RunStep("waiting", "waiting")
     \/ \E from \in Starting \cup {"serving"} : RunStep(from, "killed")
  /\ UNCHANGED srv_vars

CancelOnSignal ==
  /\ signal
  /\ RunStep("waiting", "cancelled")
  /\ S!Cancel
  /\ UNCHANGED signal

WaitForCompletion ==
  /\ RunStep("cancelled", "completing")
  /\ S!WaitForCompletion
  /\ UNCHANGED signal

(* match handle.wait_for_completion(timeout).await                         *)
Return_AnyAnswerIsOk ==
  /\ RunStep("completing", "ok")
  /\ S!WaitEnds
  /\ UNCHANGED signal

Return_OnlyWhenSent ==
  /\ RunStep("completing", "ok")
  /\ S!WaitOk
  /\ UNCHANGED signal

Return ==
  /\ \/ RunStep("completing", "ok") /\ S!WaitOk
     \/ RunStep("completing", "error") /\ (S!WaitLost \/ S!WaitTimesOut)
  /\ UNCHANGED signal

(* serve() has returned the handle to its caller.                          *)
OwnerStep ==
  /\ mode = "serve" /\ stage = "serving"
  /\ S!HandleNext
  /\ UNCHANGED <<builder, mem_vars>>

-----------------------------------------------------------------------------
(* The tasks of the server.                                                *)
Task(Step) ==
  /\ stage \in Serving
  /\ Step
  /\ UNCHANGED <<builder, mem_vars>>

ClientStep  == Task(S!ConnNext \/ S!CallNext)
ServerStep  == Task(S!ServerNext)
MonitorStep == Task(S!MonitorNext)

(* The memory monitor and what it looks at.                                *)
Sampler(Step) ==
  /\ ~Exited
  /\ Step
  /\ UNCHANGED <<builder, srv_vars>>

UseMemory   == Sampler(sampler = "running" /\ Mem!Use)
SampleStep  == Sampler(Mem!Sample)
StopSampler_Never == Sampler(FALSE /\ Mem!Stop)
StopSampler == Sampler(cancelled /\ Mem!Stop)

StartNext ==
  \/ CheckBuilder
  \/ InitConfig
  \/ RegisterTools
  \/ Listen
  \/ BadAddress
  \/ BadCertificate
  \/ SpawnServer

RunNext ==
  \/ InstallHandlers
  \/ HandlersFail
  \/ CancelOnSignal
  \/ WaitForCompletion
  \/ Return

Next ==
  \/ StartNext
  \/ RunNext
  \/ Signal
  \/ OwnerStep
  \/ ClientStep
  \/ ServerStep
  \/ MonitorStep
  \/ UseMemory
  \/ SampleStep
  \/ StopSampler

(* run() and the tasks are polled, and their timers fire.  The system, the *)
(* clients, the hooks and the owner of a handle owe nothing.               *)
Spec ==
  /\ Init
  /\ [][Next]_vars
  /\ WF_vars(StartNext)
  /\ WF_vars(RunNext)
  /\ WF_vars(Task(S!MonitorCancelled \/ S!MonitorServerExit))
  /\ WF_vars(Task(S!AwaitDone \/ S!AwaitTimesOut))
  /\ WF_vars(Task(S!DrainDone \/ S!DrainTimesOut))
  /\ WF_vars(Task(S!ShutDownManagers(S!M!BeginShutdown)))
  /\ WF_vars(Task(S!ShutDownManagers(S!M!StartHook)))
  /\ WF_vars(Task(S!ShutDownManagers(S!M!HookTimesOut)))
  /\ WF_vars(Task(S!ShutDownManagers(S!M!Return)))
  /\ WF_vars(Task(S!SignalCompletion))
  /\ WF_vars(SampleStep)
  /\ WF_vars(StopSampler)

-----------------------------------------------------------------------------
TypeOK ==
  /\ mode \in {"run", "serve"}
  /\ stage \in Starting \cup Serving \cup {"failed", "killed", "ok", "error"}
  /\ failure \in {"none", "builder", "config", "tools", "listener", "address",
                  "certificate", "handlers"}
  /\ trackers \in {"none", "running"}
  /\ signal \in BOOLEAN
  /\ Mem!TypeOK
  /\ S!TypeOK

(* run() returns Ok, and the process ends, only when no hook is left that  *)
(* has not stopped or been given up: what a hook holds is released before  *)
(* the tasks are taken down.                                               *)
OkMeansStopped ==
  stage = "ok" =>
    /\ drained # "no"
    /\ \A i \in 1..NHooks : shutdown_hooks[i] \in S!M!Settled

(* What a start that fails leaves in the process that embeds the server:   *)
(* the tasks of the trackers, from their creation on; the memory monitor,  *)
(* which nobody can stop, if it was the certificate; and no task of the    *)
(* server and no hook that has been called.                                *)
FailedStartLeaves ==
  stage = "failed" /\ mode = "serve" =>
    /\ S!Init
    /\ trackers = "running" <=> failure \notin {"builder", "config"}
    /\ sampler = "running" <=> failure = "certificate"

(* A signal that reaches its handler ends run(), whatever connections and  *)
(* calls do, whether its hooks hang or panic, and even if the server was   *)
(* already gone when it came.                                              *)
SignalEndsRun == stage = "waiting" /\ signal ~> stage \in {"ok", "error"}

(* Cancelling ends both tasks that watch the token, for the owner of a     *)
(* handle as for run().  (The tasks of the trackers do not watch it.)      *)
CancelStopsWatchers ==
  cancelled ~> \/ Exited
               \/ monitor \in {"done", "panicked"} /\ sampler = "stopped"

(* A process that grows by the threshold is reported, however slowly it    *)
(* grows.                                                                  *)
LeakIsReported == Mem!Leaking ~> Exited \/ ~Mem!Leaking
=============================================================================
