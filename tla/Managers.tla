------------------------------ MODULE Managers ------------------------------
(***************************************************************************)
(* The container of components that need an explicit shutdown              *)
(* (src/src/managers.rs).  Category servers register hooks; the monitor    *)
(* task of the HTTP server calls shutdown() once.                          *)
(*                                                                         *)
(* The Vec of hooks is modelled by the Seq of their states: a hook has no  *)
(* identity beyond its registration index.  Indices run from 1 here and    *)
(* from 0 in the code.  register() may interleave with shutdown(), which   *)
(* takes the lock for each access and never holds it across an await.      *)
(* What a hook's own future does is not in the repository: it may return   *)
(* Ok or Err, panic, or never return (only the timeout then ends it).      *)
(***************************************************************************)
EXTENDS Naturals, Sequences

CONSTANT MaxHooks   \* bound on the number of registrations

ASSUME MaxHooksAssumption == MaxHooks \in Nat

VARIABLES
  shutdown_hooks,   \* state of each hook, in registration order
  phase,            \* progress of the single shutdown() call
  count,            \* hooks.len(), as shutdown() read it
  next              \* the loop index i: next hook to visit, or being awaited

mvars == <<shutdown_hooks, phase, count, next>>

Settled   == {"ok", "err", "timeout", "panic"}

\* The arms of the match that push onto the errors vector.
Failed_TimeoutNotAnError == {"err"}
Failed    == {"err", "timeout"}
HookState == {"up", "stopping"} \cup Settled
Phase     == {"idle", "loop", "awaiting", "returned", "unwound"}

-----------------------------------------------------------------------------
Init ==
  /\ shutdown_hooks = << >>
  /\ phase = "idle"
  /\ count = 0
  /\ next = 0

(* register(): lock, push.                                                 *)
Register ==
  /\ Len(shutdown_hooks) < MaxHooks
  /\ shutdown_hooks' = Append(shutdown_hooks, "up")
  /\ UNCHANGED <<phase, count, next>>

BeginShutdown_OnePast ==
  /\ phase = "idle"
  /\ count' = Len(shutdown_hooks)
  /\ next' = Len(shutdown_hooks) + 1
  /\ phase' = "loop"
  /\ UNCHANGED shutdown_hooks

(* The first critical section of shutdown(): read the length, unlock.      *)
BeginShutdown ==
  /\ phase = "idle"
  /\ count' = Len(shutdown_hooks)
  /\ next' = Len(shutdown_hooks)
  /\ phase' = "loop"
  /\ UNCHANGED shutdown_hooks

StartHook_NotAwaited ==
  /\ phase = "loop"
  /\ next > 0
  /\ shutdown_hooks' = [shutdown_hooks EXCEPT ![next] = "stopping"]
  /\ next' = next - 1
  /\ UNCHANGED <<phase, count>>

(* One turn of the loop up to the await: lock, get(i), clone, unlock, and  *)
(* start the hook's future.  A missing index is skipped.                   *)
StartHook ==
  /\ phase = "loop"
  /\ next > 0
  /\ IF next \in DOMAIN shutdown_hooks
       THEN /\ shutdown_hooks' = [shutdown_hooks EXCEPT ![next] = "stopping"]
            /\ phase' = "awaiting"
            /\ UNCHANGED next
       ELSE /\ next' = next - 1
            /\ UNCHANGED <<shutdown_hooks, phase>>
  /\ UNCHANGED count

Settle_VisitsAgain(r) ==
  /\ phase = "awaiting"
  /\ shutdown_hooks' = [shutdown_hooks EXCEPT ![next] = r]
  /\ next' = IF r = "err" THEN next ELSE next - 1
  /\ phase' = "loop"
  /\ UNCHANGED count

(* The await ends with result r: log it, note an error, go on to the next. *)
Settle(r) ==
  /\ phase = "awaiting"
  /\ shutdown_hooks' = [shutdown_hooks EXCEPT ![next] = r]
  /\ next' = next - 1
  /\ phase' = "loop"
  /\ UNCHANGED count

HookOk == Settle("ok")

HookErr_StopsTheLoop ==
  /\ phase = "awaiting"
  /\ shutdown_hooks' = [shutdown_hooks EXCEPT ![next] = "err"]
  /\ phase' = "returned"
  /\ UNCHANGED <<count, next>>

HookErr == Settle("err")

HookTimesOut_NoTimer == FALSE /\ Settle("timeout")

HookTimesOut == Settle("timeout")

(* A panic inside the hook's future unwinds the task that called           *)
(* shutdown(): the remaining hooks are not visited.                        *)
HookPanics ==
  /\ phase = "awaiting"
  /\ shutdown_hooks' = [shutdown_hooks EXCEPT ![next] = "panic"]
  /\ phase' = "unwound"
  /\ UNCHANGED <<count, next>>

Return ==
  /\ phase = "loop"
  /\ next = 0
  /\ phase' = "returned"
  /\ UNCHANGED <<shutdown_hooks, count, next>>

(* The hooks in the errors vector, and the value shutdown() returns.       *)
Errors == {i \in DOMAIN shutdown_hooks : shutdown_hooks[i] \in Failed}
Result == IF Errors = {} THEN "Ok" ELSE "Err"

ShutdownStep ==
  \/ StartHook
  \/ HookOk
  \/ HookErr
  \/ HookTimesOut
  \/ HookPanics
  \/ Return

Next ==
  \/ Register
  \/ BeginShutdown
  \/ ShutdownStep

(* The task that called shutdown() is scheduled, and its timer fires.      *)
(* Nothing makes a hook return, so HookOk and HookErr get no fairness.     *)
ShutdownFairness ==
  /\ WF_mvars(StartHook)
  /\ WF_mvars(HookTimesOut)
  /\ WF_mvars(Return)

Spec == Init /\ [][Next]_mvars /\ ShutdownFairness
-----------------------------------------------------------------------------
TypeOK ==
  /\ shutdown_hooks \in Seq(HookState)
  /\ Len(shutdown_hooks) <= MaxHooks
  /\ phase \in Phase
  /\ count \in 0..MaxHooks
  /\ next \in 0..MaxHooks

(* What holds at every step of shutdown(), and carries the properties      *)
(* below: the loop index splits the snapshot into hooks not yet started    *)
(* and hooks already settled, and hooks registered later are left alone.   *)
SnapshotInBounds ==
  /\ next <= count
  /\ count <= Len(shutdown_hooks)
  /\ phase = "idle" => count = 0
  /\ phase = "returned" => next = 0
  /\ phase \in {"awaiting", "unwound"} => next > 0

AboveSettled ==
  \A i \in DOMAIN shutdown_hooks :
    next < i /\ i <= count
      => shutdown_hooks[i] \in {"ok"} \cup Failed

BelowUp ==
  \A i \in DOMAIN shutdown_hooks :
    i < next \/ count < i => shutdown_hooks[i] = "up"

AtNext ==
  next > 0 =>
    /\ phase = "awaiting" => shutdown_hooks[next] = "stopping"
    /\ phase = "unwound" => shutdown_hooks[next] = "panic"
    /\ phase \in {"idle", "loop", "returned"} => shutdown_hooks[next] = "up"

IInv ==
  /\ TypeOK
  /\ SnapshotInBounds
  /\ AboveSettled
  /\ BelowUp
  /\ AtNext

(* Hooks stop one at a time, the last registered first: when a hook has    *)
(* been started, every hook of the snapshot registered after it has        *)
(* finished, failed or been given up.  (The loop of shutdown(), whatever   *)
(* register() does in between.)                                            *)
LifoOrder ==
  \A i, j \in DOMAIN shutdown_hooks :
    i < j /\ j <= count /\ shutdown_hooks[i] # "up"
      => shutdown_hooks[j] \in Settled

(* When shutdown() returns, no hook that was registered when it started    *)
(* has been left out, although errors and timeouts occurred on the way     *)
(* and the index is looked up again after each release of the lock.        *)
SnapshotShutDown ==
  phase = "returned" =>
    \A i \in 1..count :
      i \in DOMAIN shutdown_hooks /\ shutdown_hooks[i] \in Settled

(* shutdown() answers Ok exactly when every hook of the snapshot itself    *)
(* reported Ok: a timeout counts as a failure.                             *)
ResultIsHonest ==
  phase = "returned" =>
    (Result = "Ok" <=> \A i \in 1..count : shutdown_hooks[i] = "ok")

(* No hook is shut down twice: once settled, its outcome stands.           *)
EachHookOnce ==
  [][\A i \in DOMAIN shutdown_hooks :
       shutdown_hooks[i] \in Settled
         => shutdown_hooks'[i] = shutdown_hooks[i]]_mvars

(* A started shutdown() ends, even when hooks hang for ever.               *)
ShutdownEnds == phase = "loop" ~> phase \in {"returned", "unwound"}
=============================================================================
