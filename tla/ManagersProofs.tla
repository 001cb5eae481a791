--------------------------- MODULE ManagersProofs ---------------------------
(***************************************************************************)
(* Proofs about shutdown() for any number of hooks: the order, the         *)
(* completeness and the result of the shutdown follow from IInv, which     *)
(* says how the loop index splits the registered hooks.                    *)
(***************************************************************************)
EXTENDS Managers, TLAPS

(* IInv holds before anything is registered.                               *)
LEMMA InitIInv == Init => IInv
  BY MaxHooksAssumption
     DEF Init, IInv, TypeOK, SnapshotInBounds, AboveSettled, BelowUp, AtNext,
         Phase

(* register() appends above the snapshot, so it disturbs nothing below.    *)
LEMMA RegisterIInv == IInv /\ Register => IInv'
<1> SUFFICES ASSUME IInv, Register PROVE IInv'
  OBVIOUS
<1> USE MaxHooksAssumption DEF IInv, Register
<1>1. TypeOK'
  BY DEF TypeOK, HookState
<1>2. SnapshotInBounds'
  BY DEF TypeOK, SnapshotInBounds
<1>3. AboveSettled'
  BY DEF TypeOK, SnapshotInBounds, AboveSettled
<1>4. BelowUp'
  BY DEF TypeOK, SnapshotInBounds, BelowUp
<1>5. AtNext'
  BY DEF TypeOK, SnapshotInBounds, AtNext
<1> QED
  BY <1>1, <1>2, <1>3, <1>4, <1>5

(* Taking the snapshot puts every registered hook below the index.         *)
LEMMA BeginIInv == IInv /\ BeginShutdown => IInv'
<1> SUFFICES ASSUME IInv, BeginShutdown PROVE IInv'
  OBVIOUS
<1> USE MaxHooksAssumption DEF IInv, BeginShutdown
<1>1. \A i \in DOMAIN shutdown_hooks : shutdown_hooks[i] = "up"
  BY DEF TypeOK, SnapshotInBounds, BelowUp
<1>2. TypeOK'
  BY DEF TypeOK, Phase
<1>3. SnapshotInBounds' /\ AboveSettled'
  BY DEF TypeOK, SnapshotInBounds, AboveSettled
<1>4. BelowUp' /\ AtNext'
  BY <1>1 DEF TypeOK, BelowUp, AtNext
<1> QED
  BY <1>2, <1>3, <1>4

(* Starting the hook at the index: get(i) always finds it.                 *)
LEMMA StartIInv == IInv /\ StartHook => IInv'
<1> SUFFICES ASSUME IInv, StartHook PROVE IInv'
  OBVIOUS
<1> USE MaxHooksAssumption DEF IInv
<1>1. next \in DOMAIN shutdown_hooks
  BY DEF StartHook, TypeOK, SnapshotInBounds
<1>2. /\ shutdown_hooks' = [shutdown_hooks EXCEPT ![next] = "stopping"]
      /\ phase = "loop" /\ phase' = "awaiting"
      /\ next' = next /\ count' = count
  BY <1>1 DEF StartHook
<1>3. TypeOK'
  BY <1>1, <1>2 DEF TypeOK, HookState, Phase
<1>4. SnapshotInBounds'
  BY <1>1, <1>2 DEF TypeOK, SnapshotInBounds
<1>5. AboveSettled' /\ BelowUp' /\ AtNext'
  BY <1>1, <1>2 DEF TypeOK, SnapshotInBounds, AboveSettled, BelowUp, AtNext
<1> QED
  BY <1>3, <1>4, <1>5

(* The await ends: the hook joins those settled, the index goes down.      *)
LEMMA SettleIInv ==
  ASSUME NEW r \in {"ok"} \cup Failed, IInv, Settle(r) PROVE IInv'
<1> USE MaxHooksAssumption DEF IInv, Settle
<1>1. next \in DOMAIN shutdown_hooks /\ next > 0
  BY DEF TypeOK, SnapshotInBounds
<1>2. TypeOK'
  BY <1>1 DEF TypeOK, HookState, Settled, Failed, Phase
<1>3. SnapshotInBounds'
  BY <1>1 DEF TypeOK, SnapshotInBounds
<1>4. AboveSettled'
  BY <1>1 DEF TypeOK, SnapshotInBounds, AboveSettled
<1>5. BelowUp' /\ AtNext'
  BY <1>1 DEF TypeOK, SnapshotInBounds, BelowUp, AtNext
<1> QED
  BY <1>2, <1>3, <1>4, <1>5

(* A panic ends the visit with the index still on the hook.                *)
LEMMA PanicIInv == IInv /\ HookPanics => IInv'
<1> SUFFICES ASSUME IInv, HookPanics PROVE IInv'
  OBVIOUS
<1> USE MaxHooksAssumption DEF IInv, HookPanics
<1>1. next \in DOMAIN shutdown_hooks /\ next > 0
  BY DEF TypeOK, SnapshotInBounds
<1>2. TypeOK'
  BY <1>1 DEF TypeOK, HookState, Settled, Phase
<1>3. SnapshotInBounds' /\ AboveSettled'
  BY <1>1 DEF TypeOK, SnapshotInBounds, AboveSettled
<1>4. BelowUp' /\ AtNext'
  BY <1>1 DEF TypeOK, SnapshotInBounds, BelowUp, AtNext
<1> QED
  BY <1>2, <1>3, <1>4

(* Returning, or taking no step, leaves the hooks as they are.             *)
LEMMA ReturnIInv == IInv /\ (Return \/ UNCHANGED mvars) => IInv'
<1> SUFFICES ASSUME IInv, Return \/ UNCHANGED mvars PROVE IInv'
  OBVIOUS
<1>1. CASE Return
  BY <1>1 DEF IInv, Return, TypeOK, SnapshotInBounds, AboveSettled, BelowUp,
              AtNext, Phase
<1>2. CASE UNCHANGED mvars
  BY <1>2 DEF IInv, mvars, TypeOK, SnapshotInBounds, AboveSettled, BelowUp,
              AtNext
<1> QED
  BY <1>1, <1>2

(* IInv is inductive.                                                      *)
LEMMA NextIInv == IInv /\ [Next]_mvars => IInv'
<1> SUFFICES ASSUME IInv, [Next]_mvars PROVE IInv'
  OBVIOUS
<1>1. CASE Register
  BY <1>1, RegisterIInv
<1>2. CASE BeginShutdown
  BY <1>2, BeginIInv
<1>3. CASE StartHook
  BY <1>3, StartIInv
<1>4. CASE HookOk \/ HookErr \/ HookTimesOut
  BY <1>4, SettleIInv DEF HookOk, HookErr, HookTimesOut, Failed
<1>5. CASE HookPanics
  BY <1>5, PanicIInv
<1>6. CASE Return \/ UNCHANGED mvars
  BY <1>6, ReturnIInv
<1> QED
  BY <1>1, <1>2, <1>3, <1>4, <1>5, <1>6 DEF Next, ShutdownStep

(* IInv is an invariant of the container under every interleaving of       *)
(* register() with shutdown().                                             *)
THEOREM Invariance == Spec => []IInv
  BY InitIInv, NextIInv, PTL DEF Spec

(* Every variable keeps its type.                                          *)
THEOREM TypeCorrect == Spec => []TypeOK
<1>1. IInv => TypeOK
  BY DEF IInv
<1> QED
  BY <1>1, Invariance, PTL

(* Hooks are shut down one at a time, last registered first.               *)
THEOREM Lifo == Spec => []LifoOrder
<1>1. IInv => LifoOrder
  BY DEF IInv, TypeOK, SnapshotInBounds, AboveSettled, BelowUp, AtNext,
         LifoOrder, Settled, Failed
<1> QED
  BY <1>1, Invariance, PTL

(* shutdown() returns only after every hook of its snapshot has settled.   *)
THEOREM Complete == Spec => []SnapshotShutDown
<1>1. IInv => SnapshotShutDown
  BY DEF IInv, TypeOK, SnapshotInBounds, AboveSettled, SnapshotShutDown,
         Settled, Failed
<1> QED
  BY <1>1, Invariance, PTL

(* shutdown() answers Ok exactly when every hook reported Ok.              *)
THEOREM Honest == Spec => []ResultIsHonest
<1>1. ASSUME IInv PROVE ResultIsHonest
  <2> SUFFICES ASSUME phase = "returned"
               PROVE  Result = "Ok" <=> \A i \in 1..count : shutdown_hooks[i] = "ok"
    BY DEF ResultIsHonest
  <2>1. \A i \in 1..count :
          i \in DOMAIN shutdown_hooks /\ shutdown_hooks[i] \in {"ok"} \cup Failed
    BY <1>1 DEF IInv, TypeOK, SnapshotInBounds, AboveSettled
  <2>2. \A i \in DOMAIN shutdown_hooks : i > count => shutdown_hooks[i] = "up"
    BY <1>1 DEF IInv, BelowUp
  <2>3. Errors = {} <=> \A i \in 1..count : shutdown_hooks[i] \notin Failed
    BY <1>1, <2>1, <2>2 DEF Errors, Failed, IInv, TypeOK
  <2> QED
    BY <2>1, <2>3 DEF Result, Failed
<1> QED
  BY <1>1, Invariance, PTL

(* No hook is started again once it has settled.                           *)
THEOREM Once == Spec => EachHookOnce
<1>1. ASSUME IInv, [Next]_mvars
      PROVE  [\A i \in DOMAIN shutdown_hooks :
                shutdown_hooks[i] \in Settled
                  => shutdown_hooks'[i] = shutdown_hooks[i]]_mvars
  <2> USE <1>1 DEF IInv, TypeOK
  <2>1. CASE Register
    BY <2>1 DEF Register
  <2>2. CASE StartHook
    BY <2>2 DEF StartHook, AtNext, Settled
  <2>3. CASE HookPanics \/ \E r \in Settled : Settle(r)
    BY <2>3 DEF HookPanics, Settle, SnapshotInBounds, AtNext, Settled
  <2>4. CASE BeginShutdown \/ Return \/ UNCHANGED mvars
    BY <2>4 DEF BeginShutdown, Return, mvars
  <2> QED
    BY <2>1, <2>2, <2>3, <2>4
       DEF Next, ShutdownStep, HookOk, HookErr, HookTimesOut, Settled
<1> QED
  BY <1>1, Invariance, PTL DEF Spec, EachHookOnce
=============================================================================
