\* Every interleaving of registrations with one shutdown() of up to four hooks.
SPECIFICATION Spec
CONSTANT MaxHooks = 4
INVARIANTS TypeOK IInv LifoOrder SnapshotShutDown ResultIsHonest
PROPERTIES EachHookOnce ShutdownEnds
\* After shutdown() has returned there is nothing left to do.
CHECK_DEADLOCK FALSE
