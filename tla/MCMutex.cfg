CONSTANT Tasks = {t1, t2, t3, t4}
SPECIFICATION FairSpec
INVARIANTS MutexIsSafe
PROPERTIES EveryWaiterServed ImplementsExclusiveAccess
