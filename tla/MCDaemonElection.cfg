CONSTANTS
    Daemons = {1, 2, 3}
    NoDaemon = NoDaemon
    Launchers = {l1, l2}
    OldLaunchers = {l2}
    MaxAttempts = 2
    MaxTries = 1
SPECIFICATION FairSpec
CHECK_DEADLOCK FALSE
INVARIANTS PidFileElectsOne AttachedKeepsDaemon
PROPERTIES SettledDaemonIsKept EveryoneMovesOn
