------------------------------ MODULE Project ------------------------------
(***************************************************************************)
(* One project and the processes that open it: a server, whose CodeGraph   *)
(* instance (src/src/index.ts) is called concurrently, and commands of     *)
(* src/src/bin/codegraph.ts.  Together: the .codegraph directory           *)
(* (directory.ts), the database and its migrations (db/), the mutex of the *)
(* server's instance, which is the one of Mutex, and the lock file, which  *)
(* is the one of FileLock: each of its system calls is a step, and an      *)
(* instance has one handle.                                                *)
(*                                                                         *)
(* What a job writes is reduced to the files whose rows it has stored; the *)
(* transactions behind that are the subject of ExtractionStore.            *)
(***************************************************************************)
EXTENDS Mutex, FiniteSets

CONSTANTS
    Commands,       \* runs of the command line, a process each
    Server,         \* the process that serves MCP; Tasks are its calls
    None,
    Files,          \* the source files of the project
    Beginnings,     \* what a run may begin with: the schema version of the
                    \* database, or 0 when there is none, what the commands
                    \* are, and what each call is
    CannotSignal,   \* FileLock.CannotSignal
    MaxCrashes      \* bound on the processes that are killed

ASSUME ProjectAssumption ==
    /\ Tasks \cap Commands = {} /\ Server \notin Tasks \cup Commands
    /\ None \notin Commands \cup {Server}
    /\ MaxCrashes \in Nat
    /\ Beginnings \subseteq
          [release : 0 .. 4,
           typed   : [Commands -> {"init", "index", "force", "sync", "status", "uninit"}],
           called  : [Tasks -> {"indexAll", "indexFiles", "sync", "nothing"}]]
    /\ CannotSignal \subseteq (Commands \cup {Server}) \X (Commands \cup {Server})

Processes == Commands \cup {Server}
Jobs == Tasks \cup Commands

VARIABLES
    db,         \* the database at the path: [id, version, layout, rows], or NoDb
    created,    \* databases created so far
    torn,       \* a process died inside DatabaseConnection.initialize
    lock,       \* codegraph.lock: FileLock.file
    call,       \* where the handle of each process stands: FileLock.pc
    looked,     \* what its call of acquire has read: FileLock.seen
    overtaken,  \* processes that lost their lock file as Overtakes tells (auxiliary)
    cmd,        \* what each process was started for
    at,         \* where it stands
    seen,       \* the schema version its open has come to
    on,         \* the id of the database it has open, or 0
    stage,      \* where each job stands
    kind,       \* indexAll, indexFiles or sync
    todo,       \* the files the job has still to store
    crashes

mutex   == <<locked, waitQueue, pc>>
locking == <<lock, call, looked, overtaken>>
process == <<cmd, at, seen, on>>
job     == <<stage, kind, todo>>
allVars == <<mutex, db, created, torn, locking, process, job, crashes>>

CURRENT_SCHEMA_VERSION == 4

NoDb == [id |-> 0, version |-> 0, layout |-> 0, rows |-> {}]

Alive == {p \in Processes : at[p] # "dead"}

Lock == INSTANCE FileLock WITH
            Handles <- Processes, ProcOf <- [p \in Processes |-> p],
            NoHandle <- None, NoPid <- None, Disturbances <- {"crash", "age"},
            file <- lock, alive <- Alive, pc <- call, seen <- looked

\* The calls inside DatabaseConnection.initialize, in their order.
Initializing == {"versions", "tables", "record"}
Ended == {"done", "failed", "dead"}

TypeInvariant ==
    /\ TypeOK
    /\ db.id \in 0 .. created /\ db.rows \subseteq Files
    /\ {db.version, db.layout} \subseteq 0 .. CURRENT_SCHEMA_VERSION
    /\ torn \in BOOLEAN /\ crashes \in 0 .. MaxCrashes
    /\ Lock!TypeOK /\ overtaken \subseteq Processes
    /\ at \in [Processes -> Initializing \cup Ended
                            \cup {"start", "create", "open", "migrate", "ready", "closing"}]
    /\ stage \in [Jobs -> {"idle", "locking", "writing", "ok", "refused", "error"}]
    /\ todo \in [Jobs -> SUBSET Files]

(* A project that was never initialized, or one of any earlier release.    *)
BeginAs(b) ==
    /\ Init
    /\ db = IF b.release = 0 THEN NoDb
            ELSE [id |-> 1, version |-> b.release, layout |-> b.release, rows |-> {}]
    /\ created = db.id
    /\ torn = FALSE
    /\ lock = Lock!NoFile
    /\ call = [p \in Processes |-> "outside"]
    /\ looked = [p \in Processes |-> Lock!Unread]
    /\ overtaken = {}
    /\ cmd = [p \in Processes |-> IF p = Server THEN "serve" ELSE b.typed[p]]
    /\ at = [p \in Processes |-> IF cmd[p] = "init" THEN "start" ELSE "open"]
    /\ seen = [p \in Processes |-> 0]
    /\ on = [p \in Processes |-> 0]
    /\ stage = [j \in Jobs |-> "idle"]
    /\ kind = [j \in Jobs |-> IF j \in Tasks THEN b.called[j]
                              ELSE IF cmd[j] = "sync" THEN "sync" ELSE "indexAll"]
    /\ todo = [j \in Jobs |-> {}]
    /\ crashes = 0

ProjectInit == \E b \in Beginnings : BeginAs(b)

ProcOf(j) == IF j \in Tasks THEN Server ELSE j

\* acquire and release are synchronous: nothing else runs in a process meanwhile.
Free(p) == call[p] \in Lock!AtRest /\ at[p] \notin {"dead", "closing"}

\* The process works on the database at the path, not on one that was removed.
OnPath(p) == on[p] # 0 /\ on[p] = db.id
-----------------------------------------------------------------------------
(* `init` goes on where no database is.                                    *)
Start(p) ==
    /\ at[p] = "start"
    /\ at' = [at EXCEPT ![p] = IF db = NoDb THEN "create" ELSE "failed"]
    /\ UNCHANGED <<mutex, db, created, torn, locking, cmd, seen, on, job, crashes>>

(* createDirectory and createDatabase: opening the file creates it, or     *)
(* finds the one another process has just created.                         *)
CreateDatabase(p) ==
    /\ at[p] = "create"
    /\ at' = [at EXCEPT ![p] = "versions"]
    /\ IF db = NoDb
       THEN /\ created' = created + 1
            /\ db' = [NoDb EXCEPT !.id = created + 1]
       ELSE UNCHANGED <<created, db>>
    /\ on' = [on EXCEPT ![p] = db'.id]
    /\ UNCHANGED <<mutex, torn, locking, cmd, seen, job, crashes>>

(* schema.sql statement by statement: the row of version 1, which is an    *)
(* INSERT and fails when the row is there; the tables, in their latest     *)
(* layout; then the row of the current version.                            *)
InitializeSchema(p) ==
    /\ \/ /\ at[p] = "versions"
          /\ IF OnPath(p) /\ db.version # 0
             THEN /\ at' = [at EXCEPT ![p] = "failed"]
                  /\ on' = [on EXCEPT ![p] = 0]
                  /\ UNCHANGED db
             ELSE /\ at' = [at EXCEPT ![p] = "tables"]
                  /\ db' = IF OnPath(p) THEN [db EXCEPT !.version = 1] ELSE db
                  /\ UNCHANGED on
       \/ /\ at[p] = "tables"
          /\ at' = [at EXCEPT ![p] = "record"]
          /\ db' = IF OnPath(p) THEN [db EXCEPT !.layout = 4] ELSE db
          /\ UNCHANGED on
       \/ /\ at[p] = "record"
          /\ at' = [at EXCEPT ![p] = "ready"]
          /\ db' = IF OnPath(p) THEN [db EXCEPT !.version = 4] ELSE db
          /\ UNCHANGED on
    /\ UNCHANGED <<mutex, created, torn, locking, cmd, seen, job, crashes>>

(* isInitialized, then DatabaseConnection.open up to getCurrentVersion.    *)
Open(p) ==
    /\ at[p] = "open"
    /\ IF db = NoDb
       THEN /\ at' = [at EXCEPT ![p] = "failed"]
            /\ UNCHANGED <<seen, on>>
       ELSE /\ seen' = [seen EXCEPT ![p] = db.version]
            /\ on' = [on EXCEPT ![p] = db.id]
            /\ at' = [at EXCEPT ![p] = IF db.version < CURRENT_SCHEMA_VERSION
                                       THEN "migrate" ELSE "ready"]
    /\ UNCHANGED <<mutex, db, created, torn, locking, cmd, job, crashes>>

(* The first pending migration: those of version 2 and up are listed.      *)
Pending(p) == IF seen[p] = 0 THEN 2 ELSE seen[p] + 1

(* Migration 2 adds columns and fails where they are, or where their table *)
(* is not; 3 and 4 do what is left to do.  Recording the version fails     *)
(* when another process has recorded it.                                   *)
Applies(k) ==
    /\ IF k = 2 THEN db.layout = 1 ELSE db.layout >= 2
    /\ db.version < k

Migrated(p, changed) ==
    \/ /\ OnPath(p) /\ ~Applies(Pending(p))
       /\ at' = [at EXCEPT ![p] = "failed"]
       /\ on' = [on EXCEPT ![p] = 0]
       /\ UNCHANGED <<db, seen>>
    \/ /\ OnPath(p) => Applies(Pending(p))
       /\ db' = IF OnPath(p) THEN changed ELSE db
       /\ seen' = [seen EXCEPT ![p] = Pending(p)]
       /\ at' = [at EXCEPT ![p] = IF Pending(p) = CURRENT_SCHEMA_VERSION THEN "ready" ELSE "migrate"]
       /\ UNCHANGED on

\* Mutation: the migration is applied and its version not recorded.
MigrateUnrecorded(p) ==
    /\ at[p] = "migrate"
    /\ Migrated(p, [db EXCEPT !.layout = Pending(p)])
    /\ UNCHANGED <<mutex, created, torn, locking, cmd, job, crashes>>

\* Mutation: a version that somebody else recorded counts as done, layout or not.
MigrateTrusting(p) ==
    /\ at[p] = "migrate"
    /\ seen' = [seen EXCEPT ![p] = Pending(p)]
    /\ at' = [at EXCEPT ![p] = IF Pending(p) = CURRENT_SCHEMA_VERSION THEN "ready" ELSE "migrate"]
    /\ UNCHANGED <<mutex, db, created, torn, locking, cmd, on, job, crashes>>

(* runMigrations, one transaction.                                         *)
Migrate(p) ==
    /\ at[p] = "migrate"
    /\ Migrated(p, [db EXCEPT !.layout = IF @ < Pending(p) THEN Pending(p) ELSE @,
                              !.version = Pending(p)])
    /\ UNCHANGED <<mutex, created, torn, locking, cmd, job, crashes>>
-----------------------------------------------------------------------------
(* `index --force` clears all tables before it asks for any lock.          *)
Clear(p) ==
    /\ at[p] = "ready"
    /\ cmd[p] = "force"
    /\ cmd' = [cmd EXCEPT ![p] = "index"]
    /\ db' = IF OnPath(p) THEN [db EXCEPT !.rows = {}] ELSE db
    /\ UNCHANGED <<mutex, created, torn, locking, at, seen, on, job, crashes>>

(* A call on the server's instance takes its mutex or waits for it.        *)
Call(t) ==
    /\ at[Server] \in {"ready", "done"} /\ Free(Server)
    /\ kind[t] # "nothing"
    /\ Acquire(t)
    /\ UNCHANGED <<db, created, torn, locking, process, job, crashes>>

Wake(t) ==
    /\ Free(Server)
    /\ Resume(t)
    /\ UNCHANGED <<db, created, torn, locking, process, job, crashes>>

\* The body that withLock runs has begun, or the command has come to its job.
MayBegin(j) ==
    /\ stage[j] = "idle" /\ Free(ProcOf(j))
    /\ IF j \in Tasks THEN pc[j] = "holding"
       ELSE at[j] = "ready" /\ cmd[j] \in {"init", "index", "sync"}

\* Mutation: nobody looks at the lock.
BeginUnlocked(j) ==
    /\ MayBegin(j)
    /\ stage' = [stage EXCEPT ![j] = "writing"]
    /\ call' = [call EXCEPT ![ProcOf(j)] = "holding"]
    /\ lock' = [owner |-> ProcOf(j), pid |-> ProcOf(j), old |-> FALSE]
    /\ UNCHANGED <<mutex, db, created, torn, looked, overtaken, process, kind, todo, crashes>>

(* The job asks for the lock file: acquire's first call.                   *)
Begin(j) ==
    /\ MayBegin(j)
    /\ stage' = [stage EXCEPT ![j] = "locking"]
    /\ UNCHANGED <<mutex, db, created, torn, overtaken, process, kind, todo, crashes>>
    /\ Lock!Check(ProcOf(j))

(* p removes the lock file of q, a living process: it found it old, may    *)
(* not signal q, or has not read q's pid in it, because it looked before   *)
(* the file was there, or was written, or because it looked as somebody    *)
(* who releases his own.                                                   *)
Overtakes(p, q) ==
    /\ lock.owner = q /\ q \in Alive \ {p}
    /\ \/ call[p] # "unlink"
       \/ looked[p].old
       \/ looked[p].pid # q
       \/ <<p, q>> \in CannotSignal

\* Who loses his lock file by p's system call.
Overtake(p) ==
    overtaken' = IF lock' = Lock!NoFile
                 THEN overtaken \cup {q \in Processes : Overtakes(p, q)} ELSE overtaken

(* The rest of acquire.  The job returns at once when it is refused, or    *)
(* when the directory for the file is gone; otherwise it begins, and sync  *)
(* reads what is tracked already.                                          *)
TakeLock(j) ==
    LET p == ProcOf(j)
    IN  /\ stage[j] = "locking" /\ at[p] # "dead"
        /\ UNCHANGED <<mutex, db, created, torn, process, kind, crashes>>
        /\ \/ /\ call[p] = "create" /\ db = NoDb
              /\ call' = [call EXCEPT ![p] = "outside"]
              /\ UNCHANGED <<lock, looked, overtaken>>
           \/ /\ call[p] = "create" => db # NoDb
              /\ Lock!AcquireStep(p)
              /\ Overtake(p)
        /\ \/ /\ call'[p] \notin Lock!AtRest
              /\ UNCHANGED <<stage, todo>>
           \/ /\ call'[p] = "outside"
              /\ stage' = [stage EXCEPT ![j] = "refused"]
              /\ UNCHANGED todo
           \/ /\ call'[p] = "holding"
              /\ stage' = [stage EXCEPT ![j] = "writing"]
              /\ todo' = [todo EXCEPT ![j] = IF kind[j] = "sync" /\ OnPath(p)
                                             THEN Files \ db.rows ELSE Files]

(* release, call by call.  indexFiles returns the promise of the           *)
(* orchestrator without awaiting it, and its finally block releases the    *)
(* lock before the first file is stored.                                   *)
DropLock(p) ==
    /\ \/ call[p] \in {"releaseRead", "releaseUnlink"}
       \/ /\ call[p] = "holding" /\ Free(p)
          /\ \E j \in Jobs : ProcOf(j) = p /\ stage[j] = "writing" /\ kind[j] = "indexFiles"
    /\ UNCHANGED <<mutex, db, created, torn, process, job, crashes>>
    /\ Lock!ReleaseStep(p)
    /\ Overtake(p)

\* release is called: it returns at once unless the lock is held.
CallRelease(p) ==
    IF call[p] = "holding" THEN Lock!Release(p) ELSE UNCHANGED <<lock, call, looked>>

\* A job of p stores files: it is not about to release the lock of indexFiles.
MayWrite(j) ==
    /\ stage[j] = "writing" /\ Free(ProcOf(j))
    /\ kind[j] = "indexFiles" => call[ProcOf(j)] = "outside"

Store(j) ==
    /\ MayWrite(j) /\ on[ProcOf(j)] # 0
    /\ \E f \in todo[j] :
          /\ todo' = [todo EXCEPT ![j] = @ \ {f}]
          /\ db' = IF OnPath(ProcOf(j)) THEN [db EXCEPT !.rows = @ \cup {f}] ELSE db
    /\ UNCHANGED <<mutex, created, torn, locking, process, stage, kind, crashes>>

\* Mutation: a job that throws keeps the file lock and its call the mutex.
FinishHappy(j) ==
    /\ MayWrite(j) /\ on[ProcOf(j)] # 0 /\ todo[j] = {}
    /\ stage' = [stage EXCEPT ![j] = "ok"]
    /\ overtaken' = overtaken \ {ProcOf(j)}
    /\ UNCHANGED <<mutex, db, created, torn, process, kind, todo, crashes>>
    /\ CallRelease(ProcOf(j))

(* Done, or the database was closed under the job and its next statement   *)
(* throws; the finally block releases the lock either way.                 *)
Finish(j) ==
    /\ MayWrite(j)
    /\ \/ /\ on[ProcOf(j)] # 0 /\ todo[j] = {}
          /\ stage' = [stage EXCEPT ![j] = "ok"]
       \/ /\ on[ProcOf(j)] = 0
          /\ stage' = [stage EXCEPT ![j] = "error"]
    /\ overtaken' = overtaken \ {ProcOf(j)}
    /\ UNCHANGED <<mutex, db, created, torn, process, kind, todo, crashes>>
    /\ CallRelease(ProcOf(j))

(* withLock's own finally block.                                           *)
Return(t) ==
    /\ Free(Server)
    /\ stage[t] \in {"ok", "refused", "error"}
    /\ Release(t)
    /\ UNCHANGED <<db, created, torn, locking, process, job, crashes>>

(* close: commands when their job is over, the server at any moment.  It   *)
(* begins with the lock, if that is held.                                  *)
Close(p) ==
    /\ at[p] = "ready" /\ Free(p)
    /\ p \in Commands => (cmd[p] \in {"status", "uninit"} \/ stage[p] \in {"ok", "refused", "error"})
    /\ at' = [at EXCEPT ![p] = "closing"]
    /\ UNCHANGED <<mutex, db, created, torn, overtaken, cmd, seen, on, job, crashes>>
    /\ CallRelease(p)

(* The database is closed; uninitialize goes on to remove the directory    *)
(* with all that is in it.                                                 *)
CloseDatabase(p) ==
    /\ at[p] = "closing" /\ call[p] = "outside"
    /\ on' = [on EXCEPT ![p] = 0]
    /\ seen' = [seen EXCEPT ![p] = 0]
    /\ at' = [at EXCEPT ![p] = "done"]
    /\ IF cmd[p] = "uninit" THEN lock' = Lock!NoFile /\ db' = NoDb
                            ELSE UNCHANGED <<lock, db>>
    /\ UNCHANGED <<mutex, created, torn, call, looked, overtaken, cmd, job, crashes>>

(* A process is killed, in the middle of its system calls or its job.      *)
Crash(p) ==
    /\ crashes < MaxCrashes
    /\ crashes' = crashes + 1
    /\ at[p] \notin Ended
    /\ torn' = (torn \/ (at[p] \in Initializing /\ OnPath(p)))
    /\ at' = [at EXCEPT ![p] = "dead"]
    /\ on' = [on EXCEPT ![p] = 0]
    /\ seen' = [seen EXCEPT ![p] = 0]
    /\ UNCHANGED <<mutex, db, created, overtaken, cmd, job>>
    /\ Lock!Crash(p)

(* Two minutes pass: a job on a large project may take longer than that.   *)
(* What is not written yet or has a dead owner is stale at any age.        *)
Age ==
    /\ lock.pid \in Alive
    /\ UNCHANGED <<mutex, db, created, torn, overtaken, process, job, crashes>>
    /\ Lock!Age
-----------------------------------------------------------------------------
Work(j) == Begin(j) \/ TakeLock(j) \/ Store(j) \/ Finish(j)

Connect(p) == Start(p) \/ CreateDatabase(p) \/ InitializeSchema(p) \/ Open(p) \/ Migrate(p)

(* Nothing is left to run.                                                 *)
Over ==
    /\ \A p \in Processes : at[p] \in Ended
    /\ at[Server] = "done" => \A t \in Tasks : kind[t] = "nothing" \/ pc[t] = "done"
    /\ UNCHANGED allVars

ProjectNext ==
    \/ \E p \in Processes : Connect(p) \/ Clear(p) \/ DropLock(p)
    \/ \E p \in Processes : Close(p) \/ CloseDatabase(p) \/ Crash(p)
    \/ \E t \in Tasks : Call(t) \/ Wake(t) \/ Return(t)
    \/ \E j \in Jobs : Work(j)
    \/ Age
    \/ Over

ProjectSpec == ProjectInit /\ [][ProjectNext]_allVars

\* A command does one thing after the other.
Proceed(p) ==
    \/ Connect(p) \/ Clear(p) \/ Work(p) \/ DropLock(p)
    \/ Close(p) \/ CloseDatabase(p)

\* So does the event loop of the server, once calls have come.
Serve ==
    \/ \E t \in Tasks : Wake(t) \/ Work(t) \/ Return(t)
    \/ DropLock(Server) \/ CloseDatabase(Server)

(* Commands run to their end, and the server runs what is runnable.        *)
ProjectFairness == (\A p \in Commands : WF_allVars(Proceed(p))) /\ WF_allVars(Serve)

FairProjectSpec == ProjectSpec /\ ProjectFairness
-----------------------------------------------------------------------------
(* An instance that CodeGraph.init or open has returned works on the       *)
(* current schema, although two processes may initialize or migrate the    *)
(* same database at once, or open one that is half initialized.            *)
OpenIsCurrent ==
    \A p \in Processes :
        at[p] = "ready" /\ OnPath(p) =>
            db.version = CURRENT_SCHEMA_VERSION /\ db.layout = CURRENT_SCHEMA_VERSION

(* Whenever nobody is inside initialize, the next open of the database     *)
(* succeeds, wherever processes died before: only a death inside           *)
(* initialize leaves what no command can open, nor remove.                 *)
OnlyTornInitBricks ==
    \/ db = NoDb \/ torn
    \/ \E p \in Processes : at[p] \in Initializing /\ OnPath(p)
    \/ db.version = db.layout /\ db.version > 0

(* A database is current for whoever has opened it, and can be opened by   *)
(* the next.                                                               *)
SchemaIsSound == TypeInvariant /\ OpenIsCurrent /\ OnlyTornInitBricks

\* close is synchronous: no job of the process writes once it has begun.
Writing(j) ==
    stage[j] = "writing" /\ at[ProcOf(j)] \notin {"closing", "dead"} /\ OnPath(ProcOf(j))

(* Two jobs of one process never write to the same database, and two of    *)
(* different processes only where the lock file does not protect them: it  *)
(* is let go at once in indexFiles; and it is lost to a process that found *)
(* it two minutes old, may not signal its holder, or removes a file that   *)
(* it has not read, since the one it looked at was another or still empty  *)
(* (Overtakes).  A complete and young lock of a living process is never    *)
(* lost to anybody who has looked at it.                                   *)
WritersAreAlone ==
    \A i, j \in Jobs :
        i # j /\ Writing(i) /\ Writing(j) =>
            /\ ProcOf(i) # ProcOf(j)
            /\ \/ "indexFiles" \in {kind[i], kind[j]}
               \/ overtaken \cap {ProcOf(i), ProcOf(j)} # {}

(* What the class says of its lock: a command that reports success has     *)
(* indexed every file, whatever other processes did.                       *)
SuccessIsComplete ==
    \A p \in Commands :
        stage[p] = "ok" /\ at[p] = "ready" /\ OnPath(p) => db.rows = Files

(* Neither the mutex nor the lock file keeps anybody for ever: a command   *)
(* ends, refused or not, and every call on a living server returns, also   *)
(* when the instance is closed under it.                                   *)
EveryCallEnds ==
    /\ \A p \in Commands : <>(at[p] \in Ended)
    /\ \A t \in Tasks : pc[t] # "idle" ~> (pc[t] = "done" \/ at[Server] = "dead")
=============================================================================
