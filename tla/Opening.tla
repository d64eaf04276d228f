------------------------------- MODULE Opening -------------------------------
(***************************************************************************)
(* knowledge.Open: a process that boots first migrates the schema, unless  *)
(* told not to, then registers its embedding space (EmbeddingSpaces).  Any *)
(* number of processes boot against one database.                          *)
(*                                                                         *)
(* goose reads once which migrations are missing and then runs each of     *)
(* them in a transaction of its own.  It works on one connection, the lock *)
(* belongs to the session of another: each can be lost without the other,  *)
(* and the server may still be busy with a COMMIT when nobody waits for    *)
(* its answer and nobody holds the lock any more.                          *)
(*                                                                         *)
(* An element of Processes stands for one run of a process, until the      *)
(* server is through with what it left behind.                             *)
(***************************************************************************)
EXTENDS EmbeddingSpaces, Sequences

CONSTANTS
    SkipMigrate,  \* processes with Config.SkipMigrate
    Latest,       \* number of embedded migrations
    PoolSize      \* connections of each process's pool

ASSUME OpeningAssumption ==
    /\ SkipMigrate \subseteq Processes
    /\ Latest \in Nat \ {0}
    /\ PoolSize \in Nat \ {0}

VARIABLES
    applied,   \* rag_db_version: the migrations run, in order
    holders,   \* processes whose session holds advisoryLockID
    commit,    \* the migration whose COMMIT the server has from each process, 0 if none
    up,        \* migrate.Up in each process
    busy       \* connections in use of each process's pool

upVars == <<applied, holders, commit, up, busy>>
openVars == <<vars, upVars>>

(***************************************************************************)
(* next     the next migration of goose's plan                             *)
(* ok       provider.Up succeeded                                          *)
(***************************************************************************)
UnderLock == {"borrow", "migrate", "commit", "unlock"}
Migrating == {"acquire", "lock"} \cup UnderLock
UpState == [pc: {"none", "done", "failed"} \cup Migrating,
            next: 1..Latest + 1, ok: BOOLEAN]

NotUp == [pc |-> "none", next |-> 1, ok |-> FALSE]

\* A migration that ran, and whether its runner's session held the lock then.
Version == [migration: 1..Latest, locked: BOOLEAN]

OpenTypeOK ==
    /\ TypeOK
    /\ applied \in Seq(Version)
    /\ holders \subseteq Processes
    /\ commit \in [Processes -> 0..Latest]
    /\ up \in [Processes -> UpState]
    /\ busy \in [Processes -> 0..PoolSize]

OpenInit ==
    /\ Init
    /\ applied = <<>>
    /\ holders = {}
    /\ commit = [p \in Processes |-> 0]
    /\ up = [p \in Processes |-> NotUp]
    /\ busy = [p \in Processes |-> 0]

Ran == {applied[i].migration : i \in DOMAIN applied}

UpGoto(p, pc) == up' = [up EXCEPT ![p].pc = pc]

\* Processes on their way to EnsureSpace.
Booting == {p \in Processes : up[p].pc # "none" /\ proc[p].pc = "closed"}

\* Open, up to the migration.
StartOpen(p) ==
    /\ up[p].pc = "none"
    /\ opens + Cardinality(Booting) < MaxOpens
    /\ UpGoto(p, IF p \in SkipMigrate THEN "done" ELSE "acquire")
    /\ UNCHANGED <<vars, applied, holders, commit, busy>>

(***************************************************************************)
(* migrate.Up.                                                             *)
(***************************************************************************)

\* A connection is taken when the pool has one.
Acquire(p) == busy[p] < PoolSize /\ busy' = [busy EXCEPT ![p] = @ + 1]

AcquireConn(p) ==
    /\ up[p].pc = "acquire"
    /\ Acquire(p)
    /\ UpGoto(p, "lock")
    /\ UNCHANGED <<vars, applied, holders, commit>>

\* pg_advisory_lock.
LockNotNeeded == TRUE
LockFree == holders = {}

TakeLock(p) ==
    /\ up[p].pc = "lock"
    /\ LockFree
    /\ holders' = holders \cup {p}
    /\ UpGoto(p, "borrow")
    /\ UNCHANGED <<vars, applied, commit, busy>>

\* provider.Up takes a second connection of the same pool and makes its plan.
BorrowConn(p) ==
    /\ up[p].pc = "borrow"
    /\ Acquire(p)
    /\ \E n \in 1..Latest + 1 :
          /\ Ran = 1..n - 1
          /\ up' = [up EXCEPT ![p].pc = "migrate", ![p].next = n]
    /\ UNCHANGED <<vars, applied, holders, commit>>

\* It has run the statements of a migration and sends the COMMIT.
SendCommit(p) ==
    /\ up[p].pc = "migrate"
    /\ up[p].next <= Latest
    /\ commit' = [commit EXCEPT ![p] = up[p].next]
    /\ UpGoto(p, "commit")
    /\ UNCHANGED <<vars, applied, holders, busy>>

\* The server commits, whether or not anybody still waits for it.
CommitLands(p) ==
    /\ commit[p] # 0
    /\ applied' = Append(applied, [migration |-> commit[p], locked |-> p \in holders])
    /\ commit' = [commit EXCEPT ![p] = 0]
    /\ up' = IF up[p].pc = "commit"
             THEN [up EXCEPT ![p].pc = "migrate", ![p].next = @ + 1]
             ELSE up
    /\ UNCHANGED <<vars, holders, busy>>

NothingPending(p) ==
    /\ up[p].pc = "migrate"
    /\ up[p].next > Latest
    /\ up' = [up EXCEPT ![p].pc = "unlock", ![p].ok = TRUE]
    /\ UNCHANGED <<vars, applied, holders, commit, busy>>

\* The deferred calls of Up, and Open, which goes on only if Up succeeded.
UpOutcomeIgnored(p) == "done"
UpOutcome(p) == IF up[p].ok THEN "done" ELSE "failed"

LockKept(p) == holders
LockGivenBack(p) == holders \ {p}

UpReturns(p) ==
    /\ up[p].pc = "unlock"
    /\ holders' = LockGivenBack(p)
    /\ busy' = [busy EXCEPT ![p] = 0]
    /\ UpGoto(p, UpOutcome(p))
    /\ UNCHANGED <<vars, applied, commit>>

(***************************************************************************)
(* What goes wrong on the way.                                             *)
(***************************************************************************)
Faulty ==
    /\ faults < MaxFaults
    /\ faults' = faults + 1
    /\ UNCHANGED <<registry, tables, nextId, lock, proc, opens>>

\* goose's connection is lost.  The server rolls the transaction back, unless
\* it has the COMMIT already.
ConnectionLost(p) == UNCHANGED commit \/ commit' = [commit EXCEPT ![p] = 0]

\* A statement fails or the context is cancelled: provider.Up returns an error.
MigrationFails(p) ==
    /\ up[p].pc \in {"borrow", "migrate", "commit"}
    /\ Faulty
    /\ ConnectionLost(p)
    /\ UpGoto(p, "unlock")
    /\ UNCHANGED <<applied, holders, busy>>

\* The session that holds the lock is lost on its own, and Up does not notice.
LockLost(p) ==
    /\ up[p].pc \in UnderLock
    /\ p \in holders
    /\ Faulty
    /\ holders' = holders \ {p}
    /\ UNCHANGED <<applied, commit, up, busy>>

\* The process dies, or gives up before it is granted the lock.  The server
\* learns of it later, and may grant the lock before.
UpAborts(p) ==
    /\ up[p].pc \in Migrating
    /\ Faulty
    /\ ConnectionLost(p)
    /\ \/ UNCHANGED holders
       \/ up[p].pc = "lock" /\ LockFree /\ holders' = holders \cup {p}
    /\ busy' = [busy EXCEPT ![p] = 0]
    /\ UpGoto(p, "failed")
    /\ UNCHANGED applied

\* The server ends the session of a process that is gone.
SessionEnds(p) ==
    /\ up[p].pc = "failed"
    /\ p \in holders
    /\ holders' = holders \ {p}
    /\ UNCHANGED <<vars, applied, commit, up, busy>>

(***************************************************************************)
(* The rest of Open.                                                       *)
(***************************************************************************)
SchemaReady == 1..Latest \subseteq Ran

RegisterSpace(p) ==
    /\ up[p].pc = "done"
    /\ Open(p)
    /\ UNCHANGED upVars

\* Without the table embedding_spaces the INSERT fails.
RegisterFails(p) ==
    /\ proc[p].pc = "register"
    /\ ~SchemaReady
    /\ Fail(p, "schema")
    /\ UNCHANGED <<registry, tables, nextId, opens, faults, upVars>>

EnsureSpaceStep(p) ==
    /\ proc[p].pc = "register" => SchemaReady
    /\ EnsureSpace(p)
    /\ UNCHANGED upVars

SpaceFault(p) == Fault(p) /\ UNCHANGED upVars

\* Close, also by an Open whose generator cannot be built, or the end of a
\* process that could not open.
End(p) ==
    /\ \/ Close(p)
       \/ up[p].pc = "failed" /\ UNCHANGED vars
    /\ p \notin holders /\ commit[p] = 0
    /\ up' = [up EXCEPT ![p] = NotUp]
    /\ UNCHANGED <<applied, holders, commit, busy>>

OpenStep(p) ==
    \/ AcquireConn(p) \/ TakeLock(p) \/ BorrowConn(p) \/ SendCommit(p)
    \/ NothingPending(p) \/ UpReturns(p)
    \/ RegisterSpace(p) \/ RegisterFails(p) \/ EnsureSpaceStep(p)

ServerStep(p) == CommitLands(p) \/ SessionEnds(p)

OpenFault(p) == MigrationFails(p) \/ LockLost(p) \/ UpAborts(p) \/ SpaceFault(p)

OpenNext == \E p \in Processes :
    StartOpen(p) \/ OpenStep(p) \/ ServerStep(p) \/ OpenFault(p) \/ End(p)

OpenSpec == OpenInit /\ [][OpenNext]_openVars

\* Statements come back, the locks' holders permitting, and the server sees to
\* what the dead have left.
FairOpenSpec ==
    /\ OpenSpec
    /\ \A p \in Processes : WF_openVars(OpenStep(p)) /\ WF_openVars(ServerStep(p))

-----------------------------------------------------------------------------
\* migrate.go:50: however many processes boot, no migration runs before an
\* earlier one, and of two runs of the same one at least one took effect when
\* its process had lost the lock: the lock keeps a migration from running twice
\* for as long as the session that holds it lives, and no longer.
MigratedUnderLock ==
    /\ \A i \in DOMAIN applied : \A m \in 1..applied[i].migration - 1 :
          \E j \in 1..i - 1 : applied[j].migration = m
    /\ \A i, j \in DOMAIN applied :
          /\ i # j
          /\ applied[i].migration = applied[j].migration
          => ~applied[i].locked \/ ~applied[j].locked

\* A process that migrates finds the schema it was built for.
SchemaTravelsWithBuild ==
    \A p \in Processes \ SkipMigrate : proc[p].pc # "closed" => SchemaReady

\* A process that dies takes its locks with it, in the end: no Open waits for ever.
OpenEnds ==
    \A p \in Processes :
        up[p].pc = "acquire" \/ proc[p].pc = "lock"
            ~> up[p].pc \in {"none", "failed"} \/ proc[p].pc \in {"open", "failed"}
=============================================================================
