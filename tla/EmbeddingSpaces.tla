--------------------------- MODULE EmbeddingSpaces ---------------------------
(***************************************************************************)
(* Store.EnsureSpace: every process registers the embedding space it is    *)
(* configured for when it opens the knowledge base.                        *)
(*                                                                         *)
(* The registration is one transaction.  What it wrote is kept with its    *)
(* process until the commit; the lock and the identity values it took are  *)
(* visible at once, and the latter are never given back.                   *)
(***************************************************************************)
EXTENDS FiniteSets, Integers

CONSTANTS
    Processes,
    Spaces,      \* provider, model and dimension
    Names,       \* table names
    Slug,        \* Slug[s]: the table name of a space
    Keys,        \* advisory lock keys
    LockKey,     \* LockKey[n]: hashtext of a table name
    MaxId,       \* the largest value of the identity column (32767)
    MaxOpens,    \* bound: calls of EnsureSpace
    MaxFaults,   \* bound: crashes, timeouts and lost connections
    None

ASSUME SpacesAssumption ==
    /\ Slug \in [Spaces -> Names]
    /\ LockKey \in [Names -> Keys]
    /\ MaxId \in Nat /\ MaxOpens \in Nat /\ MaxFaults \in Nat
    /\ None \notin Processes \cup Spaces \cup Names

VARIABLES
    registry,   \* embedding_spaces, committed
    tables,     \* the embedding tables, committed: name and whose dimension
    nextId,     \* the identity sequence
    lock,       \* holder of each advisory lock
    proc,       \* each process
    opens, faults

vars == <<registry, tables, nextId, lock, proc, opens, faults>>

Row == [id: 1..MaxId, space: Spaces, table: Names]
Table == [name: Names, dim: Spaces]

(***************************************************************************)
(* space     the space it is configured for                                *)
(* ref       the row RETURNING answered; the SpaceRef once open            *)
(* made      the table it created, not committed yet                       *)
(* why       why it failed                                                 *)
(***************************************************************************)
InTransaction == {"register", "create", "commit"}
Process == [pc: {"closed", "lock", "open", "failed"} \cup InTransaction,
            space: Spaces \cup {None}, ref: Row \cup {None}, new: BOOLEAN,
            made: SUBSET Table,
            why: {"none", "fault", "schema", "collision", "exhausted"}]

Closed == [pc |-> "closed", space |-> None, ref |-> None, new |-> FALSE,
           made |-> {}, why |-> "none"]

TypeOK ==
    /\ registry \subseteq Row
    /\ tables \subseteq Table
    /\ nextId \in 1..MaxId + 1
    /\ lock \in [Keys -> Processes \cup {None}]
    /\ proc \in [Processes -> Process]
    /\ opens \in 0..MaxOpens
    /\ faults \in 0..MaxFaults

Init ==
    /\ registry = {}
    /\ tables = {}
    /\ nextId = 1
    /\ lock = [k \in Keys |-> None]
    /\ proc = [p \in Processes |-> Closed]
    /\ opens = 0
    /\ faults = 0

Key(p) == LockKey[Slug[proc[p].space]]

\* A process starts, configured for some space.
Open(p) ==
    /\ proc[p].pc = "closed"
    /\ opens < MaxOpens
    /\ \E s \in Spaces : proc' = [proc EXCEPT ![p] = [Closed EXCEPT !.pc = "lock", !.space = s]]
    /\ opens' = opens + 1
    /\ UNCHANGED <<registry, tables, nextId, lock, faults>>

\* pg_advisory_xact_lock.
Lock(p) ==
    /\ proc[p].pc = "lock"
    /\ lock[Key(p)] = None
    /\ lock' = [lock EXCEPT ![Key(p)] = p]
    /\ proc' = [proc EXCEPT ![p].pc = "register"]
    /\ UNCHANGED <<registry, tables, nextId, opens, faults>>

(***************************************************************************)
(* The transaction ends, one way or the other, and its locks with it.      *)
(***************************************************************************)
Unlock(p) == lock' = [k \in Keys |-> IF lock[k] = p THEN None ELSE lock[k]]

Fail(p, why) ==
    /\ proc' = [proc EXCEPT ![p] = [Closed EXCEPT !.pc = "failed", !.space = proc[p].space,
                                       !.why = why]]
    /\ Unlock(p)

(***************************************************************************)
(* INSERT ... ON CONFLICT (provider, model, dim) DO UPDATE ... RETURNING.   *)
(* The default of id is taken from the sequence before a conflict is       *)
(* looked for.  A row another transaction has not committed makes the      *)
(* statement wait.                                                         *)
(***************************************************************************)
Registered(p) == {r \in registry : r.space = proc[p].space}

UniqueInSpaceOnly(p) == FALSE
TableTaken(p) == \E r \in registry : r.table = Slug[proc[p].space] /\ r.space # proc[p].space

MustWait(p) ==
    \E q \in Processes \ {p} :
        /\ proc[q].pc \in InTransaction /\ proc[q].new
        /\ Slug[proc[q].space] = Slug[proc[p].space]

Fresh(p) == [id |-> nextId, space |-> proc[p].space, table |-> Slug[proc[p].space]]

Returned(p) ==
    IF Registered(p) = {} THEN Fresh(p) ELSE CHOOSE r \in Registered(p) : TRUE

\* nextval has an end, new space or not.
NeverUsedUp == FALSE
UsedUp == nextId > MaxId

Register(p) ==
    /\ proc[p].pc = "register"
    /\ ~MustWait(p)
    /\ \/ /\ UsedUp
          /\ Fail(p, "exhausted")
          /\ UNCHANGED nextId
       \/ /\ ~UsedUp
          /\ nextId' = nextId + 1
          /\ \/ /\ Registered(p) = {} /\ TableTaken(p)
                /\ Fail(p, "collision")
             \/ /\ Registered(p) # {} \/ ~TableTaken(p)
                /\ proc' = [proc EXCEPT ![p].pc = "create", ![p].ref = Returned(p),
                                        ![p].new = Registered(p) = {}]
                /\ UNCHANGED lock
    /\ UNCHANGED <<registry, tables, opens, faults>>

\* CREATE TABLE IF NOT EXISTS and its index, named after the row that came back.
Exists(p) == \E t \in tables : t.name = proc[p].ref.table

CreateTable(p) ==
    /\ proc[p].pc = "create"
    /\ proc' = [proc EXCEPT ![p].pc = "commit",
                    ![p].made = IF Exists(p) THEN {}
                                ELSE {[name |-> proc[p].ref.table, dim |-> proc[p].space]}]
    /\ UNCHANGED <<registry, tables, nextId, lock, opens, faults>>

Apply(p) ==
    /\ registry' = registry \cup (IF proc[p].new THEN {proc[p].ref} ELSE {})
    /\ tables' = tables \cup proc[p].made

Commit(p) ==
    /\ proc[p].pc = "commit"
    /\ Apply(p)
    /\ Unlock(p)
    /\ proc' = [proc EXCEPT ![p].pc = "open", ![p].new = FALSE, ![p].made = {}]
    /\ UNCHANGED <<nextId, opens, faults>>

\* A crash, the 30 second deadline or a lost connection: the transaction is
\* rolled back, unless it was the answer to its COMMIT that got lost.
Fault(p) ==
    /\ faults < MaxFaults
    /\ faults' = faults + 1
    /\ proc[p].pc \in {"lock"} \cup InTransaction
    /\ Fail(p, "fault")
    /\ \/ UNCHANGED <<registry, tables>>
       \/ proc[p].pc = "commit" /\ Apply(p)
    /\ UNCHANGED <<nextId, opens>>

Close(p) ==
    /\ proc[p].pc \in {"open", "failed"}
    /\ proc' = [proc EXCEPT ![p] = Closed]
    /\ UNCHANGED <<registry, tables, nextId, lock, opens, faults>>

EnsureSpace(p) == Lock(p) \/ Register(p) \/ CreateTable(p) \/ Commit(p)

Next == \E p \in Processes : Open(p) \/ EnsureSpace(p) \/ Fault(p) \/ Close(p)

Spec == Init /\ [][Next]_vars

-----------------------------------------------------------------------------
\* Two spaces never share a table, even when their slugs collide.  Every process
\* that opens a space holds the row that was committed for it, whichever process
\* registered it and whatever died on the way, and the table it reads and writes
\* has the dimension of its space.
SpacesApart ==
    /\ \A p, q \in Processes :
          /\ proc[p].pc = "open" /\ proc[q].pc = "open"
          /\ proc[p].ref.table = proc[q].ref.table
          => proc[p].space = proc[q].space
    /\ \A p \in Processes : proc[p].pc = "open" =>
          /\ proc[p].ref \in registry
          /\ \E t \in tables : t.name = proc[p].ref.table /\ t.dim = proc[p].space
=============================================================================
