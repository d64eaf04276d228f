---------------------------- MODULE OpeningProofs ----------------------------
(***************************************************************************)
(* Any number of processes open one database: a migration runs twice only  *)
(* if the lock was lost before it landed, a process that migrates finds    *)
(* its schema, and two spaces never share a table, whatever dies on the    *)
(* way.                                                                    *)
(*                                                                         *)
(* The advisory lock of migrate.Up carries the first two (UpInv).  The     *)
(* third does not depend on the lock of EnsureSpace: it follows from the   *)
(* unique constraints of embedding_spaces (SpaceInv).                      *)
(***************************************************************************)
EXTENDS Opening, SequenceTheorems, TLAPS

-----------------------------------------------------------------------------
(***************************************************************************)
(* Types.                                                                  *)
(***************************************************************************)
LEMMA ClosedIsProcess == Closed \in Process
<1>1. \A s \in Spaces \cup {None} : TRUE
    OBVIOUS
<1>2. QED BY DEF Closed, Process

LEMMA FailedIsProcess ==
    ASSUME TypeOK, NEW p \in Processes, NEW why \in {"none", "fault", "schema", "collision", "exhausted"}
    PROVE  [Closed EXCEPT !.pc = "failed", !.space = proc[p].space, !.why = why] \in Process
<1>1. proc[p].space \in Spaces \cup {None}
    BY DEF TypeOK, Process
<1>2. QED BY <1>1 DEF Closed, Process

LEMMA FailType ==
    ASSUME TypeOK, NEW p \in Processes,
           NEW why \in {"none", "fault", "schema", "collision", "exhausted"}, Fail(p, why)
    PROVE  proc' \in [Processes -> Process] /\ lock' \in [Keys -> Processes \cup {None}]
<1>1. proc' \in [Processes -> Process]
    BY FailedIsProcess DEF Fail, TypeOK
<1>2. lock' \in [Keys -> Processes \cup {None}]
    BY DEF Fail, Unlock, TypeOK
<1>3. QED BY <1>1, <1>2

LEMMA ApplyType ==
    ASSUME TypeOK, NEW p \in Processes, Apply(p), proc[p].new => proc[p].ref \in Row
    PROVE  registry' \subseteq Row /\ tables' \subseteq Table
<1>1. proc[p].made \subseteq Table
    BY DEF TypeOK, Process
<1>2. QED BY <1>1 DEF Apply, TypeOK

-----------------------------------------------------------------------------
(***************************************************************************)
(* The registry of spaces.                                                 *)
(***************************************************************************)

\* What a process holds between the INSERT and its Close.
HoldsRow(st) == st.pc \in {"create", "commit", "open"}

GoodProcess(st, rows) ==
    /\ st.pc # "closed" => st.space \in Spaces
    /\ HoldsRow(st) => /\ st.ref \in Row
                       /\ st.ref.space = st.space /\ st.ref.table = Slug[st.space]
                       /\ ~st.new => st.ref \in rows
    /\ st.new => /\ st.pc \in {"create", "commit"}
                 /\ \A r \in rows : r.table # Slug[st.space]
    /\ st.pc # "commit" => st.made = {}
    /\ st.pc = "commit" =>
          st.made = IF st.new THEN {[name |-> st.ref.table, dim |-> st.space]} ELSE {}

\* Two rows not committed yet are for different tables.
NewApart ==
    \A p, q \in Processes : p # q /\ proc[p].new /\ proc[q].new =>
        Slug[proc[p].space] # Slug[proc[q].space]

\* The unique constraint on table_name, and the tables that were made.
RowsApart ==
    /\ \A r \in registry : r.table = Slug[r.space]
    /\ \A r, s \in registry : r.table = s.table => r.space = s.space
    /\ \A t \in tables : \E r \in registry : r.table = t.name /\ r.space = t.dim
    /\ \A r \in registry : \E t \in tables : t.name = r.table /\ t.dim = r.space

SpaceInv ==
    /\ \A p \in Processes : GoodProcess(proc[p], registry)
    /\ NewApart
    /\ RowsApart

\* A process moves on, and nothing is committed.
LEMMA ProcessMoves ==
    ASSUME TypeOK, SpaceInv, NEW p \in Processes, NEW st, GoodProcess(st, registry),
           st.new => \A q \in Processes \ {p} :
                         proc[q].new => Slug[proc[q].space] # Slug[st.space],
           proc' = [proc EXCEPT ![p] = st], UNCHANGED <<registry, tables>>
    PROVE  SpaceInv'
<1>1. proc \in [Processes -> Process]
    BY DEF TypeOK
<1>2. proc'[p] = st /\ \A q \in Processes \ {p} : proc'[q] = proc[q]
    BY <1>1
<1>3. \A q \in Processes : GoodProcess(proc[q], registry)'
    <2>1. ASSUME NEW q \in Processes, q # p PROVE GoodProcess(proc[q], registry)'
        <3>1. GoodProcess(proc[q], registry)
            BY DEF SpaceInv
        <3>2. QED BY <1>2, <2>1, <3>1
    <2>2. GoodProcess(proc[p], registry)'
        BY <1>2
    <2>3. QED BY <2>1, <2>2
<1>4. NewApart'
    BY <1>2 DEF NewApart, SpaceInv
<1>5. RowsApart'
    BY DEF RowsApart, SpaceInv
<1>6. QED BY <1>3, <1>4, <1>5 DEF SpaceInv

LEMMA FailSpaces ==
    ASSUME TypeOK, SpaceInv, NEW p \in Processes, proc[p].pc # "closed",
           NEW why, Fail(p, why), UNCHANGED <<registry, tables>>
    PROVE  SpaceInv'
<1> DEFINE st == [Closed EXCEPT !.pc = "failed", !.space = proc[p].space, !.why = why]
<1>1. st.pc = "failed" /\ st.space = proc[p].space /\ st.new = FALSE /\ st.made = {}
    BY DEF Closed
<1>2. proc' = [proc EXCEPT ![p] = st]
    BY DEF Fail
<1>3. proc[p].space \in Spaces
    BY DEF SpaceInv, GoodProcess
<1> HIDE DEF st
<1>4. GoodProcess(st, registry)
    BY <1>1, <1>3 DEF GoodProcess, HoldsRow
<1>5. QED BY <1>1, <1>2, <1>4, ProcessMoves

\* What a commit adds: one row with its table, or nothing.
LEMMA CommitSpaces ==
    ASSUME TypeOK, SpaceInv, NEW p \in Processes, proc[p].pc = "commit", Apply(p)
    PROVE  /\ RowsApart'
           /\ registry \subseteq registry' /\ proc[p].ref \in registry'
           /\ \A r \in registry' : r \in registry \/ (proc[p].new /\ r = proc[p].ref)
<1> DEFINE ref == proc[p].ref
           row == [name |-> ref.table, dim |-> proc[p].space]
<1>1. /\ proc[p].made = IF proc[p].new THEN {row} ELSE {}
      /\ ref.space = proc[p].space /\ ref.table = Slug[proc[p].space]
      /\ ~proc[p].new => ref \in registry
      /\ proc[p].new => \A r \in registry : r.table # ref.table
    <2>1. GoodProcess(proc[p], registry)
        BY DEF SpaceInv
    <2>2. HoldsRow(proc[p])
        BY DEF HoldsRow
    <2>3. proc[p].made = IF proc[p].new THEN {row} ELSE {}
        BY <2>1 DEF GoodProcess
    <2> HIDE DEF row
    <2>4. QED BY <2>1, <2>2, <2>3 DEF GoodProcess
<1>2. row.name = ref.table /\ row.dim = ref.space
    BY <1>1
<1>3. CASE proc[p].new
    <2>1. registry' = registry \cup {ref} /\ tables' = tables \cup {row}
        BY <1>1, <1>3 DEF Apply
    <2> HIDE DEF ref, row
    <2>2. \A r \in registry' : r.table = Slug[r.space]
        BY <1>1, <2>1 DEF SpaceInv, RowsApart
    <2>3. \A r, s \in registry' : r.table = s.table => r.space = s.space
        BY <1>1, <1>3, <2>1 DEF SpaceInv, RowsApart
    <2>4. \A t \in tables' : \E r \in registry' : r.table = t.name /\ r.space = t.dim
        BY <1>2, <2>1 DEF SpaceInv, RowsApart
    <2>5. \A r \in registry' : \E t \in tables' : t.name = r.table /\ t.dim = r.space
        BY <1>2, <2>1 DEF SpaceInv, RowsApart
    <2>6. RowsApart'
        BY <2>2, <2>3, <2>4, <2>5 DEF RowsApart
    <2>7. QED BY <1>3, <2>1, <2>6 DEF ref
<1>4. CASE ~proc[p].new
    <2>1. registry' = registry /\ tables' = tables
        BY <1>1, <1>4 DEF Apply
    <2>2. RowsApart'
        BY <2>1 DEF SpaceInv, RowsApart
    <2>3. QED BY <1>1, <1>4, <2>1, <2>2
<1>5. QED BY <1>3, <1>4

\* A transaction commits, whatever its process hears of it.
LEMMA CommitMoves ==
    ASSUME TypeOK, SpaceInv, NEW p \in Processes, proc[p].pc = "commit", Apply(p),
           NEW st, ~st.new, st.made = {}, st.pc \in {"open", "failed"}, st.space = proc[p].space,
           st.pc = "open" => st.ref = proc[p].ref,
           proc' = [proc EXCEPT ![p] = st]
    PROVE  SpaceInv'
<1>1. /\ RowsApart' /\ registry \subseteq registry' /\ proc[p].ref \in registry'
      /\ \A r \in registry' : r \in registry \/ (proc[p].new /\ r = proc[p].ref)
    BY CommitSpaces
<1>2. proc \in [Processes -> Process]
    BY DEF TypeOK
<1>3. proc'[p] = st /\ \A q \in Processes \ {p} : proc'[q] = proc[q]
    BY <1>2
<1>4. /\ proc[p].ref \in Row /\ proc[p].ref.space = proc[p].space
      /\ proc[p].ref.table = Slug[proc[p].space] /\ proc[p].space \in Spaces
    BY DEF SpaceInv, GoodProcess, HoldsRow
<1>5. GoodProcess(proc[p], registry)'
    BY <1>1, <1>3, <1>4 DEF GoodProcess, HoldsRow
<1>6. ASSUME NEW q \in Processes, q # p PROVE GoodProcess(proc[q], registry)'
    <2>1. GoodProcess(proc[q], registry)
        BY DEF SpaceInv
    <2>2. ASSUME proc[q].new, NEW r \in registry' PROVE r.table # Slug[proc[q].space]
        <3>1. CASE r \in registry
            BY <2>1, <2>2, <3>1 DEF GoodProcess
        <3>2. CASE proc[p].new /\ r = proc[p].ref
            BY <1>4, <1>6, <2>2, <3>2 DEF SpaceInv, NewApart
        <3>3. QED BY <1>1, <3>1, <3>2
    <2>3. QED BY <1>1, <1>3, <1>6, <2>1, <2>2 DEF GoodProcess, HoldsRow
<1>7. NewApart'
    BY <1>3 DEF NewApart, SpaceInv
<1>8. QED BY <1>1, <1>5, <1>6, <1>7 DEF SpaceInv

\* Two opens of one table are of one space, and it is the space's table.
LEMMA SpaceInvApart == ASSUME SpaceInv PROVE SpacesApart
<1>1. \A p \in Processes : proc[p].pc = "open" =>
          /\ proc[p].ref \in registry /\ proc[p].ref.space = proc[p].space
    BY DEF SpaceInv, GoodProcess, HoldsRow
<1>2. QED BY <1>1 DEF SpaceInv, RowsApart, SpacesApart

-----------------------------------------------------------------------------
(***************************************************************************)
(* The steps of EnsureSpace keep both.                                     *)
(***************************************************************************)
RegistryInv == TypeOK /\ SpaceInv

\* A step that only moves one process.
LEMMA ProcessType ==
    ASSUME TypeOK, NEW p \in Processes, NEW st \in Process,
           proc' = [proc EXCEPT ![p] = st]
    PROVE  proc' \in [Processes -> Process]
BY DEF TypeOK

LEMMA OpenStepKeeps ==
    ASSUME RegistryInv, NEW p \in Processes, Open(p)
    PROVE  RegistryInv'
<1>1. PICK s \in Spaces :
          proc' = [proc EXCEPT ![p] = [Closed EXCEPT !.pc = "lock", !.space = s]]
    BY DEF Open
<1> DEFINE st == [Closed EXCEPT !.pc = "lock", !.space = s]
<1>2. st.pc = "lock" /\ st.space = s /\ st.new = FALSE /\ st.made = {}
    BY DEF Closed
<1>3. st \in Process
    BY DEF Closed, Process
<1> HIDE DEF st
<1>4. GoodProcess(st, registry)
    BY <1>2 DEF GoodProcess, HoldsRow
<1>5. proc' = [proc EXCEPT ![p] = st]
    BY <1>1 DEF st
<1>6. SpaceInv'
    BY <1>2, <1>4, <1>5, ProcessMoves DEF RegistryInv, Open
<1>7. proc' \in [Processes -> Process]
    BY <1>3, <1>5, ProcessType DEF RegistryInv
<1>8. opens' \in 0..MaxOpens
    BY SpacesAssumption DEF Open, RegistryInv, TypeOK
<1>9. TypeOK'
    BY <1>7, <1>8 DEF Open, RegistryInv, TypeOK
<1>10. QED BY <1>6, <1>9 DEF RegistryInv

LEMMA LockStepKeeps ==
    ASSUME RegistryInv, NEW p \in Processes, Lock(p)
    PROVE  RegistryInv'
<1> DEFINE st == [proc[p] EXCEPT !.pc = "register"]
<1>0. proc \in [Processes -> Process] /\ proc[p] \in Process /\ proc[p].pc = "lock"
    BY DEF RegistryInv, TypeOK, Lock
<1>1. /\ st.pc = "register" /\ st.space = proc[p].space
      /\ st.new = proc[p].new /\ st.made = proc[p].made
    BY <1>0 DEF Process
<1>2. st \in Process
    BY <1>0 DEF Process, InTransaction
<1>3. proc' = [proc EXCEPT ![p] = st]
    BY <1>0 DEF Lock
<1> HIDE DEF st
<1>4. GoodProcess(proc[p], registry)
    BY DEF RegistryInv, SpaceInv
<1>5. GoodProcess(st, registry) /\ ~st.new
    BY <1>0, <1>1, <1>4 DEF GoodProcess, HoldsRow
<1>6. SpaceInv'
    BY <1>3, <1>5, ProcessMoves DEF RegistryInv, Lock
<1>7. Key(p) \in Keys => lock' \in [Keys -> Processes \cup {None}]
    BY DEF Lock, RegistryInv, TypeOK
<1>8. lock' \in [Keys -> Processes \cup {None}]
    BY DEF Lock, RegistryInv, TypeOK
<1>9. TypeOK'
    BY <1>2, <1>3, <1>8, ProcessType DEF Lock, RegistryInv, TypeOK
<1>10. QED BY <1>6, <1>9 DEF RegistryInv

LEMMA FailStepKeeps ==
    ASSUME RegistryInv, NEW p \in Processes, proc[p].pc # "closed",
           NEW why \in {"none", "fault", "schema", "collision", "exhausted"}, Fail(p, why),
           UNCHANGED <<registry, tables, opens>>,
           nextId' \in 1..MaxId + 1, faults' \in 0..MaxFaults
    PROVE  RegistryInv'
<1>1. SpaceInv'
    BY FailSpaces DEF RegistryInv
<1>2. TypeOK'
    BY FailType DEF RegistryInv, TypeOK
<1>3. QED BY <1>1, <1>2 DEF RegistryInv

\* The row the INSERT returns is the space's own, new or not.
LEMMA ReturnedRow ==
    ASSUME RegistryInv, NEW p \in Processes, proc[p].pc = "register",
           nextId <= MaxId, Registered(p) # {} \/ ~TableTaken(p)
    PROVE  /\ Returned(p) \in Row /\ proc[p].space \in Spaces
           /\ Returned(p).space = proc[p].space /\ Returned(p).table = Slug[proc[p].space]
           /\ Registered(p) # {} => Returned(p) \in registry
           /\ Registered(p) = {} => \A r \in registry : r.table # Slug[proc[p].space]
<1>1. proc[p].space \in Spaces
    BY DEF RegistryInv, SpaceInv, GoodProcess
<1>2. CASE Registered(p) = {}
    <2>1. Returned(p) = Fresh(p)
        BY <1>2 DEF Returned
    <2>2. nextId \in 1..MaxId /\ Slug[proc[p].space] \in Names
        BY <1>1, SpacesAssumption DEF RegistryInv, TypeOK
    <2>3. \A r \in registry : r.table # Slug[proc[p].space]
        BY <1>2 DEF Registered, TableTaken
    <2>4. QED BY <1>1, <1>2, <2>1, <2>2, <2>3 DEF Fresh, Row
<1>3. CASE Registered(p) # {}
    <2>1. Returned(p) \in Registered(p)
        BY <1>3 DEF Returned
    <2>2. Returned(p) \in registry /\ Returned(p).space = proc[p].space
        BY <2>1 DEF Registered
    <2>3. QED BY <1>1, <1>3, <2>2 DEF RegistryInv, SpaceInv, RowsApart, TypeOK
<1>4. QED BY <1>2, <1>3

LEMMA RegisterStepKeeps ==
    ASSUME RegistryInv, NEW p \in Processes, Register(p)
    PROVE  RegistryInv'
<1>0. /\ proc \in [Processes -> Process] /\ proc[p] \in Process
      /\ proc[p].pc = "register" /\ ~MustWait(p)
      /\ UNCHANGED <<registry, tables, opens, faults>>
    BY DEF RegistryInv, TypeOK, Register
<1>1. nextId' \in 1..MaxId + 1 /\ faults' \in 0..MaxFaults
    BY SpacesAssumption DEF RegistryInv, TypeOK, Register, UsedUp
<1>2. CASE Fail(p, "exhausted") \/ Fail(p, "collision")
    BY <1>0, <1>1, <1>2, FailStepKeeps
<1>3. CASE /\ nextId <= MaxId /\ UNCHANGED lock
           /\ Registered(p) # {} \/ ~TableTaken(p)
           /\ proc' = [proc EXCEPT ![p].pc = "create", ![p].ref = Returned(p),
                                   ![p].new = Registered(p) = {}]
    <2>1. PICK new \in BOOLEAN : new <=> Registered(p) = {}
        OBVIOUS
    <2> DEFINE ref == Returned(p)
               st == [proc[p] EXCEPT !.pc = "create", !.ref = ref, !.new = new]
    <2>2. /\ ref \in Row /\ proc[p].space \in Spaces
          /\ ref.space = proc[p].space /\ ref.table = Slug[proc[p].space]
          /\ ~new => ref \in registry
          /\ new => \A r \in registry : r.table # Slug[proc[p].space]
        BY <1>0, <1>3, <2>1, ReturnedRow
    <2>3. proc' = [proc EXCEPT ![p] = st]
        BY <1>0, <1>3, <2>1
    <2> HIDE DEF ref
    <2>4. /\ st.pc = "create" /\ st.space = proc[p].space /\ st.new = new
          /\ st.ref = ref /\ st.made = proc[p].made
        BY <1>0 DEF Process
    <2>5. st \in Process
        BY <1>0, <2>2 DEF Process, InTransaction
    <2> HIDE DEF st
    <2>6. proc[p].made = {}
        BY <1>0 DEF RegistryInv, SpaceInv, GoodProcess
    <2>7. GoodProcess(st, registry)
        BY <2>2, <2>4, <2>6 DEF GoodProcess, HoldsRow
    <2>8. ASSUME NEW q \in Processes \ {p}, proc[q].new
          PROVE  Slug[proc[q].space] # Slug[st.space]
        <3>1. proc[q].pc \in InTransaction
            BY <2>8 DEF RegistryInv, SpaceInv, GoodProcess, InTransaction
        <3>2. QED BY <1>0, <2>4, <2>8, <3>1 DEF MustWait
    <2>9. SpaceInv'
        BY <1>0, <2>3, <2>7, <2>8, ProcessMoves DEF RegistryInv
    <2>10. TypeOK'
        BY <1>0, <1>1, <1>3, <2>3, <2>5, ProcessType DEF RegistryInv, TypeOK
    <2>11. QED BY <2>9, <2>10 DEF RegistryInv
<1>4. nextId \in Nat /\ MaxId \in Nat
    BY SpacesAssumption DEF RegistryInv, TypeOK
<1>5. QED BY <1>2, <1>3, <1>4 DEF Register, UsedUp

LEMMA CreateStepKeeps ==
    ASSUME RegistryInv, NEW p \in Processes, CreateTable(p)
    PROVE  RegistryInv'
<1> DEFINE row == [name |-> proc[p].ref.table, dim |-> proc[p].space]
           made == IF Exists(p) THEN {} ELSE {row}
           st == [proc[p] EXCEPT !.pc = "commit", !.made = made]
<1>0. /\ proc \in [Processes -> Process] /\ proc[p] \in Process
      /\ proc[p].pc = "create"
      /\ UNCHANGED <<registry, tables, nextId, lock, opens, faults>>
    BY DEF RegistryInv, TypeOK, CreateTable
<1>1. /\ proc[p].ref \in Row /\ proc[p].space \in Spaces
      /\ proc[p].ref.space = proc[p].space /\ proc[p].ref.table = Slug[proc[p].space]
      /\ ~proc[p].new => proc[p].ref \in registry
      /\ proc[p].new => \A r \in registry : r.table # Slug[proc[p].space]
    <2>1. GoodProcess(proc[p], registry)
        BY DEF RegistryInv, SpaceInv
    <2>2. HoldsRow(proc[p])
        BY <1>0 DEF HoldsRow
    <2>3. QED BY <2>1, <2>2 DEF GoodProcess, HoldsRow
<1>2. row \in Table
    BY <1>1 DEF Row, Table
<1>3. proc' = [proc EXCEPT ![p] = st]
    BY <1>0 DEF CreateTable
<1>4. made = IF proc[p].new THEN {row} ELSE {}
    <2>1. CASE proc[p].new
        <3>1. ~Exists(p)
            BY <1>1, <2>1 DEF Exists, RegistryInv, SpaceInv, RowsApart
        <3>2. QED BY <2>1, <3>1
    <2>2. CASE ~proc[p].new
        <3>1. Exists(p)
            BY <1>1, <2>2 DEF Exists, RegistryInv, SpaceInv, RowsApart
        <3>2. QED BY <2>2, <3>1
    <2>3. QED BY <2>1, <2>2
<1>5. made \in SUBSET Table
    BY <1>2
<1> HIDE DEF made
<1>6. /\ st.pc = "commit" /\ st.space = proc[p].space /\ st.new = proc[p].new
      /\ st.ref = proc[p].ref /\ st.made = made
    BY <1>0 DEF Process
<1>7. st \in Process
    BY <1>0, <1>5 DEF Process, InTransaction
<1> HIDE DEF st
<1>8. GoodProcess(st, registry)
    BY <1>1, <1>4, <1>6 DEF GoodProcess, HoldsRow
<1>9. SpaceInv'
    <2>1. st.new => \A q \in Processes \ {p} :
                       proc[q].new => Slug[proc[q].space] # Slug[st.space]
        BY <1>6 DEF RegistryInv, SpaceInv, NewApart
    <2>2. QED BY <1>0, <1>3, <1>8, <2>1, ProcessMoves DEF RegistryInv
<1>10. TypeOK'
    BY <1>0, <1>3, <1>7, ProcessType DEF RegistryInv, TypeOK
<1>11. QED BY <1>9, <1>10 DEF RegistryInv

LEMMA CommitStepKeeps ==
    ASSUME RegistryInv, NEW p \in Processes, Commit(p)
    PROVE  RegistryInv'
<1> DEFINE st == [proc[p] EXCEPT !.pc = "open", !.new = FALSE, !.made = {}]
<1>0. /\ proc \in [Processes -> Process] /\ proc[p] \in Process
      /\ proc[p].pc = "commit" /\ Apply(p) /\ Unlock(p)
      /\ UNCHANGED <<nextId, opens, faults>>
    BY DEF RegistryInv, TypeOK, Commit
<1>1. proc' = [proc EXCEPT ![p] = st]
    BY <1>0 DEF Commit
<1>2. /\ st.pc = "open" /\ st.space = proc[p].space /\ st.new = FALSE
      /\ st.made = {} /\ st.ref = proc[p].ref
    BY <1>0 DEF Process
<1>3. st \in Process
    BY <1>0 DEF Process, InTransaction
<1> HIDE DEF st
<1>4. SpaceInv'
    BY <1>0, <1>1, <1>2, CommitMoves DEF RegistryInv
<1>5. registry' \subseteq Row /\ tables' \subseteq Table
    <2>1. proc[p].ref \in Row
        BY <1>0 DEF RegistryInv, SpaceInv, GoodProcess, HoldsRow
    <2>2. QED BY <1>0, <2>1, ApplyType DEF RegistryInv
<1>6. lock' \in [Keys -> Processes \cup {None}]
    BY <1>0 DEF Unlock, RegistryInv, TypeOK
<1>7. proc' \in [Processes -> Process]
    BY <1>1, <1>3, ProcessType DEF RegistryInv
<1>8. TypeOK'
    BY <1>0, <1>5, <1>6, <1>7 DEF RegistryInv, TypeOK
<1>9. QED BY <1>4, <1>8 DEF RegistryInv

LEMMA FaultStepKeeps ==
    ASSUME RegistryInv, NEW p \in Processes, Fault(p)
    PROVE  RegistryInv'
<1>0. /\ Fail(p, "fault") /\ proc[p].pc # "closed" /\ faults' \in 0..MaxFaults
      /\ nextId' \in 1..MaxId + 1 /\ UNCHANGED <<nextId, opens>>
    BY SpacesAssumption DEF Fault, InTransaction, RegistryInv, TypeOK
<1>1. CASE UNCHANGED <<registry, tables>>
    BY <1>0, <1>1, FailStepKeeps
<1>2. CASE proc[p].pc = "commit" /\ Apply(p)
    <2> DEFINE st == [Closed EXCEPT !.pc = "failed", !.space = proc[p].space, !.why = "fault"]
    <2>1. /\ st.pc = "failed" /\ st.space = proc[p].space /\ st.new = FALSE
          /\ st.made = {}
        BY DEF Closed
    <2>2. proc' = [proc EXCEPT ![p] = st]
        BY <1>0 DEF Fail
    <2> HIDE DEF st
    <2>3. SpaceInv'
        BY <1>2, <2>1, <2>2, CommitMoves DEF RegistryInv
    <2>4. registry' \subseteq Row /\ tables' \subseteq Table
        <3>1. proc[p].ref \in Row
            BY <1>2 DEF RegistryInv, SpaceInv, GoodProcess, HoldsRow
        <3>2. QED BY <1>2, <3>1, ApplyType DEF RegistryInv
    <2>5. proc' \in [Processes -> Process] /\ lock' \in [Keys -> Processes \cup {None}]
        BY <1>0, FailType DEF RegistryInv
    <2>6. TypeOK'
        BY <1>0, <2>4, <2>5 DEF RegistryInv, TypeOK
    <2>7. QED BY <2>3, <2>6 DEF RegistryInv
<1>3. QED BY <1>1, <1>2 DEF Fault

LEMMA CloseStepKeeps ==
    ASSUME RegistryInv, NEW p \in Processes, Close(p)
    PROVE  RegistryInv'
<1>1. Closed.pc = "closed" /\ Closed.new = FALSE /\ Closed.made = {}
    BY DEF Closed
<1>2. GoodProcess(Closed, registry)
    BY <1>1 DEF GoodProcess, HoldsRow
<1>3. SpaceInv'
    BY <1>1, <1>2, ProcessMoves DEF RegistryInv, Close
<1>4. TypeOK'
    BY ClosedIsProcess, ProcessType DEF Close, RegistryInv, TypeOK
<1>5. QED BY <1>3, <1>4 DEF RegistryInv

-----------------------------------------------------------------------------
(***************************************************************************)
(* The migration: what a log of versions says.                             *)
(***************************************************************************)

\* Every migration before n has run.
Below(n, log) == \A m \in 1..n - 1 : \E i \in DOMAIN log : log[i].migration = m

\* No migration from n on has run under the lock.
LockedBelow(n, log) == \A i \in DOMAIN log : log[i].locked => log[i].migration < n

LEMMA AppendLog ==
    ASSUME NEW log \in Seq(Version), NEW e \in Version
    PROVE  /\ Append(log, e) \in Seq(Version)
           /\ Len(log) \in Nat /\ DOMAIN log = 1..Len(log)
           /\ DOMAIN Append(log, e) = 1..Len(log) + 1
           /\ \A i \in 1..Len(log) : Append(log, e)[i] = log[i]
           /\ Append(log, e)[Len(log) + 1] = e
<1>1. /\ Append(log, e) \in Seq(Version) /\ Len(Append(log, e)) = Len(log) + 1
      /\ \A i \in 1..Len(log) : Append(log, e)[i] = log[i]
      /\ Append(log, e)[Len(log) + 1] = e
    BY AppendProperties
<1>2. QED BY <1>1, LenProperties

LEMMA BelowGrows ==
    ASSUME NEW log \in Seq(Version), NEW e \in Version, NEW n, Below(n, log)
    PROVE  Below(n, Append(log, e))
BY AppendLog DEF Below

LEMMA LockedBelowGrows ==
    ASSUME NEW log \in Seq(Version), NEW e \in Version, NEW n, LockedBelow(n, log),
           e.locked => e.migration < n
    PROVE  LockedBelow(n, Append(log, e))
<1>1. ASSUME NEW i \in 1..Len(log) + 1, Append(log, e)[i].locked
      PROVE  Append(log, e)[i].migration < n
    <2>1. CASE i = Len(log) + 1
        BY <1>1, <2>1, AppendLog
    <2>2. CASE i \in 1..Len(log)
        BY <1>1, <2>2, AppendLog DEF LockedBelow
    <2>3. QED BY <2>1, <2>2, AppendLog
<1>2. QED BY <1>1, AppendLog DEF LockedBelow

\* A migration runs after all before it and, if under the lock, not again.
LEMMA MigratedGrows ==
    ASSUME applied \in Seq(Version), MigratedUnderLock, NEW e \in Version,
           Below(e.migration, applied), e.locked => LockedBelow(e.migration, applied),
           applied' = Append(applied, e)
    PROVE  MigratedUnderLock'
<1> DEFINE last == Len(applied) + 1
<1>1. /\ Len(applied) \in Nat /\ DOMAIN applied = 1..Len(applied)
      /\ DOMAIN applied' = 1..last /\ applied'[last] = e
      /\ \A i \in 1..Len(applied) : applied'[i] = applied[i]
    BY AppendLog
<1>2. \A i \in 1..last : i = last \/ i \in 1..Len(applied)
    BY <1>1
<1>3. last - 1 = Len(applied) /\ \A i \in 1..Len(applied) : i \in 1..last /\ i - 1 \in Int
    BY <1>1
<1>4. ASSUME NEW i \in 1..last, NEW m \in 1..applied'[i].migration - 1
      PROVE  \E j \in 1..i - 1 : applied'[j].migration = m
    <2>1. CASE i = last
        <3>1. PICK j \in 1..Len(applied) : applied[j].migration = m
            BY <1>1, <1>4, <2>1 DEF Below
        <3>2. j \in 1..i - 1 /\ applied'[j].migration = m
            BY <1>1, <1>3, <2>1, <3>1
        <3>3. QED BY <3>2
    <2>2. CASE i \in 1..Len(applied)
        <3>1. m \in 1..applied[i].migration - 1
            BY <1>1, <1>4, <2>2
        <3>2. PICK j \in 1..i - 1 : applied[j].migration = m
            BY <1>1, <2>2, <3>1 DEF MigratedUnderLock
        <3>3. j \in 1..Len(applied)
            BY <1>1, <2>2, <3>2
        <3>4. QED BY <1>1, <3>2, <3>3
    <2>3. QED BY <1>2, <2>1, <2>2
<1>5. ASSUME NEW i \in 1..Len(applied), applied[i].migration = e.migration
      PROVE  ~applied[i].locked \/ ~e.locked
    <2>1. e.migration \in Nat
        BY OpeningAssumption DEF Version
    <2>2. QED BY <1>1, <1>5, <2>1 DEF LockedBelow
<1>6. ASSUME NEW i \in 1..last, NEW j \in 1..last, i # j,
             applied'[i].migration = applied'[j].migration
      PROVE  ~applied'[i].locked \/ ~applied'[j].locked
    <2>1. CASE i = last
        BY <1>1, <1>2, <1>5, <1>6, <2>1
    <2>2. CASE j = last
        BY <1>1, <1>2, <1>5, <1>6, <2>2
    <2>3. CASE i \in 1..Len(applied) /\ j \in 1..Len(applied)
        BY <1>1, <1>6, <2>3 DEF MigratedUnderLock
    <2>4. QED BY <1>2, <2>1, <2>2, <2>3
<1>7. QED BY <1>1, <1>4, <1>6 DEF MigratedUnderLock

\* A plan made from the whole log.
LEMMA PlanIsNext ==
    ASSUME applied \in Seq(Version), NEW n \in 1..Latest + 1, Ran = 1..n - 1
    PROVE  Below(n, applied) /\ LockedBelow(n, applied)
<1>1. n \in Nat /\ Latest \in Nat
    BY OpeningAssumption
<1>2. \A i \in DOMAIN applied : applied[i].migration \in 1..n - 1
    BY DEF Ran
<1>3. Below(n, applied)
    BY DEF Below, Ran
<1>4. QED BY <1>1, <1>2, <1>3 DEF LockedBelow

-----------------------------------------------------------------------------
(***************************************************************************)
(* What holds of each process that migrates.  Whoever has a plan, or a     *)
(* COMMIT on its way, and still holds the lock goes on exactly where the   *)
(* last run under the lock has ended.                                      *)
(***************************************************************************)
GoodUp(p, st, com, held, log) ==
    /\ com # 0 => st.pc \in {"commit", "unlock", "done", "failed"}
    /\ st.pc = "commit" => com = st.next
    /\ Below(st.next, log) /\ Below(com, log)
    /\ p \in held /\ st.pc = "migrate" => LockedBelow(st.next, log)
    /\ p \in held /\ com # 0 => LockedBelow(com, log)
    /\ st.ok => Latest < st.next /\ st.pc \in {"unlock", "done", "failed"}
    /\ p \notin SkipMigrate /\ st.pc = "done" => st.ok

OneHolder == \A p, q \in holders : p = q

UpInv ==
    /\ MigratedUnderLock
    /\ OneHolder
    /\ \A p \in Processes : GoodUp(p, up[p], commit[p], holders, applied)
    /\ \A p \in Processes : proc[p].pc # "closed" => up[p].pc = "done"

UpTypeOK ==
    /\ applied \in Seq(Version)
    /\ holders \subseteq Processes
    /\ commit \in [Processes -> 0..Latest]
    /\ up \in [Processes -> UpState]
    /\ busy \in [Processes -> 0..PoolSize]

OpenInv == RegistryInv /\ UpTypeOK /\ UpInv

\* What a step of p may do to the lock and to the log.
LockMoves(p) == holders' \subseteq holders \/ (holders = {} /\ holders' = {p})

LogMoves(p) ==
    \/ applied' = applied
    \/ \E e \in Version : applied' = Append(applied, e) /\ (e.locked => p \in holders)

\* One process moves on; the others keep what they rely on.
LEMMA UpMoves ==
    ASSUME UpTypeOK, UpInv, NEW p \in Processes, NEW st, NEW com,
           up' = [up EXCEPT ![p] = st], commit' = [commit EXCEPT ![p] = com],
           LockMoves(p), LogMoves(p), MigratedUnderLock',
           GoodUp(p, st, com, holders', applied'),
           \A q \in Processes \ {p} : proc'[q] = proc[q],
           proc'[p].pc # "closed" => st.pc = "done"
    PROVE  UpInv'
<1>1. /\ up'[p] = st /\ \A q \in Processes \ {p} : up'[q] = up[q]
      /\ commit'[p] = com /\ \A q \in Processes \ {p} : commit'[q] = commit[q]
    BY DEF UpTypeOK
<1>2. OneHolder'
    BY DEF OneHolder, UpInv, LockMoves
<1>3. ASSUME NEW q \in Processes, q # p
      PROVE  GoodUp(q, up[q], commit[q], holders', applied')
    <2>1. GoodUp(q, up[q], commit[q], holders, applied)
        BY DEF UpInv
    <2>2. q \in holders' => q \in holders /\ p \notin holders
        BY <1>3 DEF LockMoves, UpInv, OneHolder
    <2>3. CASE applied' = applied
        BY <2>1, <2>2, <2>3 DEF GoodUp
    <2>4. CASE \E e \in Version : applied' = Append(applied, e) /\ (e.locked => p \in holders)
        <3>1. PICK e \in Version : applied' = Append(applied, e) /\ (e.locked => p \in holders)
            BY <2>4
        <3>2. \A n : Below(n, applied) => Below(n, applied')
            BY <3>1, BelowGrows DEF UpTypeOK
        <3>3. q \in holders' => \A n : LockedBelow(n, applied) => LockedBelow(n, applied')
            BY <2>2, <3>1, LockedBelowGrows DEF UpTypeOK
        <3>4. QED BY <2>1, <2>2, <3>2, <3>3 DEF GoodUp
    <2>5. QED BY <2>3, <2>4 DEF LogMoves
<1>4. \A q \in Processes : GoodUp(q, up'[q], commit'[q], holders', applied')
    BY <1>1, <1>3
<1>5. \A q \in Processes : proc'[q].pc # "closed" => up'[q].pc = "done"
    BY <1>1 DEF UpInv
<1>6. QED BY <1>2, <1>4, <1>5 DEF UpInv

\* A step of migrate.Up leaves the registry alone.
LEMMA UpTouchesNoSpace ==
    ASSUME RegistryInv, UNCHANGED <<registry, tables, nextId, lock, proc, opens>>,
           faults' \in 0..MaxFaults
    PROVE  RegistryInv'
<1>1. SpaceInv'
    BY DEF RegistryInv, SpaceInv, NewApart, RowsApart
<1>2. TypeOK'
    BY DEF RegistryInv, TypeOK
<1>3. QED BY <1>1, <1>2 DEF RegistryInv

\* A process inside migrate.Up has not registered anything.
LEMMA UpIsClosed ==
    ASSUME UpInv, NEW p \in Processes, up[p].pc # "done"
    PROVE  proc[p].pc = "closed"
BY DEF UpInv

\* What a step of migrate.Up leaves alone.
OnlyUp ==
    /\ UNCHANGED <<registry, tables, nextId, lock, proc, opens>>
    /\ faults' \in 0..MaxFaults
    /\ busy' \in [Processes -> 0..PoolSize]

\* A step of migrate.Up in one process.
LEMMA UpStep ==
    ASSUME OpenInv, OnlyUp, NEW p \in Processes, up[p].pc # "done",
           NEW st \in UpState, NEW com \in 0..Latest,
           up' = [up EXCEPT ![p] = st], commit' = [commit EXCEPT ![p] = com],
           LockMoves(p), LogMoves(p), MigratedUnderLock', applied' \in Seq(Version),
           GoodUp(p, st, com, holders', applied')
    PROVE  OpenInv'
<1>1. proc[p].pc = "closed" /\ proc' = proc
    BY UpIsClosed DEF OpenInv, OnlyUp
<1>2. UpInv'
    BY <1>1, UpMoves DEF OpenInv
<1>3. holders' \subseteq Processes
    BY DEF OpenInv, UpTypeOK, LockMoves
<1>4. UpTypeOK'
    BY <1>3 DEF OpenInv, UpTypeOK, OnlyUp
<1>5. RegistryInv'
    BY UpTouchesNoSpace DEF OpenInv, OnlyUp
<1>6. QED BY <1>2, <1>4, <1>5 DEF OpenInv

LEMMA UpStateMoves ==
    ASSUME UpTypeOK, NEW p \in Processes,
           NEW pc \in {"none", "done", "failed"} \cup Migrating
    PROVE  /\ [up[p] EXCEPT !.pc = pc] \in UpState
           /\ [up[p] EXCEPT !.pc = pc].pc = pc
           /\ [up[p] EXCEPT !.pc = pc].next = up[p].next
           /\ [up[p] EXCEPT !.pc = pc].ok = up[p].ok
           /\ UpGoto(p, pc) => up' = [up EXCEPT ![p] = [up[p] EXCEPT !.pc = pc]]
<1>1. up \in [Processes -> UpState] /\ up[p] \in UpState
    BY DEF UpTypeOK
<1>2. QED BY <1>1 DEF UpState, UpGoto

LEMMA LogStays ==
    ASSUME OpenInv, NEW p \in Processes, UNCHANGED applied
    PROVE  MigratedUnderLock' /\ applied' \in Seq(Version) /\ LogMoves(p)
BY DEF OpenInv, UpInv, UpTypeOK, MigratedUnderLock, LogMoves

\* A step that goes on to pc and neither makes a plan nor applies anything.  It
\* may lose what the server has not committed.
LEMMA UpGoes ==
    ASSUME OpenInv, OnlyUp, NEW p \in Processes, up[p].pc # "done",
           NEW pc \in {"none", "done", "failed"} \cup Migrating, UpGoto(p, pc),
           pc \notin {"migrate", "commit"},
           UNCHANGED commit \/ commit' = [commit EXCEPT ![p] = 0],
           commit[p] # 0 => pc \in {"unlock", "done", "failed"},
           up[p].ok => pc \in {"unlock", "done", "failed"},
           p \notin SkipMigrate /\ pc = "done" => up[p].ok,
           LockMoves(p), p \in holders' => p \in holders \/ commit[p] = 0,
           UNCHANGED applied
    PROVE  OpenInv'
<1> DEFINE st == [up[p] EXCEPT !.pc = pc]
<1>1. /\ st \in UpState /\ st.pc = pc /\ st.next = up[p].next /\ st.ok = up[p].ok
      /\ up' = [up EXCEPT ![p] = st]
    BY UpStateMoves DEF OpenInv
<1> HIDE DEF st
<1>2. commit \in [Processes -> 0..Latest] /\ 0 \in 0..Latest
    BY OpeningAssumption DEF OpenInv, UpTypeOK
<1>3. PICK com \in 0..Latest : commit' = [commit EXCEPT ![p] = com] /\ com \in {0, commit[p]}
    <2>1. CASE UNCHANGED commit
        <3>1. commit' = [commit EXCEPT ![p] = commit[p]]
            BY <1>2, <2>1
        <3>2. QED BY <1>2, <3>1
    <2>2. QED BY <1>2, <2>1
<1>4. GoodUp(p, up[p], commit[p], holders, applied)
    BY DEF OpenInv, UpInv
<1>5. Below(com, applied)
    BY <1>3, <1>4 DEF GoodUp, Below
<1>6. GoodUp(p, st, com, holders', applied')
    BY <1>1, <1>3, <1>4, <1>5 DEF GoodUp
<1>7. QED BY <1>1, <1>3, <1>6, LogStays, UpStep

LEMMA PoolKeeps ==
    ASSUME OpenInv, NEW p \in Processes,
           Acquire(p) \/ busy' = [busy EXCEPT ![p] = 0] \/ UNCHANGED busy
    PROVE  busy' \in [Processes -> 0..PoolSize]
<1>1. /\ busy \in [Processes -> 0..PoolSize]
      /\ 0 \in 0..PoolSize
      /\ busy[p] < PoolSize => busy[p] + 1 \in 0..PoolSize
    BY OpeningAssumption DEF OpenInv, UpTypeOK
<1>2. QED BY <1>1 DEF Acquire

LEMMA OnlyUpStep ==
    ASSUME OpenInv, NEW p \in Processes, UNCHANGED vars,
           Acquire(p) \/ busy' = [busy EXCEPT ![p] = 0] \/ UNCHANGED busy
    PROVE  OnlyUp
<1>1. faults' \in 0..MaxFaults
    BY DEF OpenInv, RegistryInv, TypeOK, vars
<1>2. QED BY <1>1, PoolKeeps DEF OnlyUp, vars

LEMMA OnlyUpFault ==
    ASSUME OpenInv, NEW p \in Processes, Faulty,
           busy' = [busy EXCEPT ![p] = 0] \/ UNCHANGED busy
    PROVE  OnlyUp
<1>1. faults' \in 0..MaxFaults
    BY SpacesAssumption DEF OpenInv, RegistryInv, TypeOK, Faulty
<1>2. QED BY <1>1, PoolKeeps DEF OnlyUp, Faulty

\* The steps of migrate.Up before and after goose.
LEMMA UpStepKeeps ==
    ASSUME OpenInv, NEW p \in Processes,
           StartOpen(p) \/ AcquireConn(p) \/ TakeLock(p) \/ UpReturns(p)
    PROVE  OpenInv'
<1>0. /\ UNCHANGED <<vars, applied, commit>>
      /\ Acquire(p) \/ busy' = [busy EXCEPT ![p] = 0] \/ UNCHANGED busy
    BY DEF StartOpen, AcquireConn, TakeLock, UpReturns
<1>1. OnlyUp
    BY <1>0, OnlyUpStep
<1>2. GoodUp(p, up[p], commit[p], holders, applied)
    BY DEF OpenInv, UpInv
<1>3. CASE StartOpen(p)
    <2>1. up[p].pc = "none" /\ LockMoves(p) /\ UNCHANGED holders
        BY <1>3 DEF StartOpen, LockMoves
    <2>2. CASE p \in SkipMigrate
        BY <1>0, <1>1, <1>2, <1>3, <2>1, <2>2, UpGoes DEF StartOpen, GoodUp
    <2>3. CASE p \notin SkipMigrate
        <3>1. UpGoto(p, "acquire") /\ "acquire" \in Migrating
            BY <1>3, <2>3 DEF StartOpen, Migrating
        <3>2. QED BY <1>0, <1>1, <1>2, <2>1, <3>1, UpGoes DEF GoodUp
    <2>4. QED BY <2>2, <2>3
<1>4. CASE AcquireConn(p)
    <2>1. /\ UpGoto(p, "lock") /\ up[p].pc = "acquire" /\ "lock" \in Migrating
          /\ LockMoves(p) /\ UNCHANGED holders
        BY <1>4 DEF AcquireConn, Migrating, LockMoves
    <2>2. QED BY <1>0, <1>1, <1>2, <2>1, UpGoes DEF GoodUp
<1>5. CASE TakeLock(p)
    <2>1. /\ UpGoto(p, "borrow") /\ up[p].pc = "lock" /\ "borrow" \in Migrating
          /\ LockMoves(p)
        BY <1>5 DEF TakeLock, LockFree, Migrating, UnderLock, LockMoves
    <2>2. QED BY <1>0, <1>1, <1>2, <2>1, UpGoes DEF GoodUp
<1>6. CASE UpReturns(p)
    <2>1. /\ UpGoto(p, UpOutcome(p)) /\ up[p].pc = "unlock"
          /\ holders' \subseteq holders /\ LockMoves(p)
        BY <1>6 DEF UpReturns, LockGivenBack, LockMoves
    <2>2. CASE up[p].ok
        BY <1>0, <1>1, <2>1, <2>2, UpGoes DEF UpOutcome
    <2>3. CASE ~up[p].ok
        BY <1>0, <1>1, <2>1, <2>3, UpGoes DEF UpOutcome
    <2>4. QED BY <2>2, <2>3
<1>7. QED BY <1>3, <1>4, <1>5, <1>6

\* goose makes its plan, and goes on while the plan has a migration left.
LEMMA PlanKeeps ==
    ASSUME OpenInv, NEW p \in Processes, BorrowConn(p) \/ SendCommit(p) \/ NothingPending(p)
    PROVE  OpenInv'
<1>0. /\ UNCHANGED <<vars, applied, holders>> /\ LockMoves(p)
      /\ Acquire(p) \/ UNCHANGED busy
      /\ up \in [Processes -> UpState] /\ up[p] \in UpState
      /\ commit \in [Processes -> 0..Latest] /\ Latest \in Nat
    BY OpeningAssumption
       DEF OpenInv, UpTypeOK, BorrowConn, SendCommit, NothingPending, LockMoves
<1>1. OnlyUp /\ MigratedUnderLock' /\ applied' \in Seq(Version) /\ LogMoves(p)
    BY <1>0, OnlyUpStep, LogStays
<1>2. GoodUp(p, up[p], commit[p], holders, applied)
    BY DEF OpenInv, UpInv
<1>3. CASE BorrowConn(p)
    <2>1. PICK n \in 1..Latest + 1 :
              Ran = 1..n - 1 /\ up' = [up EXCEPT ![p].pc = "migrate", ![p].next = n]
        BY <1>3 DEF BorrowConn
    <2> DEFINE st == [up[p] EXCEPT !.pc = "migrate", !.next = n]
    <2>2. up' = [up EXCEPT ![p] = st] /\ up[p].pc = "borrow" /\ UNCHANGED commit
        BY <1>0, <1>3, <2>1 DEF BorrowConn
    <2>3. st.pc = "migrate" /\ st.next = n /\ st.ok = up[p].ok
        BY <1>0 DEF UpState
    <2>4. st \in UpState
        BY <1>0 DEF UpState, Migrating, UnderLock
    <2> HIDE DEF st
    <2>5. commit[p] = 0 /\ ~up[p].ok
        BY <1>2, <2>2 DEF GoodUp
    <2>6. Below(n, applied) /\ LockedBelow(n, applied)
        BY <2>1, PlanIsNext DEF OpenInv, UpTypeOK
    <2>7. GoodUp(p, st, 0, holders', applied')
        BY <1>0, <1>2, <2>3, <2>5, <2>6 DEF GoodUp
    <2>8. commit' = [commit EXCEPT ![p] = 0] /\ 0 \in 0..Latest
        BY <1>0, <2>2, <2>5
    <2>9. QED BY <1>0, <1>1, <2>2, <2>4, <2>7, <2>8, UpStep
<1>4. CASE SendCommit(p)
    <2> DEFINE next == up[p].next
               st == [up[p] EXCEPT !.pc = "commit"]
    <2>1. "commit" \in Migrating
        BY DEF Migrating, UnderLock
    <2>2. /\ st \in UpState /\ st.pc = "commit" /\ st.next = next /\ st.ok = up[p].ok
          /\ up' = [up EXCEPT ![p] = st]
        BY <1>4, <2>1, UpStateMoves DEF SendCommit, OpenInv
    <2>3. /\ up[p].pc = "migrate" /\ next \in 1..Latest
          /\ commit' = [commit EXCEPT ![p] = next]
        BY <1>0, <1>4 DEF SendCommit, UpState
    <2> HIDE DEF st, next
    <2>4. GoodUp(p, st, next, holders', applied')
        BY <1>0, <1>2, <2>2, <2>3 DEF GoodUp, next
    <2>5. next \in 0..Latest
        BY <1>0, <2>3
    <2>6. QED BY <1>0, <1>1, <2>2, <2>3, <2>4, <2>5, UpStep
<1>5. CASE NothingPending(p)
    <2> DEFINE st == [up[p] EXCEPT !.pc = "unlock", !.ok = TRUE]
    <2>1. /\ up' = [up EXCEPT ![p] = st] /\ up[p].pc = "migrate" /\ Latest < up[p].next
          /\ UNCHANGED commit
        BY <1>0, <1>5 DEF NothingPending, UpState
    <2>2. st.pc = "unlock" /\ st.next = up[p].next /\ st.ok = TRUE
        BY <1>0 DEF UpState
    <2>3. st \in UpState
        BY <1>0 DEF UpState, Migrating, UnderLock
    <2> HIDE DEF st
    <2>4. commit[p] = 0
        BY <1>2, <2>1 DEF GoodUp
    <2>5. GoodUp(p, st, 0, holders', applied')
        BY <1>0, <1>2, <2>1, <2>2, <2>4 DEF GoodUp
    <2>6. commit' = [commit EXCEPT ![p] = 0] /\ 0 \in 0..Latest
        BY <1>0, <2>1, <2>4
    <2>7. QED BY <1>0, <1>1, <2>1, <2>3, <2>5, <2>6, UpStep
<1>6. QED BY <1>3, <1>4, <1>5

\* A COMMIT lands, whether its process still waits for it or not.
LEMMA CommitLandsKeeps ==
    ASSUME OpenInv, NEW p \in Processes, CommitLands(p)
    PROVE  OpenInv'
<1> DEFINE m == commit[p]
           e == [migration |-> m, locked |-> p \in holders]
<1>0. /\ m # 0 /\ applied' = Append(applied, e) /\ commit' = [commit EXCEPT ![p] = 0]
      /\ UNCHANGED <<vars, holders, busy>> /\ LockMoves(p)
      /\ up \in [Processes -> UpState] /\ up[p] \in UpState
      /\ commit \in [Processes -> 0..Latest] /\ Latest \in Nat /\ applied \in Seq(Version)
    BY OpeningAssumption DEF OpenInv, UpTypeOK, CommitLands, LockMoves
<1>1. m \in 1..Latest /\ 0 \in 0..Latest
    BY <1>0
<1>2. GoodUp(p, up[p], m, holders, applied)
    BY DEF OpenInv, UpInv
<1> HIDE DEF m
<1>3. PICK held \in BOOLEAN : held <=> p \in holders
    OBVIOUS
<1>4. e = [migration |-> m, locked |-> held]
    BY <1>3
<1>5. e \in Version /\ e.migration = m /\ (e.locked <=> held)
    BY <1>1, <1>4 DEF Version
<1> HIDE DEF e
<1>6. Below(m, applied) /\ (e.locked => LockedBelow(m, applied))
    BY <1>0, <1>2, <1>3, <1>5 DEF GoodUp
<1>7. MigratedUnderLock'
    BY <1>0, <1>5, <1>6, MigratedGrows DEF OpenInv, UpInv
<1>8. LogMoves(p) /\ applied' \in Seq(Version)
    BY <1>0, <1>3, <1>5, AppendLog DEF LogMoves
<1>9. \A n : Below(n, applied) => Below(n, applied')
    BY <1>0, <1>5, BelowGrows
<1>10. OnlyUp /\ holders' = holders
    BY <1>0, OnlyUpStep
<1>11. Below(0, applied')
    BY DEF Below
<1>12. up[p].pc # "done" \/ OpenInv'
    <2>1. ASSUME up[p].pc = "done" PROVE OpenInv'
        <3>1. GoodUp(p, up[p], 0, holders', applied')
            BY <1>2, <1>9, <1>10, <1>11, <2>1 DEF GoodUp
        <3>2. up' = [up EXCEPT ![p] = up[p]] /\ proc' = proc
            BY <1>0, <2>1 DEF CommitLands, vars
        <3>3. UpInv'
            BY <1>0, <1>7, <1>8, <2>1, <3>1, <3>2, UpMoves DEF OpenInv
        <3>4. UpTypeOK'
            BY <1>0, <1>1, <1>8, <3>2 DEF OpenInv, UpTypeOK
        <3>5. RegistryInv'
            BY <1>10, UpTouchesNoSpace DEF OpenInv, OnlyUp
        <3>6. QED BY <3>3, <3>4, <3>5 DEF OpenInv
    <2>2. QED BY <2>1
<1>13. CASE up[p].pc # "done" /\ up[p].pc # "commit"
    <2>1. up' = [up EXCEPT ![p] = up[p]] /\ up[p].pc # "migrate"
        BY <1>0, <1>2, <1>13 DEF CommitLands, GoodUp
    <2>2. GoodUp(p, up[p], 0, holders', applied')
        BY <1>2, <1>9, <1>10, <1>11, <1>13, <2>1 DEF GoodUp
    <2>3. QED BY <1>0, <1>1, <1>7, <1>8, <1>10, <1>13, <2>1, <2>2, UpStep
<1>14. CASE up[p].pc = "commit"
    <2> DEFINE next == m + 1
               st == [up[p] EXCEPT !.pc = "migrate", !.next = next]
    <2>1. up[p].next = m /\ ~up[p].ok
        BY <1>2, <1>14 DEF GoodUp
    <2>2. up' = [up EXCEPT ![p] = st]
        <3>1. up' = [up EXCEPT ![p].pc = "migrate", ![p].next = @ + 1]
            BY <1>14 DEF CommitLands
        <3>2. QED BY <1>0, <2>1, <3>1
    <2>3. next \in 1..Latest + 1
        BY <1>0, <1>1
    <2>4. Below(next, applied')
        <3>1. /\ Len(applied) \in Nat /\ DOMAIN applied' = 1..Len(applied) + 1
              /\ applied'[Len(applied) + 1] = e
            BY <1>0, <1>5, AppendLog
        <3>2. Len(applied) + 1 \in DOMAIN applied' /\ applied'[Len(applied) + 1].migration = m
            BY <1>5, <3>1
        <3>3. \A k \in 1..next - 1 : k \in 1..m - 1 \/ k = m
            BY <1>1
        <3>4. Below(m, applied')
            BY <1>6, <1>9
        <3>5. QED BY <3>2, <3>3, <3>4 DEF Below
    <2>5. p \in holders' => LockedBelow(next, applied')
        <3>1. ASSUME p \in holders PROVE LockedBelow(next, applied)
            <4>1. LockedBelow(m, applied)
                BY <1>0, <1>2, <3>1 DEF GoodUp
            <4>2. \A i \in DOMAIN applied : applied[i].migration \in Nat
                <5>1. \A i \in DOMAIN applied : applied[i] \in Version
                    BY <1>0, ElementOfSeq, LenProperties
                <5>2. \A v \in Version : v.migration \in Nat
                    BY OpeningAssumption DEF Version
                <5>3. QED BY <5>1, <5>2
            <4>3. QED BY <1>1, <4>1, <4>2 DEF LockedBelow
        <3>2. m < next
            BY <1>1
        <3> HIDE DEF next
        <3>3. ASSUME p \in holders PROVE LockedBelow(next, applied')
            BY <1>0, <1>5, <3>1, <3>2, <3>3, LockedBelowGrows
        <3>4. QED BY <1>10, <3>3
    <2> HIDE DEF next
    <2>6. st.pc = "migrate" /\ st.next = next /\ st.ok = up[p].ok
        BY <1>0 DEF UpState
    <2>7. st \in UpState
        BY <1>0, <2>3 DEF UpState, Migrating, UnderLock
    <2> HIDE DEF st
    <2>8. GoodUp(p, st, 0, holders', applied')
        BY <1>11, <2>1, <2>4, <2>5, <2>6 DEF GoodUp
    <2>9. QED BY <1>0, <1>1, <1>7, <1>8, <1>10, <1>14, <2>2, <2>7, <2>8, UpStep
<1>15. QED BY <1>12, <1>13, <1>14

\* What goes wrong in migrate.Up, and what the server makes of it.
LEMMA UpFaultKeeps ==
    ASSUME OpenInv, NEW p \in Processes,
           MigrationFails(p) \/ LockLost(p) \/ UpAborts(p) \/ SessionEnds(p)
    PROVE  OpenInv'
<1>0. /\ UNCHANGED applied
      /\ up \in [Processes -> UpState] /\ up[p] \in UpState
      /\ commit \in [Processes -> 0..Latest] /\ commit[p] \in 0..Latest
    BY DEF OpenInv, UpTypeOK, MigrationFails, LockLost, UpAborts, SessionEnds
<1>1. GoodUp(p, up[p], commit[p], holders, applied)
    BY DEF OpenInv, UpInv
<1>2. CASE MigrationFails(p)
    <2>1. /\ OnlyUp /\ UpGoto(p, "unlock") /\ up[p].pc # "done" /\ "unlock" \in Migrating
          /\ LockMoves(p) /\ UNCHANGED holders
        BY <1>2, OnlyUpFault DEF MigrationFails, Migrating, UnderLock, LockMoves
    <2>2. UNCHANGED commit \/ commit' = [commit EXCEPT ![p] = 0]
        BY <1>2 DEF MigrationFails, ConnectionLost
    <2>3. QED BY <1>0, <2>1, <2>2, UpGoes
<1>3. CASE UpAborts(p)
    <2>1. OnlyUp /\ UpGoto(p, "failed") /\ up[p].pc # "done"
        BY <1>3, OnlyUpFault DEF UpAborts, Migrating, UnderLock
    <2>2. /\ UNCHANGED commit \/ commit' = [commit EXCEPT ![p] = 0]
          /\ UNCHANGED holders
             \/ (up[p].pc = "lock" /\ holders = {} /\ holders' = holders \cup {p})
        BY <1>3 DEF UpAborts, ConnectionLost, LockFree
    <2>3. LockMoves(p) /\ (p \in holders' => p \in holders \/ commit[p] = 0)
        BY <1>1, <2>2 DEF LockMoves, GoodUp
    <2>4. QED BY <1>0, <2>1, <2>2, <2>3, UpGoes
<1>4. CASE LockLost(p) \/ SessionEnds(p)
    <2>1. /\ holders' = holders \ {p} /\ LockMoves(p)
          /\ UNCHANGED <<commit, up, busy>> /\ up[p].pc # "done"
        BY <1>4 DEF LockLost, SessionEnds, UnderLock, LockMoves
    <2>2. OnlyUp
        BY <1>4, OnlyUpFault, OnlyUpStep DEF LockLost, SessionEnds
    <2>3. up' = [up EXCEPT ![p] = up[p]] /\ commit' = [commit EXCEPT ![p] = commit[p]]
        BY <1>0, <2>1
    <2>4. GoodUp(p, up[p], commit[p], holders', applied')
        BY <1>0, <1>1, <2>1 DEF GoodUp
    <2>5. QED BY <1>0, <2>1, <2>2, <2>3, <2>4, LogStays, UpStep
<1>5. QED BY <1>2, <1>3, <1>4

-----------------------------------------------------------------------------
(***************************************************************************)
(* Open as a whole.                                                        *)
(***************************************************************************)

\* A step of one process's registration, which nobody's migration notices.
LEMMA SpaceStepKeeps ==
    ASSUME OpenInv, NEW p \in Processes, RegistryInv', UNCHANGED upVars,
           up[p].pc = "done", \A q \in Processes \ {p} : proc'[q] = proc[q]
    PROVE  OpenInv'
<1>1. UpTypeOK'
    BY DEF OpenInv, UpTypeOK, upVars
<1>2. UpInv'
    BY DEF OpenInv, UpInv, OneHolder, MigratedUnderLock, upVars
<1>3. QED BY <1>1, <1>2 DEF OpenInv

LEMMA OtherProcessesStay ==
    ASSUME OpenInv, NEW p \in Processes,
           Open(p) \/ EnsureSpace(p) \/ Fault(p) \/ Close(p) \/ Fail(p, "schema"),
           NEW q \in Processes \ {p}
    PROVE  proc'[q] = proc[q]
<1>0. proc \in [Processes -> Process]
    BY DEF OpenInv, RegistryInv, TypeOK
<1>1. \E st : proc' = [proc EXCEPT ![p] = st]
    <2>1. CASE Open(p)
        BY <2>1 DEF Open
    <2>2. CASE Close(p)
        BY <2>2 DEF Close
    <2>3. CASE Fault(p) \/ Fail(p, "schema")
        BY <2>3 DEF Fault, Fail
    <2>4. CASE Lock(p)
        <3>1. proc' = [proc EXCEPT ![p] = [proc[p] EXCEPT !.pc = "register"]]
            BY <1>0, <2>4 DEF Lock
        <3>2. QED BY <3>1
    <2>5. CASE Register(p)
        <3>1. CASE Fail(p, "exhausted") \/ Fail(p, "collision")
            BY <3>1 DEF Fail
        <3>2. CASE \E new : proc' = [proc EXCEPT ![p].pc = "create",
                                        ![p].ref = Returned(p), ![p].new = new]
            <4>1. PICK new : proc' = [proc EXCEPT ![p].pc = "create",
                                        ![p].ref = Returned(p), ![p].new = new]
                BY <3>2
            <4>2. proc' = [proc EXCEPT ![p] = [proc[p] EXCEPT !.pc = "create",
                                        !.ref = Returned(p), !.new = new]]
                BY <1>0, <4>1
            <4>3. QED BY <4>2
        <3>3. QED BY <2>5, <3>1, <3>2 DEF Register
    <2>6. CASE CreateTable(p)
        <3>1. PICK made : proc' = [proc EXCEPT ![p].pc = "commit", ![p].made = made]
            BY <2>6 DEF CreateTable
        <3>2. proc' = [proc EXCEPT ![p] = [proc[p] EXCEPT !.pc = "commit", !.made = made]]
            BY <1>0, <3>1
        <3>3. QED BY <3>2
    <2>7. CASE Commit(p)
        <3>1. proc' = [proc EXCEPT ![p] = [proc[p] EXCEPT !.pc = "open", !.new = FALSE,
                                                          !.made = {}]]
            BY <1>0, <2>7 DEF Commit
        <3>2. QED BY <3>1
    <2>8. QED BY <2>1, <2>2, <2>3, <2>4, <2>5, <2>6, <2>7 DEF EnsureSpace
<1>2. QED BY <1>0, <1>1

LEMMA RegistrationKeeps ==
    ASSUME OpenInv, NEW p \in Processes,
           \/ RegisterSpace(p) \/ RegisterFails(p) \/ EnsureSpaceStep(p) \/ SpaceFault(p)
    PROVE  OpenInv'
<1>0. /\ RegistryInv /\ UNCHANGED upVars
      /\ faults \in 0..MaxFaults /\ nextId \in 1..MaxId + 1
    BY DEF OpenInv, RegistryInv, TypeOK, RegisterSpace, RegisterFails, EnsureSpaceStep,
           SpaceFault, upVars
<1>1. Open(p) \/ EnsureSpace(p) \/ Fault(p) \/ Fail(p, "schema")
    BY DEF RegisterSpace, RegisterFails, EnsureSpaceStep, SpaceFault
<1>2. RegistryInv'
    <2>1. CASE RegisterSpace(p)
        BY <1>0, <2>1, OpenStepKeeps DEF RegisterSpace
    <2>2. CASE RegisterFails(p)
        BY <1>0, <2>2, FailStepKeeps DEF RegisterFails
    <2>3. CASE EnsureSpaceStep(p)
        BY <1>0, <2>3, LockStepKeeps, RegisterStepKeeps, CreateStepKeeps, CommitStepKeeps
           DEF EnsureSpaceStep, EnsureSpace
    <2>4. CASE SpaceFault(p)
        BY <1>0, <2>4, FaultStepKeeps DEF SpaceFault
    <2>5. QED BY <2>1, <2>2, <2>3, <2>4
<1>3. up[p].pc = "done"
    <2>1. CASE RegisterSpace(p)
        BY <2>1 DEF RegisterSpace
    <2>2. CASE RegisterFails(p) \/ EnsureSpaceStep(p) \/ SpaceFault(p)
        <3>1. proc[p].pc # "closed"
            BY <2>2 DEF RegisterFails, EnsureSpaceStep, EnsureSpace, SpaceFault, Lock,
                        Register, CreateTable, Commit, Fault, InTransaction
        <3>2. QED BY <3>1 DEF OpenInv, UpInv
    <2>3. QED BY <2>1, <2>2
<1>4. \A q \in Processes \ {p} : proc'[q] = proc[q]
    BY <1>1, OtherProcessesStay
<1>5. QED BY <1>0, <1>2, <1>3, <1>4, SpaceStepKeeps

LEMMA EndKeeps ==
    ASSUME OpenInv, NEW p \in Processes, End(p)
    PROVE  OpenInv'
<1>0. /\ up' = [up EXCEPT ![p] = NotUp] /\ UNCHANGED <<applied, holders, commit, busy>>
      /\ Close(p) \/ (up[p].pc = "failed" /\ UNCHANGED vars)
      /\ commit[p] = 0 /\ p \notin holders
    BY DEF End
<1>1. NotUp.pc = "none" /\ NotUp.next = 1 /\ NotUp.ok = FALSE /\ NotUp \in UpState
    BY OpeningAssumption DEF NotUp, UpState
<1>2. proc \in [Processes -> Process] /\ commit \in [Processes -> 0..Latest]
    BY DEF OpenInv, RegistryInv, TypeOK, UpTypeOK
<1>3. proc'[p].pc = "closed"
    <2>1. CASE Close(p)
        BY <1>2, <2>1 DEF Close, Closed
    <2>2. CASE up[p].pc = "failed" /\ UNCHANGED vars
        BY <2>2, UpIsClosed DEF OpenInv, vars
    <2>3. QED BY <1>0, <2>1, <2>2
<1>4. \A q \in Processes \ {p} : proc'[q] = proc[q]
    BY <1>0, OtherProcessesStay DEF vars
<1>5. RegistryInv'
    <2>1. CASE Close(p)
        BY <2>1, CloseStepKeeps DEF OpenInv
    <2>2. CASE UNCHANGED vars
        BY <2>2 DEF OpenInv, RegistryInv, TypeOK, SpaceInv, NewApart, RowsApart, vars
    <2>3. QED BY <1>0, <2>1, <2>2
<1>6. Below(1, applied') /\ Below(0, applied')
    BY DEF Below
<1>7. GoodUp(p, NotUp, 0, holders', applied')
    BY <1>0, <1>1, <1>6 DEF GoodUp
<1>8. commit' = [commit EXCEPT ![p] = 0] /\ LockMoves(p)
    BY <1>0, <1>2 DEF LockMoves
<1>9. UpInv'
    BY <1>0, <1>3, <1>4, <1>7, <1>8, LogStays, UpMoves DEF OpenInv
<1>10. UpTypeOK'
    BY <1>0, <1>1 DEF OpenInv, UpTypeOK
<1>11. QED BY <1>5, <1>9, <1>10 DEF OpenInv

LEMMA OpenInvStep ==
    ASSUME OpenInv, [OpenNext]_openVars
    PROVE  OpenInv'
<1>1. CASE OpenNext
    <2>1. PICK p \in Processes :
              StartOpen(p) \/ OpenStep(p) \/ ServerStep(p) \/ OpenFault(p) \/ End(p)
        BY <1>1 DEF OpenNext
    <2>2. CASE StartOpen(p) \/ AcquireConn(p) \/ TakeLock(p) \/ UpReturns(p)
        BY <2>2, UpStepKeeps
    <2>3. CASE BorrowConn(p) \/ SendCommit(p) \/ NothingPending(p)
        BY <2>3, PlanKeeps
    <2>4. CASE CommitLands(p)
        BY <2>4, CommitLandsKeeps
    <2>5. CASE MigrationFails(p) \/ LockLost(p) \/ UpAborts(p) \/ SessionEnds(p)
        BY <2>5, UpFaultKeeps
    <2>6. CASE RegisterSpace(p) \/ RegisterFails(p) \/ EnsureSpaceStep(p) \/ SpaceFault(p)
        BY <2>6, RegistrationKeeps
    <2>7. CASE End(p)
        BY <2>7, EndKeeps
    <2>8. QED BY <2>1, <2>2, <2>3, <2>4, <2>5, <2>6, <2>7 DEF OpenStep, ServerStep, OpenFault
<1>2. CASE UNCHANGED openVars
    BY <1>2 DEF OpenInv, RegistryInv, TypeOK, SpaceInv, NewApart, RowsApart, UpTypeOK,
                UpInv, OneHolder, MigratedUnderLock, openVars, vars, upVars
<1>3. QED BY <1>1, <1>2

LEMMA OpenInvInit == OpenInit => OpenInv
<1> SUFFICES ASSUME OpenInit PROVE OpenInv
    OBVIOUS
<1>1. TypeOK
    BY ClosedIsProcess, SpacesAssumption DEF OpenInit, Init, TypeOK
<1>2. /\ \A p \in Processes : proc[p] = Closed /\ up[p] = NotUp /\ commit[p] = 0
      /\ applied = <<>> /\ holders = {}
    BY DEF OpenInit, Init
<1>3. /\ Closed.pc = "closed" /\ Closed.new = FALSE /\ Closed.made = {}
      /\ NotUp.pc = "none" /\ NotUp.next = 1 /\ NotUp.ok = FALSE /\ NotUp \in UpState
    BY OpeningAssumption DEF Closed, NotUp, UpState
<1>4. SpaceInv
    BY <1>2, <1>3 DEF SpaceInv, GoodProcess, HoldsRow, NewApart, RowsApart, OpenInit, Init
<1>5. UpTypeOK
    BY <1>3, OpeningAssumption DEF OpenInit, UpTypeOK
<1>6. Below(1, applied) /\ Below(0, applied)
    BY DEF Below
<1>7. UpInv
    BY <1>2, <1>3, <1>6 DEF UpInv, OneHolder, GoodUp, MigratedUnderLock
<1>8. QED BY <1>1, <1>4, <1>5, <1>7 DEF OpenInv, RegistryInv

LEMMA OpenInvariant == OpenSpec => []OpenInv
<1>1. OpenInit => OpenInv
    BY OpenInvInit
<1>2. OpenInv /\ [OpenNext]_openVars => OpenInv'
    BY OpenInvStep
<1>3. QED BY <1>1, <1>2, PTL DEF OpenSpec

-----------------------------------------------------------------------------
\* Every variable keeps its type: no pool lends more connections than it has, and
\* what has run is a sequence of the embedded migrations.
THEOREM TypeCorrect == OpenSpec => []OpenTypeOK
<1>1. OpenInv => OpenTypeOK
    BY DEF OpenInv, RegistryInv, UpTypeOK, OpenTypeOK
<1>2. QED BY <1>1, OpenInvariant, PTL

\* However many processes boot on one database, and whoever dies, is cancelled or
\* loses the lock on the way: no migration runs before an earlier one, and of two
\* runs of one migration at least one took effect when its process had lost the lock.
THEOREM LockCoversMigrations == OpenSpec => []MigratedUnderLock
<1>1. OpenInv => MigratedUnderLock
    BY DEF OpenInv, UpInv
<1>2. QED BY <1>1, OpenInvariant, PTL

\* A process that migrates, and has got as far as its space, finds its schema.
THEOREM SchemaComesFirst == OpenSpec => []SchemaTravelsWithBuild
<1>1. OpenInv => SchemaTravelsWithBuild
    <2> SUFFICES ASSUME OpenInv, NEW p \in Processes \ SkipMigrate, proc[p].pc # "closed"
                 PROVE  SchemaReady
        BY DEF SchemaTravelsWithBuild
    <2>1. GoodUp(p, up[p], commit[p], holders, applied) /\ up[p].pc = "done"
        BY DEF OpenInv, UpInv
    <2>2. Below(up[p].next, applied) /\ Latest < up[p].next
        BY <2>1 DEF GoodUp
    <2>3. up[p].next \in Nat /\ Latest \in Nat
        BY OpeningAssumption DEF OpenInv, UpTypeOK, UpState
    <2>4. \A m \in 1..Latest : \E i \in DOMAIN applied : applied[i].migration = m
        BY <2>2, <2>3 DEF Below
    <2>5. QED BY <2>4 DEF SchemaReady, Ran
<1>2. QED BY <1>1, OpenInvariant, PTL

\* Two spaces never share a table, whatever their slugs and lock keys, and a
\* process that has opened its space holds the row and the table of that space.
THEOREM SpacesNeverShare == OpenSpec => []SpacesApart
<1>1. OpenInv => SpacesApart
    BY SpaceInvApart DEF OpenInv, RegistryInv
<1>2. QED BY <1>1, OpenInvariant, PTL
=============================================================================
