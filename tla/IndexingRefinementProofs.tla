---------------------- MODULE IndexingRefinementProofs ----------------------
(***************************************************************************)
(* Indexing implements SearchIndex: for any number of indexers, files and  *)
(* spaces, whatever the passes interleave, every step is to a searcher one *)
(* whole change of the index or none.                                      *)
(*                                                                         *)
(* Three invariants carry it: RowsInv (a new row's id has no vector yet),  *)
(* ChunksMatchNote (a vector's passage is one of the stored content) and   *)
(* RowLocks (a note is only rewritten with another content).               *)
(*                                                                         *)
(* The second half proves what a pass that ends well promises its caller.  *)
(***************************************************************************)
EXTENDS IndexingProofs

-----------------------------------------------------------------------------
(***************************************************************************)
(* RowLocks.                                                               *)
(***************************************************************************)

\* The next note of a pass is one note.
LEMMA NextNoteIsOne ==
    ASSUME TypeInv, NEW p \in Indexers, QueuedOnce(p),
           NEW n \in pass[p].todo, NEW m \in pass[p].todo,
           IsNextNote(p, n), IsNextNote(p, m)
    PROVE  n = m
<1>1. n.path \in Nat /\ m.path \in Nat
    BY NextNoteType, ConfigAssumption
<1>2. n.path <= m.path /\ m.path <= n.path
    BY DEF IsNextNote, IsFirst
<1>3. n.path = m.path
    BY <1>1, <1>2
<1>4. QED BY <1>3 DEF QueuedOnce

\* A pass that queues nothing new still has each path queued once.
LEMMA QueueShrinks ==
    ASSUME NEW p \in Indexers, QueuedOnce(p),
           pass'[p].todo \subseteq pass[p].todo,
           pass'[p].walk \subseteq pass[p].walk
    PROVE  QueuedOnce(p)'
BY DEF QueuedOnce

LEMMA EndPassEmpties ==
    ASSUME TypeInv, NEW p \in Indexers, NEW outcome, NEW failed,
           EndPass(p, outcome, failed)
    PROVE  /\ pass'[p].todo = {} /\ pass'[p].walk = {}
           /\ pass'[p].pc = outcome
<1>1. pass'[p] = Over(outcome, failed, pass[p].settled)
    BY DEF EndPass, TypeInv, TypeOK
<1>2. QED BY <1>1 DEF Over

LEMMA NoteDoneDrops ==
    ASSUME TypeInv, NEW p \in Indexers, NEW n, NEW failed, NoteDone(p, n, failed)
    PROVE  /\ pass'[p].todo \subseteq pass[p].todo
           /\ pass'[p].walk = pass[p].walk
           /\ pass'[p].pc = "note"
<1>1. pass \in [Indexers -> PassState]
    BY DEF TypeInv, TypeOK
<1>2. QED BY <1>1 DEF NoteDone, PassState

LEMMA ScanQueues ==
    ASSUME TypeInv, NEW p \in Indexers, QueuedOnce(p),
           StartIndex(p) \/ ScanFile(p) \/ ScanDone(p)
    PROVE  QueuedOnce(p)' /\ pass'[p].pc # "commit"
<1>0. pass \in [Indexers -> PassState]
    BY DEF TypeInv, TypeOK
<1>1. CASE StartIndex(p)
    <2>1. pass'[p].todo = {} /\ pass'[p].pc = "read"
        BY <1>0, <1>1 DEF StartIndex, Over
    <2>2. QED BY <2>1 DEF QueuedOnce
<1>2. CASE ScanFile(p)
    <2>1. PICK f \in pass[p].walk :
              \/ EndPass(p, "failed", {})
              \/ pass' = [pass EXCEPT ![p].walk = @ \ {f}, ![p].skipped = @ \cup {f}]
              \/ pass' = [pass EXCEPT ![p].walk = @ \ {f},
                                      ![p].todo = @ \cup {[path |-> f, content |-> vault[f]]}]
        BY <1>2 DEF ScanFile
    <2>2. CASE EndPass(p, "failed", {})
        BY <2>2, EndPassEmpties DEF QueuedOnce
    <2>3. CASE pass' = [pass EXCEPT ![p].walk = @ \ {f}, ![p].skipped = @ \cup {f}]
        <3>1. /\ pass'[p].todo = pass[p].todo /\ pass'[p].walk \subseteq pass[p].walk
              /\ pass'[p].pc = "read"
            <4>1. pass[p].pc = "read" /\ pass[p] \in PassState
                BY <1>0, <1>2 DEF ScanFile
            <4>2. QED BY <1>0, <2>3, <4>1 DEF PassState
        <3>2. QED BY <3>1, QueueShrinks
    <2>4. CASE pass' = [pass EXCEPT ![p].walk = @ \ {f},
                           ![p].todo = @ \cup {[path |-> f, content |-> vault[f]]}]
        <3> DEFINE new == [path |-> f, content |-> vault[f]]
        <3>1. /\ pass'[p].todo = pass[p].todo \cup {new}
              /\ pass'[p].walk = pass[p].walk \ {f} /\ pass'[p].pc = "read"
            <4>1. pass[p].pc = "read" /\ pass[p] \in PassState
                BY <1>0, <1>2 DEF ScanFile
            <4>2. QED BY <1>0, <2>4, <4>1 DEF PassState
        <3>2. new.path = f
            OBVIOUS
        <3> HIDE DEF new
        <3>3. QED BY <3>1, <3>2 DEF QueuedOnce
    <2>5. QED BY <2>1, <2>2, <2>3, <2>4
<1>3. CASE ScanDone(p)
    <2>1. /\ pass'[p].todo = pass[p].todo /\ pass'[p].walk = pass[p].walk
          /\ pass'[p].pc = "note"
        BY <1>0, <1>3 DEF ScanDone, PassState
    <2>2. QED BY <2>1, QueueShrinks
<1>4. QED BY <1>1, <1>2, <1>3

\* A step that neither scans, nor touches a note's row, nor takes its lock.
LEMMA LateStepQueues ==
    ASSUME TypeInv, NEW p \in Indexers,
           \/ BeginNote(p) \/ NotesDone(p) \/ Prune(p) \/ ClaimPending(p)
           \/ EmbedPart(p) \/ SaveEmbeddings(p) \/ PassAborts(p)
    PROVE  /\ pass'[p].todo \subseteq pass[p].todo
           /\ pass'[p].walk \subseteq pass[p].walk
           /\ pass'[p].pc # "commit"
<1>0. pass \in [Indexers -> PassState]
    BY DEF TypeInv, TypeOK
<1>1. CASE BeginNote(p)
    <2>1. PICK n \in pass[p].todo :
              pass' = [pass EXCEPT ![p].pc = "upsert", ![p].keep = @ \cup {n.path},
                                   ![p].seen = notes[n.path] # None]
        BY <1>1 DEF BeginNote
    <2>2. QED BY <1>0, <2>1 DEF PassState
<1>2. CASE NotesDone(p)
    BY <1>0, <1>2 DEF NotesDone, PassState
<1>3. CASE Prune(p)
    BY <1>0, <1>3 DEF Prune, PassState
<1>4. CASE ClaimPending(p)
    <2>1. CASE EndPass(p, Outcome(p), pass[p].failed)
        BY <2>1, EndPassEmpties DEF Outcome
    <2>2. CASE \E batch : pass' = [pass EXCEPT ![p].pc = "embed", ![p].pending = batch]
        BY <1>0, <2>2 DEF PassState
    <2>3. QED BY <1>4, <2>1, <2>2 DEF ClaimPending
<1>5. CASE EmbedPart(p)
    <2>1. CASE EndPass(p, "failed", pass[p].failed)
        BY <2>1, EndPassEmpties
    <2>2. CASE \E part : pass' = [pass EXCEPT ![p].pc = "store", ![p].part = part]
        BY <1>0, <2>2 DEF PassState
    <2>3. QED BY <1>5, <2>1, <2>2 DEF EmbedPart
<1>6. CASE SaveEmbeddings(p)
    <2>1. CASE EndPass(p, "failed", pass[p].failed)
        BY <2>1, EndPassEmpties
    <2>2. CASE \E pc \in {"claim", "embed"} : \E left :
                  pass' = [pass EXCEPT ![p].pc = pc, ![p].pending = left, ![p].part = {}]
        <3>1. PICK pc \in {"claim", "embed"} : \E left :
                  pass' = [pass EXCEPT ![p].pc = pc, ![p].pending = left, ![p].part = {}]
            BY <2>2
        <3>2. pass'[p].todo = pass[p].todo /\ pass'[p].walk = pass[p].walk /\ pass'[p].pc = pc
            BY <1>0, <3>1 DEF PassState
        <3>3. QED BY <3>1, <3>2
    <2>3. QED BY <1>6, <2>1, <2>2 DEF SaveEmbeddings
<1>7. CASE PassAborts(p)
    BY <1>7, EndPassEmpties DEF PassAborts
<1>8. QED BY <1>1, <1>2, <1>3, <1>4, <1>5, <1>6, <1>7

\* What another pass holds does not change by a step of p.
LEMMA OthersLocks ==
    ASSUME TypeInv, NEW p \in Indexers, StartIndex(p) \/ PassStep(p) \/ Fault(p),
           NEW q \in Indexers \ {p}
    PROVE  /\ pass'[q].todo = pass[q].todo
           /\ QueuedOnce(q) => QueuedOnce(q)'
           /\ \A m : WritesNext(q, m)' <=> WritesNext(q, m)
<1>1. pass'[q] = pass[q]
    BY OthersUntouched
<1>2. QED BY <1>1 DEF QueuedOnce, WritesNext, IsNextNote

\* A step that leaves the notes and p without a lock.
LEMMA LockDropped ==
    ASSUME TypeInv, RowLocks, NEW p \in Indexers,
           StartIndex(p) \/ PassStep(p) \/ Fault(p),
           QueuedOnce(p)', pass'[p].pc # "commit",
           \A q \in Indexers \ {p} : \A m \in pass[q].todo :
               WritesNext(q, m) => notes'[m.path] = notes[m.path]
    PROVE  RowLocks'
<1>1. \A q \in Indexers : QueuedOnce(q)'
    BY OthersLocks DEF RowLocks
<1>2. \A m : ~WritesNext(p, m)'
    BY DEF WritesNext
<1>3. ASSUME NEW q \in Indexers, NEW m \in pass'[q].todo, WritesNext(q, m)'
      PROVE  m \in pass[q].todo /\ WritesNext(q, m) /\ q # p
    BY <1>2, <1>3, OthersLocks
<1>4. ASSUME NEW q \in Indexers, NEW m \in pass'[q].todo, WritesNext(q, m)'
      PROVE  notes'[m.path] # m.content
    BY <1>3, <1>4 DEF RowLocks
<1>5. ASSUME NEW q \in Indexers, NEW r \in Indexers, q # r,
             NEW n \in pass'[q].todo, NEW m \in pass'[r].todo,
             WritesNext(q, n)', WritesNext(r, m)'
      PROVE  n.path # m.path
    BY <1>3, <1>5 DEF RowLocks
<1>6. QED BY <1>1, <1>4, <1>5 DEF RowLocks

\* The upsert takes the lock of a row that nobody holds.
LEMMA LockTaken ==
    ASSUME TypeInv, RowLocks, NEW p \in Indexers, UpsertNote(p)
    PROVE  RowLocks'
<1>0. pass \in [Indexers -> PassState]
    BY DEF TypeInv, TypeOK
<1>1. PICK n \in pass[p].todo :
          /\ pass[p].pc = "upsert" /\ IsNextNote(p, n) /\ ~Locked(n.path)
          /\ \/ \E failed : NoteDone(p, n, failed)
             \/ ~SameHash(n) /\ pass' = [pass EXCEPT ![p].pc = "commit"]
          /\ UNCHANGED notes
    BY DEF UpsertNote, store
<1>2. CASE \E failed : NoteDone(p, n, failed)
    <2>1. QueuedOnce(p)' /\ pass'[p].pc # "commit"
        BY <1>2, NoteDoneDrops, QueueShrinks DEF RowLocks
    <2>2. QED BY <1>1, <2>1, LockDropped DEF PassStep
<1>3. CASE ~SameHash(n) /\ pass' = [pass EXCEPT ![p].pc = "commit"]
    <2>1. /\ pass'[p].todo = pass[p].todo /\ pass'[p].walk = pass[p].walk
        BY <1>0, <1>3 DEF PassState
    <2>2. \A q \in Indexers : QueuedOnce(q)'
        BY <2>1, QueueShrinks, OthersLocks DEF RowLocks, PassStep
    <2>3. ASSUME NEW m \in pass'[p].todo, WritesNext(p, m)'
          PROVE  m = n
        <3>1. m \in pass[p].todo /\ IsNextNote(p, m)
            BY <2>1, <2>3 DEF WritesNext, IsNextNote
        <3>2. QED BY <1>1, <3>1, NextNoteIsOne DEF RowLocks
    <2>4. ASSUME NEW q \in Indexers, q # p, NEW m \in pass'[q].todo, WritesNext(q, m)'
          PROVE  m \in pass[q].todo /\ WritesNext(q, m) /\ m.path # n.path
        <3>1. m \in pass[q].todo /\ WritesNext(q, m)
            BY <2>4, OthersLocks DEF PassStep
        <3>2. QED BY <1>1, <3>1 DEF Locked, WritesNext
    <2>5. ASSUME NEW q \in Indexers, NEW m \in pass'[q].todo, WritesNext(q, m)'
          PROVE  notes'[m.path] # m.content
        <3>1. CASE q = p
            BY <1>1, <1>3, <2>3, <2>5, <3>1 DEF SameHash
        <3>2. CASE q # p
            BY <1>1, <2>4, <2>5, <3>2 DEF RowLocks
        <3>3. QED BY <3>1, <3>2
    <2>6. ASSUME NEW q \in Indexers, NEW r \in Indexers, q # r,
                 NEW l \in pass'[q].todo, NEW m \in pass'[r].todo,
                 WritesNext(q, l)', WritesNext(r, m)'
          PROVE  l.path # m.path
        <3>1. CASE q = p
            BY <2>3, <2>4, <2>6, <3>1
        <3>2. CASE r = p
            BY <2>3, <2>4, <2>6, <3>2
        <3>3. CASE q # p /\ r # p
            BY <2>4, <2>6, <3>3 DEF RowLocks
        <3>4. QED BY <3>1, <3>2, <3>3
    <2>7. QED BY <2>2, <2>5, <2>6 DEF RowLocks
<1>4. QED BY <1>1, <1>2, <1>3

\* A transaction ends, by a commit or a rollback.
LEMMA LockReleased ==
    ASSUME TypeInv, RowLocks, NEW p \in Indexers, CommitNote(p) \/ SaveNoteFails(p)
    PROVE  RowLocks'
<1>1. PICK n \in pass[p].todo :
          /\ \E failed : NoteDone(p, n, failed)
          /\ \/ UNCHANGED notes
             \/ WritesNext(p, n) /\ ReplaceNote(n)
    BY DEF CommitNote, SaveNoteFails, RollBack, store, WritesNext
<1>2. QueuedOnce(p)' /\ pass'[p].pc # "commit"
    BY <1>1, NoteDoneDrops, QueueShrinks DEF RowLocks
<1>3. ASSUME NEW q \in Indexers \ {p}, NEW m \in pass[q].todo, WritesNext(q, m)
      PROVE  notes'[m.path] = notes[m.path]
    <2>1. CASE WritesNext(p, n) /\ ReplaceNote(n)
        <3>1. m.path # n.path
            BY <1>3, <2>1 DEF RowLocks
        <3>2. m.path \in Files /\ notes \in [Files -> Contents \cup {None}]
            BY NextNoteType DEF TypeInv, TypeOK
        <3>3. QED BY <2>1, <3>1, <3>2 DEF ReplaceNote
    <2>2. QED BY <1>1, <2>1
<1>4. QED BY <1>2, <1>3, LockDropped DEF PassStep, Fault

LEMMA LocksStep ==
    ASSUME TypeInv, RowLocks, [Next]_vars
    PROVE  RowLocks'
<1>1. ASSUME NEW p \in Indexers,
             \/ BeginNote(p) \/ NotesDone(p) \/ ClaimPending(p)
             \/ EmbedPart(p) \/ SaveEmbeddings(p) \/ PassAborts(p)
      PROVE  RowLocks'
    <2>1. QueuedOnce(p)' /\ pass'[p].pc # "commit"
        BY <1>1, LateStepQueues, QueueShrinks DEF RowLocks
    <2>2. UNCHANGED notes
        BY <1>1 DEF BeginNote, NotesDone, ClaimPending, EmbedPart, SaveEmbeddings,
                    PassAborts, store
    <2>3. QED BY <1>1, <2>1, <2>2, LockDropped DEF PassStep, Fault
<1>2. ASSUME NEW p \in Indexers, StartIndex(p) \/ ScanFile(p) \/ ScanDone(p)
      PROVE  RowLocks'
    <2>1. QueuedOnce(p)' /\ pass'[p].pc # "commit"
        BY <1>2, ScanQueues DEF RowLocks
    <2>2. UNCHANGED notes
        BY <1>2 DEF StartIndex, ScanFile, ScanDone, store
    <2>3. QED BY <1>2, <2>1, <2>2, LockDropped DEF PassStep
<1>3. ASSUME NEW p \in Indexers, Prune(p)
      PROVE  RowLocks'
    <2>1. QueuedOnce(p)' /\ pass'[p].pc # "commit"
        BY <1>3, LateStepQueues, QueueShrinks DEF RowLocks
    <2>2. ASSUME NEW q \in Indexers \ {p}, NEW m \in pass[q].todo, WritesNext(q, m)
          PROVE  notes'[m.path] = notes[m.path]
        <3>1. m.path \notin Victims(p)
            BY <1>3, <2>2 DEF Prune, Locked, WritesNext
        <3>2. QED BY <1>3, <3>1, NextNoteType DEF Prune
    <2>3. QED BY <1>3, <2>1, <2>2, LockDropped DEF PassStep
<1>4. CASE Edit \/ RefillQuota \/ UNCHANGED vars
    <2>1. UNCHANGED notes
        BY <1>4 DEF Edit, WriteFile, RemoveFile, RefillQuota, store, vars
    <2>2. \A q \in Indexers : /\ pass'[q].pc = pass[q].pc
                              /\ pass'[q].todo = pass[q].todo
                              /\ pass'[q].walk = pass[q].walk
        <3>1. \A q \in Indexers : pass[q] \in PassState
            BY DEF TypeInv, TypeOK
        <3>2. CASE RefillQuota \/ UNCHANGED vars
            BY <3>2 DEF RefillQuota, vars
        <3>3. ASSUME NEW f \in Files, NEW c \in Contents, WriteFile(f, c),
                     NEW q \in Indexers
              PROVE  /\ pass'[q].pc = pass[q].pc
                     /\ pass'[q].todo = pass[q].todo
                     /\ pass'[q].walk = pass[q].walk
            BY <3>1, <3>3 DEF WriteFile, PassState
        <3>4. ASSUME NEW f \in Files, RemoveFile(f), NEW q \in Indexers
              PROVE  /\ pass'[q].pc = pass[q].pc
                     /\ pass'[q].todo = pass[q].todo
                     /\ pass'[q].walk = pass[q].walk
            BY <3>1, <3>4 DEF RemoveFile, PassState
        <3>5. QED BY <1>4, <3>2, <3>3, <3>4 DEF Edit
    <2>3. \A q \in Indexers : QueuedOnce(q)'
        BY <2>2, QueueShrinks DEF RowLocks
    <2>4. \A q \in Indexers : \A m : WritesNext(q, m)' <=> WritesNext(q, m)
        BY <2>2 DEF WritesNext, IsNextNote
    <2>5. QED BY <2>1, <2>2, <2>3, <2>4 DEF RowLocks
<1>5. ASSUME NEW p \in Indexers, StartIndex(p) \/ PassStep(p) \/ Fault(p)
      PROVE  RowLocks'
    <2>1. CASE UpsertNote(p)
        BY <2>1, LockTaken
    <2>2. CASE CommitNote(p) \/ SaveNoteFails(p)
        BY <2>2, LockReleased
    <2>3. QED BY <1>1, <1>2, <1>3, <1>5, <2>1, <2>2 DEF PassStep, Fault
<1>6. QED BY <1>4, <1>5 DEF Next

-----------------------------------------------------------------------------
(***************************************************************************)
(* What a search finds.                                                    *)
(***************************************************************************)
HitOf(r, v) == [note |-> r.note, index |-> r.index, of |-> v.of]

LEMMA FoundRows ==
    ASSUME NEW s \in Spaces, NEW h
    PROVE  h \in FoundIn(s) <=>
               \E r \in chunks : \E v \in vectors[s] : v.chunk = r.id /\ h = HitOf(r, v)
BY DEF FoundIn, HitOf

LEMMA FoundRowsNext ==
    ASSUME NEW s \in Spaces, NEW h
    PROVE  h \in FoundIn(s)' <=>
               \E r \in chunks' : \E v \in vectors'[s] : v.chunk = r.id /\ h = HitOf(r, v)
BY DEF FoundIn, HitOf

LEMMA FoundUnchanged ==
    ASSUME UNCHANGED <<chunks, vectors>>, NEW s \in Spaces
    PROVE  FoundIn(s)' = FoundIn(s)
BY DEF FoundIn

LEMMA HitFields ==
    ASSUME NEW r, NEW v
    PROVE  HitOf(r, v).note = r.note /\ HitOf(r, v).index = r.index /\ HitOf(r, v).of = v.of
BY DEF HitOf

\* Deleting the chunks of F, and adding ones that have no vector, leaves exactly
\* what was found of the other notes.
LEMMA RowsDeleted ==
    ASSUME TypeInv, RowsInv, NEW F,
           {r \in chunks : r.note \notin F} \subseteq chunks',
           \A r \in chunks' : (r \in chunks /\ r.note \notin F) \/ nextChunk <= r.id,
           vectors' = Cascade(chunks'),
           NEW s \in Spaces
    PROVE  FoundIn(s)' = {h \in FoundIn(s) : h.note \notin F}
<1>1. vectors'[s] = {v \in vectors[s] : \E r \in chunks' : r.id = v.chunk}
    BY DEF Cascade
<1>2. ASSUME NEW h \in FoundIn(s)' PROVE h \in FoundIn(s) /\ h.note \notin F
    <2>1. PICK r \in chunks', v \in vectors'[s] : v.chunk = r.id /\ h = HitOf(r, v)
        BY <1>2, FoundRowsNext
    <2>2. v \in vectors[s]
        BY <1>1, <2>1
    <2>3. PICK q \in chunks : q.id = v.chunk
        BY <2>2 DEF RowsInv, VectorsMatchText
    <2>4. q.id < nextChunk /\ q.id \in Nat /\ nextChunk \in Nat
        BY <2>3 DEF RowsInv, IdsFreshAndUnique, TypeInv, TypeOK, ChunkRow
    <2>5. r \in chunks /\ r.note \notin F
        BY <2>1, <2>3, <2>4
    <2>6. h \in FoundIn(s)
        BY <2>1, <2>2, <2>5, FoundRows, Zenon
    <2>7. h.note = r.note
        BY <2>1, HitFields
    <2>8. QED BY <2>5, <2>6, <2>7
<1>3. ASSUME NEW h \in FoundIn(s), h.note \notin F PROVE h \in FoundIn(s)'
    <2>1. \E r \in chunks : \E v \in vectors[s] : v.chunk = r.id /\ h = HitOf(r, v)
        BY <1>3, FoundRows
    <2>2. PICK r \in chunks : \E v \in vectors[s] : v.chunk = r.id /\ h = HitOf(r, v)
        BY <2>1
    <2>3. PICK v \in vectors[s] : v.chunk = r.id /\ h = HitOf(r, v)
        BY <2>2
    <2>4. r \in chunks'
        BY <1>3, <2>3, HitFields
    <2>5. v \in vectors'[s]
        BY <1>1, <2>3, <2>4
    <2>6. QED BY <2>3, <2>4, <2>5, FoundRowsNext
<1>4. QED BY <1>2, <1>3

\* A stored chunk is a passage of its note's stored content.
LEMMA ChunkIsPassage ==
    ASSUME TypeInv, ChunksMatchNote, NEW r \in chunks
    PROVE  [note |-> r.note, index |-> r.index, of |-> r.text] \in Index!Passages
<1>1. r.note \in Files /\ r.index \in Nat
    BY DEF TypeInv, TypeOK, ChunkRow
<1>2. <<r.index, r.text>> \in {<<q.index, q.text>> : q \in {q \in chunks : q.note = r.note}}
    OBVIOUS
<1>3. notes[r.note] # None /\ \E i \in DOMAIN Cut[notes[r.note]] :
          <<r.index, r.text>> = <<i - 1, Cut[notes[r.note]][i]>>
    <2>1. <<r.index, r.text>> \in
              IF notes[r.note] = None THEN {}
              ELSE {<<i - 1, Cut[notes[r.note]][i]>> : i \in DOMAIN Cut[notes[r.note]]}
        BY <1>1, <1>2, Zenon DEF ChunksMatchNote
    <2>2. notes[r.note] # None
        BY <2>1
    <2>3. QED BY <2>1, <2>2, Zenon
<1>4. PICK i \in DOMAIN Cut[notes[r.note]] :
          r.index = i - 1 /\ r.text = Cut[notes[r.note]][i]
    BY <1>3
<1>5. [note |-> r.note, index |-> r.index, of |-> r.text]
          \in Index!PassagesOf(r.note, notes[r.note])
    <2>1. [note |-> r.note, index |-> r.index, of |-> r.text]
              = [note |-> r.note, index |-> i - 1, of |-> Cut[notes[r.note]][i]]
        BY <1>4
    <2>2. QED BY <2>1, Zenon DEF Index!PassagesOf
<1>6. QED BY <1>1, <1>3, <1>5 DEF Index!Passages

-----------------------------------------------------------------------------
(***************************************************************************)
(* The steps that change the store.                                        *)
(***************************************************************************)

LEMMA ReplaceNoteImplements ==
    ASSUME TypeInv, RowsInv, RowLocks, NEW p \in Indexers, NEW n \in pass[p].todo,
           WritesNext(p, n), ReplaceNote(n)
    PROVE  Index!SaveNote(n.path, n.content)
<1>1. n \in Note /\ notes[n.path] # n.content
    BY NextNoteType DEF RowLocks
<1>2. \A r \in NewRows(n.path, n.content) : nextChunk <= r.id
    BY <1>1, NewRowIds
<1>3. chunks' = KeptRows(n.path, n.content) \cup NewRows(n.path, n.content)
    BY DEF ReplaceNote
<1>4. KeptRows(n.path, n.content) = {r \in chunks : r.note \notin {n.path}}
    BY DEF KeptRows
<1>5. ASSUME NEW s \in Spaces
      PROVE  FoundIn(s)' = {h \in FoundIn(s) : h.note \notin {n.path}}
    <2>1. {r \in chunks : r.note \notin {n.path}} \subseteq chunks'
        BY <1>3, <1>4
    <2>2. \A r \in chunks' : (r \in chunks /\ r.note \notin {n.path}) \/ nextChunk <= r.id
        BY <1>2, <1>3, <1>4
    <2>3. vectors' = Cascade(chunks')
        BY DEF ReplaceNote
    <2>4. QED BY <2>1, <2>2, <2>3, RowsDeleted
<1>6. [s \in Spaces |-> FoundIn(s)'] =
          [s \in Spaces |-> {h \in [t \in Spaces |-> FoundIn(t)][s] : h.note \notin {n.path}}]
    BY <1>5
<1>7. notes' = [notes EXCEPT ![n.path] = n.content]
    BY DEF ReplaceNote
<1>8. QED BY <1>1, <1>6, <1>7 DEF Index!SaveNote, Index!FoundWithout

LEMMA PruneImplements ==
    ASSUME TypeInv, RowsInv, NEW p \in Indexers, Prune(p)
    PROVE  Index!PruneNotes(Victims(p))
<1>1. ASSUME NEW s \in Spaces
      PROVE  FoundIn(s)' = {h \in FoundIn(s) : h.note \notin Victims(p)}
    <2>1. chunks' = {r \in chunks : r.note \notin Victims(p)} /\ vectors' = Cascade(chunks')
        BY DEF Prune
    <2>2. QED BY <2>1, RowsDeleted
<1>2. [s \in Spaces |-> FoundIn(s)'] =
          [s \in Spaces |-> {h \in [t \in Spaces |-> FoundIn(t)][s] : h.note \notin Victims(p)}]
    BY <1>1
<1>3. QED BY <1>2 DEF Prune, Index!PruneNotes, Index!FoundWithout

\* The passages whose vectors the pass p writes.
HitsSaved(p) ==
    {[note |-> r.note, index |-> r.index, of |-> r.text] :
        r \in {q \in chunks : \E claimed \in pass[p].part : claimed.id = q.id}}

LEMMA HitsAreSaved ==
    ASSUME NEW p \in Indexers, NEW h
    PROVE  h \in HitsSaved(p) <=>
               \E r \in chunks : \E q \in pass[p].part :
                   q.id = r.id /\ h = [note |-> r.note, index |-> r.index, of |-> r.text]
BY DEF HitsSaved

LEMMA VectorsSaved ==
    ASSUME TypeInv, RowsInv, ChunksMatchNote, NEW p \in Indexers,
           UNCHANGED chunks, NEW s \in Spaces,
           vectors'[s] = {v \in vectors[s] : v.chunk \notin {r.id : r \in pass[p].part}}
                            \cup {[chunk |-> r.id, of |-> r.text] : r \in pass[p].part}
    PROVE  FoundIn(s)' = FoundIn(s) \cup HitsSaved(p)
<1> DEFINE vec(r) == [chunk |-> r.id, of |-> r.text]
<1>0. \A r : vec(r).chunk = r.id /\ vec(r).of = r.text
    OBVIOUS
<1>1. /\ \A v \in vectors'[s] :
             \/ v \in vectors[s]
             \/ \E r \in pass[p].part : v = vec(r)
      /\ \A v \in vectors[s] :
             v \in vectors'[s] \/ \E r \in pass[p].part : v.chunk = r.id
      /\ \A r \in pass[p].part : vec(r) \in vectors'[s]
    OBVIOUS
<1> HIDE DEF vec
<1>2. ASSUME NEW r \in chunks, NEW q \in pass[p].part, q.id = r.id
      PROVE  q.text = r.text /\ vec(q).chunk = r.id /\ vec(q).of = r.text
    <2>1. q.text = r.text
        BY <1>2 DEF RowsInv, ClaimsCurrent
    <2>2. QED BY <1>0, <1>2, <2>1
<1>3. ASSUME NEW h \in FoundIn(s)' PROVE h \in FoundIn(s) \cup HitsSaved(p)
    <2>1. PICK r \in chunks, v \in vectors'[s] : v.chunk = r.id /\ h = HitOf(r, v)
        BY <1>3, FoundRowsNext
    <2>2. CASE v \in vectors[s]
        BY <2>1, <2>2, FoundRows, Zenon
    <2>3. ASSUME NEW q \in pass[p].part, v = vec(q) PROVE h \in HitsSaved(p)
        <3>1. q.id = r.id /\ v.of = r.text
            BY <1>0, <1>2, <2>1, <2>3
        <3>2. h = [note |-> r.note, index |-> r.index, of |-> r.text]
            BY <2>1, <3>1 DEF HitOf
        <3>3. QED BY <3>1, <3>2, HitsAreSaved, Zenon
    <2>4. QED BY <1>1, <2>1, <2>2, <2>3
<1>4. ASSUME NEW h \in FoundIn(s) PROVE h \in FoundIn(s)'
    <2>1. PICK r \in chunks, v \in vectors[s] : v.chunk = r.id /\ h = HitOf(r, v)
        BY <1>4, FoundRows
    <2>2. CASE v \in vectors'[s]
        BY <2>1, <2>2, FoundRowsNext, Zenon
    <2>3. ASSUME NEW q \in pass[p].part, v.chunk = q.id PROVE h \in FoundIn(s)'
        <3>1. PICK r2 \in chunks : r2.id = v.chunk /\ r2.text = v.of
            BY <2>1 DEF RowsInv, VectorsMatchText
        <3>2. r2 = r
            BY <2>1, <3>1 DEF RowsInv, IdsFreshAndUnique
        <3>3. vec(q) \in vectors'[s] /\ vec(q).chunk = r.id /\ vec(q).of = v.of
            BY <1>1, <1>2, <2>1, <2>3, <3>1, <3>2
        <3>4. h = HitOf(r, vec(q))
            BY <2>1, <3>3 DEF HitOf
        <3>5. QED BY <3>3, <3>4, FoundRowsNext, Zenon
    <2>4. QED BY <1>1, <2>1, <2>2, <2>3
<1>5. ASSUME NEW h \in HitsSaved(p) PROVE h \in FoundIn(s)'
    <2>1. PICK r \in chunks, q \in pass[p].part :
              q.id = r.id /\ h = [note |-> r.note, index |-> r.index, of |-> r.text]
        BY <1>5, HitsAreSaved, Zenon
    <2>2. vec(q) \in vectors'[s] /\ vec(q).chunk = r.id /\ vec(q).of = r.text
        BY <1>1, <1>2, <2>1
    <2>3. h = HitOf(r, vec(q))
        BY <2>1, <2>2 DEF HitOf
    <2>4. QED BY <2>2, <2>3, FoundRowsNext, Zenon
<1>6. QED BY <1>3, <1>4, <1>5

LEMMA SaveEmbeddingsImplements ==
    ASSUME TypeInv, RowsInv, ChunksMatchNote, NEW p \in Indexers, SaveEmbeddings(p)
    PROVE  Index!AddVectors(SpaceOf[p], HitsSaved(p)) \/ UNCHANGED Index!vars
<1> DEFINE sp == SpaceOf[p]
           ids == {r.id : r \in pass[p].part}
           saved == {v \in vectors[sp] : v.chunk \notin ids}
                       \cup {[chunk |-> r.id, of |-> r.text] : r \in pass[p].part}
<1>1. sp \in Spaces /\ UNCHANGED <<notes, chunks>>
      /\ vectors \in [Spaces -> SUBSET VectorRow]
    BY ConfigAssumption DEF SaveEmbeddings, TypeInv, TypeOK
<1>2. UNCHANGED vectors \/ vectors' = [vectors EXCEPT ![sp] = saved]
    BY DEF SaveEmbeddings
<1>3. CASE UNCHANGED vectors
    <2>1. [s \in Spaces |-> FoundIn(s)'] = [s \in Spaces |-> FoundIn(s)]
        BY <1>1, <1>3, FoundUnchanged
    <2>2. QED BY <1>1, <2>1 DEF Index!vars
<1>4. CASE vectors' = [vectors EXCEPT ![sp] = saved]
    <2>1. FoundIn(sp)' = FoundIn(sp) \cup HitsSaved(p)
        BY <1>1, <1>4, VectorsSaved
    <2>2. ASSUME NEW s \in Spaces, s # sp PROVE FoundIn(s)' = FoundIn(s)
        <3>1. vectors'[s] = vectors[s]
            BY <1>1, <1>4, <2>2
        <3>2. QED BY <1>1, <3>1 DEF FoundIn
    <2>3. HitsSaved(p) \subseteq Index!Passages
        BY ChunkIsPassage DEF HitsSaved
    <2> DEFINE found == [s \in Spaces |-> FoundIn(s)]
    <2>4. [s \in Spaces |-> FoundIn(s)'] = [found EXCEPT ![sp] = @ \cup HitsSaved(p)]
        BY <1>1, <2>1, <2>2
    <2>5. QED BY <1>1, <2>3, <2>4 DEF Index!AddVectors
<1>5. QED BY <1>2, <1>3, <1>4

-----------------------------------------------------------------------------
(***************************************************************************)
(* The refinement.                                                         *)
(***************************************************************************)

LEMMA InitImplements == Init => Index!Init
<1> SUFFICES ASSUME Init PROVE Index!Init
    OBVIOUS
<1>1. ASSUME NEW s \in Spaces PROVE FoundIn(s) = {}
    BY DEF Init, FoundIn
<1>2. [s \in Spaces |-> FoundIn(s)] = [s \in Spaces |-> {}]
    BY <1>1
<1>3. QED BY <1>2 DEF Init, Index!Init

LEMMA StoreUntouched ==
    ASSUME UNCHANGED store
    PROVE  UNCHANGED Index!vars
<1>1. [s \in Spaces |-> FoundIn(s)'] = [s \in Spaces |-> FoundIn(s)]
    BY FoundUnchanged DEF store
<1>2. QED BY <1>1 DEF Index!vars, store

LEMMA StepImplements ==
    ASSUME TypeInv, RowsInv, ChunksMatchNote, RowLocks, [Next]_vars
    PROVE  [Index!Next]_(Index!vars)
<1>1. ASSUME NEW p \in Indexers, CommitNote(p) \/ SaveNoteFails(p)
      PROVE  [Index!Next]_(Index!vars)
    <2>1. PICK n \in pass[p].todo : UNCHANGED store \/ (WritesNext(p, n) /\ ReplaceNote(n))
        BY <1>1 DEF CommitNote, SaveNoteFails, RollBack, WritesNext
    <2>2. CASE WritesNext(p, n) /\ ReplaceNote(n)
        <3>1. Index!SaveNote(n.path, n.content)
            BY <2>2, ReplaceNoteImplements
        <3>2. n.path \in Files /\ n.content \in Contents
            BY NextNoteType
        <3>3. Index!Next
            BY <3>1, <3>2, Zenon DEF Index!Next
        <3>4. QED BY <3>3
    <2>3. QED BY <2>1, <2>2, StoreUntouched
<1>2. ASSUME NEW p \in Indexers, Prune(p)
      PROVE  [Index!Next]_(Index!vars)
    <2>1. Index!PruneNotes(Victims(p)) /\ Victims(p) \in SUBSET Files
        BY <1>2, PruneImplements DEF Victims
    <2>2. Index!Next
        BY <2>1, Zenon DEF Index!Next
    <2>3. QED BY <2>2
<1>3. ASSUME NEW p \in Indexers, SaveEmbeddings(p)
      PROVE  [Index!Next]_(Index!vars)
    <2>1. CASE Index!AddVectors(SpaceOf[p], HitsSaved(p))
        <3>1. SpaceOf[p] \in Spaces /\ HitsSaved(p) \in SUBSET Index!Passages
            BY ConfigAssumption, ChunkIsPassage DEF HitsSaved
        <3>2. Index!Next
            BY <2>1, <3>1, Zenon DEF Index!Next
        <3>3. QED BY <3>2
    <2>2. QED BY <1>3, <2>1, SaveEmbeddingsImplements
<1>4. CASE ~ \E p \in Indexers :
                CommitNote(p) \/ SaveNoteFails(p) \/ Prune(p) \/ SaveEmbeddings(p)
    <2>1. UNCHANGED store
        BY <1>4 DEF Next, PassStep, Fault, Edit, StartIndex, ScanFile, ScanDone,
           BeginNote, UpsertNote, NotesDone, ClaimPending, EmbedPart,
           PassAborts, WriteFile, RemoveFile, RefillQuota, store, vars
    <2>2. QED BY <2>1, StoreUntouched
<1>5. QED BY <1>1, <1>2, <1>3, <1>4

\* No transaction overwrites a row that another open transaction holds, and no
\* note is rewritten with the content it already has.
THEOREM LocksHold == Spec => []RowLocks
<1>1. Init => RowLocks
    BY DEF Init, RowLocks, QueuedOnce, WritesNext, Over
<1>2. TypeInv /\ RowLocks /\ [Next]_vars => RowLocks'
    BY LocksStep
<1>3. QED BY <1>1, <1>2, TypeInvariant, PTL DEF Spec

\* To whoever searches it, a directory indexed by any number of concurrent,
\* crashing passes is the abstract index: passages of the notes as they are
\* stored, changed one note, one prune or one batch of vectors at a time.
THEOREM IndexRefines == Spec => ImplementsSearchIndex
<1>1. Init => Index!Init
    BY InitImplements
<1>2. Init => RowsInv /\ ChunksMatchNote
    BY RowsInit DEF Init, ChunksMatchNote
<1>3. TypeInv /\ RowsInv /\ [Next]_vars => RowsInv'
    BY RowsStep
<1>4. TypeInv /\ ChunksMatchNote /\ [Next]_vars => ChunksMatchNote'
    BY MatchStep
<1>5. TypeInv /\ RowsInv /\ ChunksMatchNote /\ RowLocks /\ [Next]_vars
          => [Index!Next]_(Index!vars)
    BY StepImplements
<1>6. QED BY <1>1, <1>2, <1>3, <1>4, <1>5, TypeInvariant, LocksHold, PTL
          DEF Spec, ImplementsSearchIndex, Index!Spec

-----------------------------------------------------------------------------
(***************************************************************************)
(* What a pass that ends well promises: SettledPassSyncs, and that passes  *)
(* over an index in line with the vault write nothing.                     *)
(*                                                                         *)
(* The invariant is SettledPassesSync.  Its first half says what a pass    *)
(* that no edit disturbed knows of the vault, its second what such a pass  *)
(* has stored of it so far; and all passes that run beside it are like it, *)
(* so what they write is the vault too.                                    *)
(***************************************************************************)
Local(p) ==
    /\ QueuesDrained(p)
    /\ SeesVault(p)
    /\ p \notin Misconfigured => StoresVault(p)

\* Notes only change to what is on disk.
TowardsVault == \A f \in Files : notes'[f] \in {notes[f], vault[f]}

SyncInv == TypeInv /\ KeepListComplete /\ RowLocks /\ SettledPassesSync

-----------------------------------------------------------------------------
(***************************************************************************)
(* The pass that takes the step.                                           *)
(***************************************************************************)

\* A pass that is over has nothing to show here.
LEMMA EndPassLocal ==
    ASSUME TypeInv, NEW p \in Indexers, NEW outcome \in Resting, NEW failed,
           EndPass(p, outcome, failed)
    PROVE  Local(p)'
<1>1. pass'[p].pc = outcome
    BY EndPassEmpties
<1>2. pass'[p].pc \notin Running
    BY <1>1 DEF Resting, Running
<1>3. pass'[p].pc # "prune" /\ pass'[p].pc \notin {"prune", "claim", "embed", "store"}
    BY <1>2 DEF Running
<1>4. QED BY <1>2, <1>3 DEF Local, QueuesDrained, SeesVault, StoresVault

LEMMA ContentOnDisk ==
    ASSUME TypeInv, NEW p \in Indexers, SeesVault(p), pass[p].settled,
           pass[p].pc \in Running, NEW n \in pass[p].todo
    PROVE  n.path \in OnDisk /\ vault[n.path] = n.content
<1>1. n.path \in Files /\ n.content \in Contents
    BY NextNoteType
<1>2. vault[n.path] = n.content
    BY DEF SeesVault
<1>3. QED BY <1>1, <1>2, ConfigAssumption DEF OnDisk

LEMMA StartLocal ==
    ASSUME TypeInv, NEW p \in Indexers, StartIndex(p)
    PROVE  Local(p)'
<1>1. pass \in [Indexers -> PassState]
    BY DEF TypeInv, TypeOK
<1>2. /\ pass'[p].pc = "read"
      /\ pass'[p].walk = IF p \in Misconfigured THEN {} ELSE OnDisk
      /\ pass'[p].present = OnDisk
      /\ pass'[p].skipped = {} /\ pass'[p].keep = {} /\ pass'[p].todo = {}
    BY <1>1 DEF StartIndex, Over
<1>3. vault' = vault
    BY DEF StartIndex
<1>4. QueuesDrained(p)'
    BY <1>2 DEF QueuesDrained
<1>5. SeesVault(p)'
    BY <1>2, <1>3 DEF SeesVault, OnDisk
<1>6. p \notin Misconfigured => StoresVault(p)'
    <2>1. OnDiskOf("parsed")' \subseteq OnDisk
        BY <1>3 DEF OnDiskOf, OnDisk
    <2>2. QED BY <1>2, <2>1 DEF StoresVault
<1>7. QED BY <1>4, <1>5, <1>6 DEF Local

\* The fields that Local speaks of, at a step that keeps them.
LEMMA FrameLocal ==
    ASSUME TypeInv, NEW p \in Indexers, Local(p),
           pass[p].pc \in Running, pass'[p].pc \in Running \ {"read", "prune"},
           pass'[p].pc \in {"claim", "embed", "store"} =>
               pass[p].pc \in {"claim", "embed", "store"},
           pass'[p].walk = pass[p].walk, pass[p].walk = {},
           pass'[p].todo = pass[p].todo, pass'[p].skipped = pass[p].skipped,
           pass'[p].keep \subseteq pass[p].keep \cup PathsOf(pass[p].todo),
           pass'[p].failed = pass[p].failed, pass'[p].present = pass[p].present,
           pass'[p].settled = pass[p].settled,
           vault' = vault, notes' = notes
    PROVE  Local(p)'
<1>1. QueuesDrained(p)'
    BY DEF QueuesDrained, Local
<1>2. OnDisk' = OnDisk /\ OnDiskOf("parsed")' = OnDiskOf("parsed")
    BY DEF OnDisk, OnDiskOf
<1>3. SeesVault(p)'
    <2>1. ASSUME pass[p].settled PROVE PathsOf(pass[p].todo) \subseteq OnDisk
        BY <2>1, ContentOnDisk DEF PathsOf, Local
    <2>2. QED BY <1>2, <2>1 DEF SeesVault, Local
<1>4. p \notin Misconfigured => StoresVault(p)'
    BY <1>2 DEF StoresVault, Local, PathsOf
<1>5. QED BY <1>1, <1>3, <1>4 DEF Local

LEMMA ScanLocal ==
    ASSUME TypeInv, NEW p \in Indexers, Local(p), ScanFile(p) \/ ScanDone(p)
    PROVE  Local(p)'
<1>0. pass \in [Indexers -> PassState]
    BY DEF TypeInv, TypeOK
<1>1. /\ pass[p] \in PassState /\ pass[p].pc = "read" /\ pass[p].pc \in Running
      /\ vault' = vault /\ notes' = notes
    BY <1>0 DEF ScanFile, ScanDone, store, Running
<1>2. OnDisk' = OnDisk /\ OnDiskOf("parsed")' = OnDiskOf("parsed")
    BY <1>1 DEF OnDisk, OnDiskOf
<1>3. CASE ScanFile(p)
    <2>1. PICK f \in pass[p].walk :
              \/ EndPass(p, "failed", {})
              \/ /\ Reading(f) = "unclosed"
                 /\ pass' = [pass EXCEPT ![p].walk = @ \ {f}, ![p].skipped = @ \cup {f}]
              \/ pass' = [pass EXCEPT ![p].walk = @ \ {f},
                                      ![p].todo = @ \cup {[path |-> f, content |-> vault[f]]}]
        BY <1>3 DEF ScanFile
    <2>2. CASE EndPass(p, "failed", {})
        BY <2>2, EndPassLocal DEF Resting
    <2>3. CASE /\ Reading(f) = "unclosed"
               /\ pass' = [pass EXCEPT ![p].walk = @ \ {f}, ![p].skipped = @ \cup {f}]
        <3>1. /\ pass'[p].pc = "read" /\ pass'[p].walk = pass[p].walk \ {f}
              /\ pass'[p].todo = pass[p].todo /\ pass'[p].skipped = pass[p].skipped \cup {f}
              /\ pass'[p].keep = pass[p].keep /\ pass'[p].failed = pass[p].failed
              /\ pass'[p].present = pass[p].present /\ pass'[p].settled = pass[p].settled
            BY <1>0, <1>1, <2>3 DEF PassState
        <3>2. QueuesDrained(p)'
            BY <3>1 DEF QueuesDrained
        <3>3. SeesVault(p)'
            BY <1>1, <1>2, <3>1 DEF SeesVault, Local
        <3>4. f \notin OnDiskOf("parsed")
            BY <2>3 DEF OnDiskOf, OnDisk, Reading
        <3>5. p \notin Misconfigured => StoresVault(p)'
            BY <1>1, <1>2, <3>1, <3>4 DEF StoresVault, Local
        <3>6. QED BY <3>2, <3>3, <3>5 DEF Local
    <2>4. CASE pass' = [pass EXCEPT ![p].walk = @ \ {f},
                            ![p].todo = @ \cup {[path |-> f, content |-> vault[f]]}]
        <3> DEFINE new == [path |-> f, content |-> vault[f]]
        <3>1. /\ pass'[p].pc = "read" /\ pass'[p].walk = pass[p].walk \ {f}
              /\ pass'[p].todo = pass[p].todo \cup {new}
              /\ pass'[p].skipped = pass[p].skipped
              /\ pass'[p].keep = pass[p].keep /\ pass'[p].failed = pass[p].failed
              /\ pass'[p].present = pass[p].present /\ pass'[p].settled = pass[p].settled
            BY <1>0, <1>1, <2>4 DEF PassState
        <3>2. new.path = f /\ new.content = vault[f]
            OBVIOUS
        <3> HIDE DEF new
        <3>3. QueuesDrained(p)'
            BY <3>1 DEF QueuesDrained
        <3>4. SeesVault(p)'
            BY <1>1, <1>2, <3>1, <3>2 DEF SeesVault, Local
        <3>5. PathsOf(pass'[p].todo) = PathsOf(pass[p].todo) \cup {f}
            BY <3>1, <3>2 DEF PathsOf
        <3>6. p \notin Misconfigured => StoresVault(p)'
            BY <1>1, <1>2, <3>1, <3>5 DEF StoresVault, Local
        <3>7. QED BY <3>3, <3>4, <3>6 DEF Local
    <2>5. QED BY <2>1, <2>2, <2>3, <2>4
<1>4. CASE ScanDone(p)
    <2>1. /\ pass'[p].pc = "note" /\ pass'[p].walk = {} /\ pass[p].walk = {}
          /\ pass'[p].todo = pass[p].todo /\ pass'[p].skipped = pass[p].skipped
          /\ pass'[p].keep = pass[p].skipped /\ pass'[p].failed = pass[p].failed
          /\ pass'[p].present = pass[p].present /\ pass'[p].settled = pass[p].settled
        BY <1>0, <1>4 DEF ScanDone, PassState, PresentSoFar
    <2>2. QueuesDrained(p)'
        BY <2>1 DEF QueuesDrained
    <2>3. SeesVault(p)'
        BY <1>1, <1>2, <2>1 DEF SeesVault, Local
    <2>4. p \notin Misconfigured => StoresVault(p)'
        BY <1>1, <1>2, <2>1 DEF StoresVault, Local
    <2>5. QED BY <2>2, <2>3, <2>4 DEF Local
<1>5. QED BY <1>3, <1>4

\* One note is done: stored as it is on disk, or counted as failed.
LEMMA NoteDoneLocal ==
    ASSUME TypeInv, NEW p \in Indexers, Local(p),
           pass[p].pc \in {"upsert", "commit"}, NEW n \in pass[p].todo, NEW failed,
           NoteDone(p, n, failed), vault' = vault,
           pass[p].settled => TowardsVault,
           n.path \in failed \/ Kind[n.content] # "parsed" \/ notes'[n.path] = n.content
    PROVE  Local(p)'
<1>0. pass \in [Indexers -> PassState]
    BY DEF TypeInv, TypeOK
<1>1. /\ pass'[p].pc = "note" /\ pass'[p].walk = pass[p].walk
      /\ pass'[p].todo = pass[p].todo \ {n} /\ pass'[p].failed = pass[p].failed \cup failed
      /\ pass'[p].skipped = pass[p].skipped /\ pass'[p].keep = pass[p].keep
      /\ pass'[p].present = pass[p].present /\ pass'[p].settled = pass[p].settled
    BY <1>0 DEF NoteDone, PassState
<1>2. pass[p].pc \in Running /\ pass[p].walk = {}
    BY DEF Local, QueuesDrained, Running
<1>3. OnDisk' = OnDisk /\ OnDiskOf("parsed")' = OnDiskOf("parsed")
    BY DEF OnDisk, OnDiskOf
<1>4. QueuesDrained(p)'
    BY <1>1, <1>2 DEF QueuesDrained
<1>5. SeesVault(p)'
    BY <1>1, <1>2, <1>3 DEF SeesVault, Local
<1>6. ASSUME p \notin Misconfigured, pass[p].settled, NEW f \in OnDiskOf("parsed")
      PROVE  f \in PathsOf(pass'[p].todo) \cup pass'[p].failed \/ notes'[f] = vault'[f]
    <2>1. f \in Files /\ notes'[f] \in {notes[f], vault[f]} /\ Kind[vault[f]] = "parsed"
        BY <1>6 DEF TowardsVault, OnDiskOf, OnDisk
    <2>2. f \in PathsOf(pass[p].todo) \cup pass[p].failed \/ notes[f] = vault[f]
        BY <1>2, <1>6 DEF StoresVault, Local
    <2>3. CASE f = n.path
        BY <1>1, <1>2, <1>6, <2>1, <2>3, ContentOnDisk DEF Local
    <2>4. CASE f # n.path /\ f \in PathsOf(pass[p].todo)
        BY <1>1, <2>4 DEF PathsOf
    <2>5. QED BY <1>1, <2>1, <2>2, <2>3, <2>4
<1>7. p \notin Misconfigured => StoresVault(p)'
    BY <1>1, <1>3, <1>6 DEF StoresVault
<1>8. QED BY <1>4, <1>5, <1>7 DEF Local

LEMMA SaveNoteLocal ==
    ASSUME TypeInv, NEW p \in Indexers, Local(p),
           pass[p].settled => TowardsVault,
           \/ BeginNote(p) \/ UpsertNote(p) \/ CommitNote(p) \/ NotesDone(p)
           \/ SaveNoteFails(p)
    PROVE  Local(p)'
<1>0. pass \in [Indexers -> PassState]
    BY DEF TypeInv, TypeOK
<1>1. CASE BeginNote(p)
    <2>0. pass[p].pc = "note" /\ vault' = vault /\ notes' = notes
        BY <1>1 DEF BeginNote, store
    <2>1. PICK n \in pass[p].todo : \E seen \in BOOLEAN :
              pass' = [pass EXCEPT ![p].pc = "upsert", ![p].keep = @ \cup {n.path},
                                   ![p].seen = seen]
        BY <1>1 DEF BeginNote
    <2>2. /\ pass'[p].pc = "upsert"
          /\ pass'[p].walk = pass[p].walk /\ pass'[p].todo = pass[p].todo
          /\ pass'[p].skipped = pass[p].skipped /\ pass'[p].failed = pass[p].failed
          /\ pass'[p].keep = pass[p].keep \cup {n.path}
          /\ pass'[p].present = pass[p].present /\ pass'[p].settled = pass[p].settled
        BY <1>0, <2>1 DEF PassState
    <2>3. pass[p].walk = {}
        BY <2>0 DEF Local, QueuesDrained, Running
    <2>4. pass'[p].keep \subseteq pass[p].keep \cup PathsOf(pass[p].todo)
        BY <2>2 DEF PathsOf
    <2>5. QED BY <2>0, <2>2, <2>3, <2>4, FrameLocal DEF Running
<1>2. CASE UpsertNote(p)
    <2>1. PICK n \in pass[p].todo :
              \/ SameHash(n) /\ \E failed : NoteDone(p, n, failed)
              \/ pass' = [pass EXCEPT ![p].pc = "commit"]
        BY <1>2 DEF UpsertNote
    <2>2. pass[p].pc = "upsert" /\ vault' = vault /\ notes' = notes
        BY <1>2 DEF UpsertNote, store
    <2>3. CASE SameHash(n) /\ \E failed : NoteDone(p, n, failed)
        BY <2>2, <2>3, NoteDoneLocal DEF SameHash
    <2>4. CASE pass' = [pass EXCEPT ![p].pc = "commit"]
        <3>1. /\ pass'[p].pc = "commit"
              /\ pass'[p].walk = pass[p].walk /\ pass'[p].todo = pass[p].todo
              /\ pass'[p].skipped = pass[p].skipped /\ pass'[p].failed = pass[p].failed
              /\ pass'[p].keep = pass[p].keep
              /\ pass'[p].present = pass[p].present /\ pass'[p].settled = pass[p].settled
            BY <1>0, <2>4 DEF PassState
        <3>2. pass[p].walk = {}
            BY <2>2 DEF Local, QueuesDrained, Running
        <3>3. QED BY <2>2, <3>1, <3>2, FrameLocal DEF Running
    <2>5. QED BY <2>1, <2>3, <2>4
<1>3. CASE CommitNote(p)
    <2>1. PICK n \in pass[p].todo :
              \/ ReplaceNote(n) /\ NoteDone(p, n, {})
              \/ NoteDone(p, n, {n.path})
        BY <1>3 DEF CommitNote
    <2>2. pass[p].pc = "commit" /\ vault' = vault
        BY <1>3 DEF CommitNote
    <2>3. CASE ReplaceNote(n) /\ NoteDone(p, n, {})
        <3>1. n.path \in Files /\ notes \in [Files -> Contents \cup {None}]
            BY NextNoteType DEF TypeInv, TypeOK
        <3>2. notes'[n.path] = n.content
            BY <2>3, <3>1 DEF ReplaceNote
        <3>3. QED BY <2>2, <2>3, <3>2, NoteDoneLocal
    <2>4. QED BY <2>1, <2>2, <2>3, NoteDoneLocal
<1>4. CASE NotesDone(p)
    <2>1. /\ pass[p].pc = "note" /\ pass[p].todo = {} /\ pass'[p].todo = {}
          /\ pass'[p].pc = IF pass[p].failed = {} THEN "prune" ELSE "claim"
          /\ pass'[p].walk = pass[p].walk /\ pass'[p].failed = pass[p].failed
          /\ pass'[p].skipped = pass[p].skipped /\ pass'[p].keep = pass[p].keep
          /\ pass'[p].present = pass[p].present /\ pass'[p].settled = pass[p].settled
          /\ vault' = vault /\ notes' = notes
        BY <1>0, <1>4 DEF NotesDone, PassState, store
    <2>2. OnDisk' = OnDisk /\ OnDiskOf("parsed")' = OnDiskOf("parsed")
        BY <2>1 DEF OnDisk, OnDiskOf
    <2>3. pass[p].pc \in Running /\ pass[p].walk = {}
        BY <2>1 DEF Local, QueuesDrained, Running
    <2>4. QueuesDrained(p)'
        BY <2>1, <2>3 DEF QueuesDrained
    <2>5. SeesVault(p)'
        BY <2>1, <2>2, <2>3 DEF SeesVault, Local
    <2>6. p \notin Misconfigured => StoresVault(p)'
        BY <2>1, <2>2, <2>3 DEF StoresVault, Local
    <2>7. QED BY <2>4, <2>5, <2>6 DEF Local
<1>5. CASE SaveNoteFails(p)
    <2>1. PICK n \in pass[p].todo : NoteDone(p, n, {n.path})
        BY <1>5 DEF SaveNoteFails
    <2>2. pass[p].pc \in {"upsert", "commit"} /\ vault' = vault
        BY <1>5 DEF SaveNoteFails
    <2>3. QED BY <2>1, <2>2, NoteDoneLocal
<1>6. QED BY <1>1, <1>2, <1>3, <1>4, <1>5

\* A pass that sees the vault prunes exactly the notes without a file.
LEMMA VictimsOffDisk ==
    ASSUME TypeInv, NEW p \in Indexers, KeepComplete(p), Local(p),
           pass[p].settled, pass[p].pc = "prune"
    PROVE  /\ Victims(p) \cap OnDisk = {}
           /\ p \notin Misconfigured /\ OnDisk # {} =>
                  \A f \in Files \ OnDisk : f \in Victims(p) \/ notes[f] = None
           /\ OnDisk = {} => Victims(p) = {}
<1>1. pass[p].pc \in Running /\ pass[p].todo = {}
    BY DEF Local, QueuesDrained, Running
<1>2. pass[p].present = OnDisk /\ pass[p].keep \subseteq OnDisk
    BY <1>1 DEF Local, SeesVault
<1>3. CASE p \in Misconfigured
    BY <1>3 DEF KeepComplete, Victims
<1>4. CASE p \notin Misconfigured
    <2>1. pass[p].keep = OnDisk
        BY <1>1, <1>2, <1>4 DEF KeepComplete, PathsOf
    <2>2. QED BY <2>1 DEF Victims
<1>5. QED BY <1>3, <1>4

LEMMA LateLocal ==
    ASSUME TypeInv, NEW p \in Indexers, KeepComplete(p), Local(p),
           pass[p].settled => TowardsVault,
           \/ Prune(p) \/ ClaimPending(p) \/ EmbedPart(p) \/ SaveEmbeddings(p)
           \/ PassAborts(p)
    PROVE  Local(p)'
<1>0. pass \in [Indexers -> PassState]
    BY DEF TypeInv, TypeOK
<1>1. CASE Prune(p)
    <2>1. /\ pass[p].pc = "prune" /\ pass'[p].pc = "claim"
          /\ pass'[p].walk = pass[p].walk /\ pass'[p].todo = pass[p].todo
          /\ pass'[p].skipped = pass[p].skipped /\ pass'[p].keep = pass[p].keep
          /\ pass'[p].failed = pass[p].failed
          /\ pass'[p].present = pass[p].present /\ pass'[p].settled = pass[p].settled
          /\ vault' = vault
        BY <1>0, <1>1 DEF Prune, PassState
    <2>2. OnDisk' = OnDisk /\ OnDiskOf("parsed")' = OnDiskOf("parsed")
        BY <2>1 DEF OnDisk, OnDiskOf
    <2>3. /\ pass[p].pc \in Running /\ pass[p].walk = {} /\ pass[p].todo = {}
          /\ pass[p].failed = {}
        BY <2>1 DEF Local, QueuesDrained, Running
    <2>4. QueuesDrained(p)'
        BY <2>1, <2>3 DEF QueuesDrained
    <2>5. SeesVault(p)'
        BY <2>1, <2>2, <2>3 DEF SeesVault, Local
    <2>6. ASSUME p \notin Misconfigured, pass[p].settled, NEW f \in OnDiskOf("parsed")
          PROVE  notes'[f] = vault[f]
        <3>1. f \in Files /\ notes'[f] \in {notes[f], vault[f]}
            BY <2>6 DEF TowardsVault, OnDiskOf, OnDisk
        <3>2. notes[f] = vault[f]
            BY <2>3, <2>6 DEF StoresVault, Local, PathsOf
        <3>3. QED BY <3>1, <3>2
    <2>7. ASSUME p \notin Misconfigured, pass[p].settled, OnDisk # {},
                 NEW f \in Files \ OnDisk
          PROVE  notes'[f] = None
        BY <1>1, <2>1, <2>7, VictimsOffDisk DEF Prune
    <2>8. p \notin Misconfigured => StoresVault(p)'
        BY <2>1, <2>2, <2>6, <2>7 DEF StoresVault
    <2>9. QED BY <2>4, <2>5, <2>8 DEF Local
<1>2. ASSUME \E outcome \in Resting : \E failed : EndPass(p, outcome, failed)
      PROVE  Local(p)'
    BY <1>2, EndPassLocal
<1>3. ASSUME pass[p].pc \in {"claim", "embed", "store"},
             pass'[p].pc \in {"claim", "embed", "store"},
             pass'[p].walk = pass[p].walk, pass'[p].todo = pass[p].todo,
             pass'[p].skipped = pass[p].skipped, pass'[p].keep = pass[p].keep,
             pass'[p].failed = pass[p].failed, pass'[p].present = pass[p].present,
             pass'[p].settled = pass[p].settled, vault' = vault, notes' = notes
      PROVE  Local(p)'
    <2>1. pass[p].pc \in Running \ {"read"} /\ pass'[p].pc \in Running \ {"read", "prune"}
        BY <1>3 DEF Running
    <2>2. pass[p].walk = {}
        BY <2>1 DEF Local, QueuesDrained
    <2>3. QED BY <1>3, <2>1, <2>2, FrameLocal
<1>4. CASE ClaimPending(p)
    <2>1. CASE EndPass(p, Outcome(p), pass[p].failed)
        BY <1>2, <2>1 DEF Outcome, Resting
    <2>2. CASE \E batch : pass' = [pass EXCEPT ![p].pc = "embed", ![p].pending = batch]
        <3>1. pass[p].pc = "claim" /\ vault' = vault /\ notes' = notes
            BY <1>4 DEF ClaimPending, store
        <3>2. QED BY <1>0, <1>3, <2>2, <3>1 DEF PassState
    <2>3. QED BY <1>4, <2>1, <2>2 DEF ClaimPending
<1>5. CASE EmbedPart(p)
    <2>1. CASE EndPass(p, "failed", pass[p].failed)
        BY <1>2, <2>1 DEF Resting
    <2>2. CASE \E part : pass' = [pass EXCEPT ![p].pc = "store", ![p].part = part]
        <3>1. pass[p].pc = "embed" /\ vault' = vault /\ notes' = notes
            BY <1>5 DEF EmbedPart, store
        <3>2. QED BY <1>0, <1>3, <2>2, <3>1 DEF PassState
    <2>3. QED BY <1>5, <2>1, <2>2 DEF EmbedPart
<1>6. CASE SaveEmbeddings(p)
    <2>1. CASE EndPass(p, "failed", pass[p].failed)
        BY <1>2, <2>1 DEF Resting
    <2>2. CASE \E pc \in {"claim", "embed"} : \E left :
                  pass' = [pass EXCEPT ![p].pc = pc, ![p].pending = left, ![p].part = {}]
        <3>1. pass[p].pc = "store" /\ vault' = vault /\ notes' = notes
            BY <1>6 DEF SaveEmbeddings
        <3>2. PICK pc \in {"claim", "embed"} : \E left :
                  pass' = [pass EXCEPT ![p].pc = pc, ![p].pending = left, ![p].part = {}]
            BY <2>2
        <3>3. pass'[p].pc = pc
            BY <1>0, <3>2 DEF PassState
        <3>4. QED BY <1>0, <1>3, <3>1, <3>2, <3>3 DEF PassState
    <2>3. QED BY <1>6, <2>1, <2>2 DEF SaveEmbeddings
<1>7. CASE PassAborts(p)
    BY <1>2, <1>7 DEF PassAborts, Resting
<1>8. QED BY <1>1, <1>4, <1>5, <1>6, <1>7

-----------------------------------------------------------------------------
(***************************************************************************)
(* What it does to the others, and to what they have stored.               *)
(***************************************************************************)

\* A step other than the start leaves the history of its pass, which runs.
LEMMA SettledIsKept ==
    ASSUME TypeInv, NEW p \in Indexers, PassStep(p) \/ Fault(p)
    PROVE  pass'[p].settled = pass[p].settled /\ pass[p].pc \in Running
<1>0. pass \in [Indexers -> PassState]
    BY DEF TypeInv, TypeOK
<1>1. ASSUME NEW outcome, NEW failed, EndPass(p, outcome, failed)
      PROVE  pass'[p].settled = pass[p].settled
    BY <1>0, <1>1 DEF EndPass, Over
<1>2. ASSUME NEW n, NEW failed, NoteDone(p, n, failed)
      PROVE  pass'[p].settled = pass[p].settled
    BY <1>0, <1>2 DEF NoteDone, PassState
<1>3. CASE ScanFile(p) \/ ScanDone(p)
    <2>1. pass[p].pc \in Running
        BY <1>3 DEF ScanFile, ScanDone, Running
    <2>2. CASE ScanFile(p)
        <3>1. PICK f \in pass[p].walk :
                  \/ EndPass(p, "failed", {})
                  \/ \E walk, skipped :
                        pass' = [pass EXCEPT ![p].walk = walk, ![p].skipped = skipped]
                  \/ \E walk, todo :
                        pass' = [pass EXCEPT ![p].walk = walk, ![p].todo = todo]
            BY <2>2 DEF ScanFile
        <3>2. QED BY <1>0, <1>1, <2>1, <3>1 DEF PassState
    <2>3. CASE ScanDone(p)
        BY <1>0, <2>1, <2>3 DEF ScanDone, PassState
    <2>4. QED BY <1>3, <2>2, <2>3
<1>4. CASE BeginNote(p)
    <2>1. \E keep, seen : pass' = [pass EXCEPT ![p].pc = "upsert", ![p].keep = keep,
                                               ![p].seen = seen]
        BY <1>4 DEF BeginNote
    <2>2. QED BY <1>0, <1>4, <2>1 DEF BeginNote, PassState, Running
<1>5. CASE UpsertNote(p)
    <2>1. \/ \E n, failed : NoteDone(p, n, failed)
          \/ pass' = [pass EXCEPT ![p].pc = "commit"]
        BY <1>5 DEF UpsertNote
    <2>2. pass[p].pc \in Running
        BY <1>5 DEF UpsertNote, Running
    <2>3. QED BY <1>0, <1>2, <2>1, <2>2 DEF PassState
<1>6. CASE CommitNote(p) \/ SaveNoteFails(p)
    <2>1. \E n, failed : NoteDone(p, n, failed)
        BY <1>6 DEF CommitNote, SaveNoteFails
    <2>2. pass[p].pc \in Running
        BY <1>6 DEF CommitNote, SaveNoteFails, Running
    <2>3. QED BY <1>2, <2>1, <2>2
<1>7. CASE NotesDone(p) \/ Prune(p)
    <2>1. \E pc : pass' = [pass EXCEPT ![p].pc = pc]
        BY <1>7 DEF NotesDone, Prune
    <2>2. pass[p].pc \in Running
        BY <1>7 DEF NotesDone, Prune, Running
    <2>3. QED BY <1>0, <2>1, <2>2 DEF PassState
<1>8. CASE ClaimPending(p) \/ EmbedPart(p) \/ SaveEmbeddings(p)
    <2>1. pass[p].pc \in {"claim", "embed", "store"}
        BY <1>8 DEF ClaimPending, EmbedPart, SaveEmbeddings
    <2>2. pass[p].pc \in Running
        BY <2>1 DEF Running
    <2>3. CASE ClaimPending(p)
        <3>1. \/ EndPass(p, Outcome(p), pass[p].failed)
              \/ \E batch : pass' = [pass EXCEPT ![p].pc = "embed", ![p].pending = batch]
            BY <2>3 DEF ClaimPending
        <3>2. QED BY <1>0, <1>1, <2>2, <3>1 DEF PassState
    <2>4. CASE EmbedPart(p)
        <3>1. \/ EndPass(p, "failed", pass[p].failed)
              \/ \E part : pass' = [pass EXCEPT ![p].pc = "store", ![p].part = part]
            BY <2>4 DEF EmbedPart
        <3>2. QED BY <1>0, <1>1, <2>2, <3>1 DEF PassState
    <2>5. CASE SaveEmbeddings(p)
        <3>1. \/ EndPass(p, "failed", pass[p].failed)
              \/ \E pc, left : pass' = [pass EXCEPT ![p].pc = pc, ![p].pending = left,
                                                    ![p].part = {}]
            BY <2>5 DEF SaveEmbeddings
        <3>2. QED BY <1>0, <1>1, <2>2, <3>1 DEF PassState
    <2>6. QED BY <1>8, <2>3, <2>4, <2>5
<1>9. CASE PassAborts(p)
    BY <1>1, <1>9 DEF PassAborts
<1>10. QED BY <1>3, <1>4, <1>5, <1>6, <1>7, <1>8, <1>9 DEF PassStep, Fault

\* How a step of a pass changes the notes.
LEMMA NoteWrites ==
    ASSUME NEW p \in Indexers, StartIndex(p) \/ PassStep(p) \/ Fault(p)
    PROVE  /\ vault' = vault
           /\ \/ notes' = notes /\ chunks' = chunks
              \/ pass[p].pc = "prune" /\ Prune(p)
              \/ \E n \in pass[p].todo : WritesNext(p, n) /\ ReplaceNote(n)
                                         /\ Kind[n.content] = "parsed"
<1>1. CASE CommitNote(p) \/ SaveNoteFails(p)
    BY <1>1 DEF CommitNote, SaveNoteFails, RollBack, WritesNext, store
<1>2. CASE Prune(p)
    BY <1>2 DEF Prune
<1>3. CASE StartIndex(p) \/ ScanFile(p) \/ ScanDone(p) \/ BeginNote(p)
    BY <1>3 DEF StartIndex, ScanFile, ScanDone, BeginNote, store
<1>4. CASE UpsertNote(p) \/ NotesDone(p) \/ ClaimPending(p) \/ EmbedPart(p)
    BY <1>4 DEF UpsertNote, NotesDone, ClaimPending, EmbedPart, store
<1>5. CASE SaveEmbeddings(p) \/ PassAborts(p)
    BY <1>5 DEF SaveEmbeddings, PassAborts, store
<1>6. QED BY <1>1, <1>2, <1>3, <1>4, <1>5 DEF PassStep, Fault

\* A pass that sees the vault moves the notes towards it.
LEMMA WritesTowardsVault ==
    ASSUME TypeInv, NEW p \in Indexers, KeepComplete(p), Local(p),
           StartIndex(p) \/ PassStep(p) \/ Fault(p),
           pass[p].settled
    PROVE  TowardsVault
<1>0. notes \in [Files -> Contents \cup {None}]
    BY DEF TypeInv, TypeOK
<1>1. CASE notes' = notes
    BY <1>1 DEF TowardsVault
<1>2. CASE pass[p].pc = "prune" /\ Prune(p)
    <2>1. \A f \in Victims(p) : f \in Files /\ vault[f] = None
        BY <1>2, VictimsOffDisk DEF Victims, OnDisk
    <2>2. QED BY <1>2, <2>1 DEF Prune, TowardsVault
<1>3. ASSUME NEW n \in pass[p].todo, WritesNext(p, n), ReplaceNote(n)
      PROVE  TowardsVault
    <2>1. n.path \in Files /\ vault[n.path] = n.content
        BY <1>3, ContentOnDisk, NextNoteType DEF WritesNext, Local, Running
    <2>2. QED BY <1>0, <1>3, <2>1 DEF ReplaceNote, TowardsVault
<1>4. QED BY <1>1, <1>2, <1>3, NoteWrites

\* Over an index in line with the vault such a pass writes nothing.
LEMMA SyncedStays ==
    ASSUME TypeInv, RowLocks, NEW p \in Indexers, KeepComplete(p), Local(p),
           StartIndex(p) \/ PassStep(p) \/ Fault(p),
           pass[p].pc \in Running => pass[p].settled, NotesInSync
    PROVE  UNCHANGED <<notes, chunks>>
<1>0. notes \in [Files -> Contents \cup {None}] /\ chunks \subseteq ChunkRow
    BY DEF TypeInv, TypeOK
<1>1. CASE pass[p].pc = "prune" /\ Prune(p)
    <2>1. pass[p].settled
        BY <1>1 DEF Running
    <2>2. Victims(p) \cap OnDisk = {} /\ (OnDisk = {} => Victims(p) = {})
        BY <1>1, <2>1, VictimsOffDisk
    <2>3. \A f \in Victims(p) : f \in Files /\ notes[f] # None
        BY DEF Victims
    <2>4. Victims(p) = {}
        BY <2>2, <2>3 DEF NotesInSync
    <2>5. QED BY <1>0, <1>1, <2>4 DEF Prune
<1>2. ASSUME NEW n \in pass[p].todo, WritesNext(p, n), Kind[n.content] = "parsed"
      PROVE  FALSE
    <2>1. n.path \in OnDisk /\ vault[n.path] = n.content
        BY <1>2, ContentOnDisk DEF WritesNext, Local, Running
    <2>2. notes[n.path] = n.content
        BY <1>2, <2>1 DEF NotesInSync
    <2>3. QED BY <1>2, <2>2 DEF RowLocks
<1>3. QED BY <1>1, <1>2, NoteWrites

\* Vectors are only lost with their chunk or to a newer vector of it.
LEMMA EmbeddedStays ==
    ASSUME TypeInv, NEW p \in Indexers, StartIndex(p) \/ PassStep(p) \/ Fault(p),
           UNCHANGED chunks, NEW s \in Spaces, AllEmbedded(s)
    PROVE  AllEmbedded(s)'
<1>0. vectors \in [Spaces -> SUBSET VectorRow]
    BY DEF TypeInv, TypeOK
<1>1. CASE vectors' = vectors
    BY <1>1 DEF AllEmbedded
<1>2. CASE vectors' = Cascade(chunks')
    BY <1>2 DEF AllEmbedded, Cascade
<1>3. CASE SaveEmbeddings(p) /\ vectors' # vectors
    <2> DEFINE part == pass[p].part
               ids == {r.id : r \in part}
    <2>1. vectors' = [vectors EXCEPT ![SpaceOf[p]] =
                        {v \in @ : v.chunk \notin ids}
                            \cup {[chunk |-> r.id, of |-> r.text] : r \in part}]
        BY <1>3 DEF SaveEmbeddings
    <2>2. CASE s # SpaceOf[p]
        BY <1>0, <2>1, <2>2 DEF AllEmbedded
    <2>3. CASE s = SpaceOf[p]
        <3>1. vectors'[s] = {v \in vectors[s] : v.chunk \notin ids}
                                \cup {[chunk |-> r.id, of |-> r.text] : r \in part}
            BY <1>0, <2>1, <2>3
        <3>2. ASSUME NEW r \in chunks PROVE \E v \in vectors'[s] : v.chunk = r.id
            <4>1. PICK v \in vectors[s] : v.chunk = r.id
                BY DEF AllEmbedded
            <4>2. CASE r.id \in ids
                <5>1. PICK q \in part : q.id = r.id
                    BY <4>2
                <5>2. [chunk |-> q.id, of |-> q.text] \in vectors'[s]
                    BY <3>1, <5>1
                <5>3. QED BY <5>1, <5>2
            <4>3. CASE r.id \notin ids
                BY <3>1, <4>1, <4>3
            <4>4. QED BY <4>2, <4>3
        <3>3. QED BY <3>2 DEF AllEmbedded
    <2>4. QED BY <2>2, <2>3
<1>4. CASE CommitNote(p) \/ SaveNoteFails(p) \/ Prune(p)
    <2>1. vectors' = vectors \/ vectors' = Cascade(chunks')
        BY <1>4 DEF CommitNote, SaveNoteFails, Prune, RollBack, ReplaceNote, store
    <2>2. QED BY <1>1, <1>2, <2>1
<1>5. CASE \/ StartIndex(p) \/ ScanFile(p) \/ ScanDone(p) \/ BeginNote(p)
           \/ UpsertNote(p) \/ NotesDone(p) \/ ClaimPending(p) \/ EmbedPart(p)
           \/ PassAborts(p)
    <2>1. vectors' = vectors
        BY <1>5 DEF StartIndex, ScanFile, ScanDone, BeginNote, UpsertNote, NotesDone,
                    ClaimPending, EmbedPart, PassAborts, store
    <2>2. QED BY <1>1, <2>1
<1>6. QED BY <1>1, <1>3, <1>4, <1>5 DEF PassStep, Fault

-----------------------------------------------------------------------------
(***************************************************************************)
(* All passes together.                                                    *)
(***************************************************************************)
LEMMA LocalStep ==
    ASSUME TypeInv, NEW p \in Indexers, KeepComplete(p), Local(p),
           StartIndex(p) \/ PassStep(p) \/ Fault(p)
    PROVE  Local(p)'
<1>1. pass[p].settled => TowardsVault
    BY WritesTowardsVault
<1>2. CASE StartIndex(p)
    BY <1>2, StartLocal
<1>3. CASE ScanFile(p) \/ ScanDone(p)
    BY <1>3, ScanLocal
<1>4. CASE \/ BeginNote(p) \/ UpsertNote(p) \/ CommitNote(p) \/ NotesDone(p)
           \/ SaveNoteFails(p)
    BY <1>1, <1>4, SaveNoteLocal
<1>5. CASE \/ Prune(p) \/ ClaimPending(p) \/ EmbedPart(p) \/ SaveEmbeddings(p)
           \/ PassAborts(p)
    BY <1>1, <1>5, LateLocal
<1>6. QED BY <1>2, <1>3, <1>4, <1>5 DEF PassStep, Fault

LEMMA TogetherStep ==
    ASSUME TypeInv, SettledTogether, NEW p \in Indexers,
           StartIndex(p) \/ PassStep(p) \/ Fault(p)
    PROVE  SettledTogether'
<1>0. /\ pass \in [Indexers -> PassState]
      /\ \A q \in Indexers : pass[q].pc \in Resting \/ pass[q].pc \in Running
    BY DEF TypeInv, TypeOK, PassState
<1>1. \A q \in Indexers \ {p} : pass'[q] = pass[q]
    BY OthersUntouched
<1>2. CASE PassStep(p) \/ Fault(p)
    <2>1. pass'[p].settled = pass[p].settled /\ pass[p].pc \in Running
        BY <1>2, SettledIsKept
    <2>2. QED BY <1>1, <2>1 DEF SettledTogether
<1>3. CASE StartIndex(p)
    <2>1. pass'[p].settled <=>
              \A q \in Indexers \ {p} : pass[q].pc \in Resting \/ pass[q].settled
        BY <1>0, <1>3 DEF StartIndex, Over
    <2>2. ASSUME NEW q \in Indexers, pass'[q].settled
          PROVE  \A r \in Indexers \ {p} : pass[r].pc \in Resting \/ pass[r].settled
        <3>1. CASE q = p
            BY <2>1, <2>2, <3>1
        <3>2. CASE q # p
            BY <1>0, <1>1, <2>2, <3>2 DEF SettledTogether
        <3>3. QED BY <3>1, <3>2
    <2>3. \A q \in Indexers : pass[q].pc \in Resting => pass[q].pc \notin Running
        BY DEF Resting, Running
    <2>4. QED BY <1>1, <2>1, <2>2, <2>3 DEF SettledTogether
<1>4. QED BY <1>2, <1>3

\* A pass returns nil only from the claim that finds nothing left to embed.
LEMMA DoneIsClaimed ==
    ASSUME TypeInv, NEW p \in Indexers, StartIndex(p) \/ PassStep(p) \/ Fault(p),
           pass'[p].pc = "done"
    PROVE  /\ pass[p].pc = "claim" /\ pass[p].failed = {}
           /\ PendingRows(SpaceOf[p]) = {}
           /\ UNCHANGED <<vault, store>>
<1>0. pass \in [Indexers -> PassState]
    BY DEF TypeInv, TypeOK
<1>1. ASSUME NEW failed, EndPass(p, "failed", failed)
      PROVE  FALSE
    BY <1>1, EndPassEmpties
<1>2. ASSUME NEW n, NEW failed, NoteDone(p, n, failed)
      PROVE  FALSE
    BY <1>2, NoteDoneDrops
<1>3. CASE StartIndex(p)
    BY <1>0, <1>3 DEF StartIndex, Over
<1>4. CASE ScanFile(p)
    <2>1. PICK f \in pass[p].walk :
              \/ EndPass(p, "failed", {})
              \/ \E walk, skipped :
                    pass' = [pass EXCEPT ![p].walk = walk, ![p].skipped = skipped]
              \/ \E walk, todo :
                    pass' = [pass EXCEPT ![p].walk = walk, ![p].todo = todo]
        BY <1>4 DEF ScanFile
    <2>2. pass[p].pc = "read"
        BY <1>4 DEF ScanFile
    <2>3. QED BY <1>0, <1>1, <2>1, <2>2 DEF PassState
<1>5. CASE BeginNote(p)
    <2>1. \E keep, seen : pass' = [pass EXCEPT ![p].pc = "upsert", ![p].keep = keep,
                                               ![p].seen = seen]
        BY <1>5 DEF BeginNote
    <2>2. QED BY <1>0, <2>1 DEF PassState
<1>6. CASE UpsertNote(p)
    <2>1. \/ \E n, failed : NoteDone(p, n, failed)
          \/ pass' = [pass EXCEPT ![p].pc = "commit"]
        BY <1>6 DEF UpsertNote
    <2>2. QED BY <1>0, <1>2, <2>1 DEF PassState
<1>7. CASE CommitNote(p) \/ SaveNoteFails(p)
    BY <1>2, <1>7 DEF CommitNote, SaveNoteFails
<1>8. CASE ScanDone(p) \/ NotesDone(p) \/ Prune(p)
    <2>1. pass'[p].pc \in {"note", "prune", "claim"}
        BY <1>0, <1>8 DEF ScanDone, NotesDone, Prune, PassState
    <2>2. QED BY <2>1
<1>9. CASE EmbedPart(p) \/ SaveEmbeddings(p)
    <2>1. \/ \E failed : EndPass(p, "failed", failed)
          \/ \E part : pass' = [pass EXCEPT ![p].pc = "store", ![p].part = part]
          \/ \E pc \in {"claim", "embed"} : \E left :
                 pass' = [pass EXCEPT ![p].pc = pc, ![p].pending = left, ![p].part = {}]
        BY <1>9 DEF EmbedPart, SaveEmbeddings
    <2>2. CASE \E pc \in {"claim", "embed"} : \E left :
                 pass' = [pass EXCEPT ![p].pc = pc, ![p].pending = left, ![p].part = {}]
        <3>1. pass'[p].pc \in {"claim", "embed"}
            BY <1>0, <2>2 DEF PassState
        <3>2. QED BY <3>1
    <2>3. QED BY <1>0, <1>1, <2>1, <2>2 DEF PassState
<1>10. CASE PassAborts(p)
    BY <1>1, <1>10 DEF PassAborts
<1>11. CASE ClaimPending(p)
    <2>1. CASE PendingRows(SpaceOf[p]) = {} /\ EndPass(p, Outcome(p), pass[p].failed)
        <3>1. Outcome(p) = "done"
            BY <2>1, EndPassEmpties
        <3>2. QED BY <1>11, <2>1, <3>1 DEF ClaimPending, Outcome
    <2>2. CASE \E batch : pass' = [pass EXCEPT ![p].pc = "embed", ![p].pending = batch]
        BY <1>0, <2>2 DEF PassState
    <2>3. QED BY <1>11, <2>1, <2>2 DEF ClaimPending
<1>12. QED BY <1>3, <1>4, <1>5, <1>6, <1>7, <1>8, <1>9, <1>10, <1>11 DEF PassStep, Fault

\* The pass that returns nil has synced.
LEMMA DoneIsSynced ==
    ASSUME TypeInv, NEW p \in Indexers \ Misconfigured, Local(p),
           PassStep(p) \/ Fault(p), pass[p].settled, pass'[p].pc = "done"
    PROVE  InSync(SpaceOf[p])'
<1>1. /\ pass[p].pc = "claim" /\ pass[p].failed = {}
      /\ PendingRows(SpaceOf[p]) = {}
      /\ UNCHANGED <<vault, store>>
    BY DoneIsClaimed
<1>2. pass[p].pc \in Running /\ pass[p].walk = {} /\ pass[p].todo = {}
    BY <1>1 DEF Local, QueuesDrained, Running
<1>3. NotesInSync
    BY <1>1, <1>2 DEF Local, StoresVault, NotesInSync, OnDiskOf, PathsOf
<1>4. AllEmbedded(SpaceOf[p])
    BY <1>1 DEF PendingRows, AllEmbedded
<1>5. NotesInSync'
    BY <1>1, <1>3 DEF NotesInSync, OnDisk, store
<1>6. AllEmbedded(SpaceOf[p])'
    BY <1>1, <1>4 DEF AllEmbedded, store
<1>7. QED BY <1>5, <1>6 DEF InSync

LEMMA EnvironmentSyncs ==
    ASSUME TypeInv, SettledPassesSync, Edit \/ RefillQuota \/ UNCHANGED vars
    PROVE  SettledPassesSync'
<1>1. CASE RefillQuota \/ UNCHANGED vars
    <2>1. UNCHANGED <<vault, notes, chunks, vectors, pass>>
        BY <1>1 DEF RefillQuota, vars, store
    <2>2. QED BY <2>1 DEF SettledPassesSync, SettledTogether, QueuesDrained, SeesVault,
                          StoresVault, SettledPassSyncs, InSync, NotesInSync, AllEmbedded,
                          OnDisk, OnDiskOf
<1>2. CASE Edit
    <2>1. \A q \in Indexers : pass[q] \in PassState
        BY DEF TypeInv, TypeOK
    <2>2. \A q \in Indexers : /\ pass'[q].settled = FALSE
                              /\ pass'[q].pc = pass[q].pc
                              /\ pass'[q].walk = pass[q].walk
                              /\ pass'[q].todo = pass[q].todo
                              /\ pass'[q].failed = pass[q].failed
        <3>1. ASSUME NEW f \in Files, NEW c \in Contents, WriteFile(f, c),
                     NEW q \in Indexers
              PROVE  /\ pass'[q].settled = FALSE
                     /\ pass'[q].pc = pass[q].pc
                     /\ pass'[q].walk = pass[q].walk
                     /\ pass'[q].todo = pass[q].todo
                     /\ pass'[q].failed = pass[q].failed
            BY <2>1, <3>1 DEF WriteFile, PassState
        <3>2. ASSUME NEW f \in Files, RemoveFile(f), NEW q \in Indexers
              PROVE  /\ pass'[q].settled = FALSE
                     /\ pass'[q].pc = pass[q].pc
                     /\ pass'[q].walk = pass[q].walk
                     /\ pass'[q].todo = pass[q].todo
                     /\ pass'[q].failed = pass[q].failed
            BY <2>1, <3>2 DEF RemoveFile, PassState
        <3>3. QED BY <1>2, <3>1, <3>2 DEF Edit
    <2>3. \A q \in Indexers : QueuesDrained(q)'
        BY <2>2 DEF QueuesDrained, SettledPassesSync
    <2>4. QED BY <2>2, <2>3 DEF SettledPassesSync, SettledTogether, SeesVault,
                                StoresVault, SettledPassSyncs
<1>3. QED BY <1>1, <1>2

\* What a pass that stands by keeps when another one takes its step.
LEMMA OthersSync ==
    ASSUME SyncInv, NEW p \in Indexers, StartIndex(p) \/ PassStep(p) \/ Fault(p),
           NEW q \in Indexers \ {p}
    PROVE  /\ Local(q)'
           /\ q \notin Misconfigured /\ pass'[q].pc = "done" /\ pass'[q].settled
                 => InSync(SpaceOf[q])'
<1>1. pass'[q] = pass[q] /\ vault' = vault
    BY OthersUntouched, NoteWrites DEF SyncInv
<1>2. Local(p) /\ Local(q) /\ KeepComplete(p)
    BY DEF SyncInv, SettledPassesSync, KeepListComplete, Local
<1>3. OnDisk' = OnDisk /\ OnDiskOf("parsed")' = OnDiskOf("parsed")
    BY <1>1 DEF OnDisk, OnDiskOf
<1>4. pass[q].settled /\ pass[p].pc \in Running => pass[p].settled
    BY DEF SyncInv, SettledPassesSync, SettledTogether
<1>5. ASSUME pass[q].settled PROVE TowardsVault
    <2>1. CASE StartIndex(p)
        BY <2>1 DEF StartIndex, store, TowardsVault
    <2>2. CASE PassStep(p) \/ Fault(p)
        BY <1>2, <1>4, <1>5, <2>2, SettledIsKept, WritesTowardsVault DEF SyncInv
    <2>3. QED BY <2>1, <2>2
<1>6. QueuesDrained(q)' /\ SeesVault(q)'
    BY <1>1, <1>2, <1>3 DEF Local, QueuesDrained, SeesVault
<1>7. ASSUME q \notin Misconfigured PROVE StoresVault(q)'
    <2>1. StoresVault(q)
        BY <1>2, <1>7 DEF Local
    <2>2. ASSUME pass[q].settled, NEW f \in Files PROVE notes'[f] \in {notes[f], vault[f]}
        BY <1>5, <2>2 DEF TowardsVault
    <2>3. OnDiskOf("parsed") \subseteq Files /\ \A f \in Files \ OnDisk : vault[f] = None
        BY DEF OnDiskOf, OnDisk
    <2>4. QED BY <1>1, <1>3, <2>1, <2>2, <2>3 DEF StoresVault
<1>8. ASSUME q \notin Misconfigured, pass[q].pc = "done", pass[q].settled
      PROVE  InSync(SpaceOf[q])'
    <2>1. NotesInSync /\ AllEmbedded(SpaceOf[q])
        BY <1>8 DEF SyncInv, SettledPassesSync, SettledPassSyncs, InSync
    <2>2. UNCHANGED <<notes, chunks>>
        BY <1>2, <1>4, <1>8, <2>1, SyncedStays DEF SyncInv
    <2>3. NotesInSync'
        BY <1>1, <2>1, <2>2 DEF NotesInSync, OnDisk
    <2>4. AllEmbedded(SpaceOf[q])'
        BY <2>1, <2>2, EmbeddedStays, ConfigAssumption DEF SyncInv
    <2>5. QED BY <2>3, <2>4 DEF InSync
<1>9. QED BY <1>1, <1>6, <1>7, <1>8 DEF Local

LEMMA SyncStep ==
    ASSUME SyncInv, [Next]_vars
    PROVE  SyncInv'
<1>1. TypeInv' /\ KeepListComplete' /\ RowLocks'
    BY TypeStep, KeepStep, LocksStep DEF SyncInv
<1>2. CASE Edit \/ RefillQuota \/ UNCHANGED vars
    BY <1>1, <1>2, EnvironmentSyncs DEF SyncInv
<1>3. ASSUME NEW p \in Indexers, StartIndex(p) \/ PassStep(p) \/ Fault(p)
      PROVE  SyncInv'
    <2>1. Local(p) /\ KeepComplete(p)
        BY DEF SyncInv, SettledPassesSync, KeepListComplete, Local
    <2>2. Local(p)'
        BY <1>3, <2>1, LocalStep DEF SyncInv
    <2>3. \A q \in Indexers : Local(q)'
        BY <1>3, <2>2, OthersSync
    <2>4. SettledTogether'
        BY <1>3, TogetherStep DEF SyncInv, SettledPassesSync
    <2>5. ASSUME NEW q \in Indexers \ Misconfigured, pass'[q].pc = "done", pass'[q].settled
          PROVE  InSync(SpaceOf[q])'
        <3>1. CASE q # p
            BY <1>3, <2>5, <3>1, OthersSync
        <3>2. CASE q = p
            <4>1. pass[p].pc = "claim"
                BY <1>3, <2>5, <3>2, DoneIsClaimed DEF SyncInv
            <4>2. ~StartIndex(p)
                BY <4>1 DEF StartIndex, Resting
            <4>3. pass[p].settled
                BY <1>3, <2>5, <3>2, <4>2, SettledIsKept DEF SyncInv
            <4>4. QED BY <1>3, <2>1, <2>5, <3>2, <4>2, <4>3, DoneIsSynced DEF SyncInv
        <3>3. QED BY <3>1, <3>2
    <2>6. SettledPassesSync'
        BY <2>3, <2>4, <2>5 DEF SettledPassesSync, SettledPassSyncs, Local
    <2>7. QED BY <1>1, <2>6 DEF SyncInv
<1>4. QED BY <1>2, <1>3 DEF Next

-----------------------------------------------------------------------------
LEMMA SyncInit == Init => SyncInv
<1> SUFFICES ASSUME Init PROVE SyncInv
    OBVIOUS
<1>1. TypeInv
    BY TypeInit
<1>2. \A p \in Indexers : /\ pass[p].pc = "idle" /\ ~pass[p].settled
                          /\ pass[p].walk = {} /\ pass[p].todo = {}
    BY DEF Init, Over
<1>3. KeepListComplete
    BY DEF Init, KeepListComplete, KeepComplete, Over
<1>4. RowLocks
    BY <1>2 DEF RowLocks, QueuedOnce, WritesNext
<1>5. SettledPassesSync
    BY <1>2 DEF SettledPassesSync, SettledTogether, QueuesDrained, SeesVault,
                StoresVault, SettledPassSyncs, Running
<1>6. QED BY <1>1, <1>3, <1>4, <1>5 DEF SyncInv

LEMMA SyncInvariant == Spec => []SyncInv
<1>1. Init => SyncInv
    BY SyncInit
<1>2. SyncInv /\ [Next]_vars => SyncInv'
    BY SyncStep
<1>3. QED BY <1>1, <1>2, PTL DEF Spec

\* When Index returns nil and nobody edited the vault under it or under a pass
\* beside it, the index is in line with the vault, whatever number of passes ran,
\* failed or died meanwhile; and it stays so until the next edit.
THEOREM SyncCorrect == Spec => []SettledPassSyncs
<1>1. SyncInv => SettledPassSyncs
    BY DEF SyncInv, SettledPassesSync
<1>2. QED BY <1>1, SyncInvariant, PTL

\* Over an index in line with the vault, passes that see the vault as it is write
\* no note and no chunk, so repeating Index costs no embedding.
THEOREM RepeatCorrect == Spec => RepeatWritesNothing
<1>1. ASSUME SyncInv, [Next]_vars
      PROVE  NotesInSync
             /\ (\A p \in Indexers : pass[p].pc \in Resting \/ pass[p].settled)
             => UNCHANGED <<notes, chunks>>
    <2> SUFFICES ASSUME NotesInSync,
                        \A p \in Indexers : pass[p].pc \in Resting \/ pass[p].settled
                 PROVE  UNCHANGED <<notes, chunks>>
        OBVIOUS
    <2>1. CASE Edit \/ RefillQuota \/ UNCHANGED vars
        BY <2>1 DEF Edit, WriteFile, RemoveFile, RefillQuota, vars, store
    <2>2. ASSUME NEW p \in Indexers, StartIndex(p) \/ PassStep(p) \/ Fault(p)
          PROVE  UNCHANGED <<notes, chunks>>
        <3>1. Local(p) /\ KeepComplete(p)
            BY <1>1 DEF SyncInv, SettledPassesSync, KeepListComplete, Local
        <3>2. pass[p].pc \in Running => pass[p].settled
            BY DEF Resting, Running
        <3>3. QED BY <1>1, <2>2, <3>1, <3>2, SyncedStays DEF SyncInv
    <2>3. QED BY <1>1, <2>1, <2>2 DEF Next
<1>2. QED BY <1>1, SyncInvariant, PTL DEF Spec, RepeatWritesNothing
=============================================================================
