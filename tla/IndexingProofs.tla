--------------------------- MODULE IndexingProofs ---------------------------
(***************************************************************************)
(* Types and safety of Indexing, for any indexers, spaces, files, contents *)
(* and limits.                                                             *)
(***************************************************************************)
EXTENDS Indexing, FiniteSetTheorems, TLAPS

-----------------------------------------------------------------------------
(***************************************************************************)
(* Lemmas about the operators the actions are built from.                  *)
(***************************************************************************)

\* What a pass leaves behind is a pass state.
LEMMA OverIsPassState ==
    ASSUME NEW outcome \in Resting, NEW failed \in SUBSET Files,
           NEW settled \in BOOLEAN
    PROVE  Over(outcome, failed, settled) \in PassState
BY DEF Over, PassState

\* The chunks of a content are texts, numbered from 1.
LEMMA CutTexts ==
    ASSUME NEW c \in Contents
    PROVE  /\ Len(Cut[c]) \in Nat
           /\ DOMAIN Cut[c] = 1..Len(Cut[c])
           /\ \A i \in DOMAIN Cut[c] : Cut[c][i] \in Texts
BY ConfigAssumption

\* The rows inserted for a note are chunk rows with ids from nextChunk on.
LEMMA NewRowsAreRows ==
    ASSUME TypeOK, NEW f \in Files, NEW c \in Contents
    PROVE  NewRows(f, c) \subseteq ChunkRow
<1> SUFFICES ASSUME NEW i \in DOMAIN Cut[c]
             PROVE  [id |-> nextChunk + i - 1, note |-> f, index |-> i - 1,
                     text |-> Cut[c][i]] \in ChunkRow
    BY DEF NewRows
<1>1. i \in Nat /\ i >= 1 /\ Cut[c][i] \in Texts
    BY CutTexts
<1>2. nextChunk \in Nat
    BY DEF TypeOK
<1>3. QED BY <1>1, <1>2 DEF ChunkRow

\* They are finitely many.
LEMMA NewRowsAreFinite ==
    ASSUME NEW f \in Files, NEW c \in Contents
    PROVE  IsFiniteSet(NewRows(f, c))
<1> DEFINE row == [i \in DOMAIN Cut[c] |->
                      [id |-> nextChunk + i - 1, note |-> f, index |-> i - 1,
                       text |-> Cut[c][i]]]
<1>1. IsFiniteSet(DOMAIN Cut[c])
    <2>1. Len(Cut[c]) \in Int /\ 1 \in Int
        BY CutTexts
    <2>2. IsFiniteSet(1..Len(Cut[c]))
        BY <2>1, FS_Interval
    <2>3. QED BY <2>2, CutTexts
<1>2. row \in Surjection(DOMAIN Cut[c], NewRows(f, c))
    BY DEF NewRows, Surjection
<1>3. QED BY <1>1, <1>2, FS_Surjection

\* Cascade only drops vectors.
LEMMA CascadeDrops ==
    ASSUME vectors \in [Spaces -> SUBSET VectorRow], NEW rows
    PROVE  /\ Cascade(rows) \in [Spaces -> SUBSET VectorRow]
           /\ \A s \in Spaces : Cascade(rows)[s] \subseteq vectors[s]
BY DEF Cascade

\* A provider call's worth of texts takes a whole number of calls.
LEMMA CallsAreNatural ==
    ASSUME NEW part, IsFiniteSet(part)
    PROVE  CallsFor(part) \in Nat
<1>1. Cardinality(part) \in Nat
    BY FS_CardinalityType
<1>2. MaxBatch \in Nat /\ MaxBatch > 0
    BY LimitAssumption
<1>3. QED BY <1>1, <1>2, SMTT(20) DEF CallsFor

-----------------------------------------------------------------------------
(***************************************************************************)
(* Type correctness.  That a refused or granted call leaves a quota is a   *)
(* number only if what was claimed is finite, so the two go together.      *)
(***************************************************************************)
TypeInv == TypeOK /\ FiniteRows

LEMMA TypeInit == Init => TypeInv
<1> SUFFICES ASSUME Init PROVE TypeInv
    OBVIOUS
<1> USE DEF Init
<1>1. Over("idle", {}, FALSE) \in PassState
    BY OverIsPassState DEF Resting
<1>2. TypeOK
    <2>1. pass \in [Indexers -> PassState]
        BY <1>1
    <2>2. notes \in [Files -> Contents \cup {None}] /\ chunks \subseteq ChunkRow
        OBVIOUS
    <2>3. vectors \in [Spaces -> SUBSET VectorRow]
        OBVIOUS
    <2>4. nextChunk \in Nat /\ quota \in 0..Quota /\ edits \in 0..MaxEdits /\ faults \in 0..MaxFaults
        BY LimitAssumption
    <2>5. QED BY <2>1, <2>2, <2>3, <2>4 DEF TypeOK
<1>3. IsFiniteSet({})
    BY FS_EmptySet
<1>4. FiniteRows
    BY <1>3 DEF FiniteRows, Over
<1>5. QED BY <1>2, <1>4 DEF TypeInv

PassInv ==
    /\ pass \in [Indexers -> PassState]
    /\ \A q \in Indexers : IsFiniteSet(pass[q].pending)

\* Every step that is the indexer's own replaces its state by another.
LEMMA PassReplaced ==
    ASSUME TypeInv, NEW p \in Indexers, NEW st \in PassState,
           IsFiniteSet(st.pending), pass' = [pass EXCEPT ![p] = st]
    PROVE  PassInv'
BY DEF TypeInv, TypeOK, FiniteRows, PassInv

LEMMA EndPassType ==
    ASSUME TypeInv, NEW p \in Indexers, NEW outcome \in Resting,
           NEW failed \in SUBSET Files, EndPass(p, outcome, failed)
    PROVE  PassInv'
<1> DEFINE st == Over(outcome, failed, pass[p].settled)
<1>1. pass[p].settled \in BOOLEAN
    BY DEF TypeInv, TypeOK, PassState
<1>2. st \in PassState
    BY <1>1, OverIsPassState
<1>3. IsFiniteSet(st.pending)
    BY FS_EmptySet DEF Over
<1>4. QED BY <1>2, <1>3, PassReplaced DEF EndPass

LEMMA NoteDoneType ==
    ASSUME TypeInv, NEW p \in Indexers, NEW n, NEW failed \in SUBSET Files,
           NoteDone(p, n, failed)
    PROVE  PassInv'
<1> DEFINE st == [pass[p] EXCEPT !.pc = "note", !.todo = @ \ {n},
                                 !.failed = @ \cup failed, !.seen = FALSE]
<1>1. pass[p] \in PassState /\ IsFiniteSet(pass[p].pending)
    BY DEF TypeInv, TypeOK, FiniteRows
<1>2. st \in PassState /\ st.pending = pass[p].pending
    BY <1>1 DEF PassState, Running
<1>3. pass' = [pass EXCEPT ![p] = st]
    BY DEF NoteDone
<1>4. QED
    <2> HIDE DEF st
    <2> QED BY <1>1, <1>2, <1>3, PassReplaced

LEMMA ReplaceNoteType ==
    ASSUME TypeInv, NEW n \in Note, ReplaceNote(n)
    PROVE  /\ notes' \in [Files -> Contents \cup {None}]
           /\ chunks' \subseteq ChunkRow
           /\ IsFiniteSet(chunks')
           /\ nextChunk' \in Nat
           /\ vectors' \in [Spaces -> SUBSET VectorRow]
<1>1. n.path \in Files /\ n.content \in Contents
    BY DEF Note
<1>2. notes' \in [Files -> Contents \cup {None}]
    BY <1>1 DEF ReplaceNote, TypeInv, TypeOK
<1>3. KeptRows(n.path, n.content) \subseteq chunks
    BY DEF KeptRows
<1>4. NewRows(n.path, n.content) \subseteq ChunkRow
    BY <1>1, NewRowsAreRows DEF TypeInv
<1>5. chunks' \subseteq ChunkRow
    BY <1>3, <1>4 DEF ReplaceNote, TypeInv, TypeOK
<1>6. IsFiniteSet(chunks')
    <2>1. IsFiniteSet(KeptRows(n.path, n.content))
        BY <1>3, FS_Subset DEF TypeInv, FiniteRows
    <2>2. IsFiniteSet(NewRows(n.path, n.content))
        BY <1>1, NewRowsAreFinite
    <2>3. IsFiniteSet(KeptRows(n.path, n.content) \cup NewRows(n.path, n.content))
        BY <2>1, <2>2, FS_Union
    <2>4. QED BY <2>3 DEF ReplaceNote
<1>7. nextChunk' \in Nat
    BY <1>1, CutTexts DEF ReplaceNote, TypeInv, TypeOK
<1>8. vectors' \in [Spaces -> SUBSET VectorRow]
    BY CascadeDrops DEF ReplaceNote, TypeInv, TypeOK
<1>9. QED BY <1>2, <1>5, <1>6, <1>7, <1>8

\* A step that touches nothing but pass.
LEMMA OnlyPassType ==
    ASSUME TypeInv, PassInv', UNCHANGED <<vault, store, quota, edits, faults>>
    PROVE  TypeInv'
BY DEF TypeInv, TypeOK, FiniteRows, PassInv, store

\* A step of one pass that leaves Postgres alone.
LEMMA OwnStepType ==
    ASSUME TypeInv, NEW p \in Indexers, NEW st \in PassState,
           IsFiniteSet(st.pending), pass' = [pass EXCEPT ![p] = st],
           UNCHANGED <<vault, store, quota, edits, faults>>
    PROVE  TypeInv'
BY PassReplaced, OnlyPassType

LEMMA ScanType ==
    ASSUME TypeInv, NEW p \in Indexers,
           StartIndex(p) \/ ScanFile(p) \/ ScanDone(p)
    PROVE  TypeInv'
<1> USE DEF TypeInv
<1>0. pass[p] \in PassState /\ IsFiniteSet(pass[p].pending)
    BY DEF TypeOK, FiniteRows
<1>1. CASE StartIndex(p)
    <2> DEFINE fresh == Over("read", {}, \A q \in Indexers \ {p} :
                                pass[q].pc \in Resting \/ pass[q].settled)
               st == [fresh EXCEPT !.walk = IF p \in Misconfigured THEN {} ELSE OnDisk,
                                   !.present = OnDisk]
    <2>1. (\A q \in Indexers \ {p} : pass[q].pc \in Resting \/ pass[q].settled) \in BOOLEAN
        OBVIOUS
    <2>2. OnDisk \in SUBSET Files
        BY DEF OnDisk
    <2>3. st \in PassState /\ st.pending = {}
        BY <2>1, <2>2 DEF PassState, Over, Running
    <2>4. pass' = [pass EXCEPT ![p] = st]
        BY <1>1 DEF StartIndex
    <2> HIDE DEF st
    <2>5. IsFiniteSet(st.pending)
        BY <2>3, FS_EmptySet
    <2>6. QED BY <1>1, <2>3, <2>4, <2>5, OwnStepType DEF StartIndex
<1>2. CASE ScanFile(p)
    <2>1. PICK f \in pass[p].walk : ScanFile(p)!2!(f)
        BY <1>2 DEF ScanFile
    <2>2. f \in Files
        BY <1>0, <2>1 DEF PassState
    <2>3. CASE Reading(f) \in {"vanished", "overlong"} /\ EndPass(p, "failed", {})
        BY <1>2, <2>3, EndPassType, OnlyPassType DEF ScanFile, Resting
    <2>4. CASE pass' = [pass EXCEPT ![p].walk = @ \ {f}, ![p].skipped = @ \cup {f}]
        <3> DEFINE st == [pass[p] EXCEPT !.walk = @ \ {f}, !.skipped = @ \cup {f}]
        <3>1. st \in PassState /\ st.pending = pass[p].pending
            BY <1>0, <2>2 DEF PassState
        <3>2. pass' = [pass EXCEPT ![p] = st]
            BY <2>4
        <3> HIDE DEF st
        <3>3. QED BY <1>0, <1>2, <3>1, <3>2, OwnStepType DEF ScanFile
    <2>5. CASE /\ Reading(f) \in {"parsed", "unstorable"}
               /\ pass' = [pass EXCEPT ![p].walk = @ \ {f},
                            ![p].todo = @ \cup {[path |-> f, content |-> vault[f]]}]
        <3> DEFINE st == [pass[p] EXCEPT !.walk = @ \ {f},
                            !.todo = @ \cup {[path |-> f, content |-> vault[f]]}]
        <3>1. vault[f] \in Contents
            BY <2>2, <2>5 DEF Reading, TypeOK
        <3>2. [path |-> f, content |-> vault[f]] \in Note
            BY <2>2, <3>1 DEF Note
        <3>3. st \in PassState /\ st.pending = pass[p].pending
            BY <1>0, <3>2 DEF PassState
        <3>4. pass' = [pass EXCEPT ![p] = st]
            BY <2>5
        <3> HIDE DEF st
        <3>5. QED BY <1>0, <1>2, <3>3, <3>4, OwnStepType DEF ScanFile
    <2>6. QED BY <2>1, <2>3, <2>4, <2>5
<1>3. CASE ScanDone(p)
    <2> DEFINE st == [pass[p] EXCEPT !.pc = "note", !.keep = PresentSoFar(p)]
    <2>1. st \in PassState /\ st.pending = pass[p].pending
        BY <1>0 DEF PassState, Running, PresentSoFar
    <2>2. pass' = [pass EXCEPT ![p] = st]
        BY <1>3 DEF ScanDone
    <2> HIDE DEF st
    <2>3. QED BY <1>0, <1>3, <2>1, <2>2, OwnStepType DEF ScanDone
<1>4. QED BY <1>1, <1>2, <1>3

\* The row a pass works on is a note with a known path.
LEMMA NextNoteType ==
    ASSUME TypeInv, NEW p \in Indexers, NEW n \in pass[p].todo
    PROVE  n \in Note /\ n.path \in Files /\ n.content \in Contents
BY DEF TypeInv, TypeOK, PassState, Note

LEMMA SaveNoteType ==
    ASSUME TypeInv, NEW p \in Indexers,
           BeginNote(p) \/ UpsertNote(p) \/ CommitNote(p) \/ NotesDone(p)
    PROVE  TypeInv'
<1>0. pass[p] \in PassState /\ IsFiniteSet(pass[p].pending)
    BY DEF TypeInv, TypeOK, FiniteRows
<1>1. CASE BeginNote(p)
    <2>1. PICK n \in pass[p].todo :
              pass' = [pass EXCEPT ![p].pc = "upsert",
                                   ![p].keep = @ \cup {n.path},
                                   ![p].seen = notes[n.path] # None]
        BY <1>1 DEF BeginNote
    <2> DEFINE st == [pass[p] EXCEPT !.pc = "upsert", !.keep = @ \cup {n.path},
                                     !.seen = notes[n.path] # None]
    <2>2. n.path \in Files
        BY NextNoteType
    <2>3. (notes[n.path] # None) \in BOOLEAN
        OBVIOUS
    <2>4. st \in PassState /\ st.pending = pass[p].pending
        BY <1>0, <2>2, <2>3 DEF PassState, Running
    <2>5. pass' = [pass EXCEPT ![p] = st]
        BY <2>1
    <2> HIDE DEF st
    <2>6. QED BY <1>0, <1>1, <2>4, <2>5, OwnStepType DEF BeginNote
<1>2. CASE UpsertNote(p)
    <2>1. PICK n \in pass[p].todo :
              \/ NoteDone(p, n, IF pass[p].seen THEN {} ELSE {n.path})
              \/ pass' = [pass EXCEPT ![p].pc = "commit"]
        BY <1>2 DEF UpsertNote
    <2>2. CASE NoteDone(p, n, IF pass[p].seen THEN {} ELSE {n.path})
        <3>1. (IF pass[p].seen THEN {} ELSE {n.path}) \in SUBSET Files
            BY NextNoteType
        <3>2. PassInv'
            BY <2>2, <3>1, NoteDoneType
        <3>3. QED BY <1>2, <3>2, OnlyPassType DEF UpsertNote
    <2>3. CASE pass' = [pass EXCEPT ![p].pc = "commit"]
        <3> DEFINE st == [pass[p] EXCEPT !.pc = "commit"]
        <3>1. st \in PassState /\ st.pending = pass[p].pending
            BY <1>0 DEF PassState, Running
        <3>2. pass' = [pass EXCEPT ![p] = st]
            BY <2>3
        <3> HIDE DEF st
        <3>3. QED BY <1>0, <1>2, <3>1, <3>2, OwnStepType DEF UpsertNote
    <2>4. QED BY <2>1, <2>2, <2>3
<1>3. CASE CommitNote(p)
    <2>1. PICK n \in pass[p].todo :
              \/ ReplaceNote(n) /\ NoteDone(p, n, {})
              \/ NoteDone(p, n, {n.path}) /\ UNCHANGED store
        BY <1>3 DEF CommitNote, RollBack
    <2>2. PassInv'
        <3>1. {} \in SUBSET Files /\ {n.path} \in SUBSET Files
            BY NextNoteType
        <3>2. QED BY <2>1, <3>1, NoteDoneType
    <2>3. CASE ReplaceNote(n)
        BY <1>3, <2>2, <2>3, NextNoteType, ReplaceNoteType
        DEF CommitNote, TypeInv, TypeOK, FiniteRows, PassInv
    <2>4. CASE UNCHANGED store
        BY <1>3, <2>2, <2>4, OnlyPassType DEF CommitNote
    <2>5. QED BY <2>1, <2>3, <2>4
<1>4. CASE NotesDone(p)
    <2> DEFINE st == [pass[p] EXCEPT !.pc = IF pass[p].failed = {} THEN "prune" ELSE "claim"]
    <2>1. st \in PassState /\ st.pending = pass[p].pending
        BY <1>0 DEF PassState, Running
    <2>2. pass' = [pass EXCEPT ![p] = st]
        BY <1>4 DEF NotesDone
    <2> HIDE DEF st
    <2>3. QED BY <1>0, <1>4, <2>1, <2>2, OwnStepType DEF NotesDone
<1>5. QED BY <1>1, <1>2, <1>3, <1>4

LEMMA PruneType ==
    ASSUME TypeInv, NEW p \in Indexers, Prune(p)
    PROVE  TypeInv'
<1>0. pass[p] \in PassState /\ IsFiniteSet(pass[p].pending)
    BY DEF TypeInv, TypeOK, FiniteRows
<1> DEFINE st == [pass[p] EXCEPT !.pc = "claim"]
<1>1. st \in PassState /\ st.pending = pass[p].pending
    BY <1>0 DEF PassState, Running
<1>2. pass' = [pass EXCEPT ![p] = st]
    BY DEF Prune
<1> HIDE DEF st
<1>3. PassInv'
    BY <1>0, <1>1, <1>2, PassReplaced
<1>4. notes' \in [Files -> Contents \cup {None}]
    BY DEF Prune, TypeInv, TypeOK
<1>5. chunks' \subseteq chunks
    BY DEF Prune
<1>6. IsFiniteSet(chunks')
    BY <1>5, FS_Subset DEF TypeInv, FiniteRows
<1>7. vectors' \in [Spaces -> SUBSET VectorRow]
    BY CascadeDrops DEF Prune, TypeInv, TypeOK
<1>8. QED BY <1>3, <1>4, <1>5, <1>6, <1>7
          DEF Prune, TypeInv, TypeOK, FiniteRows, PassInv

LEMMA EmbedType ==
    ASSUME TypeInv, NEW p \in Indexers,
           ClaimPending(p) \/ EmbedPart(p) \/ SaveEmbeddings(p)
    PROVE  TypeInv'
<1>0. pass[p] \in PassState /\ IsFiniteSet(pass[p].pending)
    BY DEF TypeInv, TypeOK, FiniteRows
<1>f. pass[p].failed \in SUBSET Files
    BY <1>0 DEF PassState
<1>1. CASE ClaimPending(p)
    <2>1. CASE EndPass(p, Outcome(p), pass[p].failed)
        BY <1>1, <1>f, <2>1, EndPassType, OnlyPassType DEF ClaimPending, Outcome, Resting
    <2>2. CASE \E batch \in FirstRows(PendingBatch, PendingRows(SpaceOf[p])) :
                  pass' = [pass EXCEPT ![p].pc = "embed", ![p].pending = batch]
        <3>1. PICK batch \in FirstRows(PendingBatch, PendingRows(SpaceOf[p])) :
                  pass' = [pass EXCEPT ![p].pc = "embed", ![p].pending = batch]
            BY <2>2
        <3> DEFINE st == [pass[p] EXCEPT !.pc = "embed", !.pending = batch]
        <3>2. batch \subseteq chunks
            BY DEF FirstRows, PendingRows
        <3>3. batch \subseteq ChunkRow /\ IsFiniteSet(batch)
            BY <3>2, FS_Subset DEF TypeInv, TypeOK, FiniteRows
        <3>4. st \in PassState /\ st.pending = batch
            BY <1>0, <3>3 DEF PassState, Running
        <3>5. pass' = [pass EXCEPT ![p] = st]
            BY <3>1
        <3> HIDE DEF st
        <3>6. QED BY <1>1, <3>3, <3>4, <3>5, OwnStepType DEF ClaimPending
    <2>3. QED BY <1>1, <2>1, <2>2 DEF ClaimPending
<1>2. CASE EmbedPart(p)
    <2>1. PICK part \in NextParts(p) : EmbedPart(p)!2!(part)
        BY <1>2 DEF EmbedPart
    <2>2. part \subseteq pass[p].pending
        BY DEF NextParts, FirstRows
    <2>3. IsFiniteSet(part) /\ part \subseteq ChunkRow
        BY <1>0, <2>2, FS_Subset DEF PassState
    <2>4. CallsFor(part) \in Nat
        BY <2>3, CallsAreNatural
    <2>5. CASE /\ CallsFor(part) <= quota
               /\ quota' = quota - CallsFor(part)
               /\ pass' = [pass EXCEPT ![p].pc = "store", ![p].part = part]
        <3> DEFINE st == [pass[p] EXCEPT !.pc = "store", !.part = part]
        <3>1. st \in PassState /\ st.pending = pass[p].pending
            BY <1>0, <2>3 DEF PassState, Running
        <3>2. pass' = [pass EXCEPT ![p] = st]
            BY <2>5
        <3> HIDE DEF st
        <3>3. PassInv'
            BY <1>0, <3>1, <3>2, PassReplaced
        <3>4. quota' \in 0..Quota
            BY <2>4, <2>5, LimitAssumption DEF TypeInv, TypeOK
        <3>5. QED BY <1>2, <3>3, <3>4
                  DEF EmbedPart, TypeInv, TypeOK, FiniteRows, PassInv, store
    <2>6. CASE /\ quota' = 0 \/ (CallsFor(part) <= quota /\ quota' = quota - CallsFor(part))
               /\ EndPass(p, "failed", pass[p].failed)
        <3>1. PassInv'
            BY <1>f, <2>6, EndPassType DEF Resting
        <3>2. quota' \in 0..Quota
            BY <2>4, <2>6, LimitAssumption DEF TypeInv, TypeOK
        <3>3. QED BY <1>2, <3>1, <3>2
                  DEF EmbedPart, TypeInv, TypeOK, FiniteRows, PassInv, store
    <2>7. QED BY <2>1, <2>5, <2>6
<1>3. CASE SaveEmbeddings(p)
    <2> DEFINE part == pass[p].part
               ids == {r.id : r \in part}
               left == pass[p].pending \ part
               st == [pass[p] EXCEPT !.pc = IF left = {} THEN "claim" ELSE "embed",
                                     !.pending = left, !.part = {}]
    <2>1. CASE ~(ids \subseteq {r.id : r \in chunks})
        <3>1. EndPass(p, "failed", pass[p].failed) /\ UNCHANGED vectors
            BY <1>3, <2>1 DEF SaveEmbeddings
        <3>2. PassInv'
            BY <1>f, <3>1, EndPassType DEF Resting
        <3>3. QED BY <1>3, <3>1, <3>2, OnlyPassType DEF SaveEmbeddings, store
    <2>2. CASE ids \subseteq {r.id : r \in chunks}
        <3>1. vectors' = [vectors EXCEPT ![SpaceOf[p]] =
                    {v \in @ : v.chunk \notin ids}
                        \cup {[chunk |-> r.id, of |-> r.text] : r \in part}]
            BY <1>3, <2>2 DEF SaveEmbeddings
        <3>2. pass' = [pass EXCEPT ![p] = st]
            BY <1>3, <2>2 DEF SaveEmbeddings
        <3>3. left \subseteq pass[p].pending /\ IsFiniteSet(left) /\ left \subseteq ChunkRow
            BY <1>0, FS_Subset DEF PassState
        <3>4. st \in PassState /\ st.pending = left
            BY <1>0, <3>3 DEF PassState, Running
        <3>5. PassInv'
            <4> HIDE DEF st, left
            <4> QED BY <3>2, <3>3, <3>4, PassReplaced
        <3>6. {[chunk |-> r.id, of |-> r.text] : r \in part} \subseteq VectorRow
            BY <1>0 DEF PassState, ChunkRow, VectorRow
        <3>7. vectors' \in [Spaces -> SUBSET VectorRow]
            <4> HIDE DEF ids, part
            <4> QED BY <3>1, <3>6, ConfigAssumption DEF TypeInv, TypeOK
        <3>8. QED BY <1>3, <3>5, <3>7
                  DEF SaveEmbeddings, TypeInv, TypeOK, FiniteRows, PassInv
    <2>3. QED BY <2>1, <2>2
<1>4. QED BY <1>1, <1>2, <1>3

LEMMA FaultType ==
    ASSUME TypeInv, NEW p \in Indexers, Fault(p)
    PROVE  TypeInv'
<1>0. pass[p] \in PassState /\ pass[p].failed \in SUBSET Files
    BY DEF TypeInv, TypeOK, PassState
<1>1. CASE PassAborts(p)
    <2>1. PassInv'
        BY <1>0, <1>1, EndPassType DEF PassAborts, Resting
    <2>2. faults' \in 0..MaxFaults
        BY <1>1, LimitAssumption DEF PassAborts, TypeInv, TypeOK
    <2>3. QED BY <1>1, <2>1, <2>2
              DEF PassAborts, TypeInv, TypeOK, FiniteRows, PassInv, store
<1>2. CASE SaveNoteFails(p)
    <2>1. PICK n \in pass[p].todo :
              /\ NoteDone(p, n, {n.path})
              /\ UNCHANGED store \/ ReplaceNote(n)
        BY <1>2 DEF SaveNoteFails, RollBack
    <2>2. PassInv'
        <3>1. {n.path} \in SUBSET Files
            BY NextNoteType
        <3>2. QED BY <2>1, <3>1, NoteDoneType
    <2>3. faults' \in 0..MaxFaults
        BY <1>2, LimitAssumption DEF SaveNoteFails, TypeInv, TypeOK
    <2>4. CASE UNCHANGED store
        BY <1>2, <2>2, <2>3, <2>4
        DEF SaveNoteFails, TypeInv, TypeOK, FiniteRows, PassInv, store
    <2>5. CASE ReplaceNote(n)
        BY <1>2, <2>2, <2>3, <2>5, NextNoteType, ReplaceNoteType
        DEF SaveNoteFails, TypeInv, TypeOK, FiniteRows, PassInv
    <2>6. QED BY <2>1, <2>4, <2>5
<1>3. QED BY <1>1, <1>2 DEF Fault

LEMMA EnvironmentType ==
    ASSUME TypeInv, Edit \/ RefillQuota
    PROVE  TypeInv'
<1>1. CASE Edit
    <2>1. PICK f \in Files : RemoveFile(f) \/ \E c \in Contents : WriteFile(f, c)
        BY <1>1 DEF Edit
    <2>2. PassInv'
        <3>1. \A q \in Indexers : pass[q] \in PassState /\ IsFiniteSet(pass[q].pending)
            BY DEF TypeInv, TypeOK, FiniteRows
        <3>2. ASSUME NEW q \in Indexers
              PROVE  /\ pass'[q] \in PassState
                     /\ pass'[q].pending = pass[q].pending
            <4>1. \/ pass'[q] = [pass[q] EXCEPT !.settled = FALSE]
                  \/ pass'[q] = [pass[q] EXCEPT !.settled = FALSE, !.present = @ \ {f}]
                BY <2>1 DEF RemoveFile, WriteFile
            <4>2. pass[q] \in PassState
                BY <3>1
            <4>3. QED BY <4>1, <4>2 DEF PassState
        <3>3. pass' = [q \in Indexers |-> pass'[q]]
            BY <2>1 DEF RemoveFile, WriteFile
        <3>4. QED BY <3>1, <3>2, <3>3 DEF PassInv
    <2>3. vault' \in [Files -> Contents \cup {None}]
        BY <2>1 DEF RemoveFile, WriteFile, TypeInv, TypeOK
    <2>4. edits' \in 0..MaxEdits
        <3>1. edits < MaxEdits /\ edits' = edits + 1
            BY <2>1 DEF RemoveFile, WriteFile
        <3>2. QED BY <3>1, LimitAssumption DEF TypeInv, TypeOK
    <2>5. UNCHANGED <<store, quota, faults>>
        BY <2>1 DEF RemoveFile, WriteFile
    <2>6. QED BY <2>2, <2>3, <2>4, <2>5
              DEF TypeInv, TypeOK, FiniteRows, PassInv, store
<1>2. CASE RefillQuota
    <2>1. quota' \in 0..Quota
        BY <1>2, LimitAssumption DEF RefillQuota
    <2>2. QED BY <1>2, <2>1
              DEF RefillQuota, TypeInv, TypeOK, FiniteRows, store
<1>3. QED BY <1>1, <1>2

LEMMA TypeStep ==
    ASSUME TypeInv, [Next]_vars
    PROVE  TypeInv'
<1>1. CASE \E p \in Indexers : StartIndex(p) \/ PassStep(p) \/ Fault(p)
    <2>1. PICK p \in Indexers : StartIndex(p) \/ PassStep(p) \/ Fault(p)
        BY <1>1
    <2>2. CASE StartIndex(p) \/ ScanFile(p) \/ ScanDone(p)
        BY <2>2, ScanType
    <2>3. CASE BeginNote(p) \/ UpsertNote(p) \/ CommitNote(p) \/ NotesDone(p)
        BY <2>3, SaveNoteType
    <2>4. CASE Prune(p)
        BY <2>4, PruneType
    <2>5. CASE ClaimPending(p) \/ EmbedPart(p) \/ SaveEmbeddings(p)
        BY <2>5, EmbedType
    <2>6. CASE Fault(p)
        BY <2>6, FaultType
    <2>7. QED BY <2>1, <2>2, <2>3, <2>4, <2>5, <2>6 DEF PassStep
<1>2. CASE Edit \/ RefillQuota
    BY <1>2, EnvironmentType
<1>3. CASE UNCHANGED vars
    BY <1>3 DEF vars, store, TypeInv, TypeOK, FiniteRows
<1>4. QED BY <1>1, <1>2, <1>3 DEF Next

THEOREM TypeInvariant == Spec => []TypeInv
<1>1. Init => TypeInv
    BY TypeInit
<1>2. TypeInv /\ [Next]_vars => TypeInv'
    BY TypeStep
<1>3. QED BY <1>1, <1>2, PTL DEF Spec

\* Whatever passes run side by side, fail or die, every variable keeps its
\* type; in particular no pass spends more provider calls than the quota has.
THEOREM TypeCorrect == Spec => []TypeOK
<1>1. TypeInv => TypeOK
    BY DEF TypeInv
<1>2. QED BY <1>1, TypeInvariant, PTL

-----------------------------------------------------------------------------
(***************************************************************************)
(* Vectors match texts.  A vector is written long after its chunk's text   *)
(* was read.  It can only land on the chunk it was computed from because   *)
(* identity values are never given out twice: RowsInv says so of the       *)
(* stored chunks, of the claimed ones and of the vectors.                  *)
(***************************************************************************)
RowsInv == IdsFreshAndUnique /\ ClaimsCurrent /\ VectorsMatchText

ClaimsOf(p) == pass[p].pending \cup pass[p].part

\* No pass claims a row it had not claimed before.
ClaimsShrink == \A q \in Indexers : ClaimsOf(q)' \subseteq ClaimsOf(q)

LEMMA EndPassDropsClaims ==
    ASSUME TypeInv, NEW p \in Indexers, NEW outcome, NEW failed,
           EndPass(p, outcome, failed)
    PROVE  ClaimsShrink
<1>1. pass \in [Indexers -> PassState]
    BY DEF TypeInv, TypeOK
<1>2. Over(outcome, failed, pass[p].settled).pending = {}
      /\ Over(outcome, failed, pass[p].settled).part = {}
    BY DEF Over
<1>3. QED BY <1>1, <1>2 DEF EndPass, ClaimsShrink, ClaimsOf

LEMMA NoteDoneKeepsClaims ==
    ASSUME TypeInv, NEW p \in Indexers, NEW n, NEW failed,
           NoteDone(p, n, failed)
    PROVE  ClaimsShrink
<1>1. pass \in [Indexers -> PassState]
    BY DEF TypeInv, TypeOK
<1>2. \A q \in Indexers : /\ pass'[q].pending = pass[q].pending
                          /\ pass'[q].part = pass[q].part
    BY <1>1 DEF NoteDone, PassState
<1>3. QED BY <1>2 DEF ClaimsShrink, ClaimsOf

\* While Postgres is left alone and nothing is claimed, RowsInv holds on.
LEMMA RowsKept ==
    ASSUME RowsInv, ClaimsShrink, UNCHANGED store
    PROVE  RowsInv'
BY DEF RowsInv, ClaimsShrink, ClaimsOf, store, IdsFreshAndUnique,
       ClaimsCurrent, VectorsMatchText

\* New rows carry ids that nothing in use has.
LEMMA NewRowIds ==
    ASSUME TypeInv, NEW n \in Note, NEW r \in NewRows(n.path, n.content)
    PROVE  /\ r.id \in Nat
           /\ nextChunk <= r.id
           /\ r.id < nextChunk + Len(Cut[n.content])
           /\ \A q \in NewRows(n.path, n.content) : q.id = r.id => q = r
<1>1. n.path \in Files /\ n.content \in Contents /\ nextChunk \in Nat
    BY DEF Note, TypeInv, TypeOK
<1>2. PICK i \in DOMAIN Cut[n.content] :
          r = [id |-> nextChunk + i - 1, note |-> n.path, index |-> i - 1,
               text |-> Cut[n.content][i]]
    BY DEF NewRows
<1>3. i \in Nat /\ 1 <= i /\ i <= Len(Cut[n.content]) /\ Len(Cut[n.content]) \in Nat
    BY <1>1, CutTexts
<1>4. r.id = nextChunk + i - 1
    BY <1>2
<1>5. ASSUME NEW q \in NewRows(n.path, n.content), q.id = r.id
      PROVE  q = r
    <2>1. PICK j \in DOMAIN Cut[n.content] :
              q = [id |-> nextChunk + j - 1, note |-> n.path, index |-> j - 1,
                   text |-> Cut[n.content][j]]
        BY DEF NewRows
    <2>2. j \in Nat /\ q.id = nextChunk + j - 1
        BY <1>1, <2>1, CutTexts
    <2>3. i = j
        BY <1>1, <1>3, <1>4, <1>5, <2>2
    <2>4. QED BY <1>2, <2>1, <2>3
<1>6. QED BY <1>1, <1>3, <1>4, <1>5

LEMMA ReplaceNoteRows ==
    ASSUME TypeInv, RowsInv, ClaimsShrink, NEW n \in Note, ReplaceNote(n)
    PROVE  RowsInv'
<1> DEFINE kept == KeptRows(n.path, n.content)
           new == NewRows(n.path, n.content)
<1>1. kept \subseteq chunks /\ chunks' = kept \cup new
    BY DEF KeptRows, ReplaceNote
<1>2. \A r \in new : /\ r.id \in Nat /\ nextChunk <= r.id /\ r.id < nextChunk'
                     /\ \A q \in new : q.id = r.id => q = r
    BY NewRowIds DEF ReplaceNote
<1>3. nextChunk \in Nat /\ nextChunk' \in Nat /\ nextChunk <= nextChunk'
    <2>1. n.content \in Contents
        BY DEF Note
    <2>2. Len(Cut[n.content]) \in Nat
        BY <2>1, CutTexts
    <2>3. QED BY <2>2 DEF ReplaceNote, TypeInv, TypeOK
<1>4. /\ \A r \in chunks : r.id \in Nat /\ r.id < nextChunk
      /\ \A r, q \in chunks : r.id = q.id => r = q
    BY DEF TypeInv, TypeOK, ChunkRow, RowsInv, IdsFreshAndUnique
<1> HIDE DEF kept, new
<1>5. IdsFreshAndUnique'
    <2>1. ASSUME NEW r \in chunks' PROVE r.id < nextChunk'
        BY <1>1, <1>2, <1>3, <1>4
    <2>2. ASSUME NEW r \in chunks', NEW q \in chunks', r.id = q.id PROVE r = q
        <3>1. CASE r \in kept /\ q \in kept
            BY <1>1, <1>4, <2>2, <3>1
        <3>2. CASE r \in new /\ q \in new
            BY <1>2, <2>2, <3>2
        <3>3. CASE (r \in kept /\ q \in new) \/ (r \in new /\ q \in kept)
            BY <1>1, <1>2, <1>3, <1>4, <2>2, <3>3
        <3>4. QED BY <1>1, <3>1, <3>2, <3>3
    <2>3. QED BY <2>1, <2>2 DEF IdsFreshAndUnique
<1>6. ClaimsCurrent'
    <2> SUFFICES ASSUME NEW p \in Indexers, NEW r \in ClaimsOf(p)'
                 PROVE  /\ r.id < nextChunk'
                        /\ \A q \in chunks' : q.id = r.id => q.text = r.text
        BY DEF ClaimsCurrent, ClaimsOf
    <2>1. r \in ClaimsOf(p)
        BY DEF ClaimsShrink
    <2>2. r.id \in Nat
        BY <2>1 DEF ClaimsOf, TypeInv, TypeOK, PassState, ChunkRow
    <2>3. r.id < nextChunk /\ \A q \in chunks : q.id = r.id => q.text = r.text
        BY <2>1 DEF RowsInv, ClaimsCurrent, ClaimsOf
    <2>4. \A q \in new : q.id # r.id
        BY <1>2, <1>3, <2>2, <2>3
    <2>5. QED BY <1>1, <1>3, <2>2, <2>3, <2>4
<1>7. VectorsMatchText'
    <2> SUFFICES ASSUME NEW s \in Spaces, NEW v \in vectors'[s]
                 PROVE  \E r \in chunks' : r.id = v.chunk /\ r.text = v.of
        BY DEF VectorsMatchText
    <2>1. v \in vectors[s] /\ \E r \in chunks' : r.id = v.chunk
        BY DEF ReplaceNote, Cascade
    <2>2. PICK r \in chunks' : r.id = v.chunk
        BY <2>1
    <2>3. PICK q \in chunks : q.id = v.chunk /\ q.text = v.of
        BY <2>1 DEF RowsInv, VectorsMatchText
    <2>4. r \notin new
        BY <1>2, <1>3, <1>4, <2>2, <2>3
    <2>5. r = q
        BY <1>1, <1>4, <2>2, <2>3, <2>4
    <2>6. QED BY <2>3, <2>5
<1>8. QED BY <1>5, <1>6, <1>7 DEF RowsInv

LEMMA PruneRows ==
    ASSUME TypeInv, RowsInv, NEW p \in Indexers, Prune(p)
    PROVE  RowsInv'
<1>1. chunks' \subseteq chunks /\ nextChunk' = nextChunk /\ vectors' = Cascade(chunks')
    BY DEF Prune
<1>2. ClaimsShrink
    <2>1. pass \in [Indexers -> PassState]
        BY DEF TypeInv, TypeOK
    <2>2. \A q \in Indexers : /\ pass'[q].pending = pass[q].pending
                              /\ pass'[q].part = pass[q].part
        BY <2>1 DEF Prune, PassState
    <2>3. QED BY <2>2 DEF ClaimsShrink, ClaimsOf
<1>3. IdsFreshAndUnique'
    BY <1>1 DEF RowsInv, IdsFreshAndUnique
<1>4. ClaimsCurrent'
    BY <1>1, <1>2 DEF RowsInv, ClaimsCurrent, ClaimsShrink, ClaimsOf
<1>5. VectorsMatchText'
    <2> SUFFICES ASSUME NEW s \in Spaces, NEW v \in vectors'[s]
                 PROVE  \E r \in chunks' : r.id = v.chunk /\ r.text = v.of
        BY DEF VectorsMatchText
    <2>1. v \in vectors[s] /\ \E r \in chunks' : r.id = v.chunk
        BY <1>1 DEF Cascade
    <2>2. QED BY <1>1, <2>1 DEF RowsInv, VectorsMatchText, IdsFreshAndUnique
<1>6. QED BY <1>3, <1>4, <1>5 DEF RowsInv

LEMMA ClaimRows ==
    ASSUME TypeInv, RowsInv, NEW p \in Indexers, ClaimPending(p)
    PROVE  RowsInv'
<1>0. pass \in [Indexers -> PassState] /\ UNCHANGED store
    BY DEF TypeInv, TypeOK, ClaimPending
<1>1. CASE EndPass(p, Outcome(p), pass[p].failed)
    BY <1>0, <1>1, EndPassDropsClaims, RowsKept
<1>2. CASE \E batch \in FirstRows(PendingBatch, PendingRows(SpaceOf[p])) :
              pass' = [pass EXCEPT ![p].pc = "embed", ![p].pending = batch]
    <2>1. PICK batch \in FirstRows(PendingBatch, PendingRows(SpaceOf[p])) :
              pass' = [pass EXCEPT ![p].pc = "embed", ![p].pending = batch]
        BY <1>2
    <2>2. batch \subseteq chunks
        BY DEF FirstRows, PendingRows
    <2>3. \A q \in Indexers : ClaimsOf(q)' \subseteq ClaimsOf(q) \cup chunks
        <3>1. \A q \in Indexers : /\ pass'[q].pending \in {pass[q].pending, batch}
                                  /\ pass'[q].part = pass[q].part
            BY <1>0, <2>1 DEF PassState
        <3>2. QED BY <2>2, <3>1 DEF ClaimsOf
    <2>4. ClaimsCurrent'
        BY <1>0, <2>3 DEF RowsInv, ClaimsCurrent, ClaimsOf, IdsFreshAndUnique, store
    <2>5. QED BY <1>0, <2>4 DEF RowsInv, IdsFreshAndUnique, VectorsMatchText, store
<1>3. QED BY <1>1, <1>2 DEF ClaimPending

LEMMA SaveEmbeddingsRows ==
    ASSUME TypeInv, RowsInv, NEW p \in Indexers, SaveEmbeddings(p)
    PROVE  RowsInv'
<1> DEFINE part == pass[p].part
           ids == {r.id : r \in part}
           left == pass[p].pending \ part
<1>0. pass \in [Indexers -> PassState] /\ UNCHANGED <<chunks, nextChunk, notes>>
    BY DEF TypeInv, TypeOK, SaveEmbeddings
<1>1. CASE ~(ids \subseteq {r.id : r \in chunks})
    <2>1. EndPass(p, "failed", pass[p].failed) /\ UNCHANGED store
        BY <1>1 DEF SaveEmbeddings, store
    <2>2. QED BY <2>1, EndPassDropsClaims, RowsKept
<1>2. CASE ids \subseteq {r.id : r \in chunks}
    <2>1. vectors' = [vectors EXCEPT ![SpaceOf[p]] =
                {v \in @ : v.chunk \notin ids}
                    \cup {[chunk |-> r.id, of |-> r.text] : r \in part}]
        BY <1>2 DEF SaveEmbeddings
    <2>2. ClaimsShrink
        <3>1. pass' = [pass EXCEPT ![p].pc = IF left = {} THEN "claim" ELSE "embed",
                                   ![p].pending = left, ![p].part = {}]
            BY <1>2 DEF SaveEmbeddings
        <3>2. \A q \in Indexers : /\ pass'[q].pending \subseteq pass[q].pending
                                  /\ pass'[q].part \subseteq pass[q].part
            BY <1>0, <3>1 DEF PassState
        <3>3. QED BY <3>2 DEF ClaimsShrink, ClaimsOf
    <2>3. ClaimsCurrent'
        BY <1>0, <2>2 DEF RowsInv, ClaimsCurrent, ClaimsShrink, ClaimsOf
    <2>4. VectorsMatchText'
        <3> SUFFICES ASSUME NEW s \in Spaces, NEW v \in vectors'[s]
                     PROVE  \E r \in chunks : r.id = v.chunk /\ r.text = v.of
            BY <1>0 DEF VectorsMatchText
        <3>1. CASE v \in vectors[s]
            BY <3>1 DEF RowsInv, VectorsMatchText
        <3>2. CASE v \in {[chunk |-> r.id, of |-> r.text] : r \in part}
            <4>1. PICK r \in part : v = [chunk |-> r.id, of |-> r.text]
                BY <3>2
            <4>2. PICK q \in chunks : q.id = r.id
                BY <1>2
            <4>3. q.text = r.text
                BY <4>2 DEF RowsInv, ClaimsCurrent
            <4>4. QED BY <4>1, <4>2, <4>3
        <3>3. v \in vectors[s] \/ v \in {[chunk |-> r.id, of |-> r.text] : r \in part}
            <4> HIDE DEF ids, part
            <4> QED BY <2>1 DEF TypeInv, TypeOK
        <3>4. QED BY <3>1, <3>2, <3>3
    <2>5. QED BY <1>0, <2>3, <2>4 DEF RowsInv, IdsFreshAndUnique
<1>3. QED BY <1>1, <1>2

\* The steps of a pass that neither write to Postgres nor claim.
LEMMA QuietRows ==
    ASSUME TypeInv, RowsInv, NEW p \in Indexers,
           \/ StartIndex(p) \/ ScanFile(p) \/ ScanDone(p) \/ BeginNote(p)
           \/ UpsertNote(p) \/ NotesDone(p) \/ EmbedPart(p) \/ PassAborts(p)
    PROVE  RowsInv'
<1>0. pass \in [Indexers -> PassState]
    BY DEF TypeInv, TypeOK
<1>1. UNCHANGED store
    BY DEF StartIndex, ScanFile, ScanDone, BeginNote, UpsertNote, NotesDone,
           EmbedPart, PassAborts
<1>2. CASE StartIndex(p)
    <2>1. \A q \in Indexers : \/ pass'[q] = pass[q]
                              \/ pass'[q].pending = {} /\ pass'[q].part = {}
        BY <1>0, <1>2 DEF StartIndex, Over
    <2>2. ClaimsShrink
        BY <2>1 DEF ClaimsShrink, ClaimsOf
    <2>3. QED BY <1>1, <2>2, RowsKept
<1>3. CASE ScanFile(p) \/ UpsertNote(p) \/ PassAborts(p)
    <2>1. CASE \E outcome, failed : EndPass(p, outcome, failed)
        BY <1>1, <2>1, EndPassDropsClaims, RowsKept
    <2>2. CASE \E n, failed : NoteDone(p, n, failed)
        BY <1>1, <2>2, NoteDoneKeepsClaims, RowsKept
    <2>3. CASE \A q \in Indexers : /\ pass'[q].pending = pass[q].pending
                                   /\ pass'[q].part = pass[q].part
        BY <1>1, <2>3, RowsKept DEF ClaimsShrink, ClaimsOf
    <2>4. CASE ScanFile(p)
        <3>1. \/ EndPass(p, "failed", {})
              \/ \A q \in Indexers : /\ pass'[q].pending = pass[q].pending
                                     /\ pass'[q].part = pass[q].part
            BY <1>0, <2>4 DEF ScanFile, PassState
        <3>2. QED BY <2>1, <2>3, <3>1
    <2>5. CASE UpsertNote(p)
        <3>1. \/ \E n \in pass[p].todo :
                    NoteDone(p, n, IF pass[p].seen THEN {} ELSE {n.path})
              \/ \A q \in Indexers : /\ pass'[q].pending = pass[q].pending
                                     /\ pass'[q].part = pass[q].part
            <4>1. \/ \E n \in pass[p].todo :
                        NoteDone(p, n, IF pass[p].seen THEN {} ELSE {n.path})
                  \/ pass' = [pass EXCEPT ![p].pc = "commit"]
                BY <2>5 DEF UpsertNote
            <4>2. CASE pass' = [pass EXCEPT ![p].pc = "commit"]
                BY <1>0, <4>2 DEF PassState
            <4>3. QED BY <4>1, <4>2
        <3>2. QED BY <2>2, <2>3, <3>1
    <2>6. CASE PassAborts(p)
        BY <2>1, <2>6 DEF PassAborts
    <2>7. QED BY <1>3, <2>4, <2>5, <2>6
<1>4. CASE ScanDone(p) \/ BeginNote(p) \/ NotesDone(p)
    <2>1. \A q \in Indexers : /\ pass'[q].pending = pass[q].pending
                              /\ pass'[q].part = pass[q].part
        <3>1. CASE ScanDone(p)
            BY <1>0, <3>1 DEF ScanDone, PassState
        <3>2. CASE BeginNote(p)
            <4>1. PICK n : pass' = [pass EXCEPT ![p].pc = "upsert",
                                                ![p].keep = @ \cup {n.path},
                                                ![p].seen = notes[n.path] # None]
                BY <3>2 DEF BeginNote
            <4>2. QED BY <1>0, <4>1 DEF PassState
        <3>3. CASE NotesDone(p)
            BY <1>0, <3>3 DEF NotesDone, PassState
        <3>4. QED BY <1>4, <3>1, <3>2, <3>3
    <2>2. QED BY <1>1, <2>1, RowsKept DEF ClaimsShrink, ClaimsOf
<1>5. CASE EmbedPart(p)
    <2>1. PICK part \in NextParts(p) :
              \/ pass' = [pass EXCEPT ![p].pc = "store", ![p].part = part]
              \/ EndPass(p, "failed", pass[p].failed)
        BY <1>5 DEF EmbedPart
    <2>2. CASE pass' = [pass EXCEPT ![p].pc = "store", ![p].part = part]
        <3>1. part \subseteq pass[p].pending
            BY DEF NextParts, FirstRows
        <3>2. \A q \in Indexers : /\ pass'[q].pending = pass[q].pending
                                  /\ pass'[q].part \subseteq pass[q].part \cup pass[q].pending
            BY <1>0, <2>2, <3>1 DEF PassState
        <3>3. ClaimsShrink
            BY <3>2 DEF ClaimsShrink, ClaimsOf
        <3>4. QED BY <1>1, <3>3, RowsKept
    <2>3. QED BY <1>1, <2>1, <2>2, EndPassDropsClaims, RowsKept
<1>6. QED BY <1>2, <1>3, <1>4, <1>5

\* Saving a note, whether it is counted as written or as failed.
LEMMA SaveNoteRows ==
    ASSUME TypeInv, RowsInv, NEW p \in Indexers,
           CommitNote(p) \/ SaveNoteFails(p)
    PROVE  RowsInv'
<1>1. PICK n \in pass[p].todo :
          /\ \E failed : NoteDone(p, n, failed)
          /\ ReplaceNote(n) \/ UNCHANGED store
    BY DEF CommitNote, SaveNoteFails, RollBack
<1>2. ClaimsShrink
    BY <1>1, NoteDoneKeepsClaims
<1>3. QED BY <1>1, <1>2, NextNoteType, ReplaceNoteRows, RowsKept

LEMMA EnvironmentRows ==
    ASSUME TypeInv, RowsInv, Edit \/ RefillQuota
    PROVE  RowsInv'
<1>1. UNCHANGED store
    BY DEF Edit, WriteFile, RemoveFile, RefillQuota
<1>2. \A q \in Indexers : /\ pass'[q].pending = pass[q].pending
                          /\ pass'[q].part = pass[q].part
    <2>1. \A q \in Indexers : pass[q] \in PassState
        BY DEF TypeInv, TypeOK
    <2>2. CASE RefillQuota
        BY <2>2 DEF RefillQuota
    <2>3. ASSUME NEW f \in Files, NEW c \in Contents, WriteFile(f, c),
                 NEW q \in Indexers
          PROVE  pass'[q].pending = pass[q].pending /\ pass'[q].part = pass[q].part
        BY <2>1, <2>3 DEF WriteFile, PassState
    <2>4. ASSUME NEW f \in Files, RemoveFile(f), NEW q \in Indexers
          PROVE  pass'[q].pending = pass[q].pending /\ pass'[q].part = pass[q].part
        BY <2>1, <2>4 DEF RemoveFile, PassState
    <2>5. QED BY <2>2, <2>3, <2>4 DEF Edit
<1>3. QED BY <1>1, <1>2, RowsKept DEF ClaimsShrink, ClaimsOf

LEMMA RowsInit == Init => RowsInv
<1> SUFFICES ASSUME Init PROVE RowsInv
    OBVIOUS
<1>1. \A p \in Indexers : pass[p].pending = {} /\ pass[p].part = {}
    BY DEF Init, Over
<1>2. chunks = {} /\ \A s \in Spaces : vectors[s] = {}
    BY DEF Init
<1>3. QED BY <1>1, <1>2 DEF RowsInv, IdsFreshAndUnique, ClaimsCurrent, VectorsMatchText

LEMMA RowsStep ==
    ASSUME TypeInv, RowsInv, [Next]_vars
    PROVE  RowsInv'
<1>1. CASE \E p \in Indexers : StartIndex(p) \/ PassStep(p) \/ Fault(p)
    <2>1. PICK p \in Indexers : StartIndex(p) \/ PassStep(p) \/ Fault(p)
        BY <1>1
    <2>2. CASE \/ StartIndex(p) \/ ScanFile(p) \/ ScanDone(p) \/ BeginNote(p)
               \/ UpsertNote(p) \/ NotesDone(p) \/ EmbedPart(p) \/ PassAborts(p)
        BY <2>2, QuietRows
    <2>3. CASE CommitNote(p) \/ SaveNoteFails(p)
        BY <2>3, SaveNoteRows
    <2>4. CASE Prune(p)
        BY <2>4, PruneRows
    <2>5. CASE ClaimPending(p)
        BY <2>5, ClaimRows
    <2>6. CASE SaveEmbeddings(p)
        BY <2>6, SaveEmbeddingsRows
    <2>7. QED BY <2>1, <2>2, <2>3, <2>4, <2>5, <2>6 DEF PassStep, Fault
<1>2. CASE Edit \/ RefillQuota
    BY <1>2, EnvironmentRows
<1>3. CASE UNCHANGED vars
    BY <1>3, RowsKept DEF vars, store, ClaimsShrink, ClaimsOf
<1>4. QED BY <1>1, <1>2, <1>3 DEF Next

\* A vector is only ever stored for the text it was computed from, although no
\* lock or transaction spans reading that text, the provider call and the
\* INSERT, and any number of passes may rewrite or prune the note meanwhile.
THEOREM VectorsCorrect == Spec => []VectorsMatchText
<1>1. Init => RowsInv
    BY RowsInit
<1>2. TypeInv /\ RowsInv /\ [Next]_vars => RowsInv'
    BY RowsStep
<1>3. RowsInv => VectorsMatchText
    BY DEF RowsInv
<1>4. QED BY <1>1, <1>2, <1>3, TypeInvariant, PTL DEF Spec

-----------------------------------------------------------------------------
(***************************************************************************)
(* Chunks match notes.                                                     *)
(***************************************************************************)
ChunksOf(f) == {q \in chunks : q.note = f}

LEMMA ReplaceNoteMatches ==
    ASSUME TypeInv, ChunksMatchNote, NEW n \in Note, ReplaceNote(n)
    PROVE  ChunksMatchNote'
<1> DEFINE kept == KeptRows(n.path, n.content)
           new == NewRows(n.path, n.content)
<1>0. n.path \in Files /\ n.content \in Contents /\ n.content # None
    BY ConfigAssumption DEF Note
<1>1. \A r \in new : r.note = n.path
    BY DEF NewRows
<1>2. \A r \in kept : r \in chunks /\ r.note # n.path
    BY DEF KeptRows
<1>3. chunks' = kept \cup new /\ notes' = [notes EXCEPT ![n.path] = n.content]
    BY DEF ReplaceNote
<1>4. notes \in [Files -> Contents \cup {None}]
    BY DEF TypeInv, TypeOK
<1>5. {<<r.index, r.text>> : r \in new}
          = {<<i - 1, Cut[n.content][i]>> : i \in DOMAIN Cut[n.content]}
    <2> DEFINE row(i) == [id |-> nextChunk + i - 1, note |-> n.path,
                          index |-> i - 1, text |-> Cut[n.content][i]]
    <2>1. new = {row(i) : i \in DOMAIN Cut[n.content]}
        BY DEF NewRows
    <2>2. \A i : row(i).index = i - 1 /\ row(i).text = Cut[n.content][i]
        OBVIOUS
    <2> HIDE DEF new, row
    <2>3. QED BY <2>1, <2>2
<1>6. \A r \in chunks : r.note # n.path => r \in kept
    BY DEF KeptRows
<1> HIDE DEF kept, new
<1>7. ASSUME NEW f \in Files
      PROVE  {<<r.index, r.text>> : r \in ChunksOf(f)'} =
                IF notes'[f] = None THEN {}
                ELSE {<<i - 1, Cut[notes'[f]][i]>> : i \in DOMAIN Cut[notes'[f]]}
    <2>1. CASE f = n.path
        <3>1. ChunksOf(f)' = new
            BY <1>1, <1>2, <1>3, <2>1 DEF ChunksOf
        <3>2. notes'[f] = n.content
            BY <1>0, <1>3, <1>4, <2>1
        <3>3. QED BY <1>0, <1>5, <3>1, <3>2
    <2>2. CASE f # n.path
        <3>1. ChunksOf(f)' = ChunksOf(f)
            BY <1>1, <1>2, <1>3, <1>6, <2>2 DEF ChunksOf
        <3>2. notes'[f] = notes[f]
            BY <1>0, <1>3, <1>4, <2>2
        <3>3. QED BY <3>1, <3>2 DEF ChunksMatchNote, ChunksOf
    <2>3. QED BY <2>1, <2>2
<1>8. QED BY <1>7 DEF ChunksMatchNote, ChunksOf

LEMMA PruneMatches ==
    ASSUME TypeInv, ChunksMatchNote, NEW p \in Indexers, Prune(p)
    PROVE  ChunksMatchNote'
<1>1. /\ notes' = [f \in Files |-> IF f \in Victims(p) THEN None ELSE notes[f]]
      /\ chunks' = {r \in chunks : r.note \notin Victims(p)}
    BY DEF Prune
<1>2. ASSUME NEW f \in Files
      PROVE  {<<r.index, r.text>> : r \in ChunksOf(f)'} =
                IF notes'[f] = None THEN {}
                ELSE {<<i - 1, Cut[notes'[f]][i]>> : i \in DOMAIN Cut[notes'[f]]}
    <2>1. CASE f \in Victims(p)
        <3>1. ChunksOf(f)' = {} /\ notes'[f] = None
            BY <1>1, <2>1 DEF ChunksOf
        <3>2. QED BY <3>1
    <2>2. CASE f \notin Victims(p)
        <3>1. ChunksOf(f)' = ChunksOf(f) /\ notes'[f] = notes[f]
            BY <1>1, <2>2 DEF ChunksOf
        <3>2. QED BY <3>1 DEF ChunksMatchNote, ChunksOf
    <2>3. QED BY <2>1, <2>2
<1>3. QED BY <1>2 DEF ChunksMatchNote, ChunksOf

LEMMA MatchStep ==
    ASSUME TypeInv, ChunksMatchNote, [Next]_vars
    PROVE  ChunksMatchNote'
<1>1. ASSUME UNCHANGED <<notes, chunks>>
      PROVE  ChunksMatchNote'
    BY <1>1 DEF ChunksMatchNote
<1>2. CASE \E p \in Indexers : CommitNote(p) \/ SaveNoteFails(p)
    <2>1. PICK p \in Indexers : CommitNote(p) \/ SaveNoteFails(p)
        BY <1>2
    <2>2. PICK n \in pass[p].todo : ReplaceNote(n) \/ UNCHANGED store
        BY <2>1 DEF CommitNote, SaveNoteFails, RollBack
    <2>3. QED BY <1>1, <2>2, NextNoteType, ReplaceNoteMatches DEF store
<1>3. CASE \E p \in Indexers : Prune(p)
    BY <1>3, PruneMatches
<1>4. CASE ~ \E p \in Indexers : CommitNote(p) \/ SaveNoteFails(p) \/ Prune(p)
    <2>1. UNCHANGED <<notes, chunks>>
        BY <1>4 DEF Next, PassStep, Fault, Edit, StartIndex, ScanFile, ScanDone,
           BeginNote, UpsertNote, NotesDone, ClaimPending, EmbedPart,
           SaveEmbeddings, PassAborts, WriteFile, RemoveFile, RefillQuota,
           store, vars
    <2>2. QED BY <1>1, <2>1
<1>5. QED BY <1>2, <1>3, <1>4

\* A note is stored with all of its chunks or not at all, whichever passes
\* save it together and wherever they die: the hash that makes later passes
\* skip it always stands for the chunks that are there.
THEOREM ChunksCorrect == Spec => []ChunksMatchNote
<1>1. Init => ChunksMatchNote
    BY DEF Init, ChunksMatchNote
<1>2. TypeInv /\ ChunksMatchNote /\ [Next]_vars => ChunksMatchNote'
    BY MatchStep
<1>3. QED BY <1>1, <1>2, TypeInvariant, PTL DEF Spec

-----------------------------------------------------------------------------
(***************************************************************************)
(* The prune.  While a pass runs, every file that has been on disk since   *)
(* it began is still to be walked, still to be saved, skipped, or already  *)
(* in the keep list; once the list is complete it holds them all.          *)
(***************************************************************************)

\* What KeepComplete does not look at may change, and present may shrink.
LEMMA KeepFrame ==
    ASSUME NEW p \in Indexers, KeepComplete(p),
           pass'[p].pc = pass[p].pc, pass'[p].walk = pass[p].walk,
           pass'[p].todo = pass[p].todo, pass'[p].keep = pass[p].keep,
           pass'[p].skipped = pass[p].skipped,
           pass'[p].present \subseteq pass[p].present
    PROVE  KeepComplete(p)'
BY DEF KeepComplete, IsNextNote, PathsOf

LEMMA EndPassKeeps ==
    ASSUME TypeInv, NEW p \in Indexers, NEW outcome \in Resting, NEW failed,
           EndPass(p, outcome, failed)
    PROVE  KeepComplete(p)'
<1>1. pass'[p] = Over(outcome, failed, pass[p].settled)
    BY DEF EndPass, TypeInv, TypeOK
<1>2. QED BY <1>1 DEF KeepComplete, Over, Resting

LEMMA NoteDoneKeeps ==
    ASSUME TypeInv, NEW p \in Indexers, KeepComplete(p),
           pass[p].pc \in {"upsert", "commit"}, NEW n \in pass[p].todo,
           IsNextNote(p, n), NEW failed, NoteDone(p, n, failed)
    PROVE  KeepComplete(p)'
<1>1. /\ pass'[p].pc = "note"
      /\ pass'[p].todo = pass[p].todo \ {n}
      /\ pass'[p].walk = pass[p].walk
      /\ pass'[p].keep = pass[p].keep
      /\ pass'[p].skipped = pass[p].skipped
      /\ pass'[p].present = pass[p].present
    BY DEF NoteDone, TypeInv, TypeOK, PassState
<1>2. CASE p \in Misconfigured
    BY <1>2 DEF KeepComplete
<1>3. CASE p \notin Misconfigured
    <2>1. n.path \in pass[p].keep
        BY <1>3 DEF KeepComplete
    <2>2. pass[p].present \subseteq pass[p].keep \cup PathsOf(pass[p].todo)
        BY <1>3 DEF KeepComplete
    <2>3. pass'[p].present \subseteq pass'[p].keep \cup PathsOf(pass'[p].todo)
        BY <1>1, <2>1, <2>2 DEF PathsOf
    <2>4. QED BY <1>1, <1>3, <2>3 DEF KeepComplete, PathsOf
<1>4. QED BY <1>2, <1>3

LEMMA ScanKeeps ==
    ASSUME TypeInv, NEW p \in Indexers, KeepComplete(p),
           StartIndex(p) \/ ScanFile(p) \/ ScanDone(p)
    PROVE  KeepComplete(p)'
<1>0. pass \in [Indexers -> PassState]
    BY DEF TypeInv, TypeOK
<1>1. CASE StartIndex(p)
    <2>1. /\ pass'[p].pc = "read"
          /\ pass'[p].walk = IF p \in Misconfigured THEN {} ELSE OnDisk
          /\ pass'[p].present = OnDisk
          /\ pass'[p].todo = {} /\ pass'[p].keep = {} /\ pass'[p].skipped = {}
        BY <1>0, <1>1 DEF StartIndex, Over
    <2>2. QED BY <2>1 DEF KeepComplete
<1>2. CASE ScanFile(p)
    <2>1. PICK f \in pass[p].walk : ScanFile(p)!2!(f)
        BY <1>2 DEF ScanFile
    <2>2. CASE EndPass(p, "failed", {})
        BY <2>2, EndPassKeeps DEF Resting
    <2>3. CASE \/ pass' = [pass EXCEPT ![p].walk = @ \ {f},
                                      ![p].skipped = @ \cup {f}]
               \/ pass' = [pass EXCEPT ![p].walk = @ \ {f},
                                      ![p].todo = @ \cup {[path |-> f, content |-> vault[f]]}]
        <3>1. /\ pass'[p].pc = "read"
              /\ pass'[p].walk = pass[p].walk \ {f}
              /\ pass'[p].present = pass[p].present
              /\ \/ /\ pass'[p].skipped = pass[p].skipped \cup {f}
                    /\ pass'[p].todo = pass[p].todo
                 \/ /\ pass'[p].skipped = pass[p].skipped
                    /\ pass'[p].todo = pass[p].todo \cup {[path |-> f, content |-> vault[f]]}
            <4>1. pass[p].pc = "read" /\ pass[p] \in PassState
                BY <1>0, <1>2 DEF ScanFile
            <4>2. QED BY <1>0, <2>3, <4>1 DEF PassState
        <3>2. p \notin Misconfigured
            BY <2>1 DEF KeepComplete
        <3>3. pass[p].present \subseteq
                  pass[p].walk \cup PathsOf(pass[p].todo) \cup pass[p].skipped
            BY <1>2, <3>2 DEF KeepComplete, ScanFile
        <3>4. pass'[p].present \subseteq
                  pass'[p].walk \cup PathsOf(pass'[p].todo) \cup pass'[p].skipped
            <4>1. PathsOf(pass[p].todo \cup {[path |-> f, content |-> vault[f]]})
                      = PathsOf(pass[p].todo) \cup {f}
                <5> DEFINE new == [path |-> f, content |-> vault[f]]
                <5>1. new.path = f
                    OBVIOUS
                <5> HIDE DEF new
                <5>2. PathsOf(pass[p].todo \cup {new}) = PathsOf(pass[p].todo) \cup {f}
                    BY <5>1 DEF PathsOf
                <5>3. QED BY <5>2 DEF new
            <4>2. QED BY <3>1, <3>3, <4>1
        <3>5. QED BY <3>1, <3>2, <3>4 DEF KeepComplete, PathsOf
    <2>4. QED BY <2>1, <2>2, <2>3
<1>3. CASE ScanDone(p)
    <2>1. /\ pass[p].pc = "read" /\ pass[p].walk = {}
          /\ pass'[p].pc = "note" /\ pass'[p].keep = pass[p].skipped
          /\ pass'[p].walk = pass[p].walk /\ pass'[p].todo = pass[p].todo
          /\ pass'[p].skipped = pass[p].skipped /\ pass'[p].present = pass[p].present
        BY <1>0, <1>3 DEF ScanDone, PresentSoFar, PassState
    <2>2. QED BY <2>1 DEF KeepComplete, PathsOf
<1>4. QED BY <1>1, <1>2, <1>3

LEMMA SaveNoteKeeps ==
    ASSUME TypeInv, NEW p \in Indexers, KeepComplete(p),
           BeginNote(p) \/ UpsertNote(p) \/ CommitNote(p) \/ NotesDone(p)
    PROVE  KeepComplete(p)'
<1>0. pass \in [Indexers -> PassState]
    BY DEF TypeInv, TypeOK
<1>1. CASE BeginNote(p)
    <2>1. PICK n \in pass[p].todo :
              /\ IsNextNote(p, n)
              /\ pass' = [pass EXCEPT ![p].pc = "upsert",
                                      ![p].keep = @ \cup {n.path},
                                      ![p].seen = notes[n.path] # None]
        BY <1>1 DEF BeginNote
    <2>2. /\ pass[p].pc = "note" /\ pass'[p].pc = "upsert"
          /\ pass'[p].keep = pass[p].keep \cup {n.path}
          /\ pass'[p].walk = pass[p].walk /\ pass'[p].todo = pass[p].todo
          /\ pass'[p].skipped = pass[p].skipped /\ pass'[p].present = pass[p].present
        <3>1. pass[p].pc = "note" /\ pass[p] \in PassState
            BY <1>0, <1>1 DEF BeginNote
        <3>2. QED BY <1>0, <2>1, <3>1 DEF PassState
    <2>3. p \notin Misconfigured
        BY <2>1 DEF KeepComplete
    <2>4. ASSUME NEW m \in pass[p].todo, IsNextNote(p, m)
          PROVE  m.path = n.path
        <3>1. m.path \in Nat /\ n.path \in Nat
            BY <2>1, NextNoteType, ConfigAssumption
        <3>2. m.path <= n.path /\ n.path <= m.path
            BY <2>1, <2>4 DEF IsNextNote, IsFirst
        <3>3. QED BY <3>1, <3>2
    <2>5. \A m : IsNextNote(p, m)' <=> IsNextNote(p, m)
        BY <2>2 DEF IsNextNote
    <2>6. pass[p].present \subseteq pass[p].keep \cup PathsOf(pass[p].todo)
        BY <2>2, <2>3 DEF KeepComplete
    <2>7. QED BY <2>2, <2>3, <2>4, <2>5, <2>6 DEF KeepComplete, PathsOf
<1>2. CASE UpsertNote(p)
    <2>1. PICK n \in pass[p].todo :
              /\ IsNextNote(p, n)
              /\ \/ NoteDone(p, n, IF pass[p].seen THEN {} ELSE {n.path})
                 \/ pass' = [pass EXCEPT ![p].pc = "commit"]
        BY <1>2 DEF UpsertNote
    <2>2. pass[p].pc = "upsert"
        BY <1>2 DEF UpsertNote
    <2>3. CASE NoteDone(p, n, IF pass[p].seen THEN {} ELSE {n.path})
        BY <2>1, <2>2, <2>3, NoteDoneKeeps
    <2>4. CASE pass' = [pass EXCEPT ![p].pc = "commit"]
        <3>1. /\ pass'[p].pc = "commit" /\ pass'[p].keep = pass[p].keep
              /\ pass'[p].walk = pass[p].walk /\ pass'[p].todo = pass[p].todo
              /\ pass'[p].skipped = pass[p].skipped /\ pass'[p].present = pass[p].present
            BY <1>0, <2>4 DEF PassState
        <3>2. QED BY <2>2, <3>1 DEF KeepComplete, IsNextNote, PathsOf
    <2>5. QED BY <2>1, <2>3, <2>4
<1>3. CASE CommitNote(p)
    <2>1. PICK n \in pass[p].todo :
              IsNextNote(p, n) /\ \E failed : NoteDone(p, n, failed)
        BY <1>3 DEF CommitNote
    <2>2. pass[p].pc = "commit"
        BY <1>3 DEF CommitNote
    <2>3. QED BY <2>1, <2>2, NoteDoneKeeps
<1>4. CASE NotesDone(p)
    <2>1. /\ pass[p].pc = "note" /\ pass[p].todo = {}
          /\ pass'[p].pc \in {"prune", "claim"} /\ pass'[p].keep = pass[p].keep
          /\ pass'[p].walk = pass[p].walk /\ pass'[p].todo = pass[p].todo
          /\ pass'[p].skipped = pass[p].skipped /\ pass'[p].present = pass[p].present
        BY <1>0, <1>4 DEF NotesDone, PassState
    <2>2. QED BY <2>1 DEF KeepComplete, PathsOf
<1>5. QED BY <1>1, <1>2, <1>3, <1>4

\* From the prune on the keep list no longer matters; faults end the pass or
\* finish a note.
LEMMA LateStepKeeps ==
    ASSUME TypeInv, NEW p \in Indexers, KeepComplete(p),
           \/ Prune(p) \/ ClaimPending(p) \/ EmbedPart(p) \/ SaveEmbeddings(p)
           \/ Fault(p)
    PROVE  KeepComplete(p)'
<1>0. pass \in [Indexers -> PassState]
    BY DEF TypeInv, TypeOK
<1>1. ASSUME pass'[p].pc \in {"claim", "embed", "store"},
             pass'[p].walk = pass[p].walk, pass'[p].todo = pass[p].todo,
             pass'[p].keep = pass[p].keep, pass'[p].skipped = pass[p].skipped
      PROVE  KeepComplete(p)'
    BY <1>1 DEF KeepComplete
<1>2. CASE Prune(p)
    <2>1. pass' = [pass EXCEPT ![p].pc = "claim"]
        BY <1>2 DEF Prune
    <2>2. QED BY <1>0, <1>1, <2>1 DEF PassState
<1>3. CASE ClaimPending(p)
    <2>1. \/ EndPass(p, Outcome(p), pass[p].failed)
          \/ \E batch : pass' = [pass EXCEPT ![p].pc = "embed", ![p].pending = batch]
        BY <1>3 DEF ClaimPending
    <2>2. CASE EndPass(p, Outcome(p), pass[p].failed)
        BY <2>2, EndPassKeeps DEF Outcome, Resting
    <2>3. CASE \E batch : pass' = [pass EXCEPT ![p].pc = "embed", ![p].pending = batch]
        BY <1>0, <1>1, <2>3 DEF PassState
    <2>4. QED BY <2>1, <2>2, <2>3
<1>4. CASE EmbedPart(p)
    <2>1. \/ EndPass(p, "failed", pass[p].failed)
          \/ \E part : pass' = [pass EXCEPT ![p].pc = "store", ![p].part = part]
        BY <1>4 DEF EmbedPart
    <2>2. CASE EndPass(p, "failed", pass[p].failed)
        BY <2>2, EndPassKeeps DEF Resting
    <2>3. CASE \E part : pass' = [pass EXCEPT ![p].pc = "store", ![p].part = part]
        BY <1>0, <1>1, <2>3 DEF PassState
    <2>4. QED BY <2>1, <2>2, <2>3
<1>5. CASE SaveEmbeddings(p)
    <2>1. \/ EndPass(p, "failed", pass[p].failed)
          \/ \E pc \in {"claim", "embed"} : \E left :
                pass' = [pass EXCEPT ![p].pc = pc, ![p].pending = left, ![p].part = {}]
        BY <1>5 DEF SaveEmbeddings
    <2>2. CASE EndPass(p, "failed", pass[p].failed)
        BY <2>2, EndPassKeeps DEF Resting
    <2>3. CASE \E pc \in {"claim", "embed"} : \E left :
                  pass' = [pass EXCEPT ![p].pc = pc, ![p].pending = left, ![p].part = {}]
        BY <1>0, <1>1, <2>3 DEF PassState
    <2>4. QED BY <2>1, <2>2, <2>3
<1>6. CASE PassAborts(p)
    BY <1>6, EndPassKeeps DEF PassAborts, Resting
<1>7. CASE SaveNoteFails(p)
    <2>1. PICK n \in pass[p].todo :
              /\ IsNextNote(p, n)
              /\ NoteDone(p, n, {n.path})
              /\ pass[p].pc \in {"upsert", "commit"}
        BY <1>7 DEF SaveNoteFails
    <2>2. QED BY <2>1, NoteDoneKeeps
<1>8. QED BY <1>2, <1>3, <1>4, <1>5, <1>6, <1>7 DEF Fault

\* A step of one pass leaves the others' states alone.
LEMMA OthersUntouched ==
    ASSUME TypeInv, NEW p \in Indexers, StartIndex(p) \/ PassStep(p) \/ Fault(p),
           NEW q \in Indexers \ {p}
    PROVE  pass'[q] = pass[q]
<1>1. \E st : pass' = [pass EXCEPT ![p] = st]
    <2>1. CASE StartIndex(p) \/ ScanFile(p) \/ ScanDone(p)
        BY <2>1, Zenon DEF StartIndex, ScanFile, ScanDone, EndPass
    <2>2. CASE BeginNote(p) \/ UpsertNote(p) \/ CommitNote(p) \/ NotesDone(p)
        BY <2>2, Zenon DEF BeginNote, UpsertNote, CommitNote, NotesDone, NoteDone
    <2>3. CASE Prune(p) \/ ClaimPending(p) \/ EmbedPart(p) \/ SaveEmbeddings(p)
        BY <2>3, Zenon DEF Prune, ClaimPending, EmbedPart, SaveEmbeddings, EndPass
    <2>4. CASE Fault(p)
        BY <2>4, Zenon DEF Fault, PassAborts, SaveNoteFails, EndPass, NoteDone
    <2>5. QED BY <2>1, <2>2, <2>3, <2>4 DEF PassStep
<1>2. QED BY <1>1 DEF TypeInv, TypeOK

LEMMA KeepStep ==
    ASSUME TypeInv, KeepListComplete, [Next]_vars
    PROVE  KeepListComplete'
<1>1. CASE \E p \in Indexers : StartIndex(p) \/ PassStep(p) \/ Fault(p)
    <2>1. PICK p \in Indexers : StartIndex(p) \/ PassStep(p) \/ Fault(p)
        BY <1>1
    <2>2. KeepComplete(p)'
        BY <2>1, ScanKeeps, SaveNoteKeeps, LateStepKeeps DEF PassStep, KeepListComplete
    <2>3. ASSUME NEW q \in Indexers \ {p}
          PROVE  KeepComplete(q)'
        <3>1. pass'[q] = pass[q]
            BY <2>1, OthersUntouched
        <3>2. QED BY <3>1, KeepFrame DEF KeepListComplete
    <2>4. QED BY <2>2, <2>3 DEF KeepListComplete
<1>2. CASE Edit
    <2>1. PICK f \in Files : RemoveFile(f) \/ \E c \in Contents : WriteFile(f, c)
        BY <1>2 DEF Edit
    <2>2. SUFFICES ASSUME NEW q \in Indexers PROVE KeepComplete(q)'
        BY DEF KeepListComplete
    <2>3. \/ pass'[q] = [pass[q] EXCEPT !.settled = FALSE]
          \/ pass'[q] = [pass[q] EXCEPT !.settled = FALSE, !.present = @ \ {f}]
        BY <2>1 DEF RemoveFile, WriteFile
    <2>4. pass[q] \in PassState
        BY DEF TypeInv, TypeOK
    <2>5. /\ pass'[q].pc = pass[q].pc /\ pass'[q].walk = pass[q].walk
          /\ pass'[q].todo = pass[q].todo /\ pass'[q].keep = pass[q].keep
          /\ pass'[q].skipped = pass[q].skipped
          /\ pass'[q].present \subseteq pass[q].present
        BY <2>3, <2>4 DEF PassState
    <2>6. QED BY <2>5, KeepFrame DEF KeepListComplete
<1>3. CASE UNCHANGED pass
    BY <1>3, KeepFrame DEF KeepListComplete
<1>4. QED BY <1>1, <1>2, <1>3 DEF Next, RefillQuota, vars

\* A prune deletes what its keep list lacks, and nothing without a list.
LEMMA PruneSpares ==
    ASSUME TypeInv, KeepListComplete, [Next]_vars,
           NEW p \in Indexers, pass[p].pc = "prune", NEW f \in pass[p].present,
           pass'[p].pc = "claim", notes[f] # None
    PROVE  notes'[f] # None
<1>0. pass \in [Indexers -> PassState] /\ f \in Files
    BY DEF TypeInv, TypeOK, PassState
<1>1. Prune(p)
    <2>1. PICK q \in Indexers : StartIndex(q) \/ PassStep(q) \/ Fault(q)
        <3>1. CASE Edit
            <4>1. PICK g \in Files : RemoveFile(g) \/ \E c \in Contents : WriteFile(g, c)
                BY <3>1 DEF Edit
            <4>2. \/ pass'[p] = [pass[p] EXCEPT !.settled = FALSE]
                  \/ pass'[p] = [pass[p] EXCEPT !.settled = FALSE, !.present = @ \ {g}]
                BY <4>1 DEF RemoveFile, WriteFile
            <4>3. pass'[p].pc = pass[p].pc
                BY <1>0, <4>2 DEF PassState
            <4>4. QED BY <4>3
        <3>2. CASE UNCHANGED pass
            BY <3>2
        <3>3. QED BY <3>1, <3>2 DEF Next, RefillQuota, vars
    <2>2. q = p
        BY <2>1, OthersUntouched
    <2>3. ~ SaveNoteFails(p)
        BY DEF SaveNoteFails
    <2>4. ~ PassAborts(p)
        BY <1>0 DEF PassAborts, EndPass, Over
    <2>5. QED BY <2>1, <2>2, <2>3, <2>4
              DEF PassStep, Fault, StartIndex, Resting, ScanFile, ScanDone, BeginNote,
                  UpsertNote, CommitNote, NotesDone, ClaimPending, EmbedPart,
                  SaveEmbeddings
<1>2. f \notin Victims(p)
    <2>1. CASE p \in Misconfigured
        BY <2>1 DEF KeepListComplete, KeepComplete, Victims
    <2>2. CASE p \notin Misconfigured
        <3>1. pass[p].todo = {} /\ pass[p].present \subseteq pass[p].keep \cup PathsOf(pass[p].todo)
            BY <2>2 DEF KeepListComplete, KeepComplete
        <3>2. f \in pass[p].keep
            BY <3>1 DEF PathsOf
        <3>3. QED BY <3>2 DEF Victims
    <2>3. QED BY <2>1, <2>2
<1>3. QED BY <1>0, <1>1, <1>2 DEF Prune

\* No pass prunes the note of a file that was there all along, whether the file
\* could be parsed, could be stored, or was not looked for in the right place.
THEOREM PruneCorrect == Spec => PruneOnlyVanished
<1>1. Init => KeepListComplete
    BY DEF Init, KeepListComplete, KeepComplete, Over
<1>2. TypeInv /\ KeepListComplete /\ [Next]_vars => KeepListComplete'
    BY KeepStep
<1> DEFINE Spares == \A p \in Indexers : pass[p].pc = "prune" =>
              \A f \in pass[p].present :
                 pass'[p].pc = "claim" /\ notes[f] # None => notes'[f] # None
<1>3. TypeInv /\ KeepListComplete /\ [Next]_vars => [Spares]_vars
    BY PruneSpares
<1>4. QED BY <1>1, <1>2, <1>3, TypeInvariant, PTL DEF Spec, PruneOnlyVanished
=============================================================================
