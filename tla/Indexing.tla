------------------------------ MODULE Indexing ------------------------------
(***************************************************************************)
(* Knowledge.Index: bringing the search index in line with a directory of  *)
(* markdown files, by any number of concurrent indexers (processes or      *)
(* goroutines) over one Postgres database and one vault that keeps being   *)
(* edited.                                                                  *)
(*                                                                         *)
(* One pass walks the vault, saves every note whose hash changed, prunes   *)
(* the notes whose file is gone, then embeds every chunk that has no       *)
(* vector in the indexer's own space.  Every statement against Postgres,   *)
(* every file read and every provider call is a step of its own.           *)
(*                                                                         *)
(* A file's bytes are one element of Contents; its sha256 is taken to be   *)
(* injective, so the hash of a note IS the content it was saved from.      *)
(* Cut gives the chunks chunk.Cut makes of it, and a vector is represented *)
(* by the text it was computed from.                                        *)
(***************************************************************************)
EXTENDS Naturals, Sequences, FiniteSets

CONSTANTS
    Indexers,       \* callers of Knowledge.Index
    Spaces,         \* embedding spaces: (provider, model, dimension)
    SpaceOf,        \* the space each indexer was opened with
    Misconfigured,  \* indexers whose VaultPath names a directory without notes
    Files,          \* vault-relative paths, as their rank in walk order
    Contents,       \* what the bytes of a file may be
    Kind,           \* how parsing and storing a content turns out
    Texts,          \* chunk texts
    Refused,        \* texts the provider answers with an error, every time
    Cut,            \* the chunks of a content
    None,           \* no such file, no such note
    PendingBatch,   \* chunks claimed per round of embedPending
    MaxBatch,       \* texts per provider call
    Quota,          \* provider calls per quota window
    MaxEdits,       \* bound: edits of the vault
    MaxFaults       \* bound: injected crashes and failures

(***************************************************************************)
(* parsed      accepted by the parser, the chunker and Postgres            *)
(* unclosed    frontmatter never closed: the scan skips the file           *)
(* overlong    a line beyond bufio.Scanner's limit: the parser errors      *)
(* unstorable  parsed, but chunk.Cut or an INSERT refuses it               *)
(***************************************************************************)
Kinds == {"parsed", "unclosed", "overlong", "unstorable"}

ASSUME ConfigAssumption ==
    /\ SpaceOf \in [Indexers -> Spaces]
    /\ Misconfigured \subseteq Indexers
    /\ Files \subseteq Nat
    /\ None \notin Contents
    /\ Refused \subseteq Texts
    /\ Kind \in [Contents -> Kinds]
    /\ Cut \in [Contents -> Seq(Texts)]

ASSUME LimitAssumption ==
    /\ PendingBatch \in Nat \ {0}
    /\ MaxBatch \in Nat \ {0}
    /\ Quota \in Nat \ {0}
    /\ MaxEdits \in Nat
    /\ MaxFaults \in Nat

VARIABLES
    vault,      \* the files on disk
    notes,      \* table notes: the content (hash) stored for a path
    chunks,     \* table chunks
    nextChunk,  \* chunks_id_seq: the next identity value
    vectors,    \* one embedding table per space
    pass,       \* local state of each indexer's current or last pass
    quota,      \* provider calls left in the current window
    edits,      \* edits made so far
    faults      \* faults injected so far

store == <<notes, chunks, nextChunk, vectors>>
vars == <<vault, store, pass, quota, edits, faults>>

ChunkRow == [id: Nat, note: Files, index: Nat, text: Texts]
VectorRow == [chunk: Nat, of: Texts]
Note == [path: Files, content: Contents]

Resting == {"idle", "done", "failed"}
Running == {"read", "note", "upsert", "commit", "prune", "claim", "embed", "store"}

(***************************************************************************)
(* pc       where the pass is; done and failed are Index's two outcomes    *)
(* walk     directory entries still to be read                             *)
(* todo     scan.Notes not yet saved                                       *)
(* keep     paths, the argument of the prune                               *)
(* skipped  scan.Skipped                                                   *)
(* failed   notes counted in IndexResult.NotesFailed                       *)
(* seen     the upsert statement's snapshot holds a row for the path       *)
(* pending  claimed chunks not yet embedded and saved                      *)
(* part     the slice of pending whose vectors the provider returned       *)
(* present  history: files on disk ever since the pass began               *)
(* settled  history: no edit since the pass began, and none that a pass    *)
(*          running beside it may have missed                              *)
(***************************************************************************)
PassState ==
    [pc: Resting \cup Running,
     walk: SUBSET Files,
     todo: SUBSET Note,
     keep: SUBSET Files,
     skipped: SUBSET Files,
     failed: SUBSET Files,
     seen: BOOLEAN,
     pending: SUBSET ChunkRow,
     part: SUBSET ChunkRow,
     present: SUBSET Files,
     settled: BOOLEAN]

\* A pass that is over: its locals are gone, only the outcome is left.
Over(outcome, failed, settled) ==
    [pc |-> outcome, walk |-> {}, todo |-> {}, keep |-> {}, skipped |-> {},
     failed |-> failed, seen |-> FALSE, pending |-> {}, part |-> {},
     present |-> {}, settled |-> settled]

TypeOK ==
    /\ vault \in [Files -> Contents \cup {None}]
    /\ notes \in [Files -> Contents \cup {None}]
    /\ chunks \subseteq ChunkRow
    /\ nextChunk \in Nat
    /\ vectors \in [Spaces -> SUBSET VectorRow]
    /\ pass \in [Indexers -> PassState]
    /\ quota \in 0..Quota
    /\ edits \in 0..MaxEdits
    /\ faults \in 0..MaxFaults

-----------------------------------------------------------------------------
(***************************************************************************)
(* The store: what the SQL statements compute.                             *)
(***************************************************************************)

\* The rows that survive the DELETE of a note's chunks.
KeptRowsLeavingTail(f, c) ==
    {r \in chunks : r.note # f \/ r.index >= Len(Cut[c])}

KeptRows(f, c) == {r \in chunks : r.note # f}

\* The rows INSERTed for a note: identity values are always fresh.
NewRowsCountedDown(f, c) ==
    {[id |-> nextChunk + i - 1, note |-> f, index |-> Len(Cut[c]) - i - 1, text |-> Cut[c][i]]
        : i \in DOMAIN Cut[c]}

NewRowsInPlace(f, c) ==
    {[id |-> IF \E r \in chunks : r.note = f /\ r.index = i - 1
             THEN (CHOOSE r \in chunks : r.note = f /\ r.index = i - 1).id
             ELSE nextChunk + i - 1,
      note |-> f, index |-> i - 1, text |-> Cut[c][i]] : i \in DOMAIN Cut[c]}

NewRows(f, c) ==
    {[id |-> nextChunk + i - 1, note |-> f, index |-> i - 1, text |-> Cut[c][i]]
        : i \in DOMAIN Cut[c]}

\* ON DELETE CASCADE from chunks to every embedding table.
Cascade(rows) ==
    [s \in Spaces |-> {v \in vectors[s] : \E r \in rows : r.id = v.chunk}]

\* The LEFT JOIN of PendingChunks: chunks without a vector in this space.
PendingRowsInAnySpace(s) ==
    {r \in chunks : ~\E t \in Spaces : \E v \in vectors[t] : v.chunk = r.id}

PendingRows(s) == {r \in chunks : ~\E v \in vectors[s] : v.chunk = r.id}

\* ORDER BY id LIMIT n over rows, as the set of the one possible answer.
FirstRows(n, rows) ==
    {batch \in SUBSET rows :
        /\ Cardinality(batch) <= n
        /\ batch = rows \/ Cardinality(batch) = n
        /\ \A r \in batch, q \in rows \ batch : r.id < q.id}

-----------------------------------------------------------------------------
Init ==
    /\ vault \in [Files -> Contents \cup {None}]
    /\ notes = [f \in Files |-> None]
    /\ chunks = {}
    /\ nextChunk = 1
    /\ vectors = [s \in Spaces |-> {}]
    /\ pass = [p \in Indexers |-> Over("idle", {}, FALSE)]
    /\ quota = Quota
    /\ edits = 0
    /\ faults = 0

OnDisk == {f \in Files : vault[f] # None}

\* The walk and the note loop both go through paths in lexical order.
IsFirst(f, S) == \A g \in S : f <= g
IsNextNote(p, n) ==
    /\ n \in pass[p].todo
    /\ IsFirst(n.path, {m.path : m \in pass[p].todo})

EndPass(p, outcome, failed) ==
    pass' = [pass EXCEPT ![p] = Over(outcome, failed, pass[p].settled)]

(***************************************************************************)
(* vault.Scan.                                                             *)
(***************************************************************************)

\* Index is called, and WalkDir reads the directory.
StartIndex(p) ==
    /\ pass[p].pc \in Resting
    /\ pass' = [pass EXCEPT ![p] =
          [Over("read", {}, \A q \in Indexers \ {p} :
                               pass[q].pc \in Resting \/ pass[q].settled)
             EXCEPT !.walk = IF p \in Misconfigured THEN {} ELSE OnDisk,
                    !.present = OnDisk]]
    /\ UNCHANGED <<vault, store, quota, edits, faults>>

\* What reading and parsing a file comes to.
Reading(f) == IF vault[f] = None THEN "vanished" ELSE Kind[vault[f]]

\* The callback of WalkDir on one entry.  A file that vanished after the
\* directory was read, and a parse error other than ErrUnclosedFrontmatter,
\* stop the walk and with it the pass.
ScanFile(p) ==
    /\ pass[p].pc = "read"
    /\ \E f \in pass[p].walk :
        /\ IsFirst(f, pass[p].walk)
        /\ \/ /\ Reading(f) \in {"vanished", "overlong"}
              /\ EndPass(p, "failed", {})
           \/ /\ Reading(f) = "unclosed"
              /\ pass' = [pass EXCEPT ![p].walk = @ \ {f},
                                      ![p].skipped = @ \cup {f}]
           \/ /\ Reading(f) \in {"parsed", "unstorable"}
              /\ pass' = [pass EXCEPT ![p].walk = @ \ {f},
                                      ![p].todo = @ \cup {[path |-> f, content |-> vault[f]]}]
    /\ UNCHANGED <<vault, store, quota, edits, faults>>

\* A skipped file still exists, so it counts as present for the prune.
PresentSoFarWithoutSkipped(p) == {}
PresentSoFar(p) == pass[p].skipped

ScanDone(p) ==
    /\ pass[p].pc = "read"
    /\ pass[p].walk = {}
    /\ pass' = [pass EXCEPT ![p].pc = "note", ![p].keep = PresentSoFar(p)]
    /\ UNCHANGED <<vault, store, quota, edits, faults>>

(***************************************************************************)
(* storage.SaveNoteWithChunks, one transaction per note.                   *)
(***************************************************************************)

\* The upsert is issued; the snapshot of its second SELECT is taken here.
BeginNote(p) ==
    /\ pass[p].pc = "note"
    /\ \E n \in pass[p].todo :
        /\ IsNextNote(p, n)
        /\ pass' = [pass EXCEPT ![p].pc = "upsert",
                                ![p].keep = @ \cup {n.path},
                                ![p].seen = notes[n.path] # None]
    /\ UNCHANGED <<vault, store, quota, edits, faults>>

\* The row for path f is written by a transaction that has not ended.
Locked(f) ==
    \E q \in Indexers : pass[q].pc = "commit" /\ \E n \in pass[q].todo :
        IsNextNote(q, n) /\ n.path = f

SameHashForgotten(n) == FALSE
SameHash(n) == notes[n.path] = n.content

NoteDone(p, n, failed) ==
    pass' = [pass EXCEPT ![p].pc = "note",
                         ![p].todo = @ \ {n},
                         ![p].failed = @ \cup failed,
                         ![p].seen = FALSE]

\* The upsert runs once no other transaction holds the row.  With an equal
\* hash nothing is written, and the row must come from the second SELECT,
\* which does not see a row committed after the statement began: then the
\* query returns no row at all and the note is counted as failed.
UpsertNote(p) ==
    /\ pass[p].pc = "upsert"
    /\ \E n \in pass[p].todo :
        /\ IsNextNote(p, n)
        /\ ~Locked(n.path)
        /\ \/ /\ SameHash(n)
              /\ NoteDone(p, n, IF pass[p].seen THEN {} ELSE {n.path})
           \/ /\ ~SameHash(n)
              /\ pass' = [pass EXCEPT ![p].pc = "commit"]
    /\ UNCHANGED <<vault, store, quota, edits, faults>>

\* The note's row, its old chunks' deletion and its new chunks commit as one.
ReplaceNote(n) ==
    /\ notes' = [notes EXCEPT ![n.path] = n.content]
    /\ chunks' = KeptRows(n.path, n.content) \cup NewRows(n.path, n.content)
    /\ nextChunk' = nextChunk + Len(Cut[n.content])
    /\ vectors' = Cascade(chunks')

\* Postgres undoes an open transaction whole.
NoteRowStays(n) ==
    /\ notes' = [notes EXCEPT ![n.path] = n.content]
    /\ UNCHANGED <<chunks, nextChunk, vectors>>

RollBack(n) == UNCHANGED store

\* The identity values of the new rows, taken at their INSERTs, are given out here.
CommitNote(p) ==
    /\ pass[p].pc = "commit"
    /\ \E n \in pass[p].todo :
        /\ IsNextNote(p, n)
        /\ \/ /\ Kind[n.content] = "parsed"
              /\ ReplaceNote(n)
              /\ NoteDone(p, n, {})
           \/ /\ Kind[n.content] = "unstorable"
              /\ NoteDone(p, n, {n.path})
              /\ RollBack(n)
    /\ UNCHANGED <<vault, quota, edits, faults>>

(***************************************************************************)
(* storage.DeleteMissingNotes, only when every note could be stored.       *)
(***************************************************************************)
NotesDone(p) ==
    /\ pass[p].pc = "note"
    /\ pass[p].todo = {}
    /\ pass' = [pass EXCEPT ![p].pc = IF pass[p].failed = {} THEN "prune" ELSE "claim"]
    /\ UNCHANGED <<vault, store, quota, edits, faults>>

\* An empty keep list deletes nothing.
VictimsOfAnyList(p) == {f \in Files : notes[f] # None /\ f \notin pass[p].keep}

Victims(p) ==
    {f \in Files : notes[f] # None /\ f \notin pass[p].keep /\ pass[p].keep # {}}

Prune(p) ==
    /\ pass[p].pc = "prune"
    /\ \A f \in Victims(p) : ~Locked(f)
    /\ notes' = [f \in Files |-> IF f \in Victims(p) THEN None ELSE notes[f]]
    /\ chunks' = {r \in chunks : r.note \notin Victims(p)}
    /\ vectors' = Cascade(chunks')
    /\ pass' = [pass EXCEPT ![p].pc = "claim"]
    /\ UNCHANGED <<vault, nextChunk, quota, edits, faults>>

(***************************************************************************)
(* embedPending.                                                           *)
(***************************************************************************)
\* What Index returns when nothing stopped it: the notes' errors, joined.
OutcomeIgnoringNotes(p) == "done"
Outcome(p) == IF pass[p].failed = {} THEN "done" ELSE "failed"

ClaimPending(p) ==
    /\ pass[p].pc = "claim"
    /\ \/ /\ PendingRows(SpaceOf[p]) = {}
          /\ EndPass(p, Outcome(p), pass[p].failed)
       \/ /\ PendingRows(SpaceOf[p]) # {}
          /\ \E batch \in FirstRows(PendingBatch, PendingRows(SpaceOf[p])) :
                pass' = [pass EXCEPT ![p].pc = "embed", ![p].pending = batch]
    /\ UNCHANGED <<vault, store, quota, edits, faults>>

\* What is embedded and saved together: at most one provider call's worth.
WholeRound(p) == {pass[p].pending}
NextParts(p) == FirstRows(MaxBatch, pass[p].pending)

\* Provider calls embed.Batched needs for a set of texts.
CallsFor(part) == (Cardinality(part) + MaxBatch - 1) \div MaxBatch

\* One text the provider will not embed fails the call it is sent in.
Refuses(part) == \E r \in part : r.text \in Refused

\* A refused call fails the whole of embed.Batched, and with it the pass.
EmbedPart(p) ==
    /\ pass[p].pc = "embed"
    /\ \E part \in NextParts(p) :
        \/ /\ CallsFor(part) <= quota
           /\ ~Refuses(part)
           /\ quota' = quota - CallsFor(part)
           /\ pass' = [pass EXCEPT ![p].pc = "store", ![p].part = part]
        \/ /\ CallsFor(part) <= quota
           /\ Refuses(part)
           /\ quota' = quota - CallsFor(part)
           /\ EndPass(p, "failed", pass[p].failed)
        \/ /\ CallsFor(part) > quota
           /\ quota' = 0
           /\ EndPass(p, "failed", pass[p].failed)
    /\ UNCHANGED <<vault, store, edits, faults>>

\* The multi-row INSERT ... ON CONFLICT DO UPDATE.  One chunk deleted since it
\* was claimed violates the foreign key and fails the whole statement.
SaveEmbeddings(p) ==
    /\ pass[p].pc = "store"
    /\ LET part == pass[p].part
           ids == {r.id : r \in part}
           left == pass[p].pending \ part
       IN  \/ /\ ids \subseteq {r.id : r \in chunks}
              /\ vectors' = [vectors EXCEPT ![SpaceOf[p]] =
                    {v \in @ : v.chunk \notin ids}
                        \cup {[chunk |-> r.id, of |-> r.text] : r \in part}]
              /\ pass' = [pass EXCEPT ![p].pc = IF left = {} THEN "claim" ELSE "embed",
                                      ![p].pending = left,
                                      ![p].part = {}]
           \/ /\ ~(ids \subseteq {r.id : r \in chunks})
              /\ EndPass(p, "failed", pass[p].failed)
              /\ UNCHANGED vectors
    /\ UNCHANGED <<vault, notes, chunks, nextChunk, quota, edits, faults>>

(***************************************************************************)
(* Faults.                                                                 *)
(***************************************************************************)

\* The process dies, ctx is cancelled, a statement other than a note's or a
\* provider call fails: the pass ends where it stands and Postgres rolls an
\* open transaction back.
PassAborts(p) ==
    /\ faults < MaxFaults
    /\ pass[p].pc \in Running
    /\ EndPass(p, "failed", pass[p].failed)
    /\ faults' = faults + 1
    /\ UNCHANGED <<vault, store, quota, edits>>

\* Saving one note fails: a timeout, a deadlock victim, a dropped connection.
\* When it is the COMMIT that loses its answer, the note may be stored.
SaveNoteFails(p) ==
    /\ faults < MaxFaults
    /\ \E n \in pass[p].todo :
        /\ IsNextNote(p, n)
        /\ NoteDone(p, n, {n.path})
        /\ \/ pass[p].pc = "upsert" /\ UNCHANGED store
           \/ pass[p].pc = "commit" /\ RollBack(n)
           \/ pass[p].pc = "commit" /\ Kind[n.content] = "parsed" /\ ReplaceNote(n)
    /\ faults' = faults + 1
    /\ UNCHANGED <<vault, quota, edits>>

(***************************************************************************)
(* The environment.                                                        *)
(***************************************************************************)

\* A file appears or is replaced (temporary file and rename, so atomically).
WriteFile(f, c) ==
    /\ edits < MaxEdits
    /\ vault[f] # c
    /\ vault' = [vault EXCEPT ![f] = c]
    /\ pass' = [p \in Indexers |-> [pass[p] EXCEPT !.settled = FALSE]]
    /\ edits' = edits + 1
    /\ UNCHANGED <<store, quota, faults>>

RemoveFile(f) ==
    /\ edits < MaxEdits
    /\ vault[f] # None
    /\ vault' = [vault EXCEPT ![f] = None]
    /\ pass' = [p \in Indexers |-> [pass[p] EXCEPT !.settled = FALSE,
                                                   !.present = @ \ {f}]]
    /\ edits' = edits + 1
    /\ UNCHANGED <<store, quota, faults>>

\* The provider's quota window turns over.
RefillQuota ==
    /\ quota < Quota
    /\ quota' = Quota
    /\ UNCHANGED <<vault, store, pass, edits, faults>>

-----------------------------------------------------------------------------
PassStep(p) ==
    \/ ScanFile(p)
    \/ ScanDone(p)
    \/ BeginNote(p)
    \/ UpsertNote(p)
    \/ CommitNote(p)
    \/ NotesDone(p)
    \/ Prune(p)
    \/ ClaimPending(p)
    \/ EmbedPart(p)
    \/ SaveEmbeddings(p)

Fault(p) == PassAborts(p) \/ SaveNoteFails(p)

Edit == \E f \in Files : RemoveFile(f) \/ \E c \in Contents : WriteFile(f, c)

Next ==
    \/ \E p \in Indexers : StartIndex(p) \/ PassStep(p) \/ Fault(p)
    \/ Edit
    \/ RefillQuota

Spec == Init /\ [][Next]_vars

(***************************************************************************)
(* A running goroutine is scheduled, whoever calls Index calls it again    *)
(* (a cron job, POST /reindex), and a provider's quota comes back.  Edits  *)
(* and faults owe nothing.                                                 *)
(***************************************************************************)
Fairness ==
    /\ \A p \in Indexers : WF_vars(PassStep(p)) /\ WF_vars(StartIndex(p))
    /\ WF_vars(RefillQuota)

FairSpec == Spec /\ Fairness

-----------------------------------------------------------------------------
(***************************************************************************)
(* Properties.                                                             *)
(***************************************************************************)

\* Every stored vector belongs to a stored chunk and was computed from that
\* chunk's own text, although the text was read by PendingChunks long before
\* SaveEmbeddings wrote the vector and the note may have been rewritten by
\* another pass in between (embedPending holds no lock across the call).
VectorsMatchText ==
    \A s \in Spaces : \A v \in vectors[s] :
        \E r \in chunks : r.id = v.chunk /\ r.text = v.of

\* The chunks of a note are those of the content its hash stands for, whole
\* and in order, whatever pass died in the middle of saving it.  Otherwise
\* the equal hash would make every later pass skip the note for good.
ChunksMatchNote ==
    \A f \in Files :
        {<<r.index, r.text>> : r \in {q \in chunks : q.note = f}} =
            IF notes[f] = None THEN {}
            ELSE {<<i - 1, Cut[notes[f]][i]>> : i \in DOMAIN Cut[notes[f]]}

\* What "in line with the vault" means for the notes: every parseable file is
\* stored as it is, and no note outlives its file (unless no file is left:
\* DeleteMissingNotes then keeps everything).
NotesInSync ==
    /\ \A f \in OnDisk : Kind[vault[f]] = "parsed" => notes[f] = vault[f]
    /\ OnDisk # {} => \A f \in Files \ OnDisk : notes[f] = None

AllEmbedded(s) == \A r \in chunks : \E v \in vectors[s] : v.chunk = r.id

InSync(s) == NotesInSync /\ AllEmbedded(s)

\* When Index returns nil and nobody edited the vault under this pass or under
\* a pass running beside it, the index is in line with the vault, every chunk
\* has a vector in this pass's space, and both stay so until the next edit.
SettledPassSyncs ==
    \A p \in Indexers \ Misconfigured :
        pass[p].pc = "done" /\ pass[p].settled => InSync(SpaceOf[p])

\* A prune removes no note whose file has been on disk ever since the pass
\* began: not one that could not be parsed, not one that could not be stored,
\* and nothing at all for a VaultPath that points at an empty directory.
PruneOnlyVanished ==
    [][\A p \in Indexers : pass[p].pc = "prune" =>
          \A f \in pass[p].present :
             pass'[p].pc = "claim" /\ notes[f] # None => notes'[f] # None]_vars

\* Over an index already in line with the vault, passes that saw the current
\* vault write no note and no chunk: repeating Index costs no embedding.
RepeatWritesNothing ==
    [][NotesInSync
       /\ (\A p \in Indexers : pass[p].pc \in Resting \/ pass[p].settled)
       => UNCHANGED <<notes, chunks>>]_vars

\* What stands in the way for good: a file the walk cannot get past, a note
\* whose failure cancels every prune, and a text the provider refuses in the
\* first call a space is due.
OnDiskOf(kind) == {f \in OnDisk : Kind[vault[f]] = kind}

NextCallRefused(s) ==
    \E batch \in FirstRows(PendingBatch, PendingRows(s)) :
        \E part \in FirstRows(MaxBatch, batch) : Refuses(part)

\* As far in line with the vault as these let the index come.
AsInSyncAsCanBe(s) ==
    OnDiskOf("overlong") = {} =>
        /\ \A f \in OnDiskOf("parsed") : notes[f] = vault[f]
        /\ OnDiskOf("unstorable") = {} /\ OnDisk # {} =>
               \A f \in Files \ OnDisk : notes[f] = None
        /\ AllEmbedded(s) \/ NextCallRefused(s)

\* Once the vault stops changing, the index reaches it and stays with it,
\* even though a quota refuses the provider calls that a whole round needs.
\* One bad file never holds back another's chunks, and a text refused for good
\* holds back only what shares its call or comes after it in id order.
EventuallyInSync ==
    <>[](\A p \in Indexers \ Misconfigured : AsInSyncAsCanBe(SpaceOf[p]))

(***************************************************************************)
(* The abstract index this implements: a search joins a space's vectors    *)
(* with the chunks they belong to.                                         *)
(***************************************************************************)
FoundIn(s) ==
    UNION {{[note |-> r.note, index |-> r.index, of |-> v.of] :
               v \in {w \in vectors[s] : w.chunk = r.id}} : r \in chunks}

Index == INSTANCE SearchIndex
            WITH stored <- notes, found <- [s \in Spaces |-> FoundIn(s)]

\* Every step of every indexer, a crash included, is to whoever searches one
\* whole change of the index or no change at all.
ImplementsSearchIndex == Index!Spec

(***************************************************************************)
(* What makes the two invariants inductive.                                *)
(***************************************************************************)

\* An identity value names one chunk, and none in use is given out again.
IdsFreshAndUnique ==
    /\ \A r \in chunks : r.id < nextChunk
    /\ \A r, q \in chunks : r.id = q.id => r = q

\* What a pass claimed is either still stored with the text it read, or gone
\* for good: a rewritten chunk comes back under an id no pass has seen.
ClaimsCurrent ==
    \A p \in Indexers : \A r \in pass[p].pending \cup pass[p].part :
        /\ r.id < nextChunk
        /\ \A q \in chunks : q.id = r.id => q.text = r.text

FiniteRows ==
    /\ IsFiniteSet(chunks)
    /\ \A p \in Indexers : IsFiniteSet(pass[p].pending)

\* Whatever was on disk all along is in the keep list once it is complete,
\* or still on its way there.  A pass over an empty directory has no list.
PathsOf(S) == {n.path : n \in S}

KeepComplete(p) ==
    IF p \in Misconfigured
    THEN pass[p].walk = {} /\ pass[p].todo = {} /\ pass[p].keep = {} /\ pass[p].skipped = {}
    ELSE /\ pass[p].pc = "read" =>
              pass[p].present \subseteq
                  pass[p].walk \cup PathsOf(pass[p].todo) \cup pass[p].skipped
         /\ pass[p].pc \in {"note", "upsert", "commit", "prune"} =>
              pass[p].present \subseteq pass[p].keep \cup PathsOf(pass[p].todo)
         /\ pass[p].pc \in {"upsert", "commit"} =>
              \A n \in pass[p].todo : IsNextNote(p, n) => n.path \in pass[p].keep
         /\ pass[p].pc = "prune" => pass[p].todo = {}

KeepListComplete == \A p \in Indexers : KeepComplete(p)

\* A path is queued once, and two open transactions never write one row: the
\* row lock makes each see the hash the other committed.
QueuedOnce(p) ==
    /\ \A n, m \in pass[p].todo : n.path = m.path => n = m
    /\ \A n \in pass[p].todo : n.path \notin pass[p].walk

WritesNext(p, n) == pass[p].pc = "commit" /\ n \in pass[p].todo /\ IsNextNote(p, n)

RowLocks ==
    /\ \A p \in Indexers : QueuedOnce(p)
    /\ \A p \in Indexers : \A n \in pass[p].todo :
          WritesNext(p, n) => notes[n.path] # n.content
    /\ \A p, q \in Indexers : \A n \in pass[p].todo, m \in pass[q].todo :
          p # q /\ WritesNext(p, n) /\ WritesNext(q, m) => n.path # m.path

\* A pass that no edit disturbed runs beside others like it only.
SettledTogether ==
    (\E p \in Indexers : pass[p].settled) =>
        \A p \in Indexers : pass[p].pc \in Running => pass[p].settled

\* What is left to do at each place of a pass.
QueuesDrained(p) ==
    /\ pass[p].pc \in Running \ {"read"} => pass[p].walk = {}
    /\ pass[p].pc \in {"prune", "claim", "embed", "store"} => pass[p].todo = {}
    /\ pass[p].pc = "prune" => pass[p].failed = {}

\* Such a pass knows the vault as it is: nothing it holds is outdated.
SeesVault(p) ==
    pass[p].settled /\ pass[p].pc \in Running =>
        /\ pass[p].present = OnDisk
        /\ pass[p].walk \cup pass[p].skipped \cup pass[p].keep \subseteq OnDisk
        /\ \A n \in pass[p].todo : vault[n.path] = n.content

\* A file that can be parsed is still ahead of it, failed or is stored as it
\* is; once it has pruned, no note without a file is left.
StoresVault(p) ==
    pass[p].settled /\ pass[p].pc \in Running =>
        /\ \A f \in OnDiskOf("parsed") :
              \/ f \in pass[p].walk \cup PathsOf(pass[p].todo) \cup pass[p].failed
              \/ notes[f] = vault[f]
        /\ pass[p].pc \in {"claim", "embed", "store"} /\ pass[p].failed = {} /\ OnDisk # {} =>
              \A f \in Files \ OnDisk : notes[f] = None

SettledPassesSync ==
    /\ SettledTogether
    /\ \A p \in Indexers : QueuesDrained(p) /\ SeesVault(p)
    /\ \A p \in Indexers \ Misconfigured : StoresVault(p)
    /\ SettledPassSyncs

(***************************************************************************)
(* What comments in the code say and the code does not do.                 *)
(***************************************************************************)

\* knowledge.go:206: NotesFailed counts what "could not be stored".  With no
\* fault injected, a note counted as failed is not in the store.
FailedNotesAreNotStored ==
    [][\A p \in Indexers : \A n \in pass[p].todo :
          n.path \in pass'[p].failed \ pass[p].failed => notes'[n.path] # n.content]_vars

\* knowledge.go:224: a file that cannot be parsed "keeps whatever it had in
\* the index, and is counted in IndexResult.NotesSkipped".
UnparseableFileIsSkipped ==
    [][\A p \in Indexers : \A f \in pass[p].walk \ pass'[p].walk :
          Reading(f) \in {"unclosed", "overlong"} => f \in pass'[p].skipped]_vars
=============================================================================
