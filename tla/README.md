# TLA+ models of rag-ai-system

The repository indexes a directory of markdown notes ("the vault") into Postgres
with pgvector, and answers questions from it through a CLI and an HTTP server.
This directory models the parts of it whose correctness depends on order,
concurrency, failure and retries, checks them with TLC on small instances, and
proves the most important results with TLAPS for every instance.

## 1. Inventory

| Component | State it keeps | Operations | What is hard | What makes it correct |
|---|---|---|---|---|
| `knowledge.Index` | locals of one pass; everything durable is in Postgres | scan, save each note, prune, embed what is pending | several passes at once (two processes, or CLI and server); a pass reads, then acts on what it read much later; it may die anywhere and is meant to be resumed by running it again | vectors belong to the text they were computed from; a stored hash stands for complete chunks; a prune removes only what is gone; repeated passes converge and cost nothing |
| `internal/vault` | none | `Scan`, `yamlParser` | files vanish, break or grow while the walk runs; two scanners with a line limit each | a file that exists is in `Notes` or in `Skipped`, or the whole scan fails; what is cut is the whole note and only the note |
| `internal/chunk` | none | `Cut` | boundaries of the packing loop | chunks never exceed the size, nothing but blank space is lost |
| `internal/storage` (notes, chunks, vectors) | tables `notes`, `chunks`, one embedding table per space | `SaveNoteWithChunks`, `DeleteMissingNotes`, `PendingChunks`, `SaveEmbeddings`, `Search`, `Stats` | READ COMMITTED snapshots, row locks, cascades, foreign keys, identity values | one transaction per note; claims are found by asking what is missing |
| `internal/storage` (spaces) | `embedding_spaces` and the tables it names | `EnsureSpace` on every `Open` | several processes boot at once; names are truncated and folded; the identity column is a SMALLINT | one table per space, never two spaces in one table |
| `internal/migrate` | `rag_db_version`, a session advisory lock | `Up` on every `Open` | the lock and goose use two connections of one pool, and each can be lost without the other | migrations run in order, and only once while the lock is held |
| `backoff` | none | `Policy.Do`, `MarkTransport`, hints | cancellation while waiting, what counts as transient | a bounded number of attempts, none after cancellation |
| `embed`, `llm` connectors | a token bucket per provider | `WithRetry`, `WithRateLimit`, `Batched`, providers | retries under a shared limiter, partial results, cancellation | vector i belongs to text i; a cancelled call stops |
| `rag` | none | `BuildUserPrompt`, `Sources` | the context budget | what is shown is the best of what was found, in order and without gaps |
| `knowledge.Search`, `Ask` | none | embed the question, search one space, generate | reads an index that is being rewritten; two paid calls under one context; callers share two limiters | hits are passages of notes as they are stored; a caller who has gone costs nothing; every call returns |
| `internal/httpapi` indexer | last or current pass, under a mutex | `POST /reindex`, `GET /reindex/status` | requests race with the end of the background pass and with shutdown | at most one pass per server; a status is never half of two passes |
| `internal/httpapi` server | listener, in-flight requests | `Serve`, middleware, auth | graceful shutdown: grace period, detached request context, background pass on the signal context, a pool that closes only when nobody uses it | requests in flight are answered or cut off by the grace period, nothing new is accepted, the process ends |
| `cmd/*`, `internal/config`, `internal/testdb` | none | wiring, environment parsing | - | - |

`cmd/ingest` runs one pass and exits; `cmd/server` serves and runs passes in the
background; both call `knowledge.Open`, which migrates and registers the space.
All of them share nothing but Postgres, the vault and the provider's quota.

The behaviours that are hard to test, each at its line, are the `hazards` of
`PROJECT.json`, with the properties below that cover them.

## 2. Plan

Modules, the most important behaviour first; one module per component, an `MC`
module with the small instances, one `.cfg` per question, and the theorems in
modules of their own.

1. `Indexing`: the pass, the store it writes, and the vault under it. Done.
2. `IndexingProofs`: types, then the safety of 1. Done.
3. `Connector`: batching, limiter, retry loop and vendor. Done.
4. `HttpServer` and `HttpServerProofs`: requests, background passes, shutdown. Done.
5. `EmbeddingSpaces` and `Opening`: what every process does when it opens the
   knowledge base: migrate, then register its space. Done.
6. `Chunking`: both loops of `chunk.Cut`. Done.
7. `SearchIndex`: what a searcher may rely on, implemented by `Indexing`; the
   refinement is checked, then proved (`IndexingRefinementProofs`). Done.
8. Proofs of `SettledPassSyncs` (beside the refinement), of the safety of
   `Connector` (`ConnectorProofs`) and of `Opening` (`OpeningProofs`). Done.
9. `Asking`: searches and answers over two connectors while the index moves, and
   `AskingProofs`. Done.
10. `Document`: the frontmatter parser in front of `Chunking`. Done.
11. `FoldProofs`: what the folds of the library compute; from it `DocumentProofs`,
    and the answers in `AskingProofs`. Done.

What the plan has left is small: the vendors' wire formats and the lengths of
delays (server hints, jitter), the two read-only queries `Stats` and `Spaces`,
and a chunk size that changes between two passes (section 6).

How the modules are composed:

```
SearchIndex  <-- implements --  Indexing
     ^                             | Cut, Kind: constants, computed by
     | searches                    v
  Asking  -- two of -->  Connector      Document  -- extends -->  Chunking

EmbeddingSpaces  <-- extends --  Opening            HttpServer
```

`Indexing` composes the store, the scan and the loop of one pass for any number
of passes, because their interleaving is the point. `Asking` needs nothing of
that: it searches the index `SearchIndex` promises, so that what holds of an
answer holds beside any number of indexers. It has two instances of `Connector`,
one per provider; what one `EmbedPart` step of `Indexing` stands for is a third.
`HttpServer` names passes without looking into them; a pass that returns well
or badly is what `Indexing` shows of it.

## 3. Modules and the code

**`Indexing`** (`knowledge/knowledge.go`, `internal/vault`, `internal/storage`).
`vault` is the directory, `notes`, `chunks` and `vectors` are the tables, with
`nextChunk` the identity sequence of `chunks`; `pass[p]` holds the locals of one
call of `Index`. Every statement, file read and provider call is a step:

| Actions | Code |
|---|---|
| `StartIndex`, `ScanFile`, `ScanDone` | `vault.Scan` and its `WalkDir` callback; the keep list starts with what was skipped |
| `BeginNote`, `UpsertNote`, `CommitNote` | `SaveNoteWithChunks`: snapshot of the upsert, the upsert itself when no other transaction holds the row, delete, inserts and commit |
| `NotesDone`, `Prune` | the decision to prune and `DeleteMissingNotes` |
| `ClaimPending`, `EmbedPart`, `SaveEmbeddings` | `embedPending`: `PendingChunks`, one provider call, one INSERT |
| `PassAborts`, `SaveNoteFails` | crash, cancellation, failed statement, a COMMIT whose answer is lost |
| `WriteFile`, `RemoveFile`, `RefillQuota` | the user's editor, the provider |

What is abstracted: the directory is flat; a content stands for its bytes and
its hash (sha256 is taken to be injective); `Cut` and `Kind` say what the chunker
and the parser make of it; a vector is the text it was computed from. A path
stands for the note's id, which nothing else refers to. Statements are atomic at
the moment they run, except the upsert, whose two reads see different snapshots;
identity values are given out at the commit instead of the INSERT, and those of
transactions that roll back are not skipped (fresh ones stay fresh either way). `IndexResult`'s counters are left out, but for the set
behind `NotesFailed`. A text in `Refused` is one no retry helps (the provider
answers 400), so its call fails on every pass.

**`SearchIndex`** is the index as the join of `Store.Search` sees it, with no
rows, ids or transactions: `stored` says which content a note is stored with, `found` which
passages a space ranks. A note is saved, notes are pruned, vectors of passages
of stored notes are added, each at once. `Indexing` implements it
(`ImplementsSearchIndex`) with `stored <- notes` and `found` the join of a
space's vectors with the chunks.

**`Connector`** (`embed`, `backoff`). `call[c]` is
one call of `embed.Batched`: `TakeToken` and `WaitFails` are `rate.Limiter.Wait`,
`Try`, `Reply`, `TimerFires` and `SleepCancelled` are the loop of `Policy.Do`, a
reply is checked (`checkResult`) and sorted by index as the vendors' code does: the
three vendors are one, whose answers are in any order (OpenAI's carry an index) and
whose 429 may name a daily quota (only Google's does). Delays have no length; a
deadline shorter than the limiter's delay fails the wait at once. The tokens a
waiting call reserves are not told apart from free ones.

**`HttpServer`** (`internal/httpapi`, `cmd/server`). A request walks through the
wrappers in the order of `Handler`; "upstream" is inside a service, "querying" is
inside a statement, with a connection of the pool in use. A pass alternates
between the same two. `ix` is `indexer.status`, its timestamps and results replaced
by the request whose pass they belong to. `start` and `snapshot` are separate
critical sections, as in the code. The contexts are operators that say what ends
them: `RequestDone` is a request's (its deadline, its client, or the base context
`BaseDone`, which `WithoutCancel` at `server.go:123` keeps apart from the signal),
`PassDone` a pass's (the signal itself), `ShutdownDone` that of the drain (its timer).
`Signal` to `ShutdownReturns` are `Serve`; `CloseKnowledge` and `Exit` are the deferred
`kb.Close` of `main`: the pool takes no further statement and `Exit` waits until
every connection is back (`InUse`). What still runs without one is then `dropped` or
`lost`. Each element of `Requests` is sent once. A request never waits for a
connection of the pool.

**`EmbeddingSpaces`** (`internal/storage/spaces.go`). One transaction per `Open`
(lock, INSERT, CREATE TABLE, commit), whose writes others see after the commit,
while locks and identity values are taken at once. Slugs may collide, lock keys
too.

**`Opening`** (`knowledge.Open`, `internal/migrate`) extends `EmbeddingSpaces` with
the steps before it. `up[p]` is `migrate.Up` in one process, `busy[p]` the connections
taken from the process's pool: one for the lock, one for goose. The two can part:
`holders` are the processes whose *session* holds the advisory lock, `commit[p]` is
the COMMIT the *server* has of p's other connection. A process may die or be
cancelled with its COMMIT under way (`UpAborts`), a statement may fail
(`MigrationFails`), the session of the lock may be lost while goose goes on
(`LockLost`); the server lets COMMITs land and dead sessions end when it gets to
them (`CommitLands`, `SessionEnds`), in either order. `applied` is the log of
`rag_db_version`, with a note whether the session held the lock when the migration
landed. goose is external: it plans once and runs each migration in a
transaction. A process with `SkipMigrate` goes straight on and fails if the schema
is not there yet. Once a process is gone, its element of `Processes` starts anew
only when the server is through with it.

**`Asking`** (`knowledge.Search` and `Ask`, `internal/storage/search.go`, `rag`,
the handlers' `clampK`, `llm.New`). `ask[c]` is one call, `call[c]` its question
on the way through the embedding connector, `gen[c]` its prompt on the way
through the generation connector; both connectors are shared. `Find` is the one
search statement, on one snapshot, with its ties in any order; it builds the
prompt in the same step, because nothing between the statement and the request
can be seen from outside. `llm` says whether the knowledge base was opened with a
generator, once for all its callers; without one every `Ask` fails at once. `GiveUp` ends the one context both provider calls have.
A vector is the text it was computed from, an answer the prompt it answers. The hnsw index is
taken to be exact (it is approximate, and may miss a row); scores, titles and the
wording of the prompt are left out.

**`Document`** (`internal/vault/parser.go`) extends **`Chunking`**
(`internal/chunk`): a file is taken apart line by line, then cut. In `Document` a
line is its length and what it says to the parser (a fence, a title, nothing);
in `Chunking` a text is the sequence of its lines' lengths, a chunk the sequence
of the paragraph pieces it is made of, and `runes` is the counter the loop keeps
beside the text it builds. One action per branch of every loop. A byte order
mark, the quotes around a title and other keys of the frontmatter are left out.
Parser and chunker have the same buffer, `MaxLine`, so the chunker's limit is met
only by what the parser does not scan: the rest of a file without a frontmatter.
To `Indexing` the first is an `overlong` file, the second an `unstorable` note.

## 4. Runs

| Run | Instance | Shows |
|---|---|---|
| `indexing_race` | 2 passes in 2 spaces, 2 files, 2 contents (two chunks, one chunk), 1 edit | vectors match texts; a pass that ends well has synced; repeating it writes nothing; retried passes bring both spaces in line with the vault |
| `indexing_faults` | 2 passes, one of them pointed at an empty directory; contents that are skipped, unreadable and unstorable; a text the provider refuses for good; a quota of 1 call against rounds of 2; 1 edit, 1 fault | hashes match chunks under faults; a prune takes nothing that was there all along; the index gets as far as it can; every step implements `SearchIndex` |
| `connector_calls` | 2 callers, one with a deadline, 0..3 texts, slices of 2, 2 attempts, 1 token, all replies | vector i is that of text i, slices fit, nothing is sent after giving up, calls return |
| `http_serve` | 2 requests of any kind, the passes they start, services and statements that may never return | one pass at a time, no mixed status; within the grace period no request is dropped, finds the pool closed or is cancelled; the process ends although closing the pool waits, reindexing becomes possible again, requests end |
| `open_boot` | 3 processes, one of them not migrating, 2 migrations, pools of 2, 3 spaces of which 2 share a slug, 1 lock key, 2 identity values, 3 opens, 1 fault of any kind | migrations run in order, and twice only if the lock was lost; a migrated process finds its schema, spaces stay apart, every `Open` ends |
| `document_chunks` | plain files of up to 5 lines of up to 4 runes (4 is beyond the scanners' buffer), files with a rule in them, files that begin with a fence and have up to 3 more lines of frontmatter and 2 of body; chunk sizes -1 to 6 | a note is its file without the frontmatter, all of it or none; paragraphs are found, chunks fit, nothing is lost or moved, no chunk ends early |
| `asking_calls` | an HTTP request and a library caller who both search or ask, with and without a generator, 2 notes of two and one chunk, more hits wanted than allowed and fewer than one, passages equally far, 2 attempts, 1 token per provider, failing and short replies, budget for some of the passages, 1 change of the index | an answer is made of the caller's own best hits; hits are passages of stored notes; nothing is spent for who has gone; calls return |
| `indexing_failed`, `indexing_unparseable`, `connector_turn`, `connector_transport`, `asking_hits` | small instances of the same | the comments of section 6 refuted |

Why the bounds are enough: the interesting races take two actors (who reads and
who rewrites, who holds a lock and who waits), which the second and third one
repeat; two files give a prune something to keep and something to remove; two
chunks against one give a rewrite that shrinks; two attempts give a retry and a
last attempt; a quota of one against rounds of two gives partial progress; one
edit is enough to invalidate what a pass read, and one change of the index to
fall between an embedding and the search it is for. One fault is enough for a lock
to be lost before its COMMIT lands and the next migrator to plan in between; the
theorems of `OpeningProofs` hold for any number of faults. `MaxK` is 2 beside three
passages, so that the cap on an HTTP request's hits is reached. `MaxEdits`, `MaxFaults`,
`MaxOpens`, `MaxTexts` and `MaxWrites` are the bounds that only the checking
needs; the proofs hold for every value of them. Five lines give two paragraphs of
two lines, or three of one; sizes up to six cover a split, an exact fit and a
join.

Deadlock is checked for `Indexing`. It is off where the system stops: a server
that has exited, calls that are over, opens that are used up, a text that is cut.

Fairness. A goroutine that can run does (`WF` on a pass's, a call's, a caller's,
a handler's steps); whoever calls `Index` calls it again (a cron job,
`POST /reindex`); the provider's quota and the limiters refill; an HTTP client's
request ends, because each has a timeout. `HttpServer` assumes that every request's
deadline passes (`withTimeout`) and that the grace period does (a timer), but
nothing of a service, a statement or a pass before its context is done: only then
does it come back. Clients need not send, listeners need not fail. In `Opening` the
server lets what it has of a dead process land or end (`ServerStep`). Edits, changes of the index, faults, signals and
giving up are never fair. Weak fairness is enough for the limiter because every
caller makes one call: the others cannot take its token for ever.

`EventuallyInSync` says how far the index comes (`AsInSyncAsCanBe`), since some
things stand in the way for good: a file beyond the parser's buffer ends every
scan; a note that cannot be stored (a NUL in its text) cancels every prune, but
not the storing of the others; a text the provider refuses for good holds back
what shares its call or comes after it in id order, as chunks are claimed in that
order. Where none of these is on disk, it says the index reaches the vault.

Every property has a mutant in `PROJECT.json`: a plausible bug (an operator
beside the one it replaces) that makes the run fail.

## 5. Proofs

For every number of passes, files, spaces, contents, requests, callers,
processes, texts and every limit, from the assumptions the modules state of their
constants: `ConfigAssumption` and `LimitAssumption` (`Indexing`),
`ConnectorAssumption`, `HttpAssumption`, `SpacesAssumption`, `OpeningAssumption`,
`AskingAssumption`, `TextsAssumption` (`Chunking`), `DocumentsAssumption`. TLC
evaluates each on the instances of the runs. Every invariant and every action
property of a passing run is a theorem.

**`IndexingProofs`** proves `TypeOK` together with `FiniteRows` (chunks and claims
are finite), which a pass's accounting of provider calls needs: the cardinality
of a batch is a number only if the batch is finite. On top of it:

- `VectorsMatchText` is not inductive: a vector is saved long after its text was
  read. `RowsInv` adds that identity values are fresh and unique
  (`IdsFreshAndUnique`) and that a claimed chunk is either stored with the text
  that was read or never comes back (`ClaimsCurrent`). A rewrite takes new ids,
  so a late INSERT meets its own chunk or the foreign key.
- `ChunksMatchNote` follows from the transaction alone, but the index of each
  new row must be shown to be its own.
- `PruneOnlyVanished` is an action property. It follows from `KeepListComplete`,
  which follows a file that was there all along from the walk to the notes or
  the skipped files and from there to the keep list. A pass over an empty
  directory never has a keep list, and an empty list deletes nothing.

**`IndexingRefinementProofs`** proves that `Indexing` implements `SearchIndex`, one
lemma per action. The step that needs more than the invariants above is
`CommitNote`: it must *change* the note, or the abstract index would lose
passages of a note nobody edited. That is `RowLocks`: two open transactions never
write one row, so the hash a pass compared is still the stored one when it
commits. The upsert itself has two reads on two snapshots, so this is about the
lock, not about the statement.

The same module proves `SettledPassSyncs` and `RepeatWritesNothing`. The
invariant `SettledPassesSync` follows a pass no edit disturbed: what it has read
is the vault (`SeesVault`), what it has stored is the vault so far (`StoresVault`),
and every pass that runs beside it is like it (`SettledTogether`), so nobody takes its
work back: while there is such a pass, notes only move towards the vault. A
commit of a note that is in line already is excluded by `RowLocks` again.

**`ConnectorProofs`** proves `TypeOK`, `VectorsInOrder`, `SlicesFit` and
`NoRequestAfterGivingUp` from one invariant per call (`CallOK`): what is out so
far are the vectors of the first texts, and a whole number of slices unless it is
all of them. The rest is arithmetic: the next slice ends at the next multiple of
the batch size or at the end (`NextMultiple`).

**`AskingProofs`** uses those theorems twice, once per provider: `Embedding` and
`Generation` are instances of `ConnectorProofs`. `NothingSpentAfterGivingUp` needs
that both contexts of a caller end together, so the one check `Find` makes
covers the generation too. `FindsStoredPassages` needs `VectorsInOrder` of the
embedding (the vector a search goes by is that of the caller's own question,
although retries and other callers' answers went through the same connector) and
that the index holds only passages of stored notes (`IndexOK`), which
`SearchIndex` keeps and `IndexRefines` shows of the code. `AnswerFromItsHits` takes
a second invariant on top (`AnswerInv`): the text a caller has at the generator is
the prompt of its own question and its own hits, until and after the answer is
there, and `VectorsInOrder` of the second connector makes it the text that was
answered. What the prompt and the sources are is a matter of two loops over the
hits. `Packed` is the invariant of the one: what is shown are the first hits,
`used` is their runes, and once the loop is past the budget the next hit did not
fit; as totals only grow (`TotalGrows`), no later one would have. `InOrder` is that
of the other: each note is listed at the hit where it is first met.

**`DocumentProofs`** proves all seven properties of `document_chunks`, for files
of any length, from one invariant per loop.

- `ParserOK`: the title is the last one named in the frontmatter behind the parser,
  the body is every line after the fence. It is what `ReadAsWritten` needs at the
  end of the file, together with what `TrimSpace` may take (`TrimIs`).
- `ScanOK`: the paragraphs are the runs of text lines that ended before the one
  the scanner is in, and `para` is that one's length so far. The lemmas on runs
  (`RunsApart`, `RunEnds`) say that a run is determined by any of its lines, so
  none is found twice or skipped.
- `PackOK`: the chunks and the current one hold the paragraphs before `next`, whole
  and in order (`Covers`), which is `NothingLost` at the end. `ChunksFit` needs
  that the counter `runes` is the length of what is built beside it (`CurrentOK`),
  `NoNeedlessCut` that the last finished chunk could not have taken what is
  current (`LinkOK`). A paragraph cut by `splitByRunes` is arithmetic again:
  `SplitEnds`.
- `NoFileHalfIndexed` relates the two scanners: a file the parser did not read to
  its end is cut as a whole, so the chunker's own limit is met (`RestRead`,
  `LinesOK`).

**`FoldProofs`** is what both rest on. `FoldLeft` and `FlattenSeq` are defined by
choosing a function on sets of indices; the module shows that this function
exists, that it is the only one, and that its values are those of a loop
(`ChainTo`). The library's induction theorems take an operator, which no prover
here can instantiate; `SetInduction` says the same of a set of numbers and follows
from the well-foundedness of `<`, and so does every induction in these proofs.

**`HttpServerProofs`** proves `OnePassAtATime` and `AnswersTellOnePass` from
`IndexerInv` (a pass underway is the one the status names as running, and the
status tells of one pass), and `NothingDroppedWithinGrace` from `DrainInv`: why
`Serve` returned says who may still be in flight, the pool closes only after it has
returned, and an error that names a context is written only to a request whose
own context ended. Both ways to get this wrong break it in the run: a base context
that ends with the signal (`BaseDoneAtSignal`) and a drain that does
(`ShutdownDoneAtSignal`).

**`OpeningProofs`** proves `OpenTypeOK`, `MigratedUnderLock`, `SchemaTravelsWithBuild` and
`SpacesApart`. That a migration runs once is not true without more: the lock and
the migration live on two connections, so a COMMIT may land when the lock has
moved on and the next migrator has planned without it. `MigratedUnderLock` says
what is true, for any number of faults: of two runs of one migration at least one
landed without the lock. `UpInv` carries it. Whatever a process has planned, all
before it is in the log (`Below`); as long as its session holds the lock, no run of
it or of anything after it is there that landed under the lock (`LockedBelow`); and
two sessions never hold the lock (`OneHolder`). A process past `Up` leaves the schema
behind it, because its plan was worked off and the log only grows.
`SpaceInv` says that rows, committed or not, differ in space, table name and id.
It does not mention the lock of `EnsureSpace`: the unique constraints keep
spaces apart, whatever the lock keys are.

Only model-checked is liveness (`EventuallyInSync`, `CallsReturn`, `CallsEnd`,
`OpenEnds`, `ServerStops`, `ReindexBecomesPossible`, `RequestsEnd`): no prover at hand
reasons about fairness with `ENABLED`. The comments of section 6 are refuted by
counterexamples TLC finds.

## 6. Where the code and its comments part

- `knowledge.go:206`: `NotesFailed` counts notes that could not be stored. Two
  passes that save the same new note make the loser count a stored note: its
  INSERT waits, finds an equal hash, and the second SELECT of the statement does
  not see the row committed meanwhile. Its pass does not prune and returns an
  error (`indexing_failed`).
- `knowledge.go:224`: a file that cannot be parsed is skipped. A line beyond the
  scanner's buffer ends the scan, so no note of the vault is indexed until the
  file is gone (`indexing_unparseable`).
- `embed/factory.go:137`: retries wait their turn at the limiter. The limiter is
  outside the retry loop, so one token pays for all attempts (`connector_turn`).
- `backoff/http.go:44`: a context error means the caller gave up. The HTTP
  client's own timeout is one too, and is not retried (`connector_transport`).
- `knowledge.go:385`: the hits of an answer went into the prompt, and its sources
  were shown to the model (also `handlers.go:144`, `docs/usage.md:202`). They are all
  that was found: the budget (`prompt.go:66`) may have kept some hits, and all hits
  of a note, out of the prompt (`asking_hits`). `AnswerFromItsHits` states what does
  hold of them.

Seen while modelling, without a run of their own:

- A chunk keeps its id only as long as its note is not rewritten
  (`embeddings.go:119` argues with the opposite).
- One note that can never be stored keeps the prune from running for good, which
  `knowledge.go:278` accepts.
- A 409 may carry the status of a pass that has just finished (`handlers.go:231`).
- A panicking handler writes no request line: the panic unwinds `withLogging` before
  its line (`middleware.go:66-78`, against `server.go:49`).
- After the grace period a request may find the pool closed under it (`err` is
  "closed"), although `knowledge.go:177` says a `Knowledge` must not be used after
  `Close`.
- Every `Open` takes one value of the SMALLINT identity of `embedding_spaces`
  (`spaces.go:69`), known space or not, so that `Open` fails after 32767 of them
  (`UsedUp`). `OpenEnds` counts that as an end, so no property covers it.
- `migrate.Up` waits for itself if the pool has one connection (`migrate.go:59`):
  with `PoolSize` 1 `OpenEnds` fails.
- The advisory lock of `migrate.Up` does not outlive its session, so a migration may
  run twice after a fault. It does no harm here: the migrations are written to be
  repeated (IF NOT EXISTS).
- The advisory lock of `EnsureSpace` is not what keeps spaces apart, the unique
  constraints are.
- `upsert.go:47` compares only the file's hash: a note cut under another `ChunkSize`
  keeps its old chunks until it is edited. The chunk size is fixed in `Indexing`
  (`Cut` is a constant), so no property covers this.

## 7. Not modelled

- `cmd` (but for how `cmd/server` ends), `config`, `knowledge/config.go`, `postgres.go`:
  they read the environment
  and call the library, in sequence, with no state of their own. `testdb` is test
  support.
- The vendors' wire formats (`embed`, `llm`), apart from the order of an answer
  and the checks of its vectors: how a request is built and a body is decoded.
  The choice of a vendor and the stubs.
- The length of a delay, its jitter and the parsing of server hints: a timer
  fires at some time.
- `Stats` and `Spaces`, two read-only queries nothing depends on.
- Within what is modelled: waiting for a connection of the pool (except in
  `migrate.Up`), JSON bodies, keep-alive connections, log text, the
  wording of errors and prompts, subdirectories of the vault and its file filter.
