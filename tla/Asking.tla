------------------------------- MODULE Asking -------------------------------
(***************************************************************************)
(* Knowledge.Search and Knowledge.Ask by several concurrent callers, while *)
(* the index changes under them.                                           *)
(*                                                                         *)
(* A call embeds its question, searches its space in one statement, builds *)
(* a prompt from what it found and has the model answer.  The two provider *)
(* calls go through connectors of their own (Connector, twice), shared by  *)
(* all callers; the index is the one SearchIndex promises, which Indexing  *)
(* implements.  A vector is represented by the text it is of, an answer by *)
(* the prompt it answers.                                                  *)
(***************************************************************************)
EXTENDS Integers, Sequences, FiniteSets, SequencesExt

CONSTANTS
    Files, Contents, None, Spaces, Cut,     \* SearchIndex
    Notes,          \* the notes that are stored and embedded at first
    Callers,        \* goroutines inside one Knowledge
    Http,           \* the ones that are HTTP requests, with a deadline
    Space,          \* the space the knowledge base was opened with
    Questions,
    QuestionOf,     \* what each caller wants to know
    Distance,       \* of a question's vector to a text's
    KsOf,           \* what each caller may pass as topK
    DefaultK,       \* 5 in the code
    MaxK,           \* 25 in the code
    Texts,          \* chunk texts
    Runes,           \* runes of a chunk text
    Budget,         \* rag.DefaultMaxContextRunes
    MaxAttempts, Burst, Replies, Misfit,    \* Connector
    MaxWrites       \* bound: changes of the index

VARIABLES
    stored, found,  \* the index
    call, tokens,   \* calls of the embedding provider
    gen, genTokens, \* calls of the generation provider
    ask,            \* each caller's Search or Ask
    llm,            \* whether Config.Generator was given; nil makes Knowledge search-only
    writes          \* changes of the index so far

index == <<stored, found>>
embedding == <<call, tokens>>
generation == <<gen, genTokens>>
vars == <<index, embedding, generation, ask, llm, writes>>

Index == INSTANCE SearchIndex

Hit == [note: Files, index: Nat, of: Texts]
Prompt == [question: Questions, shown: Seq(Hit)]

Embedder ==
    INSTANCE Connector WITH Texts <- Questions, MaxTexts <- 1, MaxBatch <- 1,
                            Deadlines <- Http

\* llm.New wraps a vendor exactly as embed.New does; its short answer is an
\* empty one.
Generator ==
    INSTANCE Connector WITH Texts <- Prompt, MaxTexts <- 1, MaxBatch <- 1,
                            Deadlines <- Http, call <- gen, tokens <- genTokens

ASSUME AskingAssumption ==
    /\ IsFiniteSet(Files)
    /\ None \notin Contents
    /\ Cut \in [Contents -> Seq(Texts)]
    /\ Notes \in [Files -> Contents \cup {None}]
    /\ Space \in Spaces
    /\ Http \subseteq Callers
    /\ QuestionOf \in [Callers -> Questions]
    /\ KsOf \in [Callers -> SUBSET Int]
    /\ MaxK \in Nat /\ DefaultK \in 1..MaxK
    /\ Runes \in [Texts -> Nat]
    /\ Budget \in Nat
    /\ MaxAttempts \in Int
    /\ Burst \in Nat \ {0}
    /\ Misfit \notin Questions \cup Prompt
    /\ Replies \subseteq Embedder!ReplyKinds
    /\ MaxWrites \in Nat

Over == {"done", "error"}
PCs == {"idle", "embed", "search", "generate"} \cup Over

AskTypeOK ==
    /\ Embedder!TypeOK
    /\ Generator!TypeOK
    /\ ask \in [Callers -> [pc: PCs, op: {"search", "ask"}, k: Int,
                            hits: Seq(Hit), sources: Seq(Files)]]
    /\ llm \in BOOLEAN
    /\ writes \in 0..MaxWrites

\* A complete index; IndexChanges makes it any other.
Init ==
    /\ stored = Notes
    /\ found = [s \in Spaces |-> Index!Passages]
    /\ Embedder!Init
    /\ Generator!Init
    /\ ask = [c \in Callers |-> [pc |-> "idle", op |-> "search", k |-> 1,
                                 hits |-> <<>>, sources |-> <<>>]]
    /\ llm \in BOOLEAN
    /\ writes = 0

Goto(c, pc) == ask' = [ask EXCEPT ![c].pc = pc]

-----------------------------------------------------------------------------
(***************************************************************************)
(* Search.                                                                 *)
(***************************************************************************)

\* clampK in the handlers; anybody else's k reaches storage.Search as it is.
ClampK(k) == IF k <= 0 THEN DefaultK ELSE IF k > MaxK THEN MaxK ELSE k

AtLeastOne(k) == IF k < 1 THEN 1 ELSE k

TopK(c) == AtLeastOne(IF c \in Http THEN ClampK(ask[c].k) ELSE ask[c].k)

\* ORDER BY distance LIMIT n.  Rows at one distance come in the order of their
\* chunk ids, which may be any.
Nearest(n, rows, question) ==
    LET len == IF Cardinality(rows) < n THEN Cardinality(rows) ELSE n
        far(h) == Distance[question, h.of]
    IN  {hits \in [1..len -> rows] :
            /\ \A i, j \in 1..len : i < j => hits[i] # hits[j] /\ far(hits[i]) <= far(hits[j])
            /\ \A h \in rows \ {hits[i] : i \in 1..len} :
                  \A i \in 1..len : far(hits[i]) <= far(h)}

\* Ask of a knowledge base without a generator fails before anything is spent.
StartCall(c) ==
    /\ ask[c].pc = "idle"
    /\ \/ /\ ~llm
          /\ ask' = [ask EXCEPT ![c].pc = "error", ![c].op = "ask"]
          /\ UNCHANGED embedding
       \/ \E op \in {"search", "ask"}, k \in KsOf[c] :
          /\ op = "search" \/ llm
          /\ Embedder!Request(c, <<QuestionOf[c]>>)
          /\ ask' = [ask EXCEPT ![c].pc = "embed", ![c].op = op, ![c].k = k]
    /\ UNCHANGED <<index, generation, writes>>

\* The limiter, the retries and the vendor behind k.embed.Embed.
EmbedStep(c) ==
    /\ ask[c].pc = "embed"
    /\ Embedder!Step(c)
    /\ UNCHANGED <<index, generation, ask, writes>>

EmbedReturns(c) ==
    /\ ask[c].pc = "embed"
    /\ \/ call[c].pc = "done" /\ Len(call[c].out) = 1 /\ Goto(c, "search")
       \/ call[c].pc = "done" /\ Len(call[c].out) # 1 /\ Goto(c, "error")
       \/ call[c].pc = "error" /\ Goto(c, "error")
    /\ UNCHANGED <<index, embedding, generation, writes>>

(***************************************************************************)
(* The prompt.                                                             *)
(***************************************************************************)

\* One round of the loop of BuildUserPrompt: past the budget it stops, except
\* before the first passage.
AddAnyThatFits(b, h) ==
    IF b.used + Runes[h.of] > Budget THEN b
    ELSE [b EXCEPT !.shown = Append(@, h), !.used = @ + Runes[h.of]]

AddPassage(b, h) ==
    IF b.full \/ (b.shown # <<>> /\ b.used + Runes[h.of] > Budget)
    THEN [b EXCEPT !.full = TRUE]
    ELSE [b EXCEPT !.shown = Append(@, h), !.used = @ + Runes[h.of]]

BuildUserPrompt(question, hits) ==
    [question |-> question,
     shown |-> FoldLeft(AddPassage, [shown |-> <<>>, used |-> 0, full |-> FALSE], hits).shown]

\* rag.Sources: each note once, in the order it is first met.
AddNote(out, h) == IF h.note \in Range(out) THEN out ELSE Append(out, h.note)

Sources(hits) == FoldLeft(AddNote, <<>>, hits)

(***************************************************************************)
(* Ask, once the question's vector is there.                               *)
(***************************************************************************)

\* The statement runs on one snapshot of the index, and not at all when the
\* caller has gone.  Ask goes on with what it found, even if that is nothing.
Find(c) ==
    /\ ask[c].pc = "search"
    /\ ~call[c].gaveUp
    /\ \E hits \in Nearest(TopK(c), found[Space], call[c].out[1]) :
        \/ /\ ask[c].op = "search"
           /\ ask' = [ask EXCEPT ![c].pc = "done", ![c].hits = hits]
           /\ UNCHANGED generation
        \/ /\ ask[c].op = "ask"
           /\ ask' = [ask EXCEPT ![c].pc = "generate", ![c].hits = hits]
           /\ Generator!Request(c, <<BuildUserPrompt(QuestionOf[c], hits)>>)
    /\ UNCHANGED <<index, embedding, writes>>

\* The pool, the statement or the context fails it.
FindFails(c) ==
    /\ ask[c].pc = "search"
    /\ Goto(c, "error")
    /\ UNCHANGED <<index, embedding, generation, writes>>

\* The limiter, the retries and the vendor behind k.llm.Generate.
GenerateStep(c) ==
    /\ ask[c].pc = "generate"
    /\ Generator!Step(c)
    /\ UNCHANGED <<index, embedding, ask, writes>>

GenerateReturns(c) ==
    /\ ask[c].pc = "generate"
    /\ \/ /\ gen[c].pc = "done"
          /\ ask' = [ask EXCEPT ![c].pc = "done", ![c].sources = Sources(ask[c].hits)]
       \/ gen[c].pc = "error" /\ Goto(c, "error")
    /\ UNCHANGED <<index, embedding, generation, writes>>

(***************************************************************************)
(* The environment.                                                        *)
(***************************************************************************)

\* One context for the whole call: a deadline, a signal, a client gone.
GiveUpEmbeddingOnly(c) ==
    /\ ask[c].pc \notin Over
    /\ ~call[c].gaveUp
    /\ call' = [call EXCEPT ![c].gaveUp = TRUE]
    /\ UNCHANGED <<index, tokens, generation, ask, llm, writes>>

GiveUp(c) ==
    /\ ask[c].pc \notin Over
    /\ ~call[c].gaveUp
    /\ call' = [call EXCEPT ![c].gaveUp = TRUE]
    /\ gen' = [gen EXCEPT ![c].gaveUp = TRUE]
    /\ UNCHANGED <<index, tokens, genTokens, ask, llm, writes>>

Refill ==
    /\ \/ Embedder!RefillToken /\ UNCHANGED generation
       \/ Generator!RefillToken /\ UNCHANGED embedding
    /\ UNCHANGED <<index, ask, llm, writes>>

IndexChanges ==
    /\ writes < MaxWrites
    /\ Index!Next /\ index' # index
    /\ writes' = writes + 1
    /\ UNCHANGED <<embedding, generation, ask, llm>>

\* Open has set k.llm, and nothing changes it.
Step(c) ==
    /\ \/ StartCall(c)
       \/ EmbedStep(c)
       \/ EmbedReturns(c)
       \/ Find(c)
       \/ FindFails(c)
       \/ GenerateStep(c)
       \/ GenerateReturns(c)
    /\ UNCHANGED llm

Next ==
    \/ \E c \in Callers : Step(c) \/ GiveUp(c)
    \/ Refill
    \/ IndexChanges

Spec == Init /\ [][Next]_vars

\* Goroutines run, requests end and both limiters refill.  Nobody has to give
\* up, and the index owes nothing.
FairSpec ==
    /\ Spec
    /\ \A c \in Callers : WF_vars(Step(c))
    /\ WF_vars(Embedder!RefillToken /\ UNCHANGED <<index, generation, ask, llm, writes>>)
    /\ WF_vars(Generator!RefillToken /\ UNCHANGED <<index, embedding, ask, llm, writes>>)

-----------------------------------------------------------------------------
\* The runes of the first n hits.
Total(hits, n) == FoldLeft(+, 0, [i \in 1..n |-> Runes[hits[i].of]])

\* What the model answered is the caller's own question over the caller's own
\* hits, whoever else is asking: as many of the best ones as the budget has
\* room for, in order and without gaps, and never none when something was found.
\* The answer names each note among the hits once, best match first, also the
\* ones the budget kept out of the prompt.
AnswerFromItsHits ==
    \A c \in Callers : ask[c].op = "ask" /\ ask[c].pc = "done" =>
        LET hits == ask[c].hits
            answer == gen[c].out[1]
            first(note) == CHOOSE i \in DOMAIN hits :
                hits[i].note = note /\ \A j \in 1..(i - 1) : hits[j].note # note
            sources == ask[c].sources
        IN  /\ answer.question = QuestionOf[c]
            /\ IsPrefix(answer.shown, hits)
            /\ \A n \in 1..Len(hits) :
                  n <= Len(answer.shown) <=> n = 1 \/ Total(hits, n) <= Budget
            /\ {sources[i] : i \in DOMAIN sources} = {hits[i].note : i \in DOMAIN hits}
            /\ \A i, j \in DOMAIN sources : i < j => first(sources[i]) < first(sources[j])

\* knowledge.go:385, 388: the hits of an answer are the chunks that went into the
\* prompt, and its sources the notes shown to the model.
HitsWereShown ==
    \A c \in Callers : ask[c].op = "ask" /\ ask[c].pc = "done" =>
        LET shown == gen[c].out[1].shown
        IN  /\ ask[c].hits = shown
            /\ Range(ask[c].sources) = {shown[i].note : i \in DOMAIN shown}

\* What a call finds are passages of the notes as they are stored at that
\* moment, however the index changed while the question was being embedded,
\* the nearest ones, and as many of them as the caller is entitled to.
FindsStoredPassages ==
    [][\A c \in Callers : ask'[c].hits # ask[c].hits =>
          LET hits == {ask'[c].hits[i] : i \in DOMAIN ask'[c].hits}
              far(h) == Distance[QuestionOf[c], h.of]
          IN  /\ hits \subseteq Index!Passages
              /\ \A h \in found[Space] \ hits : \A g \in hits : far(g) <= far(h)
              /\ found[Space] \subseteq hits \/ Cardinality(hits) >= 1
              /\ c \in Http => Cardinality(hits) <= MaxK]_vars

\* Once the caller has gone, neither provider gets another request for it: not
\* a retry, and not the generation that follows an embedding already paid for.
NothingSpentAfterGivingUp ==
    [][\A c \in Callers : call[c].gaveUp =>
          /\ call'[c].attempt <= call[c].attempt
          /\ gen'[c].attempt <= gen[c].attempt]_vars

\* Every call returns, with all callers competing for both limiters, both
\* providers failing and the index changing.
CallsEnd == \A c \in Callers : ask[c].pc = "embed" ~> ask[c].pc \in Over
=============================================================================
