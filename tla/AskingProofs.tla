---------------------------- MODULE AskingProofs ----------------------------
(***************************************************************************)
(* Proofs about Asking for any number of callers, questions, notes and     *)
(* spaces, any budget and any changes of the index: a call finds passages  *)
(* of the notes as they are stored at that moment, a caller who has gone   *)
(* costs nothing further, and an answer is to the caller's own question    *)
(* over what that caller found.                                            *)
(*                                                                         *)
(* Both provider calls go through Connector, so what ConnectorProofs shows *)
(* of one holds of either; the generator's texts are prompts.  AskInv says *)
(* that the index is sound and every request is its caller's own,          *)
(* AnswerInv what becomes of the request to the generator.  What the two   *)
(* loops over the hits compute is proved by following each of them hit by  *)
(* hit (FoldProofs): Packed and InOrder are their loop invariants.         *)
(***************************************************************************)
EXTENDS Asking, FoldProofs, FiniteSetTheorems, TLAPS

Embedding ==
    INSTANCE ConnectorProofs WITH Texts <- Questions, MaxTexts <- 1, MaxBatch <- 1,
                                  Deadlines <- Http

Generation ==
    INSTANCE ConnectorProofs WITH Texts <- Prompt, MaxTexts <- 1, MaxBatch <- 1,
                                  Deadlines <- Http, call <- gen, tokens <- genTokens

\* Asking and the proofs about Connector mean the same steps.
LEMMA EmbedderSteps ==
    ASSUME NEW c \in Callers
    PROVE  /\ Embedder!Step(c) <=> Embedding!Step(c)
           /\ \A texts : Embedder!Request(c, texts) <=> Embedding!Request(c, texts)
           /\ Embedder!RefillToken <=> Embedding!RefillToken
BY DEF Embedder!Step, Embedding!Step, Embedder!TakeToken, Embedding!TakeToken,
       Embedder!WaitFails, Embedding!WaitFails, Embedder!Try, Embedding!Try,
       Embedder!Reply, Embedding!Reply, Embedder!RequestCancelled,
       Embedding!RequestCancelled, Embedder!TimerFires, Embedding!TimerFires,
       Embedder!SleepCancelled, Embedding!SleepCancelled, Embedder!Return,
       Embedding!Return, Embedder!ReturnError, Embedding!ReturnError, Embedder!ContextDone, Embedding!ContextDone, Embedder!LastAttempt,
       Embedding!LastAttempt, Embedder!Attempts, Embedding!Attempts, Embedder!Answers,
       Embedding!Answers, Embedder!ShortAnswers, Embedding!ShortAnswers, Embedder!Slice,
       Embedding!Slice, Embedder!SliceEnd, Embedding!SliceEnd, Embedder!Size,
       Embedding!Size, Embedder!CheckResult, Embedding!CheckResult, Embedder!SliceDone,
       Embedding!SliceDone, Embedder!ByIndex, Embedding!ByIndex, Embedder!Transient,
       Embedding!Transient, Embedder!TransientStatus, Embedding!TransientStatus,
       Embedder!Daily, Embedding!Daily, Embedder!MarkedTransport,
       Embedding!MarkedTransport, Embedder!Request, Embedding!Request,
       Embedder!RefillToken, Embedding!RefillToken

LEMMA GeneratorSteps ==
    ASSUME NEW c \in Callers
    PROVE  /\ Generator!Step(c) <=> Generation!Step(c)
           /\ \A texts : Generator!Request(c, texts) <=> Generation!Request(c, texts)
           /\ Generator!RefillToken <=> Generation!RefillToken
BY DEF Generator!Step, Generation!Step, Generator!TakeToken, Generation!TakeToken,
       Generator!WaitFails, Generation!WaitFails, Generator!Try, Generation!Try,
       Generator!Reply, Generation!Reply, Generator!RequestCancelled,
       Generation!RequestCancelled, Generator!TimerFires, Generation!TimerFires,
       Generator!SleepCancelled, Generation!SleepCancelled, Generator!Return,
       Generation!Return, Generator!ReturnError, Generation!ReturnError, Generator!ContextDone, Generation!ContextDone,
       Generator!LastAttempt, Generation!LastAttempt, Generator!Attempts,
       Generation!Attempts, Generator!Answers, Generation!Answers, Generator!ShortAnswers,
       Generation!ShortAnswers, Generator!Slice, Generation!Slice, Generator!SliceEnd,
       Generation!SliceEnd, Generator!Size, Generation!Size, Generator!CheckResult,
       Generation!CheckResult, Generator!SliceDone, Generation!SliceDone,
       Generator!ByIndex, Generation!ByIndex, Generator!Transient, Generation!Transient,
       Generator!TransientStatus, Generation!TransientStatus, Generator!Daily,
       Generation!Daily, Generator!MarkedTransport, Generation!MarkedTransport,
       Generator!Request, Generation!Request, Generator!RefillToken,
       Generation!RefillToken

-----------------------------------------------------------------------------
(***************************************************************************)
(* The index.                                                              *)
(***************************************************************************)
IndexOK ==
    /\ stored \in [Files -> Contents \cup {None}]
    /\ DOMAIN found = Spaces
    /\ \A s \in Spaces : found[s] \subseteq Index!Passages

\* What can be found is found of one note.
LEMMA PassageOf ==
    ASSUME NEW h
    PROVE  h \in Index!Passages <=>
               \E f \in Files : stored[f] # None /\ h \in Index!PassagesOf(f, stored[f])
BY DEF Index!Passages

LEMMA PassageNamesNote ==
    ASSUME NEW f, NEW c, NEW h \in Index!PassagesOf(f, c)
    PROVE  h.note = f
BY DEF Index!PassagesOf

\* However the index changes, a search finds passages of stored notes only.
LEMMA IndexChangesOK ==
    ASSUME IndexOK, Index!Next
    PROVE  IndexOK'
<1>1. ASSUME NEW F \in SUBSET Files, found' = Index!FoundWithout(F),
             stored' \in [Files -> Contents \cup {None}],
             \A f \in Files \ F : stored'[f] = stored[f]
      PROVE  IndexOK'
  <2>1. ASSUME NEW s \in Spaces, NEW h \in found'[s] PROVE h \in Index!Passages'
    <3>1. h \in found[s] /\ h.note \notin F
      BY <1>1, <2>1 DEF Index!FoundWithout
    <3>2. PICK f \in Files : stored[f] # None /\ h \in Index!PassagesOf(f, stored[f])
      BY <3>1 DEF IndexOK, Index!Passages
    <3>3. f \notin F
      BY <3>1, <3>2, PassageNamesNote
    <3>4. stored'[f] # None /\ h \in Index!PassagesOf(f, stored'[f])
      BY <1>1, <3>2, <3>3
    <3> QED BY <3>4 DEF Index!Passages, Index!PassagesOf
  <2>2. DOMAIN found' = Spaces
    BY <1>1 DEF Index!FoundWithout
  <2> QED BY <1>1, <2>1, <2>2 DEF IndexOK
<1>2. ASSUME NEW f \in Files, NEW c \in Contents, Index!SaveNote(f, c) PROVE IndexOK'
  <2>1. stored' = [stored EXCEPT ![f] = c] /\ found' = Index!FoundWithout({f})
    BY <1>2 DEF Index!SaveNote
  <2>2. /\ stored' \in [Files -> Contents \cup {None}]
        /\ \A g \in Files \ {f} : stored'[g] = stored[g]
    BY <2>1 DEF IndexOK
  <2> QED BY <1>1, <2>1, <2>2
<1>3. ASSUME NEW F \in SUBSET Files, Index!PruneNotes(F) PROVE IndexOK'
  <2>1. /\ stored' = [f \in Files |-> IF f \in F THEN None ELSE stored[f]]
        /\ found' = Index!FoundWithout(F)
    BY <1>3 DEF Index!PruneNotes
  <2>2. /\ stored' \in [Files -> Contents \cup {None}]
        /\ \A g \in Files \ F : stored'[g] = stored[g]
    BY <2>1 DEF IndexOK
  <2> QED BY <1>1, <2>1, <2>2
<1>4. ASSUME NEW s \in Spaces, NEW hits \in SUBSET Index!Passages, Index!AddVectors(s, hits)
      PROVE  IndexOK'
  <2>1. stored' = stored /\ found' = [found EXCEPT ![s] = @ \cup hits]
    BY <1>4 DEF Index!AddVectors
  <2>2. Index!Passages' = Index!Passages
    BY <2>1 DEF Index!Passages, Index!PassagesOf
  <2> QED BY <2>1, <2>2 DEF IndexOK
<1> QED BY <1>2, <1>3, <1>4 DEF Index!Next

-----------------------------------------------------------------------------
(***************************************************************************)
(* The invariant.                                                          *)
(***************************************************************************)

\* A caller's call a, its request k to the embedder and g to the generator.
CallerOK(a, k, g, question) ==
    /\ {"pc", "op", "k", "hits"} \subseteq DOMAIN a /\ a.k \in Int
    /\ a.pc \in {"embed", "search"} => k.texts = <<question>>
    /\ a.pc = "search" => k.pc = "done"
    /\ k.gaveUp => g.gaveUp

CallersOK ==
    /\ DOMAIN ask = Callers
    /\ \A c \in Callers : CallerOK(ask[c], call[c], gen[c], QuestionOf[c])

AskInv == IndexOK /\ Embedding!IInv /\ Generation!CallsShaped /\ CallersOK

NothingSpent ==
    \A c \in Callers : call[c].gaveUp =>
        call'[c].attempt <= call[c].attempt /\ gen'[c].attempt <= gen[c].attempt

LEMMA ConnectorAssumed ==
    /\ 1 \in Nat
    /\ 1 \in Int
    /\ MaxAttempts \in Int
    /\ Http \subseteq Callers
    /\ Burst \in Nat \ {0}
    /\ Misfit \notin Questions /\ Misfit \notin Prompt
    /\ Replies \subseteq Embedding!ReplyKinds
    /\ Replies \subseteq Generation!ReplyKinds
BY AskingAssumption
   DEF AskingAssumption, Embedder!ReplyKinds, Embedding!ReplyKinds, Generation!ReplyKinds

LEMMA EmbeddingStays ==
    ASSUME Embedding!IInv, UNCHANGED embedding
    PROVE  Embedding!IInv'
BY ConnectorAssumed, Embedding!NextIInv DEF Embedding!vars, embedding, Embedding!ConnectorAssumption

LEMMA EmbedderStepOK ==
    ASSUME Embedding!IInv, NEW c \in Callers, Embedder!Step(c)
    PROVE  Embedding!IInv'
BY ConnectorAssumed, EmbedderSteps, Embedding!NextIInv
   DEF Embedding!Next, Embedding!ConnectorAssumption

\* The shape of every call, from the invariant.
LEMMA Shapes ==
    ASSUME AskInv
    PROVE  /\ DOMAIN call = Callers /\ DOMAIN gen = Callers /\ DOMAIN ask = Callers
           /\ \A c \in Callers :
                 /\ Embedding!Shaped(call[c])
                 /\ Generation!Shaped(gen[c])
                 /\ CallerOK(ask[c], call[c], gen[c], QuestionOf[c])
BY ConnectorAssumed, Embedding!IInvShaped
   DEF AskInv, CallersOK, Embedding!CallsShaped, Generation!CallsShaped,
       Embedding!ConnectorAssumption

\* One caller's a becomes another; its requests are as good as the goal needs.
LEMMA CallerMoves ==
    ASSUME AskInv, NEW c \in Callers, NEW a, ask' = [ask EXCEPT ![c] = a],
           CallerOK(a, call'[c], gen'[c], QuestionOf[c]),
           \A d \in Callers \ {c} : call'[d] = call[d] /\ gen'[d] = gen[d]
    PROVE  CallersOK'
<1>1. DOMAIN ask' = Callers /\ ask'[c] = a /\ \A d \in Callers \ {c} : ask'[d] = ask[d]
  BY Shapes
<1>2. ASSUME NEW d \in Callers PROVE CallerOK(ask'[d], call'[d], gen'[d], QuestionOf[d])
  <2>1. CASE d = c
    BY <1>1, <2>1
  <2>2. CASE d # c
    BY <1>1, <2>2, Shapes
  <2> QED BY <2>1, <2>2
<1> QED BY <1>1, <1>2 DEF CallersOK

LEMMA StartOK ==
    ASSUME AskInv, NEW c \in Callers, StartCall(c)
    PROVE  AskInv' /\ NothingSpent
<1> DEFINE x == call[c]
           a == ask[c]
<1>1. UNCHANGED <<index, generation>>
  BY DEF StartCall
<1>2. IndexOK' /\ Generation!CallsShaped'
  BY <1>1 DEF AskInv, IndexOK, Index!Passages, Index!PassagesOf, Generation!CallsShaped,
              Generation!Shaped, index, generation
<1>3. CASE ask' = [ask EXCEPT ![c].pc = "error", ![c].op = "ask"] /\ UNCHANGED embedding
  <2> DEFINE b == [a EXCEPT !.pc = "error", !.op = "ask"]
  <2>1. ask' = [ask EXCEPT ![c] = b]
    BY <1>3, Shapes
  <2>2. UNCHANGED <<call, gen>>
    BY <1>1, <1>3 DEF embedding, generation
  <2>3. CallerOK(b, call'[c], gen'[c], QuestionOf[c])
    <3>1. CallerOK(a, call[c], gen[c], QuestionOf[c])
      BY Shapes
    <3> HIDE DEF a
    <3> QED BY <2>2, <3>1 DEF CallerOK
  <2>4. CallersOK'
    <3> HIDE DEF b
    <3> QED BY <2>1, <2>2, <2>3, CallerMoves
  <2>5. Embedding!IInv'
    BY <1>3, EmbeddingStays DEF AskInv
  <2>6. NothingSpent
    BY <2>2, Shapes DEF NothingSpent, Embedding!Shaped, Generation!Shaped
  <2> QED BY <1>2, <2>4, <2>5, <2>6 DEF AskInv
<1>4. ASSUME NEW op, NEW k \in KsOf[c], Embedder!Request(c, <<QuestionOf[c]>>),
             ask' = [ask EXCEPT ![c].pc = "embed", ![c].op = op, ![c].k = k]
      PROVE  AskInv' /\ NothingSpent
  <2> DEFINE b == [a EXCEPT !.pc = "embed", !.op = op, !.k = k]
             y == [x EXCEPT !.pc = "wait", !.texts = <<QuestionOf[c]>>]
  <2>1. ask' = [ask EXCEPT ![c] = b]
    BY <1>4, Shapes
  <2>2. call' = [call EXCEPT ![c] = y]
    <3>1. <<QuestionOf[c]>> # <<>>
      OBVIOUS
    <3> QED BY <1>4, <3>1, Shapes DEF Embedder!Request
  <2>3. UNCHANGED gen
    BY <1>1 DEF generation
  <2>4. Embedding!Shaped(x) /\ CallerOK(a, x, gen[c], QuestionOf[c])
    BY Shapes
  <2>5. /\ y.texts = <<QuestionOf[c]>> /\ y.gaveUp = x.gaveUp /\ y.attempt = x.attempt
    <3> HIDE DEF x
    <3> QED BY <2>4 DEF Embedding!Shaped
  <2>6. k \in Int
    BY <1>4, AskingAssumption DEF AskingAssumption
  <2>7. /\ {"pc", "op", "k", "hits"} \subseteq DOMAIN b /\ b.k \in Int /\ b.pc = "embed"
    <3> HIDE DEF a, x
    <3> QED BY <2>4, <2>6 DEF CallerOK
  <2>8. call'[c] = y /\ \A d \in Callers \ {c} : call'[d] = call[d]
    BY <2>2, Shapes
  <2>9. CallerOK(b, call'[c], gen'[c], QuestionOf[c])
    <3> HIDE DEF b, y, x, a
    <3> QED BY <2>3, <2>4, <2>5, <2>7, <2>8 DEF CallerOK
  <2>10. CallersOK'
    <3> HIDE DEF b, y
    <3> QED BY <2>1, <2>3, <2>8, <2>9, CallerMoves
  <2>11. Embedding!IInv'
    <3>1. <<QuestionOf[c]>> \in Seq(Questions)
      BY AskingAssumption DEF AskingAssumption
    <3> QED BY <1>4, <3>1, ConnectorAssumed, EmbedderSteps, Embedding!BatchedIInv
            DEF AskInv, Embedding!ConnectorAssumption
  <2>12. NothingSpent
    <3>1. ASSUME NEW d \in Callers
          PROVE  call'[d].attempt = call[d].attempt /\ gen'[d].attempt = gen[d].attempt
      <4> HIDE DEF y
      <4> QED BY <2>3, <2>5, <2>8
    <3> QED BY <3>1, Shapes DEF NothingSpent, Embedding!Shaped, Generation!Shaped
  <2> QED BY <1>2, <2>10, <2>11, <2>12 DEF AskInv
<1> QED BY <1>3, <1>4 DEF StartCall

\* While the index and the generator rest, their parts of the invariant stay.
LEMMA IndexStays ==
    ASSUME AskInv, UNCHANGED index
    PROVE  IndexOK'
BY DEF AskInv, IndexOK, Index!Passages, Index!PassagesOf, index

LEMMA GenerationStays ==
    ASSUME AskInv, UNCHANGED gen
    PROVE  Generation!CallsShaped'
BY DEF AskInv, Generation!CallsShaped, Generation!Shaped

LEMMA NothingAsked ==
    ASSUME AskInv,
           \A c \in Callers : call[c].gaveUp =>
               call'[c].attempt = call[c].attempt /\ gen'[c].attempt = gen[c].attempt
    PROVE  NothingSpent
BY Shapes DEF NothingSpent, Embedding!Shaped, Generation!Shaped

\* Only where a caller is changes, and what it found.
LEMMA OnlyMovesOn ==
    ASSUME AskInv, NEW c \in Callers, NEW a, ask' = [ask EXCEPT ![c] = a],
           CallerOK(a, call[c], gen[c], QuestionOf[c]),
           UNCHANGED <<index, embedding, generation>>
    PROVE  AskInv' /\ NothingSpent
<1>1. UNCHANGED <<call, gen>>
  BY DEF embedding, generation
<1>2. CallersOK'
  BY <1>1, CallerMoves
<1>3. Embedding!IInv'
  BY EmbeddingStays DEF AskInv
<1> QED BY <1>1, <1>2, <1>3, IndexStays, GenerationStays, NothingAsked DEF AskInv

LEMMA GotoOK ==
    ASSUME AskInv, NEW c \in Callers, NEW pc, Goto(c, pc), pc \notin {"embed", "search"},
           UNCHANGED <<index, embedding, generation>>
    PROVE  AskInv' /\ NothingSpent
<1> DEFINE a == ask[c]
           b == [a EXCEPT !.pc = pc]
<1>1. ask' = [ask EXCEPT ![c] = b]
  BY Shapes DEF Goto
<1>2. CallerOK(b, call[c], gen[c], QuestionOf[c])
  <2>1. CallerOK(a, call[c], gen[c], QuestionOf[c])
    BY Shapes
  <2> HIDE DEF a
  <2> QED BY <2>1 DEF CallerOK
<1> HIDE DEF b
<1> QED BY <1>1, <1>2, OnlyMovesOn

LEMMA EmbedStepOK ==
    ASSUME AskInv, NEW c \in Callers, EmbedStep(c)
    PROVE  AskInv' /\ NothingSpent
<1>1. Embedder!Step(c) /\ UNCHANGED <<index, gen, ask>> /\ ask[c].pc = "embed"
  BY DEF EmbedStep, generation
<1>2. Embedding!IInv'
  BY <1>1, EmbedderStepOK DEF AskInv
<1>3. /\ \A d \in Callers : Embedding!Continues(call[d], call'[d])
      /\ \A d \in Callers \ {c} : call'[d] = call[d]
  BY <1>1, EmbedderSteps, ConnectorAssumed, Embedding!StepContinues, Embedding!IInvShaped
     DEF AskInv, Embedding!ConnectorAssumption
<1>4. CallersOK'
  <2>1. CallerOK(ask[c], call'[c], gen'[c], QuestionOf[c])
    BY <1>1, <1>3, Shapes DEF CallerOK, Embedding!Continues
  <2>2. DOMAIN ask' = Callers
    BY <1>1, Shapes
  <2>3. ASSUME NEW d \in Callers PROVE CallerOK(ask'[d], call'[d], gen'[d], QuestionOf[d])
    BY <1>1, <1>3, <2>1, Shapes
  <2> QED BY <2>2, <2>3 DEF CallersOK
<1>5. NothingSpent
  BY <1>1, <1>3, Shapes DEF NothingSpent, Embedding!Continues, Generation!Shaped
<1> QED BY <1>1, <1>2, <1>4, <1>5, IndexStays, GenerationStays DEF AskInv

LEMMA EmbedReturnsOK ==
    ASSUME AskInv, NEW c \in Callers, EmbedReturns(c)
    PROVE  AskInv' /\ NothingSpent
<1>1. ask[c].pc = "embed" /\ UNCHANGED <<index, embedding, generation>>
  BY DEF EmbedReturns
<1>2. CASE Goto(c, "error")
  BY <1>1, <1>2, GotoOK
<1>3. CASE call[c].pc = "done" /\ Goto(c, "search")
  <2> DEFINE a == ask[c]
             b == [a EXCEPT !.pc = "search"]
  <2>1. ask' = [ask EXCEPT ![c] = b]
    BY <1>3, Shapes DEF Goto
  <2>2. CallerOK(b, call[c], gen[c], QuestionOf[c])
    <3>1. CallerOK(a, call[c], gen[c], QuestionOf[c]) /\ a.pc = "embed"
      BY <1>1, Shapes
    <3> HIDE DEF a
    <3> QED BY <1>3, <3>1 DEF CallerOK
  <2> HIDE DEF b
  <2> QED BY <1>1, <2>1, <2>2, OnlyMovesOn
<1> QED BY <1>2, <1>3 DEF EmbedReturns

LEMMA FindOK ==
    ASSUME AskInv, NEW c \in Callers, Find(c)
    PROVE  AskInv' /\ NothingSpent
<1> DEFINE a == ask[c]
           g == gen[c]
<1>1. UNCHANGED <<index, embedding>> /\ UNCHANGED call
  BY DEF Find, embedding
<1>2. PICK hits :
        \/ ask' = [ask EXCEPT ![c].pc = "done", ![c].hits = hits] /\ UNCHANGED generation
        \/ /\ ask' = [ask EXCEPT ![c].pc = "generate", ![c].hits = hits]
           /\ Generator!Request(c, <<BuildUserPrompt(QuestionOf[c], hits)>>)
  BY DEF Find
<1>3. CallerOK(a, call[c], g, QuestionOf[c]) /\ Generation!Shaped(g)
  BY Shapes
<1>4. ASSUME NEW pc \in {"done", "generate"}, NEW b, b = [a EXCEPT !.pc = pc, !.hits = hits],
             NEW h, h.gaveUp = g.gaveUp
      PROVE  CallerOK(b, call[c], h, QuestionOf[c])
  <2> HIDE DEF a, g
  <2> QED BY <1>3, <1>4 DEF CallerOK
<1>5. CASE ask' = [ask EXCEPT ![c].pc = "done", ![c].hits = hits] /\ UNCHANGED generation
  <2> DEFINE b == [a EXCEPT !.pc = "done", !.hits = hits]
  <2>1. ask' = [ask EXCEPT ![c] = b]
    BY <1>5, Shapes
  <2>2. CallerOK(b, call[c], gen[c], QuestionOf[c])
    BY <1>4
  <2> HIDE DEF b
  <2> QED BY <1>1, <1>5, <2>1, <2>2, OnlyMovesOn
<1>6. ASSUME NEW prompt, Generator!Request(c, <<prompt>>),
             ask' = [ask EXCEPT ![c].pc = "generate", ![c].hits = hits]
      PROVE  AskInv' /\ NothingSpent
  <2> DEFINE b == [a EXCEPT !.pc = "generate", !.hits = hits]
             h == [g EXCEPT !.pc = "wait", !.texts = <<prompt>>]
  <2>1. ask' = [ask EXCEPT ![c] = b]
    BY <1>6, Shapes
  <2>2. gen' = [gen EXCEPT ![c] = h]
    <3>1. <<prompt>> # <<>>
      OBVIOUS
    <3> QED BY <1>6, <3>1, Shapes DEF Generator!Request
  <2>3. h.gaveUp = g.gaveUp /\ h.attempt = g.attempt /\ Generation!Shaped(h)
    <3> HIDE DEF g
    <3> QED BY <1>3 DEF Generation!Shaped
  <2>4. gen'[c] = h /\ \A d \in Callers \ {c} : gen'[d] = gen[d]
    BY <2>2, Shapes
  <2>5. CallersOK'
    <3>1. CallerOK(b, call'[c], gen'[c], QuestionOf[c])
      BY <1>1, <1>4, <2>3, <2>4
    <3> HIDE DEF b, h
    <3> QED BY <1>1, <2>1, <2>4, <3>1, CallerMoves
  <2>6. Generation!CallsShaped'
    <3>1. DOMAIN gen' = Callers
      BY <2>2, Shapes
    <3>2. ASSUME NEW d \in Callers PROVE Generation!Shaped(gen'[d])
      <4> HIDE DEF h
      <4> QED BY <2>3, <2>4, Shapes
    <3> QED BY <3>1, <3>2 DEF Generation!CallsShaped
  <2>7. NothingSpent
    <3> HIDE DEF h
    <3> QED BY <1>1, <2>3, <2>4, NothingAsked
  <2>8. Embedding!IInv'
    BY <1>1, EmbeddingStays DEF AskInv
  <2> QED BY <1>1, <2>5, <2>6, <2>7, <2>8, IndexStays DEF AskInv
<1> QED BY <1>2, <1>5, <1>6

LEMMA GenerateStepOK ==
    ASSUME AskInv, NEW c \in Callers, GenerateStep(c)
    PROVE  AskInv' /\ NothingSpent
<1>1. Generator!Step(c) /\ UNCHANGED <<index, embedding, ask>> /\ UNCHANGED call
  BY DEF GenerateStep, embedding
<1>2. /\ Generation!CallsShaped'
      /\ \A d \in Callers : Generation!Continues(gen[d], gen'[d])
  BY <1>1, GeneratorSteps, ConnectorAssumed, Generation!StepContinues
     DEF AskInv, Generation!ConnectorAssumption
<1>3. CallersOK'
  <2>1. DOMAIN ask' = Callers
    BY <1>1, Shapes
  <2>2. ASSUME NEW d \in Callers PROVE CallerOK(ask'[d], call'[d], gen'[d], QuestionOf[d])
    BY <1>1, <1>2, Shapes DEF CallerOK, Generation!Continues
  <2> QED BY <2>1, <2>2 DEF CallersOK
<1>4. Embedding!IInv'
  BY <1>1, EmbeddingStays DEF AskInv
<1>5. NothingSpent
  <2>1. ASSUME NEW d \in Callers, call[d].gaveUp PROVE gen'[d].attempt <= gen[d].attempt
    BY <1>2, <2>1, Shapes DEF CallerOK, Generation!Continues
  <2> QED BY <1>1, <2>1, Shapes DEF NothingSpent, Embedding!Shaped
<1> QED BY <1>1, <1>2, <1>3, <1>4, <1>5, IndexStays DEF AskInv

LEMMA GenerateReturnsOK ==
    ASSUME AskInv, NEW c \in Callers, GenerateReturns(c)
    PROVE  AskInv' /\ NothingSpent
<1>1. UNCHANGED <<index, embedding, generation>>
  BY DEF GenerateReturns
<1>2. CASE Goto(c, "error")
  BY <1>1, <1>2, GotoOK
<1>3. ASSUME NEW sources, ask' = [ask EXCEPT ![c].pc = "done", ![c].sources = sources]
      PROVE  AskInv' /\ NothingSpent
  <2> DEFINE a == ask[c]
             b == [a EXCEPT !.pc = "done", !.sources = sources]
  <2>1. ask' = [ask EXCEPT ![c] = b]
    BY <1>3, Shapes
  <2>2. CallerOK(b, call[c], gen[c], QuestionOf[c])
    <3>1. CallerOK(a, call[c], gen[c], QuestionOf[c])
      BY Shapes
    <3> HIDE DEF a
    <3> QED BY <3>1 DEF CallerOK
  <2> HIDE DEF b
  <2> QED BY <1>1, <2>1, <2>2, OnlyMovesOn
<1> QED BY <1>2, <1>3 DEF GenerateReturns

LEMMA GiveUpOK ==
    ASSUME AskInv, NEW c \in Callers, GiveUp(c)
    PROVE  AskInv' /\ NothingSpent
<1> DEFINE x == call[c]
           g == gen[c]
           y == [x EXCEPT !.gaveUp = TRUE]
           h == [g EXCEPT !.gaveUp = TRUE]
<1>1. UNCHANGED <<index, tokens, ask>>
  BY DEF GiveUp
<1>2. call' = [call EXCEPT ![c] = y] /\ gen' = [gen EXCEPT ![c] = h]
  BY Shapes DEF GiveUp
<1>3. /\ Embedding!Shaped(x) /\ Generation!Shaped(g)
      /\ CallerOK(ask[c], x, g, QuestionOf[c])
  BY Shapes
<1>4. x \in Embedding!Calls /\ Embedding!CallOK(x)
  BY ConnectorAssumed, Embedding!OneCall DEF AskInv, Embedding!ConnectorAssumption
<1>5. y \in Embedding!Calls /\ Embedding!CallOK(y) /\ y.pc = x.pc /\ y.texts = x.texts
      /\ y.attempt = x.attempt
  <2> HIDE DEF x
  <2> QED BY <1>4 DEF Embedding!Calls, Embedding!CallOK
<1>6. h.gaveUp /\ h.attempt = g.attempt /\ Generation!Shaped(h)
  <2> HIDE DEF g
  <2> QED BY <1>3 DEF Generation!Shaped
<1>7. call'[c] = y /\ gen'[c] = h
      /\ \A d \in Callers \ {c} : call'[d] = call[d] /\ gen'[d] = gen[d]
  BY <1>2, Shapes
<1>8. Embedding!IInv'
  <2>1. tokens' \in 0..Burst
    BY <1>1 DEF AskInv, Embedding!IInv, Embedding!TypeOK
  <2> HIDE DEF y
  <2> QED BY <1>2, <1>5, <2>1, ConnectorAssumed, Embedding!OneCallChanges
          DEF AskInv, Embedding!ConnectorAssumption
<1>9. Generation!CallsShaped'
  <2> HIDE DEF h
  <2> QED BY <1>2, <1>6, ConnectorAssumed, Generation!ShapedAfter
          DEF AskInv, Generation!ConnectorAssumption
<1>10. CallersOK'
  <2>1. DOMAIN ask' = Callers
    BY <1>1, Shapes
  <2>2. ASSUME NEW d \in Callers PROVE CallerOK(ask'[d], call'[d], gen'[d], QuestionOf[d])
    <3>1. CASE d = c
      <4> HIDE DEF x, y, g, h
      <4> QED BY <1>1, <1>3, <1>5, <1>6, <1>7, <3>1 DEF CallerOK
    <3>2. CASE d # c
      BY <1>1, <1>7, <3>2, Shapes
    <3> QED BY <3>1, <3>2
  <2> QED BY <2>1, <2>2 DEF CallersOK
<1>11. NothingSpent
  <2>1. ASSUME NEW d \in Callers
        PROVE  call'[d].attempt = call[d].attempt /\ gen'[d].attempt = gen[d].attempt
    <3> HIDE DEF y, h
    <3> QED BY <1>5, <1>6, <1>7
  <2> QED BY <2>1, NothingAsked
<1> QED BY <1>1, <1>8, <1>9, <1>10, <1>11, IndexStays DEF AskInv

\* The index, the buckets and a stutter leave every call alone.
LEMMA CallsStay ==
    ASSUME AskInv, UNCHANGED <<call, gen, ask>>, IndexOK', Embedding!IInv'
    PROVE  AskInv' /\ NothingSpent
BY GenerationStays, NothingAsked DEF AskInv, CallersOK, CallerOK

LEMMA NextOK == AskInv /\ [Next]_vars => AskInv' /\ NothingSpent
<1> SUFFICES ASSUME AskInv, [Next]_vars PROVE AskInv' /\ NothingSpent
  OBVIOUS
<1>1. ASSUME NEW c \in Callers, Step(c) PROVE AskInv' /\ NothingSpent
  <2>1. CASE FindFails(c)
    BY <2>1, GotoOK DEF FindFails
  <2> QED BY <1>1, <2>1, StartOK, EmbedStepOK, EmbedReturnsOK, FindOK, GenerateStepOK,
             GenerateReturnsOK DEF Step
<1>2. ASSUME NEW c \in Callers, GiveUp(c) PROVE AskInv' /\ NothingSpent
  BY <1>2, GiveUpOK
<1>3. CASE Refill
  <2>1. UNCHANGED <<call, gen, ask>> /\ UNCHANGED index
    BY <1>3 DEF Refill, Embedder!RefillToken, Generator!RefillToken, embedding, generation
  <2>2. CASE Embedder!RefillToken
    <3>1. Embedding!RefillToken
      BY <2>2 DEF Embedder!RefillToken, Embedding!RefillToken
    <3> QED BY <2>1, <3>1, ConnectorAssumed, Embedding!NextIInv, IndexStays, CallsStay
            DEF AskInv, Embedding!Next, Embedding!ConnectorAssumption
  <2>3. CASE UNCHANGED embedding
    BY <2>1, <2>3, EmbeddingStays, IndexStays, CallsStay DEF AskInv
  <2> QED BY <1>3, <2>2, <2>3 DEF Refill
<1>4. CASE IndexChanges
  <2>1. UNCHANGED <<embedding, generation, ask>> /\ UNCHANGED <<call, gen>> /\ Index!Next
    BY <1>4 DEF IndexChanges, embedding, generation
  <2> QED BY <2>1, IndexChangesOK, EmbeddingStays, CallsStay DEF AskInv
<1>5. CASE UNCHANGED vars
  <2>1. UNCHANGED <<embedding, index, ask>> /\ UNCHANGED <<call, gen>>
    BY <1>5 DEF vars, embedding, generation
  <2> QED BY <2>1, IndexStays, EmbeddingStays, CallsStay DEF AskInv
<1> QED BY <1>1, <1>2, <1>3, <1>4, <1>5 DEF Next

LEMMA InitOK == Init => AskInv
<1> SUFFICES ASSUME Init PROVE AskInv
  OBVIOUS
<1>1. IndexOK
  BY AskingAssumption DEF Init, IndexOK, AskingAssumption
<1>2. Embedding!IInv
  <2>1. Embedding!Init
    BY DEF Init, Embedder!Init, Embedding!Init
  <2> QED BY <2>1, ConnectorAssumed, Embedding!InitIInv DEF Embedding!ConnectorAssumption
<1>3. Generation!CallsShaped /\ \A c \in Callers : ~call[c].gaveUp
  BY DEF Init, Generator!Init, Embedder!Init, Generation!CallsShaped, Generation!Shaped
<1>4. CallersOK
  BY <1>3 DEF Init, CallersOK, CallerOK
<1> QED BY <1>1, <1>2, <1>3, <1>4 DEF AskInv

LEMMA Invariant == Spec => []AskInv
<1>1. AskInv /\ [Next]_vars => AskInv'
  BY NextOK
<1> QED BY <1>1, InitOK, PTL DEF Spec

-----------------------------------------------------------------------------
\* A caller who has gone costs no further request to either provider, however
\* far its call has come and whatever the other callers do.
THEOREM GoneCallersCostNothing == Spec => NothingSpentAfterGivingUp
<1>1. AskInv /\ [Next]_vars =>
        [\A c \in Callers : call[c].gaveUp =>
            /\ call'[c].attempt <= call[c].attempt
            /\ gen'[c].attempt <= gen[c].attempt]_vars
  BY NextOK DEF NothingSpent
<1> QED BY <1>1, Invariant, PTL DEF Spec, NothingSpentAfterGivingUp

-----------------------------------------------------------------------------
(***************************************************************************)
(* What a search finds.                                                    *)
(***************************************************************************)

\* The terms of a sequence, and their number.
LEMMA Terms ==
    ASSUME NEW n \in Nat, NEW S, NEW hits \in [1..n -> S]
    PROVE  LET T == {hits[i] : i \in 1..n} IN
           /\ IsFiniteSet(T) /\ Cardinality(T) \in Nat /\ Cardinality(T) <= n
           /\ n >= 1 => Cardinality(T) >= 1
<1> DEFINE T == {hits[i] : i \in 1..n}
<1>1. hits \in Surjection(1..n, T)
  BY DEF Surjection
<1>2. IsFiniteSet(1..n) /\ Cardinality(1..n) = n
  BY FS_Interval
<1>3. IsFiniteSet(T) /\ Cardinality(T) <= n
  <2> HIDE DEF T
  <2> QED BY <1>1, <1>2, FS_Surjection
<1>4. n >= 1 => T # {}
  <2>1. n >= 1 => hits[1] \in T
    OBVIOUS
  <2> QED BY <2>1
<1> HIDE DEF T
<1>5. Cardinality(T) \in Nat /\ (T # {} => Cardinality(T) # 0)
  BY <1>3, FS_CardinalityType, FS_EmptySet
<1>6. n >= 1 => Cardinality(T) >= 1
  BY <1>4, <1>5
<1> QED BY <1>3, <1>5, <1>6 DEF T

\* A space holds finitely many passages, so their number is a number.
LEMMA PassagesFinite ==
    ASSUME IndexOK
    PROVE  IsFiniteSet(Index!Passages)
<1> DEFINE F == {f \in Files : stored[f] # None}
           of == [f \in F |-> Index!PassagesOf(f, stored[f])]
           Sets == {of[f] : f \in F}
<1>1. ASSUME NEW f \in F PROVE IsFiniteSet(of[f])
  <2> DEFINE chunks == Cut[stored[f]]
             hit == [i \in 1..Len(chunks) |-> [note |-> f, index |-> i - 1, of |-> chunks[i]]]
  <2>1. stored[f] \in Contents
    BY DEF IndexOK
  <2>2. chunks \in Seq(Texts)
    BY <2>1, AskingAssumption DEF AskingAssumption
  <2>3. Len(chunks) \in Nat /\ DOMAIN chunks = 1..Len(chunks)
    BY <2>2
  <2>4. of[f] = {hit[i] : i \in 1..Len(chunks)}
    BY <2>3 DEF Index!PassagesOf
  <2> HIDE DEF chunks
  <2>5. hit \in [1..Len(chunks) -> {hit[i] : i \in 1..Len(chunks)}]
    OBVIOUS
  <2> HIDE DEF hit
  <2>6. IsFiniteSet({hit[i] : i \in 1..Len(chunks)})
    BY ONLY <2>3, <2>5, Terms
  <2> HIDE DEF of
  <2> QED BY <2>4, <2>6
<1>2. IsFiniteSet(F)
  BY FS_Subset, AskingAssumption DEF AskingAssumption
<1>3. of \in Surjection(F, Sets)
  BY DEF Surjection
<1>4. IsFiniteSet(Sets)
  <2> HIDE DEF F, of, Sets
  <2> QED BY <1>2, <1>3, FS_Surjection
<1>5. \A S \in Sets : IsFiniteSet(S)
  BY <1>1
<1>6. Index!Passages = UNION Sets
  BY DEF Index!Passages
<1> HIDE DEF Sets
<1> QED BY <1>4, <1>5, <1>6, FS_UNION

LEMMA EnoughHits ==
    ASSUME AskInv, NEW c \in Callers
    PROVE  TopK(c) \in Nat /\ TopK(c) >= 1 /\ (c \in Http => TopK(c) <= MaxK)
<1>1. ask[c].k \in Int
  BY Shapes DEF CallerOK
<1>2. ClampK(ask[c].k) \in 1..MaxK /\ MaxK \in Nat
  BY <1>1, AskingAssumption DEF ClampK, AskingAssumption
<1> QED BY <1>1, <1>2 DEF TopK, AtLeastOne

\* One statement finds the nearest passages there are, and enough of them.
LEMMA NearestFound ==
    ASSUME NEW n \in Nat, n >= 1, NEW rows, IsFiniteSet(rows), NEW question,
           NEW hits \in Nearest(n, rows, question)
    PROVE  /\ Range(hits) \subseteq rows
           /\ \A h \in rows \ Range(hits) : \A g \in Range(hits) :
                 Distance[question, g.of] <= Distance[question, h.of]
           /\ rows \subseteq Range(hits) \/ Cardinality(Range(hits)) >= 1
           /\ Cardinality(Range(hits)) \in Nat /\ Cardinality(Range(hits)) <= n
<1> DEFINE len == IF Cardinality(rows) < n THEN Cardinality(rows) ELSE n
           T == Range(hits)
<1>1. /\ hits \in [1..len -> rows]
      /\ \A h \in rows \ {hits[i] : i \in 1..len} :
            \A i \in 1..len : Distance[question, hits[i].of] <= Distance[question, h.of]
  BY DEF Nearest
<1>2. Cardinality(rows) \in Nat /\ (rows # {} => Cardinality(rows) # 0)
  BY FS_CardinalityType, FS_EmptySet
<1>3. len \in Nat /\ len <= n /\ (rows # {} => len >= 1)
  BY <1>2
<1> HIDE DEF len
<1>4. T = {hits[i] : i \in 1..len}
  BY <1>1 DEF Range
<1>5. Cardinality(T) \in Nat /\ Cardinality(T) <= len /\ (len >= 1 => Cardinality(T) >= 1)
  BY <1>1, <1>3, <1>4, Terms
<1>6. T \subseteq rows
  BY <1>1, <1>4
<1>7. \A h \in rows \ T : \A g \in T : Distance[question, g.of] <= Distance[question, h.of]
  BY <1>1, <1>4
<1>8. rows \subseteq T \/ Cardinality(T) >= 1
  BY <1>3, <1>5
<1>9. Cardinality(T) <= n
  BY <1>3, <1>5
<1> QED BY <1>5, <1>6, <1>7, <1>8, <1>9

FindsWell(c) ==
    LET hits == {ask'[c].hits[i] : i \in DOMAIN ask'[c].hits}
        far(h) == Distance[QuestionOf[c], h.of]
    IN  /\ hits \subseteq Index!Passages
        /\ \A h \in found[Space] \ hits : \A g \in hits : far(g) <= far(h)
        /\ found[Space] \subseteq hits \/ Cardinality(hits) >= 1
        /\ c \in Http => Cardinality(hits) <= MaxK

\* The vector a search is for is the one of the caller's own question.
LEMMA OwnQuestion ==
    ASSUME AskInv, NEW c \in Callers, ask[c].pc = "search"
    PROVE  call[c].out[1] = QuestionOf[c]
<1>1. call[c].texts = <<QuestionOf[c]>> /\ call[c].pc = "done"
  BY Shapes DEF CallerOK
<1>2. Embedding!CallOK(call[c])
  BY ConnectorAssumed, Embedding!OneCall DEF AskInv, Embedding!ConnectorAssumption
<1>3. Len(call[c].out) = 1 /\ \A i \in 1..1 : call[c].out[i] = <<QuestionOf[c]>>[i]
  BY <1>1, <1>2 DEF Embedding!CallOK
<1> QED BY <1>3

LEMMA FindFindsWell ==
    ASSUME AskInv, NEW c \in Callers, Find(c)
    PROVE  FindsWell(c) /\ \A d \in Callers \ {c} : ask'[d] = ask[d]
<1>1. PICK hits \in Nearest(TopK(c), found[Space], call[c].out[1]) :
          \E pc : ask' = [ask EXCEPT ![c].pc = pc, ![c].hits = hits]
  BY DEF Find
<1>2. ask'[c].hits = hits /\ \A d \in Callers \ {c} : ask'[d] = ask[d]
  <2> DEFINE a == ask[c]
  <2>1. PICK pc : ask' = [ask EXCEPT ![c].pc = pc, ![c].hits = hits]
    BY <1>1
  <2>2. ask' = [ask EXCEPT ![c] = [a EXCEPT !.pc = pc, !.hits = hits]]
    BY <2>1, Shapes
  <2>3. "hits" \in DOMAIN a
    BY Shapes DEF CallerOK
  <2>4. [a EXCEPT !.pc = pc, !.hits = hits].hits = hits
    <3> HIDE DEF a
    <3> QED BY <2>3
  <2> HIDE DEF a
  <2> QED BY <2>2, <2>4, Shapes
<1>3. call[c].out[1] = QuestionOf[c]
  BY OwnQuestion DEF Find
<1>4. found[Space] \subseteq Index!Passages /\ IsFiniteSet(found[Space])
  <2>1. found[Space] \subseteq Index!Passages
    BY AskingAssumption DEF AskInv, IndexOK, AskingAssumption
  <2> QED BY <2>1, PassagesFinite, FS_Subset DEF AskInv
<1> DEFINE T == Range(hits)
<1>5. /\ T \subseteq found[Space]
      /\ \A h \in found[Space] \ T : \A g \in T :
            Distance[QuestionOf[c], g.of] <= Distance[QuestionOf[c], h.of]
      /\ found[Space] \subseteq T \/ Cardinality(T) >= 1
      /\ Cardinality(T) \in Nat /\ Cardinality(T) <= TopK(c)
  <2>1. TopK(c) \in Nat /\ TopK(c) >= 1
    BY EnoughHits
  <2>2. hits \in Nearest(TopK(c), found[Space], QuestionOf[c])
    BY <1>1, <1>3
  <2> QED BY ONLY <2>1, <2>2, <1>4, NearestFound
<1>6. c \in Http => Cardinality(T) <= MaxK
  <2> HIDE DEF T
  <2>1. MaxK \in Nat
    BY AskingAssumption DEF AskingAssumption
  <2>2. TopK(c) \in Nat /\ (c \in Http => TopK(c) <= MaxK)
    BY EnoughHits
  <2>3. Cardinality(T) \in Nat /\ Cardinality(T) <= TopK(c)
    BY <1>5
  <2> QED BY ONLY <2>1, <2>2, <2>3
<1>7. {ask'[c].hits[i] : i \in DOMAIN ask'[c].hits} = T
  BY <1>2 DEF Range
<1> HIDE DEF T
<1> QED BY <1>2, <1>4, <1>5, <1>6, <1>7 DEF FindsWell

\* Every other step leaves what was found.
LEMMA OthersFindNothing ==
    ASSUME AskInv, [Next]_vars, ~\E c \in Callers : Find(c), NEW d \in Callers
    PROVE  ask'[d].hits = ask[d].hits
<1>1. "hits" \in DOMAIN ask[d] /\ DOMAIN ask = Callers
  BY Shapes DEF CallerOK
<1>2. ASSUME NEW c \in Callers, NEW pc, Goto(c, pc) PROVE ask'[d].hits = ask[d].hits
  BY <1>1, <1>2 DEF Goto
<1>3. ASSUME NEW c \in Callers, StartCall(c) PROVE ask'[d].hits = ask[d].hits
  <2>1. CASE ask' = [ask EXCEPT ![c].pc = "error", ![c].op = "ask"]
    BY <1>1, <2>1
  <2>2. ASSUME NEW op, NEW k,
               ask' = [ask EXCEPT ![c].pc = "embed", ![c].op = op, ![c].k = k]
        PROVE  ask'[d].hits = ask[d].hits
    BY <1>1, <2>2
  <2> QED BY <1>3, <2>1, <2>2 DEF StartCall
<1>4. ASSUME NEW c \in Callers, GenerateReturns(c) PROVE ask'[d].hits = ask[d].hits
  <2>1. ASSUME NEW sources, ask' = [ask EXCEPT ![c].pc = "done", ![c].sources = sources]
        PROVE  ask'[d].hits = ask[d].hits
    BY <1>1, <2>1
  <2> QED BY <1>2, <1>4, <2>1 DEF GenerateReturns
<1>5. ASSUME NEW c \in Callers, Step(c) PROVE ask'[d].hits = ask[d].hits
  BY <1>2, <1>3, <1>4, <1>5
     DEF Step, EmbedStep, EmbedReturns, FindFails, GenerateStep
<1> QED BY <1>5 DEF Next, GiveUp, Refill, IndexChanges, vars

\* A call finds the nearest passages of notes as they are stored at that
\* moment, however the index and the other callers move.
THEOREM SearchesFindStoredPassages == Spec => FindsStoredPassages
<1>1. AskInv /\ [Next]_vars =>
        [\A c \in Callers : ask'[c].hits # ask[c].hits => FindsWell(c)]_vars
  BY FindFindsWell, OthersFindNothing
<1>2. AskInv /\ [Next]_vars =>
        [\A c \in Callers : ask'[c].hits # ask[c].hits =>
          LET hits == {ask'[c].hits[i] : i \in DOMAIN ask'[c].hits}
              far(h) == Distance[QuestionOf[c], h.of]
          IN  /\ hits \subseteq Index!Passages
              /\ \A h \in found[Space] \ hits : \A g \in hits : far(g) <= far(h)
              /\ found[Space] \subseteq hits \/ Cardinality(hits) >= 1
              /\ c \in Http => Cardinality(hits) <= MaxK]_vars
  BY <1>1 DEF FindsWell
<1> QED BY <1>2, Invariant, PTL DEF Spec, FindsStoredPassages

-----------------------------------------------------------------------------
(***************************************************************************)
(* The prompt.                                                             *)
(***************************************************************************)

LEMMA TotalIs == \A hits, n : Total(hits, n) = SumOf([i \in 1..n |-> Runes[hits[i].of]])
BY Zenon DEF Total, SumOf

LEMMA TotalStep ==
    ASSUME NEW hits \in Seq(Hit), NEW n \in Nat, n < Len(hits)
    PROVE  /\ Total(hits, n) \in Int
           /\ Runes[hits[n + 1].of] \in Nat
           /\ Total(hits, n + 1) = Total(hits, n) + Runes[hits[n + 1].of]
<1> DEFINE s == [i \in 1..n |-> Runes[hits[i].of]]
           r == [i \in 1..(n + 1) |-> Runes[hits[i].of]]
<1>1. ASSUME NEW i \in 1..(n + 1) PROVE Runes[hits[i].of] \in Nat
  <2>1. hits[i] \in Hit
    OBVIOUS
  <2>2. hits[i].of \in Texts
    BY <2>1 DEF Hit
  <2> QED BY <2>2, AskingAssumption DEF AskingAssumption
<1>2. s \in Seq(Int) /\ Len(s) = n
  BY <1>1
<1>3. r \in Seq(Int) /\ Len(r) = n + 1
  BY <1>1
<1>4. \A i \in 1..n : r[i] = s[i]
  OBVIOUS
<1>5. r[n + 1] = Runes[hits[n + 1].of]
  OBVIOUS
<1> HIDE DEF s, r
<1>6. SumOf(r) = SumOf(s) + r[n + 1]
  BY <1>2, <1>3, <1>4, SumExtends
<1>7. SumOf(s) \in Int
  BY <1>2, SumType
<1>8. Total(hits, n) = SumOf(s) /\ Total(hits, n + 1) = SumOf(r)
  BY TotalIs DEF s, r
<1>9. Runes[hits[n + 1].of] \in Nat
  BY <1>1
<1> QED BY <1>5, <1>6, <1>7, <1>8, <1>9

LEMMA TotalOfNone == \A hits : Total(hits, 0) = 0
<1> SUFFICES ASSUME NEW hits PROVE Total(hits, 0) = 0
  OBVIOUS
<1>1. 1..0 = {}
  OBVIOUS
<1>2. [i \in 1..0 |-> Runes[hits[i].of]] = <<>>
  BY <1>1
<1> QED BY <1>2, SumOfNone, TotalIs

\* More hits have no fewer runes.
LEMMA TotalGrows ==
    ASSUME NEW hits \in Seq(Hit), NEW n \in Nat, NEW m \in Nat, n <= m, m <= Len(hits)
    PROVE  Total(hits, n) \in Int /\ Total(hits, m) \in Int /\ Total(hits, n) <= Total(hits, m)
<1> DEFINE T == {k \in Nat : k <= Len(hits) =>
                    /\ Total(hits, k) \in Int
                    /\ \A j \in 0..k : Total(hits, j) \in Int /\ Total(hits, j) <= Total(hits, k)}
<1>1. 0 \in T
  BY TotalOfNone
<1>2. ASSUME NEW k \in Nat, k \in T PROVE k + 1 \in T
  <2> SUFFICES ASSUME k + 1 <= Len(hits)
               PROVE  /\ Total(hits, k + 1) \in Int
                      /\ \A j \in 0..(k + 1) :
                            Total(hits, j) \in Int /\ Total(hits, j) <= Total(hits, k + 1)
    OBVIOUS
  <2>1. /\ Total(hits, k) \in Int
        /\ \A j \in 0..k : Total(hits, j) \in Int /\ Total(hits, j) <= Total(hits, k)
    BY <1>2
  <2>2. /\ Total(hits, k + 1) \in Int
        /\ Total(hits, k) <= Total(hits, k + 1)
    BY <2>1, TotalStep
  <2>3. ASSUME NEW j \in 0..(k + 1)
        PROVE  Total(hits, j) \in Int /\ Total(hits, j) <= Total(hits, k + 1)
    <3>1. CASE j = k + 1
      BY <2>2, <3>1
    <3>2. CASE j \in 0..k
      BY <2>1, <2>2, <3>2
    <3> QED BY <3>1, <3>2
  <2> QED BY <2>2, <2>3
<1> HIDE DEF T
<1>3. m \in T
  BY <1>1, <1>2, SetInduction
<1> QED BY <1>3 DEF T

\* The loop of BuildUserPrompt, hit by hit.
Partial == [shown: Seq(Hit), used: Int, full: BOOLEAN]

NothingShown == [shown |-> <<>>, used |-> 0, full |-> FALSE]

PromptLoop(hits) == FoldLeft(AddPassage, NothingShown, hits)

PassageStep(hits) == [i \in 1..Len(hits) |-> [b \in Partial |-> AddPassage(b, hits[i])]]

LEMMA AddPassageType ==
    ASSUME NEW b \in Partial, NEW h \in Hit
    PROVE  AddPassage(b, h) \in Partial
<1>1. h.of \in Texts
  BY DEF Hit
<1>2. Runes[h.of] \in Nat
  BY <1>1, AskingAssumption DEF AskingAssumption
<1>3. [b EXCEPT !.full = TRUE] \in Partial
  BY DEF Partial
<1>4. Append(b.shown, h) \in Seq(Hit) /\ b.used + Runes[h.of] \in Int
  BY <1>2 DEF Partial
<1>5. [b EXCEPT !.shown = Append(@, h), !.used = @ + Runes[h.of]] \in Partial
  BY <1>4 DEF Partial
<1> QED BY <1>3, <1>5, Zenon DEF AddPassage

LEMMA PromptChain ==
    ASSUME NEW hits \in Seq(Hit)
    PROVE  ChainTo(PromptLoop(hits), Len(hits), Partial, NothingShown, PassageStep(hits))
<1> DEFINE N == Len(hits)
           A == Partial
           base == NothingShown
           step == PassageStep(hits)
           Loops(f) == f = [t \in SUBSET DOMAIN hits |->
                              IF t = {} THEN base
                              ELSE AddPassage(f[t \ {Max(t)}], hits[Max(t)])]
           f == CHOOSE f : Loops(f)
           wide == [i \in 1..N |-> [b \in A \cup {f[t] : t \in Below(N)} |-> AddPassage(b, hits[i])]]
<1>1. N \in Nat /\ DOMAIN hits = 1..N /\ SUBSET DOMAIN hits = Below(N) /\ \A i \in 1..N : hits[i] \in Hit
  BY DEF Below
<1>2. base \in A
  BY DEF Partial, NothingShown
<1>3. step \in [1..N -> [A -> A]]
  BY <1>1, AddPassageType DEF PassageStep
<1>4. \A i \in 1..N : \A b \in A : step[i][b] = AddPassage(b, hits[i])
  BY Zenon DEF PassageStep
<1>5. \A t \in Below(N) : t # {} => Max(t) \in 1..N /\ t \ {Max(t)} \in Below(N)
  BY <1>1, MaxIs DEF Below
<1>6. \E h : Loops(h)
  <2> HIDE DEF N, A, base, step
  <2>1. PICK h \in [Below(N) -> A] : IsFold(h, N, base, step)
    BY <1>1, <1>2, <1>3, FoldExists DEF FoldFrom
  <2>2. \A t \in Below(N) : t # {} =>
           step[Max(t)][h[t \ {Max(t)}]] = AddPassage(h[t \ {Max(t)}], hits[Max(t)])
    BY <1>4, <1>5, <2>1, Zenon
  <2>3. Loops(h)
    BY <1>1, <2>1, <2>2, Zenon DEF IsFold
  <2> QED BY <2>3
<1>7. Loops(f)
  BY <1>6, Zenon
<1>8. PromptLoop(hits) = f[1..N]
  <2>1. PromptLoop(hits) = f[DOMAIN hits]
    BY Zenon DEF PromptLoop, FoldLeft, MapThenFoldSet
  <2> QED BY <1>1, <2>1
<1> HIDE DEF f
<1>9. \A t \in Below(N) : t # {} =>
         wide[Max(t)][f[t \ {Max(t)}]] = AddPassage(f[t \ {Max(t)}], hits[Max(t)])
  <2> HIDE DEF N, A
  <2> QED BY <1>5, Zenon
<1>10. \A i \in 1..N : \A b \in A : wide[i][b] = step[i][b]
  <2> HIDE DEF N, A, step
  <2>1. \A i \in 1..N : \A b \in A : wide[i][b] = AddPassage(b, hits[i])
    BY Zenon
  <2> QED BY <1>4, <2>1, Zenon
<1> HIDE DEF wide, N, A, base, step
<1>11. IsFold(f, N, base, wide)
  BY <1>1, <1>7, <1>9, Zenon DEF IsFold
<1>12. Widens(wide, N, A, step)
  BY <1>3, <1>10 DEF Widens
<1>13. ChainTo(f[1..N], N, A, base, step)
  BY <1>1, <1>2, <1>11, <1>12, FoldChain
<1> QED BY <1>8, <1>13 DEF N, A, base, step

\* What is shown after m hits: the first ones, as many as there is room for.
Packed(b, m, hits) ==
    /\ b \in Partial
    /\ Len(b.shown) <= m
    /\ \A i \in 1..Len(b.shown) : b.shown[i] = hits[i]
    /\ b.used = Total(hits, Len(b.shown))
    /\ ~b.full => Len(b.shown) = m
    /\ b.full => Len(b.shown) >= 1 /\ Len(b.shown) < m /\ Total(hits, Len(b.shown) + 1) > Budget
    /\ \A n \in 1..Len(b.shown) : n = 1 \/ Total(hits, n) <= Budget

\* Once past the budget nothing more is shown.
LEMMA FullStaysPacked ==
    ASSUME NEW hits, NEW m \in Nat, NEW b, Packed(b, m, hits),
           NEW c \in Partial, c.shown = b.shown, c.used = b.used, c.full,
           Len(b.shown) >= 1, Len(b.shown) < m + 1, Len(b.shown) \in Nat,
           Total(hits, Len(b.shown) + 1) > Budget
    PROVE  Packed(c, m + 1, hits)
BY DEF Packed

LEMMA PackedStep ==
    ASSUME NEW hits \in Seq(Hit), NEW m \in Nat, m < Len(hits), NEW b, Packed(b, m, hits)
    PROVE  Packed(AddPassage(b, hits[m + 1]), m + 1, hits)
<1> DEFINE h == hits[m + 1]
           k == Len(b.shown)
           full == [b EXCEPT !.full = TRUE]
           more == [b EXCEPT !.shown = Append(@, h), !.used = @ + Runes[h.of]]
<1>1. h \in Hit /\ AddPassage(b, h) \in Partial /\ b \in Partial
  BY AddPassageType DEF Packed
<1>2. b.shown \in Seq(Hit) /\ k \in Nat /\ b.full \in BOOLEAN /\ k <= m
  BY <1>1 DEF Partial, Packed
<1>3. full.shown = b.shown /\ full.used = b.used /\ full.full
  BY <1>1 DEF Partial
<1>4. /\ more.shown = Append(b.shown, h) /\ more.used = b.used + Runes[h.of]
      /\ more.full = b.full
  BY <1>1 DEF Partial
<1>5. \A n \in 0..m : Total(hits, n) \in Int /\ Total(hits, n + 1) \in Int
  BY TotalStep
<1>6. Budget \in Nat
  BY AskingAssumption DEF AskingAssumption
<1>7. CASE b.full
  <2>1. AddPassage(b, h) = full
    BY <1>7 DEF AddPassage
  <2>2. k >= 1 /\ k < m /\ Total(hits, k + 1) > Budget
    BY <1>7 DEF Packed
  <2>3. k < m + 1
    BY <1>2, <2>2
  <2>4. full \in Partial
    BY <1>1, <2>1
  <2> HIDE DEF full
  <2>5. Packed(full, m + 1, hits)
    BY <1>2, <1>3, <2>2, <2>3, <2>4, FullStaysPacked
  <2> QED BY <2>1, <2>5
<1>8. CASE ~b.full
  <2>1. k = m /\ b.used = Total(hits, m)
    BY <1>8 DEF Packed
  <2>2. Total(hits, m + 1) = b.used + Runes[h.of] /\ Runes[h.of] \in Nat /\ b.used \in Int
    BY <2>1, TotalStep
  <2>3. CASE b.shown # <<>> /\ b.used + Runes[h.of] > Budget
    <3>1. AddPassage(b, h) = full
      BY <2>3 DEF AddPassage
    <3>2. k >= 1
      BY <1>2, <2>3
    <3>3. Total(hits, k + 1) > Budget
      BY <2>1, <2>2, <2>3
    <3>4. full \in Partial /\ k < m + 1
      BY <1>1, <2>1, <3>1
    <3> HIDE DEF full
    <3>5. Packed(full, m + 1, hits)
      BY <1>2, <1>3, <3>2, <3>3, <3>4, FullStaysPacked
    <3> QED BY <3>1, <3>5
  <2>4. CASE ~(b.shown # <<>> /\ b.used + Runes[h.of] > Budget)
    <3>1. AddPassage(b, h) = more
      BY <1>8, <2>4 DEF AddPassage
    <3>2. more \in Partial
      BY <1>1, <3>1
    <3>3. Len(more.shown) = m + 1
      BY <1>1, <1>2, <1>4, <2>1
    <3>4. \A i \in 1..Len(more.shown) : more.shown[i] = hits[i]
      <4>1. \A i \in 1..k : more.shown[i] = hits[i]
        BY <1>1, <1>2, <1>4 DEF Packed
      <4>2. more.shown[k + 1] = hits[m + 1]
        BY <1>1, <1>2, <1>4, <2>1
      <4> HIDE DEF more
      <4> QED BY <1>2, <2>1, <3>3, <4>1, <4>2
    <3>5. m + 1 = 1 \/ Total(hits, m + 1) <= Budget
      <4>1. k = 0 => m + 1 = 1
        BY <2>1
      <4>2. k # 0 => b.shown # <<>>
        BY <1>2
      <4>3. k # 0 => ~(b.used + Runes[h.of] > Budget)
        BY <2>4, <4>2
      <4> HIDE DEF h, k
      <4> QED BY <1>6, <2>2, <4>1, <4>3
    <3>6. \A n \in 1..Len(more.shown) : n = 1 \/ Total(hits, n) <= Budget
      <4>1. \A n \in 1..k : n = 1 \/ Total(hits, n) <= Budget
        BY DEF Packed
      <4> HIDE DEF more
      <4> QED BY <1>2, <2>1, <3>3, <3>5, <4>1
    <3>7. more.used = Total(hits, Len(more.shown)) /\ ~more.full /\ Len(more.shown) <= m + 1
      BY <1>4, <1>8, <2>2, <3>3
    <3> HIDE DEF more
    <3>8. Packed(more, m + 1, hits)
      BY <3>2, <3>3, <3>4, <3>6, <3>7 DEF Packed
    <3> QED BY <3>1, <3>8
  <2> QED BY <2>3, <2>4
<1> QED BY <1>2, <1>7, <1>8

LEMMA LoopPacks ==
    ASSUME NEW hits \in Seq(Hit)
    PROVE  Packed(PromptLoop(hits), Len(hits), hits)
<1> DEFINE N == Len(hits)
           step == PassageStep(hits)
<1>1. PICK g \in [0..N -> Partial] : IsChain(g, N, NothingShown, step) /\ g[N] = PromptLoop(hits)
  BY PromptChain DEF ChainTo
<1>2. N \in Nat
  OBVIOUS
<1> DEFINE T == {m \in Nat : m <= N => Packed(g[m], m, hits)}
<1>3. 0 \in T
  <2>1. g[0] = NothingShown /\ NothingShown \in Partial
    BY <1>1 DEF IsChain, Partial, NothingShown
  <2>2. NothingShown.shown = <<>> /\ NothingShown.used = 0 /\ ~NothingShown.full
    BY DEF NothingShown
  <2>3. Len(NothingShown.shown) = 0
    BY <2>2
  <2>4. Packed(NothingShown, 0, hits)
    BY <2>1, <2>2, <2>3, TotalOfNone DEF Packed
  <2> QED BY <2>1, <2>4
<1>4. ASSUME NEW m \in Nat, m \in T PROVE m + 1 \in T
  <2> SUFFICES ASSUME m + 1 <= N PROVE Packed(g[m + 1], m + 1, hits)
    OBVIOUS
  <2>1. m + 1 \in 1..N /\ m \in 0..N /\ (m + 1) - 1 = m /\ m < Len(hits)
    BY <1>2
  <2>2. g[m] \in Partial /\ Packed(g[m], m, hits)
    BY <1>4, <2>1
  <2>3. g[m + 1] = step[m + 1][g[m]]
    <3> HIDE DEF step, N
    <3> QED BY <1>1, <2>1 DEF IsChain
  <2>4. step[m + 1][g[m]] = AddPassage(g[m], hits[m + 1])
    BY <2>1, <2>2, Zenon DEF PassageStep
  <2>5. Packed(AddPassage(g[m], hits[m + 1]), m + 1, hits)
    BY <2>1, <2>2, PackedStep
  <2> QED BY <2>3, <2>4, <2>5
<1>5. N \in T
  <2> HIDE DEF T, N
  <2> QED BY <1>2, <1>3, <1>4, SetInduction
<1> QED BY <1>1, <1>5

\* The prompt shows the first hits, as many as the budget has room for and at
\* least one.
LEMMA PromptShows ==
    ASSUME NEW hits \in Seq(Hit), NEW question
    PROVE  LET p == BuildUserPrompt(question, hits) IN
           /\ p.question = question
           /\ p.shown \in Seq(Hit)
           /\ IsPrefix(p.shown, hits)
           /\ \A n \in 1..Len(hits) :
                 n <= Len(p.shown) <=> n = 1 \/ Total(hits, n) <= Budget
<1> DEFINE b == PromptLoop(hits)
           p == BuildUserPrompt(question, hits)
<1>1. p.question = question /\ p.shown = b.shown
  BY DEF BuildUserPrompt, PromptLoop, NothingShown
<1>2. Packed(b, Len(hits), hits) /\ b \in Partial
  BY LoopPacks DEF Packed
<1> HIDE DEF b, p
<1>3. b.shown \in Seq(Hit) /\ Len(b.shown) \in Nat /\ Len(hits) \in Nat /\ b.full \in BOOLEAN
  BY <1>2 DEF Partial
<1>4. Len(b.shown) <= Len(hits) /\ \A i \in 1..Len(b.shown) : b.shown[i] = hits[i]
  BY <1>2 DEF Packed
<1>5. IsPrefix(b.shown, hits)
  BY <1>3, <1>4 DEF IsPrefix
<1>6. ASSUME NEW n \in 1..Len(hits)
      PROVE  n <= Len(b.shown) <=> n = 1 \/ Total(hits, n) <= Budget
  <2>1. n \in Nat /\ n >= 1
    OBVIOUS
  <2>2. CASE n <= Len(b.shown)
    BY <1>2, <1>3, <2>1, <2>2 DEF Packed
  <2>3. CASE n > Len(b.shown)
    <3>1. b.full
      BY <1>2, <1>3, <2>3 DEF Packed
    <3>2. Len(b.shown) >= 1 /\ Total(hits, Len(b.shown) + 1) > Budget
      BY <1>2, <3>1 DEF Packed
    <3>3. /\ Total(hits, Len(b.shown) + 1) \in Int /\ Total(hits, n) \in Int
          /\ Total(hits, Len(b.shown) + 1) <= Total(hits, n)
      BY <1>3, <2>1, <2>3, TotalGrows
    <3>4. Budget \in Nat
      BY AskingAssumption DEF AskingAssumption
    <3> QED BY <1>3, <2>3, <3>2, <3>3, <3>4
  <2> QED BY <1>3, <2>1, <2>2, <2>3
<1> QED BY <1>1, <1>3, <1>5, <1>6 DEF p

-----------------------------------------------------------------------------
(***************************************************************************)
(* The sources.                                                            *)
(***************************************************************************)
NoteStep(hits) == [i \in 1..Len(hits) |-> [out \in Seq(Files) |-> AddNote(out, hits[i])]]

LEMMA AddNoteType ==
    ASSUME NEW out \in Seq(Files), NEW h \in Hit
    PROVE  AddNote(out, h) \in Seq(Files)
BY DEF AddNote, Hit

LEMMA SourcesChain ==
    ASSUME NEW hits \in Seq(Hit)
    PROVE  ChainTo(Sources(hits), Len(hits), Seq(Files), <<>>, NoteStep(hits))
<1> DEFINE N == Len(hits)
           A == Seq(Files)
           base == <<>>
           step == NoteStep(hits)
           Loops(f) == f = [t \in SUBSET DOMAIN hits |->
                              IF t = {} THEN base
                              ELSE AddNote(f[t \ {Max(t)}], hits[Max(t)])]
           f == CHOOSE f : Loops(f)
           wide == [i \in 1..N |-> [a \in A \cup {f[t] : t \in Below(N)} |-> AddNote(a, hits[i])]]
<1>1. N \in Nat /\ DOMAIN hits = 1..N /\ SUBSET DOMAIN hits = Below(N) /\ \A i \in 1..N : hits[i] \in Hit
  BY DEF Below
<1>2. base \in A
  OBVIOUS
<1>3. step \in [1..N -> [A -> A]]
  BY <1>1, AddNoteType DEF NoteStep
<1>4. \A i \in 1..N : \A a \in A : step[i][a] = AddNote(a, hits[i])
  BY Zenon DEF NoteStep
<1>5. \A t \in Below(N) : t # {} => Max(t) \in 1..N /\ t \ {Max(t)} \in Below(N)
  BY <1>1, MaxIs DEF Below
<1>6. \E h : Loops(h)
  <2> HIDE DEF N, A, base, step
  <2>1. PICK h \in [Below(N) -> A] : IsFold(h, N, base, step)
    BY <1>1, <1>2, <1>3, FoldExists DEF FoldFrom
  <2>2. \A t \in Below(N) : t # {} =>
           step[Max(t)][h[t \ {Max(t)}]] = AddNote(h[t \ {Max(t)}], hits[Max(t)])
    BY <1>4, <1>5, <2>1, Zenon
  <2>3. Loops(h)
    BY <1>1, <2>1, <2>2, Zenon DEF IsFold
  <2> QED BY <2>3
<1>7. Loops(f)
  BY <1>6, Zenon
<1>8. Sources(hits) = f[1..N]
  <2>1. Sources(hits) = f[DOMAIN hits]
    BY Zenon DEF Sources, FoldLeft, MapThenFoldSet
  <2> QED BY <1>1, <2>1
<1> HIDE DEF f
<1>9. \A t \in Below(N) : t # {} =>
         wide[Max(t)][f[t \ {Max(t)}]] = AddNote(f[t \ {Max(t)}], hits[Max(t)])
  <2> HIDE DEF N, A
  <2> QED BY <1>5, Zenon
<1>10. \A i \in 1..N : \A a \in A : wide[i][a] = step[i][a]
  <2> HIDE DEF N, A, step
  <2>1. \A i \in 1..N : \A a \in A : wide[i][a] = AddNote(a, hits[i])
    BY Zenon
  <2> QED BY <1>4, <2>1, Zenon
<1> HIDE DEF wide, N, A, base, step
<1>11. IsFold(f, N, base, wide)
  BY <1>1, <1>7, <1>9, Zenon DEF IsFold
<1>12. Widens(wide, N, A, step)
  BY <1>3, <1>10 DEF Widens
<1>13. ChainTo(f[1..N], N, A, base, step)
  BY <1>1, <1>2, <1>11, <1>12, FoldChain
<1> QED BY <1>8, <1>13 DEF N, A, base, step

\* Note k of out is first met at hit at[k].
FirstMet(note, i, hits) ==
    hits[i].note = note /\ \A j \in 1..(i - 1) : hits[j].note # note

\* The notes of the first m hits, in the order they are first met.
InOrder(out, at, m, hits) ==
    /\ out \in Seq(Files)
    /\ at \in [1..Len(out) -> 1..m]
    /\ \A k \in 1..Len(out) : FirstMet(out[k], at[k], hits)
    /\ \A k, l \in 1..Len(out) : k < l => at[k] < at[l]
    /\ \A i \in 1..m : hits[i].note \in Range(out)

LEMMA InOrderStep ==
    ASSUME NEW hits \in Seq(Hit), NEW m \in Nat, m < Len(hits),
           NEW out, NEW at, InOrder(out, at, m, hits)
    PROVE  \E to : InOrder(AddNote(out, hits[m + 1]), to, m + 1, hits)
<1> DEFINE note == hits[m + 1].note
           n == Len(out)
<1>1. out \in Seq(Files) /\ n \in Nat /\ DOMAIN out = 1..n
  BY DEF InOrder
<1>2. note \in Files
  <2>1. hits[m + 1] \in Hit
    OBVIOUS
  <2> QED BY <2>1 DEF Hit
<1>3. /\ at \in [1..n -> 1..m]
      /\ \A k \in 1..n : FirstMet(out[k], at[k], hits)
      /\ \A k, l \in 1..n : k < l => at[k] < at[l]
      /\ \A i \in 1..m : hits[i].note \in Range(out)
  BY DEF InOrder
<1>4. CASE note \in Range(out)
  <2>1. AddNote(out, hits[m + 1]) = out
    BY <1>4 DEF AddNote
  <2>2. at \in [1..n -> 1..(m + 1)]
    BY <1>3
  <2>3. \A i \in 1..(m + 1) : hits[i].note \in Range(out)
    <3>1. \A i \in 1..(m + 1) : i \in 1..m \/ i = m + 1
      OBVIOUS
    <3> QED BY <1>3, <1>4, <3>1
  <2>4. InOrder(out, at, m + 1, hits)
    BY <1>1, <1>3, <2>2, <2>3 DEF InOrder
  <2> QED BY <2>1, <2>4
<1>5. CASE note \notin Range(out)
  <2> DEFINE longer == Append(out, note)
             to == [k \in 1..(n + 1) |-> IF k = n + 1 THEN m + 1 ELSE at[k]]
  <2>1. AddNote(out, hits[m + 1]) = longer
    BY <1>5 DEF AddNote
  <2>2. /\ longer \in Seq(Files) /\ Len(longer) = n + 1 /\ longer[n + 1] = note
        /\ \A k \in 1..n : longer[k] = out[k]
        /\ DOMAIN longer = 1..(n + 1)
    BY <1>1, <1>2
  <2>3. to[n + 1] = m + 1 /\ \A k \in 1..n : to[k] = at[k] /\ at[k] \in 1..m
    BY <1>1, <1>3
  <2>4. to \in [1..(n + 1) -> 1..(m + 1)]
    <3>1. ASSUME NEW k \in 1..(n + 1), k # n + 1 PROVE at[k] \in 1..(m + 1)
      <4>1. k \in 1..n
        BY <1>1, <3>1
      <4> QED BY <1>3, <4>1
    <3>2. m + 1 \in 1..(m + 1)
      OBVIOUS
    <3> QED BY <3>1, <3>2
  <2> HIDE DEF to, longer, n
  <2>5. \A k \in 1..(n + 1) : k \in 1..n \/ k = n + 1
    BY <1>1
  <2>6. FirstMet(note, m + 1, hits)
    <3>1. \A j \in 1..m : hits[j].note # note
      BY <1>3, <1>5
    <3>2. (m + 1) - 1 = m
      OBVIOUS
    <3> QED BY <3>1, <3>2 DEF FirstMet
  <2>7. \A k \in 1..(n + 1) : FirstMet(longer[k], to[k], hits)
    BY <1>3, <2>2, <2>3, <2>5, <2>6
  <2>8. ASSUME NEW k \in 1..(n + 1), NEW l \in 1..(n + 1), k < l PROVE to[k] < to[l]
    <3>1. k \in 1..n
      BY <1>1, <2>8
    <3>2. CASE l \in 1..n
      BY <1>3, <2>3, <2>8, <3>1, <3>2
    <3>3. CASE l = n + 1
      BY <2>3, <3>1, <3>3
    <3> QED BY <2>5, <3>2, <3>3
  <2>9. ASSUME NEW i \in 1..(m + 1) PROVE hits[i].note \in Range(longer)
    <3>1. n + 1 \in DOMAIN longer
      BY <1>1, <2>2
    <3>2. CASE i = m + 1
      BY <2>2, <3>1, <3>2 DEF Range
    <3>3. CASE i \in 1..m
      <4>1. PICK k \in DOMAIN out : out[k] = hits[i].note
        BY <1>3, <3>3 DEF Range
      <4>2. k \in DOMAIN longer /\ longer[k] = hits[i].note
        BY <1>1, <2>2, <4>1
      <4> QED BY <4>2 DEF Range
    <3> QED BY <3>2, <3>3
  <2>10. InOrder(longer, to, m + 1, hits)
    BY <2>2, <2>4, <2>7, <2>8, <2>9 DEF InOrder
  <2> QED BY <2>1, <2>10
<1> QED BY <1>4, <1>5

LEMMA SourcesInOrder ==
    ASSUME NEW hits \in Seq(Hit)
    PROVE  \E at : InOrder(Sources(hits), at, Len(hits), hits)
<1> DEFINE N == Len(hits)
           step == NoteStep(hits)
           OK(out, m) == \E at : InOrder(out, at, m, hits)
<1>1. PICK g \in [0..N -> Seq(Files)] : IsChain(g, N, <<>>, step) /\ g[N] = Sources(hits)
  BY SourcesChain DEF ChainTo
<1>2. N \in Nat
  OBVIOUS
<1> DEFINE T == {m \in Nat : m <= N => OK(g[m], m)}
<1>3. 0 \in T
  <2>1. g[0] = <<>>
    BY <1>1 DEF IsChain
  <2>2. InOrder(<<>>, [k \in 1..0 |-> k], 0, hits)
    <3>1. Len(<<>>) = 0 /\ 1..0 = {} /\ <<>> \in Seq(Files)
      OBVIOUS
    <3>2. [k \in 1..0 |-> k] \in [1..0 -> 1..0]
      OBVIOUS
    <3> QED BY <3>1, <3>2 DEF InOrder
  <2> QED BY <2>1, <2>2
<1>4. ASSUME NEW m \in Nat, m \in T PROVE m + 1 \in T
  <2> SUFFICES ASSUME m + 1 <= N PROVE OK(g[m + 1], m + 1)
    OBVIOUS
  <2>1. m + 1 \in 1..N /\ m \in 0..N /\ (m + 1) - 1 = m /\ m < Len(hits)
    BY <1>2
  <2>2. g[m] \in Seq(Files) /\ OK(g[m], m)
    BY <1>4, <2>1
  <2>3. g[m + 1] = step[m + 1][g[m]]
    <3> HIDE DEF step, N
    <3> QED BY <1>1, <2>1 DEF IsChain
  <2>4. step[m + 1][g[m]] = AddNote(g[m], hits[m + 1])
    BY <2>1, <2>2, Zenon DEF NoteStep
  <2>5. OK(AddNote(g[m], hits[m + 1]), m + 1)
    BY <2>1, <2>2, InOrderStep
  <2> QED BY <2>3, <2>4, <2>5
<1>5. N \in T
  <2> HIDE DEF T, N
  <2> QED BY <1>2, <1>3, <1>4, SetInduction
<1> QED BY <1>1, <1>5

\* Each note once, in the order it is first met, and no other.
LEMMA SourcesAre ==
    ASSUME NEW hits \in Seq(Hit)
    PROVE  LET sources == Sources(hits)
               first(note) == CHOOSE i \in DOMAIN hits :
                   hits[i].note = note /\ \A j \in 1..(i - 1) : hits[j].note # note
           IN  /\ sources \in Seq(Files)
               /\ {sources[i] : i \in DOMAIN sources} = {hits[i].note : i \in DOMAIN hits}
               /\ \A i, j \in DOMAIN sources : i < j => first(sources[i]) < first(sources[j])
<1> DEFINE sources == Sources(hits)
           N == Len(hits)
           first(note) == CHOOSE i \in DOMAIN hits :
                   hits[i].note = note /\ \A j \in 1..(i - 1) : hits[j].note # note
<1>1. PICK at : InOrder(sources, at, N, hits)
  BY SourcesInOrder
<1>2. N \in Nat /\ DOMAIN hits = 1..N
  OBVIOUS
<1> HIDE DEF sources, N
<1>3. /\ sources \in Seq(Files) /\ DOMAIN sources = 1..Len(sources)
      /\ \A k \in DOMAIN sources : at[k] \in 1..N /\ FirstMet(sources[k], at[k], hits)
      /\ \A k, l \in DOMAIN sources : k < l => at[k] < at[l]
      /\ \A i \in 1..N : hits[i].note \in Range(sources)
  BY <1>1 DEF InOrder
<1>4. {sources[i] : i \in DOMAIN sources} = {hits[i].note : i \in DOMAIN hits}
  <2>1. ASSUME NEW k \in DOMAIN sources PROVE \E i \in DOMAIN hits : sources[k] = hits[i].note
    BY <1>2, <1>3 DEF FirstMet
  <2>2. ASSUME NEW i \in DOMAIN hits PROVE \E k \in DOMAIN sources : sources[k] = hits[i].note
    BY <1>2, <1>3 DEF Range
  <2> QED BY <2>1, <2>2
<1>5. ASSUME NEW k \in DOMAIN sources PROVE first(sources[k]) = at[k]
  <2> DEFINE i == first(sources[k])
  <2>1. at[k] \in DOMAIN hits /\ FirstMet(sources[k], at[k], hits)
    BY <1>2, <1>3
  <2>2. i \in DOMAIN hits /\ FirstMet(sources[k], i, hits)
    BY <2>1, Zenon DEF FirstMet
  <2> HIDE DEF i
  <2>3. ~(i < at[k]) /\ ~(at[k] < i)
    BY <1>2, <2>1, <2>2 DEF FirstMet
  <2>4. i = at[k]
    BY <1>2, <2>1, <2>2, <2>3
  <2> QED BY <2>4 DEF i
<1>6. \A i, j \in DOMAIN sources : i < j => first(sources[i]) < first(sources[j])
  <2> HIDE DEF first
  <2> QED BY <1>3, <1>5
<1> QED BY <1>3, <1>4, <1>6 DEF sources

-----------------------------------------------------------------------------
(***************************************************************************)
(* The answers.                                                            *)
(***************************************************************************)
AskRecord == [pc: PCs, op: {"search", "ask"}, k: Int,
              hits: Seq(Hit), sources: Seq(Files)]

\* A caller's call a and its request g to the generator.
Answering(a, g, question) ==
    /\ a.pc = "generate" => g.texts = <<BuildUserPrompt(question, a.hits)>>
    /\ a.op = "ask" /\ a.pc = "done" =>
          /\ g.texts = <<BuildUserPrompt(question, a.hits)>>
          /\ g.pc = "done"
          /\ a.sources = Sources(a.hits)

AnswersOK == \A c \in Callers : Answering(ask[c], gen[c], QuestionOf[c])

AnswerInv ==
    /\ Generation!IInv
    /\ ask \in [Callers -> AskRecord]
    /\ writes \in 0..MaxWrites
    /\ AnswersOK

LEMMA GeneratorStays ==
    ASSUME Generation!IInv, UNCHANGED generation
    PROVE  Generation!IInv'
BY ConnectorAssumed, Generation!NextIInv
   DEF Generation!vars, generation, Generation!ConnectorAssumption

LEMMA GeneratorStepOK ==
    ASSUME Generation!IInv, NEW c \in Callers, Generator!Step(c)
    PROVE  /\ Generation!IInv'
           /\ Generation!Continues(gen[c], gen'[c])
           /\ \A d \in Callers \ {c} : gen'[d] = gen[d]
<1>1. Generation!Step(c)
  BY GeneratorSteps
<1>2. Generation!IInv'
  BY <1>1, ConnectorAssumed, Generation!NextIInv
     DEF Generation!Next, Generation!ConnectorAssumption
<1>3. Generation!CallsShaped
  BY ConnectorAssumed, Generation!IInvShaped DEF Generation!ConnectorAssumption
<1>4. /\ \A d \in Callers : Generation!Continues(gen[d], gen'[d])
      /\ \A d \in Callers \ {c} : gen'[d] = gen[d]
  BY <1>1, <1>3, ConnectorAssumed, Generation!StepContinues DEF Generation!ConnectorAssumption
<1> QED BY <1>2, <1>4

\* Nothing of any answer changes.
LEMMA AnswersStay ==
    ASSUME AnswerInv, UNCHANGED <<generation, ask>>, writes' \in 0..MaxWrites
    PROVE  AnswerInv'
<1>1. UNCHANGED gen
  BY DEF generation
<1>2. AnswersOK'
  BY <1>1 DEF AnswerInv, AnswersOK, Answering
<1> QED BY <1>2, GeneratorStays DEF AnswerInv

LEMMA AnswerMoves ==
    ASSUME AnswerInv, NEW c \in Callers, NEW a \in AskRecord, ask' = [ask EXCEPT ![c] = a],
           Answering(a, gen'[c], QuestionOf[c]), Generation!IInv', UNCHANGED writes,
           \A d \in Callers \ {c} : gen'[d] = gen[d]
    PROVE  AnswerInv'
<1>1. ask \in [Callers -> AskRecord] /\ writes \in 0..MaxWrites
      /\ \A d \in Callers : Answering(ask[d], gen[d], QuestionOf[d])
  BY DEF AnswerInv, AnswersOK
<1>2. ask' \in [Callers -> AskRecord] /\ ask'[c] = a /\ \A d \in Callers \ {c} : ask'[d] = ask[d]
  BY <1>1
<1>3. ASSUME NEW d \in Callers PROVE Answering(ask'[d], gen'[d], QuestionOf[d])
  <2>1. CASE d = c
    BY <1>2, <2>1
  <2>2. CASE d # c
    BY <1>1, <1>2, <2>2
  <2> QED BY <2>1, <2>2
<1> QED BY <1>1, <1>2, <1>3 DEF AnswerInv, AnswersOK

LEMMA OneAsk ==
    ASSUME AnswerInv, NEW c \in Callers
    PROVE  /\ ask[c] \in AskRecord /\ DOMAIN ask = Callers
           /\ Answering(ask[c], gen[c], QuestionOf[c])
BY DEF AnswerInv, AnswersOK

\* A caller goes on or fails, with nothing asked of the generator.
LEMMA GotoAnswers ==
    ASSUME AnswerInv, NEW c \in Callers, NEW pc, Goto(c, pc), pc \in {"search", "error"},
           UNCHANGED <<generation, writes>>
    PROVE  AnswerInv'
<1> DEFINE a == ask[c]
           b == [a EXCEPT !.pc = pc]
<1>1. a \in AskRecord /\ ask' = [ask EXCEPT ![c] = b]
  BY OneAsk DEF Goto
<1>2. pc \in PCs
  BY DEF PCs, Over
<1>3. b \in AskRecord /\ b.pc = pc
  <2> HIDE DEF a
  <2> QED BY <1>1, <1>2 DEF AskRecord
<1>4. Answering(b, gen'[c], QuestionOf[c])
  BY <1>3 DEF Answering
<1> HIDE DEF b
<1> QED BY <1>1, <1>3, <1>4, GeneratorStays, AnswerMoves DEF AnswerInv, generation

LEMMA StartAnswers ==
    ASSUME AnswerInv, NEW c \in Callers, StartCall(c)
    PROVE  AnswerInv'
<1> DEFINE a == ask[c]
<1>1. a \in AskRecord /\ UNCHANGED <<generation, writes>> /\ Generation!IInv'
  BY OneAsk, GeneratorStays DEF StartCall, AnswerInv
<1>2. CASE ask' = [ask EXCEPT ![c].pc = "error", ![c].op = "ask"]
  <2> DEFINE b == [a EXCEPT !.pc = "error", !.op = "ask"]
  <2>1. ask' = [ask EXCEPT ![c] = b]
    BY <1>2, OneAsk
  <2>2. "error" \in PCs
    BY DEF PCs, Over
  <2>3. b \in AskRecord /\ b.pc = "error"
    <3> HIDE DEF a
    <3> QED BY <1>1, <2>2 DEF AskRecord
  <2>4. Answering(b, gen'[c], QuestionOf[c])
    BY <2>3 DEF Answering
  <2> HIDE DEF b
  <2> QED BY <1>1, <2>1, <2>3, <2>4, AnswerMoves DEF generation
<1>3. ASSUME NEW op \in {"search", "ask"}, NEW k \in KsOf[c],
             ask' = [ask EXCEPT ![c].pc = "embed", ![c].op = op, ![c].k = k]
      PROVE  AnswerInv'
  <2> DEFINE b == [a EXCEPT !.pc = "embed", !.op = op, !.k = k]
  <2>1. ask' = [ask EXCEPT ![c] = b]
    BY <1>3, OneAsk
  <2>2. "embed" \in PCs /\ k \in Int
    BY AskingAssumption DEF PCs, AskingAssumption
  <2>3. b \in AskRecord /\ b.pc = "embed"
    <3> HIDE DEF a
    <3> QED BY <1>1, <2>2 DEF AskRecord
  <2>4. Answering(b, gen'[c], QuestionOf[c])
    BY <2>3 DEF Answering
  <2> HIDE DEF b
  <2> QED BY <1>1, <2>1, <2>3, <2>4, AnswerMoves DEF generation
<1> QED BY <1>2, <1>3 DEF StartCall

LEMMA PassagesAreHits ==
    ASSUME IndexOK
    PROVE  Index!Passages \subseteq Hit
<1> SUFFICES ASSUME NEW f \in Files, stored[f] # None, NEW h \in Index!PassagesOf(f, stored[f])
             PROVE  h \in Hit
  BY DEF Index!Passages
<1> DEFINE chunks == Cut[stored[f]]
<1>1. chunks \in Seq(Texts)
  <2>1. stored[f] \in Contents
    BY DEF IndexOK
  <2> QED BY <2>1, AskingAssumption DEF AskingAssumption
<1>2. PICK i \in 1..Len(chunks) : h = [note |-> f, index |-> i - 1, of |-> chunks[i]]
  BY <1>1 DEF Index!PassagesOf
<1>3. chunks[i] \in Texts /\ i - 1 \in Nat
  BY <1>1
<1> QED BY <1>2, <1>3 DEF Hit

\* A search returns hits, and no more than it is entitled to.
LEMMA NearestAreHits ==
    ASSUME AskInv, NEW c \in Callers,
           NEW hits \in Nearest(TopK(c), found[Space], call[c].out[1])
    PROVE  hits \in Seq(Hit)
<1> DEFINE rows == found[Space]
           n == TopK(c)
           len == IF Cardinality(rows) < n THEN Cardinality(rows) ELSE n
<1>1. hits \in [1..len -> rows]
  BY DEF Nearest
<1>2. rows \subseteq Index!Passages /\ IsFiniteSet(rows)
  <2>1. rows \subseteq Index!Passages
    BY AskingAssumption DEF AskInv, IndexOK, AskingAssumption
  <2> QED BY <2>1, PassagesFinite, FS_Subset DEF AskInv
<1>3. rows \subseteq Hit
  BY <1>2, PassagesAreHits DEF AskInv
<1>4. Cardinality(rows) \in Nat
  BY <1>2, FS_CardinalityType
<1>5. n \in Nat
  BY EnoughHits
<1>6. len \in Nat
  BY <1>4, <1>5
<1> HIDE DEF len, rows, n
<1> QED BY <1>1, <1>3, <1>6

LEMMA PromptType ==
    ASSUME NEW hits \in Seq(Hit), NEW question \in Questions
    PROVE  BuildUserPrompt(question, hits) \in Prompt
<1> DEFINE p == BuildUserPrompt(question, hits)
<1>1. p.question = question /\ p.shown \in Seq(Hit)
  BY PromptShows
<1>2. p = [question |-> p.question, shown |-> p.shown]
  BY DEF BuildUserPrompt
<1> HIDE DEF p
<1>3. p \in Prompt
  BY <1>1, <1>2 DEF Prompt
<1> QED BY <1>3 DEF p

LEMMA FindAnswers ==
    ASSUME AskInv, AnswerInv, NEW c \in Callers, Find(c)
    PROVE  AnswerInv'
<1> DEFINE a == ask[c]
           g == gen[c]
<1>1. PICK hits \in Nearest(TopK(c), found[Space], call[c].out[1]) :
        \/ /\ a.op = "search"
           /\ ask' = [ask EXCEPT ![c].pc = "done", ![c].hits = hits]
           /\ UNCHANGED generation
        \/ /\ ask' = [ask EXCEPT ![c].pc = "generate", ![c].hits = hits]
           /\ Generator!Request(c, <<BuildUserPrompt(QuestionOf[c], hits)>>)
  BY DEF Find
<1>2. a \in AskRecord /\ DOMAIN ask = Callers /\ UNCHANGED writes
  BY OneAsk DEF Find
<1>3. hits \in Seq(Hit)
  BY NearestAreHits
<1>4. ASSUME NEW pc \in {"done", "generate"}, NEW b, b = [a EXCEPT !.pc = pc, !.hits = hits]
      PROVE  b \in AskRecord /\ b.pc = pc /\ b.hits = hits /\ b.op = a.op
  <2>1. pc \in PCs
    BY DEF PCs, Over
  <2> HIDE DEF a
  <2> QED BY <1>2, <1>3, <1>4, <2>1 DEF AskRecord
<1>5. CASE /\ a.op = "search"
           /\ ask' = [ask EXCEPT ![c].pc = "done", ![c].hits = hits]
           /\ UNCHANGED generation
  <2> DEFINE b == [a EXCEPT !.pc = "done", !.hits = hits]
  <2>1. ask' = [ask EXCEPT ![c] = b]
    BY <1>2, <1>5
  <2>2. b \in AskRecord /\ b.pc = "done" /\ b.op = "search"
    BY <1>4, <1>5
  <2>3. Answering(b, gen'[c], QuestionOf[c])
    BY <2>2 DEF Answering
  <2> HIDE DEF b
  <2> QED BY <1>2, <1>5, <2>1, <2>2, <2>3, GeneratorStays, AnswerMoves DEF AnswerInv, generation
<1>6. CASE /\ ask' = [ask EXCEPT ![c].pc = "generate", ![c].hits = hits]
           /\ Generator!Request(c, <<BuildUserPrompt(QuestionOf[c], hits)>>)
  <2> DEFINE prompt == BuildUserPrompt(QuestionOf[c], hits)
             b == [a EXCEPT !.pc = "generate", !.hits = hits]
             h == [g EXCEPT !.pc = "wait", !.texts = <<prompt>>]
  <2>1. ask' = [ask EXCEPT ![c] = b]
    BY <1>2, <1>6
  <2>2. b \in AskRecord /\ b.pc = "generate" /\ b.hits = hits
    BY <1>4
  <2>3. QuestionOf[c] \in Questions
    BY AskingAssumption DEF AskingAssumption
  <2>4. prompt \in Prompt
    BY <1>3, <2>3, PromptType
  <2>5. <<prompt>> \in Seq(Prompt) /\ <<prompt>> # <<>>
    <3> HIDE DEF prompt
    <3> QED BY <2>4
  <2>6. Generation!Request(c, <<prompt>>)
    BY <1>6, GeneratorSteps
  <2>7. Generation!IInv'
    <3> HIDE DEF prompt
    <3> QED BY <2>5, <2>6, ConnectorAssumed, Generation!BatchedIInv
            DEF AnswerInv, Generation!ConnectorAssumption
  <2>8. Generation!Shaped(g) /\ DOMAIN gen = Callers
    BY Shapes
  <2>9. gen' = [gen EXCEPT ![c] = h]
    <3> HIDE DEF prompt
    <3> QED BY <1>6, <2>5, <2>8 DEF Generator!Request, prompt
  <2>10. gen'[c].texts = <<prompt>> /\ \A d \in Callers \ {c} : gen'[d] = gen[d]
    <3>1. h.texts = <<prompt>>
      <4> HIDE DEF g, prompt
      <4> QED BY <2>8 DEF Generation!Shaped
    <3> HIDE DEF h, prompt
    <3> QED BY <2>8, <2>9, <3>1
  <2>11. Answering(b, gen'[c], QuestionOf[c])
    <3> HIDE DEF b
    <3> QED BY <2>2, <2>10 DEF Answering
  <2> HIDE DEF b, prompt, h
  <2> QED BY <1>2, <2>1, <2>2, <2>7, <2>10, <2>11, AnswerMoves
<1> QED BY <1>1, <1>5, <1>6

LEMMA GenerateStepAnswers ==
    ASSUME AskInv, AnswerInv, NEW c \in Callers, GenerateStep(c)
    PROVE  AnswerInv'
<1>1. Generator!Step(c) /\ UNCHANGED <<ask, writes>> /\ ask[c].pc = "generate"
  BY DEF GenerateStep
<1>2. /\ Generation!IInv'
      /\ Generation!Continues(gen[c], gen'[c])
      /\ \A d \in Callers \ {c} : gen'[d] = gen[d]
  BY <1>1, GeneratorStepOK DEF AnswerInv
<1>3. Answering(ask[c], gen'[c], QuestionOf[c])
  BY <1>1, <1>2, OneAsk DEF Answering, Generation!Continues
<1>4. ask' = [ask EXCEPT ![c] = ask[c]]
  BY <1>1 DEF AnswerInv
<1>5. ask[c] \in AskRecord
  BY OneAsk
<1> QED BY <1>1, <1>2, <1>3, <1>4, <1>5, AnswerMoves

LEMMA GenerateReturnsAnswers ==
    ASSUME AskInv, AnswerInv, NEW c \in Callers, GenerateReturns(c)
    PROVE  AnswerInv'
<1> DEFINE a == ask[c]
<1>1. UNCHANGED <<generation, writes>> /\ a.pc = "generate"
  BY DEF GenerateReturns
<1>2. CASE Goto(c, "error")
  BY <1>1, <1>2, GotoAnswers
<1>3. CASE /\ gen[c].pc = "done"
           /\ ask' = [ask EXCEPT ![c].pc = "done", ![c].sources = Sources(ask[c].hits)]
  <2> DEFINE b == [a EXCEPT !.pc = "done", !.sources = Sources(a.hits)]
  <2>1. ask' = [ask EXCEPT ![c] = b] /\ a \in AskRecord
    BY <1>3, OneAsk
  <2>2. "done" \in PCs
    BY DEF PCs, Over
  <2>3. a.hits \in Seq(Hit)
    BY <2>1 DEF AskRecord
  <2>4. Sources(a.hits) \in Seq(Files)
    BY <2>3, SourcesAre
  <2>5. b \in AskRecord /\ b.pc = "done" /\ b.hits = a.hits /\ b.sources = Sources(a.hits)
    <3> HIDE DEF a
    <3> QED BY <2>1, <2>2, <2>4 DEF AskRecord
  <2>6. gen'[c] = gen[c] /\ gen[c].texts = <<BuildUserPrompt(QuestionOf[c], a.hits)>>
    BY <1>1, OneAsk DEF Answering, generation
  <2>7. Answering(b, gen'[c], QuestionOf[c])
    <3> HIDE DEF b, a
    <3> QED BY <1>3, <2>5, <2>6 DEF Answering
  <2> HIDE DEF b
  <2> QED BY <1>1, <2>1, <2>5, <2>7, GeneratorStays, AnswerMoves DEF AnswerInv, generation
<1> QED BY <1>2, <1>3 DEF GenerateReturns

LEMMA GiveUpAnswers ==
    ASSUME AskInv, AnswerInv, NEW c \in Callers, GiveUp(c)
    PROVE  AnswerInv'
<1> DEFINE g == gen[c]
           h == [g EXCEPT !.gaveUp = TRUE]
<1>1. UNCHANGED <<ask, writes, genTokens>>
  BY DEF GiveUp
<1>2. gen' = [gen EXCEPT ![c] = h] /\ DOMAIN gen = Callers
  BY Shapes DEF GiveUp
<1>3. g \in Generation!Calls /\ Generation!CallOK(g)
  BY ConnectorAssumed, Generation!OneCall DEF AnswerInv, Generation!ConnectorAssumption
<1>4. h \in Generation!Calls /\ Generation!CallOK(h) /\ h.pc = g.pc /\ h.texts = g.texts
  <2> HIDE DEF g
  <2> QED BY <1>3 DEF Generation!Calls, Generation!CallOK
<1> HIDE DEF h
<1>5. Generation!IInv'
  <2>1. genTokens' \in 0..Burst
    BY <1>1 DEF AnswerInv, Generation!IInv, Generation!TypeOK
  <2> QED BY <1>2, <1>4, <2>1, ConnectorAssumed, Generation!OneCallChanges
          DEF AnswerInv, Generation!ConnectorAssumption
<1>6. gen'[c] = h /\ \A d \in Callers \ {c} : gen'[d] = gen[d]
  BY <1>2
<1>7. Answering(ask[c], gen'[c], QuestionOf[c])
  BY <1>4, <1>6, OneAsk DEF Answering
<1>8. ask' = [ask EXCEPT ![c] = ask[c]]
  BY <1>1 DEF AnswerInv
<1>9. ask[c] \in AskRecord
  BY OneAsk
<1> QED BY <1>1, <1>5, <1>6, <1>7, <1>8, <1>9, AnswerMoves

LEMMA NextAnswers == AskInv /\ AnswerInv /\ [Next]_vars => AnswerInv'
<1> SUFFICES ASSUME AskInv, AnswerInv, [Next]_vars PROVE AnswerInv'
  OBVIOUS
<1>1. ASSUME NEW c \in Callers, Step(c) PROVE AnswerInv'
  <2>1. CASE EmbedStep(c)
    BY <2>1, AnswersStay DEF EmbedStep, AnswerInv
  <2>2. CASE EmbedReturns(c)
    BY <2>2, GotoAnswers DEF EmbedReturns
  <2>3. CASE FindFails(c)
    BY <2>3, GotoAnswers DEF FindFails
  <2> QED BY <1>1, <2>1, <2>2, <2>3, StartAnswers, FindAnswers, GenerateStepAnswers,
             GenerateReturnsAnswers DEF Step
<1>2. ASSUME NEW c \in Callers, GiveUp(c) PROVE AnswerInv'
  BY <1>2, GiveUpAnswers
<1>3. CASE Refill
  <2>1. UNCHANGED <<gen, ask, writes>>
    BY <1>3 DEF Refill, Generator!RefillToken, generation
  <2>2. CASE UNCHANGED generation
    BY <2>1, <2>2, AnswersStay DEF AnswerInv
  <2>3. CASE Generator!RefillToken
    <3>1. Generation!IInv'
      <4>1. Generation!RefillToken
        BY <2>3 DEF Generator!RefillToken, Generation!RefillToken
      <4> QED BY <4>1, ConnectorAssumed, Generation!NextIInv
              DEF AnswerInv, Generation!Next, Generation!ConnectorAssumption
    <3>2. AnswersOK'
      BY <2>1 DEF AnswerInv, AnswersOK, Answering
    <3> QED BY <2>1, <3>1, <3>2 DEF AnswerInv
  <2> QED BY <1>3, <2>2, <2>3 DEF Refill
<1>4. CASE IndexChanges
  <2>1. writes' \in 0..MaxWrites
    BY <1>4, AskingAssumption DEF IndexChanges, AnswerInv, AskingAssumption
  <2> QED BY <1>4, <2>1, AnswersStay DEF IndexChanges
<1>5. CASE UNCHANGED vars
  BY <1>5, AnswersStay DEF vars, AnswerInv
<1> QED BY <1>1, <1>2, <1>3, <1>4, <1>5 DEF Next

LEMMA InitAnswers == Init => AnswerInv
<1> SUFFICES ASSUME Init PROVE AnswerInv
  OBVIOUS
<1>1. Generation!IInv
  <2>1. Generation!Init
    BY DEF Init, Generator!Init, Generation!Init
  <2> QED BY <2>1, ConnectorAssumed, Generation!InitIInv DEF Generation!ConnectorAssumption
<1> DEFINE a == [pc |-> "idle", op |-> "search", k |-> 1, hits |-> <<>>, sources |-> <<>>]
<1>2. ask = [c \in Callers |-> a] /\ writes = 0
  BY DEF Init
<1>3. a \in AskRecord
  BY DEF AskRecord, PCs
<1>4. AnswersOK
  BY <1>2 DEF AnswersOK, Answering
<1> HIDE DEF a
<1> QED BY <1>1, <1>2, <1>3, <1>4, AskingAssumption DEF AnswerInv, AskingAssumption

\* Open decides once whether there is a generator.
LEMMA GeneratorDecided == Spec => [](llm \in BOOLEAN)
<1>1. Init => llm \in BOOLEAN
  BY DEF Init
<1>2. llm \in BOOLEAN /\ [Next]_vars => (llm \in BOOLEAN)'
  BY Zenon DEF Next, Step, GiveUp, Refill, IndexChanges, vars
<1> QED BY <1>1, <1>2, PTL DEF Spec

LEMMA AnswerInvariant == Spec => [](AskInv /\ AnswerInv)
<1>1. AskInv /\ AnswerInv /\ [Next]_vars => AnswerInv'
  BY NextAnswers
<1> QED BY <1>1, Invariant, InitAnswers, PTL DEF Spec

\* Both connectors, and every Search and Ask on top of them, are in states of
\* their kinds: neither limiter gives out a token it does not have, and no
\* request is made more often than the policy allows.
THEOREM CallsWellFormed == Spec => []AskTypeOK
<1>1. AskInv /\ AnswerInv /\ llm \in BOOLEAN => AskTypeOK
  <2> SUFFICES ASSUME AskInv, AnswerInv, llm \in BOOLEAN PROVE AskTypeOK
    OBVIOUS
  <2>1. Embedder!TypeOK
    BY DEF AskInv, Embedding!IInv, Embedding!TypeOK, Embedder!TypeOK, Embedding!PCs,
           Embedder!PCs, Embedding!Over, Embedder!Over, Embedding!Attempts, Embedder!Attempts
  <2>2. Generator!TypeOK
    BY DEF AnswerInv, Generation!IInv, Generation!TypeOK, Generator!TypeOK, Generation!PCs,
           Generator!PCs, Generation!Over, Generator!Over, Generation!Attempts,
           Generator!Attempts
  <2> QED BY <2>1, <2>2 DEF AskTypeOK, AnswerInv, AskRecord
<1> QED BY <1>1, AnswerInvariant, GeneratorDecided, PTL

\* A finished Ask has the model's answer to its own question over its own hits:
\* the best ones the budget has room for, none skipped and never none, with each
\* of their notes named once.  It holds whoever else asks, whatever the index
\* does meanwhile and however often the request had to be repeated.
THEOREM AnswersComeFromTheirHits == Spec => []AnswerFromItsHits
<1>1. AskInv /\ AnswerInv => AnswerFromItsHits
  <2> SUFFICES ASSUME AskInv, AnswerInv, NEW c \in Callers, ask[c].op = "ask", ask[c].pc = "done"
               PROVE
        LET hits == ask[c].hits
            answer == gen[c].out[1]
            first(note) == CHOOSE i \in DOMAIN hits :
                hits[i].note = note /\ \A j \in 1..(i - 1) : hits[j].note # note
            sources == ask[c].sources
        IN  /\ answer.question = QuestionOf[c]
            /\ IsPrefix(answer.shown, hits)
            /\ \A n \in 1..Len(hits) :
                  n <= Len(answer.shown) <=> n = 1 \/ Total(hits, n) <= Budget
            /\ {sources[i] : i \in DOMAIN sources} = {hits[i].note : i \in DOMAIN hits}
            /\ \A i, j \in DOMAIN sources : i < j => first(sources[i]) < first(sources[j])
    BY DEF AnswerFromItsHits
  <2> DEFINE hits == ask[c].hits
             prompt == BuildUserPrompt(QuestionOf[c], hits)
  <2>1. hits \in Seq(Hit) /\ ask[c].sources = Sources(hits)
        /\ gen[c].texts = <<prompt>> /\ gen[c].pc = "done"
    BY OneAsk DEF Answering, AskRecord
  <2>2. Generation!CallOK(gen[c])
    BY ConnectorAssumed, Generation!OneCall DEF AnswerInv, Generation!ConnectorAssumption
  <2>3. gen[c].out[1] = prompt
    <3> HIDE DEF prompt
    <3>1. Len(gen[c].out) = 1 /\ \A i \in 1..1 : gen[c].out[i] = <<prompt>>[i]
      BY <2>1, <2>2 DEF Generation!CallOK
    <3> QED BY <3>1
  <2>4. /\ prompt.question = QuestionOf[c]
        /\ IsPrefix(prompt.shown, hits)
        /\ \A n \in 1..Len(hits) :
              n <= Len(prompt.shown) <=> n = 1 \/ Total(hits, n) <= Budget
    <3> HIDE DEF hits
    <3> QED BY <2>1, PromptShows
  <2>5. LET first(note) == CHOOSE i \in DOMAIN hits :
                hits[i].note = note /\ \A j \in 1..(i - 1) : hits[j].note # note
            sources == Sources(hits)
        IN  /\ {sources[i] : i \in DOMAIN sources} = {hits[i].note : i \in DOMAIN hits}
            /\ \A i, j \in DOMAIN sources : i < j => first(sources[i]) < first(sources[j])
    <3> HIDE DEF hits
    <3> QED BY <2>1, SourcesAre
  <2> HIDE DEF hits, prompt
  <2> QED BY <2>1, <2>3, <2>4, <2>5 DEF hits
<1> QED BY <1>1, AnswerInvariant, PTL
=============================================================================
