------------------------------ MODULE Connector ------------------------------
(***************************************************************************)
(* The connector around an embedding provider: Batched over WithRateLimit  *)
(* over WithRetry over one vendor's Embed, shared by several callers.      *)
(*                                                                         *)
(* A call embeds a sequence of texts, one slice of at most MaxBatch at a   *)
(* time.  A slice first waits for a token of the limiter, then backoff.Do  *)
(* makes up to MaxAttempts requests for it.  The vector of a text is       *)
(* represented by the text.                                                *)
(***************************************************************************)
EXTENDS Integers, Sequences

CONSTANTS
    Callers,      \* goroutines that call embed.Batched on one provider
    Texts,        \* what a caller may want embedded
    Misfit,       \* a vector whose dimension is not the one of the space
    MaxTexts,     \* bound: texts per call
    MaxBatch,     \* Provider.MaxBatch as the vendor reports it
    MaxAttempts,  \* Policy.MaxAttempts as configured
    Deadlines,    \* callers whose context has a deadline (HTTP requests do)
    Burst,        \* tokens the limiter's bucket holds
    Replies       \* how a request may come out

(***************************************************************************)
(* ok        200 with one vector per input, in any order, each with its    *)
(*           index; Google and Ollama send them in order and without one   *)
(* short     200 with a vector missing, or with one of a wrong dimension   *)
(* busy      429, 408 or 5xx                                               *)
(* spent     429 whose details name a daily quota (Google)                 *)
(* rejected  any other status                                              *)
(* dropped   the connection was refused or reset                           *)
(* cut       it ended in the middle of the body                            *)
(* stalled   http.Client's own Timeout ended the request                   *)
(***************************************************************************)
ReplyKinds == {"ok", "short", "busy", "spent", "rejected", "dropped", "cut",
               "stalled"}

ASSUME ConnectorAssumption ==
    /\ MaxTexts \in Nat
    /\ MaxBatch \in Int
    /\ MaxAttempts \in Int
    /\ Deadlines \subseteq Callers
    /\ Burst \in Nat \ {0}
    /\ Misfit \notin Texts
    /\ Replies \subseteq ReplyKinds

VARIABLES
    call,    \* each caller's call
    tokens   \* tokens in the bucket

vars == <<call, tokens>>

\* Policy.normalized, and the guard of Batched.
Attempts == IF MaxAttempts < 1 THEN 1 ELSE MaxAttempts
Size == IF MaxBatch < 1 THEN 1 ELSE MaxBatch

(***************************************************************************)
(* pc       where the caller is                                            *)
(* texts    what it wants embedded                                         *)
(* out      Batched's result so far                                        *)
(* attempt  requests made for the current slice, 0 outside backoff.Do      *)
(* gaveUp   the caller's context is done                                   *)
(* paid     history: a token was taken for the next request                *)
(***************************************************************************)
Inputs == UNION {[1..n -> Texts] : n \in 0..MaxTexts}
Over == {"done", "error"}
PCs == {"idle", "wait", "try", "sent", "sleep"} \cup Over

TypeOK ==
    /\ call \in [Callers -> [pc: PCs, texts: Seq(Texts), out: Seq(Texts),
                             attempt: 0..Attempts, gaveUp: BOOLEAN, paid: BOOLEAN]]
    /\ tokens \in 0..Burst

Init ==
    /\ call = [c \in Callers |-> [pc |-> "idle", texts |-> <<>>, out |-> <<>>,
                                  attempt |-> 0, gaveUp |-> FALSE, paid |-> FALSE]]
    /\ tokens = Burst

Return(c, outcome) == call' = [call EXCEPT ![c].pc = outcome]

\* The attempts are counted in backoff.Do and forgotten with it.
ReturnError(c) == call' = [call EXCEPT ![c].pc = "error", ![c].attempt = 0]

(***************************************************************************)
(* embed.Batched.                                                          *)
(***************************************************************************)

\* The first position after the current slice; a slice is texts[out+1 .. SliceEnd].
SliceEndOneShort(c) ==
    IF Len(call[c].out) + Size < Len(call[c].texts)
    THEN Len(call[c].out) + Size - 1 ELSE Len(call[c].texts)

SliceEnd(c) ==
    IF Len(call[c].out) + Size < Len(call[c].texts)
    THEN Len(call[c].out) + Size ELSE Len(call[c].texts)

Slice(c) == SubSeq(call[c].texts, Len(call[c].out) + 1, SliceEnd(c))

\* No texts, no request.
Request(c, texts) ==
    /\ call[c].pc = "idle"
    /\ call' = [call EXCEPT ![c].pc = IF texts = <<>> THEN "done" ELSE "wait",
                            ![c].texts = texts]
    /\ UNCHANGED tokens

Batched(c) == \E texts \in Inputs : Request(c, texts)

(***************************************************************************)
(* limitedProvider.Embed: rate.Limiter.Wait.                               *)
(***************************************************************************)
TakeToken(c) ==
    /\ call[c].pc = "wait"
    /\ ~call[c].gaveUp
    /\ tokens > 0
    /\ tokens' = tokens - 1
    /\ call' = [call EXCEPT ![c].pc = "try", ![c].attempt = 0, ![c].paid = TRUE]

\* Wait fails when the context is done, and at once when its deadline is
\* nearer than the next token.
WaitFails(c) ==
    /\ call[c].pc = "wait"
    /\ call[c].gaveUp \/ (c \in Deadlines /\ tokens = 0)
    /\ ReturnError(c)
    /\ UNCHANGED tokens

(***************************************************************************)
(* backoff.Policy.Do over the vendor's Embed.                              *)
(***************************************************************************)

\* ctx.Err() at the top of the loop.
NeverDone(c) == FALSE
ContextDone(c) == call[c].gaveUp

Try(c) ==
    /\ call[c].pc = "try"
    /\ \/ /\ ContextDone(c)
          /\ ReturnError(c)
       \/ /\ ~ContextDone(c)
          /\ call' = [call EXCEPT ![c].pc = "sent", ![c].attempt = @ + 1, ![c].paid = FALSE]
    /\ UNCHANGED tokens

\* IsTransientStatus: the statuses worth another attempt.
TransientStatus == {"busy", "spent"}

\* GoogleHint: the refusals that name a quota which is back only the next day.
Daily == {"spent"}

\* MarkTransport: a stalled request ends in an error that Is
\* context.DeadlineExceeded, a body cut short in one that is no net.Error.
MarkedTransport == {"dropped"}

\* classifyGoogleErr; the other vendors look at the status alone.
Transient(reply) == reply \in (TransientStatus \ Daily) \cup MarkedTransport

LastAttemptLate(c) == call[c].attempt > Attempts
LastAttempt(c) == call[c].attempt >= Attempts

\* The vendor's answer: one entry per text of the slice, in an order of its own.
Answers(c) ==
    LET slice == Slice(c)
    IN  {[i \in 1..Len(slice) |-> [index |-> p[i], vector |-> slice[p[i]]]] :
            p \in {q \in [1..Len(slice) -> 1..Len(slice)] :
                     \A i \in 1..Len(slice) : \E j \in 1..Len(slice) : q[j] = i}}

\* A 200 that breaks the contract: a vector too few, or one of a wrong dimension.
ShortAnswers(c) ==
    {Tail(data) : data \in Answers(c)} \cup
    {[data EXCEPT ![1].vector = Misfit] : data \in Answers(c)}

\* checkResult, and the same two checks in openAIProvider.Embed: one vector per
\* text, each of the dimension of the space.
CountMatches(c, data) == Len(data) = Len(Slice(c))

CheckResult(c, data) ==
    /\ Len(data) = Len(Slice(c))
    /\ \A i \in 1..Len(data) : data[i].vector # Misfit

\* The vectors of an answer, sorted by index.
AsReceived(data) == [i \in 1..Len(data) |-> data[i].vector]

ByIndex(data) ==
    [i \in 1..Len(data) |-> data[CHOOSE j \in 1..Len(data) : data[j].index = i].vector]

SliceDone(c, data) ==
    LET out == call[c].out \o ByIndex(data)
    IN  call' = [call EXCEPT ![c].out = out,
                             ![c].pc = IF Len(out) = Len(call[c].texts) THEN "done" ELSE "wait",
                             ![c].attempt = 0]

Reply(c) ==
    /\ call[c].pc = "sent"
    /\ \E reply \in Replies :
        \/ /\ reply \in {"ok", "short"}
           /\ \E data \in IF reply = "ok" THEN Answers(c) ELSE ShortAnswers(c) :
                  IF CheckResult(c, data) THEN SliceDone(c, data) ELSE ReturnError(c)
        \/ /\ Transient(reply) /\ ~LastAttempt(c)
           /\ Return(c, "sleep")
        \/ /\ Transient(reply) /\ LastAttempt(c)
           /\ ReturnError(c)
        \/ /\ reply \notin {"ok", "short"} /\ ~Transient(reply)
           /\ ReturnError(c)
    /\ UNCHANGED tokens

\* A request whose context is done ends; the error is not marked.
RequestCancelled(c) ==
    /\ call[c].pc = "sent"
    /\ call[c].gaveUp
    /\ ReturnError(c)
    /\ UNCHANGED tokens

\* The timer fires; a delay of zero does not look at the context.
TimerFiresAfresh(c) ==
    /\ call[c].pc = "sleep"
    /\ call' = [call EXCEPT ![c].pc = "try", ![c].attempt = 0]
    /\ UNCHANGED tokens

TimerFires(c) ==
    /\ call[c].pc = "sleep"
    /\ Return(c, "try")
    /\ UNCHANGED tokens

SleepCancelled(c) ==
    /\ call[c].pc = "sleep"
    /\ call[c].gaveUp
    /\ ReturnError(c)
    /\ UNCHANGED tokens

(***************************************************************************)
(* The environment.                                                        *)
(***************************************************************************)
GiveUp(c) ==
    /\ call[c].pc \notin Over
    /\ ~call[c].gaveUp
    /\ call' = [call EXCEPT ![c].gaveUp = TRUE]
    /\ UNCHANGED tokens

RefillToken ==
    /\ tokens < Burst
    /\ tokens' = tokens + 1
    /\ UNCHANGED call

Step(c) ==
    \/ TakeToken(c)
    \/ WaitFails(c)
    \/ Try(c)
    \/ Reply(c)
    \/ RequestCancelled(c)
    \/ TimerFires(c)
    \/ SleepCancelled(c)

Next ==
    \/ \E c \in Callers : Batched(c) \/ Step(c) \/ GiveUp(c)
    \/ RefillToken

Spec == Init /\ [][Next]_vars

\* Goroutines run, requests end (each client has a Timeout), timers fire and
\* the limiter refills.  Nobody has to call or to give up.
FairSpec ==
    Spec /\ (\A c \in Callers : WF_vars(Step(c))) /\ WF_vars(RefillToken)

-----------------------------------------------------------------------------
\* Vector i is the vector of text i, for every text, although the texts went
\* out in slices, each retried on its own, under a limiter shared with others.
VectorsInOrder == \A c \in Callers : call[c].pc = "done" => call[c].out = call[c].texts

\* A request is in flight only for a slice the vendor accepts and does not
\* already have an answer for.
SlicesFit ==
    \A c \in Callers : call[c].pc = "sent" =>
        Len(Slice(c)) \in 1..Size /\ Len(call[c].out) % Size = 0

\* Once the caller gave up, no new request goes out: not from the wait for a
\* token, not from the loop, and not after a backoff that slept through it.
NoRequestAfterGivingUp ==
    [][\A c \in Callers : call[c].gaveUp => call'[c].attempt <= call[c].attempt]_vars

\* Every call returns, with all callers failing over and over and competing
\* for the same tokens.
CallsReturn == \A c \in Callers : call[c].pc = "wait" ~> call[c].pc \in Over

\* factory.go:137: "the limiter is outermost so a retry storm also waits its
\* turn".
RetriesWaitTheirTurn ==
    [][\A c \in Callers : call'[c].attempt > call[c].attempt => call[c].paid]_vars

\* http.go:44: only a caller that gave up makes a transport failure final.
TransportFailuresRetried ==
    [][\A c \in Callers :
          /\ call[c].pc = "sent" /\ call'[c].pc = "error"
          /\ ~call[c].gaveUp
          => call[c].attempt >= Attempts]_vars
=============================================================================
