--------------------------- MODULE ConnectorProofs ---------------------------
(***************************************************************************)
(* Proofs about Connector for any number of callers, texts per call and    *)
(* attempts, any size of a slice and any burst: every vector a call        *)
(* returns is the one of its own text, and no request goes out that the    *)
(* vendor does not accept or that the caller no longer wants.              *)
(***************************************************************************)
EXTENDS Connector, TLAPS

Calls == [pc: PCs, texts: Seq(Texts), out: Seq(Texts),
          attempt: 0..Attempts, gaveUp: BOOLEAN, paid: BOOLEAN]

\* What a call in progress has and has yet to get.
Open == {"wait", "try", "sent", "sleep"}

CallOK(k) ==
    /\ Len(k.out) <= Len(k.texts)
    /\ \A i \in 1..Len(k.out) : k.out[i] = k.texts[i]
    /\ k.pc = "idle" => k.out = <<>> /\ k.texts = <<>>
    /\ k.pc = "done" => Len(k.out) = Len(k.texts)
    /\ k.pc \in Open => Len(k.out) < Len(k.texts) /\ Len(k.out) % Size = 0
    /\ k.pc \in {"try", "sleep"} => k.attempt < Attempts

IInv == TypeOK /\ \A c \in Callers : CallOK(call[c])

-----------------------------------------------------------------------------
(***************************************************************************)
(* Arithmetic of the slices.                                               *)
(***************************************************************************)
LEMMA Remainder ==
    ASSUME NEW a \in Nat, NEW s \in Nat \ {0}
    PROVE  a % s \in 0..(s - 1)
BY Z3

LEMMA Division ==
    ASSUME NEW a \in Nat, NEW s \in Nat \ {0}
    PROVE  a \div s \in Int /\ a = s * (a \div s) + (a % s)
BY Z3

LEMMA SmallMultiple ==
    ASSUME NEW q \in Int, NEW r \in Int, NEW s \in Nat \ {0}, s * q = r, r < s, r > -s
    PROVE  r = 0
BY Z3

LEMMA NextMultiple ==
    ASSUME NEW a \in Nat, NEW s \in Nat \ {0}, a % s = 0
    PROVE  (a + s) % s = 0
<1> DEFINE q == a \div s
           k == (a + s) \div s
<1>1. q \in Int /\ a = s * q
  BY Division
<1>2. k \in Int /\ a + s = s * k + ((a + s) % s)
  <2>1. a + s \in Nat
    OBVIOUS
  <2> QED BY <2>1, Division
<1>3. (a + s) % s \in 0..(s - 1)
  <2>1. a + s \in Nat
    OBVIOUS
  <2> QED BY <2>1, Remainder
<1> HIDE DEF q, k
<1> DEFINE r == (a + s) % s
<1>4. r \in Int /\ r < s /\ r > -s
  BY <1>3
<1>5. s * (q + 1 - k) = r
  <2> HIDE DEF r
  <2>1. a + s = s * k + r
    BY <1>2 DEF r
  <2> QED BY <2>1, <1>1, <1>2, <1>4, Z3
<1> HIDE DEF r
<1>6. q + 1 - k \in Int
  BY <1>1, <1>2
<1>7. r = 0
  BY ONLY <1>4, <1>5, <1>6, SmallMultiple, s \in Nat \ {0}
<1> QED BY <1>7 DEF r

LEMMA SizeAndAttempts == Size \in Nat \ {0} /\ Attempts \in Nat \ {0}
BY ConnectorAssumption DEF ConnectorAssumption, Size, Attempts

-----------------------------------------------------------------------------
(***************************************************************************)
(* A slice, and the answer to it.                                          *)
(***************************************************************************)

\* What the type and the invariant say of one call.
LEMMA OneCall ==
    ASSUME IInv, NEW c \in Callers
    PROVE  call[c] \in Calls /\ CallOK(call[c])
BY DEF IInv, TypeOK, Calls

\* The slice of a call in progress is not empty and no longer than the vendor
\* takes; it ends with the texts, or a whole slice further on.
LEMMA SliceBounds ==
    ASSUME IInv, NEW c \in Callers, call[c].pc \in Open
    PROVE  LET k == call[c] IN
           /\ SliceEnd(c) \in Nat
           /\ SliceEnd(c) - Len(k.out) \in 1..Size
           /\ SliceEnd(c) <= Len(k.texts)
           /\ SliceEnd(c) = Len(k.texts) \/ SliceEnd(c) = Len(k.out) + Size
<1>1. call[c].out \in Seq(Texts) /\ call[c].texts \in Seq(Texts)
  BY OneCall DEF Calls
<1>2. Len(call[c].out) \in Nat /\ Len(call[c].texts) \in Nat
  BY <1>1
<1>3. Len(call[c].out) < Len(call[c].texts)
  BY OneCall DEF CallOK
<1>4. Size \in Nat \ {0}
  BY SizeAndAttempts
<1> QED BY <1>2, <1>3, <1>4 DEF SliceEnd

LEMMA SliceIs ==
    ASSUME IInv, NEW c \in Callers, call[c].pc \in Open
    PROVE  /\ Slice(c) \in Seq(Texts)
           /\ Len(Slice(c)) = SliceEnd(c) - Len(call[c].out)
           /\ \A i \in 1..Len(Slice(c)) : Slice(c)[i] = call[c].texts[Len(call[c].out) + i]
<1> DEFINE o == call[c].out
           t == call[c].texts
           e == SliceEnd(c)
<1>1. o \in Seq(Texts) /\ t \in Seq(Texts)
  BY OneCall DEF Calls
<1>2. /\ e \in Nat /\ e - Len(o) \in 1..Size /\ e <= Len(t) /\ Len(o) \in Nat
      /\ Size \in Nat
  BY SliceBounds, <1>1, SizeAndAttempts
<1>3. Slice(c) = SubSeq(t, Len(o) + 1, e)
  BY DEF Slice
<1> HIDE DEF o, t, e
<1>4. Len(Slice(c)) = e - Len(o)
  BY <1>1, <1>2, <1>3
<1>5. \A i \in 1..Len(Slice(c)) : Slice(c)[i] = t[Len(o) + i]
  BY <1>1, <1>2, <1>3, <1>4
<1>6. Slice(c) \in Seq(Texts)
  BY <1>1, <1>2, <1>3
<1> QED BY <1>4, <1>5, <1>6 DEF o, t, e

\* Whatever order the vendor answers in, sorting by index gives back the slice.
LEMMA SortedIsSlice ==
    ASSUME NEW c, Slice(c) \in Seq(Texts), NEW data \in Answers(c)
    PROVE  Len(data) = Len(Slice(c)) /\ ByIndex(data) = Slice(c)
<1> DEFINE s == Slice(c)
           n == Len(s)
<1>1. PICK p \in [1..n -> 1..n] :
          /\ \A i \in 1..n : \E j \in 1..n : p[j] = i
          /\ data = [i \in 1..n |-> [index |-> p[i], vector |-> s[p[i]]]]
  BY DEF Answers
<1>2. n \in Nat /\ s = [i \in 1..n |-> s[i]]
  BY DEF s
<1> HIDE DEF s, n
<1>3. Len(data) = n
  BY <1>1, <1>2
<1>4. ASSUME NEW i \in 1..n
      PROVE  data[CHOOSE j \in 1..n : data[j].index = i].vector = s[i]
  <2>1. \E j \in 1..n : data[j].index = i
    BY <1>1
  <2> DEFINE j == CHOOSE x \in 1..n : data[x].index = i
  <2>2. j \in 1..n /\ data[j].index = i
    BY <2>1
  <2> HIDE DEF j
  <2>3. data[j].index = p[j] /\ data[j].vector = s[p[j]]
    BY <1>1, <2>2
  <2>4. data[j].vector = s[i]
    BY <2>2, <2>3
  <2> QED BY <2>4 DEF j
<1>5. ByIndex(data) = [i \in 1..n |-> s[i]]
  BY <1>3, <1>4 DEF ByIndex
<1> QED BY <1>2, <1>3, <1>5 DEF s, n

\* An answer that breaks the contract does not pass checkResult.
LEMMA ShortIsCaught ==
    ASSUME IInv, NEW c \in Callers, call[c].pc \in Open, NEW data \in ShortAnswers(c)
    PROVE  ~CheckResult(c, data)
<1> DEFINE n == Len(Slice(c))
<1>1. Slice(c) \in Seq(Texts) /\ n \in Nat /\ n >= 1
  BY SliceIs, SliceBounds, SizeAndAttempts
<1>2. PICK full \in Answers(c) :
          data = Tail(full) \/ data = [full EXCEPT ![1].vector = Misfit]
  BY DEF ShortAnswers
<1>3. Len(full) = n
  BY <1>1, SortedIsSlice
<1>4. PICK p \in [1..n -> 1..n] :
          full = [i \in 1..n |-> [index |-> p[i], vector |-> Slice(c)[p[i]]]]
  BY DEF Answers
<1>5. CASE data = Tail(full)
  <2> DEFINE Entry == [index: 1..n, vector: Texts]
  <2>1. ASSUME NEW i \in 1..n
        PROVE  [index |-> p[i], vector |-> Slice(c)[p[i]]] \in Entry
    <3>1. p[i] \in 1..n
      OBVIOUS
    <3>2. Slice(c)[p[i]] \in Texts
      BY <1>1, <3>1
    <3> QED BY <3>1, <3>2
  <2> HIDE DEF Entry
  <2>2. full \in Seq(Entry)
    BY <1>1, <1>4, <2>1
  <2>3. Len(data) = n - 1
    BY <1>1, <1>3, <1>5, <2>2
  <2> QED BY <1>1, <2>3 DEF CheckResult
<1>6. CASE data = [full EXCEPT ![1].vector = Misfit]
  <2>1. 1 \in 1..n
    BY <1>1
  <2>2. DOMAIN full = 1..n /\ full[1] = [index |-> p[1], vector |-> Slice(c)[p[1]]]
    BY <1>4, <2>1
  <2>3. Len(data) = n
    BY <1>1, <1>4, <1>6, <2>2
  <2>4. data[1].vector = Misfit
    BY <1>6, <2>1, <2>2
  <2> QED BY <2>1, <2>3, <2>4 DEF CheckResult
<1> QED BY <1>2, <1>5, <1>6

-----------------------------------------------------------------------------
(***************************************************************************)
(* The invariant.                                                          *)
(***************************************************************************)

\* A step that leaves every call but c alone.
LEMMA OneCallChanges ==
    ASSUME IInv, NEW c \in Callers, NEW k \in Calls, CallOK(k),
           call' = [call EXCEPT ![c] = k], tokens' \in 0..Burst
    PROVE  IInv'
<1>1. call \in [Callers -> Calls] /\ \A d \in Callers : CallOK(call[d])
  BY DEF IInv, TypeOK, Calls
<1>2. call' \in [Callers -> Calls]
  BY <1>1
<1>3. \A d \in Callers : CallOK(call'[d])
  BY <1>1
<1>4. TypeOK'
  BY <1>2 DEF TypeOK, Calls
<1> QED BY <1>3, <1>4 DEF IInv

\* Nothing but where the call stands changes.
LEMMA OnlyMoves ==
    ASSUME IInv, NEW c \in Callers, NEW pc \in PCs, Return(c, pc), tokens' \in 0..Burst,
           CallOK([call[c] EXCEPT !.pc = pc])
    PROVE  IInv'
<1> DEFINE k == [call[c] EXCEPT !.pc = pc]
<1>1. call[c] \in Calls /\ call \in [Callers -> Calls]
  BY DEF IInv, TypeOK, Calls
<1>2. k \in Calls
  BY <1>1, Zenon DEF Calls
<1>3. call' = [call EXCEPT ![c] = k]
  BY <1>1 DEF Return
<1> QED BY <1>2, <1>3, OneCallChanges

LEMMA Fails ==
    ASSUME IInv, NEW c \in Callers, call[c].pc \in Open, ReturnError(c), tokens' \in 0..Burst
    PROVE  IInv'
<1> DEFINE k == [call[c] EXCEPT !.pc = "error", !.attempt = 0]
<1>1. call[c] \in Calls /\ CallOK(call[c]) /\ call \in [Callers -> Calls]
  BY OneCall DEF IInv, TypeOK, Calls
<1>2. k \in Calls
  <2>1. 0 \in 0..Attempts /\ "error" \in PCs
    BY SizeAndAttempts DEF PCs, Over
  <2> QED BY <1>1, <2>1, Zenon DEF Calls
<1>3. k.pc = "error" /\ k.out = call[c].out /\ k.texts = call[c].texts
  BY <1>1 DEF Calls
<1>4. CallOK(k)
  <2> HIDE DEF k
  <2> QED BY <1>1, <1>3 DEF CallOK, Open
<1>5. call' = [call EXCEPT ![c] = k]
  BY <1>1 DEF ReturnError
<1> HIDE DEF k
<1> QED BY <1>2, <1>4, <1>5, OneCallChanges

LEMMA TokensStay == ASSUME IInv, UNCHANGED tokens PROVE tokens' \in 0..Burst
BY DEF IInv, TypeOK

LEMMA InitIInv == Init => IInv
<1> SUFFICES ASSUME Init PROVE IInv
  OBVIOUS
<1> DEFINE k == [pc |-> "idle", texts |-> <<>>, out |-> <<>>,
                 attempt |-> 0, gaveUp |-> FALSE, paid |-> FALSE]
<1>1. call = [c \in Callers |-> k] /\ tokens = Burst
  BY DEF Init
<1>2. k \in Calls
  BY SizeAndAttempts DEF Calls, PCs
<1>3. CallOK(k)
  BY DEF CallOK, Open
<1>4. TypeOK
  BY <1>1, <1>2, ConnectorAssumption DEF TypeOK, Calls, ConnectorAssumption
<1> QED BY <1>1, <1>3, <1>4 DEF IInv

LEMMA InputsAreTexts == Inputs \subseteq Seq(Texts)
BY ConnectorAssumption DEF Inputs, ConnectorAssumption

LEMMA BatchedIInv ==
    ASSUME IInv, NEW c \in Callers, NEW texts \in Seq(Texts), Request(c, texts)
    PROVE  IInv'
<1> DEFINE k == [call[c] EXCEPT !.pc = IF texts = <<>> THEN "done" ELSE "wait",
                                !.texts = texts]
<1>1. call[c] \in Calls /\ CallOK(call[c]) /\ call \in [Callers -> Calls]
  BY OneCall DEF IInv, TypeOK, Calls
<1>2. call[c].pc = "idle" /\ call[c].out = <<>>
  BY <1>1 DEF Request, CallOK
<1>3. k \in Calls
  BY <1>1 DEF Calls, PCs, Over
<1>4. /\ k.out = <<>> /\ k.texts = texts
      /\ k.pc = IF texts = <<>> THEN "done" ELSE "wait"
  BY <1>1, <1>2 DEF Calls
<1>5. CallOK(k)
  <2>1. Len(k.out) = 0
    BY <1>4
  <2>2. Len(texts) \in Nat /\ (texts # <<>> => Len(texts) > 0)
    OBVIOUS
  <2>3. 0 % Size = 0
    BY SizeAndAttempts
  <2> HIDE DEF k
  <2> QED BY <1>4, <2>1, <2>2, <2>3 DEF CallOK, Open
<1>6. call' = [call EXCEPT ![c] = k] /\ UNCHANGED tokens
  BY <1>1 DEF Request
<1> HIDE DEF k
<1> QED BY <1>3, <1>5, <1>6, TokensStay, OneCallChanges

LEMMA TakeTokenIInv ==
    ASSUME IInv, NEW c \in Callers, TakeToken(c)
    PROVE  IInv'
<1> DEFINE k == [call[c] EXCEPT !.pc = "try", !.attempt = 0, !.paid = TRUE]
<1>1. call[c] \in Calls /\ CallOK(call[c]) /\ call \in [Callers -> Calls]
  BY OneCall DEF IInv, TypeOK, Calls
<1>2. k \in Calls
  <2>1. 0 \in 0..Attempts /\ "try" \in PCs
    BY SizeAndAttempts DEF PCs
  <2> QED BY <1>1, <2>1, Zenon DEF Calls
<1>3. k.pc = "try" /\ k.attempt = 0 /\ k.out = call[c].out /\ k.texts = call[c].texts
  BY <1>1 DEF Calls
<1>4. CallOK(k)
  <2> HIDE DEF k
  <2> QED BY <1>1, <1>3, SizeAndAttempts DEF CallOK, Open, TakeToken
<1>5. call' = [call EXCEPT ![c] = k]
  BY <1>1 DEF TakeToken
<1>6. tokens' \in 0..Burst
  BY ConnectorAssumption DEF TakeToken, IInv, TypeOK, ConnectorAssumption
<1> HIDE DEF k
<1> QED BY <1>2, <1>4, <1>5, <1>6, OneCallChanges

LEMMA TryIInv ==
    ASSUME IInv, NEW c \in Callers, Try(c)
    PROVE  IInv'
<1>1. call[c] \in Calls /\ CallOK(call[c]) /\ call \in [Callers -> Calls]
  BY OneCall DEF IInv, TypeOK, Calls
<1>2. call[c].pc = "try" /\ UNCHANGED tokens
  BY DEF Try
<1>3. CASE ReturnError(c)
  BY <1>2, <1>3, Fails, TokensStay DEF Open
<1>4. CASE call' = [call EXCEPT ![c].pc = "sent", ![c].attempt = @ + 1, ![c].paid = FALSE]
  <2> DEFINE k == [call[c] EXCEPT !.pc = "sent", !.attempt = @ + 1, !.paid = FALSE]
  <2>1. call[c].attempt + 1 \in 0..Attempts
    BY <1>1, <1>2, SizeAndAttempts DEF CallOK, Calls
  <2>2. k \in Calls
    BY <1>1, <2>1 DEF Calls, PCs, Over
  <2>3. k.pc = "sent" /\ k.out = call[c].out /\ k.texts = call[c].texts
    BY <1>1 DEF Calls
  <2>4. CallOK(k)
    <3> HIDE DEF k
    <3> QED BY <1>1, <1>2, <2>3 DEF CallOK, Open
  <2>5. call' = [call EXCEPT ![c] = k]
    BY <1>1, <1>4
  <2> HIDE DEF k
  <2> QED BY <1>2, <2>2, <2>4, <2>5, TokensStay, OneCallChanges
<1> QED BY <1>3, <1>4 DEF Try

\* The heart of it: the vectors of a slice are appended where its texts are.
LEMMA SliceDoneIInv ==
    ASSUME IInv, NEW c \in Callers, call[c].pc = "sent", UNCHANGED tokens,
           NEW data \in Answers(c), SliceDone(c, data)
    PROVE  IInv'
<1> DEFINE o == call[c].out
           t == call[c].texts
           out == o \o ByIndex(data)
           pc == IF Len(out) = Len(t) THEN "done" ELSE "wait"
           k == [call[c] EXCEPT !.out = out, !.pc = pc, !.attempt = 0]
<1>1. call[c] \in Calls /\ CallOK(call[c]) /\ call \in [Callers -> Calls]
  BY OneCall DEF IInv, TypeOK, Calls
<1>2. call[c].pc \in Open
  BY DEF Open
<1>3. o \in Seq(Texts) /\ t \in Seq(Texts) /\ Len(o) \in Nat /\ Len(t) \in Nat
  BY <1>1 DEF Calls
<1>4. /\ Slice(c) \in Seq(Texts)
      /\ \A i \in 1..Len(Slice(c)) : Slice(c)[i] = t[Len(o) + i]
  BY <1>2, SliceIs
<1>5. /\ Len(Slice(c)) \in 1..Size
      /\ Len(o) + Len(Slice(c)) <= Len(t)
      /\ Len(o) + Len(Slice(c)) = Len(t) \/ Len(Slice(c)) = Size
  <2>1. /\ Len(Slice(c)) = SliceEnd(c) - Len(o)
        /\ SliceEnd(c) \in Nat
        /\ SliceEnd(c) - Len(o) \in 1..Size
        /\ SliceEnd(c) <= Len(t)
        /\ SliceEnd(c) = Len(t) \/ SliceEnd(c) = Len(o) + Size
    BY <1>2, SliceIs, SliceBounds
  <2> HIDE DEF o, t
  <2> QED BY <1>3, <2>1, SizeAndAttempts, SMTT(30)
<1>6. out = o \o Slice(c)
  BY <1>4, SortedIsSlice
<1>7. Len(out) = Len(o) + Len(Slice(c)) /\ out \in Seq(Texts)
  BY <1>3, <1>4, <1>6
<1>8. \A i \in 1..Len(out) : out[i] = t[i]
  <2> SUFFICES ASSUME NEW i \in 1..Len(out) PROVE out[i] = t[i]
    OBVIOUS
  <2>1. CASE i <= Len(o)
    BY <1>1, <1>3, <1>4, <1>6, <1>7, <2>1 DEF CallOK
  <2>2. CASE i > Len(o)
    <3>1. i - Len(o) \in 1..Len(Slice(c))
      BY <1>3, <1>4, <1>7, <2>2, SMTT(30)
    <3>2. out[i] = Slice(c)[i - Len(o)]
      BY <1>3, <1>4, <1>6, <1>7, <2>2, <3>1
    <3>3. Len(o) + (i - Len(o)) = i
      BY <1>3, <3>1
    <3> QED BY <1>4, <3>1, <3>2, <3>3
  <2> QED BY <1>3, <2>1, <2>2
<1>9. Len(o) % Size = 0
  BY <1>1, <1>2 DEF CallOK
<1>10. Len(out) # Len(t) => Len(out) < Len(t) /\ Len(out) % Size = 0
  <2> SUFFICES ASSUME Len(out) # Len(t) PROVE Len(out) < Len(t) /\ Len(out) % Size = 0
    OBVIOUS
  <2>1. Len(out) = Len(o) + Size /\ Len(out) < Len(t)
    <3> HIDE DEF o, t, out
    <3> QED BY <1>3, <1>5, <1>7, SizeAndAttempts
  <2>2. (Len(o) + Size) % Size = 0
    BY <1>3, <1>9, SizeAndAttempts, NextMultiple
  <2> QED BY <2>1, <2>2
<1>11. pc \in {"done", "wait"} /\ pc \in PCs
  BY DEF PCs, Over
<1>12. k \in Calls
  <2>1. 0 \in 0..Attempts
    BY SizeAndAttempts
  <2> HIDE DEF out, pc
  <2> QED BY <1>1, <1>7, <1>11, <2>1 DEF Calls
<1>13. k.out = out /\ k.texts = t /\ k.pc = pc
  BY <1>1 DEF Calls
<1>14. call' = [call EXCEPT ![c] = k]
  BY <1>1 DEF SliceDone
<1>15. CallOK(k)
  <2>1. pc = "done" => Len(out) = Len(t)
    OBVIOUS
  <2>2. pc = "wait" => Len(out) # Len(t)
    OBVIOUS
  <2>3. Len(out) <= Len(t)
    BY <1>5, <1>7
  <2> HIDE DEF k, out, pc, t, o
  <2> QED BY <1>8, <1>10, <1>11, <1>13, <2>1, <2>2, <2>3 DEF CallOK, Open
<1> HIDE DEF k
<1> QED BY <1>12, <1>14, <1>15, TokensStay, OneCallChanges

LEMMA ReplyIInv ==
    ASSUME IInv, NEW c \in Callers, Reply(c)
    PROVE  IInv'
<1>1. call[c].pc = "sent" /\ call[c].pc \in Open /\ UNCHANGED tokens
  BY DEF Reply, Open
<1>2. PICK reply \in Replies :
        \/ /\ reply \in {"ok", "short"}
           /\ \E data \in IF reply = "ok" THEN Answers(c) ELSE ShortAnswers(c) :
                  IF CheckResult(c, data) THEN SliceDone(c, data) ELSE ReturnError(c)
        \/ /\ Transient(reply) /\ ~LastAttempt(c)
           /\ Return(c, "sleep")
        \/ ReturnError(c)
  BY DEF Reply
<1>3. ASSUME NEW data, data \in Answers(c) \/ data \in ShortAnswers(c),
             IF CheckResult(c, data) THEN SliceDone(c, data) ELSE ReturnError(c)
      PROVE  IInv'
  <2>1. CASE CheckResult(c, data)
    <3>1. data \in Answers(c)
      BY <1>1, <1>3, <2>1, ShortIsCaught
    <3> QED BY <1>1, <1>3, <2>1, <3>1, SliceDoneIInv
  <2>2. CASE ~CheckResult(c, data)
    BY <1>1, <1>3, <2>2, Fails, TokensStay
  <2> QED BY <2>1, <2>2
<1>4. CASE ~LastAttempt(c) /\ Return(c, "sleep")
  <2>1. call[c] \in Calls /\ CallOK(call[c])
    BY OneCall
  <2>2. call[c].attempt < Attempts
    BY <1>4, <2>1, SizeAndAttempts DEF LastAttempt, Calls
  <2>3. CallOK([call[c] EXCEPT !.pc = "sleep"])
    BY <1>1, <2>1, <2>2 DEF CallOK, Calls, Open
  <2>4. "sleep" \in PCs
    BY DEF PCs
  <2> QED BY <1>1, <1>4, <2>3, <2>4, OnlyMoves, TokensStay
<1>5. CASE ReturnError(c)
  BY <1>1, <1>5, Fails, TokensStay
<1> QED BY <1>2, <1>3, <1>4, <1>5

LEMMA TimerFiresIInv ==
    ASSUME IInv, NEW c \in Callers, TimerFires(c)
    PROVE  IInv'
<1>1. call[c] \in Calls /\ CallOK(call[c]) /\ call[c].pc = "sleep"
  BY OneCall DEF TimerFires
<1>2. CallOK([call[c] EXCEPT !.pc = "try"])
  BY <1>1 DEF CallOK, Calls, Open
<1>3. "try" \in PCs
  BY DEF PCs
<1> QED BY <1>2, <1>3, OnlyMoves, TokensStay DEF TimerFires

LEMMA GiveUpIInv ==
    ASSUME IInv, NEW c \in Callers, GiveUp(c)
    PROVE  IInv'
<1> DEFINE k == [call[c] EXCEPT !.gaveUp = TRUE]
<1>1. call[c] \in Calls /\ CallOK(call[c]) /\ call \in [Callers -> Calls]
  BY OneCall DEF IInv, TypeOK, Calls
<1>2. k \in Calls /\ CallOK(k)
  BY <1>1 DEF CallOK, Calls
<1>3. call' = [call EXCEPT ![c] = k] /\ UNCHANGED tokens
  BY <1>1 DEF GiveUp
<1> HIDE DEF k
<1> QED BY <1>2, <1>3, TokensStay, OneCallChanges

LEMMA NextIInv == IInv /\ [Next]_vars => IInv'
<1> SUFFICES ASSUME IInv, [Next]_vars PROVE IInv'
  OBVIOUS
<1>1. ASSUME NEW c \in Callers, Batched(c) PROVE IInv'
  BY <1>1, BatchedIInv, InputsAreTexts DEF Batched
<1>2. ASSUME NEW c \in Callers, Step(c) PROVE IInv'
  <2>1. CASE TakeToken(c)
    BY <2>1, TakeTokenIInv
  <2>2. CASE WaitFails(c)
    BY <2>2, Fails, TokensStay DEF WaitFails, Open
  <2>3. CASE Try(c)
    BY <2>3, TryIInv
  <2>4. CASE Reply(c)
    BY <2>4, ReplyIInv
  <2>5. CASE RequestCancelled(c)
    BY <2>5, Fails, TokensStay DEF RequestCancelled, Open
  <2>6. CASE TimerFires(c)
    BY <2>6, TimerFiresIInv
  <2>7. CASE SleepCancelled(c)
    BY <2>7, Fails, TokensStay DEF SleepCancelled, Open
  <2> QED BY <1>2, <2>1, <2>2, <2>3, <2>4, <2>5, <2>6, <2>7 DEF Step
<1>3. ASSUME NEW c \in Callers, GiveUp(c) PROVE IInv'
  BY <1>3, GiveUpIInv
<1>4. CASE RefillToken
  BY <1>4, ConnectorAssumption DEF RefillToken, IInv, TypeOK, CallOK, ConnectorAssumption
<1>5. CASE UNCHANGED vars
  BY <1>5 DEF vars, IInv, TypeOK, CallOK
<1> QED BY <1>1, <1>2, <1>3, <1>4, <1>5 DEF Next

LEMMA Invariant == Spec => []IInv
BY InitIInv, NextIInv, PTL DEF Spec

-----------------------------------------------------------------------------
\* No slice is asked for more often than the policy allows, and the limiter
\* never gives out a token it does not have.
THEOREM TypeCorrect == Spec => []TypeOK
<1>1. IInv => TypeOK
  BY DEF IInv
<1> QED BY <1>1, Invariant, PTL

\* Vector i of a finished call is the vector of its text i, however the texts
\* were cut into slices, in whatever order the vendor answered and however
\* often a slice had to be tried.
THEOREM VectorsKeepOrder == Spec => []VectorsInOrder
<1>1. IInv => VectorsInOrder
  <2> SUFFICES ASSUME IInv, NEW c \in Callers, call[c].pc = "done"
               PROVE  call[c].out = call[c].texts
    BY DEF VectorsInOrder
  <2>1. call[c].out \in Seq(Texts) /\ call[c].texts \in Seq(Texts)
    BY OneCall DEF Calls
  <2>2. Len(call[c].out) = Len(call[c].texts)
    BY OneCall DEF CallOK
  <2>3. \A i \in 1..Len(call[c].out) : call[c].out[i] = call[c].texts[i]
    BY OneCall DEF CallOK
  <2> QED BY <2>1, <2>2, <2>3
<1> QED BY <1>1, Invariant, PTL

\* Every request is for a slice the vendor accepts, beginning where the last
\* complete one ended.
THEOREM SlicesAlwaysFit == Spec => []SlicesFit
<1>1. IInv => SlicesFit
  <2> SUFFICES ASSUME IInv, NEW c \in Callers, call[c].pc = "sent"
               PROVE  Len(Slice(c)) \in 1..Size /\ Len(call[c].out) % Size = 0
    BY DEF SlicesFit
  <2>1. call[c].pc \in Open
    BY DEF Open
  <2> QED BY <2>1, SliceIs, SliceBounds, OneCall DEF CallOK
<1> QED BY <1>1, Invariant, PTL

\* A caller that has given up costs no further request.
THEOREM GivingUpStopsRequests == Spec => NoRequestAfterGivingUp
<1>1. IInv /\ [Next]_vars =>
        [\A c \in Callers : call[c].gaveUp => call'[c].attempt <= call[c].attempt]_vars
  <2> SUFFICES ASSUME IInv, Next, NEW c \in Callers, call[c].gaveUp
               PROVE  call'[c].attempt <= call[c].attempt
    OBVIOUS
  <2>1. call \in [Callers -> Calls] /\ call[c] \in Calls /\ call[c].attempt \in Nat
    BY OneCall, SizeAndAttempts DEF IInv, TypeOK, Calls
  <2>2. ASSUME NEW d \in Callers, ReturnError(d) \/ \E pc : Return(d, pc)
        PROVE  call'[c].attempt <= call[c].attempt
    <3>1. CASE ReturnError(d)
      BY <2>1, <3>1 DEF ReturnError, Calls
    <3>2. ASSUME NEW pc, Return(d, pc) PROVE call'[c].attempt = call[c].attempt
      BY <2>1, <3>2 DEF Return, Calls
    <3> QED BY <2>1, <2>2, <3>1, <3>2
  <2>3. ASSUME NEW d \in Callers, Batched(d) PROVE call'[c].attempt = call[c].attempt
    BY <2>1, <2>3 DEF Batched, Request, Calls
  <2>4. ASSUME NEW d \in Callers, TakeToken(d) PROVE call'[c].attempt <= call[c].attempt
    BY <2>1, <2>4 DEF TakeToken, Calls
  <2>5. ASSUME NEW d \in Callers, Try(d) PROVE call'[c].attempt <= call[c].attempt
    <3>1. CASE ReturnError(d)
      BY <2>2, <3>1
    <3>2. CASE ~ContextDone(d)
               /\ call' = [call EXCEPT ![d].pc = "sent", ![d].attempt = @ + 1, ![d].paid = FALSE]
      <4>1. d # c
        BY <3>2 DEF ContextDone
      <4> QED BY <2>1, <3>2, <4>1
    <3> QED BY <2>5, <3>1, <3>2 DEF Try
  <2>6. ASSUME NEW d \in Callers, Reply(d) PROVE call'[c].attempt <= call[c].attempt
    <3>1. \/ \E data : SliceDone(d, data)
          \/ ReturnError(d) \/ \E pc : Return(d, pc)
      BY <2>6 DEF Reply
    <3>2. ASSUME NEW data, SliceDone(d, data) PROVE call'[c].attempt <= call[c].attempt
      BY <2>1, <3>2 DEF SliceDone, Calls
    <3> QED BY <2>2, <3>1, <3>2
  <2>7. ASSUME NEW d \in Callers, GiveUp(d) PROVE call'[c].attempt = call[c].attempt
    BY <2>1, <2>7 DEF GiveUp, Calls
  <2>8. ASSUME NEW d \in Callers,
               WaitFails(d) \/ RequestCancelled(d) \/ TimerFires(d) \/ SleepCancelled(d)
        PROVE  call'[c].attempt <= call[c].attempt
    BY <2>2, <2>8 DEF WaitFails, RequestCancelled, TimerFires, SleepCancelled
  <2>9. CASE RefillToken
    BY <2>1, <2>9 DEF RefillToken
  <2> QED BY <2>1, <2>3, <2>4, <2>5, <2>6, <2>7, <2>8, <2>9 DEF Next, Step
<1> QED BY <1>1, Invariant, PTL DEF Spec, NoRequestAfterGivingUp
-----------------------------------------------------------------------------
(***************************************************************************)
(* What a step does to any call, whatever is embedded or generated: enough *)
(* for a component that makes its calls through a connector.               *)
(***************************************************************************)
Shaped(k) == {"texts", "attempt", "gaveUp"} \subseteq DOMAIN k /\ k.attempt \in Nat

CallsShaped == DOMAIN call = Callers /\ \A c \in Callers : Shaped(call[c])

\* k asks for what x asked for and makes no request that x has given up.
Continues(x, k) ==
    /\ Shaped(k)
    /\ k.texts = x.texts
    /\ k.gaveUp = x.gaveUp
    /\ x.gaveUp => k.attempt <= x.attempt

LEMMA OneContinues ==
    ASSUME CallsShaped, NEW d \in Callers, NEW k, Continues(call[d], k),
           call' = [call EXCEPT ![d] = k]
    PROVE  /\ CallsShaped' /\ \A c \in Callers : Continues(call[c], call'[c])
           /\ \A c \in Callers \ {d} : call'[c] = call[c]
<1>1. /\ DOMAIN call' = Callers /\ call'[d] = k
      /\ \A c \in Callers \ {d} : call'[c] = call[c]
  BY DEF CallsShaped
<1>2. ASSUME NEW c \in Callers PROVE Continues(call[c], call'[c])
  <2>1. CASE c = d
    BY <1>1, <2>1
  <2>2. CASE c # d
    <3>1. Shaped(call[c]) /\ call'[c] = call[c]
      BY <1>1, <2>2 DEF CallsShaped
    <3>2. call[c].attempt <= call[c].attempt
      BY <3>1 DEF Shaped
    <3> QED BY <3>1, <3>2 DEF Continues
  <2> QED BY <2>1, <2>2
<1>3. CallsShaped'
  BY <1>1, <1>2 DEF CallsShaped, Continues
<1> QED BY <1>1, <1>2, <1>3

\* A new request, or a caller that gives up, is no step; the calls keep shape.
LEMMA ShapedAfter ==
    ASSUME CallsShaped, NEW d \in Callers, NEW k, Shaped(k), call' = [call EXCEPT ![d] = k]
    PROVE  CallsShaped'
BY DEF CallsShaped

LEMMA IInvShaped == ASSUME IInv PROVE CallsShaped
<1>1. call \in [Callers -> Calls]
  BY DEF IInv, TypeOK, Calls
<1>2. ASSUME NEW k \in Calls PROVE Shaped(k)
  BY SizeAndAttempts DEF Calls, Shaped
<1> QED BY <1>1, <1>2 DEF CallsShaped

LEMMA StepContinues ==
    ASSUME CallsShaped, NEW d \in Callers, Step(d)
    PROVE  /\ CallsShaped' /\ \A c \in Callers : Continues(call[c], call'[c])
           /\ \A c \in Callers \ {d} : call'[c] = call[c]
<1> DEFINE x == call[d]
<1>1. Shaped(x) /\ DOMAIN call = Callers
  BY DEF CallsShaped
<1>2. ASSUME NEW pc, Return(d, pc) PROVE \E k : Continues(x, k) /\ call' = [call EXCEPT ![d] = k]
  <2> DEFINE k == [x EXCEPT !.pc = pc]
  <2>1. call' = [call EXCEPT ![d] = k]
    BY <1>1, <1>2 DEF Return
  <2>2. Continues(x, k)
    <3> HIDE DEF x
    <3> QED BY <1>1 DEF Continues, Shaped
  <2> QED BY <2>1, <2>2
<1>3. ASSUME ReturnError(d) PROVE \E k : Continues(x, k) /\ call' = [call EXCEPT ![d] = k]
  <2> DEFINE k == [x EXCEPT !.pc = "error", !.attempt = 0]
  <2>1. call' = [call EXCEPT ![d] = k]
    BY <1>1, <1>3 DEF ReturnError
  <2>2. Continues(x, k)
    <3> HIDE DEF x
    <3> QED BY <1>1 DEF Continues, Shaped
  <2> QED BY <2>1, <2>2
<1>4. ASSUME NEW data, SliceDone(d, data)
      PROVE  \E k : Continues(x, k) /\ call' = [call EXCEPT ![d] = k]
  <2> DEFINE out == x.out \o ByIndex(data)
             pc == IF Len(out) = Len(x.texts) THEN "done" ELSE "wait"
             k == [x EXCEPT !.out = out, !.pc = pc, !.attempt = 0]
  <2>1. call' = [call EXCEPT ![d] = k]
    BY <1>1, <1>4 DEF SliceDone
  <2>2. Continues(x, k)
    <3> HIDE DEF x, out, pc
    <3> QED BY <1>1 DEF Continues, Shaped
  <2> QED BY <2>1, <2>2
<1>5. ASSUME TakeToken(d) PROVE \E k : Continues(x, k) /\ call' = [call EXCEPT ![d] = k]
  <2> DEFINE k == [x EXCEPT !.pc = "try", !.attempt = 0, !.paid = TRUE]
  <2>1. call' = [call EXCEPT ![d] = k] /\ ~x.gaveUp
    BY <1>1, <1>5 DEF TakeToken
  <2>2. Continues(x, k)
    <3> HIDE DEF x
    <3> QED BY <1>1, <2>1 DEF Continues, Shaped
  <2> QED BY <2>1, <2>2
<1>6. ASSUME ~x.gaveUp,
             call' = [call EXCEPT ![d].pc = "sent", ![d].attempt = @ + 1, ![d].paid = FALSE]
      PROVE  \E k : Continues(x, k) /\ call' = [call EXCEPT ![d] = k]
  <2> DEFINE k == [x EXCEPT !.pc = "sent", !.attempt = @ + 1, !.paid = FALSE]
  <2>1. call' = [call EXCEPT ![d] = k]
    BY <1>1, <1>6
  <2>2. Continues(x, k)
    <3> HIDE DEF x
    <3> QED BY <1>1, <1>6 DEF Continues, Shaped
  <2> QED BY <2>1, <2>2
<1>7. CASE Reply(d)
  <2>1. (\E data : SliceDone(d, data)) \/ ReturnError(d) \/ (\E pc : Return(d, pc))
    BY <1>7 DEF Reply
  <2> QED BY <1>2, <1>4, <1>3, <2>1, OneContinues
<1>8. CASE Try(d)
  <2>1. \/ ReturnError(d)
        \/ ~x.gaveUp /\ call' = [call EXCEPT ![d].pc = "sent", ![d].attempt = @ + 1, ![d].paid = FALSE]
    BY <1>8 DEF Try, ContextDone
  <2> HIDE DEF x
  <2> QED BY <1>3, <1>6, <2>1, OneContinues DEF x
<1>9. CASE TakeToken(d)
  BY <1>5, <1>9, OneContinues
<1>10. CASE ReturnError(d) \/ \E pc : Return(d, pc)
  BY <1>2, <1>10, <1>3, OneContinues
<1> QED BY <1>7, <1>8, <1>9, <1>10
        DEF Step, WaitFails, RequestCancelled, TimerFires, SleepCancelled
=============================================================================
