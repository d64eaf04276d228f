-------------------------- MODULE HttpServerProofs --------------------------
(***************************************************************************)
(* What holds of HttpServer for any number of requests.                    *)
(***************************************************************************)
EXTENDS HttpServer, FiniteSetTheorems, TLAPS

-----------------------------------------------------------------------------
(***************************************************************************)
(* The fields of a request, by name: the provers need not look into them.  *)
(***************************************************************************)
Pcs == {"unsent", "answered", "dropped"} \cup Inside
Codes == {0, 200, 202, 400, 401, 409, 500, 502, 503, 504}
Bodies == Status \cup {None}
Errs == Errors \cup {"none"}

LEMMA RequestFields ==
    Request = [pc: Pcs, kind: Kinds \cup {None}, done: BOOLEAN,
               code: Codes, err: Errs, body: Bodies]
BY DEF Request, Pcs, Codes, Bodies, Errs

LEMMA SetDone ==
    ASSUME NEW q \in Request
    PROVE  LET st == [q EXCEPT !.done = TRUE]
           IN  st \in Request /\ st.pc = q.pc /\ st.body = q.body
               /\ st.err = q.err /\ st.done = TRUE
BY RequestFields

LEMMA SetPc ==
    ASSUME NEW q \in Request, NEW pc \in Pcs
    PROVE  LET st == [q EXCEPT !.pc = pc]
           IN  st \in Request /\ st.pc = pc /\ st.body = q.body
               /\ st.err = q.err /\ st.done = q.done
BY RequestFields

\* What the handlers write is in those sets.
LEMMA Written ==
    /\ "auth" \in Inside /\ "written" \in Inside /\ Inside \subseteq Pcs
    /\ "answered" \in Pcs /\ "dropped" \in Pcs
BY DEF Inside, Pcs

LEMMA WrittenCode ==
    ASSUME NEW code \in {200, 202, 400, 401, 409, 500, 502, 503, 504}
    PROVE  code \in Codes
BY DEF Codes

(***************************************************************************)
(* What the step of one request does to its record.                        *)
(***************************************************************************)
\* Whose fault a failure is.
BlamesRight(q) == q.err = "context" => q.done

ErrorOf(r, st) ==
    /\ st.err = "closed" => req[r].err = "closed" \/ closed
    /\ BlamesRight(req[r]) => BlamesRight(st)

BecomesAfter(r, st) ==
    /\ st \in Request
    /\ req' = [req EXCEPT ![r] = st]
    /\ st.pc \in Inside \cup {"answered"}
    /\ r \in InFlight \/ server = "serving"
    /\ st.body \in {req[r].body, None, ix}
    /\ ErrorOf(r, st)

OneRequest(r) == \E st \in Request : BecomesAfter(r, st)

\* The steps that change nothing but one request's record.
RequestOnly == UNCHANGED <<serving, ix, pass>>

LEMMA GotoStep ==
    ASSUME TypeOK, NEW r \in Requests, NEW pc \in Inside \cup {"answered"},
           r \in InFlight, Goto(r, pc)
    PROVE  OneRequest(r)
<1> DEFINE st == [req[r] EXCEPT !.pc = pc]
<1>1. req \in [Requests -> Request] /\ req[r] \in Request
    BY DEF TypeOK
<1>2. st \in Request /\ st.pc = pc /\ st.body = req[r].body
      /\ st.err = req[r].err /\ st.done = req[r].done
    BY <1>1, SetPc, Written
<1>3. req' = [req EXCEPT ![r] = st]
    BY <1>1 DEF Goto
<1> HIDE DEF st
<1>4. QED BY <1>2, <1>3 DEF OneRequest, BecomesAfter, ErrorOf, BlamesRight

LEMMA WriteStep ==
    ASSUME TypeOK, NEW r \in Requests, r \in InFlight,
           NEW code \in Codes, NEW body \in {None, ix}, Write(r, code, body)
    PROVE  OneRequest(r)
<1> DEFINE st == [req[r] EXCEPT !.pc = "written", !.code = code, !.body = body]
<1>1. req \in [Requests -> Request] /\ req[r] \in Request
    BY DEF TypeOK
<1>2. body \in Bodies
    BY DEF TypeOK, Bodies
<1>3. st \in Request /\ st.pc = "written" /\ st.body = body
      /\ st.err = req[r].err /\ st.done = req[r].done
    <2>1. "written" \in Pcs
        BY Written
    <2>2. st \in Request
        BY <1>1, <1>2, <2>1, RequestFields
    <2>3. QED BY <1>1, <2>2, RequestFields
<1>4. req' = [req EXCEPT ![r] = st]
    BY <1>1 DEF Write
<1> HIDE DEF st
<1>5. BecomesAfter(r, st)
    BY <1>3, <1>4, Written DEF BecomesAfter, ErrorOf, BlamesRight
<1>6. QED BY <1>3, <1>5 DEF OneRequest

\* A failure is blamed on the closed pool or on the context only when that is so.
LEMMA FailStep ==
    ASSUME TypeOK, NEW r \in Requests, r \in InFlight, NEW err \in Errors, Fail(r, err),
           err = "closed" => closed, err = "context" => req[r].done
    PROVE  OneRequest(r)
<1> DEFINE code == FailureCode(r, err)
<1>1. code \in Codes
    BY WrittenCode DEF FailureCode
<1> DEFINE st == [req[r] EXCEPT !.pc = "written", !.err = err, !.code = code]
<1>2. req \in [Requests -> Request] /\ req[r] \in Request
    BY DEF TypeOK
<1>3. st \in Request /\ st.pc = "written" /\ st.body = req[r].body
      /\ st.err = err /\ st.done = req[r].done
    <2>1. "written" \in Pcs /\ err \in Errs
        BY Written DEF Errs
    <2> HIDE DEF code
    <2>2. st \in Request
        BY <1>1, <1>2, <2>1, RequestFields
    <2>3. QED BY <1>2, <2>2, RequestFields
<1>4. req' = [req EXCEPT ![r] = st]
    BY <1>2 DEF Fail
<1> HIDE DEF st
<1>5. BecomesAfter(r, st)
    BY <1>3, <1>4, Written DEF BecomesAfter, ErrorOf, BlamesRight
<1>6. QED BY <1>3, <1>5 DEF OneRequest

LEMMA ArriveStep ==
    ASSUME TypeOK, NEW r \in Requests, Arrive(r)
    PROVE  OneRequest(r)
<1>1. PICK kind \in Kinds : req' = [req EXCEPT ![r].pc = "auth", ![r].kind = kind]
    BY DEF Arrive
<1> DEFINE st == [req[r] EXCEPT !.pc = "auth", !.kind = kind]
<1>2. req \in [Requests -> Request] /\ req[r] \in Request
    BY DEF TypeOK
<1>3. st \in Request /\ st.pc = "auth" /\ st.body = req[r].body
      /\ st.err = req[r].err /\ st.done = req[r].done
    <2>1. "auth" \in Pcs
        BY Written
    <2>2. st \in Request
        BY <1>2, <2>1, RequestFields
    <2>3. QED BY <1>2, <2>2, RequestFields
<1>4. req' = [req EXCEPT ![r] = st]
    BY <1>1, <1>2
<1>5. server = "serving"
    BY DEF Arrive
<1> HIDE DEF st
<1>6. BecomesAfter(r, st)
    BY <1>3, <1>4, <1>5, Written DEF BecomesAfter, ErrorOf, BlamesRight
<1>7. QED BY <1>3, <1>6 DEF OneRequest

LEMMA RecoverStep ==
    ASSUME TypeOK, NEW r \in Requests, Recover(r)
    PROVE  OneRequest(r)
<1>1. req \in [Requests -> Request] /\ req[r] \in Request
    BY DEF TypeOK
<1>2. r \in InFlight
    BY DEF Recover, At, InFlight, Inside
<1>3. PICK code \in Codes : code = 500
    BY WrittenCode
<1> DEFINE st == [req[r] EXCEPT !.pc = "answered", !.code = code]
<1>4. st \in Request /\ st.pc = "answered" /\ st.body = req[r].body
      /\ st.err = req[r].err /\ st.done = req[r].done
    <2>1. "answered" \in Pcs
        BY Written
    <2>2. st \in Request
        BY <1>1, <2>1, RequestFields
    <2>3. QED BY <1>1, <2>2, RequestFields
<1>5. req' = [req EXCEPT ![r] = st]
    BY <1>1, <1>3 DEF Recover
<1> HIDE DEF st
<1>6. BecomesAfter(r, st)
    BY <1>2, <1>4, <1>5 DEF BecomesAfter, ErrorOf, BlamesRight
<1>7. QED BY <1>4, <1>6 DEF OneRequest

LEMMA RequestEndsStep ==
    ASSUME TypeOK, NEW r \in Requests, RequestEnds(r)
    PROVE  OneRequest(r)
<1>1. req \in [Requests -> Request] /\ req[r] \in Request /\ req[r].pc \in Inside
    BY DEF TypeOK, RequestEnds, InFlight
<1> DEFINE st == [req[r] EXCEPT !.done = TRUE]
<1>2. st \in Request /\ st.pc = req[r].pc /\ st.body = req[r].body
      /\ st.err = req[r].err /\ st.done = TRUE
    BY <1>1, SetDone
<1>3. req' = [req EXCEPT ![r] = st]
    BY <1>1 DEF RequestEnds
<1>4. r \in InFlight
    BY DEF RequestEnds
<1> HIDE DEF st
<1>5. QED BY <1>1, <1>2, <1>3, <1>4 DEF OneRequest, BecomesAfter, ErrorOf, BlamesRight

\* The steps of a request in its service.
ServiceStep(r) ==
    \/ CallService(r) \/ Query(r) \/ QueryReturns(r) \/ UpstreamReturns(r)
    \/ UpstreamCancelled(r)

LEMMA ServiceSteps ==
    ASSUME TypeOK, NEW r \in Requests, ServiceStep(r)
    PROVE  OneRequest(r) /\ RequestOnly
<1>1. r \in InFlight
    BY DEF ServiceStep, CallService, Query, QueryReturns, UpstreamReturns,
           UpstreamCancelled, At, InFlight, Inside
<1>2. \/ \E pc \in Inside : Goto(r, pc)
      \/ \E code \in {200, 400} : Write(r, code, None)
      \/ \E err \in Errors : /\ Fail(r, err)
                             /\ err = "closed" => closed
                             /\ err = "context" => req[r].done
    BY DEF ServiceStep, CallService, Query, QueryReturns, UpstreamReturns,
           UpstreamCancelled, RequestDone, BaseDone, Inside, Errors
<1>3. OneRequest(r)
    BY <1>1, <1>2, GotoStep, WriteStep, FailStep, WrittenCode
<1>4. RequestOnly
    BY DEF ServiceStep, CallService, Query, QueryReturns, UpstreamReturns,
           UpstreamCancelled, RequestOnly
<1>5. QED BY <1>3, <1>4

\* Every step inside one request is of one of these forms.
RequestStep(r) ==
    \/ Arrive(r) \/ Auth(r) \/ ServiceStep(r) \/ Recover(r) \/ Log(r) \/ RequestEnds(r)
    \/ Snapshot(r)

LEMMA RequestSteps ==
    ASSUME TypeOK, NEW r \in Requests, RequestStep(r)
    PROVE  OneRequest(r) /\ RequestOnly
<1>1. CASE Arrive(r) \/ Recover(r) \/ RequestEnds(r)
    BY <1>1, ArriveStep, RecoverStep, RequestEndsStep
       DEF Arrive, Recover, RequestEnds, RequestOnly
<1>2. CASE Auth(r)
    <2>1. r \in InFlight
        BY <1>2 DEF Auth, At, InFlight, Inside
    <2>2. (\E pc \in Inside : Goto(r, pc)) \/ Write(r, 401, None)
        BY <1>2 DEF Auth, Inside
    <2>3. QED BY <1>2, <2>1, <2>2, GotoStep, WriteStep, WrittenCode DEF Auth, RequestOnly
<1>3. CASE Log(r)
    <2>1. r \in InFlight /\ Goto(r, "answered")
        BY <1>3 DEF Log, At, InFlight, Inside
    <2>2. QED BY <1>3, <2>1, GotoStep DEF Log, RequestOnly
<1>4. CASE Snapshot(r)
    <2>1. r \in InFlight
        BY <1>4 DEF Snapshot, At, InFlight, Inside
    <2>2. \E code \in {200, 202, 409} : Write(r, code, ix)
        BY <1>4 DEF Snapshot
    <2>3. QED BY <1>4, <2>1, <2>2, WriteStep, WrittenCode DEF Snapshot, RequestOnly
<1>5. QED BY <1>1, <1>2, <1>3, <1>4, ServiceSteps DEF RequestStep

LEMMA StartStep ==
    ASSUME TypeOK, NEW r \in Requests, Start(r)
    PROVE  OneRequest(r)
<1>1. r \in InFlight
    BY DEF Start, At, InFlight, Inside
<1>2. \E pc \in Inside : Goto(r, pc)
    BY DEF Start, Inside
<1>3. QED BY <1>1, <1>2, GotoStep

\* The steps of a pass, and those of Serve and main up to the exit.
PassOnly(r) ==
    PassQueries(r) \/ PassQueryReturns(r) \/ PassReturns(r)

StopStep ==
    \/ Signal \/ ListenerFails \/ BeginShutdown \/ GraceElapses \/ ShutdownReturns
    \/ CloseKnowledge

LEMMA Steps ==
    ASSUME [Next]_vars
    PROVE  \/ \E r \in Requests :
                RequestStep(r) \/ Start(r) \/ PassOnly(r) \/ PassEnds(r)
           \/ StopStep \/ Exit \/ UNCHANGED vars
BY DEF Next, HandlerStep, PassStep, Shutdown, RequestStep, ServiceStep, PassOnly, StopStep

-----------------------------------------------------------------------------
(***************************************************************************)
(* Type correctness.                                                       *)
(***************************************************************************)
PassType == [Requests -> {"none", "over", "lost"} \cup Underway]

LEMMA OneRequestType ==
    ASSUME TypeOK, NEW r \in Requests, OneRequest(r)
    PROVE  req' \in [Requests -> Request]
BY DEF TypeOK, OneRequest, BecomesAfter

LEMMA TypeStep == TypeOK /\ [Next]_vars => TypeOK'
<1> SUFFICES ASSUME TypeOK, [Next]_vars PROVE TypeOK'
    OBVIOUS
<1>1. ASSUME NEW r \in Requests, OneRequest(r), RequestOnly
      PROVE  TypeOK'
    BY <1>1, OneRequestType DEF TypeOK, RequestOnly, serving
<1>2. ASSUME NEW r \in Requests, Start(r)
      PROVE  TypeOK'
    <2>1. req' \in [Requests -> Request]
        BY <1>2, StartStep, OneRequestType
    <2>2. ix' \in Status
        BY <1>2 DEF Start, Started, Status, TypeOK
    <2>3. pass' \in PassType
        BY <1>2 DEF Start, TypeOK, Underway, PassType
    <2>4. QED BY <1>2, <2>1, <2>2, <2>3 DEF Start, TypeOK, PassType, serving
<1>3. ASSUME NEW r \in Requests, PassOnly(r) \/ PassEnds(r)
      PROVE  TypeOK'
    <2>1. pass' \in PassType
        BY <1>3 DEF PassOnly, PassQueries, PassQueryReturns, PassReturns, PassEnds,
                    TypeOK, Underway, PassType
    <2>2. ix' \in Status
        BY <1>3 DEF PassOnly, PassQueries, PassQueryReturns, PassReturns, PassEnds,
                    Finished, Status, TypeOK
    <2>3. QED BY <1>3, <2>1, <2>2
              DEF PassOnly, PassQueries, PassQueryReturns, PassReturns, PassEnds, TypeOK,
                  PassType, serving
<1>4. CASE StopStep
    BY <1>4 DEF StopStep, Signal, ListenerFails, BeginShutdown, GraceElapses,
                ShutdownReturns, CloseKnowledge, TypeOK
<1>5. CASE Exit
    <2>1. ASSUME NEW r \in Requests
          PROVE  req[r] \in Request /\ [req[r] EXCEPT !.pc = "dropped"] \in Request
        BY SetPc, Written DEF TypeOK
    <2>2. req' \in [Requests -> Request]
        BY <1>5, <2>1 DEF Exit
    <2>3. QED BY <1>5, <2>2 DEF Exit, TypeOK
<1>6. CASE UNCHANGED vars
    BY <1>6 DEF vars, serving, TypeOK
<1>7. QED
    BY <1>1, <1>2, <1>3, <1>4, <1>5, <1>6, Steps, RequestSteps

LEMMA TypeInit == Init => TypeOK
<1>1. "unsent" \in Pcs /\ 0 \in Codes /\ None \in Bodies /\ "none" \in Errs
    BY DEF Pcs, Codes, Bodies, Errs
<1>2. [pc |-> "unsent", kind |-> None, done |-> FALSE, code |-> 0,
       err |-> "none", body |-> None] \in Request
    BY <1>1, RequestFields
<1>3. Init => req \in [Requests -> Request]
    BY <1>2 DEF Init
<1>4. Init => ix \in Status /\ pass \in [Requests -> {"none", "over", "lost"} \cup Underway]
    BY DEF Init, Status
<1>5. QED BY <1>3, <1>4 DEF Init, TypeOK

\* Every variable keeps its type.
THEOREM TypeCorrect == Spec => []TypeOK
<1> QED BY TypeInit, TypeStep, PTL DEF Spec

-----------------------------------------------------------------------------
(***************************************************************************)
(* One pass at a time, and answers that tell of one pass.  A pass underway *)
(* is the one the status says is running, so there is one, its end finds   *)
(* the status it left, and every snapshot is of one pass.                  *)
(***************************************************************************)
PassIsTheStatus == \A r \in Requests :
    pass[r] \in Underway => alive /\ ix.state = "running" /\ ix.started = r

IndexerInv == PassIsTheStatus /\ TellsOnePass(ix)

LEMMA IndexerStep == TypeOK /\ IndexerInv /\ [Next]_vars => IndexerInv'
<1> SUFFICES ASSUME TypeOK, IndexerInv, [Next]_vars PROVE IndexerInv'
    OBVIOUS
<1> USE DEF IndexerInv, PassIsTheStatus
<1>1. CASE UNCHANGED <<alive, ix, pass>>
    BY <1>1 DEF TellsOnePass
<1>2. ASSUME NEW r \in Requests, Start(r)
      PROVE  IndexerInv'
    <2>1. CASE UNCHANGED <<alive, ix, pass>>
        BY <1>1, <2>1
    <2>2. CASE ~Busy /\ ix' = Started(r) /\ pass' = [pass EXCEPT ![r] = "indexing"]
        <3>1. \A q \in Requests : pass[q] \notin Underway
            BY <2>2 DEF Busy
        <3>2. pass \in [Requests -> {"none", "over", "lost"} \cup Underway]
            BY DEF TypeOK
        <3>3. \A q \in Requests : pass'[q] \in Underway => q = r
            BY <2>2, <3>1, <3>2
        <3>4. ix'.state = "running" /\ ix'.started = r /\ ix'.result = None
            BY <2>2 DEF Started
        <3>5. alive'
            BY <1>2 DEF Start, At, serving
        <3>6. QED BY <3>3, <3>4, <3>5 DEF TellsOnePass
    <2>3. QED BY <1>2, <2>1, <2>2 DEF Start, serving
<1>3. ASSUME NEW r \in Requests, PassOnly(r)
      PROVE  IndexerInv'
    <2> USE DEF PassOnly, PassQueries, PassQueryReturns, PassReturns
    <2>1. pass \in [Requests -> {"none", "over", "lost"} \cup Underway]
        BY DEF TypeOK
    <2>2. \A q \in Requests : pass'[q] \in Underway => pass[q] \in Underway
        BY <1>3, <2>1 DEF Underway
    <2>3. UNCHANGED <<alive, ix>>
        BY <1>3 DEF serving
    <2>4. QED BY <2>2, <2>3 DEF TellsOnePass
<1>4. ASSUME NEW r \in Requests, PassEnds(r)
      PROVE  IndexerInv'
    <2>1. pass \in [Requests -> {"none", "over", "lost"} \cup Underway] /\ ix \in Status
        BY DEF TypeOK
    <2>2. ix.started = r /\ \A q \in Requests \ {r} : pass[q] \notin Underway
        BY <1>4 DEF PassEnds, Underway
    <2>3. \A q \in Requests : pass'[q] \notin Underway
        BY <1>4, <2>1, <2>2 DEF PassEnds, Underway
    <2>4. ix'.state \in {"done", "failed"} /\ ix'.result = r /\ ix'.started = r
        BY <1>4, <2>1, <2>2 DEF PassEnds, Finished, Status
    <2>5. r # None
        BY HttpAssumption
    <2>6. QED BY <2>3, <2>4, <2>5 DEF TellsOnePass
<1>5. CASE Exit
    <2>1. \A q \in Requests : pass'[q] \notin Underway
        BY <1>5 DEF Exit, Underway
    <2>2. ix' = ix
        BY <1>5 DEF Exit
    <2>3. QED BY <2>1, <2>2 DEF TellsOnePass
<1>6. CASE StopStep
    BY <1>1, <1>6 DEF StopStep, Signal, ListenerFails, BeginShutdown, GraceElapses,
                      ShutdownReturns, CloseKnowledge
<1>7. ASSUME NEW r \in Requests, RequestOnly
      PROVE  IndexerInv'
    BY <1>1, <1>7 DEF RequestOnly, serving
<1>8. CASE UNCHANGED vars
    BY <1>1, <1>8 DEF vars, serving
<1>9. QED
    BY <1>2, <1>3, <1>4, <1>5, <1>6, <1>7, <1>8, Steps, RequestSteps

LEMMA IndexerInvariant == Spec => [](TypeOK /\ IndexerInv)
<1>1. Init => TypeOK /\ IndexerInv
    BY TypeInit DEF Init, IndexerInv, PassIsTheStatus, TellsOnePass, Underway
<1>2. QED BY <1>1, TypeStep, IndexerStep, PTL DEF Spec

\* Passes run one at a time, however many requests ask for one.
THEOREM OnePass == Spec => []OnePassAtATime
<1>1. IndexerInv => OnePassAtATime
    <2> SUFFICES ASSUME IndexerInv PROVE OnePassAtATime
        OBVIOUS
    <2> DEFINE running == {r \in Requests : pass[r] \in Underway}
    <2>1. running \subseteq {ix.started}
        BY DEF IndexerInv, PassIsTheStatus
    <2>2. IsFiniteSet({ix.started}) /\ Cardinality({ix.started}) = 1
        BY FS_Singleton
    <2>3. Cardinality(running) <= 1
        BY <2>1, <2>2, FS_Subset
    <2>4. QED BY <2>3 DEF OnePassAtATime
<1>2. QED BY <1>1, IndexerInvariant, PTL

-----------------------------------------------------------------------------
(***************************************************************************)
(* What the requests are told.                                             *)
(***************************************************************************)
LEMMA OneRequestAnswers ==
    ASSUME TypeOK, IndexerInv, AnswersTellOnePass, NEW r \in Requests, OneRequest(r)
    PROVE  AnswersTellOnePass'
<1>1. PICK st \in Request : BecomesAfter(r, st)
    BY DEF OneRequest
<1>2. req \in [Requests -> Request] /\ req' = [req EXCEPT ![r] = st]
    BY <1>1 DEF TypeOK, BecomesAfter
<1>3. st.body # None => TellsOnePass(st.body)
    <2>1. st.body \in {req[r].body, None, ix}
        BY <1>1 DEF BecomesAfter
    <2>2. req[r].body # None => TellsOnePass(req[r].body)
        BY DEF AnswersTellOnePass
    <2>3. TellsOnePass(ix)
        BY DEF IndexerInv
    <2>4. QED BY <2>1, <2>2, <2>3
<1>4. ASSUME NEW q \in Requests
      PROVE  req'[q].body # None => TellsOnePass(req'[q].body)
    <2>1. CASE q = r
        BY <1>2, <1>3, <2>1
    <2>2. CASE q # r
        <3>1. req'[q] = req[q]
            BY <1>2, <2>2
        <3>2. QED BY <3>1 DEF AnswersTellOnePass
    <2>3. QED BY <2>1, <2>2
<1>5. QED BY <1>4 DEF AnswersTellOnePass, TellsOnePass

LEMMA AnswersStep ==
    TypeOK /\ IndexerInv /\ AnswersTellOnePass /\ [Next]_vars => AnswersTellOnePass'
<1> SUFFICES ASSUME TypeOK, IndexerInv, AnswersTellOnePass, [Next]_vars
             PROVE  AnswersTellOnePass'
    OBVIOUS
<1>1. CASE UNCHANGED req
    BY <1>1 DEF AnswersTellOnePass
<1>2. CASE Exit
    <2>1. ASSUME NEW q \in Requests
          PROVE  req'[q].body = req[q].body
        <3>1. req[q] \in Request
            BY DEF TypeOK
        <3>2. CASE req'[q] = req[q]
            BY <3>2
        <3>3. CASE req'[q] = [req[q] EXCEPT !.pc = "dropped"]
            BY <3>1, <3>3, RequestFields
        <3>4. QED BY <1>2, <3>2, <3>3 DEF Exit
    <2>2. QED BY <2>1 DEF AnswersTellOnePass
<1>3. ASSUME NEW r \in Requests, OneRequest(r)
      PROVE  AnswersTellOnePass'
    BY <1>3, OneRequestAnswers
<1>4. ASSUME NEW r \in Requests, PassOnly(r) \/ PassEnds(r)
      PROVE  AnswersTellOnePass'
    BY <1>1, <1>4 DEF PassOnly, PassQueries, PassQueryReturns, PassReturns, PassEnds
<1>5. CASE StopStep
    BY <1>1, <1>5 DEF StopStep, Signal, ListenerFails, BeginShutdown, GraceElapses,
                      ShutdownReturns, CloseKnowledge
<1>6. CASE UNCHANGED vars
    BY <1>1, <1>6 DEF vars
<1>7. QED
    BY <1>2, <1>3, <1>4, <1>5, <1>6, Steps, RequestSteps, StartStep

\* No status a client is ever shown mixes two passes.
THEOREM NoAnswerMixesPasses == Spec => []AnswersTellOnePass
<1>1. Init => AnswersTellOnePass
    BY DEF Init, AnswersTellOnePass
<1>2. Init => TypeOK /\ IndexerInv
    BY TypeInit DEF Init, IndexerInv, PassIsTheStatus, TellsOnePass, Underway
<1>3. QED BY <1>1, <1>2, TypeStep, IndexerStep, AnswersStep, PTL DEF Spec

-----------------------------------------------------------------------------
(***************************************************************************)
(* The drain.  What may still be in flight when the knowledge base is      *)
(* closed depends on why Serve returned.                                   *)
(***************************************************************************)
DrainInv ==
    /\ server = "stopped" => InFlight = {}
    /\ server = "cutoff" => grace
    /\ closed => server \in {"stopped", "cutoff", "broken"}
    /\ NothingDroppedWithinGrace

LEMMA OneRequestDrain ==
    ASSUME TypeOK, DrainInv, NEW r \in Requests, OneRequest(r),
           UNCHANGED <<server, grace, closed>>
    PROVE  DrainInv'
<1>1. PICK st \in Request : BecomesAfter(r, st)
    BY DEF OneRequest
<1>2. req \in [Requests -> Request] /\ req' = [req EXCEPT ![r] = st]
    BY <1>1 DEF TypeOK, BecomesAfter
<1>3. server # "stopped"
    BY <1>1 DEF BecomesAfter, DrainInv
<1>4. st.pc # "dropped"
    BY <1>1 DEF BecomesAfter, Inside
<1>5. st.err = "closed" => grace \/ server = "broken"
    BY <1>1, <1>3 DEF BecomesAfter, ErrorOf, DrainInv, NothingDroppedWithinGrace
<1>6. st.err = "context" => st.done
    BY <1>1 DEF BecomesAfter, ErrorOf, BlamesRight, DrainInv, NothingDroppedWithinGrace
<1>7. ASSUME NEW q \in Requests
      PROVE  /\ req'[q].pc = "dropped" \/ req'[q].err = "closed" => grace \/ server = "broken"
             /\ req'[q].err = "context" => req'[q].done
    <2>1. CASE q = r
        BY <1>2, <1>4, <1>5, <1>6, <2>1
    <2>2. CASE q # r
        BY <1>2, <2>2 DEF DrainInv, NothingDroppedWithinGrace
    <2>3. QED BY <2>1, <2>2
<1>8. NothingDroppedWithinGrace'
    BY <1>7 DEF NothingDroppedWithinGrace
<1>9. QED BY <1>3, <1>8 DEF DrainInv

LEMMA DrainStep == TypeOK /\ DrainInv /\ [Next]_vars => DrainInv'
<1> SUFFICES ASSUME TypeOK, DrainInv, [Next]_vars PROVE DrainInv'
    OBVIOUS
<1>1. CASE UNCHANGED <<server, grace, closed, req>>
    BY <1>1 DEF InFlight, DrainInv, NothingDroppedWithinGrace
<1>2. CASE Exit
    <2>1. ASSUME NEW q \in Requests
          PROVE  req'[q].err = req[q].err /\ req'[q].done = req[q].done
        <3>1. req[q] \in Request
            BY DEF TypeOK
        <3>2. CASE req'[q] = req[q]
            BY <3>2
        <3>3. CASE req'[q] = [req[q] EXCEPT !.pc = "dropped"]
            BY <3>1, <3>3, RequestFields
        <3>4. QED BY <1>2, <3>2, <3>3 DEF Exit
    <2>2. CASE server = "stopped"
        <3>1. \A q \in Requests : req'[q] = req[q]
            BY <1>2, <2>2 DEF Exit, DrainInv
        <3>2. InFlight' = InFlight
            BY <3>1 DEF InFlight
        <3>3. QED BY <1>2, <2>2, <3>1, <3>2 DEF Exit, DrainInv, NothingDroppedWithinGrace
    <2>3. CASE server \in {"cutoff", "broken"}
        BY <1>2, <2>1, <2>3 DEF Exit, DrainInv, NothingDroppedWithinGrace
    <2>4. QED BY <1>2, <2>2, <2>3 DEF Exit, DrainInv
<1>3. CASE StopStep
    <2>1. InFlight' = InFlight
        BY <1>3 DEF StopStep, Signal, ListenerFails, BeginShutdown, GraceElapses,
                    ShutdownReturns, CloseKnowledge, InFlight
    <2>2. QED BY <1>3, <2>1
              DEF StopStep, Signal, ListenerFails, BeginShutdown, GraceElapses,
                  ShutdownReturns, ShutdownDone, CloseKnowledge, DrainInv,
                  NothingDroppedWithinGrace
<1>4. ASSUME NEW r \in Requests, OneRequest(r), UNCHANGED <<server, grace, closed>>
      PROVE  DrainInv'
    BY <1>4, OneRequestDrain
<1>5. ASSUME NEW r \in Requests, Start(r)
      PROVE  DrainInv'
    BY <1>4, <1>5, StartStep DEF Start, serving
<1>6. ASSUME NEW r \in Requests, PassOnly(r) \/ PassEnds(r)
      PROVE  DrainInv'
    BY <1>1, <1>6 DEF PassOnly, PassQueries, PassQueryReturns, PassReturns, PassEnds, serving
<1>7. CASE UNCHANGED vars
    BY <1>1, <1>7 DEF vars, serving
<1>8. ASSUME NEW r \in Requests, OneRequest(r), RequestOnly
      PROVE  DrainInv'
    BY <1>4, <1>8 DEF RequestOnly, serving
<1>9. QED
    BY <1>2, <1>3, <1>5, <1>6, <1>7, <1>8, Steps, RequestSteps

\* Only after the grace period or a listener failure is a request dropped or
\* finds the knowledge base closed, and no context of a request ends with the
\* signal.
THEOREM DrainAnswersEveryone == Spec => []NothingDroppedWithinGrace
<1>1. Init => TypeOK /\ DrainInv
    <2>1. Init => DrainInv
        <3>1. Init => \A r \in Requests :
                  req[r].pc = "unsent" /\ req[r].err = "none"
            BY DEF Init
        <3>2. QED BY <3>1 DEF Init, DrainInv, NothingDroppedWithinGrace
    <2>2. QED BY <2>1, TypeInit
<1>2. DrainInv => NothingDroppedWithinGrace
    BY DEF DrainInv
<1>3. QED BY <1>1, <1>2, TypeStep, DrainStep, PTL DEF Spec
=============================================================================
