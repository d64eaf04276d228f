----------------------------- MODULE HttpServer -----------------------------
(***************************************************************************)
(* internal/httpapi: requests pass through the middleware to their         *)
(* handlers, POST /reindex starts passes in the background, and a signal   *)
(* makes Serve drain what is in flight, after which main closes the        *)
(* knowledge base and ends.                                                *)
(*                                                                         *)
(* Every request is one element of Requests and is sent at most once; a    *)
(* pass is named after the request that started it.  What a pass does to   *)
(* the index is module Indexing.                                           *)
(***************************************************************************)
EXTENDS FiniteSets, Integers

CONSTANTS
    Requests,   \* what clients may send
    HasToken,   \* Config.AuthToken is set
    None

ASSUME HttpAssumption ==
    /\ IsFiniteSet(Requests)
    /\ HasToken \in BOOLEAN
    /\ None \notin Requests

VARIABLES
    signal,   \* the signal context is cancelled
    server,   \* where Serve is
    grace,    \* the grace period is over
    closed,   \* kb.Close was called
    alive,    \* the process runs
    ix,       \* indexer.status
    pass,     \* indexer.run goroutines, by the request that started them
    req       \* the requests

serving == <<signal, server, grace, closed, alive>>
vars == <<serving, ix, pass, req>>

Kinds == {"health", "query", "reindex", "status"}

(***************************************************************************)
(* started   the pass StartedAt belongs to                                 *)
(* result    the pass Result, FinishedAt and Error belong to               *)
(***************************************************************************)
Status == [state: {"idle", "running", "done", "failed"},
           started: Requests \cup {None}, result: Requests \cup {None}]

(***************************************************************************)
(* done      it ran out of time, or its client went away                   *)
(* code      the status written; 0 before                                  *)
(* err       why its service failed it, if it did                          *)
(* body      the snapshot written, if any                                  *)
(*                                                                         *)
(* "upstream" is inside the service; "querying" is there too, with one of  *)
(* the pool's connections in use.                                          *)
(***************************************************************************)
Inside == {"auth", "handler", "upstream", "querying", "refused", "accepted", "written"}
Errors == {"upstream", "closed", "context"}
Request == [pc: {"unsent", "answered", "dropped"} \cup Inside,
            kind: Kinds \cup {None}, done: BOOLEAN,
            code: {0, 200, 202, 400, 401, 409, 500, 502, 503, 504},
            err: Errors \cup {"none"}, body: Status \cup {None}]

Underway == {"indexing", "querying", "ok", "failed"}

TypeOK ==
    /\ signal \in BOOLEAN /\ grace \in BOOLEAN
    /\ closed \in BOOLEAN /\ alive \in BOOLEAN
    /\ server \in {"serving", "draining", "stopped", "cutoff", "broken"}
    /\ ix \in Status
    /\ pass \in [Requests -> {"none", "over", "lost"} \cup Underway]
    /\ req \in [Requests -> Request]

Init ==
    /\ signal = FALSE
    /\ server = "serving"
    /\ grace = FALSE
    /\ closed = FALSE
    /\ alive = TRUE
    /\ ix = [state |-> "idle", started |-> None, result |-> None]
    /\ pass = [r \in Requests |-> "none"]
    /\ req = [r \in Requests |->
                 [pc |-> "unsent", kind |-> None, done |-> FALSE,
                  code |-> 0, err |-> "none", body |-> None]]

InFlight == {r \in Requests : req[r].pc \in Inside}

At(r, pc) == alive /\ req[r].pc = pc
Goto(r, pc) == req' = [req EXCEPT ![r].pc = pc]

\* writeJSON and writeError.
Write(r, code, body) ==
    req' = [req EXCEPT ![r].pc = "written", ![r].code = code, ![r].body = body]

\* respondUpstreamError, and handleHealth when Stats fails.
FailureCode(r, err) ==
    IF req[r].kind = "health" THEN 503 ELSE IF err = "context" THEN 504 ELSE 502

Fail(r, err) ==
    req' = [req EXCEPT ![r].pc = "written", ![r].err = err, ![r].code = FailureCode(r, err)]

(***************************************************************************)
(* The contexts.  Each is done for a cause of its own or with the one it   *)
(* is derived from, unless WithoutCancel comes between them.               *)
(***************************************************************************)

\* Of all requests: the signal's context, without its cancellation.
BaseDoneAtSignal == signal
BaseDone == FALSE

ContextIgnored(r) == FALSE
RequestDone(r) == BaseDone \/ req[r].done

\* Of the passes: the signal's context itself.
PassDetached == FALSE
PassDone == signal

\* Of Shutdown: the signal's without its cancellation, but with a timer.
ShutdownDoneAtSignal == grace \/ signal
ShutdownDone == grace

(***************************************************************************)
(* A request.  It is accepted as long as the listener is open.             *)
(***************************************************************************)
Arrive(r) ==
    /\ At(r, "unsent")
    /\ server = "serving"
    /\ \E kind \in Kinds : req' = [req EXCEPT ![r].pc = "auth", ![r].kind = kind]
    /\ UNCHANGED <<serving, ix, pass>>

\* withAuth; /health is public.
Auth(r) ==
    /\ At(r, "auth")
    /\ \/ Goto(r, "handler")
       \/ HasToken /\ req[r].kind # "health" /\ Write(r, 401, None)
    /\ UNCHANGED <<serving, ix, pass>>

\* handleHealth, handleSearch and handleAsk, unless decodeBody or the check for
\* an empty query turns the request down.
CallService(r) ==
    /\ At(r, "handler")
    /\ req[r].kind \in {"health", "query"}
    /\ \/ Goto(r, "upstream")
       \/ req[r].kind = "query" /\ Write(r, 400, None)
    /\ UNCHANGED <<serving, ix, pass>>

\* The service runs a statement, if its context and the pool still let it.
Query(r) ==
    /\ At(r, "upstream")
    /\ ~RequestDone(r)
    /\ IF closed THEN Fail(r, "closed") ELSE Goto(r, "querying")
    /\ UNCHANGED <<serving, ix, pass>>

\* ... and gives the connection back.
QueryReturns(r) ==
    /\ At(r, "querying")
    /\ Goto(r, "upstream")
    /\ UNCHANGED <<serving, ix, pass>>

\* The service comes back.
UpstreamReturns(r) ==
    /\ At(r, "upstream")
    /\ Write(r, 200, None) \/ Fail(r, "upstream")
    /\ UNCHANGED <<serving, ix, pass>>

\* ... because its context is done.
UpstreamCancelled(r) ==
    /\ At(r, "upstream")
    /\ RequestDone(r)
    /\ Fail(r, "context")
    /\ UNCHANGED <<serving, ix, pass>>

\* The service panics: withLogging is unwound without writing its line.
Recover(r) ==
    /\ At(r, "upstream")
    /\ req' = [req EXCEPT ![r].pc = "answered", ![r].code = 500]
    /\ UNCHANGED <<serving, ix, pass>>

\* withTimeout, or the client disconnects.
RequestEnds(r) ==
    /\ alive
    /\ r \in InFlight
    /\ ~req[r].done
    /\ req' = [req EXCEPT ![r].done = TRUE]
    /\ UNCHANGED <<serving, ix, pass>>

\* The rest of withLogging.
Log(r) ==
    /\ At(r, "written")
    /\ Goto(r, "answered")
    /\ UNCHANGED <<serving, ix, pass>>

(***************************************************************************)
(* The indexer.                                                            *)
(***************************************************************************)
NeverBusy == FALSE
Busy == ix.state = "running"

StartedKeepingResult(r) == [ix EXCEPT !.state = "running", !.started = r]
Started(r) == [state |-> "running", started |-> r, result |-> None]

\* indexer.start, called by handleReindex.
Start(r) ==
    /\ At(r, "handler")
    /\ req[r].kind = "reindex"
    /\ \/ /\ Busy
          /\ Goto(r, "refused")
          /\ UNCHANGED <<ix, pass>>
       \/ /\ ~Busy
          /\ ix' = Started(r)
          /\ pass' = [pass EXCEPT ![r] = "indexing"]
          /\ Goto(r, "accepted")
    /\ UNCHANGED serving

\* indexer.snapshot, called by handleReindex and handleReindexStatus.
Snapshot(r) ==
    /\ alive
    /\ \/ At(r, "refused") /\ Write(r, 409, ix)
       \/ At(r, "accepted") /\ Write(r, 202, ix)
       \/ At(r, "handler") /\ req[r].kind = "status" /\ Write(r, 200, ix)
    /\ UNCHANGED <<serving, ix, pass>>

\* Index runs its statements as a service does.
PassQueries(r) ==
    /\ alive /\ ~closed /\ ~PassDone
    /\ pass[r] = "indexing"
    /\ pass' = [pass EXCEPT ![r] = "querying"]
    /\ UNCHANGED <<serving, ix, req>>

PassQueryReturns(r) ==
    /\ alive
    /\ pass[r] = "querying"
    /\ pass' = [pass EXCEPT ![r] = "indexing"]
    /\ UNCHANGED <<serving, ix, req>>

\* Index returns to indexer.run.
PassReturns(r) ==
    /\ alive
    /\ pass[r] = "indexing"
    /\ \E outcome \in {"ok", "failed"} : pass' = [pass EXCEPT ![r] = outcome]
    /\ UNCHANGED <<serving, ix, req>>

\* The rest of indexer.run.
FinishedOnlyIfOk(r) ==
    [ix EXCEPT !.state = IF pass[r] = "ok" THEN "done" ELSE ix.state, !.result = r]

FinishedUntranslated(r) == [ix EXCEPT !.state = pass[r], !.result = r]

Finished(r) ==
    [ix EXCEPT !.state = IF pass[r] = "ok" THEN "done" ELSE "failed", !.result = r]

PassEnds(r) ==
    /\ alive
    /\ pass[r] \in {"ok", "failed"}
    /\ ix' = Finished(r)
    /\ pass' = [pass EXCEPT ![r] = "over"]
    /\ UNCHANGED <<serving, req>>

(***************************************************************************)
(* Serve, from the select on.                                              *)
(***************************************************************************)
Signal ==
    /\ alive
    /\ ~signal
    /\ signal' = TRUE
    /\ UNCHANGED <<server, grace, closed, alive, ix, pass, req>>

\* srv.Serve fails.
ListenerFails ==
    /\ alive
    /\ server = "serving"
    /\ server' = "broken"
    /\ UNCHANGED <<signal, grace, closed, alive, ix, pass, req>>

\* Shutdown closes the listener first.
BeginShutdown ==
    /\ alive
    /\ server = "serving"
    /\ signal
    /\ server' = "draining"
    /\ UNCHANGED <<signal, grace, closed, alive, ix, pass, req>>

GraceElapses ==
    /\ alive
    /\ server = "draining"
    /\ ~grace
    /\ grace' = TRUE
    /\ UNCHANGED <<signal, server, closed, alive, ix, pass, req>>

ShutdownReturns ==
    /\ alive
    /\ server = "draining"
    /\ \/ InFlight = {} /\ server' = "stopped"
       \/ ShutdownDone /\ server' = "cutoff"
    /\ UNCHANGED <<signal, grace, closed, alive, ix, pass, req>>

\* Serve has returned: main's deferred kb.Close closes the pool to further
\* statements and waits until every connection has been given back.
CloseKnowledge ==
    /\ alive
    /\ server \in {"stopped", "cutoff", "broken"}
    /\ ~closed
    /\ closed' = TRUE
    /\ UNCHANGED <<signal, server, grace, alive, ix, pass, req>>

InUse == {r \in Requests : req[r].pc = "querying" \/ pass[r] = "querying"}

\* The process ends, with whatever still runs in it.
Exit ==
    /\ alive
    /\ closed
    /\ InUse = {}
    /\ alive' = FALSE
    /\ req' = [r \in Requests |->
                 IF r \in InFlight THEN [req[r] EXCEPT !.pc = "dropped"] ELSE req[r]]
    /\ pass' = [r \in Requests |-> IF pass[r] \in Underway THEN "lost" ELSE pass[r]]
    /\ UNCHANGED <<signal, server, grace, closed, ix>>

\* What goes on by itself, and what a context that is done puts an end to.
HandlerStep(r) ==
    \/ Auth(r) \/ CallService(r) \/ UpstreamCancelled(r) \/ Log(r)
    \/ Start(r) \/ Snapshot(r)
    \/ RequestDone(r) /\ QueryReturns(r)

PassStep(r) ==
    \/ PassEnds(r)
    \/ PassDone /\ (PassQueryReturns(r) \/ PassReturns(r))

Shutdown == BeginShutdown \/ GraceElapses \/ ShutdownReturns \/ CloseKnowledge \/ Exit

Next ==
    \/ \E r \in Requests :
          \/ Arrive(r) \/ HandlerStep(r) \/ Query(r) \/ QueryReturns(r)
          \/ UpstreamReturns(r) \/ Recover(r) \/ RequestEnds(r)
          \/ PassStep(r) \/ PassQueries(r) \/ PassQueryReturns(r) \/ PassReturns(r)
    \/ Signal
    \/ ListenerFails
    \/ Shutdown

Spec == Init /\ [][Next]_vars

\* Goroutines run, every request has a deadline, and Serve and main go on once
\* they can.  A service, a statement or a pass need not come back before its
\* context is done.
FairSpec ==
    /\ Spec
    /\ \A r \in Requests :
          WF_vars(HandlerStep(r)) /\ WF_vars(RequestEnds(r)) /\ WF_vars(PassStep(r))
    /\ WF_vars(Shutdown)

-----------------------------------------------------------------------------
\* reindex.go:29: passes run one at a time, whatever requests race with each
\* other and with the end of the pass before.
OnePassAtATime == Cardinality({r \in Requests : pass[r] \in Underway}) <= 1

\* No answer mixes two passes: the result it carries is that of the pass whose
\* start it carries, and a running pass has none.
TellsOnePass(st) ==
    /\ st.state = "running" => st.result = None
    /\ st.result # None => st.result = st.started
    /\ st.state \in {"done", "failed"} => st.result # None

AnswersTellOnePass ==
    \A r \in Requests : req[r].body # None => TellsOnePass(req[r].body)

\* A stopping server takes nothing away from a request that was accepted before:
\* unless it outlasts the grace period (or the listener failed, which is not a
\* shutdown), it is not dropped and does not find the knowledge base closed, and
\* only its own time or its client ends its context.
NothingDroppedWithinGrace ==
    \A r \in Requests :
        /\ req[r].pc = "dropped" \/ req[r].err = "closed" => grace \/ server = "broken"
        /\ req[r].err = "context" => req[r].done

\* Once Index has come back, well or badly, the status leaves "running": a pass
\* never leaves the server refusing to index.
ReindexBecomesPossible ==
    (\E r \in Requests : pass[r] \in {"ok", "failed"}) ~> ~Busy \/ ~alive

\* middleware.go:105: a slow upstream is cancelled, so every request comes to an
\* end, be it inside a statement that does not come back.
RequestsEnd == \A r \in Requests : r \in InFlight ~> r \notin InFlight

\* A signalled server stops: nothing that still runs when Serve has returned
\* keeps its connection, and main with it, for ever.
ServerStops == signal ~> ~alive
=============================================================================
