----------------------------- MODULE ApiCapture -----------------------------
(***************************************************************************)
(* The API capture proxy of one service (src/src/services/api_capture.rs): *)
(* a listener on the public port that forwards every request to the        *)
(* service and writes what it saw to the service's log through a bounded   *)
(* queue; and the calls that start, keep and stop it                       *)
(* (sync_service_api_capture_proxy, src/src/app/launch/watch.rs).          *)
(*                                                                         *)
(* Of a request the model keeps whether it is captured and the size of its *)
(* response body; of the log which requests it names and how many events   *)
(* it reports as dropped.  Writes of the log file succeed.                 *)
(***************************************************************************)
EXTENDS Naturals, Sequences, FiniteSets, FiniteSetsExt

CONSTANTS
    Proxies,        \* proxies that may be started
    ProxyCallers,   \* launches, refreshes, downs and purges
    ApiRequests,
    NoProxy,
    LogQueue,       \* CAPTURE_LOG_QUEUE
    BodyLimit,      \* capture_api_body_limit
    MaxBody,        \* largest response
    MaxProxyCalls

ASSUME CaptureAssumption ==
    /\ NoProxy \notin Proxies
    /\ LogQueue \in Nat \ {0} /\ BodyLimit \in Nat /\ MaxBody \in Nat /\ MaxProxyCalls \in Nat

VARIABLES
    srec,      \* the service's record, as far as its proxy goes
    proxy,     \* proxy -> its server task, its queue and its log writer
    pcall,     \* caller -> where it is in sync_service_api_capture_proxy
    req,       \* request -> where it is
    pcalls

captureVars == <<srec, proxy, pcall, req, pcalls>>

NoService == [present |-> FALSE, capture |-> FALSE, stopped |-> FALSE, started |-> FALSE,
              handle |-> NoProxy]
UnbornProxy == [at |-> "unborn", stop |-> FALSE, lost |-> FALSE,
                queue |-> <<>>, dropped |-> 0, reported |-> 0,
                written |-> [q \in ApiRequests |-> 0]]
IdleCall == [at |-> "idle", proxy |-> NoProxy]
NewRequest == [at |-> "new", proxy |-> NoProxy, capture |-> FALSE, logged |-> FALSE,
               events |-> 0, total |-> 0, captured |-> 0]

ServiceRecord == [present : BOOLEAN, capture : BOOLEAN, stopped : BOOLEAN, started : BOOLEAN,
                  handle : Proxies \cup {NoProxy}]
ProxyTask == [at : {"unborn", "serving", "closing", "drained"}, stop : BOOLEAN, lost : BOOLEAN,
              queue : Seq(ApiRequests), dropped : Nat, reported : Nat,
              written : [ApiRequests -> Nat]]
ProxyCall == [at : {"idle", "check", "mark", "purge", "bind", "store"},
              proxy : Proxies \cup {NoProxy}]
ApiRequest == [at : {"new", "forward", "upgrade", "stream", "ended", "done"},
               proxy : Proxies \cup {NoProxy}, capture : BOOLEAN, logged : BOOLEAN,
               events : Nat, total : Nat, captured : Nat]

CaptureTypeOK ==
    /\ srec \in ServiceRecord
    /\ proxy \in [Proxies -> ProxyTask]
    /\ pcall \in [ProxyCallers -> ProxyCall]
    /\ req \in [ApiRequests -> ApiRequest]

CaptureInit ==
    /\ srec = NoService
    /\ proxy = [h \in Proxies |-> UnbornProxy]
    /\ pcall = [c \in ProxyCallers |-> IdleCall]
    /\ req = [q \in ApiRequests |-> NewRequest]
    /\ pcalls = 0

-----------------------------------------------------------------------------
stop_api_capture ==
    [h \in Proxies |-> IF h = srec.handle THEN [proxy[h] EXCEPT !.stop = TRUE] ELSE proxy[h]]

Command(c) == pcall[c].at = "idle" /\ pcalls < MaxProxyCalls /\ pcalls' = pcalls + 1
GoesTo(c, at) == [pcall EXCEPT ![c] = [IdleCall EXCEPT !.at = at]]

\* A launch stores a new record; a refresh that changes the capture settings stops the proxy.
StoreService(c) ==
    /\ Command(c)
    /\ \E capture, started \in BOOLEAN :
         srec' = [present |-> TRUE, capture |-> capture, stopped |-> FALSE, started |-> started,
                  handle |-> NoProxy]
    /\ proxy' = stop_api_capture
    /\ pcall' = GoesTo(c, "check")
    /\ UNCHANGED req

ChangeSettings(c) ==
    /\ Command(c) /\ srec.present
    /\ \E capture \in BOOLEAN :
         srec' = [srec EXCEPT !.capture = capture, !.handle = NoProxy]
    /\ proxy' = stop_api_capture
    /\ pcall' = GoesTo(c, "check")
    /\ UNCHANGED req

\* down: stop_service_handles, and later the mark; a purge then drops the record.
DownHandles(c) ==
    /\ Command(c) /\ srec.present
    /\ srec' = [srec EXCEPT !.handle = NoProxy]
    /\ proxy' = stop_api_capture
    /\ pcall' = GoesTo(c, "mark")
    /\ UNCHANGED req

DownMarks(c) ==
    /\ pcall[c].at = "mark"
    /\ srec' = IF srec.present THEN [srec EXCEPT !.stopped = TRUE] ELSE srec
    /\ \E at \in {"idle", "purge"} : pcall' = GoesTo(c, at)
    /\ UNCHANGED <<proxy, req, pcalls>>

PurgeService(c) ==
    /\ pcall[c].at = "purge"
    /\ srec' = NoService
    /\ proxy' = [h \in Proxies |-> [proxy[h] EXCEPT !.lost = @ \/ h = srec.handle]]
    /\ pcall' = GoesTo(c, "idle")
    /\ UNCHANGED <<req, pcalls>>

-----------------------------------------------------------------------------
\* sync_service_api_capture_proxy, under the first lock.
ProxyCheck(c) ==
    LET wanted == srec.capture /\ ~srec.stopped /\ srec.started IN
    /\ pcall[c].at = "check"
    /\ IF srec.present /\ ~wanted
         THEN /\ srec' = [srec EXCEPT !.handle = NoProxy]
              /\ proxy' = stop_api_capture
         ELSE UNCHANGED <<srec, proxy>>
    /\ pcall' = GoesTo(c, IF srec.present /\ wanted /\ srec.handle = NoProxy
                            THEN "bind" ELSE "idle")
    /\ UNCHANGED <<req, pcalls>>

(***************************************************************************)
(* start_api_capture_proxy: the port is bound as soon as no other proxy    *)
(* listens, for 750 ms; then, or if the log cannot be opened, the call     *)
(* fails.                                                                  *)
(***************************************************************************)
start_api_capture_proxy(c) ==
    /\ pcall[c].at = "bind"
    /\ \/ \E h \in Proxies :
            /\ proxy[h].at = "unborn"
            /\ \A g \in Proxies : proxy[g].at # "serving"
            /\ proxy' = [proxy EXCEPT ![h].at = "serving"]
            /\ pcall' = [pcall EXCEPT ![c].at = "store", ![c].proxy = h]
       \/ pcall' = GoesTo(c, "idle") /\ UNCHANGED proxy
    /\ UNCHANGED <<srec, req, pcalls>>

\* Faulty variant: a proxy that is not kept is not stopped.
StoreOrForget(c) ==
    LET h == pcall[c].proxy IN
    /\ pcall[c].at = "store"
    /\ IF srec.present /\ srec.capture /\ srec.handle = NoProxy
         THEN srec' = [srec EXCEPT !.handle = h]
         ELSE UNCHANGED srec
    /\ pcall' = GoesTo(c, "idle")
    /\ UNCHANGED <<proxy, req, pcalls>>

(***************************************************************************)
(* Under the second lock the proxy is stored, or stopped if it is not      *)
(* wanted any more; if the run is gone the call fails and the proxy, which *)
(* nobody names, goes on.                                                  *)
(***************************************************************************)
ProxyStore(c) ==
    LET h == pcall[c].proxy IN
    /\ pcall[c].at = "store"
    /\ IF srec.present /\ srec.capture /\ srec.handle = NoProxy
         THEN /\ srec' = [srec EXCEPT !.handle = h]
              /\ UNCHANGED proxy
         ELSE /\ proxy' = [proxy EXCEPT ![h].stop = srec.present, ![h].lost = ~srec.present]
              /\ UNCHANGED srec
    /\ pcall' = GoesTo(c, "idle")
    /\ UNCHANGED <<req, pcalls>>

ProxyCommand(c) ==
    \/ StoreService(c) \/ ChangeSettings(c) \/ DownHandles(c) \/ DownMarks(c) \/ PurgeService(c)
    \/ ProxyCheck(c) \/ start_api_capture_proxy(c) \/ ProxyStore(c)

-----------------------------------------------------------------------------
(***************************************************************************)
(* A request as should_capture_request sees it: whether a pattern ignores  *)
(* its path, X-Requested-With, Sec-Fetch-Dest (absent, blank, "empty" or a *)
(* destination), the method and what it accepts.                           *)
(***************************************************************************)
RequestKind == [ignored : BOOLEAN, xhr : BOOLEAN, dest : {"none", "blank", "empty", "document"},
                get : BOOLEAN, html : BOOLEAN, json : BOOLEAN]

is_browser_non_xhr_request(k) ==
    /\ ~k.xhr
    /\ IF k.dest = "none" THEN k.get /\ k.html /\ ~k.json ELSE k.dest = "document"

should_capture_request(k) == ~k.ignored /\ ~is_browser_non_xhr_request(k)

\* CaptureLogWriter::write: an event that does not fit is counted.
Enqueue(h, q) ==
    IF Len(proxy[h].queue) < LogQueue
      THEN [proxy EXCEPT ![h].queue = Append(@, q)]
      ELSE [proxy EXCEPT ![h].dropped = @ + 1]

LogEvent(q, at) ==
    /\ proxy' = Enqueue(req[q].proxy, q)
    /\ req' = [req EXCEPT ![q].at = at, ![q].logged = TRUE, ![q].events = @ + 1]

log_once(q, at) ==
    IF req[q].logged THEN req' = [req EXCEPT ![q].at = at] /\ UNCHANGED proxy
    ELSE LogEvent(q, at)

\* proxy_request up to the await of the service's answer
Arrive(q, h) ==
    /\ req[q].at = "new" /\ proxy[h].at = "serving"
    /\ \E capture \in {should_capture_request(k) : k \in RequestKind}, upgrade \in BOOLEAN :
         req' = [req EXCEPT ![q].at = IF upgrade THEN "upgrade" ELSE "forward", ![q].proxy = h,
                            ![q].capture = capture]
    /\ UNCHANGED <<srec, proxy, pcall, pcalls>>

\* The service cannot be reached: the error is logged, captured or not.
UpstreamFails(q) ==
    /\ req[q].at \in {"forward", "upgrade"}
    /\ LogEvent(q, "done")
    /\ UNCHANGED <<srec, pcall, pcalls>>

\* The client goes away before the service has answered: the handler is dropped.
ClientLeaves(q) ==
    /\ req[q].at \in {"forward", "upgrade"}
    /\ req' = [req EXCEPT ![q].at = "done"]
    /\ UNCHANGED <<srec, proxy, pcall, pcalls>>

proxy_request_inner(q) ==
    /\ req[q].at = "forward"
    /\ req' = [req EXCEPT ![q].at = IF req[q].capture THEN "stream" ELSE "done"]
    /\ UNCHANGED <<srec, proxy, pcall, pcalls>>

\* An upgrade is logged when the service switches protocols; a refused one is passed on.
proxy_upgrade_request(q) ==
    /\ req[q].at = "upgrade"
    /\ \/ req[q].capture /\ LogEvent(q, "done")
       \/ req' = [req EXCEPT ![q].at = "done"] /\ UNCHANGED proxy
    /\ UNCHANGED <<srec, pcall, pcalls>>

\* CapturedBody::append for a chunk of the response
append(q, n) ==
    /\ req[q].at = "stream" /\ req[q].total + n <= MaxBody
    /\ req' = [req EXCEPT ![q].total = @ + n,
                          ![q].captured = @ + Min({BodyLimit - @, n})]
    /\ UNCHANGED <<srec, proxy, pcall, pcalls>>

\* Faulty variant: a response whose client has left is not logged.
DropSilently(q) ==
    /\ req[q].at \in {"stream", "ended"}
    /\ req' = [req EXCEPT ![q].at = "done"]
    /\ UNCHANGED <<srec, proxy, pcall, pcalls>>

\* The response ends or breaks off; it is dropped then, or earlier if the client leaves.
ResponseEnds(q) ==
    /\ req[q].at = "stream"
    /\ log_once(q, "ended")
    /\ UNCHANGED <<srec, pcall, pcalls>>

DropResponse(q) ==
    /\ req[q].at \in {"stream", "ended"}
    /\ log_once(q, "done")
    /\ UNCHANGED <<srec, pcall, pcalls>>

ProxyRequest(q) ==
    \/ \E h \in Proxies : Arrive(q, h)
    \/ UpstreamFails(q) \/ ClientLeaves(q) \/ proxy_request_inner(q) \/ proxy_upgrade_request(q)
    \/ \E n \in 1..MaxBody : append(q, n)
    \/ ResponseEnds(q) \/ DropResponse(q)

-----------------------------------------------------------------------------
InFlight(h) == {q \in ApiRequests : req[q].proxy = h /\ req[q].at # "done"}

\* The server task looks at its stop flag every 100 ms; connections are served to their end.
SeesStop(h) ==
    /\ proxy[h].at = "serving" /\ proxy[h].stop
    /\ proxy' = [proxy EXCEPT ![h].at = "closing"]
    /\ UNCHANGED <<srec, pcall, req, pcalls>>

Report(p) == [p EXCEPT !.reported = @ + p.dropped, !.dropped = 0]

\* The log writer: a summary of what was dropped, then the entry.
WriteEntry(h) ==
    /\ proxy[h].queue # <<>>
    /\ proxy' = [proxy EXCEPT ![h] =
                    [Report(proxy[h]) EXCEPT !.queue = Tail(@),
                                             !.written[Head(proxy[h].queue)] = @ + 1]]
    /\ UNCHANGED <<srec, pcall, req, pcalls>>

write_dropped_summary(h) ==
    /\ proxy[h].dropped > 0
    /\ proxy' = [proxy EXCEPT ![h] = Report(proxy[h])]
    /\ UNCHANGED <<srec, pcall, req, pcalls>>

\* All senders are gone: the writer drains the queue, reports and announces the end.
DrainComplete(h) ==
    /\ proxy[h].at = "closing" /\ InFlight(h) = {} /\ proxy[h].queue = <<>>
    /\ proxy' = [proxy EXCEPT ![h] = [Report(proxy[h]) EXCEPT !.at = "drained"]]
    /\ UNCHANGED <<srec, pcall, req, pcalls>>

spawn_capture_log_writer(h) == WriteEntry(h) \/ write_dropped_summary(h) \/ DrainComplete(h)

CaptureNext ==
    \/ \E c \in ProxyCallers : ProxyCommand(c)
    \/ \E q \in ApiRequests : ProxyRequest(q)
    \/ \E h \in Proxies : SeesStop(h) \/ spawn_capture_log_writer(h)

CaptureSpec == CaptureInit /\ [][CaptureNext]_captureVars

-----------------------------------------------------------------------------
(***************************************************************************)
(* A proxy that was not told to stop is the one the record names or is in  *)
(* the hands of a call: none keeps the public port behind the record's     *)
(* back, unless its run was removed.                                       *)
(***************************************************************************)
NoStrayProxy ==
    \A h \in Proxies :
        proxy[h].at = "serving" /\ ~proxy[h].stop =>
            \/ srec.handle = h \/ proxy[h].lost
            \/ \E c \in ProxyCallers : pcall[c].at = "store" /\ pcall[c].proxy = h

Queued(h) == {proxy[h].queue[i] : i \in 1..Len(proxy[h].queue)}
Logged(h) == {q \in ApiRequests : req[q].proxy = h /\ req[q].logged}
InLog(h) == {q \in ApiRequests : proxy[h].written[q] = 1}
Counted(h) == Logged(h) \ (Queued(h) \cup InLog(h))

(***************************************************************************)
(* A request that gave a proxy its event is in the queue once, in the log  *)
(* once, or one of those that are counted; and the counts are right.       *)
(***************************************************************************)
AddsUp(h) ==
    /\ Queued(h) \subseteq Logged(h) /\ InLog(h) \subseteq Logged(h) \ Queued(h)
    /\ \A q \in ApiRequests : proxy[h].written[q] <= 1
    /\ \A i, j \in 1..Len(proxy[h].queue) : proxy[h].queue[i] = proxy[h].queue[j] => i = j
    /\ Cardinality(Counted(h)) = proxy[h].dropped + proxy[h].reported
    /\ proxy[h].at = "drained" => Queued(h) = {} /\ proxy[h].dropped = 0

EventsAddUp == \A h \in Proxies : AddsUp(h)

\* No request gives two events, and a captured response gives one, however it ends.
LoggedOnce ==
    \A q \in ApiRequests :
        /\ req[q].events <= 1
        /\ req[q].at = "done" /\ req[q].total > 0 => req[q].events = 1

\* However a body is cut into chunks, what is kept are its first BodyLimit bytes.
BodyCapped == \A q \in ApiRequests : req[q].captured = Min({req[q].total, BodyLimit})

(***************************************************************************)
(* What a proxy saw reaches the log: every event is written, queued or     *)
(* counted, and once the proxy has drained the log holds or reports all of *)
(* them; no request is logged twice, whether its stream ends, fails or is  *)
(* dropped after it has ended, and none is missed; and an entry holds the  *)
(* part of the body it should.                                             *)
(***************************************************************************)
EventsAccountedFor == EventsAddUp /\ LoggedOnce /\ BodyCapped
=============================================================================
