------------------------------ MODULE LogTails ------------------------------
(***************************************************************************)
(* Live log lines of one run: the clients of GET /v1/events share one tail *)
(* task per run (src/src/daemon/log_tailing.rs), which is started for the  *)
(* first and aborted after the last of them, and which sends the lines it  *)
(* reads over the broadcast channel of the daemon                          *)
(* (src/src/daemon/handlers/events.rs, src/src/daemon/event_bus.rs).       *)
(*                                                                         *)
(* The run has one log file.  Lengths and offsets count half lines, so     *)
(* that a line can be seen before it is complete.  A line is known by the  *)
(* generation of the file, the times it has been truncated, and its number *)
(* in it; blank ones, which are skipped, are left out.                     *)
(***************************************************************************)
EXTENDS Naturals, Sequences, FiniteSets

CONSTANTS
    Clients, TailTasks, NoTail,
    BusCapacity,          \* events a receiver may be behind (1024)
    MaxHalves,            \* bounds: half lines in the file (2 less after each truncation),
    MaxTruncations, MaxOtherEvents  \* truncations, other events

ASSUME TailAssumption ==
    /\ NoTail \notin TailTasks /\ IsFiniteSet(Clients) /\ BusCapacity \in Nat \ {0}
    /\ MaxHalves \in Nat /\ MaxTruncations \in Nat /\ MaxOtherEvents \in Nat

VARIABLES
    logFile,      \* length in half lines, generation
    otherEvents,
    log_tails,    \* the registry's entry of the run
    tail,         \* task -> its watcher, its cursor and the events it has still to send
    client        \* client -> its handler, its receiver and what it was sent

tailVars == <<logFile, otherEvents, log_tails, tail, client>>

NoEntry == [task |-> NoTail, subscribers |-> 0]
\* gen, slipped: ghosts, the generation the cursor speaks of, and that it missed one
UnbornTail == [at |-> "unborn", abort |-> FALSE, told |-> FALSE, offset |-> 0, out |-> <<>>,
               gen |-> 0, slipped |-> FALSE]
\* excused: ghost, the receiver lagged, or got lines of two tails or of one that slipped
NewClient == [at |-> "new", left |-> FALSE, release |-> NoTail, rx |-> <<>>, got |-> <<>>,
              excused |-> FALSE]

\* Events that carry no line: of this run, of another one.
RunEvent == [gen |-> 0, line |-> 0, whole |-> TRUE]
ForeignEvent == [gen |-> 0, line |-> 0, whole |-> FALSE]

TailInit ==
    /\ logFile = [len |-> 0, gen |-> 0]
    /\ otherEvents = 0
    /\ log_tails = NoEntry
    /\ tail = [t \in TailTasks |-> UnbornTail]
    /\ client = [c \in Clients |-> NewClient]

-----------------------------------------------------------------------------
Watching(t) == tail[t].at \in {"cursor", "loop", "send"}
Told == [t \in TailTasks |-> IF Watching(t) THEN [tail[t] EXCEPT !.told = TRUE] ELSE tail[t]]

WriteHalf ==
    /\ logFile.len + 2 * logFile.gen < MaxHalves
    /\ logFile' = [logFile EXCEPT !.len = @ + 1]
    /\ tail' = Told
    /\ UNCHANGED <<otherEvents, log_tails, client>>

Truncate ==
    /\ logFile.gen < MaxTruncations /\ logFile.len > 0
    /\ logFile' = [len |-> 0, gen |-> logFile.gen + 1]
    /\ tail' = Told
    /\ UNCHANGED <<otherEvents, log_tails, client>>

-----------------------------------------------------------------------------
\* retain_run_log_tail; the run exists
retain_run_log_tail(c) ==
    /\ client[c].at = "new"
    /\ client' = [client EXCEPT ![c].at = "retained"]
    /\ \/ /\ log_tails.task # NoTail
          /\ log_tails' = [log_tails EXCEPT !.subscribers = @ + 1]
          /\ UNCHANGED tail
       \/ /\ log_tails.task = NoTail
          /\ \E t \in TailTasks :
               /\ tail[t].at = "unborn"
               /\ tail' = [tail EXCEPT ![t].at = "watch"]
               /\ log_tails' = [task |-> t, subscribers |-> 1]
    /\ UNCHANGED <<logFile, otherEvents>>

\* The receiver is created after the tail was retained.
Subscribe(c) ==
    /\ client[c].at = "retained"
    /\ client' = [client EXCEPT ![c].at = "open"]
    /\ UNCHANGED <<logFile, otherEvents, log_tails, tail>>

ClientGoes(c) ==
    /\ client[c].at = "open" /\ ~client[c].left
    /\ client' = [client EXCEPT ![c].left = TRUE]
    /\ UNCHANGED <<logFile, otherEvents, log_tails, tail>>

(***************************************************************************)
(* The task of a client passes over events of other runs and forwards its  *)
(* next one; a client that has left is noticed then, and the subscription  *)
(* is dropped.                                                             *)
(***************************************************************************)
Forward(c) ==
    /\ client[c].at = "open" /\ client[c].rx # <<>>
    /\ LET e == Head(client[c].rx)
           gone == client[c].left /\ e # ForeignEvent
       IN  client' = [client EXCEPT
                        ![c].rx = Tail(@),
                        ![c].at = IF gone THEN "release" ELSE @,
                        ![c].got = IF gone \/ e.line = 0 THEN @ ELSE Append(@, e)]
    /\ UNCHANGED <<logFile, otherEvents, log_tails, tail>>

\* Faulty variant: the first client to leave takes the tail with it.
ReleaseAlways(c) ==
    /\ client[c].at = "release"
    /\ log_tails' = NoEntry
    /\ client' = [client EXCEPT ![c].at = "abort", ![c].release = log_tails.task]
    /\ UNCHANGED <<logFile, otherEvents, tail>>

\* release_run_log_tail, under the lock; the task of a removed entry is aborted after it.
release_run_log_tail(c) ==
    /\ client[c].at = "release"
    /\ IF log_tails.subscribers > 1
         THEN /\ log_tails' = [log_tails EXCEPT !.subscribers = @ - 1]
              /\ client' = [client EXCEPT ![c].at = "closed"]
         ELSE /\ log_tails' = NoEntry
              /\ client' = [client EXCEPT ![c].at = "abort", ![c].release = log_tails.task]
    /\ UNCHANGED <<logFile, otherEvents, tail>>

AbortTail(c) ==
    /\ client[c].at = "abort"
    /\ client' = [client EXCEPT ![c].at = "closed", ![c].release = NoTail]
    /\ tail' = [t \in TailTasks |->
                   IF t = client[c].release THEN [tail[t] EXCEPT !.abort = TRUE] ELSE tail[t]]
    /\ UNCHANGED <<logFile, otherEvents, log_tails>>

-----------------------------------------------------------------------------
\* broadcast: a receiver that is too far behind loses its oldest event.
Deliver(c, e, excuse) ==
    LET rx == Append(client[c].rx, e) IN
    IF client[c].at # "open" THEN client[c]
    ELSE IF Len(rx) > BusCapacity
      THEN [client[c] EXCEPT !.rx = Tail(rx), !.excused = TRUE]
      ELSE [client[c] EXCEPT !.rx = rx, !.excused = @ \/ excuse]

emit_event(e, excuse) == client' = [c \in Clients |-> Deliver(c, e, excuse)]

OtherEvent(e) ==
    /\ otherEvents < MaxOtherEvents
    /\ otherEvents' = otherEvents + 1
    /\ emit_event(e, FALSE)
    /\ UNCHANGED <<logFile, log_tails, tail>>

\* The watcher is installed before the cursors are read, or the task fails.
WatchLogs(t) ==
    /\ tail[t].at = "watch"
    /\ \/ tail' = [tail EXCEPT ![t].at = "cursor"]
       \/ tail' = [tail EXCEPT ![t].at = "ended"]
    /\ UNCHANGED <<logFile, otherEvents, log_tails, client>>

initial_log_tail_cursors(t) ==
    /\ tail[t].at = "cursor"
    /\ tail' = [tail EXCEPT ![t].at = "loop", ![t].offset = logFile.len, ![t].gen = logFile.gen]
    /\ UNCHANGED <<logFile, otherEvents, log_tails, client>>

\* The lines between two offsets; the first is a fragment if its beginning was skipped.
LinesBetween(from, upto) ==
    [i \in 1..((upto + 1) \div 2 - from \div 2) |->
        [gen |-> logFile.gen, line |-> from \div 2 + i, whole |-> i > 1 \/ from % 2 = 0]]

\* Faulty variant: the incomplete line at the end is taken too.
ReadToEnd(t) ==
    LET from == IF logFile.len < tail[t].offset THEN 0 ELSE tail[t].offset IN
    /\ tail[t].at = "loop" /\ tail[t].told
    /\ tail' = [tail EXCEPT ![t].told = FALSE, ![t].at = "send", ![t].offset = logFile.len,
                            ![t].gen = logFile.gen,
                            ![t].slipped = @ \/ (tail[t].gen # logFile.gen /\ from > 0),
                            ![t].out = LinesBetween(from, logFile.len)]
    /\ UNCHANGED <<logFile, otherEvents, log_tails, client>>

(***************************************************************************)
(* A notification: a file shorter than the cursor is read from its start,  *)
(* and only complete lines are taken.                                      *)
(***************************************************************************)
read_new_log_events(t) ==
    LET from == IF logFile.len < tail[t].offset THEN 0 ELSE tail[t].offset
        upto == 2 * (logFile.len \div 2)
    IN  /\ tail[t].at = "loop" /\ tail[t].told
        /\ tail' = [tail EXCEPT
                      ![t].told = FALSE, ![t].at = "send", ![t].gen = logFile.gen,
                      ![t].offset = IF upto > from THEN upto ELSE from,
                      ![t].slipped = @ \/ (tail[t].gen # logFile.gen /\ from > 0),
                      ![t].out = IF upto > from THEN LinesBetween(from, upto) ELSE <<>>]
        /\ UNCHANGED <<logFile, otherEvents, log_tails, client>>

\* An abort takes effect when the task waits, not between the events it sends.
SendLine(t) ==
    /\ tail[t].at = "send"
    /\ IF tail[t].out = <<>>
         THEN tail' = [tail EXCEPT ![t].at = "loop"] /\ UNCHANGED client
         ELSE /\ tail' = [tail EXCEPT ![t].out = Tail(@)]
              /\ emit_event(Head(tail[t].out), tail[t].slipped \/ log_tails.task # t)
    /\ UNCHANGED <<logFile, otherEvents, log_tails>>

Aborted(t) ==
    /\ tail[t].abort /\ tail[t].at \in {"watch", "loop"}
    /\ tail' = [tail EXCEPT ![t].at = "ended"]
    /\ UNCHANGED <<logFile, otherEvents, log_tails, client>>

tail_run_logs(t) ==
    \/ WatchLogs(t) \/ initial_log_tail_cursors(t) \/ read_new_log_events(t)
    \/ SendLine(t) \/ Aborted(t)

events(c) ==
    \/ retain_run_log_tail(c) \/ Subscribe(c) \/ ClientGoes(c) \/ Forward(c)
    \/ release_run_log_tail(c) \/ AbortTail(c)

TailNext ==
    \/ WriteHalf \/ Truncate \/ OtherEvent(RunEvent) \/ OtherEvent(ForeignEvent)
    \/ \E c \in Clients : events(c)
    \/ \E t \in TailTasks : tail_run_logs(t)

TailSpec == TailInit /\ [][TailNext]_tailVars

-----------------------------------------------------------------------------
Subscribed == {c \in Clients : client[c].at \in {"retained", "open", "release"}}
BeingAborted(t) == \E c \in Clients : client[c].at = "abort" /\ client[c].release = t

(***************************************************************************)
(* The tail of a run is shared correctly: the registry counts its clients  *)
(* and those it has still to release, its task is never aborted under      *)
(* them, and every other task is about to be or was.                       *)
(***************************************************************************)
TailIsShared ==
    /\ log_tails.subscribers = Cardinality(Subscribed)
    /\ log_tails.task = NoTail <=> log_tails.subscribers = 0
    /\ \A t \in TailTasks :
         IF t = log_tails.task THEN ~tail[t].abort
         ELSE tail[t].at \in {"unborn", "ended"} \/ tail[t].abort \/ BeingAborted(t)

\* A tail at rest has read every complete line.
TailCatchesUp ==
    \A t \in TailTasks :
        tail[t].at = "loop" /\ ~tail[t].told /\ ~tail[t].slipped =>
            tail[t].offset >= 2 * (logFile.len \div 2)

(***************************************************************************)
(* A client gets the lines of the log one after the other, none twice,     *)
(* none left out and only the first one possibly in part, from the moment  *)
(* its tail began, and the tail leaves none behind.  A truncated file goes *)
(* on at its first line.  Excepted are a client that lagged, two tails     *)
(* that overlapped and a file that was truncated and had grown past the    *)
(* cursor before it was read.                                              *)
(***************************************************************************)
Follows(e, f) ==
    /\ f.whole
    /\ \/ f.gen = e.gen /\ f.line = e.line + 1
       \/ f.gen > e.gen /\ f.line = 1

LiveLogIsGapless ==
    /\ TailCatchesUp
    /\ \A c \in Clients : ~client[c].excused =>
         \A i \in 1..(Len(client[c].got) - 1) :
             Follows(client[c].got[i], client[c].got[i + 1])

-----------------------------------------------------------------------------
(***************************************************************************)
(* The inductive invariant of TailIsShared.  A task is started once, so    *)
(* the one a client is about to abort is not the one that is registered.   *)
(***************************************************************************)
Event == [gen : Nat, line : Nat, whole : BOOLEAN]

TailStates ==
    [at : {"unborn", "watch", "cursor", "loop", "send", "ended"}, abort : BOOLEAN,
     told : BOOLEAN, offset : Nat, out : Seq(Event), gen : Nat, slipped : BOOLEAN]
ClientStates ==
    [at : {"new", "retained", "open", "release", "abort", "closed"}, left : BOOLEAN,
     release : TailTasks \cup {NoTail}, rx : Seq(Event), got : Seq(Event), excused : BOOLEAN]

TailTypeOK ==
    /\ logFile \in [len : Nat, gen : Nat] /\ otherEvents \in Nat
    /\ log_tails \in [task : TailTasks \cup {NoTail}, subscribers : Nat]
    /\ tail \in [TailTasks -> TailStates]
    /\ client \in [Clients -> ClientStates]

StartedOnce ==
    /\ \A t \in TailTasks : tail[t].at = "unborn" => ~tail[t].abort /\ t # log_tails.task
    /\ \A c \in Clients : client[c].at = "abort" =>
         /\ client[c].release \in TailTasks \ {log_tails.task}
         /\ tail[client[c].release].at # "unborn"

TailInv == TailTypeOK /\ TailIsShared /\ StartedOnce
=============================================================================
