-------------------------- MODULE LogTails_proofs ---------------------------
(***************************************************************************)
(* What the readers of a log get.  The tail of a run is shared correctly,  *)
(* for any clients, tail tasks and capacity of the channel: TailSpec       *)
(* implies []TailIsShared, and its clients get every line of the log in    *)
(* order: it implies []LiveLogIsGapless.  And the readers that ask the     *)
(* index, of LogQuery: the follower, the auto-share monitor and the facet  *)
(* queries.                                                                *)
(***************************************************************************)
EXTENDS LogTails, LogQuery, TLAPS, FiniteSetTheorems, SequenceTheorems, WellFoundedInduction

(***************************************************************************)
(* At first there is no tail and no subscriber.                            *)
(***************************************************************************)
LEMMA InitShared == TailInit => TailInv
<1> SUFFICES ASSUME TailInit PROVE TailInv
  OBVIOUS
<1>1. TailTypeOK
  BY TailAssumption DEF TailInit, TailTypeOK, TailStates, ClientStates, NoEntry, UnbornTail, NewClient
<1>2. Subscribed = {}
  BY DEF TailInit, Subscribed, NewClient
<1>3. TailIsShared
  BY <1>2, FS_EmptySet, TailAssumption DEF TailInit, TailIsShared, NoEntry, UnbornTail
<1>4. StartedOnce
  BY TailAssumption DEF TailInit, StartedOnce, NoEntry, UnbornTail, NewClient
<1> QED
  BY <1>1, <1>3, <1>4 DEF TailInv

(***************************************************************************)
(* Steps of a tail that neither start nor abort one, and events that go to *)
(* receivers, leave the sharing alone.                                     *)
(***************************************************************************)
LEMMA SharingUntouched ==
  ASSUME TailInv, TailTypeOK', log_tails' = log_tails,
         \A c \in Clients : client'[c].at \in {"retained", "open", "release"} <=> client[c].at \in {"retained", "open", "release"},
         \A c \in Clients : client'[c].at = "abort" <=> client[c].at = "abort",
         \A c \in Clients : client'[c].release = client[c].release,
         \A t \in TailTasks : tail'[t].abort = tail[t].abort,
         \A t \in TailTasks : tail'[t].at = "unborn" <=> tail[t].at = "unborn",
         \A t \in TailTasks : tail[t].at = "ended" => tail'[t].at = "ended"
  PROVE  TailInv'
<1>1. Subscribed' = Subscribed
  BY DEF Subscribed
<1>2. \A t \in TailTasks : BeingAborted(t)' <=> BeingAborted(t)
  BY DEF BeingAborted
<1>3. TailIsShared'
  BY <1>1, <1>2 DEF TailInv, TailTypeOK, TailStates, TailIsShared
<1>4. StartedOnce'
  BY DEF TailInv, TailTypeOK, StartedOnce
<1> QED
  BY <1>3, <1>4 DEF TailInv

(***************************************************************************)
(* A new value of one client keeps the type.                               *)
(***************************************************************************)
LEMMA ClientTyped ==
  ASSUME TailTypeOK, NEW c \in Clients, NEW v \in ClientStates,
         client' = [client EXCEPT ![c] = v]
  PROVE  client' \in [Clients -> ClientStates]
BY DEF TailTypeOK

(***************************************************************************)
(* The same of a tail.                                                     *)
(***************************************************************************)
LEMMA TailTyped ==
  ASSUME TailTypeOK, NEW t \in TailTasks, NEW v \in TailStates,
         tail' = [tail EXCEPT ![t] = v]
  PROVE  tail' \in [TailTasks -> TailStates]
BY DEF TailTypeOK

(***************************************************************************)
(* retain_run_log_tail counts one client more, and starts a task that was  *)
(* never started if there is none.                                         *)
(***************************************************************************)
LEMMA RetainShares ==
  ASSUME TailInv, NEW c \in Clients, retain_run_log_tail(c)
  PROVE  TailInv'
<1> USE DEF retain_run_log_tail
<1>1. TailTypeOK'
  <2>1. client[c] \in ClientStates /\ [client[c] EXCEPT !.at = "retained"] \in ClientStates
    BY DEF TailInv, TailTypeOK, ClientStates
  <2>2. client' \in [Clients -> ClientStates]
    BY <2>1, ClientTyped DEF TailInv
  <2>3. \A t \in TailTasks : [tail[t] EXCEPT !.at = "watch"] \in TailStates
    BY DEF TailInv, TailTypeOK, TailStates
  <2>4. tail' \in [TailTasks -> TailStates]
    BY <2>3, TailTyped DEF TailInv, TailTypeOK
  <2>5. log_tails' \in [task : TailTasks \cup {NoTail}, subscribers : Nat]
    BY DEF TailInv, TailTypeOK
  <2> QED
    BY <2>2, <2>4, <2>5 DEF TailInv, TailTypeOK
<1>2. IsFiniteSet(Subscribed) /\ c \notin Subscribed
  BY FS_Subset, TailAssumption DEF Subscribed
<1>3. Subscribed' = Subscribed \cup {c}
  BY DEF Subscribed, TailInv, TailTypeOK, TailStates, ClientStates
<1>4. Cardinality(Subscribed') = Cardinality(Subscribed) + 1
  BY <1>2, <1>3, FS_AddElement
<1>5. \A t \in TailTasks : BeingAborted(t)' <=> BeingAborted(t)
  BY DEF BeingAborted, TailInv, TailTypeOK, TailStates, ClientStates
<1>7. CASE log_tails.task # NoTail
  <2>1. log_tails' = [log_tails EXCEPT !.subscribers = @ + 1] /\ tail' = tail
    BY <1>7
  <2>2. TailIsShared'
    BY <2>1, <1>4, <1>5, <1>7 DEF TailIsShared, TailInv, TailTypeOK, TailStates, ClientStates
  <2>3. StartedOnce'
    BY <2>1 DEF StartedOnce, TailInv, TailTypeOK, ClientStates
  <2> QED
    BY <2>2, <2>3, <1>1 DEF TailInv
<1>8. CASE log_tails.task = NoTail
  <2>1. PICK t \in TailTasks :
          /\ tail[t].at = "unborn"
          /\ tail' = [tail EXCEPT ![t].at = "watch"]
          /\ log_tails' = [task |-> t, subscribers |-> 1]
    BY <1>8
  <2>2. Cardinality(Subscribed') = 1
    BY <1>4, <1>8 DEF TailInv, TailIsShared
  <2>3. ~tail'[t].abort
    BY <2>1 DEF TailInv, TailTypeOK, StartedOnce
  <2>4. ASSUME NEW u \in TailTasks, u # t
        PROVE  tail'[u].at \in {"unborn", "ended"} \/ tail'[u].abort \/ BeingAborted(u)'
    BY <2>1, <2>4, <1>5, <1>8, TailAssumption DEF TailInv, TailTypeOK, TailIsShared
  <2>5. TailIsShared'
    BY <2>1, <2>2, <2>3, <2>4, TailAssumption DEF TailIsShared
  <2>6. StartedOnce'
    <3>1. \A u \in TailTasks : /\ tail'[u].abort = tail[u].abort
                               /\ tail'[u].at = IF u = t THEN "watch" ELSE tail[u].at
      BY <2>1 DEF TailInv, TailTypeOK, TailStates
    <3>2. \A d \in Clients : /\ client'[d].at = "abort" <=> client[d].at = "abort"
                             /\ client'[d].release = client[d].release
      BY DEF TailInv, TailTypeOK, ClientStates
    <3> QED
      BY <2>1, <3>1, <3>2 DEF StartedOnce, TailInv
  <2> QED
    BY <2>5, <2>6, <1>1 DEF TailInv
<1> QED
  BY <1>7, <1>8

(***************************************************************************)
(* release_run_log_tail counts one client less; the task of the last one   *)
(* becomes one that is about to be aborted.                                *)
(***************************************************************************)
LEMMA ReleaseShares ==
  ASSUME TailInv, NEW c \in Clients, release_run_log_tail(c)
  PROVE  TailInv'
<1> USE DEF release_run_log_tail
<1>1. IsFiniteSet(Subscribed) /\ c \in Subscribed
  BY FS_Subset, TailAssumption DEF Subscribed
<1>2. log_tails.subscribers \in Nat \ {0} /\ log_tails.task \in TailTasks
  <2>1. Cardinality(Subscribed) # 0
    BY <1>1, FS_EmptySet
  <2> QED
    BY <2>1 DEF TailInv, TailTypeOK, TailIsShared
<1>3. Subscribed' = Subscribed \ {c}
  BY DEF Subscribed, TailInv, TailTypeOK, TailStates, ClientStates
<1>4. Cardinality(Subscribed') = Cardinality(Subscribed) - 1
  BY <1>1, <1>3, FS_RemoveElement
<1>5. TailTypeOK'
  <2>1. /\ [client[c] EXCEPT !.at = "closed"] \in ClientStates
        /\ [client[c] EXCEPT !.at = "abort", !.release = log_tails.task] \in ClientStates
    BY DEF TailInv, TailTypeOK, ClientStates
  <2>2. \/ client' = [client EXCEPT ![c] = [client[c] EXCEPT !.at = "closed"]]
        \/ client' = [client EXCEPT ![c] =
                         [client[c] EXCEPT !.at = "abort", !.release = log_tails.task]]
    BY DEF TailInv, TailTypeOK
  <2>3. client' \in [Clients -> ClientStates]
    BY <2>1, <2>2, ClientTyped DEF TailInv
  <2>4. log_tails' \in [task : TailTasks \cup {NoTail}, subscribers : Nat]
    BY <1>2 DEF TailInv, TailTypeOK, NoEntry
  <2> QED
    BY <2>3, <2>4 DEF TailInv, TailTypeOK
<1>6. CASE log_tails.subscribers > 1
  <2>1. log_tails' = [log_tails EXCEPT !.subscribers = @ - 1]
        /\ client' = [client EXCEPT ![c].at = "closed"]
    BY <1>6
  <2>2. \A t \in TailTasks : BeingAborted(t)' <=> BeingAborted(t)
    BY <2>1 DEF BeingAborted, TailInv, TailTypeOK, TailStates, ClientStates
  <2>3. TailIsShared'
    BY <2>1, <2>2, <1>2, <1>4, <1>6, TailAssumption DEF TailIsShared, TailInv, TailTypeOK, TailStates, ClientStates
  <2>4. StartedOnce'
    BY <2>1 DEF StartedOnce, TailInv, TailTypeOK, TailStates, ClientStates
  <2> QED
    BY <2>3, <2>4, <1>5 DEF TailInv
<1>7. CASE ~(log_tails.subscribers > 1)
  <2>1. log_tails' = NoEntry
        /\ client' = [client EXCEPT ![c].at = "abort", ![c].release = log_tails.task]
        /\ tail' = tail
    BY <1>7
  <2>2. Cardinality(Subscribed') = 0
    BY <1>2, <1>4, <1>7 DEF TailInv, TailIsShared
  <2>3. ASSUME NEW t \in TailTasks, t = log_tails.task
        PROVE  BeingAborted(t)'
    BY <2>1, <2>3 DEF BeingAborted, TailInv, TailTypeOK, TailStates, ClientStates
  <2>4. \A t \in TailTasks : BeingAborted(t) => BeingAborted(t)'
    BY <2>1 DEF BeingAborted, TailInv, TailTypeOK, TailStates, ClientStates
  <2>5. TailIsShared'
    BY <2>1, <2>2, <2>3, <2>4, TailAssumption DEF TailIsShared, TailInv, NoEntry
  <2>6. StartedOnce'
    BY <2>1, <1>2, TailAssumption DEF StartedOnce, TailInv, TailTypeOK, NoEntry
  <2> QED
    BY <2>5, <2>6, <1>5 DEF TailInv
<1> QED
  BY <1>6, <1>7

(***************************************************************************)
(* The abort hits the task the client took out of the registry, not the    *)
(* one registered since.                                                   *)
(***************************************************************************)
LEMMA AbortShares ==
  ASSUME TailInv, NEW c \in Clients, AbortTail(c)
  PROVE  TailInv'
<1> USE DEF AbortTail
<1>1. TailTypeOK'
  <2>1. [client[c] EXCEPT !.at = "closed", !.release = NoTail] \in ClientStates
    BY DEF TailInv, TailTypeOK, ClientStates
  <2>2. client' = [client EXCEPT ![c] = [client[c] EXCEPT !.at = "closed", !.release = NoTail]]
    BY DEF TailInv, TailTypeOK
  <2>5. client' \in [Clients -> ClientStates]
    BY <2>1, <2>2, ClientTyped DEF TailInv
  <2>3. \A t \in TailTasks : [tail[t] EXCEPT !.abort = TRUE] \in TailStates
    BY DEF TailInv, TailTypeOK, TailStates
  <2>4. tail' \in [TailTasks -> TailStates]
    BY <2>3 DEF TailInv, TailTypeOK
  <2> QED
    BY <2>4, <2>5 DEF TailInv, TailTypeOK
<1>2. Subscribed' = Subscribed
  BY DEF Subscribed, TailInv, TailTypeOK, TailStates, ClientStates
<1>3. client[c].release \in TailTasks \ {log_tails.task}
  BY DEF TailInv, StartedOnce
<1>4. tail'[client[c].release].abort
  BY <1>3 DEF TailInv, TailTypeOK, TailStates, ClientStates
<1>5. \A t \in TailTasks : BeingAborted(t) /\ t # client[c].release => BeingAborted(t)'
  BY DEF BeingAborted, TailInv, TailTypeOK, TailStates, ClientStates
<1>6. TailIsShared'
  BY <1>2, <1>3, <1>4, <1>5 DEF TailIsShared, TailInv, TailTypeOK, TailStates, ClientStates
<1>7. StartedOnce'
  BY <1>3 DEF StartedOnce, TailInv, TailTypeOK, TailStates, ClientStates
<1> QED
  BY <1>1, <1>6, <1>7 DEF TailInv

-----------------------------------------------------------------------------
(***************************************************************************)
(* Changes of the file notify the tails.                                   *)
(***************************************************************************)
LEMMA FileShares ==
  ASSUME TailInv, WriteHalf \/ Truncate
  PROVE  TailInv'
<1>1. /\ tail' = Told /\ UNCHANGED <<otherEvents, log_tails, client>>
      /\ logFile' \in [len : Nat, gen : Nat]
  <2>1. logFile \in [len : Nat, gen : Nat]
    BY DEF TailInv, TailTypeOK
  <2>2. [logFile EXCEPT !.len = @ + 1] \in [len : Nat, gen : Nat]
    BY <2>1
  <2>3. [len |-> 0, gen |-> logFile.gen + 1] \in [len : Nat, gen : Nat]
    BY <2>1
  <2>. QED  BY <2>2, <2>3 DEF WriteHalf, Truncate
<1>2. \A t \in TailTasks : [tail[t] EXCEPT !.told = TRUE] \in TailStates
  BY DEF TailInv, TailTypeOK, TailStates
<1>3. TailTypeOK'
  BY <1>1, <1>2 DEF TailInv, TailTypeOK, Told
<1>4. \A t \in TailTasks : tail'[t].abort = tail[t].abort /\ tail'[t].at = tail[t].at
  BY <1>1 DEF Told, TailInv, TailTypeOK, TailStates
<1> QED
  BY <1>1, <1>3, <1>4, SharingUntouched

(***************************************************************************)
(* A client stays counted when it subscribes and when it leaves.           *)
(***************************************************************************)
LEMMA SubscriberShares ==
  ASSUME TailInv, NEW c \in Clients, Subscribe(c) \/ ClientGoes(c)
  PROVE  TailInv'
<1>1. /\ UNCHANGED <<logFile, otherEvents, log_tails, tail>>
      /\ \/ client' = [client EXCEPT ![c] = [client[c] EXCEPT !.at = "open"]]
            /\ client[c].at = "retained"
         \/ client' = [client EXCEPT ![c] = [client[c] EXCEPT !.left = TRUE]]
  BY DEF Subscribe, ClientGoes, TailInv, TailTypeOK
<1>2. /\ [client[c] EXCEPT !.at = "open"] \in ClientStates
      /\ [client[c] EXCEPT !.left = TRUE] \in ClientStates
  BY DEF TailInv, TailTypeOK, ClientStates
<1>3. client' \in [Clients -> ClientStates]
  BY <1>1, <1>2, ClientTyped DEF TailInv
<1>4. TailTypeOK'
  BY <1>1, <1>3 DEF TailInv, TailTypeOK
<1>5. \A d \in Clients :
        /\ client'[d].release = client[d].release
        /\ client'[d].at = client[d].at \/ (client[d].at = "retained" /\ client'[d].at = "open")
  <2>1. client[c] \in ClientStates /\ client \in [Clients -> ClientStates]
    BY DEF TailInv, TailTypeOK
  <2>2. /\ [client[c] EXCEPT !.at = "open"].release = client[c].release
        /\ [client[c] EXCEPT !.at = "open"].at = "open"
        /\ [client[c] EXCEPT !.left = TRUE].release = client[c].release
        /\ [client[c] EXCEPT !.left = TRUE].at = client[c].at
    BY <2>1 DEF ClientStates
  <2> QED
    BY <1>1, <2>1, <2>2
<1> QED
  BY <1>1, <1>4, <1>5, SharingUntouched

(***************************************************************************)
(* A client that is found to have left is counted until it is released.    *)
(***************************************************************************)
LEMMA ForwardShares ==
  ASSUME TailInv, NEW c \in Clients, Forward(c)
  PROVE  TailInv'
<1> DEFINE e == Head(client[c].rx)
           gone == client[c].left /\ e # ForeignEvent
           v == [client[c] EXCEPT !.rx = Tail(@), !.at = IF gone THEN "release" ELSE @,
                                  !.got = IF gone \/ e.line = 0 THEN @ ELSE Append(@, e)]
<1>1. /\ client[c].at = "open" /\ client[c].rx # <<>>
      /\ UNCHANGED <<logFile, otherEvents, log_tails, tail>>
      /\ client' = [client EXCEPT ![c] = v]
  BY DEF Forward, TailInv, TailTypeOK
<1>2. client[c] \in ClientStates
  BY DEF TailInv, TailTypeOK
<1>3. v \in ClientStates
  <2>1. /\ client[c].rx \in Seq(Event) /\ client[c].got \in Seq(Event)
        /\ client[c].rx # <<>>
    BY <1>1, <1>2 DEF ClientStates
  <2>2. e \in Event /\ Tail(client[c].rx) \in Seq(Event) /\ Append(client[c].got, e) \in Seq(Event)
    BY <2>1
  <2> QED
    BY <1>2, <2>2 DEF ClientStates
<1>4. client' \in [Clients -> ClientStates]
  BY <1>1, <1>3, ClientTyped DEF TailInv
<1>5. TailTypeOK'
  BY <1>1, <1>4 DEF TailInv, TailTypeOK
<1>6. v.release = client[c].release /\ v.at \in {"open", "release"}
  BY <1>1, <1>2 DEF ClientStates
<1> HIDE DEF v
<1>7. \A d \in Clients :
        /\ client'[d].release = client[d].release
        /\ client'[d].at = client[d].at
             \/ (client[d].at = "open" /\ client'[d].at \in {"open", "release"})
  BY <1>1, <1>6 DEF TailInv, TailTypeOK
<1> QED
  BY <1>1, <1>5, <1>7, SharingUntouched

(***************************************************************************)
(* An event reaches the receivers and nothing else of a client.            *)
(***************************************************************************)
LEMMA EventTyped ==
  ASSUME TailTypeOK, NEW e \in Event, NEW x \in BOOLEAN, emit_event(e, x)
  PROVE  /\ client' \in [Clients -> ClientStates]
         /\ \A c \in Clients : /\ client'[c].at = client[c].at
                               /\ client'[c].release = client[c].release
<1>1. ASSUME NEW c \in Clients
      PROVE  /\ Deliver(c, e, x) \in ClientStates
             /\ Deliver(c, e, x).at = client[c].at
             /\ Deliver(c, e, x).release = client[c].release
  <2>1. client[c] \in ClientStates
    BY DEF TailTypeOK
  <2> DEFINE rx == Append(client[c].rx, e)
  <2>2. rx \in Seq(Event) /\ rx # <<>>
    BY <2>1 DEF ClientStates
  <2>3. Tail(rx) \in Seq(Event)
    BY <2>2
  <2> HIDE DEF rx
  <2>4. /\ [client[c] EXCEPT !.rx = Tail(rx), !.excused = TRUE] \in ClientStates
        /\ [client[c] EXCEPT !.rx = rx, !.excused = @ \/ x] \in ClientStates
    BY <2>1, <2>2, <2>3 DEF ClientStates
  <2>5. /\ [client[c] EXCEPT !.rx = Tail(rx), !.excused = TRUE].at = client[c].at
        /\ [client[c] EXCEPT !.rx = Tail(rx), !.excused = TRUE].release = client[c].release
        /\ [client[c] EXCEPT !.rx = rx, !.excused = @ \/ x].at = client[c].at
        /\ [client[c] EXCEPT !.rx = rx, !.excused = @ \/ x].release = client[c].release
    BY <2>1 DEF ClientStates
  <2>6. Deliver(c, e, x) \in {client[c], [client[c] EXCEPT !.rx = Tail(rx), !.excused = TRUE],
                             [client[c] EXCEPT !.rx = rx, !.excused = @ \/ x]}
    BY DEF Deliver, rx
  <2> QED
    BY <2>1, <2>4, <2>5, <2>6
<1> QED
  BY <1>1 DEF emit_event

(***************************************************************************)
(* Events of other parts of the daemon.                                    *)
(***************************************************************************)
LEMMA OtherShares ==
  ASSUME TailInv, NEW e \in {RunEvent, ForeignEvent}, OtherEvent(e)
  PROVE  TailInv'
<1>1. RunEvent \in Event /\ ForeignEvent \in Event
  BY DEF RunEvent, ForeignEvent, Event
<1>2. /\ client' \in [Clients -> ClientStates]
      /\ \A c \in Clients : /\ client'[c].at = client[c].at
                            /\ client'[c].release = client[c].release
  BY <1>1, EventTyped DEF OtherEvent, TailInv
<1>3. UNCHANGED <<logFile, log_tails, tail>> /\ otherEvents' \in Nat
  BY DEF OtherEvent, TailInv, TailTypeOK
<1>4. TailTypeOK'
  BY <1>2, <1>3 DEF TailInv, TailTypeOK
<1> QED
  BY <1>2, <1>3, <1>4, SharingUntouched

-----------------------------------------------------------------------------
(***************************************************************************)
(* A step of a tail that is running changes neither whether it was started *)
(* nor whether it was aborted.                                             *)
(***************************************************************************)
LEMMA TailStepShares ==
  ASSUME TailInv, NEW t \in TailTasks, NEW v \in TailStates,
         tail' = [tail EXCEPT ![t] = v], v.abort = tail[t].abort,
         v.at # "unborn", tail[t].at \notin {"unborn", "ended"},
         UNCHANGED <<logFile, otherEvents, log_tails>>,
         client' \in [Clients -> ClientStates],
         \A c \in Clients : client'[c].at = client[c].at /\ client'[c].release = client[c].release
  PROVE  TailInv'
<1>1. TailTypeOK'
  BY TailTyped DEF TailInv, TailTypeOK
<1>2. \A u \in TailTasks : /\ tail'[u].abort = tail[u].abort
                           /\ tail'[u].at = "unborn" <=> tail[u].at = "unborn"
                           /\ tail[u].at = "ended" => tail'[u].at = "ended"
  BY DEF TailInv, TailTypeOK
<1> QED
  BY <1>1, <1>2, SharingUntouched

(***************************************************************************)
(* What is read between two offsets is a sequence of events.               *)
(***************************************************************************)
LEMMA LinesTyped ==
  ASSUME TailTypeOK, NEW from \in Nat, NEW upto \in Nat, upto > from
  PROVE  LinesBetween(from, upto) \in Seq(Event)
<1>1. (upto + 1) \div 2 - from \div 2 \in Nat
  OBVIOUS
<1>2. \A i \in 1..((upto + 1) \div 2 - from \div 2) :
        [gen |-> logFile.gen, line |-> from \div 2 + i, whole |-> i > 1 \/ from % 2 = 0] \in Event
  <2>1. logFile.gen \in Nat /\ from \div 2 \in Nat
    BY DEF TailTypeOK
  <2> QED
    BY <2>1, <1>1 DEF Event
<1> QED
  BY <1>1, <1>2 DEF LinesBetween

(***************************************************************************)
(* A read of the file.                                                     *)
(***************************************************************************)
LEMMA ReadShares ==
  ASSUME TailInv, NEW t \in TailTasks, read_new_log_events(t)
  PROVE  TailInv'
<1> DEFINE from == IF logFile.len < tail[t].offset THEN 0 ELSE tail[t].offset
           upto == 2 * (logFile.len \div 2)
           out == IF upto > from THEN LinesBetween(from, upto) ELSE <<>>
           v == [tail[t] EXCEPT
                   !.told = FALSE, !.at = "send", !.gen = logFile.gen,
                   !.offset = IF upto > from THEN upto ELSE from,
                   !.slipped = @ \/ (tail[t].gen # logFile.gen /\ from > 0), !.out = out]
<1>1. /\ tail[t].at = "loop" /\ tail' = [tail EXCEPT ![t] = v]
      /\ UNCHANGED <<logFile, otherEvents, log_tails, client>>
  BY DEF read_new_log_events, TailInv, TailTypeOK
<1>2. /\ tail[t] \in TailStates /\ TailTypeOK
      /\ logFile.len \in Nat /\ logFile.gen \in Nat
  BY DEF TailInv, TailTypeOK
<1>3. from \in Nat /\ upto \in Nat
  BY <1>2 DEF TailStates
<1>4. out \in Seq(Event)
  BY <1>2, <1>3, LinesTyped
<1> HIDE DEF from, upto, out
<1>5. v \in TailStates /\ v.abort = tail[t].abort /\ v.at = "send"
  BY <1>2, <1>3, <1>4 DEF TailStates
<1> HIDE DEF v
<1> QED
  BY <1>1, <1>5, TailStepShares DEF TailInv, TailTypeOK

(***************************************************************************)
(* An event of a read is sent.                                             *)
(***************************************************************************)
LEMMA SendShares ==
  ASSUME TailInv, NEW t \in TailTasks, SendLine(t)
  PROVE  TailInv'
<1>1. tail[t] \in TailStates /\ TailTypeOK
  BY DEF TailInv, TailTypeOK
<1>2. CASE tail[t].out = <<>>
  <2> DEFINE v == [tail[t] EXCEPT !.at = "loop"]
  <2>1. /\ tail[t].at = "send" /\ tail' = [tail EXCEPT ![t] = v]
        /\ UNCHANGED <<logFile, otherEvents, log_tails, client>>
    BY <1>2 DEF SendLine, TailInv, TailTypeOK
  <2>2. v \in TailStates /\ v.abort = tail[t].abort /\ v.at = "loop"
    BY <1>1 DEF TailStates
  <2> HIDE DEF v
  <2> QED
    BY <2>1, <2>2, TailStepShares DEF TailInv, TailTypeOK
<1>3. CASE tail[t].out # <<>>
  <2> DEFINE v == [tail[t] EXCEPT !.out = Tail(@)]
  <2>1. /\ tail[t].at = "send" /\ tail' = [tail EXCEPT ![t] = v]
        /\ UNCHANGED <<logFile, otherEvents, log_tails>>
        /\ emit_event(Head(tail[t].out), tail[t].slipped \/ log_tails.task # t)
    BY <1>3 DEF SendLine, TailInv, TailTypeOK
  <2>2. tail[t].out \in Seq(Event)
    BY <1>1 DEF TailStates
  <2>3. Head(tail[t].out) \in Event /\ Tail(tail[t].out) \in Seq(Event)
    BY <2>2, <1>3
  <2>4. v \in TailStates /\ v.abort = tail[t].abort /\ v.at = tail[t].at
    BY <1>1, <2>3 DEF TailStates
  <2>5. (tail[t].slipped \/ log_tails.task # t) \in BOOLEAN
    OBVIOUS
  <2>6. /\ client' \in [Clients -> ClientStates]
        /\ \A c \in Clients : /\ client'[c].at = client[c].at
                              /\ client'[c].release = client[c].release
    BY <1>1, <2>1, <2>3, <2>5, EventTyped
  <2> HIDE DEF v
  <2> QED
    BY <2>1, <2>4, <2>6, TailStepShares
<1> QED
  BY <1>2, <1>3

(***************************************************************************)
(* The beginning of a tail and its end.                                    *)
(***************************************************************************)
LEMMA RestShares ==
  ASSUME TailInv, NEW t \in TailTasks,
         WatchLogs(t) \/ initial_log_tail_cursors(t) \/ Aborted(t)
  PROVE  TailInv'
<1>1. tail[t] \in TailStates /\ logFile.len \in Nat /\ logFile.gen \in Nat
  BY DEF TailInv, TailTypeOK
<1>2. /\ tail[t].at \in {"watch", "cursor", "loop"}
      /\ UNCHANGED <<logFile, otherEvents, log_tails, client>>
      /\ \/ tail' = [tail EXCEPT ![t] = [tail[t] EXCEPT !.at = "cursor"]]
         \/ tail' = [tail EXCEPT ![t] = [tail[t] EXCEPT !.at = "ended"]]
         \/ tail' = [tail EXCEPT ![t] = [tail[t] EXCEPT
                        !.at = "loop", !.offset = logFile.len, !.gen = logFile.gen]]
  BY DEF WatchLogs, initial_log_tail_cursors, Aborted, TailInv, TailTypeOK
<1>3. ASSUME NEW v \in {[tail[t] EXCEPT !.at = "cursor"], [tail[t] EXCEPT !.at = "ended"],
                        [tail[t] EXCEPT !.at = "loop", !.offset = logFile.len,
                                        !.gen = logFile.gen]}
      PROVE  v \in TailStates /\ v.abort = tail[t].abort /\ v.at # "unborn"
  BY <1>1 DEF TailStates
<1>4. PICK v \in TailStates :
        tail' = [tail EXCEPT ![t] = v] /\ v.abort = tail[t].abort /\ v.at # "unborn"
  BY <1>2, <1>3
<1> QED
  BY <1>2, <1>4, TailStepShares DEF TailInv, TailTypeOK

(***************************************************************************)
(* Nothing changes.                                                        *)
(***************************************************************************)
LEMMA StutterShares == TailInv /\ UNCHANGED tailVars => TailInv'
<1> SUFFICES ASSUME TailInv, UNCHANGED tailVars PROVE TailInv'
  OBVIOUS
<1>1. TailTypeOK' /\ UNCHANGED <<log_tails, tail, client>>
  BY DEF tailVars, TailInv, TailTypeOK
<1> QED
  BY <1>1, SharingUntouched

-----------------------------------------------------------------------------
(***************************************************************************)
(* The tail of a run, as release_run_log_tail and retain_run_log_tail      *)
(* share it, is counted right and never aborted under a client.            *)
(***************************************************************************)
THEOREM TailSharing == TailSpec => []TailIsShared
<1>1. TailInv /\ [TailNext]_tailVars => TailInv'
  <2> SUFFICES ASSUME TailInv, [TailNext]_tailVars PROVE TailInv'
    OBVIOUS
  <2>1. CASE UNCHANGED tailVars
    BY <2>1, StutterShares
  <2>2. CASE WriteHalf \/ Truncate
    BY <2>2, FileShares
  <2>3. CASE OtherEvent(RunEvent) \/ OtherEvent(ForeignEvent)
    BY <2>3, OtherShares
  <2>4. ASSUME NEW c \in Clients, events(c) PROVE TailInv'
    BY <2>4, RetainShares, SubscriberShares, ForwardShares, ReleaseShares, AbortShares DEF events
  <2>5. ASSUME NEW t \in TailTasks, tail_run_logs(t) PROVE TailInv'
    BY <2>5, ReadShares, SendShares, RestShares DEF tail_run_logs
  <2> QED
    BY <2>1, <2>2, <2>3, <2>4, <2>5 DEF TailNext
<1>2. TailInv => TailIsShared
  BY DEF TailInv
<1> QED
  BY InitShared, <1>1, <1>2, PTL DEF TailSpec

-----------------------------------------------------------------------------
(***************************************************************************)
(* What a tail has still to send goes on where the last line it sent ended *)
(* and ends at its cursor; what a client has got or will get goes on from  *)
(* line to line, other events apart.                                       *)
(***************************************************************************)
OutInv(t) ==
    /\ tail[t].at # "send" => tail[t].out = <<>>
    /\ ~tail[t].slipped =>
         /\ \A i \in 1 .. Len(tail[t].out) : tail[t].out[i].line # 0
         /\ \A i \in 1 .. (Len(tail[t].out) - 1) : Follows(tail[t].out[i], tail[t].out[i + 1])
         /\ tail[t].out # <<>> =>
              LET e == tail[t].out[Len(tail[t].out)] IN
              e.gen = tail[t].gen /\ tail[t].offset = 2 * e.line

CursorInv(t) ==
    /\ tail[t].gen <= logFile.gen
    /\ tail[t].gen = logFile.gen => tail[t].offset <= logFile.len
    /\ tail[t].at \in {"loop", "send"} /\ ~tail[t].told =>
         tail[t].offset >= 2 * (logFile.len \div 2)

Gapless(q) ==
    \A i, j \in 1 .. Len(q) :
        /\ i < j /\ q[i].line # 0 /\ q[j].line # 0
        /\ \A k \in (i + 1) .. (j - 1) : q[k].line = 0
        => Follows(q[i], q[j])

IsLast(q, i) == q[i].line # 0 /\ \A k \in (i + 1) .. Len(q) : q[k].line = 0

\* The tail goes on after e.
GoesOn(t, e) ==
    IF tail[t].out # <<>> THEN Follows(e, tail[t].out[1])
    ELSE /\ e.gen <= tail[t].gen
         /\ tail[t].offset = IF e.gen = tail[t].gen THEN 2 * e.line ELSE 0

Stream(c) == client[c].got \o client[c].rx

ServedUpTo(e) ==
    LET t == log_tails.task IN
    /\ t \in TailTasks /\ tail[t].at \in {"loop", "send"}
    /\ ~tail[t].slipped => GoesOn(t, e)

ReceiverInv(c) ==
    /\ client[c].at \in {"new", "retained"} => client[c].rx = <<>> /\ client[c].got = <<>>
    /\ \A i \in 1 .. Len(client[c].got) : client[c].got[i].line # 0
    /\ ~client[c].excused => Gapless(client[c].got)
    /\ ~client[c].excused /\ client[c].at = "open" =>
         /\ Gapless(Stream(c))
         /\ \A i \in 1 .. Len(Stream(c)) : IsLast(Stream(c), i) => ServedUpTo(Stream(c)[i])

LiveInv ==
    /\ TailInv
    /\ \A t \in TailTasks : OutInv(t) /\ CursorInv(t)
    /\ \A c \in Clients : ReceiverInv(c)

-----------------------------------------------------------------------------
\* The next line follows the last one.
LEMMA GaplessAppend ==
  ASSUME NEW q \in Seq(Event), NEW e \in Event, Gapless(q),
         e.line # 0 => \A i \in 1 .. Len(q) : IsLast(q, i) => Follows(q[i], e)
  PROVE  /\ Gapless(Append(q, e))
         /\ \A i \in 1 .. Len(Append(q, e)) : IsLast(Append(q, e), i) =>
              IF e.line # 0 THEN Append(q, e)[i] = e
              ELSE i \in 1 .. Len(q) /\ IsLast(q, i) /\ Append(q, e)[i] = q[i]
<1>1. PICK r : r = Append(q, e)
  OBVIOUS
<1>2. PICK n \in Nat : n = Len(q)
  OBVIOUS
<1>3. Len(r) = n + 1 /\ r[n + 1] = e /\ \A i \in 1 .. n : r[i] = q[i]
  BY <1>1, <1>2
<1>4. Gapless(r)
  <2>. SUFFICES ASSUME NEW i \in 1 .. Len(r), NEW j \in 1 .. Len(r), i < j,
                       r[i].line # 0, r[j].line # 0, \A k \in (i + 1) .. (j - 1) : r[k].line = 0
                PROVE  Follows(r[i], r[j])
    BY DEF Gapless
  <2>1. i \in 1 .. n /\ i \in Int /\ j \in Int /\ r[i] = q[i]
    BY <1>2, <1>3
  <2>2. CASE j = n + 1
    <3>1. r[j] = e /\ e.line # 0
      BY <1>3, <2>2
    <3>2. \A k \in (i + 1) .. n : r[k].line = 0
      BY <2>1, <2>2
    <3>3. \A k \in (i + 1) .. n : k \in 1 .. n
      BY <2>1
    <3>4. IsLast(q, i)
      BY <1>2, <1>3, <2>1, <3>2, <3>3 DEF IsLast
    <3>. QED  BY <1>2, <2>1, <3>1, <3>4
  <2>3. CASE j # n + 1
    <3>1. j \in 1 .. n /\ r[j] = q[j]
      BY <1>2, <1>3, <2>3
    <3>2. \A k \in (i + 1) .. (j - 1) : k \in 1 .. n
      BY <2>1, <3>1
    <3>3. \A k \in (i + 1) .. (j - 1) : q[k].line = 0
      BY <1>3, <3>2
    <3>. QED  BY <1>2, <2>1, <3>1, <3>3 DEF Gapless
  <2>. QED  BY <2>2, <2>3
<1>5. ASSUME NEW i \in 1 .. Len(r), IsLast(r, i)
      PROVE  IF e.line # 0 THEN r[i] = e ELSE i \in 1 .. n /\ IsLast(q, i) /\ r[i] = q[i]
  <2>1. i \in Int /\ r[i].line # 0 /\ \A k \in (i + 1) .. (n + 1) : r[k].line = 0
    BY <1>3, <1>5 DEF IsLast
  <2>2. CASE i = n + 1
    BY <1>3, <2>1, <2>2
  <2>3. CASE i # n + 1
    <3>1. i \in 1 .. n /\ n + 1 \in (i + 1) .. (n + 1)
      BY <1>2, <1>3, <2>3
    <3>2. e.line = 0 /\ r[i] = q[i]
      BY <1>3, <2>1, <3>1
    <3>3. \A k \in (i + 1) .. n : k \in 1 .. n /\ k \in (i + 1) .. (n + 1)
      BY <3>1, <1>2
    <3>4. IsLast(q, i)
      BY <1>2, <1>3, <2>1, <3>2, <3>3 DEF IsLast
    <3>. QED  BY <3>1, <3>2, <3>4
  <2>. QED  BY <2>2, <2>3
<1>. QED  BY <1>1, <1>2, <1>4, <1>5

\* An event that is no line makes no difference.
LEMMA GaplessWithout ==
  ASSUME NEW p \in Seq(Event), NEW r \in Seq(Event), r # <<>>, Head(r).line = 0,
         Gapless(p \o r)
  PROVE  /\ Gapless(p \o Tail(r))
         /\ \A i \in 1 .. Len(p \o Tail(r)) : IsLast(p \o Tail(r), i) =>
              \E j \in 1 .. Len(p \o r) : IsLast(p \o r, j) /\ (p \o r)[j] = (p \o Tail(r))[i]
<1>1. PICK q, s : q = p \o r /\ s = p \o Tail(r)
  OBVIOUS
<1>2. PICK n \in Nat, m \in Nat : n = Len(p) /\ m = Len(Tail(r))
  OBVIOUS
<1>3. Len(r) = m + 1 /\ Head(r) = r[1] /\ \A i \in 1 .. m : Tail(r)[i] = r[i + 1]
  BY <1>2
<1>4. Len(q) = n + m + 1 /\ Len(s) = n + m
  BY <1>1, <1>2, <1>3
<1>5. \A i \in 1 .. n : s[i] = q[i]
  BY <1>1, <1>2, <1>3
<1>6. q[n + 1].line = 0
  BY <1>1, <1>2, <1>3
<1>7. \A i \in (n + 1) .. (n + m) : s[i] = q[i + 1]
  <2>. SUFFICES ASSUME NEW i \in (n + 1) .. (n + m) PROVE s[i] = q[i + 1]
    OBVIOUS
  <2>1. i \in 1 .. (n + m) /\ i > n /\ i - n \in 1 .. m
    OBVIOUS
  <2>2. s[i] = Tail(r)[i - n]
    BY <1>1, <1>2, <2>1
  <2>3. i + 1 \in 1 .. (n + (m + 1)) /\ i + 1 > n /\ (i + 1) - n = (i - n) + 1
    BY <2>1
  <2>4. q[i + 1] = r[(i - n) + 1]
    BY <1>1, <1>2, <1>3, <2>3
  <2>. QED  BY <1>3, <2>1, <2>2, <2>4
<1>. DEFINE place(i) == IF i <= n THEN i ELSE i + 1
<1>8. \A i \in 1 .. (n + m) : place(i) \in 1 .. (n + m + 1) /\ s[i] = q[place(i)] /\ place(i) # n + 1
  BY <1>5, <1>7
\* Every place of q but n + 1 is that of an event of s.
<1>9. \A k \in 1 .. (n + m + 1) : k # n + 1 =>
        \E i \in 1 .. (n + m) : place(i) = k
  <2>. SUFFICES ASSUME NEW k \in 1 .. (n + m + 1), k # n + 1
                PROVE  \E i \in 1 .. (n + m) : place(i) = k
    OBVIOUS
  <2>1. CASE k <= n
    <3>1. k \in 1 .. (n + m) /\ place(k) = k
      BY <2>1
    <3>. QED  BY <3>1
  <2>2. CASE k > n + 1
    <3>1. k - 1 \in 1 .. (n + m) /\ place(k - 1) = k
      BY <2>2
    <3>. QED  BY <3>1
  <2>. QED  BY <2>1, <2>2
<1>10. \A i, j \in 1 .. (n + m) : i < j <=> place(i) < place(j)
  OBVIOUS
<1>. HIDE DEF place
<1>11. Gapless(s)
  <2>. SUFFICES ASSUME NEW i \in 1 .. (n + m), NEW j \in 1 .. (n + m), i < j,
                       s[i].line # 0, s[j].line # 0, \A k \in (i + 1) .. (j - 1) : s[k].line = 0
                PROVE  Follows(s[i], s[j])
    BY <1>4 DEF Gapless
  <2>1. place(i) < place(j) /\ place(i) \in 1 .. (n + m + 1) /\ place(j) \in 1 .. (n + m + 1)
    BY <1>8, <1>10
  <2>2. ASSUME NEW k \in (place(i) + 1) .. (place(j) - 1) PROVE q[k].line = 0
    <3>1. k \in 1 .. (n + m + 1)
      BY <2>1
    <3>2. CASE k = n + 1
      BY <1>6, <3>2
    <3>3. CASE k # n + 1
      <4>1. PICK h \in 1 .. (n + m) : place(h) = k
        BY <1>9, <3>1, <3>3
      <4>2. place(i) < place(h) /\ place(h) < place(j)
        BY <2>1, <4>1
      <4>3. i < h /\ h < j
        BY <1>10, <4>2
      <4>4. h \in (i + 1) .. (j - 1)
        BY <4>3
      <4>. QED  BY <1>8, <4>1, <4>4
    <3>. QED  BY <3>2, <3>3
  <2>3. q[place(i)] = s[i] /\ q[place(j)] = s[j]
    BY <1>8
  <2>4. Gapless(q)
    BY <1>1, Zenon
  <2>5. \A k \in (place(i) + 1) .. (place(j) - 1) : q[k].line = 0
    BY <2>2
  <2>6. q[place(i)].line # 0 /\ q[place(j)].line # 0
    BY <2>3
  <2>7. Follows(q[place(i)], q[place(j)])
    BY <1>4, <2>1, <2>4, <2>5, <2>6 DEF Gapless
  <2>. QED  BY <2>3, <2>7
<1>12. ASSUME NEW i \in 1 .. (n + m), IsLast(s, i)
       PROVE  place(i) \in 1 .. (n + m + 1) /\ IsLast(q, place(i)) /\ q[place(i)] = s[i]
  <2>1. place(i) \in 1 .. (n + m + 1) /\ q[place(i)] = s[i]
    BY <1>8
  <2>2. s[i].line # 0 /\ \A k \in (i + 1) .. (n + m) : s[k].line = 0
    BY <1>4, <1>12 DEF IsLast
  <2>3. ASSUME NEW k \in (place(i) + 1) .. (n + m + 1) PROVE q[k].line = 0
    <3>1. k \in 1 .. (n + m + 1)
      BY <2>1
    <3>2. CASE k = n + 1
      BY <1>6, <3>2
    <3>3. CASE k # n + 1
      <4>1. PICK h \in 1 .. (n + m) : place(h) = k
        BY <1>9, <3>1, <3>3
      <4>2. i < h
        BY <1>10, <2>1, <4>1
      <4>3. h \in (i + 1) .. (n + m)
        BY <4>2
      <4>. QED  BY <1>8, <2>2, <4>1, <4>3
    <3>. QED  BY <3>2, <3>3
  <2>. QED  BY <1>4, <2>1, <2>2, <2>3 DEF IsLast
<1>. QED  BY <1>1, <1>4, <1>11, <1>12

\* What has been got is the beginning of the stream.
LEMMA GaplessPrefix ==
  ASSUME NEW p \in Seq(Event), NEW r \in Seq(Event), Gapless(p \o r)
  PROVE  Gapless(p)
<1>1. \A i \in 1 .. Len(p) : i \in 1 .. Len(p \o r) /\ (p \o r)[i] = p[i]
  OBVIOUS
<1>2. Len(p) \in Nat
  OBVIOUS
<1>. SUFFICES ASSUME NEW i \in 1 .. Len(p), NEW j \in 1 .. Len(p), i < j,
                     p[i].line # 0, p[j].line # 0, \A k \in (i + 1) .. (j - 1) : p[k].line = 0
              PROVE  Follows(p[i], p[j])
  BY DEF Gapless
<1>3. \A k \in (i + 1) .. (j - 1) : k \in 1 .. Len(p)
  BY <1>2
<1>4. \A k \in (i + 1) .. (j - 1) : (p \o r)[k].line = 0
  BY <1>1, <1>3
<1>. QED  BY <1>1, <1>4 DEF Gapless

-----------------------------------------------------------------------------
(***************************************************************************)
(* A receiver that is left alone goes on being served if its tail does.    *)
(***************************************************************************)
LEMMA ReceiverStays ==
  ASSUME NEW c \in Clients, ReceiverInv(c), client[c] \in ClientStates,
         client'[c].at = client[c].at, client'[c].rx = client[c].rx,
         client'[c].got = client[c].got, client'[c].excused = client[c].excused,
         client[c].at = "open" => \A e \in Event : ServedUpTo(e) => ServedUpTo(e)'
  PROVE  ReceiverInv(c)'
<1>1. client[c].got \in Seq(Event) /\ client[c].rx \in Seq(Event)
  BY DEF ClientStates
<1>2. Stream(c)' = Stream(c)
  BY DEF Stream
<1>3. Stream(c) \in Seq(Event)
  BY <1>1 DEF Stream
<1>4. \A i \in 1 .. Len(Stream(c)) : Stream(c)[i] \in Event
  BY <1>3
<1>5. ASSUME ~client[c].excused, client[c].at = "open"
      PROVE  /\ Gapless(Stream(c)')
             /\ \A i \in 1 .. Len(Stream(c)') : IsLast(Stream(c)', i) => ServedUpTo(Stream(c)[i])'
  <2>1. /\ Gapless(Stream(c))
        /\ \A i \in 1 .. Len(Stream(c)) : IsLast(Stream(c), i) => ServedUpTo(Stream(c)[i])
    BY <1>5 DEF ReceiverInv
  <2>2. ASSUME NEW i \in 1 .. Len(Stream(c)), IsLast(Stream(c), i)
        PROVE  ServedUpTo(Stream(c)[i])'
    <3>1. PICK e \in Event : e = Stream(c)[i]
      BY <1>4
    <3>2. ServedUpTo(e)
      BY <2>1, <2>2, <3>1
    <3>3. ServedUpTo(e)'
      BY <1>5, <3>2
    <3>. QED  BY <1>2, <3>1, <3>3
  <2>. QED  BY <1>2, <2>1, <2>2
<1>6. Gapless(client[c].got) => Gapless(client'[c].got)
  OBVIOUS
<1>. QED  BY <1>2, <1>5, <1>6 DEF ReceiverInv

\* The tail that serves the clients is left alone.
LEMMA ServedStays ==
  ASSUME NEW e \in Event, ServedUpTo(e), log_tails'.task = log_tails.task,
         LET t == log_tails.task IN
         t \in TailTasks /\ tail[t].at \in {"loop", "send"} =>
           /\ tail'[t].at \in {"loop", "send"} /\ tail'[t].slipped = tail[t].slipped
           /\ tail'[t].out = tail[t].out /\ tail'[t].gen = tail[t].gen
           /\ tail'[t].offset = tail[t].offset
  PROVE  ServedUpTo(e)'
BY DEF ServedUpTo, GoesOn

LEMMA AppendOfConcat ==
  ASSUME NEW p \in Seq(Event), NEW r \in Seq(Event), NEW e \in Event
  PROVE  p \o Append(r, e) = Append(p \o r, e)
<1>1. <<e>> \in Seq(Event) /\ p \o r \in Seq(Event)
  OBVIOUS
<1>2. Append(r, e) = r \o <<e>>
  BY AppendIsConcat, Zenon
<1>3. Append(p \o r, e) = (p \o r) \o <<e>>
  BY <1>1, AppendIsConcat, Zenon
<1>4. PICK u \in Seq(Event) : u = <<e>>
  BY <1>1
<1>5. (p \o r) \o u = p \o (r \o u)
  BY ConcatAssociative
<1>. QED  BY <1>2, <1>3, <1>4, <1>5, Zenon

(***************************************************************************)
(* An event is delivered: a line follows what the receiver has got so far, *)
(* or the receiver is excused.                                             *)
(***************************************************************************)
LEMMA Delivery ==
  ASSUME NEW c \in Clients, ReceiverInv(c), client[c] \in ClientStates,
         NEW e \in Event, NEW x \in BOOLEAN, client'[c] = Deliver(c, e, x),
         client[c].at = "open" /\ ~client[c].excused /\ ~x /\ e.line # 0 =>
           /\ \A f \in Event : ServedUpTo(f) => Follows(f, e)
           /\ ServedUpTo(e)',
         e.line = 0 => \A f \in Event : ServedUpTo(f) => ServedUpTo(f)'
  PROVE  ReceiverInv(c)'
<1>1. /\ client[c].got \in Seq(Event) /\ client[c].rx \in Seq(Event)
      /\ client[c].excused \in BOOLEAN
  BY DEF ClientStates
<1>. DEFINE rx == Append(client[c].rx, e)
<1>2. CASE client[c].at # "open"
  <2>1. client'[c] = client[c]
    BY <1>2 DEF Deliver
  <2>. QED  BY <1>2, <2>1, ReceiverStays
<1>3. CASE client[c].at = "open" /\ Len(rx) > BusCapacity
  <2>1. client'[c] = [client[c] EXCEPT !.rx = Tail(rx), !.excused = TRUE]
    BY <1>3 DEF Deliver
  <2>2. client'[c].at = "open" /\ client'[c].got = client[c].got /\ client'[c].excused
    BY <1>3, <2>1 DEF ClientStates
  <2>. QED  BY <2>2 DEF ReceiverInv
<1>4. CASE client[c].at = "open" /\ ~(Len(rx) > BusCapacity)
  <2>1. client'[c] = [client[c] EXCEPT !.rx = rx, !.excused = client[c].excused \/ x]
    BY <1>4 DEF Deliver
  <2>2. /\ client'[c].at = "open" /\ client'[c].got = client[c].got /\ client'[c].rx = rx
        /\ client'[c].excused = (client[c].excused \/ x)
    BY <1>4, <2>1 DEF ClientStates
  <2>3. CASE client[c].excused \/ x
    <3>1. client'[c].excused
      BY <2>2, <2>3, Zenon
    <3>. QED  BY <2>2, <3>1 DEF ReceiverInv
  <2>4. CASE ~(client[c].excused \/ x)
    <3>1. PICK q \in Seq(Event) : q = Stream(c)
      BY <1>1, ConcatProperties, Zenon DEF Stream
    <3>2. Stream(c)' = Append(q, e)
      <4>1. Stream(c)' = client[c].got \o Append(client[c].rx, e)
        BY <2>2, Zenon DEF Stream, rx
      <4>2. client[c].got \o Append(client[c].rx, e) = Append(client[c].got \o client[c].rx, e)
        BY <1>1, AppendOfConcat, Zenon
      <4>. QED  BY <3>1, <4>1, <4>2, Zenon DEF Stream
    <3>3. /\ Gapless(q) /\ Gapless(client[c].got)
          /\ \A i \in 1 .. Len(q) : IsLast(q, i) => ServedUpTo(q[i])
      BY <1>4, <2>4, <3>1 DEF ReceiverInv
    <3>4. \A i \in 1 .. Len(q) : q[i] \in Event
      OBVIOUS
    <3>5. e.line # 0 => \A i \in 1 .. Len(q) : IsLast(q, i) => Follows(q[i], e)
      BY <1>4, <2>4, <3>3, <3>4
    <3>6. /\ Gapless(Append(q, e))
          /\ \A i \in 1 .. Len(Append(q, e)) : IsLast(Append(q, e), i) =>
               IF e.line # 0 THEN Append(q, e)[i] = e
               ELSE i \in 1 .. Len(q) /\ IsLast(q, i) /\ Append(q, e)[i] = q[i]
      BY <3>3, <3>5, GaplessAppend
    <3>7. ASSUME NEW i \in 1 .. Len(Append(q, e)), IsLast(Append(q, e), i)
          PROVE  ServedUpTo(Append(q, e)[i])'
      <4>1. CASE e.line # 0
        <5>1. Append(q, e)[i] = e
          BY <3>6, <3>7, <4>1
        <5>2. ServedUpTo(e)'
          BY <1>4, <2>4, <4>1
        <5>. QED  BY <5>1, <5>2
      <4>2. CASE e.line = 0
        <5>1. i \in 1 .. Len(q) /\ IsLast(q, i) /\ Append(q, e)[i] = q[i]
          BY <3>6, <3>7, <4>2
        <5>2. PICK f \in Event : f = q[i]
          BY <3>4, <5>1
        <5>3. ServedUpTo(f)'
          BY <3>3, <4>2, <5>1, <5>2
        <5>. QED  BY <5>1, <5>2, <5>3
      <4>. QED  BY <4>1, <4>2
    <3>8. \A i \in 1 .. Len(client[c].got) : client[c].got[i].line # 0
      BY DEF ReceiverInv
    <3>. QED  BY <2>2, <3>2, <3>3, <3>6, <3>7, <3>8 DEF ReceiverInv
  <2>. QED  BY <2>3, <2>4
<1>. QED  BY <1>2, <1>3, <1>4

(***************************************************************************)
(* Tails whose cursor and output are left alone.                           *)
(***************************************************************************)
LEMMA TailStays ==
  ASSUME NEW t \in TailTasks, OutInv(t), CursorInv(t), logFile' = logFile,
         tail'[t].out = tail[t].out, tail'[t].gen = tail[t].gen,
         tail'[t].offset = tail[t].offset, tail'[t].slipped = tail[t].slipped,
         tail'[t].at # tail[t].at => tail[t].at # "send" /\ tail'[t].at \notin {"loop", "send"},
         tail'[t].told = tail[t].told
  PROVE  OutInv(t)' /\ CursorInv(t)'
<1>1. OutInv(t)'
  BY DEF OutInv
<1>2. CursorInv(t)'
  BY DEF CursorInv
<1>. QED  BY <1>1, <1>2

\* A client that is open has a tail, and keeps it while it is open.
LEMMA OpenIsServed ==
  ASSUME TailInv, NEW c \in Clients, client[c].at = "open"
  PROVE  log_tails.task \in TailTasks /\ ~tail[log_tails.task].abort
<1>1. IsFiniteSet(Subscribed) /\ c \in Subscribed
  BY FS_Subset, TailAssumption DEF Subscribed
<1>2. Cardinality(Subscribed) # 0
  BY <1>1, FS_EmptySet
<1>. QED  BY <1>2 DEF TailInv, TailTypeOK, TailIsShared

-----------------------------------------------------------------------------
LEMMA LiveInit == TailInit => LiveInv
<1>. SUFFICES ASSUME TailInit PROVE LiveInv
  OBVIOUS
<1>1. TailInv
  BY InitShared
<1>2. ASSUME NEW t \in TailTasks PROVE OutInv(t) /\ CursorInv(t)
  <2>1. tail[t] = UnbornTail /\ logFile.len = 0 /\ logFile.gen = 0
    BY DEF TailInit
  <2>2. /\ tail[t].out = <<>> /\ tail[t].at = "unborn" /\ tail[t].gen = 0 /\ tail[t].offset = 0
    BY <2>1 DEF UnbornTail
  <2>3. OutInv(t)
    BY <2>2 DEF OutInv
  <2>4. CursorInv(t)
    BY <2>1, <2>2 DEF CursorInv
  <2>. QED  BY <2>3, <2>4
<1>3. ASSUME NEW c \in Clients PROVE ReceiverInv(c)
  <2>1. client[c] = NewClient
    BY DEF TailInit
  <2>2. client[c].rx = <<>> /\ client[c].got = <<>> /\ client[c].at = "new"
    BY <2>1 DEF NewClient
  <2>. QED  BY <2>2 DEF ReceiverInv, Gapless
<1>. QED  BY <1>1, <1>2, <1>3 DEF LiveInv

(***************************************************************************)
(* The file grows or is truncated: the watching tails are told.            *)
(***************************************************************************)
LEMMA FileLive ==
  ASSUME LiveInv, TailInv', WriteHalf \/ Truncate
  PROVE  LiveInv'
<1>1. /\ tail' = Told /\ UNCHANGED <<log_tails, client>>
  BY DEF WriteHalf, Truncate
<1>2. logFile \in [len : Nat, gen : Nat] /\ tail \in [TailTasks -> TailStates]
  BY DEF LiveInv, TailInv, TailTypeOK
<1>3. \/ logFile'.len = logFile.len + 1 /\ logFile'.gen = logFile.gen
      \/ logFile'.gen = logFile.gen + 1
  BY <1>2 DEF WriteHalf, Truncate
<1>4. ASSUME NEW t \in TailTasks
      PROVE  /\ tail'[t].at = tail[t].at /\ tail'[t].out = tail[t].out
             /\ tail'[t].gen = tail[t].gen /\ tail'[t].offset = tail[t].offset
             /\ tail'[t].slipped = tail[t].slipped
             /\ Watching(t) => tail'[t].told
  <2>1. tail'[t] = IF Watching(t) THEN [tail[t] EXCEPT !.told = TRUE] ELSE tail[t]
    BY <1>1 DEF Told
  <2>2. tail[t] \in TailStates
    BY <1>2
  <2>. QED  BY <2>1, <2>2 DEF TailStates
<1>5. ASSUME NEW t \in TailTasks PROVE OutInv(t)' /\ CursorInv(t)'
  <2>1. OutInv(t) /\ CursorInv(t)
    BY DEF LiveInv
  <2>2. OutInv(t)'
    BY <1>4, <2>1 DEF OutInv
  <2>3. tail[t].gen \in Nat /\ tail[t].offset \in Nat
    BY <1>2 DEF TailStates
  <2>4. CursorInv(t)'
    BY <1>2, <1>3, <1>4, <2>1, <2>3 DEF CursorInv, Watching
  <2>. QED  BY <2>2, <2>4
<1>6. ASSUME NEW c \in Clients PROVE ReceiverInv(c)'
  <2>1. \A e \in Event : ServedUpTo(e) => ServedUpTo(e)'
    BY <1>1, <1>4, ServedStays
  <2>2. client[c] \in ClientStates /\ ReceiverInv(c)
    BY DEF LiveInv, TailInv, TailTypeOK
  <2>. QED  BY <1>1, <2>1, <2>2, ReceiverStays
<1>. QED  BY <1>5, <1>6 DEF LiveInv

(***************************************************************************)
(* Steps of a client's handler that move no event.                         *)
(***************************************************************************)
LEMMA HandlerLive ==
  ASSUME LiveInv, TailInv', logFile' = logFile, NEW c \in Clients,
         \A d \in Clients : /\ client'[d].rx = client[d].rx /\ client'[d].got = client[d].got
                            /\ client'[d].excused = client[d].excused
                            /\ d # c => client'[d].at = client[d].at,
         client'[c].at \in {"new", "retained"} => client[c].at \in {"new", "retained"},
         client'[c].at = "open" => client[c].at \in {"retained", "open"},
         \A t \in TailTasks :
            /\ tail'[t].out = tail[t].out /\ tail'[t].gen = tail[t].gen
            /\ tail'[t].offset = tail[t].offset /\ tail'[t].slipped = tail[t].slipped
            /\ tail'[t].told = tail[t].told
            /\ tail'[t].at = tail[t].at \/ (tail[t].at = "unborn" /\ tail'[t].at = "watch"),
         \A d \in Clients : client[d].at = "open" /\ client'[d].at = "open" =>
            log_tails'.task = log_tails.task
  PROVE  LiveInv'
<1>1. ASSUME NEW t \in TailTasks PROVE OutInv(t)' /\ CursorInv(t)'
  BY TailStays DEF LiveInv
<1>2. ASSUME NEW d \in Clients PROVE ReceiverInv(d)'
  <2>1. client[d] \in ClientStates /\ ReceiverInv(d)
    BY DEF LiveInv, TailInv, TailTypeOK
  <2>2. CASE client[d].at = "open" /\ client'[d].at = "open"
    <3>1. \A e \in Event : ServedUpTo(e) => ServedUpTo(e)'
      BY <2>2, ServedStays
    <3>. QED  BY <2>1, <2>2, <3>1, ReceiverStays
  <2>3. CASE client'[d].at # "open"
    BY <2>1, <2>3 DEF ReceiverInv
  <2>4. CASE client'[d].at = "open" /\ client[d].at # "open"
    <3>1. client[d].rx = <<>> /\ client[d].got = <<>>
      BY <2>1, <2>4 DEF ReceiverInv
    <3>2. Stream(d)' = <<>>
      BY <3>1 DEF Stream
    <3>. QED  BY <2>4, <3>1, <3>2 DEF ReceiverInv, Gapless
  <2>. QED  BY <2>2, <2>3, <2>4
<1>. QED  BY <1>1, <1>2 DEF LiveInv

LEMMA RetainLive ==
  ASSUME LiveInv, TailInv', NEW c \in Clients, retain_run_log_tail(c)
  PROVE  LiveInv'
<1>1. client[c].at = "new" /\ logFile' = logFile /\ client' = [client EXCEPT ![c].at = "retained"]
  BY DEF retain_run_log_tail
<1>2. \A d \in Clients : client[d] \in ClientStates
  BY DEF LiveInv, TailInv, TailTypeOK
<1>3. \A d \in Clients : /\ client'[d].rx = client[d].rx /\ client'[d].got = client[d].got
                         /\ client'[d].excused = client[d].excused
                         /\ d # c => client'[d].at = client[d].at
  BY <1>1, <1>2 DEF ClientStates, LiveInv, TailInv, TailTypeOK
<1>4. client'[c].at = "retained"
  BY <1>1, <1>2 DEF ClientStates, LiveInv, TailInv, TailTypeOK
<1>5. ASSUME NEW d \in Clients, client[d].at = "open"
      PROVE  log_tails'.task = log_tails.task
  <2>1. log_tails.task # NoTail
    BY <1>5, OpenIsServed, TailAssumption DEF LiveInv
  <2>2. log_tails' = [log_tails EXCEPT !.subscribers = @ + 1]
    BY <2>1 DEF retain_run_log_tail
  <2>. QED  BY <2>2 DEF LiveInv, TailInv, TailTypeOK
<1>6. ASSUME NEW t \in TailTasks
      PROVE  /\ tail'[t].out = tail[t].out /\ tail'[t].gen = tail[t].gen
             /\ tail'[t].offset = tail[t].offset /\ tail'[t].slipped = tail[t].slipped
             /\ tail'[t].told = tail[t].told
             /\ tail'[t].at = tail[t].at \/ (tail[t].at = "unborn" /\ tail'[t].at = "watch")
  <2>1. tail \in [TailTasks -> TailStates]
    BY DEF LiveInv, TailInv, TailTypeOK
  <2>2. tail[t] \in TailStates
    BY <2>1
  <2>3. CASE UNCHANGED tail
    BY <2>3
  <2>4. CASE \E u \in TailTasks : tail[u].at = "unborn" /\ tail' = [tail EXCEPT ![u].at = "watch"]
    <3>1. PICK u \in TailTasks : tail[u].at = "unborn" /\ tail' = [tail EXCEPT ![u].at = "watch"]
      BY <2>4
    <3>2. CASE t = u
      <4>1. tail'[t] = [tail[t] EXCEPT !.at = "watch"]
        BY <2>1, <3>1, <3>2
      <4>. QED  BY <2>2, <3>1, <3>2, <4>1 DEF TailStates
    <3>3. CASE t # u
      <4>1. tail'[t] = tail[t]
        BY <2>1, <3>1, <3>3
      <4>. QED  BY <4>1
    <3>. QED  BY <3>2, <3>3
  <2>5. UNCHANGED tail \/ \E u \in TailTasks : tail[u].at = "unborn" /\ tail' = [tail EXCEPT ![u].at = "watch"]
    BY DEF retain_run_log_tail
  <2>. QED  BY <2>3, <2>4, <2>5
<1>. QED  BY <1>1, <1>3, <1>4, <1>5, <1>6, HandlerLive

LEMMA LeaveLive ==
  ASSUME LiveInv, TailInv', NEW c \in Clients,
         Subscribe(c) \/ ClientGoes(c) \/ release_run_log_tail(c) \/ AbortTail(c)
  PROVE  LiveInv'
<1>1. logFile' = logFile
  BY DEF Subscribe, ClientGoes, release_run_log_tail, AbortTail
<1>2. client \in [Clients -> ClientStates]
  BY DEF LiveInv, TailInv, TailTypeOK
<1>3. \/ client[c].at = "retained" /\ client' = [client EXCEPT ![c].at = "open"]
      \/ client[c].at = "open" /\ client' = [client EXCEPT ![c].left = TRUE]
      \/ client[c].at = "release" /\ client' = [client EXCEPT ![c].at = "closed"]
      \/ client[c].at = "release"
         /\ client' = [client EXCEPT ![c].at = "abort", ![c].release = log_tails.task]
      \/ client[c].at = "abort"
         /\ client' = [client EXCEPT ![c].at = "closed", ![c].release = NoTail]
  BY DEF Subscribe, ClientGoes, release_run_log_tail, AbortTail
<1>4. /\ \A d \in Clients : /\ client'[d].rx = client[d].rx /\ client'[d].got = client[d].got
                            /\ client'[d].excused = client[d].excused
                            /\ d # c => client'[d].at = client[d].at
      /\ client'[c].at \notin {"new", "retained"}
      /\ client'[c].at = "open" => client[c].at \in {"retained", "open"}
  BY <1>2, <1>3 DEF ClientStates
<1>5. ASSUME NEW t \in TailTasks
      PROVE  /\ tail'[t].out = tail[t].out /\ tail'[t].gen = tail[t].gen
             /\ tail'[t].offset = tail[t].offset /\ tail'[t].slipped = tail[t].slipped
             /\ tail'[t].told = tail[t].told /\ tail'[t].at = tail[t].at
  <2>1. tail[t] \in TailStates
    BY DEF LiveInv, TailInv, TailTypeOK
  <2>2. tail'[t] = tail[t] \/ tail'[t] = [tail[t] EXCEPT !.abort = TRUE]
    BY DEF Subscribe, ClientGoes, release_run_log_tail, AbortTail
  <2>. QED  BY <2>1, <2>2 DEF TailStates
<1>6. ASSUME NEW d \in Clients, client'[d].at = "open"
      PROVE  log_tails'.task = log_tails.task
  <2>1. log_tails'.task # NoTail
    <3>1. IsFiniteSet(Subscribed') /\ d \in Subscribed'
      BY <1>6, FS_Subset, TailAssumption DEF Subscribed
    <3>2. Cardinality(Subscribed') # 0
      BY <3>1, FS_EmptySet
    <3>. QED  BY <3>2 DEF TailInv, TailTypeOK, TailIsShared
  <2>2. log_tails' = log_tails \/ log_tails' = NoEntry
        \/ log_tails' = [log_tails EXCEPT !.subscribers = @ - 1]
    BY DEF Subscribe, ClientGoes, release_run_log_tail, AbortTail
  <2>. QED  BY <2>1, <2>2 DEF NoEntry, LiveInv, TailInv, TailTypeOK
<1>. QED  BY <1>1, <1>4, <1>5, <1>6, HandlerLive

(***************************************************************************)
(* An event moves from the receiver to the client, or is dropped with it.  *)
(***************************************************************************)
LEMMA ForwardLive ==
  ASSUME LiveInv, TailInv', NEW c \in Clients, Forward(c)
  PROVE  LiveInv'
<1>1. /\ client[c].at = "open" /\ client[c].rx # <<>>
      /\ UNCHANGED <<logFile, log_tails, tail>>
  BY DEF Forward
<1>2. client \in [Clients -> ClientStates]
  BY DEF LiveInv, TailInv, TailTypeOK
<1>3. PICK p \in Seq(Event), r \in Seq(Event) : p = client[c].got /\ r = client[c].rx
  BY <1>2 DEF ClientStates
<1>4. PICK e \in Event : e = Head(r)
  BY <1>1, <1>3
<1>. DEFINE gone == client[c].left /\ e # ForeignEvent
<1>5. client' = [client EXCEPT ![c] =
                   [client[c] EXCEPT !.rx = Tail(r), !.at = IF gone THEN "release" ELSE "open",
                                     !.got = IF gone \/ e.line = 0 THEN p ELSE Append(p, e)]]
  BY <1>1, <1>2, <1>3, <1>4 DEF Forward, ClientStates
<1>6. client[c] \in ClientStates /\ ReceiverInv(c)
  BY <1>2 DEF LiveInv
<1>7. /\ client'[c].rx = Tail(r) /\ client'[c].excused = client[c].excused
      /\ client'[c].at = IF gone THEN "release" ELSE "open"
      /\ client'[c].got = IF gone \/ e.line = 0 THEN p ELSE Append(p, e)
  BY <1>2, <1>5, <1>6 DEF ClientStates
<1>. HIDE DEF gone
<1>8. \A f \in Event : ServedUpTo(f)' = ServedUpTo(f)
  BY <1>1 DEF ServedUpTo, GoesOn
<1>9. \A i \in 1 .. Len(p) : p[i].line # 0
  BY <1>3, <1>6 DEF ReceiverInv
<1>10. client[c].excused \/ Gapless(p)
  BY <1>3, <1>6 DEF ReceiverInv
<1>11. client[c].excused \/ ( /\ Gapless(p \o r)
                             /\ \A i \in 1 .. Len(p \o r) :
                                  IsLast(p \o r, i) => ServedUpTo((p \o r)[i]) )
  BY <1>1, <1>3, <1>6 DEF ReceiverInv, Stream
<1>12. ASSUME gone PROVE ReceiverInv(c)'
  <2>1. client'[c].at = "release" /\ client'[c].got = p
    BY <1>7, <1>12
  <2>. QED  BY <1>7, <1>9, <1>10, <2>1 DEF ReceiverInv
<1>13. ASSUME ~gone /\ e.line = 0 PROVE ReceiverInv(c)'
  <2>1. client'[c].at = "open" /\ client'[c].got = p
    BY <1>7, <1>13
  <2>2. Stream(c)' = p \o Tail(r)
    BY <1>7, <2>1 DEF Stream
  <2>3. ASSUME ~client[c].excused
        PROVE  /\ Gapless(p \o Tail(r))
               /\ \A i \in 1 .. Len(p \o Tail(r)) :
                    IsLast(p \o Tail(r), i) => ServedUpTo((p \o Tail(r))[i])'
    <3>1. /\ Gapless(p \o Tail(r))
          /\ \A i \in 1 .. Len(p \o Tail(r)) : IsLast(p \o Tail(r), i) =>
               \E j \in 1 .. Len(p \o r) : IsLast(p \o r, j) /\ (p \o r)[j] = (p \o Tail(r))[i]
      <4>1. r # <<>> /\ Head(r).line = 0 /\ Gapless(p \o r)
        BY <1>1, <1>3, <1>4, <1>11, <1>13, <2>3, Zenon
      <4>. QED  BY <4>1, GaplessWithout
    <3>2. ASSUME NEW i \in 1 .. Len(p \o Tail(r)), IsLast(p \o Tail(r), i)
          PROVE  ServedUpTo((p \o Tail(r))[i])'
      <4>1. PICK j \in 1 .. Len(p \o r) : IsLast(p \o r, j) /\ (p \o r)[j] = (p \o Tail(r))[i]
        BY <3>1, <3>2
      <4>2. PICK f \in Event : f = (p \o r)[j]
        OBVIOUS
      <4>3. ServedUpTo(f)
        BY <1>11, <2>3, <4>1, <4>2
      <4>4. ServedUpTo(f)'
        BY <1>8, <4>3
      <4>5. (p \o Tail(r))[i] = f
        BY <4>1, <4>2
      <4>. QED  BY <4>4, <4>5
    <3>. QED  BY <3>1, <3>2
  <2>. QED  BY <1>7, <1>9, <1>10, <2>1, <2>2, <2>3 DEF ReceiverInv
<1>14. ASSUME ~gone /\ e.line # 0 PROVE ReceiverInv(c)'
  <2>1. client'[c].at = "open" /\ client'[c].got = Append(p, e)
    BY <1>7, <1>14
  <2>2. Append(p, e) \o Tail(r) = p \o r
    <3>1. r = <<e>> \o Tail(r) /\ Tail(r) \in Seq(Event) /\ <<e>> \in Seq(Event)
      BY <1>1, <1>3, <1>4
    <3>2. PICK u \in Seq(Event), v \in Seq(Event) : u = <<e>> /\ v = Tail(r)
      BY <3>1
    <3>3. Append(p, e) = p \o u
      BY <3>2, AppendIsConcat, Zenon
    <3>4. (p \o u) \o v = p \o (u \o v)
      BY ConcatAssociative
    <3>. QED  BY <3>1, <3>2, <3>3, <3>4, Zenon
  <2>3. Stream(c)' = p \o r
    BY <1>7, <2>1, <2>2, Zenon DEF Stream
  <2>4. \A i \in 1 .. Len(Append(p, e)) : Append(p, e)[i].line # 0
    BY <1>9, <1>14
  <2>5. ~client[c].excused => Gapless(Append(p, e))
    <3>1. SUFFICES ASSUME ~client[c].excused PROVE Gapless(Append(p, e))
      OBVIOUS
    <3>2. PICK u \in Seq(Event), v \in Seq(Event) : u = Append(p, e) /\ v = Tail(r)
      <4>1. Append(p, e) \in Seq(Event)
        OBVIOUS
      <4>2. Tail(r) \in Seq(Event)
        BY <1>1, <1>3
      <4>. QED  BY <4>1, <4>2, Zenon
    <3>3. Gapless(u \o v)
      BY <1>11, <2>2, <3>1, <3>2, Zenon
    <3>4. Gapless(u)
      BY <3>3, GaplessPrefix
    <3>. QED  BY <3>2, <3>4, Zenon
  <2>6. ASSUME ~client[c].excused, NEW i \in 1 .. Len(p \o r), IsLast(p \o r, i)
        PROVE  ServedUpTo((p \o r)[i])'
    <3>1. PICK f \in Event : f = (p \o r)[i]
      OBVIOUS
    <3>2. ServedUpTo(f)'
      BY <1>8, <1>11, <2>6, <3>1
    <3>. QED  BY <3>1, <3>2
  <2>. QED  BY <1>7, <1>11, <2>1, <2>3, <2>4, <2>5, <2>6 DEF ReceiverInv
<1>15. ReceiverInv(c)'
  BY <1>12, <1>13, <1>14
<1>16. ASSUME NEW d \in Clients, d # c PROVE ReceiverInv(d)'
  <2>1. client'[d] = client[d] /\ client[d] \in ClientStates /\ ReceiverInv(d)
    BY <1>2, <1>5, <1>16 DEF LiveInv
  <2>. QED  BY <1>8, <2>1, ReceiverStays
<1>17. ASSUME NEW t \in TailTasks PROVE OutInv(t)' /\ CursorInv(t)'
  BY <1>1, TailStays DEF LiveInv
<1>. QED  BY <1>15, <1>16, <1>17 DEF LiveInv

\* Events that carry no line.
LEMMA OtherLive ==
  ASSUME LiveInv, TailInv', OtherEvent(RunEvent) \/ OtherEvent(ForeignEvent)
  PROVE  LiveInv'
<1>1. UNCHANGED <<logFile, log_tails, tail>>
  BY DEF OtherEvent
<1>2. PICK e \in Event : e.line = 0 /\ client' = [c \in Clients |-> Deliver(c, e, FALSE)]
  <2>1. RunEvent \in Event /\ RunEvent.line = 0 /\ ForeignEvent \in Event /\ ForeignEvent.line = 0
    BY DEF RunEvent, ForeignEvent, Event
  <2>. QED  BY <2>1 DEF OtherEvent, emit_event
<1>3. \A f \in Event : ServedUpTo(f) => ServedUpTo(f)'
  BY <1>1 DEF ServedUpTo, GoesOn
<1>4. ASSUME NEW c \in Clients PROVE ReceiverInv(c)'
  <2>1. client[c] \in ClientStates /\ ReceiverInv(c) /\ client'[c] = Deliver(c, e, FALSE)
    BY <1>2 DEF LiveInv, TailInv, TailTypeOK
  <2>. QED  BY <1>2, <1>3, <2>1, Delivery
<1>5. ASSUME NEW t \in TailTasks PROVE OutInv(t)' /\ CursorInv(t)'
  BY <1>1, TailStays DEF LiveInv
<1>. QED  BY <1>4, <1>5 DEF LiveInv

(***************************************************************************)
(* A tail starts, or ends: it is not the one of an open client.            *)
(***************************************************************************)
LEMMA RestLive ==
  ASSUME LiveInv, TailInv', NEW t \in TailTasks,
         WatchLogs(t) \/ initial_log_tail_cursors(t) \/ Aborted(t)
  PROVE  LiveInv'
<1>1. UNCHANGED <<logFile, log_tails, client>>
  BY DEF WatchLogs, initial_log_tail_cursors, Aborted
<1>2. tail \in [TailTasks -> TailStates] /\ logFile \in [len : Nat, gen : Nat]
  BY DEF LiveInv, TailInv, TailTypeOK
<1>3. /\ tail[t].at \in {"watch", "cursor"} \/ (tail[t].at = "loop" /\ tail[t].abort)
      /\ \A u \in TailTasks \ {t} : tail'[u] = tail[u]
  BY <1>2 DEF WatchLogs, initial_log_tail_cursors, Aborted
<1>4. ASSUME NEW c \in Clients PROVE ReceiverInv(c)'
  <2>1. client[c] \in ClientStates /\ ReceiverInv(c)
    BY DEF LiveInv, TailInv, TailTypeOK
  <2>2. ASSUME client[c].at = "open", NEW e \in Event, ServedUpTo(e) PROVE ServedUpTo(e)'
    <3>1. log_tails.task # t
      BY <1>3, <2>2, OpenIsServed DEF LiveInv, ServedUpTo
    <3>. QED  BY <1>1, <1>3, <2>2, <3>1, ServedStays
  <2>. QED  BY <1>1, <2>1, <2>2, ReceiverStays
<1>5. OutInv(t)' /\ CursorInv(t)'
  <2>1. OutInv(t) /\ CursorInv(t)
    BY DEF LiveInv
  <2>2. CASE WatchLogs(t) \/ Aborted(t)
    <3>1. \E a \in {"cursor", "ended"} : tail' = [tail EXCEPT ![t].at = a]
      BY <2>2 DEF WatchLogs, Aborted
    <3>2. PICK a \in {"cursor", "ended"} : tail' = [tail EXCEPT ![t].at = a]
      BY <3>1
    <3>3. tail'[t] = [tail[t] EXCEPT !.at = a] /\ tail[t] \in TailStates
      BY <1>2, <3>2
    <3>4. /\ tail'[t].at = a /\ tail'[t].out = tail[t].out /\ tail'[t].gen = tail[t].gen
          /\ tail'[t].offset = tail[t].offset /\ tail'[t].slipped = tail[t].slipped
          /\ tail'[t].told = tail[t].told
      BY <3>3 DEF TailStates
    <3>. QED  BY <1>1, <1>3, <2>1, <3>4, TailStays
  <2>3. CASE initial_log_tail_cursors(t)
    <3>1. tail' = [tail EXCEPT ![t] = [tail[t] EXCEPT !.at = "loop", !.offset = logFile.len,
                                                      !.gen = logFile.gen]]
      BY <1>2, <2>3 DEF initial_log_tail_cursors
    <3>2. tail[t].at = "cursor" /\ tail[t] \in TailStates
      BY <1>2, <2>3 DEF initial_log_tail_cursors
    <3>3. /\ tail'[t].at = "loop" /\ tail'[t].out = tail[t].out /\ tail'[t].gen = logFile.gen
          /\ tail'[t].offset = logFile.len
      BY <1>2, <3>1, <3>2 DEF TailStates
    <3>4. tail[t].out = <<>>
      BY <2>1, <3>2 DEF OutInv
    <3>5. OutInv(t)'
      BY <3>3, <3>4 DEF OutInv
    <3>6. CursorInv(t)'
      BY <1>1, <1>2, <3>3 DEF CursorInv
    <3>. QED  BY <3>5, <3>6
  <2>. QED  BY <2>2, <2>3
<1>6. ASSUME NEW u \in TailTasks PROVE OutInv(u)' /\ CursorInv(u)'
  <2>1. CASE u # t
    <3>1. tail'[u] = tail[u]
      BY <1>3, <2>1
    <3>. QED  BY <1>1, <3>1, TailStays DEF LiveInv
  <2>. QED  BY <1>5, <2>1
<1>. QED  BY <1>4, <1>6 DEF LiveInv

\* The complete lines from an offset to the end of line k.
LinesUpTo(q, from, k) ==
    /\ q \in Seq(Event) /\ q # <<>>
    /\ \A i \in 1 .. Len(q) : q[i].line # 0
    /\ \A i \in 1 .. (Len(q) - 1) : Follows(q[i], q[i + 1])
    /\ q[Len(q)].gen = logFile.gen /\ q[Len(q)].line = k
    /\ q[1].gen = logFile.gen /\ q[1].line = from \div 2 + 1 /\ q[1].whole = (from % 2 = 0)

LEMMA ReadLines ==
  ASSUME logFile \in [len : Nat, gen : Nat], NEW from \in Nat, NEW k \in Nat, 2 * k > from
  PROVE  LinesUpTo(LinesBetween(from, 2 * k), from, k)
<1>. DEFINE q == LinesBetween(from, 2 * k)
<1>1. PICK h \in Nat : h = from \div 2
  OBVIOUS
<1>2. (2 * k + 1) \div 2 = k /\ h < k
  BY <1>1
<1>3. PICK n \in Nat \ {0} : n = k - h
  BY <1>2
<1>. DEFINE ls == [i \in 1 .. n |-> [gen |-> logFile.gen, line |-> h + i, whole |-> i > 1 \/ from % 2 = 0]]
<1>4. q = ls
  BY <1>1, <1>2, <1>3 DEF LinesBetween
<1>5. q \in Seq(Event) /\ Len(q) = n
  <2>1. ls \in Seq(Event) /\ Len(ls) = n
    BY DEF Event
  <2>. QED  BY <1>4, <2>1
<1>6. \A i \in 1 .. n : /\ q[i].gen = logFile.gen /\ q[i].line = h + i
                        /\ q[i].whole = (i > 1 \/ from % 2 = 0)
  <2>1. \A i \in 1 .. n : /\ ls[i].gen = logFile.gen /\ ls[i].line = h + i
                          /\ ls[i].whole = (i > 1 \/ from % 2 = 0)
    OBVIOUS
  <2>. QED  BY <1>4, <2>1
<1>. HIDE DEF ls, q
<1>7. \A i \in 1 .. (n - 1) : Follows(q[i], q[i + 1])
  <2>. SUFFICES ASSUME NEW i \in 1 .. (n - 1) PROVE Follows(q[i], q[i + 1])
    OBVIOUS
  <2>1. i \in 1 .. n /\ i + 1 \in 1 .. n /\ i + 1 > 1 /\ h + (i + 1) = (h + i) + 1
    OBVIOUS
  <2>. QED  BY <1>6, <2>1 DEF Follows
<1>8. 1 \in 1 .. n /\ n \in 1 .. n /\ h + n = k /\ \A i \in 1 .. n : h + i # 0
  BY <1>3
<1>9. /\ q[n].gen = logFile.gen /\ q[n].line = k
      /\ q[1].gen = logFile.gen /\ q[1].line = h + 1 /\ q[1].whole = (from % 2 = 0)
  BY <1>6, <1>8
<1>10. q # <<>> /\ \A i \in 1 .. n : q[i].line # 0
  BY <1>3, <1>5, <1>6, <1>8
<1>11. q[1].line = from \div 2 + 1
  BY <1>1, <1>9
<1>12. LinesUpTo(q, from, k)
  BY <1>5, <1>7, <1>9, <1>10, <1>11, Zenon DEF LinesUpTo
<1>. QED  BY <1>12 DEF q

(***************************************************************************)
(* A tail reads on where its cursor stood, or, in a file it knows to be    *)
(* another, at its first line.                                             *)
(***************************************************************************)
LEMMA ReadLive ==
  ASSUME LiveInv, TailInv', NEW t \in TailTasks, read_new_log_events(t)
  PROVE  LiveInv'
<1>1. UNCHANGED <<logFile, log_tails, client>> /\ tail[t].at = "loop"
  BY DEF read_new_log_events
<1>2. tail \in [TailTasks -> TailStates] /\ logFile \in [len : Nat, gen : Nat]
  BY DEF LiveInv, TailInv, TailTypeOK
<1>3. tail[t] \in TailStates /\ OutInv(t) /\ CursorInv(t)
  BY <1>2 DEF LiveInv
<1>4. PICK o \in Nat, g \in Nat, L \in Nat, lg \in Nat :
        o = tail[t].offset /\ g = tail[t].gen /\ L = logFile.len /\ lg = logFile.gen
  BY <1>2, <1>3 DEF TailStates
<1>5. tail[t].out = <<>> /\ g <= lg /\ (g = lg => o <= L)
  BY <1>1, <1>3, <1>4 DEF OutInv, CursorInv
<1>6. PICK from \in Nat : from = IF L < o THEN 0 ELSE o
  OBVIOUS
<1>7. PICK k \in Nat : k = L \div 2
  OBVIOUS
<1>8. 2 * k <= L /\ from <= L
  BY <1>6, <1>7
<1>9. PICK out \in Seq(Event) : out = IF 2 * k > from THEN LinesBetween(from, 2 * k) ELSE <<>>
  <2>1. CASE 2 * k > from
    <3>1. LinesBetween(from, 2 * k) \in Seq(Event)
      BY <1>2, <2>1, ReadLines DEF LinesUpTo
    <3>. QED  BY <2>1, <3>1
  <2>2. CASE ~(2 * k > from)
    <3>1. <<>> \in Seq(Event)
      OBVIOUS
    <3>. QED  BY <2>2, <3>1
  <2>. QED  BY <2>1, <2>2
<1>10. tail' = [tail EXCEPT ![t] =
                  [tail[t] EXCEPT !.told = FALSE, !.at = "send", !.gen = lg,
                                  !.offset = IF 2 * k > from THEN 2 * k ELSE from,
                                  !.slipped = tail[t].slipped \/ (g # lg /\ from > 0),
                                  !.out = out]]
  BY <1>2, <1>3, <1>4, <1>6, <1>7, <1>9 DEF read_new_log_events, TailStates
<1>11. /\ tail'[t].at = "send" /\ tail'[t].gen = lg /\ tail'[t].out = out
       /\ tail'[t].offset = IF 2 * k > from THEN 2 * k ELSE from
       /\ tail'[t].slipped = (tail[t].slipped \/ (g # lg /\ from > 0))
       /\ tail'[t].told = FALSE
  BY <1>2, <1>3, <1>10 DEF TailStates
<1>12. ASSUME NEW u \in TailTasks, u # t PROVE tail'[u] = tail[u]
  BY <1>2, <1>10, <1>12
<1>13. ASSUME 2 * k > from
       PROVE  /\ out # <<>> /\ out[Len(out)].gen = lg /\ out[Len(out)].line = k
              /\ \A i \in 1 .. Len(out) : out[i].line # 0
              /\ \A i \in 1 .. (Len(out) - 1) : Follows(out[i], out[i + 1])
              /\ out[1].gen = lg /\ out[1].line = from \div 2 + 1
              /\ out[1].whole = (from % 2 = 0)
  <2>1. out = LinesBetween(from, 2 * k)
    BY <1>9, <1>13
  <2>2. LinesUpTo(out, from, k)
    BY <1>2, <1>13, <2>1, ReadLines
  <2>. QED  BY <1>4, <2>2, Zenon DEF LinesUpTo
<1>14. OutInv(t)'
  <2>1. CASE 2 * k > from
    <3>1. tail'[t].offset = 2 * k
      BY <1>11, <2>1
    <3>. QED  BY <1>11, <1>13, <2>1, <3>1 DEF OutInv
  <2>2. CASE ~(2 * k > from)
    <3>1. out = <<>>
      BY <1>9, <2>2
    <3>. QED  BY <1>11, <3>1 DEF OutInv
  <2>. QED  BY <2>1, <2>2
<1>15. CursorInv(t)'
  <2>1. tail'[t].offset <= L /\ tail'[t].offset >= 2 * (L \div 2)
    BY <1>7, <1>8, <1>11
  <2>. QED  BY <1>1, <1>4, <1>11, <2>1 DEF CursorInv
<1>16. ASSUME NEW e \in Event, log_tails.task = t, ServedUpTo(e) PROVE ServedUpTo(e)'
  <2>. SUFFICES ASSUME ~tail'[t].slipped PROVE GoesOn(t, e)'
    BY <1>1, <1>11, <1>16 DEF ServedUpTo
  <2>1. ~tail[t].slipped /\ (g = lg \/ from = 0)
    <3>1. ~tail[t].slipped /\ ~(g # lg /\ from > 0)
      BY <1>11, Zenon
    <3>. QED  BY <3>1
  <2>2. PICK eg \in Nat, l \in Nat : eg = e.gen /\ l = e.line
    BY DEF Event
  <2>3. eg <= g /\ o = IF eg = g THEN 2 * l ELSE 0
    BY <1>4, <1>5, <1>16, <2>1, <2>2 DEF ServedUpTo, GoesOn
  <2>4. eg <= lg /\ from = IF eg = lg THEN 2 * l ELSE 0
    BY <1>5, <1>6, <2>1, <2>3
  <2>5. CASE 2 * k > from
    <3>1. from % 2 = 0 /\ from \div 2 = IF eg = lg THEN l ELSE 0
      BY <2>4
    <3>2. out[1].whole /\ out[1].gen = lg /\ out[1].line = IF eg = lg THEN l + 1 ELSE 1
      <4>1. out[1].gen = lg /\ out[1].line = from \div 2 + 1 /\ out[1].whole = (from % 2 = 0)
        BY <1>13, <2>5, Zenon
      <4>2. out[1].whole
        BY <3>1, <4>1, Zenon
      <4>. QED  BY <3>1, <4>1, <4>2
    <3>3. Follows(e, out[1])
      BY <2>2, <2>4, <3>2 DEF Follows
    <3>. QED  BY <1>11, <1>13, <2>5, <3>3 DEF GoesOn
  <2>6. CASE ~(2 * k > from)
    <3>1. out = <<>> /\ tail'[t].offset = from
      BY <1>9, <1>11, <2>6
    <3>. QED  BY <1>11, <2>2, <2>4, <3>1 DEF GoesOn
  <2>. QED  BY <2>5, <2>6
<1>17. ASSUME NEW c \in Clients PROVE ReceiverInv(c)'
  <2>1. client[c] \in ClientStates /\ ReceiverInv(c)
    BY DEF LiveInv, TailInv, TailTypeOK
  <2>2. ASSUME NEW e \in Event, ServedUpTo(e) PROVE ServedUpTo(e)'
    <3>1. CASE log_tails.task = t
      BY <1>16, <2>2, <3>1
    <3>2. CASE log_tails.task # t
      BY <1>1, <1>12, <2>2, <3>2, ServedStays
    <3>. QED  BY <3>1, <3>2
  <2>. QED  BY <1>1, <2>1, <2>2, ReceiverStays
<1>18. ASSUME NEW u \in TailTasks PROVE OutInv(u)' /\ CursorInv(u)'
  <2>1. CASE u # t
    <3>1. tail'[u] = tail[u]
      BY <1>12, <2>1
    <3>. QED  BY <1>1, <3>1, TailStays DEF LiveInv
  <2>. QED  BY <1>14, <1>15, <2>1
<1>. QED  BY <1>17, <1>18 DEF LiveInv

(***************************************************************************)
(* A tail sends its next line, to the clients it serves and to those of    *)
(* its successor, or has sent all.                                         *)
(***************************************************************************)
LEMMA SendLive ==
  ASSUME LiveInv, TailInv', NEW t \in TailTasks, SendLine(t)
  PROVE  LiveInv'
<1>1. UNCHANGED <<logFile, log_tails>> /\ tail[t].at = "send"
  BY DEF SendLine
<1>2. tail \in [TailTasks -> TailStates]
  BY DEF LiveInv, TailInv, TailTypeOK
<1>3. tail[t] \in TailStates /\ OutInv(t) /\ CursorInv(t)
  BY <1>2 DEF LiveInv
<1>4. CASE tail[t].out = <<>>
  <2>1. tail' = [tail EXCEPT ![t].at = "loop"] /\ client' = client
    BY <1>4 DEF SendLine
  <2>2. tail'[t] = [tail[t] EXCEPT !.at = "loop"] /\ \A u \in TailTasks \ {t} : tail'[u] = tail[u]
    BY <1>2, <2>1
  <2>3. /\ tail'[t].at = "loop" /\ tail'[t].out = tail[t].out /\ tail'[t].gen = tail[t].gen
        /\ tail'[t].offset = tail[t].offset /\ tail'[t].slipped = tail[t].slipped
        /\ tail'[t].told = tail[t].told
    BY <1>3, <2>2 DEF TailStates
  <2>4. OutInv(t)'
    BY <1>3, <1>4, <2>3 DEF OutInv
  <2>5. CursorInv(t)'
    BY <1>1, <1>3, <2>3 DEF CursorInv
  <2>6. ASSUME NEW u \in TailTasks PROVE OutInv(u)' /\ CursorInv(u)'
    <3>1. CASE u # t
      <4>1. tail'[u] = tail[u]
        BY <2>2, <3>1
      <4>. QED  BY <1>1, <4>1, TailStays DEF LiveInv
    <3>. QED  BY <2>4, <2>5, <3>1
  <2>7. ASSUME NEW c \in Clients PROVE ReceiverInv(c)'
    <3>1. client[c] \in ClientStates /\ ReceiverInv(c)
      BY DEF LiveInv, TailInv, TailTypeOK
    <3>2. \A e \in Event : ServedUpTo(e) => ServedUpTo(e)'
      BY <1>1, <2>2, <2>3, ServedStays
    <3>. QED  BY <2>1, <3>1, <3>2, ReceiverStays
  <2>. QED  BY <2>6, <2>7 DEF LiveInv
<1>5. CASE tail[t].out # <<>>
  <2>1. PICK out \in Seq(Event) : out = tail[t].out /\ out # <<>>
    BY <1>3, <1>5 DEF TailStates
  <2>2. PICK e \in Event : e = Head(out) /\ e = out[1]
    BY <2>1
  <2>3. PICK x \in BOOLEAN : x = (tail[t].slipped \/ log_tails.task # t)
    <3>1. (tail[t].slipped \/ log_tails.task # t) \in BOOLEAN
      BY <1>3 DEF TailStates
    <3>. QED  BY <3>1
  <2>4. PICK rest \in Seq(Event) : rest = Tail(out)
    <3>1. Tail(out) \in Seq(Event)
      BY <2>1
    <3>. QED  BY <3>1, Zenon
  <2>5. tail' = [tail EXCEPT ![t].out = rest]
    BY <1>2, <2>1, <2>4 DEF SendLine
  <2>6. client' = [c \in Clients |-> Deliver(c, e, x)]
    <3>1. emit_event(Head(tail[t].out), tail[t].slipped \/ log_tails.task # t)
      BY <1>5 DEF SendLine
    <3>. QED  BY <2>1, <2>2, <2>3, <3>1 DEF emit_event
  <2>7. tail'[t] = [tail[t] EXCEPT !.out = rest] /\ \A u \in TailTasks \ {t} : tail'[u] = tail[u]
    BY <1>2, <2>5
  <2>8. /\ tail'[t].at = "send" /\ tail'[t].out = rest /\ tail'[t].gen = tail[t].gen
        /\ tail'[t].offset = tail[t].offset /\ tail'[t].slipped = tail[t].slipped
        /\ tail'[t].told = tail[t].told
    BY <1>1, <1>3, <2>7 DEF TailStates
  <2>9. PICK m \in Nat : Len(rest) = m /\ Len(out) = m + 1 /\ \A i \in 1 .. m : rest[i] = out[i + 1]
    <3>1. PICK m \in Nat : m = Len(rest)
      BY <2>4
    <3>2. Len(out) = m + 1 /\ \A i \in 1 .. m : rest[i] = out[i + 1]
      BY <2>1, <2>4, <3>1
    <3>. QED  BY <3>1, <3>2
  <2>10. OutInv(t)'
    <3>. SUFFICES ASSUME ~tail[t].slipped
                  PROVE  /\ \A i \in 1 .. m : rest[i].line # 0
                         /\ \A i \in 1 .. (m - 1) : Follows(rest[i], rest[i + 1])
                         /\ m # 0 => /\ rest[m].gen = tail[t].gen
                                     /\ tail[t].offset = 2 * rest[m].line
      BY <2>8, <2>9 DEF OutInv
    <3>1. /\ \A i \in 1 .. (m + 1) : out[i].line # 0
          /\ \A i \in 1 .. ((m + 1) - 1) : Follows(out[i], out[i + 1])
          /\ out[m + 1].gen = tail[t].gen /\ tail[t].offset = 2 * out[m + 1].line
      BY <1>3, <2>1, <2>9 DEF OutInv
    <3>2. \A i \in 1 .. m : rest[i].line # 0
      BY <2>9, <3>1
    <3>3. ASSUME NEW i \in 1 .. (m - 1) PROVE Follows(rest[i], rest[i + 1])
      <4>1. i \in 1 .. m /\ i + 1 \in 1 .. m /\ i + 1 \in 1 .. ((m + 1) - 1)
        OBVIOUS
      <4>. QED  BY <2>9, <3>1, <4>1
    <3>4. m # 0 => m \in 1 .. m
      OBVIOUS
    <3>. QED  BY <2>9, <3>1, <3>2, <3>3, <3>4
  <2>11. CursorInv(t)'
    BY <1>1, <1>3, <2>8 DEF CursorInv
  <2>12. ASSUME NEW u \in TailTasks PROVE OutInv(u)' /\ CursorInv(u)'
    <3>1. CASE u # t
      <4>1. tail'[u] = tail[u]
        BY <2>7, <3>1
      <4>. QED  BY <1>1, <4>1, TailStays DEF LiveInv
    <3>. QED  BY <2>10, <2>11, <3>1
  \* A line of a tail that missed none.
  <2>13. ASSUME ~x
         PROVE  /\ e.line # 0 /\ ServedUpTo(e)'
                /\ \A f \in Event : ServedUpTo(f) => Follows(f, e)
    <3>1. ~tail[t].slipped /\ log_tails.task = t
      BY <2>3, <2>13
    <3>2. /\ \A i \in 1 .. (m + 1) : out[i].line # 0
          /\ \A i \in 1 .. ((m + 1) - 1) : Follows(out[i], out[i + 1])
          /\ out[m + 1].gen = tail[t].gen /\ tail[t].offset = 2 * out[m + 1].line
      BY <1>3, <2>1, <2>9, <3>1 DEF OutInv
    <3>3. \A f \in Event : ServedUpTo(f) => Follows(f, e)
      BY <2>1, <2>2, <3>1 DEF ServedUpTo, GoesOn
    <3>4. GoesOn(t, e)'
      <4>1. CASE m = 0
        <5>1. rest = <<>> /\ e = out[m + 1]
          BY <2>2, <2>9, <4>1
        <5>2. tail[t].gen \in Nat
          BY <1>3 DEF TailStates
        <5>. QED  BY <2>8, <3>2, <5>1, <5>2 DEF GoesOn
      <4>2. CASE m # 0
        <5>1. rest # <<>> /\ 1 \in 1 .. m /\ 1 \in 1 .. ((m + 1) - 1)
          BY <2>9, <4>2
        <5>2. Follows(e, rest[1])
          BY <2>2, <2>9, <3>2, <5>1
        <5>. QED  BY <2>8, <5>1, <5>2 DEF GoesOn
      <4>. QED  BY <4>1, <4>2
    <3>5. ServedUpTo(e)'
      BY <1>1, <2>8, <3>1, <3>4 DEF ServedUpTo
    <3>6. e.line # 0
      BY <2>2, <2>9, <3>2
    <3>. QED  BY <3>3, <3>5, <3>6
  <2>14. ASSUME x, NEW f \in Event, ServedUpTo(f) PROVE ServedUpTo(f)'
    <3>1. CASE log_tails.task # t
      BY <1>1, <2>7, <2>14, <3>1, ServedStays
    <3>2. CASE log_tails.task = t
      <4>1. tail[t].slipped
        BY <2>3, <2>14, <3>2
      <4>. QED  BY <1>1, <2>8, <3>2, <4>1 DEF ServedUpTo
    <3>. QED  BY <3>1, <3>2
  <2>15. ASSUME NEW c \in Clients PROVE ReceiverInv(c)'
    <3>1. client[c] \in ClientStates /\ ReceiverInv(c) /\ client'[c] = Deliver(c, e, x)
      BY <2>6 DEF LiveInv, TailInv, TailTypeOK
    <3>2. e.line = 0 => \A f \in Event : ServedUpTo(f) => ServedUpTo(f)'
      BY <2>13, <2>14
    <3>3. ~x => /\ \A f \in Event : ServedUpTo(f) => Follows(f, e)
                /\ ServedUpTo(e)'
      BY <2>13
    <3>. QED  BY <3>1, <3>2, <3>3, Delivery
  <2>. QED  BY <2>12, <2>15 DEF LiveInv
<1>. QED  BY <1>4, <1>5

LEMMA StutterLive ==
  ASSUME LiveInv, TailInv', UNCHANGED tailVars
  PROVE  LiveInv'
<1>1. UNCHANGED <<logFile, log_tails, tail, client>>
  BY DEF tailVars
<1>2. ASSUME NEW t \in TailTasks PROVE OutInv(t)' /\ CursorInv(t)'
  BY <1>1, TailStays DEF LiveInv
<1>3. ASSUME NEW c \in Clients PROVE ReceiverInv(c)'
  <2>1. client[c] \in ClientStates /\ ReceiverInv(c)
    BY DEF LiveInv, TailInv, TailTypeOK
  <2>2. \A e \in Event : ServedUpTo(e) => ServedUpTo(e)'
    BY <1>1 DEF ServedUpTo, GoesOn
  <2>. QED  BY <1>1, <2>1, <2>2, ReceiverStays
<1>. QED  BY <1>2, <1>3 DEF LiveInv

LEMMA LiveIsGapless == LiveInv => LiveLogIsGapless
<1>. SUFFICES ASSUME LiveInv PROVE LiveLogIsGapless
  OBVIOUS
<1>1. TailCatchesUp
  BY DEF LiveInv, CursorInv, TailCatchesUp
<1>2. ASSUME NEW c \in Clients, ~client[c].excused, NEW i \in 1 .. (Len(client[c].got) - 1)
      PROVE  Follows(client[c].got[i], client[c].got[i + 1])
  <2>1. PICK q \in Seq(Event) : q = client[c].got
    BY DEF LiveInv, TailInv, TailTypeOK, ClientStates
  <2>2. Gapless(q) /\ \A j \in 1 .. Len(q) : q[j].line # 0
    BY <1>2, <2>1 DEF LiveInv, ReceiverInv
  <2>3. Len(q) \in Nat
    BY <2>1
  <2>4. i \in 1 .. Len(q) /\ i + 1 \in 1 .. Len(q) /\ i < i + 1
    BY <1>2, <2>1, <2>3
  <2>5. \A k \in (i + 1) .. ((i + 1) - 1) : FALSE
    BY <2>4
  <2>. QED  BY <2>1, <2>2, <2>4, <2>5 DEF Gapless
<1>. QED  BY <1>1, <1>2 DEF LiveLogIsGapless

(***************************************************************************)
(* A client of the event stream gets the lines of a run's log one after    *)
(* the other, whatever else is sent over the daemon's channel (the tail    *)
(* task of log_tailing.rs, the receivers of event_bus.rs).                 *)
(***************************************************************************)
THEOREM LiveLinesAreGapless == TailSpec => []LiveLogIsGapless
<1>1. LiveInv /\ [TailNext]_tailVars => LiveInv'
  <2>. SUFFICES ASSUME LiveInv, [TailNext]_tailVars PROVE LiveInv'
    OBVIOUS
  <2>1. TailInv
    BY DEF LiveInv
  <2>2. CASE UNCHANGED tailVars
    BY <2>1, <2>2, StutterShares, StutterLive
  <2>3. CASE WriteHalf \/ Truncate
    BY <2>1, <2>3, FileShares, FileLive
  <2>4. CASE OtherEvent(RunEvent) \/ OtherEvent(ForeignEvent)
    BY <2>1, <2>4, OtherShares, OtherLive
  <2>5. ASSUME NEW c \in Clients, events(c) PROVE LiveInv'
    <3>1. CASE retain_run_log_tail(c)
      BY <2>1, <3>1, RetainShares, RetainLive
    <3>2. CASE Forward(c)
      BY <2>1, <3>2, ForwardShares, ForwardLive
    <3>3. CASE Subscribe(c) \/ ClientGoes(c) \/ release_run_log_tail(c) \/ AbortTail(c)
      BY <2>1, <3>3, SubscriberShares, ReleaseShares, AbortShares, LeaveLive
    <3>. QED  BY <2>5, <3>1, <3>2, <3>3 DEF events
  <2>6. ASSUME NEW t \in TailTasks, tail_run_logs(t) PROVE LiveInv'
    <3>1. CASE read_new_log_events(t)
      BY <2>1, <3>1, ReadShares, ReadLive
    <3>2. CASE SendLine(t)
      BY <2>1, <3>2, SendShares, SendLive
    <3>3. CASE WatchLogs(t) \/ initial_log_tail_cursors(t) \/ Aborted(t)
      BY <2>1, <3>3, RestShares, RestLive
    <3>. QED  BY <2>6, <3>1, <3>2, <3>3 DEF tail_run_logs
  <2>. QED  BY <2>2, <2>3, <2>4, <2>5, <2>6 DEF TailNext
<1>. QED  BY LiveInit, LiveIsGapless, <1>1, PTL DEF TailSpec

-----------------------------------------------------------------------------
(***************************************************************************)
(* Queries.  The follower's cursor is the last of the lines it has         *)
(* printed; the monitor has read all lines from its start up to its        *)
(* cursor, which is past what it has polled; and one reader at a time is   *)
(* between the commit and the clearing of the cache.                       *)
(***************************************************************************)
GateInv == \A r \in Readers : at[r] = "clear" => gate = r

\* The n lines after line m.
Count(m, n) == [i \in 1 .. n |-> m + i]

FollowInv ==
    /\ follow.after = NoSeq => follow.first = {} /\ follow.later = <<>>
    /\ follow.after # NoSeq =>
         /\ follow.after \in 0 .. (indexed - 1) /\ follow.first # {}
         /\ Max(follow.first) \in 0 .. follow.after
         /\ follow.later = Count(Max(follow.first), follow.after - Max(follow.first))

Announced(s) ==
    \E e \in share.read, t \in share.sent : e[1] = s /\ t <= e[2] /\ e[2] - t < RateLimit

ShareInv ==
    /\ ~share.begun => share.cursor = 0
    /\ share.cursor = 0 \/ share.cursor < indexed
    /\ share.polled <= share.start \/ share.polled <= share.cursor + 1
    /\ share.lastSent # NoSeq => share.lastSent \in share.sent /\ share.lastSent <= now
    /\ \A s \in share.start .. share.cursor : s # 0 /\ Level(s) = "error" => Announced(s)

QueryInv == QueryTypeOK /\ GateInv /\ FollowInv /\ ShareInv /\ FacetsAreFresh

-----------------------------------------------------------------------------
\* The greatest of some lines.
LEMMA MaxOf ==
  ASSUME NEW n \in Nat, NEW S \in SUBSET (0 .. n), S # {}
  PROVE  Max(S) \in S /\ \A y \in S : Max(S) >= y
<1>. DEFINE R == {n - x : x \in S}
<1>1. R \subseteq Nat /\ R # {}
  <2>1. ASSUME NEW x \in S PROVE n - x \in Nat
    <3>1. x \in 0 .. n
      OBVIOUS
    <3>. QED  BY <3>1
  <2>. QED  BY <2>1
<1>2. PICK k \in R : \A j \in R : ~(<<j, k>> \in OpToRel(<, Nat))
  BY <1>1, NatLessThanWellFounded, WFMin, Zenon
<1>3. ASSUME NEW j \in R PROVE k <= j
  <2>1. j \in Nat /\ k \in Nat /\ <<j, k>> \notin {x \in Nat \X Nat : x[1] < x[2]}
    BY <1>1, <1>2 DEF OpToRel
  <2>. HIDE DEF R
  <2>. QED  BY <2>1
<1>4. PICK m \in S : k = n - m
  BY <1>2
<1>5. \A y \in S : m >= y
  <2>. SUFFICES ASSUME NEW y \in S PROVE m >= y
    OBVIOUS
  <2>1. k <= n - y
    BY <1>3
  <2>2. m \in Int /\ y \in Int
    OBVIOUS
  <2>. HIDE DEF R
  <2>. QED  BY <1>4, <2>1, <2>2
<1>. QED  BY <1>5 DEF Max

LEMMA MaxOfInterval ==
  ASSUME NEW a \in Nat, NEW b \in Nat, a <= b
  PROVE  Max(a .. b) = b
<1>1. b \in a .. b /\ \A y \in a .. b : b >= y
  OBVIOUS
<1>2. \A x \in a .. b : (\A y \in a .. b : x >= y) => x = b
  BY <1>1
<1>. QED  BY <1>1, <1>2 DEF Max

\* Where a page that begins after line a ends.
PageEnd(a) == IF a + PageLimit <= indexed - 1 THEN a + PageLimit ELSE indexed - 1

LEMMA PageIsInterval ==
  ASSUME QueryAssumption, indexed \in Nat, NEW a \in Nat
  PROVE  /\ PageAfter(a) = (a + 1) .. PageEnd(a) /\ PageEnd(a) \in Int
         /\ Cardinality(PageAfter(a)) = IF PageEnd(a) > a THEN PageEnd(a) - a ELSE 0
<1>1. PageLimit \in Nat \ {0} /\ PageEnd(a) \in Int
  BY DEF QueryAssumption, PageEnd
<1>2. ASSUME NEW s \in Seqs, s > a
      PROVE  Cardinality({x \in Seqs : a < x /\ x < s}) = s - 1 - a
  <2>1. s \in Int /\ s <= indexed - 1
    BY DEF Seqs
  <2>2. {x \in Seqs : a < x /\ x < s} = (a + 1) .. (s - 1)
    BY <2>1 DEF Seqs
  <2>3. Cardinality((a + 1) .. (s - 1)) = IF a + 1 > s - 1 THEN 0 ELSE (s - 1) - (a + 1) + 1
    BY <2>1, FS_Interval
  <2>4. Cardinality((a + 1) .. (s - 1)) = s - 1 - a
    BY <1>2, <2>1, <2>3
  <2>. QED  BY <2>2, <2>4
<1>3. \A s : s \in PageAfter(a) <=> s \in Seqs /\ s > a /\ s - 1 - a < PageLimit
  BY <1>2 DEF PageAfter
<1>4. \A s : s \in Seqs /\ s > a /\ s - 1 - a < PageLimit <=> s \in (a + 1) .. PageEnd(a)
  BY <1>1 DEF Seqs, PageEnd
<1>5. PageAfter(a) = (a + 1) .. PageEnd(a)
  BY <1>3, <1>4
<1>6. Cardinality((a + 1) .. PageEnd(a)) =
        IF a + 1 > PageEnd(a) THEN 0 ELSE PageEnd(a) - (a + 1) + 1
  BY <1>1, FS_Interval
<1>. QED  BY <1>1, <1>5, <1>6

LEMMA AscendingInterval ==
  ASSUME NEW a \in Nat, NEW b \in Nat, a <= b
  PROVE  Ascending((a + 1) .. b) = Count(a, b - a)
<1>1. Cardinality((a + 1) .. b) = b - a
  <2>1. Cardinality((a + 1) .. b) = IF a + 1 > b THEN 0 ELSE b - (a + 1) + 1
    BY FS_Interval
  <2>. QED  BY <2>1
<1>2. ASSUME NEW i \in 1 .. (b - a)
      PROVE  (CHOOSE s \in (a + 1) .. b : Cardinality({x \in (a + 1) .. b : x < s}) = i - 1) = a + i
  <2>1. ASSUME NEW s \in (a + 1) .. b
        PROVE  Cardinality({x \in (a + 1) .. b : x < s}) = s - 1 - a
    <3>1. {x \in (a + 1) .. b : x < s} = (a + 1) .. (s - 1)
      OBVIOUS
    <3>2. Cardinality((a + 1) .. (s - 1)) = IF a + 1 > s - 1 THEN 0 ELSE (s - 1) - (a + 1) + 1
      BY FS_Interval
    <3>3. Cardinality((a + 1) .. (s - 1)) = s - 1 - a
      <4>1. s \in Int /\ s >= a + 1
        OBVIOUS
      <4>. QED  BY <3>2, <4>1
    <3>. QED  BY <3>1, <3>3
  <2>2. a + i \in (a + 1) .. b /\ Cardinality({x \in (a + 1) .. b : x < a + i}) = i - 1
    <3>1. a + i \in (a + 1) .. b /\ (a + i) - 1 - a = i - 1
      OBVIOUS
    <3>. QED  BY <2>1, <3>1
  <2>3. \A s \in (a + 1) .. b : Cardinality({x \in (a + 1) .. b : x < s}) = i - 1 => s = a + i
    BY <2>1
  <2>. QED  BY <2>2, <2>3
<1>. QED  BY <1>1, <1>2 DEF Ascending, Count

LEMMA CountFields ==
  ASSUME NEW m \in Nat, NEW n \in Nat
  PROVE  /\ Count(m, n) \in Seq(Nat) /\ Len(Count(m, n)) = n
         /\ \A i \in 1 .. n : Count(m, n)[i] = m + i
<1>1. \A i \in 1 .. n : m + i \in Nat
  OBVIOUS
<1>2. /\ Count(m, n) \in [1 .. n -> Nat] /\ DOMAIN Count(m, n) = 1 .. n
      /\ \A i \in 1 .. n : Count(m, n)[i] = m + i
  BY <1>1 DEF Count
<1>3. Count(m, n) \in Seq(Nat)
  BY <1>2, SeqDef
<1>. QED  BY <1>2, <1>3, LenProperties

\* A count of lines goes on where the last one ended.
LEMMA CountGoesOn ==
  ASSUME NEW m \in Nat, NEW a \in Nat, NEW b \in Nat, m <= a, a <= b
  PROVE  Count(m, a - m) \o Count(a, b - a) = Count(m, b - m)
<1>1. PICK k \in Nat, l \in Nat : k = a - m /\ l = b - a
  OBVIOUS
<1>2. k + l \in Nat /\ k + l = b - m
  BY <1>1
<1>3. PICK f \in Seq(Nat) : f = Count(m, k) /\ Len(f) = k /\ \A i \in 1 .. k : f[i] = m + i
  BY CountFields, Zenon
<1>4. PICK g \in Seq(Nat) : g = Count(a, l) /\ Len(g) = l /\ \A i \in 1 .. l : g[i] = a + i
  BY CountFields, Zenon
<1>5. PICK h \in Seq(Nat) :
        h = Count(m, k + l) /\ Len(h) = k + l /\ \A i \in 1 .. k + l : h[i] = m + i
  BY <1>2, CountFields, Zenon
<1>6. /\ f \o g \in Seq(Nat) /\ Len(f \o g) = k + l
      /\ \A i \in 1 .. k + l : (f \o g)[i] = IF i <= k THEN f[i] ELSE g[i - k]
  <2>1. /\ f \o g \in Seq(Nat) /\ Len(f \o g) = Len(f) + Len(g)
        /\ \A i \in 1 .. Len(f) + Len(g) :
             (f \o g)[i] = IF i <= Len(f) THEN f[i] ELSE g[i - Len(f)]
    BY ConcatProperties, Zenon
  <2>. QED  BY <1>3, <1>4, <2>1
<1>7. ASSUME NEW i \in 1 .. k + l PROVE (f \o g)[i] = h[i]
  <2>1. i \in Nat /\ h[i] = m + i
    BY <1>5
  <2>2. CASE i <= k
    <3>1. i \in 1 .. k /\ (f \o g)[i] = f[i]
      BY <1>6, <2>2
    <3>. QED  BY <1>3, <2>1, <3>1
  <2>3. CASE i > k
    <3>1. i - k \in 1 .. l /\ a + (i - k) = m + i
      BY <1>1, <2>1, <2>3
    <3>2. (f \o g)[i] = g[i - k]
      BY <1>6, <2>1, <2>3
    <3>. QED  BY <1>4, <2>1, <3>1, <3>2
  <2>4. i <= k \/ i > k
    BY <2>1
  <2>. QED  BY <2>2, <2>3, <2>4, Zenon
<1>8. f \o g = h
  <2>1. Len(f \o g) = Len(h) /\ \A i \in 1 .. Len(f \o g) : (f \o g)[i] = h[i]
    BY <1>5, <1>6, <1>7
  <2>2. f \o g \in Seq(Nat)
    BY <1>6
  <2>. QED  BY <2>1, <2>2, SeqEqual, Zenon
<1>. QED  BY <1>1, <1>2, <1>3, <1>4, <1>5, <1>8

-----------------------------------------------------------------------------
\* A step of neither of the two readers: what they have read is as it was.
LEMMA ReadersUntouched ==
  ASSUME QueryInv, QueryTypeOK', UNCHANGED <<follow, share>>, indexed' >= indexed, now' >= now,
         \A s \in 0 .. (indexed - 1) : Level(s)' = Level(s)
  PROVE  FollowInv' /\ ShareInv'
<1>1. indexed \in Nat /\ indexed' \in Nat /\ now \in Nat /\ now' \in Nat
  BY DEF QueryInv, QueryTypeOK
<1>2. FollowInv'
  BY <1>1 DEF QueryInv, FollowInv
<1>3. /\ share.cursor \in Nat /\ share.start \in Nat /\ share.polled \in Nat
      /\ share.lastSent \in Nat \cup {NoSeq}
  BY DEF QueryInv, QueryTypeOK
<1>4. ASSUME NEW s \in share.start .. share.cursor, s # 0, Level(s)' = "error" PROVE Announced(s)'
  <2>1. s \in 0 .. (indexed - 1)
    BY <1>1, <1>3, <1>4 DEF QueryInv, ShareInv
  <2>2. Announced(s)
    BY <1>4, <2>1 DEF QueryInv, ShareInv
  <2>. QED  BY <2>2 DEF Announced
<1>5. /\ ~share.begun => share.cursor = 0
      /\ share.cursor = 0 \/ share.cursor < indexed'
      /\ share.polled <= share.start \/ share.polled <= share.cursor + 1
      /\ share.lastSent # NoSeq => share.lastSent \in share.sent /\ share.lastSent <= now'
  BY <1>1, <1>3 DEF QueryInv, ShareInv
<1>. QED  BY <1>2, <1>4, <1>5 DEF ShareInv

LEMMA WriteStep ==
  ASSUME QueryInv, QueryAssumption,
         NEW level \in {"error", "info"}, NEW ts \in 1 .. MaxTs, WriteLine(level, ts)
  PROVE  QueryInv'
<1>1. [level |-> level, ts |-> ts] \in LogLine
  BY DEF LogLine, QueryAssumption
<1>2. PICK l \in LogLine : log' = Append(log, l)
  BY <1>1 DEF WriteLine
<1>3. log \in Seq(LogLine) /\ indexed \in 0 .. Len(log)
  BY DEF QueryInv, QueryTypeOK
<1>4. log' \in Seq(LogLine) /\ Len(log') = Len(log) + 1 /\ \A i \in 1 .. Len(log) : log'[i] = log[i]
  BY <1>2, <1>3
<1>5. UNCHANGED <<indexed, gate, at, follow, share, facetCache, facetVersion, now, staleInsert>>
  BY DEF WriteLine
<1>6. QueryTypeOK'
  <2>1. log' \in Seq(LogLine) /\ indexed' \in 0 .. Len(log')
    BY <1>3, <1>4, <1>5
  <2>. QED  BY <1>5, <2>1 DEF QueryInv, QueryTypeOK
<1>7. \A s \in 0 .. (indexed - 1) : Level(s)' = Level(s)
  BY <1>3, <1>4 DEF Level
<1>8. FollowInv' /\ ShareInv'
  <2>1. UNCHANGED <<follow, share>> /\ indexed' >= indexed /\ now' >= now
    BY <1>3, <1>5 DEF QueryInv, QueryTypeOK
  <2>. QED  BY <1>6, <1>7, <2>1, ReadersUntouched
<1>9. GateInv' /\ FacetsAreFresh'
  BY <1>5 DEF QueryInv, GateInv, FacetsAreFresh
<1>. QED  BY <1>6, <1>8, <1>9 DEF QueryInv

LEMMA TickStep ==
  ASSUME QueryInv, QueryAssumption, Tick
  PROVE  QueryInv'
<1>1. /\ now' = now + 1 /\ now \in Nat /\ indexed \in Nat
      /\ UNCHANGED <<log, indexed, gate, at, follow, share, facetCache, facetVersion, staleInsert>>
  BY DEF Tick, QueryInv, QueryTypeOK
<1>2. QueryTypeOK'
  BY <1>1 DEF QueryInv, QueryTypeOK
<1>3. \A s \in 0 .. (indexed - 1) : Level(s)' = Level(s)
  BY <1>1 DEF Level
<1>4. FollowInv' /\ ShareInv'
  BY <1>1, <1>2, <1>3, ReadersUntouched
<1>5. GateInv' /\ FacetsAreFresh'
  BY <1>1 DEF QueryInv, GateInv, FacetsAreFresh
<1>. QED  BY <1>2, <1>4, <1>5 DEF QueryInv

\* A reader moves on.
LEMMA ReaderMoves ==
  ASSUME QueryInv, NEW r \in Readers, NEW x \in ReaderAt, at' = [at EXCEPT ![r] = x]
  PROVE  /\ at' \in [Readers -> ReaderAt] /\ at'[r] = x
         /\ \A q \in Readers \ {r} : at'[q] = at[q]
BY DEF QueryInv, QueryTypeOK

LEMMA AskStep ==
  ASSUME QueryInv, QueryAssumption, NEW r \in Readers, Ask(r)
  PROVE  QueryInv'
<1>1. /\ at' = [at EXCEPT ![r] = "ingest"] /\ now \in Nat /\ indexed \in Nat
      /\ UNCHANGED <<log, indexed, gate, follow, share, facetCache, facetVersion, now, staleInsert>>
  BY DEF Ask, QueryInv, QueryTypeOK
<1>2. PICK x \in ReaderAt : x = "ingest"
  BY DEF ReaderAt
<1>3. /\ at' \in [Readers -> ReaderAt] /\ at'[r] = "ingest"
      /\ \A q \in Readers \ {r} : at'[q] = at[q]
  BY <1>1, <1>2, ReaderMoves
<1>4. QueryTypeOK'
  BY <1>1, <1>3 DEF QueryInv, QueryTypeOK
<1>5. \A s \in 0 .. (indexed - 1) : Level(s)' = Level(s)
  BY <1>1 DEF Level
<1>6. FollowInv' /\ ShareInv'
  BY <1>1, <1>4, <1>5, ReadersUntouched
<1>7. GateInv' /\ FacetsAreFresh'
  BY <1>1, <1>3 DEF QueryInv, GateInv, FacetsAreFresh
<1>. QED  BY <1>4, <1>6, <1>7 DEF QueryInv

LEMMA IngestStep ==
  ASSUME QueryInv, QueryAssumption, NEW r \in Readers, ingest_sources(r)
  PROVE  QueryInv'
<1>1. /\ gate = NoReader /\ indexed' = Len(log) /\ indexed \in 0 .. Len(log) /\ now \in Nat
      /\ Len(log) \in Nat
      /\ UNCHANGED <<log, follow, share, facetCache, facetVersion, now, staleInsert>>
  BY DEF ingest_sources, QueryInv, QueryTypeOK
<1>2. PICK x \in ReaderAt : /\ at' = [at EXCEPT ![r] = x]
                            /\ \/ x = "clear" /\ gate' = r
                               \/ x = "search" /\ gate' = gate /\ indexed = Len(log)
  <2>1. "clear" \in ReaderAt /\ "search" \in ReaderAt
    BY DEF ReaderAt
  <2>. QED  BY <1>1, <2>1 DEF ingest_sources
<1>3. /\ at' \in [Readers -> ReaderAt] /\ at'[r] = x
      /\ \A q \in Readers \ {r} : at'[q] = at[q]
  BY <1>2, ReaderMoves
<1>4. QueryTypeOK'
  BY <1>1, <1>2, <1>3 DEF QueryInv, QueryTypeOK
<1>5. \A s \in 0 .. (indexed - 1) : Level(s)' = Level(s)
  BY <1>1 DEF Level
<1>6. FollowInv' /\ ShareInv'
  BY <1>1, <1>4, <1>5, ReadersUntouched
<1>7. r # NoReader
  BY DEF QueryAssumption
<1>8. GateInv'
  BY <1>1, <1>2, <1>3, <1>7 DEF QueryInv, GateInv, QueryAssumption
<1>9. FacetsAreFresh'
  BY <1>1, <1>2, <1>7 DEF QueryInv, FacetsAreFresh
<1>. QED  BY <1>4, <1>6, <1>8, <1>9 DEF QueryInv

LEMMA ClearStep ==
  ASSUME QueryInv, QueryAssumption, NEW r \in Readers, clear_facet_cache(r)
  PROVE  QueryInv'
<1>1. /\ at[r] = "clear" /\ at' = [at EXCEPT ![r] = "search"] /\ now \in Nat /\ indexed \in Nat
      /\ facetCache' = NoSeq /\ staleInsert' = FALSE /\ gate' = NoReader
      /\ UNCHANGED <<log, indexed, follow, share, facetVersion, now>>
  BY DEF clear_facet_cache, QueryInv, QueryTypeOK
<1>2. PICK x \in ReaderAt : x = "search"
  BY DEF ReaderAt
<1>3. /\ at' \in [Readers -> ReaderAt] /\ at'[r] = "search"
      /\ \A q \in Readers \ {r} : at'[q] = at[q]
  BY <1>1, <1>2, ReaderMoves
<1>4. QueryTypeOK'
  BY <1>1, <1>3 DEF QueryInv, QueryTypeOK
<1>5. \A s \in 0 .. (indexed - 1) : Level(s)' = Level(s)
  BY <1>1 DEF Level
<1>6. FollowInv' /\ ShareInv'
  BY <1>1, <1>4, <1>5, ReadersUntouched
<1>7. GateInv' /\ FacetsAreFresh'
  BY <1>1, <1>3 DEF QueryInv, GateInv, FacetsAreFresh
<1>. QED  BY <1>4, <1>6, <1>7 DEF QueryInv

LEMMA FacetStep ==
  ASSUME QueryInv, QueryAssumption, NEW v \in Viewers, query_view(v)
  PROVE  QueryInv'
<1>1. v \in Readers /\ now \in Nat /\ indexed \in Nat
  BY DEF Readers, QueryInv, QueryTypeOK
<1>2. UNCHANGED <<log, indexed, gate, follow, share, now>>
  BY DEF query_view, FacetLookup, FacetInsert
<1>3. PICK x \in ReaderAt : at' = [at EXCEPT ![v] = x] /\ x \in {"idle", "insert"}
  <2>1. "idle" \in ReaderAt /\ "insert" \in ReaderAt
    BY DEF ReaderAt
  <2>. QED  BY <2>1 DEF query_view, FacetLookup, FacetInsert
<1>4. /\ at' \in [Readers -> ReaderAt] /\ at'[v] = x
      /\ \A q \in Readers \ {v} : at'[q] = at[q]
  BY <1>1, <1>3, ReaderMoves
<1>5. /\ facetCache' \in Nat \cup {NoSeq} /\ staleInsert' \in BOOLEAN
      /\ facetVersion' \in [Viewers -> Nat]
  <2>1. CASE FacetLookup(v)
    <3>1. UNCHANGED <<facetCache, staleInsert>>
      BY <2>1 DEF FacetLookup
    <3>2. facetVersion' = facetVersion \/ facetVersion' = [facetVersion EXCEPT ![v] = indexed]
      BY <2>1 DEF FacetLookup
    <3>3. facetVersion \in [Viewers -> Nat]
      BY DEF QueryInv, QueryTypeOK
    <3>4. facetVersion' \in [Viewers -> Nat]
      BY <1>1, <3>2, <3>3
    <3>. QED  BY <3>1, <3>4 DEF QueryInv, QueryTypeOK
  <2>2. CASE FacetInsert(v)
    <3>1. facetCache' \in Nat /\ staleInsert' \in BOOLEAN
      BY <2>2 DEF FacetInsert, QueryInv, QueryTypeOK
    <3>2. facetVersion' = [facetVersion EXCEPT ![v] = 0]
      BY <2>2 DEF FacetInsert
    <3>. QED  BY <3>1, <3>2 DEF QueryInv, QueryTypeOK
  <2>. QED  BY <2>1, <2>2 DEF query_view
<1>6. QueryTypeOK'
  BY <1>2, <1>4, <1>5 DEF QueryInv, QueryTypeOK
<1>7. \A s \in 0 .. (indexed - 1) : Level(s)' = Level(s)
  BY <1>2 DEF Level
<1>8. FollowInv' /\ ShareInv'
  BY <1>1, <1>2, <1>6, <1>7, ReadersUntouched
<1>9. GateInv'
  BY <1>2, <1>3, <1>4 DEF QueryInv, GateInv
<1>10. FacetsAreFresh'
  BY <1>2 DEF query_view, FacetLookup, FacetInsert, QueryInv, FacetsAreFresh
<1>. QED  BY <1>6, <1>8, <1>9, <1>10 DEF QueryInv

-----------------------------------------------------------------------------
(***************************************************************************)
(* The pages of logs --follow.                                             *)
(***************************************************************************)
LEMMA FirstPage ==
  ASSUME QueryInv, QueryAssumption, follow.after = NoSeq, NEW S \in Newest(follow.tail),
         follow' = [follow EXCEPT !.tail = PageLimit, !.first = S,
                                  !.after = IF S = {} THEN NoSeq ELSE Max(S)],
         UNCHANGED indexed
  PROVE  /\ FollowInv'
         /\ follow' \in [after : Nat \cup {NoSeq}, tail : Nat, first : SUBSET Nat, later : Seq(Nat)]
<1>1. /\ indexed \in Nat /\ PageLimit \in Nat /\ NoSeq \notin Nat
      /\ follow \in [after : Nat \cup {NoSeq}, tail : Nat, first : SUBSET Nat, later : Seq(Nat)]
  BY DEF QueryInv, QueryTypeOK, QueryAssumption
<1>2. S \subseteq 0 .. (indexed - 1)
  BY DEF Newest, Seqs
<1>3. S # {} => Max(S) \in S /\ Max(S) \in 0 .. (indexed - 1)
  <2>. SUFFICES ASSUME S # {} PROVE Max(S) \in S /\ Max(S) \in 0 .. (indexed - 1)
    OBVIOUS
  <2>1. PICK n \in Nat : n = indexed - 1
    BY <1>1, <1>2
  <2>. QED  BY <1>2, <2>1, MaxOf
<1>4. PICK m \in Nat \cup {NoSeq} : /\ m = IF S = {} THEN NoSeq ELSE Max(S)
                                    /\ S # {} => m \in 0 .. (indexed - 1) /\ m = Max(S)
  BY <1>3
<1>5. S \in SUBSET Nat /\ follow.later = <<>>
  BY <1>1, <1>2 DEF QueryInv, FollowInv
<1>6. /\ follow' \in [after : Nat \cup {NoSeq}, tail : Nat, first : SUBSET Nat, later : Seq(Nat)]
      /\ follow'.after = m /\ follow'.first = S /\ follow'.later = <<>>
  BY <1>1, <1>4, <1>5
<1>7. FollowInv'
  <2>1. CASE S = {}
    BY <1>1, <1>4, <1>6, <2>1 DEF FollowInv
  <2>2. CASE S # {}
    <3>1. m \in 0 .. (indexed - 1) /\ m = Max(S) /\ m # NoSeq
      BY <1>1, <1>4, <2>2
    <3>2. <<>> = Count(m, m - m)
      <4>1. m - m = 0 /\ m \in Nat
        BY <1>1, <3>1
      <4>2. PICK f \in Seq(Nat) : f = Count(m, 0) /\ Len(f) = 0
        BY <4>1, 0 \in Nat, CountFields
      <4>3. f = <<>>
        BY <4>2, EmptySeq, Zenon
      <4>. QED  BY <4>1, <4>2, <4>3
    <3>3. follow'.after = m /\ follow'.first = S /\ follow'.later = Count(m, m - m)
      BY <1>6, <3>2
    <3>4. m \in 0 .. m
      BY <1>1, <3>1
    <3>. QED  BY <2>2, <3>1, <3>3, <3>4 DEF FollowInv
  <2>. QED  BY <2>1, <2>2
<1>. QED  BY <1>6, <1>7

LEMMA LaterPage ==
  ASSUME QueryInv, QueryAssumption, follow.after # NoSeq,
         follow' = [follow EXCEPT !.later = follow.later \o Ascending(PageAfter(follow.after)),
                                  !.after = IF PageAfter(follow.after) = {} THEN follow.after
                                            ELSE Max(PageAfter(follow.after) \cup {follow.after})],
         UNCHANGED indexed
  PROVE  /\ FollowInv'
         /\ follow' \in [after : Nat \cup {NoSeq}, tail : Nat, first : SUBSET Nat, later : Seq(Nat)]
<1>1. /\ indexed \in Nat /\ PageLimit \in Nat \ {0} /\ NoSeq \notin Nat
      /\ follow \in [after : Nat \cup {NoSeq}, tail : Nat, first : SUBSET Nat, later : Seq(Nat)]
  BY DEF QueryInv, QueryTypeOK, QueryAssumption
<1>2. PICK a \in Nat : a = follow.after /\ a <= indexed - 1
  BY <1>1 DEF QueryInv, FollowInv
<1>3. PICK m \in Nat : /\ m = Max(follow.first) /\ m <= a
                       /\ follow.later = Count(m, a - m) /\ follow.first # {}
  BY <1>1, <1>2 DEF QueryInv, FollowInv
<1>4. PICK b \in Nat : b = PageEnd(a) /\ a <= b /\ b <= indexed - 1
  BY <1>1, <1>2 DEF PageEnd
<1>5. PageAfter(a) = (a + 1) .. b
  BY <1>1, <1>4, PageIsInterval
<1>6. Ascending(PageAfter(a)) = Count(a, b - a)
  BY <1>4, <1>5, AscendingInterval
<1>7. (IF PageAfter(a) = {} THEN a ELSE Max(PageAfter(a) \cup {a})) = b
  <2>1. CASE a = b
    <3>1. PageAfter(a) = {}
      BY <1>5, <2>1
    <3>. QED  BY <2>1, <3>1
  <2>2. CASE a < b
    <3>1. PageAfter(a) \cup {a} = a .. b /\ PageAfter(a) # {}
      BY <1>5, <2>2
    <3>2. Max(a .. b) = b
      BY <1>4, MaxOfInterval
    <3>. QED  BY <3>1, <3>2
  <2>. QED  BY <1>4, <2>1, <2>2
<1>8. PICK seq \in Seq(Nat) :
        /\ seq = follow.later \o Ascending(PageAfter(follow.after))
        /\ seq = Count(m, b - m)
  <2>1. follow.later \o Ascending(PageAfter(a)) = Count(m, b - m)
    <3>1. Count(m, a - m) \o Count(a, b - a) = Count(m, b - m)
      BY <1>3, <1>4, CountGoesOn
    <3>. QED  BY <1>3, <1>6, <3>1
  <2>2. b - m \in Nat
    BY <1>3, <1>4
  <2>3. Count(m, b - m) \in Seq(Nat)
    BY <2>2, CountFields
  <2>. QED  BY <1>2, <2>1, <2>3
<1>9. follow' = [follow EXCEPT !.later = seq, !.after = b]
  BY <1>2, <1>7, <1>8
<1>10. /\ follow' \in [after : Nat \cup {NoSeq}, tail : Nat, first : SUBSET Nat, later : Seq(Nat)]
       /\ follow'.after = b /\ follow'.later = seq /\ follow'.first = follow.first
  BY <1>1, <1>9
<1>11. FollowInv'
  <2>1. b # NoSeq /\ b \in 0 .. (indexed' - 1) /\ m \in 0 .. b
    BY <1>1, <1>3, <1>4
  <2>2. follow'.after = b /\ follow'.later = Count(m, b - m)
    BY <1>8, <1>10
  <2>3. follow'.first # {} /\ Max(follow'.first) = m
    BY <1>3, <1>10
  <2>. QED  BY <2>1, <2>2, <2>3 DEF FollowInv
<1>. QED  BY <1>10, <1>11

LEMMA FollowStep ==
  ASSUME QueryInv, QueryAssumption, FollowPage
  PROVE  QueryInv'
<1>1. /\ at' = [at EXCEPT ![Follower] = "idle"] /\ Follower \in Readers
      /\ UNCHANGED <<log, indexed, gate, share, facetCache, facetVersion, now, staleInsert>>
  BY DEF FollowPage, Readers
<1>2. PICK x \in ReaderAt : x = "idle"
  BY DEF ReaderAt
<1>3. /\ at' \in [Readers -> ReaderAt] /\ at'[Follower] = "idle"
      /\ \A q \in Readers \ {Follower} : at'[q] = at[q]
  BY <1>1, <1>2, ReaderMoves
<1>4. /\ FollowInv'
      /\ follow' \in [after : Nat \cup {NoSeq}, tail : Nat, first : SUBSET Nat, later : Seq(Nat)]
  <2>1. CASE follow.after = NoSeq
    <3>1. PICK S \in Newest(follow.tail) :
            follow' = [follow EXCEPT !.tail = PageLimit, !.first = S,
                                     !.after = IF S = {} THEN NoSeq ELSE Max(S)]
      BY <2>1, Zenon DEF FollowPage
    <3>. QED  BY <1>1, <2>1, <3>1, FirstPage
  <2>2. CASE follow.after # NoSeq
    <3>1. follow' = [follow EXCEPT !.later = follow.later \o Ascending(PageAfter(follow.after)),
                                   !.after = IF PageAfter(follow.after) = {} THEN follow.after
                                             ELSE Max(PageAfter(follow.after) \cup {follow.after})]
      BY <2>2 DEF FollowPage
    <3>. QED  BY <1>1, <2>2, <3>1, LaterPage
  <2>. QED  BY <2>1, <2>2
<1>5. QueryTypeOK'
  BY <1>1, <1>3, <1>4 DEF QueryInv, QueryTypeOK
<1>6. ShareInv'
  BY <1>1 DEF QueryInv, ShareInv, Announced, Level
<1>7. GateInv' /\ FacetsAreFresh'
  BY <1>1, <1>3 DEF QueryInv, GateInv, FacetsAreFresh
<1>. QED  BY <1>4, <1>5, <1>6, <1>7 DEF QueryInv

-----------------------------------------------------------------------------
(***************************************************************************)
(* The monitor.                                                            *)
(***************************************************************************)
ShareState == [begun : BOOLEAN, cursor : Nat, start : Nat, lastSent : Nat \cup {NoSeq},
               sent : SUBSET Nat, read : SUBSET (Nat \X Nat), polled : Nat]

\* A step of the monitor, which goes back to its pause.
LEMMA MonitorMoves ==
  ASSUME QueryInv, QueryAssumption, at' = [at EXCEPT ![Monitor] = "idle"],
         UNCHANGED <<log, indexed, gate, follow, facetCache, facetVersion, now, staleInsert>>,
         share' \in ShareState, ShareInv'
  PROVE  QueryInv'
<1>1. PICK x \in ReaderAt : x = "idle"
  BY DEF ReaderAt
<1>2. Monitor \in Readers
  BY DEF Readers
<1>3. /\ at' \in [Readers -> ReaderAt] /\ at'[Monitor] = "idle"
      /\ \A q \in Readers \ {Monitor} : at'[q] = at[q]
  BY <1>1, <1>2, ReaderMoves
<1>4. QueryTypeOK'
  BY <1>3 DEF QueryInv, QueryTypeOK, ShareState
<1>5. FollowInv'
  BY DEF QueryInv, FollowInv
<1>6. GateInv' /\ FacetsAreFresh'
  BY <1>3 DEF QueryInv, GateInv, FacetsAreFresh
<1>. QED  BY <1>4, <1>5, <1>6 DEF QueryInv

\* The monitor starts at line n, with its cursor before it.
LEMMA MonitorStarts ==
  ASSUME QueryInv, QueryAssumption, NEW n \in Nat, NEW k \in Nat,
         k = 0 \/ (k < n /\ k < indexed),
         share' = [share EXCEPT !.begun = TRUE, !.start = n, !.polled = n, !.cursor = k],
         UNCHANGED <<log, indexed, now>>
  PROVE  share' \in ShareState /\ ShareInv'
<1>1. share \in ShareState /\ indexed \in Nat
  BY DEF QueryInv, QueryTypeOK, ShareState
<1>2. /\ share' \in ShareState
      /\ share'.begun /\ share'.start = n /\ share'.polled = n /\ share'.cursor = k
      /\ share'.lastSent = share.lastSent /\ share'.sent = share.sent
  BY <1>1 DEF ShareState
<1>3. \A s \in n .. k : s = 0
  OBVIOUS
<1>4. share'.lastSent # NoSeq => share'.lastSent \in share'.sent /\ share'.lastSent <= now
  BY <1>2 DEF QueryInv, ShareInv
<1>5. n <= n
  OBVIOUS
<1>. QED  BY <1>2, <1>3, <1>4, <1>5 DEF ShareInv

LEMMA FetchStep ==
  ASSUME QueryInv, QueryAssumption, fetch_latest_service_cursor
  PROVE  QueryInv'
<1>1. PICK S \in Newest(1) :
        share' = [share EXCEPT !.begun = TRUE, !.start = indexed, !.polled = indexed,
                               !.cursor = IF S = {} THEN 0 ELSE Max(S)]
  BY Zenon DEF fetch_latest_service_cursor
<1>2. /\ at' = [at EXCEPT ![Monitor] = "idle"] /\ indexed \in Nat
      /\ UNCHANGED <<log, indexed, gate, follow, facetCache, facetVersion, now, staleInsert>>
  BY DEF fetch_latest_service_cursor, QueryInv, QueryTypeOK
<1>3. S \subseteq 0 .. (indexed - 1)
  BY DEF Newest, Seqs
<1>4. PICK k \in Nat : k = (IF S = {} THEN 0 ELSE Max(S)) /\ (k = 0 \/ k < indexed)
  <2>1. CASE S = {}
    BY <2>1
  <2>2. CASE S # {}
    <3>0. PICK y \in S : y \in 0 .. (indexed - 1)
      BY <1>3, <2>2
    <3>1. PICK n \in Nat : n = indexed - 1
      BY <1>2, <3>0
    <3>2. Max(S) \in 0 .. n
      BY <1>3, <2>2, <3>1, MaxOf
    <3>. QED  BY <1>2, <2>2, <3>1, <3>2
  <2>. QED  BY <2>1, <2>2
<1>5. share' = [share EXCEPT !.begun = TRUE, !.start = indexed, !.polled = indexed, !.cursor = k]
  BY <1>1, <1>4
<1>6. share' \in ShareState /\ ShareInv'
  <2>1. PICK n \in Nat : n = indexed
    BY <1>2
  <2>2. k = 0 \/ (k < n /\ k < indexed)
    BY <1>4, <2>1
  <2>3. share' = [share EXCEPT !.begun = TRUE, !.start = n, !.polled = n, !.cursor = k]
    BY <1>5, <2>1
  <2>. QED  BY <1>2, <2>2, <2>3, MonitorStarts
<1>. QED  BY <1>2, <1>6, MonitorMoves

LEMMA FetchFailsStep ==
  ASSUME QueryInv, QueryAssumption, FetchFails
  PROVE  QueryInv'
<1>1. /\ at' = [at EXCEPT ![Monitor] = "idle"] /\ Len(log) \in Nat
      /\ UNCHANGED <<log, indexed, gate, follow, facetCache, facetVersion, now, staleInsert>>
  BY DEF FetchFails, QueryInv, QueryTypeOK
<1>2. CASE share.begun
  <2>1. share' = share
    BY <1>2 DEF FetchFails
  <2>2. share' \in ShareState /\ ShareInv'
    BY <1>1, <2>1 DEF QueryInv, QueryTypeOK, ShareState, ShareInv, Announced, Level
  <2>. QED  BY <1>1, <2>2, MonitorMoves
<1>3. CASE ~share.begun
  <2>1. /\ share' = [share EXCEPT !.begun = TRUE, !.start = Len(log), !.polled = Len(log)]
        /\ share.cursor = 0 /\ share \in ShareState
    BY <1>3 DEF FetchFails, QueryInv, QueryTypeOK, ShareInv, ShareState
  <2>2. share' = [share EXCEPT !.begun = TRUE, !.start = Len(log), !.polled = Len(log), !.cursor = 0]
    BY <2>1 DEF ShareState
  <2>3. share' \in ShareState /\ ShareInv'
    <3>1. PICK n \in Nat, k \in Nat : n = Len(log) /\ k = 0
      BY <1>1
    <3>2. share' = [share EXCEPT !.begun = TRUE, !.start = n, !.polled = n, !.cursor = k]
      BY <2>2, <3>1
    <3>. QED  BY <1>1, <3>1, <3>2, MonitorStarts
  <2>. QED  BY <1>1, <2>3, MonitorMoves
<1>. QED  BY <1>2, <1>3

(***************************************************************************)
(* A poll: the page from the cursor on is read, and its errors are         *)
(* announced at once or were announced less than RateLimit ago.            *)
(***************************************************************************)
LEMMA PollStep ==
  ASSUME QueryInv, QueryAssumption, run_auto_share_monitor
  PROVE  QueryInv'
<1>1. /\ at' = [at EXCEPT ![Monitor] = "idle"] /\ share.begun
      /\ UNCHANGED <<log, indexed, gate, follow, facetCache, facetVersion, now, staleInsert>>
  BY DEF run_auto_share_monitor
<1>2. /\ share \in ShareState /\ indexed \in Nat /\ now \in Nat /\ RateLimit \in Nat \ {0}
      /\ PageLimit \in Nat \ {0} /\ NoSeq \notin Nat
  BY DEF QueryInv, QueryTypeOK, ShareState, QueryAssumption
<1>3. PICK k \in Nat, start \in Nat, polled \in Nat :
        k = share.cursor /\ start = share.start /\ polled = share.polled
  BY <1>2 DEF ShareState
<1>4. /\ k = 0 \/ k < indexed
      /\ polled <= start \/ polled <= k + 1
      /\ share.lastSent # NoSeq => share.lastSent \in share.sent /\ share.lastSent <= now
      /\ \A s \in start .. k : s # 0 /\ Level(s) = "error" => Announced(s)
  BY <1>3 DEF QueryInv, ShareInv
<1>5. PICK page : page = PageAfter(k)
  OBVIOUS
<1>6. PICK b \in Int : b = PageEnd(k) /\ page = (k + 1) .. b
  BY <1>2, <1>5, PageIsInterval
<1>7. Cardinality(page) = IF b > k THEN b - k ELSE 0
  BY <1>2, <1>5, <1>6, PageIsInterval
<1>8. PICK e \in Nat : /\ e = IF page = {} THEN k ELSE Max(page)
                       /\ e >= k /\ (e = k \/ e = b) /\ (b > k => e = b)
  <2>1. CASE b > k
    <3>1. k + 1 <= b /\ b \in Nat /\ k + 1 \in Nat
      BY <2>1
    <3>2. Max((k + 1) .. b) = b /\ (k + 1) .. b # {}
      BY <3>1, MaxOfInterval
    <3>. QED  BY <1>6, <2>1, <3>1, <3>2
  <2>2. CASE ~(b > k)
    <3>1. page = {}
      BY <1>6, <2>2
    <3>. QED  BY <2>2, <3>1
  <2>. QED  BY <2>1, <2>2
<1>9. PICK q \in Nat : /\ q = IF Cardinality(page) < PageLimit THEN indexed ELSE polled
                       /\ q <= start \/ q <= e + 1
  <2>1. CASE Cardinality(page) < PageLimit
    <3>1. b = indexed - 1 \/ b = k + PageLimit
      BY <1>6 DEF PageEnd
    <3>2. b # k + PageLimit
      BY <1>2, <1>7, <2>1
    <3>3. indexed <= e + 1
      BY <1>2, <1>8, <3>1, <3>2
    <3>. QED  BY <1>2, <2>1, <3>3
  <2>2. CASE ~(Cardinality(page) < PageLimit)
    BY <1>4, <1>8, <2>2
  <2>. QED  BY <2>1, <2>2
<1>10. page \subseteq 0 .. (indexed - 1) /\ b <= indexed - 1
  BY <1>2, <1>6 DEF PageEnd
<1>11. e = 0 \/ e < indexed
  BY <1>2, <1>4, <1>8, <1>10
<1>12. PICK errors \in SUBSET Nat : errors = {s \in page : Level(s) = "error"}
  <2>1. PICK found : found = {s \in page : Level(s) = "error"}
    OBVIOUS
  <2>2. ASSUME NEW s \in found PROVE s \in Nat
    <3>1. s \in page
      BY <2>1, Zenon
    <3>2. s \in (k + 1) .. b
      BY <1>6, <3>1, Zenon
    <3>. QED  BY <3>2
  <2>. QED  BY <2>1, <2>2, Zenon
<1>13. PICK rd \in SUBSET (Nat \X Nat) :
         /\ rd = share.read \cup {<<s, now>> : s \in errors}
         /\ share.read \subseteq rd /\ \A s \in errors : <<s, now>> \in rd
  <2>1. share.read \subseteq Nat \X Nat
    BY <1>2 DEF ShareState
  <2>2. PICK new : new = {<<s, now>> : s \in errors}
    OBVIOUS
  <2>3. \A s \in errors : <<s, now>> \in new /\ <<s, now>> \in Nat \X Nat
    BY <1>2, <1>12, <2>2
  <2>4. ASSUME NEW pair \in new PROVE pair \in Nat \X Nat
    <3>1. PICK s \in errors : pair = <<s, now>>
      BY <2>2, Zenon
    <3>. QED  BY <2>3, <3>1, Zenon
  <2>5. share.read \cup new \in SUBSET (Nat \X Nat)
    BY <2>1, <2>4, Zenon
  <2>. QED  BY <2>2, <2>3, <2>5, Zenon
<1>14. PICK sh \in ShareState :
         /\ sh = [share EXCEPT !.cursor = e, !.read = rd, !.polled = q]
         /\ sh.begun = share.begun /\ sh.cursor = e /\ sh.read = rd /\ sh.polled = q
         /\ sh.start = start /\ sh.lastSent = share.lastSent /\ sh.sent = share.sent
  <2>1. /\ [share EXCEPT !.cursor = e, !.read = rd, !.polled = q] \in ShareState
        /\ [share EXCEPT !.cursor = e, !.read = rd, !.polled = q].begun = share.begun
        /\ [share EXCEPT !.cursor = e, !.read = rd, !.polled = q].cursor = e
        /\ [share EXCEPT !.cursor = e, !.read = rd, !.polled = q].read = rd
        /\ [share EXCEPT !.cursor = e, !.read = rd, !.polled = q].polled = q
        /\ [share EXCEPT !.cursor = e, !.read = rd, !.polled = q].start = share.start
        /\ [share EXCEPT !.cursor = e, !.read = rd, !.polled = q].lastSent = share.lastSent
        /\ [share EXCEPT !.cursor = e, !.read = rd, !.polled = q].sent = share.sent
    BY <1>2 DEF ShareState
  <2>. QED  BY <1>3, <2>1, Zenon
<1>15. share' = should_emit_auto_share(sh, errors # {})
  BY <1>3, <1>5, <1>8, <1>9, <1>12, <1>13, <1>14 DEF run_auto_share_monitor
<1>16. /\ share' \in ShareState /\ share'.begun /\ share'.cursor = e /\ share'.read = rd
       /\ share'.polled = q /\ share'.start = start /\ share.sent \subseteq share'.sent
       /\ share'.lastSent # NoSeq => share'.lastSent \in share'.sent /\ share'.lastSent <= now
       /\ errors # {} => \E t \in share'.sent : t <= now /\ now - t < RateLimit
  <2>1. CASE errors # {} /\ (sh.lastSent = NoSeq \/ now - sh.lastSent >= RateLimit)
    <3>1. share' = [sh EXCEPT !.lastSent = now, !.sent = sh.sent \cup {now}]
      BY <1>15, <2>1 DEF should_emit_auto_share
    <3>2. /\ share' \in ShareState /\ share'.begun = sh.begun /\ share'.cursor = sh.cursor
          /\ share'.read = sh.read /\ share'.polled = sh.polled /\ share'.start = sh.start
          /\ share'.sent = sh.sent \cup {now} /\ share'.lastSent = now
      BY <1>2, <3>1 DEF ShareState
    <3>3. now <= now /\ now - now < RateLimit
      BY <1>2
    <3>. QED  BY <1>1, <1>14, <3>2, <3>3
  <2>2. CASE ~(errors # {} /\ (sh.lastSent = NoSeq \/ now - sh.lastSent >= RateLimit))
    <3>1. share' = sh
      BY <1>15, <2>2 DEF should_emit_auto_share
    <3>2. errors # {} => \E t \in share'.sent : t <= now /\ now - t < RateLimit
      <4>. SUFFICES ASSUME errors # {} PROVE \E t \in share'.sent : t <= now /\ now - t < RateLimit
        OBVIOUS
      <4>1. sh.lastSent \in Nat /\ sh.lastSent \in sh.sent /\ sh.lastSent <= now
        BY <1>4, <1>14, <2>2 DEF ShareState
      <4>2. now - sh.lastSent < RateLimit
        BY <1>2, <2>2, <4>1
      <4>. QED  BY <3>1, <4>1, <4>2
    <3>. QED  BY <1>1, <1>4, <1>14, <3>1, <3>2
  <2>. QED  BY <2>1, <2>2
<1>17. ASSUME NEW s \in start .. e, s # 0, Level(s)' = "error" PROVE Announced(s)'
  <2>1. Level(s) = "error" /\ s \in Nat
    BY <1>1, <1>17 DEF Level
  <2>2. CASE s <= k
    <3>1. Announced(s)
      BY <1>4, <1>17, <2>1, <2>2
    <3>2. PICK x \in share.read, t \in share.sent : x[1] = s /\ t <= x[2] /\ x[2] - t < RateLimit
      BY <3>1 DEF Announced
    <3>3. x \in share'.read /\ t \in share'.sent
      BY <1>13, <1>16
    <3>. QED  BY <3>2, <3>3 DEF Announced
  <2>3. CASE s > k
    <3>1. s \in page
      BY <1>6, <1>8, <1>17, <2>1, <2>3
    <3>2. s \in errors
      BY <1>12, <2>1, <3>1
    <3>3. PICK t \in share'.sent : t <= now /\ now - t < RateLimit
      BY <1>16, <3>2
    <3>4. <<s, now>> \in share'.read /\ <<s, now>>[1] = s /\ <<s, now>>[2] = now
      BY <1>13, <1>16, <3>2
    <3>. QED  BY <3>3, <3>4 DEF Announced
  <2>. QED  BY <2>1, <2>2, <2>3
<1>18. ShareInv'
  BY <1>1, <1>9, <1>11, <1>16, <1>17 DEF ShareInv
<1>. QED  BY <1>1, <1>16, <1>18, MonitorMoves

-----------------------------------------------------------------------------
LEMMA QueryInitInv ==
  ASSUME QueryInit, QueryAssumption
  PROVE  QueryInv
<1>1. PICK group \in ReaderGroups :
        at = [r \in Readers |-> IF r \in group THEN "idle" ELSE "absent"]
  BY DEF QueryInit
<1>2. at \in [Readers -> ReaderAt] /\ \A r \in Readers : at[r] # "clear"
  BY <1>1 DEF ReaderAt
<1>3. /\ log = <<>> /\ indexed = 0 /\ gate = NoReader
      /\ follow = [after |-> NoSeq, tail |-> InitialTail, first |-> {}, later |-> <<>>]
      /\ share = [begun |-> FALSE, cursor |-> 0, start |-> 0, lastSent |-> NoSeq,
                  sent |-> {}, read |-> {}, polled |-> 0]
      /\ facetCache = NoSeq /\ facetVersion = [v \in Viewers |-> 0] /\ now = 0 /\ staleInsert = FALSE
  BY DEF QueryInit
<1>4. /\ <<>> \in Seq(LogLine) /\ Len(<<>>) = 0 /\ <<>> \in Seq(Nat)
      /\ InitialTail \in Nat
  BY EmptySeq DEF QueryAssumption
<1>5. follow \in [after : Nat \cup {NoSeq}, tail : Nat, first : SUBSET Nat, later : Seq(Nat)]
  BY <1>3, <1>4
<1>6. share \in [begun : BOOLEAN, cursor : Nat, start : Nat, lastSent : Nat \cup {NoSeq},
                 sent : SUBSET Nat, read : SUBSET (Nat \X Nat), polled : Nat]
  BY <1>3
<1>7. log \in Seq(LogLine) /\ indexed \in 0 .. Len(log)
  BY <1>3, <1>4
<1>8. QueryTypeOK
  BY <1>2, <1>3, <1>5, <1>6, <1>7 DEF QueryTypeOK
<1>9. FollowInv /\ GateInv /\ FacetsAreFresh
  BY <1>2, <1>3 DEF FollowInv, GateInv, FacetsAreFresh
<1>10. ShareInv
  BY <1>3 DEF ShareInv
<1>. QED  BY <1>8, <1>9, <1>10 DEF QueryInv

LEMMA QueryStutter ==
  ASSUME QueryInv, UNCHANGED queryVars
  PROVE  QueryInv'
BY DEF queryVars, QueryInv, QueryTypeOK, GateInv, FollowInv, ShareInv, FacetsAreFresh, Announced, Level

\* Every reachable state of the readers is in order.
LEMMA QueriesInOrder == QuerySpec => []QueryInv
<1>. USE QueryAssumption
<1>1. QueryInit => QueryInv
  BY QueryInitInv
<1>2. QueryInv /\ [QueryNext]_queryVars => QueryInv'
  <2>. SUFFICES ASSUME QueryInv, [QueryNext]_queryVars PROVE QueryInv'
    OBVIOUS
  <2>1. ASSUME NEW level \in {"error", "info"}, NEW ts \in 1 .. MaxTs, WriteLine(level, ts)
        PROVE  QueryInv'
    BY <2>1, WriteStep
  <2>2. CASE Tick \/ FollowPage
    BY <2>2, TickStep, FollowStep
  <2>3. ASSUME NEW r \in Readers, Ask(r) \/ ingest_sources(r) \/ clear_facet_cache(r) PROVE QueryInv'
    BY <2>3, AskStep, IngestStep, ClearStep
  <2>4. CASE fetch_latest_service_cursor \/ run_auto_share_monitor \/ FetchFails
    BY <2>4, FetchStep, PollStep, FetchFailsStep
  <2>5. ASSUME NEW v \in Viewers, query_view(v) PROVE QueryInv'
    BY <2>5, FacetStep
  <2>6. CASE UNCHANGED queryVars
    BY <2>6, QueryStutter
  <2>. QED  BY <2>1, <2>2, <2>3, <2>4, <2>5, <2>6, Zenon DEF QueryNext
<1>. QED  BY <1>1, <1>2, PTL DEF QuerySpec

(***************************************************************************)
(* stream_service_logs_api, for any log, page length and first page: the   *)
(* lines after the first page come once and in the order of the file.      *)
(***************************************************************************)
THEOREM FollowerMissesNothing == QuerySpec => []FollowIsGapless
<1>1. QueryInv => FollowIsGapless
  BY DEF QueryInv, FollowInv, FollowIsGapless, Count
<1>. QED  BY <1>1, QueriesInOrder, PTL

(***************************************************************************)
(* run_auto_share_monitor, for any page length and rate limit: an error    *)
(* that a complete poll covers was read, and a message went out then or    *)
(* less than the rate limit before.                                        *)
(***************************************************************************)
THEOREM ErrorsAreAnnounced == QuerySpec => []LaterErrorsAreAnnounced
<1>1. QueryInv => LaterErrorsAreAnnounced
  <2>. SUFFICES ASSUME QueryInv, NEW s \in share.start .. (share.polled - 1),
                       Level(s) = "error", s # 0
                PROVE  Announced(s)
    BY DEF LaterErrorsAreAnnounced, Announced
  <2>1. share.start \in Nat /\ share.polled \in Nat /\ share.cursor \in Nat
    BY DEF QueryInv, QueryTypeOK
  <2>2. s \in share.start .. share.cursor
    BY <2>1 DEF QueryInv, ShareInv
  <2>. QED  BY <2>2 DEF QueryInv, ShareInv
<1>. QED  BY <1>1, QueriesInOrder, PTL

(***************************************************************************)
(* clear_facet_cache, for any number of queries: facets that are cached    *)
(* are those of the index, but for an insert that was outdated.            *)
(***************************************************************************)
THEOREM CachedFacetsAreFresh == QuerySpec => []FacetsAreFresh
<1>1. QueryInv => FacetsAreFresh
  BY DEF QueryInv
<1>. QED  BY <1>1, QueriesInOrder, PTL
=============================================================================
