-------------------------- MODULE Services_proofs --------------------------
(***************************************************************************)
(* What the daemon keeps of a service and its run, for any number of keys, *)
(* requests, handles, writers and edits: watchers, capture proxies and     *)
(* manifests.                                                              *)
(***************************************************************************)
EXTENDS Watchers, ApiCapture, Manifests, FiniteSetTheorems, TLAPS

(***************************************************************************)
(* Watchers.  A handle belongs to the key it was born for, in the record   *)
(* as in the hands of a sync call; a record is up to date, or its watcher  *)
(* still has something to do; and a watcher about to decide has hashed the *)
(* latest files or has been told of a later edit.                          *)
(***************************************************************************)
Born(h, k) == wh[h].key = k /\ wh[h].at # "unborn"

NamesInv ==
    /\ \A h \in WatchHandles : wh[h].at # "unborn" => wh[h].key \in WatchKeys
    /\ \A k \in WatchKeys :
         /\ wrec[k].handle # NoHandle => wrec[k].present /\ Born(wrec[k].handle, k)
         /\ ~wrec[k].present => ~wrec[k].auto
    /\ \A c \in WatchCallers : wcall[c].at = "store" =>
         /\ wcall[c].key \in WatchKeys /\ wcall[c].handle # NoHandle
         /\ Born(wcall[c].handle, wcall[c].key)

UpToDate(k) == missed[k] \/ wrec[k].hash = wfiles[k]
Busy(h) == wh[h].events \/ wh[h].pending \/ wh[h].at \in {"decide", "ended"}

EditInv ==
    /\ \A h \in WatchHandles :
         wh[h].at = "decide" => wh[h].events \/ wh[h].hash = wfiles[wh[h].key]
    /\ \A k \in WatchKeys :
         wrec[k].present => UpToDate(k) \/ (wrec[k].handle # NoHandle /\ Busy(wrec[k].handle))

WatchInv == WatchTypeOK /\ NamesInv /\ EditInv /\ NoStrayWatcher

HandleKept(g) ==
    /\ wh'[g].key = wh[g].key /\ wh'[g].at = wh[g].at /\ wh'[g].hash = wh[g].hash
    /\ wh'[g].events = wh[g].events /\ wh'[g].pending = wh[g].pending

LEMMA FlagsOf ==
    ASSUME WatchTypeOK, NEW k \in WatchKeys
    PROVE  /\ wh' = stop_watch(k) =>
                /\ wh' \in [WatchHandles -> WatchHandle]
                /\ \A g \in WatchHandles :
                     /\ HandleKept(g) /\ wh'[g].left = wh[g].left
                     /\ (wh[g].stop \/ g = wrec[k].handle => wh'[g].stop)
           /\ \A paused \in BOOLEAN : wh' = Flag(k, paused) =>
                /\ wh' \in [WatchHandles -> WatchHandle]
                /\ \A g \in WatchHandles :
                     HandleKept(g) /\ wh'[g].left = wh[g].left /\ wh'[g].stop = wh[g].stop
           /\ wh' = [h \in WatchHandles |-> IF h = wrec[k].handle
                                              THEN [wh[h] EXCEPT !.left = TRUE] ELSE wh[h]] =>
                /\ wh' \in [WatchHandles -> WatchHandle]
                /\ \A g \in WatchHandles :
                     /\ HandleKept(g) /\ wh'[g].stop = wh[g].stop
                     /\ (wh[g].left \/ g = wrec[k].handle => wh'[g].left)
<1>1. ASSUME wh' = stop_watch(k)
      PROVE  /\ wh' \in [WatchHandles -> WatchHandle]
             /\ \A g \in WatchHandles :
                  /\ HandleKept(g) /\ wh'[g].left = wh[g].left
                  /\ (wh[g].stop \/ g = wrec[k].handle => wh'[g].stop)
  <2>1. \A g \in WatchHandles :
          wh'[g] = IF g = wrec[k].handle THEN [wh[g] EXCEPT !.stop = TRUE] ELSE wh[g]
    BY <1>1 DEF stop_watch
  <2>2. ASSUME NEW g \in WatchHandles
        PROVE  /\ wh'[g] \in WatchHandle /\ HandleKept(g) /\ wh'[g].left = wh[g].left
               /\ (wh[g].stop \/ g = wrec[k].handle => wh'[g].stop)
    <3> DEFINE new == [wh[g] EXCEPT !.stop = TRUE]
    <3>1. /\ new \in WatchHandle /\ new.key = wh[g].key /\ new.at = wh[g].at
          /\ new.hash = wh[g].hash /\ new.events = wh[g].events
          /\ new.pending = wh[g].pending /\ new.left = wh[g].left /\ new.stop
      BY DEF WatchTypeOK, WatchHandle
    <3>2. wh'[g] = IF g = wrec[k].handle THEN new ELSE wh[g]
      BY <2>1
    <3> HIDE DEF new
    <3> QED
      BY <3>1, <3>2 DEF HandleKept, WatchTypeOK
  <2> QED
    BY <1>1, <2>2 DEF stop_watch
<1>2. ASSUME NEW paused \in BOOLEAN, wh' = Flag(k, paused)
      PROVE  /\ wh' \in [WatchHandles -> WatchHandle]
             /\ \A g \in WatchHandles :
                  HandleKept(g) /\ wh'[g].left = wh[g].left /\ wh'[g].stop = wh[g].stop
  BY <1>2 DEF Flag, WatchTypeOK, WatchHandle, HandleKept
<1>3. ASSUME wh' = [h \in WatchHandles |-> IF h = wrec[k].handle
                                             THEN [wh[h] EXCEPT !.left = TRUE] ELSE wh[h]]
      PROVE  /\ wh' \in [WatchHandles -> WatchHandle]
             /\ \A g \in WatchHandles :
                  /\ HandleKept(g) /\ wh'[g].stop = wh[g].stop
                  /\ (wh[g].left \/ g = wrec[k].handle => wh'[g].left)
  <2>1. ASSUME NEW g \in WatchHandles
        PROVE  /\ wh'[g] \in WatchHandle /\ HandleKept(g) /\ wh'[g].stop = wh[g].stop
               /\ (wh[g].left \/ g = wrec[k].handle => wh'[g].left)
    <3> DEFINE new == [wh[g] EXCEPT !.left = TRUE]
    <3>1. /\ new \in WatchHandle /\ new.key = wh[g].key /\ new.at = wh[g].at
          /\ new.hash = wh[g].hash /\ new.events = wh[g].events
          /\ new.pending = wh[g].pending /\ new.stop = wh[g].stop /\ new.left
      BY DEF WatchTypeOK, WatchHandle
    <3>2. wh'[g] = IF g = wrec[k].handle THEN new ELSE wh[g]
      BY <1>3
    <3> HIDE DEF new
    <3> QED
      BY <3>1, <3>2 DEF HandleKept, WatchTypeOK
  <2> QED
    BY <1>3, <2>1
<1> QED
  BY <1>1, <1>2, <1>3

\* A command, or the first lock of a sync: one record and flags of its handle.
LEMMA CommandStep ==
    ASSUME WatchInv, NEW c \in WatchCallers, NEW k \in WatchKeys, NEW r \in WatchRecord,
           wrec' = [wrec EXCEPT ![k] = r],
           wh' \in [WatchHandles -> WatchHandle], \A g \in WatchHandles : HandleKept(g),
           wcall' \in [WatchCallers -> WatchCall],
           \A d \in WatchCallers \ {c} : wcall'[d] = wcall[d],
           wcall[c].at # "store", wcall'[c].at # "store",
           wfiles' = wfiles,
           missed' \in [WatchKeys -> BOOLEAN],
           \A q \in WatchKeys \ {k} : missed'[q] = missed[q],
           ~r.present => ~r.auto,
           \/ /\ r.handle = wrec[k].handle /\ r.present = wrec[k].present
              /\ r.hash = wrec[k].hash /\ missed'[k] = missed[k]
              /\ \A g \in WatchHandles : wh'[g].stop = wh[g].stop /\ wh'[g].left = wh[g].left
           \/ /\ r.handle = NoHandle
              /\ r.present => missed'[k] \/ r.hash = wfiles[k]
              /\ \A g \in WatchHandles :
                   /\ wh[g].stop => wh'[g].stop
                   /\ wh[g].left => wh'[g].left
                   /\ g = wrec[k].handle => wh'[g].stop \/ wh'[g].left
    PROVE  WatchInv'
<1> USE DEF WatchInv
<1>1. wrec'[k] = r /\ \A q \in WatchKeys \ {k} : wrec'[q] = wrec[q]
  BY DEF WatchTypeOK
<1>2. WatchTypeOK'
  BY DEF WatchTypeOK
<1>3. \A q \in WatchKeys : wrec[q].handle \in WatchHandles \cup {NoHandle}
  BY DEF WatchTypeOK, WatchRecord
<1>4. \A d \in WatchCallers : wcall[d].handle \in WatchHandles \cup {NoHandle}
  BY DEF WatchTypeOK, WatchCall
<1>5. \A h \in WatchHandles, q \in WatchKeys : Born(h, q) => Born(h, q)'
  BY DEF Born, HandleKept
<1>6. NamesInv'
  <2>1. ASSUME NEW h \in WatchHandles, wh'[h].at # "unborn" PROVE wh'[h].key \in WatchKeys
    BY <2>1 DEF NamesInv, HandleKept
  <2>2. ASSUME NEW q \in WatchKeys
        PROVE  /\ wrec'[q].handle # NoHandle => wrec'[q].present /\ Born(wrec[q].handle, q)'
               /\ ~wrec'[q].present => ~wrec'[q].auto
    <3>1. CASE q # k
      BY <1>1, <1>3, <1>5, <3>1 DEF NamesInv
    <3>2. CASE q = k
      BY <1>1, <1>3, <1>5, <3>2 DEF NamesInv
    <3> QED
      BY <3>1, <3>2
  <2>3. ASSUME NEW d \in WatchCallers, wcall'[d].at = "store"
        PROVE  /\ wcall'[d].key \in WatchKeys /\ wcall'[d].handle # NoHandle
               /\ Born(wcall[d].handle, wcall[d].key)'
    <3>1. d # c /\ wcall'[d] = wcall[d]
      BY <2>3
    <3> QED
      BY <1>4, <1>5, <2>3, <3>1 DEF NamesInv
  <2> QED
    BY <2>1, <2>2, <2>3 DEF NamesInv
<1>7. EditInv'
  <2>1. ASSUME NEW h \in WatchHandles, wh'[h].at = "decide"
        PROVE  wh'[h].events \/ wh'[h].hash = wfiles'[wh'[h].key]
    BY <2>1 DEF EditInv, HandleKept
  <2>2. \A h \in WatchHandles : Busy(h) => Busy(h)'
    BY DEF Busy, HandleKept
  <2>3. ASSUME NEW q \in WatchKeys, wrec'[q].present
        PROVE  UpToDate(q)' \/ (wrec'[q].handle # NoHandle /\ Busy(wrec[q].handle)')
    <3>1. CASE q # k
      BY <1>1, <1>3, <2>2, <2>3, <3>1 DEF EditInv, UpToDate
    <3>2. CASE q = k
      BY <1>1, <1>3, <2>2, <2>3, <3>2 DEF EditInv, UpToDate
    <3> QED
      BY <3>1, <3>2
  <2> QED
    BY <2>1, <2>3 DEF EditInv
<1>8. NoStrayWatcher'
  <2> SUFFICES ASSUME NEW h \in WatchHandles, Live(h)', ~wh'[h].stop
               PROVE  \/ wrec'[wh'[h].key].handle = h
                      \/ \E d \in WatchCallers : wcall'[d].at = "store" /\ wcall'[d].handle = h
                      \/ wh'[h].left
    BY DEF NoStrayWatcher
  <2>1. Live(h) /\ wh[h].key \in WatchKeys /\ wh'[h].key = wh[h].key /\ HandleKept(h)
    BY DEF Live, HandleKept, NamesInv
  <2>2. ~wh[h].stop
    OBVIOUS
  <2>3. CASE wrec[wh[h].key].handle = h
    BY <1>1, <2>1, <2>3
  <2>4. CASE wh[h].left
    BY <2>4
  <2>5. CASE \E d \in WatchCallers : wcall[d].at = "store" /\ wcall[d].handle = h
    BY <2>5
  <2> QED
    BY <2>1, <2>2, <2>3, <2>4, <2>5 DEF NoStrayWatcher
<1> QED
  BY <1>2, <1>6, <1>7, <1>8

LEMMA CommandsWatch ==
    ASSUME WatchInv, NEW c \in WatchCallers, WatchCommand(c)
    PROVE  WatchInv'
<1> USE DEF WatchInv
<1>1. PICK k \in WatchKeys :
        \/ \E auto, started \in BOOLEAN, v \in 1..MaxVersion : StoreLaunch(c, k, auto, started, v)
        \/ \E auto \in BOOLEAN : apply_prepared_to_runtime(c, k, auto)
        \/ pause_watch(c, k) \/ resume_watch(c, k)
        \/ stop_service_handles(c, k) \/ DropRecord(c, k)
  BY DEF WatchCommand
<1>2. wrec[k] \in WatchRecord /\ wcall[c].at = "idle" /\ wfiles' = wfiles
  BY <1>1 DEF WatchTypeOK, StoreLaunch, apply_prepared_to_runtime, pause_watch, resume_watch,
     stop_service_handles, DropRecord, MayCommand
<1>3. /\ wcall' \in [WatchCallers -> WatchCall] /\ wcall'[c].at # "store"
      /\ \A d \in WatchCallers \ {c} : wcall'[d] = wcall[d]
  <2> DEFINE new == [IdleCaller EXCEPT !.at = "check", !.key = k]
  <2>1. new \in WatchCall /\ new.at = "check"
    BY DEF IdleCaller, WatchCall
  <2>2. wcall' = [wcall EXCEPT ![c] = new] \/ wcall' = wcall
    BY <1>1 DEF StoreLaunch, apply_prepared_to_runtime, pause_watch, resume_watch,
       stop_service_handles, DropRecord, Syncs
  <2> HIDE DEF new
  <2> QED
    BY <1>2, <2>1, <2>2 DEF WatchTypeOK
<1>4. ASSUME NEW auto \in BOOLEAN, NEW started \in BOOLEAN, NEW v \in 1..MaxVersion,
             StoreLaunch(c, k, auto, started, v)
      PROVE  WatchInv'
  <2>1. PICK paused \in BOOLEAN :
          wrec' = [wrec EXCEPT ![k] = [present |-> TRUE, auto |-> auto, started |-> started,
                                       paused |-> paused, hash |-> v, handle |-> NoHandle]]
    BY <1>4 DEF StoreLaunch
  <2> DEFINE r == [present |-> TRUE, auto |-> auto, started |-> started,
                   paused |-> paused, hash |-> v, handle |-> NoHandle]
  <2>2. r \in WatchRecord /\ r.present /\ r.handle = NoHandle /\ r.hash = v
    BY WatchAssumption DEF WatchRecord
  <2>3. wrec' = [wrec EXCEPT ![k] = r]
    BY <2>1
  <2> HIDE DEF r
  <2>4. /\ missed' \in [WatchKeys -> BOOLEAN] /\ missed'[k] = (v # wfiles[k])
        /\ \A q \in WatchKeys \ {k} : missed'[q] = missed[q]
    BY <1>4 DEF StoreLaunch, WatchTypeOK
  <2>5. /\ wh' \in [WatchHandles -> WatchHandle]
        /\ \A g \in WatchHandles :
             /\ HandleKept(g) /\ wh'[g].left = wh[g].left
             /\ (wh[g].stop \/ g = wrec[k].handle => wh'[g].stop)
    BY <1>4, FlagsOf DEF StoreLaunch
  <2> QED
    BY <1>2, <1>3, <2>2, <2>3, <2>4, <2>5, CommandStep
<1>5. ASSUME NEW f \in BOOLEAN,
             \/ wrec' = [wrec EXCEPT ![k].auto = f] /\ wh' = wh /\ wrec[k].present
             \/ /\ wrec' = [wrec EXCEPT ![k].paused = f]
                /\ wh' = Flag(k, f) /\ wrec[k].present,
             missed' = missed
      PROVE  WatchInv'
  <2>1. PICK r \in {[wrec[k] EXCEPT !.auto = f], [wrec[k] EXCEPT !.paused = f]} :
          wrec' = [wrec EXCEPT ![k] = r]
    BY <1>5
  <2>2. r \in WatchRecord /\ r.present = wrec[k].present /\ r.handle = wrec[k].handle
        /\ r.hash = wrec[k].hash
    BY <1>2, <2>1 DEF WatchRecord
  <2>3. /\ wh' \in [WatchHandles -> WatchHandle]
        /\ \A g \in WatchHandles :
             HandleKept(g) /\ wh'[g].left = wh[g].left /\ wh'[g].stop = wh[g].stop
    BY <1>5, FlagsOf DEF WatchTypeOK, HandleKept
  <2>4. missed' \in [WatchKeys -> BOOLEAN]
    BY <1>5 DEF WatchTypeOK
  <2> QED
    BY <1>2, <1>3, <1>5, <2>1, <2>2, <2>3, <2>4, CommandStep
<1>6. CASE stop_service_handles(c, k)
  <2> DEFINE r == [wrec[k] EXCEPT !.handle = NoHandle]
  <2>1. wrec' = [wrec EXCEPT ![k] = r] /\ wh' = stop_watch(k) /\ missed' = Overdue(k)
    BY <1>6 DEF stop_service_handles
  <2>2. r \in WatchRecord /\ r.present = wrec[k].present /\ r.handle = NoHandle
        /\ r.hash = wrec[k].hash /\ r.auto = wrec[k].auto
    BY <1>2 DEF WatchRecord
  <2> HIDE DEF r
  <2>3. /\ missed' \in [WatchKeys -> BOOLEAN] /\ (missed'[k] \/ wrec[k].hash = wfiles[k])
        /\ \A q \in WatchKeys \ {k} : missed'[q] = missed[q]
    BY <2>1 DEF Overdue, WatchTypeOK
  <2>4. ~r.present => ~r.auto
    BY <2>2 DEF NamesInv
  <2>5. /\ wh' \in [WatchHandles -> WatchHandle]
        /\ \A g \in WatchHandles :
             /\ HandleKept(g) /\ wh'[g].left = wh[g].left
             /\ (wh[g].stop \/ g = wrec[k].handle => wh'[g].stop)
    BY <2>1, FlagsOf
  <2> QED
    BY <1>2, <1>3, <2>1, <2>2, <2>3, <2>4, <2>5, CommandStep
<1>7. CASE DropRecord(c, k)
  <2>1. NoRecord \in WatchRecord /\ ~NoRecord.present /\ ~NoRecord.auto /\ NoRecord.handle = NoHandle
    BY DEF NoRecord, WatchRecord
  <2>2. wrec' = [wrec EXCEPT ![k] = NoRecord] /\ missed' = missed
    BY <1>7 DEF DropRecord
  <2>3. /\ wh' \in [WatchHandles -> WatchHandle]
        /\ \A g \in WatchHandles :
             /\ HandleKept(g) /\ wh'[g].stop = wh[g].stop
             /\ (wh[g].left \/ g = wrec[k].handle => wh'[g].left)
    BY <1>7, FlagsOf DEF DropRecord
  <2>4. missed' \in [WatchKeys -> BOOLEAN]
    BY <2>2 DEF WatchTypeOK
  <2> QED
    BY <1>2, <1>3, <2>1, <2>2, <2>3, <2>4, CommandStep
<1>8. CASE \E auto \in BOOLEAN : apply_prepared_to_runtime(c, k, auto)
  BY <1>5, <1>8 DEF apply_prepared_to_runtime, MayCommand
<1>9. CASE pause_watch(c, k) \/ resume_watch(c, k)
  BY <1>5, <1>9 DEF pause_watch, resume_watch, MayCommand
<1> QED
  BY <1>1, <1>4, <1>6, <1>7, <1>8, <1>9

LEMMA HandleFlags ==
    ASSUME NEW t \in WatchHandle, NEW p \in BOOLEAN,
           NEW n \in {[t EXCEPT !.paused = p], [t EXCEPT !.stop = TRUE]}
    PROVE  /\ n \in WatchHandle /\ n.key = t.key /\ n.at = t.at /\ n.hash = t.hash
           /\ n.events = t.events /\ n.pending = t.pending /\ n.left = t.left
           /\ (t.stop => n.stop)
<1>1. CASE n = [t EXCEPT !.paused = p]
  BY <1>1 DEF WatchHandle
<1>2. CASE n = [t EXCEPT !.stop = TRUE]
  BY <1>2 DEF WatchHandle
<1> QED
  BY <1>1, <1>2

LEMMA SyncCheckWatch ==
    ASSUME WatchInv, NEW c \in WatchCallers, NEW k \in WatchKeys, SyncCheck(c, k)
    PROVE  WatchInv'
<1> USE DEF WatchInv
<1>1. wrec[k] \in WatchRecord /\ wcall[c].at = "check" /\ wcall[c].key = k /\ wfiles' = wfiles
  BY DEF WatchTypeOK, SyncCheck
<1>2. ASSUME wcall' = Returns(c)
      PROVE  /\ wcall' \in [WatchCallers -> WatchCall] /\ wcall'[c].at # "store"
             /\ \A d \in WatchCallers \ {c} : wcall'[d] = wcall[d]
  <2>1. IdleCaller \in WatchCall /\ IdleCaller.at = "idle"
    BY DEF IdleCaller, WatchCall
  <2> QED
    BY <1>2, <2>1 DEF Returns, WatchTypeOK
<1>3. CASE /\ wrec[k].present /\ ~(wrec[k].auto /\ wrec[k].started)
           /\ wrec' = [wrec EXCEPT ![k].handle = NoHandle]
           /\ wh' = stop_watch(k) /\ missed' = Overdue(k) /\ wcall' = Returns(c)
  <2> DEFINE r == [wrec[k] EXCEPT !.handle = NoHandle]
  <2>1. wrec' = [wrec EXCEPT ![k] = r]
    BY <1>3
  <2>2. r \in WatchRecord /\ r.present = wrec[k].present /\ r.handle = NoHandle
        /\ r.hash = wrec[k].hash /\ r.auto = wrec[k].auto
    BY <1>1 DEF WatchRecord
  <2> HIDE DEF r
  <2>3. /\ missed' \in [WatchKeys -> BOOLEAN] /\ (missed'[k] \/ wrec[k].hash = wfiles[k])
        /\ \A q \in WatchKeys \ {k} : missed'[q] = missed[q]
    BY <1>3 DEF Overdue, WatchTypeOK
  <2>4. /\ wh' \in [WatchHandles -> WatchHandle]
        /\ \A g \in WatchHandles :
             /\ HandleKept(g) /\ wh'[g].left = wh[g].left
             /\ (wh[g].stop \/ g = wrec[k].handle => wh'[g].stop)
    BY <1>3, FlagsOf
  <2>5. /\ wcall' \in [WatchCallers -> WatchCall] /\ wcall'[c].at # "store"
        /\ \A d \in WatchCallers \ {c} : wcall'[d] = wcall[d]
    BY <1>2, <1>3
  <2>6. wcall[c].at # "store" /\ (~r.present => ~r.auto)
    BY <1>1, <1>3, <2>2
  <2> QED
    BY <1>1, <2>1, <2>2, <2>3, <2>4, <2>5, <2>6, CommandStep
<1>4. CASE /\ wrec' = wrec /\ missed' = missed /\ wcall' = Returns(c)
           /\ wh' = wh \/ wh' = Flag(k, wrec[k].paused)
  <2>1. wrec' = [wrec EXCEPT ![k] = wrec[k]] /\ missed' \in [WatchKeys -> BOOLEAN]
    BY <1>4 DEF WatchTypeOK
  <2>2. wrec[k].paused \in BOOLEAN
    BY <1>1 DEF WatchRecord
  <2>3. /\ wh' \in [WatchHandles -> WatchHandle]
        /\ \A g \in WatchHandles :
             HandleKept(g) /\ wh'[g].left = wh[g].left /\ wh'[g].stop = wh[g].stop
    BY <1>4, <2>2, FlagsOf DEF WatchTypeOK, HandleKept
  <2>4. ~wrec[k].present => ~wrec[k].auto
    BY DEF NamesInv
  <2>5. /\ wcall' \in [WatchCallers -> WatchCall] /\ wcall'[c].at # "store"
        /\ \A d \in WatchCallers \ {c} : wcall'[d] = wcall[d]
    BY <1>2, <1>4
  <2>6. wcall[c].at # "store" /\ \A q \in WatchKeys : missed'[q] = missed[q]
    BY <1>1, <1>4
  <2> QED
    BY <1>1, <2>1, <2>3, <2>4, <2>5, <2>6, CommandStep
<1>5. ASSUME NEW h \in WatchHandles, wh[h].at = "unborn",
             wh' = [wh EXCEPT ![h] = [UnbornHandle EXCEPT !.key = k, !.at = "head",
                                                          !.paused = wrec[k].paused]],
             wcall' = [wcall EXCEPT ![c].at = "store", ![c].handle = h],
             UNCHANGED <<wrec, missed>>
      PROVE  WatchInv'
  <2> DEFINE new == [UnbornHandle EXCEPT !.key = k, !.at = "head", !.paused = wrec[k].paused]
             call == [wcall[c] EXCEPT !.at = "store", !.handle = h]
  <2>1. new \in WatchHandle /\ new.at = "head" /\ new.key = k
    BY <1>1 DEF UnbornHandle, WatchHandle, WatchRecord
  <2>2. call \in WatchCall /\ call.at = "store" /\ call.handle = h /\ call.key = k
    BY <1>1 DEF WatchCall, WatchTypeOK
  <2>3. wh' = [wh EXCEPT ![h] = new] /\ wcall' = [wcall EXCEPT ![c] = call]
    BY <1>5
  <2> HIDE DEF new, call
  <2>4. WatchTypeOK'
    <3>1. wh' \in [WatchHandles -> WatchHandle]
      BY <2>1, <2>3 DEF WatchTypeOK
    <3>2. wcall' \in [WatchCallers -> WatchCall]
      BY <2>2, <2>3 DEF WatchTypeOK
    <3> QED
      BY <1>1, <1>5, <3>1, <3>2 DEF WatchTypeOK
  <2>5. /\ wh'[h] = new /\ \A g \in WatchHandles \ {h} : wh'[g] = wh[g]
        /\ wcall'[c] = call /\ \A d \in WatchCallers \ {c} : wcall'[d] = wcall[d]
    BY <2>3 DEF WatchTypeOK
  <2>6. \A g \in WatchHandles : \A q : Born(g, q) => g # h /\ wh'[g] = wh[g]
    BY <1>5, <2>5 DEF Born
  <2>7. \A q \in WatchKeys : wrec[q].handle \in WatchHandles \cup {NoHandle}
    BY DEF WatchTypeOK, WatchRecord
  <2>8. \A d \in WatchCallers : wcall[d].handle \in WatchHandles \cup {NoHandle}
    BY DEF WatchTypeOK, WatchCall
  <2>9. NamesInv'
    <3>1. ASSUME NEW g \in WatchHandles, wh'[g].at # "unborn" PROVE wh'[g].key \in WatchKeys
      BY <2>1, <2>5, <3>1 DEF NamesInv
    <3>2. ASSUME NEW q \in WatchKeys
          PROVE  /\ wrec'[q].handle # NoHandle => wrec'[q].present /\ Born(wrec[q].handle, q)'
                 /\ ~wrec'[q].present => ~wrec'[q].auto
      BY <1>5, <2>6, <2>7 DEF NamesInv, Born
    <3>3. ASSUME NEW d \in WatchCallers, wcall'[d].at = "store"
          PROVE  /\ wcall'[d].key \in WatchKeys /\ wcall'[d].handle # NoHandle
                 /\ Born(wcall[d].handle, wcall[d].key)'
      <4>1. CASE d = c
        BY <2>1, <2>2, <2>5, <4>1, WatchAssumption DEF Born
      <4>2. CASE d # c
        BY <2>5, <2>6, <2>8, <3>3, <4>2 DEF NamesInv, Born
      <4> QED
        BY <4>1, <4>2
    <3> QED
      BY <3>1, <3>2, <3>3 DEF NamesInv
  <2>10. EditInv'
    <3>1. ASSUME NEW g \in WatchHandles, wh'[g].at = "decide"
          PROVE  wh'[g].events \/ wh'[g].hash = wfiles'[wh'[g].key]
      BY <1>1, <2>1, <2>5, <3>1 DEF EditInv
    <3>2. ASSUME NEW q \in WatchKeys, wrec'[q].present
          PROVE  UpToDate(q)' \/ (wrec'[q].handle # NoHandle /\ Busy(wrec[q].handle)')
      <4>1. wrec[q].handle # NoHandle => wh'[wrec[q].handle] = wh[wrec[q].handle]
        BY <2>6, <2>7 DEF NamesInv
      <4> QED
        BY <1>1, <1>5, <3>2, <4>1 DEF EditInv, UpToDate, Busy
    <3> QED
      BY <3>1, <3>2 DEF EditInv
  <2>11. NoStrayWatcher'
    <3> SUFFICES ASSUME NEW g \in WatchHandles, Live(g)', ~wh'[g].stop
                 PROVE  \/ wrec'[wh'[g].key].handle = g
                        \/ \E d \in WatchCallers : wcall'[d].at = "store" /\ wcall'[d].handle = g
                        \/ wh'[g].left
      BY DEF NoStrayWatcher
    <3>1. CASE g = h
      BY <2>2, <2>5, <3>1
    <3>2. CASE g # h
      <4>1. wh'[g] = wh[g] /\ Live(g) /\ ~wh[g].stop
        BY <2>5, <3>2 DEF Live
      <4>2. CASE \E d \in WatchCallers : wcall[d].at = "store" /\ wcall[d].handle = g
        BY <1>1, <2>5, <4>2
      <4> QED
        BY <1>5, <4>1, <4>2 DEF NoStrayWatcher
    <3> QED
      BY <3>1, <3>2
  <2> QED
    BY <2>4, <2>9, <2>10, <2>11
<1> QED
  BY <1>3, <1>4, <1>5 DEF SyncCheck

LEMMA SyncStoreWatch ==
    ASSUME WatchInv, NEW c \in WatchCallers, NEW k \in WatchKeys, SyncStore(c, k)
    PROVE  WatchInv'
<1> USE DEF WatchInv
<1> DEFINE h == wcall[c].handle
<1>1. wrec[k] \in WatchRecord /\ wcall[c].at = "store" /\ wcall[c].key = k
      /\ UNCHANGED <<wfiles, missed>>
  BY DEF WatchTypeOK, SyncStore
<1>2. h \in WatchHandles /\ h # NoHandle /\ Born(h, k)
  BY <1>1 DEF NamesInv, WatchTypeOK, WatchCall
<1>3. /\ wcall' \in [WatchCallers -> WatchCall] /\ wcall'[c].at # "store"
      /\ \A d \in WatchCallers \ {c} : wcall'[d] = wcall[d]
  <2>1. IdleCaller \in WatchCall /\ IdleCaller.at = "idle"
    BY DEF IdleCaller, WatchCall
  <2> QED
    BY <2>1 DEF Returns, WatchTypeOK, SyncStore
<1>4. /\ wh' \in [WatchHandles -> WatchHandle]
      /\ \A g \in WatchHandles :
           HandleKept(g) /\ wh'[g].left = wh[g].left /\ (wh[g].stop => wh'[g].stop)
  <2>3. wrec[k].paused \in BOOLEAN
    BY <1>1 DEF WatchRecord
  <2>4. PICK t \in {[wh[h] EXCEPT !.paused = wrec[k].paused], [wh[h] EXCEPT !.stop = TRUE]} :
          wh' = [wh EXCEPT ![h] = t]
    BY DEF SyncStore
  <2>5. /\ t \in WatchHandle /\ t.key = wh[h].key /\ t.at = wh[h].at /\ t.hash = wh[h].hash
        /\ t.events = wh[h].events /\ t.pending = wh[h].pending /\ t.left = wh[h].left
        /\ (wh[h].stop => t.stop)
    <3> DEFINE old == wh[h]
               p == wrec[k].paused
    <3>1. /\ old \in WatchHandle /\ p \in BOOLEAN
          /\ t \in {[old EXCEPT !.paused = p], [old EXCEPT !.stop = TRUE]}
      BY <1>2, <2>3, <2>4 DEF WatchTypeOK
    <3> HIDE DEF old, p
    <3>2. /\ t \in WatchHandle /\ t.key = old.key /\ t.at = old.at /\ t.hash = old.hash
          /\ t.events = old.events /\ t.pending = old.pending /\ t.left = old.left
          /\ (old.stop => t.stop)
      BY <3>1, HandleFlags
    <3> QED
      BY <3>2 DEF old
  <2> QED
    BY <1>2, <2>4, <2>5 DEF HandleKept, WatchTypeOK
<1>5. \/ /\ wrec' = wrec /\ wh'[h].stop
      \/ /\ wrec[k].auto /\ wrec[k].handle = NoHandle
         /\ wrec'[k].handle = h /\ wrec'[k].present = wrec[k].present
         /\ wrec'[k].hash = wrec[k].hash /\ wrec'[k].auto = wrec[k].auto
         /\ \A q \in WatchKeys \ {k} : wrec'[q] = wrec[q]
         /\ wrec' \in [WatchKeys -> WatchRecord]
  <2>1. CASE wrec[k].auto /\ wrec[k].started /\ wrec[k].handle = NoHandle
    <3> DEFINE r == [wrec[k] EXCEPT !.handle = h]
    <3>1. wrec' = [wrec EXCEPT ![k] = r]
      BY <2>1 DEF SyncStore
    <3>2. r \in WatchRecord /\ r.handle = h /\ r.present = wrec[k].present
          /\ r.hash = wrec[k].hash /\ r.auto = wrec[k].auto
      BY <1>1, <1>2 DEF WatchRecord
    <3> HIDE DEF r, h
    <3> QED
      BY <2>1, <3>1, <3>2 DEF WatchTypeOK
  <2>2. CASE ~(wrec[k].auto /\ wrec[k].started /\ wrec[k].handle = NoHandle)
    BY <1>2, <2>2 DEF SyncStore, WatchTypeOK, WatchHandle
  <2> QED
    BY <2>1, <2>2
<1> HIDE DEF h
<1>6. WatchTypeOK'
  BY <1>1, <1>3, <1>4, <1>5 DEF WatchTypeOK
<1>7. \A g \in WatchHandles, q \in WatchKeys : Born(g, q) => Born(g, q)'
  BY <1>4 DEF Born, HandleKept
<1>8. \A q \in WatchKeys : wrec[q].handle \in WatchHandles \cup {NoHandle}
  BY DEF WatchTypeOK, WatchRecord
<1>9. \A d \in WatchCallers : wcall[d].handle \in WatchHandles \cup {NoHandle}
  BY DEF WatchTypeOK, WatchCall
<1>10. NamesInv'
  <2>1. ASSUME NEW g \in WatchHandles, wh'[g].at # "unborn" PROVE wh'[g].key \in WatchKeys
    BY <1>4, <2>1 DEF NamesInv, HandleKept
  <2>2. ASSUME NEW q \in WatchKeys
        PROVE  /\ wrec'[q].handle # NoHandle => wrec'[q].present /\ Born(wrec[q].handle, q)'
               /\ ~wrec'[q].present => ~wrec'[q].auto
    <3>1. CASE wrec'[q] = wrec[q]
      BY <1>7, <1>8, <3>1 DEF NamesInv
    <3>2. CASE q = k /\ wrec[k].auto /\ wrec'[k].handle = h /\ wrec'[k].present = wrec[k].present
      BY <1>2, <1>7, <3>2 DEF NamesInv
    <3> QED
      BY <1>5, <3>1, <3>2
  <2>3. ASSUME NEW d \in WatchCallers, wcall'[d].at = "store"
        PROVE  /\ wcall'[d].key \in WatchKeys /\ wcall'[d].handle # NoHandle
               /\ Born(wcall[d].handle, wcall[d].key)'
    <3>1. d # c /\ wcall'[d] = wcall[d]
      BY <1>3, <2>3
    <3> QED
      BY <1>7, <1>9, <2>3, <3>1 DEF NamesInv
  <2> QED
    BY <2>1, <2>2, <2>3 DEF NamesInv
<1>11. EditInv'
  <2>1. ASSUME NEW g \in WatchHandles, wh'[g].at = "decide"
        PROVE  wh'[g].events \/ wh'[g].hash = wfiles'[wh'[g].key]
    BY <1>1, <1>4, <2>1 DEF EditInv, HandleKept
  <2>2. \A g \in WatchHandles : Busy(g) => Busy(g)'
    BY <1>4 DEF Busy, HandleKept
  <2>3. ASSUME NEW q \in WatchKeys, wrec'[q].present
        PROVE  UpToDate(q)' \/ (wrec'[q].handle # NoHandle /\ Busy(wrec[q].handle)')
    <3>1. CASE wrec'[q] = wrec[q]
      BY <1>1, <1>8, <2>2, <2>3, <3>1 DEF EditInv, UpToDate
    <3>2. CASE /\ q = k /\ wrec[k].handle = NoHandle /\ wrec'[k].hash = wrec[k].hash
               /\ wrec'[k].present = wrec[k].present
      BY <1>1, <2>3, <3>2 DEF EditInv, UpToDate
    <3> QED
      BY <1>5, <3>1, <3>2
  <2> QED
    BY <2>1, <2>3 DEF EditInv
<1>12. NoStrayWatcher'
  <2> SUFFICES ASSUME NEW g \in WatchHandles, Live(g)', ~wh'[g].stop
               PROVE  \/ wrec'[wh'[g].key].handle = g
                      \/ \E d \in WatchCallers : wcall'[d].at = "store" /\ wcall'[d].handle = g
                      \/ wh'[g].left
    BY DEF NoStrayWatcher
  <2>1. /\ Live(g) /\ wh[g].key \in WatchKeys /\ wh'[g].key = wh[g].key
        /\ wh'[g].left = wh[g].left /\ ~wh[g].stop
    BY <1>4 DEF Live, HandleKept, NamesInv
  <2>2. CASE g = h
    BY <1>2, <1>5, <2>1, <2>2 DEF Born
  <2>3. CASE g # h /\ wrec[wh[g].key].handle = g
    BY <1>5, <1>8, <2>1, <2>3, WatchAssumption
  <2>4. CASE wh[g].left
    BY <2>1, <2>4
  <2>5. ASSUME NEW d \in WatchCallers, wcall[d].at = "store", wcall[d].handle = g, g # h
        PROVE  \E e \in WatchCallers : wcall'[e].at = "store" /\ wcall'[e].handle = g
    <3>1. d # c
      BY <2>5 DEF h
    <3> QED
      BY <1>3, <2>5, <3>1
  <2> QED
    BY <2>1, <2>2, <2>3, <2>4, <2>5 DEF NoStrayWatcher
<1> QED
  BY <1>6, <1>10, <1>11, <1>12

\* A round of a watcher's loop: its task moves, records keep their handles.
LEMMA LoopStep ==
    ASSUME WatchInv, NEW h \in WatchHandles, NEW t \in WatchHandle, Live(h),
           wh' = [wh EXCEPT ![h] = t], t.key = wh[h].key, t.stop = wh[h].stop,
           t.left = wh[h].left, t.at # "unborn",
           UNCHANGED <<wcall, wfiles>>,
           wrec' \in [WatchKeys -> WatchRecord],
           \A q \in WatchKeys : /\ wrec'[q].handle = wrec[q].handle
                                /\ wrec'[q].present = wrec[q].present
                                /\ wrec'[q].auto = wrec[q].auto,
           missed' \in [WatchKeys -> BOOLEAN],
           EditInv'
    PROVE  WatchInv'
<1> USE DEF WatchInv
<1>1. wh'[h] = t /\ \A g \in WatchHandles \ {h} : wh'[g] = wh[g]
  BY DEF WatchTypeOK
<1>2. WatchTypeOK'
  BY DEF WatchTypeOK
<1>3. \A g \in WatchHandles, q \in WatchKeys : Born(g, q) => Born(g, q)'
  BY <1>1 DEF Born
<1>4. NamesInv'
  <2>1. ASSUME NEW g \in WatchHandles, wh'[g].at # "unborn" PROVE wh'[g].key \in WatchKeys
    BY <1>1, <2>1 DEF NamesInv, Live
  <2>2. ASSUME NEW q \in WatchKeys
        PROVE  /\ wrec'[q].handle # NoHandle => wrec'[q].present /\ Born(wrec[q].handle, q)'
               /\ ~wrec'[q].present => ~wrec'[q].auto
    <3>1. wrec[q].handle \in WatchHandles \cup {NoHandle}
      BY DEF WatchTypeOK, WatchRecord
    <3> QED
      BY <1>3, <3>1 DEF NamesInv
  <2>3. ASSUME NEW d \in WatchCallers, wcall'[d].at = "store"
        PROVE  /\ wcall'[d].key \in WatchKeys /\ wcall'[d].handle # NoHandle
               /\ Born(wcall[d].handle, wcall[d].key)'
    <3>1. wcall[d].handle \in WatchHandles \cup {NoHandle}
      BY DEF WatchTypeOK, WatchCall
    <3> QED
      BY <1>3, <2>3, <3>1 DEF NamesInv
  <2> QED
    BY <2>1, <2>2, <2>3 DEF NamesInv
<1>5. NoStrayWatcher'
  <2> SUFFICES ASSUME NEW g \in WatchHandles, Live(g)', ~wh'[g].stop
               PROVE  \/ wrec'[wh'[g].key].handle = g
                      \/ \E d \in WatchCallers : wcall'[d].at = "store" /\ wcall'[d].handle = g
                      \/ wh'[g].left
    BY DEF NoStrayWatcher
  <2>1. /\ Live(g) /\ ~wh[g].stop /\ wh'[g].key = wh[g].key /\ wh'[g].left = wh[g].left
        /\ wh[g].key \in WatchKeys
    BY <1>1 DEF Live, NamesInv
  <2> QED
    BY <2>1 DEF NoStrayWatcher
<1> QED
  BY <1>2, <1>4, <1>5

\* The task moves on with what it still has to do, or the edit is missed.
LEMMA LoopEdits ==
    ASSUME WatchInv, NEW h \in WatchHandles, NEW t \in WatchHandle, Live(h),
           wh' = [wh EXCEPT ![h] = t], t.key = wh[h].key,
           UNCHANGED <<wrec, wfiles>>,
           \A q \in WatchKeys : missed[q] => missed'[q],
           t.at = "decide" => t.events \/ t.hash = wfiles[t.key],
           Busy(h) => \/ t.events \/ t.pending \/ t.at \in {"decide", "ended"}
                      \/ missed'[wh[h].key] \/ ~wrec[wh[h].key].present
    PROVE  EditInv'
<1> USE DEF WatchInv
<1>1. wh'[h] = t /\ \A g \in WatchHandles \ {h} : wh'[g] = wh[g]
  BY DEF WatchTypeOK
<1>2. ASSUME NEW g \in WatchHandles, wh'[g].at = "decide"
      PROVE  wh'[g].events \/ wh'[g].hash = wfiles'[wh'[g].key]
  BY <1>1, <1>2 DEF EditInv
<1>3. ASSUME NEW q \in WatchKeys, wrec'[q].present
      PROVE  UpToDate(q)' \/ (wrec'[q].handle # NoHandle /\ Busy(wrec[q].handle)')
  <2>1. CASE UpToDate(q)
    BY <2>1 DEF UpToDate
  <2>2. CASE wrec[q].handle # NoHandle /\ Busy(wrec[q].handle)
    <3>1. wrec[q].handle \in WatchHandles /\ wh[wrec[q].handle].key = q
      BY <2>2 DEF WatchTypeOK, WatchRecord, NamesInv, Born
    <3>2. CASE wrec[q].handle # h
      BY <1>1, <2>2, <3>1, <3>2 DEF Busy
    <3>3. CASE wrec[q].handle = h
      BY <1>1, <1>3, <2>2, <3>1, <3>3 DEF Busy, UpToDate
    <3> QED
      BY <3>2, <3>3
  <2> QED
    BY <1>3, <2>1, <2>2 DEF EditInv
<1> QED
  BY <1>2, <1>3 DEF EditInv

LEMMA LoopMove ==
    ASSUME WatchInv, NEW h \in WatchHandles, NEW t \in WatchHandle, Live(h),
           wh' = [wh EXCEPT ![h] = t], t.key = wh[h].key, t.stop = wh[h].stop,
           t.left = wh[h].left, t.at # "unborn",
           UNCHANGED <<wrec, wcall, wfiles>>,
           missed' \in [WatchKeys -> BOOLEAN], \A q \in WatchKeys : missed[q] => missed'[q],
           t.at = "decide" => t.events \/ t.hash = wfiles[t.key],
           Busy(h) => \/ t.events \/ t.pending \/ t.at \in {"decide", "ended"}
                      \/ missed'[wh[h].key] \/ ~wrec[wh[h].key].present
    PROVE  WatchInv'
<1>1. EditInv'
  BY LoopEdits
<1>2. wrec' \in [WatchKeys -> WatchRecord]
  BY DEF WatchInv, WatchTypeOK
<1> QED
  BY <1>1, <1>2, LoopStep

LEMMA LoopHeadWatch ==
    ASSUME WatchInv, NEW h \in WatchHandles, LoopHead(h)
    PROVE  WatchInv'
<1> DEFINE old == wh[h]
           at == IF wh[h].stop THEN "ended" ELSE "recv"
           t == [old EXCEPT !.at = at]
<1>1. old \in WatchHandle /\ Live(h) /\ at \in {"recv", "ended"}
  BY DEF WatchInv, WatchTypeOK, LoopHead, Live
<1>2. /\ wh' = [wh EXCEPT ![h] = t] /\ UNCHANGED <<wrec, wcall, wfiles, missed>>
      /\ wh[h].at = "head"
  BY DEF LoopHead
<1>3. missed' \in [WatchKeys -> BOOLEAN]
  BY <1>2 DEF WatchInv, WatchTypeOK
<1> HIDE DEF at
<1>4. /\ t \in WatchHandle /\ t.at = at /\ t.key = old.key /\ t.stop = old.stop
      /\ t.left = old.left /\ t.events = old.events /\ t.pending = old.pending
  BY <1>1 DEF WatchHandle
<1> HIDE DEF t
<1> QED
  BY <1>1, <1>2, <1>3, <1>4, LoopMove DEF Busy

LEMMA ReceiveWatch ==
    ASSUME WatchInv, NEW h \in WatchHandles, Receive(h)
    PROVE  WatchInv'
<1> DEFINE old == wh[h]
           p == wh[h].pending \/ wh[h].events
           t == [old EXCEPT !.at = "head", !.events = FALSE, !.pending = p]
<1>1. old \in WatchHandle /\ Live(h) /\ p \in BOOLEAN
  BY DEF WatchInv, WatchTypeOK, Receive, Live, WatchHandle
<1>2. /\ wh' = [wh EXCEPT ![h] = t] /\ UNCHANGED <<wrec, wcall, wfiles, missed>>
      /\ wh[h].at = "recv"
  BY DEF Receive
<1>3. missed' \in [WatchKeys -> BOOLEAN]
  BY <1>2 DEF WatchInv, WatchTypeOK
<1>4. Busy(h) => p
  BY <1>2 DEF Busy
<1> HIDE DEF p
<1>5. /\ t \in WatchHandle /\ t.at = "head" /\ t.key = old.key /\ t.stop = old.stop
      /\ t.left = old.left /\ (p => t.pending)
  BY <1>1 DEF WatchHandle
<1> HIDE DEF t
<1> QED
  BY <1>1, <1>2, <1>3, <1>4, <1>5, LoopMove

LEMMA DebouncedWatch ==
    ASSUME WatchInv, NEW h \in WatchHandles, Debounced(h)
    PROVE  WatchInv'
<1> DEFINE old == wh[h]
           n == wfiles[wh[h].key]
<1>1. old \in WatchHandle /\ Live(h) /\ old.key \in WatchKeys /\ n \in Nat
      /\ UNCHANGED <<wrec, wcall, wfiles>>
  BY DEF WatchInv, WatchTypeOK, Debounced, Live, NamesInv
<1>2. CASE /\ wh' = [wh EXCEPT ![h].at = "decide", ![h].events = FALSE, ![h].pending = FALSE,
                               ![h].hash = compute_watch_hash(wh[h].key)]
           /\ UNCHANGED missed
  <2> DEFINE t == [old EXCEPT !.at = "decide", !.events = FALSE, !.pending = FALSE, !.hash = n]
  <2>1. wh' = [wh EXCEPT ![h] = t]
    BY <1>2 DEF compute_watch_hash
  <2>2. missed' \in [WatchKeys -> BOOLEAN]
    BY <1>2 DEF WatchInv, WatchTypeOK
  <2> HIDE DEF n
  <2>3. /\ t \in WatchHandle /\ t.at = "decide" /\ t.key = old.key /\ t.stop = old.stop
        /\ t.left = old.left /\ t.hash = n
    BY <1>1 DEF WatchHandle
  <2>4. t.hash = wfiles[t.key]
    BY <2>3 DEF n
  <2> HIDE DEF t
  <2> QED
    BY <1>1, <1>2, <2>1, <2>2, <2>3, <2>4, LoopMove
<1>3. CASE /\ wh' = [wh EXCEPT ![h].at = "head", ![h].events = FALSE, ![h].pending = FALSE]
           /\ missed' = [missed EXCEPT ![wh[h].key] = TRUE]
  <2> DEFINE t == [old EXCEPT !.at = "head", !.events = FALSE, !.pending = FALSE]
  <2>1. wh' = [wh EXCEPT ![h] = t]
    BY <1>3
  <2>2. /\ missed' \in [WatchKeys -> BOOLEAN] /\ missed'[wh[h].key]
        /\ \A q \in WatchKeys : missed[q] => missed'[q]
    BY <1>1, <1>3 DEF WatchInv, WatchTypeOK
  <2>3. /\ t \in WatchHandle /\ t.at = "head" /\ t.key = old.key /\ t.stop = old.stop
        /\ t.left = old.left
    BY <1>1 DEF WatchHandle
  <2> HIDE DEF t
  <2> QED
    BY <1>1, <2>1, <2>2, <2>3, LoopMove
<1> QED
  BY <1>2, <1>3 DEF Debounced

LEMMA RestartWatch ==
    ASSUME WatchInv, NEW h \in WatchHandles, Restart(h)
    PROVE  WatchInv'
<1> DEFINE old == wh[h]
           t == [old EXCEPT !.at = "head"]
<1>1. old \in WatchHandle /\ Live(h) /\ old.key \in WatchKeys
  BY DEF WatchInv, WatchTypeOK, Restart, Live, NamesInv
<1>2. /\ wh' = [wh EXCEPT ![h] = t] /\ UNCHANGED <<wrec, wcall, wfiles>> /\ wh[h].at = "restart"
  BY DEF Restart
<1>3. /\ missed' \in [WatchKeys -> BOOLEAN] /\ \A q \in WatchKeys : missed[q] => missed'[q]
  BY <1>1 DEF WatchInv, WatchTypeOK, Restart
<1>4. /\ t \in WatchHandle /\ t.at = "head" /\ t.key = old.key /\ t.stop = old.stop
      /\ t.left = old.left /\ t.events = old.events /\ t.pending = old.pending
  BY <1>1 DEF WatchHandle
<1> HIDE DEF t
<1> QED
  BY <1>1, <1>2, <1>3, <1>4, LoopMove DEF Busy

LEMMA DecideWatch ==
    ASSUME WatchInv, NEW h \in WatchHandles, NEW k \in WatchKeys, Decide(h, k)
    PROVE  WatchInv'
<1> DEFINE old == wh[h]
           changed == wrec[k].hash # wh[h].hash
           restart == wrec[k].auto /\ ~wrec[k].paused /\ changed
<1>1. /\ old \in WatchHandle /\ Live(h) /\ wrec[k] \in WatchRecord /\ wh[h].at = "decide"
      /\ wh[h].key = k /\ UNCHANGED <<wcall, wfiles>>
  BY DEF WatchInv, WatchTypeOK, Decide, Live
<1>2. CASE ~wrec[k].present /\ wh' = [wh EXCEPT ![h].at = "ended"] /\ UNCHANGED <<wrec, missed>>
  <2> DEFINE t == [old EXCEPT !.at = "ended"]
  <2>1. wh' = [wh EXCEPT ![h] = t]
    BY <1>2
  <2>2. missed' \in [WatchKeys -> BOOLEAN]
    BY <1>2 DEF WatchInv, WatchTypeOK
  <2>3. /\ t \in WatchHandle /\ t.at = "ended" /\ t.key = old.key /\ t.stop = old.stop
        /\ t.left = old.left
    BY <1>1 DEF WatchHandle
  <2> HIDE DEF t
  <2> QED
    BY <1>1, <1>2, <2>1, <2>2, <2>3, LoopMove
<1>3. CASE /\ wrec[k].present
           /\ wh' = [wh EXCEPT ![h].paused = wrec[k].paused,
                               ![h].at = IF restart THEN "restart" ELSE "head"]
           /\ wrec' = [wrec EXCEPT ![k].hash = IF restart THEN wh[h].hash ELSE @]
           /\ missed' = [missed EXCEPT ![k] =
                            IF restart THEN wh[h].hash # wfiles[k] /\ (@ \/ wrec[k].handle # h)
                                       ELSE @ \/ changed]
  <2> DEFINE p == wrec[k].paused
             at == IF restart THEN "restart" ELSE "head"
             t == [old EXCEPT !.paused = p, !.at = at]
             n == IF restart THEN wh[h].hash ELSE wrec[k].hash
             r == [wrec[k] EXCEPT !.hash = n]
  <2>1. wh' = [wh EXCEPT ![h] = t] /\ wrec' = [wrec EXCEPT ![k] = r]
    BY <1>3
  <2>2. p \in BOOLEAN /\ at \in {"head", "restart"} /\ n \in Nat
    BY <1>1 DEF WatchRecord, WatchHandle
  <2>3. /\ missed' \in [WatchKeys -> BOOLEAN] /\ \A q \in WatchKeys \ {k} : missed'[q] = missed[q]
        /\ restart /\ wh[h].hash # wfiles[k] /\ (missed[k] \/ wrec[k].handle # h) => missed'[k]
        /\ ~restart /\ (missed[k] \/ changed) => missed'[k]
    <3> DEFINE m == IF restart THEN wh[h].hash # wfiles[k] /\ (missed[k] \/ wrec[k].handle # h)
                               ELSE missed[k] \/ changed
    <3>1. missed' = [missed EXCEPT ![k] = m]
      BY <1>3
    <3>2. m \in BOOLEAN
      BY DEF WatchInv, WatchTypeOK
    <3>3. missed'[k] = m /\ missed' \in [WatchKeys -> BOOLEAN]
          /\ \A q \in WatchKeys \ {k} : missed'[q] = missed[q]
      <4> HIDE DEF m
      <4> QED
        BY <3>1, <3>2 DEF WatchInv, WatchTypeOK
    <3> QED
      BY <3>3
  <2>4. \/ n = wfiles[k] \/ missed'[k]
        \/ wrec[k].handle = h /\ wh[h].events
        \/ wrec[k].handle # NoHandle /\ wrec[k].handle # h /\ Busy(wrec[k].handle)
    <3>1. wh[h].events \/ wh[h].hash = wfiles[k]
      BY <1>1 DEF WatchInv, EditInv
    <3>2. CASE restart
      <4>1. n = wh[h].hash
        BY <3>2
      <4> QED
        BY <2>3, <3>1, <3>2, <4>1
    <3>3. CASE ~restart
      <4>1. n = wrec[k].hash
        BY <3>3
      <4>2. CASE changed
        BY <2>3, <3>3, <4>2
      <4>3. CASE ~changed
        <5>1. n = wh[h].hash
          BY <4>1, <4>3
        <5>2. CASE wh[h].hash = wfiles[k]
          BY <5>1, <5>2
        <5>3. missed[k] => missed'[k]
          BY <2>3, <3>3
        <5>4. UpToDate(k) \/ (wrec[k].handle # NoHandle /\ Busy(wrec[k].handle))
          BY <1>3 DEF WatchInv, EditInv
        <5> QED
          BY <3>1, <4>1, <5>2, <5>3, <5>4 DEF UpToDate
      <4> QED
        BY <4>2, <4>3
    <3> QED
      BY <3>2, <3>3
  <2> HIDE DEF p, at, n
  <2>5. /\ t \in WatchHandle /\ t.at = at /\ t.key = old.key /\ t.stop = old.stop
        /\ t.left = old.left /\ t.events = old.events
    BY <1>1, <2>2 DEF WatchHandle
  <2>6. /\ r \in WatchRecord /\ r.handle = wrec[k].handle /\ r.present = wrec[k].present
        /\ r.auto = wrec[k].auto /\ r.hash = n
    BY <1>1, <2>2 DEF WatchRecord
  <2> HIDE DEF t, r
  <2>7. /\ wrec' \in [WatchKeys -> WatchRecord] /\ wrec'[k] = r
        /\ \A q \in WatchKeys \ {k} : wrec'[q] = wrec[q]
    BY <2>1, <2>6 DEF WatchInv, WatchTypeOK
  <2>8. wh'[h] = t /\ \A g \in WatchHandles \ {h} : wh'[g] = wh[g]
    BY <2>1 DEF WatchInv, WatchTypeOK
  <2>9. EditInv'
    <3>1. ASSUME NEW g \in WatchHandles, wh'[g].at = "decide"
          PROVE  wh'[g].events \/ wh'[g].hash = wfiles'[wh'[g].key]
      <4>1. g # h
        BY <2>2, <2>5, <2>8, <3>1
      <4> QED
        BY <1>1, <2>8, <3>1, <4>1 DEF WatchInv, EditInv
    <3>2. ASSUME NEW q \in WatchKeys, wrec'[q].present
          PROVE  UpToDate(q)' \/ (wrec'[q].handle # NoHandle /\ Busy(wrec[q].handle)')
      <4>0. wrec[q].handle # NoHandle => wrec[q].handle \in WatchHandles /\ Born(wrec[q].handle, q)
        BY DEF WatchInv, NamesInv, WatchTypeOK, WatchRecord
      <4>1. CASE q # k
        <5>1. wrec[q].handle # h
          BY <1>1, <4>0, <4>1, WatchAssumption DEF Born
        <5>2. wrec'[q] = wrec[q] /\ missed'[q] = missed[q] /\ wfiles' = wfiles
          BY <1>1, <2>3, <2>7, <4>1
        <5>3. wrec[q].handle # NoHandle => wh'[wrec[q].handle] = wh[wrec[q].handle]
          BY <2>8, <4>0, <5>1
        <5> QED
          BY <3>2, <5>2, <5>3 DEF WatchInv, EditInv, UpToDate, Busy
      <4>2. CASE q = k
        <5>1. wrec'[k].handle = wrec[k].handle /\ wrec'[k].hash = n /\ wfiles' = wfiles
          BY <1>1, <2>6, <2>7
        <5>2. wrec[k].handle # NoHandle /\ wrec[k].handle # h
                => wh'[wrec[k].handle] = wh[wrec[k].handle]
          BY <2>8, <4>0, <4>2
        <5>3. wh'[h].events = wh[h].events /\ h # NoHandle
          BY <2>5, <2>8, WatchAssumption
        <5> QED
          BY <2>4, <4>2, <5>1, <5>2, <5>3 DEF UpToDate, Busy
      <4> QED
        BY <4>1, <4>2
    <3> QED
      BY <3>1, <3>2 DEF EditInv
  <2>10. \A q \in WatchKeys : /\ wrec'[q].handle = wrec[q].handle
                              /\ wrec'[q].present = wrec[q].present
                              /\ wrec'[q].auto = wrec[q].auto
    BY <2>6, <2>7
  <2>11. t.at # "unborn" /\ t.key = wh[h].key /\ t.stop = wh[h].stop /\ t.left = wh[h].left
    BY <2>2, <2>5
  <2> QED
    BY <1>1, <2>1, <2>3, <2>5, <2>7, <2>9, <2>10, <2>11, LoopStep
<1> QED
  BY <1>2, <1>3 DEF Decide

\* An edit reaches every watcher of the key; with none it is missed.
LEMMA EditFileWatch ==
    ASSUME WatchInv, NEW k \in WatchKeys, EditFile(k)
    PROVE  WatchInv'
<1> USE DEF WatchInv
<1>1. /\ wfiles' \in [WatchKeys -> Nat] /\ \A q \in WatchKeys \ {k} : wfiles'[q] = wfiles[q]
      /\ UNCHANGED <<wrec, wcall>>
  BY DEF EditFile, WatchTypeOK
<1>2. /\ missed' \in [WatchKeys -> BOOLEAN]
      /\ \A q \in WatchKeys : missed[q] => missed'[q]
      /\ ~Watched(k) => missed'[k]
  <2> DEFINE m == missed[k] \/ ~Watched(k)
  <2>1. missed' = [missed EXCEPT ![k] = m] /\ m \in BOOLEAN
    BY DEF EditFile, WatchTypeOK, Watched
  <2>2. missed[k] \/ ~Watched(k) => m
    OBVIOUS
  <2> HIDE DEF m
  <2> QED
    BY <2>1, <2>2 DEF WatchTypeOK
<1>3. ASSUME NEW g \in WatchHandles
      PROVE  /\ wh'[g] \in WatchHandle /\ wh'[g].key = wh[g].key /\ wh'[g].at = wh[g].at
             /\ wh'[g].stop = wh[g].stop /\ wh'[g].left = wh[g].left
             /\ wh'[g].hash = wh[g].hash /\ wh'[g].pending = wh[g].pending
             /\ wh[g].events => wh'[g].events
             /\ wh[g].key = k /\ wh[g].at # "ended" => wh'[g].events
  <2> DEFINE old == wh[g]
             t == [old EXCEPT !.events = TRUE]
  <2>1. old \in WatchHandle
    BY DEF WatchTypeOK
  <2>2. wh'[g] = IF old.key = k /\ old.at # "ended" THEN t ELSE old
    BY DEF EditFile
  <2> HIDE DEF old
  <2>3. /\ t \in WatchHandle /\ t.key = old.key /\ t.at = old.at /\ t.stop = old.stop
        /\ t.left = old.left /\ t.hash = old.hash /\ t.pending = old.pending /\ t.events
    BY <2>1 DEF WatchHandle
  <2> HIDE DEF t
  <2>4. wh[g] = old
    BY DEF old
  <2> QED
    BY <2>1, <2>2, <2>3, <2>4
<1>4. wh' \in [WatchHandles -> WatchHandle]
  <2>1. wh' = [h \in WatchHandles |-> wh'[h]]
    BY DEF EditFile
  <2> QED
    BY <1>3, <2>1
<1>5. WatchTypeOK'
  BY <1>1, <1>2, <1>4 DEF WatchTypeOK
<1>6. \A q \in WatchKeys : wrec[q].handle \in WatchHandles \cup {NoHandle}
  BY DEF WatchTypeOK, WatchRecord
<1>7. \A d \in WatchCallers : wcall[d].handle \in WatchHandles \cup {NoHandle}
  BY DEF WatchTypeOK, WatchCall
<1>8. \A g \in WatchHandles, q \in WatchKeys : Born(g, q) => Born(g, q)'
  BY <1>3 DEF Born
<1>9. NamesInv'
  <2>1. ASSUME NEW g \in WatchHandles, wh'[g].at # "unborn" PROVE wh'[g].key \in WatchKeys
    BY <1>3, <2>1 DEF NamesInv
  <2>2. ASSUME NEW q \in WatchKeys
        PROVE  /\ wrec'[q].handle # NoHandle => wrec'[q].present /\ Born(wrec[q].handle, q)'
               /\ ~wrec'[q].present => ~wrec'[q].auto
    BY <1>1, <1>6, <1>8 DEF NamesInv
  <2>3. ASSUME NEW d \in WatchCallers, wcall'[d].at = "store"
        PROVE  /\ wcall'[d].key \in WatchKeys /\ wcall'[d].handle # NoHandle
               /\ Born(wcall[d].handle, wcall[d].key)'
    BY <1>1, <1>7, <1>8, <2>3 DEF NamesInv
  <2> QED
    BY <2>1, <2>2, <2>3 DEF NamesInv
<1>10. EditInv'
  <2>1. ASSUME NEW g \in WatchHandles, wh'[g].at = "decide"
        PROVE  wh'[g].events \/ wh'[g].hash = wfiles'[wh'[g].key]
    <3>1. wh[g].at = "decide" /\ wh[g].key \in WatchKeys
      BY <1>3, <2>1 DEF NamesInv
    <3>2. CASE wh[g].key = k
      BY <1>3, <3>1, <3>2
    <3>3. CASE wh[g].key # k
      BY <1>1, <1>3, <3>1, <3>3 DEF EditInv
    <3> QED
      BY <3>2, <3>3
  <2>2. \A g \in WatchHandles : Busy(g) => Busy(g)'
    BY <1>3 DEF Busy
  <2>3. ASSUME NEW q \in WatchKeys, wrec'[q].present
        PROVE  UpToDate(q)' \/ (wrec'[q].handle # NoHandle /\ Busy(wrec[q].handle)')
    <3>1. CASE q # k
      BY <1>1, <1>2, <1>6, <2>2, <2>3, <3>1 DEF EditInv, UpToDate
    <3>2. CASE q = k /\ ~Watched(k)
      BY <1>2, <3>2 DEF UpToDate
    <3>3. CASE q = k /\ Watched(k)
      <4>1. PICK h \in WatchHandles : wrec[k].handle = h /\ wh[h].at # "ended"
        BY <3>3 DEF Watched
      <4>2. h # NoHandle /\ wh[h].key = k
        BY <4>1, WatchAssumption DEF NamesInv, Born
      <4> QED
        BY <1>1, <1>3, <3>3, <4>1, <4>2 DEF Busy
    <3> QED
      BY <3>1, <3>2, <3>3
  <2> QED
    BY <2>1, <2>3 DEF EditInv
<1>11. NoStrayWatcher'
  BY <1>1, <1>3 DEF NoStrayWatcher, Live
<1> QED
  BY <1>5, <1>9, <1>10, <1>11

LEMMA WatchStart == WatchInit => WatchInv
<1> SUFFICES ASSUME WatchInit PROVE WatchInv
  OBVIOUS
<1>1. NoRecord \in WatchRecord /\ NoRecord.handle = NoHandle /\ ~NoRecord.present /\ ~NoRecord.auto
  BY DEF NoRecord, WatchRecord
<1>2. UnbornHandle \in WatchHandle /\ UnbornHandle.at = "unborn"
  BY DEF UnbornHandle, WatchHandle
<1>3. IdleCaller \in WatchCall /\ IdleCaller.at = "idle"
  BY DEF IdleCaller, WatchCall
<1> QED
  BY <1>1, <1>2, <1>3 DEF WatchInit, WatchInv, WatchTypeOK, NamesInv, EditInv, NoStrayWatcher, Live

LEMMA WatchStep == WatchInv /\ [WatchNext]_watchVars => WatchInv'
<1> SUFFICES ASSUME WatchInv, [WatchNext]_watchVars PROVE WatchInv'
  OBVIOUS
<1>1. CASE UNCHANGED watchVars
  BY <1>1 DEF watchVars, WatchInv, WatchTypeOK, NamesInv, EditInv, NoStrayWatcher, Live, Born,
     UpToDate, Busy
<1>2. ASSUME NEW c \in WatchCallers, WatchCommand(c) PROVE WatchInv'
  BY <1>2, CommandsWatch
<1>3. ASSUME NEW c \in WatchCallers, \/ sync_service_auto_restart_watcher(c)
                                     \/ sync_global_auto_restart_watcher(c)
      PROVE  WatchInv'
  <2>1. PICK k \in WatchKeys : SyncCheck(c, k) \/ SyncStore(c, k)
    BY <1>3, WatchAssumption DEF sync_service_auto_restart_watcher, sync_global_auto_restart_watcher
  <2> QED
    BY <2>1, SyncCheckWatch, SyncStoreWatch
<1>4. ASSUME NEW h \in WatchHandles, \/ spawn_service_auto_restart_watcher(h)
                                     \/ spawn_global_auto_restart_watcher(h)
      PROVE  WatchInv'
  <2>1. \/ LoopHead(h) \/ Receive(h) \/ Debounced(h) \/ Restart(h)
        \/ \E k \in WatchKeys : Decide(h, k)
    BY <1>4, WatchAssumption DEF spawn_service_auto_restart_watcher,
       spawn_global_auto_restart_watcher
  <2> QED
    BY <2>1, LoopHeadWatch, ReceiveWatch, DebouncedWatch, RestartWatch, DecideWatch
<1>5. ASSUME NEW k \in WatchKeys, EditFile(k) PROVE WatchInv'
  BY <1>5, EditFileWatch
<1> QED
  BY <1>1, <1>2, <1>3, <1>4, <1>5 DEF WatchNext

(***************************************************************************)
(* However many requests start, refresh, pause, resume and stop a service  *)
(* at once, a watcher that nobody told to stop is the one its record names *)
(* or is still in the hands of the sync call that made it: the second look *)
(* of sync_service_auto_restart_watcher at the record is enough.           *)
(***************************************************************************)
THEOREM NoWatcherIsLeftBehind == WatchSpec => []NoStrayWatcher
<1>1. WatchInv => NoStrayWatcher
  BY DEF WatchInv
<1> QED
  BY <1>1, WatchStart, WatchStep, PTL DEF WatchSpec

(***************************************************************************)
(* For any number of edits, also ones made while the watcher hashes or the *)
(* service restarts: a watcher at rest has acted upon the last one.        *)
(***************************************************************************)
THEOREM EveryEditIsActedUpon == WatchSpec => []NoEditForgotten
<1>1. WatchInv => NoEditForgotten
  <2> SUFFICES ASSUME WatchInv, NEW k \in WatchKeys, NEW h \in WatchHandles,
                      wrec[k].handle = h, wh[h].at = "head", ~wh[h].events, ~wh[h].pending
               PROVE  missed[k] \/ wrec[k].hash = wfiles[k]
    BY DEF NoEditForgotten
  <2>1. wrec[k].present
    BY WatchAssumption DEF WatchInv, NamesInv
  <2>2. ~Busy(wrec[k].handle)
    BY DEF Busy
  <2> QED
    BY <2>1, <2>2 DEF WatchInv, EditInv, UpToDate
<1> QED
  BY <1>1, WatchStart, WatchStep, PTL DEF WatchSpec

-----------------------------------------------------------------------------

(***************************************************************************)
(* The capture proxy.  A call that has started a proxy names it; a request *)
(* is logged at most once, and has been when its response is over; a proxy *)
(* that has drained has no request left; and the requests whose events a   *)
(* proxy could not queue are as many as it has counted.                    *)
(***************************************************************************)
RequestOK(t) ==
    /\ t.at # "new" => t.proxy # NoProxy
    /\ t.logged => t.events = 1
    /\ ~t.logged => t.events = 0
    /\ t.at \in {"new", "forward", "upgrade"} => ~t.logged /\ t.total = 0
    /\ t.at = "stream" => ~t.logged
    /\ t.at = "ended" => t.logged
    /\ t.at = "done" /\ t.total > 0 => t.logged
    /\ t.captured = Min({t.total, BodyLimit})

StoreInv == \A c \in ProxyCallers : pcall[c].at = "store" => pcall[c].proxy # NoProxy
RequestInv == \A q \in ApiRequests : RequestOK(req[q])
DrainInv ==
    \A h \in Proxies, q \in ApiRequests :
        proxy[h].at = "drained" /\ req[q].proxy = h => req[q].at = "done"
CountInv == \A h \in Proxies : AddsUp(h) /\ IsFiniteSet(Counted(h))

CaptureInv ==
    CaptureTypeOK /\ StoreInv /\ NoStrayProxy /\ RequestInv /\ DrainInv /\ CountInv

LEMMA MinOfTwo ==
    ASSUME NEW a \in Nat, NEW b \in Nat
    PROVE  Min({a, b}) = IF a <= b THEN a ELSE b
<1> DEFINE m == IF a <= b THEN a ELSE b
<1>1. m \in {a, b} /\ \A y \in {a, b} : m <= y
  OBVIOUS
<1>2. \A x \in {a, b} : (\A y \in {a, b} : x <= y) => x = m
  OBVIOUS
<1>3. Min({a, b}) \in {a, b} /\ \A y \in {a, b} : Min({a, b}) <= y
  <2> HIDE DEF m
  <2> QED
    BY <1>1 DEF Min
<1> QED
  BY <1>2, <1>3

\* CapturedBody::append keeps the first BodyLimit bytes.
LEMMA AppendKeepsPrefix ==
    ASSUME NEW total \in Nat, NEW n \in Nat, NEW captured \in Nat,
           captured = Min({total, BodyLimit})
    PROVE  /\ captured + Min({BodyLimit - captured, n}) \in Nat
           /\ captured + Min({BodyLimit - captured, n}) = Min({total + n, BodyLimit})
<1>1. BodyLimit \in Nat
  BY CaptureAssumption
<1>2. captured = IF total <= BodyLimit THEN total ELSE BodyLimit
  BY <1>1, MinOfTwo
<1>3. BodyLimit - captured \in Nat /\ total + n \in Nat
  BY <1>1, <1>2
<1>4. Min({BodyLimit - captured, n}) = IF BodyLimit - captured <= n THEN BodyLimit - captured ELSE n
  BY <1>3, MinOfTwo
<1>5. Min({total + n, BodyLimit}) = IF total + n <= BodyLimit THEN total + n ELSE BodyLimit
  BY <1>1, <1>3, MinOfTwo
<1> QED
  BY <1>1, <1>2, <1>4, <1>5

LogKept(h) ==
    /\ proxy'[h].queue = proxy[h].queue /\ proxy'[h].written = proxy[h].written
    /\ proxy'[h].dropped = proxy[h].dropped /\ proxy'[h].reported = proxy[h].reported

\* The ledger of a proxy that neither a request nor the writer touches.
LEMMA CountKept ==
    ASSUME NEW h \in Proxies, AddsUp(h), IsFiniteSet(Counted(h)), LogKept(h),
           Logged(h)' = Logged(h), proxy'[h].at = "drained" => proxy[h].at = "drained"
    PROVE  AddsUp(h)' /\ IsFiniteSet(Counted(h)')
<1>1. Queued(h)' = Queued(h) /\ InLog(h)' = InLog(h)
  BY DEF Queued, InLog, LogKept
<1>2. Counted(h)' = Counted(h)
  BY <1>1 DEF Counted
<1> QED
  BY <1>1, <1>2 DEF AddsUp, LogKept

\* A command: the record, the flags of proxies and the call; no event.
LEMMA CaptureCommandStep ==
    ASSUME CaptureInv, NEW c \in ProxyCallers, UNCHANGED req,
           srec' \in ServiceRecord, proxy' \in [Proxies -> ProxyTask],
           pcall' \in [ProxyCallers -> ProxyCall],
           \A d \in ProxyCallers \ {c} : pcall'[d] = pcall[d],
           pcall'[c].at = "store" => pcall'[c].proxy # NoProxy,
           \A h \in Proxies : LogKept(h) /\ (proxy'[h].at = "drained" => proxy[h].at = "drained"),
           NoStrayProxy'
    PROVE  CaptureInv'
<1> USE DEF CaptureInv
<1>1. CaptureTypeOK'
  BY DEF CaptureTypeOK
<1>2. StoreInv'
  BY DEF StoreInv
<1>3. RequestInv' /\ DrainInv'
  BY DEF RequestInv, RequestOK, DrainInv
<1>4. \A h \in Proxies : Logged(h)' = Logged(h)
  BY DEF Logged
<1>5. CountInv'
  BY <1>4, CountKept DEF CountInv
<1> QED
  BY <1>1, <1>2, <1>3, <1>5

\* Only the flags of proxies change.
FlagKept(h) == LogKept(h) /\ proxy'[h].at = proxy[h].at

LEMMA StopsProxy ==
    ASSUME CaptureTypeOK
    PROVE  /\ proxy' = stop_api_capture =>
                /\ proxy' \in [Proxies -> ProxyTask]
                /\ \A h \in Proxies :
                     /\ FlagKept(h) /\ proxy'[h].lost = proxy[h].lost
                     /\ (proxy[h].stop \/ h = srec.handle => proxy'[h].stop)
           /\ proxy' = [h \in Proxies |-> [proxy[h] EXCEPT !.lost = @ \/ h = srec.handle]] =>
                /\ proxy' \in [Proxies -> ProxyTask]
                /\ \A h \in Proxies :
                     /\ FlagKept(h) /\ proxy'[h].stop = proxy[h].stop
                     /\ (proxy[h].lost \/ h = srec.handle => proxy'[h].lost)
<1>1. ASSUME proxy' = stop_api_capture
      PROVE  /\ proxy' \in [Proxies -> ProxyTask]
             /\ \A h \in Proxies :
                  /\ FlagKept(h) /\ proxy'[h].lost = proxy[h].lost
                  /\ (proxy[h].stop \/ h = srec.handle => proxy'[h].stop)
  <2>1. ASSUME NEW h \in Proxies
        PROVE  /\ proxy'[h] \in ProxyTask /\ FlagKept(h) /\ proxy'[h].lost = proxy[h].lost
               /\ (proxy[h].stop \/ h = srec.handle => proxy'[h].stop)
    <3> DEFINE new == [proxy[h] EXCEPT !.stop = TRUE]
    <3>1. /\ new \in ProxyTask /\ new.at = proxy[h].at /\ new.queue = proxy[h].queue
          /\ new.written = proxy[h].written /\ new.dropped = proxy[h].dropped
          /\ new.reported = proxy[h].reported /\ new.lost = proxy[h].lost /\ new.stop
      BY DEF CaptureTypeOK, ProxyTask
    <3>2. proxy'[h] = IF h = srec.handle THEN new ELSE proxy[h]
      BY <1>1 DEF stop_api_capture
    <3> HIDE DEF new
    <3> QED
      BY <3>1, <3>2 DEF FlagKept, LogKept, CaptureTypeOK
  <2> QED
    BY <1>1, <2>1 DEF stop_api_capture
<1>2. ASSUME proxy' = [h \in Proxies |-> [proxy[h] EXCEPT !.lost = @ \/ h = srec.handle]]
      PROVE  /\ proxy' \in [Proxies -> ProxyTask]
             /\ \A h \in Proxies :
                  /\ FlagKept(h) /\ proxy'[h].stop = proxy[h].stop
                  /\ (proxy[h].lost \/ h = srec.handle => proxy'[h].lost)
  <2>1. ASSUME NEW h \in Proxies
        PROVE  /\ proxy'[h] \in ProxyTask /\ FlagKept(h) /\ proxy'[h].stop = proxy[h].stop
               /\ (proxy[h].lost \/ h = srec.handle => proxy'[h].lost)
    <3> DEFINE l == proxy[h].lost \/ h = srec.handle
               new == [proxy[h] EXCEPT !.lost = l]
    <3>1. l \in BOOLEAN /\ (proxy[h].lost \/ h = srec.handle => l)
      BY DEF CaptureTypeOK, ProxyTask
    <3>2. proxy'[h] = new
      BY <1>2
    <3> HIDE DEF l
    <3>3. /\ new \in ProxyTask /\ new.at = proxy[h].at /\ new.queue = proxy[h].queue
          /\ new.written = proxy[h].written /\ new.dropped = proxy[h].dropped
          /\ new.reported = proxy[h].reported /\ new.stop = proxy[h].stop /\ new.lost = l
      BY <3>1 DEF CaptureTypeOK, ProxyTask
    <3> HIDE DEF new
    <3> QED
      BY <3>1, <3>2, <3>3 DEF FlagKept, LogKept
  <2> QED
    BY <1>2, <2>1
<1> QED
  BY <1>1, <1>2

LEMMA CallGoes ==
    ASSUME CaptureTypeOK, NEW c \in ProxyCallers,
           NEW at \in {"idle", "check", "mark", "purge", "bind"}, pcall' = GoesTo(c, at)
    PROVE  /\ pcall' \in [ProxyCallers -> ProxyCall] /\ pcall'[c].at # "store"
           /\ \A d \in ProxyCallers \ {c} : pcall'[d] = pcall[d]
<1> DEFINE new == [IdleCall EXCEPT !.at = at]
<1>1. new \in ProxyCall /\ new.at = at
  BY DEF ProxyCall, IdleCall
<1>2. pcall' = [pcall EXCEPT ![c] = new]
  BY DEF GoesTo
<1> HIDE DEF new
<1> QED
  BY <1>1, <1>2 DEF CaptureTypeOK

\* The record may lose its proxy as long as that one is stopped or lost with it.
LEMMA NamedOrStopped ==
    ASSUME CaptureInv, NEW c \in ProxyCallers, pcall[c].at # "store",
           \A d \in ProxyCallers \ {c} : pcall'[d] = pcall[d],
           \A h \in Proxies : proxy'[h].at = proxy[h].at,
           \A h \in Proxies : /\ proxy[h].stop => proxy'[h].stop
                              /\ proxy[h].lost => proxy'[h].lost
                              /\ srec.handle = h =>
                                    srec'.handle = h \/ proxy'[h].stop \/ proxy'[h].lost
    PROVE  NoStrayProxy'
<1> SUFFICES ASSUME NEW h \in Proxies, proxy'[h].at = "serving", ~proxy'[h].stop
             PROVE  \/ srec'.handle = h \/ proxy'[h].lost
                    \/ \E d \in ProxyCallers : pcall'[d].at = "store" /\ pcall'[d].proxy = h
  BY DEF NoStrayProxy
<1>1. proxy[h].at = "serving" /\ ~proxy[h].stop
  OBVIOUS
<1>2. ASSUME NEW d \in ProxyCallers, pcall[d].at = "store", pcall[d].proxy = h
      PROVE  pcall'[d].at = "store" /\ pcall'[d].proxy = h
  BY <1>2
<1> QED
  BY <1>1, <1>2 DEF CaptureInv, NoStrayProxy

LEMMA CommandsCapture ==
    ASSUME CaptureInv, NEW c \in ProxyCallers,
           StoreService(c) \/ ChangeSettings(c) \/ DownHandles(c) \/ DownMarks(c)
           \/ PurgeService(c) \/ ProxyCheck(c)
    PROVE  CaptureInv'
<1>0. CaptureTypeOK
  BY DEF CaptureInv
<1>1. \E at \in {"idle", "check", "mark", "purge", "bind"} : pcall' = GoesTo(c, at)
  BY DEF StoreService, ChangeSettings, DownHandles, DownMarks, PurgeService, ProxyCheck
<1>2. /\ pcall' \in [ProxyCallers -> ProxyCall] /\ pcall'[c].at # "store"
      /\ \A d \in ProxyCallers \ {c} : pcall'[d] = pcall[d]
  BY <1>0, <1>1, CallGoes
<1>3. pcall[c].at # "store" /\ req' = req
  BY DEF StoreService, ChangeSettings, DownHandles, DownMarks, PurgeService, ProxyCheck, Command
<1>4. srec' \in ServiceRecord
  <2>1. CASE StoreService(c)
    BY <2>1 DEF StoreService, ServiceRecord
  <2>2. CASE ChangeSettings(c)
    BY <1>0, <2>2 DEF ChangeSettings, CaptureTypeOK, ServiceRecord
  <2>3. CASE DownHandles(c)
    BY <1>0, <2>3 DEF DownHandles, CaptureTypeOK, ServiceRecord
  <2>4. CASE DownMarks(c)
    BY <1>0, <2>4 DEF DownMarks, CaptureTypeOK, ServiceRecord
  <2>5. CASE PurgeService(c)
    BY <2>5 DEF PurgeService, NoService, ServiceRecord
  <2>6. CASE ProxyCheck(c)
    BY <1>0, <2>6 DEF ProxyCheck, CaptureTypeOK, ServiceRecord
  <2> QED
    BY <2>1, <2>2, <2>3, <2>4, <2>5, <2>6
<1>5. \/ proxy' = stop_api_capture
      \/ proxy' = proxy /\ srec'.handle = srec.handle
      \/ proxy' = [h \in Proxies |-> [proxy[h] EXCEPT !.lost = @ \/ h = srec.handle]]
  BY <1>0 DEF CaptureTypeOK, ServiceRecord, StoreService, ChangeSettings, DownHandles, DownMarks,
     PurgeService, ProxyCheck
<1>6. /\ proxy' \in [Proxies -> ProxyTask]
      /\ \A h \in Proxies :
           /\ FlagKept(h) /\ (proxy[h].stop => proxy'[h].stop)
           /\ proxy[h].lost => proxy'[h].lost
           /\ srec.handle = h => srec'.handle = h \/ proxy'[h].stop \/ proxy'[h].lost
  <2>1. CASE proxy' = stop_api_capture
    BY <1>0, <2>1, StopsProxy
  <2>2. CASE proxy' = proxy /\ srec'.handle = srec.handle
    BY <1>0, <2>2 DEF CaptureTypeOK, FlagKept, LogKept
  <2>3. CASE proxy' = [h \in Proxies |-> [proxy[h] EXCEPT !.lost = @ \/ h = srec.handle]]
    BY <1>0, <2>3, StopsProxy
  <2> QED
    BY <1>5, <2>1, <2>2, <2>3
<1>7. NoStrayProxy'
  BY <1>2, <1>3, <1>6, NamedOrStopped DEF FlagKept
<1> QED
  BY <1>2, <1>3, <1>4, <1>6, <1>7, CaptureCommandStep DEF FlagKept

LEMMA StartCapture ==
    ASSUME CaptureInv, NEW c \in ProxyCallers, start_api_capture_proxy(c)
    PROVE  CaptureInv'
<1>0. CaptureTypeOK /\ pcall[c].at = "bind" /\ UNCHANGED <<srec, req>>
  BY DEF CaptureInv, start_api_capture_proxy
<1>1. CASE pcall' = GoesTo(c, "idle") /\ UNCHANGED proxy
  <2>1. /\ pcall' \in [ProxyCallers -> ProxyCall] /\ pcall'[c].at # "store"
        /\ \A d \in ProxyCallers \ {c} : pcall'[d] = pcall[d]
    BY <1>0, <1>1, CallGoes
  <2>2. NoStrayProxy'
    BY <1>0, <1>1, <2>1, NamedOrStopped
  <2> QED
    BY <1>0, <1>1, <2>1, <2>2, CaptureCommandStep DEF LogKept, CaptureTypeOK
<1>2. ASSUME NEW h \in Proxies, proxy[h].at = "unborn",
             proxy' = [proxy EXCEPT ![h].at = "serving"],
             pcall' = [pcall EXCEPT ![c].at = "store", ![c].proxy = h]
      PROVE  CaptureInv'
  <2> DEFINE new == [proxy[h] EXCEPT !.at = "serving"]
             call == [pcall[c] EXCEPT !.at = "store", !.proxy = h]
  <2>1. /\ new \in ProxyTask /\ new.at = "serving" /\ new.queue = proxy[h].queue
        /\ new.written = proxy[h].written /\ new.dropped = proxy[h].dropped
        /\ new.reported = proxy[h].reported
    BY <1>0 DEF CaptureTypeOK, ProxyTask
  <2>2. call \in ProxyCall /\ call.at = "store" /\ call.proxy = h
    BY <1>0 DEF CaptureTypeOK, ProxyCall
  <2>3. proxy' = [proxy EXCEPT ![h] = new] /\ pcall' = [pcall EXCEPT ![c] = call]
    BY <1>2
  <2> HIDE DEF new, call
  <2>4. /\ proxy' \in [Proxies -> ProxyTask] /\ proxy'[h] = new
        /\ \A g \in Proxies \ {h} : proxy'[g] = proxy[g]
    BY <1>0, <2>1, <2>3 DEF CaptureTypeOK
  <2>5. /\ pcall' \in [ProxyCallers -> ProxyCall] /\ pcall'[c] = call
        /\ \A d \in ProxyCallers \ {c} : pcall'[d] = pcall[d]
    BY <1>0, <2>2, <2>3 DEF CaptureTypeOK
  <2>6. \A g \in Proxies : LogKept(g) /\ (proxy'[g].at = "drained" => proxy[g].at = "drained")
    BY <2>1, <2>4 DEF LogKept
  <2>7. pcall'[c].proxy # NoProxy
    BY <2>2, <2>5, CaptureAssumption
  <2>8. NoStrayProxy'
    <3> SUFFICES ASSUME NEW g \in Proxies, proxy'[g].at = "serving", ~proxy'[g].stop
                 PROVE  \/ srec'.handle = g \/ proxy'[g].lost
                        \/ \E d \in ProxyCallers : pcall'[d].at = "store" /\ pcall'[d].proxy = g
      BY DEF NoStrayProxy
    <3>1. CASE g = h
      BY <2>2, <2>5, <3>1
    <3>2. CASE g # h
      <4>1. proxy'[g] = proxy[g]
        BY <2>4, <3>2
      <4>2. ASSUME NEW d \in ProxyCallers, pcall[d].at = "store", pcall[d].proxy = g
            PROVE  pcall'[d].at = "store" /\ pcall'[d].proxy = g
        BY <1>0, <2>5, <4>2
      <4> QED
        BY <1>0, <4>1, <4>2 DEF CaptureInv, NoStrayProxy
    <3> QED
      BY <3>1, <3>2
  <2>9. srec' \in ServiceRecord
    BY <1>0 DEF CaptureTypeOK
  <2> QED
    BY <1>0, <2>4, <2>5, <2>6, <2>7, <2>8, <2>9, CaptureCommandStep
<1> QED
  BY <1>1, <1>2 DEF start_api_capture_proxy

LEMMA StoreCapture ==
    ASSUME CaptureInv, NEW c \in ProxyCallers, ProxyStore(c)
    PROVE  CaptureInv'
<1> DEFINE h == pcall[c].proxy
<1>0. CaptureTypeOK /\ pcall[c].at = "store" /\ req' = req /\ pcall' = GoesTo(c, "idle")
  BY DEF CaptureInv, ProxyStore
<1>1. h \in Proxies
  BY <1>0 DEF CaptureInv, StoreInv, CaptureTypeOK, ProxyCall
<1>2. /\ pcall' \in [ProxyCallers -> ProxyCall] /\ pcall'[c].at # "store"
      /\ \A d \in ProxyCallers \ {c} : pcall'[d] = pcall[d]
  BY <1>0, CallGoes
<1>3. CASE /\ srec.handle = NoProxy /\ srec' = [srec EXCEPT !.handle = h] /\ UNCHANGED proxy
  <2> HIDE DEF h
  <2>1. srec' \in ServiceRecord /\ srec'.handle = h
    BY <1>0, <1>1, <1>3 DEF CaptureTypeOK, ServiceRecord
  <2>2. NoStrayProxy'
    <3> SUFFICES ASSUME NEW g \in Proxies, proxy'[g].at = "serving", ~proxy'[g].stop
                 PROVE  \/ srec'.handle = g \/ proxy'[g].lost
                        \/ \E d \in ProxyCallers : pcall'[d].at = "store" /\ pcall'[d].proxy = g
      BY DEF NoStrayProxy
    <3>1. CASE g = h
      BY <2>1, <3>1
    <3>2. CASE g # h
      <4>1. srec.handle # g
        BY <1>3, CaptureAssumption
      <4>2. ASSUME NEW d \in ProxyCallers, pcall[d].at = "store", pcall[d].proxy = g
            PROVE  pcall'[d].at = "store" /\ pcall'[d].proxy = g
        BY <1>2, <3>2, <4>2 DEF h
      <4> QED
        BY <1>3, <4>1, <4>2 DEF CaptureInv, NoStrayProxy
    <3> QED
      BY <3>1, <3>2
  <2> QED
    BY <1>0, <1>2, <1>3, <2>1, <2>2, CaptureCommandStep DEF LogKept, CaptureTypeOK
<1>4. CASE /\ proxy' = [proxy EXCEPT ![h].stop = srec.present, ![h].lost = ~srec.present]
           /\ UNCHANGED srec
  <2> DEFINE p == srec.present
             new == [proxy[h] EXCEPT !.stop = p, !.lost = ~p]
  <2>1. proxy' = [proxy EXCEPT ![h] = new]
    BY <1>4
  <2>2. p \in BOOLEAN /\ proxy[h] \in ProxyTask
    BY <1>0, <1>1 DEF CaptureTypeOK, ServiceRecord
  <2> HIDE DEF p
  <2>3. /\ new \in ProxyTask /\ new.at = proxy[h].at /\ new.queue = proxy[h].queue
        /\ new.written = proxy[h].written /\ new.dropped = proxy[h].dropped
        /\ new.reported = proxy[h].reported /\ (new.stop \/ new.lost)
    BY <2>2 DEF ProxyTask
  <2> HIDE DEF h, new
  <2>4. /\ proxy' \in [Proxies -> ProxyTask] /\ proxy'[h] = new
        /\ \A g \in Proxies \ {h} : proxy'[g] = proxy[g]
    BY <1>0, <1>1, <2>1, <2>3 DEF CaptureTypeOK
  <2>5. \A g \in Proxies : LogKept(g) /\ (proxy'[g].at = "drained" => proxy[g].at = "drained")
    BY <2>3, <2>4 DEF LogKept
  <2>6. NoStrayProxy'
    <3> SUFFICES ASSUME NEW g \in Proxies, proxy'[g].at = "serving", ~proxy'[g].stop
                 PROVE  \/ srec'.handle = g \/ proxy'[g].lost
                        \/ \E d \in ProxyCallers : pcall'[d].at = "store" /\ pcall'[d].proxy = g
      BY DEF NoStrayProxy
    <3>1. CASE g = h
      BY <2>3, <2>4, <3>1
    <3>2. CASE g # h
      <4>1. proxy'[g] = proxy[g] /\ srec' = srec
        BY <1>4, <2>4, <3>2
      <4>2. ASSUME NEW d \in ProxyCallers, pcall[d].at = "store", pcall[d].proxy = g
            PROVE  pcall'[d].at = "store" /\ pcall'[d].proxy = g
        BY <1>2, <3>2, <4>2 DEF h
      <4> QED
        BY <4>1, <4>2 DEF CaptureInv, NoStrayProxy
    <3> QED
      BY <3>1, <3>2
  <2>7. srec' \in ServiceRecord
    BY <1>0, <1>4 DEF CaptureTypeOK
  <2> QED
    BY <1>0, <1>2, <2>4, <2>5, <2>6, <2>7, CaptureCommandStep
<1> QED
  BY <1>3, <1>4 DEF ProxyStore

\* A request moves on without an event.
LEMMA RequestMoves ==
    ASSUME CaptureInv, NEW q \in ApiRequests, NEW t \in ApiRequest,
           req' = [req EXCEPT ![q] = t], UNCHANGED <<srec, proxy, pcall>>,
           RequestOK(t), t.logged = req[q].logged,
           t.proxy = req[q].proxy \/ ~t.logged,
           t.at = "done" \/ \A h \in Proxies : h = t.proxy => proxy[h].at # "drained"
    PROVE  CaptureInv'
<1> USE DEF CaptureInv
<1>1. req'[q] = t /\ \A p \in ApiRequests \ {q} : req'[p] = req[p]
  BY DEF CaptureTypeOK
<1>2. CaptureTypeOK'
  BY DEF CaptureTypeOK
<1>3. StoreInv' /\ NoStrayProxy'
  BY DEF StoreInv, NoStrayProxy
<1>4. RequestInv'
  <2>1. \A p \in ApiRequests : RequestOK(req'[p])
    BY <1>1 DEF RequestInv
  <2> QED
    BY <2>1 DEF RequestInv, RequestOK
<1>5. DrainInv'
  BY <1>1 DEF DrainInv
<1>6. ASSUME NEW h \in Proxies PROVE Logged(h)' = Logged(h)
  BY <1>1 DEF Logged
<1>7. CountInv'
  BY <1>6, CountKept DEF CountInv, LogKept
<1> QED
  BY <1>2, <1>3, <1>4, <1>5, <1>7

\* One event of a request that had none: queued, or counted.
LEMMA EventIsCounted ==
    ASSUME CaptureInv, NEW q \in ApiRequests, NEW h \in Proxies, NEW p \in ProxyTask,
           ~req[q].logged, proxy[h].at # "drained", p.at = proxy[h].at,
           p.written = proxy[h].written, p.reported = proxy[h].reported,
           \/ p.queue = Append(proxy[h].queue, q) /\ p.dropped = proxy[h].dropped
           \/ p.queue = proxy[h].queue /\ p.dropped = proxy[h].dropped + 1,
           proxy'[h] = p, Logged(h)' = Logged(h) \cup {q}
    PROVE  AddsUp(h)' /\ IsFiniteSet(Counted(h)')
<1> DEFINE s == proxy[h].queue
           Counts == Counted(h)
<1>1. s \in Seq(ApiRequests) /\ proxy[h].dropped \in Nat /\ proxy[h].reported \in Nat
  BY DEF CaptureInv, CaptureTypeOK, ProxyTask
<1>2. AddsUp(h) /\ IsFiniteSet(Counts)
  BY DEF CaptureInv, CountInv
<1>3. q \notin Logged(h) /\ q \notin Queued(h) /\ q \notin InLog(h)
  BY <1>2 DEF AddsUp, Logged
<1>4. InLog(h)' = InLog(h)
  BY DEF InLog
<1>5. CASE p.queue = Append(s, q) /\ p.dropped = proxy[h].dropped
  <2>1. /\ Len(Append(s, q)) = Len(s) + 1 /\ Len(s) \in Nat
        /\ \A i \in 1..Len(s) : Append(s, q)[i] = s[i]
        /\ Append(s, q)[Len(s) + 1] = q
    BY <1>1
  <2>2. Queued(h)' = Queued(h) \cup {q}
    <3>1. Queued(h)' = {Append(s, q)[i] : i \in 1..(Len(s) + 1)}
      BY <1>5, <2>1 DEF Queued
    <3>2. \A i \in 1..(Len(s) + 1) : i = Len(s) + 1 \/ i \in 1..Len(s)
      BY <2>1
    <3>3. Queued(h) = {s[i] : i \in 1..Len(s)}
      BY DEF Queued
    <3>4. \A i \in 1..Len(s) : i \in 1..(Len(s) + 1)
      BY <2>1
    <3>5. Len(s) + 1 \in 1..(Len(s) + 1)
      BY <2>1
    <3>6. \A x : x \in {Append(s, q)[i] : i \in 1..(Len(s) + 1)} <=>
                 x \in {s[i] : i \in 1..Len(s)} \cup {q}
      BY <2>1, <3>2, <3>4, <3>5
    <3> QED
      BY <3>1, <3>3, <3>6
  <2>3. Counted(h)' = Counts
    BY <1>3, <1>4, <2>2 DEF Counted
  <2>4. \A i, j \in 1..Len(Append(s, q)) : Append(s, q)[i] = Append(s, q)[j] => i = j
    <3>1. \A i \in 1..Len(s) : s[i] # q
      BY <1>3 DEF Queued
    <3>2. \A i, j \in 1..Len(s) : s[i] = s[j] => i = j
      BY <1>2 DEF AddsUp
    <3>3. \A i \in 1..Len(Append(s, q)) : i = Len(s) + 1 \/ i \in 1..Len(s)
      BY <2>1
    <3> QED
      BY <2>1, <3>1, <3>2, <3>3
  <2> QED
    BY <1>2, <1>3, <1>4, <1>5, <2>2, <2>3, <2>4 DEF AddsUp
<1>6. CASE p.queue = s /\ p.dropped = proxy[h].dropped + 1
  <2>1. Queued(h)' = Queued(h)
    BY <1>6 DEF Queued
  <2>2. Counted(h)' = Counts \cup {q} /\ q \notin Counts
    BY <1>3, <1>4, <2>1 DEF Counted
  <2>3. IsFiniteSet(Counts \cup {q}) /\ Cardinality(Counts \cup {q}) = Cardinality(Counts) + 1
    BY <1>2, <2>2, FS_AddElement
  <2>4. Cardinality(Counted(h)') = p.dropped + p.reported
    BY <1>1, <1>2, <1>6, <2>2, <2>3 DEF AddsUp
  <2> QED
    BY <1>2, <1>3, <1>4, <1>6, <2>1, <2>2, <2>3, <2>4 DEF AddsUp
<1> QED
  BY <1>5, <1>6

LEMMA LogsEvent ==
    ASSUME CaptureInv, NEW q \in ApiRequests, NEW at \in {"ended", "done"},
           req[q].at \in {"forward", "upgrade", "stream"}, LogEvent(q, at),
           UNCHANGED <<srec, pcall>>
    PROVE  CaptureInv'
<1> DEFINE old == req[q]
           n == req[q].events + 1
           t == [old EXCEPT !.at = at, !.logged = TRUE, !.events = n]
<1>0. CaptureTypeOK /\ RequestOK(old) /\ old \in ApiRequest /\ n \in Nat
  BY DEF CaptureInv, RequestInv, CaptureTypeOK, ApiRequest
<1>1. PICK h \in Proxies : h = req[q].proxy /\ ~req[q].logged /\ n = 1
  BY <1>0 DEF RequestOK, ApiRequest
<1>2. proxy[h].at # "drained"
  BY <1>1 DEF CaptureInv, DrainInv
<1>3. req' = [req EXCEPT ![q] = t]
  BY DEF LogEvent
<1>4. /\ t \in ApiRequest /\ t.at = at /\ t.proxy = old.proxy /\ t.logged
      /\ t.events = n /\ t.total = old.total /\ t.captured = old.captured
  <2> HIDE DEF n, old
  <2> QED
    BY <1>0 DEF ApiRequest
<1>5. RequestOK(t)
  <2> HIDE DEF t
  <2> QED
    BY <1>0, <1>1, <1>4 DEF RequestOK
<1> HIDE DEF t
<1>6. req'[q] = t /\ (\A r \in ApiRequests \ {q} : req'[r] = req[r])
      /\ req' \in [ApiRequests -> ApiRequest]
  BY <1>0, <1>3, <1>4 DEF CaptureTypeOK
<1>7. PICK p \in ProxyTask :
        /\ proxy' = [proxy EXCEPT ![h] = p] /\ p.at = proxy[h].at /\ p.stop = proxy[h].stop
        /\ p.lost = proxy[h].lost
        /\ p.written = proxy[h].written /\ p.reported = proxy[h].reported
        /\ \/ p.queue = Append(proxy[h].queue, q) /\ p.dropped = proxy[h].dropped
           \/ p.queue = proxy[h].queue /\ p.dropped = proxy[h].dropped + 1
  <2> DEFINE o == proxy[h]
             s == Append(o.queue, q)
             d == o.dropped + 1
             p1 == [o EXCEPT !.queue = s]
             p2 == [o EXCEPT !.dropped = d]
  <2>1. o \in ProxyTask /\ s \in Seq(ApiRequests) /\ d \in Nat
    BY <1>0, <1>1 DEF CaptureTypeOK, ProxyTask
  <2>2. proxy' = [proxy EXCEPT ![h] = p1] \/ proxy' = [proxy EXCEPT ![h] = p2]
    BY <1>1 DEF LogEvent, Enqueue
  <2> HIDE DEF o, s, d
  <2>3. /\ p1 \in ProxyTask /\ p1.at = o.at /\ p1.stop = o.stop /\ p1.lost = o.lost
        /\ p1.written = o.written /\ p1.reported = o.reported /\ p1.queue = s
        /\ p1.dropped = o.dropped
    BY <2>1 DEF ProxyTask
  <2>4. /\ p2 \in ProxyTask /\ p2.at = o.at /\ p2.stop = o.stop /\ p2.lost = o.lost
        /\ p2.written = o.written /\ p2.reported = o.reported /\ p2.queue = o.queue
        /\ p2.dropped = d
    BY <2>1 DEF ProxyTask
  <2> HIDE DEF p1, p2
  <2>5. CASE proxy' = [proxy EXCEPT ![h] = p1]
    BY <2>3, <2>5 DEF o, s
  <2>6. CASE proxy' = [proxy EXCEPT ![h] = p2]
    BY <2>4, <2>6 DEF o, d
  <2> QED
    BY <2>2, <2>5, <2>6
<1>8. proxy'[h] = p /\ (\A g \in Proxies \ {h} : proxy'[g] = proxy[g])
      /\ proxy' \in [Proxies -> ProxyTask]
  BY <1>0, <1>1, <1>7 DEF CaptureTypeOK
<1> HIDE DEF n, old
<1>9. CaptureTypeOK'
  BY <1>0, <1>6, <1>8 DEF CaptureTypeOK
<1>10. \A g \in Proxies : /\ proxy'[g].at = proxy[g].at /\ proxy'[g].stop = proxy[g].stop
                          /\ proxy'[g].lost = proxy[g].lost
  BY <1>7, <1>8
<1>11. StoreInv' /\ NoStrayProxy'
  BY <1>10 DEF CaptureInv, StoreInv, NoStrayProxy
<1>12. RequestInv'
  <2>1. \A r \in ApiRequests : RequestOK(req'[r])
    BY <1>5, <1>6 DEF CaptureInv, RequestInv
  <2> QED
    BY <2>1 DEF RequestInv, RequestOK
<1>13. t.proxy = h
  BY <1>1, <1>4 DEF old
<1>14. DrainInv'
  BY <1>2, <1>6, <1>10, <1>13 DEF CaptureInv, DrainInv
<1>15. ASSUME NEW g \in Proxies PROVE AddsUp(g)' /\ IsFiniteSet(Counted(g)')
  <2>1. CASE g = h
    <3>1. Logged(h)' = Logged(h) \cup {q}
      BY <1>4, <1>6, <1>13 DEF Logged
    <3> QED
      BY <1>1, <1>2, <1>7, <1>8, <2>1, <3>1, EventIsCounted
  <2>2. CASE g # h
    <3>1. Logged(g)' = Logged(g)
      BY <1>1, <1>4, <1>6, <1>13, <2>2 DEF Logged
    <3>2. proxy'[g] = proxy[g]
      BY <1>8, <2>2
    <3> QED
      BY <3>1, <3>2, CountKept DEF CaptureInv, CountInv, LogKept
  <2> QED
    BY <2>1, <2>2
<1> QED
  BY <1>9, <1>11, <1>12, <1>14, <1>15 DEF CaptureInv, CountInv

LEMMA RequestsCapture ==
    ASSUME CaptureInv, NEW q \in ApiRequests, ProxyRequest(q)
    PROVE  CaptureInv'
<1> DEFINE old == req[q]
<1>0. CaptureTypeOK /\ RequestOK(old) /\ old \in ApiRequest
  BY DEF CaptureInv, RequestInv, CaptureTypeOK
<1>1. ASSUME NEW at \in {"stream", "done"}, req' = [req EXCEPT ![q].at = at],
             UNCHANGED <<srec, proxy, pcall>>, old.at # "new",
             \/ at = "stream" /\ old.at = "forward"
             \/ at = "done" /\ (old.total > 0 => old.logged)
      PROVE  CaptureInv'
  <2> DEFINE t == [old EXCEPT !.at = at]
  <2>1. req' = [req EXCEPT ![q] = t]
    BY <1>1
  <2>2. /\ t \in ApiRequest /\ t.at = at /\ t.proxy = old.proxy /\ t.logged = old.logged
        /\ t.events = old.events /\ t.total = old.total /\ t.captured = old.captured
    <3> HIDE DEF old
    <3> QED
      BY <1>0 DEF ApiRequest
  <2>3. t.logged = req[q].logged /\ t.proxy = req[q].proxy
    BY <2>2
  <2> HIDE DEF t
  <2>4. RequestOK(t)
    BY <1>0, <1>1, <2>2 DEF RequestOK
  <2>5. t.at = "done" \/ \A h \in Proxies : h = t.proxy => proxy[h].at # "drained"
    <3>1. CASE at = "stream"
      BY <1>1, <2>2, <3>1 DEF CaptureInv, DrainInv
    <3> QED
      BY <2>2, <3>1
  <2> QED
    BY <1>1, <2>1, <2>2, <2>3, <2>4, <2>5, RequestMoves
<1>2. ASSUME NEW h \in Proxies, Arrive(q, h) PROVE CaptureInv'
  <2>1. PICK at \in {"upgrade", "forward"}, b \in BOOLEAN :
          req' = [req EXCEPT ![q].at = at, ![q].proxy = h, ![q].capture = b]
    BY <1>2 DEF Arrive, should_capture_request
  <2> DEFINE t == [old EXCEPT !.at = at, !.proxy = h, !.capture = b]
  <2>2. req' = [req EXCEPT ![q] = t] /\ UNCHANGED <<srec, proxy, pcall>>
        /\ old.at = "new" /\ proxy[h].at = "serving"
    BY <1>2, <2>1 DEF Arrive
  <2>3. /\ t \in ApiRequest /\ t.at = at /\ t.proxy = h /\ t.logged = old.logged
        /\ t.events = old.events /\ t.total = old.total /\ t.captured = old.captured
    <3> HIDE DEF old
    <3> QED
      BY <1>0 DEF ApiRequest
  <2>4. t.logged = req[q].logged
    BY <2>3
  <2> HIDE DEF t
  <2>5. RequestOK(t) /\ ~t.logged
    BY <1>0, <2>2, <2>3, CaptureAssumption DEF RequestOK
  <2>6. \A g \in Proxies : g = t.proxy => proxy[g].at # "drained"
    BY <2>2, <2>3
  <2> QED
    BY <2>2, <2>3, <2>4, <2>5, <2>6, RequestMoves
<1>3. CASE UpstreamFails(q)
  BY <1>3, LogsEvent DEF UpstreamFails
<1>4. CASE ClientLeaves(q)
  BY <1>0, <1>1, <1>4 DEF ClientLeaves, RequestOK
<1>5. CASE proxy_request_inner(q)
  <2>1. PICK at \in {"stream", "done"} : req' = [req EXCEPT ![q].at = at]
    BY <1>5 DEF proxy_request_inner
  <2>2. old.at = "forward" /\ old.total = 0 /\ UNCHANGED <<srec, proxy, pcall>>
    BY <1>0, <1>5 DEF proxy_request_inner, RequestOK
  <2>3. old.at # "new" /\ ~(old.total > 0)
    BY <2>2
  <2>4. CASE at = "stream"
    BY <1>1, <2>1, <2>2, <2>3, <2>4
  <2>5. CASE at = "done"
    BY <1>1, <2>1, <2>2, <2>3, <2>5
  <2> QED
    BY <2>4, <2>5
<1>6. CASE proxy_upgrade_request(q)
  <2>1. CASE LogEvent(q, "done")
    BY <1>6, <2>1, LogsEvent DEF proxy_upgrade_request
  <2>2. CASE req' = [req EXCEPT ![q].at = "done"] /\ UNCHANGED proxy
    BY <1>0, <1>1, <1>6, <2>2 DEF proxy_upgrade_request, RequestOK
  <2> QED
    BY <1>6, <2>1, <2>2 DEF proxy_upgrade_request
<1>7. ASSUME NEW n \in 1..MaxBody, append(q, n) PROVE CaptureInv'
  <2> DEFINE m == old.captured + Min({BodyLimit - old.captured, n})
             k == old.total + n
             t == [old EXCEPT !.total = k, !.captured = m]
  <2>1. req' = [req EXCEPT ![q] = t] /\ UNCHANGED <<srec, proxy, pcall>> /\ old.at = "stream"
    BY <1>7 DEF append
  <2>2. old.total \in Nat /\ old.captured \in Nat /\ n \in Nat /\ k \in Nat
    <3> HIDE DEF old
    <3> QED
      BY <1>0, CaptureAssumption DEF ApiRequest
  <2>3. m \in Nat /\ m = Min({k, BodyLimit})
    <3>1. old.captured = Min({old.total, BodyLimit})
      BY <1>0 DEF RequestOK
    <3> HIDE DEF old
    <3> QED
      BY <2>2, <3>1, AppendKeepsPrefix
  <2> HIDE DEF m, k
  <2>4. /\ t \in ApiRequest /\ t.at = old.at /\ t.proxy = old.proxy /\ t.logged = old.logged
        /\ t.events = old.events /\ t.total = k /\ t.captured = m
    <3> HIDE DEF old
    <3> QED
      BY <1>0, <2>2, <2>3 DEF ApiRequest
  <2>5. t.logged = req[q].logged /\ t.proxy = req[q].proxy
    BY <2>4
  <2> HIDE DEF t
  <2>6. RequestOK(t)
    BY <1>0, <2>1, <2>3, <2>4 DEF RequestOK
  <2>7. \A g \in Proxies : g = t.proxy => proxy[g].at # "drained"
    BY <2>1, <2>5 DEF CaptureInv, DrainInv
  <2> QED
    BY <2>1, <2>4, <2>5, <2>6, <2>7, RequestMoves
<1>8. CASE ResponseEnds(q)
  BY <1>0, <1>8, LogsEvent DEF ResponseEnds, log_once, RequestOK
<1>9. CASE DropResponse(q)
  <2>1. CASE req[q].logged
    BY <1>1, <1>9, <2>1 DEF DropResponse, log_once
  <2>2. CASE ~req[q].logged
    BY <1>0, <1>9, <2>2, LogsEvent DEF DropResponse, log_once, RequestOK
  <2> QED
    BY <2>1, <2>2
<1> QED
  BY <1>2, <1>3, <1>4, <1>5, <1>6, <1>7, <1>8, <1>9 DEF ProxyRequest

\* A step of a proxy's server task or of its log writer.
LEMMA ProxyMoves ==
    ASSUME CaptureInv, NEW h \in Proxies, NEW p \in ProxyTask,
           proxy' = [proxy EXCEPT ![h] = p], UNCHANGED <<srec, pcall, req>>,
           p.stop = proxy[h].stop, p.lost = proxy[h].lost,
           p.at = "serving" => proxy[h].at = "serving",
           p.at = "drained" => proxy[h].at = "drained" \/ InFlight(h) = {},
           AddsUp(h)' /\ IsFiniteSet(Counted(h)')
    PROVE  CaptureInv'
<1> USE DEF CaptureInv
<1>1. proxy'[h] = p /\ \A g \in Proxies \ {h} : proxy'[g] = proxy[g]
  BY DEF CaptureTypeOK
<1>2. CaptureTypeOK'
  BY DEF CaptureTypeOK
<1>3. StoreInv' /\ NoStrayProxy'
  BY <1>1 DEF StoreInv, NoStrayProxy
<1>4. RequestInv'
  BY DEF RequestInv, RequestOK
<1>5. DrainInv'
  BY <1>1 DEF DrainInv, InFlight
<1>6. ASSUME NEW g \in Proxies, g # h PROVE AddsUp(g)' /\ IsFiniteSet(Counted(g)')
  <2>1. Logged(g)' = Logged(g) /\ proxy'[g] = proxy[g]
    BY <1>1, <1>6 DEF Logged
  <2> QED
    BY <2>1, CountKept DEF CountInv, LogKept
<1>7. CountInv'
  BY <1>6 DEF CountInv
<1> QED
  BY <1>2, <1>3, <1>4, <1>5, <1>7

\* What was dropped is reported; the entry at the head of the queue is written.
LEMMA ReportAddsUp ==
    ASSUME CaptureInv, NEW h \in Proxies, NEW p \in ProxyTask,
           proxy'[h] = p, UNCHANGED req,
           p.queue = proxy[h].queue, p.written = proxy[h].written,
           p.dropped = 0, p.reported = proxy[h].reported + proxy[h].dropped,
           p.at = "drained" => p.queue = <<>>
    PROVE  AddsUp(h)' /\ IsFiniteSet(Counted(h)')
<1>1. Logged(h)' = Logged(h) /\ Queued(h)' = Queued(h) /\ InLog(h)' = InLog(h)
  BY DEF Logged, Queued, InLog
<1>2. Counted(h)' = Counted(h)
  BY <1>1 DEF Counted
<1>3. proxy[h].dropped \in Nat /\ proxy[h].reported \in Nat
  BY DEF CaptureInv, CaptureTypeOK, ProxyTask
<1>4. AddsUp(h) /\ IsFiniteSet(Counted(h))
  BY DEF CaptureInv, CountInv
<1>5. Cardinality(Counted(h)') = p.dropped + p.reported
  BY <1>2, <1>3, <1>4 DEF AddsUp
<1>6. p.queue = <<>> => Queued(h)' = {}
  BY DEF Queued
<1> QED
  BY <1>1, <1>2, <1>4, <1>5, <1>6 DEF AddsUp

LEMMA EntryAddsUp ==
    ASSUME CaptureInv, NEW h \in Proxies, NEW p \in ProxyTask, proxy[h].queue # <<>>,
           proxy'[h] = p, UNCHANGED req, p.at = proxy[h].at,
           p.queue = Tail(proxy[h].queue), p.dropped = 0,
           p.reported = proxy[h].reported + proxy[h].dropped,
           p.written = [proxy[h].written EXCEPT ![Head(proxy[h].queue)] = @ + 1]
    PROVE  AddsUp(h)' /\ IsFiniteSet(Counted(h)')
<1> DEFINE s == proxy[h].queue
           w == proxy[h].written
<1>1. /\ s \in Seq(ApiRequests) /\ proxy[h].dropped \in Nat /\ proxy[h].reported \in Nat
      /\ w \in [ApiRequests -> Nat]
  BY DEF CaptureInv, CaptureTypeOK, ProxyTask
<1>2. AddsUp(h) /\ IsFiniteSet(Counted(h))
  BY DEF CaptureInv, CountInv
<1>3. \A i, j \in 1..Len(s) : s[i] = s[j] => i = j
  BY <1>2 DEF AddsUp
<1>4. \A i \in 1..Len(s) : w[s[i]] # 1 /\ s[i] \in Logged(h)
  BY <1>1, <1>2 DEF AddsUp, Queued, InLog
<1>5. \A r \in ApiRequests : w[r] <= 1
  BY <1>2 DEF AddsUp
<1>6. InLog(h) \subseteq Logged(h) \ Queued(h) /\ Queued(h) \subseteq Logged(h)
  BY <1>2 DEF AddsUp
<1>7. PICK q \in ApiRequests : q = Head(s) /\ q = s[1] /\ 1 \in 1..Len(s)
  BY <1>1
<1>8. q \in Queued(h) /\ proxy[h].at # "drained"
  <2>1. q \in Queued(h)
    BY <1>7 DEF Queued
  <2> QED
    BY <1>2, <2>1 DEF AddsUp
<1>9. /\ Len(Tail(s)) = Len(s) - 1 /\ Len(s) \in Nat
      /\ \A i \in 1..(Len(s) - 1) : Tail(s)[i] = s[i + 1]
  BY <1>1
<1>10. w[q] = 0 /\ q \in Logged(h)
  <2>1. w[q] # 1 /\ q \in Logged(h)
    BY <1>4, <1>7
  <2>2. w[q] \in Nat /\ w[q] <= 1
    BY <1>1, <1>5
  <2> HIDE DEF w
  <2> QED
    BY <2>1, <2>2
<1>11. Queued(h)' = Queued(h) \ {q}
  <2>1. Queued(h)' = {Tail(s)[i] : i \in 1..(Len(s) - 1)}
    BY <1>9 DEF Queued
  <2>2. Queued(h) = {s[i] : i \in 1..Len(s)}
    BY DEF Queued
  <2>3. \A i \in 1..(Len(s) - 1) : i + 1 \in 1..Len(s) /\ s[i + 1] # q
    BY <1>3, <1>7, <1>9
  <2>4. \A i \in 1..Len(s) : s[i] # q => i - 1 \in 1..(Len(s) - 1) /\ Tail(s)[i - 1] = s[i]
    BY <1>7, <1>9
  <2>5. \A x : x \in {Tail(s)[i] : i \in 1..(Len(s) - 1)} <=> x \in {s[i] : i \in 1..Len(s)} \ {q}
    <3>1. ASSUME NEW i \in 1..(Len(s) - 1) PROVE Tail(s)[i] \in {s[j] : j \in 1..Len(s)} \ {q}
      BY <1>9, <2>3
    <3>2. ASSUME NEW i \in 1..Len(s), s[i] # q
          PROVE  s[i] \in {Tail(s)[j] : j \in 1..(Len(s) - 1)}
      BY <2>4, <3>2
    <3> QED
      BY <3>1, <3>2
  <2> QED
    BY <2>1, <2>2, <2>5
<1>12. InLog(h)' = InLog(h) \cup {q}
  BY <1>1, <1>7, <1>10 DEF InLog
<1>13. Logged(h)' = Logged(h)
  BY DEF Logged
<1>14. Counted(h)' = Counted(h)
  BY <1>6, <1>8, <1>11, <1>12, <1>13 DEF Counted
<1>15. Cardinality(Counted(h)') = p.dropped + p.reported
  BY <1>1, <1>2, <1>14 DEF AddsUp
<1>16. \A r \in ApiRequests : p.written[r] <= 1
  BY <1>1, <1>5, <1>7, <1>10
<1>17. \A i, j \in 1..Len(p.queue) : p.queue[i] = p.queue[j] => i = j
  <2>1. \A i, j \in 1..(Len(s) - 1) : s[i + 1] = s[j + 1] => i = j
    <3> SUFFICES ASSUME NEW i \in 1..(Len(s) - 1), NEW j \in 1..(Len(s) - 1), s[i + 1] = s[j + 1]
                 PROVE  i = j
      OBVIOUS
    <3>1. i + 1 \in 1..Len(s) /\ j + 1 \in 1..Len(s)
      BY <1>9
    <3>2. i + 1 = j + 1
      BY <1>3, <3>1
    <3> QED
      BY <3>2
  <2> QED
    BY <1>9, <2>1
<1> QED
  BY <1>2, <1>6, <1>8, <1>10, <1>11, <1>12, <1>13, <1>14, <1>15, <1>16, <1>17 DEF AddsUp

LEMMA ProxyTasksCapture ==
    ASSUME CaptureInv, NEW h \in Proxies, SeesStop(h) \/ spawn_capture_log_writer(h)
    PROVE  CaptureInv'
<1> DEFINE o == proxy[h]
<1>0. CaptureTypeOK /\ o \in ProxyTask /\ UNCHANGED <<srec, pcall, req>>
  BY DEF CaptureInv, CaptureTypeOK, SeesStop, spawn_capture_log_writer, WriteEntry,
     write_dropped_summary, DrainComplete
<1>1. CASE SeesStop(h)
  <2> DEFINE p == [o EXCEPT !.at = "closing"]
  <2>1. proxy' = [proxy EXCEPT ![h] = p]
    BY <1>1 DEF SeesStop
  <2>2. /\ p \in ProxyTask /\ p.at = "closing" /\ p.stop = o.stop /\ p.lost = o.lost
        /\ p.queue = o.queue /\ p.written = o.written /\ p.dropped = o.dropped
        /\ p.reported = o.reported
    <3> HIDE DEF o
    <3> QED
      BY <1>0 DEF ProxyTask
  <2> HIDE DEF p
  <2>3. LogKept(h) /\ proxy'[h].at # "drained" /\ Logged(h)' = Logged(h)
    BY <1>0, <2>1, <2>2 DEF LogKept, CaptureTypeOK, Logged
  <2>4. AddsUp(h)' /\ IsFiniteSet(Counted(h)')
    BY <2>3, CountKept DEF CaptureInv, CountInv
  <2> QED
    BY <1>0, <2>1, <2>2, <2>4, ProxyMoves
<1>2. ASSUME NEW at \in {"unborn", "serving", "closing", "drained"},
             proxy' = [proxy EXCEPT ![h] = [Report(o) EXCEPT !.at = at]],
             \/ at = o.at /\ o.at # "drained"
             \/ at = "drained" /\ o.queue = <<>> /\ InFlight(h) = {}
      PROVE  CaptureInv'
  <2> DEFINE n == o.reported + o.dropped
             p == [[o EXCEPT !.reported = n, !.dropped = 0] EXCEPT !.at = at]
  <2>1. proxy' = [proxy EXCEPT ![h] = p]
    BY <1>2 DEF Report
  <2>2. n \in Nat
    BY <1>0 DEF ProxyTask
  <2>3. /\ p \in ProxyTask /\ p.at = at /\ p.stop = o.stop /\ p.lost = o.lost
        /\ p.queue = o.queue /\ p.written = o.written /\ p.dropped = 0 /\ p.reported = n
    <3> HIDE DEF o, n
    <3> QED
      BY <1>0, <2>2 DEF ProxyTask
  <2> HIDE DEF p
  <2>4. proxy'[h] = p
    BY <1>0, <2>1 DEF CaptureTypeOK
  <2>5. p.at = "drained" => p.queue = <<>>
    BY <1>2, <2>3
  <2>6. AddsUp(h)' /\ IsFiniteSet(Counted(h)')
    BY <1>0, <2>3, <2>4, <2>5, ReportAddsUp
  <2> QED
    BY <1>0, <1>2, <2>1, <2>3, <2>6, ProxyMoves
<1>3. CASE WriteEntry(h)
  <2> DEFINE n == o.reported + o.dropped
             s == Tail(o.queue)
             w == [o.written EXCEPT ![Head(o.queue)] = @ + 1]
             p == [[o EXCEPT !.reported = n, !.dropped = 0] EXCEPT !.queue = s, !.written = w]
  <2>1. n \in Nat /\ s \in Seq(ApiRequests) /\ w \in [ApiRequests -> Nat] /\ o.queue # <<>>
    BY <1>0, <1>3 DEF ProxyTask, WriteEntry
  <2>2. proxy' = [proxy EXCEPT ![h] = p]
    BY <1>0, <1>3 DEF WriteEntry, Report, ProxyTask
  <2>3. /\ p \in ProxyTask /\ p.at = o.at /\ p.stop = o.stop /\ p.lost = o.lost
        /\ p.queue = s /\ p.written = w /\ p.dropped = 0 /\ p.reported = n
    <3> HIDE DEF o, n, s, w
    <3> QED
      BY <1>0, <2>1 DEF ProxyTask
  <2> HIDE DEF p
  <2>4. proxy'[h] = p
    BY <1>0, <2>2 DEF CaptureTypeOK
  <2>5. AddsUp(h)' /\ IsFiniteSet(Counted(h)')
    BY <1>0, <2>1, <2>3, <2>4, EntryAddsUp
  <2> QED
    BY <1>0, <2>2, <2>3, <2>5, ProxyMoves
<1>4. CASE write_dropped_summary(h)
  <2>1. [Report(o) EXCEPT !.at = o.at] = Report(o)
    BY <1>0 DEF Report, ProxyTask
  <2>2. o.at # "drained"
    BY <1>4 DEF write_dropped_summary, CaptureInv, CountInv, AddsUp
  <2>3. o.at \in {"unborn", "serving", "closing", "drained"}
    BY <1>0 DEF ProxyTask
  <2>4. proxy' = [proxy EXCEPT ![h] = [Report(o) EXCEPT !.at = o.at]]
    BY <1>4, <2>1 DEF write_dropped_summary
  <2> QED
    BY <1>2, <2>2, <2>3, <2>4
<1>5. CASE DrainComplete(h)
  BY <1>2, <1>5 DEF DrainComplete
<1> QED
  BY <1>1, <1>3, <1>4, <1>5 DEF spawn_capture_log_writer

LEMMA CaptureStart == CaptureInit => CaptureInv
<1> SUFFICES ASSUME CaptureInit PROVE CaptureInv
  OBVIOUS
<1>1. NoService \in ServiceRecord
  BY DEF NoService, ServiceRecord
<1>2. /\ UnbornProxy \in ProxyTask /\ UnbornProxy.at = "unborn" /\ UnbornProxy.queue = <<>>
      /\ UnbornProxy.dropped = 0 /\ UnbornProxy.reported = 0
      /\ \A q \in ApiRequests : UnbornProxy.written[q] = 0
  BY DEF UnbornProxy, ProxyTask
<1>3. IdleCall \in ProxyCall /\ IdleCall.at = "idle"
  BY DEF IdleCall, ProxyCall
<1>4. Min({0, BodyLimit}) = 0
  BY CaptureAssumption, MinOfTwo
<1>5. /\ NewRequest \in ApiRequest /\ NewRequest.at = "new" /\ ~NewRequest.logged
      /\ RequestOK(NewRequest)
  BY <1>4 DEF NewRequest, ApiRequest, RequestOK
<1>6. CaptureTypeOK
  BY <1>1, <1>2, <1>3, <1>5 DEF CaptureInit, CaptureTypeOK
<1>7. StoreInv /\ NoStrayProxy /\ DrainInv
  BY <1>2, <1>3 DEF CaptureInit, StoreInv, NoStrayProxy, DrainInv
<1>8. RequestInv
  BY <1>5 DEF CaptureInit, RequestInv
<1>9. ASSUME NEW h \in Proxies PROVE AddsUp(h) /\ IsFiniteSet(Counted(h))
  <2>1. proxy[h] = UnbornProxy
    BY DEF CaptureInit
  <2>2. Logged(h) = {}
    BY <1>5 DEF CaptureInit, Logged
  <2>3. Queued(h) = {} /\ InLog(h) = {}
    BY <1>2, <2>1 DEF Queued, InLog
  <2>4. Counted(h) = {}
    BY <2>2 DEF Counted
  <2>5. IsFiniteSet(Counted(h)) /\ Cardinality(Counted(h)) = 0
    BY <2>4, FS_EmptySet
  <2> QED
    BY <1>2, <2>1, <2>2, <2>3, <2>5 DEF AddsUp
<1> QED
  BY <1>6, <1>7, <1>8, <1>9 DEF CaptureInv, CountInv

LEMMA CaptureStep == CaptureInv /\ [CaptureNext]_captureVars => CaptureInv'
<1> SUFFICES ASSUME CaptureInv, [CaptureNext]_captureVars PROVE CaptureInv'
  OBVIOUS
<1>1. CASE UNCHANGED captureVars
  <2>1. UNCHANGED <<srec, proxy, pcall, req>>
    BY <1>1 DEF captureVars
  <2>2. CaptureTypeOK' /\ StoreInv' /\ NoStrayProxy' /\ RequestInv' /\ DrainInv'
    BY <2>1 DEF CaptureInv, CaptureTypeOK, StoreInv, NoStrayProxy, RequestInv, RequestOK, DrainInv
  <2>3. \A h \in Proxies : Logged(h)' = Logged(h)
    BY <2>1 DEF Logged
  <2>4. CountInv'
    BY <2>1, <2>3, CountKept DEF CaptureInv, CountInv, LogKept
  <2> QED
    BY <2>2, <2>4 DEF CaptureInv
<1>2. ASSUME NEW c \in ProxyCallers, ProxyCommand(c) PROVE CaptureInv'
  BY <1>2, CommandsCapture, StartCapture, StoreCapture DEF ProxyCommand
<1>3. ASSUME NEW q \in ApiRequests, ProxyRequest(q) PROVE CaptureInv'
  BY <1>3, RequestsCapture
<1>4. ASSUME NEW h \in Proxies, SeesStop(h) \/ spawn_capture_log_writer(h) PROVE CaptureInv'
  BY <1>4, ProxyTasksCapture
<1> QED
  BY <1>1, <1>2, <1>3, <1>4 DEF CaptureNext

(***************************************************************************)
(* However many launches, refreshes, downs and purges overlap: a proxy     *)
(* that listens and was not told to stop is the one the record names or    *)
(* still in the hands of sync_service_api_capture_proxy, unless its run    *)
(* was removed.                                                            *)
(***************************************************************************)
THEOREM NoProxyIsLeftBehind == CaptureSpec => []NoStrayProxy
<1>1. CaptureInv => NoStrayProxy
  BY DEF CaptureInv
<1> QED
  BY <1>1, CaptureStart, CaptureStep, PTL DEF CaptureSpec

(***************************************************************************)
(* For any number of requests, any size of the queue and of bodies: each   *)
(* logged request is queued once, written once or counted as dropped, none *)
(* twice, and the body that is kept is the prefix the limit allows.        *)
(***************************************************************************)
THEOREM EveryEventIsAccountedFor == CaptureSpec => []EventsAccountedFor
<1>1. CaptureInv => EventsAccountedFor
  <2> SUFFICES ASSUME CaptureInv PROVE EventsAccountedFor
    OBVIOUS
  <2>1. EventsAddUp
    BY DEF CaptureInv, CountInv, EventsAddUp
  <2>2. LoggedOnce
    <3> SUFFICES ASSUME NEW q \in ApiRequests
                 PROVE  /\ req[q].events <= 1
                        /\ req[q].at = "done" /\ req[q].total > 0 => req[q].events = 1
      BY DEF LoggedOnce
    <3>1. RequestOK(req[q])
      BY DEF CaptureInv, RequestInv
    <3>2. req[q].events \in {0, 1}
      BY <3>1 DEF RequestOK
    <3> QED
      BY <3>1, <3>2 DEF RequestOK
  <2>3. BodyCapped
    BY DEF CaptureInv, RequestInv, RequestOK, BodyCapped
  <2> QED
    BY <2>1, <2>2, <2>3 DEF EventsAccountedFor
<1> QED
  BY <1>1, CaptureStart, CaptureStep, PTL DEF CaptureSpec

-----------------------------------------------------------------------------

(***************************************************************************)
(* Manifests.  No two runs share a file; the temporary file of a run is    *)
(* never its manifest.  A writer that met no other has the temporary file  *)
(* for itself, which holds nothing before it writes and its copy after     *)
(* that; one that met another has its run marked.  Once a down is on disk, *)
(* the record is stopped and so is the copy of every writer that is alone. *)
(***************************************************************************)
Fills(w) == pers[w].at \in {"write", "rename"}
Uses(r, i) == \/ main[r] = i \/ tmp[r] = i
              \/ \E w \in Persisters : Fills(w) /\ pers[w].run = r /\ pers[w].ino = i

RunsInv == \A w \in Persisters : /\ pers[w].at # "idle" => pers[w].run \in ManifestRuns
                                 /\ Fills(w) => pers[w].ino # NoInode
FilesInv ==
    /\ \A i \in Inodes : \A r, q \in ManifestRuns : Uses(r, i) /\ Uses(q, i) => r = q
    /\ \A r \in ManifestRuns : tmp[r] # NoInode => tmp[r] # main[r]
AloneInv ==
    \A r \in ManifestRuns, w \in Persisters : Writing(w, r) =>
        /\ pers[w].snap.present
        /\ ~pers[w].alone => overlap[r]
        /\ pers[w].alone =>
             /\ \A v \in Persisters : Writing(v, r) => v = w
             /\ Fills(w) => tmp[r] = pers[w].ino
             /\ pers[w].at = "write" => content[tmp[r]] = Torn
             /\ pers[w].at = "rename" => content[tmp[r]] = pers[w].snap
DownInv ==
    \A r \in ManifestRuns :
        /\ \A w \in Persisters : Writing(w, r) /\ pers[w].snap.stopped
              => ~rrec[r].present \/ rrec[r].stopped
        /\ ended[r] = "down" =>
             /\ ~rrec[r].present \/ rrec[r].stopped
             /\ \A w \in Persisters : Writing(w, r) /\ pers[w].alone => pers[w].snap.stopped
             /\ overlap[r] \/ main[r] = NoInode \/ content[main[r]].stopped
        /\ ended[r] = "restarted" =>
             /\ ~rrec[r].present /\ ~overlap[r]
             /\ \A w \in Persisters : pers[w].at = "idle" \/ pers[w].run # r
             /\ main[r] = NoInode \/ content[main[r]].stopped

ManifestInv ==
    ManifestTypeOK /\ RunsInv /\ FilesInv /\ AloneInv /\ DownInv /\ TornOnlyByOverlap

LEMMA TornRecord == Torn \in RunRecord /\ NoRun \in RunRecord /\ ~Torn.present /\ ~Torn.stopped
                    /\ ~NoRun.present
<1>1. MaxChanges + 1 \in Nat
  BY ManifestAssumption
<1> QED
  BY <1>1 DEF Torn, NoRun, RunRecord

LEMMA IdleRecord == IdlePersister \in Persister /\ IdlePersister.at = "idle"
BY TornRecord DEF IdlePersister, Persister

\* No file changes, and no new writer appears.
LEMMA QuietStep ==
    ASSUME ManifestInv, UNCHANGED <<main, tmp, content, overlap>>,
           pers' \in [Persisters -> Persister], rrec' \in [ManifestRuns -> RunRecord],
           changes' \in Nat, ended' \in [ManifestRuns -> {"no", "down", "restarted"}],
           \A w \in Persisters : /\ pers'[w].at \in {"create", "write", "rename"} =>
                                      pers'[w] = pers[w]
                                 /\ pers'[w].at # "idle" => pers'[w].run \in ManifestRuns,
           DownInv'
    PROVE  ManifestInv'
<1> USE DEF ManifestInv
<1>1. ManifestTypeOK'
  BY DEF ManifestTypeOK
<1>2. RunsInv'
  BY DEF RunsInv, Fills
<1>3. \A r \in ManifestRuns, i \in Inodes : Uses(r, i)' => Uses(r, i)
  BY DEF Uses, Fills
<1>4. FilesInv'
  BY <1>3 DEF FilesInv
<1>5. \A w \in Persisters, r \in ManifestRuns :
        Writing(w, r)' => Writing(w, r) /\ pers'[w] = pers[w]
  BY DEF Writing
<1>6. AloneInv'
  BY <1>5 DEF AloneInv, Fills
<1>7. TornOnlyByOverlap'
  BY DEF TornOnlyByOverlap
<1> QED
  BY <1>1, <1>2, <1>4, <1>6, <1>7

LEMMA ChangeKeeps ==
    ASSUME ManifestInv, NEW w \in Persisters, NEW r \in ManifestRuns, NEW rec \in RunRecord,
           NEW purge \in BOOLEAN, Change(w, r, rec, purge),
           \/ /\ ended[r] = "no" /\ \A v \in Persisters : pers[v].run # r
           \/ rrec[r].present /\ (rrec[r].stopped => rec.stopped)
    PROVE  ManifestInv'
<1> USE DEF ManifestInv
<1> DEFINE t == [IdlePersister EXCEPT !.at = "persist", !.run = r, !.purge = purge]
<1>1. /\ UNCHANGED <<main, tmp, content, overlap, ended>> /\ changes' = changes + 1
      /\ rrec' = [rrec EXCEPT ![r] = rec] /\ pers' = [pers EXCEPT ![w] = t]
      /\ pers[w].at = "idle"
  BY DEF Change
<1>2. t \in Persister /\ t.at = "persist" /\ t.run = r
  BY TornRecord DEF IdlePersister, Persister
<1> HIDE DEF t
<1>3. /\ pers'[w] = t /\ (\A v \in Persisters \ {w} : pers'[v] = pers[v])
      /\ pers' \in [Persisters -> Persister]
  BY <1>1, <1>2 DEF ManifestTypeOK
<1>4. /\ rrec'[r] = rec /\ (\A q \in ManifestRuns \ {r} : rrec'[q] = rrec[q])
      /\ rrec' \in [ManifestRuns -> RunRecord]
  BY <1>1 DEF ManifestTypeOK
<1>5. changes' \in Nat /\ ended' \in [ManifestRuns -> {"no", "down", "restarted"}]
  BY <1>1 DEF ManifestTypeOK
<1>6. \A v \in Persisters : /\ pers'[v].at \in {"create", "write", "rename"} => pers'[v] = pers[v]
                            /\ pers'[v].at # "idle" => pers'[v].run \in ManifestRuns
  BY <1>2, <1>3 DEF RunsInv
<1>7. \A v \in Persisters, q \in ManifestRuns :
        Writing(v, q)' => Writing(v, q) /\ pers'[v] = pers[v]
  BY <1>6 DEF Writing
<1>8. ended[r] # "restarted"
  BY DEF DownInv
<1>9. DownInv'
  <2> SUFFICES ASSUME NEW q \in ManifestRuns
               PROVE  /\ \A v \in Persisters : Writing(v, q)' /\ pers'[v].snap.stopped
                            => ~rrec'[q].present \/ rrec'[q].stopped
                      /\ ended'[q] = "down" =>
                           /\ ~rrec'[q].present \/ rrec'[q].stopped
                           /\ \A v \in Persisters : Writing(v, q)' /\ pers'[v].alone
                                => pers'[v].snap.stopped
                           /\ overlap'[q] \/ main'[q] = NoInode \/ content'[main'[q]].stopped
                      /\ ended'[q] = "restarted" =>
                           /\ ~rrec'[q].present /\ ~overlap'[q]
                           /\ \A v \in Persisters : pers'[v].at = "idle" \/ pers'[v].run # q
                           /\ main'[q] = NoInode \/ content'[main'[q]].stopped
    BY DEF DownInv
  <2>1. CASE q # r
    BY <1>1, <1>2, <1>3, <1>4, <1>7, <2>1 DEF DownInv
  <2>2. CASE q = r /\ ended[r] = "no" /\ \A v \in Persisters : pers[v].run # r
    BY <1>1, <1>7, <2>2 DEF Writing
  <2>3. CASE q = r /\ rrec[r].present /\ (rrec[r].stopped => rec.stopped)
    BY <1>1, <1>4, <1>7, <1>8, <2>3 DEF DownInv
  <2> QED
    BY <2>1, <2>2, <2>3
<1> QED
  BY <1>1, <1>3, <1>4, <1>5, <1>6, <1>9, QuietStep

LEMMA ChangesManifest ==
    ASSUME ManifestInv, NEW w \in Persisters, NEW r \in ManifestRuns,
           CreateRun(w, r) \/ TouchRun(w, r) \/ StopRun(w, r)
    PROVE  ManifestInv'
<1>0. rrec[r] \in RunRecord /\ changes + 1 \in Nat
  BY DEF ManifestInv, ManifestTypeOK
<1>1. CASE CreateRun(w, r)
  <2> DEFINE n == changes + 1
             rec == [present |-> TRUE, version |-> n, stopped |-> FALSE]
  <2>1. rec \in RunRecord /\ Change(w, r, rec, FALSE) /\ ended[r] = "no"
        /\ \A v \in Persisters : pers[v].run # r
    BY <1>0, <1>1 DEF CreateRun, RunRecord
  <2> HIDE DEF rec
  <2> QED
    BY <2>1, ChangeKeeps
<1>2. CASE TouchRun(w, r)
  <2> DEFINE n == changes + 1
             rec == [rrec[r] EXCEPT !.version = n]
  <2>1. Change(w, r, rec, FALSE) /\ rrec[r].present
    BY <1>2 DEF TouchRun
  <2> HIDE DEF n
  <2>2. rec \in RunRecord /\ rec.stopped = rrec[r].stopped
    BY <1>0 DEF RunRecord, n
  <2> HIDE DEF rec
  <2> QED
    BY <2>1, <2>2, ChangeKeeps
<1>3. CASE StopRun(w, r)
  <2> DEFINE n == changes + 1
             rec == [rrec[r] EXCEPT !.version = n, !.stopped = TRUE]
  <2>1. PICK purge \in BOOLEAN : Change(w, r, rec, purge) /\ rrec[r].present
    BY <1>3 DEF StopRun
  <2> HIDE DEF n
  <2>2. rec \in RunRecord /\ rec.stopped
    BY <1>0 DEF RunRecord, n
  <2> HIDE DEF rec
  <2> QED
    BY <2>1, <2>2, ChangeKeeps
<1> QED
  BY <1>1, <1>2, <1>3

\* persist_manifest copies the record and joins the writers of the run.
LEMMA SnapshotManifest ==
    ASSUME ManifestInv, NEW w \in Persisters, Snapshot(w)
    PROVE  ManifestInv'
<1> USE DEF ManifestInv
<1>1. PICK r \in ManifestRuns : r = pers[w].run /\ pers[w].at = "persist"
  BY DEF Snapshot, RunsInv
<1>2. UNCHANGED <<rrec, main, tmp, content, changes, ended>>
  BY DEF Snapshot
<1>3. CASE ~rrec[r].present /\ pers' = [pers EXCEPT ![w] = IdlePersister] /\ UNCHANGED overlap
  <2>1. /\ pers'[w] = IdlePersister /\ (\A v \in Persisters \ {w} : pers'[v] = pers[v])
        /\ pers' \in [Persisters -> Persister]
    BY <1>3, IdleRecord DEF ManifestTypeOK
  <2>2. \A v \in Persisters : \/ pers'[v].at = "idle" \/ pers'[v] = pers[v]
    BY <2>1, IdleRecord
  <2>3. \A v \in Persisters : /\ pers'[v].at \in {"create", "write", "rename"} => pers'[v] = pers[v]
                              /\ pers'[v].at # "idle" => pers'[v].run \in ManifestRuns
    BY <2>2 DEF RunsInv
  <2>4. \A v \in Persisters, q \in ManifestRuns :
          Writing(v, q)' => Writing(v, q) /\ pers'[v] = pers[v]
    BY <2>3 DEF Writing
  <2>5. DownInv'
    BY <1>2, <1>3, <2>2, <2>4 DEF DownInv
  <2> QED
    BY <1>2, <1>3, <2>1, <2>3, <2>5, QuietStep DEF ManifestTypeOK
<1>4. CASE /\ rrec[r].present
           /\ pers' = [v \in Persisters |->
                          IF v = w THEN [pers[w] EXCEPT !.at = "create", !.snap = rrec[r],
                                                        !.alone = Others(w) = {}]
                          ELSE [pers[v] EXCEPT !.alone = @ /\ v \notin Others(w)]]
           /\ overlap' = [overlap EXCEPT ![r] = @ \/ Others(w) # {}]
  <2> DEFINE rec == rrec[r]
             old == pers[w]
             a == Others(w) = {}
             t == [old EXCEPT !.at = "create", !.snap = rec, !.alone = a]
  <2>1. rec \in RunRecord /\ old \in Persister /\ a \in BOOLEAN
    BY DEF ManifestTypeOK
  <2>2. pers'[w] = t
    BY <1>4
  <2>3. /\ t \in Persister /\ t.at = "create" /\ t.run = old.run /\ t.snap = rec /\ t.alone = a
    <3> HIDE DEF rec, old, a
    <3> QED
      BY <2>1 DEF Persister
  <2> HIDE DEF t
  <2>4. ASSUME NEW v \in Persisters, v # w
        PROVE  /\ pers'[v] \in Persister /\ pers'[v].at = pers[v].at /\ pers'[v].run = pers[v].run
               /\ pers'[v].snap = pers[v].snap /\ pers'[v].ino = pers[v].ino
               /\ pers'[v].alone => pers[v].alone /\ v \notin Others(w)
               /\ pers[v].alone /\ v \notin Others(w) => pers'[v].alone
    <3> DEFINE ov == pers[v]
               b == ov.alone /\ v \notin Others(w)
               u == [ov EXCEPT !.alone = b]
    <3>1. pers'[v] = u /\ ov \in Persister /\ b \in BOOLEAN
      BY <1>4, <2>4 DEF ManifestTypeOK, Persister
    <3>2. (b => ov.alone /\ v \notin Others(w)) /\ (ov.alone /\ v \notin Others(w) => b)
      OBVIOUS
    <3> HIDE DEF b, ov
    <3>3. /\ u \in Persister /\ u.at = ov.at /\ u.run = ov.run /\ u.snap = ov.snap
          /\ u.ino = ov.ino /\ u.alone = b
      BY <3>1 DEF Persister
    <3> HIDE DEF u
    <3> QED
      BY <3>1, <3>2, <3>3 DEF ov
  <2>5. pers' \in [Persisters -> Persister]
    <3>1. \A v \in Persisters : pers'[v] \in Persister
      BY <2>2, <2>3, <2>4
    <3>2. pers' = [v \in Persisters |-> pers'[v]]
      BY <1>4
    <3> QED
      BY <3>1, <3>2
  <2>6. /\ overlap' \in [ManifestRuns -> BOOLEAN]
        /\ \A q \in ManifestRuns : overlap[q] => overlap'[q]
        /\ \A q \in ManifestRuns \ {r} : overlap'[q] = overlap[q]
        /\ ~a => overlap'[r]
    <3> DEFINE o == overlap[r] \/ Others(w) # {}
    <3>1. overlap' = [overlap EXCEPT ![r] = o] /\ o \in BOOLEAN /\ (overlap[r] => o) /\ (~a => o)
      BY <1>4 DEF ManifestTypeOK
    <3> HIDE DEF o, a
    <3> QED
      BY <3>1 DEF ManifestTypeOK
  <2>7. ManifestTypeOK'
    BY <1>2, <2>5, <2>6 DEF ManifestTypeOK
  <2>8. RunsInv'
    BY <1>1, <2>2, <2>3, <2>4 DEF RunsInv, Fills
  <2>9. ~Fills(w)' /\ \A v \in Persisters \ {w} : Fills(v)' = Fills(v)
    BY <2>2, <2>3, <2>4 DEF Fills
  <2>10. \A q \in ManifestRuns, i \in Inodes : Uses(q, i)' => Uses(q, i)
    BY <1>2, <2>4, <2>9 DEF Uses
  <2>11. FilesInv'
    BY <1>2, <2>10 DEF FilesInv
  <2>12. \A v \in Persisters \ {w}, q \in ManifestRuns : Writing(v, q)' <=> Writing(v, q)
    BY <2>4 DEF Writing
  <2>13. \A q \in ManifestRuns : Writing(w, q)' => q = r
    BY <1>1, <2>2, <2>3 DEF Writing
  <2>14. \A v \in Persisters \ {w} : Writing(v, r) <=> v \in Others(w)
    BY <1>1 DEF Others
  <2>15. AloneInv'
    <3> SUFFICES ASSUME NEW q \in ManifestRuns, NEW v \in Persisters, Writing(v, q)'
                 PROVE  /\ pers'[v].snap.present
                        /\ ~pers'[v].alone => overlap'[q]
                        /\ pers'[v].alone =>
                             /\ \A u \in Persisters : Writing(u, q)' => u = v
                             /\ Fills(v)' => tmp'[q] = pers'[v].ino
                             /\ pers'[v].at = "write" => content'[tmp'[q]] = Torn
                             /\ pers'[v].at = "rename" => content'[tmp'[q]] = pers'[v].snap
      BY DEF AloneInv
    <3>1. CASE v = w
      <4>1. q = r /\ pers'[v].snap.present /\ (~pers'[v].alone => overlap'[q])
        BY <1>4, <2>2, <2>3, <2>6, <2>13, <3>1
      <4>2. ASSUME pers'[v].alone, NEW u \in Persisters, Writing(u, q)' PROVE u = v
        <5>1. Others(w) = {}
          BY <2>2, <2>3, <3>1, <4>2
        <5> QED
          BY <2>12, <2>14, <3>1, <4>1, <4>2, <5>1
      <4> QED
        BY <2>2, <2>3, <2>9, <3>1, <4>1, <4>2
    <3>2. CASE v # w
      <4>1. Writing(v, q)
        BY <2>12, <3>2
      <4>2. pers'[v].snap.present
        BY <2>4, <3>2, <4>1 DEF AloneInv
      <4>3. CASE v \in Others(w)
        <5>1. ~pers'[v].alone /\ q = r /\ Others(w) # {}
          BY <1>1, <2>4, <3>2, <4>1, <4>3 DEF Writing, Others
        <5> QED
          BY <2>6, <4>2, <5>1
      <4>4. CASE v \notin Others(w)
        <5>1. q # r
          BY <2>14, <3>2, <4>1, <4>4
        <5>2. \A u \in Persisters : Writing(u, q)' => Writing(u, q)
          BY <2>12, <2>13, <5>1
        <5>3. Fills(v)' = Fills(v)
          BY <2>9, <3>2
        <5>4. ~pers'[v].alone => overlap'[q]
          BY <2>4, <2>6, <3>2, <4>1, <4>4 DEF AloneInv
        <5> QED
          BY <1>2, <2>4, <3>2, <4>1, <4>2, <5>2, <5>3, <5>4 DEF AloneInv
      <4> QED
        BY <4>3, <4>4
    <3> QED
      BY <3>1, <3>2
  <2>16. DownInv'
    <3> SUFFICES ASSUME NEW q \in ManifestRuns
                 PROVE  /\ \A v \in Persisters : Writing(v, q)' /\ pers'[v].snap.stopped
                              => ~rrec'[q].present \/ rrec'[q].stopped
                        /\ ended'[q] = "down" =>
                             /\ ~rrec'[q].present \/ rrec'[q].stopped
                             /\ \A v \in Persisters : Writing(v, q)' /\ pers'[v].alone
                                  => pers'[v].snap.stopped
                             /\ overlap'[q] \/ main'[q] = NoInode \/ content'[main'[q]].stopped
                        /\ ended'[q] = "restarted" =>
                             /\ ~rrec'[q].present /\ ~overlap'[q]
                             /\ \A v \in Persisters : pers'[v].at = "idle" \/ pers'[v].run # q
                             /\ main'[q] = NoInode \/ content'[main'[q]].stopped
      BY DEF DownInv
    <3>1. ASSUME NEW v \in Persisters, Writing(v, q)', pers'[v].snap.stopped
          PROVE  ~rrec'[q].present \/ rrec'[q].stopped
      <4>1. CASE v = w
        BY <1>2, <2>2, <2>3, <2>13, <3>1, <4>1
      <4>2. CASE v # w
        BY <1>2, <2>4, <2>12, <3>1, <4>2 DEF DownInv
      <4> QED
        BY <4>1, <4>2
    <3>2. ASSUME ended'[q] = "down", NEW v \in Persisters, Writing(v, q)', pers'[v].alone
          PROVE  pers'[v].snap.stopped
      <4>1. CASE v = w
        BY <1>2, <1>4, <2>2, <2>3, <2>13, <3>2, <4>1 DEF DownInv
      <4>2. CASE v # w
        BY <1>2, <2>4, <2>12, <3>2, <4>2 DEF DownInv
      <4> QED
        BY <4>1, <4>2
    <3>3. ASSUME ended'[q] = "down"
          PROVE  /\ ~rrec'[q].present \/ rrec'[q].stopped
                 /\ overlap'[q] \/ main'[q] = NoInode \/ content'[main'[q]].stopped
      BY <1>2, <2>6, <3>3 DEF DownInv
    <3>4. ASSUME ended'[q] = "restarted"
          PROVE  /\ ~rrec'[q].present /\ ~overlap'[q]
                 /\ \A v \in Persisters : pers'[v].at = "idle" \/ pers'[v].run # q
                 /\ main'[q] = NoInode \/ content'[main'[q]].stopped
      <4>1. q # r
        BY <1>2, <1>4, <3>4 DEF DownInv
      <4>2. \A v \in Persisters : pers'[v].at = "idle" \/ pers'[v].run # q
        BY <1>1, <1>2, <2>2, <2>3, <2>4, <3>4, <4>1 DEF DownInv
      <4> QED
        BY <1>2, <2>6, <3>4, <4>1, <4>2 DEF DownInv
    <3> QED
      BY <3>1, <3>2, <3>3, <3>4
  <2>17. TornOnlyByOverlap'
    BY <1>2, <2>6 DEF TornOnlyByOverlap
  <2> QED
    BY <2>7, <2>8, <2>11, <2>15, <2>16, <2>17
<1> QED
  BY <1>1, <1>3, <1>4 DEF Snapshot

LEMMA CreateTmpManifest ==
    ASSUME ManifestInv, NEW w \in Persisters, CreateTmp(w)
    PROVE  ManifestInv'
<1> USE DEF ManifestInv
<1>1. PICK r \in ManifestRuns : r = pers[w].run /\ pers[w].at = "create"
  BY DEF CreateTmp, RunsInv
<1>2. UNCHANGED <<rrec, main, changes, ended, overlap>>
  BY DEF CreateTmp
<1>3. PICK i \in Inodes :
        /\ IF tmp[r] # NoInode THEN i = tmp[r] ELSE FreeInode(i)
        /\ tmp' = [tmp EXCEPT ![r] = i]
        /\ content' = [content EXCEPT ![i] = Torn]
        /\ pers' = [pers EXCEPT ![w].at = "write", ![w].ino = i]
  BY <1>1 DEF CreateTmp
<1>4. i # NoInode
  BY ManifestAssumption
<1>5. \A q \in ManifestRuns : /\ Uses(q, i) => q = r
                              /\ main[q] # i
                              /\ q # r => tmp[q] # i
  <2>1. CASE tmp[r] # NoInode
    <3>1. i = tmp[r] /\ Uses(r, i)
      BY <1>3, <2>1 DEF Uses
    <3>2. \A q \in ManifestRuns : Uses(q, i) => q = r
      BY <3>1 DEF FilesInv
    <3> QED
      BY <2>1, <3>1, <3>2 DEF FilesInv, Uses
  <2>2. CASE tmp[r] = NoInode
    <3>1. ~InUse(i)
      BY <1>3, <2>2 DEF FreeInode
    <3> QED
      BY <3>1 DEF InUse, Uses
  <2> QED
    BY <2>1, <2>2
<1> DEFINE old == pers[w]
           t == [old EXCEPT !.at = "write", !.ino = i]
<1>6. pers' = [pers EXCEPT ![w] = t] /\ old \in Persister
  BY <1>3 DEF ManifestTypeOK
<1>7. /\ t \in Persister /\ t.at = "write" /\ t.ino = i /\ t.run = old.run /\ t.snap = old.snap
      /\ t.alone = old.alone
  <2> HIDE DEF old
  <2> QED
    BY <1>6 DEF Persister
<1> HIDE DEF t
<1>8. /\ pers'[w] = t /\ (\A v \in Persisters \ {w} : pers'[v] = pers[v])
      /\ pers' \in [Persisters -> Persister]
  BY <1>6, <1>7 DEF ManifestTypeOK
<1>9. /\ tmp'[r] = i /\ (\A q \in ManifestRuns \ {r} : tmp'[q] = tmp[q])
      /\ tmp' \in [ManifestRuns -> Inodes \cup {NoInode}]
  BY <1>3 DEF ManifestTypeOK
<1>10. /\ content'[i] = Torn /\ (\A j \in Inodes \ {i} : content'[j] = content[j])
       /\ content' \in [Inodes -> RunRecord]
  BY <1>3, TornRecord DEF ManifestTypeOK
<1>11. ManifestTypeOK'
  BY <1>2, <1>8, <1>9, <1>10 DEF ManifestTypeOK
<1>12. RunsInv'
  BY <1>1, <1>4, <1>7, <1>8 DEF RunsInv, Fills
<1>13. \A q \in ManifestRuns, j \in Inodes : Uses(q, j)' => Uses(q, j) \/ (q = r /\ j = i)
  BY <1>1, <1>2, <1>7, <1>8, <1>9 DEF Uses, Fills
<1>14. FilesInv'
  <2>1. ASSUME NEW j \in Inodes, NEW p \in ManifestRuns, NEW q \in ManifestRuns,
               Uses(p, j)', Uses(q, j)'
        PROVE  p = q
    BY <1>5, <1>13, <2>1 DEF FilesInv
  <2>2. ASSUME NEW q \in ManifestRuns, tmp'[q] # NoInode PROVE tmp'[q] # main'[q]
    BY <1>2, <1>5, <1>9, <2>2 DEF FilesInv
  <2> QED
    BY <2>1, <2>2 DEF FilesInv
<1>15. \A v \in Persisters, q \in ManifestRuns : Writing(v, q)' <=> Writing(v, q)
  BY <1>1, <1>7, <1>8 DEF Writing
<1>16. \A v \in Persisters : /\ pers'[v].snap = pers[v].snap /\ pers'[v].alone = pers[v].alone
                             /\ pers'[v].run = pers[v].run
                             /\ pers'[v].at = "idle" <=> pers[v].at = "idle"
  BY <1>1, <1>7, <1>8
<1>17. AloneInv'
  <2> SUFFICES ASSUME NEW q \in ManifestRuns, NEW v \in Persisters, Writing(v, q)'
               PROVE  /\ pers'[v].snap.present
                      /\ ~pers'[v].alone => overlap'[q]
                      /\ pers'[v].alone =>
                           /\ \A u \in Persisters : Writing(u, q)' => u = v
                           /\ Fills(v)' => tmp'[q] = pers'[v].ino
                           /\ pers'[v].at = "write" => content'[tmp'[q]] = Torn
                           /\ pers'[v].at = "rename" => content'[tmp'[q]] = pers'[v].snap
    BY DEF AloneInv
  <2>1. Writing(v, q) /\ pers'[v].snap.present /\ (~pers'[v].alone => overlap'[q])
    BY <1>2, <1>15, <1>16 DEF AloneInv
  <2>2. pers'[v].alone => \A u \in Persisters : Writing(u, q)' => u = v
    BY <1>15, <1>16, <2>1 DEF AloneInv
  <2>3. CASE v = w
    <3>1. q = r
      BY <1>1, <2>1, <2>3 DEF Writing
    <3> QED
      BY <1>7, <1>8, <1>9, <1>10, <2>1, <2>2, <2>3, <3>1
  <2>4. CASE v # w /\ pers[v].alone
    <3>1. q # r
      BY <1>1, <2>1, <2>4 DEF AloneInv, Writing
    <3>2. pers'[v] = pers[v] /\ tmp'[q] = tmp[q] /\ (Fills(v)' = Fills(v))
      BY <1>8, <1>9, <2>4, <3>1 DEF Fills
    <3>3. Fills(v) => tmp[q] \in Inodes /\ tmp[q] # i
      BY <1>5, <2>1, <2>4, <3>1 DEF AloneInv, RunsInv, ManifestTypeOK, Persister
    <3>4. Fills(v) => content'[tmp'[q]] = content[tmp[q]]
      BY <1>10, <3>2, <3>3
    <3> QED
      BY <2>1, <2>2, <2>4, <3>2, <3>4 DEF AloneInv, Fills
  <2> QED
    BY <1>16, <2>1, <2>3, <2>4
<1>18. \A q \in ManifestRuns : main[q] # NoInode => content'[main'[q]] = content[main[q]]
  BY <1>2, <1>5, <1>10 DEF ManifestTypeOK
<1>19. DownInv'
  BY <1>2, <1>15, <1>16, <1>18 DEF DownInv
<1>20. TornOnlyByOverlap'
  BY <1>2, <1>18 DEF TornOnlyByOverlap
<1> QED
  BY <1>11, <1>12, <1>14, <1>17, <1>19, <1>20

LEMMA WriteTmpManifest ==
    ASSUME ManifestInv, NEW w \in Persisters, WriteTmp(w)
    PROVE  ManifestInv'
<1> USE DEF ManifestInv
<1>1. PICK r \in ManifestRuns, i \in Inodes :
        r = pers[w].run /\ pers[w].at = "write" /\ i = pers[w].ino
  BY DEF WriteTmp, RunsInv, Fills, ManifestTypeOK, Persister
<1>2. UNCHANGED <<rrec, main, tmp, changes, ended, overlap>>
  BY DEF WriteTmp
<1>3. PICK c \in RunRecord : /\ content' = [content EXCEPT ![i] = c]
                             /\ content[i] = Torn => c = pers[w].snap
  BY <1>1, TornRecord DEF WriteTmp, ManifestTypeOK, Persister
<1> DEFINE old == pers[w]
           t == [old EXCEPT !.at = "rename"]
<1>4. pers' = [pers EXCEPT ![w] = t] /\ old \in Persister
  BY DEF WriteTmp, ManifestTypeOK
<1>5. /\ t \in Persister /\ t.at = "rename" /\ t.ino = old.ino /\ t.run = old.run
      /\ t.snap = old.snap /\ t.alone = old.alone
  <2> HIDE DEF old
  <2> QED
    BY <1>4 DEF Persister
<1> HIDE DEF t
<1>6. /\ pers'[w] = t /\ (\A v \in Persisters \ {w} : pers'[v] = pers[v])
      /\ pers' \in [Persisters -> Persister]
  BY <1>4, <1>5 DEF ManifestTypeOK
<1>7. /\ content'[i] = c /\ (\A j \in Inodes \ {i} : content'[j] = content[j])
      /\ content' \in [Inodes -> RunRecord]
  BY <1>3 DEF ManifestTypeOK
<1>8. ManifestTypeOK'
  BY <1>2, <1>6, <1>7 DEF ManifestTypeOK
<1>9. \A v \in Persisters : /\ pers'[v].snap = pers[v].snap /\ pers'[v].alone = pers[v].alone
                            /\ pers'[v].run = pers[v].run /\ pers'[v].ino = pers[v].ino
                            /\ pers'[v].at = "idle" <=> pers[v].at = "idle"
                            /\ Fills(v)' <=> Fills(v)
  BY <1>1, <1>5, <1>6 DEF Fills
<1>10. RunsInv'
  BY <1>9 DEF RunsInv
<1>11. \A q \in ManifestRuns, j \in Inodes : Uses(q, j)' => Uses(q, j)
  BY <1>2, <1>9 DEF Uses
<1>12. FilesInv'
  BY <1>2, <1>11 DEF FilesInv
<1>13. \A v \in Persisters, q \in ManifestRuns : Writing(v, q)' <=> Writing(v, q)
  BY <1>1, <1>5, <1>6 DEF Writing
<1>14. Uses(r, i) /\ Writing(w, r) /\ \A q \in ManifestRuns : Uses(q, i) => q = r
  <2>1. Uses(r, i) /\ Writing(w, r)
    BY <1>1 DEF Uses, Fills, Writing
  <2> QED
    BY <2>1 DEF FilesInv
<1>15. AloneInv'
  <2> SUFFICES ASSUME NEW q \in ManifestRuns, NEW v \in Persisters, Writing(v, q)'
               PROVE  /\ pers'[v].snap.present
                      /\ ~pers'[v].alone => overlap'[q]
                      /\ pers'[v].alone =>
                           /\ \A u \in Persisters : Writing(u, q)' => u = v
                           /\ Fills(v)' => tmp'[q] = pers'[v].ino
                           /\ pers'[v].at = "write" => content'[tmp'[q]] = Torn
                           /\ pers'[v].at = "rename" => content'[tmp'[q]] = pers'[v].snap
    BY DEF AloneInv
  <2>1. Writing(v, q) /\ pers'[v].snap.present /\ (~pers'[v].alone => overlap'[q])
    BY <1>2, <1>9, <1>13 DEF AloneInv
  <2>2. pers'[v].alone => /\ \A u \in Persisters : Writing(u, q)' => u = v
                          /\ Fills(v)' => tmp'[q] = pers'[v].ino
    BY <1>2, <1>9, <1>13, <2>1 DEF AloneInv
  <2>3. CASE v = w /\ pers[v].alone
    <3>1. q = r /\ tmp[r] = i /\ content[i] = Torn
      BY <1>1, <2>1, <2>3 DEF Writing, AloneInv, Fills
    <3> QED
      BY <1>2, <1>3, <1>5, <1>6, <1>7, <2>1, <2>2, <2>3, <3>1
  <2>4. CASE v # w /\ pers[v].alone
    <3>1. q # r
      BY <1>14, <2>1, <2>4 DEF AloneInv
    <3>2. tmp[q] # i
      BY <1>14, <3>1 DEF Uses
    <3>3. Fills(v) => content'[tmp'[q]] = content[tmp[q]]
      BY <1>2, <1>7, <2>1, <2>4, <3>2 DEF AloneInv, RunsInv, ManifestTypeOK, Persister
    <3>4. pers'[v] = pers[v]
      BY <1>6, <2>4
    <3> QED
      BY <2>1, <2>2, <2>4, <3>3, <3>4 DEF AloneInv, Fills
  <2> QED
    BY <1>9, <2>1, <2>3, <2>4
<1>16. \A q \in ManifestRuns :
         main[q] # NoInode => content'[main'[q]] = content[main[q]] \/ (q = r /\ overlap[r])
  <2> SUFFICES ASSUME NEW q \in ManifestRuns, main[q] = i PROVE q = r /\ overlap[r]
    BY <1>2, <1>7 DEF ManifestTypeOK
  <2>1. q = r
    BY <1>14 DEF Uses
  <2>2. ~pers[w].alone
    BY <1>1, <1>14, <2>1, ManifestAssumption DEF AloneInv, FilesInv, Fills
  <2> QED
    BY <1>14, <2>1, <2>2 DEF AloneInv
<1>17. ended[r] # "restarted"
  BY <1>1 DEF DownInv
<1>18. DownInv'
  BY <1>2, <1>9, <1>13, <1>16, <1>17 DEF DownInv
<1>19. TornOnlyByOverlap'
  BY <1>2, <1>16 DEF TornOnlyByOverlap
<1> QED
  BY <1>8, <1>10, <1>12, <1>15, <1>18, <1>19

LEMMA RenameTmpManifest ==
    ASSUME ManifestInv, NEW w \in Persisters, RenameTmp(w)
    PROVE  ManifestInv'
<1> USE DEF ManifestInv
<1>1. PICK r \in ManifestRuns : r = pers[w].run /\ pers[w].at = "rename" /\ Writing(w, r)
  BY DEF RenameTmp, RunsInv, Writing
<1>2. UNCHANGED <<rrec, content, changes>>
  BY DEF RenameTmp
<1>3. PICK t \in Persister :
        /\ pers' = [pers EXCEPT ![w] = t]
        /\ t.at = "idle" \/ (t.at = "purge" /\ t.run = r /\ tmp[r] # NoInode)
  <2> DEFINE p == [IdlePersister EXCEPT !.at = "purge", !.run = r]
  <2>1. p \in Persister /\ p.at = "purge" /\ p.run = r
    BY TornRecord DEF IdlePersister, Persister
  <2>2. \/ pers' = [pers EXCEPT ![w] = IdlePersister]
        \/ pers' = [pers EXCEPT ![w] = p] /\ tmp[r] # NoInode
    BY <1>1 DEF RenameTmp
  <2> HIDE DEF p
  <2> QED
    BY <2>1, <2>2, IdleRecord
<1>4. /\ pers'[w] = t /\ (\A v \in Persisters \ {w} : pers'[v] = pers[v])
      /\ pers' \in [Persisters -> Persister]
  BY <1>3 DEF ManifestTypeOK
<1>5. \A v \in Persisters : /\ pers'[v].at \in {"create", "write", "rename"} => v # w /\ pers'[v] = pers[v]
                            /\ pers'[v].at # "idle" => pers'[v].run \in ManifestRuns
  BY <1>3, <1>4 DEF RunsInv
<1>6. \A v \in Persisters, q \in ManifestRuns :
        Writing(v, q)' => v # w /\ Writing(v, q) /\ pers'[v] = pers[v]
  BY <1>5 DEF Writing
<1>7. \A v \in Persisters, q \in ManifestRuns :
        pers[v].at = "idle" \/ pers[v].run # q => pers'[v].at = "idle" \/ pers'[v].run # q
  BY <1>1, <1>3, <1>4
<1>8. CASE tmp[r] = NoInode /\ UNCHANGED <<main, tmp, ended, overlap>>
  <2>1. DownInv'
    BY <1>2, <1>6, <1>7, <1>8 DEF DownInv
  <2> QED
    BY <1>2, <1>4, <1>5, <1>8, <2>1, QuietStep DEF ManifestTypeOK
<1>9. CASE /\ tmp[r] # NoInode
           /\ main' = [main EXCEPT ![r] = tmp[r]]
           /\ tmp' = [tmp EXCEPT ![r] = NoInode]
           /\ ended' = [ended EXCEPT ![r] = IF pers[w].snap.stopped THEN "down" ELSE @]
           /\ overlap' = [overlap EXCEPT ![r] = ~pers[w].alone]
  <2>1. /\ main'[r] = tmp[r] /\ (\A q \in ManifestRuns \ {r} : main'[q] = main[q])
        /\ main' \in [ManifestRuns -> Inodes \cup {NoInode}]
    BY <1>9 DEF ManifestTypeOK
  <2>2. /\ tmp'[r] = NoInode /\ (\A q \in ManifestRuns \ {r} : tmp'[q] = tmp[q])
        /\ tmp' \in [ManifestRuns -> Inodes \cup {NoInode}]
    BY <1>9 DEF ManifestTypeOK
  <2>3. /\ \A q \in ManifestRuns \ {r} : ended'[q] = ended[q]
        /\ pers[w].snap.stopped => ended'[r] = "down"
        /\ ~pers[w].snap.stopped => ended'[r] = ended[r]
        /\ ended' \in [ManifestRuns -> {"no", "down", "restarted"}]
    BY <1>9 DEF ManifestTypeOK
  <2>4. /\ \A q \in ManifestRuns \ {r} : overlap'[q] = overlap[q]
        /\ ~pers[w].alone => overlap'[r]
        /\ overlap' \in [ManifestRuns -> BOOLEAN]
    BY <1>9 DEF ManifestTypeOK, Persister
  <2>5. ManifestTypeOK'
    BY <1>2, <1>4, <2>1, <2>2, <2>3, <2>4 DEF ManifestTypeOK
  <2>6. RunsInv'
    BY <1>5 DEF RunsInv, Fills
  <2>7. \A q \in ManifestRuns, i \in Inodes : Uses(q, i)' => Uses(q, i)
    <3> SUFFICES ASSUME NEW q \in ManifestRuns, NEW i \in Inodes, Uses(q, i)' PROVE Uses(q, i)
      OBVIOUS
    <3>1. \A v \in Persisters : Fills(v)' => Fills(v) /\ pers'[v] = pers[v]
      BY <1>5 DEF Fills
    <3>2. main'[q] = i => Uses(q, i)
      BY <2>1 DEF Uses
    <3>3. tmp'[q] = i => Uses(q, i)
      BY <2>2, ManifestAssumption DEF Uses
    <3> QED
      BY <3>1, <3>2, <3>3 DEF Uses
  <2>8. FilesInv'
    BY <2>1, <2>2, <2>7 DEF FilesInv
  <2>9. ASSUME NEW v \in Persisters, Writing(v, r)' PROVE ~pers[v].alone /\ ~pers[w].alone
    BY <1>1, <1>6, <2>9 DEF AloneInv
  <2>10. AloneInv'
    <3> SUFFICES ASSUME NEW q \in ManifestRuns, NEW v \in Persisters, Writing(v, q)'
                 PROVE  /\ pers'[v].snap.present
                        /\ ~pers'[v].alone => overlap'[q]
                        /\ pers'[v].alone =>
                             /\ \A u \in Persisters : Writing(u, q)' => u = v
                             /\ Fills(v)' => tmp'[q] = pers'[v].ino
                             /\ pers'[v].at = "write" => content'[tmp'[q]] = Torn
                             /\ pers'[v].at = "rename" => content'[tmp'[q]] = pers'[v].snap
      BY DEF AloneInv
    <3>1. Writing(v, q) /\ pers'[v] = pers[v] /\ (Fills(v)' = Fills(v))
      BY <1>6 DEF Fills
    <3>2. CASE q = r
      BY <2>4, <2>9, <3>1, <3>2 DEF AloneInv
    <3>3. CASE q # r
      BY <1>2, <1>6, <2>2, <2>4, <3>1, <3>3 DEF AloneInv
    <3> QED
      BY <3>2, <3>3
  <2>11. pers[w].alone => content[tmp[r]] = pers[w].snap /\ pers[w].snap.present
    BY <1>1 DEF AloneInv
  <2>12. DownInv'
    <3> SUFFICES ASSUME NEW q \in ManifestRuns
                 PROVE  /\ \A v \in Persisters : Writing(v, q)' /\ pers'[v].snap.stopped
                              => ~rrec'[q].present \/ rrec'[q].stopped
                        /\ ended'[q] = "down" =>
                             /\ ~rrec'[q].present \/ rrec'[q].stopped
                             /\ \A v \in Persisters : Writing(v, q)' /\ pers'[v].alone
                                  => pers'[v].snap.stopped
                             /\ overlap'[q] \/ main'[q] = NoInode \/ content'[main'[q]].stopped
                        /\ ended'[q] = "restarted" =>
                             /\ ~rrec'[q].present /\ ~overlap'[q]
                             /\ \A v \in Persisters : pers'[v].at = "idle" \/ pers'[v].run # q
                             /\ main'[q] = NoInode \/ content'[main'[q]].stopped
      BY DEF DownInv
    <3>1. CASE q # r
      BY <1>2, <1>6, <1>7, <2>1, <2>3, <2>4, <3>1 DEF DownInv
    <3>2. CASE q = r
      <4>1. \A v \in Persisters : Writing(v, r)' /\ pers'[v].snap.stopped
              => ~rrec'[r].present \/ rrec'[r].stopped
        BY <1>2, <1>6 DEF DownInv
      <4>2. ASSUME ended'[r] = "down"
            PROVE  /\ ~rrec'[r].present \/ rrec'[r].stopped
                   /\ \A v \in Persisters : Writing(v, r)' /\ pers'[v].alone
                        => pers'[v].snap.stopped
                   /\ overlap'[r] \/ main'[r] = NoInode \/ content'[main'[r]].stopped
        <5>1. ~rrec[r].present \/ rrec[r].stopped
          BY <1>1, <2>3, <4>2 DEF DownInv
        <5>2. pers[w].alone => pers[w].snap.stopped
          BY <1>1, <2>3, <4>2 DEF DownInv
        <5> QED
          BY <1>2, <1>6, <2>1, <2>4, <2>9, <2>11, <5>1, <5>2
      <4>3. ended'[r] # "restarted"
        BY <1>1, <2>3 DEF DownInv
      <4> QED
        BY <3>2, <4>1, <4>2, <4>3
    <3> QED
      BY <3>1, <3>2
  <2>13. TornOnlyByOverlap'
    <3> SUFFICES ASSUME NEW q \in ManifestRuns, main'[q] # NoInode, content'[main'[q]] = Torn
                 PROVE  overlap'[q]
      BY DEF TornOnlyByOverlap
    <3>1. CASE q = r
      BY <1>2, <2>1, <2>4, <2>11, <3>1, TornRecord
    <3>2. CASE q # r
      BY <1>2, <2>1, <2>4, <3>2 DEF TornOnlyByOverlap
    <3> QED
      BY <3>1, <3>2
  <2> QED
    BY <2>5, <2>6, <2>8, <2>10, <2>12, <2>13
<1> QED
  BY <1>1, <1>8, <1>9 DEF RenameTmp

\* The directory of a run goes, with writers of it at any point.
LEMMA RemoveStep ==
    ASSUME ManifestInv, NEW r \in ManifestRuns, RemoveDir(r), overlap' = WriteMet(r),
           UNCHANGED <<changes, ended>>, ended[r] # "restarted",
           rrec' \in [ManifestRuns -> RunRecord],
           \A q \in ManifestRuns : rrec'[q] = rrec[q] \/ ~rrec'[q].present,
           pers' \in [Persisters -> Persister],
           \A v \in Persisters :
             /\ pers'[v].run = pers[v].run
             /\ pers[v].at = "idle" <=> pers'[v].at = "idle"
             /\ pers'[v].at \in {"create", "write", "rename"} =>
                  /\ pers'[v].at = pers[v].at /\ pers'[v].snap = pers[v].snap
                  /\ pers'[v].ino = pers[v].ino
                  /\ pers'[v].alone => pers[v].alone /\ ~Writing(v, r)
                  /\ pers[v].alone /\ ~Writing(v, r) => pers'[v].alone
    PROVE  ManifestInv'
<1> USE DEF ManifestInv
<1>1. /\ main'[r] = NoInode /\ (\A q \in ManifestRuns \ {r} : main'[q] = main[q])
      /\ main' \in [ManifestRuns -> Inodes \cup {NoInode}] /\ content' = content
  BY DEF RemoveDir, ManifestTypeOK
<1>2. /\ tmp'[r] = NoInode /\ (\A q \in ManifestRuns \ {r} : tmp'[q] = tmp[q])
      /\ tmp' \in [ManifestRuns -> Inodes \cup {NoInode}]
  BY DEF RemoveDir, ManifestTypeOK
<1>3. /\ overlap' \in [ManifestRuns -> BOOLEAN]
      /\ \A q \in ManifestRuns \ {r} : overlap'[q] = overlap[q]
      /\ (\E v \in Persisters : Writing(v, r)) => overlap'[r]
      /\ overlap[r] => overlap'[r]
  <2> DEFINE o == overlap[r] \/ \E v \in Persisters : Writing(v, r)
  <2>1. /\ overlap' = [overlap EXCEPT ![r] = o] /\ o \in BOOLEAN
        /\ (\E v \in Persisters : Writing(v, r)) => o
        /\ overlap[r] => o
    BY DEF WriteMet, ManifestTypeOK
  <2> HIDE DEF o
  <2> QED
    BY <2>1 DEF ManifestTypeOK
<1>4. ManifestTypeOK'
  BY <1>1, <1>2, <1>3 DEF ManifestTypeOK
<1>5. \A v \in Persisters : Fills(v)' => Fills(v) /\ pers'[v].ino = pers[v].ino
  BY DEF Fills
<1>6. RunsInv'
  BY <1>5 DEF RunsInv
<1>7. \A q \in ManifestRuns, i \in Inodes : Uses(q, i)' => Uses(q, i)
  <2> SUFFICES ASSUME NEW q \in ManifestRuns, NEW i \in Inodes, Uses(q, i)' PROVE Uses(q, i)
    OBVIOUS
  <2>1. main'[q] = i \/ tmp'[q] = i => Uses(q, i)
    BY <1>1, <1>2, ManifestAssumption DEF Uses
  <2> QED
    BY <1>5, <2>1 DEF Uses
<1>8. FilesInv'
  BY <1>1, <1>2, <1>7 DEF FilesInv
<1>9. \A v \in Persisters, q \in ManifestRuns : Writing(v, q)' => Writing(v, q)
  BY DEF Writing
<1>10. AloneInv'
  <2> SUFFICES ASSUME NEW q \in ManifestRuns, NEW v \in Persisters, Writing(v, q)'
               PROVE  /\ pers'[v].snap.present
                      /\ ~pers'[v].alone => overlap'[q]
                      /\ pers'[v].alone =>
                           /\ \A u \in Persisters : Writing(u, q)' => u = v
                           /\ Fills(v)' => tmp'[q] = pers'[v].ino
                           /\ pers'[v].at = "write" => content'[tmp'[q]] = Torn
                           /\ pers'[v].at = "rename" => content'[tmp'[q]] = pers'[v].snap
    BY DEF AloneInv
  <2>1. /\ Writing(v, q) /\ pers'[v].at = pers[v].at /\ pers'[v].snap = pers[v].snap
        /\ pers'[v].ino = pers[v].ino
        /\ pers'[v].alone => pers[v].alone /\ ~Writing(v, r)
        /\ pers[v].alone /\ ~Writing(v, r) => pers'[v].alone
    BY <1>9 DEF Writing
  <2>2. CASE q = r
    BY <1>3, <2>1, <2>2 DEF AloneInv
  <2>3. CASE q # r
    <3>1. ~Writing(v, r)
      BY <2>1, <2>3 DEF Writing
    <3> QED
      BY <1>1, <1>2, <1>3, <1>5, <1>9, <2>1, <2>3, <3>1 DEF AloneInv
  <2> QED
    BY <2>2, <2>3
<1>11. \A v \in Persisters, q \in ManifestRuns : Writing(v, q)' =>
         pers'[v].snap = pers[v].snap /\ (pers'[v].alone => pers[v].alone)
  BY DEF Writing
<1>12. DownInv'
  <2> SUFFICES ASSUME NEW q \in ManifestRuns
               PROVE  /\ \A v \in Persisters : Writing(v, q)' /\ pers'[v].snap.stopped
                            => ~rrec'[q].present \/ rrec'[q].stopped
                      /\ ended'[q] = "down" =>
                           /\ ~rrec'[q].present \/ rrec'[q].stopped
                           /\ \A v \in Persisters : Writing(v, q)' /\ pers'[v].alone
                                => pers'[v].snap.stopped
                           /\ overlap'[q] \/ main'[q] = NoInode \/ content'[main'[q]].stopped
                      /\ ended'[q] = "restarted" =>
                           /\ ~rrec'[q].present /\ ~overlap'[q]
                           /\ \A v \in Persisters : pers'[v].at = "idle" \/ pers'[v].run # q
                           /\ main'[q] = NoInode \/ content'[main'[q]].stopped
    BY DEF DownInv
  <2>1. rrec'[q] = rrec[q] \/ ~rrec'[q].present
    OBVIOUS
  <2>2. CASE q = r
    BY <1>1, <1>9, <1>11, <2>1, <2>2 DEF DownInv
  <2>3. CASE q # r
    BY <1>1, <1>3, <1>9, <1>11, <2>1, <2>3 DEF DownInv
  <2> QED
    BY <2>2, <2>3
<1>13. TornOnlyByOverlap'
  BY <1>1, <1>3 DEF TornOnlyByOverlap
<1> QED
  BY <1>4, <1>6, <1>8, <1>10, <1>12, <1>13

LEMMA LosesAlone ==
    ASSUME ManifestTypeOK, NEW v \in Persisters, NEW r,
           pers'[v] = [pers[v] EXCEPT !.alone = @ /\ ~Writing(v, r)]
    PROVE  /\ pers'[v] \in Persister /\ pers'[v].run = pers[v].run /\ pers'[v].at = pers[v].at
           /\ pers'[v].snap = pers[v].snap /\ pers'[v].ino = pers[v].ino
           /\ pers'[v].alone => pers[v].alone /\ ~Writing(v, r)
           /\ pers[v].alone /\ ~Writing(v, r) => pers'[v].alone
<1> DEFINE old == pers[v]
           b == old.alone /\ ~Writing(v, r)
           u == [old EXCEPT !.alone = b]
<1>1. pers'[v] = u /\ old \in Persister /\ b \in BOOLEAN
  BY DEF ManifestTypeOK, Persister
<1>2. (b => old.alone /\ ~Writing(v, r)) /\ (old.alone /\ ~Writing(v, r) => b)
  OBVIOUS
<1> HIDE DEF b, old
<1>3. /\ u \in Persister /\ u.at = old.at /\ u.run = old.run /\ u.snap = old.snap
      /\ u.ino = old.ino /\ u.alone = b
  BY <1>1 DEF Persister
<1> HIDE DEF u
<1> QED
  BY <1>1, <1>2, <1>3 DEF old

LEMMA PurgeDirManifest ==
    ASSUME ManifestInv, NEW w \in Persisters, PurgeDir(w)
    PROVE  ManifestInv'
<1> USE DEF ManifestInv
<1>1. PICK r \in ManifestRuns : r = pers[w].run /\ pers[w].at = "purge"
  BY DEF PurgeDir, RunsInv
<1>2. /\ RemoveDir(r) /\ overlap' = WriteMet(r) /\ UNCHANGED <<rrec, changes, ended>>
      /\ pers' = [v \in Persisters |->
                    IF v = w THEN [pers[w] EXCEPT !.at = "forget"]
                    ELSE [pers[v] EXCEPT !.alone = @ /\ ~Writing(v, r)]]
  BY <1>1 DEF PurgeDir
<1>3. pers'[w] \in Persister /\ pers'[w].at = "forget" /\ pers'[w].run = r
  <2> DEFINE old == pers[w]
             t == [old EXCEPT !.at = "forget"]
  <2>1. pers'[w] = t /\ old \in Persister /\ old.run = r
    BY <1>1, <1>2 DEF ManifestTypeOK
  <2> HIDE DEF old
  <2>2. t \in Persister /\ t.at = "forget" /\ t.run = old.run
    BY <2>1 DEF Persister
  <2> QED
    BY <2>1, <2>2
<1>4. ASSUME NEW v \in Persisters, v # w
      PROVE  /\ pers'[v] \in Persister /\ pers'[v].run = pers[v].run /\ pers'[v].at = pers[v].at
             /\ pers'[v].snap = pers[v].snap /\ pers'[v].ino = pers[v].ino
             /\ pers'[v].alone => pers[v].alone /\ ~Writing(v, r)
             /\ pers[v].alone /\ ~Writing(v, r) => pers'[v].alone
  BY <1>2, <1>4, LosesAlone
<1>5. pers' \in [Persisters -> Persister]
  <2>1. \A v \in Persisters : pers'[v] \in Persister
    BY <1>3, <1>4
  <2>2. pers' = [v \in Persisters |-> pers'[v]]
    BY <1>2
  <2> QED
    BY <2>1, <2>2
<1>6. ended[r] # "restarted"
  BY <1>1 DEF DownInv
<1>7. \A v \in Persisters :
           /\ pers'[v].run = pers[v].run
           /\ pers[v].at = "idle" <=> pers'[v].at = "idle"
           /\ pers'[v].at \in {"create", "write", "rename"} =>
                /\ pers'[v].at = pers[v].at /\ pers'[v].snap = pers[v].snap
                /\ pers'[v].ino = pers[v].ino
                /\ pers'[v].alone => pers[v].alone /\ ~Writing(v, r)
                /\ pers[v].alone /\ ~Writing(v, r) => pers'[v].alone
  BY <1>1, <1>3, <1>4
<1>8. rrec' \in [ManifestRuns -> RunRecord]
      /\ \A q \in ManifestRuns : rrec'[q] = rrec[q] \/ ~rrec'[q].present
  BY <1>2 DEF ManifestTypeOK
<1> QED
  BY <1>2, <1>5, <1>6, <1>7, <1>8, RemoveStep

LEMMA GcManifest ==
    ASSUME ManifestInv, NEW r \in ManifestRuns, GcRun(r)
    PROVE  ManifestInv'
<1> USE DEF ManifestInv
<1>1. /\ RemoveDir(r) /\ overlap' = WriteMet(r) /\ UNCHANGED <<changes, ended>>
      /\ rrec[r].present /\ rrec' = [rrec EXCEPT ![r] = NoRun]
      /\ pers' = [v \in Persisters |-> [pers[v] EXCEPT !.alone = @ /\ ~Writing(v, r)]]
  BY DEF GcRun
<1>2. ASSUME NEW v \in Persisters
      PROVE  /\ pers'[v] \in Persister /\ pers'[v].run = pers[v].run /\ pers'[v].at = pers[v].at
             /\ pers'[v].snap = pers[v].snap /\ pers'[v].ino = pers[v].ino
             /\ pers'[v].alone => pers[v].alone /\ ~Writing(v, r)
             /\ pers[v].alone /\ ~Writing(v, r) => pers'[v].alone
  BY <1>1, LosesAlone
<1>3. pers' \in [Persisters -> Persister]
  <2>1. pers' = [v \in Persisters |-> pers'[v]]
    BY <1>1
  <2> QED
    BY <1>2, <2>1
<1>4. ended[r] # "restarted"
  BY <1>1 DEF DownInv
<1>5. rrec' \in [ManifestRuns -> RunRecord]
      /\ \A q \in ManifestRuns : rrec'[q] = rrec[q] \/ ~rrec'[q].present
  BY <1>1, TornRecord DEF ManifestTypeOK
<1>6. \A v \in Persisters :
           /\ pers'[v].run = pers[v].run
           /\ pers[v].at = "idle" <=> pers'[v].at = "idle"
           /\ pers'[v].at \in {"create", "write", "rename"} =>
                /\ pers'[v].at = pers[v].at /\ pers'[v].snap = pers[v].snap
                /\ pers'[v].ino = pers[v].ino
                /\ pers'[v].alone => pers[v].alone /\ ~Writing(v, r)
                /\ pers[v].alone /\ ~Writing(v, r) => pers'[v].alone
  BY <1>2
<1> QED
  BY <1>1, <1>3, <1>4, <1>5, <1>6, RemoveStep

LEMMA PurgeRecordManifest ==
    ASSUME ManifestInv, NEW w \in Persisters, PurgeRecord(w)
    PROVE  ManifestInv'
<1> USE DEF ManifestInv
<1>1. /\ UNCHANGED <<main, tmp, content, changes, ended, overlap>>
      /\ rrec' = [rrec EXCEPT ![pers[w].run] = NoRun]
      /\ pers' = [pers EXCEPT ![w] = IdlePersister]
  BY DEF PurgeRecord
<1>2. /\ pers'[w] = IdlePersister /\ (\A v \in Persisters \ {w} : pers'[v] = pers[v])
      /\ pers' \in [Persisters -> Persister]
  BY <1>1, IdleRecord DEF ManifestTypeOK
<1>3. /\ rrec' \in [ManifestRuns -> RunRecord]
      /\ \A q \in ManifestRuns : rrec'[q] = rrec[q] \/ ~rrec'[q].present
  BY <1>1, TornRecord DEF ManifestTypeOK
<1>4. \A v \in Persisters : pers'[v].at = "idle" \/ pers'[v] = pers[v]
  BY <1>2, IdleRecord
<1>5. \A v \in Persisters : /\ pers'[v].at \in {"create", "write", "rename"} => pers'[v] = pers[v]
                            /\ pers'[v].at # "idle" => pers'[v].run \in ManifestRuns
  BY <1>4 DEF RunsInv
<1>6. \A v \in Persisters, q \in ManifestRuns :
        Writing(v, q)' => Writing(v, q) /\ pers'[v] = pers[v]
  BY <1>5 DEF Writing
<1>7. DownInv'
  BY <1>1, <1>3, <1>4, <1>6 DEF DownInv
<1>8. changes' \in Nat /\ ended' \in [ManifestRuns -> {"no", "down", "restarted"}]
  BY <1>1 DEF ManifestTypeOK
<1> QED
  BY <1>1, <1>2, <1>3, <1>5, <1>7, <1>8, QuietStep

LEMMA LoadManifest ==
    ASSUME ManifestInv, load_state_from_disk
    PROVE  ManifestInv'
<1> USE DEF ManifestInv
<1>1. UNCHANGED <<main, tmp, content, changes, overlap>>
  BY DEF load_state_from_disk
<1>2. pers' \in [Persisters -> Persister] /\ \A v \in Persisters : pers'[v].at = "idle"
  BY IdleRecord DEF load_state_from_disk
<1>3. PICK gone \in SUBSET ManifestRuns :
        rrec' = [r \in ManifestRuns |->
                    IF run_manifest_is_restorable(r) /\ r \notin gone
                      THEN content[main[r]] ELSE NoRun]
  BY DEF load_state_from_disk
<1>4. /\ rrec' \in [ManifestRuns -> RunRecord]
      /\ \A r \in ManifestRuns : ~run_manifest_is_restorable(r) => ~rrec'[r].present
  BY <1>3, TornRecord DEF run_manifest_is_restorable, ManifestTypeOK
<1>5. \A r \in ManifestRuns :
        ended'[r] = IF overlap[r] THEN "no"
                    ELSE IF ended[r] = "down" THEN "restarted" ELSE ended[r]
  BY DEF load_state_from_disk
<1>6. ended' \in [ManifestRuns -> {"no", "down", "restarted"}]
  BY DEF load_state_from_disk, ManifestTypeOK
<1>7. DownInv'
  <2>1. \A v \in Persisters, r \in ManifestRuns : ~Writing(v, r)'
    BY <1>2 DEF Writing
  <2>2. ASSUME NEW r \in ManifestRuns
        PROVE  /\ ended'[r] # "down"
               /\ ended'[r] = "restarted" => /\ ~overlap[r]
                                             /\ main[r] = NoInode \/ content[main[r]].stopped
    BY <1>5 DEF DownInv
  <2>3. \A r \in ManifestRuns : ended'[r] = "restarted" => ~rrec'[r].present
    BY <1>4, <2>2 DEF run_manifest_is_restorable
  <2> QED
    BY <1>1, <1>2, <2>1, <2>2, <2>3 DEF DownInv
<1>8. changes' \in Nat
  BY <1>1 DEF ManifestTypeOK
<1> QED
  BY <1>1, <1>2, <1>4, <1>6, <1>7, <1>8, QuietStep

LEMMA ManifestStart == ManifestInit => ManifestInv
<1> SUFFICES ASSUME ManifestInit PROVE ManifestInv
  OBVIOUS
<1> USE TornRecord, IdleRecord DEF ManifestInit
<1>1. ManifestTypeOK
  BY DEF ManifestTypeOK
<1>2. RunsInv
  BY DEF RunsInv, Fills
<1>3. FilesInv
  BY ManifestAssumption DEF FilesInv, Uses, Fills
<1>4. AloneInv /\ DownInv /\ TornOnlyByOverlap
  BY DEF AloneInv, DownInv, TornOnlyByOverlap, Writing
<1> QED
  BY <1>1, <1>2, <1>3, <1>4 DEF ManifestInv

LEMMA ManifestStep == ManifestInv /\ [ManifestNext]_manifestVars => ManifestInv'
<1> SUFFICES ASSUME ManifestInv, [ManifestNext]_manifestVars PROVE ManifestInv'
  OBVIOUS
<1>1. CASE UNCHANGED manifestVars
  BY <1>1 DEF manifestVars, ManifestInv, ManifestTypeOK, RunsInv, FilesInv, AloneInv, DownInv,
     TornOnlyByOverlap, Fills, Uses, Writing
<1>2. ASSUME NEW w \in Persisters, NEW r \in ManifestRuns,
             CreateRun(w, r) \/ TouchRun(w, r) \/ StopRun(w, r)
      PROVE  ManifestInv'
  BY <1>2, ChangesManifest
<1>3. ASSUME NEW w \in Persisters, Snapshot(w) \/ atomic_write(w) \/ PurgeDir(w) \/ PurgeRecord(w)
      PROVE  ManifestInv'
  BY <1>3, SnapshotManifest, CreateTmpManifest, WriteTmpManifest, RenameTmpManifest,
     PurgeDirManifest, PurgeRecordManifest DEF atomic_write
<1>4. ASSUME NEW r \in ManifestRuns, GcRun(r) PROVE ManifestInv'
  BY <1>4, GcManifest
<1>5. CASE load_state_from_disk
  BY <1>5, LoadManifest
<1> QED
  BY <1>1, <1>2, <1>3, <1>4, <1>5 DEF ManifestNext

(***************************************************************************)
(* For any number of runs, writers and restarts of the daemon, with the    *)
(* daemon killed at any point: a manifest that does not parse is one whose *)
(* last write met another write of the same run in atomic_write.           *)
(***************************************************************************)
THEOREM TornNeedsOverlap == ManifestSpec => []TornOnlyByOverlap
<1>1. ManifestInv => TornOnlyByOverlap
  BY DEF ManifestInv
<1> QED
  BY <1>1, ManifestStart, ManifestStep, PTL DEF ManifestSpec

(***************************************************************************)
(* A run whose down reached the disk stays down after load_state_from_disk *)
(* unless a write of it that was under way met the one that recorded it.   *)
(***************************************************************************)
THEOREM DownIsDurable == ManifestSpec => []DownSurvivesRestart
<1>1. ManifestInv => DownSurvivesRestart
  BY DEF ManifestInv, DownInv, DownSurvivesRestart
<1> QED
  BY <1>1, ManifestStart, ManifestStep, PTL DEF ManifestSpec
=============================================================================
