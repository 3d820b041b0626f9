------------------------------ MODULE Watchers ------------------------------
(***************************************************************************)
(* The file watchers that restart a service when its watched files change  *)
(* (src/src/app/launch/watch.rs, src/src/watch.rs), and the commands that  *)
(* create, pause, resume and stop them.  A key is a service of a run or a  *)
(* global; both have a watcher of the same make.                           *)
(*                                                                         *)
(* The watched files of a key are a version.  The hash covers the time of  *)
(* the last change of every file, so each edit gives a new hash: the hash  *)
(* of a version is the version.                                            *)
(***************************************************************************)
EXTENDS Naturals

CONSTANTS
    WatchKeys, GlobalKeys,
    WatchHandles,   \* handles that may be created; each is used once
    WatchCallers,   \* requests that launch, pause, resume or stop
    NoHandle,
    MaxVersion,     \* highest version of the watched files
    MaxLaunches     \* launches, refreshes and resumes of a behaviour

ASSUME WatchAssumption ==
    /\ GlobalKeys \subseteq WatchKeys /\ NoHandle \notin WatchHandles
    /\ MaxVersion \in Nat /\ MaxLaunches \in Nat

VARIABLES
    wrec,      \* key -> the watch-related part of its record
    wh,        \* handle -> its flags and the loop of its task
    wcall,     \* caller -> where it is in sync_..._auto_restart_watcher
    wfiles,    \* key -> version of its watched files
    launches,  \* requests so far
    missed     \* ghost: key -> an edit found no watcher, a pause or an error

watchVars == <<wrec, wh, wcall, wfiles, launches, missed>>

NoRecord == [present |-> FALSE, auto |-> FALSE, started |-> FALSE, paused |-> FALSE,
             hash |-> 0, handle |-> NoHandle]

UnbornHandle == [key |-> NoHandle, at |-> "unborn", stop |-> FALSE, paused |-> FALSE,
                 events |-> FALSE, pending |-> FALSE, hash |-> 0, left |-> FALSE]

IdleCaller == [at |-> "idle", key |-> NoHandle, handle |-> NoHandle]

WatchRecord == [present : BOOLEAN, auto : BOOLEAN, started : BOOLEAN, paused : BOOLEAN,
                hash : Nat, handle : WatchHandles \cup {NoHandle}]
WatchHandle == [key : WatchKeys \cup {NoHandle},
                at : {"unborn", "head", "recv", "decide", "restart", "ended"},
                stop : BOOLEAN, paused : BOOLEAN, events : BOOLEAN, pending : BOOLEAN,
                hash : Nat, left : BOOLEAN]
WatchCall == [at : {"idle", "check", "store"}, key : WatchKeys \cup {NoHandle},
              handle : WatchHandles \cup {NoHandle}]

WatchTypeOK ==
    /\ wrec \in [WatchKeys -> WatchRecord]
    /\ wh \in [WatchHandles -> WatchHandle]
    /\ wcall \in [WatchCallers -> WatchCall]
    /\ wfiles \in [WatchKeys -> Nat]
    /\ missed \in [WatchKeys -> BOOLEAN]

WatchInit ==
    /\ wrec = [k \in WatchKeys |-> NoRecord]
    /\ wh = [h \in WatchHandles |-> UnbornHandle]
    /\ wcall = [c \in WatchCallers |-> IdleCaller]
    /\ wfiles = [k \in WatchKeys |-> 1]
    /\ launches = 0
    /\ missed = [k \in WatchKeys |-> FALSE]

compute_watch_hash(k) == wfiles[k]

-----------------------------------------------------------------------------
\* stop_watch: the handle leaves the record and its flag is raised.
stop_watch(k) ==
    [h \in WatchHandles |->
        IF h = wrec[k].handle THEN [wh[h] EXCEPT !.stop = TRUE] ELSE wh[h]]

\* An edit that was not acted upon is missed once the watcher is stopped.
Overdue(k) == [missed EXCEPT ![k] = @ \/ wrec[k].hash # wfiles[k]]

Syncs(c, k) == [wcall EXCEPT ![c] = [IdleCaller EXCEPT !.at = "check", !.key = k]]

MayCommand(c, k) ==
    /\ wcall[c].at = "idle" /\ wrec[k].present /\ launches < MaxLaunches
    /\ launches' = launches + 1

(***************************************************************************)
(* store_service_launch_result, record_failed_init_service, upsert_global: *)
(* the new record replaces the old one, whose handles are stopped.  Its    *)
(* hash was taken when the launch was prepared, its process was started    *)
(* after that.  An adopted global keeps its pause.                         *)
(***************************************************************************)
StoreLaunch(c, k, auto, started, v) ==
    /\ wcall[c].at = "idle" /\ launches < MaxLaunches
    /\ v \in 1..wfiles[k]
    /\ \E paused \in IF k \in GlobalKeys THEN BOOLEAN ELSE {FALSE} :
         wrec' = [wrec EXCEPT ![k] = [present |-> TRUE, auto |-> auto, started |-> started,
                                      paused |-> paused, hash |-> v, handle |-> NoHandle]]
    /\ wh' = stop_watch(k)
    /\ wcall' = Syncs(c, k)
    /\ launches' = launches + 1
    /\ missed' = [missed EXCEPT ![k] = v # wfiles[k]]
    /\ UNCHANGED wfiles

(***************************************************************************)
(* apply_prepared_to_runtime for a service that a refresh found unchanged: *)
(* of what concerns the watcher only auto_restart may differ.              *)
(***************************************************************************)
apply_prepared_to_runtime(c, k, auto) ==
    /\ MayCommand(c, k) /\ k \notin GlobalKeys
    /\ wrec[k].hash = compute_watch_hash(k)
    /\ wrec' = [wrec EXCEPT ![k].auto = auto]
    /\ wcall' = Syncs(c, k)
    /\ UNCHANGED <<wh, wfiles, missed>>

Flag(k, paused) ==
    [h \in WatchHandles |->
        IF h = wrec[k].handle THEN [wh[h] EXCEPT !.paused = paused] ELSE wh[h]]

pause_watch(c, k) ==
    /\ MayCommand(c, k) /\ wrec[k].auto /\ k \notin GlobalKeys
    /\ wrec' = [wrec EXCEPT ![k].paused = TRUE]
    /\ wh' = Flag(k, TRUE)
    /\ UNCHANGED <<wcall, wfiles, missed>>

resume_watch(c, k) ==
    /\ MayCommand(c, k) /\ wrec[k].auto /\ k \notin GlobalKeys
    /\ wrec' = [wrec EXCEPT ![k].paused = FALSE]
    /\ wh' = Flag(k, FALSE)
    /\ wcall' = Syncs(c, k)
    /\ UNCHANGED <<wfiles, missed>>

\* down and kill: the handles are stopped, the record stays.
stop_service_handles(c, k) ==
    /\ MayCommand(c, k) /\ k \notin GlobalKeys
    /\ wrec' = [wrec EXCEPT ![k].handle = NoHandle]
    /\ wh' = stop_watch(k)
    /\ missed' = Overdue(k)
    /\ UNCHANGED <<wcall, wfiles>>

\* gc and a purge drop the record without a look at its handles, which are left.
DropRecord(c, k) ==
    /\ MayCommand(c, k) /\ k \notin GlobalKeys
    /\ wrec' = [wrec EXCEPT ![k] = NoRecord]
    /\ wh' = [h \in WatchHandles |->
                 IF h = wrec[k].handle THEN [wh[h] EXCEPT !.left = TRUE] ELSE wh[h]]
    /\ UNCHANGED <<wcall, wfiles, missed>>

-----------------------------------------------------------------------------
Returns(c) == [wcall EXCEPT ![c] = IdleCaller]

(***************************************************************************)
(* sync_service_auto_restart_watcher, first lock: no watcher is wanted and *)
(* any is stopped; or there is one and it gets the pause flag; or one is   *)
(* started, which may fail.                                                *)
(***************************************************************************)
SyncCheck(c, k) ==
    /\ wcall[c].at = "check" /\ wcall[c].key = k
    /\ \/ /\ wrec[k].present /\ ~(wrec[k].auto /\ wrec[k].started)
          /\ wrec' = [wrec EXCEPT ![k].handle = NoHandle]
          /\ wh' = stop_watch(k)
          /\ missed' = Overdue(k)
          /\ wcall' = Returns(c)
       \/ /\ wrec[k].present /\ wrec[k].auto /\ wrec[k].started
          /\ wrec[k].handle # NoHandle
          /\ wh' = Flag(k, wrec[k].paused)
          /\ wcall' = Returns(c)
          /\ UNCHANGED <<wrec, missed>>
       \/ /\ wrec[k].present /\ wrec[k].auto /\ wrec[k].started
          /\ wrec[k].handle = NoHandle
          /\ \E h \in WatchHandles :
               /\ wh[h].at = "unborn"
               /\ wh' = [wh EXCEPT ![h] = [UnbornHandle EXCEPT !.key = k, !.at = "head",
                                                               !.paused = wrec[k].paused]]
               /\ wcall' = [wcall EXCEPT ![c].at = "store", ![c].handle = h]
          /\ UNCHANGED <<wrec, missed>>
       \/ /\ ~wrec[k].present \/ wrec[k].handle = NoHandle
          /\ wcall' = Returns(c)
          /\ UNCHANGED <<wrec, wh, missed>>
    /\ UNCHANGED <<wfiles, launches>>

(***************************************************************************)
(* Faulty variant of the second lock: a handle that is not kept is not     *)
(* stopped.                                                                *)
(***************************************************************************)
StoreWithoutStop(c, k) ==
    LET h == wcall[c].handle IN
    /\ wcall[c].at = "store" /\ wcall[c].key = k
    /\ IF wrec[k].auto /\ wrec[k].started /\ wrec[k].handle = NoHandle
         THEN /\ wrec' = [wrec EXCEPT ![k].handle = h]
              /\ wh' = [wh EXCEPT ![h].paused = wrec[k].paused]
         ELSE UNCHANGED <<wrec, wh>>
    /\ wcall' = Returns(c)
    /\ UNCHANGED <<wfiles, launches, missed>>

(***************************************************************************)
(* Second lock: the new handle is stored, or stopped if it is not wanted   *)
(* any more or another one came first.                                     *)
(***************************************************************************)
SyncStore(c, k) ==
    LET h == wcall[c].handle IN
    /\ wcall[c].at = "store" /\ wcall[c].key = k
    /\ IF wrec[k].auto /\ wrec[k].started /\ wrec[k].handle = NoHandle
         THEN /\ wrec' = [wrec EXCEPT ![k].handle = h]
              /\ wh' = [wh EXCEPT ![h].paused = wrec[k].paused]
         ELSE wh' = [wh EXCEPT ![h].stop = TRUE] /\ UNCHANGED wrec
    /\ wcall' = Returns(c)
    /\ UNCHANGED <<wfiles, launches, missed>>

sync_service_auto_restart_watcher(c) ==
    \E k \in WatchKeys \ GlobalKeys : SyncCheck(c, k) \/ SyncStore(c, k)

sync_global_auto_restart_watcher(c) ==
    \E k \in GlobalKeys : SyncCheck(c, k) \/ SyncStore(c, k)

-----------------------------------------------------------------------------
Watched(k) == \E h \in WatchHandles : wrec[k].handle = h /\ wh[h].at # "ended"

(***************************************************************************)
(* A watched file changes; every watcher of the directory is told.         *)
(***************************************************************************)
EditFile(k) ==
    /\ wfiles[k] < MaxVersion
    /\ wfiles' = [wfiles EXCEPT ![k] = @ + 1]
    /\ wh' = [h \in WatchHandles |->
                 IF wh[h].key = k /\ wh[h].at # "ended"
                   THEN [wh[h] EXCEPT !.events = TRUE] ELSE wh[h]]
    /\ missed' = [missed EXCEPT ![k] = @ \/ ~Watched(k)]
    /\ UNCHANGED <<wrec, wcall, launches>>

(***************************************************************************)
(* The loop of a watcher's task.  The stop flag is looked at once a round; *)
(* events are debounced for half a second.                                 *)
(***************************************************************************)
LoopHead(h) ==
    /\ wh[h].at = "head"
    /\ wh' = [wh EXCEPT ![h].at = IF wh[h].stop THEN "ended" ELSE "recv"]
    /\ UNCHANGED <<wrec, wcall, wfiles, launches, missed>>

Receive(h) ==
    /\ wh[h].at = "recv"
    /\ wh' = [wh EXCEPT ![h].at = "head", ![h].events = FALSE,
                        ![h].pending = @ \/ wh[h].events]
    /\ UNCHANGED <<wrec, wcall, wfiles, launches, missed>>

(***************************************************************************)
(* The debounce is over.  A paused watcher drops what it was told, and so  *)
(* does one that cannot compute the hash.                                  *)
(***************************************************************************)
Debounced(h) ==
    /\ wh[h].at = "recv" /\ (wh[h].pending \/ wh[h].events)
    /\ \/ /\ ~wh[h].paused
          /\ wh' = [wh EXCEPT ![h].at = "decide", ![h].events = FALSE, ![h].pending = FALSE,
                              ![h].hash = compute_watch_hash(wh[h].key)]
          /\ UNCHANGED missed
       \/ /\ wh' = [wh EXCEPT ![h].at = "head", ![h].events = FALSE, ![h].pending = FALSE]
          /\ missed' = [missed EXCEPT ![wh[h].key] = TRUE]
    /\ UNCHANGED <<wrec, wcall, wfiles, launches>>

(***************************************************************************)
(* The decision under the lock: the record must want restarts, not be      *)
(* paused and have another hash, which is then replaced.                   *)
(***************************************************************************)
Decide(h, k) ==
    /\ wh[h].at = "decide" /\ wh[h].key = k
    /\ \/ /\ ~wrec[k].present
          /\ wh' = [wh EXCEPT ![h].at = "ended"]
          /\ UNCHANGED <<wrec, missed>>
       \/ /\ wrec[k].present
          /\ LET changed == wrec[k].hash # wh[h].hash
                 restart == wrec[k].auto /\ ~wrec[k].paused /\ changed
             IN  /\ wh' = [wh EXCEPT ![h].paused = wrec[k].paused,
                                     ![h].at = IF restart THEN "restart" ELSE "head"]
                 /\ wrec' = [wrec EXCEPT ![k].hash = IF restart THEN wh[h].hash ELSE @]
                 /\ missed' = [missed EXCEPT ![k] =
                                  IF restart THEN wh[h].hash # wfiles[k] /\ (@ \/ wrec[k].handle # h)
                                             ELSE @ \/ changed]
    /\ UNCHANGED <<wcall, wfiles, launches>>

(***************************************************************************)
(* Faulty variant: what arrived during the restart is taken for its effect *)
(* and thrown away.                                                        *)
(***************************************************************************)
RestartAndDrain(h) ==
    /\ wh[h].at = "restart"
    /\ wh' = [wh EXCEPT ![h].at = "head", ![h].events = FALSE]
    /\ UNCHANGED <<wrec, wcall, wfiles, launches, missed>>

(***************************************************************************)
(* restart_service_no_wait or restart_global_no_wait; an error is printed. *)
(***************************************************************************)
Restart(h) ==
    /\ wh[h].at = "restart"
    /\ wh' = [wh EXCEPT ![h].at = "head"]
    /\ \E failed \in BOOLEAN : missed' = [missed EXCEPT ![wh[h].key] = @ \/ failed]
    /\ UNCHANGED <<wrec, wcall, wfiles, launches>>

spawn_service_auto_restart_watcher(h) ==
    \/ LoopHead(h) \/ Receive(h) \/ Debounced(h)
    \/ \E k \in WatchKeys \ GlobalKeys : Decide(h, k)
    \/ Restart(h)

spawn_global_auto_restart_watcher(h) == \E k \in GlobalKeys : Decide(h, k)

WatchCommand(c) ==
    \E k \in WatchKeys :
        \/ \E auto, started \in BOOLEAN, v \in 1..MaxVersion : StoreLaunch(c, k, auto, started, v)
        \/ \E auto \in BOOLEAN : apply_prepared_to_runtime(c, k, auto)
        \/ pause_watch(c, k) \/ resume_watch(c, k)
        \/ stop_service_handles(c, k) \/ DropRecord(c, k)

WatchNext ==
    \/ \E c \in WatchCallers :
         \/ WatchCommand(c)
         \/ sync_service_auto_restart_watcher(c) \/ sync_global_auto_restart_watcher(c)
    \/ \E h \in WatchHandles :
         spawn_service_auto_restart_watcher(h) \/ spawn_global_auto_restart_watcher(h)
    \/ \E k \in WatchKeys : EditFile(k)

WatchSpec == WatchInit /\ [][WatchNext]_watchVars

-----------------------------------------------------------------------------
Live(h) == wh[h].at \notin {"unborn", "ended"}

(***************************************************************************)
(* A watcher that was not told to stop is the one its record names, or is  *)
(* in the hands of a sync call, however many of these overlap; only what a *)
(* dropped record named is left.                                           *)
(***************************************************************************)
NoStrayWatcher ==
    \A h \in WatchHandles :
        Live(h) /\ ~wh[h].stop =>
            \/ wrec[wh[h].key].handle = h
            \/ \E c \in WatchCallers : wcall[c].at = "store" /\ wcall[c].handle = h
            \/ wh[h].left

(***************************************************************************)
(* A watcher at rest has restarted its service for the last edit, whatever *)
(* was edited while it hashed or restarted.  Excepted are edits that found *)
(* no watcher, a pause, an error of the hash or of the restart, and one    *)
(* overtaken by the late restart of another watcher.                       *)
(***************************************************************************)
NoEditForgotten ==
    \A k \in WatchKeys : \A h \in WatchHandles :
        (/\ wrec[k].handle = h /\ wrec[k].auto
         /\ wh[h].at = "head" /\ ~wh[h].events /\ ~wh[h].pending)
        => missed[k] \/ wrec[k].hash = wfiles[k]
=============================================================================
