---------------------------- MODULE LocalSystemd ----------------------------
(***************************************************************************)
(* The service manager of machines without systemd (src/src/systemd.rs,    *)
(* LocalSystemd) and the shim it runs each service under (src/src/shim.rs).*)
(* A call takes the unit out of the map under the lock, then reaps the old *)
(* process and spawns the new one without it, and takes the lock again to  *)
(* put the unit back: other calls on the unit fall into that window.       *)
(*                                                                         *)
(* A unit's process group holds the shim alone; the shim puts the service  *)
(* into a group of its own and passes signals on once it has installed its *)
(* handlers.  A process group is named by a value that is used once.       *)
(***************************************************************************)
CONSTANTS
    Units,
    Pgids,            \* process groups the manager may create
    Callers,          \* tasks that call the manager
    RemainAfterExit,  \* units kept after their process has ended
    Exclusive,        \* whether calls on one unit exclude each other
    NoUnit, NoPgid

ASSUME UnitAssumption ==
    /\ RemainAfterExit \subseteq Units
    /\ Exclusive \in BOOLEAN
    /\ NoUnit \notin Units /\ NoPgid \notin Pgids

LocalUnit == [pgid : Pgids, child : BOOLEAN, last_status : BOOLEAN]

PersistedLocalUnit == [pgid : Pgids, last_status : BOOLEAN]

ASSUME NoUnitAssumption == NoUnit \notin LocalUnit \cup PersistedLocalUnit

VARIABLES
    units,     \* the map: unit -> its record; last_status: an exit was seen
    registry,  \* local-units.json
    call,      \* caller -> the call it is in
    shim,      \* pgid -> the shim's life
    service,   \* pgid -> the life of the group of the service under that shim
    lost,      \* groups that were spawned when the daemon died
    stopped    \* unit -> a stop returned and no start has begun since

vars == <<units, registry, call, shim, service, lost, stopped>>

Ops == {"start", "stop", "restart", "kill"}

Call == [op : Ops \cup {"none"}, unit : Units \cup {NoUnit},
         at : {"idle", "reap", "spawn", "insert"}, pgid : Pgids \cup {NoPgid}]

IdleCall == [op |-> "none", unit |-> NoUnit, at |-> "idle", pgid |-> NoPgid]

TypeOK ==
    /\ units \in [Units -> LocalUnit \cup {NoUnit}]
    /\ registry \in [Units -> PersistedLocalUnit \cup {NoUnit}]
    /\ call \in [Callers -> Call]
    /\ \A c \in Callers :
         /\ call[c].at \in {"reap", "insert"} <=> call[c].pgid # NoPgid
         /\ call[c].at # "idle" <=> call[c].unit # NoUnit
    /\ shim \in [Pgids -> {"unborn", "starting", "spawned", "running",
                           "closing", "gone", "failed"}]
    /\ service \in [Pgids -> {"none", "running", "gone"}]
    /\ lost \subseteq Pgids
    /\ stopped \in [Units -> BOOLEAN]

process_group_exists(g) == shim[g] \notin {"unborn", "gone", "failed"}

(***************************************************************************)
(* persist_units_sync: the map without the child handles.                  *)
(***************************************************************************)
persist_units_sync(us) ==
    [u \in Units |->
        IF us[u] = NoUnit THEN NoUnit
        ELSE [pgid |-> us[u].pgid, last_status |-> us[u].last_status]]

Init ==
    /\ units = [u \in Units |-> NoUnit]
    /\ registry = [u \in Units |-> NoUnit]
    /\ call = [c \in Callers |-> IdleCall]
    /\ shim = [g \in Pgids |-> "unborn"]
    /\ service = [g \in Pgids |-> "none"]
    /\ lost = {}
    /\ stopped = [u \in Units |-> FALSE]

-----------------------------------------------------------------------------
(***************************************************************************)
(* signal_unit: SIGTERM makes a shim that listens shut its service down;   *)
(* SIGKILL ends it.  One that has not installed its handlers dies of       *)
(* either: it has failed rather than gone.                                 *)
(***************************************************************************)
Killed(g) == CASE shim[g] \in {"running", "closing"} -> "gone"
               [] shim[g] \in {"starting", "spawned"} -> "failed"
               [] OTHER -> shim[g]

signal_unit(g, op) ==
    [shim EXCEPT ![g] =
        IF op # "kill" /\ @ \in {"running", "closing"} THEN "closing" ELSE Killed(g)]

Ends(c) == [call EXCEPT ![c] = IdleCall]

(***************************************************************************)
(* What a call does with the unit it took.  The old process is signalled   *)
(* and has to be reaped; without one, start goes on to spawn and the other *)
(* calls return.                                                           *)
(***************************************************************************)
HandOver(c, op, u) ==
    \/ /\ units[u] # NoUnit
       /\ shim' = signal_unit(units[u].pgid, op)
       /\ call' = [call EXCEPT ![c] = [op |-> op, unit |-> u, at |-> "reap",
                                       pgid |-> units[u].pgid]]
       /\ stopped' = [stopped EXCEPT ![u] = @ /\ op # "start"]
    \/ /\ units[u] = NoUnit /\ op = "start"
       /\ call' = [call EXCEPT ![c] = [op |-> op, unit |-> u, at |-> "spawn",
                                       pgid |-> NoPgid]]
       /\ stopped' = [stopped EXCEPT ![u] = FALSE]
       /\ UNCHANGED shim
    \/ /\ units[u] = NoUnit /\ op # "start"
       /\ stopped' = [stopped EXCEPT ![u] = @ \/ op # "restart"]
       /\ UNCHANGED <<call, shim>>

MayCall(c, u) ==
    /\ call[c].at = "idle"
    /\ Exclusive => \A d \in Callers : call[d].unit # u

(***************************************************************************)
(* Faulty variants: the unit is looked up but stays in the map; it leaves  *)
(* the map but stays in the file.                                          *)
(***************************************************************************)
TakeWithoutRemoval(c, op, u) ==
    MayCall(c, u) /\ HandOver(c, op, u) /\ UNCHANGED <<units, registry, service, lost>>

TakeWithoutPersist(c, op, u) ==
    /\ MayCall(c, u) /\ HandOver(c, op, u)
    /\ units' = [units EXCEPT ![u] = NoUnit]
    /\ UNCHANGED <<registry, service, lost>>

(***************************************************************************)
(* The start of start_transient_service, stop_unit, restart_unit and       *)
(* kill_unit: the unit leaves the map and the file.                        *)
(***************************************************************************)
TakeUnit(c, op, u) ==
    /\ MayCall(c, u) /\ HandOver(c, op, u)
    /\ units' = [units EXCEPT ![u] = NoUnit]
    /\ registry' = persist_units_sync(units')
    /\ UNCHANGED <<service, lost>>

(***************************************************************************)
(* stop_and_reap: the shim is gone, or three seconds are over and SIGKILL  *)
(* ends it.                                                                *)
(***************************************************************************)
stop_and_reap(c) ==
    /\ call[c].at = "reap"
    /\ shim' = [shim EXCEPT ![call[c].pgid] = Killed(call[c].pgid)]
    /\ call' = IF call[c].op \in {"start", "restart"}
                 THEN [call EXCEPT ![c].at = "spawn", ![c].pgid = NoPgid]
                 ELSE Ends(c)
    /\ stopped' = [stopped EXCEPT ![call[c].unit] =
                       @ \/ call[c].op \in {"stop", "kill"}]
    /\ UNCHANGED <<units, registry, service, lost>>

(***************************************************************************)
(* spawn_child; when it fails the call ends, and the unit stays out of the *)
(* map.                                                                    *)
(***************************************************************************)
spawn_child(c, g) ==
    /\ call[c].at = "spawn" /\ shim[g] = "unborn"
    /\ shim' = [shim EXCEPT ![g] = "starting"]
    /\ call' = [call EXCEPT ![c].at = "insert", ![c].pgid = g]
    /\ UNCHANGED <<units, registry, service, lost, stopped>>

SpawnFails(c) ==
    /\ call[c].at = "spawn"
    /\ call' = Ends(c)
    /\ UNCHANGED <<units, registry, shim, service, lost, stopped>>

(***************************************************************************)
(* Faulty variant: the new unit does not reach the file.                   *)
(***************************************************************************)
InsertWithoutPersist(c) ==
    /\ call[c].at = "insert"
    /\ units' = [units EXCEPT ![call[c].unit] =
           [pgid |-> call[c].pgid, child |-> TRUE, last_status |-> FALSE]]
    /\ call' = Ends(c)
    /\ UNCHANGED <<registry, shim, service, lost, stopped>>

(***************************************************************************)
(* The end of a start or restart: the new record replaces whatever is      *)
(* there.                                                                  *)
(***************************************************************************)
InsertUnit(c) ==
    /\ call[c].at = "insert"
    /\ units' = [units EXCEPT ![call[c].unit] =
           [pgid |-> call[c].pgid, child |-> TRUE, last_status |-> FALSE]]
    /\ registry' = persist_units_sync(units')
    /\ call' = Ends(c)
    /\ UNCHANGED <<shim, service, lost, stopped>>

-----------------------------------------------------------------------------
(***************************************************************************)
(* A unit that unit_status and the reaper leave alone: its child runs, its *)
(* exit is to be remembered, or (no child handle after a restart of the    *)
(* daemon) its group still exists.                                         *)
(***************************************************************************)
Settled(u) ==
    \/ process_group_exists(units[u].pgid)
    \/ ~units[u].child /\ u \in RemainAfterExit /\ units[u].last_status

Exited(u) == [pgid |-> units[u].pgid, child |-> FALSE, last_status |-> TRUE]

(***************************************************************************)
(* unit_status: the first look at an ended child records its exit, the     *)
(* next one removes the unit.                                              *)
(***************************************************************************)
unit_status(u) ==
    /\ units[u] # NoUnit /\ ~Settled(u)
    /\ units' = [units EXCEPT ![u] = IF @.child THEN Exited(u) ELSE NoUnit]
    /\ registry' = persist_units_sync(units')
    /\ UNCHANGED <<call, shim, service, lost, stopped>>

(***************************************************************************)
(* Faulty variant: the reaper asks only for the child handle.              *)
(***************************************************************************)
ReapUnitsWithoutChild ==
    /\ \E u \in Units : units[u] # NoUnit /\ ~Settled(u)
    /\ units' = [u \in Units |->
           IF units[u] = NoUnit \/ ~units[u].child THEN NoUnit
           ELSE IF Settled(u) THEN units[u]
           ELSE IF u \in RemainAfterExit THEN Exited(u)
           ELSE NoUnit]
    /\ registry' = persist_units_sync(units')
    /\ UNCHANGED <<call, shim, service, lost, stopped>>

(***************************************************************************)
(* One tick of the reaper, over the whole map under the lock.              *)
(***************************************************************************)
spawn_reaper ==
    /\ \E u \in Units : units[u] # NoUnit /\ ~Settled(u)
    /\ units' = [u \in Units |->
           IF units[u] = NoUnit \/ Settled(u) THEN units[u]
           ELSE IF units[u].child /\ u \in RemainAfterExit THEN Exited(u)
           ELSE NoUnit]
    /\ registry' = persist_units_sync(units')
    /\ UNCHANGED <<call, shim, service, lost, stopped>>

should_keep_loaded_unit(u) ==
    /\ registry[u] # NoUnit
    /\ \/ u \in RemainAfterExit /\ registry[u].last_status
       \/ process_group_exists(registry[u].pgid)

(***************************************************************************)
(* The daemon dies and its successor loads the file.  Shims and services   *)
(* live on.                                                                *)
(***************************************************************************)
with_registry_path ==
    /\ units' = [u \in Units |->
           IF should_keep_loaded_unit(u)
             THEN [pgid |-> registry[u].pgid, child |-> FALSE,
                   last_status |-> registry[u].last_status]
             ELSE NoUnit]
    /\ registry' = persist_units_sync(units')
    /\ lost' = lost \cup {call[c].pgid : c \in {d \in Callers : call[d].at = "insert"}}
    /\ call' = [c \in Callers |-> IdleCall]
    /\ UNCHANGED <<shim, service, stopped>>

-----------------------------------------------------------------------------
(***************************************************************************)
(* The shim: spawn the service, install the handlers.  An error before     *)
(* that, such as a log file that cannot be opened, ends the shim alone.    *)
(***************************************************************************)
ShimSpawns(g) ==
    /\ shim[g] = "starting"
    /\ shim' = [shim EXCEPT ![g] = "spawned"]
    /\ service' = [service EXCEPT ![g] = "running"]
    /\ UNCHANGED <<units, registry, call, lost, stopped>>

ShimListens(g) ==
    /\ shim[g] = "spawned"
    /\ shim' = [shim EXCEPT ![g] = "running"]
    /\ UNCHANGED <<units, registry, call, service, lost, stopped>>

ShimFails(g) ==
    /\ shim[g] \in {"starting", "spawned"}
    /\ shim' = [shim EXCEPT ![g] = "failed"]
    /\ UNCHANGED <<units, registry, call, service, lost, stopped>>

ServiceExits(g) ==
    /\ service[g] = "running"
    /\ service' = [service EXCEPT ![g] = "gone"]
    /\ UNCHANGED <<units, registry, call, shim, lost, stopped>>

(***************************************************************************)
(* shutdown_process_group after five seconds: SIGKILL to the service.      *)
(***************************************************************************)
shutdown_process_group(g) ==
    /\ shim[g] = "closing" /\ service[g] = "running"
    /\ service' = [service EXCEPT ![g] = "gone"]
    /\ UNCHANGED <<units, registry, call, shim, lost, stopped>>

ShimExits(g) ==
    /\ shim[g] \in {"running", "closing"} /\ service[g] = "gone"
    /\ shim' = [shim EXCEPT ![g] = "gone"]
    /\ UNCHANGED <<units, registry, call, service, lost, stopped>>

Shim(g) ==
    \/ ShimSpawns(g) \/ ShimListens(g) \/ ShimFails(g)
    \/ ServiceExits(g) \/ shutdown_process_group(g) \/ ShimExits(g)

Next ==
    \/ \E c \in Callers, op \in Ops, u \in Units : TakeUnit(c, op, u)
    \/ \E c \in Callers : stop_and_reap(c) \/ SpawnFails(c) \/ InsertUnit(c)
    \/ \E c \in Callers, g \in Pgids : spawn_child(c, g)
    \/ \E u \in Units : unit_status(u)
    \/ spawn_reaper
    \/ with_registry_path
    \/ \E g \in Pgids : Shim(g)

Spec == Init /\ [][Next]_vars

-----------------------------------------------------------------------------
(***************************************************************************)
(* A process group has one holder: a unit of the map, or one call.  No two *)
(* calls reap the same process, and none reaps one that a unit still       *)
(* names, not even after the file has been loaded again.                   *)
(***************************************************************************)
OneHolder ==
    /\ \A u, v \in Units :
         units[u] # NoUnit /\ units[v] # NoUnit /\ units[u].pgid = units[v].pgid
           => u = v
    /\ \A c, d \in Callers :
         call[c].pgid = call[d].pgid /\ call[c].pgid # NoPgid => c = d
    /\ \A u \in Units, c \in Callers :
         units[u] # NoUnit => units[u].pgid # call[c].pgid

Held(g) ==
    \/ \E u \in Units : units[u] # NoUnit /\ units[u].pgid = g
    \/ \E c \in Callers : call[c].pgid = g

(***************************************************************************)
(* No shim is forgotten: one that lives and was not told to close is held  *)
(* by a unit or a call, unless the daemon died before it had recorded it.  *)
(***************************************************************************)
LiveShimIsHeld ==
    \A g \in Pgids \ lost :
        process_group_exists(g) /\ shim[g] # "closing" => Held(g)

(***************************************************************************)
(* What a restarted daemon would load names every process the map names.   *)
(***************************************************************************)
UnitsAreRestorable ==
    \A u \in Units :
        units[u] # NoUnit /\ process_group_exists(units[u].pgid)
          => should_keep_loaded_unit(u) /\ registry[u].pgid = units[u].pgid

(***************************************************************************)
(* Once stop_unit or kill_unit has returned, only a new start brings the   *)
(* unit back.                                                              *)
(***************************************************************************)
StopIsFinal == \A u \in Units : stopped[u] => units[u] = NoUnit

(***************************************************************************)
(* No service outlives a shim that had taken charge of it: whoever stops   *)
(* or kills the unit ends the service too.                                 *)
(***************************************************************************)
NoOrphanService == \A g \in Pgids : service[g] = "running" => shim[g] # "gone"

(***************************************************************************)
(* What makes OneHolder inductive: the file mirrors the map, and a group   *)
(* that was never created is held by nobody.                               *)
(***************************************************************************)
RegistryIsCurrent == registry = persist_units_sync(units)

HeldGroupsAreBorn ==
    /\ \A u \in Units : units[u] # NoUnit => shim[units[u].pgid] # "unborn"
    /\ \A c \in Callers : call[c].pgid # NoPgid => shim[call[c].pgid] # "unborn"

IInv ==
    /\ TypeOK
    /\ OneHolder
    /\ RegistryIsCurrent
    /\ HeldGroupsAreBorn

(***************************************************************************)
(* What makes StopIsFinal and LiveShimIsHeld inductive when calls on one   *)
(* unit exclude each other: a unit that a call works on is out of the map, *)
(* a call that is going to put it back was not overtaken by a stop, and a  *)
(* process that is being reaped has had its signal.                        *)
(***************************************************************************)
CallsExclude ==
    /\ \A c, d \in Callers : call[c].unit = call[d].unit /\ call[c].unit # NoUnit => c = d
    /\ \A c \in Callers : call[c].unit # NoUnit => units[call[c].unit] = NoUnit

BringsBack(c) ==
    \/ call[c].at \in {"spawn", "insert"}
    \/ call[c].at = "reap" /\ call[c].op \in {"start", "restart"}

StartIsNotStopped == \A c \in Callers : BringsBack(c) => ~stopped[call[c].unit]

ReapedAreSignalled ==
    \A c \in Callers :
        call[c].at = "reap" => shim[call[c].pgid] \in {"closing", "gone", "failed"}

EInv ==
    /\ CallsExclude /\ StartIsNotStopped /\ ReapedAreSignalled
    /\ StopIsFinal /\ LiveShimIsHeld
=============================================================================
