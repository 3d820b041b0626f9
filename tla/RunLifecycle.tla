---------------------------- MODULE RunLifecycle ----------------------------
(***************************************************************************)
(* The life of one run: its record in the run store, the units of its      *)
(* services, and everything that acts on them concurrently: an up or       *)
(* refresh, a down or kill, restarts by the user or the file watcher, the  *)
(* readiness tasks, the health monitors, a status query, and gc.           *)
(* (src/src/app/commands, src/src/app/launch, src/src/stores/runs.rs.)     *)
(*                                                                         *)
(* Every closure passed to with_run_mut or with_run is one step; between   *)
(* two of them, and at every call of the service manager, any other actor  *)
(* may run.  The service manager is external and each call of it is one    *)
(* step.  A command that returns an error stops where the error occurred.  *)
(***************************************************************************)
EXTENDS Naturals, FiniteSets

CONSTANTS
    Services,         \* services of the stack
    Rank,             \* position of a service in StackPlan.order
    HealthChecked,    \* services whose readiness kind is not Exit
    Handles,          \* health handles in use at a time (bound)
    FailureThreshold, \* consecutive failures that degrade a service (3)
    RestartLimit,     \* restarts a monitor attempts (3)
    MaxTasks,         \* readiness tasks per service at a time (bound)
    MaxRestarts,      \* restarts per service in flight at a time (bound)
    Commands,         \* what clients send
    MaxCommands,      \* how many of them (bound)
    Serial,           \* clients send up and down one at a time
    NoRun, NoRecord, NoHandle

ASSUME PlanAssumption ==
    /\ Rank \in [Services -> Nat]
    /\ \A s, q \in Services : Rank[s] = Rank[q] => s = q

ASSUME LimitAssumption ==
    /\ FailureThreshold \in Nat \ {0} /\ RestartLimit \in Nat \ {0}
    /\ MaxTasks \in Nat /\ MaxRestarts \in Nat /\ MaxCommands \in Nat
    /\ HealthChecked \subseteq Services /\ NoHandle \notin Handles
    /\ Serial \in BOOLEAN
    /\ Commands \subseteq {"up", "refresh", "down", "gc", "restart", "status"}

VARIABLES
    run,       \* the run's record: state and whether stopped_at is set
    services,  \* service -> its record: state, last_failure, health handle
    unit,      \* service -> its unit in the service manager (external)
    stop_flag, \* handle -> its stop flag
    monitor,   \* handle -> the monitor task spawned when it was created
    tasks,     \* service -> readiness tasks waiting
    restarts,  \* service -> restarts between marking and restart_unit
    launch,    \* the up or refresh in progress
    down,      \* the down or kill in progress
    query,     \* the status query in progress
    gave_up,   \* handles whose monitor reached the restart limit
    leaked,    \* handles still in a record when its run was removed
    sent       \* commands clients have sent

vars == <<run, services, unit, stop_flag, monitor, tasks, restarts, launch,
          down, query, gave_up, leaked, sent>>

ServiceState == {"Starting", "Ready", "Degraded", "Failed", "Stopped"}
RunLifecycleState == {"Starting", "Running", "Degraded", "Stopped"}
Failure == {"none", "health", "other"}

Run == [state : RunLifecycleState, stopped_at : BOOLEAN]
ServiceRecord == [state : ServiceState, last_failure : Failure,
                  health : Handles \cup {NoHandle}]

ASSUME NoneAssumption == NoRun \notin Run /\ NoRecord \notin ServiceRecord
                         /\ NoRecord \notin ServiceState

Task(pc, s, h, restart_count, failures) ==
    [pc |-> pc, svc |-> s, handle |-> h, restart_count |-> restart_count,
     consecutive_failures |-> failures]
IdleMonitor == Task("none", NoRecord, NoHandle, 0, 0)
IdleLaunch == [pc |-> "idle", todo |-> {}, unlink |-> {},
               existing |-> {}, live |-> {}, wait |-> FALSE, start_ok |-> FALSE]
IdleDown == [pc |-> "idle", todo |-> {}, purge |-> FALSE]
IdleQuery == [pc |-> "idle", todo |-> {}, state |-> "Starting",
              seen |-> [s \in Services |-> NoRecord]]

MonitorTask == [pc : {"none", "spawned", "loop", "probe", "restart", "unit", "limit"},
                svc : Services \cup {NoRecord}, handle : Handles \cup {NoHandle},
                restart_count : 0..RestartLimit,
                consecutive_failures : 0..FailureThreshold]
Launch == [pc : {"idle", "failed", "found", "unlink", "update", "next",
                 "store", "proxy", "await"},
           todo : SUBSET Services, unlink : SUBSET Services,
           existing : SUBSET Services, live : SUBSET Services,
           wait : BOOLEAN, start_ok : BOOLEAN]
Down == [pc : {"idle", "list", "stop", "purge"}, todo : SUBSET Services, purge : BOOLEAN]
Query == [pc : {"idle", "probe"}, todo : SUBSET Services, state : RunLifecycleState,
          seen : [Services -> ServiceRecord \cup {NoRecord}]]

RecordsTypeOK ==
    /\ run \in Run \cup {NoRun}
    /\ services \in [Services -> ServiceRecord \cup {NoRecord}]

HandlesTypeOK ==
    /\ stop_flag \in [Handles -> BOOLEAN]
    /\ monitor \in [Handles -> MonitorTask]
    /\ \A m \in Handles :
         /\ monitor[m].pc # "none" => monitor[m].svc \in Services
         /\ monitor[m].pc \notin {"none", "spawned"} => monitor[m].handle # NoHandle
    /\ gave_up \subseteq Handles /\ leaked \subseteq Handles

CommandsTypeOK ==
    /\ launch \in Launch
    /\ launch.pc \in {"store", "proxy", "await"} => launch.todo # {}
    /\ down \in Down
    /\ query \in Query
    /\ \A s \in query.todo : query.seen[s] # NoRecord

UnitsTypeOK ==
    /\ unit \in [Services -> {"absent", "active", "failed"}]
    /\ tasks \in [Services -> 0..MaxTasks]
    /\ restarts \in [Services -> 0..MaxRestarts]
    /\ sent \in 0..MaxCommands

TypeOK == RecordsTypeOK /\ HandlesTypeOK /\ CommandsTypeOK /\ UnitsTypeOK

-----------------------------------------------------------------------------

Recorded(svcs) == {s \in Services : svcs[s] # NoRecord}

Degraded(svcs) == \E s \in Recorded(svcs) : svcs[s].state \in {"Degraded", "Failed"}

AllReady(svcs) == \A s \in Recorded(svcs) : svcs[s].state = "Ready"

(***************************************************************************)
(* Faulty variant: the state of a stopped run is recomputed, too.          *)
(***************************************************************************)
RecomputeStopped(r, svcs) ==
    IF r = NoRun THEN r
    ELSE [r EXCEPT !.state = IF Degraded(svcs) THEN "Degraded"
                             ELSE IF AllReady(svcs) THEN "Running"
                             ELSE IF r.state = "Stopped" THEN "Stopped"
                             ELSE "Starting"]

(***************************************************************************)
(* recompute_run_state: a stopped run stays stopped.                       *)
(***************************************************************************)
recompute_run_state(r, svcs) ==
    IF r = NoRun \/ r.state = "Stopped" THEN r
    ELSE [r EXCEPT !.state = IF Degraded(svcs) THEN "Degraded"
                             ELSE IF AllReady(svcs) THEN "Running"
                             ELSE "Starting"]

(***************************************************************************)
(* A with_run_mut that changes the records and recomputes the run's state. *)
(***************************************************************************)
StoreAndRecompute(svcs) ==
    /\ services' = svcs
    /\ run' = recompute_run_state(run, svcs)

\* A record gets a new state; there may be none.
SetState(s, state, failure) ==
    IF services[s] = NoRecord THEN services
    ELSE [services EXCEPT ![s] =
             [state |-> state, last_failure |-> failure, health |-> @.health]]

Health(ss) == {services[s].health : s \in ss \cap Recorded(services)} \ {NoHandle}

(***************************************************************************)
(* stop_health_monitor on the services ss: take the handle, set its flag.  *)
(***************************************************************************)
stop_health_monitor(ss) ==
    stop_flag' = [h \in Handles |-> stop_flag[h] \/ h \in Health(ss)]

Free(h) ==
    /\ h \notin Health(Services)
    /\ monitor[h].pc = "none"
    /\ \A m \in Handles : monitor[m].handle # h

(***************************************************************************)
(* mark_service_ready.  A service without a handle that is to be monitored *)
(* gets a new one, and a monitor task is spawned.                          *)
(***************************************************************************)
mark_service_ready(s) ==
    \/ /\ services[s] = NoRecord
       /\ StoreAndRecompute(services)
       /\ UNCHANGED <<stop_flag, monitor, gave_up, leaked>>
    \/ /\ services[s] # NoRecord
       /\ services[s].health # NoHandle \/ s \notin HealthChecked
       /\ StoreAndRecompute(SetState(s, "Ready", "none"))
       /\ UNCHANGED <<stop_flag, monitor, gave_up, leaked>>
    \/ /\ services[s] # NoRecord
       /\ services[s].health = NoHandle /\ s \in HealthChecked
       /\ \E h \in Handles :
            /\ Free(h)
            /\ StoreAndRecompute([services EXCEPT
                   ![s] = [state |-> "Ready", last_failure |-> "none", health |-> h]])
            /\ stop_flag' = [stop_flag EXCEPT ![h] = FALSE]
            /\ monitor' = [monitor EXCEPT ![h] = Task("spawned", s, NoHandle, 0, 0)]
            /\ gave_up' = gave_up \ {h} /\ leaked' = leaked \ {h}

(***************************************************************************)
(* Faulty variant: the run's state is not recomputed.                      *)
(***************************************************************************)
MarkFailedWithoutRecompute(s) ==
    /\ services' = SetState(s, "Failed", "other")
    /\ UNCHANGED <<run, stop_flag, monitor, gave_up, leaked>>

(***************************************************************************)
(* mark_service_failed.                                                    *)
(***************************************************************************)
mark_service_failed(s) ==
    /\ StoreAndRecompute(SetState(s, "Failed", "other"))
    /\ UNCHANGED <<stop_flag, monitor, gave_up, leaked>>

-----------------------------------------------------------------------------

Init ==
    /\ run = NoRun
    /\ services = [s \in Services |-> NoRecord]
    /\ unit = [s \in Services |-> "absent"]
    /\ stop_flag = [h \in Handles |-> TRUE]
    /\ monitor = [h \in Handles |-> IdleMonitor]
    /\ tasks = [s \in Services |-> 0] /\ restarts = [s \in Services |-> 0]
    /\ launch = IdleLaunch /\ down = IdleDown /\ query = IdleQuery
    /\ gave_up = {} /\ leaked = {} /\ sent = 0

handles == <<stop_flag, monitor, gave_up, leaked>>
commands == <<launch, down, query>>

LaunchIdle == launch.pc \in {"idle", "failed"}
Send(c) ==
    /\ c \in Commands /\ sent < MaxCommands
    /\ sent' = sent + 1
    /\ Serial /\ c \in {"up", "refresh", "down"} => LaunchIdle /\ down.pc = "idle"

(***************************************************************************)
(* up with a new run id: create_run_record.                                *)
(***************************************************************************)
create_run_record(wait) ==
    /\ Send("up") /\ LaunchIdle /\ run = NoRun
    /\ run' = [state |-> "Starting", stopped_at |-> FALSE]
    /\ launch' = [IdleLaunch EXCEPT !.pc = "next", !.todo = Services, !.wait = wait]
    /\ UNCHANGED <<services, unit, tasks, restarts, down, query, handles>>

(***************************************************************************)
(* up of a stack that has a live run (find_latest_run_for_project_stack),  *)
(* with a plan that may lack some of the run's services; refresh_run then  *)
(* takes its snapshot in a step of its own: which services have a record,  *)
(* and which of these are in a state that needs no restart.                *)
(***************************************************************************)
find_latest_run_for_project_stack(plan, wait) ==
    /\ Send("refresh") /\ LaunchIdle
    /\ run # NoRun /\ run.state # "Stopped" /\ ~run.stopped_at
    /\ launch' = [IdleLaunch EXCEPT !.pc = "found", !.todo = plan, !.wait = wait]
    /\ UNCHANGED <<run, services, unit, tasks, restarts, down, query, handles>>

refresh_run ==
    /\ launch.pc = "found" /\ run # NoRun
    /\ launch' = [launch EXCEPT
           !.pc = "unlink",
           !.existing = Recorded(services),
           !.live = {s \in Recorded(services) :
                       services[s].state \in {"Starting", "Ready"}},
           !.unlink = Recorded(services) \ launch.todo]
    /\ UNCHANGED <<run, services, unit, tasks, restarts, down, query, handles, sent>>

(***************************************************************************)
(* remove_services_missing_from_stack: stop their units one by one, then   *)
(* drop the records.                                                       *)
(***************************************************************************)
RemoveMissingUnit(s) ==
    /\ launch.pc = "unlink" /\ s \in launch.unlink
    /\ unit' = [unit EXCEPT ![s] = "absent"]
    /\ launch' = [launch EXCEPT !.unlink = @ \ {s}]
    /\ UNCHANGED <<run, services, tasks, restarts, down, query, handles, sent>>

Missing == launch.existing \ launch.todo

remove_services_missing_from_stack ==
    /\ launch.pc = "unlink" /\ launch.unlink = {}
    /\ run # NoRun \/ Missing = {}
    /\ IF Missing = {}
         THEN UNCHANGED <<run, services, stop_flag>>
         ELSE /\ StoreAndRecompute([s \in Services |->
                     IF s \in Missing THEN NoRecord ELSE services[s]])
              /\ stop_health_monitor(Missing)
    /\ launch' = [launch EXCEPT !.pc = "update", !.existing = @ \ Missing,
                                !.live = @ \ Missing]
    /\ UNCHANGED <<unit, tasks, restarts, down, query, monitor, gave_up, leaked, sent>>

(***************************************************************************)
(* update_run_launch_resources: a run stopped meanwhile is started again.  *)
(***************************************************************************)
update_run_launch_resources ==
    /\ launch.pc = "update" /\ run # NoRun
    /\ run' = IF run.state = "Stopped"
                THEN [state |-> "Starting", stopped_at |-> FALSE] ELSE run
    /\ launch' = [launch EXCEPT !.pc = "next"]
    /\ UNCHANGED <<services, unit, tasks, restarts, down, query, handles, sent>>

(***************************************************************************)
(* launch_services takes the services in the order of the plan.            *)
(***************************************************************************)
Current == CHOOSE s \in launch.todo : \A q \in launch.todo : Rank[s] <= Rank[q]

Advance(s) == [launch EXCEPT !.pc = "next", !.todo = @ \ {s}, !.start_ok = FALSE,
                             !.existing = @ \ {s}, !.live = @ \ {s}]

(***************************************************************************)
(* sync_unchanged_service: the up is not forced, the watch hash is the     *)
(* same and the snapshot says Starting or Ready (service_needs_restart).   *)
(***************************************************************************)
sync_unchanged_service ==
    /\ launch.pc = "next" /\ launch.todo # {} /\ run # NoRun
    /\ Current \in launch.live
    /\ launch' = Advance(Current)
    /\ UNCHANGED <<run, services, unit, tasks, restarts, down, query, handles, sent>>

(***************************************************************************)
(* Faulty variant: the old record's monitor is not stopped.                *)
(***************************************************************************)
ReplaceAndForgetMonitor(s, state, failure) ==
    /\ services' = [services EXCEPT ![s] =
           [state |-> state, last_failure |-> failure, health |-> NoHandle]]
    /\ UNCHANGED stop_flag

(***************************************************************************)
(* replace_service_record: the old record's monitor is stopped; the run's  *)
(* state is not recomputed.                                                *)
(***************************************************************************)
replace_service_record(s, state, failure) ==
    /\ services' = [services EXCEPT ![s] =
           [state |-> state, last_failure |-> failure, health |-> NoHandle]]
    /\ stop_health_monitor({s})

record_failed_init_service ==
    /\ launch.pc = "next" /\ launch.todo # {} /\ run # NoRun
    /\ replace_service_record(Current, "Failed", "other")
    /\ launch' = Advance(Current)
    /\ UNCHANGED <<run, unit, tasks, restarts, down, query, monitor, gave_up, leaked, sent>>

(***************************************************************************)
(* start_prepared_service, then store_service_launch_result.               *)
(***************************************************************************)
start_prepared_service(ok) ==
    /\ launch.pc = "next" /\ launch.todo # {}
    /\ unit' = [unit EXCEPT ![Current] = IF ok THEN "active" ELSE "absent"]
    /\ launch' = [launch EXCEPT !.pc = "store", !.start_ok = ok]
    /\ UNCHANGED <<run, services, tasks, restarts, down, query, handles, sent>>

store_service_launch_result ==
    /\ launch.pc = "store" /\ run # NoRun
    /\ IF launch.start_ok
         THEN /\ replace_service_record(Current, "Starting", "none")
              /\ launch' = [launch EXCEPT !.pc = "proxy"]
         ELSE /\ replace_service_record(Current, "Failed", "other")
              /\ launch' = Advance(Current)
    /\ UNCHANGED <<run, unit, tasks, restarts, down, query, monitor, gave_up, leaked, sent>>

(***************************************************************************)
(* sync_service_api_capture_proxy fails, which fails the launch; or        *)
(* handle_readiness spawns a readiness task or waits itself.               *)
(***************************************************************************)
CaptureProxyFailed ==
    /\ launch.pc = "proxy"
    /\ mark_service_failed(Current)
    /\ launch' = [IdleLaunch EXCEPT !.pc = "failed"]
    /\ UNCHANGED <<unit, tasks, restarts, down, query, sent>>

handle_readiness ==
    /\ launch.pc = "proxy"
    /\ \/ /\ launch.wait
          /\ launch' = [launch EXCEPT !.pc = "await"]
          /\ UNCHANGED tasks
       \/ /\ ~launch.wait /\ tasks[Current] < MaxTasks
          /\ tasks' = [tasks EXCEPT ![Current] = @ + 1]
          /\ launch' = Advance(Current)
    /\ UNCHANGED <<run, services, unit, restarts, down, query, handles, sent>>

wait_for_prepared_service ==
    /\ launch.pc = "await"
    /\ \/ /\ mark_service_ready(Current)
          /\ launch' = IF run = NoRun THEN [IdleLaunch EXCEPT !.pc = "failed"]
                       ELSE Advance(Current)
       \/ /\ mark_service_failed(Current)
          /\ launch' = [IdleLaunch EXCEPT !.pc = "failed"]
    /\ UNCHANGED <<unit, tasks, restarts, down, query, sent>>

finalize_run_launch ==
    /\ launch.pc = "next" /\ launch.todo = {} /\ run # NoRun
    /\ StoreAndRecompute(services)
    /\ launch' = IdleLaunch
    /\ UNCHANGED <<unit, tasks, restarts, down, query, handles, sent>>

(***************************************************************************)
(* The launch returns an error: the run is gone, a port or the preparation *)
(* of a service fails, or a changed port of the old record cannot be       *)
(* released.                                                               *)
(***************************************************************************)
LaunchError ==
    /\ \/ run = NoRun /\ launch.pc \in {"found", "unlink", "update", "next", "store"}
       \/ launch.pc = "update"
       \/ launch.pc = "next" /\ launch.todo # {}
       \/ launch.pc = "store" /\ Current \in launch.existing
    /\ launch' = [IdleLaunch EXCEPT !.pc = "failed"]
    /\ UNCHANGED <<run, services, unit, tasks, restarts, down, query, handles, sent>>

-----------------------------------------------------------------------------
(***************************************************************************)
(* Faulty variant: the handles are stopped and left in the records.        *)
(***************************************************************************)
StopHandlesInPlace(purge) ==
    /\ Send("down") /\ down.pc = "idle" /\ run # NoRun
    /\ stop_health_monitor(Services)
    /\ down' = [pc |-> "list", todo |-> {}, purge |-> purge]
    /\ UNCHANGED <<run, services, unit, tasks, restarts, launch, query, monitor,
                   gave_up, leaked>>

(***************************************************************************)
(* down and kill: stop_service_handles, list the services, stop the units  *)
(* one by one, release the ports (which may fail), mark everything         *)
(* stopped, and perhaps remove the run.                                    *)
(***************************************************************************)
stop_service_handles(purge) ==
    /\ Send("down") /\ down.pc = "idle" /\ run # NoRun
    /\ services' = [s \in Services |-> IF services[s] = NoRecord THEN NoRecord
                                       ELSE [services[s] EXCEPT !.health = NoHandle]]
    /\ stop_health_monitor(Services)
    /\ down' = [pc |-> "list", todo |-> {}, purge |-> purge]
    /\ UNCHANGED <<run, unit, tasks, restarts, launch, query, monitor, gave_up, leaked>>

(***************************************************************************)
(* Faulty variant: only the services that are up are stopped.              *)
(***************************************************************************)
DownListReady ==
    /\ down.pc = "list"
    /\ down' = [down EXCEPT !.pc = "stop", !.todo =
                   {s \in Recorded(services) : services[s].state = "Ready"}]
    /\ UNCHANGED <<run, services, unit, tasks, restarts, launch, query, handles, sent>>

DownList ==
    /\ down.pc = "list"
    /\ down' = IF run = NoRun THEN IdleDown
               ELSE [down EXCEPT !.pc = "stop", !.todo = Recorded(services)]
    /\ UNCHANGED <<run, services, unit, tasks, restarts, launch, query, handles, sent>>

DownStopUnit(s) ==
    /\ down.pc = "stop" /\ s \in down.todo
    /\ unit' = [unit EXCEPT ![s] = "absent"]
    /\ down' = [down EXCEPT !.todo = @ \ {s}]
    /\ UNCHANGED <<run, services, tasks, restarts, launch, query, handles, sent>>

DownRefused ==
    /\ down.pc = "stop" /\ down.todo = {}
    /\ down' = IdleDown
    /\ UNCHANGED <<run, services, unit, tasks, restarts, launch, query, handles, sent>>

DownMarkStopped ==
    /\ down.pc = "stop" /\ down.todo = {} /\ run # NoRun
    /\ run' = [state |-> "Stopped", stopped_at |-> TRUE]
    /\ services' = [s \in Services |-> IF services[s] = NoRecord THEN NoRecord
                                       ELSE [services[s] EXCEPT !.state = "Stopped"]]
    /\ down' = IF down.purge THEN [down EXCEPT !.pc = "purge"] ELSE IdleDown
    /\ UNCHANGED <<unit, tasks, restarts, launch, query, handles, sent>>

(***************************************************************************)
(* remove_run, by a purge or by gc: the records go, no monitor is told.    *)
(***************************************************************************)
remove_run ==
    /\ run' = NoRun
    /\ services' = [s \in Services |-> NoRecord]
    /\ leaked' = leaked \cup Health(Services)
    /\ UNCHANGED <<stop_flag, monitor, gave_up>>

DownPurge ==
    /\ down.pc = "purge"
    /\ remove_run
    /\ down' = IdleDown
    /\ UNCHANGED <<unit, tasks, restarts, launch, query, sent>>

run_gc ==
    /\ Send("gc") /\ run # NoRun /\ run.state = "Stopped"
    /\ remove_run
    /\ UNCHANGED <<unit, tasks, restarts, commands>>

-----------------------------------------------------------------------------
(***************************************************************************)
(* restart_service_inner: mark the service Starting, whatever the run's    *)
(* state; restart the unit; then a readiness task decides.  A unit the     *)
(* manager does not know is not started.                                   *)
(***************************************************************************)
MarkRestarting(s) ==
    /\ services[s] # NoRecord
    /\ StoreAndRecompute(SetState(s, "Starting", "none"))

RestartedUnit(s) == [unit EXCEPT ![s] = IF @ = "absent" THEN "absent" ELSE "active"]

RestartBegin(s) ==
    /\ Send("restart") /\ restarts[s] < MaxRestarts
    /\ MarkRestarting(s)
    /\ restarts' = [restarts EXCEPT ![s] = @ + 1]
    /\ UNCHANGED <<unit, tasks, commands, handles>>

restart_unit(s) ==
    \/ /\ tasks[s] < MaxTasks
       /\ unit' = RestartedUnit(s)
       /\ tasks' = [tasks EXCEPT ![s] = @ + 1]
    \/ /\ unit' \in {unit, [unit EXCEPT ![s] = "absent"]}
       /\ UNCHANGED tasks

RestartUnit(s) ==
    /\ restarts[s] > 0
    /\ restart_unit(s)
    /\ restarts' = [restarts EXCEPT ![s] = @ - 1]
    /\ UNCHANGED <<run, services, commands, handles, sent>>

(***************************************************************************)
(* A readiness task (spawn_readiness_task, or the waiting half of a user's *)
(* restart) ends.                                                          *)
(***************************************************************************)
spawn_readiness_task(s) ==
    /\ tasks[s] > 0
    /\ mark_service_ready(s) \/ mark_service_failed(s)
    /\ tasks' = [tasks EXCEPT ![s] = @ - 1]
    /\ UNCHANGED <<unit, restarts, commands, sent>>

UnitFails(s) ==
    /\ unit[s] = "active"
    /\ unit' = [unit EXCEPT ![s] = "failed"]
    /\ UNCHANGED <<run, services, tasks, restarts, commands, handles, sent>>

-----------------------------------------------------------------------------
(***************************************************************************)
(* Faulty variant: the monitor runs without a handle.                      *)
(***************************************************************************)
StartWithoutHandle(m) ==
    /\ monitor[m].pc = "spawned"
    /\ monitor' = [monitor EXCEPT ![m] =
           IF services[@.svc] # NoRecord
             THEN Task("loop", monitor[m].svc, services[monitor[m].svc].health, 0, 0)
             ELSE IdleMonitor]
    /\ UNCHANGED <<run, services, unit, tasks, restarts, commands, stop_flag,
                   gave_up, leaked, sent>>

(***************************************************************************)
(* A health monitor (start_health_monitor).  The task reads the handle     *)
(* when it first runs, not when it is spawned.                             *)
(***************************************************************************)
start_health_monitor(m) ==
    LET s == monitor[m].svc IN
    /\ monitor[m].pc = "spawned"
    /\ monitor' = [monitor EXCEPT ![m] =
           IF services[s] # NoRecord /\ services[s].health # NoHandle
             THEN Task("loop", s, services[s].health, 0, 0)
             ELSE IdleMonitor]
    /\ UNCHANGED <<run, services, unit, tasks, restarts, commands, stop_flag,
                   gave_up, leaked, sent>>

(***************************************************************************)
(* Faulty variant: the monitor ends with the run, not with its flag.       *)
(***************************************************************************)
MonitorStopsWithRun(m) ==
    /\ monitor[m].pc = "loop" /\ stop_flag[monitor[m].handle]
    /\ run # NoRun /\ run.state = "Stopped"
    /\ monitor' = [monitor EXCEPT ![m] = IdleMonitor]
    /\ UNCHANGED <<run, services, unit, tasks, restarts, commands, stop_flag,
                   gave_up, leaked, sent>>

MonitorStops(m) ==
    /\ monitor[m].pc = "loop" /\ stop_flag[monitor[m].handle]
    /\ monitor' = [monitor EXCEPT ![m] = IdleMonitor]
    /\ UNCHANGED <<run, services, unit, tasks, restarts, commands, stop_flag,
                   gave_up, leaked, sent>>

MonitorProbes(m) ==
    /\ monitor[m].pc = "loop" /\ ~stop_flag[monitor[m].handle]
    /\ monitor' = [monitor EXCEPT ![m].pc = "probe"]
    /\ UNCHANGED <<run, services, unit, tasks, restarts, commands, stop_flag,
                   gave_up, leaked, sent>>

RecoverToReady(s) ==
    StoreAndRecompute(
        IF /\ services[s] # NoRecord
           /\ services[s].state = "Degraded" /\ services[s].last_failure = "health"
          THEN SetState(s, "Ready", "none") ELSE services)

MarkDegraded(s) ==
    StoreAndRecompute(
        IF services[s] # NoRecord /\ services[s].state = "Ready"
          THEN SetState(s, "Degraded", "health") ELSE services)

(***************************************************************************)
(* The probe's answer is applied.  A restart follows only if marking the   *)
(* service changed something, the service's or the run's state.            *)
(***************************************************************************)
ProbeSucceeded(m) ==
    /\ monitor[m].pc = "probe"
    /\ RecoverToReady(monitor[m].svc)
    /\ monitor' = [monitor EXCEPT ![m] = Task("loop", @.svc, @.handle, 0, 0)]
    /\ UNCHANGED <<unit, tasks, restarts, commands, stop_flag, gave_up, leaked, sent>>

ProbeFailed(m) ==
    LET failures == monitor[m].consecutive_failures + 1
        degrade == failures >= FailureThreshold
        should_restart == /\ degrade /\ <<run, services>>' # <<run, services>>
                          /\ monitor[m].restart_count < RestartLimit
    IN
    /\ monitor[m].pc = "probe"
    /\ IF degrade THEN MarkDegraded(monitor[m].svc) ELSE UNCHANGED <<run, services>>
    /\ monitor' = [monitor EXCEPT ![m] =
           Task(IF should_restart THEN "restart" ELSE "loop", @.svc, @.handle,
                IF should_restart THEN @.restart_count + 1 ELSE @.restart_count,
                IF degrade THEN FailureThreshold ELSE failures)]
    /\ UNCHANGED <<unit, tasks, restarts, commands, stop_flag, gave_up, leaked, sent>>

(***************************************************************************)
(* After the backoff: restart_service_no_wait, in its two steps, and after *)
(* the last attempt the service is marked Failed and the monitor ends.     *)
(***************************************************************************)
AfterRestart(m) == IF monitor[m].restart_count >= RestartLimit THEN "limit" ELSE "loop"

MonitorRestarts(m) ==
    LET s == monitor[m].svc IN
    /\ monitor[m].pc = "restart"
    /\ \/ /\ MarkRestarting(s)
          /\ monitor' = [monitor EXCEPT ![m].pc = "unit"]
       \/ /\ services[s] = NoRecord
          /\ monitor' = [monitor EXCEPT ![m].pc = AfterRestart(m)]
          /\ UNCHANGED <<run, services>>
    /\ UNCHANGED <<unit, tasks, restarts, commands, stop_flag, gave_up, leaked, sent>>

MonitorRestartsUnit(m) ==
    /\ monitor[m].pc = "unit"
    /\ restart_unit(monitor[m].svc)
    /\ monitor' = [monitor EXCEPT ![m].pc = AfterRestart(m)]
    /\ UNCHANGED <<run, services, restarts, commands, stop_flag, gave_up, leaked, sent>>

RestartLimitExceeded(m) ==
    LET s == monitor[m].svc IN
    /\ monitor[m].pc = "limit"
    /\ StoreAndRecompute(SetState(s, "Failed", "other"))
    /\ monitor' = [monitor EXCEPT ![m] = IdleMonitor]
    /\ gave_up' = gave_up \cup {monitor[m].handle}
    /\ UNCHANGED <<unit, tasks, restarts, commands, stop_flag, leaked, sent>>

Monitor(m) ==
    \/ start_health_monitor(m) \/ MonitorStops(m) \/ MonitorProbes(m)
    \/ ProbeSucceeded(m) \/ ProbeFailed(m) \/ MonitorRestarts(m)
    \/ MonitorRestartsUnit(m) \/ RestartLimitExceeded(m)

-----------------------------------------------------------------------------
(***************************************************************************)
(* GET status: build_status clones the run, asks the service manager about *)
(* each unit and derives states; reconcile_run writes them back.           *)
(***************************************************************************)
build_status ==
    /\ Send("status") /\ query.pc = "idle" /\ run # NoRun
    /\ query' = [pc |-> "probe", todo |-> Recorded(services), state |-> run.state,
                 seen |-> services]
    /\ UNCHANGED <<run, services, unit, tasks, restarts, launch, down, handles>>

\* What a clone's record becomes when the unit's state is known.
DerivedRecord(r, unit_state, run_state) ==
    IF unit_state = "failed" /\ run_state # "Stopped"
      THEN [state |-> CASE r.state = "Starting" -> "Failed"
                        [] r.state = "Ready" -> "Degraded"
                        [] OTHER -> r.state,
            last_failure |-> IF r.last_failure = "none" THEN "other" ELSE r.last_failure,
            health |-> r.health]
      ELSE r

unit_status(s) ==
    /\ query.pc = "probe" /\ s \in query.todo
    /\ LET derived == DerivedRecord(query.seen[s], unit[s], query.state) IN
       query' = [query EXCEPT !.todo = @ \ {s},
                              !.seen = [query.seen EXCEPT ![s] = derived]]
    /\ UNCHANGED <<run, services, unit, tasks, restarts, launch, down, handles, sent>>

reconcile_run ==
    /\ query.pc = "probe" /\ query.todo = {}
    /\ IF run = NoRun THEN UNCHANGED <<run, services>>
       ELSE /\ services' = [s \in Services |->
                  IF services[s] = NoRecord \/ query.seen[s] = NoRecord
                    THEN services[s]
                    ELSE [query.seen[s] EXCEPT !.health = services[s].health]]
            /\ run' = [run EXCEPT !.state =
                   IF Degraded(query.seen) THEN "Degraded"
                   ELSE IF AllReady(query.seen) THEN "Running"
                   ELSE query.state]
    /\ query' = IdleQuery
    /\ UNCHANGED <<unit, tasks, restarts, launch, down, handles, sent>>

-----------------------------------------------------------------------------

LaunchStep ==
    \/ refresh_run
    \/ \E s \in Services : RemoveMissingUnit(s)
    \/ remove_services_missing_from_stack
    \/ update_run_launch_resources
    \/ sync_unchanged_service
    \/ record_failed_init_service
    \/ \E ok \in BOOLEAN : start_prepared_service(ok)
    \/ store_service_launch_result
    \/ CaptureProxyFailed
    \/ handle_readiness
    \/ wait_for_prepared_service
    \/ finalize_run_launch
    \/ LaunchError

DownStep ==
    \/ DownList
    \/ \E s \in Services : DownStopUnit(s)
    \/ DownRefused
    \/ DownMarkStopped
    \/ DownPurge

Next ==
    \/ \E wait \in BOOLEAN : create_run_record(wait)
    \/ \E plan \in SUBSET Services \ {{}}, wait \in BOOLEAN :
         find_latest_run_for_project_stack(plan, wait)
    \/ LaunchStep
    \/ \E purge \in BOOLEAN : stop_service_handles(purge)
    \/ DownStep
    \/ run_gc
    \/ \E s \in Services : \/ RestartBegin(s) \/ RestartUnit(s)
                           \/ spawn_readiness_task(s) \/ UnitFails(s)
    \/ \E m \in Handles : Monitor(m)
    \/ build_status
    \/ \E s \in Services : unit_status(s)
    \/ reconcile_run

(***************************************************************************)
(* Fairness: the runtime schedules every spawned task, sleeps and calls of *)
(* the service manager end, and a readiness wait ends by success, failure  *)
(* or its timeout.  Clients owe nothing.                                   *)
(***************************************************************************)
Fairness ==
    /\ \A m \in Handles : WF_vars(Monitor(m))
    /\ \A s \in Services : /\ WF_vars(spawn_readiness_task(s))
                           /\ WF_vars(RestartUnit(s))
    /\ WF_vars(LaunchStep)
    /\ WF_vars(DownStep)

Spec == Init /\ [][Next]_vars
FairSpec == Spec /\ Fairness

-----------------------------------------------------------------------------

Live(m) == monitor[m].pc \notin {"none", "spawned"}

(***************************************************************************)
(* No monitor is left behind: one that has not been told to stop watches   *)
(* the service whose record holds its handle, however launches, downs and  *)
(* readiness tasks overlapped; only the removal of the whole run forgets   *)
(* a handle.                                                               *)
(***************************************************************************)
NoStrayMonitor ==
    \A m \in Handles :
      Live(m) /\ ~stop_flag[monitor[m].handle] /\ monitor[m].handle \notin leaked
        => /\ services[monitor[m].svc] # NoRecord
           /\ services[monitor[m].svc].health = monitor[m].handle

(***************************************************************************)
(* A handle in a record is watched: its flag is not set, and a monitor     *)
(* runs on it or is about to read it, until one reaches the restart limit. *)
(***************************************************************************)
RecordedHandleIsWatched ==
    \A s \in Recorded(services) :
      LET h == services[s].health IN
      h # NoHandle =>
        /\ ~stop_flag[h]
        /\ h \in gave_up \/ \E m \in Handles :
             /\ monitor[m].svc = s
             /\ \/ Live(m) /\ monitor[m].handle = h
                \/ monitor[m].pc = "spawned"

(***************************************************************************)
(* Once a launch has come to its end, the run's state says what its        *)
(* services' states say, through every later failure, recovery, restart    *)
(* and readiness result.                                                   *)
(***************************************************************************)
RunStateFollowsServices ==
    launch.pc = "idle" => run = recompute_run_state(run, services)

(***************************************************************************)
(* When clients send up and down one at a time, a run marked stopped has   *)
(* no process left, whatever restarts, monitors and readiness tasks did in *)
(* the meantime.                                                           *)
(***************************************************************************)
StoppedRunHasNoProcess ==
    run # NoRun /\ run.state = "Stopped" /\ LaunchIdle
      => \A s \in Services : unit[s] # "active"

(***************************************************************************)
(* A stopped run leaves Stopped when an up takes it on, which clears       *)
(* stopped_at, and otherwise only when a status query writes back what it  *)
(* derived from the services: no late readiness result, monitor, restart   *)
(* or failed launch revives it.                                            *)
(***************************************************************************)
RevivedOnlyByStatus ==
    [][(/\ run # NoRun /\ run.state = "Stopped"
        /\ run' # NoRun /\ run'.stopped_at /\ run'.state # "Stopped")
          => reconcile_run]_vars

(***************************************************************************)
(* A monitor told to stop ends, even from the middle of a restart.         *)
(***************************************************************************)
StoppedMonitorEnds ==
    \A m \in Handles :
      (Live(m) /\ stop_flag[monitor[m].handle]) ~> (monitor[m].pc = "none")

-----------------------------------------------------------------------------
(***************************************************************************)
(* What the documents say and the code does not keep.                      *)
(***************************************************************************)

(***************************************************************************)
(* README.md: "guaranteed cleanup ... no orphan processes", with clients   *)
(* that do not wait for each other's commands.                             *)
(***************************************************************************)
NoOrphanProcess ==
    run # NoRun /\ run.state = "Stopped" /\ LaunchIdle /\ down.pc = "idle"
      => \A s \in Services : unit[s] # "active"
=============================================================================
