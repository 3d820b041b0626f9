------------------------ MODULE RunLifecycle_proofs ------------------------
(***************************************************************************)
(* What holds of a run for every stack, every number of handles and        *)
(* commands and every limit: types, the link between health monitors and   *)
(* the records' handles (WatchInv), the run's state, and which processes   *)
(* there may be (SerialInv).                                               *)
(***************************************************************************)
EXTENDS RunLifecycle, WellFoundedInduction, TLAPS

\* launch_services always has a next service while some are left.
LEMMA CurrentIsTodo ==
    ASSUME launch.todo \subseteq Services, launch.todo # {}
    PROVE  Current \in launch.todo
<1> DEFINE R == {Rank[s] : s \in launch.todo}
<1>1. R \subseteq Nat /\ R # {}
  BY PlanAssumption
<1>2. PICK n \in R : \A k \in R : ~(<<k, n>> \in OpToRel(<, Nat))
  BY <1>1, NatLessThanWellFounded, WFMin, Zenon
<1>3. ASSUME NEW k \in R PROVE n <= k
  <2>1. k \in Nat /\ n \in Nat /\ <<k, n>> \notin {x \in Nat \X Nat : x[1] < x[2]}
    BY <1>1, <1>2 DEF OpToRel
  <2> HIDE DEF R
  <2>2. ~(k < n)
    BY <2>1
  <2> QED
    BY <2>1, <2>2
<1>4. \E s \in launch.todo : \A q \in launch.todo : Rank[s] <= Rank[q]
  BY <1>3
<1> QED
  BY <1>4 DEF Current

(***************************************************************************)
(* The state that a change of the records gives the run.                   *)
(***************************************************************************)
LEMMA RecomputeType ==
    ASSUME NEW r \in Run \cup {NoRun}, NEW svcs
    PROVE  recompute_run_state(r, svcs) \in Run \cup {NoRun}
BY DEF recompute_run_state, Run, RunLifecycleState

(***************************************************************************)
(* What the operators that change records return.                          *)
(***************************************************************************)
LEMMA StoreType ==
    ASSUME RecordsTypeOK, NEW svcs \in [Services -> ServiceRecord \cup {NoRecord}],
           StoreAndRecompute(svcs)
    PROVE  RecordsTypeOK'
BY RecomputeType DEF StoreAndRecompute, RecordsTypeOK

LEMMA SetStateType ==
    ASSUME RecordsTypeOK, NEW s \in Services, NEW st \in ServiceState, NEW f \in Failure
    PROVE  /\ SetState(s, st, f) \in [Services -> ServiceRecord \cup {NoRecord}]
           /\ \A q \in Services :
                /\ SetState(s, st, f)[q] = NoRecord <=> services[q] = NoRecord
                /\ services[q] # NoRecord => SetState(s, st, f)[q].health = services[q].health
<1> USE NoneAssumption
<1>1. CASE services[s] = NoRecord
  BY <1>1 DEF SetState, RecordsTypeOK
<1>2. CASE services[s] # NoRecord
  <2> DEFINE new == [state |-> st, last_failure |-> f, health |-> services[s].health]
  <2>1. new \in ServiceRecord /\ new # NoRecord /\ new.health = services[s].health
    BY <1>2 DEF RecordsTypeOK, ServiceRecord
  <2>2. SetState(s, st, f) = [services EXCEPT ![s] = new]
    BY <1>2 DEF SetState
  <2> HIDE DEF new
  <2> QED
    BY <1>2, <2>1, <2>2 DEF RecordsTypeOK
<1> QED
  BY <1>1, <1>2

LEMMA StateNames ==
    /\ {"Starting", "Ready", "Degraded", "Failed", "Stopped"} \subseteq ServiceState
    /\ {"none", "health", "other"} \subseteq Failure
    /\ {"Starting", "Running", "Degraded", "Stopped"} \subseteq RunLifecycleState
BY DEF ServiceState, Failure, RunLifecycleState

LEMMA CurrentIsService ==
    ASSUME CommandsTypeOK, launch.todo # {}
    PROVE  Current \in launch.todo /\ Current \in Services
BY CurrentIsTodo DEF CommandsTypeOK, Launch

LEMMA ReplaceType ==
    ASSUME RecordsTypeOK, NEW s \in Services, NEW st \in ServiceState, NEW f \in Failure,
           replace_service_record(s, st, f)
    PROVE  /\ services' \in [Services -> ServiceRecord \cup {NoRecord}]
           /\ services'[s] # NoRecord /\ services'[s].health = NoHandle
           /\ \A q \in Services \ {s} : services'[q] = services[q]
<1> DEFINE new == [state |-> st, last_failure |-> f, health |-> NoHandle]
<1>1. new \in ServiceRecord /\ new # NoRecord /\ new.health = NoHandle
  BY NoneAssumption DEF ServiceRecord
<1>2. services' = [services EXCEPT ![s] = new]
  BY DEF replace_service_record
<1> HIDE DEF new
<1> QED
  BY <1>1, <1>2 DEF RecordsTypeOK

-----------------------------------------------------------------------------
(***************************************************************************)
(* The records keep their types.                                           *)
(***************************************************************************)
LEMMA MarkRecords ==
    ASSUME RecordsTypeOK, NEW s \in Services, mark_service_ready(s) \/ mark_service_failed(s)
    PROVE  RecordsTypeOK'
<1>1. CASE mark_service_failed(s)
  BY <1>1, SetStateType, StoreType, StateNames DEF mark_service_failed
<1>2. CASE mark_service_ready(s)
  <2>1. SetState(s, "Ready", "none") \in [Services -> ServiceRecord \cup {NoRecord}]
    BY SetStateType, StateNames
  <2>2. \A h \in Handles :
          [services EXCEPT ![s] = [state |-> "Ready", last_failure |-> "none", health |-> h]]
             \in [Services -> ServiceRecord \cup {NoRecord}]
    BY StateNames DEF RecordsTypeOK, ServiceRecord
  <2>3. services \in [Services -> ServiceRecord \cup {NoRecord}]
    BY DEF RecordsTypeOK
  <2> QED
    BY <1>2, <2>1, <2>2, <2>3, StoreType DEF mark_service_ready
<1> QED
  BY <1>1, <1>2

LEMMA MonitorRecords ==
    ASSUME RecordsTypeOK, HandlesTypeOK, NEW m \in Handles, Monitor(m)
    PROVE  RecordsTypeOK'
<1> DEFINE s == monitor[m].svc
<1>1. CASE UNCHANGED <<run, services>>
  BY <1>1 DEF RecordsTypeOK
<1>2. ASSUME monitor[m].pc # "none",
             NEW svcs, StoreAndRecompute(svcs),
             \/ svcs = services
             \/ \E st \in ServiceState, f \in Failure : svcs = SetState(s, st, f)
      PROVE  RecordsTypeOK'
  <2>1. s \in Services
    BY <1>2 DEF HandlesTypeOK
  <2>2. svcs \in [Services -> ServiceRecord \cup {NoRecord}]
    BY <1>2, <2>1, SetStateType DEF RecordsTypeOK
  <2> QED
    BY <1>2, <2>2, StoreType
<1>3. CASE ProbeSucceeded(m)
  BY <1>2, <1>3, StateNames DEF ProbeSucceeded, RecoverToReady
<1>4. CASE ProbeFailed(m)
  BY <1>1, <1>2, <1>4, StateNames DEF ProbeFailed, MarkDegraded
<1>5. CASE MonitorRestarts(m)
  BY <1>1, <1>2, <1>5, StateNames DEF MonitorRestarts, MarkRestarting
<1>6. CASE RestartLimitExceeded(m)
  BY <1>2, <1>6, StateNames DEF RestartLimitExceeded
<1>7. CASE start_health_monitor(m) \/ MonitorStops(m) \/ MonitorProbes(m) \/ MonitorRestartsUnit(m)
  BY <1>1, <1>7 DEF start_health_monitor, MonitorStops, MonitorProbes, MonitorRestartsUnit
<1> QED
  BY <1>3, <1>4, <1>5, <1>6, <1>7 DEF Monitor

LEMMA LaunchRecords ==
    ASSUME RecordsTypeOK, CommandsTypeOK, LaunchStep
    PROVE  RecordsTypeOK'
<1>1. CASE UNCHANGED <<run, services>>
  BY <1>1 DEF RecordsTypeOK
<1>2. services \in [Services -> ServiceRecord \cup {NoRecord}]
  BY DEF RecordsTypeOK
<1>3. CASE remove_services_missing_from_stack
  <2> DEFINE svcs == [s \in Services |-> IF s \in Missing THEN NoRecord ELSE services[s]]
  <2>1. svcs \in [Services -> ServiceRecord \cup {NoRecord}]
    BY <1>2
  <2>2. UNCHANGED <<run, services>> \/ StoreAndRecompute(svcs)
    BY <1>3 DEF remove_services_missing_from_stack
  <2> HIDE DEF svcs
  <2> QED
    BY <1>1, <2>1, <2>2, StoreType
<1>4. CASE update_run_launch_resources
  BY <1>4, StateNames DEF update_run_launch_resources, RecordsTypeOK, Run
<1>5. CASE record_failed_init_service
  BY <1>5, CurrentIsService, ReplaceType, StateNames DEF record_failed_init_service, RecordsTypeOK
<1>6. CASE store_service_launch_result
  BY <1>6, CurrentIsService, ReplaceType, StateNames
     DEF store_service_launch_result, RecordsTypeOK, CommandsTypeOK
<1>7. CASE CaptureProxyFailed \/ wait_for_prepared_service
  BY <1>7, CurrentIsService, MarkRecords
     DEF CaptureProxyFailed, wait_for_prepared_service, CommandsTypeOK
<1>8. CASE finalize_run_launch
  BY <1>2, <1>8, StoreType DEF finalize_run_launch
<1>9. CASE \/ refresh_run \/ \E s \in Services : RemoveMissingUnit(s)
           \/ sync_unchanged_service \/ \E ok \in BOOLEAN : start_prepared_service(ok)
           \/ handle_readiness \/ LaunchError
  BY <1>1, <1>9 DEF refresh_run, RemoveMissingUnit, sync_unchanged_service,
     start_prepared_service, handle_readiness, LaunchError
<1> QED
  BY <1>3, <1>4, <1>5, <1>6, <1>7, <1>8, <1>9 DEF LaunchStep

LEMMA DownRecords ==
    ASSUME RecordsTypeOK, CommandsTypeOK,
           DownStep \/ run_gc \/ \E purge \in BOOLEAN : stop_service_handles(purge)
    PROVE  RecordsTypeOK'
<1> USE StateNames
<1>1. CASE UNCHANGED <<run, services>>
  BY <1>1 DEF RecordsTypeOK
<1>2. CASE remove_run
  BY <1>2 DEF remove_run, RecordsTypeOK
<1>3. CASE \E purge \in BOOLEAN : stop_service_handles(purge)
  BY <1>3 DEF stop_service_handles, RecordsTypeOK, ServiceRecord
<1>4. CASE DownMarkStopped
  BY <1>4 DEF DownMarkStopped, RecordsTypeOK, Run, ServiceRecord
<1> QED
  BY <1>1, <1>2, <1>3, <1>4
     DEF DownStep, DownList, DownStopUnit, DownRefused, DownPurge, run_gc

LEMMA ReconcileRecords ==
    ASSUME RecordsTypeOK, CommandsTypeOK, reconcile_run
    PROVE  RecordsTypeOK'
<1>1. CASE run = NoRun
  BY <1>1 DEF reconcile_run, RecordsTypeOK
<1>2. CASE run # NoRun
  <2>1. run' \in Run
    BY <1>2, StateNames DEF reconcile_run, RecordsTypeOK, Run, CommandsTypeOK, Query
  <2>2. \A s \in Services : query.seen[s] \in ServiceRecord \cup {NoRecord}
    BY DEF CommandsTypeOK, Query
  <2>3. \A s \in Services : services[s] # NoRecord /\ query.seen[s] # NoRecord =>
          [query.seen[s] EXCEPT !.health = services[s].health] \in ServiceRecord
    BY <2>2 DEF RecordsTypeOK, ServiceRecord
  <2> QED
    BY <1>2, <2>1, <2>3 DEF reconcile_run, RecordsTypeOK
<1> QED
  BY <1>1, <1>2

LEMMA RecordsStep ==
    ASSUME TypeOK, [Next]_vars
    PROVE  RecordsTypeOK'
<1> USE DEF TypeOK
<1>1. CASE UNCHANGED <<run, services>>
  BY <1>1 DEF RecordsTypeOK
<1>2. CASE \E wait \in BOOLEAN : create_run_record(wait)
  BY <1>2, StateNames DEF create_run_record, RecordsTypeOK, Run
<1>3. CASE \E s \in Services : RestartBegin(s)
  BY <1>3, SetStateType, StoreType, StateNames DEF RestartBegin, MarkRestarting
<1>4. CASE \E s \in Services : spawn_readiness_task(s)
  BY <1>4, MarkRecords DEF spawn_readiness_task
<1>5. CASE \/ UNCHANGED vars \/ build_status
           \/ \E plan \in SUBSET Services \ {{}}, wait \in BOOLEAN :
                find_latest_run_for_project_stack(plan, wait)
           \/ \E s \in Services : RestartUnit(s) \/ UnitFails(s) \/ unit_status(s)
  BY <1>1, <1>5 DEF vars, build_status, find_latest_run_for_project_stack, RestartUnit,
     UnitFails, unit_status
<1> QED
  BY <1>2, <1>3, <1>4, <1>5, LaunchRecords, DownRecords, MonitorRecords, ReconcileRecords DEF Next

-----------------------------------------------------------------------------
(***************************************************************************)
(* Handles and monitors keep their types.                                  *)
(***************************************************************************)
MonitorPc == {"none", "spawned", "loop", "probe", "restart", "unit", "limit"}

LEMMA MonitorMoves ==
    ASSUME NEW t \in MonitorTask, NEW pc \in MonitorPc
    PROVE  /\ [t EXCEPT !.pc = pc] \in MonitorTask
           /\ [t EXCEPT !.pc = pc].pc = pc
           /\ [t EXCEPT !.pc = pc].svc = t.svc
           /\ [t EXCEPT !.pc = pc].handle = t.handle
BY DEF MonitorTask, MonitorPc

LEMMA TaskType ==
    ASSUME NEW pc \in MonitorPc, NEW s \in Services \cup {NoRecord},
           NEW h \in Handles \cup {NoHandle},
           NEW n \in 0..RestartLimit, NEW k \in 0..FailureThreshold
    PROVE  /\ Task(pc, s, h, n, k) \in MonitorTask
           /\ Task(pc, s, h, n, k).pc = pc
           /\ Task(pc, s, h, n, k).svc = s
           /\ Task(pc, s, h, n, k).handle = h
BY DEF MonitorTask, MonitorPc, Task

LEMMA NewTask ==
    ASSUME NEW pc \in MonitorPc, NEW s \in Services \cup {NoRecord},
           NEW h \in Handles \cup {NoHandle}
    PROVE  /\ Task(pc, s, h, 0, 0) \in MonitorTask
           /\ Task(pc, s, h, 0, 0).pc = pc
           /\ Task(pc, s, h, 0, 0).svc = s
           /\ Task(pc, s, h, 0, 0).handle = h
<1>1. 0 \in 0..RestartLimit /\ 0 \in 0..FailureThreshold
  BY LimitAssumption
<1> QED
  BY <1>1, TaskType

LEMMA IdleMonitorType ==
    IdleMonitor \in MonitorTask /\ IdleMonitor.pc = "none" /\ IdleMonitor.handle = NoHandle
BY NewTask DEF IdleMonitor, MonitorPc

\* A step of one monitor, from and to typed tasks.
LEMMA MonitorType ==
    ASSUME HandlesTypeOK, NEW m \in Handles, NEW t \in MonitorTask,
           monitor' = [monitor EXCEPT ![m] = t],
           t.pc # "none" => t.svc \in Services,
           t.pc \notin {"none", "spawned"} => t.handle # NoHandle,
           stop_flag' \in [Handles -> BOOLEAN],
           gave_up' \subseteq Handles, leaked' \subseteq Handles
    PROVE  HandlesTypeOK'
BY DEF HandlesTypeOK

LEMMA MarkHandles ==
    ASSUME HandlesTypeOK, NEW s \in Services, mark_service_ready(s) \/ mark_service_failed(s)
    PROVE  HandlesTypeOK'
<1>1. CASE UNCHANGED <<stop_flag, monitor, gave_up, leaked>>
  BY <1>1 DEF HandlesTypeOK
<1>2. ASSUME NEW h \in Handles,
             stop_flag' = [stop_flag EXCEPT ![h] = FALSE],
             monitor' = [monitor EXCEPT ![h] = Task("spawned", s, NoHandle, 0, 0)],
             gave_up' = gave_up \ {h}, leaked' = leaked \ {h}
      PROVE  HandlesTypeOK'
  <2> DEFINE new == Task("spawned", s, NoHandle, 0, 0)
  <2>1. new \in MonitorTask /\ new.pc = "spawned" /\ new.svc = s
    BY NewTask DEF MonitorPc
  <2>2. monitor' = [monitor EXCEPT ![h] = new]
    BY <1>2
  <2> HIDE DEF new
  <2>3. stop_flag' \in [Handles -> BOOLEAN] /\ gave_up' \subseteq Handles /\ leaked' \subseteq Handles
    BY <1>2 DEF HandlesTypeOK
  <2> QED
    BY <2>1, <2>2, <2>3, MonitorType
<1> QED
  BY <1>1, <1>2 DEF mark_service_ready, mark_service_failed

LEMMA MonitorHandles ==
    ASSUME RecordsTypeOK, HandlesTypeOK, NEW m \in Handles, Monitor(m)
    PROVE  HandlesTypeOK'
<1> USE LimitAssumption
<1>1. monitor[m] \in MonitorTask
  BY DEF HandlesTypeOK
<1>2. stop_flag' \in [Handles -> BOOLEAN] /\ gave_up' \subseteq Handles /\ leaked' \subseteq Handles
  <2>1. monitor[m].pc = "limit" => monitor[m].handle \in Handles
    BY <1>1 DEF HandlesTypeOK, MonitorTask
  <2> QED
    BY <2>1 DEF Monitor, start_health_monitor, MonitorStops, MonitorProbes, ProbeSucceeded,
       ProbeFailed, MonitorRestarts, MonitorRestartsUnit, RestartLimitExceeded, HandlesTypeOK
<1>3. CASE monitor' = [monitor EXCEPT ![m] = IdleMonitor]
  BY <1>2, <1>3, IdleMonitorType, MonitorType
<1>4. ASSUME NEW t \in MonitorTask, monitor' = [monitor EXCEPT ![m] = t],
             monitor[m].pc # "none", t.svc = monitor[m].svc, t.handle # NoHandle
      PROVE  HandlesTypeOK'
  <2>1. t.svc \in Services
    BY <1>4 DEF HandlesTypeOK
  <2> QED
    BY <1>2, <1>4, <2>1, MonitorType
<1>5. ASSUME NEW pc \in MonitorPc, monitor[m].pc \notin {"none", "spawned"},
             monitor' = [monitor EXCEPT ![m] = [monitor[m] EXCEPT !.pc = pc]]
      PROVE  HandlesTypeOK'
  <2>1. monitor[m].handle # NoHandle
    BY <1>5 DEF HandlesTypeOK
  <2> DEFINE t == [monitor[m] EXCEPT !.pc = pc]
  <2>2. /\ t \in MonitorTask /\ t.svc = monitor[m].svc /\ t.handle = monitor[m].handle
        /\ monitor' = [monitor EXCEPT ![m] = t]
    BY <1>1, <1>5, MonitorMoves
  <2> HIDE DEF t
  <2> QED
    BY <1>4, <1>5, <2>1, <2>2
<1>6. CASE start_health_monitor(m)
  <2> DEFINE s == monitor[m].svc
             h == services[s].health
  <2>1. CASE services[s] # NoRecord /\ h # NoHandle
    <3>1. monitor' = [monitor EXCEPT ![m] = Task("loop", s, h, 0, 0)]
      BY <1>6, <2>1 DEF start_health_monitor
    <3>2. monitor[m].pc = "spawned" /\ s \in Services
      BY <1>6 DEF start_health_monitor, HandlesTypeOK
    <3>3. h \in Handles
      BY <2>1, <3>2 DEF RecordsTypeOK, ServiceRecord
    <3> DEFINE t == Task("loop", s, h, 0, 0)
    <3>4. /\ t \in MonitorTask /\ t.svc = monitor[m].svc /\ t.handle = h
          /\ monitor' = [monitor EXCEPT ![m] = t]
      BY <3>1, <3>2, <3>3, NewTask DEF MonitorPc
    <3> HIDE DEF t
    <3> QED
      BY <1>4, <2>1, <3>2, <3>4
  <2>2. CASE ~(services[s] # NoRecord /\ h # NoHandle)
    BY <1>3, <1>6, <2>2 DEF start_health_monitor
  <2> QED
    BY <2>1, <2>2
<1>7. CASE MonitorStops(m) \/ RestartLimitExceeded(m)
  BY <1>3, <1>7 DEF MonitorStops, RestartLimitExceeded
<1>8. CASE MonitorProbes(m) \/ MonitorRestarts(m) \/ MonitorRestartsUnit(m)
  BY <1>5, <1>8 DEF MonitorProbes, MonitorRestarts, MonitorRestartsUnit, AfterRestart, MonitorPc
<1>9. CASE ProbeSucceeded(m)
  <2>1. /\ monitor[m].handle \in Handles /\ monitor[m].handle # NoHandle
        /\ monitor[m].pc = "probe" /\ monitor[m].svc \in Services
    BY <1>1, <1>9 DEF ProbeSucceeded, HandlesTypeOK, MonitorTask
  <2>2. monitor' = [monitor EXCEPT ![m] =
                       Task("loop", monitor[m].svc, monitor[m].handle, 0, 0)]
    BY <1>9 DEF ProbeSucceeded
  <2> DEFINE t == Task("loop", monitor[m].svc, monitor[m].handle, 0, 0)
  <2>3. /\ t \in MonitorTask /\ t.svc = monitor[m].svc /\ t.handle = monitor[m].handle
        /\ monitor' = [monitor EXCEPT ![m] = t]
    BY <2>1, <2>2, NewTask DEF MonitorPc
  <2> HIDE DEF t
  <2> QED
    BY <1>4, <2>1, <2>3
<1>10. CASE ProbeFailed(m)
  <2> DEFINE failures == monitor[m].consecutive_failures + 1
             degrade == failures >= FailureThreshold
             should_restart == /\ degrade /\ <<run, services>>' # <<run, services>>
                               /\ monitor[m].restart_count < RestartLimit
             pc == IF should_restart THEN "restart" ELSE "loop"
             n == IF should_restart THEN monitor[m].restart_count + 1
                                    ELSE monitor[m].restart_count
             k == IF degrade THEN FailureThreshold ELSE failures
  <2>1. /\ monitor[m].handle \in Handles /\ monitor[m].handle # NoHandle
        /\ monitor[m].pc = "probe" /\ monitor[m].svc \in Services
    BY <1>1, <1>10 DEF ProbeFailed, HandlesTypeOK, MonitorTask
  <2>2. n \in 0..RestartLimit /\ k \in 0..FailureThreshold
    BY <1>1 DEF MonitorTask
  <2>3. monitor' = [monitor EXCEPT ![m] = Task(pc, monitor[m].svc, monitor[m].handle, n, k)]
    BY <1>10 DEF ProbeFailed
  <2>4. pc \in MonitorPc
    BY DEF MonitorPc
  <2> HIDE DEF pc, n, k
  <2> DEFINE t == Task(pc, monitor[m].svc, monitor[m].handle, n, k)
  <2>5. /\ t \in MonitorTask /\ t.svc = monitor[m].svc /\ t.handle = monitor[m].handle
        /\ monitor' = [monitor EXCEPT ![m] = t]
    BY <2>1, <2>2, <2>3, <2>4, TaskType DEF MonitorPc
  <2> HIDE DEF t
  <2> QED
    BY <1>4, <2>1, <2>5
<1> QED
  BY <1>6, <1>7, <1>8, <1>9, <1>10 DEF Monitor

LEMMA HandlesStep ==
    ASSUME TypeOK, [Next]_vars
    PROVE  HandlesTypeOK'
<1> USE DEF TypeOK
<1>1. CASE UNCHANGED handles
  BY <1>1 DEF handles, HandlesTypeOK
<1>2. ASSUME NEW ss, stop_health_monitor(ss), UNCHANGED <<monitor, gave_up, leaked>>
      PROVE  HandlesTypeOK'
  BY <1>2 DEF stop_health_monitor, HandlesTypeOK
<1>3. CASE remove_run
  BY <1>3 DEF remove_run, HandlesTypeOK, Health, Recorded, RecordsTypeOK, ServiceRecord
<1>4. CASE LaunchStep
  <2>1. CASE remove_services_missing_from_stack
    BY <1>1, <1>2, <2>1 DEF remove_services_missing_from_stack, handles
  <2>2. CASE record_failed_init_service \/ store_service_launch_result
    BY <1>2, <2>2 DEF record_failed_init_service, store_service_launch_result,
       replace_service_record
  <2>3. CASE CaptureProxyFailed \/ wait_for_prepared_service
    BY <2>3, MarkHandles, CurrentIsService
       DEF CaptureProxyFailed, wait_for_prepared_service, CommandsTypeOK
  <2> QED
    BY <1>1, <1>4, <2>1, <2>2, <2>3 DEF LaunchStep, refresh_run, RemoveMissingUnit,
       update_run_launch_resources, sync_unchanged_service, start_prepared_service,
       handle_readiness, finalize_run_launch, LaunchError
<1>5. CASE DownStep \/ run_gc \/ \E purge \in BOOLEAN : stop_service_handles(purge)
  BY <1>1, <1>2, <1>3, <1>5 DEF DownStep, DownList, DownStopUnit, DownRefused,
     DownMarkStopped, DownPurge, run_gc, stop_service_handles
<1>6. CASE \E s \in Services : spawn_readiness_task(s)
  BY <1>6, MarkHandles DEF spawn_readiness_task
<1>7. CASE \/ UNCHANGED vars \/ build_status \/ reconcile_run
           \/ \E wait \in BOOLEAN : create_run_record(wait)
           \/ \E plan \in SUBSET Services \ {{}}, wait \in BOOLEAN :
                find_latest_run_for_project_stack(plan, wait)
           \/ \E s \in Services : RestartBegin(s) \/ RestartUnit(s) \/ UnitFails(s) \/ unit_status(s)
  BY <1>1, <1>7 DEF vars, handles, build_status, reconcile_run, create_run_record,
     find_latest_run_for_project_stack, RestartBegin, RestartUnit, UnitFails, unit_status
<1> QED
  BY <1>4, <1>5, <1>6, <1>7, MonitorHandles DEF Next

-----------------------------------------------------------------------------
(***************************************************************************)
(* The commands in progress keep their types.                              *)
(***************************************************************************)
LEMMA LaunchMoves ==
    ASSUME launch \in Launch
    PROVE  /\ \A s : Advance(s) \in Launch /\ Advance(s).pc = "next"
           /\ \A pc \in {"next", "update", "store", "proxy", "await"}, ok \in BOOLEAN :
                /\ [launch EXCEPT !.pc = pc] \in Launch
                /\ [launch EXCEPT !.pc = pc].pc = pc
                /\ [launch EXCEPT !.pc = pc].todo = launch.todo
                /\ [launch EXCEPT !.pc = pc, !.start_ok = ok] \in Launch
                /\ [launch EXCEPT !.pc = pc, !.start_ok = ok].todo = launch.todo
BY DEF Launch, Advance

LEMMA IdleLaunchType ==
    /\ IdleLaunch \in Launch /\ IdleLaunch.pc = "idle"
    /\ [IdleLaunch EXCEPT !.pc = "failed"] \in Launch
    /\ [IdleLaunch EXCEPT !.pc = "failed"].pc = "failed"
BY DEF IdleLaunch, Launch

LEMMA LaunchCommands ==
    ASSUME CommandsTypeOK, LaunchStep
    PROVE  CommandsTypeOK'
<1>1. launch \in Launch
  BY DEF CommandsTypeOK
<1>2. UNCHANGED <<down, query>>
  BY DEF LaunchStep, refresh_run, RemoveMissingUnit, remove_services_missing_from_stack,
     update_run_launch_resources, sync_unchanged_service, record_failed_init_service,
     start_prepared_service, store_service_launch_result, CaptureProxyFailed, handle_readiness,
     wait_for_prepared_service, finalize_run_launch, LaunchError
<1>3. ASSUME launch' \in Launch, launch'.pc \in {"store", "proxy", "await"} => launch'.todo # {}
      PROVE  CommandsTypeOK'
  BY <1>2, <1>3 DEF CommandsTypeOK
<1>4. CASE \E s : launch' = Advance(s)
  <2>1. PICK s : launch' = Advance(s)
    BY <1>4
  <2> QED
    BY <1>1, <1>3, <2>1, LaunchMoves
<1>5. CASE launch' = IdleLaunch \/ launch' = [IdleLaunch EXCEPT !.pc = "failed"]
  BY <1>3, <1>5, IdleLaunchType
<1>6. ASSUME NEW pc \in {"next", "update", "store", "proxy", "await"},
             launch' = [launch EXCEPT !.pc = pc], launch.todo # {} \/ pc = "next"
      PROVE  CommandsTypeOK'
  BY <1>1, <1>3, <1>6, LaunchMoves
<1>7. CASE refresh_run
  <2>1. launch' \in Launch /\ launch'.pc = "unlink"
    BY <1>1, <1>7 DEF refresh_run, Launch, Recorded
  <2> QED
    BY <1>3, <2>1
<1>8. CASE \E s \in Services : RemoveMissingUnit(s)
  <2>1. launch' \in Launch /\ launch'.pc = "unlink"
    BY <1>1, <1>8 DEF RemoveMissingUnit, Launch
  <2> QED
    BY <1>3, <2>1
<1>9. CASE remove_services_missing_from_stack
  <2>1. launch' \in Launch /\ launch'.pc = "update"
    BY <1>1, <1>9 DEF remove_services_missing_from_stack, Launch
  <2> QED
    BY <1>3, <2>1
<1>10. CASE update_run_launch_resources
  BY <1>6, <1>10 DEF update_run_launch_resources
<1>11. CASE \E ok \in BOOLEAN : start_prepared_service(ok)
  <2>1. PICK ok \in BOOLEAN : start_prepared_service(ok)
    BY <1>11
  <2>2. launch.todo # {} /\ launch' = [launch EXCEPT !.pc = "store", !.start_ok = ok]
    BY <2>1 DEF start_prepared_service
  <2>3. launch' \in Launch /\ launch'.todo = launch.todo
    BY <1>1, <2>2, LaunchMoves
  <2> QED
    BY <1>3, <2>2, <2>3
<1>12. CASE store_service_launch_result \/ handle_readiness
  BY <1>4, <1>6, <1>12 DEF store_service_launch_result, handle_readiness, CommandsTypeOK
<1>13. CASE \/ sync_unchanged_service \/ record_failed_init_service \/ CaptureProxyFailed
            \/ wait_for_prepared_service \/ finalize_run_launch \/ LaunchError
  BY <1>4, <1>5, <1>13 DEF sync_unchanged_service, record_failed_init_service,
     CaptureProxyFailed, wait_for_prepared_service, finalize_run_launch, LaunchError
<1> QED
  BY <1>7, <1>8, <1>9, <1>10, <1>11, <1>12, <1>13 DEF LaunchStep

LEMMA DownCommands ==
    ASSUME CommandsTypeOK, DownStep \/ \E purge \in BOOLEAN : stop_service_handles(purge)
    PROVE  CommandsTypeOK'
<1>1. UNCHANGED <<launch, query>>
  BY DEF DownStep, stop_service_handles, DownList, DownStopUnit, DownRefused, DownMarkStopped,
     DownPurge
<1>2. down' \in Down
  <2>1. down \in Down /\ IdleDown \in Down
    BY DEF CommandsTypeOK, Down, IdleDown
  <2>2. ASSUME NEW S \in SUBSET Services
        PROVE  /\ [down EXCEPT !.pc = "stop", !.todo = S] \in Down
               /\ [down EXCEPT !.todo = down.todo \ S] \in Down
               /\ [down EXCEPT !.pc = "purge"] \in Down
    BY <2>1 DEF Down
  <2>3. CASE DownList
    BY <2>1, <2>2, <2>3 DEF DownList, Recorded
  <2>4. CASE \E s \in Services : DownStopUnit(s)
    BY <2>2, <2>4 DEF DownStopUnit
  <2>5. CASE \E purge \in BOOLEAN : stop_service_handles(purge)
    BY <2>5 DEF stop_service_handles, Down
  <2>6. CASE DownRefused \/ DownMarkStopped \/ DownPurge
    BY <2>1, <2>2, <2>6 DEF DownRefused, DownMarkStopped, DownPurge
  <2> QED
    BY <2>3, <2>4, <2>5, <2>6 DEF DownStep
<1> QED
  BY <1>1, <1>2 DEF CommandsTypeOK

LEMMA DerivedType ==
    ASSUME NEW r \in ServiceRecord, NEW u, NEW state
    PROVE  DerivedRecord(r, u, state) \in ServiceRecord
BY DEF DerivedRecord, ServiceRecord, ServiceState, Failure

LEMMA QueryCommands ==
    ASSUME RecordsTypeOK, CommandsTypeOK,
           build_status \/ reconcile_run \/ \E s \in Services : unit_status(s)
    PROVE  CommandsTypeOK'
<1> USE StateNames
<1>1. UNCHANGED <<launch, down>>
  BY DEF build_status, reconcile_run, unit_status
<1>2. ASSUME query' \in Query, \A s \in query'.todo : query'.seen[s] # NoRecord
      PROVE  CommandsTypeOK'
  BY <1>1, <1>2 DEF CommandsTypeOK
<1>3. CASE build_status
  <2>1. query' = [pc |-> "probe", todo |-> Recorded(services), state |-> run.state,
                  seen |-> services]
    BY <1>3 DEF build_status
  <2>2. run.state \in RunLifecycleState
    BY <1>3 DEF build_status, RecordsTypeOK, Run
  <2>3. query' \in Query
    BY <2>1, <2>2 DEF Query, Recorded, RecordsTypeOK
  <2> QED
    BY <1>2, <2>1, <2>3 DEF Recorded
<1>4. CASE reconcile_run
  <2>1. query' = IdleQuery /\ IdleQuery \in Query /\ IdleQuery.todo = {}
    BY <1>4 DEF reconcile_run, IdleQuery, Query
  <2> QED
    BY <1>2, <2>1
<1>5. CASE \E s \in Services : unit_status(s)
  <2>1. PICK s \in Services : unit_status(s)
    BY <1>5
  <2> DEFINE new == DerivedRecord(query.seen[s], unit[s], query.state)
  <2>2. s \in query.todo /\ query.seen[s] \in ServiceRecord /\ query \in Query
    BY <2>1 DEF unit_status, CommandsTypeOK, Query
  <2>3. new \in ServiceRecord /\ new # NoRecord
    BY <2>2, DerivedType, NoneAssumption
  <2>4. query' = [query EXCEPT !.todo = query.todo \ {s},
                               !.seen = [query.seen EXCEPT ![s] = new]]
    BY <2>1 DEF unit_status
  <2> HIDE DEF new
  <2>6. [query.seen EXCEPT ![s] = new] \in [Services -> ServiceRecord \cup {NoRecord}]
    BY <2>2, <2>3 DEF Query
  <2>7. query' \in Query /\ query'.todo = query.todo \ {s}
        /\ query'.seen = [query.seen EXCEPT ![s] = new]
    BY <2>2, <2>4, <2>6 DEF Query
  <2> QED
    BY <1>2, <2>2, <2>3, <2>7 DEF CommandsTypeOK, Query
<1> QED
  BY <1>3, <1>4, <1>5

LEMMA CommandsStep ==
    ASSUME TypeOK, [Next]_vars
    PROVE  CommandsTypeOK'
<1> USE DEF TypeOK
<1>1. CASE UNCHANGED commands
  BY <1>1 DEF commands, CommandsTypeOK
<1>2. CASE \E wait \in BOOLEAN : create_run_record(wait)
  <2>1. launch' \in Launch /\ launch'.pc = "next" /\ UNCHANGED <<down, query>>
    BY <1>2 DEF create_run_record, IdleLaunch, Launch
  <2> QED
    BY <2>1 DEF CommandsTypeOK
<1>3. CASE \E plan \in SUBSET Services \ {{}}, wait \in BOOLEAN :
             find_latest_run_for_project_stack(plan, wait)
  <2>1. launch' \in Launch /\ launch'.pc = "found" /\ UNCHANGED <<down, query>>
    BY <1>3 DEF find_latest_run_for_project_stack, IdleLaunch, Launch
  <2> QED
    BY <2>1 DEF CommandsTypeOK
<1>4. CASE UNCHANGED vars \/ run_gc \/ \E m \in Handles : Monitor(m)
  BY <1>1, <1>4 DEF vars, commands, run_gc, Monitor, start_health_monitor, MonitorStops,
     MonitorProbes, ProbeSucceeded, ProbeFailed, MonitorRestarts, MonitorRestartsUnit,
     RestartLimitExceeded
<1>5. CASE \E s \in Services : \/ RestartBegin(s) \/ RestartUnit(s)
                               \/ spawn_readiness_task(s) \/ UnitFails(s)
  BY <1>1, <1>5 DEF commands, RestartBegin, RestartUnit, spawn_readiness_task, UnitFails
<1> QED
  BY <1>2, <1>3, <1>4, <1>5, LaunchCommands, DownCommands, QueryCommands DEF Next

-----------------------------------------------------------------------------
(***************************************************************************)
(* Units, tasks and counters keep their types.                             *)
(***************************************************************************)
LEMMA RestartUnitType ==
    ASSUME UnitsTypeOK, NEW s \in Services, restart_unit(s)
    PROVE  /\ unit' \in [Services -> {"absent", "active", "failed"}]
           /\ tasks' \in [Services -> 0..MaxTasks]
           /\ \A q \in Services : unit[q] = "absent" => unit'[q] = "absent"
BY LimitAssumption DEF restart_unit, RestartedUnit, UnitsTypeOK

LEMMA UnitsStep ==
    ASSUME TypeOK, [Next]_vars
    PROVE  UnitsTypeOK'
<1> USE LimitAssumption DEF TypeOK
<1>1. CASE UNCHANGED <<unit, tasks, restarts, sent>>
  BY <1>1 DEF UnitsTypeOK
<1>2. ASSUME NEW c, Send(c), UNCHANGED <<unit, tasks, restarts>>
      PROVE  UnitsTypeOK'
  BY <1>2 DEF Send, UnitsTypeOK
<1>3. ASSUME unit' \in [Services -> {"absent", "active", "failed"}],
             UNCHANGED <<tasks, restarts, sent>>
      PROVE  UnitsTypeOK'
  BY <1>3 DEF UnitsTypeOK
<1>4. CASE LaunchStep
  <2>1. CASE \/ \E s \in Services : RemoveMissingUnit(s)
             \/ \E ok \in BOOLEAN : start_prepared_service(ok)
    BY <1>3, <2>1 DEF RemoveMissingUnit, start_prepared_service, UnitsTypeOK
  <2>2. CASE handle_readiness
    BY <2>2 DEF handle_readiness, UnitsTypeOK
  <2> QED
    BY <1>1, <1>4, <2>1, <2>2 DEF LaunchStep, refresh_run, remove_services_missing_from_stack,
       update_run_launch_resources, sync_unchanged_service, record_failed_init_service,
       store_service_launch_result, CaptureProxyFailed, wait_for_prepared_service,
       finalize_run_launch, LaunchError
<1>5. CASE DownStep
  <2>1. CASE \E s \in Services : DownStopUnit(s)
    BY <1>3, <2>1 DEF DownStopUnit, UnitsTypeOK
  <2> QED
    BY <1>1, <1>5, <2>1 DEF DownStep, DownList, DownRefused, DownMarkStopped, DownPurge
<1>6. CASE \E s \in Services : RestartBegin(s)
  BY <1>6 DEF RestartBegin, Send, UnitsTypeOK
<1>7. CASE \E s \in Services : RestartUnit(s)
  <2>1. PICK s \in Services : RestartUnit(s)
    BY <1>7
  <2>2. restarts' \in [Services -> 0..MaxRestarts] /\ sent' = sent /\ restart_unit(s)
    BY <2>1 DEF RestartUnit, UnitsTypeOK
  <2> QED
    BY <2>2, RestartUnitType DEF UnitsTypeOK
<1>8. CASE \E s \in Services : spawn_readiness_task(s)
  BY <1>8 DEF spawn_readiness_task, UnitsTypeOK
<1>9. CASE \E s \in Services : UnitFails(s)
  BY <1>3, <1>9 DEF UnitFails, UnitsTypeOK
<1>10. CASE \E m \in Handles : Monitor(m)
  <2>1. PICK m \in Handles : Monitor(m)
    BY <1>10
  <2>2. CASE MonitorRestartsUnit(m)
    <3>1. restart_unit(monitor[m].svc) /\ UNCHANGED <<restarts, sent>> /\ monitor[m].svc \in Services
      BY <2>2 DEF MonitorRestartsUnit, HandlesTypeOK
    <3> QED
      BY <3>1, RestartUnitType DEF UnitsTypeOK
  <2> QED
    BY <1>1, <2>1, <2>2 DEF Monitor, start_health_monitor, MonitorStops, MonitorProbes,
       ProbeSucceeded, ProbeFailed, MonitorRestarts, RestartLimitExceeded
<1>11. CASE \/ \E wait \in BOOLEAN : create_run_record(wait)
            \/ \E plan \in SUBSET Services \ {{}}, wait \in BOOLEAN :
                 find_latest_run_for_project_stack(plan, wait)
            \/ \E purge \in BOOLEAN : stop_service_handles(purge)
            \/ run_gc \/ build_status
  BY <1>2, <1>11 DEF create_run_record, find_latest_run_for_project_stack,
     stop_service_handles, run_gc, build_status
<1>12. CASE UNCHANGED vars \/ reconcile_run \/ \E s \in Services : unit_status(s)
  BY <1>1, <1>12 DEF vars, reconcile_run, unit_status
<1> QED
  BY <1>4, <1>5, <1>6, <1>7, <1>8, <1>9, <1>10, <1>11, <1>12 DEF Next

(***************************************************************************)
(* Every reachable state is well typed.                                    *)
(***************************************************************************)
THEOREM TypeCorrect == Spec => []TypeOK
<1>1. Init => TypeOK
  <2> SUFFICES ASSUME Init PROVE TypeOK
    OBVIOUS
  <2>1. RecordsTypeOK
    BY DEF Init, RecordsTypeOK
  <2>2. HandlesTypeOK
    BY IdleMonitorType DEF Init, HandlesTypeOK
  <2>3. CommandsTypeOK
    BY StateNames DEF Init, CommandsTypeOK, IdleLaunch, Launch, IdleDown, Down, IdleQuery, Query
  <2>4. UnitsTypeOK
    BY LimitAssumption DEF Init, UnitsTypeOK
  <2> QED
    BY <2>1, <2>2, <2>3, <2>4 DEF TypeOK
<1>2. TypeOK /\ [Next]_vars => TypeOK'
  BY RecordsStep, HandlesStep, CommandsStep, UnitsStep DEF TypeOK
<1> QED
  BY <1>1, <1>2, PTL DEF Spec

-----------------------------------------------------------------------------
(***************************************************************************)
(* Monitors and handles.  HealthOf(s) is the handle a service's record     *)
(* holds; WatchInv says of it what NoStrayMonitor and                      *)
(* RecordedHandleIsWatched say of the records, and that no two records     *)
(* hold the same handle, without which stopping the monitor of one         *)
(* service could set the flag another one's monitor listens to.            *)
(***************************************************************************)
HealthOf(s) == IF services[s] = NoRecord THEN NoHandle ELSE services[s].health

OneRecordPerHandle ==
    \A s, q \in Services : HealthOf(s) = HealthOf(q) /\ HealthOf(s) # NoHandle => s = q

Watched(s) ==
    /\ ~stop_flag[HealthOf(s)]
    /\ HealthOf(s) \in gave_up \/ \E m \in Handles :
         /\ monitor[m].svc = s
         /\ \/ Live(m) /\ monitor[m].handle = HealthOf(s)
            \/ monitor[m].pc = "spawned"

NoStray(m) ==
    Live(m) /\ ~stop_flag[monitor[m].handle] /\ monitor[m].handle \notin leaked
      => HealthOf(monitor[m].svc) = monitor[m].handle

WatchInv ==
    /\ OneRecordPerHandle
    /\ \A m \in Handles : NoStray(m)
    /\ \A s \in Services : HealthOf(s) # NoHandle => Watched(s)

LEMMA HealthOfType ==
    ASSUME RecordsTypeOK
    PROVE  /\ \A s \in Services : HealthOf(s) \in Handles \cup {NoHandle}
           /\ \A ss : Health(ss) = {HealthOf(s) : s \in ss \cap Services} \ {NoHandle}
<1>1. \A s \in Services : HealthOf(s) \in Handles \cup {NoHandle}
  BY DEF HealthOf, RecordsTypeOK, ServiceRecord
<1>2. ASSUME NEW ss PROVE Health(ss) = {HealthOf(s) : s \in ss \cap Services} \ {NoHandle}
  BY DEF HealthOf, Health, Recorded
<1> QED
  BY <1>1, <1>2

\* Live, as a fact about the task alone.
LEMMA LiveTasks ==
    ASSUME HandlesTypeOK, NEW m \in Handles, Live(m)
    PROVE  /\ monitor[m].svc \in Services /\ monitor[m].handle \in Handles
           /\ monitor[m].handle # NoHandle
BY DEF Live, HandlesTypeOK, MonitorTask

LEMMA WatchInvMeaning ==
    ASSUME RecordsTypeOK, HandlesTypeOK, WatchInv
    PROVE  NoStrayMonitor /\ RecordedHandleIsWatched
<1>1. NoStrayMonitor
  BY LiveTasks DEF WatchInv, NoStray, NoStrayMonitor, HealthOf
<1>2. RecordedHandleIsWatched
  BY DEF WatchInv, Watched, RecordedHandleIsWatched, HealthOf, Recorded
<1> QED
  BY <1>1, <1>2

SameHealth == \A s \in Services : HealthOf(s)' = HealthOf(s)

\* A step that moves no handle and leaves every monitor alone.
LEMMA QuietStep ==
    ASSUME HandlesTypeOK, WatchInv, SameHealth, UNCHANGED handles
    PROVE  WatchInv'
<1>1. OneRecordPerHandle'
  BY DEF WatchInv, SameHealth, OneRecordPerHandle
<1>2. ASSUME NEW m \in Handles PROVE NoStray(m)'
  BY LiveTasks DEF WatchInv, SameHealth, NoStray, Live, handles
<1>3. ASSUME NEW s \in Services, (HealthOf(s) # NoHandle)' PROVE Watched(s)'
  BY <1>3 DEF WatchInv, SameHealth, Watched, Live, handles
<1> QED
  BY <1>1, <1>2, <1>3 DEF WatchInv

\* The records of ss lose their handles, and the flags of these are set.
LEMMA UnlinkStep ==
    ASSUME RecordsTypeOK, HandlesTypeOK, WatchInv, NEW ss, stop_health_monitor(ss),
           \A s \in Services : HealthOf(s)' = IF s \in ss THEN NoHandle ELSE HealthOf(s),
           UNCHANGED <<monitor, gave_up, leaked>>
    PROVE  WatchInv'
<1>1. OneRecordPerHandle'
  BY DEF WatchInv, OneRecordPerHandle
<1>2. /\ \A h \in Handles : stop_flag'[h] <=> (stop_flag[h] \/ h \in Health(ss))
      /\ Health(ss) = {HealthOf(s) : s \in ss \cap Services} \ {NoHandle}
  BY HealthOfType DEF stop_health_monitor, HandlesTypeOK
<1>3. ASSUME NEW m \in Handles PROVE NoStray(m)'
  <2> SUFFICES ASSUME Live(m), ~stop_flag'[monitor[m].handle], monitor[m].handle \notin leaked
               PROVE  HealthOf(monitor[m].svc)' = monitor[m].handle
    BY DEF NoStray, Live
  <2>1. /\ monitor[m].svc \in Services /\ monitor[m].handle \in Handles
        /\ monitor[m].handle # NoHandle
    BY LiveTasks
  <2>2. ~stop_flag[monitor[m].handle] /\ monitor[m].handle \notin Health(ss)
    BY <1>2, <2>1
  <2>3. HealthOf(monitor[m].svc) = monitor[m].handle
    BY <2>2 DEF WatchInv, NoStray
  <2>4. monitor[m].svc \notin ss
    BY <1>2, <2>1, <2>2, <2>3
  <2> QED
    BY <2>1, <2>3, <2>4
<1>4. ASSUME NEW s \in Services, (HealthOf(s) # NoHandle)' PROVE Watched(s)'
  <2>1. s \notin ss /\ HealthOf(s)' = HealthOf(s) /\ HealthOf(s) # NoHandle
    BY <1>4
  <2>2. HealthOf(s) \in Handles
    BY <2>1, HealthOfType
  <2>3. HealthOf(s) \notin Health(ss)
    BY <1>2, <2>1 DEF WatchInv, OneRecordPerHandle
  <2>4. ~stop_flag'[HealthOf(s)]
    BY <1>2, <2>1, <2>2, <2>3 DEF WatchInv, Watched
  <2> QED
    BY <2>1, <2>4 DEF WatchInv, Watched, Live
<1> QED
  BY <1>1, <1>3, <1>4 DEF WatchInv

\* remove_run forgets every record; the handles it held count as leaked.
LEMMA RemoveRunStep ==
    ASSUME RecordsTypeOK, HandlesTypeOK, WatchInv, remove_run
    PROVE  WatchInv'
<1>1. \A s \in Services : HealthOf(s)' = NoHandle
  BY DEF remove_run, HealthOf
<1>2. ASSUME NEW m \in Handles PROVE NoStray(m)'
  <2> SUFFICES ASSUME Live(m), ~stop_flag[monitor[m].handle], monitor[m].handle \notin leaked'
               PROVE  FALSE
    BY DEF NoStray, Live, remove_run
  <2>1. /\ monitor[m].svc \in Services /\ monitor[m].handle \in Handles
        /\ monitor[m].handle # NoHandle
    BY LiveTasks
  <2>2. monitor[m].handle \notin leaked /\ monitor[m].handle \notin Health(Services)
    BY DEF remove_run
  <2>3. HealthOf(monitor[m].svc) = monitor[m].handle
    BY <2>2 DEF WatchInv, NoStray
  <2> QED
    BY <2>1, <2>2, <2>3, HealthOfType
<1> QED
  BY <1>1, <1>2 DEF WatchInv, OneRecordPerHandle

\* A record gets a handle of its own, and a monitor is spawned.
LEMMA NewHandleStep ==
    ASSUME RecordsTypeOK, HandlesTypeOK, WatchInv,
           NEW s \in Services, NEW h \in Handles, Free(h), HealthOf(s) = NoHandle,
           HealthOf(s)' = h, \A q \in Services \ {s} : HealthOf(q)' = HealthOf(q),
           stop_flag' = [stop_flag EXCEPT ![h] = FALSE],
           monitor' = [monitor EXCEPT ![h] = Task("spawned", s, NoHandle, 0, 0)],
           gave_up' = gave_up \ {h}, leaked' = leaked \ {h}
    PROVE  WatchInv'
<1> DEFINE new == Task("spawned", s, NoHandle, 0, 0)
<1>1. new.pc = "spawned" /\ new.svc = s
  BY NewTask DEF MonitorPc
<1>2. /\ monitor'[h] = new /\ \A m \in Handles \ {h} : monitor'[m] = monitor[m]
      /\ \A g \in Handles \ {h} : stop_flag'[g] = stop_flag[g]
      /\ ~stop_flag'[h]
  BY DEF HandlesTypeOK
<1> HIDE DEF new
<1>3. h # NoHandle /\ \A q \in Services : HealthOf(q) # h
  BY HealthOfType, LimitAssumption DEF Free
<1>4. monitor[h].pc = "none" /\ \A m \in Handles : monitor[m].handle # h
  BY DEF Free
<1>5. OneRecordPerHandle'
  BY <1>3 DEF WatchInv, OneRecordPerHandle
<1>6. ASSUME NEW m \in Handles PROVE NoStray(m)'
  <2>1. CASE m = h
    BY <1>1, <1>2, <2>1 DEF NoStray, Live
  <2>2. CASE m # h
    <3>0. monitor'[m] = monitor[m]
      BY <1>2, <2>2
    <3> SUFFICES ASSUME Live(m), ~stop_flag'[monitor[m].handle], monitor[m].handle \notin leaked'
                 PROVE  HealthOf(monitor[m].svc)' = monitor[m].handle
      BY <3>0 DEF NoStray, Live
    <3>1. /\ monitor[m].svc \in Services /\ monitor[m].handle \in Handles
          /\ monitor[m].handle # NoHandle
      BY LiveTasks
    <3>2. monitor[m].handle \notin leaked /\ ~stop_flag[monitor[m].handle]
      BY <1>2, <1>4, <3>1
    <3>3. HealthOf(monitor[m].svc) = monitor[m].handle
      BY <3>2 DEF WatchInv, NoStray
    <3> QED
      BY <3>0, <3>1, <3>3
  <2> QED
    BY <2>1, <2>2
<1>7. ASSUME NEW q \in Services, (HealthOf(q) # NoHandle)' PROVE Watched(q)'
  <2>1. CASE q = s
    BY <1>1, <1>2, <2>1 DEF Watched
  <2>2. CASE q # s
    <3>1. HealthOf(q)' = HealthOf(q) /\ HealthOf(q) # h /\ HealthOf(q) \in Handles
      BY <1>3, <1>7, <2>2, HealthOfType
    <3>2. Watched(q)
      BY <1>7, <2>2, <3>1 DEF WatchInv
    <3>3. ~stop_flag'[HealthOf(q)]
      BY <1>2, <3>1, <3>2 DEF Watched
    <3>4. CASE HealthOf(q) \in gave_up
      BY <3>1, <3>3, <3>4 DEF Watched
    <3>5. ASSUME NEW m \in Handles, monitor[m].svc = q,
                 (Live(m) /\ monitor[m].handle = HealthOf(q)) \/ monitor[m].pc = "spawned"
          PROVE  Watched(q)'
      <4>1. m # h /\ monitor'[m] = monitor[m]
        BY <1>2, <1>4, <3>5 DEF Live
      <4> QED
        BY <3>1, <3>3, <3>5, <4>1 DEF Watched, Live
    <3> QED
      BY <3>2, <3>4, <3>5 DEF Watched
  <2> QED
    BY <2>1, <2>2
<1> QED
  BY <1>5, <1>6, <1>7 DEF WatchInv

\* One monitor moves; it goes on watching, or ends when its flag is set or
\* it has given up.
LEMMA MonitorStep ==
    ASSUME RecordsTypeOK, HandlesTypeOK, WatchInv, SameHealth,
           NEW m \in Handles, NEW t, monitor' = [monitor EXCEPT ![m] = t],
           UNCHANGED <<stop_flag, leaked>>,
           gave_up \subseteq gave_up',
           \/ /\ Live(m) /\ t.svc = monitor[m].svc /\ t.handle = monitor[m].handle
              /\ t.pc \notin {"none", "spawned"}
           \/ /\ Live(m) /\ t.pc = "none"
              /\ stop_flag[monitor[m].handle] \/ monitor[m].handle \in gave_up'
           \/ /\ monitor[m].pc = "spawned" /\ t.pc = "none"
              /\ HealthOf(monitor[m].svc) = NoHandle
           \/ /\ monitor[m].pc = "spawned" /\ t.pc = "loop"
              /\ t.svc = monitor[m].svc /\ t.handle = HealthOf(monitor[m].svc)
    PROVE  WatchInv'
<1>1. monitor'[m] = t /\ \A k \in Handles \ {m} : monitor'[k] = monitor[k]
  BY DEF HandlesTypeOK
<1>2. OneRecordPerHandle'
  BY DEF WatchInv, SameHealth, OneRecordPerHandle
<1>3. ASSUME NEW k \in Handles PROVE NoStray(k)'
  <2>1. CASE k # m
    <3>1. Live(k) => monitor[k].svc \in Services
      BY LiveTasks
    <3> QED
      BY <1>1, <2>1, <3>1 DEF WatchInv, NoStray, Live, SameHealth
  <2>2. CASE k = m
    <3>1. monitor[m].pc # "none" => monitor[m].svc \in Services
      BY DEF HandlesTypeOK
    <3> QED
      BY <1>1, <2>2, <3>1 DEF WatchInv, NoStray, Live, SameHealth
  <2> QED
    BY <2>1, <2>2
<1>4. ASSUME NEW s \in Services, (HealthOf(s) # NoHandle)' PROVE Watched(s)'
  <2>1. HealthOf(s)' = HealthOf(s) /\ Watched(s)
    BY <1>4 DEF WatchInv, SameHealth
  <2>2. CASE HealthOf(s) \in gave_up
    BY <2>1, <2>2 DEF Watched
  <2>3. ASSUME NEW k \in Handles, monitor[k].svc = s,
               (Live(k) /\ monitor[k].handle = HealthOf(s)) \/ monitor[k].pc = "spawned"
        PROVE  Watched(s)'
    <3>1. CASE k # m
      BY <1>1, <2>1, <2>3, <3>1 DEF Watched, Live
    <3>2. CASE k = m
      BY <1>1, <1>4, <2>1, <2>3, <3>2 DEF Watched, Live
    <3> QED
      BY <3>1, <3>2
  <2> QED
    BY <2>1, <2>2, <2>3 DEF Watched
<1> QED
  BY <1>2, <1>3, <1>4 DEF WatchInv

-----------------------------------------------------------------------------
(***************************************************************************)
(* What each step does to the handles in the records.                      *)
(***************************************************************************)
LEMMA SetStateHealth ==
    ASSUME RecordsTypeOK, NEW s \in Services, NEW st \in ServiceState, NEW f \in Failure,
           services' = SetState(s, st, f)
    PROVE  SameHealth
BY SetStateType DEF SameHealth, HealthOf

LEMMA ReplaceHealth ==
    ASSUME RecordsTypeOK, NEW s \in Services, NEW st \in ServiceState, NEW f \in Failure,
           replace_service_record(s, st, f)
    PROVE  \A q \in Services : HealthOf(q)' = IF q \in {s} THEN NoHandle ELSE HealthOf(q)
BY ReplaceType DEF HealthOf

LEMMA MarkWatch ==
    ASSUME RecordsTypeOK, HandlesTypeOK, WatchInv, NEW s \in Services,
           mark_service_ready(s) \/ mark_service_failed(s)
    PROVE  WatchInv'
<1>1. CASE services' = services /\ UNCHANGED handles
  BY <1>1, QuietStep DEF SameHealth, HealthOf
<1>2. ASSUME NEW st \in ServiceState, NEW f \in Failure, services' = SetState(s, st, f),
             UNCHANGED handles
      PROVE  WatchInv'
  BY <1>2, QuietStep, SetStateHealth
<1>3. CASE mark_service_failed(s)
  BY <1>2, <1>3, StateNames DEF mark_service_failed, StoreAndRecompute, handles
<1>4. ASSUME NEW h \in Handles, Free(h), services[s].health = NoHandle,
             services' = [services EXCEPT
                 ![s] = [state |-> "Ready", last_failure |-> "none", health |-> h]],
             stop_flag' = [stop_flag EXCEPT ![h] = FALSE],
             monitor' = [monitor EXCEPT ![h] = Task("spawned", s, NoHandle, 0, 0)],
             gave_up' = gave_up \ {h}, leaked' = leaked \ {h}
      PROVE  WatchInv'
  <2> DEFINE new == [state |-> "Ready", last_failure |-> "none", health |-> h]
  <2>1. new # NoRecord /\ new.health = h
    BY NoneAssumption, StateNames DEF ServiceRecord
  <2>2. services'[s] = new /\ \A q \in Services \ {s} : services'[q] = services[q]
    BY <1>4 DEF RecordsTypeOK
  <2> HIDE DEF new
  <2>3. HealthOf(s)' = h /\ HealthOf(s) = NoHandle
        /\ \A q \in Services \ {s} : HealthOf(q)' = HealthOf(q)
    BY <1>4, <2>1, <2>2 DEF HealthOf
  <2> QED
    BY <1>4, <2>3, NewHandleStep
<1> QED
  BY <1>1, <1>2, <1>3, <1>4, StateNames
     DEF mark_service_ready, StoreAndRecompute, handles

LEMMA LaunchWatch ==
    ASSUME RecordsTypeOK, HandlesTypeOK, CommandsTypeOK, WatchInv, LaunchStep
    PROVE  WatchInv'
<1>1. CASE UNCHANGED <<services, handles>>
  BY <1>1, QuietStep DEF SameHealth, HealthOf
<1>2. CASE remove_services_missing_from_stack
  <2>1. CASE Missing = {}
    BY <1>1, <1>2, <2>1 DEF remove_services_missing_from_stack, handles
  <2>2. CASE Missing # {}
    <3>1. /\ stop_health_monitor(Missing) /\ UNCHANGED <<monitor, gave_up, leaked>>
          /\ services' = [s \in Services |-> IF s \in Missing THEN NoRecord ELSE services[s]]
      BY <1>2, <2>2 DEF remove_services_missing_from_stack, StoreAndRecompute
    <3>2. \A s \in Services : HealthOf(s)' = IF s \in Missing THEN NoHandle ELSE HealthOf(s)
      BY <3>1 DEF HealthOf
    <3> HIDE DEF Missing
    <3> QED
      BY <3>1, <3>2, UnlinkStep
  <2> QED
    BY <2>1, <2>2
<1>3. ASSUME launch.todo # {}, NEW st \in ServiceState, NEW f \in Failure,
             replace_service_record(Current, st, f), UNCHANGED <<monitor, gave_up, leaked>>
      PROVE  WatchInv'
  <2>1. Current \in Services
    BY <1>3, CurrentIsService
  <2>2. \A q \in Services : HealthOf(q)' = IF q \in {Current} THEN NoHandle ELSE HealthOf(q)
    BY <1>3, <2>1, ReplaceHealth
  <2>3. stop_health_monitor({Current})
    BY <1>3 DEF replace_service_record
  <2> QED
    BY <1>3, <2>2, <2>3, UnlinkStep
<1>4. CASE record_failed_init_service \/ store_service_launch_result
  BY <1>3, <1>4, StateNames
     DEF record_failed_init_service, store_service_launch_result, CommandsTypeOK
<1>5. CASE CaptureProxyFailed \/ wait_for_prepared_service
  BY <1>5, CurrentIsService, MarkWatch
     DEF CaptureProxyFailed, wait_for_prepared_service, CommandsTypeOK
<1>6. CASE finalize_run_launch
  BY <1>1, <1>6 DEF finalize_run_launch, StoreAndRecompute
<1>7. CASE \/ refresh_run \/ \E s \in Services : RemoveMissingUnit(s)
           \/ update_run_launch_resources
           \/ sync_unchanged_service \/ \E ok \in BOOLEAN : start_prepared_service(ok)
           \/ handle_readiness \/ LaunchError
  BY <1>1, <1>7 DEF refresh_run, RemoveMissingUnit, update_run_launch_resources,
     sync_unchanged_service, start_prepared_service, handle_readiness, LaunchError
<1> QED
  BY <1>2, <1>4, <1>5, <1>6, <1>7 DEF LaunchStep

LEMMA DownWatch ==
    ASSUME RecordsTypeOK, HandlesTypeOK, WatchInv,
           DownStep \/ run_gc \/ \E purge \in BOOLEAN : stop_service_handles(purge)
    PROVE  WatchInv'
<1>1. CASE UNCHANGED <<services, handles>>
  BY <1>1, QuietStep DEF SameHealth, HealthOf
<1>2. CASE \E purge \in BOOLEAN : stop_service_handles(purge)
  <2>1. /\ stop_health_monitor(Services) /\ UNCHANGED <<monitor, gave_up, leaked>>
        /\ \A s \in Services : services'[s] = IF services[s] = NoRecord THEN NoRecord
                                       ELSE [services[s] EXCEPT !.health = NoHandle]
    BY <1>2 DEF stop_service_handles
  <2>2. \A s \in Services : services[s] # NoRecord =>
           [services[s] EXCEPT !.health = NoHandle].health = NoHandle
    BY DEF RecordsTypeOK, ServiceRecord
  <2>3. \A s \in Services : HealthOf(s)' = IF s \in Services THEN NoHandle ELSE HealthOf(s)
    BY <2>1, <2>2 DEF HealthOf
  <2> QED
    BY <2>1, <2>3, UnlinkStep
<1>3. CASE DownMarkStopped
  <2>1. /\ UNCHANGED handles
        /\ \A s \in Services : services'[s] = IF services[s] = NoRecord THEN NoRecord
                                       ELSE [services[s] EXCEPT !.state = "Stopped"]
    BY <1>3 DEF DownMarkStopped
  <2>2. \A s \in Services : services[s] # NoRecord =>
           /\ [services[s] EXCEPT !.state = "Stopped"] \in ServiceRecord
           /\ [services[s] EXCEPT !.state = "Stopped"].health = services[s].health
    BY StateNames DEF RecordsTypeOK, ServiceRecord
  <2>3. SameHealth
    BY <2>1, <2>2, NoneAssumption DEF HealthOf, SameHealth
  <2> QED
    BY <2>1, <2>3, QuietStep
<1> QED
  BY <1>1, <1>2, <1>3, RemoveRunStep
     DEF DownStep, DownList, DownStopUnit, DownRefused, DownPurge, run_gc

LEMMA MonitorWatch ==
    ASSUME RecordsTypeOK, HandlesTypeOK, WatchInv, NEW m \in Handles, Monitor(m)
    PROVE  WatchInv'
<1> DEFINE s == monitor[m].svc
<1>1. monitor[m] \in MonitorTask /\ (monitor[m].pc # "none" => s \in Services)
  BY DEF HandlesTypeOK
<1>2. SameHealth
  <2>1. CASE UNCHANGED services
    BY <2>1 DEF SameHealth, HealthOf
  <2>2. ASSUME monitor[m].pc # "none", NEW st \in ServiceState, NEW f \in Failure,
               services' = SetState(s, st, f)
        PROVE  SameHealth
    BY <1>1, <2>2, SetStateHealth
  <2> QED
    BY <2>1, <2>2, StateNames
       DEF Monitor, start_health_monitor, MonitorStops, MonitorProbes, ProbeSucceeded,
           ProbeFailed, MonitorRestarts, MonitorRestartsUnit, RestartLimitExceeded,
           StoreAndRecompute, MarkRestarting, MarkDegraded, RecoverToReady
<1>3. UNCHANGED <<stop_flag, leaked>> /\ gave_up \subseteq gave_up'
  BY DEF Monitor, start_health_monitor, MonitorStops, MonitorProbes, ProbeSucceeded,
     ProbeFailed, MonitorRestarts, MonitorRestartsUnit, RestartLimitExceeded
<1>4. ASSUME NEW pc \in MonitorPc \ {"none", "spawned"}, Live(m),
             monitor' = [monitor EXCEPT ![m] = [monitor[m] EXCEPT !.pc = pc]]
      PROVE  WatchInv'
  <2> DEFINE t == [monitor[m] EXCEPT !.pc = pc]
  <2>1. /\ t.pc = pc /\ t.svc = s /\ t.handle = monitor[m].handle
        /\ monitor' = [monitor EXCEPT ![m] = t]
    BY <1>1, <1>4, MonitorMoves
  <2> HIDE DEF t
  <2> QED
    BY <1>2, <1>3, <1>4, <2>1, MonitorStep
<1>5. ASSUME NEW pc \in MonitorPc \ {"none", "spawned"}, Live(m), NEW n, NEW k,
             monitor' = [monitor EXCEPT ![m] = Task(pc, s, monitor[m].handle, n, k)]
      PROVE  WatchInv'
  <2> DEFINE t == Task(pc, s, monitor[m].handle, n, k)
  <2>1. /\ t.pc = pc /\ t.svc = s /\ t.handle = monitor[m].handle
        /\ monitor' = [monitor EXCEPT ![m] = t]
    BY <1>5 DEF Task
  <2> HIDE DEF t
  <2> QED
    BY <1>2, <1>3, <1>5, <2>1, MonitorStep
<1>6. CASE start_health_monitor(m)
  <2>1. monitor[m].pc = "spawned"
    BY <1>6 DEF start_health_monitor
  <2>2. CASE HealthOf(s) # NoHandle
    <3> DEFINE t == Task("loop", s, HealthOf(s), 0, 0)
    <3>1. monitor' = [monitor EXCEPT ![m] = t]
      BY <1>6, <2>2 DEF start_health_monitor, HealthOf
    <3>2. t.pc = "loop" /\ t.svc = s /\ t.handle = HealthOf(s)
      BY DEF Task
    <3> HIDE DEF t
    <3> QED
      BY <1>2, <1>3, <2>1, <3>1, <3>2, MonitorStep
  <2>3. CASE HealthOf(s) = NoHandle
    <3>1. monitor' = [monitor EXCEPT ![m] = IdleMonitor]
      BY <1>6, <2>3 DEF start_health_monitor, HealthOf
    <3> QED
      BY <1>2, <1>3, <2>1, <2>3, <3>1, IdleMonitorType, MonitorStep
  <2> QED
    BY <2>2, <2>3
<1>7. CASE MonitorStops(m)
  <2>1. Live(m) /\ stop_flag[monitor[m].handle] /\ monitor' = [monitor EXCEPT ![m] = IdleMonitor]
    BY <1>7 DEF MonitorStops, Live
  <2> QED
    BY <1>2, <1>3, <2>1, IdleMonitorType, MonitorStep
<1>8. CASE RestartLimitExceeded(m)
  <2>1. /\ Live(m) /\ monitor[m].handle \in gave_up'
        /\ monitor' = [monitor EXCEPT ![m] = IdleMonitor]
    BY <1>8 DEF RestartLimitExceeded, Live
  <2> QED
    BY <1>2, <1>3, <2>1, IdleMonitorType, MonitorStep
<1>9. CASE MonitorProbes(m) \/ MonitorRestarts(m) \/ MonitorRestartsUnit(m)
  BY <1>4, <1>9 DEF MonitorProbes, MonitorRestarts, MonitorRestartsUnit, AfterRestart,
     MonitorPc, Live
<1>10. CASE ProbeSucceeded(m)
  BY <1>5, <1>10 DEF ProbeSucceeded, MonitorPc, Live
<1>11. CASE ProbeFailed(m)
  <2>1. PICK pc \in {"restart", "loop"} : \E n, k :
          monitor' = [monitor EXCEPT ![m] = Task(pc, s, monitor[m].handle, n, k)]
    BY <1>11 DEF ProbeFailed
  <2>2. Live(m)
    BY <1>11 DEF ProbeFailed, Live
  <2> QED
    BY <1>5, <2>1, <2>2 DEF MonitorPc
<1> QED
  BY <1>6, <1>7, <1>8, <1>9, <1>10, <1>11 DEF Monitor

LEMMA WatchStep ==
    ASSUME TypeOK, WatchInv, [Next]_vars
    PROVE  WatchInv'
<1> USE DEF TypeOK
<1>1. CASE UNCHANGED <<services, handles>>
  BY <1>1, QuietStep DEF SameHealth, HealthOf
<1>2. CASE \E s \in Services : RestartBegin(s)
  BY <1>2, SetStateHealth, QuietStep, StateNames
     DEF RestartBegin, MarkRestarting, StoreAndRecompute
<1>3. CASE \E s \in Services : spawn_readiness_task(s)
  BY <1>3, MarkWatch DEF spawn_readiness_task
<1>4. CASE reconcile_run
  <2>1. CASE run = NoRun
    BY <1>1, <1>4, <2>1 DEF reconcile_run
  <2>2. CASE run # NoRun
    <3>1. \A s \in Services : services'[s] =
             IF services[s] = NoRecord \/ query.seen[s] = NoRecord THEN services[s]
             ELSE [query.seen[s] EXCEPT !.health = services[s].health]
      BY <1>4, <2>2 DEF reconcile_run
    <3>2. \A s \in Services : services[s] # NoRecord /\ query.seen[s] # NoRecord =>
            /\ [query.seen[s] EXCEPT !.health = services[s].health] \in ServiceRecord
            /\ [query.seen[s] EXCEPT !.health = services[s].health].health = services[s].health
      BY DEF CommandsTypeOK, RecordsTypeOK, Query, ServiceRecord
    <3>3. SameHealth
      BY <3>1, <3>2, NoneAssumption DEF SameHealth, HealthOf
    <3> QED
      BY <1>4, <3>3, QuietStep DEF reconcile_run
  <2> QED
    BY <2>1, <2>2
<1>5. CASE \/ UNCHANGED vars \/ build_status
           \/ \E wait \in BOOLEAN : create_run_record(wait)
           \/ \E plan \in SUBSET Services \ {{}}, wait \in BOOLEAN :
                find_latest_run_for_project_stack(plan, wait)
           \/ \E s \in Services : RestartUnit(s) \/ UnitFails(s) \/ unit_status(s)
  BY <1>1, <1>5 DEF vars, handles, build_status, create_run_record,
     find_latest_run_for_project_stack, RestartUnit, UnitFails, unit_status
<1> QED
  BY <1>2, <1>3, <1>4, <1>5, LaunchWatch, DownWatch, MonitorWatch DEF Next

LEMMA WatchInvariant == Spec => []WatchInv
<1>1. Init => WatchInv
  <2> SUFFICES ASSUME Init PROVE WatchInv
    OBVIOUS
  <2>1. \A s \in Services : HealthOf(s) = NoHandle
    BY DEF Init, HealthOf
  <2>2. \A m \in Handles : ~Live(m)
    BY IdleMonitorType DEF Init, Live
  <2> QED
    BY <2>1, <2>2 DEF WatchInv, OneRecordPerHandle, NoStray
<1>2. TypeOK /\ WatchInv /\ [Next]_vars => WatchInv'
  BY WatchStep
<1> QED
  BY <1>1, <1>2, TypeCorrect, PTL DEF Spec

(***************************************************************************)
(* However launches, downs, restarts and readiness tasks overlap, a        *)
(* monitor that has not been told to stop watches the service whose        *)
(* record holds its handle.                                                *)
(***************************************************************************)
THEOREM NoMonitorIsLeftBehind == Spec => []NoStrayMonitor
BY WatchInvariant, TypeCorrect, WatchInvMeaning, PTL DEF TypeOK

(***************************************************************************)
(* A handle in a record has its flag clear, and a monitor runs on it or is *)
(* about to, until one reaches the restart limit.                          *)
(***************************************************************************)
THEOREM EveryHandleIsWatched == Spec => []RecordedHandleIsWatched
BY WatchInvariant, TypeCorrect, WatchInvMeaning, PTL DEF TypeOK

-----------------------------------------------------------------------------
(***************************************************************************)
(* The run's state.                                                        *)
(***************************************************************************)
SameStates(svcs, old) ==
    \A s \in Services : /\ svcs[s] = NoRecord <=> old[s] = NoRecord
                        /\ old[s] # NoRecord => svcs[s].state = old[s].state

\* Recomputing twice is recomputing once.
LEMMA RecomputeTwice ==
    ASSUME NEW r \in Run \cup {NoRun}, NEW svcs
    PROVE  recompute_run_state(recompute_run_state(r, svcs), svcs) = recompute_run_state(r, svcs)
<1>1. CASE r = NoRun \/ r.state = "Stopped"
  BY <1>1 DEF recompute_run_state
<1>2. CASE r # NoRun /\ r.state # "Stopped"
  <2> DEFINE state == IF Degraded(svcs) THEN "Degraded"
                      ELSE IF AllReady(svcs) THEN "Running" ELSE "Starting"
             new == [r EXCEPT !.state = state]
  <2>1. recompute_run_state(r, svcs) = new
    BY <1>2 DEF recompute_run_state
  <2>2. state \in RunLifecycleState /\ state # "Stopped"
    BY DEF RunLifecycleState
  <2>3. new \in Run /\ new # NoRun /\ new.state = state
    BY <1>2, <2>2, NoneAssumption DEF Run
  <2>4. [new EXCEPT !.state = state] = new
    BY <1>2, <2>2 DEF Run
  <2> QED
    BY <2>1, <2>2, <2>3, <2>4 DEF recompute_run_state
<1> QED
  BY <1>1, <1>2

\* It looks at the services' states only.
LEMMA RecomputeSame ==
    ASSUME NEW r, NEW svcs, NEW old, SameStates(svcs, old)
    PROVE  recompute_run_state(r, svcs) = recompute_run_state(r, old)
<1>1. Degraded(svcs) <=> Degraded(old)
  BY DEF Degraded, Recorded, SameStates
<1>2. AllReady(svcs) <=> AllReady(old)
  BY DEF AllReady, Recorded, SameStates
<1> QED
  BY <1>1, <1>2 DEF recompute_run_state

Alive(r) == r # NoRun /\ r.state # "Stopped"

\* It neither stops nor revives a run, and leaves stopped_at alone.
LEMMA RecomputeAlive ==
    ASSUME NEW r \in Run \cup {NoRun}, NEW svcs
    PROVE  /\ Alive(recompute_run_state(r, svcs)) <=> Alive(r)
           /\ ~Alive(r) => recompute_run_state(r, svcs) = r
<1>1. CASE r = NoRun \/ r.state = "Stopped"
  BY <1>1 DEF recompute_run_state, Alive
<1>2. CASE r # NoRun /\ r.state # "Stopped"
  <2> DEFINE state == IF Degraded(svcs) THEN "Degraded"
                      ELSE IF AllReady(svcs) THEN "Running" ELSE "Starting"
             new == [r EXCEPT !.state = state]
  <2>1. recompute_run_state(r, svcs) = new
    BY <1>2 DEF recompute_run_state
  <2>2. state \in RunLifecycleState /\ state # "Stopped"
    BY DEF RunLifecycleState
  <2>3. new \in Run /\ new # NoRun /\ new.state = state
    BY <1>2, <2>2, NoneAssumption DEF Run
  <2> QED
    BY <1>2, <2>1, <2>2, <2>3 DEF Alive
<1> QED
  BY <1>1, <1>2

\* What a step other than reconcile_run may do to the run's record.
RunMoves ==
    \/ run' = run
    \/ \E svcs : run' = recompute_run_state(run, svcs)
    \/ run = NoRun
    \/ run' = NoRun
    \/ run'.state = "Stopped"
    \/ ~run'.stopped_at

LEMMA RunStep ==
    ASSUME [Next]_vars
    PROVE  RunMoves \/ reconcile_run
<1> USE DEF RunMoves
<1>1. ASSUME NEW s, mark_service_ready(s) \/ mark_service_failed(s) PROVE RunMoves
  BY <1>1 DEF mark_service_ready, mark_service_failed, StoreAndRecompute
<1>2. ASSUME LaunchStep PROVE RunMoves
  <2>1. ASSUME remove_services_missing_from_stack \/ finalize_run_launch PROVE RunMoves
    BY <2>1 DEF remove_services_missing_from_stack, finalize_run_launch, StoreAndRecompute
  <2>2. ASSUME update_run_launch_resources PROVE RunMoves
    BY <2>2 DEF update_run_launch_resources
  <2>3. ASSUME CaptureProxyFailed \/ wait_for_prepared_service PROVE RunMoves
    BY <1>1, <2>3 DEF CaptureProxyFailed, wait_for_prepared_service
  <2> QED
    BY <1>2, <2>1, <2>2, <2>3 DEF LaunchStep, refresh_run, RemoveMissingUnit,
       sync_unchanged_service, record_failed_init_service, start_prepared_service,
       store_service_launch_result, handle_readiness, LaunchError
<1>3. ASSUME DownStep \/ run_gc \/ \E purge \in BOOLEAN : stop_service_handles(purge) PROVE RunMoves
  BY <1>3 DEF DownStep, stop_service_handles, DownList, DownStopUnit, DownRefused,
     DownMarkStopped, DownPurge, remove_run, run_gc
<1>4. ASSUME NEW m \in Handles, Monitor(m) PROVE RunMoves
  BY <1>4 DEF Monitor, start_health_monitor, MonitorStops, MonitorProbes, ProbeSucceeded,
     ProbeFailed, MonitorRestarts, MonitorRestartsUnit, RestartLimitExceeded,
     StoreAndRecompute, MarkRestarting, MarkDegraded, RecoverToReady
<1>5. ASSUME NEW s \in Services, \/ RestartBegin(s) \/ RestartUnit(s) \/ spawn_readiness_task(s)
                                 \/ UnitFails(s) \/ unit_status(s)
      PROVE  RunMoves
  BY <1>1, <1>5 DEF RestartBegin, RestartUnit, spawn_readiness_task, UnitFails, unit_status,
     MarkRestarting, StoreAndRecompute
<1>6. ASSUME \/ UNCHANGED vars \/ build_status
             \/ \E wait \in BOOLEAN : create_run_record(wait)
             \/ \E plan \in SUBSET Services \ {{}}, wait \in BOOLEAN :
                  find_latest_run_for_project_stack(plan, wait)
      PROVE  RunMoves
  BY <1>6 DEF vars, build_status, create_run_record, find_latest_run_for_project_stack
<1> QED
  BY <1>2, <1>3, <1>4, <1>5, <1>6 DEF Next

(***************************************************************************)
(* Apart from an up that takes the run on, only the write-back of a status *)
(* query takes a run out of Stopped.                                       *)
(***************************************************************************)
THEOREM StoppedStaysStopped == Spec => RevivedOnlyByStatus
<1> DEFINE Revived == /\ run # NoRun /\ run.state = "Stopped"
                      /\ run' # NoRun /\ run'.stopped_at /\ run'.state # "Stopped"
<1>1. ASSUME RecordsTypeOK, [Next]_vars, Revived PROVE reconcile_run
  <2>1. \A svcs : recompute_run_state(run, svcs) = run
    BY <1>1 DEF recompute_run_state
  <2> QED
    BY <1>1, <2>1, RunStep DEF RunMoves
<1>2. TypeOK /\ [Next]_vars => [Revived => reconcile_run]_vars
  BY <1>1 DEF TypeOK
<1> QED
  BY <1>2, TypeCorrect, PTL DEF Spec, RevivedOnlyByStatus

-----------------------------------------------------------------------------
(***************************************************************************)
(* Without status queries nothing writes back a state derived earlier.     *)
(***************************************************************************)
NoQuery == query.pc = "idle"

LEMMA NoQueryInvariant == ASSUME "status" \notin Commands PROVE Spec => []NoQuery
<1>1. Init => NoQuery
  BY DEF Init, NoQuery, IdleQuery
<1>2. NoQuery /\ [Next]_vars => NoQuery'
  <2> SUFFICES ASSUME NoQuery, [Next]_vars PROVE NoQuery'
    OBVIOUS
  <2>1. CASE query' = query
    BY <2>1 DEF NoQuery
  <2>2. CASE build_status
    BY <2>2 DEF build_status, Send
  <2>3. CASE reconcile_run \/ \E s \in Services : unit_status(s)
    BY <2>3 DEF reconcile_run, unit_status, NoQuery
  <2>4. CASE LaunchStep
    BY <2>1, <2>4 DEF LaunchStep, refresh_run, RemoveMissingUnit,
       remove_services_missing_from_stack, update_run_launch_resources, sync_unchanged_service,
       record_failed_init_service, start_prepared_service, store_service_launch_result,
       CaptureProxyFailed, handle_readiness, wait_for_prepared_service, finalize_run_launch,
       LaunchError
  <2>5. CASE DownStep \/ run_gc \/ \E purge \in BOOLEAN : stop_service_handles(purge)
    BY <2>1, <2>5 DEF DownStep, DownList, DownStopUnit, DownRefused, DownMarkStopped,
       DownPurge, run_gc, stop_service_handles, commands
  <2>6. CASE \E m \in Handles : Monitor(m)
    BY <2>1, <2>6 DEF Monitor, start_health_monitor, MonitorStops, MonitorProbes,
       ProbeSucceeded, ProbeFailed, MonitorRestarts, MonitorRestartsUnit,
       RestartLimitExceeded, commands
  <2>7. CASE \E s \in Services : \/ RestartBegin(s) \/ RestartUnit(s)
                                 \/ spawn_readiness_task(s) \/ UnitFails(s)
    BY <2>1, <2>7 DEF RestartBegin, RestartUnit, spawn_readiness_task, UnitFails, commands
  <2>8. CASE \/ UNCHANGED vars \/ \E wait \in BOOLEAN : create_run_record(wait)
             \/ \E plan \in SUBSET Services \ {{}}, wait \in BOOLEAN :
                  find_latest_run_for_project_stack(plan, wait)
    BY <2>1, <2>8 DEF vars, create_run_record, find_latest_run_for_project_stack
  <2> QED
    BY <2>2, <2>3, <2>4, <2>5, <2>6, <2>7, <2>8 DEF Next
<1> QED
  BY <1>1, <1>2, PTL DEF Spec

LEMMA FollowsStep ==
    ASSUME TypeOK, NoQuery, RunStateFollowsServices, [Next]_vars
    PROVE  RunStateFollowsServices'
<1> USE DEF TypeOK
<1> DEFINE Follows == run = recompute_run_state(run, services)
<1> SUFFICES ASSUME launch'.pc = "idle" PROVE Follows'
  BY DEF RunStateFollowsServices
<1>1. CASE UNCHANGED <<run, services, launch>>
  BY <1>1 DEF RunStateFollowsServices
<1>2. ASSUME NEW svcs, StoreAndRecompute(svcs) PROVE Follows'
  BY <1>2, RecomputeTwice DEF StoreAndRecompute, RecordsTypeOK
<1>3. ASSUME NEW s, mark_service_ready(s) \/ mark_service_failed(s) PROVE Follows'
  BY <1>2, <1>3 DEF mark_service_ready, mark_service_failed
<1>4. CASE remove_run
  BY <1>4 DEF remove_run, recompute_run_state
<1>5. CASE LaunchStep
  <2>1. launch \in Launch
    BY DEF CommandsTypeOK
  <2>2. CASE finalize_run_launch
    BY <1>2, <2>2 DEF finalize_run_launch
  <2>3. CASE CaptureProxyFailed \/ wait_for_prepared_service
    BY <1>3, <2>3 DEF CaptureProxyFailed, wait_for_prepared_service
  <2>4. CASE refresh_run \/ remove_services_missing_from_stack \/ \E s \in Services : RemoveMissingUnit(s)
    BY <2>1, <2>4 DEF refresh_run, remove_services_missing_from_stack, RemoveMissingUnit, Launch
  <2>5. ASSUME NEW pc \in {"next", "update", "store", "proxy", "await"}, NEW ok \in BOOLEAN,
               \/ launch' = [launch EXCEPT !.pc = pc]
               \/ launch' = [launch EXCEPT !.pc = pc, !.start_ok = ok]
        PROVE  FALSE
    BY <2>1, <2>5 DEF Launch
  <2>6. CASE LaunchError
    BY <2>6, IdleLaunchType DEF LaunchError
  <2>7. CASE \E s : launch' = Advance(s)
    BY <2>1, <2>7, LaunchMoves
  <2>8. CASE \E ok \in BOOLEAN : start_prepared_service(ok)
    BY <2>5, <2>8 DEF start_prepared_service
  <2>9. CASE sync_unchanged_service \/ record_failed_init_service
    BY <2>7, <2>9 DEF sync_unchanged_service, record_failed_init_service
  <2>10. CASE update_run_launch_resources \/ store_service_launch_result \/ handle_readiness
    BY <2>5, <2>7, <2>10 DEF update_run_launch_resources, store_service_launch_result,
       handle_readiness
  <2> QED
    BY <1>5, <2>2, <2>3, <2>4, <2>6, <2>8, <2>9, <2>10 DEF LaunchStep
<1>6. CASE \E purge \in BOOLEAN : stop_service_handles(purge)
  <2>1. /\ UNCHANGED <<run, launch>>
        /\ \A s \in Services : services'[s] = IF services[s] = NoRecord THEN NoRecord
                                       ELSE [services[s] EXCEPT !.health = NoHandle]
    BY <1>6 DEF stop_service_handles
  <2>2. \A s \in Services : services[s] # NoRecord =>
           /\ [services[s] EXCEPT !.health = NoHandle] \in ServiceRecord
           /\ [services[s] EXCEPT !.health = NoHandle].state = services[s].state
    BY DEF RecordsTypeOK, ServiceRecord
  <2>3. SameStates(services', services)
    BY <2>1, <2>2, NoneAssumption DEF SameStates
  <2>4. recompute_run_state(run, services') = recompute_run_state(run, services)
    BY <2>3, RecomputeSame
  <2> QED
    BY <2>1, <2>4 DEF RunStateFollowsServices
<1>7. CASE DownStep \/ run_gc
  <2>1. CASE DownMarkStopped
    BY <2>1 DEF DownMarkStopped, recompute_run_state
  <2> QED
    BY <1>1, <1>4, <1>7, <2>1 DEF DownStep, DownList, DownStopUnit, DownRefused, DownPurge, run_gc
<1>8. CASE \E m \in Handles : Monitor(m)
  BY <1>1, <1>2, <1>8 DEF Monitor, start_health_monitor, MonitorStops, MonitorProbes,
     ProbeSucceeded, ProbeFailed, MonitorRestarts, MonitorRestartsUnit, RestartLimitExceeded,
     commands, MarkRestarting, MarkDegraded, RecoverToReady
<1>9. CASE \E s \in Services : \/ RestartBegin(s) \/ RestartUnit(s) \/ spawn_readiness_task(s)
                               \/ UnitFails(s) \/ unit_status(s)
  BY <1>1, <1>2, <1>3, <1>9 DEF RestartBegin, RestartUnit, spawn_readiness_task, UnitFails,
     unit_status, commands, MarkRestarting
<1>10. CASE UNCHANGED vars \/ build_status
  BY <1>1, <1>10 DEF vars, build_status
<1>11. CASE \/ \E wait \in BOOLEAN : create_run_record(wait)
            \/ \E plan \in SUBSET Services \ {{}}, wait \in BOOLEAN :
                  find_latest_run_for_project_stack(plan, wait)
  <2>1. launch'.pc \in {"next", "found"}
    BY <1>11 DEF create_run_record, find_latest_run_for_project_stack, IdleLaunch
  <2> QED
    BY <2>1
<1>12. CASE reconcile_run
  BY <1>12 DEF reconcile_run, NoQuery
<1> QED
  BY <1>5, <1>6, <1>7, <1>8, <1>9, <1>10, <1>11, <1>12 DEF Next

(***************************************************************************)
(* Once a launch has ended, the run's state is what its services' states   *)
(* make it, as long as no status query writes back what it derived earlier.*)
(***************************************************************************)
THEOREM StateFollows == ASSUME "status" \notin Commands PROVE Spec => []RunStateFollowsServices
<1>1. Init => RunStateFollowsServices
  BY DEF Init, RunStateFollowsServices, recompute_run_state
<1>2. TypeOK /\ NoQuery /\ RunStateFollowsServices /\ [Next]_vars => RunStateFollowsServices'
  BY FollowsStep
<1> QED
  BY <1>1, <1>2, TypeCorrect, NoQueryInvariant, PTL DEF Spec

-----------------------------------------------------------------------------
(***************************************************************************)
(* Processes.  SerialInv holds when clients send up and down one at a time *)
(* and ask for no status: every process belongs to a record or to the      *)
(* service being launched, a down that is past its listing knows every     *)
(* process there is, and a run that is not alive has none.                 *)
(***************************************************************************)
Processes == {s \in Services : unit[s] # "absent"}

SerialInv ==
    /\ LaunchIdle \/ (/\ down.pc = "idle" /\ Alive(run)
                      /\ launch.existing \subseteq Recorded(services))
    /\ ~Alive(run) \/ down.pc = "purge" => Processes = {}
    /\ down.pc = "stop" => Processes \subseteq down.todo
    /\ \A s \in Processes : s \in Recorded(services) \/ (launch.pc = "store" /\ s = Current)
    /\ launch.pc = "unlink" => Processes \cap Missing \subseteq launch.unlink

LEMMA SerialInvMeaning ==
    ASSUME SerialInv
    PROVE  StoppedRunHasNoProcess
BY DEF SerialInv, StoppedRunHasNoProcess, Processes, Alive

\* A step of something else than a launch, a down or gc.
LEMMA BystanderStep ==
    ASSUME SerialInv, Processes' \subseteq Processes, Recorded(services') = Recorded(services),
           Alive(run') <=> Alive(run), UNCHANGED <<launch, down>>
    PROVE  SerialInv'
<1>1. Current' = Current /\ Missing' = Missing /\ (LaunchIdle' <=> LaunchIdle)
  BY DEF Current, Missing, LaunchIdle
<1> QED
  BY <1>1 DEF SerialInv

LEMMA StoreBystander ==
    ASSUME RecordsTypeOK, NEW svcs, StoreAndRecompute(svcs),
           \/ svcs = services
           \/ \E s \in Services, st \in ServiceState, f \in Failure : svcs = SetState(s, st, f)
           \/ \E s \in Services, r \in ServiceRecord :
                services[s] # NoRecord /\ svcs = [services EXCEPT ![s] = r]
    PROVE  Recorded(services') = Recorded(services) /\ (Alive(run') <=> Alive(run))
<1>1. Alive(run') <=> Alive(run)
  BY RecomputeAlive DEF StoreAndRecompute, RecordsTypeOK
<1>2. services' = svcs
  BY DEF StoreAndRecompute
<1>3. CASE svcs = services
  BY <1>1, <1>2, <1>3
<1>4. CASE \E s \in Services, st \in ServiceState, f \in Failure : svcs = SetState(s, st, f)
  <2>1. PICK s \in Services, st \in ServiceState, f \in Failure : svcs = SetState(s, st, f)
    BY <1>4
  <2>2. \A q \in Services : svcs[q] = NoRecord <=> services[q] = NoRecord
    BY <2>1, SetStateType
  <2> QED
    BY <1>1, <1>2, <2>2 DEF Recorded
<1>5. CASE \E s \in Services, r \in ServiceRecord :
             services[s] # NoRecord /\ svcs = [services EXCEPT ![s] = r]
  BY <1>1, <1>2, <1>5, NoneAssumption DEF Recorded, RecordsTypeOK
<1> QED
  BY <1>3, <1>4, <1>5

LEMMA MarkBystander ==
    ASSUME RecordsTypeOK, NEW s \in Services, mark_service_ready(s) \/ mark_service_failed(s)
    PROVE  Recorded(services') = Recorded(services) /\ (Alive(run') <=> Alive(run))
<1>1. CASE mark_service_failed(s)
  BY <1>1, StoreBystander, StateNames DEF mark_service_failed
<1>2. CASE mark_service_ready(s)
  <2>1. \A h \in Handles : [state |-> "Ready", last_failure |-> "none", health |-> h] \in ServiceRecord
    BY StateNames DEF ServiceRecord
  <2>2. ASSUME NEW h \in Handles, services[s] # NoRecord,
               StoreAndRecompute([services EXCEPT
                   ![s] = [state |-> "Ready", last_failure |-> "none", health |-> h]])
        PROVE  Recorded(services') = Recorded(services) /\ (Alive(run') <=> Alive(run))
    <3> DEFINE r == [state |-> "Ready", last_failure |-> "none", health |-> h]
    <3>1. r \in ServiceRecord /\ StoreAndRecompute([services EXCEPT ![s] = r])
      BY <2>1, <2>2
    <3> HIDE DEF r
    <3> QED
      BY <2>2, <3>1, StoreBystander
  <2> QED
    BY <1>2, <2>2, StoreBystander, StateNames DEF mark_service_ready
<1> QED
  BY <1>1, <1>2

LEMMA RestartKeepsProcesses ==
    ASSUME UnitsTypeOK, NEW s \in Services, restart_unit(s)
    PROVE  Processes' \subseteq Processes
BY RestartUnitType DEF Processes

LEMMA MonitorSerial ==
    ASSUME TypeOK, SerialInv, NEW m \in Handles, Monitor(m)
    PROVE  SerialInv'
<1> USE DEF TypeOK
<1> DEFINE s == monitor[m].svc
<1>1. monitor[m].pc # "none" => s \in Services
  BY DEF HandlesTypeOK
<1>2. UNCHANGED <<launch, down>>
  BY DEF Monitor, start_health_monitor, MonitorStops, MonitorProbes, ProbeSucceeded,
     ProbeFailed, MonitorRestarts, MonitorRestartsUnit, RestartLimitExceeded, commands
<1>3. Processes' \subseteq Processes
  <2>1. CASE MonitorRestartsUnit(m)
    BY <1>1, <2>1, RestartKeepsProcesses DEF MonitorRestartsUnit
  <2>2. CASE UNCHANGED unit
    BY <2>2 DEF Processes
  <2> QED
    BY <2>1, <2>2 DEF Monitor, start_health_monitor, MonitorStops, MonitorProbes,
       ProbeSucceeded, ProbeFailed, MonitorRestarts, RestartLimitExceeded
<1>4. Recorded(services') = Recorded(services) /\ (Alive(run') <=> Alive(run))
  <2>1. CASE UNCHANGED <<run, services>>
    BY <2>1
  <2>2. ASSUME StoreAndRecompute(services)
        PROVE  Recorded(services') = Recorded(services) /\ (Alive(run') <=> Alive(run))
    BY <2>2, StoreBystander
  <2>3. ASSUME monitor[m].pc # "none", NEW st \in ServiceState, NEW f \in Failure,
               StoreAndRecompute(SetState(s, st, f))
        PROVE  Recorded(services') = Recorded(services) /\ (Alive(run') <=> Alive(run))
    BY <1>1, <2>3, StoreBystander
  <2>4. CASE ProbeSucceeded(m) \/ ProbeFailed(m)
    BY <2>1, <2>2, <2>3, <2>4, StateNames DEF ProbeSucceeded, ProbeFailed, MarkDegraded,
       RecoverToReady
  <2>5. CASE MonitorRestarts(m) \/ RestartLimitExceeded(m)
    BY <2>1, <2>3, <2>5, StateNames DEF MonitorRestarts, RestartLimitExceeded, MarkRestarting
  <2> QED
    BY <2>1, <2>4, <2>5 DEF Monitor, start_health_monitor, MonitorStops, MonitorProbes,
       MonitorRestartsUnit
<1> QED
  BY <1>2, <1>3, <1>4, BystanderStep

LEMMA ServiceSerial ==
    ASSUME TypeOK, SerialInv, NEW s \in Services,
           RestartBegin(s) \/ RestartUnit(s) \/ spawn_readiness_task(s) \/ UnitFails(s)
    PROVE  SerialInv'
<1> USE DEF TypeOK
<1>1. UNCHANGED <<launch, down>>
  BY DEF RestartBegin, RestartUnit, spawn_readiness_task, UnitFails, commands
<1>2. Processes' \subseteq Processes
  <2>1. CASE RestartUnit(s)
    BY <2>1, RestartKeepsProcesses DEF RestartUnit
  <2>2. CASE UnitFails(s)
    BY <2>2 DEF UnitFails, Processes, UnitsTypeOK
  <2>3. CASE RestartBegin(s) \/ spawn_readiness_task(s)
    BY <2>3 DEF RestartBegin, spawn_readiness_task, Processes
  <2> QED
    BY <2>1, <2>2, <2>3
<1>3. Recorded(services') = Recorded(services) /\ (Alive(run') <=> Alive(run))
  <2>1. CASE RestartBegin(s)
    BY <2>1, StoreBystander, StateNames DEF RestartBegin, MarkRestarting
  <2>2. CASE spawn_readiness_task(s)
    BY <2>2, MarkBystander DEF spawn_readiness_task
  <2> QED
    BY <2>1, <2>2 DEF RestartUnit, UnitFails
<1> QED
  BY <1>1, <1>2, <1>3, BystanderStep

LEMMA DownSerial ==
    ASSUME TypeOK, SerialInv, Serial,
           DownStep \/ run_gc \/ \E purge \in BOOLEAN : stop_service_handles(purge)
    PROVE  SerialInv'
<1> USE DEF TypeOK
<1>1. launch' = launch
  BY DEF DownStep, DownList, DownStopUnit, DownRefused, DownMarkStopped, DownPurge, run_gc,
     stop_service_handles, commands
<1>2. Current' = Current /\ Missing' = Missing /\ (LaunchIdle' <=> LaunchIdle)
  BY <1>1 DEF Current, Missing, LaunchIdle
<1>3. down \in Down /\ IdleDown.pc = "idle"
  BY DEF CommandsTypeOK, IdleDown
<1>4. CASE \E purge \in BOOLEAN : stop_service_handles(purge)
  <2>1. /\ LaunchIdle /\ down'.pc = "list" /\ UNCHANGED <<run, unit>>
        /\ \A s \in Services : services'[s] = IF services[s] = NoRecord THEN NoRecord
                                       ELSE [services[s] EXCEPT !.health = NoHandle]
    BY <1>4 DEF stop_service_handles, Send
  <2>2. \A s \in Services : services[s] # NoRecord =>
           [services[s] EXCEPT !.health = NoHandle] \in ServiceRecord
    BY DEF RecordsTypeOK, ServiceRecord
  <2>3. Recorded(services') = Recorded(services)
    BY <2>1, <2>2, NoneAssumption DEF Recorded
  <2> QED
    BY <1>1, <1>2, <2>1, <2>3 DEF SerialInv, Processes, LaunchIdle
<1>5. CASE DownList
  <2>1. /\ down.pc = "list" /\ UNCHANGED <<run, services, unit>>
        /\ \/ down' = IdleDown
           \/ down' = [down EXCEPT !.pc = "stop", !.todo = Recorded(services)]
    BY <1>5 DEF DownList
  <2>2. down'.pc = "idle" \/ (down'.pc = "stop" /\ down'.todo = Recorded(services))
    BY <1>3, <2>1 DEF Down
  <2> QED
    BY <1>1, <1>2, <2>1, <2>2 DEF SerialInv, Processes, LaunchIdle
<1>6. CASE \E s \in Services : DownStopUnit(s)
  <2>1. PICK s \in Services : DownStopUnit(s)
    BY <1>6
  <2>2. /\ down.pc = "stop" /\ down' = [down EXCEPT !.todo = down.todo \ {s}]
        /\ UNCHANGED <<run, services>> /\ unit' = [unit EXCEPT ![s] = "absent"]
    BY <2>1 DEF DownStopUnit
  <2>3. down'.pc = "stop" /\ down'.todo = down.todo \ {s}
    BY <1>3, <2>2 DEF Down
  <2>4. Processes' = Processes \ {s}
    BY <2>2 DEF Processes, UnitsTypeOK
  <2> QED
    BY <1>1, <1>2, <2>2, <2>3, <2>4 DEF SerialInv
<1>7. CASE DownRefused
  BY <1>1, <1>2, <1>3, <1>7 DEF DownRefused, SerialInv, Processes
<1>8. CASE DownMarkStopped
  <2>1. /\ down.pc = "stop" /\ down.todo = {} /\ unit' = unit
        /\ run' = [state |-> "Stopped", stopped_at |-> TRUE]
        /\ down' = [down EXCEPT !.pc = "purge"] \/ down' = IdleDown
        /\ \A s \in Services : services'[s] = IF services[s] = NoRecord THEN NoRecord
                                       ELSE [services[s] EXCEPT !.state = "Stopped"]
    BY <1>8 DEF DownMarkStopped
  <2>2. down'.pc = "purge" \/ down'.pc = "idle"
    BY <1>3, <2>1 DEF Down
  <2>3. Processes = {} /\ Processes' = {} /\ LaunchIdle
    BY <2>1 DEF SerialInv, Processes
  <2> QED
    BY <1>1, <1>2, <2>2, <2>3 DEF SerialInv
<1>9. CASE DownPurge
  <2>1. Processes' = {} /\ LaunchIdle /\ down'.pc = "idle"
    BY <1>3, <1>9 DEF DownPurge, SerialInv, Processes
  <2> QED
    BY <1>1, <1>2, <2>1 DEF SerialInv
<1>10. CASE run_gc
  <2>1. Processes' = {} /\ LaunchIdle /\ down' = down
    BY <1>10 DEF run_gc, SerialInv, Processes, Alive, commands
  <2> QED
    BY <1>1, <1>2, <2>1 DEF SerialInv
<1> QED
  BY <1>4, <1>5, <1>6, <1>7, <1>8, <1>9, <1>10 DEF DownStep

LEMMA AdvanceFields ==
    ASSUME launch \in Launch, NEW s
    PROVE  /\ Advance(s).pc = "next" /\ Advance(s).existing = launch.existing \ {s}
BY DEF Launch, Advance

LEMMA ReplaceRecorded ==
    ASSUME RecordsTypeOK, NEW s \in Services, NEW st \in ServiceState, NEW f \in Failure,
           replace_service_record(s, st, f)
    PROVE  Recorded(services') = Recorded(services) \cup {s}
BY ReplaceType DEF Recorded

\* A launch that has ended leaves every process recorded.
LEMMA LaunchEnds ==
    ASSUME SerialInv, ~LaunchIdle, LaunchIdle', Processes' \subseteq Processes, down' = down,
           Recorded(services') = Recorded(services), Alive(run') <=> Alive(run),
           launch.pc = "store" => Current \in Recorded(services)
    PROVE  SerialInv'
<1>1. down.pc = "idle" /\ Alive(run)
  BY DEF SerialInv
<1>2. launch'.pc \notin {"store", "unlink"}
  BY DEF LaunchIdle
<1> QED
  BY <1>1, <1>2 DEF SerialInv

\* A launch that goes on, past the removal of services.
LEMMA LaunchGoesOn ==
    ASSUME SerialInv, ~LaunchIdle, launch'.pc \in {"update", "next", "proxy", "await"}, down' = down,
           launch'.existing \subseteq Recorded(services'), Alive(run'),
           Processes' \subseteq Recorded(services')
    PROVE  SerialInv'
<1>1. down.pc = "idle" /\ Alive(run)
  BY DEF SerialInv
<1> QED
  BY <1>1 DEF SerialInv

LEMMA LaunchSerial ==
    ASSUME TypeOK, SerialInv, LaunchStep
    PROVE  SerialInv'
<1> USE DEF TypeOK
<1>1. down' = down /\ launch \in Launch
  BY DEF CommandsTypeOK, LaunchStep, refresh_run, RemoveMissingUnit,
     remove_services_missing_from_stack, update_run_launch_resources, sync_unchanged_service,
     record_failed_init_service, start_prepared_service, store_service_launch_result,
     CaptureProxyFailed, handle_readiness, wait_for_prepared_service, finalize_run_launch,
     LaunchError
<1>2. ~LaunchIdle
  BY DEF LaunchIdle, LaunchStep, refresh_run, RemoveMissingUnit,
     remove_services_missing_from_stack, update_run_launch_resources, sync_unchanged_service,
     record_failed_init_service, start_prepared_service, store_service_launch_result,
     CaptureProxyFailed, handle_readiness, wait_for_prepared_service, finalize_run_launch,
     LaunchError
<1>3. down.pc = "idle" /\ Alive(run) /\ launch.existing \subseteq Recorded(services)
  BY <1>2 DEF SerialInv
<1>4. launch.pc # "store" => Processes \subseteq Recorded(services)
  BY DEF SerialInv
<1>5. CASE refresh_run
  <2>1. /\ launch'.pc = "unlink" /\ launch'.existing = Recorded(services)
        /\ launch'.unlink = Recorded(services) \ launch.todo /\ launch'.todo = launch.todo
        /\ UNCHANGED <<run, services, unit>>
    BY <1>1, <1>5 DEF refresh_run, Launch
  <2>2. Missing' = launch'.unlink
    BY <2>1 DEF Missing
  <2>3. Processes' \subseteq Recorded(services)
    BY <1>4, <1>5 DEF refresh_run, Processes
  <2> QED
    BY <1>1, <1>3, <2>1, <2>2, <2>3 DEF SerialInv
<1>6. CASE \E s \in Services : RemoveMissingUnit(s)
  <2>1. PICK s \in Services : RemoveMissingUnit(s)
    BY <1>6
  <2>2. /\ launch.pc = "unlink" /\ unit' = [unit EXCEPT ![s] = "absent"]
        /\ UNCHANGED <<run, services>>
        /\ launch'.pc = "unlink" /\ launch'.existing = launch.existing
        /\ launch'.todo = launch.todo /\ launch'.unlink = launch.unlink \ {s}
    BY <1>1, <2>1 DEF RemoveMissingUnit, Launch
  <2>3. Processes' = Processes \ {s} /\ Missing' = Missing
    BY <2>2 DEF Processes, UnitsTypeOK, Missing
  <2> QED
    BY <1>1, <1>3, <2>2, <2>3 DEF SerialInv
<1>7. CASE remove_services_missing_from_stack
  <2>1. /\ launch.pc = "unlink" /\ launch.unlink = {} /\ unit' = unit
        /\ launch'.pc = "update" /\ launch'.existing = launch.existing \ Missing
    BY <1>1, <1>7 DEF remove_services_missing_from_stack, Launch, Missing
  <2>2. Processes' = Processes /\ Processes \cap Missing = {}
    BY <2>1 DEF Processes, SerialInv
  <2>3. Recorded(services') = Recorded(services) \ Missing /\ Alive(run')
    <3>1. CASE Missing = {}
      BY <1>3, <1>7, <3>1 DEF remove_services_missing_from_stack
    <3>2. CASE Missing # {}
      <4>1. StoreAndRecompute([s \in Services |-> IF s \in Missing THEN NoRecord ELSE services[s]])
        BY <1>7, <3>2 DEF remove_services_missing_from_stack
      <4> HIDE DEF Missing
      <4>2. Alive(run')
        BY <1>3, <4>1, RecomputeAlive DEF StoreAndRecompute, RecordsTypeOK
      <4> QED
        BY <4>1, <4>2 DEF StoreAndRecompute, Recorded
    <3> QED
      BY <3>1, <3>2
  <2> HIDE DEF Missing
  <2> QED
    BY <1>1, <1>2, <1>3, <1>4, <2>1, <2>2, <2>3, LaunchGoesOn
<1>8. CASE update_run_launch_resources
  <2>1. /\ launch.pc = "update" /\ launch'.pc = "next" /\ launch'.existing = launch.existing
        /\ run' = run /\ UNCHANGED <<services, unit>>
    BY <1>1, <1>3, <1>8 DEF update_run_launch_resources, Launch, Alive
  <2> QED
    BY <1>1, <1>2, <1>3, <1>4, <2>1, LaunchGoesOn DEF Processes
<1>9. CASE sync_unchanged_service
  <2>1. /\ launch.pc = "next" /\ launch' = Advance(Current)
        /\ UNCHANGED <<run, services, unit>>
    BY <1>9 DEF sync_unchanged_service
  <2>2. launch'.pc = "next" /\ launch'.existing \subseteq launch.existing
    BY <1>1, <2>1, AdvanceFields
  <2> QED
    BY <1>1, <1>2, <1>3, <1>4, <2>1, <2>2, LaunchGoesOn DEF Processes
<1>10. CASE record_failed_init_service \/ store_service_launch_result
  <2>1. Current \in Services
    BY <1>10, CurrentIsService
       DEF record_failed_init_service, store_service_launch_result, CommandsTypeOK
  <2>2. Recorded(services') = Recorded(services) \cup {Current}
    BY <1>10, <2>1, ReplaceRecorded, StateNames
       DEF record_failed_init_service, store_service_launch_result
  <2>3. UNCHANGED <<run, unit>>
    BY <1>10 DEF record_failed_init_service, store_service_launch_result
  <2>4. launch' = Advance(Current) \/ launch' = [launch EXCEPT !.pc = "proxy"]
    BY <1>10 DEF record_failed_init_service, store_service_launch_result
  <2>5. launch'.pc \in {"next", "proxy"} /\ launch'.existing \subseteq launch.existing
    <3>1. CASE launch' = Advance(Current)
      BY <1>1, <3>1, AdvanceFields
    <3>2. CASE launch' = [launch EXCEPT !.pc = "proxy"]
      BY <1>1, <3>2 DEF Launch
    <3> QED
      BY <2>4, <3>1, <3>2
  <2>6. Processes' \subseteq Recorded(services')
    BY <2>2, <2>3 DEF Processes, SerialInv
  <2> QED
    BY <1>1, <1>2, <1>3, <2>2, <2>3, <2>5, <2>6, LaunchGoesOn
<1>11. CASE \E ok \in BOOLEAN : start_prepared_service(ok)
  <2>1. PICK ok \in BOOLEAN : start_prepared_service(ok)
    BY <1>11
  <2>2. /\ launch.pc = "next" /\ UNCHANGED <<run, services>>
        /\ unit' = [unit EXCEPT ![Current] = IF ok THEN "active" ELSE "absent"]
        /\ launch' = [launch EXCEPT !.pc = "store", !.start_ok = ok]
    BY <2>1 DEF start_prepared_service
  <2>3. launch'.pc = "store" /\ launch'.existing = launch.existing /\ launch'.todo = launch.todo
    BY <1>1, <2>2 DEF Launch
  <2>4. Current' = Current
    BY <2>3 DEF Current
  <2>5. Processes' \subseteq Processes \cup {Current}
    BY <2>2 DEF Processes, UnitsTypeOK
  <2> HIDE DEF Current
  <2> QED
    BY <1>1, <1>3, <1>4, <2>2, <2>3, <2>4, <2>5 DEF SerialInv
<1>12. CASE CaptureProxyFailed \/ wait_for_prepared_service
  <2>1. /\ launch.pc \in {"proxy", "await"} /\ unit' = unit
        /\ \/ launch' = [IdleLaunch EXCEPT !.pc = "failed"]
           \/ launch' = Advance(Current)
    BY <1>12 DEF CaptureProxyFailed, wait_for_prepared_service
  <2>2. Recorded(services') = Recorded(services) /\ (Alive(run') <=> Alive(run))
    BY <1>12, CurrentIsService, MarkBystander
       DEF CaptureProxyFailed, wait_for_prepared_service, CommandsTypeOK
  <2>3. Processes' = Processes
    BY <2>1 DEF Processes
  <2>4. CASE launch' = [IdleLaunch EXCEPT !.pc = "failed"]
    BY <1>1, <1>2, <2>1, <2>2, <2>3, <2>4, LaunchEnds, IdleLaunchType DEF LaunchIdle
  <2>5. CASE launch' = Advance(Current)
    <3>1. launch'.pc = "next" /\ launch'.existing \subseteq launch.existing
      BY <1>1, <2>5, AdvanceFields
    <3> QED
      BY <1>1, <1>2, <1>3, <1>4, <2>1, <2>2, <2>3, <3>1, LaunchGoesOn
  <2> QED
    BY <2>1, <2>4, <2>5
<1>13. CASE handle_readiness
  <2>1. /\ launch.pc = "proxy" /\ UNCHANGED <<run, services, unit>>
        /\ launch' = [launch EXCEPT !.pc = "await"] \/ launch' = Advance(Current)
    BY <1>13 DEF handle_readiness
  <2>2. launch'.pc \in {"next", "await"} /\ launch'.existing \subseteq launch.existing
    <3>1. CASE launch' = Advance(Current)
      BY <1>1, <3>1, AdvanceFields
    <3>2. CASE launch' = [launch EXCEPT !.pc = "await"]
      BY <1>1, <3>2 DEF Launch
    <3> QED
      BY <2>1, <3>1, <3>2
  <2> QED
    BY <1>1, <1>2, <1>3, <1>4, <2>1, <2>2, LaunchGoesOn DEF Processes
<1>14. CASE finalize_run_launch
  <2>1. launch.pc = "next" /\ launch'.pc = "idle" /\ unit' = unit /\ StoreAndRecompute(services)
    BY <1>14, IdleLaunchType DEF finalize_run_launch
  <2>2. Recorded(services') = Recorded(services) /\ (Alive(run') <=> Alive(run))
    BY <2>1, StoreBystander
  <2> QED
    BY <1>1, <1>2, <2>1, <2>2, LaunchEnds DEF LaunchIdle, Processes
<1>15. CASE LaunchError
  <2>1. /\ launch'.pc = "failed" /\ UNCHANGED <<run, services, unit>>
        /\ launch.pc = "store" => run = NoRun \/ Current \in launch.existing
    BY <1>15, IdleLaunchType DEF LaunchError
  <2>2. launch.pc = "store" => Current \in Recorded(services)
    BY <1>3, <2>1 DEF Alive
  <2> QED
    BY <1>1, <1>2, <2>1, <2>2, LaunchEnds DEF LaunchIdle, Processes
<1> QED
  BY <1>5, <1>6, <1>7, <1>8, <1>9, <1>10, <1>11, <1>12, <1>13, <1>14, <1>15 DEF LaunchStep

LEMMA SerialStep ==
    ASSUME TypeOK, NoQuery, SerialInv, Serial, [Next]_vars
    PROVE  SerialInv'
<1>1. CASE UNCHANGED <<run, services, unit, launch, down>>
  BY <1>1, BystanderStep DEF Processes
<1>2. CASE \/ \E wait \in BOOLEAN : create_run_record(wait)
           \/ \E plan \in SUBSET Services \ {{}}, wait \in BOOLEAN :
                find_latest_run_for_project_stack(plan, wait)
  <2>1. /\ LaunchIdle /\ down.pc = "idle" /\ UNCHANGED <<services, unit, down>>
        /\ launch'.pc \in {"next", "found"} /\ launch'.existing = {}
    BY <1>2 DEF create_run_record, find_latest_run_for_project_stack, Send, IdleLaunch
  <2>2. Alive(run')
    <3> DEFINE new == [state |-> "Starting", stopped_at |-> FALSE]
    <3>1. new \in Run /\ new.state = "Starting"
      BY StateNames DEF Run
    <3>2. run' = new \/ (run' = run /\ run # NoRun /\ run.state # "Stopped")
      BY <1>2 DEF create_run_record, find_latest_run_for_project_stack
    <3> HIDE DEF new
    <3> QED
      BY <3>1, <3>2, NoneAssumption DEF Alive
  <2>3. Processes' \subseteq Recorded(services')
    BY <2>1 DEF SerialInv, LaunchIdle, Processes
  <2> QED
    BY <2>1, <2>2, <2>3 DEF SerialInv
<1>3. CASE reconcile_run \/ \E s \in Services : unit_status(s)
  BY <1>3 DEF reconcile_run, unit_status, NoQuery
<1>4. CASE UNCHANGED vars \/ build_status
  BY <1>1, <1>4 DEF vars, build_status
<1> QED
  BY <1>2, <1>3, <1>4, LaunchSerial, DownSerial, MonitorSerial, ServiceSerial DEF Next

(***************************************************************************)
(* When clients send up and down one at a time, a run marked stopped has   *)
(* no process left, whatever restarts, monitors, readiness tasks and gc    *)
(* did in the meantime, as long as no status query writes back what it     *)
(* derived earlier.                                                        *)
(***************************************************************************)
THEOREM StoppedMeansStopped ==
    ASSUME Serial, "status" \notin Commands
    PROVE  Spec => []StoppedRunHasNoProcess
<1>1. Init => SerialInv
  <2> SUFFICES ASSUME Init PROVE SerialInv
    OBVIOUS
  <2>1. Processes = {} /\ launch.pc = "idle" /\ down.pc = "idle"
    BY DEF Init, Processes, IdleLaunch, IdleDown
  <2> QED
    BY <2>1 DEF SerialInv, LaunchIdle
<1>2. TypeOK /\ NoQuery /\ SerialInv /\ [Next]_vars => SerialInv'
  BY SerialStep
<1>3. SerialInv => StoppedRunHasNoProcess
  BY SerialInvMeaning
<1> QED
  BY <1>1, <1>2, <1>3, TypeCorrect, NoQueryInvariant, PTL DEF Spec
=============================================================================
