----------------------------- MODULE TaskRunner -----------------------------
(***************************************************************************)
(* Tasks: detached executions that clients start over the API and that the *)
(* task store keeps (app/commands/tasks.rs, stores/tasks.rs), and the init *)
(* and post_init phases of a service (services/tasks).  Both run a command *)
(* with run_task and append its end to a history file that is read and     *)
(* rewritten without a lock.                                               *)
(*                                                                         *)
(* A runner is a request of a client or the phase worker.  Each time stamp *)
(* is a new value of a logical clock.  Output of the commands and their    *)
(* environment are left out; the watched files of a task are a version     *)
(* number that edits increase.                                             *)
(***************************************************************************)
EXTENDS Naturals, Sequences, FiniteSets, Functions

CONSTANTS
    TaskNames,
    Requests,       \* requests for a detached execution; also execution ids
    PhaseWorker,    \* the worker that runs the phases of services
    TaskScopes,     \* runs, and the ad hoc scope of a project without one
    PhaseTasks,     \* the task list of a phase
    WatchedTasks,   \* tasks with watched files
    MaxEdits, MaxExecutions,
    NoTask

ASSUME TaskAssumption ==
    /\ PhaseWorker \notin Requests /\ NoTask \notin TaskNames \cup TaskScopes \cup Nat
    /\ Requests \cap (Nat \X Nat) = {}
    /\ PhaseTasks \in Seq(TaskNames) /\ WatchedTasks \subseteq TaskNames
    /\ MaxEdits \in Nat /\ MaxExecutions \in Nat

VARIABLES
    taskRec,       \* TaskStore: request -> execution record or NoTask
    job,         \* runner -> where it is
    phase,       \* the phase worker's loop
    history,     \* scope -> the history file
    watchHash,   \* task -> the hash file (a version) or NoTask
    content,     \* task -> version of the watched files
    taskEvents,  \* request -> events emitted for it
    taskClock,
    built,       \* ghost: versions a successful phase execution has read
    ended,       \* ghost: executions that ended with an entry or a verdict
    overlapped,  \* ghost: executions whose append overlapped another one
    raced        \* ghost: requests checked before a rival was added

taskVars == <<taskRec, job, phase, history, watchHash, content, taskEvents,
              taskClock, built, ended, overlapped, raced>>

Runners == Requests \cup {PhaseWorker}

IdleJob == [at |-> "idle", task |-> NoTask, scope |-> NoTask, started |-> 0,
            finished |-> 0, ok |-> FALSE, seen |-> 0, snap |-> <<>>]

IdlePhase == [at |-> "idle", next |-> 1, skip |-> FALSE, hash |-> 0, count |-> 0]

TaskInit ==
    /\ taskRec = [e \in Requests |-> NoTask]
    /\ job = [x \in Runners |-> IdleJob]
    /\ phase = IdlePhase
    /\ history = [s \in TaskScopes |-> <<>>]
    /\ watchHash = [t \in TaskNames |-> NoTask]
    /\ content = [t \in TaskNames |-> 1]
    /\ taskEvents = [e \in Requests |-> <<>>]
    /\ taskClock = 1
    /\ built = [t \in TaskNames |-> {}]
    /\ ended = {} /\ overlapped = {} /\ raced = {}

\* The values the variables take.
ExecutionIds == Requests \cup (Nat \X Nat)

TaskEntry == [id : ExecutionIds, task : TaskNames, started : Nat, finished : Nat, ok : BOOLEAN]

TaskExecution == [task : TaskNames, scope : TaskScopes, started : Nat,
                  state : {"running", "completed", "failed"}]

Job == [at : {"idle", "refused", "checked", "spawn", "running", "loaded", "returned",
              "error", "updated", "done"},
        task : TaskNames \cup {NoTask}, scope : TaskScopes \cup {NoTask},
        started : Nat, finished : Nat, ok : BOOLEAN, seen : Nat, snap : Seq(TaskEntry)]

Phase == [at : {"idle", "next", "run"}, next : Nat \ {0}, skip : BOOLEAN, hash : Nat, count : Nat]

TaskTypeOK ==
    /\ taskRec \in [Requests -> TaskExecution \cup {NoTask}]
    /\ job \in [Runners -> Job]
    /\ phase \in Phase
    /\ history \in [TaskScopes -> Seq(TaskEntry)]
    /\ watchHash \in [TaskNames -> Nat \cup {NoTask}]
    /\ content \in [TaskNames -> Nat]
    /\ taskEvents \in [Requests -> Seq({"started", "running", "completed", "failed"})]
    /\ taskClock \in Nat
    /\ built \in [TaskNames -> SUBSET Nat]
    /\ ended \subseteq TaskScopes \X TaskEntry
    /\ overlapped \subseteq ExecutionIds
    /\ raced \subseteq Requests

Executions == Cardinality({e \in Requests : job[e].at # "idle"}) + phase.count

\* The name of the execution a runner is in.
Execution(x) == IF x = PhaseWorker THEN <<phase.count, phase.next>> ELSE x

-----------------------------------------------------------------------------
(***************************************************************************)
(* Faulty variant: an execution of another run counts, one of the same run *)
(* does not.                                                               *)
(***************************************************************************)
HasRunningElsewhere(t, s) ==
    \E e \in Requests : /\ taskRec[e] # NoTask /\ taskRec[e].state = "running"
                        /\ taskRec[e].task = t /\ taskRec[e].scope # s

has_running_task(t, s) ==
    \E e \in Requests : /\ taskRec[e] # NoTask /\ taskRec[e].state = "running"
                        /\ taskRec[e].task = t /\ taskRec[e].scope = s

(***************************************************************************)
(* start_task: the run of the task is looked up (any, as runs come and     *)
(* go), the start is stamped, and whether the task is running is asked of  *)
(* the store; the execution is added under the lock taken again.  The last *)
(* step emits the event and spawns the worker.                             *)
(***************************************************************************)
CheckDuplicate(e, t, s) ==
    /\ job[e].at = "idle" /\ Executions < MaxExecutions
    /\ job' = [job EXCEPT ![e] =
           [IdleJob EXCEPT !.at = IF has_running_task(t, s) THEN "refused" ELSE "checked",
                           !.task = t, !.scope = s, !.started = taskClock]]
    /\ taskClock' = taskClock + 1
    /\ UNCHANGED <<taskRec, phase, history, watchHash, content, taskEvents,
                   built, ended, overlapped, raced>>

SameKey(x, y) == job[x].task = job[y].task /\ job[x].scope = job[y].scope

add_task(e) ==
    /\ job[e].at = "checked"
    /\ taskRec' = [taskRec EXCEPT ![e] = [task |-> job[e].task, scope |-> job[e].scope,
                                      state |-> "running", started |-> job[e].started]]
    /\ taskEvents' = [taskEvents EXCEPT ![e] = Append(@, "started")]
    /\ job' = [job EXCEPT ![e].at = "spawn"]
    /\ raced' = raced \cup {f \in Requests \ {e} : job[f].at = "checked" /\ SameKey(e, f)}
    /\ UNCHANGED <<phase, history, watchHash, content, taskClock, built, ended, overlapped>>

-----------------------------------------------------------------------------
(***************************************************************************)
(* run_task: spawn the command, wait for its end, append to the history.   *)
(* An error at any of these is the result of the call.                     *)
(***************************************************************************)
SpawnTask(x) ==
    /\ job[x].at = "spawn"
    /\ job' = [job EXCEPT ![x].at = "running", ![x].started = taskClock,
                          ![x].seen = content[job[x].task]]
    /\ taskClock' = taskClock + 1
    /\ UNCHANGED <<taskRec, phase, history, watchHash, content, taskEvents,
                   built, ended, overlapped, raced>>

(***************************************************************************)
(* The command ends and append_task_execution reads the file; then it adds *)
(* an entry to what it read and replaces the file.                         *)
(***************************************************************************)
TaskExits(x, ok) ==
    /\ job[x].at = "running"
    /\ job' = [job EXCEPT ![x].at = "loaded", ![x].ok = ok, ![x].finished = taskClock,
                          ![x].snap = history[job[x].scope]]
    /\ built' = IF ok /\ x = PhaseWorker
                  THEN [built EXCEPT ![job[x].task] = @ \cup {job[x].seen}] ELSE built
    /\ taskClock' = taskClock + 1
    /\ UNCHANGED <<taskRec, phase, history, watchHash, content, taskEvents,
                   ended, overlapped, raced>>

Entry(x) == [id |-> Execution(x), task |-> job[x].task, started |-> job[x].started,
             finished |-> job[x].finished, ok |-> job[x].ok]

Rivals(x) == {y \in Runners \ {x} : job[y].at = "loaded" /\ job[y].scope = job[x].scope}

append_task_execution(x) ==
    /\ job[x].at = "loaded"
    /\ history' = [history EXCEPT ![job[x].scope] = Append(job[x].snap, Entry(x))]
    /\ ended' = ended \cup {<<job[x].scope, Entry(x)>>}
    /\ overlapped' = IF Rivals(x) = {} THEN overlapped
                     ELSE overlapped \cup {Execution(y) : y \in Rivals(x) \cup {x}}
    /\ job' = [job EXCEPT ![x].at = "returned", ![x].snap = <<>>]
    /\ UNCHANGED <<taskRec, phase, watchHash, content, taskEvents, taskClock, built, raced>>

\* The command does not start, or the history cannot be read or written.
TaskError(x) ==
    /\ job[x].at \in {"spawn", "loaded"}
    /\ job' = [job EXCEPT ![x].at = "error", ![x].snap = <<>>]
    /\ UNCHANGED <<taskRec, phase, history, watchHash, content, taskEvents, taskClock,
                   built, ended, overlapped, raced>>

-----------------------------------------------------------------------------
(***************************************************************************)
(* Faulty variant: an error of run_task ends the worker.                   *)
(***************************************************************************)
UpdateUnlessError(e) ==
    /\ job[e].at \in {"returned", "error"}
    /\ taskRec' = IF job[e].at = "error" THEN taskRec
                ELSE [taskRec EXCEPT ![e].state = IF job[e].ok THEN "completed" ELSE "failed"]
    /\ job' = [job EXCEPT ![e].at = IF @ = "error" THEN "done" ELSE "updated"]
    /\ UNCHANGED <<phase, history, watchHash, content, taskEvents, taskClock,
                   built, ended, overlapped, raced>>

(***************************************************************************)
(* execute_detached_task: the exit code decides the state, an error means  *)
(* Failed; the log is ingested, whose errors are ignored; then the event.  *)
(***************************************************************************)
update_task_state(e) ==
    /\ job[e].at \in {"returned", "error"}
    /\ taskRec' = [taskRec EXCEPT ![e].state =
                     IF job[e].at = "returned" /\ job[e].ok THEN "completed" ELSE "failed"]
    /\ job' = [job EXCEPT ![e].at = "updated"]
    /\ UNCHANGED <<phase, history, watchHash, content, taskEvents, taskClock,
                   built, ended, overlapped, raced>>

AnnounceEnd(e) ==
    /\ job[e].at = "updated"
    /\ taskEvents' = [taskEvents EXCEPT ![e] = Append(@, taskRec[e].state)]
    /\ job' = [job EXCEPT ![e].at = "done"]
    /\ UNCHANGED <<taskRec, phase, history, watchHash, content, taskClock,
                   built, ended, overlapped, raced>>

-----------------------------------------------------------------------------
(***************************************************************************)
(* run_service_tasks: init skips a watched task whose hash is the stored   *)
(* one, post_init never skips.  The hash is taken before the task runs and *)
(* stored after its success; a failure ends the phase.                     *)
(***************************************************************************)
BeginPhase(skip, s) ==
    /\ phase.at = "idle" /\ Executions < MaxExecutions
    /\ phase' = [IdlePhase EXCEPT !.at = "next", !.skip = skip, !.count = phase.count + 1]
    /\ job' = [job EXCEPT ![PhaseWorker] = [IdleJob EXCEPT !.scope = s]]
    /\ UNCHANGED <<taskRec, history, watchHash, content, taskEvents, taskClock,
                   built, ended, overlapped, raced>>

Hashed(t) == phase.skip /\ t \in WatchedTasks

PhaseStep ==
    /\ phase.at = "next" /\ phase.next <= Len(PhaseTasks)
    /\ LET t == PhaseTasks[phase.next] IN
         \/ /\ Hashed(t) /\ watchHash[t] = content[t]
            /\ phase' = [phase EXCEPT !.next = @ + 1]
            /\ UNCHANGED job
         \/ /\ ~(Hashed(t) /\ watchHash[t] = content[t])
            /\ phase' = [phase EXCEPT !.at = "run", !.hash = content[t]]
            /\ job' = [job EXCEPT ![PhaseWorker].at = "spawn", ![PhaseWorker].task = t]
    /\ UNCHANGED <<taskRec, history, watchHash, content, taskEvents, taskClock,
                   built, ended, overlapped, raced>>

(***************************************************************************)
(* Faulty variant: the hash that is stored is taken after the task.        *)
(***************************************************************************)
StoreHashOfNow ==
    /\ phase.at = "run" /\ job[PhaseWorker].at = "returned" /\ job[PhaseWorker].ok
    /\ LET t == job[PhaseWorker].task IN
         watchHash' = IF Hashed(t) THEN [watchHash EXCEPT ![t] = content[t]] ELSE watchHash
    /\ phase' = [phase EXCEPT !.at = "next", !.next = @ + 1]
    /\ job' = [job EXCEPT ![PhaseWorker].at = "idle"]
    /\ UNCHANGED <<taskRec, history, content, taskEvents, taskClock,
                   built, ended, overlapped, raced>>

StoreHash ==
    /\ phase.at = "run" /\ job[PhaseWorker].at = "returned" /\ job[PhaseWorker].ok
    /\ LET t == job[PhaseWorker].task IN
         watchHash' = IF Hashed(t) THEN [watchHash EXCEPT ![t] = phase.hash] ELSE watchHash
    /\ phase' = [phase EXCEPT !.at = "next", !.next = @ + 1]
    /\ job' = [job EXCEPT ![PhaseWorker].at = "idle"]
    /\ UNCHANGED <<taskRec, history, content, taskEvents, taskClock,
                   built, ended, overlapped, raced>>

\* The phase is through its list, or a task failed and the rest is not run.
EndPhase ==
    /\ \/ phase.at = "next" /\ phase.next > Len(PhaseTasks)
       \/ /\ phase.at = "run"
          /\ \/ job[PhaseWorker].at = "error"
             \/ job[PhaseWorker].at = "returned" /\ ~job[PhaseWorker].ok
    /\ phase' = [phase EXCEPT !.at = "idle"]
    /\ job' = [job EXCEPT ![PhaseWorker] = IdleJob]
    /\ UNCHANGED <<taskRec, history, watchHash, content, taskEvents, taskClock,
                   built, ended, overlapped, raced>>

EditWatched(t) ==
    /\ content[t] <= MaxEdits
    /\ content' = [content EXCEPT ![t] = @ + 1]
    /\ UNCHANGED <<taskRec, job, phase, history, watchHash, taskEvents, taskClock,
                   built, ended, overlapped, raced>>

RunTask(x) ==
    \/ SpawnTask(x) \/ \E ok \in BOOLEAN : TaskExits(x, ok)
    \/ append_task_execution(x) \/ TaskError(x)

Worker(e) == add_task(e) \/ RunTask(e) \/ update_task_state(e)
             \/ AnnounceEnd(e)

TaskNext ==
    \/ \E e \in Requests, t \in TaskNames, s \in TaskScopes : CheckDuplicate(e, t, s)
    \/ \E e \in Requests : Worker(e)
    \/ \E skip \in BOOLEAN, s \in TaskScopes : BeginPhase(skip, s)
    \/ RunTask(PhaseWorker) \/ PhaseStep \/ StoreHash \/ EndPhase
    \/ \E t \in WatchedTasks : EditWatched(t)

(***************************************************************************)
(* The runtime schedules every spawned task; a command is taken to end,    *)
(* for run_task waits for it without a limit.                              *)
(***************************************************************************)
TaskFairness == \A e \in Requests : WF_taskVars(Worker(e))

TaskSpec == TaskInit /\ [][TaskNext]_taskVars /\ TaskFairness

-----------------------------------------------------------------------------
(***************************************************************************)
(* The list run_tasks shows for a run: of the history the execution that   *)
(* finished last, and of that and the store the one that started last.     *)
(***************************************************************************)
latest_by_task(s, t) ==
    LET of == {h \in Range(history[s]) : h.task = t}
    IN  {[started |-> h.started, ok |-> h.ok] :
            h \in {g \in of : \A o \in of : o.finished <= g.finished}}

task_summary_from_detached(s, t) ==
    {[started |-> taskRec[e].started, ok |-> taskRec[e].state = "completed"] :
        e \in {f \in Requests : taskRec[f] # NoTask /\ taskRec[f].task = t
                                                  /\ taskRec[f].scope = s}}

(***************************************************************************)
(* Faulty variant: detached executions hide what the history says.         *)
(***************************************************************************)
DetachedFirst(s, t) ==
    LET known == IF task_summary_from_detached(s, t) = {}
                   THEN latest_by_task(s, t) ELSE task_summary_from_detached(s, t)
    IN  {k \in known : \A o \in known : o.started <= k.started}

run_tasks(s, t) ==
    LET known == latest_by_task(s, t) \cup task_summary_from_detached(s, t)
    IN  {k \in known : \A o \in known : o.started <= k.started}

-----------------------------------------------------------------------------
(***************************************************************************)
(* A task is executed twice at a time in one scope only if both requests   *)
(* passed has_running_task before either execution was added.              *)
(***************************************************************************)
DuplicateOnlyByRace ==
    \A e, f \in Requests :
        e # f /\ taskRec[e] # NoTask /\ taskRec[f] # NoTask
        /\ taskRec[e].state = "running" /\ taskRec[f].state = "running"
        /\ taskRec[e].task = taskRec[f].task /\ taskRec[e].scope = taskRec[f].scope
        => e \in raced \/ f \in raced

(***************************************************************************)
(* An init task counts as up to date only if an execution that read the    *)
(* present version of its watched files has succeeded, whatever was edited *)
(* while it ran.                                                           *)
(***************************************************************************)
UpToDateMeansBuilt ==
    \A t \in TaskNames : watchHash[t] = content[t] => content[t] \in built[t]

(***************************************************************************)
(* run_tasks shows the verdict of an execution that started after every    *)
(* other one of its task and run had ended, though the history may lack    *)
(* older ones.                                                             *)
(***************************************************************************)
LastVerdictShown ==
    \A s \in TaskScopes, t \in TaskNames :
        LET mine == {x[2] : x \in {y \in ended : y[1] = s /\ y[2].task = t}}
            quiet == \A e \in Requests : job[e].at \in {"idle", "refused", "done"}
            last(x) ==
              /\ x.id \notin overlapped
              /\ \A y \in mine \ {x} : y.finished < x.started
              /\ \A e \in Requests \ {x.id} :
                   taskRec[e] # NoTask /\ taskRec[e].task = t /\ taskRec[e].scope = s
                   => taskRec[e].started < x.started
        IN  quiet => \A x \in mine :
                        last(x) => \A k \in run_tasks(s, t) : k.ok = x.ok

(***************************************************************************)
(* Every execution that was announced as started is announced as ended,    *)
(* whatever fails in run_task: its task can be started again.              *)
(***************************************************************************)
StartedTaskEnds ==
    \A e \in Requests :
        (taskEvents[e] = <<"started">>) ~>
            (Len(taskEvents[e]) = 2 /\ taskRec[e].state # "running")
=============================================================================
