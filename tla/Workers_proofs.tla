--------------------------- MODULE Workers_proofs ---------------------------
(***************************************************************************)
(* Executions of tasks, for any number of requests, tasks, runs and edits, *)
(* and the messages of agent sessions, for any number of agents, messages  *)
(* and polls: each agent's inbox implements a mailbox.                     *)
(***************************************************************************)
EXTENDS TaskRunner, AgentSessions, SequenceTheorems, TLAPS

(***************************************************************************)
(* Where the runners are: a request has a record once it was added, and    *)
(* the phase worker runs a task only in a phase.                           *)
(***************************************************************************)
Unadded == {"idle", "refused", "checked"}

JobInv ==
    /\ \A x \in Runners :
         /\ job[x].started < taskClock
         /\ job[x].at # "idle" => job[x].task \in TaskNames /\ job[x].scope \in TaskScopes
    /\ \A e \in Requests : IF job[e].at \in Unadded THEN taskRec[e] = NoTask
                           ELSE taskRec[e] \in TaskExecution /\ taskRec[e].started < taskClock
    /\ phase.at # "idle" => job[PhaseWorker].scope \in TaskScopes
    /\ IF phase.at = "run" THEN job[PhaseWorker].at \in {"spawn", "running", "loaded", "returned", "error"}
       ELSE job[PhaseWorker].at = "idle"

(***************************************************************************)
(* A request that was checked and not added yet has no running rival of    *)
(* its task and run, unless the rival was added since: it is in raced.     *)
(***************************************************************************)
RunningFor(f, t, s) ==
    /\ taskRec[f] # NoTask /\ taskRec[f].state = "running"
    /\ taskRec[f].task = t /\ taskRec[f].scope = s

RaceInv ==
    \A e, f \in Requests :
        e # f /\ job[e].at = "checked" /\ RunningFor(f, job[e].task, job[e].scope) => e \in raced

(***************************************************************************)
(* The hash of a phase is that of the version its task reads or of an      *)
(* older one, and a stored hash is that of no later version than the       *)
(* present one.                                                            *)
(***************************************************************************)
HashInv ==
    /\ \A t \in TaskNames : watchHash[t] \in Nat => watchHash[t] <= content[t]
    /\ phase.at = "run" =>
         LET j == job[PhaseWorker] IN
         /\ phase.hash <= content[j.task]
         /\ j.at \in {"running", "loaded", "returned"} =>
              phase.hash <= j.seen /\ j.seen <= content[j.task]
         /\ j.at \in {"loaded", "returned"} /\ j.ok => j.seen \in built[j.task]

(***************************************************************************)
(* What ended: the stamps of an execution are in the order of its steps,   *)
(* and a file of the history, like a copy of one in the hands of a runner, *)
(* holds nothing but what ended.                                           *)
(***************************************************************************)
EndedInv ==
    /\ \A x \in Runners : job[x].at = "loaded" => job[x].started < job[x].finished
    /\ \A e \in Requests :
         job[e].at \in {"running", "loaded"} => taskRec[e].started < job[e].started
    /\ \A y \in ended :
         /\ y[2].started < y[2].finished
         /\ y[2].id \in Requests => /\ job[y[2].id].at \in {"returned", "updated", "done"}
                                    /\ taskRec[y[2].id].started < y[2].started
    /\ \A s \in TaskScopes : \A h \in Range(history[s]) : <<s, h>> \in ended
    /\ \A x \in Runners : job[x].at = "loaded" =>
         \A h \in Range(job[x].snap) : <<job[x].scope, h>> \in ended

(***************************************************************************)
(* An execution whose append met no other is in the file of its scope, and *)
(* in every copy from which that file may be written again.                *)
(***************************************************************************)
KeptInv ==
    \A y \in ended : y[2].id \notin overlapped =>
        /\ y[2] \in Range(history[y[1]])
        /\ \A x \in Runners : job[x].at = "loaded" /\ job[x].scope = y[1] => y[2] \in Range(job[x].snap)

TaskInv ==
    /\ TaskTypeOK /\ JobInv /\ RaceInv /\ DuplicateOnlyByRace
    /\ HashInv /\ UpToDateMeansBuilt /\ EndedInv /\ KeptInv

-----------------------------------------------------------------------------
(***************************************************************************)
(* What each step of a runner does to its job.                             *)
(***************************************************************************)
LEMMA IdleJobType == IdleJob \in Job
BY TaskAssumption DEF IdleJob, Job

\* Only the job of x changes; it keeps its task and its scope.
Moves(x) ==
    /\ job' \in [Runners -> Job]
    /\ \A y \in Runners \ {x} : job'[y] = job[y]

Keeps(x) == job'[x].task = job[x].task /\ job'[x].scope = job[x].scope

LEMMA MoveFacts ==
    ASSUME TaskTypeOK, NEW x \in Runners, NEW j \in Job, job' = [job EXCEPT ![x] = j]
    PROVE  Moves(x) /\ job'[x] = j
BY DEF TaskTypeOK, Moves

LEMMA SpawnFacts ==
    ASSUME TaskTypeOK, JobInv, NEW x \in Runners, SpawnTask(x)
    PROVE  /\ Moves(x) /\ Keeps(x)
           /\ job'[x].at = "running" /\ job'[x].started = taskClock
           /\ job'[x].seen = content[job[x].task]
<1>1. content[job[x].task] \in Nat
  BY DEF TaskTypeOK, JobInv, SpawnTask
<1>. DEFINE c == content[job[x].task]
            j == [[[job[x] EXCEPT !.at = "running"] EXCEPT !.started = taskClock] EXCEPT !.seen = c]
<1>2. c \in Nat
  BY <1>1
<1>. HIDE DEF c
<1>3. /\ j \in Job /\ j.at = "running" /\ j.started = taskClock /\ j.seen = c
      /\ j.task = job[x].task /\ j.scope = job[x].scope
  BY <1>2 DEF TaskTypeOK, Job
<1>4. job' = [job EXCEPT ![x] = j]
  BY DEF SpawnTask, c, TaskTypeOK
<1>. HIDE DEF j
<1>5. Moves(x) /\ job'[x] = j
  BY <1>3, <1>4, MoveFacts
<1>. QED
  BY <1>3, <1>5 DEF Keeps, c

LEMMA ExitFacts ==
    ASSUME TaskTypeOK, JobInv, NEW x \in Runners, NEW ok \in BOOLEAN, TaskExits(x, ok)
    PROVE  /\ Moves(x) /\ Keeps(x)
           /\ job'[x].at = "loaded" /\ job'[x].ok = ok /\ job'[x].finished = taskClock
           /\ job'[x].snap = history[job[x].scope]
           /\ job'[x].started = job[x].started /\ job'[x].seen = job[x].seen
<1>. DEFINE c == history[job[x].scope]
            j == [[[[job[x] EXCEPT !.at = "loaded"] EXCEPT !.ok = ok] EXCEPT !.finished = taskClock]
                    EXCEPT !.snap = c]
<1>2. c \in Seq(TaskEntry)
  BY DEF TaskTypeOK, JobInv, TaskExits
<1>. HIDE DEF c
<1>3. /\ j \in Job /\ j.at = "loaded" /\ j.ok = ok /\ j.finished = taskClock /\ j.snap = c
      /\ j.task = job[x].task /\ j.scope = job[x].scope
      /\ j.started = job[x].started /\ j.seen = job[x].seen
  BY <1>2 DEF TaskTypeOK, Job
<1>4. job' = [job EXCEPT ![x] = j]
  BY DEF TaskExits, c, TaskTypeOK
<1>. HIDE DEF j
<1>5. Moves(x) /\ job'[x] = j
  BY <1>3, <1>4, MoveFacts
<1>. QED
  BY <1>3, <1>5 DEF Keeps, c

LEMMA AtFacts ==
    ASSUME TaskTypeOK, NEW x \in Runners,
           NEW at \in {"running", "spawn", "idle", "updated", "done", "returned", "error"},
           \/ job' = [job EXCEPT ![x].at = at]
           \/ job' = [job EXCEPT ![x].at = at, ![x].snap = <<>>]
    PROVE  /\ Moves(x) /\ Keeps(x)
           /\ job'[x].at = at /\ job'[x].started = job[x].started
           /\ job'[x].finished = job[x].finished
           /\ job'[x].ok = job[x].ok /\ job'[x].seen = job[x].seen
<1>. DEFINE j == [job[x] EXCEPT !.at = at]
            k == [j EXCEPT !.snap = <<>>]
<1>1. /\ j \in Job /\ j.at = at /\ j.task = job[x].task /\ j.scope = job[x].scope
      /\ j.started = job[x].started /\ j.finished = job[x].finished
      /\ j.ok = job[x].ok /\ j.seen = job[x].seen
  <2>1. PICK i \in Job : i = job[x]
    BY DEF TaskTypeOK
  <2>. DEFINE l == [i EXCEPT !.at = at]
  <2>2. /\ l \in Job /\ l.at = at /\ l.task = i.task /\ l.scope = i.scope
        /\ l.started = i.started /\ l.finished = i.finished /\ l.ok = i.ok /\ l.seen = i.seen
    BY DEF Job
  <2>. QED
    BY <2>1, <2>2
<1>3. job' = [job EXCEPT ![x] = j] \/ job' = [job EXCEPT ![x] = k]
  BY DEF TaskTypeOK
<1>. HIDE DEF j
<1>a. <<>> \in Seq(TaskEntry)
  OBVIOUS
<1>2. /\ k \in Job /\ k.at = at /\ k.task = job[x].task /\ k.scope = job[x].scope
      /\ k.started = job[x].started /\ k.finished = job[x].finished
      /\ k.ok = job[x].ok /\ k.seen = job[x].seen
  BY <1>1, <1>a DEF Job
<1>. HIDE DEF k
<1>4. CASE job' = [job EXCEPT ![x] = j]
  <2>1. Moves(x) /\ job'[x] = j
    BY <1>1, <1>4, MoveFacts
  <2>. QED
    BY <1>1, <2>1 DEF Keeps
<1>5. CASE job' = [job EXCEPT ![x] = k]
  <2>1. Moves(x) /\ job'[x] = k
    BY <1>2, <1>5, MoveFacts
  <2>. QED
    BY <1>2, <2>1 DEF Keeps
<1>. QED
  BY <1>3, <1>4, <1>5

LEMMA CheckFacts ==
    ASSUME TaskTypeOK, NEW e \in Requests, NEW t \in TaskNames, NEW s \in TaskScopes,
           CheckDuplicate(e, t, s)
    PROVE  /\ Moves(e)
           /\ job'[e].at = IF has_running_task(t, s) THEN "refused" ELSE "checked"
           /\ job'[e].task = t /\ job'[e].scope = s /\ job'[e].started = taskClock
<1>. DEFINE c == IF has_running_task(t, s) THEN "refused" ELSE "checked"
<1>1. c \in {"refused", "checked"}
  OBVIOUS
<1>2. job' = [job EXCEPT ![e] = [IdleJob EXCEPT !.at = c, !.task = t, !.scope = s, !.started = taskClock]]
  BY DEF CheckDuplicate
<1>. HIDE DEF c
<1>. DEFINE j == [IdleJob EXCEPT !.at = c, !.task = t, !.scope = s, !.started = taskClock]
<1>3. j \in Job /\ j.at = c /\ j.task = t /\ j.scope = s /\ j.started = taskClock
  BY <1>1, IdleJobType DEF TaskTypeOK, Job
<1>4. job' = [job EXCEPT ![e] = j]
  BY <1>2
<1>. HIDE DEF j
<1>5. Moves(e) /\ job'[e] = j
  BY <1>3, <1>4, MoveFacts DEF Runners
<1>. QED
  BY <1>3, <1>5 DEF c

LEMMA ScopeFacts ==
    ASSUME TaskTypeOK, NEW s \in TaskScopes,
           job' = [job EXCEPT ![PhaseWorker] = [IdleJob EXCEPT !.scope = s]]
    PROVE  /\ Moves(PhaseWorker) /\ job'[PhaseWorker].started = 0
           /\ job'[PhaseWorker].at = "idle" /\ job'[PhaseWorker].scope = s
<1>. DEFINE j == [IdleJob EXCEPT !.scope = s]
<1>1. j \in Job /\ j.at = "idle" /\ j.scope = s /\ j.started = 0
  BY IdleJobType DEF Job, IdleJob
<1>. HIDE DEF j
<1>2. Moves(PhaseWorker) /\ job'[PhaseWorker] = j
  BY <1>1, MoveFacts DEF Runners, j
<1>. QED
  BY <1>1, <1>2

LEMMA PhaseTaskFacts ==
    ASSUME TaskTypeOK, NEW t \in TaskNames,
           job' = [job EXCEPT ![PhaseWorker].at = "spawn", ![PhaseWorker].task = t]
    PROVE  /\ Moves(PhaseWorker)
           /\ job'[PhaseWorker].at = "spawn" /\ job'[PhaseWorker].task = t
           /\ job'[PhaseWorker].scope = job[PhaseWorker].scope
           /\ job'[PhaseWorker].started = job[PhaseWorker].started
<1>. DEFINE j == [[job[PhaseWorker] EXCEPT !.at = "spawn"] EXCEPT !.task = t]
<1>0. PhaseWorker \in Runners
  BY DEF Runners
<1>1. /\ j \in Job /\ j.at = "spawn" /\ j.task = t /\ j.scope = job[PhaseWorker].scope
      /\ j.started = job[PhaseWorker].started
  BY <1>0 DEF Job, TaskTypeOK
<1>2. job' = [job EXCEPT ![PhaseWorker] = j]
  BY <1>0 DEF TaskTypeOK
<1>. HIDE DEF j
<1>3. Moves(PhaseWorker) /\ job'[PhaseWorker] = j
  BY <1>0, <1>1, <1>2, MoveFacts
<1>. QED
  BY <1>1, <1>3

-----------------------------------------------------------------------------
(***************************************************************************)
(* Types.                                                                  *)
(***************************************************************************)
LEMMA TaskInitial == TaskInit => TaskInv
<1>. SUFFICES ASSUME TaskInit PROVE TaskInv
  OBVIOUS
<1>1. TaskTypeOK
  <2>1. job \in [Runners -> Job]
    BY IdleJobType DEF TaskInit
  <2>2. phase \in Phase
    BY DEF TaskInit, IdlePhase, Phase
  <2>3. taskRec \in [Requests -> TaskExecution \cup {NoTask}]
    BY DEF TaskInit
  <2>4. history \in [TaskScopes -> Seq(TaskEntry)] /\ taskEvents \in [Requests -> Seq({"started", "running", "completed", "failed"})]
    BY DEF TaskInit
  <2>. QED
    BY <2>1, <2>2, <2>3, <2>4 DEF TaskInit, TaskTypeOK
<1>2. \A x \in Runners : job[x].at = "idle" /\ job[x].started = 0
  BY DEF TaskInit, IdleJob
<1>3. JobInv /\ RaceInv /\ DuplicateOnlyByRace
  BY <1>2 DEF TaskInit, JobInv, RaceInv, DuplicateOnlyByRace, Unadded, IdlePhase, Runners
<1>4. HashInv /\ UpToDateMeansBuilt
  BY <1>2, TaskAssumption DEF TaskInit, HashInv, UpToDateMeansBuilt, IdlePhase
<1>5. EndedInv /\ KeptInv
  <2>1. \A s \in TaskScopes : Range(history[s]) = {}
    BY DEF TaskInit, Range
  <2>. QED
    BY <1>2, <2>1 DEF TaskInit, EndedInv, KeptInv, Runners
<1>. QED
  BY <1>1, <1>3, <1>4, <1>5 DEF TaskInv

LEMMA EntryType ==
    ASSUME TaskTypeOK, JobInv, NEW x \in Runners, job[x].at = "loaded"
    PROVE  Execution(x) \in ExecutionIds /\ Entry(x) \in TaskEntry
<1>1. Execution(x) \in ExecutionIds
  BY DEF Execution, ExecutionIds, Runners, TaskTypeOK, Phase
<1>2. job[x] \in Job /\ job[x].task \in TaskNames
  BY DEF TaskTypeOK, JobInv
<1>3. job[x].started \in Nat /\ job[x].finished \in Nat /\ job[x].ok \in BOOLEAN
  BY <1>2 DEF Job
<1>. QED
  BY <1>1, <1>2, <1>3 DEF Entry, TaskEntry

LEMMA RunTaskTypes ==
    ASSUME TaskTypeOK, JobInv, NEW x \in Runners, RunTask(x)
    PROVE  TaskTypeOK'
<1>1. CASE SpawnTask(x)
  <2>1. job' \in [Runners -> Job]
    BY <1>1, SpawnFacts DEF Moves
  <2>. QED
    BY <1>1, <2>1 DEF TaskTypeOK, SpawnTask
<1>2. ASSUME NEW ok \in BOOLEAN, TaskExits(x, ok) PROVE TaskTypeOK'
  <2>1. job' \in [Runners -> Job]
    BY <1>2, ExitFacts DEF Moves
  <2>2. job[x].task \in TaskNames /\ job[x].seen \in Nat
    BY <1>2 DEF JobInv, TaskExits, TaskTypeOK, Job
  <2>3. built' \in [TaskNames -> SUBSET Nat]
    BY <1>2, <2>2 DEF TaskTypeOK, TaskExits
  <2>. QED
    BY <1>2, <2>1, <2>3 DEF TaskTypeOK, TaskExits
<1>3. CASE append_task_execution(x)
  <2>1. job' \in [Runners -> Job]
    BY <1>3, AtFacts DEF Moves, append_task_execution
  <2>2. Execution(x) \in ExecutionIds /\ Entry(x) \in TaskEntry
    BY <1>3, EntryType DEF append_task_execution
  <2>3. job[x].scope \in TaskScopes /\ job[x].snap \in Seq(TaskEntry)
    BY <1>3 DEF append_task_execution, JobInv, TaskTypeOK, Job
  <2>4. Append(job[x].snap, Entry(x)) \in Seq(TaskEntry)
    BY <2>2, <2>3
  <2>5. history' \in [TaskScopes -> Seq(TaskEntry)]
    BY <1>3, <2>3, <2>4 DEF append_task_execution, TaskTypeOK
  <2>6. ended' \subseteq TaskScopes \X TaskEntry
    BY <1>3, <2>2, <2>3 DEF append_task_execution, TaskTypeOK
  <2>7. \A y \in Rivals(x) : Execution(y) \in ExecutionIds
    BY EntryType DEF Rivals
  <2>8. overlapped' \subseteq ExecutionIds
    BY <1>3, <2>2, <2>7 DEF append_task_execution, TaskTypeOK
  <2>. QED
    BY <1>3, <2>1, <2>5, <2>6, <2>8 DEF append_task_execution, TaskTypeOK
<1>4. CASE TaskError(x)
  <2>1. job' \in [Runners -> Job]
    BY <1>4, AtFacts DEF Moves, TaskError
  <2>. QED
    BY <1>4, <2>1 DEF TaskError, TaskTypeOK
<1>. QED
  BY <1>1, <1>2, <1>3, <1>4 DEF RunTask

\* The record of a request once its state is set.
LEMMA StateFacts ==
    ASSUME TaskTypeOK, JobInv, NEW e \in Requests, update_task_state(e)
    PROVE  /\ taskRec' \in [Requests -> TaskExecution \cup {NoTask}]
           /\ \A f \in Requests \ {e} : taskRec'[f] = taskRec[f]
           /\ taskRec'[e] \in TaskExecution /\ taskRec'[e].state # "running"
           /\ taskRec'[e].started = taskRec[e].started
<1>. DEFINE c == IF job[e].at = "returned" /\ job[e].ok THEN "completed" ELSE "failed"
<1>1. c \in {"completed", "failed"}
  OBVIOUS
<1>2. taskRec' = [taskRec EXCEPT ![e].state = c]
  BY DEF update_task_state
<1>. HIDE DEF c
<1>3. taskRec[e] \in TaskExecution
  BY DEF JobInv, update_task_state, Unadded
<1>. DEFINE r == [taskRec[e] EXCEPT !.state = c]
<1>4. r \in TaskExecution /\ r.state = c /\ r.started = taskRec[e].started
  BY <1>1, <1>3 DEF TaskExecution
<1>5. taskRec' = [taskRec EXCEPT ![e] = r]
  BY <1>2 DEF TaskTypeOK
<1>. HIDE DEF r
<1>. QED
  BY <1>1, <1>4, <1>5 DEF TaskTypeOK

LEMMA AddFacts ==
    ASSUME TaskTypeOK, JobInv, NEW e \in Requests, add_task(e)
    PROVE  /\ taskRec' \in [Requests -> TaskExecution \cup {NoTask}]
           /\ \A f \in Requests \ {e} : taskRec'[f] = taskRec[f]
           /\ taskRec'[e] \in TaskExecution /\ taskRec'[e].started = job[e].started
           /\ taskRec'[e].task = job[e].task /\ taskRec'[e].scope = job[e].scope
<1>. DEFINE r == [task |-> job[e].task, scope |-> job[e].scope,
                  state |-> "running", started |-> job[e].started]
<1>1. job[e].task \in TaskNames /\ job[e].scope \in TaskScopes /\ job[e].started \in Nat
  BY DEF JobInv, add_task, TaskTypeOK, Runners, Job
<1>2. /\ r \in TaskExecution /\ r.started = job[e].started /\ r.task = job[e].task
      /\ r.scope = job[e].scope
  BY <1>1 DEF TaskExecution
<1>3. taskRec' = [taskRec EXCEPT ![e] = r]
  BY DEF add_task
<1>. HIDE DEF r
<1>. QED
  BY <1>2, <1>3 DEF TaskTypeOK

LEMMA PhaseFacts ==
    ASSUME TaskTypeOK
    PROVE  /\ \A skip \in BOOLEAN :
                phase' = [IdlePhase EXCEPT !.at = "next", !.skip = skip, !.count = phase.count + 1] =>
                  phase' \in Phase /\ phase'.at = "next"
           /\ phase' = [phase EXCEPT !.next = @ + 1] =>
                phase' \in Phase /\ phase'.at = phase.at
           /\ \A h \in Nat : phase' = [phase EXCEPT !.at = "run", !.hash = h] =>
                phase' \in Phase /\ phase'.at = "run" /\ phase'.hash = h
           /\ phase' = [phase EXCEPT !.at = "next", !.next = @ + 1] =>
                phase' \in Phase /\ phase'.at = "next"
           /\ phase' = [phase EXCEPT !.at = "idle"] => phase' \in Phase /\ phase'.at = "idle"
<1>1. phase \in Phase /\ phase.next \in Nat /\ phase.next # 0 /\ phase.count \in Nat
  BY DEF TaskTypeOK, Phase
<1>2. phase.next + 1 \in Nat \ {0} /\ phase.count + 1 \in Nat
  BY <1>1
<1>3. ASSUME NEW skip \in BOOLEAN,
             phase' = [IdlePhase EXCEPT !.at = "next", !.skip = skip, !.count = phase.count + 1]
      PROVE  phase' \in Phase /\ phase'.at = "next"
  <2>. DEFINE c == phase.count + 1
  <2>1. phase' = [at |-> "next", next |-> 1, skip |-> skip, hash |-> 0, count |-> c]
    BY <1>3 DEF IdlePhase
  <2>2. c \in Nat /\ 1 \in Nat \ {0}
    BY <1>2
  <2>. HIDE DEF c
  <2>. QED
    BY <2>1, <2>2 DEF Phase
<1>4. ASSUME phase' = [phase EXCEPT !.next = @ + 1]
      PROVE  phase' \in Phase /\ phase'.at = phase.at
  BY <1>1, <1>2, <1>4 DEF Phase
<1>5. ASSUME NEW h \in Nat, phase' = [phase EXCEPT !.at = "run", !.hash = h]
      PROVE  phase' \in Phase /\ phase'.at = "run" /\ phase'.hash = h
  BY <1>1, <1>5 DEF Phase
<1>6. ASSUME phase' = [phase EXCEPT !.at = "next", !.next = @ + 1]
      PROVE  phase' \in Phase /\ phase'.at = "next"
  BY <1>1, <1>2, <1>6 DEF Phase
<1>7. ASSUME phase' = [phase EXCEPT !.at = "idle"] PROVE phase' \in Phase /\ phase'.at = "idle"
  BY <1>1, <1>7 DEF Phase
<1>. QED
  BY <1>3, <1>4, <1>5, <1>6, <1>7

LEMMA WorkerTypes ==
    ASSUME TaskTypeOK, JobInv, NEW e \in Requests, Worker(e)
    PROVE  TaskTypeOK'
<1>0. e \in Runners
  BY DEF Runners
<1>. DEFINE Kinds == {"started", "running", "completed", "failed"}
<1>1. CASE add_task(e)
  <2>1. job' \in [Runners -> Job]
    BY <1>0, <1>1, AtFacts DEF Moves, add_task
  <2>2. taskEvents' \in [Requests -> Seq(Kinds)]
    BY <1>1 DEF add_task, TaskTypeOK
  <2>3. taskRec' \in [Requests -> TaskExecution \cup {NoTask}]
    BY <1>1, AddFacts
  <2>. QED
    BY <1>1, <2>1, <2>2, <2>3 DEF add_task, TaskTypeOK
<1>2. CASE RunTask(e)
  BY <1>0, <1>2, RunTaskTypes
<1>3. CASE update_task_state(e)
  <2>1. job' \in [Runners -> Job]
    BY <1>0, <1>3, AtFacts DEF Moves, update_task_state
  <2>2. taskRec' \in [Requests -> TaskExecution \cup {NoTask}]
    BY <1>3, StateFacts
  <2>. QED
    BY <1>3, <2>1, <2>2 DEF update_task_state, TaskTypeOK
<1>4. CASE AnnounceEnd(e)
  <2>1. job' \in [Runners -> Job]
    BY <1>0, <1>4, AtFacts DEF Moves, AnnounceEnd
  <2>2. taskRec[e].state \in Kinds
    BY <1>4 DEF AnnounceEnd, JobInv, Unadded, TaskExecution
  <2>3. taskEvents' \in [Requests -> Seq(Kinds)]
    BY <1>4, <2>2 DEF AnnounceEnd, TaskTypeOK
  <2>. QED
    BY <1>4, <2>1, <2>3 DEF AnnounceEnd, TaskTypeOK
<1>. QED
  BY <1>1, <1>2, <1>3, <1>4 DEF Worker

LEMMA TaskTypes ==
    ASSUME TaskTypeOK, JobInv, TaskNext
    PROVE  TaskTypeOK'
<1>0. PhaseWorker \in Runners
  BY DEF Runners
<1>1. ASSUME NEW e \in Requests, NEW t \in TaskNames, NEW s \in TaskScopes, CheckDuplicate(e, t, s)
      PROVE  TaskTypeOK'
  <2>1. job' \in [Runners -> Job]
    BY <1>1, CheckFacts DEF Moves
  <2>. QED
    BY <1>1, <2>1 DEF CheckDuplicate, TaskTypeOK
<1>2. ASSUME NEW e \in Requests, Worker(e) PROVE TaskTypeOK'
  BY <1>2, WorkerTypes
<1>3. ASSUME NEW skip \in BOOLEAN, NEW s \in TaskScopes, BeginPhase(skip, s) PROVE TaskTypeOK'
  <2>1. job' \in [Runners -> Job]
    BY <1>3, ScopeFacts DEF Moves, BeginPhase
  <2>2. phase' \in Phase
    BY <1>3, PhaseFacts DEF BeginPhase
  <2>. QED
    BY <1>3, <2>1, <2>2 DEF BeginPhase, TaskTypeOK
<1>4. CASE RunTask(PhaseWorker)
  BY <1>0, <1>4, RunTaskTypes
<1>5. CASE PhaseStep
  <2>1. PhaseTasks[phase.next] \in TaskNames
    BY <1>5, TaskAssumption DEF PhaseStep, TaskTypeOK, Phase
  <2>2. content[PhaseTasks[phase.next]] \in Nat
    BY <2>1 DEF TaskTypeOK
  <2>3. phase' \in Phase
    BY <1>5, <2>2, PhaseFacts DEF PhaseStep
  <2>4. job' \in [Runners -> Job]
    BY <1>5, <2>1, PhaseTaskFacts DEF PhaseStep, TaskTypeOK, Moves
  <2>. QED
    BY <1>5, <2>3, <2>4 DEF PhaseStep, TaskTypeOK
<1>6. CASE StoreHash
  <2>1. job' \in [Runners -> Job]
    BY <1>0, <1>6, AtFacts DEF Moves, StoreHash
  <2>2. phase' \in Phase
    BY <1>6, PhaseFacts DEF StoreHash
  <2>3. job[PhaseWorker].task \in TaskNames /\ phase.hash \in Nat
    BY <1>0, <1>6 DEF StoreHash, JobInv, TaskTypeOK, Phase
  <2>4. watchHash' \in [TaskNames -> Nat \cup {NoTask}]
    BY <1>6, <2>3 DEF StoreHash, TaskTypeOK
  <2>. QED
    BY <1>6, <2>1, <2>2, <2>4 DEF StoreHash, TaskTypeOK
<1>7. CASE EndPhase
  <2>1. job' \in [Runners -> Job]
    BY <1>0, <1>7, IdleJobType, MoveFacts DEF Moves, EndPhase
  <2>2. phase' \in Phase
    BY <1>7, PhaseFacts DEF EndPhase
  <2>. QED
    BY <1>7, <2>1, <2>2 DEF EndPhase, TaskTypeOK
<1>8. ASSUME NEW t \in WatchedTasks, EditWatched(t) PROVE TaskTypeOK'
  <2>1. content' \in [TaskNames -> Nat]
    BY <1>8, TaskAssumption DEF EditWatched, TaskTypeOK
  <2>. QED
    BY <1>8, <2>1 DEF EditWatched, TaskTypeOK
<1>. QED
  BY <1>1, <1>2, <1>3, <1>4, <1>5, <1>6, <1>7, <1>8 DEF TaskNext

-----------------------------------------------------------------------------
(***************************************************************************)
(* The runners.                                                            *)
(***************************************************************************)
\* A step of run_task leaves the records, the phase and the raced requests alone.
Runs(x) ==
    /\ Moves(x) /\ Keeps(x)
    /\ job[x].at \in {"spawn", "running", "loaded"}
    /\ job'[x].at \in {"running", "loaded", "returned", "error"}
    /\ job'[x].started \in {job[x].started, taskClock}
    /\ taskClock' \in {taskClock, taskClock + 1}
    /\ job'[x].started = taskClock => taskClock' = taskClock + 1
    /\ UNCHANGED <<taskRec, phase, watchHash, content, taskEvents, raced>>

LEMMA RunTaskFacts ==
    ASSUME TaskTypeOK, JobInv, NEW x \in Runners, RunTask(x)
    PROVE  Runs(x)
<1>0. job[x].started < taskClock
  BY DEF JobInv
<1>00. taskClock \in Nat /\ job[x].started \in Nat
  BY DEF TaskTypeOK, Job
<1>1. CASE SpawnTask(x)
  BY <1>1, SpawnFacts DEF SpawnTask, Runs
<1>2. ASSUME NEW ok \in BOOLEAN, TaskExits(x, ok) PROVE  Runs(x)
  BY <1>2, ExitFacts DEF TaskExits, Runs
<1>3. CASE append_task_execution(x)
  <2>1. /\ Moves(x) /\ Keeps(x) /\ job'[x].at = "returned" /\ job'[x].started = job[x].started
    BY <1>3, AtFacts DEF append_task_execution
  <2>. QED
    BY <1>0, <1>00, <1>3, <2>1 DEF append_task_execution, Runs
<1>4. CASE TaskError(x)
  <2>1. /\ Moves(x) /\ Keeps(x) /\ job'[x].at = "error" /\ job'[x].started = job[x].started
    BY <1>4, AtFacts DEF TaskError
  <2>. QED
    BY <1>0, <1>00, <1>4, <2>1 DEF TaskError, Runs
<1>. QED
  BY <1>1, <1>2, <1>3, <1>4 DEF RunTask

LEMMA JobStep ==
    ASSUME TaskTypeOK, JobInv, TaskNext
    PROVE  JobInv'
<1>0. /\ PhaseWorker \in Runners /\ taskClock \in Nat /\ PhaseWorker \notin Requests
      /\ Requests \subseteq Runners /\ Runners = Requests \cup {PhaseWorker}
      /\ \A x \in Runners : job[x].started \in Nat
      /\ \A e \in Requests : taskRec[e] \in TaskExecution => taskRec[e].started \in Nat
  BY TaskAssumption DEF Runners, TaskTypeOK, Job, TaskExecution
<1>1. ASSUME NEW e \in Requests, NEW t \in TaskNames, NEW s \in TaskScopes, CheckDuplicate(e, t, s)
      PROVE  JobInv'
  <2>1. /\ Moves(e) /\ job'[e].at \in {"refused", "checked"} /\ job[e].at = "idle"
        /\ job'[e].task = t /\ job'[e].scope = s /\ job'[e].started = taskClock
        /\ UNCHANGED <<taskRec, phase>> /\ taskClock' = taskClock + 1
    BY <1>1, CheckFacts DEF CheckDuplicate
  <2>. QED
    BY <1>0, <2>1 DEF JobInv, Moves, Unadded
<1>2. ASSUME NEW x \in Runners, RunTask(x) PROVE JobInv'
  <2>1. Runs(x)
    BY <1>2, RunTaskFacts
  <2>. QED
    BY <1>0, <2>1 DEF Runs, JobInv, Moves, Keeps, Unadded
<1>3. ASSUME NEW e \in Requests, add_task(e) PROVE JobInv'
  <2>1. /\ Moves(e) /\ Keeps(e) /\ job'[e].at = "spawn" /\ job[e].at = "checked"
        /\ job'[e].started = job[e].started /\ UNCHANGED <<taskClock, phase>>
    BY <1>0, <1>3, AtFacts DEF add_task
  <2>2. /\ \A f \in Requests \ {e} : taskRec'[f] = taskRec[f]
        /\ taskRec'[e] \in TaskExecution /\ taskRec'[e].started = job[e].started
    BY <1>3, AddFacts
  <2>. QED
    BY <1>0, <2>1, <2>2 DEF JobInv, Moves, Keeps, Unadded
<1>4. ASSUME NEW e \in Requests, update_task_state(e) PROVE JobInv'
  <2>1. /\ Moves(e) /\ Keeps(e) /\ job'[e].at = "updated" /\ job[e].at \in {"returned", "error"}
        /\ job'[e].started = job[e].started /\ UNCHANGED <<taskClock, phase>>
    BY <1>0, <1>4, AtFacts DEF update_task_state
  <2>2. /\ \A f \in Requests \ {e} : taskRec'[f] = taskRec[f]
        /\ taskRec'[e] \in TaskExecution /\ taskRec'[e].started = taskRec[e].started
    BY <1>4, StateFacts
  <2>. QED
    BY <1>0, <2>1, <2>2 DEF JobInv, Moves, Keeps, Unadded
<1>5. ASSUME NEW e \in Requests, AnnounceEnd(e) PROVE JobInv'
  <2>1. /\ Moves(e) /\ Keeps(e) /\ job'[e].at = "done" /\ job[e].at = "updated"
        /\ job'[e].started = job[e].started /\ UNCHANGED <<taskClock, phase, taskRec>>
    BY <1>0, <1>5, AtFacts DEF AnnounceEnd
  <2>. QED
    BY <1>0, <2>1 DEF JobInv, Moves, Keeps, Unadded
<1>6. ASSUME NEW skip \in BOOLEAN, NEW s \in TaskScopes, BeginPhase(skip, s) PROVE JobInv'
  <2>1. /\ Moves(PhaseWorker) /\ job'[PhaseWorker].at = "idle" /\ job'[PhaseWorker].scope = s
        /\ job'[PhaseWorker].started = 0
        /\ phase'.at = "next" /\ UNCHANGED <<taskClock, taskRec>>
    BY <1>6, ScopeFacts, PhaseFacts DEF BeginPhase
  <2>. QED
    BY <1>0, <2>1 DEF JobInv, Moves
<1>7. CASE PhaseStep
  <2>1. PhaseTasks[phase.next] \in TaskNames
    BY <1>7, TaskAssumption DEF PhaseStep, TaskTypeOK, Phase
  <2>. DEFINE t == PhaseTasks[phase.next]
  <2>2. content[t] \in Nat
    BY <2>1 DEF TaskTypeOK
  <2>3. CASE phase' = [phase EXCEPT !.next = @ + 1] /\ UNCHANGED job
    <3>1. phase'.at = phase.at /\ UNCHANGED <<job, taskClock, taskRec>>
      BY <1>7, <2>3, PhaseFacts DEF PhaseStep
    <3>. QED
      BY <3>1 DEF JobInv
  <2>4. CASE /\ phase' = [phase EXCEPT !.at = "run", !.hash = content[t]]
             /\ job' = [job EXCEPT ![PhaseWorker].at = "spawn", ![PhaseWorker].task = t]
    <3>1. /\ Moves(PhaseWorker) /\ job'[PhaseWorker].at = "spawn" /\ job'[PhaseWorker].task = t
          /\ job'[PhaseWorker].scope = job[PhaseWorker].scope
          /\ job'[PhaseWorker].started = job[PhaseWorker].started
      BY <2>1, <2>4, PhaseTaskFacts
    <3>2. phase'.at = "run" /\ phase.at = "next" /\ UNCHANGED <<taskClock, taskRec>>
      BY <1>7, <2>2, <2>4, PhaseFacts DEF PhaseStep
    <3>. QED
      BY <1>0, <2>1, <3>1, <3>2 DEF JobInv, Moves
  <2>. QED
    BY <1>7, <2>3, <2>4 DEF PhaseStep
<1>8. CASE StoreHash
  <2>1. /\ Moves(PhaseWorker) /\ Keeps(PhaseWorker) /\ job'[PhaseWorker].at = "idle"
        /\ job'[PhaseWorker].started = job[PhaseWorker].started
    BY <1>0, <1>8, AtFacts DEF StoreHash
  <2>2. phase.at = "run" /\ phase'.at = "next" /\ UNCHANGED <<taskClock, taskRec>>
    BY <1>8, PhaseFacts DEF StoreHash
  <2>. QED
    BY <1>0, <2>1, <2>2 DEF JobInv, Moves, Keeps
<1>9. CASE EndPhase
  <2>1. Moves(PhaseWorker) /\ job'[PhaseWorker] = IdleJob
    BY <1>0, <1>9, IdleJobType, MoveFacts DEF EndPhase
  <2>2. phase'.at = "idle" /\ UNCHANGED <<taskClock, taskRec>> /\ IdleJob.at = "idle" /\ IdleJob.started = 0
    BY <1>9, PhaseFacts DEF EndPhase, IdleJob
  <2>. QED
    BY <1>0, <2>1, <2>2 DEF JobInv, Moves
<1>10. ASSUME NEW t \in WatchedTasks, EditWatched(t) PROVE JobInv'
  BY <1>10 DEF EditWatched, JobInv
<1>. QED
  BY <1>0, <1>1, <1>2, <1>3, <1>4, <1>5, <1>6, <1>7, <1>8, <1>9, <1>10 DEF TaskNext, Worker

-----------------------------------------------------------------------------
(***************************************************************************)
(* Duplicate executions.                                                   *)
(***************************************************************************)
LEMMA RaceFrame ==
    ASSUME RaceInv, DuplicateOnlyByRace, UNCHANGED <<taskRec, raced>>,
           \A e \in Requests : job'[e].at = "checked" => job'[e] = job[e]
    PROVE  RaceInv' /\ DuplicateOnlyByRace'
BY DEF RaceInv, DuplicateOnlyByRace, RunningFor

LEMMA RaceStep ==
    ASSUME TaskTypeOK, JobInv, RaceInv, DuplicateOnlyByRace, TaskNext
    PROVE  RaceInv' /\ DuplicateOnlyByRace'
<1>0. /\ PhaseWorker \in Runners /\ PhaseWorker \notin Requests /\ Requests \subseteq Runners
      /\ Runners = Requests \cup {PhaseWorker}
  BY TaskAssumption DEF Runners
<1>a. ASSUME Moves(PhaseWorker) \/ job' = job, UNCHANGED <<taskRec, raced>>
      PROVE  RaceInv' /\ DuplicateOnlyByRace'
  BY <1>0, <1>a, RaceFrame DEF Moves
<1>1. ASSUME NEW e \in Requests, NEW t \in TaskNames, NEW s \in TaskScopes, CheckDuplicate(e, t, s)
      PROVE  RaceInv' /\ DuplicateOnlyByRace'
  <2>a. /\ Moves(e) /\ job'[e].task = t /\ job'[e].scope = s
        /\ job'[e].at = IF has_running_task(t, s) THEN "refused" ELSE "checked"
    BY <1>1, CheckFacts
  <2>b. job'[e].at = "checked" => ~has_running_task(t, s)
    <3>1. CASE has_running_task(t, s)
      BY <2>a, <3>1
    <3>. QED
      BY <3>1
  <2>1. /\ Moves(e) /\ job'[e].task = t /\ job'[e].scope = s
        /\ job'[e].at = "checked" => ~has_running_task(t, s)
        /\ UNCHANGED <<taskRec, raced>>
    BY <1>1, <2>a, <2>b DEF CheckDuplicate
  <2>2. ASSUME NEW f \in Requests, NEW g \in Requests, f # g, job'[f].at = "checked",
               RunningFor(g, job'[f].task, job'[f].scope)
        PROVE  f \in raced
    BY <1>0, <2>1, <2>2 DEF RaceInv, RunningFor, has_running_task, Moves
  <2>. QED
    BY <2>1, <2>2 DEF RaceInv, DuplicateOnlyByRace, RunningFor
<1>2. ASSUME NEW x \in Runners, RunTask(x) PROVE RaceInv' /\ DuplicateOnlyByRace'
  <2>1. Runs(x)
    BY <1>2, RunTaskFacts
  <2>. QED
    BY <1>0, <2>1, RaceFrame DEF Runs, Moves
<1>3. ASSUME NEW e \in Requests, add_task(e) PROVE RaceInv' /\ DuplicateOnlyByRace'
  <2>1. /\ Moves(e) /\ Keeps(e) /\ job'[e].at = "spawn" /\ job[e].at = "checked"
    BY <1>0, <1>3, AtFacts DEF add_task
  <2>2. /\ \A f \in Requests \ {e} : taskRec'[f] = taskRec[f]
        /\ taskRec'[e].task = job[e].task /\ taskRec'[e].scope = job[e].scope
    BY <1>3, AddFacts
  <2>3. /\ raced \subseteq raced'
        /\ \A f \in Requests \ {e} : /\ job[f].at = "checked"
                                     /\ job[f].task = job[e].task /\ job[f].scope = job[e].scope
                                     => f \in raced'
    BY <1>3 DEF add_task, SameKey
  <2>4. RaceInv'
    <3>. SUFFICES ASSUME NEW f \in Requests, NEW g \in Requests, f # g, job'[f].at = "checked",
                         RunningFor(g, job[f].task, job[f].scope)'
                  PROVE  f \in raced'
      BY <1>0, <2>1 DEF RaceInv, Moves, RunningFor
    <3>1. f # e /\ job'[f] = job[f]
      BY <1>0, <2>1 DEF Moves
    <3>2. CASE g = e
      BY <2>2, <2>3, <3>1, <3>2 DEF RunningFor
    <3>3. CASE g # e
      BY <2>2, <2>3, <3>1, <3>3 DEF RunningFor, RaceInv
    <3>. QED
      BY <3>2, <3>3
  <2>5. \A f \in Requests \ {e} : RunningFor(f, job[e].task, job[e].scope) => e \in raced
    BY <2>1 DEF RaceInv
  <2>6. DuplicateOnlyByRace'
    BY <2>2, <2>3, <2>5 DEF DuplicateOnlyByRace, RunningFor
  <2>. QED
    BY <2>4, <2>6
<1>4. ASSUME NEW e \in Requests, update_task_state(e) PROVE RaceInv' /\ DuplicateOnlyByRace'
  <2>1. Moves(e) /\ job'[e].at = "updated" /\ UNCHANGED raced
    BY <1>0, <1>4, AtFacts DEF update_task_state
  <2>2. /\ \A f \in Requests \ {e} : taskRec'[f] = taskRec[f]
        /\ taskRec'[e].state # "running"
    BY <1>4, StateFacts
  <2>. QED
    BY <1>0, <2>1, <2>2 DEF RaceInv, DuplicateOnlyByRace, RunningFor, Moves
<1>5. ASSUME NEW e \in Requests, AnnounceEnd(e) PROVE RaceInv' /\ DuplicateOnlyByRace'
  <2>1. Moves(e) /\ job'[e].at = "done" /\ UNCHANGED <<raced, taskRec>>
    BY <1>0, <1>5, AtFacts DEF AnnounceEnd
  <2>. QED
    BY <1>0, <2>1, RaceFrame DEF Moves
<1>6. ASSUME NEW skip \in BOOLEAN, NEW s \in TaskScopes, BeginPhase(skip, s)
      PROVE  RaceInv' /\ DuplicateOnlyByRace'
  BY <1>a, <1>6, ScopeFacts DEF BeginPhase
<1>7. CASE PhaseStep
  <2>1. PhaseTasks[phase.next] \in TaskNames
    BY <1>7, TaskAssumption DEF PhaseStep, TaskTypeOK, Phase
  <2>. QED
    BY <1>a, <1>7, <2>1, PhaseTaskFacts DEF PhaseStep
<1>8. CASE StoreHash
  BY <1>0, <1>a, <1>8, AtFacts DEF StoreHash
<1>9. CASE EndPhase
  BY <1>0, <1>a, <1>9, IdleJobType, MoveFacts DEF EndPhase
<1>10. ASSUME NEW t \in WatchedTasks, EditWatched(t) PROVE RaceInv' /\ DuplicateOnlyByRace'
  BY <1>a, <1>10 DEF EditWatched
<1>. QED
  BY <1>0, <1>1, <1>2, <1>3, <1>4, <1>5, <1>6, <1>7, <1>8, <1>9, <1>10 DEF TaskNext, Worker

-----------------------------------------------------------------------------
(***************************************************************************)
(* Hashes of watched files.                                                *)
(***************************************************************************)
LEMMA HashFrame ==
    ASSUME HashInv, UpToDateMeansBuilt, UNCHANGED <<watchHash, content, built>>,
           phase'.at # "run" \/ (phase' = phase /\ job'[PhaseWorker] = job[PhaseWorker])
    PROVE  HashInv' /\ UpToDateMeansBuilt'
BY DEF HashInv, UpToDateMeansBuilt

LEMMA HashStep ==
    ASSUME TaskTypeOK, JobInv, HashInv, UpToDateMeansBuilt, TaskNext
    PROVE  HashInv' /\ UpToDateMeansBuilt'
<1>0. /\ PhaseWorker \in Runners /\ PhaseWorker \notin Requests /\ Requests \subseteq Runners
      /\ Runners = Requests \cup {PhaseWorker}
  BY TaskAssumption DEF Runners
<1>b. /\ \A t \in TaskNames : content[t] \in Nat /\ (watchHash[t] \in Nat \/ watchHash[t] = NoTask)
      /\ phase.hash \in Nat /\ NoTask \notin Nat
  BY TaskAssumption DEF TaskTypeOK, Phase
<1>a. ASSUME NEW e \in Requests, Moves(e), UNCHANGED <<watchHash, content, built, phase>>
      PROVE  HashInv' /\ UpToDateMeansBuilt'
  BY <1>0, <1>a, HashFrame DEF Moves
<1>1. ASSUME NEW e \in Requests, NEW t \in TaskNames, NEW s \in TaskScopes, CheckDuplicate(e, t, s)
      PROVE  HashInv' /\ UpToDateMeansBuilt'
  BY <1>a, <1>1, CheckFacts DEF CheckDuplicate
<1>2. ASSUME NEW e \in Requests, RunTask(e) PROVE HashInv' /\ UpToDateMeansBuilt'
  <2>1. Runs(e) /\ UNCHANGED built
    BY <1>0, <1>2, RunTaskFacts DEF RunTask, SpawnTask, TaskExits, append_task_execution, TaskError
  <2>. QED
    BY <1>a, <2>1 DEF Runs
<1>3. CASE RunTask(PhaseWorker)
  <2>. DEFINE j == job[PhaseWorker]
  <2>1. phase.at = "run" /\ j.task \in TaskNames
    BY <1>0, <1>3, RunTaskFacts DEF JobInv, Runs
  <2>2. Runs(PhaseWorker)
    BY <1>0, <1>3, RunTaskFacts
  <2>3. CASE SpawnTask(PhaseWorker)
    <3>1. job'[PhaseWorker].at = "running" /\ job'[PhaseWorker].seen = content[j.task]
      BY <1>0, <2>3, SpawnFacts
    <3>2. UNCHANGED built
      BY <2>3 DEF SpawnTask
    <3>. QED
      BY <1>b, <2>1, <2>2, <3>1, <3>2 DEF HashInv, UpToDateMeansBuilt, Runs, Keeps
  <2>4. ASSUME NEW ok \in BOOLEAN, TaskExits(PhaseWorker, ok) PROVE HashInv' /\ UpToDateMeansBuilt'
    <3>1. /\ job'[PhaseWorker].at = "loaded" /\ job'[PhaseWorker].ok = ok
          /\ job'[PhaseWorker].seen = j.seen /\ j.at = "running"
      BY <1>0, <2>4, ExitFacts DEF TaskExits
    <3>2. built' = IF ok THEN [built EXCEPT ![j.task] = @ \cup {j.seen}] ELSE built
      BY <2>4 DEF TaskExits
    <3>3. \A t \in TaskNames : built[t] \subseteq built'[t]
      BY <3>2 DEF TaskTypeOK
    <3>4. ok => j.seen \in built'[j.task]
      BY <2>1, <3>2 DEF TaskTypeOK
    <3>. QED
      BY <1>b, <2>1, <2>2, <3>1, <3>3, <3>4 DEF HashInv, UpToDateMeansBuilt, Runs, Keeps
  <2>5. CASE append_task_execution(PhaseWorker)
    <3>1. /\ job'[PhaseWorker].at = "returned" /\ job'[PhaseWorker].ok = j.ok
          /\ job'[PhaseWorker].seen = j.seen /\ j.at = "loaded" /\ UNCHANGED built
      BY <1>0, <2>5, AtFacts DEF append_task_execution
    <3>. QED
      BY <2>1, <2>2, <3>1 DEF HashInv, UpToDateMeansBuilt, Runs, Keeps
  <2>6. CASE TaskError(PhaseWorker)
    <3>1. job'[PhaseWorker].at = "error" /\ UNCHANGED built
      BY <1>0, <2>6, AtFacts DEF TaskError
    <3>. QED
      BY <2>1, <2>2, <3>1 DEF HashInv, UpToDateMeansBuilt, Runs, Keeps
  <2>. QED
    BY <1>3, <2>3, <2>4, <2>5, <2>6 DEF RunTask
<1>4. ASSUME NEW e \in Requests, add_task(e) \/ update_task_state(e) \/ AnnounceEnd(e)
      PROVE  HashInv' /\ UpToDateMeansBuilt'
  BY <1>0, <1>a, <1>4, AtFacts DEF add_task, update_task_state, AnnounceEnd
<1>6. ASSUME NEW skip \in BOOLEAN, NEW s \in TaskScopes, BeginPhase(skip, s)
      PROVE  HashInv' /\ UpToDateMeansBuilt'
  <2>1. phase'.at = "next" /\ UNCHANGED <<watchHash, content, built>>
    BY <1>6, PhaseFacts DEF BeginPhase
  <2>. QED
    BY <2>1, HashFrame
<1>7. CASE PhaseStep
  <2>. DEFINE t == PhaseTasks[phase.next]
  <2>1. t \in TaskNames
    BY <1>7, TaskAssumption DEF PhaseStep, TaskTypeOK, Phase
  <2>2. content[t] \in Nat
    BY <2>1 DEF TaskTypeOK
  <2>3. CASE phase' = [phase EXCEPT !.next = @ + 1] /\ UNCHANGED job
    <3>1. phase'.at = "next" /\ UNCHANGED <<watchHash, content, built>>
      BY <1>7, <2>3, PhaseFacts DEF PhaseStep
    <3>. QED
      BY <3>1, HashFrame
  <2>4. CASE /\ phase' = [phase EXCEPT !.at = "run", !.hash = content[t]]
             /\ job' = [job EXCEPT ![PhaseWorker].at = "spawn", ![PhaseWorker].task = t]
    <3>1. job'[PhaseWorker].at = "spawn" /\ job'[PhaseWorker].task = t
      BY <2>1, <2>4, PhaseTaskFacts
    <3>2. phase'.at = "run" /\ phase'.hash = content[t] /\ UNCHANGED <<watchHash, content, built>>
      BY <1>7, <2>2, <2>4, PhaseFacts DEF PhaseStep
    <3>. QED
      BY <2>1, <2>2, <3>1, <3>2 DEF HashInv, UpToDateMeansBuilt
  <2>. QED
    BY <1>7, <2>3, <2>4 DEF PhaseStep
<1>8. CASE StoreHash
  <2>. DEFINE j == job[PhaseWorker]
  <2>1. phase'.at = "next" /\ UNCHANGED <<content, built>>
    BY <1>8, PhaseFacts DEF StoreHash
  <2>2. /\ j.task \in TaskNames /\ j.seen \in Nat
        /\ phase.hash <= j.seen /\ j.seen <= content[j.task] /\ j.seen \in built[j.task]
    BY <1>0, <1>8 DEF StoreHash, JobInv, HashInv, TaskTypeOK, Job
  <2>3. \A t \in TaskNames : \/ watchHash'[t] = watchHash[t]
                             \/ t = j.task /\ watchHash'[t] = phase.hash
    BY <1>8 DEF StoreHash, TaskTypeOK
  <2>. QED
    BY <1>b, <2>1, <2>2, <2>3 DEF HashInv, UpToDateMeansBuilt
<1>9. CASE EndPhase
  <2>1. phase'.at = "idle" /\ UNCHANGED <<watchHash, content, built>>
    BY <1>9, PhaseFacts DEF EndPhase
  <2>. QED
    BY <2>1, HashFrame
<1>10. ASSUME NEW t \in WatchedTasks, EditWatched(t) PROVE HashInv' /\ UpToDateMeansBuilt'
  <2>1. /\ UNCHANGED <<watchHash, built, phase, job>>
        /\ \A u \in TaskNames : content'[u] = content[u] \/ content'[u] = content[u] + 1
    BY <1>10 DEF EditWatched, TaskTypeOK
  <2>2. phase.at = "run" => job[PhaseWorker].task \in TaskNames /\ job[PhaseWorker].seen \in Nat
    BY <1>0 DEF JobInv, TaskTypeOK, Job
  <2>3. HashInv'
    BY <1>b, <2>1, <2>2 DEF HashInv
  <2>4. UpToDateMeansBuilt'
    BY <1>b, <2>1 DEF HashInv, UpToDateMeansBuilt
  <2>. QED
    BY <2>3, <2>4
<1>. QED
  BY <1>1, <1>2, <1>3, <1>4, <1>6, <1>7, <1>8, <1>9, <1>10 DEF TaskNext, Worker

-----------------------------------------------------------------------------
(***************************************************************************)
(* The history.                                                            *)
(***************************************************************************)
LEMMA AppendRange ==
    ASSUME NEW S, NEW q \in Seq(S), NEW v \in S
    PROVE  Range(Append(q, v)) = Range(q) \cup {v}
BY DEF Range

\* A step after which no runner holds a copy it did not hold, and none ends, keeps
\* both parts, if it is orderly about stamps.
LEMMA EndedFrame ==
    ASSUME EndedInv, KeptInv, UNCHANGED <<history, ended, overlapped>>,
           \A x \in Runners : job'[x].at = "loaded" => job'[x] = job[x],
           \A e \in Requests : job'[e].at \in {"running", "loaded"} =>
               taskRec'[e].started < job'[e].started,
           \A e \in Requests : job[e].at \in {"returned", "updated", "done"} =>
               /\ job'[e].at \in {"returned", "updated", "done"}
               /\ taskRec'[e].started = taskRec[e].started
    PROVE  EndedInv' /\ KeptInv'
<1>1. EndedInv'
  BY DEF EndedInv
<1>2. KeptInv'
  BY DEF KeptInv
<1>. QED
  BY <1>1, <1>2

LEMMA AppendStep ==
    ASSUME TaskTypeOK, JobInv, EndedInv, KeptInv, NEW x \in Runners, append_task_execution(x)
    PROVE  EndedInv' /\ KeptInv'
<1>0. /\ PhaseWorker \notin Requests /\ Requests \subseteq Runners
      /\ Runners = Requests \cup {PhaseWorker} /\ Requests \cap (Nat \X Nat) = {}
  BY TaskAssumption DEF Runners
<1>1. PICK E \in TaskEntry : E = Entry(x)
  BY EntryType DEF append_task_execution
<1>2. PICK s \in TaskScopes : s = job[x].scope
  BY DEF JobInv, append_task_execution
<1>3. PICK q \in Seq(TaskEntry) : q = job[x].snap
  BY DEF TaskTypeOK, Job
<1>a. /\ Moves(x) /\ Keeps(x) /\ job'[x].at = "returned"
  BY AtFacts DEF append_task_execution
<1>b. ended' = ended \cup {<<s, E>>} /\ UNCHANGED taskRec /\ job[x].at = "loaded"
  BY <1>1, <1>2 DEF append_task_execution
<1>c. \A r \in TaskScopes \ {s} : history'[r] = history[r]
  BY <1>2 DEF append_task_execution, TaskTypeOK
<1>4. /\ Moves(x) /\ Keeps(x) /\ job[x].at = "loaded" /\ job'[x].at = "returned"
      /\ ended' = ended \cup {<<s, E>>} /\ UNCHANGED taskRec
      /\ \A r \in TaskScopes \ {s} : history'[r] = history[r]
  BY <1>a, <1>b, <1>c
<1>5. history'[s] = Append(q, E)
  BY <1>1, <1>2, <1>3 DEF append_task_execution, TaskTypeOK
<1>6. Range(history'[s]) = Range(q) \cup {E}
  BY <1>5, AppendRange
<1>7. /\ E.started < E.finished
      /\ E.id \in Requests => E.id = x /\ taskRec[x].started < E.started
  <2>1. E.id = Execution(x) /\ E.started = job[x].started /\ E.finished = job[x].finished
    BY <1>1 DEF Entry
  <2>2. x = PhaseWorker => Execution(x) \in Nat \X Nat
    BY DEF Execution, TaskTypeOK, Phase
  <2>3. x # PhaseWorker => Execution(x) = x /\ x \in Requests
    BY <1>0 DEF Execution
  <2>. QED
    BY <1>0, <1>4, <2>1, <2>2, <2>3 DEF EndedInv
<1>8. EndedInv'
  <2>1. \A y \in Runners : job'[y].at = "loaded" => y # x /\ job'[y] = job[y]
    BY <1>4 DEF Moves
  <2>2. \A y \in Runners : job'[y].at = "loaded" => job'[y].started < job'[y].finished
    BY <2>1 DEF EndedInv
  <2>3. \A e \in Requests :
          job'[e].at \in {"running", "loaded"} => taskRec'[e].started < job'[e].started
    BY <1>0, <1>4 DEF EndedInv, Moves
  <2>4. ASSUME NEW y \in ended'
        PROVE  /\ y[2].started < y[2].finished
               /\ y[2].id \in Requests => /\ job'[y[2].id].at \in {"returned", "updated", "done"}
                                          /\ taskRec'[y[2].id].started < y[2].started
    <3>1. CASE y \in ended
      BY <1>0, <1>4, <3>1 DEF EndedInv, Moves
    <3>2. CASE y = <<s, E>>
      BY <1>4, <1>7, <3>2
    <3>. QED
      BY <1>4, <3>1, <3>2
  <2>5. ASSUME NEW r \in TaskScopes, NEW h \in Range(history'[r])
        PROVE  <<r, h>> \in ended'
    <3>1. CASE r = s
      BY <1>2, <1>3, <1>4, <1>6, <3>1 DEF EndedInv
    <3>2. CASE r # s
      BY <1>4, <3>2 DEF EndedInv
    <3>. QED
      BY <3>1, <3>2
  <2>6. \A y \in Runners : job'[y].at = "loaded" =>
          \A h \in Range(job'[y].snap) : <<job'[y].scope, h>> \in ended'
    BY <1>4, <2>1 DEF EndedInv
  <2>. QED
    BY <2>2, <2>3, <2>4, <2>5, <2>6 DEF EndedInv
<1>9. KeptInv'
  <2>. SUFFICES ASSUME NEW y \in ended', y[2].id \notin overlapped'
                PROVE  /\ y[2] \in Range(history'[y[1]])
                       /\ \A z \in Runners : job'[z].at = "loaded" /\ job'[z].scope = y[1]
                                               => y[2] \in Range(job'[z].snap)
    BY DEF KeptInv
  <2>1. overlapped \subseteq overlapped'
    BY DEF append_task_execution
  <2>2. CASE y \in ended
    <3>1. y[1] \in TaskScopes
      BY <2>2 DEF TaskTypeOK
    <3>2. y[2] \in Range(history'[y[1]])
      <4>1. CASE y[1] = s
        BY <1>2, <1>3, <1>4, <1>6, <2>1, <2>2, <4>1 DEF KeptInv
      <4>2. CASE y[1] # s
        BY <1>4, <2>1, <2>2, <3>1, <4>2 DEF KeptInv
      <4>. QED
        BY <4>1, <4>2
    <3>. QED
      BY <1>4, <2>1, <2>2, <3>2 DEF KeptInv, Moves
  <2>3. CASE y = <<s, E>>
    <3>1. y[1] = s /\ y[2] = E /\ E.id = Execution(x)
      BY <1>1, <2>3 DEF Entry
    <3>2. Rivals(x) = {}
      BY <3>1 DEF append_task_execution
    <3>3. \A z \in Runners : ~(job'[z].at = "loaded" /\ job'[z].scope = s)
      BY <1>2, <1>4, <3>2 DEF Rivals, Moves
    <3>. QED
      BY <1>6, <3>1, <3>3
  <2>. QED
    BY <1>4, <2>2, <2>3
<1>. QED
  BY <1>8, <1>9

LEMMA EndedStep ==
    ASSUME TaskTypeOK, JobInv, EndedInv, KeptInv, TaskNext
    PROVE  EndedInv' /\ KeptInv'
<1>0. /\ PhaseWorker \in Runners /\ PhaseWorker \notin Requests /\ Requests \subseteq Runners
      /\ Runners = Requests \cup {PhaseWorker}
  BY TaskAssumption DEF Runners
<1>a. ASSUME Moves(PhaseWorker), job'[PhaseWorker].at # "loaded",
             UNCHANGED <<taskRec, history, ended, overlapped>>
      PROVE  EndedInv' /\ KeptInv'
  <2>1. \A e \in Requests : job'[e] = job[e]
    BY <1>0, <1>a DEF Moves
  <2>2. \A x \in Runners : job'[x].at = "loaded" => job'[x] = job[x]
    BY <1>0, <1>a, <2>1
  <2>3. \A e \in Requests :
          job'[e].at \in {"running", "loaded"} => taskRec'[e].started < job'[e].started
    BY <1>a, <2>1 DEF EndedInv
  <2>. QED
    BY <1>a, <2>1, <2>2, <2>3, EndedFrame
<1>b. ASSUME NEW e \in Requests, Moves(e), job'[e].at \notin {"loaded", "running"},
             job[e].at \in {"returned", "updated", "done"} => job'[e].at \in {"returned", "updated", "done"},
             \A f \in Requests : job[f].at \in {"running", "loaded", "returned", "updated", "done"} =>
                taskRec'[f].started = taskRec[f].started,
             UNCHANGED <<history, ended, overlapped>>
      PROVE  EndedInv' /\ KeptInv'
  <2>1. \A x \in Runners : job'[x].at = "loaded" => job'[x] = job[x]
    BY <1>0, <1>b DEF Moves
  <2>2. \A f \in Requests :
          job'[f].at \in {"running", "loaded"} => taskRec'[f].started < job'[f].started
    BY <1>0, <1>b DEF EndedInv, Moves
  <2>3. \A f \in Requests : job[f].at \in {"returned", "updated", "done"} =>
               /\ job'[f].at \in {"returned", "updated", "done"}
               /\ taskRec'[f].started = taskRec[f].started
    BY <1>0, <1>b DEF Moves
  <2>. QED
    BY <1>b, <2>1, <2>2, <2>3, EndedFrame
<1>1. ASSUME NEW e \in Requests, NEW t \in TaskNames, NEW s \in TaskScopes, CheckDuplicate(e, t, s)
      PROVE  EndedInv' /\ KeptInv'
  <2>1. /\ Moves(e) /\ job'[e].at \in {"refused", "checked"}
        /\ job[e].at = "idle" /\ UNCHANGED <<taskRec, history, ended, overlapped>>
    BY <1>1, CheckFacts DEF CheckDuplicate
  <2>. QED
    BY <1>b, <2>1
<1>2. ASSUME NEW x \in Runners, SpawnTask(x) PROVE EndedInv' /\ KeptInv'
  <2>1. /\ Moves(x) /\ job[x].at = "spawn" /\ job'[x].at = "running" /\ job'[x].started = taskClock
        /\ UNCHANGED <<taskRec, history, ended, overlapped>>
    BY <1>2, SpawnFacts DEF SpawnTask
  <2>2. \A y \in Runners : job'[y].at = "loaded" => job'[y] = job[y]
    BY <2>1 DEF Moves
  <2>3. \A f \in Requests :
          job'[f].at \in {"running", "loaded"} => taskRec'[f].started < job'[f].started
    BY <1>0, <2>1 DEF EndedInv, Moves, JobInv, Unadded
  <2>4. \A f \in Requests : job[f].at \in {"returned", "updated", "done"} => job'[f] = job[f]
    BY <1>0, <2>1 DEF Moves
  <2>. QED
    BY <2>1, <2>2, <2>3, <2>4, EndedFrame
<1>3. ASSUME NEW x \in Runners, NEW ok \in BOOLEAN, TaskExits(x, ok) PROVE EndedInv' /\ KeptInv'
  <2>1. /\ Moves(x) /\ Keeps(x) /\ job[x].at = "running" /\ job'[x].at = "loaded"
        /\ job'[x].finished = taskClock /\ job'[x].started = job[x].started
        /\ job'[x].snap = history[job[x].scope]
        /\ UNCHANGED <<taskRec, history, ended, overlapped>>
    BY <1>3, ExitFacts DEF TaskExits
  <2>2. job[x].scope \in TaskScopes /\ job[x].started < taskClock
    BY <2>1 DEF JobInv
  <2>3. EndedInv'
    BY <1>0, <2>1, <2>2 DEF EndedInv, Moves, Keeps
  <2>4. KeptInv'
    BY <2>1 DEF KeptInv, Moves, Keeps
  <2>. QED
    BY <2>3, <2>4
<1>4. ASSUME NEW x \in Runners, TaskError(x) PROVE EndedInv' /\ KeptInv'
  <2>1. /\ Moves(x) /\ job[x].at \in {"spawn", "loaded"} /\ job'[x].at = "error"
        /\ UNCHANGED <<taskRec, history, ended, overlapped>>
    BY <1>4, AtFacts DEF TaskError
  <2>. QED
    BY <1>0, <1>a, <1>b, <2>1
<1>5. ASSUME NEW x \in Runners, RunTask(x) PROVE EndedInv' /\ KeptInv'
  BY <1>2, <1>3, <1>4, <1>5, AppendStep DEF RunTask
<1>6. ASSUME NEW e \in Requests, add_task(e) PROVE EndedInv' /\ KeptInv'
  <2>1. /\ Moves(e) /\ job[e].at = "checked" /\ job'[e].at = "spawn"
        /\ UNCHANGED <<history, ended, overlapped>>
    BY <1>0, <1>6, AtFacts DEF add_task
  <2>2. \A f \in Requests \ {e} : taskRec'[f] = taskRec[f]
    BY <1>6, AddFacts
  <2>. QED
    BY <1>b, <2>1, <2>2
<1>7. ASSUME NEW e \in Requests, update_task_state(e) PROVE EndedInv' /\ KeptInv'
  <2>1. Moves(e) /\ job'[e].at = "updated" /\ UNCHANGED <<history, ended, overlapped>>
    BY <1>0, <1>7, AtFacts DEF update_task_state
  <2>2. \A f \in Requests : taskRec'[f].started = taskRec[f].started
    BY <1>7, StateFacts
  <2>. QED
    BY <1>b, <2>1, <2>2
<1>8. ASSUME NEW e \in Requests, AnnounceEnd(e) PROVE EndedInv' /\ KeptInv'
  <2>1. Moves(e) /\ job'[e].at = "done" /\ UNCHANGED <<taskRec, history, ended, overlapped>>
    BY <1>0, <1>8, AtFacts DEF AnnounceEnd
  <2>. QED
    BY <1>b, <2>1
<1>9. ASSUME NEW skip \in BOOLEAN, NEW s \in TaskScopes, BeginPhase(skip, s)
      PROVE  EndedInv' /\ KeptInv'
  BY <1>a, <1>9, ScopeFacts DEF BeginPhase
<1>10. CASE PhaseStep
  <2>1. PhaseTasks[phase.next] \in TaskNames
    BY <1>10, TaskAssumption DEF PhaseStep, TaskTypeOK, Phase
  <2>2. CASE UNCHANGED job
    BY <1>10, <2>2 DEF PhaseStep, EndedInv, KeptInv
  <2>3. CASE job' = [job EXCEPT ![PhaseWorker].at = "spawn",
                                ![PhaseWorker].task = PhaseTasks[phase.next]]
    <3>1. Moves(PhaseWorker) /\ job'[PhaseWorker].at = "spawn"
      BY <2>1, <2>3, PhaseTaskFacts
    <3>. QED
      BY <1>a, <1>10, <3>1 DEF PhaseStep
  <2>. QED
    BY <1>10, <2>2, <2>3 DEF PhaseStep
<1>11. CASE StoreHash
  BY <1>0, <1>a, <1>11, AtFacts DEF StoreHash
<1>12. CASE EndPhase
  <2>1. Moves(PhaseWorker) /\ job'[PhaseWorker] = IdleJob /\ IdleJob.at = "idle"
    BY <1>0, <1>12, IdleJobType, MoveFacts DEF EndPhase, IdleJob
  <2>. QED
    BY <1>a, <1>12, <2>1 DEF EndPhase
<1>13. ASSUME NEW t \in WatchedTasks, EditWatched(t) PROVE EndedInv' /\ KeptInv'
  BY <1>13 DEF EditWatched, EndedInv, KeptInv
<1>. QED
  BY <1>0, <1>1, <1>5, <1>6, <1>7, <1>8, <1>9, <1>10, <1>11, <1>12, <1>13 DEF TaskNext, Worker

-----------------------------------------------------------------------------
(***************************************************************************)
(* The execution that finished last is the only one latest_by_task knows   *)
(* of, and every detached execution started before it: its own record is   *)
(* stamped before its command is spawned.                                  *)
(***************************************************************************)
LEMMA VerdictFollows ==
    ASSUME TaskTypeOK, EndedInv, KeptInv
    PROVE  LastVerdictShown
<1>. SUFFICES ASSUME NEW s \in TaskScopes, NEW t \in TaskNames, NEW y \in ended, y[1] = s, y[2].task = t,
                     y[2].id \notin overlapped,
                     \A z \in ended : z[1] = s /\ z[2].task = t /\ z[2] # y[2]
                                        => z[2].finished < y[2].started,
                     \A e \in Requests \ {y[2].id} :
                        taskRec[e] # NoTask /\ taskRec[e].task = t /\ taskRec[e].scope = s
                        => taskRec[e].started < y[2].started,
                     NEW k \in run_tasks(s, t)
              PROVE  k.ok = y[2].ok
  BY DEF LastVerdictShown
<1>1. PICK x \in TaskEntry : x = y[2]
  BY DEF TaskTypeOK
<1>2. x.started \in Nat /\ x.finished \in Nat /\ x.started < x.finished
  BY <1>1 DEF TaskEntry, EndedInv
<1>3. x \in Range(history[s]) /\ x.task = t
  BY <1>1 DEF KeptInv
<1>4. \A h \in Range(history[s]) : h.task = t => h = x \/ (h.finished \in Nat /\ h.finished < x.started)
  <2>. SUFFICES ASSUME NEW h \in Range(history[s]), h.task = t, h # x
                PROVE  h.finished \in Nat /\ h.finished < x.started
    OBVIOUS
  <2>1. PICK z \in ended : z = <<s, h>>
    BY DEF EndedInv
  <2>2. z[1] = s /\ z[2] = h /\ z[2] \in TaskEntry
    BY <2>1 DEF TaskTypeOK
  <2>. QED
    BY <1>1, <2>2 DEF TaskEntry
<1>5. latest_by_task(s, t) = {[started |-> x.started, ok |-> x.ok]}
  <2>. DEFINE of == {h \in Range(history[s]) : h.task = t}
  <2>1. {g \in of : \A o \in of : o.finished <= g.finished} = {x}
    BY <1>2, <1>3, <1>4
  <2>2. latest_by_task(s, t) = {[started |-> h.started, ok |-> h.ok] :
            h \in {g \in of : \A o \in of : o.finished <= g.finished}}
    BY DEF latest_by_task
  <2>. HIDE DEF of
  <2>. QED
    BY <2>1, <2>2
<1>6. \A d \in task_summary_from_detached(s, t) : d.started < x.started
  BY <1>1 DEF task_summary_from_detached, EndedInv
<1>7. PICK c : c = [started |-> x.started, ok |-> x.ok]
  OBVIOUS
<1>8. c.started = x.started /\ c.ok = x.ok /\ c \in latest_by_task(s, t)
  BY <1>5, <1>7
<1>9. c.started <= k.started /\ (k = c \/ k \in task_summary_from_detached(s, t))
  BY <1>5, <1>7, <1>8 DEF run_tasks
<1>10. CASE k \in task_summary_from_detached(s, t)
  <2>1. k.started \in Nat
    BY <1>10 DEF task_summary_from_detached, TaskTypeOK, TaskExecution
  <2>2. k.started < x.started
    BY <1>6, <1>10
  <2>. QED
    BY <1>2, <1>8, <1>9, <2>1, <2>2
<1>. QED
  BY <1>1, <1>8, <1>9, <1>10

LEMMA TaskInvariant == TaskSpec => []TaskInv
<1>1. TaskInv /\ [TaskNext]_taskVars => TaskInv'
  <2>. SUFFICES ASSUME TaskInv, [TaskNext]_taskVars PROVE TaskInv'
    OBVIOUS
  <2>1. CASE TaskNext
    BY <2>1, TaskTypes, JobStep, RaceStep, HashStep, EndedStep DEF TaskInv
  <2>2. CASE UNCHANGED taskVars
    BY <2>2 DEF taskVars, TaskInv, TaskTypeOK, JobInv, RaceInv, RunningFor, DuplicateOnlyByRace,
                HashInv, UpToDateMeansBuilt, EndedInv, KeptInv
  <2>. QED
    BY <2>1, <2>2
<1>. QED
  BY <1>1, TaskInitial, PTL DEF TaskSpec

(***************************************************************************)
(* has_running_task lets a second execution of a task in the same run      *)
(* through only in the window between the check and add_task, however many *)
(* requests there are.                                                     *)
(***************************************************************************)
THEOREM TwiceOnlyByRace == TaskSpec => []DuplicateOnlyByRace
<1>1. TaskInv => DuplicateOnlyByRace
  BY DEF TaskInv
<1>. QED
  BY <1>1, TaskInvariant, PTL

(***************************************************************************)
(* run_service_tasks skips an init task only if an execution that read the *)
(* present version of its watched files succeeded, for any number of edits *)
(* before, while and after it runs.                                        *)
(***************************************************************************)
THEOREM SkippedMeansBuilt == TaskSpec => []UpToDateMeansBuilt
<1>1. TaskInv => UpToDateMeansBuilt
  BY DEF TaskInv
<1>. QED
  BY <1>1, TaskInvariant, PTL

(***************************************************************************)
(* run_tasks shows the verdict of the execution that started after all     *)
(* others had ended, though append_task_execution may have lost entries of *)
(* executions that overlapped.                                             *)
(***************************************************************************)
THEOREM LastVerdictIsShown == TaskSpec => []LastVerdictShown
<1>1. TaskInv => LastVerdictShown
  BY VerdictFollows DEF TaskInv
<1>. QED
  BY <1>1, TaskInvariant, PTL

-----------------------------------------------------------------------------
(***************************************************************************)
(* Agents.  The inbox of AgentMailbox is what the channel, a reply under   *)
(* way and the queue of a live session hold, in this order.  First what is *)
(* needed of sequences.                                                    *)
(***************************************************************************)
LEMMA ConcatAppend ==
    ASSUME NEW S, NEW s \in Seq(S), NEW t \in Seq(S), NEW v \in S
    PROVE  s \o Append(t, v) = Append(s \o t, v)
<1>. DEFINE l == s \o Append(t, v)
            r == Append(s \o t, v)
<1>1. l \in Seq(S) /\ r \in Seq(S) /\ Len(l) = Len(r) /\ Len(r) = Len(s) + Len(t) + 1
  OBVIOUS
<1>2. \A i \in 1 .. Len(r) : l[i] = r[i]
  OBVIOUS
<1>. HIDE DEF l, r
<1>3. l = r
  BY <1>1, <1>2
<1>. QED
  BY <1>3 DEF l, r

LEMMA ConcatHeadTail ==
    ASSUME NEW S, NEW s \in Seq(S), NEW t \in Seq(S), s # <<>>
    PROVE  s \o t # <<>> /\ Head(s \o t) = Head(s) /\ Tail(s \o t) = Tail(s) \o t
<1>. DEFINE l == Tail(s \o t)
            r == Tail(s) \o t
<1>0. Len(s) \in Nat /\ Len(s) > 0 /\ Len(t) \in Nat /\ s \o t \in Seq(S) /\ Len(s \o t) = Len(s) + Len(t)
  OBVIOUS
<1>a. s \o t # <<>> /\ Head(s \o t) = Head(s)
  BY <1>0
<1>1. l \in Seq(S) /\ r \in Seq(S) /\ Len(l) = Len(r) /\ Len(r) = Len(s) + Len(t) - 1
  BY <1>0, <1>a
<1>2. \A i \in 1 .. Len(r) : l[i] = r[i]
  BY <1>0, <1>a, <1>1
<1>. HIDE DEF l, r
<1>3. l = r
  BY <1>1, <1>2
<1>. QED
  BY <1>3, <1>a DEF l, r

LEMMA ConcatRegroup ==
    ASSUME NEW s \in Seq(Messages), NEW h \in Seq(Messages), NEW w \in Seq(Messages)
    PROVE  (s \o h) \o w = s \o (h \o w)
BY ConcatAssociative

\* A prefix and a suffix are remainders.
LEMMA PrefixRemains ==
    ASSUME NEW S, NEW s \in Seq(S), NEW t \in Seq(S)
    PROVE  Mailbox!Remainder(s, s \o t)
<1>. DEFINE f == [i \in DOMAIN s |-> i]
<1>1. f \in [DOMAIN s -> DOMAIN (s \o t)]
  OBVIOUS
<1>2. \A i \in DOMAIN s : s[i] = (s \o t)[f[i]]
  OBVIOUS
<1>3. \A i, j \in DOMAIN s : i < j => f[i] < f[j]
  OBVIOUS
<1>. HIDE DEF f
<1>. QED
  BY <1>1, <1>2, <1>3 DEF Mailbox!Remainder

LEMMA SuffixRemains ==
    ASSUME NEW S, NEW s \in Seq(S), NEW t \in Seq(S)
    PROVE  Mailbox!Remainder(t, s \o t)
<1>. DEFINE f == [i \in DOMAIN t |-> Len(s) + i]
<1>1. f \in [DOMAIN t -> DOMAIN (s \o t)]
  OBVIOUS
<1>2. \A i \in DOMAIN t : t[i] = (s \o t)[f[i]]
  OBVIOUS
<1>3. \A i, j \in DOMAIN t : i < j => f[i] < f[j]
  OBVIOUS
<1>. HIDE DEF f
<1>. QED
  BY <1>1, <1>2, <1>3 DEF Mailbox!Remainder

(***************************************************************************)
(* A session that is gone has no queue and a poll task that waits holds no *)
(* reply; an agent whose process ended counts as interrupted, and a proxy  *)
(* leaves its loop only then.                                              *)
(***************************************************************************)
DeliveryInv ==
    \A a \in Agents :
        /\ ~session[a].present => session[a].queue = <<>>
        /\ poll[a] # "reply" => hand[a] = <<>>
        /\ prox[a].at \in {"new", "registering"} => ~session[a].present /\ poll[a] = "off"
        /\ child[a] = "dead" => a \in cut
        /\ prox[a].at \in {"closing", "reading", "unregister", "done"} => child[a] = "dead"

AgentInv == AgentTypeOK /\ DeliveryInv

\* What the messages of an agent are, and which of them its queue holds.
Waiting(a) == cleanup_stale_sessions[a].queue
Box(a) == chan[a] \o hand[a] \o Waiting(a)
AcceptedOf(r) == {m \in Messages : r[m].at = "accepted"}

LEMMA WaitingFacts ==
    ASSUME AgentInv, NEW a \in Agents
    PROVE  /\ Waiting(a) = IF child[a] = "alive" THEN session[a].queue ELSE <<>>
           /\ Waiting(a) \in Seq(Messages)
           /\ a \in LiveAgents <=> child[a] = "alive" /\ session[a].present
           /\ a \notin LiveAgents => Waiting(a) = <<>>
           /\ chan[a] \in Seq(Messages) /\ hand[a] \in Seq(Messages) /\ Box(a) \in Seq(Messages)
<1>1. Waiting(a) = IF child[a] = "alive" THEN session[a].queue ELSE <<>>
  BY DEF Waiting, cleanup_stale_sessions, NoSession
<1>2. session[a].queue \in Seq(Messages) /\ <<>> \in Seq(Messages)
  BY DEF AgentInv, AgentTypeOK
<1>3. Waiting(a) \in Seq(Messages)
  BY <1>1, <1>2
<1>4. a \in LiveAgents <=> child[a] = "alive" /\ session[a].present
  BY DEF LiveAgents, cleanup_stale_sessions, NoSession
<1>5. a \notin LiveAgents => Waiting(a) = <<>>
  BY <1>1, <1>4 DEF AgentInv, DeliveryInv
<1>6. chan[a] \in Seq(Messages) /\ hand[a] \in Seq(Messages)
  BY DEF AgentInv, AgentTypeOK
<1>. QED
  BY <1>1, <1>3, <1>4, <1>5, <1>6 DEF Box

\* The sessions that are left after a method of the store.
SessionOK(S) ==
    /\ S = [a \in Agents |-> [present |-> S[a].present, created |-> S[a].created, queue |-> S[a].queue]]
    /\ \A a \in Agents : /\ S[a].present \in BOOLEAN /\ S[a].queue \in Seq(Messages)
                         /\ ~S[a].present => S[a].queue = <<>>

LEMMA CleanFacts ==
    ASSUME AgentInv
    PROVE  /\ SessionOK(cleanup_stale_sessions)
           /\ \A a \in Agents : child[a] # "alive" => ~cleanup_stale_sessions[a].present
           /\ \A a \in Agents : ~session[a].present => ~cleanup_stale_sessions[a].present
<1>. DEFINE C == cleanup_stale_sessions
<1>1. C = [a \in Agents |-> IF child[a] = "alive" THEN session[a] ELSE NoSession]
  BY DEF cleanup_stale_sessions
<1>2. /\ NoSession = [present |-> NoSession.present, created |-> NoSession.created, queue |-> NoSession.queue]
      /\ NoSession.present = FALSE /\ NoSession.queue = <<>> /\ <<>> \in Seq(Messages)
  BY DEF NoSession
<1>3. \A a \in Agents :
        /\ session[a] = [present |-> session[a].present, created |-> session[a].created, queue |-> session[a].queue]
        /\ session[a].present \in BOOLEAN /\ session[a].queue \in Seq(Messages)
        /\ ~session[a].present => session[a].queue = <<>>
  BY DEF AgentInv, AgentTypeOK, DeliveryInv
<1>. HIDE DEF C
<1>4. \A a \in Agents : (C[a] = session[a] /\ child[a] = "alive") \/ C[a] = NoSession
  BY <1>1
<1>5. \A a \in Agents :
        /\ C[a] = [present |-> C[a].present, created |-> C[a].created, queue |-> C[a].queue]
        /\ C[a].present \in BOOLEAN /\ C[a].queue \in Seq(Messages)
        /\ ~C[a].present => C[a].queue = <<>>
  BY <1>2, <1>3, <1>4
<1>6. C = [a \in Agents |-> [present |-> C[a].present, created |-> C[a].created, queue |-> C[a].queue]]
  BY <1>1, <1>5
<1>7. \A a \in Agents : child[a] # "alive" \/ ~session[a].present => ~C[a].present
  BY <1>1, <1>2
<1>. QED
  BY <1>5, <1>6, <1>7 DEF SessionOK, C

\* A session put into a store or removed from it, and its queue.
RecordOK(r) ==
    /\ r = [present |-> r.present, created |-> r.created, queue |-> r.queue]
    /\ r.present \in BOOLEAN /\ r.queue \in Seq(Messages)
    /\ ~r.present => r.queue = <<>>

Put(S, a, r) == [S EXCEPT ![a] = r]
WithQueue(S, a, q) == [S EXCEPT ![a].queue = q]

LEMMA PutRecord ==
    ASSUME NEW S, SessionOK(S), NEW a \in Agents, NEW r, RecordOK(r)
    PROVE  SessionOK(Put(S, a, r)) /\ Put(S, a, r)[a] = r /\ \A b \in Agents \ {a} : Put(S, a, r)[b] = S[b]
<1>. DEFINE T == Put(S, a, r)
<1>1. T = [b \in Agents |-> IF b = a THEN r ELSE S[b]]
  BY DEF SessionOK, Put
<1>. HIDE DEF T
<1>2. T[a] = r /\ \A b \in Agents \ {a} : T[b] = S[b]
  BY <1>1
<1>3. \A b \in Agents :
        /\ T[b] = [present |-> T[b].present, created |-> T[b].created, queue |-> T[b].queue]
        /\ T[b].present \in BOOLEAN /\ T[b].queue \in Seq(Messages)
        /\ ~T[b].present => T[b].queue = <<>>
  BY <1>2 DEF SessionOK, RecordOK
<1>4. T = [b \in Agents |-> [present |-> T[b].present, created |-> T[b].created, queue |-> T[b].queue]]
  BY <1>1, <1>3
<1>5. SessionOK(T)
  BY <1>3, <1>4 DEF SessionOK
<1>. QED
  BY <1>2, <1>5 DEF T

LEMMA NewRecord ==
    ASSUME NEW c, NEW r, r = [present |-> TRUE, queue |-> <<>>, created |-> c] \/ r = NoSession
    PROVE  RecordOK(r) /\ r.queue = <<>>
<1>1. CASE r = [present |-> TRUE, queue |-> <<>>, created |-> c]
  BY <1>1 DEF RecordOK
<1>2. CASE r = NoSession
  BY <1>2 DEF RecordOK, NoSession
<1>. QED
  BY <1>1, <1>2

LEMMA PutQueue ==
    ASSUME NEW S, SessionOK(S), NEW a \in Agents, NEW q \in Seq(Messages), S[a].present \/ q = <<>>
    PROVE  /\ SessionOK(WithQueue(S, a, q)) /\ WithQueue(S, a, q)[a].present = S[a].present
           /\ WithQueue(S, a, q)[a].queue = q
           /\ \A b \in Agents \ {a} : WithQueue(S, a, q)[b] = S[b]
<1>1. PICK r : r = [present |-> S[a].present, created |-> S[a].created, queue |-> q]
  OBVIOUS
<1>2. /\ r = [present |-> r.present, created |-> r.created, queue |-> r.queue]
      /\ r.present = S[a].present /\ r.queue = q
  BY <1>1
<1>3. S[a] = [present |-> S[a].present, created |-> S[a].created, queue |-> S[a].queue]
  BY DEF SessionOK
<1>4. [S[a] EXCEPT !.queue = q] = r
  BY <1>1, <1>3
<1>5. WithQueue(S, a, q) = Put(S, a, r)
  BY <1>4 DEF SessionOK, Put, WithQueue
<1>6. RecordOK(r)
  BY <1>2 DEF SessionOK, RecordOK
<1>. QED
  BY <1>2, <1>5, <1>6, PutRecord

ProxyStates == {"new", "registering", "running", "closing", "reading", "unregister", "done", "killed"}
RequestStates == {"new", "found", "accepted", "refused"}

LEMMA ProxyFacts ==
    ASSUME AgentInv, NEW a \in Agents, NEW at \in ProxyStates,
           \/ prox' = [prox EXCEPT ![a].at = at]
           \/ \E ok \in BOOLEAN : prox' = [prox EXCEPT ![a] = [at |-> at, registered |-> ok]]
    PROVE  /\ prox' \in [Agents -> [at : ProxyStates, registered : BOOLEAN]]
           /\ prox'[a].at = at /\ \A b \in Agents \ {a} : prox'[b] = prox[b]
<1>1. prox \in [Agents -> [at : ProxyStates, registered : BOOLEAN]]
  BY DEF AgentInv, AgentTypeOK, ProxyStates
<1>2. PICK p \in [at : ProxyStates, registered : BOOLEAN] : p.at = at /\ prox' = [prox EXCEPT ![a] = p]
  <2>1. CASE prox' = [prox EXCEPT ![a].at = at]
    <3>. DEFINE p == [prox[a] EXCEPT !.at = at]
    <3>1. p \in [at : ProxyStates, registered : BOOLEAN] /\ p.at = at
      BY <1>1
    <3>2. prox' = [prox EXCEPT ![a] = p]
      BY <1>1, <2>1
    <3>. QED
      BY <3>1, <3>2
  <2>2. ASSUME NEW ok \in BOOLEAN, prox' = [prox EXCEPT ![a] = [at |-> at, registered |-> ok]]
        PROVE  \E p \in [at : ProxyStates, registered : BOOLEAN] : p.at = at /\ prox' = [prox EXCEPT ![a] = p]
    BY <2>2
  <2>. QED
    BY <2>1, <2>2
<1>. QED
  BY <1>1, <1>2

LEMMA RequestFacts ==
    ASSUME AgentInv, NEW m \in Messages, NEW at \in RequestStates, NEW to \in Agents \cup {NoAgent},
           \/ request' = [request EXCEPT ![m].at = at]
           \/ request' = [request EXCEPT ![m] = [at |-> at, to |-> to]]
    PROVE  /\ request' \in [Messages -> [at : RequestStates, to : Agents \cup {NoAgent}]]
           /\ request'[m].at = at /\ \A n \in Messages \ {m} : request'[n] = request[n]
<1>1. request \in [Messages -> [at : RequestStates, to : Agents \cup {NoAgent}]]
  BY DEF AgentInv, AgentTypeOK, RequestStates
<1>2. PICK p \in [at : RequestStates, to : Agents \cup {NoAgent}] :
        p.at = at /\ request' = [request EXCEPT ![m] = p]
  <2>1. CASE request' = [request EXCEPT ![m].at = at]
    <3>. DEFINE p == [request[m] EXCEPT !.at = at]
    <3>1. p \in [at : RequestStates, to : Agents \cup {NoAgent}] /\ p.at = at
      BY <1>1
    <3>2. request' = [request EXCEPT ![m] = p]
      BY <1>1, <2>1
    <3>. QED
      BY <3>1, <3>2
  <2>2. CASE request' = [request EXCEPT ![m] = [at |-> at, to |-> to]]
    BY <2>2
  <2>. QED
    BY <2>1, <2>2
<1>. QED
  BY <1>1, <1>2

LEMMA AgentInitial == AgentInit => AgentInv
<1>. SUFFICES ASSUME AgentInit PROVE AgentInv
  OBVIOUS
<1>1. \A a \in Agents : session[a] = NoSession
  BY DEF AgentInit
<1>2. /\ NoSession = [present |-> FALSE, created |-> 0, queue |-> <<>>]
      /\ ~NoSession.present /\ NoSession.queue = <<>> /\ NoSession.created = 0 /\ NoSession.present = FALSE
  BY DEF NoSession
<1>3. session = [a \in Agents |-> [present |-> session[a].present, created |-> session[a].created,
                                   queue |-> session[a].queue]]
  <2>1. \A a \in Agents : [present |-> session[a].present, created |-> session[a].created,
                          queue |-> session[a].queue] = NoSession
    BY <1>1, <1>2
  <2>. QED
    BY <2>1 DEF AgentInit
<1>4. \A a \in Agents : /\ session[a].present \in BOOLEAN /\ session[a].queue \in Seq(Messages)
                        /\ ~session[a].present
  <2>1. NoSession.present \in BOOLEAN /\ NoSession.queue \in Seq(Messages) /\ ~NoSession.present
    BY DEF NoSession
  <2>. QED
    BY <1>1, <2>1
<1>5. /\ hand \in [Agents -> Seq(Messages)] /\ chan \in [Agents -> Seq(Messages)]
      /\ pty \in [Agents -> Seq(Messages)]
  BY DEF AgentInit
<1>6. AgentTypeOK
  BY <1>3, <1>4, <1>5 DEF AgentInit, AgentTypeOK
<1>7. DeliveryInv
  BY <1>1, <1>2 DEF AgentInit, DeliveryInv
<1>. QED
  BY <1>6, <1>7 DEF AgentInv

\* The invariant in the parts the steps disturb.
PlacesOK ==
    /\ SessionOK(session) /\ chan \in [Agents -> Seq(Messages)] /\ hand \in [Agents -> Seq(Messages)]

TasksOK ==
    /\ prox \in [Agents -> [at : ProxyStates, registered : BOOLEAN]]
    /\ child \in [Agents -> {"none", "alive", "dead"}]
    /\ poll \in [Agents -> {"off", "idle", "asked", "reply"}]
    /\ senders \in [Agents -> SUBSET {"main", "stdin", "poll"}]
    /\ cut \subseteq Agents

OthersOK ==
    /\ request \in [Messages -> [at : RequestStates, to : Agents \cup {NoAgent}]]
    /\ pty \in [Agents -> Seq(Messages)] /\ ptyOpen \in [Agents -> BOOLEAN]
    /\ daemonRestarts \in Nat

LEMMA AgentInvParts == AgentInv <=> PlacesOK /\ TasksOK /\ OthersOK /\ DeliveryInv
<1>1. AgentInv => PlacesOK
  BY DEF AgentInv, AgentTypeOK, DeliveryInv, PlacesOK, SessionOK
<1>2. AgentInv => TasksOK /\ OthersOK /\ DeliveryInv
  BY DEF AgentInv, AgentTypeOK, TasksOK, OthersOK, ProxyStates, RequestStates
<1>3. PlacesOK /\ TasksOK /\ OthersOK /\ DeliveryInv => AgentInv
  BY DEF AgentInv, AgentTypeOK, PlacesOK, SessionOK, TasksOK, OthersOK, ProxyStates, RequestStates
<1>. QED
  BY <1>1, <1>2, <1>3

LEMMA AgentInvNext == PlacesOK' /\ TasksOK' /\ OthersOK' /\ DeliveryInv' => AgentInv'
BY DEF AgentInv, AgentTypeOK, PlacesOK, SessionOK, TasksOK, OthersOK, ProxyStates, RequestStates

-----------------------------------------------------------------------------
(***************************************************************************)
(* The steps of AgentMailbox that a step of the agents is.                 *)
(***************************************************************************)
LEMMA WaitingNext ==
    \A a \in Agents : Waiting(a)' = IF child'[a] = "alive" THEN session'[a].queue ELSE <<>>
BY DEF Waiting, cleanup_stale_sessions, NoSession

LEMMA StutterMap ==
    ASSUME \A a \in Agents : Box(a)' = Box(a), AcceptedOf(request') = AcceptedOf(request),
           UNCHANGED <<pty, cut>>
    PROVE  UNCHANGED Mailbox!mailboxVars
<1>1. [a \in Agents |-> Box(a)]' = [a \in Agents |-> Box(a)]
  OBVIOUS
<1>2. UNCHANGED [a \in Agents |-> chan[a] \o hand[a] \o cleanup_stale_sessions[a].queue]
  BY <1>1 DEF Box, Waiting
<1>. QED
  BY <1>2 DEF Mailbox!mailboxVars, AcceptedOf

LEMMA InterruptMap ==
    ASSUME NEW A \in SUBSET Agents, \A a \in Agents : Box(a)' \in Seq(Messages),
           \A a \in A : Mailbox!Remainder(Box(a)', Box(a)),
           \A a \in Agents \ A : Box(a)' = Box(a),
           AcceptedOf(request') = AcceptedOf(request), UNCHANGED pty, cut' = cut \cup A
    PROVE  Mailbox!MailboxNext
<1>1. Mailbox!Interrupt(A)
  <2>1. [a \in Agents |-> Box(a)]' \in [Agents -> Seq(Messages)]
    OBVIOUS
  <2>2. \A a \in Agents : IF a \in A THEN Mailbox!Remainder([b \in Agents |-> Box(b)]'[a], [b \in Agents |-> Box(b)][a])
                          ELSE [b \in Agents |-> Box(b)]'[a] = [b \in Agents |-> Box(b)][a]
    OBVIOUS
  <2>. QED
    BY <2>1, <2>2 DEF Mailbox!Interrupt, Box, Waiting, AcceptedOf
<1>. QED
  BY <1>1 DEF Mailbox!MailboxNext

(***************************************************************************)
(* Requests of the dashboard: the first only drops sessions whose process  *)
(* is gone, the second is Accept.                                          *)
(***************************************************************************)
LEMMA FindStep ==
    ASSUME AgentInv, NEW m \in Messages, find_latest_for_project(m)
    PROVE  AgentInv' /\ UNCHANGED Mailbox!mailboxVars
<1>1. PICK a \in LiveAgents \cup {NoAgent} :
        request' = [request EXCEPT ![m] = [at |-> IF a = NoAgent THEN "refused" ELSE "found", to |-> a]]
  BY DEF find_latest_for_project
<1>2. PICK at \in {"refused", "found"} : at = IF a = NoAgent THEN "refused" ELSE "found"
  OBVIOUS
<1>3. a \in Agents \cup {NoAgent} /\ at \in RequestStates /\ request' = [request EXCEPT ![m] = [at |-> at, to |-> a]]
  BY <1>1, <1>2 DEF LiveAgents, RequestStates
<1>4. /\ request' \in [Messages -> [at : RequestStates, to : Agents \cup {NoAgent}]]
      /\ request'[m].at = at /\ \A n \in Messages \ {m} : request'[n] = request[n]
  BY <1>3, RequestFacts
<1>5. /\ session' = cleanup_stale_sessions /\ request[m].at = "new"
      /\ UNCHANGED <<prox, child, poll, hand, senders, chan, pty, ptyOpen, daemonRestarts, cut>>
  BY DEF find_latest_for_project
<1>6. /\ SessionOK(session')
      /\ \A b \in Agents : ~session[b].present => ~session'[b].present
  BY <1>5, CleanFacts
<1>7. AgentInv'
  <2>1. PlacesOK' /\ TasksOK' /\ OthersOK'
    BY <1>4, <1>5, <1>6, AgentInvParts DEF PlacesOK, TasksOK, OthersOK
  <2>2. DeliveryInv'
    BY <1>5, <1>6 DEF AgentInv, DeliveryInv, SessionOK
  <2>. QED
    BY <2>1, <2>2, AgentInvNext
<1>8. \A b \in Agents : Box(b)' = Box(b)
  <2>1. \A b \in Agents : Waiting(b)' = Waiting(b)
    BY <1>5, WaitingNext, WaitingFacts DEF Waiting
  <2>. QED
    BY <1>5, <2>1 DEF Box
<1>9. AcceptedOf(request') = AcceptedOf(request)
  BY <1>2, <1>4, <1>5 DEF AcceptedOf
<1>. QED
  BY <1>5, <1>7, <1>8, <1>9, StutterMap

LEMMA QueueStep ==
    ASSUME AgentInv, NEW m \in Messages, queue_message(m)
    PROVE  AgentInv' /\ [Mailbox!MailboxNext]_(Mailbox!mailboxVars)
<1>0. /\ SessionOK(cleanup_stale_sessions)
      /\ \A b \in Agents : ~session[b].present => ~cleanup_stale_sessions[b].present
  BY CleanFacts
<1>1. PICK a \in Agents \cup {NoAgent} : a = request[m].to
  BY DEF AgentInv, AgentTypeOK
<1>2. /\ request[m].at = "found"
      /\ UNCHANGED <<prox, child, poll, hand, senders, chan, pty, ptyOpen, daemonRestarts, cut>>
  BY DEF queue_message
<1>3. CASE a \in LiveAgents
  <2>0. a \in Agents
    BY <1>3 DEF LiveAgents
  <2>1. request' = [request EXCEPT ![m].at = "accepted"]
    BY <1>1, <1>3 DEF queue_message
  <2>2. /\ request' \in [Messages -> [at : RequestStates, to : Agents \cup {NoAgent}]]
        /\ request'[m].at = "accepted" /\ \A n \in Messages \ {m} : request'[n] = request[n]
    BY <1>1, <2>1, RequestFacts DEF RequestStates
  <2>. DEFINE q == Append(Waiting(a), m)
  <2>3. q \in Seq(Messages)
    BY <2>0, WaitingFacts
  <2>4. session' = WithQueue(cleanup_stale_sessions, a, q)
    BY <1>1, <1>3 DEF queue_message, Waiting, WithQueue
  <2>5. child[a] = "alive" /\ session[a].present /\ cleanup_stale_sessions[a].present
    BY <1>3, <2>0, WaitingFacts DEF LiveAgents
  <2>. HIDE DEF q
  <2>6. /\ SessionOK(session') /\ session'[a].present = cleanup_stale_sessions[a].present /\ session'[a].queue = q
        /\ \A b \in Agents \ {a} : session'[b] = cleanup_stale_sessions[b]
    <3>1. PICK C : C = cleanup_stale_sessions
      OBVIOUS
    <3>2. PICK r \in Seq(Messages) : r = q
      BY <2>3
    <3>3. SessionOK(C) /\ session' = WithQueue(C, a, r)
      BY <1>0, <2>4, <3>1, <3>2
    <3>4. C[a].present
      BY <2>5, <3>1
    <3>5. /\ SessionOK(WithQueue(C, a, r)) /\ WithQueue(C, a, r)[a].present = C[a].present
          /\ WithQueue(C, a, r)[a].queue = r
          /\ \A b \in Agents \ {a} : WithQueue(C, a, r)[b] = C[b]
      BY <2>0, <3>3, <3>4, PutQueue
    <3>. QED
      BY <3>1, <3>2, <3>3, <3>5
  <2>7. AgentInv'
    <3>1. PlacesOK' /\ TasksOK' /\ OthersOK'
      BY <1>2, <2>2, <2>6, AgentInvParts DEF PlacesOK, TasksOK, OthersOK
    <3>2. DeliveryInv'
      BY <1>0, <1>2, <2>5, <2>6 DEF AgentInv, DeliveryInv, SessionOK
    <3>. QED
      BY <3>1, <3>2, AgentInvNext
  <2>8. Waiting(a)' = q /\ \A b \in Agents \ {a} : Waiting(b)' = Waiting(b)
    BY <1>2, <2>0, <2>5, <2>6, WaitingNext, WaitingFacts DEF Waiting
  <2>9. Box(a)' = Append(Box(a), m)
    <3>0. chan[a] \in Seq(Messages) /\ hand[a] \in Seq(Messages)
      BY <2>0, WaitingFacts
    <3>1. PICK s \in Seq(Messages) : s = chan[a] \o hand[a]
      BY <3>0, ConcatProperties
    <3>2. PICK w \in Seq(Messages) : w = Waiting(a)
      BY <2>0, WaitingFacts
    <3>3. s \o Append(w, m) = Append(s \o w, m)
      BY ConcatAppend
    <3>4. Box(a)' = s \o Append(w, m) /\ Box(a) = s \o w
      BY <1>2, <2>8, <3>1, <3>2 DEF Box, q
    <3>. QED
      BY <3>3, <3>4
  <2>10. \A b \in Agents \ {a} : Box(b)' = Box(b)
    BY <1>2, <2>8 DEF Box
  <2>11. [b \in Agents |-> Box(b)]' = [[b \in Agents |-> Box(b)] EXCEPT ![a] = Append(@, m)]
    BY <2>0, <2>9, <2>10
  <2>12. m \notin AcceptedOf(request) /\ AcceptedOf(request') = AcceptedOf(request) \cup {m}
    BY <1>2, <2>2 DEF AcceptedOf
  <2>13. Mailbox!Accept(a, m)
    BY <1>2, <2>11, <2>12 DEF Mailbox!Accept, Box, Waiting, AcceptedOf
  <2>. QED
    BY <2>0, <2>7, <2>13 DEF Mailbox!MailboxNext
<1>4. CASE a \notin LiveAgents
  <2>1. request' = [request EXCEPT ![m].at = "refused"] /\ session' = cleanup_stale_sessions
    BY <1>1, <1>4 DEF queue_message
  <2>2. /\ request' \in [Messages -> [at : RequestStates, to : Agents \cup {NoAgent}]]
        /\ request'[m].at = "refused" /\ \A n \in Messages \ {m} : request'[n] = request[n]
    BY <1>1, <2>1, RequestFacts DEF RequestStates
  <2>3. AgentInv'
    <3>1. PlacesOK' /\ TasksOK' /\ OthersOK'
      BY <1>0, <1>2, <2>1, <2>2, AgentInvParts DEF PlacesOK, TasksOK, OthersOK
    <3>2. DeliveryInv'
      BY <1>0, <1>2, <2>1 DEF AgentInv, DeliveryInv, SessionOK
    <3>. QED
      BY <3>1, <3>2, AgentInvNext
  <2>4. \A b \in Agents : Waiting(b)' = Waiting(b)
    BY <1>2, <2>1, WaitingNext, WaitingFacts DEF Waiting
  <2>5. \A b \in Agents : Box(b)' = Box(b)
    BY <1>2, <2>4 DEF Box
  <2>6. AcceptedOf(request') = AcceptedOf(request)
    BY <1>2, <2>2 DEF AcceptedOf
  <2>. QED
    BY <1>2, <2>3, <2>5, <2>6, StutterMap
<1>. QED
  BY <1>3, <1>4

(***************************************************************************)
(* The start of a proxy.                                                   *)
(***************************************************************************)
LEMMA SpawnStep ==
    ASSUME AgentInv, NEW a \in Agents, SpawnAgent(a)
    PROVE  AgentInv' /\ UNCHANGED Mailbox!mailboxVars
<1>1. /\ prox[a].at = "new" /\ child' = [child EXCEPT ![a] = "alive"]
      /\ ptyOpen' = [ptyOpen EXCEPT ![a] = TRUE]
      /\ UNCHANGED <<session, poll, hand, senders, chan, pty, request, daemonRestarts, cut>>
  BY DEF SpawnAgent
<1>2. /\ prox' \in [Agents -> [at : ProxyStates, registered : BOOLEAN]]
      /\ prox'[a].at = "registering" /\ \A b \in Agents \ {a} : prox'[b] = prox[b]
  BY ProxyFacts DEF SpawnAgent, ProxyStates
<1>3. child'[a] = "alive" /\ \A b \in Agents \ {a} : child'[b] = child[b]
  BY <1>1 DEF AgentInv, AgentTypeOK
<1>4. AgentInv'
  <2>1. PlacesOK' /\ TasksOK' /\ OthersOK'
    BY <1>1, <1>2, AgentInvParts DEF PlacesOK, TasksOK, OthersOK
  <2>2. DeliveryInv'
    BY <1>1, <1>2, <1>3 DEF AgentInv, DeliveryInv
  <2>. QED
    BY <2>1, <2>2, AgentInvNext
<1>5. session[a].queue = <<>>
  BY <1>1 DEF AgentInv, DeliveryInv
<1>6. \A b \in Agents : Waiting(b)' = Waiting(b)
  BY <1>1, <1>3, <1>5, WaitingNext, WaitingFacts
<1>7. \A b \in Agents : Box(b)' = Box(b)
  BY <1>1, <1>6 DEF Box
<1>. QED
  BY <1>1, <1>4, <1>7, StutterMap

LEMMA RegisterStep ==
    ASSUME AgentInv, NEW a \in Agents, register_session(a)
    PROVE  AgentInv' /\ UNCHANGED Mailbox!mailboxVars
<1>0. /\ SessionOK(cleanup_stale_sessions) /\ SessionOK(session)
      /\ \A b \in Agents : ~session[b].present => ~cleanup_stale_sessions[b].present
  BY CleanFacts, AgentInvParts DEF PlacesOK
<1>1. PICK ok \in BOOLEAN :
         /\ prox' = [prox EXCEPT ![a] = [at |-> "running", registered |-> ok]]
         /\ session' = IF ok
                       THEN [cleanup_stale_sessions EXCEPT ![a] =
                               [present |-> TRUE, queue |-> <<>>,
                                created |-> 1 + Max({session[b].created : b \in Agents})]]
                       ELSE session
         /\ poll' = [poll EXCEPT ![a] = IF ok THEN "idle" ELSE "off"]
         /\ senders' = [senders EXCEPT ![a] = {"main", "stdin"} \cup IF ok THEN {"poll"} ELSE {}]
  BY DEF register_session
<1>2. /\ prox[a].at = "registering"
      /\ UNCHANGED <<child, hand, chan, pty, ptyOpen, request, daemonRestarts, cut>>
  BY DEF register_session
<1>3. /\ prox' \in [Agents -> [at : ProxyStates, registered : BOOLEAN]]
      /\ prox'[a].at = "running" /\ \A b \in Agents \ {a} : prox'[b] = prox[b]
  BY <1>1, ProxyFacts DEF ProxyStates
<1>4. /\ poll' \in [Agents -> {"off", "idle", "asked", "reply"}]
      /\ poll'[a] # "reply" /\ \A b \in Agents \ {a} : poll'[b] = poll[b]
  BY <1>1 DEF AgentInv, AgentTypeOK
<1>5. senders' \in [Agents -> SUBSET {"main", "stdin", "poll"}]
  BY <1>1 DEF AgentInv, AgentTypeOK
<1>6. ~session[a].present /\ session[a].queue = <<>> /\ Waiting(a) = <<>>
  BY <1>2, WaitingFacts DEF AgentInv, DeliveryInv
<1>7. /\ SessionOK(session') /\ session'[a].queue = <<>>
      /\ \A b \in Agents \ {a} : session'[b] \in {session[b], cleanup_stale_sessions[b]}
  <2>1. CASE ok
    <3>1. PICK c : c = 1 + Max({session[b].created : b \in Agents})
      OBVIOUS
    <3>2. session' = Put(cleanup_stale_sessions, a, [present |-> TRUE, queue |-> <<>>, created |-> c])
      BY <1>1, <2>1, <3>1 DEF Put
    <3>3. PICK r : r = [present |-> TRUE, queue |-> <<>>, created |-> c]
      OBVIOUS
    <3>4. RecordOK(r) /\ r.queue = <<>> /\ session' = Put(cleanup_stale_sessions, a, r)
      BY <3>2, <3>3, NewRecord
    <3>. QED
      BY <1>0, <3>4, PutRecord
  <2>2. CASE ~ok
    <3>1. session' = session
      BY <1>1, <2>2
    <3>. QED
      BY <1>0, <1>6, <3>1
  <2>. QED
    BY <2>1, <2>2
<1>8. AgentInv'
  <2>1. PlacesOK' /\ TasksOK' /\ OthersOK'
    BY <1>2, <1>3, <1>4, <1>5, <1>7, AgentInvParts DEF PlacesOK, TasksOK, OthersOK
  <2>2. \A b \in Agents \ {a} : ~session[b].present => ~session'[b].present
    BY <1>0, <1>7
  <2>3. hand[a] = <<>>
    BY <1>2 DEF AgentInv, DeliveryInv
  <2>4. DeliveryInv'
    BY <1>2, <1>3, <1>4, <1>7, <2>2, <2>3 DEF AgentInv, DeliveryInv, SessionOK
  <2>. QED
    BY <2>1, <2>4, AgentInvNext
<1>9. \A b \in Agents : Waiting(b)' = Waiting(b)
  <2>1. Waiting(a)' = <<>>
    BY <1>7, WaitingNext
  <2>2. ASSUME NEW b \in Agents \ {a} PROVE Waiting(b)' = Waiting(b)
    <3>1. child[b] = "alive" => cleanup_stale_sessions[b] = session[b]
      BY DEF cleanup_stale_sessions
    <3>. QED
      BY <1>2, <1>7, <3>1, WaitingNext, WaitingFacts
  <2>. QED
    BY <1>6, <2>1, <2>2
<1>10. \A b \in Agents : Box(b)' = Box(b)
  BY <1>2, <1>9 DEF Box
<1>. QED
  BY <1>2, <1>8, <1>10, StutterMap

(***************************************************************************)
(* A poll moves the messages from the queue to the reply and from there to *)
(* the channel: the inbox stays what it is.  The writer is TypeNext.       *)
(***************************************************************************)
LEMMA AsksStep ==
    ASSUME AgentInv, NEW a \in Agents, PollAsks(a) \/ TerminalCloses(a)
    PROVE  AgentInv' /\ UNCHANGED Mailbox!mailboxVars
<1>1. UNCHANGED <<session, prox, child, hand, senders, chan, pty, request, daemonRestarts, cut>>
  BY DEF PollAsks, TerminalCloses
<1>2. /\ poll' \in [Agents -> {"off", "idle", "asked", "reply"}]
      /\ \A b \in Agents : poll'[b] = poll[b] \/ (poll[b] = "idle" /\ poll'[b] = "asked")
  BY DEF PollAsks, TerminalCloses, AgentInv, AgentTypeOK
<1>3. ptyOpen' \in [Agents -> BOOLEAN]
  BY DEF PollAsks, TerminalCloses, AgentInv, AgentTypeOK
<1>4. AgentInv'
  <2>1. PlacesOK' /\ TasksOK' /\ OthersOK'
    BY <1>1, <1>2, <1>3, AgentInvParts DEF PlacesOK, TasksOK, OthersOK
  <2>2. DeliveryInv'
    BY <1>1, <1>2 DEF AgentInv, DeliveryInv
  <2>. QED
    BY <2>1, <2>2, AgentInvNext
<1>5. \A b \in Agents : Box(b)' = Box(b)
  BY <1>1 DEF Box, Waiting, cleanup_stale_sessions
<1>. QED
  BY <1>1, <1>4, <1>5, StutterMap

LEMMA PollStep ==
    ASSUME AgentInv, NEW a \in Agents, poll_messages(a)
    PROVE  AgentInv' /\ UNCHANGED Mailbox!mailboxVars
<1>0. /\ SessionOK(cleanup_stale_sessions)
      /\ \A b \in Agents : ~session[b].present => ~cleanup_stale_sessions[b].present
  BY CleanFacts
<1>1. /\ poll[a] = "asked" /\ session' = WithQueue(cleanup_stale_sessions, a, <<>>)
      /\ UNCHANGED <<prox, child, senders, chan, pty, ptyOpen, request, daemonRestarts, cut>>
  BY DEF poll_messages, WithQueue
<1>2. /\ SessionOK(session') /\ session'[a].present = cleanup_stale_sessions[a].present
      /\ session'[a].queue = <<>>
      /\ \A b \in Agents \ {a} : session'[b] = cleanup_stale_sessions[b]
  <2>1. PICK C : C = cleanup_stale_sessions
    OBVIOUS
  <2>0. <<>> \in Seq(Messages)
    OBVIOUS
  <2>2. PICK r \in Seq(Messages) : r = <<>>
    BY <2>0
  <2>3. SessionOK(C) /\ session' = WithQueue(C, a, r)
    BY <1>0, <1>1, <2>1, <2>2
  <2>4. /\ SessionOK(WithQueue(C, a, r)) /\ WithQueue(C, a, r)[a].present = C[a].present
        /\ WithQueue(C, a, r)[a].queue = r
        /\ \A b \in Agents \ {a} : WithQueue(C, a, r)[b] = C[b]
    BY <2>2, <2>3, PutQueue
  <2>. QED
    BY <2>1, <2>2, <2>3, <2>4
<1>3. PICK w \in Seq(Messages) : w = Waiting(a)
  BY WaitingFacts
<1>4. hand' \in [Agents -> Seq(Messages)] /\ hand'[a] = w /\ \A b \in Agents \ {a} : hand'[b] = hand[b]
  <2>1. hand' = [hand EXCEPT ![a] = w]
    <3>1. CASE a \in LiveAgents
      BY <1>3, <3>1, WaitingFacts DEF poll_messages, drain_messages
    <3>2. CASE a \notin LiveAgents
      BY <1>3, <3>2, WaitingFacts DEF poll_messages
    <3>. QED
      BY <3>1, <3>2
  <2>. QED
    BY <2>1 DEF AgentInv, AgentTypeOK
<1>5. /\ poll' \in [Agents -> {"off", "idle", "asked", "reply"}]
      /\ poll'[a] = IF a \in LiveAgents THEN "reply" ELSE "idle"
      /\ \A b \in Agents \ {a} : poll'[b] = poll[b]
  BY DEF poll_messages, AgentInv, AgentTypeOK
<1>6. poll'[a] # "reply" => w = <<>>
  BY <1>3, <1>5, WaitingFacts
<1>7. AgentInv'
  <2>1. PlacesOK' /\ TasksOK' /\ OthersOK'
    BY <1>1, <1>2, <1>4, <1>5, AgentInvParts DEF PlacesOK, TasksOK, OthersOK
  <2>2. DeliveryInv'
    <3>1. \A b \in Agents : ~session'[b].present => session'[b].queue = <<>>
      BY <1>2 DEF SessionOK
    <3>2. \A b \in Agents : poll'[b] # "reply" => hand'[b] = <<>>
      BY <1>4, <1>5, <1>6 DEF AgentInv, DeliveryInv
    <3>3. prox[a].at \notin {"new", "registering"}
      BY <1>1 DEF AgentInv, DeliveryInv
    <3>4. \A b \in Agents : prox[b].at \in {"new", "registering"} => ~session'[b].present /\ poll'[b] = "off"
      BY <1>0, <1>2, <1>5, <3>3 DEF AgentInv, DeliveryInv
    <3>. QED
      BY <1>1, <3>1, <3>2, <3>4 DEF AgentInv, DeliveryInv
  <2>. QED
    BY <2>1, <2>2, AgentInvNext
<1>8. Waiting(a)' = <<>> /\ \A b \in Agents \ {a} : Waiting(b)' = Waiting(b)
  <2>1. \A b \in Agents : Waiting(b)' = IF child[b] = "alive" THEN session'[b].queue ELSE <<>>
    BY <1>1, WaitingNext
  <2>2. \A b \in Agents : Waiting(b) = IF child[b] = "alive" THEN session[b].queue ELSE <<>>
    BY WaitingFacts
  <2>3. \A b \in Agents \ {a} : session'[b].queue = Waiting(b)
    BY <1>2 DEF Waiting
  <2>4. session'[a].queue = <<>>
    BY <1>2
  <2>5. Waiting(a)' = <<>>
    BY <2>1, <2>4
  <2>6. ASSUME NEW b \in Agents \ {a} PROVE Waiting(b)' = Waiting(b)
    <3>1. Waiting(b)' = IF child[b] = "alive" THEN Waiting(b) ELSE <<>>
      BY <2>1, <2>3
    <3>2. child[b] # "alive" => Waiting(b) = <<>>
      BY <2>2
    <3>. QED
      BY <3>1, <3>2
  <2>. QED
    BY <2>5, <2>6
<1>9. Box(a)' = Box(a)
  <2>1. PICK s \in Seq(Messages) : s = chan[a]
    BY WaitingFacts
  <2>2. hand[a] = <<>>
    BY <1>1 DEF AgentInv, DeliveryInv
  <2>3. Box(a)' = (s \o w) \o <<>> /\ Box(a) = (s \o <<>>) \o w
    BY <1>1, <1>3, <1>4, <1>8, <2>1, <2>2 DEF Box
  <2>4. s \o w \in Seq(Messages)
    BY ConcatProperties
  <2>. QED
    BY <2>3, <2>4, ConcatEmptySeq
<1>10. \A b \in Agents \ {a} : Box(b)' = Box(b)
  BY <1>1, <1>4, <1>8 DEF Box
<1>. QED
  BY <1>1, <1>7, <1>9, <1>10, StutterMap

LEMMA ReturnsStep ==
    ASSUME AgentInv, NEW a \in Agents, PollReturns(a)
    PROVE  AgentInv' /\ UNCHANGED Mailbox!mailboxVars
<1>1. /\ poll[a] = "reply"
      /\ UNCHANGED <<session, prox, child, senders, pty, ptyOpen, request, daemonRestarts, cut>>
  BY DEF PollReturns
<1>2. PICK s \in Seq(Messages), h \in Seq(Messages), w \in Seq(Messages) :
        s = chan[a] /\ h = hand[a] /\ w = Waiting(a)
  BY WaitingFacts
<1>3. s \o h \in Seq(Messages)
  BY ConcatProperties
<1>4. chan' \in [Agents -> Seq(Messages)] /\ chan'[a] = s \o h /\ \A b \in Agents \ {a} : chan'[b] = chan[b]
  BY <1>2, <1>3 DEF PollReturns, AgentInv, AgentTypeOK
<1>5. hand' \in [Agents -> Seq(Messages)] /\ hand'[a] = <<>> /\ \A b \in Agents \ {a} : hand'[b] = hand[b]
  BY DEF PollReturns, AgentInv, AgentTypeOK
<1>6. /\ poll' \in [Agents -> {"off", "idle", "asked", "reply"}]
      /\ poll'[a] = "idle" /\ \A b \in Agents \ {a} : poll'[b] = poll[b]
  BY DEF PollReturns, AgentInv, AgentTypeOK
<1>7. AgentInv'
  <2>1. PlacesOK' /\ TasksOK' /\ OthersOK'
    BY <1>1, <1>4, <1>5, <1>6, AgentInvParts DEF PlacesOK, TasksOK, OthersOK
  <2>2. DeliveryInv'
    BY <1>1, <1>5, <1>6 DEF AgentInv, DeliveryInv
  <2>. QED
    BY <2>1, <2>2, AgentInvNext
<1>8. \A b \in Agents : Waiting(b)' = Waiting(b)
  BY <1>1 DEF Waiting, cleanup_stale_sessions
<1>9. Box(a)' = Box(a)
  <2>1. Box(a)' = ((s \o h) \o <<>>) \o w /\ Box(a) = (s \o h) \o w
    BY <1>2, <1>4, <1>5, <1>8 DEF Box
  <2>. QED
    BY <1>3, <2>1, ConcatEmptySeq
<1>10. \A b \in Agents \ {a} : Box(b)' = Box(b)
  BY <1>4, <1>5, <1>8 DEF Box
<1>. QED
  BY <1>1, <1>7, <1>9, <1>10, StutterMap

LEMMA WriterStep ==
    ASSUME AgentInv, NEW a \in Agents, WriterTypes(a)
    PROVE  AgentInv' /\ Mailbox!MailboxNext
<1>1. /\ chan[a] # <<>>
      /\ UNCHANGED <<session, prox, child, poll, hand, senders, ptyOpen, request, daemonRestarts, cut>>
  BY DEF WriterTypes
<1>2. PICK s \in Seq(Messages), h \in Seq(Messages), w \in Seq(Messages) :
        s = chan[a] /\ h = hand[a] /\ w = Waiting(a)
  BY WaitingFacts
<1>3. s # <<>> /\ Head(s) \in Messages /\ Tail(s) \in Seq(Messages)
  BY <1>1, <1>2, HeadTailProperties
<1>4. chan' \in [Agents -> Seq(Messages)] /\ chan'[a] = Tail(s) /\ \A b \in Agents \ {a} : chan'[b] = chan[b]
  BY <1>2, <1>3 DEF WriterTypes, AgentInv, AgentTypeOK
<1>5. pty' = [pty EXCEPT ![a] = Append(@, Head(s))] /\ pty' \in [Agents -> Seq(Messages)]
  BY <1>2, <1>3 DEF WriterTypes, AgentInv, AgentTypeOK
<1>6. AgentInv'
  <2>1. PlacesOK' /\ TasksOK' /\ OthersOK'
    BY <1>1, <1>4, <1>5, AgentInvParts DEF PlacesOK, TasksOK, OthersOK
  <2>2. DeliveryInv'
    BY <1>1 DEF AgentInv, DeliveryInv
  <2>. QED
    BY <2>1, <2>2, AgentInvNext
<1>7. \A b \in Agents : Waiting(b)' = Waiting(b)
  BY <1>1 DEF Waiting, cleanup_stale_sessions
<1>8. Box(a) # <<>> /\ Head(Box(a)) = Head(s) /\ Box(a)' = Tail(Box(a))
  <2>1. Box(a)' = (Tail(s) \o h) \o w /\ Box(a) = (s \o h) \o w
    BY <1>1, <1>2, <1>4, <1>7 DEF Box
  <2>2. h \o w \in Seq(Messages)
    BY ConcatProperties
  <2>a. PICK r \in Seq(Messages) : r = Tail(s)
    BY <1>3
  <2>b. (r \o h) \o w = r \o (h \o w) /\ (s \o h) \o w = s \o (h \o w)
    BY ConcatRegroup
  <2>3. Box(a)' = Tail(s) \o (h \o w) /\ Box(a) = s \o (h \o w)
    BY <2>1, <2>a, <2>b
  <2>c. PICK t \in Seq(Messages) : t = h \o w
    BY <2>2
  <2>d. s \o t # <<>> /\ Head(s \o t) = Head(s) /\ Tail(s \o t) = Tail(s) \o t
    BY <1>3, ConcatHeadTail
  <2>. QED
    BY <2>3, <2>c, <2>d
<1>9. \A b \in Agents \ {a} : Box(b)' = Box(b)
  BY <1>1, <1>4, <1>7 DEF Box
<1>10. [b \in Agents |-> Box(b)]' = [[b \in Agents |-> Box(b)] EXCEPT ![a] = Tail(@)]
  BY <1>8, <1>9
<1>11. Mailbox!TypeNext(a)
  <2>1. pty' = [pty EXCEPT ![a] = Append(@, Head([b \in Agents |-> Box(b)][a]))]
    BY <1>5, <1>8
  <2>. QED
    BY <1>1, <1>8, <1>10, <2>1 DEF Mailbox!TypeNext, Box, Waiting
<1>. QED
  BY <1>6, <1>11 DEF Mailbox!MailboxNext

(***************************************************************************)
(* The ends: what is lost is the reply, the channel or the queue, at an    *)
(* end or in the middle of the inbox, of an agent that is in cut.          *)
(***************************************************************************)
LEMMA Segments ==
    ASSUME NEW s \in Seq(Messages), NEW h \in Seq(Messages), NEW w \in Seq(Messages)
    PROVE  /\ (s \o h) \o w \in Seq(Messages)
           /\ Mailbox!Remainder((s \o h) \o <<>>, (s \o h) \o w)
           /\ Mailbox!Remainder((s \o <<>>) \o <<>>, (s \o h) \o w)
           /\ Mailbox!Remainder((<<>> \o h) \o w, (s \o h) \o w)
           /\ Mailbox!Remainder((<<>> \o <<>>) \o w, (s \o h) \o w)
<1>0. <<>> \in Seq(Messages)
  OBVIOUS
<1>1. s \o h \in Seq(Messages) /\ h \o w \in Seq(Messages)
  BY ConcatProperties
<1>2. (s \o h) \o w \in Seq(Messages) /\ (s \o h) \o w = s \o (h \o w)
  BY <1>1, ConcatProperties, ConcatRegroup
<1>3. /\ (s \o h) \o <<>> = s \o h /\ (s \o <<>>) \o <<>> = s
      /\ (<<>> \o h) \o w = h \o w /\ (<<>> \o <<>>) \o w = w
  BY <1>0, <1>1, ConcatEmptySeq
<1>4. Mailbox!Remainder(s \o h, (s \o h) \o w) /\ Mailbox!Remainder(w, (s \o h) \o w)
  BY <1>1, PrefixRemains, SuffixRemains
<1>5. Mailbox!Remainder(s, s \o (h \o w)) /\ Mailbox!Remainder(h \o w, s \o (h \o w))
  BY <1>1, PrefixRemains, SuffixRemains
<1>. QED
  BY <1>2, <1>3, <1>4, <1>5

LEMMA ExitStep ==
    ASSUME AgentInv, NEW a \in Agents, ChildExits(a)
    PROVE  AgentInv' /\ Mailbox!MailboxNext
<1>1. /\ cut' = cut \cup {a}
      /\ UNCHANGED <<session, prox, poll, hand, senders, chan, pty, ptyOpen, request, daemonRestarts>>
  BY DEF ChildExits
<1>2. /\ child' \in [Agents -> {"none", "alive", "dead"}]
      /\ child'[a] = "dead" /\ \A b \in Agents \ {a} : child'[b] = child[b]
  BY DEF ChildExits, AgentInv, AgentTypeOK
<1>3. AgentInv'
  <2>1. PlacesOK' /\ TasksOK' /\ OthersOK'
    BY <1>1, <1>2, AgentInvParts DEF PlacesOK, TasksOK, OthersOK
  <2>2. DeliveryInv'
    BY <1>1, <1>2 DEF AgentInv, DeliveryInv
  <2>. QED
    BY <2>1, <2>2, AgentInvNext
<1>4. Waiting(a)' = <<>> /\ \A b \in Agents \ {a} : Waiting(b)' = Waiting(b)
  BY <1>1, <1>2, WaitingNext, WaitingFacts
<1>5. Box(a)' \in Seq(Messages) /\ Mailbox!Remainder(Box(a)', Box(a))
  <2>1. PICK s \in Seq(Messages), h \in Seq(Messages), w \in Seq(Messages) :
          s = chan[a] /\ h = hand[a] /\ w = Waiting(a)
    BY WaitingFacts
  <2>2. Box(a) = (s \o h) \o w /\ Box(a)' = (s \o h) \o <<>>
    BY <1>1, <1>4, <2>1 DEF Box
  <2>3. (s \o h) \o <<>> \in Seq(Messages)
    BY ConcatProperties, EmptySeq
  <2>. QED
    BY <2>2, <2>3, Segments
<1>6. \A b \in Agents \ {a} : Box(b)' = Box(b) /\ Box(b)' \in Seq(Messages)
  <2>1. \A b \in Agents \ {a} : Box(b)' = Box(b)
    BY <1>1, <1>4 DEF Box
  <2>. QED
    BY <2>1, WaitingFacts
<1>7. /\ \A b \in Agents : Box(b)' \in Seq(Messages)
      /\ \A b \in {a} : Mailbox!Remainder(Box(b)', Box(b))
      /\ \A b \in Agents \ {a} : Box(b)' = Box(b)
      /\ AcceptedOf(request') = AcceptedOf(request) /\ UNCHANGED pty /\ {a} \in SUBSET Agents
  BY <1>1, <1>5, <1>6
<1>8. Mailbox!MailboxNext
  BY <1>1, <1>7, InterruptMap
<1>. QED
  BY <1>3, <1>8

\* The agent is interrupted already: Interrupt adds nothing to cut.
LEMMA StopStep ==
    ASSUME AgentInv, NEW a \in Agents, StopTasks(a)
    PROVE  AgentInv' /\ Mailbox!MailboxNext
<1>1. /\ prox[a].at = "running" /\ child[a] = "dead" /\ a \in cut /\ cut' = cut \cup {a}
      /\ UNCHANGED <<session, child, chan, pty, ptyOpen, request, daemonRestarts, cut>>
  BY DEF StopTasks, AgentInv, DeliveryInv
<1>2. /\ prox' \in [Agents -> [at : ProxyStates, registered : BOOLEAN]]
      /\ prox'[a].at = "closing" /\ \A b \in Agents \ {a} : prox'[b] = prox[b]
  BY ProxyFacts DEF StopTasks, ProxyStates
<1>3. hand' \in [Agents -> Seq(Messages)] /\ hand'[a] = <<>> /\ \A b \in Agents \ {a} : hand'[b] = hand[b]
  BY DEF StopTasks, AgentInv, AgentTypeOK
<1>4. /\ poll' \in [Agents -> {"off", "idle", "asked", "reply"}] /\ poll'[a] = "off"
      /\ \A b \in Agents \ {a} : poll'[b] = poll[b]
  BY DEF StopTasks, AgentInv, AgentTypeOK
<1>5. senders' \in [Agents -> SUBSET {"main", "stdin", "poll"}]
  BY DEF StopTasks, AgentInv, AgentTypeOK
<1>6. AgentInv'
  <2>1. PlacesOK' /\ TasksOK' /\ OthersOK'
    BY <1>1, <1>2, <1>3, <1>4, <1>5, AgentInvParts DEF PlacesOK, TasksOK, OthersOK
  <2>2. DeliveryInv'
    BY <1>1, <1>2, <1>3, <1>4 DEF AgentInv, DeliveryInv
  <2>. QED
    BY <2>1, <2>2, AgentInvNext
<1>7. Waiting(a) = <<>> /\ \A b \in Agents : Waiting(b)' = Waiting(b)
  BY <1>1, WaitingNext, WaitingFacts
<1>8. Box(a)' \in Seq(Messages) /\ Mailbox!Remainder(Box(a)', Box(a))
  <2>1. PICK s \in Seq(Messages), h \in Seq(Messages), w \in Seq(Messages) :
          s = chan[a] /\ h = hand[a] /\ w = Waiting(a)
    BY WaitingFacts
  <2>2. Box(a) = (s \o h) \o w /\ Box(a)' = (s \o <<>>) \o <<>>
    BY <1>1, <1>3, <1>7, <2>1 DEF Box
  <2>3. (s \o <<>>) \o <<>> \in Seq(Messages)
    BY ConcatEmptySeq
  <2>. QED
    BY <2>2, <2>3, Segments
<1>9. \A b \in Agents \ {a} : Box(b)' = Box(b) /\ Box(b)' \in Seq(Messages)
  <2>1. \A b \in Agents \ {a} : Box(b)' = Box(b)
    BY <1>1, <1>3, <1>7 DEF Box
  <2>. QED
    BY <2>1, WaitingFacts
<1>10. /\ \A b \in Agents : Box(b)' \in Seq(Messages)
       /\ \A b \in {a} : Mailbox!Remainder(Box(b)', Box(b))
       /\ \A b \in Agents \ {a} : Box(b)' = Box(b)
       /\ AcceptedOf(request') = AcceptedOf(request) /\ UNCHANGED pty /\ {a} \in SUBSET Agents
  BY <1>1, <1>8, <1>9
<1>11. Mailbox!MailboxNext
  BY <1>1, <1>10, InterruptMap
<1>. QED
  BY <1>6, <1>11

LEMMA WriterEndsStep ==
    ASSUME AgentInv, NEW a \in Agents, WriterEnds(a)
    PROVE  AgentInv' /\ Mailbox!MailboxNext
<1>1. /\ prox[a].at = "closing" /\ child[a] = "dead" /\ a \in cut /\ cut' = cut \cup {a}
      /\ UNCHANGED <<session, child, poll, hand, senders, pty, ptyOpen, request, daemonRestarts, cut>>
  BY DEF WriterEnds, AgentInv, DeliveryInv
<1>2. /\ prox' \in [Agents -> [at : ProxyStates, registered : BOOLEAN]]
      /\ prox'[a].at = "reading" /\ \A b \in Agents \ {a} : prox'[b] = prox[b]
  BY ProxyFacts DEF WriterEnds, ProxyStates
<1>3. chan' \in [Agents -> Seq(Messages)] /\ chan'[a] = <<>> /\ \A b \in Agents \ {a} : chan'[b] = chan[b]
  BY DEF WriterEnds, AgentInv, AgentTypeOK
<1>6. AgentInv'
  <2>1. PlacesOK' /\ TasksOK' /\ OthersOK'
    BY <1>1, <1>2, <1>3, AgentInvParts DEF PlacesOK, TasksOK, OthersOK
  <2>2. DeliveryInv'
    BY <1>1, <1>2 DEF AgentInv, DeliveryInv
  <2>. QED
    BY <2>1, <2>2, AgentInvNext
<1>7. \A b \in Agents : Waiting(b)' = Waiting(b)
  BY <1>1, WaitingNext, WaitingFacts
<1>8. Box(a)' \in Seq(Messages) /\ Mailbox!Remainder(Box(a)', Box(a))
  <2>1. PICK s \in Seq(Messages), h \in Seq(Messages), w \in Seq(Messages) :
          s = chan[a] /\ h = hand[a] /\ w = Waiting(a)
    BY WaitingFacts
  <2>2. Box(a) = (s \o h) \o w /\ Box(a)' = (<<>> \o h) \o w
    BY <1>1, <1>3, <1>7, <2>1 DEF Box
  <2>3. (<<>> \o h) \o w \in Seq(Messages)
    BY ConcatEmptySeq, ConcatProperties
  <2>. QED
    BY <2>2, <2>3, Segments
<1>9. \A b \in Agents \ {a} : Box(b)' = Box(b) /\ Box(b)' \in Seq(Messages)
  <2>1. \A b \in Agents \ {a} : Box(b)' = Box(b)
    BY <1>1, <1>3, <1>7 DEF Box
  <2>. QED
    BY <2>1, WaitingFacts
<1>10. /\ \A b \in Agents : Box(b)' \in Seq(Messages)
       /\ \A b \in {a} : Mailbox!Remainder(Box(b)', Box(b))
       /\ \A b \in Agents \ {a} : Box(b)' = Box(b)
       /\ AcceptedOf(request') = AcceptedOf(request) /\ UNCHANGED pty /\ {a} \in SUBSET Agents
  BY <1>1, <1>8, <1>9
<1>11. Mailbox!MailboxNext
  BY <1>1, <1>10, InterruptMap
<1>. QED
  BY <1>6, <1>11

LEMMA KilledStep ==
    ASSUME AgentInv, NEW a \in Agents, ProxyKilled(a)
    PROVE  AgentInv' /\ Mailbox!MailboxNext
<1>1. /\ prox[a].at = "running" /\ cut' = cut \cup {a}
      /\ UNCHANGED <<session, child, pty, ptyOpen, request, daemonRestarts>>
  BY DEF ProxyKilled
<1>2. /\ prox' \in [Agents -> [at : ProxyStates, registered : BOOLEAN]]
      /\ prox'[a].at = "killed" /\ \A b \in Agents \ {a} : prox'[b] = prox[b]
  BY ProxyFacts DEF ProxyKilled, ProxyStates
<1>3. /\ chan' \in [Agents -> Seq(Messages)] /\ chan'[a] = <<>> /\ \A b \in Agents \ {a} : chan'[b] = chan[b]
      /\ hand' \in [Agents -> Seq(Messages)] /\ hand'[a] = <<>> /\ \A b \in Agents \ {a} : hand'[b] = hand[b]
  BY DEF ProxyKilled, AgentInv, AgentTypeOK
<1>4. /\ poll' \in [Agents -> {"off", "idle", "asked", "reply"}] /\ poll'[a] = "off"
      /\ \A b \in Agents \ {a} : poll'[b] = poll[b]
  BY DEF ProxyKilled, AgentInv, AgentTypeOK
<1>5. senders' \in [Agents -> SUBSET {"main", "stdin", "poll"}]
  BY DEF ProxyKilled, AgentInv, AgentTypeOK
<1>6. AgentInv'
  <2>1. PlacesOK' /\ TasksOK' /\ OthersOK'
    BY <1>1, <1>2, <1>3, <1>4, <1>5, AgentInvParts DEF PlacesOK, TasksOK, OthersOK
  <2>2. DeliveryInv'
    BY <1>1, <1>2, <1>3, <1>4 DEF AgentInv, DeliveryInv
  <2>. QED
    BY <2>1, <2>2, AgentInvNext
<1>7. \A b \in Agents : Waiting(b)' = Waiting(b)
  BY <1>1, WaitingNext, WaitingFacts
<1>8. Box(a)' \in Seq(Messages) /\ Mailbox!Remainder(Box(a)', Box(a))
  <2>1. PICK s \in Seq(Messages), h \in Seq(Messages), w \in Seq(Messages) :
          s = chan[a] /\ h = hand[a] /\ w = Waiting(a)
    BY WaitingFacts
  <2>2. Box(a) = (s \o h) \o w /\ Box(a)' = (<<>> \o <<>>) \o w
    BY <1>3, <1>7, <2>1 DEF Box
  <2>3. (<<>> \o <<>>) \o w \in Seq(Messages)
    BY ConcatEmptySeq, EmptySeq
  <2>. QED
    BY <2>2, <2>3, Segments
<1>9. \A b \in Agents \ {a} : Box(b)' = Box(b) /\ Box(b)' \in Seq(Messages)
  <2>1. \A b \in Agents \ {a} : Box(b)' = Box(b)
    BY <1>3, <1>7 DEF Box
  <2>. QED
    BY <2>1, WaitingFacts
<1>10. /\ \A b \in Agents : Box(b)' \in Seq(Messages)
       /\ \A b \in {a} : Mailbox!Remainder(Box(b)', Box(b))
       /\ \A b \in Agents \ {a} : Box(b)' = Box(b)
       /\ AcceptedOf(request') = AcceptedOf(request) /\ UNCHANGED pty /\ {a} \in SUBSET Agents
  BY <1>1, <1>8, <1>9
<1>11. Mailbox!MailboxNext
  BY <1>1, <1>10, InterruptMap
<1>. QED
  BY <1>6, <1>11

LEMMA ForgetsStep ==
    ASSUME AgentInv, DaemonForgets
    PROVE  AgentInv' /\ Mailbox!MailboxNext
<1>. DEFINE A == {a \in Agents : session[a].present \/ hand[a] # <<>>}
<1>1. /\ cut' = cut \cup A /\ A \in SUBSET Agents
      /\ UNCHANGED <<prox, child, senders, chan, pty, ptyOpen>>
  BY DEF DaemonForgets
<1>2. SessionOK(session') /\ \A a \in Agents : ~session'[a].present /\ session'[a].queue = <<>>
  <2>1. NoSession = [present |-> FALSE, created |-> 0, queue |-> <<>>]
    BY DEF NoSession
  <2>2. \A a \in Agents : session'[a] = NoSession
    BY DEF DaemonForgets
  <2>3. \A a \in Agents : [present |-> session'[a].present, created |-> session'[a].created,
                           queue |-> session'[a].queue] = NoSession
    BY <2>1, <2>2
  <2>4. session' = [a \in Agents |-> [present |-> session'[a].present, created |-> session'[a].created,
                                      queue |-> session'[a].queue]]
    BY <2>3 DEF DaemonForgets
  <2>5. NoSession.present \in BOOLEAN /\ NoSession.queue \in Seq(Messages) /\ ~NoSession.present /\ NoSession.queue = <<>>
    BY DEF NoSession
  <2>. QED
    BY <2>2, <2>4, <2>5 DEF SessionOK
<1>3. hand' \in [Agents -> Seq(Messages)] /\ \A a \in Agents : hand'[a] = <<>>
  BY DEF DaemonForgets
<1>4. /\ poll' \in [Agents -> {"off", "idle", "asked", "reply"}]
      /\ \A a \in Agents : poll[a] = "off" => poll'[a] = "off"
  BY DEF DaemonForgets, AgentInv, AgentTypeOK
<1>5. /\ request' \in [Messages -> [at : RequestStates, to : Agents \cup {NoAgent}]]
      /\ \A m \in Messages : request'[m].at = "accepted" <=> request[m].at = "accepted"
  <2>1. request \in [Messages -> [at : RequestStates, to : Agents \cup {NoAgent}]]
    BY DEF AgentInv, AgentTypeOK, RequestStates
  <2>2. ASSUME NEW m \in Messages
        PROVE  /\ request'[m] \in [at : RequestStates, to : Agents \cup {NoAgent}]
               /\ request'[m].at = "accepted" <=> request[m].at = "accepted"
    <3>1. request[m] \in [at : RequestStates, to : Agents \cup {NoAgent}]
      BY <2>1
    <3>. DEFINE r == [request[m] EXCEPT !.at = "refused"]
    <3>2. r \in [at : RequestStates, to : Agents \cup {NoAgent}] /\ r.at = "refused"
      BY <3>1 DEF RequestStates
    <3>3. request'[m] = IF request[m].at = "found" THEN r ELSE request[m]
      BY DEF DaemonForgets
    <3>. HIDE DEF r
    <3>. QED
      BY <3>1, <3>2, <3>3
  <2>3. request' = [m \in Messages |-> request'[m]]
    BY DEF DaemonForgets
  <2>. QED
    BY <2>2, <2>3
<1>6. daemonRestarts' \in Nat
  BY DEF DaemonForgets, AgentInv, AgentTypeOK
<1>7. AgentInv'
  <2>1. PlacesOK' /\ TasksOK' /\ OthersOK'
    BY <1>1, <1>2, <1>3, <1>4, <1>5, <1>6, AgentInvParts DEF PlacesOK, TasksOK, OthersOK
  <2>2. DeliveryInv'
    BY <1>1, <1>2, <1>3, <1>4 DEF AgentInv, DeliveryInv
  <2>. QED
    BY <2>1, <2>2, AgentInvNext
<1>8. \A a \in Agents : Waiting(a)' = <<>>
  BY <1>2, WaitingNext
<1>9. ASSUME NEW a \in Agents
      PROVE  /\ Box(a)' \in Seq(Messages) /\ Mailbox!Remainder(Box(a)', Box(a))
             /\ a \notin A => Box(a)' = Box(a)
  <2>1. PICK s \in Seq(Messages), h \in Seq(Messages), w \in Seq(Messages) :
          s = chan[a] /\ h = hand[a] /\ w = Waiting(a)
    BY WaitingFacts
  <2>2. Box(a) = (s \o h) \o w /\ Box(a)' = (s \o <<>>) \o <<>>
    BY <1>1, <1>3, <1>8, <2>1 DEF Box
  <2>3. (s \o <<>>) \o <<>> \in Seq(Messages)
    BY ConcatEmptySeq
  <2>4. a \notin A => h = <<>> /\ w = <<>>
    BY <2>1, WaitingFacts
  <2>. QED
    BY <2>2, <2>3, <2>4, Segments
<1>10. AcceptedOf(request') = AcceptedOf(request)
  BY <1>5 DEF AcceptedOf
<1>. HIDE DEF A
<1>11. /\ \A a \in Agents : Box(a)' \in Seq(Messages)
       /\ \A a \in A : Mailbox!Remainder(Box(a)', Box(a))
       /\ \A a \in Agents \ A : Box(a)' = Box(a)
  BY <1>1, <1>9
<1>12. Mailbox!MailboxNext
  BY <1>1, <1>10, <1>11, InterruptMap
<1>. QED
  BY <1>7, <1>12

LEMMA ReaderEndsStep ==
    ASSUME AgentInv, NEW a \in Agents, ReaderEnds(a)
    PROVE  AgentInv' /\ UNCHANGED Mailbox!mailboxVars
<1>1. /\ prox[a].at = "reading"
      /\ UNCHANGED <<session, child, poll, hand, senders, chan, pty, ptyOpen, request, daemonRestarts, cut>>
  BY DEF ReaderEnds
<1>2. PICK at \in {"unregister", "done"} : prox' = [prox EXCEPT ![a].at = at]
  BY DEF ReaderEnds
<1>3. /\ prox' \in [Agents -> [at : ProxyStates, registered : BOOLEAN]]
      /\ prox'[a].at = at /\ \A b \in Agents \ {a} : prox'[b] = prox[b]
  BY <1>2, ProxyFacts DEF ProxyStates
<1>4. AgentInv'
  <2>1. PlacesOK' /\ TasksOK' /\ OthersOK'
    BY <1>1, <1>3, AgentInvParts DEF PlacesOK, TasksOK, OthersOK
  <2>2. DeliveryInv'
    BY <1>1, <1>3 DEF AgentInv, DeliveryInv
  <2>. QED
    BY <2>1, <2>2, AgentInvNext
<1>5. \A b \in Agents : Box(b)' = Box(b)
  BY <1>1 DEF Box, Waiting, cleanup_stale_sessions
<1>. QED
  BY <1>1, <1>4, <1>5, StutterMap

LEMMA UnregisterStep ==
    ASSUME AgentInv, NEW a \in Agents, unregister_session(a)
    PROVE  AgentInv' /\ UNCHANGED Mailbox!mailboxVars
<1>1. /\ prox[a].at = "unregister" /\ child[a] = "dead"
      /\ UNCHANGED <<child, poll, hand, senders, chan, pty, ptyOpen, request, daemonRestarts, cut>>
  BY DEF unregister_session, AgentInv, DeliveryInv
<1>2. /\ prox' \in [Agents -> [at : ProxyStates, registered : BOOLEAN]]
      /\ prox'[a].at = "done" /\ \A b \in Agents \ {a} : prox'[b] = prox[b]
  BY ProxyFacts DEF unregister_session, ProxyStates
<1>3. /\ SessionOK(session') /\ \A b \in Agents \ {a} : session'[b] = cleanup_stale_sessions[b]
      /\ \A b \in Agents : ~session[b].present => ~cleanup_stale_sessions[b].present
  <2>1. PICK r : r = NoSession
    OBVIOUS
  <2>2. RecordOK(r)
    BY <2>1, NewRecord
  <2>3. session' = Put(cleanup_stale_sessions, a, r)
    BY <2>1 DEF unregister_session, Put
  <2>. QED
    BY <2>2, <2>3, PutRecord, CleanFacts
<1>4. AgentInv'
  <2>1. PlacesOK' /\ TasksOK' /\ OthersOK'
    BY <1>1, <1>2, <1>3, AgentInvParts DEF PlacesOK, TasksOK, OthersOK
  <2>2. DeliveryInv'
    BY <1>1, <1>2, <1>3 DEF AgentInv, DeliveryInv, SessionOK
  <2>. QED
    BY <2>1, <2>2, AgentInvNext
<1>5. \A b \in Agents : Waiting(b)' = Waiting(b)
  BY <1>1, <1>3, WaitingNext, WaitingFacts DEF Waiting
<1>6. \A b \in Agents : Box(b)' = Box(b)
  BY <1>1, <1>5 DEF Box
<1>. QED
  BY <1>1, <1>4, <1>6, StutterMap

LEMMA AgentStep ==
    ASSUME AgentInv, [AgentNext]_agentVars
    PROVE  AgentInv' /\ [Mailbox!MailboxNext]_(Mailbox!mailboxVars)
<1>1. CASE UNCHANGED agentVars
  <2>1. AgentInv'
    BY <1>1 DEF agentVars, AgentInv, AgentTypeOK, DeliveryInv
  <2>2. \A b \in Agents : Box(b)' = Box(b)
    BY <1>1 DEF agentVars, Box, Waiting, cleanup_stale_sessions
  <2>. QED
    BY <1>1, <2>1, <2>2, StutterMap DEF agentVars
<1>2. CASE AgentNext
  BY <1>2, FindStep, QueueStep, SpawnStep, RegisterStep, AsksStep, PollStep, ReturnsStep, WriterStep,
     ExitStep, StopStep, WriterEndsStep, KilledStep, ForgetsStep, ReaderEndsStep, UnregisterStep
  DEF AgentNext, run_proxy, PollTask
<1>. QED
  BY <1>1, <1>2

(***************************************************************************)
(* Store, poll task and writer implement the safety part of AgentMailbox,  *)
(* for any number of agents and messages: what post_agent_message accepted *)
(* is typed into the terminal of its agent in the order of acceptance and  *)
(* at most once, whatever moment the process, the proxy or the daemon      *)
(* ends, and without such an end nothing is lost.                          *)
(***************************************************************************)
THEOREM DeliversInOrder == AgentSpec => Mailbox!MailboxSafety
<1>1. AgentInit => Mailbox!MailboxInit
  <2>. SUFFICES ASSUME AgentInit PROVE Mailbox!MailboxInit
    OBVIOUS
  <2>1. {m \in Messages : request[m].at = "accepted"} = {}
    BY DEF AgentInit
  <2>2. \A a \in Agents : chan[a] \o hand[a] \o cleanup_stale_sessions[a].queue = <<>>
    <3>1. \A a \in Agents : chan[a] = <<>> /\ hand[a] = <<>> /\ cleanup_stale_sessions[a].queue = <<>>
      BY DEF AgentInit, cleanup_stale_sessions, NoSession
    <3>2. (<<>> \o <<>>) \o <<>> = <<>>
      BY ConcatEmptySeq, EmptySeq
    <3>. QED
      BY <3>1, <3>2
  <2>. QED
    BY <2>1, <2>2 DEF AgentInit, Mailbox!MailboxInit
<1>2. AgentInv /\ [AgentNext]_agentVars => AgentInv' /\ [Mailbox!MailboxNext]_(Mailbox!mailboxVars)
  BY AgentStep
<1>. QED
  BY <1>1, <1>2, AgentInitial, PTL DEF AgentSpec, Mailbox!MailboxSafety
=============================================================================
