------------------------------ MODULE MCWorkers ------------------------------
(***************************************************************************)
(* Work that must come to an end: the executions of tasks, and the proxies *)
(* around agents with the messages they deliver.  As in MCServices, a      *)
(* behaviour is about one of the components.                               *)
(***************************************************************************)
EXTENDS TaskRunner, AgentSessions, TLC

CONSTANTS t1

VARIABLE part

workersVars == <<part, taskVars, agentVars>>

MCPhaseTasks == <<t1>>

WorkersInit == part \in {"tasks", "agents"} /\ TaskInit /\ AgentInit

WorkersNext ==
    \/ part = "tasks" /\ TaskNext /\ UNCHANGED <<part, agentVars>>
    \/ part = "agents" /\ AgentNext /\ UNCHANGED <<part, taskVars>>

\* The actions with a fairness condition are disabled in the initial states, so the
\* condition of a component is empty where the behaviour is about the other.
WorkersSpec ==
    /\ WorkersInit /\ [][WorkersNext]_workersVars
    /\ TaskFairness /\ AgentFairness
=============================================================================
