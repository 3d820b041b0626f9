------------------------------- MODULE MCShared -------------------------------
(***************************************************************************)
(* What all runs and clients share: the global services, the registry of   *)
(* log sources, the queries on the index, the planning of a stack.  As in  *)
(* MCServices, a behaviour is about one of the components.                 *)
(***************************************************************************)
EXTENDS Globals, Sources, LogQuery, StackPlan, TLC

VARIABLE part

sharedVars == <<part, globalVars, sourceVars, queryVars, planVars>>

MCFixedPort == [g \in {2} |-> 1]
MCExpired == {<<1, 2>>, <<2, 1>>}
SomeViewer == CHOOSE v \in Viewers : TRUE
MCReaderGroups == {{Follower, SomeViewer}, {Monitor}, Viewers}

SharedInit ==
    /\ part \in {"globals", "sources", "queries", "plan"}
    /\ GlobalInit /\ SourceInit /\ QueryInit /\ PlanInit
    \* one initial state of the components the behaviour is not about
    /\ part # "sources" => \A n \in SourceNames : ledger[n] = 0
    /\ part # "queries" => \A v \in Viewers : at[v] = "idle"
    /\ part # "plan" => services = {}

SharedNext ==
    \/ part = "globals" /\ GlobalNext /\ UNCHANGED <<part, sourceVars, queryVars, planVars>>
    \/ part = "sources" /\ SourceNext /\ UNCHANGED <<part, globalVars, queryVars, planVars>>
    \/ part = "queries" /\ QueryNext /\ UNCHANGED <<part, globalVars, sourceVars, planVars>>
    \/ part = "plan" /\ PlanNext /\ UNCHANGED <<part, globalVars, sourceVars, queryVars>>

SharedSpec == SharedInit /\ [][SharedNext]_sharedVars
=============================================================================
