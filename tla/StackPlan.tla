----------------------------- MODULE StackPlan -----------------------------
(***************************************************************************)
(* The order in which the services of a stack are started: the check of    *)
(* its dependencies (validate, src/src/config/validate.rs), topo_sort and  *)
(* the restriction to some services with what they depend on (filter_to,   *)
(* both in src/src/config/plan.rs).                                        *)
(*                                                                         *)
(* A name is its rank in the alphabet, the order of the BTreeMaps; a       *)
(* dependency may be listed twice.  One step is one turn of a loop.        *)
(***************************************************************************)
EXTENDS Naturals, Sequences, FiniteSets

CONSTANTS
    ServiceNames,
    MaxDeps,      \* bound: length of a deps list
    MaxTargets    \* bound: services asked for

ASSUME PlanAssumption ==
    /\ ServiceNames \subseteq Nat /\ IsFiniteSet(ServiceNames)
    /\ MaxDeps \in Nat /\ MaxTargets \in Nat

VARIABLES
    services,    \* the services of the stack
    deps,        \* service -> the names it lists as dependencies
    stage,       \* where stack_plan_filtered is, and how it ended
    in_degree,   \* service -> dependencies not yet placed
    ready,       \* the queue
    result,      \* the order so far
    current,     \* the service taken from the queue last
    scan,        \* the services the inner loop has still to come to
    targets,     \* the services asked for
    frontier,    \* the queue of filter_to
    needed,      \* what filter_to has found
    pos,         \* how much of the order it has gone through
    plan         \* the order of the filtered plan

planVars == <<services, deps, stage, in_degree, ready, result, current, scan,
              targets, frontier, needed, pos, plan>>

UpTo(S, n) == UNION {[1..m -> S] : m \in 0..n}

PlanInit ==
    /\ services \in SUBSET ServiceNames
    /\ deps \in [services -> UpTo(ServiceNames, MaxDeps)]
    /\ stage = "load"
    /\ in_degree = [n \in services |-> 0]
    /\ ready = <<>> /\ result = <<>> /\ current = 0 /\ scan = {}
    /\ targets = <<>> /\ frontier = <<>> /\ needed = {} /\ pos = 0 /\ plan = <<>>

Edges(n, d) == {k \in 1..Len(deps[n]) : deps[n][k] = d}

\* A dependency on a name that is not in the stack is refused before any sort.
validate ==
    /\ stage = "load"
    /\ stage' = IF \A n \in services : \A k \in 1..Len(deps[n]) : deps[n][k] \in services
                  THEN "count" ELSE "invalid"
    /\ UNCHANGED <<services, deps, in_degree, ready, result, current, scan,
                   targets, frontier, needed, pos, plan>>

-----------------------------------------------------------------------------
\* topo_sort: the degrees count a dependency as often as it is listed.
CountDegrees ==
    /\ stage = "count"
    /\ in_degree' = [n \in services |->
                        Cardinality({k \in 1..Len(deps[n]) : deps[n][k] \in services})]
    /\ stage' = "seed" /\ scan' = services
    /\ UNCHANGED <<services, deps, ready, result, current, targets, frontier, needed, pos, plan>>

Comes(n) == n \in scan /\ \A m \in scan : n <= m

SeedQueue(n) ==
    /\ stage = "seed" /\ Comes(n)
    /\ ready' = IF in_degree[n] = 0 THEN Append(ready, n) ELSE ready
    /\ scan' = scan \ {n}
    /\ UNCHANGED <<services, deps, stage, in_degree, result, current,
                   targets, frontier, needed, pos, plan>>

PopReady ==
    /\ stage \in {"seed", "visit"} /\ scan = {} /\ ready # <<>>
    /\ current' = Head(ready) /\ ready' = Tail(ready)
    /\ result' = Append(result, Head(ready))
    /\ stage' = "visit" /\ scan' = services
    /\ UNCHANGED <<services, deps, in_degree, targets, frontier, needed, pos, plan>>

\* Faulty variant: a dependency that is listed twice is taken off once.
VisitOnce(n) ==
    /\ stage = "visit" /\ Comes(n)
    /\ in_degree' = [in_degree EXCEPT ![n] = IF Edges(n, current) # {} THEN @ - 1 ELSE @]
    /\ ready' = IF Edges(n, current) # {} /\ in_degree'[n] = 0 THEN Append(ready, n) ELSE ready
    /\ scan' = scan \ {n}
    /\ UNCHANGED <<services, deps, stage, result, current, targets, frontier, needed, pos, plan>>

\* The edges of one dependent are next to each other in the list of its dependency.
VisitDependent(n) ==
    /\ stage = "visit" /\ Comes(n)
    /\ in_degree' = [in_degree EXCEPT ![n] = @ - Cardinality(Edges(n, current))]
    /\ ready' = IF Edges(n, current) # {} /\ in_degree'[n] = 0 THEN Append(ready, n) ELSE ready
    /\ scan' = scan \ {n}
    /\ UNCHANGED <<services, deps, stage, result, current, targets, frontier, needed, pos, plan>>

SortEnds ==
    /\ stage \in {"seed", "visit"} /\ scan = {} /\ ready = <<>>
    /\ stage' = IF Len(result) = Cardinality(services) THEN "sorted" ELSE "circular"
    /\ UNCHANGED <<services, deps, in_degree, ready, result, current, scan,
                   targets, frontier, needed, pos, plan>>

topo_sort ==
    \/ CountDegrees \/ PopReady \/ SortEnds
    \/ \E n \in services : SeedQueue(n) \/ VisitDependent(n)

-----------------------------------------------------------------------------
\* stack_plan_filtered: with no targets the plan is the whole stack.
stack_plan_filtered(ts) ==
    /\ stage = "sorted"
    /\ targets' = ts /\ frontier' = ts
    /\ IF ts = <<>>
         THEN stage' = "planned" /\ needed' = services /\ plan' = result
         ELSE stage' = "filter" /\ UNCHANGED <<needed, plan>>
    /\ UNCHANGED <<services, deps, in_degree, ready, result, current, scan, pos>>

\* Faulty variant: only the services asked for are kept.
PopTarget ==
    LET n == Head(frontier) IN
    /\ stage = "filter" /\ frontier # <<>>
    /\ IF n \notin services THEN stage' = "unknown" /\ UNCHANGED <<frontier, needed>>
       ELSE needed' = needed \cup {n} /\ frontier' = Tail(frontier) /\ UNCHANGED stage
    /\ UNCHANGED <<services, deps, in_degree, ready, result, current, scan, targets, pos, plan>>

FilterPop ==
    LET n == Head(frontier) IN
    /\ stage = "filter" /\ frontier # <<>>
    /\ IF n \notin services THEN stage' = "unknown" /\ UNCHANGED <<frontier, needed>>
       ELSE /\ needed' = needed \cup {n}
            /\ frontier' = IF n \in needed THEN Tail(frontier) ELSE Tail(frontier) \o deps[n]
            /\ UNCHANGED stage
    /\ UNCHANGED <<services, deps, in_degree, ready, result, current, scan, targets, pos, plan>>

\* The order of the whole stack is gone through for what is needed.
FilterOrder ==
    /\ stage = "filter" /\ frontier = <<>> /\ pos < Len(result)
    /\ pos' = pos + 1
    /\ plan' = IF result[pos + 1] \in needed THEN Append(plan, result[pos + 1]) ELSE plan
    /\ UNCHANGED <<services, deps, stage, in_degree, ready, result, current, scan,
                   targets, frontier, needed>>

FilterEnds ==
    /\ stage = "filter" /\ frontier = <<>> /\ pos = Len(result)
    /\ stage' = "planned"
    /\ UNCHANGED <<services, deps, in_degree, ready, result, current, scan,
                   targets, frontier, needed, pos, plan>>

filter_to == FilterPop \/ FilterOrder \/ FilterEnds

PlanNext ==
    \/ validate \/ topo_sort \/ filter_to
    \/ \E ts \in UpTo(ServiceNames, MaxTargets) : stack_plan_filtered(ts)

PlanSpec == PlanInit /\ [][PlanNext]_planVars

-----------------------------------------------------------------------------
Elements(order) == {order[i] : i \in 1..Len(order)}
Distinct(order) == \A i, j \in 1..Len(order) : i # j => order[i] # order[j]

\* Reference: services that wait for each other.
WaitsForItself(C) ==
    C # {} /\ \A n \in C : \E k \in 1..Len(deps[n]) : deps[n][k] \in C

\* Reference: an order in which no service precedes one it depends on.
StartsAfterDeps(order) ==
    \A i \in 1..Len(order) : \A k \in 1..Len(deps[order[i]]) :
        \E j \in 1..(i - 1) : order[j] = deps[order[i]][k]

Lists(order, S) == Elements(order) = S /\ Distinct(order)

(***************************************************************************)
(* topo_sort gives every service once and none before a service it depends *)
(* on, and refuses exactly the stacks in which services wait for each      *)
(* other, however often a dependency is listed.                            *)
(***************************************************************************)
PlanMatchesReference ==
    /\ stage \in {"sorted", "filter", "planned", "unknown"} =>
         /\ Lists(result, services) /\ StartsAfterDeps(result)
         /\ ~\E C \in SUBSET services : WaitsForItself(C)
    /\ stage = "circular" => \E C \in SUBSET services : WaitsForItself(C)

\* Reference: a set with the targets and the dependencies of all its members.
Suffices(C) ==
    /\ \A i \in 1..Len(targets) : targets[i] \in C
    /\ \A n \in C : \A k \in 1..Len(deps[n]) : deps[n][k] \in C

(***************************************************************************)
(* A filtered plan has the services asked for and all they depend on,      *)
(* directly or not, and nothing else, in an order in which they can be     *)
(* started.                                                                *)
(***************************************************************************)
FilteredPlanIsLeast ==
    stage = "planned" =>
        /\ targets # <<>> => /\ Suffices(needed)
                            /\ \A C \in SUBSET services : Suffices(C) => needed \subseteq C
        /\ Lists(plan, needed) /\ StartsAfterDeps(plan)

-----------------------------------------------------------------------------
(***************************************************************************)
(* The inductive invariant.  While the inner loop visits the dependents of *)
(* current, those it has still to come to count current as not placed.     *)
(***************************************************************************)
Gone(n) == IF stage = "visit" /\ n \in scan THEN Elements(result) \ {current} ELSE Elements(result)
Missing(n, G) == {k \in 1..Len(deps[n]) : deps[n][k] \notin G}
Pending(n) == Missing(n, Gone(n))

PlanTypeOK ==
    /\ services \in SUBSET ServiceNames
    /\ deps \in [services -> Seq(ServiceNames)]
    /\ stage \in {"load", "invalid", "count", "seed", "visit", "circular", "sorted",
                  "filter", "unknown", "planned"}
    /\ in_degree \in [services -> Nat]
    /\ ready \in Seq(services) /\ result \in Seq(services)
    /\ scan \in SUBSET services
    /\ targets \in Seq(ServiceNames) /\ frontier \in Seq(ServiceNames)
    /\ needed \in SUBSET services /\ pos \in 0..Len(result) /\ plan \in Seq(services)

\* A degree is the number of dependencies that are not placed; those without are queued.
DegreesCount ==
    stage \in {"seed", "visit"} =>
        /\ \A n \in services : in_degree[n] = Cardinality(Pending(n))
        /\ \A n \in Elements(result) \cup Elements(ready) : in_degree[n] = 0
        /\ \A n \in services : in_degree[n] = 0 =>
             n \in Elements(result) \cup Elements(ready) \/ (stage = "seed" /\ n \in scan)
        /\ stage = "seed" => result = <<>> /\ Elements(ready) \cap scan = {}
        /\ stage = "visit" => current \in Elements(result)

OrderGrows ==
    /\ Distinct(result) /\ Distinct(ready) /\ Elements(result) \cap Elements(ready) = {}
    /\ StartsAfterDeps(result)
    /\ \A C \in SUBSET services : WaitsForItself(C) => C \cap Elements(result) = {}
    /\ stage \in {"load", "invalid", "count"} => result = <<>> /\ ready = <<>>
    /\ stage \notin {"load", "invalid"} =>
         \A n \in services : \A k \in 1..Len(deps[n]) : deps[n][k] \in services
    /\ stage \in {"sorted", "filter", "unknown", "planned"} => Elements(result) = services
    /\ stage = "circular" => \E C \in SUBSET services : WaitsForItself(C)

FilterGrows ==
    /\ stage \in {"filter", "planned"} /\ targets # <<>> =>
         /\ \A i \in 1..Len(targets) : targets[i] \in needed \cup Elements(frontier)
         /\ \A n \in needed : \A k \in 1..Len(deps[n]) : deps[n][k] \in needed \cup Elements(frontier)
         /\ \A C \in SUBSET services : Suffices(C) => needed \cup Elements(frontier) \subseteq C
         /\ frontier # <<>> => pos = 0
         /\ Elements(plan) = {result[i] : i \in 1..pos} \cap needed
         /\ Distinct(plan) /\ StartsAfterDeps(plan)
         /\ stage = "planned" => frontier = <<>> /\ pos = Len(result)
    /\ stage \notin {"filter", "unknown", "planned"} => pos = 0 /\ plan = <<>> /\ needed = {}
    /\ stage \in {"filter", "unknown"} => targets # <<>>
    /\ stage = "planned" /\ targets = <<>> => needed = services /\ plan = result

PlanInv == PlanTypeOK /\ DegreesCount /\ OrderGrows /\ FilterGrows
=============================================================================
