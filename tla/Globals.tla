------------------------------ MODULE Globals ------------------------------
(***************************************************************************)
(* Globals: services shared by the stacks of a project, started by the     *)
(* first up that needs them and adopted by the later ones                  *)
(* (src/src/app/commands/ensure_globals.rs), their manifests, their        *)
(* restarts by a watcher and what a restarted daemon makes of them         *)
(* (src/src/daemon/bootstrap.rs, src/src/persistence/daemon_state.rs).     *)
(*                                                                         *)
(* A port is either fixed by the configuration or taken from the ephemeral *)
(* range.  How the port registry grants one is PortRegistry; here it is    *)
(* the set of ports each global owns.  How a manifest is written is        *)
(* Manifests; here it is one step.                                         *)
(***************************************************************************)
EXTENDS Naturals

CONSTANTS
    GlobalNames,     \* the globals, by their rank in the configuration's map
    FixedGlobals,    \* those with a fixed port
    FixedPort,       \* the fixed port of each of them
    GlobalPorts,     \* ephemeral ports
    Ups,             \* up requests that may overlap
    BootCall,        \* the daemon's own call while it boots
    NoPort, NoName,
    MaxUps,          \* ensure_globals calls of a behaviour
    MaxGlobalFaults  \* deaths of units and daemon, restarts by watchers

GlobalCalls == Ups \cup {BootCall}
AllGlobalPorts == GlobalPorts \cup {FixedPort[g] : g \in FixedGlobals}

ASSUME GlobalAssumption ==
    /\ GlobalNames \subseteq Nat /\ NoName \notin GlobalNames
    /\ FixedGlobals \subseteq GlobalNames /\ BootCall \notin Ups
    /\ NoPort \notin AllGlobalPorts
    /\ MaxUps \in Nat /\ MaxGlobalFaults \in Nat

VARIABLES
    grec,      \* global -> its record in memory
    gman,      \* global -> its manifest
    gunit,     \* global -> its unit: active, and the port it was started with
    gowned,    \* global -> ports reserved for it
    gcall,     \* call -> where it is in ensure_globals
    grest,     \* global -> where its watcher is in restart_global_no_wait
    gwait,     \* global -> a readiness task of a restart is under way
    gserving,  \* the daemon has finished its boot
    gups, gfaults,
    graced     \* ghost: global -> two calls met between the look at its
               \* manifest and the write of it, or a crash fell into that time

globalVars == <<grec, gman, gunit, gowned, gcall, grest, gwait, gserving, gups, gfaults, graced>>

NoGlobal == [present |-> FALSE, state |-> "None", port |-> NoPort]
NoUnit == [active |-> FALSE, port |-> NoPort]
NoCall == [at |-> "idle", todo |-> {}, name |-> NoName, existing |-> NoGlobal, port |-> NoPort,
           ok |-> TRUE]

GlobalPort == AllGlobalPorts \cup {NoPort}
GlobalRec == [present : BOOLEAN, state : {"None", "Starting", "Ready", "Failed"}, port : GlobalPort]
GlobalUnit == [active : BOOLEAN, port : GlobalPort]
GlobalCall == [at : {"idle", "load", "status", "start", "wait", "adopt", "upsert", "persist"},
               todo : SUBSET GlobalNames, name : GlobalNames \cup {NoName},
               existing : GlobalRec, port : GlobalPort, ok : BOOLEAN]

GlobalTypeOK ==
    /\ grec \in [GlobalNames -> GlobalRec] /\ gman \in [GlobalNames -> GlobalRec]
    /\ gunit \in [GlobalNames -> GlobalUnit]
    /\ gowned \in [GlobalNames -> SUBSET GlobalPort]
    /\ gcall \in [GlobalCalls -> GlobalCall]
    /\ grest \in [GlobalNames -> {"idle", "persist", "unit"}] /\ gwait \in [GlobalNames -> BOOLEAN]
    /\ gserving \in BOOLEAN /\ gups \in Nat /\ gfaults \in Nat
    /\ graced \in [GlobalNames -> BOOLEAN]

GlobalInit ==
    /\ grec = [g \in GlobalNames |-> NoGlobal]
    /\ gman = [g \in GlobalNames |-> NoGlobal]
    /\ gunit = [g \in GlobalNames |-> NoUnit]
    /\ gowned = [g \in GlobalNames |-> {}]
    /\ gcall = [c \in GlobalCalls |-> NoCall]
    /\ grest = [g \in GlobalNames |-> "idle"]
    /\ gwait = [g \in GlobalNames |-> FALSE]
    /\ gserving = TRUE
    /\ gups = 0 /\ gfaults = 0
    /\ graced = [g \in GlobalNames |-> FALSE]

Looks(c, g) == gcall[c].at = "status" /\ gcall[c].name = g

Engaged(c, g) ==
    gcall[c].at \in {"start", "wait", "adopt", "upsert", "persist"} /\ gcall[c].name = g

-----------------------------------------------------------------------------
\* An up asks for the globals of its project.
EnsureBegin(c) ==
    /\ c \in Ups /\ gserving /\ gcall[c].at = "idle" /\ gups < MaxUps
    /\ gups' = gups + 1
    /\ gcall' = [gcall EXCEPT ![c] = [NoCall EXCEPT !.at = "load", !.todo = GlobalNames]]
    /\ UNCHANGED <<grec, gman, gunit, gowned, grest, gwait, gserving, gfaults, graced>>

\* A BTreeMap is walked in order, the directory of the manifests in any order.
NextGlobal(c, g) == g \in gcall[c].todo /\ (c = BootCall \/ \A h \in gcall[c].todo : g <= h)

LoadManifest(c) == \E g \in GlobalNames :
    /\ gcall[c].at = "load" /\ NextGlobal(c, g)
    /\ gcall' = [gcall EXCEPT ![c].at = "status", ![c].name = g, ![c].existing = gman[g]]
    /\ graced' = [graced EXCEPT ![g] =
                     @ \/ \E d \in GlobalCalls \ {c} : Engaged(d, g) \/ Looks(d, g)]
    /\ UNCHANGED <<grec, gman, gunit, gowned, grest, gwait, gserving, gups, gfaults>>

Bound == {gunit[g].port : g \in {x \in GlobalNames : gunit[x].active}}
OwnedByOthers(g) == UNION {gowned[x] : x \in GlobalNames \ {g}}

\* Faulty variant: every call allocates a port of its own.
AllocateAlways(g, existing, active) ==
    IF g \in FixedGlobals THEN {FixedPort[g]}
    ELSE GlobalPorts \ (Bound \cup UNION {gowned[x] : x \in GlobalNames})

(***************************************************************************)
(* resolve_global_port: the ports it may return; none if it fails.  A      *)
(* fixed port that is not reserved yet must be free, unless an active unit *)
(* has it by its manifest; the port of a manifest is used again.           *)
(***************************************************************************)
resolve_global_port(g, existing, active) ==
    IF g \in FixedGlobals
      THEN {p \in {FixedPort[g]} :
               /\ p \notin OwnedByOthers(g)
               /\ p \in gowned[g] \/ p \notin Bound \/ (active /\ existing.port = p)}
    ELSE IF existing.present THEN {existing.port} \ OwnedByOthers(g)
    ELSE GlobalPorts \ (Bound \cup UNION {gowned[x] : x \in GlobalNames})

\* The end of a call's work on a global.  An error ends an up; boot prints it.
Finished(c, ok) ==
    IF c = BootCall \/ ok
      THEN [gcall EXCEPT ![c] = [NoCall EXCEPT !.at = "load", !.todo = gcall[c].todo \ {gcall[c].name}]]
      ELSE [gcall EXCEPT ![c] = NoCall]

Proceeds(c, at, port, ok) ==
    gcall' = [gcall EXCEPT ![c] = [@ EXCEPT !.at = at, !.port = port, !.ok = ok]]

Reserves(g, p) == gowned' = [gowned EXCEPT ![g] = @ \cup {p}]

(***************************************************************************)
(* unit_status is awaited; an error counts as no unit.  The port is then   *)
(* reserved and the service prepared without a pause.                      *)
(***************************************************************************)
UnitStatus(c) ==
    LET g == gcall[c].name IN
    /\ gcall[c].at = "status"
    /\ \E active \in {FALSE, gunit[g].active} :
         LET ports == resolve_global_port(g, gcall[c].existing, active) IN
         \/ ports = {} /\ gcall' = Finished(c, FALSE) /\ UNCHANGED gowned
         \/ \E p \in ports : Reserves(g, p) /\ Proceeds(c, IF active THEN "adopt" ELSE "start", p, TRUE)
    /\ UNCHANGED <<grec, gman, gunit, grest, gwait, gserving, gups, gfaults, graced>>

\* start_prepared_service: a running process of the unit is replaced.
StartGlobal(c) ==
    LET g == gcall[c].name IN
    /\ gcall[c].at = "start"
    /\ \/ /\ gunit' = [gunit EXCEPT ![g] = [active |-> TRUE, port |-> gcall[c].port]]
          /\ Proceeds(c, "wait", gcall[c].port, TRUE)
       \/ /\ Proceeds(c, "upsert", gcall[c].port, FALSE)
          /\ UNCHANGED gunit
    /\ UNCHANGED <<grec, gman, gowned, grest, gwait, gserving, gups, gfaults, graced>>

WaitGlobal(c) ==
    /\ gcall[c].at = "wait"
    /\ \E ok \in BOOLEAN : Proceeds(c, "upsert", gcall[c].port, ok)
    /\ UNCHANGED <<grec, gman, gunit, gowned, grest, gwait, gserving, gups, gfaults, graced>>

upsert_global(c) ==
    LET g == gcall[c].name IN
    /\ gcall[c].at \in {"adopt", "upsert"}
    /\ grec' = [grec EXCEPT ![g] = [present |-> TRUE, port |-> gcall[c].port,
                                    state |-> IF gcall[c].ok THEN "Ready" ELSE "Failed"]]
    /\ Proceeds(c, "persist", gcall[c].port, gcall[c].ok)
    /\ UNCHANGED <<gman, gunit, gowned, grest, gwait, gserving, gups, gfaults, graced>>

persist_global_manifest(c) ==
    LET g == gcall[c].name IN
    /\ gcall[c].at = "persist"
    /\ gman' = [gman EXCEPT ![g] = grec[g]]
    /\ gcall' = Finished(c, gcall[c].ok)
    /\ UNCHANGED <<grec, gunit, gowned, grest, gwait, gserving, gups, gfaults, graced>>

EnsureEnds(c) ==
    /\ gcall[c].at = "load" /\ gcall[c].todo = {}
    /\ gcall' = [gcall EXCEPT ![c] = NoCall]
    /\ gserving' = TRUE
    /\ UNCHANGED <<grec, gman, gunit, gowned, grest, gwait, gups, gfaults, graced>>

ensure_globals(c) ==
    \/ EnsureBegin(c) \/ LoadManifest(c) \/ UnitStatus(c) \/ StartGlobal(c)
    \/ WaitGlobal(c) \/ upsert_global(c) \/ persist_global_manifest(c) \/ EnsureEnds(c)

-----------------------------------------------------------------------------
Fault == gfaults < MaxGlobalFaults /\ gfaults' = gfaults + 1

\* restart_global_no_wait, up to the first write of the manifest.
RestartMark(g) ==
    /\ gserving /\ grest[g] = "idle" /\ grec[g].present /\ Fault
    /\ grec' = [grec EXCEPT ![g].state = "Starting"]
    /\ grest' = [grest EXCEPT ![g] = "persist"]
    /\ UNCHANGED <<gman, gunit, gowned, gcall, gwait, gserving, gups, graced>>

RestartPersist(g) ==
    /\ grest[g] = "persist"
    /\ gman' = [gman EXCEPT ![g] = grec[g]]
    /\ grest' = [grest EXCEPT ![g] = "unit"]
    /\ UNCHANGED <<grec, gunit, gowned, gcall, gwait, gserving, gups, gfaults, graced>>

(***************************************************************************)
(* restart_unit starts the unit as it was started last, or fails and       *)
(* leaves the record Starting; the readiness task is spawned.              *)
(***************************************************************************)
RestartGlobalUnit(g) ==
    /\ grest[g] = "unit"
    /\ \/ /\ gunit[g].port # NoPort
          /\ gunit' = [gunit EXCEPT ![g].active = TRUE]
          /\ gwait' = [gwait EXCEPT ![g] = TRUE]
       \/ UNCHANGED <<gunit, gwait>>
    /\ grest' = [grest EXCEPT ![g] = "idle"]
    /\ UNCHANGED <<grec, gman, gowned, gcall, gserving, gups, gfaults, graced>>

\* The readiness task of a restart: the result, then the manifest.
RestartResult(g) ==
    /\ gwait[g]
    /\ gwait' = [gwait EXCEPT ![g] = FALSE]
    /\ \E ok \in BOOLEAN :
         grec' = [grec EXCEPT ![g].state = IF ok THEN "Ready" ELSE "Failed"]
    /\ gman' = [gman EXCEPT ![g] = grec'[g]]
    /\ UNCHANGED <<gunit, gowned, gcall, grest, gserving, gups, gfaults, graced>>

restart_global_no_wait(g) ==
    RestartMark(g) \/ RestartPersist(g) \/ RestartGlobalUnit(g) \/ RestartResult(g)

GlobalUnitDies(g) ==
    /\ gunit[g].active /\ Fault
    /\ gunit' = [gunit EXCEPT ![g].active = FALSE]
    /\ UNCHANGED <<grec, gman, gowned, gcall, grest, gwait, gserving, gups, graced>>

-----------------------------------------------------------------------------
(***************************************************************************)
(* The daemon dies and its successor boots: the manifests that can be      *)
(* restored become records (load_globals_from_disk), their ports are       *)
(* reserved again, and ensure_globals is called for each, before anyone    *)
(* else is served.  The configuration of a global may be gone.             *)
(***************************************************************************)
DaemonRestarts ==
    /\ Fault
    /\ \E gone \in SUBSET GlobalNames :
         LET kept == {g \in GlobalNames \ gone : gman[g].present} IN
         /\ grec' = [g \in GlobalNames |-> IF g \in kept THEN gman[g] ELSE NoGlobal]
         /\ gowned' = [g \in GlobalNames |-> IF g \in kept THEN {gman[g].port} ELSE {}]
         /\ gcall' = [c \in GlobalCalls |->
                         IF c = BootCall
                           THEN [NoCall EXCEPT !.at = "load", !.todo = kept]
                           ELSE NoCall]
    /\ grest' = [g \in GlobalNames |-> "idle"]
    /\ gwait' = [g \in GlobalNames |-> FALSE]
    /\ gserving' = FALSE
    /\ graced' = [g \in GlobalNames |-> graced[g] \/ \E c \in GlobalCalls : Engaged(c, g)]
    /\ UNCHANGED <<gman, gunit, gups>>

GlobalNext ==
    \/ \E c \in GlobalCalls : ensure_globals(c)
    \/ \E g \in GlobalNames : restart_global_no_wait(g) \/ GlobalUnitDies(g)
    \/ DaemonRestarts

GlobalSpec == GlobalInit /\ [][GlobalNext]_globalVars

-----------------------------------------------------------------------------
Busy(g) == grest[g] # "idle" \/ gwait[g] \/ \E c \in GlobalCalls : Engaged(c, g)

(***************************************************************************)
(* The port a record shows is the one the active unit was started with, so *)
(* that every stack that shares the global reaches it: through restarts,   *)
(* deaths of the unit and of the daemon and any number of ups, unless two  *)
(* calls, or a call and a crash, met before the manifest was written.      *)
(***************************************************************************)
SharedPortIsServed ==
    \A g \in GlobalNames :
        grec[g].present /\ gunit[g].active /\ ~Busy(g) /\ ~graced[g] =>
            grec[g].port = gunit[g].port
=============================================================================
