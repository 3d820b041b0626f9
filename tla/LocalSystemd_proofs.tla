------------------------- MODULE LocalSystemd_proofs -------------------------
(***************************************************************************)
(* For any units, process groups and callers, overlapping or not: the      *)
(* types of LocalSystemd, OneHolder and UnitsAreRestorable.  Where calls   *)
(* on one unit exclude each other, StopIsFinal and LiveShimIsHeld.         *)
(***************************************************************************)
EXTENDS LocalSystemd, TLAPS

(***************************************************************************)
(* The file names the groups that the map names.                           *)
(***************************************************************************)
LEMMA PersistType ==
    ASSUME NEW us \in [Units -> LocalUnit \cup {NoUnit}]
    PROVE  persist_units_sync(us) \in [Units -> PersistedLocalUnit \cup {NoUnit}]
BY NoUnitAssumption DEF persist_units_sync, LocalUnit, PersistedLocalUnit

(***************************************************************************)
(* A signal never makes a group that was not there.                        *)
(***************************************************************************)
LEMMA SignalType ==
    ASSUME TypeOK, NEW g \in Pgids, NEW op \in Ops
    PROVE  /\ signal_unit(g, op) \in [Pgids -> {"unborn", "starting", "spawned",
                                "running", "closing", "gone", "failed"}]
           /\ \A h \in Pgids : shim[h] # "unborn" => signal_unit(g, op)[h] # "unborn"
BY DEF TypeOK, signal_unit, Killed

(***************************************************************************)
(* Steps that take a unit out of the map keep the invariant.               *)
(***************************************************************************)
LEMMA TakeUnitStep ==
    ASSUME IInv, NEW c \in Callers, NEW op \in Ops, NEW u \in Units,
           TakeUnit(c, op, u)
    PROVE  IInv'
<1> USE UnitAssumption, NoUnitAssumption
<1>1. /\ units' = [units EXCEPT ![u] = NoUnit]
      /\ registry' = persist_units_sync(units')
      /\ UNCHANGED <<service, lost>> /\ call[c].at = "idle"
      /\ HandOver(c, op, u)
  BY DEF TakeUnit, MayCall
<1>2. units' \in [Units -> LocalUnit \cup {NoUnit}]
  BY <1>1 DEF IInv, TypeOK
<1>3. \A v \in Units : units'[v] # NoUnit => v # u /\ units'[v] = units[v]
  BY <1>1 DEF IInv, TypeOK
<1>4. RegistryIsCurrent' /\ registry' \in [Units -> PersistedLocalUnit \cup {NoUnit}]
  BY <1>1, <1>2, PersistType DEF RegistryIsCurrent
<1>5. CASE units[u] # NoUnit
  <2>1. /\ shim' = signal_unit(units[u].pgid, op)
        /\ call' = [call EXCEPT ![c] = [op |-> op, unit |-> u, at |-> "reap",
                                        pgid |-> units[u].pgid]]
        /\ stopped' = [stopped EXCEPT ![u] = @ /\ op # "start"]
    BY <1>1, <1>5 DEF HandOver
  <2>2. units[u] \in LocalUnit /\ units[u].pgid \in Pgids
    BY <1>5 DEF IInv, TypeOK, LocalUnit
  <2>3. TypeOK'
    <3>1. call' \in [Callers -> Call]
      BY <2>1, <2>2 DEF IInv, TypeOK, Call
    <3>2. \A d \in Callers : /\ call'[d].at \in {"reap", "insert"} <=> call'[d].pgid # NoPgid
                             /\ call'[d].at # "idle" <=> call'[d].unit # NoUnit
      BY <2>1, <2>2 DEF IInv, TypeOK, Call
    <3>3. stopped' \in [Units -> BOOLEAN]
      BY <2>1 DEF IInv, TypeOK
    <3> QED
      BY <1>1, <1>2, <1>4, <2>1, <2>2, <3>1, <3>2, <3>3, SignalType DEF IInv, TypeOK
  <2>4. OneHolder'
    <3>1. \A d \in Callers : call'[d].pgid = IF d = c THEN units[u].pgid ELSE call[d].pgid
      BY <2>1 DEF IInv, TypeOK, Call
    <3> QED
      BY <1>3, <1>5, <2>2, <3>1 DEF IInv, OneHolder
  <2>5. HeldGroupsAreBorn'
    BY <1>3, <1>5, <2>1, <2>2, SignalType DEF IInv, HeldGroupsAreBorn, TypeOK, Call, LocalUnit
  <2> QED
    BY <1>4, <2>3, <2>4, <2>5 DEF IInv
<1>6. CASE units[u] = NoUnit
  <2>0. /\ shim' = shim
        /\ \/ call' = call
           \/ call' = [call EXCEPT ![c] = [op |-> op, unit |-> u, at |-> "spawn",
                                           pgid |-> NoPgid]]
        /\ \/ stopped' = [stopped EXCEPT ![u] = FALSE]
           \/ stopped' = [stopped EXCEPT ![u] = @ \/ op # "restart"]
    BY <1>1, <1>6 DEF HandOver
  <2>a. stopped' \in [Units -> BOOLEAN]
    BY <2>0 DEF IInv, TypeOK
  <2>b. call[c] \in Call /\ call[c].pgid = NoPgid
    BY <1>1 DEF IInv, TypeOK
  <2>1. /\ call' \in [Callers -> Call]
        /\ \A d \in Callers : /\ call'[d].at \in {"reap", "insert"} <=> call'[d].pgid # NoPgid
                              /\ call'[d].at # "idle" <=> call'[d].unit # NoUnit
                              /\ call'[d].pgid = call[d].pgid
    BY <2>0, <2>b DEF IInv, TypeOK, Call
  <2>2. TypeOK'
    BY <1>1, <1>2, <1>4, <2>0, <2>a, <2>1 DEF IInv, TypeOK
  <2>3. OneHolder' /\ HeldGroupsAreBorn'
    BY <1>3, <2>0, <2>1 DEF IInv, OneHolder, HeldGroupsAreBorn
  <2> QED
    BY <1>4, <2>2, <2>3 DEF IInv
<1> QED
  BY <1>5, <1>6

(***************************************************************************)
(* A call that reaps, spawns, or gives up.                                 *)
(***************************************************************************)
LEMMA CallStep ==
    ASSUME IInv, NEW c \in Callers,
           \/ stop_and_reap(c) \/ SpawnFails(c)
           \/ \E g \in Pgids : spawn_child(c, g)
    PROVE  IInv'
<1> USE UnitAssumption, NoUnitAssumption
<1>1. CASE stop_and_reap(c) \/ SpawnFails(c)
  <2>1. /\ UNCHANGED <<units, registry, service, lost>>
        /\ call' \in [Callers -> Call]
        /\ \A d \in Callers : /\ call'[d].at \in {"reap", "insert"} <=> call'[d].pgid # NoPgid
                              /\ call'[d].at # "idle" <=> call'[d].unit # NoUnit
                              /\ call'[d].pgid \in {call[d].pgid, NoPgid}
    BY <1>1 DEF stop_and_reap, SpawnFails, Ends, IdleCall, IInv, TypeOK, Call
  <2>2. /\ shim' \in [Pgids -> {"unborn", "starting", "spawned", "running",
                                "closing", "gone", "failed"}]
        /\ \A g \in Pgids : shim[g] # "unborn" => shim'[g] # "unborn"
        /\ stopped' \in [Units -> BOOLEAN]
    BY <1>1 DEF stop_and_reap, SpawnFails, Killed, IInv, TypeOK
  <2>3. TypeOK'
    BY <2>1, <2>2 DEF IInv, TypeOK
  <2>4. OneHolder' /\ RegistryIsCurrent'
    BY <2>1 DEF IInv, OneHolder, RegistryIsCurrent, persist_units_sync, TypeOK, LocalUnit
  <2>5. HeldGroupsAreBorn'
    BY <2>1, <2>2 DEF IInv, HeldGroupsAreBorn, TypeOK, LocalUnit, Call
  <2> QED
    BY <2>3, <2>4, <2>5 DEF IInv
<1>2. CASE \E g \in Pgids : spawn_child(c, g)
  <2>1. PICK g \in Pgids : spawn_child(c, g)
    BY <1>2
  <2>2. /\ UNCHANGED <<units, registry, service, lost, stopped>>
        /\ call' \in [Callers -> Call]
        /\ \A d \in Callers : /\ call'[d].at \in {"reap", "insert"} <=> call'[d].pgid # NoPgid
                              /\ call'[d].at # "idle" <=> call'[d].unit # NoUnit
                              /\ call'[d].pgid = IF d = c THEN g ELSE call[d].pgid
    <3>1. /\ UNCHANGED <<units, registry, service, lost, stopped>>
          /\ call[c].at = "spawn"
          /\ call' = [call EXCEPT ![c] = [call[c] EXCEPT !.at = "insert", !.pgid = g]]
      BY <2>1 DEF spawn_child
    <3>2. /\ call[c] \in Call /\ call[c].unit # NoUnit
          /\ call'[c] = [op |-> call[c].op, unit |-> call[c].unit,
                         at |-> "insert", pgid |-> g]
      BY <3>1 DEF IInv, TypeOK, Call
    <3>3. call'[c] \in Call
      BY <3>2 DEF Call
    <3>4. \A d \in Callers \ {c} : call'[d] = call[d]
      BY <3>1 DEF IInv, TypeOK
    <3>5. call' \in [Callers -> Call]
      BY <3>1, <3>3 DEF IInv, TypeOK
    <3> QED
      BY <3>1, <3>2, <3>4, <3>5 DEF IInv, TypeOK
  <2>3. shim[g] = "unborn" /\ shim' = [shim EXCEPT ![g] = "starting"]
    BY <2>1 DEF spawn_child
  <2>4. TypeOK'
    BY <2>2, <2>3 DEF IInv, TypeOK
  <2>5. OneHolder'
    BY <2>2, <2>3 DEF IInv, OneHolder, HeldGroupsAreBorn
  <2>6. RegistryIsCurrent'
    BY <2>2 DEF IInv, RegistryIsCurrent, persist_units_sync
  <2>7. HeldGroupsAreBorn'
    BY <2>2, <2>3 DEF IInv, HeldGroupsAreBorn, TypeOK, LocalUnit, Call
  <2> QED
    BY <2>4, <2>5, <2>6, <2>7 DEF IInv
<1> QED
  BY <1>1, <1>2

(***************************************************************************)
(* The unit a start or restart puts into the map.                          *)
(***************************************************************************)
LEMMA InsertStep ==
    ASSUME IInv, NEW c \in Callers, InsertUnit(c)
    PROVE  IInv'
<1> USE UnitAssumption, NoUnitAssumption
<1> DEFINE u == call[c].unit
           new == [pgid |-> call[c].pgid, child |-> TRUE, last_status |-> FALSE]
<1>1. /\ call[c].at = "insert" /\ UNCHANGED <<shim, service, lost, stopped>>
      /\ units' = [units EXCEPT ![u] = new]
      /\ registry' = persist_units_sync(units')
      /\ call' = [call EXCEPT ![c] = IdleCall]
  BY DEF InsertUnit, Ends
<1>2. u \in Units /\ call[c].pgid \in Pgids /\ new \in LocalUnit
  BY <1>1 DEF IInv, TypeOK, Call, LocalUnit
<1>3. units' \in [Units -> LocalUnit \cup {NoUnit}]
  BY <1>1, <1>2 DEF IInv, TypeOK
<1>4. \A v \in Units : units'[v] = IF v = u THEN new ELSE units[v]
  BY <1>1, <1>2 DEF IInv, TypeOK
<1>5. RegistryIsCurrent' /\ registry' \in [Units -> PersistedLocalUnit \cup {NoUnit}]
  BY <1>1, <1>3, PersistType DEF RegistryIsCurrent
<1>6. /\ call' \in [Callers -> Call]
      /\ \A d \in Callers : call'[d] = IF d = c THEN IdleCall ELSE call[d]
  BY <1>1 DEF IInv, TypeOK, IdleCall, Call
<1>7. TypeOK'
  BY <1>1, <1>3, <1>5, <1>6 DEF IInv, TypeOK, IdleCall
<1>8. OneHolder'
  BY <1>2, <1>4, <1>6 DEF IInv, OneHolder, IdleCall, TypeOK, LocalUnit
<1>9. HeldGroupsAreBorn'
  BY <1>1, <1>2, <1>4, <1>6 DEF IInv, HeldGroupsAreBorn, IdleCall
<1> QED
  BY <1>5, <1>7, <1>8, <1>9 DEF IInv

(***************************************************************************)
(* Any step that rewrites the map from itself: a unit keeps its group or   *)
(* leaves, and the calls hold no new group.                                *)
(***************************************************************************)
LEMMA MapStep ==
    ASSUME IInv, UNCHANGED <<shim, service, stopped>>,
           units' \in [Units -> LocalUnit \cup {NoUnit}],
           \A u \in Units : units'[u] # NoUnit =>
               units[u] # NoUnit /\ units'[u].pgid = units[u].pgid,
           registry' = persist_units_sync(units'),
           lost' \subseteq Pgids,
           call' = call \/ call' = [c \in Callers |-> IdleCall]
    PROVE  IInv'
<1> USE UnitAssumption, NoUnitAssumption
<1>1. /\ call' \in [Callers -> Call]
      /\ \A d \in Callers : call'[d] = call[d] \/ call'[d] = IdleCall
  BY DEF IInv, TypeOK, IdleCall, Call
<1>2. RegistryIsCurrent' /\ registry' \in [Units -> PersistedLocalUnit \cup {NoUnit}]
  BY PersistType DEF RegistryIsCurrent
<1>3. TypeOK'
  BY <1>1, <1>2 DEF IInv, TypeOK, IdleCall
<1>4. OneHolder'
  BY <1>1 DEF IInv, OneHolder, IdleCall, TypeOK, LocalUnit
<1>5. HeldGroupsAreBorn'
  BY <1>1 DEF IInv, HeldGroupsAreBorn, IdleCall
<1> QED
  BY <1>2, <1>3, <1>4, <1>5 DEF IInv

(***************************************************************************)
(* unit_status, the reaper, and the load of a restarted daemon.            *)
(***************************************************************************)
LEMMA LookStep ==
    ASSUME IInv, (\E u \in Units : unit_status(u)) \/ spawn_reaper \/ with_registry_path
    PROVE  IInv'
<1> USE UnitAssumption, NoUnitAssumption
<1>0. \A u \in Units : units[u] # NoUnit =>
        Exited(u) \in LocalUnit /\ Exited(u).pgid = units[u].pgid
  BY DEF Exited, IInv, TypeOK, LocalUnit
<1>1. CASE \E u \in Units : unit_status(u)
  <2>1. PICK u \in Units : unit_status(u)
    BY <1>1
  <2>2. /\ units' = [units EXCEPT ![u] = IF @.child THEN Exited(u) ELSE NoUnit]
        /\ units[u] # NoUnit /\ registry' = persist_units_sync(units')
        /\ UNCHANGED <<call, shim, service, lost, stopped>>
    BY <2>1 DEF unit_status
  <2> QED
    BY <1>0, <2>2, MapStep DEF IInv, TypeOK
<1>2. CASE spawn_reaper
  <2>1. /\ units' = [u \in Units |->
               IF units[u] = NoUnit \/ Settled(u) THEN units[u]
               ELSE IF units[u].child /\ u \in RemainAfterExit THEN Exited(u)
               ELSE NoUnit]
        /\ registry' = persist_units_sync(units')
        /\ UNCHANGED <<call, shim, service, lost, stopped>>
    BY <1>2 DEF spawn_reaper
  <2> QED
    BY <1>0, <2>1, MapStep DEF IInv, TypeOK
<1>3. CASE with_registry_path
  <2>1. \A u \in Units : should_keep_loaded_unit(u) =>
          /\ units[u] # NoUnit /\ registry[u].pgid = units[u].pgid
          /\ registry[u] \in PersistedLocalUnit
    BY DEF should_keep_loaded_unit, IInv, RegistryIsCurrent, persist_units_sync, TypeOK
  <2>2. \A u \in Units : units'[u] # NoUnit =>
          /\ units[u] # NoUnit /\ units'[u].pgid = units[u].pgid
          /\ units'[u] \in LocalUnit
    BY <1>3, <2>1 DEF with_registry_path, LocalUnit, PersistedLocalUnit
  <2>3. units' \in [Units -> LocalUnit \cup {NoUnit}]
    BY <1>3, <2>2 DEF with_registry_path
  <2>4. lost' \subseteq Pgids
    BY <1>3 DEF with_registry_path, IInv, TypeOK, Call
  <2> QED
    BY <1>3, <2>2, <2>3, <2>4, MapStep DEF with_registry_path
<1> QED
  BY <1>1, <1>2, <1>3

(***************************************************************************)
(* The shim and its service.                                               *)
(***************************************************************************)
LEMMA ShimStep ==
    ASSUME IInv, NEW g \in Pgids, Shim(g)
    PROVE  IInv'
<1>1. /\ UNCHANGED <<units, registry, call, lost, stopped>>
      /\ shim' \in [Pgids -> {"unborn", "starting", "spawned", "running",
                              "closing", "gone", "failed"}]
      /\ service' \in [Pgids -> {"none", "running", "gone"}]
      /\ \A h \in Pgids : shim[h] # "unborn" => shim'[h] # "unborn"
  BY DEF Shim, ShimSpawns, ShimListens, ShimFails, ServiceExits,
         shutdown_process_group, ShimExits, IInv, TypeOK
<1>2. TypeOK'
  BY <1>1 DEF IInv, TypeOK
<1>3. OneHolder' /\ RegistryIsCurrent'
  BY <1>1 DEF IInv, OneHolder, RegistryIsCurrent, persist_units_sync
<1>4. HeldGroupsAreBorn'
  BY <1>1 DEF IInv, HeldGroupsAreBorn, TypeOK, LocalUnit, Call
<1> QED
  BY <1>2, <1>3, <1>4 DEF IInv

(***************************************************************************)
(* The inductive invariant: OneHolder needs the file to mirror the map,    *)
(* because a restarted daemon loads it, and the held groups to have been   *)
(* created, because spawn_child hands out a new one.                       *)
(***************************************************************************)
THEOREM Inductive == Spec => []IInv
<1>1. Init => IInv
  BY UnitAssumption, NoUnitAssumption
     DEF Init, IInv, TypeOK, OneHolder, RegistryIsCurrent, HeldGroupsAreBorn,
         persist_units_sync, IdleCall, Call
<1>2. IInv /\ [Next]_vars => IInv'
  <2> SUFFICES ASSUME IInv, [Next]_vars PROVE IInv'
    OBVIOUS
  <2>1. CASE UNCHANGED vars
    BY <2>1 DEF vars, IInv, TypeOK, OneHolder, RegistryIsCurrent, HeldGroupsAreBorn,
                persist_units_sync
  <2>2. CASE Next
    BY <2>2, TakeUnitStep, CallStep, InsertStep, LookStep, ShimStep DEF Next
  <2> QED
    BY <2>1, <2>2
<1> QED
  BY <1>1, <1>2, PTL DEF Spec

(***************************************************************************)
(* However calls on a unit overlap, and through crashes of the daemon, no  *)
(* process group is held by two units, by two calls, or by a unit and a    *)
(* call: LocalSystemd never reaps a process twice or one still in use.     *)
(***************************************************************************)
THEOREM SingleHolder == Spec => []OneHolder
<1>1. IInv => OneHolder
  BY DEF IInv
<1> QED
  BY <1>1, Inductive, PTL

(***************************************************************************)
(* Whatever process the map names, local-units.json names it too, so a     *)
(* restarted daemon finds it.                                              *)
(***************************************************************************)
THEOREM Restorable == Spec => []UnitsAreRestorable
<1>1. IInv => UnitsAreRestorable
  BY NoUnitAssumption DEF IInv, TypeOK, RegistryIsCurrent, persist_units_sync,
     UnitsAreRestorable, should_keep_loaded_unit, LocalUnit, PersistedLocalUnit
<1> QED
  BY <1>1, Inductive, PTL

-----------------------------------------------------------------------------
(***************************************************************************)
(* From here on calls on one unit exclude each other.  A shim's steps: a   *)
(* process that is closing or has ended stays so.                          *)
(***************************************************************************)
LEMMA ShimExcludes ==
    ASSUME IInv, EInv, NEW g \in Pgids, Shim(g)
    PROVE  EInv'
<1>1. UNCHANGED <<units, call, lost, stopped>>
  BY DEF Shim, ShimSpawns, ShimListens, ShimFails, ServiceExits, shutdown_process_group, ShimExits
<1>2. \A h \in Pgids :
        /\ shim[h] \in {"closing", "gone", "failed"} => shim'[h] \in {"closing", "gone", "failed"}
        /\ shim'[h] \notin {"unborn", "gone", "failed", "closing"} =>
             shim[h] \notin {"unborn", "gone", "failed", "closing"}
  BY DEF Shim, ShimSpawns, ShimListens, ShimFails, ServiceExits, shutdown_process_group,
         ShimExits, IInv, TypeOK
<1>3. \A h \in Pgids : Held(h)' <=> Held(h)
  BY <1>1 DEF Held
<1>4. LiveShimIsHeld'
  BY <1>1, <1>2, <1>3 DEF EInv, LiveShimIsHeld, process_group_exists
<1>5. ReapedAreSignalled'
  BY <1>1, <1>2 DEF EInv, ReapedAreSignalled, IInv, TypeOK, Call
<1>6. CallsExclude' /\ StartIsNotStopped' /\ StopIsFinal'
  BY <1>1 DEF EInv, CallsExclude, StartIsNotStopped, BringsBack, StopIsFinal
<1> QED
  BY <1>4, <1>5, <1>6 DEF EInv

(***************************************************************************)
(* unit_status and the reaper only forget units whose process has ended.   *)
(***************************************************************************)
LEMMA LookExcludes ==
    ASSUME IInv, EInv, spawn_reaper \/ \E u \in Units : unit_status(u)
    PROVE  EInv'
<1> USE UnitAssumption, NoUnitAssumption
<1>1. UNCHANGED <<call, shim, lost, stopped>>
  BY DEF spawn_reaper, unit_status
<1>2. \A u \in Units :
        /\ units'[u] # NoUnit => units[u] # NoUnit /\ units'[u].pgid = units[u].pgid
        /\ units[u] # NoUnit /\ process_group_exists(units[u].pgid) => units'[u] = units[u]
  BY DEF spawn_reaper, unit_status, Settled, Exited, IInv, TypeOK, LocalUnit
<1>3. \A h \in Pgids : process_group_exists(h) /\ Held(h) => Held(h)'
  BY <1>1, <1>2 DEF Held
<1>4. LiveShimIsHeld'
  BY <1>1, <1>3 DEF EInv, LiveShimIsHeld, process_group_exists
<1>5. CallsExclude' /\ StopIsFinal'
  BY <1>1, <1>2 DEF EInv, CallsExclude, StopIsFinal, IInv, TypeOK, Call
<1>6. ReapedAreSignalled' /\ StartIsNotStopped'
  BY <1>1 DEF EInv, StartIsNotStopped, BringsBack, ReapedAreSignalled
<1> QED
  BY <1>4, <1>5, <1>6 DEF EInv

(***************************************************************************)
(* A restarted daemon finds every process but those that a call was ending *)
(* or had not recorded yet.                                                *)
(***************************************************************************)
LEMMA BootExcludes ==
    ASSUME IInv, EInv, with_registry_path
    PROVE  EInv'
<1> USE UnitAssumption, NoUnitAssumption
<1>1. /\ UNCHANGED <<shim, stopped>> /\ call' = [c \in Callers |-> IdleCall]
      /\ lost' = lost \cup {call[c].pgid : c \in {d \in Callers : call[d].at = "insert"}}
  BY DEF with_registry_path
<1>2. ASSUME NEW u \in Units
      PROVE  /\ units'[u] # NoUnit => units[u] # NoUnit
             /\ units[u] # NoUnit /\ process_group_exists(units[u].pgid) =>
                  units'[u] # NoUnit /\ units'[u].pgid = units[u].pgid
  <2>1. registry[u] = IF units[u] = NoUnit THEN NoUnit
                      ELSE [pgid |-> units[u].pgid, last_status |-> units[u].last_status]
    BY DEF IInv, RegistryIsCurrent, persist_units_sync
  <2>2. units'[u] = IF should_keep_loaded_unit(u)
                      THEN [pgid |-> registry[u].pgid, child |-> FALSE,
                            last_status |-> registry[u].last_status]
                      ELSE NoUnit
    BY DEF with_registry_path
  <2>3. units'[u] # NoUnit => units[u] # NoUnit
    BY <2>1, <2>2 DEF should_keep_loaded_unit
  <2>4. ASSUME units[u] # NoUnit, process_group_exists(units[u].pgid)
        PROVE  units'[u] # NoUnit /\ units'[u].pgid = units[u].pgid
    <3>1. units[u] \in LocalUnit /\ registry[u] \in PersistedLocalUnit \cup {NoUnit}
      BY <2>4 DEF IInv, TypeOK
    <3>2. registry[u] # NoUnit /\ registry[u].pgid = units[u].pgid
      BY <2>1, <2>4, <3>1 DEF LocalUnit, PersistedLocalUnit
    <3>3. should_keep_loaded_unit(u)
      BY <2>4, <3>2 DEF should_keep_loaded_unit
    <3>4. units'[u] = [pgid |-> registry[u].pgid, child |-> FALSE,
                       last_status |-> registry[u].last_status]
      BY <2>2, <3>3
    <3>5. units'[u] \in LocalUnit
      BY <3>1, <3>2, <3>4 DEF LocalUnit, PersistedLocalUnit
    <3>6. units'[u] # NoUnit
      BY <3>5, NoUnitAssumption
    <3>7. units'[u].pgid = registry[u].pgid
      BY <3>4
    <3> QED
      BY <3>2, <3>6, <3>7
  <2> QED
    BY <2>3, <2>4
<1>3. ASSUME NEW g \in Pgids \ lost', process_group_exists(g), shim[g] # "closing"
      PROVE  Held(g)'
  <2>1. Held(g)
    BY <1>1, <1>3 DEF EInv, LiveShimIsHeld
  <2>2. ASSUME NEW c \in Callers, call[c].pgid = g PROVE FALSE
    <3>1. call[c].at \in {"reap", "insert"}
      BY <2>2 DEF IInv, TypeOK
    <3>2. call[c].at # "insert"
      BY <1>1, <1>3, <2>2
    <3> QED
      BY <3>1, <3>2, <2>2, <1>3 DEF EInv, ReapedAreSignalled, process_group_exists
  <2> QED
    BY <2>1, <2>2, <1>2, <1>3 DEF Held
<1>4. LiveShimIsHeld'
  BY <1>1, <1>3 DEF LiveShimIsHeld, process_group_exists
<1>5. CallsExclude' /\ ReapedAreSignalled' /\ StartIsNotStopped'
  BY <1>1 DEF CallsExclude, ReapedAreSignalled, StartIsNotStopped, BringsBack, IdleCall
<1>6. StopIsFinal'
  BY <1>1, <1>2 DEF EInv, StopIsFinal
<1> QED
  BY <1>4, <1>5, <1>6 DEF EInv

(***************************************************************************)
(* A call takes a unit: nobody else is at it, and a restart finds in the   *)
(* map only a unit that was not stopped.                                   *)
(***************************************************************************)
LEMMA TakeExcludes ==
    ASSUME Exclusive, IInv, EInv, NEW c \in Callers, NEW op \in Ops, NEW u \in Units,
           TakeUnit(c, op, u)
    PROVE  EInv'
<1> USE UnitAssumption, NoUnitAssumption
<1>1. /\ units' = [units EXCEPT ![u] = NoUnit] /\ lost' = lost
      /\ call[c].at = "idle" /\ \A d \in Callers : call[d].unit # u
      /\ HandOver(c, op, u)
  BY DEF TakeUnit, MayCall
<1>2. \A v \in Units : units'[v] = IF v = u THEN NoUnit ELSE units[v]
  BY <1>1 DEF IInv, TypeOK
<1>3. call[c].pgid = NoPgid /\ call[c].unit = NoUnit
  BY <1>1 DEF IInv, TypeOK
<1>4. \A d \in Callers : /\ call[d].unit \in Units \cup {NoUnit}
                         /\ call[d].pgid \in Pgids \cup {NoPgid}
  BY DEF IInv, TypeOK, Call
<1>a. \A d \in Callers : BringsBack(d) => call[d].unit \in Units
  BY <1>4 DEF IInv, TypeOK, BringsBack
<1>5. CASE units[u] # NoUnit
  <2> DEFINE g == units[u].pgid
  <2>1. /\ shim' = signal_unit(g, op)
        /\ call' = [call EXCEPT ![c] = [op |-> op, unit |-> u, at |-> "reap", pgid |-> g]]
        /\ stopped' = [stopped EXCEPT ![u] = @ /\ op # "start"]
    BY <1>1, <1>5 DEF HandOver
  <2>2. g \in Pgids /\ shim[g] # "unborn" /\ ~stopped[u]
    BY <1>5 DEF IInv, TypeOK, LocalUnit, HeldGroupsAreBorn, EInv, StopIsFinal
  <2>3. \A d \in Callers :
          call'[d] = IF d = c THEN [op |-> op, unit |-> u, at |-> "reap", pgid |-> g] ELSE call[d]
    BY <2>1 DEF IInv, TypeOK
  <2>4. \A v \in Units : v # u => stopped'[v] = stopped[v]
    BY <2>1 DEF IInv, TypeOK
  <2>5. ~stopped'[u]
    BY <2>1, <2>2 DEF IInv, TypeOK
  <2>6. /\ \A h \in Pgids : h # g => shim'[h] = shim[h]
        /\ shim'[g] \in {"closing", "gone", "failed"}
    BY <2>1, <2>2 DEF signal_unit, Killed, IInv, TypeOK
  <2>7. CallsExclude'
    BY <1>1, <1>2, <1>4, <2>3 DEF EInv, CallsExclude
  <2>8. StartIsNotStopped'
    <3> SUFFICES ASSUME NEW d \in Callers, BringsBack(d)' PROVE ~stopped'[call'[d].unit]
      BY DEF StartIsNotStopped
    <3>1. CASE d = c
      BY <3>1, <2>3, <2>5
    <3>2. CASE d # c
      BY <3>2, <1>1, <1>a, <2>3, <2>4 DEF EInv, StartIsNotStopped, BringsBack
    <3> QED
      BY <3>1, <3>2
  <2>9. ReapedAreSignalled'
    BY <1>4, <2>2, <2>3, <2>6 DEF EInv, ReapedAreSignalled, IInv, TypeOK
  <2>10. StopIsFinal'
    BY <1>2, <2>4, <2>5 DEF EInv, StopIsFinal
  <2>11. \A h \in Pgids : Held(h) => Held(h)'
    BY <1>2, <1>3, <1>5, <2>3, UnitAssumption DEF Held
  <2>12. LiveShimIsHeld'
    BY <1>1, <2>6, <2>11 DEF EInv, LiveShimIsHeld, process_group_exists
  <2> QED
    BY <2>7, <2>8, <2>9, <2>10, <2>12 DEF EInv
<1>6. CASE units[u] = NoUnit
  <2>1. /\ shim' = shim /\ units' = units
        /\ \/ op = "start" /\ stopped' = [stopped EXCEPT ![u] = FALSE]
              /\ call' = [call EXCEPT ![c] = [op |-> op, unit |-> u, at |-> "spawn",
                                              pgid |-> NoPgid]]
           \/ stopped' = [stopped EXCEPT ![u] = @ \/ op # "restart"] /\ call' = call
    BY <1>1, <1>6 DEF HandOver, IInv, TypeOK
  <2>2. \A v \in Units : v # u => stopped'[v] = stopped[v]
    BY <2>1 DEF IInv, TypeOK
  <2>3. \A d \in Callers : d # c => call'[d] = call[d]
    BY <2>1 DEF IInv, TypeOK
  <2>4. \/ call'[c] = call[c]
        \/ call'[c] = [op |-> op, unit |-> u, at |-> "spawn", pgid |-> NoPgid] /\ ~stopped'[u]
    BY <2>1 DEF IInv, TypeOK
  <2>5. \A d \in Callers : /\ call'[d].pgid = call[d].pgid
                           /\ call'[d].at = "reap" => call'[d] = call[d]
    BY <1>3, <2>3, <2>4
  <2>6. CallsExclude'
    <3>1. \A d \in Callers : call'[d].unit = call[d].unit \/ (d = c /\ call'[d].unit = u)
      BY <2>3, <2>4
    <3> QED
      BY <1>1, <1>6, <2>1, <3>1 DEF EInv, CallsExclude
  <2>7. StartIsNotStopped'
    <3> SUFFICES ASSUME NEW d \in Callers, BringsBack(d)' PROVE ~stopped'[call'[d].unit]
      BY DEF StartIsNotStopped
    <3>1. CASE call'[d] = call[d]
      <4>1. BringsBack(d)
        BY <3>1 DEF BringsBack
      <4> QED
        BY <4>1, <3>1, <1>1, <1>a, <2>2 DEF EInv, StartIsNotStopped
    <3>2. CASE call'[d] # call[d]
      BY <3>2, <2>3, <2>4
    <3> QED
      BY <3>1, <3>2
  <2>8. ReapedAreSignalled'
    BY <2>1, <2>5 DEF EInv, ReapedAreSignalled
  <2>9. StopIsFinal'
    BY <1>6, <2>1, <2>2 DEF EInv, StopIsFinal
  <2>10. \A h \in Pgids : Held(h) => Held(h)'
    BY <2>1, <2>5 DEF Held
  <2>11. LiveShimIsHeld'
    BY <1>1, <2>1, <2>10 DEF EInv, LiveShimIsHeld, process_group_exists
  <2> QED
    BY <2>6, <2>7, <2>8, <2>9, <2>11 DEF EInv
<1> QED
  BY <1>5, <1>6

(***************************************************************************)
(* stop_and_reap: the process it lets go of has ended, and a unit is       *)
(* marked stopped only by the one call that works on it.                   *)
(***************************************************************************)
LEMMA ReapExcludes ==
    ASSUME IInv, EInv, NEW c \in Callers, stop_and_reap(c)
    PROVE  EInv'
<1> USE UnitAssumption, NoUnitAssumption
<1> DEFINE g == call[c].pgid
           u == call[c].unit
<1>1. /\ call[c].at = "reap" /\ UNCHANGED <<units, lost>>
      /\ shim' = [shim EXCEPT ![g] = Killed(g)]
      /\ stopped' = [stopped EXCEPT ![u] = @ \/ call[c].op \in {"stop", "kill"}]
      /\ call' = IF call[c].op \in {"start", "restart"}
                   THEN [call EXCEPT ![c] = [call[c] EXCEPT !.at = "spawn", !.pgid = NoPgid]]
                   ELSE [call EXCEPT ![c] = IdleCall]
  BY DEF stop_and_reap, Ends
<1>2. /\ call[c] \in Call /\ g \in Pgids /\ u \in Units
      /\ shim[g] \in {"closing", "gone", "failed"} /\ units[u] = NoUnit
  BY <1>1 DEF IInv, TypeOK, Call, EInv, ReapedAreSignalled, CallsExclude
<1>3. /\ \A h \in Pgids : h # g => shim'[h] = shim[h]
      /\ shim'[g] \in {"gone", "failed"}
  BY <1>1, <1>2 DEF Killed, IInv, TypeOK
<1>4. \A d \in Callers : d # c => call'[d] = call[d]
  BY <1>1 DEF IInv, TypeOK
<1>5. \/ /\ call[c].op \in {"start", "restart"}
         /\ call'[c] = [op |-> call[c].op, unit |-> u, at |-> "spawn", pgid |-> NoPgid]
      \/ call'[c] = IdleCall
  BY <1>1, <1>2 DEF IInv, TypeOK, Call
<1>6. /\ \A v \in Units : v # u => stopped'[v] = stopped[v]
      /\ call[c].op \in {"start", "restart"} => stopped'[u] = stopped[u]
  BY <1>1, <1>2 DEF IInv, TypeOK
<1>7. /\ call'[c].unit \in {u, NoUnit} /\ call'[c].pgid = NoPgid
      /\ call'[c].at \in {"spawn", "idle"}
  BY <1>5 DEF IdleCall
<1>8. CallsExclude'
  BY <1>1, <1>4, <1>7 DEF EInv, CallsExclude
<1>9. ReapedAreSignalled'
  BY <1>3, <1>4, <1>7 DEF EInv, ReapedAreSignalled, IInv, TypeOK, Call
<1>10. StopIsFinal'
  BY <1>1, <1>2, <1>6 DEF EInv, StopIsFinal
<1>11. StartIsNotStopped'
  <2> SUFFICES ASSUME NEW d \in Callers, BringsBack(d)' PROVE ~stopped'[call'[d].unit]
    BY DEF StartIsNotStopped
  <2>1. CASE d = c
    <3>1. call[c].op \in {"start", "restart"} /\ call'[c].unit = u
      BY <2>1, <1>5 DEF BringsBack, IdleCall
    <3>2. ~stopped[u]
      BY <3>1, <1>1 DEF EInv, StartIsNotStopped, BringsBack
    <3> QED
      BY <2>1, <3>1, <3>2, <1>6
  <2>2. CASE d # c
    <3>1. BringsBack(d) /\ call'[d] = call[d]
      BY <2>2, <1>4 DEF BringsBack
    <3>2. call[d].unit \in Units /\ call[d].unit # u
      BY <3>1, <1>2, <2>2 DEF BringsBack, IInv, TypeOK, Call, EInv, CallsExclude
    <3> QED
      BY <3>1, <3>2, <1>6 DEF EInv, StartIsNotStopped
  <2> QED
    BY <2>1, <2>2
<1>12. \A h \in Pgids : h # g /\ Held(h) => Held(h)'
  BY <1>1, <1>4 DEF Held
<1>13. LiveShimIsHeld'
  BY <1>1, <1>3, <1>12 DEF EInv, LiveShimIsHeld, process_group_exists
<1> QED
  BY <1>8, <1>9, <1>10, <1>11, <1>13 DEF EInv

(***************************************************************************)
(* The new process is held by the call from its first moment.              *)
(***************************************************************************)
LEMMA SpawnExcludes ==
    ASSUME IInv, EInv, NEW c \in Callers, NEW g \in Pgids, spawn_child(c, g)
    PROVE  EInv'
<1> USE UnitAssumption, NoUnitAssumption
<1>1. /\ call[c].at = "spawn" /\ UNCHANGED <<units, lost, stopped>>
      /\ shim[g] = "unborn" /\ shim' = [shim EXCEPT ![g] = "starting"]
      /\ call' = [call EXCEPT ![c] = [call[c] EXCEPT !.at = "insert", !.pgid = g]]
  BY DEF spawn_child
<1>2. /\ call[c] \in Call /\ call[c].pgid = NoPgid
  BY <1>1 DEF IInv, TypeOK
<1>3. call'[c] = [op |-> call[c].op, unit |-> call[c].unit, at |-> "insert", pgid |-> g]
  BY <1>1, <1>2 DEF IInv, TypeOK, Call
<1>4. \A d \in Callers : d # c => call'[d] = call[d]
  BY <1>1 DEF IInv, TypeOK
<1>5. \A h \in Pgids : shim'[h] = IF h = g THEN "starting" ELSE shim[h]
  BY <1>1 DEF IInv, TypeOK
<1>6. \A d \in Callers : call'[d].unit = call[d].unit /\ (BringsBack(d)' => BringsBack(d))
  BY <1>1, <1>3, <1>4 DEF BringsBack
<1>7. CallsExclude' /\ StartIsNotStopped' /\ StopIsFinal'
  BY <1>1, <1>6 DEF EInv, CallsExclude, StartIsNotStopped, StopIsFinal
<1>8. ReapedAreSignalled'
  <2> SUFFICES ASSUME NEW d \in Callers, call'[d].at = "reap"
               PROVE  shim'[call'[d].pgid] \in {"closing", "gone", "failed"}
    BY DEF ReapedAreSignalled
  <2>1. d # c /\ call'[d] = call[d]
    BY <1>3, <1>4
  <2>2. call[d].pgid \in Pgids /\ shim[call[d].pgid] \in {"closing", "gone", "failed"}
    BY <2>1 DEF EInv, ReapedAreSignalled, IInv, TypeOK, Call
  <2> QED
    BY <1>1, <1>5, <2>1, <2>2
<1>9. Held(g)' /\ \A h \in Pgids : Held(h) => Held(h)'
  BY <1>1, <1>2, <1>3, <1>4 DEF Held
<1>10. LiveShimIsHeld'
  BY <1>1, <1>5, <1>9 DEF EInv, LiveShimIsHeld, process_group_exists
<1> QED
  BY <1>7, <1>8, <1>10 DEF EInv

(***************************************************************************)
(* The end of a call: it finds the unit's place empty, and the unit holds  *)
(* the process that the call held.                                         *)
(***************************************************************************)
LEMMA EndExcludes ==
    ASSUME IInv, EInv, NEW c \in Callers, SpawnFails(c) \/ InsertUnit(c)
    PROVE  EInv'
<1> USE UnitAssumption, NoUnitAssumption
<1> DEFINE u == call[c].unit
           new == [pgid |-> call[c].pgid, child |-> TRUE, last_status |-> FALSE]
<1>1. /\ UNCHANGED <<shim, lost, stopped>> /\ call' = [call EXCEPT ![c] = IdleCall]
      /\ call[c].at \in {"spawn", "insert"}
      /\ \/ units' = units /\ call[c].at = "spawn"
         \/ units' = [units EXCEPT ![u] = new] /\ call[c].at = "insert"
  BY DEF SpawnFails, InsertUnit, Ends
<1>2. \A d \in Callers : call'[d] = IF d = c THEN IdleCall ELSE call[d]
  BY <1>1 DEF IInv, TypeOK, IdleCall, Call
<1>3. u \in Units /\ units[u] = NoUnit /\ ~stopped[u]
  BY <1>1 DEF IInv, TypeOK, Call, EInv, CallsExclude, StartIsNotStopped, BringsBack
<1>4. \A v \in Units : v # u => units'[v] = units[v]
  BY <1>1 DEF IInv, TypeOK
<1>5. call[c].at = "insert" =>
        call[c].pgid \in Pgids /\ units'[u] = new /\ units'[u] # NoUnit
  <2> SUFFICES ASSUME call[c].at = "insert"
               PROVE  call[c].pgid \in Pgids /\ units'[u] = new /\ units'[u] # NoUnit
    OBVIOUS
  <2>1. call[c].pgid \in Pgids
    BY DEF IInv, TypeOK, Call
  <2>2. units'[u] = new
    BY <1>1, <1>3 DEF IInv, TypeOK
  <2>3. new \in LocalUnit
    BY <2>1 DEF LocalUnit
  <2> QED
    BY <2>1, <2>2, <2>3
<1>6. CallsExclude'
  <2>1. \A d \in Callers : d # c /\ call[d].unit # NoUnit =>
                              call[d].unit # u /\ call[d].unit \in Units
    BY <1>3 DEF EInv, CallsExclude, IInv, TypeOK, Call
  <2> QED
    BY <1>2, <1>4, <2>1 DEF EInv, CallsExclude, IdleCall
<1>7. StartIsNotStopped' /\ ReapedAreSignalled'
  BY <1>1, <1>2 DEF EInv, StartIsNotStopped, ReapedAreSignalled, BringsBack, IdleCall
<1>8. StopIsFinal'
  BY <1>1, <1>3, <1>4 DEF EInv, StopIsFinal
<1>9. ASSUME NEW h \in Pgids, Held(h) PROVE Held(h)'
  <2>1. CASE \E v \in Units : units[v] # NoUnit /\ units[v].pgid = h
    BY <2>1, <1>3, <1>4 DEF Held
  <2>2. CASE \E d \in Callers : d # c /\ call[d].pgid = h
    BY <2>2, <1>2 DEF Held
  <2>3. CASE call[c].pgid = h
    <3>1. call[c].at = "insert"
      BY <2>3, <1>1 DEF IInv, TypeOK
    <3>2. units'[u] # NoUnit /\ units'[u].pgid = h
      BY <3>1, <2>3, <1>5
    <3> QED
      BY <1>3, <3>2 DEF Held
  <2> QED
    BY <1>9, <2>1, <2>2, <2>3 DEF Held
<1>10. LiveShimIsHeld'
  BY <1>1, <1>9 DEF EInv, LiveShimIsHeld, process_group_exists
<1> QED
  BY <1>6, <1>7, <1>8, <1>10 DEF EInv

(***************************************************************************)
(* The invariant of exclusive calls, on top of IInv.                       *)
(***************************************************************************)
THEOREM ExclusiveInductive == Spec => [](Exclusive => EInv)
<1>1. Init => EInv
  BY UnitAssumption, NoUnitAssumption
     DEF Init, EInv, CallsExclude, StartIsNotStopped, BringsBack, ReapedAreSignalled,
         StopIsFinal, LiveShimIsHeld, process_group_exists, IdleCall
<1>2. IInv /\ (Exclusive => EInv) /\ [Next]_vars => (Exclusive => EInv)'
  <2> SUFFICES ASSUME IInv, Exclusive, EInv, [Next]_vars PROVE EInv'
    OBVIOUS
  <2>1. CASE UNCHANGED vars
    BY <2>1 DEF vars, EInv, CallsExclude, StartIsNotStopped, BringsBack, ReapedAreSignalled,
                StopIsFinal, LiveShimIsHeld, process_group_exists, Held
  <2>2. CASE Next
    BY <2>2, TakeExcludes, ReapExcludes, SpawnExcludes, EndExcludes, LookExcludes,
       BootExcludes, ShimExcludes DEF Next
  <2> QED
    BY <2>1, <2>2
<1> QED
  BY <1>1, <1>2, Inductive, PTL DEF Spec

(***************************************************************************)
(* Where the callers of the manager do not overlap on a unit, a unit that  *)
(* stop_unit or kill_unit has ended stays out of the map until a new       *)
(* start, through every restart of the daemon.                             *)
(***************************************************************************)
THEOREM StopHolds == Spec => [](Exclusive => StopIsFinal)
<1>1. EInv => StopIsFinal
  BY DEF EInv
<1> QED
  BY <1>1, ExclusiveInductive, PTL

(***************************************************************************)
(* Under the same condition every shim that lives and was not told to      *)
(* close is held by a unit or a call, but for those a dying daemon had     *)
(* spawned and not recorded.                                               *)
(***************************************************************************)
THEOREM NoShimForgotten == Spec => [](Exclusive => LiveShimIsHeld)
<1>1. EInv => LiveShimIsHeld
  BY DEF EInv
<1> QED
  BY <1>1, ExclusiveInductive, PTL
=============================================================================
