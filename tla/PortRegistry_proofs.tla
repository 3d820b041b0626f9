------------------------ MODULE PortRegistry_proofs ------------------------
(***************************************************************************)
(* Proofs about the port registry, for any set of ports, owners, daemons   *)
(* and homes.  The inductive invariant IInv adds to the two properties     *)
(* about claims and entries that the home lock keeps daemons of one home   *)
(* apart, which is why a release cannot hit another daemon's entry.        *)
(***************************************************************************)
EXTENDS PortRegistry, TLAPS

USE HomeAssumption, NoEntryAssumption

(***************************************************************************)
(* A successful transaction (Grant) of a running daemon keeps the          *)
(* invariant, for any set of claims that the registry rules allow: one     *)
(* owner per port, each port free or already its owner's.                  *)
(***************************************************************************)
LEMMA GrantKeepsInvariant ==
    ASSUME IInv,
           NEW d \in Pids, Running(d),
           NEW cs \in SUBSET Claims,
           \A c \in cs : OwnerHome[c[1]] = PidHome[d],
           \A c, b \in cs : c[2] = b[2] => c = b,
           \A c \in cs : \/ cleanup_stale(registry)[c[2]] = NoEntry
                         \/ cleanup_stale(registry)[c[2]].owner = c[1],
           Grant(d, cs),
           proc' = proc, listening' = listening, manifest' = manifest,
           unsynced' \in [Pids -> SUBSET Claims],
           \A e \in Pids : unsynced'[e] \subseteq unsynced[e]
    PROVE  IInv'
<1> DEFINE reg == cleanup_stale(registry)
<1>1. reg \in [Ports -> Entry \cup {NoEntry}]
  BY DEF IInv, TypeOK, cleanup_stale
<1>2. \A p \in Ports : reg[p] # NoEntry =>
          reg[p] = registry[p] /\ is_pid_alive(reg[p].daemon_pid)
  BY DEF cleanup_stale
<1>3. \A p \in Ports : registry[p] # NoEntry /\ is_pid_alive(registry[p].daemon_pid)
          => reg[p] = registry[p]
  BY DEF cleanup_stale
<1>4. registry' = Insert(reg, d, cs)
  BY DEF Grant
<1>5. \A c \in cs : c[1] \in Owners /\ c[2] \in Ports /\ c = <<c[1], c[2]>>
  BY DEF Claims
<1>6. \A p \in Ports : reg[p] # NoEntry => registry'[p] = reg[p]
  BY <1>4 DEF Insert
<1>7. \A c \in cs : reg[c[2]] = NoEntry =>
          registry'[c[2]] = [owner |-> c[1], daemon_pid |-> d]
  <2> SUFFICES ASSUME NEW c \in cs, reg[c[2]] = NoEntry
               PROVE  registry'[c[2]] = [owner |-> c[1], daemon_pid |-> d]
    OBVIOUS
  <2>1. <<c[1], c[2]>> \in cs
    BY <1>5
  <2>2. \A o \in Owners : <<o, c[2]>> \in cs => o = c[1]
    BY <2>1, <1>5
  <2>3. (CHOOSE o \in Owners : <<o, c[2]>> \in cs) = c[1]
    BY <2>1, <2>2, <1>5
  <2> QED
    BY <1>4, <2>1, <2>3, <1>5 DEF Insert
<1>8. \A p \in Ports : registry'[p] # NoEntry =>
          \/ reg[p] # NoEntry /\ registry'[p] = reg[p]
          \/ \E c \in cs : /\ c[2] = p /\ reg[p] = NoEntry
                           /\ registry'[p] = [owner |-> c[1], daemon_pid |-> d]
  <2> SUFFICES ASSUME NEW p \in Ports, registry'[p] # NoEntry, reg[p] = NoEntry
               PROVE  \E c \in cs : /\ c[2] = p
                          /\ registry'[p] = [owner |-> c[1], daemon_pid |-> d]
    BY <1>6
  <2>1. PICK o \in Owners : <<o, p>> \in cs
    BY <1>4 DEF Insert
  <2> QED
    BY <2>1, <1>7
<1>9. TypeOK'
  <2>1. registry' \in [Ports -> Entry \cup {NoEntry}]
    BY <1>1, <1>4 DEF Insert, Entry
  <2>2. held' \in [Pids -> SUBSET Claims] /\ inherited' \in [Pids -> SUBSET Claims]
    BY DEF Grant, IInv, TypeOK
  <2> QED
    BY <2>1, <2>2 DEF IInv, TypeOK
<1>10. HeldIsReserved'
  <2> SUFFICES ASSUME NEW e \in Pids, NEW c \in held'[e] \ inherited'[e]
               PROVE  registry'[c[2]] = [owner |-> c[1], daemon_pid |-> e]
    BY DEF HeldIsReserved
  <2>1. c \in Claims /\ c[2] \in Ports
    BY <1>9 DEF TypeOK, Claims
  <2>2. CASE c \in held[e] \ inherited[e]
    <3>1. registry[c[2]] = [owner |-> c[1], daemon_pid |-> e] /\ Running(e)
      BY <2>2 DEF IInv, HeldIsReserved, ClaimsOfRunningDaemons
    <3>2. registry[c[2]] # NoEntry /\ is_pid_alive(registry[c[2]].daemon_pid)
      BY <3>1, <2>1 DEF Claims, Entry, Running, is_pid_alive
    <3> QED
      BY <3>1, <3>2, <2>1, <1>3, <1>6
  <2>3. CASE c \notin held[e] \ inherited[e]
    <3>1. e = d /\ c \in cs
      BY <2>3 DEF Grant, IInv, TypeOK
    <3>2. reg[c[2]] = NoEntry \/ reg[c[2]].daemon_pid = d
      BY <3>1 DEF Grant, IInv, TypeOK
    <3>3. CASE reg[c[2]] = NoEntry
      BY <3>1, <3>3, <1>7
    <3>4. CASE reg[c[2]] # NoEntry
      <4>1. reg[c[2]] \in Entry /\ reg[c[2]].owner = c[1] /\ reg[c[2]].daemon_pid = d
        BY <3>1, <3>2, <3>4, <2>1, <1>1
      <4> QED
        BY <4>1, <3>1, <3>4, <1>6, <2>1 DEF Entry
    <3> QED
      BY <3>3, <3>4
  <2> QED
    BY <2>2, <2>3
<1>11. \A e \in Pids : held[e] \subseteq held'[e] /\ held'[e] \subseteq held[e] \cup cs
                       /\ (e # d => held'[e] = held[e])
  BY DEF Grant, IInv, TypeOK
<1>12. cs \subseteq held'[d]
  BY DEF Grant, IInv, TypeOK
<1>13. NoOrphanReservation'
  <2> SUFFICES ASSUME NEW p \in Ports, registry'[p] # NoEntry,
                      Running(registry'[p].daemon_pid)
               PROVE  <<registry'[p].owner, p>> \in held'[registry'[p].daemon_pid]
    BY DEF NoOrphanReservation, Running
  <2>1. CASE reg[p] # NoEntry /\ registry'[p] = reg[p]
    <3>1. registry[p] = reg[p] /\ registry[p] \in Entry
      BY <2>1, <1>2, <1>1
    <3>2. <<registry[p].owner, p>> \in held[registry[p].daemon_pid]
      BY <2>1, <3>1 DEF IInv, NoOrphanReservation
    <3> QED
      BY <2>1, <3>1, <3>2, <1>11 DEF Entry
  <2>2. CASE \E c \in cs : /\ c[2] = p
                           /\ registry'[p] = [owner |-> c[1], daemon_pid |-> d]
    BY <2>2, <1>5, <1>12
  <2> QED
    BY <1>8, <2>1, <2>2
<1>14. OneDaemonPerHome'
  BY DEF IInv, OneDaemonPerHome, Running
<1>15. ClaimsOfRunningDaemons'
  BY <1>11 DEF IInv, ClaimsOfRunningDaemons, Running
<1>16. EntriesOfStartedDaemons'
  <2> SUFFICES ASSUME NEW p \in Ports, registry'[p] # NoEntry
               PROVE  /\ proc[registry'[p].daemon_pid] # "unborn"
                      /\ OwnerHome[registry'[p].owner] = PidHome[registry'[p].daemon_pid]
    BY DEF EntriesOfStartedDaemons
  <2>1. CASE reg[p] # NoEntry /\ registry'[p] = reg[p]
    BY <2>1, <1>2 DEF IInv, EntriesOfStartedDaemons
  <2>2. CASE \E c \in cs : /\ c[2] = p
                           /\ registry'[p] = [owner |-> c[1], daemon_pid |-> d]
    BY <2>2 DEF Running
  <2> QED
    BY <1>8, <2>1, <2>2
<1> QED
  BY <1>9, <1>10, <1>13, <1>14, <1>15, <1>16 DEF IInv

(***************************************************************************)
(* The daemon's death (Die, or a boot whose sync is refused) keeps it.     *)
(***************************************************************************)
LEMMA DeathKeepsInvariant ==
    ASSUME IInv,
           NEW d \in Pids, Running(d),
           proc' = [proc EXCEPT ![d] = "exiting"],
           held' = [held EXCEPT ![d] = {}],
           inherited' = [inherited EXCEPT ![d] = {}],
           unsynced' = [unsynced EXCEPT ![d] = {}],
           UNCHANGED <<registry, listening, manifest>>
    PROVE  IInv'
<1>1. TypeOK'
  BY DEF IInv, TypeOK
<1>2. HeldIsReserved'
  BY DEF IInv, TypeOK, HeldIsReserved
<1>3. NoOrphanReservation'
  BY DEF IInv, TypeOK, NoOrphanReservation, Running, Entry
<1>4. OneDaemonPerHome'
  BY DEF IInv, TypeOK, OneDaemonPerHome, Running
<1>5. ClaimsOfRunningDaemons'
  BY DEF IInv, TypeOK, ClaimsOfRunningDaemons, Running
<1>6. EntriesOfStartedDaemons'
  BY DEF IInv, TypeOK, EntriesOfStartedDaemons, Entry
<1> QED
  BY <1>1, <1>2, <1>3, <1>4, <1>5, <1>6 DEF IInv

(***************************************************************************)
(* release_port keeps it: the home lock makes the releasing daemon the     *)
(* only running one that can hold the owner's claim.                       *)
(***************************************************************************)
LEMMA ReleaseKeepsInvariant ==
    ASSUME IInv,
           NEW d \in Pids, NEW o \in Owners, NEW p \in Ports,
           release_port(d, o, p)
    PROVE  IInv'
<1> DEFINE reg == cleanup_stale(registry)
           claim == <<o, p>>
<1>1. claim \in held[d] /\ Running(d) /\ OwnerHome[o] = PidHome[d] /\ proc' = proc
  BY DEF release_port, IInv, ClaimsOfRunningDaemons, Running
<1>2. \A q \in Ports : reg[q] = registry[q] \/ reg[q] = NoEntry
  BY DEF cleanup_stale
<1>3. \A q \in Ports : registry[q] # NoEntry /\ is_pid_alive(registry[q].daemon_pid)
          => reg[q] = registry[q]
  BY DEF cleanup_stale
<1>4. reg \in [Ports -> Entry \cup {NoEntry}]
  BY DEF IInv, TypeOK, cleanup_stale
<1>5. \A q \in Ports : registry'[q] = registry[q] \/ registry'[q] = NoEntry
  BY <1>2, <1>4 DEF release_port
<1>6. /\ held'[d] = held[d] \ {claim} /\ inherited'[d] = inherited[d] \ {claim}
      /\ \A e \in Pids : e # d => held'[e] = held[e] /\ inherited'[e] = inherited[e]
  BY DEF release_port, IInv, TypeOK
<1>7. TypeOK'
  BY <1>4 DEF release_port, IInv, TypeOK
<1>8. HeldIsReserved'
  <2> SUFFICES ASSUME NEW e \in Pids, NEW c \in held'[e] \ inherited'[e]
               PROVE  registry'[c[2]] = [owner |-> c[1], daemon_pid |-> e]
    BY DEF HeldIsReserved
  <2>1. c \in held[e] \ inherited[e] /\ (e = d => c # claim)
    <3>1. CASE e = d
      BY <1>6, <3>1
    <3>2. CASE e # d
      BY <1>6, <3>2
    <3> QED
      BY <3>1, <3>2
  <2>2. /\ registry[c[2]] = [owner |-> c[1], daemon_pid |-> e]
        /\ Running(e) /\ OwnerHome[c[1]] = PidHome[e]
        /\ c = <<c[1], c[2]>> /\ c[1] \in Owners /\ c[2] \in Ports
    BY <2>1 DEF IInv, TypeOK, HeldIsReserved, ClaimsOfRunningDaemons, Claims
  <2>3. registry[c[2]] # NoEntry /\ reg[c[2]] = registry[c[2]]
    BY <2>2, <1>3 DEF Entry, Running, is_pid_alive
  <2>4. CASE c[2] # p
    BY <2>2, <2>3, <2>4, <1>4 DEF release_port
  <2>5. CASE c[2] = p
    <3>1. c[1] # o
      <4>1. CASE e = d
        BY <4>1, <2>1, <2>2, <2>5
      <4>2. CASE e # d
        BY <4>2, <2>2, <1>1 DEF IInv, OneDaemonPerHome
      <4> QED
        BY <4>1, <4>2
    <3> QED
      BY <3>1, <2>2, <2>3, <2>5 DEF release_port
  <2> QED
    BY <2>4, <2>5
<1>9. NoOrphanReservation'
  <2> SUFFICES ASSUME NEW q \in Ports, registry'[q] # NoEntry,
                      Running(registry'[q].daemon_pid)
               PROVE  <<registry'[q].owner, q>> \in held'[registry'[q].daemon_pid]
    BY <1>1 DEF NoOrphanReservation, Running
  <2>1. registry'[q] = registry[q] /\ registry[q] \in Entry
    BY <1>5 DEF IInv, TypeOK
  <2>2. <<registry[q].owner, q>> \in held[registry[q].daemon_pid]
    BY <2>1 DEF IInv, NoOrphanReservation
  <2>3. <<registry[q].owner, q>> # claim
    <3>1. CASE q # p
      BY <3>1
    <3>2. CASE q = p
      <4>1. reg[p] = registry[p]
        BY <2>1, <3>2, <1>3 DEF Running, is_pid_alive
      <4>2. reg[p].owner # o
        BY <4>1, <2>1, <3>2, <1>4 DEF release_port
      <4> QED
        BY <4>1, <4>2, <3>2
    <3> QED
      BY <3>1, <3>2
  <2>4. registry[q].daemon_pid \in Pids
    BY <2>1 DEF Entry
  <2>5. CASE registry[q].daemon_pid = d
    <3> HIDE DEF claim
    <3> QED
      BY <2>1, <2>2, <2>3, <2>5, <1>6
  <2>6. CASE registry[q].daemon_pid # d
    BY <2>1, <2>2, <2>4, <2>6, <1>6
  <2> QED
    BY <2>5, <2>6
<1>10. OneDaemonPerHome'
  BY <1>1 DEF IInv, OneDaemonPerHome, Running
<1>11. ClaimsOfRunningDaemons'
  BY <1>1, <1>6 DEF release_port, IInv, ClaimsOfRunningDaemons, Running
<1>12. EntriesOfStartedDaemons'
  BY <1>1, <1>5 DEF IInv, EntriesOfStartedDaemons
<1> QED
  BY <1>7, <1>8, <1>9, <1>10, <1>11, <1>12 DEF IInv

(***************************************************************************)
(* Every step keeps the inductive invariant.                               *)
(***************************************************************************)
LEMMA NextKeepsInvariant == IInv /\ [Next]_vars => IInv'
<1> SUFFICES ASSUME IInv, [Next]_vars PROVE IInv'
  OBVIOUS
<1> USE DEF Running
<1>1. ASSUME NEW d \in Pids, acquire_daemon_lock(d) PROVE IInv'
  <2>1. TypeOK'
    BY <1>1 DEF acquire_daemon_lock, IInv, TypeOK
  <2>2. HeldIsReserved'
    BY <1>1 DEF acquire_daemon_lock, IInv, HeldIsReserved
  <2>3. NoOrphanReservation'
    BY <1>1 DEF acquire_daemon_lock, IInv, TypeOK, NoOrphanReservation,
                EntriesOfStartedDaemons, Entry
  <2>4. OneDaemonPerHome'
    BY <1>1 DEF acquire_daemon_lock, IInv, TypeOK, OneDaemonPerHome
  <2>5. ClaimsOfRunningDaemons'
    BY <1>1 DEF acquire_daemon_lock, IInv, TypeOK, ClaimsOfRunningDaemons
  <2>6. EntriesOfStartedDaemons'
    BY <1>1 DEF acquire_daemon_lock, IInv, TypeOK, EntriesOfStartedDaemons, Entry
  <2> QED
    BY <2>1, <2>2, <2>3, <2>4, <2>5, <2>6 DEF IInv
<1>2. ASSUME NEW d \in Pids, sync_port_reservations_from_disk(d) PROVE IInv'
  <2>1. PICK c \in unsynced[d] :
         \/ /\ reserve_specific_port(cleanup_stale(registry), c[1], c[2], FALSE)
            /\ Grant(d, {c})
            /\ unsynced' = [unsynced EXCEPT ![d] = @ \ {c}]
            /\ UNCHANGED <<proc, listening, manifest>>
         \/ /\ proc' = [proc EXCEPT ![d] = "exiting"]
            /\ held' = [held EXCEPT ![d] = {}]
            /\ inherited' = [inherited EXCEPT ![d] = {}]
            /\ unsynced' = [unsynced EXCEPT ![d] = {}]
            /\ UNCHANGED <<registry, listening, manifest>>
    BY <1>2 DEF sync_port_reservations_from_disk
  <2>2. Running(d) /\ {c} \in SUBSET Claims /\ OwnerHome[c[1]] = PidHome[d]
    BY <1>2 DEF sync_port_reservations_from_disk, IInv, TypeOK, ClaimsOfRunningDaemons
  <2>3. CASE /\ reserve_specific_port(cleanup_stale(registry), c[1], c[2], FALSE)
             /\ Grant(d, {c})
             /\ unsynced' = [unsynced EXCEPT ![d] = @ \ {c}]
             /\ UNCHANGED <<proc, listening, manifest>>
    <3>1. /\ unsynced' \in [Pids -> SUBSET Claims]
          /\ \A e \in Pids : unsynced'[e] \subseteq unsynced[e]
      BY <2>3 DEF IInv, TypeOK
    <3>2. \/ cleanup_stale(registry)[c[2]] = NoEntry
          \/ cleanup_stale(registry)[c[2]].owner = c[1]
      BY <2>3 DEF reserve_specific_port
    <3> HIDE DEF Running
    <3> QED
      BY <2>2, <2>3, <3>1, <3>2, GrantKeepsInvariant
  <2>4. CASE /\ proc' = [proc EXCEPT ![d] = "exiting"]
             /\ held' = [held EXCEPT ![d] = {}]
             /\ inherited' = [inherited EXCEPT ![d] = {}]
             /\ unsynced' = [unsynced EXCEPT ![d] = {}]
             /\ UNCHANGED <<registry, listening, manifest>>
    <3> HIDE DEF Running
    <3> QED
      BY <2>2, <2>4, DeathKeepsInvariant
  <2> QED
    BY <2>1, <2>3, <2>4
<1>3. ASSUME NEW d \in Pids, BootDone(d) PROVE IInv'
  <2>1. TypeOK' /\ HeldIsReserved'
    BY <1>3 DEF BootDone, IInv, TypeOK, HeldIsReserved
  <2>2. NoOrphanReservation' /\ EntriesOfStartedDaemons'
    BY <1>3 DEF BootDone, IInv, TypeOK, NoOrphanReservation,
                EntriesOfStartedDaemons, Entry
  <2>3. OneDaemonPerHome' /\ ClaimsOfRunningDaemons'
    BY <1>3 DEF BootDone, IInv, TypeOK, OneDaemonPerHome, ClaimsOfRunningDaemons
  <2> QED
    BY <2>1, <2>2, <2>3 DEF IInv
<1>4. ASSUME NEW d \in Pids, Die(d) PROVE IInv'
  <2>1. Running(d)
    BY <1>4 DEF Die
  <2> HIDE DEF Running
  <2> QED
    BY <1>4, <2>1, DeathKeepsInvariant DEF Die
<1>5. ASSUME NEW d \in Pids, Reaped(d) PROVE IInv'
  <2>1. TypeOK' /\ HeldIsReserved'
    BY <1>5 DEF Reaped, IInv, TypeOK, HeldIsReserved
  <2>2. NoOrphanReservation' /\ EntriesOfStartedDaemons'
    BY <1>5 DEF Reaped, IInv, TypeOK, NoOrphanReservation,
                EntriesOfStartedDaemons, Entry
  <2>3. OneDaemonPerHome' /\ ClaimsOfRunningDaemons'
    BY <1>5 DEF Reaped, IInv, TypeOK, OneDaemonPerHome, ClaimsOfRunningDaemons
  <2> QED
    BY <2>1, <2>2, <2>3 DEF IInv
<1>6. ASSUME NEW d \in Pids, NEW o \in Owners, NEW p \in Ports, NEW avail \in BOOLEAN,
             reserve_port(d, o, p, avail)
      PROVE IInv'
  <2>1. /\ Running(d) /\ {<<o, p>>} \in SUBSET Claims /\ OwnerHome[o] = PidHome[d]
        /\ Grant(d, {<<o, p>>})
        /\ proc' = proc /\ listening' = listening /\ manifest' = manifest
        /\ unsynced' = unsynced
    BY <1>6 DEF reserve_port, Claims
  <2>2. \/ cleanup_stale(registry)[p] = NoEntry
        \/ cleanup_stale(registry)[p].owner = o
    BY <1>6 DEF reserve_port, reserve_specific_port
  <2>3. unsynced \in [Pids -> SUBSET Claims]
    BY DEF IInv, TypeOK
  <2> HIDE DEF Running
  <2> QED
    BY <2>1, <2>2, <2>3, GrantKeepsInvariant
<1>7. ASSUME NEW d \in Pids, NEW o \in Owners, NEW p \in Ports,
             reserve_ephemeral_port(d, o, p)
      PROVE IInv'
  <2>1. /\ Running(d) /\ {<<o, p>>} \in SUBSET Claims /\ OwnerHome[o] = PidHome[d]
        /\ Grant(d, {<<o, p>>}) /\ cleanup_stale(registry)[p] = NoEntry
        /\ proc' = proc /\ listening' = listening /\ manifest' = manifest
        /\ unsynced' = unsynced
    BY <1>7 DEF reserve_ephemeral_port, allocate_ephemeral_port, Claims
  <2>2. unsynced \in [Pids -> SUBSET Claims]
    BY DEF IInv, TypeOK
  <2> HIDE DEF Running
  <2> QED
    BY <2>1, <2>2, GrantKeepsInvariant
<1>8. ASSUME NEW d \in Pids, NEW os \in SUBSET Owners, NEW ports \in [os -> Ports],
             NEW fixed \in SUBSET os, allocate_ports(d, ports, fixed)
      PROVE IInv'
  <2> DEFINE cs == {<<o, ports[o]>> : o \in DOMAIN ports}
  <2>1. /\ Running(d) /\ Grant(d, cs)
        /\ proc' = proc /\ listening' = listening /\ manifest' = manifest
        /\ unsynced' = unsynced
    BY <1>8 DEF allocate_ports
  <2>2. cs \in SUBSET Claims
    BY DEF Claims
  <2>3. \A c \in cs : /\ OwnerHome[c[1]] = PidHome[d]
                      /\ \/ cleanup_stale(registry)[c[2]] = NoEntry
                         \/ cleanup_stale(registry)[c[2]].owner = c[1]
    BY <1>8 DEF allocate_ports, reserve_specific_port, allocate_ephemeral_port
  <2>4. \A c, b \in cs : c[2] = b[2] => c = b
    BY <1>8 DEF allocate_ports
  <2>5. unsynced \in [Pids -> SUBSET Claims]
    BY DEF IInv, TypeOK
  <2> HIDE DEF cs, Running
  <2> QED
    BY <2>1, <2>2, <2>3, <2>4, <2>5, GrantKeepsInvariant
<1>9. ASSUME NEW d \in Pids, NEW o \in Owners, NEW p \in Ports, release_port(d, o, p)
      PROVE IInv'
  BY <1>9, ReleaseKeepsInvariant
<1>10. ASSUME NEW d \in Pids, NEW o \in Owners, persist_manifest(d, o) PROVE IInv'
  BY <1>10 DEF persist_manifest, IInv, TypeOK, HeldIsReserved, NoOrphanReservation,
     OneDaemonPerHome, ClaimsOfRunningDaemons, EntriesOfStartedDaemons
<1>11. ASSUME NEW p \in Ports, Bind(p) \/ Unbind(p) PROVE IInv'
  BY <1>11 DEF Bind, Unbind, IInv, TypeOK, HeldIsReserved, NoOrphanReservation,
     OneDaemonPerHome, ClaimsOfRunningDaemons, EntriesOfStartedDaemons
<1>12. CASE UNCHANGED vars
  BY <1>12 DEF vars, IInv, TypeOK, HeldIsReserved, NoOrphanReservation,
     OneDaemonPerHome, ClaimsOfRunningDaemons, EntriesOfStartedDaemons
<1> QED
  BY <1>1, <1>2, <1>3, <1>4, <1>5, <1>6, <1>7, <1>8, <1>9, <1>10, <1>11, <1>12
     DEF Next

(***************************************************************************)
(* The inductive invariant holds of every behaviour.                       *)
(***************************************************************************)
LEMMA InductiveInvariant == Spec => []IInv
<1>1. Init => IInv
  BY DEF Init, IInv, TypeOK, HeldIsReserved, NoOrphanReservation, OneDaemonPerHome,
     ClaimsOfRunningDaemons, EntriesOfStartedDaemons, Running, Claims
<1> QED
  BY <1>1, NextKeepsInvariant, PTL DEF Spec

(***************************************************************************)
(* The registry's state is always well typed.                              *)
(***************************************************************************)
THEOREM TypeCorrect == Spec => []TypeOK
<1>1. IInv => TypeOK
  BY DEF IInv
<1> QED
  BY <1>1, InductiveInvariant, PTL

(***************************************************************************)
(* No port serves two owners, whatever the daemons of all homes do and     *)
(* whenever they die.                                                      *)
(***************************************************************************)
THEOREM Exclusive == Spec => []HeldExclusively
<1>1. IInv => HeldExclusively
  <2> SUFFICES ASSUME IInv, NEW d \in Pids, NEW e \in Pids,
                      NEW c \in held[d] \ inherited[d], NEW b \in held[e] \ inherited[e],
                      c[2] = b[2]
               PROVE  c = b /\ d = e
    BY DEF HeldExclusively
  <2>1. c = <<c[1], c[2]>> /\ b = <<b[1], b[2]>>
    BY DEF IInv, TypeOK, Claims
  <2>2. [owner |-> c[1], daemon_pid |-> d] = [owner |-> b[1], daemon_pid |-> e]
    BY DEF IInv, HeldIsReserved
  <2> QED
    BY <2>1, <2>2
<1> QED
  BY <1>1, InductiveInvariant, PTL

(***************************************************************************)
(* A granted claim stays backed by its entry.                              *)
(***************************************************************************)
THEOREM Reserved == Spec => []HeldIsReserved
<1>1. IInv => HeldIsReserved
  BY DEF IInv
<1> QED
  BY <1>1, InductiveInvariant, PTL

(***************************************************************************)
(* No entry of a running daemon stands without a claim: what a refused     *)
(* allocation had reserved is gone.                                        *)
(***************************************************************************)
THEOREM NothingLeftBehind == Spec => []NoOrphanReservation
<1>1. IInv => NoOrphanReservation
  BY DEF IInv
<1> QED
  BY <1>1, InductiveInvariant, PTL

(***************************************************************************)
(* A running daemon's entry disappears only when its owner gives the port  *)
(* up: neither a cleanup nor another owner's transaction removes it.       *)
(***************************************************************************)
THEOREM Stable == Spec => EntryIsStable
<1>1. IInv /\ [Next]_vars => [KeepsLiveEntries]_vars
  <2> SUFFICES ASSUME IInv, Next, NEW p \in Ports, registry[p] # NoEntry,
                      Running(registry[p].daemon_pid), registry'[p] # registry[p]
               PROVE  /\ registry'[p] = NoEntry
                      /\ <<registry[p].owner, p>> \notin held'[registry[p].daemon_pid]
    BY DEF KeepsLiveEntries
  <2>1. cleanup_stale(registry)[p] = registry[p]
    BY DEF cleanup_stale, Running, is_pid_alive
  <2>2. \A cs : \A d \in Pids : ~Grant(d, cs)
    BY <2>1 DEF Grant, Insert
  <2>3. PICK d \in Pids, o \in Owners, q \in Ports : release_port(d, o, q)
    <3>1. ~UNCHANGED registry
      OBVIOUS
    <3> QED
      BY <3>1, <2>2 DEF Next, acquire_daemon_lock, sync_port_reservations_from_disk,
         BootDone, Die, Reaped, reserve_port, reserve_ephemeral_port, allocate_ports,
         persist_manifest, Bind, Unbind
  <2>4. cleanup_stale(registry) \in [Ports -> Entry \cup {NoEntry}]
    BY DEF IInv, TypeOK, cleanup_stale
  <2>5. q = p /\ registry'[p] = NoEntry /\ registry[p].owner = o
    BY <2>1, <2>3, <2>4 DEF release_port
  <2>6. /\ registry[p].daemon_pid \in Pids
        /\ OwnerHome[o] = PidHome[registry[p].daemon_pid]
        /\ OwnerHome[o] = PidHome[d] /\ Running(d)
    BY <2>3, <2>5 DEF IInv, TypeOK, Entry, EntriesOfStartedDaemons,
       ClaimsOfRunningDaemons, release_port
  <2>7. registry[p].daemon_pid = d
    BY <2>6 DEF IInv, OneDaemonPerHome
  <2>8. <<o, p>> \notin held'[d]
    BY <2>3, <2>5 DEF release_port, IInv, TypeOK
  <2> QED
    BY <2>5, <2>7, <2>8
<1> QED
  BY <1>1, InductiveInvariant, PTL DEF Spec, EntryIsStable
=============================================================================
