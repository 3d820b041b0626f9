---------------------------- MODULE PortRegistry ----------------------------
(***************************************************************************)
(* The port reservation registry (src/src/port.rs): one JSON file in the   *)
(* temporary directory, shared by the daemons of all devstack homes on a   *)
(* machine.  Every operation runs inside with_registry: flock, read, drop  *)
(* the entries of dead processes, act, write back.  An operation that      *)
(* fails writes nothing, so it is a stuttering step here.                  *)
(*                                                                         *)
(* The callers are modelled as far as they touch the file: a daemon boots  *)
(* (under its home's lock) and re-reserves, one transaction per port, the  *)
(* ports of the manifests on disk; while up it allocates, reserves and     *)
(* releases; it may die at any moment.  The lock of a dying daemon is      *)
(* freed before its process id disappears.                                 *)
(***************************************************************************)
EXTENDS Naturals, FiniteSets

CONSTANTS
    Ports,     \* port numbers
    Owners,    \* owner strings: run:<id>:<service>, global:<key>:<service>...
    Pids,      \* daemon process ids, each used once
    Homes,     \* devstack homes, each with its own lock and manifests
    OwnerHome, \* the home whose manifests name the owner
    PidHome,   \* the home a daemon process serves
    NoEntry    \* a port without an entry

ASSUME HomeAssumption ==
    /\ OwnerHome \in [Owners -> Homes]
    /\ PidHome \in [Pids -> Homes]

Entry == [owner : Owners, daemon_pid : Pids]

ASSUME NoEntryAssumption == NoEntry \notin Entry

VARIABLES
    registry,  \* the file: port -> entry
    proc,      \* process id -> "unborn", "booting", "up", "exiting", "gone"
    listening, \* ports some process is bound to (external)
    manifest,  \* owner -> ports its restorable manifest records on disk
    held,      \* process id -> the <<owner, port>> it was granted and not released
    inherited, \* of those, the ones granted on a predecessor's entry
    unsynced   \* process id -> manifest ports the boot has yet to re-reserve

vars == <<registry, proc, listening, manifest, held, inherited, unsynced>>

Claims == Owners \X Ports

TypeOK ==
    /\ registry \in [Ports -> Entry \cup {NoEntry}]
    /\ proc \in [Pids -> {"unborn", "booting", "up", "exiting", "gone"}]
    /\ listening \in SUBSET Ports
    /\ manifest \in [Owners -> SUBSET Ports]
    /\ held \in [Pids -> SUBSET Claims]
    /\ inherited \in [Pids -> SUBSET Claims]
    /\ unsynced \in [Pids -> SUBSET Claims]

(***************************************************************************)
(* is_pid_alive: kill(pid, 0) succeeds until the process has been reaped.  *)
(***************************************************************************)
is_pid_alive(d) == proc[d] \in {"booting", "up", "exiting"}

Running(d) == proc[d] \in {"booting", "up"}

(***************************************************************************)
(* cleanup_stale: what a transaction sees of the file.                     *)
(***************************************************************************)
cleanup_stale(reg) ==
    [p \in Ports |->
        IF reg[p] # NoEntry /\ is_pid_alive(reg[p].daemon_pid)
          THEN reg[p] ELSE NoEntry]

(***************************************************************************)
(* Faulty variant: an entry is granted to whoever asks.                    *)
(***************************************************************************)
ReserveIgnoringOwner(reg, o, p, require_available) ==
    reg[p] # NoEntry \/ (require_available => p \notin listening)

(***************************************************************************)
(* reserve_specific_port: may owner o have port p?  Its own entry is       *)
(* granted as it stands, whichever process wrote it; a foreign entry       *)
(* refuses; a free port may first have to pass the bind probe.             *)
(***************************************************************************)
reserve_specific_port(reg, o, p, require_available) ==
    \/ reg[p] # NoEntry /\ reg[p].owner = o
    \/ reg[p] = NoEntry /\ (require_available => p \notin listening)

(***************************************************************************)
(* allocate_ephemeral_port: the system offers a port nobody is bound to;   *)
(* the loop rejects the ones that have an entry.                           *)
(***************************************************************************)
allocate_ephemeral_port(reg, p) == reg[p] = NoEntry /\ p \notin listening

(***************************************************************************)
(* The entries a transaction of daemon d adds for the claims cs.  A port   *)
(* that has an entry keeps it.                                             *)
(***************************************************************************)
Insert(reg, d, cs) ==
    [p \in Ports |->
        IF reg[p] = NoEntry /\ \E o \in Owners : <<o, p>> \in cs
          THEN [owner |-> CHOOSE o \in Owners : <<o, p>> \in cs,
                daemon_pid |-> d]
          ELSE reg[p]]

(***************************************************************************)
(* The end of a successful transaction: daemon d is granted the claims cs. *)
(* A claim granted on an entry that another process wrote is inherited.    *)
(***************************************************************************)
Grant(d, cs) ==
    LET reg == cleanup_stale(registry) IN
    /\ registry' = Insert(reg, d, cs)
    /\ held' = [held EXCEPT ![d] = @ \cup cs]
    /\ inherited' = [inherited EXCEPT ![d] =
           @ \cup {c \in cs : /\ reg[c[2]] # NoEntry
                              /\ reg[c[2]].daemon_pid # d}]

-----------------------------------------------------------------------------

Init ==
    /\ registry = [p \in Ports |-> NoEntry]
    /\ proc = [d \in Pids |-> "unborn"]
    /\ listening \in SUBSET Ports
    /\ manifest = [o \in Owners |-> {}]
    /\ held = [d \in Pids |-> {}]
    /\ inherited = [d \in Pids |-> {}]
    /\ unsynced = [d \in Pids |-> {}]

(***************************************************************************)
(* Faulty variant: the daemon starts without the lock.                     *)
(***************************************************************************)
StartWithoutLock(d) ==
    /\ proc[d] = "unborn"
    /\ proc' = [proc EXCEPT ![d] = "booting"]
    /\ unsynced' = [unsynced EXCEPT ![d] =
           {c \in Claims : /\ OwnerHome[c[1]] = PidHome[d]
                           /\ c[2] \in manifest[c[1]]}]
    /\ UNCHANGED <<registry, listening, manifest, held, inherited>>

(***************************************************************************)
(* acquire_daemon_lock succeeds when no live daemon of the home holds it;  *)
(* sync_port_reservations_from_disk then walks the home's manifests.       *)
(***************************************************************************)
acquire_daemon_lock(d) ==
    /\ proc[d] = "unborn"
    /\ \A e \in Pids : PidHome[e] = PidHome[d] => ~Running(e)
    /\ proc' = [proc EXCEPT ![d] = "booting"]
    /\ unsynced' = [unsynced EXCEPT ![d] =
           {c \in Claims : /\ OwnerHome[c[1]] = PidHome[d]
                           /\ c[2] \in manifest[c[1]]}]
    /\ UNCHANGED <<registry, listening, manifest, held, inherited>>

(***************************************************************************)
(* One reserve_port of the boot's sync.  A refusal ends the daemon: the    *)
(* error propagates out of the bootstrap.                                  *)
(***************************************************************************)
sync_port_reservations_from_disk(d) ==
    /\ proc[d] = "booting"
    /\ \E c \in unsynced[d] :
         \/ /\ reserve_specific_port(cleanup_stale(registry), c[1], c[2], FALSE)
            /\ Grant(d, {c})
            /\ unsynced' = [unsynced EXCEPT ![d] = @ \ {c}]
            /\ UNCHANGED <<proc, listening, manifest>>
         \/ /\ ~reserve_specific_port(cleanup_stale(registry), c[1], c[2], FALSE)
            /\ proc' = [proc EXCEPT ![d] = "exiting"]
            /\ held' = [held EXCEPT ![d] = {}]
            /\ inherited' = [inherited EXCEPT ![d] = {}]
            /\ unsynced' = [unsynced EXCEPT ![d] = {}]
            /\ UNCHANGED <<registry, listening, manifest>>

BootDone(d) ==
    /\ proc[d] = "booting" /\ unsynced[d] = {}
    /\ proc' = [proc EXCEPT ![d] = "up"]
    /\ UNCHANGED <<registry, listening, manifest, held, inherited, unsynced>>

(***************************************************************************)
(* reserve_port and reserve_available_port.                                *)
(***************************************************************************)
reserve_port(d, o, p, require_available) ==
    /\ proc[d] = "up" /\ OwnerHome[o] = PidHome[d]
    /\ reserve_specific_port(cleanup_stale(registry), o, p, require_available)
    /\ Grant(d, {<<o, p>>})
    /\ UNCHANGED <<proc, listening, manifest, unsynced>>

(***************************************************************************)
(* reserve_ephemeral_port.                                                 *)
(***************************************************************************)
reserve_ephemeral_port(d, o, p) ==
    /\ proc[d] = "up" /\ OwnerHome[o] = PidHome[d]
    /\ allocate_ephemeral_port(cleanup_stale(registry), p)
    /\ Grant(d, {<<o, p>>})
    /\ UNCHANGED <<proc, listening, manifest, unsynced>>

(***************************************************************************)
(* Faulty variant: the entries made before a refusal are written.          *)
(***************************************************************************)
AllocatePartially(d, ports, fixed) ==
    LET reg == cleanup_stale(registry)
        granted == {o \in DOMAIN ports : reg[ports[o]] = NoEntry}
    IN
    /\ proc[d] = "up"
    /\ \A o \in DOMAIN ports : OwnerHome[o] = PidHome[d]
    /\ registry' = Insert(reg, d, {<<o, ports[o]>> : o \in granted})
    /\ UNCHANGED <<proc, listening, manifest, held, inherited, unsynced>>

(***************************************************************************)
(* allocate_ports: one transaction for the services of a stack.  fixed is  *)
(* the set of services with a configured port; the others get an ephemeral *)
(* one.  It is granted whole or, when one service is refused, not at all.  *)
(***************************************************************************)
allocate_ports(d, ports, fixed) ==
    LET reg == cleanup_stale(registry) IN
    /\ proc[d] = "up"
    /\ \A o \in DOMAIN ports : OwnerHome[o] = PidHome[d]
    /\ \A o \in DOMAIN ports :
         IF o \in fixed
           THEN reserve_specific_port(reg, o, ports[o], TRUE)
           ELSE allocate_ephemeral_port(reg, ports[o])
    /\ \A o, q \in DOMAIN ports : ports[o] = ports[q] => o = q
    /\ Grant(d, {<<o, ports[o]>> : o \in DOMAIN ports})
    /\ UNCHANGED <<proc, listening, manifest, unsynced>>

(***************************************************************************)
(* Faulty variant: a release does not look at the entry's owner.           *)
(***************************************************************************)
ReleaseIgnoringOwner(d, o, p) ==
    /\ proc[d] = "up" /\ <<o, p>> \in held[d]
    /\ registry' = [cleanup_stale(registry) EXCEPT ![p] = NoEntry]
    /\ held' = [held EXCEPT ![d] = @ \ {<<o, p>>}]
    /\ inherited' = [inherited EXCEPT ![d] = @ \ {<<o, p>>}]
    /\ UNCHANGED <<proc, listening, manifest, unsynced>>

(***************************************************************************)
(* release_port.  Without an entry it succeeds; a foreign entry refuses,   *)
(* which leaves the file as it is.  The caller that only logs the refusal  *)
(* forgets the port all the same; the one that returns the error (down,    *)
(* kill) keeps it and nothing changes.                                     *)
(***************************************************************************)
release_port(d, o, p) ==
    LET reg == cleanup_stale(registry) IN
    /\ proc[d] = "up" /\ <<o, p>> \in held[d]
    /\ registry' = IF reg[p] # NoEntry /\ reg[p].owner # o
                     THEN registry ELSE [reg EXCEPT ![p] = NoEntry]
    /\ held' = [held EXCEPT ![d] = @ \ {<<o, p>>}]
    /\ inherited' = [inherited EXCEPT ![d] = @ \ {<<o, p>>}]
    /\ UNCHANGED <<proc, listening, manifest, unsynced>>

(***************************************************************************)
(* persist_manifest: the granted ports of an owner reach its manifest; a   *)
(* stopped run's manifest is no longer restorable.                         *)
(***************************************************************************)
persist_manifest(d, o) ==
    /\ proc[d] = "up" /\ OwnerHome[o] = PidHome[d]
    /\ manifest' = [manifest EXCEPT ![o] = {p \in Ports : <<o, p>> \in held[d]}]
    /\ UNCHANGED <<registry, proc, listening, held, inherited, unsynced>>

(***************************************************************************)
(* The environment: a daemon dies or stops, its id disappears later, and   *)
(* processes bind and unbind ports.                                        *)
(***************************************************************************)
Die(d) ==
    /\ Running(d)
    /\ proc' = [proc EXCEPT ![d] = "exiting"]
    /\ held' = [held EXCEPT ![d] = {}]
    /\ inherited' = [inherited EXCEPT ![d] = {}]
    /\ unsynced' = [unsynced EXCEPT ![d] = {}]
    /\ UNCHANGED <<registry, listening, manifest>>

Reaped(d) ==
    /\ proc[d] = "exiting"
    /\ proc' = [proc EXCEPT ![d] = "gone"]
    /\ UNCHANGED <<registry, listening, manifest, held, inherited, unsynced>>

Bind(p) ==
    /\ p \notin listening
    /\ listening' = listening \cup {p}
    /\ UNCHANGED <<registry, proc, manifest, held, inherited, unsynced>>

Unbind(p) ==
    /\ p \in listening
    /\ listening' = listening \ {p}
    /\ UNCHANGED <<registry, proc, manifest, held, inherited, unsynced>>

Next ==
    \/ \E d \in Pids : \/ acquire_daemon_lock(d)
                       \/ sync_port_reservations_from_disk(d)
                       \/ BootDone(d)
                       \/ Die(d)
                       \/ Reaped(d)
    \/ \E d \in Pids, o \in Owners, p \in Ports, avail \in BOOLEAN :
         reserve_port(d, o, p, avail)
    \/ \E d \in Pids, o \in Owners, p \in Ports : reserve_ephemeral_port(d, o, p)
    \/ \E d \in Pids, os \in SUBSET Owners :
         \E ports \in [os -> Ports], fixed \in SUBSET os :
           allocate_ports(d, ports, fixed)
    \/ \E d \in Pids, o \in Owners, p \in Ports : release_port(d, o, p)
    \/ \E d \in Pids, o \in Owners : persist_manifest(d, o)
    \/ \E p \in Ports : Bind(p) \/ Unbind(p)

Spec == Init /\ [][Next]_vars

-----------------------------------------------------------------------------

(***************************************************************************)
(* A claim that a running daemon was granted on an entry of its own is     *)
(* backed by that entry until it is released: no cleanup, no operation of  *)
(* another daemon and no restart takes it away.                            *)
(***************************************************************************)
HeldIsReserved ==
    \A d \in Pids : \A c \in held[d] \ inherited[d] :
        registry[c[2]] = [owner |-> c[1], daemon_pid |-> d]

(***************************************************************************)
(* No port serves two owners: two claims of running daemons on one port    *)
(* are the same owner's, unless one was inherited from a predecessor whose *)
(* process id was still visible when the successor re-reserved it.         *)
(***************************************************************************)
HeldExclusively ==
    \A d, e \in Pids :
      \A c \in held[d] \ inherited[d], b \in held[e] \ inherited[e] :
        c[2] = b[2] => c = b /\ d = e

(***************************************************************************)
(* Nothing is reserved for nobody: an entry of a running daemon stands for *)
(* a claim that daemon was granted, so an allocation that is refused half  *)
(* way leaves no entry behind.                                             *)
(***************************************************************************)
NoOrphanReservation ==
    \A p \in Ports :
      registry[p] # NoEntry /\ Running(registry[p].daemon_pid)
        => <<registry[p].owner, p>> \in held[registry[p].daemon_pid]

(***************************************************************************)
(* A live process's entry never changes hands: it disappears only when its *)
(* owner gives the port up, and never becomes another owner's in one step. *)
(***************************************************************************)
KeepsLiveEntries ==
    \A p \in Ports :
      LET e == registry[p] IN
      (e # NoEntry /\ Running(e.daemon_pid) /\ registry'[p] # e)
        => /\ registry'[p] = NoEntry
           /\ <<e.owner, p>> \notin held'[e.daemon_pid]

EntryIsStable == [][KeepsLiveEntries]_vars

(***************************************************************************)
(* What makes the properties above inductive: one running daemon per home, *)
(* entries and claims stay within a home, only running daemons hold        *)
(* claims, and a process that has not started has written no entry.        *)
(***************************************************************************)
OneDaemonPerHome ==
    \A d, e \in Pids :
        Running(d) /\ Running(e) /\ PidHome[d] = PidHome[e] => d = e

ClaimsOfRunningDaemons ==
    \A d \in Pids :
        /\ \A c \in held[d] : Running(d) /\ OwnerHome[c[1]] = PidHome[d]
        /\ \A c \in unsynced[d] : OwnerHome[c[1]] = PidHome[d]

EntriesOfStartedDaemons ==
    \A p \in Ports :
        registry[p] # NoEntry =>
            /\ proc[registry[p].daemon_pid] # "unborn"
            /\ OwnerHome[registry[p].owner] = PidHome[registry[p].daemon_pid]

IInv ==
    /\ TypeOK
    /\ HeldIsReserved
    /\ NoOrphanReservation
    /\ OneDaemonPerHome
    /\ ClaimsOfRunningDaemons
    /\ EntriesOfStartedDaemons
=============================================================================
