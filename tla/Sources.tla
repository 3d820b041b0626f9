------------------------------ MODULE Sources -------------------------------
(***************************************************************************)
(* The registered log sources of the daemon: the ledger of names, the      *)
(* file of index states, and the jobs that index a source in answer to an  *)
(* add, a query, a removal or the start of the daemon.                     *)
(*                                                                         *)
(* A registration of a name is a generation: add_source overwrites the     *)
(* entry.  A name is its rank in the alphabet, the order of the ledger's   *)
(* BTreeMap.  Every generation has one file, all of the same length, so a  *)
(* cursor is at the start or at the end.  An ingest is one step here (the  *)
(* gate of the index; LogIngest opens it).  The state file is read and     *)
(* written in two steps: set_index_state takes no lock.                    *)
(***************************************************************************)
EXTENDS Naturals

CONSTANTS
    SourceNames,
    SourceJobs,       \* handlers, and the backfills they spawn
    BootJob,          \* spawn_registered_source_backfill
    Expired,          \* <<name, generation>> whose file is before the retention cutoff
    NoSource,
    MaxGen, MaxSourceJobs, MaxSourceCrashes

AllSourceJobs == SourceJobs \cup {BootJob}

ASSUME SourceAssumption ==
    /\ SourceNames \subseteq Nat /\ NoSource \notin SourceNames
    /\ BootJob \notin SourceJobs
    /\ MaxGen \in Nat \ {0} /\ MaxSourceJobs \in Nat /\ MaxSourceCrashes \in Nat

VARIABLES
    ledger,           \* generation registered under a name, 0 if none
    sdocs,            \* generations with documents in the index, by name
    atEnd,            \* the cursor of a name stands at the end of its file
    sfile,            \* the state file: "none" or a SourceIndexStatus by name
    sjob,             \* the jobs
    gens, jobsBegun, sourceCrashes,
    mixed,            \* ghost: an add or a removal of the name met another job or a crash
    lostUpdate        \* ghost: the name's entry was overwritten with an older copy

sourceVars == <<ledger, sdocs, atEnd, sfile, sjob, gens, jobsBegun, sourceCrashes,
                mixed, lostUpdate>>

NoCopy == [n \in SourceNames |-> "none"]

IdleSourceJob == [kind |-> "none", at |-> "idle", name |-> NoSource, gen |-> 0,
                  status |-> "none", then |-> "idle", copy |-> NoCopy, todo |-> {}]

Starting == [IdleSourceJob EXCEPT !.kind = "startup", !.at = "wait"]

SourceStatus == {"none", "Queued", "Indexing", "Current", "Error"}
SourceJob == [kind : {"none", "startup", "add", "query", "backfill", "remove"},
              at : {"idle", "wait", "resolve", "clear", "delete", "spawned", "check", "bootCheck",
                    "ingest", "save", "done", "view", "warm", "viewed", "forget", "purge"},
              name : SourceNames \cup {NoSource}, gen : 0 .. MaxGen, status : SourceStatus,
              then : {"idle", "delete", "spawned", "check", "bootCheck", "ingest", "done"},
              copy : [SourceNames -> SourceStatus], todo : SUBSET SourceNames]

SourceTypeOK ==
    /\ ledger \in [SourceNames -> 0 .. MaxGen] /\ gens \in [SourceNames -> 0 .. MaxGen]
    /\ sdocs \in [SourceNames -> SUBSET (0 .. MaxGen)]
    /\ atEnd \in [SourceNames -> BOOLEAN]
    /\ sfile \in [SourceNames -> SourceStatus]
    /\ sjob \in [AllSourceJobs -> SourceJob]
    /\ jobsBegun \in Nat /\ sourceCrashes \in Nat
    /\ mixed \in [SourceNames -> BOOLEAN] /\ lostUpdate \in [SourceNames -> BOOLEAN]

\* The documents of a generation: none if its file is before the cutoff.
Documents(n, gen) == IF <<n, gen>> \in Expired THEN {} ELSE {gen}

\* A daemon starts with the sources an earlier one registered and indexed.
SourceInit ==
    /\ \E known \in SUBSET SourceNames :
         /\ ledger = [n \in SourceNames |-> IF n \in known THEN 1 ELSE 0]
         /\ gens = ledger
         /\ sdocs = [n \in SourceNames |-> IF n \in known THEN Documents(n, 1) ELSE {}]
         /\ atEnd = [n \in SourceNames |-> n \in known]
         /\ sfile = [n \in SourceNames |-> IF n \in known THEN "Current" ELSE "none"]
    /\ sjob = [j \in AllSourceJobs |-> IF j = BootJob THEN Starting ELSE IdleSourceJob]
    /\ jobsBegun = 0 /\ sourceCrashes = 0
    /\ mixed = [n \in SourceNames |-> FALSE]
    /\ lostUpdate = [n \in SourceNames |-> FALSE]

(***************************************************************************)
(* The registry and the steps every job is made of.                        *)
(***************************************************************************)
\* remove keeps the registry's lock over its update of the state file
RegistryFree == \A j \in AllSourceJobs : sjob[j].at # "forget"

Engages(j, n) == sjob[j].at # "idle" /\ sjob[j].name = n
Replaces(kind) == kind \in {"add", "remove"}

\* Job j of that kind begins on n: the name is mixed if one of two jobs replaces it.
Meets(j, n, kind) ==
    LET rivals == {i \in AllSourceJobs \ {j} : Engages(i, n)}
    IN  mixed' = [mixed EXCEPT ![n] =
            \/ \E i \in rivals : Replaces(kind) \/ Replaces(sjob[i].kind)
            \/ @ /\ (kind # "add" \/ rivals # {})]

SourceCall(j) ==
    /\ sjob[j].at = "idle" /\ jobsBegun < MaxSourceJobs /\ RegistryFree
    /\ jobsBegun' = jobsBegun + 1

GoTo(j, at) == sjob' = [sjob EXCEPT ![j].at = at]
EndJob(j) == sjob' = [sjob EXCEPT ![j] = IdleSourceJob]

\* record_source_state(status), after which the job is at then: the state file is
\* loaded now and saved in set_index_state
Recording(job, status, then) ==
    [job EXCEPT !.at = "save", !.status = status, !.then = then, !.copy = sfile]

Record(j, status, then) == sjob' = [sjob EXCEPT ![j] = Recording(@, status, then)]

\* The task a handler spawns is a backfill; until then a crash ends the handler.
Saved(job) ==
    LET done == job.then = "done" IN
    [kind |-> IF job.then = "spawned" THEN "backfill" ELSE job.kind, at |-> job.then,
     name |-> IF done THEN NoSource ELSE job.name, gen |-> IF done THEN 0 ELSE job.gen,
     status |-> "none", then |-> "idle", copy |-> NoCopy, todo |-> job.todo]

set_index_state(j) ==
    LET n == sjob[j].name IN
    /\ sjob[j].at = "save"
    /\ sfile' = [sjob[j].copy EXCEPT ![n] = sjob[j].status]
    /\ lostUpdate' = [m \in SourceNames |->
                        m # n /\ (lostUpdate[m] \/ sjob[j].copy[m] # sfile[m])]
    /\ sjob' = [sjob EXCEPT ![j] = Saved(@)]
    /\ UNCHANGED <<ledger, sdocs, atEnd, gens, jobsBegun, sourceCrashes, mixed>>

delete_source_run(n) ==
    /\ sdocs' = [sdocs EXCEPT ![n] = {}]
    /\ atEnd' = [atEnd EXCEPT ![n] = FALSE]

sources_are_current(n) == atEnd[n]

\* a file before the cutoff is marked current without documents
ingest_sources_in_priority_batches(j) ==
    LET n == sjob[j].name
    IN  /\ sdocs' = [sdocs EXCEPT ![n] =
                        IF atEnd[n] THEN @ ELSE @ \cup Documents(n, sjob[j].gen)]
        /\ atEnd' = [atEnd EXCEPT ![n] = TRUE]

(***************************************************************************)
(* add_source                                                              *)
(***************************************************************************)
AddBegin(j, n) ==
    /\ SourceCall(j) /\ gens[n] < MaxGen
    /\ gens' = [gens EXCEPT ![n] = @ + 1]
    /\ ledger' = [ledger EXCEPT ![n] = gens'[n]]
    /\ sjob' = [sjob EXCEPT ![j].kind = "add", ![j].name = n, ![j].at = "resolve"]
    /\ Meets(j, n, "add")
    /\ UNCHANGED <<sdocs, atEnd, sfile, sourceCrashes, lostUpdate>>

Resolved(j, at) == [sjob[j] EXCEPT !.gen = ledger[sjob[j].name], !.at = at]

\* The entry may be gone, or another one's, by now.
resolve_log_sources(j, at, nexts) ==
    /\ sjob[j].at = at /\ RegistryFree
    /\ IF ledger[sjob[j].name] = 0
       THEN EndJob(j)
       ELSE \E next \in nexts : sjob' = [sjob EXCEPT ![j] = next]
    /\ UNCHANGED <<ledger, sdocs, atEnd, sfile, gens, jobsBegun, sourceCrashes,
                   mixed, lostUpdate>>

\* should_ingest_source_synchronously: small sources are replaced in the handler
AddResolve(j) ==
    resolve_log_sources(j, "resolve",
        {Resolved(j, "clear"), Recording(Resolved(j, "resolve"), "Indexing", "delete")})

\* Faulty variant: the documents of the previous registration are kept.
ReplaceWithoutDelete(j) ==
    /\ sjob[j].at = "delete"
    /\ GoTo(j, "ingest")
    /\ UNCHANGED <<ledger, sdocs, atEnd, sfile, gens, jobsBegun, sourceCrashes,
                   mixed, lostUpdate>>

replace_source_index(j) ==
    /\ sjob[j].at = "delete"
    /\ delete_source_run(sjob[j].name)
    /\ GoTo(j, "ingest")
    /\ UNCHANGED <<ledger, sfile, gens, jobsBegun, sourceCrashes, mixed, lostUpdate>>

\* spawn_source_backfill records Queued before it spawns the task
Spawns(j) == sjob' = [sjob EXCEPT ![j] = Recording(@, "Queued", "spawned")]

\* a large source: the run is deleted, the rest is a backfill of its own
AddClears(j) ==
    /\ sjob[j].at = "clear"
    /\ delete_source_run(sjob[j].name)
    /\ Spawns(j)
    /\ UNCHANGED <<ledger, sfile, gens, jobsBegun, sourceCrashes, mixed, lostUpdate>>

(***************************************************************************)
(* spawn_source_backfill, and the loop of spawn_registered_source_backfill *)
(* that treats the names one after the other.                              *)
(***************************************************************************)
BackfillChecks(j) ==
    /\ sjob[j].at = "check"
    /\ IF sources_are_current(sjob[j].name)
       THEN Record(j, "Current", "done")
       ELSE GoTo(j, "ingest")
    /\ UNCHANGED <<ledger, sdocs, atEnd, sfile, gens, jobsBegun, sourceCrashes,
                   mixed, lostUpdate>>

BackfillWakes(j) ==
    /\ sjob[j].at = "spawned"
    /\ Record(j, "Indexing", "check")
    /\ UNCHANGED <<ledger, sdocs, atEnd, sfile, gens, jobsBegun, sourceCrashes,
                   mixed, lostUpdate>>

spawn_source_backfill(j) == BackfillWakes(j) \/ BackfillChecks(j)

BootLists ==
    /\ sjob[BootJob].at = "wait" /\ RegistryFree
    /\ sjob' = [sjob EXCEPT ![BootJob].at = "done",
                            ![BootJob].todo = {n \in SourceNames : ledger[n] # 0}]
    /\ UNCHANGED <<ledger, sdocs, atEnd, sfile, gens, jobsBegun, sourceCrashes,
                   mixed, lostUpdate>>

BootTakes(n) ==
    Recording([sjob[BootJob] EXCEPT !.name = n, !.gen = ledger[n],
                                    !.todo = sjob[BootJob].todo \ {n}],
              "Queued", "bootCheck")

BootResolves == \E n \in sjob[BootJob].todo :
    /\ \A m \in sjob[BootJob].todo : n <= m
    /\ sjob[BootJob].at = "done" /\ RegistryFree
    /\ IF ledger[n] = 0
       THEN EndJob(BootJob) /\ UNCHANGED mixed
       ELSE /\ sjob' = [sjob EXCEPT ![BootJob] = BootTakes(n)]
            /\ Meets(BootJob, n, "backfill")
    /\ UNCHANGED <<ledger, sdocs, atEnd, sfile, gens, jobsBegun, sourceCrashes, lostUpdate>>

BootChecks ==
    /\ sjob[BootJob].at = "bootCheck"
    /\ IF sources_are_current(sjob[BootJob].name)
       THEN Record(BootJob, "Current", "done")
       ELSE Record(BootJob, "Indexing", "ingest")
    /\ UNCHANGED <<ledger, sdocs, atEnd, sfile, gens, jobsBegun, sourceCrashes,
                   mixed, lostUpdate>>

spawn_registered_source_backfill == BootLists \/ BootResolves \/ BootChecks

IngestSucceeds(j) ==
    /\ sjob[j].at = "ingest"
    /\ ingest_sources_in_priority_batches(j)
    /\ IF sjob[j].kind = "query" THEN EndJob(j) ELSE Record(j, "Current", "done")
    /\ UNCHANGED <<ledger, sfile, gens, jobsBegun, sourceCrashes, mixed, lostUpdate>>

\* A backfill records the error; a handler and the start-up loop return it.
IngestFails(j) ==
    /\ sjob[j].at = "ingest"
    /\ IF sjob[j].kind = "backfill" THEN Record(j, "Error", "done") ELSE EndJob(j)
    /\ UNCHANGED <<ledger, sdocs, atEnd, sfile, gens, jobsBegun, sourceCrashes, mixed, lostUpdate>>

JobEnds(j) ==
    /\ sjob[j].at = "done" /\ sjob[j].todo = {}
    /\ EndJob(j)
    /\ UNCHANGED <<ledger, sdocs, atEnd, sfile, gens, jobsBegun, sourceCrashes,
                   mixed, lostUpdate>>

(***************************************************************************)
(* source_logs_view and remove_source                                      *)
(***************************************************************************)
ViewBegin(j, n) ==
    /\ SourceCall(j) /\ ledger[n] # 0
    /\ sjob' = [sjob EXCEPT ![j].kind = "query", ![j].name = n, ![j].at = "view"]
    /\ Meets(j, n, "query")
    /\ UNCHANGED <<ledger, sdocs, atEnd, sfile, gens, sourceCrashes, lostUpdate>>

ViewResolve(j) ==
    resolve_log_sources(j, "view", {Resolved(j, "warm"), Resolved(j, "ingest")})

\* warmup_sources_for_query picks files by age and size: here the file, or none
WarmUp(j) ==
    /\ sjob[j].at = "warm"
    /\ \/ ~sources_are_current(sjob[j].name) /\ ingest_sources_in_priority_batches(j)
       \/ UNCHANGED <<sdocs, atEnd>>
    /\ GoTo(j, "viewed")
    /\ UNCHANGED <<ledger, sfile, gens, jobsBegun, sourceCrashes, mixed, lostUpdate>>

Viewed(j) ==
    /\ sjob[j].at = "viewed"
    /\ IF sources_are_current(sjob[j].name)
       THEN EndJob(j)
       ELSE Spawns(j)
    /\ UNCHANGED <<ledger, sdocs, atEnd, sfile, gens, jobsBegun, sourceCrashes,
                   mixed, lostUpdate>>

source_logs_view(j) == ViewResolve(j) \/ WarmUp(j) \/ Viewed(j)

\* the entry leaves the ledger; the state file is loaded under the same lock
RemoveBegin(j, n) ==
    /\ SourceCall(j) /\ ledger[n] # 0
    /\ ledger' = [ledger EXCEPT ![n] = 0]
    /\ sjob' = [sjob EXCEPT ![j].kind = "remove", ![j].name = n, ![j].at = "forget",
                            ![j].copy = sfile]
    /\ Meets(j, n, "remove")
    /\ UNCHANGED <<sdocs, atEnd, sfile, gens, sourceCrashes, lostUpdate>>

\* Faulty variant: the state entry is kept.
KeepIndexState(j) ==
    /\ sjob[j].at = "forget"
    /\ GoTo(j, "purge")
    /\ UNCHANGED <<ledger, sdocs, atEnd, sfile, gens, jobsBegun, sourceCrashes,
                   mixed, lostUpdate>>

remove_index_state(j) ==
    LET n == sjob[j].name
        copy == sjob[j].copy
    IN  /\ sjob[j].at = "forget"
        /\ IF copy[n] = "none" THEN UNCHANGED <<sfile, lostUpdate>>
           ELSE /\ sfile' = [copy EXCEPT ![n] = "none"]
                /\ lostUpdate' = [m \in SourceNames |->
                                    m # n /\ (lostUpdate[m] \/ copy[m] # sfile[m])]
        /\ GoTo(j, "purge")
        /\ UNCHANGED <<ledger, sdocs, atEnd, gens, jobsBegun, sourceCrashes, mixed>>

RemovePurges(j) ==
    /\ sjob[j].at = "purge"
    /\ delete_source_run(sjob[j].name)
    /\ EndJob(j)
    /\ UNCHANGED <<ledger, sfile, gens, jobsBegun, sourceCrashes, mixed, lostUpdate>>

remove_source(j) == remove_index_state(j) \/ RemovePurges(j)

\* The daemon ends and its successor starts: ledger, index and state file stay.
SourcesRestart ==
    /\ sourceCrashes < MaxSourceCrashes
    /\ sourceCrashes' = sourceCrashes + 1
    /\ mixed' = [n \in SourceNames |-> mixed[n]
                   \/ \E j \in AllSourceJobs : Engages(j, n) /\ Replaces(sjob[j].kind)]
    /\ sjob' = [j \in AllSourceJobs |->
                  IF j = BootJob THEN Starting ELSE IdleSourceJob]
    /\ UNCHANGED <<ledger, sdocs, atEnd, sfile, gens, jobsBegun, lostUpdate>>

SourceNext ==
    \/ \E j \in SourceJobs, n \in SourceNames : AddBegin(j, n) \/ ViewBegin(j, n) \/ RemoveBegin(j, n)
    \/ \E j \in SourceJobs :
         \/ AddResolve(j) \/ replace_source_index(j) \/ AddClears(j)
         \/ spawn_source_backfill(j) \/ source_logs_view(j) \/ remove_source(j)
    \/ \E j \in AllSourceJobs :
         set_index_state(j) \/ IngestSucceeds(j) \/ IngestFails(j) \/ JobEnds(j)
    \/ spawn_registered_source_backfill
    \/ SourcesRestart

SourceSpec == SourceInit /\ [][SourceNext]_sourceVars

(***************************************************************************)
(* Properties                                                              *)
(***************************************************************************)
Settled(n) == ~\E j \in AllSourceJobs : Engages(j, n)

\* A source whose recorded status is Current is indexed with the files it is
\* registered with, and with no others: exactly those of the last add_source,
\* unless that add met another job of the name, or its entry was overwritten.
CurrentIsIndexed ==
    \A n \in SourceNames :
        Settled(n) /\ ledger[n] # 0 /\ sfile[n] = "Current" /\ ~mixed[n] /\ ~lostUpdate[n]
            => sdocs[n] = Documents(n, ledger[n])

\* remove_source leaves neither documents nor a recorded status behind, whatever
\* indexed the source before, unless a job of the name was under way meanwhile.
RemovedIsForgotten ==
    \A n \in SourceNames :
        Settled(n) /\ ledger[n] = 0 /\ ~mixed[n]
            => sdocs[n] = {} /\ (sfile[n] = "none" \/ lostUpdate[n])
=============================================================================
