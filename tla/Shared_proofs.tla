--------------------------- MODULE Shared_proofs ---------------------------
(***************************************************************************)
(* What the stacks of a machine share: the registry of log sources, for    *)
(* any names, jobs and generations, the globals, for any globals, ups and  *)
(* ports, and the planning of a stack: for every set of service names and  *)
(* every list of dependencies, topo_sort gives a starting order or finds   *)
(* services that wait for each other, and filter_to keeps exactly what is  *)
(* needed.                                                                 *)
(***************************************************************************)
EXTENDS Sources, Globals, StackPlan, FiniteSetTheorems, TLAPS

(***************************************************************************)
(* Where a job is says what it does: only an add replaces documents before *)
(* it records anything, only a removal holds the registry's lock, and      *)
(* Current is recorded last.                                               *)
(***************************************************************************)
JobShape(r) ==
    /\ r.at \in {"idle", "wait", "done"} <=> r.name = NoSource
    /\ r.at \in {"resolve", "delete", "clear"} => r.kind = "add"
    /\ r.at \in {"forget", "purge"} <=> (r.kind = "remove" /\ r.at # "idle")
    /\ r.at = "save" /\ r.then = "delete" => r.kind = "add"
    /\ r.at = "save" /\ r.status = "Current" => r.then = "done"
    /\ r.at = "save" => r.then # "idle"

(***************************************************************************)
(* Of a name that is not mixed: a job that replaces its registration is    *)
(* alone, and the others work on the generation of the ledger.             *)
(***************************************************************************)
NameInv(n) ==
    /\ \A j \in AllSourceJobs : sjob[j].name = n /\ Replaces(sjob[j].kind) =>
         \A i \in AllSourceJobs \ {j} : sjob[i].name # n
    /\ \A j \in AllSourceJobs : sjob[j].name = n => (ledger[n] = 0 <=> sjob[j].kind = "remove")
    /\ \A j \in AllSourceJobs :
         sjob[j].name = n /\ sjob[j].at \notin {"resolve", "view", "forget", "purge"}
           => sjob[j].gen = ledger[n]

\* An add that has not deleted the documents of the previous registration.
Early(j, n) ==
    /\ sjob[j].name = n
    /\ \/ sjob[j].at \in {"resolve", "clear", "delete"}
       \/ sjob[j].at = "save" /\ sjob[j].then = "delete"

\* An add that has not recorded yet that its source is being indexed.
Unrecorded(j, n) ==
    /\ sjob[j].name = n /\ sjob[j].kind = "add"
    /\ \/ sjob[j].at \in {"resolve", "clear"}
       \/ sjob[j].at = "save" /\ sjob[j].then \in {"delete", "spawned"}

(***************************************************************************)
(* The documents follow the cursor, and the recorded status follows both.  *)
(***************************************************************************)
IndexInv(n) ==
    /\ ledger[n] # 0 /\ (\A j \in AllSourceJobs : ~Early(j, n))
         => sdocs[n] = IF atEnd[n] THEN Documents(n, ledger[n]) ELSE {}
    /\ \A j \in AllSourceJobs :
         sjob[j].name = n /\ sjob[j].at = "save" /\ sjob[j].status = "Current" => atEnd[n]
    /\ ledger[n] # 0 /\ sfile[n] = "Current"
         => lostUpdate[n] \/ atEnd[n] \/ \E j \in AllSourceJobs : Unrecorded(j, n)
    /\ \A j \in AllSourceJobs :
         sjob[j].name = n /\ sjob[j].at = "delete" => sfile[n] # "Current" \/ lostUpdate[n]

(***************************************************************************)
(* What is left of a name that is not registered.                          *)
(***************************************************************************)
RemovedInv(n) ==
    /\ ledger[n] = 0 /\ (\A j \in AllSourceJobs : sjob[j].name # n)
         => sdocs[n] = {} /\ (sfile[n] = "none" \/ lostUpdate[n])
    /\ \A j \in AllSourceJobs :
         sjob[j].name = n /\ sjob[j].at = "forget"
           => sjob[j].copy[n] = sfile[n] \/ lostUpdate[n]
    /\ \A j \in AllSourceJobs :
         sjob[j].name = n /\ sjob[j].at = "purge" => sfile[n] = "none" \/ lostUpdate[n]

Orderly(n) == ~mixed[n] => NameInv(n) /\ IndexInv(n) /\ RemovedInv(n)

SourceInv ==
    /\ SourceTypeOK
    /\ \A j \in AllSourceJobs : JobShape(sjob[j])
    /\ \A n \in SourceNames : Orderly(n)

-----------------------------------------------------------------------------
(***************************************************************************)
(* What the provers need to know of jobs that change.                      *)
(***************************************************************************)
LEMMA IdleFields ==
  ASSUME SourceAssumption
  PROVE  /\ IdleSourceJob \in SourceJob /\ Starting \in SourceJob
         /\ IdleSourceJob.kind = "none" /\ IdleSourceJob.at = "idle" /\ IdleSourceJob.name = NoSource
         /\ Starting.kind = "startup" /\ Starting.at = "wait" /\ Starting.name = NoSource
<1>1. NoCopy \in [SourceNames -> SourceStatus]
  BY DEF NoCopy, SourceStatus
<1>2. IdleSourceJob \in SourceJob
  BY <1>1 DEF IdleSourceJob, SourceJob, SourceStatus, SourceAssumption
<1>3. IdleSourceJob.kind = "none" /\ IdleSourceJob.at = "idle" /\ IdleSourceJob.name = NoSource
  BY DEF IdleSourceJob
<1>. HIDE DEF IdleSourceJob
<1>4. /\ Starting \in SourceJob
      /\ Starting.kind = "startup" /\ Starting.at = "wait" /\ Starting.name = NoSource
  BY <1>2, <1>3 DEF Starting, SourceJob
<1>. QED  BY <1>2, <1>3, <1>4

LEMMA RecordingFields ==
  ASSUME SourceTypeOK, NEW job \in SourceJob, NEW status \in SourceStatus,
         NEW then \in {"idle", "delete", "spawned", "check", "bootCheck", "ingest", "done"}
  PROVE  \E R \in SourceJob :
          /\ R = Recording(job, status, then)
          /\ R.kind = job.kind /\ R.at = "save" /\ R.name = job.name /\ R.gen = job.gen
          /\ R.status = status /\ R.then = then
<1>1. /\ Recording(job, status, then) \in SourceJob
      /\ Recording(job, status, then).kind = job.kind /\ Recording(job, status, then).at = "save"
      /\ Recording(job, status, then).name = job.name /\ Recording(job, status, then).gen = job.gen
      /\ Recording(job, status, then).status = status /\ Recording(job, status, then).then = then
  BY DEF Recording, SourceJob, SourceTypeOK
<1>. QED  BY <1>1, Zenon

LEMMA SavedFields ==
  ASSUME NEW job \in SourceJob, SourceAssumption
  PROVE  LET R == Saved(job)
         IN  /\ R \in SourceJob
             /\ R.kind = IF job.then = "spawned" THEN "backfill" ELSE job.kind
             /\ R.at = job.then
             /\ R.name = IF job.then = "done" THEN NoSource ELSE job.name
             /\ R.gen = IF job.then = "done" THEN 0 ELSE job.gen
             /\ R.todo = job.todo
<1>1. NoCopy \in [SourceNames -> SourceStatus]
  BY DEF NoCopy, SourceStatus
<1>. DEFINE k == IF job.then = "spawned" THEN "backfill" ELSE job.kind
            m == IF job.then = "done" THEN NoSource ELSE job.name
            g == IF job.then = "done" THEN 0 ELSE job.gen
<1>2. /\ k \in {"none", "startup", "add", "query", "backfill", "remove"}
      /\ m \in SourceNames \cup {NoSource}
      /\ g \in 0 .. MaxGen
  BY DEF SourceJob, SourceAssumption
<1>3. Saved(job) = [kind |-> k, at |-> job.then, name |-> m, gen |-> g, status |-> "none",
                    then |-> "idle", copy |-> NoCopy, todo |-> job.todo]
  BY DEF Saved
<1>. HIDE DEF k, m, g
<1>4. Saved(job) \in SourceJob
  BY <1>1, <1>2, <1>3 DEF SourceJob, SourceStatus
<1>. QED  BY <1>3, <1>4 DEF k, m, g

LEMMA AtFields ==
  ASSUME NEW job \in SourceJob,
         NEW at \in {"idle", "wait", "resolve", "clear", "delete", "spawned", "check", "bootCheck",
                     "ingest", "save", "done", "view", "warm", "viewed", "forget", "purge"}
  PROVE  LET R == [job EXCEPT !.at = at]
         IN  /\ R \in SourceJob
             /\ R.kind = job.kind /\ R.at = at /\ R.name = job.name /\ R.gen = job.gen
             /\ R.status = job.status /\ R.then = job.then /\ R.copy = job.copy /\ R.todo = job.todo
BY DEF SourceJob

-----------------------------------------------------------------------------
\* Only job j changes.
Becomes(j, R) == sjob' = [sjob EXCEPT ![j] = R]

LEMMA BecomesPointwise ==
  ASSUME SourceTypeOK, NEW j \in AllSourceJobs, NEW R \in SourceJob, Becomes(j, R)
  PROVE  /\ sjob' \in [AllSourceJobs -> SourceJob]
         /\ sjob'[j] = R
         /\ \A i \in AllSourceJobs \ {j} : sjob'[i] = sjob[i]
BY DEF Becomes, SourceTypeOK

(***************************************************************************)
(* A name that a step leaves alone stays in order; another job's save of   *)
(* the state file may overwrite its entry, which is then a lost update.    *)
(***************************************************************************)
SameJobs(n) ==
    \A i \in AllSourceJobs :
        /\ sjob'[i].name = n <=> sjob[i].name = n
        /\ sjob[i].name = n => sjob'[i] = sjob[i]

LEMMA OtherNames ==
  ASSUME NEW n \in SourceNames, Orderly(n), SameJobs(n), mixed[n] => mixed'[n],
         ledger'[n] = ledger[n], sdocs'[n] = sdocs[n], atEnd'[n] = atEnd[n],
         lostUpdate'[n] \/ (sfile'[n] = sfile[n] /\ lostUpdate'[n] = lostUpdate[n])
  PROVE  Orderly(n)'
<1>. SUFFICES ASSUME ~mixed'[n] PROVE (NameInv(n) /\ IndexInv(n) /\ RemovedInv(n))'
  BY DEF Orderly
<1>1. NameInv(n) /\ IndexInv(n) /\ RemovedInv(n)
  BY DEF Orderly
<1>2. NameInv(n)'
  BY <1>1 DEF NameInv, SameJobs
<1>3. /\ \A i \in AllSourceJobs : Early(i, n)' <=> Early(i, n)
      /\ \A i \in AllSourceJobs : Unrecorded(i, n)' <=> Unrecorded(i, n)
  BY DEF Early, Unrecorded, SameJobs
<1>4. IndexInv(n)'
  BY <1>1, <1>3 DEF IndexInv, SameJobs
<1>5. RemovedInv(n)'
  BY <1>1 DEF RemovedInv, SameJobs
<1>. QED  BY <1>2, <1>4, <1>5

LEMMA JobStep ==
  ASSUME SourceInv, SourceAssumption, SourceTypeOK',
         NEW j \in AllSourceJobs, NEW R \in SourceJob, Becomes(j, R),
         NEW n \in SourceNames \cup {NoSource},
         sjob[j].name \in {n, NoSource}, R.name \in {n, NoSource},
         JobShape(sjob'[j]),
         \A m \in SourceNames \ {n} :
            /\ mixed[m] => mixed'[m]
            /\ ledger'[m] = ledger[m] /\ sdocs'[m] = sdocs[m] /\ atEnd'[m] = atEnd[m]
            /\ lostUpdate'[m] \/ (sfile'[m] = sfile[m] /\ lostUpdate'[m] = lostUpdate[m]),
         n \in SourceNames => Orderly(n)'
  PROVE  SourceInv'
<1>1. /\ sjob'[j] = R
      /\ \A i \in AllSourceJobs \ {j} : sjob'[i] = sjob[i]
  BY BecomesPointwise DEF SourceInv
<1>2. \A i \in AllSourceJobs : JobShape(sjob'[i])
  BY <1>1 DEF SourceInv, JobShape
<1>3. ASSUME NEW m \in SourceNames \ {n} PROVE Orderly(m)'
  <2>1. m # NoSource
    BY DEF SourceAssumption
  <2>2. SameJobs(m)
    BY <1>1, <2>1 DEF SameJobs
  <2>3. Orderly(m)
    BY DEF SourceInv
  <2>. QED  BY <2>2, <2>3, OtherNames
<1>. QED  BY <1>2, <1>3 DEF SourceInv

(***************************************************************************)
(* The steps of the jobs.                                                  *)
(***************************************************************************)
LEMMA SaveStep ==
  ASSUME SourceInv, SourceAssumption, NEW j \in AllSourceJobs, set_index_state(j)
  PROVE  SourceInv'
<1>0. \A i \in AllSourceJobs : JobShape(sjob[i])
  BY DEF SourceInv
<1>1. SourceTypeOK /\ JobShape(sjob[j]) /\ sjob[j] \in SourceJob /\ sjob[j].at = "save"
  BY DEF SourceInv, SourceTypeOK, set_index_state
<1>2. PICK n \in SourceNames : n = sjob[j].name
  BY <1>1 DEF JobShape, SourceJob
<1>3a. PICK R \in SourceJob : R = Saved(sjob[j])
  BY <1>1, SavedFields
<1>3. /\ R \in SourceJob
      /\ R.kind = IF sjob[j].then = "spawned" THEN "backfill" ELSE sjob[j].kind
      /\ R.at = sjob[j].then
      /\ R.name = IF sjob[j].then = "done" THEN NoSource ELSE n
      /\ R.gen = IF sjob[j].then = "done" THEN 0 ELSE sjob[j].gen
  BY <1>1, <1>2, <1>3a, SavedFields
<1>4. Becomes(j, R)
  BY <1>3a DEF set_index_state, Becomes
<1>5. /\ sjob' \in [AllSourceJobs -> SourceJob] /\ sjob'[j] = R
      /\ \A i \in AllSourceJobs \ {j} : sjob'[i] = sjob[i]
  BY <1>1, <1>3, <1>4, BecomesPointwise
<1>6. /\ sfile' \in [SourceNames -> SourceStatus] /\ lostUpdate' \in [SourceNames -> BOOLEAN]
      /\ sfile'[n] = sjob[j].status /\ ~lostUpdate'[n]
      /\ \A m \in SourceNames \ {n} :
           lostUpdate'[m] \/ (sfile'[m] = sfile[m] /\ lostUpdate'[m] = lostUpdate[m])
  BY <1>1, <1>2 DEF set_index_state, SourceTypeOK, SourceJob
<1>7. UNCHANGED <<ledger, sdocs, atEnd, gens, jobsBegun, sourceCrashes, mixed>>
  BY DEF set_index_state
<1>8. SourceTypeOK'
  BY <1>1, <1>5, <1>6, <1>7 DEF SourceTypeOK
<1>9. JobShape(sjob'[j])
  BY <1>1, <1>2, <1>3, <1>5, SourceAssumption DEF JobShape, SourceJob, SourceAssumption
<1>10. Orderly(n)'
  <2>. SUFFICES ASSUME ~mixed[n] PROVE (NameInv(n) /\ IndexInv(n) /\ RemovedInv(n))'
    BY <1>7 DEF Orderly
  <2>1. NameInv(n) /\ IndexInv(n) /\ RemovedInv(n)
    BY <1>2 DEF SourceInv, Orderly
  <2>2. NameInv(n)'
    BY <1>1, <1>2, <1>3, <1>5, <1>7, <2>1 DEF NameInv, Replaces, JobShape, SourceJob, SourceAssumption
  <2>3. IndexInv(n)'
    BY <1>0, <1>1, <1>2, <1>3, <1>5, <1>6, <1>7, <2>1
       DEF IndexInv, NameInv, Early, Unrecorded, Replaces, JobShape, SourceJob, SourceAssumption
  <2>4. RemovedInv(n)'
    BY <1>0, <1>1, <1>2, <1>3, <1>5, <1>6, <1>7, <2>1
       DEF RemovedInv, NameInv, Replaces, JobShape, SourceJob, SourceAssumption
  <2>. QED  BY <2>2, <2>3, <2>4
<1>11. sjob[j].name \in {n, NoSource} /\ R.name \in {n, NoSource}
  BY <1>2, <1>3
<1>. QED  BY <1>2, <1>3, <1>4, <1>6, <1>7, <1>8, <1>9, <1>10, <1>11, JobStep

\* A step of a job that touches no more than its own documents and cursor.
LEMMA OwnStep ==
  ASSUME SourceInv, SourceAssumption, NEW j \in AllSourceJobs, NEW n \in SourceNames,
         sjob[j].name = n, NEW R \in SourceJob, Becomes(j, R), R.name \in {n, NoSource},
         JobShape(R),
         UNCHANGED <<ledger, gens, sfile, lostUpdate, mixed, jobsBegun, sourceCrashes>>,
         sdocs' \in [SourceNames -> SUBSET (0 .. MaxGen)], atEnd' \in [SourceNames -> BOOLEAN],
         \A m \in SourceNames \ {n} : sdocs'[m] = sdocs[m] /\ atEnd'[m] = atEnd[m],
         ~mixed[n] => (NameInv(n) /\ IndexInv(n) /\ RemovedInv(n))'
  PROVE  SourceInv'
<1>1. SourceTypeOK
  BY DEF SourceInv
<1>2. sjob' \in [AllSourceJobs -> SourceJob] /\ sjob'[j] = R
  BY <1>1, BecomesPointwise
<1>3. SourceTypeOK'
  BY <1>1, <1>2 DEF SourceTypeOK
<1>4. JobShape(sjob'[j])
  BY <1>2
<1>5. Orderly(n)'
  BY DEF Orderly
<1>. QED  BY <1>3, <1>4, <1>5, JobStep

\* What the invariant says of the job that makes the step.
LEMMA AtWork ==
  ASSUME SourceInv, NEW j \in AllSourceJobs, sjob[j].at \notin {"idle", "wait", "done"}
  PROVE  /\ SourceTypeOK /\ sjob[j] \in SourceJob /\ sjob[j].name \in SourceNames
         /\ \A i \in AllSourceJobs : JobShape(sjob[i])
BY DEF SourceInv, SourceTypeOK, JobShape, SourceJob

LEMMA OrderlyBefore ==
  ASSUME SourceInv, NEW n \in SourceNames, ~mixed[n]
  PROVE  NameInv(n) /\ IndexInv(n) /\ RemovedInv(n)
BY DEF SourceInv, Orderly

LEMMA DeleteFields ==
  ASSUME SourceTypeOK, NEW n \in SourceNames, delete_source_run(n)
  PROVE  /\ sdocs' \in [SourceNames -> SUBSET (0 .. MaxGen)] /\ atEnd' \in [SourceNames -> BOOLEAN]
         /\ sdocs'[n] = {} /\ ~atEnd'[n]
         /\ \A m \in SourceNames \ {n} : sdocs'[m] = sdocs[m] /\ atEnd'[m] = atEnd[m]
BY DEF delete_source_run, SourceTypeOK

LEMMA ReplaceStep ==
  ASSUME SourceInv, SourceAssumption, NEW j \in AllSourceJobs, replace_source_index(j)
  PROVE  SourceInv'
<1>1. /\ sjob[j].at = "delete" /\ delete_source_run(sjob[j].name) /\ GoTo(j, "ingest")
      /\ UNCHANGED <<ledger, sfile, gens, jobsBegun, sourceCrashes, mixed, lostUpdate>>
  BY DEF replace_source_index
<1>2. /\ SourceTypeOK /\ sjob[j] \in SourceJob
      /\ \A i \in AllSourceJobs : JobShape(sjob[i])
  BY <1>1, AtWork
<1>3. PICK n \in SourceNames : n = sjob[j].name
  BY <1>1, AtWork
<1>4. PICK R \in SourceJob : R = [sjob[j] EXCEPT !.at = "ingest"]
  BY <1>2, AtFields
<1>5. R.kind = sjob[j].kind /\ R.at = "ingest" /\ R.name = n /\ R.gen = sjob[j].gen
  BY <1>2, <1>3, <1>4, AtFields
<1>6. Becomes(j, R)
  BY <1>1, <1>2, <1>4 DEF GoTo, Becomes
<1>7. /\ sjob'[j] = R /\ \A i \in AllSourceJobs \ {j} : sjob'[i] = sjob[i]
  BY <1>2, <1>6, BecomesPointwise
<1>8. /\ sdocs' \in [SourceNames -> SUBSET (0 .. MaxGen)] /\ atEnd' \in [SourceNames -> BOOLEAN]
      /\ sdocs'[n] = {} /\ ~atEnd'[n]
      /\ \A m \in SourceNames \ {n} : sdocs'[m] = sdocs[m] /\ atEnd'[m] = atEnd[m]
  BY <1>1, <1>2, <1>3, DeleteFields
<1>9. JobShape(R)
  BY <1>1, <1>2, <1>3, <1>5 DEF JobShape, SourceAssumption
<1>10. ASSUME ~mixed[n] PROVE (NameInv(n) /\ IndexInv(n) /\ RemovedInv(n))'
  <2>1. /\ NameInv(n) /\ IndexInv(n) /\ RemovedInv(n)
        /\ sjob[j].kind = "add" /\ sjob[j].name = n /\ sjob[j].at = "delete"
        /\ ledger' = ledger /\ sfile' = sfile /\ lostUpdate' = lostUpdate
    BY <1>1, <1>2, <1>3, <1>10, OrderlyBefore DEF JobShape
  <2>2. NameInv(n)'
    BY <1>5, <1>7, <2>1 DEF NameInv, Replaces
  <2>3. IndexInv(n)'
    BY <1>5, <1>7, <1>8, <2>1 DEF NameInv, IndexInv, Early, Unrecorded, Replaces
  <2>4. RemovedInv(n)'
    BY <1>5, <1>7, <1>8, <2>1 DEF NameInv, RemovedInv, Replaces
  <2>. QED  BY <2>2, <2>3, <2>4
<1>. QED  BY <1>1, <1>3, <1>5, <1>6, <1>8, <1>9, <1>10, OwnStep

\* A step of a job on name n: what the lemmas below have to say of it.
OwnMove(j, n, R) ==
    /\ n = sjob[j].name /\ Becomes(j, R) /\ R.name \in {n, NoSource} /\ JobShape(R)
    /\ sjob'[j] = R
    /\ \A i \in AllSourceJobs \ {j} : sjob'[i] = sjob[i]

LEMMA Moves ==
  ASSUME SourceInv, NEW j \in AllSourceJobs, NEW n \in SourceNames, n = sjob[j].name,
         NEW R \in SourceJob, Becomes(j, R), R.name \in {n, NoSource}, JobShape(R)
  PROVE  OwnMove(j, n, R)
BY BecomesPointwise DEF OwnMove, SourceInv

\* record_source_state, as a step of its own.
LEMMA RecordMove ==
  ASSUME SourceInv, SourceAssumption, NEW j \in AllSourceJobs,
         sjob[j].at \notin {"idle", "wait", "done", "forget", "purge"},
         NEW status \in SourceStatus,
         NEW then \in {"spawned", "check", "bootCheck", "ingest", "done"},
         status = "Current" => then = "done", Record(j, status, then)
  PROVE  \E n \in SourceNames, R \in SourceJob :
            /\ OwnMove(j, n, R)
            /\ R.kind = sjob[j].kind /\ R.at = "save" /\ R.name = n /\ R.gen = sjob[j].gen
            /\ R.status = status /\ R.then = then
<1>1. /\ SourceTypeOK /\ sjob[j] \in SourceJob
      /\ \A i \in AllSourceJobs : JobShape(sjob[i])
  BY AtWork
<1>2. PICK n \in SourceNames : n = sjob[j].name
  BY AtWork
<1>3. PICK job \in SourceJob : job = sjob[j]
  BY <1>1
<1>4. PICK R \in SourceJob :
        /\ R = Recording(job, status, then)
        /\ R.kind = job.kind /\ R.at = "save" /\ R.name = job.name /\ R.gen = job.gen
        /\ R.status = status /\ R.then = then
  <2>1. then \in {"idle", "delete", "spawned", "check", "bootCheck", "ingest", "done"}
    OBVIOUS
  <2>2. /\ Recording(job, status, then) \in SourceJob
        /\ Recording(job, status, then).kind = job.kind /\ Recording(job, status, then).at = "save"
        /\ Recording(job, status, then).name = job.name /\ Recording(job, status, then).gen = job.gen
        /\ Recording(job, status, then).status = status /\ Recording(job, status, then).then = then
    BY <1>1, <2>1 DEF Recording, SourceJob, SourceTypeOK
  <2>. QED  BY <2>2, Zenon
<1>5. Becomes(j, R)
  BY <1>3, <1>4 DEF Record, Becomes
<1>6. JobShape(R)
  <2>1. n # NoSource
    BY DEF SourceAssumption
  <2>2. sjob[j].kind # "remove"
    BY <1>1 DEF JobShape
  <2>. QED  BY <1>2, <1>3, <1>4, <2>1, <2>2 DEF JobShape
<1>. QED  BY <1>2, <1>3, <1>4, <1>5, <1>6, Moves

LEMMA GoMove ==
  ASSUME SourceInv, SourceAssumption, NEW j \in AllSourceJobs,
         sjob[j].at \notin {"idle", "wait", "done"},
         NEW at \in {"ingest", "viewed", "purge"}, at = "purge" <=> sjob[j].kind = "remove",
         GoTo(j, at)
  PROVE  \E n \in SourceNames, R \in SourceJob :
            /\ OwnMove(j, n, R)
            /\ R.kind = sjob[j].kind /\ R.at = at /\ R.name = n /\ R.gen = sjob[j].gen
<1>1. /\ SourceTypeOK /\ sjob[j] \in SourceJob
      /\ \A i \in AllSourceJobs : JobShape(sjob[i])
  BY AtWork
<1>2. PICK n \in SourceNames : n = sjob[j].name
  BY AtWork
<1>3. PICK job \in SourceJob : job = sjob[j]
  BY <1>1
<1>4. PICK R \in SourceJob :
        /\ R = [job EXCEPT !.at = at]
        /\ R.kind = job.kind /\ R.at = at /\ R.name = job.name /\ R.gen = job.gen
  <2>1. /\ [job EXCEPT !.at = at] \in SourceJob
        /\ [job EXCEPT !.at = at].kind = job.kind /\ [job EXCEPT !.at = at].at = at
        /\ [job EXCEPT !.at = at].name = job.name /\ [job EXCEPT !.at = at].gen = job.gen
    BY DEF SourceJob
  <2>. QED  BY <2>1, Zenon
<1>5. Becomes(j, R)
  BY <1>1, <1>3, <1>4 DEF GoTo, Becomes
<1>6. JobShape(R)
  <2>1. n # NoSource
    BY DEF SourceAssumption
  <2>. QED  BY <1>2, <1>3, <1>4, <2>1 DEF JobShape
<1>. QED  BY <1>2, <1>3, <1>4, <1>5, <1>6, Moves

LEMMA EndMove ==
  ASSUME SourceInv, SourceAssumption, NEW j \in AllSourceJobs,
         sjob[j].at \notin {"idle", "wait", "done"}, EndJob(j)
  PROVE  \E n \in SourceNames, R \in SourceJob :
            OwnMove(j, n, R) /\ R.at = "idle" /\ R.name = NoSource
<1>1. PICK n \in SourceNames : n = sjob[j].name
  BY AtWork
<1>2. PICK R \in SourceJob : R = IdleSourceJob
  BY IdleFields
<1>3. R.kind = "none" /\ R.at = "idle" /\ R.name = NoSource
  BY <1>2, IdleFields
<1>4. Becomes(j, R)
  BY <1>2 DEF EndJob, Becomes
<1>5. JobShape(R)
  BY <1>3 DEF JobShape
<1>. QED  BY <1>1, <1>3, <1>4, <1>5, Moves

\* The moves of a job that does not touch the index.
LEMMA QuietStep ==
  ASSUME SourceInv, SourceAssumption, NEW j \in AllSourceJobs, NEW n \in SourceNames,
         NEW R \in SourceJob, OwnMove(j, n, R),
         UNCHANGED <<ledger, sdocs, atEnd, sfile, gens, jobsBegun, sourceCrashes, mixed, lostUpdate>>,
         ~mixed[n] => (NameInv(n) /\ IndexInv(n) /\ RemovedInv(n))'
  PROVE  SourceInv'
<1>1. /\ sdocs' \in [SourceNames -> SUBSET (0 .. MaxGen)] /\ atEnd' \in [SourceNames -> BOOLEAN]
  BY DEF SourceInv, SourceTypeOK
<1>. QED  BY <1>1, OwnStep DEF OwnMove

\* The steps that only record a status, or go on.

LEMMA WakeStep ==
  ASSUME SourceInv, SourceAssumption, NEW j \in AllSourceJobs,
         sjob[j].at = "spawned", Record(j, "Indexing", "check"),
         UNCHANGED <<ledger, sdocs, atEnd, sfile, gens, jobsBegun, sourceCrashes, mixed, lostUpdate>>
  PROVE  SourceInv'
<1>1. /\ "Indexing" \in SourceStatus
      /\ "check" \in {"spawned", "check", "bootCheck", "ingest", "done"}
      /\ sjob[j].at \notin {"idle", "wait", "done", "forget", "purge"}
  BY DEF SourceStatus
<1>2. PICK n \in SourceNames, R \in SourceJob :
        /\ OwnMove(j, n, R)
        /\ R.kind = sjob[j].kind /\ R.at = "save" /\ R.name = n /\ R.gen = sjob[j].gen
        /\ R.status = "Indexing" /\ R.then = "check"
  BY <1>1, RecordMove
<1>3. \A i \in AllSourceJobs : JobShape(sjob[i])
  BY DEF SourceInv
<1>4. ASSUME ~mixed[n] PROVE (NameInv(n) /\ IndexInv(n) /\ RemovedInv(n))'
  <2>1. NameInv(n) /\ IndexInv(n) /\ RemovedInv(n)
    BY <1>4, OrderlyBefore
  <2>2. NameInv(n)'
    BY <1>2, <1>3, <2>1 DEF OwnMove, NameInv, Replaces
  <2>3. /\ \A i \in AllSourceJobs : Early(i, n)' <=> Early(i, n)
        /\ \A i \in AllSourceJobs : Unrecorded(i, n)' <=> Unrecorded(i, n)
    BY <1>2, <1>3 DEF OwnMove, Early, Unrecorded
  <2>4. IndexInv(n)'
    BY <1>2, <1>3, <2>1, <2>3 DEF OwnMove, IndexInv
  <2>5. RemovedInv(n)'
    BY <1>2, <1>3, <2>1 DEF OwnMove, RemovedInv, NameInv, JobShape
  <2>. QED  BY <2>2, <2>4, <2>5
<1>. QED  BY <1>2, <1>4, QuietStep

LEMMA CurrentStep ==
  ASSUME SourceInv, SourceAssumption, NEW j \in AllSourceJobs,
         sjob[j].at \in {"check", "bootCheck"}, sources_are_current(sjob[j].name), Record(j, "Current", "done"),
         UNCHANGED <<ledger, sdocs, atEnd, sfile, gens, jobsBegun, sourceCrashes, mixed, lostUpdate>>
  PROVE  SourceInv'
<1>1. "Current" \in SourceStatus
  BY DEF SourceStatus
<1>2. PICK n \in SourceNames, R \in SourceJob :
        /\ OwnMove(j, n, R)
        /\ R.kind = sjob[j].kind /\ R.at = "save" /\ R.name = n /\ R.gen = sjob[j].gen
        /\ R.status = "Current" /\ R.then = "done"
  BY <1>1, RecordMove
<1>3. \A i \in AllSourceJobs : JobShape(sjob[i])
  BY DEF SourceInv
<1>4. ASSUME ~mixed[n] PROVE (NameInv(n) /\ IndexInv(n) /\ RemovedInv(n))'
  <2>1. NameInv(n) /\ IndexInv(n) /\ RemovedInv(n)
    BY <1>4, OrderlyBefore
  <2>2. NameInv(n)'
    BY <1>2, <1>3, <2>1 DEF OwnMove, NameInv, Replaces
  <2>3. /\ \A i \in AllSourceJobs : Early(i, n)' <=> Early(i, n)
        /\ \A i \in AllSourceJobs : Unrecorded(i, n)' <=> Unrecorded(i, n)
    BY <1>2, <1>3 DEF OwnMove, Early, Unrecorded
  <2>4. IndexInv(n)'
    BY <1>2, <1>3, <2>1, <2>3 DEF OwnMove, IndexInv, sources_are_current
  <2>5. RemovedInv(n)'
    BY <1>2, <1>3, <2>1 DEF OwnMove, RemovedInv, NameInv, JobShape
  <2>. QED  BY <2>2, <2>4, <2>5
<1>. QED  BY <1>2, <1>4, QuietStep

LEMMA IndexingStep ==
  ASSUME SourceInv, SourceAssumption, NEW j \in AllSourceJobs,
         sjob[j].at = "bootCheck", Record(j, "Indexing", "ingest"),
         UNCHANGED <<ledger, sdocs, atEnd, sfile, gens, jobsBegun, sourceCrashes, mixed, lostUpdate>>
  PROVE  SourceInv'
<1>1. "Indexing" \in SourceStatus
  BY DEF SourceStatus
<1>2. PICK n \in SourceNames, R \in SourceJob :
        /\ OwnMove(j, n, R)
        /\ R.kind = sjob[j].kind /\ R.at = "save" /\ R.name = n /\ R.gen = sjob[j].gen
        /\ R.status = "Indexing" /\ R.then = "ingest"
  BY <1>1, RecordMove
<1>3. \A i \in AllSourceJobs : JobShape(sjob[i])
  BY DEF SourceInv
<1>4. ASSUME ~mixed[n] PROVE (NameInv(n) /\ IndexInv(n) /\ RemovedInv(n))'
  <2>1. NameInv(n) /\ IndexInv(n) /\ RemovedInv(n)
    BY <1>4, OrderlyBefore
  <2>2. NameInv(n)'
    BY <1>2, <1>3, <2>1 DEF OwnMove, NameInv, Replaces
  <2>3. /\ \A i \in AllSourceJobs : Early(i, n)' <=> Early(i, n)
        /\ \A i \in AllSourceJobs : Unrecorded(i, n)' <=> Unrecorded(i, n)
    BY <1>2, <1>3 DEF OwnMove, Early, Unrecorded
  <2>4. IndexInv(n)'
    BY <1>2, <1>3, <2>1, <2>3 DEF OwnMove, IndexInv
  <2>5. RemovedInv(n)'
    BY <1>2, <1>3, <2>1 DEF OwnMove, RemovedInv, NameInv, JobShape
  <2>. QED  BY <2>2, <2>4, <2>5
<1>. QED  BY <1>2, <1>4, QuietStep

LEMMA ErrorStep ==
  ASSUME SourceInv, SourceAssumption, NEW j \in AllSourceJobs,
         sjob[j].at = "ingest", Record(j, "Error", "done"),
         UNCHANGED <<ledger, sdocs, atEnd, sfile, gens, jobsBegun, sourceCrashes, mixed, lostUpdate>>
  PROVE  SourceInv'
<1>1. "Error" \in SourceStatus
  BY DEF SourceStatus
<1>2. PICK n \in SourceNames, R \in SourceJob :
        /\ OwnMove(j, n, R)
        /\ R.kind = sjob[j].kind /\ R.at = "save" /\ R.name = n /\ R.gen = sjob[j].gen
        /\ R.status = "Error" /\ R.then = "done"
  BY <1>1, RecordMove
<1>3. \A i \in AllSourceJobs : JobShape(sjob[i])
  BY DEF SourceInv
<1>4. ASSUME ~mixed[n] PROVE (NameInv(n) /\ IndexInv(n) /\ RemovedInv(n))'
  <2>1. NameInv(n) /\ IndexInv(n) /\ RemovedInv(n)
    BY <1>4, OrderlyBefore
  <2>2. NameInv(n)'
    BY <1>2, <1>3, <2>1 DEF OwnMove, NameInv, Replaces
  <2>3. /\ \A i \in AllSourceJobs : Early(i, n)' <=> Early(i, n)
        /\ \A i \in AllSourceJobs : Unrecorded(i, n)' <=> Unrecorded(i, n)
    BY <1>2, <1>3 DEF OwnMove, Early, Unrecorded
  <2>4. IndexInv(n)'
    BY <1>2, <1>3, <2>1, <2>3 DEF OwnMove, IndexInv
  <2>5. RemovedInv(n)'
    BY <1>2, <1>3, <2>1 DEF OwnMove, RemovedInv, NameInv, JobShape
  <2>. QED  BY <2>2, <2>4, <2>5
<1>. QED  BY <1>2, <1>4, QuietStep

LEMMA CheckedStep ==
  ASSUME SourceInv, SourceAssumption, NEW j \in AllSourceJobs,
         sjob[j].at = "check", GoTo(j, "ingest"),
         UNCHANGED <<ledger, sdocs, atEnd, sfile, gens, jobsBegun, sourceCrashes, mixed, lostUpdate>>
  PROVE  SourceInv'
<1>1. \A i \in AllSourceJobs : JobShape(sjob[i])
  BY DEF SourceInv
<1>2. "ingest" = "purge" <=> sjob[j].kind = "remove"
  BY <1>1 DEF JobShape
<1>3. PICK n \in SourceNames, R \in SourceJob :
        /\ OwnMove(j, n, R)
        /\ R.kind = sjob[j].kind /\ R.at = "ingest" /\ R.name = n /\ R.gen = sjob[j].gen
  BY <1>2, GoMove
<1>4. ASSUME ~mixed[n] PROVE (NameInv(n) /\ IndexInv(n) /\ RemovedInv(n))'
  <2>1. NameInv(n) /\ IndexInv(n) /\ RemovedInv(n)
    BY <1>4, OrderlyBefore
  <2>2. NameInv(n)'
    BY <1>1, <1>3, <2>1 DEF OwnMove, NameInv, Replaces
  <2>3. /\ \A i \in AllSourceJobs : Early(i, n)' <=> Early(i, n)
        /\ \A i \in AllSourceJobs : Unrecorded(i, n)' <=> Unrecorded(i, n)
    BY <1>1, <1>3 DEF OwnMove, Early, Unrecorded
  <2>4. IndexInv(n)'
    BY <1>1, <1>3, <2>1, <2>3 DEF OwnMove, IndexInv
  <2>5. RemovedInv(n)'
    BY <1>1, <1>3, <2>1 DEF OwnMove, RemovedInv, NameInv, JobShape
  <2>. QED  BY <2>2, <2>4, <2>5
<1>. QED  BY <1>3, <1>4, QuietStep

LEMMA WarmedStep ==
  ASSUME SourceInv, SourceAssumption, NEW j \in AllSourceJobs,
         sjob[j].at = "warm", GoTo(j, "viewed"),
         UNCHANGED <<ledger, sdocs, atEnd, sfile, gens, jobsBegun, sourceCrashes, mixed, lostUpdate>>
  PROVE  SourceInv'
<1>1. \A i \in AllSourceJobs : JobShape(sjob[i])
  BY DEF SourceInv
<1>2. "viewed" = "purge" <=> sjob[j].kind = "remove"
  BY <1>1 DEF JobShape
<1>3. PICK n \in SourceNames, R \in SourceJob :
        /\ OwnMove(j, n, R)
        /\ R.kind = sjob[j].kind /\ R.at = "viewed" /\ R.name = n /\ R.gen = sjob[j].gen
  BY <1>2, GoMove
<1>4. ASSUME ~mixed[n] PROVE (NameInv(n) /\ IndexInv(n) /\ RemovedInv(n))'
  <2>1. NameInv(n) /\ IndexInv(n) /\ RemovedInv(n)
    BY <1>4, OrderlyBefore
  <2>2. NameInv(n)'
    BY <1>1, <1>3, <2>1 DEF OwnMove, NameInv, Replaces
  <2>3. /\ \A i \in AllSourceJobs : Early(i, n)' <=> Early(i, n)
        /\ \A i \in AllSourceJobs : Unrecorded(i, n)' <=> Unrecorded(i, n)
    BY <1>1, <1>3 DEF OwnMove, Early, Unrecorded
  <2>4. IndexInv(n)'
    BY <1>1, <1>3, <2>1, <2>3 DEF OwnMove, IndexInv
  <2>5. RemovedInv(n)'
    BY <1>1, <1>3, <2>1 DEF OwnMove, RemovedInv, NameInv, JobShape
  <2>. QED  BY <2>2, <2>4, <2>5
<1>. QED  BY <1>3, <1>4, QuietStep

LEMMA EndStep ==
  ASSUME SourceInv, SourceAssumption, NEW j \in AllSourceJobs, EndJob(j),
         sjob[j].at \in {"ingest", "viewed"},
         UNCHANGED <<ledger, sdocs, atEnd, sfile, gens, jobsBegun, sourceCrashes, mixed, lostUpdate>>
  PROVE  SourceInv'
<1>1. \A i \in AllSourceJobs : JobShape(sjob[i])
  BY DEF SourceInv
<1>2. PICK n \in SourceNames, R \in SourceJob :
        OwnMove(j, n, R) /\ R.at = "idle" /\ R.name = NoSource
  BY EndMove
<1>3. n # NoSource
  BY DEF SourceAssumption
<1>4. ASSUME ~mixed[n] PROVE (NameInv(n) /\ IndexInv(n) /\ RemovedInv(n))'
  <2>1. NameInv(n) /\ IndexInv(n) /\ RemovedInv(n)
    BY <1>4, OrderlyBefore
  <2>2. NameInv(n)'
    BY <1>1, <1>2, <1>3, <2>1 DEF OwnMove, NameInv, Replaces
  <2>3. /\ \A i \in AllSourceJobs : Early(i, n)' <=> Early(i, n)
        /\ \A i \in AllSourceJobs : Unrecorded(i, n)' <=> Unrecorded(i, n)
    BY <1>1, <1>2, <1>3 DEF OwnMove, Early, Unrecorded
  <2>4. IndexInv(n)'
    BY <1>1, <1>2, <1>3, <2>1, <2>3 DEF OwnMove, IndexInv
  <2>5. RemovedInv(n)'
    BY <1>1, <1>2, <1>3, <2>1 DEF OwnMove, RemovedInv, NameInv, JobShape
  <2>. QED  BY <2>2, <2>4, <2>5
<1>. QED  BY <1>2, <1>4, QuietStep

LEMMA GoneStep ==
  ASSUME SourceInv, SourceAssumption, NEW j \in AllSourceJobs, EndJob(j),
         sjob[j].at \in {"resolve", "view"}, ledger[sjob[j].name] = 0,
         UNCHANGED <<ledger, sdocs, atEnd, sfile, gens, jobsBegun, sourceCrashes, mixed, lostUpdate>>
  PROVE  SourceInv'
<1>1. \A i \in AllSourceJobs : JobShape(sjob[i])
  BY DEF SourceInv
<1>2. PICK n \in SourceNames, R \in SourceJob :
        OwnMove(j, n, R) /\ R.at = "idle" /\ R.name = NoSource
  BY EndMove
<1>3. mixed[n]
  BY <1>1, <1>2, OrderlyBefore DEF OwnMove, NameInv, JobShape
<1>. QED  BY <1>2, <1>3, QuietStep

\* An ingest adds the documents of the job's generation, unless the cursor is at the end.
LEMMA IngestFields ==
  ASSUME SourceInv, NEW j \in AllSourceJobs, NEW n \in SourceNames, n = sjob[j].name,
         ingest_sources_in_priority_batches(j)
  PROVE  /\ sdocs' \in [SourceNames -> SUBSET (0 .. MaxGen)] /\ atEnd' \in [SourceNames -> BOOLEAN]
         /\ sdocs'[n] = IF atEnd[n] THEN sdocs[n] ELSE sdocs[n] \cup Documents(n, sjob[j].gen)
         /\ atEnd'[n]
         /\ \A m \in SourceNames \ {n} : sdocs'[m] = sdocs[m] /\ atEnd'[m] = atEnd[m]
<1>1. Documents(n, sjob[j].gen) \in SUBSET (0 .. MaxGen)
  BY DEF Documents, SourceInv, SourceTypeOK, SourceJob
<1>2. SourceTypeOK
  BY DEF SourceInv
<1>3. PICK D \in SUBSET (0 .. MaxGen) : D = Documents(n, sjob[j].gen)
  BY <1>1
<1>. QED  BY <1>2, <1>3 DEF ingest_sources_in_priority_batches, SourceTypeOK

LEMMA IngestOrderly ==
  ASSUME SourceInv, NEW j \in AllSourceJobs, NEW n \in SourceNames, NEW R \in SourceJob,
         OwnMove(j, n, R), sjob[j].at \in {"ingest", "warm"},
         ingest_sources_in_priority_batches(j), n # NoSource,
         UNCHANGED <<ledger, sfile, lostUpdate>>,
         R.name = n => R.kind = sjob[j].kind /\ R.gen = sjob[j].gen /\ R.at \in {"save", "viewed"},
         R.at = "save" => R.then = "done",
         ~mixed[n]
  PROVE  (NameInv(n) /\ IndexInv(n) /\ RemovedInv(n))'
<1>1. NameInv(n) /\ IndexInv(n) /\ RemovedInv(n)
  BY OrderlyBefore
<1>2. \A i \in AllSourceJobs : JobShape(sjob[i])
  BY DEF SourceInv
<1>3. /\ sdocs'[n] = IF atEnd[n] THEN sdocs[n] ELSE sdocs[n] \cup Documents(n, sjob[j].gen)
      /\ atEnd'[n]
  BY IngestFields DEF OwnMove
<1>4. ledger[n] # 0 /\ sjob[j].gen = ledger[n]
  BY <1>1, <1>2 DEF OwnMove, NameInv, JobShape
<1>5. \A i \in AllSourceJobs : ~Early(i, n)
  BY <1>1, <1>2 DEF OwnMove, NameInv, JobShape, Early, Replaces
<1>6. sdocs'[n] = Documents(n, ledger'[n])
  BY <1>1, <1>3, <1>4, <1>5 DEF IndexInv
<1>7. NameInv(n)'
  BY <1>1 DEF OwnMove, NameInv, Replaces
<1>8. IndexInv(n)'
  <2>1. \A i \in AllSourceJobs : sjob'[i].name = n /\ sjob'[i].at = "delete" =>
           sfile'[n] # "Current" \/ lostUpdate'[n]
    BY <1>1 DEF OwnMove, IndexInv
  <2>. QED  BY <1>3, <1>6, <2>1 DEF IndexInv
<1>9. RemovedInv(n)'
  BY <1>1, <1>4 DEF OwnMove, RemovedInv
<1>. QED  BY <1>7, <1>8, <1>9

LEMMA IngestStep ==
  ASSUME SourceInv, SourceAssumption, NEW j \in AllSourceJobs, IngestSucceeds(j)
  PROVE  SourceInv'
<1>1. /\ sjob[j].at = "ingest" /\ ingest_sources_in_priority_batches(j)
      /\ EndJob(j) \/ Record(j, "Current", "done")
      /\ UNCHANGED <<ledger, sfile, gens, jobsBegun, sourceCrashes, mixed, lostUpdate>>
  BY DEF IngestSucceeds
<1>2. "Current" \in SourceStatus
  BY DEF SourceStatus
<1>3. PICK n \in SourceNames, R \in SourceJob :
        /\ OwnMove(j, n, R)
        /\ R.name = n => R.kind = sjob[j].kind /\ R.gen = sjob[j].gen /\ R.at \in {"save", "viewed"}
        /\ R.at = "save" => R.then = "done"
  <2>1. CASE EndJob(j)
    <3>1. PICK n \in SourceNames, R \in SourceJob :
            OwnMove(j, n, R) /\ R.at = "idle" /\ R.name = NoSource
      BY <1>1, <2>1, EndMove
    <3>2. n # NoSource
      BY DEF SourceAssumption
    <3>. QED  BY <3>1, <3>2
  <2>2. CASE Record(j, "Current", "done")
    <3>1. PICK n \in SourceNames, R \in SourceJob :
            /\ OwnMove(j, n, R)
            /\ R.kind = sjob[j].kind /\ R.at = "save" /\ R.name = n /\ R.gen = sjob[j].gen
            /\ R.status = "Current" /\ R.then = "done"
      BY <1>1, <1>2, <2>2, RecordMove
    <3>. QED  BY <3>1
  <2>. QED  BY <1>1, <2>1, <2>2
<1>4. n # NoSource
  BY DEF SourceAssumption
<1>5. ~mixed[n] => (NameInv(n) /\ IndexInv(n) /\ RemovedInv(n))'
  BY <1>1, <1>3, <1>4, IngestOrderly
<1>6. /\ sdocs' \in [SourceNames -> SUBSET (0 .. MaxGen)] /\ atEnd' \in [SourceNames -> BOOLEAN]
      /\ \A m \in SourceNames \ {n} : sdocs'[m] = sdocs[m] /\ atEnd'[m] = atEnd[m]
  BY <1>1, <1>3, IngestFields DEF OwnMove
<1>. QED  BY <1>1, <1>3, <1>5, <1>6, OwnStep DEF OwnMove

LEMMA WarmStep ==
  ASSUME SourceInv, SourceAssumption, NEW j \in AllSourceJobs, WarmUp(j)
  PROVE  SourceInv'
<1>1. /\ sjob[j].at = "warm" /\ GoTo(j, "viewed")
      /\ ingest_sources_in_priority_batches(j) \/ UNCHANGED <<sdocs, atEnd>>
      /\ UNCHANGED <<ledger, sfile, gens, jobsBegun, sourceCrashes, mixed, lostUpdate>>
  BY DEF WarmUp
<1>2. CASE UNCHANGED <<sdocs, atEnd>>
  BY <1>1, <1>2, WarmedStep
<1>3. CASE ingest_sources_in_priority_batches(j)
  <2>1. "viewed" = "purge" <=> sjob[j].kind = "remove"
    BY <1>1 DEF SourceInv, JobShape
  <2>2. PICK n \in SourceNames, R \in SourceJob :
          /\ OwnMove(j, n, R)
          /\ R.kind = sjob[j].kind /\ R.at = "viewed" /\ R.name = n /\ R.gen = sjob[j].gen
    BY <1>1, <2>1, GoMove
  <2>3. n # NoSource
    BY DEF SourceAssumption
  <2>4. ~mixed[n] => (NameInv(n) /\ IndexInv(n) /\ RemovedInv(n))'
    BY <1>1, <1>3, <2>2, <2>3, IngestOrderly
  <2>5. /\ sdocs' \in [SourceNames -> SUBSET (0 .. MaxGen)] /\ atEnd' \in [SourceNames -> BOOLEAN]
        /\ \A m \in SourceNames \ {n} : sdocs'[m] = sdocs[m] /\ atEnd'[m] = atEnd[m]
    BY <1>3, <2>2, IngestFields DEF OwnMove
  <2>. QED  BY <1>1, <2>2, <2>4, <2>5, OwnStep DEF OwnMove
<1>. QED  BY <1>1, <1>2, <1>3

\* spawn_source_backfill records Queued, in an add after the documents are deleted.
LEMMA ClearsStep ==
  ASSUME SourceInv, SourceAssumption, NEW j \in AllSourceJobs, AddClears(j)
  PROVE  SourceInv'
<1>1. /\ sjob[j].at = "clear" /\ delete_source_run(sjob[j].name) /\ Record(j, "Queued", "spawned")
      /\ UNCHANGED <<ledger, sfile, gens, jobsBegun, sourceCrashes, mixed, lostUpdate>>
  BY DEF AddClears, Spawns, Record
<1>2. "Queued" \in SourceStatus
  BY DEF SourceStatus
<1>3. PICK n \in SourceNames, R \in SourceJob :
        /\ OwnMove(j, n, R)
        /\ R.kind = sjob[j].kind /\ R.at = "save" /\ R.name = n /\ R.gen = sjob[j].gen
        /\ R.status = "Queued" /\ R.then = "spawned"
  BY <1>1, <1>2, RecordMove
<1>4. SourceTypeOK /\ \A i \in AllSourceJobs : JobShape(sjob[i])
  BY DEF SourceInv
<1>5. /\ sdocs' \in [SourceNames -> SUBSET (0 .. MaxGen)] /\ atEnd' \in [SourceNames -> BOOLEAN]
      /\ sdocs'[n] = {} /\ ~atEnd'[n]
      /\ \A m \in SourceNames \ {n} : sdocs'[m] = sdocs[m] /\ atEnd'[m] = atEnd[m]
  BY <1>1, <1>3, <1>4, DeleteFields DEF OwnMove
<1>6. ASSUME ~mixed[n] PROVE (NameInv(n) /\ IndexInv(n) /\ RemovedInv(n))'
  <2>1. NameInv(n) /\ IndexInv(n) /\ RemovedInv(n)
    BY <1>6, OrderlyBefore
  <2>2. NameInv(n)'
    BY <1>1, <1>3, <2>1 DEF OwnMove, NameInv, Replaces
  <2>3. sjob[j].kind = "add" /\ \A i \in AllSourceJobs \ {j} : sjob'[i].name # n
    BY <1>1, <1>3, <1>4, <2>1 DEF OwnMove, NameInv, Replaces, JobShape
  <2>4. Unrecorded(j, n)'
    BY <1>3, <2>3 DEF OwnMove, Unrecorded
  <2>5. IndexInv(n)'
    BY <1>3, <1>5, <2>3, <2>4 DEF OwnMove, IndexInv
  <2>6. RemovedInv(n)'
    BY <1>3, <2>3 DEF OwnMove, RemovedInv
  <2>. QED  BY <2>2, <2>5, <2>6
<1>. QED  BY <1>1, <1>3, <1>5, <1>6, OwnStep DEF OwnMove

LEMMA QueuedStep ==
  ASSUME SourceInv, SourceAssumption, NEW j \in AllSourceJobs, sjob[j].at = "viewed", Spawns(j),
         UNCHANGED <<ledger, sdocs, atEnd, sfile, gens, jobsBegun, sourceCrashes, mixed, lostUpdate>>
  PROVE  SourceInv'
<1>1. "Queued" \in SourceStatus /\ Record(j, "Queued", "spawned")
  BY DEF SourceStatus, Spawns, Record
<1>2. PICK n \in SourceNames, R \in SourceJob :
        /\ OwnMove(j, n, R)
        /\ R.kind = sjob[j].kind /\ R.at = "save" /\ R.name = n /\ R.gen = sjob[j].gen
        /\ R.status = "Queued" /\ R.then = "spawned"
  BY <1>1, RecordMove
<1>3. \A i \in AllSourceJobs : JobShape(sjob[i])
  BY DEF SourceInv
<1>4. ASSUME ~mixed[n] PROVE (NameInv(n) /\ IndexInv(n) /\ RemovedInv(n))'
  <2>1. NameInv(n) /\ IndexInv(n) /\ RemovedInv(n)
    BY <1>4, OrderlyBefore
  <2>2. NameInv(n)'
    BY <1>2, <2>1 DEF OwnMove, NameInv, Replaces
  <2>3. /\ \A i \in AllSourceJobs : Early(i, n) => Early(i, n)'
        /\ \A i \in AllSourceJobs : Unrecorded(i, n) => Unrecorded(i, n)'
    BY <1>2 DEF OwnMove, Early, Unrecorded
  <2>4. IndexInv(n)'
    BY <1>2, <2>1, <2>3 DEF OwnMove, IndexInv
  <2>5. RemovedInv(n)'
    BY <1>2, <1>3, <2>1 DEF OwnMove, RemovedInv, NameInv, JobShape
  <2>. QED  BY <2>2, <2>4, <2>5
<1>. QED  BY <1>2, <1>4, QuietStep

(***************************************************************************)
(* resolve_log_sources: the job learns the generation the ledger has now.  *)
(***************************************************************************)
LEMMA ResolvedFields ==
  ASSUME SourceInv, NEW j \in AllSourceJobs, sjob[j].name \in SourceNames,
         NEW at \in {"clear", "warm", "ingest", "resolve"}
  PROVE  /\ Resolved(j, at) \in SourceJob
         /\ Resolved(j, at).kind = sjob[j].kind /\ Resolved(j, at).at = at
         /\ Resolved(j, at).name = sjob[j].name /\ Resolved(j, at).gen = ledger[sjob[j].name]
<1>1. PICK job \in SourceJob : job = sjob[j]
  BY DEF SourceInv, SourceTypeOK
<1>2. PICK g \in 0 .. MaxGen : g = ledger[sjob[j].name]
  BY DEF SourceInv, SourceTypeOK
<1>3. Resolved(j, at) = [job EXCEPT !.gen = g, !.at = at]
  BY <1>1, <1>2 DEF Resolved
<1>4. /\ [job EXCEPT !.gen = g, !.at = at] \in SourceJob
      /\ [job EXCEPT !.gen = g, !.at = at].kind = job.kind
      /\ [job EXCEPT !.gen = g, !.at = at].at = at
      /\ [job EXCEPT !.gen = g, !.at = at].name = job.name
      /\ [job EXCEPT !.gen = g, !.at = at].gen = g
  BY DEF SourceJob
<1>. QED  BY <1>1, <1>2, <1>3, <1>4, Zenon

LEMMA ResolveOrderly ==
  ASSUME SourceInv, SourceAssumption, NEW j \in AllSourceJobs, NEW n \in SourceNames, NEW R \in SourceJob,
         n = sjob[j].name, Becomes(j, R), sjob[j].at \in {"resolve", "view"}, ledger[n] # 0,
         R.kind = sjob[j].kind, R.name = n, R.gen = ledger[n],
         \/ sjob[j].at = "resolve" /\ R.at = "clear"
         \/ sjob[j].at = "resolve" /\ R.at = "save" /\ R.then = "delete" /\ R.status = "Indexing"
         \/ sjob[j].at = "view" /\ R.at \in {"warm", "ingest"},
         UNCHANGED <<ledger, sdocs, atEnd, sfile, gens, jobsBegun, sourceCrashes, mixed, lostUpdate>>
  PROVE  SourceInv'
<1>1. /\ \A i \in AllSourceJobs : JobShape(sjob[i])
      /\ n # NoSource
  BY DEF SourceInv, SourceAssumption
<1>2. JobShape(R)
  BY <1>1 DEF JobShape
<1>3. OwnMove(j, n, R)
  BY <1>2, Moves
<1>4. ASSUME ~mixed[n] PROVE (NameInv(n) /\ IndexInv(n) /\ RemovedInv(n))'
  <2>1. NameInv(n) /\ IndexInv(n) /\ RemovedInv(n)
    BY <1>4, OrderlyBefore
  <2>2. NameInv(n)'
    BY <1>3, <2>1 DEF OwnMove, NameInv, Replaces
  <2>3. /\ \A i \in AllSourceJobs : Early(i, n) => Early(i, n)'
        /\ \A i \in AllSourceJobs : Unrecorded(i, n) => Unrecorded(i, n)'
    BY <1>1, <1>3 DEF OwnMove, Early, Unrecorded, JobShape
  <2>4. IndexInv(n)'
    BY <1>3, <2>1, <2>3 DEF OwnMove, IndexInv
  <2>5. RemovedInv(n)'
    BY <1>3, <2>1 DEF OwnMove, RemovedInv
  <2>. QED  BY <2>2, <2>4, <2>5
<1>. QED  BY <1>3, <1>4, QuietStep

LEMMA AddResolveStep ==
  ASSUME SourceInv, SourceAssumption, NEW j \in AllSourceJobs, AddResolve(j)
  PROVE  SourceInv'
<1>1. /\ sjob[j].at = "resolve"
      /\ UNCHANGED <<ledger, sdocs, atEnd, sfile, gens, jobsBegun, sourceCrashes, mixed, lostUpdate>>
      /\ IF ledger[sjob[j].name] = 0 THEN EndJob(j)
         ELSE \/ Becomes(j, Resolved(j, "clear"))
              \/ Becomes(j, Recording(Resolved(j, "resolve"), "Indexing", "delete"))
  BY DEF AddResolve, resolve_log_sources, Becomes
<1>2. PICK n \in SourceNames : n = sjob[j].name
  BY <1>1, AtWork
<1>3. CASE ledger[n] = 0
  BY <1>1, <1>2, <1>3, GoneStep
<1>4. CASE ledger[n] # 0 /\ Becomes(j, Resolved(j, "clear"))
  <2>1. PICK R \in SourceJob :
          /\ R = Resolved(j, "clear") /\ R.kind = sjob[j].kind /\ R.at = "clear" /\ R.name = n
          /\ R.gen = ledger[n]
    BY <1>2, ResolvedFields
  <2>. QED  BY <1>1, <1>2, <1>4, <2>1, ResolveOrderly
<1>5. CASE ledger[n] # 0 /\ Becomes(j, Recording(Resolved(j, "resolve"), "Indexing", "delete"))
  <2>1. PICK Q \in SourceJob :
          Q = Resolved(j, "resolve") /\ Q.kind = sjob[j].kind /\ Q.name = n /\ Q.gen = ledger[n]
    BY <1>2, ResolvedFields
  <2>2. SourceTypeOK
    BY DEF SourceInv
  <2>3. "Indexing" \in SourceStatus
    BY DEF SourceStatus
  <2>4. PICK R \in SourceJob :
          /\ R = Recording(Q, "Indexing", "delete") /\ R.kind = Q.kind /\ R.at = "save"
          /\ R.name = Q.name /\ R.gen = Q.gen /\ R.status = "Indexing" /\ R.then = "delete"
    BY <2>2, <2>3, RecordingFields
  <2>. QED  BY <1>1, <1>2, <1>5, <2>1, <2>4, ResolveOrderly
<1>. QED  BY <1>1, <1>2, <1>3, <1>4, <1>5

LEMMA ViewResolveStep ==
  ASSUME SourceInv, SourceAssumption, NEW j \in AllSourceJobs, ViewResolve(j)
  PROVE  SourceInv'
<1>1. /\ sjob[j].at = "view"
      /\ UNCHANGED <<ledger, sdocs, atEnd, sfile, gens, jobsBegun, sourceCrashes, mixed, lostUpdate>>
      /\ IF ledger[sjob[j].name] = 0 THEN EndJob(j)
         ELSE \E at \in {"warm", "ingest"} : Becomes(j, Resolved(j, at))
  BY DEF ViewResolve, resolve_log_sources, Becomes
<1>2. PICK n \in SourceNames : n = sjob[j].name
  BY <1>1, AtWork
<1>3. CASE ledger[n] = 0
  BY <1>1, <1>2, <1>3, GoneStep
<1>4. CASE ledger[n] # 0
  <2>1. PICK at \in {"warm", "ingest"} : Becomes(j, Resolved(j, at))
    BY <1>1, <1>2, <1>4
  <2>2. PICK R \in SourceJob :
          R = Resolved(j, at) /\ R.kind = sjob[j].kind /\ R.at = at /\ R.name = n /\ R.gen = ledger[n]
    BY <1>2, ResolvedFields
  <2>. QED  BY <1>1, <1>2, <1>4, <2>1, <2>2, ResolveOrderly
<1>. QED  BY <1>3, <1>4

(***************************************************************************)
(* The beginnings of jobs on a name.                                       *)
(***************************************************************************)
LEMMA MeetsFields ==
  ASSUME SourceTypeOK, NEW j \in AllSourceJobs, NEW n \in SourceNames, NEW kind, Meets(j, n, kind),
         \A i \in AllSourceJobs : JobShape(sjob[i]), SourceAssumption
  PROVE  /\ mixed' \in [SourceNames -> BOOLEAN]
         /\ \A m \in SourceNames \ {n} : mixed'[m] = mixed[m]
         /\ ~mixed'[n] => /\ \A i \in AllSourceJobs \ {j} :
                               sjob[i].name = n => ~Replaces(kind) /\ ~Replaces(sjob[i].kind)
                          /\ kind # "add" => ~mixed[n]
<1>. DEFINE rivals == {i \in AllSourceJobs \ {j} : Engages(i, n)}
            b == \/ \E i \in rivals : Replaces(kind) \/ Replaces(sjob[i].kind)
                 \/ mixed[n] /\ (kind # "add" \/ rivals # {})
<1>1. mixed' = [mixed EXCEPT ![n] = b]
  BY DEF Meets
<1>2. b \in BOOLEAN
  OBVIOUS
<1>3. \A i \in AllSourceJobs \ {j} : sjob[i].name = n => i \in rivals
  BY DEF Engages, JobShape, SourceAssumption
<1>4. ~b => /\ \A i \in AllSourceJobs \ {j} :
                 sjob[i].name = n => ~Replaces(kind) /\ ~Replaces(sjob[i].kind)
            /\ kind # "add" => ~mixed[n]
  BY <1>3
<1>. HIDE DEF b
<1>5. /\ mixed' \in [SourceNames -> BOOLEAN] /\ mixed'[n] = b
      /\ \A m \in SourceNames \ {n} : mixed'[m] = mixed[m]
  BY <1>1, <1>2 DEF SourceTypeOK
<1>. QED  BY <1>4, <1>5

LEMMA AddBeginStep ==
  ASSUME SourceInv, SourceAssumption, NEW j \in AllSourceJobs, NEW n \in SourceNames, AddBegin(j, n)
  PROVE  SourceInv'
<1>1. /\ sjob[j].at = "idle" /\ gens[n] < MaxGen /\ jobsBegun' = jobsBegun + 1
      /\ gens' = [gens EXCEPT ![n] = @ + 1] /\ ledger' = [ledger EXCEPT ![n] = gens'[n]]
      /\ sjob' = [sjob EXCEPT ![j].kind = "add", ![j].name = n, ![j].at = "resolve"]
      /\ Meets(j, n, "add")
      /\ UNCHANGED <<sdocs, atEnd, sfile, sourceCrashes, lostUpdate>>
  BY DEF AddBegin, SourceCall
<1>2. /\ SourceTypeOK /\ sjob[j] \in SourceJob /\ n # NoSource
      /\ \A i \in AllSourceJobs : JobShape(sjob[i])
  BY DEF SourceInv, SourceTypeOK, SourceAssumption
<1>4. PICK R \in SourceJob :
        /\ R = [sjob[j] EXCEPT !.kind = "add", !.name = n, !.at = "resolve"]
        /\ R.kind = "add" /\ R.name = n /\ R.at = "resolve"
  <2>1. PICK job \in SourceJob : job = sjob[j]
    BY <1>2
  <2>2. /\ [job EXCEPT !.kind = "add", !.name = n, !.at = "resolve"] \in SourceJob
        /\ [job EXCEPT !.kind = "add", !.name = n, !.at = "resolve"].kind = "add"
        /\ [job EXCEPT !.kind = "add", !.name = n, !.at = "resolve"].name = n
        /\ [job EXCEPT !.kind = "add", !.name = n, !.at = "resolve"].at = "resolve"
    BY <1>2 DEF SourceJob
  <2>. QED  BY <2>1, <2>2, Zenon
<1>5. Becomes(j, R)
  BY <1>1, <1>2, <1>4 DEF Becomes, SourceTypeOK
<1>6. /\ sjob' \in [AllSourceJobs -> SourceJob] /\ sjob'[j] = R
      /\ \A i \in AllSourceJobs \ {j} : sjob'[i] = sjob[i]
  BY <1>2, <1>5, BecomesPointwise
<1>7. /\ mixed' \in [SourceNames -> BOOLEAN]
      /\ \A m \in SourceNames \ {n} : mixed'[m] = mixed[m]
      /\ ~mixed'[n] => \A i \in AllSourceJobs \ {j} : sjob[i].name # n
  BY <1>1, <1>2, MeetsFields DEF Replaces
<1>8. /\ gens' \in [SourceNames -> 0 .. MaxGen] /\ ledger' \in [SourceNames -> 0 .. MaxGen]
      /\ ledger'[n] # 0 /\ \A m \in SourceNames \ {n} : ledger'[m] = ledger[m]
  BY <1>1, <1>2 DEF SourceTypeOK, SourceAssumption
<1>9. SourceTypeOK'
  BY <1>1, <1>2, <1>6, <1>7, <1>8 DEF SourceTypeOK
<1>10. JobShape(sjob'[j])
  BY <1>2, <1>4, <1>6 DEF JobShape
<1>11. ASSUME ~mixed'[n] PROVE (NameInv(n) /\ IndexInv(n) /\ RemovedInv(n))'
  <2>1. \A i \in AllSourceJobs : sjob'[i].name = n => i = j
    BY <1>6, <1>7, <1>11
  <2>2. NameInv(n)'
    BY <1>4, <1>6, <1>8, <2>1 DEF NameInv
  <2>3. Early(j, n)' /\ Unrecorded(j, n)'
    BY <1>4, <1>6 DEF Early, Unrecorded
  <2>4. IndexInv(n)'
    BY <1>4, <1>6, <2>1, <2>3 DEF IndexInv
  <2>5. RemovedInv(n)'
    BY <1>4, <1>6, <1>8, <2>1 DEF RemovedInv
  <2>. QED  BY <2>2, <2>4, <2>5
<1>12. Orderly(n)'
  BY <1>11 DEF Orderly
<1>13. sjob[j].name \in {n, NoSource} /\ R.name \in {n, NoSource}
  BY <1>1, <1>2, <1>4 DEF JobShape
<1>. QED  BY <1>1, <1>5, <1>7, <1>8, <1>9, <1>10, <1>12, <1>13, JobStep

LEMMA ViewBeginStep ==
  ASSUME SourceInv, SourceAssumption, NEW j \in AllSourceJobs, NEW n \in SourceNames, ViewBegin(j, n)
  PROVE  SourceInv'
<1>1. /\ sjob[j].at = "idle" /\ ledger[n] # 0 /\ jobsBegun' = jobsBegun + 1
      /\ sjob' = [sjob EXCEPT ![j].kind = "query", ![j].name = n, ![j].at = "view"]
      /\ Meets(j, n, "query")
      /\ UNCHANGED <<ledger, sdocs, atEnd, sfile, gens, sourceCrashes, lostUpdate>>
  BY DEF ViewBegin, SourceCall
<1>2. /\ SourceTypeOK /\ sjob[j] \in SourceJob /\ n # NoSource
      /\ \A i \in AllSourceJobs : JobShape(sjob[i])
  BY DEF SourceInv, SourceTypeOK, SourceAssumption
<1>4. PICK R \in SourceJob :
        /\ R = [sjob[j] EXCEPT !.kind = "query", !.name = n, !.at = "view"]
        /\ R.kind = "query" /\ R.name = n /\ R.at = "view"
  <2>1. PICK job \in SourceJob : job = sjob[j]
    BY <1>2
  <2>2. /\ [job EXCEPT !.kind = "query", !.name = n, !.at = "view"] \in SourceJob
        /\ [job EXCEPT !.kind = "query", !.name = n, !.at = "view"].kind = "query"
        /\ [job EXCEPT !.kind = "query", !.name = n, !.at = "view"].name = n
        /\ [job EXCEPT !.kind = "query", !.name = n, !.at = "view"].at = "view"
    BY <1>2 DEF SourceJob
  <2>. QED  BY <2>1, <2>2, Zenon
<1>5. Becomes(j, R)
  BY <1>1, <1>2, <1>4 DEF Becomes, SourceTypeOK
<1>6. /\ sjob' \in [AllSourceJobs -> SourceJob] /\ sjob'[j] = R
      /\ \A i \in AllSourceJobs \ {j} : sjob'[i] = sjob[i]
  BY <1>2, <1>5, BecomesPointwise
<1>7. /\ mixed' \in [SourceNames -> BOOLEAN]
      /\ \A m \in SourceNames \ {n} : mixed'[m] = mixed[m]
      /\ ~mixed'[n] => /\ ~mixed[n]
                       /\ \A i \in AllSourceJobs \ {j} : sjob[i].name = n => ~Replaces(sjob[i].kind)
  BY <1>1, <1>2, MeetsFields
<1>8. SourceTypeOK'
  BY <1>1, <1>2, <1>6, <1>7 DEF SourceTypeOK
<1>9. JobShape(sjob'[j])
  BY <1>2, <1>4, <1>6 DEF JobShape
<1>10. sjob[j].name = NoSource
  BY <1>1, <1>2 DEF JobShape
<1>11. ASSUME ~mixed'[n] PROVE (NameInv(n) /\ IndexInv(n) /\ RemovedInv(n))'
  <2>1. NameInv(n) /\ IndexInv(n) /\ RemovedInv(n)
    BY <1>7, <1>11, OrderlyBefore
  <2>2. NameInv(n)'
    BY <1>1, <1>4, <1>6, <1>7, <1>11, <2>1 DEF NameInv, Replaces
  <2>3. /\ \A i \in AllSourceJobs : Early(i, n)' <=> Early(i, n)
        /\ \A i \in AllSourceJobs : Unrecorded(i, n)' <=> Unrecorded(i, n)
    BY <1>2, <1>4, <1>6, <1>10 DEF Early, Unrecorded
  <2>4. IndexInv(n)'
    BY <1>1, <1>4, <1>6, <1>10, <2>1, <2>3 DEF IndexInv
  <2>5. RemovedInv(n)'
    BY <1>1, <1>4, <1>6, <2>1 DEF RemovedInv
  <2>. QED  BY <2>2, <2>4, <2>5
<1>12. Orderly(n)'
  BY <1>11 DEF Orderly
<1>13. sjob[j].name \in {n, NoSource} /\ R.name \in {n, NoSource}
  BY <1>4, <1>10
<1>. QED  BY <1>1, <1>5, <1>7, <1>8, <1>9, <1>12, <1>13, JobStep

LEMMA RemoveBeginStep ==
  ASSUME SourceInv, SourceAssumption, NEW j \in AllSourceJobs, NEW n \in SourceNames, RemoveBegin(j, n)
  PROVE  SourceInv'
<1>1. /\ sjob[j].at = "idle" /\ ledger[n] # 0 /\ jobsBegun' = jobsBegun + 1
      /\ ledger' = [ledger EXCEPT ![n] = 0]
      /\ sjob' = [sjob EXCEPT ![j].kind = "remove", ![j].name = n, ![j].at = "forget",
                              ![j].copy = sfile]
      /\ Meets(j, n, "remove")
      /\ UNCHANGED <<sdocs, atEnd, sfile, gens, sourceCrashes, lostUpdate>>
  BY DEF RemoveBegin, SourceCall
<1>2. /\ SourceTypeOK /\ sjob[j] \in SourceJob /\ n # NoSource
      /\ \A i \in AllSourceJobs : JobShape(sjob[i])
      /\ sfile \in [SourceNames -> SourceStatus]
  BY DEF SourceInv, SourceTypeOK, SourceAssumption
<1>4. PICK R \in SourceJob :
        /\ R = [sjob[j] EXCEPT !.kind = "remove", !.name = n, !.at = "forget", !.copy = sfile]
        /\ R.kind = "remove" /\ R.name = n /\ R.at = "forget" /\ R.copy = sfile
  <2>1. PICK job \in SourceJob : job = sjob[j]
    BY <1>2
  <2>2. /\ [job EXCEPT !.kind = "remove", !.name = n, !.at = "forget", !.copy = sfile] \in SourceJob
        /\ [job EXCEPT !.kind = "remove", !.name = n, !.at = "forget", !.copy = sfile].kind = "remove"
        /\ [job EXCEPT !.kind = "remove", !.name = n, !.at = "forget", !.copy = sfile].name = n
        /\ [job EXCEPT !.kind = "remove", !.name = n, !.at = "forget", !.copy = sfile].at = "forget"
        /\ [job EXCEPT !.kind = "remove", !.name = n, !.at = "forget", !.copy = sfile].copy = sfile
    BY <1>2 DEF SourceJob
  <2>. QED  BY <2>1, <2>2, Zenon
<1>5. Becomes(j, R)
  BY <1>1, <1>2, <1>4 DEF Becomes, SourceTypeOK
<1>6. /\ sjob' \in [AllSourceJobs -> SourceJob] /\ sjob'[j] = R
      /\ \A i \in AllSourceJobs \ {j} : sjob'[i] = sjob[i]
  BY <1>2, <1>5, BecomesPointwise
<1>7. /\ mixed' \in [SourceNames -> BOOLEAN]
      /\ \A m \in SourceNames \ {n} : mixed'[m] = mixed[m]
      /\ ~mixed'[n] => \A i \in AllSourceJobs \ {j} : sjob[i].name # n
  BY <1>1, <1>2, MeetsFields DEF Replaces
<1>8. /\ ledger' \in [SourceNames -> 0 .. MaxGen]
      /\ ledger'[n] = 0 /\ \A m \in SourceNames \ {n} : ledger'[m] = ledger[m]
  BY <1>1, <1>2 DEF SourceTypeOK, SourceAssumption
<1>9. SourceTypeOK'
  BY <1>1, <1>2, <1>6, <1>7, <1>8 DEF SourceTypeOK
<1>10. JobShape(sjob'[j])
  BY <1>2, <1>4, <1>6 DEF JobShape
<1>11. ASSUME ~mixed'[n] PROVE (NameInv(n) /\ IndexInv(n) /\ RemovedInv(n))'
  <2>1. \A i \in AllSourceJobs : sjob'[i].name = n => i = j
    BY <1>6, <1>7, <1>11
  <2>2. NameInv(n)'
    BY <1>4, <1>6, <1>8, <2>1 DEF NameInv
  <2>3. IndexInv(n)'
    BY <1>4, <1>6, <1>8, <2>1 DEF IndexInv
  <2>4. RemovedInv(n)'
    BY <1>1, <1>4, <1>6, <2>1 DEF RemovedInv
  <2>. QED  BY <2>2, <2>3, <2>4
<1>12. Orderly(n)'
  BY <1>11 DEF Orderly
<1>13. sjob[j].name \in {n, NoSource} /\ R.name \in {n, NoSource}
  BY <1>1, <1>2, <1>4 DEF JobShape
<1>. QED  BY <1>1, <1>5, <1>7, <1>8, <1>9, <1>10, <1>12, <1>13, JobStep

\* The loop of spawn_registered_source_backfill is no add: nothing else runs as it.
BootInv == sjob[BootJob].kind # "add"

LEMMA BootResolvesStep ==
  ASSUME SourceInv, BootInv, SourceAssumption, BootResolves
  PROVE  SourceInv'
<1>0. BootJob \in AllSourceJobs
  BY DEF AllSourceJobs
<1>1. /\ SourceTypeOK /\ sjob[BootJob] \in SourceJob
      /\ \A i \in AllSourceJobs : JobShape(sjob[i])
  BY <1>0 DEF SourceInv, SourceTypeOK
<1>2. PICK n \in sjob[BootJob].todo :
        /\ sjob[BootJob].at = "done"
        /\ IF ledger[n] = 0
           THEN EndJob(BootJob) /\ UNCHANGED mixed
           ELSE /\ Becomes(BootJob, BootTakes(n))
                /\ Meets(BootJob, n, "backfill")
        /\ UNCHANGED <<ledger, sdocs, atEnd, sfile, gens, jobsBegun, sourceCrashes, lostUpdate>>
  BY DEF BootResolves, Becomes
<1>3. n \in SourceNames /\ n # NoSource /\ sjob[BootJob].name = NoSource
  BY <1>0, <1>1, <1>2 DEF SourceJob, JobShape, SourceAssumption
<1>4. CASE ledger[n] = 0
  <2>1. PICK R \in SourceJob : R = IdleSourceJob /\ R.at = "idle" /\ R.name = NoSource /\ R.kind = "none"
    BY IdleFields
  <2>2. Becomes(BootJob, R)
    BY <1>2, <1>4, <2>1 DEF EndJob, Becomes
  <2>3. sjob' \in [AllSourceJobs -> SourceJob] /\ sjob'[BootJob] = R
    BY <1>0, <1>1, <2>2, BecomesPointwise
  <2>4. SourceTypeOK'
    BY <1>1, <1>2, <1>4, <2>3 DEF SourceTypeOK
  <2>5. JobShape(sjob'[BootJob])
    BY <2>1, <2>3 DEF JobShape
  <2>6. NoSource \in SourceNames \cup {NoSource} /\ NoSource \notin SourceNames
    BY DEF SourceAssumption
  <2>. QED  BY <1>0, <1>2, <1>3, <1>4, <2>1, <2>2, <2>4, <2>5, <2>6, JobStep
<1>5. CASE ledger[n] # 0
  <2>1. PICK job \in SourceJob : job = sjob[BootJob]
    BY <1>1
  <2>2. PICK g \in 0 .. MaxGen : g = ledger[n]
    BY <1>1, <1>3 DEF SourceTypeOK
  <2>3. /\ [job EXCEPT !.name = n, !.gen = g, !.todo = job.todo \ {n}] \in SourceJob
        /\ [job EXCEPT !.name = n, !.gen = g, !.todo = job.todo \ {n}].kind = job.kind
        /\ [job EXCEPT !.name = n, !.gen = g, !.todo = job.todo \ {n}].name = n
        /\ [job EXCEPT !.name = n, !.gen = g, !.todo = job.todo \ {n}].gen = g
    BY <1>3 DEF SourceJob
  <2>4. PICK Q \in SourceJob :
          /\ Q = [job EXCEPT !.name = n, !.gen = g, !.todo = job.todo \ {n}]
          /\ Q.kind = job.kind /\ Q.name = n /\ Q.gen = g
    BY <2>3, Zenon
  <2>6. PICK R \in SourceJob :
          /\ R = Recording(Q, "Queued", "bootCheck")
          /\ R.kind = Q.kind /\ R.at = "save" /\ R.name = Q.name /\ R.gen = Q.gen
          /\ R.status = "Queued" /\ R.then = "bootCheck"
    <3>1. "Queued" \in SourceStatus
      BY DEF SourceStatus
    <3>. QED  BY <1>1, <3>1, RecordingFields
  <2>7. Becomes(BootJob, R)
    <3>1. BootTakes(n) = R
      BY <2>1, <2>2, <2>4, <2>6 DEF BootTakes
    <3>. QED  BY <1>2, <1>5, <3>1
  <2>8. /\ sjob' \in [AllSourceJobs -> SourceJob] /\ sjob'[BootJob] = R
        /\ \A i \in AllSourceJobs \ {BootJob} : sjob'[i] = sjob[i]
    BY <1>0, <1>1, <2>7, BecomesPointwise
  <2>9. /\ mixed' \in [SourceNames -> BOOLEAN]
        /\ \A m \in SourceNames \ {n} : mixed'[m] = mixed[m]
        /\ ~mixed'[n] => /\ ~mixed[n]
                         /\ \A i \in AllSourceJobs \ {BootJob} :
                              sjob[i].name = n => ~Replaces(sjob[i].kind)
    <3>1. Meets(BootJob, n, "backfill") /\ "backfill" # "add"
      BY <1>2, <1>5
    <3>. QED  BY ONLY <1>0, <1>1, <1>3, <3>1, SourceAssumption, MeetsFields
  <2>10. SourceTypeOK'
    BY <1>1, <1>2, <2>8, <2>9 DEF SourceTypeOK
  <2>11. R.kind \notin {"add", "remove"}
    BY <1>0, <1>1, <1>2, <2>1, <2>4, <2>6 DEF BootInv, JobShape
  <2>12. JobShape(sjob'[BootJob])
    BY <1>3, <2>4, <2>6, <2>8, <2>11 DEF JobShape
  <2>13. ASSUME ~mixed'[n] PROVE (NameInv(n) /\ IndexInv(n) /\ RemovedInv(n))'
    <3>1. NameInv(n) /\ IndexInv(n) /\ RemovedInv(n)
      BY <1>3, <2>9, <2>13, OrderlyBefore
    <3>2. NameInv(n)'
      BY <1>2, <1>5, <2>2, <2>4, <2>6, <2>8, <2>9, <2>11, <2>13, <3>1 DEF NameInv, Replaces
    <3>3. /\ \A i \in AllSourceJobs : Early(i, n)' <=> Early(i, n)
          /\ \A i \in AllSourceJobs : Unrecorded(i, n)' <=> Unrecorded(i, n)
      BY <1>3, <2>6, <2>8, <2>11 DEF Early, Unrecorded
    <3>4. IndexInv(n)'
      BY <1>2, <2>6, <2>8, <3>1, <3>3 DEF IndexInv
    <3>5. RemovedInv(n)'
      BY <1>2, <1>5, <2>6, <2>8, <3>1 DEF RemovedInv
    <3>. QED  BY <3>2, <3>4, <3>5
  <2>14. Orderly(n)'
    BY <2>13 DEF Orderly
  <2>15. sjob[BootJob].name \in {n, NoSource} /\ R.name \in {n, NoSource}
    BY <1>3, <2>4, <2>6
  <2>. QED  BY <1>0, <1>2, <1>3, <2>7, <2>9, <2>10, <2>12, <2>14, <2>15, JobStep
<1>. QED  BY <1>4, <1>5

\* A job between two names: the list at the start, and the end of a job.
LEMMA IdleStep ==
  ASSUME SourceInv, SourceAssumption, NEW j \in AllSourceJobs, NEW R \in SourceJob, Becomes(j, R),
         sjob[j].name = NoSource, R.name = NoSource, JobShape(R),
         UNCHANGED <<ledger, sdocs, atEnd, sfile, gens, jobsBegun, sourceCrashes, mixed, lostUpdate>>
  PROVE  SourceInv'
<1>1. SourceTypeOK
  BY DEF SourceInv
<1>2. sjob' \in [AllSourceJobs -> SourceJob] /\ sjob'[j] = R
  BY <1>1, BecomesPointwise
<1>3. SourceTypeOK'
  BY <1>1, <1>2 DEF SourceTypeOK
<1>4. JobShape(sjob'[j])
  BY <1>2
<1>5. NoSource \in SourceNames \cup {NoSource} /\ NoSource \notin SourceNames
  BY DEF SourceAssumption
<1>. QED  BY <1>3, <1>4, <1>5, JobStep

LEMMA BootListsStep ==
  ASSUME SourceInv, SourceAssumption, BootLists
  PROVE  SourceInv'
<1>1. BootJob \in AllSourceJobs /\ sjob[BootJob] \in SourceJob /\ JobShape(sjob[BootJob])
  BY DEF AllSourceJobs, SourceInv, SourceTypeOK
<1>2. PICK job \in SourceJob : job = sjob[BootJob]
  BY <1>1
<1>3. PICK T \in SUBSET SourceNames : T = {n \in SourceNames : ledger[n] # 0}
  OBVIOUS
<1>4. /\ [job EXCEPT !.at = "done", !.todo = T] \in SourceJob
      /\ [job EXCEPT !.at = "done", !.todo = T].kind = job.kind
      /\ [job EXCEPT !.at = "done", !.todo = T].at = "done"
      /\ [job EXCEPT !.at = "done", !.todo = T].name = job.name
  BY DEF SourceJob
<1>5. PICK R \in SourceJob :
        /\ R = [job EXCEPT !.at = "done", !.todo = T]
        /\ R.kind = job.kind /\ R.at = "done" /\ R.name = job.name
  BY <1>4, Zenon
<1>6. Becomes(BootJob, R)
  BY <1>1, <1>2, <1>3, <1>5 DEF BootLists, Becomes, SourceInv, SourceTypeOK
<1>7. sjob[BootJob].name = NoSource /\ R.name = NoSource /\ JobShape(R)
  BY <1>1, <1>2, <1>5 DEF BootLists, JobShape
<1>. QED  BY <1>1, <1>6, <1>7, IdleStep DEF BootLists

LEMMA JobEndsStep ==
  ASSUME SourceInv, SourceAssumption, NEW j \in AllSourceJobs, JobEnds(j)
  PROVE  SourceInv'
<1>1. PICK R \in SourceJob : R = IdleSourceJob /\ R.at = "idle" /\ R.name = NoSource /\ R.kind = "none"
  BY IdleFields
<1>2. Becomes(j, R)
  BY <1>1 DEF JobEnds, EndJob, Becomes
<1>3. sjob[j].name = NoSource /\ JobShape(R)
  BY <1>1 DEF JobEnds, SourceInv, JobShape
<1>. QED  BY <1>1, <1>2, <1>3, IdleStep DEF JobEnds

(***************************************************************************)
(* remove_source: the state entry goes first, the documents last.          *)
(***************************************************************************)
LEMMA ForgetStep ==
  ASSUME SourceInv, SourceAssumption, NEW j \in AllSourceJobs, remove_index_state(j)
  PROVE  SourceInv'
<1>1. sjob[j].at = "forget" /\ GoTo(j, "purge")
  BY DEF remove_index_state
<1>2. /\ SourceTypeOK /\ sjob[j] \in SourceJob
      /\ \A i \in AllSourceJobs : JobShape(sjob[i])
  BY <1>1, AtWork
<1>3. "purge" = "purge" <=> sjob[j].kind = "remove"
  BY <1>1, <1>2 DEF JobShape
<1>4. PICK n \in SourceNames, R \in SourceJob :
        /\ OwnMove(j, n, R)
        /\ R.kind = sjob[j].kind /\ R.at = "purge" /\ R.name = n /\ R.gen = sjob[j].gen
  BY <1>1, <1>3, GoMove
<1>5. /\ n = sjob[j].name
      /\ UNCHANGED <<ledger, sdocs, atEnd, gens, jobsBegun, sourceCrashes, mixed>>
      /\ \/ sjob[j].copy[sjob[j].name] = "none" /\ UNCHANGED <<sfile, lostUpdate>>
         \/ /\ sfile' = [sjob[j].copy EXCEPT ![sjob[j].name] = "none"]
            /\ lostUpdate' = [m \in SourceNames |->
                   m # sjob[j].name /\ (lostUpdate[m] \/ sjob[j].copy[m] # sfile[m])]
  <2>1. n = sjob[j].name
    BY <1>4 DEF OwnMove
  <2>2. /\ UNCHANGED <<ledger, sdocs, atEnd, gens, jobsBegun, sourceCrashes, mixed>>
        /\ \/ sjob[j].copy[sjob[j].name] = "none" /\ UNCHANGED <<sfile, lostUpdate>>
           \/ /\ sfile' = [sjob[j].copy EXCEPT ![sjob[j].name] = "none"]
              /\ lostUpdate' = [m \in SourceNames |->
                     m # sjob[j].name /\ (lostUpdate[m] \/ sjob[j].copy[m] # sfile[m])]
    BY Zenon DEF remove_index_state
  <2>. QED  BY <2>1, <2>2
<1>6. /\ sfile' \in [SourceNames -> SourceStatus] /\ lostUpdate' \in [SourceNames -> BOOLEAN]
      /\ \/ sjob[j].copy[n] = "none" /\ UNCHANGED <<sfile, lostUpdate>>
         \/ sfile'[n] = "none"
      /\ \A m \in SourceNames \ {n} :
           lostUpdate'[m] \/ (sfile'[m] = sfile[m] /\ lostUpdate'[m] = lostUpdate[m])
  <2>1. PICK copy \in [SourceNames -> SourceStatus] : copy = sjob[j].copy
    BY <1>2 DEF SourceJob
  <2>2. \/ copy[n] = "none" /\ UNCHANGED <<sfile, lostUpdate>>
        \/ /\ sfile' = [copy EXCEPT ![n] = "none"]
           /\ lostUpdate' = [m \in SourceNames |-> m # n /\ (lostUpdate[m] \/ copy[m] # sfile[m])]
    BY <1>5, <2>1
  <2>3. /\ sfile' \in [SourceNames -> SourceStatus] /\ lostUpdate' \in [SourceNames -> BOOLEAN]
        /\ (copy[n] = "none" /\ UNCHANGED <<sfile, lostUpdate>>) \/ sfile'[n] = "none"
        /\ \A m \in SourceNames \ {n} :
             lostUpdate'[m] \/ (sfile'[m] = sfile[m] /\ lostUpdate'[m] = lostUpdate[m])
    BY <1>2, <2>2 DEF SourceTypeOK, SourceStatus
  <2>. QED  BY <2>1, <2>3
<1>7. sjob' \in [AllSourceJobs -> SourceJob]
  BY <1>2, <1>4, BecomesPointwise DEF OwnMove
<1>8. SourceTypeOK'
  BY <1>2, <1>5, <1>6, <1>7 DEF SourceTypeOK
<1>9. JobShape(sjob'[j])
  BY <1>4 DEF OwnMove
<1>10. ASSUME ~mixed[n] PROVE (NameInv(n) /\ IndexInv(n) /\ RemovedInv(n))'
  <2>1. NameInv(n) /\ IndexInv(n) /\ RemovedInv(n)
    BY <1>10, OrderlyBefore
  <2>2. NameInv(n)'
    BY <1>4, <1>5, <2>1 DEF OwnMove, NameInv, Replaces
  <2>3. /\ ledger'[n] = 0
        /\ \A i \in AllSourceJobs : sjob'[i].name = n => i = j
    BY <1>3, <1>4, <1>5, <2>1 DEF OwnMove, NameInv, Replaces
  <2>4. IndexInv(n)'
    BY <1>4, <2>3 DEF OwnMove, IndexInv
  <2>5. sfile'[n] = "none" \/ lostUpdate'[n]
    BY <1>1, <1>4, <1>6, <2>1 DEF OwnMove, RemovedInv
  <2>6. RemovedInv(n)'
    BY <1>4, <2>3, <2>5 DEF OwnMove, RemovedInv
  <2>. QED  BY <2>2, <2>4, <2>6
<1>11. Orderly(n)'
  BY <1>5, <1>10 DEF Orderly
<1>12. sjob[j].name \in {n, NoSource} /\ R.name \in {n, NoSource} /\ Becomes(j, R)
  BY <1>4 DEF OwnMove
<1>. QED  BY <1>5, <1>6, <1>8, <1>9, <1>11, <1>12, JobStep

LEMMA PurgeStep ==
  ASSUME SourceInv, SourceAssumption, NEW j \in AllSourceJobs, RemovePurges(j)
  PROVE  SourceInv'
<1>1. /\ sjob[j].at = "purge" /\ delete_source_run(sjob[j].name) /\ EndJob(j)
      /\ UNCHANGED <<ledger, sfile, gens, jobsBegun, sourceCrashes, mixed, lostUpdate>>
  BY DEF RemovePurges
<1>2. PICK n \in SourceNames, R \in SourceJob :
        OwnMove(j, n, R) /\ R.at = "idle" /\ R.name = NoSource
  BY <1>1, EndMove
<1>3. /\ SourceTypeOK /\ n # NoSource
      /\ \A i \in AllSourceJobs : JobShape(sjob[i])
  BY DEF SourceInv, SourceAssumption
<1>4. /\ sdocs' \in [SourceNames -> SUBSET (0 .. MaxGen)] /\ atEnd' \in [SourceNames -> BOOLEAN]
      /\ sdocs'[n] = {} /\ ~atEnd'[n]
      /\ \A m \in SourceNames \ {n} : sdocs'[m] = sdocs[m] /\ atEnd'[m] = atEnd[m]
  BY <1>1, <1>2, <1>3, DeleteFields DEF OwnMove
<1>5. ASSUME ~mixed[n] PROVE (NameInv(n) /\ IndexInv(n) /\ RemovedInv(n))'
  <2>1. NameInv(n) /\ IndexInv(n) /\ RemovedInv(n)
    BY <1>5, OrderlyBefore
  <2>2. /\ ledger'[n] = 0
        /\ \A i \in AllSourceJobs : sjob'[i].name # n
    BY <1>1, <1>2, <1>3, <2>1 DEF OwnMove, NameInv, Replaces, JobShape
  <2>3. sfile'[n] = "none" \/ lostUpdate'[n]
    BY <1>1, <1>2, <2>1 DEF OwnMove, RemovedInv
  <2>. QED  BY <1>4, <2>2, <2>3 DEF NameInv, IndexInv, RemovedInv
<1>. QED  BY <1>1, <1>2, <1>4, <1>5, OwnStep DEF OwnMove

(***************************************************************************)
(* A restart ends every job; one that replaced a registration leaves the   *)
(* name mixed, and after the others the index is as the cursor says.       *)
(***************************************************************************)
LEMMA RestartStep ==
  ASSUME SourceInv, SourceAssumption, SourcesRestart
  PROVE  SourceInv'
<1>1. /\ sourceCrashes' = sourceCrashes + 1
      /\ mixed' = [n \in SourceNames |-> mixed[n]
                     \/ \E j \in AllSourceJobs : Engages(j, n) /\ Replaces(sjob[j].kind)]
      /\ sjob' = [j \in AllSourceJobs |-> IF j = BootJob THEN Starting ELSE IdleSourceJob]
      /\ UNCHANGED <<ledger, sdocs, atEnd, sfile, gens, jobsBegun, lostUpdate>>
  BY DEF SourcesRestart
<1>2. SourceTypeOK /\ \A i \in AllSourceJobs : JobShape(sjob[i])
  BY DEF SourceInv
<1>3. /\ sjob' \in [AllSourceJobs -> SourceJob]
      /\ \A i \in AllSourceJobs :
           /\ sjob'[i].kind \in {"none", "startup"} /\ sjob'[i].at \in {"idle", "wait"}
           /\ sjob'[i].name = NoSource
  BY <1>1, IdleFields
<1>4. SourceTypeOK'
  BY <1>1, <1>2, <1>3 DEF SourceTypeOK
<1>5. \A i \in AllSourceJobs : JobShape(sjob'[i])
  BY <1>3 DEF JobShape
<1>6. ASSUME NEW n \in SourceNames, ~mixed'[n] PROVE (NameInv(n) /\ IndexInv(n) /\ RemovedInv(n))'
  <2>1. n # NoSource
    BY DEF SourceAssumption
  <2>2. ~mixed[n] /\ \A j \in AllSourceJobs : ~(Engages(j, n) /\ Replaces(sjob[j].kind))
    BY <1>1, <1>6
  <2>3. NameInv(n) /\ IndexInv(n) /\ RemovedInv(n)
    BY <2>2, OrderlyBefore
  <2>4. \A j \in AllSourceJobs : sjob[j].name = n => ~Replaces(sjob[j].kind)
    BY <1>2, <2>1, <2>2 DEF Engages, JobShape
  <2>5. \A j \in AllSourceJobs : ~Early(j, n) /\ ~Unrecorded(j, n)
    BY <1>2, <2>4 DEF Early, Unrecorded, Replaces, JobShape
  <2>6. \A j \in AllSourceJobs : sjob[j].name = n => ledger[n] # 0
    BY <2>3, <2>4 DEF NameInv, Replaces
  <2>7. NameInv(n)'
    BY <1>3, <2>1 DEF NameInv
  <2>8. IndexInv(n)'
    BY <1>1, <1>3, <2>1, <2>3, <2>5 DEF IndexInv
  <2>9. RemovedInv(n)'
    BY <1>1, <1>3, <2>1, <2>3, <2>6 DEF RemovedInv
  <2>. QED  BY <2>7, <2>8, <2>9
<1>. QED  BY <1>4, <1>5, <1>6 DEF SourceInv, Orderly

LEMMA SourceInitInv ==
  ASSUME SourceAssumption, SourceInit
  PROVE  SourceInv /\ BootInv
<1>1. PICK known \in SUBSET SourceNames :
         /\ ledger = [n \in SourceNames |-> IF n \in known THEN 1 ELSE 0]
         /\ gens = ledger
         /\ sdocs = [n \in SourceNames |-> IF n \in known THEN Documents(n, 1) ELSE {}]
         /\ atEnd = [n \in SourceNames |-> n \in known]
         /\ sfile = [n \in SourceNames |-> IF n \in known THEN "Current" ELSE "none"]
  BY DEF SourceInit
<1>2. /\ sjob = [j \in AllSourceJobs |-> IF j = BootJob THEN Starting ELSE IdleSourceJob]
      /\ jobsBegun = 0 /\ sourceCrashes = 0
      /\ mixed = [n \in SourceNames |-> FALSE]
      /\ lostUpdate = [n \in SourceNames |-> FALSE]
  BY DEF SourceInit
<1>3. /\ sjob \in [AllSourceJobs -> SourceJob]
      /\ \A i \in AllSourceJobs :
           /\ sjob[i].kind \in {"none", "startup"} /\ sjob[i].at \in {"idle", "wait"}
           /\ sjob[i].name = NoSource
  BY <1>2, IdleFields
<1>4. \A n \in SourceNames : Documents(n, 1) \in SUBSET (0 .. MaxGen)
  BY DEF Documents, SourceAssumption
<1>5. ledger \in [SourceNames -> 0 .. MaxGen] /\ gens \in [SourceNames -> 0 .. MaxGen]
  BY <1>1 DEF SourceAssumption
<1>6. sdocs \in [SourceNames -> SUBSET (0 .. MaxGen)]
  BY <1>1, <1>4
<1>7. atEnd \in [SourceNames -> BOOLEAN] /\ sfile \in [SourceNames -> SourceStatus]
  BY <1>1 DEF SourceStatus
<1>8. SourceTypeOK
  BY <1>2, <1>3, <1>5, <1>6, <1>7 DEF SourceTypeOK
<1>9. \A i \in AllSourceJobs : JobShape(sjob[i])
  BY <1>3 DEF JobShape
<1>10. ASSUME NEW n \in SourceNames PROVE NameInv(n) /\ IndexInv(n) /\ RemovedInv(n)
  <2>1. n # NoSource
    BY DEF SourceAssumption
  <2>2. \/ ledger[n] = 1 /\ sdocs[n] = Documents(n, 1) /\ atEnd[n]
        \/ ledger[n] = 0 /\ sdocs[n] = {} /\ sfile[n] = "none"
    BY <1>1
  <2>3. NameInv(n)
    BY <1>3, <2>1 DEF NameInv
  <2>4. IndexInv(n)
    BY <1>3, <2>1, <2>2 DEF IndexInv
  <2>5. RemovedInv(n)
    BY <1>3, <2>1, <2>2 DEF RemovedInv
  <2>. QED  BY <2>3, <2>4, <2>5
<1>11. BootInv
  BY <1>3 DEF BootInv, AllSourceJobs
<1>. QED  BY <1>8, <1>9, <1>10, <1>11 DEF SourceInv, Orderly

(***************************************************************************)
(* Every step of the specification.                                        *)
(***************************************************************************)
LEMMA BootStep ==
  ASSUME SourceInv, BootInv, SourceAssumption, SourceNext
  PROVE  BootInv'
<1>0. /\ SourceTypeOK /\ BootJob \in AllSourceJobs /\ SourceJobs \subseteq AllSourceJobs
      /\ BootJob \notin SourceJobs /\ sjob[BootJob] \in SourceJob
  BY DEF SourceInv, AllSourceJobs, SourceAssumption, SourceTypeOK
<1>1. ASSUME NEW j \in SourceJobs, NEW R, Becomes(j, R) PROVE BootInv'
  BY <1>0, <1>1 DEF Becomes, BootInv, SourceTypeOK
<1>2. ASSUME NEW j \in AllSourceJobs, NEW R, Becomes(j, R), R.kind # "add" \/ R.kind = sjob[j].kind
      PROVE  BootInv'
  BY <1>0, <1>2 DEF Becomes, BootInv, SourceTypeOK
<1>3. \A j \in SourceJobs, n \in SourceNames :
        AddBegin(j, n) \/ ViewBegin(j, n) \/ RemoveBegin(j, n) => sjob'[BootJob] = sjob[BootJob]
  BY <1>0 DEF AddBegin, ViewBegin, RemoveBegin, SourceTypeOK
<1>4. ASSUME NEW j \in SourceJobs,
             \/ AddResolve(j) \/ replace_source_index(j) \/ AddClears(j)
             \/ spawn_source_backfill(j) \/ source_logs_view(j) \/ remove_source(j)
      PROVE  \E R : Becomes(j, R)
  <2>1. ASSUME NEW at, GoTo(j, at) PROVE \E R : Becomes(j, R)
    BY <2>1 DEF GoTo, Becomes
  <2>2. ASSUME NEW status, NEW then, Record(j, status, then) PROVE \E R : Becomes(j, R)
    BY <2>2, Zenon DEF Record, Becomes
  <2>3. EndJob(j) \/ Spawns(j) => \E R : Becomes(j, R)
    BY Zenon DEF EndJob, Spawns, Becomes
  <2>4. ASSUME NEW at, NEW nexts, resolve_log_sources(j, at, nexts) PROVE \E R : Becomes(j, R)
    BY <2>3, <2>4, Zenon DEF resolve_log_sources, Becomes
  <2>5. CASE AddResolve(j) \/ ViewResolve(j)
    BY <2>4, <2>5, Zenon DEF AddResolve, ViewResolve
  <2>6. CASE replace_source_index(j) \/ AddClears(j) \/ RemovePurges(j) \/ remove_index_state(j)
    BY <2>1, <2>3, <2>6, Zenon DEF replace_source_index, AddClears, RemovePurges, remove_index_state
  <2>7. CASE BackfillWakes(j) \/ BackfillChecks(j)
    BY <2>1, <2>2, <2>7, Zenon DEF BackfillWakes, BackfillChecks
  <2>8. CASE WarmUp(j) \/ Viewed(j)
    BY <2>1, <2>3, <2>8, Zenon DEF WarmUp, Viewed
  <2>. QED  BY <1>4, <2>5, <2>6, <2>7, <2>8, Zenon
            DEF spawn_source_backfill, source_logs_view, remove_source
<1>5. IdleSourceJob.kind # "add" /\ Starting.kind # "add"
  BY IdleFields
<1>6. ASSUME NEW job \in SourceJob, NEW status \in SourceStatus,
             NEW then \in {"idle", "delete", "spawned", "check", "bootCheck", "ingest", "done"}
      PROVE  Recording(job, status, then).kind = job.kind
  BY DEF Recording, SourceJob
<1>7. ASSUME NEW j \in AllSourceJobs,
             set_index_state(j) \/ IngestSucceeds(j) \/ IngestFails(j) \/ JobEnds(j)
      PROVE  BootInv'
  <2>1. sjob[j] \in SourceJob
    BY <1>0 DEF SourceTypeOK
  <2>2. CASE set_index_state(j)
    <3>1. Becomes(j, Saved(sjob[j]))
      BY <2>2 DEF set_index_state, Becomes
    <3>2. Saved(sjob[j]).kind # "add" \/ Saved(sjob[j]).kind = sjob[j].kind
      BY DEF Saved
    <3>. QED  BY <1>2, <3>1, <3>2
  <2>3. CASE EndJob(j)
    BY <1>2, <1>5, <2>3 DEF EndJob, Becomes
  <2>4. ASSUME NEW status \in SourceStatus, Record(j, status, "done") PROVE BootInv'
    <3>1. Becomes(j, Recording(sjob[j], status, "done"))
      BY <2>4 DEF Record, Becomes
    <3>. QED  BY <1>2, <1>6, <2>1, <3>1
  <2>5. "Current" \in SourceStatus /\ "Error" \in SourceStatus
    BY DEF SourceStatus
  <2>. QED  BY <1>7, <2>2, <2>3, <2>4, <2>5 DEF IngestSucceeds, IngestFails, JobEnds
<1>8. CASE spawn_registered_source_backfill
  <2>1. CASE BootLists
    BY <1>0, <2>1 DEF BootLists, BootInv, SourceTypeOK, SourceJob
  <2>2. CASE BootResolves
    <3>1. EndJob(BootJob) \/ \E n \in sjob[BootJob].todo : Becomes(BootJob, BootTakes(n))
      BY <2>2 DEF BootResolves, Becomes
    <3>2. CASE EndJob(BootJob)
      BY <1>0, <1>2, <1>5, <3>2 DEF EndJob, Becomes
    <3>3. ASSUME NEW n \in sjob[BootJob].todo, Becomes(BootJob, BootTakes(n)) PROVE BootInv'
      <4>1. BootTakes(n).kind = sjob[BootJob].kind
        BY <1>0 DEF BootTakes, Recording, SourceJob
      <4>. QED  BY <1>0, <1>2, <3>3, <4>1
    <3>. QED  BY <3>1, <3>2, <3>3
  <2>3. CASE BootChecks
    <3>1. "Current" \in SourceStatus /\ "Indexing" \in SourceStatus
      BY DEF SourceStatus
    <3>2. \/ Becomes(BootJob, Recording(sjob[BootJob], "Current", "done"))
          \/ Becomes(BootJob, Recording(sjob[BootJob], "Indexing", "ingest"))
      BY <2>3 DEF BootChecks, Record, Becomes
    <3>. QED  BY <1>0, <1>2, <1>6, <3>1, <3>2
  <2>. QED  BY <1>8, <2>1, <2>2, <2>3 DEF spawn_registered_source_backfill
<1>9. CASE SourcesRestart
  <2>1. sjob'[BootJob] = Starting
    BY <1>0, <1>9 DEF SourcesRestart
  <2>. QED  BY <1>5, <2>1 DEF BootInv
<1>10. ASSUME NEW j \in SourceJobs, NEW n \in SourceNames,
              AddBegin(j, n) \/ ViewBegin(j, n) \/ RemoveBegin(j, n)
       PROVE  BootInv'
  BY <1>3, <1>10 DEF BootInv
<1>11. ASSUME NEW j \in SourceJobs,
              \/ AddResolve(j) \/ replace_source_index(j) \/ AddClears(j)
              \/ spawn_source_backfill(j) \/ source_logs_view(j) \/ remove_source(j)
       PROVE  BootInv'
  <2>1. PICK R : Becomes(j, R)
    BY <1>4, <1>11
  <2>. QED  BY <1>1, <2>1
<1>. QED  BY <1>7, <1>8, <1>9, <1>10, <1>11 DEF SourceNext

LEMMA SourceStep ==
  ASSUME SourceInv, BootInv, SourceAssumption, SourceNext
  PROVE  SourceInv'
<1>0. BootJob \in AllSourceJobs /\ SourceJobs \subseteq AllSourceJobs
  BY DEF AllSourceJobs
<1>1. ASSUME NEW j \in SourceJobs, NEW n \in SourceNames,
             AddBegin(j, n) \/ ViewBegin(j, n) \/ RemoveBegin(j, n)
      PROVE  SourceInv'
  BY <1>0, <1>1, AddBeginStep, ViewBeginStep, RemoveBeginStep
<1>2. ASSUME NEW j \in AllSourceJobs,
             \/ AddResolve(j) \/ replace_source_index(j) \/ AddClears(j)
             \/ spawn_source_backfill(j) \/ source_logs_view(j) \/ remove_source(j)
      PROVE  SourceInv'
  <2>1. CASE AddResolve(j) \/ replace_source_index(j) \/ AddClears(j)
    BY <2>1, AddResolveStep, ReplaceStep, ClearsStep
  <2>2. CASE BackfillWakes(j)
    BY <2>2, WakeStep DEF BackfillWakes
  <2>3. CASE BackfillChecks(j)
    BY <2>3, CurrentStep, CheckedStep DEF BackfillChecks
  <2>4. CASE ViewResolve(j) \/ WarmUp(j)
    BY <2>4, ViewResolveStep, WarmStep
  <2>5. CASE Viewed(j)
    BY <2>5, EndStep, QueuedStep DEF Viewed
  <2>6. CASE remove_source(j)
    BY <2>6, ForgetStep, PurgeStep DEF remove_source
  <2>. QED  BY <1>2, <2>1, <2>2, <2>3, <2>4, <2>5, <2>6 DEF spawn_source_backfill, source_logs_view
<1>3. ASSUME NEW j \in AllSourceJobs,
             set_index_state(j) \/ IngestSucceeds(j) \/ IngestFails(j) \/ JobEnds(j)
      PROVE  SourceInv'
  <2>1. CASE IngestFails(j)
    BY <2>1, ErrorStep, EndStep DEF IngestFails
  <2>. QED  BY <1>3, <2>1, SaveStep, IngestStep, JobEndsStep
<1>4. CASE spawn_registered_source_backfill
  <2>1. CASE BootChecks
    BY <1>0, <2>1, CurrentStep, IndexingStep DEF BootChecks
  <2>. QED  BY <1>4, <2>1, BootListsStep, BootResolvesStep DEF spawn_registered_source_backfill
<1>5. CASE SourcesRestart
  BY <1>5, RestartStep
<1>. QED  BY <1>0, <1>1, <1>2, <1>3, <1>4, <1>5 DEF SourceNext

LEMMA SourceStutter ==
  ASSUME SourceInv, BootInv, UNCHANGED sourceVars
  PROVE  SourceInv' /\ BootInv'
BY DEF SourceInv, BootInv, sourceVars, SourceTypeOK, JobShape, Orderly, NameInv, IndexInv, RemovedInv,
       Early, Unrecorded

\* What the jobs do to the ledger, the index and the state file keeps the
\* inductive invariant, whatever the jobs interleave and wherever a daemon dies.
THEOREM SourcesInOrder == SourceSpec => [](SourceInv /\ BootInv)
<1>1. SourceInit => SourceInv /\ BootInv
  BY SourceAssumption, SourceInitInv
<1>2. SourceInv /\ BootInv /\ [SourceNext]_sourceVars => (SourceInv /\ BootInv)'
  BY SourceAssumption, SourceStep, BootStep, SourceStutter
<1>. QED  BY <1>1, <1>2, PTL DEF SourceSpec

LEMMA SettledNames ==
  ASSUME SourceInv, NEW n \in SourceNames, n # NoSource, Settled(n)
  PROVE  \A j \in AllSourceJobs : sjob[j].name # n
BY DEF Settled, Engages, SourceInv, JobShape

\* add_source, the backfills, the queries and the start-up loop: a settled source
\* whose recorded status is Current has exactly the documents of its registration.
THEOREM CurrentSourceIsIndexed == SourceSpec => []CurrentIsIndexed
<1>1. SourceInv => CurrentIsIndexed
  <2>. SUFFICES ASSUME SourceInv, NEW n \in SourceNames, Settled(n), ledger[n] # 0,
                       sfile[n] = "Current", ~mixed[n], ~lostUpdate[n]
                PROVE  sdocs[n] = Documents(n, ledger[n])
    BY DEF CurrentIsIndexed
  <2>1. \A j \in AllSourceJobs : sjob[j].name # n
    BY SettledNames, SourceAssumption DEF SourceAssumption
  <2>2. IndexInv(n)
    BY OrderlyBefore
  <2>. QED  BY <2>1, <2>2 DEF IndexInv, Early, Unrecorded
<1>. QED  BY <1>1, SourcesInOrder, PTL

\* remove_source: neither documents nor a status of a source that is no longer
\* registered remain, unless another job met the removal or a stale save undid it.
THEOREM RemovedSourceIsForgotten == SourceSpec => []RemovedIsForgotten
<1>1. SourceInv => RemovedIsForgotten
  <2>. SUFFICES ASSUME SourceInv, NEW n \in SourceNames, Settled(n), ledger[n] = 0, ~mixed[n]
                PROVE  sdocs[n] = {} /\ (sfile[n] = "none" \/ lostUpdate[n])
    BY DEF RemovedIsForgotten
  <2>1. \A j \in AllSourceJobs : sjob[j].name # n
    BY SettledNames, SourceAssumption DEF SourceAssumption
  <2>2. RemovedInv(n)
    BY OrderlyBefore
  <2>. QED  BY <2>1, <2>2 DEF RemovedInv
<1>. QED  BY <1>1, SourcesInOrder, PTL

-----------------------------------------------------------------------------
(***************************************************************************)
(* Globals.  A global is in order as long as no two calls met on it: its   *)
(* record, its manifest, its unit and the call on it name one port.        *)
(***************************************************************************)
CallShape(r) == r.at \in {"idle", "load"} <=> r.name = NoName

OneCall(g) == \A c, d \in GlobalCalls : gcall[c].name = g /\ gcall[d].name = g => c = d

PortsAgree(g) ==
    /\ grec[g].present /\ gman[g].present => grec[g].port = gman[g].port
    /\ gunit[g].port # NoPort /\ gman[g].present => gunit[g].port = gman[g].port
    /\ gman[g].present => gman[g].port # NoPort
    /\ gunit[g].active => gunit[g].port # NoPort
    /\ g \in FixedGlobals => /\ gman[g].present => gman[g].port = FixedPort[g]
                             /\ gunit[g].port \in {NoPort, FixedPort[g]}

\* A record or a unit that the manifest does not show yet is the work of a call.
Accounted(g) ==
    /\ grec[g].present => \/ gman[g].present
                          \/ \E c \in GlobalCalls : gcall[c].name = g /\ gcall[c].at = "persist"
    /\ gunit[g].port # NoPort => gman[g].present \/ \E c \in GlobalCalls : Engaged(c, g)
    /\ grest[g] # "idle" \/ gwait[g] => grec[g].present

CallAgrees(c, g) ==
    /\ gcall[c].at = "status" => /\ gcall[c].existing.present = gman[g].present
                                 /\ gcall[c].existing.port = gman[g].port
    /\ gcall[c].at # "status" =>
         /\ gcall[c].port # NoPort
         /\ gman[g].present => gcall[c].port = gman[g].port
         /\ gunit[g].port # NoPort => gcall[c].port = gunit[g].port
         /\ g \in FixedGlobals => gcall[c].port = FixedPort[g]
         /\ gcall[c].at = "persist" => grec[g].present /\ grec[g].port = gcall[c].port

InOrder(g) ==
    /\ OneCall(g) /\ PortsAgree(g) /\ Accounted(g)
    /\ \A c \in GlobalCalls : gcall[c].name = g => CallAgrees(c, g)

GlobalInv ==
    /\ GlobalTypeOK
    /\ \A c \in GlobalCalls : CallShape(gcall[c])
    /\ \A g \in GlobalNames : ~graced[g] => InOrder(g)

-----------------------------------------------------------------------------
LEMMA NoCallFields ==
  ASSUME GlobalAssumption
  PROVE  /\ NoGlobal \in GlobalRec /\ NoUnit \in GlobalUnit /\ NoCall \in GlobalCall
         /\ ~NoGlobal.present /\ NoGlobal.port = NoPort
         /\ ~NoUnit.active /\ NoUnit.port = NoPort
         /\ NoCall.at = "idle" /\ NoCall.name = NoName
<1>1. NoGlobal \in GlobalRec /\ ~NoGlobal.present /\ NoGlobal.port = NoPort
  BY DEF NoGlobal, GlobalRec, GlobalPort
<1>2. NoUnit \in GlobalUnit /\ ~NoUnit.active /\ NoUnit.port = NoPort
  BY DEF NoUnit, GlobalUnit, GlobalPort
<1>3. NoCall \in GlobalCall /\ NoCall.at = "idle" /\ NoCall.name = NoName
  BY <1>1 DEF NoCall, GlobalCall, GlobalPort
<1>. QED  BY <1>1, <1>2, <1>3

LEMMA LoadFields ==
  ASSUME GlobalAssumption, NEW T \in SUBSET GlobalNames
  PROVE  \E R \in GlobalCall :
            R = [NoCall EXCEPT !.at = "load", !.todo = T] /\ R.at = "load" /\ R.name = NoName
<1>1. NoCall \in GlobalCall /\ NoCall.name = NoName
  BY NoCallFields
<1>2. /\ [NoCall EXCEPT !.at = "load", !.todo = T] \in GlobalCall
      /\ [NoCall EXCEPT !.at = "load", !.todo = T].at = "load"
      /\ [NoCall EXCEPT !.at = "load", !.todo = T].name = NoName
  BY <1>1 DEF GlobalCall
<1>. QED  BY <1>2, Zenon

\* Only call c changes.
CallBecomes(c, R) == gcall' = [gcall EXCEPT ![c] = R]

LEMMA CallPointwise ==
  ASSUME GlobalTypeOK, NEW c \in GlobalCalls, NEW R \in GlobalCall, CallBecomes(c, R)
  PROVE  /\ gcall' \in [GlobalCalls -> GlobalCall] /\ gcall'[c] = R
         /\ \A d \in GlobalCalls \ {c} : gcall'[d] = gcall[d]
BY DEF CallBecomes, GlobalTypeOK

LEMMA OtherGlobals ==
  ASSUME NEW g \in GlobalNames, InOrder(g),
         \A c \in GlobalCalls : gcall'[c].name = g <=> gcall[c].name = g,
         \A c \in GlobalCalls : gcall[c].name = g => gcall'[c] = gcall[c],
         grec'[g] = grec[g], gman'[g] = gman[g], gunit'[g] = gunit[g],
         grest'[g] = grest[g], gwait'[g] = gwait[g]
  PROVE  InOrder(g)'
<1>1. OneCall(g)'
  BY DEF InOrder, OneCall
<1>2. PortsAgree(g)'
  BY DEF InOrder, PortsAgree
<1>3. Accounted(g)'
  BY DEF InOrder, Accounted, Engaged
<1>4. \A c \in GlobalCalls : gcall'[c].name = g => CallAgrees(c, g)'
  BY DEF InOrder, CallAgrees
<1>. QED  BY <1>1, <1>2, <1>3, <1>4 DEF InOrder

\* A step of call c on global g, or on none.
LEMMA CallStep ==
  ASSUME GlobalInv, GlobalAssumption, GlobalTypeOK',
         NEW c \in GlobalCalls, NEW R \in GlobalCall, CallBecomes(c, R),
         NEW g \in GlobalNames \cup {NoName},
         gcall[c].name \in {g, NoName}, R.name \in {g, NoName}, CallShape(R),
         \A h \in GlobalNames \ {g} :
            /\ grec'[h] = grec[h] /\ gman'[h] = gman[h] /\ gunit'[h] = gunit[h]
            /\ graced[h] => graced'[h],
         UNCHANGED <<grest, gwait>>,
         g \in GlobalNames /\ ~graced'[g] => InOrder(g)'
  PROVE  GlobalInv'
<1>1. /\ gcall'[c] = R
      /\ \A d \in GlobalCalls \ {c} : gcall'[d] = gcall[d]
  BY CallPointwise DEF GlobalInv
<1>2. \A d \in GlobalCalls : CallShape(gcall'[d])
  BY <1>1 DEF GlobalInv
<1>3. ASSUME NEW h \in GlobalNames \ {g}, ~graced'[h] PROVE InOrder(h)'
  <2>1. h # NoName /\ InOrder(h)
    BY <1>3 DEF GlobalAssumption, GlobalInv
  <2>2. /\ \A d \in GlobalCalls : gcall'[d].name = h <=> gcall[d].name = h
        /\ \A d \in GlobalCalls : gcall[d].name = h => gcall'[d] = gcall[d]
    BY <1>1, <2>1
  <2>. QED  BY <2>1, <2>2, OtherGlobals
<1>. QED  BY <1>2, <1>3 DEF GlobalInv, CallShape

LEMMA EnsureBeginStep ==
  ASSUME GlobalInv, GlobalAssumption, NEW c \in GlobalCalls, EnsureBegin(c)
  PROVE  GlobalInv'
<1>1. PICK R \in GlobalCall :
        R = [NoCall EXCEPT !.at = "load", !.todo = GlobalNames] /\ R.at = "load" /\ R.name = NoName
  <2>1. GlobalNames \in SUBSET GlobalNames
    OBVIOUS
  <2>. QED  BY <2>1, LoadFields, Zenon
<1>2. CallBecomes(c, R) /\ gcall[c].name = NoName
  BY <1>1 DEF EnsureBegin, CallBecomes, GlobalInv, CallShape
<1>3. GlobalTypeOK /\ gcall' \in [GlobalCalls -> GlobalCall]
  BY <1>2, CallPointwise DEF GlobalInv
<1>4. GlobalTypeOK'
  BY <1>3 DEF GlobalTypeOK, EnsureBegin
<1>5. CallShape(R) /\ NoName \notin GlobalNames
  BY <1>1 DEF CallShape, GlobalAssumption
<1>. QED  BY <1>1, <1>2, <1>4, <1>5, CallStep DEF EnsureBegin

LEMMA EnsureEndsStep ==
  ASSUME GlobalInv, GlobalAssumption, NEW c \in GlobalCalls, EnsureEnds(c)
  PROVE  GlobalInv'
<1>1. PICK R \in GlobalCall : R = NoCall /\ R.at = "idle" /\ R.name = NoName
  BY NoCallFields
<1>2. CallBecomes(c, R) /\ gcall[c].name = NoName
  BY <1>1 DEF EnsureEnds, CallBecomes, GlobalInv, CallShape
<1>3. GlobalTypeOK /\ gcall' \in [GlobalCalls -> GlobalCall]
  BY <1>2, CallPointwise DEF GlobalInv
<1>4. GlobalTypeOK'
  BY <1>3 DEF GlobalTypeOK, EnsureEnds
<1>5. CallShape(R) /\ NoName \notin GlobalNames
  BY <1>1 DEF CallShape, GlobalAssumption
<1>. QED  BY <1>1, <1>2, <1>4, <1>5, CallStep DEF EnsureEnds

LEMMA LoadStep ==
  ASSUME GlobalInv, GlobalAssumption, NEW c \in GlobalCalls, LoadManifest(c)
  PROVE  GlobalInv'
<1>1. PICK g \in GlobalNames :
        /\ gcall[c].at = "load"
        /\ gcall' = [gcall EXCEPT ![c].at = "status", ![c].name = g, ![c].existing = gman[g]]
        /\ graced' = [graced EXCEPT ![g] =
                         @ \/ \E d \in GlobalCalls \ {c} : Engaged(d, g) \/ Looks(d, g)]
        /\ UNCHANGED <<grec, gman, gunit, gowned, grest, gwait, gserving, gups, gfaults>>
  BY Zenon DEF LoadManifest
<1>2. /\ GlobalTypeOK /\ gcall[c] \in GlobalCall /\ gcall[c].name = NoName /\ g # NoName
      /\ \A d \in GlobalCalls : CallShape(gcall[d])
  BY <1>1 DEF GlobalInv, GlobalTypeOK, CallShape, GlobalAssumption
<1>3. PICK R \in GlobalCall :
        /\ R = [gcall[c] EXCEPT !.at = "status", !.name = g, !.existing = gman[g]]
        /\ R.at = "status" /\ R.name = g /\ R.existing = gman[g]
  <2>1. PICK job \in GlobalCall, m \in GlobalRec : job = gcall[c] /\ m = gman[g]
    BY <1>2 DEF GlobalTypeOK
  <2>2. /\ [job EXCEPT !.at = "status", !.name = g, !.existing = m] \in GlobalCall
        /\ [job EXCEPT !.at = "status", !.name = g, !.existing = m].at = "status"
        /\ [job EXCEPT !.at = "status", !.name = g, !.existing = m].name = g
        /\ [job EXCEPT !.at = "status", !.name = g, !.existing = m].existing = m
    BY DEF GlobalCall
  <2>. QED  BY <2>1, <2>2, Zenon
<1>4. CallBecomes(c, R)
  BY <1>1, <1>2, <1>3 DEF CallBecomes, GlobalTypeOK
<1>5. /\ gcall' \in [GlobalCalls -> GlobalCall] /\ gcall'[c] = R
      /\ \A d \in GlobalCalls \ {c} : gcall'[d] = gcall[d]
  BY <1>2, <1>4, CallPointwise
<1>6. /\ graced' \in [GlobalNames -> BOOLEAN]
      /\ \A h \in GlobalNames \ {g} : graced'[h] = graced[h]
      /\ ~graced'[g] => /\ ~graced[g]
                        /\ \A d \in GlobalCalls \ {c} : ~Engaged(d, g) /\ ~Looks(d, g)
  <2>. DEFINE b == graced[g] \/ \E d \in GlobalCalls \ {c} : Engaged(d, g) \/ Looks(d, g)
  <2>1. graced' = [graced EXCEPT ![g] = b]
    BY <1>1
  <2>2. b \in BOOLEAN /\ (~b => /\ ~graced[g]
                                /\ \A d \in GlobalCalls \ {c} : ~Engaged(d, g) /\ ~Looks(d, g))
    BY <1>2 DEF GlobalTypeOK
  <2>. HIDE DEF b
  <2>3. /\ graced' \in [GlobalNames -> BOOLEAN] /\ graced'[g] = b
        /\ \A h \in GlobalNames \ {g} : graced'[h] = graced[h]
    BY <1>2, <2>1, <2>2 DEF GlobalTypeOK
  <2>. QED  BY <2>2, <2>3
<1>7. GlobalTypeOK'
  BY <1>1, <1>2, <1>5, <1>6 DEF GlobalTypeOK
<1>8. CallShape(R)
  BY <1>2, <1>3 DEF CallShape
<1>9. ASSUME ~graced'[g] PROVE InOrder(g)'
  <2>1. InOrder(g)
    BY <1>6, <1>9 DEF GlobalInv
  <2>2. \A d \in GlobalCalls : gcall'[d].name = g => d = c
    BY <1>2, <1>5, <1>6, <1>9 DEF Engaged, Looks, CallShape, GlobalTypeOK, GlobalCall
  <2>3. \A d \in GlobalCalls : gcall[d].name # g
    BY <1>2, <1>5, <2>2
  <2>4. OneCall(g)' /\ PortsAgree(g)'
    BY <1>1, <2>1, <2>2 DEF OneCall, PortsAgree, InOrder
  <2>5. Accounted(g)'
    BY <1>1, <2>1, <2>3 DEF Accounted, Engaged, InOrder
  <2>6. CallAgrees(c, g)'
    BY <1>1, <1>3, <1>5 DEF CallAgrees
  <2>. QED  BY <2>2, <2>4, <2>5, <2>6 DEF InOrder
<1>10. /\ \A h \in GlobalNames \ {g} :
            /\ grec'[h] = grec[h] /\ gman'[h] = gman[h] /\ gunit'[h] = gunit[h]
            /\ graced[h] => graced'[h]
       /\ UNCHANGED <<grest, gwait>>
       /\ gcall[c].name \in {g, NoName} /\ R.name \in {g, NoName}
       /\ g \in GlobalNames \cup {NoName}
  BY <1>1, <1>2, <1>3, <1>6
<1>. QED  BY <1>4, <1>7, <1>8, <1>9, <1>10, CallStep

(***************************************************************************)
(* resolve_global_port: the fixed port, or that of the manifest.           *)
(***************************************************************************)
LEMMA ResolvedPort ==
  ASSUME GlobalAssumption, NEW g \in GlobalNames, NEW existing \in GlobalRec, NEW active \in BOOLEAN,
         NEW p \in resolve_global_port(g, existing, active)
  PROVE  /\ p \in GlobalPort
         /\ g \in FixedGlobals => p = FixedPort[g]
         /\ g \notin FixedGlobals /\ existing.present => p = existing.port
         /\ g \in FixedGlobals \/ ~existing.present => p # NoPort
<1>1. CASE g \in FixedGlobals
  <2>1. p = FixedPort[g] /\ FixedPort[g] \in AllGlobalPorts
    BY <1>1 DEF resolve_global_port, AllGlobalPorts
  <2>. QED  BY <1>1, <2>1 DEF GlobalPort, GlobalAssumption
<1>2. CASE g \notin FixedGlobals /\ existing.present
  BY <1>2 DEF resolve_global_port, GlobalRec
<1>3. CASE g \notin FixedGlobals /\ ~existing.present
  BY <1>3 DEF resolve_global_port, AllGlobalPorts, GlobalPort, GlobalAssumption
<1>. QED  BY <1>1, <1>2, <1>3

\* What the invariant says of a call on a global.
OnWay == {"status", "start", "wait", "adopt", "upsert", "persist"}

LEMMA OnGlobal ==
  ASSUME GlobalInv, NEW c \in GlobalCalls, gcall[c].at \in OnWay
  PROVE  /\ GlobalTypeOK /\ gcall[c] \in GlobalCall /\ gcall[c].name \in GlobalNames
         /\ \A d \in GlobalCalls : CallShape(gcall[d])
BY DEF GlobalInv, GlobalTypeOK, CallShape, GlobalCall, OnWay

\* The call goes on: another place, port and result.
LEMMA ProceedsFields ==
  ASSUME GlobalInv, NEW c \in GlobalCalls, gcall[c].at \in OnWay,
         NEW p \in GlobalPort, NEW ok \in BOOLEAN,
         NEW at \in OnWay, Proceeds(c, at, p, ok)
  PROVE  \E R \in GlobalCall :
            CallBecomes(c, R) /\ R.at = at /\ R.name = gcall[c].name /\ R.port = p /\ CallShape(R)
<1>1. PICK job \in GlobalCall : job = gcall[c] /\ job.name # NoName
  BY OnGlobal DEF CallShape, OnWay
<1>2. /\ [job EXCEPT !.at = at, !.port = p, !.ok = ok] \in GlobalCall
      /\ [job EXCEPT !.at = at, !.port = p, !.ok = ok].at = at
      /\ [job EXCEPT !.at = at, !.port = p, !.ok = ok].name = job.name
      /\ [job EXCEPT !.at = at, !.port = p, !.ok = ok].port = p
  BY DEF GlobalCall, OnWay
<1>3. PICK R \in GlobalCall :
        /\ R = [job EXCEPT !.at = at, !.port = p, !.ok = ok]
        /\ R.at = at /\ R.name = job.name /\ R.port = p
  BY <1>2, Zenon
<1>4. CallBecomes(c, R)
  BY <1>1, <1>3 DEF Proceeds, CallBecomes
<1>5. CallShape(R)
  BY <1>1, <1>3 DEF CallShape, OnWay
<1>. QED  BY <1>1, <1>3, <1>4, <1>5

LEMMA FinishedFields ==
  ASSUME GlobalInv, GlobalAssumption, NEW c \in GlobalCalls, NEW ok, gcall' = Finished(c, ok),
         gcall[c].at \in OnWay
  PROVE  \E R \in GlobalCall : CallBecomes(c, R) /\ R.name = NoName /\ CallShape(R)
<1>1. PICK T \in SUBSET GlobalNames : T = gcall[c].todo \ {gcall[c].name}
  BY OnGlobal DEF GlobalCall
<1>2. \/ CallBecomes(c, [NoCall EXCEPT !.at = "load", !.todo = T])
      \/ CallBecomes(c, NoCall)
  BY <1>1 DEF Finished, CallBecomes
<1>3. CASE CallBecomes(c, NoCall)
  BY <1>3, NoCallFields DEF CallShape
<1>4. CASE CallBecomes(c, [NoCall EXCEPT !.at = "load", !.todo = T])
  <2>1. PICK R \in GlobalCall :
          R = [NoCall EXCEPT !.at = "load", !.todo = T] /\ R.at = "load" /\ R.name = NoName
    BY LoadFields, Zenon
  <2>2. CallShape(R)
    BY <2>1 DEF CallShape
  <2>. QED  BY <1>4, <2>1, <2>2
<1>. QED  BY <1>2, <1>3, <1>4

\* A call leaves its global: it had not started anything, or it has written the manifest.
LEMMA LeaveStep ==
  ASSUME GlobalInv, GlobalAssumption, NEW c \in GlobalCalls, NEW g \in GlobalNames, gcall[c].name = g,
         NEW R \in GlobalCall, CallBecomes(c, R), R.name = NoName, CallShape(R),
         UNCHANGED <<grec, gman, gunit, gowned, grest, gwait, gserving, gups, gfaults, graced>>,
         gcall[c].at = "status"
  PROVE  GlobalInv'
<1>1. /\ GlobalTypeOK /\ g # NoName
      /\ \A d \in GlobalCalls : CallShape(gcall[d])
  BY DEF GlobalInv, GlobalAssumption
<1>2. /\ gcall' \in [GlobalCalls -> GlobalCall] /\ gcall'[c] = R
      /\ \A d \in GlobalCalls \ {c} : gcall'[d] = gcall[d]
  BY <1>1, CallPointwise
<1>3. GlobalTypeOK'
  BY <1>1, <1>2 DEF GlobalTypeOK
<1>4. ASSUME ~graced'[g] PROVE InOrder(g)'
  <2>1. InOrder(g)
    BY <1>4 DEF GlobalInv
  <2>2. \A d \in GlobalCalls : gcall[d].name = g => d = c
    BY <2>1 DEF InOrder, OneCall
  <2>3. \A d \in GlobalCalls : gcall'[d].name # g
    BY <1>1, <1>2, <2>2
  <2>4. Accounted(g)'
    BY <2>1, <2>2 DEF Accounted, Engaged, InOrder
  <2>. QED  BY <2>1, <2>3, <2>4 DEF InOrder, OneCall, PortsAgree
<1>. QED  BY <1>3, <1>4, CallStep

LEMMA StatusStep ==
  ASSUME GlobalInv, GlobalAssumption, NEW c \in GlobalCalls, UnitStatus(c)
  PROVE  GlobalInv'
<1>1. gcall[c].at = "status" /\ gcall[c].at \in OnWay
  <2>1. gcall[c].at = "status"
    BY Zenon DEF UnitStatus
  <2>. QED  BY <2>1 DEF OnWay
<1>2. /\ GlobalTypeOK /\ gcall[c] \in GlobalCall
      /\ \A d \in GlobalCalls : CallShape(gcall[d])
  BY <1>1, OnGlobal
<1>3. PICK g \in GlobalNames : g = gcall[c].name
  BY <1>1, OnGlobal
<1>4. PICK e \in GlobalRec : e = gcall[c].existing
  BY <1>2 DEF GlobalCall
<1>5. PICK active \in BOOLEAN :
        \/ gcall' = Finished(c, FALSE) /\ UNCHANGED gowned
        \/ \E p \in resolve_global_port(g, e, active), ok \in BOOLEAN :
             Reserves(g, p) /\ Proceeds(c, IF active THEN "adopt" ELSE "start", p, ok)
  <2>1. {FALSE, gunit[g].active} \subseteq BOOLEAN
    BY <1>2 DEF GlobalTypeOK, GlobalUnit
  <2>. QED  BY <1>3, <1>4, <2>1, Zenon DEF UnitStatus
<1>6. UNCHANGED <<grec, gman, gunit, grest, gwait, gserving, gups, gfaults, graced>>
  BY Zenon DEF UnitStatus
<1>7. CASE gcall' = Finished(c, FALSE) /\ UNCHANGED gowned
  <2>1. PICK R \in GlobalCall : CallBecomes(c, R) /\ R.name = NoName /\ CallShape(R)
    BY <1>1, <1>7, FinishedFields
  <2>. QED  BY <1>1, <1>3, <1>6, <1>7, <2>1, LeaveStep
<1>8. ASSUME NEW p \in resolve_global_port(g, e, active),
             NEW ok \in BOOLEAN,
             Reserves(g, p), Proceeds(c, IF active THEN "adopt" ELSE "start", p, ok)
      PROVE  GlobalInv'
  <2>1. /\ p \in GlobalPort
        /\ g \in FixedGlobals => p = FixedPort[g]
        /\ g \notin FixedGlobals /\ e.present => p = e.port
        /\ g \in FixedGlobals \/ ~e.present => p # NoPort
    BY ResolvedPort
  <2>2. PICK at \in {"adopt", "start"} : at = IF active THEN "adopt" ELSE "start"
    OBVIOUS
  <2>3. PICK R \in GlobalCall :
          CallBecomes(c, R) /\ R.at = at /\ R.name = gcall[c].name /\ R.port = p /\ CallShape(R)
    <3>1. at \in OnWay
      BY DEF OnWay
    <3>2. Proceeds(c, at, p, ok)
      BY <1>8, <2>2
    <3>. QED  BY <1>1, <2>1, <3>1, <3>2, ProceedsFields
  <2>5. /\ gcall' \in [GlobalCalls -> GlobalCall] /\ gcall'[c] = R
        /\ \A d \in GlobalCalls \ {c} : gcall'[d] = gcall[d]
    BY <1>2, <2>3, CallPointwise
  <2>6. gowned' \in [GlobalNames -> SUBSET GlobalPort]
    BY <1>2, <1>8, <2>1 DEF GlobalTypeOK, Reserves
  <2>7. GlobalTypeOK'
    BY <1>2, <1>6, <2>5, <2>6 DEF GlobalTypeOK
  <2>8. R.name = g /\ g # NoName /\ CallShape(R)
    BY <1>3, <2>3 DEF GlobalAssumption
  <2>9. ASSUME ~graced'[g] PROVE InOrder(g)'
    <3>1. InOrder(g) /\ CallAgrees(c, g)
      BY <1>3, <1>6, <2>9 DEF GlobalInv, InOrder
    <3>2. \A d \in GlobalCalls : gcall[d].name = g <=> d = c
      BY <1>3, <3>1 DEF InOrder, OneCall
    <3>3. \A d \in GlobalCalls : gcall'[d].name = g <=> d = c
      BY <2>5, <2>8, <3>2
    <3>4. /\ e.present = gman[g].present /\ e.port = gman[g].port
          /\ gunit[g].port # NoPort => gman[g].present
          /\ grec[g].present => gman[g].present
      BY <1>1, <1>4, <3>1, <3>2 DEF CallAgrees, InOrder, Accounted, Engaged
    <3>5. OneCall(g)' /\ PortsAgree(g)'
      BY <1>6, <3>1, <3>3 DEF OneCall, PortsAgree, InOrder
    <3>6. Accounted(g)'
      BY <1>6, <3>1, <3>4 DEF Accounted, InOrder
    <3>7. CallAgrees(c, g)'
      BY <1>6, <2>1, <2>3, <2>5, <3>1, <3>4 DEF CallAgrees, PortsAgree, InOrder
    <3>. QED  BY <3>3, <3>5, <3>6, <3>7 DEF InOrder
  <2>10. /\ \A h \in GlobalNames \ {g} :
             /\ grec'[h] = grec[h] /\ gman'[h] = gman[h] /\ gunit'[h] = gunit[h]
             /\ graced[h] => graced'[h]
        /\ UNCHANGED <<grest, gwait>>
        /\ gcall[c].name \in {g, NoName} /\ R.name \in {g, NoName}
        /\ g \in GlobalNames \cup {NoName}
    BY <1>3, <1>6, <2>8
  <2>. QED  BY <2>3, <2>7, <2>8, <2>9, <2>10, CallStep
<1>. QED  BY <1>5, <1>7, <1>8

(***************************************************************************)
(* The steps of a call that is at work on a global: its record or its      *)
(* unit takes the port of the call.                                        *)
(***************************************************************************)
LEMMA WorkStep ==
  ASSUME GlobalInv, GlobalAssumption, NEW c \in GlobalCalls, NEW g \in GlobalNames, gcall[c].name = g,
         gcall[c].at \notin {"idle", "load", "status", "persist"},
         NEW R \in GlobalCall, CallBecomes(c, R), R.name = g, CallShape(R), R.at # "status",
         R.port = gcall[c].port, grec' \in [GlobalNames -> GlobalRec],
         gunit' \in [GlobalNames -> GlobalUnit],
         \A h \in GlobalNames \ {g} :
            grec'[h] = grec[h] /\ gunit'[h] = gunit[h],
         UNCHANGED <<gman, gowned, grest, gwait, gserving, gups, gfaults, graced>>,
         \/ grec'[g] = grec[g]
         \/ grec'[g].present /\ grec'[g].port = gcall[c].port /\ R.at = "persist",
         \/ gunit'[g] = gunit[g]
         \/ gunit'[g].port = gcall[c].port,
         R.at = "persist" => grec'[g].present /\ grec'[g].port = gcall[c].port
  PROVE  GlobalInv'
<1>1. /\ GlobalTypeOK /\ g # NoName
      /\ \A d \in GlobalCalls : CallShape(gcall[d])
  BY DEF GlobalInv, GlobalAssumption
<1>2. /\ gcall' \in [GlobalCalls -> GlobalCall] /\ gcall'[c] = R
      /\ \A d \in GlobalCalls \ {c} : gcall'[d] = gcall[d]
  BY <1>1, CallPointwise
<1>3. GlobalTypeOK'
  BY <1>1, <1>2 DEF GlobalTypeOK
<1>4. ASSUME ~graced'[g] PROVE InOrder(g)'
  <2>1. InOrder(g) /\ CallAgrees(c, g)
    BY <1>4 DEF GlobalInv, InOrder
  <2>2. \A d \in GlobalCalls : gcall[d].name = g => d = c
    BY <2>1 DEF InOrder, OneCall
  <2>3. \A d \in GlobalCalls : gcall'[d].name = g => d = c
    BY <1>1, <1>2, <2>2
  <2>4. /\ gcall[c].port # NoPort
        /\ gman[g].present => gcall[c].port = gman[g].port
        /\ gunit[g].port # NoPort => gcall[c].port = gunit[g].port
        /\ g \in FixedGlobals => gcall[c].port = FixedPort[g]
        /\ grec[g].present => grec[g].port = gcall[c].port
    BY <2>1, <2>2 DEF CallAgrees, InOrder, Accounted, PortsAgree
  <2>5. PortsAgree(g)'
    BY <2>1, <2>4 DEF InOrder, PortsAgree
  <2>6. Accounted(g)'
    <3>1. grec'[g].present => \/ gman'[g].present
                              \/ \E d \in GlobalCalls : gcall'[d].name = g /\ gcall'[d].at = "persist"
      BY <1>2, <2>1, <2>2 DEF InOrder, Accounted
    <3>2. Engaged(c, g)'
      BY <1>1, <1>2 DEF Engaged, CallShape, GlobalCall
    <3>3. gunit'[g].port # NoPort => gman'[g].present \/ \E d \in GlobalCalls : Engaged(d, g)'
      BY <3>2
    <3>4. grest'[g] # "idle" \/ gwait'[g] => grec'[g].present
      BY <2>1 DEF InOrder, Accounted
    <3>. QED  BY <3>1, <3>3, <3>4 DEF Accounted
  <2>7. CallAgrees(c, g)'
    BY <1>2, <2>4 DEF CallAgrees
  <2>. QED  BY <1>2, <2>3, <2>5, <2>6, <2>7 DEF InOrder, OneCall
<1>5. /\ \A h \in GlobalNames \ {g} :
            /\ grec'[h] = grec[h] /\ gman'[h] = gman[h] /\ gunit'[h] = gunit[h]
            /\ graced[h] => graced'[h]
      /\ UNCHANGED <<grest, gwait>>
      /\ gcall[c].name \in {g, NoName} /\ R.name \in {g, NoName}
      /\ g \in GlobalNames \cup {NoName}
  OBVIOUS
<1>. QED  BY ONLY GlobalInv, GlobalAssumption, c \in GlobalCalls, R \in GlobalCall, CallBecomes(c, R),
                  CallShape(R), <1>3, <1>4, <1>5, CallStep

LEMMA StartStep ==
  ASSUME GlobalInv, GlobalAssumption, NEW c \in GlobalCalls, StartGlobal(c)
  PROVE  GlobalInv'
<1>1. gcall[c].at = "start" /\ gcall[c].at \in OnWay
  BY DEF StartGlobal, OnWay
<1>2. GlobalTypeOK /\ gcall[c] \in GlobalCall
  BY <1>1, OnGlobal
<1>3. PICK g \in GlobalNames, p \in GlobalPort : g = gcall[c].name /\ p = gcall[c].port
  BY <1>1, <1>2, OnGlobal DEF GlobalCall
<1>4. UNCHANGED <<grec, gman, gowned, grest, gwait, gserving, gups, gfaults, graced>>
  BY DEF StartGlobal
<1>5. PICK ok \in BOOLEAN, at \in {"wait", "upsert"} :
        /\ Proceeds(c, at, p, ok)
        /\ gunit' = gunit \/ gunit' = [gunit EXCEPT ![g] = [active |-> TRUE, port |-> p]]
  BY <1>3 DEF StartGlobal
<1>6. at \in OnWay /\ at # "persist" /\ at # "status"
  BY DEF OnWay
<1>7. PICK R \in GlobalCall :
        CallBecomes(c, R) /\ R.at = at /\ R.name = gcall[c].name /\ R.port = p /\ CallShape(R)
  BY <1>1, <1>5, <1>6, ProceedsFields
<1>8. /\ gunit' \in [GlobalNames -> GlobalUnit]
      /\ \A h \in GlobalNames \ {g} : gunit'[h] = gunit[h]
      /\ gunit'[g] = gunit[g] \/ gunit'[g].port = p
  <2>0. [active |-> TRUE, port |-> p] \in GlobalUnit /\ [active |-> TRUE, port |-> p].port = p
    BY DEF GlobalUnit
  <2>1. PICK u : u \in GlobalUnit /\ u = [active |-> TRUE, port |-> p] /\ u.port = p
    BY <2>0, Zenon
  <2>2. gunit' = gunit \/ gunit' = [gunit EXCEPT ![g] = u]
    BY <1>5, <2>1, Zenon
  <2>3. CASE gunit' = gunit
    BY <1>2, <2>3 DEF GlobalTypeOK
  <2>4. CASE gunit' = [gunit EXCEPT ![g] = u]
    <3>1. u \in GlobalUnit /\ u.port = p
      BY <2>1
    <3>2. gunit \in [GlobalNames -> GlobalUnit]
      BY <1>2 DEF GlobalTypeOK
    <3>3. /\ gunit' \in [GlobalNames -> GlobalUnit] /\ gunit'[g] = u
          /\ \A h \in GlobalNames \ {g} : gunit'[h] = gunit[h]
      BY <2>4, <3>1, <3>2
    <3>. QED  BY <3>1, <3>3
  <2>. QED  BY <2>2, <2>3, <2>4
<1>9. /\ grec' \in [GlobalNames -> GlobalRec] /\ gman' \in [GlobalNames -> GlobalRec]
      /\ g # NoName /\ gcall[c].at \notin {"idle", "load", "status", "persist"}
  BY <1>1, <1>2, <1>4 DEF GlobalTypeOK, GlobalAssumption
<1>. QED  BY <1>1, <1>3, <1>4, <1>6, <1>7, <1>8, <1>9, WorkStep

LEMMA WaitStep ==
  ASSUME GlobalInv, GlobalAssumption, NEW c \in GlobalCalls, WaitGlobal(c)
  PROVE  GlobalInv'
<1>1. gcall[c].at = "wait" /\ gcall[c].at \in OnWay /\ "upsert" \in OnWay
  BY DEF WaitGlobal, OnWay
<1>2. GlobalTypeOK /\ gcall[c] \in GlobalCall
  BY <1>1, OnGlobal
<1>3. PICK g \in GlobalNames, p \in GlobalPort : g = gcall[c].name /\ p = gcall[c].port
  BY <1>1, <1>2, OnGlobal DEF GlobalCall
<1>4. UNCHANGED <<grec, gman, gunit, gowned, grest, gwait, gserving, gups, gfaults, graced>>
  BY DEF WaitGlobal
<1>5. PICK ok \in BOOLEAN, at \in OnWay : Proceeds(c, at, p, ok) /\ at = "upsert"
  BY <1>1, <1>3, Zenon DEF WaitGlobal
<1>7. PICK R \in GlobalCall :
        CallBecomes(c, R) /\ R.at = at /\ R.name = gcall[c].name /\ R.port = p /\ CallShape(R)
  BY <1>1, <1>5, ProceedsFields
<1>9. /\ grec' \in [GlobalNames -> GlobalRec] /\ gman' \in [GlobalNames -> GlobalRec]
      /\ gunit' \in [GlobalNames -> GlobalUnit]
      /\ g # NoName /\ gcall[c].at \notin {"idle", "load", "status", "persist"}
  BY <1>1, <1>2, <1>4 DEF GlobalTypeOK, GlobalAssumption
<1>. QED  BY <1>1, <1>3, <1>4, <1>5, <1>7, <1>9, WorkStep

LEMMA UpsertStep ==
  ASSUME GlobalInv, GlobalAssumption, NEW c \in GlobalCalls, upsert_global(c)
  PROVE  GlobalInv'
<1>1. gcall[c].at \in {"adopt", "upsert"} /\ gcall[c].at \in OnWay /\ "persist" \in OnWay
  BY DEF upsert_global, OnWay
<1>2. GlobalTypeOK /\ gcall[c] \in GlobalCall
  BY <1>1, OnGlobal
<1>3. PICK g \in GlobalNames, p \in GlobalPort, ok \in BOOLEAN :
        g = gcall[c].name /\ p = gcall[c].port /\ ok = gcall[c].ok
  BY <1>1, <1>2, OnGlobal DEF GlobalCall
<1>4. UNCHANGED <<gman, gunit, gowned, grest, gwait, gserving, gups, gfaults, graced>>
  BY DEF upsert_global
<1>5. /\ Proceeds(c, "persist", p, ok)
      /\ grec' = [grec EXCEPT ![g] = [present |-> TRUE, port |-> p,
                                      state |-> IF ok THEN "Ready" ELSE "Failed"]]
  BY <1>3 DEF upsert_global
<1>6. /\ grec' \in [GlobalNames -> GlobalRec]
      /\ \A h \in GlobalNames \ {g} : grec'[h] = grec[h]
      /\ grec'[g].present /\ grec'[g].port = p
  BY <1>2, <1>5 DEF GlobalTypeOK, GlobalRec
<1>7. PICK R \in GlobalCall :
        CallBecomes(c, R) /\ R.at = "persist" /\ R.name = gcall[c].name /\ R.port = p /\ CallShape(R)
  BY <1>1, <1>5, ProceedsFields
<1>9. /\ gman' \in [GlobalNames -> GlobalRec] /\ gunit' \in [GlobalNames -> GlobalUnit]
      /\ g # NoName /\ gcall[c].at \notin {"idle", "load", "status", "persist"}
  BY <1>1, <1>2, <1>4 DEF GlobalTypeOK, GlobalAssumption
<1>. QED  BY <1>1, <1>3, <1>4, <1>6, <1>7, <1>9, WorkStep

LEMMA PersistStep ==
  ASSUME GlobalInv, GlobalAssumption, NEW c \in GlobalCalls, persist_global_manifest(c)
  PROVE  GlobalInv'
<1>1. gcall[c].at = "persist" /\ gcall[c].at \in OnWay
  BY DEF persist_global_manifest, OnWay
<1>2. GlobalTypeOK /\ gcall[c] \in GlobalCall
  BY <1>1, OnGlobal
<1>3. PICK g \in GlobalNames : g = gcall[c].name /\ g # NoName
  BY <1>1, OnGlobal DEF GlobalAssumption
<1>4. /\ gman' = [gman EXCEPT ![g] = grec[g]]
      /\ UNCHANGED <<grec, gunit, gowned, grest, gwait, gserving, gups, gfaults, graced>>
  BY <1>3 DEF persist_global_manifest
<1>5. PICK R \in GlobalCall : CallBecomes(c, R) /\ R.name = NoName /\ CallShape(R)
  BY <1>1, FinishedFields DEF persist_global_manifest
<1>6. /\ gman' \in [GlobalNames -> GlobalRec] /\ gman'[g] = grec[g]
      /\ \A h \in GlobalNames \ {g} : gman'[h] = gman[h]
      /\ grec' \in [GlobalNames -> GlobalRec] /\ gunit' \in [GlobalNames -> GlobalUnit]
  BY <1>2, <1>4 DEF GlobalTypeOK
<1>7. /\ gcall' \in [GlobalCalls -> GlobalCall] /\ gcall'[c] = R
      /\ \A d \in GlobalCalls \ {c} : gcall'[d] = gcall[d]
  BY <1>2, <1>5, CallPointwise
<1>8. GlobalTypeOK'
  BY <1>2, <1>4, <1>6, <1>7 DEF GlobalTypeOK
<1>9. ASSUME ~graced'[g] PROVE InOrder(g)'
  <2>1. InOrder(g) /\ CallAgrees(c, g)
    BY <1>3, <1>4, <1>9 DEF GlobalInv, InOrder
  <2>2. /\ \A d \in GlobalCalls : gcall'[d].name # g
        /\ gman'[g].present
    BY <1>1, <1>3, <1>5, <1>6, <1>7, <2>1 DEF InOrder, OneCall, CallAgrees
  <2>3. PortsAgree(g)'
    BY <1>1, <1>4, <1>6, <2>1 DEF InOrder, PortsAgree, CallAgrees
  <2>4. Accounted(g)'
    BY <1>4, <2>1, <2>2 DEF InOrder, Accounted
  <2>. QED  BY <2>2, <2>3, <2>4 DEF InOrder, OneCall
<1>10. /\ \A h \in GlobalNames \ {g} :
             /\ grec'[h] = grec[h] /\ gman'[h] = gman[h] /\ gunit'[h] = gunit[h]
             /\ graced[h] => graced'[h]
       /\ UNCHANGED <<grest, gwait>>
       /\ gcall[c].name \in {g, NoName} /\ R.name \in {g, NoName}
       /\ g \in GlobalNames \cup {NoName}
  BY <1>3, <1>4, <1>5, <1>6
<1>. QED  BY <1>5, <1>8, <1>9, <1>10, CallStep

(***************************************************************************)
(* The watcher's restarts and the death of a unit: no call moves, and no   *)
(* port changes.                                                           *)
(***************************************************************************)
LEMMA QuietGlobal ==
  ASSUME GlobalInv, GlobalAssumption, NEW g \in GlobalNames, GlobalTypeOK',
         \A h \in GlobalNames \ {g} :
            /\ grec'[h] = grec[h] /\ gman'[h] = gman[h] /\ gunit'[h] = gunit[h]
            /\ grest'[h] = grest[h] /\ gwait'[h] = gwait[h],
         UNCHANGED <<gcall, graced>>,
         grec'[g].present = grec[g].present, grec'[g].port = grec[g].port,
         \/ gman'[g].present = gman[g].present /\ gman'[g].port = gman[g].port
         \/ gman'[g].present = grec[g].present /\ gman'[g].port = grec[g].port
            /\ (~graced[g] => grec[g].present),
         gunit'[g].port = gunit[g].port, gunit'[g].active => gunit[g].active \/ gunit[g].port # NoPort,
         ~graced[g] /\ (grest'[g] # "idle" \/ gwait'[g]) => grec[g].present
  PROVE  GlobalInv'
<1>1. \A c \in GlobalCalls : CallShape(gcall'[c])
  BY DEF GlobalInv
<1>2. ASSUME NEW h \in GlobalNames \ {g}, ~graced'[h] PROVE InOrder(h)'
  <2>1. InOrder(h)
    BY <1>2 DEF GlobalInv
  <2>. QED  BY <2>1, OtherGlobals
<1>3. ASSUME ~graced'[g] PROVE InOrder(g)'
  <2>1. OneCall(g) /\ PortsAgree(g) /\ Accounted(g)
    BY <1>3 DEF GlobalInv, InOrder
  <2>2. \A c \in GlobalCalls : gcall[c].name = g => CallAgrees(c, g)
    BY <1>3 DEF GlobalInv, InOrder
  <2>3. grec[g].present /\ ~gman[g].present =>
          \E c \in GlobalCalls : /\ gcall[c].name = g /\ gcall[c].at = "persist"
                                 /\ \A d \in GlobalCalls : gcall[d].name = g => d = c
    BY <2>1 DEF Accounted, OneCall
  <2>4. grec[g].present /\ ~gman[g].present =>
          /\ grec[g].port # NoPort
          /\ gunit[g].port # NoPort => gunit[g].port = grec[g].port
          /\ g \in FixedGlobals => grec[g].port = FixedPort[g]
          /\ \A c \in GlobalCalls : gcall[c].name = g => gcall[c].at = "persist"
    BY <2>2, <2>3 DEF CallAgrees
  <2>5. PortsAgree(g)'
    BY <1>3, <2>1, <2>4 DEF PortsAgree
  <2>6. OneCall(g)'
    BY <2>1 DEF OneCall
  <2>7. Accounted(g)'
    BY <1>3, <2>1 DEF Accounted, Engaged
  <2>8. ASSUME NEW c \in GlobalCalls, gcall'[c].name = g PROVE CallAgrees(c, g)'
    <3>1. CallAgrees(c, g)
      BY <2>2, <2>8
    <3>2. CASE grec[g].present /\ ~gman[g].present
      <4>1. gcall[c].at = "persist"
        BY <2>4, <2>8, <3>2
      <4>. QED  BY <3>1, <3>2, <4>1 DEF CallAgrees
    <3>3. CASE ~(grec[g].present /\ ~gman[g].present)
      BY <1>3, <2>1, <3>1, <3>3 DEF CallAgrees, PortsAgree
    <3>. QED  BY <3>2, <3>3
  <2>. QED  BY <2>5, <2>6, <2>7, <2>8 DEF InOrder
<1>. QED  BY <1>1, <1>2, <1>3 DEF GlobalInv

LEMMA RestartGlobalStep ==
  ASSUME GlobalInv, GlobalAssumption, NEW g \in GlobalNames, restart_global_no_wait(g)
  PROVE  GlobalInv'
<1>1. GlobalTypeOK /\ grec[g] \in GlobalRec /\ gunit[g] \in GlobalUnit
  BY DEF GlobalInv, GlobalTypeOK
<1>2. CASE RestartMark(g)
  <2>1. /\ grec[g].present /\ gfaults' = gfaults + 1
        /\ grec' = [grec EXCEPT ![g].state = "Starting"]
        /\ grest' = [grest EXCEPT ![g] = "persist"]
        /\ UNCHANGED <<gman, gunit, gowned, gcall, gwait, gserving, gups, graced>>
    BY <1>2 DEF RestartMark, Fault
  <2>2. /\ grec' \in [GlobalNames -> GlobalRec]
        /\ \A h \in GlobalNames \ {g} : grec'[h] = grec[h]
        /\ grec'[g].present = grec[g].present /\ grec'[g].port = grec[g].port
    BY <1>1, <2>1 DEF GlobalTypeOK, GlobalRec
  <2>3. /\ grest' \in [GlobalNames -> {"idle", "persist", "unit"}]
        /\ \A h \in GlobalNames \ {g} : grest'[h] = grest[h]
    BY <1>1, <2>1 DEF GlobalTypeOK
  <2>4. GlobalTypeOK'
    BY <1>1, <2>1, <2>2, <2>3 DEF GlobalTypeOK
  <2>. QED  BY <2>1, <2>2, <2>3, <2>4, QuietGlobal
<1>3. ~graced[g] => (grest[g] # "idle" \/ gwait[g] => grec[g].present)
  BY DEF GlobalInv, InOrder, Accounted
<1>4. CASE RestartPersist(g)
  <2>1. /\ grest[g] = "persist" /\ gman' = [gman EXCEPT ![g] = grec[g]]
        /\ grest' = [grest EXCEPT ![g] = "unit"]
        /\ UNCHANGED <<grec, gunit, gowned, gcall, gwait, gserving, gups, gfaults, graced>>
    BY <1>4 DEF RestartPersist
  <2>2. /\ gman' \in [GlobalNames -> GlobalRec] /\ gman'[g] = grec[g]
        /\ \A h \in GlobalNames \ {g} : gman'[h] = gman[h]
    BY <1>1, <2>1 DEF GlobalTypeOK
  <2>3. /\ grest' \in [GlobalNames -> {"idle", "persist", "unit"}]
        /\ \A h \in GlobalNames \ {g} : grest'[h] = grest[h]
    BY <1>1, <2>1 DEF GlobalTypeOK
  <2>4. GlobalTypeOK'
    BY <1>1, <2>1, <2>2, <2>3 DEF GlobalTypeOK
  <2>5. ~graced[g] => grec[g].present
    BY <1>3, <2>1
  <2>. QED  BY <2>1, <2>2, <2>3, <2>4, <2>5, QuietGlobal
<1>5. CASE RestartGlobalUnit(g)
  <2>1. /\ grest[g] = "unit"
        /\ \/ /\ gunit[g].port # NoPort
              /\ gunit' = [gunit EXCEPT ![g].active = TRUE]
              /\ gwait' = [gwait EXCEPT ![g] = TRUE]
           \/ UNCHANGED <<gunit, gwait>>
        /\ grest' = [grest EXCEPT ![g] = "idle"]
        /\ UNCHANGED <<grec, gman, gowned, gcall, gserving, gups, gfaults, graced>>
    BY <1>5 DEF RestartGlobalUnit
  <2>2. /\ gunit' \in [GlobalNames -> GlobalUnit] /\ gwait' \in [GlobalNames -> BOOLEAN]
        /\ gunit'[g].port = gunit[g].port
        /\ gunit'[g].active => gunit[g].active \/ gunit[g].port # NoPort
        /\ \A h \in GlobalNames \ {g} : gunit'[h] = gunit[h] /\ gwait'[h] = gwait[h]
    <3>1. CASE UNCHANGED <<gunit, gwait>>
      BY <1>1, <3>1 DEF GlobalTypeOK
    <3>2. CASE /\ gunit[g].port # NoPort
               /\ gunit' = [gunit EXCEPT ![g].active = TRUE]
               /\ gwait' = [gwait EXCEPT ![g] = TRUE]
      <4>1. PICK u \in GlobalUnit : u = gunit[g]
        BY <1>1
      <4>2. [u EXCEPT !.active = TRUE] \in GlobalUnit /\ [u EXCEPT !.active = TRUE].port = u.port
        BY DEF GlobalUnit
      <4>3. PICK v \in GlobalUnit : v = [u EXCEPT !.active = TRUE] /\ v.port = u.port
        BY <4>2, Zenon
      <4>4. gunit' = [gunit EXCEPT ![g] = v]
        BY <3>2, <4>1, <4>3
      <4>5. /\ gunit' \in [GlobalNames -> GlobalUnit] /\ gunit'[g] = v
            /\ \A h \in GlobalNames \ {g} : gunit'[h] = gunit[h]
        BY <1>1, <4>4 DEF GlobalTypeOK
      <4>6. /\ gwait' \in [GlobalNames -> BOOLEAN]
            /\ \A h \in GlobalNames \ {g} : gwait'[h] = gwait[h]
        BY <1>1, <3>2 DEF GlobalTypeOK
      <4>. QED  BY <3>2, <4>1, <4>3, <4>5, <4>6
    <3>. QED  BY <2>1, <3>1, <3>2
  <2>3. /\ grest' \in [GlobalNames -> {"idle", "persist", "unit"}]
        /\ \A h \in GlobalNames \ {g} : grest'[h] = grest[h]
    BY <1>1, <2>1 DEF GlobalTypeOK
  <2>4. GlobalTypeOK'
    BY <1>1, <2>1, <2>2, <2>3 DEF GlobalTypeOK
  <2>5. ~graced[g] => grec[g].present
    BY <1>3, <2>1
  <2>. QED  BY <2>1, <2>2, <2>3, <2>4, <2>5, QuietGlobal
<1>6. CASE RestartResult(g)
  <2>1. PICK state \in {"Ready", "Failed"} :
        /\ gwait[g] /\ gwait' = [gwait EXCEPT ![g] = FALSE]
        /\ grec' = [grec EXCEPT ![g].state = state]
        /\ gman' = [gman EXCEPT ![g] = grec'[g]]
        /\ UNCHANGED <<gunit, gowned, gcall, grest, gserving, gups, gfaults, graced>>
    BY <1>6 DEF RestartResult
  <2>2. /\ grec' \in [GlobalNames -> GlobalRec]
        /\ \A h \in GlobalNames \ {g} : grec'[h] = grec[h]
        /\ grec'[g].present = grec[g].present /\ grec'[g].port = grec[g].port
    BY <1>1, <2>1 DEF GlobalTypeOK, GlobalRec
  <2>3. /\ gman' \in [GlobalNames -> GlobalRec] /\ gman'[g] = grec'[g]
        /\ \A h \in GlobalNames \ {g} : gman'[h] = gman[h]
    BY <1>1, <2>1, <2>2 DEF GlobalTypeOK
  <2>4. /\ gwait' \in [GlobalNames -> BOOLEAN]
        /\ \A h \in GlobalNames \ {g} : gwait'[h] = gwait[h]
    BY <1>1, <2>1 DEF GlobalTypeOK
  <2>5. GlobalTypeOK'
    BY <1>1, <2>1, <2>2, <2>3, <2>4 DEF GlobalTypeOK
  <2>6. ~graced[g] => grec[g].present
    BY <1>3, <2>1
  <2>. QED  BY <2>1, <2>2, <2>3, <2>4, <2>5, <2>6, QuietGlobal
<1>. QED  BY <1>2, <1>4, <1>5, <1>6 DEF restart_global_no_wait

LEMMA DeathStep ==
  ASSUME GlobalInv, GlobalAssumption, NEW g \in GlobalNames, GlobalUnitDies(g)
  PROVE  GlobalInv'
<1>1. /\ gfaults' = gfaults + 1
      /\ gunit' = [gunit EXCEPT ![g].active = FALSE]
      /\ UNCHANGED <<grec, gman, gowned, gcall, grest, gwait, gserving, gups, graced>>
  BY DEF GlobalUnitDies, Fault
<1>2. GlobalTypeOK /\ gunit[g] \in GlobalUnit
  BY DEF GlobalInv, GlobalTypeOK
<1>3. /\ gunit' \in [GlobalNames -> GlobalUnit]
      /\ gunit'[g].port = gunit[g].port /\ ~gunit'[g].active
      /\ \A h \in GlobalNames \ {g} : gunit'[h] = gunit[h]
  BY <1>1, <1>2 DEF GlobalTypeOK, GlobalUnit
<1>4. GlobalTypeOK'
  BY <1>1, <1>2, <1>3 DEF GlobalTypeOK
<1>5. ~graced[g] => (grest[g] # "idle" \/ gwait[g] => grec[g].present)
  BY DEF GlobalInv, InOrder, Accounted
<1>. QED  BY <1>1, <1>3, <1>4, <1>5, QuietGlobal

(***************************************************************************)
(* A restart of the daemon.  No call survives it, and a global on which no *)
(* call was at work has its record, its unit and its manifest agree.       *)
(***************************************************************************)
LEMMA DaemonStep ==
  ASSUME GlobalInv, GlobalAssumption, DaemonRestarts
  PROVE  GlobalInv'
<1>1. PICK gone \in SUBSET GlobalNames :
        LET kept == {g \in GlobalNames \ gone : gman[g].present} IN
        /\ grec' = [g \in GlobalNames |-> IF g \in kept THEN gman[g] ELSE NoGlobal]
        /\ gowned' = [g \in GlobalNames |-> IF g \in kept THEN {gman[g].port} ELSE {}]
        /\ gcall' = [c \in GlobalCalls |->
                        IF c = BootCall
                          THEN [NoCall EXCEPT !.at = "load", !.todo = kept]
                          ELSE NoCall]
  BY Zenon DEF DaemonRestarts
<1>2. PICK kept \in SUBSET GlobalNames : kept = {g \in GlobalNames \ gone : gman[g].present}
  OBVIOUS
<1>3. /\ gfaults' = gfaults + 1
      /\ grest' = [g \in GlobalNames |-> "idle"]
      /\ gwait' = [g \in GlobalNames |-> FALSE]
      /\ gserving' = FALSE
      /\ graced' = [g \in GlobalNames |-> graced[g] \/ \E c \in GlobalCalls : Engaged(c, g)]
      /\ UNCHANGED <<gman, gunit, gups>>
  BY Zenon DEF DaemonRestarts, Fault
<1>4. GlobalTypeOK
  BY DEF GlobalInv
<1>5. PICK R \in GlobalCall :
        R = [NoCall EXCEPT !.at = "load", !.todo = kept] /\ R.at = "load" /\ R.name = NoName
  BY LoadFields, Zenon
<1>6. PICK N \in GlobalCall : N = NoCall /\ N.at = "idle" /\ N.name = NoName
  BY NoCallFields
<1>7. gcall' = [c \in GlobalCalls |-> IF c = BootCall THEN R ELSE N]
  BY <1>1, <1>2, <1>5, <1>6
<1>8. /\ gcall' \in [GlobalCalls -> GlobalCall]
      /\ \A c \in GlobalCalls : CallShape(gcall'[c]) /\ gcall'[c].name = NoName
  BY <1>5, <1>6, <1>7 DEF CallShape
<1>9. /\ grec' \in [GlobalNames -> GlobalRec]
      /\ \A g \in GlobalNames :
            \/ gman[g].present /\ grec'[g] = gman[g]
            \/ ~grec'[g].present
  <2>1. grec' = [g \in GlobalNames |-> IF g \in kept THEN gman[g] ELSE NoGlobal]
    BY <1>1, <1>2
  <2>. QED  BY <1>2, <1>4, <2>1, NoCallFields DEF GlobalTypeOK
<1>10. gowned' \in [GlobalNames -> SUBSET GlobalPort]
  <2>1. gowned' = [g \in GlobalNames |-> IF g \in kept THEN {gman[g].port} ELSE {}]
    BY <1>1, <1>2
  <2>2. \A g \in GlobalNames : gman[g].port \in GlobalPort
    BY <1>4 DEF GlobalTypeOK, GlobalRec
  <2>. QED  BY <2>1, <2>2
<1>11. /\ graced' \in [GlobalNames -> BOOLEAN]
       /\ \A g \in GlobalNames : ~graced'[g] =>
             ~graced[g] /\ \A c \in GlobalCalls : ~Engaged(c, g)
  <2>1. \A g \in GlobalNames : (graced[g] \/ \E c \in GlobalCalls : Engaged(c, g)) \in BOOLEAN
    BY <1>4 DEF GlobalTypeOK
  <2>. QED  BY <1>3, <2>1, Zenon
<1>12. GlobalTypeOK'
  <2>1. gfaults' \in Nat
    BY <1>3, <1>4 DEF GlobalTypeOK
  <2>2. grest' \in [GlobalNames -> {"idle", "persist", "unit"}] /\ gwait' \in [GlobalNames -> BOOLEAN]
    BY <1>3
  <2>. QED  BY <1>3, <1>4, <1>8, <1>9, <1>10, <1>11, <2>1, <2>2 DEF GlobalTypeOK
<1>13. ASSUME NEW g \in GlobalNames, ~graced'[g] PROVE InOrder(g)'
  <2>1. InOrder(g) /\ \A c \in GlobalCalls : ~Engaged(c, g)
    BY <1>11, <1>13 DEF GlobalInv
  <2>2. g # NoName
    BY DEF GlobalAssumption
  <2>3. \A c \in GlobalCalls : gcall'[c].name # g
    BY <1>8, <2>2
  <2>4. gunit'[g] = gunit[g] /\ gman'[g] = gman[g] /\ grest'[g] = "idle" /\ gwait'[g] = FALSE
    BY <1>3
  <2>5. PortsAgree(g)'
    BY <1>9, <2>1, <2>4 DEF InOrder, PortsAgree
  <2>6. Accounted(g)'
    BY <1>9, <2>1, <2>4 DEF InOrder, Accounted
  <2>. QED  BY <2>3, <2>5, <2>6 DEF InOrder, OneCall
<1>. QED  BY <1>8, <1>12, <1>13 DEF GlobalInv

-----------------------------------------------------------------------------
LEMMA GlobalInitInv ==
  ASSUME GlobalInit, GlobalAssumption
  PROVE  GlobalInv
<1>1. GlobalTypeOK
  BY NoCallFields DEF GlobalInit, GlobalTypeOK
<1>2. \A c \in GlobalCalls : gcall[c] = NoCall
  BY DEF GlobalInit
<1>3. \A c \in GlobalCalls : CallShape(gcall[c]) /\ gcall[c].name = NoName
  BY <1>2, NoCallFields DEF CallShape
<1>4. ASSUME NEW g \in GlobalNames PROVE InOrder(g)
  <2>1. /\ \A c \in GlobalCalls : gcall[c].name # g
        /\ ~grec[g].present /\ ~gman[g].present /\ ~gunit[g].active /\ gunit[g].port = NoPort
        /\ grest[g] = "idle" /\ ~gwait[g]
    BY <1>3, NoCallFields DEF GlobalInit, GlobalAssumption
  <2>. QED  BY <2>1 DEF InOrder, OneCall, PortsAgree, Accounted
<1>. QED  BY <1>1, <1>3, <1>4 DEF GlobalInv

LEMMA GlobalStutter ==
  ASSUME GlobalInv, UNCHANGED globalVars
  PROVE  GlobalInv'
<1>1. UNCHANGED <<grec, gman, gunit, gowned, gcall, grest, gwait, gserving, gups, gfaults, graced>>
  BY DEF globalVars
<1>2. GlobalTypeOK'
  BY <1>1 DEF GlobalInv, GlobalTypeOK
<1>3. ASSUME NEW g \in GlobalNames, ~graced'[g] PROVE InOrder(g)'
  <2>1. InOrder(g)
    BY <1>1, <1>3 DEF GlobalInv
  <2>. QED  BY <1>1, <2>1, OtherGlobals
<1>4. \A c \in GlobalCalls : CallShape(gcall'[c])
  BY <1>1 DEF GlobalInv
<1>. QED  BY <1>2, <1>3, <1>4 DEF GlobalInv

LEMMA ServedPort ==
  ASSUME GlobalInv
  PROVE  SharedPortIsServed
<1>. SUFFICES ASSUME NEW g \in GlobalNames, grec[g].present, gunit[g].active, ~Busy(g), ~graced[g]
              PROVE  grec[g].port = gunit[g].port
  BY DEF SharedPortIsServed
<1>1. InOrder(g) /\ \A c \in GlobalCalls : ~Engaged(c, g)
  BY DEF GlobalInv, Busy
<1>2. gman[g].present
  BY <1>1 DEF InOrder, Accounted, Engaged
<1>. QED  BY <1>1, <1>2 DEF InOrder, PortsAgree

(***************************************************************************)
(* The manifest is the meeting point: whoever works on a global that no    *)
(* two calls met on uses the manifest's port, and a unit whose port is in  *)
(* no manifest belongs to the one call that is about to write it.  Hence   *)
(* the port that a record shows is the port its active unit serves, for    *)
(* any number of globals, overlapping ups, restarts and crashes.           *)
(***************************************************************************)
THEOREM SharedPortServed == GlobalSpec => []SharedPortIsServed
<1>. USE GlobalAssumption
<1>1. GlobalInit => GlobalInv
  BY GlobalInitInv
<1>2. GlobalInv /\ [GlobalNext]_globalVars => GlobalInv'
  <2>. SUFFICES ASSUME GlobalInv, [GlobalNext]_globalVars PROVE GlobalInv'
    OBVIOUS
  <2>1. ASSUME NEW c \in GlobalCalls, ensure_globals(c) PROVE GlobalInv'
    BY <2>1, EnsureBeginStep, LoadStep, StatusStep, StartStep, WaitStep, UpsertStep, PersistStep,
       EnsureEndsStep, Zenon DEF ensure_globals
  <2>2. ASSUME NEW g \in GlobalNames, restart_global_no_wait(g) \/ GlobalUnitDies(g) PROVE GlobalInv'
    BY <2>2, RestartGlobalStep, DeathStep, Zenon
  <2>3. CASE DaemonRestarts
    BY <2>3, DaemonStep, Zenon
  <2>4. CASE UNCHANGED globalVars
    BY <2>4, GlobalStutter, Zenon
  <2>. QED  BY <2>1, <2>2, <2>3, <2>4, Zenon DEF GlobalNext
<1>3. GlobalInv => SharedPortIsServed
  BY ServedPort
<1>. QED  BY <1>1, <1>2, <1>3, PTL DEF GlobalSpec

-----------------------------------------------------------------------------
(* The planning of a stack. *)

-----------------------------------------------------------------------------
(* Sequences as the queues and orders of the code use them.                *)

(***************************************************************************)
(* push_back adds one element at the end and disturbs no other.            *)
(***************************************************************************)
LEMMA PushBack ==
    ASSUME NEW S, NEW q \in Seq(S), NEW x \in S
    PROVE  /\ Append(q, x) \in Seq(S)
           /\ Len(Append(q, x)) = Len(q) + 1
           /\ \A i \in 1..Len(q) : Append(q, x)[i] = q[i]
           /\ Append(q, x)[Len(q) + 1] = x
           /\ Elements(Append(q, x)) = Elements(q) \cup {x}
           /\ Distinct(q) /\ x \notin Elements(q) => Distinct(Append(q, x))
<1>1. /\ Append(q, x) \in Seq(S)
      /\ Len(Append(q, x)) = Len(q) + 1
      /\ \A i \in 1..Len(q) : Append(q, x)[i] = q[i]
      /\ Append(q, x)[Len(q) + 1] = x
  OBVIOUS
<1>2. Len(q) \in Nat
  OBVIOUS
<1>3. Elements(Append(q, x)) = Elements(q) \cup {x}
  <2>1. \A i \in 1..(Len(q) + 1) : Append(q, x)[i] \in Elements(q) \cup {x}
    BY <1>1, <1>2 DEF Elements
  <2>2. \A i \in 1..Len(q) : q[i] \in Elements(Append(q, x))
    BY <1>1, <1>2 DEF Elements
  <2>3. x \in Elements(Append(q, x))
    BY <1>1, <1>2 DEF Elements
  <2> QED
    BY <1>1, <2>1, <2>2, <2>3 DEF Elements
<1>4. Distinct(q) /\ x \notin Elements(q) => Distinct(Append(q, x))
  BY <1>1, <1>2 DEF Elements, Distinct
<1> QED
  BY <1>1, <1>3, <1>4

(***************************************************************************)
(* pop_front takes the first element and leaves the others.                *)
(***************************************************************************)
LEMMA PopFront ==
    ASSUME NEW S, NEW q \in Seq(S), q # <<>>
    PROVE  /\ Head(q) \in S /\ Tail(q) \in Seq(S)
           /\ Elements(q) = {Head(q)} \cup Elements(Tail(q))
           /\ Distinct(q) => Distinct(Tail(q)) /\ Head(q) \notin Elements(Tail(q))
<1>1. /\ Head(q) = q[1] /\ Tail(q) \in Seq(S) /\ Len(q) \in Nat /\ Len(q) >= 1
      /\ Len(Tail(q)) = Len(q) - 1
      /\ \A i \in 1..Len(Tail(q)) : Tail(q)[i] = q[i + 1]
  OBVIOUS
<1>2. Elements(q) = {Head(q)} \cup Elements(Tail(q))
  <2>1. \A i \in 1..Len(q) : q[i] \in {Head(q)} \cup Elements(Tail(q))
    <3>1. ASSUME NEW i \in 1..Len(q), i # 1 PROVE q[i] \in Elements(Tail(q))
      <4>1. i - 1 \in 1..Len(Tail(q)) /\ Tail(q)[i - 1] = q[i]
        BY <1>1, <3>1
      <4> QED
        BY <4>1 DEF Elements
    <3> QED
      BY <1>1, <3>1
  <2>2. \A i \in 1..Len(Tail(q)) : Tail(q)[i] \in Elements(q)
    BY <1>1 DEF Elements
  <2>3. Head(q) \in Elements(q)
    BY <1>1 DEF Elements
  <2> QED
    BY <2>1, <2>2, <2>3 DEF Elements
<1>3. Distinct(q) => Distinct(Tail(q)) /\ Head(q) \notin Elements(Tail(q))
  BY <1>1 DEF Elements, Distinct
<1> QED
  BY <1>1, <1>2, <1>3

(***************************************************************************)
(* filter_to queues all dependencies of a service behind the others.       *)
(***************************************************************************)
LEMMA PushAll ==
    ASSUME NEW S, NEW q \in Seq(S), NEW r \in Seq(S)
    PROVE  q \o r \in Seq(S) /\ Elements(q \o r) = Elements(q) \cup Elements(r)
<1>1. /\ q \o r \in Seq(S) /\ Len(q) \in Nat /\ Len(r) \in Nat
      /\ Len(q \o r) = Len(q) + Len(r)
      /\ \A i \in 1..(Len(q) + Len(r)) :
           (q \o r)[i] = IF i <= Len(q) THEN q[i] ELSE r[i - Len(q)]
  OBVIOUS
<1>2. \A i \in 1..Len(q \o r) : (q \o r)[i] \in Elements(q) \cup Elements(r)
  <2> TAKE i \in 1..Len(q \o r)
  <2>1. CASE i <= Len(q)
    BY <1>1, <2>1 DEF Elements
  <2>2. CASE i > Len(q)
    <3>1. i - Len(q) \in 1..Len(r) /\ (q \o r)[i] = r[i - Len(q)]
      BY <1>1, <2>2
    <3> QED
      BY <3>1 DEF Elements
  <2> QED
    BY <1>1, <2>1, <2>2
<1>3. \A i \in 1..Len(q) : q[i] \in Elements(q \o r)
  <2> TAKE i \in 1..Len(q)
  <2>1. i \in 1..Len(q \o r) /\ (q \o r)[i] = q[i]
    BY <1>1
  <2> QED
    BY <2>1 DEF Elements
<1>4. \A i \in 1..Len(r) : r[i] \in Elements(q \o r)
  <2> TAKE i \in 1..Len(r)
  <2>1. i + Len(q) \in 1..Len(q \o r) /\ (q \o r)[i + Len(q)] = r[i]
    BY <1>1
  <2> QED
    BY <2>1 DEF Elements
<1> QED
  BY <1>1, <1>2, <1>3, <1>4 DEF Elements

-----------------------------------------------------------------------------
(* The inductive invariant.                                                *)

(***************************************************************************)
(* A sequence of length n has n positions.                                 *)
(***************************************************************************)
LEMMA Positions ==
  ASSUME NEW n \in Nat
  PROVE  IsFiniteSet(1..n) /\ Cardinality(1..n) = n
<1>1. /\ IsFiniteSet(1..n)
      /\ Cardinality(1..n) = IF 1 > n THEN 0 ELSE n - 1 + 1
  BY FS_Interval
<1> QED
  BY <1>1

(***************************************************************************)
(* The dependencies a service still waits for can be counted.              *)
(***************************************************************************)
LEMMA MissingCounts ==
    ASSUME PlanTypeOK, NEW n \in services, NEW G
    PROVE  /\ IsFiniteSet(Missing(n, G)) /\ Cardinality(Missing(n, G)) \in Nat
           /\ Cardinality(Missing(n, G)) = 0 <=> Missing(n, G) = {}
<1>1. Len(deps[n]) \in Nat
  BY DEF PlanTypeOK
<1>2. IsFiniteSet(1..Len(deps[n]))
  BY <1>1, Positions
<1>3. Missing(n, G) \in SUBSET (1..Len(deps[n]))
  BY DEF Missing
<1>4. IsFiniteSet(Missing(n, G))
  BY <1>2, <1>3, FS_Subset
<1> QED
  BY <1>4, FS_CardinalityType, FS_EmptySet

LEMMA PlanInitOK == PlanInit => PlanInv
<1> SUFFICES ASSUME PlanInit PROVE PlanInv
  OBVIOUS
<1>1. PlanTypeOK
  <2>1. \A x \in UpTo(ServiceNames, MaxDeps) : x \in Seq(ServiceNames)
    BY PlanAssumption DEF UpTo
  <2>2. deps \in [services -> Seq(ServiceNames)]
    BY <2>1 DEF PlanInit
  <2> QED
    BY <2>2 DEF PlanInit, PlanTypeOK
<1>2. DegreesCount
  BY DEF PlanInit, DegreesCount
<1>3. Elements(<<>>) = {} /\ Distinct(<<>>) /\ StartsAfterDeps(<<>>)
  BY DEF Elements, Distinct, StartsAfterDeps
<1>4. OrderGrows
  BY <1>3 DEF PlanInit, OrderGrows
<1>5. FilterGrows
  BY DEF PlanInit, FilterGrows
<1> QED
  BY <1>1, <1>2, <1>4, <1>5 DEF PlanInv

(***************************************************************************)
(* Steps of the sort leave the filter alone.                               *)
(***************************************************************************)
LEMMA FilterUntouched ==
    ASSUME FilterGrows, UNCHANGED <<services, deps, targets, frontier, needed, pos, plan>>,
           stage \notin {"filter", "unknown", "planned"}, stage' \notin {"filter", "unknown", "planned"}
    PROVE  FilterGrows'
BY DEF FilterGrows

(***************************************************************************)
(* validate lets a stack pass whose dependencies are all known.            *)
(***************************************************************************)
LEMMA ValidateOK == PlanInv /\ validate => PlanInv'
<1> SUFFICES ASSUME PlanInv, validate PROVE PlanInv'
  OBVIOUS
<1>1. stage = "load" /\ stage' \in {"count", "invalid"}
  BY DEF validate
<1>2. PlanTypeOK'
  BY <1>1 DEF validate, PlanInv, PlanTypeOK
<1>3. DegreesCount'
  BY <1>1 DEF DegreesCount
<1>4. OrderGrows'
  BY <1>1 DEF validate, PlanInv, OrderGrows, StartsAfterDeps, WaitsForItself
<1>5. FilterGrows'
  BY <1>1, FilterUntouched DEF validate, PlanInv
<1> QED
  BY <1>2, <1>3, <1>4, <1>5 DEF PlanInv

(***************************************************************************)
(* The degrees are counted with nothing placed.                            *)
(***************************************************************************)
LEMMA CountOK == PlanInv /\ CountDegrees => PlanInv'
<1> SUFFICES ASSUME PlanInv, CountDegrees PROVE PlanInv'
  OBVIOUS
<1>1. stage = "count" /\ stage' = "seed" /\ result = <<>> /\ ready = <<>> /\ scan' = services
  BY DEF CountDegrees, PlanInv, OrderGrows
<1>2. Elements(<<>>) = {}
  BY DEF Elements
<1>3. ASSUME NEW n \in services
      PROVE  /\ Pending(n)' = {k \in 1..Len(deps[n]) : deps[n][k] \in services}
             /\ Pending(n)' = Missing(n, {})
  BY <1>1, <1>2 DEF CountDegrees, Pending, Gone, Missing, PlanInv, OrderGrows
<1>4. \A n \in services : in_degree'[n] = Cardinality(Pending(n)') /\ in_degree'[n] \in Nat
  <2> TAKE n \in services
  <2>1. in_degree'[n] = Cardinality(Pending(n)')
    BY <1>3 DEF CountDegrees
  <2>2. Cardinality(Missing(n, {})) \in Nat
    BY MissingCounts DEF PlanInv
  <2> QED
    BY <1>3, <2>1, <2>2
<1>5. PlanTypeOK'
  BY <1>1, <1>4 DEF CountDegrees, PlanInv, PlanTypeOK
<1>6. DegreesCount'
  BY <1>1, <1>2, <1>4 DEF CountDegrees, DegreesCount
<1>7. OrderGrows'
  BY <1>1 DEF CountDegrees, PlanInv, OrderGrows, StartsAfterDeps, WaitsForItself
<1>8. FilterGrows'
  BY <1>1, FilterUntouched DEF CountDegrees, PlanInv
<1> QED
  BY <1>5, <1>6, <1>7, <1>8 DEF PlanInv

(***************************************************************************)
(* The services that wait for nothing are queued in the order of names.    *)
(***************************************************************************)
LEMMA SeedOK ==
    ASSUME PlanInv, NEW n \in services, SeedQueue(n)
    PROVE  PlanInv'
<1>1. stage = "seed" /\ stage' = "seed" /\ result = <<>> /\ result' = <<>> /\ n \in scan
  BY DEF SeedQueue, Comes, PlanInv, DegreesCount
<1>2. ready \in Seq(services) /\ scan \in SUBSET services /\ n \notin Elements(ready)
  BY <1>1 DEF PlanInv, PlanTypeOK, DegreesCount
<1>3. /\ ready' \in Seq(services) /\ Distinct(ready')
      /\ Elements(ready') = Elements(ready) \cup (IF in_degree[n] = 0 THEN {n} ELSE {})
  <2>1. CASE in_degree[n] = 0
    BY <1>2, <2>1, PushBack DEF SeedQueue, PlanInv, OrderGrows
  <2>2. CASE in_degree[n] # 0
    BY <1>2, <2>2 DEF SeedQueue, PlanInv, OrderGrows
  <2> QED
    BY <2>1, <2>2
<1>4. Elements(<<>>) = {}
  BY DEF Elements
<1>5. PlanTypeOK'
  BY <1>1, <1>3 DEF SeedQueue, PlanInv, PlanTypeOK
<1>6. DegreesCount'
  <2>1. \A m \in services : Pending(m)' = Pending(m)
    BY <1>1 DEF SeedQueue, Pending, Gone, Missing
  <2> QED
    BY <1>1, <1>2, <1>3, <1>4, <2>1 DEF SeedQueue, PlanInv, DegreesCount
<1>7. OrderGrows'
  BY <1>1, <1>3, <1>4 DEF SeedQueue, PlanInv, OrderGrows, StartsAfterDeps, WaitsForItself
<1>8. FilterGrows'
  BY <1>1, FilterUntouched DEF SeedQueue, PlanInv
<1> QED
  BY <1>5, <1>6, <1>7, <1>8 DEF PlanInv

(***************************************************************************)
(* A service is placed when all it depends on has been placed before it.   *)
(***************************************************************************)
LEMMA PopOK == PlanInv /\ PopReady => PlanInv'
<1> SUFFICES ASSUME PlanInv, PopReady PROVE PlanInv'
  OBVIOUS
<1> DEFINE q == Head(ready)
<1>1. /\ stage \in {"seed", "visit"} /\ stage' = "visit" /\ scan = {} /\ scan' = services
      /\ ready # <<>> /\ ready' = Tail(ready) /\ result' = Append(result, q) /\ current' = q
      /\ services' = services /\ deps' = deps /\ in_degree' = in_degree
  BY DEF PopReady
<1>2. ready \in Seq(services) /\ result \in Seq(services)
  BY DEF PlanInv, PlanTypeOK
<1>3. /\ q \in services /\ ready' \in Seq(services) /\ Distinct(ready')
      /\ Elements(ready) = {q} \cup Elements(ready') /\ q \notin Elements(ready')
  BY <1>1, <1>2, PopFront DEF PlanInv, OrderGrows
<1>4. q \notin Elements(result)
  BY <1>3 DEF PlanInv, OrderGrows
<1>5. /\ result' \in Seq(services) /\ Distinct(result')
      /\ Elements(result') = Elements(result) \cup {q}
      /\ Len(result') = Len(result) + 1 /\ Len(result) \in Nat
      /\ \A i \in 1..Len(result) : result'[i] = result[i]
      /\ result'[Len(result) + 1] = q
  BY <1>1, <1>2, <1>3, <1>4, PushBack DEF PlanInv, OrderGrows
<1>6. \A k \in 1..Len(deps[q]) : deps[q][k] \in Elements(result)
  <2>1. in_degree[q] = 0 /\ in_degree[q] = Cardinality(Pending(q))
    BY <1>1, <1>3 DEF PlanInv, DegreesCount
  <2>2. Pending(q) = Missing(q, Elements(result))
    BY <1>1 DEF Pending, Gone
  <2>3. Pending(q) = {}
    BY <1>3, <2>1, <2>2, MissingCounts DEF PlanInv
  <2> QED
    BY <2>2, <2>3 DEF Missing
<1>7. PlanTypeOK'
  <2>1. pos = 0 /\ pos' = 0
    BY <1>1 DEF PopReady, PlanInv, FilterGrows
  <2> QED
    BY <1>1, <1>3, <1>5, <2>1 DEF PopReady, PlanInv, PlanTypeOK
<1>8. DegreesCount'
  <2>1. ASSUME NEW n \in services PROVE Pending(n)' = Pending(n)
    <3>1. Gone(n) = Elements(result)
      BY <1>1 DEF Gone
    <3>2. Gone(n)' = Elements(result)
      BY <1>1, <1>4, <1>5 DEF Gone
    <3> QED
      BY <1>1, <3>1, <3>2 DEF Pending, Missing
  <2>2. \A n \in services : in_degree'[n] = Cardinality(Pending(n)')
    BY <1>1, <2>1 DEF PlanInv, DegreesCount
  <2>3. Elements(result') \cup Elements(ready') = Elements(result) \cup Elements(ready)
    BY <1>3, <1>5
  <2>4. current' \in Elements(result')
    BY <1>1, <1>5
  <2> QED
    BY <1>1, <2>2, <2>3, <2>4 DEF PlanInv, DegreesCount
<1>9. OrderGrows'
  <2>1. StartsAfterDeps(result)
    BY DEF PlanInv, OrderGrows
  <2>2. StartsAfterDeps(result)'
    <3> SUFFICES ASSUME NEW i \in 1..Len(result'), NEW k \in 1..Len(deps[result'[i]])
                 PROVE  \E j \in 1..(i - 1) : result'[j] = deps[result'[i]][k]
      BY <1>1 DEF StartsAfterDeps
    <3>1. CASE i = Len(result) + 1
      <4>1. deps[q][k] \in Elements(result)
        BY <1>5, <1>6, <3>1
      <4>2. PICK j \in 1..Len(result) : result[j] = deps[q][k]
        BY <4>1 DEF Elements
      <4>3. j \in 1..(i - 1) /\ result'[j] = deps[result'[i]][k]
        BY <1>5, <3>1, <4>2
      <4> QED
        BY <4>3
    <3>2. CASE i \in 1..Len(result)
      <4>1. PICK j \in 1..(i - 1) : result[j] = deps[result[i]][k]
        BY <1>5, <2>1, <3>2 DEF StartsAfterDeps
      <4>2. j \in 1..Len(result)
        BY <1>5, <3>2
      <4> QED
        BY <1>5, <3>2, <4>1, <4>2
    <3> QED
      BY <1>5, <3>1, <3>2
  <2>3. ASSUME NEW C \in SUBSET services, WaitsForItself(C) PROVE C \cap Elements(result') = {}
    <3>1. C \cap Elements(result) = {}
      BY <2>3 DEF PlanInv, OrderGrows
    <3>2. q \notin C
      BY <1>6, <2>3, <3>1 DEF WaitsForItself
    <3> QED
      BY <1>5, <3>1, <3>2
  <2>4. \A C : WaitsForItself(C)' <=> WaitsForItself(C)
    BY <1>1 DEF WaitsForItself
  <2>5. Elements(result') \cap Elements(ready') = {}
    BY <1>3, <1>4, <1>5 DEF PlanInv, OrderGrows
  <2> QED
    BY <1>1, <1>3, <1>5, <2>2, <2>3, <2>4, <2>5 DEF PlanInv, OrderGrows
<1>10. FilterGrows'
  BY <1>1, FilterUntouched DEF PopReady, PlanInv
<1> QED
  BY <1>7, <1>8, <1>9, <1>10 DEF PlanInv

(***************************************************************************)
(* A dependent loses as many degrees as it lists the placed service, and   *)
(* is queued when it has none left, which happens once.                    *)
(***************************************************************************)
LEMMA VisitOK ==
    ASSUME PlanInv, NEW n \in services, VisitDependent(n)
    PROVE  PlanInv'
<1> DEFINE E == Elements(result)
           D == Edges(n, current)
<1>1. /\ stage = "visit" /\ stage' = "visit" /\ n \in scan /\ scan' = scan \ {n}
      /\ services' = services /\ deps' = deps /\ result' = result /\ current' = current
  BY DEF VisitDependent, Comes
<1>2. /\ PlanTypeOK /\ current \in E
      /\ \A m \in services : in_degree[m] = Cardinality(Pending(m))
  BY <1>1 DEF PlanInv, DegreesCount
<1>3. Pending(n) = Missing(n, E \ {current}) /\ Pending(n)' = Missing(n, E)
  BY <1>1 DEF Pending, Gone, Missing
<1>4. \A m \in services \ {n} : Pending(m)' = Pending(m)
  BY <1>1 DEF Pending, Gone, Missing
<1>5. /\ Missing(n, E) = Missing(n, E \ {current}) \ D
      /\ Missing(n, E \ {current}) \cap D = D
  BY <1>2 DEF Missing, Edges
<1>6. IsFiniteSet(Missing(n, E \ {current})) /\ IsFiniteSet(Missing(n, E))
  BY <1>2, MissingCounts
<1>7. Cardinality(Missing(n, E)) = Cardinality(Missing(n, E \ {current})) - Cardinality(D)
  BY <1>5, <1>6, FS_Difference
<1>8. in_degree' = [in_degree EXCEPT ![n] = @ - Cardinality(D)]
  BY DEF VisitDependent
<1>9. /\ in_degree'[n] = Cardinality(Pending(n)') /\ in_degree'[n] \in Nat
      /\ \A m \in services \ {n} : in_degree'[m] = in_degree[m]
      /\ in_degree' \in [services -> Nat]
  BY <1>2, <1>3, <1>7, <1>8, MissingCounts DEF PlanTypeOK
<1>10. ready \in Seq(services)
  BY <1>2 DEF PlanTypeOK
<1>11. D # {} => in_degree[n] # 0 /\ n \notin E \cup Elements(ready)
  <2>1. D # {} => in_degree[n] # 0
    BY <1>2, <1>3, <1>5, MissingCounts
  <2> QED
    BY <1>1, <2>1 DEF PlanInv, DegreesCount
<1>12. D = {} => in_degree'[n] = in_degree[n]
  BY <1>2, <1>3, <1>5, <1>9
<1> DEFINE pushed == IF D # {} /\ in_degree'[n] = 0 THEN {n} ELSE {}
<1>13. /\ ready' \in Seq(services) /\ Distinct(ready')
       /\ Elements(ready') = Elements(ready) \cup pushed
  <2>1. CASE D # {} /\ in_degree'[n] = 0
    BY <1>10, <1>11, <2>1, PushBack DEF VisitDependent, PlanInv, OrderGrows
  <2>2. CASE ~(D # {} /\ in_degree'[n] = 0)
    BY <1>10, <2>2 DEF VisitDependent, PlanInv, OrderGrows
  <2> QED
    BY <2>1, <2>2
<1>14. PlanTypeOK'
  BY <1>1, <1>2, <1>9, <1>13 DEF VisitDependent, PlanTypeOK
<1>15. DegreesCount'
  <2>1. \A m \in services : in_degree'[m] = Cardinality(Pending(m)')
    BY <1>2, <1>4, <1>9
  <2>2. \A m \in E \cup Elements(ready') : in_degree'[m] = 0
    <3> SUFFICES ASSUME NEW m \in E \cup Elements(ready') PROVE in_degree'[m] = 0
      OBVIOUS
    <3>1. m \in services
      <4>1. E \subseteq services
        <5>1. result \in Seq(services)
          BY <1>2 DEF PlanTypeOK
        <5> QED
          BY <5>1 DEF Elements
      <4>2. Elements(ready') \subseteq services
        BY <1>13 DEF Elements
      <4> QED
        BY <4>1, <4>2
    <3>2. CASE m \in pushed
      BY <3>2
    <3>3. CASE m \notin pushed
      <4>1. m \in E \cup Elements(ready) /\ in_degree[m] = 0
        BY <1>1, <1>13, <3>3 DEF PlanInv, DegreesCount
      <4>2. m = n => D = {}
        BY <1>11, <4>1
      <4> QED
        BY <1>9, <1>12, <3>1, <4>1, <4>2
    <3> QED
      BY <3>2, <3>3
  <2>3. \A m \in services : in_degree'[m] = 0 => m \in E \cup Elements(ready')
    <3> SUFFICES ASSUME NEW m \in services, in_degree'[m] = 0 PROVE m \in E \cup Elements(ready')
      OBVIOUS
    <3>1. CASE m = n /\ D # {}
      BY <1>13, <3>1
    <3>2. CASE ~(m = n /\ D # {})
      <4>1. in_degree[m] = 0
        BY <1>9, <1>12, <3>2
      <4> QED
        BY <1>1, <1>13, <4>1 DEF PlanInv, DegreesCount
    <3> QED
      BY <3>1, <3>2
  <2> QED
    BY <1>1, <1>2, <2>1, <2>2, <2>3 DEF DegreesCount
<1>16. OrderGrows'
  <2>1. E \cap Elements(ready') = {}
    BY <1>11, <1>13 DEF PlanInv, OrderGrows
  <2>2. StartsAfterDeps(result)' /\ Distinct(result)'
    BY <1>1 DEF PlanInv, OrderGrows, StartsAfterDeps
  <2>3. \A C : WaitsForItself(C)' <=> WaitsForItself(C)
    BY <1>1 DEF WaitsForItself
  <2> QED
    BY <1>1, <1>13, <2>1, <2>2, <2>3 DEF PlanInv, OrderGrows
<1>17. FilterGrows'
  BY <1>1, FilterUntouched DEF VisitDependent, PlanInv
<1> QED
  BY <1>14, <1>15, <1>16, <1>17 DEF PlanInv

(***************************************************************************)
(* The queue is empty: either every service is placed, or each of the      *)
(* others waits for one of the others.                                     *)
(***************************************************************************)
LEMMA SortEndsOK == PlanInv /\ SortEnds => PlanInv'
<1> SUFFICES ASSUME PlanInv, SortEnds PROVE PlanInv'
  OBVIOUS
<1> DEFINE E == Elements(result)
<1>1. /\ stage \in {"seed", "visit"} /\ scan = {} /\ ready = <<>>
      /\ stage' \in {"sorted", "circular"}
      /\ stage' = "sorted" <=> Len(result) = Cardinality(services)
      /\ UNCHANGED <<services, deps, in_degree, ready, result, scan>>
  BY DEF SortEnds
<1>2. PlanTypeOK /\ IsFiniteSet(services) /\ Distinct(result) /\ result \in Seq(services)
  BY PlanAssumption, FS_Subset DEF PlanInv, PlanTypeOK, OrderGrows
<1>3. E \subseteq services /\ Cardinality(1..Len(result)) = Len(result)
  <2>1. Len(result) \in Nat
    BY <1>2
  <2>2. Cardinality(1..Len(result)) = Len(result)
    BY <2>1, Positions
  <2> QED
    BY <1>2, <2>2 DEF Elements
<1>4. stage' = "sorted" => E = services
  <2> SUFFICES ASSUME Len(result) = Cardinality(services) PROVE E = services
    BY <1>1
  <2>1. result \in Injection(1..Len(result), services)
    BY <1>2 DEF Distinct, Injection, IsInjective
  <2>2. result \in Surjection(1..Len(result), services)
    BY <1>2, <1>3, <2>1, FS_Injection
  <2> QED
    BY <1>3, <2>2 DEF Elements, Surjection
<1>5. stage' = "circular" => WaitsForItself(services \ E)
  <2> SUFFICES ASSUME Len(result) # Cardinality(services) PROVE WaitsForItself(services \ E)
    BY <1>1
  <2>1. services \ E # {}
    <3> SUFFICES ASSUME E = services PROVE FALSE
      BY <1>3
    <3>1. result \in Injection(1..Len(result), services)
      BY <1>2 DEF Distinct, Injection, IsInjective
    <3>2. result \in Surjection(1..Len(result), services)
      BY <1>2 DEF Elements, Surjection
    <3> QED
      BY <1>2, <1>3, <3>1, <3>2, FS_Injection
  <2>2. ASSUME NEW n \in services \ E
        PROVE  \E k \in 1..Len(deps[n]) : deps[n][k] \in services \ E
    <3>1. Elements(ready) = {}
      BY <1>1 DEF Elements
    <3>2. in_degree[n] # 0
      BY <1>1, <3>1 DEF PlanInv, DegreesCount
    <3>3. in_degree[n] = Cardinality(Missing(n, E))
      BY <1>1 DEF PlanInv, DegreesCount, Pending, Gone
    <3>4. Missing(n, E) # {}
      BY <1>2, <3>2, <3>3, MissingCounts
    <3>5. \A k \in 1..Len(deps[n]) : deps[n][k] \in services
      BY <1>1 DEF PlanInv, OrderGrows
    <3> QED
      BY <3>4, <3>5 DEF Missing
  <2> QED
    BY <2>1, <2>2 DEF WaitsForItself
<1>6. PlanTypeOK'
  BY <1>1, <1>2 DEF SortEnds, PlanTypeOK
<1>7. DegreesCount'
  BY <1>1 DEF DegreesCount
<1>8. OrderGrows'
  <2>1. stage' = "circular" => \E C \in SUBSET services : WaitsForItself(C)
    BY <1>5
  <2> QED
    BY <1>1, <1>4, <2>1 DEF PlanInv, OrderGrows, StartsAfterDeps, WaitsForItself
<1>9. FilterGrows'
  BY <1>1, FilterUntouched DEF SortEnds, PlanInv
<1> QED
  BY <1>6, <1>7, <1>8, <1>9 DEF PlanInv

-----------------------------------------------------------------------------
(* Steps of the filter.                                                    *)

(***************************************************************************)
(* The filter leaves the order alone.                                      *)
(***************************************************************************)
LEMMA OrderUntouched ==
    ASSUME OrderGrows, UNCHANGED <<services, deps, ready, result>>,
           stage \in {"sorted", "filter"}, stage' \in {"filter", "unknown", "planned"}
    PROVE  OrderGrows' /\ DegreesCount'
<1>1. StartsAfterDeps(result)' /\ Distinct(result)' /\ Distinct(ready)'
  BY DEF OrderGrows, StartsAfterDeps
<1>2. \A C : WaitsForItself(C)' <=> WaitsForItself(C)
  BY DEF WaitsForItself
<1>3. OrderGrows'
  BY <1>1, <1>2 DEF OrderGrows
<1> QED
  BY <1>3 DEF DegreesCount

LEMMA FilteredOK ==
    ASSUME PlanInv, NEW ts \in UpTo(ServiceNames, MaxTargets), stack_plan_filtered(ts)
    PROVE  PlanInv'
<1>1. /\ stage = "sorted" /\ stage' \in {"filter", "planned"}
      /\ UNCHANGED <<services, deps, ready, result, pos>>
      /\ targets' = ts /\ frontier' = ts
      /\ pos = 0 /\ plan = <<>> /\ needed = {} /\ Elements(result) = services
  BY DEF stack_plan_filtered, PlanInv, FilterGrows, OrderGrows
<1>2. ts \in Seq(ServiceNames)
  BY PlanAssumption DEF UpTo
<1>3. PlanTypeOK'
  BY <1>1, <1>2 DEF stack_plan_filtered, PlanInv, PlanTypeOK
<1>4. OrderGrows' /\ DegreesCount'
  BY <1>1, OrderUntouched DEF PlanInv
<1>5. FilterGrows'
  <2>1. CASE ts = <<>>
    BY <1>1, <2>1 DEF stack_plan_filtered, FilterGrows
  <2>2. CASE ts # <<>>
    <3>1. stage' = "filter" /\ needed' = {} /\ plan' = <<>> /\ pos' = 0
      BY <1>1, <2>2 DEF stack_plan_filtered
    <3>2. \A i \in 1..Len(ts) : ts[i] \in Elements(ts)
      BY DEF Elements
    <3>3. \A C : Suffices(C)' => Elements(ts) \subseteq C
      BY <1>1 DEF Suffices, Elements
    <3>4. Elements(<<>>) = {} /\ Distinct(<<>>) /\ StartsAfterDeps(<<>>)'
      BY DEF Elements, Distinct, StartsAfterDeps
    <3>5. {result'[i] : i \in 1..0} \cap {} = {}
      OBVIOUS
    <3> QED
      BY <1>1, <2>2, <3>1, <3>2, <3>3, <3>4, <3>5 DEF FilterGrows
  <2> QED
    BY <2>1, <2>2
<1> QED
  BY <1>3, <1>4, <1>5 DEF PlanInv

(***************************************************************************)
(* A needed service brings its dependencies, which every sufficient set    *)
(* has as well.                                                            *)
(***************************************************************************)
LEMMA FilterPopOK == PlanInv /\ FilterPop => PlanInv'
<1> SUFFICES ASSUME PlanInv, FilterPop PROVE PlanInv'
  OBVIOUS
<1> DEFINE n == Head(frontier)
<1>1. /\ stage = "filter" /\ stage' \in {"filter", "unknown"} /\ frontier # <<>>
      /\ UNCHANGED <<services, deps, ready, result, targets, pos, plan>>
      /\ targets # <<>> /\ pos = 0
  BY DEF FilterPop, PlanInv, FilterGrows
<1>2. frontier \in Seq(ServiceNames) /\ deps \in [services -> Seq(ServiceNames)]
  BY DEF PlanInv, PlanTypeOK
<1>3. /\ Tail(frontier) \in Seq(ServiceNames)
      /\ Elements(frontier) = {n} \cup Elements(Tail(frontier))
  BY <1>1, <1>2, PopFront
<1>4. OrderGrows' /\ DegreesCount'
  BY <1>1, OrderUntouched DEF PlanInv
<1>5. CASE n \notin services
  <2>1. stage' = "unknown" /\ UNCHANGED <<frontier, needed>>
    BY <1>5 DEF FilterPop
  <2>2. PlanTypeOK'
    BY <1>1, <2>1 DEF FilterPop, PlanInv, PlanTypeOK
  <2>3. FilterGrows'
    BY <1>1, <2>1 DEF PlanInv, FilterGrows
  <2> QED
    BY <1>4, <2>2, <2>3 DEF PlanInv
<1>6. CASE n \in services
  <2>1. stage' = "filter" /\ needed' = needed \cup {n} /\ needed \in SUBSET services
    BY <1>1, <1>6 DEF FilterPop, PlanInv, PlanTypeOK
  <2>2. /\ frontier' \in Seq(ServiceNames)
        /\ Elements(frontier') = Elements(Tail(frontier))
                                    \cup (IF n \in needed THEN {} ELSE Elements(deps[n]))
    <3>1. CASE n \in needed
      BY <1>3, <1>6, <3>1 DEF FilterPop
    <3>2. CASE n \notin needed
      <4>1. frontier' = Tail(frontier) \o deps[n] /\ deps[n] \in Seq(ServiceNames)
        BY <1>2, <1>6, <3>2 DEF FilterPop
      <4>2. /\ Tail(frontier) \o deps[n] \in Seq(ServiceNames)
            /\ Elements(Tail(frontier) \o deps[n]) = Elements(Tail(frontier)) \cup Elements(deps[n])
        <5> HIDE DEF n
        <5>1. Tail(frontier) \in Seq(ServiceNames) /\ deps[n] \in Seq(ServiceNames)
          BY <1>3, <4>1
        <5> QED
          BY <5>1, PushAll, Zenon
      <4> QED
        BY <3>2, <4>1, <4>2
    <3> QED
      BY <3>1, <3>2
  <2>3. needed' \cup Elements(frontier') =
            needed \cup Elements(frontier) \cup (IF n \in needed THEN {} ELSE Elements(deps[n]))
    BY <1>3, <2>1, <2>2
  <2>4. PlanTypeOK'
    BY <1>1, <1>6, <2>1, <2>2 DEF FilterPop, PlanInv, PlanTypeOK
  <2>5. \A i \in 1..Len(targets) : targets[i] \in needed' \cup Elements(frontier')
    BY <1>1, <2>3 DEF PlanInv, FilterGrows
  <2>6. \A m \in needed' : \A k \in 1..Len(deps[m]) : deps[m][k] \in needed' \cup Elements(frontier')
    <3> SUFFICES ASSUME NEW m \in needed', NEW k \in 1..Len(deps[m])
                 PROVE  deps[m][k] \in needed' \cup Elements(frontier')
      OBVIOUS
    <3>1. CASE m \in needed
      BY <1>1, <2>3, <3>1 DEF PlanInv, FilterGrows
    <3>2. CASE m \notin needed
      <4>1. m = n /\ deps[m][k] \in Elements(deps[n])
        BY <2>1, <3>2 DEF Elements
      <4> QED
        BY <2>3, <3>2, <4>1
    <3> QED
      BY <3>1, <3>2
  <2>7. ASSUME NEW C \in SUBSET services, Suffices(C) PROVE needed' \cup Elements(frontier') \subseteq C
    <3>1. needed \cup Elements(frontier) \subseteq C
      BY <1>1, <2>7 DEF PlanInv, FilterGrows
    <3>2. Elements(deps[n]) \subseteq C
      BY <1>3, <2>7, <3>1 DEF Suffices, Elements
    <3> QED
      BY <2>3, <3>1, <3>2
  <2>8. \A C : Suffices(C)' <=> Suffices(C)
    BY <1>1 DEF Suffices
  <2>9. plan = <<>> /\ Elements(plan) = {}
    <3>1. Elements(plan) = {}
      BY <1>1 DEF PlanInv, FilterGrows
    <3>2. plan \in Seq(services)
      BY DEF PlanInv, PlanTypeOK
    <3> QED
      BY <3>1, <3>2 DEF Elements
  <2>10. Elements(plan') = {result'[i] : i \in 1..pos'} \cap needed'
    BY <1>1, <2>9
  <2>11. StartsAfterDeps(plan)' /\ Distinct(plan)'
    BY <1>1, <2>9 DEF StartsAfterDeps, Distinct
  <2>12. FilterGrows'
    BY <1>1, <2>1, <2>5, <2>6, <2>7, <2>8, <2>10, <2>11 DEF FilterGrows
  <2> QED
    BY <1>4, <2>4, <2>12 DEF PlanInv
<1> QED
  BY <1>5, <1>6

(***************************************************************************)
(* A needed service is put into the plan after its dependencies, which are *)
(* needed and come before it in the order of the stack.                    *)
(***************************************************************************)
LEMMA FilterOrderOK == PlanInv /\ FilterOrder => PlanInv'
<1> SUFFICES ASSUME PlanInv, FilterOrder PROVE PlanInv'
  OBVIOUS
<1> DEFINE x == result[pos + 1]
<1>1. /\ stage = "filter" /\ stage' = "filter" /\ frontier = <<>> /\ pos < Len(result)
      /\ pos' = pos + 1 /\ targets # <<>>
      /\ UNCHANGED <<services, deps, ready, result, targets, frontier, needed>>
      /\ plan' = IF x \in needed THEN Append(plan, x) ELSE plan
  BY DEF FilterOrder, PlanInv, FilterGrows
<1>2. /\ result \in Seq(services) /\ plan \in Seq(services) /\ pos \in Nat /\ Len(result) \in Nat
      /\ pos + 1 \in 1..Len(result) /\ x \in services
  BY <1>1 DEF PlanInv, PlanTypeOK
<1>3. /\ Elements(plan) = {result[i] : i \in 1..pos} \cap needed
      /\ Distinct(plan) /\ StartsAfterDeps(plan)
      /\ \A m \in needed : \A k \in 1..Len(deps[m]) : deps[m][k] \in needed \cup Elements(frontier)
  BY <1>1 DEF PlanInv, FilterGrows
<1>4. Elements(frontier) = {}
  BY <1>1 DEF Elements
<1>5. {result[i] : i \in 1..(pos + 1)} = {result[i] : i \in 1..pos} \cup {x}
  BY <1>2
<1>6. OrderGrows' /\ DegreesCount'
  BY <1>1, OrderUntouched DEF PlanInv
<1>7. x \notin Elements(plan)
  BY <1>2, <1>3 DEF PlanInv, OrderGrows, Distinct
<1>8. /\ plan' \in Seq(services) /\ Distinct(plan')
      /\ Elements(plan') = {result[i] : i \in 1..(pos + 1)} \cap needed
  <2>1. CASE x \in needed
    BY <1>1, <1>2, <1>3, <1>5, <1>7, <2>1, PushBack
  <2>2. CASE x \notin needed
    BY <1>1, <1>2, <1>3, <1>5, <2>2
  <2> QED
    BY <2>1, <2>2
<1>9. StartsAfterDeps(plan)'
  <2>1. CASE x \notin needed
    BY <1>1, <1>3, <2>1 DEF StartsAfterDeps
  <2>2. CASE x \in needed
    <3>1. /\ plan' = Append(plan, x) /\ Len(plan') = Len(plan) + 1 /\ Len(plan) \in Nat
          /\ \A i \in 1..Len(plan) : plan'[i] = plan[i]
          /\ plan'[Len(plan) + 1] = x
      BY <1>1, <1>2, <2>2, PushBack
    <3> SUFFICES ASSUME NEW i \in 1..Len(plan'), NEW k \in 1..Len(deps[plan'[i]])
                 PROVE  \E j \in 1..(i - 1) : plan'[j] = deps[plan'[i]][k]
      <4>1. deps' = deps
        BY <1>1
      <4> QED
        BY <4>1 DEF StartsAfterDeps
    <3>2. CASE i = Len(plan) + 1
      <4>1. k \in 1..Len(deps[x]) /\ deps[x][k] \in needed
        BY <1>3, <1>4, <2>2, <3>1, <3>2
      <4>2. PICK j \in 1..pos : result[j] = deps[x][k]
        BY <1>2, <4>1 DEF PlanInv, OrderGrows, StartsAfterDeps
      <4>3. deps[x][k] \in Elements(plan)
        BY <1>3, <4>1, <4>2
      <4>4. PICK l \in 1..Len(plan) : plan[l] = deps[x][k]
        BY <4>3 DEF Elements
      <4> QED
        BY <3>1, <3>2, <4>4
    <3>3. CASE i \in 1..Len(plan)
      <4>1. PICK j \in 1..(i - 1) : plan[j] = deps[plan[i]][k]
        BY <1>3, <3>1, <3>3 DEF StartsAfterDeps
      <4>2. j \in 1..Len(plan)
        BY <3>1, <3>3
      <4> QED
        BY <3>1, <3>3, <4>1, <4>2
    <3> QED
      BY <3>1, <3>2, <3>3
  <2> QED
    BY <2>1, <2>2
<1>10. PlanTypeOK'
  BY <1>1, <1>2, <1>8 DEF FilterOrder, PlanInv, PlanTypeOK
<1>11. FilterGrows'
  <2>1. \A C : Suffices(C)' <=> Suffices(C)
    BY <1>1 DEF Suffices
  <2> QED
    BY <1>1, <1>8, <1>9, <2>1 DEF PlanInv, FilterGrows
<1> QED
  BY <1>6, <1>10, <1>11 DEF PlanInv

LEMMA FilterEndsOK == PlanInv /\ FilterEnds => PlanInv'
<1> SUFFICES ASSUME PlanInv, FilterEnds PROVE PlanInv'
  OBVIOUS
<1>1. /\ stage = "filter" /\ stage' = "planned" /\ frontier = <<>> /\ pos = Len(result)
      /\ UNCHANGED <<services, deps, in_degree, ready, result, current, scan,
                     targets, frontier, needed, pos, plan>>
      /\ targets # <<>>
  BY DEF FilterEnds, PlanInv, FilterGrows
<1>2. PlanTypeOK'
  BY <1>1 DEF PlanInv, PlanTypeOK
<1>3. OrderGrows' /\ DegreesCount'
  BY <1>1, OrderUntouched DEF PlanInv
<1>4. (\A C : Suffices(C)' <=> Suffices(C)) /\ (StartsAfterDeps(plan)' <=> StartsAfterDeps(plan))
  BY <1>1 DEF Suffices, StartsAfterDeps
<1>5. FilterGrows'
  BY <1>1, <1>4 DEF PlanInv, FilterGrows
<1> QED
  BY <1>2, <1>3, <1>5 DEF PlanInv

LEMMA PlanStutters == PlanInv /\ UNCHANGED planVars => PlanInv'
<1> SUFFICES ASSUME PlanInv, UNCHANGED planVars PROVE PlanInv'
  OBVIOUS
<1>1. UNCHANGED <<services, deps, stage, in_degree, ready, result, current, scan,
                  targets, frontier, needed, pos, plan>>
  BY DEF planVars
<1>2. PlanTypeOK'
  BY <1>1 DEF PlanInv, PlanTypeOK
<1>3. \A n : Pending(n)' = Pending(n)
  BY <1>1 DEF Pending, Gone, Missing
<1>4. DegreesCount'
  BY <1>1, <1>3 DEF PlanInv, DegreesCount
<1>5. \A C : (WaitsForItself(C)' <=> WaitsForItself(C)) /\ (Suffices(C)' <=> Suffices(C))
  BY <1>1 DEF WaitsForItself, Suffices
<1>6. /\ StartsAfterDeps(result)' <=> StartsAfterDeps(result)
      /\ StartsAfterDeps(plan)' <=> StartsAfterDeps(plan)
  BY <1>1 DEF StartsAfterDeps
<1>7. OrderGrows'
  BY <1>1, <1>5, <1>6 DEF PlanInv, OrderGrows
<1>8. FilterGrows'
  BY <1>1, <1>5, <1>6 DEF PlanInv, FilterGrows
<1> QED
  BY <1>2, <1>4, <1>7, <1>8 DEF PlanInv

-----------------------------------------------------------------------------
(* Results.                                                                *)

(***************************************************************************)
(* Every step of validate, topo_sort and filter_to keeps the invariant.    *)
(***************************************************************************)
THEOREM PlanInvariant == PlanSpec => []PlanInv
<1>1. PlanInv /\ [PlanNext]_planVars => PlanInv'
  <2> SUFFICES ASSUME PlanInv, [PlanNext]_planVars PROVE PlanInv'
    OBVIOUS
  <2>1. CASE validate
    BY <2>1, ValidateOK
  <2>2. CASE topo_sort
    <3>1. CASE CountDegrees
      BY <3>1, CountOK
    <3>2. CASE PopReady
      BY <3>2, PopOK
    <3>3. CASE SortEnds
      BY <3>3, SortEndsOK
    <3>4. ASSUME NEW n \in services, SeedQueue(n) PROVE PlanInv'
      BY <3>4, SeedOK
    <3>5. ASSUME NEW n \in services, VisitDependent(n) PROVE PlanInv'
      BY <3>5, VisitOK
    <3> QED
      BY <2>2, <3>1, <3>2, <3>3, <3>4, <3>5 DEF topo_sort
  <2>3. CASE filter_to
    BY <2>3, FilterPopOK, FilterOrderOK, FilterEndsOK DEF filter_to
  <2>4. ASSUME NEW ts \in UpTo(ServiceNames, MaxTargets), stack_plan_filtered(ts) PROVE PlanInv'
    BY <2>4, FilteredOK
  <2>5. CASE UNCHANGED planVars
    BY <2>5, PlanStutters
  <2> QED
    BY <2>1, <2>2, <2>3, <2>4, <2>5 DEF PlanNext
<1> QED
  BY <1>1, PlanInitOK, PTL DEF PlanSpec

(***************************************************************************)
(* topo_sort gives a starting order of the whole stack or finds services   *)
(* that wait for each other, never both and never neither.                 *)
(***************************************************************************)
THEOREM SortIsCorrect == PlanSpec => []PlanMatchesReference
<1>1. PlanInv => PlanMatchesReference
  <2> SUFFICES ASSUME PlanInv PROVE PlanMatchesReference
    OBVIOUS
  <2>1. ASSUME Elements(result) = services, NEW C \in SUBSET services PROVE ~WaitsForItself(C)
    BY <2>1 DEF PlanInv, OrderGrows, WaitsForItself
  <2> QED
    BY <2>1 DEF PlanInv, OrderGrows, PlanMatchesReference, Lists
<1> QED
  BY <1>1, PlanInvariant, PTL

(***************************************************************************)
(* A filtered plan holds what was asked for and all it needs, in a         *)
(* starting order, and nothing else.                                       *)
(***************************************************************************)
THEOREM FilterIsCorrect == PlanSpec => []FilteredPlanIsLeast
<1>1. PlanInv => FilteredPlanIsLeast
  <2> SUFFICES ASSUME PlanInv, stage = "planned"
               PROVE  /\ targets # <<>> =>
                           /\ Suffices(needed)
                           /\ \A C \in SUBSET services : Suffices(C) => needed \subseteq C
                      /\ Lists(plan, needed) /\ StartsAfterDeps(plan)
    BY DEF FilteredPlanIsLeast
  <2>1. CASE targets = <<>>
    BY <2>1 DEF PlanInv, FilterGrows, OrderGrows, Lists
  <2>2. CASE targets # <<>>
    <3>1. frontier = <<>> /\ Elements(frontier) = {} /\ pos = Len(result)
      BY <2>2 DEF PlanInv, FilterGrows, Elements
    <3>2. Elements(plan) = needed
      BY <2>2, <3>1 DEF PlanInv, PlanTypeOK, FilterGrows, OrderGrows, Elements
    <3> QED
      BY <2>2, <3>1, <3>2 DEF PlanInv, FilterGrows, Suffices, Lists
  <2> QED
    BY <2>1, <2>2
<1> QED
  BY <1>1, PlanInvariant, PTL
=============================================================================
