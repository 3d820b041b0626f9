------------------------- MODULE LogIngest_proofs --------------------------
(***************************************************************************)
(* Proofs about LogIngest, for every number of sources, runs and lines:    *)
(* under any order of writes, truncations, jobs cut off at any step,       *)
(* crashes, evictions and deletions, no line is indexed twice, none that   *)
(* lies before a cursor is lost, and the numbers follow the file.          *)
(***************************************************************************)
EXTENDS LogIngest, FiniteSetTheorems, TLAPS

(***************************************************************************)
(* The invariant.  What a cursor that speaks of the current file has       *)
(* behind it is in the index and numbered in the order of the file, or     *)
(* was left out; so it is for the cursors of a job and the index as its    *)
(* batch will leave it.  The cursors lag: the state file behind the        *)
(* memory, the memory behind the job.  So what a batch deletes and adds    *)
(* has numbers that no cursor has behind it, and a job that is cut off at  *)
(* any point leaves the index right for the cursor that goes on.           *)
(***************************************************************************)
Working == gate \in {"next", "read", "commit", "save"}

StagedDoc(a) == [src |-> a.src, seq |-> a.seq, gen |-> a.gen, line |-> a.line, copy |-> 0]
Staged == {StagedDoc(a) : a \in job.adds}

\* The index as the batch will leave it.
Batch == IF gate = "save" THEN docs ELSE Kept \cup Staged

Excused == Blank \cup dropped \cup purged

\* A cursor c and the generation g of its file.
Speaks(c, g) == c.offset = 0 \/ c.gen = g

CursorInv(c, g, l) ==
    /\ c.offset = 0 => c.next_seq = 0
    /\ c.gen <= g \/ c.gen = Gone
    /\ c.gen = g => c.offset <= l

Covered(c, s, g, D, X) ==
    \A i \in 1 .. MaxLines :
        2 * i <= c.offset /\ <<s, g, i>> \notin X =>
            \E d \in D : d.src = s /\ d.gen = g /\ d.line = i /\ d.seq < c.next_seq

Ordered(c, s, g, D) ==
    /\ \A d \in D : d.src = s /\ d.seq < c.next_seq => d.gen = g /\ 2 * d.line <= c.offset
    /\ \A d, e \in D :
         /\ d.src = s /\ d.seq < c.next_seq /\ e.src = s /\ e.seq < c.next_seq
         /\ d.line < e.line
         => d.seq < e.seq

Indexed(c, s, g, D, X) == Speaks(c, g) => Covered(c, s, g, D, X) /\ Ordered(c, s, g, D)

Lags(c, b, g) == Speaks(c, g) /\ c.next_seq # 0 => Speaks(b, g) /\ c.next_seq <= b.next_seq

\* What the batch deletes and adds is not behind the cursor; u is the update of s.
Spared(c, s, g, adds, u) ==
    Speaks(c, g) =>
        /\ \A a \in adds : a.src = s => c.next_seq <= a.seq
        /\ u # NoUpdate => \A n \in u.delete_from_seq : c.next_seq <= n

Unique(D, slips) ==
    \A d, e \in D :
        d.src = e.src /\ d.gen = e.gen /\ d.line = e.line /\ <<d.src, d.gen>> \notin slips
          => d = e

CursorsInv ==
    /\ \A d \in docs : d.copy = 0
    /\ Unique(docs, slipped)
    /\ \A s \in Sources :
         /\ CursorInv(cursor[s], file[s].gen, len(s)) /\ CursorInv(saved[s], file[s].gen, len(s))
         /\ Indexed(cursor[s], s, file[s].gen, docs, Excused)
         /\ Indexed(saved[s], s, file[s].gen, docs, Excused)
         /\ Lags(saved[s], cursor[s], file[s].gen)

\* No work is in hand.
Idle(j) == j.updates = IdleJob.updates /\ j.adds = {} /\ j.open = NoSource

UpdateInv(s) ==
    /\ s \in job.todo => s # job.open /\ job.updates[s] = NoUpdate
    /\ job.updates[s] = NoUpdate => \A a \in job.adds : a.src # s
    /\ job.updates[s] # NoUpdate => job.updates[s].cursor = job.local[s]
    /\ Spared(cursor[s], s, file[s].gen, job.adds, job.updates[s])
    /\ Spared(saved[s], s, file[s].gen, job.adds, job.updates[s])

LocalInv(s) ==
    /\ CursorInv(job.local[s], file[s].gen, len(s))
    /\ Indexed(job.local[s], s, file[s].gen, Batch, Excused)
    /\ Lags(cursor[s], job.local[s], file[s].gen)

\* The first chunk of a source will delete from its number on; later ones only add.
OpenInv ==
    job.open # NoSource =>
      \/ /\ job.delete = {}
         /\ \A d \in Batch : d.src = job.open => d.seq < job.local[job.open].next_seq
      \/ /\ job.delete = {job.local[job.open].next_seq}
         /\ job.updates[job.open] = NoUpdate

Apart == gate # "save" => \A a \in job.adds, d \in Kept : d.src = a.src => d.seq < a.seq

JobInv ==
    /\ ~Working => Idle(job)
    /\ Working => \A s \in Sources : LocalInv(s)
    /\ \A s \in Sources : UpdateInv(s)
    /\ OpenInv /\ Apart
    /\ Unique(Batch, slipped)

IngestInv == TypeOK /\ CursorsInv /\ JobInv

-----------------------------------------------------------------------------
\* A cursor at the start of a file has nothing behind it.
LEMMA IndexedAtStart ==
  ASSUME NEW c \in Cursor, c.next_seq = 0, c.offset = 0, NEW s, NEW g, NEW X,
         NEW D, \A d \in D : d \in Doc
  PROVE  Indexed(c, s, g, D, X)
<1>1. c.offset \in Nat
  BY DEF Cursor
<1>2. Covered(c, s, g, D, X)
  BY BoundAssumption DEF Covered
<1>3. \A d \in D : d.seq \in Nat
  BY DEF Doc
<1>4. Ordered(c, s, g, D)
  BY <1>3 DEF Ordered
<1>. QED  BY <1>2, <1>4 DEF Indexed

\* The documents behind the cursor stay, or their lines are excused.
LEMMA IndexedStays ==
  ASSUME NEW c, NEW s, NEW g, NEW D, NEW X, NEW E, NEW Y, Indexed(c, s, g, D, X),
         \A i \in 1 .. MaxLines : <<s, g, i>> \in X => <<s, g, i>> \in Y,
         Speaks(c, g) =>
           /\ \A d \in E : d.src = s /\ d.seq < c.next_seq => d \in D
           /\ \A d \in D : d.src = s /\ d.gen = g /\ d.seq < c.next_seq =>
                            d \in E \/ <<s, g, d.line>> \in Y
  PROVE  Indexed(c, s, g, E, Y)
<1>. SUFFICES ASSUME Speaks(c, g)
              PROVE  Covered(c, s, g, E, Y) /\ Ordered(c, s, g, E)
  BY DEF Indexed
<1>1. Covered(c, s, g, D, X) /\ Ordered(c, s, g, D)
  BY DEF Indexed
<1>2. Covered(c, s, g, E, Y)
  <2>. SUFFICES ASSUME NEW i \in 1 .. MaxLines, 2 * i <= c.offset, <<s, g, i>> \notin Y
                PROVE  \E d \in E : d.src = s /\ d.gen = g /\ d.line = i /\ d.seq < c.next_seq
    BY DEF Covered
  <2>1. <<s, g, i>> \notin X
    OBVIOUS
  <2>2. PICK d \in D : d.src = s /\ d.gen = g /\ d.line = i /\ d.seq < c.next_seq
    BY <1>1, <2>1 DEF Covered
  <2>3. d \in E
    BY <2>2
  <2>. QED  BY <2>2, <2>3
<1>3. Ordered(c, s, g, E)
  BY <1>1 DEF Ordered
<1>. QED  BY <1>2, <1>3

\* With no work in hand the batch leaves the index as it is.
LEMMA BatchOfIdle ==
  ASSUME TypeOK, job.updates = IdleJob.updates, job.adds = {}
  PROVE  Batch = docs /\ Kept = docs
<1>1. Staged = {}
  BY DEF Staged
<1>2. \A s \in Sources : job.updates[s] = NoUpdate
  BY DEF IdleJob
<1>3. \A d \in docs : d.src \in Sources
  BY DEF TypeOK, Doc
<1>4. Kept = docs
  BY <1>2, <1>3 DEF Kept, Replaced
<1>. QED  BY <1>1, <1>4 DEF Batch

\* The end of a job, or its failure, leaves only the cursors to look at.
LEMMA IdleInv ==
  ASSUME TypeOK, CursorsInv, Idle(job), ~Working
  PROVE  IngestInv
<1>1. Batch = docs /\ Kept = docs
  BY BatchOfIdle DEF Idle
<1>2. ASSUME NEW s \in Sources PROVE UpdateInv(s)
  <2>1. job.updates[s] = NoUpdate /\ job.adds = {} /\ job.open = NoSource
    BY DEF Idle, IdleJob
  <2>2. s # job.open
    BY <2>1, BoundAssumption
  <2>. QED  BY <2>1, <2>2 DEF UpdateInv, Spared
<1>3. OpenInv /\ Apart
  BY DEF OpenInv, Apart, Idle
<1>4. Unique(Batch, slipped)
  BY <1>1 DEF CursorsInv
<1>. QED  BY <1>2, <1>3, <1>4 DEF IngestInv, JobInv

LEMMA InitInv == Init => IngestInv
<1>. SUFFICES ASSUME Init PROVE IngestInv
  OBVIOUS
<1>1. TypeOK
  <2>1. NoCursor \in Cursor
    BY BoundAssumption DEF NoCursor, Cursor, Gone
  <2>2. IdleJob \in JobState
    BY <2>1 DEF IdleJob, JobState
  <2>. QED  BY <2>1, <2>2, BoundAssumption DEF Init, TypeOK
<1>2. NoCursor.offset = 0 /\ NoCursor.next_seq = 0 /\ NoCursor.gen = 0 /\ NoCursor \in Cursor
  BY BoundAssumption DEF NoCursor, Cursor, Gone
<1>3. ASSUME NEW s \in Sources
      PROVE  /\ cursor[s] = NoCursor /\ saved[s] = NoCursor
             /\ CursorInv(NoCursor, file[s].gen, len(s))
             /\ Indexed(NoCursor, s, file[s].gen, docs, Excused)
             /\ Lags(NoCursor, NoCursor, file[s].gen)
  <2>1. cursor[s] = NoCursor /\ saved[s] = NoCursor /\ docs = {}
        /\ file[s].gen = 0 /\ len(s) = 0
    BY DEF Init, len
  <2>2. Indexed(NoCursor, s, file[s].gen, docs, Excused)
    BY <1>2, <2>1, IndexedAtStart
  <2>. QED  BY <1>2, <2>1, <2>2 DEF CursorInv, Lags
<1>4. CursorsInv
  <2>1. docs = {}
    BY DEF Init
  <2>2. Unique(docs, slipped)
    BY <2>1 DEF Unique
  <2>. QED  BY <1>3, <2>1, <2>2 DEF CursorsInv
<1>5. Idle(job) /\ ~Working
  BY DEF Init, Idle, IdleJob, Working
<1>. QED  BY <1>1, <1>4, <1>5, IdleInv

\* A cursor and a file that grows or is truncated.
LEMMA FileMoves ==
  ASSUME NEW c \in Cursor, NEW s, NEW g \in 0 .. MaxGen, NEW h \in 0 .. MaxGen,
         NEW l \in Nat, NEW k \in Nat, CursorInv(c, g, l), h > g \/ (h = g /\ k >= l)
  PROVE  /\ CursorInv(c, h, k)
         /\ \A D, X : (\A d \in D : d \in Doc) /\ Indexed(c, s, g, D, X) => Indexed(c, s, h, D, X)
         /\ \A b : Lags(c, b, g) => Lags(c, b, h)
         /\ \A adds, u : Spared(c, s, g, adds, u) => Spared(c, s, h, adds, u)
<1>1. c.offset \in Nat /\ c.next_seq \in Nat /\ c.gen \in 0 .. Gone /\ Gone = MaxGen + 1
      /\ MaxGen \in Nat
  BY BoundAssumption DEF Cursor, Gone
<1>2. CursorInv(c, h, k)
  BY <1>1 DEF CursorInv
<1>3. Speaks(c, h) => c.offset = 0 \/ h = g
  BY <1>1 DEF Speaks, CursorInv
<1>4. Speaks(c, h) => Speaks(c, g)
  BY <1>3 DEF Speaks
<1>5. ASSUME NEW D, NEW X, \A d \in D : d \in Doc, Indexed(c, s, g, D, X)
      PROVE  Indexed(c, s, h, D, X)
  <2>1. CASE c.offset = 0
    BY <1>5, <2>1, IndexedAtStart DEF CursorInv
  <2>2. CASE c.offset # 0
    BY <1>3, <1>5, <2>2 DEF Indexed
  <2>. QED  BY <2>1, <2>2
<1>6. ASSUME NEW b, Lags(c, b, g) PROVE Lags(c, b, h)
  <2>. SUFFICES ASSUME Speaks(c, h), c.next_seq # 0
                PROVE  Speaks(b, h) /\ c.next_seq <= b.next_seq
    BY DEF Lags
  <2>1. h = g
    BY <1>3 DEF CursorInv
  <2>. QED  BY <1>6, <2>1 DEF Lags
<1>7. ASSUME NEW adds, NEW u, Spared(c, s, g, adds, u) PROVE Spared(c, s, h, adds, u)
  BY <1>4, <1>7 DEF Spared
<1>. QED  BY <1>2, <1>5, <1>6, <1>7

\* Of what the types say.
LEMMA Typed ==
  ASSUME TypeOK
  PROVE  /\ \A s \in Sources : /\ cursor[s] \in Cursor /\ saved[s] \in Cursor
                               /\ job.local[s] \in Cursor
                               /\ job.updates[s] \in Update \cup {NoUpdate}
                               /\ file[s].gen \in 0 .. MaxGen /\ len(s) \in Nat
                               /\ file[s].lines \in 0 .. MaxLines
         /\ \A d \in Batch : d \in Doc
         /\ \A d \in docs : d \in Doc
         /\ \A d \in Kept : d \in docs
         /\ \A a \in job.adds : a \in Added
         /\ MaxGen \in Nat /\ MaxLines \in Nat
<1>1. ASSUME NEW s \in Sources
      PROVE  /\ cursor[s] \in Cursor /\ saved[s] \in Cursor /\ job.local[s] \in Cursor
             /\ job.updates[s] \in Update \cup {NoUpdate}
             /\ file[s].gen \in 0 .. MaxGen /\ file[s].lines \in 0 .. MaxLines
  BY DEF TypeOK, JobState
<1>2. ASSUME NEW s \in Sources PROVE len(s) \in Nat
  BY <1>1, BoundAssumption DEF len
<1>3. \A a \in job.adds : a \in Added
  BY DEF TypeOK, JobState
<1>4. \A d \in docs : d \in Doc
  BY DEF TypeOK
<1>5. \A a \in Added : StagedDoc(a) \in Doc
  BY DEF StagedDoc, Added, Doc
<1>6. \A d \in Batch : d \in Doc
  BY <1>3, <1>4, <1>5 DEF Batch, Staged, Kept
<1>. QED  BY <1>1, <1>2, <1>3, <1>4, <1>6, BoundAssumption DEF Kept

LEMMA FileStep ==
  ASSUME IngestInv, TypeOK',
         UNCHANGED <<docs, cursor, saved, gate, job, dropped, purged, slipped>>,
         \A s \in Sources : \/ file'[s].gen > file[s].gen
                            \/ file'[s].gen = file[s].gen /\ len(s)' >= len(s)
  PROVE  IngestInv'
<1>1. TypeOK /\ CursorsInv /\ JobInv
  BY DEF IngestInv
<1>2. Batch' = Batch /\ Kept' = Kept /\ Staged' = Staged /\ Working' = Working /\ Excused' = Excused
  BY DEF Batch, Kept, Replaced, Staged, StagedDoc, Working, Excused
<1>3. ASSUME NEW s \in Sources, NEW c \in Cursor, CursorInv(c, file[s].gen, len(s))
      PROVE  /\ CursorInv(c, file'[s].gen, len(s)')
             /\ Indexed(c, s, file[s].gen, docs, Excused) => Indexed(c, s, file'[s].gen, docs, Excused)
             /\ Indexed(c, s, file[s].gen, Batch, Excused) => Indexed(c, s, file'[s].gen, Batch, Excused)
             /\ \A b : Lags(c, b, file[s].gen) => Lags(c, b, file'[s].gen)
             /\ \A adds, u : Spared(c, s, file[s].gen, adds, u) => Spared(c, s, file'[s].gen, adds, u)
  <2>1. PICK g \in 0 .. MaxGen, h \in 0 .. MaxGen, l \in Nat, k \in Nat :
          g = file[s].gen /\ h = file'[s].gen /\ l = len(s) /\ k = len(s)'
    <3>1. file'[s].gen \in 0 .. MaxGen /\ file'[s].lines \in 0 .. MaxLines
      BY DEF TypeOK
    <3>2. len(s)' \in Nat
      BY <3>1, BoundAssumption DEF len
    <3>. QED  BY <1>1, <3>1, <3>2, Typed
  <2>2. h > g \/ (h = g /\ k >= l)
    BY <2>1
  <2>3. CursorInv(c, g, l)
    BY <1>3, <2>1
  <2>4. PICK D, E : D = docs /\ E = Batch
    OBVIOUS
  <2>5. (\A d \in D : d \in Doc) /\ (\A d \in E : d \in Doc)
    BY <1>1, <2>4, Typed
  <2>6. /\ CursorInv(c, h, k)
        /\ \A X : Indexed(c, s, g, D, X) => Indexed(c, s, h, D, X)
        /\ \A X : Indexed(c, s, g, E, X) => Indexed(c, s, h, E, X)
        /\ \A b : Lags(c, b, g) => Lags(c, b, h)
        /\ \A adds, u : Spared(c, s, g, adds, u) => Spared(c, s, h, adds, u)
    BY <2>2, <2>3, <2>5, FileMoves
  <2>. QED  BY <2>1, <2>4, <2>6, Zenon
<1>4. \A s \in Sources : cursor[s] \in Cursor /\ saved[s] \in Cursor /\ job.local[s] \in Cursor
  BY <1>1, Typed
<1>5. CursorsInv'
  BY <1>1, <1>2, <1>3, <1>4, Zenon DEF CursorsInv
<1>6. ASSUME NEW s \in Sources, Working PROVE LocalInv(s)'
  <2>1. LocalInv(s)
    BY <1>1, <1>6 DEF JobInv
  <2>2. CursorInv(cursor[s], file[s].gen, len(s))
    BY <1>1 DEF CursorsInv
  <2>. QED  BY <1>2, <1>3, <1>4, <2>1, <2>2, Zenon DEF LocalInv
<1>7. ASSUME NEW s \in Sources PROVE UpdateInv(s)'
  <2>1. UpdateInv(s)
    BY <1>1 DEF JobInv
  <2>2. CursorInv(cursor[s], file[s].gen, len(s)) /\ CursorInv(saved[s], file[s].gen, len(s))
    BY <1>1 DEF CursorsInv
  <2>. QED  BY <1>3, <1>4, <2>1, <2>2, Zenon DEF UpdateInv
<1>8. OpenInv' /\ Apart' /\ Unique(Batch, slipped)' /\ (~Working' => Idle(job)')
  BY <1>1, <1>2 DEF JobInv, OpenInv, Apart
<1>9. JobInv'
  BY <1>2, <1>6, <1>7, <1>8 DEF JobInv
<1>. QED  BY <1>5, <1>9 DEF IngestInv

LEMMA FileInv ==
  ASSUME IngestInv, TypeOK', NEW s \in Sources, Append(s) \/ Truncate(s)
  PROVE  IngestInv'
<1>1. file \in [Sources -> [gen : 0 .. MaxGen, lines : 0 .. MaxLines, open : BOOLEAN]]
  BY DEF IngestInv, TypeOK
<1>2. UNCHANGED <<docs, cursor, saved, gate, job, dropped, purged, slipped>>
  BY DEF Append, Truncate
<1>3. ASSUME NEW t \in Sources
      PROVE  \/ file'[t].gen > file[t].gen
             \/ file'[t].gen = file[t].gen /\ len(t)' >= len(t)
  <2>1. CASE t # s
    <3>1. file'[t] = file[t]
      BY <1>1, <2>1 DEF Append, Truncate
    <3>2. len(t)' = len(t) /\ len(t) \in Nat
      BY <3>1, Typed DEF len, IngestInv
    <3>. QED  BY <3>1, <3>2
  <2>2. CASE t = s
    <3>1. PICK f \in [gen : 0 .. MaxGen, lines : 0 .. MaxLines, open : BOOLEAN] : f = file[s]
      BY <1>1
    <3>2. f.gen \in Nat /\ f.lines \in Nat /\ f.open \in BOOLEAN
      BY BoundAssumption
    <3>3. CASE Append(s) /\ f.open
      <4>1. file'[s] = [gen |-> f.gen, lines |-> f.lines + 1, open |-> FALSE]
        BY <1>1, <3>1, <3>3 DEF Append
      <4>2. file'[s].gen = f.gen /\ file'[s].lines = f.lines + 1 /\ file'[s].open = FALSE
        BY <4>1
      <4>. QED  BY <2>2, <3>1, <3>2, <3>3, <4>2 DEF len
    <3>4. CASE Append(s) /\ ~f.open
      <4>1. file'[s] = [f EXCEPT !.open = TRUE]
        BY <1>1, <3>1, <3>4 DEF Append
      <4>2. file'[s].gen = f.gen /\ file'[s].lines = f.lines /\ file'[s].open = TRUE
        BY <4>1
      <4>. QED  BY <2>2, <3>1, <3>2, <3>4, <4>2 DEF len
    <3>5. CASE Truncate(s)
      <4>1. file'[s].gen = f.gen + 1
        BY <1>1, <3>1, <3>5 DEF Truncate
      <4>. QED  BY <2>2, <3>1, <3>2, <4>1
    <3>. QED  BY <3>3, <3>4, <3>5
  <2>. QED  BY <2>1, <2>2
<1>. QED  BY <1>2, <1>3, FileStep

\* The same of the next state.
LEMMA AlwaysTyped ==
  TypeOK =>
    /\ \A s \in Sources : /\ cursor[s] \in Cursor /\ saved[s] \in Cursor
                          /\ job.local[s] \in Cursor
                          /\ file[s].gen \in 0 .. MaxGen /\ len(s) \in Nat
    /\ \A d \in docs : d \in Doc
BY Typed

LEMMA NextTyped ==
  (TypeOK =>
    /\ \A s \in Sources : /\ cursor[s] \in Cursor /\ saved[s] \in Cursor
                          /\ job.local[s] \in Cursor
                          /\ file[s].gen \in 0 .. MaxGen /\ len(s) \in Nat
    /\ \A d \in docs : d \in Doc)'
BY AlwaysTyped, PTL

LEMMA AlwaysIdle ==
  /\ TypeOK /\ CursorsInv /\ Idle(job) /\ ~Working => IngestInv
  /\ TypeOK /\ job.updates = IdleJob.updates /\ job.adds = {} => Batch = docs
BY IdleInv, BatchOfIdle

LEMMA IdleNext ==
  (/\ TypeOK /\ CursorsInv /\ Idle(job) /\ ~Working => IngestInv
   /\ TypeOK /\ job.updates = IdleJob.updates /\ job.adds = {} => Batch = docs)'
BY AlwaysIdle, PTL

LEMMA IdleJobTyped == IdleJob \in JobState /\ NoCursor \in Cursor
<1>1. NoCursor \in Cursor
  BY BoundAssumption DEF NoCursor, Cursor, Gone
<1>. QED  BY <1>1 DEF IdleJob, JobState

-----------------------------------------------------------------------------
\* A job takes the gate and the cursors.
LEMMA BeginInv ==
  ASSUME IngestInv, NEW ss \in SUBSET Sources, NEW min_ts \in Cutoffs,
         ingest_sources_after(ss, min_ts)
  PROVE  IngestInv'
<1>1. TypeOK /\ CursorsInv /\ JobInv
  BY DEF IngestInv
<1>2. /\ gate' = "next" /\ job' = [IdleJob EXCEPT !.todo = ss, !.local = cursor, !.min_ts = min_ts]
      /\ UNCHANGED <<file, docs, cursor, saved, dropped, purged, slipped>>
  BY DEF ingest_sources_after
<1>3. /\ job'.local = cursor /\ job'.updates = IdleJob.updates /\ job'.adds = {}
      /\ job'.open = NoSource /\ job'.todo = ss
  BY <1>2 DEF IdleJob
<1>4. TypeOK'
  <2>1. min_ts \in Nat
    BY BoundAssumption
  <2>2. job' \in JobState
    BY <1>1, <1>2, <2>1, IdleJobTyped DEF TypeOK, JobState
  <2>. QED  BY <1>1, <1>2, <2>2 DEF TypeOK
<1>5. Idle(job')
  BY <1>3 DEF Idle
<1>6. Batch' = docs'
  BY <1>3, <1>4, IdleNext
<1>7. CursorsInv'
  BY <1>1, <1>2 DEF CursorsInv, Excused, len
<1>8. Working' /\ OpenInv' /\ Apart' /\ Unique(Batch, slipped)'
  BY <1>2, <1>3, <1>6, <1>7 DEF Working, OpenInv, Apart, CursorsInv
<1>9. ASSUME NEW s \in Sources PROVE LocalInv(s)' /\ UpdateInv(s)'
  <2>1. job'.updates[s] = NoUpdate /\ s # NoSource
    BY <1>3, BoundAssumption DEF IdleJob
  <2>2. UpdateInv(s)'
    BY <1>3, <2>1 DEF UpdateInv, Spared
  <2>3. Lags(cursor'[s], cursor'[s], file'[s].gen)
    <3>1. cursor'[s].next_seq \in Nat
      BY <1>4, NextTyped DEF Cursor
    <3>. QED  BY <3>1 DEF Lags
  <2>4. LocalInv(s)'
    BY <1>2, <1>3, <1>6, <1>7, <2>3 DEF LocalInv, CursorsInv
  <2>. QED  BY <2>2, <2>4
<1>. QED  BY <1>4, <1>7, <1>8, <1>9 DEF IngestInv, JobInv

\* A file that has not grown is passed over.
LEMMA PassInv ==
  ASSUME IngestInv, NEW s \in Sources, OpenSource(s), len(s) = job.local[s].offset
  PROVE  IngestInv'
<1>1. TypeOK /\ CursorsInv /\ JobInv /\ job \in JobState
  BY DEF IngestInv, TypeOK
<1>2. /\ gate = "next" /\ gate' = "next" /\ job' = [job EXCEPT !.todo = job.todo \ {s}]
      /\ UNCHANGED <<file, docs, cursor, saved, dropped, purged, slipped>>
  BY DEF OpenSource
<1>3. /\ job'.local = job.local /\ job'.updates = job.updates /\ job'.adds = job.adds
      /\ job'.open = job.open /\ job'.todo = job.todo \ {s} /\ job'.delete = job.delete
      /\ job' \in JobState
  BY <1>1, <1>2 DEF JobState
<1>4. TypeOK'
  BY <1>1, <1>2, <1>3 DEF TypeOK
<1>5. Batch' = Batch /\ Kept' = Kept /\ Excused' = Excused /\ Working' /\ Working
  BY <1>2, <1>3 DEF Batch, Kept, Replaced, Staged, Excused, Working
<1>6. CursorsInv'
  BY <1>1, <1>2, <1>5 DEF CursorsInv, len
<1>7. ASSUME NEW t \in Sources PROVE LocalInv(t)' /\ UpdateInv(t)'
  BY <1>1, <1>2, <1>3, <1>5 DEF JobInv, LocalInv, UpdateInv, len
<1>8. OpenInv' /\ Apart' /\ Unique(Batch, slipped)'
  BY <1>1, <1>2, <1>3, <1>5 DEF JobInv, OpenInv, Apart
<1>. QED  BY <1>4, <1>5, <1>6, <1>7, <1>8 DEF IngestInv, JobInv

\* A file is opened: one that is shorter than the cursor starts over.
LEMMA OpenedInv ==
  ASSUME IngestInv, NEW s \in Sources, OpenSource(s), len(s) # job.local[s].offset
  PROVE  IngestInv'
<1>1. TypeOK /\ CursorsInv /\ JobInv /\ job \in JobState
  BY DEF IngestInv, TypeOK
<1>. DEFINE c == job.local[s]
            r == ResetOrKeep(s)
<1>2. /\ gate = "next" /\ gate' = "read" /\ s \in job.todo
      /\ job' = [job EXCEPT !.local[s] = r, !.delete = {r.next_seq},
                            !.todo = job.todo \ {s}, !.open = s]
      /\ UNCHANGED <<file, docs, cursor, saved, dropped, purged, slipped>>
  BY DEF OpenSource
<1>3. c \in Cursor /\ r \in Cursor /\ r = IF len(s) < c.offset THEN NoCursor ELSE c
  BY <1>1, Typed, IdleJobTyped DEF ResetOrKeep
<1>. HIDE DEF c, r
<1>4. /\ job'.local = [job.local EXCEPT ![s] = r] /\ job'.updates = job.updates
      /\ job'.adds = job.adds /\ job'.open = s /\ job'.todo = job.todo \ {s}
      /\ job'.delete = {r.next_seq} /\ job'.min_ts = job.min_ts
  BY <1>1, <1>2 DEF JobState
<1>5. job' \in JobState
  <2>1. job'.local \in [Sources -> Cursor] /\ {r.next_seq} \in SUBSET Nat
    BY <1>1, <1>3, <1>4 DEF JobState, Cursor
  <2>2. job' = [job EXCEPT !.local = job'.local, !.delete = {r.next_seq},
                           !.todo = job.todo \ {s}, !.open = s]
    BY <1>2, <1>4, <1>1 DEF JobState
  <2>. QED  BY <1>1, <2>1, <2>2 DEF JobState
<1>6. TypeOK'
  BY <1>1, <1>2, <1>4, <1>5 DEF TypeOK
<1>7. Batch' = Batch /\ Kept' = Kept /\ Excused' = Excused /\ Working' /\ Working
  BY <1>2, <1>4 DEF Batch, Kept, Replaced, Staged, Excused, Working
<1>8. CursorsInv'
  BY <1>1, <1>2, <1>7 DEF CursorsInv, len
<1>9. /\ \A t \in Sources : LocalInv(t) /\ UpdateInv(t)
      /\ job.updates[s] = NoUpdate
  BY <1>1, <1>2, <1>7 DEF JobInv, UpdateInv
<1>10. ASSUME NEW t \in Sources, t # s PROVE LocalInv(t)'
  <2>1. job'.local[t] = job.local[t]
    BY <1>1, <1>4, <1>10 DEF JobState
  <2>. QED  BY <1>2, <1>7, <1>9, <2>1 DEF LocalInv, len
<1>11. LocalInv(s)'
  <2>1. job'.local[s] = r
    BY <1>1, <1>4 DEF JobState
  <2>2. CASE ~(len(s) < c.offset)
    BY <1>2, <1>3, <1>7, <1>9, <2>1, <2>2 DEF LocalInv, len, c
  <2>3. CASE len(s) < c.offset
    <3>1. PICK g \in 0 .. MaxGen, l \in Nat : g = file[s].gen /\ l = len(s)
      BY <1>1, Typed
    <3>2. r = NoCursor /\ r.offset = 0 /\ r.next_seq = 0 /\ r.gen = 0
      BY <1>3, <2>3 DEF NoCursor
    <3>3. CursorInv(r, g, l)
      BY <3>2 DEF CursorInv
    <3>4. Indexed(r, s, g, Batch, Excused)
      BY <1>1, <1>3, <3>2, IndexedAtStart, Typed
    <3>5. ~Speaks(c, g)
      <4>1. CursorInv(c, g, l)
        BY <1>9, <3>1 DEF LocalInv, c
      <4>2. c.offset \in Nat /\ l < c.offset
        BY <1>3, <2>3, <3>1 DEF Cursor
      <4>. QED  BY <4>1, <4>2 DEF Speaks, CursorInv
    <3>6. Lags(cursor[s], r, g)
      <4>1. Lags(cursor[s], c, g)
        BY <1>9, <3>1 DEF LocalInv, c
      <4>. QED  BY <3>5, <4>1 DEF Lags
    <3>7. file'[s].gen = g /\ len(s)' = l
      BY <1>2, <3>1 DEF len
    <3>. QED  BY <1>2, <1>7, <2>1, <3>3, <3>4, <3>6, <3>7 DEF LocalInv
  <2>. QED  BY <2>2, <2>3
<1>12. ASSUME NEW t \in Sources PROVE UpdateInv(t)'
  <2>1. job'.updates[t] # NoUpdate => job'.local[t] = job.local[t]
    BY <1>1, <1>4, <1>9 DEF JobState
  <2>. QED  BY <1>2, <1>4, <1>9, <2>1 DEF UpdateInv
<1>13. OpenInv'
  BY <1>1, <1>4, <1>9 DEF OpenInv, JobState
<1>14. Apart' /\ Unique(Batch, slipped)'
  BY <1>1, <1>2, <1>4, <1>7 DEF JobInv, Apart
<1>. QED  BY <1>6, <1>7, <1>8, <1>10, <1>11, <1>12, <1>13, <1>14 DEF IngestInv, JobInv

\* A file is closed.
LEMMA CloseInv ==
  ASSUME IngestInv, EndOfFile
  PROVE  IngestInv'
<1>1. TypeOK /\ CursorsInv /\ JobInv /\ job \in JobState
  BY DEF IngestInv, TypeOK
<1>2. /\ gate = "read" /\ gate' = "next"
      /\ job' = [job EXCEPT !.delete = {}, !.open = NoSource]
      /\ UNCHANGED <<file, docs, cursor, saved, dropped, purged, slipped>>
  BY DEF EndOfFile
<1>3. /\ job'.local = job.local /\ job'.updates = job.updates /\ job'.adds = job.adds
      /\ job'.open = NoSource /\ job'.todo = job.todo /\ job' \in JobState
  BY <1>1, <1>2 DEF JobState
<1>4. TypeOK'
  BY <1>1, <1>2, <1>3 DEF TypeOK
<1>5. Batch' = Batch /\ Kept' = Kept /\ Excused' = Excused /\ Working' /\ Working
  BY <1>2, <1>3 DEF Batch, Kept, Replaced, Staged, Excused, Working
<1>6. CursorsInv'
  BY <1>1, <1>2, <1>5 DEF CursorsInv, len
<1>7. ASSUME NEW t \in Sources PROVE LocalInv(t)' /\ UpdateInv(t)'
  <2>1. t # NoSource
    BY BoundAssumption
  <2>. QED  BY <1>1, <1>2, <1>3, <1>5, <2>1 DEF JobInv, LocalInv, UpdateInv, len
<1>8. OpenInv' /\ Apart' /\ Unique(Batch, slipped)'
  BY <1>1, <1>2, <1>3, <1>5 DEF JobInv, OpenInv, Apart
<1>. QED  BY <1>4, <1>5, <1>6, <1>7, <1>8 DEF IngestInv, JobInv

\* The end of a job or its failure, by itself or with the daemon.
LEMMA EndInv ==
  ASSUME IngestInv, TypeOK', gate' = "free", job' = IdleJob, CursorsInv'
  PROVE  IngestInv'
<1>1. Idle(job') /\ ~Working'
  BY DEF Idle, IdleJob, Working
<1>. QED  BY <1>1, IdleNext

\* After the last source: the batch is to be committed, or there is none.
LEMMA FlushInv ==
  ASSUME IngestInv, FinalFlush
  PROVE  IngestInv'
<1>1. TypeOK /\ CursorsInv /\ JobInv
  BY DEF IngestInv
<1>2. gate = "next" /\ UNCHANGED <<file, docs, cursor, saved, dropped, purged, slipped>>
  BY DEF FinalFlush
<1>3. CursorsInv'
  BY <1>1, <1>2 DEF CursorsInv, Excused, len
<1>4. CASE gate' = "free" /\ job' = IdleJob
  <2>1. TypeOK'
    BY <1>1, <1>2, <1>4, IdleJobTyped DEF TypeOK
  <2>. QED  BY <1>3, <1>4, <2>1, EndInv
<1>5. CASE gate' = "commit" /\ UNCHANGED job
  <2>1. TypeOK'
    BY <1>1, <1>2, <1>5 DEF TypeOK
  <2>2. Batch' = Batch /\ Kept' = Kept /\ Excused' = Excused /\ Working' /\ Working
    BY <1>2, <1>5 DEF Batch, Kept, Replaced, Staged, Excused, Working
  <2>3. ASSUME NEW t \in Sources PROVE LocalInv(t)' /\ UpdateInv(t)'
    BY <1>1, <1>2, <1>5, <2>2 DEF JobInv, LocalInv, UpdateInv, len
  <2>4. OpenInv' /\ Apart' /\ Unique(Batch, slipped)'
    BY <1>1, <1>2, <1>5, <2>2 DEF JobInv, OpenInv, Apart
  <2>. QED  BY <1>3, <2>1, <2>2, <2>3, <2>4 DEF IngestInv, JobInv
<1>. QED  BY <1>4, <1>5 DEF FinalFlush

LEMMA LagsItself ==
  ASSUME NEW c \in Cursor, NEW g
  PROVE  Lags(c, c, g)
<1>1. c.next_seq \in Nat
  BY DEF Cursor
<1>. QED  BY <1>1 DEF Lags

\* An error drops the batch; the next daemon goes on from the state file.
LEMMA AbortInv ==
  ASSUME IngestInv, AbortJob \/ Crash
  PROVE  IngestInv'
<1>1. TypeOK /\ CursorsInv
  BY DEF IngestInv
<1>2. /\ gate' = "free" /\ job' = IdleJob
      /\ UNCHANGED <<file, docs, saved, dropped, purged, slipped>>
      /\ cursor' = cursor \/ cursor' = saved
  BY DEF AbortJob, Crash
<1>3. TypeOK'
  BY <1>1, <1>2, IdleJobTyped DEF TypeOK
<1>4. ASSUME NEW s \in Sources PROVE Lags(saved[s], saved[s], file[s].gen)
  BY <1>1, Typed, LagsItself
<1>5. CursorsInv'
  BY <1>1, <1>2, <1>4 DEF CursorsInv, Excused, len
<1>. QED  BY <1>2, <1>3, <1>5, EndInv

\* What the batch deletes is not behind a cursor.
LEMMA KeptBehind ==
  ASSUME TypeOK, NEW s \in Sources, NEW c \in Cursor, NEW g,
         Spared(c, s, g, job.adds, job.updates[s]), Speaks(c, g),
         NEW d \in docs, d.src = s, d.seq < c.next_seq
  PROVE  d \in Kept
<1>1. d.seq \in Nat /\ c.next_seq \in Nat
  BY DEF TypeOK, Doc, Cursor
<1>2. job.updates[s] # NoUpdate =>
        \A n \in job.updates[s].delete_from_seq : n \in Nat /\ c.next_seq <= n
  BY Typed DEF Spared, Update
<1>. QED  BY <1>1, <1>2 DEF Kept, Replaced

\* A commit that fails may yet delete.
LEMMA CommitFailsInv ==
  ASSUME IngestInv, CommitFails
  PROVE  IngestInv'
<1>1. TypeOK /\ CursorsInv /\ JobInv
  BY DEF IngestInv
<1>2. /\ docs' = Kept /\ gate' = "free" /\ job' = IdleJob
      /\ UNCHANGED <<file, cursor, saved, dropped, purged, slipped>>
  BY DEF CommitFails
<1>3. Kept \subseteq docs
  BY DEF Kept
<1>4. TypeOK'
  BY <1>1, <1>2, <1>3, IdleJobTyped DEF TypeOK
<1>5. ASSUME NEW s \in Sources, NEW c \in Cursor,
             Spared(c, s, file[s].gen, job.adds, job.updates[s]),
             Indexed(c, s, file[s].gen, docs, Excused)
      PROVE  Indexed(c, s, file[s].gen, Kept, Excused)
  <2>1. PICK g, D, E, X : g = file[s].gen /\ D = docs /\ E = Kept /\ X = Excused
    OBVIOUS
  <2>2. Speaks(c, g) => /\ \A d \in E : d.src = s /\ d.seq < c.next_seq => d \in D
                        /\ \A d \in D : d.src = s /\ d.gen = g /\ d.seq < c.next_seq => d \in E
    BY <1>1, <1>3, <1>5, <2>1, KeptBehind
  <2>3. Indexed(c, s, g, D, X)
    BY <1>5, <2>1, Zenon
  <2>4. Indexed(c, s, g, E, X)
    BY <2>2, <2>3, IndexedStays
  <2>. QED  BY <2>1, <2>4, Zenon
<1>6. \A s \in Sources : /\ cursor[s] \in Cursor /\ saved[s] \in Cursor
                         /\ UpdateInv(s)
  BY <1>1, Typed DEF JobInv
<1>7. CursorsInv'
  <2>1. ASSUME NEW s \in Sources
        PROVE  /\ Indexed(cursor[s], s, file[s].gen, Kept, Excused)
               /\ Indexed(saved[s], s, file[s].gen, Kept, Excused)
    BY <1>1, <1>5, <1>6 DEF UpdateInv, CursorsInv
  <2>2. (\A d \in Kept : d.copy = 0) /\ Unique(Kept, slipped)
    BY <1>1, <1>3 DEF CursorsInv, Unique
  <2>3. Excused' = Excused
    BY <1>2 DEF Excused
  <2>. QED  BY <1>1, <1>2, <2>1, <2>2, <2>3 DEF CursorsInv, len
<1>. QED  BY <1>2, <1>4, <1>7, EndInv

\* The commit makes the index what the batch says.
LEMMA CommitInv ==
  ASSUME IngestInv, commit_ingest_batch
  PROVE  IngestInv'
<1>1. TypeOK /\ CursorsInv /\ JobInv
  BY DEF IngestInv
<1>2. /\ gate = "commit" /\ gate' = "save"
      /\ UNCHANGED <<file, cursor, saved, job, dropped, purged, slipped>>
  BY DEF commit_ingest_batch
<1>3. docs' = Kept \cup Staged
  <2>. DEFINE Equal(d, a) == d.src = a.src /\ d.seq = a.seq /\ d.gen = a.gen /\ d.line = a.line
  <2>1. ASSUME NEW a \in job.adds PROVE ~\E d \in Kept : Equal(d, a)
    <3>1. ASSUME NEW d \in Kept, d.src = a.src, d.seq = a.seq PROVE FALSE
      <4>1. d.seq < a.seq
        BY <1>1, <1>2, <3>1 DEF JobInv, Apart
      <4>2. a.seq \in Nat
        BY <1>1, Typed DEF Added
      <4>. QED  BY <3>1, <4>1, <4>2
    <3>. QED  BY <3>1
  <2>2. docs' = Kept \cup {[src |-> a.src, seq |-> a.seq, gen |-> a.gen, line |-> a.line,
                            copy |-> IF \E d \in Kept : Equal(d, a) THEN 1 ELSE 0] : a \in job.adds}
    BY DEF commit_ingest_batch
  <2>. QED  BY <2>1, <2>2 DEF Staged, StagedDoc
<1>4. docs' = Batch /\ Batch' = Batch /\ Excused' = Excused /\ Working /\ Working'
  BY <1>2, <1>3 DEF Batch, Excused, Working
<1>5. TypeOK'
  <2>1. docs' \subseteq Doc
    BY <1>1, <1>4, Typed
  <2>. QED  BY <1>1, <1>2, <2>1 DEF TypeOK
<1>6. ASSUME NEW s \in Sources, NEW c \in Cursor,
             Spared(c, s, file[s].gen, job.adds, job.updates[s]),
             Indexed(c, s, file[s].gen, docs, Excused)
      PROVE  Indexed(c, s, file[s].gen, docs', Excused)
  <2>1. PICK g, D, E, X : g = file[s].gen /\ D = docs /\ E = docs' /\ X = Excused
    OBVIOUS
  <2>2. ASSUME Speaks(c, g)
        PROVE  /\ \A d \in E : d.src = s /\ d.seq < c.next_seq => d \in D
               /\ \A d \in D : d.src = s /\ d.gen = g /\ d.seq < c.next_seq => d \in E
    <3>1. ASSUME NEW a \in job.adds, a.src = s PROVE ~(StagedDoc(a).seq < c.next_seq)
      <4>1. StagedDoc(a).seq = a.seq /\ a.seq \in Nat /\ c.next_seq \in Nat
        BY <1>1, Typed DEF StagedDoc, Added, Cursor
      <4>2. c.next_seq <= a.seq
        BY <1>6, <2>1, <2>2, <3>1 DEF Spared
      <4>. QED  BY <4>1, <4>2
    <3>2. \A a \in job.adds : StagedDoc(a).src = a.src
      BY DEF StagedDoc
    <3>3. \A d \in E : d.src = s /\ d.seq < c.next_seq => d \in D
      BY <1>3, <2>1, <3>1, <3>2 DEF Staged, Kept
    <3>4. \A d \in D : d.src = s /\ d.gen = g /\ d.seq < c.next_seq => d \in E
      BY <1>1, <1>3, <1>6, <2>1, <2>2, KeptBehind
    <3>. QED  BY <3>3, <3>4
  <2>3. Indexed(c, s, g, D, X)
    BY <1>6, <2>1, Zenon
  <2>4. Indexed(c, s, g, E, X)
    BY <2>2, <2>3, IndexedStays
  <2>. QED  BY <2>1, <2>4, Zenon
<1>7. CursorsInv'
  <2>1. ASSUME NEW s \in Sources
        PROVE  /\ Indexed(cursor[s], s, file[s].gen, docs', Excused)
               /\ Indexed(saved[s], s, file[s].gen, docs', Excused)
    <3>1. cursor[s] \in Cursor /\ saved[s] \in Cursor /\ UpdateInv(s)
      BY <1>1, Typed DEF JobInv
    <3>. QED  BY <1>1, <1>6, <3>1 DEF UpdateInv, CursorsInv
  <2>2. \A d \in docs' : d.copy = 0
    BY <1>1, <1>3 DEF Staged, StagedDoc, Kept, CursorsInv
  <2>3. Unique(docs', slipped)
    BY <1>1, <1>4 DEF JobInv
  <2>. QED  BY <1>1, <1>2, <1>4, <2>1, <2>2, <2>3 DEF CursorsInv, len
<1>8. ASSUME NEW s \in Sources PROVE LocalInv(s)' /\ UpdateInv(s)'
  BY <1>1, <1>2, <1>4 DEF JobInv, LocalInv, UpdateInv, len
<1>9. OpenInv' /\ Apart' /\ Unique(Batch, slipped)'
  BY <1>1, <1>2, <1>4 DEF JobInv, OpenInv, Apart
<1>. QED  BY <1>4, <1>5, <1>7, <1>8, <1>9 DEF IngestInv, JobInv

\* The cursors move to where the job is.
LEMMA SaveInv ==
  ASSUME IngestInv, save_cursors
  PROVE  IngestInv'
<1>1. TypeOK /\ CursorsInv /\ JobInv /\ job \in JobState
  BY DEF IngestInv, TypeOK
<1>2. /\ gate = "save" /\ UNCHANGED <<file, docs, dropped, purged, slipped>>
      /\ cursor' = [s \in Sources |-> IF job.updates[s] = NoUpdate THEN cursor[s]
                                      ELSE job.updates[s].cursor]
      /\ saved' = cursor' \/ saved' = saved
  BY DEF save_cursors
<1>3. Batch = docs /\ Excused' = Excused /\ Working
  BY <1>2 DEF Batch, Excused, Working
<1>4. ASSUME NEW s \in Sources
      PROVE  /\ cursor'[s] \in Cursor /\ cursor[s] \in Cursor /\ saved[s] \in Cursor
             /\ cursor'[s] = job.local[s] \/ cursor'[s] = cursor[s]
             /\ LocalInv(s) /\ UpdateInv(s)
  BY <1>1, <1>2, <1>3, Typed DEF JobInv, UpdateInv
<1>5. ASSUME NEW s \in Sources
      PROVE  /\ CursorInv(cursor'[s], file[s].gen, len(s))
             /\ Indexed(cursor'[s], s, file[s].gen, docs, Excused)
             /\ Lags(saved[s], cursor'[s], file[s].gen)
             /\ Lags(cursor'[s], job.local[s], file[s].gen)
  <2>1. CASE cursor'[s] = cursor[s]
    BY <1>1, <1>4, <2>1 DEF CursorsInv, LocalInv
  <2>2. CASE cursor'[s] = job.local[s]
    <3>1. Lags(saved[s], cursor[s], file[s].gen) /\ Lags(cursor[s], job.local[s], file[s].gen)
      BY <1>1, <1>4 DEF CursorsInv, LocalInv
    <3>2. PICK a \in Cursor, b \in Cursor, c \in Cursor :
            a = saved[s] /\ b = cursor[s] /\ c = job.local[s]
      BY <1>1, Typed
    <3>3. a.next_seq \in Nat /\ b.next_seq \in Nat /\ c.next_seq \in Nat
      BY DEF Cursor
    <3>4. Lags(a, c, file[s].gen)
      BY <3>1, <3>2, <3>3 DEF Lags
    <3>5. Lags(c, c, file[s].gen)
      BY LagsItself
    <3>. QED  BY <1>3, <1>4, <2>2, <3>2, <3>4, <3>5 DEF LocalInv
  <2>. QED  BY <1>4, <2>1, <2>2
<1>6. ASSUME NEW s \in Sources
      PROVE  /\ CursorInv(saved'[s], file[s].gen, len(s))
             /\ Indexed(saved'[s], s, file[s].gen, docs, Excused)
             /\ Lags(saved'[s], cursor'[s], file[s].gen)
  <2>1. CASE saved' = saved
    BY <1>1, <1>5, <2>1 DEF CursorsInv
  <2>2. CASE saved' = cursor'
    BY <1>4, <1>5, <2>2, LagsItself
  <2>. QED  BY <1>2, <2>1, <2>2
<1>7. CursorsInv'
  BY <1>1, <1>2, <1>3, <1>5, <1>6 DEF CursorsInv, len
<1>8. /\ cursor' \in [Sources -> Cursor] /\ saved' \in [Sources -> Cursor]
  BY <1>1, <1>2, <1>4 DEF TypeOK
<1>9. CASE gate' = "free" /\ job' = IdleJob
  <2>1. TypeOK'
    BY <1>1, <1>2, <1>8, <1>9, IdleJobTyped DEF TypeOK
  <2>. QED  BY <1>7, <1>9, <2>1, EndInv
<1>10. CASE job.open # NoSource /\ gate' = "read"
            /\ job' = [job EXCEPT !.adds = {}, !.updates = IdleJob.updates]
  <2>1. /\ job'.adds = {} /\ job'.updates = IdleJob.updates /\ job'.open = job.open
        /\ job'.todo = job.todo /\ job'.delete = job.delete /\ job'.local = job.local
        /\ job' \in JobState
    BY <1>1, <1>10, IdleJobTyped DEF JobState
  <2>2. TypeOK'
    <3>1. job'.open \in Sources
      BY <1>1, <1>10, <2>1 DEF JobState
    <3>. QED  BY <1>1, <1>2, <1>8, <1>10, <2>1, <3>1 DEF TypeOK
  <2>3. Batch' = docs
    BY <1>2, <2>1, <2>2, IdleNext
  <2>4. \A s \in Sources : job'.updates[s] = NoUpdate
    BY <2>1 DEF IdleJob
  <2>5. ASSUME NEW s \in Sources PROVE LocalInv(s)' /\ UpdateInv(s)'
    <3>1. LocalInv(s)'
      BY <1>2, <1>3, <1>4, <1>5, <2>1, <2>3 DEF LocalInv, len
    <3>2. UpdateInv(s)'
      BY <1>4, <2>1, <2>4 DEF UpdateInv, Spared
    <3>. QED  BY <3>1, <3>2
  <2>6. OpenInv'
    <3>1. job.open \in Sources
      BY <1>1, <1>10 DEF JobState
    <3>. QED  BY <1>1, <1>3, <2>1, <2>3, <2>4, <3>1 DEF JobInv, OpenInv
  <2>7. Apart' /\ Unique(Batch, slipped)' /\ Working'
    BY <1>1, <1>2, <1>3, <1>10, <2>1, <2>3 DEF JobInv, Apart, Working
  <2>. QED  BY <1>7, <2>2, <2>5, <2>6, <2>7 DEF IngestInv, JobInv
<1>. QED  BY <1>9, <1>10 DEF save_cursors

\* Where marking starts to skip, what it skips, and what becomes of the cursor.
SkipFrom(c, l) == IF l < c.offset THEN 0 ELSE c.offset
Skips(c, s, g, l, Y) ==
    \A i \in 1 .. MaxLines : SkipFrom(c, l) < 2 * i /\ 2 * i <= l + 1 => <<s, g, i>> \in Y
Marked(c, g, l) ==
    [offset |-> l, next_seq |-> IF l < c.offset THEN 0 ELSE c.next_seq,
     gen |-> IF SkipFrom(c, l) = 0 THEN g ELSE c.gen]

\* A cursor that is set to the end of its file.
LEMMA MarkedCursor ==
  ASSUME NEW c \in Cursor, NEW s \in Sources, NEW g \in 0 .. MaxGen, NEW l \in Nat,
         CursorInv(c, g, l),
         NEW D, \A d \in D : d \in Doc, NEW X, NEW Y, X \subseteq Y, Indexed(c, s, g, D, X),
         Skips(c, s, g, l, Y), NEW e, e = Marked(c, g, l)
  PROVE  /\ e \in Cursor /\ CursorInv(e, g, l) /\ Indexed(e, s, g, D, Y)
         /\ Speaks(e, g) /\ e.next_seq # 0 => Speaks(c, g) /\ e.next_seq = c.next_seq
         /\ Speaks(c, g) /\ c.next_seq # 0 => Speaks(e, g) /\ e.next_seq = c.next_seq
<1>0. PICK start \in Nat : start = SkipFrom(c, l)
  BY DEF SkipFrom, Cursor
<1>1. /\ c.offset \in Nat /\ c.next_seq \in Nat /\ c.gen \in 0 .. Gone
      /\ MaxGen \in Nat /\ MaxLines \in Nat /\ Gone = MaxGen + 1
      /\ start = IF l < c.offset THEN 0 ELSE c.offset
      /\ \A i \in 1 .. MaxLines : start < 2 * i /\ 2 * i <= l + 1 => <<s, g, i>> \in Y
      /\ e = [offset |-> l, next_seq |-> IF l < c.offset THEN 0 ELSE c.next_seq,
              gen |-> IF start = 0 THEN g ELSE c.gen]
  BY <1>0, BoundAssumption DEF Cursor, Gone, SkipFrom, Skips, Marked
<1>2. /\ e.offset = l /\ e.next_seq = IF l < c.offset THEN 0 ELSE c.next_seq
      /\ e.gen = IF start = 0 THEN g ELSE c.gen
  BY <1>1
<1>3. start = 0 => e.next_seq = 0
  BY <1>1, <1>2 DEF CursorInv
<1>4. start # 0 => start = c.offset /\ c.offset <= l /\ e.gen = c.gen /\ e.next_seq = c.next_seq
  BY <1>1, <1>2
<1>5. e \in Cursor
  BY <1>1 DEF Cursor
<1>6. CursorInv(e, g, l)
  BY <1>1, <1>2, <1>3, <1>4 DEF CursorInv
<1>7. Speaks(e, g) /\ e.next_seq # 0 => Speaks(c, g) /\ e.next_seq = c.next_seq
  BY <1>1, <1>2, <1>3, <1>4 DEF Speaks
<1>8. Speaks(c, g) /\ c.next_seq # 0 => Speaks(e, g) /\ e.next_seq = c.next_seq
  <2>. SUFFICES ASSUME Speaks(c, g), c.next_seq # 0
                PROVE  Speaks(e, g) /\ e.next_seq = c.next_seq
    OBVIOUS
  <2>1. c.offset # 0 /\ c.gen = g /\ c.offset <= l
    BY DEF Speaks, CursorInv
  <2>2. start # 0
    BY <1>1, <2>1
  <2>. QED  BY <1>4, <2>1, <2>2 DEF Speaks
<1>9. Indexed(e, s, g, D, Y)
  <2>. SUFFICES ASSUME Speaks(e, g) PROVE Covered(e, s, g, D, Y) /\ Ordered(e, s, g, D)
    BY DEF Indexed
  <2>1. CASE start = 0
    <3>1. \A d \in D : d.seq \in Nat
      BY DEF Doc
    <3>2. Ordered(e, s, g, D)
      BY <1>3, <2>1, <3>1 DEF Ordered
    <3>3. \A i \in 1 .. MaxLines : 2 * i <= l => <<s, g, i>> \in Y
      BY <1>1, <2>1
    <3>4. Covered(e, s, g, D, Y)
      BY <1>2, <3>3 DEF Covered
    <3>. QED  BY <3>2, <3>4
  <2>2. CASE start # 0
    <3>1. Speaks(c, g)
      BY <1>1, <1>2, <1>4, <2>2 DEF Speaks
    <3>2. Covered(c, s, g, D, X) /\ Ordered(c, s, g, D)
      BY <3>1 DEF Indexed
    <3>3. Ordered(e, s, g, D)
      <4>1. ASSUME NEW d \in D, d.src = s, d.seq < c.next_seq
            PROVE  d.gen = g /\ 2 * d.line <= l
        <5>1. d.gen = g /\ 2 * d.line <= c.offset /\ d.line \in Nat
          BY <3>2, <4>1 DEF Ordered, Doc
        <5>. QED  BY <1>1, <1>4, <2>2, <5>1
      <4>. QED  BY <1>2, <1>4, <2>2, <3>2, <4>1 DEF Ordered
    <3>4. ASSUME NEW i \in 1 .. MaxLines, 2 * i <= l, <<s, g, i>> \notin Y
          PROVE  \E d \in D : d.src = s /\ d.gen = g /\ d.line = i /\ d.seq < c.next_seq
      <4>1. 2 * i <= c.offset
        BY <1>1, <1>4, <2>2, <3>4
      <4>2. <<s, g, i>> \notin X
        BY <3>4
      <4>. QED  BY <3>2, <4>1, <4>2 DEF Covered
    <3>5. Covered(e, s, g, D, Y)
      BY <1>2, <1>4, <2>2, <3>4 DEF Covered
    <3>. QED  BY <3>3, <3>5
  <2>. QED  BY <2>1, <2>2
<1>. QED  BY <1>5, <1>6, <1>7, <1>8, <1>9

\* Excusing more lines.
LEMMA ExcusedMore ==
  ASSUME NEW c, NEW s, NEW g, NEW D, NEW X, NEW Y, X \subseteq Y, Indexed(c, s, g, D, X)
  PROVE  Indexed(c, s, g, D, Y)
BY IndexedStays

\* Marking does not wait for the job.
LEMMA MarkInv ==
  ASSUME IngestInv, NEW s \in Sources, mark_sources_current(s)
  PROVE  IngestInv'
<1>1. TypeOK /\ CursorsInv /\ JobInv
  BY DEF IngestInv
<1>2. PICK c \in Cursor, g \in 0 .. MaxGen, l \in Nat :
        c = cursor[s] /\ g = file[s].gen /\ l = len(s)
  BY <1>1, Typed
<1>3. PICK start \in Nat : start = SkipFrom(c, l)
  BY DEF Cursor, SkipFrom
<1>4. PICK e : e = Marked(c, g, l)
  OBVIOUS
<1>5. /\ cursor' = [cursor EXCEPT ![s] = e] /\ (saved' = cursor' \/ saved' = saved)
      /\ dropped' = dropped \cup
           FileLines(s, {i \in 1 .. MaxLines : start < 2 * i /\ 2 * i <= l + 1})
      /\ UNCHANGED <<file, docs, gate, job, purged, slipped>>
  BY <1>2, <1>3, <1>4 DEF mark_sources_current, SkipFrom, Marked
<1>6. PICK X, Y, D, B : X = Excused /\ Y = Excused' /\ D = docs /\ B = Batch
  OBVIOUS
<1>7. X \subseteq Y /\ Skips(c, s, g, l, Y)
  BY <1>2, <1>3, <1>5, <1>6 DEF Excused, FileLines, Skips
<1>8. Batch' = B /\ Kept' = Kept /\ Working' = Working
  BY <1>5, <1>6 DEF Batch, Kept, Replaced, Staged, Working
<1>9. CursorInv(c, g, l) /\ Indexed(c, s, g, D, X) /\ \A d \in D : d \in Doc
  BY <1>1, <1>2, <1>6, Typed DEF CursorsInv
<1>10. /\ e \in Cursor /\ CursorInv(e, g, l) /\ Indexed(e, s, g, D, Y)
       /\ Speaks(e, g) /\ e.next_seq # 0 => Speaks(c, g) /\ e.next_seq = c.next_seq
       /\ Speaks(c, g) /\ c.next_seq # 0 => Speaks(e, g) /\ e.next_seq = c.next_seq
  BY <1>4, <1>7, <1>9, MarkedCursor
<1>11. cursor \in [Sources -> Cursor] /\ saved \in [Sources -> Cursor]
  BY <1>1 DEF TypeOK
<1>12. /\ cursor'[s] = e /\ \A t \in Sources : t # s => cursor'[t] = cursor[t]
       /\ cursor' \in [Sources -> Cursor] /\ saved' \in [Sources -> Cursor]
  BY <1>5, <1>10, <1>11
<1>13. TypeOK'
  <2>1. FileLines(s, {i \in 1 .. MaxLines : start < 2 * i /\ 2 * i <= l + 1}) \subseteq Lines
    BY <1>2 DEF FileLines, Lines
  <2>. QED  BY <1>1, <1>5, <1>12, <2>1 DEF TypeOK
<1>14. ASSUME NEW t \in Sources
       PROVE  /\ file'[t].gen = file[t].gen /\ len(t)' = len(t)
              /\ cursor'[t] \in Cursor
              /\ CursorInv(cursor'[t], file[t].gen, len(t))
              /\ Indexed(cursor'[t], t, file[t].gen, D, Y)
              /\ Lags(saved[t], cursor'[t], file[t].gen)
              /\ Working => Lags(cursor'[t], job.local[t], file[t].gen)
              /\ Spared(cursor'[t], t, file[t].gen, job.adds, job.updates[t])
  <2>1. file'[t].gen = file[t].gen /\ len(t)' = len(t) /\ cursor'[t] \in Cursor
    BY <1>5, <1>12 DEF len
  <2>2. /\ CursorInv(cursor[t], file[t].gen, len(t)) /\ Indexed(cursor[t], t, file[t].gen, D, X)
        /\ Lags(saved[t], cursor[t], file[t].gen)
        /\ Spared(cursor[t], t, file[t].gen, job.adds, job.updates[t])
        /\ Working => Lags(cursor[t], job.local[t], file[t].gen)
    BY <1>1, <1>6 DEF CursorsInv, JobInv, UpdateInv, LocalInv
  <2>3. CASE t # s
    <3>1. cursor'[t] = cursor[t]
      BY <1>12, <2>3
    <3>2. Indexed(cursor[t], t, file[t].gen, D, Y)
      <4>1. PICK x, h : x = cursor[t] /\ h = file[t].gen
        OBVIOUS
      <4>2. Indexed(x, t, h, D, X)
        BY <2>2, <4>1, Zenon
      <4>3. Indexed(x, t, h, D, Y)
        BY <1>7, <4>2, ExcusedMore
      <4>. QED  BY <4>1, <4>3, Zenon
    <3>. QED  BY <2>1, <2>2, <3>1, <3>2
  <2>4. CASE t = s
    <3>1. cursor'[t] = e /\ cursor[t] = c /\ file[t].gen = g /\ len(t) = l
      BY <1>2, <1>12, <2>4
    <3>2. e.next_seq \in Nat /\ c.next_seq \in Nat
      BY <1>10 DEF Cursor
    <3>3. Lags(saved[t], e, g)
      <4>1. PICK b \in Cursor : b = saved[t]
        BY <1>11
      <4>2. Lags(b, c, g) /\ b.next_seq \in Nat
        BY <2>2, <3>1, <4>1 DEF Cursor
      <4>3. Lags(b, e, g)
        BY <1>10, <3>2, <4>2 DEF Lags
      <4>. QED  BY <4>1, <4>3
    <3>4. Working => Lags(e, job.local[t], g)
      BY <1>10, <2>2, <3>1 DEF Lags
    <3>5. Spared(e, t, g, job.adds, job.updates[t])
      <4>1. PICK u, A : u = job.updates[t] /\ A = job.adds
        OBVIOUS
      <4>2. Spared(c, t, g, A, u)
        BY <2>2, <3>1, <4>1
      <4>3. (\A a \in A : a.seq \in Nat) /\ (u # NoUpdate => u.delete_from_seq \subseteq Nat)
        BY <1>1, <4>1, Typed DEF Added, Update
      <4>4. Spared(e, t, g, A, u)
        <5>1. CASE e.next_seq = 0
          BY <4>3, <5>1 DEF Spared
        <5>2. CASE e.next_seq # 0
          BY <1>10, <4>2, <5>2 DEF Spared
        <5>. QED  BY <5>1, <5>2
      <4>. QED  BY <4>1, <4>4, Zenon
    <3>. QED  BY <1>10, <2>1, <2>4, <3>1, <3>3, <3>4, <3>5
  <2>. QED  BY <2>3, <2>4
<1>15. ASSUME NEW t \in Sources
       PROVE  /\ CursorInv(saved[t], file[t].gen, len(t))
              /\ Indexed(saved[t], t, file[t].gen, D, Y)
              /\ Working => Indexed(job.local[t], t, file[t].gen, B, Y)
  <2>1. PICK x, y, h : x = saved[t] /\ y = job.local[t] /\ h = file[t].gen
    OBVIOUS
  <2>2. CursorInv(x, h, len(t)) /\ Indexed(x, t, h, D, X) /\ (Working => Indexed(y, t, h, B, X))
    BY <1>1, <1>6, <2>1, Zenon DEF CursorsInv, JobInv, LocalInv
  <2>3. Indexed(x, t, h, D, Y) /\ (Working => Indexed(y, t, h, B, Y))
    BY <1>7, <2>2, ExcusedMore
  <2>. QED  BY <2>1, <2>2, <2>3, Zenon
<1>16. ASSUME NEW t \in Sources
       PROVE  /\ CursorInv(saved'[t], file[t].gen, len(t))
              /\ Indexed(saved'[t], t, file[t].gen, D, Y)
              /\ Lags(saved'[t], cursor'[t], file[t].gen)
              /\ Spared(saved'[t], t, file[t].gen, job.adds, job.updates[t])
  <2>1. CASE saved' = saved
    <3>1. Spared(saved[t], t, file[t].gen, job.adds, job.updates[t])
      BY <1>1 DEF JobInv, UpdateInv
    <3>. QED  BY <1>14, <1>15, <2>1, <3>1
  <2>2. CASE saved' = cursor'
    BY <1>14, <2>2, LagsItself
  <2>. QED  BY <1>5, <2>1, <2>2
<1>17. CursorsInv'
  <2>1. (\A d \in docs' : d.copy = 0) /\ Unique(docs', slipped')
    BY <1>1, <1>5 DEF CursorsInv
  <2>2. docs' = D /\ Excused' = Y
    BY <1>5, <1>6
  <2>. QED  BY <1>14, <1>16, <2>1, <2>2, Zenon DEF CursorsInv
<1>18. ASSUME NEW t \in Sources, Working PROVE LocalInv(t)'
  <2>1. CursorInv(job.local[t], file[t].gen, len(t)) /\ job' = job
    BY <1>1, <1>5, <1>18 DEF JobInv, LocalInv
  <2>. QED  BY <1>6, <1>8, <1>14, <1>15, <1>18, <2>1, Zenon DEF LocalInv
<1>19. ASSUME NEW t \in Sources PROVE UpdateInv(t)'
  <2>1. UpdateInv(t) /\ job' = job
    BY <1>1, <1>5 DEF JobInv
  <2>. QED  BY <1>14, <1>16, <2>1, Zenon DEF UpdateInv
<1>20. OpenInv' /\ Apart' /\ Unique(Batch, slipped)' /\ (~Working' => Idle(job)')
  BY <1>1, <1>5, <1>6, <1>8 DEF JobInv, OpenInv, Apart
<1>. QED  BY <1>8, <1>13, <1>17, <1>18, <1>19, <1>20 DEF IngestInv, JobInv

\* Documents that go are of lines that are excused.
LEMMA RemovedInv ==
  ASSUME IngestInv, TypeOK', ~Working', Idle(job'), docs' \subseteq docs,
         UNCHANGED <<file, cursor, saved, slipped>>, Excused \subseteq Excused',
         \A d \in docs : d \in docs' \/ <<d.src, d.gen, d.line>> \in Excused'
  PROVE  IngestInv'
<1>1. CursorsInv
  BY DEF IngestInv
<1>2. ASSUME NEW s \in Sources, NEW c, Indexed(c, s, file[s].gen, docs, Excused)
      PROVE  Indexed(c, s, file[s].gen, docs', Excused')
  <2>1. PICK g, D, E, X, Y : /\ g = file[s].gen /\ D = docs /\ E = docs'
                             /\ X = Excused /\ Y = Excused'
    OBVIOUS
  <2>2. Indexed(c, s, g, D, X)
    BY <1>2, <2>1, Zenon
  <2>3. /\ E \subseteq D /\ X \subseteq Y
        /\ \A d \in D : d.src = s /\ d.gen = g => d \in E \/ <<s, g, d.line>> \in Y
    BY <2>1
  <2>4. Indexed(c, s, g, E, Y)
    BY <2>2, <2>3, IndexedStays
  <2>. QED  BY <2>1, <2>4, Zenon
<1>3. CursorsInv'
  <2>1. (\A d \in docs' : d.copy = 0) /\ Unique(docs', slipped')
    BY <1>1 DEF CursorsInv, Unique
  <2>2. \A s \in Sources : len(s)' = len(s)
    BY DEF len
  <2>. QED  BY <1>1, <1>2, <2>1, <2>2, Zenon DEF CursorsInv
<1>. QED  BY <1>3, IdleNext

LEMMA EvictInv ==
  ASSUME IngestInv, NEW cutoff \in Cutoffs, evict(cutoff)
  PROVE  IngestInv'
<1>1. TypeOK /\ JobInv /\ \A d \in docs : d \in Doc
  BY Typed DEF IngestInv
<1>2. /\ gate = "free" /\ docs' = {d \in docs : d.line >= cutoff}
      /\ dropped' = dropped \cup {<<d.src, d.gen, d.line>> : d \in {e \in docs : e.line < cutoff}}
      /\ UNCHANGED <<file, cursor, saved, gate, job, purged, slipped>>
  BY DEF evict
<1>3. cutoff \in Nat /\ \A d \in docs : d.line \in Nat
  BY <1>1, BoundAssumption DEF Doc
<1>4. \A d \in docs : <<d.src, d.gen, d.line>> \in Lines
  BY <1>1 DEF Doc, Lines
<1>5. TypeOK'
  BY <1>1, <1>2, <1>4 DEF TypeOK
<1>6. ~Working' /\ Idle(job')
  BY <1>1, <1>2 DEF JobInv, Working
<1>7. Excused \subseteq Excused'
  BY <1>2 DEF Excused
<1>8. ASSUME NEW d \in docs PROVE d \in docs' \/ <<d.src, d.gen, d.line>> \in Excused'
  <2>1. d.line >= cutoff \/ d.line < cutoff
    BY <1>3
  <2>. QED  BY <1>2, <2>1 DEF Excused
<1>9. docs' \subseteq docs
  BY <1>2
<1>. QED  BY <1>2, <1>5, <1>6, <1>7, <1>8, <1>9, RemovedInv

LEMMA DeleteInv ==
  ASSUME IngestInv, NEW r \in Runs, delete_run(r)
  PROVE  IngestInv'
<1>1. TypeOK /\ JobInv /\ \A d \in docs : d \in Doc
  BY Typed DEF IngestInv
<1>2. /\ docs' = {d \in docs : RunOf[d.src] # r}
      /\ purged' = purged \cup {<<d.src, d.gen, d.line>> : d \in {e \in docs : RunOf[e.src] = r}}
      /\ gate = "free" /\ gate' \in {"free", "forget"}
      /\ \/ job' = [IdleJob EXCEPT !.todo = {s \in Sources : RunOf[s] = r}]
         \/ job' = job
      /\ UNCHANGED <<file, cursor, saved, dropped, slipped>>
  BY DEF delete_run
<1>3. \A d \in docs : <<d.src, d.gen, d.line>> \in Lines
  BY <1>1 DEF Doc, Lines
<1>4. job' \in JobState /\ Idle(job')
  <2>1. job \in JobState /\ Idle(job)
    BY <1>1, <1>2 DEF TypeOK, JobInv, Working
  <2>2. CASE job' = job
    BY <2>1, <2>2
  <2>3. CASE job' = [IdleJob EXCEPT !.todo = {s \in Sources : RunOf[s] = r}]
    BY <2>3, IdleJobTyped DEF JobState, Idle, IdleJob
  <2>. QED  BY <1>2, <2>2, <2>3
<1>5. TypeOK'
  BY <1>1, <1>2, <1>3, <1>4 DEF TypeOK
<1>6. ~Working'
  BY <1>2 DEF Working
<1>7. docs' \subseteq docs /\ Excused \subseteq Excused'
  BY <1>2 DEF Excused
<1>8. \A d \in docs : d \in docs' \/ <<d.src, d.gen, d.line>> \in Excused'
  BY <1>2 DEF Excused
<1>. QED  BY <1>2, <1>4, <1>5, <1>6, <1>7, <1>8, RemovedInv

\* The cursors of a deleted run start over, or speak of no file.
LEMMA ForgetInv ==
  ASSUME IngestInv, ForgetCursors
  PROVE  IngestInv'
<1>1. TypeOK /\ CursorsInv /\ \A d \in docs : d \in Doc
  BY Typed DEF IngestInv
<1>2. /\ cursor' = [s \in Sources |-> IF s \in job.todo THEN NoCursor ELSE cursor[s]]
      /\ \/ saved' = cursor'
         \/ saved' = [s \in Sources |-> IF s \in job.todo THEN [saved[s] EXCEPT !.gen = Gone]
                                        ELSE saved[s]]
      /\ purged' = {l \in purged : l[1] \notin job.todo}
      /\ gate' = "free" /\ job' = IdleJob
      /\ UNCHANGED <<file, docs, dropped, slipped>>
  BY DEF ForgetCursors
<1>3. Gone = MaxGen + 1 /\ MaxGen \in Nat
  BY BoundAssumption DEF Gone
<1>4. NoCursor.offset = 0 /\ NoCursor.next_seq = 0 /\ NoCursor.gen = 0
  BY DEF NoCursor
<1>5. ASSUME NEW s \in Sources, s \notin job.todo, NEW c, Indexed(c, s, file[s].gen, docs, Excused)
      PROVE  Indexed(c, s, file[s].gen, docs, Excused')
  <2>1. PICK g, D, X, Y : g = file[s].gen /\ D = docs /\ X = Excused /\ Y = Excused'
    OBVIOUS
  <2>2. Indexed(c, s, g, D, X)
    BY <1>5, <2>1, Zenon
  <2>3. \A i : <<s, g, i>> \in X => <<s, g, i>> \in Y
    BY <1>2, <1>5, <2>1 DEF Excused
  <2>4. Indexed(c, s, g, D, Y)
    BY <2>2, <2>3, IndexedStays
  <2>. QED  BY <2>1, <2>4, Zenon
<1>6. ASSUME NEW s \in Sources
      PROVE  /\ cursor'[s] \in Cursor /\ CursorInv(cursor'[s], file[s].gen, len(s))
             /\ Indexed(cursor'[s], s, file[s].gen, docs, Excused')
  <2>1. PICK g \in 0 .. MaxGen, l \in Nat : g = file[s].gen /\ l = len(s)
    BY <1>1, Typed
  <2>2. CASE s \notin job.todo
    BY <1>1, <1>2, <1>5, <2>2, Typed DEF CursorsInv
  <2>3. CASE s \in job.todo
    <3>1. cursor'[s] = NoCursor
      BY <1>2, <2>3
    <3>2. CursorInv(NoCursor, g, l)
      BY <1>3, <1>4 DEF CursorInv
    <3>3. Indexed(NoCursor, s, g, docs, Excused')
      BY <1>1, <1>4, IndexedAtStart, IdleJobTyped
    <3>. QED  BY <2>1, <3>1, <3>2, <3>3, IdleJobTyped
  <2>. QED  BY <2>2, <2>3
<1>7. ASSUME NEW s \in Sources
      PROVE  /\ saved'[s] \in Cursor /\ CursorInv(saved'[s], file[s].gen, len(s))
             /\ Indexed(saved'[s], s, file[s].gen, docs, Excused')
             /\ Lags(saved'[s], cursor'[s], file[s].gen)
  <2>1. CASE saved' = cursor'
    BY <1>6, <2>1, LagsItself
  <2>2. CASE saved' # cursor' /\ s \notin job.todo
    <3>1. saved'[s] = saved[s] /\ cursor'[s] = cursor[s]
      BY <1>2, <2>2
    <3>. QED  BY <1>1, <1>5, <2>2, <3>1, Typed DEF CursorsInv
  <2>3. CASE saved' # cursor' /\ s \in job.todo
    <3>1. PICK c \in Cursor, g \in 0 .. MaxGen, l \in Nat :
            c = saved[s] /\ g = file[s].gen /\ l = len(s)
      BY <1>1, Typed
    <3>2. PICK e : e = [c EXCEPT !.gen = Gone]
      OBVIOUS
    <3>3. saved'[s] = e
      BY <1>2, <2>3, <3>1, <3>2
    <3>4. e \in Cursor /\ e.gen = Gone /\ e.offset = c.offset /\ e.next_seq = c.next_seq
      BY <1>3, <3>2 DEF Cursor
    <3>5. e.offset = 0 => e.next_seq = 0
      BY <1>1, <3>1, <3>4 DEF CursorsInv, CursorInv
    <3>6. e.gen # g
      BY <1>3, <3>4
    <3>7. CursorInv(e, g, l) /\ Lags(e, cursor'[s], g)
      BY <3>4, <3>5, <3>6 DEF CursorInv, Lags, Speaks
    <3>8. Indexed(e, s, g, docs, Excused')
      <4>1. CASE e.offset = 0
        BY <1>1, <3>4, <3>5, <4>1, IndexedAtStart
      <4>2. CASE e.offset # 0
        BY <3>6, <4>2 DEF Indexed, Speaks
      <4>. QED  BY <4>1, <4>2
    <3>. QED  BY <3>1, <3>3, <3>4, <3>7, <3>8
  <2>. QED  BY <2>1, <2>2, <2>3
<1>8. TypeOK'
  <2>1. cursor' \in [Sources -> Cursor] /\ saved' \in [Sources -> Cursor]
    BY <1>2, <1>6, <1>7
  <2>. QED  BY <1>1, <1>2, <2>1, IdleJobTyped DEF TypeOK
<1>9. CursorsInv'
  <2>1. \A s \in Sources : len(s)' = len(s)
    BY <1>2 DEF len
  <2>. QED  BY <1>1, <1>2, <1>6, <1>7, <2>1 DEF CursorsInv
<1>. QED  BY <1>2, <1>8, <1>9, EndInv

\* What collect_complete_lines reads behind a cursor c, how it numbers it, the
\* documents it makes of it, and where it leaves the cursor.
ReadLines(c, s, g, m) == {i \in LinesBehind(c.offset, m) : <<s, g, i>> \notin Blank}
Number(c, R, i) == c.next_seq + Cardinality({j \in R : j < i})
AddedOf(c, s, g, R, i) == [src |-> s, seq |-> Number(c, R, i), gen |-> g, line |-> i]
AddedFrom(c, s, g, R, min) == {AddedOf(c, s, g, R, i) : i \in {j \in R : j >= min}}
NewFrom(c, s, g, R, min) == {StagedDoc(a) : a \in AddedFrom(c, s, g, R, min)}
Moved(c, g, m, R) ==
    [offset |-> 2 * m, next_seq |-> c.next_seq + Cardinality(R),
     gen |-> IF Speaks(c, g) THEN g ELSE c.gen]

\* The lines read are numbered from next_seq on, in their order.
LEMMA Numbering ==
  ASSUME NEW c \in Cursor, NEW m \in Nat, NEW R \in SUBSET (1 .. m)
  PROVE  /\ Cardinality(R) \in Nat
         /\ \A i \in R : /\ Number(c, R, i) \in Nat /\ c.next_seq <= Number(c, R, i)
                         /\ Number(c, R, i) < c.next_seq + Cardinality(R)
         /\ \A i, j \in R : i < j => Number(c, R, i) < Number(c, R, j)
<1>. DEFINE Below(i) == {j \in R : j < i}
<1>1. IsFiniteSet(R)
  <2>1. IsFiniteSet(1 .. m)
    BY FS_Interval
  <2>. QED  BY <2>1, FS_Subset
<1>2. Cardinality(R) \in Nat
  BY <1>1, FS_CardinalityType
<1>3. \A i \in R : IsFiniteSet(Below(i)) /\ Cardinality(Below(i)) \in Nat
  <2>1. ASSUME NEW i \in R PROVE IsFiniteSet(Below(i)) /\ Cardinality(Below(i)) \in Nat
    <3>1. Below(i) \in SUBSET R
      OBVIOUS
    <3>2. IsFiniteSet(Below(i))
      BY <1>1, <3>1, FS_Subset
    <3>. QED  BY <3>2, FS_CardinalityType
  <2>. QED  BY <2>1
<1>4. ASSUME NEW i \in R PROVE Cardinality(Below(i)) < Cardinality(R)
  <2>1. Below(i) \in SUBSET R /\ Below(i) # R
    OBVIOUS
  <2>2. Cardinality(Below(i)) <= Cardinality(R) /\ Cardinality(Below(i)) # Cardinality(R)
    BY <1>1, <2>1, FS_Subset
  <2>. QED  BY <1>2, <1>3, <2>2
<1>5. ASSUME NEW i \in R, NEW j \in R, i < j PROVE Cardinality(Below(i)) < Cardinality(Below(j))
  <2>1. Below(i) \in SUBSET Below(j) /\ Below(i) # Below(j)
    <3>1. i \in Nat /\ j \in Nat /\ \A k \in R : k \in Nat
      OBVIOUS
    <3>2. \A k \in R : k < i => k < j
      BY <1>5, <3>1
    <3>3. i \in Below(j) /\ i \notin Below(i)
      BY <1>5, <3>1
    <3>. QED  BY <3>2, <3>3
  <2>2. Cardinality(Below(i)) <= Cardinality(Below(j))
        /\ Cardinality(Below(i)) # Cardinality(Below(j))
    BY <1>3, <2>1, FS_Subset
  <2>. QED  BY <1>3, <2>2
<1>6. c.next_seq \in Nat /\ \A i \in R : Number(c, R, i) = c.next_seq + Cardinality(Below(i))
  BY DEF Cursor, Number
<1>. HIDE DEF Below
<1>. QED  BY <1>2, <1>3, <1>4, <1>5, <1>6

\* What is read, and what it becomes.
LEMMA ReadFacts ==
  ASSUME NEW c \in Cursor, NEW s \in Sources, NEW g \in 0 .. MaxGen, NEW m \in 1 .. MaxLines,
         2 * m > c.offset, NEW min, NEW R, R = ReadLines(c, s, g, m), NEW e, e = Moved(c, g, m, R),
         NEW A, A = AddedFrom(c, s, g, R, min), NEW N, N = NewFrom(c, s, g, R, min)
  PROVE  /\ e \in Cursor /\ e.offset = 2 * m /\ c.next_seq <= e.next_seq
         /\ Speaks(e, g) <=> Speaks(c, g)
         /\ e.gen = IF Speaks(c, g) THEN g ELSE c.gen
         /\ R \subseteq 1 .. m /\ A \subseteq Added
         /\ \A a \in A : a.src = s /\ c.next_seq <= a.seq
         /\ \A d \in N : /\ d.src = s /\ d.gen = g /\ d.line \in R /\ d.seq = Number(c, R, d.line)
                         /\ c.next_seq <= d.seq /\ d.seq < e.next_seq /\ d \in Doc
         /\ \A d, f \in N : (d.line = f.line => d = f) /\ (d.line < f.line => d.seq < f.seq)
         /\ \A i \in R : i >= min => \E d \in N : d.line = i
<1>1. m \in Nat /\ m >= 1 /\ MaxLines \in Nat /\ MaxGen \in Nat
  BY BoundAssumption
<1>2. R \in SUBSET (1 .. m)
  BY DEF ReadLines, LinesBehind
<1>3. /\ Cardinality(R) \in Nat
      /\ \A i \in R : /\ Number(c, R, i) \in Nat /\ c.next_seq <= Number(c, R, i)
                      /\ Number(c, R, i) < c.next_seq + Cardinality(R)
      /\ \A i, j \in R : i < j => Number(c, R, i) < Number(c, R, j)
  BY <1>1, <1>2, Numbering
<1>4. c.offset \in Nat /\ c.next_seq \in Nat /\ c.gen \in 0 .. Gone /\ g \in 0 .. Gone
  BY <1>1 DEF Cursor, Gone
<1>5. /\ e.offset = 2 * m /\ e.next_seq = c.next_seq + Cardinality(R)
      /\ e.gen = IF Speaks(c, g) THEN g ELSE c.gen
  BY DEF Moved
<1>6. e \in Cursor
  BY <1>1, <1>3, <1>4 DEF Cursor, Moved
<1>7. Speaks(e, g) <=> Speaks(c, g)
  <2>1. 2 * m # 0
    BY <1>1
  <2>. QED  BY <1>5, <2>1 DEF Speaks
<1>8. \A i \in R : AddedOf(c, s, g, R, i) \in Added
  BY <1>1, <1>2, <1>3 DEF AddedOf, Added
<1>9. A \subseteq Added /\ \A a \in A : a.src = s /\ c.next_seq <= a.seq
  BY <1>3, <1>8 DEF AddedFrom, AddedOf
<1>10. \A d \in N : \E i \in R : d = [src |-> s, seq |-> Number(c, R, i), gen |-> g, line |-> i, copy |-> 0]
  BY DEF NewFrom, AddedFrom, AddedOf, StagedDoc
<1>11. \A i \in R : i >= min =>
         [src |-> s, seq |-> Number(c, R, i), gen |-> g, line |-> i, copy |-> 0] \in N
  <2>. SUFFICES ASSUME NEW i \in R, i >= min
                PROVE  [src |-> s, seq |-> Number(c, R, i), gen |-> g, line |-> i, copy |-> 0] \in N
    OBVIOUS
  <2>1. StagedDoc(AddedOf(c, s, g, R, i)) \in N
    BY DEF NewFrom, AddedFrom
  <2>2. StagedDoc(AddedOf(c, s, g, R, i))
          = [src |-> s, seq |-> Number(c, R, i), gen |-> g, line |-> i, copy |-> 0]
    BY DEF StagedDoc, AddedOf
  <2>. QED  BY <2>1, <2>2
<1>12. \A d \in N : /\ d.src = s /\ d.gen = g /\ d.line \in R /\ d.seq = Number(c, R, d.line)
                    /\ d = [src |-> s, seq |-> Number(c, R, d.line), gen |-> g,
                            line |-> d.line, copy |-> 0]
  BY <1>10
<1>13. \A d \in N : c.next_seq <= d.seq /\ d.seq < e.next_seq
  BY <1>3, <1>5, <1>12
<1>14. \A d \in N : d \in Doc
  <2>1. \A i \in R : [src |-> s, seq |-> Number(c, R, i), gen |-> g, line |-> i, copy |-> 0] \in Doc
    BY <1>1, <1>2, <1>3 DEF Doc
  <2>. QED  BY <1>10, <2>1
<1>15. \A d, f \in N : (d.line = f.line => d = f) /\ (d.line < f.line => d.seq < f.seq)
  <2>1. ASSUME NEW d \in N, NEW f \in N, d.line = f.line PROVE d = f
    BY <1>12, <2>1
  <2>2. ASSUME NEW d \in N, NEW f \in N, d.line < f.line PROVE d.seq < f.seq
    BY <1>3, <1>12, <2>2
  <2>. QED  BY <2>1, <2>2
<1>16. \A i \in R : i >= min => \E d \in N : d.line = i
  BY <1>11
<1>17. c.next_seq <= e.next_seq
  BY <1>3, <1>4, <1>5
<1>. QED  BY <1>2, <1>5, <1>6, <1>7, <1>9, <1>12, <1>13, <1>14, <1>15, <1>16, <1>17

\* Of the source read, the new batch E has what the old batch D had behind the cursor,
\* and the lines read; the rest is as it was.
BatchGrows(c, s, D, E, N) ==
    /\ \A d \in E : d.src # s => d \in D
    /\ \A d \in D : d.src # s => d \in E
    /\ \A d \in E : d.src = s => (d \in D /\ d.seq < c.next_seq) \/ d \in N
    /\ \A d \in D : d.src = s /\ d.seq < c.next_seq => d \in E
    /\ N \subseteq E

\* A cursor that moves past a chunk.
LEMMA ChunkIndexed ==
  ASSUME NEW c \in Cursor, NEW s \in Sources, NEW g \in 0 .. MaxGen, NEW m \in 1 .. MaxLines,
         2 * m > c.offset, NEW min, NEW R, R = ReadLines(c, s, g, m), NEW e, e = Moved(c, g, m, R),
         NEW N, N = NewFrom(c, s, g, R, min), NEW l \in Nat, 2 * m <= l, CursorInv(c, g, l),
         NEW D, NEW E, \A d \in D : d \in Doc, BatchGrows(c, s, D, E, N),
         NEW X, NEW Y, X \subseteq Y, Blank \subseteq Y, min \in Nat,
         \A i \in R : i < min => <<s, g, i>> \in Y, Indexed(c, s, g, D, X)
  PROVE  CursorInv(e, g, l) /\ Lags(c, e, g) /\ Indexed(e, s, g, E, Y)
<1>1. /\ m \in Nat /\ m >= 1 /\ MaxLines \in Nat /\ MaxGen \in Nat /\ g \in Nat /\ Gone = MaxGen + 1
      /\ c.offset \in Nat /\ c.next_seq \in Nat /\ c.gen \in 0 .. Gone
  BY BoundAssumption DEF Cursor, Gone
<1>2. /\ e \in Cursor /\ e.offset = 2 * m /\ c.next_seq <= e.next_seq /\ e.next_seq \in Nat
      /\ Speaks(e, g) <=> Speaks(c, g)
      /\ e.gen = IF Speaks(c, g) THEN g ELSE c.gen
      /\ R \subseteq 1 .. m
      /\ \A d \in N : /\ d.src = s /\ d.gen = g /\ d.line \in R
                      /\ c.next_seq <= d.seq /\ d.seq < e.next_seq /\ d \in Doc
      /\ \A d, f \in N : d.line < f.line => d.seq < f.seq
      /\ \A i \in R : i >= min => \E d \in N : d.line = i
  BY ReadFacts DEF Cursor
<1>3. CursorInv(e, g, l)
  BY <1>1, <1>2 DEF CursorInv
<1>4. Lags(c, e, g)
  BY <1>2 DEF Lags
<1>. SUFFICES ASSUME Speaks(c, g) PROVE Covered(e, s, g, E, Y) /\ Ordered(e, s, g, E)
  BY <1>2, <1>3, <1>4 DEF Indexed
<1>5. Covered(c, s, g, D, X) /\ Ordered(c, s, g, D)
  BY DEF Indexed
<1>6. ASSUME NEW i \in 1 .. MaxLines, 2 * i <= e.offset, <<s, g, i>> \notin Y
      PROVE  \E d \in E : d.src = s /\ d.gen = g /\ d.line = i /\ d.seq < e.next_seq
  <2>1. CASE 2 * i <= c.offset
    <3>1. PICK d \in D : d.src = s /\ d.gen = g /\ d.line = i /\ d.seq < c.next_seq
      BY <1>5, <1>6, <2>1 DEF Covered
    <3>2. d \in E /\ d.seq \in Nat
      BY <3>1 DEF BatchGrows, Doc
    <3>. QED  BY <1>1, <1>2, <3>1, <3>2
  <2>2. CASE ~(2 * i <= c.offset)
    <3>1. i \in R
      BY <1>1, <1>2, <1>6, <2>2 DEF ReadLines, LinesBehind
    <3>2. i >= min
      BY <1>6, <3>1
    <3>3. PICK d \in N : d.line = i
      BY <1>2, <3>1, <3>2
    <3>. QED  BY <1>2, <3>3 DEF BatchGrows
  <2>. QED  BY <2>1, <2>2
<1>7. \A i \in R : 2 * i > c.offset /\ i \in 1 .. m
  BY DEF ReadLines, LinesBehind
<1>8. \A d \in D : d.src = s /\ d.seq < c.next_seq =>
        d.gen = g /\ 2 * d.line <= c.offset /\ d.seq \in Nat /\ d.line \in Nat
  BY <1>1, <1>5 DEF Ordered, Doc
<1>9. ASSUME NEW d \in E, d.src = s PROVE d.gen = g /\ 2 * d.line <= e.offset
  <2>1. CASE d \in D /\ d.seq < c.next_seq
    BY <1>1, <1>2, <1>8, <1>9, <2>1
  <2>2. CASE d \in N
    BY <1>1, <1>2, <1>7, <2>2
  <2>. QED  BY <1>9, <2>1, <2>2 DEF BatchGrows
<1>10. ASSUME NEW d \in E, NEW f \in E, d.src = s, f.src = s, d.line < f.line
       PROVE  d.seq < f.seq
  <2>1. CASE d \in D /\ d.seq < c.next_seq /\ f \in D /\ f.seq < c.next_seq
    BY <1>5, <1>10, <2>1 DEF Ordered
  <2>2. CASE d \in N /\ f \in N
    BY <1>2, <1>10, <2>2
  <2>3. CASE d \in D /\ d.seq < c.next_seq /\ f \in N
    <3>1. d.seq \in Nat /\ f.seq \in Nat /\ c.next_seq <= f.seq
      BY <1>2, <2>3 DEF Doc
    <3>. QED  BY <1>1, <2>3, <3>1
  <2>4. CASE d \in N /\ f \in D /\ f.seq < c.next_seq
    <3>1. 2 * d.line > c.offset /\ 2 * f.line <= c.offset /\ d.line \in Nat /\ f.line \in Nat
      BY <1>1, <1>2, <1>7, <1>8, <1>10, <2>4
    <3>. QED  BY <1>1, <1>10, <3>1
  <2>. QED  BY <1>10, <2>1, <2>2, <2>3, <2>4 DEF BatchGrows
<1>. QED  BY <1>6, <1>9, <1>10 DEF Covered, Ordered

\* A line that was read before is not read again, unless the file slipped past its cursor.
LEMMA ChunkUnique ==
  ASSUME NEW c \in Cursor, NEW s \in Sources, NEW g \in 0 .. MaxGen, NEW m \in 1 .. MaxLines,
         2 * m > c.offset, NEW min, NEW R, R = ReadLines(c, s, g, m),
         NEW N, N = NewFrom(c, s, g, R, min),
         NEW D, NEW E, \A d \in D : d \in Doc, BatchGrows(c, s, D, E, N),
         NEW X, Indexed(c, s, g, D, X), NEW P, Unique(D, P), NEW Q,
         Q = IF Speaks(c, g) THEN P ELSE P \cup {<<s, g>>}
  PROVE  Unique(E, Q)
<1>1. /\ R \subseteq 1 .. m /\ m \in Nat /\ c.offset \in Nat
      /\ \A d \in N : d.src = s /\ d.gen = g /\ d.line \in R
      /\ \A d, f \in N : d.line = f.line => d = f
  BY ReadFacts, BoundAssumption DEF Cursor
<1>. SUFFICES ASSUME NEW d \in E, NEW f \in E, d.src = f.src, d.gen = f.gen, d.line = f.line,
                     <<d.src, d.gen>> \notin Q
              PROVE  d = f
  BY DEF Unique
<1>2. <<d.src, d.gen>> \notin P
  OBVIOUS
<1>3. CASE d \in D /\ f \in D
  BY <1>2, <1>3 DEF Unique
<1>4. CASE d \in N /\ f \in N
  BY <1>1, <1>4
<1>5. ASSUME NEW x \in D, x.src = s, x.seq < c.next_seq, NEW y \in N, x.gen = y.gen,
             x.line = y.line, <<x.src, x.gen>> \notin Q
      PROVE  FALSE
  <2>1. Speaks(c, g)
    BY <1>1, <1>5
  <2>2. 2 * x.line <= c.offset
    BY <1>5, <2>1 DEF Indexed, Ordered
  <2>3. \A i \in R : 2 * i > c.offset /\ i \in Nat
    BY <1>1 DEF ReadLines, LinesBehind
  <2>4. 2 * y.line > c.offset /\ y.line \in Nat
    BY <1>1, <1>5, <2>3
  <2>. QED  BY <1>1, <1>5, <2>2, <2>4
<1>6. CASE d.src # s
  BY <1>3, <1>6 DEF BatchGrows
<1>7. CASE d.src = s
  <2>1. (d \in D /\ d.seq < c.next_seq) \/ d \in N
    BY <1>7 DEF BatchGrows
  <2>2. (f \in D /\ f.seq < c.next_seq) \/ f \in N
    BY <1>7 DEF BatchGrows
  <2>. QED  BY <1>3, <1>4, <1>5, <1>7, <2>1, <2>2
<1>. QED  BY <1>6, <1>7

\* A cursor that lags behind the one read from is spared by what is read.
LEMMA ChunkSpared ==
  ASSUME NEW b \in Cursor, NEW c \in Cursor, NEW s, NEW g, Lags(b, c, g), NEW adds, NEW u,
         Spared(b, s, g, adds, u), NEW A, \A a \in A : c.next_seq <= a.seq /\ a.seq \in Nat,
         NEW v, \/ u # NoUpdate /\ v.delete_from_seq = u.delete_from_seq
                \/ v.delete_from_seq \subseteq {c.next_seq}
  PROVE  Spared(b, s, g, adds \cup A, v)
<1>. SUFFICES ASSUME Speaks(b, g)
              PROVE  /\ \A a \in adds \cup A : a.src = s => b.next_seq <= a.seq
                     /\ v # NoUpdate => \A n \in v.delete_from_seq : b.next_seq <= n
  BY DEF Spared
<1>1. b.next_seq \in Nat /\ c.next_seq \in Nat
  BY DEF Cursor
<1>2. b.next_seq <= c.next_seq
  BY <1>1 DEF Lags
<1>3. \A a \in A : b.next_seq <= a.seq
  BY <1>1, <1>2
<1>4. \A n \in v.delete_from_seq : b.next_seq <= n
  BY <1>1, <1>2 DEF Spared
<1>. QED  BY <1>3, <1>4 DEF Spared

LEMMA LagsFurther ==
  ASSUME NEW a \in Cursor, NEW b \in Cursor, NEW c \in Cursor, NEW g,
         Lags(a, b, g), Lags(b, c, g)
  PROVE  Lags(a, c, g)
<1>1. a.next_seq \in Nat /\ b.next_seq \in Nat /\ c.next_seq \in Nat
  BY DEF Cursor
<1>. QED  BY <1>1 DEF Lags

\* A chunk is read into the batch.
LEMMA ReadInv ==
  ASSUME IngestInv, NEW m \in 1 .. MaxLines, ReadChunk(m)
  PROVE  IngestInv'
<1>1. TypeOK /\ CursorsInv /\ JobInv /\ job \in JobState /\ gate = "read"
  BY DEF IngestInv, TypeOK, ReadChunk
<1>2. PICK s \in Sources : s = job.open
  BY <1>1 DEF TypeOK
<1>3. PICK c \in Cursor, g \in 0 .. MaxGen, l \in Nat, k \in 0 .. MaxLines :
        c = job.local[s] /\ g = file[s].gen /\ l = len(s) /\ k = file[s].lines
  BY <1>1, Typed
<1>4. PICK min \in Nat, del \in SUBSET Nat, u \in Update \cup {NoUpdate} :
        min = job.min_ts /\ del = job.delete /\ u = job.updates[s]
  BY <1>1 DEF JobState
<1>5. PICK R, e, A, N : /\ R = ReadLines(c, s, g, m) /\ e = Moved(c, g, m, R)
                        /\ A = AddedFrom(c, s, g, R, min) /\ N = NewFrom(c, s, g, R, min)
  OBVIOUS
<1>6. PICK first : first = IF u = NoUpdate \/ u.delete_from_seq = {} THEN del
                                                                     ELSE u.delete_from_seq
  OBVIOUS
<1>7. m <= k /\ 2 * m > c.offset /\ gate' \in {"read", "commit"}
      /\ UNCHANGED <<file, docs, cursor, saved, purged>>
  BY <1>2, <1>3 DEF ReadChunk
<1>8. 2 * m <= l
  <2>1. m \in Nat /\ k \in Nat
    BY BoundAssumption
  <2>2. l = 2 * k + (IF file[s].open THEN 1 ELSE 0)
    BY <1>3 DEF len
  <2>3. (IF file[s].open THEN 1 ELSE 0) \in {0, 1}
    OBVIOUS
  <2>. QED  BY <1>7, <2>1, <2>2, <2>3
<1>9. /\ job' = [job EXCEPT !.local[s] = e, !.delete = {},
                            !.updates[s] = [cursor |-> e, delete_from_seq |-> first],
                            !.adds = job.adds \cup A]
      /\ dropped' = dropped \cup FileLines(s, {i \in R : i < min})
      /\ slipped' = IF Speaks(c, g) THEN slipped ELSE slipped \cup {<<s, g>>}
  <2>1. collect_complete_lines(s, m)
    BY <1>2 DEF ReadChunk
  <2>2. /\ job' = [job EXCEPT
              !.local[s] = Moved(job.local[s], file[s].gen, m,
                                 ReadLines(job.local[s], s, file[s].gen, m)),
              !.delete = {},
              !.updates[s] = [cursor |-> Moved(job.local[s], file[s].gen, m,
                                               ReadLines(job.local[s], s, file[s].gen, m)),
                              delete_from_seq |->
                                IF job.updates[s] = NoUpdate \/ job.updates[s].delete_from_seq = {}
                                  THEN job.delete ELSE job.updates[s].delete_from_seq],
              !.adds = job.adds \cup
                         AddedFrom(job.local[s], s, file[s].gen,
                                   ReadLines(job.local[s], s, file[s].gen, m), job.min_ts)]
        /\ dropped' = dropped \cup
             FileLines(s, {i \in ReadLines(job.local[s], s, file[s].gen, m) : i < job.min_ts})
        /\ slipped' = IF Speaks(job.local[s], file[s].gen) THEN slipped
                      ELSE slipped \cup {<<s, file[s].gen>>}
    BY <2>1, Zenon DEF collect_complete_lines, Current, Speaks, Moved, ReadLines, AddedFrom,
                       AddedOf, Number
  <2>. QED  BY <1>3, <1>4, <1>5, <1>6, <2>2, Zenon
<1>10. /\ e \in Cursor /\ e.offset = 2 * m /\ c.next_seq <= e.next_seq
       /\ c.next_seq \in Nat /\ e.next_seq \in Nat
       /\ R \subseteq 1 .. m /\ A \subseteq Added
       /\ \A a \in A : a.src = s /\ c.next_seq <= a.seq /\ a.seq \in Nat
       /\ \A d \in N : d.src = s /\ d.gen = g /\ c.next_seq <= d.seq /\ d.seq < e.next_seq /\ d \in Doc
  <2>1. c.next_seq \in Nat
    BY DEF Cursor
  <2>2. /\ e \in Cursor /\ e.offset = 2 * m /\ c.next_seq <= e.next_seq
        /\ R \subseteq 1 .. m /\ A \subseteq Added
        /\ \A a \in A : a.src = s /\ c.next_seq <= a.seq
        /\ \A d \in N : d.src = s /\ d.gen = g /\ c.next_seq <= d.seq /\ d.seq < e.next_seq /\ d \in Doc
    BY <1>5, <1>7, ReadFacts
  <2>3. e.next_seq \in Nat
    BY <2>2 DEF Cursor
  <2>4. \A a \in A : a.seq \in Nat
    BY <2>2 DEF Added
  <2>. QED  BY <2>1, <2>2, <2>3, <2>4
<1>11. first \in SUBSET Nat /\ (u # NoUpdate => u.delete_from_seq \in SUBSET Nat)
  BY <1>4, <1>6 DEF Update
<1>12. PICK v \in Update : v = [cursor |-> e, delete_from_seq |-> first]
  BY <1>10, <1>11 DEF Update
<1>13. v.cursor = e /\ v.delete_from_seq = first /\ v # NoUpdate
  BY <1>12, UpdateAssumption
<1>14. /\ job'.local = [job.local EXCEPT ![s] = e] /\ job'.updates = [job.updates EXCEPT ![s] = v]
       /\ job'.adds = job.adds \cup A /\ job'.open = s /\ job'.todo = job.todo
       /\ job'.delete = {} /\ job'.min_ts = min
  BY <1>1, <1>2, <1>4, <1>9, <1>12 DEF JobState
<1>15. job' \in JobState
  <2>1. /\ job'.local \in [Sources -> Cursor] /\ job'.updates \in [Sources -> Update \cup {NoUpdate}]
        /\ job'.adds \in SUBSET Added /\ {} \in SUBSET Nat
    BY <1>1, <1>10, <1>14 DEF JobState
  <2>2. job' = [job EXCEPT !.local = job'.local, !.delete = {}, !.updates = job'.updates,
                           !.adds = job'.adds]
    BY <1>1, <1>9, <1>12, <1>14 DEF JobState
  <2>. QED  BY <1>1, <2>1, <2>2 DEF JobState
<1>16. TypeOK'
  <2>1. FileLines(s, {i \in R : i < min}) \subseteq Lines
    <3>1. R \subseteq 1 .. MaxLines
      BY <1>10, BoundAssumption
    <3>2. \A i \in R : <<s, g, i>> \in Lines
      BY <3>1 DEF Lines
    <3>. QED  BY <1>3, <3>2, Zenon DEF FileLines
  <2>2. slipped' \subseteq Sources \X (0 .. MaxGen)
    BY <1>1, <1>9 DEF TypeOK
  <2>3. dropped' \subseteq Lines /\ job'.open \in Sources
    BY <1>1, <1>9, <1>14, <2>1 DEF TypeOK
  <2>. QED  BY <1>1, <1>7, <1>15, <2>2, <2>3 DEF TypeOK
<1>17. PICK D, E, X, Y, P, Q : /\ D = Batch /\ E = Batch' /\ X = Excused /\ Y = Excused'
                               /\ P = slipped /\ Q = slipped'
  OBVIOUS
<1>18. /\ X \subseteq Y /\ Blank \subseteq Y /\ P \subseteq Q
       /\ \A i \in R : i < min => <<s, g, i>> \in Y
  BY <1>3, <1>7, <1>9, <1>17 DEF Excused, FileLines
<1>19. /\ \A t \in Sources : LocalInv(t) /\ UpdateInv(t)
       /\ OpenInv /\ Apart /\ Unique(D, P) /\ Working /\ Working'
  BY <1>1, <1>7, <1>17 DEF JobInv, Working
<1>20. Staged' = Staged \cup N
  BY <1>5, <1>14 DEF Staged, NewFrom
<1>21. D = Kept \cup Staged /\ E = Kept' \cup Staged'
  BY <1>1, <1>7, <1>17 DEF Batch
\* What the batch deletes of this source from now on, and what of it remains.
<1>22. /\ Kept' \subseteq Kept
       /\ \A d \in Kept : d.src # s \/ d.seq < c.next_seq => d \in Kept'
       /\ \A d \in Kept' \cup Staged : d.src = s => d.seq < c.next_seq
       /\ first = {} \/ (u # NoUpdate /\ first = u.delete_from_seq) \/ first = {c.next_seq}
  <2>1. \A t \in Sources : job'.updates[t] = IF t = s THEN v ELSE job.updates[t]
    BY <1>1, <1>14 DEF JobState
  <2>2. \A d \in docs : d.src \in Sources /\ d.seq \in Nat /\ d \in docs'
    BY <1>1, <1>7 DEF TypeOK, Doc
  <2>3. \A d \in docs : d.src # s => (d \in Kept <=> d \in Kept')
    BY <1>7, <2>1, <2>2 DEF Kept, Replaced
  <2>4. \A d \in docs : d.src = s => (d \in Kept' <=> \A n \in first : ~(d.seq >= n))
    BY <1>7, <1>13, <2>1, <2>2 DEF Kept, Replaced
  <2>5. \A d \in docs : d.src = s =>
          (d \in Kept <=> (u # NoUpdate => \A n \in u.delete_from_seq : ~(d.seq >= n)))
    BY <1>4 DEF Kept, Replaced
  <2>6. Kept \subseteq docs /\ Kept' \subseteq docs
    BY <1>7 DEF Kept
  <2>7. CASE del = {} /\ \A d \in D : d.src = s => d.seq < c.next_seq
    <3>1. first = IF u = NoUpdate THEN {} ELSE u.delete_from_seq
      BY <1>6, <2>7
    <3>2. \A d \in docs : d.src = s => (d \in Kept <=> d \in Kept')
      BY <2>4, <2>5, <3>1
    <3>3. Kept' = Kept
      BY <2>3, <2>6, <3>2
    <3>4. first = {} \/ (u # NoUpdate /\ first = u.delete_from_seq)
      BY <3>1
    <3>5. \A d \in Kept' \cup Staged : d.src = s => d.seq < c.next_seq
      BY <1>21, <2>7, <3>3, Zenon
    <3>. QED  BY <3>3, <3>4, <3>5, Zenon
  <2>8. CASE del = {c.next_seq} /\ u = NoUpdate
    <3>1. first = {c.next_seq}
      BY <1>6, <2>8
    <3>2. \A d \in docs : d.src = s => (d \in Kept' <=> d.seq < c.next_seq) /\ d \in Kept
      BY <1>10, <2>2, <2>4, <2>5, <2>8, <3>1
    <3>3. \A d \in Staged : d.src # s
      <4>1. \A a \in job.adds : a.src # s
        BY <1>4, <1>19, <2>8, Zenon DEF UpdateInv
      <4>2. \A a \in job.adds : StagedDoc(a).src = a.src
        BY DEF StagedDoc
      <4>. QED  BY <4>1, <4>2 DEF Staged
    <3>. QED  BY <2>3, <2>6, <3>1, <3>2, <3>3
  <2>9. s # NoSource
    BY BoundAssumption
  <2>. QED  BY <1>2, <1>3, <1>4, <1>17, <1>19, <2>7, <2>8, <2>9 DEF OpenInv
<1>23. BatchGrows(c, s, D, E, N)
  BY <1>10, <1>20, <1>21, <1>22 DEF BatchGrows
<1>24. CursorInv(c, g, l) /\ Indexed(c, s, g, D, X) /\ Lags(cursor[s], c, g) /\ \A d \in D : d \in Doc
  BY <1>1, <1>3, <1>17, <1>19, Typed DEF LocalInv
<1>25. CursorInv(e, g, l) /\ Lags(c, e, g) /\ Indexed(e, s, g, E, Y)
  BY <1>5, <1>7, <1>8, <1>18, <1>23, <1>24, ChunkIndexed
<1>26. Unique(E, Q)
  <2>1. Q = IF Speaks(c, g) THEN P ELSE P \cup {<<s, g>>}
    BY <1>9, <1>17
  <2>. QED  BY <1>5, <1>7, <1>19, <1>23, <1>24, <2>1, ChunkUnique
<1>27. CursorsInv'
  <2>1. ASSUME NEW t \in Sources
        PROVE  /\ Indexed(cursor[t], t, file[t].gen, docs, Y)
               /\ Indexed(saved[t], t, file[t].gen, docs, Y)
    <3>1. PICK x, y, h, F : x = cursor[t] /\ y = saved[t] /\ h = file[t].gen /\ F = docs
      OBVIOUS
    <3>2. Indexed(x, t, h, F, X) /\ Indexed(y, t, h, F, X)
      BY <1>1, <1>17, <3>1, Zenon DEF CursorsInv
    <3>3. Indexed(x, t, h, F, Y) /\ Indexed(y, t, h, F, Y)
      BY <1>18, <3>2, ExcusedMore
    <3>. QED  BY <3>1, <3>3, Zenon
  <2>2. (\A d \in docs : d.copy = 0) /\ Unique(docs, Q)
    BY <1>1, <1>17, <1>18 DEF CursorsInv, Unique
  <2>3. \A t \in Sources : len(t)' = len(t)
    BY <1>7 DEF len
  <2>. QED  BY <1>1, <1>7, <1>17, <2>1, <2>2, <2>3, Zenon DEF CursorsInv
<1>28. ASSUME NEW t \in Sources
       PROVE  /\ t # s => job'.local[t] = job.local[t] /\ job'.updates[t] = job.updates[t]
              /\ t = s => job'.local[t] = e /\ job'.updates[t] = v
              /\ len(t)' = len(t)
  BY <1>1, <1>7, <1>14 DEF JobState, len
<1>29. ASSUME NEW t \in Sources PROVE LocalInv(t)'
  <2>1. CASE t # s
    <3>1. PICK x, h : x = job.local[t] /\ h = file[t].gen
      OBVIOUS
    <3>2. Indexed(x, t, h, D, X) /\ CursorInv(x, h, len(t)) /\ Lags(cursor[t], x, h)
      BY <1>17, <1>19, <3>1, Zenon DEF LocalInv
    <3>3. /\ \A d \in E : d.src = t => d \in D
          /\ \A d \in D : d.src = t => d \in E
      BY <1>23, <2>1 DEF BatchGrows
    <3>4. Indexed(x, t, h, E, Y)
      BY <1>18, <3>2, <3>3, IndexedStays
    <3>. QED  BY <1>7, <1>17, <1>28, <2>1, <3>1, <3>2, <3>4, Zenon DEF LocalInv
  <2>2. CASE t = s
    <3>1. Lags(cursor[s], e, g)
      <4>1. PICK b \in Cursor : b = cursor[s]
        BY <1>1 DEF TypeOK
      <4>2. Lags(b, e, g)
        BY <1>10, <1>24, <1>25, <4>1, LagsFurther
      <4>. QED  BY <4>1, <4>2
    <3>. QED  BY <1>3, <1>7, <1>17, <1>25, <1>28, <2>2, <3>1, Zenon DEF LocalInv
  <2>. QED  BY <2>1, <2>2
<1>30. ASSUME NEW t \in Sources
       PROVE  /\ Spared(cursor[t], t, file[t].gen, job'.adds, job'.updates[t])
              /\ Spared(saved[t], t, file[t].gen, job'.adds, job'.updates[t])
  <2>1. PICK x, y, h, F, w :
          x \in Cursor /\ y \in Cursor /\ x = cursor[t] /\ y = saved[t] /\ h = file[t].gen /\ F = job.adds /\ w = job.updates[t]
    BY <1>1, Typed
  <2>1a. x \in Cursor /\ y \in Cursor
    BY <2>1
  <2>2. Spared(x, t, h, F, w) /\ Spared(y, t, h, F, w) /\ Lags(y, x, h)
    BY <1>1, <1>19, <2>1, Zenon DEF UpdateInv, CursorsInv
  <2>3. CASE t # s
    <3>1. \A a \in F \cup A : a.src = t => a \in F
      BY <1>10, <2>3
    <3>2. Spared(x, t, h, F \cup A, w) /\ Spared(y, t, h, F \cup A, w)
      BY <2>2, <3>1 DEF Spared
    <3>. QED  BY <1>14, <1>28, <2>1, <2>3, <3>2
  <2>4. CASE t = s
    <3>1. h = g /\ w = u /\ Lags(x, c, h)
      BY <1>3, <1>4, <1>24, <2>1, <2>4
    <3>2. Lags(y, c, h)
      BY <2>2, <3>1, <2>1a, LagsFurther
    <3>3. \/ u # NoUpdate /\ v.delete_from_seq = u.delete_from_seq
          \/ v.delete_from_seq \subseteq {c.next_seq}
      BY <1>13, <1>22
    <3>4. \A a \in A : c.next_seq <= a.seq /\ a.seq \in Nat
      BY <1>10
    <3>5. Spared(x, t, h, F \cup A, v) /\ Spared(y, t, h, F \cup A, v)
      BY <2>2, <3>1, <3>2, <3>3, <3>4, <2>1a, ChunkSpared
    <3>. QED  BY <1>14, <1>28, <2>1, <2>4, <3>5
  <2>. QED  BY <2>3, <2>4
<1>31. ASSUME NEW t \in Sources PROVE UpdateInv(t)'
  <2>1. /\ t \in job.todo => t # s /\ job.updates[t] = NoUpdate
        /\ job.updates[t] = NoUpdate => \A a \in job.adds : a.src # t
        /\ job.updates[t] # NoUpdate => job.updates[t].cursor = job.local[t]
    BY <1>2, <1>19 DEF UpdateInv
  <2>2. t \in job'.todo => t # job'.open /\ job'.updates[t] = NoUpdate
    BY <1>14, <1>28, <2>1
  <2>3. job'.updates[t] = NoUpdate => \A a \in job'.adds : a.src # t
    BY <1>10, <1>13, <1>14, <1>28, <2>1
  <2>4. job'.updates[t] # NoUpdate => job'.updates[t].cursor = job'.local[t]
    BY <1>13, <1>28, <2>1
  <2>. QED  BY <1>7, <1>30, <2>2, <2>3, <2>4, Zenon DEF UpdateInv
<1>32. OpenInv'
  <2>1. \A d \in E : d.src = s => d.seq < e.next_seq
    <3>1. \A d \in D : d.seq \in Nat
      BY <1>24 DEF Doc
    <3>. QED  BY <1>10, <1>23, <3>1 DEF BatchGrows
  <2>2. job'.local[s] = e
    BY <1>28
  <2>. QED  BY <1>14, <1>17, <2>1, <2>2 DEF OpenInv
<1>33. Apart'
  <2>1. ASSUME NEW a \in job'.adds, NEW d \in Kept', d.src = a.src PROVE d.seq < a.seq
    <3>1. d \in Kept /\ d.seq \in Nat
      BY <1>1, <1>22, Typed DEF Doc
    <3>2. CASE a \in job.adds
      BY <1>1, <1>19, <2>1, <3>1, <3>2 DEF Apart
    <3>3. CASE a \in A
      <4>1. d.seq < c.next_seq /\ c.next_seq <= a.seq /\ a.seq \in Nat
        BY <1>10, <1>22, <2>1, <3>3
      <4>. QED  BY <1>10, <3>1, <4>1
    <3>. QED  BY <1>14, <3>2, <3>3
  <2>. QED  BY <2>1 DEF Apart
<1>34. Unique(Batch, slipped)'
  BY <1>17, <1>26
<1>. QED  BY <1>16, <1>19, <1>27, <1>29, <1>31, <1>32, <1>33, <1>34 DEF IngestInv, JobInv

LEMMA StutterInv == IngestInv /\ UNCHANGED vars => IngestInv'
<1>. SUFFICES ASSUME IngestInv, UNCHANGED vars PROVE IngestInv'
  OBVIOUS
<1>1. UNCHANGED <<docs, cursor, saved, gate, job, dropped, purged, slipped, file>>
  BY DEF vars
<1>2. TypeOK'
  BY <1>1 DEF IngestInv, TypeOK
<1>3. \A s \in Sources : file'[s].gen = file[s].gen /\ len(s)' = len(s) /\ len(s) \in Nat
  BY <1>1, Typed DEF IngestInv, len
<1>. QED  BY <1>1, <1>2, <1>3, FileStep

\* A file that grows or is truncated keeps its type.
LEMMA FileTyped ==
  ASSUME IngestInv, NEW s \in Sources, Append(s) \/ Truncate(s)
  PROVE  TypeOK'
<1>1. TypeOK /\ UNCHANGED <<docs, cursor, saved, gate, job, dropped, purged, slipped>>
  BY DEF IngestInv, Append, Truncate
<1>2. PICK f \in [gen : 0 .. MaxGen, lines : 0 .. MaxLines, open : BOOLEAN] : f = file[s]
  BY <1>1 DEF TypeOK
<1>3. f.gen \in 0 .. MaxGen /\ f.lines \in 0 .. MaxLines /\ f.open \in BOOLEAN
      /\ MaxGen \in Nat /\ MaxLines \in Nat
  BY BoundAssumption
<1>4. PICK h \in [gen : 0 .. MaxGen, lines : 0 .. MaxLines, open : BOOLEAN] :
        file' = [file EXCEPT ![s] = h]
  <2>1. CASE Append(s) /\ f.open
    <3>1. file' = [file EXCEPT ![s] = [gen |-> f.gen, lines |-> f.lines + 1, open |-> FALSE]]
          /\ f.lines < MaxLines
      BY <1>1, <1>2, <2>1 DEF Append, TypeOK
    <3>2. f.lines + 1 \in 0 .. MaxLines
      BY <1>3, <3>1
    <3>. QED  BY <1>3, <3>1, <3>2
  <2>2. CASE Append(s) /\ ~f.open
    <3>1. file' = [file EXCEPT ![s] = [f EXCEPT !.open = TRUE]]
      BY <1>1, <1>2, <2>2 DEF Append, TypeOK
    <3>2. [f EXCEPT !.open = TRUE] \in [gen : 0 .. MaxGen, lines : 0 .. MaxLines, open : BOOLEAN]
      OBVIOUS
    <3>. QED  BY <3>1, <3>2
  <2>3. CASE Truncate(s)
    <3>1. file' = [file EXCEPT ![s] = [gen |-> f.gen + 1, lines |-> 0, open |-> FALSE]]
          /\ f.gen < MaxGen
      BY <1>1, <1>2, <2>3 DEF Truncate, TypeOK
    <3>2. f.gen + 1 \in 0 .. MaxGen /\ 0 \in 0 .. MaxLines
      BY <1>3, <3>1
    <3>. QED  BY <3>1, <3>2
  <2>. QED  BY <1>3, <2>1, <2>2, <2>3
<1>. QED  BY <1>1, <1>4 DEF TypeOK

\* Every step keeps the invariant.
LEMMA NextInv == IngestInv /\ [Next]_vars => IngestInv'
<1>. SUFFICES ASSUME IngestInv, [Next]_vars PROVE IngestInv'
  OBVIOUS
<1>1. ASSUME NEW s \in Sources, Append(s) \/ Truncate(s) PROVE IngestInv'
  BY <1>1, FileInv, FileTyped
<1>2. ASSUME NEW s \in Sources, mark_sources_current(s) PROVE IngestInv'
  BY <1>2, MarkInv
<1>3. ASSUME NEW ss \in SUBSET Sources, NEW min_ts \in Cutoffs, ingest_sources_after(ss, min_ts)
      PROVE  IngestInv'
  BY <1>3, BeginInv
<1>4. ASSUME NEW s \in Sources, OpenSource(s) PROVE IngestInv'
  BY <1>4, PassInv, OpenedInv
<1>5. ASSUME NEW m \in 1 .. MaxLines, ReadChunk(m) PROVE IngestInv'
  BY <1>5, ReadInv
<1>6. CASE EndOfFile
  BY <1>6, CloseInv
<1>7. CASE FinalFlush
  BY <1>7, FlushInv
<1>8. CASE commit_ingest_batch
  BY <1>8, CommitInv
<1>9. CASE CommitFails
  BY <1>9, CommitFailsInv
<1>10. CASE save_cursors
  BY <1>10, SaveInv
<1>11. CASE AbortJob \/ Crash
  BY <1>11, AbortInv
<1>12. ASSUME NEW cutoff \in Cutoffs, evict(cutoff) PROVE IngestInv'
  BY <1>12, EvictInv
<1>13. ASSUME NEW r \in Runs, delete_run(r) PROVE IngestInv'
  BY <1>13, DeleteInv
<1>14. CASE ForgetCursors
  BY <1>14, ForgetInv
<1>15. CASE UNCHANGED vars
  BY <1>15, StutterInv
<1>. QED
  BY <1>1, <1>2, <1>3, <1>4, <1>5, <1>6, <1>7, <1>8, <1>9, <1>10, <1>11, <1>12, <1>13, <1>14,
     <1>15 DEF Next, Ingest

-----------------------------------------------------------------------------
LEMMA UniqueLines == IngestInv => NoDuplicateLines
BY DEF IngestInv, CursorsInv, Unique, NoDuplicateLines

LEMMA KeptLines == IngestInv => NoLineLost
<1>. SUFFICES ASSUME IngestInv PROVE NoLineLost
  OBVIOUS
<1>1. ASSUME NEW cur \in [Sources -> Cursor],
             \A s \in Sources : Indexed(cur[s], s, file[s].gen, docs, Excused)
      PROVE  NothingLostBefore(cur)
  <2>. SUFFICES ASSUME NEW s \in Sources, NEW i \in 1 .. MaxLines, cur[s].gen = file[s].gen,
                       2 * i <= cur[s].offset, <<s, file[s].gen, i>> \notin Blank
                PROVE  \/ \E d \in docs : d.src = s /\ d.gen = file[s].gen /\ d.line = i
                       \/ <<s, file[s].gen, i>> \in dropped \cup purged
    BY DEF NothingLostBefore
  <2>1. Covered(cur[s], s, file[s].gen, docs, Excused)
    BY <1>1 DEF Indexed, Speaks
  <2>2. CASE <<s, file[s].gen, i>> \in Excused
    BY <2>2 DEF Excused
  <2>3. CASE <<s, file[s].gen, i>> \notin Excused
    BY <2>1, <2>3 DEF Covered
  <2>. QED  BY <2>2, <2>3
<1>2. cursor \in [Sources -> Cursor] /\ saved \in [Sources -> Cursor] /\ CursorsInv
  BY DEF IngestInv, TypeOK
<1>3. NothingLostBefore(cursor)
  BY <1>1, <1>2 DEF CursorsInv
<1>4. NothingLostBefore(saved)
  BY <1>1, <1>2 DEF CursorsInv
<1>. QED  BY <1>3, <1>4 DEF NoLineLost

LEMMA OrderedNumbers == IngestInv => SeqFollowsFile
<1>. SUFFICES ASSUME IngestInv, NEW s \in Sources, cursor[s].gen = file[s].gen,
                     NEW d \in docs, NEW e \in docs, d.src = s, e.src = s,
                     d.seq < cursor[s].next_seq, e.seq < cursor[s].next_seq
              PROVE  d.gen = file[s].gen /\ (d.line < e.line => d.seq < e.seq)
  BY DEF SeqFollowsFile
<1>1. Ordered(cursor[s], s, file[s].gen, docs)
  BY DEF IngestInv, CursorsInv, Indexed, Speaks
<1>. QED  BY <1>1 DEF Ordered

\* A step takes a document from behind its cursor only to evict it or with its run.
LEMMA DocumentStays ==
  ASSUME IngestInv, [Next]_vars, NEW d \in docs, cursor[d.src].gen = file[d.src].gen,
         d.seq < cursor[d.src].next_seq
  PROVE  d \in docs' \/ <<d.src, d.gen, d.line>> \in dropped' \cup purged'
<1>1. TypeOK /\ JobInv
  BY DEF IngestInv
<1>2. d.src \in Sources /\ d.line \in Nat
  BY <1>1, BoundAssumption DEF TypeOK, Doc
<1>3. d \in Kept
  <2>1. PICK s, c, g : s = d.src /\ c = cursor[s] /\ g = file[s].gen
    OBVIOUS
  <2>2. Spared(c, s, g, job.adds, job.updates[s]) /\ c \in Cursor /\ Speaks(c, g)
    BY <1>1, <1>2, <2>1 DEF JobInv, UpdateInv, TypeOK, Speaks
  <2>. QED  BY <1>1, <1>2, <2>1, <2>2, KeptBehind
<1>4. CASE commit_ingest_batch \/ CommitFails
  BY <1>3, <1>4 DEF commit_ingest_batch, CommitFails
<1>5. ASSUME NEW cutoff \in Cutoffs, evict(cutoff)
      PROVE  d \in docs' \/ <<d.src, d.gen, d.line>> \in dropped'
  <2>1. cutoff \in Nat
    BY BoundAssumption
  <2>2. d.line >= cutoff \/ d.line < cutoff
    BY <1>2, <2>1
  <2>. QED  BY <1>5, <2>2 DEF evict
<1>6. ASSUME NEW r \in Runs, delete_run(r)
      PROVE  d \in docs' \/ <<d.src, d.gen, d.line>> \in purged'
  BY <1>6 DEF delete_run
<1>7. CASE docs' = docs
  BY <1>7
<1>8. CASE UNCHANGED vars
  BY <1>7, <1>8 DEF vars
<1>. QED
  BY <1>4, <1>5, <1>6, <1>7, <1>8
     DEF Next, Ingest, Append, Truncate, mark_sources_current, ingest_sources_after, OpenSource,
         ReadChunk, EndOfFile, FinalFlush, save_cursors, AbortJob, ForgetCursors, Crash

\* Under every order of writes, truncations, jobs that fail at any step, crashes,
\* evictions and deletions.
THEOREM IngestInvariant == Spec => []IngestInv
<1>. QED  BY InitInv, NextInv, PTL DEF Spec

\* No line is indexed twice, however often a batch was committed and its cursors
\* were lost.
THEOREM LinesAreIndexedOnce == Spec => []NoDuplicateLines
<1>. QED  BY IngestInvariant, UniqueLines, PTL

\* What lies before a cursor, in memory or in the state file, is in the index or was
\* left out, evicted or deleted on purpose.
THEOREM NoLineIsLost == Spec => []NoLineLost
<1>. QED  BY IngestInvariant, KeptLines, PTL

\* Behind a cursor the sequence numbers follow the order of the file.
THEOREM NumbersFollowTheFile == Spec => []SeqFollowsFile
<1>. QED  BY IngestInvariant, OrderedNumbers, PTL

\* What a search has found behind the cursor does not vanish while lines are read again.
THEOREM IndexedLinesStay == Spec => LinesStayIndexed
<1>1. IngestInv /\ [Next]_vars =>
        [\A d \in docs :
           (/\ cursor[d.src].gen = file[d.src].gen
            /\ d.seq < cursor[d.src].next_seq)
             => \/ d \in docs'
                \/ <<d.src, d.gen, d.line>> \in dropped' \cup purged']_vars
  BY DocumentStays
<1>. QED  BY <1>1, IngestInvariant, PTL DEF Spec, LinesStayIndexed
=============================================================================
