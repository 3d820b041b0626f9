----------------------------- MODULE LogIngest -----------------------------
(***************************************************************************)
(* Incremental ingestion of log files into the search index                *)
(* (src/src/infra/logs/index/): per source a cursor <offset, next_seq>,    *)
(* kept in memory and in a state file.  A job reads the complete lines     *)
(* behind the cursors, commits them to the index in batches, and only then *)
(* moves the cursors; a crash or an error may fall between the two.        *)
(*                                                                         *)
(* Lengths and offsets count half lines: line i of a file occupies the     *)
(* half-open interval 2i-2..2i, so an odd length is a file whose last line *)
(* is not yet terminated.  A line's timestamp is its number.  A cursor     *)
(* also carries the file generation its offset speaks of (any, if it is    *)
(* 0); the code has no such field, and no guard reads it: it lets the      *)
(* properties say when a truncated file has regrown unnoticed.             *)
(***************************************************************************)
EXTENDS Naturals, FiniteSets

CONSTANTS
    Sources,    \* one log file each
    Runs,
    RunOf,      \* the run a source belongs to
    Blank,      \* <<source, generation, line>> of the lines that are empty
    MaxLines,   \* bound: complete lines in a file
    MaxGen,     \* bound: times a file is truncated
    Cutoffs,    \* retention cutoffs tried, 0 for none
    NoUpdate,   \* a source without an update in the batch
    NoSource    \* no file is open

ASSUME RunAssumption == RunOf \in [Sources -> Runs]
ASSUME BoundAssumption ==
    /\ MaxLines \in Nat /\ MaxGen \in Nat /\ Cutoffs \subseteq 0..(MaxLines + 1)
    /\ NoSource \notin Sources

VARIABLES
    file,     \* source -> the log file: generation, complete lines, open last line
    docs,     \* the committed index; copy tells equal documents apart
    cursor,   \* source -> cursor in memory (ingest.sources)
    saved,    \* source -> cursor in the state file
    gate,     \* ingest_gate: "free", or which step its holder is at
    job,      \* the holder's local state
    dropped,  \* <<source, generation, line>> left out or evicted on purpose
    purged,   \* <<source, generation, line>> deleted with their run
    slipped   \* <<source, generation>> read at a cursor of another generation

vars == <<file, docs, cursor, saved, gate, job, dropped, purged, slipped>>

\* The generation of the cursors of a deleted run.
Gone == MaxGen + 1

Cursor == [offset : Nat, next_seq : Nat, gen : 0..Gone]
Added == [src : Sources, seq : Nat, gen : 0..MaxGen, line : 1..MaxLines]
Doc == [src : Sources, seq : Nat, gen : 0..MaxGen, line : 1..MaxLines, copy : {0, 1}]
Lines == Sources \X (0..MaxGen) \X (1..MaxLines)
Update == [cursor : Cursor, delete_from_seq : SUBSET Nat]

ASSUME UpdateAssumption == Blank \subseteq Lines /\ NoUpdate \notin Update

NoCursor == [offset |-> 0, next_seq |-> 0, gen |-> 0]

IdleJob == [todo |-> {}, open |-> NoSource, local |-> [s \in Sources |-> NoCursor],
            min_ts |-> 0, delete |-> {},
            updates |-> [s \in Sources |-> NoUpdate], adds |-> {}]

JobState ==
    [todo : SUBSET Sources, open : Sources \cup {NoSource}, local : [Sources -> Cursor],
     min_ts : Nat, delete : SUBSET Nat, updates : [Sources -> Update \cup {NoUpdate}],
     adds : SUBSET Added]

TypeOK ==
    /\ file \in [Sources -> [gen : 0..MaxGen, lines : 0..MaxLines, open : BOOLEAN]]
    /\ docs \subseteq Doc
    /\ cursor \in [Sources -> Cursor] /\ saved \in [Sources -> Cursor]
    /\ gate \in {"free", "next", "read", "commit", "save", "forget"}
    /\ job \in JobState
    /\ gate = "read" => job.open \in Sources
    /\ dropped \subseteq Lines /\ purged \subseteq Lines
    /\ slipped \subseteq Sources \X (0..MaxGen)

len(s) == 2 * file[s].lines + (IF file[s].open THEN 1 ELSE 0)

(***************************************************************************)
(* The lines of the current file of s that lie behind offset o, up to m.   *)
(* A line whose first half lies before o counts: its rest is read.         *)
(***************************************************************************)
LinesBehind(o, m) == {i \in 1..m : 2 * i > o}

FileLines(s, ls) == {<<s, file[s].gen, i>> : i \in ls}

\* The cursor speaks of the file as it is.
Current(c, s) == c.offset = 0 \/ c.gen = file[s].gen

-----------------------------------------------------------------------------

Init ==
    /\ file = [s \in Sources |-> [gen |-> 0, lines |-> 0, open |-> FALSE]]
    /\ docs = {}
    /\ cursor = [s \in Sources |-> NoCursor]
    /\ saved = [s \in Sources |-> NoCursor]
    /\ gate = "free" /\ job = IdleJob
    /\ dropped = {} /\ purged = {} /\ slipped = {}

(***************************************************************************)
(* The shim or an external program writes half a line, ends it, or         *)
(* truncates the file.                                                     *)
(***************************************************************************)
Append(s) ==
    /\ file[s].lines < MaxLines
    /\ file' = [file EXCEPT ![s] =
           IF @.open THEN [gen |-> @.gen, lines |-> @.lines + 1, open |-> FALSE]
                     ELSE [@ EXCEPT !.open = TRUE]]
    /\ UNCHANGED <<docs, cursor, saved, gate, job, dropped, purged, slipped>>

Truncate(s) ==
    /\ file[s].gen < MaxGen
    /\ file' = [file EXCEPT ![s] =
           [gen |-> @.gen + 1, lines |-> 0, open |-> FALSE]]
    /\ UNCHANGED <<docs, cursor, saved, gate, job, dropped, purged, slipped>>

(***************************************************************************)
(* ingest_sources_after: take the gate and snapshot the cursors.           *)
(***************************************************************************)
ingest_sources_after(ss, min_ts) ==
    /\ gate = "free"
    /\ gate' = "next"
    /\ job' = [IdleJob EXCEPT !.todo = ss, !.local = cursor, !.min_ts = min_ts]
    /\ UNCHANGED <<file, docs, cursor, saved, dropped, purged, slipped>>

(***************************************************************************)
(* Faulty variant: a truncated file is read from its start, but numbered   *)
(* on from the old file's numbers.                                         *)
(***************************************************************************)
ResetOffsetOnly(s) ==
    LET c == job.local[s] IN
    IF len(s) < c.offset THEN [c EXCEPT !.offset = 0] ELSE c

(***************************************************************************)
(* The next source of the loop.  A file shorter than its cursor starts     *)
(* over; one that has not grown is passed over; the first lines read       *)
(* replace whatever the index has from next_seq on.                        *)
(***************************************************************************)
ResetOrKeep(s) ==
    LET c == job.local[s] IN
    IF len(s) < c.offset THEN NoCursor ELSE c

OpenSource(s) ==
    /\ gate = "next" /\ s \in job.todo
    /\ IF len(s) = job.local[s].offset
         THEN /\ gate' = "next"
              /\ job' = [job EXCEPT !.todo = @ \ {s}]
         ELSE /\ gate' = "read"
              /\ job' = [job EXCEPT !.local[s] = ResetOrKeep(s),
                                    !.delete = {ResetOrKeep(s).next_seq},
                                    !.todo = @ \ {s}, !.open = s]
    /\ UNCHANGED <<file, docs, cursor, saved, dropped, purged, slipped>>

(***************************************************************************)
(* collect_complete_lines on one chunk of s: number the lines that are not *)
(* empty, leave out those older than min_ts, move the local cursor, and    *)
(* record the update.  A later update of the source keeps the first        *)
(* delete_from_seq (record_update).                                        *)
(***************************************************************************)
collect_complete_lines(s, m) ==
    LET c == job.local[s]
        read == {i \in LinesBehind(c.offset, m) : <<s, file[s].gen, i>> \notin Blank}
        seq(i) == c.next_seq + Cardinality({j \in read : j < i})
        moved == [offset |-> 2 * m, next_seq |-> c.next_seq + Cardinality(read),
                  gen |-> IF Current(c, s) THEN file[s].gen ELSE c.gen]
        first == IF job.updates[s] = NoUpdate \/ job.updates[s].delete_from_seq = {}
                   THEN job.delete ELSE job.updates[s].delete_from_seq
    IN
    /\ job' = [job EXCEPT
           !.local[s] = moved,
           !.delete = {},
           !.updates[s] = [cursor |-> moved, delete_from_seq |-> first],
           !.adds = @ \cup {[src |-> s, seq |-> seq(i), gen |-> file[s].gen,
                             line |-> i] : i \in {j \in read : j >= job.min_ts}}]
    /\ dropped' = dropped \cup FileLines(s, {i \in read : i < job.min_ts})
    /\ slipped' = IF Current(c, s) THEN slipped ELSE slipped \cup {<<s, file[s].gen>>}

(***************************************************************************)
(* Read a chunk of the open source; its complete lines go to the batch,    *)
(* which is flushed when it has grown past a limit (should_flush).         *)
(***************************************************************************)
ReadChunk(m) ==
    LET s == job.open IN
    /\ gate = "read" /\ m <= file[s].lines /\ 2 * m > job.local[s].offset
    /\ collect_complete_lines(s, m)
    /\ gate' \in {"read", "commit"}
    /\ UNCHANGED <<file, docs, cursor, saved, purged>>

(***************************************************************************)
(* Faulty variant: the loop goes on after the file was closed.             *)
(***************************************************************************)
CloseAndGoOn ==
    /\ gate = "read" /\ 2 * file[job.open].lines <= job.local[job.open].offset
    /\ job' = [job EXCEPT !.delete = {}, !.open = NoSource]
    /\ UNCHANGED <<file, docs, cursor, saved, gate, dropped, purged, slipped>>

(***************************************************************************)
(* End of the file: on to the next source.                                 *)
(***************************************************************************)
EndOfFile ==
    /\ gate = "read" /\ 2 * file[job.open].lines <= job.local[job.open].offset
    /\ gate' = "next"
    /\ job' = [job EXCEPT !.delete = {}, !.open = NoSource]
    /\ UNCHANGED <<file, docs, cursor, saved, dropped, purged, slipped>>

(***************************************************************************)
(* Faulty variant: the cursors are written without the commit.             *)
(***************************************************************************)
SaveWithoutCommit ==
    /\ gate = "next" /\ job.todo = {}
    /\ IF \A s \in Sources : job.updates[s] = NoUpdate
         THEN gate' = "free" /\ job' = IdleJob
         ELSE gate' = "save" /\ UNCHANGED job
    /\ UNCHANGED <<file, docs, cursor, saved, dropped, purged, slipped>>

(***************************************************************************)
(* After the last source: flush what the batch holds, if anything.         *)
(***************************************************************************)
FinalFlush ==
    /\ gate = "next" /\ job.todo = {}
    /\ IF \A s \in Sources : job.updates[s] = NoUpdate
         THEN gate' = "free" /\ job' = IdleJob
         ELSE gate' = "commit" /\ UNCHANGED job
    /\ UNCHANGED <<file, docs, cursor, saved, dropped, purged, slipped>>

(***************************************************************************)
(* Faulty variant: the document at delete_from_seq itself survives.        *)
(***************************************************************************)
ReplacedAfter(d) ==
    /\ job.updates[d.src] # NoUpdate
    /\ \E n \in job.updates[d.src].delete_from_seq : d.seq > n

(***************************************************************************)
(* commit_ingest_batch, first half: one index commit deletes from          *)
(* delete_from_seq on and adds the documents of the batch.                 *)
(***************************************************************************)
Replaced(d) ==
    /\ job.updates[d.src] # NoUpdate
    /\ \E n \in job.updates[d.src].delete_from_seq : d.seq >= n

Kept == {d \in docs : ~Replaced(d)}

commit_ingest_batch ==
    LET Equal(d, a) == /\ d.src = a.src /\ d.seq = a.seq
                       /\ d.gen = a.gen /\ d.line = a.line
    IN
    /\ gate = "commit"
    /\ docs' = Kept \cup
               {[src |-> a.src, seq |-> a.seq, gen |-> a.gen, line |-> a.line,
                 copy |-> IF \E d \in Kept : Equal(d, a) THEN 1 ELSE 0] : a \in job.adds}
    /\ gate' = "save"
    /\ UNCHANGED <<file, cursor, saved, job, dropped, purged, slipped>>

(***************************************************************************)
(* An error among the queued operations or in the commit ends the job, but *)
(* the writer outlives it: the deletions stay queued and the next commit   *)
(* publishes them without the batch's documents.  (Publishing them at once *)
(* stands for the next commit, whoever makes it.)                          *)
(***************************************************************************)
CommitFails ==
    /\ gate = "commit"
    /\ docs' = Kept
    /\ gate' = "free" /\ job' = IdleJob
    /\ UNCHANGED <<file, cursor, saved, dropped, purged, slipped>>

(***************************************************************************)
(* commit_ingest_batch, second half: the cursors move in memory and the    *)
(* state file is replaced.  When the write fails, memory has moved already *)
(* and the job ends.                                                       *)
(***************************************************************************)
save_cursors ==
    /\ gate = "save"
    /\ cursor' = [s \in Sources |-> IF job.updates[s] = NoUpdate THEN cursor[s]
                                     ELSE job.updates[s].cursor]
    /\ \/ /\ saved' = cursor'
          /\ IF job.open = NoSource
               THEN gate' = "free" /\ job' = IdleJob
               ELSE /\ gate' = "read"
                    /\ job' = [job EXCEPT !.adds = {},
                                          !.updates = IdleJob.updates]
       \/ UNCHANGED saved /\ gate' = "free" /\ job' = IdleJob
    /\ UNCHANGED <<file, docs, dropped, purged, slipped>>

(***************************************************************************)
(* An error return anywhere in the job drops the batch.                    *)
(***************************************************************************)
AbortJob ==
    /\ gate \in {"next", "read", "commit", "save"}
    /\ gate' = "free" /\ job' = IdleJob
    /\ UNCHANGED <<file, docs, cursor, saved, dropped, purged, slipped>>

(***************************************************************************)
(* mark_sources_current: skip what a file holds.  It does not take the     *)
(* gate, so it may fall into the middle of a job on the same source.  The  *)
(* state file may fail to be written.                                      *)
(***************************************************************************)
mark_sources_current(s) ==
    LET c == cursor[s]
        start == IF len(s) < c.offset THEN 0 ELSE c.offset
    IN
    /\ cursor' = [cursor EXCEPT ![s] =
           [offset |-> len(s),
            next_seq |-> IF len(s) < c.offset THEN 0 ELSE c.next_seq,
            gen |-> IF start = 0 THEN file[s].gen ELSE c.gen]]
    /\ saved' = cursor' \/ UNCHANGED saved
    /\ dropped' = dropped \cup
           FileLines(s, {i \in 1..MaxLines : start < 2 * i /\ 2 * i <= len(s) + 1})
    /\ UNCHANGED <<file, docs, gate, job, purged, slipped>>

(***************************************************************************)
(* evict_older_than and evict_to_size: documents up to a timestamp go; the *)
(* cursors stay.                                                           *)
(***************************************************************************)
evict(cutoff) ==
    /\ gate = "free"
    /\ \E d \in docs : d.line < cutoff
    /\ docs' = {d \in docs : d.line >= cutoff}
    /\ dropped' = dropped \cup
           {<<d.src, d.gen, d.line>> : d \in {e \in docs : e.line < cutoff}}
    /\ UNCHANGED <<file, cursor, saved, gate, job, purged, slipped>>

(***************************************************************************)
(* Faulty variant: the documents of the other runs go.                     *)
(***************************************************************************)
DeleteOtherRuns(r) ==
    /\ gate = "free"
    /\ docs' = {d \in docs : RunOf[d.src] = r}
    /\ gate' = "forget"
    /\ job' = [IdleJob EXCEPT !.todo = {s \in Sources : RunOf[s] = r}]
    /\ UNCHANGED <<file, cursor, saved, dropped, purged, slipped>>

(***************************************************************************)
(* delete_run: the run's documents go in one commit, then its cursors.     *)
(* When the commit fails, the cursors stay, but the deletion is queued and *)
(* the next commit publishes it, as in CommitFails.                        *)
(***************************************************************************)
delete_run(r) ==
    /\ gate = "free"
    /\ docs' = {d \in docs : RunOf[d.src] # r}
    /\ purged' = purged \cup
           {<<d.src, d.gen, d.line>> : d \in {e \in docs : RunOf[e.src] = r}}
    /\ \/ /\ gate' = "forget"
          /\ job' = [IdleJob EXCEPT !.todo = {s \in Sources : RunOf[s] = r}]
       \/ UNCHANGED <<gate, job>>
    /\ UNCHANGED <<file, cursor, saved, dropped, slipped>>

(***************************************************************************)
(* The cursors go, and the state file is replaced; when that fails, its    *)
(* cursors speak of a file there is no more.                               *)
(***************************************************************************)
ForgetCursors ==
    /\ gate = "forget"
    /\ cursor' = [s \in Sources |-> IF s \in job.todo THEN NoCursor ELSE cursor[s]]
    /\ \/ saved' = cursor'
       \/ saved' = [s \in Sources |-> IF s \in job.todo THEN [saved[s] EXCEPT !.gen = Gone]
                                       ELSE saved[s]]
    /\ purged' = {l \in purged : l[1] \notin job.todo}
    /\ gate' = "free" /\ job' = IdleJob
    /\ UNCHANGED <<file, docs, dropped, slipped>>

(***************************************************************************)
(* The daemon dies; its successor reads the state file.                    *)
(***************************************************************************)
Crash ==
    /\ cursor' = saved
    /\ gate' = "free" /\ job' = IdleJob
    /\ UNCHANGED <<file, docs, saved, dropped, purged, slipped>>

Ingest ==
    \/ \E s \in Sources : OpenSource(s)
    \/ \E m \in 1..MaxLines : ReadChunk(m)
    \/ EndOfFile \/ FinalFlush \/ commit_ingest_batch \/ CommitFails
    \/ save_cursors

Next ==
    \/ \E s \in Sources : Append(s) \/ Truncate(s) \/ mark_sources_current(s)
    \/ \E ss \in SUBSET Sources \ {{}}, min_ts \in Cutoffs :
         ingest_sources_after(ss, min_ts)
    \/ Ingest
    \/ AbortJob
    \/ \E cutoff \in Cutoffs : evict(cutoff)
    \/ \E r \in Runs : delete_run(r)
    \/ ForgetCursors
    \/ Crash

Spec == Init /\ [][Next]_vars

-----------------------------------------------------------------------------

(***************************************************************************)
(* A line is indexed at most once, however often a job was cut off between *)
(* its commit and the move of the cursors and the lines were read again.   *)
(* Excepted is a file that was truncated and had grown past the cursor     *)
(* before it was read: the code cannot know that it is another file.       *)
(***************************************************************************)
NoDuplicateLines ==
    \A d, e \in docs :
        d.src = e.src /\ d.gen = e.gen /\ d.line = e.line /\ <<d.src, d.gen>> \notin slipped
          => d = e

(***************************************************************************)
(* No line is lost: what lies before a cursor, in memory or in the state   *)
(* file a restart will read, is in the index, unless it was left out,      *)
(* evicted or deleted with its run on purpose.                             *)
(***************************************************************************)
NothingLostBefore(cur) ==
    \A s \in Sources, i \in 1..MaxLines :
        (/\ cur[s].gen = file[s].gen /\ 2 * i <= cur[s].offset
         /\ <<s, file[s].gen, i>> \notin Blank)
          => \/ \E d \in docs : d.src = s /\ d.gen = file[s].gen /\ d.line = i
             \/ <<s, file[s].gen, i>> \in dropped \cup purged

NoLineLost == NothingLostBefore(cursor) /\ NothingLostBefore(saved)

(***************************************************************************)
(* Sequence numbers follow the file: behind a cursor that speaks of the    *)
(* current file, every document is of that file, and later lines have      *)
(* larger numbers, so paging by number never jumps back.                   *)
(***************************************************************************)
SeqFollowsFile ==
    \A s \in Sources : cursor[s].gen = file[s].gen =>
        \A d, e \in {x \in docs : x.src = s /\ x.seq < cursor[s].next_seq} :
            /\ d.gen = file[s].gen
            /\ d.line < e.line => d.seq < e.seq

(***************************************************************************)
(* A search that has found a line behind the cursor finds it again: no job *)
(* that is retried, fails or loses its cursors makes it vanish in between, *)
(* only its own eviction and the deletion of its own run do.               *)
(***************************************************************************)
LinesStayIndexed ==
    [][\A d \in docs :
         (/\ cursor[d.src].gen = file[d.src].gen
          /\ d.seq < cursor[d.src].next_seq)
           => \/ d \in docs'
              \/ <<d.src, d.gen, d.line>> \in dropped' \cup purged']_vars
=============================================================================
