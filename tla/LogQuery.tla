------------------------------ MODULE LogQuery ------------------------------
(***************************************************************************)
(* Readers of one service's log: `devstack logs --follow`, the auto-share  *)
(* monitor of an agent, and facet queries with their cache.                *)
(*                                                                         *)
(* A line has a level and a timestamp of its own, which need not grow with *)
(* the file.  Line i of the file is document seq i - 1 (LogIngest).  Every *)
(* query first ingests the file under the gate of the index; the cache of  *)
(* facets is cleared after the commit, without a lock on the queries.      *)
(***************************************************************************)
EXTENDS Integers, Sequences, FiniteSets, FiniteSetsExt

CONSTANTS
    Viewers,            \* facet queries
    Follower, Monitor,  \* logs --follow, run_auto_share_monitor
    ReaderGroups,       \* the readers that run side by side, one set for each case
    NoReader, NoSeq,
    MaxLines, MaxTs,    \* bounds: lines of the file, timestamps
    InitialTail,        \* --last of the first page
    PageLimit,          \* lines of a later page (500, and 200 for the monitor)
    RateLimit,          \* AUTO_SHARE_RATE_LIMIT in ticks
    MaxTime             \* bound: the clock

Readers == Viewers \cup {Follower, Monitor}

ASSUME QueryAssumption ==
    /\ ReaderGroups \subseteq SUBSET Readers /\ NoReader \notin Readers /\ NoSeq \notin Nat
    /\ InitialTail \in Nat \ {0} /\ PageLimit \in Nat \ {0}
    /\ RateLimit \in Nat \ {0} /\ MaxLines \in Nat /\ MaxTs \in Nat /\ MaxTime \in Nat

VARIABLES
    log,          \* the file
    indexed,      \* lines committed and visible to a searcher
    gate,         \* the ingest that has committed and not yet cleared the cache
    at,           \* where each reader is
    follow,       \* the follower: cursor, first page, lines of the later pages
    share,        \* the monitor: cursor, last_sent, times sent, errors read
    facetCache,   \* number of lines the cached facets were computed from, or NoSeq
    facetVersion, \* by viewer: lines its searcher sees
    now,
    staleInsert   \* ghost: the cached facets were outdated when they were inserted

queryVars == <<log, indexed, gate, at, follow, share, facetCache, facetVersion, now, staleInsert>>

\* where a reader can be, a line of the file, and the types of the state
ReaderAt == {"absent", "idle", "ingest", "clear", "search", "insert"}
LogLine == [level : {"error", "info"}, ts : Nat]

QueryTypeOK ==
    /\ log \in Seq(LogLine) /\ indexed \in 0 .. Len(log)
    /\ gate \in Readers \cup {NoReader} /\ at \in [Readers -> ReaderAt]
    /\ follow \in [after : Nat \cup {NoSeq}, tail : Nat, first : SUBSET Nat, later : Seq(Nat)]
    /\ share \in [begun : BOOLEAN, cursor : Nat, start : Nat, lastSent : Nat \cup {NoSeq},
                   sent : SUBSET Nat, read : SUBSET (Nat \X Nat), polled : Nat]
    /\ facetCache \in Nat \cup {NoSeq} /\ facetVersion \in [Viewers -> Nat]
    /\ now \in Nat /\ staleInsert \in BOOLEAN

QueryInit ==
    /\ log = <<>> /\ indexed = 0
    /\ gate = NoReader
    /\ \E group \in ReaderGroups :
         at = [r \in Readers |-> IF r \in group THEN "idle" ELSE "absent"]
    /\ follow = [after |-> NoSeq, tail |-> InitialTail, first |-> {}, later |-> <<>>]
    /\ share = [begun |-> FALSE, cursor |-> 0, start |-> 0, lastSent |-> NoSeq,
                sent |-> {}, read |-> {}, polled |-> 0]
    /\ facetCache = NoSeq
    /\ facetVersion = [v \in Viewers |-> 0]
    /\ now = 0 /\ staleInsert = FALSE

WriteLine(level, ts) ==
    /\ Len(log) < MaxLines
    /\ log' = Append(log, [level |-> level, ts |-> ts])
    /\ UNCHANGED <<indexed, gate, at, follow, share, facetCache, facetVersion, now, staleInsert>>

Tick ==
    /\ now < MaxTime
    /\ now' = now + 1
    /\ UNCHANGED <<log, indexed, gate, at, follow, share, facetCache, facetVersion, staleInsert>>

(***************************************************************************)
(* Every query: ingest, clear the cache, search.                           *)
(***************************************************************************)
Ask(r) ==
    /\ at[r] = "idle"
    /\ at' = [at EXCEPT ![r] = "ingest"]
    /\ UNCHANGED <<log, indexed, gate, follow, share, facetCache, facetVersion, now, staleInsert>>

ingest_sources(r) ==
    /\ at[r] = "ingest" /\ gate = NoReader
    /\ indexed' = Len(log)
    /\ IF indexed < Len(log)
       THEN gate' = r /\ at' = [at EXCEPT ![r] = "clear"]
       ELSE gate' = gate /\ at' = [at EXCEPT ![r] = "search"]
    /\ UNCHANGED <<log, follow, share, facetCache, facetVersion, now, staleInsert>>

\* Faulty variant: the cache survives the commit.
KeepFacetCache(r) ==
    /\ at[r] = "clear"
    /\ gate' = NoReader
    /\ at' = [at EXCEPT ![r] = "search"]
    /\ UNCHANGED <<log, indexed, follow, share, facetCache, facetVersion, now, staleInsert>>

clear_facet_cache(r) ==
    /\ at[r] = "clear"
    /\ facetCache' = NoSeq /\ staleInsert' = FALSE
    /\ gate' = NoReader
    /\ at' = [at EXCEPT ![r] = "search"]
    /\ UNCHANGED <<log, indexed, follow, share, facetVersion, now>>

Seqs == 0 .. (indexed - 1)
Ts(s) == log[s + 1].ts
Level(s) == log[s + 1].level

\* order_by_fast_field("ts_nanos", Desc) with a limit: any choice among equals
Newest(limit) ==
    {S \in SUBSET Seqs :
        /\ Cardinality(S) = Min({limit, indexed})
        /\ \A x \in S, y \in Seqs \ S : Ts(x) >= Ts(y)}

\* Faulty variant: the latest lines of the rest instead of the earliest.
LatestPage(after) ==
    {s \in Seqs : s > after /\ Cardinality({x \in Seqs : x > s}) < PageLimit}

\* the seq clause excludes after itself; ordered by seq, ascending, limited
PageAfter(after) ==
    {s \in Seqs : s > after /\ Cardinality({x \in Seqs : after < x /\ x < s}) < PageLimit}

\* a page as the list it is returned as, sorted by seq
Ascending(S) ==
    [i \in 1 .. Cardinality(S) |-> CHOOSE s \in S : Cardinality({x \in S : x < s}) = i - 1]

(***************************************************************************)
(* stream_service_logs_api                                                 *)
(***************************************************************************)
FollowPage ==
    /\ at[Follower] = "search"
    /\ at' = [at EXCEPT ![Follower] = "idle"]
    /\ IF follow.after = NoSeq
       THEN \E S \in Newest(follow.tail) :
              follow' = [follow EXCEPT !.tail = PageLimit, !.first = S,
                                       !.after = IF S = {} THEN NoSeq ELSE Max(S)]
       ELSE LET page == PageAfter(follow.after) IN
            follow' = [follow EXCEPT !.later = @ \o Ascending(page),
                                     !.after = IF page = {} THEN @ ELSE Max(page \cup {@})]
    /\ UNCHANGED <<log, indexed, gate, share, facetCache, facetVersion, now, staleInsert>>

(***************************************************************************)
(* run_auto_share_monitor                                                  *)
(***************************************************************************)
\* the cursor of the latest line, 0 if there is none or the request failed
fetch_latest_service_cursor ==
    /\ at[Monitor] = "search" /\ ~share.begun
    /\ \E S \in Newest(1) :
         share' = [share EXCEPT !.begun = TRUE, !.start = indexed, !.polled = indexed,
                                !.cursor = IF S = {} THEN 0 ELSE Max(S)]
    /\ at' = [at EXCEPT ![Monitor] = "idle"]
    /\ UNCHANGED <<log, indexed, gate, follow, facetCache, facetVersion, now, staleInsert>>

FetchFails ==
    /\ at[Monitor] = "ingest"
    /\ share' = IF share.begun THEN share
                ELSE [share EXCEPT !.begun = TRUE, !.start = Len(log), !.polled = Len(log)]
    /\ at' = [at EXCEPT ![Monitor] = "idle"]
    /\ UNCHANGED <<log, indexed, gate, follow, facetCache, facetVersion, now, staleInsert>>

\* Faulty variant: the pause lasts one instant too long.
PauseTooLong(sh, trigger) ==
    LET due == sh.lastSent = NoSeq \/ now - sh.lastSent > RateLimit
    IN  IF trigger /\ due
        THEN [sh EXCEPT !.lastSent = now, !.sent = @ \cup {now}]
        ELSE sh

should_emit_auto_share(sh, trigger) ==
    LET due == sh.lastSent = NoSeq \/ now - sh.lastSent >= RateLimit
    IN  IF trigger /\ due
        THEN [sh EXCEPT !.lastSent = now, !.sent = @ \cup {now}]
        ELSE sh

run_auto_share_monitor ==
    LET page == PageAfter(share.cursor)
        errors == {s \in page : Level(s) = "error"}
    IN  /\ at[Monitor] = "search" /\ share.begun
        /\ share' = should_emit_auto_share(
                      [share EXCEPT !.cursor = IF page = {} THEN @ ELSE Max(page),
                                    !.read = @ \cup {<<s, now>> : s \in errors},
                                    !.polled = IF Cardinality(page) < PageLimit THEN indexed ELSE @],
                      errors # {})
        /\ at' = [at EXCEPT ![Monitor] = "idle"]
        /\ UNCHANGED <<log, indexed, gate, follow, facetCache, facetVersion, now, staleInsert>>

(***************************************************************************)
(* query_view for facets only: look up, search, insert                     *)
(***************************************************************************)
FacetLookup(v) ==
    /\ at[v] = "search"
    /\ IF facetCache # NoSeq
       THEN at' = [at EXCEPT ![v] = "idle"] /\ UNCHANGED facetVersion
       ELSE at' = [at EXCEPT ![v] = "insert"] /\ facetVersion' = [facetVersion EXCEPT ![v] = indexed]
    /\ UNCHANGED <<log, indexed, gate, follow, share, facetCache, now, staleInsert>>

FacetInsert(v) ==
    /\ at[v] = "insert"
    /\ facetCache' = facetVersion[v]
    /\ staleInsert' = (facetVersion[v] # indexed)
    /\ facetVersion' = [facetVersion EXCEPT ![v] = 0]
    /\ at' = [at EXCEPT ![v] = "idle"]
    /\ UNCHANGED <<log, indexed, gate, follow, share, now>>

query_view(v) == FacetLookup(v) \/ FacetInsert(v)

QueryNext ==
    \/ \E level \in {"error", "info"}, ts \in 1 .. MaxTs : WriteLine(level, ts)
    \/ Tick
    \/ \E r \in Readers : Ask(r) \/ ingest_sources(r) \/ clear_facet_cache(r)
    \/ FollowPage
    \/ fetch_latest_service_cursor \/ run_auto_share_monitor \/ FetchFails
    \/ \E v \in Viewers : query_view(v)

QuerySpec == QueryInit /\ [][QueryNext]_queryVars

(***************************************************************************)
(* Properties                                                              *)
(***************************************************************************)
\* After its first page `logs --follow` prints every further line exactly once and
\* in the order of the file, whatever the lines' own timestamps and however many
\* arrive between two requests: no line of the first page comes again.
FollowIsGapless ==
    follow.first # {}
        => follow.later = [i \in 1 .. (follow.after - Max(follow.first)) |-> Max(follow.first) + i]

\* Every error written after the monitor started has been read once a poll has come
\* to the end of the log, and was announced by a message sent then or less than
\* RateLimit before.  Excepted is the very first line: the cursor 0 of an empty log
\* means that line has been seen.
LaterErrorsAreAnnounced ==
    \A s \in share.start .. (share.polled - 1) :
        Level(s) = "error" /\ s # 0 =>
            \E e \in share.read, t \in share.sent :
                e[1] = s /\ t <= e[2] /\ e[2] - t < RateLimit

\* Cached facets are those of the documents in the index, unless they were outdated
\* when their query inserted them, after the clear that was to remove them.
FacetsAreFresh ==
    facetCache # NoSeq /\ gate = NoReader => facetCache = indexed \/ staleInsert
=============================================================================
