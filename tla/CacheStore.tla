----------------------------- MODULE CacheStore -----------------------------
(***************************************************************************)
(* The bounded in-memory cache (src/cache/store.rs): fills in progress     *)
(* that readers may follow, completed entries under a byte budget with a   *)
(* second-chance eviction queue and a tag index, and purges that race      *)
(* with fills.  Every section under one set of locks is a step; the        *)
(* lifecycle lock keeps purges apart from registering and completing a     *)
(* fill, and nothing else.                                                 *)
(*                                                                         *)
(* A fill is known by its write id, a body by its length in chunks, and a  *)
(* size is that length plus the size of the metadata.                      *)
(***************************************************************************)
EXTENDS Integers, Sequences, FiniteSets, FiniteSetsExt

CONSTANTS
    Keys, PathOf,       \* cache keys; the request path of each
    Tags,
    Fills,              \* bound: write ids, 1 .. n
    Readers,
    Asked,              \* purge requests that may be made
    max_bytes, Clock,   \* Clock: Eviction::Clock, else Fifo
    MaxMeta, MaxChunks  \* bounds: size of metadata, chunks of a body

ASSUME StoreAssumption ==
    /\ IsFiniteSet(Keys) /\ IsFiniteSet(Fills)
    /\ Fills \subseteq Nat \ {0} /\ max_bytes \in Nat /\ Clock \in BOOLEAN
    /\ MaxMeta \in Nat /\ MaxChunks \in Nat

VARIABLES
    cached, order, tag_index, used,
    fill,               \* each write id: the leader's control and its Temp
    purge,              \* the purge in progress
    reader,
    outdated            \* history: fills some finished purge matched

store == <<cached, order, tag_index, used>>
vars == <<store, fill, purge, reader, outdated>>

None == "none"
Absent == [from |-> 0]
Idle == [pc |-> "idle"]
Entries == {k \in Keys : cached[k] # Absent}
Size(e) == IF e = Absent THEN 0 ELSE e.meta + e.len

\* Bytes altogether: one is known by its owner and its place there.
MaxSize == MaxMeta + MaxChunks
Total(size) == Cardinality({b \in (DOMAIN size) \X (1 .. MaxSize) : b[2] <= size[b[1]]})

Init ==
    /\ cached = [k \in Keys |-> Absent] /\ order = <<>> /\ tag_index = {} /\ used = 0
    /\ fill = [i \in Fills |-> Idle] /\ purge = Idle
    /\ reader = [r \in Readers |-> Idle] /\ outdated = {}

-----------------------------------------------------------------------------
(* Lifecycle lock: purges against these steps of a fill *)

ReadHeld == \E i \in Fills : fill[i].pc \in {"registering", "admitting", "withdrawing"}
WriteHeld == purge # Idle

Temp == {i \in Fills : fill[i].pc # "idle" /\ fill[i].temp}
Goto(i, next) == fill' = [fill EXCEPT ![i].pc = next]

-----------------------------------------------------------------------------
(* reserve *)

Unindex(index, k, tags) == index \ (tags \X {k})

\* A second chance for as long as the entry is hot; an index that is not told.
EvictForever(s, bytes) ==
    IF s.used + bytes <= max_bytes \/ s.order = <<>> THEN s
    ELSE LET v == Head(s.order)
         IN  IF s.cached[v].visited
             THEN [s EXCEPT !.order = Append(Tail(@), v)]
             ELSE [s EXCEPT !.order = Tail(@), !.used = @ - Size(s.cached[v]),
                            !.cached[v] = Absent, !.index = Unindex(@, v, s.cached[v].tags)]

EvictLeavesTags(s, bytes) ==
    IF s.used + bytes <= max_bytes \/ s.order = <<>> THEN s
    ELSE LET v == Head(s.order)
         IN  [s EXCEPT !.order = Tail(@), !.used = @ - Size(s.cached[v]), !.cached[v] = Absent]

\* One turn of the eviction loop; it does nothing once the bytes fit.
EvictOne(s, bytes) ==
    IF s.used + bytes <= max_bytes \/ s.order = <<>> THEN s
    ELSE LET v == Head(s.order)
         IN  IF s.chances > 0 /\ s.cached[v].visited
             THEN [s EXCEPT !.order = Append(Tail(@), v), !.chances = @ - 1,
                            !.cached[v].visited = FALSE]
             ELSE [s EXCEPT !.order = Tail(@), !.used = @ - Size(s.cached[v]),
                            !.cached[v] = Absent, !.index = Unindex(@, v, s.cached[v].tags)]

\* The store after n turns.
Turns(start, bytes, n) ==
    LET turn[m \in 0 .. n] == IF m = 0 THEN start ELSE EvictOne(turn[m - 1], bytes)
    IN  turn[n]

\* The store after reserve(bytes); what was evicted stays evicted on failure.
AfterReserve(bytes) ==
    LET start == [order |-> order, cached |-> cached, index |-> tag_index, used |-> used,
                  chances |-> IF Clock THEN Len(order) + 1 ELSE 0]
    IN  IF bytes > max_bytes THEN start ELSE Turns(start, bytes, 2 * Len(order) + 1)

Reserve(bytes, ok) ==
    LET s == AfterReserve(bytes)
    IN  /\ ok = (s.used + bytes <= max_bytes)
        /\ cached' = s.cached /\ order' = s.order /\ tag_index' = s.index
        /\ used' = IF ok THEN s.used + bytes ELSE s.used

-----------------------------------------------------------------------------
(* A fill: get_miss_handler, write_body, finish, drop *)

\* The next write id; the metadata is paid for.  A transient response keeps
\* neither tags nor path.
Open(i, k, tags, transient, meta) ==
    /\ fill[i] = Idle /\ ~WriteHeld
    /\ \A j \in Fills : j < i => fill[j] # Idle
    /\ transient => tags = {}
    /\ \E ok \in BOOLEAN :
          /\ Reserve(meta, ok)
          /\ fill' = [fill EXCEPT ![i] =
                [pc |-> IF ok THEN "registering" ELSE "refused", key |-> k, tags |-> tags,
                 path |-> IF transient THEN None ELSE PathOf[k], transient |-> transient,
                 meta |-> meta, len |-> 0, accounted |-> IF ok THEN meta ELSE 0, temp |-> FALSE,
                 invalidated |-> FALSE, complete |-> FALSE, whole |-> FALSE]]
    /\ UNCHANGED <<purge, reader, outdated>>

Register(i) ==
    /\ fill[i].pc = "registering"
    /\ fill' = [fill EXCEPT ![i].pc = "open", ![i].temp = TRUE]
    /\ UNCHANGED <<store, purge, reader, outdated>>

\* write_body pays for a chunk before it takes it; a refusal ends the fill.
WriteReserve(i) ==
    /\ fill[i].pc = "open" /\ ~fill[i].complete /\ fill[i].len < MaxChunks
    /\ \E ok \in BOOLEAN : Reserve(1, ok) /\ Goto(i, IF ok THEN "writing" ELSE "failed")
    /\ UNCHANGED <<purge, reader, outdated>>

WritePublish(i) ==
    /\ fill[i].pc = "writing"
    /\ \E eof \in BOOLEAN :
          fill' = [fill EXCEPT ![i].pc = "open", ![i].len = @ + 1, ![i].accounted = @ + 1,
                               ![i].complete = eof, ![i].whole = eof]
    /\ UNCHANGED <<store, purge, reader, outdated>>

\* finish, when the response has ended: followers may reach the end.
Finish(i) ==
    /\ fill[i].pc = "open"
    /\ fill' = [fill EXCEPT ![i].pc = IF fill[i].transient THEN "handoff" ELSE "finishing",
                            ![i].complete = TRUE, ![i].whole = TRUE]
    /\ UNCHANGED <<store, purge, reader, outdated>>

\* A transient response stays for a moment longer.
EndHandoff(i) ==
    /\ fill[i].pc = "handoff"
    /\ fill' = [fill EXCEPT ![i].pc = "releasing", ![i].temp = FALSE]
    /\ UNCHANGED <<store, purge, reader, outdated>>

\* The mark is not looked at.
MoveAlways(i) ==
    /\ fill[i].pc = "finishing" /\ ~WriteHeld
    /\ fill' = [fill EXCEPT ![i].pc = "admitting", ![i].temp = FALSE]
    /\ UNCHANGED <<store, purge, reader, outdated>>

\* finish takes the fill out of temp, and looks whether a purge marked it.
Move(i) ==
    /\ fill[i].pc = "finishing" /\ ~WriteHeld
    /\ fill' = [fill EXCEPT ![i].pc = IF fill[i].invalidated THEN "withdrawing" ELSE "admitting",
                            ![i].temp = FALSE]
    /\ UNCHANGED <<store, purge, reader, outdated>>

\* retain, on the eviction queue: the keys that are not in the way, in order.
Without(seq, gone) ==
    LET kept[n \in 0 .. Len(seq)] ==
            IF n = 0 THEN <<>>
            ELSE IF seq[n] \in gone THEN kept[n - 1] ELSE Append(kept[n - 1], seq[n])
    IN  kept[Len(seq)]

\* The finished fill becomes the entry of its key; what it replaces leaves the
\* accounts, the eviction queue and the index.
Admit(i) ==
    LET k == fill[i].key
    IN  /\ fill[i].pc = "admitting"
        /\ used' = used - Size(cached[k])
        /\ cached' = [cached EXCEPT ![k] = [from |-> i, meta |-> fill[i].meta, len |-> fill[i].len,
                                            tags |-> fill[i].tags, path |-> fill[i].path,
                                            visited |-> FALSE]]
        /\ order' = Append(Without(order, {k}), k)
        /\ tag_index' = (IF cached[k] = Absent THEN tag_index ELSE Unindex(tag_index, k, cached[k].tags))
                        \cup (fill[i].tags \X {k})
        /\ Goto(i, "done")
        /\ UNCHANGED <<purge, reader, outdated>>

\* The leader goes away: the temporary entry first, ...
DropComplete(i) ==
    /\ fill[i].pc \in {"open", "failed"}
    /\ fill' = [fill EXCEPT ![i].pc = "releasing", ![i].temp = FALSE, ![i].complete = TRUE]
    /\ UNCHANGED <<store, purge, reader, outdated>>

Drop(i) ==
    /\ fill[i].pc \in {"open", "failed"}
    /\ fill' = [fill EXCEPT ![i].pc = "releasing", ![i].temp = FALSE]
    /\ UNCHANGED <<store, purge, reader, outdated>>

\* ... then its bytes.
Release(i) ==
    /\ fill[i].pc \in {"releasing", "withdrawing"}
    /\ used' = used - fill[i].accounted
    /\ Goto(i, "gone")
    /\ UNCHANGED <<cached, order, tag_index, purge, reader, outdated>>

-----------------------------------------------------------------------------
(* purge_tags, purge_paths, purge_all and Storage::purge *)

PurgeRequests ==
    [by : {"tag"}, what : Tags] \cup [by : {"path"}, what : {PathOf[k] : k \in Keys}]
    \cup [by : {"key"}, what : Keys] \cup [by : {"all"}, what : {None}]

\* Does a request mean an entry or fill with this key, tags and path?
Means(q, k, tags, path) ==
    CASE q.by = "tag" -> q.what \in tags
      [] q.by = "path" -> q.what = path
      [] q.by = "key" -> q.what = k
      [] OTHER -> TRUE

\* With lifecycle held for writing; a purge by tag asks the index for its victims.
PurgeStart(q) ==
    /\ ~WriteHeld /\ ~ReadHeld
    /\ purge' = [pc |-> "mark", q |-> q,
                 victims |-> IF q.by = "tag" THEN {x[2] : x \in {y \in tag_index : y[1] = q.what}} ELSE {}]
    /\ UNCHANGED <<store, fill, reader, outdated>>

PurgeMark ==
    /\ purge.pc = "mark"
    /\ fill' = [i \in Fills |->
          IF i \in Temp /\ Means(purge.q, fill[i].key, fill[i].tags, fill[i].path)
          THEN [fill[i] EXCEPT !.invalidated = TRUE] ELSE fill[i]]
    /\ purge' = [purge EXCEPT !.pc = "remove"]
    /\ UNCHANGED <<store, reader, outdated>>

\* The history of what this purge is about: entries, and fills not yet stored.
Matched ==
    {cached[k].from : k \in {x \in Entries : Means(purge.q, x, cached[x].tags, cached[x].path)}}
    \cup {i \in Fills : /\ fill[i].pc \in {"open", "writing", "finishing"}
                        /\ Means(purge.q, fill[i].key, fill[i].tags, fill[i].path)}

\* purge_matching_locked.
PurgeRemove ==
    LET doomed == {k \in Entries : IF purge.q.by = "tag" THEN k \in purge.victims
                                   ELSE Means(purge.q, k, cached[k].tags, cached[k].path)}
    IN  /\ purge.pc = "remove"
        /\ used' = used - Total([k \in doomed |-> Size(cached[k])])
        /\ cached' = [k \in Keys |-> IF k \in doomed THEN Absent ELSE cached[k]]
        /\ order' = Without(order, doomed)
        /\ tag_index' = tag_index \ UNION {cached[k].tags \X {k} : k \in doomed}
        /\ purge' = Idle /\ outdated' = outdated \cup Matched
        /\ UNCHANGED <<fill, reader>>

-----------------------------------------------------------------------------
(* update_meta, after a revalidation *)

\* The growth is not paid for.
UpdateFree(k, meta, tags) ==
    /\ cached[k] # Absent /\ ~WriteHeld
    /\ cached' = [cached EXCEPT ![k].meta = meta, ![k].tags = tags]
    /\ tag_index' = Unindex(tag_index, k, cached[k].tags) \cup (tags \X {k})
    /\ UNCHANGED <<used, order, fill, purge, reader, outdated>>

UpdateMeta(k, meta, tags) ==
    /\ cached[k] # Absent /\ ~WriteHeld
    /\ meta > cached[k].meta => used + meta - cached[k].meta <= max_bytes
    /\ used' = used + meta - cached[k].meta
    /\ cached' = [cached EXCEPT ![k].meta = meta, ![k].tags = tags]
    /\ tag_index' = Unindex(tag_index, k, cached[k].tags) \cup (tags \X {k})
    /\ UNCHANGED <<order, fill, purge, reader, outdated>>

-----------------------------------------------------------------------------
(* lookup: the completed entries, then the fills in progress *)

LookupCached(r, k) ==
    /\ reader[r] = Idle
    /\ IF cached[k] # Absent
       THEN cached' = [cached EXCEPT ![k].visited = TRUE] /\ UNCHANGED reader
       ELSE /\ reader' = [reader EXCEPT ![r] = [pc |-> "second", key |-> k]]
            /\ UNCHANGED cached
    /\ UNCHANGED <<order, tag_index, used, fill, purge, outdated>>

LookupTemp(r) ==
    LET writes == {i \in Temp : fill[i].key = reader[r].key}
    IN  /\ reader[r].pc = "second"
        /\ reader' = [reader EXCEPT ![r] =
              IF writes = {} THEN Idle
              ELSE [pc |-> "following", fill |-> Max(writes), read |-> 0]]
        /\ UNCHANGED <<store, fill, purge, outdated>>

\* PartialHit::read_body: what is there, then the end, or the writer is gone.
Follow(r) ==
    LET f == fill[reader[r].fill]
    IN  /\ reader[r].pc = "following"
        /\ \/ reader[r].read < f.len /\ reader' = [reader EXCEPT ![r].read = f.len]
           \/ reader[r].read = f.len /\ f.complete /\ reader' = [reader EXCEPT ![r].pc = "whole"]
           \/ /\ reader[r].read = f.len /\ ~f.complete /\ f.pc \in {"releasing", "gone"}
              /\ reader' = [reader EXCEPT ![r] = Idle]
        /\ UNCHANGED <<store, fill, purge, outdated>>

\* The reader has answered its client.
Answered(r) ==
    /\ reader[r].pc = "whole"
    /\ reader' = [reader EXCEPT ![r] = Idle]
    /\ UNCHANGED <<store, fill, purge, outdated>>

-----------------------------------------------------------------------------
Leader(i) ==
    \/ Register(i) \/ WriteReserve(i) \/ WritePublish(i) \/ Finish(i) \/ EndHandoff(i)
    \/ Move(i) \/ Admit(i) \/ Drop(i) \/ Release(i)

Next ==
    \/ \E i \in Fills :
          \/ \E k \in Keys, tags \in SUBSET Tags, t \in BOOLEAN, meta \in 1 .. MaxMeta : Open(i, k, tags, t, meta)
          \/ Leader(i)
    \/ \E q \in Asked : PurgeStart(q)
    \/ PurgeMark \/ PurgeRemove
    \/ \E k \in Keys, tags \in SUBSET Tags, meta \in 1 .. MaxMeta : UpdateMeta(k, meta, tags)
    \/ \E r \in Readers :
          \/ \E k \in Keys : LookupCached(r, k)
          \/ LookupTemp(r) \/ Follow(r) \/ Answered(r)

Spec == Init /\ [][Next]_vars
-----------------------------------------------------------------------------
(* Properties *)

\* What a fill has reserved and not given back or handed to its entry.
Held(f) ==
    IF f.pc \in {"idle", "done", "gone"} THEN 0
    ELSE f.accounted + (IF f.pc = "writing" THEN 1 ELSE 0)

\* The budget is exactly the completed entries and the fills in progress, chunk
\* in hand included, and never passes max_memory: evictions, replaced entries,
\* purges, dropped leaders and late transient releases leak and return nothing
\* twice.
BytesExact ==
    /\ used = Total([k \in Keys |-> Size(cached[k])]) + Total([i \in Fills |-> Held(fill[i])])
    /\ used <= max_bytes

\* "a cache eviction policy is not allowed to be a livelock" (reserve): a fill is
\* refused memory only after every entry gave way, however hot they all are, or
\* when its metadata alone is more than the cache may hold.
RefusedOnlyByFills ==
    [][\A i \in Fills :
          fill'[i].pc \in {"refused", "failed"} /\ fill[i].pc # fill'[i].pc =>
              Entries' = {} \/ fill'[i].meta > max_bytes]_vars

\* The reverse index names exactly the entries that carry a tag, and the
\* eviction queue every entry once, whichever way they came, changed or left.
IndexExact ==
    /\ tag_index = {x \in Tags \X Keys : x[2] \in Entries /\ x[1] \in cached[x[2]].tags}
    /\ Range(order) = Entries /\ Len(order) = Cardinality(Entries)

\* "A purge either sees this fill in temp or completes before the fill is
\* registered" (get_miss_handler): nothing a finished purge matched is an entry
\* afterwards, neither an old entry nor a fill that was in progress.
PurgedStaysOut == \A k \in Entries : cached[k].from \notin outdated

\* A follower reaches a clean end only with the leader's whole body; a leader
\* that goes away is an error, never a short response.
FollowersWhole ==
    \A r \in Readers :
       reader[r].pc = "whole" => LET f == fill[reader[r].fill] IN f.whole /\ reader[r].read = f.len
=============================================================================
