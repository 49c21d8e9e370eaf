----------------------------- MODULE DiskCache -----------------------------
(***************************************************************************)
(* The disk cache of a data server (dserver/diskcache), as operators from  *)
(* a state to the set of the states that it leads to: one, unless a        *)
(* deleted range is looked at. The pages of a file that are in memory are  *)
(* kept as ranges with flags; a request for pages becomes reads and writes *)
(* of the cache, one at a time, and of the disk. The table of a file's     *)
(* ranges and the LRU list hold the same ranges, so that they are one      *)
(* sequence here, in the order of the list, the most recent first. Read-   *)
(* ahead is disabled, as diskcache.ini has it, and one file is modelled,   *)
(* number 0, where the background write out begins.                        *)
(***************************************************************************)
EXTENDS Integers, FiniteSets, SequencesExt

CONSTANTS UsablePages,     \* usable_pages
          DirtyThreshold,  \* dirty_threshold, in pages
          WriteoutBatch,   \* writeout_batch
          DiskReadBatch,   \* diskread_batch
          FreeBatch,       \* DEFAULT_PAGE_FREE_BATCH
          TrimInterval     \* trimCacheInt

ASSUME DiskCacheAssumption ==
  /\ UsablePages \in Nat \ {0} /\ DirtyThreshold \in Nat
  /\ WriteoutBatch \in Nat \ {0} /\ DiskReadBatch \in Nat \ {0}
  /\ FreeBatch \in Nat \ {0} /\ TrimInterval \in Nat \ {0}

\* The pages of anything that has a start and an end, which is not one of them.
PagesIn(x) == x.start .. x.end - 1

Idle == [id |-> <<>>, read |-> TRUE, start |-> 0, end |-> 0]

\* The identifier of the background write out.
BG_WRITEOUT_ID == <<-1, 0>>

\* The state of DiskCache, with the requests sent to the local file system in this
\* handler, those returned in it, and whether the program printed an error or followed
\* a pointer to a range that was freed meanwhile, after which nothing is said of it.
EmptyCache(expires) ==
  [ranges |-> <<>>, freePages |-> UsablePages, dirtyPages |-> 0,
   reqQ |-> <<>>, cacheAccess |-> Idle,
   expires |-> expires, timer |-> FALSE, active |-> FALSE,
   trims |-> 0, lastFreed |-> FALSE,
   sent |-> <<>>, returned |-> <<>>, error |-> FALSE]

CachedPages(c) == UNION {PagesIn(x) : x \in ToSet(c.ranges)}

\* walkCache_countMissing.
Missing(c, r) == Cardinality(PagesIn(r) \ CachedPages(c))

-----------------------------------------------------------------------------
(* walkCache_update.  An operation op reads or writes (read) pages of the    *)
(* cache or, between cache and disk, of the disk (disk); the walk is before  *)
(* it (before, preop in the code) or after it.                               *)

\* The pages of op cut at the ends of ranges, in order; the walk goes along these.
Segments(c, op) ==
  LET ends   == UNION {{x.start, x.end} : x \in ToSet(c.ranges)}
      starts == SetToSortSeq({op.start} \cup (ends \cap PagesIn(op)), <)
  IN  [k \in DOMAIN starts |->
         [start |-> starts[k],
          end   |-> IF k = Len(starts) THEN op.end ELSE starts[k+1]]]

\* lru_free_pages(n): clean ranges that nobody uses, from the end of the list; the last
\* one may be freed in part.
FreedOf(ranges, n, k) ==
  LET freeable == {j \in DOMAIN ranges : ~ranges[j].dirty /\ ~ranges[j].locked /\ ranges[j].count = 0}
      earlier  == Cardinality(UNION {PagesIn(ranges[j]) : j \in {i \in freeable : i > k}})
  IN  {d \in PagesIn(ranges[k]) : k \in freeable /\ d - ranges[k].start < n - earlier}

Freed(ranges, n) ==
  SelectSeq([k \in DOMAIN ranges |->
               [ranges[k] EXCEPT !.start = @ + Cardinality(FreedOf(ranges, n, k))]],
            LAMBDA x : PagesIn(x) # {})

\* The number of pages freed when these ranges are left.
NumFreed(ranges, left) ==
  Cardinality(UNION {PagesIn(x) : x \in ToSet(ranges)} \ UNION {PagesIn(x) : x \in ToSet(left)})

\* Pages that are not in the cache.  The range before them (pr_last) and the one after
\* them, if the walk goes on, are still pointed at when pages have been freed.
Miss(c, op, seg) ==
  LET size   == seg.end - seg.start
      n      == IF c.freePages >= size THEN 0 ELSE IF size > FreeBatch THEN size ELSE FreeBatch
      new    == [start |-> seg.start, end |-> seg.end, dirty |-> ~op.read,
                 modified |-> ~op.read, writeback |-> FALSE, locked |-> TRUE, count |-> 1]
      before == {x \in ToSet(c.ranges) : x.end <= seg.start}
  IN  IF ~op.before \/ op.disk # op.read THEN {[c EXCEPT !.error = TRUE]}
      ELSE {LET kept == ToSet(left)
            IN  [c EXCEPT !.ranges = <<new>> \o left,
                          !.freePages = @ + NumFreed(c.ranges, left) - size,
                          !.dirtyPages = IF op.read THEN @ ELSE @ + size,
                          !.lastFreed = \E x \in before : /\ \A y \in before : y.start <= x.start
                                                         /\ \A y \in kept : y.end # x.end,
                          !.error = seg.end # op.end /\ \A y \in kept : y.start # seg.end]
            : left \in {Freed(c.ranges, n)}}

\* Mutant of Flagged: a read clears what was dirty.
FlaggedClean(x, op) ==
  [x EXCEPT !.dirty     = ~op.read /\ (op.before \/ ~op.disk),
            !.modified  = ~op.read \/ x.modified,
            !.writeback = op.before /\ op.disk /\ ~op.read,
            !.locked    = op.before /\ ~op.read,
            !.count     = IF op.before THEN 1 ELSE 0]

\* What the flags of a range become; they are set, not combined, except for dirty.
Flagged(x, op) ==
  LET saved == op.disk /\ ~op.read /\ ~op.before
  IN  [x EXCEPT !.dirty     = ~saved /\ (~op.read \/ x.dirty),
                !.modified  = ~op.read \/ x.modified,
                !.writeback = op.before /\ op.disk /\ ~op.read,
                !.locked    = op.before /\ ~op.read,
                !.count     = IF op.before THEN 1 ELSE 0]

\* Pages of range k; what is left of the range keeps its place in the list, and the
\* pages themselves come first when they are to be written.
Hit(c, op, seg, k) ==
  LET x      == c.ranges[k]
      middle == [Flagged(x, op) EXCEPT !.start = seg.start, !.end = seg.end]
      left   == IF x.start < seg.start THEN <<[x EXCEPT !.end = seg.start]>> ELSE <<>>
      right  == IF seg.end < x.end THEN <<[x EXCEPT !.start = seg.end]>> ELSE <<>>
      recent == op.before /\ ~op.read /\ ~op.disk
      inPlace == IF recent THEN right \o left
                 ELSE IF left = <<>> THEN <<middle>> \o right
                 ELSE right \o <<middle>> \o left
      ranges == SubSeq(c.ranges, 1, k - 1) \o inPlace \o SubSeq(c.ranges, k + 1, Len(c.ranges))
  IN  IF op.before /\ op.disk /\ op.read THEN {[c EXCEPT !.error = TRUE]}
      ELSE {[c EXCEPT !.ranges = IF recent THEN <<middle>> \o ranges ELSE ranges,
                      !.dirtyPages = IF op.before /\ op.disk /\ ~op.read
                                     THEN @ - (seg.end - seg.start) ELSE @,
                      !.lastFreed = FALSE]}

\* Mutant of Joins: the flags are not compared.
JoinsAny(ranges, k) == k > 1 /\ ranges[k].end = ranges[k-1].start

\* trimCache: neighbours with the same flags, in the file and in the list, are merged.
Joins(ranges, k) ==
  /\ k > 1
  /\ ranges[k].end = ranges[k-1].start
  /\ [ranges[k] EXCEPT !.start = 0, !.end = 0] = [ranges[k-1] EXCEPT !.start = 0, !.end = 0]

Trimmed(ranges) ==
  LET first == {k \in DOMAIN ranges : ~Joins(ranges, k)}
      last(k) == CHOOSE j \in DOMAIN ranges :
                   /\ j >= k /\ j + 1 \notin DOMAIN ranges \ first
                   /\ \A i \in k + 1 .. j : i \notin first
      order == SetToSortSeq(first, <)
  IN  [n \in DOMAIN order |->
         [ranges[order[n]] EXCEPT !.start = ranges[last(order[n])].start]]

Walked(c, op) ==
  LET Step(d, seg) ==
        LET k == SelectInSeq(d.ranges, LAMBDA x : seg.start \in PagesIn(x))
        IN  IF d.error THEN {d} ELSE IF k = 0 THEN Miss(d, op, seg) ELSE Hit(d, op, seg, k)
      Along(d, segs) ==
        LET walk[n \in 0 .. Len(segs)] ==
              IF n = 0 THEN {[d EXCEPT !.error = @ \/ d.lastFreed]}
              ELSE UNION {Step(e, segs[n]) : e \in walk[n-1]}
        IN  walk[Len(segs)]
  IN  {IF e.trims + 1 < TrimInterval THEN [e EXCEPT !.trims = @ + 1]
       ELSE [e EXCEPT !.trims = 0, !.lastFreed = FALSE, !.ranges = Trimmed(@)]
       : e \in UNION {UNION {Along(d, segs) : segs \in {Segments(d, op)}} : d \in {c}}}

Op(x, read, before, disk) ==
  [start |-> x.start, end |-> x.end, read |-> read, before |-> before, disk |-> disk]

-----------------------------------------------------------------------------

\* scheduleDiskAccess and scheduleCacheAccess, for request k.
ScheduleDiskAccess(c, id, x, read) ==
  Walked([c EXCEPT !.sent = Append(@, [id |-> id, read |-> read,
                                       start |-> x.start, end |-> x.end])],
         Op(x, read, TRUE, TRUE))

ScheduleCacheAccess(c, id, x, read) ==
  Walked([c EXCEPT !.cacheAccess = [id |-> id, read |-> read,
                                    start |-> x.start, end |-> x.end]],
         Op(x, read, TRUE, FALSE))

\* setWriteout: the first n dirty pages nobody uses, by range.
SetWriteout(c, n) ==
  LET idle   == {x \in ToSet(c.ranges) : x.dirty /\ ~x.writeback /\ ~x.locked /\ x.count = 0}
      pages  == UNION {PagesIn(x) : x \in idle}
      chosen == {d \in pages : Cardinality({e \in pages : e < d}) < n}
      parts  == {[start |-> x.start, end |-> x.start + Cardinality(PagesIn(x) \cap chosen)]
                 : x \in idle}
  IN  SetToSortSeq({x \in parts : PagesIn(x) # {}}, LAMBDA x, y : x.start < y.start)

\* getAccessSize: how far one read of the disk goes.
AccessEnd(start, end) == IF end - start > DiskReadBatch THEN start + DiskReadBatch ELSE end

\* readCache: from the start of the request to where the cache begins or ends to have
\* its pages; it waits for a locked range.
ReadCache(c, k) ==
  LET r     == c.reqQ[k]
      hits  == {x \in ToSet(c.ranges) : PagesIn(x) \cap PagesIn(r) # {}}
      first == CHOOSE x \in hits : \A y \in hits : x.start <= y.start
      least(a, b) == IF a < b THEN a ELSE b
      toDisk == [start |-> r.start,
                 end   |-> AccessEnd(r.start, IF hits = {} THEN r.end ELSE first.start)]
  IN  IF hits # {} /\ first.locked THEN {[c EXCEPT !.reqQ[k].pending = FALSE]}
      ELSE IF hits # {} /\ first.start <= r.start
      THEN ScheduleCacheAccess(c, r.id, [start |-> r.start, end |-> least(first.end, r.end)],
                               TRUE)
      ELSE ScheduleDiskAccess(c, r.id, toDisk, TRUE)

\* writeCache: first what it has to write out, then the pages themselves, unless there
\* would be too many dirty pages: then it has to write out some.
WriteCache(c, k) ==
  LET r     == c.reqQ[k]
      timed == [c EXCEPT !.timer = @ \/ (c.expires /\ ~c.active)]
      list  == SetWriteout(c, WriteoutBatch)
  IN  IF r.writeout # <<>> THEN ScheduleDiskAccess(c, r.id, Head(r.writeout), FALSE)
      ELSE IF c.dirtyPages + Missing(c, r) < DirtyThreshold
      THEN ScheduleCacheAccess(timed, r.id, r, FALSE)
      ELSE IF list = <<>> THEN {[c EXCEPT !.error = TRUE]}
      ELSE ScheduleDiskAccess([timed EXCEPT !.reqQ[k].writeout = list],
                              r.id, Head(list), FALSE)

\* accessCache: every request that is not pending, until the cache is busy.
AccessCache(c) ==
  LET Access(d, k) ==
        IF d.error \/ d.cacheAccess # Idle \/ d.reqQ[k].pending THEN {d}
        ELSE UNION {IF e.reqQ[k].read THEN ReadCache(e, k) ELSE WriteCache(e, k)
                    : e \in {[d EXCEPT !.reqQ[k].pending = TRUE]}}
      accessed[k \in 0 .. Len(c.reqQ)] ==
        IF k = 0 THEN {c} ELSE UNION {Access(d, k) : d \in accessed[k-1]}
  IN  accessed[Len(c.reqQ)]

-----------------------------------------------------------------------------
(* The handlers, each to the set of the states it leads to. *)

Request(id, read, start, end) ==
  [id |-> id, read |-> read, start |-> start, end |-> end,
   pending |-> FALSE, writeout |-> <<>>]

\* handlePageReq.
HandleCacheReq(c, p) ==
  IF p.end <= p.start THEN {[c EXCEPT !.error = TRUE]}
  ELSE UNION {AccessCache(d) :
                d \in {[c EXCEPT !.reqQ = Append(@, Request(p.id, p.read, p.start, p.end))]}}

\* handleCacheAccessResp: the request ends where this access ended, whatever it asked
\* for, and is returned.
HandleCacheAccessResp(c) ==
  LET a == c.cacheAccess
      k == SelectInSeq(c.reqQ, LAMBDA r : r.id = a.id)
  IN  IF k = 0 THEN {[c EXCEPT !.error = TRUE]}
      ELSE UNION {AccessCache(d) : d \in
             Walked([c EXCEPT !.cacheAccess = Idle, !.reqQ = RemoveAt(@, k),
                              !.returned = Append(@, [id |-> a.id, end |-> a.end])],
                    Op(a, a.read, FALSE, FALSE))}

\* setBGWriteoutPR: more to write out in the background, or no more; the caller then
\* looks for a read-ahead list in the range that was deleted here.
SetBGWriteout(c, k) ==
  LET list == SetWriteout(c, WriteoutBatch)
  IN  IF list # <<>> THEN {[c EXCEPT !.reqQ[k].writeout = list]}
      ELSE {[c EXCEPT !.active = FALSE, !.reqQ = RemoveAt(@, k), !.error = found]
            : found \in BOOLEAN}

\* handleDiskAccessResp.
HandleDiskAccessResp(c, p) ==
  LET k    == SelectInSeq(c.reqQ, LAMBDA r : r.id = p.id)
      list == c.reqQ[k].writeout
      d    == [c EXCEPT !.reqQ[k].pending = FALSE,
                        !.reqQ[k].writeout = IF list = <<>> THEN list ELSE Tail(list)]
      next == IF p.id = BG_WRITEOUT_ID /\ Len(list) = 1 THEN SetBGWriteout(d, k) ELSE {d}
  IN  IF k = 0 THEN {[c EXCEPT !.error = TRUE]}
      ELSE IF list # <<>> /\ (p.start # list[1].start \/ p.end # list[1].end)
      THEN {[c EXCEPT !.error = TRUE]}
      ELSE UNION {AccessCache(e) : e \in UNION {Walked(n, Op(p, p.read, FALSE, TRUE)) : n \in next}}

\* handleDirtyPageExpiration: the background write out begins.
HandleDirtyPageExpiration(c) ==
  LET list == SetWriteout(c, WriteoutBatch)
      bg   == [Request(BG_WRITEOUT_ID, FALSE, 0, 0) EXCEPT !.pending = TRUE, !.writeout = list]
  IN  IF list = <<>> THEN {[c EXCEPT !.timer = FALSE, !.error = TRUE]}
      ELSE ScheduleDiskAccess([c EXCEPT !.timer = FALSE, !.active = TRUE,
                                        !.reqQ = Append(@, bg)],
                              BG_WRITEOUT_ID, Head(list), FALSE)
============================================================================
