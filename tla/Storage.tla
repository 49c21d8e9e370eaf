------------------------------ MODULE Storage ------------------------------
(***************************************************************************)
(* The storage of a data server below its daemon: the virtual file system  *)
(* (VFS) over the local file system (LocalFS) over the disk (Disk.cc) when *)
(* O_DIRECT is set, and otherwise over the disk cache (DiskCache).  What   *)
(* is below the disk cache answers the page requests it sends in any       *)
(* order, as the local file system does under the virtual file system.     *)
(* How long the disk takes is not modelled: it may complete the requests   *)
(* it has accepted in any order.  The channels between the parts have no   *)
(* delay and keep the order of what is sent.                               *)
(***************************************************************************)
EXTENDS VFS, LocalFS, DiskCache

CONSTANTS Degrees,   \* pairs of the degrees of local file system and disk
          DiskSize,  \* disk_size
          MaxBatch,  \* MAX_BLK_BATCH
          Expires    \* may dirty_expire_centisecs be a time, or is it disabled

ASSUME StorageAssumption == /\ Degrees \subseteq (Nat \ {0}) \X (Nat \ {0})
                            /\ DiskSize \in Nat /\ MaxBatch \in Nat
                            /\ Expires \subseteq BOOLEAN

VARIABLES
  odirect,   \* O_DIRECT of the daemon
  down,      \* page requests on their way from VFS
  lfs,       \* the local file system
  disk,      \* the disk's queue, of degree diskDegree
  diskDegree,
  up,        \* page requests on their way back, by identifier, and their ends
  cache,     \* the disk cache
  atLFS,     \* the page requests it sent; fresh is history: the pages whose newest
             \* contents are in the request
  failed,    \* the disk cache, the local file system or the disk printed an error
  finished,  \* history: the page requests the local file system returned
  unsaved    \* history: the pages that were written to the cache and not to the disk

vfsVars   == <<fileReqQ, pageReqQ, aborted, asked, done, answers>>
lfsVars    == <<lfs, disk, finished>>
cacheVars  == <<cache, atLFS, unsaved>>
parameters == <<odirect, diskDegree>>
allVars    == <<vfsVars, lfsVars, cacheVars, parameters, down, up, failed>>

StorageInit ==
  /\ Init
  /\ \/ /\ odirect = TRUE
        /\ \E d \in Degrees : lfs = EmptyLFS(d[1]) /\ diskDegree = d[2]
        /\ cache = EmptyCache(FALSE)
     \/ /\ odirect = FALSE
        /\ lfs = EmptyLFS(1) /\ diskDegree = 1
        /\ \E e \in Expires : cache = EmptyCache(e)
  /\ disk = EmptyQueue
  /\ down = <<>> /\ up = <<>>
  /\ failed = FALSE
  /\ finished = {} /\ atLFS = {} /\ unsaved = {}

-----------------------------------------------------------------------------

\* What VFS sent in this step: sendToLFS or sendToDiskCache.
Created == SelectSeq(pageReqQ'.osQ, LAMBDA p : p \notin ToSet(pageReqQ.osQ))

SentDown == down' = down \o Created

\* dispatchJobs of the disk: until dispatchNext returns NULL.
DispatchJobs(q) == DispatchedAll(q, diskDegree)

\* dispatchJobs prints an error for such a request.
OutOfBounds(b) == \/ b.end > DiskSize
                  \/ b.end - b.start > MaxBatch \/ b.end <= b.start
                  \/ b.start < 0

\* LFS_M dispatches, having come to state l, and the disk handles each block request it
\* sends: handleBlockReq.
DispatchesTo(l, q) ==
  \E m \in DispatchNextDiskReq(l) :
    LET served == DispatchJobs([q EXCEPT !.waitQ = @ \o m.sent])
    IN  /\ lfs' = [m EXCEPT !.sent = <<>>, !.returned = <<>>]
        /\ disk' = served
        /\ up' = up \o [k \in DOMAIN m.returned |->
                         [id |-> m.returned[k].id, end |-> m.returned[k].pageEnd]]
        /\ finished' = finished \cup ToSet(m.returned)
        /\ failed' = (m.error \/ \E b \in ToSet(served.osQ) : OutOfBounds(b))

\* A file request comes from the daemon.
FileReq ==
  /\ ~failed
  /\ \E r \in Requests, o \in Offsets, s \in Lengths, read \in BOOLEAN, subID \in SubIDs :
       HandleNewFileReq(r, o, s, read, subID)
  /\ SentDown
  /\ UNCHANGED <<lfsVars, cacheVars, parameters, failed, up>>

\* A page request comes back to VFS.
PageResp ==
  /\ ~failed
  /\ up # <<>>
  /\ \E p \in ToSet(pageReqQ.osQ) :
       p.id = Head(up).id /\ HandlePageResp(p, Head(up).end)
  /\ up' = Tail(up)
  /\ SentDown
  /\ UNCHANGED <<lfsVars, cacheVars, parameters, failed>>

\* handlePageReq of LFS_M.
LFSPageReq ==
  /\ ~failed /\ ~aborted
  /\ odirect /\ down # <<>>
  /\ down' = Tail(down)
  /\ DispatchesTo(PageReqTaken(lfs, Head(down)), disk)
  /\ UNCHANGED <<vfsVars, cacheVars, parameters>>

\* The disk completes a request, handleBlockResp, and LFS_M gets it, handleBlkResp.
BlockResp(b) ==
  /\ ~failed /\ ~aborted
  /\ b \in ToSet(disk.osQ)
  /\ DispatchesTo(FinishedReq(lfs, b), DispatchJobs(Popped(disk, b.id)))
  /\ UNCHANGED <<vfsVars, cacheVars, parameters, down>>

\* The disk cache comes to one of these states; sent and newer are, but for what it
\* sends in this step, the new values of atLFS and unsaved.
CacheBecomes(states, sent, newer) ==
  \E c \in states :
    /\ cache' = [c EXCEPT !.sent = <<>>, !.returned = <<>>]
    /\ up' = up \o c.returned
    /\ unsaved' = newer
    /\ atLFS' = sent \cup {[id |-> p.id, read |-> p.read, start |-> p.start, end |-> p.end,
                            fresh |-> PagesIn(p) \cap newer] : p \in ToSet(c.sent)}
    /\ failed' = c.error
    /\ UNCHANGED <<vfsVars, lfsVars, parameters>>

\* handlePageReq of DiskCache.
CachePageReq ==
  /\ ~failed /\ ~aborted
  /\ ~odirect /\ down # <<>>
  /\ down' = Tail(down)
  /\ CacheBecomes(HandleCacheReq(cache, Head(down)), atLFS, unsaved)

\* The timer of a cache access.
CacheAccessResp ==
  LET written == IF cache.cacheAccess.read THEN {} ELSE PagesIn(cache.cacheAccess)
  IN  /\ ~failed /\ ~aborted
      /\ cache.cacheAccess # Idle
      /\ CacheBecomes(HandleCacheAccessResp(cache),
                      {[p EXCEPT !.fresh = @ \ written] : p \in atLFS},
                      unsaved \cup written)
      /\ UNCHANGED down

\* The local file system completes a page request of the disk cache.  It cannot match
\* the last block of one whose SubID it would round.
DiskAccessResp(p) ==
  /\ ~failed /\ ~aborted
  /\ p \in atLFS
  /\ IF PageSubID(p.id[2]) # p.id[2]
     THEN failed' = TRUE /\ UNCHANGED <<vfsVars, lfsVars, cacheVars, parameters, up>>
     ELSE CacheBecomes(HandleDiskAccessResp(cache, p), atLFS \ {p},
                       IF p.read THEN unsaved ELSE unsaved \ p.fresh)
  /\ UNCHANGED down

DirtyPageExpire ==
  /\ ~failed /\ ~aborted
  /\ cache.timer
  /\ CacheBecomes(HandleDirtyPageExpiration(cache), atLFS, unsaved)
  /\ UNCHANGED down

\* Messages are delivered, timers expire and the disk answers.
Event == \/ PageResp
         \/ LFSPageReq \/ \E b \in ToSet(disk.osQ) : BlockResp(b)
         \/ CachePageReq \/ CacheAccessResp \/ DirtyPageExpire
         \/ \E p \in atLFS : DiskAccessResp(p)

StorageNext == FileReq \/ Event

StorageSpec == StorageInit /\ [][StorageNext]_allVars /\ WF_allVars(Event)

-----------------------------------------------------------------------------

StorageTypeOK ==
  /\ TypeOK
  /\ odirect \in BOOLEAN /\ failed \in BOOLEAN
  /\ lfs.sent = <<>> /\ lfs.returned = <<>>
  /\ Len(disk.osQ) <= diskDegree

\* A file request is answered when its pages are there or written, all of them
\* except a last page that is written in part, and only these were transferred.  A read
\* of the cache may be cut short, but not to nothing.
AnsweredWhenDone ==
  \A k \in DOMAIN asked :
    LET f     == asked[k]
        moved == UNION {Pages(p) : p \in {q \in done[f.id] : q.read = f.read}}
    IN  answers[f.id] = 1 =>
          /\ moved \subseteq Touched(f)
          /\ f.id \notin {p.id[1] : p \in ToSet(pageReqQ.osQ)}
          /\ IF f.read /\ ~odirect THEN PageOf(f.offset) \in moved
             ELSE Touched(f) \ moved \subseteq IF f.read THEN {} ELSE {PageOf(End(f))}

\* Where a block of the file is on the disk.
OnDisk(blk) ==
  LET ext == CHOOSE e \in ToSet(lfs.exts) : blk \in e.logistart .. EndOf(e) - 1
  IN  ext.phystart + (blk - ext.logistart)

\* A page request moves the blocks of its pages, each once and in order, wherever the
\* extents end and whatever other requests and metadata come in between: those before
\* start at any time, all of them when it is returned.
MovesItsBlocks ==
  /\ \A r \in ToSet(lfs.pageReqQ) \cup finished :
       r.moved = [k \in 1 .. r.start - r.first |-> OnDisk(r.first + k - 1)]
  /\ \A r \in finished : r.start = r.end

\* The counts kept by hand are exact.  That which limits the block requests is the number
\* of those at the disk, one for each page request that is pending; that of the free pages
\* is what the ranges leave, and no page has two ranges.
CountsExact ==
  /\ StorageTypeOK
  /\ ~failed =>
       /\ lfs.outstanding = Len(disk.waitQ) + Len(disk.osQ)
       /\ lfs.outstanding = Len(SelectSeq(lfs.pageReqQ, LAMBDA r : r.pending))
       /\ lfs.outstanding <= lfs.degree
       /\ UsablePages - cache.freePages =
            FoldSeq(LAMBDA x, n : n + x.end - x.start, 0, cache.ranges)
       /\ UsablePages - cache.freePages = Cardinality(CachedPages(cache))

\* A write within one page: its last request is for no pages.
InOnePage(f) == ~f.read /\ ReadsForWrite(f) # <<>> /\ PageOf(f.offset) = PageOf(End(f))

\* Errors have few causes.  Everywhere: a page request VFS should not have sent.  In the
\* local file system and the disk: pages that begin beyond the end of the file; a degree
\* that lets two requests ask for the metadata of one extent; the end of the disk.  In
\* the disk cache: more pages than it may use, so that some are freed; a write that is
\* too many dirty pages by itself; the background write out.
FailsOnlyIf ==
  failed => \/ \E k \in DOMAIN asked : Mistaken(asked[k]) \/ InOnePage(asked[k])
            \/ odirect /\ \/ \E p \in ToSet(pageReqQ.osQ) :
                               p.start * BlksPerPage > EndOf(Last(lfs.exts))
                          \/ lfs.degree > 1
                          \/ \E b \in ToSet(disk.osQ) : b.end > DiskSize
            \/ ~odirect /\ \/ Cardinality(UNION {Touched(f) : f \in ToSet(asked)}) > UsablePages
                           \/ \E f \in ToSet(asked) : ~f.read /\ Cardinality(Touched(f)) >= DirtyThreshold
                           \/ cache.expires

\* Without the background write out, a page that was written to the cache is dirty
\* until what was written is on the disk: no access that ends in between clears it.
DirtyUntilSaved ==
  ~failed /\ ~cache.expires =>
    \A n \in unsaved : \E x \in ToSet(cache.ranges) : n \in PagesIn(x) /\ x.dirty

\* What is out at the cache or the disk.
Accesses == {a \in {cache.cacheAccess} : a # Idle} \cup atLFS

\* Without the background write out, the pages that are counted as used are those of
\* the accesses that are out, which are apart from each other, and all but the ones
\* that are read in the cache are locked: so a page is not freed or changed under an
\* access, nor kept for ever after it.
PinnedWhileUsed ==
  ~failed /\ ~cache.expires =>
    /\ \A x \in ToSet(cache.ranges) :
         \/ x.count = 0 /\ ~x.locked /\ \A a \in Accesses : PagesIn(a) \cap PagesIn(x) = {}
         \/ x.count = 1 /\ \A n \in PagesIn(x) : \E a \in Accesses :
                             n \in PagesIn(a) /\ x.locked = ~(a = cache.cacheAccess /\ a.read)
    /\ \A a \in Accesses : PagesIn(a) \subseteq CachedPages(cache)
    /\ \A a, b \in Accesses : a # b => PagesIn(a) \cap PagesIn(b) = {}

\* Every file request is answered, unless an error of FailsOnlyIf ended the simulation
\* or VFS mistook its last page request for another one.
AnswersFileReqs ==
  \A r \in Requests :
    (\E k \in DOMAIN asked : asked[k].id = r /\ ~Mistaken(asked[k]))
      ~> (failed \/ answers[r] = 1)
============================================================================
