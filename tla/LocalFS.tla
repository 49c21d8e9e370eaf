------------------------------ MODULE LocalFS ------------------------------
(***************************************************************************)
(* The local file system of a data server (LFS_M, ILFS and EXT3), as       *)
(* operators from state to state.  Requests for pages of a file become     *)
(* requests for blocks of the disk: a file is a list of extents, each      *)
(* contiguous on the disk and preceded there by a block of metadata, which *)
(* is read before the extent is used for the first time.  A page request   *)
(* has at most one block request out.  Files have lists of their own and   *)
(* share nothing but the count of outstanding requests: one is modelled.   *)
(***************************************************************************)
EXTENDS General, FIFOQueue

CONSTANTS BlksPerPage,     \* page_size / blk_size
          InitialExtents,  \* the extents the file had, as ILFS reads them
          NewExtSize,      \* new_ext_size
          NewExtGap        \* new_ext_gap

EndOf(ext) == ext.logistart + ext.length

\* A file that is not in the input has a list of no entries, and findExtEntry reads
\* before its beginning: such files are left out.
ASSUME LocalFSAssumption ==
  /\ BlksPerPage \in Nat \ {0}
  /\ NewExtSize \in Nat \ {0} /\ NewExtGap \in Nat \ {0}
  /\ InitialExtents # <<>> /\ InitialExtents[1].logistart = 0
  /\ \A k \in DOMAIN InitialExtents :
       /\ InitialExtents[k].length > 0 /\ InitialExtents[k].phystart > 0
       /\ InitialExtents[k].accessed = FALSE
       /\ k > 1 => InitialExtents[k].logistart = EndOf(InitialExtents[k-1])

\* The state of EXT3, with the block requests sent in this handler, the page requests
\* returned in it and whether an error was printed, which ends the simulation.
EmptyLFS(degree) ==
  [degree |-> degree, pageReqQ |-> <<>>, outstanding |-> 0, exts |-> InitialExtents,
   sent |-> <<>>, returned |-> <<>>, error |-> FALSE]

\* newReq: a page request, with its block range; moved is history.
NewReq(l, p) ==
  [l EXCEPT !.pageReqQ = Append(@,
     [id |-> p.id, read |-> p.read, pending |-> FALSE,
      pageEnd |-> p.end, first |-> p.start * BlksPerPage, start |-> p.start * BlksPerPage,
      end |-> p.end * BlksPerPage, extindex |-> 0, extoff |-> 0, moved |-> <<>>])]

\* findExtEntry: the extent of a block; one more than there are at the end of the
\* last extent; 0, an error, beyond that.
FindExtEntry(exts, blk) ==
  LET Search[s \in 1 .. Len(exts) + 1, e \in 0 .. Len(exts)] ==
        LET middle == (s + e) \div 2
        IN  IF s > e THEN 0
            ELSE IF blk < exts[middle].logistart THEN Search[s, middle - 1]
            ELSE IF blk >= EndOf(exts[middle]) THEN Search[middle + 1, e]
            ELSE middle
  IN  IF blk > EndOf(Last(exts)) THEN 0
      ELSE IF blk = EndOf(Last(exts)) THEN Len(exts) + 1
      ELSE Search[1, Len(exts)]

\* The extents with a new one from a block on, in dispatchNext.
Allocated(exts, blk) ==
  Append(exts, [logistart |-> blk, phystart |-> Last(exts).phystart + NewExtGap,
                length |-> NewExtSize, accessed |-> FALSE])

MetadataReq(r, ext) == [id |-> r.id, read |-> r.read,
                        start |-> ext.phystart - 1, end |-> ext.phystart]

\* Mutant of DataReq: it goes on beyond the end of the extent.
DataReqUncapped(r, ext) ==
  LET start == ext.phystart + (r.start - ext.logistart)
  IN  [id |-> <<r.id[1], r.id[2] + LFS_SUB_ID_BASE>>, read |-> r.read,
       start |-> start, end |-> r.end - r.start + start]

\* The data that is left of a request, up to the end of the extent.
DataReq(r, ext) ==
  LET start == ext.phystart + (r.start - ext.logistart)
      whole == r.end - r.start + start
      end   == ext.phystart + ext.length
  IN  [id |-> <<r.id[1], r.id[2] + LFS_SUB_ID_BASE>>, read |-> r.read,
       start |-> start, end |-> IF whole > end THEN end ELSE whole]

\* What dispatchNext sends for request k, whose next block is in extent x.
BlkReqSent(l, k, x) ==
  LET r    == l.pageReqQ[k]
      exts == IF x > Len(l.exts) THEN Allocated(l.exts, r.start) ELSE l.exts
      req  == IF exts[x].accessed THEN DataReq(r, exts[x]) ELSE MetadataReq(r, exts[x])
  IN  [l EXCEPT !.outstanding = @ + 1,
                !.exts = exts,
                !.pageReqQ[k] = [r EXCEPT !.pending = TRUE, !.extindex = x,
                                          !.extoff = r.start - exts[x].logistart],
                !.sent = Append(@, req),
                !.error = req.end <= req.start]

\* dispatchNext: for the first request that is not pending.
DispatchBlkReq(l) ==
  LET k == SelectInSeq(l.pageReqQ, LAMBDA r : ~r.pending)
      x == FindExtEntry(l.exts, l.pageReqQ[k].start)
  IN  IF l.error \/ l.outstanding >= l.degree \/ k = 0 THEN l
      ELSE IF x = 0 THEN [l EXCEPT !.error = TRUE]
      ELSE BlkReqSent(l, k, x)

\* dispatchNextDiskReq, until dispatchNext returns NULL: the set of the one state it
\* leads to.
DispatchNextDiskReq(l) ==
  FoldLeft(LAMBDA states, k : {DispatchBlkReq(m) : m \in states},
           {l}, [k \in 1 .. l.degree |-> k])

\* Mutant of Released: the count is kept.
ReleasedUncounted(l, k) == [l EXCEPT !.pageReqQ[k].pending = FALSE]

Released(l, k) == [l EXCEPT !.outstanding = @ - 1, !.pageReqQ[k].pending = FALSE]

\* A request after block request b for its data.
Moved(r, b) ==
  [r EXCEPT !.start = @ + (b.end - b.start),
            !.moved = @ \o [n \in 1 .. b.end - b.start |-> b.start + n - 1]]

\* finishedReq: a block request comes back.
FinishedReq(l, b) ==
  LET id   == <<b.id[1], PageSubID(b.id[2])>>
      k    == SelectInSeq(l.pageReqQ, LAMBDA r : r.id = id)
      r    == l.pageReqQ[k]
      ext  == l.exts[r.extindex]
      done == Moved([r EXCEPT !.pending = FALSE], b)
  IN  IF k = 0 THEN [l EXCEPT !.error = TRUE]
      ELSE IF ext.phystart - 1 = b.start /\ b.end - b.start = 1
      THEN [Released(l, k) EXCEPT !.error = ext.accessed,
                                  !.exts[r.extindex].accessed = TRUE]
      ELSE IF b.start # ext.phystart + r.extoff THEN [l EXCEPT !.error = TRUE]
      ELSE IF done.start # done.end THEN [Released(l, k) EXCEPT !.pageReqQ[k] = done]
      ELSE [Released(l, k) EXCEPT !.pageReqQ = RemoveAt(@, k),
                                  !.returned = Append(@, done)]

\* handlePageReq of LFS_M, before it dispatches.
PageReqTaken(l, p) == [NewReq(l, p) EXCEPT !.error = p.end - p.start <= 0]
============================================================================
