--------------------------------- MODULE VFS ---------------------------------
(***************************************************************************)
(* The virtual file system of a data server (dserver/vfs): it turns the    *)
(* file requests of the daemon into requests for pages.  A write that does *)
(* not begin or end at a page boundary first reads the pages it is to      *)
(* change in part.  The daemon above has one file request out at a time    *)
(* (subreqQ of PVFS2DSD); the disk cache or local file system below        *)
(* answers the page requests it was given, in any order.                   *)
(***************************************************************************)
EXTENDS General, FIFOQueue, FiniteSets

CONSTANTS Requests,          \* the identifiers of the file requests
          Offsets, Lengths,  \* what a file request may be about
          SubIDs,            \* its SubID, which is the identifier of a trace
          PageSize,          \* page_size
          Degree             \* degree of fileReqQ

ASSUME VFSAssumption ==
  /\ Requests \subseteq Nat /\ SubIDs \subseteq Nat
  /\ Offsets \subseteq Nat /\ Lengths \subseteq Nat \ {0}
  /\ PageSize \in Nat \ {0} /\ Degree \in Nat \ {0}

VARIABLES
  fileReqQ,  \* file requests, with the page reads each still waits for
  pageReqQ,  \* page requests; osQ is what the layer below works on
  aborted,   \* an error was printed, which ends the simulation
  asked,     \* history: the file requests, in order
  done,      \* history: the page requests that came back, for each file request
  answers    \* history: how often each file request was answered

vars == <<fileReqQ, pageReqQ, aborted, asked, done, answers>>

Init == /\ fileReqQ = EmptyQueue
        /\ pageReqQ = EmptyQueue
        /\ aborted = FALSE
        /\ asked = <<>>
        /\ done = [r \in Requests |-> {}]
        /\ answers = [r \in Requests |-> 0]

-----------------------------------------------------------------------------

\* The page a byte is on, and whether a place is inside a page.
PageOf(place) == place \div PageSize
Skewed(place) == place % PageSize # 0

End(f) == f.offset + f.size

\* A request for pages; its identifier is the pair of ID and SubID.
PageReq(f, subID, read, start, end) ==
  [id |-> <<f.id, subID>>, read |-> read, start |-> start, end |-> end]

\* Mutant of ReadsForWrite: the SubID of the second read is not scaled.
ReadsForWriteUnscaled(f) ==
  (IF Skewed(f.offset)
   THEN <<PageReq(f, VFS_SUB_ID_BASE, TRUE, PageOf(f.offset), PageOf(f.offset) + 1)>>
   ELSE <<>>)
  \o
  (IF Skewed(End(f))
   THEN <<PageReq(f, 2, TRUE, PageOf(End(f)), PageOf(End(f)) + 1)>>
   ELSE <<>>)

\* The reads before a write: of its first page, of its last one, or both.
ReadsForWrite(f) ==
  (IF Skewed(f.offset)
   THEN <<PageReq(f, VFS_SUB_ID_BASE, TRUE, PageOf(f.offset), PageOf(f.offset) + 1)>>
   ELSE <<>>)
  \o
  (IF Skewed(End(f))
   THEN <<PageReq(f, 2 * VFS_SUB_ID_BASE, TRUE, PageOf(End(f)), PageOf(End(f)) + 1)>>
   ELSE <<>>)

\* Mutant of Whole: the last page is left out.
WholeRoundedDown(f) == PageReq(f, 0, f.read, PageOf(f.offset), PageOf(End(f)))

\* A read, or a write of whole pages.
Whole(f) ==
  PageReq(f, 0, f.read, PageOf(f.offset), PageOf(End(f) + PageSize - 1))

\* The write that follows the reads, in handlePageResp; its end is not rounded up.
WriteAfterReads(f) ==
  PageReq(f, f.subID, FALSE, PageOf(f.offset), PageOf(End(f)))

\* dispatchPageReqs, with dispatchNextFileReq; pageReqQ lets out up to 1000 requests,
\* more than ever wait.
DispatchPageReqs(files, pages) ==
  LET f       == Head(files.waitQ)
      reads   == IF f.read THEN <<>> ELSE ReadsForWrite(f)
      created == IF ~CanDispatch(files, Degree) THEN <<>>
                 ELSE IF reads = <<>> THEN <<Whole(f)>> ELSE reads
      waiting == pages.waitQ \o created
  IN  /\ fileReqQ' = IF ~CanDispatch(files, Degree) THEN files
                     ELSE [waitQ |-> Tail(files.waitQ),
                           osQ |-> Append(files.osQ, [f EXCEPT !.reads = Len(reads)])]
      /\ pageReqQ' = [waitQ |-> <<>>, osQ |-> pages.osQ \o waiting]

\* The daemon sends a file request.
HandleNewFileReq(r, offset, size, read, subID) ==
  LET f == [id |-> r, offset |-> offset, size |-> size, read |-> read,
            subID |-> subID, reads |-> 0]
  IN  /\ ~aborted
      /\ r \notin {asked[k].id : k \in DOMAIN asked}
      /\ fileReqQ = EmptyQueue
      /\ asked' = Append(asked, f)
      /\ DispatchPageReqs(PushedBack(fileReqQ, f), pageReqQ)
      /\ UNCHANGED <<aborted, done, answers>>

Abort == aborted' = TRUE /\ UNCHANGED <<fileReqQ, pageReqQ, answers>>

\* Mutant of AfterRead: the write does not wait for the other page.
AfterReadEager(f, pages) == PushedBack(pages, WriteAfterReads(f))

\* The page requests when a read for a write came back and f is what is left of
\* the write.
AfterRead(f, pages) ==
  IF f.reads = 0 THEN PushedBack(pages, WriteAfterReads(f)) ELSE pages

\* Page request p comes back, for the pages up to end.
HandlePageResp(p, end) ==
  LET r     == p.id[1]
      subID == p.id[2]
      key   == <<r, PageSubID(subID)>>
      pages == Popped(pageReqQ, key)
      k     == Position(fileReqQ, r)
      f     == [fileReqQ.osQ[k] EXCEPT !.reads = @ - 1]
  IN  /\ ~aborted
      /\ p \in ToSet(pageReqQ.osQ)
      /\ done' = [done EXCEPT ![r] = @ \cup {[p EXCEPT !.end = end]}]
      /\ \/ /\ ~IsOutstanding(pageReqQ, key)
            /\ Abort
         \/ \* the digit of a read for a write is set
            /\ IsOutstanding(pageReqQ, key)
            /\ (subID \div VFS_SUB_ID_BASE) % 10 # 0
            /\ DispatchPageReqs([fileReqQ EXCEPT !.osQ[k] = f], AfterRead(f, pages))
            /\ UNCHANGED <<aborted, answers>>
         \/ /\ IsOutstanding(pageReqQ, key)
            /\ (subID \div VFS_SUB_ID_BASE) % 10 = 0
            /\ answers' = [answers EXCEPT ![r] = @ + 1]
            /\ DispatchPageReqs(Popped(fileReqQ, r), pages)
            /\ UNCHANGED aborted
      /\ UNCHANGED asked

Next ==
  \/ \E r \in Requests, o \in Offsets, s \in Lengths, read \in BOOLEAN, subID \in SubIDs :
       HandleNewFileReq(r, o, s, read, subID)
  \/ \E p \in ToSet(pageReqQ.osQ) : HandlePageResp(p, p.end)

Spec == Init /\ [][Next]_vars

-----------------------------------------------------------------------------

Pages(p) == p.start .. p.end - 1

\* The pages a request is about, and those it is about in part.
Touched(f) == {PageOf(b) : b \in f.offset .. End(f) - 1}
Partial(f) == {n \in Touched(f) : ~((n * PageSize) .. ((n + 1) * PageSize - 1)
                                     \subseteq f.offset .. End(f) - 1)}

TypeOK ==
  /\ aborted \in BOOLEAN
  /\ answers \in [Requests -> 0 .. 1]
  /\ \A f \in ToSet(fileReqQ.osQ) : f.reads \in -1 .. 2

\* A page that a write changes in part was read before the write goes down, whatever
\* the order in which the reads come back: otherwise the rest of it would be lost.
ReadsBeforeWrites ==
  \A k \in DOMAIN asked : ~asked[k].read =>
    LET f    == asked[k]
        read == UNION {Pages(p) : p \in {q \in done[f.id] : q.read}}
    IN  \A p \in ToSet(pageReqQ.osQ) \cup done[f.id] :
          p.id[1] = f.id /\ ~p.read => Partial(f) \subseteq read

\* A write of partial pages whose SubID, used for the final page request, has
\* another meaning: it cannot be told from a read for a write, or is not found.
Mistaken(f) == ~f.read /\ ReadsForWrite(f) # <<>> /\ f.subID % 100 # 0

\* "Must see the return" (handlePageResp): the request that came back is found.
SeesTheReturn == ~aborted
==============================================================================
