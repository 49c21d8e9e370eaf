---------------------------- MODULE WindowTrace ----------------------------
(***************************************************************************)
(* One request of an application as the client drives it                   *)
(* (trace/WindowBasedTrace), striped over the data servers by the layout   *)
(* of its file (layout/Layout): operators from trace to trace, one per     *)
(* method.  A window is at most MaxWindowSize bytes; the client asks every *)
(* server once per window and opens the next one when all have answered.   *)
(* The servers of a layout are numbered from 1, and a packet carries that  *)
(* number instead of the identifier the layout translates it to.           *)
(***************************************************************************)
EXTENDS Integers, Sequences, SequencesExt, Sums

CONSTANTS Files,          \* the files of the parallel file system
          Stripes,        \* Stripes[f]: the stripe size of each server of f
          MaxWindowSize   \* MAX_WINDOW_SIZE

ASSUME StripesAssumption ==
  \A f \in Files : Stripes[f] \in Seq(Nat \ {0}) /\ Stripes[f] # <<>>
ASSUME MaxWindowSizeAssumption == MaxWindowSize \in Nat \ {0}

\* The marks of a window slot; a positive slot is a size that is not sent yet.
SW_NULL     == 0
SW_RECEIVED == -1
SW_SENT     == -2

Servers(f)    == DOMAIN Stripes[f]
ServerNum(f)  == Len(Stripes[f])
\* The bytes of one round that are on the servers before i.
Before(f, i)  == Total(Stripes[f], i - 1)
WindowSize(f) == Before(f, ServerNum(f) + 1)

NewTrace(id, f, offset, totalSize, read) ==
  [ID |-> id, pfsFileID |-> f, offset |-> offset, read |-> read,
   unProcessedSize |-> totalSize, hasLayout |-> FALSE,
   dsoffsets |-> [i \in Servers(f) |-> 0],
   dataSizeInWindow |-> [i \in Servers(f) |-> SW_NULL],
   sentPktSize |-> [i \in Servers(f) |-> 0],
   offset_start_server |-> 1, offset_start_position |-> 0,
   totalSubreqsInWindow |-> 0]

-----------------------------------------------------------------------------
(* openNewWindow *)

\* The server of the k-th chunk, going round from the first one, and the most
\* the chunk can hold: the first one starts inside its stripe.
ChunkServer(f, start, k) == ((start - 1 + k - 1) % ServerNum(f)) + 1

\* Mutant of SizeInc: the first chunk starts at its stripe.
SizeIncWhole(f, start, position, k) == Stripes[f][ChunkServer(f, start, k)]

SizeInc(f, start, position, k) ==
  Stripes[f][ChunkServer(f, start, k)] - (IF k = 1 THEN position ELSE 0)

\* What the first k chunks leave of a window of n bytes: each takes what it can hold.
LeftAggSize(f, start, position, n, k) ==
  LET held == Total([j \in 1 .. n + 1 |-> SizeInc(f, start, position, j)], k)
  IN  IF held < n THEN n - held ELSE 0

\* What chunk k takes.
Chunk(f, start, position, n, k) ==
  LeftAggSize(f, start, position, n, k - 1) - LeftAggSize(f, start, position, n, k)

\* Deal a window of n bytes out to the servers, chunk by chunk.  (Chunks but the first
\* hold a byte at least.)
Dealt(f, start, position, n) ==
  [i \in Servers(f) |->
     Total([k \in 1 .. n + 1 |-> IF ChunkServer(f, start, k) = i
                                 THEN Chunk(f, start, position, n, k) ELSE 0], n + 1)]

OpenNewWindow(t) ==
  LET aggregateSize == IF t.unProcessedSize > MaxWindowSize THEN MaxWindowSize
                       ELSE t.unProcessedSize
  IN  IF t.unProcessedSize = 0 THEN t
      ELSE [t EXCEPT !.unProcessedSize = @ - aggregateSize,
                     !.dataSizeInWindow = Dealt(t.pfsFileID, t.offset_start_server,
                                                t.offset_start_position, aggregateSize),
                     \* the pointer, not the slot, is compared with 0
                     !.totalSubreqsInWindow = ServerNum(t.pfsFileID)]

-----------------------------------------------------------------------------
(* setLayout *)

\* The request starts on the first server whose part of the round reaches the
\* remainder, even if it only reaches its end.
StartServer(f, remainder) ==
  Min({i \in Servers(f) : remainder <= Before(f, i + 1)})

SetLayout(t) ==
  LET f == t.pfsFileID
      jumps == t.offset \div WindowSize(f)
      remainder == t.offset % WindowSize(f)
      start == StartServer(f, remainder)
      position == remainder - Before(f, start)
  IN  OpenNewWindow(
        [t EXCEPT
           !.hasLayout = TRUE,
           !.offset_start_server = start,
           !.offset_start_position = position,
           !.dsoffsets = [i \in Servers(f) |->
              jumps * Stripes[f][i] + (CASE i < start -> Stripes[f][i]
                                         [] i = start -> position
                                         [] OTHER -> 0)],
           !.dataSizeInWindow = [i \in Servers(f) |-> SW_NULL]])

-----------------------------------------------------------------------------
(* nextgPacket, until it returns NULL *)

Unsent(t)       == {i \in Servers(t.pfsFileID) : t.dataSizeInWindow[i] > 0}
AwaitedFrom(t)  == {i \in Servers(t.pfsFileID) : t.dataSizeInWindow[i] = SW_SENT}

\* The trace when its next packets are taken: a window that is all sent and
\* received makes place for the next one.
AtNextPackets(t) == IF Unsent(t) = {} /\ AwaitedFrom(t) = {} THEN OpenNewWindow(t)
                    ELSE t

\* What the packet for server i asks for.
RequestOf(t, i) == [server |-> i, lowoffset |-> t.dsoffsets[i],
                    size |-> t.dataSizeInWindow[i],
                    totalsubreqs |-> t.totalSubreqsInWindow]

AllSent(t) ==
  [t EXCEPT !.sentPktSize = [i \in DOMAIN @ |-> IF i \in Unsent(t)
                                                THEN t.dataSizeInWindow[i] ELSE @[i]],
            !.dataSizeInWindow = [i \in DOMAIN @ |-> IF i \in Unsent(t)
                                                     THEN SW_SENT ELSE @[i]]]

-----------------------------------------------------------------------------
(* finishedgPacket *)

\* Mutant of Received: the slot stays marked.
ReceivedUnmarked(t, i) == [t EXCEPT !.dsoffsets[i] = @ + t.sentPktSize[i]]

Received(t, i) ==
  [t EXCEPT !.dataSizeInWindow[i] = SW_RECEIVED,
            !.dsoffsets[i] = @ + t.sentPktSize[i]]

\* Mutant of Status: what is left to send is overlooked.
StatusForgetful(t) == IF \/ Unsent(t) # {} \/ AwaitedFrom(t) # {}
                         \/ t.unProcessedSize # 0
                      THEN "NEED_WAIT" ELSE "ALL_DONE"

Status(t) == IF Unsent(t) # {} \/ AwaitedFrom(t) # {} THEN "NEED_WAIT"
             ELSE IF t.unProcessedSize = 0 THEN "ALL_DONE" ELSE "MORE_TO_SEND"

-----------------------------------------------------------------------------
(* Where the bytes of a file are: what a striped layout means. *)

ServerOfByte(f, b) ==
  CHOOSE i \in Servers(f) : /\ Before(f, i) <= b % WindowSize(f)
                            /\ b % WindowSize(f) < Before(f, i + 1)

Place(f, b) ==
  LET i == ServerOfByte(f, b)
  IN  <<i, (b \div WindowSize(f)) * Stripes[f][i] + (b % WindowSize(f)) - Before(f, i)>>

PlacesOf(f, offset, size) == {Place(f, b) : b \in offset .. offset + size - 1}

\* The places a packet covers.
Covered(server, lowoffset, size) ==
  {<<server, o>> : o \in lowoffset .. lowoffset + size - 1}
=============================================================================
