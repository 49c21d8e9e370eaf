# Verification of PFSsim

PFSsim simulates a parallel file system on OMNeT++. This directory holds TLA+
models of its core, the TLC configurations that check them on small instances,
and proofs about the schedulers SFQ, its distributed variants, FIFO and EDF, the
proxy, the client with its striping, the daemon of a data server, and the solid state
device that comes with DiskSim. Paths below are relative to `src/omnetpp/` unless
they begin with `disksim/`; `PROJECT.json` names, for every definition, the lines
it stands for.

## 1. The system

One OMNeT++ process simulates all of it. The event loop is single-threaded and
runs one handler (`handleMessage`) at a time to its end; what is concurrent is
the *order* of events: packets between modules, and messages a module schedules
to itself. Most of the code's state outlives a handler and is picked up again
when a message with the right identifier comes back, and nearly everything that
can go wrong is of that kind: an answer that finds the wrong record or none, a
request no handler will look at again, two processing times that change an order.
`PrintError::print` throws with nothing to catch it: an error ends the simulation.

### Components

| component | state it keeps | operations | what makes it correct |
|---|---|---|---|
| Application (`client/application`) | `active`, the shared `activeApplications`, one open request per flow (trace file) | initialize, handleFinishedTrace, readOneTrace | the simulation ends when all files are at their end, says the code; it ends at the first end of each application |
| PFSClient, PVFS2ClientStrategy | open traces, known layouts, `appRequestQ`, `requestID` | new trace, layout answer, write answer, read data, last packet | each byte of a request is transferred once and nothing else, it is answered once; identifiers of open exchanges differ |
| WindowBasedTrace, Layout | window, per-server sizes, offsets and marks | open window, next packet, finished packet | the packets of all windows cover the request's places exactly, which needs windows of whole rounds |
| MetadataServer | file layouts, a processing time | layout query | answers each query |
| Router (Routing, Queue) | one output queue per port | forward, copy PROP_SCH packets, end of transmission | order per port; nothing lost |
| Proxy | the scheduler, `osReqNum`, timers | new request, minor packets, end of an exchange, PROP_SCH, algorithm timer | requests at the server = places of the scheduler; no idle server while a request waits |
| IQueue: FIFO, EDF | `waitQ`, `osQ` | push, dispatchNext, popOsQ, queryJob | arrival order, or deadline order with arrival order among equals |
| SFQ | per-application queues with tags, `maxftags`, `vtime`, `startpos` | the same | weighted fairness; virtual time never goes back; no starvation |
| DSFQ, DSFQA, DSFQALB, DSFQATB, DSFQD, DSFQF | SFQ and a pending PROP_SCH packet | the same, receive and propagate | tags account for all work heard of, once |
| SFQRC | a basic class and an overflow queue per application, buffers, tags, the predicted end of the server's work | the same | the basic class stays within its profiles; an overflow request costs no promised deadline |
| DTA | per server a queue by deadline and one of lagged sub-requests, records of whole requests | the same | a sub-request waits in two queues and is dispatched once |
| I2L, on AVATAR and SARC | tokens and held requests per application, EDF queue, window, threshold, spareness | the same, replenish, timer | nothing is held past its token or window |
| DSD_M, PVFS2DSD | `reqQ`, `subreqQ` (one out at a time), `infoMap`, timers | request, write data, file answer, timer | a read comes back byte for byte; a write finishes once, after all its data |
| VFS | `fileReqQ`, `pageReqQ` | file request, page answer | partly written pages are read first; answers come when pages are done |
| DiskCache | page lists, dirty, locked and written-back ranges, two timers | page request, cache and disk answers, expiry | a page is never clean with data not on disk; counts match pages |
| LFS_M, EXT3 | page requests, extents, outstanding counts | page request, block answer | block requests of a page request cover it; bounded per degree |
| Disk | one queue, position | block request, block answer | one request at a time |
| solid state device (`disksim/ssd/ssd.c`) | the channel and its activity, the request queue, completions, elements with queues and cleaning, pieces left per request | request arrives, bus event, access complete, clean complete | one request owns the channel; each request is completed once, after all its pieces |

### How they interact

Application -> PFSClient -> (MetadataServer for the layout) -> Router -> Proxy ->
DSD_M -> VFS -> DiskCache or LFS_M -> Disk, and back. A read is one request
(`PFS_R_REQ`) and packets of data, the last marked `PFS_R_DATA_LAST`. A write is a
request (`PFS_W_REQ`), a grant (`PFS_W_RESP`), data packets, the last marked, and
`PFS_W_FIN`. Proxies propagate `PROP_SCH` packets to one another through the
router. All parts tell exchanges apart by the packet identifier rounded down to
a multiple of `RID_OFFSET`.

The solid state device stands apart: DiskSim drives it through its bus, one event at a
time, and the controller above it answers. `dserver/disk/Disk.cc` names DiskSim in a
comment but opens no connection to it.

### What is hard

The hazards listed in `PROJECT.json`, at their lines. In short: answers matched by
rounded identifiers; identifiers that restart; tags rewritten at dispatch while other
schedulers add to them; queues dispatched at one place and filled at another; packets
of an exchange that wait for different processing times; one count shared by all
applications; windows and stripes whose boundaries do not meet; a channel handed from
request to request by five handlers.

## 2. Modules

| module | models | uses |
|---|---|---|
| `JobQueue` | what IQueue promises (abstract): a job waits, is handed out if there is room, is popped; whatever waits is handed out | |
| `SFQQueue` | SFQ's state and methods as operators, one definition per method | |
| `SFQ` | one SFQ scheduler driven by its proxy; implements the safety part of `JobQueue` | SFQQueue, JobQueue |
| `SFQFair` | SFQ with a history variable for weighted service; the fairness bound and its inductive invariant | SFQ |
| `SFQEndless` | SFQ seen from its virtual time, each handler followed by a move of the origin to it: finitely many states, no bound on what is sent; implements `JobQueue` with its liveness | SFQ |
| `DSFQ` | several proxies with any of the five distributed variants, their PROP_SCH packets and timers | SFQQueue, Sums |
| `Sums` | sums over the places of a list, written so that they can be reasoned about; not code | |
| `FIFOQueue`, `EDFQueue` | the two lists and their operations | |
| `SFQRC`, `DTA`, `I2L` | the state and methods of these schedulers, as operators | EDFQueue |
| `Proxy` | the proxy with FIFO, EDF, SFQRC, DTA or I2L, both ends of each exchange, both processing times, a clock | all of these |
| `WindowTrace` | windows and striping, as functions on a trace | Sums |
| `StripedIO` | what an application may expect of a file system (abstract) | |
| `PVFS2Client` | the client, metadata server and data servers as it sees them; implements `StripedIO` | WindowTrace, FIFOQueue, StripedIO |
| `Application` | all applications and the end of the simulation | |
| `PVFS2DSD` | DSD_M with PVFS2DSD, the client and file system as it sees them | FIFOQueue |
| `General` | SubIDs of page and block requests | |
| `VFS` | the virtual file system, the layer below as it sees it | FIFOQueue, General |
| `DiskCache` | the disk cache with one file and no read-ahead, as operators on its state | |
| `LocalFS` | LFS_M with EXT3 and ILFS, as operators on their state | FIFOQueue, General |
| `Storage` | the virtual file system over the local file system over the disk, or over the disk cache | VFS, LocalFS, DiskCache |
| `BlockDevice` | what a controller may expect of a device (abstract): one completion per request, data moved before it | |
| `SSD` | DiskSim's solid state device with its controller; implements `BlockDevice` | BlockDevice |
| `SFQQueueLemmas`, `ListLemmas` | lemmas: what SFQ's methods do to its fields; what inserting into, removing from, joining, splitting and flattening lists do to their elements, and to their sums | |
| `SFQProofs` | the proofs about SFQ | SFQFair, SFQEndless, lemmas |
| `DSFQProofs` | the proofs about the distributed variants | DSFQ, lemmas |
| `ProxyProofs` | the proofs about the proxy under FIFO and EDF | Proxy, lemmas |
| `PVFS2ClientProofs` | the proofs about striping, windows and the client: it implements `StripedIO` | PVFS2Client, lemmas |
| `PVFS2DSDProofs` | the proofs about the daemon of a data server | PVFS2DSD, lemmas |
| `SSDProofs` | the proofs about the solid state device: its channel, its elements and requests, and that it implements `BlockDevice` | SSD, lemmas |
| `MC...` | values of the constants | |

Correspondence. Variables keep the code's names (`waitQ`, `osQ`, `vtime`,
`maxftags`, `infoMap`, `requestID`, ...). An action is a branch of a
`handleMessage`, with every call it makes: `scheduleJobs` after a push, the
dispatch of the next sub-request after an answer, the propagation of a PROP_SCH
packet after a dispatch. Messages in flight are sets or per-channel sequences;
where the code keeps an order (packets of one exchange over one channel, equal
delays) the model keeps it, and elsewhere any order is possible. A handler that
prints an error leads to `aborted`, in which nothing more happens.
`Configurations` in `Proxy`, `PVFS2Client`, `PVFS2DSD` and `SSD` is a set of parameter
settings; the initial state picks one, as `initialize` reads omnetpp.ini, and it
never changes. Operators marked as mutants are faulty variants used to show that
a property can fail; no action uses them.

The disk cache in `Storage`. A state of `DiskCache` is a record: the ranges in the
order of the LRU list, the counts of free and dirty pages, `reqQ` and the one cache
access that may be out. Each handler is one operator (`HandleCacheReq`,
`HandleCacheAccessResp`, `HandleDiskAccessResp`, `HandleDirtyPageExpiration`) with
everything it calls: the walk that splits ranges and sets flags (`Walked`, with `Miss`
and `Hit`), the freeing of pages, the trimming, and `accessCache` for all requests that
are not pending. `Storage` sends it the page requests of VFS, and answers its disk
accesses in any order. The history `unsaved` holds the pages whose newest contents are
in the cache only. With the background write out disabled (`dirty_expire_centisecs = -1`,
as configured) a page is dirty until it is saved (`DirtyUntilSaved`) and locked and
counted while an access needs it (`PinnedWhileUsed`). With it enabled both fail: a page
that is written again while the background writes it out is marked clean when that
ends. The properties say so by excepting `cache.expires`.

Where a walk or a handler follows a pointer to a range that was freed (`pr_last`, the
range after a gap, the range of the background write out) the outcome is undefined: in
the first two the model stops in `failed`, in the last it goes on or stops.

The schedulers in `Proxy`. `queue` is the state of the configured one; `PushWaitQ`,
`DispatchNext` and `PopOsQ` choose the operator of its module, and `ScheduleJobs` repeats
dispatchNext until it returns nothing, as for every scheduler. What a method leaves to
values the models do not have is a choice among outcomes:

* SFQRC's `maxftags` is never initialised: its first value is any of a small set. Tags are
  whole multiples of a unit and rates divide sizes, so that the one quotient that is rounded
  is the one the code passes through an int.
* DTA decides from averages of service times whether a sub-request is near its deadline;
  each such choice is left open. Its counters do not reach the width of an int.
* I2L computes the threshold of the server's queue from the response times of a window,
  which it collects in an array whose index is not checked and counts that are not
  initialised for the first one: the threshold after a window is any of a small set.

`Proxy` has a clock, `now`, which goes up to the configuration's horizon and which SFQRC
and I2L read; FIFO, EDF and DTA are checked without it, their times being those of the
requests.

The device in `SSD`. `chan` holds the fields of `struct ssd` that concern the channel:
the request in possession (`activity`), the events on the bus, the queue of new
requests, the requests outstanding and those completed but not reported. Each handler
(`ssd_request_arrive`, `ssd_bus_ownership_grant`, `ssd_bus_delay_complete`, the four
answers of the controller, `ssd_access_complete_element`, `ssd_clean_element_complete`)
is one action with everything it calls, the hand-over of the channel
(`ssd_check_channel_activity`) included. An element collects the pages that wait for it
into reads or writes it starts together, throws away writes of a page that is written
again later in the queue, and cleans in between if it may.

Abstractions. Times are only compared, so they are small naturals (EDF) or the order
of events. Payloads, text output and statistics are left out. Bytes are places
`<<server, offset>>`. SFQ's tags are `size / weight` in floating point; the model
takes the charge of a packet as an integer `Rate[a] * size`, exact for weights that
are fractions, so rounding is not examined. Requests have positive size.

## 3. Runs

| run | question | bounds |
|---|---|---|
| `SFQ` | the invariant `IInv` (of which `TagWindow` is a part), `FairShare`, `ImplementsJobQueue` with its liveness: no application is starved; all of `SFQEndless` with the history of `SFQFair` | 2 applications of rates 1 and 2, sizes 1 and 2, 3 jobs at a time and requests without end, degree 2 |
| `DSFQ` | conservation (`TagsAccountForWork`), `FrontsNotBehind`, `VtimeMonotone`, `BoundedStaleness` for DSFQA, ALB, ATB, D, F | 2 proxies, 2 applications, 3 requests per proxy, degree 1, threshold 2 |
| `Client` | `TransfersExactly` (implements `StripedIO`), `IdsTellExchangesApart`, `WindowMatchesPackets`, `AnswersAll` | one request of 6 offsets and 6 lengths over stripes <2,1>, <1,2,3>, <2> and windows of 6; one of one window over stripes <2,3>; two one after the other; two at once in one or two windows; three requests of two flows; 6 identifiers before the counter restarts, and more exchanges than that, with one flow and with two |
| `ClientSameFile` | violation: `StartsAllTraces` | two requests on one file |
| `ClientOddRound` | violation: `MovesNothingUnwanted` | one request of two windows of 6 over stripes <2,3> |
| `AppTwoFlows` | violation: `EndsAtEOF` | 2 applications of two trace files, 1 or 2 requests each |
| `Proxy` | for every scheduler: `SlotsMatchServer`, `WorkConserving`, `ForwardedInOrder`, `Answered`; `WaitInOrder` for every queue kept by deadline or arrival, `LiveEntries` for DTA, `BasicWithinProfile` and `OverflowKeepsDeadlines` for SFQRC, `NothingOverdue` for I2L | EDF with 3 exchanges and 2 issue times, without and with both processing times; FIFO with identifiers used twice, and with two places; DTA with a request of three sub-requests and one of two at two of the same servers; SFQRC with 2 requests of each of 2 applications, one class of them larger than its buffer; I2L with 3 requests, a token in two units of time and windows of three |
| `DSD` | `ReadsReturnedExactly`, `WritesFinishedExactly`, `RecordsMatchQueues`, `AbortOnlyOnOverflow`, `AnswersAll` | 3 interleaved exchanges of up to 9 bytes in sub-requests of 4 and packets of 3; 6 sub-requests with 3 identifiers (wrap); all three processing times; degree 1 |
| `DSDSmallWrite` | violation: `WriteRequestsAnswered` | one exchange, no processing times |
| `SSD` | `ChannelExclusive`, `MediaExclusive`, `CountsPieces`, `AbortsOnlyOnThrown`, `ImplementsBlockDevice` (with its liveness) | 3 requests of up to 2 pages on 2 elements: a read behind a write on one and behind cleaning on both, in the foreground and the background; two writes of one page collected together behind a read; disconnecting from the bus or never |
| `Storage` | `ReadsBeforeWrites`, `AnsweredWhenDone`, `MovesItsBlocks`, `CountsExact`, `DirtyUntilSaved`, `PinnedWhileUsed`, `FailsOnlyIf`, `AnswersFileReqs` | 2 file requests, 3 offsets and 2 lengths around pages of 4 bytes and 2 blocks, SubIDs 1, 10 and 100; with O_DIRECT: degrees 1 and 2, extents that end inside pages, new ones of 2 blocks, the end of the disk; without: a cache of 3 pages for a file of 4, so that some are freed, 2 dirty ones at most, so that writes write out first, reads of the disk and write outs of up to 2 pages, trimming at every fourth walk, the write out in the background enabled or not |
| `VFSPartialWrite` | violation: `SeesTheReturn` | one file request |

`DSFQ` is the largest (1.4 million distinct states, about a minute); `Proxy`, `Client`
and `DSD` have 80,000 to 180,000. `TagsAccountForWork`, `WindowMatchesPackets`,
`RecordsMatchQueues`, `SlotsMatchServer`, `CountsExact` and `CountsPieces` include the
type invariant of their module.

Why the bounds are enough: two applications or proxies suffice for every pairwise
property; three jobs let one be outstanding while two of one queue wait, which is
when tags are rewritten; degree 1 and 2 have full and free places; sizes lie on both
sides of each limit and on it; the counters restart within a run. Requests about the
same place, packets of one exchange in different stages, and queues that drain and
fill again all occur. What is sent to the scheduler of `SFQ` has no bound, so that an
application could be passed over for ever: tags are seen from the virtual time, and its
states are finitely many. (Packets cost something. With packets of cost 0 one application
could keep its front tag for ever and starve the others.) In the other runs `rounds`,
`requests` and `Ids` bound how much is asked, and deadlock is not checked, since every run
may stop there; that nothing stops too early is what the liveness properties say.

### Disagreements shown

* `ClientSameFile`: `generateDataPacketRequests` says it loops over all traces waiting
  for a file; it returns at the first one, even if that has nothing to send. The
  second trace starts only when the first one's last packet happens to reach the loop,
  and if the first finishes it is never started.
* `ClientOddRound`: the comment on the transmission has everything before the offset and
  behind the total size of a request as unwanted. When a window is no number of whole rounds
  of the file's stripes, the windows after the first begin at the wrong place, and servers
  transfer places that are not the request's (and leave out some that are). The window is 10
  MB: 20 rounds of the sample layout of 8 servers with stripes of 64 KB, but 53.3 of one of
  3 servers.
* `AppTwoFlows`: "If all the input files meet EOF, end the simulation", but an application is
  taken for inactive when the first of its trace files ends (`omnetpp.ini` gives it two), so
  that the simulation ends with requests unread and open. With one file per application,
  and none of them empty, it ends when all are at their end.
* `DSDSmallWrite`: a write below `small_io_size_threshold` with no processing time is
  written but neither granted nor finished; client and proxy wait for ever.
* `VFSPartialWrite`: a write that does not fill its pages, for any trace whose number
  is no multiple of 10, aborts the simulation (and one whose number is a multiple of
  10 but not of 100 is never answered).

Also met, kept in the models as they are in the code, and excepted by name in properties
or left to the configurations that are checked: a trace file without requests ends its
application at once, and the simulation if the others are still to be initialised; after a full round of the counter the client gives identifiers of
another request's open exchange again (`IdsTellExchangesApart`); an
overflow request of SFQRC that would cost a deadline is denied even at an idle server,
and nothing asks again until the next push or pop (`SFQRC.cc:484`): with deadlines
tighter than the configuration of the run it waits for ever; getServiceTime remembers
the file of a request that is then not dispatched (`SFQRC.cc:490`), so that
`OverflowKeepsDeadlines` allows one seek of slack; the assertion of
`ssd_complete_parent` that the parent does not possess the channel fails when a repeated
write that was thrown away completes the request that is still sending its data
(`AbortsOnlyOnThrown`); a read that waits for `read_metadata_proc_time` is dropped
(`PVFS2DSD!HandleSelfMessage`); a new request beyond `reqQ`'s degree is never dispatched
there, and its answer aborts (`AbortOnlyOnOverflow`); read data that waits for
`newjob_proc_time` at a proxy can be overtaken by its last packet (`ForwardedInOrder`);
a write after partial reads leaves out its last page (`AnsweredWhenDone`); a read of
pages that the cache holds in part, or in ranges with different flags, comes back short
(`AnsweredWhenDone`); `dirty_pages` does not count the clean pages a write makes dirty,
so that it falls behind; a write within one page ends in an empty page request, which
the local file system takes for an error (`FailsOnlyIf`); SFQ with a negative degree
hands out nothing; `new_ext_gap` is documented as the gap between extents (`EXT3.h:43`) but
is added to the beginning of the one before: with the repository's 64 and a size of 1024 the
extents of a file that grows lie on top of one another, metadata included (`Allocated`; in
`Storage` the gap is above the size); the number of sub-requests of a window counts all servers.

### Fairness

OMNeT++ delivers every scheduled event before time moves on, and a handler runs to its
end. So packets in flight and timers are weakly fair: `FairSpec` asks for weak fairness
of the delivery of packets and timers (`Proxy`, `PVFS2Client`, `PVFS2DSD`), of the
disk's answers and the cache's timers (`Storage`), of the events of the bus and the
elements (`SSD`, one weak fairness for both: DiskSim takes the next event from one
queue), of the pops of `SFQEndless`, and of the loop that calls dispatchNext until it
returns NULL. Clients and applications are never obliged to ask for
anything. In
`Proxy` and `PVFS2Client` the weak fairness of events is written out, `[]<>~EventPending
\/ []<><<Event>>_vars`, with the condition under which an event can happen in place of
ENABLED, which saves TLC the enumeration; `Proxy`'s clock is weakly fair as well.
`JobQueue` asks strong fairness of each application's hand out, which `SFQEndless` is shown
to provide from weak fairness; no detailed module assumes any. The fairness of `SFQEndless`
is that of SFQ: what can be dispatched or popped is the same after the origin is moved
(`SFQProofs!RebasedGuards`), which also is why its steps are SFQ's (`SFQImplementsEndless`);
that the fair behaviours of the one are those of the other is an argument here, since
ENABLED is out of the prover's reach.

## 4. Proofs

TLAPS checks all of them, for every value of the constants.

| theorem | says |
|---|---|
| `SFQProofs!SFQInvariant` | `IInv` always holds |
| `SFQProofs!SFQFairShare` | while two applications are both backlogged, their weighted service differs by at most `2 * MaxCharge` |
| `SFQProofs!SFQTagWindow` | the front of every backlogged queue starts at or after `vtime` and at most `MaxCharge` after it |
| `SFQProofs!SFQVtimeMonotone` | `vtime` never goes back |
| `SFQProofs!SFQImplementsJobQueue` | SFQ implements the safety part of `JobQueue` |
| `SFQProofs!SFQImplementsEndless` | seen from its virtual time, SFQ takes the steps of `SFQEndless`: only distances of tags matter |
| `DSFQProofs!DSFQInvariant` | between two handlers every proxy's node is at rest (`DInv`) |
| `DSFQProofs!DSFQFrontsNotBehind` | no delay that others insert pulls a front below `vtime` |
| `DSFQProofs!DSFQBoundedStaleness` | no handler ends with more unpropagated work than its variant may keep |
| `DSFQProofs!DSFQVtimeMonotone` | no proxy's `vtime` goes back |
| `DSFQProofs!DSFQTagsAccountForWork` | the tags of every scheduler account for its own arrivals and for exactly the work of the others that has reached it |
| `ProxyProofs!ProxySlotsMatchServer` | under FIFO and EDF the places of the scheduler and the proxy's count are the requests at the servers, never more than the degree |
| `ProxyProofs!ProxyWorkConserving` | under FIFO and EDF no handler ends with a request waiting that there is room for |
| `ProxyProofs!ProxyWaitInOrder` | under FIFO and EDF requests wait by deadline, and by arrival among equals |
| `ProxyProofs!ProxyForwardsInOrder` | under FIFO and EDF the packets of an exchange pass in the order its ends sent them, each once (`OneUse`: unless `newjob_proc_time` holds read data of an identifier that is used again for a write) |
| `ProxyProofs!EDFInsertsInPlace` | pushWaitQ puts a job between those due no later and those due later |
| `PVFS2ClientProofs!ClientInvariant` | windows, packets, layouts, requests and `appRequestQ` agree (`ClientInv`) |
| `PVFS2ClientProofs!WindowMatchesPacketsAlways` | with any number of requests open, a slot waits for an answer exactly while a packet of its exchange is on its way, and no packet meets a client that cannot place it |
| `PVFS2ClientProofs!ClientTransfersExactly` | if every request fits one window, or windows are whole rounds of its file (`WholeRounds`), the client implements `StripedIO`: each place of a request is transferred exactly once, then it is answered once |
| `PVFS2ClientProofs!IdentifiersTellApart` | identifiers tell the exchanges of one request apart, with any number of requests open, and all exchanges with one request open at a time (`IdsTellExchangesApart`) |
| `PVFS2DSDProofs!DaemonInvariant` | what the daemon keeps of each exchange, its timers, queues and records agree (`Inv`) |
| `PVFS2DSDProofs!DaemonRecordsMatchQueues` | there is a record for each request held and for no other, and one sub-request for each |
| `PVFS2DSDProofs!DaemonAbortOnlyOnOverflow` | the daemon stops with an error only when more requests arrived than `reqQ` lets out |
| `PVFS2DSDProofs!DaemonReadsReturnedExactly` | a read comes back in order, without gap or overlap, and only its last packet says so |
| `PVFS2DSDProofs!DaemonWritesFinishedExactly` | a write is granted once, written in order, each packet once, and finished once, when all of it is written |
| `SSDProofs!SSDInvariant`, `SSDTypeOK` | the inductive invariant of the device, and its types |
| `SSDProofs!SSDChannelExclusive` | exactly the request that possesses the channel has an event on the bus, and it has one; a device that disconnects owns the bus only while a request possesses the channel |
| `SSDProofs!SSDActivityAsserted` | `ssd_assert_current_activity` never fails, in any function that calls it |
| `SSDProofs!SSDFullInvariant` | each element holds its own pages, once each; the counts are of the pages held; every request is in one phase, on which the bus, the queues, its count and its steps agree |
| `SSDProofs!SSDMediaExclusive` | an element is busy exactly while it cleans or serves, never both, and looks into its queue after either |
| `SSDProofs!SSDCountsPieces` | `tempint2` is the number of pages the elements hold, and the completion queue has each served request once |
| `SSDProofs!SSDAbortsOnlyOnThrown` | the outstanding check never fails, and the assertion of `ssd_complete_parent` only where two writes share a block |
| `SSDProofs!SSDImplementsPromise` | the device implements the safety part of `BlockDevice` |

Assumptions. SFQ: `NumApps` is a positive natural, `Degree` an integer, and
`ChargeAssumption` (charges are integers from 0 to `MaxCharge`). DSFQ: in addition
`Degree`, sizes and rates are naturals, the threshold is positive and there are finitely
many proxies. SSD: `SSDAssumption`
(requests have pages, whose numbers differ, as ssd_media_access_request advances `blkno`
by the size of each piece; there are elements; `NONE` is no request). Proxy: `ProxyAssumption`
(finitely many exchanges; each has an application, whose delay is a natural, and is read,
written or both; issue times are naturals; an exchange has fewer packets than
`RID_OFFSET`). `ProxyForwardsInOrder` names a hypothesis of its own, `OneUse`: where
`newjob_proc_time` is not 0 and identifiers are used again, an exchange is always a read or
always a write. Without it the theorem is false: read data that was overtaken by its last
packet waits on when its identifier is used again for a write, and passes among the packets
of the write. The code neither forbids nor expects it. Client:
`StripesAssumption`, `MaxWindowSizeAssumption` and `PVFS2ClientAssumption` (files have
servers, stripes, windows, requests and packets at least a byte), and three hypotheses that
its theorems name. `RoomForRequests`: the application has no more flows than
`appRequestQ` lets requests out; the code sets that degree to 100 and does not compare. A
request beyond it would be sent to the servers nevertheless, and its answer ends the
simulation. `WholeRounds`, for `ClientTransfersExactly` only: a request that needs a second
window has windows of whole rounds of its file. The code does not check it either:
`openNewWindow` starts every window where the first one starts in its round, which is right
only then; without it the theorem is false (run `ClientOddRound`). `RoomForIds`, for
`IdentifiersTellApart`: a file has no more servers than there are identifiers before the
counter restarts, and the data packets of a window fit between two identifiers. The code
does not check it. With its constants there are 998 identifiers with room for 1000 packets
each; a window has up to 10 MB, 640 packets of the 16 KB that `ini/pfs.ini` configures, and
`omnetpp.ini` has 8 servers. Every configuration of the run `Client` satisfies all three. Daemon: `PVFS2DSDAssumption`,
and `RoomForPackets`, which says of the configuration a behaviour starts with that a request
has fewer packets than `RID_OFFSET`. The code does not check it: the client numbers the data
packets of a write from the identifier of the request on, so that a write of 1000 packets or
more runs into the identifiers of the next exchange. Every configuration of the run `DSD`
satisfies it.

**SFQ.** `FairShare` is not inductive: a dispatch adds a packet's cost to the
lead, and nothing in the lead says that the application was behind. `IInv` says
where the lead comes from: it equals the distance of the two front tags up to a
constant that was fixed when both became backlogged (`LeadMatchesTags`), and front
tags lie within one packet's cost of the virtual time (`TagWindow`), so that leads
stay within two. `TagWindow` in turn needs that a dispatched job has the smallest
front tag (it becomes `vtime`), that the next job of its queue starts where the
dispatched one ended (`TagChain`, `OwnCharge`), and that an application that was idle
comes back within the window (`LastFinish`: its last finish tag is not further ahead
than one packet). `PushEffect`, `DispatchEffect` and `PopEffect` say what each method
does to the tags; `InitInv`, `PushInv`, `DispatchInv` and `QuietInv` (for popOsQ and
stuttering) are the induction, `StepInv` puts them together.

**SFQ as a queue.** Of a scheduler only identifiers are visible to `JobQueue`: the lists
that wait and the set outstanding. The tags drop out once it is known that retagging
leaves packets alone (`DispatchVisible`). Two facts are needed of lists against sets:
identifiers that are held differ (`IdsApart`, kept by each method), so that a pop
removes an identifier from the set; and the set has no more members than `osQ` has jobs,
so that the room SFQ sees is room in the abstract queue.

**SFQ without end.** `SFQImplementsEndless` maps a state of SFQ to what is seen of it from
its virtual time: the tags that wait minus `vtime`, last finish tags cut off at 0, none of
the outstanding jobs'. Guards agree (`RebasedGuards`: a front is the smallest before the
move if and only if it is after it), and so do the methods (`PushRebased`,
`DispatchRebased`, `PopRebased`): an application that is idle is given the larger of its last
finish tag and `vtime`, of which nothing is lost by the cut. The lists are moved twice, by
the `vtime` before and by that of the step, which is once by their sum (`MovedTwice`).

**Distributed SFQ.** `DInv` says of a node between two handlers that finish tags are not
before start tags, fronts are not before `vtime`, and the pending lengths are within the
variant's bound (`Resting`). A handler is a push, a pop or a receipt, a propagation, and
`scheduleJobs`, whose loop is a recursive function. `ScheduleJobsKeeps` says that the
loop preserves what each turn preserves; as induction over an operator is out of the
prover's reach, it takes the least turn at which the function would be undefined, or
outside the set that is preserved, from the well-foundedness of the naturals
(`LeastNat`). `OneMoreKeeps` and `ReceivedSound` are the substance: a dispatch takes the
smallest front, the next job of its queue starts at or after it, and receipts only move
tags up.

**Conservation.** `CInv` adds to `DInv` the equation of `TagsAccountForWork` and that a
proxy has no packet to itself. The left side of the equation is where the tags of a queue
end (`EndOf`): the front's start tag and what the jobs last together (`Span`). A push moves
it for its own application (`PushEndTag`, which `own` records), a dispatch moves it for
none, although it rewrites tags, since a retagged job lasts as long as before
(`SpanOfNext`), and a receipt moves it by the charge, whether the first job is delayed, the
last one prolonged or the queue has drained (`ReceivedEndTag`). On the right, what a node
has counted is pending, in a packet of the running handler, or on a channel: `Sent` is
kept by a propagation and grows by what is counted. Under DSFQD it grows in the loop of
`scheduleJobs`, as much as what is outstanding does: `Balance` is the difference, which
every turn keeps. So a handler changes what its proxy counted by what it sends
(`Accounted`), no other proxy has heard more than before, and its own tags move as `own`
says (`FinishAccounts`); a receipt moves one packet from a channel to the tags
(`InterSchedulerAccounts`). Sums are those of `Sums!Total`, a recursive function: that it
is well defined (`PartialSumsDef`), and what a shift, a change of one term, a tail or a
concatenation does to it (`TotalShift` and its corollaries), come from `LeastNat` again.
The sum over proxies is one over a list that names each once (`OrderNamesAll`).

**The proxy.** `SlotsMatchServer` speaks of requests at the servers and of the list of
the scheduler; what ties them is all that is in between. `Books` says of each exchange
that is asked for that exactly one thing brings it on: its request, as a self message or
in `waitQ`, or, once that is at the server, the one packet -- with an end or as a self
message -- that makes the other end answer or ends the exchange (`MovingKinds`); that
its request is in `osQ` exactly when the second is the case; and that nothing is left of
an exchange that is over. So the packet that ends an exchange finds a record
(`FinBooks`), it is its own, since identifiers of exchanges are apart (`RidFacts`), and
a client that asks again meets nothing of the exchange before. The counts are
cardinalities of sets of places (`CountIn`, in `ListLemmas`). A handler is taken apart
into what it does to the books: a client asks (`AskedBooks`), an end sends (`TakenBooks`),
a packet passes (`MinorBooks`), a request joins or goes (`JoinedBooks`, `DispatchBooks`),
a place is freed (`FinBooks`); one that does not wait is one that gets its own message
back at once. The loop of `scheduleJobs` (`ScheduleJobsKeeps`) is treated as that of the
distributed variants, from `LeastNat`; that it ends with nothing more to dispatch needs
that no more requests wait than there are exchanges (`FewWait`), which the books give.
`InOrder` is kept since the place that pushWaitQ finds is the first later deadline
(`EDFInsertsInPlace`), and since no request that waits has the identifier of one that
arrives, so that its arrival is the last.

`ForwardedInOrder` relates what has passed to what was sent, and everything that is between
the two may be reordered: self messages fire in any order that their delays allow, and two
delays are at work. `Flow` says where the packets of an exchange are: those that passed are
the first n of it, those that wait as self messages are the next ones, in order, and those
that an end has still to send are the ones after that (`Nth` numbers the packets of an
exchange, `Made` says how many of them the ends have made when n have passed). At most one
end has anything to send, as the other waits for the first one's last packet. A message is
handled when nothing of the same delay is in front of it, and what waits of an exchange has
one delay, but for the last packet of a read or write (`WaitingKinds`), which is sent only
when everything else of the exchange has come (`NothingAhead`), unless data of a read waits
for `newjob_proc_time`. So what is handled is the next packet (`FirstIsNext`), and a packet
that need not wait finds nothing waiting (`ClientSends`, `ServerSends`, `Sendable`). What an
end answers is the rest of the exchange up to where the other takes over (`FlowPassed`). A
request that waits still says what its client asked (`AsAsked`), so that the exchange does
not change from a read to a write on its way.

**The client.** `WindowMatchesPackets` is about slots and packets; that no handler fails is
about the list of traces, `appRequestQ` and layouts as well. `ClientInv` says how they
hang together. Every packet belongs to a slot that waits for it (`Placed`); the packets of
a slot that waits are one whose turn it is, and data that goes before it (`Answering`,
`OneTurn`), so that the last one that is handled is the only one left (`LastFacts`); a
trace has its layout exactly when that of its file is known (`Laid`), which is asked for
once (`Asked`); the traces and `appRequestQ` are those of the open requests. What
`generateDataPacketRequests` does to that is `GenerateKeeps`: it may open a window and send
packets of one trace, none of whose slots waited, or nothing. Each handler and each step of
a server is one lemma (`NewTraceKeeps` to `LastDataKeeps`).

`TransferInv` adds what was transferred. Of a trace (`Exact`): its window goes up to some
byte (`Reaches`) -- slot by slot, the offset and what is pending add up to the bytes the
server holds of the file before that byte (`Low`) -- what is not processed yet is the rest
of the request, the packets still to be served are for different places of the pending part
of their slot, one for each place (`Spanned`), and the bag of the places transferred has
each place below once, without those. Opening a window, sending it, passing a packet on,
cutting it into fragments, serving it and receiving its answer each keep this (`OpenExact`,
`SentExact`, `PassedOnKeeps`, `FragmentsSharedOut`, `ServedExact`, `ReceivedExact`); a
request of which nothing is pending or unsent has all its places in the bag (`DoneExact`),
so that answering it is the step of `StripedIO`. The arithmetic of striping is stated once,
about `WindowTrace`: the place of a byte is the next one of its server (`Low` grows by one
there and nowhere else), `setLayout` begins with the places of the first byte, and
`openNewWindow`, chunk by chunk, deals out to a server what it holds of the window's bytes
(`DealtExact`): a chunk never crosses from one server's part to the next, there are chunks
enough, and whole rounds end where they began. These are inductions over sums, from
`LeastNat`.

**Identifiers.** `requestID` is always a multiple of `RID_OFFSET`, and those of one window
are successive ones (`RequestIDsFacts`), which differ as long as the counter does not come
round within a window (`WindowIds`). Of one request only the packets of one window are
about: the next opens when all slots are answered, so a window is not sent while any slot
waits (`Windowed`), and `Placed` says that every packet has a slot that waits. What follows
the head of an exchange (the data of a write, the data of a read) has an identifier that
rounds down to the same, as a slot is no larger than a window (`WindowFits`,
`FollowersGroup`, `WriteResponseGrouped`). `Grouped` puts that together for one request.
Packets of two requests may share an identifier when a packet of one is on its way for
so long that the other request's windows take the counter once round: packets may have
any delay, and nothing in the code prevents it (with `trace_count = 2`, as `omnetpp.ini` has
it, a request would have to be open for 998 exchanges of the other). No comment of the code
says that it cannot happen. So `IdsTellExchangesApart` is about one request, or one open
request; the run `Client` has a configuration of two flows in which the restarted counter
does meet the open exchange of the other request, and the rest of its properties hold there
as well.

**The daemon.** What comes back of a read depends on the sub-request the file system works
on, that on the record of the read, and the record on what newReq remembered several steps
before; of a write, on data packets in three stages. `Inv` follows them. `History` says of
an exchange what it has been sent and what is written of it: the part of a read from the
first byte on, the first data packets of a write. `JobOK` says what a job for the file
system is -- the part of a read that begins where the replies end (`ReadJob`), a data packet
of a granted write that is not written (`DataJob`), or a small write (`SmallJob`) -- and that
its record says of it what newReq saw. `TimerOK` says the same of packets that wait for
their processing time. `NoneLost` says that every data packet that has arrived and is not
written is in one of the two, and `InOrder` that they are there in order, so that the packet
the file system answers is the next one to be written; a read has one job at a time.
`InOrder` survives timers since packets of the same delay are delivered in order (`Delayed`),
and requests of one exchange do not wait together with its data. `Records` ties `reqQ`,
`infoMap` and `subreqQ`. A step changes one exchange: `FrameInv` says that the others keep
what they have, so that each handler (`ReadRequested` to `ReadDone`) is about one. Reads need
the arithmetic of packets (`ReadContinues`, `PacketFacts`) and of identifiers that restart
(`NextIdFacts`): a sub-request that is not the last never gets the identifier of its request.

**The device.** The channel is handed over by `ssd_check_channel_activity`, which starts a
completion, a new request, or nothing. The invariant says that the request in possession
has the one event on the bus, that there is none while nothing possesses the channel, and
that no assertion about the activity has failed. Every handler first takes its event off
the bus, which makes the channel quiet, and then sends another or hands over:
`SendUpExclusive` to `CheckChannelExclusive` are about the second half, `AnsweredQuiet`
about the first, and `ParentCompletedKeeps` about elements that end at the same time.

**The pages and the promise.** `FullInv` adds two parts to that. `PiecesInv`: an element
holds pages that go to it, in its queue or in service, once each, and `remaining` counts
the pages held. It survives because pages are asked for only of requests of which none
is held, and because collecting (`IssuedInv`) moves the pages from the queue to the
service, thrown ones included: `ActivatedInv`, `MediaAccessInv`, `StartedPieces` and
`ServedPieces`. `Phases`: each request is in one of seven phases, from `Absent` to
`Completing`, each of which fixes its event on the bus, the queues it is in, whether pages
of it are held, and how many steps it has taken. With the phases known, a completed
request is outstanding, a request in the completion queue has no page left, and each step
of the log is the next one of `BlockDevice`; without them no conjunct could be kept. A
handler is one lemma (`ArriveStep` to `CleanStep`), and `CheckChannelPhases` serves the
six that end in `ssd_check_channel_activity`. The assertion of `ssd_complete_parent`
fails when the request in possession is a write that is about to disconnect, so that the
page served can only be one that was thrown; `RepeatsAllowed` finds the other write,
since collecting stops when a kind has `maxReqs` pages. After that failure the
simulation has ended, and what is known of pages, counts and lists remains.

Only model-checked:

* liveness, and the liveness part of the refinements, starvation freedom among them (liveness
  and ENABLED are out of the prover's reach);
* what `DiskCache` and `LocalFS` compute: folds over lists, which would need induction
  over data;
* the properties of `Proxy` under SFQRC, DTA and I2L (their lists are computed by folds),
  and those of `Storage`, which were not attempted.

## 5. Not modelled

* DiskCache's read-ahead (the configuration disables it) and its files other than the
  first; printing, health checks, statistics.
* Disk's times: tables, head position, read-ahead at the drive. Its requests complete in
  any order. Files without extents in the input: findExtEntry then reads before the list
  and what follows depends on the allocator.
* Queue (the router's port), one FIFO list per port whose delay is part of the arbitrary
  delay of packets; Routing is a table lookup.
* SSFQ and SFQRC_old: never created by `SchedulerFactory`.
* Streamers, message classes, printing: no protocol state.
* `parallel_job_proc_time` (a delay of answers at the data server) is taken as 0.
* `disksim/`: the service times and gangs of elements (`ssd_timing.c`, `ssd_gang.c`,
  `ssd_clean.c`) are not in this repository; the parser of parameters, the set-up and
  the dispatch table of devices have no behaviour over time; the TCP server that would
  connect DiskSim to the simulator drives `disksim_interface`, which is not here either,
  and nothing in `omnetpp/` connects to it.

## 6. Plan

Done: `JobQueue`, `SFQQueue`, `SFQ`, `SFQFair`, `SFQEndless`, `DSFQ` with their proofs; `Proxy` with
every scheduler of the factory; `WindowTrace`, `StripedIO` and `PVFS2Client`
with their proofs; `Application`; `PVFS2DSD` with its proofs; `VFS`, `LocalFS`, `DiskCache`, `Storage`; `BlockDevice` and
`SSD` with their proofs.

What is left, most useful first:

1. Theorems: `SlotsMatchServer` and `ForwardedInOrder` under the other schedulers, by `Books`
   and `Flow` over their lists.
2. Read-ahead and several files in `DiskCache`.
3. A refinement of the whole path of one request, from `PVFS2Client` through `Proxy` and
   `PVFS2DSD` to `Storage`.
