-------------------------------- MODULE SSD --------------------------------
(***************************************************************************)
(* The solid state device of DiskSim, disksim/ssd/ssd.c, with a pool of    *)
(* pages per chip or plane.  A request comes over the bus; its pages are   *)
(* served by the elements (flash packages), which also stop to clean       *)
(* blocks; and the device comes back to the bus when all pages are served. *)
(* One request at a time possesses the channel to the controller.  The bus *)
(* and the controller are known from how ssd.c calls them: the bus may be  *)
(* granted at any time after it is asked for, and the controller answers   *)
(* every interrupt and moves all data it is asked to move.                 *)
(***************************************************************************)
EXTENDS Integers, Sequences, FiniteSets, SequencesExt

CONSTANTS Configurations,  \* the devices and requests that are considered
          NONE             \* the null pointer

(* A configuration has the requests, request, each with read and blocks, the numbers of
   its pages in order, each beginning where the one before it ends; the number of elements;
   neverdisconnect and background (the parameters of these names); and maxReqs, how many
   requests of one kind an element may start at once. *)
ASSUME SSDAssumption ==
  \A c \in Configurations :
    /\ NONE \notin DOMAIN c.request
    /\ \A r \in DOMAIN c.request :
         /\ c.request[r].read \in BOOLEAN
         /\ c.request[r].blocks \in Seq(Nat) /\ c.request[r].blocks # <<>>
         /\ IsInjective(c.request[r].blocks)
    /\ c.elements \in Nat \ {0} /\ c.maxReqs \in Nat \ {0}
    /\ c.neverdisconnect \in BOOLEAN /\ c.background \in BOOLEAN

VARIABLES
  config,     \* the configuration
  chan,       \* the channel to the controller: the fields of struct ssd below
  elem,       \* the elements
  remaining,  \* tempint2: the pages of each request that are not served yet
  log         \* history: what has happened to each request, in order

vars == <<config, chan, elem, remaining, log>>

Requests        == DOMAIN config.request
IsRead(r)       == config.request[r].read
Blocks(r)       == config.request[r].blocks
Neverdisconnect == config.neverdisconnect

-----------------------------------------------------------------------------
(* Elements.  A page of a request is <<request, position>>. *)

Elements      == 0 .. config.elements - 1
BlockOf(p)    == Blocks(p[1])[p[2]]
ElementOf(p)  == BlockOf(p) % config.elements
Pages(r)      == {<<r, k>> : k \in DOMAIN Blocks(r)}

IdleElement == [waiting |-> <<>>, service |-> {}, thrown |-> {},
                media_busy |-> FALSE, cleaning |-> FALSE, dirty |-> FALSE]

\* ssd_already_present
Same(p, q) == BlockOf(p) = BlockOf(q) /\ IsRead(p[1]) = IsRead(q[1])

\* The positions of the pages that repeat one before them.
Repeats(w, n) == {i \in 1 .. n : \E j \in 1 .. i-1 : Same(w[j], w[i])}

\* After n pages there are as many of one kind as the element may start.
Full(w, n) == \E read \in BOOLEAN :
  Cardinality({i \in 1 .. n : IsRead(w[i][1]) = read} \ Repeats(w, n)) >= config.maxReqs

NumCollected(w) ==
  IF Full(w, Len(w)) THEN CHOOSE n \in 1 .. Len(w) : Full(w, n) /\ ~Full(w, n-1)
  ELSE Len(w)

\* Mutant of Issued: a repeated page is thrown without an event that completes it.
IssuedThrown(el) ==
  LET n == NumCollected(el.waiting)
  IN  [el EXCEPT !.waiting = SubSeq(@, n + 1, Len(@)),
                 !.service = {el.waiting[i] : i \in (1 .. n) \ Repeats(el.waiting, n)},
                 !.thrown = {},
                 !.media_busy = TRUE,
                 !.dirty = @ \/ \E i \in 1 .. n : ~IsRead(el.waiting[i][1])]

\* The pages collected from the queue are all outstanding; the repeated ones are
\* completed without an access.
Issued(el) ==
  LET n == NumCollected(el.waiting)
  IN  [el EXCEPT !.waiting = SubSeq(@, n + 1, Len(@)),
                 !.service = {el.waiting[i] : i \in 1 .. n},
                 !.thrown = {el.waiting[i] : i \in Repeats(el.waiting, n)},
                 !.media_busy = TRUE,
                 !.dirty = @ \/ \E i \in 1 .. n : ~IsRead(el.waiting[i][1])]

\* A cleaning is invoked before any request; clean says that ssd_clean_element finds
\* something to do.
CleansFirst(el, clean) == clean /\ el.dirty /\ (config.background \/ el.waiting # <<>>)

\* Mutant of Activated: a busy element is not left alone.
ActivatedBusy(el, clean) ==
  IF CleansFirst(el, clean)
  THEN [el EXCEPT !.media_busy = TRUE, !.cleaning = TRUE, !.dirty = FALSE]
  ELSE IF el.waiting = <<>> THEN el ELSE Issued(el)

\* ssd_activate_elem
Activated(el, clean) ==
  CASE el.media_busy -> el
    [] ~el.media_busy /\ CleansFirst(el, clean) ->
         [el EXCEPT !.media_busy = TRUE, !.cleaning = TRUE, !.dirty = FALSE]
    [] ~el.media_busy /\ ~CleansFirst(el, clean) ->
         IF el.waiting = <<>> THEN el ELSE Issued(el)

\* The pages of the requests rs that go to element e, in order.
PagesOn(rs, e) ==
  LET Piece(p)  == IF ElementOf(p) = e THEN <<p>> ELSE <<>>
      Pieces(r) == FlattenSeq([k \in DOMAIN Blocks(r) |-> Piece(<<r, k>>)])
  IN  FlattenSeq([i \in DOMAIN rs |-> Pieces(rs[i])])

\* ssd_media_access_request for one request after the other.  The first page of an
\* element activates it; from then on it is busy.
MediaAccess(els, rs, clean) ==
  [e \in Elements |->
     LET ps == PagesOn(rs, e)
     IN  IF ps = <<>> THEN els[e]
         ELSE [Activated([els[e] EXCEPT !.waiting = Append(@, Head(ps))], e \in clean)
                 EXCEPT !.waiting = @ \o Tail(ps)]]

-----------------------------------------------------------------------------
(* The channel.  An event on the bus waits for the bus, "buswait", is under way,
   "delay", or is with the controller. *)

IdleChannel == [activity |-> NONE, bus |-> {}, busowned |-> FALSE, reason |-> "ARRIVE",
                queue |-> <<>>, outstanding |-> {}, completion |-> <<>>, failed |-> {}]

\* A check of the code that ends the simulation when it does not hold.
Check(c, name, holds) == IF holds THEN c ELSE [c EXCEPT !.failed = @ \cup {name}]

\* ssd_assert_current_activity compares the block and the length.
AssertActivity(c, r) ==
  Check(c, "activity", c.activity # NONE /\ Blocks(c.activity) = Blocks(r))

\* ssd_send_event_up_path
SendUp(c, r, kind) ==
  [AssertActivity(c, r) EXCEPT
     !.bus = @ \cup {[req |-> r, kind |-> kind,
                      at |-> IF c.busowned THEN "delay" ELSE "buswait"]}]

\* ssd_request_complete: the device's queue must know the request.
RequestComplete(c, r) ==
  SendUp([Check(c, "outstanding", r \in c.outstanding) EXCEPT !.outstanding = @ \ {r}],
         r, "COMPLETION")

\* ioqueue_get_next_request
Taken(c) == [c EXCEPT !.activity = Head(c.queue), !.queue = Tail(@),
                      !.outstanding = @ \cup {Head(c.queue)}]

\* The reads at the front of the queue, which a device that never disconnects starts
\* without possessing the channel.
NumLeadingReads(q) == Cardinality({n \in 1 .. Len(q) : \A i \in 1 .. n : IsRead(q[i])})
LeadingReads(q)    == SubSeq(q, 1, NumLeadingReads(q))

\* The requests whose pages ssd_check_channel_activity asks the elements for.
Starts(c) ==
  IF c.completion # <<>> THEN <<>>
  ELSE IF Neverdisconnect THEN LeadingReads(c.queue)
  ELSE IF c.queue # <<>> /\ IsRead(Head(c.queue)) THEN <<Head(c.queue)>> ELSE <<>>

\* The queue once those reads are started.
ReadsStarted(c) ==
  LET n == IF Neverdisconnect THEN NumLeadingReads(c.queue) ELSE 0
  IN  [c EXCEPT !.queue = SubSeq(@, n + 1, Len(@)),
                !.outstanding = @ \cup ToSet(SubSeq(c.queue, 1, n))]

\* Mutant of SignalCompletion: reconnect_reason is not set.
SignalCompletionNoReason(c) ==
  LET r  == Head(c.completion)
      c1 == [c EXCEPT !.activity = r, !.completion = Tail(@)]
  IN  CASE Neverdisconnect /\ IsRead(r)  -> SendUp(c1, r, "DATA")
        [] Neverdisconnect /\ ~IsRead(r) -> RequestComplete(c1, r)
        [] ~Neverdisconnect -> SendUp(c1, r, "RECONNECT")

\* What ssd_check_channel_activity does for the next completion.
SignalCompletion(c) ==
  LET r  == Head(c.completion)
      c1 == [c EXCEPT !.activity = r, !.completion = Tail(@)]
  IN  CASE Neverdisconnect /\ IsRead(r)  -> SendUp(c1, r, "DATA")
        [] Neverdisconnect /\ ~IsRead(r) -> RequestComplete(c1, r)
        [] ~Neverdisconnect -> [SendUp(c1, r, "RECONNECT") EXCEPT !.reason = "ACCESS"]

\* And for the next request, if there is one.
StartNext(c) ==
  IF c.queue = <<>> THEN [c EXCEPT !.activity = NONE]
  ELSE LET r == Head(c.queue)
       IN  IF IsRead(r) THEN SendUp(Taken(c), r, "DISCONNECT")
           ELSE [SendUp(Taken(c), r, "RECONNECT") EXCEPT !.reason = "ARRIVE"]

\* ssd_check_channel_activity
CheckChannel(c) == IF c.completion # <<>> THEN SignalCompletion(c)
                   ELSE StartNext(ReadsStarted(c))

\* Mutant of Released: the bus is given back but still taken to be owned.
ReleasedKept(c) == c

Released(c) == [c EXCEPT !.busowned = FALSE]

-----------------------------------------------------------------------------
Init ==
  /\ config \in Configurations
  /\ chan = IdleChannel
  /\ elem = [e \in Elements |-> IdleElement]
  /\ remaining = [r \in Requests |-> 0]
  /\ log = [r \in Requests |-> <<>>]

Running == chan.failed = {}

Log(r, step) == log' = [log EXCEPT ![r] = Append(@, step)]

\* ssd_media_access_request for the requests rs, in order; ssd_clean_element finds
\* something to do at any of the elements it is asked for.
StartMedia(els, rs) ==
  /\ \E clean \in SUBSET Elements : elem' = MediaAccess(els, rs, clean)
  /\ remaining' = [r \in Requests |->
                      IF r \in ToSet(rs) THEN Len(Blocks(r)) ELSE remaining[r]]

\* The step goes on with ssd_check_channel_activity, the channel being as in c.
ThenCheckChannel(c) == chan' = CheckChannel(c) /\ StartMedia(elem, Starts(c))

\* ssd_request_arrive: the request comes to the front at once if nothing possesses the
\* channel, and the device then owns the bus it came over.
Arrive(r) ==
  /\ Running /\ log[r] = <<>> /\ Log(r, "arrive")
  /\ LET queued == [chan EXCEPT !.queue = Append(@, r)]
         q == Head(queued.queue)
         c == [Taken(queued) EXCEPT !.busowned = TRUE, !.reason = "ARRIVE"]
     IN  CASE chan.activity # NONE ->
                chan' = queued /\ UNCHANGED <<elem, remaining>>
           [] chan.activity = NONE /\ IsRead(q) /\ ~Neverdisconnect ->
                chan' = SendUp(c, q, "DISCONNECT") /\ StartMedia(elem, <<q>>)
           [] chan.activity = NONE /\ IsRead(q) /\ Neverdisconnect ->
                chan' = CheckChannel(c) /\ StartMedia(elem, <<q>> \o Starts(c))
           [] chan.activity = NONE /\ ~IsRead(q) ->
                chan' = SendUp(c, q, "READY_TO_TRANSFER") /\ UNCHANGED <<elem, remaining>>
  /\ UNCHANGED config

\* ssd_bus_ownership_grant: the bus is given to the device some time after it asked.
BusOwnershipGrant(ev) ==
  /\ Running /\ ev \in chan.bus /\ ev.at = "buswait"
  /\ chan' = [AssertActivity(chan, ev.req) EXCEPT
                !.bus = (@ \ {ev}) \cup {[ev EXCEPT !.at = "delay"]}, !.busowned = TRUE]
  /\ UNCHANGED <<config, elem, remaining, log>>

\* ssd_bus_delay_complete: the event is delivered to the controller.
BusDelayComplete(ev) ==
  /\ Running /\ ev \in chan.bus /\ ev.at = "delay"
  /\ chan' = [AssertActivity(chan, ev.req) EXCEPT
                !.bus = (@ \ {ev}) \cup {[ev EXCEPT !.at = "controller"]}]
  /\ UNCHANGED <<config, elem, remaining, log>>

\* The channel when the controller has answered ev.
Answered(ev) == [AssertActivity(chan, ev.req) EXCEPT !.bus = @ \ {ev}]

\* ssd_reconnect_done
ReconnectDone(ev) ==
  /\ Running /\ ev \in chan.bus /\ ev.at = "controller" /\ ev.kind = "RECONNECT"
  /\ LET c == Answered(ev)
     IN  IF IsRead(ev.req) /\ Neverdisconnect
         THEN ThenCheckChannel(c)
         ELSE /\ chan' = IF ~IsRead(ev.req) /\ chan.reason = "ACCESS"
                         THEN RequestComplete(c, ev.req) ELSE SendUp(c, ev.req, "DATA")
              /\ UNCHANGED <<elem, remaining>>
  /\ UNCHANGED <<config, log>>

\* ssd_disconnect_done
DisconnectDone(ev) ==
  /\ Running /\ ev \in chan.bus /\ ev.at = "controller" /\ ev.kind = "DISCONNECT"
  /\ ThenCheckChannel(Released(Answered(ev)))
  /\ UNCHANGED <<config, log>>

\* ssd_completion_done
CompletionDone(ev) ==
  /\ Running /\ ev \in chan.bus /\ ev.at = "controller" /\ ev.kind = "COMPLETION"
  /\ Log(ev.req, "complete")
  /\ ThenCheckChannel(Released(Answered(ev)))
  /\ UNCHANGED config

\* ssd_bustransfer_complete: the controller moved the data it was asked for by
\* READY_TO_TRANSFER or by a data transfer sent up.
BusTransferComplete(ev) ==
  /\ Running /\ ev \in chan.bus /\ ev.at = "controller"
  /\ ev.kind \in {"READY_TO_TRANSFER", "DATA"}
  /\ Log(ev.req, "data")
  /\ LET c == Answered(ev)
     IN  CASE IsRead(ev.req) ->
                chan' = RequestComplete(c, ev.req) /\ UNCHANGED <<elem, remaining>>
           [] ~IsRead(ev.req) /\ ~Neverdisconnect ->
                chan' = SendUp(c, ev.req, "DISCONNECT") /\ StartMedia(elem, <<ev.req>>)
           [] ~IsRead(ev.req) /\ Neverdisconnect ->
                chan' = CheckChannel(c) /\ StartMedia(elem, <<ev.req>> \o Starts(c))
  /\ UNCHANGED config

\* An access of the flash takes longer than the write's disconnection from the bus; a
\* repeated page, which makes no access, is over at once.
SlowerThanBus(e, p) == p \in elem[e].thrown \/ IsRead(p[1]) \/ chan.activity # p[1]

\* Mutant of ParentCompleted: a read is served through the request itself, not a copy.
ParentCompletedNoCopy(r) ==
  [Check(chan, "parent", chan.activity # r) EXCEPT !.completion = Append(@, r)]

\* ssd_complete_parent, when the last page is served.  A read that disconnected is served
\* through a copy of the request that possesses the channel.
ParentCompleted(r) ==
  [Check(chan, "parent", chan.activity # r \/ (IsRead(r) /\ ~Neverdisconnect))
     EXCEPT !.completion = Append(@, r)]

\* ssd_access_complete_element: page p of a request is served.
AccessComplete(e, p) ==
  /\ Running /\ p \in elem[e].service /\ SlowerThanBus(e, p)
  /\ LET r == p[1]
         over == [elem[e] EXCEPT !.service = @ \ {p}, !.thrown = @ \ {p},
                                 !.media_busy = elem[e].service # {p}]
         last == remaining[r] = 1
         checks == last /\ chan.activity = NONE
         starts == IF checks THEN Starts(ParentCompleted(r)) ELSE <<>>
     IN  /\ chan' = CASE checks -> CheckChannel(ParentCompleted(r))
                      [] last /\ ~checks -> ParentCompleted(r)
                      [] ~last -> chan
         /\ \E clean \in SUBSET Elements :
              LET els == MediaAccess([elem EXCEPT ![e] = over], starts, clean)
              IN  elem' = [els EXCEPT ![e] = Activated(@, e \in clean)]
         /\ remaining' = [q \in Requests |->
                            CASE q \in ToSet(starts) -> Len(Blocks(q))
                              [] q \notin ToSet(starts) /\ q = r -> remaining[r] - 1
                              [] q \notin ToSet(starts) /\ q # r -> remaining[q]]
         /\ IF last THEN Log(r, "media") ELSE UNCHANGED log
  /\ UNCHANGED config

\* ssd_clean_element_complete
CleanElementComplete(e) ==
  /\ Running /\ elem[e].cleaning
  /\ \E clean \in BOOLEAN :
       elem' = [elem EXCEPT ![e] =
                  Activated([@ EXCEPT !.media_busy = FALSE, !.cleaning = FALSE], clean)]
  /\ UNCHANGED <<config, chan, remaining, log>>

ChannelEvent ==
  \E ev \in chan.bus : \/ BusOwnershipGrant(ev)
                       \/ BusDelayComplete(ev)
                       \/ ReconnectDone(ev)
                       \/ DisconnectDone(ev)
                       \/ CompletionDone(ev)
                       \/ BusTransferComplete(ev)

ElementEvent ==
  \E e \in Elements : \/ \E r \in Requests : \E p \in Pages(r) : AccessComplete(e, p)
                     \/ CleanElementComplete(e)

Next == (\E r \in Requests : Arrive(r)) \/ ChannelEvent \/ ElementEvent

Spec == Init /\ [][Next]_vars

\* Every event that is scheduled happens, and the controller answers; requests need not
\* arrive.
FairSpec == Spec /\ WF_vars(ChannelEvent \/ ElementEvent)

-----------------------------------------------------------------------------
(* Properties *)

Kinds    == {"READY_TO_TRANSFER", "RECONNECT", "DISCONNECT", "DATA", "COMPLETION"}
Events   == [req : Requests, kind : Kinds, at : {"buswait", "delay", "controller"}]
Channels == [activity : Requests \cup {NONE}, bus : SUBSET Events, busowned : BOOLEAN,
             reason : {"ARRIVE", "ACCESS"}, queue : Seq(Requests),
             outstanding : SUBSET Requests, completion : Seq(Requests),
             failed : SUBSET {"activity", "outstanding", "parent"}]

\* The fields of the channel have their types.
TypeOK == config \in Configurations /\ chan \in Channels

(* "Only one request can possess the channel back to the controller at a time"
   (ssd.c:170): exactly the request that possesses it has an event on the bus, and it has
   one; and a device that disconnects does not keep the bus when nothing possesses it. *)
ChannelExclusive ==
  /\ chan.activity = NONE => chan.bus = {} /\ (~Neverdisconnect => ~chan.busowned)
  /\ chan.activity # NONE => \E ev \in chan.bus : chan.bus = {ev} /\ ev.req = chan.activity

(* An element is busy exactly while it cleans or serves, never both at once, and an element
   that is not busy has no page waiting: whatever ends the work of an element looks into
   its queue again. *)
MediaExclusive ==
  \A e \in Elements :
    /\ elem[e].media_busy <=> elem[e].cleaning \/ elem[e].service # {}
    /\ elem[e].cleaning => elem[e].service = {}
    /\ elem[e].waiting # <<>> => elem[e].media_busy

\* The pages of r that the elements hold.
Held(r) == UNION {{p \in ToSet(elem[e].waiting) \cup elem[e].service : p[1] = r} :
                    e \in Elements}

(* The count in tempint2, by which the elements, each in its own time, agree on when a
   request is served, is the pages of the request they hold; the completion queue has each
   request that is fully served and not yet signalled, once. *)
CountsPieces ==
  /\ \A r \in Requests : remaining[r] = Cardinality(Held(r))
  /\ \A i, j \in DOMAIN chan.completion : i # j => chan.completion[i] # chan.completion[j]
  /\ \A i \in DOMAIN chan.completion : remaining[chan.completion[i]] = 0

\* Two writes of a block that an element may collect together, one of which it throws.
MayThrow(r) ==
  /\ config.maxReqs > 1 /\ ~IsRead(r) /\ ~Neverdisconnect
  /\ \E w \in Requests \ {r} : ~IsRead(w) /\ ToSet(Blocks(w)) \cap ToSet(Blocks(r)) # {}

(* The checks that end the simulation hold, all but one: the assertion of
   ssd_complete_parent, that a request that is served is off the channel, fails when the
   repeated page of a write is thrown before the write has disconnected. *)
AbortsOnlyOnThrown ==
  chan.failed # {} => chan.failed = {"parent"} /\ MayThrow(chan.activity)

Promise == INSTANCE BlockDevice WITH
            Names   <- UNION {DOMAIN c.request : c \in Configurations},
            reads   <- {r \in Requests : IsRead(r)},
            mayStop <- \E r \in Requests : MayThrow(r),
            stopped <- chan.failed # {}

(* The device implements the promise of a block device, liveness included: every request
   that arrives is served and completed once, whatever the order in which the bus is
   granted, the pages are served and the elements stop to clean. *)
ImplementsBlockDevice == Promise!Spec /\ Promise!Completes
=============================================================================
