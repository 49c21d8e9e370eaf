----------------------------- MODULE SSDProofs -----------------------------
(***************************************************************************)
(* Proofs about the solid state device, for every set of requests, number  *)
(* of elements and choice of parameters: one request at a time owns the    *)
(* channel; the elements serve every page of a request once; the device    *)
(* implements the promise of a block device.                               *)
(***************************************************************************)
EXTENDS SSD, ListLemmas

-----------------------------------------------------------------------------
(* The inductive invariant, as a predicate of the channel. *)

Sound(c) == c \in Channels /\ "activity" \notin c.failed

\* An event has just been answered: nothing is on the bus.
Quiet(c) == Sound(c) /\ c.bus = {}

Exclusive(c) ==
  /\ Sound(c)
  /\ c.activity = NONE => c.bus = {} /\ (~Neverdisconnect => ~c.busowned)
  /\ c.activity # NONE => \E ev \in c.bus : c.bus = {ev} /\ ev.req = c.activity

IInv == config \in Configurations /\ Exclusive(chan)

-----------------------------------------------------------------------------
(* What the operations on the channel do. *)

\* The value for an idle channel is no request.
LEMMA NoneIsNoRequest ==
  ASSUME config \in Configurations
  PROVE  NONE \notin Requests
BY SSDAssumption DEF Requests

\* Sending an event for the request that possesses the channel.
LEMMA SendUpExclusive ==
  ASSUME config \in Configurations, NEW c, Quiet(c),
         NEW r \in Requests, c.activity = r, NEW kind \in Kinds
  PROVE  Exclusive(SendUp(c, r, kind))
<1> DEFINE ev == [req |-> r, kind |-> kind, at |-> IF c.busowned THEN "delay" ELSE "buswait"]
<1>1. c.activity # NONE /\ c \in Channels /\ c.bus = {} /\ "activity" \notin c.failed
  BY NoneIsNoRequest DEF Quiet, Sound
<1>2. AssertActivity(c, r) = c
  BY <1>1 DEF AssertActivity, Check
<1>3. ev \in Events
  BY DEF Events
<1>4. SendUp(c, r, kind) = [c EXCEPT !.bus = {ev}]
  BY <1>1, <1>2 DEF SendUp
<1>5. [c EXCEPT !.bus = {ev}] \in Channels
  BY <1>1, <1>3 DEF Channels
<1>6. /\ [c EXCEPT !.bus = {ev}].activity = r
      /\ [c EXCEPT !.bus = {ev}].bus = {ev}
      /\ [c EXCEPT !.bus = {ev}].failed = c.failed
  BY <1>1 DEF Channels
<1> DEFINE d == SendUp(c, r, kind)
<1>7. /\ d \in Channels /\ d.activity = r /\ d.failed = c.failed
      /\ d.bus = {ev} /\ ev.req = r
  BY <1>4, <1>5, <1>6
<1> HIDE DEF d, ev
<1>8. Exclusive(d)
  BY <1>1, <1>7 DEF Exclusive, Sound
<1>9. QED
  BY <1>8 DEF d

\* A completion takes the channel for its request.
LEMMA RequestCompleteExclusive ==
  ASSUME config \in Configurations, NEW c, Quiet(c), NEW r \in Requests, c.activity = r
  PROVE  Exclusive(RequestComplete(c, r))
<1> DEFINE d == [Check(c, "outstanding", r \in c.outstanding) EXCEPT !.outstanding = @ \ {r}]
<1>1. c \in Channels /\ c.bus = {} /\ "activity" \notin c.failed
  BY DEF Quiet, Sound
<1>2. /\ Check(c, "outstanding", r \in c.outstanding) \in Channels
      /\ Check(c, "outstanding", r \in c.outstanding).bus = {}
      /\ Check(c, "outstanding", r \in c.outstanding).activity = r
      /\ "activity" \notin Check(c, "outstanding", r \in c.outstanding).failed
  BY <1>1 DEF Check, Channels
<1>3. Quiet(d) /\ d.activity = r
  BY <1>2 DEF Quiet, Sound, Channels
<1>4. "COMPLETION" \in Kinds
  BY DEF Kinds
<1>5. QED
  BY <1>3, <1>4, SendUpExclusive DEF RequestComplete

\* Taking a request from the queue gives it the channel, with no event on the bus yet.
LEMMA TakenQuiet ==
  ASSUME NEW c, Quiet(c), c.queue # <<>>
  PROVE  /\ Head(c.queue) \in Requests
         /\ Quiet(Taken(c)) /\ Taken(c).activity = Head(c.queue)
<1>1. c \in Channels /\ c.bus = {} /\ "activity" \notin c.failed
  BY DEF Quiet, Sound
<1>2. Head(c.queue) \in Requests /\ Tail(c.queue) \in Seq(Requests)
  BY <1>1 DEF Channels
<1>3. Taken(c) \in Channels
  BY <1>1, <1>2 DEF Taken, Channels
<1>4. Taken(c).bus = {} /\ Taken(c).failed = c.failed /\ Taken(c).activity = Head(c.queue)
  BY <1>1 DEF Taken, Channels
<1>5. QED
  BY <1>1, <1>2, <1>3, <1>4 DEF Quiet, Sound

\* Signalling a completion takes the channel for one request.
LEMMA SignalCompletionExclusive ==
  ASSUME config \in Configurations, NEW c, Quiet(c), c.completion # <<>>
  PROVE  Exclusive(SignalCompletion(c))
<1> DEFINE r == Head(c.completion)
           d == [c EXCEPT !.activity = r, !.completion = Tail(@)]
<1>1. c \in Channels /\ c.bus = {} /\ "activity" \notin c.failed
  BY DEF Quiet, Sound
<1>2. r \in Requests /\ Tail(c.completion) \in Seq(Requests)
  BY <1>1 DEF Channels
<1>3. d \in Channels /\ d.bus = {} /\ d.failed = c.failed /\ d.activity = r
  BY <1>1, <1>2 DEF Channels
<1>4. Quiet(d)
  BY <1>1, <1>3 DEF Quiet, Sound
<1>5. "DATA" \in Kinds /\ "RECONNECT" \in Kinds
  BY DEF Kinds
<1>6. Exclusive(SendUp(d, r, "DATA")) /\ Exclusive(SendUp(d, r, "RECONNECT"))
  BY <1>2, <1>3, <1>4, <1>5, SendUpExclusive
<1>7. Exclusive(RequestComplete(d, r))
  BY <1>2, <1>3, <1>4, RequestCompleteExclusive
<1>8. Exclusive([SendUp(d, r, "RECONNECT") EXCEPT !.reason = "ACCESS"])
  BY <1>6 DEF Exclusive, Sound, Channels
<1>9. Neverdisconnect \in BOOLEAN
  BY SSDAssumption DEF Neverdisconnect
<1>10. IsRead(r) \in BOOLEAN
  BY <1>2, SSDAssumption DEF IsRead, Requests
<1>11. QED
  BY <1>6, <1>7, <1>8, <1>9, <1>10 DEF SignalCompletion

\* Starting the next request takes the channel for it, or leaves it free.
LEMMA StartNextExclusive ==
  ASSUME config \in Configurations, NEW c, Quiet(c), ~Neverdisconnect => ~c.busowned
  PROVE  Exclusive(StartNext(c))
<1>1. c \in Channels /\ c.bus = {} /\ "activity" \notin c.failed
  BY DEF Quiet, Sound
<1>2. CASE c.queue = <<>>
  <2>1. [c EXCEPT !.activity = NONE] \in Channels
    BY <1>1 DEF Channels
  <2>2. QED
    BY <1>1, <1>2, <2>1 DEF StartNext, Exclusive, Sound, Channels
<1>3. CASE c.queue # <<>>
  <2>1. /\ Head(c.queue) \in Requests
        /\ Quiet(Taken(c)) /\ Taken(c).activity = Head(c.queue)
    BY <1>3, TakenQuiet
  <2>2. "DISCONNECT" \in Kinds /\ "RECONNECT" \in Kinds
    BY DEF Kinds
  <2>3. /\ Exclusive(SendUp(Taken(c), Head(c.queue), "DISCONNECT"))
        /\ Exclusive(SendUp(Taken(c), Head(c.queue), "RECONNECT"))
    BY <2>1, <2>2, SendUpExclusive
  <2>4. Exclusive([SendUp(Taken(c), Head(c.queue), "RECONNECT") EXCEPT !.reason = "ARRIVE"])
    BY <2>3 DEF Exclusive, Sound, Channels
  <2>5. QED
    BY <1>3, <2>3, <2>4 DEF StartNext
<1>4. QED
  BY <1>2, <1>3

\* Starting the leading reads leaves the bus as it is.
LEMMA ReadsStartedQuiet ==
  ASSUME NEW c, Quiet(c)
  PROVE  Quiet(ReadsStarted(c)) /\ ReadsStarted(c).busowned = c.busowned
<1> DEFINE n == IF Neverdisconnect THEN NumLeadingReads(c.queue) ELSE 0
<1>1. c \in Channels /\ c.bus = {} /\ "activity" \notin c.failed
  BY DEF Quiet, Sound
<1>2. c.queue \in Seq(Requests) /\ Len(c.queue) \in Nat
  BY <1>1 DEF Channels
<1>3. n \in 0 .. Len(c.queue)
  <2> DEFINE S == {k \in 1 .. Len(c.queue) : \A i \in 1 .. k : IsRead(c.queue[i])}
  <2>1. IsFiniteSet(1 .. Len(c.queue)) /\ Cardinality(1 .. Len(c.queue)) <= Len(c.queue)
    <3> DEFINE m == Len(c.queue)
    <3>1. m \in Int /\ m >= 0 /\ 1 \in Int
      BY <1>2
    <3> HIDE DEF m
    <3>2. IsFiniteSet(1 .. m) /\ Cardinality(1 .. m) = IF 1 > m THEN 0 ELSE m - 1 + 1
      BY <3>1, FS_Interval
    <3>3. IsFiniteSet(1 .. m) /\ Cardinality(1 .. m) <= m
      BY <3>1, <3>2
    <3>4. QED
      BY <3>3 DEF m
  <2>2. IsFiniteSet(S) /\ Cardinality(S) <= Cardinality(1 .. Len(c.queue))
    BY <2>1, FS_Subset
  <2>3. Cardinality(S) \in Nat /\ Cardinality(1 .. Len(c.queue)) \in Nat
    BY <2>1, <2>2, FS_CardinalityType
  <2>4. Cardinality(S) = NumLeadingReads(c.queue)
    BY DEF NumLeadingReads
  <2>5. QED
    BY <1>2, <2>1, <2>2, <2>3, <2>4
<1> HIDE DEF n
<1>4. /\ SubSeq(c.queue, n + 1, Len(c.queue)) \in Seq(Requests)
      /\ SubSeq(c.queue, 1, n) \in Seq(Requests)
  BY <1>2, <1>3
<1>5. ToSet(SubSeq(c.queue, 1, n)) \subseteq Requests
  BY <1>4 DEF ToSet
<1>6. ReadsStarted(c) = [c EXCEPT !.queue = SubSeq(c.queue, n + 1, Len(c.queue)),
                           !.outstanding = c.outstanding \cup ToSet(SubSeq(c.queue, 1, n))]
  BY <1>1 DEF ReadsStarted, n
<1>7. ReadsStarted(c) \in Channels
  BY <1>1, <1>4, <1>5, <1>6, ZenonT(30) DEF Channels
<1>8. /\ ReadsStarted(c).bus = c.bus /\ ReadsStarted(c).failed = c.failed
      /\ ReadsStarted(c).busowned = c.busowned
  BY <1>1, <1>6 DEF Channels
<1>9. QED
  BY <1>1, <1>7, <1>8 DEF Quiet, Sound

\* ssd_check_channel_activity, once nothing is on the bus.
LEMMA CheckChannelExclusive ==
  ASSUME config \in Configurations, NEW c, Quiet(c), ~Neverdisconnect => ~c.busowned
  PROVE  Exclusive(CheckChannel(c))
<1>1. CASE c.completion # <<>>
  BY <1>1, SignalCompletionExclusive DEF CheckChannel
<1>2. CASE c.completion = <<>>
  <2>1. Quiet(ReadsStarted(c)) /\ (~Neverdisconnect => ~ReadsStarted(c).busowned)
    BY ReadsStartedQuiet
  <2>2. QED
    BY <1>2, <2>1, StartNextExclusive DEF CheckChannel
<1>3. QED
  BY <1>1, <1>2

\* An event of an exclusive channel is the one event of the request that possesses it.
LEMMA AnsweredQuiet ==
  ASSUME config \in Configurations, Exclusive(chan), NEW ev \in chan.bus
  PROVE  /\ ev \in Events /\ chan.activity = ev.req /\ chan.bus = {ev}
         /\ AssertActivity(chan, ev.req) = chan
         /\ Quiet(Answered(ev)) /\ Answered(ev).activity = ev.req
         /\ Quiet(Released(Answered(ev))) /\ ~Released(Answered(ev)).busowned
<1>1. chan \in Channels /\ "activity" \notin chan.failed
  BY DEF Exclusive, Sound
<1>2. chan.activity # NONE
  BY DEF Exclusive
<1>3. ev \in Events /\ chan.activity = ev.req /\ chan.bus = {ev}
  BY <1>1, <1>2 DEF Exclusive, Channels
<1>4. AssertActivity(chan, ev.req) = chan
  BY <1>2, <1>3 DEF AssertActivity, Check
<1>5. Answered(ev) = [chan EXCEPT !.bus = {}]
  BY <1>1, <1>3, <1>4 DEF Answered, Channels
<1>6. Quiet(Answered(ev)) /\ Answered(ev).activity = ev.req
  BY <1>1, <1>3, <1>5 DEF Quiet, Sound, Channels
<1>7. Quiet(Released(Answered(ev))) /\ ~Released(Answered(ev)).busowned
  BY <1>6 DEF Released, Quiet, Sound, Channels
<1>8. QED
  BY <1>3, <1>4, <1>6, <1>7

\* Serving the last page of a request leaves the bus and the possession as they are.
LEMMA ParentCompletedKeeps ==
  ASSUME Exclusive(chan), NEW r \in Requests
  PROVE  /\ Exclusive(ParentCompleted(r))
         /\ ParentCompleted(r).activity = chan.activity
         /\ ParentCompleted(r).bus = chan.bus
         /\ ParentCompleted(r).busowned = chan.busowned
<1> DEFINE q == chan.activity # r \/ (IsRead(r) /\ ~Neverdisconnect)
           d == Check(chan, "parent", q)
<1>1. chan \in Channels /\ "activity" \notin chan.failed
  BY DEF Exclusive, Sound
<1>2. /\ d \in Channels /\ "activity" \notin d.failed
      /\ d.activity = chan.activity /\ d.bus = chan.bus /\ d.busowned = chan.busowned
  <2>1. CASE q
    BY <1>1, <2>1 DEF Check
  <2>2. CASE ~q
    <3>1. d = [chan EXCEPT !.failed = @ \cup {"parent"}]
      BY <2>2 DEF Check
    <3>2. QED
      BY <1>1, <3>1 DEF Channels
  <2>3. QED
    BY <2>1, <2>2
<1>3. ParentCompleted(r) = [d EXCEPT !.completion = Append(d.completion, r)]
  BY <1>2 DEF ParentCompleted, Channels
<1> HIDE DEF d, q
<1>4. d.completion \in Seq(Requests)
  BY <1>2 DEF Channels
<1>5. Append(d.completion, r) \in Seq(Requests)
  BY <1>4
<1>6. /\ ParentCompleted(r) \in Channels
      /\ ParentCompleted(r).failed = d.failed
      /\ ParentCompleted(r).activity = d.activity
      /\ ParentCompleted(r).bus = d.bus
      /\ ParentCompleted(r).busowned = d.busowned
  BY <1>2, <1>3, <1>5 DEF Channels
<1> DEFINE p == ParentCompleted(r)
<1>7. /\ p \in Channels /\ "activity" \notin p.failed
      /\ p.activity = chan.activity /\ p.bus = chan.bus /\ p.busowned = chan.busowned
  BY <1>2, <1>6
<1> HIDE DEF p
<1>8. Exclusive(p)
  BY <1>7 DEF Exclusive, Sound
<1>9. QED
  BY <1>7, <1>8 DEF p

-----------------------------------------------------------------------------
(* The steps. *)

\* The invariant holds at the start.
LEMMA InitInv == Init => IInv
<1> SUFFICES ASSUME Init PROVE IInv
  OBVIOUS
<1>1. config \in Configurations /\ chan = IdleChannel
  BY DEF Init
<1>2. IdleChannel \in Channels
  BY DEF IdleChannel, Channels
<1>3. QED
  BY <1>1, <1>2 DEF IInv, Exclusive, Sound, IdleChannel

\* An arrival leaves the channel to one request.
LEMMA ArriveInv ==
  ASSUME IInv, NEW r \in Requests, Arrive(r)
  PROVE  Exclusive(chan')
<1> DEFINE queued == [chan EXCEPT !.queue = Append(chan.queue, r)]
           q == Head(queued.queue)
           c == [Taken(queued) EXCEPT !.busowned = TRUE, !.reason = "ARRIVE"]
<1>1. /\ config \in Configurations /\ Exclusive(chan)
      /\ chan \in Channels /\ "activity" \notin chan.failed
  BY DEF IInv, Exclusive, Sound
<1>2. Append(chan.queue, r) \in Seq(Requests) /\ Append(chan.queue, r) # <<>>
  <2>1. chan.queue \in Seq(Requests)
    BY <1>1 DEF Channels
  <2>2. Append(chan.queue, r) \in Seq(Requests) /\ Len(Append(chan.queue, r)) = Len(chan.queue) + 1
    BY <2>1
  <2>3. QED
    BY <2>1, <2>2
<1>3. /\ queued \in Channels /\ queued.activity = chan.activity
      /\ queued.bus = chan.bus /\ queued.busowned = chan.busowned
      /\ queued.failed = chan.failed /\ queued.queue # <<>>
  BY <1>1, <1>2 DEF Channels
<1>4. CASE chan.activity # NONE
  <2>1. Exclusive(queued)
    BY <1>1, <1>3, <1>4 DEF Exclusive, Sound
  <2>2. QED
    BY <1>4, <2>1 DEF Arrive
<1>5. CASE chan.activity = NONE
  <2>1. Quiet(queued)
    BY <1>1, <1>3, <1>5 DEF Quiet, Exclusive, Sound
  <2>2. q \in Requests /\ Quiet(Taken(queued)) /\ Taken(queued).activity = q
    BY <1>3, <2>1, TakenQuiet
  <2>3. Quiet(c) /\ c.activity = q
    BY <2>2 DEF Quiet, Sound, Channels
  <2>4. "DISCONNECT" \in Kinds /\ "READY_TO_TRANSFER" \in Kinds
    BY DEF Kinds
  <2>5. Exclusive(SendUp(c, q, "DISCONNECT")) /\ Exclusive(SendUp(c, q, "READY_TO_TRANSFER"))
    BY <1>1, <2>2, <2>3, <2>4, SendUpExclusive
  <2>6. Neverdisconnect => Exclusive(CheckChannel(c))
    BY <1>1, <2>3, CheckChannelExclusive
  <2>7. IsRead(q) \in BOOLEAN /\ Neverdisconnect \in BOOLEAN
    BY <1>1, <2>2, SSDAssumption DEF IsRead, Requests, Neverdisconnect
  <2> HIDE DEF c, q
  <2>8. QED
    BY <1>5, <2>5, <2>6, <2>7 DEF Arrive, c, q
<1>6. QED
  BY <1>4, <1>5

\* Every event of the bus leaves the channel to one request.
LEMMA ChannelEventInv ==
  ASSUME IInv, NEW ev \in chan.bus,
         \/ BusOwnershipGrant(ev) \/ BusDelayComplete(ev) \/ ReconnectDone(ev)
         \/ DisconnectDone(ev) \/ CompletionDone(ev) \/ BusTransferComplete(ev)
  PROVE  Exclusive(chan')
<1>1. /\ config \in Configurations /\ Exclusive(chan)
      /\ chan \in Channels /\ "activity" \notin chan.failed
  BY DEF IInv, Exclusive, Sound
<1>2. /\ ev \in Events /\ chan.activity = ev.req /\ chan.bus = {ev}
      /\ AssertActivity(chan, ev.req) = chan
      /\ Quiet(Answered(ev)) /\ Answered(ev).activity = ev.req
      /\ Quiet(Released(Answered(ev))) /\ ~Released(Answered(ev)).busowned
  BY <1>1, AnsweredQuiet
<1>3. ev.req \in Requests
  BY <1>2 DEF Events
<1>4. Neverdisconnect \in BOOLEAN /\ IsRead(ev.req) \in BOOLEAN
  BY <1>1, <1>3, SSDAssumption DEF IsRead, Requests, Neverdisconnect
<1>5. /\ Exclusive(CheckChannel(Released(Answered(ev))))
      /\ Neverdisconnect => Exclusive(CheckChannel(Answered(ev)))
  BY <1>1, <1>2, CheckChannelExclusive
<1>6. Exclusive(RequestComplete(Answered(ev), ev.req))
  BY <1>1, <1>2, <1>3, RequestCompleteExclusive
<1>7. /\ Exclusive(SendUp(Answered(ev), ev.req, "DATA"))
      /\ Exclusive(SendUp(Answered(ev), ev.req, "DISCONNECT"))
  <2>1. "DATA" \in Kinds /\ "DISCONNECT" \in Kinds
    BY DEF Kinds
  <2>2. QED
    BY <1>1, <1>2, <1>3, <2>1, SendUpExclusive
<1>8. CASE BusOwnershipGrant(ev) \/ BusDelayComplete(ev)
  <2>1. PICK at \in {"delay", "controller"}, owned \in BOOLEAN :
          chan' = [chan EXCEPT !.bus = {[ev EXCEPT !.at = at]}, !.busowned = owned]
    <3>1. CASE BusOwnershipGrant(ev)
      <4>1. chan' = [chan EXCEPT !.bus = {[ev EXCEPT !.at = "delay"]}, !.busowned = TRUE]
        BY <1>1, <1>2, <3>1 DEF BusOwnershipGrant, Channels
      <4>2. QED
        BY <4>1
    <3>2. CASE BusDelayComplete(ev)
      <4>1. chan' = [chan EXCEPT !.bus = {[ev EXCEPT !.at = "controller"]}]
        BY <1>1, <1>2, <3>2 DEF BusDelayComplete, Channels
      <4>2. chan' = [chan EXCEPT !.bus = {[ev EXCEPT !.at = "controller"]},
                                 !.busowned = chan.busowned]
        BY <1>1, <4>1 DEF Channels
      <4>3. chan.busowned \in BOOLEAN
        BY <1>1 DEF Channels
      <4>4. QED
        BY <4>2, <4>3
    <3>3. QED
      BY <1>8, <3>1, <3>2
  <2> DEFINE moved == [ev EXCEPT !.at = at]
  <2>2. moved \in Events /\ moved.req = ev.req
    BY <1>2 DEF Events
  <2> HIDE DEF moved
  <2>3. /\ chan' \in Channels /\ chan'.bus = {moved}
        /\ chan'.activity = ev.req /\ chan'.failed = chan.failed
    BY <1>1, <1>2, <2>1, <2>2 DEF Channels, moved
  <2>4. QED
    BY <1>1, <1>3, <2>2, <2>3, NoneIsNoRequest DEF Exclusive, Sound
<1>9. CASE ReconnectDone(ev)
  BY <1>4, <1>5, <1>6, <1>7, <1>9 DEF ReconnectDone, ThenCheckChannel
<1>10. CASE DisconnectDone(ev)
  BY <1>5, <1>10 DEF DisconnectDone, ThenCheckChannel
<1>11. CASE CompletionDone(ev)
  BY <1>5, <1>11 DEF CompletionDone, ThenCheckChannel
<1>12. CASE BusTransferComplete(ev)
  BY <1>4, <1>5, <1>6, <1>7, <1>12 DEF BusTransferComplete
<1>13. QED
  BY <1>8, <1>9, <1>10, <1>11, <1>12

\* A page that is served leaves the channel to one request.
LEMMA AccessCompleteInv ==
  ASSUME IInv, NEW e \in Elements, NEW r \in Requests, NEW p \in Pages(r),
         AccessComplete(e, p)
  PROVE  Exclusive(chan')
<1>1. config \in Configurations /\ Exclusive(chan)
  BY DEF IInv
<1>2. p[1] = r
  BY DEF Pages
<1>3. /\ Exclusive(ParentCompleted(r))
      /\ ParentCompleted(r).activity = chan.activity
      /\ ParentCompleted(r).bus = chan.bus
      /\ ParentCompleted(r).busowned = chan.busowned
  BY <1>1, ParentCompletedKeeps
<1>4. chan.activity = NONE => Exclusive(CheckChannel(ParentCompleted(r)))
  <2> SUFFICES ASSUME chan.activity = NONE PROVE Exclusive(CheckChannel(ParentCompleted(r)))
    OBVIOUS
  <2>1. Quiet(ParentCompleted(r)) /\ (~Neverdisconnect => ~ParentCompleted(r).busowned)
    BY <1>3 DEF Exclusive, Quiet
  <2>2. QED
    BY <1>1, <2>1, CheckChannelExclusive
<1>5. \/ chan' = chan
      \/ chan' = ParentCompleted(r)
      \/ chan.activity = NONE /\ chan' = CheckChannel(ParentCompleted(r))
  BY <1>2 DEF AccessComplete
<1>6. QED
  BY <1>1, <1>3, <1>4, <1>5

\* Every handler leaves the channel to one request.
LEMMA StepInv == IInv /\ [Next]_vars => IInv'
<1> SUFFICES ASSUME IInv, [Next]_vars PROVE IInv'
  OBVIOUS
<1>1. config' = config
  BY DEF Next, vars, ChannelEvent, ElementEvent, Arrive, BusOwnershipGrant, BusDelayComplete,
         ReconnectDone, DisconnectDone, CompletionDone, BusTransferComplete, AccessComplete,
         CleanElementComplete
<1>2. Exclusive(chan')
  <2>1. CASE \E r \in Requests : Arrive(r)
    BY <2>1, ArriveInv
  <2>2. CASE ChannelEvent
    BY <2>2, ChannelEventInv DEF ChannelEvent
  <2>3. CASE ElementEvent
    <3>1. CASE \E e \in Elements : CleanElementComplete(e)
      BY <3>1 DEF CleanElementComplete, IInv
    <3>2. CASE \E e \in Elements : \E r \in Requests : \E p \in Pages(r) : AccessComplete(e, p)
      BY <3>2, AccessCompleteInv
    <3>3. QED
      BY <2>3, <3>1, <3>2 DEF ElementEvent
  <2>4. CASE UNCHANGED vars
    BY <2>4 DEF vars, IInv
  <2>5. QED
    BY <2>1, <2>2, <2>3, <2>4 DEF Next
<1>3. QED
  BY <1>1, <1>2 DEF IInv, Exclusive, Sound, Channels, Events, Requests, Neverdisconnect

-----------------------------------------------------------------------------
\* The strengthening: the channel has its types, no check of ssd_assert_current_activity
\* has failed, and the request that possesses the channel has the one event on the bus.
THEOREM SSDInvariant == Spec => []IInv
BY InitInv, StepInv, PTL DEF Spec

\* The fields of the channel keep their types (struct ssd, ssdmodel/ssd.h).
THEOREM SSDTypeOK == Spec => []TypeOK
<1>1. IInv => TypeOK
  BY DEF IInv, Exclusive, Sound, TypeOK
<1>2. QED
  BY <1>1, SSDInvariant, PTL

\* "Only one request can possess the channel" (ssd.c:170): there is one event on the bus, of
\* the request that possesses it, or none when none does; and then a device that disconnects
\* does not own the bus.
THEOREM SSDChannelExclusive == Spec => []ChannelExclusive
<1>1. IInv => ChannelExclusive
  BY DEF IInv, Exclusive, ChannelExclusive
<1>2. QED
  BY <1>1, SSDInvariant, PTL

\* ssd_assert_current_activity (ssd.c:113) never fails, in any of the functions that call
\* it.
THEOREM SSDActivityAsserted == Spec => []("activity" \notin chan.failed)
<1>1. IInv => "activity" \notin chan.failed
  BY DEF IInv, Exclusive, Sound
<1>2. QED
  BY <1>1, SSDInvariant, PTL

-----------------------------------------------------------------------------
(* The inductive invariant: the elements. *)

AllPages == UNION {Pages(r) : r \in Requests}

ElementRecords ==
  [waiting : Seq(AllPages), service : SUBSET AllPages, thrown : SUBSET AllPages,
   media_busy : BOOLEAN, cleaning : BOOLEAN, dirty : BOOLEAN]

\* The pages that an element holds.
ElementPages(el) == ToSet(el.waiting) \cup el.service

\* A page of a write may be thrown before the write has disconnected only where another
\* write has a page of the same block.
ThrownAllowed(p) == IsRead(p[1]) \/ Neverdisconnect \/ MayThrow(p[1])

\* An element that may not have been activated yet.
Consistent(el, e) ==
  /\ el \in ElementRecords
  /\ IsInjective(el.waiting)
  /\ ToSet(el.waiting) \cap el.service = {}
  /\ el.thrown \subseteq el.service
  /\ \A p \in ElementPages(el) : ElementOf(p) = e
  /\ \A p \in el.thrown : ThrownAllowed(p)
  /\ el.media_busy <=> el.cleaning \/ el.service # {}
  /\ el.cleaning => el.service = {}

ElementInv(el, e) == Consistent(el, e) /\ (el.waiting # <<>> => el.media_busy)

-----------------------------------------------------------------------------
(* The pages of a request. *)

\* The blocks of a request are its pages, each once.
LEMMA RequestPages ==
  ASSUME config \in Configurations, NEW r \in Requests
  PROVE  /\ Blocks(r) \in Seq(Nat) /\ Len(Blocks(r)) \in Nat \ {0}
         /\ DOMAIN Blocks(r) = 1 .. Len(Blocks(r))
         /\ \A i, j \in DOMAIN Blocks(r) : Blocks(r)[i] = Blocks(r)[j] => i = j
         /\ IsFiniteSet(Pages(r)) /\ Cardinality(Pages(r)) = Len(Blocks(r))
<1>1. /\ Blocks(r) \in Seq(Nat) /\ Blocks(r) # <<>> /\ IsInjective(Blocks(r))
  BY SSDAssumption DEF Requests, Blocks
<1>2. /\ Len(Blocks(r)) \in Nat \ {0} /\ DOMAIN Blocks(r) = 1 .. Len(Blocks(r))
  BY <1>1
<1> DEFINE n == Len(Blocks(r))
           f == [k \in 1 .. n |-> <<r, k>>]
<1>3. f \in Bijection(1 .. n, Pages(r))
  <2>1. Pages(r) = {<<r, k>> : k \in 1 .. n}
    BY <1>2 DEF Pages
  <2>2. f \in [1 .. n -> Pages(r)]
    BY <2>1
  <2>3. \A a, b \in 1 .. n : f[a] = f[b] => a = b
    OBVIOUS
  <2>4. \A t \in Pages(r) : \E s \in 1 .. n : f[s] = t
    BY <2>1
  <2> HIDE DEF f, n
  <2>5. f \in Injection(1 .. n, Pages(r)) /\ f \in Surjection(1 .. n, Pages(r))
    BY <2>2, <2>3, <2>4 DEF Injection, Surjection, IsInjective
  <2>6. QED
    BY <2>5 DEF Bijection
<1>4. IsFiniteSet(1 .. n) /\ Cardinality(1 .. n) = n
  <2>1. n \in Int /\ n >= 1 /\ 1 \in Int
    BY <1>2
  <2> HIDE DEF n
  <2>2. IsFiniteSet(1 .. n) /\ Cardinality(1 .. n) = IF 1 > n THEN 0 ELSE n - 1 + 1
    BY <2>1, FS_Interval
  <2>3. QED
    BY <2>1, <2>2
<1> HIDE DEF f, n
<1>5. IsFiniteSet(Pages(r)) /\ Cardinality(Pages(r)) = n
  <2>1. ExistsBijection(1 .. n, Pages(r))
    BY <1>3, Zenon DEF ExistsBijection
  <2>2. QED
    BY <1>4, <2>1, FS_Bijection
<1>6. QED
  BY <1>1, <1>2, <1>5 DEF n, IsInjective

\* A page is one of its request, and goes to an element.
LEMMA PageElement ==
  ASSUME config \in Configurations, NEW r \in Requests, NEW p \in Pages(r)
  PROVE  p[1] = r /\ BlockOf(p) \in Nat /\ ElementOf(p) \in Elements
<1>1. PICK k \in DOMAIN Blocks(r) : p = <<r, k>>
  BY DEF Pages
<1>2. BlockOf(p) \in Nat
  BY <1>1, RequestPages DEF BlockOf
<1>3. config.elements \in Nat \ {0}
  BY SSDAssumption
<1>4. BlockOf(p) % config.elements \in 0 .. config.elements - 1
  BY <1>2, <1>3
<1>5. QED
  BY <1>1, <1>2, <1>4 DEF ElementOf, Elements

\* The pages of different requests are different.
LEMMA PagesOnElements ==
  ASSUME config \in Configurations, NEW rs \in Seq(Requests), IsInjective(rs),
         NEW e \in Elements
  PROVE  /\ PagesOn(rs, e) \in Seq(AllPages) /\ IsInjective(PagesOn(rs, e))
         /\ ToSet(PagesOn(rs, e)) =
              {p \in AllPages : p[1] \in ToSet(rs) /\ ElementOf(p) = e}
<1> DEFINE Piece(p)  == IF ElementOf(p) = e THEN <<p>> ELSE <<>>
           pieces(r) == [k \in DOMAIN Blocks(r) |-> Piece(<<r, k>>)]
           On(r)     == {p \in Pages(r) : ElementOf(p) = e}
           all       == [i \in DOMAIN rs |-> FlattenSeq(pieces(rs[i]))]
<1>1. ASSUME NEW p \in AllPages
      PROVE  /\ Piece(p) \in Seq(AllPages) /\ IsInjective(Piece(p))
             /\ ToSet(Piece(p)) = IF ElementOf(p) = e THEN {p} ELSE {}
  BY DEF IsInjective, ToSet
<1>2. ASSUME NEW r \in Requests
      PROVE  /\ FlattenSeq(pieces(r)) \in Seq(AllPages) /\ IsInjective(FlattenSeq(pieces(r)))
             /\ ToSet(FlattenSeq(pieces(r))) = On(r)
  <2>1. DOMAIN Blocks(r) = 1 .. Len(Blocks(r)) /\ Len(Blocks(r)) \in Nat
    BY RequestPages
  <2>2. \A k \in DOMAIN Blocks(r) : <<r, k>> \in Pages(r) /\ <<r, k>> \in AllPages
    BY DEF Pages, AllPages
  <2> DEFINE ps == pieces(r)
  <2>3. /\ DOMAIN ps = DOMAIN Blocks(r)
        /\ \A k \in DOMAIN Blocks(r) : ps[k] = Piece(<<r, k>>)
    OBVIOUS
  <2>4. \A k \in DOMAIN Blocks(r) :
          /\ ps[k] \in Seq(AllPages) /\ IsInjective(ps[k])
          /\ ToSet(ps[k]) = IF ElementOf(<<r, k>>) = e THEN {<<r, k>>} ELSE {}
    BY <1>1, <2>2, <2>3
  <2>5. ps \in Seq(Seq(AllPages))
    <3>1. ps \in [1 .. Len(Blocks(r)) -> Seq(AllPages)]
      BY <2>1, <2>4
    <3> HIDE DEF ps
    <3>2. QED
      BY <2>1, <3>1
  <2> HIDE DEF ps, Piece
  <2>6. \A i, j \in DOMAIN ps : i # j => ToSet(ps[i]) \cap ToSet(ps[j]) = {}
    <3>1. \A k \in DOMAIN ps : ToSet(ps[k]) \subseteq {<<r, k>>}
      BY <2>3, <2>4
    <3>2. \A i, j \in DOMAIN ps : i # j => <<r, i>> # <<r, j>>
      OBVIOUS
    <3>3. QED
      BY <3>1, <3>2
  <2>7. /\ FlattenSeq(ps) \in Seq(AllPages) /\ IsInjective(FlattenSeq(ps))
        /\ ToSet(FlattenSeq(ps)) = UNION {ToSet(ps[i]) : i \in DOMAIN ps}
    BY <2>3, <2>4, <2>5, <2>6, FlattenSeqElements
  <2>8. UNION {ToSet(ps[i]) : i \in DOMAIN ps} = On(r)
    <3>1. ASSUME NEW x \in On(r) PROVE \E i \in DOMAIN ps : x \in ToSet(ps[i])
      <4>1. PICK k \in DOMAIN Blocks(r) : x = <<r, k>>
        BY DEF Pages
      <4>2. k \in DOMAIN ps /\ x \in ToSet(ps[k])
        BY <2>3, <2>4, <4>1
      <4>3. QED
        BY <4>2
    <3>2. ASSUME NEW i \in DOMAIN ps, NEW x \in ToSet(ps[i]) PROVE x \in On(r)
      BY <2>2, <2>3, <2>4
    <3>3. QED
      BY <3>1, <3>2
  <2>9. QED
    BY <2>7, <2>8 DEF ps
<1> HIDE DEF pieces, Piece
<1>3. /\ Len(rs) \in Nat /\ DOMAIN rs = 1 .. Len(rs)
      /\ \A i \in DOMAIN rs : rs[i] \in Requests
  OBVIOUS
<1>4. /\ DOMAIN all = DOMAIN rs
      /\ \A i \in DOMAIN rs : /\ all[i] \in Seq(AllPages) /\ IsInjective(all[i])
                              /\ ToSet(all[i]) = On(rs[i])
  BY <1>2, <1>3
<1>5. all \in Seq(Seq(AllPages))
  <2>1. all \in [1 .. Len(rs) -> Seq(AllPages)]
    BY <1>3, <1>4
  <2> HIDE DEF all
  <2>2. QED
    BY <1>3, <2>1
<1>6. \A i, j \in DOMAIN all : i # j => ToSet(all[i]) \cap ToSet(all[j]) = {}
  <2> SUFFICES ASSUME NEW i \in DOMAIN rs, NEW j \in DOMAIN rs, i # j
               PROVE  On(rs[i]) \cap On(rs[j]) = {}
    BY <1>4
  <2>1. rs[i] # rs[j]
    BY DEF IsInjective
  <2>2. QED
    BY <2>1 DEF Pages
<1>7. PagesOn(rs, e) = FlattenSeq(all)
  BY Zenon DEF PagesOn, all, pieces, Piece
<1> HIDE DEF all
<1>8. /\ FlattenSeq(all) \in Seq(AllPages) /\ IsInjective(FlattenSeq(all))
      /\ ToSet(FlattenSeq(all)) = UNION {ToSet(all[i]) : i \in DOMAIN all}
  BY <1>4, <1>5, <1>6, FlattenSeqElements
<1>9. UNION {ToSet(all[i]) : i \in DOMAIN all} =
        {p \in AllPages : p[1] \in ToSet(rs) /\ ElementOf(p) = e}
  <2>1. UNION {ToSet(all[i]) : i \in DOMAIN all} = UNION {On(rs[i]) : i \in DOMAIN rs}
    BY <1>4
  <2>2. \A r \in Requests : \A p \in Pages(r) : p[1] = r /\ p \in AllPages
    BY DEF Pages, AllPages
  <2>3. \A p \in AllPages : p[1] \in Requests /\ p \in Pages(p[1])
    BY <2>2 DEF AllPages
  <2>4. QED
    BY <1>3, <2>1, <2>2, <2>3 DEF ToSet
<1>10. QED
  BY <1>7, <1>8, <1>9

-----------------------------------------------------------------------------
(* Collecting the pages of an element. *)

\* The pages of the kind that count towards the limit, among the first n.
Counted(w, n, read) == {i \in 1 .. n : IsRead(w[i][1]) = read} \ Repeats(w, n)

\* More of a queue counts no less.
LEMMA CountedGrows ==
  ASSUME NEW w, NEW m \in Nat, NEW n \in Nat, m <= n, NEW read \in BOOLEAN
  PROVE  /\ IsFiniteSet(Counted(w, m, read)) /\ Cardinality(Counted(w, m, read)) \in Nat
         /\ Cardinality(Counted(w, m, read)) <= Cardinality(Counted(w, n, read))
<1>1. \A k \in Nat : IsFiniteSet(Counted(w, k, read))
  <2> SUFFICES ASSUME NEW k \in Nat PROVE IsFiniteSet(Counted(w, k, read))
    OBVIOUS
  <2>1. IsFiniteSet(1 .. k)
    BY FS_Interval
  <2>2. Counted(w, k, read) \subseteq 1 .. k
    BY DEF Counted
  <2>3. QED
    BY <2>1, <2>2, FS_Subset
<1>2. Counted(w, m, read) \subseteq Counted(w, n, read)
  BY DEF Counted, Repeats
<1>3. QED
  BY <1>1, <1>2, FS_Subset, FS_CardinalityType

\* When the first m pages of a queue fill a batch, so do the first n.
LEMMA FullGrows ==
  ASSUME config \in Configurations, NEW w, NEW m \in Nat, NEW n \in Nat, m <= n, Full(w, m)
  PROVE  Full(w, n)
<1>1. config.maxReqs \in Nat \ {0}
  BY SSDAssumption
<1>2. PICK read \in BOOLEAN : Cardinality(Counted(w, m, read)) >= config.maxReqs
  BY Zenon DEF Full, Counted
<1>3. /\ Cardinality(Counted(w, m, read)) \in Nat /\ Cardinality(Counted(w, n, read)) \in Nat
      /\ Cardinality(Counted(w, m, read)) <= Cardinality(Counted(w, n, read))
  <2>1. n <= n
    OBVIOUS
  <2>2. QED
    BY <2>1, CountedGrows
<1>4. Cardinality(Counted(w, n, read)) >= config.maxReqs
  BY <1>1, <1>2, <1>3
<1>5. QED
  BY <1>4, Zenon DEF Full, Counted

\* Collecting takes a page at least, and none once the batch is full.
LEMMA NumCollectedRange ==
  ASSUME config \in Configurations, NEW w \in Seq(AllPages), w # <<>>
  PROVE  /\ NumCollected(w) \in 1 .. Len(w)
         /\ \A i \in 1 .. NumCollected(w) : ~Full(w, i - 1)
<1>1. Len(w) \in Nat \ {0}
  OBVIOUS
<1> DEFINE T == {n \in 1 .. Len(w) : Full(w, n)}
           Least(n) == n \in 1 .. Len(w) /\ Full(w, n) /\ ~Full(w, n - 1)
<1>2. CASE ~Full(w, Len(w))
  <2>1. NumCollected(w) = Len(w)
    BY <1>2, Zenon DEF NumCollected
  <2>2. ASSUME NEW i \in 1 .. Len(w), Full(w, i - 1) PROVE FALSE
    <3>1. i - 1 \in Nat /\ Len(w) \in Nat /\ i - 1 <= Len(w)
      BY <1>1
    <3>2. Full(w, Len(w))
      BY <2>2, <3>1, FullGrows
    <3>3. QED
      BY <1>2, <3>2
  <2>3. QED
    BY <1>1, <2>1, <2>2
<1>3. CASE Full(w, Len(w))
  <2>1. PICK n \in T : \A k \in T : n <= k
    <3>1. T \subseteq Nat /\ T # {}
      BY <1>1, <1>3
    <3> HIDE DEF T
    <3>2. QED
      BY <3>1, LeastNat
  <2>2. Least(n)
    <3>1. n \in 1 .. Len(w) /\ Full(w, n)
      BY <2>1
    <3>2. ASSUME Full(w, n - 1) PROVE FALSE
      <4>1. CASE n = 1
        <5>1. \A read : Counted(w, 0, read) = {}
          BY DEF Counted
        <5>2. Full(w, 0)
          BY <3>2, <4>1
        <5>3. PICK read \in BOOLEAN : Cardinality(Counted(w, 0, read)) >= config.maxReqs
          BY <5>2, Zenon DEF Full, Counted
        <5>4. Cardinality(Counted(w, 0, read)) = 0
          BY <5>1, FS_EmptySet
        <5>5. QED
          BY <5>3, <5>4, SSDAssumption
      <4>2. CASE n # 1
        <5>1. n - 1 \in T /\ ~(n <= n - 1)
          BY <1>1, <3>1, <3>2, <4>2
        <5>2. QED
          BY <2>1, <5>1
      <4>3. QED
        BY <4>1, <4>2
    <3>3. QED
      BY <3>1, <3>2
  <2> DEFINE m == CHOOSE k \in 1 .. Len(w) : Full(w, k) /\ ~Full(w, k - 1)
  <2>3. m \in 1 .. Len(w) /\ Full(w, m) /\ ~Full(w, m - 1)
    BY <2>2, Zenon
  <2>4. NumCollected(w) = m
    BY <1>3, Zenon DEF NumCollected
  <2> HIDE DEF m
  <2>5. ASSUME NEW i \in 1 .. m, Full(w, i - 1) PROVE FALSE
    <3>1. i - 1 \in Nat /\ m - 1 \in Nat /\ i - 1 <= m - 1
      BY <1>1, <2>3
    <3>2. Full(w, m - 1)
      BY <2>5, <3>1, FullGrows
    <3>3. QED
      BY <2>3, <3>2
  <2>6. QED
    BY <2>3, <2>4, <2>5
<1>4. QED
  BY <1>2, <1>3

\* A write whose page is thrown can be thrown: another write has a page of the block.
LEMMA RepeatsAllowed ==
  ASSUME config \in Configurations, NEW w \in Seq(AllPages), IsInjective(w), w # <<>>,
         NEW i \in Repeats(w, NumCollected(w))
  PROVE  ThrownAllowed(w[i])
<1> SUFFICES ASSUME ~IsRead(w[i][1]), ~Neverdisconnect PROVE MayThrow(w[i][1])
  BY DEF ThrownAllowed
<1>1. i \in 1 .. NumCollected(w) /\ NumCollected(w) \in 1 .. Len(w) /\ ~Full(w, i - 1)
  BY NumCollectedRange DEF Repeats
<1>2. i \in 1 .. Len(w) /\ Len(w) \in Nat /\ DOMAIN w = 1 .. Len(w)
  BY <1>1
<1> DEFINE T == {j \in 1 .. i - 1 : Same(w[j], w[i])}
<1>3. PICK j \in T : \A k \in T : j <= k
  <2>1. T \subseteq Nat /\ T # {}
    BY <1>2 DEF Repeats
  <2> HIDE DEF T
  <2>2. QED
    BY <2>1, LeastNat
<1>4. j \in 1 .. i - 1 /\ j \in 1 .. Len(w) /\ Same(w[j], w[i])
  BY <1>2, <1>3
<1>5. config.maxReqs > 1
  <2> DEFINE read == IsRead(w[j][1])
  <2>1. j \notin Repeats(w, i - 1)
    <3> SUFFICES ASSUME j \in Repeats(w, i - 1) PROVE FALSE
      OBVIOUS
    <3>1. PICK k \in 1 .. j - 1 : Same(w[k], w[j])
      BY DEF Repeats
    <3>2. k \in T /\ ~(j <= k)
      BY <1>2, <1>4, <3>1 DEF Same
    <3>3. QED
      BY <1>3, <3>2
  <2>2. j \in Counted(w, i - 1, read)
    BY <1>4, <2>1 DEF Counted
  <2>3. read \in BOOLEAN
    <3>1. w[j] \in AllPages
      BY <1>2, <1>4
    <3>2. w[j][1] \in Requests
      BY <3>1 DEF AllPages, Pages
    <3>3. QED
      BY <3>2, SSDAssumption DEF IsRead, Requests
  <2> HIDE DEF read
  <2>4. i - 1 \in Nat /\ i - 1 <= i - 1
    BY <1>2
  <2>5. /\ IsFiniteSet(Counted(w, i - 1, read)) /\ Cardinality(Counted(w, i - 1, read)) \in Nat
    BY <2>3, <2>4, CountedGrows
  <2>6. Cardinality(Counted(w, i - 1, read)) # 0
    BY <2>2, <2>5, FS_EmptySet
  <2>7. ~(Cardinality(Counted(w, i - 1, read)) >= config.maxReqs)
    BY <1>1, <2>3, Zenon DEF Full, Counted
  <2>8. config.maxReqs \in Nat \ {0}
    BY SSDAssumption
  <2>9. QED
    BY <2>5, <2>6, <2>7, <2>8
<1> DEFINE r == w[i][1]
           q == w[j][1]
<1>6. /\ r \in Requests /\ w[i] \in Pages(r)
      /\ q \in Requests /\ w[j] \in Pages(q)
  <2>1. w[i] \in AllPages /\ w[j] \in AllPages
    BY <1>2, <1>4
  <2>2. \A p \in AllPages : p[1] \in Requests /\ p \in Pages(p[1])
    BY DEF AllPages, Pages
  <2>3. QED
    BY <2>1, <2>2
<1> HIDE DEF r, q
<1>7. PICK k \in DOMAIN Blocks(r) : w[i] = <<r, k>>
  BY <1>6 DEF Pages
<1>8. PICK m \in DOMAIN Blocks(q) : w[j] = <<q, m>>
  BY <1>6 DEF Pages
<1>9. Blocks(r)[k] = Blocks(q)[m] /\ IsRead(r) = IsRead(q)
  BY <1>4, <1>7, <1>8 DEF Same, BlockOf
<1>10. q # r
  <2> SUFFICES ASSUME q = r PROVE FALSE
    OBVIOUS
  <2>1. k = m
    BY <1>6, <1>7, <1>8, <1>9, RequestPages
  <2>2. w[i] = w[j]
    BY <1>7, <1>8, <2>1
  <2>3. QED
    BY <1>2, <1>4, <2>2 DEF IsInjective
<1>11. ToSet(Blocks(q)) \cap ToSet(Blocks(r)) # {}
  BY <1>7, <1>8, <1>9 DEF ToSet
<1>12. ~IsRead(r) /\ ~IsRead(q)
  BY <1>9 DEF r
<1>13. MayThrow(r)
  BY <1>5, <1>6, <1>10, <1>11, <1>12 DEF MayThrow
<1>14. QED
  BY <1>13 DEF r

-----------------------------------------------------------------------------
(* Activating an element. *)

\* Collecting moves pages from the queue into service, and loses none.
LEMMA IssuedInv ==
  ASSUME config \in Configurations, NEW e, NEW el, Consistent(el, e),
         ~el.media_busy, el.waiting # <<>>
  PROVE  ElementInv(Issued(el), e) /\ ElementPages(Issued(el)) = ElementPages(el)
<1> DEFINE w == el.waiting
           n == NumCollected(w)
           u == SubSeq(w, n + 1, Len(w))
           service == {w[i] : i \in 1 .. n}
           thrown  == {w[i] : i \in Repeats(w, n)}
           new == Issued(el)
<1>1. /\ el \in ElementRecords /\ w \in Seq(AllPages) /\ IsInjective(w)
      /\ el.service = {} /\ ~el.cleaning
  BY DEF Consistent, ElementRecords
<1>2. /\ n \in 1 .. Len(w) /\ Len(w) \in Nat /\ DOMAIN w = 1 .. Len(w)
      /\ \A i \in Repeats(w, n) : ThrownAllowed(w[i])
  BY <1>1, NumCollectedRange, RepeatsAllowed
<1> HIDE DEF n
<1>3. /\ u \in Seq(AllPages) /\ Len(u) = Len(w) - n
      /\ \A i \in 1 .. Len(w) - n : u[i] = w[n + i]
  <2>1. n + 1 \in 1 .. Len(w) + 1 /\ Len(w) \in 0 .. Len(w)
    BY <1>2
  <2>2. /\ u \in Seq(AllPages)
        /\ Len(u) = IF n + 1 <= Len(w) THEN Len(w) - (n + 1) + 1 ELSE 0
        /\ \A i \in 1 .. Len(w) - (n + 1) + 1 : u[i] = w[n + 1 + i - 1]
    BY <1>1, <2>1, SubSeqElements
  <2> HIDE DEF u, w
  <2>3. Len(u) = Len(w) - n
    <3> DEFINE m == Len(w)
    <3>1. n \in Int /\ m \in Int /\ n <= m
      BY <1>2
    <3>2. Len(u) = IF n + 1 <= m THEN m - (n + 1) + 1 ELSE 0
      BY <2>2, Zenon
    <3> HIDE DEF m
    <3>3. Len(u) = m - n
      BY <3>1, <3>2
    <3>4. QED
      BY <3>3 DEF m
  <2>4. ASSUME NEW i \in 1 .. Len(w) - n PROVE u[i] = w[n + i]
    <3>1. i \in 1 .. Len(w) - (n + 1) + 1 /\ n + 1 + i - 1 = n + i
      BY <1>2
    <3>2. QED
      BY <2>2, <3>1
  <2>5. QED
    BY <2>2, <2>3, <2>4
<1>4. DOMAIN u = 1 .. Len(w) - n
  <2> HIDE DEF u
  <2>1. QED
    BY <1>3
<1> DEFINE dirty == new.dirty
<1>5. /\ new.waiting = u /\ new.service = service /\ new.thrown = thrown
      /\ new.media_busy = TRUE /\ new.cleaning = el.cleaning
      /\ new \in [waiting : {u}, service : {service}, thrown : {thrown},
                  media_busy : {TRUE}, cleaning : {el.cleaning}, dirty : {dirty}]
      /\ dirty = (el.dirty \/ \E i \in 1 .. n : ~IsRead(w[i][1]))
  BY <1>1 DEF Issued, ElementRecords, n
<1> HIDE DEF u
<1>6. dirty \in BOOLEAN
  <2>1. dirty = (el.dirty \/ \E i \in 1 .. n : ~IsRead(w[i][1]))
    BY <1>5
  <2> HIDE DEF dirty
  <2>2. QED
    BY <2>1
<1> HIDE DEF dirty, new
<1>7. /\ service \subseteq ToSet(w) /\ ToSet(w) \subseteq AllPages
      /\ thrown \subseteq service /\ w[1] \in service
  <2>1. 1 \in 1 .. n /\ 1 .. n \subseteq DOMAIN w
    BY <1>2
  <2>2. Repeats(w, n) \subseteq 1 .. n
    BY DEF Repeats
  <2>3. \A i \in DOMAIN w : w[i] \in AllPages
    BY <1>1
  <2> HIDE DEF w
  <2>4. QED
    BY <2>1, <2>2, <2>3 DEF ToSet
<1>8. ToSet(u) = ToSet(w) \ service
  <2>1. ASSUME NEW x \in ToSet(u) PROVE x \in ToSet(w) \ service
    <3>1. PICK i \in 1 .. Len(w) - n : x = w[n + i]
      BY <1>3, <1>4 DEF ToSet
    <3>2. n + i \in DOMAIN w /\ \A j \in 1 .. n : j \in DOMAIN w /\ j # n + i
      BY <1>2
    <3>3. QED
      BY <1>1, <3>1, <3>2 DEF ToSet, IsInjective
  <2>2. ASSUME NEW x \in ToSet(w) \ service PROVE x \in ToSet(u)
    <3>1. PICK i \in DOMAIN w : x = w[i]
      BY DEF ToSet
    <3>2. i - n \in 1 .. Len(w) - n /\ i = n + (i - n)
      BY <1>2, <3>1
    <3>3. QED
      BY <1>3, <1>4, <3>1, <3>2 DEF ToSet
  <2>3. QED
    BY <2>1, <2>2
<1>9. IsInjective(u)
  <2> SUFFICES ASSUME NEW a \in DOMAIN u, NEW b \in DOMAIN u, u[a] = u[b] PROVE a = b
    BY DEF IsInjective
  <2>1. n + a \in DOMAIN w /\ n + b \in DOMAIN w /\ w[n + a] = w[n + b]
    BY <1>2, <1>3, <1>4
  <2>2. n + a = n + b
    BY <1>1, <2>1 DEF IsInjective
  <2>3. QED
    BY <1>2, <1>4, <2>2
<1>10. new \in ElementRecords
  <2>1. /\ service \in SUBSET AllPages /\ thrown \in SUBSET AllPages
        /\ el.cleaning \in BOOLEAN
    BY <1>1, <1>7 DEF ElementRecords
  <2> HIDE DEF service, thrown
  <2>2. QED
    BY <1>3, <1>5, <1>6, <2>1 DEF ElementRecords
<1>11. ElementPages(new) = ElementPages(el)
  BY <1>1, <1>5, <1>7, <1>8 DEF ElementPages
<1>12. \A p \in thrown : ThrownAllowed(p)
  BY <1>2
<1> HIDE DEF service, thrown
<1>13. Consistent(new, e)
  <2>1. \A p \in ElementPages(new) : ElementOf(p) = e
    BY <1>11 DEF Consistent
  <2>2. QED
    BY <1>1, <1>5, <1>7, <1>8, <1>9, <1>10, <1>12, <2>1 DEF Consistent
<1>14. QED
  BY <1>5, <1>11, <1>13 DEF ElementInv, new

\* An element that is looked after cleans, serves, or has nothing to do, and loses no page.
LEMMA ActivatedInv ==
  ASSUME config \in Configurations, NEW e, NEW el, Consistent(el, e),
         NEW clean \in BOOLEAN
  PROVE  ElementInv(Activated(el, clean), e) /\ ElementPages(Activated(el, clean)) = ElementPages(el)
<1>1. el \in ElementRecords
  BY DEF Consistent
<1>2. CleansFirst(el, clean) \in BOOLEAN
  BY DEF CleansFirst
<1>3. CASE el.media_busy
  <2>1. Activated(el, clean) = el
    BY <1>3, Zenon DEF Activated
  <2>2. QED
    BY <1>3, <2>1 DEF ElementInv
<1>4. CASE ~el.media_busy /\ CleansFirst(el, clean)
  <2> DEFINE new == [el EXCEPT !.media_busy = TRUE, !.cleaning = TRUE, !.dirty = FALSE]
  <2>1. Activated(el, clean) = new
    BY <1>4, Zenon DEF Activated
  <2>2. /\ new \in ElementRecords /\ new.waiting = el.waiting /\ new.service = el.service
        /\ new.thrown = el.thrown /\ new.media_busy = TRUE /\ new.cleaning = TRUE
    BY <1>1 DEF ElementRecords
  <2> HIDE DEF new
  <2>3. ElementPages(new) = ElementPages(el) /\ el.service = {}
    BY <1>4, <2>2 DEF ElementPages, Consistent
  <2>4. Consistent(new, e)
    BY <2>2, <2>3 DEF Consistent
  <2>5. QED
    BY <2>1, <2>2, <2>3, <2>4 DEF ElementInv
<1>5. CASE ~el.media_busy /\ ~CleansFirst(el, clean)
  <2>1. CASE el.waiting = <<>>
    <3>1. Activated(el, clean) = el
      BY <1>5, <2>1, Zenon DEF Activated
    <3>2. QED
      BY <2>1, <3>1 DEF ElementInv
  <2>2. CASE el.waiting # <<>>
    <3>1. Activated(el, clean) = Issued(el)
      BY <1>5, <2>2, Zenon DEF Activated
    <3>2. QED
      BY <1>5, <2>2, <3>1, IssuedInv
  <2>3. QED
    BY <2>1, <2>2
<1>6. QED
  BY <1>2, <1>3, <1>4, <1>5

-----------------------------------------------------------------------------
(* Asking the elements for pages. *)

\* More pages are asked for.
Extended(el, t) == [el EXCEPT !.waiting = el.waiting \o t]

\* New pages join the queue of their element.
LEMMA WaitingExtended ==
  ASSUME config \in Configurations, NEW e, NEW el, Consistent(el, e),
         NEW t \in Seq(AllPages), IsInjective(t), ToSet(t) \cap ElementPages(el) = {},
         \A p \in ToSet(t) : ElementOf(p) = e
  PROVE  /\ Consistent(Extended(el, t), e)
         /\ ElementPages(Extended(el, t)) = ElementPages(el) \cup ToSet(t)
         /\ Extended(el, t).media_busy = el.media_busy
<1> DEFINE u == el.waiting \o t
           new == Extended(el, t)
<1>1. el \in ElementRecords /\ el.waiting \in Seq(AllPages) /\ IsInjective(el.waiting)
  BY DEF Consistent, ElementRecords
<1>2. ToSet(el.waiting) \cap ToSet(t) = {}
  BY DEF ElementPages
<1>3. u \in Seq(AllPages) /\ IsInjective(u) /\ ToSet(u) = ToSet(el.waiting) \cup ToSet(t)
  BY <1>1, <1>2, ConcatElements
<1> HIDE DEF u
<1>4. /\ new \in ElementRecords /\ new.waiting = u /\ new.service = el.service
      /\ new.thrown = el.thrown /\ new.media_busy = el.media_busy
      /\ new.cleaning = el.cleaning
  BY <1>1, <1>3 DEF ElementRecords, Extended, u
<1> HIDE DEF new
<1>5. ElementPages(new) = ElementPages(el) \cup ToSet(t)
  BY <1>3, <1>4 DEF ElementPages
<1>6. Consistent(new, e)
  <2>1. ToSet(u) \cap el.service = {}
    BY <1>3 DEF Consistent, ElementPages
  <2>2. \A p \in ElementPages(new) : ElementOf(p) = e
    BY <1>5 DEF Consistent
  <2>3. QED
    BY <1>3, <1>4, <2>1, <2>2 DEF Consistent
<1>7. QED
  BY <1>4, <1>5, <1>6 DEF new

\* The pages of rs on element e.
Asked(rs, e) == {p \in AllPages : p[1] \in ToSet(rs) /\ ElementOf(p) = e}

\* ssd_media_access_request gives every element the pages that go to it.
LEMMA MediaAccessInv ==
  ASSUME config \in Configurations, NEW els, \A e \in Elements : ElementInv(els[e], e),
         NEW rs \in Seq(Requests), IsInjective(rs),
         \A e \in Elements : \A p \in ElementPages(els[e]) : p[1] \notin ToSet(rs),
         NEW clean, NEW e \in Elements
  PROVE  /\ ElementInv(MediaAccess(els, rs, clean)[e], e)
         /\ ElementPages(MediaAccess(els, rs, clean)[e]) = ElementPages(els[e]) \cup Asked(rs, e)
<1> DEFINE ps == PagesOn(rs, e)
           el == els[e]
           pre == [el EXCEPT !.waiting = Append(el.waiting, Head(ps))]
           act == Activated(pre, e \in clean)
           all == [act EXCEPT !.waiting = act.waiting \o Tail(ps)]
           new == MediaAccess(els, rs, clean)[e]
<1>1. ps \in Seq(AllPages) /\ IsInjective(ps) /\ ToSet(ps) = Asked(rs, e)
  BY PagesOnElements DEF Asked
<1>2. /\ ps = <<>> => new = el
      /\ ps # <<>> => new = [act EXCEPT !.waiting = @ \o Tail(ps)]
  BY DEF MediaAccess
<1>3. ElementInv(el, e) /\ Consistent(el, e)
  BY DEF ElementInv
<1> HIDE DEF ps, el, new, act, pre
<1>4. CASE ps = <<>>
  <2>1. ToSet(ps) = {}
    BY <1>4 DEF ToSet
  <2>2. QED
    BY <1>1, <1>2, <1>3, <1>4, <2>1 DEF new, el
<1>5. CASE ps # <<>>
  <2> DEFINE h == Head(ps)
             t == Tail(ps)
  <2>1. /\ h \in AllPages /\ t \in Seq(AllPages) /\ IsInjective(t) /\ h \notin ToSet(t)
        /\ ToSet(ps) = {h} \cup ToSet(t)
    BY <1>1, <1>5, HeadTailElements
  <2>2. ToSet(ps) \cap ElementPages(el) = {} /\ \A p \in ToSet(ps) : ElementOf(p) = e
    BY <1>1 DEF Asked, el
  <2> HIDE DEF h, t
  <2>3. /\ <<h>> \in Seq(AllPages) /\ IsInjective(<<h>>) /\ ToSet(<<h>>) = {h}
    BY <2>1 DEF IsInjective, ToSet
  <2>4. el.waiting \in Seq(AllPages)
    BY <1>3 DEF Consistent, ElementRecords
  <2>5. pre = Extended(el, <<h>>)
    <3>1. Append(el.waiting, h) = el.waiting \o <<h>>
      BY <2>1, <2>4, SMTT(20)
    <3>2. pre = [el EXCEPT !.waiting = Append(el.waiting, h)]
      BY Zenon DEF pre, h
    <3>3. QED
      BY <3>1, <3>2, Zenon DEF Extended
  <2>6. Consistent(pre, e) /\ ElementPages(pre) = ElementPages(el) \cup {h}
    <3>1. /\ ToSet(<<h>>) \cap ElementPages(el) = {}
          /\ \A p \in ToSet(<<h>>) : ElementOf(p) = e
      BY <2>1, <2>2, <2>3
    <3>2. /\ Consistent(Extended(el, <<h>>), e)
          /\ ElementPages(Extended(el, <<h>>)) = ElementPages(el) \cup ToSet(<<h>>)
      <4> DEFINE one == <<h>>
      <4>1. /\ one \in Seq(AllPages) /\ IsInjective(one) /\ ToSet(one) \cap ElementPages(el) = {}
            /\ \A p \in ToSet(one) : ElementOf(p) = e
        BY <2>3, <3>1, Zenon
      <4> HIDE DEF one
      <4>2. Consistent(Extended(el, one), e)
        BY <1>3, <4>1, WaitingExtended
      <4>3. ElementPages(Extended(el, one)) = ElementPages(el) \cup ToSet(one)
        BY <1>3, <4>1, WaitingExtended
      <4>4. QED
        BY <4>2, <4>3, Zenon DEF one
    <3>3. QED
      BY <2>3, <2>5, <3>2
  <2>7. ElementInv(act, e) /\ ElementPages(act) = ElementPages(el) \cup {h}
    <3>1. (e \in clean) \in BOOLEAN
      OBVIOUS
    <3> DEFINE b == e \in clean
    <3>2. b \in BOOLEAN
      OBVIOUS
    <3> HIDE DEF b
    <3>3. /\ ElementInv(Activated(pre, b), e)
          /\ ElementPages(Activated(pre, b)) = ElementPages(pre)
      BY <2>6, <3>2, ActivatedInv
    <3>4. act = Activated(pre, b)
      BY DEF act, b
    <3>5. QED
      BY <2>6, <3>3, <3>4
  <2>8. Consistent(act, e) /\ act \in ElementRecords
    BY <2>7 DEF ElementInv, Consistent
  <2>9. act.media_busy
    <3>1. CASE act.waiting = <<>>
      <4>1. h \in ElementPages(act) /\ ToSet(act.waiting) = {}
        BY <2>7, <3>1 DEF ToSet
      <4>2. QED
        BY <2>8, <4>1 DEF ElementPages, Consistent
    <3>2. CASE act.waiting # <<>>
      BY <2>7, <3>2 DEF ElementInv
    <3>3. QED
      BY <3>1, <3>2
  <2>10. new = Extended(act, t)
    BY <1>2, <1>5, <2>8 DEF ElementRecords, Extended, t
  <2>11. /\ Consistent(new, e) /\ ElementPages(new) = ElementPages(act) \cup ToSet(t)
         /\ new.media_busy = act.media_busy
    <3>1. ToSet(t) \cap ElementPages(act) = {} /\ \A p \in ToSet(t) : ElementOf(p) = e
      BY <2>1, <2>2, <2>7
    <3>2. /\ Consistent(Extended(act, t), e)
          /\ ElementPages(Extended(act, t)) = ElementPages(act) \cup ToSet(t)
          /\ Extended(act, t).media_busy = act.media_busy
      BY <2>1, <2>8, <3>1, WaitingExtended
    <3>3. QED
      BY <2>10, <3>2
  <2>12. ElementPages(new) = ElementPages(el) \cup Asked(rs, e)
    BY <1>1, <2>1, <2>7, <2>11
  <2>13. ElementInv(new, e)
    BY <2>9, <2>11 DEF ElementInv
  <2>14. QED
    BY <2>12, <2>13 DEF new, el
<1>6. QED
  BY <1>4, <1>5

-----------------------------------------------------------------------------
(* The counts of the pages the elements hold. *)

\* The pages of r that the elements els hold.
HeldIn(els, r) == {p \in Pages(r) : p \in ElementPages(els[ElementOf(p)])}

PiecesInv(els, rm) ==
  /\ els = [e \in Elements |-> els[e]]
  /\ \A e \in Elements : ElementInv(els[e], e)
  /\ rm \in [Requests -> Nat]
  /\ \A r \in Requests : rm[r] = Cardinality(HeldIn(els, r))

\* A page an element holds is a request's, and goes to that element.
LEMMA ElementPagesType ==
  ASSUME NEW e, NEW el, Consistent(el, e), NEW p \in ElementPages(el)
  PROVE  p \in AllPages /\ p[1] \in Requests /\ p \in Pages(p[1]) /\ ElementOf(p) = e
<1>1. el.waiting \in Seq(AllPages) /\ el.service \subseteq AllPages
  BY DEF Consistent, ElementRecords
<1>2. p \in AllPages
  BY <1>1 DEF ElementPages, ToSet
<1>3. QED
  BY <1>2 DEF Consistent, AllPages, Pages

\* The pages of SSD.tla's Held, by the element each is on.
LEMMA HeldIsHeldIn ==
  ASSUME config \in Configurations, NEW els, \A e \in Elements : ElementInv(els[e], e),
         NEW r \in Requests
  PROVE  HeldIn(els, r) = UNION {{p \in ElementPages(els[e]) : p[1] = r} : e \in Elements}
<1>1. \A e \in Elements : Consistent(els[e], e)
  BY DEF ElementInv
<1>2. ASSUME NEW p \in HeldIn(els, r)
      PROVE  p[1] = r /\ \E e \in Elements : p \in ElementPages(els[e])
  BY PageElement DEF HeldIn
<1>3. ASSUME NEW e \in Elements, NEW p \in ElementPages(els[e]), p[1] = r
      PROVE  p \in HeldIn(els, r)
  BY <1>1, <1>3, ElementPagesType DEF HeldIn
<1>4. QED
  BY <1>2, <1>3

\* The pages of a request that are held can be counted.
LEMMA HeldFinite ==
  ASSUME config \in Configurations, NEW els, NEW r \in Requests
  PROVE  IsFiniteSet(HeldIn(els, r)) /\ Cardinality(HeldIn(els, r)) \in Nat
<1>1. IsFiniteSet(Pages(r)) /\ HeldIn(els, r) \subseteq Pages(r)
  BY RequestPages DEF HeldIn
<1>2. QED
  BY <1>1, FS_Subset, FS_CardinalityType

\* The elements are asked for the pages of requests of which they hold none.
LEMMA StartedPieces ==
  ASSUME config \in Configurations, NEW els, NEW rm, PiecesInv(els, rm),
         NEW rs \in Seq(Requests), IsInjective(rs), \A r \in ToSet(rs) : rm[r] = 0,
         NEW clean
  PROVE  PiecesInv(MediaAccess(els, rs, clean),
                   [r \in Requests |-> IF r \in ToSet(rs) THEN Len(Blocks(r)) ELSE rm[r]])
<1> DEFINE new == MediaAccess(els, rs, clean)
           after == [r \in Requests |-> IF r \in ToSet(rs) THEN Len(Blocks(r)) ELSE rm[r]]
<1>1. \A e \in Elements : ElementInv(els[e], e) /\ Consistent(els[e], e)
  BY DEF PiecesInv, ElementInv
<1>2. ToSet(rs) \subseteq Requests
  BY DEF ToSet
<1>3. \A r \in ToSet(rs) : HeldIn(els, r) = {}
  <2> SUFFICES ASSUME NEW r \in ToSet(rs) PROVE HeldIn(els, r) = {}
    OBVIOUS
  <2>1. r \in Requests /\ Cardinality(HeldIn(els, r)) = 0
    BY <1>2 DEF PiecesInv
  <2>2. QED
    BY <2>1, HeldFinite, FS_EmptySet
<1>4. ASSUME NEW e \in Elements, NEW p \in ElementPages(els[e]) PROVE p[1] \notin ToSet(rs)
  <2> SUFFICES ASSUME p[1] \in ToSet(rs) PROVE FALSE
    OBVIOUS
  <2>1. p[1] \in Requests /\ p \in Pages(p[1]) /\ ElementOf(p) = e
    BY <1>1, ElementPagesType
  <2>2. p \in HeldIn(els, p[1])
    BY <2>1 DEF HeldIn
  <2>3. QED
    BY <1>3, <2>2
<1>5. \A e \in Elements : /\ ElementInv(new[e], e)
                          /\ ElementPages(new[e]) = ElementPages(els[e]) \cup Asked(rs, e)
  BY <1>1, <1>4, MediaAccessInv
<1>6. new = [e \in Elements |-> new[e]]
  BY DEF MediaAccess
<1> HIDE DEF new
<1>7. ASSUME NEW r \in Requests
      PROVE  HeldIn(new, r) = IF r \in ToSet(rs) THEN Pages(r) ELSE HeldIn(els, r)
  <2>1. \A p \in Pages(r) : p[1] = r /\ p \in AllPages /\ ElementOf(p) \in Elements
    BY PageElement DEF AllPages
  <2>2. \A p \in Pages(r) : p \in ElementPages(new[ElementOf(p)]) <=>
                              p \in ElementPages(els[ElementOf(p)]) \/ r \in ToSet(rs)
    BY <1>5, <2>1 DEF Asked
  <2>3. QED
    BY <2>2 DEF HeldIn
<1>8. ASSUME NEW r \in Requests PROVE after[r] \in Nat /\ after[r] = Cardinality(HeldIn(new, r))
  <2>1. CASE r \in ToSet(rs)
    BY <1>7, <2>1, RequestPages
  <2>2. CASE r \notin ToSet(rs)
    BY <1>7, <2>2 DEF PiecesInv
  <2>3. QED
    BY <2>1, <2>2
<1>9. after \in [Requests -> Nat]
  BY <1>8
<1> HIDE DEF after
<1>10. PiecesInv(new, after)
  BY <1>5, <1>6, <1>8, <1>9 DEF PiecesInv
<1>11. QED
  BY <1>10 DEF new, after

\* An element that has served a page, before it is activated again.
Over(el, p) == [el EXCEPT !.service = @ \ {p}, !.thrown = @ \ {p},
                          !.media_busy = el.service # {p}]

\* A page that is served is not held any more, and the others are.
LEMMA OverConsistent ==
  ASSUME config \in Configurations, NEW e \in Elements, NEW el, ElementInv(el, e),
         NEW p \in el.service
  PROVE  Consistent(Over(el, p), e) /\ ElementPages(Over(el, p)) = ElementPages(el) \ {p}
<1> DEFINE new == Over(el, p)
<1>1. Consistent(el, e) /\ el \in ElementRecords
  BY DEF ElementInv, Consistent
<1>2. /\ new \in ElementRecords /\ new.waiting = el.waiting
      /\ new.service = el.service \ {p} /\ new.thrown = el.thrown \ {p}
      /\ new.media_busy = (el.service # {p}) /\ new.cleaning = el.cleaning
  BY <1>1 DEF ElementRecords, Over
<1> HIDE DEF new
<1>3. ElementPages(new) = ElementPages(el) \ {p}
  BY <1>1, <1>2 DEF ElementPages, Consistent
<1>4. ~el.cleaning /\ (new.media_busy <=> new.service # {})
  BY <1>1, <1>2 DEF Consistent
<1>5. Consistent(new, e)
  BY <1>1, <1>2, <1>3, <1>4 DEF Consistent
<1>6. QED
  BY <1>3, <1>5 DEF new

\* A page that is served is counted off its request.
LEMMA ServedPieces ==
  ASSUME config \in Configurations, NEW els, NEW rm, PiecesInv(els, rm),
         NEW e \in Elements, NEW p \in els[e].service, NEW clean \in BOOLEAN
  PROVE  /\ p[1] \in Requests /\ rm[p[1]] \in Nat \ {0}
         /\ PiecesInv([els EXCEPT ![e] = Activated(Over(els[e], p), clean)],
                      [r \in Requests |-> IF r = p[1] THEN rm[p[1]] - 1 ELSE rm[r]])
<1> DEFINE r == p[1]
           act == Activated(Over(els[e], p), clean)
           new == [els EXCEPT ![e] = act]
           after == [q \in Requests |-> IF q = r THEN rm[r] - 1 ELSE rm[q]]
<1>1. /\ els = [x \in Elements |-> els[x]] /\ rm \in [Requests -> Nat]
      /\ \A x \in Elements : ElementInv(els[x], x) /\ Consistent(els[x], x)
      /\ \A q \in Requests : rm[q] = Cardinality(HeldIn(els, q))
  BY DEF PiecesInv, ElementInv
<1>2. p \in ElementPages(els[e]) /\ p \in AllPages /\ r \in Requests /\ p \in Pages(r)
      /\ ElementOf(p) = e
  <2>1. p \in ElementPages(els[e])
    BY DEF ElementPages
  <2>2. QED
    BY <1>1, <2>1, ElementPagesType
<1>3. ElementInv(act, e) /\ ElementPages(act) = ElementPages(els[e]) \ {p}
  BY <1>1, OverConsistent, ActivatedInv
<1> HIDE DEF act
<1>4. /\ new = [x \in Elements |-> new[x]] /\ new[e] = act
      /\ \A x \in Elements \ {e} : new[x] = els[x]
  BY <1>1
<1> HIDE DEF new
<1>5. HeldIn(new, r) = HeldIn(els, r) \ {p} /\ p \in HeldIn(els, r)
  <2>1. \A x \in Pages(r) : ElementOf(x) \in Elements
    BY <1>2, PageElement
  <2>2. QED
    BY <1>2, <1>3, <1>4, <2>1 DEF HeldIn
<1>6. ASSUME NEW q \in Requests, q # r PROVE HeldIn(new, q) = HeldIn(els, q)
  <2>1. \A x \in Pages(q) : ElementOf(x) \in Elements /\ x[1] = q
    BY PageElement
  <2>2. p \notin Pages(q)
    BY <1>6, <2>1
  <2>3. QED
    BY <1>3, <1>4, <2>1, <2>2 DEF HeldIn
<1>7. /\ Cardinality(HeldIn(els, r)) \in Nat \ {0}
      /\ Cardinality(HeldIn(new, r)) = Cardinality(HeldIn(els, r)) - 1
  <2>1. IsFiniteSet(HeldIn(els, r)) /\ Cardinality(HeldIn(els, r)) \in Nat
    BY <1>2, HeldFinite
  <2>2. Cardinality(HeldIn(els, r)) # 0
    BY <1>5, <2>1, FS_EmptySet
  <2>3. Cardinality(HeldIn(els, r) \ {p}) = Cardinality(HeldIn(els, r)) - 1
    BY <1>5, <2>1, FS_RemoveElement
  <2>4. QED
    BY <1>5, <2>1, <2>2, <2>3
<1>8. ASSUME NEW q \in Requests PROVE after[q] \in Nat /\ after[q] = Cardinality(HeldIn(new, q))
  BY <1>1, <1>2, <1>6, <1>7
<1>9. after \in [Requests -> Nat]
  BY <1>8
<1>10. \A x \in Elements : ElementInv(new[x], x)
  BY <1>1, <1>3, <1>4
<1> HIDE DEF after
<1>11. PiecesInv(new, after)
  BY <1>4, <1>8, <1>9, <1>10 DEF PiecesInv
<1>12. QED
  BY <1>1, <1>2, <1>7, <1>11 DEF new, after, act

\* The end of cleaning leaves the pages as they are.
LEMMA CleanedPieces ==
  ASSUME config \in Configurations, NEW els, NEW rm, PiecesInv(els, rm),
         NEW e \in Elements, els[e].cleaning, NEW clean \in BOOLEAN
  PROVE  PiecesInv([els EXCEPT ![e] =
                      Activated([@ EXCEPT !.media_busy = FALSE, !.cleaning = FALSE], clean)],
                   rm)
<1> DEFINE el == els[e]
           done == [el EXCEPT !.media_busy = FALSE, !.cleaning = FALSE]
           act == Activated(done, clean)
           new == [els EXCEPT ![e] = act]
<1>1. /\ els = [x \in Elements |-> els[x]] /\ rm \in [Requests -> Nat]
      /\ \A x \in Elements : ElementInv(els[x], x) /\ Consistent(els[x], x)
      /\ \A q \in Requests : rm[q] = Cardinality(HeldIn(els, q))
  BY DEF PiecesInv, ElementInv
<1>2. Consistent(done, e) /\ ElementPages(done) = ElementPages(el)
  <2>1. Consistent(el, e) /\ el \in ElementRecords
    BY <1>1 DEF Consistent
  <2> HIDE DEF el
  <2>2. /\ done \in ElementRecords /\ done.waiting = el.waiting
        /\ done.service = el.service /\ done.thrown = el.thrown
        /\ done.media_busy = FALSE /\ done.cleaning = FALSE
    BY <2>1 DEF ElementRecords
  <2> HIDE DEF done
  <2>3. ElementPages(done) = ElementPages(el)
    BY <2>2 DEF ElementPages
  <2>4. el.service = {}
    BY <2>1 DEF Consistent, el
  <2>5. QED
    BY <2>1, <2>2, <2>3, <2>4 DEF Consistent
<1>3. ElementInv(act, e) /\ ElementPages(act) = ElementPages(el)
  <2> HIDE DEF done
  <2>1. QED
    BY <1>2, ActivatedInv
<1> HIDE DEF act
<1>4. /\ new = [x \in Elements |-> new[x]] /\ new[e] = act
      /\ \A x \in Elements \ {e} : new[x] = els[x]
  BY <1>1
<1> HIDE DEF new
<1>5. ASSUME NEW q \in Requests PROVE HeldIn(new, q) = HeldIn(els, q)
  <2>1. \A x \in Pages(q) : ElementOf(x) \in Elements
    BY PageElement
  <2>2. QED
    BY <1>3, <1>4, <2>1 DEF HeldIn
<1>6. \A x \in Elements : ElementInv(new[x], x)
  BY <1>1, <1>3, <1>4
<1>7. PiecesInv(new, rm)
  BY <1>1, <1>4, <1>5, <1>6 DEF PiecesInv
<1>8. QED
  BY <1>7 DEF new, act

-----------------------------------------------------------------------------
(* The inductive invariant: the phases of a request, of which n steps are in the log and the
   elements hold h pages, and for which the event k is on the bus. *)

\* The steps a request takes before its pages are served.
NumBefore(r) == IF IsRead(r) THEN 1 ELSE 2

Outside(c, r)  == r \notin ToSet(c.queue) /\ r \notin c.outstanding /\ r \notin ToSet(c.completion)
InDevice(c, r) == r \notin ToSet(c.queue) /\ r \in c.outstanding

\* Not arrived yet, or completed.
Absent(c, k, h, n, r) == Outside(c, r) /\ n \in {0, 4} /\ h = 0 /\ k = "NOTHING"

Queued(c, k, h, n, r) ==
  /\ r \in ToSet(c.queue) /\ r \notin c.outstanding /\ r \notin ToSet(c.completion)
  /\ n = 1 /\ h = 0 /\ k = "NOTHING"

\* A write, until its data is in the device.
Transferring(c, k, h, n, r) ==
  /\ InDevice(c, r) /\ r \notin ToSet(c.completion) /\ ~IsRead(r) /\ n = 1 /\ h = 0
  /\ \/ k \in {"READY_TO_TRANSFER", "DATA"}
     \/ k = "RECONNECT" /\ c.reason = "ARRIVE"

\* The elements have pages of it; it may still possess the channel, to disconnect.
Accessing(c, k, h, n, r) ==
  /\ InDevice(c, r) /\ r \notin ToSet(c.completion) /\ n = NumBefore(r) /\ h > 0
  /\ \/ k = "NOTHING"
     \/ k = "DISCONNECT" /\ ~Neverdisconnect

\* All pages are served, which is not signalled yet.
Served(c, k, h, n, r) ==
  /\ InDevice(c, r) /\ r \in ToSet(c.completion) /\ n = NumBefore(r) + 1 /\ h = 0
  /\ \/ k = "NOTHING"
     \/ k = "DISCONNECT" /\ ~Neverdisconnect /\ IsRead(r)

\* It possesses the channel again.
Returning(c, k, h, n, r) ==
  /\ InDevice(c, r) /\ r \notin ToSet(c.completion) /\ n = NumBefore(r) + 1 /\ h = 0
  /\ \/ k = "RECONNECT" /\ c.reason = "ACCESS" /\ ~Neverdisconnect
     \/ k = "DATA" /\ IsRead(r)

Completing(c, k, h, n, r) == Outside(c, r) /\ n = 3 /\ h = 0 /\ k = "COMPLETION"

InPhase(c, k, h, n, r) ==
  \/ Absent(c, k, h, n, r)
  \/ Queued(c, k, h, n, r)
  \/ Transferring(c, k, h, n, r)
  \/ Accessing(c, k, h, n, r)
  \/ Served(c, k, h, n, r)
  \/ Returning(c, k, h, n, r)
  \/ Completing(c, k, h, n, r)

\* The event that is on the bus for a request.
EventOf(c, r) == IF c.activity = r THEN (CHOOSE ev \in c.bus : TRUE).kind ELSE "NOTHING"

Lists(c) == IsInjective(c.queue) /\ IsInjective(c.completion)

\* Nothing waits for a channel that nothing possesses.
Prompt(c) == c.activity = NONE => c.queue = <<>> /\ c.completion = <<>>

\* The phases when the event k is on the bus for the request that possesses the channel.
Phases(c, rm, lg) == \A r \in Requests : InPhase(c, EventOf(c, r), rm[r], lg[r], r)

\* The phases between two events, when nothing is on the bus.
QuietPhases(c, rm, lg) == \A r \in Requests : InPhase(c, "NOTHING", rm[r], lg[r], r)

-----------------------------------------------------------------------------
(* What sending an event and taking the next request do to the phases. *)

\* A request keeps its phase while it stays in its places.
LEMMA PhaseKept ==
  ASSUME NEW c, NEW d, NEW k, NEW h, NEW n, NEW r, InPhase(c, k, h, n, r),
         k = "NOTHING" \/ d.reason = c.reason,
         r \in ToSet(d.queue) <=> r \in ToSet(c.queue),
         r \in d.outstanding <=> r \in c.outstanding,
         r \in ToSet(d.completion) <=> r \in ToSet(c.completion)
  PROVE  InPhase(d, k, h, n, r)
BY DEF InPhase, Absent, Queued, Transferring, Accessing, Served, Returning, Completing,
       Outside, InDevice

\* What sending an event to the bus changes, and what it does not.
LEMMA SendUpFields ==
  ASSUME config \in Configurations, NEW c, Quiet(c),
         NEW r \in Requests, c.activity = r, NEW kind \in Kinds
  PROVE  /\ SendUp(c, r, kind) \in Channels
         /\ SendUp(c, r, kind).queue = c.queue
         /\ SendUp(c, r, kind).outstanding = c.outstanding
         /\ SendUp(c, r, kind).completion = c.completion
         /\ SendUp(c, r, kind).reason = c.reason
         /\ SendUp(c, r, kind).failed = c.failed
         /\ SendUp(c, r, kind).activity = r
         /\ EventOf(SendUp(c, r, kind), r) = kind
         /\ \A q \in Requests : q # r => EventOf(SendUp(c, r, kind), q) = "NOTHING"
<1> DEFINE ev == [req |-> r, kind |-> kind, at |-> IF c.busowned THEN "delay" ELSE "buswait"]
           d == SendUp(c, r, kind)
<1>1. c.activity # NONE /\ c \in Channels /\ c.bus = {} /\ "activity" \notin c.failed
  BY NoneIsNoRequest DEF Quiet, Sound
<1>2. AssertActivity(c, r) = c
  BY <1>1 DEF AssertActivity, Check
<1>3. ev \in Events /\ ev.kind = kind
  BY DEF Events
<1>4. d = [c EXCEPT !.bus = {ev}]
  BY <1>1, <1>2 DEF SendUp
<1> HIDE DEF ev
<1>5. /\ d \in Channels /\ d.activity = r /\ d.bus = {ev} /\ d.queue = c.queue
      /\ d.outstanding = c.outstanding /\ d.completion = c.completion
      /\ d.reason = c.reason /\ d.failed = c.failed
  BY <1>1, <1>3, <1>4 DEF Channels
<1> HIDE DEF d
<1>6. (CHOOSE x \in {ev} : TRUE) = ev
  OBVIOUS
<1>7. EventOf(d, r) = kind /\ \A q \in Requests : q # r => EventOf(d, q) = "NOTHING"
  BY <1>3, <1>5, <1>6 DEF EventOf
<1>8. QED
  BY <1>5, <1>7 DEF d

\* What a completion changes, and what it does not.
LEMMA RequestCompleteFields ==
  ASSUME config \in Configurations, NEW c, Quiet(c),
         NEW r \in Requests, c.activity = r, r \in c.outstanding
  PROVE  /\ RequestComplete(c, r) \in Channels
         /\ RequestComplete(c, r).queue = c.queue
         /\ RequestComplete(c, r).outstanding = c.outstanding \ {r}
         /\ RequestComplete(c, r).completion = c.completion
         /\ RequestComplete(c, r).failed = c.failed
         /\ RequestComplete(c, r).activity = r
         /\ EventOf(RequestComplete(c, r), r) = "COMPLETION"
         /\ \A q \in Requests : q # r => EventOf(RequestComplete(c, r), q) = "NOTHING"
<1> DEFINE c1 == [c EXCEPT !.outstanding = c.outstanding \ {r}]
<1>1. Check(c, "outstanding", r \in c.outstanding) = c
  BY DEF Check
<1>2. c1 = [Check(c, "outstanding", r \in c.outstanding) EXCEPT !.outstanding = @ \ {r}]
  BY <1>1 DEF Quiet, Sound, Channels
<1>3. RequestComplete(c, r) = SendUp(c1, r, "COMPLETION")
  BY <1>2, Zenon DEF RequestComplete
<1>4. /\ Quiet(c1) /\ c1.activity = r /\ c1.completion = c.completion
      /\ c1.queue = c.queue /\ c1.outstanding = c.outstanding \ {r} /\ c1.failed = c.failed
  BY DEF Quiet, Sound, Channels
<1> HIDE DEF c1
<1>5. "COMPLETION" \in Kinds
  BY DEF Kinds
<1>6. QED
  BY <1>3, <1>4, <1>5, SendUpFields

\* The first in the list of completions takes the channel.
LEMMA SignalCompletionPhases ==
  ASSUME config \in Configurations, NEW c, Quiet(c), Lists(c), c.completion # <<>>,
         NEW rm, NEW lg, QuietPhases(c, rm, lg)
  PROVE  /\ SignalCompletion(c).queue = c.queue
         /\ SignalCompletion(c).completion = Tail(c.completion)
         /\ SignalCompletion(c).failed = c.failed
         /\ SignalCompletion(c).activity \in Requests
         /\ Phases(SignalCompletion(c), rm, lg)
<1> DEFINE r == Head(c.completion)
           c1 == [c EXCEPT !.activity = r, !.completion = Tail(c.completion)]
           new == SignalCompletion(c)
<1>1. c \in Channels /\ c.bus = {} /\ "activity" \notin c.failed
  BY DEF Quiet, Sound
<1>2. /\ r \in Requests /\ Tail(c.completion) \in Seq(Requests)
      /\ ToSet(c.completion) = {r} \cup ToSet(Tail(c.completion))
      /\ r \notin ToSet(Tail(c.completion))
  <2>1. c.completion \in Seq(Requests) /\ IsInjective(c.completion)
    BY <1>1 DEF Channels, Lists
  <2>2. QED
    BY <2>1, HeadTailElements
<1>3. /\ Quiet(c1) /\ c1.activity = r /\ c1.completion = Tail(c.completion)
      /\ c1.queue = c.queue /\ c1.outstanding = c.outstanding /\ c1.failed = c.failed
      /\ c1.reason = c.reason
  BY <1>1, <1>2 DEF Quiet, Sound, Channels
<1>4. c1 = [c EXCEPT !.activity = r, !.completion = Tail(@)]
  BY <1>1 DEF Channels
<1>5. Served(c, "NOTHING", rm[r], lg[r], r)
  <2>1. InPhase(c, "NOTHING", rm[r], lg[r], r) /\ r \in ToSet(c.completion)
    BY <1>2 DEF QuietPhases
  <2>2. QED
    BY <2>1 DEF InPhase, Absent, Queued, Transferring, Accessing, Returning, Completing, Outside
<1>6. ASSUME NEW d, d.queue = c.queue, d.completion = c1.completion,
             \A q \in Requests \ {r} : q \in d.outstanding <=> q \in c.outstanding,
             \A q \in Requests : q # r => EventOf(d, q) = "NOTHING",
             NEW q \in Requests, q # r
      PROVE  InPhase(d, EventOf(d, q), rm[q], lg[q], q)
  <2>1. InPhase(c, "NOTHING", rm[q], lg[q], q)
    BY DEF QuietPhases
  <2>2. InPhase(d, "NOTHING", rm[q], lg[q], q)
    BY <1>2, <1>3, <1>6, <2>1, PhaseKept
  <2>3. QED
    BY <1>6, <2>2
<1>7. /\ r \notin ToSet(c.queue) /\ r \in c.outstanding /\ lg[r] = NumBefore(r) + 1 /\ rm[r] = 0
  BY <1>5 DEF Served, InDevice
<1>8. Neverdisconnect \in BOOLEAN /\ IsRead(r) \in BOOLEAN
  BY <1>2, SSDAssumption DEF IsRead, Requests, Neverdisconnect
<1> HIDE DEF r, c1
<1>9. CASE Neverdisconnect /\ IsRead(r)
  <2>1. "DATA" \in Kinds
    BY DEF Kinds
  <2>2. new = SendUp(c1, r, "DATA")
    BY <1>4, <1>9, Zenon DEF SignalCompletion, r
  <2>3. /\ new.queue = c.queue /\ new.completion = c1.completion
        /\ new.outstanding = c.outstanding /\ new.failed = c.failed
        /\ new.activity = r /\ EventOf(new, r) = "DATA"
        /\ \A q \in Requests : q # r => EventOf(new, q) = "NOTHING"
    BY <1>2, <1>3, <2>1, <2>2, SendUpFields
  <2> HIDE DEF new
  <2>4. InPhase(new, EventOf(new, r), rm[r], lg[r], r)
    BY <1>2, <1>3, <1>7, <1>9, <2>3 DEF InPhase, Returning, InDevice
  <2>5. \A q \in Requests : InPhase(new, EventOf(new, q), rm[q], lg[q], q)
    BY <1>6, <2>3, <2>4
  <2>6. QED
    BY <1>2, <1>3, <2>3, <2>5 DEF Phases, new
<1>10. CASE Neverdisconnect /\ ~IsRead(r)
  <2>1. new = RequestComplete(c1, r)
    BY <1>4, <1>10, Zenon DEF SignalCompletion, r
  <2>2. /\ new.queue = c.queue /\ new.completion = c1.completion
        /\ new.outstanding = c.outstanding \ {r} /\ new.failed = c.failed
        /\ new.activity = r /\ EventOf(new, r) = "COMPLETION"
        /\ \A q \in Requests : q # r => EventOf(new, q) = "NOTHING"
    BY <1>2, <1>3, <1>7, <2>1, RequestCompleteFields
  <2> HIDE DEF new
  <2>3. InPhase(new, EventOf(new, r), rm[r], lg[r], r)
    BY <1>2, <1>3, <1>7, <1>10, <2>2 DEF InPhase, Completing, Outside, NumBefore
  <2>4. \A q \in Requests : InPhase(new, EventOf(new, q), rm[q], lg[q], q)
    BY <1>6, <2>2, <2>3
  <2>5. QED
    BY <1>2, <1>3, <2>2, <2>4 DEF Phases, new
<1>11. CASE ~Neverdisconnect
  <2> DEFINE c2 == SendUp(c1, r, "RECONNECT")
  <2>1. "RECONNECT" \in Kinds
    BY DEF Kinds
  <2>2. new = [c2 EXCEPT !.reason = "ACCESS"]
    BY <1>4, <1>11, Zenon DEF SignalCompletion, r
  <2>3. /\ c2 \in Channels /\ c2.queue = c.queue /\ c2.completion = c1.completion
        /\ c2.outstanding = c.outstanding /\ c2.failed = c.failed
        /\ c2.activity = r /\ EventOf(c2, r) = "RECONNECT"
        /\ \A q \in Requests : q # r => EventOf(c2, q) = "NOTHING"
    BY <1>2, <1>3, <2>1, SendUpFields
  <2> HIDE DEF c2
  <2>4. /\ new.queue = c.queue /\ new.completion = c1.completion
        /\ new.outstanding = c.outstanding /\ new.failed = c.failed
        /\ new.activity = r /\ new.bus = c2.bus /\ new.reason = "ACCESS"
    BY <2>2, <2>3 DEF Channels
  <2> HIDE DEF new
  <2>5. \A q \in Requests : EventOf(new, q) = EventOf(c2, q)
    BY <2>3, <2>4 DEF EventOf
  <2>6. InPhase(new, EventOf(new, r), rm[r], lg[r], r)
    BY <1>2, <1>3, <1>7, <1>11, <2>3, <2>4, <2>5 DEF InPhase, Returning, InDevice
  <2>7. \A q \in Requests : InPhase(new, EventOf(new, q), rm[q], lg[q], q)
    BY <1>2, <1>6, <2>3, <2>4, <2>5, <2>6
  <2>8. QED
    BY <1>2, <1>3, <2>4, <2>7 DEF Phases, new
<1>12. QED
  BY <1>8, <1>9, <1>10, <1>11

\* The leading reads end at the first write.
LEMMA LeadingReadsRange ==
  ASSUME NEW q, Len(q) \in Nat
  PROVE  /\ NumLeadingReads(q) \in 0 .. Len(q)
         /\ \A i \in 1 .. NumLeadingReads(q) : IsRead(q[i])
         /\ NumLeadingReads(q) < Len(q) => ~IsRead(q[NumLeadingReads(q) + 1])
<1> DEFINE S == {n \in 1 .. Len(q) : \A i \in 1 .. n : IsRead(q[i])}
           T == {k \in Nat : k + 1 > Len(q) \/ ~IsRead(q[k+1])}
<1>1. PICK m \in T : \A k \in T : m <= k
  <2>1. T \subseteq Nat /\ Len(q) \in T
    <3>1. Len(q) \in Nat /\ Len(q) + 1 > Len(q)
      OBVIOUS
    <3>2. QED
      BY <3>1
  <2> HIDE DEF T
  <2>2. T # {}
    BY <2>1, Zenon
  <2>3. QED
    BY <2>1, <2>2, LeastNat
<1>2. m \in Nat /\ m <= Len(q) /\ (m < Len(q) => ~IsRead(q[m+1]))
  BY <1>1, SMTT(20)
<1>3. ASSUME NEW i \in 1 .. m PROVE IsRead(q[i])
  <2>1. i - 1 \in Nat /\ ~(m <= i - 1) /\ (i - 1) + 1 = i /\ i <= Len(q)
    BY <1>2
  <2>2. i - 1 \notin T
    BY <1>1, <2>1
  <2>3. ~((i - 1) + 1 > Len(q) \/ ~IsRead(q[(i - 1) + 1]))
    BY <2>1, <2>2
  <2>4. QED
    BY <2>1, <2>3
<1>4. S = 1 .. m
  <2>1. ASSUME NEW n \in S PROVE n \in 1 .. m
    <3>1. n \in Nat /\ n >= 1 /\ n <= Len(q) /\ \A i \in 1 .. n : IsRead(q[i])
      OBVIOUS
    <3>2. ASSUME m < n PROVE FALSE
      <4>1. m + 1 \in 1 .. n /\ m < Len(q)
        BY <1>2, <3>1, <3>2
      <4>2. QED
        BY <1>2, <3>1, <4>1
    <3>3. QED
      BY <1>2, <3>1, <3>2
  <2>2. ASSUME NEW n \in 1 .. m PROVE n \in S
    <3>1. n \in 1 .. Len(q) /\ \A i \in 1 .. n : i \in 1 .. m
      BY <1>2
    <3>2. QED
      BY <1>3, <3>1
  <2>3. QED
    BY <2>1, <2>2
<1>5. NumLeadingReads(q) = m
  <2>1. NumLeadingReads(q) = Cardinality(1 .. m)
    BY <1>4 DEF NumLeadingReads
  <2>2. 1 \in Int /\ m \in Int
    BY <1>2
  <2>3. Cardinality(1 .. m) = IF 1 > m THEN 0 ELSE m - 1 + 1
    BY <2>2, FS_Interval
  <2>4. QED
    BY <1>2, <2>1, <2>3
<1>6. QED
  BY <1>2, <1>3, <1>5

\* The reads that are started when a device that never disconnects looks at its channel.
Leading(c) == IF Neverdisconnect THEN LeadingReads(c.queue) ELSE <<>>

Started(rs, rm) == [r \in Requests |-> IF r \in ToSet(rs) THEN Len(Blocks(r)) ELSE rm[r]]

\* Starting the leading reads moves each of them to its next phase.
LEMMA ReadsStartedPhases ==
  ASSUME config \in Configurations, NEW c, Quiet(c), Lists(c),
         NEW rm, NEW lg, QuietPhases(c, rm, lg)
  PROVE  /\ Lists(ReadsStarted(c))
         /\ ReadsStarted(c).completion = c.completion
         /\ ReadsStarted(c).failed = c.failed
         /\ ~Neverdisconnect => ReadsStarted(c).queue = c.queue
         /\ Neverdisconnect /\ ReadsStarted(c).queue # <<>>
              => ~IsRead(Head(ReadsStarted(c).queue))
         /\ Leading(c) \in Seq(Requests) /\ IsInjective(Leading(c))
         /\ \A r \in ToSet(Leading(c)) : r \in ToSet(c.queue)
         /\ QuietPhases(ReadsStarted(c), Started(Leading(c), rm), lg)
<1> DEFINE q == c.queue
           m == NumLeadingReads(q)
           n == IF Neverdisconnect THEN m ELSE 0
           new == ReadsStarted(c)
           front == {q[i] : i \in 1 .. n}
<1>1. c \in Channels /\ q \in Seq(Requests) /\ IsInjective(q) /\ Len(q) \in Nat
  BY DEF Quiet, Sound, Channels, Lists
<1>2. /\ n \in 0 .. Len(q)
      /\ Neverdisconnect => /\ n = m /\ \A i \in 1 .. n : IsRead(q[i])
                            /\ n < Len(q) => ~IsRead(q[n + 1])
      /\ ~Neverdisconnect => n = 0
  BY <1>1, LeadingReadsRange
<1> HIDE DEF m, n
<1>3. /\ SubSeq(q, 1, n) \in Seq(Requests) /\ IsInjective(SubSeq(q, 1, n))
      /\ ToSet(SubSeq(q, 1, n)) = front
      /\ SubSeq(q, n + 1, Len(q)) \in Seq(Requests) /\ IsInjective(SubSeq(q, n + 1, Len(q)))
      /\ ToSet(SubSeq(q, n + 1, Len(q))) = ToSet(q) \ front
      /\ n < Len(q) => Head(SubSeq(q, n + 1, Len(q))) = q[n + 1]
  BY <1>1, <1>2, SplitElements
<1>4. /\ new.queue = SubSeq(q, n + 1, Len(q)) /\ new.completion = c.completion
      /\ new.outstanding = c.outstanding \cup front /\ new.failed = c.failed
  BY <1>1, <1>3 DEF ReadsStarted, Channels, n, m
<1> HIDE DEF new
<1>5. Leading(c) = SubSeq(q, 1, n)
  <2>1. CASE Neverdisconnect
    BY <2>1, <1>2 DEF Leading, LeadingReads, m
  <2>2. CASE ~Neverdisconnect
    <3>1. n = 0
      BY <1>2, <2>2
    <3>2. DOMAIN SubSeq(q, 1, n) = {}
      <4>1. \A i \in 1 .. n : FALSE
        BY <3>1
      <4>2. ToSet(SubSeq(q, 1, n)) = {}
        BY <1>3, <4>1
      <4>3. QED
        BY <4>2 DEF ToSet
    <3>3. SubSeq(q, 1, n) = <<>>
      BY <1>3, <3>2
    <3>4. QED
      BY <2>2, <3>3 DEF Leading
  <2>3. QED
    BY <2>1, <2>2
<1>6. front \subseteq ToSet(q) /\ ToSet(q) \subseteq Requests
  <2>1. \A i \in 1 .. n : i \in DOMAIN q
    BY <1>1, <1>2
  <2>2. QED
    BY <1>1, <2>1 DEF ToSet
<1>7. ~Neverdisconnect => new.queue = c.queue
  <2> SUFFICES ASSUME ~Neverdisconnect PROVE SubSeq(q, n + 1, Len(q)) = q
    BY <1>4
  <2>1. n = 0
    BY <1>2
  <2>2. QED
    BY <1>1, <2>1
<1>8. Neverdisconnect /\ new.queue # <<>> => ~IsRead(Head(new.queue))
  <2> SUFFICES ASSUME Neverdisconnect, new.queue # <<>> PROVE ~IsRead(Head(new.queue))
    OBVIOUS
  <2>1. CASE n < Len(q)
    BY <1>2, <1>3, <1>4, <2>1
  <2>2. CASE ~(n < Len(q))
    <3>1. n = Len(q)
      BY <1>1, <1>2, <2>2
    <3>2. SubSeq(q, n + 1, Len(q)) = <<>>
      BY <1>1, <3>1
    <3>3. QED
      BY <1>4, <3>2
  <2>3. QED
    BY <2>1, <2>2
<1>9. QuietPhases(new, Started(Leading(c), rm), lg)
  <2> SUFFICES ASSUME NEW r \in Requests
               PROVE  InPhase(new, "NOTHING", Started(Leading(c), rm)[r], lg[r], r)
    BY DEF QuietPhases
  <2>1. InPhase(c, "NOTHING", rm[r], lg[r], r)
    BY DEF QuietPhases
  <2>2. CASE r \in front
    <3>1. Queued(c, "NOTHING", rm[r], lg[r], r)
      BY <1>6, <2>1, <2>2 DEF InPhase, Absent, Transferring, Accessing, Served, Returning,
                              Completing, Outside, InDevice
    <3>2. Started(Leading(c), rm)[r] = Len(Blocks(r)) /\ Len(Blocks(r)) > 0
      <4>1. r \in ToSet(Leading(c))
        BY <1>3, <1>5, <2>2, Zenon
      <4>2. Len(Blocks(r)) \in Nat \ {0}
        BY RequestPages
      <4>3. Started(Leading(c), rm)[r] = Len(Blocks(r))
        BY <4>1, Zenon DEF Started
      <4>4. QED
        BY <4>2, <4>3
    <3>3. Neverdisconnect /\ IsRead(r)
      <4>1. PICK i \in 1 .. n : r = q[i]
        BY <2>2
      <4>2. n # 0
        BY <4>1, <1>2
      <4>3. QED
        BY <1>2, <4>1, <4>2 DEF Neverdisconnect
    <3>4. Accessing(new, "NOTHING", Len(Blocks(r)), lg[r], r)
      BY <1>3, <1>4, <2>2, <3>1, <3>2, <3>3 DEF Accessing, InDevice, Queued, NumBefore
    <3>5. QED
      BY <3>2, <3>4 DEF InPhase
  <2>3. CASE r \notin front
    <3>1. Started(Leading(c), rm)[r] = rm[r]
      BY <1>3, <1>5, <2>3 DEF Started
    <3>2. InPhase(new, "NOTHING", rm[r], lg[r], r)
      BY <1>3, <1>4, <2>1, <2>3, PhaseKept
    <3>3. QED
      BY <3>1, <3>2
  <2>4. QED
    BY <2>2, <2>3
<1>10. QED
  BY <1>1, <1>3, <1>4, <1>5, <1>6, <1>7, <1>8, <1>9 DEF Lists, new

\* The first request in the queue takes the channel.
LEMMA StartNextPhases ==
  ASSUME config \in Configurations, NEW c, Quiet(c), Lists(c), c.queue # <<>>,
         Neverdisconnect => ~IsRead(Head(c.queue)),
         NEW rm, NEW lg, QuietPhases(c, rm, lg),
         NEW after, after[Head(c.queue)] = IF IsRead(Head(c.queue))
                                           THEN Len(Blocks(Head(c.queue)))
                                           ELSE rm[Head(c.queue)],
         \A q \in Requests : q # Head(c.queue) => after[q] = rm[q]
  PROVE  /\ StartNext(c).queue = Tail(c.queue)
         /\ StartNext(c).completion = c.completion
         /\ StartNext(c).failed = c.failed
         /\ StartNext(c).activity \in Requests
         /\ Phases(StartNext(c), after, lg)
<1> DEFINE r == Head(c.queue)
           c1 == Taken(c)
           new == StartNext(c)
<1>1. c \in Channels /\ c.bus = {} /\ "activity" \notin c.failed
  BY DEF Quiet, Sound
<1>2. /\ r \in Requests /\ Tail(c.queue) \in Seq(Requests)
      /\ ToSet(c.queue) = {r} \cup ToSet(Tail(c.queue))
      /\ r \notin ToSet(Tail(c.queue))
  <2>1. c.queue \in Seq(Requests) /\ IsInjective(c.queue)
    BY <1>1 DEF Channels, Lists
  <2>2. QED
    BY <2>1, HeadTailElements
<1>3. /\ Quiet(c1) /\ c1.activity = r /\ c1.queue = Tail(c.queue)
      /\ c1.outstanding = c.outstanding \cup {r} /\ c1.completion = c.completion
      /\ c1.failed = c.failed
  BY <1>1, <1>2 DEF Quiet, Sound, Channels, Taken
<1>4. Queued(c, "NOTHING", rm[r], lg[r], r)
  <2>1. InPhase(c, "NOTHING", rm[r], lg[r], r) /\ r \in ToSet(c.queue)
    BY <1>2 DEF QuietPhases
  <2>2. QED
    BY <2>1 DEF InPhase, Absent, Transferring, Accessing, Served, Returning, Completing,
                Outside, InDevice
<1>5. ASSUME NEW d, d.queue = c1.queue, d.completion = c1.completion,
             d.outstanding = c1.outstanding,
             \A q \in Requests : q # r => EventOf(d, q) = "NOTHING",
             NEW q \in Requests, q # r
      PROVE  InPhase(d, EventOf(d, q), after[q], lg[q], q)
  <2>1. InPhase(c, "NOTHING", rm[q], lg[q], q)
    BY DEF QuietPhases
  <2>2. InPhase(d, "NOTHING", rm[q], lg[q], q)
    BY <1>2, <1>3, <1>5, <2>1, PhaseKept
  <2>3. QED
    BY <1>5, <2>2
<1>6. r \notin ToSet(c.completion) /\ lg[r] = 1 /\ rm[r] = 0
  BY <1>4 DEF Queued
<1>7. IsRead(r) \in BOOLEAN /\ Len(Blocks(r)) > 0
  BY <1>2, RequestPages, SSDAssumption DEF IsRead, Requests
<1>8. after[r] = IF IsRead(r) THEN Len(Blocks(r)) ELSE 0
  BY <1>6
<1>9. "DISCONNECT" \in Kinds /\ "RECONNECT" \in Kinds
  BY DEF Kinds
<1>10. Neverdisconnect => ~IsRead(r)
  OBVIOUS
<1> HIDE DEF r, c1
<1>11. CASE IsRead(r)
  <2>1. new = SendUp(c1, r, "DISCONNECT")
    BY <1>11, Zenon DEF StartNext, r, c1
  <2>2. /\ new.queue = c1.queue /\ new.completion = c1.completion
        /\ new.outstanding = c1.outstanding /\ new.failed = c1.failed
        /\ new.activity = r /\ EventOf(new, r) = "DISCONNECT"
        /\ \A q \in Requests : q # r => EventOf(new, q) = "NOTHING"
    BY <1>2, <1>3, <1>9, <2>1, SendUpFields
  <2> HIDE DEF new
  <2>3. InPhase(new, EventOf(new, r), after[r], lg[r], r)
    BY <1>2, <1>3, <1>6, <1>7, <1>8, <1>10, <1>11, <2>2
    DEF InPhase, Accessing, InDevice, NumBefore
  <2>4. \A q \in Requests : InPhase(new, EventOf(new, q), after[q], lg[q], q)
    BY <1>5, <2>2, <2>3
  <2>5. QED
    BY <1>2, <1>3, <2>2, <2>4 DEF Phases, new
<1>12. CASE ~IsRead(r)
  <2> DEFINE c2 == SendUp(c1, r, "RECONNECT")
  <2>1. new = [c2 EXCEPT !.reason = "ARRIVE"]
    BY <1>12, Zenon DEF StartNext, r, c1
  <2>2. /\ c2 \in Channels /\ c2.queue = c1.queue /\ c2.completion = c1.completion
        /\ c2.outstanding = c1.outstanding /\ c2.failed = c1.failed
        /\ c2.activity = r /\ EventOf(c2, r) = "RECONNECT"
        /\ \A q \in Requests : q # r => EventOf(c2, q) = "NOTHING"
    BY <1>2, <1>3, <1>9, SendUpFields
  <2> HIDE DEF c2
  <2>3. /\ new.queue = c1.queue /\ new.completion = c1.completion
        /\ new.outstanding = c1.outstanding /\ new.failed = c1.failed
        /\ new.activity = r /\ new.bus = c2.bus /\ new.reason = "ARRIVE"
    BY <2>1, <2>2 DEF Channels
  <2> HIDE DEF new
  <2>4. \A q \in Requests : EventOf(new, q) = EventOf(c2, q)
    BY <2>2, <2>3 DEF EventOf
  <2>5. InPhase(new, EventOf(new, r), after[r], lg[r], r)
    BY <1>2, <1>3, <1>6, <1>8, <1>12, <2>2, <2>3, <2>4 DEF InPhase, Transferring, InDevice
  <2>6. \A q \in Requests : InPhase(new, EventOf(new, q), after[q], lg[q], q)
    BY <1>2, <1>5, <2>2, <2>3, <2>4, <2>5
  <2>7. QED
    BY <1>2, <1>3, <2>3, <2>6 DEF Phases, new
<1>13. QED
  BY <1>7, <1>11, <1>12

\* What Starts adds to the reads that are started when the device never disconnects.
LEMMA StartsCases ==
  ASSUME config \in Configurations, NEW c, Quiet(c)
  PROVE  /\ c.completion # <<>> => Starts(c) = <<>>
         /\ c.completion = <<>> /\ Neverdisconnect => Starts(c) = Leading(c)
         /\ c.completion = <<>> /\ ~Neverdisconnect /\ c.queue # <<>> /\ IsRead(Head(c.queue))
              => Starts(c) = <<Head(c.queue)>>
         /\ c.completion = <<>> /\ ~Neverdisconnect
              /\ (c.queue = <<>> \/ ~IsRead(Head(c.queue))) => Starts(c) = <<>>
BY Zenon DEF Starts, Leading

\* ssd_check_channel_activity.
LEMMA CheckChannelPhases ==
  ASSUME config \in Configurations, NEW c, Quiet(c), Lists(c),
         NEW rm, rm \in [Requests -> Nat], NEW lg, QuietPhases(c, rm, lg)
  PROVE  /\ Lists(CheckChannel(c)) /\ Prompt(CheckChannel(c))
         /\ CheckChannel(c).failed = c.failed
         /\ ToSet(CheckChannel(c).completion) \subseteq ToSet(c.completion)
         /\ Starts(c) \in Seq(Requests) /\ IsInjective(Starts(c))
         /\ \A r \in ToSet(Starts(c)) : r \in ToSet(c.queue)
         /\ Phases(CheckChannel(c), Started(Starts(c), rm), lg)
<1> DEFINE new == CheckChannel(c)
<1>1. /\ c \in Channels /\ c.queue \in Seq(Requests) /\ IsInjective(c.queue)
      /\ c.completion \in Seq(Requests) /\ IsInjective(c.completion)
  BY DEF Quiet, Sound, Channels, Lists
<1>2. NONE \notin Requests
  BY NoneIsNoRequest
<1>3. /\ <<>> \in Seq(Requests) /\ IsInjective(<<>>) /\ ToSet(<<>>) = {}
  BY DEF IsInjective, ToSet
<1>4. \A r \in Requests : Started(<<>>, rm)[r] = rm[r]
  BY <1>3 DEF Started
<1>5. CASE c.completion # <<>>
  <2>1. new = SignalCompletion(c)
    BY <1>5, Zenon DEF CheckChannel
  <2>2. Starts(c) = <<>>
    BY <1>5, StartsCases
  <2>3. /\ new.queue = c.queue /\ new.completion = Tail(c.completion)
        /\ new.failed = c.failed /\ new.activity \in Requests
        /\ Phases(new, rm, lg)
    BY <1>5, <2>1, SignalCompletionPhases
  <2> HIDE DEF new
  <2>4. /\ IsInjective(Tail(c.completion)) 
        /\ ToSet(Tail(c.completion)) \subseteq ToSet(c.completion)
    BY <1>1, <1>5, HeadTailElements
  <2>5. Phases(new, Started(<<>>, rm), lg)
    BY <1>4, <2>3 DEF Phases
  <2>6. Lists(new) /\ Prompt(new)
    BY <1>1, <1>2, <2>3, <2>4 DEF Lists, Prompt
  <2>7. QED
    BY <1>3, <2>2, <2>3, <2>4, <2>5, <2>6 DEF new
<1>6. CASE c.completion = <<>>
  <2> DEFINE d == ReadsStarted(c)
             rm2 == Started(Leading(c), rm)
             after == Started(Starts(c), rm)
  <2>1. new = StartNext(d)
    BY <1>6, Zenon DEF CheckChannel
  <2>2. /\ Quiet(d) /\ Lists(d) /\ d.completion = <<>> /\ d.failed = c.failed
        /\ ~Neverdisconnect => d.queue = c.queue
        /\ Neverdisconnect /\ d.queue # <<>> => ~IsRead(Head(d.queue))
        /\ Leading(c) \in Seq(Requests) /\ IsInjective(Leading(c))
        /\ \A r \in ToSet(Leading(c)) : r \in ToSet(c.queue)
        /\ QuietPhases(d, rm2, lg)
    BY <1>6, ReadsStartedPhases, ReadsStartedQuiet
  <2>3. ~Neverdisconnect => \A r \in Requests : rm2[r] = rm[r]
    BY <1>4 DEF Leading
  <2> HIDE DEF rm2, d
  <2>4. /\ Starts(c) \in Seq(Requests) /\ IsInjective(Starts(c))
        /\ \A r \in ToSet(Starts(c)) : r \in ToSet(c.queue)
    <3>1. CASE Neverdisconnect
      BY <1>6, <2>2, <3>1, StartsCases
    <3>2. CASE ~Neverdisconnect /\ c.queue # <<>> /\ IsRead(Head(c.queue))
      <4>1. Starts(c) = <<Head(c.queue)>>
        BY <1>6, <3>2, StartsCases
      <4>2. Head(c.queue) \in Requests /\ Head(c.queue) \in ToSet(c.queue)
        BY <1>1, <3>2, HeadTailElements
      <4>3. QED
        BY <4>1, <4>2 DEF IsInjective, ToSet
    <3>3. CASE ~Neverdisconnect /\ (c.queue = <<>> \/ ~IsRead(Head(c.queue)))
      BY <1>3, <1>6, <3>3, StartsCases
    <3>4. QED
      BY <3>1, <3>2, <3>3
  <2>5. \A r \in Requests : after[r] = IF r \in ToSet(Starts(c)) THEN Len(Blocks(r)) ELSE rm[r]
    BY DEF Started
  <2>6. Neverdisconnect => \A r \in Requests : after[r] = rm2[r]
    BY <1>6, StartsCases DEF rm2
  <2>7. CASE d.queue = <<>>
    <3>1. new = [d EXCEPT !.activity = NONE]
      BY <2>1, <2>7, Zenon DEF StartNext
    <3>2. /\ new.activity = NONE /\ new.queue = <<>> /\ new.completion = <<>>
          /\ new.outstanding = d.outstanding /\ new.failed = c.failed
      BY <2>2, <2>7, <3>1 DEF Quiet, Sound, Channels
    <3> HIDE DEF new
    <3>3. \A r \in Requests : after[r] = rm2[r]
      <4>1. CASE ~Neverdisconnect
        <5>1. Starts(c) = <<>>
          BY <1>6, <2>2, <2>7, <4>1, StartsCases
        <5>2. QED
          BY <1>4, <2>3, <4>1, <5>1
      <4>2. QED
        BY <2>6, <4>1
    <3>4. ASSUME NEW r \in Requests PROVE InPhase(new, EventOf(new, r), after[r], lg[r], r)
      <4>1. EventOf(new, r) = "NOTHING"
        BY <1>2, <3>2 DEF EventOf
      <4>2. InPhase(d, "NOTHING", rm2[r], lg[r], r)
        BY <2>2 DEF QuietPhases
      <4>3. InPhase(new, "NOTHING", rm2[r], lg[r], r)
        BY <2>2, <2>7, <3>2, <4>2, PhaseKept
      <4>4. QED
        BY <3>3, <4>1, <4>3
    <3>5. Phases(new, after, lg)
      BY <3>4 DEF Phases
    <3>6. Lists(new) /\ Prompt(new)
      BY <1>3, <3>2 DEF Lists, Prompt
    <3>7. QED
      BY <1>6, <2>4, <3>2, <3>5, <3>6 DEF new
  <2>8. CASE d.queue # <<>>
    <3> DEFINE r == Head(d.queue)
    <3>1. r \in Requests /\ r \in ToSet(d.queue) /\ IsInjective(Tail(d.queue))
      <4>1. d.queue \in Seq(Requests) /\ IsInjective(d.queue)
        BY <2>2 DEF Quiet, Sound, Channels, Lists
      <4>2. QED
        BY <2>8, <4>1, HeadTailElements
    <3>2. after[r] = (IF IsRead(r) THEN Len(Blocks(r)) ELSE rm2[r])
          /\ \A q \in Requests : q # r => after[q] = rm2[q]
      <4>1. CASE Neverdisconnect
        BY <2>2, <2>6, <2>8, <3>1, <4>1
      <4>2. CASE ~Neverdisconnect /\ IsRead(r)
        <5>1. Starts(c) = <<r>>
          BY <1>6, <2>2, <2>8, <4>2, StartsCases
        <5>2. ToSet(Starts(c)) = {r}
          BY <5>1 DEF ToSet
        <5>3. QED
          BY <2>3, <2>5, <3>1, <4>2, <5>2
      <4>3. CASE ~Neverdisconnect /\ ~IsRead(r)
        <5>1. Starts(c) = <<>>
          BY <1>6, <2>2, <2>8, <4>3, StartsCases
        <5>2. QED
          BY <1>4, <2>3, <3>1, <4>3, <5>1
      <4>4. QED
        BY <4>1, <4>2, <4>3
    <3>3. /\ new.queue = Tail(d.queue) /\ new.completion = d.completion
          /\ new.failed = d.failed /\ new.activity \in Requests /\ Phases(new, after, lg)
      <4>1. Neverdisconnect => ~IsRead(r)
        BY <2>2, <2>8
      <4> HIDE DEF after
      <4>2. QED
        BY <2>1, <2>2, <2>8, <3>2, <4>1, StartNextPhases
    <3> HIDE DEF new
    <3>4. Lists(new) /\ Prompt(new)
      BY <1>2, <1>3, <2>2, <3>1, <3>3 DEF Lists, Prompt
    <3>5. QED
      BY <1>6, <2>2, <2>4, <3>3, <3>4 DEF new
  <2>9. QED
    BY <2>7, <2>8
<1>7. QED
  BY <1>5, <1>6

-----------------------------------------------------------------------------
(* The inductive invariant. *)

StepNames == {"arrive", "data", "media", "complete"}

Lengths(l) == [r \in Requests |-> Len(l[r])]

DeviceInv(c, els, rm, l) ==
  /\ PiecesInv(els, rm)
  /\ l \in [Requests -> Seq(StepNames)]
  /\ Lists(c)
  /\ \A r \in ToSet(c.completion) : rm[r] = 0
  /\ \/ c.failed = {} /\ Prompt(c) /\ Phases(c, rm, Lengths(l))
     \/ c.failed = {"parent"} /\ c.activity \in Requests /\ MayThrow(c.activity)

FullInv == IInv /\ DeviceInv(chan, elem, remaining, log)

\* What a step does to the log: nothing, or one request takes its next step.
LogStep(l, new) ==
  \/ new = l
  \/ \E r \in Requests :
       /\ Len(l[r]) < Len(Promise!Steps(r))
       /\ new = [l EXCEPT ![r] = Append(l[r], Promise!Steps(r)[Len(l[r]) + 1])]

\* The four steps of a read, and of a write.
LEMMA StepsOfRequest ==
  ASSUME NEW r \in Requests
  PROVE  /\ Len(Promise!Steps(r)) = 4
         /\ Promise!Steps(r)[1] = "arrive" /\ Promise!Steps(r)[4] = "complete"
         /\ IsRead(r) => Promise!Steps(r)[2] = "media" /\ Promise!Steps(r)[3] = "data"
         /\ ~IsRead(r) => Promise!Steps(r)[2] = "data" /\ Promise!Steps(r)[3] = "media"
BY DEF Promise!Steps

\* A step that is due is the next one of the log.
LEMMA LogTaken ==
  ASSUME log \in [Requests -> Seq(StepNames)], NEW r \in Requests, NEW step \in StepNames,
         Log(r, step), NEW n, n = Len(log[r]) + 1, n \in 1 .. 4, Promise!Steps(r)[n] = step
  PROVE  /\ log' \in [Requests -> Seq(StepNames)]
         /\ Lengths(log')[r] = n
         /\ \A q \in Requests : q # r => Lengths(log')[q] = Lengths(log)[q]
         /\ LogStep(log, log')
<1>1. log' = [log EXCEPT ![r] = Append(log[r], step)]
  BY DEF Log
<1>2. /\ log[r] \in Seq(StepNames) /\ Append(log[r], step) \in Seq(StepNames)
      /\ Len(log[r]) \in Nat /\ Len(Append(log[r], step)) = Len(log[r]) + 1
  BY AppendProperties, LenProperties
<1>3. /\ log' \in [Requests -> Seq(StepNames)] /\ Len(log'[r]) = n
      /\ \A q \in Requests : q # r => log'[q] = log[q]
  BY <1>1, <1>2
<1>4. /\ Lengths(log')[r] = n
      /\ \A q \in Requests : q # r => Lengths(log')[q] = Lengths(log)[q]
  BY <1>3 DEF Lengths
<1>5. Len(log[r]) < Len(Promise!Steps(r))
  BY <1>2, StepsOfRequest
<1>6. LogStep(log, log')
  BY <1>1, <1>5 DEF LogStep
<1>7. QED
  BY <1>3, <1>4, <1>6

\* A request whose completion is not signalled yet is fully served.
LEMMA CompletionsServed ==
  ASSUME NEW c, c.completion \in Seq(Requests), NEW rm, NEW lg, Phases(c, rm, lg)
  PROVE  \A r \in ToSet(c.completion) : rm[r] = 0
<1> SUFFICES ASSUME NEW r \in ToSet(c.completion) PROVE rm[r] = 0
  OBVIOUS
<1>1. r \in Requests
  BY DEF ToSet
<1>2. InPhase(c, EventOf(c, r), rm[r], lg[r], r)
  BY <1>1 DEF Phases
<1>3. QED
  BY <1>2 DEF InPhase, Absent, Queued, Transferring, Accessing, Served, Returning, Completing,
              Outside

\* Requests of which nothing is held may be started, all at once.
LEMMA MediaStarted ==
  ASSUME config \in Configurations, PiecesInv(elem, remaining),
         NEW rs \in Seq(Requests), IsInjective(rs), \A r \in ToSet(rs) : remaining[r] = 0,
         StartMedia(elem, rs)
  PROVE  /\ remaining' = Started(rs, remaining)
         /\ PiecesInv(elem', remaining')
<1>1. remaining' = Started(rs, remaining)
  BY DEF StartMedia, Started
<1>2. PICK clean \in SUBSET Elements : elem' = MediaAccess(elem, rs, clean)
  BY DEF StartMedia
<1>3. PiecesInv(MediaAccess(elem, rs, clean), Started(rs, remaining))
  BY StartedPieces, Zenon DEF Started
<1>4. QED
  BY <1>1, <1>2, <1>3, Zenon

\* The channel when the controller has answered ev.
LEMMA AnsweredPhases ==
  ASSUME FullInv, Running, NEW ev \in chan.bus, NEW c,
         c = Answered(ev) \/ c = Released(Answered(ev))
  PROVE  /\ ev.req \in Requests /\ ev \in Events
         /\ Quiet(c) /\ c.activity = ev.req /\ c.failed = {}
         /\ Lists(c) /\ c.queue = chan.queue /\ c.outstanding = chan.outstanding
         /\ c.completion = chan.completion
         /\ InPhase(chan, ev.kind, remaining[ev.req], Lengths(log)[ev.req], ev.req)
         /\ \A q \in Requests : q # ev.req =>
              InPhase(c, "NOTHING", remaining[q], Lengths(log)[q], q)
<1>1. /\ config \in Configurations /\ Exclusive(chan) /\ chan \in Channels
      /\ chan.failed = {} /\ Lists(chan) /\ Phases(chan, remaining, Lengths(log))
  BY DEF FullInv, IInv, DeviceInv, Running, Exclusive, Sound
<1>2. /\ ev \in Events /\ chan.activity = ev.req /\ chan.bus = {ev}
      /\ AssertActivity(chan, ev.req) = chan
      /\ Quiet(Answered(ev)) /\ Answered(ev).activity = ev.req
      /\ Quiet(Released(Answered(ev)))
  BY <1>1, AnsweredQuiet
<1>3. ev.req \in Requests
  BY <1>2 DEF Events
<1>4. /\ Answered(ev).queue = chan.queue /\ Answered(ev).outstanding = chan.outstanding
      /\ Answered(ev).completion = chan.completion /\ Answered(ev).failed = {}
  BY <1>1, <1>2 DEF Answered, Channels
<1>5. /\ c.queue = chan.queue /\ c.outstanding = chan.outstanding
      /\ c.completion = chan.completion /\ c.failed = {} /\ c.activity = ev.req /\ Quiet(c)
  <2>1. Answered(ev) \in Channels
    BY <1>2 DEF Quiet, Sound
  <2>2. QED
    BY <1>2, <1>4, <2>1 DEF Released, Channels
<1>6. EventOf(chan, ev.req) = ev.kind
  <2>1. (CHOOSE x \in {ev} : TRUE) = ev
    OBVIOUS
  <2>2. QED
    BY <1>2, <2>1 DEF EventOf
<1>7. ASSUME NEW q \in Requests, q # ev.req
      PROVE  InPhase(c, "NOTHING", remaining[q], Lengths(log)[q], q)
  <2>1. InPhase(chan, EventOf(chan, q), remaining[q], Lengths(log)[q], q)
    BY <1>1 DEF Phases
  <2>2. EventOf(chan, q) = "NOTHING"
    BY <1>2, <1>7 DEF EventOf
  <2>3. QED
    BY <1>5, <2>1, <2>2, PhaseKept
<1>8. InPhase(chan, ev.kind, remaining[ev.req], Lengths(log)[ev.req], ev.req)
  BY <1>1, <1>3, <1>6 DEF Phases
<1>9. QED
  BY <1>1, <1>2, <1>3, <1>5, <1>7, <1>8 DEF Lists

\* The step goes on with ssd_check_channel_activity, once the media are started for rs.
LEMMA CheckedStep ==
  ASSUME config \in Configurations, PiecesInv(elem, remaining),
         NEW c, Quiet(c), Lists(c), c.failed = {},
         NEW rs \in Seq(Requests), IsInjective(rs), \A r \in ToSet(rs) : remaining[r] = 0,
         \A r \in ToSet(rs) : r \notin ToSet(c.queue),
         NEW lg, QuietPhases(c, Started(rs, remaining), lg),
         ~Neverdisconnect => ~c.busowned,
         chan' = CheckChannel(c), StartMedia(elem, rs \o Starts(c))
  PROVE  /\ PiecesInv(elem', remaining') /\ Lists(chan') /\ Prompt(chan')
         /\ chan'.failed = {} /\ Phases(chan', remaining', lg)
         /\ \A r \in ToSet(chan'.completion) : remaining'[r] = 0
<1> DEFINE rm == Started(rs, remaining)
           all == rs \o Starts(c)
<1>1. rm \in [Requests -> Nat] /\ remaining \in [Requests -> Nat]
  <2>1. remaining \in [Requests -> Nat]
    BY DEF PiecesInv
  <2>2. \A r \in Requests : Len(Blocks(r)) \in Nat
    BY RequestPages
  <2>3. QED
    BY <2>1, <2>2 DEF Started
<1> HIDE DEF rm
<1>2. QuietPhases(c, rm, lg)
  BY DEF rm
<1>3. /\ Lists(chan') /\ Prompt(chan') /\ chan'.failed = {}
      /\ Starts(c) \in Seq(Requests) /\ IsInjective(Starts(c))
      /\ \A r \in ToSet(Starts(c)) : r \in ToSet(c.queue)
      /\ Phases(chan', Started(Starts(c), rm), lg)
  BY <1>1, <1>2, CheckChannelPhases
<1>4. chan' \in Channels
  BY CheckChannelExclusive DEF Exclusive, Sound
<1>5. /\ all \in Seq(Requests) /\ IsInjective(all) /\ ToSet(all) = ToSet(rs) \cup ToSet(Starts(c))
  <2>1. ToSet(rs) \cap ToSet(Starts(c)) = {}
    BY <1>3
  <2>2. QED
    BY <1>3, <2>1, ConcatElements
<1>6. \A r \in ToSet(all) : remaining[r] = 0
  <2> SUFFICES ASSUME NEW r \in ToSet(Starts(c)), r \notin ToSet(rs) PROVE remaining[r] = 0
    BY <1>5
  <2>1. r \in ToSet(c.queue) /\ r \in Requests
    <3>1. r \in ToSet(c.queue) /\ c.queue \in Seq(Requests)
      BY <1>3 DEF Quiet, Sound, Channels
    <3>2. QED
      BY <3>1 DEF ToSet
  <2>2. InPhase(c, "NOTHING", rm[r], lg[r], r) /\ rm[r] = remaining[r]
    BY <1>2, <2>1 DEF QuietPhases, rm, Started
  <2>3. QED
    BY <2>1, <2>2 DEF InPhase, Absent, Queued, Transferring, Accessing, Served, Returning,
                      Completing, Outside, InDevice
<1> HIDE DEF all
<1>7. remaining' = Started(all, remaining) /\ PiecesInv(elem', remaining')
  <2>1. StartMedia(elem, all)
    BY DEF all
  <2>2. QED
    BY <1>5, <1>6, <2>1, MediaStarted
<1>8. \A r \in Requests : remaining'[r] = Started(Starts(c), rm)[r]
  BY <1>5, <1>7 DEF Started, rm
<1>9. Phases(chan', remaining', lg)
  BY <1>3, <1>8 DEF Phases
<1>10. \A r \in ToSet(chan'.completion) : remaining'[r] = 0
  <2>1. chan'.completion \in Seq(Requests)
    BY <1>4 DEF Channels
  <2>2. QED
    BY <1>9, <2>1, CompletionsServed
<1>11. QED
  BY <1>3, <1>7, <1>9, <1>10

-----------------------------------------------------------------------------
(* The steps, action by action. *)

StepKeeps == DeviceInv(chan', elem', remaining', log') /\ LogStep(log, log')

\* What the invariant says while no assertion has failed.
LEMMA RunningFacts ==
  ASSUME FullInv, Running
  PROVE  /\ config \in Configurations /\ Exclusive(chan) /\ chan \in Channels
         /\ chan.failed = {} /\ Lists(chan) /\ Prompt(chan)
         /\ Phases(chan, remaining, Lengths(log)) /\ PiecesInv(elem, remaining)
         /\ remaining \in [Requests -> Nat] /\ log \in [Requests -> Seq(StepNames)]
         /\ Neverdisconnect \in BOOLEAN
         /\ \A r \in Requests : IsRead(r) \in BOOLEAN /\ Len(Blocks(r)) > 0
<1>1. config \in Configurations
  BY DEF FullInv, IInv
<1>2. \A r \in Requests : IsRead(r) \in BOOLEAN /\ Len(Blocks(r)) > 0
  BY <1>1, RequestPages, SSDAssumption DEF IsRead, Requests
<1>3. Neverdisconnect \in BOOLEAN
  BY <1>1, SSDAssumption DEF Neverdisconnect
<1>4. QED
  BY <1>1, <1>2, <1>3 DEF FullInv, IInv, DeviceInv, Running, Exclusive, Sound, PiecesInv

\* A step that starts no media: the phases are as before but for those of r.
LEMMA ChannelStep ==
  ASSUME FullInv, Running, NEW c, c \in Channels, c.failed = {}, Lists(c), Prompt(c),
         chan' = c, UNCHANGED <<elem, remaining>>,
         NEW r \in Requests,
         log' \in [Requests -> Seq(StepNames)], LogStep(log, log'),
         InPhase(c, EventOf(c, r), remaining[r], Lengths(log')[r], r),
         \A q \in Requests : q # r =>
           InPhase(c, EventOf(c, q), remaining[q], Lengths(log')[q], q)
  PROVE  StepKeeps
<1>1. Phases(c, remaining, Lengths(log'))
  BY DEF Phases
<1>2. \A q \in ToSet(c.completion) : remaining[q] = 0
  <2>1. c.completion \in Seq(Requests)
    BY DEF Channels
  <2>2. QED
    BY <1>1, <2>1, CompletionsServed
<1>3. PiecesInv(elem', remaining')
  BY RunningFacts
<1>4. QED
  BY <1>1, <1>2, <1>3 DEF StepKeeps, DeviceInv

\* The grants and delays of the bus keep the phases.
LEMMA BusMoves ==
  ASSUME FullInv, Running, NEW ev \in chan.bus, BusOwnershipGrant(ev) \/ BusDelayComplete(ev)
  PROVE  StepKeeps
<1>1. /\ config \in Configurations /\ Exclusive(chan) /\ chan \in Channels
      /\ chan.failed = {} /\ Lists(chan) /\ Prompt(chan)
      /\ Phases(chan, remaining, Lengths(log)) /\ log \in [Requests -> Seq(StepNames)]
  BY RunningFacts
<1>2. /\ ev \in Events /\ chan.activity = ev.req /\ chan.bus = {ev}
      /\ AssertActivity(chan, ev.req) = chan
  BY <1>1, AnsweredQuiet
<1>3. ev.req \in Requests
  BY <1>2 DEF Events
<1>4. PICK at \in {"delay", "controller"} :
        chan'.bus = {[ev EXCEPT !.at = at]} /\ chan'.activity = ev.req
        /\ chan'.queue = chan.queue /\ chan'.outstanding = chan.outstanding
        /\ chan'.completion = chan.completion /\ chan'.failed = {}
        /\ chan'.reason = chan.reason /\ chan' \in Channels
  <2>1. \A at \in {"delay", "controller"} : [ev EXCEPT !.at = at] \in Events
    BY <1>2 DEF Events
  <2>2. CASE BusOwnershipGrant(ev)
    <3>1. chan' = [chan EXCEPT !.bus = {[ev EXCEPT !.at = "delay"]}, !.busowned = TRUE]
      BY <1>1, <1>2, <2>2 DEF BusOwnershipGrant, Channels
    <3>2. [ev EXCEPT !.at = "delay"] \in Events
      BY <2>1
    <3> DEFINE moved == [ev EXCEPT !.at = "delay"]
    <3> HIDE DEF moved
    <3>3. /\ chan'.bus = {moved} /\ chan'.activity = ev.req
          /\ chan'.queue = chan.queue /\ chan'.outstanding = chan.outstanding
          /\ chan'.completion = chan.completion /\ chan'.failed = {}
          /\ chan'.reason = chan.reason /\ chan' \in Channels
      <4>1. chan' = [chan EXCEPT !.bus = {moved}, !.busowned = TRUE] /\ moved \in Events
        BY <3>1, <3>2 DEF moved
      <4>2. QED
        BY <1>1, <1>2, <4>1 DEF Channels
    <3>4. QED
      BY <3>3 DEF moved
  <2>3. CASE BusDelayComplete(ev)
    <3>1. chan' = [chan EXCEPT !.bus = {[ev EXCEPT !.at = "controller"]}]
      BY <1>1, <1>2, <2>3 DEF BusDelayComplete, Channels
    <3>2. [ev EXCEPT !.at = "controller"] \in Events
      BY <2>1
    <3> DEFINE moved == [ev EXCEPT !.at = "controller"]
    <3> HIDE DEF moved
    <3>3. /\ chan'.bus = {moved} /\ chan'.activity = ev.req
          /\ chan'.queue = chan.queue /\ chan'.outstanding = chan.outstanding
          /\ chan'.completion = chan.completion /\ chan'.failed = {}
          /\ chan'.reason = chan.reason /\ chan' \in Channels
      <4>1. chan' = [chan EXCEPT !.bus = {moved}] /\ moved \in Events
        BY <3>1, <3>2 DEF moved
      <4>2. QED
        BY <1>1, <1>2, <4>1 DEF Channels
    <3>4. QED
      BY <3>3 DEF moved
  <2>4. QED
    BY <2>2, <2>3
<1>5. \A q \in Requests : EventOf(chan', q) = EventOf(chan, q)
  <2>1. [ev EXCEPT !.at = at].kind = ev.kind
    BY <1>2 DEF Events
  <2>2. \A x : (CHOOSE y \in {x} : TRUE) = x
    OBVIOUS
  <2> DEFINE moved == [ev EXCEPT !.at = at]
  <2>3. moved.kind = ev.kind /\ chan'.bus = {moved}
    BY <1>4, <2>1
  <2> HIDE DEF moved
  <2>4. QED
    BY <1>2, <1>4, <2>2, <2>3 DEF EventOf
<1>6. UNCHANGED <<elem, remaining, log>>
  BY DEF BusOwnershipGrant, BusDelayComplete
<1>7. \A q \in Requests : InPhase(chan', EventOf(chan', q), remaining[q], Lengths(log)[q], q)
  <2> SUFFICES ASSUME NEW q \in Requests
               PROVE  InPhase(chan', EventOf(chan', q), remaining[q], Lengths(log)[q], q)
    OBVIOUS
  <2>1. InPhase(chan, EventOf(chan, q), remaining[q], Lengths(log)[q], q)
    BY <1>1 DEF Phases
  <2>2. InPhase(chan', EventOf(chan, q), remaining[q], Lengths(log)[q], q)
    BY <1>4, <2>1, PhaseKept
  <2>3. QED
    BY <1>5, <2>2
<1>8. Lists(chan') /\ Prompt(chan')
  BY <1>1, <1>4, <1>3, NoneIsNoRequest DEF Lists, Prompt
<1>9. Lengths(log') = Lengths(log) /\ LogStep(log, log') /\ log' \in [Requests -> Seq(StepNames)]
  BY <1>1, <1>6 DEF LogStep
<1>10. QED
  BY <1>3, <1>4, <1>6, <1>7, <1>8, <1>9, ChannelStep

\* A reconnection keeps the invariant.
LEMMA ReconnectStep ==
  ASSUME FullInv, Running, NEW ev \in chan.bus, ReconnectDone(ev)
  PROVE  StepKeeps
<1> DEFINE c == Answered(ev)
           r == ev.req
<1>1. /\ config \in Configurations /\ log \in [Requests -> Seq(StepNames)]
      /\ Neverdisconnect \in BOOLEAN /\ \A q \in Requests : IsRead(q) \in BOOLEAN
      /\ chan \in Channels
  BY RunningFacts
<1>2. /\ r \in Requests /\ ev \in Events /\ Quiet(c) /\ c.activity = r /\ c.failed = {}
      /\ Lists(c) /\ c.queue = chan.queue /\ c.outstanding = chan.outstanding
      /\ c.completion = chan.completion
      /\ InPhase(chan, ev.kind, remaining[r], Lengths(log)[r], r)
      /\ \A q \in Requests : q # r =>
           InPhase(c, "NOTHING", remaining[q], Lengths(log)[q], q)
  BY AnsweredPhases
<1>3. ev.kind = "RECONNECT"
  BY DEF ReconnectDone
<1>4. \/ Transferring(chan, "RECONNECT", remaining[r], Lengths(log)[r], r)
      \/ Returning(chan, "RECONNECT", remaining[r], Lengths(log)[r], r)
  BY <1>2, <1>3 DEF InPhase, Absent, Queued, Accessing, Served, Completing
<1>5. ~(IsRead(r) /\ Neverdisconnect)
  BY <1>4 DEF Transferring, Returning
<1>6. /\ chan' = IF ~IsRead(r) /\ chan.reason = "ACCESS"
                 THEN RequestComplete(c, r) ELSE SendUp(c, r, "DATA")
      /\ UNCHANGED <<elem, remaining>> /\ UNCHANGED log
  BY <1>5 DEF ReconnectDone
<1>7. log' \in [Requests -> Seq(StepNames)] /\ LogStep(log, log') /\ Lengths(log') = Lengths(log)
  BY <1>1, <1>6 DEF LogStep
<1>8. r # NONE
  BY <1>1, <1>2, NoneIsNoRequest
<1> HIDE DEF c, r
<1>9. CASE ~IsRead(r) /\ chan.reason = "ACCESS"
  <2> DEFINE d == RequestComplete(c, r)
  <2>1. Returning(chan, "RECONNECT", remaining[r], Lengths(log)[r], r)
    BY <1>4, <1>9 DEF Transferring
  <2>2. r \in c.outstanding
    BY <1>2, <2>1 DEF Returning, InDevice
  <2>3. /\ d \in Channels /\ d.queue = c.queue /\ d.outstanding = c.outstanding \ {r}
        /\ d.completion = c.completion /\ d.failed = c.failed /\ d.activity = r
        /\ EventOf(d, r) = "COMPLETION"
        /\ \A q \in Requests : q # r => EventOf(d, q) = "NOTHING"
    BY <1>1, <1>2, <2>2, RequestCompleteFields
  <2>4. chan' = d
    BY <1>6, <1>9
  <2> HIDE DEF d
  <2>5. InPhase(d, EventOf(d, r), remaining[r], Lengths(log')[r], r)
    BY <1>2, <1>7, <1>9, <2>1, <2>3
    DEF InPhase, Completing, Returning, Outside, InDevice, NumBefore
  <2>6. \A q \in Requests : q # r => InPhase(d, EventOf(d, q), remaining[q], Lengths(log')[q], q)
    BY <1>2, <1>7, <2>3, PhaseKept
  <2>7. Lists(d) /\ Prompt(d)
    BY <1>2, <1>8, <2>3 DEF Lists, Prompt
  <2>8. QED
    BY <1>2, <1>6, <1>7, <2>3, <2>4, <2>5, <2>6, <2>7, ChannelStep
<1>10. CASE ~(~IsRead(r) /\ chan.reason = "ACCESS")
  <2> DEFINE d == SendUp(c, r, "DATA")
  <2>1. "DATA" \in Kinds
    BY DEF Kinds
  <2>2. config \in Configurations /\ Quiet(c) /\ r \in Requests /\ c.activity = r
    BY <1>1, <1>2
  <2>3. /\ d \in Channels /\ d.queue = c.queue /\ d.outstanding = c.outstanding
        /\ d.completion = c.completion /\ d.failed = c.failed /\ d.activity = r
        /\ EventOf(d, r) = "DATA"
        /\ \A q \in Requests : q # r => EventOf(d, q) = "NOTHING"
    BY <2>1, <2>2, SendUpFields
  <2>4. chan' = d
    BY <1>6, <1>10
  <2> HIDE DEF d
  <2>5. InPhase(d, EventOf(d, r), remaining[r], Lengths(log')[r], r)
    BY <1>1, <1>2, <1>4, <1>7, <1>10, <2>3
    DEF InPhase, Transferring, Returning, InDevice
  <2>6. \A q \in Requests : q # r => InPhase(d, EventOf(d, q), remaining[q], Lengths(log')[q], q)
    BY <1>2, <1>7, <2>3, PhaseKept
  <2>7. Lists(d) /\ Prompt(d)
    BY <1>2, <1>8, <2>3 DEF Lists, Prompt
  <2>8. QED
    BY <1>2, <1>6, <1>7, <2>3, <2>4, <2>5, <2>6, <2>7, ChannelStep
<1>11. QED
  BY <1>9, <1>10

\* As CheckedStep, when no media are started first.
LEMMA CheckedStepNoMedia ==
  ASSUME config \in Configurations, PiecesInv(elem, remaining),
         NEW c, Quiet(c), Lists(c), c.failed = {},
         NEW lg, QuietPhases(c, remaining, lg),
         ~Neverdisconnect => ~c.busowned,
         chan' = CheckChannel(c), StartMedia(elem, Starts(c))
  PROVE  /\ PiecesInv(elem', remaining') /\ Lists(chan') /\ Prompt(chan')
         /\ chan'.failed = {} /\ Phases(chan', remaining', lg)
         /\ \A r \in ToSet(chan'.completion) : remaining'[r] = 0
<1>1. /\ <<>> \in Seq(Requests) /\ IsInjective(<<>>) /\ ToSet(<<>>) = {}
  BY DEF IsInjective, ToSet
<1>2. \A r \in Requests : Started(<<>>, remaining)[r] = remaining[r]
  BY <1>1 DEF Started
<1>3. QuietPhases(c, Started(<<>>, remaining), lg)
  BY <1>2 DEF QuietPhases
<1>4. Starts(c) \in Seq(Requests)
  <2>1. remaining \in [Requests -> Nat]
    BY DEF PiecesInv
  <2>2. QED
    BY <2>1, CheckChannelPhases
<1>5. StartMedia(elem, <<>> \o Starts(c))
  <2>1. <<>> \o Starts(c) = Starts(c)
    BY <1>4
  <2>2. QED
    BY <2>1
<1>6. \A r \in ToSet(<<>>) : remaining[r] = 0 /\ r \notin ToSet(c.queue)
  BY <1>1
<1>7. QED
  BY <1>1, <1>3, <1>5, <1>6, CheckedStep

\* A disconnection keeps the invariant.
LEMMA DisconnectStep ==
  ASSUME FullInv, Running, NEW ev \in chan.bus, DisconnectDone(ev)
  PROVE  StepKeeps
<1> DEFINE c == Released(Answered(ev))
           r == ev.req
<1>1. /\ config \in Configurations /\ log \in [Requests -> Seq(StepNames)]
      /\ PiecesInv(elem, remaining) /\ Exclusive(chan)
  BY RunningFacts
<1>2. /\ r \in Requests /\ Quiet(c) /\ c.failed = {}
      /\ Lists(c) /\ c.queue = chan.queue /\ c.outstanding = chan.outstanding
      /\ c.completion = chan.completion
      /\ InPhase(chan, ev.kind, remaining[r], Lengths(log)[r], r)
      /\ \A q \in Requests : q # r =>
           InPhase(c, "NOTHING", remaining[q], Lengths(log)[q], q)
  BY AnsweredPhases
<1>3. ev.kind = "DISCONNECT"
  BY DEF DisconnectDone
<1>4. ~c.busowned
  BY <1>1, AnsweredQuiet
<1>5. chan' = CheckChannel(c) /\ StartMedia(elem, Starts(c)) /\ UNCHANGED log
  BY DEF DisconnectDone, ThenCheckChannel
<1> HIDE DEF c, r
<1>6. InPhase(c, "NOTHING", remaining[r], Lengths(log)[r], r)
  BY <1>2, <1>3 DEF InPhase, Absent, Queued, Transferring, Accessing, Served, Returning,
                    Completing, InDevice
<1>7. QuietPhases(c, remaining, Lengths(log))
  BY <1>2, <1>6 DEF QuietPhases
<1>8. /\ PiecesInv(elem', remaining') /\ Lists(chan') /\ Prompt(chan')
      /\ chan'.failed = {} /\ Phases(chan', remaining', Lengths(log))
      /\ \A q \in ToSet(chan'.completion) : remaining'[q] = 0
  BY <1>1, <1>2, <1>4, <1>5, <1>7, CheckedStepNoMedia
<1>9. QED
  BY <1>1, <1>5, <1>8 DEF StepKeeps, DeviceInv, LogStep

\* A completion keeps the invariant.
LEMMA CompletionStep ==
  ASSUME FullInv, Running, NEW ev \in chan.bus, CompletionDone(ev)
  PROVE  StepKeeps
<1> DEFINE c == Released(Answered(ev))
           r == ev.req
<1>1. /\ config \in Configurations /\ log \in [Requests -> Seq(StepNames)]
      /\ PiecesInv(elem, remaining) /\ Exclusive(chan)
  BY RunningFacts
<1>2. /\ r \in Requests /\ Quiet(c) /\ c.failed = {}
      /\ Lists(c) /\ c.queue = chan.queue /\ c.outstanding = chan.outstanding
      /\ c.completion = chan.completion
      /\ InPhase(chan, ev.kind, remaining[r], Lengths(log)[r], r)
      /\ \A q \in Requests : q # r =>
           InPhase(c, "NOTHING", remaining[q], Lengths(log)[q], q)
  BY AnsweredPhases
<1>3. ev.kind = "COMPLETION"
  BY DEF CompletionDone
<1>4. ~c.busowned
  BY <1>1, AnsweredQuiet
<1>5. chan' = CheckChannel(c) /\ StartMedia(elem, Starts(c)) /\ Log(r, "complete")
  BY DEF CompletionDone, ThenCheckChannel
<1> HIDE DEF c, r
<1>6. Completing(chan, "COMPLETION", remaining[r], Lengths(log)[r], r)
  BY <1>2, <1>3 DEF InPhase, Absent, Queued, Transferring, Accessing, Served, Returning
<1>7. /\ log' \in [Requests -> Seq(StepNames)] /\ LogStep(log, log') /\ Lengths(log')[r] = 4
      /\ \A q \in Requests : q # r => Lengths(log')[q] = Lengths(log)[q]
  <2>1. Len(log[r]) = 3
    BY <1>2, <1>6 DEF Completing, Lengths
  <2>2. Promise!Steps(r)[4] = "complete" /\ "complete" \in StepNames
    <3>1. r \in Requests
      BY <1>2
    <3>2. QED
      BY <3>1, StepsOfRequest DEF StepNames
  <2>3. 4 = Len(log[r]) + 1 /\ 4 \in 1 .. 4
    BY <2>1
  <2>4. QED
    BY <1>1, <1>2, <1>5, <2>2, <2>3, LogTaken
<1>8. InPhase(c, "NOTHING", remaining[r], Lengths(log')[r], r)
  BY <1>2, <1>6, <1>7 DEF InPhase, Absent, Completing, Outside
<1>9. QuietPhases(c, remaining, Lengths(log'))
  BY <1>2, <1>7, <1>8 DEF QuietPhases
<1>10. /\ PiecesInv(elem', remaining') /\ Lists(chan') /\ Prompt(chan')
       /\ chan'.failed = {} /\ Phases(chan', remaining', Lengths(log'))
       /\ \A q \in ToSet(chan'.completion) : remaining'[q] = 0
  BY <1>1, <1>2, <1>4, <1>5, <1>9, CheckedStepNoMedia
<1>11. QED
  BY <1>7, <1>10 DEF StepKeeps, DeviceInv

\* The media of one request are started while it possesses the channel.
LEMMA DisconnectingStep ==
  ASSUME FullInv, Running, NEW c, Quiet(c), Lists(c), c.failed = {},
         NEW r \in Requests, c.activity = r, ~Neverdisconnect,
         r \notin ToSet(c.queue), r \in c.outstanding, r \notin ToSet(c.completion),
         remaining[r] = 0,
         chan' = SendUp(c, r, "DISCONNECT"), StartMedia(elem, <<r>>),
         log' \in [Requests -> Seq(StepNames)], LogStep(log, log'),
         Lengths(log')[r] = NumBefore(r),
         \A q \in Requests : q # r => InPhase(c, "NOTHING", remaining[q], Lengths(log')[q], q)
  PROVE  StepKeeps
<1>1. /\ config \in Configurations /\ PiecesInv(elem, remaining)
      /\ \A q \in Requests : Len(Blocks(q)) > 0
  BY RunningFacts
<1>2. "DISCONNECT" \in Kinds
  BY DEF Kinds
<1>3. /\ chan' \in Channels /\ chan'.queue = c.queue /\ chan'.outstanding = c.outstanding
      /\ chan'.completion = c.completion /\ chan'.failed = {} /\ chan'.activity = r
      /\ EventOf(chan', r) = "DISCONNECT"
      /\ \A q \in Requests : q # r => EventOf(chan', q) = "NOTHING"
  BY <1>1, <1>2, SendUpFields
<1>4. <<r>> \in Seq(Requests) /\ IsInjective(<<r>>) /\ ToSet(<<r>>) = {r}
  BY DEF IsInjective, ToSet
<1>5. remaining' = Started(<<r>>, remaining) /\ PiecesInv(elem', remaining')
  <2>1. \A q \in ToSet(<<r>>) : remaining[q] = 0
    BY <1>4
  <2>2. QED
    BY <1>1, <1>4, <2>1, MediaStarted
<1>6. /\ remaining'[r] = Len(Blocks(r))
      /\ \A q \in Requests : q # r => remaining'[q] = remaining[q]
  BY <1>4, <1>5 DEF Started
<1>7. InPhase(chan', EventOf(chan', r), remaining'[r], Lengths(log')[r], r)
  BY <1>1, <1>3, <1>6 DEF InPhase, Accessing, InDevice
<1>8. ASSUME NEW q \in Requests, q # r
      PROVE  InPhase(chan', EventOf(chan', q), remaining'[q], Lengths(log')[q], q)
  <2>1. InPhase(c, "NOTHING", remaining[q], Lengths(log')[q], q)
    BY <1>8
  <2>2. InPhase(chan', "NOTHING", remaining[q], Lengths(log')[q], q)
    BY <1>3, <2>1, PhaseKept
  <2>3. QED
    BY <1>3, <1>6, <1>8, <2>2
<1>9. Phases(chan', remaining', Lengths(log'))
  BY <1>7, <1>8 DEF Phases
<1>10. \A q \in ToSet(chan'.completion) : remaining'[q] = 0
  <2>1. chan'.completion \in Seq(Requests)
    BY <1>3 DEF Channels
  <2>2. QED
    BY <1>9, <2>1, CompletionsServed
<1>11. Lists(chan') /\ Prompt(chan')
  BY <1>1, <1>3, NoneIsNoRequest DEF Lists, Prompt
<1>12. QED
  BY <1>3, <1>5, <1>9, <1>10, <1>11 DEF StepKeeps, DeviceInv

\* The media of one request are started and the channel is looked at.
LEMMA KeepingStep ==
  ASSUME FullInv, Running, NEW c, Quiet(c), Lists(c), c.failed = {},
         NEW r \in Requests, Neverdisconnect,
         r \notin ToSet(c.queue), r \in c.outstanding, r \notin ToSet(c.completion),
         remaining[r] = 0,
         chan' = CheckChannel(c), StartMedia(elem, <<r>> \o Starts(c)),
         log' \in [Requests -> Seq(StepNames)], LogStep(log, log'),
         Lengths(log')[r] = NumBefore(r),
         \A q \in Requests : q # r => InPhase(c, "NOTHING", remaining[q], Lengths(log')[q], q)
  PROVE  StepKeeps
<1>1. /\ config \in Configurations /\ PiecesInv(elem, remaining)
      /\ \A q \in Requests : Len(Blocks(q)) > 0
  BY RunningFacts
<1>2. <<r>> \in Seq(Requests) /\ IsInjective(<<r>>) /\ ToSet(<<r>>) = {r}
  BY DEF IsInjective, ToSet
<1>3. /\ Started(<<r>>, remaining)[r] = Len(Blocks(r))
      /\ \A q \in Requests : q # r => Started(<<r>>, remaining)[q] = remaining[q]
  BY <1>2 DEF Started
<1>4. InPhase(c, "NOTHING", Started(<<r>>, remaining)[r], Lengths(log')[r], r)
  BY <1>1, <1>3 DEF InPhase, Accessing, InDevice
<1>5. QuietPhases(c, Started(<<r>>, remaining), Lengths(log'))
  BY <1>3, <1>4 DEF QuietPhases
<1>6. \A q \in ToSet(<<r>>) : remaining[q] = 0 /\ q \notin ToSet(c.queue)
  BY <1>2
<1>7. /\ PiecesInv(elem', remaining') /\ Lists(chan') /\ Prompt(chan')
      /\ chan'.failed = {} /\ Phases(chan', remaining', Lengths(log'))
      /\ \A q \in ToSet(chan'.completion) : remaining'[q] = 0
  BY <1>1, <1>2, <1>5, <1>6, CheckedStep
<1>8. QED
  BY <1>7 DEF StepKeeps, DeviceInv

\* The end of a transfer keeps the invariant.
LEMMA BusTransferStep ==
  ASSUME FullInv, Running, NEW ev \in chan.bus, BusTransferComplete(ev)
  PROVE  StepKeeps
<1> DEFINE c == Answered(ev)
           r == ev.req
<1>1. /\ config \in Configurations /\ log \in [Requests -> Seq(StepNames)]
      /\ Neverdisconnect \in BOOLEAN /\ \A q \in Requests : IsRead(q) \in BOOLEAN
  BY RunningFacts
<1>2. /\ r \in Requests /\ Quiet(c) /\ c.activity = r /\ c.failed = {}
      /\ Lists(c) /\ c.queue = chan.queue /\ c.outstanding = chan.outstanding
      /\ c.completion = chan.completion
      /\ InPhase(chan, ev.kind, remaining[r], Lengths(log)[r], r)
      /\ \A q \in Requests : q # r =>
           InPhase(c, "NOTHING", remaining[q], Lengths(log)[q], q)
  BY AnsweredPhases
<1>3. ev.kind \in {"READY_TO_TRANSFER", "DATA"} /\ Log(r, "data")
  BY DEF BusTransferComplete
<1>4. CASE /\ IsRead(r) => chan' = RequestComplete(c, r) /\ UNCHANGED <<elem, remaining>>
           /\ ~IsRead(r) /\ ~Neverdisconnect =>
                chan' = SendUp(c, r, "DISCONNECT") /\ StartMedia(elem, <<r>>)
           /\ ~IsRead(r) /\ Neverdisconnect =>
                chan' = CheckChannel(c) /\ StartMedia(elem, <<r>> \o Starts(c))
  <2> HIDE DEF c, r
  <2>1. r \in Requests /\ r # NONE /\ IsRead(r) \in BOOLEAN /\ "data" \in StepNames
    BY <1>1, <1>2, NoneIsNoRequest DEF StepNames
  <2>2. CASE IsRead(r)
    <3> DEFINE d == RequestComplete(c, r)
    <3>1. Returning(chan, "DATA", remaining[r], Lengths(log)[r], r)
      BY <1>2, <1>3, <2>2 DEF InPhase, Absent, Queued, Transferring, Accessing, Served,
                               Returning, Completing
    <3>2. Len(log[r]) = 2 /\ r \in c.outstanding
      BY <1>2, <2>1, <2>2, <3>1 DEF Returning, InDevice, Lengths, NumBefore
    <3>3. /\ log' \in [Requests -> Seq(StepNames)] /\ LogStep(log, log') /\ Lengths(log')[r] = 3
          /\ \A q \in Requests : q # r => Lengths(log')[q] = Lengths(log)[q]
      <4>1. Promise!Steps(r)[3] = "data" /\ 3 = Len(log[r]) + 1 /\ 3 \in 1 .. 4
        BY <2>1, <2>2, <3>2, StepsOfRequest
      <4>2. QED
        BY <1>1, <1>3, <2>1, <4>1, LogTaken
    <3>4. /\ d \in Channels /\ d.queue = c.queue /\ d.outstanding = c.outstanding \ {r}
          /\ d.completion = c.completion /\ d.failed = c.failed /\ d.activity = r
          /\ EventOf(d, r) = "COMPLETION"
          /\ \A q \in Requests : q # r => EventOf(d, q) = "NOTHING"
      <4>1. config \in Configurations /\ Quiet(c) /\ c.activity = r
        BY <1>1, <1>2
      <4>2. QED
        BY <2>1, <3>2, <4>1, RequestCompleteFields
    <3>5. chan' = d /\ UNCHANGED <<elem, remaining>>
      BY <1>4, <2>2
    <3> HIDE DEF d
    <3>6. InPhase(d, EventOf(d, r), remaining[r], Lengths(log')[r], r)
      BY <1>2, <3>1, <3>3, <3>4 DEF InPhase, Completing, Returning, Outside, InDevice
    <3>7. \A q \in Requests : q # r => InPhase(d, EventOf(d, q), remaining[q], Lengths(log')[q], q)
      BY <1>2, <3>3, <3>4, PhaseKept
    <3>8. Lists(d) /\ Prompt(d) /\ d.failed = {}
      BY <1>2, <2>1, <3>4 DEF Lists, Prompt
    <3>9. QED
      BY <2>1, <3>3, <3>4, <3>5, <3>6, <3>7, <3>8, ChannelStep
  <2>3. CASE ~IsRead(r)
    <3>1. Transferring(chan, ev.kind, remaining[r], Lengths(log)[r], r)
      BY <1>2, <1>3, <2>3 DEF InPhase, Absent, Queued, Accessing, Served, Returning, Completing
    <3>2. Len(log[r]) = 1
      BY <2>1, <3>1 DEF Transferring, Lengths
    <3>3. /\ log' \in [Requests -> Seq(StepNames)] /\ LogStep(log, log') /\ Lengths(log')[r] = 2
          /\ \A q \in Requests : q # r => Lengths(log')[q] = Lengths(log)[q]
      <4>1. Promise!Steps(r)[2] = "data" /\ 2 = Len(log[r]) + 1 /\ 2 \in 1 .. 4
        BY <2>1, <2>3, <3>2, StepsOfRequest
      <4>2. QED
        BY <1>1, <1>3, <2>1, <4>1, LogTaken
    <3>4. /\ r \notin ToSet(c.queue) /\ r \in c.outstanding /\ r \notin ToSet(c.completion)
          /\ remaining[r] = 0 /\ Lengths(log')[r] = NumBefore(r)
      BY <1>2, <2>3, <3>1, <3>3 DEF Transferring, InDevice, NumBefore
    <3>5. \A q \in Requests : q # r => InPhase(c, "NOTHING", remaining[q], Lengths(log')[q], q)
      BY <1>2, <3>3
    <3>6. Quiet(c) /\ c.activity = r /\ c.failed = {} /\ Lists(c)
      BY <1>2
    <3>7. CASE ~Neverdisconnect
      <4>1. chan' = SendUp(c, r, "DISCONNECT") /\ StartMedia(elem, <<r>>)
        BY <1>4, <2>3, <3>7
      <4>2. QED
        BY <2>1, <3>3, <3>4, <3>5, <3>6, <3>7, <4>1, DisconnectingStep
    <3>8. CASE Neverdisconnect
      <4>1. chan' = CheckChannel(c) /\ StartMedia(elem, <<r>> \o Starts(c))
        BY <1>4, <2>3, <3>8
      <4>2. QED
        BY <2>1, <3>3, <3>4, <3>5, <3>6, <3>8, <4>1, KeepingStep
    <3>9. QED
      BY <1>1, <3>7, <3>8
  <2>4. QED
    BY <2>1, <2>2, <2>3
<1>5. QED
  BY <1>1, <1>2, <1>4 DEF BusTransferComplete

\* An arrival keeps the invariant.
LEMMA ArriveStep ==
  ASSUME FullInv, Running, NEW r \in Requests, Arrive(r)
  PROVE  StepKeeps
<1> DEFINE queued == [chan EXCEPT !.queue = Append(chan.queue, r)]
           c == [Taken(queued) EXCEPT !.busowned = TRUE, !.reason = "ARRIVE"]
<1>1. /\ config \in Configurations /\ log \in [Requests -> Seq(StepNames)]
      /\ Exclusive(chan) /\ chan \in Channels /\ chan.failed = {}
      /\ Lists(chan) /\ Prompt(chan) /\ Phases(chan, remaining, Lengths(log))
      /\ Neverdisconnect \in BOOLEAN /\ IsRead(r) \in BOOLEAN
  BY RunningFacts
<1>2. Absent(chan, EventOf(chan, r), remaining[r], 0, r)
  <2>1. InPhase(chan, EventOf(chan, r), remaining[r], Lengths(log)[r], r)
    BY <1>1 DEF Phases
  <2>2. Lengths(log)[r] = 0
    BY DEF Arrive, Lengths
  <2>3. QED
    BY <2>1, <2>2 DEF InPhase, Queued, Transferring, Accessing, Served, Returning, Completing,
                      NumBefore
<1>3. /\ log' \in [Requests -> Seq(StepNames)] /\ LogStep(log, log') /\ Lengths(log')[r] = 1
      /\ \A q \in Requests : q # r => Lengths(log')[q] = Lengths(log)[q]
  <2>1. Log(r, "arrive") /\ Len(log[r]) = 0
    BY DEF Arrive
  <2>2. Promise!Steps(r)[1] = "arrive" /\ "arrive" \in StepNames
    BY StepsOfRequest DEF StepNames
  <2>3. 1 = Len(log[r]) + 1 /\ 1 \in 1 .. 4
    BY <2>1
  <2>4. QED
    BY <1>1, <2>1, <2>2, <2>3, LogTaken
<1>4. /\ chan.queue \in Seq(Requests) /\ Append(chan.queue, r) \in Seq(Requests)
      /\ IsInjective(Append(chan.queue, r))
      /\ ToSet(Append(chan.queue, r)) = ToSet(chan.queue) \cup {r}
  <2>1. chan.queue \in Seq(Requests)
    BY <1>1 DEF Channels
  <2>2. r \notin ToSet(chan.queue) /\ IsInjective(chan.queue)
    BY <1>1, <1>2 DEF Absent, Outside, Lists
  <2>3. QED
    BY <2>1, <2>2, AppendElements
<1>5. /\ queued \in Channels /\ queued.queue = Append(chan.queue, r)
      /\ queued.completion = chan.completion /\ queued.outstanding = chan.outstanding
      /\ queued.activity = chan.activity /\ queued.bus = chan.bus /\ queued.failed = {}
      /\ queued.reason = chan.reason
  BY <1>1, <1>4 DEF Channels
<1>6. ASSUME NEW q \in Requests
      PROVE  InPhase(chan, EventOf(chan, q), remaining[q], Lengths(log)[q], q)
  BY <1>1 DEF Phases
<1>7. CASE chan.activity # NONE
  <2>1. chan' = queued /\ UNCHANGED <<elem, remaining>>
    BY <1>7, Zenon DEF Arrive
  <2> HIDE DEF queued
  <2>2. \A q \in Requests : EventOf(queued, q) = EventOf(chan, q)
    BY <1>5 DEF EventOf
  <2>3. InPhase(queued, EventOf(queued, r), remaining[r], Lengths(log')[r], r)
    BY <1>2, <1>3, <1>4, <1>5, <2>2 DEF InPhase, Queued, Absent, Outside
  <2>4. ASSUME NEW q \in Requests, q # r
        PROVE  InPhase(queued, EventOf(queued, q), remaining[q], Lengths(log')[q], q)
    <3>1. InPhase(chan, EventOf(chan, q), remaining[q], Lengths(log)[q], q)
      BY <1>6
    <3>2. InPhase(queued, EventOf(chan, q), remaining[q], Lengths(log)[q], q)
      BY <1>4, <1>5, <2>4, <3>1, PhaseKept
    <3>3. QED
      BY <1>3, <2>2, <2>4, <3>2
  <2>5. Lists(queued) /\ Prompt(queued)
    BY <1>1, <1>4, <1>5, <1>7 DEF Lists, Prompt
  <2>6. QED
    BY <1>3, <1>5, <2>1, <2>3, <2>4, <2>5, ChannelStep
<1>8. CASE chan.activity = NONE
  <2>1. chan.queue = <<>> /\ chan.completion = <<>> /\ chan.bus = {}
    BY <1>1, <1>8 DEF Prompt, Exclusive
  <2>2. Append(chan.queue, r) = <<r>> /\ Head(queued.queue) = r /\ Tail(queued.queue) = <<>>
    BY <1>5, <2>1
  <2>3. /\ Quiet(c) /\ c.activity = r /\ c.queue = <<>> /\ c.completion = <<>>
        /\ c.outstanding = chan.outstanding \cup {r} /\ c.failed = {}
    <3>1. <<>> \in Seq(Requests)
      OBVIOUS
    <3>2. /\ queued.queue = <<r>> /\ Tail(queued.queue) = <<>> /\ queued.bus = {}
          /\ queued.completion = <<>>
      BY <1>5, <2>1, <2>2
    <3>3. Head(queued.queue) = r
      BY <2>2
    <3> HIDE DEF queued
    <3>4. /\ c = [queued EXCEPT !.activity = r, !.queue = <<>>,
                                !.outstanding = queued.outstanding \cup {r},
                                !.busowned = TRUE, !.reason = "ARRIVE"]
          /\ queued.outstanding \subseteq Requests
      BY <1>5, <3>2, <3>3 DEF Taken, Channels
    <3> HIDE DEF c
    <3>5. /\ c.activity = r /\ c.queue = <<>> /\ c.bus = queued.bus
          /\ c.completion = queued.completion /\ c.failed = queued.failed
          /\ c.outstanding = queued.outstanding \cup {r}
      BY <1>5, <3>4 DEF Channels
    <3>6. c \in Channels
      BY <1>5, <3>1, <3>4 DEF Channels
    <3>7. c.failed = {} /\ "activity" \notin c.failed
      BY <1>5, <3>5
    <3>8. QED
      BY <1>5, <3>2, <3>5, <3>6, <3>7, Zenon DEF Quiet, Sound
  <2>4. /\ IsRead(r) /\ ~Neverdisconnect =>
             chan' = SendUp(c, r, "DISCONNECT") /\ StartMedia(elem, <<r>>)
        /\ IsRead(r) /\ Neverdisconnect =>
             chan' = CheckChannel(c) /\ StartMedia(elem, <<r>> \o Starts(c))
        /\ ~IsRead(r) =>
             chan' = SendUp(c, r, "READY_TO_TRANSFER") /\ UNCHANGED <<elem, remaining>>
    BY <1>1, <1>8, <2>2 DEF Arrive
  <2> HIDE DEF c, queued
  <2>5. Lists(c) /\ ToSet(c.queue) = {} /\ ToSet(c.completion) = {}
    BY <2>3 DEF Lists, IsInjective, ToSet
  <2>6. ASSUME NEW q \in Requests, q # r
        PROVE  InPhase(c, "NOTHING", remaining[q], Lengths(log')[q], q)
    <3>1. InPhase(chan, EventOf(chan, q), remaining[q], Lengths(log)[q], q)
      BY <1>6
    <3>2. EventOf(chan, q) = "NOTHING"
      BY <1>1, <1>8, NoneIsNoRequest DEF EventOf
    <3>3. InPhase(c, "NOTHING", remaining[q], Lengths(log)[q], q)
      BY <2>1, <2>3, <2>6, <3>1, <3>2, PhaseKept
    <3>4. QED
      BY <1>3, <2>6, <3>3
  <2>7. remaining[r] = 0
    BY <1>2 DEF Absent
  <2>8. CASE IsRead(r)
    <3>1. Lengths(log')[r] = NumBefore(r)
      BY <1>3, <2>8 DEF NumBefore
    <3>2. CASE ~Neverdisconnect
      <4>1. chan' = SendUp(c, r, "DISCONNECT") /\ StartMedia(elem, <<r>>)
        BY <2>4, <2>8, <3>2
      <4>2. r \notin ToSet(c.queue) /\ r \in c.outstanding /\ r \notin ToSet(c.completion)
        BY <2>3, <2>5
      <4>3. QED
        BY <1>3, <2>3, <2>5, <2>6, <2>7, <3>1, <3>2, <4>1, <4>2, DisconnectingStep
    <3>3. CASE Neverdisconnect
      <4>1. chan' = CheckChannel(c) /\ StartMedia(elem, <<r>> \o Starts(c))
        BY <2>4, <2>8, <3>3
      <4>2. r \notin ToSet(c.queue) /\ r \in c.outstanding /\ r \notin ToSet(c.completion)
        BY <2>3, <2>5
      <4>3. QED
        BY <1>3, <2>3, <2>5, <2>6, <2>7, <3>1, <3>3, <4>1, <4>2, KeepingStep
    <3>4. QED
      BY <1>1, <3>2, <3>3
  <2>9. CASE ~IsRead(r)
    <3> DEFINE d == SendUp(c, r, "READY_TO_TRANSFER")
    <3>1. "READY_TO_TRANSFER" \in Kinds
      BY DEF Kinds
    <3>2. /\ d \in Channels /\ d.queue = c.queue /\ d.outstanding = c.outstanding
          /\ d.completion = c.completion /\ d.failed = c.failed /\ d.activity = r
          /\ EventOf(d, r) = "READY_TO_TRANSFER"
          /\ \A q \in Requests : q # r => EventOf(d, q) = "NOTHING"
      BY <1>1, <2>3, <3>1, SendUpFields
    <3>3. chan' = d /\ UNCHANGED <<elem, remaining>>
      BY <2>4, <2>9
    <3> HIDE DEF d
    <3>4. InPhase(d, EventOf(d, r), remaining[r], Lengths(log')[r], r)
      BY <1>3, <2>3, <2>5, <2>7, <2>9, <3>2 DEF InPhase, Transferring, InDevice
    <3>5. \A q \in Requests : q # r => InPhase(d, EventOf(d, q), remaining[q], Lengths(log')[q], q)
      BY <2>6, <3>2, PhaseKept
    <3>6. Lists(d) /\ Prompt(d) /\ d.failed = {}
      BY <1>1, <2>3, <2>5, <3>2, NoneIsNoRequest DEF Lists, Prompt
    <3>7. QED
      BY <1>3, <3>2, <3>3, <3>4, <3>5, <3>6, ChannelStep
  <2>10. QED
    BY <1>1, <2>8, <2>9
<1>9. QED
  BY <1>7, <1>8

\* The channel once the last page of r is served.
LEMMA ParentCompletedFields ==
  ASSUME chan \in Channels, chan.failed = {}, NEW r \in Requests
  PROVE  LET d == ParentCompleted(r)
         IN  /\ d \in Channels /\ d.queue = chan.queue /\ d.outstanding = chan.outstanding
             /\ d.activity = chan.activity /\ d.bus = chan.bus /\ d.reason = chan.reason
             /\ d.completion = Append(chan.completion, r) /\ d.completion # <<>>
             /\ \/ d.failed = {} /\ (chan.activity # r \/ (IsRead(r) /\ ~Neverdisconnect))
                \/ /\ d.failed = {"parent"} /\ chan.activity = r
                   /\ ~(IsRead(r) /\ ~Neverdisconnect)
             /\ Starts(d) = <<>>
<1> DEFINE q == chan.activity # r \/ (IsRead(r) /\ ~Neverdisconnect)
           k == Check(chan, "parent", q)
           d == ParentCompleted(r)
<1>1. /\ k \in Channels /\ k.queue = chan.queue /\ k.outstanding = chan.outstanding
      /\ k.activity = chan.activity /\ k.bus = chan.bus /\ k.reason = chan.reason
      /\ k.completion = chan.completion
      /\ (q /\ k.failed = {}) \/ (~q /\ k.failed = {"parent"})
  <2>1. CASE q
    BY <2>1 DEF Check
  <2>2. CASE ~q
    <3>1. k = [chan EXCEPT !.failed = @ \cup {"parent"}]
      BY <2>2 DEF Check
    <3>2. QED
      BY <2>2, <3>1 DEF Channels
  <2>3. QED
    BY <2>1, <2>2
<1>2. d = [k EXCEPT !.completion = Append(k.completion, r)]
  BY <1>1 DEF ParentCompleted, Channels
<1> HIDE DEF d, k
<1>3. k.completion \in Seq(Requests)
  BY <1>1 DEF Channels
<1>4. Append(k.completion, r) \in Seq(Requests) /\ Append(k.completion, r) # <<>>
  BY <1>3
<1>5. /\ d \in Channels /\ d.queue = k.queue /\ d.outstanding = k.outstanding
      /\ d.activity = k.activity /\ d.bus = k.bus /\ d.reason = k.reason
      /\ d.completion = Append(k.completion, r) /\ d.failed = k.failed
  BY <1>1, <1>2, <1>4 DEF Channels
<1>6. Starts(d) = <<>>
  BY <1>4, <1>5, Zenon DEF Starts
<1>7. QED
  BY <1>1, <1>4, <1>5, <1>6 DEF d

\* The elements when a page is served: the element that served it goes on, and no other
\* request is started.
LEMMA ServedMedia ==
  ASSUME FullInv, Running, NEW e \in Elements, NEW r \in Requests, NEW p \in Pages(r),
         AccessComplete(e, p)
  PROVE  /\ p[1] = r /\ remaining[r] \in Nat \ {0}
         /\ PiecesInv(elem', remaining') /\ remaining'[r] = remaining[r] - 1
         /\ \A q \in Requests : q # r => remaining'[q] = remaining[q]
<1>1. /\ config \in Configurations /\ PiecesInv(elem, remaining)
      /\ chan \in Channels /\ chan.failed = {}
  BY RunningFacts
<1>2. p[1] = r
  BY <1>1, PageElement
<1> DEFINE over == [elem[e] EXCEPT !.service = @ \ {p}, !.thrown = @ \ {p},
                                   !.media_busy = elem[e].service # {p}]
           checks == remaining[r] = 1 /\ chan.activity = NONE
           starts == IF checks THEN Starts(ParentCompleted(r)) ELSE <<>>
<1>3. starts = <<>> /\ ToSet(starts) = {}
  <2>1. Starts(ParentCompleted(r)) = <<>>
    BY <1>1, ParentCompletedFields
  <2>2. starts = <<>>
    BY <2>1
  <2>3. QED
    BY <2>2 DEF ToSet
<1>4. /\ \E clean \in SUBSET Elements :
           elem' = [MediaAccess([elem EXCEPT ![e] = over], starts, clean)
                      EXCEPT ![e] = Activated(@, e \in clean)]
      /\ remaining' = [q \in Requests |->
                         CASE q \in ToSet(starts) -> Len(Blocks(q))
                           [] q \notin ToSet(starts) /\ q = r -> remaining[r] - 1
                           [] q \notin ToSet(starts) /\ q # r -> remaining[q]]
  BY <1>2 DEF AccessComplete
<1>5. over = Over(elem[e], p)
  BY Zenon DEF Over
<1> HIDE DEF starts, over
<1>6. remaining' = [q \in Requests |-> IF q = r THEN remaining[r] - 1 ELSE remaining[q]]
  BY <1>3, <1>4
<1>7. PICK clean \in SUBSET Elements :
        elem' = [MediaAccess([elem EXCEPT ![e] = over], <<>>, clean)
                   EXCEPT ![e] = Activated(@, e \in clean)]
  BY <1>3, <1>4
<1> DEFINE els == [elem EXCEPT ![e] = over]
           b   == e \in clean
<1>8. elem = [x \in Elements |-> elem[x]]
  BY <1>1 DEF PiecesInv
<1>9. els = [x \in Elements |-> els[x]] /\ els[e] = over
      /\ \A x \in Elements \ {e} : els[x] = elem[x]
  BY <1>8
<1> HIDE DEF els
<1>10. MediaAccess(els, <<>>, clean) = els
  <2>1. \A x \in Elements : PagesOn(<<>>, x) = <<>>
    <3> SUFFICES ASSUME NEW x \in Elements PROVE PagesOn(<<>>, x) = <<>>
      OBVIOUS
    <3>1. <<>> \in Seq(Requests) /\ IsInjective(<<>>)
      BY DEF IsInjective
    <3>2. /\ PagesOn(<<>>, x) \in Seq(AllPages)
          /\ ToSet(PagesOn(<<>>, x)) = {q \in AllPages : q[1] \in ToSet(<<>>) /\ ElementOf(q) = x}
      BY <1>1, <3>1, PagesOnElements
    <3>3. ToSet(PagesOn(<<>>, x)) = {}
      BY <3>2 DEF ToSet
    <3> DEFINE s == PagesOn(<<>>, x)
    <3>4. s \in Seq(AllPages) /\ ToSet(s) = {}
      BY <3>2, <3>3
    <3> HIDE DEF s
    <3>5. s = <<>>
      <4> SUFFICES ASSUME s # <<>> PROVE FALSE
        OBVIOUS
      <4>1. 1 \in DOMAIN s
        BY <3>4
      <4>2. s[1] \in ToSet(s)
        BY <4>1 DEF ToSet
      <4>3. QED
        BY <3>4, <4>2
    <3>6. QED
      BY <3>5 DEF s
  <2>2. MediaAccess(els, <<>>, clean) = [x \in Elements |-> els[x]]
    BY <2>1 DEF MediaAccess
  <2>3. QED
    BY <1>9, <2>2
<1>11. p \in elem[e].service
  BY DEF AccessComplete
<1>12. elem' = [elem EXCEPT ![e] = Activated(Over(elem[e], p), b)]
  <2>1. elem' = [els EXCEPT ![e] = Activated(els[e], b)]
    <3>1. elem' = [els EXCEPT ![e] = Activated(@, e \in clean)]
      BY <1>7, <1>10 DEF els
    <3>2. QED
      BY <1>9, <3>1
  <2>2. elem' = [els EXCEPT ![e] = Activated(over, b)]
    BY <1>9, <2>1
  <2> DEFINE act == Activated(over, b)
  <2> HIDE DEF act
  <2>3. elem' = [els EXCEPT ![e] = act]
    BY <2>2 DEF act
  <2>4. elem' = [elem EXCEPT ![e] = act]
    BY <1>8, <1>9, <2>3
  <2>5. QED
    BY <1>5, <2>4 DEF act
<1>13. b \in BOOLEAN
  OBVIOUS
<1> HIDE DEF b
<1>14. /\ remaining[r] \in Nat \ {0}
       /\ PiecesInv([elem EXCEPT ![e] = Activated(Over(elem[e], p), b)],
                    [q \in Requests |-> IF q = r THEN remaining[r] - 1 ELSE remaining[q]])
  <2>1. /\ remaining[p[1]] \in Nat \ {0}
        /\ PiecesInv([elem EXCEPT ![e] = Activated(Over(elem[e], p), b)],
                     [q \in Requests |-> IF q = p[1] THEN remaining[p[1]] - 1 ELSE remaining[q]])
    BY <1>1, <1>11, <1>13, ServedPieces
  <2>2. QED
    BY <1>2, <2>1
<1>15. PiecesInv(elem', remaining')
  BY <1>6, <1>12, <1>14
<1>16. QED
  BY <1>2, <1>6, <1>14, <1>15

\* A page that is served keeps the invariant.
LEMMA AccessCompleteStep ==
  ASSUME FullInv, Running, NEW e \in Elements, NEW r \in Requests, NEW p \in Pages(r),
         AccessComplete(e, p)
  PROVE  StepKeeps
<1> DEFINE d == ParentCompleted(r)
           k == EventOf(chan, r)
<1>1. /\ config \in Configurations /\ log \in [Requests -> Seq(StepNames)]
      /\ Exclusive(chan) /\ chan \in Channels /\ chan.failed = {}
      /\ Lists(chan) /\ Prompt(chan) /\ Phases(chan, remaining, Lengths(log))
      /\ Neverdisconnect \in BOOLEAN /\ IsRead(r) \in BOOLEAN
      /\ PiecesInv(elem, remaining)
  BY RunningFacts
<1>2. /\ p[1] = r /\ remaining[r] \in Nat \ {0}
      /\ PiecesInv(elem', remaining') /\ remaining'[r] = remaining[r] - 1
      /\ \A q \in Requests : q # r => remaining'[q] = remaining[q]
  BY ServedMedia
<1>3. /\ d \in Channels /\ d.queue = chan.queue /\ d.outstanding = chan.outstanding
      /\ d.activity = chan.activity /\ d.bus = chan.bus /\ d.reason = chan.reason
      /\ d.completion = Append(chan.completion, r) /\ d.completion # <<>>
      /\ \/ d.failed = {} /\ (chan.activity # r \/ (IsRead(r) /\ ~Neverdisconnect))
         \/ /\ d.failed = {"parent"} /\ chan.activity = r
            /\ ~(IsRead(r) /\ ~Neverdisconnect)
      /\ Starts(d) = <<>>
  BY <1>1, ParentCompletedFields
<1>4. /\ chan' = CASE remaining[r] = 1 /\ chan.activity = NONE -> CheckChannel(d)
                   [] remaining[r] = 1 /\ ~(chan.activity = NONE) -> d
                   [] ~(remaining[r] = 1) -> chan
      /\ remaining[r] = 1 => Log(r, "media")
      /\ remaining[r] # 1 => UNCHANGED log
      /\ SlowerThanBus(e, p) /\ p \in elem[e].service
  <2>1. p[1] = r
    BY <1>2
  <2>2. /\ chan' = CASE remaining[r] = 1 /\ chan.activity = NONE -> CheckChannel(ParentCompleted(r))
                     [] remaining[r] = 1 /\ ~(remaining[r] = 1 /\ chan.activity = NONE)
                          -> ParentCompleted(r)
                     [] ~(remaining[r] = 1) -> chan
        /\ IF remaining[r] = 1 THEN Log(r, "media") ELSE UNCHANGED log
        /\ SlowerThanBus(e, p) /\ p \in elem[e].service
    BY <2>1 DEF AccessComplete
  <2> HIDE DEF d
  <2>3. chan' = CASE remaining[r] = 1 /\ chan.activity = NONE -> CheckChannel(d)
                  [] remaining[r] = 1 /\ ~(remaining[r] = 1 /\ chan.activity = NONE) -> d
                  [] ~(remaining[r] = 1) -> chan
    BY <2>2 DEF d
  <2>4. QED
    BY <2>2, <2>3
<1> HIDE DEF d
<1>5. Accessing(chan, k, remaining[r], Lengths(log)[r], r)
  <2>1. InPhase(chan, k, remaining[r], Lengths(log)[r], r)
    BY <1>1 DEF Phases
  <2> HIDE DEF k
  <2>2. QED
    BY <1>2, <2>1 DEF InPhase, Absent, Queued, Transferring, Served, Returning, Completing
<1>6. ASSUME NEW q \in Requests
      PROVE  InPhase(chan, EventOf(chan, q), remaining[q], Lengths(log)[q], q)
  BY <1>1 DEF Phases
<1>7. CASE remaining[r] # 1
  <2>1. chan' = chan /\ log' = log
    BY <1>4, <1>7
  <2>2. remaining'[r] > 0
    BY <1>2, <1>7
  <2>3. InPhase(chan, k, remaining'[r], Lengths(log')[r], r)
    <3> HIDE DEF k
    <3>1. QED
      BY <1>5, <2>1, <2>2 DEF InPhase, Accessing
  <2>4. Phases(chan', remaining', Lengths(log'))
    BY <1>2, <1>6, <2>1, <2>3 DEF Phases
  <2>5. \A q \in ToSet(chan'.completion) : remaining'[q] = 0
    <3>1. chan'.completion \in Seq(Requests)
      BY <1>1, <2>1 DEF Channels
    <3>2. QED
      BY <2>4, <3>1, CompletionsServed
  <2>6. QED
    BY <1>1, <1>2, <2>1, <2>4, <2>5 DEF StepKeeps, DeviceInv, LogStep
<1>8. CASE remaining[r] = 1
  <2>1. remaining'[r] = 0
    BY <1>2, <1>8
  <2>2. /\ log' \in [Requests -> Seq(StepNames)] /\ LogStep(log, log')
        /\ Lengths(log')[r] = NumBefore(r) + 1
        /\ \A q \in Requests : q # r => Lengths(log')[q] = Lengths(log)[q]
    <3> DEFINE n == NumBefore(r) + 1
    <3>1. n \in 1 .. 4 /\ Promise!Steps(r)[n] = "media" /\ "media" \in StepNames
      <4>1. "media" \in StepNames
        BY DEF StepNames
      <4>2. CASE IsRead(r)
        BY <4>1, <4>2, StepsOfRequest DEF NumBefore
      <4>3. CASE ~IsRead(r)
        BY <4>1, <4>3, StepsOfRequest DEF NumBefore
      <4>4. QED
        BY <1>1, <4>2, <4>3
    <3> HIDE DEF n
    <3>2. n = Len(log[r]) + 1
      BY <1>5 DEF n, Accessing, Lengths
    <3>3. QED
      BY <1>1, <1>4, <1>8, <3>1, <3>2, LogTaken DEF n
  <2>3. r \notin ToSet(chan.completion) /\ chan.completion \in Seq(Requests)
    BY <1>1, <1>5 DEF Accessing, Channels
  <2>4. IsInjective(d.completion) /\ ToSet(d.completion) = ToSet(chan.completion) \cup {r}
    <3>1. IsInjective(chan.completion)
      BY <1>1 DEF Lists
    <3>2. QED
      BY <1>3, <2>3, <3>1, AppendElements
  <2>5. Lists(d)
    BY <1>1, <1>3, <2>4 DEF Lists
  <2>6. \A q \in ToSet(d.completion) : remaining'[q] = 0
    <3>1. \A q \in ToSet(chan.completion) : remaining[q] = 0 /\ q \in Requests
      BY <1>1, <2>3, CompletionsServed DEF ToSet
    <3>2. QED
      BY <1>2, <2>1, <2>4, <3>1
  <2>7. ASSUME NEW q \in Requests, q # r
        PROVE  InPhase(d, EventOf(chan, q), remaining'[q], Lengths(log')[q], q)
    <3>1. InPhase(chan, EventOf(chan, q), remaining[q], Lengths(log)[q], q)
      BY <1>6
    <3>2. InPhase(d, EventOf(chan, q), remaining[q], Lengths(log)[q], q)
      BY <1>3, <2>4, <2>7, <3>1, PhaseKept
    <3>3. QED
      BY <1>2, <2>2, <2>7, <3>2
  <2>8. ASSUME k = "NOTHING" \/ IsRead(r)
        PROVE  InPhase(d, k, remaining'[r], Lengths(log')[r], r)
    <3> HIDE DEF k
    <3>1. QED
      BY <1>3, <1>5, <2>1, <2>2, <2>4, <2>8 DEF InPhase, Accessing, Served, InDevice
  <2>9. chan.activity # r => k = "NOTHING"
    BY DEF EventOf
  <2>10. \A q \in Requests : EventOf(d, q) = EventOf(chan, q)
    BY <1>3 DEF EventOf
  <2>11. CASE chan.activity = NONE
    <3>1. chan' = CheckChannel(d)
      BY <1>4, <1>8, <2>11
    <3>2. \A q \in Requests : EventOf(chan, q) = "NOTHING"
      BY <1>1, <2>11, NoneIsNoRequest DEF EventOf
    <3>3. Quiet(d) /\ d.failed = {}
      <4>1. chan.activity # r
        BY <1>1, <2>11, NoneIsNoRequest
      <4>2. chan.bus = {}
        BY <1>1, <2>11 DEF Exclusive
      <4>3. QED
        BY <1>3, <4>1, <4>2 DEF Quiet, Sound
    <3>4. QuietPhases(d, remaining', Lengths(log'))
      <4>1. InPhase(d, "NOTHING", remaining'[r], Lengths(log')[r], r)
        BY <2>8, <3>2
      <4>2. QED
        BY <2>7, <3>2, <4>1 DEF QuietPhases
    <3>5. remaining' \in [Requests -> Nat]
      BY <1>2 DEF PiecesInv
    <3> DEFINE rm == remaining'
               lg == Lengths(log')
    <3> HIDE DEF rm, lg
    <3>6. rm \in [Requests -> Nat] /\ QuietPhases(d, rm, lg)
      BY <3>4, <3>5 DEF rm, lg
    <3>7. /\ Lists(CheckChannel(d)) /\ Prompt(CheckChannel(d))
          /\ CheckChannel(d).failed = d.failed
          /\ ToSet(CheckChannel(d).completion) \subseteq ToSet(d.completion)
          /\ Phases(CheckChannel(d), Started(Starts(d), rm), lg)
      BY <1>1, <2>5, <3>3, <3>6, CheckChannelPhases
    <3>8. Phases(CheckChannel(d), rm, lg)
      <4>1. \A q \in Requests : Started(<<>>, rm)[q] = rm[q]
        BY DEF Started, ToSet
      <4>2. QED
        BY <1>3, <3>7, <4>1 DEF Phases
    <3>9. /\ Lists(chan') /\ Prompt(chan') /\ chan'.failed = {}
          /\ Phases(chan', remaining', Lengths(log'))
          /\ ToSet(chan'.completion) \subseteq ToSet(d.completion)
      BY <3>1, <3>3, <3>7, <3>8 DEF rm, lg
    <3>10. QED
      BY <1>2, <2>2, <2>6, <3>9 DEF StepKeeps, DeviceInv
  <2>12. CASE chan.activity # NONE
    <3>1. chan' = d
      BY <1>4, <1>8, <2>12
    <3>2. CASE d.failed = {}
      <4>1. k = "NOTHING" \/ IsRead(r)
        BY <1>3, <2>9, <3>2
      <4>2. InPhase(d, k, remaining'[r], Lengths(log')[r], r)
        BY <2>8, <4>1
      <4>3. Phases(d, remaining', Lengths(log'))
        BY <2>7, <2>10, <4>2 DEF Phases
      <4>4. Prompt(d)
        BY <1>3, <2>12 DEF Prompt
      <4>5. QED
        BY <1>2, <2>2, <2>5, <2>6, <3>1, <3>2, <4>3, <4>4 DEF StepKeeps, DeviceInv
    <3>3. CASE d.failed # {}
      <4>1. /\ d.failed = {"parent"} /\ chan.activity = r
            /\ ~(IsRead(r) /\ ~Neverdisconnect)
        BY <1>3, <3>3
      <4>2. k \in Kinds
        <5>1. PICK ev \in chan.bus : chan.bus = {ev}
          BY <1>1, <2>12 DEF Exclusive
        <5>2. (CHOOSE x \in {ev} : TRUE) = ev
          OBVIOUS
        <5>3. ev.kind \in Kinds
          BY <1>1, <5>1 DEF Channels, Events
        <5>4. QED
          BY <4>1, <5>1, <5>2, <5>3 DEF EventOf
      <4>3. ~Neverdisconnect /\ ~IsRead(r)
        <5> HIDE DEF k
        <5>1. ~Neverdisconnect
          BY <1>5, <4>2 DEF Accessing, Kinds
        <5>2. QED
          BY <4>1, <5>1
      <4>4. p \in elem[e].thrown
        BY <1>2, <1>4, <4>1, <4>3 DEF SlowerThanBus
      <4>5. ThrownAllowed(p)
        BY <1>1, <4>4 DEF PiecesInv, ElementInv, Consistent
      <4>6. MayThrow(r)
        BY <1>2, <4>3, <4>5 DEF ThrownAllowed
      <4>7. d.activity = r
        BY <1>3, <4>1
      <4>8. QED
        BY <1>2, <2>2, <2>5, <2>6, <3>1, <4>1, <4>6, <4>7 DEF StepKeeps, DeviceInv
    <3>4. QED
      BY <3>2, <3>3
  <2>13. QED
    BY <2>11, <2>12
<1>9. QED
  BY <1>7, <1>8

\* The end of cleaning keeps the invariant.
LEMMA CleanStep ==
  ASSUME FullInv, Running, NEW e \in Elements, CleanElementComplete(e)
  PROVE  StepKeeps
<1>1. config \in Configurations /\ PiecesInv(elem, remaining)
  BY RunningFacts
<1>2. PICK clean \in BOOLEAN :
        elem' = [elem EXCEPT ![e] =
                   Activated([@ EXCEPT !.media_busy = FALSE, !.cleaning = FALSE], clean)]
  BY DEF CleanElementComplete
<1>3. elem[e].cleaning /\ UNCHANGED <<chan, remaining, log>>
  BY DEF CleanElementComplete
<1>4. PiecesInv(elem', remaining)
  <2>1. PiecesInv([elem EXCEPT ![e] =
                     Activated([@ EXCEPT !.media_busy = FALSE, !.cleaning = FALSE], clean)],
                  remaining)
    BY <1>1, <1>3, CleanedPieces
  <2>2. QED
    BY <1>2, <2>1
<1>5. DeviceInv(chan, elem', remaining, log)
  BY <1>4, Zenon DEF DeviceInv, FullInv
<1>6. QED
  BY <1>3, <1>5 DEF StepKeeps, LogStep

-----------------------------------------------------------------------------
(* The configuration does not change, so neither do the definitions that depend on it. *)

\* The requests and elements are those of the configuration, which does not change.
LEMMA ConfigKept ==
  ASSUME config' = config
  PROVE  /\ Requests' = Requests /\ Elements' = Elements /\ Neverdisconnect' = Neverdisconnect
         /\ AllPages' = AllPages
         /\ \A r : Pages(r)' = Pages(r) /\ IsRead(r)' = IsRead(r) /\ Blocks(r)' = Blocks(r)
         /\ \A p : ElementOf(p)' = ElementOf(p) /\ BlockOf(p)' = BlockOf(p)
BY DEF Requests, Elements, Neverdisconnect, AllPages, Pages, IsRead, Blocks, ElementOf, BlockOf

\* The part of the invariant about pages depends on config and its variables only.
LEMMA PiecesKept ==
  ASSUME config' = config, PiecesInv(elem', remaining')
  PROVE  PiecesInv(elem, remaining)'
<1>1. /\ Requests' = Requests /\ Elements' = Elements /\ Neverdisconnect' = Neverdisconnect
      /\ AllPages' = AllPages
      /\ \A r : Pages(r)' = Pages(r) /\ IsRead(r)' = IsRead(r) /\ Blocks(r)' = Blocks(r)
      /\ \A p : ElementOf(p)' = ElementOf(p) /\ BlockOf(p)' = BlockOf(p)
  BY ConfigKept
<1>2. \A p : ThrownAllowed(p)' <=> ThrownAllowed(p)
  BY DEF ThrownAllowed, MayThrow, IsRead, Neverdisconnect, Requests, Blocks
<1>3. ElementRecords' = ElementRecords
  BY <1>1 DEF ElementRecords
<1>4. ASSUME NEW e \in Elements PROVE ElementInv(elem[e], e)'
  <2>1. ElementInv(elem'[e], e)
    BY DEF PiecesInv
  <2>2. \A p \in ElementPages(elem'[e]) : ElementOf(p)' = e
    BY <1>1, <2>1 DEF ElementInv, Consistent
  <2>3. \A p \in elem'[e].thrown : ThrownAllowed(p)'
    BY <1>2, <2>1 DEF ElementInv, Consistent
  <2>4. QED
    BY <1>3, <2>1, <2>2, <2>3 DEF ElementInv, Consistent, ElementPages
<1>5. ASSUME NEW r \in Requests PROVE HeldIn(elem, r)' = HeldIn(elem', r)
  BY <1>1 DEF HeldIn, ElementPages
<1>6. /\ elem' = [e \in Elements |-> elem'[e]] /\ remaining' \in [Requests -> Nat]
      /\ \A r \in Requests : remaining'[r] = Cardinality(HeldIn(elem', r))
  BY DEF PiecesInv
<1>7. QED
  BY <1>1, <1>4, <1>5, <1>6 DEF PiecesInv

\* The part of the invariant about phases depends on config and its variables only.
LEMMA PhasesKept ==
  ASSUME config' = config, Phases(chan', remaining', Lengths(log'))
  PROVE  Phases(chan, remaining, Lengths(log))'
<1>1. /\ Requests' = Requests /\ Neverdisconnect' = Neverdisconnect
      /\ \A r : IsRead(r)' = IsRead(r)
  BY ConfigKept
<1>2. ASSUME NEW r \in Requests
      PROVE  InPhase(chan, EventOf(chan, r), remaining[r], Lengths(log)[r], r)'
  <2>1. InPhase(chan', EventOf(chan', r), remaining'[r], Lengths(log')[r], r)
    BY DEF Phases
  <2>2. EventOf(chan, r)' = EventOf(chan', r) /\ Lengths(log)'[r] = Lengths(log')[r]
    BY <1>1 DEF EventOf, Lengths
  <2>3. QED
    BY <1>1, <2>1, <2>2 DEF InPhase, Absent, Queued, Transferring, Accessing, Served,
                            Returning, Completing, Outside, InDevice, NumBefore
<1>3. QED
  BY <1>1, <1>2 DEF Phases

\* The invariant depends on config and its variables only.
LEMMA DeviceKept ==
  ASSUME config' = config, DeviceInv(chan', elem', remaining', log')
  PROVE  DeviceInv(chan, elem, remaining, log)'
<1>1. PiecesInv(elem, remaining)'
  BY PiecesKept DEF DeviceInv
<1>2. Requests' = Requests
  BY ConfigKept
<1>3. Lists(chan)' /\ (Prompt(chan') => Prompt(chan)')
  BY DEF DeviceInv, Lists, Prompt
<1>4. \/ chan'.failed = {} /\ Prompt(chan)' /\ Phases(chan, remaining, Lengths(log))'
      \/ chan'.failed = {"parent"} /\ chan'.activity \in Requests /\ MayThrow(chan'.activity)
  BY <1>3, PhasesKept DEF DeviceInv
<1>5. MayThrow(chan'.activity) => MayThrow(chan.activity)'
  BY DEF MayThrow, IsRead, Blocks, Requests, Neverdisconnect
<1>6. QED
  BY <1>1, <1>2, <1>3, <1>4, <1>5 DEF DeviceInv

\* Every handler keeps the invariant.
LEMMA AnyStep ==
  ASSUME FullInv, Next
  PROVE  Running /\ config' = config /\ StepKeeps
<1>1. CASE \E r \in Requests : Arrive(r)
  <2>1. Running /\ config' = config
    BY <1>1 DEF Arrive
  <2>2. QED
    BY <1>1, <2>1, ArriveStep
<1>2. CASE ChannelEvent
  <2>1. PICK ev \in chan.bus : \/ BusOwnershipGrant(ev)
                               \/ BusDelayComplete(ev)
                               \/ ReconnectDone(ev)
                               \/ DisconnectDone(ev)
                               \/ CompletionDone(ev)
                               \/ BusTransferComplete(ev)
    BY <1>2 DEF ChannelEvent
  <2>2. Running /\ config' = config
    BY <2>1 DEF BusOwnershipGrant, BusDelayComplete, ReconnectDone, DisconnectDone,
                CompletionDone, BusTransferComplete
  <2>3. QED
    BY <2>1, <2>2, BusMoves, ReconnectStep, DisconnectStep, CompletionStep, BusTransferStep
<1>3. CASE \E e \in Elements : \E r \in Requests : \E p \in Pages(r) : AccessComplete(e, p)
  <2>1. Running /\ config' = config
    BY <1>3 DEF AccessComplete
  <2>2. QED
    BY <1>3, <2>1, AccessCompleteStep
<1>4. CASE \E e \in Elements : CleanElementComplete(e)
  <2>1. Running /\ config' = config
    BY <1>4 DEF CleanElementComplete
  <2>2. QED
    BY <1>4, <2>1, CleanStep
<1>5. QED
  BY <1>1, <1>2, <1>3, <1>4 DEF Next, ElementEvent

\* The full invariant holds at the start.
LEMMA InitFullInv == Init => FullInv
<1> SUFFICES ASSUME Init PROVE FullInv
  OBVIOUS
<1>1. IInv /\ config \in Configurations
  BY InitInv DEF IInv
<1>2. chan = IdleChannel /\ elem = [e \in Elements |-> IdleElement]
      /\ remaining = [r \in Requests |-> 0] /\ log = [r \in Requests |-> <<>>]
  BY DEF Init
<1>3. ASSUME NEW e \in Elements PROVE ElementInv(elem[e], e) /\ ElementPages(elem[e]) = {}
  <2>1. elem[e] = IdleElement
    BY <1>2
  <2>2. ElementPages(IdleElement) = {} /\ IsInjective(<<>>) /\ <<>> \in Seq(AllPages)
    BY DEF ElementPages, IdleElement, ToSet, IsInjective
  <2>3. IdleElement \in ElementRecords
    BY <2>2 DEF IdleElement, ElementRecords
  <2>4. ElementInv(IdleElement, e)
    BY <2>2, <2>3 DEF ElementInv, Consistent, IdleElement
  <2>5. QED
    BY <2>1, <2>2, <2>4
<1>4. PiecesInv(elem, remaining)
  <2>1. ASSUME NEW r \in Requests PROVE Cardinality(HeldIn(elem, r)) = 0
    <3>1. \A p \in Pages(r) : ElementOf(p) \in Elements
      BY <1>1, PageElement
    <3>2. HeldIn(elem, r) = {}
      BY <1>3, <3>1 DEF HeldIn
    <3>3. QED
      BY <3>2, FS_EmptySet
  <2>2. elem = [e \in Elements |-> elem[e]]
    BY <1>2
  <2>3. remaining \in [Requests -> Nat] /\ \A r \in Requests : remaining[r] = 0
    BY <1>2
  <2>4. QED
    BY <1>3, <2>1, <2>2, <2>3 DEF PiecesInv
<1>5. /\ chan.queue = <<>> /\ chan.completion = <<>> /\ chan.outstanding = {}
      /\ chan.failed = {} /\ chan.activity = NONE
  BY <1>2 DEF IdleChannel
<1>6. ToSet(chan.queue) = {} /\ ToSet(chan.completion) = {}
  BY <1>5 DEF ToSet
<1>7. Lists(chan) /\ Prompt(chan)
  BY <1>5 DEF Lists, Prompt, IsInjective
<1>8. log \in [Requests -> Seq(StepNames)]
  BY <1>2
<1>9. ASSUME NEW r \in Requests
      PROVE  InPhase(chan, EventOf(chan, r), remaining[r], Lengths(log)[r], r)
  <2>1. EventOf(chan, r) = "NOTHING"
    BY <1>1, <1>5, NoneIsNoRequest DEF EventOf
  <2>2. remaining[r] = 0 /\ Lengths(log)[r] = 0
    BY <1>2 DEF Lengths
  <2>3. QED
    BY <1>5, <1>6, <2>1, <2>2 DEF InPhase, Absent, Outside
<1>10. Phases(chan, remaining, Lengths(log))
  BY <1>9 DEF Phases
<1>11. DeviceInv(chan, elem, remaining, log)
  BY <1>4, <1>5, <1>6, <1>7, <1>8, <1>10 DEF DeviceInv
<1>12. QED
  BY <1>1, <1>11 DEF FullInv

\* Every handler keeps the full invariant.
LEMMA StepFullInv == FullInv /\ [Next]_vars => FullInv'
<1> SUFFICES ASSUME FullInv, [Next]_vars PROVE FullInv'
  OBVIOUS
<1>1. IInv'
  BY StepInv DEF FullInv
<1>2. config' = config /\ DeviceInv(chan', elem', remaining', log')
  <2>1. CASE Next
    BY <2>1, AnyStep DEF StepKeeps
  <2>2. CASE UNCHANGED vars
    BY <2>2 DEF vars, FullInv
  <2>3. QED
    BY <2>1, <2>2
<1>3. DeviceInv(chan, elem, remaining, log)'
  BY <1>2, DeviceKept
<1>4. QED
  BY <1>1, <1>3 DEF FullInv

-----------------------------------------------------------------------------
\* The strengthening: each element holds pages that are its own, once each, the counts are
\* of the pages held, and every request is in one phase, which its event on the bus, its
\* places in the queues, its count and its steps so far agree on.
THEOREM SSDFullInvariant == Spec => []FullInv
BY InitFullInv, StepFullInv, PTL DEF Spec

\* An element never serves and cleans at once, and takes up its queue again whenever
\* either ends (ssd_access_complete_element and ssd_clean_element_complete, ssd.c).
THEOREM SSDMediaExclusive == Spec => []MediaExclusive
<1>1. FullInv => MediaExclusive
  <2> SUFFICES ASSUME FullInv PROVE MediaExclusive
    OBVIOUS
  <2>1. \A e \in Elements : ElementInv(elem[e], e)
    BY DEF FullInv, DeviceInv, PiecesInv
  <2>2. QED
    BY <2>1 DEF MediaExclusive, ElementInv, Consistent
<1>2. QED
  BY <1>1, SSDFullInvariant, PTL

\* tempint2 of a request (ssd.c) is the number of its pages that the elements hold, and
\* the completion queue has every request that is served and not signalled, once.
THEOREM SSDCountsPieces == Spec => []CountsPieces
<1>1. FullInv => CountsPieces
  <2> SUFFICES ASSUME FullInv PROVE CountsPieces
    OBVIOUS
  <2>1. /\ config \in Configurations /\ PiecesInv(elem, remaining) /\ Lists(chan)
        /\ chan \in Channels /\ \A r \in ToSet(chan.completion) : remaining[r] = 0
    BY DEF FullInv, IInv, Exclusive, Sound, DeviceInv
  <2>2. ASSUME NEW r \in Requests PROVE remaining[r] = Cardinality(Held(r))
    <3>1. /\ \A e \in Elements : ElementInv(elem[e], e)
          /\ remaining[r] = Cardinality(HeldIn(elem, r))
      BY <2>1 DEF PiecesInv
    <3>2. HeldIn(elem, r) = UNION {{p \in ElementPages(elem[e]) : p[1] = r} : e \in Elements}
      BY <2>1, <3>1, HeldIsHeldIn
    <3>3. Held(r) = UNION {{p \in ElementPages(elem[e]) : p[1] = r} : e \in Elements}
      BY Zenon DEF Held, ElementPages
    <3>4. QED
      BY <3>1, <3>2, <3>3
  <2>3. \A i \in DOMAIN chan.completion : chan.completion[i] \in ToSet(chan.completion)
    BY DEF ToSet
  <2>4. \A i, j \in DOMAIN chan.completion : i # j => chan.completion[i] # chan.completion[j]
    BY <2>1 DEF Lists, IsInjective
  <2>5. \A i \in DOMAIN chan.completion : remaining[chan.completion[i]] = 0
    BY <2>1, <2>3
  <2>6. QED
    BY <2>2, <2>4, <2>5, Zenon DEF CountsPieces
<1>2. QED
  BY <1>1, SSDFullInvariant, PTL

\* Of the checks that end the simulation (ssd_assert_current_activity, the outstanding list
\* of the queue, ssd_complete_parent) only the last may fail, and only where two writes of
\* one block may be collected together.
THEOREM SSDAbortsOnlyOnThrown == Spec => []AbortsOnlyOnThrown
<1>1. FullInv => AbortsOnlyOnThrown
  BY DEF FullInv, DeviceInv, AbortsOnlyOnThrown
<1>2. QED
  BY <1>1, SSDFullInvariant, PTL

\* Every step of the device takes one request to its next step, or none.
LEMMA StepPromised ==
  ASSUME FullInv, FullInv', [Next]_vars
  PROVE  [Promise!Next]_(Promise!vars)
<1>1. CASE UNCHANGED vars
  BY <1>1 DEF vars, Promise!vars, Requests, IsRead, MayThrow, Blocks, Neverdisconnect
<1>2. CASE Next
  <2>1. Running /\ config' = config /\ LogStep(log, log')
    BY <1>2, AnyStep DEF StepKeeps
  <2>2. UNCHANGED <<{r \in Requests : IsRead(r)}, \E r \in Requests : MayThrow(r)>>
    BY <2>1 DEF Requests, IsRead, MayThrow, Blocks, Neverdisconnect
  <2>3. (chan.failed # {})' => \E r \in Requests : MayThrow(r)
    <3>1. (chan.failed # {})' => (\E r \in Requests : MayThrow(r))'
      BY DEF FullInv, DeviceInv
    <3>2. QED
      BY <2>2, <3>1
  <2>4. ~(chan.failed # {})
    BY <2>1 DEF Running
  <2>5. CASE log' = log
    <3>1. CASE (chan.failed # {})'
      BY <2>2, <2>3, <2>4, <2>5, <3>1 DEF Promise!Next, Promise!Stop
    <3>2. CASE ~(chan.failed # {})'
      BY <2>2, <2>4, <2>5, <3>2 DEF Promise!vars
    <3>3. QED
      BY <3>1, <3>2
  <2>6. ASSUME NEW r \in Requests, Len(log[r]) < Len(Promise!Steps(r)),
               log' = [log EXCEPT ![r] = Append(log[r], Promise!Steps(r)[Len(log[r]) + 1])]
        PROVE  Promise!Next
    <3>1. r \in DOMAIN log
      BY DEF FullInv, DeviceInv
    <3>2. Promise!Take(r)
      BY <2>2, <2>3, <2>4, <2>6 DEF Promise!Take
    <3>3. QED
      BY <3>1, <3>2 DEF Promise!Next
  <2>7. QED
    BY <2>1, <2>5, <2>6 DEF LogStep
<1>3. QED
  BY <1>1, <1>2

\* The device keeps the promise of a block device (all of ssd.c): each request goes once
\* through its steps, in order, and the simulation stops only where it may.
THEOREM SSDImplementsPromise == Spec => Promise!Spec
<1>1. Init => Promise!Init
  BY DEF Init, Promise!Init, IdleChannel
<1>2. FullInv /\ FullInv' /\ [Next]_vars => [Promise!Next]_(Promise!vars)
  BY StepPromised
<1>3. QED
  BY <1>1, <1>2, SSDFullInvariant, PTL DEF Spec, Promise!Spec
=============================================================================
