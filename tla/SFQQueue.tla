------------------------------ MODULE SFQQueue ------------------------------
(***************************************************************************)
(* The state of one start-time fair queueing scheduler (scheduler/SFQ) and *)
(* the operations of class SFQ on it, as operators from state to state.    *)
(* The SFQ and DSFQ specifications are built from these operators.         *)
(*                                                                         *)
(* The code divides a packet's size by the weight of its application.      *)
(* Here every tag is multiplied by a common multiple of the weights, so    *)
(* that Rate[a] = (common multiple) / weight[a] is an integer and so are   *)
(* the tags.                                                               *)
(***************************************************************************)
EXTENDS Integers, Sequences, SequencesExt

CONSTANTS NumApps,   \* tlapps: the applications are 0 .. NumApps-1
          Degree,    \* how many jobs may be outstanding at the data server
          Rate,      \* tag units that one unit of size of an application costs
          Sizes,     \* the packet sizes
          Ids,       \* packet identifiers
          MaxCharge  \* a bound of what one packet can cost, in tag units

Apps == 0 .. NumApps-1

\* What a packet of the given size costs: pkt->getSize() / weight[app].
Charge(app, size) == size * Rate[app]

ASSUME NumAppsAssumption == NumApps \in Nat \ {0}
ASSUME DegreeAssumption  == Degree \in Int
ASSUME ChargeAssumption  ==
  /\ MaxCharge \in Nat
  /\ \A a \in Apps, s \in Sizes : Charge(a, s) \in 0 .. MaxCharge

Packet == [id : Ids, app : Apps, size : Sizes]
Job    == [pkt : Packet, stag : Nat, ftag : Nat]

\* A list that was never allocated is an empty one for every operation.
Scheduler == [waitQ    : [Apps -> Seq(Job)],
              osQ      : Seq(Job),
              maxftags : [Apps -> Nat],
              vtime    : Nat,
              startpos : Apps]

EmptyScheduler == [waitQ    |-> [a \in Apps |-> <<>>],
                   osQ      |-> <<>>,
                   maxftags |-> [a \in Apps |-> 0],
                   vtime    |-> 0,
                   startpos |-> 0]

Backlogged(q, a) == q.waitQ[a] # <<>>
FrontTag(q, a)   == q.waitQ[a][1].stag

-----------------------------------------------------------------------------

\* Mutant of ArrivalTag: the virtual time is forgotten.
ArrivalTagStale(q, a) ==
  IF Backlogged(q, a) THEN q.waitQ[a][Len(q.waitQ[a])].ftag ELSE q.maxftags[a]

\* Mutant of ArrivalTag: the last finish tag is forgotten.
ArrivalTagForgetful(q, a) ==
  IF Backlogged(q, a) THEN q.waitQ[a][Len(q.waitQ[a])].ftag ELSE q.vtime

\* The start tag of an arriving packet.
ArrivalTag(q, a) ==
  IF Backlogged(q, a) THEN q.waitQ[a][Len(q.waitQ[a])].ftag
  ELSE IF q.maxftags[a] > q.vtime THEN q.maxftags[a] ELSE q.vtime

NewJob(q, p) == [pkt  |-> p,
                 stag |-> ArrivalTag(q, p.app),
                 ftag |-> ArrivalTag(q, p.app) + Charge(p.app, p.size)]

Pushed(q, p) == [q EXCEPT !.waitQ[p.app] = Append(@, NewJob(q, p))]

(***************************************************************************)
(* dispatchNext.  The scan starts at startpos and goes once round the      *)
(* applications; a later one replaces the candidate only when its front    *)
(* start tag is strictly smaller.                                          *)
(***************************************************************************)
ScanPos(q, a) == IF a >= q.startpos THEN a - q.startpos
                                    ELSE a - q.startpos + NumApps

IsNext(q, a) ==
  /\ Backlogged(q, a)
  /\ \A b \in Apps : Backlogged(q, b) =>
       \/ FrontTag(q, a) < FrontTag(q, b)
       \/ FrontTag(q, a) = FrontTag(q, b) /\ ScanPos(q, a) <= ScanPos(q, b)

\* Mutant of CanDispatch: one job too many.
CanDispatchOneMore(q, a) == Len(q.osQ) <= Degree /\ IsNext(q, a)

\* dispatchNext returns a packet, of application a, rather than NULL.
CanDispatch(q, a) == Len(q.osQ) < Degree /\ IsNext(q, a)

\* Mutant of Retagged: the finish tag is computed afresh, without inserted delays.
RetaggedAfresh(job, next) ==
  [pkt  |-> next.pkt, stag |-> job.ftag,
   ftag |-> job.ftag + Charge(next.pkt.app, next.pkt.size)]

\* Mutant of Retagged: it starts where the dispatched job starts.
RetaggedBehind(job, next) == [next EXCEPT !.stag = job.stag]

\* The new front of the queue starts where the dispatched job finishes.
Retagged(job, next) == [pkt  |-> next.pkt,
                        stag |-> job.ftag,
                        ftag |-> next.ftag + (job.ftag - next.stag)]

Dispatched(q, a) ==
  LET job  == Head(q.waitQ[a])
      rest == Tail(q.waitQ[a])
  IN  [waitQ    |-> [q.waitQ EXCEPT ![a] =
                       IF rest = <<>> THEN <<>>
                       ELSE [rest EXCEPT ![1] = Retagged(job, rest[1])]],
       osQ      |-> Append(q.osQ, job),
       maxftags |-> IF rest = <<>> THEN [q.maxftags EXCEPT ![a] = job.ftag]
                    ELSE q.maxftags,
       vtime    |-> job.stag,
       startpos |-> IF a + 1 >= NumApps THEN 0 ELSE a + 1]

\* popOsQ(id): k is the first position of osQ that holds the identifier.
IsFirstMatch(q, id, k) ==
  /\ k \in 1 .. Len(q.osQ)
  /\ q.osQ[k].pkt.id = id
  /\ \A j \in 1 .. k-1 : q.osQ[j].pkt.id # id

Popped(q, k) ==
  [q EXCEPT !.osQ = RemoveAt(@, k)]

\* The identifiers a scheduler holds, waiting or outstanding.
WaitingIds(q)     == UNION {{j.pkt.id : j \in ToSet(q.waitQ[a])} : a \in Apps}
OutstandingIds(q) == {j.pkt.id : j \in ToSet(q.osQ)}
=============================================================================
