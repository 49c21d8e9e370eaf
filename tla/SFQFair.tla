------------------------------ MODULE SFQFair ------------------------------
(***************************************************************************)
(* The fairness SFQ exists for.  A history variable, lead, is added to     *)
(* SFQ: while two applications are both backlogged, lead[a][b] is what a   *)
(* was dispatched minus what b was dispatched, each divided by its weight; *)
(* it restarts at 0 when one of the queues drains.                         *)
(***************************************************************************)
EXTENDS SFQ

VARIABLE lead

InitF == Init /\ lead = [a \in Apps |-> [b \in Apps |-> 0]]

\* What dispatching from application c is worth to a.
Worth(a, c) == IF a = c THEN Head(q.waitQ[c]).ftag - Head(q.waitQ[c]).stag
               ELSE 0

\* The leads after a dispatch from application c.
LeadAfter(c) ==
  [a \in Apps |-> [b \in Apps |->
     IF Backlogged(q', a) /\ Backlogged(q', b)
     THEN lead[a][b] + Worth(a, c) - Worth(b, c)
     ELSE 0]]

PushF(p) == PushWaitQ(p) /\ UNCHANGED lead

DispatchF(c) == DispatchNext(c) /\ lead' = LeadAfter(c)

PopF(id) == PopOsQ(id) /\ UNCHANGED lead

NextF == \/ \E p \in Packet : PushF(p)
         \/ \E a \in Apps   : DispatchF(a)
         \/ \E id \in Ids   : PopF(id)

SpecF == InitF /\ [][NextF]_<<q, lead>>

-----------------------------------------------------------------------------

\* The fairness theorem of start-time fair queueing for dispatchNext: over any
\* interval in which two applications are both backlogged, the weighted service
\* they receive differs by at most what two packets can cost.
FairShare == \A a, b \in Apps : lead[a][b] <= 2 * MaxCharge

(***************************************************************************)
(* The inductive invariant behind it.                                      *)
(***************************************************************************)
\* A job's tags are its charge apart.
JobCharge(j) == j.ftag = j.stag + Charge(j.pkt.app, j.pkt.size)

OwnCharge ==
  \A a \in Apps : \A k \in DOMAIN q.waitQ[a] :
     q.waitQ[a][k].pkt.app = a /\ JobCharge(q.waitQ[a][k])

\* The finish tag left behind by a drained queue is within the same window.
LastFinish == \A a \in Apps : q.maxftags[a] <= q.vtime + MaxCharge

\* lead differs from the distance of the two front tags by a constant that was
\* fixed when both queues became backlogged, when the window bounded it.
LeadMatchesTags ==
  \A a, b \in Apps :
    IF Backlogged(q, a) /\ Backlogged(q, b)
    THEN LET drift == lead[a][b] - (FrontTag(q, a) - FrontTag(q, b))
         IN  -MaxCharge <= drift /\ drift <= MaxCharge
    ELSE lead[a][b] = 0

TypeOKF == TypeOK /\ lead \in [Apps -> [Apps -> Int]]

IInv == /\ TypeOKF
        /\ OwnCharge
        /\ TagChain
        /\ LastFinish
        /\ TagWindow
        /\ LeadMatchesTags
=============================================================================
