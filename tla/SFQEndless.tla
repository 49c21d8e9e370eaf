----------------------------- MODULE SFQEndless -----------------------------
(***************************************************************************)
(* One SFQ scheduler whose applications never stop sending.                *)
(*                                                                         *)
(* The tags and the virtual time of SFQ only grow, and nothing but their   *)
(* distances is ever compared.  Here every handler of SFQ is followed by a *)
(* move of the origin to the virtual time, so that a scheduler that works  *)
(* for ever goes through finitely many states, with no bound on what is    *)
(* sent: an application that is starved could wait for ever.               *)
(***************************************************************************)
EXTENDS SFQ

JobRebased(j, v)   == [pkt |-> j.pkt, stag |-> j.stag - v, ftag |-> j.ftag - v]
QueueRebased(w, v) == [k \in DOMAIN w |-> JobRebased(w[k], v)]

\* The tags of an outstanding job are never read again ...
Untagged(w) == [k \in DOMAIN w |-> [pkt |-> w[k].pkt, stag |-> 0, ftag |-> 0]]

\* ... nor is a last finish tag the virtual time has passed: pushWaitQ takes the
\* larger of the two.
Ahead(tag, v) == IF tag > v THEN tag - v ELSE 0

Rebased(s) ==
  [waitQ    |-> [a \in Apps |-> QueueRebased(s.waitQ[a], s.vtime)],
   osQ      |-> Untagged(s.osQ),
   maxftags |-> [a \in Apps |-> Ahead(s.maxftags[a], s.vtime)],
   vtime    |-> 0,
   startpos |-> s.startpos]

PushE(p) ==
  /\ p.id \notin WaitingIds(q) \cup OutstandingIds(q)
  /\ q' = Rebased(Pushed(q, p))

DispatchE(a) ==
  /\ CanDispatch(q, a)
  /\ q' = Rebased(Dispatched(q, a))

PopE(id) ==
  \E k \in DOMAIN q.osQ : IsFirstMatch(q, id, k) /\ q' = Rebased(Popped(q, k))

NextE == \/ \E p \in Packet : PushE(p)
         \/ \E a \in Apps   : DispatchE(a)
         \/ \E id \in Ids   : PopE(id)

SpecE == Init /\ [][NextE]_q

(***************************************************************************)
(* The proxy calls dispatchNext until it returns NULL after every push and *)
(* every pop, and the data servers answer every request: a dispatch that   *)
(* stays possible happens, and an outstanding job is popped.  The clients  *)
(* may send for ever, or stop.                                             *)
(***************************************************************************)
FairnessE == /\ WF_q(\E a \in Apps : DispatchE(a))
             /\ \A id \in Ids : WF_q(PopE(id))

FairSpecE == SpecE /\ FairnessE

-----------------------------------------------------------------------------

\* Every step of the scheduler is a push, a dispatch in the order of one
\* application within the degree, or a pop of an outstanding job; and no
\* application is starved: as long as packets cost something, the others may
\* send without end, and ties are broken by the scan of dispatchNext.
ImplementsJobQueue == JQ!FairSpec
=============================================================================
