------------------------------- MODULE MCSFQ -------------------------------
(* One scheduler of applications that never stop sending, with the history of weighted  *)
(* service: the steps of SFQEndless, and what SFQFair notes of them.                    *)
EXTENDS SFQFair, SFQEndless, TLC

\* The applications have different weights.
MCRate == [a \in Apps |-> a + 1]

MCPush(p)     == PushE(p) /\ UNCHANGED lead
MCDispatch(c) == DispatchE(c) /\ lead' = LeadAfter(c)
MCPop(id)     == PopE(id) /\ UNCHANGED lead

MCNext == \/ \E p \in Packet : MCPush(p)
          \/ \E a \in Apps   : MCDispatch(a)
          \/ \E id \in Ids   : MCPop(id)

MCFairSpec == InitF /\ [][MCNext]_<<q, lead>> /\ FairnessE
=============================================================================
