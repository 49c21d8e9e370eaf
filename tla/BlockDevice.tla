---------------------------- MODULE BlockDevice ----------------------------
(***************************************************************************)
(* What a device promises to its controller: each request it is given goes *)
(* once through its steps, in order.  A write has its data before it is    *)
(* served by the medium, a read after, and the completion comes last.      *)
(* Every request that arrives is completed, unless the simulation stops,   *)
(* which it may do only where mayStop says so.                             *)
(***************************************************************************)
EXTENDS Naturals, Sequences

CONSTANT Names       \* the names requests may have

VARIABLES reads,     \* the requests that are reads
          mayStop,   \* whether the simulation may stop on an assertion
          log,       \* the steps each request has taken, in order
          stopped    \* whether it has stopped

vars == <<reads, mayStop, log, stopped>>

Steps(r) == IF r \in reads THEN <<"arrive", "media", "data", "complete">>
            ELSE <<"arrive", "data", "media", "complete">>

Init == log = [r \in DOMAIN log |-> <<>>] /\ ~stopped

Take(r) == /\ ~stopped
           /\ Len(log[r]) < Len(Steps(r))
           /\ log' = [log EXCEPT ![r] = Append(@, Steps(r)[Len(@) + 1])]
           /\ UNCHANGED <<reads, mayStop>>
           /\ stopped' => mayStop

Stop == /\ ~stopped /\ mayStop /\ stopped'
        /\ UNCHANGED <<reads, mayStop, log>>

Next == (\E r \in DOMAIN log : Take(r)) \/ Stop

Spec == Init /\ [][Next]_vars

Arrived(r)   == r \in DOMAIN log /\ log[r] # <<>>
Completed(r) == r \in DOMAIN log /\ log[r] = Steps(r)

Completes == \A r \in Names : Arrived(r) ~> (stopped \/ Completed(r))
=============================================================================
