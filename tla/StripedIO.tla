----------------------------- MODULE StripedIO -----------------------------
(***************************************************************************)
(* What an application may expect of the parallel file system: a request   *)
(* names places on the data servers, every one of them is transferred      *)
(* exactly once, nothing else is, and the request is answered once, when   *)
(* all of them have been.                                                  *)
(***************************************************************************)
EXTENDS Naturals, Bags

CONSTANTS Requests,   \* the requests
          Extents     \* the sets of places a request may be about

VARIABLES wanted,     \* the places each issued request is about
          moved,      \* how often each place was transferred for a request
          answers     \* how often each request was answered

vars == <<wanted, moved, answers>>

Issued == DOMAIN wanted

Init == /\ wanted = [r \in {} |-> {}]
        /\ moved = [r \in Requests |-> EmptyBag]
        /\ answers = [r \in Requests |-> 0]

Issue(r) ==
  /\ r \notin Issued
  /\ \E P \in Extents :
       wanted' = [s \in Issued \cup {r} |-> IF s = r THEN P ELSE wanted[s]]
  /\ UNCHANGED <<moved, answers>>

\* Some of the places that were not transferred yet are.
Move(r) ==
  LET P == BagToSet(moved'[r]) \ BagToSet(moved[r])
  IN  /\ r \in Issued
      /\ P # {} /\ P \subseteq wanted[r]
      /\ moved' = [moved EXCEPT ![r] = @ (+) SetToBag(P)]
      /\ UNCHANGED <<wanted, answers>>

Answer(r) ==
  /\ r \in Issued
  /\ BagToSet(moved[r]) = wanted[r]
  /\ answers[r] = 0
  /\ answers' = [answers EXCEPT ![r] = 1]
  /\ UNCHANGED <<wanted, moved>>

Next == \E r \in Requests : Issue(r) \/ Move(r) \/ Answer(r)

Spec == Init /\ [][Next]_vars
=============================================================================
