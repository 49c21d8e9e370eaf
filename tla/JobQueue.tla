------------------------------ MODULE JobQueue ------------------------------
(***************************************************************************)
(* What every scheduler of the repository promises its caller (the         *)
(* interface of scheduler/IQueue/IQueue.h): jobs pushed into it wait, are  *)
(* handed out in the order of their application, at most Degree of them    *)
(* are outstanding at a time, and an outstanding job leaves when its       *)
(* identifier is popped.  How the scheduler chooses between the            *)
(* applications is left open; that it starves none of them is not.         *)
(***************************************************************************)
EXTENDS Integers, Sequences, FiniteSets, SequencesExt

CONSTANTS Apps,    \* the applications
          Ids,     \* job identifiers
          Degree   \* outstanding jobs allowed; negative: not controlled

VARIABLES waiting,      \* the identifiers that wait, by application
          outstanding   \* the identifiers handed out and not popped yet

vars == <<waiting, outstanding>>

Held == outstanding \cup UNION {ToSet(waiting[a]) : a \in Apps}

Init == /\ waiting = [a \in Apps |-> <<>>]
        /\ outstanding = {}

Push(a, id) ==
  /\ id \notin Held
  /\ waiting' = [waiting EXCEPT ![a] = Append(@, id)]
  /\ UNCHANGED outstanding

Room == Degree < 0 \/ Cardinality(outstanding) < Degree

Dispatch(a) ==
  /\ waiting[a] # <<>>
  /\ Room
  /\ outstanding' = outstanding \cup {Head(waiting[a])}
  /\ waiting' = [waiting EXCEPT ![a] = Tail(@)]

Pop(id) ==
  /\ id \in outstanding
  /\ outstanding' = outstanding \ {id}
  /\ UNCHANGED waiting

Next == \/ \E a \in Apps, id \in Ids : Push(a, id)
        \/ \E a \in Apps  : Dispatch(a)
        \/ \E id \in Ids  : Pop(id)

Spec == Init /\ [][Next]_vars

FairSpec == Spec /\ \A a \in Apps : SF_vars(Dispatch(a))
=============================================================================
