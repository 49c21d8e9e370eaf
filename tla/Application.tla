---------------------------- MODULE Application ----------------------------
(***************************************************************************)
(* The applications (client/application/Application.cc).  Each one reads   *)
(* its trace files, called flows, one request at a time, sends the request *)
(* to its file system client and reads the next one of the flow when the   *)
(* answer comes.  They share a count of active applications and end the    *)
(* simulation when it falls to 0.  OMNeT++ initializes the applications    *)
(* one after the other, before it delivers any message.                    *)
(***************************************************************************)
EXTENDS Integers, FiniteSets, SequencesExt

CONSTANTS NumApplications,  \* the applications are 1 .. NumApplications
          FlowCount,        \* trace_count
          TraceLengths      \* how many requests a trace file may hold

Applications == 1 .. NumApplications
Flows        == 1 .. FlowCount

VARIABLES initialized,        \* how many applications are initialized
          app,                \* per application: is it active, and its flows
          activeApplications, \* the shared count
          ended               \* endSimulation was called

vars == <<initialized, app, activeApplications, ended>>

\* A flow: the requests left in its file, and the request it is at, which is
\* scheduled for its start time, then open until it is answered.
Stages == {"unread", "scheduled", "open", "eof"}

Init == /\ initialized = 0
        /\ \E lengths \in [Applications -> [Flows -> TraceLengths]] :
             app = [a \in Applications |->
                      [active |-> FALSE,
                       left   |-> lengths[a],
                       stage  |-> [f \in Flows |-> "unread"]]]
        /\ activeApplications = 0
        /\ ended = FALSE

-----------------------------------------------------------------------------
(* readOneTrace: s is an application with the shared count and whether the
   simulation has ended, which nothing is executed after. *)

EndOfFile(s, f) ==
  LET count == IF s.active THEN s.count - 1 ELSE s.count
  IN  [s EXCEPT !.stage[f] = "eof", !.active = FALSE, !.count = count,
                !.ended = (count = 0)]

ReadOneTrace(s, f, stage) ==
  IF s.ended THEN s
  ELSE IF s.left[f] = 0 THEN EndOfFile(s, f)
  ELSE [s EXCEPT !.left[f] = @ - 1, !.stage[f] = stage]

Of(a) == [active |-> app[a].active, left |-> app[a].left, stage |-> app[a].stage,
          count |-> activeApplications, ended |-> FALSE]

Becomes(a, s) ==
  /\ app' = [app EXCEPT ![a] = [active |-> s.active, left |-> s.left,
                                stage |-> s.stage]]
  /\ activeApplications' = s.count
  /\ ended' = s.ended

-----------------------------------------------------------------------------

\* initialize, with generateInitialTraces: the first request of every flow.  A
\* request whose start time has come is sent at once.
Initialize(a) ==
  /\ ~ended
  /\ a = initialized + 1
  /\ initialized' = a
  /\ \E stages \in [Flows -> {"scheduled", "open"}] :
       Becomes(a, FoldLeft(LAMBDA s, f : ReadOneTrace(s, f, stages[f]),
                           [Of(a) EXCEPT !.active = TRUE, !.count = @ + 1],
                           [f \in Flows |-> f]))

Running == ~ended /\ initialized = NumApplications

\* The start time of a scheduled request: sendNewAppRequest.
SendNewAppRequest(a, f) ==
  /\ Running
  /\ app[a].stage[f] = "scheduled"
  /\ app' = [app EXCEPT ![a].stage[f] = "open"]
  /\ UNCHANGED <<initialized, activeApplications, ended>>

\* The answer of the file system client: handleFinishedTrace.
HandleFinishedTrace(a, f) ==
  /\ Running
  /\ app[a].stage[f] = "open"
  /\ \E stage \in {"scheduled", "open"} : Becomes(a, ReadOneTrace(Of(a), f, stage))
  /\ UNCHANGED initialized

Next == \E a \in Applications :
          \/ Initialize(a)
          \/ \E f \in Flows : SendNewAppRequest(a, f) \/ HandleFinishedTrace(a, f)

Spec == Init /\ [][Next]_vars

-----------------------------------------------------------------------------

\* "If all the input files meet EOF, end the simulation" (readOneTrace): it ends only
\* when every flow of every application has been read to its end.
EndsAtEOF ==
  ended => \A a \in Applications, f \in Flows : app[a].stage[f] = "eof"
=============================================================================
