------------------------------- MODULE MCSSD -------------------------------
(* The devices and requests TLC considers. *)
EXTENDS SSD

Reading(blocks) == [read |-> TRUE, blocks |-> blocks]
Writing(blocks) == [read |-> FALSE, blocks |-> blocks]

SmallSSD(request, neverdisconnect, background, maxReqs) ==
  [request |-> request, elements |-> 2, neverdisconnect |-> neverdisconnect,
   background |-> background, maxReqs |-> maxReqs]

\* A read behind a write on one element and behind cleaning on both; and two writes of
\* one block that are collected together, behind a read of that element.
MCConfigurations ==
     {SmallSSD(<<Writing(<<0, 1>>), Reading(<<1, 2>>), Writing(<<2>>)>>, n, b, 1) :
        n \in BOOLEAN, b \in BOOLEAN}
\cup {SmallSSD(<<Writing(<<0, 1>>), Writing(<<0>>), Reading(<<2>>)>>, n, FALSE, 2) :
        n \in BOOLEAN}
=============================================================================
