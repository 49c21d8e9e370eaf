------------------------------ MODULE MCProxy ------------------------------
(***************************************************************************)
(* The configurations of the proxy that are checked.  Two applications, 0  *)
(* and 1; the latter has the looser deadline.                              *)
(***************************************************************************)
EXTENDS Proxy

Of0And1(zero, one) == 0 :> zero @@ 1 :> one

\* Configurations of FIFO and EDF: two requests waiting by deadline; both processing
\* times; identifiers used again; two places, in order of arrival.
WithoutClock(algorithm, degree, exchanges, times, rounds, delays) ==
  [algorithm |-> algorithm, par |-> [degree |-> degree, delay |-> Of0And1(0, 1)],
   jobs |-> [x \in 1 .. exchanges |-> [app |-> x % 2]],
   reads |-> [x \in 1 .. exchanges |-> BOOLEAN], packets |-> 2,
   times |-> times, rounds |-> rounds, horizon |-> 0, delays |-> delays]

\* A request of three sub-requests, and one of two at two of the same servers.
OfDTA ==
  [algorithm |-> "DTA",
   par |-> [degree |-> 1, delay |-> Of0And1(0, 1), servers |-> 0 .. 2, lag |-> 7],
   jobs |-> [x \in 1 .. 5 |->
     IF x <= 3 THEN [app |-> 1, server |-> x - 1, request |-> 1, total |-> 3]
               ELSE [app |-> 0, server |-> x - 3, request |-> 2, total |-> 2]],
   reads |-> [x \in 1 .. 5 |-> {TRUE}], packets |-> 1,
   times |-> {0}, rounds |-> 1, horizon |-> 0, delays |-> {}]

\* Two requests of each application; those of 1 are larger than its buffer.
OfSFQRC ==
  [algorithm |-> "SFQRC",
   par |-> [apps |-> {0, 1}, degree |-> 1, weight |-> Of0And1(1, 2), max |-> Of0And1(1, 1),
            rate |-> Of0And1(1, 1), delay |-> Of0And1(8, 12), reqSize |-> Of0And1(1, 2),
            readRate |-> 1, writeRate |-> 1, seek |-> 2, step |-> 1, unit |-> 2,
            garbage |-> {0, 5}],
   jobs |-> [x \in 1 .. 4 |-> [app |-> x % 2, size |-> 1 + (x % 2), file |-> x % 2]],
   reads |-> [x \in 1 .. 4 |-> {x # 3}], packets |-> 1,
   times |-> {0, 1}, rounds |-> 1, horizon |-> 2, delays |-> {}]

\* A token for each application in two units of time; windows of three.
OfI2L ==
  [algorithm |-> "I2L",
   par |-> [apps |-> {0, 1}, degree |-> 1, delay |-> Of0And1(0, 1), tokens |-> Of0And1(1, 1),
            interval |-> 2, window |-> 3, thresholds |-> {0, 11}],
   jobs |-> [x \in 1 .. 3 |-> [app |-> x % 2]],
   reads |-> [x \in 1 .. 3 |-> {TRUE}], packets |-> 1,
   times |-> {0, 3, 4}, rounds |-> 1, horizon |-> 8, delays |-> {}]

MCConfigurations ==
  { WithoutClock("EDF", 1, 3, {0, 1}, 1, {}),
    WithoutClock("EDF", 1, 3, {0, 2}, 1, {"newjob", "finjob"}),
    WithoutClock("FIFO", 1, 2, {0}, 2, {"finjob"}),
    WithoutClock("FIFO", 2, 3, {0}, 1, {"newjob"}),
    OfDTA, OfSFQRC, OfI2L }
=============================================================================
