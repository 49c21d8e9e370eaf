-------------------------------- MODULE I2L --------------------------------
(***************************************************************************)
(* scheduler/I2L: SARC holds the requests of an application that has used  *)
(* its tokens (I2L.cc, SARC.cc); the others wait by deadline in AVATAR     *)
(* (AVATAR.cc), which sends as many to the server as its threshold L_O     *)
(* allows, and those whose deadline has passed at once.  Tokens are        *)
(* replenished periodically, and early when AVATAR finds that the server   *)
(* has bandwidth to spare; L_O is set anew at the end of every window.     *)
(*                                                                         *)
(* A parameter record p has apps, 0 .. appNum - 1; for each application    *)
(* delay and tokens, whole; interval, of replenishment; window; and        *)
(* thresholds, the values of L_O, in tenths, that the measurements of a    *)
(* window may lead to.  degree is not used by the code.                    *)
(***************************************************************************)
EXTENDS Integers, Sequences, SequencesExt

EDF == INSTANCE EDFQueue

SafeLO   == 40      \* AVATAR_SAFE_L_O, in tenths
Infinity == 1000    \* AVATAR_INFINITY, in tenths

\* reqQ, token and replenish are SARC's; edf, LO, spare (idle_status), windowEnd and
\* completed (the applications whose T_O_Index is not 0) AVATAR's; idle is I2L's.
Initial(p) ==
  [reqQ |-> [a \in p.apps |-> <<>>], token |-> p.tokens, replenish |-> p.interval,
   edf |-> EDF!EmptyQueue, LO |-> SafeLO, spare |-> FALSE, windowEnd |-> p.window,
   completed |-> {}, idle |-> TRUE]

ToAvatar(p, q, job) == [q EXCEPT !.edf = EDF!PushedByDeadline(@, job, p.delay)]

\* Mutant of Replenished: the requests that are held are not looked at.
ReplenishedOnly(p, q, now) == [q EXCEPT !.token = p.tokens, !.replenish = now + p.interval]

\* replenishTokens, and tryToDispatch until it returns NULL: an application's requests
\* go to AVATAR while it has tokens, one application after the other.
Replenished(p, q, now) ==
  LET released(a) == IF Len(q.reqQ[a]) <= p.tokens[a] THEN Len(q.reqQ[a]) ELSE p.tokens[a]
      full == [q EXCEPT !.replenish = now + p.interval,
                        !.token = [a \in p.apps |-> p.tokens[a] - released(a)],
                        !.reqQ  = [a \in p.apps |-> SubSeq(@[a], released(a) + 1, Len(@[a]))]]
      of(a) == SubSeq(q.reqQ[a], 1, released(a))
      all   == FlattenSeq([k \in 1 .. Cardinality(p.apps) |-> of(k - 1)])
  IN  FoldLeft(LAMBDA u, job : ToAvatar(p, u, job), full, all)

\* pushWaitQ, with newArrival.
Pushed(p, q, job, now) ==
  LET a    == job.app
      held == [q EXCEPT !.reqQ[a] = Append(@, job)]
  IN  IF q.token[a] > 0 THEN ToAvatar(p, [q EXCEPT !.token[a] = @ - 1], job)
      ELSE IF q.idle THEN Replenished(p, held, now) ELSE held

\* AVATAR::dispatchNext.  spare changes only when nothing is dispatched.
AvatarNext(p, q, now) ==
  LET atServer == Len(q.edf.osQ)
  IN  IF EDF!SomeDeadlinePassed(q.edf, p.delay, now) \/ 10 * atServer < q.LO
      THEN IF q.edf.waitQ # <<>>
           THEN [sent |-> <<Head(q.edf.waitQ)>>, queue |-> [q EXCEPT !.edf = EDF!Dispatched(@)]]
           ELSE [sent |-> <<>>, queue |-> [q EXCEPT !.spare = @ \/ 100 * atServer < 9 * q.LO]]
      ELSE [sent |-> <<>>, queue |-> [q EXCEPT !.spare = FALSE]]

\* dispatchNext: when the server turns out to have become idle, tokens are replenished.
DispatchedNext(p, q, now) ==
  LET one == AvatarNext(p, q, now)
      two == IF ~q.idle /\ one.queue.spare
             THEN AvatarNext(p, Replenished(p, one.queue, now), now)
             ELSE one
  IN  IF one.sent # <<>> THEN one
      ELSE [two EXCEPT !.queue.idle = two.queue.spare]

\* popOsQ: the response time counts for the application's percentile.
Popped(q, id) ==
  [q EXCEPT !.edf = EDF!Popped(@, id),
            !.completed = @ \cup {job.app : job \in {j \in ToSet(q.edf.osQ) : j.id = id}}]

\* AVATAR::windowEnd.  Without a completed request L_O becomes AVATAR_INFINITY; with
\* some it follows from response times, and a deadline may count as missed.
WindowEnds(p, q) ==
  LET ended(threshold, missed) ==
        [q EXCEPT !.LO = threshold, !.spare = @ /\ ~missed,
                  !.windowEnd = @ + p.window, !.completed = {}]
  IN  IF q.completed = {} THEN {ended(Infinity, FALSE)}
      ELSE {ended(t, missed) : t \in p.thresholds, missed \in BOOLEAN}

\* Mutant of NextCall: the end of the window is forgotten.
NextCallReplenish(q) == q.replenish

\* What notify returns: the time of its next call.
NextCall(q) == IF q.replenish > q.windowEnd THEN q.windowEnd ELSE q.replenish

\* notify: one of the two things that are due, replenishment first.
Notified(p, q, now) ==
  IF now >= q.replenish THEN {Replenished(p, q, now)}
  ELSE IF now >= q.windowEnd THEN WindowEnds(p, q)
  ELSE {q}

Outstanding(q) == q.edf.osQ
CouldDispatch(q) == q.edf.waitQ # <<>> /\ 10 * Len(q.edf.osQ) < q.LO
=============================================================================
