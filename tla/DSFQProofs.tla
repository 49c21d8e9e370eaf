----------------------------- MODULE DSFQProofs -----------------------------
(***************************************************************************)
(* Proofs about the distributed SFQ schedulers, for every number of        *)
(* proxies and applications, every degree, threshold, weights and sizes,   *)
(* and whatever is propagated in whichever order.                          *)
(***************************************************************************)
EXTENDS DSFQ, SFQQueueLemmas, ListLemmas

-----------------------------------------------------------------------------
(* scheduleJobs calls dispatchNext again and again. *)

\* One turn of the loop of scheduleJobs.
OneMore(n) ==
  IF \E a \in Apps : CanDispatch(n.sch, a)
  THEN NodeDispatch(n, CHOOSE a \in Apps : CanDispatch(n.sch, a))
  ELSE n

\* The loop is well defined: the nodes it goes through are the turns counted up.
LEMMA RunOfLoop ==
  ASSUME NEW n, NEW k \in Nat
  PROVE  \E r : r = [i \in 0 .. k |-> IF i = 0 THEN n ELSE OneMore(r[i-1])]
<1> DEFINE Run(r, m) == r = [i \in 0 .. m |-> IF i = 0 THEN n ELSE OneMore(r[i-1])]
           Bad == {m \in Nat : ~\E r : Run(r, m)}
<1>1. CASE Bad = {}
  BY <1>1
<1>2. CASE Bad # {}
  <2>1. PICK m \in Bad : \A j \in Bad : m <= j
    BY <1>2, LeastNat
  <2>2. m # 0
    <3>1. Run([i \in 0 .. 0 |-> n], 0)
      <4>1. \A i \in 0 .. 0 : i = 0
        OBVIOUS
      <4> DEFINE r == [i \in 0 .. 0 |-> n]
      <4>2. \A i \in 0 .. 0 : n = IF i = 0 THEN n ELSE OneMore(r[i-1])
        BY <4>1
      <4>3. r = [i \in 0 .. 0 |-> IF i = 0 THEN n ELSE OneMore(r[i-1])]
        BY <4>2, Zenon
      <4>4. QED
        BY <4>3
    <3>2. QED
      BY <3>1
  <2>3. m - 1 \in Nat /\ m \in Nat
    BY <2>2
  <2> HIDE DEF Run
  <2>4. PICK r : Run(r, m - 1)
    <3>1. ~(m <= m - 1)
      BY <2>3
    <3>2. m - 1 \notin Bad
      BY <2>1, <3>1
    <3>3. QED
      BY <2>3, <3>2
  <2> USE DEF Run
  <2> DEFINE s == [i \in 0 .. m |-> IF i = m THEN OneMore(r[m-1]) ELSE r[i]]
  <2>5. ASSUME NEW i \in 0 .. m
        PROVE  s[i] = IF i = 0 THEN n ELSE OneMore(s[i-1])
    <3>1. CASE i = 0
      BY <2>2, <2>3, <2>4, <3>1
    <3>2. CASE i # 0
      <4>1. i - 1 \in 0 .. m - 1 /\ i - 1 \in 0 .. m /\ i - 1 # m
        BY <2>3, <3>2
      <4>2. s[i-1] = r[i-1]
        BY <4>1
      <4>3. CASE i = m
        BY <3>2, <4>2, <4>3
      <4>4. CASE i # m
        <5>1. i \in 0 .. m - 1
          BY <2>3, <4>4
        <5>2. r[i] = OneMore(r[i-1])
          BY <2>4, <3>2, <5>1
        <5>3. QED
          BY <3>2, <4>2, <4>4, <5>2
      <4>5. QED
        BY <4>3, <4>4
    <3>3. QED
      BY <3>1, <3>2
  <2> HIDE DEF Run
  <2>6. Run(s, m)
    <3>1. s = [i \in 0 .. m |-> s[i]]
      BY Zenon
    <3> HIDE DEF s
    <3>2. s = [i \in 0 .. m |-> IF i = 0 THEN n ELSE OneMore(s[i-1])]
      BY <2>5, <3>1, Zenon
    <3>3. QED
      BY <3>2 DEF Run
  <2>7. QED
    BY <2>1, <2>6
<1>3. QED
  BY <1>1, <1>2

\* What every turn of the loop preserves, scheduleJobs preserves.
LEMMA ScheduleJobsKeeps ==
  ASSUME NEW N, NEW n \in N, \A m \in N : OneMore(m) \in N
  PROVE  ScheduleJobs(n) \in N
<1> DEFINE F(r) == [i \in 0 .. Degree |-> IF i = 0 THEN n ELSE OneMore(r[i-1])]
           run == CHOOSE r : r = F(r)
<1>1. Degree \in Nat
  BY DSFQAssumption
<1>2. ScheduleJobs(n) = run[Degree]
  BY Zenon DEF ScheduleJobs, OneMore
<1>3. run = F(run)
  <2>1. \E r : r = F(r)
    BY <1>1, RunOfLoop
  <2> HIDE DEF F
  <2>2. QED
    BY <2>1, Zenon
<1> HIDE DEF run
<1>4. /\ run[0] = n
      /\ \A i \in 1 .. Degree : run[i] = OneMore(run[i-1])
  BY <1>1, <1>3
<1> DEFINE Bad == {i \in 0 .. Degree : run[i] \notin N}
<1>5. CASE Bad = {}
  BY <1>1, <1>2, <1>5
<1>6. CASE Bad # {}
  <2>1. PICK i \in Bad : \A j \in Bad : i <= j
    <3>1. Bad \subseteq Nat
      BY <1>1
    <3> HIDE DEF Bad
    <3>2. QED
      BY <1>6, <3>1, LeastNat
  <2>2. i # 0
    BY <1>4, <2>1
  <2>3. i - 1 \in 0 .. Degree /\ i \in 1 .. Degree /\ ~(i <= i - 1)
    BY <1>1, <2>2
  <2>4. run[i-1] \in N
    BY <2>1, <2>3
  <2>5. run[i] \in N
    BY <1>4, <2>3, <2>4
  <2>6. QED
    BY <2>1, <2>5
<1>7. QED
  BY <1>5, <1>6

-----------------------------------------------------------------------------
(* The schedulers: finish tags are not before start tags, and no front is  *)
(* behind the virtual time.                                                *)

Ordered(s) ==
  \A a \in Apps : \A k \in DOMAIN s.waitQ[a] : s.waitQ[a][k].ftag >= s.waitQ[a][k].stag

FrontsAhead(s) == \A a \in Apps : Backlogged(s, a) => FrontTag(s, a) >= s.vtime

Sound == {s \in Scheduler : Ordered(s) /\ FrontsAhead(s)}

\* An arriving packet starts at or after the virtual time.
LEMMA PushSound ==
  ASSUME NEW s \in Sound, NEW p \in Packet
  PROVE  Pushed(s, p) \in Sound /\ Pushed(s, p).vtime = s.vtime
<1> DEFINE t == Pushed(s, p)
           j == NewJob(s, p)
<1>1. s \in Scheduler /\ Ordered(s) /\ FrontsAhead(s)
  BY DEF Sound
<1>2. /\ t \in Scheduler /\ t.vtime = s.vtime
      /\ t.waitQ = [s.waitQ EXCEPT ![p.app] = Append(s.waitQ[p.app], j)]
  BY <1>1, PushEffect
<1>3. /\ p.app \in Apps /\ p.size \in Sizes /\ s.waitQ \in [Apps -> Seq(Job)]
      /\ s.vtime \in Nat
  BY <1>1 DEF Packet, Scheduler
<1>4. j \in Job /\ j.ftag >= j.stag
  <2>1. /\ ArrivalTag(s, p.app) \in Nat /\ j \in Job /\ j.stag = ArrivalTag(s, p.app)
        /\ j.ftag = ArrivalTag(s, p.app) + Charge(p.app, p.size)
    BY <1>1, NewJobType
  <2>2. Charge(p.app, p.size) \in Nat
    BY <1>3, ChargeInWindow
  <2>3. QED
    BY <2>1, <2>2
<1>5. ~Backlogged(s, p.app) => j.stag >= s.vtime
  <2>1. s.maxftags[p.app] \in Nat
    BY <1>1, <1>3 DEF Scheduler
  <2>2. QED
    BY <1>3, <2>1 DEF NewJob, ArrivalTag
<1> HIDE DEF t, j
<1>6. ASSUME NEW a \in Apps, a # p.app
      PROVE  t.waitQ[a] = s.waitQ[a]
  BY <1>2, <1>3, <1>6
<1>7. t.waitQ[p.app] = Append(s.waitQ[p.app], j) /\ s.waitQ[p.app] \in Seq(Job)
  BY <1>2, <1>3
<1>8. Ordered(t)
  <2> SUFFICES ASSUME NEW a \in Apps, NEW k \in DOMAIN t.waitQ[a]
               PROVE  t.waitQ[a][k].ftag >= t.waitQ[a][k].stag
    BY DEF Ordered
  <2>1. CASE a = p.app
    <3>1. CASE k \in DOMAIN s.waitQ[a]
      BY <1>1, <1>7, <2>1, <3>1 DEF Ordered
    <3>2. CASE k \notin DOMAIN s.waitQ[a]
      <4>1. k = Len(s.waitQ[a]) + 1
        <5>1. t.waitQ[a] = Append(s.waitQ[a], j) /\ s.waitQ[a] \in Seq(Job)
          BY <1>7, <2>1
        <5>2. DOMAIN Append(s.waitQ[a], j) = 1 .. Len(s.waitQ[a]) + 1
          BY <1>4, <5>1
        <5>3. k \in 1 .. Len(s.waitQ[a]) + 1 /\ DOMAIN s.waitQ[a] = 1 .. Len(s.waitQ[a])
          BY <5>1, <5>2
        <5>4. QED
          BY <3>2, <5>1, <5>3
      <4>2. t.waitQ[a][k] = j
        BY <1>4, <1>7, <2>1, <4>1
      <4>3. QED
        BY <1>4, <4>2
    <3>3. QED
      BY <3>1, <3>2
  <2>2. CASE a # p.app
    BY <1>1, <1>6, <2>2 DEF Ordered
  <2>3. QED
    BY <2>1, <2>2
<1>9. FrontsAhead(t)
  <2> SUFFICES ASSUME NEW a \in Apps, Backlogged(t, a)
               PROVE  FrontTag(t, a) >= t.vtime
    BY DEF FrontsAhead
  <2>1. CASE a = p.app
    <3>1. CASE Backlogged(s, a)
      <4>1. t.waitQ[a][1] = s.waitQ[a][1]
        BY <1>7, <2>1, <3>1 DEF Backlogged
      <4>2. QED
        BY <1>1, <1>2, <3>1, <4>1 DEF FrontsAhead, FrontTag
    <3>2. CASE ~Backlogged(s, a)
      <4>1. t.waitQ[a][1] = j
        BY <1>4, <1>7, <2>1, <3>2 DEF Backlogged
      <4>2. QED
        BY <1>2, <1>5, <2>1, <3>2, <4>1 DEF FrontTag
    <3>3. QED
      BY <3>1, <3>2
  <2>2. CASE a # p.app
    BY <1>1, <1>2, <1>6, <2>2 DEF FrontsAhead, FrontTag, Backlogged
  <2>3. QED
    BY <2>1, <2>2
<1>10. QED
  BY <1>2, <1>8, <1>9 DEF Sound, t

\* popOsQ touches no tag.
LEMMA PopSound ==
  ASSUME NEW s \in Sound, NEW k \in DOMAIN s.osQ
  PROVE  Popped(s, k) \in Sound /\ Popped(s, k).vtime = s.vtime
BY PopEffect DEF Sound, Ordered, FrontsAhead, Backlogged, FrontTag

\* The smallest front becomes the virtual time, and the next job of its queue starts
\* where it finishes.
LEMMA DispatchSound ==
  ASSUME NEW s \in Sound, NEW a \in Apps, CanDispatch(s, a)
  PROVE  Dispatched(s, a) \in Sound /\ Dispatched(s, a).vtime >= s.vtime
<1> DEFINE w    == s.waitQ[a]
           job  == w[1]
           rest == Tail(w)
           d    == Dispatched(s, a)
           new  == IF rest = <<>> THEN <<>> ELSE [rest EXCEPT ![1] = Retagged(job, rest[1])]
<1>1. s \in Scheduler /\ Ordered(s) /\ FrontsAhead(s) /\ Backlogged(s, a)
  BY DEF Sound, CanDispatch, IsNext
<1>2. /\ d \in Scheduler /\ job \in Job /\ d.vtime = job.stag
      /\ d.waitQ = [s.waitQ EXCEPT ![a] = new]
      /\ rest # <<>> => rest[1] = w[2] /\ Retagged(job, rest[1]) \in Job
  BY <1>1, DispatchEffect DEF Ordered
<1>3. /\ s.waitQ \in [Apps -> Seq(Job)] /\ w \in Seq(Job) /\ w # <<>> /\ s.vtime \in Nat
      /\ 1 \in DOMAIN w
  BY <1>1 DEF Scheduler, Backlogged
<1>4. /\ rest \in Seq(Job)
      /\ \A k \in DOMAIN rest : k + 1 \in DOMAIN w /\ rest[k] = w[k+1]
  BY <1>3, TailElements
<1>5. /\ job.ftag >= job.stag /\ job.stag \in Nat /\ job.ftag \in Nat
      /\ job.stag >= s.vtime /\ job.stag = FrontTag(s, a)
  BY <1>1, <1>2, <1>3 DEF Ordered, FrontsAhead, FrontTag, Job
<1>6. \A b \in Apps : Backlogged(s, b) => job.stag <= FrontTag(s, b)
  <2> SUFFICES ASSUME NEW b \in Apps, Backlogged(s, b)
               PROVE  job.stag <= FrontTag(s, b)
    OBVIOUS
  <2>1. FrontTag(s, b) \in Nat /\ FrontTag(s, a) \in Nat
    BY <1>1, FrontIsJob
  <2>2. FrontTag(s, a) < FrontTag(s, b) \/ FrontTag(s, a) = FrontTag(s, b)
    BY DEF CanDispatch, IsNext
  <2>3. QED
    BY <1>5, <2>1, <2>2
<1>7. ASSUME rest # <<>>
      PROVE  /\ 1 \in DOMAIN rest /\ rest[1] \in Job
             /\ Retagged(job, rest[1]).stag = job.ftag
             /\ Retagged(job, rest[1]).ftag >= job.ftag
  <2>1. 1 \in DOMAIN rest /\ rest[1] \in Job
    BY <1>4, <1>7
  <2>2. rest[1].ftag >= rest[1].stag
    BY <1>1, <1>4, <2>1 DEF Ordered
  <2>3. QED
    BY <1>2, <2>1, <2>2, RetaggedType, SMTT(20) DEF Job
<1>8. ASSUME NEW k \in DOMAIN new
      PROVE  new[k].ftag >= new[k].stag
  <2>1. rest # <<>> /\ k \in DOMAIN rest
    BY <1>8
  <2>2. CASE k = 1
    <3>1. new[k] = Retagged(job, rest[1])
      BY <2>1, <2>2
    <3>2. QED
      BY <1>7, <2>1, <3>1
  <2>3. CASE k # 1
    <3>1. new[k] = rest[k]
      BY <2>1, <2>3
    <3>2. QED
      BY <1>1, <1>4, <2>1, <3>1 DEF Ordered
  <2>4. QED
    BY <2>2, <2>3
<1>9. new # <<>> => new[1].stag = job.ftag
  BY <1>7
<1> HIDE DEF w, job, rest, d, new
<1>10. \A b \in Apps : d.waitQ[b] = IF b = a THEN new ELSE s.waitQ[b]
  BY <1>2, <1>3
<1>11. Ordered(d)
  BY <1>1, <1>8, <1>10 DEF Ordered
<1>12. FrontsAhead(d)
  BY <1>2, <1>5, <1>6, <1>9, <1>10 DEF FrontsAhead, Backlogged, FrontTag
<1>13. QED
  BY <1>2, <1>5, <1>11, <1>12 DEF Sound, d

\* Delaying or prolonging a job.
LEMMA DelayedJob ==
  ASSUME NEW j \in Job, j.ftag >= j.stag, NEW c \in Nat
  PROVE  LET d == [j EXCEPT !.stag = @ + c, !.ftag = @ + c]
             l == [j EXCEPT !.ftag = @ + c]
         IN  /\ d \in Job /\ d.ftag >= d.stag /\ d.stag >= j.stag
             /\ l \in Job /\ l.ftag >= l.stag /\ l.stag = j.stag
<1> DEFINE d == [j EXCEPT !.stag = @ + c, !.ftag = @ + c]
           l == [j EXCEPT !.ftag = @ + c]
<1>1. /\ j.stag \in Nat /\ j.ftag \in Nat /\ j.pkt \in Packet
      /\ j = [pkt |-> j.pkt, stag |-> j.stag, ftag |-> j.ftag]
  BY DEF Job
<1>2. d = [pkt |-> j.pkt, stag |-> j.stag + c, ftag |-> j.ftag + c]
  <2> DEFINE e == [j EXCEPT !.stag = j.stag + c]
  <2>1. e = [pkt |-> j.pkt, stag |-> j.stag + c, ftag |-> j.ftag]
    BY <1>1
  <2>2. d = [e EXCEPT !.ftag = j.ftag + c]
    OBVIOUS
  <2> HIDE DEF e, d
  <2>3. QED
    BY <2>1, <2>2
<1>3. l = [pkt |-> j.pkt, stag |-> j.stag, ftag |-> j.ftag + c]
  BY <1>1
<1>4. j.stag + c \in Nat /\ j.ftag + c \in Nat
  BY <1>1
<1> HIDE DEF d, l
<1>5. d \in Job /\ l \in Job
  BY <1>1, <1>2, <1>3, <1>4 DEF Job
<1>6. QED
  BY <1>1, <1>2, <1>3, <1>5 DEF d, l

\* receiveSPacket moves tags up only.
LEMMA ReceivedSound ==
  ASSUME NEW s \in Sound, NEW lengths \in [Apps -> Nat]
  PROVE  Received(s, lengths) \in Sound /\ Received(s, lengths).vtime = s.vtime
<1> DEFINE t == Received(s, lengths)
           c(a) == Charge(a, lengths[a])
<1>1. s \in Scheduler /\ Ordered(s) /\ FrontsAhead(s)
  BY DEF Sound
<1>2. /\ s.waitQ \in [Apps -> Seq(Job)] /\ s.maxftags \in [Apps -> Nat] /\ s.vtime \in Nat
  BY <1>1 DEF Scheduler
<1>3. \A a \in Apps : c(a) \in Nat
  BY DSFQAssumption DEF Charge
<1> HIDE DEF c
<1>4. ASSUME NEW a \in Apps, Backlogged(s, a)
      PROVE  /\ DelayFirst(s.waitQ[a], c(a)) \in Seq(Job)
             /\ ProlongLast(s.waitQ[a], c(a)) \in Seq(Job)
             /\ \A k \in DOMAIN s.waitQ[a] :
                  /\ DelayFirst(s.waitQ[a], c(a))[k].ftag
                       >= DelayFirst(s.waitQ[a], c(a))[k].stag
                  /\ ProlongLast(s.waitQ[a], c(a))[k].ftag
                       >= ProlongLast(s.waitQ[a], c(a))[k].stag
             /\ DelayFirst(s.waitQ[a], c(a))[1].stag >= FrontTag(s, a)
             /\ ProlongLast(s.waitQ[a], c(a))[1].stag >= FrontTag(s, a)
             /\ DOMAIN DelayFirst(s.waitQ[a], c(a)) = DOMAIN s.waitQ[a]
             /\ DOMAIN ProlongLast(s.waitQ[a], c(a)) = DOMAIN s.waitQ[a]
  <2> DEFINE w == s.waitQ[a]
             f == [w[1] EXCEPT !.stag = @ + c(a), !.ftag = @ + c(a)]
             l == [w[Len(w)] EXCEPT !.ftag = @ + c(a)]
  <2>1. w \in Seq(Job) /\ 1 \in DOMAIN w /\ Len(w) \in DOMAIN w /\ c(a) \in Nat
    BY <1>2, <1>3, <1>4 DEF Backlogged
  <2>2. \A k \in DOMAIN w : w[k] \in Job /\ w[k].ftag >= w[k].stag
    BY <1>1, <2>1 DEF Ordered
  <2>3. f \in Job /\ f.ftag >= f.stag /\ f.stag >= w[1].stag
    <3>1. w[1] \in Job /\ w[1].ftag >= w[1].stag
      BY <2>1, <2>2
    <3>2. QED
      BY <2>1, <3>1, DelayedJob
  <2>4. l \in Job /\ l.ftag >= l.stag /\ l.stag = w[Len(w)].stag
    <3>1. w[Len(w)] \in Job /\ w[Len(w)].ftag >= w[Len(w)].stag
      BY <2>1, <2>2
    <3>2. QED
      BY <2>1, <3>1, DelayedJob
  <2> DEFINE df == [w EXCEPT ![1] = f]
             pl == [w EXCEPT ![Len(w)] = l]
  <2>5. DelayFirst(w, c(a)) = df /\ ProlongLast(w, c(a)) = pl
    BY DEF DelayFirst, ProlongLast
  <2>6. w[1].stag = FrontTag(s, a) /\ w[1].stag \in Nat
    BY <2>1, <2>2 DEF FrontTag, Job
  <2> HIDE DEF f, l, w
  <2>7. df \in Seq(Job) /\ pl \in Seq(Job) /\ DOMAIN df = DOMAIN w /\ DOMAIN pl = DOMAIN w
    BY <2>1, <2>3, <2>4
  <2>8. \A k \in DOMAIN w : /\ df[k] = IF k = 1 THEN f ELSE w[k]
                            /\ pl[k] = IF k = Len(w) THEN l ELSE w[k]
    BY <2>1
  <2> HIDE DEF df, pl
  <2>9. \A k \in DOMAIN w : df[k].ftag >= df[k].stag /\ pl[k].ftag >= pl[k].stag
    BY <2>2, <2>3, <2>4, <2>8
  <2>10. df[1].stag >= w[1].stag /\ pl[1].stag >= w[1].stag
    <3>1. pl[1].stag = w[1].stag
      BY <2>1, <2>4, <2>8
    <3>2. QED
      BY <2>1, <2>3, <2>6, <2>8, <3>1
  <2>11. QED
    BY <2>5, <2>6, <2>7, <2>9, <2>10 DEF w
<1> DEFINE W == [a \in Apps |->
                   IF ~Backlogged(s, a) THEN <<>>
                   ELSE IF algorithm = "DSFQF" THEN DelayFirst(s.waitQ[a], c(a))
                   ELSE ProlongLast(s.waitQ[a], c(a))]
           M == [a \in Apps |-> IF Backlogged(s, a) THEN s.maxftags[a]
                                ELSE s.maxftags[a] + c(a)]
<1>5. t = [s EXCEPT !.maxftags = M, !.waitQ = W]
  BY DEF Received, c
<1>6. \A a \in Apps : /\ W[a] \in Seq(Job)
                      /\ \A k \in DOMAIN W[a] : W[a][k].ftag >= W[a][k].stag
                      /\ W[a] # <<>> => Backlogged(s, a) /\ W[a][1].stag >= FrontTag(s, a)
  <2> SUFFICES ASSUME NEW a \in Apps
               PROVE  /\ W[a] \in Seq(Job)
                      /\ \A k \in DOMAIN W[a] : W[a][k].ftag >= W[a][k].stag
                      /\ W[a] # <<>> => Backlogged(s, a) /\ W[a][1].stag >= FrontTag(s, a)
    OBVIOUS
  <2>1. CASE ~Backlogged(s, a)
    <3>1. W[a] = <<>>
      BY <2>1
    <3> HIDE DEF W
    <3>2. QED
      BY <3>1
  <2>2. CASE Backlogged(s, a)
    <3>1. W[a] = DelayFirst(s.waitQ[a], c(a)) \/ W[a] = ProlongLast(s.waitQ[a], c(a))
      BY <2>2
    <3> HIDE DEF W
    <3>2. QED
      BY <1>4, <2>2, <3>1
  <2>3. QED
    BY <2>1, <2>2
<1>7. W \in [Apps -> Seq(Job)]
  BY <1>6
<1>8. M \in [Apps -> Nat]
  BY <1>2, <1>3
<1> HIDE DEF W, M, t
<1>9. t \in Scheduler /\ t.waitQ = W /\ t.vtime = s.vtime
  BY <1>1, <1>5, <1>7, <1>8 DEF Scheduler
<1>10. Ordered(t)
  BY <1>6, <1>9 DEF Ordered
<1>11. FrontsAhead(t)
  <2> SUFFICES ASSUME NEW a \in Apps, Backlogged(t, a)
               PROVE  FrontTag(t, a) >= t.vtime
    BY DEF FrontsAhead
  <2>1. W[a] # <<>> /\ FrontTag(t, a) = W[a][1].stag
    BY <1>9 DEF Backlogged, FrontTag
  <2>2. Backlogged(s, a) /\ W[a][1].stag >= FrontTag(s, a) /\ FrontTag(s, a) >= s.vtime
    BY <1>1, <1>6, <2>1 DEF FrontsAhead
  <2>3. FrontTag(s, a) \in Nat /\ W[a][1].stag \in Nat
    <3>1. W[a][1] \in Job
      BY <1>6, <2>1
    <3>2. QED
      BY <1>1, <2>2, <3>1, FrontIsJob DEF Job
  <2>4. QED
    BY <1>2, <1>9, <2>1, <2>2, <2>3
<1>12. QED
  BY <1>9, <1>10, <1>11 DEF Sound, t

-----------------------------------------------------------------------------
(* Where the tags of an application end: what the jobs of its queue last.  *)

\* What each job of a list lasts, and what they last together.
Spans(w) == [k \in DOMAIN w |-> w[k].ftag - w[k].stag]
Span(w)  == Total(Spans(w), Len(w))

\* Where the tags of a queue end; m is the finish tag that it leaves behind when
\* it drains.
EndOf(w, m) == IF w # <<>> THEN w[1].stag + Span(w) ELSE m

\* Where the tags of a queue end, in terms of its jobs.
LEMMA EndTagIsEndOf ==
  ASSUME NEW s, NEW a
  PROVE  EndTag(s, a) = EndOf(s.waitQ[a], s.maxftags[a])
BY Zenon DEF EndTag, EndOf, Backlogged, FrontTag, Durations, Span, Spans

\* What the jobs of a queue last, one by one and together.
LEMMA SpanType ==
  ASSUME NEW w \in Seq(Job)
  PROVE  /\ Len(w) \in Nat /\ DOMAIN w = 1 .. Len(w)
         /\ \A k \in 1 .. Len(w) : /\ Spans(w)[k] = w[k].ftag - w[k].stag
                                   /\ Spans(w)[k] \in Int
         /\ Span(w) \in Int
<1>1. Len(w) \in Nat /\ DOMAIN w = 1 .. Len(w)
  OBVIOUS
<1>2. \A k \in 1 .. Len(w) : w[k] \in Job
  BY <1>1
<1>3. \A k \in 1 .. Len(w) : Spans(w)[k] = w[k].ftag - w[k].stag
  BY <1>1 DEF Spans
<1>4. \A k \in 1 .. Len(w) : Spans(w)[k] \in Int
  BY <1>2, <1>3 DEF Job
<1>5. Span(w) \in Int
  BY <1>1, <1>4, TotalType DEF Span
<1>6. QED
  BY <1>1, <1>3, <1>4, <1>5

\* Where the tags of a queue end is an integer.
LEMMA EndTagType ==
  ASSUME NEW s \in Scheduler, NEW a \in Apps
  PROVE  EndTag(s, a) \in Int
<1>1. s.waitQ[a] \in Seq(Job) /\ s.maxftags[a] \in Nat
  BY DEF Scheduler
<1>2. Span(s.waitQ[a]) \in Int
  BY <1>1, SpanType
<1>3. s.waitQ[a] # <<>> => s.waitQ[a][1].stag \in Nat
  <2>1. s.waitQ[a] # <<>> => s.waitQ[a][1] \in Job
    BY <1>1
  <2>2. QED
    BY <2>1 DEF Job
<1>4. QED
  BY <1>1, <1>2, <1>3, EndTagIsEndOf DEF EndOf

\* A job more lasts as long as it lasts.
LEMMA SpanOfAppend ==
  ASSUME NEW w \in Seq(Job), NEW j \in Job
  PROVE  Span(Append(w, j)) = Span(w) + (j.ftag - j.stag)
<1> DEFINE v == Append(w, j)
           n == Len(w)
<1>1. v \in Seq(Job) /\ Len(v) = n + 1 /\ v[n+1] = j /\ \A k \in 1 .. n : v[k] = w[k]
  OBVIOUS
<1>2. n \in Nat /\ \A k \in 1 .. n : /\ Spans(w)[k] = w[k].ftag - w[k].stag
                                     /\ Spans(w)[k] \in Int
  BY SpanType
<1> HIDE DEF v
<1>3. \A k \in 1 .. n + 1 : Spans(v)[k] = v[k].ftag - v[k].stag
  BY <1>1, SpanType
<1> HIDE DEF n
<1>4. \A k \in 1 .. n : Spans(v)[k] = Spans(w)[k]
  BY <1>1, <1>2, <1>3
<1>5. Total(Spans(v), n) = Total(Spans(w), n)
  BY <1>2, <1>4, TotalSame
<1>6. Total(Spans(v), n + 1) = Total(Spans(v), n) + Spans(v)[n+1]
  BY <1>2, TotalDef
<1>7. Spans(v)[n+1] = j.ftag - j.stag
  BY <1>1, <1>2, <1>3
<1>8. Span(v) = Total(Spans(v), n + 1) /\ Span(w) = Total(Spans(w), n)
  BY <1>1 DEF Span, n
<1>9. QED
  BY <1>5, <1>6, <1>7, <1>8 DEF v

\* A job lasts as long when dispatchNext moves it to the front.
LEMMA SpanOfNext ==
  ASSUME NEW w \in Seq(Job), w # <<>>,
         \A k \in DOMAIN w : w[k].ftag >= w[k].stag
  PROVE  LET rest == Tail(w)
             new  == IF rest = <<>> THEN <<>> ELSE [rest EXCEPT ![1] = Retagged(w[1], rest[1])]
         IN  /\ new \in Seq(Job)
             /\ new = <<>> => Span(w) = w[1].ftag - w[1].stag
             /\ new # <<>> => /\ new[1].stag = w[1].ftag
                              /\ Span(w) = (w[1].ftag - w[1].stag) + Span(new)
<1> DEFINE rest == Tail(w)
           r   == Retagged(w[1], rest[1])
           new == IF rest = <<>> THEN <<>> ELSE [rest EXCEPT ![1] = r]
           n   == Len(w)
<1>1. n \in Nat \ {0} /\ w[1] \in Job /\ 1 \in 1 .. n /\ 1 \in DOMAIN w
  OBVIOUS
<1>2. rest \in Seq(Job) /\ Len(rest) = n - 1
      /\ \A k \in 1 .. n - 1 : k + 1 \in DOMAIN w /\ rest[k] = w[k+1]
  <2>1. /\ rest \in Seq(Job) /\ Len(rest) = n - 1
        /\ \A k \in DOMAIN rest : k + 1 \in DOMAIN w /\ rest[k] = w[k+1]
    BY TailElements
  <2>2. DOMAIN rest = 1 .. n - 1
    BY <2>1
  <2>3. QED
    BY <2>1, <2>2
<1>3. \A k \in 1 .. n : Spans(w)[k] = w[k].ftag - w[k].stag /\ Spans(w)[k] \in Int
  BY SpanType
<1>4. ASSUME rest = <<>>
      PROVE  new = <<>> /\ Span(w) = w[1].ftag - w[1].stag
  <2>1. n = 1
    BY <1>1, <1>2, <1>4
  <2>2. Total(Spans(w), 0) = 0 /\ Total(Spans(w), 0 + 1) = Total(Spans(w), 0) + Spans(w)[0 + 1]
    BY TotalDef
  <2>3. 0 + 1 = 1
    OBVIOUS
  <2>4. Total(Spans(w), 1) = Spans(w)[1]
    BY <1>1, <1>3, <2>2, <2>3
  <2>5. QED
    BY <1>1, <1>3, <1>4, <2>1, <2>4 DEF Span
<1>5. ASSUME rest # <<>>
      PROVE  /\ new \in Seq(Job) /\ new # <<>> /\ new[1].stag = w[1].ftag
             /\ Span(w) = (w[1].ftag - w[1].stag) + Span(new)
  <2>1. 1 \in DOMAIN rest /\ rest[1] \in Job /\ rest[1] = w[2] /\ rest[1].ftag >= rest[1].stag
    <3>1. 1 \in DOMAIN rest /\ 1 \in 1 .. n - 1 /\ 1 + 1 = 2
      BY <1>1, <1>2, <1>5
    <3>2. rest[1] = w[2] /\ 2 \in DOMAIN w /\ rest[1] \in Job
      BY <1>2, <3>1
    <3>3. QED
      BY <3>1, <3>2
  <2>2. r \in Job /\ r.stag = w[1].ftag /\ r.ftag = rest[1].ftag + (w[1].ftag - rest[1].stag)
    BY <1>1, <2>1, RetaggedType
  <2>3. r.ftag - r.stag = rest[1].ftag - rest[1].stag
    BY <1>1, <2>1, <2>2 DEF Job
  <2> HIDE DEF r, rest
  <2>4. /\ new \in Seq(Job) /\ Len(new) = n - 1 /\ new # <<>>
        /\ \A k \in 1 .. n - 1 : new[k] = IF k = 1 THEN r ELSE rest[k]
    BY <1>2, <1>5, <2>1, <2>2
  <2> HIDE DEF new
  <2>5. \A k \in 1 .. n - 1 : Spans(new)[k] = new[k].ftag - new[k].stag
    BY <2>4, SpanType
  <2>6. \A k \in 1 .. n - 1 : Spans(new)[k] = Spans(w)[k+1]
    <3> SUFFICES ASSUME NEW k \in 1 .. n - 1
                 PROVE  Spans(new)[k] = Spans(w)[k+1]
      OBVIOUS
    <3>1. k + 1 \in 1 .. n
      BY <1>1
    <3>2. Spans(w)[k+1] = rest[k].ftag - rest[k].stag
      BY <1>2, <1>3, <3>1
    <3>3. Spans(new)[k] = rest[k].ftag - rest[k].stag
      BY <2>3, <2>4, <2>5
    <3>4. QED
      BY <3>2, <3>3
  <2>7. Total(Spans(w), n) = Spans(w)[1] + Total(Spans(new), n - 1)
    <3> HIDE DEF n
    <3>1. QED
      BY <1>1, <1>3, <2>6, TotalOfTail
  <2>8. Span(w) = Total(Spans(w), n) /\ Span(new) = Total(Spans(new), n - 1)
    BY <2>4 DEF Span
  <2>9. QED
    BY <1>1, <1>3, <2>1, <2>2, <2>4, <2>7, <2>8
<1> HIDE DEF new
<1>6. QED
  <2>1. CASE rest = <<>>
    <3>1. <<>> \in Seq(Job)
      OBVIOUS
    <3>2. QED
      BY <1>4, <2>1, <3>1 DEF new
  <2>2. CASE rest # <<>>
    BY <1>5, <2>2 DEF new
  <2>3. QED
    BY <2>1, <2>2

\* receiveSPacket_InsertFront moves the first job, receiveSPacket_InsertBack makes the
\* last one longer.
LEMMA SpanOfReceived ==
  ASSUME NEW w \in Seq(Job), w # <<>>, NEW c \in Nat,
         \A k \in DOMAIN w : w[k].ftag >= w[k].stag
  PROVE  /\ DelayFirst(w, c) # <<>> /\ ProlongLast(w, c) # <<>>
         /\ DelayFirst(w, c)[1].stag = w[1].stag + c
         /\ Span(DelayFirst(w, c)) = Span(w)
         /\ ProlongLast(w, c)[1].stag = w[1].stag
         /\ Span(ProlongLast(w, c)) = Span(w) + c
<1> DEFINE n  == Len(w)
           f  == [w[1] EXCEPT !.stag = @ + c, !.ftag = @ + c]
           l  == [w[n] EXCEPT !.ftag = @ + c]
           df == [w EXCEPT ![1] = f]
           pl == [w EXCEPT ![n] = l]
<1>1. /\ n \in Nat \ {0} /\ DOMAIN w = 1 .. n /\ 1 \in 1 .. n /\ n \in 1 .. n
      /\ \A k \in 1 .. n : w[k] \in Job
  OBVIOUS
<1>2. /\ f \in Job /\ f.stag = w[1].stag + c /\ f.ftag = w[1].ftag + c
      /\ f.ftag - f.stag = w[1].ftag - w[1].stag
  <2>1. w[1] \in Job /\ w[1].ftag >= w[1].stag
    BY <1>1
  <2>2. f \in Job
    BY <2>1, DelayedJob
  <2>3. f.stag = w[1].stag + c /\ f.ftag = w[1].ftag + c
    BY <2>1 DEF Job
  <2>4. w[1].stag \in Nat /\ w[1].ftag \in Nat
    BY <2>1 DEF Job
  <2>5. QED
    BY <2>2, <2>3, <2>4
<1>3. /\ l \in Job /\ l.stag = w[n].stag /\ l.ftag = w[n].ftag + c
      /\ l.ftag - l.stag = (w[n].ftag - w[n].stag) + c
  <2>1. w[n] \in Job /\ w[n].ftag >= w[n].stag
    BY <1>1
  <2>2. l \in Job /\ l.stag = w[n].stag
    BY <2>1, DelayedJob
  <2>3. l.ftag = w[n].ftag + c
    BY <2>1 DEF Job
  <2>4. w[n].stag \in Nat /\ w[n].ftag \in Nat
    BY <2>1 DEF Job
  <2>5. QED
    BY <2>2, <2>3, <2>4
<1>4. DelayFirst(w, c) = df /\ ProlongLast(w, c) = pl
  BY DEF DelayFirst, ProlongLast
<1> HIDE DEF f, l
<1>5. /\ df \in Seq(Job) /\ Len(df) = n /\ df # <<>>
      /\ \A k \in 1 .. n : df[k] = IF k = 1 THEN f ELSE w[k]
  BY <1>1, <1>2
<1>6. /\ pl \in Seq(Job) /\ Len(pl) = n /\ pl # <<>>
      /\ \A k \in 1 .. n : pl[k] = IF k = n THEN l ELSE w[k]
  BY <1>1, <1>3
<1> HIDE DEF df, pl
<1>7. \A k \in 1 .. n : Spans(w)[k] = w[k].ftag - w[k].stag /\ Spans(w)[k] \in Int
  BY SpanType
<1>8. Span(df) = Span(w)
  <2>1. \A k \in 1 .. n : Spans(df)[k] = df[k].ftag - df[k].stag
    BY <1>5, SpanType
  <2>2. \A k \in 1 .. n : Spans(w)[k] \in Int /\ Spans(df)[k] = Spans(w)[k]
    BY <1>2, <1>5, <1>7, <2>1
  <2> HIDE DEF n
  <2>3. Total(Spans(df), n) = Total(Spans(w), n)
    BY <1>1, <2>2, TotalSame
  <2>4. QED
    BY <1>5, <2>3 DEF Span, n
<1>9. Span(pl) = Span(w) + c
  <2>1. \A k \in 1 .. n : Spans(pl)[k] = pl[k].ftag - pl[k].stag /\ Spans(pl)[k] \in Int
    BY <1>6, SpanType
  <2> HIDE DEF n
  <2>2. \A k \in 1 .. n : k # n => Spans(pl)[k] = Spans(w)[k]
    BY <1>6, <1>7, <2>1
  <2>3. Total(Spans(pl), n) = Total(Spans(w), n) + (Spans(pl)[n] - Spans(w)[n])
    BY <1>1, <1>7, <2>1, <2>2, TotalChanged
  <2>4. Spans(pl)[n] = l.ftag - l.stag /\ Spans(w)[n] = w[n].ftag - w[n].stag
        /\ Spans(w)[n] \in Int
    BY <1>1, <1>6, <1>7, <2>1
  <2>5. Spans(pl)[n] - Spans(w)[n] = c
    BY <1>3, <2>4
  <2>6. QED
    BY <1>6, <2>3, <2>5 DEF Span, n
<1>10. pl[1].stag = w[1].stag
  BY <1>1, <1>3, <1>6
<1>11. QED
  BY <1>1, <1>2, <1>4, <1>5, <1>6, <1>8, <1>9, <1>10

\* A push moves the end of the tags of its own application only, and forward.
LEMMA PushEndTag ==
  ASSUME NEW s \in Sound, NEW p \in Packet
  PROVE  /\ \A a \in Apps : a # p.app => EndTag(Pushed(s, p), a) = EndTag(s, a)
         /\ EndTag(Pushed(s, p), p.app) - EndTag(s, p.app) \in Nat
<1> DEFINE t == Pushed(s, p)
           b == p.app
           j == NewJob(s, p)
           w == s.waitQ[b]
<1>1. s \in Scheduler /\ s.waitQ \in [Apps -> Seq(Job)] /\ b \in Apps /\ p.size \in Sizes
  BY DEF Sound, Scheduler, Packet
<1>2. /\ t.maxftags = s.maxftags
      /\ t.waitQ = [s.waitQ EXCEPT ![b] = Append(w, j)]
  BY <1>1, PushEffect
<1>3. j \in Job /\ j.stag = ArrivalTag(s, b) /\ j.ftag = ArrivalTag(s, b) + Charge(b, p.size)
      /\ ArrivalTag(s, b) \in Nat /\ Charge(b, p.size) \in Nat
  BY <1>1, NewJobType, ChargeInWindow
<1> HIDE DEF t, j
<1>4. ASSUME NEW a \in Apps, a # b
      PROVE  EndTag(t, a) = EndTag(s, a)
  <2>1. t.waitQ[a] = s.waitQ[a]
    BY <1>1, <1>2, <1>4
  <2>2. QED
    BY <1>2, <2>1, EndTagIsEndOf
<1>5. EndTag(t, b) - EndTag(s, b) \in Nat
  <2>1. t.waitQ[b] = Append(w, j) /\ w \in Seq(Job)
    BY <1>1, <1>2
  <2>2. Span(Append(w, j)) = Span(w) + (j.ftag - j.stag) /\ Span(w) \in Int
    BY <1>3, <2>1, SpanOfAppend, SpanType
  <2>3. EndTag(t, b) = EndOf(Append(w, j), s.maxftags[b]) /\ EndTag(s, b) = EndOf(w, s.maxftags[b])
    BY <1>2, <2>1, EndTagIsEndOf
  <2>4. Append(w, j) # <<>>
    BY <1>3, <2>1
  <2>5. j.ftag - j.stag = Charge(b, p.size)
    BY <1>3
  <2>6. CASE w # <<>>
    <3>1. Append(w, j)[1] = w[1] /\ w[1] \in Job
      BY <1>3, <2>1, <2>6
    <3>2. w[1].stag \in Nat
      BY <3>1 DEF Job
    <3> HIDE DEF w
    <3>3. QED
      BY <1>3, <2>2, <2>3, <2>4, <2>5, <2>6, <3>1, <3>2 DEF EndOf
  <2>7. CASE w = <<>>
    <3>1. Append(w, j)[1] = j
      BY <1>3, <2>7
    <3>2. Span(w) = 0
      <4>1. Len(w) = 0
        BY <2>7
      <4>2. QED
        BY <4>1, TotalDef DEF Span
    <3>3. s.maxftags[b] \in Nat /\ s.vtime \in Nat
      BY <1>1 DEF Scheduler
    <3>4. ArrivalTag(s, b) >= s.maxftags[b]
      BY <2>7, <3>3 DEF ArrivalTag, Backlogged
    <3> HIDE DEF w
    <3>5. EndTag(t, b) = ArrivalTag(s, b) + (0 + Charge(b, p.size))
          /\ EndTag(s, b) = s.maxftags[b]
      BY <1>3, <2>2, <2>3, <2>4, <2>5, <2>7, <3>1, <3>2 DEF EndOf
    <3>6. QED
      BY <1>3, <3>3, <3>4, <3>5
  <2>8. QED
    BY <2>6, <2>7
<1>6. QED
  BY <1>4, <1>5 DEF t

\* dispatchNext rewrites tags, but moves the end of none.
LEMMA DispatchEndTag ==
  ASSUME NEW s \in Sound, NEW a \in Apps, Backlogged(s, a), NEW b \in Apps
  PROVE  EndTag(Dispatched(s, a), b) = EndTag(s, b)
<1> DEFINE w    == s.waitQ[a]
           rest == Tail(w)
           new  == IF rest = <<>> THEN <<>> ELSE [rest EXCEPT ![1] = Retagged(w[1], rest[1])]
           d    == Dispatched(s, a)
<1>1. /\ s \in Scheduler /\ Ordered(s)
      /\ s.waitQ \in [Apps -> Seq(Job)] /\ s.maxftags \in [Apps -> Nat]
      /\ w \in Seq(Job) /\ w # <<>>
  BY DEF Sound, Scheduler, Backlogged
<1>2. /\ d.waitQ = [s.waitQ EXCEPT ![a] = new]
      /\ d.maxftags = IF rest = <<>> THEN [s.maxftags EXCEPT ![a] = w[1].ftag] ELSE s.maxftags
      /\ w[1] \in Job
  BY <1>1, DispatchEffect DEF Ordered
<1>3. /\ new \in Seq(Job)
      /\ new = <<>> => Span(w) = w[1].ftag - w[1].stag
      /\ new # <<>> => /\ new[1].stag = w[1].ftag
                       /\ Span(w) = (w[1].ftag - w[1].stag) + Span(new)
  BY <1>1, SpanOfNext DEF Ordered
<1>4. new = <<>> <=> rest = <<>>
  <2>1. rest # <<>> => [rest EXCEPT ![1] = Retagged(w[1], rest[1])] # <<>>
    <3>1. rest \in Seq(Job)
      BY <1>1
    <3>2. rest # <<>> => DOMAIN rest # {}
      BY <3>1
    <3>3. DOMAIN <<>> = {}
      OBVIOUS
    <3>4. QED
      BY <3>2, <3>3
  <2>2. QED
    BY <2>1
<1> HIDE DEF d, new, rest
<1>5. d.waitQ[b] = IF b = a THEN new ELSE s.waitQ[b]
  BY <1>1, <1>2
<1>6. d.maxftags[b] = IF rest = <<>> /\ b = a THEN w[1].ftag ELSE s.maxftags[b]
  BY <1>1, <1>2
<1>7. CASE b # a
  BY <1>5, <1>6, <1>7, EndTagIsEndOf DEF d
<1>8. CASE b = a
  <2>1. EndTag(d, b) = EndOf(new, d.maxftags[b]) /\ EndTag(s, b) = EndOf(w, s.maxftags[b])
    BY <1>5, <1>8, EndTagIsEndOf
  <2>2. EndTag(s, b) = w[1].stag + Span(w)
    BY <1>1, <2>1 DEF EndOf
  <2>3. Span(w) \in Int /\ Span(new) \in Int /\ w[1].stag \in Nat /\ w[1].ftag \in Nat
    BY <1>1, <1>2, <1>3, SpanType DEF Job
  <2> HIDE DEF w
  <2>4. CASE new = <<>>
    <3>1. EndTag(d, b) = w[1].ftag
      BY <1>4, <1>6, <1>8, <2>1, <2>4 DEF EndOf
    <3>2. QED
      BY <1>3, <2>2, <2>3, <2>4, <3>1 DEF d
  <2>5. CASE new # <<>>
    <3>1. EndTag(d, b) = new[1].stag + Span(new)
      BY <2>1, <2>5 DEF EndOf
    <3>2. QED
      BY <1>3, <2>2, <2>3, <2>5, <3>1 DEF d
  <2>6. QED
    BY <2>4, <2>5
<1>9. QED
  BY <1>7, <1>8

\* popOsQ moves the end of none.
LEMMA PopEndTag ==
  ASSUME NEW s \in Sound, NEW k \in DOMAIN s.osQ, NEW a \in Apps
  PROVE  EndTag(Popped(s, k), a) = EndTag(s, a)
<1>1. Popped(s, k).waitQ = s.waitQ /\ Popped(s, k).maxftags = s.maxftags
  BY PopEffect DEF Sound
<1>2. QED
  BY <1>1, EndTagIsEndOf

\* receiveSPacket moves the end of the tags of every application by the charge for what
\* it received, whether the queue has drained or not.
LEMMA ReceivedEndTag ==
  ASSUME NEW s \in Sound, NEW lengths \in [Apps -> Nat], NEW a \in Apps
  PROVE  EndTag(Received(s, lengths), a) = EndTag(s, a) + Charge(a, lengths[a])
<1> DEFINE t == Received(s, lengths)
           c == Charge(a, lengths[a])
           w == s.waitQ[a]
           m == s.maxftags[a]
<1>1. /\ s \in Scheduler /\ Ordered(s) /\ w \in Seq(Job) /\ m \in Nat
  BY DEF Sound, Scheduler
<1>2. c \in Nat
  BY DSFQAssumption DEF Charge
<1>3. /\ t.waitQ[a] = IF ~Backlogged(s, a) THEN <<>>
                      ELSE IF algorithm = "DSFQF" THEN DelayFirst(w, c) ELSE ProlongLast(w, c)
      /\ t.maxftags[a] = IF Backlogged(s, a) THEN m ELSE m + c
  <2> DEFINE W == [b \in Apps |->
                     IF ~Backlogged(s, b) THEN <<>>
                     ELSE IF algorithm = "DSFQF"
                     THEN DelayFirst(s.waitQ[b], Charge(b, lengths[b]))
                     ELSE ProlongLast(s.waitQ[b], Charge(b, lengths[b]))]
             M == [b \in Apps |-> IF Backlogged(s, b) THEN s.maxftags[b]
                                  ELSE s.maxftags[b] + Charge(b, lengths[b])]
  <2>1. t = [s EXCEPT !.maxftags = M, !.waitQ = W]
    BY DEF Received
  <2>2. /\ W[a] = IF ~Backlogged(s, a) THEN <<>>
                  ELSE IF algorithm = "DSFQF" THEN DelayFirst(w, c) ELSE ProlongLast(w, c)
        /\ M[a] = IF Backlogged(s, a) THEN m ELSE m + c
    OBVIOUS
  <2> HIDE DEF W, M, t
  <2>3. t.waitQ = W /\ t.maxftags = M
    BY <1>1, <2>1 DEF Scheduler
  <2>4. QED
    BY <2>2, <2>3
<1>4. EndTag(t, a) = EndOf(t.waitQ[a], t.maxftags[a]) /\ EndTag(s, a) = EndOf(w, m)
  BY EndTagIsEndOf
<1> HIDE DEF t, c
<1>5. CASE ~Backlogged(s, a)
  BY <1>3, <1>4, <1>5 DEF Backlogged, EndOf, t, c
<1>6. CASE Backlogged(s, a)
  <2>1. w # <<>>
    BY <1>6 DEF Backlogged
  <2>2. /\ DelayFirst(w, c) # <<>> /\ ProlongLast(w, c) # <<>>
        /\ DelayFirst(w, c)[1].stag = w[1].stag + c
        /\ Span(DelayFirst(w, c)) = Span(w)
        /\ ProlongLast(w, c)[1].stag = w[1].stag
        /\ Span(ProlongLast(w, c)) = Span(w) + c
    BY <1>1, <1>2, <2>1, SpanOfReceived DEF Ordered
  <2>3. Span(w) \in Int /\ w[1].stag \in Nat
    <3>1. w[1] \in Job
      BY <1>1, <2>1
    <3>2. QED
      BY <1>1, <3>1, SpanType DEF Job
  <2>4. EndTag(s, a) = w[1].stag + Span(w)
    BY <1>4, <2>1 DEF EndOf
  <2> HIDE DEF w
  <2>5. CASE algorithm = "DSFQF"
    <3>1. EndTag(t, a) = (w[1].stag + c) + Span(w)
      BY <1>3, <1>4, <1>6, <2>2, <2>5 DEF EndOf
    <3>2. QED
      BY <1>2, <2>3, <2>4, <3>1 DEF t, c
  <2>6. CASE algorithm # "DSFQF"
    <3>1. EndTag(t, a) = w[1].stag + (Span(w) + c)
      BY <1>3, <1>4, <1>6, <2>2, <2>6 DEF EndOf
    <3>2. QED
      BY <1>2, <2>3, <2>4, <3>1 DEF t, c
  <2>7. QED
    BY <2>5, <2>6
<1>7. QED
  BY <1>5, <1>6

-----------------------------------------------------------------------------
(* The work that is outstanding at the data server.                        *)

\* What each outstanding job adds to the work of an application.
Loads(jobs, a) == [k \in DOMAIN jobs |-> IF jobs[k].pkt.app = a THEN jobs[k].pkt.size ELSE 0]

\* What a packet adds to the work of an application.
SizeFor(p, a) == IF a = p.app THEN p.size ELSE 0

\* The size of a packet for an application is a natural number.
LEMMA SizeForType ==
  ASSUME NEW p \in Packet, NEW a \in Apps
  PROVE  SizeFor(p, a) \in Nat
BY DSFQAssumption DEF SizeFor, Packet

\* The sizes of the jobs outstanding, one by one and together.
LEMMA OutstandingType ==
  ASSUME NEW s \in Scheduler, NEW a \in Apps
  PROVE  /\ Len(s.osQ) \in Nat /\ DOMAIN s.osQ = 1 .. Len(s.osQ)
         /\ \A k \in 1 .. Len(s.osQ) : /\ s.osQ[k] \in Job
                                       /\ Loads(s.osQ, a)[k] = SizeFor(s.osQ[k].pkt, a)
                                       /\ Loads(s.osQ, a)[k] \in Nat
         /\ OutstandingSize(s, a) = Total(Loads(s.osQ, a), Len(s.osQ))
         /\ OutstandingSize(s, a) \in Nat
<1>1. s.osQ \in Seq(Job)
  BY DEF Scheduler
<1>2. Len(s.osQ) \in Nat /\ DOMAIN s.osQ = 1 .. Len(s.osQ)
      /\ \A k \in 1 .. Len(s.osQ) : s.osQ[k] \in Job
  BY <1>1
<1>3. ASSUME NEW k \in 1 .. Len(s.osQ)
      PROVE  Loads(s.osQ, a)[k] = SizeFor(s.osQ[k].pkt, a) /\ Loads(s.osQ, a)[k] \in Nat
  <2>1. s.osQ[k].pkt \in Packet
    BY <1>2 DEF Job
  <2>2. Loads(s.osQ, a)[k] = SizeFor(s.osQ[k].pkt, a)
    BY <1>2 DEF Loads, SizeFor
  <2>3. QED
    BY <2>1, <2>2, SizeForType
<1>4. OutstandingSize(s, a) = Total(Loads(s.osQ, a), Len(s.osQ))
  BY DEF OutstandingSize, Loads
<1>5. OutstandingSize(s, a) \in Nat
  BY <1>2, <1>3, <1>4, TotalType
<1>6. QED
  BY <1>2, <1>3, <1>4, <1>5

\* dispatchNext adds the packet it returns.
LEMMA DispatchOutstanding ==
  ASSUME NEW s \in Sound, NEW a \in Apps, CanDispatch(s, a), NEW b \in Apps
  PROVE  /\ Head(s.waitQ[a]).pkt \in Packet
         /\ OutstandingSize(Dispatched(s, a), b)
              = OutstandingSize(s, b) + SizeFor(Head(s.waitQ[a]).pkt, b)
<1> DEFINE j == Head(s.waitQ[a])
           d == Dispatched(s, a)
           n == Len(s.osQ)
<1>1. /\ s \in Scheduler /\ s.osQ \in Seq(Job) /\ s.waitQ[a] \in Seq(Job) /\ s.waitQ[a] # <<>>
  BY DEF Sound, Scheduler, CanDispatch, IsNext, Backlogged
<1>2. j \in Job
  BY <1>1
<1>3. j.pkt \in Packet
  BY <1>2 DEF Job
<1>4. d \in Scheduler /\ d.osQ = Append(s.osQ, j)
  BY DispatchSound DEF Sound, Dispatched
<1> HIDE DEF j, d
<1>5. Len(d.osQ) = n + 1 /\ d.osQ[n+1] = j /\ \A k \in 1 .. n : d.osQ[k] = s.osQ[k]
  BY <1>1, <1>2, <1>4
<1>6. /\ n \in Nat
      /\ \A k \in 1 .. n : /\ Loads(s.osQ, b)[k] = SizeFor(s.osQ[k].pkt, b)
                           /\ Loads(s.osQ, b)[k] \in Nat
      /\ OutstandingSize(s, b) = Total(Loads(s.osQ, b), n)
  BY <1>1, OutstandingType
<1>7. /\ \A k \in 1 .. n + 1 : Loads(d.osQ, b)[k] = SizeFor(d.osQ[k].pkt, b)
      /\ OutstandingSize(d, b) = Total(Loads(d.osQ, b), n + 1)
  BY <1>4, <1>5, OutstandingType
<1> HIDE DEF n
<1>8. \A k \in 1 .. n : Loads(s.osQ, b)[k] \in Int /\ Loads(d.osQ, b)[k] = Loads(s.osQ, b)[k]
  BY <1>5, <1>6, <1>7
<1>9. Total(Loads(d.osQ, b), n) = Total(Loads(s.osQ, b), n)
  BY <1>6, <1>8, TotalSame
<1>10. Total(Loads(d.osQ, b), n + 1) = Total(Loads(d.osQ, b), n) + Loads(d.osQ, b)[n+1]
  BY <1>6, TotalDef
<1>11. Loads(d.osQ, b)[n+1] = SizeFor(j.pkt, b)
  BY <1>5, <1>6, <1>7
<1>12. QED
  BY <1>3, <1>6, <1>7, <1>9, <1>10, <1>11 DEF j, d

-----------------------------------------------------------------------------
(* The nodes: what waits to be propagated between two handlers.            *)

\* What a node may keep to itself, by the variant.
WithinBound(n) ==
  /\ algorithm \in {"DSFQA", "DSFQD", "DSFQF"} => n.lengths = NoLengths /\ n.active = FALSE
  /\ algorithm = "DSFQALB" => /\ n.active = FALSE
                             /\ \A a \in Apps : n.lengths[a] < LoadThreshold
  /\ algorithm = "DSFQATB" => \A a \in Apps : n.lengths[a] > 0 => n.active

\* The nodes between two handlers.
Resting == {n \in Node : n.sch \in Sound /\ WithinBound(n)}

\* Adding a packet to the pending lengths.
LEMMA CountedEffect ==
  ASSUME NEW n \in Node, NEW p \in Packet, NEW b \in BOOLEAN
  PROVE  /\ Counted(n, p, b) \in Node
         /\ Counted(n, p, b).sch = n.sch
         /\ Counted(n, p, b).active = (n.active \/ b)
         /\ Counted(n, p, b).out = n.out
         /\ \A a \in Apps : Counted(n, p, b).lengths[a] =
              IF a = p.app THEN n.lengths[a] + p.size ELSE n.lengths[a]
<1> DEFINE L == [n.lengths EXCEPT ![p.app] = n.lengths[p.app] + p.size]
           B == n.active \/ b
<1>1. /\ n.lengths \in [Apps -> Nat] /\ n.active \in BOOLEAN /\ n.sch \in Scheduler
      /\ n.out \in Seq([Apps -> Nat]) /\ p.app \in Apps /\ p.size \in Nat
      /\ n = [sch |-> n.sch, lengths |-> n.lengths, active |-> n.active, out |-> n.out]
  BY DSFQAssumption DEF Node, Packet
<1>2. /\ L \in [Apps -> Nat] /\ B \in BOOLEAN
      /\ \A a \in Apps : L[a] = IF a = p.app THEN n.lengths[a] + p.size ELSE n.lengths[a]
  BY <1>1
<1> HIDE DEF L, B
<1> DEFINE m == [n EXCEPT !.lengths = L]
<1>3. /\ m \in Node /\ m.sch = n.sch /\ m.lengths = L /\ m.active = n.active
      /\ m.out = n.out
  BY <1>2 DEF Node
<1>4. Counted(n, p, b) = [m EXCEPT !.active = B]
  <2>1. m = [n EXCEPT !.lengths[p.app] = n.lengths[p.app] + p.size]
    BY DEF L
  <2>2. QED
    BY <2>1, <1>3, Zenon DEF Counted, B, L
<1> HIDE DEF m
<1>5. /\ [m EXCEPT !.active = B] \in Node /\ [m EXCEPT !.active = B].sch = m.sch
      /\ [m EXCEPT !.active = B].lengths = m.lengths /\ [m EXCEPT !.active = B].active = B
      /\ [m EXCEPT !.active = B].out = m.out
  BY <1>2, <1>3 DEF Node
<1>6. QED
  BY <1>2, <1>3, <1>4, <1>5 DEF B

\* propagateSPackets leaves nothing active.
LEMMA PropagatedEffect ==
  ASSUME NEW n \in Node
  PROVE  /\ Propagated(n) \in Node
         /\ Propagated(n).sch = n.sch
         /\ Propagated(n).active = FALSE
         /\ Propagated(n).lengths = IF n.active THEN NoLengths ELSE n.lengths
         /\ Propagated(n).out = IF n.active THEN Append(n.out, n.lengths) ELSE n.out
<1>1. /\ n.lengths \in [Apps -> Nat] /\ n.active \in BOOLEAN /\ n.sch \in Scheduler
      /\ n.out \in Seq([Apps -> Nat])
      /\ n = [sch |-> n.sch, lengths |-> n.lengths, active |-> n.active, out |-> n.out]
  BY DEF Node
<1>2. CASE n.active
  <2> DEFINE O == Append(n.out, n.lengths)
  <2>1. O \in Seq([Apps -> Nat]) /\ NoLengths \in [Apps -> Nat]
    BY <1>1 DEF NoLengths
  <2> HIDE DEF O
  <2>2. Propagated(n) = [sch |-> n.sch, lengths |-> NoLengths, active |-> FALSE, out |-> O]
    BY <1>1, <1>2 DEF Propagated, O
  <2>3. QED
    BY <1>1, <1>2, <2>1, <2>2 DEF Node, O
<1>3. CASE ~n.active
  BY <1>1, <1>3 DEF Propagated
<1>4. QED
  BY <1>2, <1>3

\* Replacing the scheduler of a node.
LEMMA NewScheduler ==
  ASSUME NEW n \in Node, NEW s \in Scheduler
  PROVE  /\ [n EXCEPT !.sch = s] \in Node
         /\ [n EXCEPT !.sch = s].sch = s
         /\ [n EXCEPT !.sch = s].lengths = n.lengths
         /\ [n EXCEPT !.sch = s].active = n.active
         /\ [n EXCEPT !.sch = s].out = n.out
BY DEF Node

\* A node with nothing pending.
LEMMA NothingPending ==
  ASSUME NEW n \in Node, n.sch \in Sound, n.active = FALSE, n.lengths = NoLengths
  PROVE  n \in Resting
<1>1. \A a \in Apps : n.lengths[a] = 0 /\ 0 < LoadThreshold /\ ~(0 > 0)
  BY DSFQAssumption DEF NoLengths
<1>2. WithinBound(n)
  BY <1>1 DEF WithinBound
<1>3. QED
  BY <1>2 DEF Resting

\* One turn of the loop of scheduleJobs: a dispatch is propagated at once (DSFQD).
LEMMA OneMoreKeeps ==
  ASSUME NEW n \in Resting, algorithm \in Algorithms
  PROVE  OneMore(n) \in Resting /\ OneMore(n).sch.vtime >= n.sch.vtime
<1>1. n \in Node /\ n.sch \in Sound /\ WithinBound(n)
  BY DEF Resting
<1>2. n.sch.vtime \in Nat
  BY <1>1 DEF Sound, Scheduler
<1>3. CASE ~\E a \in Apps : CanDispatch(n.sch, a)
  BY <1>2, <1>3 DEF OneMore
<1>4. CASE \E a \in Apps : CanDispatch(n.sch, a)
  <2> DEFINE a == CHOOSE a \in Apps : CanDispatch(n.sch, a)
             p == Head(n.sch.waitQ[a]).pkt
             m == [n EXCEPT !.sch = Dispatched(n.sch, a)]
  <2>1. a \in Apps /\ CanDispatch(n.sch, a)
    BY <1>4, Zenon
  <2>2. OneMore(n) = NodeDispatch(n, a)
    BY <1>4 DEF OneMore
  <2> HIDE DEF a
  <2>3. Dispatched(n.sch, a) \in Sound /\ Dispatched(n.sch, a).vtime >= n.sch.vtime
    BY <1>1, <2>1, DispatchSound
  <2>4. /\ m \in Node /\ m.sch = Dispatched(n.sch, a)
        /\ m.lengths = n.lengths /\ m.active = n.active
    BY <1>1, <2>3, NewScheduler DEF Sound
  <2>5. p \in Packet
    <3>1. n.sch.waitQ[a] \in Seq(Job) /\ n.sch.waitQ[a] # <<>>
      BY <1>1, <2>1 DEF Sound, Scheduler, CanDispatch, IsNext, Backlogged
    <3>2. Head(n.sch.waitQ[a]) \in Job
      BY <3>1
    <3>3. QED
      BY <3>2 DEF Job
  <2>6. NodeDispatch(n, a) = IF algorithm = "DSFQD" THEN Propagated(Counted(m, p, TRUE)) ELSE m
    BY DEF NodeDispatch
  <2> HIDE DEF m, p
  <2>7. CASE algorithm = "DSFQD"
    <3>1. /\ Counted(m, p, TRUE) \in Node /\ Counted(m, p, TRUE).sch = m.sch
          /\ Counted(m, p, TRUE).active
      BY <2>4, <2>5, CountedEffect
    <3>2. /\ NodeDispatch(n, a) \in Node /\ NodeDispatch(n, a).sch = m.sch
          /\ NodeDispatch(n, a).active = FALSE /\ NodeDispatch(n, a).lengths = NoLengths
      <4> DEFINE k == Counted(m, p, TRUE)
      <4>1. NodeDispatch(n, a) = Propagated(k)
        BY <2>6, <2>7
      <4>2. k \in Node /\ k.sch = m.sch /\ k.active
        BY <3>1
      <4> HIDE DEF k
      <4>3. QED
        BY <4>1, <4>2, PropagatedEffect
    <3>3. QED
      BY <2>2, <2>3, <2>4, <3>2, NothingPending
  <2>8. CASE algorithm # "DSFQD"
    <3>1. WithinBound(m)
      BY <1>1, <2>4 DEF WithinBound
    <3>2. QED
      BY <2>2, <2>3, <2>4, <2>6, <2>8, <3>1 DEF Resting
  <2>9. QED
    BY <2>7, <2>8
<1>5. QED
  BY <1>3, <1>4

\* scheduleJobs keeps a node at rest and never turns its virtual time back.
LEMMA ScheduleJobsRests ==
  ASSUME NEW n \in Resting, algorithm \in Algorithms
  PROVE  ScheduleJobs(n) \in Resting /\ ScheduleJobs(n).sch.vtime >= n.sch.vtime
<1> DEFINE N == {m \in Resting : m.sch.vtime >= n.sch.vtime}
<1>1. \A m \in Resting : m.sch.vtime \in Nat
  BY DEF Resting, Sound, Scheduler
<1>2. n \in N
  BY <1>1
<1>3. ASSUME NEW m \in N
      PROVE  OneMore(m) \in N
  <2>1. OneMore(m) \in Resting /\ OneMore(m).sch.vtime >= m.sch.vtime
    BY OneMoreKeeps
  <2>2. QED
    BY <1>1, <2>1
<1> HIDE DEF N
<1>4. ScheduleJobs(n) \in N
  BY <1>2, <1>3, ScheduleJobsKeeps
<1>5. QED
  BY <1>4 DEF N

\* pushWaitQ, and what the proxy propagates after it.
LEMMA PushRests ==
  ASSUME NEW n \in Resting, NEW p \in Packet, algorithm \in Algorithms
  PROVE  LET m == IF algorithm \in {"DSFQA", "DSFQALB"}
                  THEN Propagated(NodePush(n, p)) ELSE NodePush(n, p)
         IN  m \in Resting /\ m.sch.vtime = n.sch.vtime
<1> DEFINE s == Pushed(n.sch, p)
           k == [n EXCEPT !.sch = s]
           m == IF algorithm \in {"DSFQA", "DSFQALB"}
                THEN Propagated(NodePush(n, p)) ELSE NodePush(n, p)
<1>1. n \in Node /\ n.sch \in Sound /\ WithinBound(n)
  BY DEF Resting
<1>2. s \in Sound /\ s.vtime = n.sch.vtime
  BY <1>1, PushSound
<1>3. k \in Node /\ k.sch = s /\ k.lengths = n.lengths /\ k.active = n.active
  BY <1>1, <1>2, NewScheduler DEF Sound
<1>4. /\ n.lengths \in [Apps -> Nat] /\ n.active \in BOOLEAN
      /\ p.app \in Apps /\ p.size \in Nat /\ LoadThreshold \in Nat
  BY <1>1, DSFQAssumption DEF Node, Packet
<1> DEFINE over == k.lengths[p.app] + p.size >= LoadThreshold
<1>5. NodePush(n, p) = CASE algorithm \in {"DSFQA", "DSFQATB"} -> Counted(k, p, TRUE)
                         [] algorithm = "DSFQALB" -> Counted(k, p, over)
                         [] OTHER -> k
  BY DEF NodePush
<1> HIDE DEF s, k
<1>6. CASE algorithm = "DSFQA"
  <2>1. /\ Counted(k, p, TRUE) \in Node /\ Counted(k, p, TRUE).sch = s
        /\ Counted(k, p, TRUE).active
    BY <1>3, CountedEffect
  <2>2. m = Propagated(Counted(k, p, TRUE))
    BY <1>5, <1>6
  <2>3. m \in Node /\ m.sch = s /\ m.active = FALSE /\ m.lengths = NoLengths
    BY <2>1, <2>2, PropagatedEffect
  <2>4. QED
    BY <1>2, <2>3, NothingPending
<1>7. CASE algorithm = "DSFQATB"
  <2>1. /\ Counted(k, p, TRUE) \in Node /\ Counted(k, p, TRUE).sch = s
        /\ Counted(k, p, TRUE).active
    BY <1>3, CountedEffect
  <2>2. m = Counted(k, p, TRUE)
    BY <1>5, <1>7
  <2>3. WithinBound(m)
    BY <1>7, <2>1, <2>2 DEF WithinBound
  <2>4. QED
    BY <1>2, <2>1, <2>2, <2>3 DEF Resting
<1>8. CASE algorithm = "DSFQALB"
  <2> DEFINE c == Counted(k, p, over)
  <2>1. n.active = FALSE /\ \A a \in Apps : n.lengths[a] < LoadThreshold
    BY <1>1, <1>8 DEF WithinBound
  <2>2. over \in BOOLEAN
    OBVIOUS
  <2>3. /\ c \in Node /\ c.sch = s /\ c.active = over
        /\ \A a \in Apps : c.lengths[a] = IF a = p.app THEN n.lengths[a] + p.size
                                           ELSE n.lengths[a]
    <3> HIDE DEF over
    <3>1. c.active = (FALSE \/ over) /\ c \in Node /\ c.sch = s
          /\ \A a \in Apps : c.lengths[a] = IF a = p.app THEN n.lengths[a] + p.size
                                           ELSE n.lengths[a]
      BY <1>3, <2>1, <2>2, CountedEffect
    <3>2. QED
      BY <2>2, <3>1
  <2>4. m = Propagated(c)
    BY <1>5, <1>8
  <2> HIDE DEF c
  <2>5. /\ m \in Node /\ m.sch = s /\ m.active = FALSE
        /\ m.lengths = IF over THEN NoLengths ELSE c.lengths
    <3> HIDE DEF over, m
    <3>1. /\ Propagated(c) \in Node /\ Propagated(c).sch = c.sch
          /\ Propagated(c).active = FALSE
          /\ Propagated(c).lengths = IF c.active THEN NoLengths ELSE c.lengths
      BY <2>3, PropagatedEffect
    <3>2. QED
      BY <2>3, <2>4, <3>1
  <2>6. CASE over
    BY <1>2, <2>5, <2>6, NothingPending
  <2>7. CASE ~over
    <3>1. \A a \in Apps : c.lengths[a] < LoadThreshold
      BY <1>3, <1>4, <2>1, <2>3, <2>7
    <3>2. m.lengths = c.lengths
      BY <2>5, <2>7
    <3> HIDE DEF m
    <3>3. WithinBound(m)
      BY <1>8, <2>5, <3>1, <3>2 DEF WithinBound
    <3>4. QED
      BY <1>2, <2>5, <3>3 DEF Resting, m
  <2>8. QED
    BY <2>6, <2>7
<1>9. CASE algorithm \in {"DSFQD", "DSFQF"}
  <2>1. m = k
    BY <1>5, <1>9
  <2>2. WithinBound(k)
    BY <1>1, <1>3 DEF WithinBound
  <2>3. QED
    BY <1>2, <1>3, <2>1, <2>2 DEF Resting
<1>10. QED
  BY <1>6, <1>7, <1>8, <1>9, DSFQAssumption

\* popOsQ, and what the proxy propagates after it.
LEMMA PopRests ==
  ASSUME NEW n \in Resting, NEW k \in DOMAIN n.sch.osQ, algorithm \in Algorithms
  PROVE  LET m == IF algorithm = "DSFQF" THEN Propagated(NodePop(n, k)) ELSE NodePop(n, k)
         IN  m \in Resting /\ m.sch.vtime = n.sch.vtime
<1> DEFINE s == Popped(n.sch, k)
           q == [n EXCEPT !.sch = s]
           p == n.sch.osQ[k].pkt
           m == IF algorithm = "DSFQF" THEN Propagated(NodePop(n, k)) ELSE NodePop(n, k)
<1>1. n \in Node /\ n.sch \in Sound /\ WithinBound(n)
  BY DEF Resting
<1>2. s \in Sound /\ s.vtime = n.sch.vtime
  BY <1>1, PopSound
<1>3. q \in Node /\ q.sch = s /\ q.lengths = n.lengths /\ q.active = n.active
  BY <1>1, <1>2, NewScheduler DEF Sound
<1>4. p \in Packet
  <2>1. n.sch.osQ \in Seq(Job)
    BY <1>1 DEF Sound, Scheduler
  <2>2. n.sch.osQ[k] \in Job
    BY <2>1
  <2>3. QED
    BY <2>2 DEF Job
<1>5. NodePop(n, k) = IF algorithm = "DSFQF" THEN Counted(q, p, TRUE) ELSE q
  BY DEF NodePop
<1> HIDE DEF s, q, p
<1>6. CASE algorithm = "DSFQF"
  <2>1. /\ Counted(q, p, TRUE) \in Node /\ Counted(q, p, TRUE).sch = s
        /\ Counted(q, p, TRUE).active
    BY <1>3, <1>4, CountedEffect
  <2>2. m = Propagated(Counted(q, p, TRUE))
    BY <1>5, <1>6
  <2>3. m \in Node /\ m.sch = s /\ m.active = FALSE /\ m.lengths = NoLengths
    BY <2>1, <2>2, PropagatedEffect
  <2>4. QED
    BY <1>2, <2>3, NothingPending
<1>7. CASE algorithm # "DSFQF"
  <2>1. m = q
    BY <1>5, <1>7
  <2>2. WithinBound(q)
    BY <1>1, <1>3 DEF WithinBound
  <2>3. QED
    BY <1>2, <1>3, <2>1, <2>2 DEF Resting
<1>8. QED
  BY <1>6, <1>7

-----------------------------------------------------------------------------
(* The work that a node has counted and the others have not been told of.  *)

\* What a list of PROP_SCH packets tells of an application.
Carried(ls, a) == Total([k \in DOMAIN ls |-> ls[k][a]], Len(ls))

\* What a node keeps to itself, or has sent in the handler that is running.
Sent(n, a) == n.lengths[a] + Carried(n.out, a)

\* What dispatchNext does not change: it counts what it moves to the data server.
Balance(n, a) ==
  IF algorithm = "DSFQD" THEN Sent(n, a) - OutstandingSize(n.sch, a) ELSE Sent(n, a)

\* What packets carry for an application is a natural number.
LEMMA CarriedType ==
  ASSUME NEW ls \in Seq([Apps -> Nat]), NEW a \in Apps
  PROVE  Carried(ls, a) \in Nat
<1> DEFINE f == [k \in DOMAIN ls |-> ls[k][a]]
<1>1. Len(ls) \in Nat /\ \A k \in 1 .. Len(ls) : f[k] \in Nat
  OBVIOUS
<1> HIDE DEF f
<1>2. Total(f, Len(ls)) \in Nat
  BY <1>1, TotalType
<1>3. QED
  BY <1>2 DEF Carried, f

\* Two lists of packets carry what each of them does.
LEMMA CarriedOfConcat ==
  ASSUME NEW ls \in Seq([Apps -> Nat]), NEW ms \in Seq([Apps -> Nat]), NEW a \in Apps
  PROVE  Carried(ls \o ms, a) = Carried(ls, a) + Carried(ms, a)
<1> DEFINE hs == ls \o ms
           f == [k \in DOMAIN ls |-> ls[k][a]]
           g == [k \in DOMAIN ms |-> ms[k][a]]
           h == [k \in DOMAIN hs |-> hs[k][a]]
           m == Len(ls)
           n == Len(ms)
<1>1. /\ m \in Nat /\ n \in Nat /\ hs \in Seq([Apps -> Nat]) /\ Len(hs) = m + n
      /\ \A j \in 1 .. m : hs[j] = ls[j]
      /\ \A j \in 1 .. n : hs[m+j] = ms[j]
  OBVIOUS
<1> HIDE DEF hs
<1>2. /\ \A j \in 1 .. m : f[j] = ls[j][a] /\ f[j] \in Int
      /\ \A j \in 1 .. n : g[j] = ms[j][a] /\ g[j] \in Int
      /\ \A j \in 1 .. m + n : h[j] = hs[j][a]
  BY <1>1
<1>3. Carried(ls, a) = Total(f, m) /\ Carried(ms, a) = Total(g, n)
      /\ Carried(hs, a) = Total(h, m + n)
  BY <1>1 DEF Carried
<1> HIDE DEF f, g, h, m, n
<1>4. Joined(f, m, g, n, h)
  <2>1. ASSUME NEW j \in 1 .. m
        PROVE  f[j] \in Int /\ h[j] = f[j]
    <3>1. j \in 1 .. m + n
      BY <1>1
    <3>2. QED
      BY <1>1, <1>2, <3>1
  <2>2. ASSUME NEW j \in 1 .. n
        PROVE  g[j] \in Int /\ h[m+j] = g[j]
    <3>1. m + j \in 1 .. m + n
      BY <1>1
    <3>2. QED
      BY <1>1, <1>2, <3>1
  <2>3. QED
    BY <1>1, <2>1, <2>2 DEF Joined
<1>5. Total(h, m + n) = Total(f, m) + Total(g, n)
  BY <1>4, TotalOfConcat
<1>6. QED
  BY <1>3, <1>5 DEF hs

\* No packet carries nothing, one packet what it holds.
LEMMA CarriedOfOne ==
  ASSUME NEW l \in [Apps -> Nat], NEW a \in Apps
  PROVE  Carried(<<>>, a) = 0 /\ Carried(<<l>>, a) = l[a]
<1> DEFINE f == [k \in DOMAIN <<l>> |-> <<l>>[k][a]]
<1>1. Carried(<<>>, a) = 0
  <2>1. Len(<<>>) = 0
    OBVIOUS
  <2>2. QED
    BY <2>1, TotalDef DEF Carried
<1>2. f[1] = l[a] /\ Len(<<l>>) = 1 /\ l[a] \in Nat
  OBVIOUS
<1> HIDE DEF f
<1>3. Total(f, 0) = 0 /\ Total(f, 0 + 1) = Total(f, 0) + f[0 + 1] /\ 0 + 1 = 1
  BY TotalDef
<1>4. Total(f, 1) = l[a]
  BY <1>2, <1>3
<1>5. QED
  BY <1>1, <1>2, <1>4 DEF Carried, f

\* The first packet carries the difference.
LEMMA CarriedOfTail ==
  ASSUME NEW ls \in Seq([Apps -> Nat]), ls # <<>>, NEW a \in Apps
  PROVE  Carried(ls, a) = Head(ls)[a] + Carried(Tail(ls), a)
<1>1. /\ Head(ls) \in [Apps -> Nat] /\ Tail(ls) \in Seq([Apps -> Nat])
      /\ <<Head(ls)>> \in Seq([Apps -> Nat]) /\ ls = <<Head(ls)>> \o Tail(ls)
  OBVIOUS
<1>2. Carried(<<Head(ls)>> \o Tail(ls), a) = Carried(<<Head(ls)>>, a) + Carried(Tail(ls), a)
  BY <1>1, CarriedOfConcat
<1>3. Carried(<<Head(ls)>>, a) = Head(ls)[a]
  BY <1>1, CarriedOfOne
<1>4. QED
  BY <1>1, <1>2, <1>3

\* A packet more carries what it holds.
LEMMA CarriedOfAppend ==
  ASSUME NEW ls \in Seq([Apps -> Nat]), NEW l \in [Apps -> Nat], NEW a \in Apps
  PROVE  Carried(Append(ls, l), a) = Carried(ls, a) + l[a]
<1>1. <<l>> \in Seq([Apps -> Nat]) /\ Append(ls, l) = ls \o <<l>>
  OBVIOUS
<1>2. Carried(ls \o <<l>>, a) = Carried(ls, a) + Carried(<<l>>, a)
  BY <1>1, CarriedOfConcat
<1>3. QED
  BY <1>1, <1>2, CarriedOfOne

\* What a node has sent, or holds to be sent, is a natural number.
LEMMA SentType ==
  ASSUME NEW n \in Node, NEW a \in Apps
  PROVE  n.lengths[a] \in Nat /\ Carried(n.out, a) \in Nat /\ Sent(n, a) \in Nat
<1>1. n.lengths \in [Apps -> Nat] /\ n.out \in Seq([Apps -> Nat])
  BY DEF Node
<1>2. n.lengths[a] \in Nat /\ Carried(n.out, a) \in Nat
  BY <1>1, CarriedType
<1>3. QED
  BY <1>2 DEF Sent

\* propagateSPackets loses nothing.
LEMMA SentOfPropagated ==
  ASSUME NEW n \in Node, NEW a \in Apps
  PROVE  Sent(Propagated(n), a) = Sent(n, a)
<1>1. n.lengths \in [Apps -> Nat] /\ n.out \in Seq([Apps -> Nat])
  BY DEF Node
<1>2. /\ Propagated(n).lengths = IF n.active THEN NoLengths ELSE n.lengths
      /\ Propagated(n).out = IF n.active THEN Append(n.out, n.lengths) ELSE n.out
  BY PropagatedEffect
<1>3. n.lengths[a] \in Nat /\ Carried(n.out, a) \in Nat
  BY SentType
<1>4. CASE n.active
  <2>1. Carried(Append(n.out, n.lengths), a) = Carried(n.out, a) + n.lengths[a]
    BY <1>1, CarriedOfAppend
  <2>2. NoLengths[a] = 0
    BY DEF NoLengths
  <2>3. QED
    BY <1>2, <1>3, <1>4, <2>1, <2>2 DEF Sent
<1>5. CASE ~n.active
  BY <1>2, <1>5 DEF Sent
<1>6. QED
  BY <1>4, <1>5

\* Counting a packet adds its size to what is to be sent.
LEMMA SentOfCounted ==
  ASSUME NEW n \in Node, NEW p \in Packet, NEW b \in BOOLEAN, NEW a \in Apps
  PROVE  Sent(Counted(n, p, b), a) = Sent(n, a) + SizeFor(p, a)
<1>1. /\ Counted(n, p, b).out = n.out
      /\ Counted(n, p, b).lengths[a] = IF a = p.app THEN n.lengths[a] + p.size
                                       ELSE n.lengths[a]
  BY CountedEffect
<1>2. n.lengths[a] \in Nat /\ Carried(n.out, a) \in Nat /\ SizeFor(p, a) \in Nat
  BY SentType, SizeForType
<1>3. Counted(n, p, b).lengths[a] = n.lengths[a] + SizeFor(p, a)
  BY <1>1, <1>2 DEF SizeFor
<1>4. QED
  BY <1>1, <1>2, <1>3 DEF Sent

\* What scheduleJobs preserves of a node n.
Keeps(n, m) ==
  \A a \in Apps : /\ EndTag(m.sch, a) = EndTag(n.sch, a)
                  /\ Balance(m, a) = Balance(n, a)
                  /\ OutstandingSize(m.sch, a) >= OutstandingSize(n.sch, a)

\* A turn of scheduleJobs moves no end of tags, and counts nothing but what goes out.
LEMMA OneMoreBalances ==
  ASSUME NEW n \in Resting, algorithm \in Algorithms
  PROVE  Keeps(n, OneMore(n))
<1> SUFFICES ASSUME NEW b \in Apps
             PROVE  /\ EndTag(OneMore(n).sch, b) = EndTag(n.sch, b)
                    /\ Balance(OneMore(n), b) = Balance(n, b)
                    /\ OutstandingSize(OneMore(n).sch, b) >= OutstandingSize(n.sch, b)
  BY DEF Keeps
<1>1. n \in Node /\ n.sch \in Sound /\ n.sch \in Scheduler
  BY DEF Resting, Sound
<1>2. OutstandingSize(n.sch, b) \in Nat /\ Sent(n, b) \in Nat
  BY <1>1, OutstandingType, SentType
<1>3. CASE ~\E a \in Apps : CanDispatch(n.sch, a)
  BY <1>2, <1>3 DEF OneMore
<1>4. CASE \E a \in Apps : CanDispatch(n.sch, a)
  <2> DEFINE a == CHOOSE a \in Apps : CanDispatch(n.sch, a)
             p == Head(n.sch.waitQ[a]).pkt
             d == Dispatched(n.sch, a)
             m == [n EXCEPT !.sch = d]
             c == SizeFor(p, b)
  <2>1. a \in Apps /\ CanDispatch(n.sch, a)
    BY <1>4, Zenon
  <2>2. OneMore(n) = NodeDispatch(n, a)
    BY <1>4 DEF OneMore
  <2> HIDE DEF a
  <2>3. Backlogged(n.sch, a)
    BY <2>1 DEF CanDispatch, IsNext
  <2>4. d \in Sound /\ EndTag(d, b) = EndTag(n.sch, b)
    BY <1>1, <2>1, <2>3, DispatchSound, DispatchEndTag
  <2>5. p \in Packet /\ OutstandingSize(d, b) = OutstandingSize(n.sch, b) + c
    BY <1>1, <2>1, DispatchOutstanding
  <2>6. c \in Nat
    BY <2>5, SizeForType
  <2>7. NodeDispatch(n, a) = IF algorithm = "DSFQD" THEN Propagated(Counted(m, p, TRUE)) ELSE m
    BY DEF NodeDispatch
  <2> HIDE DEF d
  <2>8. m \in Node /\ m.sch = d /\ m.lengths = n.lengths /\ m.out = n.out
    BY <1>1, <2>4, NewScheduler DEF Sound
  <2> HIDE DEF m, p, c
  <2>9. Sent(m, b) = Sent(n, b)
    BY <2>8 DEF Sent
  <2>10. CASE algorithm = "DSFQD"
    <3>1. Counted(m, p, TRUE) \in Node /\ Counted(m, p, TRUE).sch = m.sch
      BY <2>5, <2>8, CountedEffect
    <3>2. Sent(Counted(m, p, TRUE), b) = Sent(m, b) + c
      BY <2>5, <2>8, SentOfCounted DEF c
    <3>3. OneMore(n).sch = d /\ Sent(OneMore(n), b) = Sent(n, b) + c
      <4> DEFINE k == Counted(m, p, TRUE)
      <4>1. OneMore(n) = Propagated(k)
        BY <2>2, <2>7, <2>10
      <4>2. k \in Node /\ k.sch = d /\ Sent(k, b) = Sent(n, b) + c
        BY <2>8, <2>9, <3>1, <3>2
      <4> HIDE DEF k
      <4>3. Propagated(k).sch = k.sch /\ Sent(Propagated(k), b) = Sent(k, b)
        BY <4>2, PropagatedEffect, SentOfPropagated
      <4>4. QED
        BY <4>1, <4>2, <4>3
    <3>4. QED
      BY <1>2, <2>4, <2>5, <2>6, <2>10, <3>3 DEF Balance
  <2>11. CASE algorithm # "DSFQD"
    <3>1. OneMore(n) = m
      BY <2>2, <2>7, <2>11
    <3>2. QED
      BY <1>2, <2>4, <2>5, <2>6, <2>8, <2>9, <2>11, <3>1 DEF Balance
  <2>12. QED
    BY <2>10, <2>11
<1>5. QED
  BY <1>3, <1>4

\* scheduleJobs moves the end of no tags and counts what it hands out.
LEMMA ScheduleJobsBalances ==
  ASSUME NEW n \in Resting, algorithm \in Algorithms
  PROVE  ScheduleJobs(n) \in Resting /\ Keeps(n, ScheduleJobs(n))
<1> DEFINE N == {m \in Resting : Keeps(n, m)}
<1>1. \A m \in Resting : \A a \in Apps : OutstandingSize(m.sch, a) \in Nat
  BY OutstandingType DEF Resting, Sound
<1>2. n \in N
  BY <1>1 DEF Keeps
<1>3. ASSUME NEW m \in N
      PROVE  OneMore(m) \in N
  <2>1. m \in Resting /\ Keeps(n, m)
    OBVIOUS
  <2>2. OneMore(m) \in Resting /\ Keeps(m, OneMore(m))
    BY <2>1, OneMoreKeeps, OneMoreBalances
  <2>3. Keeps(n, OneMore(m))
    BY <1>1, <2>1, <2>2 DEF Keeps
  <2>4. QED
    BY <2>2, <2>3
<1> HIDE DEF N
<1>4. ScheduleJobs(n) \in N
  BY <1>2, <1>3, ScheduleJobsKeeps
<1>5. QED
  BY <1>4 DEF N

\* What pushWaitQ counts, and what the proxy propagates after it.
LEMMA PushBalances ==
  ASSUME NEW n \in Resting, NEW p \in Packet, algorithm \in Algorithms
  PROVE  LET k == NodePush(n, p)
             m == IF algorithm \in {"DSFQA", "DSFQALB"} THEN Propagated(k) ELSE k
         IN  /\ k.sch = Pushed(n.sch, p) /\ m.sch = Pushed(n.sch, p)
             /\ \A a \in Apps :
                  /\ Sent(m, a) = Sent(n, a) + (IF CountsPush THEN SizeFor(p, a) ELSE 0)
                  /\ OutstandingSize(m.sch, a) = OutstandingSize(n.sch, a)
<1> DEFINE s == Pushed(n.sch, p)
           q == [n EXCEPT !.sch = s]
           k == NodePush(n, p)
           m == IF algorithm \in {"DSFQA", "DSFQALB"} THEN Propagated(k) ELSE k
           over == q.lengths[p.app] + p.size >= LoadThreshold
<1>1. n \in Node /\ n.sch \in Sound /\ n.sch \in Scheduler
  BY DEF Resting, Sound
<1>2. s \in Scheduler /\ s.osQ = n.sch.osQ
  BY <1>1, PushEffect
<1>3. k = CASE algorithm \in {"DSFQA", "DSFQATB"} -> Counted(q, p, TRUE)
            [] algorithm = "DSFQALB" -> Counted(q, p, over)
            [] OTHER -> q
  BY DEF NodePush
<1>4. \A a \in Apps : OutstandingSize(s, a) = OutstandingSize(n.sch, a)
  BY <1>2 DEF OutstandingSize
<1> HIDE DEF s
<1>5. q \in Node /\ q.sch = s /\ q.lengths = n.lengths /\ q.out = n.out
  BY <1>1, <1>2, NewScheduler
<1> HIDE DEF q
<1>6. \A a \in Apps : Sent(q, a) = Sent(n, a) /\ Sent(n, a) \in Nat
  BY <1>1, <1>5, SentType DEF Sent
<1>7. CASE algorithm \in {"DSFQA", "DSFQATB", "DSFQALB"}
  <2>1. PICK b \in BOOLEAN : k = Counted(q, p, b)
    <3>1. over \in BOOLEAN /\ TRUE \in BOOLEAN
      OBVIOUS
    <3> HIDE DEF over, k
    <3>2. QED
      BY <1>3, <1>7, <3>1
  <2> HIDE DEF k
  <2>2. k \in Node /\ k.sch = s /\ \A a \in Apps : Sent(k, a) = Sent(q, a) + SizeFor(p, a)
    BY <1>5, <2>1, CountedEffect, SentOfCounted
  <2>3. m.sch = s /\ \A a \in Apps : Sent(m, a) = Sent(k, a)
    BY <2>2, PropagatedEffect, SentOfPropagated
  <2>4. CountsPush
    BY <1>7 DEF CountsPush
  <2> HIDE DEF m
  <2>5. QED
    BY <1>4, <1>6, <2>2, <2>3, <2>4 DEF m, k, s
<1>8. CASE algorithm \notin {"DSFQA", "DSFQATB", "DSFQALB"}
  <2>1. k = q
    BY <1>3, <1>8
  <2>2. m = q
    BY <1>8, <2>1
  <2>3. ~CountsPush
    BY <1>8 DEF CountsPush
  <2> HIDE DEF m, k
  <2>4. QED
    BY <1>4, <1>5, <1>6, <2>1, <2>2, <2>3 DEF m, k, s
<1>9. QED
  BY <1>7, <1>8

\* What popOsQ counts, and what the proxy propagates after it.
LEMMA PopBalances ==
  ASSUME NEW n \in Resting, NEW i \in DOMAIN n.sch.osQ, algorithm \in Algorithms
  PROVE  LET k == NodePop(n, i)
             m == IF algorithm = "DSFQF" THEN Propagated(k) ELSE k
         IN  /\ k.sch = Popped(n.sch, i) /\ m.sch = Popped(n.sch, i)
             /\ n.sch.osQ[i].pkt \in Packet
             /\ \A a \in Apps :
                  Sent(m, a) = Sent(n, a) + (IF CountsPop THEN SizeFor(n.sch.osQ[i].pkt, a) ELSE 0)
<1> DEFINE s == Popped(n.sch, i)
           q == [n EXCEPT !.sch = s]
           p == n.sch.osQ[i].pkt
           k == NodePop(n, i)
           m == IF algorithm = "DSFQF" THEN Propagated(k) ELSE k
<1>1. n \in Node /\ n.sch \in Sound /\ n.sch \in Scheduler
  BY DEF Resting, Sound
<1>2. s \in Scheduler
  BY <1>1, PopEffect
<1>3. p \in Packet
  <2>1. n.sch.osQ[i] \in Job
    BY <1>1, OutstandingType DEF Scheduler
  <2>2. QED
    BY <2>1 DEF Job
<1>4. k = IF algorithm = "DSFQF" THEN Counted(q, p, TRUE) ELSE q
  BY DEF NodePop
<1> HIDE DEF s, p
<1>5. q \in Node /\ q.sch = s /\ q.lengths = n.lengths /\ q.out = n.out
  BY <1>1, <1>2, NewScheduler
<1> HIDE DEF q, k
<1>6. \A a \in Apps : Sent(q, a) = Sent(n, a) /\ Sent(n, a) \in Nat
  BY <1>1, <1>5, SentType DEF Sent
<1>7. CASE algorithm = "DSFQF"
  <2>1. k \in Node /\ k.sch = s /\ \A a \in Apps : Sent(k, a) = Sent(q, a) + SizeFor(p, a)
    <3>1. k = Counted(q, p, TRUE) /\ TRUE \in BOOLEAN
      BY <1>4, <1>7
    <3>2. Counted(q, p, TRUE) \in Node /\ Counted(q, p, TRUE).sch = q.sch
      BY <1>3, <1>5, CountedEffect
    <3>3. \A a \in Apps : Sent(Counted(q, p, TRUE), a) = Sent(q, a) + SizeFor(p, a)
      BY <1>3, <1>5, SentOfCounted
    <3>4. QED
      BY <1>5, <3>1, <3>2, <3>3
  <2>2. m.sch = s /\ \A a \in Apps : Sent(m, a) = Sent(k, a)
    BY <1>7, <2>1, PropagatedEffect, SentOfPropagated
  <2>3. CountsPop
    BY <1>7 DEF CountsPop
  <2> HIDE DEF m
  <2>4. QED
    BY <1>3, <1>6, <2>1, <2>2, <2>3 DEF m, k, s, p
<1>8. CASE algorithm # "DSFQF"
  <2>1. m = q /\ k = q
    BY <1>4, <1>8
  <2>2. ~CountsPop
    BY <1>8 DEF CountsPop
  <2> HIDE DEF m
  <2>3. QED
    BY <1>3, <1>5, <1>6, <2>1, <2>2 DEF m, k, s, p
<1>9. QED
  BY <1>7, <1>8

-----------------------------------------------------------------------------
(* The inductive invariant: every node rests between two handlers.         *)

DInv ==
  /\ algorithm \in Algorithms
  /\ node \in [Proxies -> Resting]
  /\ channel \in [Proxies -> [Proxies -> Seq([Apps -> Nat])]]

\* What a handler may do to the virtual times: no proxy's goes back.
VtimeForward == \A p \in Proxies : node'[p].sch.vtime >= node[p].sch.vtime

\* Nodes are at rest at the start.
LEMMA InitRests == Init => DInv
<1> SUFFICES ASSUME Init PROVE DInv
  OBVIOUS
<1> DEFINE s == EmptyScheduler
           n == [sch |-> s, lengths |-> NoLengths, active |-> FALSE, out |-> <<>>]
<1>1. s \in Scheduler
  <2>1. 0 \in Apps
    BY NumAppsAssumption DEF Apps
  <2>2. QED
    BY <2>1 DEF EmptyScheduler, Scheduler
<1>2. s \in Sound
  BY <1>1 DEF Sound, Ordered, FrontsAhead, Backlogged, EmptyScheduler
<1> HIDE DEF s
<1>3. n \in Node /\ n.sch = s /\ n.active = FALSE /\ n.lengths = NoLengths
  BY <1>1 DEF Node, NoLengths
<1>4. n \in Resting
  BY <1>2, <1>3, NothingPending
<1> HIDE DEF n
<1>5. node = [p \in Proxies |-> n]
  BY DEF Init, n, s
<1>6. node \in [Proxies -> Resting]
  BY <1>4, <1>5
<1>7. channel \in [Proxies -> [Proxies -> Seq([Apps -> Nat])]]
  <2>1. [r \in Proxies |-> <<>>] \in [Proxies -> Seq([Apps -> Nat])]
    OBVIOUS
  <2>2. QED
    BY <2>1 DEF Init
<1>8. QED
  BY <1>6, <1>7 DEF Init, DInv

\* A handler of p ends with a node at rest.
LEMMA FinishRests ==
  ASSUME DInv, NEW p \in Proxies, NEW n \in Resting, Finish(p, n),
         n.sch.vtime >= node[p].sch.vtime
  PROVE  DInv' /\ VtimeForward
<1> DEFINE m == [n EXCEPT !.out = <<>>]
<1>1. algorithm' = algorithm /\ algorithm \in Algorithms
  BY DEF Finish, DInv
<1>2. n \in Node /\ n.sch \in Sound /\ WithinBound(n) /\ n.out \in Seq([Apps -> Nat])
  BY DEF Resting, Node
<1>3. m \in Node /\ m.sch = n.sch /\ m.lengths = n.lengths /\ m.active = n.active
  <2>1. <<>> \in Seq([Apps -> Nat])
    OBVIOUS
  <2>2. QED
    BY <1>2, <2>1 DEF Node
<1> HIDE DEF m
<1>4. m \in Resting
  BY <1>2, <1>3 DEF Resting, WithinBound
<1>5. Resting' = Resting
  BY <1>1 DEF Resting, WithinBound
<1>6. node' = [node EXCEPT ![p] = m] /\ node \in [Proxies -> Resting]
  BY DEF Finish, DInv, m
<1>7. node' \in [Proxies -> Resting']
  BY <1>4, <1>5, <1>6
<1>8. channel' \in [Proxies -> [Proxies -> Seq([Apps -> Nat])]]
  <2> DEFINE c == [r \in Proxies |-> IF r = p THEN channel[p][r] ELSE channel[p][r] \o n.out]
  <2>1. channel \in [Proxies -> [Proxies -> Seq([Apps -> Nat])]]
    BY DEF DInv
  <2>2. ASSUME NEW r \in Proxies
        PROVE  (IF r = p THEN channel[p][r] ELSE channel[p][r] \o n.out) \in Seq([Apps -> Nat])
    <3>1. channel[p][r] \in Seq([Apps -> Nat])
      BY <2>1
    <3>2. channel[p][r] \o n.out \in Seq([Apps -> Nat])
      BY <1>2, <3>1
    <3>3. QED
      BY <3>1, <3>2
  <2>3. c \in [Proxies -> Seq([Apps -> Nat])]
    BY <2>2
  <2>4. channel' = [channel EXCEPT ![p] = c]
    BY DEF Finish
  <2> HIDE DEF c
  <2>5. QED
    BY <2>1, <2>3, <2>4
<1>9. VtimeForward
  <2>1. \A r \in Proxies : node[r].sch.vtime \in Nat
    BY <1>6 DEF Resting, Sound, Scheduler
  <2>2. \A r \in Proxies : node'[r] = IF r = p THEN m ELSE node[r]
    BY <1>6
  <2>3. QED
    BY <1>3, <2>1, <2>2 DEF VtimeForward
<1>10. QED
  BY <1>1, <1>7, <1>8, <1>9 DEF DInv

\* Every handler of every proxy keeps the nodes at rest and the virtual times going
\* forward (Proxy.cc with the schedulers of scheduler/DSFQ).
LEMMA StepRests ==
  ASSUME DInv, [Next]_vars
  PROVE  DInv' /\ (UNCHANGED vars \/ VtimeForward)
<1>1. /\ algorithm \in Algorithms /\ node \in [Proxies -> Resting]
      /\ channel \in [Proxies -> [Proxies -> Seq([Apps -> Nat])]]
  BY DEF DInv
<1>2. \A n \in Resting : n.sch.vtime \in Nat /\ n \in Node /\ n.sch \in Sound
  BY DEF Resting, Sound, Scheduler
<1>3. ASSUME NEW p \in Proxies, NEW a \in Apps, NEW s \in Sizes, HandleJobReq2(p, a, s)
      PROVE  DInv' /\ VtimeForward
  <2> DEFINE pkt == [id |-> arrived[p] + 1, app |-> a, size |-> s]
             m == IF algorithm \in {"DSFQA", "DSFQALB"}
                  THEN Propagated(NodePush(node[p], pkt)) ELSE NodePush(node[p], pkt)
  <2>1. pkt \in Packet /\ Finish(p, ScheduleJobs(m))
    BY <1>3 DEF HandleJobReq2, Packet
  <2> HIDE DEF pkt
  <2>2. m \in Resting /\ m.sch.vtime = node[p].sch.vtime
    BY <1>1, <2>1, PushRests
  <2> HIDE DEF m
  <2>3. ScheduleJobs(m) \in Resting /\ ScheduleJobs(m).sch.vtime >= node[p].sch.vtime
    BY <1>1, <2>2, ScheduleJobsRests
  <2>4. QED
    BY <2>1, <2>3, FinishRests
<1>4. ASSUME NEW p \in Proxies, NEW id \in Ids, HandleReadLastWriteFin2(p, id)
      PROVE  DInv' /\ VtimeForward
  <2>1. PICK k \in DOMAIN node[p].sch.osQ :
          Finish(p, ScheduleJobs(IF algorithm = "DSFQF" THEN Propagated(NodePop(node[p], k))
                                 ELSE NodePop(node[p], k)))
    BY <1>4 DEF HandleReadLastWriteFin2
  <2> DEFINE m == IF algorithm = "DSFQF" THEN Propagated(NodePop(node[p], k))
                  ELSE NodePop(node[p], k)
  <2>2. m \in Resting /\ m.sch.vtime = node[p].sch.vtime
    BY <1>1, <2>1, PopRests
  <2>3. Finish(p, ScheduleJobs(m))
    BY <2>1
  <2> HIDE DEF m
  <2>4. ScheduleJobs(m) \in Resting /\ ScheduleJobs(m).sch.vtime >= node[p].sch.vtime
    BY <1>1, <2>2, ScheduleJobsRests
  <2>5. QED
    BY <2>3, <2>4, FinishRests
<1>5. ASSUME NEW p \in Proxies, NEW r \in Proxies, HandleInterSchedulerPacket(p, r)
      PROVE  DInv' /\ VtimeForward
  <2> DEFINE s == Received(node[r].sch, Head(channel[p][r]))
             m == [node[r] EXCEPT !.sch = s]
  <2>1. channel[p][r] \in Seq([Apps -> Nat]) /\ channel[p][r] # <<>>
    BY <1>1, <1>5 DEF HandleInterSchedulerPacket
  <2>2. Head(channel[p][r]) \in [Apps -> Nat] /\ Tail(channel[p][r]) \in Seq([Apps -> Nat])
    BY <2>1
  <2>3. node[r] \in Resting /\ node[r] \in Node /\ node[r].sch \in Sound
        /\ WithinBound(node[r])
    BY <1>1, <1>2 DEF Resting
  <2>4. s \in Sound /\ s.vtime = node[r].sch.vtime
    BY <2>2, <2>3, ReceivedSound
  <2>5. /\ node' = [node EXCEPT ![r] = m] /\ algorithm' = algorithm
        /\ channel' = [channel EXCEPT ![p][r] = Tail(channel[p][r])]
    BY <1>5 DEF HandleInterSchedulerPacket
  <2>6. /\ m \in Node /\ m.sch = s /\ m.lengths = node[r].lengths
        /\ m.active = node[r].active
    BY <2>3, <2>4, NewScheduler DEF Sound
  <2> HIDE DEF m, s
  <2>7. m \in Resting
    BY <2>3, <2>4, <2>6 DEF Resting, WithinBound
  <2>8. Resting' = Resting
    BY <2>5 DEF Resting, WithinBound
  <2>9. node' \in [Proxies -> Resting']
    BY <1>1, <2>5, <2>7, <2>8
  <2>10. channel' \in [Proxies -> [Proxies -> Seq([Apps -> Nat])]]
    BY <1>1, <2>2, <2>5
  <2>11. VtimeForward
    <3>1. \A x \in Proxies : node'[x] = IF x = r THEN m ELSE node[x]
      BY <1>1, <2>5
    <3>2. \A x \in Proxies : node[x].sch.vtime \in Nat
      BY <1>1, <1>2
    <3>3. QED
      BY <2>4, <2>6, <3>1, <3>2 DEF VtimeForward
  <2>12. QED
    BY <1>1, <2>5, <2>9, <2>10, <2>11 DEF DInv
<1>6. ASSUME NEW p \in Proxies, HandleAlgorithmTimer(p)
      PROVE  DInv' /\ VtimeForward
  <2>1. algorithm = "DSFQATB" /\ Finish(p, Propagated(node[p]))
    BY <1>6 DEF HandleAlgorithmTimer
  <2>2. /\ node[p] \in Node /\ node[p].sch \in Sound /\ WithinBound(node[p])
        /\ node[p].sch.vtime \in Nat
    BY <1>1, <1>2 DEF Resting
  <2>3. /\ Propagated(node[p]) \in Node /\ Propagated(node[p]).sch = node[p].sch
        /\ Propagated(node[p]).lengths = IF node[p].active THEN NoLengths ELSE node[p].lengths
    BY <2>2, PropagatedEffect
  <2>4. WithinBound(Propagated(node[p]))
    BY <2>1, <2>2, <2>3 DEF WithinBound, NoLengths
  <2>5. Propagated(node[p]) \in Resting
    BY <2>2, <2>3, <2>4 DEF Resting
  <2>6. QED
    BY <2>1, <2>2, <2>3, <2>5, FinishRests
<1>7. CASE UNCHANGED vars
  BY <1>7 DEF vars, DInv, Resting, WithinBound
<1>8. QED
  BY <1>3, <1>4, <1>5, <1>6, <1>7 DEF Next

\* The invariant holds in every state.
THEOREM DSFQInvariant == Spec => []DInv
<1>1. Init => DInv
  BY InitRests
<1>2. DInv /\ [Next]_vars => DInv'
  BY StepRests
<1>3. QED
  BY <1>1, <1>2, PTL DEF Spec

\* The delays that other schedulers insert never pull a front below the virtual time
\* (receiveSPacket_InsertBack, receiveSPacket_InsertFront).
THEOREM DSFQFrontsNotBehind == Spec => []FrontsNotBehind
<1>1. DInv => FrontsNotBehind
  BY DEF DInv, Resting, Sound, FrontsAhead, FrontsNotBehind
<1>2. QED
  BY <1>1, DSFQInvariant, PTL

\* Between two handlers a proxy keeps no more unpropagated work to itself than its
\* variant allows (propagateSPackets and its callers).
THEOREM DSFQBoundedStaleness == Spec => []BoundedStaleness
<1>1. DInv => BoundedStaleness
  BY DEF DInv, Resting, WithinBound, BoundedStaleness, NoLengths
<1>2. QED
  BY <1>1, DSFQInvariant, PTL

\* No proxy's virtual time goes back, whatever the others propagate.
THEOREM DSFQVtimeMonotone == Spec => VtimeMonotone
<1>1. DInv /\ [Next]_vars => [\A p \in Proxies : node'[p].sch.vtime >= node[p].sch.vtime]_vars
  BY StepRests DEF VtimeForward
<1>2. QED
  BY <1>1, DSFQInvariant, PTL DEF Spec, VtimeMonotone

-----------------------------------------------------------------------------
(* Conservation of work: nothing that one scheduler counts is lost on its  *)
(* way to the tags of the others.                                          *)

\* The inductive invariant: a proxy sends nothing to itself, or it would delay its own
\* jobs for its own work.
CInv ==
  /\ DInv
  /\ TypeOK
  /\ \A p \in Proxies : channel[p][p] = <<>>
  /\ \A r \in Proxies, a \in Apps :
       EndTag(node[r].sch, a) = own[r][a] + Rate[a] * RemoteWork(r, a)

\* Order names every proxy once.
LEMMA OrderNamesAll ==
  LET n == Cardinality(Proxies)
  IN  /\ n \in Nat /\ Len(Order) = n /\ DOMAIN Order = 1 .. n
      /\ \A i \in 1 .. n : Order[i] \in Proxies
      /\ \A i, j \in 1 .. n : Order[i] = Order[j] => i = j
      /\ \A p \in Proxies : \E i \in 1 .. n : Order[i] = p
<1> DEFINE n == Cardinality(Proxies)
<1>1. IsFiniteSet(Proxies)
  BY DSFQAssumption
<1>2. n \in Nat /\ ExistsBijection(1 .. n, Proxies)
  BY <1>1, FS_CardinalityType
<1>3. \E f \in [1 .. n -> Proxies] : IsInjective(f)
  BY <1>2 DEF ExistsBijection, Bijection, Injection
<1>4. Order \in [1 .. n -> Proxies] /\ IsInjective(Order)
  BY <1>3, Zenon DEF Order, SetToSeq
<1> HIDE DEF n
<1>5. Order \in Injection(1 .. n, Proxies)
  BY <1>4 DEF Injection
<1>6. Cardinality(1 .. n) = n
  <2>1. 1 \in Int /\ n \in Int
    BY <1>2
  <2>2. Cardinality(1 .. n) = IF 1 > n THEN 0 ELSE n - 1 + 1
    BY <2>1, FS_Interval
  <2>3. QED
    BY <1>2, <2>2
<1>7. Order \in Surjection(1 .. n, Proxies)
  BY <1>1, <1>5, <1>6, FS_Injection DEF n
<1>8. \A p \in Proxies : \E i \in 1 .. n : Order[i] = p
  BY <1>7 DEF Surjection
<1>9. \A i, j \in 1 .. n : Order[i] = Order[j] => i = j
  BY <1>4 DEF IsInjective
<1>10. Order \in Seq(Proxies) /\ Len(Order) = n
  BY <1>2, <1>4
<1>11. QED
  BY <1>2, <1>4, <1>8, <1>9, <1>10 DEF n

\* What has reached r, by sender.
HeardFrom(r, a) == [i \in DOMAIN Order |-> Heard(Order[i], r, a)]

\* The work heard of, as a sum over the list of proxies.
LEMMA RemoteWorkDef ==
  ASSUME NEW r \in Proxies, NEW a \in Apps
  PROVE  /\ RemoteWork(r, a) = Total(HeardFrom(r, a), Cardinality(Proxies))
         /\ \A i \in 1 .. Cardinality(Proxies) : HeardFrom(r, a)[i] = Heard(Order[i], r, a)
<1>1. Len(Order) = Cardinality(Proxies) /\ DOMAIN Order = 1 .. Cardinality(Proxies)
  BY OrderNamesAll
<1>2. RemoteWork(r, a) = Total(HeardFrom(r, a), Cardinality(Proxies))
  BY <1>1 DEF RemoteWork, HeardFrom
<1>3. QED
  BY <1>1, <1>2 DEF HeardFrom

\* What has been heard of each proxy, and of all, is an integer.
LEMMA HeardType ==
  ASSUME TypeOK, NEW r \in Proxies, NEW a \in Apps
  PROVE  /\ \A p \in Proxies : Heard(p, r, a) \in Int
         /\ RemoteWork(r, a) \in Int
<1>1. ASSUME NEW p \in Proxies
      PROVE  Heard(p, r, a) \in Int
  <2>1. work[p][a] \in Nat /\ node[p] \in Node /\ channel[p][r] \in Seq([Apps -> Nat])
    BY DEF TypeOK
  <2>2. node[p].lengths[a] \in Nat /\ Carried(channel[p][r], a) \in Nat
    BY <2>1, SentType, CarriedType
  <2>3. Unheard(p, r, a) = node[p].lengths[a] + Carried(channel[p][r], a)
    BY DEF Unheard, InFlight, Carried
  <2>4. QED
    BY <2>1, <2>2, <2>3 DEF Heard
<1>2. Cardinality(Proxies) \in Nat /\ \A i \in 1 .. Cardinality(Proxies) : Order[i] \in Proxies
  BY OrderNamesAll
<1>3. \A i \in 1 .. Cardinality(Proxies) : HeardFrom(r, a)[i] \in Int
  BY <1>1, <1>2, RemoteWorkDef
<1>4. Total(HeardFrom(r, a), Cardinality(Proxies)) \in Int
  BY <1>2, <1>3, TotalType
<1>5. QED
  BY <1>1, <1>4, RemoteWorkDef

\* The same for the next state.
LEMMA RemoteWorkNext ==
  ASSUME NEW r \in Proxies, NEW a \in Apps
  PROVE  /\ RemoteWork(r, a)' = Total(HeardFrom(r, a)', Cardinality(Proxies))
         /\ \A i \in 1 .. Cardinality(Proxies) :
              (HeardFrom(r, a)')[i] = Heard(Order[i], r, a)'
<1>1. Len(Order) = Cardinality(Proxies) /\ DOMAIN Order = 1 .. Cardinality(Proxies)
  BY OrderNamesAll
<1>2. RemoteWork(r, a)' = Total(HeardFrom(r, a)', Cardinality(Proxies))
  BY <1>1 DEF RemoteWork, HeardFrom
<1>3. QED
  BY <1>1, <1>2 DEF HeardFrom

\* A step that lets r hear nothing.
LEMMA RemoteWorkSame ==
  ASSUME TypeOK, NEW r \in Proxies, NEW a \in Apps,
         \A p \in Proxies : Heard(p, r, a)' = Heard(p, r, a)
  PROVE  RemoteWork(r, a)' = RemoteWork(r, a)
<1> DEFINE n == Cardinality(Proxies)
           f == HeardFrom(r, a)
           g == HeardFrom(r, a)'
<1>1. n \in Nat /\ \A i \in 1 .. n : Order[i] \in Proxies
  BY OrderNamesAll
<1>2. /\ RemoteWork(r, a) = Total(f, n) /\ RemoteWork(r, a)' = Total(g, n)
      /\ \A i \in 1 .. n : f[i] = Heard(Order[i], r, a) /\ g[i] = Heard(Order[i], r, a)'
  BY RemoteWorkDef, RemoteWorkNext
<1>3. \A p \in Proxies : Heard(p, r, a) \in Int
  BY HeardType
<1> HIDE DEF n, f, g
<1>4. \A i \in 1 .. n : f[i] \in Int /\ g[i] = f[i]
  BY <1>1, <1>2, <1>3
<1>5. Total(g, n) = Total(f, n)
  BY <1>1, <1>4, TotalSame
<1>6. QED
  BY <1>2, <1>5

\* A step that lets r hear of d more from q.
LEMMA RemoteWorkMore ==
  ASSUME TypeOK, NEW r \in Proxies, NEW a \in Apps, NEW q \in Proxies, NEW d \in Int,
         \A p \in Proxies : Heard(p, r, a)' = IF p = q THEN Heard(p, r, a) + d
                                                     ELSE Heard(p, r, a)
  PROVE  RemoteWork(r, a)' = RemoteWork(r, a) + d
<1> DEFINE n == Cardinality(Proxies)
           f == HeardFrom(r, a)
           g == HeardFrom(r, a)'
<1>1. /\ n \in Nat /\ \A i \in 1 .. n : Order[i] \in Proxies
      /\ \A i, j \in 1 .. n : Order[i] = Order[j] => i = j
  BY OrderNamesAll
<1>2. PICK k \in 1 .. n : Order[k] = q
  BY OrderNamesAll
<1>3. /\ RemoteWork(r, a) = Total(f, n) /\ RemoteWork(r, a)' = Total(g, n)
      /\ \A i \in 1 .. n : f[i] = Heard(Order[i], r, a) /\ g[i] = Heard(Order[i], r, a)'
  BY RemoteWorkDef, RemoteWorkNext
<1>4. \A p \in Proxies : Heard(p, r, a) \in Int
  BY HeardType
<1> HIDE DEF n, f, g
<1>5. \A i \in 1 .. n : f[i] \in Int /\ g[i] = IF i = k THEN f[i] + d ELSE f[i]
  BY <1>1, <1>2, <1>3, <1>4
<1>6. \A i \in 1 .. n : f[i] \in Int /\ g[i] \in Int
  BY <1>5
<1>7. \A i \in 1 .. n : i # k => g[i] = f[i]
  BY <1>5
<1>8. Total(g, n) = Total(f, n) + (g[k] - f[k])
  BY <1>1, <1>2, <1>6, <1>7, TotalChanged
<1>9. g[k] - f[k] = d
  BY <1>2, <1>5
<1>10. QED
  BY <1>3, <1>8, <1>9

\* What a handler of p that ends with node n has done to the histories: it counted what
\* it propagates or keeps to itself, and recorded how it moved p's own tags.
Accounted(p, n) ==
  /\ arrived' \in [Proxies -> Nat]
  /\ work' \in [Proxies -> [Apps -> Nat]]
  /\ own' \in [Proxies -> [Apps -> Nat]]
  /\ \A q \in Proxies : q # p => work'[q] = work[q] /\ own'[q] = own[q]
  /\ \A a \in Apps :
       /\ work'[p][a] - Sent(n, a) = work[p][a] - Sent(node[p], a)
       /\ EndTag(n.sch, a) - own'[p][a] = EndTag(node[p].sch, a) - own[p][a]

\* Such a handler keeps the tags accounted for.
LEMMA FinishAccounts ==
  ASSUME CInv, DInv', NEW p \in Proxies, NEW n \in Resting, Finish(p, n), Accounted(p, n)
  PROVE  CInv'
<1> DEFINE m == [n EXCEPT !.out = <<>>]
<1>1. /\ TypeOK /\ node \in [Proxies -> Node] /\ node[p].out = <<>>
      /\ channel \in [Proxies -> [Proxies -> Seq([Apps -> Nat])]]
      /\ work \in [Proxies -> [Apps -> Nat]] /\ own \in [Proxies -> [Apps -> Nat]]
  BY DEF CInv, TypeOK
<1>2. n \in Node /\ n.sch \in Scheduler /\ n.out \in Seq([Apps -> Nat])
  BY DEF Resting, Sound, Node
<1>3. m \in Node /\ m.sch = n.sch /\ m.lengths = n.lengths /\ m.out = <<>>
  <2>1. <<>> \in Seq([Apps -> Nat])
    OBVIOUS
  <2>2. QED
    BY <1>2, <2>1 DEF Node
<1> HIDE DEF m
<1>4. /\ node' \in [Proxies -> Node] /\ algorithm' \in Algorithms
      /\ \A q \in Proxies : node'[q] = IF q = p THEN m ELSE node[q]
  BY <1>1, <1>3 DEF Finish, CInv, TypeOK, m
<1>5. \A q, r \in Proxies : channel'[q][r] =
         IF q = p /\ r # p THEN channel[p][r] \o n.out ELSE channel[q][r]
  <2> DEFINE c == [r \in Proxies |-> IF r = p THEN channel[p][r] ELSE channel[p][r] \o n.out]
  <2>1. channel' = [channel EXCEPT ![p] = c]
    BY DEF Finish
  <2>2. \A r \in Proxies : c[r] = IF r = p THEN channel[p][r] ELSE channel[p][r] \o n.out
    OBVIOUS
  <2> HIDE DEF c
  <2>3. QED
    BY <1>1, <2>1, <2>2
<1>6. TypeOK'
  <2>1. \A q \in Proxies : node'[q].out = <<>>
    BY <1>3, <1>4 DEF CInv, TypeOK
  <2>2. QED
    BY <1>4, <2>1 DEF TypeOK, DInv, Accounted
<1>7. \A q \in Proxies : channel'[q][q] = <<>>
  BY <1>5 DEF CInv
<1>8. ASSUME NEW q \in Proxies, NEW r \in Proxies, NEW a \in Apps
      PROVE  Heard(q, r, a)' = Heard(q, r, a)
  <2>1. CASE q = r
    BY <2>1 DEF Heard
  <2>2. CASE q # r
    <3>1. /\ Heard(q, r, a) = work[q][a] - (node[q].lengths[a] + Carried(channel[q][r], a))
          /\ Heard(q, r, a)' = work'[q][a] - (node'[q].lengths[a] + Carried(channel'[q][r], a))
      BY <2>2 DEF Heard, Unheard, InFlight, Carried
    <3>2. CASE q # p
      BY <1>4, <1>5, <3>1, <3>2 DEF Accounted
    <3>3. CASE q = p
      <4>1. /\ channel[p][r] \in Seq([Apps -> Nat]) /\ node[p] \in Node
            /\ work[p][a] \in Nat /\ work'[p][a] \in Nat
        BY <1>1 DEF Accounted
      <4>2. Carried(channel[p][r] \o n.out, a) = Carried(channel[p][r], a) + Carried(n.out, a)
        BY <1>2, <4>1, CarriedOfConcat
      <4>3. /\ Carried(channel[p][r], a) \in Nat /\ Carried(n.out, a) \in Nat
            /\ n.lengths[a] \in Nat /\ node[p].lengths[a] \in Nat
        BY <1>2, <4>1, CarriedType, SentType
      <4>4. Sent(node[p], a) = node[p].lengths[a] + 0
        <5>1. Carried(<<>>, a) = 0
          BY TotalDef DEF Carried
        <5>2. QED
          BY <1>1, <5>1 DEF Sent
      <4>5. Sent(n, a) = n.lengths[a] + Carried(n.out, a)
        BY DEF Sent
      <4>6. work'[p][a] - Sent(n, a) = work[p][a] - Sent(node[p], a)
        BY DEF Accounted
      <4>7. node'[p].lengths[a] = n.lengths[a] /\ channel'[p][r] = channel[p][r] \o n.out
        BY <1>3, <1>4, <1>5, <2>2, <3>3
      <4> DEFINE x == work'[p][a]
                 y == work[p][a]
                 c == Carried(channel[p][r], a)
                 d == Carried(n.out, a)
                 e == n.lengths[a]
                 f == node[p].lengths[a]
      <4>8. x - (e + d) = y - (f + 0)
        BY <4>4, <4>5, <4>6
      <4>9. Heard(q, r, a) = y - (f + c) /\ Heard(q, r, a)' = x - (e + (c + d))
        BY <3>1, <3>3, <4>2, <4>7
      <4>10. x \in Nat /\ y \in Nat /\ c \in Nat /\ d \in Nat /\ e \in Nat /\ f \in Nat
        BY <4>1, <4>3
      <4> HIDE DEF x, y, c, d, e, f
      <4>11. x - (e + (c + d)) = y - (f + c)
        BY <4>8, <4>10
      <4>12. QED
        BY <4>9, <4>11
    <3>4. QED
      BY <3>2, <3>3
  <2>3. QED
    BY <2>1, <2>2
<1>9. \A r \in Proxies, a \in Apps : RemoteWork(r, a)' = RemoteWork(r, a)
  BY <1>1, <1>8, RemoteWorkSame
<1>10. ASSUME NEW r \in Proxies, NEW a \in Apps
       PROVE  EndTag(node'[r].sch, a) = own'[r][a] + Rate[a] * RemoteWork(r, a)'
  <2>1. EndTag(node[r].sch, a) = own[r][a] + Rate[a] * RemoteWork(r, a)
    BY DEF CInv
  <2>2. CASE r # p
    BY <1>4, <1>9, <2>1, <2>2 DEF Accounted
  <2>3. CASE r = p
    <3> DEFINE x == Rate[a] * RemoteWork(r, a)
    <3>1. x \in Int
      <4>1. Rate[a] \in Int /\ RemoteWork(r, a) \in Int
        BY <1>1, HeardType, DSFQAssumption
      <4>2. QED
        BY <4>1
    <3>2. node[p].sch \in Scheduler /\ own[p][a] \in Int /\ own'[p][a] \in Int
      BY <1>1 DEF Accounted, Node
    <3>3. EndTag(n.sch, a) \in Int /\ EndTag(node[p].sch, a) \in Int
      BY <1>2, <3>2, EndTagType
    <3>4. EndTag(n.sch, a) - own'[p][a] = EndTag(node[p].sch, a) - own[p][a]
      BY DEF Accounted
    <3>5. node'[r].sch = n.sch
      BY <1>3, <1>4, <2>3
    <3>6. EndTag(node[p].sch, a) = own[p][a] + x
      BY <2>1, <2>3
    <3> HIDE DEF x
    <3>7. EndTag(n.sch, a) = own'[p][a] + x
      BY <3>1, <3>2, <3>3, <3>4, <3>6
    <3>8. QED
      BY <1>9, <2>3, <3>5, <3>7 DEF x
  <2>4. QED
    BY <2>2, <2>3
<1>11. QED
  BY <1>6, <1>7, <1>10 DEF CInv

\* handleJobReq2.
LEMMA JobReqAccounts ==
  ASSUME CInv, DInv', NEW p \in Proxies, NEW a \in Apps, NEW s \in Sizes,
         HandleJobReq2(p, a, s)
  PROVE  CInv'
<1> DEFINE pkt == [id |-> arrived[p] + 1, app |-> a, size |-> s]
           k == NodePush(node[p], pkt)
           m == IF algorithm \in {"DSFQA", "DSFQALB"} THEN Propagated(k) ELSE k
           n == ScheduleJobs(m)
           w(b) == IF CountsPush THEN SizeFor(pkt, b)
                   ELSE IF CountsDispatch
                   THEN OutstandingSize(n.sch, b) - OutstandingSize(node[p].sch, b)
                   ELSE 0
           o == EndTag(k.sch, a) - EndTag(node[p].sch, a)
<1>1. /\ pkt \in Packet /\ Finish(p, n)
      /\ arrived' = [arrived EXCEPT ![p] = @ + 1]
      /\ work' = [work EXCEPT ![p] = [b \in Apps |-> work[p][b] + w(b)]]
      /\ own' = [own EXCEPT ![p][a] = own[p][a] + o]
  BY DEF HandleJobReq2, Packet, SizeFor
<1>2. /\ TypeOK /\ algorithm \in Algorithms /\ node[p] \in Resting /\ node[p] \in Node
      /\ node[p].sch \in Sound /\ node[p].sch \in Scheduler
      /\ arrived \in [Proxies -> Nat]
      /\ work \in [Proxies -> [Apps -> Nat]] /\ own \in [Proxies -> [Apps -> Nat]]
  BY DEF CInv, DInv, TypeOK, Resting, Sound
<1>3. pkt.app = a
  OBVIOUS
<1> HIDE DEF pkt
<1>4. /\ k.sch = Pushed(node[p].sch, pkt) /\ m.sch = Pushed(node[p].sch, pkt)
      /\ \A b \in Apps :
           /\ Sent(m, b) = Sent(node[p], b) + (IF CountsPush THEN SizeFor(pkt, b) ELSE 0)
           /\ OutstandingSize(m.sch, b) = OutstandingSize(node[p].sch, b)
  BY <1>1, <1>2, PushBalances
<1>5. m \in Resting
  BY <1>1, <1>2, PushRests
<1> HIDE DEF m
<1>6. n \in Resting /\ Keeps(m, n)
  BY <1>2, <1>5, ScheduleJobsBalances
<1> HIDE DEF n
<1>7. /\ o \in Nat
      /\ \A b \in Apps : b # a => EndTag(k.sch, b) = EndTag(node[p].sch, b)
  BY <1>1, <1>2, <1>3, <1>4, PushEndTag
<1> HIDE DEF k
<1>8. \A b \in Apps :
        /\ Sent(node[p], b) \in Nat /\ Sent(m, b) \in Nat /\ Sent(n, b) \in Nat
        /\ OutstandingSize(n.sch, b) \in Nat /\ OutstandingSize(m.sch, b) \in Nat
        /\ EndTag(n.sch, b) \in Int /\ EndTag(node[p].sch, b) \in Int
        /\ SizeFor(pkt, b) \in Nat /\ work[p][b] \in Nat /\ own[p][b] \in Nat
  <2>1. n \in Node /\ m \in Node /\ n.sch \in Scheduler /\ m.sch \in Scheduler
    BY <1>5, <1>6 DEF Resting, Sound
  <2>2. QED
    BY <1>1, <1>2, <2>1, SentType, OutstandingType, EndTagType, SizeForType
<1>9. ASSUME NEW b \in Apps
      PROVE  w(b) \in Nat /\ w(b) - Sent(n, b) = 0 - Sent(node[p], b)
  <2>1. /\ Balance(n, b) = Balance(m, b)
        /\ OutstandingSize(n.sch, b) >= OutstandingSize(m.sch, b)
    BY <1>6 DEF Keeps
  <2>2. CASE algorithm = "DSFQD"
    <3>1. ~CountsPush /\ CountsDispatch
      BY <2>2 DEF CountsPush, CountsDispatch
    <3>2. w(b) = OutstandingSize(n.sch, b) - OutstandingSize(m.sch, b)
      BY <1>4, <3>1
    <3>3. Sent(m, b) = Sent(node[p], b)
      BY <1>4, <1>8, <3>1
    <3>4. Sent(n, b) - OutstandingSize(n.sch, b) = Sent(m, b) - OutstandingSize(m.sch, b)
      BY <2>1, <2>2 DEF Balance
    <3> HIDE DEF w
    <3>5. QED
      BY <1>8, <2>1, <3>2, <3>3, <3>4
  <2>3. CASE algorithm # "DSFQD"
    <3>1. ~CountsDispatch
      BY <2>3 DEF CountsDispatch
    <3>2. w(b) = IF CountsPush THEN SizeFor(pkt, b) ELSE 0
      BY <3>1
    <3>3. Sent(n, b) = Sent(m, b)
      BY <2>1, <2>3 DEF Balance
    <3> HIDE DEF w
    <3>4. QED
      BY <1>4, <1>8, <3>2, <3>3
  <2>4. QED
    BY <2>2, <2>3
<1> HIDE DEF w
<1>10. ASSUME NEW b \in Apps
       PROVE  EndTag(n.sch, b) = IF b = a THEN EndTag(node[p].sch, b) + o
                                 ELSE EndTag(node[p].sch, b)
  <2>1. EndTag(n.sch, b) = EndTag(m.sch, b) /\ m.sch = k.sch
    BY <1>4, <1>6 DEF Keeps
  <2>2. QED
    BY <1>7, <1>8, <2>1
<1> HIDE DEF o
<1>11. Accounted(p, n)
  <2> DEFINE W == [b \in Apps |-> work[p][b] + w(b)]
  <2>1. W \in [Apps -> Nat] /\ \A b \in Apps : W[b] = work[p][b] + w(b)
    BY <1>8, <1>9
  <2>2. work' = [work EXCEPT ![p] = W]
    BY <1>1
  <2> HIDE DEF W
  <2>3. work' \in [Proxies -> [Apps -> Nat]] /\ work'[p] = W
        /\ \A q \in Proxies : q # p => work'[q] = work[q]
    BY <1>2, <2>1, <2>2
  <2>4. arrived' \in [Proxies -> Nat]
    BY <1>1, <1>2
  <2>5. /\ own' \in [Proxies -> [Apps -> Nat]]
        /\ \A q \in Proxies : q # p => own'[q] = own[q]
        /\ \A b \in Apps : own'[p][b] = IF b = a THEN own[p][b] + o ELSE own[p][b]
    <3> DEFINE O == [own[p] EXCEPT ![a] = own[p][a] + o]
    <3>1. own' = [own EXCEPT ![p] = O]
      BY <1>1, <1>2
    <3>2. O \in [Apps -> Nat] /\ \A b \in Apps : O[b] = IF b = a THEN own[p][b] + o ELSE own[p][b]
      BY <1>2, <1>7
    <3> HIDE DEF O
    <3>3. QED
      BY <1>2, <3>1, <3>2
  <2>6. ASSUME NEW b \in Apps
        PROVE  work'[p][b] - Sent(n, b) = work[p][b] - Sent(node[p], b)
    <3>1. work'[p][b] = work[p][b] + w(b)
      BY <2>1, <2>3
    <3>2. /\ w(b) \in Nat /\ w(b) - Sent(n, b) = 0 - Sent(node[p], b)
          /\ Sent(n, b) \in Nat /\ Sent(node[p], b) \in Nat /\ work[p][b] \in Nat
      BY <1>8, <1>9
    <3>3. QED
      BY <3>1, <3>2
  <2>7. ASSUME NEW b \in Apps
        PROVE  EndTag(n.sch, b) - own'[p][b] = EndTag(node[p].sch, b) - own[p][b]
    BY <1>7, <1>8, <1>10, <2>5
  <2>8. QED
    BY <2>3, <2>4, <2>5, <2>6, <2>7 DEF Accounted
<1>12. QED
  BY <1>1, <1>6, <1>11, FinishAccounts

\* handleReadLastWriteFin2.
LEMMA FinAccounts ==
  ASSUME CInv, DInv', NEW p \in Proxies, NEW id \in Ids, HandleReadLastWriteFin2(p, id)
  PROVE  CInv'
<1>1. PICK i \in DOMAIN node[p].sch.osQ :
        LET k == NodePop(node[p], i)
            n == ScheduleJobs(IF algorithm = "DSFQF" THEN Propagated(k) ELSE k)
            done == node[p].sch.osQ[i].pkt
        IN  /\ Finish(p, n)
            /\ work' = [work EXCEPT ![p] = [b \in Apps |->
                 work[p][b] + (IF CountsPop THEN IF b = done.app THEN done.size ELSE 0
                               ELSE IF CountsDispatch
                               THEN OutstandingSize(n.sch, b) - OutstandingSize(k.sch, b)
                               ELSE 0)]]
            /\ UNCHANGED <<arrived, own>>
  BY DEF HandleReadLastWriteFin2
<1> DEFINE done == node[p].sch.osQ[i].pkt
           k == NodePop(node[p], i)
           m == IF algorithm = "DSFQF" THEN Propagated(k) ELSE k
           n == ScheduleJobs(m)
           w(b) == IF CountsPop THEN SizeFor(done, b)
                   ELSE IF CountsDispatch
                   THEN OutstandingSize(n.sch, b) - OutstandingSize(k.sch, b)
                   ELSE 0
<1>2. /\ Finish(p, n) /\ UNCHANGED <<arrived, own>>
      /\ work' = [work EXCEPT ![p] = [b \in Apps |-> work[p][b] + w(b)]]
  BY <1>1 DEF SizeFor
<1>3. /\ TypeOK /\ algorithm \in Algorithms /\ node[p] \in Resting /\ node[p] \in Node
      /\ node[p].sch \in Sound /\ node[p].sch \in Scheduler
      /\ arrived \in [Proxies -> Nat]
      /\ work \in [Proxies -> [Apps -> Nat]] /\ own \in [Proxies -> [Apps -> Nat]]
  BY DEF CInv, DInv, TypeOK, Resting, Sound
<1>4. /\ k.sch = Popped(node[p].sch, i) /\ m.sch = Popped(node[p].sch, i)
      /\ done \in Packet
      /\ \A b \in Apps :
           Sent(m, b) = Sent(node[p], b) + (IF CountsPop THEN SizeFor(done, b) ELSE 0)
  BY <1>3, PopBalances
<1>5. m \in Resting
  BY <1>3, PopRests
<1> HIDE DEF m, done
<1>6. n \in Resting /\ Keeps(m, n)
  BY <1>3, <1>5, ScheduleJobsBalances
<1> HIDE DEF n
<1>7. \A b \in Apps : EndTag(m.sch, b) = EndTag(node[p].sch, b)
  BY <1>3, <1>4, PopEndTag
<1> HIDE DEF k
<1>8. \A b \in Apps :
        /\ Sent(node[p], b) \in Nat /\ Sent(m, b) \in Nat /\ Sent(n, b) \in Nat
        /\ OutstandingSize(n.sch, b) \in Nat /\ OutstandingSize(m.sch, b) \in Nat
        /\ EndTag(n.sch, b) \in Int /\ EndTag(node[p].sch, b) \in Int
        /\ SizeFor(done, b) \in Nat /\ work[p][b] \in Nat /\ own[p][b] \in Nat
  <2>1. n \in Node /\ m \in Node /\ n.sch \in Scheduler /\ m.sch \in Scheduler
    BY <1>5, <1>6 DEF Resting, Sound
  <2>2. QED
    BY <1>3, <1>4, <2>1, SentType, OutstandingType, EndTagType, SizeForType
<1>9. ASSUME NEW b \in Apps
      PROVE  w(b) \in Nat /\ w(b) - Sent(n, b) = 0 - Sent(node[p], b)
  <2>1. /\ Balance(n, b) = Balance(m, b)
        /\ OutstandingSize(n.sch, b) >= OutstandingSize(m.sch, b)
    BY <1>6 DEF Keeps
  <2>2. CASE algorithm = "DSFQD"
    <3>1. ~CountsPop /\ CountsDispatch
      BY <2>2 DEF CountsPop, CountsDispatch
    <3>2. w(b) = OutstandingSize(n.sch, b) - OutstandingSize(m.sch, b)
      BY <1>4, <3>1
    <3>3. Sent(m, b) = Sent(node[p], b)
      BY <1>4, <1>8, <3>1
    <3>4. Sent(n, b) - OutstandingSize(n.sch, b) = Sent(m, b) - OutstandingSize(m.sch, b)
      BY <2>1, <2>2 DEF Balance
    <3> HIDE DEF w
    <3>5. QED
      BY <1>8, <2>1, <3>2, <3>3, <3>4
  <2>3. CASE algorithm # "DSFQD"
    <3>1. ~CountsDispatch
      BY <2>3 DEF CountsDispatch
    <3>2. w(b) = IF CountsPop THEN SizeFor(done, b) ELSE 0
      BY <3>1
    <3>3. Sent(n, b) = Sent(m, b)
      BY <2>1, <2>3 DEF Balance
    <3> HIDE DEF w
    <3>4. QED
      BY <1>4, <1>8, <3>2, <3>3
  <2>4. QED
    BY <2>2, <2>3
<1> HIDE DEF w
<1>10. \A b \in Apps : EndTag(n.sch, b) = EndTag(node[p].sch, b)
  BY <1>6, <1>7 DEF Keeps
<1>11. Accounted(p, n)
  <2> DEFINE W == [b \in Apps |-> work[p][b] + w(b)]
  <2>1. W \in [Apps -> Nat] /\ \A b \in Apps : W[b] = work[p][b] + w(b)
    BY <1>8, <1>9
  <2>2. work' = [work EXCEPT ![p] = W]
    BY <1>2
  <2> HIDE DEF W
  <2>3. work' \in [Proxies -> [Apps -> Nat]] /\ work'[p] = W
        /\ \A q \in Proxies : q # p => work'[q] = work[q]
    BY <1>3, <2>1, <2>2
  <2>4. arrived' = arrived /\ own' = own
    BY <1>2
  <2>5. ASSUME NEW b \in Apps
        PROVE  work'[p][b] - Sent(n, b) = work[p][b] - Sent(node[p], b)
    <3>1. work'[p][b] = work[p][b] + w(b)
      BY <2>1, <2>3
    <3>2. /\ w(b) \in Nat /\ w(b) - Sent(n, b) = 0 - Sent(node[p], b)
          /\ Sent(n, b) \in Nat /\ Sent(node[p], b) \in Nat /\ work[p][b] \in Nat
      BY <1>8, <1>9
    <3>3. QED
      BY <3>1, <3>2
  <2>6. QED
    BY <1>3, <1>10, <2>3, <2>4, <2>5 DEF Accounted
<1>12. QED
  BY <1>2, <1>6, <1>11, FinishAccounts

\* handleAlgorithmTimer.
LEMMA TimerAccounts ==
  ASSUME CInv, DInv', NEW p \in Proxies, HandleAlgorithmTimer(p)
  PROVE  CInv'
<1> DEFINE n == Propagated(node[p])
<1>1. algorithm = "DSFQATB" /\ Finish(p, n) /\ UNCHANGED <<arrived, work, own>>
  BY DEF HandleAlgorithmTimer
<1>2. /\ node[p] \in Resting /\ node[p] \in Node /\ node[p].sch \in Sound
  BY DEF CInv, DInv, Resting
<1>3. /\ n \in Node /\ n.sch = node[p].sch
      /\ n.lengths = IF node[p].active THEN NoLengths ELSE node[p].lengths
  BY <1>2, PropagatedEffect
<1>4. \A a \in Apps : Sent(n, a) = Sent(node[p], a)
  BY <1>2, SentOfPropagated
<1> HIDE DEF n
<1>5. n \in Resting
  <2>1. WithinBound(n)
    BY <1>1, <1>2, <1>3 DEF WithinBound, NoLengths, Resting
  <2>2. QED
    BY <1>2, <1>3, <2>1 DEF Resting
<1>6. Accounted(p, n)
  BY <1>1, <1>3, <1>4 DEF Accounted, CInv, TypeOK
<1>7. QED
  BY <1>1, <1>5, <1>6, FinishAccounts

\* handleInterSchedulerPacket: what r is told leaves the channel for its tags.
LEMMA InterSchedulerAccounts ==
  ASSUME CInv, DInv', NEW p \in Proxies, NEW r \in Proxies, HandleInterSchedulerPacket(p, r)
  PROVE  CInv'
<1> DEFINE l == Head(channel[p][r])
           s == Received(node[r].sch, l)
           m == [node[r] EXCEPT !.sch = s]
<1>1. /\ channel[p][r] # <<>> /\ node' = [node EXCEPT ![r] = m]
      /\ channel' = [channel EXCEPT ![p][r] = Tail(channel[p][r])]
      /\ UNCHANGED <<algorithm, arrived, work, own>>
  BY DEF HandleInterSchedulerPacket
<1>2. /\ TypeOK /\ node \in [Proxies -> Node] /\ node[r] \in Node /\ node[r].sch \in Sound
      /\ channel \in [Proxies -> [Proxies -> Seq([Apps -> Nat])]]
      /\ channel[p][r] \in Seq([Apps -> Nat]) /\ channel[r][r] = <<>>
      /\ \A q \in Proxies : node[q].out = <<>>
  BY DEF CInv, DInv, TypeOK, Resting
<1>3. p # r
  BY <1>1, <1>2
<1>4. l \in [Apps -> Nat]
  BY <1>1, <1>2
<1>5. \A a \in Apps : EndTag(s, a) = EndTag(node[r].sch, a) + Charge(a, l[a])
  BY <1>2, <1>4, ReceivedEndTag
<1>6. \A a \in Apps : Carried(channel[p][r], a) = l[a] + Carried(Tail(channel[p][r]), a)
  BY <1>1, <1>2, CarriedOfTail
<1>7. s \in Scheduler
  BY <1>2, <1>4, ReceivedSound DEF Sound
<1>8. Tail(channel[p][r]) \in Seq([Apps -> Nat])
  BY <1>1, <1>2
<1> HIDE DEF s, l
<1>9. m \in Node /\ m.sch = s /\ m.lengths = node[r].lengths /\ m.out = node[r].out
  BY <1>2, <1>7, NewScheduler
<1> HIDE DEF m
<1>10. node' \in [Proxies -> Node]
       /\ \A q \in Proxies : node'[q] = IF q = r THEN m ELSE node[q]
  BY <1>1, <1>2, <1>9
<1>11. \A q, t \in Proxies : channel'[q][t] =
         IF q = p /\ t = r THEN Tail(channel[p][r]) ELSE channel[q][t]
  BY <1>1, <1>2
<1>12. TypeOK'
  <2>1. \A q \in Proxies : node'[q].out = <<>>
    BY <1>2, <1>9, <1>10
  <2>2. QED
    BY <1>1, <1>10, <2>1 DEF TypeOK, DInv, CInv
<1>13. \A q \in Proxies : channel'[q][q] = <<>>
  BY <1>3, <1>11 DEF CInv
<1>14. ASSUME NEW q \in Proxies, NEW t \in Proxies, NEW a \in Apps
       PROVE  Heard(q, t, a)' = IF q = p /\ t = r THEN Heard(q, t, a) + l[a]
                                ELSE Heard(q, t, a)
  <2>1. CASE q = t
    BY <1>3, <2>1 DEF Heard
  <2>2. CASE q # t
    <3>1. /\ Heard(q, t, a) = work[q][a] - (node[q].lengths[a] + Carried(channel[q][t], a))
          /\ Heard(q, t, a)' = work'[q][a] - (node'[q].lengths[a] + Carried(channel'[q][t], a))
      BY <2>2 DEF Heard, Unheard, InFlight, Carried
    <3>2. node'[q].lengths = node[q].lengths /\ work' = work
      BY <1>1, <1>9, <1>10
    <3>3. CASE q = p /\ t = r
      <4>1. /\ work[q][a] \in Nat /\ node[q].lengths[a] \in Nat /\ l[a] \in Nat
            /\ Carried(channel[q][t], a) \in Nat /\ Carried(Tail(channel[p][r]), a) \in Nat
        BY <1>2, <1>4, <1>8, CarriedType, SentType DEF TypeOK
      <4>2. channel'[q][t] = Tail(channel[p][r])
            /\ Carried(channel[q][t], a) = l[a] + Carried(Tail(channel[p][r]), a)
        BY <1>6, <1>11, <3>3
      <4>3. QED
        BY <3>1, <3>2, <3>3, <4>1, <4>2
    <3>4. CASE ~(q = p /\ t = r)
      BY <1>11, <3>1, <3>2, <3>4
    <3>5. QED
      BY <3>3, <3>4
  <2>3. QED
    BY <2>1, <2>2
<1>15. ASSUME NEW t \in Proxies, NEW a \in Apps
       PROVE  EndTag(node'[t].sch, a) = own'[t][a] + Rate[a] * RemoteWork(t, a)'
  <2>1. EndTag(node[t].sch, a) = own[t][a] + Rate[a] * RemoteWork(t, a)
    BY DEF CInv
  <2>2. CASE t # r
    <3>1. RemoteWork(t, a)' = RemoteWork(t, a)
      BY <1>2, <1>14, <2>2, RemoteWorkSame
    <3>2. QED
      BY <1>1, <1>10, <2>1, <2>2, <3>1
  <2>3. CASE t = r
    <3> DEFINE x == RemoteWork(t, a)
    <3>1. l[a] \in Nat /\ x \in Int /\ Rate[a] \in Nat /\ own[t][a] \in Nat
      BY <1>2, <1>4, HeardType, DSFQAssumption DEF TypeOK
    <3>2. RemoteWork(t, a)' = x + l[a]
      <4>1. \A q \in Proxies : Heard(q, t, a)' = IF q = p THEN Heard(q, t, a) + l[a]
                                                       ELSE Heard(q, t, a)
        BY <1>14, <2>3
      <4>2. l[a] \in Int
        BY <3>1
      <4>3. QED
        BY <1>2, <4>1, <4>2, RemoteWorkMore
    <3>3. EndTag(node'[t].sch, a) = EndTag(node[t].sch, a) + l[a] * Rate[a]
      BY <1>5, <1>9, <1>10, <2>3 DEF Charge
    <3> HIDE DEF x
    <3>4. own[t][a] + Rate[a] * x + l[a] * Rate[a] = own[t][a] + Rate[a] * (x + l[a])
      BY <3>1
    <3>5. QED
      BY <1>1, <2>1, <3>2, <3>3, <3>4 DEF x
  <2>4. QED
    BY <2>2, <2>3
<1>16. QED
  BY <1>12, <1>13, <1>15 DEF CInv

\* The accounts agree at the start.
LEMMA InitAccounts == Init => CInv
<1> SUFFICES ASSUME Init PROVE CInv
  OBVIOUS
<1>1. DInv
  BY InitRests
<1>2. node \in [Proxies -> Node] /\ \A p \in Proxies : node[p] \in Node
  BY <1>1 DEF DInv, Resting
<1>3. /\ \A p \in Proxies : /\ node[p].out = <<>> /\ node[p].lengths = NoLengths
                            /\ node[p].sch = EmptyScheduler
      /\ \A p, r \in Proxies : channel[p][r] = <<>>
      /\ work = [p \in Proxies |-> NoLengths] /\ own = [p \in Proxies |-> NoLengths]
  BY DEF Init
<1>4. NoLengths \in [Apps -> Nat] /\ \A a \in Apps : NoLengths[a] = 0
  BY DEF NoLengths
<1>5. TypeOK
  <2>1. arrived \in [Proxies -> Nat]
    BY DEF Init
  <2>2. work \in [Proxies -> [Apps -> Nat]] /\ own \in [Proxies -> [Apps -> Nat]]
    BY <1>3, <1>4
  <2>3. QED
    BY <1>1, <1>2, <1>3, <2>1, <2>2 DEF TypeOK, DInv
<1>6. ASSUME NEW r \in Proxies, NEW a \in Apps
      PROVE  EndTag(node[r].sch, a) = own[r][a] + Rate[a] * RemoteWork(r, a)
  <2>1. ASSUME NEW p \in Proxies
        PROVE  Heard(p, r, a) = 0
    <3>1. Carried(<<>>, a) = 0
      BY TotalDef DEF Carried
    <3>2. Unheard(p, r, a) = node[p].lengths[a] + Carried(channel[p][r], a)
      BY DEF Unheard, InFlight, Carried
    <3>3. QED
      BY <1>3, <1>4, <3>1, <3>2 DEF Heard
  <2> DEFINE n == Cardinality(Proxies)
             f == HeardFrom(r, a)
  <2>2. n \in Nat /\ RemoteWork(r, a) = Total(f, n) /\ \A i \in 1 .. n : f[i] = 0
    BY <2>1, OrderNamesAll, RemoteWorkDef
  <2> HIDE DEF n, f
  <2>3. Total(f, n) = 0
    BY <2>2, TotalOfNothing
  <2>4. EndTag(node[r].sch, a) = 0
    BY <1>3 DEF EndTag, Backlogged, EmptyScheduler
  <2>5. own[r][a] = 0 /\ Rate[a] \in Nat /\ Rate[a] * 0 = 0
    BY <1>3, <1>4, DSFQAssumption
  <2>6. QED
    BY <2>2, <2>3, <2>4, <2>5
<1>7. QED
  BY <1>1, <1>3, <1>5, <1>6 DEF CInv

\* Every handler keeps the accounts.
LEMMA StepAccounts ==
  ASSUME CInv, [Next]_vars
  PROVE  CInv'
<1>1. DInv'
  BY StepRests DEF CInv
<1>2. CASE UNCHANGED vars
  <2>1. node' = node /\ channel' = channel /\ work' = work /\ own' = own
        /\ algorithm' = algorithm /\ arrived' = arrived
    BY <1>2 DEF vars
  <2>2. \A p, r \in Proxies, a \in Apps : Heard(p, r, a)' = Heard(p, r, a)
    BY <2>1 DEF Heard, Unheard, InFlight
  <2>3. \A r \in Proxies, a \in Apps : RemoteWork(r, a)' = RemoteWork(r, a)
    BY <2>2, RemoteWorkSame DEF CInv
  <2>4. QED
    BY <1>1, <2>1, <2>3 DEF CInv, TypeOK
<1>3. CASE Next
  BY <1>1, <1>3, JobReqAccounts, FinAccounts, InterSchedulerAccounts, TimerAccounts DEF Next
<1>4. QED
  BY <1>2, <1>3

\* The tags of every scheduler account for its own arrivals and for exactly the work of
\* the others that has reached it, with every variant, whatever the order of pushes,
\* dispatches, completions, timers and PROP_SCH messages (DSFQ.cc and its variants,
\* Proxy.cc).
THEOREM DSFQTagsAccountForWork == Spec => []TagsAccountForWork
<1>1. Init => CInv
  BY InitAccounts
<1>2. CInv /\ [Next]_vars => CInv'
  BY StepAccounts
<1>3. CInv => TagsAccountForWork
  BY DEF CInv, TagsAccountForWork
<1>4. QED
  BY <1>1, <1>2, <1>3, PTL DEF Spec
=============================================================================
