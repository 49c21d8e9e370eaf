----------------------------- MODULE SFQProofs -----------------------------
(***************************************************************************)
(* Proofs about one SFQ scheduler, for every number of applications, every *)
(* weight, degree and set of sizes: its tags, its fairness, that it keeps  *)
(* the safety part of the promise of IQueue (JobQueue), and that it is     *)
(* SFQEndless when seen from its virtual time.                             *)
(***************************************************************************)
EXTENDS SFQFair, SFQEndless, SFQQueueLemmas, ListLemmas, FiniteSetTheorems

-----------------------------------------------------------------------------
(* The inductive invariant. *)

\* The invariant holds at the start.
LEMMA InitInv == InitF => IInv
<1> SUFFICES ASSUME InitF PROVE IInv
  OBVIOUS
<1> USE DEF InitF, Init, EmptyScheduler
<1>1. TypeOKF
  <2>1. 0 \in Apps
    BY NumAppsAssumption DEF Apps
  <2>2. QED
    BY <2>1 DEF TypeOKF, TypeOK, Scheduler
<1>2. OwnCharge /\ TagChain /\ TagWindow
  BY DEF OwnCharge, TagChain, TagWindow, Backlogged
<1>3. LastFinish
  BY ChargeAssumption DEF LastFinish
<1>4. LeadMatchesTags
  BY DEF LeadMatchesTags, Backlogged
<1>5. QED
  BY <1>1, <1>2, <1>3, <1>4 DEF IInv

\* A push preserves the invariant.
LEMMA PushInv ==
  ASSUME IInv, NEW p \in Packet, PushF(p)
  PROVE  IInv'
<1> DEFINE a == p.app
           w == q.waitQ[a]
           j == NewJob(q, p)
<1> USE DEF IInv
<1>1. /\ q \in Scheduler
      /\ a \in Apps /\ p.size \in Sizes
      /\ q.waitQ \in [Apps -> Seq(Job)] /\ q.maxftags \in [Apps -> Nat]
      /\ q.vtime \in Nat /\ MaxCharge \in Nat
  BY ChargeAssumption DEF TypeOKF, TypeOK, Scheduler, Packet
<1>2. /\ q' \in Scheduler
      /\ q'.waitQ = [q.waitQ EXCEPT ![a] = Append(w, j)]
      /\ q'.vtime = q.vtime
      /\ q'.maxftags = q.maxftags
      /\ lead' = lead
  BY <1>1, PushEffect DEF PushF, PushWaitQ
<1>3. /\ j \in Job /\ j.pkt = p
      /\ j.stag = ArrivalTag(q, a) /\ ArrivalTag(q, a) \in Nat
      /\ j.ftag = j.stag + Charge(a, p.size)
  BY <1>1, NewJobType
<1>4. w \in Seq(Job)
  BY <1>1
<1>5. q'.waitQ[a] = Append(w, j) /\ \A b \in Apps \ {a} : q'.waitQ[b] = q.waitQ[b]
  BY <1>1, <1>2
<1> HIDE DEF w, j, a
<1>6. TypeOKF'
  BY <1>2 DEF TypeOKF, TypeOK
<1>7. OwnCharge'
  <2>1. ASSUME NEW k \in DOMAIN Append(w, j)
        PROVE  Append(w, j)[k].pkt.app = a /\ JobCharge(Append(w, j)[k])
    <3>1. CASE k \in DOMAIN w
      <4>1. Append(w, j)[k] = w[k]
        BY <3>1, <1>3, <1>4
      <4>2. QED
        BY <4>1, <3>1, <1>1 DEF OwnCharge, w
    <3>2. CASE k = Len(w) + 1
      <4>1. Append(w, j)[k] = j
        BY <3>2, <1>3, <1>4
      <4>2. QED
        BY <4>1, <1>3 DEF JobCharge, a
    <3>3. QED
      BY <3>1, <3>2, <2>1, <1>3, <1>4
  <2>2. QED
    BY <2>1, <1>1, <1>5 DEF OwnCharge
<1>8. TagChain'
  <2>1. ASSUME NEW k \in 1 .. Len(Append(w, j)) - 1
        PROVE  Append(w, j)[k+1].stag = Append(w, j)[k].ftag
    <3>1. CASE k < Len(w)
      BY <3>1, <1>1, <1>4 DEF TagChain, w
    <3>2. CASE k = Len(w)
      <4>1. w # <<>> /\ Append(w, j)[k] = w[Len(w)] /\ Append(w, j)[k+1] = j
        BY <3>2, <1>3, <1>4, <2>1
      <4>2. j.stag = w[Len(w)].ftag
        BY <4>1, <1>3 DEF ArrivalTag, Backlogged, w
      <4>3. QED
        BY <4>1, <4>2
    <3>3. QED
      BY <3>1, <3>2, <1>3, <1>4
  <2>2. QED
    BY <2>1, <1>1, <1>5, ZenonT(30) DEF TagChain
<1>9. LastFinish'
  BY <1>2 DEF LastFinish
<1>10. \A b \in Apps : Backlogged(q, b) =>
         Backlogged(q', b) /\ FrontTag(q', b) = FrontTag(q, b)
  <2>1. w # <<>> => Append(w, j) # <<>> /\ Append(w, j)[1] = w[1]
    BY <1>3, <1>4
  <2>2. QED
    BY <2>1, <1>1, <1>5 DEF Backlogged, FrontTag, w
<1>11. TagWindow'
  <2> SUFFICES ASSUME NEW b \in Apps, Backlogged(q', b)
               PROVE  /\ q.vtime <= FrontTag(q', b)
                      /\ FrontTag(q', b) <= q.vtime + MaxCharge
    BY <1>2 DEF TagWindow
  <2>1. CASE Backlogged(q, b)
    BY <2>1, <1>10 DEF TagWindow
  <2>2. CASE ~Backlogged(q, b)
    <3>1. b = a /\ w = <<>>
      BY <2>2, <1>1, <1>5 DEF Backlogged, w
    <3>2. FrontTag(q', b) = ArrivalTag(q, a)
      BY <3>1, <1>3, <1>5 DEF FrontTag
    <3>3. ArrivalTag(q, a) = q.vtime \/
            (q.maxftags[a] > q.vtime /\ ArrivalTag(q, a) = q.maxftags[a])
      BY <2>2, <3>1 DEF ArrivalTag
    <3>4. q.maxftags[a] \in Nat /\ q.maxftags[a] <= q.vtime + MaxCharge
      BY <1>1 DEF LastFinish
    <3>5. QED
      BY <3>2, <3>3, <3>4, <1>1
  <2>3. QED
    BY <2>1, <2>2
<1>12. LeadMatchesTags'
  <2> SUFFICES ASSUME NEW b \in Apps, NEW c \in Apps
               PROVE  IF Backlogged(q', b) /\ Backlogged(q', c)
                      THEN LET drift == lead[b][c] - (FrontTag(q', b) - FrontTag(q', c))
                           IN  -MaxCharge <= drift /\ drift <= MaxCharge
                      ELSE lead[b][c] = 0
    BY <1>2 DEF LeadMatchesTags
  <2>1. CASE Backlogged(q, b) /\ Backlogged(q, c)
    BY <2>1, <1>10 DEF LeadMatchesTags
  <2>2. CASE ~(Backlogged(q, b) /\ Backlogged(q, c))
    <3>1. lead[b][c] = 0
      BY <2>2 DEF LeadMatchesTags
    <3>2. ASSUME NEW d \in Apps, Backlogged(q', d)
          PROVE  FrontTag(q', d) \in q.vtime .. q.vtime + MaxCharge
      <4>1. FrontTag(q', d) \in Nat
        BY <1>2, <3>2, FrontIsJob
      <4>2. QED
        BY <4>1, <1>1, <1>2, <1>11, <3>2 DEF TagWindow
    <3>3. QED
      BY <3>1, <3>2, <1>1
  <2>3. QED
    BY <2>1, <2>2
<1>13. QED
  BY <1>6, <1>7, <1>8, <1>9, <1>11, <1>12

\* A step that leaves the waiting queues, the tags and lead alone preserves it.
LEMMA QuietInv ==
  ASSUME IInv, q' \in Scheduler, lead' = lead, q'.waitQ = q.waitQ,
         q'.vtime = q.vtime, q'.maxftags = q.maxftags
  PROVE  IInv'
<1> USE DEF IInv
<1>1. TypeOKF'
  BY DEF TypeOKF, TypeOK
<1>2. OwnCharge' /\ TagChain' /\ LastFinish'
  BY DEF OwnCharge, TagChain, LastFinish
<1>3. TagWindow' /\ LeadMatchesTags'
  BY DEF TagWindow, LeadMatchesTags, Backlogged, FrontTag
<1>4. QED
  BY <1>1, <1>2, <1>3

\* A dispatch preserves the invariant.
LEMMA DispatchInv ==
  ASSUME IInv, NEW c \in Apps, DispatchF(c)
  PROVE  IInv' /\ q'.vtime >= q.vtime
<1> DEFINE w    == q.waitQ[c]
           job  == w[1]
           rest == Tail(w)
           cost == Charge(c, job.pkt.size)
           more == [rest EXCEPT ![1] = Retagged(job, rest[1])]
<1> USE DEF IInv
<1>1. /\ q \in Scheduler
      /\ q.waitQ \in [Apps -> Seq(Job)] /\ q.maxftags \in [Apps -> Nat]
      /\ q.vtime \in Nat /\ MaxCharge \in Nat
      /\ lead \in [Apps -> [Apps -> Int]]
  BY ChargeAssumption DEF TypeOKF, TypeOK, Scheduler
<1>2. Backlogged(q, c) /\ q' = Dispatched(q, c)
  BY DEF DispatchF, DispatchNext, CanDispatch, IsNext
<1>3. w \in Seq(Job) /\ 1 \in DOMAIN w /\ job \in Job /\ FrontTag(q, c) = job.stag
  BY <1>1, <1>2, FrontIsJob DEF FrontTag
<1>4. \A k \in DOMAIN w : /\ w[k] \in Job
                           /\ w[k].ftag = w[k].stag + Charge(c, w[k].pkt.size)
                           /\ Charge(c, w[k].pkt.size) \in 0 .. MaxCharge
  <2> SUFFICES ASSUME NEW k \in DOMAIN w
               PROVE  /\ w[k] \in Job
                      /\ w[k].ftag = w[k].stag + Charge(c, w[k].pkt.size)
                      /\ Charge(c, w[k].pkt.size) \in 0 .. MaxCharge
    OBVIOUS
  <2>1. w[k] \in Job
    BY <1>3
  <2>2. w[k].ftag = w[k].stag + Charge(c, w[k].pkt.size)
    BY DEF OwnCharge, JobCharge
  <2>3. w[k].pkt.size \in Sizes
    BY <2>1 DEF Job, Packet
  <2>4. QED
    BY <2>1, <2>2, <2>3, ChargeAssumption
<1>5. \A k \in DOMAIN w : w[k].ftag >= w[k].stag
  BY <1>1, <1>4 DEF Job
<1>6. /\ q' \in Scheduler
      /\ q'.vtime = job.stag
      /\ rest = <<>> =>
           /\ q'.waitQ = [q.waitQ EXCEPT ![c] = <<>>]
           /\ q'.maxftags = [q.maxftags EXCEPT ![c] = job.ftag]
      /\ rest # <<>> =>
           /\ q'.waitQ = [q.waitQ EXCEPT ![c] = more]
           /\ q'.maxftags = q.maxftags
           /\ rest[1] = w[2]
  BY <1>1, <1>2, <1>5, DispatchEffect
<1>7. /\ job.stag \in Nat /\ job.ftag \in Nat /\ cost \in 0 .. MaxCharge
      /\ job.ftag = job.stag + cost
      /\ q.vtime <= job.stag /\ job.stag <= q.vtime + MaxCharge
  <2>1. q.vtime <= FrontTag(q, c) /\ FrontTag(q, c) <= q.vtime + MaxCharge
    BY <1>2 DEF TagWindow
  <2>2. QED
    BY <2>1, <1>3, <1>4 DEF Job
\* The rewritten tags of the new front are the ones it had.
<1>8. ASSUME rest # <<>>
      PROVE  more = rest /\ rest \in Seq(Job) /\ rest[1].stag = job.ftag
  <2>1. 2 \in DOMAIN w /\ rest[1] = w[2] /\ rest \in Seq(Job) /\ 1 \in DOMAIN rest
    BY <1>3, <1>8
  <2>2. w[2].stag = job.ftag
    <3>1. 1 \in 1 .. Len(w) - 1
      BY <2>1, <1>3
    <3>2. q.waitQ[c][1+1].stag = q.waitQ[c][1].ftag
      BY <3>1 DEF TagChain
    <3>3. QED
      BY <3>2
  <2>3. Retagged(job, rest[1]) = rest[1]
    <3> DEFINE j == rest[1]
    <3>1. j \in Job /\ j.stag = job.ftag
      BY <2>1, <2>2
    <3> HIDE DEF j, job
    <3>2. /\ j = [pkt |-> j.pkt, stag |-> j.stag, ftag |-> j.ftag]
          /\ j.stag \in Nat /\ j.ftag \in Nat
      BY <3>1 DEF Job
    <3>3. j.ftag + (job.ftag - j.stag) = j.ftag
      BY <3>1, <3>2
    <3>4. Retagged(job, j) = j
      BY <3>1, <3>2, <3>3, Zenon DEF Retagged
    <3>5. QED
      BY <3>4 DEF j
  <2>4. more = rest
    BY <2>1, <2>3, ExceptSame
  <2>5. QED
    BY <2>1, <2>2, <2>4
<1>9. /\ q'.waitQ[c] = rest
      /\ \A b \in Apps \ {c} : q'.waitQ[b] = q.waitQ[b]
      /\ \A k \in DOMAIN rest : k + 1 \in DOMAIN w /\ rest[k] = w[k+1]
      /\ rest \in Seq(Job) /\ Len(rest) = Len(w) - 1
  <2>1. w # <<>>
    BY <1>3
  <2>2. /\ rest \in Seq(Job) /\ Len(rest) = Len(w) - 1
        /\ \A k \in DOMAIN rest : k + 1 \in DOMAIN w /\ rest[k] = w[k+1]
    BY <2>1, <1>3, TailElements
  <2>3. q'.waitQ = [q.waitQ EXCEPT ![c] = rest]
    BY <1>6, <1>8
  <2>4. QED
    BY <2>2, <2>3, <1>1
<1> HIDE DEF w, job, rest, cost, more
<1>10. TypeOKF'
  <2>1. \A a, b \in Apps : Worth(a, c) \in Int /\ Worth(b, c) \in Int
    BY <1>3, <1>7 DEF Worth, w, job
  <2>2. lead' \in [Apps -> [Apps -> Int]]
    BY <2>1, <1>1 DEF DispatchF, LeadAfter
  <2>3. QED
    BY <2>2, <1>6 DEF TypeOKF, TypeOK
<1>11. OwnCharge'
  <2>1. ASSUME NEW k \in DOMAIN rest
        PROVE  rest[k].pkt.app = c /\ JobCharge(rest[k])
    BY <2>1, <1>9 DEF OwnCharge, w
  <2>2. QED
    BY <2>1, <1>9 DEF OwnCharge
<1>12. TagChain'
  <2>1. ASSUME NEW k \in 1 .. Len(rest) - 1
        PROVE  rest[k+1].stag = rest[k].ftag
    <3>1. k + 1 \in 1 .. Len(w) - 1 /\ rest[k] = w[k+1] /\ rest[k+1] = w[(k+1)+1]
      BY <2>1, <1>3, <1>9
    <3>2. w[(k+1)+1].stag = w[k+1].ftag
      BY <3>1 DEF TagChain, w
    <3>3. QED
      BY <3>1, <3>2
  <2>2. SUFFICES ASSUME NEW a \in Apps, NEW k \in 1 .. Len(q'.waitQ[a]) - 1
                 PROVE  q'.waitQ[a][k+1].stag = q'.waitQ[a][k].ftag
    BY DEF TagChain
  <2>3. CASE a = c
    BY <2>1, <2>2, <2>3, <1>9
  <2>4. CASE a # c
    BY <2>2, <2>4, <1>9 DEF TagChain
  <2>5. QED
    BY <2>3, <2>4
<1>13. LastFinish'
  <2>1. \A b \in Apps : q'.maxftags[b] = q.maxftags[b] \/ q'.maxftags[b] = job.ftag
    BY <1>1, <1>6
  <2>2. \A b \in Apps : q.maxftags[b] \in Nat /\ q.maxftags[b] <= q.vtime + MaxCharge
    BY <1>1 DEF LastFinish
  <2>3. ASSUME NEW b \in Apps
        PROVE  q'.maxftags[b] <= q'.vtime + MaxCharge
    <3>1. q'.maxftags[b] = q.maxftags[b] \/ q'.maxftags[b] = job.ftag
      BY <2>1
    <3>2. q.maxftags[b] \in Nat /\ q.maxftags[b] <= q.vtime + MaxCharge
      BY <2>2
    <3>3. q'.vtime = job.stag
      BY <1>6
    <3>4. QED
      BY <3>1, <3>2, <3>3, <1>1, <1>7, SMTT(20)
  <2>4. QED
    BY <2>3 DEF LastFinish
\* No other front starts before the job that was picked.
<1>14. \A b \in Apps \ {c} : Backlogged(q', b) =>
         /\ Backlogged(q, b)
         /\ FrontTag(q', b) = FrontTag(q, b)
         /\ FrontTag(q, b) \in Nat
         /\ job.stag <= FrontTag(q, b)
         /\ FrontTag(q, b) <= q.vtime + MaxCharge
  <2> SUFFICES ASSUME NEW b \in Apps \ {c}, Backlogged(q', b)
               PROVE  /\ Backlogged(q, b)
                      /\ FrontTag(q', b) = FrontTag(q, b)
                      /\ FrontTag(q, b) \in Nat
                      /\ job.stag <= FrontTag(q, b)
                      /\ FrontTag(q, b) <= q.vtime + MaxCharge
    OBVIOUS
  <2>1. Backlogged(q, b) /\ FrontTag(q', b) = FrontTag(q, b)
    BY <1>9 DEF Backlogged, FrontTag
  <2>2. FrontTag(q, b) \in Nat
    BY <2>1, <1>1, FrontIsJob
  <2>3. FrontTag(q, c) < FrontTag(q, b) \/ FrontTag(q, c) = FrontTag(q, b)
    BY <2>1 DEF DispatchF, DispatchNext, CanDispatch, IsNext
  <2>4. QED
    BY <2>1, <2>2, <2>3, <1>3, <1>7 DEF TagWindow, job, w
<1>15. Backlogged(q', c) => FrontTag(q', c) = job.stag + cost
  BY <1>7, <1>8, <1>9 DEF Backlogged, FrontTag
<1>16. TagWindow'
  <2> SUFFICES ASSUME NEW b \in Apps, Backlogged(q', b)
               PROVE  /\ q'.vtime <= FrontTag(q', b)
                      /\ FrontTag(q', b) <= q'.vtime + MaxCharge
    BY DEF TagWindow
  <2>1. CASE b = c
    <3>1. FrontTag(q', b) = job.stag + cost /\ q'.vtime = job.stag
      BY <2>1, <1>6, <1>15
    <3>2. QED
      BY <3>1, <1>1, <1>7
  <2>2. CASE b # c
    <3>1. /\ FrontTag(q', b) \in Nat /\ q'.vtime = job.stag
          /\ job.stag <= FrontTag(q', b)
          /\ FrontTag(q', b) <= q.vtime + MaxCharge
      BY <2>2, <1>6, <1>14
    <3>2. QED
      BY <3>1, <1>1, <1>7
  <2>3. QED
    BY <2>1, <2>2
<1>17. LeadMatchesTags'
  <2> SUFFICES ASSUME NEW a \in Apps, NEW b \in Apps
               PROVE  IF Backlogged(q', a) /\ Backlogged(q', b)
                      THEN LET drift == lead'[a][b] - (FrontTag(q', a) - FrontTag(q', b))
                           IN  -MaxCharge <= drift /\ drift <= MaxCharge
                      ELSE lead'[a][b] = 0
    BY DEF LeadMatchesTags
  <2>1. lead'[a][b] = IF Backlogged(q', a) /\ Backlogged(q', b)
                      THEN lead[a][b] + Worth(a, c) - Worth(b, c) ELSE 0
    BY DEF DispatchF, LeadAfter
  <2>2. CASE Backlogged(q', a) /\ Backlogged(q', b)
    <3>1. \A x \in Apps : Backlogged(q', x) =>
            /\ Backlogged(q, x)
            /\ FrontTag(q, x) \in Nat
            /\ Worth(x, c) \in Nat
            /\ FrontTag(q', x) = FrontTag(q, x) + Worth(x, c)
      <4>1. Worth(c, c) = cost
        BY <1>3, <1>7 DEF Worth, w, job
      <4>2. \A x \in Apps \ {c} : Worth(x, c) = 0
        BY DEF Worth
      <4>3. QED
        BY <4>1, <4>2, <1>2, <1>3, <1>7, <1>14, <1>15
    <3>2. LET drift == lead[a][b] - (FrontTag(q, a) - FrontTag(q, b))
          IN  -MaxCharge <= drift /\ drift <= MaxCharge
      BY <3>1, <2>2 DEF LeadMatchesTags
    <3>3. lead[a][b] \in Int
      BY <1>1
    <3>4. /\ FrontTag(q, a) \in Nat /\ FrontTag(q, b) \in Nat
          /\ Worth(a, c) \in Nat /\ Worth(b, c) \in Nat
          /\ FrontTag(q', a) = FrontTag(q, a) + Worth(a, c)
          /\ FrontTag(q', b) = FrontTag(q, b) + Worth(b, c)
          /\ lead'[a][b] = lead[a][b] + Worth(a, c) - Worth(b, c)
      BY <3>1, <2>1, <2>2
    <3>5. lead'[a][b] - (FrontTag(q', a) - FrontTag(q', b))
            = lead[a][b] - (FrontTag(q, a) - FrontTag(q, b))
      BY <3>3, <3>4
    <3>6. QED
      BY <3>2, <3>5, <2>2
  <2>3. CASE ~(Backlogged(q', a) /\ Backlogged(q', b))
    BY <2>1, <2>3
  <2>4. QED
    BY <2>2, <2>3
<1>18. q'.vtime >= q.vtime
  BY <1>1, <1>6, <1>7
<1>19. QED
  BY <1>10, <1>11, <1>12, <1>13, <1>16, <1>17, <1>18

\* Every step preserves the invariant and no step turns the virtual time back.
LEMMA StepInv ==
  ASSUME IInv, [NextF]_<<q, lead>>
  PROVE  IInv' /\ q'.vtime >= q.vtime
<1>1. q \in Scheduler /\ q.vtime \in Nat
  BY DEF IInv, TypeOKF, TypeOK, Scheduler
<1>2. ASSUME NEW p \in Packet, PushF(p)
      PROVE  IInv' /\ q'.vtime >= q.vtime
  <2>1. IInv'
    BY <1>2, PushInv
  <2>2. q'.vtime = q.vtime
    BY <1>1, <1>2, PushEffect DEF PushF, PushWaitQ
  <2>3. QED
    BY <2>1, <2>2, <1>1
<1>3. ASSUME NEW c \in Apps, DispatchF(c)
      PROVE  IInv' /\ q'.vtime >= q.vtime
  BY <1>3, DispatchInv
<1>4. ASSUME NEW id \in Ids, PopF(id)
      PROVE  IInv' /\ q'.vtime >= q.vtime
  <2>1. PICK k \in DOMAIN q.osQ : q' = Popped(q, k)
    BY <1>4 DEF PopF, PopOsQ
  <2>2. /\ q' \in Scheduler /\ q'.waitQ = q.waitQ
        /\ q'.vtime = q.vtime /\ q'.maxftags = q.maxftags
    BY <2>1, <1>1, PopEffect
  <2>3. QED
    BY <2>2, <1>1, <1>4, QuietInv DEF PopF
<1>5. ASSUME UNCHANGED <<q, lead>>
      PROVE  IInv' /\ q'.vtime >= q.vtime
  BY <1>1, <1>5, QuietInv
<1>6. QED
  BY <1>2, <1>3, <1>4, <1>5 DEF NextF

-----------------------------------------------------------------------------
(* The results. *)

\* The invariant holds in every reachable state: the scheduler state stays well
\* formed, tags are back to back, and fronts stay within the window of vtime.
THEOREM SFQInvariant == SpecF => []IInv
<1>1. InitF => IInv
  BY InitInv
<1>2. IInv /\ [NextF]_<<q, lead>> => IInv'
  BY StepInv
<1>3. QED
  BY <1>1, <1>2, PTL DEF SpecF

\* SFQ's fairness: the weighted service of two backlogged applications never
\* differs by more than two packets' worth.
THEOREM SFQFairShare == SpecF => []FairShare
<1>1. IInv => FairShare
  <2> SUFFICES ASSUME IInv, NEW a \in Apps, NEW b \in Apps
               PROVE  lead[a][b] <= 2 * MaxCharge
    BY DEF FairShare
  <2>1. MaxCharge \in Nat /\ lead[a][b] \in Int /\ q \in Scheduler /\ q.vtime \in Nat
    BY ChargeAssumption DEF IInv, TypeOKF, TypeOK, Scheduler
  <2>2. CASE Backlogged(q, a) /\ Backlogged(q, b)
    <3>1. FrontTag(q, a) \in Nat /\ FrontTag(q, b) \in Nat
      BY <2>1, <2>2, FrontIsJob
    <3>2. /\ q.vtime <= FrontTag(q, b)
          /\ FrontTag(q, a) <= q.vtime + MaxCharge
          /\ lead[a][b] - (FrontTag(q, a) - FrontTag(q, b)) <= MaxCharge
      BY <2>2 DEF IInv, TagWindow, LeadMatchesTags
    <3>3. QED
      BY <2>1, <3>1, <3>2
  <2>3. CASE ~(Backlogged(q, a) /\ Backlogged(q, b))
    BY <2>1, <2>3 DEF IInv, LeadMatchesTags
  <2>4. QED
    BY <2>2, <2>3
<1>2. QED
  BY <1>1, SFQInvariant, PTL

\* No idle application gains credit and none is charged beyond its last packet:
\* the start tags at the fronts stay within one packet of the virtual time.
THEOREM SFQTagWindow == SpecF => []TagWindow
<1>1. IInv => TagWindow
  BY DEF IInv
<1>2. QED
  BY <1>1, SFQInvariant, PTL

\* The virtual time never goes back.
THEOREM SFQVtimeMonotone == SpecF => VtimeMonotone
<1>1. IInv /\ [NextF]_<<q, lead>> => [q'.vtime >= q.vtime]_q
  BY StepInv
<1>2. QED
  BY <1>1, SFQInvariant, PTL DEF SpecF, VtimeMonotone

-----------------------------------------------------------------------------
(* SFQ implements JobQueue: whatever its tags are, its steps are those of queues in order  *)
(* of arrival from which jobs are handed out within the degree.                            *)
(* Of a scheduler s only the identifiers of its jobs are visible. *)

Waiting(s) == [a \in Apps |-> PktIds(s.waitQ[a])]
Out(s)     == PktIds(s.osQ)

\* No two jobs that the scheduler holds have the same identifier.
IdsApart(s) ==
  /\ \A a, b \in Apps : \A i \in DOMAIN Waiting(s)[a], k \in DOMAIN Waiting(s)[b] :
       Waiting(s)[a][i] = Waiting(s)[b][k] => a = b /\ i = k
  /\ \A i, k \in DOMAIN Out(s) : Out(s)[i] = Out(s)[k] => i = k
  /\ \A a \in Apps : \A i \in DOMAIN Waiting(s)[a], k \in DOMAIN Out(s) :
       Waiting(s)[a][i] # Out(s)[k]

\* The identifiers of the packets of a list of jobs, in the order of the list.
LEMMA PktIdsOfJobs ==
  ASSUME NEW s \in Seq(Job)
  PROVE  /\ PktIds(s) \in Seq(Ids)
         /\ Len(PktIds(s)) = Len(s) /\ DOMAIN PktIds(s) = DOMAIN s
         /\ \A k \in DOMAIN s : PktIds(s)[k] = s[k].pkt.id
         /\ ToSet(PktIds(s)) = {j.pkt.id : j \in ToSet(s)}
<1>1. ASSUME NEW k \in DOMAIN s
      PROVE  s[k].pkt.id \in Ids
  <2>1. s[k] \in Job
    OBVIOUS
  <2>2. QED
    BY <2>1 DEF Job, Packet
<1>2. DOMAIN s = 1 .. Len(s) /\ Len(s) \in Nat
  OBVIOUS
<1>3. /\ PktIds(s) \in Seq(Ids) /\ Len(PktIds(s)) = Len(s)
      /\ DOMAIN PktIds(s) = DOMAIN s
      /\ \A k \in DOMAIN s : PktIds(s)[k] = s[k].pkt.id
  BY <1>1, <1>2 DEF PktIds
<1>4. QED
  BY <1>3 DEF ToSet

\* What is visible of a well formed scheduler.
LEMMA VisibleType ==
  ASSUME NEW s \in Scheduler
  PROVE  /\ Waiting(s) \in [Apps -> Seq(Ids)] /\ Out(s) \in Seq(Ids)
         /\ OutstandingIds(s) = ToSet(Out(s)) /\ Len(Out(s)) = Len(s.osQ)
         /\ WaitingIds(s) = UNION {ToSet(Waiting(s)[a]) : a \in Apps}
<1>1. s.osQ \in Seq(Job) /\ \A a \in Apps : s.waitQ[a] \in Seq(Job)
  BY DEF Scheduler
<1>2. /\ PktIds(s.osQ) \in Seq(Ids) /\ Len(PktIds(s.osQ)) = Len(s.osQ)
      /\ ToSet(PktIds(s.osQ)) = {j.pkt.id : j \in ToSet(s.osQ)}
  BY <1>1, PktIdsOfJobs
<1>3. \A a \in Apps : /\ PktIds(s.waitQ[a]) \in Seq(Ids)
                      /\ ToSet(PktIds(s.waitQ[a])) = {j.pkt.id : j \in ToSet(s.waitQ[a])}
  BY <1>1, PktIdsOfJobs
<1>4. Waiting(s) \in [Apps -> Seq(Ids)]
  BY <1>3 DEF Waiting
<1>5. WaitingIds(s) = UNION {ToSet(Waiting(s)[a]) : a \in Apps}
  BY <1>3 DEF WaitingIds, Waiting
<1>6. QED
  BY <1>2, <1>4, <1>5 DEF Out, OutstandingIds

\* Appending a job appends its identifier.
LEMMA PktIdsAppend ==
  ASSUME NEW s \in Seq(Job), NEW j \in Job
  PROVE  PktIds(Append(s, j)) = Append(PktIds(s), j.pkt.id)
<1>1. Append(s, j) \in Seq(Job) /\ j.pkt.id \in Ids
  BY DEF Job, Packet
<1>2. /\ PktIds(s) \in Seq(Ids) /\ Len(PktIds(s)) = Len(s)
      /\ \A k \in DOMAIN s : PktIds(s)[k] = s[k].pkt.id
  BY PktIdsOfJobs
<1>3. /\ PktIds(Append(s, j)) \in Seq(Ids)
      /\ Len(PktIds(Append(s, j))) = Len(Append(s, j))
      /\ \A k \in DOMAIN Append(s, j) : PktIds(Append(s, j))[k] = Append(s, j)[k].pkt.id
  BY <1>1, PktIdsOfJobs
<1>4. QED
  BY <1>1, <1>2, <1>3

\* Dispatching the head of a list takes the head of its identifiers.
LEMMA PktIdsTail ==
  ASSUME NEW s \in Seq(Job), s # <<>>
  PROVE  PktIds(Tail(s)) = Tail(PktIds(s)) /\ Head(PktIds(s)) = s[1].pkt.id
<1>1. Tail(s) \in Seq(Job) /\ Len(Tail(s)) = Len(s) - 1
  OBVIOUS
<1>2. /\ PktIds(s) \in Seq(Ids) /\ Len(PktIds(s)) = Len(s)
      /\ \A k \in DOMAIN s : PktIds(s)[k] = s[k].pkt.id
  BY PktIdsOfJobs
<1>3. /\ PktIds(Tail(s)) \in Seq(Ids) /\ Len(PktIds(Tail(s))) = Len(Tail(s))
      /\ \A k \in DOMAIN Tail(s) : PktIds(Tail(s))[k] = Tail(s)[k].pkt.id
  BY <1>1, PktIdsOfJobs
<1>4. QED
  BY <1>1, <1>2, <1>3

\* Removing a job from a list removes its identifier at the same place.
LEMMA PktIdsRemove ==
  ASSUME NEW s \in Seq(Job), NEW k \in DOMAIN s
  PROVE  PktIds(RemoveAt(s, k)) = RemoveAt(PktIds(s), k)
<1>1. /\ RemoveAt(s, k) \in Seq(Job) /\ Len(RemoveAt(s, k)) = Len(s) - 1
      /\ \A i \in 1 .. Len(s) - 1 : RemoveAt(s, k)[i] = IF i < k THEN s[i] ELSE s[i+1]
  BY RemoveAtElements
<1>2. /\ PktIds(s) \in Seq(Ids) /\ Len(PktIds(s)) = Len(s) /\ DOMAIN PktIds(s) = DOMAIN s
      /\ \A i \in DOMAIN s : PktIds(s)[i] = s[i].pkt.id
  BY PktIdsOfJobs
<1>3. /\ PktIds(RemoveAt(s, k)) \in Seq(Ids) /\ Len(PktIds(RemoveAt(s, k))) = Len(s) - 1
      /\ \A i \in 1 .. Len(s) - 1 :
           PktIds(RemoveAt(s, k))[i] = RemoveAt(s, k)[i].pkt.id
  BY <1>1, PktIdsOfJobs
<1>4. /\ RemoveAt(PktIds(s), k) \in Seq(Ids) /\ Len(RemoveAt(PktIds(s), k)) = Len(s) - 1
      /\ \A i \in 1 .. Len(s) - 1 :
           RemoveAt(PktIds(s), k)[i] = IF i < k THEN PktIds(s)[i] ELSE PktIds(s)[i+1]
  BY <1>2, RemoveAtElements, ZenonT(30)
<1>5. ASSUME NEW i \in 1 .. Len(s) - 1
      PROVE  PktIds(RemoveAt(s, k))[i] = RemoveAt(PktIds(s), k)[i]
  <2>1. i \in DOMAIN s /\ i + 1 \in DOMAIN s
    OBVIOUS
  <2>2. QED
    BY <1>1, <1>2, <1>3, <1>4, <2>1
<1>6. QED
  BY <1>3, <1>4, <1>5, SeqEqual

-----------------------------------------------------------------------------
(* What the methods do to what is visible. *)

\* SFQ::pushWaitQ appends the packet's identifier to its application's list.
LEMMA PushVisible ==
  ASSUME NEW s \in Scheduler, NEW p \in Packet
  PROVE  /\ Waiting(Pushed(s, p)) = [Waiting(s) EXCEPT ![p.app] = Append(@, p.id)]
         /\ Out(Pushed(s, p)) = Out(s)
<1>1. p.app \in Apps /\ s.waitQ \in [Apps -> Seq(Job)]
  BY DEF Packet, Scheduler
<1>2. NewJob(s, p) \in Job /\ NewJob(s, p).pkt = p
  BY NewJobType
<1>3. Pushed(s, p).waitQ = [s.waitQ EXCEPT ![p.app] = Append(s.waitQ[p.app], NewJob(s, p))]
  BY PushEffect
<1>4. PktIds(Append(s.waitQ[p.app], NewJob(s, p))) = Append(PktIds(s.waitQ[p.app]), p.id)
  BY <1>1, <1>2, PktIdsAppend
<1>5. Pushed(s, p).osQ = s.osQ
  BY DEF Pushed, Scheduler
<1>6. QED
  BY <1>1, <1>3, <1>4, <1>5 DEF Waiting, Out

\* SFQ::popOsQ removes one identifier from the outstanding ones and touches no waiting list.
LEMMA PopVisible ==
  ASSUME NEW s \in Scheduler, NEW k \in DOMAIN s.osQ
  PROVE  /\ Waiting(Popped(s, k)) = Waiting(s)
         /\ Out(Popped(s, k)) = RemoveAt(Out(s), k)
<1>1. s.osQ \in Seq(Job)
  BY DEF Scheduler
<1>2. Popped(s, k).waitQ = s.waitQ
  BY PopEffect
<1>3. Popped(s, k).osQ = RemoveAt(s.osQ, k)
  BY DEF Popped, Scheduler
<1>4. PktIds(RemoveAt(s.osQ, k)) = RemoveAt(PktIds(s.osQ), k)
  BY <1>1, PktIdsRemove
<1>5. QED
  BY <1>2, <1>3, <1>4 DEF Waiting, Out

\* SFQ::dispatchNext moves the first identifier of one application's list to the
\* outstanding ones: retagging the new front does not change its identifier.
LEMMA DispatchVisible ==
  ASSUME NEW s \in Scheduler, NEW a \in Apps, Backlogged(s, a),
         \A k \in DOMAIN s.waitQ[a] : s.waitQ[a][k].ftag >= s.waitQ[a][k].stag
  PROVE  /\ Waiting(s)[a] # <<>>
         /\ Waiting(Dispatched(s, a)) = [Waiting(s) EXCEPT ![a] = Tail(@)]
         /\ Out(Dispatched(s, a)) = Append(Out(s), Head(Waiting(s)[a]))
<1> DEFINE w == s.waitQ[a]
           job == w[1]
           rest == Tail(w)
           more == [rest EXCEPT ![1] = Retagged(job, rest[1])]
<1>1. /\ w \in Seq(Job) /\ w # <<>> /\ job \in Job /\ s.osQ \in Seq(Job)
      /\ s.waitQ \in [Apps -> Seq(Job)]
  BY FrontIsJob DEF Scheduler, Backlogged
<1>2. rest \in Seq(Job)
  BY <1>1
<1>3. PktIds(rest) = Tail(PktIds(w)) /\ Head(PktIds(w)) = job.pkt.id
  BY <1>1, PktIdsTail
<1>4. ASSUME rest # <<>>
      PROVE  PktIds(more) = PktIds(rest)
  <2>1. rest[1] \in Job /\ 1 \in DOMAIN rest /\ rest[1] = w[2] /\ 2 \in DOMAIN w
    BY <1>1, <1>2, <1>4
  <2>2. Retagged(job, rest[1]) \in Job /\ Retagged(job, rest[1]).pkt = rest[1].pkt
    <3>1. rest[1].ftag >= rest[1].stag
      BY <2>1
    <3>2. QED
      BY <1>1, <2>1, <3>1, RetaggedType
  <2> DEFINE r == Retagged(job, rest[1])
  <2>3. r \in Job /\ r.pkt = rest[1].pkt
    BY <2>2
  <2> HIDE DEF r
  <2>4. /\ [rest EXCEPT ![1] = r] \in Seq(Job) /\ Len([rest EXCEPT ![1] = r]) = Len(rest)
        /\ \A k \in DOMAIN rest : [rest EXCEPT ![1] = r][k] = IF k = 1 THEN r ELSE rest[k]
    <3> HIDE DEF w, rest, job
    <3>1. rest \in Seq(Job) /\ 1 \in 1 .. Len(rest) /\ r \in Job
      BY <1>2, <2>1, <2>3
    <3>2. /\ [rest EXCEPT ![1] = r] \in Seq(Job) /\ Len([rest EXCEPT ![1] = r]) = Len(rest)
          /\ \A k \in 1 .. Len(rest) : [rest EXCEPT ![1] = r][k] = IF k = 1 THEN r ELSE rest[k]
      BY <3>1, ExceptSeq
    <3>3. DOMAIN rest = 1 .. Len(rest)
      BY <3>1
    <3>4. QED
      BY <3>2, <3>3
  <2>5. \A k \in DOMAIN rest : [rest EXCEPT ![1] = r][k].pkt.id = rest[k].pkt.id
    BY <2>4, <2>3
  <2>6. DOMAIN [rest EXCEPT ![1] = r] = DOMAIN rest
    OBVIOUS
  <2>7. PktIds([rest EXCEPT ![1] = r]) = PktIds(rest)
    BY <2>5, <2>6 DEF PktIds
  <2>8. QED
    BY <2>7 DEF r
<1>5. Dispatched(s, a).waitQ =
        [s.waitQ EXCEPT ![a] = IF rest = <<>> THEN <<>> ELSE more]
  BY SMTT(20) DEF Dispatched
<1>6. PktIds(IF rest = <<>> THEN <<>> ELSE more) = Tail(PktIds(w))
  BY <1>3, <1>4
<1>7. Waiting(Dispatched(s, a)) = [Waiting(s) EXCEPT ![a] = Tail(@)]
  BY <1>1, <1>5, <1>6 DEF Waiting
<1>8. Dispatched(s, a).osQ = Append(s.osQ, job)
  BY <1>1 DEF Dispatched
<1>9. PktIds(Append(s.osQ, job)) = Append(PktIds(s.osQ), job.pkt.id)
  BY <1>1, PktIdsAppend
<1>10. Waiting(s)[a] = PktIds(w) /\ PktIds(w) # <<>>
  BY <1>1, PktIdsOfJobs DEF Waiting
<1>11. QED
  BY <1>3, <1>7, <1>8, <1>9, <1>10 DEF Out

-----------------------------------------------------------------------------
(* The identifiers stay apart. *)

\* A packet with an identifier that is not held keeps the identifiers apart.
LEMMA PushApart ==
  ASSUME NEW s \in Scheduler, NEW p \in Packet, IdsApart(s),
         p.id \notin WaitingIds(s) \cup OutstandingIds(s)
  PROVE  IdsApart(Pushed(s, p))
<1> DEFINE W == Waiting(s)
           V == Waiting(Pushed(s, p))
<1>1. /\ W \in [Apps -> Seq(Ids)] /\ p.app \in Apps /\ p.id \in Ids
      /\ V = [W EXCEPT ![p.app] = Append(@, p.id)] /\ Out(Pushed(s, p)) = Out(s)
  BY VisibleType, PushVisible DEF Packet
<1>2. /\ \A a \in Apps : \A i \in DOMAIN W[a] : W[a][i] # p.id
      /\ \A k \in DOMAIN Out(s) : Out(s)[k] # p.id
  BY VisibleType DEF ToSet
<1> HIDE DEF W, V
<1>3. ASSUME NEW a \in Apps
      PROVE  V[a] = IF a = p.app THEN Append(W[a], p.id) ELSE W[a]
  BY <1>1
<1>4. ASSUME NEW a \in Apps, NEW i \in DOMAIN V[a]
      PROVE  \/ i \in DOMAIN W[a] /\ V[a][i] = W[a][i]
             \/ a = p.app /\ i = Len(W[a]) + 1 /\ V[a][i] = p.id
  <2>1. W[a] \in Seq(Ids)
    BY <1>1
  <2>2. CASE a = p.app
    BY <1>1, <1>3, <1>4, <2>1, <2>2
  <2>3. CASE a # p.app
    BY <1>3, <1>4, <2>3
  <2>4. QED
    BY <2>2, <2>3
<1>5. ASSUME NEW a \in Apps, NEW b \in Apps, NEW i \in DOMAIN V[a], NEW k \in DOMAIN V[b],
             V[a][i] = V[b][k]
      PROVE  a = b /\ i = k
  <2>1. \A c, d \in Apps : \A m \in DOMAIN W[c], n \in DOMAIN W[d] :
          W[c][m] = W[d][n] => c = d /\ m = n
    BY DEF IdsApart, W
  <2>2. QED
    BY <1>2, <1>4, <1>5, <2>1
<1>6. \A a \in Apps : \A i \in DOMAIN V[a], k \in DOMAIN Out(s) : V[a][i] # Out(s)[k]
  <2>1. \A a \in Apps : \A i \in DOMAIN W[a], k \in DOMAIN Out(s) : W[a][i] # Out(s)[k]
    BY DEF IdsApart, W
  <2>2. QED
    BY <1>2, <1>4, <2>1
<1>7. \A i, k \in DOMAIN Out(s) : Out(s)[i] = Out(s)[k] => i = k
  BY DEF IdsApart
<1>8. QED
  BY <1>1, <1>5, <1>6, <1>7, SMTT(20) DEF IdsApart, V

\* With identifiers apart, popping a job removes its identifier from the set of outstanding ones.
LEMMA PopApart ==
  ASSUME NEW s \in Scheduler, NEW k \in DOMAIN s.osQ, IdsApart(s)
  PROVE  /\ IdsApart(Popped(s, k))
         /\ ToSet(Out(Popped(s, k))) = ToSet(Out(s)) \ {Out(s)[k]}
<1> DEFINE O == Out(s)
           P == Out(Popped(s, k))
<1>1. O \in Seq(Ids) /\ k \in DOMAIN O /\ P = RemoveAt(O, k)
      /\ Waiting(Popped(s, k)) = Waiting(s)
  <2>1. s.osQ \in Seq(Job)
    BY DEF Scheduler
  <2>2. QED
    BY <2>1, VisibleType, PopVisible, PktIdsOfJobs DEF Out
<1>2. /\ \A i, j \in DOMAIN O : O[i] = O[j] => i = j
      /\ \A a \in Apps : \A i \in DOMAIN Waiting(s)[a], j \in DOMAIN O : Waiting(s)[a][i] # O[j]
      /\ \A a, b \in Apps : \A i \in DOMAIN Waiting(s)[a], j \in DOMAIN Waiting(s)[b] :
           Waiting(s)[a][i] = Waiting(s)[b][j] => a = b /\ i = j
  BY DEF IdsApart
<1> HIDE DEF O, P
<1>3. /\ P \in Seq(Ids) /\ Len(P) = Len(O) - 1
      /\ \A i \in 1 .. Len(O) - 1 : P[i] = IF i < k THEN O[i] ELSE O[i+1]
  BY <1>1, RemoveAtElements
<1>4. Len(O) \in Nat /\ k \in 1 .. Len(O) /\ DOMAIN O = 1 .. Len(O) /\ DOMAIN P = 1 .. Len(O) - 1
  BY <1>1, <1>3
<1>5. \A i \in DOMAIN P : \E m \in DOMAIN O :
        m # k /\ P[i] = O[m] /\ m = IF i < k THEN i ELSE i + 1
  BY <1>3, <1>4
<1>6. \A m \in DOMAIN O : m # k => \E i \in DOMAIN P : P[i] = O[m]
  <2> SUFFICES ASSUME NEW m \in DOMAIN O, m # k
               PROVE  \E i \in DOMAIN P : P[i] = O[m]
    OBVIOUS
  <2>1. CASE m < k
    BY <1>3, <1>4, <2>1
  <2>2. CASE ~(m < k)
    <3>1. m - 1 \in DOMAIN P /\ ~(m - 1 < k) /\ (m - 1) + 1 = m
      BY <1>4, <2>2
    <3>2. P[m - 1] = O[m]
      BY <1>3, <1>4, <3>1
    <3>3. QED
      BY <3>1, <3>2
  <2>3. QED
    BY <2>1, <2>2
<1>7. ToSet(P) = ToSet(O) \ {O[k]}
  BY <1>2, <1>4, <1>5, <1>6 DEF ToSet
<1>8. \A i, j \in DOMAIN P : P[i] = P[j] => i = j
  <2> SUFFICES ASSUME NEW i \in DOMAIN P, NEW j \in DOMAIN P, P[i] = P[j]
               PROVE  i = j
    OBVIOUS
  <2>1. (IF i < k THEN i ELSE i + 1) = (IF j < k THEN j ELSE j + 1)
    BY <1>2, <1>5
  <2>2. QED
    BY <1>4, <2>1
<1>9. \A a \in Apps : \A i \in DOMAIN Waiting(s)[a], j \in DOMAIN P : Waiting(s)[a][i] # P[j]
  BY <1>2, <1>5
<1>10. IdsApart(Popped(s, k))
  BY <1>1, <1>2, <1>8, <1>9 DEF IdsApart, P
<1>11. QED
  BY <1>7, <1>10 DEF O, P

\* A dispatch keeps the identifiers apart and adds the head of the list to the outstanding ones.
LEMMA DispatchApart ==
  ASSUME NEW s \in Scheduler, NEW c \in Apps, Backlogged(s, c), IdsApart(s),
         \A k \in DOMAIN s.waitQ[c] : s.waitQ[c][k].ftag >= s.waitQ[c][k].stag
  PROVE  /\ IdsApart(Dispatched(s, c))
         /\ ToSet(Out(Dispatched(s, c))) = ToSet(Out(s)) \cup {Head(Waiting(s)[c])}
<1> DEFINE W == Waiting(s)
           V == Waiting(Dispatched(s, c))
           O == Out(s)
           P == Out(Dispatched(s, c))
           h == Head(W[c])
<1>1. /\ W \in [Apps -> Seq(Ids)] /\ O \in Seq(Ids) /\ W[c] # <<>>
      /\ V = [W EXCEPT ![c] = Tail(@)] /\ P = Append(O, h)
  BY VisibleType, DispatchVisible
<1>2. /\ \A i, j \in DOMAIN O : O[i] = O[j] => i = j
      /\ \A a \in Apps : \A i \in DOMAIN W[a], j \in DOMAIN O : W[a][i] # O[j]
      /\ \A a, b \in Apps : \A i \in DOMAIN W[a], j \in DOMAIN W[b] :
           W[a][i] = W[b][j] => a = b /\ i = j
  BY DEF IdsApart
<1>3. W[c] \in Seq(Ids) /\ h \in Ids /\ 1 \in DOMAIN W[c] /\ h = W[c][1]
  BY <1>1
<1> HIDE DEF W, V, O, P, h
<1>4. ASSUME NEW a \in Apps
      PROVE  V[a] = IF a = c THEN Tail(W[c]) ELSE W[a]
  BY <1>1
<1>5. ASSUME NEW a \in Apps, NEW i \in DOMAIN V[a]
      PROVE  LET m == IF a = c THEN i + 1 ELSE i
             IN  m \in DOMAIN W[a] /\ V[a][i] = W[a][m] /\ i \in Nat
                 /\ (a = c => m # 1)
  <2>1. W[a] \in Seq(Ids)
    BY <1>1
  <2>2. CASE a = c
    BY <1>1, <1>3, <1>4, <1>5, <2>1, <2>2
  <2>3. CASE a # c
    BY <1>4, <1>5, <2>1, <2>3
  <2>4. QED
    BY <2>2, <2>3
<1>6. ASSUME NEW a \in Apps, NEW b \in Apps, NEW i \in DOMAIN V[a], NEW j \in DOMAIN V[b],
             V[a][i] = V[b][j]
      PROVE  a = b /\ i = j
  <2> DEFINE m == IF a = c THEN i + 1 ELSE i
             n == IF b = c THEN j + 1 ELSE j
  <2>1. /\ m \in DOMAIN W[a] /\ V[a][i] = W[a][m] /\ i \in Nat
        /\ n \in DOMAIN W[b] /\ V[b][j] = W[b][n] /\ j \in Nat
    BY <1>5
  <2>2. a = b /\ m = n
    <3> HIDE DEF m, n
    <3>1. W[a][m] = W[b][n]
      BY <1>6, <2>1
    <3>2. \A k \in DOMAIN W[a], l \in DOMAIN W[b] : W[a][k] = W[b][l] => a = b /\ k = l
      BY <1>2
    <3>3. m \in DOMAIN W[a] /\ n \in DOMAIN W[b]
      BY <2>1
    <3>4. QED
      BY <3>1, <3>2, <3>3
  <2>3. QED
    BY <2>1, <2>2
<1>7. /\ P \in Seq(Ids) /\ Len(P) = Len(O) + 1 /\ P[Len(O) + 1] = h
      /\ \A i \in 1 .. Len(O) : P[i] = O[i]
      /\ DOMAIN O = 1 .. Len(O) /\ DOMAIN P = 1 .. Len(O) + 1 /\ Len(O) \in Nat
  BY <1>1, <1>3
<1>8. \A i \in DOMAIN P : (i \in DOMAIN O /\ P[i] = O[i]) \/ (i = Len(O) + 1 /\ P[i] = h)
  BY <1>7
<1>9. \A i, j \in DOMAIN P : P[i] = P[j] => i = j
  BY <1>2, <1>3, <1>8
<1>10. ASSUME NEW a \in Apps, NEW i \in DOMAIN V[a], NEW j \in DOMAIN P
       PROVE  V[a][i] # P[j]
  <2> DEFINE m == IF a = c THEN i + 1 ELSE i
  <2>1. m \in DOMAIN W[a] /\ V[a][i] = W[a][m] /\ (a = c => m # 1)
    BY <1>5
  <2> HIDE DEF m
  <2>2. W[a][m] # h
    BY <1>2, <1>3, <2>1
  <2>3. QED
    BY <1>2, <1>8, <2>1, <2>2
<1>11. IdsApart(Dispatched(s, c))
  BY <1>6, <1>9, <1>10 DEF IdsApart, V, P
<1>12. ToSet(P) = ToSet(O) \cup {h}
  BY <1>7, <1>8 DEF ToSet
<1>13. QED
  BY <1>11, <1>12 DEF P, O, h, W

\* There are no more identifiers outstanding than jobs.
LEMMA OutstandingWithinOsQ ==
  ASSUME NEW s \in Scheduler
  PROVE  Cardinality(OutstandingIds(s)) <= Len(s.osQ)
<1> DEFINE O == Out(s)
           S == ToSet(O)
<1>1. O \in Seq(Ids) /\ OutstandingIds(s) = S /\ Len(O) = Len(s.osQ)
  BY VisibleType
<1>2. DOMAIN O = 1 .. Len(O) /\ Len(O) \in Nat
  BY <1>1
<1> HIDE DEF O
<1>3. O \in Surjection(1 .. Len(O), S)
  BY <1>1, <1>2 DEF Surjection, ToSet
<1>4. ExistsSurjection(1 .. Len(O), S)
  BY <1>3 DEF ExistsSurjection
<1>5. Cardinality(S) <= Len(O)
  BY <1>2, <1>4, FS_SurjCardinalityBound
<1>6. QED
  BY <1>1, <1>5

-----------------------------------------------------------------------------
(* The refinement. *)

\* The empty scheduler is an initial state of the abstract queue.
LEMMA InitRefines == InitF => IdsApart(q) /\ JQ!Init
<1> SUFFICES ASSUME InitF PROVE IdsApart(q) /\ JQ!Init
  OBVIOUS
<1>1. /\ q.waitQ = [a \in Apps |-> <<>>] /\ q.osQ = <<>>
  BY DEF InitF, Init, EmptyScheduler
<1>2. PktIds(<<>>) = <<>>
  BY DEF PktIds
<1>3. Waiting(q) = [a \in Apps |-> <<>>] /\ Out(q) = <<>> /\ OutstandingIds(q) = {}
  BY <1>1, <1>2 DEF Waiting, Out, OutstandingIds, ToSet
<1>4. IdsApart(q)
  BY <1>3 DEF IdsApart
<1>5. QED
  BY <1>3, <1>4 DEF JQ!Init, Waiting

\* Every step of SFQ is a step of the abstract queue or leaves what is visible of it unchanged.
LEMMA StepRefines ==
  ASSUME IInv, IdsApart(q), [NextF]_<<q, lead>>
  PROVE  IdsApart(q') /\ [JQ!Next]_(JQ!vars)
<1>1. q \in Scheduler
  BY DEF IInv, TypeOKF, TypeOK
<1>2. ASSUME NEW a \in Apps, NEW k \in DOMAIN q.waitQ[a]
      PROVE  q.waitQ[a][k].ftag >= q.waitQ[a][k].stag
  <2>1. q.waitQ[a] \in Seq(Job)
    BY <1>1 DEF Scheduler
  <2>2. q.waitQ[a][k] \in Job
    BY <2>1
  <2>3. q.waitQ[a][k].ftag =
          q.waitQ[a][k].stag + Charge(q.waitQ[a][k].pkt.app, q.waitQ[a][k].pkt.size)
    BY DEF IInv, OwnCharge, JobCharge
  <2>4. Charge(q.waitQ[a][k].pkt.app, q.waitQ[a][k].pkt.size) \in Nat
    BY <2>2, ChargeInWindow DEF Job, Packet
  <2>5. QED
    BY <2>2, <2>3, <2>4 DEF Job
<1>3. ASSUME NEW p \in Packet, PushF(p)
      PROVE  IdsApart(q') /\ JQ!Next
  <2>1. q' = Pushed(q, p) /\ p.id \notin WaitingIds(q) \cup OutstandingIds(q)
    BY <1>3 DEF PushF, PushWaitQ
  <2>2. IdsApart(q')
    BY <1>1, <2>1, PushApart
  <2>3. /\ Waiting(q') = [Waiting(q) EXCEPT ![p.app] = Append(@, p.id)]
        /\ Out(q') = Out(q)
    BY <1>1, <2>1, PushVisible
  <2>4. q' \in Scheduler
    BY <1>1, <2>1, PushEffect
  <2>5. OutstandingIds(q') = OutstandingIds(q)
    BY <1>1, <2>3, <2>4, VisibleType
  <2>6. p.id \notin JQ!Held
    <3>1. WaitingIds(q) = UNION {ToSet(Waiting(q)[a]) : a \in Apps}
      BY <1>1, VisibleType
    <3>2. JQ!Held = OutstandingIds(q) \cup UNION {ToSet(Waiting(q)[a]) : a \in Apps}
      BY DEF JQ!Held, JQ!ToSet, ToSet, Waiting
    <3>3. QED
      BY <2>1, <3>1, <3>2
  <2>7. JQ!Push(p.app, p.id)
    BY <2>3, <2>5, <2>6 DEF JQ!Push, Waiting
  <2>8. p.app \in Apps /\ p.id \in Ids
    BY DEF Packet
  <2>9. QED
    BY <2>2, <2>7, <2>8 DEF JQ!Next
<1>4. ASSUME NEW c \in Apps, DispatchF(c)
      PROVE  IdsApart(q') /\ JQ!Next
  <2>1. q' = Dispatched(q, c) /\ Backlogged(q, c) /\ Len(q.osQ) < Degree
    BY <1>4 DEF DispatchF, DispatchNext, CanDispatch, IsNext
  <2>2. /\ IdsApart(q')
        /\ ToSet(Out(q')) = ToSet(Out(q)) \cup {Head(Waiting(q)[c])}
    BY <1>1, <1>2, <2>1, DispatchApart
  <2>3. /\ Waiting(q)[c] # <<>>
        /\ Waiting(q') = [Waiting(q) EXCEPT ![c] = Tail(@)]
    BY <1>1, <1>2, <2>1, DispatchVisible
  <2>4. q' \in Scheduler
    BY <1>1, <1>2, <2>1, DispatchEffect
  <2>5. OutstandingIds(q') = OutstandingIds(q) \cup {Head(Waiting(q)[c])}
    BY <1>1, <2>2, <2>4, VisibleType
  <2>6. JQ!Room
    <3>1. Cardinality(OutstandingIds(q)) <= Len(q.osQ) /\ Len(q.osQ) \in Nat
      <4>1. q.osQ \in Seq(Job)
        BY <1>1 DEF Scheduler
      <4>2. QED
        BY <1>1, <4>1, OutstandingWithinOsQ
    <3>2. Cardinality(OutstandingIds(q)) \in Int
      <4>1. Out(q) \in Seq(Ids) /\ OutstandingIds(q) = ToSet(Out(q))
        BY <1>1, VisibleType
      <4>2. IsFiniteSet(ToSet(Out(q)))
        <5>1. Out(q) \in Surjection(1 .. Len(Out(q)), ToSet(Out(q)))
          BY <4>1 DEF Surjection, ToSet
        <5>2. IsFiniteSet(1 .. Len(Out(q)))
          BY <4>1, FS_Interval
        <5>3. QED
          BY <5>1, <5>2, FS_Surjection
      <4>3. QED
        BY <4>1, <4>2, FS_CardinalityType
    <3>3. QED
      <4>1. Cardinality(OutstandingIds(q)) < Degree
        BY <2>1, <3>1, <3>2, DegreeAssumption
      <4>2. QED
        BY <4>1 DEF JQ!Room, JQ!Cardinality, Cardinality, JQ!IsFiniteSet, IsFiniteSet
  <2>7. JQ!Dispatch(c)
    BY <2>3, <2>5, <2>6 DEF JQ!Dispatch, Waiting
  <2>8. QED
    BY <2>2, <2>7 DEF JQ!Next
<1>5. ASSUME NEW id \in Ids, PopF(id)
      PROVE  IdsApart(q') /\ JQ!Next
  <2>1. PICK k \in DOMAIN q.osQ : IsFirstMatch(q, id, k) /\ q' = Popped(q, k)
    BY <1>5 DEF PopF, PopOsQ
  <2>2. IdsApart(q') /\ ToSet(Out(q')) = ToSet(Out(q)) \ {Out(q)[k]}
    BY <1>1, <2>1, PopApart
  <2>3. Waiting(q') = Waiting(q) /\ q' \in Scheduler
    BY <1>1, <2>1, PopVisible, PopEffect
  <2>4. Out(q)[k] = id /\ k \in DOMAIN Out(q)
    <3>1. q.osQ \in Seq(Job)
      BY <1>1 DEF Scheduler
    <3>2. QED
      BY <2>1, <3>1, PktIdsOfJobs DEF Out, IsFirstMatch
  <2>5. OutstandingIds(q') = OutstandingIds(q) \ {id} /\ id \in OutstandingIds(q)
    BY <1>1, <2>2, <2>3, <2>4, VisibleType DEF ToSet
  <2>6. JQ!Pop(id)
    BY <2>3, <2>5 DEF JQ!Pop, Waiting
  <2>7. QED
    BY <2>2, <2>6 DEF JQ!Next
<1>6. CASE UNCHANGED <<q, lead>>
  BY <1>6 DEF JQ!vars, OutstandingIds, IdsApart, Waiting, Out
<1>7. QED
  BY <1>3, <1>4, <1>5, <1>6 DEF NextF

\* SFQ implements IQueue's promise but for its liveness: whatever its tags are, each of
\* its steps is a push, a dispatch of one application's oldest job within the degree, or
\* a pop of an outstanding job (SFQ.cc, the methods declared in IQueue.h).
THEOREM SFQImplementsJobQueue == SpecF => JQ!Spec
<1>1. InitF => IdsApart(q) /\ JQ!Init
  BY InitRefines
<1>2. IInv /\ IdsApart(q) /\ [NextF]_<<q, lead>> => IdsApart(q)' /\ [JQ!Next]_(JQ!vars)
  BY StepRefines
<1>3. QED
  BY <1>1, <1>2, SFQInvariant, PTL DEF SpecF, JQ!Spec

-----------------------------------------------------------------------------
(* SFQEndless is SFQ seen from its virtual time: moving the origin of the tags changes *)
(* neither what the handlers may do nor, once it is moved again, what they do.         *)

\* Jobs whose tags may lie before the origin.
MovedJob == [pkt : Packet, stag : Int, ftag : Int]

\* The elements of a list whose tags are moved.
LEMMA MovedElements ==
  ASSUME NEW w \in Seq(MovedJob), NEW v \in Int
  PROVE  /\ QueueRebased(w, v) \in Seq(MovedJob) /\ Len(QueueRebased(w, v)) = Len(w)
         /\ \A k \in 1 .. Len(w) : QueueRebased(w, v)[k] = JobRebased(w[k], v)
<1>1. DOMAIN w = 1 .. Len(w) /\ Len(w) \in Nat /\ \A k \in 1 .. Len(w) : w[k] \in MovedJob
  OBVIOUS
<1>2. \A k \in 1 .. Len(w) : JobRebased(w[k], v) \in MovedJob
  BY <1>1 DEF JobRebased, MovedJob
<1>3. QED
  BY <1>1, <1>2 DEF QueueRebased

\* The elements of a list whose tags are dropped.
LEMMA UntaggedElements ==
  ASSUME NEW w \in Seq(MovedJob)
  PROVE  /\ Untagged(w) \in Seq(MovedJob) /\ Len(Untagged(w)) = Len(w)
         /\ \A k \in 1 .. Len(w) :
              Untagged(w)[k] = [pkt |-> w[k].pkt, stag |-> 0, ftag |-> 0]
<1>1. DOMAIN w = 1 .. Len(w) /\ Len(w) \in Nat /\ \A k \in 1 .. Len(w) : w[k] \in MovedJob
  OBVIOUS
<1>2. \A k \in 1 .. Len(w) : [pkt |-> w[k].pkt, stag |-> 0, ftag |-> 0] \in MovedJob
  BY <1>1 DEF MovedJob
<1>3. QED
  BY <1>1, <1>2 DEF Untagged

\* Moving the origin twice moves it by the sum.
LEMMA MovedTwice ==
  ASSUME NEW w \in Seq(MovedJob), NEW v \in Int, NEW u \in Int
  PROVE  QueueRebased(QueueRebased(w, v), u) = QueueRebased(w, v + u)
<1>1. /\ QueueRebased(w, v) \in Seq(MovedJob) /\ Len(QueueRebased(w, v)) = Len(w)
      /\ \A k \in 1 .. Len(w) : QueueRebased(w, v)[k] = JobRebased(w[k], v)
  BY MovedElements
<1>2. /\ QueueRebased(QueueRebased(w, v), u) \in Seq(MovedJob)
      /\ Len(QueueRebased(QueueRebased(w, v), u)) = Len(w)
      /\ \A k \in 1 .. Len(w) :
           QueueRebased(QueueRebased(w, v), u)[k] = JobRebased(QueueRebased(w, v)[k], u)
  BY <1>1, MovedElements
<1>3. /\ QueueRebased(w, v + u) \in Seq(MovedJob) /\ Len(QueueRebased(w, v + u)) = Len(w)
      /\ \A k \in 1 .. Len(w) : QueueRebased(w, v + u)[k] = JobRebased(w[k], v + u)
  <2>1. v + u \in Int
    OBVIOUS
  <2>2. QED
    BY <2>1, MovedElements
<1>4. ASSUME NEW k \in 1 .. Len(w)
      PROVE  JobRebased(JobRebased(w[k], v), u) = JobRebased(w[k], v + u)
  <2>1. w[k] \in MovedJob
    OBVIOUS
  <2>2. QED
    BY <2>1 DEF JobRebased, MovedJob
<1>5. QED
  BY <1>1, <1>2, <1>3, <1>4, SeqEqual

\* Moving the origin and adding a job at the end.
LEMMA MovedAppend ==
  ASSUME NEW w \in Seq(MovedJob), NEW j \in MovedJob, NEW v \in Int
  PROVE  /\ QueueRebased(Append(w, j), v) = Append(QueueRebased(w, v), JobRebased(j, v))
         /\ Untagged(Append(w, j)) =
              Append(Untagged(w), [pkt |-> j.pkt, stag |-> 0, ftag |-> 0])
<1>1. Append(w, j) \in Seq(MovedJob) /\ Len(Append(w, j)) = Len(w) + 1 /\ Len(w) \in Nat
  OBVIOUS
<1>2. JobRebased(j, v) \in MovedJob /\ [pkt |-> j.pkt, stag |-> 0, ftag |-> 0] \in MovedJob
  BY DEF JobRebased, MovedJob
<1>3. /\ QueueRebased(w, v) \in Seq(MovedJob) /\ Len(QueueRebased(w, v)) = Len(w)
      /\ \A k \in 1 .. Len(w) : QueueRebased(w, v)[k] = JobRebased(w[k], v)
      /\ Untagged(w) \in Seq(MovedJob) /\ Len(Untagged(w)) = Len(w)
      /\ \A k \in 1 .. Len(w) :
           Untagged(w)[k] = [pkt |-> w[k].pkt, stag |-> 0, ftag |-> 0]
  BY MovedElements, UntaggedElements
<1>4. /\ QueueRebased(Append(w, j), v) \in Seq(MovedJob)
      /\ Len(QueueRebased(Append(w, j), v)) = Len(w) + 1
      /\ \A k \in 1 .. Len(w) + 1 :
           QueueRebased(Append(w, j), v)[k] = JobRebased(Append(w, j)[k], v)
      /\ Untagged(Append(w, j)) \in Seq(MovedJob) /\ Len(Untagged(Append(w, j))) = Len(w) + 1
      /\ \A k \in 1 .. Len(w) + 1 :
           Untagged(Append(w, j))[k] = [pkt |-> Append(w, j)[k].pkt, stag |-> 0, ftag |-> 0]
  BY <1>1, MovedElements, UntaggedElements
<1>5. \A k \in 1 .. Len(w) + 1 : Append(w, j)[k] = IF k = Len(w) + 1 THEN j ELSE w[k]
  OBVIOUS
<1> DEFINE A == Append(QueueRebased(w, v), JobRebased(j, v))
           B == Append(Untagged(w), [pkt |-> j.pkt, stag |-> 0, ftag |-> 0])
<1>6. /\ A \in Seq(MovedJob) /\ Len(A) = Len(w) + 1
      /\ \A k \in 1 .. Len(w) + 1 :
           A[k] = IF k = Len(w) + 1 THEN JobRebased(j, v) ELSE QueueRebased(w, v)[k]
  BY <1>1, <1>2, <1>3
<1>7. /\ B \in Seq(MovedJob) /\ Len(B) = Len(w) + 1
      /\ \A k \in 1 .. Len(w) + 1 :
           B[k] = IF k = Len(w) + 1 THEN [pkt |-> j.pkt, stag |-> 0, ftag |-> 0]
                  ELSE Untagged(w)[k]
  BY <1>1, <1>2, <1>3
<1> HIDE DEF A, B
<1>8. \A k \in 1 .. Len(w) + 1 : k # Len(w) + 1 => k \in 1 .. Len(w)
  BY <1>1
<1>9. \A k \in 1 .. Len(w) + 1 : QueueRebased(Append(w, j), v)[k] = A[k]
  BY <1>3, <1>4, <1>5, <1>6, <1>8
<1>10. \A k \in 1 .. Len(w) + 1 : Untagged(Append(w, j))[k] = B[k]
  BY <1>3, <1>4, <1>5, <1>7, <1>8
<1>11. QueueRebased(Append(w, j), v) = A
  BY <1>4, <1>6, <1>9, SeqEqual
<1>12. Untagged(Append(w, j)) = B
  BY <1>4, <1>7, <1>10, SeqEqual
<1>13. QED
  BY <1>11, <1>12 DEF A, B

\* Moving the origin and taking the tail.
LEMMA MovedTail ==
  ASSUME NEW w \in Seq(MovedJob), w # <<>>, NEW v \in Int
  PROVE  /\ QueueRebased(Tail(w), v) = Tail(QueueRebased(w, v))
         /\ QueueRebased(w, v) # <<>> /\ QueueRebased(w, v)[1] = JobRebased(w[1], v)
<1>1. /\ Tail(w) \in Seq(MovedJob) /\ Len(Tail(w)) = Len(w) - 1 /\ Len(w) \in Nat \ {0}
      /\ \A k \in 1 .. Len(w) - 1 : Tail(w)[k] = w[k+1]
  OBVIOUS
<1>2. /\ QueueRebased(w, v) \in Seq(MovedJob) /\ Len(QueueRebased(w, v)) = Len(w)
      /\ \A k \in 1 .. Len(w) : QueueRebased(w, v)[k] = JobRebased(w[k], v)
  BY MovedElements
<1>3. /\ QueueRebased(Tail(w), v) \in Seq(MovedJob)
      /\ Len(QueueRebased(Tail(w), v)) = Len(w) - 1
      /\ \A k \in 1 .. Len(w) - 1 : QueueRebased(Tail(w), v)[k] = JobRebased(Tail(w)[k], v)
  BY <1>1, MovedElements
<1> DEFINE m == QueueRebased(w, v)
<1> HIDE DEF m
<1>4. m \in Seq(MovedJob) /\ Len(m) = Len(w) /\ m # <<>>
  BY <1>1, <1>2 DEF m
<1>5. /\ Tail(m) \in Seq(MovedJob) /\ Len(Tail(m)) = Len(w) - 1
      /\ \A k \in 1 .. Len(w) - 1 : Tail(m)[k] = m[k+1]
  BY <1>4
<1>6. \A k \in 1 .. Len(w) - 1 : k + 1 \in 1 .. Len(w)
  BY <1>1
<1>7. \A k \in 1 .. Len(w) - 1 : QueueRebased(Tail(w), v)[k] = Tail(m)[k]
  BY <1>1, <1>2, <1>3, <1>5, <1>6 DEF m
<1>8. QueueRebased(Tail(w), v) = Tail(m)
  BY <1>3, <1>5, <1>7, SeqEqual
<1>9. m[1] = JobRebased(w[1], v)
  BY <1>1, <1>2 DEF m
<1>10. QED
  BY <1>4, <1>8, <1>9 DEF m

\* Moving the origin and replacing the front.
LEMMA MovedFront ==
  ASSUME NEW w \in Seq(MovedJob), w # <<>>, NEW j \in MovedJob, NEW v \in Int
  PROVE  QueueRebased([w EXCEPT ![1] = j], v) = [QueueRebased(w, v) EXCEPT ![1] = JobRebased(j, v)]
<1>1. /\ [w EXCEPT ![1] = j] \in Seq(MovedJob) /\ Len([w EXCEPT ![1] = j]) = Len(w)
      /\ \A k \in 1 .. Len(w) : [w EXCEPT ![1] = j][k] = IF k = 1 THEN j ELSE w[k]
  <2>1. 1 \in 1 .. Len(w)
    OBVIOUS
  <2>2. QED
    BY <2>1, ExceptSeq
<1>2. /\ QueueRebased(w, v) \in Seq(MovedJob) /\ Len(QueueRebased(w, v)) = Len(w)
      /\ \A k \in 1 .. Len(w) : QueueRebased(w, v)[k] = JobRebased(w[k], v)
  BY MovedElements
<1> DEFINE m == QueueRebased(w, v)
           x == [w EXCEPT ![1] = j]
           i == JobRebased(j, v)
<1>3. i \in MovedJob
  BY DEF JobRebased, MovedJob
<1> HIDE DEF m, x, i
<1>4. /\ QueueRebased(x, v) \in Seq(MovedJob) /\ Len(QueueRebased(x, v)) = Len(w)
      /\ \A k \in 1 .. Len(w) : QueueRebased(x, v)[k] = JobRebased(x[k], v)
  <2>1. x \in Seq(MovedJob) /\ Len(x) = Len(w)
    BY <1>1 DEF x
  <2>2. QED
    BY <2>1, MovedElements
<1>5. /\ [m EXCEPT ![1] = i] \in Seq(MovedJob) /\ Len([m EXCEPT ![1] = i]) = Len(w)
      /\ \A k \in 1 .. Len(w) : [m EXCEPT ![1] = i][k] = IF k = 1 THEN i ELSE m[k]
  <2>1. m \in Seq(MovedJob) /\ Len(m) = Len(w) /\ 1 \in 1 .. Len(m)
    BY <1>2 DEF m
  <2>2. /\ [m EXCEPT ![1] = i] \in Seq(MovedJob) /\ Len([m EXCEPT ![1] = i]) = Len(m)
        /\ \A k \in 1 .. Len(m) : [m EXCEPT ![1] = i][k] = IF k = 1 THEN i ELSE m[k]
    BY <2>1, <1>3, ExceptSeq
  <2>3. QED
    BY <2>1, <2>2
<1>6. ASSUME NEW k \in 1 .. Len(w)
      PROVE  QueueRebased(x, v)[k] = [m EXCEPT ![1] = i][k]
  <2>1. x[k] = IF k = 1 THEN j ELSE w[k]
    BY <1>1 DEF x
  <2>2. m[k] = JobRebased(w[k], v)
    BY <1>2 DEF m
  <2>3. QueueRebased(x, v)[k] = JobRebased(x[k], v)
    BY <1>4
  <2>4. [m EXCEPT ![1] = i][k] = IF k = 1 THEN i ELSE m[k]
    BY <1>5
  <2>5. CASE k = 1
    BY <2>1, <2>3, <2>4, <2>5 DEF i
  <2>6. CASE k # 1
    BY <2>1, <2>2, <2>3, <2>4, <2>6
  <2>7. QED
    BY <2>5, <2>6
<1>7. QueueRebased(x, v) = [m EXCEPT ![1] = i]
  BY <1>4, <1>5, <1>6, SeqEqual
<1>8. QED
  BY <1>7 DEF m, x, i

\* Dropping tags twice, and dropping them when one job leaves.
LEMMA UntaggedLists ==
  ASSUME NEW w \in Seq(MovedJob)
  PROVE  /\ Untagged(Untagged(w)) = Untagged(w)
         /\ \A k \in DOMAIN w : Untagged(RemoveAt(w, k)) = RemoveAt(Untagged(w), k)
<1>1. /\ Untagged(w) \in Seq(MovedJob) /\ Len(Untagged(w)) = Len(w)
      /\ \A k \in 1 .. Len(w) : Untagged(w)[k] = [pkt |-> w[k].pkt, stag |-> 0, ftag |-> 0]
  BY UntaggedElements
<1>2. Untagged(Untagged(w)) = Untagged(w)
  <2> DEFINE u == Untagged(w)
  <2>1. u \in Seq(MovedJob) /\ Len(u) = Len(w)
    BY <1>1
  <2>2. ASSUME NEW k \in 1 .. Len(w)
        PROVE  u[k] = [pkt |-> u[k].pkt, stag |-> 0, ftag |-> 0]
    <3>1. u[k] = [pkt |-> w[k].pkt, stag |-> 0, ftag |-> 0]
      BY <1>1
    <3> HIDE DEF u
    <3>2. u[k].pkt = w[k].pkt
      BY <3>1
    <3>3. QED
      BY <3>1, <3>2, Zenon
  <2> HIDE DEF u
  <2>3. /\ Untagged(u) \in Seq(MovedJob) /\ Len(Untagged(u)) = Len(w)
        /\ \A k \in 1 .. Len(w) : Untagged(u)[k] = [pkt |-> u[k].pkt, stag |-> 0, ftag |-> 0]
    BY <2>1, UntaggedElements
  <2>4. \A k \in 1 .. Len(w) : Untagged(u)[k] = u[k]
    BY <2>2, <2>3
  <2>5. Untagged(u) = u
    BY <2>1, <2>3, <2>4, SeqEqual
  <2>6. QED
    BY <2>5 DEF u
<1>3. ASSUME NEW k \in DOMAIN w
      PROVE  Untagged(RemoveAt(w, k)) = RemoveAt(Untagged(w), k)
  <2>1. /\ RemoveAt(w, k) \in Seq(MovedJob) /\ Len(RemoveAt(w, k)) = Len(w) - 1
        /\ \A i \in 1 .. Len(w) - 1 : RemoveAt(w, k)[i] = IF i < k THEN w[i] ELSE w[i+1]
    BY RemoveAtElements
  <2>2. /\ Untagged(RemoveAt(w, k)) \in Seq(MovedJob)
        /\ Len(Untagged(RemoveAt(w, k))) = Len(w) - 1
        /\ \A i \in 1 .. Len(w) - 1 : Untagged(RemoveAt(w, k))[i] =
             [pkt |-> RemoveAt(w, k)[i].pkt, stag |-> 0, ftag |-> 0]
    BY <2>1, UntaggedElements
  <2> DEFINE u == Untagged(w)
  <2>3. u \in Seq(MovedJob) /\ Len(u) = Len(w) /\ k \in DOMAIN u
    BY <1>1
  <2> HIDE DEF u
  <2>4. /\ RemoveAt(u, k) \in Seq(MovedJob) /\ Len(RemoveAt(u, k)) = Len(w) - 1
        /\ \A i \in 1 .. Len(w) - 1 : RemoveAt(u, k)[i] = IF i < k THEN u[i] ELSE u[i+1]
    BY <2>3, RemoveAtElements
  <2>5. \A i \in 1 .. Len(w) - 1 : i \in 1 .. Len(w) /\ i + 1 \in 1 .. Len(w)
    OBVIOUS
  <2>6. \A i \in 1 .. Len(w) - 1 : Untagged(RemoveAt(w, k))[i] = RemoveAt(u, k)[i]
    BY <1>1, <2>1, <2>2, <2>4, <2>5 DEF u
  <2>7. Untagged(RemoveAt(w, k)) = RemoveAt(u, k)
    BY <2>2, <2>4, <2>6, SeqEqual
  <2>8. QED
    BY <2>7 DEF u
<1>4. QED
  BY <1>2, <1>3

-----------------------------------------------------------------------------
(* The handlers at the moved origin. *)

\* The fields of a scheduler whose origin is moved.
LEMMA RebasedFields ==
  ASSUME NEW s \in Scheduler
  PROVE  /\ \A a \in Apps : s.waitQ[a] \in Seq(MovedJob)
         /\ \A a \in Apps : Rebased(s).waitQ[a] = QueueRebased(s.waitQ[a], s.vtime)
         /\ \A a \in Apps : Rebased(s).waitQ[a] \in Seq(MovedJob)
         /\ \A a \in Apps : Len(Rebased(s).waitQ[a]) = Len(s.waitQ[a])
         /\ \A a \in Apps : \A k \in 1 .. Len(s.waitQ[a]) :
              Rebased(s).waitQ[a][k] = JobRebased(s.waitQ[a][k], s.vtime)
         /\ s.osQ \in Seq(MovedJob) /\ Rebased(s).osQ \in Seq(MovedJob)
         /\ Rebased(s).osQ = Untagged(s.osQ) /\ Len(Rebased(s).osQ) = Len(s.osQ)
         /\ s.maxftags \in [Apps -> Nat] /\ s.vtime \in Nat /\ s.startpos \in Apps
         /\ \A a \in Apps : Rebased(s).maxftags[a] = Ahead(s.maxftags[a], s.vtime)
         /\ Rebased(s).vtime = 0 /\ Rebased(s).startpos = s.startpos
<1>1. /\ s.waitQ \in [Apps -> Seq(Job)] /\ s.osQ \in Seq(Job)
      /\ s.maxftags \in [Apps -> Nat] /\ s.vtime \in Nat /\ s.startpos \in Apps
  BY DEF Scheduler
<1>2. Job \subseteq MovedJob
  BY DEF Job, MovedJob
<1>3. \A w \in Seq(Job) : w \in Seq(MovedJob)
  BY <1>2
<1>4. s.osQ \in Seq(MovedJob) /\ \A a \in Apps : s.waitQ[a] \in Seq(MovedJob)
  BY <1>1, <1>3
<1>5. /\ Untagged(s.osQ) \in Seq(MovedJob) /\ Len(Untagged(s.osQ)) = Len(s.osQ)
  BY <1>4, UntaggedElements
<1>6. \A a \in Apps :
        /\ QueueRebased(s.waitQ[a], s.vtime) \in Seq(MovedJob)
        /\ Len(QueueRebased(s.waitQ[a], s.vtime)) = Len(s.waitQ[a])
        /\ \A k \in 1 .. Len(s.waitQ[a]) :
             QueueRebased(s.waitQ[a], s.vtime)[k] = JobRebased(s.waitQ[a][k], s.vtime)
  <2>1. s.vtime \in Int
    BY <1>1
  <2>2. QED
    BY <1>4, <2>1, MovedElements
<1>7. /\ \A a \in Apps : Rebased(s).waitQ[a] = QueueRebased(s.waitQ[a], s.vtime)
      /\ Rebased(s).osQ = Untagged(s.osQ)
      /\ \A a \in Apps : Rebased(s).maxftags[a] = Ahead(s.maxftags[a], s.vtime)
      /\ Rebased(s).vtime = 0 /\ Rebased(s).startpos = s.startpos
  BY DEF Rebased
<1>8. QED
  BY <1>1, <1>4, <1>5, <1>6, <1>7

\* dispatchNext and popOsQ may choose the same, and a packet is new to the one
\* exactly when it is new to the other.
LEMMA RebasedGuards ==
  ASSUME NEW s \in Scheduler
  PROVE  /\ \A a \in Apps : CanDispatch(Rebased(s), a) <=> CanDispatch(s, a)
         /\ \A id \in Ids : \A k : IsFirstMatch(Rebased(s), id, k) <=> IsFirstMatch(s, id, k)
         /\ WaitingIds(Rebased(s)) = WaitingIds(s)
         /\ OutstandingIds(Rebased(s)) = OutstandingIds(s)
<1> DEFINE r == Rebased(s)
<1>1. /\ \A a \in Apps : s.waitQ[a] \in Seq(MovedJob) /\ r.waitQ[a] \in Seq(MovedJob)
      /\ \A a \in Apps : Len(r.waitQ[a]) = Len(s.waitQ[a])
      /\ \A a \in Apps : \A k \in 1 .. Len(s.waitQ[a]) :
           r.waitQ[a][k] = JobRebased(s.waitQ[a][k], s.vtime)
      /\ s.osQ \in Seq(MovedJob) /\ r.osQ \in Seq(MovedJob)
      /\ r.osQ = Untagged(s.osQ) /\ Len(r.osQ) = Len(s.osQ)
      /\ s.vtime \in Nat /\ r.startpos = s.startpos
  BY RebasedFields
<1>2. \A k \in 1 .. Len(s.osQ) : r.osQ[k].pkt = s.osQ[k].pkt
  <2>1. \A k \in 1 .. Len(s.osQ) :
          Untagged(s.osQ)[k] = [pkt |-> s.osQ[k].pkt, stag |-> 0, ftag |-> 0]
    BY <1>1, UntaggedElements
  <2>2. \A k \in 1 .. Len(s.osQ) : r.osQ[k] = [pkt |-> s.osQ[k].pkt, stag |-> 0, ftag |-> 0]
    BY <1>1, <2>1, Zenon
  <2>3. \A x : [pkt |-> x, stag |-> 0, ftag |-> 0].pkt = x
    OBVIOUS
  <2>4. QED
    BY <2>2, <2>3, Zenon
<1> HIDE DEF r
<1>3. ASSUME NEW a \in Apps
      PROVE  /\ Backlogged(r, a) <=> Backlogged(s, a)
             /\ Backlogged(s, a) => /\ FrontTag(s, a) \in Int
                                    /\ FrontTag(r, a) = FrontTag(s, a) - s.vtime
             /\ ScanPos(r, a) = ScanPos(s, a)
  <2>1. Backlogged(r, a) <=> Backlogged(s, a)
    BY <1>1 DEF Backlogged
  <2>2. ASSUME Backlogged(s, a)
        PROVE  FrontTag(s, a) \in Int /\ FrontTag(r, a) = FrontTag(s, a) - s.vtime
    <3>1. 1 \in 1 .. Len(s.waitQ[a]) /\ s.waitQ[a][1] \in MovedJob
      BY <1>1, <2>2 DEF Backlogged
    <3>2. r.waitQ[a][1] = JobRebased(s.waitQ[a][1], s.vtime)
      BY <1>1, <3>1
    <3>3. QED
      BY <3>1, <3>2 DEF FrontTag, JobRebased, MovedJob
  <2>3. QED
    BY <1>1, <2>1, <2>2 DEF ScanPos
<1>4. ASSUME NEW a \in Apps
      PROVE  CanDispatch(r, a) <=> CanDispatch(s, a)
  <2>1. ASSUME NEW b \in Apps, Backlogged(s, a), Backlogged(s, b)
        PROVE  /\ FrontTag(r, a) < FrontTag(r, b) <=> FrontTag(s, a) < FrontTag(s, b)
               /\ FrontTag(r, a) = FrontTag(r, b) <=> FrontTag(s, a) = FrontTag(s, b)
               /\ ScanPos(r, a) = ScanPos(s, a) /\ ScanPos(r, b) = ScanPos(s, b)
    BY <1>1, <1>3, <2>1
  <2>2. IsNext(r, a) <=> IsNext(s, a)
    BY <1>3, <2>1 DEF IsNext
  <2>3. QED
    BY <1>1, <2>2 DEF CanDispatch
<1>5. ASSUME NEW id \in Ids, NEW k
      PROVE  IsFirstMatch(r, id, k) <=> IsFirstMatch(s, id, k)
  <2>1. k \in 1 .. Len(s.osQ) => \A j \in 1 .. k - 1 : j \in 1 .. Len(s.osQ)
    BY <1>1
  <2>2. QED
    BY <1>1, <1>2, <2>1 DEF IsFirstMatch
<1>6. OutstandingIds(r) = OutstandingIds(s)
  <2>1. DOMAIN r.osQ = 1 .. Len(s.osQ) /\ DOMAIN s.osQ = 1 .. Len(s.osQ)
    BY <1>1
  <2>2. \A z \in {s, r} : OutstandingIds(z) = {z.osQ[k].pkt.id : k \in DOMAIN z.osQ}
    BY DEF OutstandingIds, ToSet
  <2>3. QED
    BY <1>2, <2>1, <2>2
<1>7. WaitingIds(r) = WaitingIds(s)
  <2>1. ASSUME NEW a \in Apps
        PROVE  {j.pkt.id : j \in ToSet(r.waitQ[a])} = {j.pkt.id : j \in ToSet(s.waitQ[a])}
    <3>1. /\ DOMAIN r.waitQ[a] = 1 .. Len(s.waitQ[a])
          /\ DOMAIN s.waitQ[a] = 1 .. Len(s.waitQ[a])
      BY <1>1
    <3>2. \A j, v : JobRebased(j, v).pkt = j.pkt
      BY DEF JobRebased
    <3>3. \A k \in 1 .. Len(s.waitQ[a]) : r.waitQ[a][k].pkt = s.waitQ[a][k].pkt
      BY <1>1, <3>2, Zenon
    <3>4. QED
      BY <3>1, <3>3 DEF ToSet
  <2>2. QED
    BY <2>1 DEF WaitingIds
<1>8. QED
  BY <1>4, <1>5, <1>6, <1>7 DEF r

\* Two schedulers with the same queues and tags are the same at the moved origin.
LEMMA RebasedEqual ==
  ASSUME NEW s, NEW t,
         \A a \in Apps : QueueRebased(s.waitQ[a], s.vtime) = QueueRebased(t.waitQ[a], t.vtime),
         Untagged(s.osQ) = Untagged(t.osQ),
         \A a \in Apps : Ahead(s.maxftags[a], s.vtime) = Ahead(t.maxftags[a], t.vtime),
         s.startpos = t.startpos
  PROVE  Rebased(s) = Rebased(t)
BY DEF Rebased

\* Schedulers whose tags may lie before the origin.
MovedScheduler == [waitQ    : [Apps -> Seq(MovedJob)],
                   osQ      : Seq(MovedJob),
                   maxftags : [Apps -> Nat],
                   vtime    : Nat,
                   startpos : Apps]

\* A scheduler is one of them, and is one at the moved origin.
LEMMA MovedSchedulers ==
  ASSUME NEW s \in Scheduler
  PROVE  s \in MovedScheduler /\ Rebased(s) \in MovedScheduler
<1>1. /\ \A a \in Apps : s.waitQ[a] \in Seq(MovedJob)
      /\ \A a \in Apps : QueueRebased(s.waitQ[a], s.vtime) \in Seq(MovedJob)
      /\ s.osQ \in Seq(MovedJob) /\ Untagged(s.osQ) \in Seq(MovedJob)
      /\ s.maxftags \in [Apps -> Nat] /\ s.vtime \in Nat /\ s.startpos \in Apps
  BY RebasedFields
<1>2. \A a \in Apps : Ahead(s.maxftags[a], s.vtime) \in Nat
  BY <1>1 DEF Ahead
<1>3. s.waitQ \in [Apps -> Seq(MovedJob)]
  BY <1>1 DEF Scheduler
<1>4. QED
  BY <1>1, <1>2, <1>3 DEF MovedScheduler, Rebased, Scheduler

\* pushWaitQ, wherever the origin is.
LEMMA PushedFields ==
  ASSUME NEW s \in MovedScheduler, NEW p \in Packet
  PROVE  /\ p.app \in Apps
         /\ \A b \in Apps : Pushed(s, p).waitQ[b] =
              IF b = p.app THEN Append(s.waitQ[b], NewJob(s, p)) ELSE s.waitQ[b]
         /\ Pushed(s, p).osQ = s.osQ /\ Pushed(s, p).maxftags = s.maxftags
         /\ Pushed(s, p).vtime = s.vtime /\ Pushed(s, p).startpos = s.startpos
<1>1. p.app \in Apps /\ s.waitQ \in [Apps -> Seq(MovedJob)]
  BY DEF Packet, MovedScheduler
<1>2. Pushed(s, p) =
        [s EXCEPT !.waitQ = [s.waitQ EXCEPT ![p.app] = Append(s.waitQ[p.app], NewJob(s, p))]]
  BY <1>1 DEF Pushed, MovedScheduler
<1>3. QED
  BY <1>1, <1>2 DEF MovedScheduler

\* The arrival tag moves with the origin, and the job with it.
LEMMA NewJobRebased ==
  ASSUME NEW s \in Scheduler, NEW p \in Packet
  PROVE  /\ NewJob(s, p) \in MovedJob
         /\ NewJob(Rebased(s), p) = JobRebased(NewJob(s, p), s.vtime)
<1> DEFINE r == Rebased(s)
           a == p.app
           w == s.waitQ[a]
<1>1. /\ a \in Apps /\ p.size \in Sizes
      /\ w \in Seq(Job) /\ s.maxftags[a] \in Nat /\ s.vtime \in Nat
  BY DEF Packet, Scheduler
<1>2. /\ r.waitQ[a] \in Seq(MovedJob) /\ Len(r.waitQ[a]) = Len(w)
      /\ \A k \in 1 .. Len(w) : r.waitQ[a][k] = JobRebased(w[k], s.vtime)
      /\ r.maxftags[a] = Ahead(s.maxftags[a], s.vtime) /\ r.vtime = 0
  BY <1>1, RebasedFields
<1>3. /\ NewJob(s, p) \in Job /\ ArrivalTag(s, a) \in Nat
      /\ Charge(a, p.size) \in Nat
  BY <1>1, NewJobType, ChargeInWindow
<1> HIDE DEF r
<1>4. ArrivalTag(r, a) = ArrivalTag(s, a) - s.vtime
  <2>1. CASE w # <<>>
    <3>1. /\ Len(w) \in 1 .. Len(w) /\ w[Len(w)] \in Job /\ r.waitQ[a] # <<>>
          /\ r.waitQ[a][Len(w)] = JobRebased(w[Len(w)], s.vtime)
      BY <1>1, <1>2, <2>1
    <3>2. /\ ArrivalTag(s, a) = w[Len(w)].ftag
          /\ ArrivalTag(r, a) = r.waitQ[a][Len(w)].ftag
      BY <1>2, <2>1, <3>1 DEF ArrivalTag, Backlogged
    <3>3. r.waitQ[a][Len(w)].ftag = w[Len(w)].ftag - s.vtime
      BY <3>1 DEF JobRebased
    <3>4. QED
      BY <3>2, <3>3
  <2>2. CASE w = <<>>
    <3>1. r.waitQ[a] = <<>>
      BY <1>2, <2>2
    <3>2. QED
      BY <1>1, <1>2, <2>2, <3>1 DEF ArrivalTag, Backlogged, Ahead
  <2>3. QED
    BY <2>1, <2>2
<1>5. NewJob(r, p) = JobRebased(NewJob(s, p), s.vtime)
  BY <1>1, <1>3, <1>4 DEF NewJob, JobRebased
<1>6. QED
  BY <1>3, <1>5 DEF r, Job, MovedJob

\* pushWaitQ does the same at the moved origin.
LEMMA PushRebased ==
  ASSUME NEW s \in Scheduler, NEW p \in Packet
  PROVE  Rebased(Pushed(Rebased(s), p)) = Rebased(Pushed(s, p))
<1> DEFINE r == Rebased(s)
           j == NewJob(s, p)
           v == s.vtime
<1>1. s \in MovedScheduler /\ r \in MovedScheduler
  BY MovedSchedulers
<1>2. j \in MovedJob /\ NewJob(r, p) = JobRebased(j, v) /\ v \in Nat /\ v \in Int
  BY NewJobRebased DEF Scheduler
<1>3. /\ \A a \in Apps : r.waitQ[a] = QueueRebased(s.waitQ[a], v) /\ s.waitQ[a] \in Seq(MovedJob)
      /\ \A a \in Apps : r.maxftags[a] = Ahead(s.maxftags[a], v) /\ s.maxftags[a] \in Nat
      /\ r.osQ = Untagged(s.osQ) /\ s.osQ \in Seq(MovedJob)
      /\ r.vtime = 0 /\ r.startpos = s.startpos
  BY RebasedFields
<1> HIDE DEF r, j, v
<1> DEFINE x == Pushed(s, p)
           y == Pushed(r, p)
<1>4. /\ p.app \in Apps
      /\ \A b \in Apps : x.waitQ[b] = IF b = p.app THEN Append(s.waitQ[b], j) ELSE s.waitQ[b]
      /\ x.osQ = s.osQ /\ x.maxftags = s.maxftags
      /\ x.vtime = v /\ x.startpos = s.startpos
  BY <1>1, PushedFields DEF j, v
<1>5. /\ \A b \in Apps :
           y.waitQ[b] = IF b = p.app THEN Append(r.waitQ[b], JobRebased(j, v)) ELSE r.waitQ[b]
      /\ y.osQ = r.osQ /\ y.maxftags = r.maxftags
      /\ y.vtime = 0 /\ y.startpos = r.startpos
  BY <1>1, <1>2, <1>3, PushedFields
<1> HIDE DEF x, y
<1>6. ASSUME NEW b \in Apps
      PROVE  QueueRebased(y.waitQ[b], 0) = QueueRebased(x.waitQ[b], v)
  <2> DEFINE w == s.waitQ[b]
  <2>1. w \in Seq(MovedJob) /\ r.waitQ[b] = QueueRebased(w, v) /\ Append(w, j) \in Seq(MovedJob)
    BY <1>2, <1>3
  <2> HIDE DEF w
  <2>2. /\ QueueRebased(QueueRebased(w, v), 0) = QueueRebased(w, v)
        /\ QueueRebased(QueueRebased(Append(w, j), v), 0) = QueueRebased(Append(w, j), v)
    <3>1. v + 0 = v /\ v \in Int /\ 0 \in Int
      BY <1>2
    <3>2. \A u \in Seq(MovedJob) : QueueRebased(QueueRebased(u, v), 0) = QueueRebased(u, v + 0)
      BY <3>1, MovedTwice
    <3>3. QED
      BY <2>1, <3>1, <3>2
  <2>3. QueueRebased(Append(w, j), v) = Append(QueueRebased(w, v), JobRebased(j, v))
    BY <1>2, <2>1, MovedAppend
  <2>4. CASE b = p.app
    <3>1. /\ x.waitQ[b] = Append(w, j)
          /\ y.waitQ[b] = Append(QueueRebased(w, v), JobRebased(j, v))
      BY <1>4, <1>5, <2>1, <2>4 DEF w
    <3>2. QED
      BY <2>2, <2>3, <3>1, Zenon
  <2>5. CASE b # p.app
    <3>1. x.waitQ[b] = w /\ y.waitQ[b] = QueueRebased(w, v)
      BY <1>4, <1>5, <2>1, <2>5 DEF w
    <3>2. QED
      BY <2>2, <3>1, Zenon
  <2>6. QED
    BY <2>4, <2>5
<1>7. \A b \in Apps : Ahead(y.maxftags[b], 0) = Ahead(x.maxftags[b], v)
  BY <1>2, <1>3, <1>4, <1>5 DEF Ahead
<1>8. Untagged(y.osQ) = Untagged(x.osQ)
  BY <1>3, <1>4, <1>5, UntaggedLists
<1>9. Rebased(y) = Rebased(x)
  BY <1>3, <1>4, <1>5, <1>6, <1>7, <1>8, RebasedEqual
<1>10. QED
  BY <1>9 DEF x, y, r

\* popOsQ does the same at the moved origin.
LEMMA PopRebased ==
  ASSUME NEW s \in Scheduler, NEW k \in DOMAIN s.osQ
  PROVE  Rebased(Popped(Rebased(s), k)) = Rebased(Popped(s, k))
<1> DEFINE r == Rebased(s)
           v == s.vtime
<1>1. s \in MovedScheduler /\ r \in MovedScheduler
  BY MovedSchedulers
<1>2. /\ \A a \in Apps : r.waitQ[a] = QueueRebased(s.waitQ[a], v) /\ s.waitQ[a] \in Seq(MovedJob)
      /\ \A a \in Apps : r.maxftags[a] = Ahead(s.maxftags[a], v) /\ s.maxftags[a] \in Nat
      /\ r.osQ = Untagged(s.osQ) /\ s.osQ \in Seq(MovedJob)
      /\ r.vtime = 0 /\ r.startpos = s.startpos /\ v \in Nat
  BY RebasedFields
<1> HIDE DEF r, v
<1>3. \A z \in MovedScheduler :
        /\ Popped(z, k).waitQ = z.waitQ /\ Popped(z, k).osQ = RemoveAt(z.osQ, k)
        /\ Popped(z, k).maxftags = z.maxftags
        /\ Popped(z, k).vtime = z.vtime /\ Popped(z, k).startpos = z.startpos
  BY DEF Popped, MovedScheduler
<1> DEFINE x == Popped(s, k)
           y == Popped(r, k)
<1>4. /\ x.waitQ = s.waitQ /\ x.osQ = RemoveAt(s.osQ, k)
      /\ x.maxftags = s.maxftags /\ x.vtime = v /\ x.startpos = s.startpos
  BY <1>1, <1>3 DEF v
<1>5. /\ y.waitQ = r.waitQ /\ y.osQ = RemoveAt(r.osQ, k)
      /\ y.maxftags = r.maxftags /\ y.vtime = 0 /\ y.startpos = s.startpos
  BY <1>1, <1>2, <1>3
<1> HIDE DEF x, y
<1>6. ASSUME NEW b \in Apps
      PROVE  QueueRebased(y.waitQ[b], 0) = QueueRebased(x.waitQ[b], v)
  <2>1. s.waitQ[b] \in Seq(MovedJob) /\ v + 0 = v /\ v \in Int /\ 0 \in Int
    BY <1>2
  <2>2. QueueRebased(QueueRebased(s.waitQ[b], v), 0) = QueueRebased(s.waitQ[b], v)
    BY <2>1, MovedTwice
  <2>3. QED
    BY <1>2, <1>4, <1>5, <2>2
<1>7. \A b \in Apps : Ahead(y.maxftags[b], 0) = Ahead(x.maxftags[b], v)
  BY <1>2, <1>4, <1>5 DEF Ahead
<1>8. Untagged(y.osQ) = Untagged(x.osQ)
  <2>1. RemoveAt(Untagged(s.osQ), k) = Untagged(RemoveAt(s.osQ, k))
    BY <1>2, UntaggedLists
  <2>2. RemoveAt(s.osQ, k) \in Seq(MovedJob)
    BY <1>2, RemoveAtElements
  <2>3. Untagged(Untagged(RemoveAt(s.osQ, k))) = Untagged(RemoveAt(s.osQ, k))
    BY <2>2, UntaggedLists
  <2>4. QED
    BY <1>2, <1>4, <1>5, <2>1, <2>3
<1>9. Rebased(y) = Rebased(x)
  BY <1>4, <1>5, <1>6, <1>7, <1>8, RebasedEqual
<1>10. QED
  BY <1>9 DEF x, y, r

\* dispatchNext, wherever the origin is.
LEMMA DispatchedFields ==
  ASSUME NEW s \in MovedScheduler, NEW a \in Apps, s.waitQ[a] # <<>>
  PROVE  LET job  == s.waitQ[a][1]
             rest == Tail(s.waitQ[a])
             d    == Dispatched(s, a)
         IN  /\ \A b \in Apps \ {a} : d.waitQ[b] = s.waitQ[b] /\ d.maxftags[b] = s.maxftags[b]
             /\ d.waitQ[a] = IF rest = <<>> THEN <<>>
                             ELSE [rest EXCEPT ![1] = Retagged(job, rest[1])]
             /\ d.maxftags[a] = IF rest = <<>> THEN job.ftag ELSE s.maxftags[a]
             /\ d.osQ = Append(s.osQ, job) /\ d.vtime = job.stag
             /\ d.startpos = IF a + 1 >= NumApps THEN 0 ELSE a + 1
<1> DEFINE w    == s.waitQ[a]
           rest == Tail(w)
           d    == Dispatched(s, a)
           more == [rest EXCEPT ![1] = Retagged(w[1], rest[1])]
<1>1. /\ s.waitQ \in [Apps -> Seq(MovedJob)] /\ s.maxftags \in [Apps -> Nat]
      /\ w \in Seq(MovedJob) /\ Head(w) = w[1]
  BY DEF MovedScheduler
<1>2. /\ d.waitQ = [s.waitQ EXCEPT ![a] = IF rest = <<>> THEN <<>> ELSE more]
      /\ d.maxftags = IF rest = <<>> THEN [s.maxftags EXCEPT ![a] = w[1].ftag] ELSE s.maxftags
      /\ d.osQ = Append(s.osQ, w[1]) /\ d.vtime = w[1].stag
      /\ d.startpos = IF a + 1 >= NumApps THEN 0 ELSE a + 1
  <2>1. d.waitQ = [s.waitQ EXCEPT ![a] = IF rest = <<>> THEN <<>> ELSE more]
    BY SMTT(20) DEF Dispatched
  <2>2. d.maxftags = IF rest = <<>> THEN [s.maxftags EXCEPT ![a] = w[1].ftag] ELSE s.maxftags
    BY <1>1 DEF Dispatched
  <2>3. /\ d.osQ = Append(s.osQ, w[1]) /\ d.vtime = w[1].stag
        /\ d.startpos = IF a + 1 >= NumApps THEN 0 ELSE a + 1
    BY <1>1 DEF Dispatched
  <2>4. QED
    BY <2>1, <2>2, <2>3
<1> HIDE DEF d, more, rest
<1>3. QED
  <2>1. /\ \A b \in Apps \ {a} : d.waitQ[b] = s.waitQ[b] /\ d.maxftags[b] = s.maxftags[b]
        /\ d.waitQ[a] = IF rest = <<>> THEN <<>> ELSE more
        /\ d.maxftags[a] = IF rest = <<>> THEN w[1].ftag ELSE s.maxftags[a]
    BY <1>1, <1>2
  <2>2. QED
    BY <1>2, <2>1 DEF d, more, rest

\* Rewriting the tags of the new front moves with the origin.
LEMMA RetaggedRebased ==
  ASSUME NEW j \in MovedJob, NEW n \in MovedJob, NEW v \in Int
  PROVE  /\ Retagged(j, n) \in MovedJob
         /\ Retagged(JobRebased(j, v), JobRebased(n, v)) = JobRebased(Retagged(j, n), v)
BY DEF Retagged, JobRebased, MovedJob

\* dispatchNext does the same at the moved origin, because it never picks a job
\* that starts before the virtual time.
LEMMA DispatchRebased ==
  ASSUME NEW s \in Scheduler, NEW a \in Apps, Backlogged(s, a), s.vtime <= FrontTag(s, a)
  PROVE  Rebased(Dispatched(Rebased(s), a)) = Rebased(Dispatched(s, a))
<1> DEFINE r == Rebased(s)
           v == s.vtime
           w == s.waitQ[a]
           t == r.waitQ[a]
           job == w[1]
           u == job.stag - v
<1>1. s \in MovedScheduler /\ r \in MovedScheduler
  BY MovedSchedulers
<1>2. /\ \A b \in Apps : r.waitQ[b] = QueueRebased(s.waitQ[b], v) /\ s.waitQ[b] \in Seq(MovedJob)
      /\ \A b \in Apps : r.maxftags[b] = Ahead(s.maxftags[b], v) /\ s.maxftags[b] \in Nat
      /\ r.osQ = Untagged(s.osQ) /\ s.osQ \in Seq(MovedJob) /\ r.osQ \in Seq(MovedJob)
      /\ r.vtime = 0 /\ r.startpos = s.startpos /\ v \in Nat /\ v \in Int
  BY RebasedFields
<1>3. /\ w \in Seq(MovedJob) /\ w # <<>> /\ job \in Job /\ job \in MovedJob
      /\ v <= job.stag /\ job.stag \in Nat /\ job.ftag \in Nat /\ u \in Nat
  <2>1. job \in Job /\ FrontTag(s, a) \in Nat
    BY FrontIsJob
  <2>2. w \in Seq(MovedJob) /\ w # <<>> /\ v <= job.stag
    BY <1>2 DEF Backlogged, FrontTag
  <2>3. job \in MovedJob /\ job.stag \in Nat /\ job.ftag \in Nat
    BY <2>1 DEF Job, MovedJob
  <2>4. QED
    BY <1>2, <2>1, <2>2, <2>3
<1> HIDE DEF r, v
<1>4. /\ t = QueueRebased(w, v) /\ Tail(t) = QueueRebased(Tail(w), v)
      /\ t # <<>> /\ t[1] = JobRebased(job, v)
  <2> HIDE DEF w
  <2>1. w \in Seq(MovedJob) /\ w # <<>> /\ v \in Int /\ t = QueueRebased(w, v)
    BY <1>2, <1>3 DEF w
  <2>2. QED
    BY <2>1, MovedTail
<1>5. Tail(w) \in Seq(MovedJob) /\ t[1].stag = u /\ t[1].ftag = job.ftag - v
  <2>1. Tail(w) \in Seq(MovedJob)
    BY <1>3
  <2>2. QED
    BY <1>4, <2>1 DEF JobRebased
<1> DEFINE x == Dispatched(s, a)
           y == Dispatched(r, a)
           rest == Tail(w)
           more == [rest EXCEPT ![1] = Retagged(job, rest[1])]
           last == IF a + 1 >= NumApps THEN 0 ELSE a + 1
<1>6. /\ \A b \in Apps \ {a} : x.waitQ[b] = s.waitQ[b] /\ x.maxftags[b] = s.maxftags[b]
      /\ x.waitQ[a] = IF rest = <<>> THEN <<>> ELSE more
      /\ x.maxftags[a] = IF rest = <<>> THEN job.ftag ELSE s.maxftags[a]
      /\ x.osQ = Append(s.osQ, job) /\ x.vtime = job.stag /\ x.startpos = last
  BY <1>1, <1>3, DispatchedFields
<1>7. /\ \A b \in Apps \ {a} : y.waitQ[b] = r.waitQ[b] /\ y.maxftags[b] = r.maxftags[b]
      /\ y.waitQ[a] = IF Tail(t) = <<>> THEN <<>>
                      ELSE [Tail(t) EXCEPT ![1] = Retagged(t[1], Tail(t)[1])]
      /\ y.maxftags[a] = IF Tail(t) = <<>> THEN t[1].ftag ELSE r.maxftags[a]
      /\ y.osQ = Append(r.osQ, t[1]) /\ y.vtime = t[1].stag /\ y.startpos = last
  BY <1>1, <1>4, DispatchedFields
<1> HIDE DEF x, y, w, t, job, u, rest, last, more
<1>8. /\ Tail(t) = QueueRebased(rest, v) /\ rest \in Seq(MovedJob)
      /\ (Tail(t) = <<>>) <=> (rest = <<>>)
  <2>1. Tail(t) = QueueRebased(rest, v) /\ rest \in Seq(MovedJob) /\ v \in Int
    BY <1>2, <1>4, <1>5 DEF rest
  <2>2. QueueRebased(rest, v) \in Seq(MovedJob) /\ Len(QueueRebased(rest, v)) = Len(rest)
    BY <2>1, MovedElements
  <2>3. \A z \in Seq(MovedJob) : Len(z) = Len(rest) => ((z = <<>>) <=> (rest = <<>>))
    BY <2>1
  <2>4. QED
    BY <2>1, <2>2, <2>3, Zenon
<1>9. ASSUME rest # <<>>
      PROVE  more \in Seq(MovedJob) /\ y.waitQ[a] = QueueRebased(more, v)
  <2> DEFINE n == rest[1]
             g == Retagged(job, n)
  <2>1. n \in MovedJob /\ v \in Int
    BY <1>2, <1>8, <1>9
  <2>2. Tail(t)[1] = JobRebased(n, v)
    BY <1>8, <1>9, <2>1, MovedTail
  <2>3. g \in MovedJob /\ Retagged(JobRebased(job, v), JobRebased(n, v)) = JobRebased(g, v)
    BY <1>3, <2>1, RetaggedRebased
  <2> HIDE DEF n, g
  <2>4. y.waitQ[a] = [QueueRebased(rest, v) EXCEPT ![1] = JobRebased(g, v)]
    BY <1>4, <1>7, <1>8, <1>9, <2>2, <2>3
  <2>5. QueueRebased([rest EXCEPT ![1] = g], v) = [QueueRebased(rest, v) EXCEPT ![1] = JobRebased(g, v)]
    BY <1>8, <1>9, <2>1, <2>3, MovedFront
  <2>6. [rest EXCEPT ![1] = g] \in Seq(MovedJob)
    BY <1>8, <1>9, <2>3
  <2>7. QED
    BY <2>4, <2>5, <2>6 DEF more, g, n
<1>10. \A z \in Seq(MovedJob) : QueueRebased(QueueRebased(z, v), u) = QueueRebased(z, job.stag)
  <2>1. v \in Int /\ u \in Int /\ v + u = job.stag
    BY <1>2, <1>3 DEF u
  <2>2. \A z \in Seq(MovedJob) : QueueRebased(QueueRebased(z, v), u) = QueueRebased(z, v + u)
    BY <2>1, MovedTwice
  <2>3. QED
    BY <2>1, <2>2
<1>11. ASSUME NEW b \in Apps
       PROVE  QueueRebased(y.waitQ[b], u) = QueueRebased(x.waitQ[b], job.stag)
  <2>1. CASE b # a
    BY <1>2, <1>6, <1>7, <1>10, <2>1
  <2>2. CASE b = a /\ rest # <<>>
    BY <1>6, <1>9, <1>10, <2>2
  <2>3. CASE b = a /\ rest = <<>>
    BY <1>6, <1>7, <1>8, <2>3 DEF QueueRebased
  <2>4. QED
    BY <2>1, <2>2, <2>3
<1>12. ASSUME NEW b \in Apps
       PROVE  Ahead(y.maxftags[b], u) = Ahead(x.maxftags[b], job.stag)
  <2>1. /\ s.maxftags[b] \in Nat /\ r.maxftags[b] = Ahead(s.maxftags[b], v)
        /\ v \in Nat /\ job.stag \in Nat /\ job.ftag \in Nat /\ u = job.stag - v /\ u \in Nat
    BY <1>2, <1>3 DEF u
  <2>2. CASE x.maxftags[b] = s.maxftags[b] /\ y.maxftags[b] = r.maxftags[b]
    BY <2>1, <2>2 DEF Ahead
  <2>3. CASE x.maxftags[b] = job.ftag /\ y.maxftags[b] = job.ftag - v
    BY <2>1, <2>3 DEF Ahead
  <2>4. QED
    BY <1>5, <1>6, <1>7, <1>8, <2>2, <2>3
<1>13. Untagged(y.osQ) = Untagged(x.osQ)
  <2>1. t[1] \in MovedJob /\ t[1].pkt = job.pkt
    <3>1. job \in MovedJob /\ v \in Int /\ t[1] = JobRebased(job, v)
      BY <1>2, <1>3, <1>4
    <3>2. QED
      BY <3>1 DEF JobRebased, MovedJob
  <2>2. Untagged(Append(r.osQ, t[1])) =
          Append(Untagged(r.osQ), [pkt |-> t[1].pkt, stag |-> 0, ftag |-> 0])
    BY <1>2, <2>1, MovedAppend
  <2>3. Untagged(Append(s.osQ, job)) =
          Append(Untagged(s.osQ), [pkt |-> job.pkt, stag |-> 0, ftag |-> 0])
    BY <1>2, <1>3, MovedAppend
  <2>4. Untagged(r.osQ) = Untagged(s.osQ)
    BY <1>2, UntaggedLists
  <2>5. QED
    BY <1>6, <1>7, <2>1, <2>2, <2>3, <2>4
<1>14. Rebased(y) = Rebased(x)
  <2>1. y.vtime = u /\ x.vtime = job.stag /\ y.startpos = x.startpos
    BY <1>5, <1>6, <1>7
  <2>2. QED
    BY <1>11, <1>12, <1>13, <2>1, RebasedEqual
<1>15. QED
  BY <1>14 DEF x, y, r

-----------------------------------------------------------------------------
(* SFQ implements SFQEndless. *)

Endless == INSTANCE SFQEndless WITH q <- Rebased(q)

\* Both start empty.
LEMMA EndlessInit == Init => Endless!Init
<1> SUFFICES ASSUME q = EmptyScheduler
             PROVE  Rebased(q) = Endless!EmptyScheduler
  BY DEF Init, Endless!Init
<1> DEFINE e == EmptyScheduler
<1>1. QueueRebased(<<>>, 0) = <<>> /\ Untagged(<<>>) = <<>> /\ Ahead(0, 0) = 0
  BY DEF QueueRebased, Untagged, Ahead
<1>2. Rebased(e) = e
  <2>1. /\ e.waitQ = [a \in Apps |-> <<>>] /\ e.osQ = <<>>
        /\ e.maxftags = [a \in Apps |-> 0] /\ e.vtime = 0 /\ e.startpos = 0
        /\ e = [waitQ |-> [a \in Apps |-> <<>>], osQ |-> <<>>,
                maxftags |-> [a \in Apps |-> 0], vtime |-> 0, startpos |-> 0]
    BY DEF EmptyScheduler
  <2> HIDE DEF e
  <2>2. [a \in Apps |-> QueueRebased(e.waitQ[a], e.vtime)] = [a \in Apps |-> <<>>]
    BY <1>1, <2>1
  <2>3. [a \in Apps |-> Ahead(e.maxftags[a], e.vtime)] = [a \in Apps |-> 0]
    BY <1>1, <2>1
  <2>4. QED
    BY <1>1, <2>1, <2>2, <2>3 DEF Rebased
<1>3. EmptyScheduler = Endless!EmptyScheduler
  BY DEF EmptyScheduler, Endless!EmptyScheduler, Apps, Endless!Apps
<1>4. QED
  BY <1>2, <1>3

\* The operators of the instance are those of this module.
LEMMA EndlessOperators ==
  /\ Endless!Packet = Packet /\ Endless!Apps = Apps
  /\ \A s : Endless!Rebased(s) = Rebased(s)
  /\ \A s, p : Endless!Pushed(s, p) = Pushed(s, p)
  /\ \A s, a : Endless!Dispatched(s, a) = Dispatched(s, a)
  /\ \A s, k : Endless!Popped(s, k) = Popped(s, k)
  /\ \A s, a : Endless!CanDispatch(s, a) <=> CanDispatch(s, a)
  /\ \A s, id, k : Endless!IsFirstMatch(s, id, k) <=> IsFirstMatch(s, id, k)
  /\ \A s : /\ Endless!WaitingIds(s) = WaitingIds(s)
           /\ Endless!OutstandingIds(s) = OutstandingIds(s)
<1>1. Endless!Apps = Apps /\ Endless!Packet = Packet
  BY DEF Endless!Apps, Apps, Endless!Packet, Packet
<1>2. \A s : Endless!Rebased(s) = Rebased(s)
  BY DEF Endless!Rebased, Rebased, Endless!QueueRebased, QueueRebased,
         Endless!JobRebased, JobRebased, Endless!Untagged, Untagged, Endless!Ahead, Ahead,
         Endless!Apps, Apps
<1>3. \A s, p : Endless!Pushed(s, p) = Pushed(s, p)
  BY DEF Endless!Pushed, Pushed, Endless!NewJob, NewJob, Endless!ArrivalTag, ArrivalTag,
         Endless!Backlogged, Backlogged, Endless!Charge, Charge
<1>4. \A s, a : Endless!Dispatched(s, a) = Dispatched(s, a)
  BY DEF Endless!Dispatched, Dispatched, Endless!Retagged, Retagged
<1>5. \A s, k : Endless!Popped(s, k) = Popped(s, k)
  BY DEF Endless!Popped, Popped, Endless!RemoveAt, RemoveAt
<1>6. \A s, a : Endless!CanDispatch(s, a) <=> CanDispatch(s, a)
  BY DEF Endless!CanDispatch, CanDispatch, Endless!IsNext, IsNext, Endless!Backlogged,
         Backlogged, Endless!FrontTag, FrontTag, Endless!ScanPos, ScanPos, Endless!Apps, Apps
<1>7. \A s, id, k : Endless!IsFirstMatch(s, id, k) <=> IsFirstMatch(s, id, k)
  BY DEF Endless!IsFirstMatch, IsFirstMatch
<1>8. \A s : /\ Endless!WaitingIds(s) = WaitingIds(s)
           /\ Endless!OutstandingIds(s) = OutstandingIds(s)
  BY DEF Endless!WaitingIds, WaitingIds, Endless!OutstandingIds, OutstandingIds,
         Endless!ToSet, ToSet, Endless!Apps, Apps
<1>9. QED
  BY <1>1, <1>2, <1>3, <1>4, <1>5, <1>6, <1>7, <1>8

\* Every step of SFQ is a step of SFQEndless or leaves what it sees unchanged.
LEMMA StepEndless ==
  ASSUME IInv, [NextF]_<<q, lead>>
  PROVE  [Endless!NextE]_(Rebased(q))
<1>1. q \in Scheduler
  BY DEF IInv, TypeOKF, TypeOK
<1> DEFINE r == Rebased(q)
<1>2. ASSUME NEW p \in Packet, PushF(p)
      PROVE  Endless!NextE
  <2>1. p.id \notin WaitingIds(r) \cup OutstandingIds(r)
    BY <1>1, <1>2, RebasedGuards DEF PushF, PushWaitQ
  <2>2. r' = Rebased(Pushed(r, p))
    BY <1>1, <1>2, PushRebased DEF PushF, PushWaitQ
  <2>3. Endless!PushE(p)
    BY <2>1, <2>2, EndlessOperators DEF Endless!PushE
  <2>4. QED
    BY <2>3, EndlessOperators DEF Endless!NextE
<1>3. ASSUME NEW c \in Apps, DispatchF(c)
      PROVE  Endless!NextE
  <2>1. CanDispatch(q, c) /\ q' = Dispatched(q, c) /\ Backlogged(q, c)
    BY <1>3 DEF DispatchF, DispatchNext, CanDispatch, IsNext
  <2>2. q.vtime <= FrontTag(q, c)
    BY <2>1 DEF IInv, TagWindow
  <2>3. CanDispatch(r, c) /\ r' = Rebased(Dispatched(r, c))
    BY <1>1, <2>1, <2>2, RebasedGuards, DispatchRebased
  <2>4. Endless!DispatchE(c)
    BY <2>3, EndlessOperators DEF Endless!DispatchE
  <2>5. QED
    BY <2>4, EndlessOperators DEF Endless!NextE
<1>4. ASSUME NEW id \in Ids, PopF(id)
      PROVE  Endless!NextE
  <2>1. PICK k \in DOMAIN q.osQ : IsFirstMatch(q, id, k) /\ q' = Popped(q, k)
    BY <1>4 DEF PopF, PopOsQ
  <2>2. IsFirstMatch(r, id, k) /\ r' = Rebased(Popped(r, k))
    BY <1>1, <2>1, RebasedGuards, PopRebased
  <2>3. k \in DOMAIN r.osQ
    BY <1>1, <2>1, RebasedFields
  <2>4. Endless!PopE(id)
    BY <2>2, <2>3, EndlessOperators DEF Endless!PopE
  <2>5. QED
    BY <2>4 DEF Endless!NextE
<1>5. CASE UNCHANGED <<q, lead>>
  BY <1>5
<1>6. QED
  BY <1>2, <1>3, <1>4, <1>5 DEF NextF

\* SFQ seen from its virtual time is SFQEndless: the scheduler that pushWaitQ,
\* dispatchNext and popOsQ make takes its decisions from the distances of its tags
\* alone, so that what the finite SFQEndless shows of endless arrivals is so of SFQ.
THEOREM SFQImplementsEndless == SpecF => Endless!SpecE
<1>1. InitF => Endless!Init
  BY EndlessInit DEF InitF
<1>2. IInv /\ [NextF]_<<q, lead>> => [Endless!NextE]_(Rebased(q))
  BY StepEndless
<1>3. QED
  BY <1>1, <1>2, SFQInvariant, PTL DEF SpecF, Endless!SpecE
=============================================================================
