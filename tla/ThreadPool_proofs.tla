-------------------------- MODULE ThreadPool_proofs --------------------------
(***************************************************************************)
(* What holds of ThreadPool for every number of workers and every input:   *)
(* one leader at most, no number lost or answered twice, and which numbers *)
(* are judged rightly.                                                     *)
(***************************************************************************)
EXTENDS ThreadPool, TLAPS

(* The queue holds the numbers submitted last, in order. *)
Taken == submitted - Len(work_queue)

Order ==
  /\ Len(work_queue) <= submitted
  /\ \A i \in 1 .. Len(work_queue) : work_queue[i] = Taken + i

(* What is in somebody's hands, or answered, has left the queue. *)
Held ==
  /\ \A w \in Worker : InHands(w) => task[w] \in 1 .. Taken
  /\ \A t \in DOMAIN reports : t \in 1 .. Taken

(* Whatever has left it is somewhere. *)
Found ==
  \A t \in 1 .. Taken :
    t \in DOMAIN reports \/ \E w \in Worker : InHands(w) /\ task[w] = t

Once ==
  /\ \A v, w \in Worker : InHands(v) /\ InHands(w) /\ task[v] = task[w] => v = w
  /\ \A w \in Worker : InHands(w) => task[w] \notin DOMAIN reports

Inv == PoolTypeOK /\ OneLeader /\ Order /\ Held /\ Found /\ Once

-----------------------------------------------------------------------------
(* Reading and leaving a queue. *)
LEMMA TailOfQueue ==
  ASSUME NEW S, NEW q \in Seq(S), q # <<>>
  PROVE  /\ Head(q) = q[1] /\ Head(q) \in S /\ Tail(q) \in Seq(S)
         /\ Len(q) \in Nat \ {0} /\ Len(Tail(q)) = Len(q) - 1
         /\ \A i \in 1 .. Len(q) - 1 : Tail(q)[i] = q[i + 1]
  OBVIOUS

LEMMA InvInit == PoolInit => Inv
<1> SUFFICES ASSUME PoolInit PROVE Inv
  OBVIOUS
<1> USE DEF PoolInit
<1>1. input \in Seq(Int)
  BY ThreadPoolAssumption
<1>2. DOMAIN reports = {} /\ Len(work_queue) = 0 /\ submitted = 0
  <2>1. Len(work_queue) = 0 /\ submitted = 0
    OBVIOUS
  <2>2. ASSUME NEW t \in DOMAIN reports PROVE FALSE
    BY <2>2
  <2> QED
    BY <2>1, <2>2
<1>2a. Taken = 0
  BY ONLY <1>2, 0 - 0 = 0 DEF Taken
<1>3. PoolTypeOK
  <2>1. worker \in [Worker -> {"test", "spin", "lead", "handover", "compute", "ended"}]
    OBVIOUS
  <2>2. task \in [Worker -> (1 .. Len(input)) \union {None}]
    OBVIOUS
  <2>3. submitted \in 0 .. Len(input) /\ work_queue \in Seq(1 .. Len(input))
    BY <1>1
  <2>4. input \in Inputs /\ main = "reading" /\ done = FALSE /\ has_leader = FALSE
    OBVIOUS
  <2> QED
    BY <2>1, <2>2, <2>3, <2>4 DEF PoolTypeOK
<1>4. OneLeader
  BY DEF OneLeader, Leading
<1>5. Order /\ Held /\ Found /\ Once
  BY <1>2, <1>2a DEF Order, Held, Found, Once, InHands
<1> QED
  BY <1>3, <1>4, <1>5 DEF Inv

LEMMA TypeStep == PoolTypeOK /\ [PoolNext]_poolVars => PoolTypeOK'
<1> SUFFICES ASSUME PoolTypeOK, [PoolNext]_poolVars PROVE PoolTypeOK'
  OBVIOUS
<1> USE DEF PoolTypeOK
<1>0. input \in Seq(Int) /\ Len(input) \in Nat
  <2>1. input \in Inputs
    OBVIOUS
  <2>2. input \in Seq(Int)
    BY <2>1, ThreadPoolAssumption
  <2> QED
    BY <2>2
<1>1. CASE submit
  <2>1. /\ submitted' = submitted + 1 /\ work_queue' = Append(work_queue, submitted + 1)
        /\ submitted < Len(input)
        /\ UNCHANGED <<input, main, done, has_leader, worker, task, reports>>
    BY <1>1 DEF submit
  <2>2. submitted + 1 \in 1 .. Len(input)
    BY <2>1, <1>0
  <2>3. work_queue' \in Seq(1 .. Len(input))
    BY <2>1, <2>2
  <2> QED
    BY <2>1, <2>2, <2>3, <1>0
<1>2. CASE Destroy \/ join_threads
  BY <1>0, <1>2 DEF Destroy, join_threads
<1>3. ASSUME NEW w \in Worker, worker_thread(w) PROVE PoolTypeOK'
  <2> USE DEF Becomes
  <2>1. CASE Test(w) \/ BecomeLeader(w) \/ HandOver(w) \/ NothingToDo(w)
    BY <1>0, <2>1 DEF Test, BecomeLeader, HandOver, NothingToDo
  <2>2. CASE AnswerAtOnce(w)
    BY <1>0, <2>2, TailOfQueue DEF AnswerAtOnce
  <2>3. CASE TakeOn(w)
    BY <1>0, <2>3, TailOfQueue DEF TakeOn
  <2>4. CASE Compute(w)
    BY <1>0, <2>4 DEF Compute
  <2> QED
    BY <1>3, <2>1, <2>2, <2>3, <2>4 DEF worker_thread
<1>4. CASE UNCHANGED poolVars
  BY <1>4 DEF poolVars
<1> QED
  BY <1>1, <1>2, <1>3, <1>4 DEF PoolNext, Main

(* The flag is set by who finds it clear, and cleared by who leads. *)
LEMMA LeaderStep == PoolTypeOK /\ OneLeader /\ [PoolNext]_poolVars => OneLeader'
<1> SUFFICES ASSUME PoolTypeOK, OneLeader, [PoolNext]_poolVars PROVE OneLeader'
  OBVIOUS
<1> USE DEF OneLeader, Leading
<1>1. CASE submit \/ Destroy \/ join_threads
  <2>1. worker' = worker /\ has_leader' = has_leader
    BY <1>1 DEF submit, Destroy, join_threads
  <2> QED
    BY <2>1
<1>2. ASSUME NEW w \in Worker, worker_thread(w) PROVE OneLeader'
  <2>0. worker \in [Worker -> {"test", "spin", "lead", "handover", "compute", "ended"}]
    BY DEF PoolTypeOK
  <2> USE DEF Becomes
  <2>1. CASE Test(w)
    BY <2>0, <2>1 DEF Test
  <2>2. CASE BecomeLeader(w)
    BY <2>0, <2>2 DEF BecomeLeader
  <2>3. CASE AnswerAtOnce(w)
    BY <2>0, <2>3 DEF AnswerAtOnce
  <2>4. CASE TakeOn(w)
    BY <2>0, <2>4 DEF TakeOn
  <2>5. CASE HandOver(w) \/ NothingToDo(w)
    BY <2>0, <2>5 DEF HandOver, NothingToDo
  <2>6. CASE Compute(w)
    BY <2>0, <2>6 DEF Compute
  <2> QED
    BY <1>2, <2>1, <2>2, <2>3, <2>4, <2>5, <2>6 DEF worker_thread
<1>3. CASE UNCHANGED poolVars
  BY <1>3 DEF poolVars
<1> QED
  BY <1>1, <1>2, <1>3 DEF PoolNext, Main

-----------------------------------------------------------------------------
(* The leader takes the first of the queue: the number after all that have  *)
(* been taken.                                                              *)
LEMMA Taking ==
  ASSUME PoolTypeOK, Order, work_queue # <<>>, work_queue' = Tail(work_queue),
         submitted' = submitted
  PROVE  /\ Taken \in Nat /\ Taken' = Taken + 1 /\ Head(work_queue) = Taken + 1 /\ Order'
<1> USE DEF PoolTypeOK
<1>1. /\ Head(work_queue) = work_queue[1] /\ Len(work_queue) \in Nat \ {0}
      /\ Len(Tail(work_queue)) = Len(work_queue) - 1
      /\ \A i \in 1 .. Len(work_queue) - 1 : Tail(work_queue)[i] = work_queue[i + 1]
  BY TailOfQueue
<1>2. submitted \in Nat /\ Len(work_queue) <= submitted
  <2>1. input \in Seq(Int)
    BY ThreadPoolAssumption
  <2> QED
    BY <2>1 DEF Order
<1>3. Taken \in Nat /\ Taken' = Taken + 1
  BY <1>1, <1>2 DEF Taken
<1>4. Head(work_queue) = Taken + 1
  BY <1>1, <1>2 DEF Order
<1>5. \A i \in 1 .. Len(work_queue) - 1 : work_queue'[i] = Taken + 1 + i
  BY <1>1, <1>2, <1>3 DEF Order
<1> QED
  BY <1>1, <1>2, <1>3, <1>4, <1>5 DEF Order

LEMMA InvStep == Inv /\ [PoolNext]_poolVars => Inv'
<1> SUFFICES ASSUME Inv, [PoolNext]_poolVars PROVE Inv'
  OBVIOUS
<1> USE DEF Inv
<1>0. PoolTypeOK' /\ OneLeader'
  BY TypeStep, LeaderStep
<1>n. submitted \in Nat /\ Len(work_queue) \in Nat /\ Taken \in Nat /\ input \in Seq(Int)
  <2>1. input \in Seq(Int) /\ Len(work_queue) \in Nat
    BY ThreadPoolAssumption DEF PoolTypeOK
  <2> QED
    BY <2>1 DEF PoolTypeOK, Order, Taken
<1>1. CASE submit
  <2>1. /\ submitted' = submitted + 1 /\ work_queue' = Append(work_queue, submitted + 1)
        /\ worker' = worker /\ task' = task /\ reports' = reports
    BY <1>1 DEF submit
  <2>2. /\ Len(work_queue') = Len(work_queue) + 1
        /\ \A i \in 1 .. Len(work_queue) : work_queue'[i] = work_queue[i]
        /\ work_queue'[Len(work_queue) + 1] = submitted + 1
    BY <2>1 DEF PoolTypeOK
  <2>3. Taken' = Taken
    BY <2>1, <2>2, <1>n DEF Taken
  <2>4. Order'
    <3>1. Len(work_queue') <= submitted'
      BY <2>1, <2>2, <1>n DEF Order
    <3>2. ASSUME NEW i \in 1 .. Len(work_queue) + 1 PROVE work_queue'[i] = Taken + i
      <4>1. CASE i \in 1 .. Len(work_queue)
        BY <4>1, <2>2 DEF Order
      <4>2. CASE i = Len(work_queue) + 1
        BY <4>2, <2>2, <1>n DEF Taken
      <4> QED
        BY <3>2, <4>1, <4>2, <1>n
    <3> QED
      BY <2>2, <2>3, <3>1, <3>2 DEF Order
  <2>5. Held' /\ Found' /\ Once'
    BY <2>1, <2>3 DEF Held, Found, Once, InHands
  <2> QED
    BY <1>0, <2>4, <2>5
<1>2. CASE Destroy \/ join_threads
  <2>1. UNCHANGED <<submitted, work_queue, worker, task, reports>>
    BY <1>2 DEF Destroy, join_threads
  <2> QED
    BY <1>0, <2>1 DEF Order, Held, Found, Once, InHands, Taken
<1>3. ASSUME NEW w \in Worker, worker_thread(w) PROVE Inv'
  <2>0. /\ worker \in [Worker -> {"test", "spin", "lead", "handover", "compute", "ended"}]
        /\ task \in [Worker -> (1 .. Len(input)) \union {None}]
    BY DEF PoolTypeOK
  <2>1. CASE Test(w) \/ BecomeLeader(w) \/ HandOver(w) \/ NothingToDo(w)
    <3>1. UNCHANGED <<submitted, work_queue, task, reports>>
      BY <2>1 DEF Test, BecomeLeader, HandOver, NothingToDo
    <3>2. \A v \in Worker : InHands(v)' <=> InHands(v)
      BY <2>0, <2>1 DEF Test, BecomeLeader, HandOver, NothingToDo, Becomes, InHands
    <3> QED
      BY <1>0, <3>1, <3>2 DEF Order, Held, Found, Once, Taken
  <2>2. CASE AnswerAtOnce(w)
    <3>1. /\ work_queue # <<>> /\ work_queue' = Tail(work_queue)
          /\ UNCHANGED <<input, submitted, worker, task>>
          /\ DOMAIN reports' = DOMAIN reports \union {Head(work_queue)}
      BY <2>2 DEF AnswerAtOnce, Report
    <3>2. Taken' = Taken + 1 /\ Head(work_queue) = Taken + 1 /\ Order'
      BY <3>1, Taking
    <3>3. Held' /\ Found' /\ Once'
      BY <1>n, <3>1, <3>2 DEF Held, Found, Once, InHands
    <3> QED
      BY <1>0, <3>2, <3>3
  <2>3. CASE TakeOn(w)
    <3>1. /\ work_queue # <<>> /\ work_queue' = Tail(work_queue)
          /\ UNCHANGED <<input, submitted, reports>>
          /\ worker[w] = "lead" /\ worker' = [worker EXCEPT ![w] = "handover"]
          /\ task' = [task EXCEPT ![w] = Head(work_queue)]
      BY <2>3 DEF TakeOn, Becomes
    <3>2. Taken' = Taken + 1 /\ Head(work_queue) = Taken + 1 /\ Order'
      BY <3>1, Taking
    <3>3. /\ \A v \in Worker : InHands(v)' <=> InHands(v) \/ v = w
          /\ \A v \in Worker : task'[v] = IF v = w THEN Taken + 1 ELSE task[v]
          /\ ~InHands(w)
      BY <2>0, <3>1, <3>2 DEF InHands
    <3>4. Held'
      BY <1>n, <3>1, <3>2, <3>3 DEF Held
    <3>5. Found'
      BY <1>n, <3>1, <3>2, <3>3 DEF Found
    <3>6. Once'
      BY <1>n, <3>1, <3>2, <3>3 DEF Once, Held
    <3> QED
      BY <1>0, <3>2, <3>4, <3>5, <3>6
  <2>4. CASE Compute(w)
    <3>1. /\ UNCHANGED <<submitted, work_queue>>
          /\ worker[w] = "compute" /\ worker' = [worker EXCEPT ![w] = "test"]
          /\ task' = [task EXCEPT ![w] = None]
          /\ DOMAIN reports' = DOMAIN reports \union {task[w]}
      BY <2>4 DEF Compute, Becomes, Report
    <3>2. /\ InHands(w)
          /\ \A v \in Worker : InHands(v)' <=> InHands(v) /\ v # w
          /\ \A v \in Worker : v # w => task'[v] = task[v]
      BY <2>0, <3>1 DEF InHands
    <3>3. Taken' = Taken /\ Order'
      BY <3>1 DEF Taken, Order
    <3>4. Held'
      BY <3>1, <3>2, <3>3 DEF Held
    <3>5. Found'
      BY <3>1, <3>2, <3>3 DEF Found
    <3>6. Once'
      BY <3>1, <3>2 DEF Once
    <3> QED
      BY <1>0, <3>3, <3>4, <3>5, <3>6
  <2> QED
    BY <1>3, <2>1, <2>2, <2>3, <2>4 DEF worker_thread
<1>4. CASE UNCHANGED poolVars
  BY <1>0, <1>4 DEF poolVars, Order, Held, Found, Once, InHands, Taken
<1> QED
  BY <1>1, <1>2, <1>3, <1>4 DEF PoolNext, Main

LEMMA InvAlways == PoolSpec => []Inv
BY InvInit, InvStep, PTL DEF PoolSpec

(* Every variable of the pool has its type.                                 *)
THEOREM TypeCorrect == PoolSpec => []PoolTypeOK
<1>1. Inv => PoolTypeOK
  BY DEF Inv
<1> QED
  BY <1>1, InvAlways, PTL

(* However many workers spin for the flag of worker_thread, one leads at    *)
(* most, and nobody leads when the flag is down.                            *)
THEOREM LeaderIsOne == PoolSpec => []OneLeader
<1>1. Inv => OneLeader
  BY DEF Inv
<1> QED
  BY <1>1, InvAlways, PTL

(* Nothing that submit has put into the queue is lost or answered twice.    *)
THEOREM NeverLost == PoolSpec => []NothingLost
<1>1. Inv => NothingLost
  <2> SUFFICES ASSUME Inv PROVE NothingLost
    OBVIOUS
  <2>1. submitted \in Nat /\ Len(work_queue) \in Nat /\ Taken \in Nat
        /\ Len(work_queue) = submitted - Taken
    <3>1. input \in Seq(Int) /\ Len(work_queue) \in Nat
      BY ThreadPoolAssumption DEF Inv, PoolTypeOK
    <3> QED
      BY <3>1 DEF Inv, PoolTypeOK, Order, Taken
  <2>2. \A t : t \in Queued <=> t \in Taken + 1 .. submitted
    <3>1. ASSUME NEW t \in Taken + 1 .. submitted PROVE t \in Queued
      <4>1. t - Taken \in 1 .. Len(work_queue) /\ Taken + (t - Taken) = t
        BY <2>1
      <4> QED
        BY <4>1 DEF Inv, Order, Queued
    <3>2. ASSUME NEW i \in 1 .. Len(work_queue) PROVE work_queue[i] \in Taken + 1 .. submitted
      BY <2>1 DEF Inv, Order
    <3> QED
      BY <3>1, <3>2 DEF Queued
  <2>3. \A t \in 1 .. submitted : t \in 1 .. Taken \/ t \in Taken + 1 .. submitted
    BY <2>1
  <2>4. \A t \in 1 .. Taken : t \notin Taken + 1 .. submitted
    BY <2>1
  <2> QED
    BY <2>2, <2>3, <2>4 DEF Inv, NothingLost, Held, Found, Once
<1> QED
  BY <1>1, InvAlways, PTL
-----------------------------------------------------------------------------
(* What the leader and the loop up to half of a number find is compared     *)
(* with what a prime is.                                                    *)
LEMMA Two == Prime(2)
BY DEF Prime

LEMMA EvenNot == ASSUME NEW n \in Int, Even(n), n # 2 PROVE ~Prime(n)
<1> SUFFICES ASSUME n > 1 PROVE \E a, b \in 2 .. n : n = a * b
  BY DEF Prime
<1>1. n \div 2 \in 2 .. n /\ n = 2 * (n \div 2)
  BY DEF Even
<1>2. 2 \in 2 .. n
  OBVIOUS
<1> QED
  BY <1>1, <1>2

LEMMA NegOdd == ASSUME NEW n \in Int, n < 0 PROVE is_prime(n) /\ ~Prime(n)
<1>1. Half(n) <= 0
  BY DEF Half
<1>2. 2 .. Half(n) = {}
  <2>1. Half(n) \in Int
    BY DEF Half
  <2> QED
    BY <1>1, <2>1
<1> QED
  BY <1>2 DEF is_prime, Prime

LEMMA DivMul == ASSUME NEW a \in Nat, NEW b \in Nat, a >= 2 PROVE (a * b) % a = 0
OBVIOUS

LEMMA Grow == ASSUME NEW a \in Nat, NEW b \in Nat, b >= 2 PROVE 2 * a <= a * b
OBVIOUS

LEMMA DivEx ==
  ASSUME NEW n \in Nat, NEW i \in Nat, i >= 2, n % i = 0
  PROVE  n \div i \in Nat /\ n = i * (n \div i)
OBVIOUS

LEMMA OddPos == ASSUME NEW n \in Int, n > 2 PROVE is_prime(n) <=> Prime(n)
<1>0. Half(n) = n \div 2 /\ n \div 2 \in Nat /\ n \div 2 <= n /\ 2 * (n \div 2) <= n /\ n <= 2 * (n \div 2) + 1
  BY DEF Half
<1>1. ASSUME NEW i \in 2 .. Half(n), n % i = 0 PROVE ~Prime(n)
  <2>1. i \in Nat /\ i >= 2 /\ 2 * i <= n /\ i <= n
    BY <1>0
  <2>2. n \div i \in Nat /\ n = i * (n \div i)
    BY <1>1, <2>1, DivEx
  <2> DEFINE q == n \div i
  <2>3. q # 0 /\ q # 1
    <3>1. CASE q = 0
      BY <3>1, <2>2, i * 0 = 0
    <3>2. CASE q = 1
      BY <3>2, <2>2, <2>1, i * 1 = i
    <3> QED
      BY <3>1, <3>2
  <2>4. q <= n
    <3> HIDE DEF q
    <3>1. q \in Nat /\ 2 * q <= q * i
      BY <2>1, <2>2, Grow DEF q
    <3>2. q * i = i * q
      BY <3>1, <2>1
    <3>3. n = i * q
      BY <2>2 DEF q
    <3> QED
      BY <3>1, <3>2, <3>3
  <2>5. q \in 2 .. n /\ i \in 2 .. n
    BY <2>1, <2>2, <2>3, <2>4
  <2> QED
    BY <2>2, <2>5 DEF Prime
<1>2. ASSUME NEW a \in 2 .. n, NEW b \in 2 .. n, n = a * b PROVE a \in 2 .. Half(n) /\ n % a = 0
  <2>1. n % a = 0
    BY <1>2, DivMul
  <2>2. 2 * a <= n
    BY <1>2, Grow
  <2> QED
    BY <1>0, <2>1, <2>2
<1> QED
  BY <1>1, <1>2 DEF is_prime, Prime

(* What is printed of a number: the leader says no, a follower tests. *)
Verdict(n) == n # 1 /\ ~Even(n) /\ is_prime(n)

LEMMA VerdictIs ==
  ASSUME NEW n \in Int
  PROVE  Verdict(n) = Prime(n) <=> ~(n = 2 \/ (n < 0 /\ ~Even(n)))
<1>0. Verdict(n) \in BOOLEAN /\ Prime(n) \in BOOLEAN
  BY DEF Verdict, Prime
<1>1. CASE n = 2
  <2>1. ~Verdict(n) /\ Prime(n)
    BY <1>1, Two DEF Verdict, Even
  <2> QED
    BY <1>1, <2>1
<1>2. CASE Even(n) /\ n # 2
  <2>1. ~Verdict(n) /\ ~Prime(n)
    BY <1>2, EvenNot DEF Verdict
  <2> QED
    BY <1>0, <1>2, <2>1
<1>3. CASE ~Even(n) /\ n < 0
  <2>1. n # 1
    BY <1>3
  <2>2. Verdict(n) /\ ~Prime(n)
    BY <1>3, <2>1, NegOdd DEF Verdict
  <2> QED
    BY <1>3, <2>2
<1>4. CASE n = 1
  BY <1>4 DEF Verdict, Prime
<1>5. CASE ~Even(n) /\ n > 2
  <2>1. n # 1 /\ n # 2 /\ ~(n < 0)
    BY <1>5
  <2>2. Verdict(n) <=> Prime(n)
    BY <1>5, <2>1, OddPos DEF Verdict
  <2> QED
    BY <1>0, <2>1, <2>2
<1>6. n = 2 \/ (Even(n) /\ n # 2) \/ (~Even(n) /\ n < 0) \/ n = 1 \/ (~Even(n) /\ n > 2)
  BY DEF Even
<1> QED
  BY <1>1, <1>2, <1>3, <1>4, <1>5, <1>6

Judged ==
  /\ \A t \in DOMAIN reports : reports[t] = Verdict(input[t])
  /\ \A w \in Worker : InHands(w) => input[task[w]] # 1 /\ ~Even(input[task[w]])

LEMMA JudgedInit == PoolInit => Judged
<1> SUFFICES ASSUME PoolInit PROVE Judged
  OBVIOUS
<1>1. \A t \in DOMAIN reports : FALSE
  BY DEF PoolInit
<1>2. \A w \in Worker : ~InHands(w)
  BY DEF PoolInit, InHands
<1> QED
  BY <1>1, <1>2 DEF Judged

LEMMA JudgedStep == Inv /\ Judged /\ [PoolNext]_poolVars => Judged'
<1> SUFFICES ASSUME Inv, Judged, [PoolNext]_poolVars PROVE Judged'
  OBVIOUS
<1>0. /\ worker \in [Worker -> {"test", "spin", "lead", "handover", "compute", "ended"}]
      /\ task \in [Worker -> (1 .. Len(input)) \union {None}]
  BY DEF Inv, PoolTypeOK
<1>1. CASE Main \/ UNCHANGED poolVars
  <2>1. UNCHANGED <<input, worker, task, reports>>
    BY <1>1 DEF Main, submit, Destroy, join_threads, poolVars
  <2> QED
    BY <2>1 DEF Judged, InHands
<1>2. ASSUME NEW w \in Worker, worker_thread(w) PROVE Judged'
  <2>1. CASE Test(w) \/ BecomeLeader(w) \/ HandOver(w) \/ NothingToDo(w)
    <3>1. UNCHANGED <<input, task, reports>>
      BY <2>1 DEF Test, BecomeLeader, HandOver, NothingToDo
    <3>2. \A v \in Worker : InHands(v)' => InHands(v)
      BY <1>0, <2>1 DEF Test, BecomeLeader, HandOver, NothingToDo, Becomes, InHands
    <3> QED
      BY <3>1, <3>2 DEF Judged
  <2>2. CASE AnswerAtOnce(w)
    <3> DEFINE h == Head(work_queue)
    <3>1. /\ UNCHANGED <<input, worker, task>>
          /\ input[h] \in {0, 1} \/ Even(input[h])
          /\ reports' = [x \in DOMAIN reports \union {h} |->
                          IF x = h THEN FALSE ELSE reports[x]]
      BY <2>2 DEF AnswerAtOnce, Report
    <3>2. Verdict(input[h]) = FALSE
      BY <3>1 DEF Verdict, Even
    <3> QED
      BY <3>1, <3>2 DEF Judged, InHands
  <2>3. CASE TakeOn(w)
    <3>1. /\ UNCHANGED <<input, reports>>
          /\ worker[w] = "lead" /\ worker' = [worker EXCEPT ![w] = "handover"]
          /\ task' = [task EXCEPT ![w] = Head(work_queue)]
          /\ input[Head(work_queue)] # 1 /\ ~Even(input[Head(work_queue)])
      BY <2>3 DEF TakeOn, Becomes
    <3>2. \A v \in Worker : v # w => task'[v] = task[v] /\ (InHands(v)' <=> InHands(v))
      BY <1>0, <3>1 DEF InHands
    <3>3. task'[w] = Head(work_queue)
      BY <1>0, <3>1
    <3> QED
      BY <3>1, <3>2, <3>3 DEF Judged
  <2>4. CASE Compute(w)
    <3>1. /\ UNCHANGED input
          /\ worker[w] = "compute" /\ worker' = [worker EXCEPT ![w] = "test"]
          /\ task' = [task EXCEPT ![w] = None]
          /\ reports' = [x \in DOMAIN reports \union {task[w]} |->
                          IF x = task[w] THEN is_prime(input[task[w]]) ELSE reports[x]]
      BY <2>4 DEF Compute, Becomes, Report
    <3>2. \A v \in Worker : InHands(v)' => InHands(v) /\ task'[v] = task[v]
      BY <1>0, <3>1 DEF InHands
    <3>3. Verdict(input[task[w]]) = is_prime(input[task[w]])
      <4>1. input[task[w]] # 1 /\ ~Even(input[task[w]])
        BY <3>1 DEF Judged, InHands
      <4> QED
        BY <4>1 DEF Verdict, is_prime
    <3> QED
      BY <3>1, <3>2, <3>3 DEF Judged
  <2> QED
    BY <1>2, <2>1, <2>2, <2>3, <2>4 DEF worker_thread
<1> QED
  BY <1>1, <1>2 DEF PoolNext

(* A verdict of the leader or of is_prime is right for every number but 2   *)
(* and the odd negative ones.                                               *)
THEOREM VerdictsAreRight == PoolSpec => []JudgedRightly
<1>1. Inv /\ Judged => JudgedRightly
  <2> SUFFICES ASSUME Inv, Judged, NEW t \in DOMAIN reports
               PROVE  reports[t] = Prime(input[t])
                        <=> ~(input[t] = 2 \/ (input[t] < 0 /\ ~Even(input[t])))
    BY DEF JudgedRightly
  <2>1. t \in 1 .. Taken /\ Taken \in Nat /\ Taken <= Len(input) /\ input \in Seq(Int)
    <3>1. input \in Seq(Int) /\ Len(work_queue) \in Nat /\ Len(input) \in Nat
      BY ThreadPoolAssumption DEF Inv, PoolTypeOK
    <3>2. submitted \in Nat /\ submitted <= Len(input) /\ Len(work_queue) <= submitted
      BY <3>1 DEF Inv, PoolTypeOK, Order
    <3> QED
      BY <3>1, <3>2 DEF Inv, Held, Taken
  <2>2. input[t] \in Int
    BY <2>1
  <2>3. reports[t] = Verdict(input[t])
    BY DEF Judged
  <2> QED
    BY <2>2, <2>3, VerdictIs
<1> QED
  BY <1>1, InvAlways, JudgedInit, JudgedStep, PTL DEF PoolSpec
=============================================================================
