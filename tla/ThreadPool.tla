----------------------------- MODULE ThreadPool -----------------------------
(***************************************************************************)
(* The thread pool of studio 11: half-sync/half-async with leader and      *)
(* followers.  main reads numbers and submits them; the workers spin for   *)
(* the leadership, the leader takes numbers off the queue, answers the     *)
(* even ones itself and gives the leadership away to test an odd one.      *)
(* When main is through, the pool is destroyed: the workers are told to    *)
(* stop and joined, whatever is left in the queue.                         *)
(***************************************************************************)
EXTENDS Integers, Sequences

CONSTANTS
  Worker,
  Inputs,    \* the sequences of numbers main may read
  None

ASSUME ThreadPoolAssumption == \A i \in Inputs : i \in Seq(Int)

VARIABLES
  input,        \* what main reads; a task is the place of its number here
  submitted,    \* how many of them it has submitted
  main,         \* "reading", "joining", "returned"
  done,
  has_leader,   \* the flag the followers spin on
  work_queue,
  worker,       \* for each worker: "test", "spin", "lead", "handover", "compute", "ended"
  task,         \* the task in its hands
  reports       \* what was printed: of which task, and whether it is a prime

poolVars == <<input, submitted, main, done, has_leader, work_queue, worker, task, reports>>

PoolInit ==
  /\ input \in Inputs /\ submitted = 0 /\ main = "reading"
  /\ done = FALSE /\ has_leader = FALSE /\ work_queue = <<>>
  /\ worker = [w \in Worker |-> "test"] /\ task = [w \in Worker |-> None]
  /\ reports = [t \in 1 .. 0 |-> FALSE]

-----------------------------------------------------------------------------
(* Division truncates: half of a negative number is not below it, and the   *)
(* rest of a negative odd one is -1.                                        *)
Half(n) == IF n >= 0 THEN n \div 2 ELSE -((-n) \div 2)
Even(n) == n % 2 = 0

(* Mutant: divisors up to, not including, the root. *)
is_prime_BelowRoot(n) ==
  n \notin {0, 1} /\ \A i \in 2 .. Half(n) : i * i < n => n % i # 0

is_prime(n) == n \notin {0, 1} /\ \A i \in 2 .. Half(n) : n % i # 0

-----------------------------------------------------------------------------
(* main: a number is submitted, the end (or a Q) destroys the pool, whose   *)
(* joiner waits for every worker.                                           *)
submit ==
  /\ main = "reading" /\ submitted < Len(input)
  /\ submitted' = submitted + 1 /\ work_queue' = Append(work_queue, submitted + 1)
  /\ UNCHANGED <<input, main, done, has_leader, worker, task, reports>>

Destroy ==
  /\ main = "reading" /\ submitted = Len(input)
  /\ main' = "joining" /\ done' = TRUE
  /\ UNCHANGED <<input, submitted, has_leader, work_queue, worker, task, reports>>

join_threads ==
  /\ main = "joining" /\ \A w \in Worker : worker[w] = "ended"
  /\ main' = "returned"
  /\ UNCHANGED <<input, submitted, done, has_leader, work_queue, worker, task, reports>>

Main == submit \/ Destroy \/ join_threads

-----------------------------------------------------------------------------
Becomes(w, next) == worker' = [worker EXCEPT ![w] = next]

Report(t, prime) ==
  reports' = [x \in DOMAIN reports \union {t} |-> IF x = t THEN prime ELSE reports[x]]

(* while (!done) *)
Test(w) ==
  /\ worker[w] = "test" /\ Becomes(w, IF done THEN "ended" ELSE "spin")
  /\ UNCHANGED <<input, submitted, main, done, has_leader, work_queue, task, reports>>

(* test_and_set: only the one that finds the flag clear gets past it. *)
BecomeLeader(w) ==
  /\ worker[w] = "spin" /\ ~has_leader
  /\ has_leader' = TRUE /\ Becomes(w, "lead")
  /\ UNCHANGED <<input, submitted, main, done, work_queue, task, reports>>

(* try_pop: an even number, 2 among them, and 0 and 1 the leader answers    *)
(* itself and goes on leading.                                              *)
AnswerAtOnce(w) ==
  /\ worker[w] = "lead" /\ work_queue # <<>>
  /\ LET t == Head(work_queue)
     IN  (input[t] \in {0, 1} \/ Even(input[t])) /\ Report(t, FALSE)
  /\ work_queue' = Tail(work_queue)
  /\ UNCHANGED <<input, submitted, main, done, has_leader, worker, task>>

TakeOn(w) ==
  /\ worker[w] = "lead" /\ work_queue # <<>>
  /\ LET t == Head(work_queue)
     IN  /\ input[t] # 1 /\ ~Even(input[t])
         /\ task' = [task EXCEPT ![w] = t]
  /\ work_queue' = Tail(work_queue) /\ Becomes(w, "handover")
  /\ UNCHANGED <<input, submitted, main, done, has_leader, reports>>

HandOver(w) ==
  /\ worker[w] = "handover" /\ has_leader' = FALSE /\ Becomes(w, "compute")
  /\ UNCHANGED <<input, submitted, main, done, work_queue, task, reports>>

Compute(w) ==
  /\ worker[w] = "compute" /\ Report(task[w], is_prime(input[task[w]]))
  /\ Becomes(w, "test") /\ task' = [task EXCEPT ![w] = None]
  /\ UNCHANGED <<input, submitted, main, done, has_leader, work_queue>>

(* Mutant: a leader that finds nothing keeps the leadership. *)
NothingToDo_KeepsIt(w) ==
  /\ worker[w] = "lead" /\ work_queue = <<>>
  /\ Becomes(w, "test")
  /\ UNCHANGED <<input, submitted, main, done, has_leader, work_queue, task, reports>>

NothingToDo(w) ==
  /\ worker[w] = "lead" /\ work_queue = <<>>
  /\ has_leader' = FALSE /\ Becomes(w, "test")
  /\ UNCHANGED <<input, submitted, main, done, work_queue, task, reports>>

worker_thread(w) ==
  Test(w) \/ BecomeLeader(w) \/ AnswerAtOnce(w) \/ TakeOn(w) \/ HandOver(w)
    \/ Compute(w) \/ NothingToDo(w)

PoolNext == Main \/ \E w \in Worker : worker_thread(w)

(* The workers run, and main returns once they have; nobody has to type.    *)
(* Which of the workers that spin gets the flag is nobody's promise.        *)
PoolFairness == WF_poolVars(join_threads) /\ \A w \in Worker : WF_poolVars(worker_thread(w))

PoolSpec == PoolInit /\ [][PoolNext]_poolVars /\ PoolFairness

-----------------------------------------------------------------------------
PoolTypeOK ==
  /\ input \in Inputs /\ submitted \in 0 .. Len(input)
  /\ main \in {"reading", "joining", "returned"}
  /\ done \in BOOLEAN /\ has_leader \in BOOLEAN
  /\ work_queue \in Seq(1 .. Len(input))
  /\ worker \in [Worker -> {"test", "spin", "lead", "handover", "compute", "ended"}]
  /\ task \in [Worker -> (1 .. Len(input)) \union {None}]

(* The flag is up exactly while somebody leads, and no two workers do: the  *)
(* numbers leave the queue in the order in which they were submitted.       *)
Leading(w) == worker[w] \in {"lead", "handover"}
OneLeader ==
  /\ has_leader <=> \E w \in Worker : Leading(w)
  /\ \A v, w \in Worker : Leading(v) /\ Leading(w) => v = w

(* Every number submitted is in the queue, or in the hands of one worker,   *)
(* or answered, and in one of these only: none is lost between them, also   *)
(* while the pool is taken down, and none is answered twice.                *)
Queued == {work_queue[i] : i \in 1 .. Len(work_queue)}
InHands(w) == worker[w] \in {"handover", "compute"}
NothingLost ==
  /\ \A t \in 1 .. submitted :
       t \in Queued \/ t \in DOMAIN reports \/ \E w \in Worker : InHands(w) /\ task[w] = t
  /\ \A t \in Queued : t \notin DOMAIN reports
  /\ \A v, w \in Worker : InHands(v) /\ InHands(w) /\ task[v] = task[w] => v = w
  /\ \A w \in Worker : InHands(w) => task[w] \notin DOMAIN reports \union Queued

Prime(n) == n > 1 /\ \A a, b \in 2 .. n : n # a * b

(* A number is judged rightly, whoever judges it, unless it is 2 or odd and *)
(* negative.                                                                *)
JudgedRightly ==
  \A t \in DOMAIN reports :
    reports[t] = Prime(input[t]) <=> ~(input[t] = 2 \/ (input[t] < 0 /\ ~Even(input[t])))

(* Nothing submitted is lost between the queue and the workers, who spin    *)
(* for a leadership that somebody may hold for ever: in the end all that    *)
(* was submitted is answered, unless the pool was destroyed; then every     *)
(* worker stops and main returns.                                           *)
EveryTaskAnswered ==
  <>[](\/ main = "reading" /\ 1 .. submitted \subseteq DOMAIN reports
       \/ main = "returned")
=============================================================================
