---------------------------- MODULE ActiveObject ----------------------------
(***************************************************************************)
(* The active objects of studio 5, exercise 5, and the program that uses   *)
(* them: main activates the second one, gives it some numbers, deactivates *)
(* it and does all that again.  Each activation starts a detached worker   *)
(* on the same list; a worker hands what it took on to the first object,   *)
(* which is never activated.  main sleeps between its steps, which orders  *)
(* nothing.  The lists are unbounded (high_ and low_ are 0).               *)
(***************************************************************************)
EXTENDS SynchronizedList, FiniteSets

CONSTANTS
  MainThread,
  Worker,      \* the workers of the rounds, 1 .. the number of rounds
  Items        \* the numbers of one round, in the order main gives them

ActiveAssumption ==
  /\ SynchronizedListAssumption /\ high_ = 0 /\ low_ = 0
  /\ Worker = 1 .. Cardinality(Worker)
  /\ MainThread \notin Worker /\ Thread = Worker \union {MainThread}

VARIABLES
  serving,   \* the object's own active_, read without a lock
  main,      \* what main does next: "activate", "enqueue", "stop", "lower", "end"
  round,     \* the round of main's loop
  given,     \* how many numbers of this round it has given
  worker,    \* for each worker: "none", "test", "pop", "forward", "ended"
  result,    \* what it popped; Nothing: a null pointer
  other_,    \* the list of the first object
  crashed,   \* a null pointer was dereferenced
  hasty      \* history: main did not leave the worker the time for its numbers, or to end

activeVars == <<list_, active_, waiting, serving, main, round, given, worker, result, other_, crashed, hasty>>

Nothing == 0

Init ==
  /\ ListInit /\ serving = TRUE /\ main = "activate" /\ round = 1 /\ given = 0
  /\ worker = [w \in Worker |-> "none"] /\ result = [w \in Worker |-> Nothing]
  /\ other_ = <<>> /\ crashed = FALSE /\ hasty = FALSE

-----------------------------------------------------------------------------
(* active(), enqueue, deactivate, in main's loop. *)
activate ==
  /\ main = "activate" /\ active /\ serving' = TRUE
  /\ worker' = [worker EXCEPT ![round] = "test"]
  /\ main' = "enqueue" /\ given' = 0
  /\ hasty' = (hasty \/ \E w \in Worker : worker[w] \notin {"none", "ended"})
  /\ UNCHANGED <<round, result, other_, crashed>>

enqueue ==
  /\ main = "enqueue" /\ given' = given + 1
  /\ main' = IF given' = Len(Items) THEN "stop" ELSE "enqueue"
  /\ push_front(MainThread, Items[given']) \/ PushRefused(MainThread)
  /\ UNCHANGED <<serving, round, worker, result, other_, crashed, hasty>>

(* The list is shut down first, then the flag is lowered. *)
ShutDown ==
  /\ main = "stop" /\ main' = "lower"
  /\ IF serving THEN shut_down ELSE UNCHANGED listVars
  /\ hasty' = (hasty \/ list_ # <<>>)
  /\ UNCHANGED <<serving, round, given, worker, result, other_, crashed>>

Lower ==
  /\ main = "lower" /\ serving' = FALSE
  /\ IF round + 1 \in Worker THEN main' = "activate" /\ round' = round + 1
                             ELSE main' = "end" /\ UNCHANGED round
  /\ UNCHANGED <<listVars, given, worker, result, other_, crashed, hasty>>

deactivate == ShutDown \/ Lower

MainStep == ~crashed /\ (activate \/ enqueue \/ deactivate)

-----------------------------------------------------------------------------
(* run_service *)
Becomes(w, next) == worker' = [worker EXCEPT ![w] = next]

Test(w) ==
  /\ worker[w] = "test" /\ Becomes(w, IF serving THEN "pop" ELSE "ended")
  /\ UNCHANGED <<listVars, serving, main, round, given, result, other_, crashed, hasty>>

Take(w) ==
  /\ worker[w] = "pop"
  /\ \/ PopWaits(w) /\ UNCHANGED <<worker, result>>
     \/ PopRefused(w) /\ Becomes(w, "forward") /\ result' = [result EXCEPT ![w] = Nothing]
     \/ /\ pop_back(w) /\ Becomes(w, "forward")
        /\ result' = [result EXCEPT ![w] = list_[Len(list_)]]
  /\ UNCHANGED <<serving, main, round, given, other_, crashed, hasty>>

(* What was popped goes on only if the list is not empty now, whatever was  *)
(* popped: the last number of a batch stays here, and a null pointer is     *)
(* dereferenced if the list was shut down with numbers in it.               *)
Forward(w) ==
  /\ worker[w] = "forward" /\ Becomes(w, "test")
  /\ IF list_ = <<>> THEN UNCHANGED <<other_, crashed>>
     ELSE IF result[w] = Nothing THEN crashed' = TRUE /\ UNCHANGED other_
     ELSE other_' = <<result[w]>> \o other_ /\ UNCHANGED crashed
  /\ UNCHANGED <<listVars, serving, main, round, given, result, hasty>>

run_service(w) == ~crashed /\ (Test(w) \/ Take(w) \/ Forward(w))

Next == MainStep \/ \E w \in Worker : run_service(w)

Fairness ==
  /\ WF_activeVars(MainStep)
  /\ \A w \in Worker : WF_activeVars(run_service(w))

Spec == Init /\ [][Next]_activeVars /\ Fairness

-----------------------------------------------------------------------------
(* Every worker comes to its end, also one that missed a round's            *)
(* deactivation and serves beside its successor.  It crashes instead only   *)
(* if main was hasty: shut the list down with numbers in it, or activated   *)
(* the object again before the last worker had ended.                       *)
WorkersStop ==
  <>[](\/ main = "end" /\ \A w \in Worker : worker[w] = "ended"
       \/ crashed /\ hasty)
=============================================================================
