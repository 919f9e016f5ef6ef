-------------------------- MODULE SynchronizedList --------------------------
(***************************************************************************)
(* The monitor object of studios 4 and 5: a list under a mutex with two    *)
(* condition variables, one for those who push while it is full and one    *)
(* for those who pop while it holds no more than low_.  A call is one step *)
(* (the mutex is held from the test to the return) unless it has to wait;  *)
(* a thread that was notified tests again when it gets the mutex.  Studio  *)
(* 5 adds active_: a list that was shut down takes nothing and gives       *)
(* nothing, and wakes whoever waits.                                       *)
(***************************************************************************)
EXTENDS Integers, Sequences

CONSTANTS
  Thread,   \* the callers
  high_,    \* a push waits for fewer elements than this; 0: never
  low_      \* a pop waits for more elements than this

SynchronizedListAssumption == high_ \in Nat /\ low_ \in Nat

VARIABLES
  list_,
  active_,   \* studio 5
  waiting    \* for each thread: "high" or "low", the condition it waits on, or "no"

listVars == <<list_, active_, waiting>>

ListInit ==
  list_ = <<>> /\ active_ = TRUE /\ waiting = [t \in Thread |-> "no"]

-----------------------------------------------------------------------------
(* notify_one wakes one of those who wait, if somebody does; by is awake.   *)
Wake(condition) ==
  LET sleepers == {t \in Thread : waiting[t] = condition}
  IN  IF sleepers = {} THEN UNCHANGED waiting
      ELSE \E t \in sleepers : waiting' = [waiting EXCEPT ![t] = "no"]

Sleep(t, condition) ==
  waiting[t] = "no" /\ waiting' = [waiting EXCEPT ![t] = condition] /\ UNCHANGED <<list_, active_>>

Full     == active_ /\ high_ > 0 /\ Len(list_) >= high_
TooShort == active_ /\ Len(list_) <= low_

(* A push that has to wait, that returns having done nothing, that pushes.  *)
PushWaits(t)    == Full /\ Sleep(t, "high")
PushRefused(t)  == waiting[t] = "no" /\ ~active_ /\ UNCHANGED listVars
PushBy(t, list) ==
  /\ waiting[t] = "no" /\ active_ /\ ~Full
  /\ list_' = list /\ Wake("low") /\ UNCHANGED active_

push_front(t, item) == PushBy(t, <<item>> \o list_)
push_back(t, item)  == PushBy(t, Append(list_, item))

(* A pop that has to wait, that returns no element, that takes the last.    *)
PopWaits(t)   == TooShort /\ Sleep(t, "low")
PopRefused(t) == waiting[t] = "no" /\ ~active_ /\ UNCHANGED listVars

(* Mutant: the wrong condition is notified. *)
pop_back_WakesPoppers(t) ==
  /\ waiting[t] = "no" /\ active_ /\ ~TooShort
  /\ list_' = SubSeq(list_, 1, Len(list_) - 1) /\ Wake("low") /\ UNCHANGED active_

pop_back(t) ==
  /\ waiting[t] = "no" /\ active_ /\ ~TooShort
  /\ list_' = SubSeq(list_, 1, Len(list_) - 1) /\ Wake("high") /\ UNCHANGED active_

(* Mutant: notify_one where notify_all is needed. *)
shut_down_WakesOne ==
  /\ active_' = FALSE /\ Wake("low") /\ UNCHANGED list_

shut_down ==
  /\ active_' = FALSE /\ waiting' = [t \in Thread |-> "no"] /\ UNCHANGED list_

active == active_' = TRUE /\ UNCHANGED <<list_, waiting>>
=============================================================================
