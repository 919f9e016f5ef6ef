--------------------------- MODULE AbstractStack ---------------------------
(***************************************************************************)
(* What a stack shared by threads promises: every push and every pop takes *)
(* effect at one moment between its call and its return, and the moments   *)
(* together are a history of a sequential stack.  A pop of an empty stack  *)
(* returns the null pointer.                                               *)
(***************************************************************************)
EXTENDS Sequences

CONSTANTS Thread, Value, Null

VARIABLES
  stack,     (* the values, the top first                                  *)
  call       (* call[t]: the operation t is in, its argument or its result *)

vars == <<stack, call>>

Call == [op: {"none", "push", "pop", "done"}, val: Value \cup {Null}]
NoCall == [op |-> "none", val |-> Null]

Init ==
  /\ stack = <<>>
  /\ call = [t \in Thread |-> NoCall]

CallPush(t, v) ==
  /\ call[t] = NoCall
  /\ call' = [call EXCEPT ![t] = [op |-> "push", val |-> v]]
  /\ UNCHANGED stack

CallPop(t) ==
  /\ call[t] = NoCall
  /\ call' = [call EXCEPT ![t] = [op |-> "pop", val |-> Null]]
  /\ UNCHANGED stack

DoPush(t) ==
  /\ call[t].op = "push"
  /\ stack' = <<call[t].val>> \o stack
  /\ call' = [call EXCEPT ![t] = [op |-> "done", val |-> Null]]

DoPop(t) ==
  /\ call[t].op = "pop" /\ stack # <<>>
  /\ stack' = Tail(stack)
  /\ call' = [call EXCEPT ![t] = [op |-> "done", val |-> Head(stack)]]

DoPopEmpty(t) ==
  /\ call[t].op = "pop" /\ stack = <<>>
  /\ call' = [call EXCEPT ![t] = [op |-> "done", val |-> Null]]
  /\ UNCHANGED stack

Return(t) ==
  /\ call[t].op = "done"
  /\ call' = [call EXCEPT ![t] = NoCall]
  /\ UNCHANGED stack

Next == \E t \in Thread :
  \/ \E v \in Value : CallPush(t, v)
  \/ CallPop(t) \/ DoPush(t) \/ DoPop(t) \/ DoPopEmpty(t) \/ Return(t)

Spec == Init /\ [][Next]_vars
============================================================================
