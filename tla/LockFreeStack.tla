--------------------------- MODULE LockFreeStack ---------------------------
(***************************************************************************)
(* The lock-free stack of studio 7 (studio7_lock_free/lock_free_q5.hpp):   *)
(* a linked list whose head carries, beside the pointer, a count of the    *)
(* threads that ever looked at the first node through it (the external     *)
(* count); every node counts in internal_count how many of them have gone  *)
(* away.  Whoever brings the sum of both to zero deletes the node.         *)
(*                                                                         *)
(* A step is one access to memory other threads can see.  Addresses come   *)
(* from a finite set and are reused, so a stale pointer may compare equal  *)
(* to a new one.  Accesses are sequentially consistent: the orders the     *)
(* code asks for (relaxed, acquire, release) are not modelled.  Threads do *)
(* their operations and are joined, then one of them destroys the stack.   *)
(***************************************************************************)
EXTENDS Integers, Sequences, FiniteSets

CONSTANTS
  Thread, Owner,   (* the users; the one that runs the destructor           *)
  Addr, NULL,      (* where a node can be; the null pointer                 *)
  Value,           (* what is pushed                                        *)
  MaxOps,          (* bound: operations in all before the destructor        *)
  MaxCount         (* bound: how far an external count may grow             *)

ASSUME StackAssumption ==
  /\ IsFiniteSet(Thread) /\ Owner \in Thread
  /\ NULL \notin Addr /\ NULL \notin Value
  /\ MaxOps \in Nat /\ MaxCount \in Nat

VARIABLES
  head,             (* std::atomic<counted_node_ptr>                        *)
  allocated,        (* the addresses that hold a node                       *)
  data, internal_count, next,     (* struct node, by address                *)
  pc,               (* where each thread is                                 *)
  old_head, ptr,    (* locals of pop                                        *)
  nxt,              (* the value of ptr->next pop has read for its exchange *)
  res,              (* what pop returns                                     *)
  new_node,         (* local of push: new_node.ptr                          *)
  ops,              (* operations that may still begin                      *)
  life,             (* "used", "draining" in the destructor, "gone"         *)
  list              (* history: the nodes on the stack, the top first       *)

heap   == <<allocated, data, internal_count, next>>
locals == <<old_head, ptr, nxt, res, new_node>>
vars   == <<head, heap, pc, locals, ops, life, list>>

CountedPtr(count, p) == [external_count |-> count, ptr |-> p]

(* Mutant: a new node starts without a reference of its own. *)
InitialCount_Zero == 0

(* push: new_node.external_count = 1. *)
InitialCount == 1

NoPtr == CountedPtr(0, NULL)

Goto(t, l) == pc' = [pc EXCEPT ![t] = l]

(* Assumed: std::atomic<counted_node_ptr>() zeroes head, as it does since   *)
(* C++20; built for an earlier standard the code starts from an unset head. *)
Init ==
  /\ head = NoPtr
  /\ allocated = {}
  /\ data = [a \in Addr |-> NULL]
  /\ internal_count = [a \in Addr |-> 0]
  /\ next = [a \in Addr |-> NoPtr]
  /\ pc = [t \in Thread |-> "idle"]
  /\ old_head = [t \in Thread |-> NoPtr]
  /\ ptr = [t \in Thread |-> NULL]
  /\ nxt = [t \in Thread |-> NoPtr]
  /\ res = [t \in Thread |-> NULL]
  /\ new_node = [t \in Thread |-> NULL]
  /\ ops = MaxOps
  /\ life = "used"
  /\ list = <<>>

(*------------------------------- push -----------------------------------*)
NewNode(t) == \E a \in Addr \ allocated, v \in Value :
  /\ pc[t] = "idle" /\ life = "used" /\ ops > 0
  /\ allocated' = allocated \cup {a}
  /\ data' = [data EXCEPT ![a] = v]
  /\ internal_count' = [internal_count EXCEPT ![a] = 0]
  /\ new_node' = [new_node EXCEPT ![t] = a]
  /\ ops' = ops - 1
  /\ Goto(t, "load_next")
  /\ UNCHANGED <<head, next, old_head, ptr, nxt, res, life, list>>

(* The expected value of an exchange is the node's own next, which a failed *)
(* exchange loads again.                                                    *)
SetNext(t) == next' = [next EXCEPT ![new_node[t]] = head]

LoadNext(t) ==
  /\ pc[t] = "load_next"
  /\ SetNext(t)
  /\ Goto(t, "push_cas")
  /\ UNCHANGED <<head, allocated, data, internal_count, locals, ops, life, list>>

PushSucceeds(t) ==
  /\ pc[t] = "push_cas" /\ head = next[new_node[t]]
  /\ head' = CountedPtr(InitialCount, new_node[t])
  /\ new_node' = [new_node EXCEPT ![t] = NULL]
  /\ list' = <<new_node[t]>> \o list
  /\ Goto(t, "return")
  /\ UNCHANGED <<heap, old_head, ptr, nxt, res, ops, life>>

(* Mutant: an if in the place of the while. *)
PushFails_GivesUp(t) ==
  /\ pc[t] = "push_cas" /\ head # next[new_node[t]]
  /\ SetNext(t)
  /\ Goto(t, "return")
  /\ UNCHANGED <<head, allocated, data, internal_count, locals, ops, life, list>>

(* A spurious failure of the weak exchange loads the value it has: no step. *)
PushFails(t) ==
  /\ pc[t] = "push_cas" /\ head # next[new_node[t]]
  /\ SetNext(t)
  /\ UNCHANGED <<head, allocated, data, internal_count, pc, locals, ops, life, list>>

(*-------------------------------- pop -----------------------------------*)
LoadHead(t) ==
  /\ pc[t] = "idle"
  /\ \/ life = "used" /\ ops > 0 /\ ops' = ops - 1
     \/ life = "draining" /\ t = Owner /\ UNCHANGED ops
  /\ old_head' = [old_head EXCEPT ![t] = head]
  /\ Goto(t, "increase")
  /\ UNCHANGED <<head, heap, ptr, nxt, res, new_node, life, list>>

(* Mutant: the wrong way round. *)
Increment_Down(n) == n - 1

(* ++new_counter.external_count *)
Increment(n) == n + 1

(* increase_head_count's exchange, and pop's look at the pointer. *)
IncreaseSucceeds(t) ==
  /\ pc[t] = "increase" /\ head = old_head[t]
  /\ head.external_count < MaxCount
  /\ head' = [head EXCEPT !.external_count = Increment(@)]
  /\ old_head' = [old_head EXCEPT ![t].external_count = Increment(@)]
  /\ ptr' = [ptr EXCEPT ![t] = head.ptr]
  /\ Goto(t, IF head.ptr = NULL THEN "return" ELSE "read_next")
  /\ UNCHANGED <<heap, nxt, res, new_node, ops, life, list>>

IncreaseFails(t) ==
  /\ pc[t] = "increase" /\ head # old_head[t]
  /\ old_head' = [old_head EXCEPT ![t] = head]
  /\ UNCHANGED <<head, heap, pc, ptr, nxt, res, new_node, ops, life, list>>

ReadNext(t) ==
  /\ pc[t] = "read_next"
  /\ nxt' = [nxt EXCEPT ![t] = next[ptr[t]]]
  /\ Goto(t, "pop_cas")
  /\ UNCHANGED <<head, heap, old_head, ptr, res, new_node, ops, life, list>>

PopSucceeds(t) ==
  /\ pc[t] = "pop_cas" /\ head = old_head[t]
  /\ head' = nxt[t]
  /\ list' = Tail(list)
  /\ Goto(t, "take")
  /\ UNCHANGED <<heap, locals, ops, life>>

(* The failed exchange leaves the new head in old_head. *)
PopFails(t) ==
  /\ pc[t] = "pop_cas" /\ head # old_head[t]
  /\ old_head' = [old_head EXCEPT ![t] = head]
  /\ Goto(t, "release")
  /\ UNCHANGED <<head, heap, ptr, nxt, res, new_node, ops, life, list>>

(* res.swap(ptr->data). *)
Take(t) ==
  /\ pc[t] = "take"
  /\ res' = [res EXCEPT ![t] = data[ptr[t]]]
  /\ data' = [data EXCEPT ![ptr[t]] = res[t]]
  /\ Goto(t, "settle")
  /\ UNCHANGED <<head, allocated, internal_count, next, old_head, ptr, nxt, new_node, ops, life, list>>

(* Mutant: forgets that the popper itself is counted. *)
CountIncrease_OffByOne(t) == old_head[t].external_count - 1

(* One for the list, one for the popper itself. *)
CountIncrease(t) == old_head[t].external_count - 2

(* The popper turns the references handed out into references owed. *)
Settle(t) ==
  /\ pc[t] = "settle"
  /\ internal_count' = [internal_count EXCEPT ![ptr[t]] = @ + CountIncrease(t)]
  /\ Goto(t, IF internal_count[ptr[t]] = -CountIncrease(t) THEN "delete_popped" ELSE "return")
  /\ UNCHANGED <<head, allocated, data, next, locals, ops, life, list>>

(* Mutant: a thread that lost the race leaves deleting to the popper. *)
LastReference_Never(n) == FALSE

(* fetch_add(-1) returned one. *)
LastReference(n) == n = 1

(* A thread that lost the race for the head gives its reference back. *)
Release(t) ==
  /\ pc[t] = "release"
  /\ internal_count' = [internal_count EXCEPT ![ptr[t]] = @ - 1]
  /\ Goto(t, IF LastReference(internal_count[ptr[t]]) THEN "delete_released" ELSE "increase")
  /\ UNCHANGED <<head, allocated, data, next, locals, ops, life, list>>

Delete(t) ==
  /\ pc[t] \in {"delete_popped", "delete_released"}
  /\ allocated' = allocated \ {ptr[t]}
  /\ Goto(t, IF pc[t] = "delete_popped" THEN "return" ELSE "increase")
  /\ UNCHANGED <<head, data, internal_count, next, locals, ops, life, list>>

(* Locals go out of scope; the destructor pops until a pop finds nothing. *)
Return(t) ==
  /\ pc[t] = "return"
  /\ Goto(t, "idle")
  /\ old_head' = [old_head EXCEPT ![t] = NoPtr]
  /\ ptr' = [ptr EXCEPT ![t] = NULL]
  /\ nxt' = [nxt EXCEPT ![t] = NoPtr]
  /\ res' = [res EXCEPT ![t] = NULL]
  /\ life' = IF life = "draining" /\ res[t] = NULL THEN "gone" ELSE life
  /\ UNCHANGED <<head, heap, new_node, ops, list>>

(* The threads are joined and the destructor begins. *)
Destroy ==
  /\ life = "used"
  /\ \A t \in Thread : pc[t] = "idle"
  /\ life' = "draining"
  /\ UNCHANGED <<head, heap, pc, locals, ops, list>>

Push(t) == NewNode(t) \/ LoadNext(t) \/ PushSucceeds(t) \/ PushFails(t)

Pop(t) ==
  \/ LoadHead(t) \/ IncreaseSucceeds(t) \/ IncreaseFails(t)
  \/ ReadNext(t) \/ PopSucceeds(t) \/ PopFails(t)
  \/ Take(t) \/ Settle(t) \/ Release(t) \/ Delete(t)

Next ==
  \/ \E t \in Thread : Push(t) \/ Pop(t) \/ Return(t)
  \/ Destroy

Spec == Init /\ [][Next]_vars
----------------------------------------------------------------------------
Holding  == {"read_next", "pop_cas", "release"}
Taking   == {"take", "settle"}
Deleting == {"delete_popped", "delete_released"}
Pushing  == {"load_next", "push_cas"}
Label == Holding \cup Taking \cup Deleting \cup Pushing \cup {"idle", "increase", "return"}
Pointer == [external_count: Nat, ptr: Addr \cup {NULL}]

(* Every variable has its type. *)
TypeOK ==
  /\ head \in Pointer
  /\ allocated \subseteq Addr
  /\ data \in [Addr -> Value \cup {NULL}]
  /\ internal_count \in [Addr -> Int]
  /\ next \in [Addr -> Pointer]
  /\ pc \in [Thread -> Label]
  /\ old_head \in [Thread -> Pointer]
  /\ ptr \in [Thread -> Addr \cup {NULL}]
  /\ nxt \in [Thread -> Pointer]
  /\ res \in [Thread -> Value \cup {NULL}]
  /\ new_node \in [Thread -> Addr \cup {NULL}]
  /\ ops \in 0 .. MaxOps
  /\ life \in {"used", "draining", "gone"}
  /\ list \in Seq(Addr)

Linked == {list[i] : i \in 1 .. Len(list)}

(* The counted pointer to the i-th node; the last one points nowhere. *)
Ref(i) == IF i = 1 THEN head ELSE next[list[i - 1]]

(* Thread t may still read node a; node a is t's alone to take or to delete *)
(* or to fill.                                                              *)
Holds(t, a) == pc[t] \in Holding /\ ptr[t] = a
Takes(t, a) == pc[t] \in Taking /\ ptr[t] = a
Deletes(t, a) == pc[t] \in Deleting /\ ptr[t] = a
Fills(t, a) == pc[t] \in Pushing /\ new_node[t] = a
Owns(t, a) == Takes(t, a) \/ Deletes(t, a) \/ Fills(t, a)

Holders(a) == {t \in Thread : Holds(t, a)}

(* Nobody reaches freed memory, and nothing is freed twice or while it is   *)
(* in use: following the pointers from the head one finds the stack's nodes *)
(* and the null pointer; whatever a thread holds or owns is allocated; an   *)
(* owner is alone and its node is off the stack; and nobody holds a node    *)
(* about to be deleted or not yet pushed.  That is what the counts of       *)
(* increase_head_count, pop and push are for.                               *)
NoDangling ==
  /\ Linked \subseteq allocated
  /\ \A i \in 1 .. Len(list) + 1 : Ref(i).ptr = IF i <= Len(list) THEN list[i] ELSE NULL
  /\ \A t \in Thread, a \in Addr :
       /\ Holds(t, a) \/ Owns(t, a) => a \in allocated
       /\ Owns(t, a) => a \notin Linked /\ \A u \in Thread : Owns(u, a) => u = t
       /\ Deletes(t, a) \/ Fills(t, a) => Holders(a) = {}

(* The split count is right at every step: a node's external count, less    *)
(* the list's own reference, plus its internal count is the number of       *)
(* threads that hold it; between the pop and the settlement the external    *)
(* count is that of the taker's old_head, which counts the taker too; and   *)
(* afterwards the internal count is all there is (pop, lines 69 to 87).     *)
CountsAgree ==
  /\ \A i \in 1 .. Len(list) :
       Ref(i).external_count - 1 + internal_count[list[i]] = Cardinality(Holders(list[i]))
  /\ \A t \in Thread, a \in Addr :
       Takes(t, a) => old_head[t].external_count - 2 + internal_count[a] = Cardinality(Holders(a))
  /\ \A a \in allocated \ Linked :
       (\A t \in Thread : ~Takes(t, a)) => internal_count[a] = Cardinality(Holders(a))

(* When the destructor is through, every node ever made has been deleted:   *)
(* neither a lost race nor a crowd at one node leaks it.                    *)
NoLeak == life = "gone" => allocated = {}
----------------------------------------------------------------------------
(* A push takes effect when its exchange puts the node at the head, a pop   *)
(* when its exchange takes one off, or when it counts itself in at a null   *)
(* head: the stack is linearizable, as a stack.  The destructor's pops      *)
(* count as pops of the Owner's.                                            *)
contents == [i \in 1 .. Len(list) |-> data[list[i]]]

CallOf(t) ==
  CASE pc[t] = "idle" -> [op |-> "none", val |-> NULL]
    [] pc[t] \in Pushing -> [op |-> "push", val |-> data[new_node[t]]]
    [] pc[t] = "take" -> [op |-> "done", val |-> data[ptr[t]]]
    [] pc[t] \in {"settle", "delete_popped", "return"} -> [op |-> "done", val |-> res[t]]
    [] OTHER -> [op |-> "pop", val |-> NULL]

calls == [t \in Thread |-> CallOf(t)]

Abstract == INSTANCE AbstractStack WITH stack <- contents, call <- calls, Null <- NULL

IsStack == Abstract!Spec
============================================================================
