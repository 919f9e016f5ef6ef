----------------------- MODULE LockFreeStack_proofs -----------------------
(***************************************************************************)
(* What holds of LockFreeStack for any threads, addresses, values and      *)
(* bounds: no node is read or freed too late, none leaks, and the whole is *)
(* a linearizable stack.                                                   *)
(***************************************************************************)
EXTENDS LockFreeStack, FiniteSetTheorems, SequenceTheorems, TLAPS

(* What the locals of a thread are known to be, by where it is. *)
Locals == \A t \in Thread :
  /\ pc[t] \in Holding \cup Taking \cup Deleting => ptr[t] \in Addr
  /\ pc[t] \in Pushing => new_node[t] \in Addr
  /\ pc[t] \in {"read_next", "pop_cas"} => old_head[t].ptr = ptr[t]
  /\ pc[t] = "pop_cas" => nxt[t] = next[ptr[t]]

(* No node is on the stack twice. *)
Distinct == \A i, j \in 1 .. Len(list) : list[i] = list[j] => i = j

(* Until its count is settled, a node only loses references inside. *)
Unsettled ==
  /\ \A i \in 1 .. Len(list) : internal_count[list[i]] <= 0
  /\ \A t \in Thread, a \in Addr : Takes(t, a) => internal_count[a] <= 0

Safe == TypeOK /\ Locals /\ Distinct /\ NoDangling /\ CountsAgree /\ Unsettled

(* A node off the stack is there for its owner or for its holders. *)
Kept == \A a \in allocated \ Linked :
  (\A t \in Thread : ~Owns(t, a)) => Holders(a) # {}

(* Data is there until it is taken, and then it is in the taker's hands. *)
Loaded ==
  /\ \A i \in 1 .. Len(list) : data[list[i]] \in Value
  /\ \A t \in Thread :
       /\ pc[t] \in Pushing => data[new_node[t]] \in Value
       /\ pc[t] = "take" => data[ptr[t]] \in Value
       /\ pc[t] \in {"settle", "delete_popped"} => res[t] \in Value

(* In the destructor only the owner moves, and it ends with an empty stack. *)
Drained ==
  /\ life # "used" =>
       /\ \A t \in Thread \ {Owner} : pc[t] = "idle"
       /\ pc[Owner] \notin Pushing
  /\ life = "draining" /\ pc[Owner] = "return" /\ res[Owner] = NULL => list = <<>>
  /\ life = "gone" => pc[Owner] = "idle" /\ list = <<>>

(* What is pending or not yet begun has no result yet. *)
Unanswered == \A t \in Thread :
  pc[t] \notin {"settle", "delete_popped", "return"} => res[t] = NULL

Inv == Safe /\ Kept /\ Loaded /\ Drained /\ Unanswered

USE DEF heap, locals, Holding, Taking, Deleting, Pushing

(*--------------------------- types and locals ---------------------------*)
LEMMA PointerFacts ==
  /\ NoPtr \in Pointer
  /\ \A p \in Addr \cup {NULL} : CountedPtr(InitialCount, p) \in Pointer
  /\ \A c \in Pointer :
       /\ c.external_count \in Nat /\ c.ptr \in Addr \cup {NULL}
       /\ [c EXCEPT !.external_count = Increment(@)] \in Pointer
       /\ [c EXCEPT !.external_count = Increment(@)].external_count = c.external_count + 1
       /\ [c EXCEPT !.external_count = Increment(@)].ptr = c.ptr
BY DEF NoPtr, CountedPtr, Pointer, InitialCount, Increment

(* The head shows the top of the stack. *)
LEMMA HeadFacts ==
  ASSUME TypeOK, NoDangling
  PROVE  /\ Len(list) \in Nat
         /\ list = <<>> <=> Len(list) = 0
         /\ list = <<>> <=> head.ptr = NULL
         /\ list # <<>> => head.ptr = list[1]
<1>1. Len(list) \in Nat /\ (list = <<>> <=> Len(list) = 0)
  BY DEF TypeOK
<1>2. /\ Ref(1) = head
      /\ Ref(1).ptr = IF 1 <= Len(list) THEN list[1] ELSE NULL
  BY <1>1 DEF NoDangling, Ref
<1>3. 1 <= Len(list) => list[1] \in Addr
  BY <1>1 DEF TypeOK
<1> QED
  BY <1>1, <1>2, <1>3, StackAssumption

(* Every step keeps the types and the locals; next changes only in a node   *)
(* that is being filled, which nobody holds.                                *)
LEMMA TypeStep == Safe /\ [Next]_vars => TypeOK' /\ Locals'
<1> SUFFICES ASSUME Safe, [Next]_vars PROVE TypeOK' /\ Locals'
  OBVIOUS
<1> USE DEF Safe, TypeOK, Goto, Label
<1>n. ASSUME NEW t \in Thread, pc[t] \in Pushing, SetNext(t)
      PROVE  /\ next' \in [Addr -> Pointer]
             /\ \A u \in Thread : pc[u] \in Holding => next'[ptr[u]] = next[ptr[u]]
  <2>1. new_node[t] \in Addr
    BY <1>n DEF Locals
  <2>2. Holders(new_node[t]) = {}
    BY <1>n, <2>1 DEF NoDangling, Fills
  <2>3. \A u \in Thread : pc[u] \in Holding => ptr[u] # new_node[t]
    BY <2>2 DEF Holders, Holds
  <2> QED
    BY <1>n, <2>1, <2>3 DEF SetNext, Locals
<1>1. ASSUME NEW t \in Thread, NewNode(t) PROVE TypeOK' /\ Locals'
  <2> PICK a \in Addr \ allocated, v \in Value : NewNode(t)!(a, v)
    BY <1>1 DEF NewNode
  <2> QED
    BY StackAssumption DEF Locals
<1>2. ASSUME NEW t \in Thread, LoadNext(t) PROVE TypeOK' /\ Locals'
  BY <1>2, <1>n DEF LoadNext, Locals
<1>3. ASSUME NEW t \in Thread, PushSucceeds(t) PROVE TypeOK' /\ Locals'
  <2>1. new_node[t] \in Addr
    BY <1>3 DEF PushSucceeds, Locals
  <2>2. list' \in Seq(Addr)
    BY <1>3, <2>1 DEF PushSucceeds
  <2>3. head' \in Pointer
    BY <1>3, <2>1, PointerFacts DEF PushSucceeds
  <2> QED
    BY <1>3, <2>2, <2>3 DEF PushSucceeds, Locals
<1>4. ASSUME NEW t \in Thread, PushFails(t) PROVE TypeOK' /\ Locals'
  BY <1>4, <1>n DEF PushFails, Locals
<1>5. ASSUME NEW t \in Thread, LoadHead(t) PROVE TypeOK' /\ Locals'
  BY <1>5, StackAssumption DEF LoadHead, Locals
<1>6. ASSUME NEW t \in Thread, IncreaseSucceeds(t) PROVE TypeOK' /\ Locals'
  <2>1. /\ head' \in Pointer /\ old_head' = [old_head EXCEPT ![t] = head']
        /\ head'.ptr = head.ptr /\ head.ptr \in Addr \cup {NULL}
    BY <1>6, PointerFacts DEF IncreaseSucceeds
  <2> QED
    BY <1>6, <2>1 DEF IncreaseSucceeds, Locals
<1>7. ASSUME NEW t \in Thread, IncreaseFails(t) PROVE TypeOK' /\ Locals'
  BY <1>7 DEF IncreaseFails, Locals
<1>8. ASSUME NEW t \in Thread, ReadNext(t) PROVE TypeOK' /\ Locals'
  BY <1>8 DEF ReadNext, Locals
<1>9. ASSUME NEW t \in Thread, PopSucceeds(t) PROVE TypeOK' /\ Locals'
  <2>1. list # <<>>
    <3>1. head.ptr \in Addr
      BY <1>9 DEF PopSucceeds, Locals
    <3> QED
      BY <3>1, HeadFacts, StackAssumption
  <2>2. list' \in Seq(Addr)
    BY <1>9, <2>1 DEF PopSucceeds
  <2> QED
    BY <1>9, <2>2 DEF PopSucceeds, Locals
<1>10. ASSUME NEW t \in Thread, PopFails(t) PROVE TypeOK' /\ Locals'
  BY <1>10 DEF PopFails, Locals
<1>11. ASSUME NEW t \in Thread, Take(t) PROVE TypeOK' /\ Locals'
  BY <1>11 DEF Take, Locals
<1>12. ASSUME NEW t \in Thread, Settle(t) PROVE TypeOK' /\ Locals'
  <2>1. CountIncrease(t) \in Int
    <3>1. old_head[t].external_count \in Nat
      BY PointerFacts
    <3> QED
      BY <3>1 DEF CountIncrease
  <2> QED
    BY <1>12, <2>1 DEF Settle, Locals
<1>13. ASSUME NEW t \in Thread, Release(t) PROVE TypeOK' /\ Locals'
  BY <1>13 DEF Release, Locals
<1>14. ASSUME NEW t \in Thread, Delete(t) PROVE TypeOK' /\ Locals'
  BY <1>14 DEF Delete, Locals
<1>15. ASSUME NEW t \in Thread, Return(t) PROVE TypeOK' /\ Locals'
  BY <1>15, PointerFacts DEF Return, Locals
<1>16. CASE Destroy
  BY <1>16 DEF Destroy, Locals
<1>17. CASE UNCHANGED vars
  BY <1>17 DEF vars, Locals
<1> QED
  BY <1>1, <1>2, <1>3, <1>4, <1>5, <1>6, <1>7, <1>8, <1>9, <1>10, <1>11, <1>12, <1>13,
     <1>14, <1>15, <1>16, <1>17 DEF Next, Push, Pop

(*------------------------------- holders --------------------------------*)
LEMMA HoldersFinite ==
  ASSUME NEW a
  PROVE  IsFiniteSet(Holders(a)) /\ Cardinality(Holders(a)) \in Nat
<1>1. Holders(a) \in SUBSET Thread
  BY DEF Holders
<1> QED
  BY <1>1, FS_Subset, FS_CardinalityType, StackAssumption

LEMMA HoldersStay ==
  ASSUME NEW a, \A u \in Thread : Holds(u, a)' <=> Holds(u, a)
  PROVE  Holders(a)' = Holders(a)
BY DEF Holders

LEMMA HoldersJoin ==
  ASSUME NEW a, NEW t \in Thread, ~Holds(t, a), Holds(t, a)',
         \A u \in Thread \ {t} : Holds(u, a)' <=> Holds(u, a)
  PROVE  Cardinality(Holders(a)') = Cardinality(Holders(a)) + 1
<1>1. Holders(a)' = Holders(a) \cup {t} /\ t \notin Holders(a)
  BY DEF Holders
<1> QED
  BY <1>1, HoldersFinite, FS_AddElement

LEMMA HoldersLeave ==
  ASSUME NEW a, NEW t \in Thread, Holds(t, a), ~Holds(t, a)',
         \A u \in Thread \ {t} : Holds(u, a)' <=> Holds(u, a)
  PROVE  Cardinality(Holders(a)') = Cardinality(Holders(a)) - 1
<1>1. Holders(a)' = Holders(a) \ {t} /\ t \in Holders(a)
  BY DEF Holders
<1> QED
  BY <1>1, HoldersFinite, FS_RemoveElement

(*------------------------ the shape of the heap -------------------------*)
Shape == Distinct /\ NoDangling /\ CountsAgree /\ Unsettled

(* A step that moves no node between stack, owners and holders, and changes *)
(* no count, keeps the shape.                                               *)
LEMMA QuietStep ==
  ASSUME Safe, UNCHANGED <<allocated, internal_count, list>>,
         \A i \in 1 .. Len(list) + 1 : Ref(i)' = Ref(i),
         \A t \in Thread, a \in Addr :
           /\ Holds(t, a)' <=> Holds(t, a)
           /\ Takes(t, a)' <=> Takes(t, a)
           /\ Deletes(t, a)' <=> Deletes(t, a)
           /\ Fills(t, a)' <=> Fills(t, a)
           /\ Takes(t, a) => old_head'[t] = old_head[t]
  PROVE  Shape' /\ (Kept => Kept')
<1>1. \A a \in Addr : Holders(a)' = Holders(a)
  BY HoldersStay
<1>2. Linked' = Linked
  BY DEF Linked
<1>3. \A t \in Thread, a \in Addr : Owns(t, a)' <=> Owns(t, a)
  BY DEF Owns
<1>4. Len(list) \in Nat /\ \A i \in 1 .. Len(list) : list[i] \in Addr
  BY DEF Safe, TypeOK
<1>5. allocated \subseteq Addr
  BY DEF Safe, TypeOK
<1>6. Distinct' /\ Unsettled'
  BY DEF Safe, Distinct, Unsettled
<1>7. NoDangling'
  BY <1>1, <1>2, <1>3 DEF Safe, NoDangling
<1>8. CountsAgree'
  <2>1. \A i \in 1 .. Len(list) :
          Ref(i)'.external_count - 1 + internal_count[list[i]] = Cardinality(Holders(list[i])')
    BY <1>1, <1>4 DEF Safe, CountsAgree
  <2>2. \A t \in Thread, a \in Addr : Takes(t, a)' =>
          old_head'[t].external_count - 2 + internal_count[a] = Cardinality(Holders(a)')
    BY <1>1 DEF Safe, CountsAgree
  <2>3. \A a \in allocated \ Linked :
          (\A t \in Thread : ~Takes(t, a)') => internal_count[a] = Cardinality(Holders(a)')
    BY <1>1, <1>5 DEF Safe, CountsAgree
  <2> QED
    BY <2>1, <2>2, <2>3, <1>2 DEF CountsAgree
<1>9. Kept => Kept'
  BY <1>1, <1>2, <1>3, <1>5 DEF Kept
<1> QED
  BY <1>6, <1>7, <1>8, <1>9 DEF Shape

(* The node a thread fills is not on the stack. *)
LEMMA FillsApart ==
  ASSUME Safe, NEW t \in Thread, pc[t] \in Pushing, SetNext(t), UNCHANGED <<head, list>>
  PROVE  \A i \in 1 .. Len(list) + 1 : Ref(i)' = Ref(i)
<1>1. new_node[t] \in Addr /\ Fills(t, new_node[t])
  BY DEF Safe, Locals, Fills
<1>2. new_node[t] \notin Linked
  BY <1>1 DEF Safe, NoDangling, Owns
<1>3. Len(list) \in Nat /\ next \in [Addr -> Pointer]
  BY DEF Safe, TypeOK
<1>4. \A i \in 1 .. Len(list) : list[i] \in Addr /\ list[i] # new_node[t]
  BY <1>2 DEF Linked, Safe, TypeOK
<1>5. \A i \in 1 .. Len(list) : next'[list[i]] = next[list[i]]
  BY <1>3, <1>4 DEF SetNext
<1> SUFFICES ASSUME NEW i \in 1 .. Len(list) + 1 PROVE Ref(i)' = Ref(i)
  OBVIOUS
<1>6. CASE i = 1
  BY <1>6 DEF Ref
<1>7. CASE i # 1
  <2>1. i - 1 \in 1 .. Len(list)
    BY <1>7, <1>3
  <2> QED
    BY <2>1, <1>5, <1>7 DEF Ref
<1> QED
  BY <1>6, <1>7

LEMMA QuietActions ==
  ASSUME Safe, NEW t \in Thread,
         \/ LoadNext(t) \/ PushFails(t) \/ LoadHead(t) \/ IncreaseFails(t)
         \/ ReadNext(t) \/ PopFails(t) \/ Take(t) \/ Return(t)
  PROVE  Shape' /\ (Kept => Kept')
<1> USE DEF Goto, Holds, Takes, Deletes, Fills
<1>t. /\ pc \in [Thread -> Label] /\ ptr \in [Thread -> Addr \cup {NULL}]
      /\ new_node \in [Thread -> Addr \cup {NULL}]
      /\ old_head \in [Thread -> Pointer]
  BY DEF Safe, TypeOK
<1>1. CASE LoadNext(t) \/ PushFails(t)
  <2>1. \A i \in 1 .. Len(list) + 1 : Ref(i)' = Ref(i)
    BY <1>1, FillsApart DEF LoadNext, PushFails
  <2> QED
    BY <1>1, <1>t, <2>1, QuietStep DEF LoadNext, PushFails
<1>2. CASE LoadHead(t) \/ IncreaseFails(t) \/ ReadNext(t) \/ PopFails(t)
  <2>1. \A i \in 1 .. Len(list) + 1 : Ref(i)' = Ref(i)
    BY <1>2 DEF LoadHead, IncreaseFails, ReadNext, PopFails, Ref
  <2>2. UNCHANGED <<allocated, internal_count, list>>
    BY <1>2 DEF LoadHead, IncreaseFails, ReadNext, PopFails
  <2>3. \A u \in Thread, a \in Addr :
          /\ Holds(u, a)' <=> Holds(u, a)
          /\ Takes(u, a)' <=> Takes(u, a)
          /\ Deletes(u, a)' <=> Deletes(u, a)
          /\ Fills(u, a)' <=> Fills(u, a)
          /\ Takes(u, a) => old_head'[u] = old_head[u]
    BY <1>2, <1>t DEF LoadHead, IncreaseFails, ReadNext, PopFails
  <2> QED
    BY <2>1, <2>2, <2>3, QuietStep
<1>3. CASE Take(t) \/ Return(t)
  <2>1. \A i \in 1 .. Len(list) + 1 : Ref(i)' = Ref(i)
    BY <1>3 DEF Take, Return, Ref
  <2> QED
    BY <1>3, <1>t, <2>1, QuietStep DEF Take, Return
<1> QED
  BY <1>1, <1>2, <1>3

LEMMA QuietElse ==
  ASSUME Safe, Destroy \/ UNCHANGED vars
  PROVE  Shape' /\ (Kept => Kept')
<1>1. \A i \in 1 .. Len(list) + 1 : Ref(i)' = Ref(i)
  BY DEF Destroy, vars, Ref
<1> QED
  BY <1>1, QuietStep DEF Destroy, vars, Holds, Takes, Deletes, Fills

(*------------------- the steps that move or count nodes -----------------*)
(* A new node is nobody else's: it was not allocated.                       *)
LEMMA NewNodeStep ==
  ASSUME Safe, NEW t \in Thread, NewNode(t)
  PROVE  Shape' /\ (Kept => Kept')
<1> PICK a \in Addr \ allocated, v \in Value : NewNode(t)!(a, v)
  BY DEF NewNode
<1> USE DEF Goto, Holds, Takes, Deletes, Fills
<1>1. \A u \in Thread, b \in Addr :
        /\ Holds(u, b)' <=> Holds(u, b)
        /\ Takes(u, b)' <=> Takes(u, b)
        /\ Deletes(u, b)' <=> Deletes(u, b)
        /\ Fills(u, b)' <=> Fills(u, b) \/ (u = t /\ b = a)
  BY DEF Safe, TypeOK
<1>2. \A b \in Addr : Holders(b)' = Holders(b)
  BY <1>1, HoldersStay
<1>3. Linked' = Linked /\ \A i : Ref(i)' = Ref(i)
  BY DEF Linked, Ref
<1>4. a \notin Linked /\ Holders(a) = {} /\ \A u \in Thread : ~Owns(u, a)
  BY DEF Safe, NoDangling, Holders
<1>5. /\ internal_count' = [internal_count EXCEPT ![a] = 0]
      /\ internal_count \in [Addr -> Int] /\ list \in Seq(Addr) /\ allocated \subseteq Addr
      /\ old_head' = old_head /\ list' = list /\ allocated' = allocated \cup {a}
  BY DEF Safe, TypeOK
<1>6. \A i \in 1 .. Len(list) : list[i] \in Addr /\ list[i] # a
  BY <1>4, <1>5 DEF Linked
<1>7. \A u \in Thread, b \in Addr : Takes(u, b) => b # a
  BY <1>4 DEF Owns
<1> HIDE DEF Goto, Holds, Takes, Deletes, Fills
<1>8. Distinct'
  BY <1>5 DEF Safe, Distinct
<1>9. Unsettled'
  BY <1>1, <1>5, <1>6, <1>7 DEF Safe, Unsettled
<1>10. NoDangling'
  <2>1. Linked' \subseteq allocated'
    BY <1>3, <1>5 DEF Safe, NoDangling
  <2>2. \A i \in 1 .. Len(list') + 1 : Ref(i)'.ptr = IF i <= Len(list') THEN list'[i] ELSE NULL
    BY <1>3, <1>5 DEF Safe, NoDangling
  <2>3. \A u \in Thread, b \in Addr : Owns(u, b)' <=> Owns(u, b) \/ (u = t /\ b = a)
    BY <1>1 DEF Owns
  <2> QED
    BY <1>1, <1>2, <1>3, <1>4, <1>5, <2>1, <2>2, <2>3 DEF Safe, NoDangling
<1>11. CountsAgree'
  <2>1. \A i \in 1 .. Len(list) :
          Ref(i)'.external_count - 1 + internal_count'[list[i]] = Cardinality(Holders(list[i])')
    BY <1>2, <1>3, <1>5, <1>6 DEF Safe, CountsAgree
  <2>2. \A u \in Thread, b \in Addr : Takes(u, b)' =>
          old_head'[u].external_count - 2 + internal_count'[b] = Cardinality(Holders(b)')
    BY <1>1, <1>2, <1>5, <1>7 DEF Safe, CountsAgree
  <2>3. \A b \in allocated' \ Linked :
          (\A u \in Thread : ~Takes(u, b)') => internal_count'[b] = Cardinality(Holders(b)')
    <3>1. Cardinality(Holders(a)') = internal_count'[a]
      BY <1>2, <1>4, <1>5, FS_EmptySet
    <3> QED
      BY <1>1, <1>2, <1>5, <3>1 DEF Safe, CountsAgree
  <2> QED
    BY <2>1, <2>2, <2>3, <1>3, <1>5 DEF CountsAgree
<1>12. Kept => Kept'
  BY <1>1, <1>2, <1>3, <1>5 DEF Kept, Owns
<1> QED
  BY <1>8, <1>9, <1>10, <1>11, <1>12 DEF Shape

(* The new node comes first with its one reference; the old head, which its *)
(* next has just been found equal to, becomes the reference to the second.  *)
LEMMA PushStep ==
  ASSUME Safe, NEW t \in Thread, PushSucceeds(t)
  PROVE  Shape' /\ (Kept => Kept')
<1> DEFINE a == new_node[t]
<1> DEFINE n == Len(list)
<1> USE DEF Goto, Holds, Takes, Deletes, Fills
<1>0. /\ a \in Addr /\ Fills(t, a)
      /\ list \in Seq(Addr) /\ n \in Nat
      /\ head = next[a] /\ head' = CountedPtr(InitialCount, a)
      /\ list' = <<a>> \o list
      /\ UNCHANGED <<allocated, internal_count, next, old_head, ptr>>
  BY DEF Safe, TypeOK, Locals, PushSucceeds
<1>1. \A u \in Thread, b \in Addr :
        /\ Holds(u, b)' <=> Holds(u, b)
        /\ Takes(u, b)' <=> Takes(u, b)
        /\ Deletes(u, b)' <=> Deletes(u, b)
        /\ Fills(u, b)' <=> Fills(u, b) /\ u # t
        /\ u = t => ~Takes(u, b) /\ ~Deletes(u, b) /\ (Fills(u, b) <=> b = a)
  BY DEF Safe, TypeOK, PushSucceeds
<1>2. \A b \in Addr : Holders(b)' = Holders(b)
  BY <1>1, HoldersStay
<1> HIDE DEF Goto, Holds, Takes, Deletes, Fills
<1>3. /\ Len(list') = n + 1 /\ list'[1] = a
      /\ \A i \in 1 .. n + 1 : i # 1 => i - 1 \in 1 .. n /\ list'[i] = list[i - 1]
      /\ \A i \in 1 .. n : list[i] \in Addr
  BY <1>0
<1>4. /\ a \in allocated /\ a \notin Linked /\ Holders(a) = {}
      /\ \A u \in Thread : Owns(u, a) => u = t
  BY <1>0 DEF Safe, NoDangling, Owns
<1>5. Linked' = Linked \cup {a}
  <2>1. \A b : b \in Linked' <=> \E i \in 1 .. n + 1 : b = list'[i]
    BY <1>3 DEF Linked
  <2>2. \A b \in Linked : b \in Linked'
    <3> SUFFICES ASSUME NEW i \in 1 .. n PROVE list[i] \in Linked'
      BY DEF Linked
    <3>1. i + 1 \in 1 .. n + 1 /\ i + 1 # 1 /\ (i + 1) - 1 = i
      BY <1>0
    <3> QED
      BY <3>1, <1>3, <2>1
  <2>3. a \in Linked'
    BY <1>0, <1>3, <2>1
  <2>4. \A b \in Linked' : b \in Linked \cup {a}
    BY <1>3, <2>1 DEF Linked
  <2> QED
    BY <2>2, <2>3, <2>4
<1>6. Ref(1)' = CountedPtr(1, a) /\ \A i \in 1 .. n + 2 : i # 1 => Ref(i)' = Ref(i - 1)
  <2>1. Ref(1)' = CountedPtr(1, a)
    BY <1>0 DEF Ref, InitialCount
  <2>2. Ref(2)' = Ref(1)
    BY <1>0, <1>3 DEF Ref
  <2>3. ASSUME NEW i \in 3 .. n + 2 PROVE Ref(i)' = Ref(i - 1)
    <3>1. i - 1 \in 1 .. n + 1 /\ i - 1 # 1 /\ i # 1
      BY <1>0, <2>3
    <3>2. list'[i - 1] = list[(i - 1) - 1]
      BY <1>3, <3>1
    <3> QED
      BY <1>0, <3>1, <3>2 DEF Ref
  <2> QED
    BY <1>0, <2>1, <2>2, <2>3
<1>7. \A u \in Thread, b \in Addr : Owns(u, b)' <=> Owns(u, b) /\ b # a
  BY <1>0, <1>1, <1>4 DEF Owns
<1>8. internal_count[a] = 0
  <2>1. \A u \in Thread : ~Takes(u, a)
    BY <1>0, <1>1, <1>4 DEF Owns
  <2> QED
    BY <2>1, <1>4, FS_EmptySet DEF Safe, CountsAgree
<1>9. \A i \in 1 .. n : list[i] # a
  BY <1>4 DEF Linked
<1>10. \A i \in 1 .. n + 1 : Ref(i) \in Pointer
  BY <1>0, <1>3 DEF Safe, TypeOK, Ref
<1>11. Distinct'
  <2> SUFFICES ASSUME NEW i \in 1 .. n + 1, NEW j \in 1 .. n + 1, list'[i] = list'[j]
               PROVE  i = j
    BY <1>3 DEF Distinct
  <2>1. i = 1 <=> j = 1
    BY <1>3, <1>9
  <2>2. CASE i # 1 /\ j # 1
    <3>1. i - 1 = j - 1
      BY <2>2, <1>3 DEF Safe, Distinct
    <3> QED
      BY <3>1
  <2> QED
    BY <2>1, <2>2
<1>12. Unsettled'
  <2>1. \A i \in 1 .. n + 1 : internal_count[list'[i]] <= 0
    BY <1>3, <1>8 DEF Safe, Unsettled
  <2> QED
    BY <1>0, <1>1, <1>3, <2>1 DEF Safe, Unsettled
<1>13. NoDangling'
  <2>1. Linked' \subseteq allocated'
    BY <1>0, <1>4, <1>5 DEF Safe, NoDangling
  <2>2. ASSUME NEW i \in 1 .. Len(list') + 1
        PROVE  Ref(i)'.ptr = IF i <= Len(list') THEN list'[i] ELSE NULL
    <3>1. CASE i = 1
      BY <3>1, <1>0, <1>3, <1>6 DEF CountedPtr
    <3>2. CASE i # 1
      <4>1. i - 1 \in 1 .. n + 1 /\ i \in 1 .. n + 2 /\ (i <= n + 1 <=> i - 1 <= n)
        BY <3>2, <1>0, <1>3
      <4>2. Ref(i - 1).ptr = IF i - 1 <= n THEN list[i - 1] ELSE NULL
        BY <4>1 DEF Safe, NoDangling
      <4> QED
        BY <3>2, <4>1, <4>2, <1>3, <1>6
    <3> QED
      BY <3>1, <3>2
  <2>3. ASSUME NEW u \in Thread, NEW b \in Addr
        PROVE  /\ Holds(u, b)' \/ Owns(u, b)' => b \in allocated'
               /\ Owns(u, b)' => b \notin Linked' /\ \A w \in Thread : Owns(w, b)' => w = u
               /\ Deletes(u, b)' \/ Fills(u, b)' => Holders(b)' = {}
    BY <1>0, <1>1, <1>2, <1>5, <1>7 DEF Safe, NoDangling
  <2> QED
    BY <2>1, <2>2, <2>3 DEF NoDangling
<1>14. CountsAgree'
  <2>1. ASSUME NEW i \in 1 .. Len(list')
        PROVE  Ref(i)'.external_count - 1 + internal_count'[list'[i]] = Cardinality(Holders(list[i]))'
    <3>1. CASE i = 1
      <4>1. Ref(i)'.external_count = 1
        BY <3>1, <1>6 DEF CountedPtr
      <4>2. Holders(list[i])' = {}
        BY <3>1, <1>0, <1>2, <1>3, <1>4 DEF Holders
      <4>3. internal_count'[list'[i]] = 0
        BY <3>1, <1>0, <1>3, <1>8
      <4> QED
        BY <4>1, <4>2, <4>3, FS_EmptySet
    <3>2. CASE i # 1
      <4>1. i - 1 \in 1 .. n /\ i \in 1 .. n + 2
        BY <3>2, <1>0, <1>3
      <4>2. Ref(i - 1).external_count - 1 + internal_count[list[i - 1]]
              = Cardinality(Holders(list[i - 1]))
        BY <4>1 DEF Safe, CountsAgree
      <4>3. list'[i] = list[i - 1] /\ list[i - 1] \in Addr /\ Ref(i)' = Ref(i - 1)
        BY <3>2, <4>1, <1>3, <1>6
      <4>4. Holders(list[i])' = Holders(list[i - 1])
        BY <4>3, <1>2 DEF Holders
      <4> QED
        BY <4>2, <4>3, <4>4, <1>0
    <3> QED
      BY <3>1, <3>2
  <2>2. ASSUME NEW u \in Thread, NEW b \in Addr, Takes(u, b)'
        PROVE  old_head'[u].external_count - 2 + internal_count'[b] = Cardinality(Holders(b)')
    BY <2>2, <1>0, <1>1, <1>2 DEF Safe, CountsAgree
  <2>3. ASSUME NEW b \in allocated' \ Linked', \A u \in Thread : ~Takes(u, b)'
        PROVE  internal_count'[b] = Cardinality(Holders(b)')
    <3>1. b \in allocated \ Linked /\ b \in Addr
      BY <1>0, <1>5 DEF Safe, TypeOK
    <3> QED
      BY <2>3, <3>1, <1>0, <1>1, <1>2 DEF Safe, CountsAgree
  <2> QED
    BY <2>1, <2>2, <2>3 DEF CountsAgree
<1>15. Kept => Kept'
  BY <1>0, <1>1, <1>2, <1>5, <1>7 DEF Kept, Safe, TypeOK
<1> QED
  BY <1>11, <1>12, <1>13, <1>14, <1>15 DEF Shape

(* The count at the head goes up with the number of holders of the first    *)
(* node; at an empty stack there is no node to hold.                        *)
LEMMA IncreaseStep ==
  ASSUME Safe, NEW t \in Thread, IncreaseSucceeds(t)
  PROVE  Shape' /\ (Kept => Kept')
<1> USE DEF Goto, Holds, Takes, Deletes, Fills
<1>0. /\ head \in Pointer /\ head'.ptr = head.ptr
      /\ head.external_count \in Nat /\ head'.external_count = head.external_count + 1
      /\ list \in Seq(Addr) /\ Len(list) \in Nat /\ \A i \in 1 .. Len(list) : list[i] \in Addr
      /\ UNCHANGED <<allocated, internal_count, next, list>>
      /\ internal_count \in [Addr -> Int] /\ allocated \subseteq Addr
      /\ \A u \in Thread \ {t} : old_head'[u] = old_head[u]
  BY PointerFacts DEF Safe, TypeOK, IncreaseSucceeds
<1>1. \A u \in Thread, b \in Addr :
        /\ Holds(u, b)' <=> Holds(u, b) \/ (u = t /\ b = head.ptr)
        /\ Takes(u, b)' <=> Takes(u, b)
        /\ Deletes(u, b)' <=> Deletes(u, b)
        /\ Fills(u, b)' <=> Fills(u, b)
        /\ u = t => ~Holds(u, b) /\ ~Takes(u, b)
  BY StackAssumption DEF Safe, TypeOK, IncreaseSucceeds
<1> HIDE DEF Goto, Holds, Takes, Deletes, Fills
<1>2. \A b \in Addr : b # head.ptr => Holders(b)' = Holders(b)
  BY <1>1, HoldersStay
<1>3. \A b \in Addr : b = head.ptr => Cardinality(Holders(b)') = Cardinality(Holders(b)) + 1
  BY <1>1, HoldersJoin
<1>4. Linked' = Linked /\ \A u \in Thread, b \in Addr : Owns(u, b)' <=> Owns(u, b)
  BY <1>0, <1>1 DEF Linked, Owns
<1>5. list # <<>> => head.ptr = list[1] /\ list[1] \in Linked
  BY <1>0, HeadFacts DEF Safe, Linked
<1>6. head.ptr \in Addr => head.ptr \in Linked /\ head.ptr \in allocated
  BY <1>5, HeadFacts, StackAssumption DEF Safe, NoDangling
<1>7. \A i \in 1 .. Len(list) + 1 :
        /\ Ref(i)'.ptr = Ref(i).ptr
        /\ i # 1 => Ref(i)' = Ref(i)
  BY <1>0 DEF Ref
<1>8. Distinct' /\ Unsettled'
  BY <1>0, <1>1 DEF Safe, Distinct, Unsettled
<1>9. NoDangling'
  <2>1. ASSUME NEW u \in Thread, NEW b \in Addr
        PROVE  /\ Holds(u, b)' \/ Owns(u, b)' => b \in allocated'
               /\ Owns(u, b)' => b \notin Linked' /\ \A w \in Thread : Owns(w, b)' => w = u
               /\ Deletes(u, b)' \/ Fills(u, b)' => Holders(b)' = {}
    <3>1. Owns(u, b) => b # head.ptr
      BY <1>6 DEF Safe, NoDangling
    <3>2. Deletes(u, b)' \/ Fills(u, b)' => Holders(b)' = Holders(b)
      BY <1>1, <1>2, <3>1 DEF Owns
    <3> QED
      BY <1>0, <1>1, <1>4, <1>6, <3>2 DEF Safe, NoDangling
  <2> QED
    BY <2>1, <1>0, <1>4, <1>7 DEF Safe, NoDangling
<1>10. CountsAgree'
  <2>1. ASSUME NEW i \in 1 .. Len(list)
        PROVE  Ref(i)'.external_count - 1 + internal_count[list[i]] = Cardinality(Holders(list[i])')
    <3>0. Ref(i).external_count - 1 + internal_count[list[i]] = Cardinality(Holders(list[i]))
      BY DEF Safe, CountsAgree
    <3>1. CASE i = 1
      <4>1. list[i] = head.ptr /\ Ref(i) = head /\ Ref(i)' = head'
        BY <3>1, <1>5, HeadFacts DEF Safe, Ref
      <4>2. Cardinality(Holders(list[i])') = Cardinality(Holders(list[i])) + 1
        BY <4>1, <1>0, <1>3
      <4>3. internal_count[list[i]] \in Int /\ Cardinality(Holders(list[i])) \in Nat
        BY <1>0, HoldersFinite
      <4> QED
        BY <3>0, <4>1, <4>2, <4>3, <1>0
    <3>2. CASE i # 1
      <4>1. list[i] # list[1] /\ list # <<>>
        BY <3>2, <1>0 DEF Safe, Distinct
      <4>2. Holders(list[i])' = Holders(list[i])
        BY <4>1, <1>0, <1>2, <1>5 DEF Holders
      <4> QED
        BY <3>0, <3>2, <4>2, <1>7
    <3> QED
      BY <3>1, <3>2
  <2>2. ASSUME NEW u \in Thread, NEW b \in Addr, Takes(u, b)'
        PROVE  old_head'[u].external_count - 2 + internal_count[b] = Cardinality(Holders(b)')
    <3>1. Takes(u, b) /\ u # t
      BY <2>2, <1>1
    <3>2. b # head.ptr
      BY <3>1, <1>6 DEF Safe, NoDangling, Owns
    <3> QED
      BY <3>1, <3>2, <1>0, <1>2 DEF Safe, CountsAgree
  <2>3. ASSUME NEW b \in allocated \ Linked, \A u \in Thread : ~Takes(u, b)'
        PROVE  internal_count[b] = Cardinality(Holders(b)')
    <3>1. b \in Addr /\ b # head.ptr
      BY <1>0, <1>6
    <3> QED
      BY <2>3, <3>1, <1>1, <1>2 DEF Safe, CountsAgree
  <2> QED
    BY <2>1, <2>2, <2>3, <1>0, <1>4 DEF CountsAgree
<1>11. Kept => Kept'
  BY <1>0, <1>2, <1>4, <1>6 DEF Kept
<1> QED
  BY <1>8, <1>9, <1>10, <1>11 DEF Shape

(* The taker has the first node and its count; the second one becomes the   *)
(* first with the count its pusher found.                                   *)
LEMMA PopStep ==
  ASSUME Safe, NEW t \in Thread, PopSucceeds(t)
  PROVE  /\ Shape' /\ (Kept => Kept')
         /\ list # <<>> /\ ptr[t] = list[1]
         /\ Linked' = Linked \ {ptr[t]}
<1> DEFINE a == ptr[t]
<1> DEFINE n == Len(list)
<1> USE DEF Goto, Holds, Takes, Deletes, Fills
<1>0. /\ a \in Addr /\ head = old_head[t] /\ head.ptr = a /\ head' = next[a]
      /\ list \in Seq(Addr) /\ n \in Nat /\ \A i \in 1 .. n : list[i] \in Addr
      /\ list' = Tail(list)
      /\ UNCHANGED <<allocated, internal_count, next, old_head, ptr>>
      /\ internal_count \in [Addr -> Int] /\ allocated \subseteq Addr
  BY DEF Safe, TypeOK, Locals, PopSucceeds
<1>1. \A u \in Thread, b \in Addr :
        /\ Holds(u, b)' <=> Holds(u, b) /\ u # t
        /\ Takes(u, b)' <=> Takes(u, b) \/ (u = t /\ b = a)
        /\ Deletes(u, b)' <=> Deletes(u, b)
        /\ Fills(u, b)' <=> Fills(u, b)
        /\ u = t => (Holds(u, b) <=> b = a) /\ ~Owns(u, b)
  BY DEF Safe, TypeOK, PopSucceeds, Owns
<1> HIDE DEF Goto, Holds, Takes, Deletes, Fills
<1>2. \A b \in Addr : b # a => Holders(b)' = Holders(b)
  BY <1>1, HoldersStay
<1>3. \A b \in Addr : b = a => Cardinality(Holders(b)') = Cardinality(Holders(b)) - 1
  BY <1>1, HoldersLeave
<1>4. list # <<>> /\ list[1] = a /\ n >= 1
  BY <1>0, HeadFacts, StackAssumption DEF Safe
<1>5. /\ Len(list') = n - 1
      /\ \A i \in 1 .. n - 1 : i + 1 \in 1 .. n /\ list'[i] = list[i + 1]
  BY <1>0, <1>4
<1>6. \A i \in 1 .. n - 1 : list[i + 1] # a
  BY <1>0, <1>4, <1>5 DEF Safe, Distinct
<1>7. Linked' = Linked \ {a}
  <2>1. \A b : b \in Linked' <=> \E i \in 1 .. n - 1 : b = list[i + 1]
    BY <1>5 DEF Linked
  <2>2. ASSUME NEW i \in 1 .. n, list[i] # a PROVE list[i] \in Linked'
    <3>1. i - 1 \in 1 .. n - 1 /\ (i - 1) + 1 = i
      BY <2>2, <1>0, <1>4
    <3> QED
      BY <3>1, <2>1
  <2>3. \A b \in Linked' : b \in Linked /\ b # a
    BY <2>1, <1>5, <1>6 DEF Linked
  <2> QED
    BY <2>2, <2>3 DEF Linked
<1>8. \A i \in 1 .. n : Ref(i)' = Ref(i + 1)
  <2> SUFFICES ASSUME NEW i \in 1 .. n PROVE Ref(i)' = Ref(i + 1)
    OBVIOUS
  <2>1. Ref(i + 1) = next[list[i]]
    BY <1>0 DEF Ref
  <2>2. CASE i = 1
    BY <2>1, <2>2, <1>0, <1>4 DEF Ref
  <2>3. CASE i # 1
    <3>1. i - 1 \in 1 .. n - 1 /\ (i - 1) + 1 = i
      BY <2>3, <1>0
    <3> QED
      BY <2>1, <2>3, <3>1, <1>0, <1>5 DEF Ref
  <2> QED
    BY <2>2, <2>3
<1>9. Distinct'
  <2> SUFFICES ASSUME NEW i \in 1 .. n - 1, NEW j \in 1 .. n - 1, list'[i] = list'[j]
               PROVE  i = j
    BY <1>5 DEF Distinct
  <2>1. i + 1 = j + 1
    BY <1>5 DEF Safe, Distinct
  <2> QED
    BY <2>1
<1>10. \A u \in Thread, b \in Addr : Owns(u, b)' <=> Owns(u, b) \/ (u = t /\ b = a)
  BY <1>1 DEF Owns
<1>11. a \in Linked /\ \A u \in Thread : ~Owns(u, a)
  BY <1>0, <1>4 DEF Linked, Safe, NoDangling
<1>12. Unsettled'
  <2>1. internal_count[a] <= 0 /\ \A i \in 1 .. n - 1 : internal_count[list[i + 1]] <= 0
    BY <1>4, <1>5 DEF Safe, Unsettled
  <2> QED
    BY <2>1, <1>0, <1>1, <1>5 DEF Safe, Unsettled
<1>13. NoDangling'
  <2>1. ASSUME NEW i \in 1 .. Len(list') + 1
        PROVE  Ref(i)'.ptr = IF i <= Len(list') THEN list'[i] ELSE NULL
    <3>1. i \in 1 .. n /\ i + 1 \in 1 .. n + 1 /\ (i <= n - 1 <=> i + 1 <= n)
      BY <1>0, <1>4, <1>5
    <3>2. Ref(i + 1).ptr = IF i + 1 <= n THEN list[i + 1] ELSE NULL
      BY <3>1 DEF Safe, NoDangling
    <3> QED
      BY <3>1, <3>2, <1>5, <1>8
  <2>2. ASSUME NEW u \in Thread, NEW b \in Addr
        PROVE  /\ Holds(u, b)' \/ Owns(u, b)' => b \in allocated'
               /\ Owns(u, b)' => b \notin Linked' /\ \A w \in Thread : Owns(w, b)' => w = u
               /\ Deletes(u, b)' \/ Fills(u, b)' => Holders(b)' = {}
    <3>1. a \in allocated
      BY <1>11 DEF Safe, NoDangling
    <3>2. Deletes(u, b) \/ Fills(u, b) => b # a
      BY <1>11 DEF Owns
    <3> QED
      BY <1>0, <1>1, <1>2, <1>7, <1>10, <1>11, <3>1, <3>2 DEF Safe, NoDangling
  <2>3. Linked' \subseteq allocated'
    BY <1>0, <1>7 DEF Safe, NoDangling
  <2> QED
    BY <2>1, <2>2, <2>3 DEF NoDangling
<1>14. CountsAgree'
  <2>1. ASSUME NEW i \in 1 .. Len(list')
        PROVE  Ref(i)'.external_count - 1 + internal_count'[list'[i]] = Cardinality(Holders(list[i]))'
    <3>1. i \in 1 .. n - 1 /\ i \in 1 .. n /\ i + 1 \in 1 .. n
      BY <1>0, <1>4, <1>5
    <3>2. Ref(i + 1).external_count - 1 + internal_count[list[i + 1]]
            = Cardinality(Holders(list[i + 1]))
      BY <3>1 DEF Safe, CountsAgree
    <3>3. Holders(list[i])' = Holders(list[i + 1])
      BY <3>1, <1>0, <1>2, <1>5, <1>6 DEF Holders
    <3> QED
      BY <3>1, <3>2, <3>3, <1>0, <1>5, <1>8
  <2>2. ASSUME NEW u \in Thread, NEW b \in Addr, Takes(u, b)'
        PROVE  old_head'[u].external_count - 2 + internal_count'[b] = Cardinality(Holders(b)')
    <3>1. CASE u = t
      <4>1. b = a
        BY <2>2, <3>1, <1>1 DEF Owns
      <4>2. head.external_count - 1 + internal_count[a] = Cardinality(Holders(a))
        BY <1>0, <1>4 DEF Safe, CountsAgree, Ref
      <4>3. /\ head.external_count \in Nat /\ internal_count[a] \in Int
            /\ Cardinality(Holders(a)) \in Nat
        BY <1>0, PointerFacts, HoldersFinite DEF Safe, TypeOK
      <4>4. Cardinality(Holders(b)') = Cardinality(Holders(b)) - 1
        BY <4>1, <1>3
      <4> QED
        BY <3>1, <4>1, <4>2, <4>3, <4>4, <1>0
    <3>2. CASE u # t
      <4>1. Takes(u, b) /\ b # a
        BY <2>2, <3>2, <1>1, <1>11 DEF Owns
      <4> QED
        BY <4>1, <1>0, <1>2 DEF Safe, CountsAgree
    <3> QED
      BY <3>1, <3>2
  <2>3. ASSUME NEW b \in allocated' \ Linked', \A u \in Thread : ~Takes(u, b)'
        PROVE  internal_count'[b] = Cardinality(Holders(b)')
    <3>1. b \in Addr /\ b # a
      BY <2>3, <1>0, <1>1
    <3>2. b \in allocated \ Linked
      BY <3>1, <1>0, <1>7
    <3> QED
      BY <2>3, <3>1, <3>2, <1>0, <1>1, <1>2 DEF Safe, CountsAgree
  <2> QED
    BY <2>1, <2>2, <2>3 DEF CountsAgree
<1>15. Kept => Kept'
  BY <1>0, <1>1, <1>2, <1>7, <1>10 DEF Kept
<1> QED
  BY <1>4, <1>7, <1>9, <1>12, <1>13, <1>14, <1>15 DEF Shape

(* The taker gives its count to the node, which from now on counts inside.  *)
(* If that leaves nothing, nobody holds the node.                           *)
LEMMA SettleStep ==
  ASSUME Safe, NEW t \in Thread, Settle(t)
  PROVE  Shape' /\ (Kept => Kept')
<1> DEFINE a == ptr[t]
<1> USE DEF Goto, Holds, Takes, Deletes, Fills
<1>0. /\ a \in Addr /\ Takes(t, a)
      /\ internal_count' = [internal_count EXCEPT ![a] = @ + CountIncrease(t)]
      /\ internal_count \in [Addr -> Int]
      /\ old_head[t] \in Pointer
      /\ list \in Seq(Addr) /\ \A i \in 1 .. Len(list) : list[i] \in Addr
      /\ UNCHANGED <<head, next, list, allocated, old_head, ptr>>
      /\ allocated \subseteq Addr
  BY DEF Safe, TypeOK, Locals, Settle
<1>c. old_head[t].external_count \in Nat
  BY <1>0, PointerFacts
<1>1. \A u \in Thread, b \in Addr :
        /\ Holds(u, b)' <=> Holds(u, b)
        /\ Takes(u, b)' <=> Takes(u, b) /\ u # t
        /\ Deletes(u, b)' <=>
             Deletes(u, b) \/ (u = t /\ b = a /\ internal_count[a] = -CountIncrease(t))
        /\ Fills(u, b)' <=> Fills(u, b)
        /\ u = t => (Takes(u, b) <=> b = a) /\ ~Deletes(u, b) /\ ~Fills(u, b)
  BY DEF Safe, TypeOK, Settle
<1> HIDE DEF Goto, Holds, Takes, Deletes, Fills
<1>2. \A b \in Addr : Holders(b)' = Holders(b)
  BY <1>1, HoldersStay
<1>3. Linked' = Linked /\ \A i : Ref(i)' = Ref(i)
  BY <1>0 DEF Linked, Ref
<1>4. a \notin Linked /\ \A u \in Thread : Owns(u, a) => u = t
  BY <1>0 DEF Safe, NoDangling, Owns
<1>5. /\ CountIncrease(t) \in Int
      /\ internal_count'[a] = internal_count[a] + CountIncrease(t)
      /\ \A b \in Addr : b # a => internal_count'[b] = internal_count[b]
  BY <1>0, <1>c DEF CountIncrease
<1>6. internal_count'[a] = Cardinality(Holders(a))
  <2>1. old_head[t].external_count - 2 + internal_count[a] = Cardinality(Holders(a))
    BY <1>0 DEF Safe, CountsAgree
  <2>2. internal_count[a] \in Int
    BY <1>0
  <2> QED
    BY <2>1, <2>2, <1>c, <1>5 DEF CountIncrease
<1>7. internal_count[a] = -CountIncrease(t) <=> Holders(a) = {}
  <2>1. internal_count[a] = -CountIncrease(t) <=> internal_count'[a] = 0
    <3>1. internal_count[a] \in Int
      BY <1>0
    <3> QED
      BY <3>1, <1>5
  <2> QED
    BY <2>1, <1>6, HoldersFinite, FS_EmptySet
<1>8. \A i \in 1 .. Len(list) : list[i] # a
  BY <1>4 DEF Linked
<1>9. \A u \in Thread, b \in Addr :
        Owns(u, b)' <=> Owns(u, b) /\ (u = t => Holders(a) = {})
  BY <1>1, <1>7 DEF Owns
<1>10. Distinct'
  BY <1>0 DEF Safe, Distinct
<1>11. Unsettled'
  <2>1. \A u \in Thread, b \in Addr : Takes(u, b)' => Takes(u, b) /\ b # a
    BY <1>1, <1>4 DEF Owns
  <2> QED
    BY <2>1, <1>0, <1>5, <1>8 DEF Safe, Unsettled
<1>12. NoDangling'
  <2>1. ASSUME NEW u \in Thread, NEW b \in Addr, Deletes(u, b)' \/ Fills(u, b)'
        PROVE  Holders(b)' = {}
    BY <2>1, <1>1, <1>2, <1>7 DEF Safe, NoDangling
  <2>2. ASSUME NEW u \in Thread, NEW b \in Addr
        PROVE  /\ Holds(u, b)' \/ Owns(u, b)' => b \in allocated'
               /\ Owns(u, b)' => b \notin Linked' /\ \A w \in Thread : Owns(w, b)' => w = u
    BY <1>0, <1>1, <1>3, <1>9 DEF Safe, NoDangling
  <2>3. /\ Linked' \subseteq allocated'
        /\ \A i \in 1 .. Len(list') + 1 : Ref(i)'.ptr = IF i <= Len(list') THEN list'[i] ELSE NULL
    BY <1>0, <1>3 DEF Safe, NoDangling
  <2> QED
    BY <2>1, <2>2, <2>3 DEF NoDangling
<1>13. CountsAgree'
  <2>1. ASSUME NEW i \in 1 .. Len(list)
        PROVE  Ref(i)'.external_count - 1 + internal_count'[list[i]] = Cardinality(Holders(list[i])')
    BY <1>0, <1>2, <1>3, <1>5, <1>8 DEF Safe, CountsAgree
  <2>2. ASSUME NEW u \in Thread, NEW b \in Addr, Takes(u, b)'
        PROVE  old_head'[u].external_count - 2 + internal_count'[b] = Cardinality(Holders(b)')
    <3>1. Takes(u, b) /\ b # a
      BY <2>2, <1>1, <1>4 DEF Owns
    <3> QED
      BY <3>1, <1>0, <1>2, <1>5 DEF Safe, CountsAgree
  <2>3. ASSUME NEW b \in allocated \ Linked, \A u \in Thread : ~Takes(u, b)'
        PROVE  internal_count'[b] = Cardinality(Holders(b)')
    <3>1. b \in Addr
      BY <1>0
    <3>2. CASE b = a
      BY <3>2, <1>0, <1>2, <1>6
    <3>3. CASE b # a
      <4>1. \A u \in Thread : ~Takes(u, b)
        BY <2>3, <3>1, <3>3, <1>1
      <4> QED
        BY <4>1, <3>1, <3>3, <1>2, <1>5 DEF Safe, CountsAgree
    <3> QED
      BY <3>2, <3>3
  <2> QED
    BY <2>1, <2>2, <2>3, <1>0, <1>3 DEF CountsAgree
<1>14. \A b \in Addr : b = a => (Owns(t, b)' <=> Holders(b)' = {})
  BY <1>0, <1>2, <1>9 DEF Owns
<1>15. Kept => Kept'
  <2> SUFFICES ASSUME Kept, NEW b \in allocated \ Linked, \A u \in Thread : ~Owns(u, b)'
               PROVE  Holders(b)' # {}
    BY <1>0, <1>3 DEF Kept
  <2>1. b \in Addr
    BY <1>0
  <2>2. CASE b = a
    BY <2>1, <2>2, <1>14
  <2>3. CASE b # a
    <3>1. ~Owns(t, b)
      BY <2>1, <2>3, <1>1 DEF Owns
    <3>2. \A u \in Thread : ~Owns(u, b)
      BY <2>1, <3>1, <1>9
    <3> QED
      BY <2>1, <3>2, <1>2 DEF Kept
  <2> QED
    BY <2>2, <2>3
<1> QED
  BY <1>0, <1>10, <1>11, <1>12, <1>13, <1>14, <1>15 DEF Shape

(* A reference goes back.  Only a node whose count has been settled can     *)
(* lose its last one here: until then the count inside is not positive.     *)
LEMMA ReleaseStep ==
  ASSUME Safe, NEW t \in Thread, Release(t)
  PROVE  Shape' /\ (Kept => Kept')
<1> DEFINE a == ptr[t]
<1> USE DEF Goto, Holds, Takes, Deletes, Fills
<1>0. /\ a \in Addr /\ Holds(t, a) /\ pc[t] = "release"
      /\ internal_count' = [internal_count EXCEPT ![a] = @ - 1]
      /\ internal_count \in [Addr -> Int]
      /\ list \in Seq(Addr) /\ \A i \in 1 .. Len(list) : list[i] \in Addr
      /\ UNCHANGED <<head, next, list, allocated, old_head, ptr>>
      /\ allocated \subseteq Addr /\ a \in allocated
      /\ head \in Pointer /\ next \in [Addr -> Pointer] /\ old_head \in [Thread -> Pointer]
  BY DEF Safe, TypeOK, Locals, Release, NoDangling
<1>1. \A u \in Thread, b \in Addr :
        /\ Holds(u, b)' <=> Holds(u, b) /\ u # t
        /\ Takes(u, b)' <=> Takes(u, b)
        /\ Deletes(u, b)' <=> Deletes(u, b) \/ (u = t /\ b = a /\ internal_count[a] = 1)
        /\ Fills(u, b)' <=> Fills(u, b)
        /\ u = t => (Holds(u, b) <=> b = a) /\ ~Owns(u, b)
  BY DEF Safe, TypeOK, Release, LastReference, Owns
<1> HIDE DEF Goto, Holds, Takes, Deletes, Fills
<1>2. \A b \in Addr : b # a => Holders(b)' = Holders(b)
  BY <1>1, HoldersStay
<1>3. \A b \in Addr : b = a => Cardinality(Holders(b)') = Cardinality(Holders(b)) - 1
  BY <1>0, <1>1, HoldersLeave
<1>4. Linked' = Linked /\ \A i : Ref(i)' = Ref(i)
  BY <1>0 DEF Linked, Ref
<1>5. /\ internal_count[a] \in Int /\ internal_count'[a] = internal_count[a] - 1
      /\ \A b \in Addr : b # a => internal_count'[b] = internal_count[b]
      /\ \A b \in Addr : internal_count'[b] <= internal_count[b] /\ internal_count[b] \in Int
                         /\ internal_count'[b] \in Int
  BY <1>0
<1>6. /\ \A b : Cardinality(Holders(b)) \in Nat /\ Cardinality(Holders(b)') \in Nat
      /\ \A b : Cardinality(Holders(b)') = 0 <=> Holders(b)' = {}
  <2>1. \A b : IsFiniteSet(Holders(b)) /\ IsFiniteSet(Holders(b)')
    <3>1. \A b : Holders(b) \in SUBSET Thread /\ Holders(b)' \in SUBSET Thread
      BY DEF Holders
    <3> QED
      BY <3>1, FS_Subset, StackAssumption
  <2> QED
    BY <2>1, FS_CardinalityType, FS_EmptySet
<1>7. ~Fills(t, a) /\ \A u \in Thread : ~Deletes(u, a) /\ ~Fills(u, a)
  BY <1>0 DEF Safe, NoDangling, Holders
<1>8. internal_count[a] = 1 =>
        /\ a \notin Linked /\ \A u \in Thread : ~Owns(u, a)
        /\ Cardinality(Holders(a)) = 1 /\ Holders(a)' = {}
  <2> SUFFICES ASSUME internal_count[a] = 1
               PROVE  /\ a \notin Linked /\ \A u \in Thread : ~Owns(u, a)
                      /\ Cardinality(Holders(a)) = 1 /\ Holders(a)' = {}
    OBVIOUS
  <2>1. a \notin Linked
    BY DEF Linked, Safe, Unsettled
  <2>2. \A u \in Thread : ~Takes(u, a)
    BY <1>0 DEF Safe, Unsettled
  <2>3. Cardinality(Holders(a)) = 1
    BY <2>1, <2>2, <1>0 DEF Safe, CountsAgree
  <2>4. Cardinality(Holders(ptr[t])') = 0
    BY <2>3, <1>0, <1>3
  <2>5. Holders(ptr[t])' = {}
    BY <2>4, <1>6
  <2> QED
    BY <2>1, <2>2, <2>3, <2>5, <1>7 DEF Owns
<1>9. \A u \in Thread, b \in Addr :
        Owns(u, b)' <=> Owns(u, b) \/ (u = t /\ b = a /\ internal_count[a] = 1)
  BY <1>1 DEF Owns
<1>10. Distinct'
  BY <1>0 DEF Safe, Distinct
<1>11. Unsettled'
  BY <1>0, <1>1, <1>5 DEF Safe, Unsettled
<1>12. NoDangling'
  <2>1. ASSUME NEW u \in Thread, NEW b \in Addr, Deletes(u, b)' \/ Fills(u, b)'
        PROVE  Holders(b)' = {}
    <3>1. CASE b = a
      BY <2>1, <3>1, <1>0, <1>1, <1>7, <1>8
    <3>2. CASE b # a
      BY <2>1, <3>2, <1>1, <1>2 DEF Safe, NoDangling
    <3> QED
      BY <3>1, <3>2
  <2>2. ASSUME NEW u \in Thread, NEW b \in Addr
        PROVE  /\ Holds(u, b)' \/ Owns(u, b)' => b \in allocated'
               /\ Owns(u, b)' => b \notin Linked' /\ \A w \in Thread : Owns(w, b)' => w = u
    BY <1>0, <1>1, <1>4, <1>8, <1>9 DEF Safe, NoDangling
  <2>3. /\ Linked' \subseteq allocated'
        /\ \A i \in 1 .. Len(list') + 1 : Ref(i)'.ptr = IF i <= Len(list') THEN list'[i] ELSE NULL
    BY <1>0, <1>4 DEF Safe, NoDangling
  <2> QED
    BY <2>1, <2>2, <2>3 DEF NoDangling
<1>13. \A b \in Addr, k \in Int :
         k + internal_count[b] = Cardinality(Holders(b))
           => k + internal_count'[b] = Cardinality(Holders(b)')
  BY <1>2, <1>3, <1>5, <1>6
<1>14. CountsAgree'
  <2>1. ASSUME NEW i \in 1 .. Len(list)
        PROVE  Ref(i)'.external_count - 1 + internal_count'[list[i]] = Cardinality(Holders(list[i])')
    <3>1. Ref(i).external_count \in Nat
      <4>1. i # 1 => i - 1 \in 1 .. Len(list)
        BY <1>0
      <4> QED
        BY <4>1, <1>0, PointerFacts DEF Ref
    <3>2. Ref(i).external_count - 1 + internal_count[list[i]] = Cardinality(Holders(list[i]))
      BY DEF Safe, CountsAgree
    <3>3. Ref(i).external_count - 1 \in Int
      BY <3>1
    <3> QED
      BY <3>2, <3>3, <1>0, <1>4, <1>13
  <2>2. ASSUME NEW u \in Thread, NEW b \in Addr, Takes(u, b)'
        PROVE  old_head'[u].external_count - 2 + internal_count'[b] = Cardinality(Holders(b)')
    <3>1. old_head[u].external_count - 2 \in Int
      <4>1. old_head[u].external_count \in Nat
        BY <1>0, PointerFacts
      <4> QED
        BY <4>1
    <3>2. old_head[u].external_count - 2 + internal_count[b] = Cardinality(Holders(b))
      BY <2>2, <1>1 DEF Safe, CountsAgree
    <3> QED
      BY <3>1, <3>2, <1>0, <1>13
  <2>3. ASSUME NEW b \in allocated \ Linked, \A u \in Thread : ~Takes(u, b)'
        PROVE  internal_count'[b] = Cardinality(Holders(b)')
    <3>1. b \in Addr /\ internal_count[b] = Cardinality(Holders(b))
      BY <2>3, <1>0, <1>1 DEF Safe, CountsAgree
    <3>2. 0 + internal_count[b] = Cardinality(Holders(b))
      BY <3>1, <1>5
    <3>3. 0 + internal_count'[b] = Cardinality(Holders(b)')
      BY <3>1, <3>2, <1>13
    <3> QED
      BY <3>1, <3>3, <1>5
  <2> QED
    BY <2>1, <2>2, <2>3, <1>0, <1>4 DEF CountsAgree
<1>15. ASSUME NEW b \in Addr, b = a, b \notin Linked
       PROVE  (\E u \in Thread : Owns(u, b)') \/ Holders(b)' # {}
  <2>1. CASE \E u \in Thread : Takes(u, b)
    BY <2>1, <1>9 DEF Owns
  <2>2. CASE \A u \in Thread : ~Takes(u, b)
    <3>1. internal_count[b] = Cardinality(Holders(b))
      BY <2>2, <1>0, <1>15 DEF Safe, CountsAgree
    <3>2. CASE internal_count[b] = 1
      BY <3>2, <1>9, <1>15
    <3>3. CASE internal_count[b] # 1
      <4>1. Cardinality(Holders(b)') # 0
        BY <3>1, <3>3, <1>3, <1>5, <1>6, <1>15
      <4> QED
        BY <4>1, <1>6
    <3> QED
      BY <3>2, <3>3
  <2> QED
    BY <2>1, <2>2
<1>16. Kept => Kept'
  BY <1>0, <1>2, <1>4, <1>9, <1>15 DEF Kept
<1> QED
  BY <1>10, <1>11, <1>12, <1>14, <1>15, <1>16 DEF Shape

(* What is deleted belongs to nobody else. *)
LEMMA DeleteStep ==
  ASSUME Safe, NEW t \in Thread, Delete(t)
  PROVE  Shape' /\ (Kept => Kept')
<1> DEFINE a == ptr[t]
<1> USE DEF Goto, Holds, Takes, Deletes, Fills
<1>0. /\ a \in Addr /\ Deletes(t, a)
      /\ list \in Seq(Addr) /\ \A i \in 1 .. Len(list) : list[i] \in Addr
      /\ UNCHANGED <<head, next, list, internal_count, old_head, ptr>>
      /\ allocated' = allocated \ {a} /\ allocated \subseteq Addr
  BY DEF Safe, TypeOK, Locals, Delete
<1>1. \A u \in Thread, b \in Addr :
        /\ Holds(u, b)' <=> Holds(u, b)
        /\ Takes(u, b)' <=> Takes(u, b)
        /\ Deletes(u, b)' <=> Deletes(u, b) /\ u # t
        /\ Fills(u, b)' <=> Fills(u, b)
        /\ u = t => (Deletes(u, b) <=> b = a) /\ ~Takes(u, b) /\ ~Fills(u, b)
  BY DEF Safe, TypeOK, Delete
<1> HIDE DEF Goto, Holds, Takes, Deletes, Fills
<1>2. \A b \in Addr : Holders(b)' = Holders(b)
  BY <1>1, HoldersStay
<1>3. Linked' = Linked /\ \A i : Ref(i)' = Ref(i)
  BY <1>0 DEF Linked, Ref
<1>4. /\ a \notin Linked /\ Holders(a) = {}
      /\ \A u \in Thread : Owns(u, a) => u = t
  BY <1>0 DEF Safe, NoDangling, Owns
<1>5. \A u \in Thread, b \in Addr : Owns(u, b)' <=> Owns(u, b) /\ u # t
  BY <1>1 DEF Owns
<1>6. \A u \in Thread : ~Holds(u, a)
  BY <1>4 DEF Holders
<1>7. Distinct' /\ Unsettled'
  BY <1>0, <1>1 DEF Safe, Distinct, Unsettled
<1>8. NoDangling'
  <2>1. ASSUME NEW u \in Thread, NEW b \in Addr
        PROVE  /\ Holds(u, b)' \/ Owns(u, b)' => b \in allocated'
               /\ Owns(u, b)' => b \notin Linked' /\ \A w \in Thread : Owns(w, b)' => w = u
               /\ Deletes(u, b)' \/ Fills(u, b)' => Holders(b)' = {}
    BY <1>0, <1>1, <1>2, <1>3, <1>4, <1>5, <1>6 DEF Safe, NoDangling
  <2>2. Linked' \subseteq allocated'
    BY <1>0, <1>3, <1>4 DEF Safe, NoDangling
  <2>3. \A i \in 1 .. Len(list') + 1 : Ref(i)'.ptr = IF i <= Len(list') THEN list'[i] ELSE NULL
    BY <1>0, <1>3 DEF Safe, NoDangling
  <2> QED
    BY <2>1, <2>2, <2>3 DEF NoDangling
<1>9. CountsAgree'
  <2>1. ASSUME NEW i \in 1 .. Len(list)
        PROVE  Ref(i)'.external_count - 1 + internal_count[list[i]] = Cardinality(Holders(list[i])')
    BY <1>0, <1>2, <1>3 DEF Safe, CountsAgree
  <2>2. ASSUME NEW u \in Thread, NEW b \in Addr, Takes(u, b)'
        PROVE  old_head[u].external_count - 2 + internal_count[b] = Cardinality(Holders(b)')
    BY <2>2, <1>1, <1>2 DEF Safe, CountsAgree
  <2>3. ASSUME NEW b \in allocated \ Linked, \A u \in Thread : ~Takes(u, b)'
        PROVE  internal_count[b] = Cardinality(Holders(b)')
    BY <2>3, <1>0, <1>1, <1>2 DEF Safe, CountsAgree
  <2> QED
    BY <2>1, <2>2, <2>3, <1>0, <1>3 DEF CountsAgree
<1>10. Kept => Kept'
  <2>1. \A b \in Addr : Owns(t, b) => b = a
    BY <1>1 DEF Owns
  <2> QED
    BY <2>1, <1>0, <1>2, <1>3, <1>5 DEF Kept
<1> QED
  BY <1>7, <1>8, <1>9, <1>10 DEF Shape

(*--------------------------- the safe stack -----------------------------*)
LEMMA SafeInit == Init => Safe
<1> SUFFICES ASSUME Init PROVE Safe
  OBVIOUS
<1> USE DEF Init
<1>1. TypeOK
  BY PointerFacts, StackAssumption, EmptySeq DEF TypeOK, Label
<1>2. Linked = {} /\ Len(list) = 0
  BY DEF Linked
<1>3. \A t \in Thread, a \in Addr : ~Holds(t, a) /\ ~Owns(t, a)
  BY DEF Holds, Owns, Takes, Deletes, Fills
<1>4. Locals
  BY DEF Locals
<1>5. Distinct /\ Unsettled
  BY <1>2, <1>3 DEF Distinct, Unsettled, Owns
<1>6. NoDangling
  BY <1>2, <1>3 DEF NoDangling, Owns, Ref, NoPtr, CountedPtr
<1>7. CountsAgree
  BY <1>2, <1>3 DEF CountsAgree, Owns
<1> QED
  BY <1>1, <1>4, <1>5, <1>6, <1>7 DEF Safe

LEMMA SafeStep == Safe /\ [Next]_vars => Safe' /\ (Kept => Kept')
<1> SUFFICES ASSUME Safe, [Next]_vars PROVE Safe' /\ (Kept => Kept')
  OBVIOUS
<1>1. TypeOK' /\ Locals'
  BY TypeStep
<1>2. Shape' /\ (Kept => Kept')
  BY QuietActions, QuietElse, NewNodeStep, PushStep, IncreaseStep, PopStep, SettleStep,
     ReleaseStep, DeleteStep DEF Next, Push, Pop
<1> QED
  BY <1>1, <1>2 DEF Safe, Shape

(* Every variable keeps its type. *)
THEOREM TypeCorrect == Spec => []TypeOK
<1>1. Safe => TypeOK
  BY DEF Safe
<1> QED
  BY <1>1, SafeInit, SafeStep, PTL DEF Spec

(* However many threads push and pop, in whatever order and with whatever   *)
(* addresses reused, nobody reaches a node that has been freed, no node is  *)
(* freed twice, and none while somebody still looks at it.                  *)
THEOREM NeverDangling == Spec => []NoDangling
<1>1. Safe => NoDangling
  BY DEF Safe
<1> QED
  BY <1>1, SafeInit, SafeStep, PTL DEF Spec

(* External and internal counts always add up to the number of holders.     *)
THEOREM CountsAlwaysAgree == Spec => []CountsAgree
<1>1. Safe => CountsAgree
  BY DEF Safe
<1> QED
  BY <1>1, SafeInit, SafeStep, PTL DEF Spec

(*----------------------- data and the destructor ------------------------*)
(* Data goes with its node: it is written before the node is pushed and     *)
(* taken by the node's one owner.                                           *)
LEMMA LoadedStep == Safe /\ Loaded /\ [Next]_vars => Loaded'
<1> SUFFICES ASSUME Safe, Loaded, [Next]_vars PROVE Loaded'
  OBVIOUS
<1> USE DEF Goto
<1>t. /\ pc \in [Thread -> Label] /\ ptr \in [Thread -> Addr \cup {NULL}]
      /\ new_node \in [Thread -> Addr \cup {NULL}] /\ res \in [Thread -> Value \cup {NULL}]
      /\ data \in [Addr -> Value \cup {NULL}] /\ list \in Seq(Addr)
      /\ Len(list) \in Nat /\ \A i \in 1 .. Len(list) : list[i] \in Addr /\ list[i] \in Linked
  BY DEF Safe, TypeOK, Linked
<1>o. \A u \in Thread :
        /\ pc[u] \in Pushing => Owns(u, new_node[u]) /\ new_node[u] \in Addr
        /\ pc[u] \in Taking => Owns(u, ptr[u]) /\ ptr[u] \in Addr
  BY DEF Safe, Locals, Owns, Takes, Fills
<1>a. /\ Linked \subseteq allocated
      /\ \A u \in Thread, b \in Addr : Owns(u, b) =>
           /\ b \in allocated /\ b \notin Linked
           /\ \A w \in Thread : Owns(w, b) => w = u
  BY DEF Safe, NoDangling
<1>1. ASSUME NEW t \in Thread, NewNode(t) PROVE Loaded'
  <2> PICK a \in Addr \ allocated, v \in Value : NewNode(t)!(a, v)
    BY <1>1 DEF NewNode
  <2>1. data' = [data EXCEPT ![a] = v] /\ list' = list
    OBVIOUS
  <2>2. \A i \in 1 .. Len(list) : list[i] # a
    BY <1>t, <1>a
  <2>3. \A u \in Thread :
          /\ pc[u] \in Pushing => new_node[u] # a
          /\ pc[u] \in Taking => ptr[u] # a
    BY <1>o, <1>a
  <2> QED
    BY <2>1, <2>2, <2>3, <1>t, <1>o DEF Loaded
<1>2. ASSUME NEW t \in Thread, PushSucceeds(t) PROVE Loaded'
  <2>1. list' = <<new_node[t]>> \o list /\ new_node[t] \in Addr /\ data[new_node[t]] \in Value
    BY <1>2, <1>o DEF PushSucceeds, Loaded
  <2>2. Len(list') = Len(list) + 1 /\ list'[1] = new_node[t]
        /\ \A i \in 1 .. Len(list') : i # 1 => i - 1 \in 1 .. Len(list) /\ list'[i] = list[i - 1]
    BY <2>1, <1>t
  <2>3. \A i \in 1 .. Len(list') : data[list'[i]] \in Value
    BY <2>1, <2>2 DEF Loaded
  <2> QED
    BY <2>3, <1>2, <1>t DEF PushSucceeds, Loaded
<1>3. ASSUME NEW t \in Thread, PopSucceeds(t) PROVE Loaded'
  <2>1. list # <<>> /\ ptr[t] = list[1] /\ list' = Tail(list)
    BY <1>3, PopStep DEF PopSucceeds
  <2>2. Len(list') = Len(list) - 1
        /\ \A i \in 1 .. Len(list') : i + 1 \in 1 .. Len(list) /\ list'[i] = list[i + 1]
    BY <2>1, <1>t
  <2>3. /\ \A i \in 1 .. Len(list') : data[list'[i]] \in Value
        /\ data[ptr[t]] \in Value
    BY <2>1, <2>2, <1>t DEF Loaded
  <2> QED
    BY <2>3, <1>3, <1>t DEF PopSucceeds, Loaded
<1>4. ASSUME NEW t \in Thread, Take(t) PROVE Loaded'
  <2>1. /\ data' = [data EXCEPT ![ptr[t]] = res[t]]
        /\ res' = [res EXCEPT ![t] = data[ptr[t]]] /\ data[ptr[t]] \in Value
        /\ pc' = [pc EXCEPT ![t] = "settle"] /\ UNCHANGED <<list, ptr, new_node>>
        /\ pc[t] = "take"
    BY <1>4 DEF Take, Loaded
  <2>2. Owns(t, ptr[t]) /\ ptr[t] \in Addr
    BY <2>1, <1>o
  <2>3. \A i \in 1 .. Len(list) : list[i] # ptr[t]
    BY <2>2, <1>a, <1>t
  <2>4. \A u \in Thread :
          /\ pc[u] \in Pushing => new_node[u] # ptr[t]
          /\ u # t /\ pc[u] \in Taking => ptr[u] # ptr[t]
    BY <2>1, <2>2, <1>o, <1>a
  <2> QED
    BY <2>1, <2>2, <2>3, <2>4, <1>t, <1>o DEF Loaded
<1>5. ASSUME NEW t \in Thread, LoadNext(t) \/ PushFails(t) PROVE Loaded'
  BY <1>5, <1>t DEF LoadNext, PushFails, Loaded
<1>6. ASSUME NEW t \in Thread, LoadHead(t) \/ IncreaseFails(t) \/ IncreaseSucceeds(t)
      PROVE  Loaded'
  BY <1>6, <1>t DEF LoadHead, IncreaseFails, IncreaseSucceeds, Loaded
<1>7. ASSUME NEW t \in Thread, ReadNext(t) \/ PopFails(t) \/ Release(t) PROVE Loaded'
  BY <1>7, <1>t DEF ReadNext, PopFails, Release, Loaded
<1>8. ASSUME NEW t \in Thread, Settle(t) \/ Delete(t) \/ Return(t) PROVE Loaded'
  BY <1>8, <1>t DEF Settle, Delete, Return, Loaded
<1>9. CASE Destroy \/ UNCHANGED vars
  BY <1>9 DEF Destroy, vars, Loaded
<1> QED
  BY <1>1, <1>2, <1>3, <1>4, <1>5, <1>6, <1>7, <1>8, <1>9 DEF Next, Push, Pop

(* A pop returns nothing only when it found the stack empty. *)
LEMMA DrainedStep ==
  Safe /\ Loaded /\ Drained /\ Unanswered /\ [Next]_vars => Drained' /\ Unanswered'
<1> SUFFICES ASSUME Safe, Loaded, Drained, Unanswered, [Next]_vars
             PROVE  Drained' /\ Unanswered'
  OBVIOUS
<1> USE StackAssumption DEF Goto
<1>t. /\ pc \in [Thread -> Label] /\ res \in [Thread -> Value \cup {NULL}]
      /\ life \in {"used", "draining", "gone"}
  BY DEF Safe, TypeOK
<1>1. ASSUME NEW t \in Thread, NewNode(t) PROVE Drained' /\ Unanswered'
  BY <1>1, <1>t DEF NewNode, Drained, Unanswered
<1>2. ASSUME NEW t \in Thread, LoadNext(t) \/ PushFails(t) PROVE Drained' /\ Unanswered'
  BY <1>2, <1>t DEF LoadNext, PushFails, Drained, Unanswered
<1>3. ASSUME NEW t \in Thread, PushSucceeds(t) PROVE Drained' /\ Unanswered'
  BY <1>3, <1>t DEF PushSucceeds, Drained, Unanswered
<1>4. ASSUME NEW t \in Thread, LoadHead(t) \/ IncreaseFails(t) PROVE Drained' /\ Unanswered'
  BY <1>4, <1>t DEF LoadHead, IncreaseFails, Drained, Unanswered
<1>5. ASSUME NEW t \in Thread, IncreaseSucceeds(t) PROVE Drained' /\ Unanswered'
  <2>1. head.ptr = NULL => list = <<>>
    BY HeadFacts DEF Safe
  <2> QED
    BY <1>5, <2>1, <1>t DEF IncreaseSucceeds, Drained, Unanswered
<1>6. ASSUME NEW t \in Thread, PopSucceeds(t) PROVE Drained' /\ Unanswered'
  BY <1>6, <1>t DEF PopSucceeds, Drained, Unanswered
<1>7. ASSUME NEW t \in Thread, ReadNext(t) \/ PopFails(t) \/ Release(t)
      PROVE  Drained' /\ Unanswered'
  BY <1>7, <1>t DEF ReadNext, PopFails, Release, Drained, Unanswered
<1>8. ASSUME NEW t \in Thread, Take(t) PROVE Drained' /\ Unanswered'
  BY <1>8, <1>t DEF Take, Drained, Unanswered
<1>9. ASSUME NEW t \in Thread, Settle(t) \/ Delete(t) PROVE Drained' /\ Unanswered'
  BY <1>9, <1>t DEF Settle, Delete, Drained, Unanswered, Loaded
<1>10. ASSUME NEW t \in Thread, Return(t) PROVE Drained' /\ Unanswered'
  BY <1>10, <1>t DEF Return, Drained, Unanswered
<1>11. CASE Destroy
  BY <1>11, <1>t DEF Destroy, Drained, Unanswered
<1>12. CASE UNCHANGED vars
  BY <1>12 DEF vars, Drained, Unanswered
<1> QED
  BY <1>1, <1>2, <1>3, <1>4, <1>5, <1>6, <1>7, <1>8, <1>9, <1>10, <1>11, <1>12
     DEF Next, Push, Pop

LEMMA InvInit == Init => Inv
<1> SUFFICES ASSUME Init PROVE Inv
  OBVIOUS
<1>1. Kept
  BY DEF Init, Kept
<1>2. Loaded /\ Drained /\ Unanswered
  BY StackAssumption DEF Init, Loaded, Drained, Unanswered
<1> QED
  BY <1>1, <1>2, SafeInit DEF Inv

LEMMA InvStep == Inv /\ [Next]_vars => Inv'
BY SafeStep, LoadedStep, DrainedStep DEF Inv

(* The destructor, which pops until a pop finds nothing, leaves no node     *)
(* behind: what is off the stack is kept by an owner or by holders, and all *)
(* of them have left.                                                       *)
THEOREM NeverLeaks == Spec => []NoLeak
<1>1. Inv => NoLeak
  <2> SUFFICES ASSUME Inv, life = "gone", NEW a \in allocated PROVE FALSE
    BY DEF NoLeak
  <2>1. (\A t \in Thread : pc[t] = "idle") /\ list = <<>>
    BY DEF Inv, Drained
  <2>2. Linked = {}
    BY <2>1 DEF Linked
  <2>3. Holders(a) = {} /\ \A t \in Thread : ~Owns(t, a)
    BY <2>1 DEF Holders, Holds, Owns, Takes, Deletes, Fills
  <2> QED
    BY <2>2, <2>3 DEF Inv, Kept
<1> QED
  BY <1>1, InvInit, InvStep, PTL DEF Spec

(*----------------------- a linearizable stack ---------------------------*)
LEMMA CallsType ==
  ASSUME TypeOK, Locals
  PROVE  /\ calls \in [Thread -> Abstract!Call]
         /\ contents \in Seq(Value \cup {NULL}) /\ Len(contents) = Len(list)
         /\ \A i \in 1 .. Len(list) : contents[i] = data[list[i]]
<1>1. \A t \in Thread : CallOf(t) \in Abstract!Call
  BY DEF CallOf, Abstract!Call, TypeOK, Locals, Label
<1> QED
  BY <1>1 DEF calls, contents, TypeOK

(* The data on the stack and in other threads' calls stay what they are.    *)
Undisturbed(t) ==
  /\ \A i \in 1 .. Len(list) : data'[list[i]] = data[list[i]]
  /\ \A u \in Thread \ {t} :
       /\ pc'[u] = pc[u] /\ ptr'[u] = ptr[u] /\ res'[u] = res[u] /\ new_node'[u] = new_node[u]
       /\ pc[u] \in Pushing => data'[new_node[u]] = data[new_node[u]]
       /\ pc[u] = "take" => data'[ptr[u]] = data[ptr[u]]

(* A step of thread t shows in t's call alone. *)
LEMMA OneCall ==
  ASSUME NEW t \in Thread, Undisturbed(t)
  PROVE  calls' = [calls EXCEPT ![t] = CallOf(t)']
<1>1. \A u \in Thread \ {t} : CallOf(u)' = CallOf(u)
  BY DEF Undisturbed, CallOf
<1> QED
  BY <1>1 DEF calls

LEMMA SameContents ==
  ASSUME NEW t \in Thread, Undisturbed(t), UNCHANGED list
  PROVE  contents' = contents
BY DEF Undisturbed, contents

LEMMA StepUndisturbed ==
  ASSUME Safe, NEW t \in Thread, Push(t) \/ Pop(t) \/ Return(t)
  PROVE  Undisturbed(t)
<1> USE DEF Goto, Undisturbed
<1>t. /\ pc \in [Thread -> Label] /\ ptr \in [Thread -> Addr \cup {NULL}]
      /\ new_node \in [Thread -> Addr \cup {NULL}] /\ res \in [Thread -> Value \cup {NULL}]
      /\ data \in [Addr -> Value \cup {NULL}]
      /\ \A i \in 1 .. Len(list) : list[i] \in Addr /\ list[i] \in Linked
  <2>1. \A i \in 1 .. Len(list) : list[i] \in Addr
    BY DEF Safe, TypeOK
  <2>2. \A i \in 1 .. Len(list) : list[i] \in Linked
    BY DEF Linked
  <2> QED
    BY <2>1, <2>2 DEF Safe, TypeOK
<1>o. \A u \in Thread :
        /\ pc[u] \in Pushing => Owns(u, new_node[u]) /\ new_node[u] \in Addr
        /\ pc[u] \in Taking => Owns(u, ptr[u]) /\ ptr[u] \in Addr
  BY DEF Safe, Locals, Owns, Takes, Fills
<1>a. /\ Linked \subseteq allocated
      /\ \A u \in Thread, b \in Addr : Owns(u, b) =>
           /\ b \in allocated /\ b \notin Linked
           /\ \A w \in Thread : Owns(w, b) => w = u
  BY DEF Safe, NoDangling
<1>1. CASE NewNode(t)
  <2> PICK a \in Addr \ allocated, v \in Value : NewNode(t)!(a, v)
    BY <1>1 DEF NewNode
  <2>1. \A i \in 1 .. Len(list) : list[i] # a
    BY <1>t, <1>a
  <2>2. \A u \in Thread :
          /\ pc[u] \in Pushing => new_node[u] # a
          /\ pc[u] \in Taking => ptr[u] # a
    BY <1>o, <1>a
  <2> QED
    BY <2>1, <2>2, <1>t, <1>o
<1>2. CASE Take(t)
  <2>1. pc[t] = "take" /\ Owns(t, ptr[t]) /\ ptr[t] \in Addr
    BY <1>2, <1>o DEF Take
  <2>2. \A i \in 1 .. Len(list) : list[i] # ptr[t]
    BY <2>1, <1>a, <1>t
  <2>3. \A u \in Thread \ {t} :
          /\ pc[u] \in Pushing => new_node[u] # ptr[t]
          /\ pc[u] \in Taking => ptr[u] # ptr[t]
    BY <2>1, <1>o, <1>a
  <2> QED
    BY <2>2, <2>3, <1>2, <1>t, <1>o DEF Take
<1>3. CASE LoadNext(t) \/ PushSucceeds(t) \/ PushFails(t) \/ LoadHead(t) \/ IncreaseSucceeds(t)
  BY <1>3, <1>t DEF LoadNext, PushSucceeds, PushFails, LoadHead, IncreaseSucceeds
<1>4. CASE IncreaseFails(t) \/ ReadNext(t) \/ PopSucceeds(t) \/ PopFails(t)
  BY <1>4, <1>t DEF IncreaseFails, ReadNext, PopSucceeds, PopFails
<1>5. CASE Settle(t) \/ Release(t) \/ Delete(t) \/ Return(t)
  BY <1>5, <1>t DEF Settle, Release, Delete, Return
<1> QED
  BY <1>1, <1>2, <1>3, <1>4, <1>5 DEF Push, Pop

(* The step of the abstract stack that each step of the code takes.         *)
LEMMA Simulation == Inv /\ Inv' /\ [Next]_vars => [Abstract!Next]_(Abstract!vars)
<1> SUFFICES ASSUME Inv, Inv', [Next]_vars PROVE [Abstract!Next]_(Abstract!vars)
  OBVIOUS
<1> USE DEF Goto
<1>i. Safe /\ TypeOK /\ Locals /\ Unanswered /\ Safe'
  BY DEF Inv, Safe
<1>t. /\ pc \in [Thread -> Label] /\ ptr \in [Thread -> Addr \cup {NULL}]
      /\ new_node \in [Thread -> Addr \cup {NULL}] /\ res \in [Thread -> Value \cup {NULL}]
      /\ data \in [Addr -> Value \cup {NULL}] /\ list \in Seq(Addr) /\ Len(list) \in Nat
  BY <1>i DEF TypeOK
<1>c. /\ contents \in Seq(Value \cup {NULL}) /\ Len(contents) = Len(list)
      /\ \A i \in 1 .. Len(list) : contents[i] = data[list[i]]
      /\ (contents \in Seq(Value \cup {NULL}) /\ Len(contents) = Len(list))'
      /\ \A i \in 1 .. Len(list') : contents'[i] = data'[list'[i]]
      /\ calls \in [Thread -> Abstract!Call]
  <2>1. list' \in Seq(Addr) /\ data' \in [Addr -> Value \cup {NULL}]
    BY <1>i DEF Safe, TypeOK
  <2>2. contents' = [i \in 1 .. Len(list') |-> data'[list'[i]]]
    BY DEF contents
  <2>3. /\ contents' \in Seq(Value \cup {NULL}) /\ Len(contents') = Len(list')
        /\ \A i \in 1 .. Len(list') : contents'[i] = data'[list'[i]]
    BY <2>1, <2>2
  <2> QED
    BY <1>i, <2>3, CallsType
<1>u. ASSUME NEW t \in Thread, Push(t) \/ Pop(t) \/ Return(t)
      PROVE  /\ calls' = [calls EXCEPT ![t] = CallOf(t)']
             /\ list' = list => contents' = contents
             /\ calls[t] = CallOf(t)
             /\ list' = list /\ CallOf(t)' = CallOf(t) => UNCHANGED Abstract!vars
  <2>1. Undisturbed(t)
    BY <1>u, <1>i, StepUndisturbed
  <2>2. calls' = [calls EXCEPT ![t] = CallOf(t)'] /\ calls[t] = CallOf(t)
    BY <2>1, OneCall DEF calls
  <2>3. list' = list => contents' = contents
    BY <2>1, SameContents
  <2>4. CallOf(t)' = CallOf(t) => calls' = calls
    BY <2>2, <1>c
  <2> QED
    BY <2>2, <2>3, <2>4 DEF Abstract!vars
<1>1. ASSUME NEW t \in Thread, NewNode(t) PROVE Abstract!Next
  <2> PICK a \in Addr \ allocated, v \in Value : NewNode(t)!(a, v)
    BY <1>1 DEF NewNode
  <2>1. CallOf(t) = Abstract!NoCall /\ CallOf(t)' = [op |-> "push", val |-> v] /\ list' = list
    BY <1>t DEF CallOf, Abstract!NoCall
  <2>2. Abstract!CallPush(t, v)
    BY <2>1, <1>1, <1>u DEF Abstract!CallPush, Push
  <2> QED
    BY <2>2 DEF Abstract!Next
<1>2. ASSUME NEW t \in Thread, LoadNext(t) \/ PushFails(t) PROVE UNCHANGED Abstract!vars
  <2>1. CallOf(t)' = CallOf(t) /\ list' = list
    BY <1>2, <1>t DEF CallOf, LoadNext, PushFails
  <2> QED
    BY <2>1, <1>2, <1>u DEF Push
<1>3. ASSUME NEW t \in Thread, PushSucceeds(t) PROVE Abstract!Next
  <2>1. /\ new_node[t] \in Addr /\ list' = <<new_node[t]>> \o list /\ data' = data
        /\ pc[t] = "push_cas" /\ pc'[t] = "return" /\ res'[t] = res[t] /\ res[t] = NULL
    BY <1>3, <1>i, <1>t DEF PushSucceeds, Locals, Unanswered
  <2>2. /\ CallOf(t) = [op |-> "push", val |-> data[new_node[t]]]
        /\ CallOf(t)' = [op |-> "done", val |-> NULL]
    BY <2>1 DEF CallOf
  <2>3. contents' = <<data[new_node[t]]>> \o contents
    <3>1. /\ <<data[new_node[t]]>> \in Seq(Value \cup {NULL})
          /\ <<data[new_node[t]]>> \o contents \in Seq(Value \cup {NULL})
          /\ Len(<<data[new_node[t]]>> \o contents) = Len(list) + 1
      BY <2>1, <1>t, <1>c
    <3>2. /\ Len(list') = Len(list) + 1 /\ list'[1] = new_node[t]
          /\ \A i \in 1 .. Len(list') : i # 1 => i - 1 \in 1 .. Len(list) /\ list'[i] = list[i - 1]
      BY <2>1, <1>t
    <3>3. ASSUME NEW i \in 1 .. Len(list) + 1
          PROVE  contents'[i] = (<<data[new_node[t]]>> \o contents)[i]
      <4>1. CASE i = 1
        BY <4>1, <2>1, <3>2, <1>t, <1>c
      <4>2. CASE i # 1
        <5>1. contents'[i] = contents[i - 1]
          <6>1. i \in 1 .. Len(list') /\ i - 1 \in 1 .. Len(list)
            BY <4>2, <3>2
          <6> QED
            BY <4>2, <6>1, <2>1, <3>2, <1>c
        <5>2. (<<data[new_node[t]]>> \o contents)[i] = contents[i - 1]
          BY <4>2, <3>1, <1>t, <1>c
        <5> QED
          BY <5>1, <5>2
      <4> QED
        BY <4>1, <4>2
    <3> QED
      BY <3>1, <3>2, <3>3, <1>c, SeqEqual
  <2>4. Abstract!DoPush(t)
    BY <2>2, <2>3, <1>3, <1>u DEF Abstract!DoPush, Push
  <2> QED
    BY <2>4 DEF Abstract!Next
<1>4. ASSUME NEW t \in Thread, LoadHead(t) PROVE Abstract!Next
  <2>1. /\ CallOf(t) = Abstract!NoCall /\ CallOf(t)' = [op |-> "pop", val |-> NULL]
        /\ list' = list
    BY <1>4, <1>t DEF CallOf, Abstract!NoCall, LoadHead
  <2>2. Abstract!CallPop(t)
    BY <2>1, <1>4, <1>u DEF Abstract!CallPop, Pop
  <2> QED
    BY <2>2 DEF Abstract!Next
<1>5. ASSUME NEW t \in Thread, IncreaseSucceeds(t)
      PROVE  Abstract!Next \/ UNCHANGED Abstract!vars
  <2>1. /\ CallOf(t) = [op |-> "pop", val |-> NULL] /\ list' = list
        /\ pc'[t] = IF head.ptr = NULL THEN "return" ELSE "read_next"
        /\ res'[t] = NULL
    BY <1>5, <1>i, <1>t DEF CallOf, IncreaseSucceeds, Unanswered
  <2>2. CASE head.ptr = NULL
    <3>1. contents = <<>>
      <4>1. list = <<>>
        BY <2>2, <1>i, HeadFacts DEF Safe
      <4>2. Len(contents) = 0
        BY <4>1, <1>c
      <4> QED
        BY <4>2, <1>c, EmptySeq
    <3>2. CallOf(t)' = [op |-> "done", val |-> NULL]
      BY <2>1, <2>2 DEF CallOf
    <3>3. Abstract!DoPopEmpty(t)
      BY <2>1, <3>1, <3>2, <1>5, <1>u DEF Abstract!DoPopEmpty, Pop
    <3> QED
      BY <3>3 DEF Abstract!Next
  <2>3. CASE head.ptr # NULL
    <3>1. CallOf(t)' = CallOf(t)
      BY <2>1, <2>3 DEF CallOf
    <3> QED
      BY <2>1, <3>1, <1>5, <1>u DEF Pop
  <2> QED
    BY <2>2, <2>3
<1>6. ASSUME NEW t \in Thread, IncreaseFails(t) \/ ReadNext(t) \/ PopFails(t) \/ Release(t)
      PROVE  UNCHANGED Abstract!vars
  <2>1. CallOf(t)' = CallOf(t) /\ list' = list
    BY <1>6, <1>t DEF CallOf, IncreaseFails, ReadNext, PopFails, Release
  <2> QED
    BY <2>1, <1>6, <1>u DEF Pop
<1>7. ASSUME NEW t \in Thread, PopSucceeds(t) PROVE Abstract!Next
  <2>1. list # <<>> /\ ptr[t] = list[1] /\ list' = Tail(list) /\ data' = data
    BY <1>7, <1>i, PopStep DEF PopSucceeds
  <2>2. /\ CallOf(t) = [op |-> "pop", val |-> NULL]
        /\ CallOf(t)' = [op |-> "done", val |-> data[ptr[t]]]
    BY <1>7, <1>t DEF CallOf, PopSucceeds
  <2>3. contents # <<>> /\ Head(contents) = data[ptr[t]] /\ Len(list) >= 1
    BY <2>1, <1>t, <1>c
  <2>4. contents' = Tail(contents)
    <3>1. /\ Tail(contents) \in Seq(Value \cup {NULL})
          /\ Len(Tail(contents)) = Len(list) - 1 /\ Len(list') = Len(list) - 1
      BY <2>1, <2>3, <1>t, <1>c
    <3>2. ASSUME NEW i \in 1 .. Len(list) - 1 PROVE contents'[i] = Tail(contents)[i]
      <4>1. list'[i] = list[i + 1] /\ i + 1 \in 1 .. Len(list) /\ i \in 1 .. Len(list')
        BY <2>1, <3>1, <1>t
      <4>2. contents'[i] = contents[i + 1]
        BY <4>1, <2>1, <1>c
      <4>3. Tail(contents)[i] = contents[i + 1]
        BY <2>3, <3>1, <1>t, <1>c
      <4> QED
        BY <4>2, <4>3
    <3> QED
      BY <3>1, <3>2, <1>c, SeqEqual
  <2>5. Abstract!DoPop(t)
    BY <2>2, <2>3, <2>4, <1>7, <1>u DEF Abstract!DoPop, Pop
  <2> QED
    BY <2>5 DEF Abstract!Next
<1>8. ASSUME NEW t \in Thread, Take(t) \/ Settle(t) \/ Delete(t) PROVE UNCHANGED Abstract!vars
  <2>1. CallOf(t)' = CallOf(t) /\ list' = list
    BY <1>8, <1>t DEF CallOf, Take, Settle, Delete
  <2> QED
    BY <2>1, <1>8, <1>u DEF Pop
<1>9. ASSUME NEW t \in Thread, Return(t) PROVE Abstract!Next
  <2>1. /\ CallOf(t).op = "done" /\ CallOf(t)' = Abstract!NoCall /\ list' = list
    BY <1>9, <1>t DEF CallOf, Abstract!NoCall, Return
  <2>2. Abstract!Return(t)
    BY <2>1, <1>9, <1>u DEF Abstract!Return
  <2> QED
    BY <2>2 DEF Abstract!Next
<1>10. CASE Destroy \/ UNCHANGED vars
  BY <1>10 DEF Destroy, vars, Abstract!vars, contents, calls, CallOf
<1> QED
  BY <1>1, <1>2, <1>3, <1>4, <1>5, <1>6, <1>7, <1>8, <1>9, <1>10 DEF Next, Push, Pop

(* Every behaviour of the code is one of a stack whose operations take      *)
(* effect one at a time.                                                    *)
THEOREM Linearizable == Spec => IsStack
<1>1. Init => Abstract!Init
  BY DEF Init, Abstract!Init, Abstract!NoCall, contents, calls, CallOf
<1> QED
  BY <1>1, InvInit, InvStep, Simulation, PTL DEF Spec, IsStack, Abstract!Spec
===========================================================================
