--------------------------- MODULE ThreadsafeMenu ---------------------------
(***************************************************************************)
(* The producer's menu (lab3/producer/threadsafe_menu.cpp): the operations *)
(* of class threadsafe_menu as operators on the two maps it keeps.         *)
(*                                                                         *)
(* A play's name stands for its rank in the order std::map keeps the names *)
(* in, so names are positive integers; NONE is both the id the pop methods *)
(* return when no director qualifies and the empty name.                   *)
(*                                                                         *)
(* Every method holds menu_mutex from its first statement to its last, so  *)
(* each is one step of the modules that use it.                            *)
(***************************************************************************)
EXTENDS Integers, FiniteSets

CONSTANT Play   (* the names of all plays any director can offer *)

ASSUME PlayAssumption == Play \subseteq Nat \ {0} /\ IsFiniteSet(Play)

NONE == 0

Status == {"AVAILABLE", "UNCLEAR", "UNAVAILABLE"}

Record == [status: Status, plays: SUBSET Play]

(* Element number k, from 0, of a set in ascending order. *)
Nth(S, k) == CHOOSE x \in S : Cardinality({y \in S : y < x}) = k

Smallest(S) == CHOOSE x \in S : \A y \in S : x <= y

(* The directors with status s that have play p in their list. *)
Offering(m, s, p) == {i \in DOMAIN m : m[i].status = s /\ p \in m[i].plays}

Offered(m) == UNION {m[i].plays : i \in DOMAIN m}

(* str(): play_name_available_map rebuilt, the available directors of each play. *)
Shown(m) == [p \in Offered(m) |-> Cardinality(Offering(m, "AVAILABLE", p))]

reg_play(m, p, id) ==
  [i \in DOMAIN m \union {id} |->
     IF i # id            THEN m[i]
     ELSE IF id \in DOMAIN m THEN [m[i] EXCEPT !.plays = @ \union {p}]
     ELSE [status |-> "AVAILABLE", plays |-> {p}]]

(* pop_avaliable and pop_busy_play: the director of least id that qualifies... *)
PopId(m, s, p) ==
  IF Offering(m, s, p) = {} THEN NONE ELSE Smallest(Offering(m, s, p))

pop_avaliable(m, p) == PopId(m, "AVAILABLE", p)

(* Mutant: the test of the status is that of pop_avaliable. *)
pop_busy_play_Idle(m, p) == PopId(m, "AVAILABLE", p)

pop_busy_play(m, p) == PopId(m, "UNAVAILABLE", p)

(* Mutant: the director stays on offer. *)
SetUnclear_Not(m, id) == m

(* ... and what both leave in the menu: that director in the gray area. *)
SetUnclear(m, id) == [m EXCEPT ![id].status = "UNCLEAR"]

SetStatus(m, id, s) ==
  IF id \in DOMAIN m THEN [m EXCEPT ![id].status = s] ELSE m

set_idle_with_id(m, id) == SetStatus(m, id, "AVAILABLE")
set_busy_with_id(m, id) == SetStatus(m, id, "UNAVAILABLE")

(* Mutant: the record stays. *)
clean_with_id_Not(m, id) == m

clean_with_id(m, id) == [i \in DOMAIN m \ {id} |-> m[i]]

(* operator[]: the name at an index of the printed menu.  The test is      *)
(* offset > size, so the index just past the last one dereferences end():  *)
(* PastEnd says when, and the caller decides what that does.               *)
PastEnd(shown, k) == k = Cardinality(DOMAIN shown)

PlayAt(shown, k) ==
  IF k < Cardinality(DOMAIN shown) THEN Nth(DOMAIN shown, k) ELSE NONE
=============================================================================
