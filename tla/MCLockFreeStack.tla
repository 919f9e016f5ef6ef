-------------------------- MODULE MCLockFreeStack --------------------------
(* Instances of LockFreeStack for TLC. *)
EXTENDS LockFreeStack, TLC

(* Addresses are interchangeable; threads are not, one is the owner. *)
Symmetry == Permutations(Addr)
============================================================================
