--------------------------- MODULE MonitorObject ---------------------------
(***************************************************************************)
(* The program of studio 4, exercise 6: some threads push one element at   *)
(* the front of a bounded list, some at its back, and as many pop one; main *)
(* joins them all.                                                         *)
(***************************************************************************)
EXTENDS SynchronizedList, FiniteSets

CONSTANTS FrontPusher, BackPusher, Popper

MonitorAssumption ==
  /\ SynchronizedListAssumption
  /\ Thread = FrontPusher \union BackPusher \union Popper
  /\ Cardinality(Popper) = Cardinality(FrontPusher \union BackPusher)
  /\ low_ < high_

VARIABLE returned   \* the threads that are through

monitorVars == <<list_, active_, waiting, returned>>

Init == ListInit /\ returned = {}

Returns(t) == returned' = returned \union {t}
Waits      == UNCHANGED returned

Push(t) ==
  \/ t \in FrontPusher /\ push_front(t, t) /\ Returns(t)
  \/ t \in BackPusher /\ push_back(t, t) /\ Returns(t)
  \/ t \in FrontPusher \union BackPusher /\ PushWaits(t) /\ Waits

Pop(t) ==
  \/ t \in Popper /\ pop_back(t) /\ Returns(t)
  \/ t \in Popper /\ PopWaits(t) /\ Waits

ThreadStep(t) == t \notin returned /\ (Push(t) \/ Pop(t))

Next == \E t \in Thread : ThreadStep(t)

(* Every thread runs, so a notified one gets the mutex some time. *)
Fairness == \A t \in Thread : WF_monitorVars(ThreadStep(t))
Spec == Init /\ [][Next]_monitorVars /\ Fairness

-----------------------------------------------------------------------------
(* A notify_one per push and per pop is enough, though it may wake a thread *)
(* that finds the list too short, or filled again by somebody faster: all   *)
(* pushes and all pops but the last low_ return.  Those low_ never do: main *)
(* waits for them for ever.                                                 *)
ListDrains ==
  <>[](/\ FrontPusher \union BackPusher \subseteq returned
       /\ Len(list_) = low_
       /\ Cardinality(Popper \ returned) = low_)
=============================================================================
