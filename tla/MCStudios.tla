------------------------------ MODULE MCStudios ------------------------------
(***************************************************************************)
(* Instances for TLC of the studios that have a program of their own.  As  *)
(* with the labs, exercise says which of them a behaviour is about, and    *)
(* the variables of the others rest.                                       *)
(***************************************************************************)
EXTENDS ThreadPool, Session, TimeService

VARIABLES
  exercise,
  list_, active_, waiting,                                              (* the lists of *)
  returned,                                                             (* MonitorObject *)
  serving, driver, round, given, servant, result, other_, crashed, hasty
                                                                        (* ActiveObject *)

listVars    == <<list_, active_, waiting>>
activeVars  == <<serving, driver, round, given, servant, result, other_, crashed, hasty>>
allVars     == <<exercise, poolVars, sessionVars, timeVars, listVars, returned, activeVars>>

-----------------------------------------------------------------------------
(* ThreadPool: 2 and negative odd numbers, 0 and 1, a prime, a square and a *)
(* product, all leaders' and followers' work.                               *)
MCInputs == {<<2, 9, 7>>, <<-3, 1, 15>>, <<25, 4, -4, 11>>, <<0, 3, 5>>}

PoolRests == PoolInit /\ input = <<0, 3, 5>>

-----------------------------------------------------------------------------
(* Session: two sessions of one client and one of another, two runs of the  *)
(* server; bytes from every range that the chains treat in a way of its     *)
(* own, and the one that ends the string; a clean buffer and one with       *)
(* something left in it; an id nobody received may look like a real one.    *)
MCText == [ann |-> <<48, 97, 128, 254>>, bob |-> <<150, 200, 254>>]
MCStale == {<<>>, <<33, 0, 35>>}
MCSessions == [ann |-> 2, bob |-> 1]

SessionRests == Init /\ version = "plain"

-----------------------------------------------------------------------------
(* TimeService: enough timers for five commands. *)
MCTimers == 1 .. 4

ServiceRests == TimeInit /\ canceled_ = FALSE

-----------------------------------------------------------------------------
(* MonitorObject: the program's 4 and 2 and its ten of each, scaled down.   *)
Pushers == {"f1", "f2", "b1", "b2"}
Poppers == {"p1", "p2", "p3", "p4"}

Monitor == INSTANCE MonitorObject WITH
  Thread <- Pushers \union Poppers, high_ <- 2, low_ <- 1,
  FrontPusher <- {"f1", "f2"}, BackPusher <- {"b1", "b2"}, Popper <- Poppers

(* ActiveObject: the program's two rounds, of two numbers. *)
Active == INSTANCE ActiveObject WITH
  Thread <- 0 .. 2, high_ <- 0, low_ <- 0, MainThread <- 0, Worker <- {1, 2},
  Items <- <<1, 2>>, main <- driver, worker <- servant

ListRests     == list_ = <<>> /\ active_ = FALSE /\ waiting = <<>>
ReturnedRests == returned = {}
ActiveRests ==
  /\ serving = FALSE /\ driver = "end" /\ round = 0 /\ given = 0 /\ servant = <<"none", "none">>
  /\ result = <<>> /\ other_ = <<>> /\ crashed = FALSE /\ hasty = FALSE

ASSUME StudiosAssumption ==
  /\ SessionAssumption /\ TimeServiceAssumption
  /\ Monitor!MonitorAssumption /\ Active!ActiveAssumption

-----------------------------------------------------------------------------
StudiosInit ==
  /\ \/ exercise = "pool" /\ PoolInit /\ SessionRests /\ ServiceRests /\ ListRests /\ ReturnedRests
        /\ ActiveRests
     \/ exercise = "session" /\ Init /\ PoolRests /\ ServiceRests /\ ListRests
        /\ ReturnedRests /\ ActiveRests
     \/ exercise = "service" /\ TimeInit /\ PoolRests /\ SessionRests /\ ListRests
        /\ ReturnedRests /\ ActiveRests
     \/ exercise = "monitor" /\ Monitor!Init /\ PoolRests /\ SessionRests /\ ServiceRests
        /\ ActiveRests
     \/ exercise = "active" /\ Active!Init /\ PoolRests /\ SessionRests /\ ServiceRests
        /\ ReturnedRests

InPool(A) ==
  exercise = "pool" /\ A
    /\ UNCHANGED <<exercise, sessionVars, timeVars, listVars, returned, activeVars>>
InSession(A) ==
  exercise = "session" /\ A
    /\ UNCHANGED <<exercise, poolVars, timeVars, listVars, returned, activeVars>>
InService(A) ==
  exercise = "service" /\ A
    /\ UNCHANGED <<exercise, poolVars, sessionVars, listVars, returned, activeVars>>
InMonitor(A) ==
  exercise = "monitor" /\ A
    /\ UNCHANGED <<exercise, poolVars, sessionVars, timeVars, activeVars>>
InActive(A) ==
  exercise = "active" /\ A
    /\ UNCHANGED <<exercise, poolVars, sessionVars, timeVars, returned>>

StudiosNext ==
  \/ InPool(PoolNext) \/ InSession(Next) \/ InService(TimeNext)
  \/ InMonitor(Monitor!Next) \/ InActive(Active!Next)

(* Every studio keeps the fairness its own specification states. *)
StudiosSpec ==
  /\ StudiosInit /\ [][StudiosNext]_allVars
  /\ WF_allVars(InPool(join_threads))
  /\ \A w \in Worker : WF_allVars(InPool(worker_thread(w)))
  /\ WF_allVars(InSession(Reactor))
  /\ \A c \in Client :
       WF_allVars(InSession(ReceiveId(c) \/ ReceiveNothing(c)))
  /\ WF_allVars(InService(FiniStep))
  /\ WF_allVars(InService(SvcRuns))
  /\ \A t \in Pushers \union Poppers : WF_allVars(InMonitor(Monitor!ThreadStep(t)))
  /\ WF_allVars(InActive(Active!MainStep))
  /\ \A w \in {1, 2} : WF_allVars(InActive(Active!run_service(w)))

-----------------------------------------------------------------------------
(* ThreadPool's JudgedRightly, Session's IdsAreUnique, Delivered and Served *)
(* and TimeService's FiniReturns and ServiceQuiet need no guard: a pool at   *)
(* rest reports nothing, a server at rest is never called and prints         *)
(* nothing, and nobody asks a service at rest to close.                      *)

(* MonitorObject: everybody gets through but the last low_ poppers.         *)
ListDrains == exercise = "monitor" => Monitor!ListDrains

(* ActiveObject: every worker ends, unless main was hasty.                  *)
WorkersStop == exercise = "active" => Active!WorkersStop

(* ThreadPool: every number submitted is answered, and main ends.           *)
PoolAnswers == exercise = "pool" => EveryTaskAnswered
=============================================================================
