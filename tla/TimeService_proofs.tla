------------------------- MODULE TimeService_proofs -------------------------
(***************************************************************************)
(* The time service of studio 16: when a fini has returned, the reactor    *)
(* holds no timer of the service, for any timers and any commands.         *)
(***************************************************************************)
EXTENDS TimeService, TLAPS

(* The service knows the one timer that may be set, unless a schedule has   *)
(* written over its id, and a closed reactor has none.                      *)
TimerKnown ==
  /\ ~overwritten => timers \subseteq {timer_id}
  /\ closed => timers = {}

(* While the user has not asked, the loop of an open reactor goes on.       *)
NotAsked ==
  ~closed /\ ui \in {"prompt", "fini"} =>
    ~ending /\ svc \notin {"ended", "cancelled", "reset"}

(* Between the cancelling and the answer no timer is set: the user waits.   *)
Winding ==
  ~closed /\ svc \in {"cancelled", "reset"} =>
    /\ ~overwritten => timers = {}
    /\ svc = "reset" => ~ending

(* The answer comes after all of that. *)
Answered ==
  ~closed /\ ui \in {"fini", "check", "sleepy", "wait", "woken"} /\ canceled_ = FALSE =>
    /\ ui # "fini" /\ ~ending
    /\ svc \in {"signal", "exiting", "none"}
    /\ ~overwritten => timers = {}

ServiceInv == TimeTypeOK /\ TimerKnown /\ NotAsked /\ Winding /\ Answered

LEMMA ServiceInit ==
  TimeInit => ServiceInv
<1> SUFFICES ASSUME TimeInit PROVE ServiceInv
  OBVIOUS
<1>1. commands \in Nat
  BY DEF TimeInit
<1>2. TimeTypeOK
  BY <1>1, Zenon DEF TimeInit, TimeTypeOK
<1> QED
  BY <1>2 DEF TimeInit, ServiceInv, TimerKnown, NotAsked, Winding, Answered

(* What schedule_timer leaves. *)
LEMMA Scheduled ==
  ASSUME TimeTypeOK, TimerKnown, Schedule
  PROVE  /\ ~overwritten' => timers' \subseteq {timer_id'}
         /\ closed => timers' = {}
         /\ timers' \subseteq Timers /\ timer_id' \in Timers \union {NoTimer}
         /\ overwritten' \in BOOLEAN
BY DEF TimeTypeOK, TimerKnown, Schedule

(* Every command and every step of either thread keeps the types.           *)
LEMMA TimeTypeStep ==
  TimeTypeOK /\ TimerKnown /\ [TimeNext]_timeVars => TimeTypeOK'
<1> SUFFICES ASSUME TimeTypeOK, TimerKnown, [TimeNext]_timeVars PROVE TimeTypeOK'
  OBVIOUS
<1> USE DEF TimeTypeOK
<1>1. CASE init
  <2>1. commands' \in Nat
    BY <1>1 DEF init, Types
  <2> QED
    BY <1>1, <2>1, Zenon DEF init, Types
<1>2. CASE fini
  <2>1. commands' \in Nat
    BY <1>2 DEF fini, Types
  <2>2. /\ made' \in BOOLEAN /\ closed' \in BOOLEAN /\ registered' \in BOOLEAN
        /\ freed' \in BOOLEAN /\ ui' \in {"fini", "gone"}
    BY <1>2, Zenon DEF fini, Crash
  <2>3. CASE ~made
    BY <1>2, <2>1, <2>2, <2>3, Zenon DEF fini, Crash
  <2>4. CASE made
    <3>1. /\ canceled_' = TRUE /\ hopeless' = (svc \in {"none", "exiting"})
          /\ UNCHANGED <<svc, ending, timers, timer_id, overwritten>>
      BY <1>2, <2>4, Zenon DEF fini
    <3>2. canceled_' \in BOOLEAN /\ hopeless' \in BOOLEAN
      BY <3>1, SMT
    <3>3. ui' \in {"prompt", "fini", "check", "sleepy", "wait", "woken", "gone"}
      BY <2>2, SMT
    <3> QED
      BY <2>1, <2>2, <3>1, <3>2, <3>3, Zenon
  <2> QED
    BY <2>3, <2>4
<1>3. CASE suspend
  BY <1>3 DEF suspend, Types, Crash
<1>4. CASE resume
  BY <1>4, Scheduled DEF resume, Types, Crash
<1>5. CASE quit \/ EndLoop \/ Check \/ Wait
  <2>1. CASE quit
    BY <2>1 DEF quit
  <2>2. CASE EndLoop
    BY <2>2 DEF EndLoop
  <2>3. CASE Check
    BY <2>3 DEF Check
  <2>4. CASE Wait
    BY <2>4 DEF Wait
  <2> QED
    BY <1>5, <2>1, <2>2, <2>3, <2>4
<1>6. CASE SvcSchedule
  BY <1>6, Scheduled DEF SvcSchedule
<1>7. CASE Timeout \/ SessionOver \/ LoopEnds \/ CancelTimer \/ ResetLoop \/ Uncancel
  BY <1>7 DEF Timeout, SessionOver, LoopEnds, CancelTimer, ResetLoop, Uncancel
<1>8. CASE Signal \/ Exit \/ UseFreed
  BY <1>8 DEF Signal, Exit, UseFreed
<1>9. CASE client_handle_signal
  BY <1>9 DEF client_handle_signal
<1>10. CASE UNCHANGED timeVars
  BY <1>10 DEF timeVars
<1> QED
  BY <1>1, <1>2, <1>3, <1>4, <1>5, <1>6, <1>7, <1>8, <1>9, <1>10
     DEF TimeNext, UserThread, Commands, svcSteps

LEMMA ServiceStep ==
  ServiceInv /\ [TimeNext]_timeVars => ServiceInv'
<1> SUFFICES ASSUME ServiceInv, [TimeNext]_timeVars PROVE ServiceInv'
  OBVIOUS
<1> USE DEF ServiceInv, TimeTypeOK, NotAsked, Winding, Answered
<1>0. TimerKnown /\ TimeTypeOK'
  BY TimeTypeStep
<1>1. CASE init
  BY <1>0, <1>1 DEF init, Types, TimerKnown
<1>2. CASE fini
  BY <1>0, <1>2 DEF fini, Types, Crash, TimerKnown
<1>3. CASE suspend
  BY <1>0, <1>3 DEF suspend, Types, Crash, TimerKnown
<1>4. CASE resume
  <2>1. CASE Crash
    BY <1>0, <1>4, <2>1 DEF resume, Types, Crash, TimerKnown
  <2>2. CASE ~Crash
    <3>1. Schedule /\ UNCHANGED <<made, closed, freed, ui, canceled_, svc, ending, hopeless>> /\ ui = "prompt"
      BY <1>4, <2>2 DEF resume, Types
    <3>2. TimerKnown'
      BY <1>0, <3>1, Scheduled DEF TimerKnown
    <3> QED
      BY <1>0, <3>1, <3>2
  <2> QED
    BY <2>1, <2>2
<1>5. CASE quit
  BY <1>0, <1>5 DEF quit, TimerKnown
<1>6. CASE EndLoop
  BY <1>0, <1>6 DEF EndLoop, TimerKnown
<1>7. CASE Check
  BY <1>0, <1>7 DEF Check, TimerKnown
<1>8. CASE Wait
  BY <1>0, <1>8 DEF Wait, TimerKnown
<1>9. CASE SvcSchedule
  <2>1. Schedule /\ UNCHANGED <<ui, made, canceled_, ending, closed, freed, commands, hopeless>>
        /\ svc = "start" /\ svc' = "loop"
    BY <1>9 DEF SvcSchedule, Runs
  <2>2. TimerKnown'
    BY <1>0, <2>1, Scheduled DEF TimerKnown
  <2> QED
    BY <1>0, <2>1, <2>2
<1>10. CASE Timeout \/ SessionOver
  BY <1>0, <1>10 DEF Timeout, SessionOver, Runs, TimerKnown
<1>11. CASE LoopEnds
  BY <1>0, <1>11 DEF LoopEnds, Runs, TimerKnown
<1>12. CASE CancelTimer
  BY <1>0, <1>12 DEF CancelTimer, Runs, TimerKnown
<1>13. CASE ResetLoop
  BY <1>0, <1>13 DEF ResetLoop, Runs, TimerKnown
<1>14. CASE Uncancel
  BY <1>0, <1>14 DEF Uncancel, Runs, TimerKnown
<1>15. CASE Signal
  BY <1>0, <1>15 DEF Signal, Runs, TimerKnown
<1>16. CASE Exit \/ UseFreed
  BY <1>0, <1>16 DEF Exit, UseFreed, Runs, TimerKnown
<1>17. CASE client_handle_signal
  BY <1>0, <1>17 DEF client_handle_signal, TimerKnown
<1>18. CASE UNCHANGED timeVars
  BY <1>0, <1>18 DEF timeVars, TimerKnown
<1> QED
  BY <1>1, <1>2, <1>3, <1>4, <1>5, <1>6, <1>7, <1>8, <1>9, <1>10, <1>11, <1>12, <1>13, <1>14,
     <1>15, <1>16, <1>17, <1>18 DEF TimeNext, UserThread, Commands, svcSteps

LEMMA ServiceInvariant ==
  TimeSpec => []ServiceInv
<1> QED
  BY ServiceInit, ServiceStep, PTL DEF TimeSpec

(* TimeTypeOK (TimeService): whatever is typed, fired or signalled, every   *)
(* variable of the service keeps its type.                                  *)
THEOREM TypeCorrect ==
  TimeSpec => []TimeTypeOK
<1>1. ServiceInv => TimeTypeOK
  BY DEF ServiceInv
<1> QED
  BY <1>1, ServiceInvariant, PTL

(* ServiceQuiet (TimeService): when fini returns, the timer that svc set    *)
(* before its loop, or a resume since, is cancelled, whatever was typed,    *)
(* fired or signalled in between, unless its id was written over.           *)
THEOREM FiniLeavesNoTimer ==
  TimeSpec => ServiceQuiet
<1>1. ServiceInv /\ Check /\ ui' = "prompt" /\ ~overwritten => timers = {}
  BY DEF ServiceInv, TimerKnown, Answered, Check, TimeTypeOK
<1>2. ServiceInv /\ [TimeNext]_timeVars => [Check /\ ui' = "prompt" /\ ~overwritten => timers = {}]_timeVars
  BY <1>1
<1> QED
  BY <1>2, ServiceInvariant, PTL DEF TimeSpec, ServiceQuiet

=============================================================================
