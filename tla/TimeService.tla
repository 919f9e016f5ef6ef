---------------------------- MODULE TimeService ----------------------------
(***************************************************************************)
(* The time service of studio 16 (q5).  A user types commands; init makes  *)
(* the client and starts the thread that runs svc: it schedules the        *)
(* client's timer and runs the reactor.  fini asks the reactor to stop and *)
(* waits on a condition variable until svc says that it has, suspend       *)
(* cancels the timer and resume schedules one.  SIGINT, as in Session,     *)
(* stops the reactor too, and closes it.                                   *)
(***************************************************************************)
EXTENDS Integers, FiniteSets

CONSTANTS
  Timers,       \* bound: the ids the timer queue hands out
  MaxCommands,  \* bound: how much the user types
  NoTimer

TimeServiceAssumption == NoTimer \notin Timers /\ MaxCommands \in Nat

VARIABLES
  ui,           \* the user's thread: "prompt", "fini", "check", "wait", "woken", "gone"
  made,         \* init has run: client, mutex and condition exist
  canceled_,
  svc,          \* the thread of svc, or "none": thr_count_ is 1 while there is one
  ending,       \* the reactor was told to end its loop
  closed,       \* the reactor was closed
  registered,   \* a client was registered for SIGINT; svc never takes that back
  freed,        \* the client deleted itself when the closing reactor dropped its timer
  timers,       \* the timers in its queue
  timer_id,     \* the service's own record of its timer
  commands,     \* counts what was typed
  overwritten,  \* history: timer_id lost a timer that was still set
  hopeless      \* history: why the fini now running can never return

timeVars == <<ui, made, canceled_, svc, ending, closed, registered, freed, timers, timer_id,
              commands, overwritten, hopeless>>

TimeInit ==
  /\ ui = "prompt" /\ made = FALSE /\ canceled_ \in BOOLEAN
  /\ svc = "none" /\ ending = FALSE /\ closed = FALSE
  /\ registered = FALSE /\ freed = FALSE
  /\ timers = {} /\ timer_id = NoTimer
  /\ commands = 0 /\ overwritten = FALSE /\ hopeless = FALSE

-----------------------------------------------------------------------------
(* schedule_timer on the reactor; on a closed one it returns -1.            *)
Schedule ==
  IF closed THEN timer_id' = NoTimer /\ UNCHANGED <<timers, overwritten>>
  ELSE \E id \in Timers \ timers :
         /\ timers' = timers \union {id} /\ timer_id' = id
         /\ overwritten' = (overwritten \/ timer_id \in timers)

Types(command) ==
  /\ ui = "prompt" /\ commands < MaxCommands /\ commands' = commands + 1

(* Before the first init every command but init and quit goes through a     *)
(* pointer nobody has set, and suspend and resume call the client also when *)
(* it has deleted itself: that may go well or not.                          *)
Crash == ui' = "gone" /\ UNCHANGED <<canceled_, svc, ending, timers, timer_id, overwritten, hopeless>>

init ==
  /\ Types("init") /\ made' = TRUE
  /\ svc' = IF svc = "none" THEN "start" ELSE svc            \* activate, unless active
  /\ freed' = FALSE
  /\ UNCHANGED <<ui, canceled_, ending, closed, registered, timers, timer_id, overwritten, hopeless>>

fini ==
  /\ Types("fini") /\ UNCHANGED <<made, closed, registered, freed>>
  /\ IF ~made THEN Crash
     ELSE /\ canceled_' = TRUE /\ ui' = "fini"
          /\ hopeless' = (svc \in {"none", "exiting"})
          /\ UNCHANGED <<svc, ending, timers, timer_id, overwritten>>

suspend ==
  /\ Types("suspend") /\ UNCHANGED <<made, closed, registered, freed>>
  /\ \/ (~made \/ freed) /\ Crash
     \/ /\ made /\ timers' = timers \ {timer_id}
          /\ UNCHANGED <<ui, canceled_, svc, ending, timer_id, overwritten, hopeless>>

resume ==
  /\ Types("resume") /\ UNCHANGED <<made, closed, registered, freed>>
  /\ \/ (~made \/ freed) /\ Crash
     \/ made /\ Schedule /\ UNCHANGED <<ui, canceled_, svc, ending, hopeless>>

quit ==
  /\ ui = "prompt" /\ ui' = "gone"
  /\ UNCHANGED <<made, canceled_, svc, ending, closed, registered, freed, timers, timer_id, commands,
                 overwritten, hopeless>>

-----------------------------------------------------------------------------
(* The rest of fini, after canceled_ = 1. *)
(* Mutant: the loop is not told. *)
EndLoop_NotTold ==
  /\ ui = "fini" /\ ui' = "check"
  /\ UNCHANGED <<made, canceled_, svc, ending, closed, registered, freed, timers, timer_id, commands,
                 overwritten, hopeless>>

EndLoop ==
  /\ ui = "fini" /\ ending' = TRUE /\ ui' = "check"
  /\ UNCHANGED <<made, canceled_, svc, closed, registered, freed, timers, timer_id, commands, overwritten, hopeless>>

(* while (canceled_): the test and the wait are two steps for a thread that *)
(* signals without holding the mutex.                                       *)
Check ==
  /\ ui \in {"check", "woken"}
  /\ ui' = IF canceled_ THEN "sleepy" ELSE "prompt"
  /\ UNCHANGED <<made, canceled_, svc, ending, closed, registered, freed, timers, timer_id, commands,
                 overwritten, hopeless>>

Wait ==
  /\ ui = "sleepy" /\ ui' = "wait"
  /\ UNCHANGED <<made, canceled_, svc, ending, closed, registered, freed, timers, timer_id, commands,
                 overwritten, hopeless>>

Commands == init \/ fini \/ suspend \/ resume
UserThread == Commands \/ quit \/ EndLoop \/ Check \/ Wait

-----------------------------------------------------------------------------
(* svc: its process ends with main. *)
Runs(from) == ui # "gone" /\ svc = from

SvcSchedule ==
  /\ Runs("start") /\ Schedule /\ registered' = TRUE /\ svc' = "loop"
  /\ UNCHANGED <<ui, made, canceled_, ending, closed, freed, commands, hopeless>>

(* A timer fires: the client's handle_timeout holds the loop until the      *)
(* server has answered.                                                     *)
Timeout ==
  /\ Runs("loop") /\ ~ending /\ timers # {} /\ svc' = "session"
  /\ UNCHANGED <<ui, made, canceled_, ending, closed, registered, freed, timers, timer_id, commands,
                 overwritten, hopeless>>

SessionOver ==
  /\ Runs("session") /\ svc' = "loop"
  /\ UNCHANGED <<ui, made, canceled_, ending, closed, registered, freed, timers, timer_id, commands,
                 overwritten, hopeless>>

LoopEnds ==
  /\ Runs("loop") /\ (ending \/ closed) /\ svc' = "ended"
  /\ UNCHANGED <<ui, made, canceled_, ending, closed, registered, freed, timers, timer_id, commands,
                 overwritten, hopeless>>

(* Mutant: svc leaves its timer. *)
CancelTimer_Not ==
  /\ Runs("ended") /\ svc' = "cancelled"
  /\ UNCHANGED <<ui, made, canceled_, ending, closed, registered, freed, timers, timer_id, commands,
                 overwritten, hopeless>>

CancelTimer ==
  /\ Runs("ended") /\ timers' = timers \ {timer_id} /\ svc' = "cancelled"
  /\ UNCHANGED <<ui, made, canceled_, ending, closed, registered, freed, timer_id, commands, overwritten, hopeless>>

ResetLoop ==
  /\ Runs("cancelled") /\ ending' = FALSE /\ svc' = "reset"
  /\ UNCHANGED <<ui, made, canceled_, closed, registered, freed, timers, timer_id, commands, overwritten, hopeless>>

Uncancel ==
  /\ Runs("reset") /\ canceled_' = FALSE /\ svc' = "signal"
  /\ UNCHANGED <<ui, made, ending, closed, registered, freed, timers, timer_id, commands, overwritten, hopeless>>

(* The signal is lost on a thread that has tested but does not wait yet, as *)
(* it is on one that set canceled_ again after svc cleared it.              *)
Signal ==
  /\ Runs("signal") /\ svc' = "exiting"
  /\ ui' = IF ui = "wait" THEN "woken" ELSE ui
  /\ hopeless' = (hopeless \/ ui = "sleepy" \/ (ui \in {"fini", "check", "wait"} /\ canceled_))
  /\ UNCHANGED <<made, canceled_, ending, closed, registered, freed, timers, timer_id, commands, overwritten>>

(* The thread counts itself out only after svc has returned. *)
Exit ==
  /\ Runs("exiting") /\ svc' = "none"
  /\ UNCHANGED <<ui, made, canceled_, ending, closed, registered, freed, timers, timer_id, commands,
                 overwritten, hopeless>>

(* The thread itself uses a deleted client, in the handler that the signal  *)
(* found running and to deregister it.                                      *)
UseFreed ==
  /\ freed /\ (Runs("session") \/ Runs("cancelled")) /\ ui' = "gone"
  /\ UNCHANGED <<made, canceled_, svc, ending, closed, registered, freed, timers, timer_id, commands,
                 overwritten, hopeless>>

svcSteps ==
  SvcSchedule \/ Timeout \/ SessionOver \/ LoopEnds \/ CancelTimer \/ ResetLoop
    \/ Uncancel \/ Signal \/ Exit \/ UseFreed

(* SIGINT once svc has registered a client for it, also when that svc has   *)
(* returned (NULL_MASK removes nothing): the loop, or the next one, ends    *)
(* and the reactor is closed, timers and all.                               *)
client_handle_signal ==
  /\ ui # "gone" /\ registered /\ ~closed
  /\ ending' = TRUE /\ closed' = TRUE /\ timers' = {}
  /\ freed' = (timers # {})
  /\ UNCHANGED <<ui, made, canceled_, svc, timer_id, commands, overwritten, hopeless,
                 registered>>

-----------------------------------------------------------------------------
TimeNext == UserThread \/ svcSteps \/ client_handle_signal

(* The two threads run; nobody has to type, and no timer has to fire.       *)
FiniStep == EndLoop \/ Check \/ Wait
SvcRuns  == SvcSchedule \/ SessionOver \/ LoopEnds \/ CancelTimer \/ ResetLoop
              \/ Uncancel \/ Signal \/ Exit

TimeFairness == WF_timeVars(FiniStep) /\ WF_timeVars(SvcRuns)

TimeSpec == TimeInit /\ [][TimeNext]_timeVars /\ TimeFairness

-----------------------------------------------------------------------------
(* Every variable has its type; canceled_ starts as what it happens to be. *)
TimeTypeOK ==
  /\ ui \in {"prompt", "fini", "check", "sleepy", "wait", "woken", "gone"}
  /\ svc \in {"none", "start", "loop", "session", "ended", "cancelled", "reset", "signal", "exiting"}
  /\ made \in BOOLEAN /\ canceled_ \in BOOLEAN /\ ending \in BOOLEAN /\ closed \in BOOLEAN
  /\ registered \in BOOLEAN /\ freed \in BOOLEAN /\ overwritten \in BOOLEAN /\ hopeless \in BOOLEAN
  /\ timers \subseteq Timers /\ timer_id \in Timers \union {NoTimer}
  /\ commands \in Nat

(* fini returns: the loop it ends is the one svc runs, even if svc has not  *)
(* come so far, and svc's answer finds it, unless there was no thread to    *)
(* answer, or the answer came before the question or between the test and   *)
(* the wait (or the program crashed on a client deleted by a SIGINT).       *)
FiniReturns == (ui = "fini") ~> (ui \in {"prompt", "gone"} \/ hopeless)

(* When fini returns the reactor holds no timer of the service, unless a    *)
(* resume (or svc itself, after a resume that came early) has written over  *)
(* the id of one that was still set.                                        *)
ServiceQuiet ==
  [][Check /\ ui' = "prompt" /\ ~overwritten => timers = {}]_timeVars
=============================================================================
