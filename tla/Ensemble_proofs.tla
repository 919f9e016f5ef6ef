-------------------------- MODULE Ensemble_proofs --------------------------
(***************************************************************************)
(* What holds of lab2's theatre for every number of players hired, every   *)
(* script, and whatever parsing has left of the titles: nobody speaks in a *)
(* fragment that is short of players, and when the director is gone every  *)
(* line has been spoken, unless a thread has been inside a race window.    *)
(*                                                                         *)
(* Outside the race windows the steps of lab2's players are those of       *)
(* lab3's (PlayStage), so what PlayStage_proofs says of a team holds of    *)
(* lab2's too, until a play without titles is left after its first         *)
(* fragment.                                                               *)
(***************************************************************************)
EXTENDS Ensemble, PlayStage_proofs

(* Where a player is that has been counted through the barrier. *)
Past == {"exit"} \union Through

(* The line n of scene s has been spoken. *)
Said(s, n) == \E i \in DOMAIN recited : recited[i].scene = s /\ recited[i].line = n

(* The director hires before it starts, and only whoever is hired moves.    *)
Booked ==
  /\ hired \in 0 .. N /\ titles \in {0, Scenes}
  /\ ending \in {"no", "joining", "gone"}

OnlyHiredMove == \A p \in Player : p \notin Hired => pc[p] = "start_working"

(* Whoever is through an open barrier has got there with the whole cast.    *)
WholeCastHired ==
  not_ready_players_num = 0 /\ At(Past) # {} => K <= hired

SpokenByWholeCast == \A i \in DOMAIN recited : CastSize(recited[i].scene) <= hired

(* The play has said every line up to the place where it stands.            *)
SaidSoFar == \A n \in 1 .. line_counter - 1 : Said(scene_fragment_counter, n)
SaidBefore ==
  \A s \in Scene : s < scene_fragment_counter => \A n \in Audience!LinesIn(s) : Said(s, n)

(* Without titles the first fragment is the last one.                       *)
FirstOnly == titles = 0 => scene_fragment_counter = 0 /\ At(SettingUp) = {}

(* The stage is one of PlayStage that nobody interrupts. *)
Staged ==
  /\ TeamInv /\ ~Interrupted /\ FirstOnly /\ OnlyHiredMove
  /\ ending # "no" => finished
  /\ WholeCastHired /\ SaidSoFar /\ SaidBefore

(* A play without titles after its first fragment: nobody is called, and    *)
(* nobody is told that it is over.                                          *)
Abandoned ==
  /\ pc \in [Player -> Idle]
  /\ ~finished /\ needed_player_num = 0 /\ ending = "no"
  /\ dpc \in {"start_notify", "idle"}

EnsembleInv == Booked /\ (raced \/ (SpokenByWholeCast /\ (Staged \/ Abandoned)))

-----------------------------------------------------------------------------
USE DEF setup, counters, member, offstage

LEMMA EngageInv == Engage => EnsembleInv
<1> SUFFICES ASSUME Engage PROVE EnsembleInv
  OBVIOUS
<1>1. Init /\ ending = "no"
  BY DEF Engage
<1>2. PICK b \in Bookings : titles = b.titles /\ hired \in Hires(b) \union HiresOverride
  BY DEF Engage
<1>3. b.titles \in {0, Scenes} /\ b.most \in 0 .. N
  BY <1>2, EnsembleAssumption
<1>4. hired \in 0 .. N
  <2>1. CASE hired \in HiresOverride
    BY <2>1, PlayStageAssumption DEF HiresOverride
  <2>2. CASE hired \in Hires(b)
    BY <1>3, <2>2, PlayStageAssumption DEF Hires
  <2> QED
    BY <1>2, <2>1, <2>2
<1>5. Booked
  BY <1>1, <1>2, <1>3, <1>4 DEF Booked
<1>6. TeamInv
  BY <1>1, TeamInit
<1>7. /\ \A p \in Player : pc[p] = "start_working"
      /\ dpc = "start_needed" /\ recited = <<>> /\ scene_fragment_counter = 0 /\ line_counter = 1
  BY <1>1 DEF Init
<1>8. At(Past) = {} /\ At(SettingUp) = {}
  BY <1>7 DEF At, Past, Through, Acting, SettingUp
<1>9. Staged /\ SpokenByWholeCast
  BY <1>1, <1>6, <1>7, <1>8 DEF Staged, Interrupted, FirstOnly, OnlyHiredMove, WholeCastHired,
     SaidSoFar, SaidBefore, SpokenByWholeCast, Scene
<1> QED
  BY <1>5, <1>9 DEF EnsembleInv

(* A race is never forgotten. *)
LEMMA RacedStays ==
  ASSUME [EnsembleNext]_ensembleVars, raced
  PROVE  raced'
<1>1. Watch \/ UNCHANGED raced
  BY DEF EnsembleNext, ensembleVars, vars, MemberStep, Recruited, Leading, Entering, OnStage,
     Leaving, start_working, StartWorking, wait_for_recruited, WaitForRecruited, BlockNeeded,
     is_leader, IsLeader, assign_work_to_follower, cue, AssignWork, read, Read, enter, Enter,
     EnterStore, EnterThrows, enter_barrier, Barrier, BarrierOpens, act, recite, exit,
     exit_next_scene, SetNeeded, ClearLeader, SetNotReady, NotifyOne, exit_wake_all, SendStopped,
     MainStep, start, StartNeeded, StartReady, StartNotify, Ending, AwaitFinished, JoinPlayers
<1> QED
  BY <1>1 DEF Watch

(* While the team is at work nobody has finished the play. *)
LEMMA WorkIsUnfinished ==
  ASSUME Calm, ~Interrupted, NEW p \in Player, pc[p] \in Acting \union {"exit"}
  PROVE  Performing /\ scene_fragment_counter < Scenes /\ ~finished
<1>1. Performing
  BY WhichPhase
<1>2. scene_fragment_counter # Scenes
  BY <1>1, PlayStageAssumption DEF Performing, Scenes
<1> QED
  BY <1>1, <1>2 DEF Performing, Calm, Running

(* A step that stays on lab3's stage. *)
LEMMA StepOnStage ==
  ASSUME Booked, Staged, ~raced, NEW p \in Player, MemberStep(p)
  PROVE  \/ PlayerStep(p) /\ ~(titles = 0 /\ Exit(p) /\ on_stage_member_num = 1)
         \/ exit(p) /\ titles = 0 /\ on_stage_member_num = 1
<1> USE DEF Staged, TeamInv
<1>1. CASE start_working(p) \/ wait_for_recruited(p) \/ is_leader(p) \/ assign_work_to_follower(p)
           \/ read(p) \/ enter(p) \/ enter_barrier(p) \/ exit_next_scene(p) \/ exit_wake_all(p)
  <2>1. PlayerStep(p)
    BY <1>1 DEF start_working, wait_for_recruited, is_leader, assign_work_to_follower, cue, read,
       enter, enter_barrier, exit_next_scene, exit_wake_all, PlayerStep
  <2>2. pc[p] # "exit"
    BY <1>1 DEF start_working, StartWorking, wait_for_recruited, WaitForRecruited, BlockNeeded,
       is_leader, IsLeader, assign_work_to_follower, cue, AssignWork, read, Read, enter, Enter,
       EnterStore, EnterThrows, enter_barrier, Barrier, BarrierOpens, exit_next_scene, SetNeeded,
       ClearLeader, SetNotReady, NotifyOne, exit_wake_all, SendStopped
  <2> QED
    BY <2>1, <2>2 DEF Exit
<1>2. CASE act(p)
  <2>1. pc[p] = "act"
    BY <1>2 DEF act
  <2>2. ~finished
    BY <2>1, WorkIsUnfinished DEF Acting
  <2>3. Act(p)
    BY <1>2, <2>2 DEF act, Act
  <2> QED
    BY <2>1, <2>3 DEF PlayerStep, Exit
<1>3. CASE recite(p)
  <2>1. pc[p] \in {"recite", "woken_recite"}
    BY <1>3 DEF recite
  <2>2. ~finished
    BY <2>1, WorkIsUnfinished DEF Acting
  <2>3. Recite(p) \/ ReciteWoken(p)
    BY <1>3, <2>2 DEF recite, Recite, ReciteWoken, Sleep
  <2> QED
    BY <2>1, <2>3 DEF PlayerStep, Exit
<1>4. CASE exit(p) /\ ~(titles = 0 /\ on_stage_member_num = 1)
  <2>1. pc[p] = "exit"
    BY <1>4 DEF exit
  <2>2. scene_fragment_counter \in Nat /\ Scenes \in Nat /\ on_stage_member_num \in Nat
        /\ scene_fragment_counter < Scenes
    BY <2>1, WorkIsUnfinished, PlayStageAssumption DEF TypeInv, TypeOK, Scenes
  <2>3. CASE on_stage_member_num # 1
    BY <1>4, <2>2, <2>3 DEF exit, Exit, PlayerStep
  <2>4. CASE on_stage_member_num = 1
    <3>1. titles = Scenes
      BY <1>4, <2>4 DEF Booked
    <3>2. AfterScene = (IF Ends THEN "send_stopped"
                        ELSE IF scene_fragment_counter < titles THEN "set_needed"
                        ELSE "start_working")
      BY <2>2, <3>1 DEF AfterScene, Ends
    <3>3. Ends <=> scene_fragment_counter + 1 = Scenes
      BY <3>1 DEF Ends
    <3>4. Exit(p)
      BY <1>4, <2>4, <3>2, <3>3 DEF exit, Exit, LastOnStage, NextScene
    <3> QED
      BY <1>4, <2>4, <3>4 DEF PlayerStep
  <2> QED
    BY <2>3, <2>4
<1> QED
  BY <1>1, <1>2, <1>3, <1>4 DEF MemberStep, Recruited, Leading, Entering, OnStage, Leaving

-----------------------------------------------------------------------------
(* The play without titles after its first fragment. *)

(* The last one of the team leaves, and nobody is told what to do next.     *)
LEMMA PlayIsAbandoned ==
  ASSUME Booked, Staged, ~raced, NEW p \in Player, exit(p), titles = 0, on_stage_member_num = 1
  PROVE  Abandoned' /\ UNCHANGED recited
<1> USE DEF Staged, TeamInv
<1>1. pc[p] = "exit" /\ ExitFree /\ Calm
  BY DEF exit
<1>2. /\ \A q \in Player : pc[q] \notin Member \union SettingUp
      /\ \A q \in Player \ {p} : pc[q] # "exit"
  BY <1>1, LastOneLeaves
<1>3. Performing /\ ~finished
  BY <1>1, WorkIsUnfinished
<1>4. scene_fragment_counter = 0 /\ ~Ends
  BY DEF FirstOnly, Ends
<1>5. /\ pc' = [pc EXCEPT ![p] = "start_working"] /\ ~finished'
      /\ UNCHANGED <<needed_player_num, dpc, ending, recited>>
  <2>1. /\ finished' = (finished \/ Ends)
        /\ Goto(p, IF Ends THEN "send_stopped"
                   ELSE IF scene_fragment_counter < titles THEN "set_needed"
                   ELSE "start_working")
        /\ UNCHANGED <<needed_player_num, dpc, ending, recited>>
    BY DEF exit
  <2>2. ~(scene_fragment_counter < titles)
    BY <1>4
  <2> QED
    BY <1>3, <1>4, <2>1, <2>2 DEF Goto
<1>6. \A q \in Player \ {p} : pc[q] \in Idle
  BY <1>1, <1>2 DEF Calm, Running, TypeInv, TypeOK, Locations, Idle, Member, Through, Acting,
     Arriving, SettingUp
<1>7. pc' \in [Player -> Idle]
  BY <1>5, <1>6 DEF TypeInv, TypeOK, Idle
<1>8. dpc \in {"start_notify", "idle"} /\ needed_player_num = 0
  BY <1>1, <1>3 DEF Performing, Interrupted, Calm, Running, TypeInv, TypeOK
<1>9. ending = "no"
  BY <1>3 DEF Booked
<1> QED
  BY <1>3, <1>5, <1>7, <1>8, <1>9 DEF Abandoned

(* From then on the players only look and fall asleep. *)
LEMMA StaysAbandoned ==
  ASSUME Booked, Abandoned, [EnsembleNext]_ensembleVars
  PROVE  Abandoned' /\ UNCHANGED recited
<1>1. CASE UNCHANGED ensembleVars
  BY <1>1 DEF ensembleVars, vars, Abandoned
<1>2. ASSUME NEW p \in Player, MemberStep(p) PROVE Abandoned' /\ UNCHANGED recited
  <2>1. pc[p] \in Idle
    BY DEF Abandoned
  <2>2. start_working(p) \/ wait_for_recruited(p)
    BY <1>2, <2>1 DEF Idle, MemberStep, Recruited, Leading, Entering, OnStage, Leaving, is_leader,
       IsLeader, assign_work_to_follower, cue, AssignWork, read, Read, enter, Enter, EnterStore,
       EnterThrows, enter_barrier, Barrier, BarrierOpens, act, recite, exit, exit_next_scene,
       SetNeeded, ClearLeader, SetNotReady, NotifyOne, exit_wake_all, SendStopped
  <2>3. \E l \in Idle : pc' = [pc EXCEPT ![p] = l]
    BY <2>2 DEF start_working, StartWorking, wait_for_recruited, WaitForRecruited, BlockNeeded,
       Abandoned, Goto, Idle
  <2>4. pc' \in [Player -> Idle]
    BY <2>3 DEF Abandoned
  <2>5. UNCHANGED <<finished, needed_player_num, ending, dpc, recited>>
    BY <2>2 DEF start_working, StartWorking, wait_for_recruited, WaitForRecruited, BlockNeeded,
       Abandoned
  <2> QED
    BY <2>4, <2>5 DEF Abandoned
<1>3. CASE MainStep
  <2>1. StartNotify /\ UNCHANGED offstage
    BY <1>3 DEF MainStep, start, StartNeeded, StartReady, Ending, AwaitFinished, JoinPlayers,
       Abandoned
  <2>2. pc' \in [Player -> Idle]
    <3>1. CASE pc' = pc
      BY <3>1 DEF Abandoned
    <3>2. ASSUME NEW q \in Player, pc' = [pc EXCEPT ![q] = "wait_for_recruited"]
          PROVE  pc' \in [Player -> Idle]
      BY <3>2 DEF Abandoned, Idle
    <3> QED
      BY <2>1, <3>1, <3>2 DEF StartNotify, WakeOneNeeded
  <2> QED
    BY <2>1, <2>2 DEF StartNotify, Abandoned
<1> QED
  BY <1>1, <1>2, <1>3, PlayStageAssumption DEF EnsembleNext, Hired, Player, Booked

-----------------------------------------------------------------------------
(* A step of a player that is one of lab3's, before and after which nobody  *)
(* has been inside a race window; and one of the director.                  *)
PlaysOn(p) ==
  /\ Booked /\ Staged /\ ~raced /\ ~raced'
  /\ p \in Hired /\ PlayerStep(p) /\ UNCHANGED offstage
  /\ ~(titles = 0 /\ Exit(p) /\ on_stage_member_num = 1)

Starts ==
  /\ Booked /\ Staged /\ ~raced /\ ~raced'
  /\ StartNeeded \/ StartReady \/ StartNotify
  /\ UNCHANGED offstage

LEMMA OnLab3sStage ==
  ASSUME NEW p \in Player, PlaysOn(p)
  PROVE  /\ StillCalm /\ TeamInv' /\ ~EnterThrows(p) /\ UNCHANGED dpc
         /\ \A q \in Player \ {p} : Awoken(q)
<1>1. StillCalm
  BY DEF PlaysOn, Staged, StillCalm, Next
<1>2. TeamInv' /\ ~EnterThrows(p)
  BY <1>1, TeamStep, CalmBefore, NobodyThrows DEF StillCalm
<1>3. UNCHANGED dpc
  BY <1>2 DEF PlaysOn, PlayerStep, StartWorking, WaitForRecruited, BlockNeeded, IsLeader,
     AssignWork, Read, Enter, EnterStore, Barrier, BarrierOpens, Act, Recite, ReciteWoken, Exit,
     SetNeeded, ClearLeader, SetNotReady, NotifyOne, SendStopped
<1> QED
  BY <1>1, <1>2, <1>3, CalmBefore, OthersOnlyWake DEF PlaysOn

LEMMA DirectorOnLab3sStage ==
  ASSUME Starts
  PROVE  /\ StillCalm /\ TeamInv' /\ ~Interrupted' /\ DirectorStep
         /\ UNCHANGED <<counters, finished, recited>>
<1>1. DirectorStep
  BY DEF Starts, DirectorStep
<1>2. StillCalm
  BY <1>1 DEF Starts, Staged, StillCalm, Next
<1>3. TeamInv'
  BY <1>2, TeamStep DEF StillCalm
<1> QED
  BY <1>1, <1>2, <1>3 DEF Starts, StartNeeded, StartReady, StartNotify, Interrupted

LEMMA OthersWait ==
  ASSUME NEW p \in Player, PlaysOn(p)
  PROVE  OnlyHiredMove' /\ ~Interrupted' /\ FirstOnly' /\ (ending' # "no" => finished')
<1> USE OnLab3sStage, CalmBefore
<1>1. OnlyHiredMove'
  BY DEF PlaysOn, Staged, OnlyHiredMove, Hired, Awoken
<1>2. ~Interrupted'
  BY DEF PlaysOn, Staged, Interrupted
<1>3. CASE Exit(p)
  <2>1. ending = "no"
    BY <1>3, WorkIsUnfinished DEF PlaysOn, Staged, Booked, Exit
  <2>2. ASSUME titles = 0 PROVE UNCHANGED scene_fragment_counter /\ pc'[p] = "start_working"
    BY <1>3, <2>2 DEF PlaysOn, Exit, LastOnStage, Goto, TypeInv, TypeOK
  <2>3. FirstOnly'
    BY <2>2 DEF PlaysOn, Staged, FirstOnly, At, Awoken, SettingUp
  <2> QED
    BY <1>1, <1>2, <2>1, <2>3 DEF PlaysOn
<1>4. CASE ~Exit(p)
  <2>1. UNCHANGED <<scene_fragment_counter, finished>>
        /\ (pc'[p] \in SettingUp => pc[p] \in SettingUp)
    BY <1>4 DEF PlaysOn, PlayerStep, TypeInv, TypeOK, SettingUp, Goto, StartWorking,
       WaitForRecruited, BlockNeeded, IsLeader, AssignWork, Read, Enter, EnterStore, Barrier,
       BarrierOpens, Act, Recite, ReciteWoken, Deliver, Skip, GiveUp, Sleep, SetNeeded,
       ClearLeader, SetNotReady, NotifyOne, WakeOneNeeded, SendStopped, WakeNeeded, WakeRecite,
       Woken
  <2>2. FirstOnly'
    BY <2>1 DEF PlaysOn, Staged, FirstOnly, At, Awoken, SettingUp
  <2> QED
    BY <1>1, <1>2, <2>1, <2>2 DEF PlaysOn, Staged
<1> QED
  BY <1>3, <1>4

(* The last one to come to the barrier opens it for the whole cast, all of  *)
(* whom are hired.                                                          *)
LEMMA BarrierOpensForAll ==
  ASSUME NEW p \in Player, PlaysOn(p), Barrier(p), not_ready_players_num' = 0
  PROVE  K' <= hired'
<1> USE OnLab3sStage, CalmBefore
<1>1. pc[p] = "barrier" /\ not_ready_players_num' = Dec(not_ready_players_num)
      /\ UNCHANGED scene_fragment_counter /\ pc'[p] = "act"
  BY DEF Barrier, Goto, TypeInv, TypeOK
<1>2. Assembling
  BY <1>1, WhichPhase DEF Arriving
<1>3. ~BarrierUnset /\ ~BarrierLost
  BY <1>1 DEF BarrierUnset, BarrierLost, At, PlaysOn, Staged, Interrupted
<1>4. not_ready_players_num = K - Count(Through) /\ not_ready_players_num > 0
  BY <1>2, <1>3 DEF Assembling, BarrierSet
<1>5. K \in Nat /\ Count(Through) \in Nat
  BY <1>2, CastType, CountType DEF Assembling
<1>6. Count(Through)' = Count(Through) + 1
  BY <1>1, OneMoves DEF PlaysOn, Tally, Through, Acting
<1>7. K' = K /\ Count(Through)' = K
  BY <1>1, <1>4, <1>5, <1>6 DEF Dec, K, CastSize
<1>8. At(Through)' \subseteq 1 .. hired /\ hired \in 0 .. N
  BY OthersWait DEF PlaysOn, OnlyHiredMove, At, Hired, Through, Acting, Booked
<1>9. Count(Through)' <= hired
  <2>1. IsFiniteSet(1 .. hired) /\ Cardinality(1 .. hired) = hired
    BY <1>8, FS_Interval, PlayStageAssumption
  <2> QED
    BY <1>8, <2>1, FS_Subset DEF Count
<1> QED
  BY <1>7, <1>9 DEF PlaysOn

LEMMA WholeCastStep ==
  ASSUME NEW p \in Player, PlaysOn(p)
  PROVE  WholeCastHired'
<1> USE OnLab3sStage, CalmBefore
<1>0. /\ WholeCastHired /\ UNCHANGED hired
      /\ \A q \in Player \ {p} : pc'[q] \in Past <=> pc[q] \in Past
  BY DEF PlaysOn, Staged, Awoken, Past, Through, Acting
<1>1. CASE Barrier(p)
  BY <1>1, BarrierOpensForAll DEF WholeCastHired
<1>2. CASE SetNotReady(p)
  <2>1. not_ready_players_num' = K /\ scene_fragment_counter < Scenes
    BY <1>2 DEF SetNotReady, K, TypeInv, SceneExists
  <2>2. K # 0
    BY <2>1, CastType
  <2> QED
    BY <2>1, <2>2 DEF WholeCastHired
<1>3. CASE Exit(p) /\ on_stage_member_num <= 1
  <2>1. /\ \A q \in Player : pc[q] \notin Member
        /\ \A q \in Player \ {p} : pc[q] # "exit"
    BY <1>3, LastOneLeaves DEF Exit
  <2>2. pc'[p] \notin Past
    BY <1>3 DEF Exit, LastOnStage, AfterScene, Goto, Past, Through, Acting, TypeInv, TypeOK
  <2>3. At(Past)' = {}
    BY <1>0, <2>1, <2>2 DEF At, Past, Member
  <2> QED
    BY <2>3 DEF WholeCastHired
<1>4. CASE ~Barrier(p) /\ ~SetNotReady(p) /\ ~(Exit(p) /\ on_stage_member_num <= 1)
  <2>1. UNCHANGED <<not_ready_players_num, scene_fragment_counter>>
        /\ (pc'[p] \in Past => pc[p] \in Past)
    <3> USE DEF Goto, TypeInv, TypeOK, Past, Through, Acting
    <3>1. CASE StartWorking(p) \/ WaitForRecruited(p) \/ BlockNeeded(p) \/ IsLeader(p)
               \/ AssignWork(p) \/ Read(p) \/ Enter(p) \/ EnterStore(p)
      BY <3>1 DEF StartWorking, WaitForRecruited, BlockNeeded, IsLeader, WakeNeeded, Woken,
         AssignWork, Read, Enter, EnterStore
    <3>2. CASE BarrierOpens(p) \/ Act(p) \/ Recite(p) \/ ReciteWoken(p)
      BY <3>2 DEF BarrierOpens, Act, Recite, ReciteWoken
    <3>3. CASE Exit(p)
      BY <1>4, <3>3 DEF Exit, LastOnStage
    <3>4. CASE SetNeeded(p) \/ ClearLeader(p) \/ NotifyOne(p) \/ SendStopped(p)
      BY <3>4 DEF SetNeeded, ClearLeader, NotifyOne, WakeOneNeeded, SendStopped, WakeNeeded, Woken
    <3> QED
      BY <1>4, <3>1, <3>2, <3>3, <3>4 DEF PlaysOn, PlayerStep
  <2>2. K' = K /\ (At(Past)' # {} => At(Past) # {})
    BY <1>0, <2>1 DEF At, K, CastSize
  <2> QED
    BY <1>0, <2>1, <2>2 DEF WholeCastHired
<1> QED
  BY <1>1, <1>2, <1>3, <1>4

-----------------------------------------------------------------------------
(* What has been said.  A line that is spoken is spoken for good.           *)
LEMMA DeliveredIsSaid ==
  ASSUME TypeInv, NEW p \in Player, Deliver(p)
  PROVE  /\ \A s, n : (s = scene_fragment_counter /\ n = line_counter) \/ Said(s, n) => Said(s, n)'
         /\ \A i \in DOMAIN recited' : \/ i \in DOMAIN recited /\ recited'[i] = recited[i]
                                       \/ recited'[i].scene = scene_fragment_counter
<1> DEFINE new == [scene |-> scene_fragment_counter, line |-> line_counter,
                   from |-> lines[p].scene]
<1>1. recited \in Seq(Spoken) /\ new \in Spoken /\ recited' = Append(recited, new)
  BY DEF Deliver, Spoken, TypeInv, TypeOK
<1>2. new.scene = scene_fragment_counter /\ new.line = line_counter
  OBVIOUS
<1> HIDE DEF new
<1>3. /\ DOMAIN recited = 1 .. Len(recited) /\ Len(recited) \in Nat
      /\ DOMAIN recited' = 1 .. Len(recited) + 1
      /\ recited'[Len(recited) + 1] = new
      /\ \A i \in 1 .. Len(recited) : recited'[i] = recited[i]
  BY <1>1
<1>4. \A s, n : Said(s, n) => Said(s, n)'
  <2> SUFFICES ASSUME NEW s, NEW n, NEW i \in 1 .. Len(recited),
                      recited[i].scene = s, recited[i].line = n
               PROVE  \E j \in DOMAIN recited' : recited'[j].scene = s /\ recited'[j].line = n
    BY <1>3 DEF Said
  <2> QED
    BY <1>3
<1> QED
  BY <1>2, <1>3, <1>4 DEF Said

LEMMA LineNumbers ==
  ASSUME NEW s, NEW n \in Audience!LinesIn(s)
  PROVE  n \in Nat \ {0}
<1>1. PICK c \in 1 .. Len(Script[s + 1]) :
        \E k \in 1 .. Len(Script[s + 1][c]) : n = Script[s + 1][c][k]
  BY DEF Audience!LinesIn
<1>2. Script[s + 1][c] \in Seq(Nat \ {0})
  <2>1. s + 1 \in 1 .. Len(Script)
    BY DEF Audience!LinesIn
  <2>2. Script[s + 1] \in Seq(Seq(Nat \ {0}))
    BY <2>1, PlayStageAssumption
  <2> QED
    BY <2>2
<1> QED
  BY <1>1, <1>2

(* Everything up to the place where the play stands has been said, and by   *)
(* the whole cast.                                                          *)
LEMMA SaidStep ==
  ASSUME NEW p \in Player, PlaysOn(p), SpokenByWholeCast
  PROVE  SpokenByWholeCast' /\ SaidSoFar' /\ SaidBefore'
<1> USE OnLab3sStage, CalmBefore
<1>0. /\ TeamInv /\ ~raced /\ ~Interrupted /\ WholeCastHired /\ SaidSoFar /\ SaidBefore
      /\ UNCHANGED hired
      /\ line_counter \in Nat \ {0} /\ scene_fragment_counter \in Nat
  BY DEF PlaysOn, Staged, TypeInv, TypeOK
<1>1. CASE UNCHANGED recited /\ UNCHANGED counters
  BY <1>0, <1>1 DEF SpokenByWholeCast, SaidSoFar, SaidBefore, Said
<1>2. CASE (Recite(p) \/ ReciteWoken(p)) /\ Deliver(p)
  <2>1. /\ pc[p] \in Acting
        /\ line_counter' = line_counter + 1 /\ UNCHANGED scene_fragment_counter
    BY <1>2 DEF Recite, ReciteWoken, Deliver, Acting
  <2>2. CastSize(scene_fragment_counter) <= hired
    <3>1. Performing /\ At(Past) # {}
      BY <2>1, WhichPhase DEF At, Past, Through
    <3> QED
      BY <1>0, <3>1 DEF WholeCastHired, Performing, K
  <2>3. SpokenByWholeCast'
    <3> SUFFICES ASSUME NEW i \in DOMAIN recited' PROVE CastSize(recited'[i].scene) <= hired
      BY <1>0 DEF SpokenByWholeCast
    <3> QED
      BY <1>2, <2>2, DeliveredIsSaid DEF SpokenByWholeCast
  <2>4. SaidSoFar'
    <3> SUFFICES ASSUME NEW n \in 1 .. line_counter PROVE Said(scene_fragment_counter, n)'
      BY <1>0, <2>1 DEF SaidSoFar
    <3>1. n \in 1 .. line_counter - 1 \/ n = line_counter
      BY <1>0
    <3>2. \A s : s = scene_fragment_counter => Said(s, n)'
      BY <1>0, <1>2, <3>1, DeliveredIsSaid DEF SaidSoFar
    <3> QED
      BY <2>1, <3>2 DEF Said
  <2>5. SaidBefore'
    BY <1>0, <1>2, <2>1, DeliveredIsSaid DEF SaidBefore
  <2> QED
    BY <2>3, <2>4, <2>5
<1>3. CASE Exit(p) /\ on_stage_member_num <= 1 /\ NextScene
  <2>1. /\ scene_fragment_counter' = scene_fragment_counter + 1 /\ line_counter' = 1
        /\ UNCHANGED recited
    BY <1>3 DEF NextScene, Exit
  <2>2. \A n \in Audience!LinesIn(scene_fragment_counter) : n < line_counter
    <3>1. \A q \in Player : pc[q] \notin Member
      BY <1>3, LastOneLeaves DEF Exit
    <3>2. \A q \in Player : ~ready_to_read[q]
      BY <3>1 DEF TeamIsActivated, Calm, Running
    <3> QED
      BY <1>0, <1>3, <3>2, SceneIsComplete
  <2>3. \A n \in Audience!LinesIn(scene_fragment_counter) : Said(scene_fragment_counter, n)
    BY <1>0, <2>2, LineNumbers DEF SaidSoFar
  <2>4. SpokenByWholeCast' /\ SaidSoFar'
    BY <1>0, <2>1 DEF SpokenByWholeCast, SaidSoFar
  <2>5. SaidBefore'
    <3> SUFFICES ASSUME NEW s \in Scene, s < scene_fragment_counter + 1,
                        NEW n \in Audience!LinesIn(s)
                 PROVE  Said(s, n)'
      BY <2>1 DEF SaidBefore
    <3>1. s < scene_fragment_counter \/ s = scene_fragment_counter
      BY <1>0, PlayStageAssumption DEF Scene, Scenes
    <3>2. Said(s, n)
      BY <1>0, <2>3, <3>1 DEF SaidBefore
    <3> QED
      BY <2>1, <3>2 DEF Said
  <2> QED
    BY <2>4, <2>5
<1> QED
  BY <1>1, <1>2, <1>3, AudibleSteps DEF PlaysOn

-----------------------------------------------------------------------------
(* The invariant. *)

LEMMA PlaysOnInv ==
  ASSUME NEW p \in Player, PlaysOn(p), SpokenByWholeCast
  PROVE  EnsembleInv'
<1>1. Booked'
  BY DEF PlaysOn, Booked
<1>2. Staged' /\ SpokenByWholeCast'
  BY OnLab3sStage, OthersWait, WholeCastStep, SaidStep DEF Staged
<1> QED
  BY <1>1, <1>2 DEF EnsembleInv

LEMMA StartsInv ==
  ASSUME Starts, SpokenByWholeCast
  PROVE  EnsembleInv'
<1> USE DirectorOnLab3sStage, CalmBefore
<1>1. Booked' /\ ending' = ending /\ hired' = hired
  BY DEF Starts, Booked
<1>2. \A S : Whole(S) => At(S)' = At(S)
  BY NobodyMoves
<1>3. FirstOnly'
  BY <1>2 DEF Starts, Staged, FirstOnly, Whole, SettingUp
<1>4. OnlyHiredMove'
  BY <1>1, DirectorOnlyWakes DEF Starts, Staged, OnlyHiredMove, Hired, Awoken
<1>5. WholeCastHired'
  <2>1. K' = K /\ At(Past)' = At(Past)
    BY <1>2 DEF K, CastSize, Whole, Past, Through, Acting
  <2>2. CASE StartReady
    <3>1. not_ready_players_num' = K /\ scene_fragment_counter < Scenes
      <4>1. scene_fragment_counter = 0 /\ Scenes > 0
        BY <2>2, PlayStageAssumption DEF StartReady, Calm, Running, Scenes
      <4> QED
        BY <2>2, <4>1 DEF StartReady, K
    <3>2. not_ready_players_num' # 0
      BY <3>1, CastType
    <3> QED
      BY <3>2 DEF WholeCastHired
  <2>3. CASE ~StartReady
    BY <1>1, <2>1, <2>3 DEF Starts, Staged, StartNeeded, StartNotify, WholeCastHired
  <2> QED
    BY <2>2, <2>3
<1>6. SpokenByWholeCast' /\ SaidSoFar' /\ SaidBefore'
  BY <1>1 DEF Starts, Staged, SpokenByWholeCast, SaidSoFar, SaidBefore, Said
<1> QED
  BY <1>1, <1>3, <1>4, <1>5, <1>6 DEF Starts, Staged, EnsembleInv

(* Director::~Director reads finished and joins; it changes nothing on stage. *)
LEMMA EndingInv ==
  ASSUME Booked, Staged, SpokenByWholeCast, Ending \/ UNCHANGED ensembleVars
  PROVE  EnsembleInv'
<1>1. /\ UNCHANGED <<vars, hired, titles>> /\ ending' \in {"no", "joining", "gone"}
      /\ ending' # "no" => finished
  BY DEF Ending, AwaitFinished, JoinPlayers, ensembleVars, Staged, Booked
<1>2. Booked' /\ SpokenByWholeCast'
  BY <1>1 DEF Booked, SpokenByWholeCast, vars
<1>3. TeamInv'
  BY <1>1, TeamStep DEF Staged
<1>4. UNCHANGED <<pc, dpc, counters, not_ready_players_num, recited, finished, raced>>
  BY <1>1 DEF vars
<1>5. Staged'
  BY <1>1, <1>3, <1>4 DEF Staged, Interrupted, FirstOnly, OnlyHiredMove, Hired, WholeCastHired,
     SaidSoFar, SaidBefore, Said, At, K, CastSize
<1> QED
  BY <1>2, <1>5 DEF EnsembleInv

LEMMA MembersStayBooked ==
  ASSUME NEW p \in Player, MemberStep(p)
  PROVE  UNCHANGED offstage
BY DEF MemberStep, Recruited, Leading, Entering, OnStage, Leaving, start_working,
   wait_for_recruited, is_leader, assign_work_to_follower, read, enter, enter_barrier, act, recite,
   exit, exit_next_scene, exit_wake_all

LEMMA BookedStays ==
  ASSUME Booked, [EnsembleNext]_ensembleVars
  PROVE  Booked' /\ UNCHANGED hired
<1>1. UNCHANGED <<hired, titles>> /\ ending' \in {ending, "joining", "gone"}
  <2>1. ASSUME NEW p \in Hired, MemberStep(p) PROVE UNCHANGED offstage
    BY <2>1, MembersStayBooked, PlayStageAssumption DEF Hired, Player, Booked
  <2>2. CASE MainStep
    BY <2>2 DEF MainStep, start, Ending, AwaitFinished, JoinPlayers
  <2> QED
    BY <2>1, <2>2 DEF EnsembleNext, ensembleVars
<1> QED
  BY <1>1 DEF Booked

LEMMA EnsembleStep == EnsembleInv /\ [EnsembleNext]_ensembleVars => EnsembleInv'
<1> SUFFICES ASSUME EnsembleInv, [EnsembleNext]_ensembleVars PROVE EnsembleInv'
  OBVIOUS
<1>1. Booked /\ Booked'
  BY BookedStays DEF EnsembleInv
<1>2. CASE raced
  BY <1>1, <1>2, RacedStays DEF EnsembleInv
<1>3. CASE raced'
  BY <1>1, <1>3 DEF EnsembleInv
<1>4. CASE ~raced /\ Abandoned
  <2>1. Abandoned' /\ UNCHANGED recited /\ UNCHANGED hired
    BY <1>1, <1>4, StaysAbandoned, BookedStays
  <2> QED
    BY <1>1, <1>4, <2>1 DEF EnsembleInv, SpokenByWholeCast
<1>5. CASE ~raced /\ ~raced' /\ Staged
  <2>1. SpokenByWholeCast
    BY <1>5 DEF EnsembleInv
  <2>2. ASSUME NEW p \in Hired, MemberStep(p) PROVE EnsembleInv'
    <3>1. p \in Player
      BY <1>1, PlayStageAssumption DEF Hired, Player, Booked
    <3>2. UNCHANGED offstage
      BY <2>2, <3>1, MembersStayBooked
    <3>3. CASE PlayerStep(p) /\ ~(titles = 0 /\ Exit(p) /\ on_stage_member_num = 1)
      <4>1. PlaysOn(p)
        BY <1>1, <1>5, <3>2, <3>3 DEF PlaysOn
      <4> QED
        BY <2>1, <3>1, <4>1, PlaysOnInv
    <3>4. CASE exit(p) /\ titles = 0 /\ on_stage_member_num = 1
      <4>1. Abandoned' /\ UNCHANGED recited
        BY <1>1, <1>5, <3>1, <3>4, PlayIsAbandoned
      <4> QED
        BY <1>1, <2>1, <3>2, <4>1 DEF EnsembleInv, SpokenByWholeCast
    <3> QED
      BY <1>1, <1>5, <2>2, <3>1, <3>3, <3>4, StepOnStage
  <2>3. CASE start
    BY <1>1, <1>5, <2>1, <2>3, StartsInv DEF Starts, start
  <2>4. CASE Ending \/ UNCHANGED ensembleVars
    BY <1>1, <1>5, <2>1, <2>4, EndingInv
  <2> QED
    BY <2>2, <2>3, <2>4 DEF EnsembleNext, MainStep
<1> QED
  BY <1>2, <1>3, <1>4, <1>5 DEF EnsembleInv

LEMMA EnsembleAlways == EnsembleSpec => []EnsembleInv
  BY EngageInv, EnsembleStep, PTL DEF EnsembleSpec

(* No line of a fragment is spoken unless there is a player for every       *)
(* character of it, however many are hired: with -override, too few only    *)
(* wait for each other (lab2/ReadMe.txt).                                   *)
THEOREM NeverPlayedShort == EnsembleSpec => []NeverShortHanded
<1>1. EnsembleInv => NeverShortHanded
  BY DEF EnsembleInv, SpokenByWholeCast, NeverShortHanded
<1> QED
  BY <1>1, EnsembleAlways, PTL

(* Director::~Director gets through its joins only when every line of the   *)
(* play has been spoken.                                                    *)
THEOREM EverythingIsSpoken == EnsembleSpec => []EveryLineSpoken
<1>1. EnsembleInv => EveryLineSpoken
  <2> SUFFICES ASSUME EnsembleInv, ending = "gone", ~raced,
                      NEW s \in Scene, NEW n \in Audience!LinesIn(s)
               PROVE  Said(s, n)
    BY DEF EveryLineSpoken, Said
  <2>1. Staged /\ finished
    BY DEF EnsembleInv, Abandoned, Staged
  <2>2. scene_fragment_counter = Scenes
    BY <2>1 DEF Staged, TeamInv, Calm, Running
  <2>3. s < scene_fragment_counter
    BY <2>2, PlayStageAssumption DEF Scene, Scenes
  <2> QED
    BY <2>1, <2>3 DEF Staged, SaidBefore
<1> QED
  BY <1>1, EnsembleAlways, PTL
=============================================================================
