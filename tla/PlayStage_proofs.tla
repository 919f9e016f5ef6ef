-------------------------- MODULE PlayStage_proofs --------------------------
(***************************************************************************)
(* What holds of PlayStage for every number of players, every script and   *)
(* every interruption.  Whatever the races: the types, and the order of    *)
(* what is printed.  As long as no thread has been inside a race window:   *)
(* one leader, nobody on stage before the whole team, every part in the    *)
(* right hands; and from that, that what the audience hears is a           *)
(* performance.                                                            *)
(***************************************************************************)
EXTENDS PlayStage, FiniteSetTheorems, SequenceTheorems, TLAPS

(* The last player of a scene sets up the next one only if there is one;    *)
(* needed and not_ready then count a cast that exists.                      *)
SceneExists ==
  \A p \in Player :
    pc[p] \in {"set_needed", "clear_leader", "set_not_ready"} => scene_fragment_counter < Scenes

TypeInv == TypeOK /\ SceneExists

(* The number of parts of a scene of the script is an unsigned int. *)
LEMMA CastSizeType ==
  ASSUME NEW s \in Scene
  PROVE  CastSize(s) \in 0 .. UIntMax /\ CastSize(s) \in Nat
<1>1. s + 1 \in 1 .. Len(Script)
  BY PlayStageAssumption DEF Scene, Scenes
<1>2. Len(Script[s + 1]) \in 1 .. UIntMax
  BY <1>1, PlayStageAssumption
<1> QED
  BY <1>2, PlayStageAssumption DEF CastSize

(* The parts are handed out by the order of the players, from 1. *)
LEMMA RankType ==
  ASSUME NEW p \in Player
  PROVE  Rank(p) \in Nat
<1>1. IsFiniteSet(Player)
  BY FS_Interval, PlayStageAssumption DEF Player
<1>2. {q \in Player : activated[q] /\ q <= p} \subseteq Player
  OBVIOUS
<1>3. IsFiniteSet({q \in Player : activated[q] /\ q <= p})
  BY <1>1, <1>2, FS_Subset
<1> QED
  BY <1>3, FS_CardinalityType DEF Rank

LEMMA TypeInit == Init => TypeInv
<1> SUFFICES ASSUME Init PROVE TypeInv
  OBVIOUS
<1> USE DEF Init
<1>1. /\ part \in [Player -> [scene: Nat, char: Nat]]
      /\ lines \in [Player -> [scene: Nat, char: Nat]]
  BY DEF NoPart
<1>2. pc \in [Player -> Locations] /\ SceneExists
  BY DEF Locations, SceneExists
<1>3. /\ activated \in [Player -> BOOLEAN] /\ ready_to_read \in [Player -> BOOLEAN]
      /\ has_leader \in BOOLEAN /\ finished \in BOOLEAN /\ raced \in BOOLEAN
  OBVIOUS
<1>4. /\ current_scene_index \in [Player -> Nat]
      /\ it \in [Player -> Nat] /\ tmp \in [Player -> Nat]
  OBVIOUS
<1>5. recited \in Seq(Spoken)
  OBVIOUS
<1> QED
  BY <1>1, <1>2, <1>3, <1>4, <1>5, PlayStageAssumption DEF TypeInv, TypeOK

USE DEF setup, counters, member

(* What the four outcomes of a call of recite leave of the types. *)
LEMMA ReciteTypes ==
  ASSUME TypeInv, NEW p \in Player,
         Deliver(p) \/ Skip(p) \/ GiveUp(p) \/ Sleep(p),
         UNCHANGED scene_fragment_counter
  PROVE  /\ pc' \in [Player -> Locations] /\ SceneExists'
         /\ it' \in [Player -> Nat] /\ line_counter' \in Nat \ {0}
         /\ recited' \in Seq(Spoken)
<1>1. \/ it' = it /\ line_counter' = line_counter /\ recited' = recited
      \/ it' = [it EXCEPT ![p] = @ + 1] /\ line_counter' = line_counter /\ recited' = recited
      \/ /\ it' = [it EXCEPT ![p] = @ + 1] /\ line_counter' = line_counter + 1
         /\ recited' = Append(recited, [scene |-> scene_fragment_counter,
                                        line |-> line_counter, from |-> lines[p].scene])
  BY DEF Deliver, Skip, GiveUp, Sleep
<1>2. it \in [Player -> Nat] /\ line_counter \in Nat \ {0} /\ recited \in Seq(Spoken)
  BY DEF TypeInv, TypeOK
<1>3. it' \in [Player -> Nat]
  <2>1. CASE it' = it
    BY <1>2, <2>1
  <2>2. CASE it' = [it EXCEPT ![p] = @ + 1]
    BY <1>2, <2>2
  <2> QED
    BY <1>1, <2>1, <2>2
<1>4. line_counter' \in Nat \ {0}
  BY <1>1, <1>2
<1>5. recited' \in Seq(Spoken)
  <2>1. [scene |-> scene_fragment_counter, line |-> line_counter, from |-> lines[p].scene]
          \in Spoken
    BY DEF TypeInv, TypeOK, Spoken
  <2>2. CASE recited' = recited
    BY <1>2, <2>2
  <2>3. CASE recited' = Append(recited, [scene |-> scene_fragment_counter,
                                         line |-> line_counter, from |-> lines[p].scene])
    BY <1>2, <2>1, <2>3
  <2> QED
    BY <1>1, <2>2, <2>3
<1>6. pc' \in [Player -> Locations] /\ SceneExists'
  BY DEF Deliver, Skip, GiveUp, Sleep, WakeRecite, WakeNeeded, Woken, Goto, SceneExists,
         Locations, TypeInv, TypeOK
<1> QED
  BY <1>3, <1>4, <1>5, <1>6

(* Every step keeps the types. *)
LEMMA TypeStep == TypeInv /\ [Next]_vars => TypeInv'
<1> SUFFICES ASSUME TypeInv, [Next]_vars PROVE TypeInv'
  OBVIOUS
<1> USE DEF TypeInv
<1> USE DEF TypeOK, SceneExists, Locations, SettingUp, Watch, Goto
<1>1. CASE UNCHANGED vars
  BY <1>1 DEF vars
<1>2. ASSUME NEW p \in Player, PlayerStep(p) PROVE TypeInv'
  <2>1. CASE StartWorking(p)
    BY <2>1 DEF StartWorking
  <2>2. CASE WaitForRecruited(p)
    <3>1. needed_player_num' \in Nat
      BY <2>2 DEF WaitForRecruited
    <3>2. pc' \in [Player -> Locations]
      BY <2>2 DEF WaitForRecruited
    <3>3. activated' \in [Player -> BOOLEAN]
      BY <2>2 DEF WaitForRecruited
    <3>4. SceneExists'
      BY <2>2 DEF WaitForRecruited
    <3> QED
      BY <2>2, <3>1, <3>2, <3>3, <3>4 DEF WaitForRecruited
  <2>3. CASE BlockNeeded(p)
    BY <2>3 DEF BlockNeeded
  <2>4. CASE IsLeader(p)
    BY <2>4 DEF IsLeader, WakeNeeded, Woken
  <2>5. CASE AssignWork(p)
    BY <2>5, RankType DEF AssignWork
  <2>6. CASE Read(p)
    BY <2>6 DEF Read
  <2>7. CASE Enter(p)
    BY <2>7 DEF Enter
  <2>8. CASE EnterStore(p)
    BY <2>8 DEF EnterStore
  <2>9. CASE Barrier(p)
    BY <2>9, PlayStageAssumption DEF Barrier, Dec
  <2>10. CASE BarrierOpens(p)
    BY <2>10 DEF BarrierOpens
  <2>11. CASE Act(p)
    <3>1. pc' \in [Player -> Locations] /\ SceneExists'
      BY <2>11 DEF Act
    <3>2. UNCHANGED member \/ ClearPlayer(p)
      BY <2>11 DEF Act
    <3>3. activated' \in [Player -> BOOLEAN] /\ ready_to_read' \in [Player -> BOOLEAN]
      BY <3>2 DEF ClearPlayer
    <3>4. part' \in [Player -> [scene: Nat, char: Nat]]
      <4>1. NoPart \in [scene: Nat, char: Nat]
        BY DEF NoPart
      <4>2. part' = part \/ part' = [part EXCEPT ![p] = NoPart]
        BY <3>2 DEF ClearPlayer
      <4> QED
        BY <4>1, <4>2
    <3>5. UNCHANGED <<current_scene_index, lines, it, tmp>>
      BY <3>2 DEF ClearPlayer
    <3> QED
      BY <2>11, <3>1, <3>3, <3>4, <3>5 DEF Act
  <2>12. CASE Recite(p)
    BY <2>12, ReciteTypes DEF Recite
  <2>13. CASE ReciteWoken(p)
    BY <2>13, ReciteTypes DEF ReciteWoken
  <2>14. CASE Exit(p)
    <3>1. /\ on_stage_member_num' \in Nat
          /\ scene_fragment_counter' \in Nat /\ line_counter' \in Nat \ {0}
      BY <2>14 DEF Exit, LastOnStage, NextScene
    <3>2. finished' \in BOOLEAN
      BY <2>14 DEF Exit
    <3>3. pc' \in [Player -> Locations]
      BY <2>14 DEF Exit, AfterScene
    <3>4. SceneExists'
      BY <2>14 DEF Exit, ExitFree, NextScene, AfterScene
    <3> QED
      BY <2>14, <3>1, <3>2, <3>3, <3>4 DEF Exit
  <2>15. CASE SetNeeded(p)
    <3>1. scene_fragment_counter \in Scene
      BY <2>15 DEF SetNeeded, Scene, Scenes
    <3> QED
      BY <2>15, <3>1, CastSizeType DEF SetNeeded
  <2>16. CASE ClearLeader(p)
    BY <2>16 DEF ClearLeader
  <2>17. CASE SetNotReady(p)
    <3>1. scene_fragment_counter \in Scene
      BY <2>17 DEF SetNotReady, Scene, Scenes
    <3> QED
      BY <2>17, <3>1, CastSizeType DEF SetNotReady
  <2>18. CASE NotifyOne(p)
    BY <2>18 DEF NotifyOne, WakeOneNeeded
  <2>19. CASE SendStopped(p)
    BY <2>19 DEF SendStopped, WakeNeeded, Woken
  <2>20. CASE EnterThrows(p)
    BY <2>20 DEF EnterThrows
  <2> QED
    BY <1>2, <2>1, <2>2, <2>3, <2>4, <2>5, <2>6, <2>7, <2>8, <2>9, <2>10, <2>11, <2>12,
       <2>13, <2>14, <2>15, <2>16, <2>17, <2>18, <2>19, <2>20 DEF PlayerStep
<1>3. CASE DirectorStep \/ Stop \/ Sigint
  <2>0. 0 \in Scene
    BY PlayStageAssumption DEF Scene, Scenes
  <2>1. CASE StartNeeded
    BY <2>0, <2>1, CastSizeType DEF StartNeeded
  <2>2. CASE StartReady
    BY <2>0, <2>2, CastSizeType DEF StartReady
  <2>3. CASE StartNotify
    BY <2>3 DEF StartNotify, WakeOneNeeded
  <2>4. CASE StopNotify
    BY <2>4 DEF StopNotify, WakeNeeded, Woken
  <2>5. CASE Stop \/ Sigint
    BY <2>5 DEF Stop, Sigint
  <2> QED
    BY <1>3, <2>1, <2>2, <2>3, <2>4, <2>5 DEF DirectorStep
<1> QED
  BY <1>1, <1>2, <1>3 DEF Next

(* In every state of every performance each variable has its type (the      *)
(* unsigned numbers of class Play among them).                              *)
THEOREM TypeCorrect == Spec => []TypeOK
<1>1. TypeInv => TypeOK
  BY DEF TypeInv
<1> QED
  BY <1>1, TypeInit, TypeStep, PTL DEF Spec

-----------------------------------------------------------------------------
(* The order of what is printed.  ScriptOrder is not inductive by itself:   *)
(* it needs that whatever has been printed lies before the counters, which  *)
(* only grow.                                                               *)
Now == [scene |-> scene_fragment_counter, line |-> line_counter]

PastIsBehind == \A i \in 1 .. Len(recited) : Before(recited[i], Now)

OrderInv == TypeInv /\ ScriptOrder /\ PastIsBehind

(* One line more, at the counters, which then move past it. *)
LEMMA PrintedInOrder ==
  ASSUME TypeInv, OrderInv, NEW f \in Nat,
         recited' = Append(recited, [scene |-> scene_fragment_counter, line |-> line_counter,
                                     from |-> f]),
         line_counter' = line_counter + 1,
         scene_fragment_counter' = scene_fragment_counter
  PROVE  ScriptOrder' /\ PastIsBehind'
<1> DEFINE new == [scene |-> scene_fragment_counter, line |-> line_counter, from |-> f]
<1>1. /\ recited \in Seq(Spoken) /\ new \in Spoken
      /\ scene_fragment_counter \in Nat /\ line_counter \in Nat
  BY DEF TypeInv, TypeOK, Spoken
<1>2. /\ Len(recited') = Len(recited) + 1
      /\ \A i \in 1 .. Len(recited) : recited'[i] = recited[i]
      /\ recited'[Len(recited) + 1] = new
      /\ Len(recited) \in Nat
  BY <1>1
<1>3. \A i \in 1 .. Len(recited) : recited[i] \in Spoken /\ Before(recited[i], new)
  BY <1>1 DEF OrderInv, PastIsBehind, Before, Now
<1>4. ASSUME NEW i \in 1 .. Len(recited'), NEW j \in 1 .. Len(recited'), i < j
      PROVE  Before(recited[i], recited'[j])
  <2>1. i \in 1 .. Len(recited)
    BY <1>2, <1>4
  <2>2. CASE j \in 1 .. Len(recited)
    BY <1>2, <1>4, <2>1, <2>2 DEF OrderInv, ScriptOrder
  <2>3. CASE j = Len(recited) + 1
    BY <1>2, <1>3, <2>1, <2>3
  <2> QED
    BY <1>2, <2>2, <2>3
<1>5. ScriptOrder'
  BY <1>2, <1>4 DEF ScriptOrder
<1>6. ASSUME NEW i \in 1 .. Len(recited')
      PROVE  Before(recited'[i], Now')
  <2>1. Now' = [scene |-> scene_fragment_counter, line |-> line_counter + 1]
    BY DEF Now
  <2>2. CASE i \in 1 .. Len(recited)
    <3>1. /\ recited[i].scene \in Nat /\ recited[i].line \in Nat
          /\ Before(recited[i], new)
      BY <1>3, <2>2 DEF Spoken
    <3> QED
      BY <1>1, <1>2, <2>1, <2>2, <3>1 DEF Before
  <2>3. CASE i = Len(recited) + 1
    BY <1>1, <1>2, <2>1, <2>3 DEF Before
  <2> QED
    BY <1>2, <2>2, <2>3
<1>7. PastIsBehind'
  BY <1>6 DEF PastIsBehind
<1> QED
  BY <1>5, <1>7

(* Nothing printed, and the counters where they were or in the next scene. *)
LEMMA NothingPrinted ==
  ASSUME TypeInv, OrderInv, UNCHANGED recited, UNCHANGED counters \/ NextScene
  PROVE  ScriptOrder' /\ PastIsBehind'
<1>1. /\ recited \in Seq(Spoken) /\ scene_fragment_counter \in Nat /\ line_counter \in Nat
  BY DEF TypeInv, TypeOK
<1>2. \A i \in 1 .. Len(recited) : recited[i] \in Spoken
  BY <1>1
<1>3. ScriptOrder'
  BY DEF OrderInv, ScriptOrder, Before
<1>4. CASE UNCHANGED counters
  BY <1>3, <1>4 DEF OrderInv, PastIsBehind, Now
<1>5. CASE NextScene
  <2>1. ASSUME NEW i \in 1 .. Len(recited)
        PROVE  recited[i].scene < scene_fragment_counter + 1
    <3>1. recited[i].scene \in Nat /\ Before(recited[i], Now)
      BY <1>2 DEF Spoken, OrderInv, PastIsBehind
    <3> QED
      BY <1>1, <3>1 DEF Before, Now
  <2>2. Now'.scene = scene_fragment_counter + 1
    BY <1>5 DEF NextScene, Now
  <2>3. PastIsBehind'
    BY <2>1, <2>2 DEF PastIsBehind, Before
  <2> QED
    BY <1>3, <2>3
<1> QED
  BY <1>3, <1>4, <1>5

(* A step prints the line at the counters and moves past it, or prints      *)
(* nothing and leaves them or begins the next scene.                        *)
LEMMA EveryStepPrintsOrNot ==
  ASSUME [Next]_vars
  PROVE  \/ UNCHANGED recited /\ (UNCHANGED counters \/ NextScene)
         \/ \E p \in Player : Deliver(p) /\ UNCHANGED scene_fragment_counter
<1>1. CASE UNCHANGED vars
  BY <1>1 DEF vars
<1>2. ASSUME NEW p \in Player, Recite(p) \/ ReciteWoken(p)
      PROVE  \/ UNCHANGED recited /\ (UNCHANGED counters \/ NextScene)
             \/ \E q \in Player : Deliver(q) /\ UNCHANGED scene_fragment_counter
  BY <1>2 DEF Recite, ReciteWoken, Skip, GiveUp, Sleep
<1>3. ASSUME NEW p \in Player, Exit(p)
      PROVE  UNCHANGED recited /\ (UNCHANGED counters \/ NextScene)
  BY <1>3 DEF Exit
<1>4. ASSUME NEW p \in Player, PlayerStep(p),
             ~Recite(p), ~ReciteWoken(p), ~Exit(p)
      PROVE  UNCHANGED recited /\ UNCHANGED counters
  BY <1>4 DEF PlayerStep, StartWorking, WaitForRecruited, BlockNeeded, IsLeader, AssignWork,
     Read, Enter, EnterThrows, EnterStore, Barrier, BarrierOpens, Act, SetNeeded, ClearLeader,
     SetNotReady, NotifyOne, SendStopped
<1>5. CASE DirectorStep \/ Stop \/ Sigint
  BY <1>5 DEF DirectorStep, StartNeeded, StartReady, StartNotify, StopNotify, Stop, Sigint
<1> QED
  BY <1>1, <1>2, <1>3, <1>4, <1>5 DEF Next

LEMMA OrderStep == OrderInv /\ [Next]_vars => OrderInv'
<1> SUFFICES ASSUME OrderInv, [Next]_vars PROVE OrderInv'
  OBVIOUS
<1>1. TypeInv /\ TypeInv'
  BY TypeStep DEF OrderInv
<1>2. CASE UNCHANGED recited /\ (UNCHANGED counters \/ NextScene)
  BY <1>1, <1>2, NothingPrinted DEF OrderInv
<1>3. ASSUME NEW p \in Player, Deliver(p), UNCHANGED scene_fragment_counter
      PROVE  OrderInv'
  <2>1. lines[p].scene \in Nat
    BY <1>1 DEF TypeInv, TypeOK
  <2> QED
    BY <1>1, <1>3, <2>1, PrintedInOrder DEF Deliver, OrderInv
<1> QED
  BY <1>2, <1>3, EveryStepPrintsOrNot

(* Whatever the races, the stops and the script, lines are printed in the   *)
(* order of scenes and line numbers, and none twice (Play::recite).         *)
THEOREM LinesInOrder == Spec => []ScriptOrder
<1>1. Init => OrderInv
  BY TypeInit DEF Init, OrderInv, ScriptOrder, PastIsBehind
<1>2. OrderInv => ScriptOrder
  BY DEF OrderInv
<1> QED
  BY <1>1, <1>2, OrderStep, PTL DEF Spec

-----------------------------------------------------------------------------
(* The team. *)

(* The players at one of the locations S, and their number. *)
At(S) == {p \in Player : pc[p] \in S}
Count(S) == Cardinality(At(S))

(* Where a player is past the barrier, where on_stage_member_num counts it, *)
(* where it has its part in hand, where it is one of the team.              *)
Through == {"sleep_ready"} \union Acting
Entered == {"barrier", "exit"} \union Through
InHand  == {"enter", "enter_store", "barrier"} \union Through
Member  == Arriving \union Through

K == CastSize(scene_fragment_counter)

-----------------------------------------------------------------------------
(* The inductive invariant.  Two parts of it hold whatever the races. *)

(* Play::exit holds its mutex until the next scene is set up. *)
OneSetter == \A p, q \in At(SettingUp) : p = q

(* Whoever is in the team is activated, and only a member has a part. *)
TeamIsActivated ==
  \A p \in Player : /\ pc[p] \in Member => activated[p]
                    /\ activated[p] => pc[p] \in Member \union {"terminated"}
                    /\ ready_to_read[p] => activated[p]
                    /\ pc[p] \in InHand => ready_to_read[p]

(* The others hold until a thread has been inside a race window.            *)
(* The director starts the first scene, and nobody ends the play but the    *)
(* last scene or an interruption.                                           *)
Running ==
  /\ scene_fragment_counter <= Scenes
  /\ \A p \in Player : pc[p] # "terminated"
  /\ dpc # "terminated"
  /\ dpc \in {"start_needed", "start_ready"} => scene_fragment_counter = 0 /\ At(SettingUp) = {}
  /\ finished => Interrupted \/ scene_fragment_counter = Scenes

(* on_stage_member_num is exact. *)
ExactCount ==
  /\ on_stage_member_num = Count(Entered)
  /\ \A p \in Player : pc[p] = "enter_store" => tmp[p] = on_stage_member_num

(* One leader, who hands out parts to players that have none. *)
Leader ==
  /\ \A p, q \in At({"assign_work"}) : p = q
  /\ At({"assign_work"}) # {} => has_leader
  /\ ~has_leader \/ At({"assign_work"}) # {} => \A p \in Player : ~ready_to_read[p]

(* Between two scenes: the last player is about to set up the next one (or  *)
(* the play is over), and nobody is left of the team.                       *)
Closed ==
  /\ needed_player_num = 0 /\ not_ready_players_num = 0
  /\ At(Member \union {"exit", "clear_leader", "set_not_ready", "notify_one"}) = {}
  /\ dpc # "start_ready"

(* The team assembles; the barrier counts who is still missing.  It is set  *)
(* after needed_player_num, and never if a Ctrl-C takes the reactor away in *)
(* between: the number then wraps around and the barrier stays shut.        *)
BarrierUnset ==
  /\ not_ready_players_num = 0
  /\ At({"barrier"} \union Through) = {}
  /\ dpc = "start_ready" \/ At({"clear_leader", "set_not_ready"}) # {}
  /\ At({"clear_leader"}) # {} => At(Member) = {}

BarrierSet ==
  /\ At({"clear_leader", "set_not_ready"}) = {} /\ dpc # "start_ready"
  /\ not_ready_players_num > 0
  /\ not_ready_players_num = K - Count(Through)

BarrierLost ==
  /\ At({"clear_leader", "set_not_ready"}) = {} /\ dpc = "stopped"
  /\ \/ not_ready_players_num = 0 /\ At(Through) = {}
     \/ /\ At(Through) # {}
        /\ not_ready_players_num = UIntMax + 1 - Count(Through)

Assembling ==
  /\ scene_fragment_counter < Scenes
  /\ needed_player_num + Count(Member) = K
  /\ At(Acting \union {"exit", "set_needed", "send_stopped"}) = {}
  /\ dpc # "start_needed"
  /\ BarrierUnset \/ BarrierSet \/ BarrierLost

(* The whole team is through the barrier. *)
Performing ==
  /\ scene_fragment_counter < Scenes
  /\ needed_player_num = 0 /\ not_ready_players_num = 0
  /\ At(Arriving \union (SettingUp \ {"notify_one"})) = {}
  /\ dpc \notin {"start_needed", "start_ready"}

Phase == Closed \/ Assembling \/ Performing

(* Parts are of the scene in progress ... *)
RightPart ==
  \A p \in Player : ready_to_read[p] =>
    /\ current_scene_index[p] = scene_fragment_counter
    /\ part[p].scene = scene_fragment_counter
    /\ part[p].char \in 1 .. K

(* ... the lines a player goes through are those of its part, and the play  *)
(* is past the ones it has gone through.                                    *)
Place(p) ==
  /\ lines[p] = part[p]
  /\ pc[p] \notin Acting => it[p] = 0
  /\ it[p] <= Len(LinesOf(lines[p]))
  /\ pc[p] \in {"recite", "sleep_recite", "woken_recite"} => it[p] < Len(LinesOf(lines[p]))
  /\ \A n \in 1 .. it[p] : LinesOf(lines[p])[n] < line_counter

RightPlace == \A p \in At(InHand) : Place(p)

RightSoFar == \A i \in 1 .. Len(recited) : recited[i].from = recited[i].scene

(* Every character of the scene has somebody who speaks it or has spoken.   *)
HasSpoken(c) ==
  \A n \in 1 .. Len(Script[scene_fragment_counter + 1][c]) :
    Script[scene_fragment_counter + 1][c][n] < line_counter

EveryPartIsHandedOut ==
  (\E p \in Player : ready_to_read[p]) \/ At({"exit"}) # {} =>
    \A c \in 1 .. K : \/ Interrupted
                      \/ \E p \in Player : ready_to_read[p] /\ part[p].char = c
                      \/ HasSpoken(c)

Calm ==
  /\ ~InRaceWindow
  /\ Running /\ ExactCount /\ Leader /\ Phase
  /\ RightPart /\ RightPlace /\ RightSoFar /\ EveryPartIsHandedOut

TeamInv == TypeInv /\ OneSetter /\ TeamIsActivated /\ (raced \/ Calm)

-----------------------------------------------------------------------------
(* Counting players *)

LEMMA PlayersFinite == IsFiniteSet(Player) /\ Cardinality(Player) = N
  BY FS_Interval, PlayStageAssumption DEF Player

LEMMA CountType ==
  ASSUME NEW S
  PROVE  /\ IsFiniteSet(At(S))
         /\ Count(S) \in Nat /\ Count(S) <= N
         /\ Count(S) = 0 <=> At(S) = {}
<1>1. At(S) \in SUBSET Player
  BY DEF At
<1>2. IsFiniteSet(At(S)) /\ Count(S) <= N
  BY <1>1, PlayersFinite, FS_Subset DEF Count
<1> QED
  BY <1>2, FS_CardinalityType, FS_EmptySet DEF Count

(* Some of T are all of T when they are as many. *)
LEMMA CountAll ==
  ASSUME NEW S, NEW T, S \subseteq T
  PROVE  Count(S) <= Count(T) /\ (Count(S) = Count(T) => At(S) = At(T))
<1>1. At(S) \in SUBSET At(T)
  BY DEF At
<1> QED
  BY <1>1, CountType, FS_Subset DEF Count

(* The same after a step. *)
LEMMA CountNext ==
  ASSUME NEW S, NEW T, S \subseteq T
  PROVE  /\ Count(S)' \in Nat /\ Count(S)' <= N
         /\ Count(S)' <= Count(T)' /\ (Count(S)' = Count(T)' => At(S)' = At(T)')
<1> DEFINE A == {p \in Player : pc'[p] \in S}
           B == {p \in Player : pc'[p] \in T}
<1>1. A \in SUBSET B /\ A \in SUBSET Player /\ B \in SUBSET Player
  OBVIOUS
<1>2. /\ IsFiniteSet(A) /\ IsFiniteSet(B) /\ Cardinality(A) \in Nat /\ Cardinality(A) <= N
      /\ Cardinality(A) <= Cardinality(B) /\ (Cardinality(A) = Cardinality(B) => A = B)
  BY <1>1, PlayersFinite, FS_Subset, FS_CardinalityType
<1> QED
  BY <1>2 DEF Count, At

LEMMA CountOne ==
  ASSUME NEW S, NEW p \in Player, pc[p] \in S, Count(S) = 1
  PROVE  At(S) = {p}
<1>1. p \in At(S) /\ IsFiniteSet(At(S))
  BY CountType DEF At
<1>2. \E x : At(S) = {x}
  BY <1>1, FS_Singleton DEF Count
<1> QED
  BY <1>1, <1>2

(* A step in which only p moves with respect to S. *)
LEMMA CountMoves ==
  ASSUME NEW S, NEW p \in Player,
         \A q \in Player \ {p} : pc'[q] \in S <=> pc[q] \in S
  PROVE  Count(S)' = IF pc'[p] \in S /\ pc[p] \notin S THEN Count(S) + 1
                     ELSE IF pc'[p] \notin S /\ pc[p] \in S THEN Count(S) - 1
                     ELSE Count(S)
<1>1. At(S)' = {q \in Player : pc'[q] \in S}
  BY DEF At
<1>2. IsFiniteSet(At(S)) /\ Count(S)' = Cardinality(At(S)')
  BY CountType DEF Count
<1>3. CASE pc'[p] \in S /\ pc[p] \notin S
  <2>1. At(S)' = At(S) \union {p} /\ p \notin At(S)
    BY <1>1, <1>3 DEF At
  <2> QED
    BY <1>2, <1>3, <2>1, FS_AddElement DEF Count
<1>4. CASE pc'[p] \notin S /\ pc[p] \in S
  <2>1. At(S)' = At(S) \ {p} /\ p \in At(S)
    BY <1>1, <1>4 DEF At
  <2> QED
    BY <1>2, <1>4, <2>1, FS_RemoveElement DEF Count
<1>5. CASE pc'[p] \in S <=> pc[p] \in S
  <2>1. At(S)' = At(S)
    BY <1>1, <1>5 DEF At
  <2> QED
    BY <1>2, <1>5, <2>1 DEF Count
<1> QED
  BY <1>3, <1>4, <1>5

-----------------------------------------------------------------------------
(* What a step does to the others: it wakes sleepers, and nothing else.     *)
Awoken(q) ==
  \/ pc'[q] = pc[q]
  \/ pc[q] = "sleep_needed" /\ pc'[q] = "wait_for_recruited"
  \/ pc[q] = "sleep_recite" /\ pc'[q] = "woken_recite"

LEMMA WakeOneNeededWakes ==
  ASSUME NEW f \in [Player -> Locations], WakeOneNeeded(f)
  PROVE  /\ pc' \in [Player -> Locations]
         /\ \A q \in Player : pc'[q] = f[q] \/ (f[q] = "sleep_needed" /\ pc'[q] = "wait_for_recruited")
<1>1. CASE pc' = f
  BY <1>1
<1>2. ASSUME NEW r \in Player, f[r] = "sleep_needed",
             pc' = [f EXCEPT ![r] = "wait_for_recruited"]
      PROVE  /\ pc' \in [Player -> Locations]
             /\ \A q \in Player :
                  pc'[q] = f[q] \/ (f[q] = "sleep_needed" /\ pc'[q] = "wait_for_recruited")
  BY <1>2 DEF Locations
<1> QED
  BY <1>1, <1>2 DEF WakeOneNeeded

LEMMA OthersOnlyWake ==
  ASSUME TypeInv, NEW p \in Player, PlayerStep(p), ~EnterThrows(p)
  PROVE  \A q \in Player \ {p} : Awoken(q)
<1> USE DEF TypeInv, TypeOK, Goto, Awoken, Woken, WakeNeeded, WakeRecite
<1>1. CASE StartWorking(p) \/ BlockNeeded(p) \/ IsLeader(p) \/ AssignWork(p) \/ Read(p) \/ Enter(p)
  BY <1>1 DEF StartWorking, BlockNeeded, IsLeader, AssignWork, Read, Enter
<1>2. CASE WaitForRecruited(p)
  BY <1>2 DEF WaitForRecruited
<1>3. CASE EnterStore(p) \/ Barrier(p) \/ BarrierOpens(p) \/ Act(p)
  BY <1>3 DEF EnterStore, Barrier, BarrierOpens, Act
<1>4. CASE Recite(p) \/ ReciteWoken(p)
  BY <1>4 DEF Recite, ReciteWoken, Deliver, Skip, GiveUp, Sleep
<1>5. CASE Exit(p)
  BY <1>5 DEF Exit
<1>6. CASE SetNeeded(p) \/ ClearLeader(p) \/ SetNotReady(p) \/ SendStopped(p)
  BY <1>6 DEF SetNeeded, ClearLeader, SetNotReady, SendStopped
<1>7. CASE NotifyOne(p)
  <2>1. [pc EXCEPT ![p] = "start_working"] \in [Player -> Locations]
    BY DEF Locations
  <2>2. WakeOneNeeded([pc EXCEPT ![p] = "start_working"])
    BY <1>7 DEF NotifyOne
  <2> QED
    BY <2>1, <2>2, WakeOneNeededWakes
<1> QED
  BY <1>1, <1>2, <1>3, <1>4, <1>5, <1>6, <1>7 DEF PlayerStep

LEMMA DirectorOnlyWakes ==
  ASSUME TypeInv, DirectorStep \/ Stop \/ Sigint \/ UNCHANGED vars
  PROVE  \A q \in Player : Awoken(q)
<1> USE DEF TypeInv, TypeOK, Awoken, Woken, WakeNeeded
<1>1. CASE StartNotify
  BY <1>1, WakeOneNeededWakes DEF StartNotify
<1>2. CASE StartNeeded \/ StartReady \/ StopNotify \/ Stop \/ Sigint
  BY <1>2 DEF StartNeeded, StartReady, StopNotify, Stop, Sigint
<1>3. CASE UNCHANGED vars
  BY <1>3 DEF vars
<1> QED
  BY <1>1, <1>2, <1>3 DEF DirectorStep

(* A set of locations that no sleeper leaves by waking. *)
Whole(S) == /\ "sleep_needed" \in S <=> "wait_for_recruited" \in S
            /\ "sleep_recite" \in S <=> "woken_recite" \in S

LEMMA OnlyOneMoves ==
  ASSUME TypeInv, NEW p \in Player, PlayerStep(p), ~EnterThrows(p), NEW S, Whole(S)
  PROVE  /\ \A q \in Player \ {p} : pc'[q] \in S <=> pc[q] \in S
         /\ Count(S)' = IF pc'[p] \in S /\ pc[p] \notin S THEN Count(S) + 1
                        ELSE IF pc'[p] \notin S /\ pc[p] \in S THEN Count(S) - 1
                        ELSE Count(S)
<1>1. \A q \in Player \ {p} : pc'[q] \in S <=> pc[q] \in S
  BY OthersOnlyWake DEF Awoken, Whole
<1> QED
  BY <1>1, CountMoves

LEMMA NobodyMoves ==
  ASSUME TypeInv, DirectorStep \/ Stop \/ Sigint \/ UNCHANGED vars, NEW S, Whole(S)
  PROVE  At(S)' = At(S) /\ Count(S)' = Count(S)
<1>1. At(S)' = At(S)
  BY DirectorOnlyWakes DEF Awoken, Whole, At
<1> QED
  BY <1>1 DEF Count

-----------------------------------------------------------------------------
(* The two parts that hold whatever the races. *)

LEMMA OneSetterStep == TypeInv /\ OneSetter /\ [Next]_vars => OneSetter'
<1> SUFFICES ASSUME TypeInv, OneSetter, [Next]_vars PROVE OneSetter'
  OBVIOUS
<1>0. Whole(SettingUp)
  BY DEF Whole, SettingUp
<1>1. CASE DirectorStep \/ Stop \/ Sigint \/ UNCHANGED vars
  BY <1>0, <1>1, NobodyMoves DEF OneSetter
<1>2. ASSUME NEW p \in Player, EnterThrows(p) PROVE OneSetter'
  BY <1>2 DEF EnterThrows, OneSetter, At, SettingUp
<1>3. ASSUME NEW p \in Player, PlayerStep(p), ~EnterThrows(p) PROVE OneSetter'
  <2>1. \A q \in Player \ {p} : pc'[q] \in SettingUp <=> pc[q] \in SettingUp
    BY <1>0, <1>3, OnlyOneMoves
  <2>2. CASE Exit(p)
    <3>1. \A q \in Player : pc[q] \notin SettingUp
      BY <2>2 DEF Exit, ExitFree
    <3> QED
      BY <2>1, <3>1 DEF OneSetter, At
  <2>3. CASE ~Exit(p)
    <3>1. pc'[p] \in SettingUp => pc[p] \in SettingUp
      BY <1>3, <2>3 DEF PlayerStep, TypeInv, TypeOK, SettingUp, Goto, StartWorking,
         WaitForRecruited, BlockNeeded, IsLeader, AssignWork, Read, Enter, EnterStore, Barrier,
         BarrierOpens, Act, Recite, ReciteWoken, Deliver, Skip, GiveUp, Sleep, SetNeeded,
         ClearLeader, SetNotReady, NotifyOne, WakeOneNeeded, SendStopped, WakeNeeded,
         WakeRecite, Woken
    <3> QED
      BY <2>1, <3>1 DEF OneSetter, At
  <2> QED
    BY <2>2, <2>3
<1> QED
  BY <1>1, <1>2, <1>3 DEF Next

LEMMA TeamIsActivatedStep == TypeInv /\ TeamIsActivated /\ [Next]_vars => TeamIsActivated'
<1> SUFFICES ASSUME TypeInv, TeamIsActivated, [Next]_vars PROVE TeamIsActivated'
  OBVIOUS
<1> DEFINE Fits(l, a, r) == /\ l \in Member => a
                            /\ a => l \in Member \union {"terminated"}
                            /\ r => a
                            /\ l \in InHand => r
<1>0. ASSUME \A q \in Player : Fits(pc'[q], activated'[q], ready_to_read'[q])
      PROVE  TeamIsActivated'
  BY <1>0 DEF TeamIsActivated
<1>1. \A q \in Player : Fits(pc[q], activated[q], ready_to_read[q])
  BY DEF TeamIsActivated
<1>2. \A q \in Player : Awoken(q) => (pc'[q] \in Member <=> pc[q] \in Member)
                                  /\ (pc'[q] \in InHand <=> pc[q] \in InHand)
                                  /\ (pc'[q] = "terminated" <=> pc[q] = "terminated")
  BY DEF Awoken, Member, InHand, Arriving, Through, Acting
<1>3. CASE DirectorStep \/ Stop \/ Sigint \/ UNCHANGED vars
  <2>1. UNCHANGED <<activated, ready_to_read>>
    BY <1>3 DEF DirectorStep, StartNeeded, StartReady, StartNotify, StopNotify, Stop, Sigint,
       vars
  <2> QED
    BY <1>0, <1>1, <1>2, <1>3, <2>1, DirectorOnlyWakes
<1>4. ASSUME NEW p \in Player, EnterThrows(p) PROVE TeamIsActivated'
  <2>1. \A q \in Player : pc'[q] = "terminated"
    BY <1>4 DEF EnterThrows
  <2>2. "terminated" \notin Member /\ "terminated" \notin InHand
    BY DEF Member, InHand, Arriving, Through, Acting
  <2> QED
    BY <1>0, <1>1, <1>4, <2>1, <2>2 DEF EnterThrows
<1>5. ASSUME NEW p \in Player, PlayerStep(p), ~EnterThrows(p) PROVE TeamIsActivated'
  <2>0. ASSUME \A q \in Player \ {p} :
                 activated'[q] = activated[q] /\ ready_to_read'[q] = ready_to_read[q],
               Fits(pc'[p], activated'[p], ready_to_read'[p])
        PROVE  TeamIsActivated'
    BY <1>0, <1>1, <1>2, <1>5, <2>0, OthersOnlyWake
  <2> USE DEF TypeInv, TypeOK, Goto
  <2>1. CASE StartWorking(p)
    BY <1>1, <2>0, <2>1 DEF StartWorking, Member, InHand, Arriving, Through, Acting
  <2>2. CASE WaitForRecruited(p)
    BY <1>1, <2>0, <2>2 DEF WaitForRecruited, Member, InHand, Arriving, Through, Acting
  <2>3. CASE BlockNeeded(p) \/ Read(p) \/ Enter(p) \/ EnterStore(p) \/ BarrierOpens(p)
    BY <1>1, <2>0, <2>3 DEF BlockNeeded, Read, Enter, EnterStore, BarrierOpens, Member, InHand,
       Arriving, Through, Acting
  <2>4. CASE IsLeader(p)
    BY <1>1, <2>0, <2>4 DEF IsLeader, WakeNeeded, Woken, Member, InHand, Arriving, Through, Acting
  <2>5. CASE AssignWork(p)
    <3>1. \A q \in Player : q \in Cast(scene_fragment_counter) => activated[q]
      BY DEF Cast
    <3>2. /\ \A q \in Player : ready_to_read'[q] = (q \in Cast(scene_fragment_counter)
                                                      \/ ready_to_read[q])
          /\ activated' = activated /\ pc[p] = "assign_work" /\ pc'[p] = "read"
      BY <2>5 DEF AssignWork
    <3>3. \A q \in Player : ready_to_read'[q] => activated[q]
      BY <1>1, <3>1, <3>2
    <3>4. \A q \in Player \ {p} : pc'[q] \in InHand => ready_to_read'[q]
      BY <1>1, <1>2, <1>5, <3>2, OthersOnlyWake
    <3>5. \A q \in Player \ {p} : Fits(pc'[q], activated'[q], ready_to_read'[q])
      BY <1>1, <1>2, <1>5, <3>2, <3>3, <3>4, OthersOnlyWake
    <3>6. Fits(pc'[p], activated'[p], ready_to_read'[p])
      BY <1>1, <3>2, <3>3 DEF Member, InHand, Arriving, Through, Acting
    <3> QED
      BY <1>0, <3>5, <3>6
  <2>6. CASE Barrier(p)
    BY <1>1, <2>0, <2>6 DEF Barrier, Member, InHand, Arriving, Through, Acting
  <2>7. CASE Act(p)
    BY <1>1, <2>0, <2>7 DEF Act, ClearPlayer, Member, InHand, Arriving, Through, Acting
  <2>8. CASE Recite(p) \/ ReciteWoken(p)
    BY <1>1, <2>0, <2>8 DEF Recite, ReciteWoken, Deliver, Skip, GiveUp, Sleep, WakeNeeded,
       WakeRecite, Woken, Member, InHand, Arriving, Through, Acting
  <2>9. CASE Exit(p)
    BY <1>1, <2>0, <2>9 DEF Exit, AfterScene, Member, InHand, Arriving, Through, Acting
  <2>10. CASE SetNeeded(p) \/ ClearLeader(p) \/ SetNotReady(p) \/ SendStopped(p)
    BY <1>1, <2>0, <2>10 DEF SetNeeded, ClearLeader, SetNotReady, SendStopped, WakeNeeded, Woken,
       Member, InHand, Arriving, Through, Acting
  <2>11. CASE NotifyOne(p)
    <3>1. pc[p] = "notify_one" /\ UNCHANGED <<activated, ready_to_read>>
      BY <2>11 DEF NotifyOne
    <3>2. pc'[p] = "start_working"
      BY <2>11 DEF NotifyOne, WakeOneNeeded
    <3> QED
      BY <1>1, <2>0, <3>1, <3>2 DEF Member, InHand, Arriving, Through, Acting
  <2> QED
    BY <1>5, <2>1, <2>2, <2>3, <2>4, <2>5, <2>6, <2>7, <2>8, <2>9, <2>10, <2>11 DEF PlayerStep
<1> QED
  BY <1>3, <1>4, <1>5 DEF Next

-----------------------------------------------------------------------------
(* A step that is still outside the race windows. *)
StillCalm == TeamInv /\ [Next]_vars /\ ~raced'

LEMMA CalmBefore ==
  ASSUME StillCalm
  PROVE  /\ TypeInv /\ OneSetter /\ TeamIsActivated /\ Calm /\ ~raced
         /\ TypeInv' /\ OneSetter' /\ TeamIsActivated' /\ ~InRaceWindow'
<1> USE DEF StillCalm, TeamInv
<1>1. TypeInv' /\ OneSetter' /\ TeamIsActivated'
  BY TypeStep, OneSetterStep, TeamIsActivatedStep
<1>2. raced' = raced \/ raced' = (raced \/ InRaceWindow')
  BY DEF Next, vars, Watch, PlayerStep, StartWorking, WaitForRecruited, BlockNeeded, IsLeader,
     AssignWork, Read, Enter, EnterThrows, EnterStore, Barrier, BarrierOpens, Act, Recite,
     ReciteWoken, Exit, SetNeeded, ClearLeader, SetNotReady, NotifyOne, SendStopped,
     DirectorStep, StartNeeded, StartReady, StartNotify, StopNotify, Stop, Sigint
<1>3. ~raced
  BY <1>1, <1>2 DEF TypeInv, TypeOK
<1>4. CASE UNCHANGED vars
  BY <1>1, <1>3, <1>4 DEF vars, Calm, InRaceWindow, StaleLeader, EarlyBarrier, LostUpdate,
     LateFinish
<1>5. CASE Next
  <2>1. Watch
    BY <1>5 DEF Next, PlayerStep, StartWorking, WaitForRecruited, BlockNeeded, IsLeader,
       AssignWork, Read, Enter, EnterThrows, EnterStore, Barrier, BarrierOpens, Act, Recite,
       ReciteWoken, Exit, SetNeeded, ClearLeader, SetNotReady, NotifyOne, SendStopped,
       DirectorStep, StartNeeded, StartReady, StartNotify, StopNotify, Stop, Sigint
  <2> QED
    BY <1>1, <1>3, <2>1 DEF Watch
<1> QED
  BY <1>4, <1>5

(* Where a player is tells the phase of the scene. *)
LEMMA WhichPhase ==
  ASSUME Calm, NEW p \in Player
  PROVE  /\ pc[p] \in Arriving => Assembling
         /\ pc[p] \in Acting \union {"exit"} => Performing
  BY DEF Calm, Phase, Closed, Assembling, Performing, At, Member, Through, Acting, Arriving,
     SettingUp

(* Play::enter throws only at a player whose scene is over. *)
LEMMA NobodyThrows ==
  ASSUME TypeInv, TeamIsActivated, Calm, NEW p \in Player
  PROVE  ~EnterThrows(p)
<1> SUFFICES ASSUME EnterThrows(p) PROVE FALSE
  OBVIOUS
<1>1. ready_to_read[p]
  BY DEF EnterThrows, TeamIsActivated, InHand
<1>2. current_scene_index[p] = scene_fragment_counter
  BY <1>1 DEF Calm, RightPart
<1> QED
  BY <1>2 DEF EnterThrows, TypeInv, TypeOK

(* What Next is without it. *)
LEMMA CalmNext ==
  ASSUME StillCalm
  PROVE  \/ \E p \in Player : PlayerStep(p) /\ ~EnterThrows(p)
         \/ DirectorStep \/ Stop \/ Sigint \/ UNCHANGED vars
  BY CalmBefore, NobodyThrows DEF StillCalm, Next

LEMMA RunningStep == StillCalm => Running'
<1> SUFFICES ASSUME StillCalm PROVE Running'
  OBVIOUS
<1> USE CalmBefore
<1>0. Running
  BY DEF Calm
<1>1. CASE DirectorStep \/ Stop \/ Sigint \/ UNCHANGED vars
  <2>1. At(SettingUp)' = At(SettingUp)
    BY <1>1, NobodyMoves DEF Whole, SettingUp
  <2>2. \A p \in Player : pc'[p] # "terminated"
    BY <1>0, <1>1, DirectorOnlyWakes DEF Awoken, Running
  <2>3. scene_fragment_counter' = scene_fragment_counter
    BY <1>1 DEF DirectorStep, StartNeeded, StartReady, StartNotify, StopNotify, Stop, Sigint, vars
  <2>4. /\ dpc' # "terminated"
        /\ dpc' \in {"start_needed", "start_ready"} => dpc \in {"start_needed", "start_ready"}
        /\ finished' => finished \/ Interrupted'
        /\ Interrupted => Interrupted'
    BY <1>0, <1>1 DEF DirectorStep, StartNeeded, StartReady, StartNotify, StopNotify, Stop,
       Sigint, vars, Interrupted, Running
  <2> QED
    BY <1>0, <2>1, <2>2, <2>3, <2>4 DEF Running
<1>2. ASSUME NEW p \in Player, PlayerStep(p), ~EnterThrows(p) PROVE Running'
  <2>1. \A q \in Player : pc'[q] # "terminated"
    <3>1. \A q \in Player \ {p} : pc'[q] # "terminated"
      BY <1>0, <1>2, OthersOnlyWake DEF Awoken, Running
    <3>2. pc'[p] # "terminated"
      BY <1>2 DEF PlayerStep, TypeInv, TypeOK, Goto, StartWorking, WaitForRecruited, BlockNeeded,
         IsLeader, AssignWork, Read, Enter, EnterStore, Barrier, BarrierOpens, Act, Recite,
         ReciteWoken, Deliver, Skip, GiveUp, Sleep, Exit, AfterScene, SetNeeded, ClearLeader,
         SetNotReady, NotifyOne, WakeOneNeeded, SendStopped, WakeNeeded, WakeRecite, Woken
    <3> QED
      BY <3>1, <3>2
  <2>2. dpc' = dpc
    BY <1>2 DEF PlayerStep, StartWorking, WaitForRecruited, BlockNeeded, IsLeader, AssignWork,
       Read, Enter, EnterStore, Barrier, BarrierOpens, Act, Recite, ReciteWoken, Exit, SetNeeded,
       ClearLeader, SetNotReady, NotifyOne, SendStopped
  <2>3. CASE Exit(p)
    <3>1. Performing
      BY <2>3, WhichPhase DEF Exit
    <3> QED
      BY <1>0, <2>1, <2>2, <2>3, <3>1 DEF Exit, NextScene, Running, Performing, Interrupted,
         TypeInv, TypeOK, Scenes
  <2>4. CASE ~Exit(p)
    <3>1. UNCHANGED <<scene_fragment_counter, finished>>
      BY <1>2, <2>4 DEF PlayerStep, StartWorking, WaitForRecruited, BlockNeeded, IsLeader,
         AssignWork, Read, Enter, EnterStore, Barrier, BarrierOpens, Act, Recite, ReciteWoken,
         SetNeeded, ClearLeader, SetNotReady, NotifyOne, SendStopped
    <3>2. pc'[p] \in SettingUp => pc[p] \in SettingUp
      BY <1>2, <2>4 DEF PlayerStep, TypeInv, TypeOK, SettingUp, Goto, StartWorking,
         WaitForRecruited, BlockNeeded, IsLeader, AssignWork, Read, Enter, EnterStore, Barrier,
         BarrierOpens, Act, Recite, ReciteWoken, Deliver, Skip, GiveUp, Sleep, SetNeeded,
         ClearLeader, SetNotReady, NotifyOne, WakeOneNeeded, SendStopped, WakeNeeded,
         WakeRecite, Woken
    <3>3. \A q \in Player \ {p} : pc'[q] \in SettingUp <=> pc[q] \in SettingUp
      <4>1. Whole(SettingUp)
        BY DEF Whole, SettingUp
      <4> QED
        BY <1>2, <4>1, OnlyOneMoves
    <3>4. At(SettingUp) = {} => At(SettingUp)' = {}
      BY <3>2, <3>3 DEF At
    <3> QED
      BY <1>0, <2>1, <2>2, <3>1, <3>4 DEF Running, Interrupted
  <2> QED
    BY <2>3, <2>4
<1> QED
  BY <1>1, <1>2, CalmNext

LEMMA ExactCountStep == StillCalm => ExactCount'
<1> SUFFICES ASSUME StillCalm PROVE ExactCount'
  OBVIOUS
<1> USE CalmBefore
<1>0. ExactCount /\ Whole(Entered) /\ Whole({"enter_store"})
  BY DEF Calm, Whole, Entered, Through, Acting
<1>1. CASE DirectorStep \/ Stop \/ Sigint \/ UNCHANGED vars
  <2>1. Count(Entered)' = Count(Entered) /\ At({"enter_store"})' = At({"enter_store"})
    BY <1>0, <1>1, NobodyMoves
  <2>2. UNCHANGED <<on_stage_member_num, tmp>>
    BY <1>1 DEF DirectorStep, StartNeeded, StartReady, StartNotify, StopNotify, Stop, Sigint, vars
  <2>3. \A q \in Player : pc'[q] = "enter_store" => pc[q] = "enter_store"
    BY <2>1 DEF At
  <2> QED
    BY <1>0, <2>1, <2>2, <2>3 DEF ExactCount
<1>2. ASSUME NEW p \in Player, PlayerStep(p), ~EnterThrows(p) PROVE ExactCount'
  <2>1. /\ \A q \in Player \ {p} : pc'[q] = "enter_store" => pc[q] = "enter_store"
        /\ \A q \in Player \ {p} : pc'[q] \in Entered <=> pc[q] \in Entered
    BY <1>0, <1>2, OnlyOneMoves
  <2>2. Count(Entered)' = IF pc'[p] \in Entered /\ pc[p] \notin Entered THEN Count(Entered) + 1
                          ELSE IF pc'[p] \notin Entered /\ pc[p] \in Entered
                               THEN Count(Entered) - 1
                          ELSE Count(Entered)
    BY <1>0, <1>2, OnlyOneMoves
  <2>3. CASE EnterStore(p)
    <3>1. pc[p] = "enter_store" /\ pc'[p] = "barrier"
      BY <2>3 DEF EnterStore, Goto, TypeInv, TypeOK
    <3>2. "barrier" \in Entered /\ "enter_store" \notin Entered
      BY DEF Entered, Through, Acting
    <3>3. \A q \in Player \ {p} : pc[q] # "enter_store"
      BY <3>1 DEF Calm, InRaceWindow, LostUpdate
    <3>4. Count(Entered)' = on_stage_member_num'
      BY <1>0, <2>2, <2>3, <3>1, <3>2 DEF EnterStore, ExactCount
    <3> QED
      BY <2>1, <3>1, <3>3, <3>4 DEF ExactCount
  <2>4. CASE Exit(p)
    <3>1. pc[p] = "exit" /\ pc'[p] \in {"start_working", "set_needed", "send_stopped"}
      BY <2>4 DEF Exit, Goto, AfterScene, TypeInv, TypeOK
    <3>2. "exit" \in Entered /\ pc'[p] \notin Entered /\ pc'[p] # "enter_store"
      BY <3>1 DEF Entered, Through, Acting
    <3>3. \A q \in Player : pc[q] # "enter_store"
      BY <3>1, WhichPhase DEF Performing, At, Arriving
    <3>4. Count(Entered)' = Count(Entered) - 1 /\ Count(Entered) # 0
      BY <2>2, <3>1, <3>2, CountType DEF At
    <3>5. Count(Entered)' = on_stage_member_num'
      BY <1>0, <2>4, <3>4 DEF Exit, LastOnStage, ExactCount
    <3> QED
      BY <2>1, <3>2, <3>3, <3>5 DEF ExactCount
  <2>5. CASE Enter(p)
    <3>1. pc[p] = "enter" /\ pc'[p] = "enter_store" /\ tmp'[p] = on_stage_member_num
      BY <2>5 DEF Enter, Goto, TypeInv, TypeOK
    <3>2. UNCHANGED on_stage_member_num /\ \A q \in Player \ {p} : tmp'[q] = tmp[q]
      BY <2>5 DEF Enter, TypeInv, TypeOK
    <3>3. Count(Entered)' = Count(Entered)
      BY <2>2, <3>1 DEF Entered, Through, Acting
    <3> QED
      BY <1>0, <2>1, <3>1, <3>2, <3>3 DEF ExactCount
  <2>6. CASE ~EnterStore(p) /\ ~Exit(p) /\ ~Enter(p)
    <3>1. UNCHANGED <<on_stage_member_num, tmp>> /\ pc'[p] # "enter_store"
          /\ (pc'[p] \in Entered <=> pc[p] \in Entered)
      BY <1>2, <2>6 DEF PlayerStep, TypeInv, TypeOK, Goto, StartWorking, WaitForRecruited,
         BlockNeeded, IsLeader, AssignWork, Read, Barrier, BarrierOpens, Act, ClearPlayer, Recite,
         ReciteWoken, Deliver, Skip, GiveUp, Sleep, SetNeeded, ClearLeader, SetNotReady,
         NotifyOne, WakeOneNeeded, SendStopped, WakeNeeded, WakeRecite, Woken, Entered, Through,
         Acting
    <3> QED
      BY <1>0, <2>1, <2>2, <3>1 DEF ExactCount
  <2> QED
    BY <2>3, <2>4, <2>5, <2>6
<1> QED
  BY <1>1, <1>2, CalmNext

(* While the leader of the last scene is being cleared there is no team.    *)
LEMMA NoTeamYet ==
  ASSUME TeamIsActivated, Calm, NEW p \in Player, pc[p] = "clear_leader"
  PROVE  \A q \in Player : pc[q] \notin Member /\ ~activated[q] /\ ~ready_to_read[q]
<1>1. At({"clear_leader"}) # {} /\ At({"clear_leader", "set_not_ready"}) # {}
  BY DEF At
<1>2. At(Member) = {}
  BY <1>1 DEF Calm, Phase, Closed, Assembling, Performing, BarrierUnset, BarrierSet, BarrierLost,
     At, SettingUp
<1>3. \A q \in Player : pc[q] \notin Member
  BY <1>2 DEF At
<1> QED
  BY <1>3 DEF TeamIsActivated, Calm, Running

LEMMA LeaderStep == StillCalm => Leader'
<1> SUFFICES ASSUME StillCalm PROVE Leader'
  OBVIOUS
<1> USE CalmBefore
<1>0. Leader /\ Whole({"assign_work"})
  BY DEF Calm, Whole
<1>1. CASE DirectorStep \/ Stop \/ Sigint \/ UNCHANGED vars
  <2>1. At({"assign_work"})' = At({"assign_work"})
    BY <1>0, <1>1, NobodyMoves
  <2>2. UNCHANGED <<has_leader, ready_to_read>>
    BY <1>1 DEF DirectorStep, StartNeeded, StartReady, StartNotify, StopNotify, Stop, Sigint, vars
  <2> QED
    BY <1>0, <2>1, <2>2 DEF Leader
<1>2. ASSUME NEW p \in Player, PlayerStep(p), ~EnterThrows(p) PROVE Leader'
  <2>1. \A q \in Player \ {p} : pc'[q] = "assign_work" <=> pc[q] = "assign_work"
    BY <1>0, <1>2, OnlyOneMoves
  <2>2. CASE IsLeader(p)
    <3>1. CASE has_leader
      <4>1. pc'[p] # "assign_work" /\ has_leader' /\ UNCHANGED ready_to_read
        BY <2>2, <3>1 DEF IsLeader, Goto, TypeInv, TypeOK
      <4>2. pc[p] # "assign_work"
        BY <2>2 DEF IsLeader
      <4>3. At({"assign_work"})' = At({"assign_work"})
        BY <2>1, <4>1, <4>2 DEF At
      <4> QED
        BY <1>0, <3>1, <4>1, <4>3 DEF Leader
    <3>2. CASE ~has_leader
      <4>1. \A q \in Player : pc[q] # "assign_work" /\ ~ready_to_read[q]
        BY <1>0, <3>2 DEF Leader, At
      <4>2. \A q \in Player : pc'[q] = "assign_work" => q = p
        BY <2>1, <4>1
      <4>3. has_leader' /\ UNCHANGED ready_to_read
        BY <2>2 DEF IsLeader
      <4> QED
        BY <4>1, <4>2, <4>3 DEF Leader, At
    <3> QED
      BY <3>1, <3>2
  <2>3. CASE AssignWork(p)
    <3>1. pc[p] = "assign_work" /\ pc'[p] = "read" /\ UNCHANGED has_leader
      BY <2>3 DEF AssignWork, Goto, TypeInv, TypeOK
    <3>2. has_leader /\ \A q \in Player \ {p} : pc[q] # "assign_work"
      BY <1>0, <3>1 DEF Leader, At
    <3>3. \A q \in Player : pc'[q] # "assign_work"
      BY <2>1, <3>1, <3>2
    <3> QED
      BY <3>1, <3>2, <3>3 DEF Leader, At
  <2>4. CASE ClearLeader(p)
    <3>1. \A q \in Player : pc[q] \notin Member /\ ~ready_to_read[q]
      BY <2>4, NoTeamYet DEF ClearLeader
    <3>2. pc'[p] # "assign_work" /\ UNCHANGED ready_to_read
      BY <2>4 DEF ClearLeader, Goto, TypeInv, TypeOK
    <3>3. \A q \in Player : pc'[q] # "assign_work"
      BY <2>1, <3>1, <3>2 DEF Member, Arriving
    <3> QED
      BY <3>1, <3>2, <3>3 DEF Leader, At
  <2>5. CASE ~IsLeader(p) /\ ~AssignWork(p) /\ ~ClearLeader(p)
    <3>1. UNCHANGED has_leader /\ pc'[p] # "assign_work" /\ pc[p] # "assign_work"
      BY <1>2, <2>5 DEF PlayerStep, TypeInv, TypeOK, Goto, StartWorking, WaitForRecruited,
         BlockNeeded, Read, Enter, EnterStore, Barrier, BarrierOpens, Act, Recite, ReciteWoken,
         Deliver, Skip, GiveUp, Sleep, Exit, AfterScene, SetNeeded, SetNotReady, NotifyOne,
         WakeOneNeeded, SendStopped, WakeNeeded, WakeRecite, Woken
    <3>2. \A q \in Player : ready_to_read'[q] => ready_to_read[q]
      BY <1>2, <2>5 DEF PlayerStep, TypeInv, TypeOK, StartWorking, WaitForRecruited, BlockNeeded,
         Read, Enter, EnterStore, Barrier, BarrierOpens, Act, ClearPlayer, Recite, ReciteWoken,
         Exit, SetNeeded, SetNotReady, NotifyOne, SendStopped
    <3>3. At({"assign_work"})' = At({"assign_work"})
      BY <2>1, <3>1 DEF At
    <3> QED
      BY <1>0, <3>1, <3>2, <3>3 DEF Leader
  <2> QED
    BY <2>2, <2>3, <2>4, <2>5
<1> QED
  BY <1>1, <1>2, CalmNext

-----------------------------------------------------------------------------
(* The phases of a scene.  Most steps move a player within one of three     *)
(* regions and leave the numbers alone.                                     *)
Idle == {"start_working", "wait_for_recruited", "block_needed", "sleep_needed", "done"}
Gathering == {"is_leader", "assign_work", "read", "enter", "enter_store"}

Near(l, m) == l = m \/ {l, m} \subseteq Idle \/ {l, m} \subseteq Gathering \/ {l, m} \subseteq Acting

Quiet ==
  /\ UNCHANGED <<scene_fragment_counter, needed_player_num, not_ready_players_num>>
  /\ dpc' = dpc \/ ({dpc, dpc'} \subseteq {"start_notify", "idle", "stop_notify", "stopped"}
                     /\ dpc # "stopped")
  /\ \A q \in Player : Near(pc[q], pc'[q])

Undivided(S) == \A l, m \in Locations : Near(l, m) => (l \in S <=> m \in S)

LEMMA QuietKeeps ==
  ASSUME TypeInv, TypeInv', Quiet, NEW S, Undivided(S)
  PROVE  At(S)' = At(S) /\ Count(S)' = Count(S)
<1>1. \A q \in Player : pc'[q] \in S <=> pc[q] \in S
  BY DEF Quiet, Undivided, TypeInv, TypeOK
<1>2. At(S)' = At(S)
  BY <1>1 DEF At
<1> QED
  BY <1>2 DEF Count

LEMMA QuietPhase ==
  ASSUME TypeInv, TypeInv', Quiet, Phase
  PROVE  Phase'
<1>1. /\ Undivided(Member \union {"exit", "clear_leader", "set_not_ready", "notify_one"})
      /\ Undivided({"barrier"} \union Through) /\ Undivided({"clear_leader", "set_not_ready"})
      /\ Undivided({"clear_leader"}) /\ Undivided(Member) /\ Undivided(Through)
      /\ Undivided(Acting \union {"exit", "set_needed", "send_stopped"})
      /\ Undivided(Arriving \union (SettingUp \ {"notify_one"}))
  BY DEF Undivided, Near, Idle, Gathering, Acting, Member, Through, Arriving, SettingUp
<1>2. /\ At(Member \union {"exit", "clear_leader", "set_not_ready", "notify_one"})'
           = At(Member \union {"exit", "clear_leader", "set_not_ready", "notify_one"})
      /\ At({"barrier"} \union Through)' = At({"barrier"} \union Through)
      /\ At({"clear_leader", "set_not_ready"})' = At({"clear_leader", "set_not_ready"})
      /\ At({"clear_leader"})' = At({"clear_leader"})
      /\ At(Acting \union {"exit", "set_needed", "send_stopped"})'
           = At(Acting \union {"exit", "set_needed", "send_stopped"})
      /\ At(Arriving \union (SettingUp \ {"notify_one"}))'
           = At(Arriving \union (SettingUp \ {"notify_one"}))
  BY <1>1, QuietKeeps
<1>3. /\ At(Member)' = At(Member) /\ Count(Member)' = Count(Member)
      /\ At(Through)' = At(Through) /\ Count(Through)' = Count(Through)
  BY <1>1, QuietKeeps
<1>4. K' = K
  BY DEF Quiet, K, CastSize
<1>5. Closed => Closed'
  BY <1>2 DEF Closed, Quiet
<1>6. Assembling => Assembling'
  BY <1>2, <1>3, <1>4 DEF Assembling, BarrierUnset, BarrierSet, BarrierLost, Quiet
<1>7. Performing => Performing'
  BY <1>2 DEF Performing, Quiet
<1> QED
  BY <1>5, <1>6, <1>7 DEF Phase

LEMMA CastType ==
  ASSUME TypeInv, scene_fragment_counter < Scenes
  PROVE  K \in Nat /\ K \in 1 .. UIntMax
<1>1. scene_fragment_counter \in Nat /\ Scenes \in Nat
  BY PlayStageAssumption DEF TypeInv, TypeOK, Scenes
<1>2. scene_fragment_counter + 1 \in 1 .. Len(Script)
  BY <1>1 DEF Scenes
<1> QED
  BY <1>2, PlayStageAssumption DEF K, CastSize

(* The others stay in their regions, so that the numbers of members and of  *)
(* players through the barrier change by the one that moves.                *)
Tally(S, p) == IF pc'[p] \in S /\ pc[p] \notin S THEN Count(S) + 1
               ELSE IF pc'[p] \notin S /\ pc[p] \in S THEN Count(S) - 1
               ELSE Count(S)

LEMMA OneMoves ==
  ASSUME TypeInv, NEW p \in Player, PlayerStep(p), ~EnterThrows(p)
  PROVE  /\ \A q \in Player \ {p} : Near(pc[q], pc'[q])
         /\ Count(Member)' = Tally(Member, p)
         /\ Count(Through)' = Tally(Through, p)
<1>1. Whole(Member) /\ Whole(Through)
  BY DEF Whole, Member, Through, Arriving, Acting
<1>2. Count(Member)' = Tally(Member, p) /\ Count(Through)' = Tally(Through, p)
  BY <1>1, OnlyOneMoves DEF Tally
<1> QED
  BY <1>2, OthersOnlyWake DEF Awoken, Near, Idle, Acting

LEMMA RecruitedPhase ==
  ASSUME StillCalm, NEW p \in Player, WaitForRecruited(p), ~finished, needed_player_num > 0
  PROVE  Phase'
<1> USE CalmBefore
<1>1. /\ pc[p] = "wait_for_recruited" /\ pc'[p] = "is_leader"
      /\ needed_player_num' = needed_player_num - 1
      /\ UNCHANGED <<scene_fragment_counter, not_ready_players_num, dpc>>
  BY DEF WaitForRecruited, Goto, TypeInv, TypeOK
<1>2. PlayerStep(p) /\ ~EnterThrows(p)
  BY <1>1 DEF PlayerStep, EnterThrows
<1>3. /\ \A q \in Player \ {p} : Near(pc[q], pc'[q])
      /\ Count(Member)' = Tally(Member, p) /\ Count(Through)' = Tally(Through, p)
  BY <1>2, OneMoves
<1>4. Count(Member)' = Count(Member) + 1 /\ Count(Through)' = Count(Through)
  BY <1>1, <1>3 DEF Tally, Member, Through, Arriving, Acting
<1>5. Assembling /\ K' = K
  BY <1>1 DEF Calm, Phase, Closed, Performing, K, CastSize
<1>6. Count(Member) \in Nat /\ K \in Nat
  BY <1>5, CountType, CastType DEF Assembling
<1>7. needed_player_num' + Count(Member)' = K'
  BY <1>1, <1>4, <1>5, <1>6 DEF Assembling, TypeInv, TypeOK
<1>8. \A q \in Player : pc'[q] # "clear_leader"
  BY <1>1 DEF InRaceWindow, StaleLeader
<1>9. At(Acting \union {"exit", "set_needed", "send_stopped"})' = {}
  BY <1>1, <1>3, <1>5 DEF Assembling, At, Near, Idle, Gathering, Acting
<1>10. /\ BarrierUnset => BarrierUnset'
       /\ BarrierSet => BarrierSet'
       /\ BarrierLost => BarrierLost'
  <2>1. /\ At(Through)' = At(Through)
        /\ At({"barrier"} \union Through)' = At({"barrier"} \union Through)
        /\ At({"clear_leader", "set_not_ready"})' = At({"clear_leader", "set_not_ready"})
    BY <1>1, <1>3 DEF At, Near, Idle, Gathering, Acting, Through
  <2>2. At({"clear_leader"})' = {}
    BY <1>8 DEF At
  <2> QED
    BY <1>1, <1>4, <1>5, <2>1, <2>2 DEF BarrierUnset, BarrierSet, BarrierLost
<1> QED
  BY <1>1, <1>5, <1>7, <1>9, <1>10 DEF Phase, Assembling

LEMMA EnterStorePhase ==
  ASSUME StillCalm, NEW p \in Player, EnterStore(p)
  PROVE  Phase'
<1> USE CalmBefore
<1>1. /\ pc[p] = "enter_store" /\ pc'[p] = "barrier"
      /\ UNCHANGED <<scene_fragment_counter, needed_player_num, not_ready_players_num, dpc>>
  BY DEF EnterStore, Goto, TypeInv, TypeOK
<1>2. PlayerStep(p) /\ ~EnterThrows(p)
  BY <1>1 DEF PlayerStep, EnterThrows
<1>3. /\ \A q \in Player \ {p} : Near(pc[q], pc'[q])
      /\ Count(Member)' = Tally(Member, p) /\ Count(Through)' = Tally(Through, p)
  BY <1>2, OneMoves
<1>4. Count(Member)' = Count(Member) /\ Count(Through)' = Count(Through)
  BY <1>1, <1>3 DEF Tally, Member, Through, Arriving, Acting
<1>5. Assembling /\ K' = K
  BY <1>1, WhichPhase DEF Arriving, K, CastSize
<1>6. /\ At(Acting \union {"exit", "set_needed", "send_stopped"})' = {}
      /\ At(Through)' = At(Through)
      /\ At({"clear_leader", "set_not_ready"})' = At({"clear_leader", "set_not_ready"})
  BY <1>1, <1>3, <1>5 DEF Assembling, At, Near, Idle, Gathering, Acting, Through
<1>7. ~BarrierUnset
  BY <1>1, <1>6 DEF BarrierUnset, InRaceWindow, EarlyBarrier, At
<1>8. BarrierSet' \/ BarrierLost'
  BY <1>1, <1>4, <1>5, <1>6, <1>7 DEF Assembling, BarrierSet, BarrierLost
<1> QED
  BY <1>1, <1>4, <1>5, <1>6, <1>8 DEF Phase, Assembling

(* The last of the team to reach the barrier finds the whole team through.  *)
LEMMA BarrierPhase ==
  ASSUME StillCalm, NEW p \in Player, Barrier(p)
  PROVE  Phase'
<1> USE CalmBefore
<1>1. /\ pc[p] = "barrier" /\ pc'[p] \in {"act", "sleep_ready"}
      /\ not_ready_players_num' = Dec(not_ready_players_num)
      /\ pc'[p] = "act" <=> not_ready_players_num' = 0
      /\ UNCHANGED <<scene_fragment_counter, needed_player_num, dpc>>
  BY DEF Barrier, Goto, TypeInv, TypeOK
<1>2. PlayerStep(p) /\ ~EnterThrows(p)
  BY <1>1 DEF PlayerStep, EnterThrows
<1>3. /\ \A q \in Player \ {p} : Near(pc[q], pc'[q])
      /\ Count(Member)' = Tally(Member, p) /\ Count(Through)' = Tally(Through, p)
  BY <1>2, OneMoves
<1>4. Count(Member)' = Count(Member) /\ Count(Through)' = Count(Through) + 1
  BY <1>1, <1>3 DEF Tally, Member, Through, Arriving, Acting
<1>5. Assembling /\ K' = K
  BY <1>1, WhichPhase DEF Arriving, K, CastSize
<1>6. /\ Count(Member) \in Nat /\ Count(Through) \in Nat /\ K \in Nat
      /\ needed_player_num \in Nat /\ not_ready_players_num \in Nat /\ UIntMax \in Nat
      /\ Count(Through) + 1 <= UIntMax
  <2>1. Count(Through)' <= N
    BY CountNext
  <2>2. scene_fragment_counter < Scenes
    BY <1>5 DEF Assembling
  <2>3. K \in Nat
    BY <2>2, CastType
  <2>4. Count(Member) \in Nat /\ Count(Through) \in Nat
    BY CountType
  <2>5. needed_player_num \in Nat /\ not_ready_players_num \in Nat
    BY PlayStageAssumption DEF TypeInv, TypeOK
  <2> QED
    BY <1>4, <2>1, <2>3, <2>4, <2>5, PlayStageAssumption
<1>7. At({"clear_leader", "set_not_ready"})' = At({"clear_leader", "set_not_ready"})
  BY <1>1, <1>3 DEF At, Near, Idle, Gathering, Acting
<1>8. ~BarrierUnset
  BY <1>1 DEF BarrierUnset, At
<1>9. CASE BarrierLost
  <2>1. Dec(not_ready_players_num) = UIntMax + 1 - (Count(Through) + 1)
    BY <1>6, <1>9, CountType DEF BarrierLost, Dec
  <2>2. pc'[p] = "sleep_ready" /\ not_ready_players_num' # 0
    BY <1>1, <1>6, <2>1
  <2>3. At(Through)' # {}
    BY <2>2 DEF At, Through
  <2>4. BarrierLost'
    BY <1>1, <1>4, <1>7, <1>9, <2>1, <2>3 DEF BarrierLost
  <2>5. At(Acting \union {"exit", "set_needed", "send_stopped"})' = {}
    BY <1>3, <1>5, <2>2 DEF Assembling, At, Near, Idle, Gathering, Acting
  <2> QED
    BY <1>1, <1>4, <1>5, <2>4, <2>5 DEF Phase, Assembling
<1>10. CASE BarrierSet
  <2>1. not_ready_players_num' = K - (Count(Through) + 1)
    BY <1>1, <1>6, <1>10 DEF BarrierSet, Dec
  <2>2. CASE not_ready_players_num' # 0
    <3>1. pc'[p] = "sleep_ready" /\ not_ready_players_num' > 0
      BY <1>1, <1>6, <1>10, <2>1, <2>2 DEF BarrierSet
    <3>2. At(Acting \union {"exit", "set_needed", "send_stopped"})' = {}
      BY <1>3, <1>5, <3>1 DEF Assembling, At, Near, Idle, Gathering, Acting
    <3>3. BarrierSet'
      BY <1>1, <1>4, <1>5, <1>7, <1>10, <2>1, <3>1 DEF BarrierSet
    <3> QED
      BY <1>1, <1>4, <1>5, <3>2, <3>3 DEF Phase, Assembling
  <2>3. CASE not_ready_players_num' = 0
    <3>1. Count(Through)' = K
      BY <1>4, <1>6, <2>1, <2>3
    <3>2. /\ Count(Through)' <= Count(Member)'
          /\ Count(Through)' = Count(Member)' => At(Through)' = At(Member)'
      BY CountNext DEF Member
    <3>3. needed_player_num' = 0 /\ Count(Member)' = K
      BY <1>1, <1>4, <1>5, <1>6, <3>1, <3>2 DEF Assembling
    <3>4. At(Through)' = At(Member)'
      BY <3>1, <3>2, <3>3
    <3>5. \A q \in Player : pc'[q] \notin Arriving
      BY <3>4 DEF At, Member, Through, Arriving, Acting
    <3>6. \A q \in Player : pc'[q] \notin SettingUp \ {"notify_one"}
      BY <1>1, <1>3, <1>5, <1>10 DEF Assembling, BarrierSet, At, Near, Idle, Gathering, Acting,
         SettingUp
    <3>7. dpc' \notin {"start_needed", "start_ready"}
      BY <1>1, <1>5, <1>10 DEF Assembling, BarrierSet
    <3> QED
      BY <1>1, <1>5, <2>3, <3>3, <3>5, <3>6, <3>7 DEF Phase, Assembling, Performing, At
  <2> QED
    BY <2>2, <2>3
<1> QED
  BY <1>5, <1>8, <1>9, <1>10 DEF Assembling

LEMMA PerformingStays ==
  ASSUME Performing, NEW p \in Player,
         UNCHANGED <<scene_fragment_counter, needed_player_num, not_ready_players_num, dpc>>,
         \A q \in Player \ {p} : Near(pc[q], pc'[q]),
         pc'[p] \notin Arriving \union (SettingUp \ {"notify_one"})
  PROVE  Phase'
<1>1. \A q \in Player : pc[q] \notin Arriving \union (SettingUp \ {"notify_one"})
  BY DEF Performing, At
<1>2. \A q \in Player : pc'[q] \notin Arriving \union (SettingUp \ {"notify_one"})
  BY <1>1 DEF Near, Idle, Gathering, Acting, Arriving, SettingUp
<1> QED
  BY <1>2 DEF Phase, Performing, At

(* The barrier opens for the whole team or not at all.                      *)
LEMMA BarrierOpensPhase ==
  ASSUME StillCalm, NEW p \in Player, BarrierOpens(p)
  PROVE  Phase'
<1> USE CalmBefore
<1>1. /\ pc[p] = "sleep_ready" /\ pc'[p] = "act" /\ not_ready_players_num = 0
      /\ UNCHANGED <<scene_fragment_counter, needed_player_num, not_ready_players_num, dpc>>
  BY DEF BarrierOpens, Goto, TypeInv, TypeOK
<1>2. \A q \in Player \ {p} : Near(pc[q], pc'[q])
  BY <1>1, OneMoves DEF PlayerStep, EnterThrows
<1>3. p \in At(Through) /\ p \in At(Member)
  BY <1>1 DEF At, Through, Member
<1>4. ~Closed
  BY <1>3 DEF Closed, At
<1>5. ~BarrierUnset /\ ~BarrierSet
  BY <1>1, <1>3 DEF BarrierUnset, BarrierSet, At
<1>6. ~BarrierLost
  <2>1. UIntMax + 1 - Count(Through) # 0
    BY CountType, PlayStageAssumption
  <2> QED
    BY <1>1, <1>3, <2>1 DEF BarrierLost
<1>7. Performing
  BY <1>4, <1>5, <1>6 DEF Calm, Phase, Assembling
<1> QED
  BY <1>1, <1>2, <1>7, PerformingStays DEF Arriving, SettingUp

LEMMA ActPhase ==
  ASSUME StillCalm, NEW p \in Player, Act(p)
  PROVE  Phase'
<1> USE CalmBefore
<1>1. /\ pc[p] = "act" /\ pc'[p] \in {"recite", "exit"}
      /\ UNCHANGED <<scene_fragment_counter, needed_player_num, not_ready_players_num, dpc>>
  BY DEF Act, Goto, TypeInv, TypeOK
<1>2. \A q \in Player \ {p} : Near(pc[q], pc'[q])
  BY <1>1, OneMoves DEF PlayerStep, EnterThrows
<1>3. Performing
  BY <1>1, WhichPhase DEF Acting
<1> QED
  BY <1>1, <1>2, <1>3, PerformingStays DEF Arriving, SettingUp

(* The last one on stage leaves nobody of the team behind.                  *)
LEMMA LastOneLeaves ==
  ASSUME Calm, NEW p \in Player, pc[p] = "exit", ExitFree, on_stage_member_num <= 1
  PROVE  /\ \A q \in Player : pc[q] \notin Member \union SettingUp
         /\ \A q \in Player \ {p} : pc[q] # "exit"
         /\ on_stage_member_num = 1
<1>1. pc[p] = "exit" /\ \A q \in Player : pc[q] \notin SettingUp
  BY DEF ExitFree
<1>2. pc[p] \in Entered /\ p \in At(Entered)
  BY <1>1 DEF Entered, At
<1>3. Count(Entered) = 1 /\ on_stage_member_num = 1
  BY <1>2, CountType DEF Calm, ExactCount
<1>4. At(Entered) = {p}
  BY <1>2, <1>3, CountOne
<1>5. \A q \in Player : pc[q] \notin Arriving
  BY <1>1, WhichPhase DEF Performing, At
<1> QED
  BY <1>1, <1>3, <1>4, <1>5 DEF At, Entered, Member, Through, Acting

LEMMA ExitPhase ==
  ASSUME StillCalm, NEW p \in Player, Exit(p)
  PROVE  Phase'
<1> USE CalmBefore
<1>1. /\ pc[p] = "exit"
      /\ UNCHANGED <<needed_player_num, not_ready_players_num, dpc>>
  BY DEF Exit
<1>2. \A q \in Player \ {p} : Near(pc[q], pc'[q])
  BY <1>1, OneMoves DEF PlayerStep, EnterThrows
<1>3. Performing
  BY <1>1, WhichPhase
<1>4. CASE on_stage_member_num > 1
  <2>1. pc'[p] = "start_working" /\ UNCHANGED scene_fragment_counter
    BY <1>4 DEF Exit, LastOnStage, Goto, TypeInv, TypeOK
  <2> QED
    BY <1>1, <1>2, <1>3, <2>1, PerformingStays DEF Arriving, SettingUp
<1>5. CASE on_stage_member_num <= 1
  <2>1. /\ \A q \in Player : pc[q] \notin Member \union SettingUp
        /\ \A q \in Player \ {p} : pc[q] # "exit"
        /\ on_stage_member_num = 1
    BY <1>1, <1>5, LastOneLeaves DEF Exit
  <2>2. pc'[p] \in {"set_needed", "send_stopped", "start_working"}
    BY <2>1 DEF Exit, LastOnStage, AfterScene, Goto, TypeInv, TypeOK
  <2>3. \A q \in Player :
          pc'[q] \notin Member \union {"exit", "clear_leader", "set_not_ready", "notify_one"}
    BY <1>2, <2>1, <2>2 DEF Near, Idle, Gathering, Acting, Member, Through, Arriving, SettingUp
  <2> QED
    BY <1>1, <1>3, <2>3 DEF Performing, Phase, Closed, At
<1> QED
  BY <1>4, <1>5 DEF TypeInv, TypeOK

(* Setting up a scene: the team is wanted, then its leader is cleared, then *)
(* the barrier is set.                                                      *)
LEMMA SetNeededPhase ==
  ASSUME StillCalm, NEW p \in Player, SetNeeded(p)
  PROVE  Phase'
<1> USE CalmBefore
<1>1. /\ pc[p] = "set_needed" /\ pc'[p] = "clear_leader"
      /\ needed_player_num' = K
      /\ UNCHANGED <<scene_fragment_counter, not_ready_players_num, dpc>>
  BY DEF SetNeeded, Goto, TypeInv, TypeOK, K
<1>2. \A q \in Player \ {p} : Near(pc[q], pc'[q])
  BY <1>1, OneMoves DEF PlayerStep, EnterThrows
<1>3. \A q \in Player \ {p} : pc[q] \notin SettingUp
  BY <1>1 DEF OneSetter, At, SettingUp
<1>4. Closed
  BY <1>1 DEF Calm, Phase, Assembling, Performing, At, SettingUp
<1>5. \A q \in Player : pc[q] \notin Member /\ pc[q] # "exit"
  BY <1>4 DEF Closed, At
<1>6. \A q \in Player : pc'[q] \notin Member \union {"exit", "set_needed", "send_stopped"}
  BY <1>1, <1>2, <1>3, <1>5 DEF Near, Idle, Gathering, Acting, Member, Through, Arriving, SettingUp
<1>7. Count(Member)' = 0
  BY <1>6, FS_EmptySet DEF Count, At
<1>8. K' = K /\ K \in Nat /\ scene_fragment_counter < Scenes
  BY <1>1, CastType DEF K, CastSize, TypeInv, SceneExists
<1>9. dpc \notin {"start_needed", "start_ready"}
  BY <1>1 DEF Calm, Running, At, SettingUp
<1>10. BarrierUnset'
  BY <1>1, <1>4, <1>6 DEF BarrierUnset, Closed, At, Member, Arriving
<1>11. At(Acting \union {"exit", "set_needed", "send_stopped"})' = {}
  BY <1>6 DEF At, Member, Through
<1> QED
  BY <1>1, <1>7, <1>8, <1>9, <1>10, <1>11 DEF Phase, Assembling

LEMMA SetterPhase ==
  ASSUME StillCalm, NEW p \in Player, ClearLeader(p) \/ SetNotReady(p)
  PROVE  Phase'
<1> USE CalmBefore
<1>1. /\ pc[p] \in {"clear_leader", "set_not_ready"}
      /\ pc[p] = "clear_leader" => /\ pc'[p] = "set_not_ready"
                                   /\ UNCHANGED not_ready_players_num
      /\ pc[p] = "set_not_ready" => /\ pc'[p] = "notify_one"
                                    /\ not_ready_players_num' = K
      /\ UNCHANGED <<scene_fragment_counter, needed_player_num, dpc>>
  BY DEF ClearLeader, SetNotReady, Goto, TypeInv, TypeOK, K
<1>2. PlayerStep(p) /\ ~EnterThrows(p)
  BY <1>1 DEF PlayerStep, EnterThrows
<1>3. /\ \A q \in Player \ {p} : Near(pc[q], pc'[q])
      /\ Count(Member)' = Count(Member) /\ Count(Through)' = Count(Through)
  BY <1>1, <1>2, OneMoves DEF Tally, Member, Through, Arriving, Acting
<1>4. \A q \in Player \ {p} : pc[q] \notin SettingUp
  BY <1>1 DEF OneSetter, At, SettingUp
<1>5. Assembling /\ BarrierUnset
  BY <1>1 DEF Calm, Phase, Closed, Performing, Assembling, BarrierSet, BarrierLost, At, SettingUp
<1>6. dpc \notin {"start_needed", "start_ready"}
  BY <1>1 DEF Calm, Running, At, SettingUp
<1>7. \A q \in Player : pc'[q] \notin {"barrier"} \union Through
  BY <1>1, <1>3, <1>5 DEF BarrierUnset, At, Near, Idle, Gathering, Acting, Through
<1>8. \A q \in Player : pc'[q] \notin Acting \union {"exit", "set_needed", "send_stopped"}
  BY <1>1, <1>3, <1>5 DEF Assembling, At, Near, Idle, Gathering, Acting
<1>9. \A q \in Player \ {p} : pc'[q] \notin SettingUp
  BY <1>3, <1>4 DEF Near, Idle, Gathering, Acting, SettingUp
<1>10. K' = K /\ K \in Nat /\ K > 0
  BY <1>1, <1>5, CastType DEF K, CastSize, Assembling
<1>11. CASE pc[p] = "clear_leader"
  <2>1. BarrierUnset'
    BY <1>1, <1>5, <1>7, <1>9, <1>11 DEF BarrierUnset, At, SettingUp
  <2> QED
    BY <1>1, <1>3, <1>5, <1>6, <1>8, <1>10, <2>1 DEF Phase, Assembling, At
<1>12. CASE pc[p] = "set_not_ready"
  <2>1. \A q \in Player : pc'[q] \notin {"clear_leader", "set_not_ready"}
    BY <1>1, <1>9, <1>12 DEF SettingUp
  <2>2. Count(Through)' = 0
    BY <1>7, FS_EmptySet DEF Count, At
  <2>3. BarrierSet'
    BY <1>1, <1>6, <1>10, <1>12, <2>1, <2>2 DEF BarrierSet, At
  <2> QED
    BY <1>1, <1>3, <1>5, <1>6, <1>8, <1>10, <2>3 DEF Phase, Assembling, At
<1> QED
  BY <1>1, <1>11, <1>12

LEMMA NotifiedPhase ==
  ASSUME StillCalm, NEW p \in Player, NotifyOne(p) \/ SendStopped(p)
  PROVE  Phase'
<1> USE CalmBefore
<1>1. /\ pc[p] \in {"notify_one", "send_stopped"} /\ pc'[p] = "start_working"
      /\ UNCHANGED <<scene_fragment_counter, needed_player_num, not_ready_players_num, dpc>>
  BY DEF NotifyOne, WakeOneNeeded, SendStopped, WakeNeeded, Woken, TypeInv, TypeOK
<1>2. PlayerStep(p) /\ ~EnterThrows(p)
  BY <1>1 DEF PlayerStep, EnterThrows
<1>3. /\ \A q \in Player \ {p} : Near(pc[q], pc'[q])
      /\ Count(Member)' = Count(Member) /\ Count(Through)' = Count(Through)
  BY <1>1, <1>2, OneMoves DEF Tally, Member, Through, Arriving, Acting
<1>4. /\ At(Member)' = At(Member) /\ At(Through)' = At(Through)
      /\ At({"barrier"} \union Through)' = At({"barrier"} \union Through)
      /\ At({"clear_leader", "set_not_ready"})' = At({"clear_leader", "set_not_ready"})
      /\ At({"clear_leader"})' = At({"clear_leader"})
  BY <1>1, <1>3 DEF At, Near, Idle, Gathering, Acting, Through, Member, Arriving
<1>5. K' = K
  BY <1>1 DEF K, CastSize
<1>6. CASE Closed
  BY <1>1, <1>3, <1>6 DEF Closed, Phase, At, Near, Idle, Gathering, Acting, Member, Through,
     Arriving
<1>7. CASE Assembling
  <2>1. At(Acting \union {"exit", "set_needed", "send_stopped"})' = {}
    BY <1>1, <1>3, <1>7 DEF Assembling, At, Near, Idle, Gathering, Acting
  <2> QED
    BY <1>1, <1>3, <1>4, <1>5, <1>7, <2>1 DEF Phase, Assembling, BarrierUnset, BarrierSet,
       BarrierLost
<1>8. CASE Performing
  BY <1>1, <1>3, <1>8, PerformingStays DEF Arriving, SettingUp
<1> QED
  BY <1>6, <1>7, <1>8 DEF Calm, Phase

(* The director's thread opens the first scene in two steps; a Ctrl-C in    *)
(* between leaves the barrier without a number.                             *)
LEMMA DirectorPhase ==
  ASSUME StillCalm, StartNeeded \/ StartReady \/ Sigint
  PROVE  Phase'
<1> USE CalmBefore
<1>1. /\ At(Member \union {"exit", "clear_leader", "set_not_ready", "notify_one"})'
           = At(Member \union {"exit", "clear_leader", "set_not_ready", "notify_one"})
      /\ At({"barrier"} \union Through)' = At({"barrier"} \union Through)
      /\ At({"clear_leader", "set_not_ready"})' = At({"clear_leader", "set_not_ready"})
      /\ At({"clear_leader"})' = At({"clear_leader"})
      /\ At(Acting \union {"exit", "set_needed", "send_stopped"})'
           = At(Acting \union {"exit", "set_needed", "send_stopped"})
      /\ At(Arriving \union (SettingUp \ {"notify_one"}))'
           = At(Arriving \union (SettingUp \ {"notify_one"}))
      /\ At(Member)' = At(Member) /\ At(Through)' = At(Through)
  BY DEF StartNeeded, StartReady, Sigint, At
<1>2. Count(Member)' = Count(Member) /\ Count(Through)' = Count(Through)
  BY <1>1 DEF Count
<1>3. UNCHANGED scene_fragment_counter /\ K' = K
  BY DEF StartNeeded, StartReady, Sigint, K, CastSize
<1>4. CASE StartNeeded
  <2>1. /\ dpc = "start_needed" /\ dpc' = "start_ready" /\ scene_fragment_counter = 0
        /\ needed_player_num' = K /\ UNCHANGED not_ready_players_num
    BY <1>4 DEF StartNeeded, Calm, Running, K
  <2>2. Closed
    BY <2>1 DEF Calm, Phase, Assembling, Performing
  <2>3. \A q \in Player : pc[q] \notin Member /\ pc[q] # "exit" /\ pc[q] \notin SettingUp
    BY <2>1, <2>2 DEF Closed, Calm, Running, At
  <2>4. At({"barrier"} \union Through) = {} /\ At({"clear_leader"}) = {}
        /\ At(Acting \union {"exit", "set_needed", "send_stopped"}) = {}
    BY <2>3 DEF At, Member, Through, Arriving, SettingUp
  <2>5. Count(Member) = 0
    BY <2>3, CountType DEF At
  <2>6. scene_fragment_counter < Scenes /\ K \in Nat
    <3>1. scene_fragment_counter < Scenes
      BY <2>1, PlayStageAssumption DEF Scenes
    <3> QED
      BY <3>1, CastType
  <2>7. BarrierUnset'
    BY <1>1, <2>1, <2>2, <2>4 DEF BarrierUnset, Closed
  <2> QED
    BY <1>1, <1>2, <1>3, <2>1, <2>4, <2>5, <2>6, <2>7 DEF Phase, Assembling
<1>5. CASE StartReady
  <2>1. /\ dpc = "start_ready" /\ dpc' = "start_notify" /\ scene_fragment_counter = 0
        /\ not_ready_players_num' = K /\ UNCHANGED needed_player_num
        /\ At(SettingUp) = {}
    BY <1>5 DEF StartReady, Calm, Running, K
  <2>2. Assembling /\ BarrierUnset
    BY <2>1 DEF Calm, Phase, Closed, Performing, Assembling, BarrierSet, BarrierLost
  <2>3. At({"clear_leader", "set_not_ready"}) = {}
    BY <2>1 DEF At, SettingUp
  <2>4. Count(Through) = 0
    <3>1. At(Through) = {}
      BY <2>2 DEF BarrierUnset, At
    <3> QED
      BY <3>1, CountType
  <2>5. K \in Nat /\ K > 0
    BY <2>2, CastType DEF Assembling
  <2>6. BarrierSet'
    BY <1>1, <1>2, <1>3, <2>1, <2>3, <2>4, <2>5 DEF BarrierSet
  <2> QED
    BY <1>1, <1>2, <1>3, <2>1, <2>2, <2>6 DEF Phase, Assembling
<1>6. CASE Sigint
  <2>1. dpc' = "stopped" /\ UNCHANGED <<needed_player_num, not_ready_players_num>>
    BY <1>6 DEF Sigint
  <2>2. CASE Closed
    BY <1>1, <2>1, <2>2 DEF Closed, Phase
  <2>3. CASE Performing
    BY <1>1, <1>3, <2>1, <2>3 DEF Performing, Phase
  <2>4. CASE Assembling /\ BarrierSet
    <3>1. BarrierSet'
      BY <1>1, <1>2, <1>3, <2>1, <2>4 DEF BarrierSet
    <3> QED
      BY <1>1, <1>2, <1>3, <2>1, <2>4, <3>1 DEF Phase, Assembling
  <2>5. CASE Assembling /\ BarrierLost
    <3>1. BarrierLost'
      BY <1>1, <1>2, <1>3, <2>1, <2>5 DEF BarrierLost
    <3> QED
      BY <1>1, <1>2, <1>3, <2>1, <2>5, <3>1 DEF Phase, Assembling
  <2>6. CASE Assembling /\ BarrierUnset
    <3>1. At(Through) = {}
      BY <2>6 DEF BarrierUnset, At
    <3>2. BarrierUnset' \/ BarrierLost'
      BY <1>1, <2>1, <2>6, <3>1 DEF BarrierUnset, BarrierLost
    <3> QED
      BY <1>1, <1>2, <1>3, <2>1, <2>6, <3>2 DEF Phase, Assembling
  <2> QED
    BY <2>2, <2>3, <2>4, <2>5, <2>6 DEF Calm, Phase, Assembling
<1> QED
  BY <1>4, <1>5, <1>6

(* The steps that move nobody from one region to another.                   *)
LEMMA QuietSteps ==
  ASSUME TypeInv, NEW p \in Player, PlayerStep(p), ~EnterThrows(p),
         ~(WaitForRecruited(p) /\ ~finished /\ needed_player_num > 0),
         ~EnterStore(p), ~Barrier(p), ~BarrierOpens(p), ~Act(p), ~Exit(p), ~SetNeeded(p),
         ~ClearLeader(p), ~SetNotReady(p), ~NotifyOne(p), ~SendStopped(p)
  PROVE  Quiet
<1> USE DEF TypeInv, TypeOK, Goto
<1>1. \A q \in Player \ {p} : Near(pc[q], pc'[q])
  BY OneMoves
<1>2. Near(pc[p], pc'[p])
  BY DEF PlayerStep, StartWorking, WaitForRecruited, BlockNeeded, IsLeader, AssignWork, Read,
     Enter, Recite, ReciteWoken, Deliver, Skip, GiveUp, Sleep, WakeNeeded, WakeRecite, Woken,
     Near, Idle, Gathering, Acting
<1>3. UNCHANGED <<scene_fragment_counter, needed_player_num, not_ready_players_num, dpc>>
  BY DEF PlayerStep, StartWorking, WaitForRecruited, BlockNeeded, IsLeader, AssignWork, Read,
     Enter, Recite, ReciteWoken
<1> QED
  BY <1>1, <1>2, <1>3 DEF Quiet

LEMMA PhaseStep == StillCalm => Phase'
<1> SUFFICES ASSUME StillCalm PROVE Phase'
  OBVIOUS
<1> USE CalmBefore
<1>0. Phase
  BY DEF Calm
<1>1. CASE StartNeeded \/ StartReady \/ Sigint
  BY <1>1, DirectorPhase
<1>2. CASE StartNotify \/ StopNotify \/ Stop \/ UNCHANGED vars
  <2>1. \A q \in Player : Near(pc[q], pc'[q])
    BY <1>2, DirectorOnlyWakes DEF DirectorStep, Awoken, Near, Idle, Acting
  <2>2. Quiet
    BY <1>2, <2>1 DEF Quiet, StartNotify, StopNotify, Stop, vars
  <2> QED
    BY <1>0, <2>2, QuietPhase
<1>3. ASSUME NEW p \in Player, PlayerStep(p), ~EnterThrows(p) PROVE Phase'
  <2>1. CASE Quiet
    BY <1>0, <2>1, QuietPhase
  <2>2. CASE ~Quiet
    BY <1>3, <2>2, QuietSteps, RecruitedPhase, EnterStorePhase, BarrierPhase, BarrierOpensPhase,
       ActPhase, ExitPhase, SetNeededPhase, SetterPhase, NotifiedPhase
  <2> QED
    BY <2>1, <2>2
<1> QED
  BY <1>1, <1>2, <1>3, CalmNext DEF DirectorStep

-----------------------------------------------------------------------------
(* The parts.  cue hands them out in the order of the players: the ranks of *)
(* a team are the numbers from 1, each taken once.                          *)
Team == {p \in Player : activated[p]}

LEMMA RankGrows ==
  ASSUME NEW p \in Team, NEW q \in Team, p < q
  PROVE  Rank(p) < Rank(q)
<1> DEFINE A == {r \in Player : activated[r] /\ r <= p}
           B == {r \in Player : activated[r] /\ r <= q}
<1>1. p \in Player /\ q \in Player /\ activated[q] /\ \A r \in Player : r \in Nat
  BY PlayStageAssumption DEF Team, Player
<1>2. A \in SUBSET B /\ B \in SUBSET Player /\ q \in B /\ q \notin A
  BY <1>1
<1>3. /\ IsFiniteSet(A) /\ IsFiniteSet(B) /\ Cardinality(A) \in Nat /\ Cardinality(B) \in Nat
      /\ Cardinality(A) <= Cardinality(B) /\ Cardinality(A) # Cardinality(B)
  BY <1>2, PlayersFinite, FS_Subset, FS_CardinalityType
<1>4. Rank(p) = Cardinality(A) /\ Rank(q) = Cardinality(B)
  BY DEF Rank
<1> QED
  BY <1>3, <1>4

LEMMA RankOfMember ==
  ASSUME NEW p \in Team
  PROVE  Rank(p) \in 1 .. Cardinality(Team)
<1> DEFINE A == {r \in Player : activated[r] /\ r <= p}
<1>1. A \in SUBSET Team /\ Team \in SUBSET Player /\ p \in A
  BY PlayStageAssumption DEF Team, Player
<1>2. /\ IsFiniteSet(A) /\ Cardinality(A) \in Nat /\ Cardinality(A) <= Cardinality(Team)
      /\ Cardinality(Team) \in Nat
  BY <1>1, PlayersFinite, FS_Subset, FS_CardinalityType
<1>3. Cardinality(A) # 0
  BY <1>1, <1>2, FS_EmptySet
<1>4. Rank(p) = Cardinality(A)
  BY DEF Rank
<1> QED
  BY <1>2, <1>3, <1>4

LEMMA EveryRankIsTaken ==
  ASSUME NEW c \in 1 .. Cardinality(Team)
  PROVE  \E p \in Team : Rank(p) = c
<1> DEFINE f == [p \in Team |-> Rank(p)]
           T == 1 .. Cardinality(Team)
<1>1. Team \in SUBSET Player
  BY DEF Team
<1>2. IsFiniteSet(Team) /\ Cardinality(Team) \in Nat
  BY <1>1, PlayersFinite, FS_Subset, FS_CardinalityType
<1>3. IsFiniteSet(T) /\ Cardinality(T) = Cardinality(Team)
  BY <1>2, FS_Interval
<1>4. f \in [Team -> T]
  BY RankOfMember
<1>5. ASSUME NEW p \in Team, NEW q \in Team, f[p] = f[q] PROVE p = q
  <2>1. p \in Nat /\ q \in Nat
    BY PlayStageAssumption DEF Team, Player
  <2>2. Rank(p) = Rank(q) /\ Rank(p) \in Nat
    BY <1>2, <1>5, RankOfMember
  <2> QED
    BY <2>1, <2>2, RankGrows
<1>6. f \in Injection(Team, T)
  BY <1>4, <1>5 DEF Injection, IsInjective
<1>7. f \in Surjection(Team, T)
  BY <1>3, <1>6, FS_Injection
<1> QED
  BY <1>7 DEF Surjection

(* cue gives every member of the team a part of the scene, and every part   *)
(* of the scene to a member.                                                *)
LEMMA AssignedParts ==
  ASSUME StillCalm, NEW p \in Player, AssignWork(p)
  PROVE  /\ \A q \in Player : ready_to_read'[q] <=> activated[q]
         /\ \A q \in Team : /\ current_scene_index'[q] = scene_fragment_counter
                           /\ part'[q] = [scene |-> scene_fragment_counter, char |-> Rank(q)]
                           /\ Rank(q) \in 1 .. K
         /\ \A c \in 1 .. K : \E q \in Team : Rank(q) = c
         /\ \A q \in Player : pc[q] \notin InHand
<1> USE CalmBefore
<1>1. pc[p] = "assign_work" /\ needed_player_num = 0
  BY DEF AssignWork
<1>2. Assembling /\ K \in Nat
  BY <1>1, WhichPhase, CastType DEF Arriving, Assembling
<1>3. Team = At(Member)
  BY DEF Team, At, TeamIsActivated, Calm, Running
<1>4. Cardinality(Team) = K
  BY <1>1, <1>2, <1>3, CountType DEF Assembling, Count
<1>5. \A q \in Team : Rank(q) \in 1 .. K
  BY <1>4, RankOfMember
<1>6. \A c \in 1 .. K : \E q \in Team : Rank(q) = c
  BY <1>4, EveryRankIsTaken
<1>7. \A q \in Player : q \in Cast(scene_fragment_counter) <=> q \in Team
  BY <1>5 DEF Cast, Team, K
<1>8. \A q \in Player : ~ready_to_read[q]
  BY <1>1 DEF Calm, Leader, At
<1>9. \A q \in Player : ready_to_read'[q] <=> activated[q]
  BY <1>7, <1>8 DEF AssignWork, Team, TypeInv, TypeOK
<1>10. \A q \in Team : /\ current_scene_index'[q] = scene_fragment_counter
                      /\ part'[q] = [scene |-> scene_fragment_counter, char |-> Rank(q)]
  BY <1>7 DEF AssignWork, Team
<1>11. \A q \in Player : pc[q] \notin InHand
  BY <1>8 DEF TeamIsActivated
<1> QED
  BY <1>5, <1>6, <1>9, <1>10, <1>11

LEMMA TextType ==
  ASSUME TypeInv, scene_fragment_counter < Scenes, NEW c \in 1 .. K
  PROVE  /\ c # 0 /\ Script[scene_fragment_counter + 1][c] \in Seq(Nat \ {0})
<1>1. scene_fragment_counter + 1 \in 1 .. Len(Script) /\ K \in Nat
  BY CastType, PlayStageAssumption DEF TypeInv, TypeOK, Scenes
<1>2. /\ Script[scene_fragment_counter + 1] \in Seq(Seq(Nat \ {0}))
      /\ c \in 1 .. Len(Script[scene_fragment_counter + 1])
  BY <1>1, PlayStageAssumption DEF K, CastSize
<1> QED
  BY <1>1, <1>2

(* The text of a player with its part in hand.                              *)
LEMMA TextInHand ==
  ASSUME TypeInv, TeamIsActivated, Calm, NEW p \in Player, pc[p] \in InHand
  PROVE  /\ part[p].char \in 1 .. K /\ scene_fragment_counter < Scenes
         /\ ready_to_read[p] /\ current_scene_index[p] = scene_fragment_counter
         /\ lines[p] = part[p] /\ lines[p].scene = scene_fragment_counter
         /\ LinesOf(lines[p]) = Script[scene_fragment_counter + 1][part[p].char]
         /\ LinesOf(lines[p]) \in Seq(Nat \ {0})
<1>1. ready_to_read[p]
  BY DEF TeamIsActivated
<1>2. /\ current_scene_index[p] = scene_fragment_counter
      /\ part[p].scene = scene_fragment_counter
      /\ part[p].char \in 1 .. K
  BY <1>1 DEF Calm, RightPart
<1>3. lines[p] = part[p]
  BY DEF Calm, RightPlace, Place, At
<1>4. scene_fragment_counter < Scenes
  BY WhichPhase DEF InHand, Through, Acting, Arriving, Assembling, Performing, Calm, Phase,
     Closed, At, Member
<1>5. part[p].char # 0 /\ Script[scene_fragment_counter + 1][part[p].char] \in Seq(Nat \ {0})
  BY <1>2, <1>4, TextType
<1>6. LinesOf(lines[p]) = Script[scene_fragment_counter + 1][part[p].char]
  BY <1>2, <1>3, <1>5 DEF LinesOf
<1> QED
  BY <1>1, <1>2, <1>3, <1>4, <1>5, <1>6

(* What most steps leave of what a player knows and the audience has heard. *)
Unheard == UNCHANGED <<scene_fragment_counter, line_counter, ready_to_read, current_scene_index,
                       part, lines, it, recited>>

LEMMA UnheardSteps ==
  ASSUME NEW p \in Player, PlayerStep(p), ~EnterThrows(p), ~AssignWork(p), ~Read(p), ~Act(p),
         ~Recite(p), ~ReciteWoken(p), ~Exit(p)
  PROVE  Unheard
  BY DEF PlayerStep, StartWorking, WaitForRecruited, BlockNeeded, IsLeader, Enter, EnterStore,
     Barrier, BarrierOpens, SetNeeded, ClearLeader, SetNotReady, NotifyOne, SendStopped, Unheard

LEMMA DirectorUnheard ==
  ASSUME DirectorStep \/ Stop \/ Sigint \/ UNCHANGED vars
  PROVE  Unheard
  BY DEF DirectorStep, StartNeeded, StartReady, StartNotify, StopNotify, Stop, Sigint, vars, Unheard

LEMMA RightPartStep == StillCalm => RightPart'
<1> SUFFICES ASSUME StillCalm PROVE RightPart'
  OBVIOUS
<1> USE CalmBefore
<1>0. RightPart
  BY DEF Calm
<1>1. ASSUME UNCHANGED scene_fragment_counter,
             \A q \in Player : ready_to_read'[q] =>
               /\ ready_to_read[q] /\ part'[q] = part[q]
               /\ current_scene_index'[q] = current_scene_index[q]
      PROVE  RightPart'
  BY <1>0, <1>1 DEF RightPart, K, CastSize
<1>2. CASE DirectorStep \/ Stop \/ Sigint \/ UNCHANGED vars
  BY <1>1, <1>2, DirectorUnheard DEF Unheard
<1>3. ASSUME NEW p \in Player, PlayerStep(p), ~EnterThrows(p) PROVE RightPart'
  <2>1. CASE AssignWork(p)
    <3>1. UNCHANGED scene_fragment_counter /\ K' = K
      BY <2>1 DEF AssignWork, K, CastSize
    <3>2. \A q \in Player : ready_to_read'[q] => q \in Team
      BY <2>1, AssignedParts DEF Team
    <3>3. \A q \in Team : /\ current_scene_index'[q] = scene_fragment_counter
                        /\ part'[q].scene = scene_fragment_counter
                        /\ part'[q].char \in 1 .. K
      <4>1. \A q \in Team : /\ current_scene_index'[q] = scene_fragment_counter
                          /\ part'[q] = [scene |-> scene_fragment_counter, char |-> Rank(q)]
                          /\ Rank(q) \in 1 .. K
        BY <2>1, AssignedParts
      <4>2. ASSUME NEW q \in Team
            PROVE  part'[q].scene = scene_fragment_counter /\ part'[q].char = Rank(q)
        <5>1. part'[q] = [scene |-> scene_fragment_counter, char |-> Rank(q)]
          BY <4>1
        <5> QED
          BY ONLY <5>1
      <4> QED
        BY <4>1, <4>2
    <3> QED
      BY <3>1, <3>2, <3>3 DEF RightPart
  <2>2. CASE Act(p)
    BY <1>1, <2>2 DEF Act, ClearPlayer, TypeInv, TypeOK
  <2>3. CASE Exit(p)
    <3>1. CASE on_stage_member_num > 1
      BY <1>1, <2>3, <3>1 DEF Exit, LastOnStage
    <3>2. CASE ~(on_stage_member_num > 1)
      <4>1. \A q \in Player : pc[q] \notin Member
        <5>1. on_stage_member_num <= 1
          BY <3>2 DEF TypeInv, TypeOK
        <5> QED
          BY <2>3, <5>1, LastOneLeaves DEF Exit
      <4>2. \A q \in Player : ~ready_to_read[q]
        BY <4>1 DEF TeamIsActivated, Calm, Running
      <4> QED
        BY <2>3, <4>2 DEF RightPart, Exit
    <3> QED
      BY <3>1, <3>2
  <2>4. CASE Read(p) \/ Recite(p) \/ ReciteWoken(p)
    BY <1>1, <2>4 DEF Read, Recite, ReciteWoken
  <2> QED
    BY <1>1, <1>3, <2>1, <2>2, <2>3, <2>4, UnheardSteps DEF Unheard
<1> QED
  BY <1>2, <1>3, CalmNext

(* A player that is not disturbed keeps its place, and the play's counter   *)
(* only grows while it has a part in hand.                                  *)
LEMMA PlaceKept ==
  ASSUME StillCalm, NEW q \in Player, pc'[q] \in InHand, pc[q] \in InHand,
         pc'[q] \in Acting <=> pc[q] \in Acting,
         pc'[q] \in {"recite", "sleep_recite", "woken_recite"} =>
           pc[q] \in {"recite", "sleep_recite", "woken_recite"},
         lines'[q] = lines[q], part'[q] = part[q], it'[q] = it[q],
         line_counter' \in {line_counter, line_counter + 1}
  PROVE  Place(q)'
<1> USE CalmBefore
<1>1. /\ lines[q] = part[q]
      /\ pc[q] \notin Acting => it[q] = 0
      /\ it[q] <= Len(LinesOf(lines[q]))
      /\ pc[q] \in {"recite", "sleep_recite", "woken_recite"} => it[q] < Len(LinesOf(lines[q]))
      /\ \A n \in 1 .. it[q] : LinesOf(lines[q])[n] < line_counter
  BY DEF Calm, RightPlace, Place, At
<1>2. LinesOf(lines[q]) \in Seq(Nat \ {0}) /\ LinesOf(lines'[q]) = LinesOf(lines[q])
  BY TextInHand DEF LinesOf
<1>3. it[q] \in Nat /\ line_counter \in Nat
  BY DEF TypeInv, TypeOK
<1>4. \A n \in 1 .. it[q] : LinesOf(lines[q])[n] \in Nat
  BY <1>1, <1>2, <1>3
<1>5. \A n \in 1 .. it[q] : LinesOf(lines[q])[n] < line_counter'
  BY <1>1, <1>3, <1>4
<1> QED
  BY <1>1, <1>2, <1>5 DEF Place

(* One line further. *)
LEMMA PlaceAdvanced ==
  ASSUME StillCalm, NEW p \in Player, pc[p] \in {"recite", "sleep_recite", "woken_recite"},
         pc'[p] = "act", it' = [it EXCEPT ![p] = @ + 1], UNCHANGED <<lines, part>>,
         Number(p) < line_counter', line_counter' \in {line_counter, line_counter + 1}
  PROVE  Place(p)'
<1> USE CalmBefore
<1>1. pc[p] \in InHand
  BY DEF InHand, Through, Acting
<1>2. /\ lines[p] = part[p]
      /\ it[p] < Len(LinesOf(lines[p]))
      /\ \A n \in 1 .. it[p] : LinesOf(lines[p])[n] < line_counter
  BY <1>1 DEF Calm, RightPlace, Place, At
<1>3. LinesOf(lines[p]) \in Seq(Nat \ {0}) /\ LinesOf(lines'[p]) = LinesOf(lines[p])
  BY <1>1, TextInHand DEF LinesOf
<1>4. it[p] \in Nat /\ line_counter \in Nat /\ it'[p] = it[p] + 1
  BY DEF TypeInv, TypeOK
<1>5. ASSUME NEW n \in 1 .. it'[p] PROVE LinesOf(lines[p])[n] < line_counter'
  <2>1. CASE n = it[p] + 1
    BY <2>1 DEF Number
  <2>2. CASE n # it[p] + 1
    <3>1. n \in 1 .. it[p] /\ LinesOf(lines[p])[n] \in Nat
      BY <1>2, <1>3, <1>4, <2>2
    <3> QED
      BY <1>2, <1>4, <3>1
  <2> QED
    BY <2>1, <2>2
<1>6. Len(LinesOf(lines[p])) \in Nat
  BY <1>3
<1> QED
  BY <1>2, <1>3, <1>4, <1>5, <1>6 DEF Place, Acting

(* The number a player wants to recite is a number, so that the play either *)
(* has come to it, has not yet, or is past it.                              *)
LEMMA WantedNumber ==
  ASSUME TypeInv, TeamIsActivated, Calm, NEW p \in Player,
         pc[p] \in {"recite", "sleep_recite", "woken_recite"}
  PROVE  /\ Number(p) \in Nat \ {0} /\ it[p] + 1 \in 1 .. Len(LinesOf(lines[p]))
         /\ Number(p) = LinesOf(lines[p])[it[p] + 1]
         /\ Due(p) <=> line_counter = Number(p)
         /\ ~Due(p) /\ ~NotYet(p) => Number(p) < line_counter
<1>1. pc[p] \in InHand
  BY DEF InHand, Through, Acting
<1>2. LinesOf(lines[p]) \in Seq(Nat \ {0}) /\ current_scene_index[p] = scene_fragment_counter
  BY <1>1, TextInHand
<1>3. it[p] \in Nat /\ it[p] < Len(LinesOf(lines[p]))
  BY <1>1 DEF Calm, RightPlace, Place, At, TypeInv, TypeOK
<1>4. it[p] + 1 \in 1 .. Len(LinesOf(lines[p]))
  BY <1>2, <1>3
<1>5. Number(p) \in Nat \ {0}
  BY <1>2, <1>4 DEF Number
<1>6. line_counter \in Nat
  BY DEF TypeInv, TypeOK
<1> QED
  BY <1>2, <1>4, <1>5, <1>6 DEF Due, NotYet, Number

(* The three ways through recite: a line is said, passed over, or waited    *)
(* for.                                                                     *)
LEMMA ReciteOutcomes ==
  ASSUME StillCalm, NEW p \in Player, Recite(p) \/ ReciteWoken(p)
  PROVE  /\ pc[p] \in {"recite", "woken_recite"} /\ pc[p] \in InHand
         /\ UNCHANGED <<scene_fragment_counter, ready_to_read, current_scene_index, part, lines,
                       finished, dpc>>
         /\ \/ Deliver(p) /\ pc'[p] = "act"
            \/ Skip(p) /\ pc'[p] = "act"
            \/ /\ pc'[p] \in {"act", "sleep_recite"}
               /\ UNCHANGED <<recited, line_counter, it>>
  BY CalmBefore DEF Recite, ReciteWoken, Deliver, Skip, GiveUp, Sleep, Goto, WakeRecite,
     WakeNeeded, Woken, InHand, Through, Acting, TypeInv, TypeOK

LEMMA RightPlaceStep == StillCalm => RightPlace'
<1> SUFFICES ASSUME StillCalm, NEW q \in Player, pc'[q] \in InHand PROVE Place(q)'
  BY DEF RightPlace, At
<1> USE CalmBefore
<1>1. ASSUME Unheard, Awoken(q) PROVE Place(q)'
  <2>1. pc[q] \in InHand /\ (pc'[q] \in Acting <=> pc[q] \in Acting)
    BY <1>1 DEF Awoken, InHand, Through, Acting
  <2> QED
    BY <1>1, <2>1, PlaceKept DEF Unheard, Awoken
<1>2. CASE DirectorStep \/ Stop \/ Sigint \/ UNCHANGED vars
  BY <1>1, <1>2, DirectorUnheard, DirectorOnlyWakes
<1>3. ASSUME NEW p \in Player, PlayerStep(p), ~EnterThrows(p), q # p PROVE Place(q)'
  <2>1. Awoken(q)
    BY <1>3, OthersOnlyWake
  <2>2. pc[q] \in InHand /\ (pc'[q] \in Acting <=> pc[q] \in Acting)
    BY <2>1 DEF Awoken, InHand, Through, Acting
  <2>3. ~AssignWork(p)
    BY <2>2, AssignedParts
  <2>4. CASE Read(p)
    BY <1>3, <2>1, <2>2, <2>4, PlaceKept DEF Read, Awoken, TypeInv, TypeOK
  <2>5. CASE Act(p)
    <3>1. /\ lines'[q] = lines[q] /\ part'[q] = part[q] /\ it'[q] = it[q]
          /\ UNCHANGED line_counter
      BY <1>3, <2>5 DEF Act, ClearPlayer, TypeInv, TypeOK
    <3> QED
      BY <2>1, <2>2, <3>1, PlaceKept DEF Awoken
  <2>6. CASE Exit(p)
    <3>1. on_stage_member_num > 1
      <4>1. pc[q] \in Member
        BY <2>2, WhichPhase DEF InHand, Member, Arriving
      <4> QED
        <5>1. on_stage_member_num \in Nat
          BY DEF TypeInv, TypeOK
        <5> QED
          BY <2>6, <4>1, <5>1, LastOneLeaves DEF Exit
    <3>2. UNCHANGED <<line_counter, lines, part, it>>
      BY <2>6, <3>1 DEF Exit, LastOnStage
    <3> QED
      BY <2>1, <2>2, <3>2, PlaceKept DEF Awoken
  <2>7. CASE Recite(p) \/ ReciteWoken(p)
    <3>1. UNCHANGED <<lines, part>>
      BY <2>7, ReciteOutcomes
    <3>2. it'[q] = it[q] /\ line_counter' \in {line_counter, line_counter + 1}
      <4>1. it \in [Player -> Nat]
        BY DEF TypeInv, TypeOK
      <4> QED
        BY <1>3, <2>7, <4>1, ReciteOutcomes DEF Deliver, Skip
    <3> QED
      BY <2>1, <2>2, <3>1, <3>2, PlaceKept DEF Awoken
  <2> QED
    BY <1>1, <1>3, <2>1, <2>3, <2>4, <2>5, <2>6, <2>7, UnheardSteps
<1>4. ASSUME PlayerStep(q), ~EnterThrows(q) PROVE Place(q)'
  <2> USE DEF TypeInv, TypeOK, Goto
  <2>1. ~AssignWork(q)
    BY DEF AssignWork, InHand, Through, Acting
  <2>2. CASE Read(q)
    <3>1. /\ pc'[q] = "enter" /\ it'[q] = 0 /\ lines'[q] = part[q] /\ ready_to_read[q]
          /\ UNCHANGED <<scene_fragment_counter, part>>
      BY <2>2 DEF Read
    <3>2. /\ part[q].scene = scene_fragment_counter /\ part[q].char \in 1 .. K
          /\ Assembling
      <4>1. pc[q] \in Arriving
        BY <2>2 DEF Read, Arriving
      <4> QED
        BY <3>1, <4>1, WhichPhase DEF Calm, RightPart
    <3>3. LinesOf(part[q]) \in Seq(Nat \ {0})
      <4>1. scene_fragment_counter < Scenes
        BY <3>2 DEF Assembling
      <4> QED
        BY <3>2, <4>1, TextType DEF LinesOf
    <3> QED
      BY <3>1, <3>3 DEF Place, Acting
  <2>3. CASE Enter(q) \/ EnterStore(q) \/ Barrier(q) \/ BarrierOpens(q)
    <3>1. /\ pc[q] \in InHand /\ pc[q] \notin Acting
          /\ pc'[q] \in {"enter_store", "barrier", "sleep_ready", "act"}
          /\ UNCHANGED <<line_counter, lines, part, it>>
      BY <2>3 DEF Enter, EnterStore, Barrier, BarrierOpens, InHand, Through, Acting
    <3>2. Place(q)
      BY <3>1 DEF Calm, RightPlace, At
    <3> QED
      BY <3>1, <3>2 DEF Place
  <2>4. CASE Act(q)
    <3>1. /\ pc[q] = "act" /\ pc'[q] = "recite" /\ it[q] < Len(LinesOf(lines[q]))
          /\ UNCHANGED <<line_counter, lines, part, it>>
      BY <2>4 DEF Act, InHand, Through, Acting
    <3>2. Place(q)
      BY <3>1 DEF Calm, RightPlace, At, InHand, Through, Acting
    <3> QED
      BY <3>1, <3>2 DEF Place, Acting, LinesOf
  <2>5. CASE Recite(q) \/ ReciteWoken(q)
    <3>1. pc[q] \in {"recite", "sleep_recite", "woken_recite"} /\ UNCHANGED <<lines, part>>
      BY <2>5, ReciteOutcomes
    <3>2. CASE Deliver(q) /\ pc'[q] = "act"
      <4>1. line_counter = Number(q) /\ Number(q) \in Nat
        BY <3>1, <3>2, WantedNumber DEF Deliver
      <4>2. /\ it' = [it EXCEPT ![q] = @ + 1] /\ line_counter' = line_counter + 1
            /\ Number(q) < line_counter'
        BY <3>2, <4>1 DEF Deliver
      <4> QED
        BY <3>1, <3>2, <4>2, PlaceAdvanced
    <3>3. CASE Skip(q) /\ pc'[q] = "act"
      <4>1. Number(q) < line_counter
        BY <3>1, <3>3, WantedNumber DEF Skip
      <4> QED
        BY <3>1, <3>3, <4>1, PlaceAdvanced DEF Skip
    <3>4. CASE pc'[q] \in {"act", "sleep_recite"} /\ UNCHANGED <<recited, line_counter, it>>
      <4>1. Place(q)
        BY <3>1 DEF Calm, RightPlace, At, InHand, Through, Acting
      <4> QED
        BY <3>1, <3>4, <4>1 DEF Place, Acting, LinesOf
    <3> QED
      BY <2>5, <3>2, <3>3, <3>4, ReciteOutcomes
  <2>6. CASE Exit(q)
    BY <2>6 DEF Exit, AfterScene, InHand, Through, Acting
  <2>7. CASE /\ ~Read(q) /\ ~Enter(q) /\ ~EnterStore(q) /\ ~Barrier(q) /\ ~BarrierOpens(q)
             /\ ~Act(q) /\ ~Recite(q) /\ ~ReciteWoken(q) /\ ~Exit(q)
    BY <1>4, <2>1, <2>7 DEF PlayerStep, StartWorking, WaitForRecruited, BlockNeeded, IsLeader,
       SetNeeded, ClearLeader, SetNotReady, NotifyOne, WakeOneNeeded, SendStopped, WakeNeeded,
       Woken, InHand, Through, Acting
  <2> QED
    BY <2>2, <2>3, <2>4, <2>5, <2>6, <2>7
<1> QED
  BY <1>2, <1>3, <1>4, CalmNext

LEMMA RightSoFarStep == StillCalm => RightSoFar'
<1> SUFFICES ASSUME StillCalm PROVE RightSoFar'
  OBVIOUS
<1> USE CalmBefore
<1>0. RightSoFar /\ recited \in Seq(Spoken)
  BY DEF Calm, TypeInv, TypeOK
<1>1. CASE UNCHANGED recited
  BY <1>0, <1>1 DEF RightSoFar
<1>2. ASSUME NEW p \in Player, Recite(p) \/ ReciteWoken(p), Deliver(p) PROVE RightSoFar'
  <2>1. lines[p].scene = scene_fragment_counter
    BY <1>2, ReciteOutcomes, TextInHand
  <2> DEFINE new == [scene |-> scene_fragment_counter, line |-> line_counter,
                     from |-> lines[p].scene]
  <2>2. recited' = Append(recited, new) /\ new.from = new.scene /\ new \in Spoken
    BY <1>2, <2>1 DEF Deliver, Spoken, TypeInv, TypeOK
  <2> HIDE DEF new
  <2>3. /\ Len(recited') = Len(recited) + 1 /\ Len(recited) \in Nat
        /\ recited'[Len(recited) + 1] = new
        /\ \A i \in 1 .. Len(recited) : recited'[i] = recited[i]
    BY <1>0, <2>2
  <2> QED
    BY <1>0, <2>2, <2>3 DEF RightSoFar
<1>3. CASE \E p \in Player : PlayerStep(p) /\ ~EnterThrows(p)
  <2>1. PICK p \in Player : PlayerStep(p) /\ ~EnterThrows(p)
    BY <1>3
  <2>2. CASE Recite(p) \/ ReciteWoken(p)
    BY <1>1, <1>2, <2>2, ReciteOutcomes DEF Skip
  <2>3. CASE ~Recite(p) /\ ~ReciteWoken(p)
    BY <1>1, <2>1, <2>3, UnheardSteps DEF Unheard, AssignWork, Read, Act, Exit
  <2> QED
    BY <2>2, <2>3
<1> QED
  BY <1>1, <1>3, CalmNext, DirectorUnheard DEF Unheard

(* Every part is in somebody's hand until all its lines have been heard.    *)
LEMMA PartsStay ==
  ASSUME StillCalm, UNCHANGED <<scene_fragment_counter, ready_to_read, part>>,
         At({"exit"})' # {} => At({"exit"}) # {},
         line_counter' \in {line_counter, line_counter + 1},
         Interrupted => Interrupted'
  PROVE  EveryPartIsHandedOut'
<1> USE CalmBefore
<1> SUFFICES ASSUME (\E p \in Player : ready_to_read'[p]) \/ At({"exit"})' # {},
                    NEW c \in 1 .. K,
                    ~Interrupted', ~\E p \in Player : ready_to_read'[p] /\ part'[p].char = c
             PROVE  HasSpoken(c)'
  BY DEF EveryPartIsHandedOut, K, CastSize
<1>1. HasSpoken(c)
  BY DEF Calm, EveryPartIsHandedOut
<1>2. scene_fragment_counter < Scenes
  <2>1. \A p \in Player : ready_to_read[p] => pc[p] \in Member
    BY DEF TeamIsActivated, Calm, Running
  <2> QED
    BY <2>1 DEF Calm, Phase, Closed, Assembling, Performing, At
<1>3. Script[scene_fragment_counter + 1][c] \in Seq(Nat \ {0}) /\ line_counter \in Nat
  BY <1>2, TextType DEF TypeInv, TypeOK
<1>4. \A n \in 1 .. Len(Script[scene_fragment_counter + 1][c]) :
        Script[scene_fragment_counter + 1][c][n] \in Nat
  BY <1>3
<1> QED
  BY <1>1, <1>3, <1>4 DEF HasSpoken

LEMMA ActHandsOn ==
  ASSUME StillCalm, NEW p \in Player, Act(p)
  PROVE  EveryPartIsHandedOut'
<1> USE CalmBefore
<1>1. /\ pc[p] = "act" /\ pc[p] \in InHand /\ p \in At(InHand)
      /\ pc'[p] \in {"recite", "exit"}
      /\ UNCHANGED <<scene_fragment_counter, line_counter, finished, dpc>>
  BY DEF Act, InHand, Through, Acting, At, Goto, TypeInv, TypeOK
<1>2. PlayerStep(p) /\ ~EnterThrows(p)
  BY <1>1 DEF PlayerStep, EnterThrows
<1>3. \A q \in Player \ {p} : pc'[q] = "exit" <=> pc[q] = "exit"
  BY <1>2, OthersOnlyWake DEF Awoken
<1>4. K' = K /\ Interrupted' = Interrupted /\ \A c \in 1 .. K : HasSpoken(c)' = HasSpoken(c)
  BY <1>1 DEF K, CastSize, Interrupted, HasSpoken
<1>5. ready_to_read[p] /\ part[p].char \in 1 .. K /\ scene_fragment_counter < Scenes
  BY <1>1, TextInHand
<1>6. CASE pc'[p] = "recite"
  <2>1. UNCHANGED <<ready_to_read, part>>
    BY <1>6 DEF Act, Goto, TypeInv, TypeOK
  <2>2. At({"exit"})' = At({"exit"})
    BY <1>1, <1>3, <1>6 DEF At
  <2> QED
    BY <1>1, <1>4, <2>1, <2>2, PartsStay
<1>7. CASE pc'[p] = "exit"
  <2>1. /\ it[p] >= Len(LinesOf(lines[p])) \/ finished
        /\ \A q \in Player \ {p} : ready_to_read'[q] = ready_to_read[q] /\ part'[q] = part[q]
    <3>1. ~(it[p] < Len(LinesOf(lines[p])) /\ ~finished) /\ ClearPlayer(p)
      BY <1>7 DEF Act, Goto, TypeInv, TypeOK
    <3>2. LinesOf(lines[p]) \in Seq(Nat \ {0}) /\ it[p] \in Nat
      BY <1>1, TextInHand DEF TypeInv, TypeOK
    <3> QED
      BY <3>1, <3>2 DEF ClearPlayer, TypeInv, TypeOK
  <2>2. Interrupted \/ HasSpoken(part[p].char)
    <3>1. CASE finished
      BY <1>5, <3>1, PlayStageAssumption DEF Calm, Running, TypeInv, TypeOK, Scenes
    <3>2. CASE it[p] >= Len(LinesOf(lines[p]))
      <4>1. /\ LinesOf(lines[p]) = Script[scene_fragment_counter + 1][part[p].char]
            /\ LinesOf(lines[p]) \in Seq(Nat \ {0})
        BY <1>1, TextInHand
      <4>2. /\ it[p] <= Len(LinesOf(lines[p])) /\ it[p] \in Nat
            /\ \A n \in 1 .. it[p] : LinesOf(lines[p])[n] < line_counter
        BY <1>1 DEF Calm, RightPlace, Place, TypeInv, TypeOK
      <4> QED
        BY <3>2, <4>1, <4>2 DEF HasSpoken
    <3> QED
      BY <2>1, <3>1, <3>2
  <2>3. \A c \in 1 .. K : \/ Interrupted
                          \/ \E q \in Player : ready_to_read[q] /\ part[q].char = c
                          \/ HasSpoken(c)
    BY <1>5 DEF Calm, EveryPartIsHandedOut
  <2>4. \A c \in 1 .. K : \/ Interrupted
                          \/ \E q \in Player : ready_to_read'[q] /\ part'[q].char = c
                          \/ HasSpoken(c)
    BY <2>1, <2>2, <2>3
  <2> QED
    BY <1>4, <2>4 DEF EveryPartIsHandedOut
<1> QED
  BY <1>1, <1>6, <1>7

LEMMA EveryPartStep == StillCalm => EveryPartIsHandedOut'
<1> SUFFICES ASSUME StillCalm PROVE EveryPartIsHandedOut'
  OBVIOUS
<1> USE CalmBefore
<1>1. CASE DirectorStep \/ Stop \/ Sigint \/ UNCHANGED vars
  <2>1. At({"exit"})' = At({"exit"})
    BY <1>1, NobodyMoves DEF Whole
  <2>2. Interrupted => Interrupted'
    BY <1>1 DEF DirectorStep, StartNeeded, StartReady, StartNotify, StopNotify, Stop, Sigint, vars,
       Interrupted
  <2> QED
    BY <1>1, <2>1, <2>2, PartsStay, DirectorUnheard DEF Unheard
<1>2. ASSUME NEW p \in Player, PlayerStep(p), ~EnterThrows(p) PROVE EveryPartIsHandedOut'
  <2>0. dpc' = dpc
    BY <1>2 DEF PlayerStep, StartWorking, WaitForRecruited, BlockNeeded, IsLeader, AssignWork,
       Read, Enter, EnterStore, Barrier, BarrierOpens, Act, Recite, ReciteWoken, Exit, SetNeeded,
       ClearLeader, SetNotReady, NotifyOne, SendStopped
  <2>1. \A q \in Player \ {p} : pc'[q] = "exit" <=> pc[q] = "exit"
    BY <1>2, OthersOnlyWake DEF Awoken
  <2>2. CASE AssignWork(p)
    <3>1. \A c \in 1 .. K : \E q \in Player : ready_to_read'[q] /\ part'[q].char = c
      <4>1. ASSUME NEW c \in 1 .. K
            PROVE  \E q \in Player : ready_to_read'[q] /\ part'[q].char = c
        <5>1. PICK q \in Team : Rank(q) = c
          BY <2>2, AssignedParts
        <5>2. q \in Player /\ ready_to_read'[q]
          BY <2>2, AssignedParts DEF Team
        <5>3. part'[q] = [scene |-> scene_fragment_counter, char |-> Rank(q)]
          BY <2>2, AssignedParts
        <5>4. part'[q].char = Rank(q)
          BY ONLY <5>3
        <5> QED
          BY <5>1, <5>2, <5>4
      <4> QED
        BY <4>1
    <3>2. K' = K
      BY <2>2 DEF AssignWork, K, CastSize
    <3> QED
      BY <3>1, <3>2 DEF EveryPartIsHandedOut
  <2>3. CASE Act(p)
    BY <2>3, ActHandsOn
  <2>4. CASE Exit(p) /\ on_stage_member_num <= 1
    <3>1. \A q \in Player : pc[q] \notin Member /\ (q # p => pc[q] # "exit")
      BY <2>4, LastOneLeaves DEF Exit
    <3>2. \A q \in Player : ~ready_to_read[q]
      BY <3>1 DEF TeamIsActivated, Calm, Running
    <3>3. pc'[p] # "exit" /\ UNCHANGED ready_to_read
      BY <2>4 DEF Exit, AfterScene, Goto, TypeInv, TypeOK
    <3> QED
      BY <2>1, <3>1, <3>2, <3>3 DEF EveryPartIsHandedOut, At
  <2>5. CASE /\ ~AssignWork(p) /\ ~Act(p) /\ ~(Exit(p) /\ on_stage_member_num <= 1)
    <3>1. pc'[p] # "exit"
      BY <1>2, <2>5 DEF PlayerStep, StartWorking, WaitForRecruited, BlockNeeded, IsLeader,
         Read, Enter, EnterStore, Barrier, BarrierOpens, Recite, ReciteWoken, Deliver, Skip,
         GiveUp, Sleep, Exit, AfterScene, SetNeeded, ClearLeader, SetNotReady, NotifyOne,
         WakeOneNeeded, SendStopped, WakeNeeded, WakeRecite, Woken, Goto, TypeInv, TypeOK
    <3>2. At({"exit"})' # {} => At({"exit"}) # {}
      BY <2>1, <3>1 DEF At
    <3>3. UNCHANGED <<scene_fragment_counter, ready_to_read, part>>
          /\ line_counter' \in {line_counter, line_counter + 1}
      <4>1. CASE Recite(p) \/ ReciteWoken(p)
        BY <4>1, ReciteOutcomes DEF Deliver, Skip
      <4>2. CASE Read(p)
        BY <4>2 DEF Read
      <4>3. CASE Exit(p)
        BY <2>5, <4>3 DEF Exit, LastOnStage, TypeInv, TypeOK
      <4> QED
        BY <1>2, <2>5, <4>1, <4>2, <4>3, UnheardSteps DEF Unheard
    <3> QED
      BY <2>0, <3>2, <3>3, PartsStay DEF Interrupted
  <2> QED
    BY <2>2, <2>3, <2>4, <2>5
<1> QED
  BY <1>1, <1>2, CalmNext

-----------------------------------------------------------------------------
(* The invariant, and what it says of the runs' properties. *)

LEMMA TeamInit == Init => TeamInv
<1> SUFFICES ASSUME Init PROVE TeamInv
  OBVIOUS
<1>1. TypeInv
  BY TypeInit
<1>2. /\ \A p \in Player : /\ pc[p] = "start_working" /\ activated[p] = FALSE
                          /\ ready_to_read[p] = FALSE
      /\ scene_fragment_counter = 0 /\ on_stage_member_num = 0 /\ needed_player_num = 0
      /\ not_ready_players_num = 0 /\ finished = FALSE /\ dpc = "start_needed"
      /\ recited = <<>> /\ raced = FALSE
  BY DEF Init
<1>3. ASSUME NEW S, "start_working" \notin S PROVE At(S) = {} /\ Count(S) = 0
  <2>1. At(S) = {}
    BY <1>2, <1>3 DEF At
  <2> QED
    BY <2>1, CountType
<1>4. /\ At(Entered) = {} /\ Count(Entered) = 0 /\ At(InHand) = {} /\ At(SettingUp) = {}
      /\ At({"assign_work"}) = {} /\ At({"exit"}) = {}
      /\ At(Member \union {"exit", "clear_leader", "set_not_ready", "notify_one"}) = {}
  BY <1>3 DEF Entered, InHand, Member, Through, Acting, Arriving, SettingUp
<1>5. OneSetter /\ TeamIsActivated
  BY <1>2, <1>4 DEF OneSetter, TeamIsActivated, Member, InHand, Through, Acting, Arriving
<1>6. ~InRaceWindow
  BY <1>2 DEF InRaceWindow, StaleLeader, EarlyBarrier, LostUpdate, LateFinish
<1>7. Running /\ ExactCount /\ Leader
  BY <1>2, <1>4, PlayStageAssumption DEF Running, ExactCount, Leader, Scenes
<1>8. Closed
  BY <1>2, <1>4 DEF Closed
<1>9. RightPart /\ RightPlace /\ RightSoFar /\ EveryPartIsHandedOut
  BY <1>2, <1>4 DEF RightPart, RightPlace, RightSoFar, EveryPartIsHandedOut
<1> QED
  BY <1>1, <1>5, <1>6, <1>7, <1>8, <1>9 DEF TeamInv, Calm, Phase

LEMMA TeamStep == TeamInv /\ [Next]_vars => TeamInv'
<1> SUFFICES ASSUME TeamInv, [Next]_vars PROVE TeamInv'
  OBVIOUS
<1>1. TypeInv' /\ OneSetter' /\ TeamIsActivated'
  BY TypeStep, OneSetterStep, TeamIsActivatedStep DEF TeamInv
<1>2. CASE ~raced'
  <2>1. StillCalm
    BY <1>2 DEF StillCalm
  <2>2. Calm'
    BY <2>1, CalmBefore, RunningStep, ExactCountStep, LeaderStep, PhaseStep, RightPartStep,
       RightPlaceStep, RightSoFarStep, EveryPartStep DEF Calm
  <2> QED
    BY <1>1, <2>2 DEF TeamInv
<1> QED
  BY <1>1, <1>2 DEF TeamInv

LEMMA TeamAlways == Spec => []TeamInv
  BY TeamInit, TeamStep, PTL DEF Spec

(* Outside the race windows at most one player hands out parts (is_leader). *)
THEOREM LeaderOfTeam == Spec => []OneLeader
<1>1. TeamInv => OneLeader
  BY DEF TeamInv, Calm, Leader, OneLeader, At
<1> QED
  BY <1>1, TeamAlways, PTL

(* Outside the race windows Play::enter is never called for a scene that is *)
(* over: a part in hand is one of the scene in progress.                    *)
THEOREM NobodyIsLate == Spec => []NeverEntersFinishedScene
<1>1. TeamInv => NeverEntersFinishedScene
  BY DEF TeamInv, TeamIsActivated, Calm, RightPart, NeverEntersFinishedScene, InHand
<1> QED
  BY <1>1, TeamAlways, PTL

(* Outside the race windows nobody recites while a member of the team is    *)
(* still on its way: the barrier of Player::enter does its work.            *)
THEOREM WholeTeamOnStage == Spec => []NobodyStartsAlone
<1>1. TeamInv => NobodyStartsAlone
  <2> SUFFICES ASSUME Calm, NEW p \in Player, NEW q \in Player,
                      pc[p] \in Acting, pc[q] \in Arriving
               PROVE  FALSE
    BY DEF TeamInv, NobodyStartsAlone
  <2>1. Performing
    BY WhichPhase
  <2> QED
    BY <2>1 DEF Performing, At
<1> QED
  BY <1>1, TeamAlways, PTL

(* Outside the race windows every line printed in a scene is of its text.   *)
THEOREM TextOfTheScene == Spec => []RightText
<1>1. TeamInv => RightText
  BY DEF TeamInv, Calm, RightSoFar, RightText
<1> QED
  BY <1>1, TeamAlways, PTL

-----------------------------------------------------------------------------
(* PlayStage implements Performance: saying a line is Say, the last exit of *)
(* a scene is SceneEnds, and everything else leaves the audience alone.     *)
Heard == [i \in DOMAIN recited |-> [scene |-> recited[i].scene, line |-> recited[i].line]]

(* Once cut, always cut: a race is never forgotten and an interruption      *)
(* stands.                                                                  *)
LEMMA StaysCut ==
  ASSUME TeamInv, [Next]_vars, raced \/ Interrupted
  PROVE  raced' \/ Interrupted'
<1> USE DEF TeamInv
<1>1. raced' = raced \/ raced' = (raced \/ InRaceWindow')
  BY DEF Next, vars, Watch, PlayerStep, StartWorking, WaitForRecruited, BlockNeeded, IsLeader,
     AssignWork, Read, Enter, EnterThrows, EnterStore, Barrier, BarrierOpens, Act, Recite,
     ReciteWoken, Exit, SetNeeded, ClearLeader, SetNotReady, NotifyOne, SendStopped,
     DirectorStep, StartNeeded, StartReady, StartNotify, StopNotify, Stop, Sigint
<1>2. CASE raced
  BY <1>1, <1>2
<1>3. CASE ~raced'
  <2>1. StillCalm
    BY <1>3 DEF StillCalm
  <2>2. Interrupted /\ ~raced
    BY <2>1, CalmBefore
  <2>3. CASE DirectorStep \/ Stop \/ Sigint \/ UNCHANGED vars
    BY <2>2, <2>3 DEF DirectorStep, StartNeeded, StartReady, StartNotify, StopNotify, Stop,
       Sigint, vars, Interrupted
  <2>4. ASSUME NEW p \in Player, PlayerStep(p), ~EnterThrows(p) PROVE dpc' = dpc
    BY <2>4 DEF PlayerStep, StartWorking, WaitForRecruited, BlockNeeded, IsLeader, AssignWork,
       Read, Enter, EnterStore, Barrier, BarrierOpens, Act, Recite, ReciteWoken, Exit, SetNeeded,
       ClearLeader, SetNotReady, NotifyOne, SendStopped
  <2> QED
    BY <2>1, <2>2, <2>3, <2>4, CalmNext DEF Interrupted
<1> QED
  BY <1>2, <1>3

(* A line that is said is one of the scene, unless the performance is cut.  *)
LEMMA SaidIsWritten ==
  ASSUME TeamInv, ~raced, NEW p \in Player, Recite(p) \/ ReciteWoken(p), Deliver(p)
  PROVE  line_counter \in Audience!LinesIn(scene_fragment_counter)
<1> USE DEF TeamInv
<1>1. pc[p] \in {"recite", "sleep_recite", "woken_recite"} /\ pc[p] \in InHand
  BY DEF Recite, ReciteWoken, InHand, Through, Acting
<1>2. /\ line_counter = Number(p) /\ Number(p) = LinesOf(lines[p])[it[p] + 1]
      /\ it[p] + 1 \in 1 .. Len(LinesOf(lines[p]))
  BY <1>1, WantedNumber DEF Deliver
<1>3. /\ part[p].char \in 1 .. K /\ scene_fragment_counter < Scenes
      /\ LinesOf(lines[p]) = Script[scene_fragment_counter + 1][part[p].char]
  BY <1>1, TextInHand
<1>4. scene_fragment_counter + 1 \in 1 .. Len(Script)
  BY <1>3, PlayStageAssumption DEF TypeInv, TypeOK, Scenes
<1>5. part[p].char \in 1 .. Len(Script[scene_fragment_counter + 1])
  BY <1>3 DEF K, CastSize
<1> QED
  BY <1>2, <1>3, <1>4, <1>5 DEF Audience!LinesIn

(* When the last player leaves, every line of the scene has been said,      *)
(* unless the performance is cut.                                           *)
LEMMA SceneIsComplete ==
  ASSUME TeamInv, ~raced, ~Interrupted, NEW p \in Player, Exit(p),
         \A q \in Player : ~ready_to_read[q]
  PROVE  \A n \in Audience!LinesIn(scene_fragment_counter) : n < line_counter
<1> USE DEF TeamInv
<1>1. At({"exit"}) # {} /\ Performing
  BY WhichPhase DEF Exit, At
<1>2. \A c \in 1 .. K : HasSpoken(c)
  BY <1>1 DEF Calm, EveryPartIsHandedOut
<1>3. scene_fragment_counter + 1 \in 1 .. Len(Script)
  BY <1>1, PlayStageAssumption DEF Performing, TypeInv, TypeOK, Scenes
<1>4. \A c \in 1 .. Len(Script[scene_fragment_counter + 1]) :
        \A n \in 1 .. Len(Script[scene_fragment_counter + 1][c]) :
          Script[scene_fragment_counter + 1][c][n] < line_counter
  BY <1>2 DEF HasSpoken, K, CastSize
<1> QED
  BY <1>3, <1>4 DEF Audience!LinesIn

LEMMA HeardGrows ==
  ASSUME TypeInv, NEW p \in Player, Deliver(p)
  PROVE  Heard' = Append(Heard, [scene |-> scene_fragment_counter, line |-> line_counter])
<1> DEFINE new == [scene |-> scene_fragment_counter, line |-> line_counter,
                   from |-> lines[p].scene]
           said == [scene |-> scene_fragment_counter, line |-> line_counter]
<1>1. recited \in Seq(Spoken) /\ new \in Spoken /\ recited' = Append(recited, new)
  BY DEF Deliver, Spoken, TypeInv, TypeOK
<1>2. new.scene = scene_fragment_counter /\ new.line = line_counter
  OBVIOUS
<1> HIDE DEF new
<1>3. /\ Len(recited) \in Nat /\ DOMAIN recited = 1 .. Len(recited)
      /\ DOMAIN recited' = 1 .. Len(recited) + 1
      /\ recited'[Len(recited) + 1] = new
      /\ \A i \in 1 .. Len(recited) : recited'[i] = recited[i]
  BY <1>1
<1>4. Heard \in Seq([scene : Nat, line : Nat]) /\ Len(Heard) = Len(recited)
  <2>1. \A i \in 1 .. Len(recited) :
          [scene |-> recited[i].scene, line |-> recited[i].line] \in [scene : Nat, line : Nat]
    <3>1. \A i \in 1 .. Len(recited) : recited[i] \in Spoken
      BY <1>1
    <3> QED
      BY <3>1 DEF Spoken
  <2> QED
    BY <1>3, <2>1 DEF Heard
<1>5. said \in [scene : Nat, line : Nat]
  BY DEF TypeInv, TypeOK
<1> HIDE DEF said
<1>6. /\ Append(Heard, said) \in Seq([scene : Nat, line : Nat])
      /\ Len(Append(Heard, said)) = Len(recited) + 1
      /\ Append(Heard, said)[Len(recited) + 1] = said
      /\ \A i \in 1 .. Len(recited) : Append(Heard, said)[i] = Heard[i]
  BY <1>3, <1>4, <1>5
<1>7. DOMAIN Append(Heard, said) = 1 .. Len(recited) + 1
  BY <1>6
<1>8. \A i \in 1 .. Len(recited) + 1 : Heard'[i] = Append(Heard, said)[i]
  <2>1. ASSUME NEW i \in 1 .. Len(recited) + 1
        PROVE  Heard'[i] = [scene |-> recited'[i].scene, line |-> recited'[i].line]
    BY <1>3 DEF Heard
  <2>2. ASSUME NEW i \in 1 .. Len(recited) PROVE Heard'[i] = Append(Heard, said)[i]
    BY <1>3, <1>6, <2>1 DEF Heard
  <2>3. Heard'[Len(recited) + 1] = said
    BY <1>2, <1>3, <2>1 DEF said
  <2> QED
    BY <1>3, <1>6, <2>2, <2>3
<1>9. Heard' = [i \in 1 .. Len(recited) + 1 |-> Heard'[i]]
  BY <1>3 DEF Heard
<1>10. Append(Heard, said) = [i \in 1 .. Len(recited) + 1 |-> Append(Heard, said)[i]]
  <2>1. Append(Heard, said) \in [1 .. Len(recited) + 1 -> [scene : Nat, line : Nat]]
    BY <1>6, LenProperties
  <2> QED
    BY <2>1
<1> QED
  BY <1>8, <1>9, <1>10 DEF said

(* All that the audience can notice of a player's step.                     *)
LEMMA AudibleSteps ==
  ASSUME NEW p \in Player, PlayerStep(p)
  PROVE  \/ UNCHANGED recited /\ UNCHANGED counters
         \/ (Recite(p) \/ ReciteWoken(p)) /\ Deliver(p)
         \/ Exit(p) /\ on_stage_member_num <= 1 /\ NextScene
  BY DEF PlayerStep, StartWorking, WaitForRecruited, BlockNeeded, IsLeader, AssignWork, Read,
     Enter, EnterThrows, EnterStore, Barrier, BarrierOpens, Act, Recite, ReciteWoken, Skip, GiveUp,
     Sleep, Exit, LastOnStage, SetNeeded, ClearLeader, SetNotReady, NotifyOne, SendStopped

LEMMA Performs ==
  ASSUME TeamInv, [Next]_vars
  PROVE  [Audience!Next]_(Audience!vars)
<1> USE DEF TeamInv
<1>1. raced \/ Interrupted => raced' \/ Interrupted'
  BY StaysCut
<1>2. CASE UNCHANGED recited /\ UNCHANGED counters
  <2>1. Heard' = Heard
    BY <1>2 DEF Heard
  <2> QED
    BY <1>1, <1>2, <2>1 DEF Audience!Next, Heard
<1>3. ASSUME NEW p \in Player, Exit(p), on_stage_member_num <= 1, NextScene
      PROVE  Audience!Next
  <2>1. Heard' = Heard
    BY <1>3 DEF Heard, Exit
  <2>2. CASE raced \/ Interrupted
    BY <1>1, <1>3, <2>1, <2>2 DEF Audience!Next, Audience!SceneEnds, NextScene, Heard
  <2>3. CASE ~raced /\ ~Interrupted
    <3>1. \A q \in Player : pc[q] \notin Member
      BY <1>3, <2>3, LastOneLeaves DEF Exit
    <3>2. \A q \in Player : ~ready_to_read[q]
      BY <2>3, <3>1 DEF TeamIsActivated, Calm, Running
    <3>3. \A n \in Audience!LinesIn(scene_fragment_counter) : n < line_counter
      BY <1>3, <2>3, <3>2, SceneIsComplete
    <3> QED
      BY <1>1, <1>3, <2>1, <3>3 DEF Audience!Next, Audience!SceneEnds, NextScene, Heard
  <2> QED
    BY <2>2, <2>3
<1>4. ASSUME NEW p \in Player, Recite(p) \/ ReciteWoken(p), Deliver(p)
      PROVE  Audience!Next
  <2>1. Heard' = Append(Heard, [scene |-> scene_fragment_counter, line |-> line_counter])
    BY <1>4, HeardGrows
  <2>2. raced \/ Interrupted \/ line_counter \in Audience!LinesIn(scene_fragment_counter)
    BY <1>4, SaidIsWritten
  <2>3. line_counter' = line_counter + 1 /\ UNCHANGED scene_fragment_counter
    BY <1>4 DEF Recite, ReciteWoken, Deliver
  <2> QED
    BY <1>1, <2>1, <2>2, <2>3 DEF Audience!Next, Audience!Say, Heard
<1>5. CASE DirectorStep \/ Stop \/ Sigint \/ UNCHANGED vars
  BY <1>2, <1>5 DEF DirectorStep, StartNeeded, StartReady, StartNotify, StopNotify, Stop, Sigint,
     vars
<1> QED
  BY <1>2, <1>3, <1>4, <1>5, AudibleSteps DEF Next

(* What the audience hears of the players, the barrier and the leader is a  *)
(* performance: every line of a scene, in order, before the next scene      *)
(* begins, unless somebody stopped the play or a race window was entered.   *)
THEOREM AudienceHearsPerformance == Spec => IsPerformance
<1>1. Init => Audience!Init
  BY DEF Init, Audience!Init, Interrupted
<1> QED
  BY <1>1, TeamAlways, Performs, PTL DEF Spec, IsPerformance, Audience!Spec

(* The scene changes under players who still act only after a race: the     *)
(* documented "last player" of Play::exit is otherwise the last one.        *)
SceneEndsAlone ==
  [][scene_fragment_counter' # scene_fragment_counter =>
       raced \/ \A q \in Player : pc[q] \notin Acting]_vars

THEOREM OnlyRacesCutActors == Spec => SceneEndsAlone
<1>1. TeamInv /\ [Next]_vars =>
        [scene_fragment_counter' # scene_fragment_counter =>
           raced \/ \A q \in Player : pc[q] \notin Acting]_vars
  <2> SUFFICES ASSUME TeamInv, [Next]_vars, ~raced,
                      scene_fragment_counter' # scene_fragment_counter
               PROVE  \A q \in Player : pc[q] \notin Acting
    OBVIOUS
  <2>1. PICK p \in Player : Exit(p)
    BY DEF Next, vars, PlayerStep, StartWorking, WaitForRecruited, BlockNeeded, IsLeader,
       AssignWork, Read, Enter, EnterThrows, EnterStore, Barrier, BarrierOpens, Act, Recite,
       ReciteWoken, SetNeeded, ClearLeader, SetNotReady, NotifyOne, SendStopped, DirectorStep,
       StartNeeded, StartReady, StartNotify, StopNotify, Stop, Sigint
  <2>2. on_stage_member_num <= 1
    BY <2>1 DEF Exit, LastOnStage
  <2> QED
    BY <2>1, <2>2, LastOneLeaves DEF Exit, TeamInv, Member, Through
<1> QED
  BY <1>1, TeamAlways, PTL DEF SceneEndsAlone, Spec
=============================================================================
