----------------------------- MODULE PlayStage -----------------------------
(***************************************************************************)
(* One performance of a play inside a director of lab3: the player threads *)
(* of director/player.cpp, the Play object they share (director/play.cpp)  *)
(* and the director's reactor thread, which starts the play and may stop   *)
(* it (director/director.cpp).                                             *)
(*                                                                         *)
(* The players form a leader/followers team.  For each scene as many of    *)
(* them as the scene has characters are recruited from                     *)
(* needed_player_cv; the first becomes the leader and, once the team is    *)
(* complete, has the director hand out the parts (cue).  Every member      *)
(* reads its part, enters, waits at a barrier for the others, recites its  *)
(* lines in the order of line_counter and leaves; the last one to leave    *)
(* sets up the next scene.                                                 *)
(*                                                                         *)
(* A step is a critical section, or one access to a variable the code      *)
(* leaves unprotected.  A sleeper on a condition variable whose predicate  *)
(* is written without its mutex has a program counter of its own and moves *)
(* only when notified, so lost wake-ups are behaviours of the model.       *)
(***************************************************************************)
EXTENDS Integers, Sequences, FiniteSets

CONSTANTS
  N,           (* min_players: how many threads recruit() starts            *)
  Script,      (* Script[s][c]: the line numbers of character c in scene s  *)
  UIntMax,     (* the largest unsigned int                                  *)
  Interrupts   (* what may end the play early: "stop", "sigint"             *)

Increasing(seq) == \A i, j \in 1 .. Len(seq) : i < j => seq[i] < seq[j]

(* Player::read keeps its lines in a map ordered by line number. *)
ASSUME PlayStageAssumption ==
  /\ N \in Nat \ {0}
  /\ UIntMax \in Nat /\ N < UIntMax
  /\ Script \in Seq(Seq(Seq(Nat \ {0}))) /\ Script # <<>>
  /\ \A s \in 1 .. Len(Script) :
       /\ Len(Script[s]) \in 1 .. UIntMax
       /\ \A c \in 1 .. Len(Script[s]) : Increasing(Script[s][c])
  /\ Interrupts \subseteq {"stop", "sigint"}

Player == 1 .. N     (* in the order of director::players *)
Scenes == Len(Script)
Scene  == 0 .. Scenes - 1

VARIABLES
  (* class Play *)
  scene_fragment_counter, line_counter,
  on_stage_member_num, needed_player_num, not_ready_players_num,
  has_leader, finished,
  (* class Player *)
  pc,                   (* where the thread is                              *)
  activated, ready_to_read, current_scene_index,
  part,                 (* character and input_file_name, handed out by cue *)
  lines,                (* the part whose lines read() has loaded           *)
  it,                   (* how many of them act() has gone past             *)
  tmp,                  (* the value on_stage_member_num++ has loaded       *)
  (* the director's reactor thread *)
  dpc,
  (* history *)
  recited,              (* the lines printed: the play's counters at each,  *)
                        (* and the scene whose text it was                  *)
  raced                 (* has a thread been inside a race window?          *)

counters == <<scene_fragment_counter, line_counter>>
setup    == <<needed_player_num, not_ready_players_num, has_leader>>
member   == <<activated, ready_to_read, current_scene_index, part, lines, it, tmp>>
vars     == <<counters, on_stage_member_num, setup, finished, pc, member, dpc, recited, raced>>

CastSize(s) == Len(Script[s + 1])

(* A part is the file of one character in one scene; the empty file name    *)
(* opens nothing and yields no lines.                                       *)
NoPart == [scene |-> 0, char |-> 0]
Part == [scene: Scene, char: Nat]
LinesOf(f) == IF f.char = 0 THEN <<>> ELSE Script[f.scene + 1][f.char]

(* Mutant: as if the number were signed. *)
Dec_Signed(n) == n - 1

Dec(n) == IF n = 0 THEN UIntMax ELSE n - 1      (* unsigned *)

-----------------------------------------------------------------------------
(* Program counters and condition variables *)

Goto(p, l) == pc' = [pc EXCEPT ![p] = l]

(* f with every sleeper at `from` awake at `to`. *)
Woken(f, from, to) == [q \in Player |-> IF f[q] = from THEN to ELSE f[q]]

WakeNeeded(f) == Woken(f, "sleep_needed", "wait_for_recruited")
(* Mutant: the notification is forgotten. *)
WakeRecite_Forgotten(f) == f

WakeRecite(f) == Woken(f, "sleep_recite", "woken_recite")

(* needed_player_cv.notify_one, in a step that ends with program counters f. *)
WakeOneNeeded(f) ==
  IF \E q \in Player : f[q] = "sleep_needed"
  THEN \E q \in Player : /\ f[q] = "sleep_needed"
                         /\ pc' = [f EXCEPT ![q] = "wait_for_recruited"]
  ELSE pc' = f

Init ==
  /\ scene_fragment_counter = 0 /\ line_counter = 1
  /\ on_stage_member_num = 0 /\ needed_player_num = 0 /\ not_ready_players_num = 0
  /\ has_leader = FALSE /\ finished = FALSE
  /\ pc = [p \in Player |-> "start_working"]
  /\ activated = [p \in Player |-> FALSE]
  /\ ready_to_read = [p \in Player |-> FALSE]
  /\ current_scene_index = [p \in Player |-> 0]
  /\ part = [p \in Player |-> NoPart]
  /\ lines = [p \in Player |-> NoPart]
  /\ it = [p \in Player |-> 0]
  /\ tmp = [p \in Player |-> 0]
  /\ dpc = "start_needed"
  /\ recited = <<>>
  /\ raced = FALSE

-----------------------------------------------------------------------------
(* The four windows the code leaves open between two of its statements:     *)
(*  - needed_player_num is set and has_leader still that of the last scene: *)
(*    whoever is recruited now may find a leader that is none (play.cpp:184);*)
(*  - needed_player_num is set and not_ready_players_num is not: a quick    *)
(*    team decrements a number that is then overwritten (play.cpp:195,      *)
(*    director.cpp:553);                                                    *)
(*  - two threads are inside on_stage_member_num++ (play.cpp:131);          *)
(*  - a player has found finished false and is about to block when finished *)
(*    is set without its mutex: the notification may come before it sleeps  *)
(*    (play.cpp:203).                                                       *)
StaleLeader ==
  /\ \E q \in Player : pc[q] = "clear_leader"
  /\ \E p \in Player : pc[p] = "is_leader"

EarlyBarrier ==
  /\ dpc = "start_ready" \/ \E q \in Player : pc[q] \in {"clear_leader", "set_not_ready"}
  /\ \E p \in Player : pc[p] = "barrier"

LostUpdate ==
  \E p, q \in Player : p # q /\ pc[p] = "enter_store" /\ pc[q] = "enter_store"

LateFinish == finished /\ \E p \in Player : pc[p] = "block_needed"

InRaceWindow == StaleLeader \/ EarlyBarrier \/ LostUpdate \/ LateFinish

(* The last conjunct of every action. *)
Watch == raced' = (raced \/ InRaceWindow')

-----------------------------------------------------------------------------
(* The players: recruiting *)

(* while (!time_to_stop()): finished is read without a lock. *)
StartWorking(p) ==
  /\ pc[p] = "start_working"
  /\ Goto(p, IF finished THEN "done" ELSE "wait_for_recruited")
  /\ UNCHANGED <<counters, on_stage_member_num, setup, finished, member, dpc, recited>>
  /\ Watch

(* Nobody holds needed_player_num_mutex between two steps except a thread   *)
(* that has found the predicate false and is about to block: finished is    *)
(* set, and the notification given, without that mutex.                     *)
NeededFree == \A q \in Player : pc[q] # "block_needed"

(* wait_for_recruited, under needed_player_num_mutex. *)
WaitForRecruited(p) ==
  /\ pc[p] = "wait_for_recruited" /\ NeededFree
  /\ \/ /\ finished
        /\ Goto(p, "start_working")
        /\ UNCHANGED <<activated, needed_player_num>>
     \/ /\ ~finished /\ needed_player_num > 0
        /\ activated' = [activated EXCEPT ![p] = TRUE]
        /\ needed_player_num' = needed_player_num - 1
        /\ Goto(p, "is_leader")
     \/ /\ ~finished /\ needed_player_num = 0
        /\ Goto(p, "block_needed")
        /\ UNCHANGED <<activated, needed_player_num>>
  /\ UNCHANGED <<counters, on_stage_member_num, not_ready_players_num, has_leader, finished,
                 ready_to_read, current_scene_index, part, lines, it, tmp, dpc, recited>>
  /\ Watch

BlockNeeded(p) ==
  /\ pc[p] = "block_needed"
  /\ Goto(p, "sleep_needed")
  /\ UNCHANGED <<counters, on_stage_member_num, setup, finished, member, dpc, recited>>
  /\ Watch

(* Mutant: the leader does not say so. *)
IsLeader_Silent(p) ==
  /\ pc[p] = "is_leader"
  /\ IF has_leader THEN Goto(p, "read")
     ELSE pc' = WakeNeeded([pc EXCEPT ![p] = "assign_work"])
  /\ UNCHANGED <<counters, on_stage_member_num, setup, finished, member, dpc, recited>>
  /\ Watch

(* is_leader under leader_mutex; a new leader calls the others (notify_all). *)
IsLeader(p) ==
  /\ pc[p] = "is_leader"
  /\ has_leader' = TRUE
  /\ IF has_leader THEN Goto(p, "read")
     ELSE pc' = WakeNeeded([pc EXCEPT ![p] = "assign_work"])
  /\ UNCHANGED <<counters, on_stage_member_num, needed_player_num, not_ready_players_num,
                 finished, member, dpc, recited>>
  /\ Watch

(* director::cue: the parts of the scene, in order, to the activated players *)
(* in the order of the list.  Too few of them, or too many, raise an         *)
(* exception that the leader catches and forgets.                            *)
Rank(p) == Cardinality({q \in Player : activated[q] /\ q <= p})
Cast(s) == {p \in Player : activated[p] /\ Rank(p) <= CastSize(s)}

(* assign_work_to_follower: spin until the team is complete, then cue. *)
AssignWork(p) ==
  /\ pc[p] = "assign_work"
  /\ needed_player_num = 0
  /\ LET s == scene_fragment_counter IN
       /\ part' = [q \in Player |->
                     IF q \in Cast(s) THEN [scene |-> s, char |-> Rank(q)] ELSE part[q]]
       /\ current_scene_index' =
            [q \in Player |-> IF q \in Cast(s) THEN s ELSE current_scene_index[q]]
       /\ ready_to_read' = [q \in Player |-> q \in Cast(s) \/ ready_to_read[q]]
  /\ Goto(p, "read")
  /\ UNCHANGED <<counters, on_stage_member_num, setup, finished, activated, lines, it, tmp,
                 dpc, recited>>
  /\ Watch

(* Player::read waits for its part and for nothing else. *)
Read(p) ==
  /\ pc[p] = "read"
  /\ ready_to_read[p]
  /\ lines' = [lines EXCEPT ![p] = part[p]]
  /\ it' = [it EXCEPT ![p] = 0]
  /\ Goto(p, "enter")
  /\ UNCHANGED <<counters, on_stage_member_num, setup, finished, activated, ready_to_read,
                 current_scene_index, part, tmp, dpc, recited>>
  /\ Watch

-----------------------------------------------------------------------------
(* The players: on stage *)

(* Play::enter: the scene is checked under a mutex that is released before  *)
(* on_stage_member_num++ loads ...                                          *)
Enter(p) ==
  /\ pc[p] = "enter"
  /\ current_scene_index[p] = scene_fragment_counter
  /\ tmp' = [tmp EXCEPT ![p] = on_stage_member_num]
  /\ Goto(p, "enter_store")
  /\ UNCHANGED <<counters, on_stage_member_num, setup, finished, activated, ready_to_read,
                 current_scene_index, part, lines, it, dpc, recited>>
  /\ Watch

(* A scene that is already over: the exception leaves the thread function,  *)
(* which ends the process.                                                  *)
EnterThrows(p) ==
  /\ pc[p] = "enter"
  /\ current_scene_index[p] < scene_fragment_counter
  /\ pc' = [q \in Player |-> "terminated"]
  /\ dpc' = "terminated"
  /\ UNCHANGED <<counters, on_stage_member_num, setup, finished, member, recited>>
  /\ Watch

(* ... and stores. *)
EnterStore(p) ==
  /\ pc[p] = "enter_store"
  /\ on_stage_member_num' = tmp[p] + 1
  /\ Goto(p, "barrier")
  /\ UNCHANGED <<counters, setup, finished, member, dpc, recited>>
  /\ Watch

(* Mutant: nobody waits for the others. *)
Barrier_NoWait(p) ==
  /\ pc[p] = "barrier"
  /\ not_ready_players_num' = Dec(not_ready_players_num)
  /\ Goto(p, "act")
  /\ UNCHANGED <<counters, on_stage_member_num, needed_player_num, has_leader, finished,
                 member, dpc, recited>>
  /\ Watch

(* Player::enter: not_ready_players_num-- and the wait for zero, under its  *)
(* mutex, which every writer of the number holds: no wake-up is lost here.  *)
Barrier(p) ==
  /\ pc[p] = "barrier"
  /\ not_ready_players_num' = Dec(not_ready_players_num)
  /\ Goto(p, IF not_ready_players_num' = 0 THEN "act" ELSE "sleep_ready")
  /\ UNCHANGED <<counters, on_stage_member_num, needed_player_num, has_leader, finished,
                 member, dpc, recited>>
  /\ Watch

BarrierOpens(p) ==
  /\ pc[p] = "sleep_ready"
  /\ not_ready_players_num = 0
  /\ Goto(p, "act")
  /\ UNCHANGED <<counters, on_stage_member_num, setup, finished, member, dpc, recited>>
  /\ Watch

(* Mutant: the player keeps what the last scene gave it. *)
ClearPlayer_Not(p) == UNCHANGED member

ClearPlayer(p) ==
  /\ activated' = [activated EXCEPT ![p] = FALSE]
  /\ ready_to_read' = [ready_to_read EXCEPT ![p] = FALSE]
  /\ part' = [part EXCEPT ![p] = NoPart]
  /\ UNCHANGED <<current_scene_index, lines, it, tmp>>

(* Player::act: the loop condition; finished is read without a lock.  When  *)
(* the loop ends the player clears itself.                                  *)
Act(p) ==
  /\ pc[p] = "act"
  /\ IF it[p] < Len(LinesOf(lines[p])) /\ ~finished
     THEN Goto(p, "recite") /\ UNCHANGED member
     ELSE Goto(p, "exit") /\ ClearPlayer(p)
  /\ UNCHANGED <<counters, on_stage_member_num, setup, finished, dpc, recited>>
  /\ Watch

(* The play compared with the line the player wants to recite. *)
Number(p) == LinesOf(lines[p])[it[p] + 1]

Due(p) == /\ scene_fragment_counter = current_scene_index[p]
          /\ line_counter = Number(p)

NotYet(p) == \/ scene_fragment_counter < current_scene_index[p]
             \/ /\ scene_fragment_counter = current_scene_index[p]
                /\ line_counter < Number(p)

(* Print, advance the iterator and the counter, notify_all. *)
Deliver(p) ==
  /\ Due(p)
  /\ recited' = Append(recited, [scene |-> scene_fragment_counter, line |-> line_counter,
                                 from |-> lines[p].scene])
  /\ it' = [it EXCEPT ![p] = @ + 1]
  /\ line_counter' = line_counter + 1
  /\ pc' = WakeRecite([pc EXCEPT ![p] = "act"])

(* The play is past the line: warn, advance the iterator only, notify_all. *)
Skip(p) ==
  /\ ~Due(p) /\ ~NotYet(p)
  /\ it' = [it EXCEPT ![p] = @ + 1]
  /\ pc' = WakeRecite([pc EXCEPT ![p] = "act"])
  /\ UNCHANGED <<recited, line_counter>>

(* The play is finished: notify_all on both condition variables, return. *)
GiveUp(p) ==
  /\ finished
  /\ pc' = WakeNeeded(WakeRecite([pc EXCEPT ![p] = "act"]))
  /\ UNCHANGED <<recited, line_counter, it>>

Sleep(p) ==
  /\ ~finished
  /\ Goto(p, "sleep_recite")
  /\ UNCHANGED <<recited, line_counter, it>>

(* Play::recite, under recite_mutex. *)
Recite(p) ==
  /\ pc[p] = "recite"
  /\ Deliver(p) \/ Skip(p) \/ (NotYet(p) /\ (GiveUp(p) \/ Sleep(p)))
  /\ UNCHANGED <<scene_fragment_counter, on_stage_member_num, setup, finished, activated,
                 ready_to_read, current_scene_index, part, lines, tmp, dpc>>
  /\ Watch

(* Notified: the predicate of the wait again, finished before all else. *)
ReciteWoken(p) ==
  /\ pc[p] = "woken_recite"
  /\ GiveUp(p) \/ (~finished /\ Deliver(p)) \/ (~Due(p) /\ Sleep(p))
  /\ UNCHANGED <<scene_fragment_counter, on_stage_member_num, setup, finished, activated,
                 ready_to_read, current_scene_index, part, lines, tmp, dpc>>
  /\ Watch

-----------------------------------------------------------------------------
(* The players: leaving the stage (Play::exit, under on_stage_member_num_mutex) *)

SettingUp == {"set_needed", "clear_leader", "set_not_ready", "notify_one", "send_stopped"}

ExitFree == \A q \in Player : pc[q] \notin SettingUp

(* Past the last scene, where scene_it stands at the end, there is nothing  *)
(* left to do.                                                              *)
AfterScene ==
  IF scene_fragment_counter + 1 < Scenes      THEN "set_needed"
  ELSE IF scene_fragment_counter + 1 = Scenes THEN "send_stopped"
  ELSE "start_working"

(* Mutants: an off-by-one test; a counter that is not advanced. *)
LastOnStage_OffByOne == on_stage_member_num >= 1
NextScene_Forgotten == line_counter' = 1 /\ UNCHANGED scene_fragment_counter

LastOnStage == on_stage_member_num = 1
NextScene == scene_fragment_counter' = scene_fragment_counter + 1 /\ line_counter' = 1

Exit(p) ==
  /\ pc[p] = "exit" /\ ExitFree
  /\ \/ /\ on_stage_member_num > 1
        /\ on_stage_member_num' = on_stage_member_num - 1
        /\ Goto(p, "start_working")
        /\ UNCHANGED <<counters, finished>>
     \/ (* nobody on stage: the exception is caught in Player::enter *)
        /\ on_stage_member_num = 0
        /\ Goto(p, "start_working")
        /\ UNCHANGED <<counters, on_stage_member_num, finished>>
     \/ (* the last one: the next scene, or the end of the play *)
        /\ LastOnStage
        /\ on_stage_member_num' = on_stage_member_num - 1
        /\ NextScene
        /\ Goto(p, AfterScene)
        /\ finished' = (finished \/ scene_fragment_counter' = Scenes)
  /\ UNCHANGED <<setup, member, dpc, recited>>
  /\ Watch

SetNeeded(p) ==
  /\ pc[p] = "set_needed" /\ NeededFree
  /\ needed_player_num' = CastSize(scene_fragment_counter)
  /\ Goto(p, "clear_leader")
  /\ UNCHANGED <<counters, on_stage_member_num, not_ready_players_num, has_leader, finished,
                 member, dpc, recited>>
  /\ Watch

ClearLeader(p) ==
  /\ pc[p] = "clear_leader"
  /\ has_leader' = FALSE
  /\ Goto(p, "set_not_ready")
  /\ UNCHANGED <<counters, on_stage_member_num, needed_player_num, not_ready_players_num,
                 finished, member, dpc, recited>>
  /\ Watch

SetNotReady(p) ==
  /\ pc[p] = "set_not_ready"
  /\ not_ready_players_num' = CastSize(scene_fragment_counter)
  /\ Goto(p, "notify_one")
  /\ UNCHANGED <<counters, on_stage_member_num, needed_player_num, has_leader, finished,
                 member, dpc, recited>>
  /\ Watch

NotifyOne(p) ==
  /\ pc[p] = "notify_one"
  /\ WakeOneNeeded([pc EXCEPT ![p] = "start_working"])
  /\ UNCHANGED <<counters, on_stage_member_num, setup, finished, member, dpc, recited>>
  /\ Watch

(* [STOPPED] to the producer, then notify_all. *)
SendStopped(p) ==
  /\ pc[p] = "send_stopped"
  /\ pc' = WakeNeeded([pc EXCEPT ![p] = "start_working"])
  /\ UNCHANGED <<counters, on_stage_member_num, setup, finished, member, dpc, recited>>
  /\ Watch

-----------------------------------------------------------------------------
(* The director's reactor thread *)

(* director::start, statement by statement. *)
StartNeeded ==
  /\ dpc = "start_needed" /\ NeededFree
  /\ needed_player_num' = CastSize(0)
  /\ dpc' = "start_ready"
  /\ UNCHANGED <<counters, on_stage_member_num, not_ready_players_num, has_leader, finished,
                 pc, member, recited>>
  /\ Watch

StartReady ==
  /\ dpc = "start_ready"
  /\ not_ready_players_num' = CastSize(0)
  /\ dpc' = "start_notify"
  /\ UNCHANGED <<counters, on_stage_member_num, needed_player_num, has_leader, finished,
                 pc, member, recited>>
  /\ Watch

StartNotify ==
  /\ dpc = "start_notify"
  /\ WakeOneNeeded(pc)
  /\ dpc' = "idle"
  /\ UNCHANGED <<counters, on_stage_member_num, setup, finished, member, recited>>
  /\ Watch

(* "stop" or "quit" from the producer: finished, without any mutex ... *)
Stop ==
  /\ "stop" \in Interrupts
  /\ dpc = "idle"
  /\ finished' = TRUE
  /\ dpc' = "stop_notify"
  /\ UNCHANGED <<counters, on_stage_member_num, setup, pc, member, recited>>
  /\ Watch

(* ... then needed_player_cv.notify_all, and nothing for recite_condv. *)
StopNotify ==
  /\ dpc = "stop_notify"
  /\ pc' = WakeNeeded(pc)
  /\ dpc' = "stopped"
  /\ UNCHANGED <<counters, on_stage_member_num, setup, finished, member, recited>>
  /\ Watch

(* Ctrl-C: finished, and no notification at all.  The handler runs on top   *)
(* of whatever the reactor's thread was doing and closes the reactor, which *)
(* calls handle_close, which joins the players: an interrupted start() goes *)
(* on only when they have all left, and nobody is there to see it.          *)
Sigint ==
  /\ "sigint" \in Interrupts
  /\ dpc \notin {"stopped", "terminated"}
  /\ finished' = TRUE
  /\ dpc' = "stopped"
  /\ UNCHANGED <<counters, on_stage_member_num, setup, pc, member, recited>>
  /\ Watch

-----------------------------------------------------------------------------
PlayerStep(p) ==
  \/ StartWorking(p) \/ WaitForRecruited(p) \/ BlockNeeded(p) \/ IsLeader(p)
  \/ AssignWork(p) \/ Read(p)
  \/ Enter(p) \/ EnterThrows(p) \/ EnterStore(p) \/ Barrier(p) \/ BarrierOpens(p)
  \/ Act(p) \/ Recite(p) \/ ReciteWoken(p)
  \/ Exit(p) \/ SetNeeded(p) \/ ClearLeader(p) \/ SetNotReady(p)
  \/ NotifyOne(p) \/ SendStopped(p)

DirectorStep == StartNeeded \/ StartReady \/ StartNotify \/ StopNotify

Next == (\E p \in Player : PlayerStep(p)) \/ DirectorStep \/ Stop \/ Sigint

Spec == Init /\ [][Next]_vars

(* Threads that can run do run; nobody has to stop the play. *)
FairSpec ==
  /\ Spec
  /\ \A p \in Player : WF_vars(PlayerStep(p))
  /\ WF_vars(DirectorStep)

-----------------------------------------------------------------------------
(* Properties *)

Locations ==
  {"start_working", "wait_for_recruited", "block_needed", "sleep_needed", "is_leader",
   "assign_work", "read", "enter", "enter_store", "barrier", "sleep_ready", "act", "recite",
   "sleep_recite", "woken_recite", "exit", "done", "terminated"} \union SettingUp

Spoken == [scene: Nat, line: Nat, from: Nat]

(* Every variable has its type. *)
TypeOK ==
  /\ scene_fragment_counter \in Nat /\ line_counter \in Nat \ {0}
  /\ on_stage_member_num \in Nat /\ needed_player_num \in Nat
  /\ not_ready_players_num \in 0 .. UIntMax
  /\ has_leader \in BOOLEAN /\ finished \in BOOLEAN
  /\ pc \in [Player -> Locations]
  /\ activated \in [Player -> BOOLEAN]
  /\ ready_to_read \in [Player -> BOOLEAN]
  /\ current_scene_index \in [Player -> Nat]
  /\ part \in [Player -> [scene: Nat, char: Nat]]
  /\ lines \in [Player -> [scene: Nat, char: Nat]]
  /\ it \in [Player -> Nat]
  /\ tmp \in [Player -> Nat]
  /\ dpc \in {"start_needed", "start_ready", "start_notify", "idle", "stop_notify", "stopped",
             "terminated"}
  /\ recited \in Seq(Spoken)
  /\ raced \in BOOLEAN

Before(a, b) == a.scene < b.scene \/ (a.scene = b.scene /\ a.line < b.line)

(* Lines are printed in the order of the script and no line of a scene is   *)
(* printed twice, whatever the races (Play::recite).                        *)
ScriptOrder == \A i, j \in 1 .. Len(recited) : i < j => Before(recited[i], recited[j])

(* Until a thread has been inside a race window, at most one player hands   *)
(* out parts (is_leader).                                                   *)
OneLeader ==
  raced \/ \A p, q \in Player : pc[p] = "assign_work" /\ pc[q] = "assign_work" => p = q

(* Until a thread has been inside a race window, Play::enter never sees a   *)
(* scene that is over: that exception nobody catches would end the process  *)
(* (play.cpp:120-125).                                                      *)
NeverEntersFinishedScene ==
  raced \/ \A p \in Player : pc[p] = "enter" => current_scene_index[p] = scene_fragment_counter

Interrupted == dpc \in {"stop_notify", "stopped"}

Arriving == {"is_leader", "assign_work", "read", "enter", "enter_store", "barrier"}
Acting   == {"act", "recite", "sleep_recite", "woken_recite"}

(* Until a thread has been inside a race window, nobody recites before the  *)
(* whole cast has come through the barrier.                                 *)
NobodyStartsAlone ==
  raced \/ \A p, q \in Player : ~(pc[p] \in Acting /\ pc[q] \in Arriving)

(* ... and what is printed in a scene is a line of that scene: nobody still *)
(* has the text of an earlier one in hand (Player::read, Play::recite).     *)
RightText == raced \/ \A i \in 1 .. Len(recited) : recited[i].from = recited[i].scene

Audience == INSTANCE Performance WITH
  scene  <- scene_fragment_counter,
  line   <- line_counter,
  spoken <- [i \in DOMAIN recited |-> [scene |-> recited[i].scene, line |-> recited[i].line]],
  cut    <- raced \/ Interrupted

(* What the audience hears is a performance: every line of a scene, in      *)
(* order, before the next scene begins.                                     *)
IsPerformance == Audience!Spec

AllDone == \A p \in Player : pc[p] = "done"

(* A play that nobody stops comes to its end and every thread leaves, or a  *)
(* thread has been inside a race window.                                    *)
PlayEnds == <>(raced \/ Interrupted \/ AllDone)

(* "If the last player in current scene finish its act and exit, the play   *)
(* will increment its fragment counter" (lab2/ReadMe.txt, 2.1.4; Play::exit *)
(* is the same in lab3): nobody is left acting when the scene changes.      *)
OnlyTheLastEndsTheScene ==
  [][scene_fragment_counter' # scene_fragment_counter =>
       \A q \in Player : pc[q] \notin Acting]_vars

(* "it will set the play object's finished flag and notify all of the       *)
(* waiting/playing players, so that the players will notice that change and *)
(* exit from the stage and/ or exit from the play" (ReadMe.txt:73).         *)
StopLetsPlayersLeave == (finished /\ Interrupted) ~> AllDone

(* "if finished, set finish flag ... wake up all players to leave"          *)
(* (play.cpp:202-210): when the last player of the last scene has gone,     *)
(* every thread leaves.                                                     *)
EverybodyIsWoken == (finished /\ ~Interrupted) ~> (AllDone \/ Interrupted)
=============================================================================
