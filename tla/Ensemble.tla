------------------------------ MODULE Ensemble ------------------------------
(***************************************************************************)
(* The theatre of lab2, one process without a producer: main makes a       *)
(* director, whose constructor parses the play, hires the players and      *)
(* starts the first fragment, and deletes it, which waits for the end of   *)
(* the play and joins the players.  lab2_extra_credit adds -override, with *)
(* which the number on the command line is the number of players even if a *)
(* fragment needs more.                                                    *)
(*                                                                         *)
(* Players and Play are those of lab3 (PlayStage), with these differences: *)
(* nobody interrupts a play, so act and recite do not look at finished;    *)
(* and how many players there are, and whether the play has titles at all, *)
(* is the outcome of the parsing (Casting).                                *)
(***************************************************************************)
EXTENDS PlayStage

(* What parsing can have left: the number of titles, 0 after an exception,  *)
(* and the largest team for two fragments in a row.                         *)
CONSTANT Bookings

ASSUME EnsembleAssumption ==
  \A b \in Bookings : b.titles \in {0, Scenes} /\ b.most \in 0 .. N

VARIABLES
  hired,    (* how many of the players exist       *)
  titles,   (* the size of Director::scenes_names  *)
  ending    (* Director::~Director: "no", "joining", "gone" *)

offstage == <<hired, titles, ending>>
ensembleVars == <<vars, offstage>>

Hired == 1 .. hired

(* Director::Director: min_plyer_num is not initialised when it is not on  *)
(* the command line, so it may be any number (N bounds it).                *)
Hires(b) == {IF arg > b.most THEN arg ELSE b.most : arg \in 0 .. N}

(* With -override the number is there, and positive. *)
HiresOverride == 1 .. N

(* parse, make_shared<Play>, recruit. *)
Engage ==
  /\ Init /\ ending = "no"
  /\ \E b \in Bookings : titles = b.titles /\ hired \in Hires(b) \union HiresOverride

-----------------------------------------------------------------------------
(* The players *)

start_working(p) == StartWorking(p) /\ UNCHANGED offstage
wait_for_recruited(p) == (WaitForRecruited(p) \/ BlockNeeded(p)) /\ UNCHANGED offstage
is_leader(p) == IsLeader(p) /\ UNCHANGED offstage

(* The leader hands out the parts of the fragment, to the activated players *)
(* in the order of the list; the scene's place it takes from scene_it.      *)
cue(p) == AssignWork(p)

assign_work_to_follower(p) == cue(p) /\ UNCHANGED offstage
read(p) == Read(p) /\ UNCHANGED offstage
enter(p) == (Enter(p) \/ EnterStore(p) \/ EnterThrows(p)) /\ UNCHANGED offstage
enter_barrier(p) == (Barrier(p) \/ BarrierOpens(p)) /\ UNCHANGED offstage

act(p) ==
  /\ pc[p] = "act"
  /\ \/ /\ it[p] < Len(LinesOf(lines[p]))
        /\ Goto(p, "recite")
        /\ UNCHANGED member
     \/ /\ it[p] = Len(LinesOf(lines[p]))
        /\ Goto(p, "exit")
        /\ ClearPlayer(p)
  /\ UNCHANGED <<counters, on_stage_member_num, setup, finished, dpc, recited, offstage>>
  /\ Watch

(* Mutant: nobody is told that the next line is due. *)
recite_Silent(p) ==
  /\ pc[p] = "recite"
  /\ \/ /\ Due(p)
        /\ recited' = Append(recited, [scene |-> scene_fragment_counter, line |-> line_counter,
                                       from |-> lines[p].scene])
        /\ it' = [it EXCEPT ![p] = @ + 1]
        /\ line_counter' = line_counter + 1
        /\ Goto(p, "act")
     \/ Skip(p)
     \/ NotYet(p) /\ Goto(p, "sleep_recite") /\ UNCHANGED <<recited, line_counter, it>>
  /\ UNCHANGED <<scene_fragment_counter, on_stage_member_num, setup, finished, activated,
                 ready_to_read, current_scene_index, part, lines, tmp, dpc, offstage>>
  /\ Watch

(* The wait ends only when the line is due; a player that did not have to   *)
(* wait may find the play already past it.                                  *)
recite(p) ==
  /\ \/ pc[p] = "recite" /\ (Deliver(p) \/ Skip(p))
     \/ pc[p] = "woken_recite" /\ Deliver(p)
     \/ /\ (pc[p] = "recite" /\ NotYet(p)) \/ (pc[p] = "woken_recite" /\ ~Due(p))
        /\ Goto(p, "sleep_recite")
        /\ UNCHANGED <<recited, line_counter, it>>
  /\ UNCHANGED <<scene_fragment_counter, on_stage_member_num, setup, finished, activated,
                 ready_to_read, current_scene_index, part, lines, tmp, dpc, offstage>>
  /\ Watch

(* Mutant: the play is over one fragment early. *)
Ends_Early == scene_fragment_counter + 2 >= titles

(* scene_it, which runs along the titles, is at the last one. *)
Ends == scene_fragment_counter + 1 = titles

(* Play::exit: past the last title there is neither a next fragment nor an  *)
(* end.                                                                     *)
exit(p) ==
  /\ pc[p] = "exit" /\ ExitFree
  /\ \/ /\ on_stage_member_num # 1
        /\ on_stage_member_num' = (IF on_stage_member_num = 0 THEN 0 ELSE on_stage_member_num - 1)
        /\ Goto(p, "start_working")
        /\ UNCHANGED <<counters, finished>>
     \/ /\ on_stage_member_num = 1
        /\ on_stage_member_num' = 0
        /\ NextScene
        /\ finished' = (finished \/ Ends)
        /\ Goto(p, IF Ends THEN "send_stopped"
                   ELSE IF scene_fragment_counter < titles THEN "set_needed"
                   ELSE "start_working")
  /\ UNCHANGED <<setup, member, dpc, recited, offstage>>
  /\ Watch

exit_next_scene(p) ==
  (SetNeeded(p) \/ ClearLeader(p) \/ SetNotReady(p) \/ NotifyOne(p)) /\ UNCHANGED offstage

(* needed_player_cv.notify_all: lab2 has nobody to send [STOPPED] to. *)
exit_wake_all(p) == SendStopped(p) /\ UNCHANGED offstage

-----------------------------------------------------------------------------
(* The director: start, then its destructor spins on finished and joins. *)

(* Mutant: it asks for as many players as there are. *)
start_AsManyAsThereAre ==
  LET asked == IF hired < CastSize(0) THEN hired ELSE CastSize(0) IN
  /\ \/ /\ dpc = "start_needed" /\ NeededFree
        /\ needed_player_num' = asked
        /\ dpc' = "start_ready"
        /\ UNCHANGED <<not_ready_players_num, pc>>
     \/ /\ dpc = "start_ready"
        /\ not_ready_players_num' = asked
        /\ dpc' = "start_notify"
        /\ UNCHANGED <<needed_player_num, pc>>
     \/ /\ dpc = "start_notify"
        /\ WakeOneNeeded(pc)
        /\ dpc' = "idle"
        /\ UNCHANGED <<needed_player_num, not_ready_players_num>>
  /\ UNCHANGED <<counters, on_stage_member_num, has_leader, finished, member, recited, offstage>>
  /\ Watch

start == (StartNeeded \/ StartReady \/ StartNotify) /\ UNCHANGED offstage

AwaitFinished ==
  /\ dpc = "idle" /\ ending = "no" /\ finished
  /\ ending' = "joining"
  /\ UNCHANGED <<vars, hired, titles>>

JoinPlayers ==
  /\ ending = "joining"
  /\ \A p \in Hired : pc[p] = "done"
  /\ ending' = "gone"
  /\ UNCHANGED <<vars, hired, titles>>

-----------------------------------------------------------------------------
(* The steps of a player and of main.  lab2 and lab2_extra_credit have the  *)
(* same functions, word for word but for comments.                          *)
Recruited(p) == start_working(p) \/ wait_for_recruited(p)
Leading(p)   == is_leader(p) \/ assign_work_to_follower(p)
Entering(p)  == read(p) \/ enter(p) \/ enter_barrier(p)
OnStage(p)   == act(p) \/ recite(p)
Leaving(p)   == exit(p) \/ exit_next_scene(p) \/ exit_wake_all(p)

MemberStep(p) == Recruited(p) \/ Leading(p) \/ Entering(p) \/ OnStage(p) \/ Leaving(p)

Ending == AwaitFinished \/ JoinPlayers
MainStep == start \/ Ending

EnsembleNext == (\E p \in Hired : MemberStep(p)) \/ MainStep

(* Threads that can run do run. *)
EnsembleFairness ==
  /\ \A p \in Player : WF_ensembleVars(p \in Hired /\ MemberStep(p))
  /\ WF_ensembleVars(MainStep)

EnsembleSpec == Engage /\ [][EnsembleNext]_ensembleVars /\ EnsembleFairness

-----------------------------------------------------------------------------
(* Properties *)

(* No line of a fragment is spoken unless there is a player for every       *)
(* character of it: with -override the leader rather spins forever, "the    *)
(* play need all of needed players ready to play, otherwise it will blocked *)
(* forever" (lab2/ReadMe.txt).                                              *)
NeverShortHanded ==
  raced \/ \A i \in DOMAIN recited : CastSize(recited[i].scene) <= hired

(* When the director is gone, every line of the play has been spoken.       *)
EveryLineSpoken ==
  ending = "gone" =>
    raced \/ \A s \in Scene : \A n \in Audience!LinesIn(s) :
               \E i \in DOMAIN recited : recited[i].scene = s /\ recited[i].line = n

Performable == titles = Scenes /\ \A s \in Scene : CastSize(s) <= hired

(* A play that was read to its end and has enough players, hired for two    *)
(* fragments in a row or at least for each, comes to its end and so does    *)
(* the program, unless a thread has been inside a race window.              *)
EnsembleEnds == <>(raced \/ ~Performable \/ ending = "gone")
=============================================================================
