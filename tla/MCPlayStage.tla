---------------------------- MODULE MCPlayStage ----------------------------
(* Instances of PlayStage for TLC. *)
EXTENDS PlayStage

(* A part with two lines and one in between; then a part with nothing to    *)
(* say.  Both scenes take two of the three players.                         *)
TwoScenes == << << <<1, 3>>, <<2>> >>, << <<1>>, <<>> >> >>

OneScene == << << <<1>>, <<2>> >> >>

NoInterrupts == {}
StopOnly == {"stop"}
BothInterrupts == {"stop", "sigint"}
=============================================================================
