---------------------------- MODULE Performance ----------------------------
(***************************************************************************)
(* What a play of lab3 promises its audience, without a word about         *)
(* threads: the lines of a scene are spoken one after the other in the     *)
(* order of their numbers, scene after scene, and a scene is over when all *)
(* its lines have been spoken.                                             *)
(*                                                                         *)
(* A performance may lose its footing (cut): somebody stops it, or the     *)
(* players of PlayStage run into a race.  From then on a scene may end     *)
(* early and a line may be one the script does not have there; but still   *)
(* no line is spoken twice, out of order, or after a gap.                  *)
(***************************************************************************)
EXTENDS Integers, Sequences

CONSTANT Script   (* Script[s][c]: the line numbers of character c in scene s *)

VARIABLES
  scene,    (* the scene in progress, from 0    *)
  line,     (* the number of the next line in it *)
  spoken,   (* the lines the audience has heard *)
  cut       (* has the performance lost its footing? *)

vars == <<scene, line, spoken, cut>>

LinesIn(s) ==
  IF s + 1 \in 1 .. Len(Script)
  THEN UNION {{Script[s + 1][c][n] : n \in 1 .. Len(Script[s + 1][c])}
                : c \in 1 .. Len(Script[s + 1])}
  ELSE {}

Init == scene = 0 /\ line = 1 /\ spoken = <<>> /\ cut = FALSE

Say ==
  /\ cut \/ line \in LinesIn(scene)
  /\ spoken' = Append(spoken, [scene |-> scene, line |-> line])
  /\ line' = line + 1
  /\ UNCHANGED scene

SceneEnds ==
  /\ cut \/ \A n \in LinesIn(scene) : n < line
  /\ scene' = scene + 1
  /\ line' = 1
  /\ UNCHANGED spoken

Next ==
  /\ Say \/ SceneEnds \/ UNCHANGED <<scene, line, spoken>>
  /\ cut => cut'

Spec == Init /\ [][Next]_vars

-----------------------------------------------------------------------------
Before(a, b) == a.scene < b.scene \/ (a.scene = b.scene /\ a.line < b.line)

(* No line is ever spoken twice or after a later one. *)
InOrder == \A i, j \in 1 .. Len(spoken) : i < j => Before(spoken[i], spoken[j])
=============================================================================
