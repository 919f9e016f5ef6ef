----------------------------- MODULE MCTheatre -----------------------------
(* Instances of Theatre for TLC. *)
EXTENDS Theatre

CONSTANTS d1, d2

MCDirector == {d1, d2}
MCPlay == {1, 2}

(* d1 has both plays, d2 only the second: they share it. *)
MCRepertoire == [d \in MCDirector |-> IF d = d1 THEN <<1, 2>> ELSE <<2>>]

(* Both directors have one and the same play. *)
OneRepertoire == [d \in MCDirector |-> <<1>>]
OnePlay == {1}

(* Indices up to the one just past the end of a full menu. *)
MCOffset == 0 .. 2
OneOffset == {0}
TwoOffsets == {0, 1}

(* Lost messages and leaving processes, plays that end by themselves with   *)
(* lost messages, and with leaving processes.                               *)
MCEnvironments ==
  {{"coalesce", "sigint", "psigint", "crash"},
   {"finish", "early", "coalesce"},
   {"finish", "sigint", "crash"}}

(* Nothing happens from outside but the user's commands. *)
CalmEnvironments == {{}, {"psigint"}}

NoEvents == {{}}
=============================================================================
