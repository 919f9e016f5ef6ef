------------------------------- MODULE MCLabs -------------------------------
(***************************************************************************)
(* Instances for TLC of what the earlier labs add to lab3.  The three have *)
(* nothing to do with each other: lab, chosen at the start, says which one *)
(* a behaviour is about, and the variables of the others rest.             *)
(***************************************************************************)
EXTENDS Ensemble, Casting, Recital

VARIABLE lab

allVars     == <<lab, ensembleVars, castingVars, recitalVars>>

-----------------------------------------------------------------------------
(* Casting: fragments of one and of two characters, one of them with a      *)
(* second part and a line of noise; two scenes and one without a title; a   *)
(* file that does not open.  All play files of up to four such lines, alone *)
(* or before another one, which may be there twice.                         *)
PartLine(c) == [kind |-> "part", character |-> c, file |-> c]
SceneLine(t) == [kind |-> "scene", title |-> t]
FragmentLine(f) == [kind |-> "fragment", file |-> f]
Noise == [kind |-> "noise"]

MCFragments ==
  [f1 |-> <<PartLine("King")>>,
   f2 |-> <<PartLine("King"), Noise, PartLine("Queen"), PartLine("King")>>]

PlayLines == {SceneLine(t) : t \in {"A", "B", ""}}
               \union {FragmentLine(f) : f \in {"f1", "f2", "lost"}} \union {Noise}

Tragedy == <<SceneLine("A"), FragmentLine("f1"), SceneLine("B"), FragmentLine("f2"),
             SceneLine("A"), FragmentLine("f1"), FragmentLine("f1")>>

MCDirectories ==
  {[comedy |-> c, tragedy |-> Tragedy] :
     c \in UNION {[1 .. n -> PlayLines] : n \in 0 .. 4}}

MCCommandLines ==
  {<<"comedy">>, <<"comedy", "tragedy">>, <<"tragedy", "comedy", "tragedy">>}

MCPlays == {"comedy", "tragedy"}

ParsingRests ==
  /\ CastingInit /\ rest = <<"comedy">> /\ directory = [comedy |-> <<>>, tragedy |-> Tragedy]

-----------------------------------------------------------------------------
(* Ensemble: the script and the bookings.  A play read to its end, whose    *)
(* first fragment needs two players and whose second one, and a play that   *)
(* lost its titles to an exception.                                         *)
TwoScenes == << << <<1, 3>>, <<2>> >>, << <<1>> >> >>
MCBookings == {[titles |-> 2, most |-> 3], [titles |-> 0, most |-> 0]}
NoInterrupts == {}

EnsembleRests == Init /\ titles = 0 /\ hired = 0 /\ ending = "no"

-----------------------------------------------------------------------------
(* Recital: prefixes 1 and 2 are names of one word, 3 a longer one; two     *)
(* scripts, the first with speeches of three lines, an answer of oneself (h *)
(* again after two empty lines) and a line of blanks, the second with a     *)
(* name that is not a single word; and three libraries of part files not    *)
(* made by a split: with a gap, with two lines of one number, and with a    *)
(* line of blanks before another one of its number.                         *)
Empty == [kind |-> "empty", prefix |-> 0, text |-> "none"]
Words(prefix, text) == [kind |-> "text", prefix |-> prefix, text |-> text]

ScriptOfTwo ==
  <<Words(1, "h"), Words(0, "a"), Words(3, "b"), Empty, Words(2, "h"), Words(0, "c"), Empty, Empty,
    Words(1, "h"), Words(1, "d"), Words(0, "spaces")>>

ScriptOfThree ==
  <<Words(2, "h"), Words(0, "e"), Empty, Words(2, "h"), Words(0, "f"), Words(3, "g"), Words(0, "i")>>

Line(number, text) == [number |-> number, text |-> text]
Hero == <<Line(1, "p"), Line(3, "q"), Line(1, "r")>>
NoFiles == [c \in 1 .. 3 |-> <<>>]

MCLibraries ==
  {NoFiles, <<Hero, <<Line(3, "s"), Line(0, "t")>>, <<>> >>,
            <<Hero, <<Line(3, "s"), Line(2, "t")>>, <<>> >>,
            << <<Line(1, "spaces"), Line(1, "p")>>, <<Line(2, "q")>>, <<>> >>}

MCScripts == {ScriptOfTwo, ScriptOfThree}
MCNames == {1, 2}
MCHeadings == 1 .. 3
MCTexts == {"a", "b", "c", "d", "e", "f", "g", "h", "i", "p", "q", "r", "s", "t", "none", "spaces"}

RecitingRests == RecitalInit /\ files = NoFiles

-----------------------------------------------------------------------------
LabsInit ==
  \/ lab = "casting"  /\ CastingInit /\ EnsembleRests /\ RecitingRests
  \/ lab = "ensemble" /\ Engage /\ ParsingRests /\ RecitingRests
  \/ lab = "recital"  /\ RecitalInit /\ ParsingRests /\ EnsembleRests

CastingLab(A)  == lab = "casting" /\ A /\ UNCHANGED <<lab, ensembleVars, recitalVars>>
EnsembleLab(A) == lab = "ensemble" /\ A /\ UNCHANGED <<lab, castingVars, recitalVars>>
RecitalLab(A)  == lab = "recital" /\ A /\ UNCHANGED <<lab, castingVars, ensembleVars>>

LabsNext == CastingLab(CastingNext) \/ EnsembleLab(EnsembleNext) \/ RecitalLab(RecitalNext)

(* Every lab keeps the fairness its own specification states; a director    *)
(* that has read all its files has nothing left to do.                      *)
LabsSpec ==
  /\ LabsInit /\ [][LabsNext]_allVars
  /\ \A p \in Player : WF_allVars(EnsembleLab(p \in Hired /\ MemberStep(p)))
  /\ WF_allVars(EnsembleLab(MainStep))
  /\ WF_allVars(RecitalLab(ReciterMain))
  /\ \A c \in Names : WF_allVars(RecitalLab(ReciterStep(c)))

-----------------------------------------------------------------------------
(* The theatre of lab2 (Ensemble): a performable play ends.                 *)
EnsembleFinishes == lab = "ensemble" => EnsembleEnds
=============================================================================
