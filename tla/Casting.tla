------------------------------ MODULE Casting ------------------------------
(***************************************************************************)
(* How a director reads its configuration files: the parse functions of    *)
(* lab2 (src/director.cpp, one play) and of lab3 (director/director.cpp,   *)
(* the plays named on the command line, one after the other).              *)
(*                                                                         *)
(* A file is a sequence of lines, and a line is what the code makes of it: *)
(*   [kind |-> "scene", title |-> t]           "[scene] t" in a play file  *)
(*   [kind |-> "fragment", file |-> f]         any other line of it        *)
(*   [kind |-> "part", character |-> c, file |-> f]  in a fragment's file  *)
(*   [kind |-> "noise"]   blank, or in a fragment's file not two words     *)
(* Untitled is the title of a line with nothing behind "[scene]".          *)
(***************************************************************************)
EXTENDS Integers, Sequences, SequencesExt

CONSTANTS
  Plays,        (* the names of play files                                  *)
  Directories,  (* what they may hold: name of a play file -> its lines     *)
  Fragments,    (* name of a fragment's file, where it opens -> its lines   *)
  Untitled,     (* the empty string                                         *)
  CommandLines  (* the sequences of play files a director may be started with *)

IsFile(lines, kinds) ==
  /\ Len(lines) \in Nat /\ DOMAIN lines = 1 .. Len(lines)
  /\ \A i \in DOMAIN lines : lines[i].kind \in kinds

ASSUME CastingAssumption ==
  /\ \A d \in Directories : \A p \in Plays : IsFile(d[p], {"scene", "fragment", "noise"})
  /\ \A f \in DOMAIN Fragments : IsFile(Fragments[f], {"part", "noise"})
  /\ CommandLines \subseteq Seq(Plays)

VARIABLES
  directory,    (* the play files, which nobody writes                      *)
  rest,         (* the play files still to be parsed                        *)
  configs,      (* play -> its fragments: a scene's title and its parts     *)
  scenes_names, (* play -> the titles to print, one for each fragment       *)
  min_players   (* the largest team that two fragments in a row may need    *)

castingVars == <<directory, rest, configs, scenes_names, min_players>>

Greater(a, b) == IF a > b THEN a ELSE b

-----------------------------------------------------------------------------
(* Mutant: a character may have two parts in a fragment. *)
Known_Never(parts, line) == FALSE

Known(parts, line) == \E i \in DOMAIN parts : parts[i].character = line.character

(* parse_script_file: a character's first part counts. *)
AddPart(parts, line) ==
  IF line.kind # "part" \/ Known(parts, line) THEN parts ELSE Append(parts, line)

parse_script_file(lines) == FoldLeft(AddPart, <<>>, lines)

(* The loop of parse_config_file.  An exception (a fragment that does not   *)
(* open) leaves what has been read so far, with the fragment's empty entry. *)
Reading(config) ==
  [config |-> config, scene_name |-> Untitled, last |-> 0, max |-> 0, thrown |-> FALSE]

ReadTitle(r, line) == [r EXCEPT !.scene_name = line.title]

(* Mutant: the size of the fragment before is not kept. *)
ReadFragment_NoLast(r, parts) ==
  [r EXCEPT !.config = Append(@, [title |-> r.scene_name, parts |-> parts]),
            !.max = Greater(@, r.last + Len(parts))]

ReadFragment(r, parts) ==
  [r EXCEPT !.config = Append(@, [title |-> r.scene_name, parts |-> parts]),
            !.last = Len(parts),
            !.max = Greater(@, r.last + Len(parts))]

ReadMissing(r) ==
  [r EXCEPT !.config = Append(@, [title |-> r.scene_name, parts |-> <<>>]), !.thrown = TRUE]

ReadLine(r, line) ==
  CASE r.thrown \/ line.kind = "noise"      -> r
    [] ~r.thrown /\ line.kind = "scene"     -> ReadTitle(r, line)
    [] ~r.thrown /\ line.kind = "fragment"  ->
         IF line.file \in DOMAIN Fragments
         THEN ReadFragment(r, parse_script_file(Fragments[line.file]))
         ELSE ReadMissing(r)

(* The loop over a file's lines, up to the titles: config may hold an       *)
(* earlier reading.                                                         *)
parse_config_file(config, lines) == FoldLeft(ReadLine, Reading(config), lines)

(* Mutant: a title is printed where it stands in the file, and only the     *)
(* first time.                                                              *)
Titles_OnlyOnce(config) ==
  [i \in DOMAIN config |->
     IF \E j \in 1 .. i - 1 : config[j].title = config[i].title
     THEN Untitled ELSE config[i].title]

(* The titles: one for each fragment, empty where the scene goes on. *)
Titles(config) ==
  [i \in DOMAIN config |->
     IF config[i].title = (IF i = 1 THEN Untitled ELSE config[i - 1].title)
     THEN Untitled ELSE config[i].title]

-----------------------------------------------------------------------------
CastingInit ==
  /\ directory \in Directories
  /\ rest \in CommandLines
  /\ configs = [p \in Plays |-> <<>>]
  /\ scenes_names = [p \in Plays |-> <<>>]
  /\ min_players = 0

(* parse_play_file, for the next file of the command line: an exception is  *)
(* swallowed, and neither titles nor a number of players remain of it.      *)
parse_play_file ==
  /\ rest # <<>>
  /\ rest' = Tail(rest)
  /\ UNCHANGED directory
  /\ LET play == Head(rest)
         r == parse_config_file(configs[play], directory[play])
     IN /\ configs' = [configs EXCEPT ![play] = r.config]
        /\ IF r.thrown
           THEN UNCHANGED <<scenes_names, min_players>>
           ELSE /\ scenes_names' = [scenes_names EXCEPT ![play] = @ \o Titles(r.config)]
                /\ min_players' = Greater(min_players, r.max)

(* lab2 parses one play, to which nothing has been read before; but for     *)
(* that it parses it as lab3 does each of its own.                          *)
CastingNext == parse_play_file

CastingSpec == CastingInit /\ [][CastingNext]_castingVars

-----------------------------------------------------------------------------
(* Properties *)

Size(play, i) == Len(configs[play][i].parts)

(* A play that has been read once and to its end has titles. *)
Sound(play) == scenes_names[play] # <<>> /\ Len(scenes_names[play]) = Len(configs[play])

(* A director hires enough players for any two fragments in a row, and no   *)
(* player twice for one character of a fragment (parse_config_file).        *)
EnoughForTwo ==
  \A play \in Plays : Sound(play) =>
    \A i \in DOMAIN configs[play] :
      /\ Size(play, i) + (IF i = 1 THEN 0 ELSE Size(play, i - 1)) <= min_players
      /\ Size(play, i) = Cardinality({p.character : p \in ToSet(configs[play][i].parts)})

(* The title an audience has read last, when fragment i begins. *)
LastRead(titles, i) ==
  LET read == {j \in 1 .. i : titles[j] # Untitled}
  IN IF read = {} THEN Untitled ELSE titles[CHOOSE j \in read : \A k \in read : k <= j]

(* Whoever reads the printed titles knows the scene of every fragment, as   *)
(* long as no scene without a title follows one with a title: Play prints a *)
(* title where it changes and nothing where it is empty.                    *)
TitlesTellScenes ==
  \A play \in Plays : Sound(play) =>
    \A i \in DOMAIN configs[play] :
      (\A j \in 1 .. i : configs[play][j].title # Untitled)
        => LastRead(scenes_names[play], i) = configs[play][i].title
=============================================================================
