------------------------------ MODULE Recital ------------------------------
(***************************************************************************)
(* The first programs of the series as one tool chain.  The extra-credit   *)
(* programs of lab0 and lab1 split a script into one file per character,   *)
(* with a number before every line, and write a configuration; the one of  *)
(* lab1 shuffles the lines of each speech.  lab0 reads the files and prints*)
(* the lines sorted by number; lab1 has one thread per character, and they *)
(* recite in the order of a shared counter.                                *)
(*                                                                         *)
(* A line of a script is [kind, prefix, text]: kind "empty" or "text"      *)
(* (spaces alone are a text, Spaces), and prefix what stands before its    *)
(* first full stop (NONE if there is none), which may be a name or not.    *)
(* Prefixes are numbers, in the order of the names they stand for; those   *)
(* in Names are single words.  A longer one is cut at its first space by   *)
(* whoever reads the configuration, and no such file opens.                *)
(***************************************************************************)
EXTENDS Integers, Sequences, SequencesExt

CONSTANTS
  Scripts,    (* the scripts one may split                                  *)
  Names,      (* the prefixes that are single words                         *)
  Headings,   (* all of them                                                *)
  NONE,       (* no full stop in the line                                   *)
  Texts,      (* the texts of lines                                         *)
  Spaces,     (* the text of a line of blanks                               *)
  Libraries,  (* the files there may be beforehand: prefix -> numbered lines *)
  MaxSplits   (* how often a script is split before the recital             *)

ScriptLine == [kind : {"empty", "text"}, prefix : Headings \union {NONE}, text : Texts]
FileLine   == [number : Nat, text : Texts]

ASSUME RecitalAssumption ==
  /\ Names \subseteq Headings /\ Headings \subseteq Nat \ {0} /\ IsFiniteSet(Headings)
  /\ NONE \notin Headings
  /\ MaxSplits \in Nat
  /\ Libraries \subseteq [Headings -> Seq(FileLine)]
  /\ Scripts \subseteq Seq(ScriptLine)
  /\ \A script \in Scripts : \A i \in DOMAIN script :
       script[i].kind = "empty" => script[i].prefix = NONE

VARIABLES
  files,      (* prefix -> the lines of its file, [number, text]            *)
  config,     (* the prefixes named in the configuration                    *)
  origin,     (* history: the files there were beforehand                   *)
  scripts,    (* history: what has been split since                         *)
  main,       (* lab1's main: where it is                                   *)
  thread,     (* the character's thread                                     *)
  loaded,     (* Player::lines, by number                                   *)
  left,       (* the numbers the thread has not recited yet                 *)
  counter,    (* Play::counter                                              *)
  printed     (* what has been recited, [who, text]                         *)

chain       == <<files, config, origin, scripts>>
recital     == <<main, thread, loaded, left, counter, printed>>
recitalVars == <<chain, recital>>

LeastOf(S) == CHOOSE n \in S : \A m \in S : n <= m

-----------------------------------------------------------------------------
(* Splitting (the extra-credit programs) *)

(* What the loops of main know: the speaker, the speech being copied if     *)
(* any, the number of the next line, the speeches by speaker.               *)
SplitStart ==
  [current |-> NONE, copying |-> FALSE, index |-> 1,
   speeches |-> [c \in Headings |-> <<>>], seen |-> {}]

(* Mutant: the number starts again with every speech. *)
Header_Restart(st, line) ==
  [st EXCEPT !.current = line.prefix, !.copying = TRUE, !.index = 1,
             !.speeches[line.prefix] = Append(@, <<>>), !.seen = @ \union {line.prefix}]

Header(st, line) ==
  [st EXCEPT !.current = line.prefix, !.copying = TRUE,
             !.speeches[line.prefix] = Append(@, <<>>), !.seen = @ \union {line.prefix}]

(* The line is appended to the last speech of the current speaker. *)
Copy(st, line) ==
  LET new == [number |-> st.index, text |-> line.text]
      spoken == st.speeches[st.current]
      last == Len(spoken)
  IN [st EXCEPT !.speeches[st.current] = [spoken EXCEPT ![last] = Append(@, new)],
                !.index = @ + 1]

(* While no speech is being copied, a line with a full stop after something *)
(* else than the last speaker's name begins one; everything else is lost.   *)
SplitLine(st, line) ==
  CASE st.copying /\ line.kind = "empty" -> [st EXCEPT !.copying = FALSE]
    [] st.copying /\ line.kind # "empty" -> Copy(st, line)
    [] ~st.copying -> IF line.prefix \in {NONE, st.current} THEN st ELSE Header(st, line)

SplitUp(script) == FoldLeft(SplitLine, SplitStart, script)

(* What can be written of a character's speeches: as they are, or with the  *)
(* lines of each shuffled.                                                  *)
Shuffles(speeches) ==
  LET orders(i) == SetToSeqs(ToSet(speeches[i]))
  IN {FlattenSeq(w) :
        w \in {w \in [DOMAIN speeches -> UNION {orders(i) : i \in DOMAIN speeches}] :
                 \A i \in DOMAIN speeches : w[i] \in orders(i)}}

RecitalInit ==
  /\ \E lib \in Libraries :
       /\ files = lib /\ origin = lib
       /\ config = {c \in Headings : lib[c] # <<>>}
  /\ scripts = <<>>
  /\ main = "config"
  /\ thread = [c \in Names |-> "none"]
  /\ loaded = [c \in Names |-> {}]
  /\ left = [c \in Names |-> {}]
  /\ counter = 1
  /\ printed = <<>>

(* The part files are opened to append, the configuration anew. *)
Split ==
  /\ main = "config" /\ Len(scripts) < MaxSplits
  /\ \E script \in Scripts :
       LET st == SplitUp(script) IN
       /\ \E new \in [Headings -> UNION {Shuffles(st.speeches[c]) : c \in Headings}] :
            /\ \A c \in Headings : new[c] \in Shuffles(st.speeches[c])
            /\ files' = [c \in Headings |-> files[c] \o new[c]]
       /\ config' = st.seen
       /\ scripts' = Append(scripts, script)
  /\ UNCHANGED <<origin, recital>>

-----------------------------------------------------------------------------
(* lab1 *)

(* Player::read: std::map::insert keeps the first line of a number. *)
ReadFile(file) ==
  {file[i] : i \in {i \in DOMAIN file : \A j \in 1 .. i - 1 : file[j].number # file[i].number}}

Playing == config \intersect Names      (* main skips files that do not open *)

ReadConfig ==
  /\ main = "config"
  /\ main' = "enter"
  /\ UNCHANGED <<chain, thread, loaded, left, counter, printed>>

(* Player::enter, for the next of the players. *)
EnterPlayer(c) ==
  /\ main = "enter"
  /\ c \in Playing /\ thread[c] = "none"
  /\ \A d \in Playing : d < c => thread[d] # "none"
  /\ thread' = [thread EXCEPT ![c] = "read"]
  /\ UNCHANGED <<chain, main, loaded, left, counter, printed>>

AllEntered ==
  /\ main = "enter"
  /\ \A c \in Playing : thread[c] # "none"
  /\ main' = "exit"
  /\ UNCHANGED <<chain, thread, loaded, left, counter, printed>>

ReadPart(c) ==
  /\ thread[c] = "read"
  /\ loaded' = [loaded EXCEPT ![c] = ReadFile(files[c])]
  /\ left' = [left EXCEPT ![c] = {l.number : l \in ReadFile(files[c])}]
  /\ thread' = [thread EXCEPT ![c] = "act"]
  /\ UNCHANGED <<chain, main, counter, printed>>

TextOf(c, n) == (CHOOSE l \in loaded[c] : l.number = n).text

(* Mutant: the wait is left out. *)
ReciteLine_NoWait(c) ==
  /\ thread[c] = "act" /\ left[c] # {}
  /\ LET n == LeastOf(left[c]) IN
       /\ left' = [left EXCEPT ![c] = @ \ {n}]
       /\ printed' = Append(printed, [who |-> c, text |-> TextOf(c, n)])
       /\ counter' = counter + 1
  /\ UNCHANGED <<chain, main, thread, loaded>>

(* Mutant: a line the counter has passed is not skipped. *)
ReciteLine_NoSkip(c) ==
  /\ thread[c] = "act" /\ left[c] # {}
  /\ LET n == LeastOf(left[c]) IN
       /\ counter = n
       /\ left' = [left EXCEPT ![c] = @ \ {n}]
       /\ printed' = Append(printed, [who |-> c, text |-> TextOf(c, n)])
       /\ counter' = counter + 1
  /\ UNCHANGED <<chain, main, thread, loaded>>

(* Play::recite: wait for counter >= number (its writers hold the mutex and *)
(* notify all, so the wait is a guard); skip the line if the counter is     *)
(* past it.                                                                 *)
ReciteLine(c) ==
  /\ thread[c] = "act" /\ left[c] # {}
  /\ LET n == LeastOf(left[c]) IN
       /\ counter >= n
       /\ left' = [left EXCEPT ![c] = @ \ {n}]
       /\ \/ /\ counter = n
             /\ printed' = Append(printed, [who |-> c, text |-> TextOf(c, n)])
             /\ counter' = counter + 1
          \/ /\ counter > n
             /\ UNCHANGED <<printed, counter>>
  /\ UNCHANGED <<chain, main, thread, loaded>>

EndAct(c) ==
  /\ thread[c] = "act" /\ left[c] = {}
  /\ thread' = [thread EXCEPT ![c] = "done"]
  /\ UNCHANGED <<chain, main, loaded, left, counter, printed>>

(* Player::exit of all players: join. *)
ExitPlayers ==
  /\ main = "exit"
  /\ \A c \in Playing : thread[c] = "done"
  /\ main' = "done"
  /\ UNCHANGED <<chain, thread, loaded, left, counter, printed>>

ReciterStep(c) == ReadPart(c) \/ ReciteLine(c) \/ EndAct(c)
ReciterMain == ReadConfig \/ (\E c \in Names : EnterPlayer(c)) \/ AllEntered \/ ExitPlayers

RecitalNext == Split \/ ReciterMain \/ \E c \in Names : ReciterStep(c)

(* A started program runs; nobody has to split anything. *)
RecitalSpec ==
  /\ RecitalInit /\ [][RecitalNext]_recitalVars
  /\ WF_recitalVars(ReciterMain) /\ \A c \in Names : WF_recitalVars(ReciterStep(c))

-----------------------------------------------------------------------------
(* lab0: read_thread of one character after the other (a guard joins each   *)
(* thread at once), then print in the order of the numbers.                 *)

(* read_thread takes no line of spaces; std::map::insert as above. *)
ReadThread(file) ==
  {file[i] : i \in {i \in DOMAIN file :
     /\ file[i].text # Spaces
     /\ \A j \in 1 .. i - 1 : file[j].number = file[i].number => file[j].text = Spaces}}

Structured(n) == {c \in Playing : \E l \in ReadThread(files[c]) : l.number = n}

(* The line of number n, if there is one: that of the character whose file  *)
(* was read first.                                                          *)
PrintOf(n) ==
  IF Structured(n) = {} THEN <<>>
  ELSE LET c == LeastOf(Structured(n))
       IN << [who |-> c, text |-> (CHOOSE l \in ReadThread(files[c]) : l.number = n).text] >>

Lab0Print ==
  LET numbers == UNION {{l.number : l \in ReadThread(files[c])} : c \in Playing}
      last == IF numbers = {} THEN 0 ELSE Max(numbers)
  IN PrintOf(0) \o FlattenSeq([n \in 1 .. last |-> PrintOf(n)])

-----------------------------------------------------------------------------
(* Properties *)

Numbers(c) == {l.number : l \in ToSet(files[c])}

(* No number belongs to two characters, none is 0, as after a split.        *)
OneVoice ==
  /\ \A c, d \in Playing : c # d => Numbers(c) \intersect Numbers(d) = {}
  /\ \A c \in Playing : 0 \notin Numbers(c)

(* No line of blanks stands before a text of its number: lab1 takes the     *)
(* first line of a number, lab0 the first that is not blank.                *)
NothingHidden ==
  \A c \in Playing : \A l \in ReadFile(files[c]) : l.text = Spaces =>
    \A i \in DOMAIN files[c] : files[c][i].number = l.number => files[c][i].text = Spaces

Aloud(said) ==
  FlattenSeq([i \in DOMAIN said |-> IF said[i].text = Spaces THEN <<>> ELSE << said[i] >>])

(* The threads of lab1 print what lab0 prints, as far as they have come.    *)
RecitalAgrees == OneVoice /\ NothingHidden => IsPrefix(Aloud(printed), Lab0Print)

(* A script as its author means it: speeches separated by empty lines, each *)
(* after a line with the name of somebody who did not speak last.           *)
Begins(script, i) == script[i].kind # "empty" /\ (i = 1 \/ script[i - 1].kind = "empty")
Speaker(script, i) ==
  LET h == {j \in 1 .. i : Begins(script, j)} IN script[CHOOSE j \in h : \A k \in h : k <= j].prefix
WellFormed(script) ==
  \A i \in DOMAIN script : Begins(script, i) =>
    /\ script[i].prefix \in Names
    /\ \A j \in 1 .. i - 1 :
         Begins(script, j) /\ (\A k \in j + 1 .. i - 1 : ~Begins(script, k))
           => script[j].prefix # script[i].prefix

Meant(script) ==
  FlattenSeq([i \in DOMAIN script |->
    IF script[i].kind = "empty" \/ Begins(script, i) THEN <<>>
    ELSE << [who |-> Speaker(script, i), text |-> script[i].text] >>])

(* Split, shuffled or not, and recited, a well-formed script is itself      *)
(* again, also if it was split twice into the same files.                   *)
RoundTrip ==
  (/\ main = "done" /\ scripts # <<>>
   /\ \A c \in Headings : origin[c] = <<>>
   /\ WellFormed(scripts[1]) /\ \A i \in DOMAIN scripts : scripts[i] = scripts[1])
  => printed = Meant(scripts[1])

(* All numbers up to the last are there. *)
NoGap == LET all == UNION {Numbers(c) : c \in Playing} IN
         \A n \in all : \A m \in 1 .. n : m \in all

(* If no number is missing, the recital ends, whoever holds which.          *)
RecitalEnds == (main = "exit" /\ NoGap) ~> main = "done"
=============================================================================
