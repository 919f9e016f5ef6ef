------------------------------ MODULE Theatre ------------------------------
(***************************************************************************)
(* The theatre protocol of lab3: one producer process, whose single        *)
(* reactor thread serves the user's terminal, the listening socket and one *)
(* reader_service per director, and director processes that answer it over *)
(* TCP.  A handler of a reactor is one action.  What a play does inside a  *)
(* director is left to PlayStage: here it runs until somebody stops it or, *)
(* if the environment allows, until its last player leaves the stage.      *)
(*                                                                         *)
(* Messages are NUL-terminated strings written with send_n and read with   *)
(* one recv of up to 256 bytes.  The receiver parses the text up to the    *)
(* first NUL only: whatever else that recv returned is lost (TakeFrom).    *)
(***************************************************************************)
EXTENDS ThreadsafeMenu, Sequences

CONSTANTS
  Director,      (* the director processes                                   *)
  Repertoire,    (* Repertoire[d]: d's play files, in the order of its map   *)
  Environments,  (* the sets of outside events a behaviour may start with    *)
  Offset,        (* the menu indices the user may type                       *)
  MaxStarts,     (* bound: how many start commands the user gives            *)
  MaxStops       (* bound: how many stop commands the user gives             *)

(* finish   a play comes to its end by itself                               *)
(* early    ... even before start_play has sent [STARTED]                   *)
(* coalesce a recv may return several messages                              *)
(* sigint   Ctrl-C at a director       psigint  Ctrl-C at the producer      *)
(* crash    a director process dies                                         *)
Event == {"finish", "early", "coalesce", "sigint", "psigint", "crash"}

ASSUME TheatreAssumption ==
  /\ Repertoire \in [Director -> Seq(Play)]
  /\ Environments \subseteq SUBSET Event
  /\ Offset \subseteq Nat
  /\ MaxStarts \in Nat /\ MaxStops \in Nat

VARIABLES
  env,            (* the outside events of this behaviour; never changes     *)
  starts, stops,  (* commands typed so far; bounds only                      *)
  (* the producer *)
  prod,           (* running, stopped, or crashed                            *)
  ui,             (* is the ui_service still listening to the terminal?      *)
  quitting,       (* is a wait_for_quit thread running?                      *)
  menu, shown,    (* threadsafe_menu: menu and play_name_available_map       *)
  id_socket_map,  (* id -> the director at the other end of that socket      *)
  next_id,        (* static director_id                                      *)
  backlog,        (* connections the acceptor has not accepted yet           *)
  reader,         (* reader[d]: none, open or closed                         *)
  reader_id,      (* reader[d].id, once there is a reader                    *)
  (* the sockets *)
  toProd, toDir,
  (* the directors *)
  phase,          (* down, up, gone, or orphan (lost its producer)           *)
  director_id,    (* director_id[d]: 0 until the producer has answered       *)
  play,           (* the shared_ptr: NoPlay, or a play and its finished flag *)
  starting,       (* the play start_play has started and not yet confirmed   *)
  ghosts,         (* plays no longer in play[d] whose players may yet end it *)
  outOfTurn       (* history: has any [STOPPED] been sent for a play already *)
                  (* confirmed as stopped, or ahead of its own [STARTED]?    *)

prodVars  == <<prod, ui, quitting, menu, shown, id_socket_map, next_id,
               backlog, reader, reader_id>>
dirVars   == <<phase, director_id, play, starting, ghosts, outOfTurn>>
userVars  == <<starts, stops>>
vars      == <<env, userVars, prodVars, toProd, toDir, dirVars>>

NoPlay == [name |-> NONE, finished |-> TRUE]

(* The play's name in [STARTED] and [STOPPED] is read and ignored, so it is *)
(* left out.                                                                *)
Message == [type: {"ID", "PLAY", "STARTED", "STOPPED", "QUITED", "start", "stop", "quit"},
            id: Nat, name: Play \union {NONE}]

Msg(t, i, p) == [type |-> t, id |-> i, name |-> p]

-----------------------------------------------------------------------------
(* Sockets *)

(* A message to a process that is gone goes nowhere. *)
SendDir(d, m) ==
  toDir' = IF phase[d] = "up" THEN [toDir EXCEPT ![d] = Append(@, m)] ELSE toDir

SendProd(d, m) == toProd' = [toProd EXCEPT ![d] = Append(@, m)]

(* One recv: any non-empty prefix of what has arrived, of which only the    *)
(* first message is parsed.                                                 *)
Rest(s, k) == SubSeq(s, k + 1, Len(s))

Prefixes(s) == IF "coalesce" \in env THEN 1 .. Len(s) ELSE {1}

TakeFrom(ch, d) == \E k \in Prefixes(ch[d]) : ch' = [ch EXCEPT ![d] = Rest(@, k)]

Parsed(ch, d, t) == ch[d] # <<>> /\ Head(ch[d]).type = t

-----------------------------------------------------------------------------
Init ==
  /\ env \in Environments
  /\ starts = 0 /\ stops = 0
  /\ prod = "running" /\ ui = TRUE /\ quitting = FALSE
  /\ menu = << >> /\ shown = << >> /\ id_socket_map = << >>
  /\ next_id = 1
  /\ backlog = <<>>
  /\ reader = [d \in Director |-> "none"]
  /\ reader_id = [d \in Director |-> NONE]
  /\ toProd = [d \in Director |-> <<>>]
  /\ toDir = [d \in Director |-> <<>>]
  /\ phase = [d \in Director |-> "down"]
  /\ director_id = [d \in Director |-> 0]
  /\ play = [d \in Director |-> NoPlay]
  /\ starting = [d \in Director |-> NONE]
  /\ ghosts = [d \in Director |-> 0]
  /\ outOfTurn = FALSE

-----------------------------------------------------------------------------
(* The producer: the acceptor and the readers *)

(* producer::handle_input: a fresh id, a socket in the map, a reader. *)
Accept ==
  /\ prod = "running" /\ backlog # <<>>
  /\ LET d == Head(backlog) IN
       /\ id_socket_map' = [i \in DOMAIN id_socket_map \union {next_id} |->
                              IF i = next_id THEN d ELSE id_socket_map[i]]
       /\ reader' = [reader EXCEPT ![d] = "open"]
       /\ reader_id' = [reader_id EXCEPT ![d] = next_id]
  /\ next_id' = next_id + 1
  /\ backlog' = Tail(backlog)
  /\ UNCHANGED <<env, userVars, prod, ui, quitting, menu, shown, toProd, toDir, dirVars>>

Reads(d, t) ==
  /\ prod = "running" /\ reader[d] = "open"
  /\ Parsed(toProd, d, t)
  /\ TakeFrom(toProd, d)
  /\ UNCHANGED <<env, userVars, prod, ui, quitting, next_id, backlog, reader_id, dirVars>>

(* Mutants: the counter the next director's id comes from, or the last      *)
(* id given, in place of the reader's own.                                  *)
OwnId_Counter(d) == next_id
OwnId_Latest(d) == next_id - 1

OwnId(d) == reader_id[d]

(* [director_id] 0: answer with the reader's own id. *)
ReadId(d) ==
  /\ Reads(d, "ID")
  /\ SendDir(d, Msg("ID", OwnId(d), NONE))
  /\ UNCHANGED <<menu, shown, id_socket_map, reader>>

(* [PLAY]: register under the id the message names, and print the menu. *)
ReadPlay(d) ==
  /\ Reads(d, "PLAY")
  /\ menu' = reg_play(menu, Head(toProd[d]).name, Head(toProd[d]).id)
  /\ shown' = Shown(menu')
  /\ UNCHANGED <<id_socket_map, reader, toDir>>

(* [STARTED]: busy; the menu is not printed again. *)
ReadStarted(d) ==
  /\ Reads(d, "STARTED")
  /\ menu' = set_busy_with_id(menu, Head(toProd[d]).id)
  /\ UNCHANGED <<shown, id_socket_map, reader, toDir>>

(* Mutant: the menu is not printed again. *)
ReadStopped_NotShown(d) ==
  /\ Reads(d, "STOPPED")
  /\ menu' = set_idle_with_id(menu, Head(toProd[d]).id)
  /\ UNCHANGED <<shown, id_socket_map, reader, toDir>>

(* [STOPPED]: idle, whatever the status was. *)
ReadStopped(d) ==
  /\ Reads(d, "STOPPED")
  /\ menu' = set_idle_with_id(menu, Head(toProd[d]).id)
  /\ shown' = Shown(menu')
  /\ UNCHANGED <<id_socket_map, reader, toDir>>

(* Mutant: the menu is not printed again. *)
ReadQuited_NotShown(d) ==
  /\ Reads(d, "QUITED")
  /\ Head(toProd[d]).id \in DOMAIN id_socket_map
  /\ reader' = [reader EXCEPT ![d] = "closed"]
  /\ menu' = clean_with_id(menu, Head(toProd[d]).id)
  /\ id_socket_map' = [i \in DOMAIN id_socket_map \ {Head(toProd[d]).id} |-> id_socket_map[i]]
  /\ UNCHANGED <<shown, toDir>>

(* [QUITED]: forget the director. *)
ReadQuited(d) ==
  /\ Reads(d, "QUITED")
  /\ Head(toProd[d]).id \in DOMAIN id_socket_map
  /\ reader' = [reader EXCEPT ![d] = "closed"]
  /\ menu' = clean_with_id(menu, Head(toProd[d]).id)
  /\ id_socket_map' = [i \in DOMAIN id_socket_map \ {Head(toProd[d]).id} |-> id_socket_map[i]]
  /\ shown' = Shown(menu')
  /\ UNCHANGED toDir

(* [QUITED] with an id that is not in the map, such as the 0 of a director  *)
(* that has not got one: erase(end()) frees memory that is not on the heap. *)
ReadQuitedUnknown(d) ==
  /\ prod = "running" /\ reader[d] = "open"
  /\ Parsed(toProd, d, "QUITED")
  /\ Head(toProd[d]).id \notin DOMAIN id_socket_map
  /\ prod' = "crashed"
  /\ UNCHANGED <<env, userVars, ui, quitting, menu, shown, id_socket_map, next_id,
                 backlog, reader, reader_id, toProd, toDir, dirVars>>

(* recv returned 0: the reader goes, the menu and the map keep the director. *)
ReadEOF(d) ==
  /\ prod = "running" /\ reader[d] = "open"
  /\ toProd[d] = <<>> /\ phase[d] = "gone"
  /\ reader' = [reader EXCEPT ![d] = "closed"]
  /\ UNCHANGED <<env, userVars, prod, ui, quitting, menu, shown, id_socket_map,
                 next_id, backlog, reader_id, toProd, toDir, dirVars>>

-----------------------------------------------------------------------------
(* The producer: the user's commands and Ctrl-C *)

Listening == prod = "running" /\ ui

(* start <offset>: the play at that index to the first available director   *)
(* that has it.  The index past the end may also read an empty name, which  *)
(* is refused like any index beyond it.                                     *)
UiStart(k) ==
  /\ Listening
  /\ starts < MaxStarts
  /\ starts' = starts + 1
  /\ LET p  == PlayAt(shown, k)
         id == pop_avaliable(menu, p)
     IN IF p = NONE \/ id = NONE
        THEN UNCHANGED <<menu, shown, toDir>>
        ELSE /\ menu' = SetUnclear(menu, id)
             /\ shown' = Shown(menu')
             /\ SendDir(id_socket_map[id], Msg("start", NONE, p))
  /\ UNCHANGED <<env, stops, prod, ui, quitting, id_socket_map, next_id, backlog,
                 reader, reader_id, toProd, dirVars>>

(* stop <offset>: the play at that index to the first unavailable director  *)
(* that has it in its list; the menu is not printed again.                  *)
UiStop(k) ==
  /\ Listening
  /\ stops < MaxStops
  /\ stops' = stops + 1
  /\ LET p  == PlayAt(shown, k)
         id == pop_busy_play(menu, p)
     IN IF p = NONE \/ id = NONE
        THEN UNCHANGED <<menu, toDir>>
        ELSE /\ menu' = SetUnclear(menu, id)
             /\ SendDir(id_socket_map[id], Msg("stop", NONE, p))
  /\ UNCHANGED <<env, starts, prod, ui, quitting, shown, id_socket_map, next_id,
                 backlog, reader, reader_id, toProd, dirVars>>

(* The index just past the end: end() is dereferenced, and the string read  *)
(* there may lie anywhere.                                                  *)
UiPastEnd(k) ==
  /\ Listening
  /\ PastEnd(shown, k)
  /\ prod' = "crashed"
  /\ UNCHANGED <<env, userVars, ui, quitting, menu, shown, id_socket_map, next_id,
                 backlog, reader, reader_id, toProd, toDir, dirVars>>

(* producer::send_quit_all *)
SendQuitAll ==
  toDir' = [d \in Director |->
              IF phase[d] = "up" /\ \E i \in DOMAIN id_socket_map : id_socket_map[i] = d
              THEN Append(toDir[d], Msg("quit", NONE, NONE)) ELSE toDir[d]]

(* quit: the terminal is dropped first, then every known director is told,  *)
(* and a detached thread waits for them.                                    *)
UiQuit ==
  /\ Listening
  /\ ui' = FALSE
  /\ quitting' = TRUE
  /\ SendQuitAll
  /\ UNCHANGED <<env, userVars, prod, menu, shown, id_socket_map, next_id, backlog,
                 reader, reader_id, toProd, dirVars>>

(* producer::handle_signal: the same, but the terminal stays.  A second     *)
(* Ctrl-C, which would only repeat the quits, is left out (bound).          *)
ProducerSigint ==
  /\ "psigint" \in env
  /\ prod = "running" /\ ~quitting
  /\ quitting' = TRUE
  /\ SendQuitAll
  /\ UNCHANGED <<env, userVars, prod, ui, menu, shown, id_socket_map, next_id, backlog,
                 reader, reader_id, toProd, dirVars>>

(* wait_for_quit: end the event loop and close the reactor. *)
WaitForQuit ==
  /\ prod = "running" /\ quitting
  /\ id_socket_map = << >>
  /\ prod' = "stopped"
  /\ ui' = FALSE
  /\ UNCHANGED <<env, userVars, quitting, menu, shown, id_socket_map, next_id, backlog,
                 reader, reader_id, toProd, toDir, dirVars>>

-----------------------------------------------------------------------------
(* The directors *)

(* main and the constructor: connect, and ask for an id (regis_self). *)
Connect(d) ==
  /\ prod = "running" /\ phase[d] = "down"
  /\ phase' = [phase EXCEPT ![d] = "up"]
  /\ backlog' = Append(backlog, d)
  /\ SendProd(d, Msg("ID", 0, NONE))
  /\ UNCHANGED <<env, userVars, prod, ui, quitting, menu, shown, id_socket_map, next_id,
                 reader, reader_id, toDir, director_id, play, starting, ghosts, outOfTurn>>

(* The reactor of a director that is inside start_play reads nothing. *)
Receives(d, t) ==
  /\ phase[d] = "up" /\ starting[d] = NONE
  /\ Parsed(toDir, d, t)
  /\ TakeFrom(toDir, d)
  /\ UNCHANGED <<env, userVars, prodVars>>

(* send_play_list: one message for each play, in the order of the map. *)
PlayList(d, i) == [k \in 1 .. Len(Repertoire[d]) |-> Msg("PLAY", i, Repertoire[d][k])]

ReceiveId(d) ==
  /\ Receives(d, "ID")
  /\ director_id' = [director_id EXCEPT ![d] = Head(toDir[d]).id]
  /\ toProd' = [toProd EXCEPT ![d] = @ \o PlayList(d, Head(toDir[d]).id)]
  /\ UNCHANGED <<phase, play, starting, ghosts, outOfTurn>>

Running(d) == ~play[d].finished

(* A play that is dropped while its players are on stage haunts the socket. *)
Haunt(d) == ghosts' = [ghosts EXCEPT ![d] = IF Running(d) THEN @ + 1 ELSE @]

(* start: the new play takes the place of whatever was there, no question  *)
(* asked (director::start_play up to start()).                              *)
ReceiveStart(d) ==
  /\ Receives(d, "start")
  /\ play' = [play EXCEPT ![d] = [name |-> Head(toDir[d]).name, finished |-> FALSE]]
  /\ Haunt(d)
  /\ starting' = [starting EXCEPT ![d] = Head(toDir[d]).name]
  /\ UNCHANGED <<toProd, phase, director_id, outOfTurn>>

(* Mutant: the play runs, and the producer is not told. *)
ConfirmStarted_Silent(d) ==
  /\ phase[d] = "up" /\ starting[d] # NONE
  /\ starting' = [starting EXCEPT ![d] = NONE]
  /\ UNCHANGED <<env, userVars, prodVars, toProd, toDir, phase, director_id, play, ghosts, outOfTurn>>

(* ... and its last statements: [STARTED]. *)
ConfirmStarted(d) ==
  /\ phase[d] = "up" /\ starting[d] # NONE
  /\ SendProd(d, Msg("STARTED", director_id[d], NONE))
  /\ starting' = [starting EXCEPT ![d] = NONE]
  /\ UNCHANGED <<env, userVars, prodVars, toDir, phase, director_id, play, ghosts, outOfTurn>>

(* Mutant: whatever was named, STOPPED is sent. *)
ReceiveStop_AnyName(d) ==
  /\ Receives(d, "stop")
  /\ play[d] # NoPlay
  /\ IF play[d].name = Head(toDir[d]).name
     THEN play' = [play EXCEPT ![d] = NoPlay] /\ Haunt(d)
     ELSE UNCHANGED <<play, ghosts>>
  /\ SendProd(d, Msg("STOPPED", director_id[d], NONE))
  /\ UNCHANGED <<phase, director_id, starting, outOfTurn>>

(* stop: only the play of that name stops; a finished play still counts. *)
ReceiveStop(d) ==
  /\ Receives(d, "stop")
  /\ play[d] # NoPlay
  /\ IF play[d].name = Head(toDir[d]).name
     THEN /\ play' = [play EXCEPT ![d] = NoPlay]
          /\ Haunt(d)
          /\ SendProd(d, Msg("STOPPED", director_id[d], NONE))
          /\ outOfTurn' = (outOfTurn \/ play[d].finished)
     ELSE UNCHANGED <<play, ghosts, outOfTurn, toProd>>
  /\ UNCHANGED <<phase, director_id, starting>>

(* stop with play == nullptr: play->playname is read through a null pointer. *)
ReceiveStopNoPlay(d) ==
  /\ Receives(d, "stop")
  /\ play[d] = NoPlay
  /\ phase' = [phase EXCEPT ![d] = "gone"]
  /\ UNCHANGED <<toProd, director_id, play, starting, ghosts, outOfTurn>>

(* Mutant: it leaves without a word. *)
Leave_Silent(d) ==
  /\ phase' = [phase EXCEPT ![d] = "gone"]
  /\ UNCHANGED <<toProd, director_id, play, starting, ghosts, outOfTurn>>

Leave(d) ==
  /\ phase' = [phase EXCEPT ![d] = "gone"]
  /\ SendProd(d, Msg("QUITED", director_id[d], NONE))
  /\ UNCHANGED <<director_id, play, starting, ghosts, outOfTurn>>

ReceiveQuit(d) == Receives(d, "quit") /\ Leave(d)

(* director::handle_signal runs wherever the reactor thread happens to be. *)
DirectorSigint(d) ==
  /\ "sigint" \in env
  /\ phase[d] \in {"up", "orphan"}
  /\ IF phase[d] = "up" THEN Leave(d)
     ELSE /\ phase' = [phase EXCEPT ![d] = "gone"]
          /\ UNCHANGED <<toProd, director_id, play, starting, ghosts, outOfTurn>>
  /\ UNCHANGED <<env, userVars, prodVars, toDir>>

Crash(d) ==
  /\ "crash" \in env
  /\ phase[d] \in {"up", "orphan"}
  /\ phase' = [phase EXCEPT ![d] = "gone"]
  /\ UNCHANGED <<env, userVars, prodVars, toProd, toDir, director_id, play, starting, ghosts, outOfTurn>>

(* recv returned 0: the socket is closed and the director stays. *)
ReceiveEOF(d) ==
  /\ phase[d] = "up" /\ starting[d] = NONE
  /\ prod # "running" /\ toDir[d] = <<>>
  /\ phase' = [phase EXCEPT ![d] = "orphan"]
  /\ UNCHANGED <<env, userVars, prodVars, toProd, toDir, director_id, play, starting, ghosts, outOfTurn>>

(* Play::exit of the last player of the last scene: finished, [STOPPED]. *)
LastExit(d) ==
  /\ "finish" \in env
  /\ "early" \in env \/ starting[d] = NONE
  /\ phase[d] = "up" /\ Running(d)
  /\ play' = [play EXCEPT ![d].finished = TRUE]
  /\ SendProd(d, Msg("STOPPED", director_id[d], NONE))
  /\ outOfTurn' = (outOfTurn \/ starting[d] # NONE)
  /\ UNCHANGED <<env, userVars, prodVars, toDir, phase, director_id, starting, ghosts>>

(* The same by the players of a play that was stopped or replaced: the stop *)
(* sends them off the stage, and Play::exit does not ask who sent them.     *)
GhostExit(d) ==
  /\ phase[d] = "up" /\ ghosts[d] > 0
  /\ ghosts' = [ghosts EXCEPT ![d] = @ - 1]
  /\ outOfTurn' = TRUE
  /\ SendProd(d, Msg("STOPPED", director_id[d], NONE))
  /\ UNCHANGED <<env, userVars, prodVars, toDir, phase, director_id, play, starting>>

-----------------------------------------------------------------------------
Reader(d) ==
  \/ ReadId(d) \/ ReadPlay(d) \/ ReadStarted(d) \/ ReadStopped(d)
  \/ ReadQuited(d) \/ ReadQuitedUnknown(d) \/ ReadEOF(d)

DirectorReactor(d) ==
  \/ ReceiveId(d) \/ ReceiveStart(d) \/ ConfirmStarted(d) \/ ReceiveStop(d)
  \/ ReceiveStopNoPlay(d) \/ ReceiveQuit(d) \/ ReceiveEOF(d)

User ==
  \/ \E k \in Offset : UiStart(k) \/ UiStop(k) \/ UiPastEnd(k)
  \/ UiQuit
  \/ ProducerSigint

Outside(d) == Connect(d) \/ DirectorSigint(d) \/ Crash(d)

Next ==
  \/ Accept \/ WaitForQuit \/ User
  \/ \E d \in Director : Reader(d) \/ DirectorReactor(d) \/ Outside(d)
                         \/ LastExit(d) \/ GhostExit(d)

Spec == Init /\ [][Next]_vars

(* Both reactors keep dispatching what is ready and the wait_for_quit       *)
(* thread keeps polling; nobody makes the user, the directors' operators or *)
(* a play's end do anything.                                                *)
FairSpec ==
  /\ Spec
  /\ WF_vars(Accept) /\ WF_vars(WaitForQuit)
  /\ \A d \in Director : WF_vars(Reader(d)) /\ WF_vars(DirectorReactor(d))
-----------------------------------------------------------------------------
(* Properties *)

Channel == Seq(Message)

(* Every variable has its type; an id, once given, lies below next_id. *)
TypeOK ==
  /\ env \in SUBSET Event
  /\ starts \in Nat /\ stops \in Nat
  /\ prod \in {"running", "stopped", "crashed"}
  /\ ui \in BOOLEAN /\ quitting \in BOOLEAN
  /\ next_id \in Nat \ {0}
  /\ DOMAIN menu \subseteq 1 .. next_id - 1
  /\ \A i \in DOMAIN menu : menu[i] \in Record
  /\ DOMAIN shown \subseteq Play
  /\ DOMAIN id_socket_map \subseteq 1 .. next_id - 1
  /\ \A i \in DOMAIN id_socket_map : id_socket_map[i] \in Director
  /\ backlog \in Seq(Director)
  /\ reader \in [Director -> {"none", "open", "closed"}]
  /\ reader_id \in [Director -> 0 .. next_id - 1]
  /\ toProd \in [Director -> Channel]
  /\ toDir \in [Director -> Channel]
  /\ phase \in [Director -> {"down", "up", "gone", "orphan"}]
  /\ director_id \in [Director -> 0 .. next_id - 1]
  /\ play \in [Director -> [name: Play \union {NONE}, finished: BOOLEAN]]
  /\ starting \in [Director -> Play \union {NONE}]
  /\ ghosts \in [Director -> Nat]
  /\ outOfTurn \in BOOLEAN

InFlight(ch, d, t) == \E n \in 1 .. Len(ch[d]) : ch[d][n].type = t

(* A director the menu offers has a socket: the id a pop returns is always  *)
(* one send_msg can dereference, however registrations, quits, crashes and  *)
(* lost messages interleave (ui_service.cpp:51-61, reader_service.cpp:141). *)
MenuHasSocket == DOMAIN menu \subseteq DOMAIN id_socket_map

(* A record lists only plays of the director its id belongs to, and so a    *)
(* start or stop names a play its receiver has a configuration for          *)
(* (director.cpp:414 indexes configs with whatever name arrives).           *)
PlaysOf(d) == {Repertoire[d][k] : k \in 1 .. Len(Repertoire[d])}

RecordsBelong ==
  /\ \A i \in DOMAIN menu :
       i \in DOMAIN id_socket_map => menu[i].plays \subseteq PlaysOf(id_socket_map[i])
  /\ \A d \in Director : \A n \in 1 .. Len(toDir[d]) :
       toDir[d][n].type \in {"start", "stop"} => toDir[d][n].name \in PlaysOf(d)

(* The index the user types counts the plays the menu now holds: the map    *)
(* operator[] walks is never left behind by a registration or a quit.       *)
IndexMatchesMenu == DOMAIN shown = Offered(menu)

(* A director is not told to start while its play runs: "we do not support  *)
(* a single director play two plays at the same time" (ReadMe.txt:115).     *)
OnePlayAtATime ==
  \A d \in Director : phase[d] = "up" /\ Running(d) => ~InFlight(toDir, d, "start")

(* Whoever stands AVAILABLE in the menu is not playing: "Only after getting *)
(* the stopped confirm message, can we set the play as available"           *)
(* (reader_service.cpp:116).                                                *)
AvailableIsIdle ==
  \A i \in DOMAIN menu : menu[i].status = "AVAILABLE" =>
    \A d \in Director : director_id[d] = i /\ phase[d] = "up" => ~Running(d)

(* No stop reaches a director that has no play: director.cpp:352 would read *)
(* the name through a null pointer.                                         *)
StopFindsPlay ==
  \A d \in Director : phase[d] = "up" /\ InFlight(toDir, d, "stop") => play[d] # NoPlay

(* The printed number of available directors is the number there is.        *)
CountsAreTrue == shown = Shown(menu)

(* As long as every play is confirmed as stopped at most once, and not      *)
(* before it is confirmed as started, the handshake of start, [STARTED],    *)
(* stop and [STOPPED] keeps the menu and the directors in step.             *)
HandshakeOnePlay   == outOfTurn \/ OnePlayAtATime
HandshakeAvailable == outOfTurn \/ AvailableIsIdle
HandshakeStop      == outOfTurn \/ StopFindsPlay
HandshakeCounts    == outOfTurn \/ CountsAreTrue

(* Every [QUITED] names a director the producer knows, so that "we will     *)
(* receive the quit confirm message, only after that can we release the     *)
(* resources about this director" (reader_service.cpp:130) has a record to  *)
(* release.                                                                 *)
QuitFindsRecord ==
  \A d \in Director :
    prod = "running" /\ reader[d] = "open" /\ Parsed(toProd, d, "QUITED") =>
      Head(toProd[d]).id \in DOMAIN id_socket_map

(* A director that knows its id and is told to quit leaves and is forgotten *)
(* by the producer, which is what wait_for_quit polls for                   *)
(* (producer.cpp:46-58); unless another director's [QUITED] kills it first. *)
QuitIsAnswered ==
  \A d \in Director :
    (director_id[d] # 0 /\ InFlight(toDir, d, "quit")) ~>
      \/ phase[d] = "gone" /\ reader_id[d] \notin DOMAIN id_socket_map
      \/ prod = "crashed"

(* "it will check its menu and find a director that is playing the play,    *)
(* and send a message to it to let the director stop" (ReadMe.txt:89).      *)
Mistaken(d, m) == m.type = "stop" /\ play[d].name # m.name

StopReachesItsPlay ==
  \A d \in Director : phase[d] = "up" =>
    \A n \in 1 .. Len(toDir[d]) : ~Mistaken(d, toDir[d][n])

(* The gray area between a command and its confirmation is left again       *)
(* (threadsafe_menu.cpp:130) by every director that is never told to stop a *)
(* play it is not playing.                                                  *)
InGrayArea(d) ==
  reader_id[d] \in DOMAIN menu /\ menu[reader_id[d]].status = "UNCLEAR"

GrayAreaEnds ==
  \A d \in Director :
    [](\A n \in 1 .. Len(toDir[d]) : ~Mistaken(d, toDir[d][n])) =>
      (InGrayArea(d) ~> ~InGrayArea(d) \/ prod = "crashed")
=============================================================================
