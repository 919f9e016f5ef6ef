# A verification development for cse532s

The repository is the work of a course on concurrent C++: labs that grow from a
program that reads a play script (lab0) to a distributed theatre (lab3), and
some sixteen studios, each an exercise of a few pages on one concurrency
pattern. The one real system in it is **lab3**: a *producer* process with a
menu of plays, *director* processes that offer plays over TCP, and inside every
director a pool of *player* threads that perform a play under a
leader/followers scheme. This development models lab3's two concurrent halves
and how a director reads its files; the earlier labs, as variants of lab3's
stage or as the chain of programs they are; and those studios that end in a
program with state and concurrency of its own. Every safety property that the
runs check is also proved for every instance: the producer's data and its
handshake with the directors, how a director reads its files, the team on stage
and the performance it gives, lab2's theatre, lab0's and lab1's chain of
programs, the lock-free stack of studio 7, the thread pool of studio 11, the
sessions of studios 14 to 16 and the time service of studio 16. What has to
happen eventually is model-checked only.

## 1. The system and its parts

| part | source | state | operations | modules |
|---|---|---|---|---|
| menu | `lab3/producer/threadsafe_menu.*` | director id -> (status, plays); the printed index | `str`, `reg_play`, `pop_avaliable`, `pop_busy_play`, `set_idle/busy_with_id`, `clean_with_id`, `operator[]` | `ThreadsafeMenu` |
| producer | `lab3/producer/{producer,reader_service,ui_service,main}.cpp` | id -> socket map, next id, one reader per director, the terminal | accept, six message handlers, `start`/`stop`/`quit`, Ctrl-C, `wait_for_quit` | `Theatre` |
| director | `lab3/director/{director,main}.cpp` | its id, a `shared_ptr<Play>`, its players | register, `start_play`, stop, quit, Ctrl-C | `Theatre` (protocol), `PlayStage` (`start`, `cue`, stop) |
| play and players | `lab3/director/{play,player}.*` | scene and line counters, four counters and flags of the team, per-thread state | recruit, lead, cue, read, enter, barrier, recite, exit | `PlayStage` |
| audience's view | - | lines heard | say a line, end a scene | `Performance` (abstract) |
| lock-free stack | `studio7_lock_free/lock_free_q5.hpp` | a linked list of nodes with split reference counts | `push`, `pop`, the destructor | `LockFreeStack` |
| a stack's promise | - | the values, the calls in progress | push, pop, each at one moment | `AbstractStack` (abstract) |
| parsing of plays and scripts | `lab3/director/director.cpp` 165-311, lab2's and its extra credit's | configurations, titles, the size of the team | `parse_play_file`, `parse_config_file`, `parse_script_file` | `Casting` |
| lab2 and its extra credit | `lab2*/src/*` | the stage's, and how many players were hired | parse, hire (`-override`), the players' calls, the destructor | `Ensemble` |
| lab0, lab1 and their extra credits | `lab0*/`, `lab1*/` | part files, a shared line counter | split (and shuffle) a script, read, recite in step, print sorted | `Recital` |
| bounded list | studio 4 `monitor_object_q6.hpp`, studio 5 `monitor_object_q5.hpp` | a list, its sleepers, `active_` | `push_front`, `push_back`, `pop_back`, `shut_down`, `active` | `SynchronizedList`, `MonitorObject` |
| active object | studio 5 `active_object_q5.*` | the list, its workers, a second object | `active`, `enqueue`, `deactivate`, `run_service` | `ActiveObject` |
| thread pool | studio 11 `thread_pool.hpp`, `hsha_lf_q5.cpp` | queue, leadership flag, workers | `submit`, `worker_thread`, the destructor | `ThreadPool` |
| client and server | studio 14 (server q6, client q2), 15 (q5-q7), 16 (q2) | connections, an id counter, a chain of interceptors | connect, answer, read, close, Ctrl-C, restart | `Session` |
| time service | studio 16 `ACESimpleClient_q5.hpp` | a timer, a thread, `canceled_` | `init`, `fini`, `suspend`, `resume`, `svc`, Ctrl-C | `TimeService` |
| the other studios | `studio*/` | - | - | left out, see section 5 |

How they interact. The producer runs one ACE reactor thread: it serves the
terminal, the listening socket and all directors' sockets, one handler at a
time. A director runs one reactor thread for its socket, plus the player
threads, which also write to the socket ([STOPPED] at the end of a play).
Messages are NUL-terminated strings; both sides read them with a single `recv`
of up to 256 bytes and parse the text up to the first NUL, so messages that
arrive together are lost but for the first.

What is hard here, and what the properties are for:

* the *handshake* `start`/[STARTED]/`stop`/[STOPPED] against plays that end by
  themselves at the same moment, against players that a stop sends off the stage
  and whose last one confirms it again, against lost messages, early quits, crashes;
* *two maps* (menu and sockets) and a *printed index* that different handlers
  update, and commands that trust them;
* the *team set-up*: `Play::exit` and `director::start` publish four variables
  under four mutexes one after the other while the players are already at it;
* *lost wake-ups*: flags set without the mutex of the predicate they belong to;
* *one unprotected counter*, `on_stage_member_num++`;
* *shutdown*: who notifies whom, and who never looks at the flag again;
* *memory reclamation without a lock*: who may delete a popped node that others
  still look at, and whether a reused address can fool an exchange;
* *teams of the wrong size* (lab2): what parsing leaves behind after a swallowed
  exception, a play named twice, a user's number that is too small;
* *one counter that orders threads* (lab1): gaps and doubled numbers in files;
* *notify_one and two kinds of sleepers* (studio 4), *two workers on one list*
  after a quick reactivation (studio 5), *a flag that must come down on every
  way out* (studio 11), *a question and an answer without the mutex* (studio 16);
* *a byte's way through two chains* and sessions that overlap, are interrupted
  or outlive their server (studios 14 to 16).

## 2. The modules

**`ThreadsafeMenu`** - the class `threadsafe_menu` as operators on its two maps.
Every method holds `menu_mutex` throughout, so each is one step for its users.
A play's name is a positive integer, its rank in the order of `std::map`.

**`Theatre`** - the protocol. One action per handler of a reactor:

| code | action |
|---|---|
| `producer::handle_input` | `Accept` |
| `reader_service::parse_receive_msg`, by message | `ReadId`, `ReadPlay`, `ReadStarted`, `ReadStopped`, `ReadQuited`, `ReadQuitedUnknown`, `ReadEOF` |
| `ui_service::parse_command` | `UiStart`, `UiStop`, `UiQuit`; `UiPastEnd` for the index just past the menu |
| `producer::handle_signal`, `wait_for_quit` | `ProducerSigint`, `WaitForQuit` |
| `director::director`, `regis_self` | `Connect` |
| `director::parse_receive_msg`, by message | `ReceiveId`, `ReceiveStart` + `ConfirmStarted`, `ReceiveStop`, `ReceiveStopNoPlay`, `ReceiveQuit`, `ReceiveEOF` |
| `director::handle_signal`, death of a process | `DirectorSigint`, `Crash` |
| end of `Play::exit` | `LastExit`; `GhostExit` for a play that was stopped or replaced while on stage |

A socket is a sequence of messages. `env`, chosen at the start, says which
outside events a behaviour may have (`finish`, `early`, `coalesce`, `sigint`,
`psigint`, `crash`), so that one run covers several environments. `GhostExit` is
no outside event: the stop handler sets `finished` (director.cpp:356) and sends
[STOPPED] (359), the players leave `act` early (player.cpp:189), and the last to
leave the last scene sends [STOPPED] once more (play.cpp:200-210), at any later time
or never. The history variable `outOfTurn` says that a [STOPPED] has been sent for a
play already confirmed as stopped, or ahead of the play's own [STARTED]; it guards
no action, only properties.

**`PlayStage`** - one performance: `N` player threads, the director's reactor
thread, the `Play` they share. A step is a critical section or one access to an
unprotected variable; `on_stage_member_num++` in `Play::enter` is a load and a
store. `Play::exit` and `director::start`, which take several mutexes in turn,
are several steps. A player waiting on `needed_player_cv` has a state for
"predicate found false, not yet asleep" (`block_needed`), because `finished` is
written without that mutex and the notification may come in between. Waits whose
every writer holds the mutex (the barrier) are a guard. The four race windows
the code leaves open are named (`StaleLeader`, `EarlyBarrier`, `LostUpdate`,
`LateFinish`), and the history variable `raced` says that a thread has been
inside one: it never guards an action, only properties.

**`Performance`** - what an audience may expect, without threads: lines in
order, scene after scene, a scene over when all its lines are spoken; after a
`cut` (an interruption or a race) a scene may end early, but nothing is
repeated, skipped backwards or out of order. `PlayStage` implements it
(`IsPerformance`, with `cut <- raced \/ Interrupted`).

**`LockFreeStack`** - `lock_free_q5.hpp`, one step per access to memory that
another thread can see:

| code | actions |
|---|---|
| `push` | `NewNode`, `LoadNext`, then `PushFails` until `PushSucceeds` |
| `increase_head_count` | `LoadHead` (in `pop`), `IncreaseFails` until `IncreaseSucceeds` |
| `pop` after it | `ReadNext` (of `ptr->next`), `PopSucceeds` or `PopFails` |
| a successful pop | `Take`, `Settle` (the `fetch_add` of `external_count - 2`), `Delete` if it was last |
| a lost race | `Release` (the `fetch_add` of -1), `Delete` if it was last, and again |
| return; destructor | `Return`; `Destroy` when all threads are idle, then pops by `Owner` |

Nodes live at addresses of a finite set, and a deleted address is free for the
next `new`: that is what a stale pointer may be mistaken for. The history
variable `list` holds the addresses of the nodes on the stack; it guards no
action. `contents`, its values, is what `AbstractStack` sees.

**`AbstractStack`** - a sequence and, for each thread, the call it is in. A
push or a pop takes effect in one step of its own between call and return.
`LockFreeStack` implements it (`IsStack`): a push takes effect at its exchange,
a pop at its exchange or when it counts itself in at a null head.

**`Casting`** - the parse functions over files that are sequences of lines.
`parse_script_file` and the loop of `parse_config_file` are folds over lines;
the action `parse_play_file` reads the next file of the command line, on top of
what an earlier reading of the same file has left. A fragment that does not open
ends the reading and is forgotten. Nothing is assumed of the files but that
they have a length and lines of the kinds that the parser tells apart.

**`Ensemble`** EXTENDS `PlayStage` - lab2's theatre. Most functions are lab3's,
and their actions are those of `PlayStage`, under lab2's names; `act`, `recite`
and `exit` differ (nobody interrupts, the end is found by the titles, which may
be missing) and so does the director, whose destructor waits for `finished` and
joins. `Engage` starts with any number of players that parsing or `-override`
may have led to; `ending` is where the destructor is (`AwaitFinished`,
`JoinPlayers`), while `dpc` stays that of `start`.

**`Recital`** - lab0 and lab1 as one tool chain. `Split` runs one of the extra-credit
programs on a script, in lab1's case with any order of the lines of a speech;
`ReadConfig`, `Enter`, `Read`, `Recite`, `EndAct`, `Exit` are lab1's threads,
one step per critical section; `thread`, `loaded` and `left` are where a
character's thread is, its `Player::lines` and the numbers it has yet to recite.
`Lab0Print` is what lab0 prints of the same files. The two programs differ in one
more thing than their comments let expect, which the proof brought up: of several
lines of one number lab1 takes the first, lab0 the first that is not blank. So
where a line of blanks stands before a text of its number they print different
lines, and `RecitalAgrees` holds where no text is hidden so (`NothingHidden`).

**`SynchronizedList`** - the monitor object. A call is one step unless it waits;
`Wake` is `notify_one` and wakes any one sleeper, who tests again. It knows the
list of studio 5 (`shut_down`, `active`) and, with `active_` always true, that of
studio 4. **`MonitorObject`** is studio 4's program, **`ActiveObject`** studio 5's,
with a worker's loop in three steps (`Test`, `Take`, `Forward`) since it looks at
the list again after it has let go of it.

**`ThreadPool`** - studio 11. A task is the place of its number in the input.
`BecomeLeader` is the `test_and_set` that finds the flag clear; the leader's ways
out of its loop are `AnswerAtOnce` (which is none), `TakeOn` + `HandOver` +
`Compute`, and `NothingToDo`. `Half` and `is_prime` are C++'s truncating integer
arithmetic.

**`Session`** - client and server of studios 14 to 16. `version` says which
exercise runs, that is, which chains of interceptors; these are functions on
bytes, 32-bit where the code computes in `unsigned int`. A connection has what is
on its way to the server (`in`) and the answer (`out`), both outlive the process
that sent them, and closing with an answer unread resets it. `recv`'s -1 in a
`size_t` is modelled as what the code makes of it (`ReceiveNothing`, `ReadReset`).
What is printed is a string made of the buffer (`Shown`): with a chain of the decoded
bytes up to the first 0, which in exercise 7 may be a byte of 128 decoded; without
one of the bytes and of whatever the uninitialised buffer holds behind them (`Stale`),
since a message ends without a 0.

**`TimeService`** - studio 16's service: the user's thread (`init`, `fini` in three
steps, `suspend`, `resume`), the thread of `svc` in one step per statement that the
other can see, the timer queue, and SIGINT, for which a client stays registered when
`svc` has returned (`registered`).

**`MCTheatre`, `MCPlayStage`, `MCLockFreeStack`** - values for the constants, symmetry.
**`MCLabs`, `MCStudios`** - instances of several small systems in one run each: a
variable (`lab`, `exercise`), fixed in the initial state, says which system a
behaviour is about; the variables of the others rest in one of their own initial
states. Each system keeps its own actions, properties and fairness. `MCLabs`
EXTENDS `Ensemble`, `Casting` and `Recital`, and `MCStudios` EXTENDS `ThreadPool`,
`Session` and `TimeService`, so that the definitions that are checked are the ones
that are proved about; `MonitorObject` and `ActiveObject` are instances.
**`Theatre_proofs`, `PlayStage_proofs`, `Ensemble_proofs`, `LockFreeStack_proofs`,
`ThreadPool_proofs`, `Session_proofs`, `TimeService_proofs`, `Labs_proofs`** -
the theorems. `Ensemble_proofs` builds on `PlayStage_proofs`; `Labs_proofs` is about
`Casting` and `Recital`, which share the lemmas on folds.

## 3. What the runs check

| run | instance | shows |
|---|---|---|
| `theatre` | 2 directors (plays {1,2} and {2}), 2 starts, 2 stops, indices 0..2, three environments: lost messages, Ctrl-C and crashes; self-ending plays with lost messages; self-ending plays with Ctrl-C and crashes | types; every menu record has a socket; records and commands name the right plays; the printed index is that of the menu; and, until a play is confirmed as stopped twice or before it is confirmed as started, no start reaches a playing director, whoever is AVAILABLE is idle, no stop meets a null play, the printed numbers are true |
| `theatre_calm` | the same, indices 0..1, nothing from outside but a Ctrl-C at the producer, fair reactors | a quit is answered and the director forgotten; a director leaves the gray area unless it was sent a stop for a play it is not playing |
| `stage` | 3 players, two scenes of two characters each, one of them silent; a stop, a Ctrl-C, both or neither at any time; fair threads | types; script order; without a race there is one leader, nobody enters a scene that is over, nobody recites before the team is complete, and nothing is said out of another scene; the result is a (possibly cut) performance; undisturbed, the play ends and everybody leaves |
| `stack` | 3 threads, 4 operations, 2 addresses, 2 values, then the destructor | types; no dangling pointer, no double deletion; the split count is right at every step; no leak; the operations are those of a stack |
| `labs` | Casting: all play files of up to 4 lines over three titles and three fragments (one does not open), alone or with another file, once or twice. Ensemble: 0 to 3 players for a play read to its end or not. Recital: two scripts, split up to twice, into no files or on top of part files with a gap, with a doubled number, or with a line of blanks before a text of its number; 2 threads | a team is large enough for any two fragments in a row; titles printed tell the scene; no fragment is played short-handed; when the director is gone every line has been spoken; a performable play ends; lab1's threads print what lab0 prints, unless a number has two speakers or a blank line hides a text; a script split and recited is itself again; a recital without a gap ends |
| `studios` | ThreadPool: 3 workers, four inputs. Session: 3 sessions of 2 clients, 2 runs of the server, four versions. TimeService: 5 commands, 4 timers. MonitorObject: 4 pushers, 4 poppers, marks 2 and 1. ActiveObject: 2 rounds of 2 numbers | verdicts are right but for 2 and negative odd numbers; everything submitted is answered or main returns; no two messages of one run of the server carry one id; the server prints its clients' texts, but for the bytes that doubling destroys, for what follows a byte decoded to 0, and for stale bytes behind a text; whoever waits is served; `fini` returns and leaves no timer; all pushes and all but the last `low_` pops return; all workers end |
| `theatre_double_start` | 2 directors, 1 play, 3 starts, 1 stop, nothing from outside | **violated**: the late second [STOPPED] of a stopped play puts a playing director on offer, and a start reaches it (ReadMe.txt:115) |
| `theatre_early_quit` | 2 directors, a quit during registration | **violated**: [QUITED] 0 has no record to release (reader_service.cpp:130) |
| `theatre_wrong_stop` | 2 directors sharing a play | **violated**: the stop goes to a director playing something else (ReadMe.txt:89) |
| `stage_stop_doc` | 2 players, 1 scene, a stop | **violated**: a leader spins forever after a stop (ReadMe.txt:73) |
| `stage_end_doc` | 2 players, 1 scene | **violated**: a player misses the last wake-up (play.cpp:209) |
| `stage_race` | 2 players, 1 scene | **violated**: somebody who is not the last to leave ends the scene (lab2/ReadMe.txt:89) |

*Bounds.* Two directors that share one play and differ in another are the least
with which an index, a choice of director and a mistaken stop can all go wrong;
two starts and two stops let a director play, be stopped, play again and be
stopped again, which is what the handshake can confuse. The double start takes
three starts and one stop. `next_id` needs no bound: a director connects once. Three players
for scenes of two characters leave a player over, who may be recruited
late or early: that is what every race window needs; two scenes give one change
of scene, and a character without lines a player that leaves at once. `UIntMax = 7` stands for 2^32 - 1: what matters is that a decrement of
zero yields something large. `ProducerSigint` happens once. For the stack, three threads are the least with a
popper, a thread that loses its race and a third that pushes in between; two
addresses make every second node reuse one, so that a head can look the same and
be another. `MaxOps = 4` operations in all let the stack be filled, emptied and
filled again; the destructor's own pops are not counted in. `MaxCount = 6` caps
an external count: above it `IncreaseSucceeds` waits. Addresses are
interchangeable, so the run uses their symmetry; threads are not (`Owner`), and
values are left as they are.

Play files of four lines hold two fragments under different, equal and missing
titles, before and after one that does not open; nothing in the parser looks
further back than one fragment, and the second file is longer. Two threads with
speeches of one to three lines, one of them an answer to itself, meet each other
in every order. Three workers are a leader, a follower that computes and one that spins;
the inputs hold 0, 1, 2, a prime, a square, a product, a negative even and a
negative odd number. The bytes sent come from all ranges that the interceptors
treat differently, and 128 is among them, with bytes before and behind it, and as
a byte that exercises 5 and 6 must return; the stale bytes are none, or some with a 0
among them. Two sessions of one client overlap as those of two do, and
two runs of the server let a counter start again. Five commands are enough for
a service that is initialised, suspended, resumed, closed and initialised again.
With `low_` = 1 and `high_` = 2 the list is full, too short and in between, and
both kinds of sleepers exist together.

*Deadlock* is not checked (`CHECK_DEADLOCK FALSE`): all systems stop, the
theatre when everybody has quit and the bounds are used up, the stage when all
players have left or, as the findings show, when some sleep for good, the stack
when it has been destroyed, the labs when their programs return, the studios when
their inputs are used up or, in studio 4, with the last poppers asleep. That they
do not stop too early is what the liveness properties say.

*Fairness.* A reactor that has a ready handle dispatches it, and `wait_for_quit`
polls in a loop: weak fairness of `Accept`, `WaitForQuit`, each reader and each
director's reactor. The user, signals, crashes and the end of a play are not
fair. On stage every thread that can run eventually does (weak fairness per
player and for the director's `start`); nobody is obliged to stop the play. The same
holds for the threads of lab1, lab2 and studios 4, 5 and 11: weak fairness per
thread, so that nothing is promised about *which* spinning worker gets the
leadership, which sleeper a notification wakes or which connection the reactor
turns to. `submit` is not fair: nobody has to type. In `Session` the reactor
handles something as long as something is ready, and a client gets on when its
`recv` returns; timeouts, Ctrl-C and a new start of the server are not fair. In
`TimeService` the two threads run, and timers need not fire.

*Mutants.* Every property of a passing run is tied to a plausible slip in the
code (`PROJECT.json`, `mutants`) that makes it fail; the mutants stand before
the definitions they replace and are marked as such.

## 4. What is proved

For every value of the constants that meets the modules' assumptions
(`PlayAssumption`, `TheatreAssumption`, `PlayStageAssumption`, `EnsembleAssumption`,
`CastingAssumption`, `RecitalAssumption`, `StackAssumption`, `ThreadPoolAssumption`;
`SessionAssumption` is a hypothesis of `Session`'s theorems, since it names
definitions of that module, and TLC evaluates it as part of
`MCStudios!StudiosAssumption`; the theorems about `TimeService` assume nothing):

| theorem | says |
|---|---|
| `Theatre_proofs!TypeCorrect` | `Spec => []TypeOK` |
| `Theatre_proofs!MenuAlwaysHasSocket` | `Spec => []MenuHasSocket` |
| `Theatre_proofs!RecordsAlwaysBelong` | `Spec => []RecordsBelong` |
| `Theatre_proofs!IndexAlwaysMatchesMenu` | `Spec => []IndexMatchesMenu` |
| `Theatre_proofs!OnePlayAtATimeAlways` | `Spec => []HandshakeOnePlay` |
| `Theatre_proofs!AvailableIsAlwaysIdle` | `Spec => []HandshakeAvailable` |
| `Theatre_proofs!StopAlwaysFindsPlay` | `Spec => []HandshakeStop` |
| `Theatre_proofs!CountsAreAlwaysTrue` | `Spec => []HandshakeCounts` |
| `PlayStage_proofs!TypeCorrect` | `Spec => []TypeOK` |
| `PlayStage_proofs!LinesInOrder` | `Spec => []ScriptOrder` |
| `PlayStage_proofs!LeaderOfTeam` | `Spec => []OneLeader` |
| `PlayStage_proofs!NobodyIsLate` | `Spec => []NeverEntersFinishedScene` |
| `PlayStage_proofs!WholeTeamOnStage` | `Spec => []NobodyStartsAlone` |
| `PlayStage_proofs!TextOfTheScene` | `Spec => []RightText` |
| `PlayStage_proofs!AudienceHearsPerformance` | `Spec => IsPerformance` |
| `PlayStage_proofs!OnlyRacesCutActors` | `Spec => SceneEndsAlone` |
| `Ensemble_proofs!NeverPlayedShort` | `EnsembleSpec => []NeverShortHanded` |
| `Ensemble_proofs!EverythingIsSpoken` | `EnsembleSpec => []EveryLineSpoken` |
| `Labs_proofs!TeamIsLargeEnough` | `CastingSpec => []EnoughForTwo` |
| `Labs_proofs!TitlesAlwaysTell` | `CastingSpec => []TitlesTellScenes` |
| `Labs_proofs!RecitalInvariant` | `RecitalSpec => []RecitalInv` |
| `Labs_proofs!RecitedAsPrinted` | `RecitalSpec => []RecitalAgrees` |
| `Labs_proofs!ScriptComesBack` | `RecitalSpec => []RoundTrip` |
| `LockFreeStack_proofs!TypeCorrect` | `Spec => []TypeOK` |
| `LockFreeStack_proofs!NeverDangling` | `Spec => []NoDangling` |
| `LockFreeStack_proofs!CountsAlwaysAgree` | `Spec => []CountsAgree` |
| `LockFreeStack_proofs!NeverLeaks` | `Spec => []NoLeak` |
| `LockFreeStack_proofs!Linearizable` | `Spec => IsStack` |
| `ThreadPool_proofs!TypeCorrect` | `PoolSpec => []PoolTypeOK` |
| `ThreadPool_proofs!LeaderIsOne` | `PoolSpec => []OneLeader` |
| `ThreadPool_proofs!NeverLost` | `PoolSpec => []NothingLost` |
| `ThreadPool_proofs!VerdictsAreRight` | `PoolSpec => []JudgedRightly` |
| `Session_proofs!TypeCorrect` | `SessionAssumption /\ Spec => []TypeOK` |
| `Session_proofs!IdsAreAlwaysUnique` | `SessionAssumption /\ Spec => []IdsAreUnique` |
| `Session_proofs!TextComesBack` | `SessionAssumption /\ Spec => []Delivered` |
| `TimeService_proofs!TypeCorrect` | `TimeSpec => []TimeTypeOK` |
| `TimeService_proofs!FiniLeavesNoTimer` | `TimeSpec => ServiceQuiet` |

*Theatre.* None of the first four is inductive by itself. The invariant `Inv` is a
conjunction of `Control`, `Identity`, `Transit`, `Menus` and `Stages`. Its heart
is identity: the id in a reader, the id a director has been told, the ids in all
messages on their way and the entry of the socket map are those of the same
director; a message that carries an id comes from a director that was given it.
From that a [PLAY] can only create or extend the record of its own sender, whose
socket is there as long as no [QUITED] has been read; and [QUITED] is the last
message of its sender (`Transit`), so no later [PLAY] can bring back a record
whose socket is gone. Losing messages by coalescing keeps all of this, since it
only shortens a sequence from the front.

*Handshake.* The four properties hold until a [STOPPED] is sent that is the play's
second or comes before its [STARTED]. What happens then `theatre_double_start` shows,
so `outOfTurn` is a case of each of them and not an assumption about plays: they may be
stopped or end by themselves, also while a stop is on its way. `HandshakeInv` is `Inv`,
`OwnIds` (no two readers share an id) and `outOfTurn \/ AllInStep`. `AllInStep` follows
for every director the *tokens* of the handshake: a `start` on its way, a play being
started, [STARTED], `stop`, [STOPPED]. `FewTokens` says which may exist together: a
`stop` with the [STOPPED] of a play that ended meanwhile, or with the `start` that is
sent after that; a [STOPPED] with the [STARTED] before it. No token is there twice, and
each pair arrives in its order (`InOrder`). The tokens tell whether the play runs
(`TokenFits`), and so does the record at the producer once it has left the gray area:
AVAILABLE means that there is at most a `stop` that came too late, UNAVAILABLE at most
the [STOPPED] of a play that has ended (`RecordFits`). A reply carries its sender's own
id, or the 0 of a director that has not been told one (`OwnReplies`), so a
confirmation settles the record of the director that sent it. A lost message takes a token away, and that leaves the record in the gray
area for ever, which is what `GrayAreaEnds` is about, but contradicts nothing.
The counts printed are a function of the menu that each handler that changes a
status evaluates again (`CountsAreTrue`).

*Stage.* `TypeInv` adds to the types that a part handed out is one of the script
(`SceneExists`). `OrderInv` adds `PastIsBehind`: every line printed lies before
the play's present place, (scene, line) in lexicographic order, which each
delivery and each change of scene only advance. No property of the team is used,
and so order survives every race and every interruption.

*The team.* Everything else on stage holds only until a thread has been inside one
of the four race windows, and `raced` is what the properties say so with:
`stage_race` shows what can happen afterwards, and even two leaders are possible
then. `TeamInv` is `TypeInv`, two parts that survive races (`OneSetter`: one
thread at most sets up a scene; `TeamIsActivated`), and `raced \/ Calm`. The heart
of `Calm` is that the stage is always in one of three phases: `Closed` (nobody is
called, nobody is left of the last team), `Assembling` (who is still called and
who has come make up the cast) and `Performing` (nobody is missing). While a team
assembles, the number at the barrier is not set yet, or is the cast less those
who are through, or has been lost to a Ctrl-C that took the reactor away in
between, in which case the decrement wraps around and the barrier stays shut
(`BarrierUnset`, `BarrierSet`, `BarrierLost`). `ExactCount` says that
`on_stage_member_num` is the number of those who have entered, so the last to
leave is the last. `Leader` keeps parts away from everybody until the one leader
hands them out; `RightPart` and `RightPlace` say that a part is of the scene in
progress and how far its owner has come in it. For the refinement,
`EveryPartIsHandedOut`: each character of the scene has somebody who speaks it or
has no line left, so when the last player leaves, the play is past every line of
the scene. `AudienceHearsPerformance` then takes one step per action: a delivery
is `Say`, the last exit `SceneEnds`, everything else a stutter. Counting rests on a
few lemmas on `Cardinality` (`CountMoves`, `OnlyOneMoves`): a step moves one player
and wakes sleepers, and no set of locations that is counted tells a sleeper from
one awake.

*lab2.* Outside the race windows, and as long as the titles have not run out, a
step of lab2 is one of lab3's (`StepOnStage`): `finished` is never set while
somebody acts, and the last title is the last fragment. So `TeamInv` holds of it
too (`Staged`), with four parts more: only hired players move, whoever is through
an open barrier got there with the whole cast and so the cast is hired
(`WholeCastHired`), every line up to the play's place has been spoken
(`SaidSoFar`, `SaidBefore`). A play whose titles an exception has cost it leaves
lab3's stage after the first fragment: nobody is called and nobody finishes
(`Abandoned`), so its director is never gone. The invariant is either of the two,
or `raced`.

*Parsing.* A parser is a fold over a file's lines, and what a fold computes for a
file of any length is a statement by induction. The library's induction theorems
take an operator as a parameter, which the installed provers cannot instantiate,
so a least counterexample stands in for them (`WFMin` of `WellFoundedInduction`,
in `LeastNumber` and `UpTo`: what holds of 0, and of i + 1 where it holds of i, holds
up to any n). `ReadingByLine` proves in this way first that the recursive function
behind `FoldLeft` exists, and then that a reading is one line after the other;
`PartsByLine` and `SplitByLine` do the same for the other two folds. Then
`GoodReading` says what the loop of `parse_config_file` knows after each line:
what any two neighbours need lies at or below `max`, `last` is the size of the last
fragment, and a fragment's parts are of distinct characters, which is why their
number is that of the characters (`AsManyAsCharacters`). `CastingInv` says what this
leaves of a play, from one file of the command line to the next: the titles of its
fragments and a team that fits them (`ReadOnce`), or no title at all where a
fragment does not open, or more titles than fragments when it has been read again;
the last two are the plays that `Sound` leaves out. `TitlesTell` goes from one title
printed to the next.

*Recital.* `RecitalInv` says how the threads hang together: each knows its part, and
what it has not left to recite the counter has passed (`PartsKnown`); every number
below the counter has been recited, in order, by somebody in whose part it is the
first line of that number (`Recited`). For `RecitedAsPrinted` lab0's print is one
flattened list, of which the first `counter` - 1 entries, blanks aside, are what has been
recited (`SaidAlike`, `FlattenedPrefix`): a number has one speaker, so the line that
either program takes is the same. For `ScriptComesBack`, `AsMeant` says what main
knows after i lines of a well-formed script: who speaks, and that the lines of
each character's speeches carry their places in what is meant. A shuffle keeps the
set of lines (`ShuffleSaysAll`), and a second split of the same script adds none, so
the files hold what is meant (`AsWritten`); with `Recited` and `AllRecited` what the
counter has run through is all of it, in order (`Returned`).

*Stack.* `TypeOK`, `NoDangling` and `CountsAgree` need each other. Together
with `Locals` (what a thread's locals are at each place), `Distinct` (no node is
twice on the stack) and `Unsettled` (before the settlement an internal count is
at most zero, so no loser can take itself for the last) they form `Safe`, which
is inductive. Its heart is one equation per node: external count - 1 + internal
count = number of holders. A holder also keeps its node's address from being
reused, so the `nxt` it has read is still right when its exchange succeeds, even
if the node was at the head, away and at the head again. `Kept` says that an
allocated node is on the stack, owned or held, and `Drained` what the destructor
knows when a pop returns nothing; from these follows `NoLeak`. `Loaded` and
`Unanswered` say where the data is, for the refinement.
`Linearizable` takes one step per action: `PushSucceeds`, `PopSucceeds` and
`IncreaseSucceeds` at a null head are the abstract operations, all other steps
are calls, returns or stutters. No bound enters: the theorems hold for any
`MaxOps` and `MaxCount`.

*Thread pool.* `OneLeader` is inductive: the flag is set only by a worker that
finds it clear, and cleared only by the one that leads. For `NeverLost` the tasks
are split at `Taken`, the number of those that have left the queue: the queue
holds exactly the tasks after it, in order (`Order`), what is held or answered
lies before it (`Held`), everything before it is held or answered (`Found`) and
by one only (`Once`). `VerdictsAreRight` adds `Judged` (what is held is odd and
not 1; what is printed is the code's verdict), and compares the verdict with the
definition of a prime by arithmetic alone: an even number above 2 is twice its
half; if i divides n and i is at most half of n, the quotient lies between 2 and
n; and if n is a product of two numbers from 2 on, each is at most half of it.

*Session.* A connection is always in one of seven states (`KnownState`: not made,
asking, left unanswered, answered, sent, finishing, gone), which leaves at most
one sound letter in it, at the front. It *bears* an id while the answer with that
id or the message signed with it is on its way and the server that gave it is
still there. `Ids` says that ids borne are below `client_counter`, that no two
connections bear the same, and that no message printed in this run has one that
is still borne; so the next message printed carries an id nobody has printed. A
server that ends takes all its connections with it, and the next run may count
again. `Faithful` says that a sound letter holds its client's text as its chain
encodes it, and `ShownIn` what is printed of such a letter: with a chain the decoded text up
to its first 0, without one at least the text, which has no 0 in it. What a chain does is written out for chains of up to two interceptors
(the fold over each set of indices in turn), and that decoding undoes encoding is
then arithmetic, for all bytes (`ByteBack`): addition modulo 256, a rotation of the eight
bits by two, and doubling, whose lost top bit is one exception the property names, and
which makes of 128 and of no other byte a 0, which is the other.

*Time service.* `ServiceInv` follows a `fini` from the question to its answer. While
the user has not asked, the loop of an open reactor goes on (`NotAsked`), so the loop
that `svc` leaves is left for this `fini` or for a Ctrl-C, which closes the reactor and
drops its timers for good (`TimerKnown`). From the cancelling to the answer no timer
is set, since the one who could set one waits (`Winding`), and `canceled_` comes down
only after that (`Answered`). `TimerKnown` says why one cancelling is enough: the
service knows the one timer that may be set, unless a schedule has written over its
id, which is the exception the property names.

*Only model-checked.* Whatever must eventually happen: `QuitIsAnswered` and
`GrayAreaEnds` (theatre), `PlayEnds` (stage), `RecitalEnds` and `EnsembleFinishes`
(labs), `Served`, `FiniReturns`, `ListDrains`, `WorkersStop` and `PoolAnswers` (studios).
The prover has no rules for fairness or ENABLED. `MonitorObject` and `ActiveObject`
have only such properties, and so no theorem. No module declares a RECURSIVE
operator.

## 5. Assumptions and what is left out

* A handler of a reactor is one step; a signal at a director arrives between two
  steps. `cue` is one step of its leader. A Ctrl-C closes the reactor, which calls
  `handle_close`, which destroys the players and so joins them (player.hpp:52): a
  `start` that the signal interrupted goes on when all players have left, and its
  remaining steps are left out.
* `remove_handler(..., NULL_MASK)` is taken to deregister the handler, as the
  code means it to.
* Undefined behaviour (erasing `end()`, a null `play`, a dereferenced `end()`) is
  a crash, or, where the code could also refuse, a choice between the two.
* A message as long as a buffer or longer, one split over two `recv`s, and a `recv` that
  fails with -1 do not occur. Neither do spurious wake-ups, a failure to connect,
  the end of standard input and malformed commands.
* The decrement of `on_stage_member_num` in `Play::exit` is one step (its mutex
  excludes other exits); the increment in `Play::enter` is two.
* `wait_for_quit` reads the socket map atomically.
* One play per `PlayStage`: that a director's list of players grows from play to
  play, and that `config` is overwritten under a running play, is not composed.
* The stack's accesses are sequentially consistent; the relaxed, acquire and
  release orders of the code are weaker. Its `head` starts zeroed, as
  `std::atomic`'s default constructor guarantees since C++20. A node's deletion
  and a `shared_ptr`'s are one step each, a failed `new` does not occur, an
  overflow of a count neither; that two pops may fail each other's exchange
  forever is not shown, since the counts are capped.
* `threadsafe_io`, formatting, and the lines' text are not modelled.
* Files do not change while they are read, and `trim` and the splitting of a line
  into words are taken for done. lab0 reads its configuration with a parser of its
  own, which is taken to find what lab1's finds; the programs' usage messages are
  left out, and so is a part file that a splitter cannot open.
* `Session`: one `send` is one `recv`, but for a request and a message that are both
  there before the server reads, which studio 14's protocol cannot tell apart.
  TCP on one host: an answer already sent is read even if the server has died.
  A client's `recv` of 0 is left out: if the server ends between a client's connect and
  its request, the client's loop spins for ever. Here `Connect` is one step up to
  `recv`.
  Of studio 15, q2 (it includes a header that is not there) and q4 (its two ends do
  not belong together) are left out. The servers of studios 12, 13 and early 14
  hand one reader from connection to connection and are left out.
* `TimeService`: `suspend` and `resume` as `ACE_Task` methods do nothing to a thread on
  Linux; the labels of `rename` and `info` are left out.
* `ThreadPool`: with `-i` the program never ends at the end of its input, and submits
  its last number for ever; that loop is left out. The destruction of `sync_os`
  before the workers are joined is not modelled. `lock_free_queue.hpp` does not
  compile when it is used.
* `SynchronizedList`: `pop_front`, which no program calls, is left out; spurious
  wake-ups do not occur.
* Not modelled at all: studios 1 to 3, 6, 8, 9 and 10 (exercises of a page, code
  that does not compile or is never called), the earlier stages of studios 4, 5, 7,
  11 to 16, and ACE's own demo.

## 6. Plan

1. Done: lab3's `ThreadsafeMenu`, `Theatre`, `PlayStage`, `Performance`, `Casting`;
   lab2's `Ensemble`; lab0's and lab1's `Recital`; `LockFreeStack` and
   `AbstractStack`; `SynchronizedList`, `MonitorObject`, `ActiveObject`,
   `ThreadPool`, `Session`, `TimeService`; their runs and the theorems above.
2. Several plays in one director: `director::players`, which is never emptied, and
   `config`, which is overwritten while players may read it.
3. Done: the proofs of all safety properties of the runs. What is left for a prover
   is liveness, which needs rules for fairness; a proof of its combinatorial core (what
   decreases with every fair step) could be stated as action properties.
4. The servers with one shared reader (studios 13 and 14), whose second connection
   replaces the first under the reactor.
