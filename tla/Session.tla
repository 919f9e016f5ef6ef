------------------------------ MODULE Session ------------------------------
(***************************************************************************)
(* The client and the server of studios 14, 15 and 16.  Every few seconds  *)
(* a client connects, asks for an id (the two bytes "0\0"), waits for it   *)
(* and sends "[id] text"; the server, one thread under a reactor, accepts, *)
(* answers and reads.  In studio 15 both sides pass every byte of the      *)
(* message through a chain of interceptors; version says which exercise    *)
(* runs, and without interceptors ("plain") it is the code of studios 14   *)
(* and 16.  A signal stops the server, which may be started again, or a    *)
(* client, also while it waits for its id.                                 *)
(*                                                                         *)
(* One send is one recv, except for a request and a message that are both  *)
(* there before the server reads, and a message is shorter than the        *)
(* server's buffer.  The network is TCP on one host: closing a socket with *)
(* data unread resets the connection.                                      *)
(***************************************************************************)
EXTENDS Integers, Sequences, SequencesExt

CONSTANTS
  Client,         \* the client processes
  Text,           \* what each was given on its command line, in bytes
  MaxSessions,    \* bound: for each client, timeouts that find the server
  MaxRuns,        \* bound: how often the server is started
  Uninitialised,  \* what an id may be that nobody has received
  Stale           \* what a buffer may hold behind the bytes just received

SessionAssumption ==
  /\ MaxSessions \in [Client -> Nat] /\ MaxRuns \in Nat \ {0}
  /\ Text \in [Client -> Seq(1 .. 255)]
  /\ Stale \subseteq Seq(0 .. 255)

VARIABLES
  version,          \* the exercise
  server,           \* "up", "stopped" or "crashed"
  run,              \* which run of the server this is
  client_counter,   \* its next id
  connection,       \* of a client's k-th session: who still holds it, what is on its way
  client,           \* a client's state and the number of its sessions
  received          \* the messages the server printed, with where they came from

sessionVars == <<version, server, run, client_counter, connection, client, received>>

Versions == {"plain", "q5", "q6", "q7"}

Connection == UNION {{c} \X (1 .. MaxSessions[c]) : c \in Client}

-----------------------------------------------------------------------------
(* Bytes and interceptors.  A byte is its value as an unsigned char.        *)

mod_interceptor(c, size) == (c + size) % 256

ShiftRight(c, n) == c \div 2^n
ShiftLeft(c, n)  == (c * 2^n) % 256

(* Right for a positive size, left for a negative one. *)
rotation_interceptor(c, size) ==
  IF size > 0 THEN ShiftRight(c, size) + ShiftLeft(c, 8 - size)
              ELSE ShiftLeft(c, -size) + ShiftRight(c, 8 + size)

(* The product and the quotient are those of unsigned ints, and a char of   *)
(* 128 or more is negative: 2^32 - 256 + c, divided in two parts because    *)
(* TLC counts to 2^31 - 1.                                                  *)
Quotient(c, n) ==
  IF c < 128 THEN c \div n
  ELSE LET high == (2^24 - 1) \div n
           rest == (2^24 - 1) % n
       IN  (high * 256 + (rest * 256 + c) \div n) % 256

multi_interceptor(c, size) ==
  IF size > 0 THEN (c * size) % 256 ELSE Quotient(c, -size)

Intercept(step, c) ==
  CASE step.by = "mod"      -> mod_interceptor(c, step.size)
    [] step.by = "rotation" -> rotation_interceptor(c, step.size)
    [] step.by = "multi"    -> multi_interceptor(c, step.size)

(* compose appends to the chain and execute runs it from the front. *)
compose(chain, by, size) == Append(chain, [by |-> by, size |-> size])
execute(chain, c) == FoldLeft(LAMBDA byte, step : Intercept(step, byte), c, chain)

ClientChainQ6 == compose(compose(<<>>, "mod", 2), "rotation", 2)

(* Mutant: the server undoes the steps in the order of the client. *)
ServerChainQ6_SameOrder == compose(compose(<<>>, "mod", -2), "rotation", -2)

ServerChainQ6 == compose(compose(<<>>, "rotation", -2), "mod", -2)
ClientChainQ7 == compose(compose(<<>>, "mod", 3), "multi", 2)
ServerChainQ7 == compose(compose(<<>>, "multi", -2), "mod", -3)
ClientChainQ5 == compose(<<>>, "mod", -2)
ServerChainQ5 == compose(<<>>, "mod", 2)

ClientChain ==
  [plain |-> <<>>, q5 |-> ClientChainQ5, q6 |-> ClientChainQ6, q7 |-> ClientChainQ7]
ServerChain ==
  [plain |-> <<>>, q5 |-> ServerChainQ5, q6 |-> ServerChainQ6, q7 |-> ServerChainQ7]

(* What each byte becomes in either chain. *)
Byte == 0 .. 255
Encoding == [v \in Versions |-> [c \in Byte |-> execute(ClientChain[v], c)]]
Decoding == [v \in Versions |-> [c \in Byte |-> execute(ServerChain[v], c)]]

Encoded(text) == [i \in DOMAIN text |-> Encoding[version][text[i]]]
Decoded(text) == [i \in DOMAIN text |-> Decoding[version][text[i]]]

(* string(buffer) ends before the first 0.                                  *)
CString(bytes) ==
  [i \in {j \in DOMAIN bytes : \A l \in 1 .. j : bytes[l] # 0} |-> bytes[i]]

(* What may be printed for the bytes of one recv.  A server with a chain    *)
(* decodes them and puts a 0 behind; one without prints its buffer, which   *)
(* nobody initialised, and a message ends without a 0.                      *)
Shown(bytes) ==
  IF ServerChain[version] # <<>> THEN {CString(Decoded(bytes))}
  ELSE {CString(bytes \o rest) : rest \in Stale}

-----------------------------------------------------------------------------
(* What travels to the server: a request for an id, a message, the end of   *)
(* the stream, a reset.                                                     *)

Hello == [kind |-> "hello"]
Message(id, text, sound) == [kind |-> "message", id |-> id, text |-> text, sound |-> sound]
Eof   == [kind |-> "eof"]
Reset == [kind |-> "reset"]

NotMade == [state |-> "none", closed |-> FALSE, in |-> <<>>, out |-> <<>>]

Init ==
  /\ version \in Versions
  /\ server = "up" /\ run = 1 /\ client_counter = 0
  /\ connection = [k \in Connection |-> NotMade]
  /\ client = [c \in Client |-> [state |-> "idle", sessions |-> 0]]
  /\ received = {}

Current(c) == <<c, client[c].sessions>>

(* The loop over argv: one argument, encoded byte by byte and sent.  The    *)
(* socket is closed when the handler returns, with a reset if the answer    *)
(* has come but was not read.                                               *)
SendAndClose(c, id, sound, unread) ==
  LET old == connection[Current(c)]
  IN  connection' = [connection EXCEPT
        ![Current(c)] = [old EXCEPT
           !.closed = TRUE, !.out = <<>>,
           !.in = IF old.state = "gone" THEN old.in
                  ELSE old.in \o <<Message(id, Encoded(Text[c]), sound),
                                   IF unread THEN Reset ELSE Eof>>]]

(* handle_timeout up to the first recv; if nobody listens the connection is *)
(* refused and the handler waits for its next timeout.                      *)
Connect(c) ==
  /\ client[c].state = "idle" /\ client[c].sessions < MaxSessions[c]
  /\ server = "up"
  /\ client' = [client EXCEPT ![c] = [state |-> "waiting", sessions |-> @.sessions + 1]]
  /\ connection' = [connection EXCEPT
       ![<<c, client[c].sessions + 1>>] = [NotMade EXCEPT !.state = "pending", !.in = <<Hello>>]]
  /\ UNCHANGED <<version, server, run, client_counter, received>>

ReceiveId(c) ==
  /\ client[c].state = "waiting"
  /\ connection[Current(c)].out # <<>>
  /\ SendAndClose(c, connection[Current(c)].out[1], TRUE, FALSE)
  /\ client' = [client EXCEPT ![c].state = "idle"]
  /\ UNCHANGED <<version, server, run, client_counter, received>>

(* recv returns -1, which in a size_t is neither negative nor zero: the id  *)
(* is whatever the stack held.                                              *)
ReceiveNothing(c) ==
  /\ client[c].state = "waiting"
  /\ connection[Current(c)].state = "gone" /\ connection[Current(c)].out = <<>>
  /\ \E id \in Uninitialised : SendAndClose(c, id, FALSE, FALSE)
  /\ client' = [client EXCEPT ![c].state = "idle"]
  /\ UNCHANGED <<version, server, run, client_counter, received>>

handle_timeout(c) == Connect(c) \/ ReceiveId(c) \/ ReceiveNothing(c)

(* SIGINT ends the loop of a client; a recv it interrupts returns -1 too,   *)
(* and the handler still runs to its end.                                   *)
Interrupt(c) ==
  /\ client[c].state \in {"idle", "waiting"}
  /\ IF client[c].state = "idle" THEN UNCHANGED connection
     ELSE \E id \in Uninitialised :
            SendAndClose(c, id, FALSE, connection[Current(c)].out # <<>>)
  /\ client' = [client EXCEPT ![c].state =
       IF client[c].state = "idle" THEN "ended" ELSE "interrupted"]
  /\ UNCHANGED <<version, server, run, client_counter, received>>

-----------------------------------------------------------------------------
(* The server.  A process that ends takes its sockets along: an answer      *)
(* already sent can still be read, anything else is lost.                   *)
Down(how) ==
  /\ server' = how
  /\ connection' = [k \in Connection |->
       IF connection[k].state = "none" THEN NotMade
       ELSE [connection[k] EXCEPT !.state = "gone", !.in = <<>>]]

(* Mutant: the new reader is not registered. *)
Accept_NotRegistered(k) ==
  /\ server = "up" /\ connection[k].state = "pending"
  /\ connection' = [connection EXCEPT ![k].state = "gone"]
  /\ UNCHANGED <<version, server, run, client_counter, client, received>>

Accept(k) ==
  /\ server = "up" /\ connection[k].state = "pending"
  /\ connection' = [connection EXCEPT ![k].state = "read"]
  /\ UNCHANGED <<version, server, run, client_counter, client, received>>

Ready(k) == server = "up" /\ connection[k].state = "read" /\ connection[k].in # <<>>

(* Mutant: the id is not counted on. *)
Answer_NotCounted(k) ==
  /\ Ready(k) /\ connection[k].in[1] = Hello
  /\ connection' = [connection EXCEPT
       ![k].in = Tail(@), ![k].out = IF connection[k].closed THEN <<>> ELSE <<client_counter>>]
  /\ UNCHANGED <<version, server, run, client_counter, client, received>>

(* The two bytes of a request, alone: answered with the next id, which      *)
(* nobody reads if the client has closed.                                   *)
Answer(k) ==
  /\ Ready(k) /\ connection[k].in[1] = Hello
  /\ connection' = [connection EXCEPT
       ![k].in = Tail(@), ![k].out = IF connection[k].closed THEN <<>> ELSE <<client_counter>>]
  /\ client_counter' = client_counter + 1
  /\ UNCHANGED <<version, server, run, client, received>>

Show(k, id, bytes, sound) ==
  \E text \in Shown(bytes) :
    received' = received \union
      {[run |-> run, connection |-> k, id |-> id, text |-> text, sound |-> sound]}

Read(k) ==
  /\ Ready(k) /\ connection[k].in[1].kind = "message"
  /\ LET m == connection[k].in[1]
     IN  Show(k, m.id, m.text, m.sound)
  /\ connection' = [connection EXCEPT ![k].in = Tail(@)]
  /\ UNCHANGED <<version, server, run, client_counter, client>>

(* A request and the message behind it in one recv are one message, which   *)
(* no id is sent for.                                                       *)
ReadTogether(k) ==
  /\ Ready(k) /\ connection[k].in[1] = Hello
  /\ Len(connection[k].in) > 1 /\ connection[k].in[2].kind = "message"
  /\ Show(k, connection[k].in[2].id, <<48, 0>> \o connection[k].in[2].text, FALSE)
  /\ connection' = [connection EXCEPT ![k].in = Tail(Tail(@))]
  /\ UNCHANGED <<version, server, run, client_counter, client>>

(* recv of 0: the reader deregisters and, when its handle_close is called   *)
(* with READ_MASK, deletes itself.                                          *)
handle_close(k) ==
  /\ Ready(k) /\ connection[k].in[1] = Eof
  /\ connection' = [connection EXCEPT ![k].state = "gone", ![k].in = <<>>]
  /\ UNCHANGED <<version, server, run, client_counter, client, received>>

(* recv of -1, as a size_t: with a chain the loop over the "bytes" leaves   *)
(* the buffer and the process; without one a buffer nobody filled is        *)
(* printed and the next recv returns 0.                                     *)
ReadReset(k) ==
  /\ Ready(k) /\ connection[k].in[1] = Reset
  /\ IF ServerChain[version] # <<>> THEN Down("crashed")
     ELSE /\ connection' = [connection EXCEPT ![k].in = <<Eof>>]
          /\ UNCHANGED server
  /\ UNCHANGED <<version, run, client_counter, client, received>>

handle_input(k) == Answer(k) \/ Read(k) \/ ReadTogether(k) \/ handle_close(k) \/ ReadReset(k)

handle_signal ==
  /\ server = "up" /\ Down("stopped")
  /\ UNCHANGED <<version, run, client_counter, client, received>>

(* main once more: the counter is a static of the new process. *)
Start ==
  /\ server # "up" /\ run < MaxRuns
  /\ server' = "up" /\ run' = run + 1 /\ client_counter' = 0
  /\ UNCHANGED <<version, connection, client, received>>

-----------------------------------------------------------------------------
ClientStep(c) == handle_timeout(c) \/ Interrupt(c)
Reactor       == \E k \in Connection : Accept(k) \/ handle_input(k)
ServerStep    == Reactor \/ handle_signal \/ Start

Next == (\E c \in Client : ClientStep(c)) \/ ServerStep

(* The server handles something as long as something is ready, and a client *)
(* gets on once its recv returns.  Nobody has to press Ctrl-C, or to start  *)
(* anything.                                                                *)
Fairness ==
  /\ WF_sessionVars(Reactor)
  /\ \A c \in Client : WF_sessionVars(ReceiveId(c) \/ ReceiveNothing(c))

Spec == Init /\ [][Next]_sessionVars /\ Fairness

-----------------------------------------------------------------------------
TypeOK ==
  /\ version \in Versions /\ server \in {"up", "stopped", "crashed"}
  /\ run \in 1 .. MaxRuns /\ client_counter \in Nat
  /\ \A k \in Connection : connection[k].state \in {"none", "pending", "read", "gone"}
  /\ \A c \in Client : client[c].state \in {"idle", "waiting", "ended", "interrupted"}

(* Two messages that a run of the server prints never carry the same id,    *)
(* however the sessions of the clients overlap and whatever the order in    *)
(* which the reactor turns to them; only a client that was interrupted, or  *)
(* reset, while it waited for its id may say anything.                      *)
IdsAreUnique ==
  \A m, n \in received :
    m.sound /\ n.sound /\ m.run = n.run /\ m.id = n.id => m = n

(* Doubling loses the top bit: what was doubled comes back if the two top   *)
(* bits were equal.                                                         *)
Survives(b) == version = "q7" => LET c == (b + 3) % 256 IN c < 64 \/ c >= 192

(* The server's chain undoes the client's, byte by byte, in every exercise  *)
(* but the last, where exactly the bytes come back that doubling leaves     *)
(* whole.  There a byte of 128 comes out as the 0 that ends the string, and *)
(* the rest of the text is not printed; without a chain something may be    *)
(* printed behind the text, but never a byte of it less.                    *)
Ends(b) == version = "q7" /\ b = 128

Delivered ==
  \A m \in received : m.sound =>
    LET text == Text[m.connection[1]]
    IN  /\ \A i \in DOMAIN text :
             i \in DOMAIN m.text <=> \A j \in 1 .. i : ~Ends(text[j])
        /\ \A i \in DOMAIN text \intersect DOMAIN m.text :
             m.text[i] = text[i] <=> Survives(text[i])
        /\ version # "plain" => DOMAIN m.text \subseteq DOMAIN text

(* In the end every client that connected has got its id and its message is *)
(* read, whatever else the server had to do, unless the server is stopped   *)
(* or somebody interrupts a client that waits.                              *)
Printed(k) == \E m \in received : m.connection = k /\ m.sound

Served ==
  <>[](\/ \A k \in Connection : connection[k].state # "none" => Printed(k)
       \/ server = "stopped" \/ run > 1
       \/ \E c \in Client : client[c].state = "interrupted")
=============================================================================
