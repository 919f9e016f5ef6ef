--------------------------- MODULE Session_proofs ---------------------------
(***************************************************************************)
(* What holds of Session for any clients, texts, sessions and restarts: no *)
(* two messages that one run of the server prints carry the same id, and   *)
(* what is printed is what was sent, but for what exercise 7 destroys.     *)
(***************************************************************************)
EXTENDS Session, SequenceTheorems, TLAPS

IsMessage(m) == m.kind = "message" /\ m.sound \in BOOLEAN

(* How a stream ends. *)
Ending == {Eof, Reset}

-----------------------------------------------------------------------------
(* The states of a connection.  What it carries is at most one letter, and  *)
(* a request only in front of it.                                           *)

(* The client has sent its request and waits. *)
Asking(r) ==
  /\ r.state \in {"pending", "read"} /\ r.closed = FALSE
  /\ r.in = <<Hello>> /\ r.out = <<>>

(* The client was interrupted before it was answered. *)
LeftUnanswered(r) ==
  /\ r.state \in {"pending", "read"} /\ r.closed = TRUE
  /\ \E m : IsMessage(m) /\ m.sound = FALSE /\ r.in = <<Hello, m, Eof>>
  /\ r.out = <<>>

(* The answer is on its way. *)
Answered(r) ==
  /\ r.state = "read" /\ r.closed = FALSE
  /\ r.in = <<>> /\ \E id \in Nat : r.out = <<id>>

(* The message is on its way. *)
Sent(r) ==
  /\ r.state = "read" /\ r.closed = TRUE
  /\ \E m : \E end \in Ending : IsMessage(m) /\ r.in = <<m, end>>
  /\ r.out = <<>>

(* Only the end of the stream is left. *)
Finishing(r) ==
  /\ r.state = "read" /\ r.closed = TRUE
  /\ \E end \in Ending : r.in = <<end>>
  /\ r.out = <<>>

(* The server has let go of the connection, perhaps with an answer on its   *)
(* way that the client will read without anybody there to read its message. *)
Gone(r) ==
  /\ r.state = "gone" /\ r.closed \in BOOLEAN /\ r.in = <<>>
  /\ r.out = <<>> \/ (r.closed = FALSE /\ \E id \in Nat : r.out = <<id>>)

KnownState(r) ==
  \/ r = NotMade \/ Asking(r) \/ LeftUnanswered(r) \/ Answered(r) \/ Sent(r)
  \/ Finishing(r) \/ Gone(r)

IsRecord(r) ==
  r = [state |-> r.state, closed |-> r.closed, in |-> r.in, out |-> r.out]

(* A connection bears an id while the answer or the client's message is on  *)
(* its way and the server that gave it is there.                            *)
Bears(r, id) ==
  /\ r.state = "read"
  /\ \/ r.out # <<>> /\ r.out[1] = id
     \/ r.in # <<>> /\ r.in[1].kind = "message" /\ r.in[1].sound /\ r.in[1].id = id

(* What the chains of exercise v make of a text. *)
EncodedIn(v, text) == [i \in DOMAIN text |-> Encoding[v][text[i]]]
DecodedIn(v, text) == [i \in DOMAIN text |-> Decoding[v][text[i]]]

(* What a server of exercise v may print for the bytes of one recv.         *)
ShownIn(v, bytes) ==
  IF ServerChain[v] # <<>> THEN {CString(DecodedIn(v, bytes))}
  ELSE {CString(bytes \o rest) : rest \in Stale}

(* A sound message at the front of a stream is the text of that client.     *)
Faithful(k, r) ==
  r.in # <<>> /\ r.in[1].kind = "message" /\ r.in[1].sound =>
    r.in[1].text = EncodedIn(version, Text[k[1]])

-----------------------------------------------------------------------------
Connections ==
  /\ connection = [k \in Connection |-> connection[k]]
  /\ \A k \in Connection :
       IsRecord(connection[k]) /\ KnownState(connection[k]) /\ Faithful(k, connection[k])
  /\ server # "up" => \A k \in Connection : connection[k].state \in {"none", "gone"}

(* A client that waits has its present session open, and has made no later  *)
(* one.                                                                     *)
Clients ==
  /\ client \in [Client -> [state : {"idle", "waiting", "ended", "interrupted"},
                            sessions : Nat]]
  /\ \A c \in Client :
       /\ client[c].sessions <= MaxSessions[c]
       /\ client[c].state = "waiting" =>
            /\ client[c].sessions > 0
            /\ connection[Current(c)].state # "none"
            /\ connection[Current(c)].closed = FALSE
       /\ \A i \in 1 .. MaxSessions[c] :
            i > client[c].sessions => connection[<<c, i>>] = NotMade

(* The id that a connection bears was given in this run of the server, to   *)
(* nobody else, and no message with it has been printed.                    *)
Ids ==
  /\ client_counter \in Nat
  /\ \A k \in Connection : \A id :
       Bears(connection[k], id) => id \in Nat /\ id < client_counter
  /\ \A k, l \in Connection : \A id :
       Bears(connection[k], id) /\ Bears(connection[l], id) => k = l
  /\ \A m \in received : m.sound /\ m.run = run =>
       /\ m.id \in Nat /\ m.id < client_counter
       /\ \A k \in Connection : ~Bears(connection[k], m.id)

Runs ==
  /\ run \in 1 .. MaxRuns
  /\ \A m \in received :
       /\ m.run \in 1 .. run /\ m.connection \in Connection
       /\ m.sound => m.text \in ShownIn(version, EncodedIn(version, Text[m.connection[1]]))

Control == version \in Versions /\ server \in {"up", "stopped", "crashed"}

Inv ==
  /\ SessionAssumption
  /\ Control /\ Runs /\ Connections /\ Clients /\ Ids /\ IdsAreUnique

-----------------------------------------------------------------------------
(* One connection turns into r, the others stay. *)
Turns(k, r) ==
  connection' = [l \in Connection |-> IF l = k THEN r ELSE connection[l]]

LEMMA ConnectionsTurn ==
  ASSUME Connections, NEW k \in Connection, NEW r, Turns(k, r),
         IsRecord(r), KnownState(r), Faithful(k, r), server = "up",
         UNCHANGED <<version, server>>
  PROVE  Connections'
<1>1. \A l \in Connection : connection'[l] = IF l = k THEN r ELSE connection[l]
  BY DEF Turns
<1>2. connection' = [l \in Connection |-> connection'[l]]
  BY <1>1 DEF Turns
<1>3. \A l \in Connection :
        IsRecord(connection'[l]) /\ KnownState(connection'[l]) /\ Faithful(l, connection'[l])
  BY <1>1 DEF Connections
<1> QED
  BY <1>2, <1>3 DEF Connections, Faithful

(* Nobody bears a new id, and nothing is printed. *)
LEMMA IdsTurn ==
  ASSUME Ids, NEW k \in Connection, NEW r, Turns(k, r),
         \A id : Bears(r, id) => Bears(connection[k], id),
         UNCHANGED <<run, client_counter, received>>
  PROVE  Ids'
<1>1. \A l \in Connection : \A id : Bears(connection'[l], id) => Bears(connection[l], id)
  BY DEF Turns
<1> QED
  BY <1>1 DEF Ids

LEMMA NothingPrinted ==
  ASSUME Runs, IdsAreUnique, UNCHANGED <<version, run, received>>
  PROVE  Runs' /\ IdsAreUnique'
BY DEF Runs, IdsAreUnique

(* The server turns a connection: the clients see the same sessions. *)
LEMMA ClientsTurn ==
  ASSUME Clients, SessionAssumption, NEW k \in Connection, NEW r, Turns(k, r),
         connection[k].state # "none", r.state # "none",
         r.closed = connection[k].closed, UNCHANGED client
  PROVE  Clients'
<1>1. \A l \in Connection : connection'[l] = IF l = k THEN r ELSE connection[l]
  BY DEF Turns
<1>2. \A c \in Client : \A i \in 1 .. MaxSessions[c] : <<c, i>> \in Connection
  BY DEF Connection
<1>3. ASSUME NEW c \in Client, client[c].state = "waiting"
      PROVE  /\ client[c].sessions > 0
             /\ connection'[Current(c)].state # "none"
             /\ connection'[Current(c)].closed = FALSE
  <2>1. client[c].sessions \in 1 .. MaxSessions[c]
    BY <1>3 DEF Clients, SessionAssumption
  <2>2. Current(c) \in Connection
    BY <1>2, <2>1 DEF Current
  <2> QED
    BY <1>1, <1>3, <2>2 DEF Clients
<1>4. ASSUME NEW c \in Client, NEW i \in 1 .. MaxSessions[c], i > client[c].sessions
      PROVE  connection'[<<c, i>>] = NotMade
  <2>1. connection[<<c, i>>] = NotMade
    BY <1>4 DEF Clients
  <2>2. <<c, i>> # k
    BY <2>1 DEF NotMade
  <2> QED
    BY <1>1, <1>2, <2>1, <2>2
<1> QED
  BY <1>3, <1>4 DEF Clients, Current

-----------------------------------------------------------------------------
(* Writing a connection's stream to the server.                             *)
LEMMA WriteIn ==
  ASSUME NEW f, NEW S, f = [l \in S |-> f[l]], NEW k \in S,
         NEW a, NEW state, NEW closed, NEW in, NEW out,
         f[k] = [state |-> state, closed |-> closed, in |-> in, out |-> out]
  PROVE  [f EXCEPT ![k].in = a] =
           [l \in S |-> IF l = k
                         THEN [state |-> state, closed |-> closed, in |-> a, out |-> out]
                         ELSE f[l]]
OBVIOUS

LEMMA Streams ==
  /\ \A a : Tail(<<a>>) = <<>> /\ Len(<<a>>) = 1 /\ <<a>>[1] = a /\ <<a>> # <<>>
  /\ \A a, b : Tail(<<a, b>>) = <<b>> /\ <<a, b>>[1] = a /\ <<a, b>> # <<>>
  /\ \A a, b, c : Tail(<<a, b, c>>) = <<b, c>> /\ <<a, b, c>>[1] = a /\ <<a, b, c>>[2] = b
<1>1. \A a, b, c : Tail(<<a, b, c>>) = <<b, c>>
  OBVIOUS
<1>2. \A a, b, c : <<a, b, c>>[1] = a /\ <<a, b, c>>[2] = b
  OBVIOUS
<1>3. \A a, b : Tail(<<a, b>>) = <<b>>
  OBVIOUS
<1>4. \A a, b : <<a, b>>[1] = a /\ <<a, b>> # <<>>
  OBVIOUS
<1>5. \A a : Tail(<<a>>) = <<>> /\ Len(<<a>>) = 1 /\ <<a>>[1] = a /\ <<a>> # <<>>
  OBVIOUS
<1> QED
  BY <1>1, <1>2, <1>3, <1>4, <1>5

-----------------------------------------------------------------------------
(* What the server finds at the front of a stream.                          *)
LEMMA Kinds ==
  /\ Hello.kind = "hello" /\ Eof.kind = "eof" /\ Reset.kind = "reset"
  /\ \A id, text, sound :
       /\ Message(id, text, sound).kind = "message"
       /\ Message(id, text, sound).id = id
       /\ Message(id, text, sound).text = text
       /\ Message(id, text, sound).sound = sound
BY DEF Hello, Eof, Reset, Message

LEMMA Unanswered ==
  ASSUME NEW r, Asking(r) \/ LeftUnanswered(r)
  PROVE  r.out = <<>> /\ r.in # <<>> /\ r.in[1] = Hello
<1>1. CASE Asking(r)
  BY <1>1 DEF Asking
<1>2. CASE LeftUnanswered(r)
  <2>1. PICK m : r.in = <<Hello, m, Eof>>
    BY <1>2 DEF LeftUnanswered
  <2> QED
    BY <1>2, <2>1, Streams DEF LeftUnanswered
<1> QED
  BY <1>1, <1>2

LEMMA AtTheFront ==
  ASSUME NEW r, KnownState(r), r.state = "read", r.in # <<>>
  PROVE  /\ r.in[1] = Hello => Asking(r) \/ LeftUnanswered(r)
         /\ r.in[1].kind = "message" => Sent(r)
         /\ r.in[1] \in Ending => Finishing(r)
<1>1. r # NotMade /\ ~Answered(r) /\ ~Gone(r)
  BY DEF NotMade, Answered, Gone
<1>2. ASSUME Asking(r) \/ LeftUnanswered(r) PROVE r.in[1] = Hello
  BY <1>2, Unanswered
<1>3. ASSUME Sent(r) PROVE r.in[1].kind = "message"
  BY <1>3, Streams DEF Sent, IsMessage
<1>4. ASSUME Finishing(r) PROVE r.in[1] \in Ending
  BY <1>4 DEF Finishing
<1>5. \A m : (m = Hello => m.kind = "hello") /\ (m \in Ending => m.kind \in {"eof", "reset"})
  BY Kinds DEF Ending
<1> QED
  BY <1>1, <1>2, <1>3, <1>4, <1>5 DEF KnownState

(* Nothing is borne by a connection whose stream begins with a request or   *)
(* its end.                                                                 *)
LEMMA BearsNothing ==
  ASSUME NEW r, r.out = <<>>,
         r.in = <<>> \/ r.in[1] = Hello \/ r.in[1] \in Ending
  PROVE  \A id : ~Bears(r, id)
BY Kinds DEF Bears, Ending

LEMMA EndIsFaithful ==
  ASSUME NEW k, NEW r, r.in = <<>> \/ r.in[1] = Hello \/ r.in[1] \in Ending
  PROVE  Faithful(k, r)
BY Kinds DEF Faithful, Ending

LEMMA Quiet ==
  ASSUME NEW r, KnownState(r), ~Answered(r), ~Sent(r)
  PROVE  \A id : ~Bears(r, id)
<1>1. CASE r = NotMade
  BY <1>1 DEF Bears, NotMade
<1>2. CASE Asking(r) \/ LeftUnanswered(r)
  <2>1. r.out = <<>> /\ r.in[1] = Hello
    BY <1>2, Unanswered
  <2> QED
    BY <2>1, BearsNothing
<1>3. CASE Finishing(r)
  <2>1. r.out = <<>> /\ r.in[1] \in Ending
    BY <1>3 DEF Finishing
  <2> QED
    BY <2>1, BearsNothing
<1>4. CASE Gone(r)
  BY <1>4 DEF Bears, Gone
<1> QED
  BY <1>1, <1>2, <1>3, <1>4 DEF KnownState

-----------------------------------------------------------------------------
(* The server.                                                              *)
LEMMA AcceptStep ==
  ASSUME Inv, NEW k \in Connection, Accept(k)
  PROVE  Inv'
<1> DEFINE old == connection[k]
           r == [state |-> "read", closed |-> old.closed, in |-> old.in, out |-> old.out]
<1>1. IsRecord(old) /\ KnownState(old) /\ old.state = "pending"
  BY DEF Inv, Connections, Accept
<1>2. Turns(k, r)
  BY <1>1 DEF Inv, Connections, Accept, Turns, IsRecord
<1>3. Asking(old) \/ LeftUnanswered(old)
  BY <1>1 DEF KnownState, NotMade, Answered, Sent, Finishing, Gone
<1>4. Asking(r) \/ LeftUnanswered(r)
  BY <1>3 DEF Asking, LeftUnanswered
<1>5. KnownState(r) /\ IsRecord(r)
  BY <1>4 DEF KnownState, IsRecord
<1>5a. Faithful(k, r)
  BY DEF Faithful, Inv, Connections
<1>6. \A id : ~Bears(r, id)
  <2>1. r.out = <<>> /\ r.in[1] = Hello
    BY <1>4, Unanswered
  <2> QED
    BY <2>1, BearsNothing
<1>7. r.state # "none" /\ r.closed = old.closed
  OBVIOUS
<1> HIDE DEF r
<1>8. UNCHANGED <<version, server, run, client_counter, client, received>> /\ server = "up"
  BY DEF Accept
<1>9. Connections'
  BY <1>2, <1>5, <1>5a, <1>8, ConnectionsTurn DEF Inv
<1>10. Clients'
  BY <1>1, <1>2, <1>7, <1>8, ClientsTurn DEF Inv
<1>11. Ids'
  BY <1>2, <1>6, <1>8, IdsTurn DEF Inv
<1> QED
  BY <1>8, <1>9, <1>10, <1>11, NothingPrinted DEF Inv, Control, SessionAssumption

LEMMA AnswerStep ==
  ASSUME Inv, NEW k \in Connection, Answer(k)
  PROVE  Inv'
<1> DEFINE old == connection[k]
           r == [state |-> "read", closed |-> old.closed, in |-> Tail(old.in),
                 out |-> IF old.closed THEN <<>> ELSE <<client_counter>>]
<1>1. /\ IsRecord(old) /\ KnownState(old) /\ old.state = "read"
      /\ old.in # <<>> /\ old.in[1] = Hello
  BY DEF Inv, Connections, Answer, Ready
<1>2. Turns(k, r)
  <2>1. connection' = [connection EXCEPT ![k].in = Tail(old.in), ![k].out = r.out]
    BY <1>1 DEF Answer
  <2>2. old = [state |-> "read", closed |-> old.closed, in |-> old.in, out |-> old.out]
    BY <1>1 DEF IsRecord
  <2>3. connection = [l \in Connection |-> connection[l]]
    BY DEF Inv, Connections
  <2> DEFINE rest == Tail(old.in)
             out == IF old.closed THEN <<>> ELSE <<client_counter>>
  <2>4. /\ connection' = [connection EXCEPT ![k].in = rest, ![k].out = out]
        /\ r = [state |-> "read", closed |-> old.closed, in |-> rest, out |-> out]
    BY <2>1
  <2> HIDE DEF rest, out, r
  <2> DEFINE h == [connection EXCEPT ![k].in = rest]
  <2>5. h = [l \in Connection |->
               IF l = k THEN [state |-> "read", closed |-> old.closed, in |-> rest,
                              out |-> old.out]
               ELSE connection[l]]
    BY <2>2, <2>3, WriteIn
  <2>6. connection' = [h EXCEPT ![k].out = out]
    BY <2>4
  <2> HIDE DEF h
  <2> QED
    BY <2>4, <2>5, <2>6 DEF Turns
<1>3. /\ UNCHANGED <<version, server, run, client, received>> /\ server = "up"
      /\ client_counter \in Nat /\ client_counter' = client_counter + 1
  BY DEF Answer, Ready, Inv, Ids
<1>4. IsRecord(r)
  BY DEF IsRecord
<1>5. Asking(old) \/ LeftUnanswered(old)
  BY <1>1, AtTheFront
<1>6. /\ KnownState(r) /\ Faithful(k, r)
      /\ \A id : Bears(r, id) => id = client_counter
  <2>1. CASE Asking(old)
    <3>1. old.closed = FALSE /\ Tail(old.in) = <<>>
      BY <2>1 DEF Asking
    <3>2. r = [state |-> "read", closed |-> FALSE, in |-> <<>>, out |-> <<client_counter>>]
      BY <3>1
    <3> HIDE DEF r
    <3>3. r.out[1] = client_counter /\ r.in = <<>> /\ Answered(r)
      BY <1>3, <3>2 DEF Answered
    <3> QED
      BY <3>3 DEF KnownState, Bears, Faithful
  <2>2. CASE LeftUnanswered(old)
    <3>1. PICK m : IsMessage(m) /\ m.sound = FALSE /\ old.in = <<Hello, m, Eof>>
      BY <2>2 DEF LeftUnanswered
    <3>2. old.closed = TRUE /\ Tail(old.in) = <<m, Eof>>
      <4>1. old.closed = TRUE
        BY <2>2 DEF LeftUnanswered
      <4> QED
        BY <3>1, <4>1, Streams
    <3>3. r = [state |-> "read", closed |-> TRUE, in |-> <<m, Eof>>, out |-> <<>>]
      BY <3>2
    <3> HIDE DEF r
    <3>4. r.in[1].sound = FALSE /\ r.out = <<>> /\ Sent(r)
      BY <3>1, <3>3, Streams DEF Sent, Ending
    <3> QED
      BY <3>4 DEF KnownState, Bears, Faithful
  <2> QED
    BY <1>5, <2>1, <2>2
<1>7. \A id : ~Bears(old, id)
  BY <1>5, Unanswered, BearsNothing
<1>8. r.state # "none" /\ r.closed = old.closed
  OBVIOUS
<1> HIDE DEF r
<1>9. Connections' /\ Clients'
  BY <1>1, <1>2, <1>3, <1>4, <1>6, <1>8, ConnectionsTurn, ClientsTurn DEF Inv
<1>10. Ids'
  <2>1. \A l \in Connection : connection'[l] = IF l = k THEN r ELSE connection[l]
    BY <1>2 DEF Turns
  <2>2. \A l \in Connection : \A id :
          Bears(connection'[l], id) =>
            \/ l = k /\ id = client_counter
            \/ l # k /\ Bears(connection[l], id) /\ id \in Nat /\ id < client_counter
    BY <1>6, <2>1 DEF Inv, Ids
  <2>3. \A l \in Connection : \A id :
          Bears(connection'[l], id) => id \in Nat /\ id < client_counter'
    BY <1>3, <2>2
  <2>4. \A l, n \in Connection : \A id :
          Bears(connection'[l], id) /\ Bears(connection'[n], id) => l = n
    BY <1>3, <2>2 DEF Inv, Ids
  <2>5. \A m \in received : m.sound /\ m.run = run =>
          /\ m.id \in Nat /\ m.id < client_counter'
          /\ \A l \in Connection : ~Bears(connection'[l], m.id)
    BY <1>3, <2>2 DEF Inv, Ids
  <2> QED
    BY <1>3, <2>3, <2>4, <2>5 DEF Ids
<1> QED
  BY <1>3, <1>9, <1>10, NothingPrinted DEF Inv, Control, SessionAssumption

(* What is printed came from a connection that bore its id and bears it no  *)
(* longer, or is unsound.                                                   *)
LEMMA ShowIds ==
  ASSUME Inv, NEW k \in Connection, NEW r, Turns(k, r),
         NEW id, NEW bytes, NEW sound, Show(k, id, bytes, sound),
         \A i : ~Bears(r, i), sound => Bears(connection[k], id),
         sound => bytes = EncodedIn(version, Text[k[1]]),
         UNCHANGED <<version, run, client_counter>>
  PROVE  Runs' /\ Ids' /\ IdsAreUnique'
<1>0. PICK text \in Shown(bytes) :
        received' = received \union
          {[run |-> run, connection |-> k, id |-> id, text |-> text, sound |-> sound]}
  BY DEF Show
<1>0a. text \in ShownIn(version, bytes)
  BY DEF Shown, ShownIn, Decoded, DecodedIn
<1> DEFINE new == [run |-> run, connection |-> k, id |-> id, text |-> text, sound |-> sound]
<1>1. /\ received' = received \union {new} /\ new.run = run /\ new.id = id
      /\ new.sound = sound /\ new.connection = k /\ new.text = text
  BY <1>0
<1> HIDE DEF new
<1>2. \A l \in Connection : connection'[l] = IF l = k THEN r ELSE connection[l]
  BY DEF Turns
<1>3. \A l \in Connection : \A i : Bears(connection'[l], i) => l # k /\ Bears(connection[l], i)
  BY <1>2
<1>4. Runs'
  <2> DEFINE Fits(m) == m.sound => m.text \in ShownIn(version, EncodedIn(version, Text[m.connection[1]]))
  <2>1. \A m \in received : m.run \in 1 .. run /\ m.connection \in Connection /\ Fits(m)
    BY DEF Inv, Runs
  <2>2. new.run \in 1 .. run /\ new.connection \in Connection /\ Fits(new)
    BY <1>0a, <1>1 DEF Inv, Runs
  <2>3. \A m \in received' : m.run \in 1 .. run /\ m.connection \in Connection /\ Fits(m)
    BY <1>1, <2>1, <2>2
  <2>4. \A m : Fits(m)' <=> Fits(m)
    BY DEF ShownIn, DecodedIn, EncodedIn
  <2>5. run' \in 1 .. MaxRuns
    BY DEF Inv, Runs
  <2> HIDE DEF Fits
  <2>6. \A m \in received' : m.run \in 1 .. run' /\ m.connection \in Connection /\ Fits(m)'
    BY <2>3, <2>4
  <2> QED
    BY <2>5, <2>6 DEF Runs, Fits
<1>5. \A m \in received' : m.sound /\ m.run = run =>
        /\ m.id \in Nat /\ m.id < client_counter
        /\ \A l \in Connection : ~Bears(connection'[l], m.id)
  BY <1>1, <1>3 DEF Inv, Ids
<1>6. Ids'
  <2>1. /\ \A l \in Connection : \A i :
             Bears(connection'[l], i) => i \in Nat /\ i < client_counter
        /\ \A l, n \in Connection : \A i :
             Bears(connection'[l], i) /\ Bears(connection'[n], i) => l = n
    BY <1>3 DEF Inv, Ids
  <2> QED
    BY <1>5, <2>1 DEF Inv, Ids
<1>7. ASSUME sound, NEW m \in received, m.sound, m.run = run PROVE m.id # id
  BY <1>7 DEF Inv, Ids
<1>8. IdsAreUnique'
  BY <1>1, <1>7 DEF Inv, IdsAreUnique
<1> QED
  BY <1>4, <1>6, <1>8

LEMMA ReadStep ==
  ASSUME Inv, NEW k \in Connection, Read(k)
  PROVE  Inv'
<1> DEFINE old == connection[k]
           r == [state |-> "read", closed |-> old.closed, in |-> Tail(old.in), out |-> old.out]
<1>1. /\ IsRecord(old) /\ KnownState(old) /\ old.state = "read"
      /\ old.in # <<>> /\ old.in[1].kind = "message"
  BY DEF Inv, Connections, Read, Ready
<1>2. Turns(k, r)
  <2> DEFINE rest == Tail(old.in)
  <2>1. connection' = [connection EXCEPT ![k].in = rest]
    BY <1>1 DEF Read
  <2>2. old = [state |-> "read", closed |-> old.closed, in |-> old.in, out |-> old.out]
    BY <1>1 DEF IsRecord
  <2>3. connection = [l \in Connection |-> connection[l]]
    BY DEF Inv, Connections
  <2>4. r = [state |-> "read", closed |-> old.closed, in |-> rest, out |-> old.out]
    OBVIOUS
  <2> HIDE DEF rest, r
  <2> QED
    BY <2>1, <2>2, <2>3, <2>4, WriteIn DEF Turns
<1>3. UNCHANGED <<version, server, run, client_counter, client>> /\ server = "up"
  BY DEF Read, Ready
<1>4. IsRecord(r)
  BY DEF IsRecord
<1>5. Sent(old)
  BY <1>1, AtTheFront
<1>6. PICK m, end : end \in Ending /\ IsMessage(m) /\ old.in = <<m, end>>
  BY <1>5 DEF Sent
<1>7. old.in[1] = m /\ Tail(old.in) = <<end>>
  BY <1>6, Streams
<1>8. r = [state |-> "read", closed |-> TRUE, in |-> <<end>>, out |-> <<>>]
  <2>1. old.closed = TRUE /\ old.out = <<>>
    BY <1>5 DEF Sent
  <2> QED
    BY <1>7, <2>1
<1>9. Show(k, m.id, m.text, m.sound)
  BY <1>7 DEF Read
<1>10. m.sound => Bears(old, m.id)
  BY <1>1, <1>7 DEF Bears
<1>10a. m.sound => m.text = EncodedIn(version, Text[k[1]])
  BY <1>1, <1>7 DEF Inv, Connections, Faithful
<1>11. r.state # "none" /\ r.closed = old.closed
  OBVIOUS
<1> HIDE DEF r
<1>12. KnownState(r) /\ Faithful(k, r) /\ \A i : ~Bears(r, i)
  <2>1. r.out = <<>> /\ r.in[1] \in Ending /\ Finishing(r)
    BY <1>6, <1>8, Streams DEF Finishing
  <2> QED
    BY <2>1, BearsNothing, EndIsFaithful DEF KnownState
<1>13. Connections' /\ Clients'
  BY <1>1, <1>2, <1>3, <1>4, <1>11, <1>12, ConnectionsTurn, ClientsTurn DEF Inv
<1>14. Runs' /\ Ids' /\ IdsAreUnique'
  BY <1>2, <1>3, <1>9, <1>10, <1>10a, <1>12, ShowIds
<1> QED
  BY <1>3, <1>13, <1>14 DEF Inv, Control, SessionAssumption

LEMMA ReadTogetherStep ==
  ASSUME Inv, NEW k \in Connection, ReadTogether(k)
  PROVE  Inv'
<1> DEFINE old == connection[k]
           r == [state |-> "read", closed |-> old.closed, in |-> Tail(Tail(old.in)),
                 out |-> old.out]
<1>1. /\ IsRecord(old) /\ KnownState(old) /\ old.state = "read"
      /\ old.in # <<>> /\ old.in[1] = Hello /\ Len(old.in) > 1
  BY DEF Inv, Connections, ReadTogether, Ready
<1>2. Turns(k, r)
  <2> DEFINE rest == Tail(Tail(old.in))
  <2>1. connection' = [connection EXCEPT ![k].in = rest]
    BY <1>1 DEF ReadTogether
  <2>2. old = [state |-> "read", closed |-> old.closed, in |-> old.in, out |-> old.out]
    BY <1>1 DEF IsRecord
  <2>3. connection = [l \in Connection |-> connection[l]]
    BY DEF Inv, Connections
  <2>4. r = [state |-> "read", closed |-> old.closed, in |-> rest, out |-> old.out]
    OBVIOUS
  <2> HIDE DEF rest, r
  <2> QED
    BY <2>1, <2>2, <2>3, <2>4, WriteIn DEF Turns
<1>3. UNCHANGED <<version, server, run, client_counter, client>> /\ server = "up"
  BY DEF ReadTogether, Ready
<1>4. IsRecord(r)
  BY DEF IsRecord
<1>5. LeftUnanswered(old)
  <2>1. ASSUME Asking(old) PROVE FALSE
    <3>1. old.in = <<Hello>>
      BY <2>1 DEF Asking
    <3>2. Len(old.in) = 1
      BY <3>1, Streams
    <3> QED
      BY <1>1, <3>2
  <2> QED
    BY <1>1, <2>1, AtTheFront
<1>6. PICK m : old.in = <<Hello, m, Eof>>
  BY <1>5 DEF LeftUnanswered
<1>6a. old.in[2] = m /\ Tail(Tail(old.in)) = <<Eof>>
  BY <1>6, Streams
<1>7. r = [state |-> "read", closed |-> TRUE, in |-> <<Eof>>, out |-> <<>>]
  <2>1. old.closed = TRUE /\ old.out = <<>>
    BY <1>5 DEF LeftUnanswered
  <2> QED
    BY <1>6a, <2>1
<1>8. PICK bytes : Show(k, m.id, bytes, FALSE)
  BY <1>6a DEF ReadTogether
<1>9. r.state # "none" /\ r.closed = old.closed
  OBVIOUS
<1> HIDE DEF r
<1>10. KnownState(r) /\ Faithful(k, r) /\ \A i : ~Bears(r, i)
  <2>1. r.out = <<>> /\ r.in[1] \in Ending /\ Finishing(r)
    BY <1>7, Streams DEF Finishing, Ending
  <2> QED
    BY <2>1, BearsNothing, EndIsFaithful DEF KnownState
<1>11. Connections' /\ Clients'
  BY <1>1, <1>2, <1>3, <1>4, <1>9, <1>10, ConnectionsTurn, ClientsTurn DEF Inv
<1>12. Runs' /\ Ids' /\ IdsAreUnique'
  BY <1>2, <1>3, <1>8, <1>10, ShowIds
<1> QED
  BY <1>3, <1>11, <1>12 DEF Inv, Control, SessionAssumption

LEMMA CloseStep ==
  ASSUME Inv, NEW k \in Connection, handle_close(k)
  PROVE  Inv'
<1> DEFINE old == connection[k]
           r == [state |-> "gone", closed |-> old.closed, in |-> <<>>, out |-> old.out]
<1>1. /\ IsRecord(old) /\ KnownState(old) /\ old.state = "read"
      /\ old.in # <<>> /\ old.in[1] \in Ending
  BY DEF Inv, Connections, handle_close, Ready, Ending
<1>2. Finishing(old)
  BY <1>1, AtTheFront
<1>3. /\ old = [state |-> "read", closed |-> old.closed, in |-> old.in, out |-> old.out]
      /\ old.closed = TRUE /\ old.out = <<>>
  BY <1>1, <1>2 DEF IsRecord, Finishing
<1>4. Turns(k, r)
  <2>1. connection' = [connection EXCEPT ![k].state = "gone", ![k].in = <<>>]
    BY DEF handle_close
  <2>2. connection = [l \in Connection |-> connection[l]]
    BY DEF Inv, Connections
  <2> DEFINE rest == <<>>
             h == [connection EXCEPT ![k].in = rest]
  <2> HIDE DEF rest
  <2>3. h = [l \in Connection |->
               IF l = k THEN [state |-> "read", closed |-> old.closed, in |-> rest,
                              out |-> old.out]
               ELSE connection[l]]
    BY <1>3, <2>2, WriteIn
  <2>4. connection' = [h EXCEPT ![k].state = "gone"]
    BY <1>3, <2>1, <2>2 DEF rest
  <2> HIDE DEF h
  <2>5. connection' = [l \in Connection |->
                        IF l = k THEN [state |-> "gone", closed |-> old.closed, in |-> rest,
                                       out |-> old.out]
                        ELSE connection[l]]
    BY <2>3, <2>4
  <2> QED
    BY <2>5 DEF Turns, rest
<1>5. UNCHANGED <<version, server, run, client_counter, client, received>> /\ server = "up"
  BY DEF handle_close, Ready
<1>6. IsRecord(r) /\ KnownState(r) /\ Faithful(k, r) /\ \A id : ~Bears(r, id)
  BY <1>3 DEF IsRecord, KnownState, Gone, Bears, Faithful
<1>7. r.state # "none" /\ r.closed = old.closed
  OBVIOUS
<1> HIDE DEF r
<1>8. Connections' /\ Clients' /\ Ids'
  BY <1>1, <1>4, <1>5, <1>6, <1>7, ConnectionsTurn, ClientsTurn, IdsTurn DEF Inv
<1> QED
  BY <1>5, <1>8, NothingPrinted DEF Inv, Control, SessionAssumption

(* A server that ends takes its connections along. *)
LEMMA DownStep ==
  ASSUME Inv, NEW how \in {"stopped", "crashed"}, Down(how),
         UNCHANGED <<version, run, client_counter, client, received>>
  PROVE  Inv'
<1>1. ASSUME NEW k \in Connection
      PROVE  /\ IsRecord(connection'[k]) /\ KnownState(connection'[k])
             /\ Faithful(k, connection'[k])
             /\ connection'[k].state \in {"none", "gone"}
             /\ connection[k] = NotMade => connection'[k] = NotMade
             /\ connection[k].state # "none" =>
                  /\ connection'[k].state # "none"
                  /\ connection'[k].closed = connection[k].closed
  <2> DEFINE old == connection[k]
  <2>1. IsRecord(old) /\ KnownState(old)
    BY DEF Inv, Connections
  <2>2. CASE old.state = "none"
    <3>1. connection'[k] = NotMade
      BY <2>2 DEF Down
    <3> QED
      BY <2>2, <3>1 DEF IsRecord, KnownState, NotMade, Faithful
  <2>3. CASE old.state # "none"
    <3>1. connection'[k] = [old EXCEPT !.state = "gone", !.in = <<>>]
      BY <2>3 DEF Down
    <3>2. connection'[k] = [state |-> "gone", closed |-> old.closed, in |-> <<>>, out |-> old.out]
      BY <2>1, <3>1 DEF IsRecord
    <3>3. old # NotMade
      BY <2>3 DEF NotMade
    <3>4. /\ old.closed \in BOOLEAN
          /\ old.out = <<>> \/ (old.closed = FALSE /\ \E id \in Nat : old.out = <<id>>)
      BY <2>1, <3>3 DEF KnownState, Asking, LeftUnanswered, Answered, Sent, Finishing, Gone
    <3>5. Gone(connection'[k])
      BY <3>2, <3>4 DEF Gone
    <3> QED
      BY <3>2, <3>3, <3>5 DEF IsRecord, KnownState, Faithful
  <2> QED
    BY <2>2, <2>3
<1>2. connection' = [k \in Connection |-> connection'[k]]
  BY DEF Down
<1>3. server' = how /\ server' # "up"
  BY DEF Down
<1>4. Connections'
  BY <1>1, <1>2 DEF Connections, Faithful
<1>5. \A k \in Connection : \A id : ~Bears(connection'[k], id)
  BY <1>1 DEF Bears
<1>6. Ids'
  BY <1>5 DEF Inv, Ids
<1>7. Clients'
  <2>1. \A c \in Client : \A i \in 1 .. MaxSessions[c] : <<c, i>> \in Connection
    BY DEF Connection
  <2>2. ASSUME NEW c \in Client, client[c].state = "waiting"
        PROVE  /\ connection'[Current(c)].state # "none"
               /\ connection'[Current(c)].closed = FALSE
    <3>1. client[c].sessions \in 1 .. MaxSessions[c]
      BY <2>2 DEF Inv, Clients, SessionAssumption
    <3>2. Current(c) \in Connection
      BY <2>1, <3>1 DEF Current
    <3> QED
      BY <1>1, <2>2, <3>2 DEF Inv, Clients
  <2> QED
    BY <1>1, <2>1, <2>2 DEF Inv, Clients, Current
<1> QED
  BY <1>3, <1>4, <1>6, <1>7, NothingPrinted DEF Inv, Control, SessionAssumption

LEMMA ReadResetStep ==
  ASSUME Inv, NEW k \in Connection, ReadReset(k)
  PROVE  Inv'
<1> DEFINE old == connection[k]
           r == [state |-> "read", closed |-> old.closed, in |-> <<Eof>>, out |-> old.out]
<1>1. CASE Down("crashed")
  BY <1>1, DownStep DEF ReadReset
<1>2. CASE ~Down("crashed")
  <2>1. /\ connection' = [connection EXCEPT ![k].in = <<Eof>>]
        /\ UNCHANGED <<version, server, run, client_counter, client, received>>
        /\ server = "up"
    BY <1>2 DEF ReadReset, Ready
  <2>2. /\ IsRecord(old) /\ KnownState(old) /\ old.state = "read"
        /\ old.in # <<>> /\ old.in[1] \in Ending
    BY DEF Inv, Connections, ReadReset, Ready, Ending
  <2>3. Finishing(old)
    BY <2>2, AtTheFront
  <2>4. /\ old = [state |-> "read", closed |-> old.closed, in |-> old.in, out |-> old.out]
        /\ old.closed = TRUE /\ old.out = <<>>
    BY <2>2, <2>3 DEF IsRecord, Finishing
  <2>5. connection = [l \in Connection |-> connection[l]]
    BY DEF Inv, Connections
  <2>6. Turns(k, r)
    <3> DEFINE rest == <<Eof>>
    <3>1. /\ connection' = [connection EXCEPT ![k].in = rest]
          /\ r = [state |-> "read", closed |-> old.closed, in |-> rest, out |-> old.out]
      BY <2>1
    <3> HIDE DEF rest, r
    <3> QED
      BY <2>4, <2>5, <3>1, WriteIn DEF Turns
  <2>7. IsRecord(r) /\ KnownState(r) /\ Faithful(k, r) /\ \A id : ~Bears(r, id)
    <3>1. Finishing(r) /\ IsRecord(r) /\ r.out = <<>> /\ r.in[1] \in Ending
      BY <2>4, Streams DEF IsRecord, Finishing, Ending
    <3> QED
      BY <3>1, BearsNothing, EndIsFaithful DEF KnownState
  <2>8. r.state # "none" /\ r.closed = old.closed /\ old.state # "none"
    BY <2>2, <2>3 DEF Finishing
  <2> HIDE DEF r
  <2>9. Connections' /\ Clients' /\ Ids'
    BY <2>1, <2>6, <2>7, <2>8, ConnectionsTurn, ClientsTurn, IdsTurn DEF Inv
  <2> QED
    BY <2>1, <2>9, NothingPrinted DEF Inv, Control, SessionAssumption
<1> QED
  BY <1>1, <1>2

LEMMA SignalStep == ASSUME Inv, handle_signal PROVE Inv'
BY DownStep DEF handle_signal

(* A new run starts its counter again, and no connection bears an id. *)
LEMMA StartStep == ASSUME Inv, Start PROVE Inv'
<1>1. /\ server # "up" /\ server' = "up" /\ run' = run + 1 /\ run < MaxRuns
      /\ client_counter' = 0 /\ UNCHANGED <<version, connection, client, received>>
  BY DEF Start
<1>2. \A k \in Connection : \A id : ~Bears(connection[k], id)
  BY <1>1 DEF Inv, Connections, Bears
<1>3. \A m \in received : m.run # run'
  BY <1>1 DEF Inv, Runs
<1>4. Ids'
  BY <1>1, <1>2, <1>3 DEF Ids
<1>5. Runs'
  BY <1>1 DEF Inv, Runs, SessionAssumption
<1>6. Connections'
  BY <1>1 DEF Inv, Connections, Faithful
<1> QED
  BY <1>1, <1>4, <1>5, <1>6
     DEF Inv, Control, Clients, Current, IdsAreUnique, SessionAssumption

-----------------------------------------------------------------------------
(* The clients.                                                             *)
LEMMA Appended ==
  /\ \A m, end : <<>> \o <<m, end>> = <<m, end>>
  /\ \A a, m, end : <<a>> \o <<m, end>> = <<a, m, end>>
<1>1. \A m, end : <<>> \o <<m, end>> = <<m, end>>
  OBVIOUS
<1>2. ASSUME NEW a, NEW m, NEW end PROVE <<a>> \o <<m, end>> = <<a, m, end>>
  <2> DEFINE s == <<a>>
             t == <<m, end>>
             u == <<a, m, end>>
             S == {a, m, end}
  <2>1. s \in Seq(S) /\ Len(s) = 1 /\ s[1] = a
    OBVIOUS
  <2>2. t \in Seq(S) /\ Len(t) = 2 /\ t[1] = m /\ t[2] = end
    OBVIOUS
  <2>3. u \in Seq(S) /\ Len(u) = 3 /\ u[1] = a /\ u[2] = m /\ u[3] = end
    OBVIOUS
  <2> HIDE DEF s, t, u, S
  <2>4. /\ s \o t \in Seq(S) /\ Len(s \o t) = 3
        /\ \A i \in 1 .. 3 : (s \o t)[i] = IF i <= 1 THEN s[i] ELSE t[i - 1]
    BY <2>1, <2>2, ConcatProperties
  <2>5. \A i \in 1 .. 3 : (s \o t)[i] = u[i]
    <3>1. (s \o t)[1] = u[1] /\ (s \o t)[2] = u[2] /\ (s \o t)[3] = u[3]
      BY <2>1, <2>2, <2>3, <2>4
    <3>2. \A i \in 1 .. 3 : i = 1 \/ i = 2 \/ i = 3
      OBVIOUS
    <3> QED
      BY <3>1, <3>2
  <2>6. s \o t = u
    BY <2>3, <2>4, <2>5, SeqEqual
  <2> QED
    BY <2>6 DEF s, t, u
<1> QED
  BY <1>1, <1>2

LEMMA Pairs ==
  /\ \A k \in Connection : \E c \in Client : \E i \in 1 .. MaxSessions[c] : k = <<c, i>>
  /\ \A c \in Client : \A i \in 1 .. MaxSessions[c] : <<c, i>> \in Connection
<1>1. ASSUME NEW k \in Connection
      PROVE  \E c \in Client : \E i \in 1 .. MaxSessions[c] : k = <<c, i>>
  <2>1. PICK c \in Client : k \in {c} \X (1 .. MaxSessions[c])
    BY DEF Connection
  <2> QED
    BY <2>1
<1>2. ASSUME NEW c \in Client, NEW i \in 1 .. MaxSessions[c] PROVE <<c, i>> \in Connection
  <2>1. <<c, i>> \in {c} \X (1 .. MaxSessions[c])
    OBVIOUS
  <2> QED
    BY <2>1 DEF Connection
<1> QED
  BY <1>1, <1>2

(* A client's step touches nobody else's sessions. *)
LEMMA ClientsMove ==
  ASSUME Inv, NEW c \in Client, NEW k \in Connection, NEW r, Turns(k, r), k[1] = c,
         k[2] = client'[c].sessions, r.state # "none",
         NEW s \in {"idle", "waiting", "ended", "interrupted"},
         NEW n \in {client[c].sessions, client[c].sessions + 1},
         client' = [client EXCEPT ![c] = [state |-> s, sessions |-> n]],
         s = "waiting" => r.closed = FALSE /\ n > 0
  PROVE  Clients'
<1>1. \A l \in Connection : connection'[l] = IF l = k THEN r ELSE connection[l]
  BY DEF Turns
<1>2. \A d \in Client : \A i \in 1 .. MaxSessions[d] :
        <<d, i>> \in Connection /\ (<<d, i>> = k => d = c /\ i = n)
  <2>1. client'[c].sessions = n
    BY DEF Inv, Clients
  <2>2. ASSUME NEW d \in Client, NEW i \in 1 .. MaxSessions[d], <<d, i>> = k
        PROVE  d = c /\ i = n
    <3>1. <<d, i>>[1] = d /\ <<d, i>>[2] = i
      OBVIOUS
    <3> QED
      BY <2>1, <2>2, <3>1
  <2> QED
    BY <2>2, Pairs
<1>3. k = <<c, n>> /\ n \in 1 .. MaxSessions[c]
  <2>1. client'[c].sessions = n
    BY DEF Inv, Clients
  <2>2. PICK d \in Client : \E i \in 1 .. MaxSessions[d] : k = <<d, i>>
    BY Pairs
  <2> QED
    BY <2>1, <2>2
<1>4. /\ client' \in [Client -> [state : {"idle", "waiting", "ended", "interrupted"},
                                 sessions : Nat]]
      /\ client'[c] = [state |-> s, sessions |-> n]
      /\ \A d \in Client : d # c => client'[d] = client[d]
  BY DEF Inv, Clients
<1>5. ASSUME NEW d \in Client
      PROVE  /\ client'[d].sessions <= MaxSessions[d]
             /\ client'[d].state = "waiting" =>
                  /\ client'[d].sessions > 0
                  /\ connection'[<<d, client'[d].sessions>>].state # "none"
                  /\ connection'[<<d, client'[d].sessions>>].closed = FALSE
             /\ \A i \in 1 .. MaxSessions[d] :
                  i > client'[d].sessions => connection'[<<d, i>>] = NotMade
  <2>1. CASE d = c
    <3>1. n <= MaxSessions[c] /\ MaxSessions[c] \in Nat
      BY <1>3 DEF Inv, SessionAssumption
    <3>2. s = "waiting" =>
            /\ n > 0 /\ connection'[<<c, n>>].state # "none"
            /\ connection'[<<c, n>>].closed = FALSE
      BY <1>1, <1>3
    <3>3. ASSUME NEW i \in 1 .. MaxSessions[c], i > n PROVE connection'[<<c, i>>] = NotMade
      <4>1. <<c, i>> \in Connection /\ <<c, i>> # k /\ i > client[c].sessions
        BY <1>2, <1>3, <3>3 DEF Inv, Clients
      <4> QED
        BY <1>1, <4>1 DEF Inv, Clients
    <3> QED
      BY <1>4, <2>1, <3>1, <3>2, <3>3
  <2>2. CASE d # c
    <3>1. client'[d] = client[d]
      BY <1>4, <2>2
    <3>2. \A i \in 1 .. MaxSessions[d] : connection'[<<d, i>>] = connection[<<d, i>>]
      BY <1>1, <1>2, <2>2
    <3>3. client[d].state = "waiting" => client[d].sessions \in 1 .. MaxSessions[d]
      BY DEF Inv, Clients, SessionAssumption
    <3> QED
      BY <3>1, <3>2, <3>3 DEF Inv, Clients, Current
  <2> QED
    BY <2>1, <2>2
<1> QED
  BY <1>4, <1>5 DEF Clients, Current

LEMMA ConnectStep ==
  ASSUME Inv, NEW c \in Client, Connect(c)
  PROVE  Inv'
<1> DEFINE n == client[c].sessions + 1
           k == <<c, n>>
           r == [state |-> "pending", closed |-> FALSE, in |-> <<Hello>>, out |-> <<>>]
<1>1. /\ client[c].sessions \in Nat /\ client[c].sessions < MaxSessions[c]
      /\ MaxSessions[c] \in Nat /\ server = "up"
      /\ UNCHANGED <<version, server, run, client_counter, received>>
      /\ client' = [client EXCEPT ![c] = [state |-> "waiting", sessions |-> n]]
  BY DEF Inv, Clients, SessionAssumption, Connect
<1>2. n \in 1 .. MaxSessions[c] /\ k \in Connection
  BY <1>1 DEF Connection
<1>3. Turns(k, r)
  <2>1. connection' = [connection EXCEPT ![k] = r]
    <3>1. r = [NotMade EXCEPT !.state = "pending", !.in = <<Hello>>]
      <4> DEFINE closed == FALSE
                 h == [NotMade EXCEPT !.state = "pending"]
      <4>1. NotMade = [state |-> "none", closed |-> closed, in |-> <<>>, out |-> <<>>]
        BY DEF NotMade
      <4>2. r = [state |-> "pending", closed |-> closed, in |-> <<Hello>>, out |-> <<>>]
        OBVIOUS
      <4> HIDE DEF closed, r
      <4>3. h = [state |-> "pending", closed |-> closed, in |-> <<>>, out |-> <<>>]
        BY <4>1
      <4>4. [NotMade EXCEPT !.state = "pending", !.in = <<Hello>>] = [h EXCEPT !.in = <<Hello>>]
        BY <4>1
      <4> HIDE DEF h
      <4> QED
        BY <4>2, <4>3, <4>4
    <3> HIDE DEF r
    <3> QED
      BY <3>1 DEF Connect
  <2> HIDE DEF k, r
  <2> QED
    BY <1>2, <2>1 DEF Turns, Inv, Connections
<1>4. KnownState(r) /\ IsRecord(r) /\ Faithful(k, r) /\ \A id : ~Bears(r, id)
  <2>1. Asking(r) /\ IsRecord(r) /\ r.out = <<>> /\ r.in[1] = Hello
    BY Streams DEF Asking, IsRecord
  <2> HIDE DEF r, k
  <2> QED
    BY <2>1, BearsNothing, EndIsFaithful DEF KnownState
<1>5. r.closed = FALSE /\ r.state # "none" /\ k[1] = c /\ k[2] = n
  OBVIOUS
<1>6. client'[c].sessions = n
  BY <1>1 DEF Inv, Clients
<1> HIDE DEF r, k
<1>7. Connections' /\ Ids'
  BY <1>1, <1>2, <1>3, <1>4, ConnectionsTurn, IdsTurn DEF Inv
<1>8. Clients'
  <2>1. n \in {client[c].sessions, client[c].sessions + 1} /\ n > 0
    BY <1>1
  <2> HIDE DEF n
  <2> QED
    BY <1>1, <1>2, <1>3, <1>5, <1>6, <2>1, ClientsMove
<1> QED
  BY <1>1, <1>7, <1>8, NothingPrinted DEF Inv, Control, SessionAssumption

(* The session of a client that waits, and what closing it makes of it: the *)
(* message goes behind what is still there, or nowhere.                     *)
LEMMA WaitsThere ==
  ASSUME Inv, NEW c \in Client, client[c].state = "waiting"
  PROVE  LET old == connection[Current(c)]
         IN  /\ Current(c) \in Connection /\ IsRecord(old) /\ old.closed = FALSE
             /\ Asking(old) \/ Answered(old) \/ Gone(old)
<1> DEFINE old == connection[Current(c)]
<1>1. client[c].sessions \in 1 .. MaxSessions[c]
  BY DEF Inv, Clients, SessionAssumption
<1>2. Current(c) \in Connection
  BY <1>1, Pairs DEF Current
<1>3. old.state # "none" /\ old.closed = FALSE /\ IsRecord(old) /\ KnownState(old)
  BY <1>2 DEF Inv, Clients, Connections
<1>4. old # NotMade /\ ~LeftUnanswered(old) /\ ~Sent(old) /\ ~Finishing(old)
  BY <1>3 DEF NotMade, LeftUnanswered, Sent, Finishing
<1> QED
  BY <1>2, <1>3, <1>4 DEF KnownState

LEMMA NewState ==
  ASSUME Clients, NEW c \in Client, NEW s, client' = [client EXCEPT ![c].state = s]
  PROVE  /\ client' = [client EXCEPT ![c] = [state |-> s, sessions |-> client[c].sessions]]
         /\ client'[c].sessions = client[c].sessions
<1>1. client[c] = [state |-> client[c].state, sessions |-> client[c].sessions]
  BY DEF Clients
<1>2. [client[c] EXCEPT !.state = s] = [state |-> s, sessions |-> client[c].sessions]
  BY <1>1
<1>3. client' = [client EXCEPT ![c] = [client[c] EXCEPT !.state = s]]
  OBVIOUS
<1> QED
  BY <1>2, <1>3 DEF Clients

LEMMA ClosingStep ==
  ASSUME Inv, NEW c \in Client, client[c].state = "waiting",
         NEW m, IsMessage(m), NEW end \in Ending,
         connection' = [connection EXCEPT
           ![Current(c)] = [connection[Current(c)] EXCEPT
              !.closed = TRUE, !.out = <<>>,
              !.in = IF connection[Current(c)].state = "gone"
                     THEN connection[Current(c)].in
                     ELSE connection[Current(c)].in \o <<m, end>>]],
         connection[Current(c)].out = <<>> => end = Eof /\ m.sound = FALSE,
         m.sound => m.id = connection[Current(c)].out[1] /\ m.text = EncodedIn(version, Text[c]),
         NEW s \in {"idle", "interrupted"}, client' = [client EXCEPT ![c].state = s],
         UNCHANGED <<version, server, run, client_counter, received>>
  PROVE  Inv'
<1> DEFINE k == Current(c)
           old == connection[k]
           stream == IF old.state = "gone" THEN old.in ELSE old.in \o <<m, end>>
           r == [state |-> old.state, closed |-> TRUE, in |-> stream, out |-> <<>>]
<1>1. /\ k \in Connection /\ IsRecord(old) /\ old.closed = FALSE
      /\ Asking(old) \/ Answered(old) \/ Gone(old)
  BY WaitsThere
<1>2. connection' = [connection EXCEPT ![k] = r]
  <2>1. r = [old EXCEPT !.closed = TRUE, !.out = <<>>, !.in = stream]
    <3> DEFINE closed == TRUE
               none == <<>>
               g == [old EXCEPT !.closed = closed]
               h == [g EXCEPT !.out = none]
    <3>1. old = [state |-> old.state, closed |-> old.closed, in |-> old.in, out |-> old.out]
      BY <1>1 DEF IsRecord
    <3>2. r = [state |-> old.state, closed |-> closed, in |-> stream, out |-> none]
      OBVIOUS
    <3> HIDE DEF old, stream, r, closed, none
    <3>3. g = [state |-> old.state, closed |-> closed, in |-> old.in, out |-> old.out]
      BY <3>1
    <3>4. [old EXCEPT !.closed = closed, !.out = none, !.in = stream] = [h EXCEPT !.in = stream]
      OBVIOUS
    <3> HIDE DEF g
    <3>5. h = [state |-> old.state, closed |-> closed, in |-> old.in, out |-> none]
      BY <3>3
    <3> HIDE DEF h
    <3>6. [h EXCEPT !.in = stream] =
            [state |-> old.state, closed |-> closed, in |-> stream, out |-> none]
      BY <3>5
    <3> QED
      BY <3>2, <3>4, <3>6 DEF closed, none
  <2> QED
    BY <2>1
<1>3. Turns(k, r)
  <2> HIDE DEF k, r
  <2> QED
    BY <1>1, <1>2 DEF Turns, Inv, Connections
<1>4. /\ KnownState(r) /\ Faithful(k, r) /\ r.state # "none"
      /\ \A id : Bears(r, id) => Bears(old, id)
      /\ r.state \in {"pending", "read"} => old.state = r.state
  <2>1. CASE Gone(old)
    <3>1. r = [state |-> "gone", closed |-> TRUE, in |-> <<>>, out |-> <<>>]
      BY <2>1 DEF Gone
    <3> HIDE DEF r
    <3> QED
      BY <3>1 DEF KnownState, Gone, Bears, Faithful
  <2>2. CASE Asking(old)
    <3>1. old.in = <<Hello>> /\ old.out = <<>> /\ old.state \in {"pending", "read"}
      BY <2>2 DEF Asking
    <3>2. stream = <<Hello, m, end>> /\ end = Eof /\ m.sound = FALSE
      BY <3>1, Appended
    <3> HIDE DEF stream
    <3>3. r.state = old.state /\ r.closed = TRUE /\ r.in = stream /\ r.out = <<>>
      OBVIOUS
    <3> HIDE DEF r
    <3>4. LeftUnanswered(r)
      BY <3>1, <3>2, <3>3 DEF LeftUnanswered
    <3>5. \A id : ~Bears(r, id)
      BY <3>4, Unanswered, BearsNothing
    <3>6. Faithful(k, r)
      BY <3>4, Unanswered, EndIsFaithful
    <3> QED
      BY <3>1, <3>3, <3>4, <3>5, <3>6 DEF KnownState
  <2>3. CASE Answered(old)
    <3>1. PICK id \in Nat : old.out = <<id>> /\ old.in = <<>> /\ old.state = "read"
      BY <2>3 DEF Answered
    <3>2. stream = <<m, end>>
      BY <3>1, Appended
    <3> HIDE DEF stream
    <3>3. r.state = "read" /\ r.closed = TRUE /\ r.in = <<m, end>> /\ r.out = <<>>
      BY <3>1, <3>2
    <3> HIDE DEF r
    <3>4. Sent(r)
      BY <3>3 DEF Sent
    <3>5. old.out[1] = id /\ old.out # <<>> /\ r.in[1] = m
      BY <3>1, <3>3, Streams
    <3>6. \A i : Bears(r, i) => Bears(old, i)
      BY <3>1, <3>3, <3>5 DEF Bears
    <3>7. Faithful(k, r)
      <4>1. k[1] = c
        BY DEF Current
      <4> QED
        BY <3>5, <4>1 DEF Faithful
    <3> QED
      BY <3>1, <3>3, <3>4, <3>6, <3>7 DEF KnownState
  <2> QED
    BY <1>1, <2>1, <2>2, <2>3
<1>5. IsRecord(r)
  BY DEF IsRecord
<1>6. k = <<c, client[c].sessions>> /\ k[1] = c /\ k[2] = client[c].sessions
  BY DEF Current
<1> HIDE DEF r
<1>7. Connections'
  <2>1. server # "up" => \A l \in Connection : connection'[l].state \in {"none", "gone"}
    <3>1. \A l \in Connection : connection'[l] = IF l = k THEN r ELSE connection[l]
      BY <1>3 DEF Turns
    <3>2. ASSUME server # "up" PROVE r.state = "gone"
      <4>1. old.state = "gone"
        BY <1>1, <3>2 DEF Inv, Connections, Asking, Answered, Gone
      <4> QED
        BY <4>1 DEF r
    <3> HIDE DEF k
    <3> QED
      BY <3>1, <3>2 DEF Inv, Connections
  <2>2. /\ connection' = [l \in Connection |-> connection'[l]]
        /\ \A l \in Connection :
             IsRecord(connection'[l]) /\ KnownState(connection'[l]) /\ Faithful(l, connection'[l])
    <3> HIDE DEF k
    <3> QED
      BY <1>3, <1>4, <1>5 DEF Turns, Inv, Connections
  <2> QED
    BY <2>1, <2>2 DEF Connections, Faithful
<1>8. Ids'
  <2> HIDE DEF k
  <2> QED
    BY <1>1, <1>3, <1>4, IdsTurn DEF Inv
<1>9. Clients'
  <2>1. /\ client' = [client EXCEPT ![c] = [state |-> s, sessions |-> client[c].sessions]]
        /\ client'[c].sessions = client[c].sessions
    BY NewState DEF Inv, Clients
  <2> HIDE DEF k
  <2> QED
    BY <1>1, <1>3, <1>4, <1>6, <2>1, ClientsMove
<1> QED
  BY <1>7, <1>8, <1>9, NothingPrinted DEF Inv, Control, SessionAssumption

LEMMA ReceiveIdStep ==
  ASSUME Inv, NEW c \in Client, ReceiveId(c)
  PROVE  Inv'
<1> DEFINE old == connection[Current(c)]
           m == Message(old.out[1], Encoded(Text[c]), TRUE)
<1>1. /\ m.kind = "message" /\ m.sound = TRUE /\ m.id = old.out[1]
      /\ m.text = EncodedIn(version, Text[c]) /\ IsMessage(m)
  BY DEF Message, IsMessage, Encoded, EncodedIn
<1>2. connection' = [connection EXCEPT
         ![Current(c)] = [old EXCEPT
            !.closed = TRUE, !.out = <<>>,
            !.in = IF old.state = "gone" THEN old.in ELSE old.in \o <<m, Eof>>]]
  BY DEF ReceiveId, SendAndClose
<1>3. /\ client[c].state = "waiting" /\ old.out # <<>> /\ Eof \in Ending
      /\ client' = [client EXCEPT ![c].state = "idle"]
      /\ UNCHANGED <<version, server, run, client_counter, received>>
  BY DEF ReceiveId, Ending
<1> HIDE DEF m
<1> QED
  BY <1>1, <1>2, <1>3, ClosingStep

(* A message without an id from the server, with the end it gets. *)
LEMMA UnsoundStep ==
  ASSUME Inv, NEW c \in Client, client[c].state = "waiting",
         NEW id, NEW end \in Ending,
         connection' = [connection EXCEPT
           ![Current(c)] = [connection[Current(c)] EXCEPT
              !.closed = TRUE, !.out = <<>>,
              !.in = IF connection[Current(c)].state = "gone"
                     THEN connection[Current(c)].in
                     ELSE connection[Current(c)].in
                            \o <<Message(id, Encoded(Text[c]), FALSE), end>>]],
         connection[Current(c)].out = <<>> => end = Eof,
         NEW s \in {"idle", "interrupted"}, client' = [client EXCEPT ![c].state = s],
         UNCHANGED <<version, server, run, client_counter, received>>
  PROVE  Inv'
<1> DEFINE m == Message(id, Encoded(Text[c]), FALSE)
<1>1. m.kind = "message" /\ m.sound = FALSE /\ IsMessage(m)
  BY DEF Message, IsMessage
<1> HIDE DEF m
<1>2. connection' = [connection EXCEPT
         ![Current(c)] = [connection[Current(c)] EXCEPT
            !.closed = TRUE, !.out = <<>>,
            !.in = IF connection[Current(c)].state = "gone"
                   THEN connection[Current(c)].in
                   ELSE connection[Current(c)].in \o <<m, end>>]]
  BY DEF m
<1> QED
  BY <1>1, <1>2, ClosingStep

LEMMA ReceiveNothingStep ==
  ASSUME Inv, NEW c \in Client, ReceiveNothing(c)
  PROVE  Inv'
<1>1. PICK id \in Uninitialised : SendAndClose(c, id, FALSE, FALSE)
  BY DEF ReceiveNothing
<1>2. connection' = [connection EXCEPT
         ![Current(c)] = [connection[Current(c)] EXCEPT
            !.closed = TRUE, !.out = <<>>,
            !.in = IF connection[Current(c)].state = "gone"
                   THEN connection[Current(c)].in
                   ELSE connection[Current(c)].in
                          \o <<Message(id, Encoded(Text[c]), FALSE), Eof>>]]
  BY <1>1 DEF SendAndClose
<1>3. /\ client[c].state = "waiting" /\ Eof \in Ending
      /\ client' = [client EXCEPT ![c].state = "idle"]
      /\ UNCHANGED <<version, server, run, client_counter, received>>
  BY DEF ReceiveNothing, Ending
<1> QED
  BY <1>2, <1>3, UnsoundStep

LEMMA InterruptStep ==
  ASSUME Inv, NEW c \in Client, Interrupt(c)
  PROVE  Inv'
<1>1. UNCHANGED <<version, server, run, client_counter, received>>
  BY DEF Interrupt
<1>2. CASE client[c].state = "idle"
  <2>1. client' = [client EXCEPT ![c].state = "ended"] /\ UNCHANGED connection
    BY <1>2 DEF Interrupt
  <2>2. client' = [client EXCEPT ![c] = [state |-> "ended", sessions |-> client[c].sessions]]
    BY <2>1, NewState DEF Inv
  <2>3. Clients'
    <3>1. /\ client' \in [Client -> [state : {"idle", "waiting", "ended", "interrupted"},
                                     sessions : Nat]]
          /\ \A d \in Client :
               /\ client'[d].sessions = client[d].sessions
               /\ client'[d].state = "waiting" => client[d].state = "waiting"
      BY <2>2 DEF Inv, Clients
    <3> QED
      BY <2>1, <3>1 DEF Inv, Clients, Current
  <2> QED
    BY <1>1, <2>1, <2>3
       DEF Inv, Control, Runs, Connections, Faithful, Ids, IdsAreUnique,
           SessionAssumption
<1>3. CASE client[c].state = "waiting"
  <2>1. PICK id \in Uninitialised :
          SendAndClose(c, id, FALSE, connection[Current(c)].out # <<>>)
    BY <1>3 DEF Interrupt
  <2> DEFINE end == IF connection[Current(c)].out # <<>> THEN Reset ELSE Eof
  <2>2. connection' = [connection EXCEPT
           ![Current(c)] = [connection[Current(c)] EXCEPT
              !.closed = TRUE, !.out = <<>>,
              !.in = IF connection[Current(c)].state = "gone"
                     THEN connection[Current(c)].in
                     ELSE connection[Current(c)].in
                            \o <<Message(id, Encoded(Text[c]), FALSE), end>>]]
    BY <2>1 DEF SendAndClose
  <2>3. end \in Ending /\ (connection[Current(c)].out = <<>> => end = Eof)
    BY DEF Ending
  <2>4. client' = [client EXCEPT ![c].state = "interrupted"]
    BY <1>3 DEF Interrupt
  <2> HIDE DEF end
  <2> QED
    BY <1>1, <1>3, <2>2, <2>3, <2>4, UnsoundStep
<1> QED
  BY <1>2, <1>3 DEF Interrupt

-----------------------------------------------------------------------------
(* Bytes.  A chain of at most two interceptors, run from the front, is the  *)
(* one after the other: the fold's function is written down for the subsets *)
(* of its domain, and is then the one the definition chooses.               *)
LEMMA ExecuteNone == \A c : execute(<<>>, c) = c
<1> SUFFICES ASSUME NEW c PROVE execute(<<>>, c) = c
  OBVIOUS
<1> DEFINE chain == <<>>
           P(iter) == iter = [u \in SUBSET (DOMAIN chain) |->
              IF u = {} THEN c ELSE Intercept(chain[Max(u)], iter[u \ {Max(u)}])]
           iter == CHOOSE i : P(i)
<1>1. execute(chain, c) = iter[DOMAIN chain]
  BY DEF execute, FoldLeft, MapThenFoldSet
<1>2. DOMAIN chain = {}
  OBVIOUS
<1> HIDE DEF chain
<1>3. P([u \in {{}} |-> c])
  BY <1>2
<1>4. P(iter)
  BY <1>3
<1> HIDE DEF iter
<1> QED
  BY <1>1, <1>2, <1>4 DEF chain

LEMMA Largest == Max({1}) = 1 /\ Max({2}) = 2 /\ Max({1, 2}) = 2
  BY DEF Max

LEMMA ExecuteTwo ==
  \A c, s, t : execute(<<s, t>>, c) = Intercept(t, Intercept(s, c))
<1> SUFFICES ASSUME NEW c, NEW s, NEW t
             PROVE  execute(<<s, t>>, c) = Intercept(t, Intercept(s, c))
  OBVIOUS
<1> DEFINE chain == <<s, t>>
           P(iter) == iter = [u \in SUBSET (DOMAIN chain) |->
              IF u = {} THEN c ELSE Intercept(chain[Max(u)], iter[u \ {Max(u)}])]
           iter == CHOOSE i : P(i)
           w == [u \in SUBSET {1, 2} |->
                   IF u = {} THEN c
                   ELSE IF u = {1} THEN Intercept(s, c)
                   ELSE IF u = {2} THEN Intercept(t, c)
                   ELSE Intercept(t, Intercept(s, c))]
<1>1. execute(chain, c) = iter[DOMAIN chain]
  BY DEF execute, FoldLeft, MapThenFoldSet
<1>2. DOMAIN chain = {1, 2} /\ chain[1] = s /\ chain[2] = t
  OBVIOUS
<1> HIDE DEF chain
<1>3. P(w)
  <2>1. \A u \in SUBSET {1, 2} : u = {} \/ u = {1} \/ u = {2} \/ u = {1, 2}
    OBVIOUS
  <2>2. {1} \ {1} = {} /\ {2} \ {2} = {} /\ {1, 2} \ {2} = {1}
    OBVIOUS
  <2>3. w[{}] = c /\ w[{1}] = Intercept(s, c)
    OBVIOUS
  <2> HIDE DEF w
  <2>4. \A u \in SUBSET {1, 2} :
          (IF u = {} THEN c ELSE Intercept(chain[Max(u)], w[u \ {Max(u)}])) =
          (IF u = {} THEN c
           ELSE IF u = {1} THEN Intercept(s, c)
           ELSE IF u = {2} THEN Intercept(t, c)
           ELSE Intercept(t, Intercept(s, c)))
    BY <1>2, <2>1, <2>2, <2>3, Largest
  <2> QED
    BY <1>2, <2>4 DEF w
<1>4. P(iter)
  <2> HIDE DEF w
  <2> QED
    BY <1>3
<1> HIDE DEF iter
<1>5. iter[{1, 2}] = Intercept(t, Intercept(s, c))
  <2>1. iter = [u \in SUBSET {1, 2} |->
                  IF u = {} THEN c ELSE Intercept(chain[Max(u)], iter[u \ {Max(u)}])]
    BY <1>2, <1>4
  <2>2. {1} \ {1} = {} /\ {1, 2} \ {2} = {1} /\ {} \in SUBSET {1, 2}
        /\ {1} \in SUBSET {1, 2} /\ {1, 2} \in SUBSET {1, 2}
    OBVIOUS
  <2>3. iter[{}] = c
    BY <2>1, <2>2
  <2>4. iter[{1}] = Intercept(s, c)
    BY <1>2, <2>1, <2>2, <2>3, Largest
  <2> QED
    BY <1>2, <2>1, <2>2, <2>4, Largest
<1> QED
  BY <1>1, <1>2, <1>5 DEF chain
LEMMA ExecuteOne == \A c, s : execute(<<s>>, c) = Intercept(s, c)
<1> SUFFICES ASSUME NEW c, NEW s PROVE execute(<<s>>, c) = Intercept(s, c)
  OBVIOUS
<1> DEFINE chain == <<s>>
           P(iter) == iter = [u \in SUBSET (DOMAIN chain) |->
              IF u = {} THEN c ELSE Intercept(chain[Max(u)], iter[u \ {Max(u)}])]
           iter == CHOOSE i : P(i)
           w == [u \in SUBSET {1} |-> IF u = {} THEN c ELSE Intercept(s, c)]
<1>1. execute(chain, c) = iter[DOMAIN chain]
  BY DEF execute, FoldLeft, MapThenFoldSet
<1>2. DOMAIN chain = {1} /\ chain[1] = s
  OBVIOUS
<1> HIDE DEF chain
<1>3. P(w)
  <2>1. \A u \in SUBSET {1} : u = {} \/ u = {1}
    OBVIOUS
  <2>2. {1} \ {1} = {}
    OBVIOUS
  <2>3. w[{}] = c
    OBVIOUS
  <2> HIDE DEF w
  <2>4. \A u \in SUBSET {1} :
          (IF u = {} THEN c ELSE Intercept(chain[Max(u)], w[u \ {Max(u)}])) =
          (IF u = {} THEN c ELSE Intercept(s, c))
    BY <1>2, <2>1, <2>2, <2>3, Largest
  <2> QED
    BY <1>2, <2>4 DEF w
<1>4. P(iter)
  <2> HIDE DEF w
  <2> QED
    BY <1>3
<1> HIDE DEF iter
<1>5. iter[{1}] = Intercept(s, c)
  <2>1. iter = [u \in SUBSET {1} |->
                  IF u = {} THEN c ELSE Intercept(chain[Max(u)], iter[u \ {Max(u)}])]
    BY <1>2, <1>4
  <2>2. {1} \ {1} = {} /\ {} \in SUBSET {1} /\ {1} \in SUBSET {1}
    OBVIOUS
  <2> QED
    BY <1>2, <2>1, <2>2, Largest
<1> QED
  BY <1>1, <1>2, <1>5 DEF chain

LEMMA Powers == 2^2 = 4 /\ 2^6 = 64 /\ 2^24 = 16777216
  OBVIOUS

(* The steps of the chains, as arithmetic on bytes. *)
LEMMA ModStep == \A c, n : Intercept([by |-> "mod", size |-> n], c) = (c + n) % 256
  BY SMT DEF Intercept, mod_interceptor
LEMMA RotateRight ==
  \A c \in Byte : Intercept([by |-> "rotation", size |-> 2], c) = c \div 4 + ((c * 64) % 256)
<1> SUFFICES ASSUME NEW c \in Byte
             PROVE  Intercept([by |-> "rotation", size |-> 2], c) = c \div 4 + ((c * 64) % 256)
  OBVIOUS
<1>1. Intercept([by |-> "rotation", size |-> 2], c) = rotation_interceptor(c, 2)
  BY SMT DEF Intercept
<1>2. rotation_interceptor(c, 2) = ShiftRight(c, 2) + ShiftLeft(c, 6)
  <2>1. 2 > 0 /\ 8 - 2 = 6
    OBVIOUS
  <2> QED
    BY <2>1 DEF rotation_interceptor
<1>3. ShiftRight(c, 2) = c \div 4 /\ ShiftLeft(c, 6) = ((c * 64) % 256)
  BY Powers DEF ShiftRight, ShiftLeft
<1> QED
  BY <1>1, <1>2, <1>3 DEF Byte

LEMMA RotateLeft ==
  \A c \in Byte : Intercept([by |-> "rotation", size |-> -2], c) = ((c * 4) % 256) + c \div 64
<1> SUFFICES ASSUME NEW c \in Byte
             PROVE  Intercept([by |-> "rotation", size |-> -2], c) = ((c * 4) % 256) + c \div 64
  OBVIOUS
<1>1. Intercept([by |-> "rotation", size |-> -2], c) = rotation_interceptor(c, -2)
  BY SMT DEF Intercept
<1>2. rotation_interceptor(c, -2) = ShiftLeft(c, 2) + ShiftRight(c, 6)
  <2>1. ~(-2 > 0) /\ -(-2) = 2 /\ 8 + (-2) = 6
    <3>1. \A x \in Int : -x = 0 - x
      OBVIOUS
    <3>2. -2 \in Int /\ 0 - (-2) = 2
      OBVIOUS
    <3>3. -(-2) = 2
      BY ONLY <3>1, <3>2
    <3>4. ~(-2 > 0) /\ 8 + (-2) = 6
      OBVIOUS
    <3> QED
      BY <3>3, <3>4
  <2> QED
    BY <2>1 DEF rotation_interceptor
<1>3. ShiftRight(c, 6) = c \div 64 /\ ShiftLeft(c, 2) = ((c * 4) % 256)
  BY Powers DEF ShiftRight, ShiftLeft
<1> QED
  BY <1>1, <1>2, <1>3 DEF Byte

LEMMA Double == \A c : Intercept([by |-> "multi", size |-> 2], c) = (c * 2) % 256
  BY SMT DEF Intercept, multi_interceptor
LEMMA Halve ==
  \A c \in Byte :
    Intercept([by |-> "multi", size |-> -2], c) =
      IF c < 128 THEN c \div 2 ELSE (8388607 * 256 + (256 + c) \div 2) % 256
  BY Powers, SMT DEF Intercept, multi_interceptor, Quotient, Byte

LEMMA AppendToOne == \A r, s : Append(<<r>>, s) = <<r, s>>
<1> SUFFICES ASSUME NEW r, NEW s PROVE Append(<<r>>, s) = <<r, s>>
  OBVIOUS
<1> DEFINE S == {r, s}
           a == <<r>>
           u == <<r, s>>
           t == Append(a, s)
<1>1. a \in Seq(S) /\ s \in S
  OBVIOUS
<1>1a. Len(a) = 1 /\ a[1] = r
  OBVIOUS
<1>2. u \in Seq(S) /\ Len(u) = 2 /\ u[1] = r /\ u[2] = s
  OBVIOUS
<1> HIDE DEF S, a, u
<1>3. t \in Seq(S)
  BY <1>1
<1>4. Len(t) = Len(a) + 1
  BY <1>1
<1>5. t[Len(a) + 1] = s
  BY <1>1
<1>6. \A i \in 1 .. Len(a) : t[i] = a[i]
  BY <1>1
<1> HIDE DEF t
<1>7. Len(t) = 2 /\ t[1] = r /\ t[2] = s
  <2>1. Len(a) + 1 = 2 /\ 1 \in 1 .. Len(a)
    BY <1>1a
  <2> QED
    BY <1>1a, <1>4, <1>5, <1>6, <2>1
<1>8. \A i \in 1 .. Len(t) : t[i] = u[i]
  <2>1. \A i \in 1 .. Len(t) : i = 1 \/ i = 2
    BY <1>7
  <2> QED
    BY <1>2, <1>7, <2>1
<1>9. t = u
  BY <1>2, <1>3, <1>7, <1>8, SeqEqual
<1> QED
  BY <1>9 DEF a, u, t

LEMMA Chains ==
  /\ ClientChain["plain"] = <<>> /\ ServerChain["plain"] = <<>>
  /\ ClientChain["q5"] = <<[by |-> "mod", size |-> -2]>>
  /\ ServerChain["q5"] = <<[by |-> "mod", size |-> 2]>>
  /\ ClientChain["q6"] = <<[by |-> "mod", size |-> 2], [by |-> "rotation", size |-> 2]>>
  /\ ServerChain["q6"] = <<[by |-> "rotation", size |-> -2], [by |-> "mod", size |-> -2]>>
  /\ ClientChain["q7"] = <<[by |-> "mod", size |-> 3], [by |-> "multi", size |-> 2]>>
  /\ ServerChain["q7"] = <<[by |-> "multi", size |-> -2], [by |-> "mod", size |-> -3]>>
<1>1. \A by, size : compose(<<>>, by, size) = <<[by |-> by, size |-> size]>>
  <2> SUFFICES ASSUME NEW by, NEW size
               PROVE  compose(<<>>, by, size) = <<[by |-> by, size |-> size]>>
    OBVIOUS
  <2> DEFINE s == [by |-> by, size |-> size]
  <2>1. compose(<<>>, by, size) = Append(<<>>, s)
    BY DEF compose
  <2> HIDE DEF s
  <2>2. Append(<<>>, s) = <<s>>
    OBVIOUS
  <2> QED
    BY <2>1, <2>2 DEF s
<1>2. \A r, by, size : compose(<<r>>, by, size) = <<r, [by |-> by, size |-> size]>>
  <2> SUFFICES ASSUME NEW r, NEW by, NEW size
               PROVE  compose(<<r>>, by, size) = <<r, [by |-> by, size |-> size]>>
    OBVIOUS
  <2> DEFINE s == [by |-> by, size |-> size]
  <2>1. compose(<<r>>, by, size) = Append(<<r>>, s)
    BY DEF compose
  <2> HIDE DEF s
  <2>2. Append(<<r>>, s) = <<r, s>>
    BY AppendToOne
  <2> QED
    BY <2>1, <2>2 DEF s
<1>3. /\ ClientChainQ5 = <<[by |-> "mod", size |-> -2]>>
      /\ ServerChainQ5 = <<[by |-> "mod", size |-> 2]>>
  BY <1>1 DEF ClientChainQ5, ServerChainQ5
<1>4. ClientChainQ6 = <<[by |-> "mod", size |-> 2], [by |-> "rotation", size |-> 2]>>
  BY <1>1, <1>2, Zenon DEF ClientChainQ6
<1>5. ServerChainQ6 = <<[by |-> "rotation", size |-> -2], [by |-> "mod", size |-> -2]>>
  BY <1>1, <1>2, Zenon DEF ServerChainQ6
<1>6. ClientChainQ7 = <<[by |-> "mod", size |-> 3], [by |-> "multi", size |-> 2]>>
  BY <1>1, <1>2, Zenon DEF ClientChainQ7
<1>7. ServerChainQ7 = <<[by |-> "multi", size |-> -2], [by |-> "mod", size |-> -3]>>
  BY <1>1, <1>2, Zenon DEF ServerChainQ7
<1>8. /\ ClientChain["plain"] = <<>> /\ ServerChain["plain"] = <<>>
      /\ ClientChain["q5"] = ClientChainQ5 /\ ServerChain["q5"] = ServerChainQ5
      /\ ClientChain["q6"] = ClientChainQ6 /\ ServerChain["q6"] = ServerChainQ6
      /\ ClientChain["q7"] = ClientChainQ7 /\ ServerChain["q7"] = ServerChainQ7
  BY DEF ClientChain, ServerChain
<1> QED
  BY <1>3, <1>4, <1>5, <1>6, <1>7, <1>8, Zenon

LEMMA Plain ==
  ASSUME NEW c \in Byte
  PROVE  Encoding["plain"][c] = c /\ Decoding["plain"][c] = c
BY Chains, ExecuteNone DEF Encoding, Decoding, Versions

LEMMA CodeQ5 ==
  ASSUME NEW c \in Byte
  PROVE  Encoding["q5"][c] = (c - 2) % 256 /\ Decoding["q5"][c] = (c + 2) % 256
<1>1. execute(ClientChain["q5"], c) = (c + (-2)) % 256
  BY Chains, ExecuteOne, ModStep
<1>2. execute(ServerChain["q5"], c) = (c + 2) % 256
  BY Chains, ExecuteOne, ModStep
<1> QED
  BY <1>1, <1>2 DEF Encoding, Decoding, Versions, Byte

LEMMA CodeQ6 ==
  ASSUME NEW c \in Byte
  PROVE  /\ Encoding["q6"][c] = ((c + 2) % 256) \div 4 + ((((c + 2) % 256) * 64) % 256)
         /\ Decoding["q6"][c] = ((((c * 4) % 256) + c \div 64) - 2) % 256
<1>1. execute(ClientChain["q6"], c) = ((c + 2) % 256) \div 4 + ((((c + 2) % 256) * 64) % 256)
  <2>1. (c + 2) % 256 \in Byte
    BY DEF Byte
  <2> QED
    BY <2>1, Chains, ExecuteTwo, ModStep, RotateRight
<1>2. execute(ServerChain["q6"], c) = ((((c * 4) % 256) + c \div 64) + (-2)) % 256
  BY Chains, ExecuteTwo, ModStep, RotateLeft
<1> QED
  BY <1>1, <1>2 DEF Encoding, Decoding, Versions, Byte

LEMMA CodeQ7 ==
  ASSUME NEW c \in Byte
  PROVE  /\ Encoding["q7"][c] = (((c + 3) % 256) * 2) % 256
         /\ Decoding["q7"][c] =
              ((IF c < 128 THEN c \div 2 ELSE (8388607 * 256 + (256 + c) \div 2) % 256) - 3) % 256
<1>1. execute(ClientChain["q7"], c) = (((c + 3) % 256) * 2) % 256
  BY Chains, ExecuteTwo, ModStep, Double
<1>2. execute(ServerChain["q7"], c) =
        ((IF c < 128 THEN c \div 2 ELSE (8388607 * 256 + (256 + c) \div 2) % 256) + (-3)) % 256
  BY Chains, ExecuteTwo, ModStep, Halve
<1> QED
  BY <1>1, <1>2 DEF Encoding, Decoding, Versions, Byte

LEMMA ThereAndBack ==
  ASSUME NEW b \in 1 .. 255
  PROVE  /\ Decoding["plain"][Encoding["plain"][b]] = b
         /\ Decoding["q5"][Encoding["q5"][b]] = b
         /\ Decoding["q6"][Encoding["q6"][b]] = b
         /\ Decoding["q7"][Encoding["q7"][b]] = b <=>
              LET c == (b + 3) % 256 IN c < 64 \/ c >= 192
         /\ Decoding["q7"][Encoding["q7"][b]] = 0 <=> b = 128
<1>1. b \in Byte
  BY DEF Byte
<1>2. Decoding["plain"][Encoding["plain"][b]] = b
  BY <1>1, Plain
<1>3. Decoding["q5"][Encoding["q5"][b]] = b
  <2>1. (b - 2) % 256 \in Byte
    BY DEF Byte
  <2> QED
    BY <1>1, <2>1, CodeQ5
<1>4. Decoding["q6"][Encoding["q6"][b]] = b
  <2> DEFINE c == (b + 2) % 256
             e == c \div 4 + ((c * 64) % 256)
  <2>1. c \in Byte /\ (c - 2) % 256 = b
    BY DEF Byte
  <2>2. Encoding["q6"][b] = e
    BY <1>1, CodeQ6
  <2> HIDE DEF c
  <2>3. e \in Byte /\ ((e * 4) % 256) + e \div 64 = c
    <3>1. \A x \in 0 .. 255 :
            (((x \div 4 + ((x * 64) % 256)) * 4) % 256) + (x \div 4 + ((x * 64) % 256)) \div 64 = x
      OBVIOUS
    <3>2. \A x \in 0 .. 255 : x \div 4 + ((x * 64) % 256) \in 0 .. 255
      OBVIOUS
    <3> QED
      BY <2>1, <3>1, <3>2 DEF Byte
  <2> HIDE DEF e
  <2> DEFINE d == ((e * 4) % 256) + e \div 64
  <2>4. d = c
    BY <2>3
  <2>4a. e \in Byte
    BY <2>3
  <2>4b. Decoding["q6"][e] = (d - 2) % 256
    <3>1. Decoding["q6"][e] = ((((e * 4) % 256) + e \div 64) - 2) % 256
      BY ONLY <2>4a, CodeQ6, Zenon
    <3> QED
      BY <3>1
  <2> HIDE DEF d
  <2>5. Decoding["q6"][e] = (c - 2) % 256
    BY <2>4, <2>4b
  <2> QED
    BY <2>1, <2>2, <2>5, Zenon
<1>5. /\ Decoding["q7"][Encoding["q7"][b]] = b <=>
           LET c == (b + 3) % 256 IN c < 64 \/ c >= 192
      /\ Decoding["q7"][Encoding["q7"][b]] = 0 <=> b = 128
  <2> DEFINE c == (b + 3) % 256
             e == (c * 2) % 256
             h == IF e < 128 THEN e \div 2 ELSE (8388607 * 256 + (256 + e) \div 2) % 256
  <2>1. c \in Byte
    BY DEF Byte
  <2>2. Encoding["q7"][b] = e
    BY <1>1, CodeQ7
  <2>3. \A x \in Byte : (x - 3) % 256 = b <=> x = c
    <3>1. ASSUME NEW x \in 0 .. 255 PROVE (x - 3) % 256 = IF x >= 3 THEN x - 3 ELSE x + 253
      OBVIOUS
    <3>2. c = IF b < 253 THEN b + 3 ELSE b - 253
      OBVIOUS
    <3> HIDE DEF c
    <3> QED
      BY <3>1, <3>2 DEF Byte
  <2>3a. \A x \in Byte : (x - 3) % 256 = 0 <=> x = 3
    BY DEF Byte
  <2>3b. c # 3 /\ (c = 131 <=> b = 128)
    OBVIOUS
  <2> HIDE DEF c
  <2>4. e \in Byte /\ h \in Byte /\ (h = c <=> c < 64 \/ c >= 192) /\ (h = 3 <=> c \in {3, 131})
    <3>1. CASE c < 64
      BY <2>1, <3>1 DEF Byte
    <3>2. CASE c >= 64 /\ c < 128
      BY <2>1, <3>2 DEF Byte
    <3>3. CASE c >= 128 /\ c < 192
      BY <2>1, <3>3 DEF Byte
    <3>4. CASE c >= 192
      BY <2>1, <3>4 DEF Byte
    <3> QED
      BY <2>1, <3>1, <3>2, <3>3, <3>4 DEF Byte
  <2>5. Decoding["q7"][e] = (h - 3) % 256
    BY <2>4, CodeQ7
  <2> HIDE DEF e, h
  <2>6. Decoding["q7"][Encoding["q7"][b]] = 0 <=> b = 128
    BY <2>2, <2>3a, <2>3b, <2>4, <2>5
  <2>7. Decoding["q7"][Encoding["q7"][b]] = b <=>
          LET sum == (b + 3) % 256 IN sum < 64 \/ sum >= 192
    BY <2>2, <2>3, <2>4, <2>5 DEF c
  <2> QED
    BY <2>6, <2>7
<1> QED
  BY <1>2, <1>3, <1>4, <1>5

(* What the server's chain makes of a byte of a text.                       *)
LEMMA ByteBack ==
  ASSUME version \in Versions, NEW b \in 1 .. 255
  PROVE  LET back == Decoding[version][Encoding[version][b]]
         IN  (back = b <=> Survives(b)) /\ (back = 0 <=> Ends(b))
<1> DEFINE back == Decoding[version][Encoding[version][b]]
<1>1. ASSUME version # "q7", back = b PROVE (back = b <=> Survives(b)) /\ (back = 0 <=> Ends(b))
  <2>1. b # 0
    OBVIOUS
  <2>2. Survives(b) /\ ~Ends(b)
    BY <1>1 DEF Survives, Ends
  <2> QED
    BY ONLY <1>1, <2>1, <2>2, Zenon
<1>2. CASE version = "plain"
  <2>1. back = b
    BY <1>2, ThereAndBack, Zenon
  <2> QED
    BY <1>1, <1>2, <2>1
<1>3. CASE version = "q5"
  <2>1. back = b
    BY <1>3, ThereAndBack, Zenon
  <2> QED
    BY <1>1, <1>3, <2>1
<1>4. CASE version = "q6"
  <2>1. back = b
    BY <1>4, ThereAndBack, Zenon
  <2> QED
    BY <1>1, <1>4, <2>1
<1>5. CASE version = "q7"
  <2>1. /\ Decoding["q7"][Encoding["q7"][b]] = b <=>
             LET sum == (b + 3) % 256 IN sum < 64 \/ sum >= 192
        /\ Decoding["q7"][Encoding["q7"][b]] = 0 <=> b = 128
    BY ThereAndBack, Zenon
  <2>2. Survives(b) <=> LET sum == (b + 3) % 256 IN sum < 64 \/ sum >= 192
    BY ONLY <1>5 DEF Survives
  <2>3. Ends(b) <=> b = 128
    BY ONLY <1>5 DEF Ends
  <2>4. back = Decoding["q7"][Encoding["q7"][b]]
    BY <1>5
  <2> HIDE DEF back
  <2>5. back = b <=> Survives(b)
    BY ONLY <2>1, <2>2, <2>4, Zenon
  <2>6. back = 0 <=> Ends(b)
    BY ONLY <2>1, <2>3, <2>4, Zenon
  <2> QED
    BY <2>5, <2>6 DEF back
<1> QED
  BY <1>2, <1>3, <1>4, <1>5 DEF Versions

LEMMA Texts ==
  ASSUME SessionAssumption, NEW c \in Client
  PROVE  /\ DOMAIN Text[c] = 1 .. Len(Text[c]) /\ Len(Text[c]) \in Nat
         /\ \A i \in DOMAIN Text[c] : Text[c][i] \in 1 .. 255
<1> DEFINE S == 1 .. 255
<1>1. Text[c] \in Seq(S)
  BY DEF SessionAssumption
<1> HIDE DEF S
<1>2. /\ DOMAIN Text[c] = 1 .. Len(Text[c]) /\ Len(Text[c]) \in Nat
      /\ \A i \in DOMAIN Text[c] : Text[c][i] \in S
  BY <1>1
<1> QED
  BY <1>2 DEF S

(* What is printed of a client's text, by a server with a chain. *)
LEMMA ReadBack ==
  ASSUME SessionAssumption, version \in Versions, NEW c \in Client
  PROVE  LET text == Text[c]
             shown == CString(DecodedIn(version, EncodedIn(version, text)))
         IN  /\ \A i \in DOMAIN text :
                  i \in DOMAIN shown <=> \A j \in 1 .. i : ~Ends(text[j])
             /\ \A i \in DOMAIN text \intersect DOMAIN shown :
                  shown[i] = text[i] <=> Survives(text[i])
             /\ DOMAIN shown \subseteq DOMAIN text
<1> DEFINE text == Text[c]
           back == DecodedIn(version, EncodedIn(version, text))
           shown == CString(back)
<1>1. DOMAIN text = 1 .. Len(text) /\ Len(text) \in Nat /\ \A i \in DOMAIN text : text[i] \in 1 .. 255
  BY Texts
<1>2. DOMAIN back = DOMAIN text
  BY DEF DecodedIn, EncodedIn
<1>3. ASSUME NEW i \in DOMAIN text
      PROVE  (back[i] = text[i] <=> Survives(text[i])) /\ (back[i] = 0 <=> Ends(text[i]))
  <2>1. back[i] = Decoding[version][Encoding[version][text[i]]]
    BY DEF DecodedIn, EncodedIn
  <2>2. text[i] \in 1 .. 255
    BY <1>1
  <2> HIDE DEF back, text
  <2> QED
    BY <2>1, <2>2, ByteBack
<1> HIDE DEF back, text
<1>4. shown = [i \in {j \in DOMAIN back : \A l \in 1 .. j : back[l] # 0} |-> back[i]]
  BY DEF CString
<1>5. ASSUME NEW i \in DOMAIN text
      PROVE  i \in DOMAIN shown <=> \A j \in 1 .. i : ~Ends(text[j])
  <2>1. \A j \in 1 .. i : j \in DOMAIN text
    BY <1>1
  <2>2. i \in DOMAIN shown <=> \A j \in 1 .. i : back[j] # 0
    BY <1>2, <1>4
  <2> QED
    BY ONLY <1>3, <2>1, <2>2, Zenon
<1>6. DOMAIN shown \subseteq DOMAIN text /\ \A i \in DOMAIN shown : shown[i] = back[i]
  BY <1>2, <1>4
<1>7. \A i \in DOMAIN text \intersect DOMAIN shown : shown[i] = text[i] <=> Survives(text[i])
  BY <1>3, <1>6
<1> QED
  BY <1>5, <1>6, <1>7 DEF text, back

(* And by one without, which prints all of it and what lies behind.         *)
LEMMA ReadPlain ==
  ASSUME SessionAssumption, version = "plain", NEW c \in Client, NEW rest \in Stale
  PROVE  LET text == Text[c]
             shown == CString(EncodedIn(version, text) \o rest)
         IN  /\ \A i \in DOMAIN text :
                  i \in DOMAIN shown <=> \A j \in 1 .. i : ~Ends(text[j])
             /\ \A i \in DOMAIN text \intersect DOMAIN shown :
                  shown[i] = text[i] <=> Survives(text[i])
<1> DEFINE text == Text[c]
           bytes == EncodedIn(version, text)
           all == bytes \o rest
           shown == CString(all)
<1>1. DOMAIN text = 1 .. Len(text) /\ Len(text) \in Nat /\ \A i \in DOMAIN text : text[i] \in 1 .. 255
  BY Texts
<1>2. \A i \in DOMAIN text : Encoding["plain"][text[i]] = text[i]
  <2>1. \A i \in DOMAIN text : text[i] \in Byte
    BY <1>1 DEF Byte
  <2> HIDE DEF text
  <2> QED
    BY <2>1, Plain
<1>3. bytes = [i \in 1 .. Len(text) |-> text[i]]
  <2>1. bytes = [i \in DOMAIN text |-> Encoding["plain"][text[i]]]
    BY DEF EncodedIn
  <2> HIDE DEF bytes, text
  <2> QED
    BY <1>1, <1>2, <2>1
<1> HIDE DEF text
<1>4. bytes \in Seq(0 .. 255) /\ Len(bytes) = Len(text)
  <2>1. \A x \in 1 .. 255 : x \in 0 .. 255
    OBVIOUS
  <2>2. \A i \in 1 .. Len(text) : text[i] \in 0 .. 255
    BY <1>1, <2>1, Zenon
  <2> DEFINE B == 0 .. 255
             n == Len(text)
  <2>3. n \in Nat /\ \A i \in 1 .. n : text[i] \in B
    BY <1>1, <2>2
  <2>4. bytes = [i \in 1 .. n |-> text[i]]
    BY <1>3
  <2> HIDE DEF B, n, bytes
  <2>5. bytes \in [1 .. n -> B]
    BY <2>3, <2>4
  <2>6. bytes \in Seq(B) /\ Len(bytes) = n
    BY <2>3, <2>5
  <2> QED
    BY <2>6 DEF B, n
<1>5. rest \in Seq(0 .. 255)
  BY DEF SessionAssumption
<1> HIDE DEF bytes
<1>6. \A i \in DOMAIN text : i \in DOMAIN all /\ all[i] = text[i]
  <2>1. \A s, t \in Seq(0 .. 255) :
          /\ Len(s \o t) = Len(s) + Len(t) /\ DOMAIN (s \o t) = 1 .. Len(s \o t)
          /\ Len(s) \in Nat /\ Len(t) \in Nat
          /\ \A i \in 1 .. Len(s) : (s \o t)[i] = s[i]
    OBVIOUS
  <2>2. /\ Len(all) = Len(bytes) + Len(rest) /\ DOMAIN all = 1 .. Len(all)
        /\ Len(rest) \in Nat /\ \A i \in 1 .. Len(bytes) : all[i] = bytes[i]
    BY <1>4, <1>5, <2>1
  <2> HIDE DEF all
  <2> QED
    BY <1>1, <1>3, <1>4, <2>1, <2>2
<1> HIDE DEF all
<1>7. shown = [i \in {j \in DOMAIN all : \A l \in 1 .. j : all[l] # 0} |-> all[i]]
  BY DEF CString
<1>8. \A i \in DOMAIN text : ~Ends(text[i]) /\ Survives(text[i])
  BY DEF Ends, Survives
<1>9. ASSUME NEW i \in DOMAIN text
      PROVE  /\ i \in DOMAIN shown /\ shown[i] = text[i]
             /\ \A j \in 1 .. i : ~Ends(text[j])
  <2>1. \A j \in 1 .. i : j \in DOMAIN text
    BY <1>1
  <2>1a. \A x \in 1 .. 255 : x # 0
    OBVIOUS
  <2>2. \A j \in 1 .. i : all[j] # 0
    <3> SUFFICES ASSUME NEW j \in 1 .. i PROVE all[j] # 0
      OBVIOUS
    <3>1. j \in DOMAIN text
      BY <2>1
    <3> QED
      BY <1>1, <1>6, <2>1a, <3>1, Zenon
  <2> QED
    BY <1>6, <1>7, <1>8, <2>1, <2>2
<1> QED
  BY <1>8, <1>9 DEF text, bytes, all

(* Which exercise has a chain. *)
LEMMA Chained == ServerChain[version] = <<>> /\ version \in Versions => version = "plain"
BY Chains DEF Versions

LEMMA InvDelivers == Inv => Delivered
<1> SUFFICES ASSUME Inv, NEW m \in received, m.sound
             PROVE  LET text == Text[m.connection[1]]
                    IN  /\ \A i \in DOMAIN text :
                             i \in DOMAIN m.text <=> \A j \in 1 .. i : ~Ends(text[j])
                        /\ \A i \in DOMAIN text \intersect DOMAIN m.text :
                             m.text[i] = text[i] <=> Survives(text[i])
                        /\ version # "plain" => DOMAIN m.text \subseteq DOMAIN text
  BY DEF Delivered
<1>1. /\ m.connection \in Connection
      /\ m.text \in ShownIn(version, EncodedIn(version, Text[m.connection[1]]))
  BY DEF Inv, Runs
<1>2. m.connection[1] \in Client
  <2>1. PICK c \in Client : \E i \in 1 .. MaxSessions[c] : m.connection = <<c, i>>
    BY <1>1, Pairs
  <2> QED
    BY <2>1
<1>3. SessionAssumption /\ version \in Versions
  BY DEF Inv, Control
<1>4. CASE ServerChain[version] # <<>>
  <2>1. m.text = CString(DecodedIn(version, EncodedIn(version, Text[m.connection[1]])))
    BY <1>1, <1>4 DEF ShownIn
  <2> QED
    BY <1>2, <1>3, <2>1, ReadBack
<1>5. CASE ServerChain[version] = <<>>
  <2>1. version = "plain"
    BY <1>3, <1>5, Chained
  <2>2. PICK rest \in Stale : m.text = CString(EncodedIn(version, Text[m.connection[1]]) \o rest)
    BY <1>1, <1>5 DEF ShownIn
  <2> QED
    BY <1>2, <1>3, <2>1, <2>2, ReadPlain
<1> QED
  BY <1>4, <1>5

-----------------------------------------------------------------------------
LEMMA InvInit == SessionAssumption /\ Init => Inv
<1> SUFFICES ASSUME SessionAssumption, Init PROVE Inv
  OBVIOUS
<1>1. \A k \in Connection : connection[k] = NotMade
  BY DEF Init
<1>2. \A id : ~Bears(NotMade, id)
  BY DEF Bears, NotMade
<1>3. KnownState(NotMade) /\ IsRecord(NotMade) /\ \A k : Faithful(k, NotMade)
  BY DEF KnownState, IsRecord, Faithful, NotMade
<1>4. Connections
  BY <1>1, <1>3 DEF Init, Connections
<1>5. Clients
  <2>1. client \in [Client -> [state : {"idle", "waiting", "ended", "interrupted"},
                               sessions : Nat]]
    BY DEF Init
  <2> QED
    BY <1>1, <2>1, Pairs DEF Init, Clients, SessionAssumption
<1>6. Ids
  BY <1>1, <1>2 DEF Init, Ids
<1> QED
  BY <1>4, <1>5, <1>6 DEF Init, Inv, Control, Runs, IdsAreUnique, SessionAssumption

LEMMA InvStep == Inv /\ [Next]_sessionVars => Inv'
<1> SUFFICES ASSUME Inv, [Next]_sessionVars PROVE Inv'
  OBVIOUS
<1>1. ASSUME NEW c \in Client, ClientStep(c) PROVE Inv'
  BY <1>1, ConnectStep, ReceiveIdStep, ReceiveNothingStep, InterruptStep
     DEF ClientStep, handle_timeout
<1>2. ASSUME NEW k \in Connection, Accept(k) \/ handle_input(k) PROVE Inv'
  BY <1>2, AcceptStep, AnswerStep, ReadStep, ReadTogetherStep, CloseStep, ReadResetStep
     DEF handle_input
<1>3. CASE handle_signal \/ Start
  BY <1>3, SignalStep, StartStep
<1>4. CASE UNCHANGED sessionVars
  BY <1>4 DEF Inv, Control, Runs, Connections, Faithful, Clients, Current,
     Ids, IdsAreUnique, SessionAssumption, sessionVars
<1> QED
  BY <1>1, <1>2, <1>3, <1>4 DEF Next, ServerStep, Reactor

LEMMA InvImplies == Inv => TypeOK /\ IdsAreUnique
<1> SUFFICES ASSUME Inv PROVE TypeOK /\ IdsAreUnique
  OBVIOUS
<1>1. \A k \in Connection : connection[k].state \in {"none", "pending", "read", "gone"}
  BY DEF Inv, Connections, KnownState, NotMade, Asking, LeftUnanswered, Answered, Sent,
     Finishing, Gone
<1> QED
  BY <1>1 DEF Inv, Control, Runs, Ids, Clients, TypeOK

LEMMA InvAlways == SessionAssumption /\ Spec => []Inv
  BY InvInit, InvStep, PTL DEF Spec

(* Every variable has its type, for any clients, texts, sessions and runs.  *)
THEOREM TypeCorrect == SessionAssumption /\ Spec => []TypeOK
  BY InvAlways, InvImplies, PTL

(* One run of the server never prints two messages with the same id, unless *)
(* a client answered before it had one.                                     *)
THEOREM IdsAreAlwaysUnique == SessionAssumption /\ Spec => []IdsAreUnique
  BY InvAlways, InvImplies, PTL

(* What the server prints of a sound message is the client's text, byte by  *)
(* byte, whatever the text: the chains undo each other, but for the bytes   *)
(* that doubling destroys.                                                  *)
THEOREM TextComesBack == SessionAssumption /\ Spec => []Delivered
  BY InvAlways, InvDelivers, PTL
=============================================================================
