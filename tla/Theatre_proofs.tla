--------------------------- MODULE Theatre_proofs ---------------------------
(***************************************************************************)
(* What holds of Theatre for all directors, repertoires, environments and  *)
(* command sequences: the types, and that the producer's maps, records and *)
(* indices agree.  And the handshake of start, [STARTED], stop and         *)
(* [STOPPED]: until a play is confirmed as stopped twice, or before it is  *)
(* confirmed as started, menu and directors stay in step, whether plays    *)
(* are stopped or end by themselves, whatever messages are lost and        *)
(* whoever quits, is killed or crashes in between.                         *)
(***************************************************************************)
EXTENDS Theatre, WellFoundedInduction, TLAPS

-----------------------------------------------------------------------------
(* The menu's operators *)

(* A non-empty set of numbers has a smallest one. *)
LEMMA SmallestIn ==
  ASSUME NEW S \in SUBSET Nat, S # {}
  PROVE  Smallest(S) \in S
<1> DEFINE R == OpToRel(<, Nat)
<1>1. \E x \in S : \A y \in S : ~ (<<y, x>> \in R)
  <2> HIDE DEF R
  <2> QED
    BY NatLessThanWellFounded, WFMin DEF R
<1>2. \A x, y \in Nat : x < y => <<x, y>> \in R
  BY DEF OpToRel
<1>3. PICK x \in S : \A y \in S : ~ (<<y, x>> \in R)
  BY <1>1
<1>4. ASSUME NEW y \in S PROVE x <= y
  <2> HIDE DEF R
  <2>1. x \in Nat /\ y \in Nat
    OBVIOUS
  <2>2. ~ (y < x)
    BY <1>2, <1>3, <2>1, Zenon
  <2> QED
    BY <2>1, <2>2
<1> QED
  BY <1>4 DEF Smallest

MenuType(m) == \A i \in DOMAIN m : m[i] \in Record

SamePlays(m, n) ==
  DOMAIN n = DOMAIN m /\ \A i \in DOMAIN m : n[i].plays = m[i].plays

(* What a pop returns is a record of the menu with that status and play. *)
LEMMA PopFinds ==
  ASSUME NEW m, DOMAIN m \subseteq Nat, NEW s, NEW p, PopId(m, s, p) # NONE
  PROVE  /\ PopId(m, s, p) \in DOMAIN m
         /\ m[PopId(m, s, p)].status = s
         /\ p \in m[PopId(m, s, p)].plays
<1>1. Offering(m, s, p) # {} /\ PopId(m, s, p) = Smallest(Offering(m, s, p))
  BY DEF PopId
<1>2. Offering(m, s, p) \in SUBSET Nat
  BY DEF Offering
<1>3. PopId(m, s, p) \in Offering(m, s, p)
  BY <1>1, <1>2, SmallestIn
<1> QED
  BY <1>3 DEF Offering

LEMMA SetStatusKeeps ==
  ASSUME NEW m, MenuType(m), NEW id, NEW s \in Status
  PROVE  MenuType(SetStatus(m, id, s)) /\ SamePlays(m, SetStatus(m, id, s))
<1>1. CASE id \in DOMAIN m
  <2> DEFINE n == [m EXCEPT ![id].status = s]
  <2>1. DOMAIN n = DOMAIN m
    OBVIOUS
  <2>2. ASSUME NEW i \in DOMAIN m
        PROVE  n[i] \in Record /\ n[i].plays = m[i].plays
    BY DEF MenuType, Record
  <2> HIDE DEF n
  <2>3. MenuType(n) /\ SamePlays(m, n)
    BY <2>1, <2>2 DEF MenuType, SamePlays
  <2> QED
    BY <1>1, <2>3 DEF SetStatus, n
<1>2. CASE id \notin DOMAIN m
  BY <1>2 DEF SetStatus, SamePlays
<1> QED
  BY <1>1, <1>2

LEMMA SetUnclearKeeps ==
  ASSUME NEW m, MenuType(m), NEW id \in DOMAIN m
  PROVE  MenuType(SetUnclear(m, id)) /\ SamePlays(m, SetUnclear(m, id))
BY SetStatusKeeps DEF SetUnclear, SetStatus, Status

LEMMA RegPlayAdds ==
  ASSUME NEW m, MenuType(m), NEW p \in Play, NEW id
  PROVE  /\ MenuType(reg_play(m, p, id))
         /\ DOMAIN reg_play(m, p, id) = DOMAIN m \union {id}
         /\ \A i \in DOMAIN m \union {id} :
              \A q \in reg_play(m, p, id)[i].plays :
                (i \in DOMAIN m /\ q \in m[i].plays) \/ (i = id /\ q = p)
<1> DEFINE n == reg_play(m, p, id)
<1>1. DOMAIN n = DOMAIN m \union {id}
  BY DEF reg_play
<1>2. ASSUME NEW i \in DOMAIN m, i # id PROVE n[i] = m[i]
  BY <1>2 DEF reg_play
<1>3. CASE id \in DOMAIN m
  <2>1. n[id] = [m[id] EXCEPT !.plays = @ \union {p}] /\ m[id] \in Record
    BY <1>3 DEF reg_play, MenuType
  <2>2. n[id] \in Record /\ n[id].plays = m[id].plays \union {p}
    BY <2>1 DEF Record
  <2> HIDE DEF n
  <2>3. MenuType(n)
    BY <1>1, <1>2, <2>2 DEF MenuType
  <2> QED
    BY <1>1, <1>2, <1>3, <2>2, <2>3 DEF n
<1>4. CASE id \notin DOMAIN m
  <2>1. n[id] = [status |-> "AVAILABLE", plays |-> {p}]
    BY <1>4 DEF reg_play
  <2>2. n[id] \in Record /\ n[id].plays = {p}
    BY <2>1 DEF Record, Status
  <2> HIDE DEF n
  <2>3. MenuType(n)
    BY <1>1, <1>2, <2>2 DEF MenuType
  <2> QED
    BY <1>1, <1>2, <1>4, <2>2, <2>3 DEF n
<1> QED
  BY <1>3, <1>4

LEMMA CleanRemoves ==
  ASSUME NEW m, MenuType(m), NEW id
  PROVE  /\ MenuType(clean_with_id(m, id))
         /\ DOMAIN clean_with_id(m, id) = DOMAIN m \ {id}
         /\ \A i \in DOMAIN m \ {id} : clean_with_id(m, id)[i] = m[i]
BY DEF MenuType, clean_with_id

(* The printed menu lists what the records offer. *)
LEMMA ShownLists ==
  ASSUME NEW m, MenuType(m)
  PROVE  DOMAIN Shown(m) = Offered(m) /\ Offered(m) \subseteq Play
BY DEF Shown, Offered, MenuType, Record

LEMMA SamePlaysOffered ==
  ASSUME NEW m, NEW n, SamePlays(m, n)
  PROVE  Offered(n) = Offered(m)
BY DEF SamePlays, Offered

-----------------------------------------------------------------------------
(* Channels *)

Channels == [Director -> Channel]

(* Every message of g was in f, or is m, sent on d's socket. *)
OnlyNew(f, g, d, m) ==
  \A e \in Director : \A n \in 1 .. Len(g[e]) :
    \/ \E k \in 1 .. Len(f[e]) : g[e][n] = f[e][k]
    \/ e = d /\ g[e][n] = m

NothingNew(f, g) ==
  \A e \in Director : \A n \in 1 .. Len(g[e]) : \E k \in 1 .. Len(f[e]) : g[e][n] = f[e][k]

LEMMA Taken ==
  ASSUME NEW f \in Channels, NEW g, NEW d \in Director, f[d] # <<>>,
         \E k \in Prefixes(f[d]) : g = [f EXCEPT ![d] = Rest(@, k)]
  PROVE  g \in Channels /\ NothingNew(f, g)
<1>1. PICK k \in 1 .. Len(f[d]) : g = [f EXCEPT ![d] = Rest(@, k)]
  <2>1. f[d] \in Seq(Message)
    BY DEF Channels, Channel
  <2>2. Len(f[d]) \in Nat \ {0}
    BY <2>1
  <2>3. Prefixes(f[d]) \subseteq 1 .. Len(f[d])
    BY <2>2 DEF Prefixes
  <2> QED
    BY <2>3
<1>2. f[d] \in Seq(Message)
  BY DEF Channels, Channel
<1>3. /\ Rest(f[d], k) \in Seq(Message)
      /\ \A n \in 1 .. Len(Rest(f[d], k)) :
           n + k \in 1 .. Len(f[d]) /\ Rest(f[d], k)[n] = f[d][n + k]
  BY <1>2 DEF Rest
<1>4. g \in Channels
  BY <1>1, <1>3 DEF Channels, Channel
<1>5. /\ g[d] = Rest(f[d], k)
      /\ \A e \in Director : e # d => g[e] = f[e]
  BY <1>1 DEF Channels
<1>6. ASSUME NEW e \in Director, NEW n \in 1 .. Len(g[e])
      PROVE  \E j \in 1 .. Len(f[e]) : g[e][n] = f[e][j]
  <2>1. CASE e = d
    BY <1>3, <1>5, <2>1
  <2>2. CASE e # d
    BY <1>5, <2>2
  <2> QED
    BY <2>1, <2>2
<1> QED
  BY <1>4, <1>6 DEF NothingNew

LEMMA Sent ==
  ASSUME NEW f \in Channels, NEW g, NEW d \in Director, NEW m \in Message,
         g = [f EXCEPT ![d] = Append(@, m)]
  PROVE  g \in Channels /\ OnlyNew(f, g, d, m)
<1>1. f[d] \in Seq(Message)
  BY DEF Channels, Channel
<1>2. /\ Append(f[d], m) \in Seq(Message)
      /\ \A n \in 1 .. Len(Append(f[d], m)) :
           \/ n \in 1 .. Len(f[d]) /\ Append(f[d], m)[n] = f[d][n]
           \/ Append(f[d], m)[n] = m
  BY <1>1
<1>3. g \in Channels
  BY <1>2 DEF Channels, Channel
<1>4. /\ g[d] = Append(f[d], m)
      /\ \A e \in Director : e # d => g[e] = f[e]
  BY DEF Channels
<1>5. OnlyNew(f, g, d, m)
  BY <1>2, <1>4 DEF OnlyNew
<1> QED
  BY <1>3, <1>5

LEMMA HeadIsMessage ==
  ASSUME NEW f \in Channels, NEW d \in Director, f[d] # <<>>
  PROVE  Head(f[d]) \in Message /\ 1 \in 1 .. Len(f[d]) /\ Head(f[d]) = f[d][1]
<1>1. f[d] \in Seq(Message)
  BY DEF Channels, Channel
<1> QED
  BY <1>1

LEMMA MsgType ==
  ASSUME NEW t \in {"ID", "PLAY", "STARTED", "STOPPED", "QUITED", "start", "stop", "quit"},
         NEW i \in Nat, NEW p \in Play \union {NONE}
  PROVE  /\ Msg(t, i, p) \in Message
         /\ Msg(t, i, p).type = t /\ Msg(t, i, p).id = i /\ Msg(t, i, p).name = p
BY DEF Msg, Message

-----------------------------------------------------------------------------
(* The inductive invariant, by the variables its parts speak of *)

Control ==
  /\ env \in SUBSET Event /\ starts \in Nat /\ stops \in Nat
  /\ prod \in {"running", "stopped", "crashed"}
  /\ ui \in BOOLEAN /\ quitting \in BOOLEAN

IdTypes ==
  /\ next_id \in Nat \ {0}
  /\ DOMAIN id_socket_map \subseteq 1 .. next_id - 1
  /\ \A i \in DOMAIN id_socket_map : id_socket_map[i] \in Director
  /\ backlog \in Seq(Director)
  /\ reader \in [Director -> {"none", "open", "closed"}]
  /\ reader_id \in [Director -> 0 .. next_id - 1]
  /\ director_id \in [Director -> 0 .. next_id - 1]
  /\ phase \in [Director -> {"down", "up", "gone", "orphan"}]

(* Who is who: an id belongs to one reader, the socket it maps to is that   *)
(* of the reader, a reader that is open has its id in the map, a director   *)
(* knows no other id than its reader's, and whoever waits to be accepted    *)
(* waits once and has no reader yet.                                        *)
Identity ==
  /\ IdTypes
  /\ \A i \in DOMAIN id_socket_map : reader_id[id_socket_map[i]] = i
  /\ \A d \in Director :
       /\ reader[d] = "none" <=> reader_id[d] = 0
       /\ reader[d] = "open" =>
            reader_id[d] \in DOMAIN id_socket_map /\ id_socket_map[reader_id[d]] = d
       /\ director_id[d] = 0 \/ director_id[d] = reader_id[d]
       /\ phase[d] = "down" => reader[d] = "none"
  /\ \A n \in 1 .. Len(backlog) : reader[backlog[n]] = "none" /\ phase[backlog[n]] # "down"
  /\ \A n, k \in 1 .. Len(backlog) : n # k => backlog[n] # backlog[k]

(* What is on its way: to the producer, a play its sender has, under the    *)
(* sender's id, and a [QUITED] under that id or none; to a director, its    *)
(* own id, and the name of a play it has.                                   *)
WellAddressed(d, m) ==
  /\ m.type = "PLAY" => m.id = reader_id[d] /\ reader_id[d] # 0 /\ m.name \in PlaysOf(d)
  /\ m.type = "QUITED" => m.id = 0 \/ m.id = reader_id[d]

ToldRight(d, m) ==
  /\ m.type = "ID" => m.id = reader_id[d] /\ reader_id[d] # 0
  /\ m.type \in {"start", "stop"} => m.name \in PlaysOf(d)

Transit ==
  /\ toProd \in Channels /\ toDir \in Channels
  /\ \A d \in Director : \A n \in 1 .. Len(toProd[d]) : WellAddressed(d, toProd[d][n])
  /\ \A d \in Director : \A n \in 1 .. Len(toDir[d]) : ToldRight(d, toDir[d][n])

Menus ==
  /\ MenuType(menu)
  /\ DOMAIN menu \subseteq DOMAIN id_socket_map
  /\ \A i \in DOMAIN menu : menu[i].plays \subseteq PlaysOf(id_socket_map[i])
  /\ DOMAIN shown = Offered(menu)

Stages ==
  /\ play \in [Director -> [name: Play \union {NONE}, finished: BOOLEAN]]
  /\ starting \in [Director -> Play \union {NONE}]
  /\ ghosts \in [Director -> Nat]
  /\ outOfTurn \in BOOLEAN

Inv == Control /\ Identity /\ Transit /\ Menus /\ Stages

LEMMA InvImplies ==
  ASSUME Inv
  PROVE  TypeOK /\ MenuHasSocket /\ RecordsBelong /\ IndexMatchesMenu
<1>1. MenuHasSocket /\ IndexMatchesMenu
  BY DEF Inv, Menus, MenuHasSocket, IndexMatchesMenu
<1>2. RecordsBelong
  BY DEF Inv, Menus, Transit, ToldRight, RecordsBelong
<1>3. DOMAIN shown \subseteq Play
  BY ShownLists DEF Inv, Menus
<1>4. TypeOK
  BY <1>3 DEF Inv, Control, Identity, IdTypes, Transit, Menus, MenuType, Stages, TypeOK,
     Channels
<1> QED
  BY <1>1, <1>2, <1>4

LEMMA InvInit == Init => Inv
<1> SUFFICES ASSUME Init PROVE Inv
  OBVIOUS
<1> USE DEF Init
<1>1. Control
  BY TheatreAssumption DEF Control
<1>2. Identity
  <2>1. /\ reader \in [Director -> {"none", "open", "closed"}]
        /\ phase \in [Director -> {"down", "up", "gone", "orphan"}]
    OBVIOUS
  <2>2. reader_id \in [Director -> 0 .. next_id - 1] /\ director_id \in [Director -> 0 .. next_id - 1]
    BY DEF NONE
  <2>3. DOMAIN id_socket_map = {} /\ Len(backlog) = 0 /\ backlog \in Seq(Director)
    OBVIOUS
  <2>4. IdTypes
    BY <2>1, <2>2, <2>3 DEF IdTypes
  <2> QED
    BY <2>3, <2>4 DEF Identity, NONE
<1>3. Transit
  BY DEF Transit, Channels, Channel
<1>4. Menus
  BY DEF Menus, MenuType, Offered
<1>5. Stages
  BY DEF Stages, NoPlay
<1> QED
  BY <1>1, <1>2, <1>3, <1>4, <1>5 DEF Inv

-----------------------------------------------------------------------------
(* Messages on their way *)

LEMMA TransitKept ==
  ASSUME Transit, UNCHANGED reader_id, toProd' \in Channels, toDir' \in Channels,
         \A e \in Director : \A n \in 1 .. Len(toProd'[e]) :
           \/ \E k \in 1 .. Len(toProd[e]) : toProd'[e][n] = toProd[e][k]
           \/ WellAddressed(e, toProd'[e][n]),
         \A e \in Director : \A n \in 1 .. Len(toDir'[e]) :
           \/ \E k \in 1 .. Len(toDir[e]) : toDir'[e][n] = toDir[e][k]
           \/ ToldRight(e, toDir'[e][n])
  PROVE  Transit'
BY DEF Transit, WellAddressed, ToldRight

LEMMA SendDirSends ==
  ASSUME Transit, NEW d \in Director, NEW m \in Message, SendDir(d, m)
  PROVE  toDir' \in Channels /\ OnlyNew(toDir, toDir', d, m)
<1>1. CASE toDir' = toDir
  BY <1>1 DEF Transit, OnlyNew
<1>2. CASE toDir' = [toDir EXCEPT ![d] = Append(@, m)]
  BY <1>2, Sent DEF Transit
<1> QED
  BY <1>1, <1>2 DEF SendDir

LEMMA SendProdSends ==
  ASSUME Transit, NEW d \in Director, NEW m \in Message, SendProd(d, m)
  PROVE  toProd' \in Channels /\ OnlyNew(toProd, toProd', d, m)
BY Sent DEF Transit, SendProd

LEMMA TakenProd ==
  ASSUME Transit, NEW d \in Director, toProd[d] # <<>>, TakeFrom(toProd, d)
  PROVE  toProd' \in Channels /\ NothingNew(toProd, toProd')
BY Taken DEF TakeFrom, Transit

LEMMA TakenDir ==
  ASSUME Transit, NEW d \in Director, toDir[d] # <<>>, TakeFrom(toDir, d)
  PROVE  toDir' \in Channels /\ NothingNew(toDir, toDir')
BY Taken DEF TakeFrom, Transit

(* A reader's recv. *)
LEMMA ReadTransit ==
  ASSUME Transit, NEW d \in Director, NEW t, Reads(d, t), UNCHANGED toDir
  PROVE  Transit'
<1>1. toProd' \in Channels /\ NothingNew(toProd, toProd')
  BY TakenProd DEF Reads, Parsed
<1>2. UNCHANGED reader_id
  BY DEF Reads
<1> QED
  BY <1>1, <1>2, TransitKept DEF NothingNew, Transit

(* A director sends one message of its own accord. *)
LEMMA SpeakTransit ==
  ASSUME Transit, NEW d \in Director, NEW m \in Message, SendProd(d, m), WellAddressed(d, m),
         UNCHANGED <<toDir, reader_id>>
  PROVE  Transit'
<1>1. toProd' \in Channels /\ OnlyNew(toProd, toProd', d, m)
  BY SendProdSends
<1> QED
  BY <1>1, TransitKept DEF OnlyNew, Transit

(* A director's recv, with or without an answer. *)
LEMMA ReceiveTransit ==
  ASSUME Transit, NEW d \in Director, NEW t, Receives(d, t),
         \/ UNCHANGED toProd
         \/ \E m \in Message : SendProd(d, m) /\ WellAddressed(d, m)
  PROVE  Transit'
<1>1. toDir' \in Channels /\ NothingNew(toDir, toDir')
  BY TakenDir DEF Receives, Parsed
<1>2. UNCHANGED reader_id
  BY DEF Receives, prodVars
<1>3. CASE UNCHANGED toProd
  BY <1>1, <1>2, <1>3, TransitKept DEF NothingNew, Transit
<1>4. ASSUME NEW m \in Message, SendProd(d, m), WellAddressed(d, m)
      PROVE  Transit'
  <2>1. toProd' \in Channels /\ OnlyNew(toProd, toProd', d, m)
    BY <1>4, SendProdSends
  <2> QED
    BY <1>1, <1>2, <1>4, <2>1, TransitKept DEF NothingNew, OnlyNew, Transit
<1> QED
  BY <1>3, <1>4

-----------------------------------------------------------------------------
(* One step: the producer *)

USE DEF vars, prodVars, dirVars, userVars

LEMMA SameIdentity ==
  ASSUME Identity,
         UNCHANGED <<next_id, id_socket_map, backlog, reader, reader_id, director_id, phase>>
  PROVE  Identity'
BY DEF Identity, IdTypes

LEMMA AcceptStep ==
  ASSUME Inv, Accept
  PROVE  Inv'
<1> DEFINE d == Head(backlog)
<1> USE DEF Inv
<1>1. /\ backlog \in Seq(Director) /\ backlog # <<>>
      /\ d \in Director /\ reader[d] = "none" /\ phase[d] # "down"
      /\ \A n \in 1 .. Len(backlog) - 1 : n + 1 \in 1 .. Len(backlog) /\ Tail(backlog)[n] = backlog[n + 1]
      /\ Len(Tail(backlog)) = Len(backlog) - 1 /\ Tail(backlog) \in Seq(Director)
      /\ 1 \in 1 .. Len(backlog) /\ d = backlog[1]
  BY DEF Accept, Identity, IdTypes
<1>2. reader_id[d] = 0 /\ director_id[d] = 0
  BY <1>1 DEF Identity
<1>3. /\ next_id \in Nat \ {0} /\ next_id' = next_id + 1
      /\ next_id \notin DOMAIN id_socket_map
  BY DEF Accept, Identity, IdTypes
<1>4. /\ DOMAIN id_socket_map' = DOMAIN id_socket_map \union {next_id}
      /\ id_socket_map'[next_id] = d
      /\ \A i \in DOMAIN id_socket_map : id_socket_map'[i] = id_socket_map[i]
  BY <1>3 DEF Accept
<1>5. /\ reader'[d] = "open" /\ reader_id'[d] = next_id
      /\ \A e \in Director : e # d => reader'[e] = reader[e] /\ reader_id'[e] = reader_id[e]
      /\ reader' \in [Director -> {"none", "open", "closed"}]
      /\ reader_id' \in [Director -> 0 .. next_id' - 1]
  BY <1>1, <1>3 DEF Accept, Identity, IdTypes
<1>6. IdTypes'
  BY <1>1, <1>3, <1>4, <1>5 DEF Accept, Identity, IdTypes
<1>7. Identity'
  <2>1. \A i \in DOMAIN id_socket_map' : reader_id'[id_socket_map'[i]] = i
    BY <1>1, <1>2, <1>3, <1>4, <1>5 DEF Identity, IdTypes
  <2>2. ASSUME NEW e \in Director
        PROVE  /\ reader'[e] = "none" <=> reader_id'[e] = 0
               /\ reader'[e] = "open" =>
                    reader_id'[e] \in DOMAIN id_socket_map' /\ id_socket_map'[reader_id'[e]] = e
               /\ director_id'[e] = 0 \/ director_id'[e] = reader_id'[e]
               /\ phase'[e] = "down" => reader'[e] = "none"
    <3>1. CASE e = d
      BY <1>1, <1>2, <1>3, <1>4, <1>5, <3>1 DEF Accept
    <3>2. CASE e # d
      BY <1>4, <1>5, <3>2 DEF Accept, Identity
    <3> QED
      BY <3>1, <3>2
  <2>3. \A n \in 1 .. Len(backlog') :
          reader'[backlog'[n]] = "none" /\ phase'[backlog'[n]] # "down"
    BY <1>1, <1>5 DEF Accept, Identity, IdTypes
  <2>4. \A n, k \in 1 .. Len(backlog') : n # k => backlog'[n] # backlog'[k]
    BY <1>1 DEF Accept, Identity, IdTypes
  <2> QED
    BY <1>6, <2>1, <2>2, <2>3, <2>4 DEF Identity
<1>8. Transit'
  <2>1. ASSUME NEW e \in Director, NEW m, WellAddressed(e, m) PROVE WellAddressed(e, m)'
    BY <1>2, <1>5, <2>1 DEF WellAddressed
  <2>2. ASSUME NEW e \in Director, NEW m, ToldRight(e, m) PROVE ToldRight(e, m)'
    BY <1>2, <1>5, <2>2 DEF ToldRight
  <2> QED
    BY <2>1, <2>2 DEF Transit, Accept
<1>9. Menus'
  BY <1>3, <1>4 DEF Menus, Accept
<1> QED
  BY <1>7, <1>8, <1>9 DEF Accept, Control, Stages

LEMMA ReadStep ==
  ASSUME Inv, NEW d \in Director, Reader(d)
  PROVE  Inv'
<1> USE DEF Inv
<1>0. reader_id[d] \in Nat
  BY DEF Identity, IdTypes
<1>1. CASE ReadId(d)
  <2>1. reader[d] = "open" /\ reader_id[d] # 0
    BY <1>1 DEF ReadId, Reads, Identity
  <2> DEFINE m == Msg("ID", OwnId(d), NONE)
  <2>2. m \in Message /\ ToldRight(d, m)
    BY <1>0, <2>1, MsgType DEF ToldRight, OwnId
  <2>3. toProd' \in Channels /\ NothingNew(toProd, toProd')
    BY <1>1, TakenProd DEF ReadId, Reads, Parsed
  <2>4. toDir' \in Channels /\ OnlyNew(toDir, toDir', d, m)
    BY <1>1, <2>2, SendDirSends DEF ReadId
  <2>5. UNCHANGED reader_id
    BY <1>1 DEF ReadId, Reads
  <2> HIDE DEF m
  <2>6. Transit'
    BY <2>2, <2>3, <2>4, <2>5, TransitKept DEF NothingNew, OnlyNew
  <2> QED
    BY <1>1, <2>6 DEF ReadId, Reads, Control, Identity, IdTypes, Menus, Stages
<1>2. CASE ReadPlay(d)
  <2> DEFINE m == Head(toProd[d])
  <2>1. /\ m \in Message /\ m.type = "PLAY" /\ WellAddressed(d, m)
        /\ reader[d] = "open"
    BY <1>2, HeadIsMessage DEF ReadPlay, Reads, Parsed, Transit
  <2>2. /\ m.id = reader_id[d] /\ m.id \in DOMAIN id_socket_map /\ id_socket_map[m.id] = d
        /\ m.name \in PlaysOf(d) /\ m.name \in Play
    <3>1. Repertoire[d] \in Seq(Play)
      BY TheatreAssumption
    <3>2. PlaysOf(d) \subseteq Play
      BY <3>1 DEF PlaysOf
    <3> QED
      BY <2>1, <3>2 DEF WellAddressed, Identity
  <2>3. menu' = reg_play(menu, m.name, m.id) /\ shown' = Shown(menu') /\ UNCHANGED id_socket_map
    BY <1>2 DEF ReadPlay
  <2> HIDE DEF m
  <2>4. /\ MenuType(menu')
        /\ DOMAIN menu' = DOMAIN menu \union {m.id}
        /\ \A i \in DOMAIN menu \union {m.id} : \A q \in menu'[i].plays :
             (i \in DOMAIN menu /\ q \in menu[i].plays) \/ (i = m.id /\ q = m.name)
    <3> DEFINE n == reg_play(menu, m.name, m.id)
    <3>1. /\ MenuType(n) /\ DOMAIN n = DOMAIN menu \union {m.id}
          /\ \A i \in DOMAIN menu \union {m.id} : \A q \in n[i].plays :
               (i \in DOMAIN menu /\ q \in menu[i].plays) \/ (i = m.id /\ q = m.name)
      <4>1. MenuType(menu) /\ m.name \in Play
        BY <2>2 DEF Menus
      <4> QED
        BY <4>1, RegPlayAdds, Zenon
    <3>2. menu' = n
      BY <2>3
    <3> QED
      BY <3>1, <3>2, Zenon
  <2>5. Menus'
    BY <2>2, <2>3, <2>4, ShownLists DEF Menus
  <2>6. Transit'
    BY <1>2, ReadTransit DEF ReadPlay
  <2> QED
    BY <1>2, <2>5, <2>6 DEF ReadPlay, Reads, Control, Identity, IdTypes, Stages
<1>3. CASE ReadStarted(d)
  <2>1. MenuType(menu') /\ SamePlays(menu, menu')
    BY <1>3, SetStatusKeeps DEF ReadStarted, set_busy_with_id, Menus, Status
  <2>2. Offered(menu') = Offered(menu)
    BY <2>1, SamePlaysOffered
  <2>3. Menus'
    BY <1>3, <2>1, <2>2 DEF ReadStarted, Menus, SamePlays
  <2>4. Transit'
    BY <1>3, ReadTransit DEF ReadStarted
  <2> QED
    BY <1>3, <2>3, <2>4 DEF ReadStarted, Reads, Control, Identity, IdTypes, Stages
<1>4. CASE ReadStopped(d)
  <2>1. MenuType(menu') /\ SamePlays(menu, menu')
    BY <1>4, SetStatusKeeps DEF ReadStopped, set_idle_with_id, Menus, Status
  <2>2. DOMAIN shown' = Offered(menu')
    BY <1>4, <2>1, ShownLists DEF ReadStopped
  <2>3. Menus'
    BY <1>4, <2>1, <2>2 DEF ReadStopped, Menus, SamePlays
  <2>4. Transit'
    BY <1>4, ReadTransit DEF ReadStopped
  <2> QED
    BY <1>4, <2>3, <2>4 DEF ReadStopped, Reads, Control, Identity, IdTypes, Stages
<1>5. CASE ReadQuited(d)
  <2> DEFINE i == Head(toProd[d]).id
  <2>1. WellAddressed(d, Head(toProd[d])) /\ Head(toProd[d]).type = "QUITED"
    BY <1>5, HeadIsMessage DEF ReadQuited, Reads, Parsed, Transit
  <2>2. i = reader_id[d] /\ i \in DOMAIN id_socket_map
    <3>1. 0 \notin DOMAIN id_socket_map
      BY DEF Identity, IdTypes
    <3> QED
      BY <1>5, <2>1, <3>1 DEF ReadQuited, WellAddressed
  <2>3. /\ menu' = clean_with_id(menu, i) /\ shown' = Shown(menu')
        /\ DOMAIN id_socket_map' = DOMAIN id_socket_map \ {i}
        /\ \A j \in DOMAIN id_socket_map \ {i} : id_socket_map'[j] = id_socket_map[j]
        /\ reader' = [reader EXCEPT ![d] = "closed"]
        /\ UNCHANGED <<next_id, backlog, reader_id, director_id, phase>>
        /\ UNCHANGED <<env, starts, stops, prod, ui, quitting>>
        /\ UNCHANGED <<play, starting, ghosts, outOfTurn>>
    BY <1>5 DEF ReadQuited, Reads
  <2>4. reader[d] = "open"
    BY <1>5 DEF ReadQuited, Reads
  <2>5. Transit'
    BY <1>5, ReadTransit DEF ReadQuited
  <2> HIDE DEF i
  <2>6. Menus'
    <3>1. /\ MenuType(menu') /\ DOMAIN menu' = DOMAIN menu \ {i}
          /\ \A j \in DOMAIN menu \ {i} : menu'[j] = menu[j]
      BY <2>3, CleanRemoves DEF Menus
    <3> QED
      BY <2>3, <3>1, ShownLists DEF Menus
  <2>7. IdTypes'
    BY <2>3 DEF Identity, IdTypes
  <2>8. /\ reader'[d] = "closed" /\ \A e \in Director : e # d => reader'[e] = reader[e]
    BY <2>3 DEF Identity, IdTypes
  <2>9. ASSUME NEW e \in Director
        PROVE  /\ reader'[e] = "none" <=> reader_id'[e] = 0
               /\ reader'[e] = "open" =>
                    reader_id'[e] \in DOMAIN id_socket_map' /\ id_socket_map'[reader_id'[e]] = e
               /\ director_id'[e] = 0 \/ director_id'[e] = reader_id'[e]
               /\ phase'[e] = "down" => reader'[e] = "none"
    <3>1. CASE e = d
      BY <2>3, <2>4, <2>8, <3>1 DEF Identity
    <3>2. CASE e # d
      <4>1. reader[e] = "open" => reader_id[e] # i
        BY <2>2, <2>4, <3>2 DEF Identity
      <4> QED
        BY <2>3, <2>8, <3>2, <4>1 DEF Identity
    <3> QED
      BY <3>1, <3>2
  <2>10. \A n \in 1 .. Len(backlog') :
           reader'[backlog'[n]] = "none" /\ phase'[backlog'[n]] # "down"
    BY <2>3, <2>4, <2>8 DEF Identity, IdTypes
  <2>11. Identity'
    BY <2>3, <2>7, <2>9, <2>10 DEF Identity
  <2> QED
    BY <2>3, <2>5, <2>6, <2>11 DEF Control, Stages
<1>6. CASE ReadQuitedUnknown(d)
  BY <1>6 DEF ReadQuitedUnknown, Control, Identity, IdTypes, Transit, WellAddressed,
     ToldRight, Menus, Stages
<1>7. CASE ReadEOF(d)
  <2>1. /\ reader' = [reader EXCEPT ![d] = "closed"] /\ reader[d] = "open"
    BY <1>7 DEF ReadEOF
  <2>2. Identity'
    BY <1>7, <2>1 DEF ReadEOF, Identity, IdTypes
  <2> QED
    BY <1>7, <2>2 DEF ReadEOF, Control, Transit, WellAddressed, ToldRight, Menus, Stages
<1> QED
  BY <1>1, <1>2, <1>3, <1>4, <1>5, <1>6, <1>7 DEF Reader

(* A command finds a director in the menu: its id has a socket, and the     *)
(* play is one of that director's.                                          *)
LEMMA CommandFinds ==
  ASSUME Inv, NEW s, NEW p, PopId(menu, s, p) # NONE
  PROVE  /\ PopId(menu, s, p) \in DOMAIN menu
         /\ id_socket_map[PopId(menu, s, p)] \in Director
         /\ p \in PlaysOf(id_socket_map[PopId(menu, s, p)])
         /\ p \in Play
<1>1. DOMAIN menu \subseteq Nat
  BY DEF Inv, Menus, Identity, IdTypes
<1>2. PopId(menu, s, p) \in DOMAIN menu /\ p \in menu[PopId(menu, s, p)].plays
  BY <1>1, PopFinds
<1> QED
  BY <1>2 DEF Inv, Menus, MenuType, Record, Identity, IdTypes

(* The message of a command is on its way. *)
LEMMA CommandTransit ==
  ASSUME Transit, NEW d \in Director, NEW t \in {"start", "stop"}, NEW p \in Play,
         p \in PlaysOf(d), SendDir(d, Msg(t, NONE, p)), UNCHANGED <<toProd, reader_id>>
  PROVE  Transit'
<1> DEFINE m == Msg(t, NONE, p)
<1>1. m \in Message /\ ToldRight(d, m)
  BY MsgType DEF ToldRight, NONE
<1>2. toDir' \in Channels /\ OnlyNew(toDir, toDir', d, m)
  BY <1>1, SendDirSends
<1> HIDE DEF m
<1> QED
  BY <1>1, <1>2, TransitKept DEF OnlyNew, Transit

LEMMA QuitAllTransit ==
  ASSUME Transit, SendQuitAll, UNCHANGED <<toProd, reader_id>>
  PROVE  Transit'
<1> DEFINE m == Msg("quit", NONE, NONE)
<1>1. m \in Message /\ \A d \in Director : ToldRight(d, m)
  BY MsgType DEF ToldRight, NONE
<1>2. ASSUME NEW d \in Director
      PROVE  /\ toDir'[d] \in Channel
             /\ \A n \in 1 .. Len(toDir'[d]) :
                  \/ \E k \in 1 .. Len(toDir[d]) : toDir'[d][n] = toDir[d][k]
                  \/ toDir'[d][n] = m
  <2>1. toDir[d] \in Seq(Message)
    BY DEF Transit, Channels, Channel
  <2>2. toDir'[d] = toDir[d] \/ toDir'[d] = Append(toDir[d], m)
    BY DEF SendQuitAll
  <2> HIDE DEF m
  <2> QED
    BY <1>1, <2>1, <2>2 DEF Channel
<1>3. toDir' \in Channels
  BY <1>2 DEF SendQuitAll, Channels
<1> HIDE DEF m
<1> QED
  BY <1>1, <1>2, <1>3, TransitKept DEF Transit

LEMMA UserStep ==
  ASSUME Inv, User \/ WaitForQuit
  PROVE  Inv'
<1> USE DEF Inv
<1>1. ASSUME NEW k \in Offset, UiStart(k) PROVE Inv'
  <2> DEFINE p == PlayAt(shown, k)
             id == pop_avaliable(menu, p)
  <2>1. CASE p = NONE \/ id = NONE
    BY <1>1, <2>1 DEF UiStart, Control, Identity, IdTypes, Transit, WellAddressed, ToldRight,
       Menus, Stages
  <2>2. CASE ~(p = NONE \/ id = NONE)
    <3>1. /\ id \in DOMAIN menu /\ id_socket_map[id] \in Director
          /\ p \in PlaysOf(id_socket_map[id]) /\ p \in Play
      BY <2>2, CommandFinds DEF pop_avaliable
    <3>2. /\ menu' = SetUnclear(menu, id) /\ shown' = Shown(menu')
          /\ SendDir(id_socket_map[id], Msg("start", NONE, p))
      BY <1>1, <2>2 DEF UiStart
    <3> HIDE DEF p, id
    <3>3. MenuType(menu') /\ SamePlays(menu, menu')
      BY <3>1, <3>2, SetUnclearKeeps DEF Menus
    <3>4. DOMAIN shown' = Offered(menu')
      BY <3>2, <3>3, ShownLists
    <3>5. Menus'
      BY <1>1, <3>3, <3>4 DEF UiStart, Menus, SamePlays
    <3>6. Transit'
      BY <1>1, <3>1, <3>2, CommandTransit DEF UiStart
    <3> QED
      BY <1>1, <3>5, <3>6 DEF UiStart, Control, Identity, IdTypes, Stages
  <2> QED
    BY <2>1, <2>2
<1>2. ASSUME NEW k \in Offset, UiStop(k) PROVE Inv'
  <2> DEFINE p == PlayAt(shown, k)
             id == pop_busy_play(menu, p)
  <2>1. CASE p = NONE \/ id = NONE
    BY <1>2, <2>1 DEF UiStop, Control, Identity, IdTypes, Transit, WellAddressed, ToldRight,
       Menus, Stages
  <2>2. CASE ~(p = NONE \/ id = NONE)
    <3>1. /\ id \in DOMAIN menu /\ id_socket_map[id] \in Director
          /\ p \in PlaysOf(id_socket_map[id]) /\ p \in Play
      BY <2>2, CommandFinds DEF pop_busy_play
    <3>2. /\ menu' = SetUnclear(menu, id) /\ UNCHANGED shown
          /\ SendDir(id_socket_map[id], Msg("stop", NONE, p))
      BY <1>2, <2>2 DEF UiStop
    <3> HIDE DEF p, id
    <3>3. MenuType(menu') /\ SamePlays(menu, menu')
      BY <3>1, <3>2, SetUnclearKeeps DEF Menus
    <3>4. Offered(menu') = Offered(menu)
      BY <3>3, SamePlaysOffered
    <3>5. Menus'
      BY <1>2, <3>2, <3>3, <3>4 DEF UiStop, Menus, SamePlays
    <3>6. Transit'
      BY <1>2, <3>1, <3>2, CommandTransit DEF UiStop
    <3> QED
      BY <1>2, <3>5, <3>6 DEF UiStop, Control, Identity, IdTypes, Stages
  <2> QED
    BY <2>1, <2>2
<1>3. ASSUME NEW k \in Offset, UiPastEnd(k) PROVE Inv'
  BY <1>3 DEF UiPastEnd, Control, Identity, IdTypes, Transit, WellAddressed, ToldRight,
     Menus, Stages
<1>4. CASE UiQuit \/ ProducerSigint
  <2>1. Transit'
    BY <1>4, QuitAllTransit DEF UiQuit, ProducerSigint
  <2>2. Control'
    BY <1>4 DEF UiQuit, ProducerSigint, Control
  <2>3. UNCHANGED <<menu, shown, id_socket_map, next_id, backlog, reader, reader_id>>
        /\ UNCHANGED <<phase, director_id, play, starting, ghosts, outOfTurn>>
    BY <1>4 DEF UiQuit, ProducerSigint
  <2>4. Identity' /\ Menus' /\ Stages'
    BY <2>3, SameIdentity DEF Menus, Stages
  <2> QED
    BY <2>1, <2>2, <2>4
<1>5. CASE WaitForQuit
  <2>1. Control'
    BY <1>5 DEF WaitForQuit, Control
  <2>2. UNCHANGED <<menu, shown, id_socket_map, next_id, backlog, reader, reader_id>>
        /\ UNCHANGED <<phase, director_id, play, starting, ghosts, outOfTurn, toProd, toDir>>
    BY <1>5 DEF WaitForQuit
  <2>3. Identity' /\ Menus' /\ Stages'
    BY <2>2, SameIdentity DEF Menus, Stages
  <2>4. Transit'
    BY <2>2 DEF Transit, WellAddressed, ToldRight
  <2> QED
    BY <2>1, <2>3, <2>4
<1> QED
  BY <1>1, <1>2, <1>3, <1>4, <1>5 DEF User

-----------------------------------------------------------------------------
(* One step: the directors *)

(* A director never goes back to "down". *)
LEMMA PhaseIdentity ==
  ASSUME Identity, NEW d \in Director, phase[d] # "down",
         NEW f \in {"gone", "orphan"}, phase' = [phase EXCEPT ![d] = f],
         UNCHANGED <<next_id, id_socket_map, backlog, reader, reader_id, director_id>>
  PROVE  Identity'
<1>1. /\ phase' \in [Director -> {"down", "up", "gone", "orphan"}]
      /\ \A e \in Director : phase'[e] = "down" <=> phase[e] = "down"
  BY DEF Identity, IdTypes
<1>2. IdTypes'
  BY <1>1 DEF Identity, IdTypes
<1> QED
  BY <1>1, <1>2 DEF Identity, IdTypes

(* What a director says of itself: [STARTED], [STOPPED] and [QUITED] under  *)
(* the id it has.                                                           *)
LEMMA OwnWord ==
  ASSUME Inv, NEW d \in Director, NEW t \in {"STARTED", "STOPPED", "QUITED"}
  PROVE  Msg(t, director_id[d], NONE) \in Message /\ WellAddressed(d, Msg(t, director_id[d], NONE))
<1>1. director_id[d] \in Nat /\ (director_id[d] = 0 \/ director_id[d] = reader_id[d])
  BY DEF Inv, Identity, IdTypes
<1> QED
  BY <1>1, MsgType DEF WellAddressed

(* The answer to an id: the list of plays under that id. *)
LEMMA ListTransit ==
  ASSUME Inv, NEW d \in Director, ReceiveId(d)
  PROVE  Transit'
<1> DEFINE i == Head(toDir[d]).id
           L == PlayList(d, i)
<1>1. i = reader_id[d] /\ reader_id[d] # 0 /\ i \in Nat
  <2>1. ToldRight(d, Head(toDir[d])) /\ Head(toDir[d]).type = "ID" /\ Head(toDir[d]) \in Message
    BY HeadIsMessage DEF ReceiveId, Receives, Parsed, Inv, Transit
  <2> QED
    BY <2>1 DEF ToldRight, Message
<1>2. Repertoire[d] \in Seq(Play)
  BY TheatreAssumption
<1>3. ASSUME NEW k \in 1 .. Len(Repertoire[d])
      PROVE  /\ Msg("PLAY", i, Repertoire[d][k]) \in Message
             /\ WellAddressed(d, Msg("PLAY", i, Repertoire[d][k]))
  <2>1. Repertoire[d][k] \in Play /\ Repertoire[d][k] \in PlaysOf(d)
    BY <1>2 DEF PlaysOf
  <2> QED
    BY <1>1, <2>1, MsgType DEF WellAddressed
<1>4. /\ Len(L) = Len(Repertoire[d]) /\ L \in Seq(Message)
      /\ \A k \in 1 .. Len(L) : WellAddressed(d, L[k])
  BY <1>2, <1>3 DEF PlayList
<1>5. toProd' = [toProd EXCEPT ![d] = @ \o L]
  BY DEF ReceiveId
<1> HIDE DEF L, i
<1>6. toProd[d] \in Seq(Message) /\ toProd \in [Director -> Seq(Message)]
  BY DEF Inv, Transit, Channels, Channel
<1>7. /\ toProd[d] \o L \in Seq(Message)
      /\ \A n \in 1 .. Len(toProd[d] \o L) :
           \/ n \in 1 .. Len(toProd[d]) /\ (toProd[d] \o L)[n] = toProd[d][n]
           \/ n - Len(toProd[d]) \in 1 .. Len(L)
              /\ (toProd[d] \o L)[n] = L[n - Len(toProd[d])]
  BY <1>4, <1>6
<1>8. /\ toProd'[d] = toProd[d] \o L
      /\ \A e \in Director : e # d => toProd'[e] = toProd[e]
  BY <1>5, <1>6
<1>9. toProd' \in Channels
  BY <1>5, <1>6, <1>7 DEF Channels, Channel
<1>10. ASSUME NEW e \in Director, NEW n \in 1 .. Len(toProd'[e])
       PROVE  \/ \E k \in 1 .. Len(toProd[e]) : toProd'[e][n] = toProd[e][k]
              \/ WellAddressed(e, toProd'[e][n])
  <2>1. CASE e = d
    BY <1>4, <1>7, <1>8, <2>1
  <2>2. CASE e # d
    BY <1>8, <2>2
  <2> QED
    BY <2>1, <2>2
<1>11. toDir' \in Channels /\ NothingNew(toDir, toDir')
  BY TakenDir DEF ReceiveId, Receives, Parsed, Inv
<1>12. UNCHANGED reader_id
  BY DEF ReceiveId, Receives
<1> QED
  BY <1>9, <1>10, <1>11, <1>12, TransitKept DEF NothingNew, Inv

LEMMA SameMenus ==
  ASSUME Menus, UNCHANGED <<menu, shown, id_socket_map>>
  PROVE  Menus'
BY DEF Menus

LEMMA SameTransit ==
  ASSUME Transit, UNCHANGED <<toProd, toDir, reader_id>>
  PROVE  Transit'
BY DEF Transit, WellAddressed, ToldRight

LEMMA DirectorStep ==
  ASSUME Inv, NEW d \in Director, DirectorReactor(d) \/ Outside(d) \/ LastExit(d) \/ GhostExit(d)
  PROVE  Inv'
<1> USE DEF Inv
<1>1. CASE Connect(d)
  <2>1. reader[d] = "none" /\ phase[d] = "down"
    BY <1>1 DEF Connect, Identity
  <2>2. /\ phase' \in [Director -> {"down", "up", "gone", "orphan"}]
        /\ phase'[d] = "up" /\ \A e \in Director : e # d => phase'[e] = phase[e]
    BY <1>1 DEF Connect, Identity, IdTypes
  <2>3. /\ backlog \in Seq(Director) /\ backlog' = Append(backlog, d)
        /\ UNCHANGED <<next_id, id_socket_map, reader, reader_id, director_id>>
    BY <1>1 DEF Connect, Identity, IdTypes
  <2>4. /\ backlog' \in Seq(Director) /\ Len(backlog') = Len(backlog) + 1
        /\ \A n \in 1 .. Len(backlog) : backlog'[n] = backlog[n]
        /\ backlog'[Len(backlog) + 1] = d
    BY <2>3
  <2>5. \A n \in 1 .. Len(backlog) : backlog[n] # d /\ backlog[n] \in Director
    BY <2>1, <2>3 DEF Identity
  <2>6. IdTypes'
    BY <2>2, <2>3, <2>4 DEF Identity, IdTypes
  <2>7. \A n \in 1 .. Len(backlog') :
          reader'[backlog'[n]] = "none" /\ phase'[backlog'[n]] # "down"
    <3>1. ASSUME NEW n \in 1 .. Len(backlog')
          PROVE  reader'[backlog'[n]] = "none" /\ phase'[backlog'[n]] # "down"
      <4>1. CASE n = Len(backlog) + 1
        BY <2>1, <2>2, <2>3, <2>4, <4>1
      <4>2. CASE n \in 1 .. Len(backlog)
        BY <2>2, <2>3, <2>4, <2>5, <4>2 DEF Identity
      <4> QED
        BY <2>3, <2>4, <4>1, <4>2
    <3> QED
      BY <3>1
  <2>8. \A n, k \in 1 .. Len(backlog') : n # k => backlog'[n] # backlog'[k]
    BY <2>3, <2>4, <2>5 DEF Identity
  <2>9. Identity'
    BY <2>1, <2>2, <2>3, <2>6, <2>7, <2>8 DEF Identity
  <2>10. Transit'
    <3>1. Msg("ID", 0, NONE) \in Message /\ WellAddressed(d, Msg("ID", 0, NONE))
      BY MsgType DEF WellAddressed
    <3> QED
      BY <1>1, <3>1, SpeakTransit DEF Connect
  <2> QED
    BY <1>1, <2>9, <2>10, SameMenus DEF Connect, Control, Stages
<1>2. CASE ReceiveId(d)
  <2>1. Head(toDir[d]).id = reader_id[d]
    BY <1>2, HeadIsMessage DEF ReceiveId, Receives, Parsed, Transit, ToldRight
  <2>2. /\ director_id' = [director_id EXCEPT ![d] = reader_id[d]]
        /\ UNCHANGED <<next_id, id_socket_map, backlog, reader, reader_id, phase>>
    BY <1>2, <2>1 DEF ReceiveId, Receives
  <2>3. Identity'
    BY <2>2 DEF Identity, IdTypes
  <2>4. Transit'
    BY <1>2, ListTransit
  <2> QED
    BY <1>2, <2>3, <2>4, SameMenus DEF ReceiveId, Receives, Control, Stages
<1>3. CASE ReceiveStart(d)
  <2>1. Head(toDir[d]).name \in Play \union {NONE}
    BY <1>3, HeadIsMessage DEF ReceiveStart, Receives, Parsed, Transit, Message
  <2>2. Stages'
    BY <1>3, <2>1 DEF ReceiveStart, Stages, Haunt
  <2>3. Transit'
    BY <1>3, ReceiveTransit DEF ReceiveStart
  <2> QED
    BY <1>3, <2>2, <2>3, SameMenus, SameIdentity DEF ReceiveStart, Receives, Control
<1>4. CASE ConfirmStarted(d)
  <2>1. Stages'
    BY <1>4 DEF ConfirmStarted, Stages
  <2>2. Transit'
    BY <1>4, OwnWord, SpeakTransit DEF ConfirmStarted
  <2> QED
    BY <1>4, <2>1, <2>2, SameMenus, SameIdentity DEF ConfirmStarted, Control
<1>5. CASE ReceiveStop(d)
  <2>1. Stages'
    <3>1. UNCHANGED starting
      BY <1>5 DEF ReceiveStop
    <3>2. play' = play \/ play' = [play EXCEPT ![d] = NoPlay]
      BY <1>5 DEF ReceiveStop
    <3>3. NoPlay \in [name: Play \union {NONE}, finished: BOOLEAN]
      BY DEF NoPlay
    <3>4. play' \in [Director -> [name: Play \union {NONE}, finished: BOOLEAN]]
      BY <3>2, <3>3 DEF Stages
    <3>5. ghosts' = ghosts \/ Haunt(d)
      BY <1>5 DEF ReceiveStop
    <3>6. ghosts' \in [Director -> Nat]
      BY <3>5 DEF Stages, Haunt
    <3>7. outOfTurn' \in BOOLEAN
      BY <1>5 DEF ReceiveStop, Stages
    <3> QED
      BY <3>1, <3>4, <3>6, <3>7 DEF Stages
  <2>2. Transit'
    BY <1>5, OwnWord, ReceiveTransit DEF ReceiveStop
  <2> QED
    BY <1>5, <2>1, <2>2, SameMenus, SameIdentity DEF ReceiveStop, Receives, Control
<1>6. CASE ReceiveStopNoPlay(d)
  <2>1. Transit'
    BY <1>6, ReceiveTransit DEF ReceiveStopNoPlay
  <2>2. Identity'
    BY <1>6, PhaseIdentity DEF ReceiveStopNoPlay, Receives
  <2> QED
    BY <1>6, <2>1, <2>2, SameMenus DEF ReceiveStopNoPlay, Receives, Control, Stages
<1>7. CASE ReceiveQuit(d)
  <2>1. Transit'
    BY <1>7, OwnWord, ReceiveTransit DEF ReceiveQuit, Leave
  <2>2. Identity'
    BY <1>7, PhaseIdentity DEF ReceiveQuit, Leave, Receives
  <2> QED
    BY <1>7, <2>1, <2>2, SameMenus DEF ReceiveQuit, Leave, Receives, Control, Stages
<1>8. CASE DirectorSigint(d)
  <2>1. Transit'
    <3>1. CASE phase[d] = "up"
      BY <1>8, <3>1, OwnWord, SpeakTransit DEF DirectorSigint, Leave
    <3>2. CASE phase[d] # "up"
      BY <1>8, <3>2, SameTransit DEF DirectorSigint
    <3> QED
      BY <3>1, <3>2
  <2>2. Identity'
    BY <1>8, PhaseIdentity DEF DirectorSigint, Leave
  <2> QED
    BY <1>8, <2>1, <2>2, SameMenus DEF DirectorSigint, Leave, Control, Stages
<1>9. CASE Crash(d)
  <2>1. Identity'
    BY <1>9, PhaseIdentity DEF Crash
  <2> QED
    BY <1>9, <2>1, SameMenus, SameTransit DEF Crash, Control, Stages
<1>10. CASE ReceiveEOF(d)
  <2>1. Identity'
    BY <1>10, PhaseIdentity DEF ReceiveEOF
  <2> QED
    BY <1>10, <2>1, SameMenus, SameTransit DEF ReceiveEOF, Control, Stages
<1>11. CASE LastExit(d) \/ GhostExit(d)
  <2>1. Stages'
    <3>1. CASE LastExit(d)
      <4>1. /\ play' = [play EXCEPT ![d].finished = TRUE] /\ UNCHANGED <<starting, ghosts>>
            /\ play \in [Director -> [name: Play \union {NONE}, finished: BOOLEAN]]
        BY <3>1 DEF LastExit, Stages
      <4>2. [play[d] EXCEPT !.finished = TRUE] \in [name: Play \union {NONE}, finished: BOOLEAN]
        BY <4>1
      <4>3. play' = [play EXCEPT ![d] = [play[d] EXCEPT !.finished = TRUE]]
        BY <4>1
      <4>4. play' \in [Director -> [name: Play \union {NONE}, finished: BOOLEAN]]
        BY <4>1, <4>2, <4>3
      <4>5. outOfTurn' \in BOOLEAN
        BY <3>1 DEF LastExit
      <4> QED
        BY <4>1, <4>4, <4>5 DEF Stages
    <3>2. CASE GhostExit(d)
      BY <3>2 DEF GhostExit, Stages
    <3> QED
      BY <1>11, <3>1, <3>2
  <2>2. Transit'
    BY <1>11, OwnWord, SpeakTransit DEF LastExit, GhostExit
  <2> QED
    BY <1>11, <2>1, <2>2, SameMenus, SameIdentity DEF LastExit, GhostExit, Control
<1> QED
  BY <1>1, <1>2, <1>3, <1>4, <1>5, <1>6, <1>7, <1>8, <1>9, <1>10, <1>11
     DEF DirectorReactor, Outside

LEMMA InvStep == Inv /\ [Next]_vars => Inv'
<1> SUFFICES ASSUME Inv, [Next]_vars PROVE Inv'
  OBVIOUS
<1>1. CASE UNCHANGED vars
  BY <1>1, SameMenus, SameTransit, SameIdentity DEF Inv, Control, Stages
<1>2. CASE Next
  BY <1>2, AcceptStep, UserStep, ReadStep, DirectorStep DEF Next
<1> QED
  BY <1>1, <1>2

-----------------------------------------------------------------------------
(* Every variable has its type, in every behaviour. *)
THEOREM TypeCorrect == Spec => []TypeOK
<1>1. Inv => TypeOK
  BY InvImplies
<1> QED
  BY <1>1, InvInit, InvStep, PTL DEF Spec

(* The id a command takes from the menu always has a socket to send to.     *)
THEOREM MenuAlwaysHasSocket == Spec => []MenuHasSocket
<1>1. Inv => MenuHasSocket
  BY InvImplies
<1> QED
  BY <1>1, InvInit, InvStep, PTL DEF Spec

(* A record never holds the play of another director, and no director is    *)
(* told to start or stop a play it does not have.                           *)
THEOREM RecordsAlwaysBelong == Spec => []RecordsBelong
<1>1. Inv => RecordsBelong
  BY InvImplies
<1> QED
  BY <1>1, InvInit, InvStep, PTL DEF Spec

(* The user's index always counts the plays the menu holds. *)
THEOREM IndexAlwaysMatchesMenu == Spec => []IndexMatchesMenu
<1>1. Inv => IndexMatchesMenu
  BY InvImplies
<1> QED
  BY <1>1, InvInit, InvStep, PTL DEF Spec

-----------------------------------------------------------------------------
(* The handshake. *)

Commands == {"start", "stop"}
Replies  == {"STARTED", "STOPPED"}

(* What is on its way between the user's command and its confirmation: the  *)
(* command, its execution, or the reply.                                    *)
Tokens(d) ==
  {t \in Commands : InFlight(toDir, d, t)} \union {t \in Replies : InFlight(toProd, d, t)}
    \union (IF starting[d] # NONE THEN {"starting"} ELSE {})

(* No channel holds two messages of type t. *)
Single(ch, d, t) ==
  \A n, k \in 1 .. Len(ch[d]) : ch[d][n].type = t /\ ch[d][k].type = t => n = k

(* Messages of type t are in front of those of type u. *)
Before(ch, d, t, u) ==
  \A n, k \in 1 .. Len(ch[d]) : ch[d][n].type = t /\ ch[d][k].type = u => n < k

(* The tokens that may be under way together: a stop with the [STOPPED] of  *)
(* a play that ended meanwhile, or with the start that is sent after that   *)
(* [STOPPED] has arrived; and a [STOPPED] behind its [STARTED].  A reply    *)
(* bears its sender's id, or the 0 of a director that has none.             *)
FewTokens(d) ==
  /\ "start" \in Tokens(d) => Tokens(d) \subseteq {"start", "stop"}
  /\ "starting" \in Tokens(d) => Tokens(d) \subseteq {"starting"}
  /\ "STARTED" \in Tokens(d) => Tokens(d) \subseteq {"STARTED", "STOPPED"}

InOrder(d) ==
  /\ \A t \in Commands : Single(toDir, d, t)
  /\ \A t \in Replies : Single(toProd, d, t)
  /\ Before(toDir, d, "stop", "start")
  /\ Before(toProd, d, "STARTED", "STOPPED")

OwnReplies(d) ==
  \A n \in 1 .. Len(toProd[d]) :
    toProd[d][n].type \in Replies => toProd[d][n].id \in {0, reader_id[d]}

(* The tokens tell whether the play runs, and whether there is one. *)
TokenFits(d) ==
  /\ "starting" \in Tokens(d) => Running(d)
  /\ Tokens(d) \intersect {"start", "STOPPED"} # {} => ~Running(d)
  /\ Tokens(d) \intersect {"stop", "STARTED"} # {} => play[d] # NoPlay
  /\ Running(d) => play[d].name # NONE

(* And so does the record, unless it is in the gray area.  A director that  *)
(* has no record yet has never played.                                      *)
Recorded(d)  == reader_id[d] \in DOMAIN menu
StatusOf(d)  == menu[reader_id[d]].status

RecordFits(d) ==
  IF Recorded(d)
  THEN /\ StatusOf(d) = "AVAILABLE" => Tokens(d) \subseteq {"stop"} /\ ~Running(d)
       /\ StatusOf(d) = "UNAVAILABLE" => Tokens(d) \subseteq {"STOPPED"} /\ play[d] # NoPlay
  ELSE reader[d] # "closed" => Tokens(d) = {} /\ ~Running(d)

InStep(d) == FewTokens(d) /\ InOrder(d) /\ OwnReplies(d) /\ TokenFits(d) /\ RecordFits(d)

(* No two readers share an id. *)
OwnIds == \A d, e \in Director : reader_id[d] = reader_id[e] /\ reader_id[d] # 0 => d = e

AllInStep == CountsAreTrue /\ \A d \in Director : InStep(d)

HandshakeInv == Inv /\ OwnIds /\ (outOfTurn \/ AllInStep)

LEMMA HandshakeImplies ==
  ASSUME HandshakeInv
  PROVE  HandshakeOnePlay /\ HandshakeAvailable /\ HandshakeStop /\ HandshakeCounts
<1> SUFFICES ASSUME ~outOfTurn
             PROVE  OnePlayAtATime /\ AvailableIsIdle /\ StopFindsPlay /\ CountsAreTrue
  BY DEF HandshakeOnePlay, HandshakeAvailable, HandshakeStop, HandshakeCounts
<1>1. CountsAreTrue /\ \A d \in Director : InStep(d)
  BY DEF HandshakeInv, AllInStep
<1>2. OnePlayAtATime
  BY <1>1 DEF OnePlayAtATime, InStep, TokenFits, Tokens, Commands
<1>3. AvailableIsIdle
  <2> SUFFICES ASSUME NEW i \in DOMAIN menu, menu[i].status = "AVAILABLE",
                      NEW d \in Director, director_id[d] = i
               PROVE  ~Running(d)
    BY DEF AvailableIsIdle
  <2>1. i # 0 /\ (director_id[d] = 0 \/ director_id[d] = reader_id[d])
    BY DEF HandshakeInv, Inv, Menus, Identity, IdTypes
  <2>2. Recorded(d) /\ StatusOf(d) = "AVAILABLE"
    BY <2>1 DEF Recorded, StatusOf
  <2> QED
    BY <1>1, <2>2 DEF InStep, RecordFits
<1>4. StopFindsPlay
  <2> SUFFICES ASSUME NEW d \in Director, InFlight(toDir, d, "stop") PROVE play[d] # NoPlay
    BY DEF StopFindsPlay
  <2> QED
    BY <1>1 DEF InStep, TokenFits, Tokens, Commands
<1> QED
  BY <1>1, <1>2, <1>3, <1>4

LEMMA HandshakeInit == Init => HandshakeInv
<1> SUFFICES ASSUME Init PROVE OwnIds /\ CountsAreTrue /\ \A d \in Director : InStep(d)
  BY InvInit DEF HandshakeInv, AllInStep
<1>0. OwnIds
  BY DEF Init, OwnIds, NONE
<1>1. CountsAreTrue
  <2>1. Offered(menu) = {} /\ shown = << >>
    BY DEF Init, Offered
  <2>2. Shown(menu) = << >>
    BY <2>1 DEF Shown
  <2> QED
    BY <2>1, <2>2 DEF CountsAreTrue
<1>2. ASSUME NEW d \in Director PROVE InStep(d)
  <2>1. toDir[d] = <<>> /\ toProd[d] = <<>> /\ starting[d] = NONE /\ play[d] = NoPlay
    BY DEF Init
  <2>2. Tokens(d) = {}
    BY <2>1 DEF Tokens, InFlight
  <2>3. ~Running(d) /\ ~Recorded(d)
    BY <2>1 DEF Running, NoPlay, Recorded, Init
  <2> QED
    BY <2>1, <2>2, <2>3 DEF InStep, FewTokens, InOrder, Single, Before, OwnReplies, TokenFits,
       RecordFits
<1> QED
  BY <1>0, <1>1, <1>2

LEMMA OwnIdsStep == Inv /\ OwnIds /\ [Next]_vars => OwnIds'
<1> SUFFICES ASSUME Inv, OwnIds, [Next]_vars PROVE OwnIds'
  OBVIOUS
<1>1. CASE Accept
  <2>1. reader_id \in [Director -> 0 .. next_id - 1] /\ next_id \in Nat
    BY DEF Inv, Identity, IdTypes
  <2>2. reader_id' = [reader_id EXCEPT ![Head(backlog)] = next_id]
    BY <1>1 DEF Accept
  <2> QED
    BY <2>1, <2>2 DEF OwnIds
<1>2. CASE ~Accept
  <2>1. ASSUME WaitForQuit \/ User PROVE UNCHANGED reader_id
    BY <2>1 DEF User, UiStart, UiStop, UiPastEnd, UiQuit, ProducerSigint, WaitForQuit
  <2>2. ASSUME NEW d \in Director, Reader(d) PROVE UNCHANGED reader_id
    BY <2>2 DEF Reader, Reads, ReadId, ReadPlay, ReadStarted, ReadStopped, ReadQuited,
       ReadQuitedUnknown, ReadEOF
  <2>3. ASSUME NEW d \in Director, DirectorReactor(d) PROVE UNCHANGED reader_id
    BY <2>3 DEF DirectorReactor, Receives, ReceiveId, ReceiveStart, ConfirmStarted, ReceiveStop,
       ReceiveStopNoPlay, ReceiveQuit, ReceiveEOF
  <2>4. ASSUME NEW d \in Director, Outside(d) \/ LastExit(d) \/ GhostExit(d)
        PROVE  UNCHANGED reader_id
    BY <2>4 DEF Outside, Connect, DirectorSigint, Crash, LastExit, GhostExit
  <2>5. UNCHANGED reader_id
    BY <1>2, <2>1, <2>2, <2>3, <2>4 DEF Next
  <2> QED
    BY <2>5 DEF OwnIds
<1> QED
  BY <1>1, <1>2

-----------------------------------------------------------------------------
(* Tokens in a channel *)

LEMMA TakenTokens ==
  ASSUME NEW f \in Channels, NEW g, NEW d \in Director, f[d] # <<>>,
         \E k \in Prefixes(f[d]) : g = [f EXCEPT ![d] = Rest(@, k)]
  PROVE  /\ \A e \in Director \ {d} : g[e] = f[e]
         /\ \A t : /\ InFlight(g, d, t) => InFlight(f, d, t)
                   /\ Single(f, d, t) => Single(g, d, t)
                   /\ Single(f, d, t) /\ Head(f[d]).type = t => ~InFlight(g, d, t)
         /\ \A t, u : /\ Before(f, d, t, u) => Before(g, d, t, u)
                      /\ Before(f, d, t, u) /\ Head(f[d]).type = u => ~InFlight(f, d, t)
<1>1. f[d] \in Seq(Message) /\ Len(f[d]) \in Nat \ {0}
  <2>1. f[d] \in Seq(Message)
    BY DEF Channels, Channel
  <2> QED
    BY <2>1
<1>2. PICK k \in 1 .. Len(f[d]) : g = [f EXCEPT ![d] = Rest(@, k)]
  <2>1. Prefixes(f[d]) \subseteq 1 .. Len(f[d])
    BY <1>1 DEF Prefixes
  <2> QED
    BY <2>1
<1>3. g[d] = Rest(f[d], k) /\ \A e \in Director \ {d} : g[e] = f[e]
  BY <1>2 DEF Channels
<1>4. /\ Len(g[d]) = Len(f[d]) - k
      /\ \A n \in 1 .. Len(g[d]) : n + k \in 2 .. Len(f[d]) /\ g[d][n] = f[d][n + k]
  <2>1. /\ Len(Rest(f[d], k)) = Len(f[d]) - k
        /\ \A n \in 1 .. Len(Rest(f[d], k)) : Rest(f[d], k)[n] = f[d][n + k]
    BY <1>1 DEF Rest
  <2>2. /\ Len(g[d]) = Len(f[d]) - k
        /\ \A n \in 1 .. Len(g[d]) : g[d][n] = f[d][n + k]
    BY <1>3, <2>1, Zenon
  <2>3. \A n \in 1 .. Len(f[d]) - k : n + k \in 2 .. Len(f[d])
    BY <1>1
  <2> QED
    BY <2>2, <2>3, Zenon
<1>5. Head(f[d]) = f[d][1]
  BY <1>1
<1>6. ASSUME NEW t
      PROVE  /\ InFlight(g, d, t) => InFlight(f, d, t)
             /\ Single(f, d, t) => Single(g, d, t)
             /\ Single(f, d, t) /\ Head(f[d]).type = t => ~InFlight(g, d, t)
  <2>1. InFlight(g, d, t) => InFlight(f, d, t)
    BY <1>1, <1>4 DEF InFlight
  <2>2. Single(f, d, t) => Single(g, d, t)
    <3> SUFFICES ASSUME Single(f, d, t), NEW n \in 1 .. Len(g[d]), NEW j \in 1 .. Len(g[d]),
                        g[d][n].type = t, g[d][j].type = t
                 PROVE  n = j
      BY DEF Single
    <3>1. n + k \in 1 .. Len(f[d]) /\ j + k \in 1 .. Len(f[d])
      BY <1>1, <1>4
    <3>2. f[d][n + k].type = t /\ f[d][j + k].type = t
      BY <1>4
    <3>3. n + k = j + k
      BY <3>1, <3>2 DEF Single
    <3> QED
      BY <1>1, <1>4, <3>3
  <2>3. ASSUME Single(f, d, t), Head(f[d]).type = t, NEW n \in 1 .. Len(g[d]), g[d][n].type = t
        PROVE  FALSE
    <3>1. f[d][1].type = t /\ f[d][n + k].type = t /\ n + k \in 2 .. Len(f[d])
      BY <1>4, <1>5, <2>3
    <3>2. n + k = 1
      BY <1>1, <2>3, <3>1 DEF Single
    <3> QED
      BY <3>1, <3>2
  <2> QED
    BY <2>1, <2>2, <2>3 DEF InFlight
<1>7. ASSUME NEW t, NEW u, Before(f, d, t, u)
      PROVE  Before(g, d, t, u) /\ (Head(f[d]).type = u => ~InFlight(f, d, t))
  <2>1. ASSUME NEW n \in 1 .. Len(g[d]), NEW j \in 1 .. Len(g[d]),
               g[d][n].type = t, g[d][j].type = u
        PROVE  n < j
    <3>1. n + k \in 1 .. Len(f[d]) /\ j + k \in 1 .. Len(f[d])
      BY <1>1, <1>4
    <3>2. f[d][n + k].type = t /\ f[d][j + k].type = u
      BY <1>4, <2>1
    <3>3. n + k < j + k
      BY <1>7, <3>1, <3>2 DEF Before
    <3> QED
      BY <1>1, <1>4, <3>3
  <2>2. ASSUME Head(f[d]).type = u, NEW n \in 1 .. Len(f[d]), f[d][n].type = t
        PROVE  FALSE
    <3>1. f[d][1].type = u /\ 1 \in 1 .. Len(f[d])
      BY <1>1, <1>5, <2>2
    <3>2. n < 1
      BY <1>7, <2>2, <3>1 DEF Before
    <3> QED
      BY <3>2
  <2> QED
    BY <2>1, <2>2 DEF Before, InFlight
<1> QED
  BY <1>3, <1>6, <1>7

(* No message of a type in T is new on d's socket. *)
NoNew(f, g, d, T) ==
  /\ \A t \in T : /\ InFlight(g, d, t) => InFlight(f, d, t)
                  /\ Single(f, d, t) => Single(g, d, t)
  /\ \A t, u \in T : Before(f, d, t, u) => Before(g, d, t, u)

(* A message of type u was sent on d's socket. *)
OneMore(f, g, d, u) ==
  /\ \A t : /\ InFlight(g, d, t) => InFlight(f, d, t) \/ t = u
            /\ Single(f, d, t) /\ (t # u \/ ~InFlight(f, d, t)) => Single(g, d, t)
  /\ \A t, v : Before(f, d, t, v) /\ (t # u \/ (t # v /\ ~InFlight(f, d, v)))
               => Before(g, d, t, v)

LEMMA SentTokens ==
  ASSUME NEW f \in Channels, NEW g, NEW d \in Director, NEW m \in Message,
         g = [f EXCEPT ![d] = Append(@, m)]
  PROVE  OneMore(f, g, d, m.type)
<1>1. f[d] \in Seq(Message) /\ g[d] = Append(f[d], m)
  BY DEF Channels, Channel
<1>2. /\ Len(g[d]) = Len(f[d]) + 1 /\ Len(f[d]) \in Nat
      /\ \A n \in 1 .. Len(f[d]) : g[d][n] = f[d][n]
      /\ g[d][Len(f[d]) + 1] = m
  BY <1>1
<1>3. ASSUME NEW t
      PROVE  /\ InFlight(g, d, t) => InFlight(f, d, t) \/ t = m.type
             /\ Single(f, d, t) /\ (t # m.type \/ ~InFlight(f, d, t)) => Single(g, d, t)
  BY <1>2 DEF InFlight, Single
<1>4. ASSUME NEW t, NEW v, Before(f, d, t, v), t # m.type \/ (t # v /\ ~InFlight(f, d, v))
      PROVE  Before(g, d, t, v)
  BY <1>2, <1>4 DEF InFlight, Before
<1> QED
  BY <1>3, <1>4 DEF OneMore

LEMMA SentElsewhere ==
  ASSUME NEW f \in Channels, NEW g, NEW d, NEW s, g = [f EXCEPT ![d] = s]
  PROVE  \A e \in Director \ {d} : g[e] = f[e]
BY DEF Channels

LEMMA ListedTokens ==
  ASSUME NEW f \in Channels, NEW g, NEW d \in Director, NEW L \in Seq(Message),
         \A n \in 1 .. Len(L) : L[n].type = "PLAY",
         g = [f EXCEPT ![d] = @ \o L]
  PROVE  /\ \A e \in Director \ {d} : g[e] = f[e]
         /\ NoNew(f, g, d, Replies)
<1>1. f[d] \in Seq(Message)
  BY DEF Channels, Channel
<1>2. g[d] = f[d] \o L /\ \A e \in Director \ {d} : g[e] = f[e]
  BY DEF Channels
<1>3. \A n \in 1 .. Len(g[d]) :
        \/ n \in 1 .. Len(f[d]) /\ g[d][n] = f[d][n]
        \/ g[d][n].type = "PLAY"
  BY <1>1, <1>2
<1>4. ASSUME NEW t \in Replies
      PROVE  /\ InFlight(g, d, t) => InFlight(f, d, t)
             /\ Single(f, d, t) => Single(g, d, t)
  BY <1>3 DEF InFlight, Single, Replies
<1>5. ASSUME NEW t \in Replies, NEW u \in Replies, Before(f, d, t, u)
      PROVE  Before(g, d, t, u)
  BY <1>3, <1>5 DEF Before, Replies
<1> QED
  BY <1>2, <1>4, <1>5 DEF NoNew

-----------------------------------------------------------------------------
(* Statuses in the menu *)

LEMMA StatusSet ==
  ASSUME NEW m, MenuType(m), NEW id \in DOMAIN m, NEW s \in Status,
         NEW n, n = [m EXCEPT ![id].status = s]
  PROVE  /\ DOMAIN n = DOMAIN m
         /\ n[id].status = s
         /\ \A j \in DOMAIN m \ {id} : n[j] = m[j]
<1>1. m[id] \in Record
  BY DEF MenuType
<1>2. [m[id] EXCEPT !.status = s].status = s
  BY <1>1 DEF Record
<1> QED
  BY <1>2

LEMMA StatusRegistered ==
  ASSUME NEW m, MenuType(m), NEW p, NEW id
  PROVE  /\ id \in DOMAIN m => reg_play(m, p, id)[id].status = m[id].status
         /\ id \notin DOMAIN m => reg_play(m, p, id)[id].status = "AVAILABLE"
         /\ \A j \in DOMAIN m \ {id} : reg_play(m, p, id)[j] = m[j]
         /\ DOMAIN reg_play(m, p, id) = DOMAIN m \union {id}
<1> DEFINE n == reg_play(m, p, id)
<1>1. DOMAIN n = DOMAIN m \union {id} /\ \A j \in DOMAIN m \ {id} : n[j] = m[j]
  BY DEF reg_play
<1>2. CASE id \in DOMAIN m
  <2>1. n[id] = [m[id] EXCEPT !.plays = @ \union {p}] /\ m[id] \in Record
    BY <1>2 DEF reg_play, MenuType
  <2>2. n[id].status = m[id].status
    BY <2>1 DEF Record
  <2> QED
    BY <1>1, <1>2, <2>2
<1>3. CASE id \notin DOMAIN m
  <2>1. n[id] = [status |-> "AVAILABLE", plays |-> {p}]
    BY <1>3 DEF reg_play
  <2> QED
    BY <1>1, <1>3, <2>1
<1> QED
  BY <1>2, <1>3

(* What is printed depends on the plays and on who is available. *)
LEMMA ShownSame ==
  ASSUME NEW m, NEW n, SamePlays(m, n),
         \A i \in DOMAIN m : n[i].status = "AVAILABLE" <=> m[i].status = "AVAILABLE"
  PROVE  Shown(n) = Shown(m)
<1>1. Offered(n) = Offered(m)
  BY SamePlaysOffered
<1>2. \A p : Offering(n, "AVAILABLE", p) = Offering(m, "AVAILABLE", p)
  BY DEF Offering, SamePlays
<1> QED
  BY <1>1, <1>2 DEF Shown

-----------------------------------------------------------------------------
(* Steps that leave a director in step *)

LEMMA SameSocket ==
  ASSUME NEW f, NEW g, NEW d, NEW T, g[d] = f[d]
  PROVE  NoNew(f, g, d, T)
BY DEF NoNew, InFlight, Single, Before

SameRecord(d) ==
  /\ Recorded(d)' <=> Recorded(d)
  /\ Recorded(d) => StatusOf(d)' = StatusOf(d)

(* Fewer tokens, the same play ... *)
LEMMA FewerTokens ==
  ASSUME NEW d \in Director, InStep(d),
         NoNew(toDir, toDir', d, Commands), NoNew(toProd, toProd', d, Replies),
         starting'[d] \in {starting[d], NONE}
  PROVE  /\ Tokens(d)' \subseteq Tokens(d) /\ FewTokens(d)' /\ InOrder(d)'
         /\ UNCHANGED play[d] => TokenFits(d)' /\ (Running(d)' <=> Running(d))
<1>1. Tokens(d)' \subseteq Tokens(d)
  BY DEF NoNew, Tokens
<1>2. FewTokens(d)'
  BY <1>1 DEF InStep, FewTokens
<1>3. InOrder(d)'
  BY DEF InStep, InOrder, NoNew, Commands, Replies
<1>4. UNCHANGED play[d] => TokenFits(d)' /\ (Running(d)' <=> Running(d))
  BY <1>1 DEF InStep, TokenFits, Running
<1> QED
  BY <1>1, <1>2, <1>3, <1>4

(* ... and the same record. *)
LEMMA KeepsInStep ==
  ASSUME NEW d \in Director, InStep(d),
         NoNew(toDir, toDir', d, Commands), NoNew(toProd, toProd', d, Replies),
         starting'[d] \in {starting[d], NONE}, OwnReplies(d)',
         UNCHANGED play[d], SameRecord(d),
         reader[d] = "closed" => reader'[d] = "closed"
  PROVE  InStep(d)'
<1>1. /\ Tokens(d)' \subseteq Tokens(d) /\ FewTokens(d)' /\ InOrder(d)'
      /\ TokenFits(d)' /\ (Running(d)' <=> Running(d))
  BY FewerTokens
<1>2. RecordFits(d)'
  <2>1. RecordFits(d)
    BY DEF InStep
  <2>2. Tokens(d) = {} => Tokens(d)' = {}
    BY <1>1
  <2> QED
    BY <1>1, <2>1, <2>2 DEF RecordFits, SameRecord
<1> QED
  BY <1>1, <1>2 DEF InStep

LEMMA KeepsReplies ==
  ASSUME NEW d \in Director, OwnReplies(d), reader_id[d] \in {0, reader_id'[d]},
         \A n \in 1 .. Len(toProd'[d]) :
           \/ \E k \in 1 .. Len(toProd[d]) : toProd'[d][n] = toProd[d][k]
           \/ toProd'[d][n].type \notin Replies
           \/ toProd'[d][n].id \in {0, reader_id'[d]}
  PROVE  OwnReplies(d)'
BY DEF OwnReplies

(* Whoever has no part in a step stays in step. *)
LEMMA Bystander ==
  ASSUME NEW e \in Director, InStep(e), SameRecord(e), NoNew(toDir, toDir', e, Commands),
         UNCHANGED <<toProd[e], starting[e], play[e], reader_id[e], reader[e]>>
  PROVE  InStep(e)'
<1>1. NoNew(toProd, toProd', e, Replies)
  BY SameSocket
<1>2. OwnReplies(e)'
  BY DEF InStep, OwnReplies
<1> QED
  BY <1>1, <1>2, KeepsInStep

(* Only the record of d changes. *)
OnlyRecord(d) ==
  \A i \in Nat \ {reader_id[d]} :
    /\ i \in DOMAIN menu' <=> i \in DOMAIN menu
    /\ i \in DOMAIN menu => menu'[i].status = menu[i].status

LEMMA OthersRecords ==
  ASSUME Inv, Inv', OwnIds, NEW d \in Director, NEW e \in Director \ {d},
         UNCHANGED reader_id[e], OnlyRecord(d)
  PROVE  SameRecord(e)
<1>1. reader_id[e] \in Nat /\ 0 \notin DOMAIN menu /\ 0 \notin DOMAIN menu'
  BY DEF Inv, Menus, Identity, IdTypes
<1>2. reader_id[e] # reader_id[d] \/ reader_id[e] = 0
  BY DEF OwnIds
<1> QED
  BY <1>1, <1>2 DEF OnlyRecord, SameRecord, Recorded, StatusOf

-----------------------------------------------------------------------------
(* What the four ways to use a socket do to the tokens *)

LEMMA ReadsTokens ==
  ASSUME Inv, NEW d \in Director, NEW t, Reads(d, t)
  PROVE  /\ \A e \in Director \ {d} : toProd'[e] = toProd[e]
         /\ NoNew(toProd, toProd', d, Replies)
         /\ Single(toProd, d, t) => ~InFlight(toProd', d, t)
         /\ \A u : Before(toProd, d, u, t) => ~InFlight(toProd, d, u)
         /\ OwnReplies(d) => OwnReplies(d)'
<1>1. toProd \in Channels /\ toProd[d] # <<>> /\ Head(toProd[d]).type = t
  BY DEF Reads, Parsed, Inv, Transit
<1>2. \E k \in Prefixes(toProd[d]) : toProd' = [toProd EXCEPT ![d] = Rest(@, k)]
  BY DEF Reads, TakeFrom
<1>3. /\ \A e \in Director \ {d} : toProd'[e] = toProd[e]
      /\ \A u : /\ InFlight(toProd', d, u) => InFlight(toProd, d, u)
                /\ Single(toProd, d, u) => Single(toProd', d, u)
                /\ Single(toProd, d, u) /\ Head(toProd[d]).type = u => ~InFlight(toProd', d, u)
      /\ \A u, v : /\ Before(toProd, d, u, v) => Before(toProd', d, u, v)
                   /\ Before(toProd, d, u, v) /\ Head(toProd[d]).type = v
                        => ~InFlight(toProd, d, u)
  BY <1>1, <1>2, TakenTokens
<1>4. NothingNew(toProd, toProd')
  BY <1>1, <1>2, Taken
<1>5. OwnReplies(d) => OwnReplies(d)'
  BY <1>4 DEF Reads, OwnReplies, NothingNew
<1> QED
  BY <1>1, <1>3, <1>5 DEF NoNew

LEMMA ReceivesTokens ==
  ASSUME Inv, NEW d \in Director, NEW t, Receives(d, t)
  PROVE  /\ \A e \in Director \ {d} : toDir'[e] = toDir[e]
         /\ NoNew(toDir, toDir', d, Commands)
         /\ Single(toDir, d, t) => ~InFlight(toDir', d, t)
         /\ \A u : Before(toDir, d, u, t) => ~InFlight(toDir, d, u)
         /\ InFlight(toDir, d, t)
<1>1. /\ toDir \in Channels /\ toDir[d] # <<>> /\ Head(toDir[d]).type = t
      /\ 1 \in 1 .. Len(toDir[d]) /\ Head(toDir[d]) = toDir[d][1]
  BY HeadIsMessage DEF Receives, Parsed, Inv, Transit
<1>2. \E k \in Prefixes(toDir[d]) : toDir' = [toDir EXCEPT ![d] = Rest(@, k)]
  BY DEF Receives, TakeFrom
<1>3. /\ \A e \in Director \ {d} : toDir'[e] = toDir[e]
      /\ \A u : /\ InFlight(toDir', d, u) => InFlight(toDir, d, u)
                /\ Single(toDir, d, u) => Single(toDir', d, u)
                /\ Single(toDir, d, u) /\ Head(toDir[d]).type = u => ~InFlight(toDir', d, u)
      /\ \A u, v : /\ Before(toDir, d, u, v) => Before(toDir', d, u, v)
                   /\ Before(toDir, d, u, v) /\ Head(toDir[d]).type = v
                        => ~InFlight(toDir, d, u)
  BY <1>1, <1>2, TakenTokens
<1>4. InFlight(toDir, d, t)
  BY <1>1 DEF InFlight
<1> QED
  BY <1>1, <1>3, <1>4 DEF NoNew

LEMMA SendDirTokens ==
  ASSUME Inv, NEW d \in Director, NEW m \in Message, SendDir(d, m)
  PROVE  /\ \A e \in Director \ {d} : toDir'[e] = toDir[e]
         /\ OneMore(toDir, toDir', d, m.type)
<1>1. toDir \in Channels
  BY DEF Inv, Transit
<1>2. CASE toDir' = toDir
  BY <1>2 DEF OneMore
<1>3. CASE toDir' = [toDir EXCEPT ![d] = Append(@, m)]
  <2>1. \A e \in Director \ {d} : toDir'[e] = toDir[e]
    BY <1>1, <1>3, SentElsewhere
  <2> QED
    BY <1>1, <1>3, <2>1, SentTokens
<1> QED
  BY <1>2, <1>3 DEF SendDir

LEMMA SendProdTokens ==
  ASSUME Inv, NEW d \in Director, NEW m \in Message, SendProd(d, m)
  PROVE  /\ \A e \in Director \ {d} : toProd'[e] = toProd[e]
         /\ OneMore(toProd, toProd', d, m.type)
         /\ OwnReplies(d) /\ UNCHANGED reader_id
              /\ (m.type \notin Replies \/ m.id \in {0, reader_id[d]}) => OwnReplies(d)'
<1>1. toProd \in Channels /\ toProd' = [toProd EXCEPT ![d] = Append(@, m)]
  BY DEF SendProd, Inv, Transit
<1>2. OnlyNew(toProd, toProd', d, m)
  BY <1>1, Sent
<1>3. OwnReplies(d) /\ UNCHANGED reader_id
        /\ (m.type \notin Replies \/ m.id \in {0, reader_id[d]}) => OwnReplies(d)'
  BY <1>2 DEF OnlyNew, OwnReplies
<1>4. \A e \in Director \ {d} : toProd'[e] = toProd[e]
  BY <1>1, SentElsewhere
<1>5. OneMore(toProd, toProd', d, m.type)
  BY <1>1, SentTokens
<1> QED
  BY <1>3, <1>4, <1>5

(* All but d are bystanders of a step that touches d's sockets, record and  *)
(* stage only.                                                              *)
OnlyHis(d) ==
  \A e \in Director \ {d} :
    UNCHANGED <<toDir[e], toProd[e], starting[e], play[e], reader_id[e], reader[e]>>

LEMMA OthersInStep ==
  ASSUME Inv, Inv', OwnIds, AllInStep, NEW d \in Director, OnlyHis(d), OnlyRecord(d)
  PROVE  \A e \in Director \ {d} : InStep(e)'
<1> SUFFICES ASSUME NEW e \in Director \ {d} PROVE InStep(e)'
  OBVIOUS
<1>1. UNCHANGED <<toDir[e], toProd[e], starting[e], play[e], reader_id[e], reader[e]>>
  BY DEF OnlyHis
<1>2. NoNew(toDir, toDir', e, Commands)
  BY <1>1, SameSocket
<1>3. SameRecord(e)
  BY <1>1, OthersRecords
<1>4. InStep(e)
  BY DEF AllInStep
<1> QED
  BY <1>1, <1>2, <1>3, <1>4, Bystander

LEMMA SameMenu ==
  ASSUME UNCHANGED menu, NEW d \in Director
  PROVE  OnlyRecord(d) /\ (UNCHANGED reader_id[d] => SameRecord(d))
         /\ (AllInStep /\ UNCHANGED shown => CountsAreTrue')
BY DEF OnlyRecord, SameRecord, Recorded, StatusOf, AllInStep, CountsAreTrue

LEMMA OneMoreOther ==
  ASSUME NEW f, NEW g, NEW d, NEW u, OneMore(f, g, d, u), NEW T, u \notin T
  PROVE  NoNew(f, g, d, T)
<1>1. \A t \in T : t # u
  OBVIOUS
<1> QED
  BY <1>1 DEF NoNew, OneMore

LEMMA AllFromOne ==
  ASSUME Inv, Inv', OwnIds, AllInStep, NEW d \in Director, OnlyHis(d), OnlyRecord(d),
         InStep(d)', CountsAreTrue'
  PROVE  AllInStep'
BY OthersInStep DEF AllInStep

-----------------------------------------------------------------------------
(* One step of the producer *)

LEMMA AcceptInStep ==
  ASSUME Inv, Inv', OwnIds, AllInStep, Accept
  PROVE  AllInStep'
<1>0. PICK d \in Director : d = Head(backlog)
  BY DEF Accept, Inv, Identity, IdTypes
<1>1. reader[d] = "none" /\ reader_id[d] = 0
  BY <1>0 DEF Accept, Inv, Identity, IdTypes
<1>2. UNCHANGED <<menu, shown, toDir, toProd, starting, play>>
  BY DEF Accept
<1>3. /\ \A e \in Director \ {d} : UNCHANGED <<reader[e], reader_id[e]>>
      /\ reader'[d] = "open" /\ reader_id'[d] = next_id
  BY <1>0 DEF Accept, Inv, Identity, IdTypes
<1>4. next_id \notin DOMAIN menu /\ 0 \notin DOMAIN menu
  BY DEF Inv, Menus, Identity, IdTypes
<1>5. InStep(d)'
  <2>1. SameRecord(d)
    BY <1>1, <1>2, <1>3, <1>4 DEF SameRecord, Recorded
  <2>2. OwnReplies(d)'
    <3>1. OwnReplies(d)
      BY <1>1 DEF AllInStep, InStep
    <3> QED
      BY <1>1, <1>2, <1>3, <3>1 DEF OwnReplies
  <2>3. NoNew(toDir, toDir', d, Commands) /\ NoNew(toProd, toProd', d, Replies)
    BY <1>2, SameSocket
  <2> QED
    BY <1>1, <1>2, <2>1, <2>2, <2>3, KeepsInStep DEF AllInStep
<1> QED
  BY <1>1, <1>2, <1>3, <1>5, SameMenu, AllFromOne DEF OnlyHis

(* A reader's step touches nobody else. *)
LEMMA ReadsHis ==
  ASSUME Inv, NEW d \in Director, NEW t, Reads(d, t),
         \A e \in Director \ {d} : toDir'[e] = toDir[e] /\ reader'[e] = reader[e]
  PROVE  OnlyHis(d) /\ UNCHANGED <<starting, play, reader_id>>
<1>1. UNCHANGED <<starting, play, reader_id>>
  BY DEF Reads
<1> QED
  BY <1>1, ReadsTokens DEF OnlyHis

LEMMA ReadIdInStep ==
  ASSUME Inv, Inv', OwnIds, AllInStep, NEW d \in Director, ReadId(d)
  PROVE  AllInStep'
<1>1. Reads(d, "ID") /\ SendDir(d, Msg("ID", OwnId(d), NONE)) /\ UNCHANGED <<menu, shown, reader>>
  BY DEF ReadId
<1>2. Msg("ID", OwnId(d), NONE) \in Message /\ Msg("ID", OwnId(d), NONE).type = "ID"
  BY MsgType DEF Inv, Identity, IdTypes, OwnId
<1>3. /\ \A e \in Director \ {d} : toDir'[e] = toDir[e]
      /\ OneMore(toDir, toDir', d, "ID")
  BY <1>1, <1>2, SendDirTokens
<1>4. NoNew(toDir, toDir', d, Commands)
  BY <1>3, OneMoreOther DEF Commands
<1>5. OnlyHis(d) /\ UNCHANGED <<starting, play, reader_id>>
  BY <1>1, <1>3, ReadsHis
<1>6. InStep(d) /\ OwnReplies(d)
  BY DEF AllInStep, InStep
<1>7. NoNew(toProd, toProd', d, Replies) /\ OwnReplies(d)'
  BY <1>1, <1>6, ReadsTokens
<1>8. OnlyRecord(d) /\ SameRecord(d) /\ CountsAreTrue'
  BY <1>1, <1>5, SameMenu
<1>9. InStep(d)'
  BY <1>1, <1>4, <1>5, <1>6, <1>7, <1>8, KeepsInStep
<1> QED
  BY <1>5, <1>8, <1>9, AllFromOne

(* The message a reader has read is one of its director's, and the reader   *)
(* has an id.                                                               *)
LEMMA ReadsHead ==
  ASSUME Inv, NEW d \in Director, NEW t, Reads(d, t)
  PROVE  /\ reader[d] = "open" /\ reader_id[d] \in Nat \ {0} /\ 0 \notin DOMAIN menu
         /\ Head(toProd[d]).type = t /\ WellAddressed(d, Head(toProd[d]))
         /\ InFlight(toProd, d, t)
         /\ OwnReplies(d) /\ t \in Replies => Head(toProd[d]).id \in {0, reader_id[d]}
<1>1. /\ reader[d] = "open" /\ toProd[d] # <<>> /\ Head(toProd[d]).type = t
      /\ toProd \in Channels
  BY DEF Reads, Parsed, Inv, Transit
<1>2. 1 \in 1 .. Len(toProd[d]) /\ Head(toProd[d]) = toProd[d][1]
  BY <1>1, HeadIsMessage
<1>3. reader_id[d] \in Nat \ {0} /\ 0 \notin DOMAIN menu
  BY <1>1 DEF Inv, Menus, Identity, IdTypes
<1>4. WellAddressed(d, Head(toProd[d])) /\ InFlight(toProd, d, t)
  BY <1>1, <1>2 DEF Inv, Transit, InFlight
<1>5. OwnReplies(d) /\ t \in Replies => Head(toProd[d]).id \in {0, reader_id[d]}
  BY <1>1, <1>2 DEF OwnReplies
<1> QED
  BY <1>1, <1>3, <1>4, <1>5

LEMMA ReadPlayInStep ==
  ASSUME Inv, Inv', OwnIds, AllInStep, NEW d \in Director, ReadPlay(d)
  PROVE  AllInStep'
<1> DEFINE i == reader_id[d]
           p == Head(toProd[d]).name
<1>1. Reads(d, "PLAY") /\ UNCHANGED <<toDir, reader>> /\ shown' = Shown(menu')
  BY DEF ReadPlay
<1>2. menu' = reg_play(menu, p, i) /\ i \in Nat \ {0} /\ reader[d] = "open"
  BY <1>1, ReadsHead DEF ReadPlay, WellAddressed
<1>3. /\ i \in DOMAIN menu => menu'[i].status = menu[i].status
      /\ i \notin DOMAIN menu => menu'[i].status = "AVAILABLE"
      /\ \A j \in DOMAIN menu \ {i} : menu'[j] = menu[j]
      /\ DOMAIN menu' = DOMAIN menu \union {i}
  <2> HIDE DEF i, p
  <2>1. MenuType(menu)
    BY DEF Inv, Menus
  <2> DEFINE n == reg_play(menu, p, i)
  <2>2. /\ i \in DOMAIN menu => n[i].status = menu[i].status
        /\ i \notin DOMAIN menu => n[i].status = "AVAILABLE"
        /\ \A j \in DOMAIN menu \ {i} : n[j] = menu[j]
        /\ DOMAIN n = DOMAIN menu \union {i}
    BY <2>1, StatusRegistered, Zenon
  <2> HIDE DEF n
  <2>3. menu' = n
    BY <1>2 DEF n
  <2> QED
    BY <2>2, <2>3, Zenon
<1>4. OnlyRecord(d)
  BY <1>3 DEF OnlyRecord
<1>5. OnlyHis(d) /\ UNCHANGED <<starting, play, reader_id>>
  BY <1>1, ReadsHis
<1>6. InStep(d) /\ OwnReplies(d)
  BY DEF AllInStep, InStep
<1>7. /\ NoNew(toProd, toProd', d, Replies) /\ OwnReplies(d)'
      /\ NoNew(toDir, toDir', d, Commands)
  BY <1>1, <1>6, ReadsTokens, SameSocket
<1>8. InStep(d)'
  <2>1. CASE Recorded(d)
    <3>1. SameRecord(d)
      BY <1>3, <1>5, <2>1 DEF SameRecord, Recorded, StatusOf
    <3> QED
      BY <1>1, <1>5, <1>6, <1>7, <3>1, KeepsInStep
  <2>2. CASE ~Recorded(d)
    <3>1. Tokens(d) = {} /\ ~Running(d)
      BY <1>2, <1>6, <2>2 DEF InStep, RecordFits
    <3>2. /\ Tokens(d)' \subseteq Tokens(d) /\ FewTokens(d)' /\ InOrder(d)'
          /\ TokenFits(d)' /\ (Running(d)' <=> Running(d))
      BY <1>5, <1>6, <1>7, FewerTokens
    <3>3. Recorded(d)' /\ StatusOf(d)' = "AVAILABLE"
      BY <1>3, <1>5, <2>2 DEF Recorded, StatusOf
    <3>4. RecordFits(d)'
      BY <3>1, <3>2, <3>3 DEF RecordFits
    <3> QED
      BY <1>7, <3>2, <3>4 DEF InStep
  <2> QED
    BY <2>1, <2>2
<1> QED
  BY <1>1, <1>4, <1>5, <1>8, AllFromOne DEF CountsAreTrue

(* A confirmation: the token is gone, and the record, which did not stand   *)
(* AVAILABLE, says what the token said.                                     *)
LEMMA ConfirmedInStep ==
  ASSUME Inv, Inv', OwnIds, AllInStep, NEW d \in Director, NEW t \in Replies, NEW s \in Status,
         Reads(d, t), menu' = SetStatus(menu, Head(toProd[d]).id, s),
         UNCHANGED <<toDir, reader, id_socket_map>>,
         Tokens(d) \ {t} \subseteq IF t = "STARTED" THEN {"STOPPED"} ELSE {"stop"},
         \/ t = "STOPPED" /\ s = "AVAILABLE" /\ shown' = Shown(menu')
         \/ t = "STARTED" /\ s = "UNAVAILABLE" /\ UNCHANGED shown
  PROVE  AllInStep'
<1> DEFINE i == reader_id[d]
<1>1. InStep(d) /\ InOrder(d) /\ OwnReplies(d) /\ TokenFits(d) /\ RecordFits(d)
  BY DEF AllInStep, InStep
<1>2. /\ Head(toProd[d]).id \in {0, i} /\ i \in Nat \ {0} /\ 0 \notin DOMAIN menu
      /\ reader[d] = "open" /\ InFlight(toProd, d, t)
  BY <1>1, ReadsHead
<1>3. t \in Tokens(d)
  BY <1>2 DEF Tokens
<1>4. Recorded(d) /\ StatusOf(d) # "AVAILABLE"
  BY <1>1, <1>2, <1>3 DEF RecordFits, Replies
<1>5. i \in DOMAIN menu /\ MenuType(menu)
  BY <1>4 DEF Recorded, Inv, Menus
<1>6. menu' = menu \/ menu' = [menu EXCEPT ![i].status = s]
  BY <1>2 DEF SetStatus
<1> HIDE DEF i
<1>7. /\ DOMAIN menu' = DOMAIN menu
      /\ \A j \in DOMAIN menu \ {i} : menu'[j] = menu[j]
      /\ menu' = menu \/ menu'[i].status = s
  BY <1>5, <1>6, StatusSet
<1>8. OnlyHis(d) /\ UNCHANGED <<starting, play, reader_id>>
  BY ReadsHis
<1>9. OnlyRecord(d)
  BY <1>7 DEF OnlyRecord, i
<1>10. /\ NoNew(toProd, toProd', d, Replies) /\ OwnReplies(d)'
       /\ NoNew(toDir, toDir', d, Commands)
  BY <1>1, ReadsTokens, SameSocket
<1>11. /\ Tokens(d)' \subseteq Tokens(d) /\ FewTokens(d)' /\ InOrder(d)'
       /\ TokenFits(d)' /\ (Running(d)' <=> Running(d))
  BY <1>1, <1>8, <1>10, FewerTokens
<1>12. Tokens(d)' \subseteq Tokens(d) \ {t}
  <2>1. ~InFlight(toProd', d, t)
    BY <1>1, ReadsTokens DEF InOrder
  <2>2. t \notin Tokens(d)'
    BY <2>1 DEF Tokens, Commands, Replies
  <2> QED
    BY <1>11, <2>2
<1>13. RecordFits(d)'
  <2>1. Recorded(d)' /\ StatusOf(d)' \in {StatusOf(d), s}
    BY <1>4, <1>7, <1>8 DEF Recorded, StatusOf, i
  <2>2. t = "STARTED" => play'[d] # NoPlay
    BY <1>1, <1>3, <1>8 DEF TokenFits
  <2>3. t = "STOPPED" => ~Running(d)'
    BY <1>1, <1>3, <1>11 DEF TokenFits
  <2>4. StatusOf(d) = "UNAVAILABLE" => Tokens(d)' \subseteq {"STOPPED"} /\ play'[d] # NoPlay
    BY <1>1, <1>4, <1>8, <1>11 DEF RecordFits
  <2> QED
    BY <1>4, <1>12, <2>1, <2>2, <2>3, <2>4 DEF RecordFits
<1>14. CountsAreTrue'
  <2>1. CASE shown' = Shown(menu')
    BY <2>1 DEF CountsAreTrue
  <2>2. CASE UNCHANGED shown /\ s # "AVAILABLE"
    <3>1. \A j \in DOMAIN menu : menu'[j].status = "AVAILABLE" <=> menu[j].status = "AVAILABLE"
      BY <1>4, <1>5, <1>7, <2>2 DEF StatusOf, i
    <3>2. SamePlays(menu, menu')
      BY <1>5, SetStatusKeeps
    <3>3. Shown(menu') = Shown(menu)
      BY <3>1, <3>2, ShownSame
    <3> QED
      BY <2>2, <3>3 DEF AllInStep, CountsAreTrue
  <2> QED
    BY <2>1, <2>2
<1>15. InStep(d)'
  BY <1>10, <1>11, <1>13 DEF InStep
<1> QED
  BY <1>8, <1>9, <1>14, <1>15, AllFromOne

LEMMA ReadReplyInStep ==
  ASSUME Inv, Inv', OwnIds, AllInStep, NEW d \in Director, ReadStarted(d) \/ ReadStopped(d)
  PROVE  AllInStep'
<1>0. FewTokens(d) /\ InOrder(d)
  BY DEF AllInStep, InStep
<1>1. CASE ReadStarted(d)
  <2>1. /\ Reads(d, "STARTED") /\ UNCHANGED <<toDir, reader, id_socket_map, shown>>
        /\ menu' = SetStatus(menu, Head(toProd[d]).id, "UNAVAILABLE")
    BY <1>1 DEF ReadStarted, set_busy_with_id
  <2>2. "STARTED" \in Tokens(d)
    BY <2>1, ReadsHead DEF Tokens, Replies
  <2>3. Tokens(d) \ {"STARTED"} \subseteq {"STOPPED"}
    BY <1>0, <2>2 DEF FewTokens
  <2> QED
    BY <2>1, <2>3, ConfirmedInStep DEF Replies, Status
<1>2. CASE ReadStopped(d)
  <2>1. /\ Reads(d, "STOPPED") /\ UNCHANGED <<toDir, reader, id_socket_map>>
        /\ menu' = SetStatus(menu, Head(toProd[d]).id, "AVAILABLE")
        /\ shown' = Shown(menu')
    BY <1>2 DEF ReadStopped, set_idle_with_id
  <2>2. "STOPPED" \in Tokens(d)
    BY <2>1, ReadsHead DEF Tokens, Replies
  <2>3. "STARTED" \notin Tokens(d)
    <3>1. ~InFlight(toProd, d, "STARTED")
      BY <1>0, <2>1, ReadsTokens DEF InOrder
    <3> QED
      BY <3>1 DEF Tokens, Commands
  <2>4. Tokens(d) \ {"STOPPED"} \subseteq {"stop"}
    BY <1>0, <2>2, <2>3 DEF FewTokens, Tokens, Commands, Replies
  <2> QED
    BY <2>1, <2>4, ConfirmedInStep DEF Replies, Status
<1> QED
  BY <1>1, <1>2

LEMMA ReadGoneInStep ==
  ASSUME Inv, Inv', OwnIds, AllInStep, NEW d \in Director,
         ReadQuited(d) \/ ReadQuitedUnknown(d) \/ ReadEOF(d)
  PROVE  AllInStep'
<1>0. InStep(d) /\ OwnReplies(d)
  BY DEF AllInStep, InStep
<1>1. CASE ReadQuited(d)
  <2> DEFINE i == reader_id[d]
  <2>1. Reads(d, "QUITED") /\ UNCHANGED toDir /\ shown' = Shown(menu')
    BY <1>1 DEF ReadQuited
  <2>2. menu' = clean_with_id(menu, i)
    <3>1. 0 \notin DOMAIN id_socket_map
      BY DEF Inv, Identity, IdTypes
    <3> QED
      BY <1>1, <2>1, <3>1, ReadsHead DEF ReadQuited, WellAddressed
  <2>3. /\ reader'[d] = "closed" /\ \A e \in Director \ {d} : reader'[e] = reader[e]
    BY <1>1 DEF ReadQuited, Inv, Identity, IdTypes
  <2>4. OnlyHis(d) /\ UNCHANGED <<starting, play, reader_id>>
    BY <2>1, <2>3, ReadsHis
  <2>5. /\ DOMAIN menu' = DOMAIN menu \ {i}
        /\ \A j \in DOMAIN menu \ {i} : menu'[j] = menu[j]
    BY <2>2, CleanRemoves DEF Inv, Menus
  <2>6. OnlyRecord(d)
    BY <2>5 DEF OnlyRecord
  <2>7. /\ NoNew(toProd, toProd', d, Replies) /\ OwnReplies(d)'
        /\ NoNew(toDir, toDir', d, Commands)
    BY <1>0, <2>1, ReadsTokens, SameSocket
  <2>8. FewTokens(d)' /\ InOrder(d)' /\ TokenFits(d)'
    BY <1>0, <2>4, <2>7, FewerTokens
  <2>9. RecordFits(d)'
    BY <2>3, <2>4, <2>5 DEF RecordFits, Recorded
  <2> QED
    BY <2>1, <2>4, <2>6, <2>7, <2>8, <2>9, AllFromOne DEF InStep, CountsAreTrue
<1>2. CASE ReadQuitedUnknown(d) \/ ReadEOF(d)
  <2>1. /\ UNCHANGED <<menu, shown, toDir, toProd, starting, play, reader_id>>
        /\ \A e \in Director \ {d} : reader'[e] = reader[e]
        /\ reader[d] = "open"
    BY <1>2 DEF ReadQuitedUnknown, ReadEOF, Inv, Identity, IdTypes
  <2>2. OwnReplies(d)'
    BY <1>0, <2>1 DEF OwnReplies
  <2>3. InStep(d)'
    BY <1>0, <2>1, <2>2, SameSocket, SameMenu, KeepsInStep
  <2> QED
    BY <2>1, <2>3, SameMenu, AllFromOne DEF OnlyHis
<1> QED
  BY <1>1, <1>2

(* A command goes to a director whose record is not in the gray area, and   *)
(* puts it there.                                                           *)
LEMMA CommandInStep ==
  ASSUME Inv, Inv', OwnIds, AllInStep, NEW st \in {"AVAILABLE", "UNAVAILABLE"},
         NEW c \in Commands, st = "AVAILABLE" <=> c = "start",
         NEW p \in Play, NEW id \in DOMAIN menu, menu[id].status = st,
         menu' = SetUnclear(menu, id), SendDir(id_socket_map[id], Msg(c, NONE, p)),
         UNCHANGED <<toProd, starting, play, reader, reader_id>>,
         shown' = Shown(menu') \/ (UNCHANGED shown /\ st = "UNAVAILABLE")
  PROVE  AllInStep'
<1>1. PICK d \in Director : d = id_socket_map[id] /\ reader_id[d] = id
  BY DEF Inv, Menus, Identity, IdTypes
<1>2. InStep(d) /\ FewTokens(d) /\ InOrder(d) /\ OwnReplies(d) /\ TokenFits(d) /\ RecordFits(d)
  BY DEF AllInStep, InStep
<1>3. /\ c = "start" => Tokens(d) \subseteq {"stop"} /\ ~Running(d)
      /\ c = "stop" => Tokens(d) \subseteq {"STOPPED"} /\ play[d] # NoPlay
      /\ c \in {"start", "stop"}
  <2>1. Recorded(d) /\ StatusOf(d) = st
    BY <1>1 DEF Recorded, StatusOf
  <2>2. c \in {"start", "stop"}
    BY DEF Commands
  <2> QED
    BY <1>2, <2>1, <2>2 DEF RecordFits
<1>4. Msg(c, NONE, p) \in Message /\ Msg(c, NONE, p).type = c
  BY MsgType DEF Commands, NONE
<1>5. (\A e \in Director \ {d} : toDir'[e] = toDir[e]) /\ OneMore(toDir, toDir', d, c)
  BY <1>1, <1>4, SendDirTokens
<1>6. /\ DOMAIN menu' = DOMAIN menu /\ menu'[id].status = "UNCLEAR"
      /\ \A j \in DOMAIN menu \ {id} : menu'[j] = menu[j]
      /\ SamePlays(menu, menu')
  <2>1. MenuType(menu)
    BY DEF Inv, Menus
  <2>2. menu' = [menu EXCEPT ![id].status = "UNCLEAR"]
    BY DEF SetUnclear
  <2>3. SamePlays(menu, menu')
    BY <2>1, SetUnclearKeeps
  <2> QED
    BY <2>1, <2>2, <2>3, StatusSet DEF Status
<1>7. OnlyHis(d) /\ OnlyRecord(d)
  BY <1>1, <1>5, <1>6 DEF OnlyHis, OnlyRecord
<1>8. InStep(d)'
  <2>1. Tokens(d)' \subseteq Tokens(d) \union {c}
    BY <1>5 DEF Tokens, OneMore
  <2>2. FewTokens(d)' /\ InOrder(d)'
    <3>1. FewTokens(d)'
      BY <1>3, <2>1 DEF FewTokens
    <3>2. ~InFlight(toDir, d, c)
      BY <1>3 DEF Tokens, Commands
    <3>3. \A t \in Commands : Single(toDir', d, t)
      BY <1>2, <1>5, <3>2 DEF OneMore, InOrder
    <3>4. c = "stop" => ~InFlight(toDir, d, "start")
      BY <1>3 DEF Tokens, Commands
    <3>5. Before(toDir', d, "stop", "start")
      BY <1>2, <1>3, <1>5, <3>4 DEF OneMore, InOrder
    <3>6. InOrder(d)'
      BY <1>2, <3>3, <3>5 DEF InOrder, Single, Before
    <3> QED
      BY <3>1, <3>6
  <2>3. Running(d)' <=> Running(d)
    BY DEF Running
  <2>4. TokenFits(d)'
    BY <1>2, <1>3, <2>1, <2>3 DEF TokenFits
  <2>5. RecordFits(d)'
    BY <1>1, <1>6 DEF RecordFits, Recorded, StatusOf
  <2>6. OwnReplies(d)'
    BY <1>2 DEF OwnReplies
  <2> QED
    BY <2>2, <2>4, <2>5, <2>6 DEF InStep
<1>9. CountsAreTrue'
  <2>1. CASE shown' = Shown(menu')
    BY <2>1 DEF CountsAreTrue
  <2>2. CASE UNCHANGED shown /\ st = "UNAVAILABLE"
    <3>1. \A j \in DOMAIN menu : menu'[j].status = "AVAILABLE" <=> menu[j].status = "AVAILABLE"
      BY <1>6, <2>2
    <3>2. Shown(menu') = Shown(menu)
      BY <1>6, <3>1, ShownSame
    <3> QED
      BY <2>2, <3>2 DEF AllInStep, CountsAreTrue
  <2> QED
    BY <2>1, <2>2
<1> QED
  BY <1>7, <1>8, <1>9, AllFromOne

(* A step that may send quits, and does nothing else the handshake sees. *)
LEMMA QuitsInStep ==
  ASSUME AllInStep, UNCHANGED <<menu, shown, toProd, starting, play, reader, reader_id>>,
         \A d \in Director : NoNew(toDir, toDir', d, Commands)
  PROVE  AllInStep'
<1>1. ASSUME NEW d \in Director PROVE InStep(d)'
  BY SameMenu, Bystander DEF AllInStep
<1> QED
  BY <1>1 DEF AllInStep, CountsAreTrue

LEMMA UserInStep ==
  ASSUME Inv, Inv', OwnIds, AllInStep, User \/ WaitForQuit
  PROVE  AllInStep'
<1>1. ASSUME NEW k \in Offset, UiStart(k) PROVE AllInStep'
  <2> DEFINE p == PlayAt(shown, k)
             id == pop_avaliable(menu, p)
  <2>1. UNCHANGED <<toProd, starting, play, reader, reader_id>>
    BY <1>1 DEF UiStart
  <2>2. CASE p = NONE \/ id = NONE
    BY <1>1, <2>1, <2>2, SameSocket, QuitsInStep DEF UiStart
  <2>3. CASE ~(p = NONE \/ id = NONE)
    <3>1. /\ menu' = SetUnclear(menu, id) /\ shown' = Shown(menu')
          /\ SendDir(id_socket_map[id], Msg("start", NONE, p))
      BY <1>1, <2>3 DEF UiStart
    <3>2. id \in DOMAIN menu /\ menu[id].status = "AVAILABLE" /\ p \in Play
      <4>1. DOMAIN menu \subseteq Nat
        BY DEF Inv, Menus, Identity, IdTypes
      <4>2. PopId(menu, "AVAILABLE", p) # NONE
        BY <2>3 DEF pop_avaliable
      <4> HIDE DEF p
      <4> QED
        BY <4>1, <4>2, PopFinds, CommandFinds DEF pop_avaliable
    <3> HIDE DEF p, id
    <3> QED
      BY <2>1, <3>1, <3>2, CommandInStep DEF Commands
  <2> QED
    BY <2>2, <2>3
<1>2. ASSUME NEW k \in Offset, UiStop(k) PROVE AllInStep'
  <2> DEFINE p == PlayAt(shown, k)
             id == pop_busy_play(menu, p)
  <2>1. UNCHANGED <<toProd, starting, play, reader, reader_id, shown>>
    BY <1>2 DEF UiStop
  <2>2. CASE p = NONE \/ id = NONE
    BY <1>2, <2>1, <2>2, SameSocket, QuitsInStep DEF UiStop
  <2>3. CASE ~(p = NONE \/ id = NONE)
    <3>1. /\ menu' = SetUnclear(menu, id)
          /\ SendDir(id_socket_map[id], Msg("stop", NONE, p))
      BY <1>2, <2>3 DEF UiStop
    <3>2. id \in DOMAIN menu /\ menu[id].status = "UNAVAILABLE" /\ p \in Play
      <4>1. DOMAIN menu \subseteq Nat
        BY DEF Inv, Menus, Identity, IdTypes
      <4>2. PopId(menu, "UNAVAILABLE", p) # NONE
        BY <2>3 DEF pop_busy_play
      <4> HIDE DEF p
      <4> QED
        BY <4>1, <4>2, PopFinds, CommandFinds DEF pop_busy_play
    <3> HIDE DEF p, id
    <3> QED
      BY <2>1, <3>1, <3>2, CommandInStep DEF Commands
  <2> QED
    BY <2>2, <2>3
<1>3. ASSUME NEW k \in Offset, UiPastEnd(k) PROVE AllInStep'
  BY <1>3, SameSocket, QuitsInStep DEF UiPastEnd
<1>4. CASE UiQuit \/ ProducerSigint
  <2>1. SendQuitAll /\ UNCHANGED <<menu, shown, toProd, starting, play, reader, reader_id>>
    BY <1>4 DEF UiQuit, ProducerSigint
  <2>2. ASSUME NEW d \in Director PROVE NoNew(toDir, toDir', d, Commands)
    <3> DEFINE m == Msg("quit", NONE, NONE)
               g == [toDir EXCEPT ![d] = Append(@, m)]
    <3>1. toDir \in Channels /\ m \in Message /\ m.type = "quit"
      BY MsgType DEF Inv, Transit, NONE
    <3>2. toDir'[d] = toDir[d] \/ toDir'[d] = Append(toDir[d], m)
      BY <2>1 DEF SendQuitAll
    <3>3. OneMore(toDir, g, d, "quit")
      <4> HIDE DEF m
      <4> QED
        BY <3>1, SentTokens
    <3>4. g[d] = Append(toDir[d], m)
      BY <3>1 DEF Channels
    <3> HIDE DEF m, g
    <3>5. NoNew(toDir, g, d, Commands)
      BY <3>3, OneMoreOther DEF Commands
    <3>6. CASE toDir'[d] = toDir[d]
      BY <3>6, SameSocket
    <3>7. CASE toDir'[d] = g[d]
      BY <3>5, <3>7 DEF NoNew, InFlight, Single, Before
    <3> QED
      BY <3>2, <3>4, <3>6, <3>7
  <2> QED
    BY <2>1, <2>2, QuitsInStep
<1>5. CASE WaitForQuit
  BY <1>5, SameSocket, QuitsInStep DEF WaitForQuit
<1> QED
  BY <1>1, <1>2, <1>3, <1>4, <1>5 DEF User

-----------------------------------------------------------------------------
(* One step of a director *)

(* The producer's side is as it was. *)
ProducerSame == UNCHANGED <<menu, shown, reader, reader_id>>

LEMMA DirectorHis ==
  ASSUME Inv, AllInStep, NEW d \in Director, ProducerSame,
         \A e \in Director \ {d} :
           UNCHANGED <<toDir[e], toProd[e], starting[e], play[e]>>
  PROVE  OnlyHis(d) /\ OnlyRecord(d) /\ SameRecord(d) /\ CountsAreTrue'
BY SameMenu DEF OnlyHis, ProducerSame

LEMMA StagesElsewhere ==
  ASSUME Inv, NEW d \in Director,
         \/ UNCHANGED play
         \/ \E x : play' = [play EXCEPT ![d] = x],
         \/ UNCHANGED starting
         \/ \E x : starting' = [starting EXCEPT ![d] = x]
  PROVE  \A e \in Director \ {d} : UNCHANGED <<starting[e], play[e]>>
BY DEF Inv, Stages

(* What it says of itself bears its id. *)
LEMMA OwnReply ==
  ASSUME Inv, NEW d \in Director, NEW t \in {"STARTED", "STOPPED", "QUITED"},
         SendProd(d, Msg(t, director_id[d], NONE)), UNCHANGED reader_id, OwnReplies(d)
  PROVE  /\ \A e \in Director \ {d} : toProd'[e] = toProd[e]
         /\ OneMore(toProd, toProd', d, t) /\ OwnReplies(d)'
<1>1. /\ director_id[d] \in Nat
      /\ director_id[d] \in {0, reader_id[d]}
  BY DEF Inv, Identity, IdTypes
<1>2. /\ Msg(t, director_id[d], NONE) \in Message
      /\ Msg(t, director_id[d], NONE).type = t
      /\ Msg(t, director_id[d], NONE).id = director_id[d]
  BY <1>1, MsgType
<1> QED
  BY <1>1, <1>2, SendProdTokens

LEMMA ConnectInStep ==
  ASSUME Inv, Inv', OwnIds, AllInStep, NEW d \in Director, Connect(d)
  PROVE  AllInStep'
<1>1. /\ SendProd(d, Msg("ID", 0, NONE)) /\ ProducerSame
      /\ UNCHANGED <<toDir, starting, play>>
  BY DEF Connect, ProducerSame
<1>2. InStep(d) /\ OwnReplies(d)
  BY DEF AllInStep, InStep
<1>3. Msg("ID", 0, NONE) \in Message /\ Msg("ID", 0, NONE).type = "ID"
  BY MsgType
<1>4. /\ \A e \in Director \ {d} : toProd'[e] = toProd[e]
      /\ OneMore(toProd, toProd', d, "ID") /\ OwnReplies(d)'
  BY <1>1, <1>2, <1>3, SendProdTokens DEF Replies, ProducerSame
<1>5. NoNew(toProd, toProd', d, Replies) /\ NoNew(toDir, toDir', d, Commands)
  BY <1>1, <1>4, OneMoreOther, SameSocket DEF Replies
<1>6. OnlyHis(d) /\ OnlyRecord(d) /\ SameRecord(d) /\ CountsAreTrue'
  BY <1>1, <1>4, DirectorHis
<1>7. InStep(d)'
  BY <1>1, <1>2, <1>4, <1>5, <1>6, KeepsInStep DEF ProducerSame
<1> QED
  BY <1>6, <1>7, AllFromOne

LEMMA ReceiveIdInStep ==
  ASSUME Inv, Inv', OwnIds, AllInStep, NEW d \in Director, ReceiveId(d)
  PROVE  AllInStep'
<1> DEFINE L == PlayList(d, Head(toDir[d]).id)
<1>1. /\ Receives(d, "ID") /\ ProducerSame /\ UNCHANGED <<starting, play>>
      /\ toProd' = [toProd EXCEPT ![d] = @ \o L]
  BY DEF ReceiveId, Receives, ProducerSame
<1>2. InStep(d) /\ OwnReplies(d)
  BY DEF AllInStep, InStep
<1>3. L \in Seq(Message) /\ \A n \in 1 .. Len(L) : L[n].type = "PLAY"
  <2>1. Repertoire[d] \in Seq(Play) /\ toDir \in Channels
    BY TheatreAssumption DEF Inv, Transit
  <2>2. Head(toDir[d]).id \in Nat
    BY <1>1, <2>1, HeadIsMessage DEF Receives, Parsed, Message
  <2>3. \A k \in 1 .. Len(Repertoire[d]) :
          /\ Msg("PLAY", Head(toDir[d]).id, Repertoire[d][k]) \in Message
          /\ Msg("PLAY", Head(toDir[d]).id, Repertoire[d][k]).type = "PLAY"
    BY <2>1, <2>2, MsgType
  <2> QED
    BY <2>1, <2>3 DEF PlayList
<1> HIDE DEF L
<1>4. toProd \in Channels
  BY DEF Inv, Transit
<1>5. /\ \A e \in Director \ {d} : toProd'[e] = toProd[e]
      /\ NoNew(toProd, toProd', d, Replies)
  BY <1>1, <1>3, <1>4, ListedTokens
<1>6. OwnReplies(d)'
  <2>1. toProd[d] \in Seq(Message) /\ toProd'[d] = toProd[d] \o L
    BY <1>1, <1>4 DEF Channels, Channel
  <2>2. \A n \in 1 .. Len(toProd'[d]) :
          \/ n \in 1 .. Len(toProd[d]) /\ toProd'[d][n] = toProd[d][n]
          \/ toProd'[d][n].type = "PLAY"
    BY <1>3, <2>1
  <2> QED
    BY <1>1, <1>2, <2>2 DEF OwnReplies, Replies, ProducerSame
<1>7. (\A e \in Director \ {d} : toDir'[e] = toDir[e]) /\ NoNew(toDir, toDir', d, Commands)
  BY <1>1, ReceivesTokens
<1>8. OnlyHis(d) /\ OnlyRecord(d) /\ SameRecord(d) /\ CountsAreTrue'
  BY <1>1, <1>5, <1>7, DirectorHis
<1>9. InStep(d)'
  BY <1>1, <1>2, <1>5, <1>6, <1>7, <1>8, KeepsInStep DEF ProducerSame
<1> QED
  BY <1>8, <1>9, AllFromOne

(* A director in the gray area, or out of the menu for good, may do         *)
(* anything.                                                                *)
LEMMA StaysGray ==
  ASSUME NEW d \in Director, RecordFits(d), ~(Tokens(d) \subseteq {"STOPPED"}),
         Running(d) \/ ~(Tokens(d) \subseteq {"stop"}), SameRecord(d), ProducerSame
  PROVE  RecordFits(d)'
BY DEF RecordFits, SameRecord, ProducerSame

LEMMA ReceiveStartInStep ==
  ASSUME Inv, Inv', OwnIds, AllInStep, NEW d \in Director, ReceiveStart(d)
  PROVE  AllInStep'
<1>1. /\ Receives(d, "start") /\ ProducerSame /\ UNCHANGED toProd
      /\ play' = [play EXCEPT ![d] = [name |-> Head(toDir[d]).name, finished |-> FALSE]]
      /\ starting' = [starting EXCEPT ![d] = Head(toDir[d]).name]
  BY DEF ReceiveStart, Receives, ProducerSame
<1>2. /\ FewTokens(d) /\ InOrder(d) /\ OwnReplies(d) /\ TokenFits(d) /\ RecordFits(d)
  BY DEF AllInStep, InStep
<1>3. /\ \A e \in Director \ {d} : toDir'[e] = toDir[e]
      /\ NoNew(toDir, toDir', d, Commands) /\ InFlight(toDir, d, "start")
      /\ ~InFlight(toDir', d, "start") /\ ~InFlight(toDir, d, "stop")
  BY <1>1, <1>2, ReceivesTokens DEF InOrder, Commands
<1>4. Tokens(d) = {"start"}
  <2>1. "start" \in Tokens(d) /\ "stop" \notin Tokens(d)
    BY <1>3 DEF Tokens, Commands, Replies
  <2> QED
    BY <1>2, <2>1 DEF FewTokens
<1>5. Tokens(d)' \subseteq {"starting"}
  <2>1. \A t \in Commands : InFlight(toDir', d, t) => t \in Tokens(d) /\ t # "start"
    BY <1>3 DEF NoNew, Tokens
  <2>2. \A t \in Replies : InFlight(toProd', d, t) => t \in Tokens(d)
    BY <1>1 DEF Tokens
  <2> QED
    BY <1>4, <2>1, <2>2 DEF Tokens, Replies
<1>6. FewTokens(d)' /\ InOrder(d)'
  <2>1. FewTokens(d)'
    BY <1>5 DEF FewTokens
  <2>2. InOrder(d)'
    BY <1>1, <1>2, <1>3 DEF InOrder, NoNew, Single, Before, Commands
  <2> QED
    BY <2>1, <2>2
<1>7. Running(d)' /\ play'[d].name # NONE
  <2>1. Head(toDir[d]).name \in PlaysOf(d)
    <3>1. toDir[d] # <<>> /\ Head(toDir[d]).type = "start" /\ toDir \in Channels
      BY <1>1 DEF Receives, Parsed, Inv, Transit
    <3>2. 1 \in 1 .. Len(toDir[d]) /\ Head(toDir[d]) = toDir[d][1]
      BY <3>1, HeadIsMessage
    <3> QED
      BY <3>1, <3>2 DEF Inv, Transit, ToldRight
  <2>2. PlaysOf(d) \subseteq Play
    BY TheatreAssumption DEF PlaysOf
  <2>3. play'[d] = [name |-> Head(toDir[d]).name, finished |-> FALSE]
    BY <1>1 DEF Inv, Stages
  <2> QED
    BY <2>1, <2>2, <2>3, PlayAssumption DEF Running, NONE
<1>8. TokenFits(d)'
  BY <1>5, <1>7 DEF TokenFits
<1>9. \A e \in Director \ {d} : UNCHANGED <<starting[e], play[e]>>
  BY <1>1, StagesElsewhere
<1>10. OnlyHis(d) /\ OnlyRecord(d) /\ SameRecord(d) /\ CountsAreTrue'
  BY <1>1, <1>3, <1>9, DirectorHis
<1>11. RecordFits(d)'
  BY <1>1, <1>2, <1>4, <1>10, StaysGray
<1>12. OwnReplies(d)'
  BY <1>1, <1>2 DEF OwnReplies, ProducerSame
<1> QED
  BY <1>6, <1>8, <1>10, <1>11, <1>12, AllFromOne DEF InStep

LEMMA ConfirmStartedInStep ==
  ASSUME Inv, Inv', OwnIds, AllInStep, NEW d \in Director, ConfirmStarted(d)
  PROVE  AllInStep'
<1>1. /\ starting[d] # NONE /\ starting' = [starting EXCEPT ![d] = NONE]
      /\ SendProd(d, Msg("STARTED", director_id[d], NONE))
      /\ ProducerSame /\ UNCHANGED <<toDir, play>>
  BY DEF ConfirmStarted, ProducerSame
<1>2. FewTokens(d) /\ InOrder(d) /\ OwnReplies(d) /\ TokenFits(d) /\ RecordFits(d)
  BY DEF AllInStep, InStep
<1>3. Tokens(d) = {"starting"}
  BY <1>1, <1>2 DEF FewTokens, Tokens
<1>4. Running(d) /\ play[d] # NoPlay
  BY <1>2, <1>3 DEF TokenFits, Running, NoPlay
<1>5. /\ \A e \in Director \ {d} : toProd'[e] = toProd[e]
      /\ OneMore(toProd, toProd', d, "STARTED") /\ OwnReplies(d)'
  BY <1>1, <1>2, OwnReply DEF ProducerSame
<1>6. starting'[d] = NONE /\ \A e \in Director \ {d} : UNCHANGED <<starting[e], play[e]>>
  BY <1>1 DEF Inv, Stages
<1>7. Tokens(d)' \subseteq {"STARTED"}
  <2>1. \A t \in Commands : ~InFlight(toDir', d, t)
    BY <1>1, <1>3 DEF Tokens, Commands
  <2>2. \A t \in Replies : InFlight(toProd', d, t) => t = "STARTED"
    BY <1>3, <1>5 DEF Tokens, Replies, OneMore
  <2> QED
    BY <1>6, <2>1, <2>2 DEF Tokens
<1>8. FewTokens(d)' /\ InOrder(d)'
  <2>1. ~InFlight(toProd, d, "STARTED") /\ ~InFlight(toProd, d, "STOPPED")
    BY <1>3 DEF Tokens, Replies
  <2>2. \A t \in Replies : Single(toProd', d, t)
    BY <1>2, <1>5, <2>1 DEF InOrder, OneMore
  <2>3. Before(toProd', d, "STARTED", "STOPPED")
    BY <1>2, <1>5, <2>1 DEF InOrder, OneMore
  <2>4. FewTokens(d)'
    BY <1>7 DEF FewTokens
  <2> QED
    BY <1>1, <1>2, <2>2, <2>3, <2>4 DEF InOrder, Single, Before
<1>9. TokenFits(d)'
  BY <1>1, <1>2, <1>4, <1>7 DEF TokenFits, Running
<1>10. OnlyHis(d) /\ OnlyRecord(d) /\ SameRecord(d) /\ CountsAreTrue'
  BY <1>1, <1>5, <1>6, DirectorHis
<1>11. RecordFits(d)'
  BY <1>1, <1>2, <1>3, <1>10, StaysGray
<1> QED
  BY <1>5, <1>8, <1>9, <1>10, <1>11, AllFromOne DEF InStep

(* A [STOPPED] in its turn: the play was running and is over now, and no    *)
(* other [STOPPED] is on its way.                                           *)
LEMMA LastStopped ==
  ASSUME Inv, NEW d \in Director, InStep(d), Running(d), starting[d] = NONE, UNCHANGED starting,
         NoNew(toDir, toDir', d, Commands), OneMore(toProd, toProd', d, "STOPPED")
  PROVE  /\ Tokens(d) \subseteq {"stop", "STARTED"}
         /\ Tokens(d)' \subseteq Tokens(d) \union {"STOPPED"}
         /\ FewTokens(d)' /\ InOrder(d)'
<1>1. FewTokens(d) /\ InOrder(d) /\ TokenFits(d)
  BY DEF InStep
<1>2. Tokens(d) \subseteq {"stop", "STARTED"}
  BY <1>1 DEF TokenFits, Tokens, Commands, Replies
<1>3. Tokens(d)' \subseteq Tokens(d) \union {"STOPPED"}
  BY DEF Tokens, NoNew, OneMore
<1>4. FewTokens(d)'
  BY <1>1, <1>2, <1>3 DEF FewTokens
<1>5. ~InFlight(toProd, d, "STOPPED")
  BY <1>2 DEF Tokens, Replies
<1>6. \A t \in Replies : Single(toProd', d, t)
  BY <1>1, <1>5 DEF InOrder, OneMore
<1>7. Before(toProd', d, "STARTED", "STOPPED")
  BY <1>1 DEF InOrder, OneMore
<1>8. InOrder(d)'
  BY <1>1, <1>6, <1>7 DEF InOrder, NoNew, Commands
<1> QED
  BY <1>2, <1>3, <1>4, <1>8

LEMMA ReceiveStopInStep ==
  ASSUME Inv, Inv', OwnIds, AllInStep, ~outOfTurn', NEW d \in Director, ReceiveStop(d)
  PROVE  AllInStep'
<1>1. Receives(d, "stop") /\ ProducerSame /\ UNCHANGED starting /\ starting[d] = NONE
  BY DEF ReceiveStop, Receives, ProducerSame
<1>2. InStep(d) /\ InOrder(d) /\ FewTokens(d) /\ OwnReplies(d) /\ TokenFits(d) /\ RecordFits(d)
  BY DEF AllInStep, InStep
<1>3. /\ \A e \in Director \ {d} : toDir'[e] = toDir[e]
      /\ NoNew(toDir, toDir', d, Commands) /\ InFlight(toDir, d, "stop")
      /\ ~InFlight(toDir', d, "stop")
  BY <1>1, <1>2, ReceivesTokens DEF InOrder, Commands
<1>4. CASE UNCHANGED <<play, toProd>>
  <2>1. OnlyHis(d) /\ OnlyRecord(d) /\ SameRecord(d) /\ CountsAreTrue'
    BY <1>1, <1>3, <1>4, DirectorHis
  <2>2. OwnReplies(d)' /\ NoNew(toProd, toProd', d, Replies)
    BY <1>1, <1>2, <1>4, SameSocket DEF OwnReplies, ProducerSame
  <2>3. InStep(d)'
    BY <1>1, <1>2, <1>3, <1>4, <2>1, <2>2, KeepsInStep DEF ProducerSame
  <2> QED
    BY <2>1, <2>3, AllFromOne
<1>5. CASE /\ play' = [play EXCEPT ![d] = NoPlay] /\ ~play[d].finished
           /\ SendProd(d, Msg("STOPPED", director_id[d], NONE))
  <2>1. "stop" \in Tokens(d) /\ Running(d)
    BY <1>3, <1>5 DEF Tokens, Commands, Running
  <2>2. /\ \A e \in Director \ {d} : toProd'[e] = toProd[e]
        /\ OneMore(toProd, toProd', d, "STOPPED") /\ OwnReplies(d)'
    BY <1>1, <1>2, <1>5, OwnReply DEF ProducerSame
  <2>3. play'[d] = NoPlay /\ \A e \in Director \ {d} : UNCHANGED <<starting[e], play[e]>>
    BY <1>1, <1>5 DEF Inv, Stages
  <2>4. /\ Tokens(d) \subseteq {"stop", "STARTED"}
        /\ Tokens(d)' \subseteq Tokens(d) \union {"STOPPED"}
        /\ FewTokens(d)' /\ InOrder(d)'
    BY <1>1, <1>2, <1>3, <2>1, <2>2, LastStopped
  <2>5. Tokens(d)' \subseteq {"STOPPED"}
    <3>1. "stop" \notin Tokens(d)'
      BY <1>3 DEF Tokens, Commands, Replies
    <3>2. "STARTED" \notin Tokens(d)
      BY <1>2, <2>1 DEF FewTokens
    <3> QED
      BY <2>4, <3>1, <3>2
  <2>6. ~Running(d)'
    BY <2>3 DEF Running, NoPlay
  <2>7. TokenFits(d)'
    BY <2>3, <2>5, <2>6 DEF TokenFits
  <2>8. OnlyHis(d) /\ OnlyRecord(d) /\ SameRecord(d) /\ CountsAreTrue'
    BY <1>1, <1>3, <2>2, <2>3, DirectorHis
  <2>9. RecordFits(d)'
    BY <1>1, <1>2, <2>1, <2>8, StaysGray
  <2> QED
    BY <2>2, <2>4, <2>7, <2>8, <2>9, AllFromOne DEF InStep
<1> QED
  BY <1>4, <1>5 DEF ReceiveStop

(* A play that has been confirmed as started comes to its end. *)
LEMMA LastExitInStep ==
  ASSUME Inv, Inv', OwnIds, AllInStep, ~outOfTurn', NEW d \in Director, LastExit(d)
  PROVE  AllInStep'
<1>1. /\ ProducerSame /\ UNCHANGED <<toDir, starting>> /\ starting[d] = NONE /\ Running(d)
      /\ play' = [play EXCEPT ![d].finished = TRUE]
      /\ SendProd(d, Msg("STOPPED", director_id[d], NONE))
  BY DEF LastExit, ProducerSame
<1>2. InStep(d) /\ FewTokens(d) /\ OwnReplies(d) /\ TokenFits(d) /\ RecordFits(d)
  BY DEF AllInStep, InStep
<1>3. /\ \A e \in Director \ {d} : toProd'[e] = toProd[e]
      /\ OneMore(toProd, toProd', d, "STOPPED") /\ OwnReplies(d)'
  BY <1>1, <1>2, OwnReply DEF ProducerSame
<1>4. /\ play'[d].finished /\ play'[d].name = play[d].name
      /\ \A e \in Director \ {d} : UNCHANGED <<starting[e], play[e]>>
  BY <1>1 DEF Inv, Stages
<1>5. /\ Tokens(d) \subseteq {"stop", "STARTED"}
      /\ Tokens(d)' \subseteq Tokens(d) \union {"STOPPED"}
      /\ FewTokens(d)' /\ InOrder(d)'
  <2>1. NoNew(toDir, toDir', d, Commands)
    BY <1>1, SameSocket
  <2> QED
    BY <1>1, <1>2, <1>3, <2>1, LastStopped
<1>6. play'[d] # NoPlay /\ ~Running(d)'
  BY <1>1, <1>2, <1>4 DEF TokenFits, NoPlay, Running
<1>7. TokenFits(d)'
  BY <1>5, <1>6 DEF TokenFits
<1>8. OnlyHis(d) /\ OnlyRecord(d) /\ SameRecord(d) /\ CountsAreTrue'
  BY <1>1, <1>3, <1>4, DirectorHis
<1>9. RecordFits(d)'
  BY <1>1, <1>2, <1>5, <1>6, <1>8 DEF RecordFits, SameRecord, ProducerSame
<1> QED
  BY <1>3, <1>5, <1>7, <1>8, <1>9, AllFromOne DEF InStep

(* Nothing of the handshake moves when a director leaves or dies: what it   *)
(* says last is [QUITED], and what was on its way to it is lost.            *)
LEMMA LeaveInStep ==
  ASSUME Inv, Inv', OwnIds, AllInStep, NEW d \in Director, ProducerSame,
         UNCHANGED <<starting, play>>,
         toProd' = toProd \/ SendProd(d, Msg("QUITED", director_id[d], NONE)),
         toDir' = toDir \/ \E t : Receives(d, t)
  PROVE  AllInStep'
<1>1. InStep(d) /\ OwnReplies(d)
  BY DEF AllInStep, InStep
<1>2. (\A e \in Director \ {d} : toDir'[e] = toDir[e]) /\ NoNew(toDir, toDir', d, Commands)
  <2>1. CASE toDir' = toDir
    BY <2>1, SameSocket
  <2>2. ASSUME NEW t, Receives(d, t)
        PROVE  (\A e \in Director \ {d} : toDir'[e] = toDir[e])
               /\ NoNew(toDir, toDir', d, Commands)
    BY <2>2, ReceivesTokens
  <2> QED
    BY <2>1, <2>2
<1>3. /\ \A e \in Director \ {d} : toProd'[e] = toProd[e]
      /\ NoNew(toProd, toProd', d, Replies) /\ OwnReplies(d)'
  <2>1. CASE toProd' = toProd
    BY <1>1, <2>1, SameSocket DEF OwnReplies, ProducerSame
  <2>2. CASE SendProd(d, Msg("QUITED", director_id[d], NONE))
    <3>1. /\ \A e \in Director \ {d} : toProd'[e] = toProd[e]
          /\ OneMore(toProd, toProd', d, "QUITED") /\ OwnReplies(d)'
      BY <1>1, <2>2, OwnReply DEF ProducerSame
    <3> QED
      BY <3>1, OneMoreOther DEF Replies
  <2> QED
    BY <2>1, <2>2
<1>4. OnlyHis(d) /\ OnlyRecord(d) /\ SameRecord(d) /\ CountsAreTrue'
  BY <1>2, <1>3, DirectorHis
<1>5. InStep(d)'
  BY <1>1, <1>2, <1>3, <1>4, KeepsInStep DEF ProducerSame
<1> QED
  BY <1>4, <1>5, AllFromOne

LEMMA AllInStepStep ==
  ASSUME Inv, Inv', OwnIds, AllInStep, ~outOfTurn', [Next]_vars
  PROVE  AllInStep'
<1>1. CASE UNCHANGED vars
  BY <1>1, SameSocket, QuitsInStep
<1>2. ASSUME NEW d \in Director, Reader(d) PROVE AllInStep'
  BY <1>2, ReadIdInStep, ReadPlayInStep, ReadReplyInStep, ReadGoneInStep DEF Reader
<1>3. ASSUME NEW d \in Director,
             ReceiveId(d) \/ ReceiveStart(d) \/ ConfirmStarted(d) \/ ReceiveStop(d) \/ Connect(d)
      PROVE  AllInStep'
  BY <1>3, ReceiveIdInStep, ReceiveStartInStep, ConfirmStartedInStep, ReceiveStopInStep,
     ConnectInStep
<1>4. ASSUME NEW d \in Director,
             ReceiveStopNoPlay(d) \/ ReceiveQuit(d) \/ ReceiveEOF(d) \/ DirectorSigint(d) \/ Crash(d)
      PROVE  AllInStep'
  <2>1. ProducerSame /\ UNCHANGED <<starting, play>>
    BY <1>4 DEF ReceiveStopNoPlay, ReceiveQuit, ReceiveEOF, DirectorSigint, Crash, Leave,
       Receives, ProducerSame
  <2>2. toProd' = toProd \/ SendProd(d, Msg("QUITED", director_id[d], NONE))
    BY <1>4 DEF ReceiveStopNoPlay, ReceiveQuit, ReceiveEOF, DirectorSigint, Crash, Leave
  <2>3. toDir' = toDir \/ \E t : Receives(d, t)
    BY <1>4 DEF ReceiveStopNoPlay, ReceiveQuit, ReceiveEOF, DirectorSigint, Crash
  <2> QED
    BY <2>1, <2>2, <2>3, LeaveInStep
<1>5. ASSUME NEW d \in Director, LastExit(d) \/ GhostExit(d) PROVE AllInStep'
  BY <1>5, LastExitInStep DEF GhostExit
<1> QED
  BY <1>1, <1>2, <1>3, <1>4, <1>5, AcceptInStep, UserInStep
     DEF Next, DirectorReactor, Outside

(* What has been sent out of turn stays sent. *)
LEMMA OutOfTurnStays == outOfTurn /\ [Next]_vars => outOfTurn'
<1> SUFFICES ASSUME outOfTurn, Next PROVE outOfTurn'
  OBVIOUS
<1>1. ASSUME Accept \/ WaitForQuit \/ User PROVE outOfTurn'
  BY <1>1 DEF Accept, User, UiStart, UiStop, UiPastEnd, UiQuit, ProducerSigint, WaitForQuit
<1>2. ASSUME NEW d \in Director, Reader(d) PROVE outOfTurn'
  BY <1>2 DEF Reader, Reads, ReadId, ReadPlay, ReadStarted, ReadStopped, ReadQuited,
     ReadQuitedUnknown, ReadEOF
<1>3. ASSUME NEW d \in Director, DirectorReactor(d) PROVE outOfTurn'
  BY <1>3 DEF DirectorReactor, ReceiveId, ReceiveStart, ConfirmStarted, ReceiveStop,
     ReceiveStopNoPlay, ReceiveQuit, ReceiveEOF, Leave
<1>4. ASSUME NEW d \in Director, Outside(d) \/ LastExit(d) \/ GhostExit(d)
      PROVE  outOfTurn'
  BY <1>4 DEF Outside, Connect, DirectorSigint, Crash, Leave, LastExit, GhostExit
<1> QED
  BY <1>1, <1>2, <1>3, <1>4 DEF Next

LEMMA HandshakeStep == HandshakeInv /\ [Next]_vars => HandshakeInv'
<1> SUFFICES ASSUME HandshakeInv, [Next]_vars PROVE HandshakeInv'
  OBVIOUS
<1>1. Inv /\ Inv' /\ OwnIds /\ OwnIds'
  BY InvStep, OwnIdsStep DEF HandshakeInv
<1>2. ~outOfTurn' => ~outOfTurn
  BY OutOfTurnStays
<1>3. ~outOfTurn' => AllInStep'
  BY <1>1, <1>2, AllInStepStep DEF HandshakeInv
<1> QED
  BY <1>1, <1>2, <1>3 DEF HandshakeInv

LEMMA HandshakeAlways == Spec => []HandshakeInv
  BY HandshakeInit, HandshakeStep, PTL DEF Spec

-----------------------------------------------------------------------------
(* No director is told to start while its play runs, until a director has   *)
(* confirmed a play as stopped out of turn.                                 *)
THEOREM OnePlayAtATimeAlways == Spec => []HandshakeOnePlay
  BY HandshakeAlways, HandshakeImplies, PTL

(* Until then, whoever stands AVAILABLE in the menu is not playing. *)
THEOREM AvailableIsAlwaysIdle == Spec => []HandshakeAvailable
  BY HandshakeAlways, HandshakeImplies, PTL

(* Until then, no stop reaches a director that has no play. *)
THEOREM StopAlwaysFindsPlay == Spec => []HandshakeStop
  BY HandshakeAlways, HandshakeImplies, PTL

(* Until then, the printed numbers of available directors are the true ones. *)
THEOREM CountsAreAlwaysTrue == Spec => []HandshakeCounts
  BY HandshakeAlways, HandshakeImplies, PTL
=============================================================================
