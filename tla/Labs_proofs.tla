---------------------------- MODULE Labs_proofs ----------------------------
(***************************************************************************)
(* What the programs make of their files, for files of any length.         *)
(*                                                                         *)
(* Casting: a director's team is large enough for any two fragments in a   *)
(* row, and the titles tell the scene.                                     *)
(*                                                                         *)
(* Recital: what lab1 recites is what lab0 prints, as far as it has come,  *)
(* and a well-formed script that is split and recited is itself again.     *)
(***************************************************************************)
EXTENDS Casting, Recital, FiniteSetTheorems, FunctionTheorems, SequenceTheorems,
        WellFoundedInduction, TLAPS

-----------------------------------------------------------------------------
(* Numbers: the least one of a set, induction up to a number, the largest   *)
(* one of a set.                                                            *)

LEMMA LeastNumber ==
  ASSUME NEW T, T \subseteq Nat, T # {}
  PROVE  \E m \in T : \A k \in T : m <= k
<1>1. \E x \in T : \A y \in T : ~ (<<y, x>> \in OpToRel(<, Nat))
  BY NatLessThanWellFounded, WFMin
<1>2. \A x, y \in Nat : <<y, x>> \in OpToRel(<, Nat) <=> y < x
  BY DEF OpToRel
<1>3. PICK m \in T : \A y \in T : ~ (<<y, m>> \in OpToRel(<, Nat))
  BY <1>1
<1>4. \A k \in T : k \in Nat /\ m \in Nat /\ ~ (k < m)
  BY <1>2, <1>3
<1> QED
  BY <1>4

LEMMA UpTo ==
  ASSUME NEW n \in Nat, NEW T, 0 \in T,
         \A i \in 1 .. n : i - 1 \in T => i \in T
  PROVE  \A i \in 0 .. n : i \in T
<1> SUFFICES ASSUME NEW j \in 0 .. n, j \notin T PROVE FALSE
  OBVIOUS
<1> DEFINE Bad == {i \in 0 .. n : i \notin T}
<1>1. Bad \subseteq Nat /\ Bad # {}
  OBVIOUS
<1>2. PICK m \in Bad : \A k \in Bad : m <= k
  BY <1>1, LeastNumber
<1>3. m \in 1 .. n
  BY <1>2
<1>4. m - 1 \in 0 .. n /\ m - 1 \notin Bad
  BY <1>2, <1>3
<1> QED
  BY <1>2, <1>3, <1>4

LEMMA LargestNumber ==
  ASSUME NEW n \in Nat, NEW s, s \subseteq 1 .. n, s # {}
  PROVE  Max(s) \in s /\ \A x \in s : x <= Max(s)
<1> DEFINE T == {n - x : x \in s}
<1>1. T \subseteq Nat /\ T # {}
  OBVIOUS
<1>2. PICK m \in T : \A k \in T : m <= k
  BY <1>1, LeastNumber
<1>3. PICK y \in s : m = n - y
  BY <1>2
<1>4. \A x \in s : x <= y
  <2> SUFFICES ASSUME NEW x \in s PROVE x <= y
    OBVIOUS
  <2>1. n - x \in T
    OBVIOUS
  <2>2. n - y <= n - x
    BY <1>2, <1>3, <2>1
  <2> QED
    BY <2>2
<1>5. \E z \in s : \A x \in s : z >= x
  BY <1>4
<1>6. Max(s) \in s /\ \A x \in s : Max(s) >= x
  BY <1>5 DEF Max
<1> QED
  BY <1>6

-----------------------------------------------------------------------------
(* The two folds, line by line. *)

LEMMA ReadingByLine ==
  ASSUME NEW conf, NEW lines, NEW k \in Nat, DOMAIN lines = 1 .. k
  PROVE  \E a : /\ a[0] = Reading(conf)
                /\ \A i \in 1 .. k : a[i] = ReadLine(a[i - 1], lines[i])
                /\ parse_config_file(conf, lines) = a[k]
<1> DEFINE P(n, g) == g = [s \in SUBSET (1 .. n) |->
                             IF s = {} THEN Reading(conf)
                             ELSE ReadLine(g[s \ {Max(s)}], lines[Max(s)])]
           T == {n \in 0 .. k : \E g : P(n, g)}
<1>1. 0 \in T
  <2>1. P(0, [s \in SUBSET (1 .. 0) |-> Reading(conf)])
    <3>1. SUBSET (1 .. 0) = {{}}
      OBVIOUS
    <3> QED
      BY <3>1
  <2> QED
    BY <2>1
<1>2. ASSUME NEW n \in 1 .. k, n - 1 \in T PROVE n \in T
  <2>0. n \in Nat /\ 1 <= n
    OBVIOUS
  <2>1. PICK g : P(n - 1, g)
    BY <1>2
  <2> DEFINE h == [s \in SUBSET (1 .. n) |->
                     IF n \in s THEN ReadLine(g[s \ {n}], lines[n]) ELSE g[s]]
  <2>2. ASSUME NEW s \in SUBSET (1 .. n)
        PROVE  h[s] = IF s = {} THEN Reading(conf)
                      ELSE ReadLine(h[s \ {Max(s)}], lines[Max(s)])
    <3>1. CASE s = {}
      BY <2>1, <3>1
    <3>2. CASE n \in s
      <4>1. Max(s) = n
        <5>1. Max(s) \in s /\ n <= Max(s)
          BY <2>0, <3>2, LargestNumber
        <5>2. Max(s) \in 1 .. n
          BY <5>1
        <5> QED
          BY <2>0, <5>1, <5>2
      <4>2. s \ {n} \in SUBSET (1 .. n) /\ n \notin s \ {n}
        OBVIOUS
      <4>3. h[s \ {n}] = g[s \ {n}]
        BY <4>2
      <4>4. h[s] = ReadLine(g[s \ {n}], lines[n])
        BY <3>2
      <4> HIDE DEF h, P
      <4> QED
        BY <3>2, <4>1, <4>3, <4>4
    <3>3. CASE s # {} /\ n \notin s
      <4>1. Max(s) \in s
        BY <2>0, <3>3, LargestNumber
      <4>2. s \in SUBSET (1 .. n - 1) /\ s \ {Max(s)} \in SUBSET (1 .. n - 1)
        <5>1. \A x \in s : x \in 1 .. n /\ x # n
          BY <3>3
        <5>2. \A x \in s : x \in 1 .. n - 1
          BY <2>0, <5>1
        <5> QED
          BY <5>2
      <4>3. h[s \ {Max(s)}] = g[s \ {Max(s)}] /\ h[s] = g[s]
        <5>1. s \ {Max(s)} \in SUBSET (1 .. n) /\ n \notin s \ {Max(s)}
          BY <3>3
        <5> QED
          BY <3>3, <5>1
      <4>4. g[s] = ReadLine(g[s \ {Max(s)}], lines[Max(s)])
        BY <2>1, <3>3, <4>2
      <4> HIDE DEF h, P
      <4> QED
        BY <3>3, <4>3, <4>4
    <3> QED
      BY <3>1, <3>2, <3>3
  <2>3. P(n, h)
    <3>1. h = [s \in SUBSET (1 .. n) |-> h[s]]
      OBVIOUS
    <3> HIDE DEF h
    <3> QED
      BY <2>2, <3>1
  <2> HIDE DEF P, h
  <2> QED
    BY <2>3
<1>3. k \in T
  <2> HIDE DEF T
  <2> QED
    BY <1>1, <1>2, UpTo
<1> DEFINE iter == CHOOSE g : P(k, g)
<1>4. P(k, iter)
  <2> HIDE DEF P
  <2> QED
    BY <1>3
<1>5. parse_config_file(conf, lines) = iter[1 .. k]
  BY DEF parse_config_file, FoldLeft, MapThenFoldSet
<1> DEFINE a == [i \in 0 .. k |-> iter[1 .. i]]
<1> HIDE DEF iter
<1>6. a[0] = Reading(conf)
  <2>1. 1 .. 0 = {} /\ {} \in SUBSET (1 .. k)
    OBVIOUS
  <2> QED
    BY <1>4, <2>1
<1>7. ASSUME NEW i \in 1 .. k PROVE a[i] = ReadLine(a[i - 1], lines[i])
  <2>0. i \in Nat /\ 1 <= i /\ i <= k
    OBVIOUS
  <2>1. 1 .. i \in SUBSET (1 .. k) /\ 1 .. i # {} /\ i \in 1 .. i
    BY <2>0
  <2>2. Max(1 .. i) = i
    <3>1. Max(1 .. i) \in 1 .. i /\ i <= Max(1 .. i)
      BY <2>0, <2>1, LargestNumber
    <3> QED
      BY <2>0, <3>1
  <2>3. (1 .. i) \ {i} = 1 .. i - 1
    OBVIOUS
  <2>4. iter[1 .. i] = ReadLine(iter[1 .. i - 1], lines[i])
    BY <1>4, <2>1, <2>2, <2>3
  <2> QED
    BY <2>4
<1>8. a[k] = iter[1 .. k]
  OBVIOUS
<1> HIDE DEF P, a
<1> QED
  BY <1>5, <1>6, <1>7, <1>8

LEMMA PartsByLine ==
  ASSUME NEW lines, NEW k \in Nat, DOMAIN lines = 1 .. k
  PROVE  \E a : /\ a[0] = <<>>
                /\ \A i \in 1 .. k : a[i] = AddPart(a[i - 1], lines[i])
                /\ parse_script_file(lines) = a[k]
<1> DEFINE P(n, g) == g = [s \in SUBSET (1 .. n) |->
                             IF s = {} THEN <<>>
                             ELSE AddPart(g[s \ {Max(s)}], lines[Max(s)])]
           T == {n \in 0 .. k : \E g : P(n, g)}
<1>1. 0 \in T
  <2>1. P(0, [s \in SUBSET (1 .. 0) |-> <<>>])
    <3>1. SUBSET (1 .. 0) = {{}}
      OBVIOUS
    <3> QED
      BY <3>1
  <2> QED
    BY <2>1
<1>2. ASSUME NEW n \in 1 .. k, n - 1 \in T PROVE n \in T
  <2>0. n \in Nat /\ 1 <= n
    OBVIOUS
  <2>1. PICK g : P(n - 1, g)
    BY <1>2
  <2> DEFINE h == [s \in SUBSET (1 .. n) |->
                     IF n \in s THEN AddPart(g[s \ {n}], lines[n]) ELSE g[s]]
  <2>2. ASSUME NEW s \in SUBSET (1 .. n)
        PROVE  h[s] = IF s = {} THEN <<>>
                      ELSE AddPart(h[s \ {Max(s)}], lines[Max(s)])
    <3>1. CASE s = {}
      BY <2>1, <3>1
    <3>2. CASE n \in s
      <4>1. Max(s) = n
        <5>1. Max(s) \in s /\ n <= Max(s)
          BY <2>0, <3>2, LargestNumber
        <5>2. Max(s) \in 1 .. n
          BY <5>1
        <5> QED
          BY <2>0, <5>1, <5>2
      <4>2. s \ {n} \in SUBSET (1 .. n) /\ n \notin s \ {n}
        OBVIOUS
      <4>3. h[s \ {n}] = g[s \ {n}]
        BY <4>2
      <4>4. h[s] = AddPart(g[s \ {n}], lines[n])
        BY <3>2
      <4> HIDE DEF h, P
      <4> QED
        BY <3>2, <4>1, <4>3, <4>4
    <3>3. CASE s # {} /\ n \notin s
      <4>1. Max(s) \in s
        BY <2>0, <3>3, LargestNumber
      <4>2. s \in SUBSET (1 .. n - 1) /\ s \ {Max(s)} \in SUBSET (1 .. n - 1)
        <5>1. \A x \in s : x \in 1 .. n /\ x # n
          BY <3>3
        <5>2. \A x \in s : x \in 1 .. n - 1
          BY <2>0, <5>1
        <5> QED
          BY <5>2
      <4>3. h[s \ {Max(s)}] = g[s \ {Max(s)}] /\ h[s] = g[s]
        <5>1. s \ {Max(s)} \in SUBSET (1 .. n) /\ n \notin s \ {Max(s)}
          BY <3>3
        <5> QED
          BY <3>3, <5>1
      <4>4. g[s] = AddPart(g[s \ {Max(s)}], lines[Max(s)])
        BY <2>1, <3>3, <4>2
      <4> HIDE DEF h, P
      <4> QED
        BY <3>3, <4>3, <4>4
    <3> QED
      BY <3>1, <3>2, <3>3
  <2>3. P(n, h)
    <3>1. h = [s \in SUBSET (1 .. n) |-> h[s]]
      OBVIOUS
    <3> HIDE DEF h
    <3> QED
      BY <2>2, <3>1
  <2> HIDE DEF P, h
  <2> QED
    BY <2>3
<1>3. k \in T
  <2> HIDE DEF T
  <2> QED
    BY <1>1, <1>2, UpTo
<1> DEFINE iter == CHOOSE g : P(k, g)
<1>4. P(k, iter)
  <2> HIDE DEF P
  <2> QED
    BY <1>3
<1>5. parse_script_file(lines) = iter[1 .. k]
  BY DEF parse_script_file, FoldLeft, MapThenFoldSet
<1> DEFINE a == [i \in 0 .. k |-> iter[1 .. i]]
<1> HIDE DEF iter
<1>6. a[0] = <<>>
  <2>1. 1 .. 0 = {} /\ {} \in SUBSET (1 .. k)
    OBVIOUS
  <2> QED
    BY <1>4, <2>1
<1>7. ASSUME NEW i \in 1 .. k PROVE a[i] = AddPart(a[i - 1], lines[i])
  <2>0. i \in Nat /\ 1 <= i /\ i <= k
    OBVIOUS
  <2>1. 1 .. i \in SUBSET (1 .. k) /\ 1 .. i # {} /\ i \in 1 .. i
    BY <2>0
  <2>2. Max(1 .. i) = i
    <3>1. Max(1 .. i) \in 1 .. i /\ i <= Max(1 .. i)
      BY <2>0, <2>1, LargestNumber
    <3> QED
      BY <2>0, <3>1
  <2>3. (1 .. i) \ {i} = 1 .. i - 1
    OBVIOUS
  <2>4. iter[1 .. i] = AddPart(iter[1 .. i - 1], lines[i])
    BY <1>4, <2>1, <2>2, <2>3
  <2> QED
    BY <2>4
<1>8. a[k] = iter[1 .. k]
  OBVIOUS
<1> HIDE DEF P, a
<1> QED
  BY <1>5, <1>6, <1>7, <1>8

-----------------------------------------------------------------------------
(* A fragment's file: no character has two parts. *)

AnyPart ==
  UNION {{Fragments[f][i] : i \in DOMAIN Fragments[f]} : f \in DOMAIN Fragments}

Distinct(parts) ==
  \A i, j \in DOMAIN parts : parts[i].character = parts[j].character => i = j

LEMMA PartAdded ==
  ASSUME NEW S, NEW parts \in Seq(S), Distinct(parts), NEW line \in S
  PROVE  AddPart(parts, line) \in Seq(S) /\ Distinct(AddPart(parts, line))
<1>1. CASE line.kind # "part" \/ Known(parts, line)
  BY <1>1 DEF AddPart
<1>2. CASE ~(line.kind # "part" \/ Known(parts, line))
  <2> DEFINE more == Append(parts, line)
  <2>1. AddPart(parts, line) = more
    BY <1>2 DEF AddPart
  <2>2. /\ more \in Seq(S) /\ DOMAIN more = 1 .. Len(parts) + 1
        /\ more[Len(parts) + 1] = line
        /\ \A i \in 1 .. Len(parts) : more[i] = parts[i]
    OBVIOUS
  <2>3. \A i \in 1 .. Len(parts) : parts[i].character # line.character
    BY <1>2 DEF Known
  <2> HIDE DEF more
  <2>4. Distinct(more)
    BY <2>2, <2>3 DEF Distinct
  <2> QED
    BY <2>1, <2>2, <2>4
<1> QED
  BY <1>1, <1>2

LEMMA PartsOfFragment ==
  ASSUME NEW f \in DOMAIN Fragments
  PROVE  /\ parse_script_file(Fragments[f]) \in Seq(AnyPart)
         /\ Distinct(parse_script_file(Fragments[f]))
<1>1. PICK k \in Nat : DOMAIN Fragments[f] = 1 .. k
  BY CastingAssumption DEF IsFile
<1>2. PICK a : /\ a[0] = <<>>
               /\ \A i \in 1 .. k : a[i] = AddPart(a[i - 1], Fragments[f][i])
               /\ parse_script_file(Fragments[f]) = a[k]
  BY <1>1, PartsByLine
<1> DEFINE T == {i \in 0 .. k : a[i] \in Seq(AnyPart) /\ Distinct(a[i])}
<1>3. 0 \in T
  <2>1. a[0] \in Seq(AnyPart) /\ DOMAIN a[0] = {}
    BY <1>2
  <2>2. Distinct(a[0])
    BY <2>1 DEF Distinct
  <2> QED
    BY <2>1, <2>2
<1>4. ASSUME NEW i \in 1 .. k, i - 1 \in T PROVE i \in T
  <2>1. Fragments[f][i] \in AnyPart
    BY <1>1 DEF AnyPart
  <2>2. AddPart(a[i - 1], Fragments[f][i]) \in Seq(AnyPart)
        /\ Distinct(AddPart(a[i - 1], Fragments[f][i]))
    BY <1>4, <2>1, PartAdded
  <2> QED
    BY <1>2, <2>2
<1>5. k \in T
  <2> HIDE DEF T
  <2> QED
    BY <1>3, <1>4, UpTo
<1> QED
  BY <1>2, <1>5

(* So a fragment has as many parts as characters. *)
LEMMA AsManyAsCharacters ==
  ASSUME NEW S, NEW parts \in Seq(S), Distinct(parts)
  PROVE  Len(parts) = Cardinality({p.character : p \in ToSet(parts)})
<1> DEFINE C == {p.character : p \in ToSet(parts)}
           b == [i \in 1 .. Len(parts) |-> parts[i].character]
<1>1. C = {parts[i].character : i \in 1 .. Len(parts)}
  BY DEF ToSet
<1>2. b \in Bijection(1 .. Len(parts), C)
  <2>1. b \in [1 .. Len(parts) -> C]
    BY <1>1
  <2>2. \A i, j \in 1 .. Len(parts) : b[i] = b[j] => i = j
    BY DEF Distinct
  <2>3. \A c \in C : \E i \in 1 .. Len(parts) : b[i] = c
    BY <1>1
  <2> HIDE DEF b, C
  <2> QED
    BY <2>1, <2>2, <2>3 DEF Bijection, Injection, Surjection, IsInjective
<1>3. IsFiniteSet(1 .. Len(parts)) /\ Cardinality(1 .. Len(parts)) = Len(parts)
  <2>1. Len(parts) \in Nat
    OBVIOUS
  <2>2. /\ IsFiniteSet(1 .. Len(parts))
        /\ Cardinality(1 .. Len(parts)) = IF 1 > Len(parts) THEN 0 ELSE Len(parts) - 1 + 1
    BY <2>1, FS_Interval
  <2> QED
    BY <2>1, <2>2
<1> HIDE DEF C, b
<1>4. Cardinality(C) = Cardinality(1 .. Len(parts))
  BY <1>2, <1>3, FS_Bijection DEF ExistsBijection
<1> QED
  BY <1>3, <1>4 DEF C

-----------------------------------------------------------------------------
(* A play's file.  k is the number of fragments that an earlier reading has *)
(* left: what is read now begins with fragment k + 1.                       *)

AnyTitle ==
  {Untitled} \union
    UNION {UNION {{d[p][i].title : i \in {i \in DOMAIN d[p] : d[p][i].kind = "scene"}} :
                  p \in Plays} : d \in Directories}

Entry == [title : AnyTitle, parts : Seq(AnyPart)]

Readings ==
  [config : Seq(Entry), scene_name : AnyTitle, last : Nat, max : Nat, thrown : BOOLEAN]

(* The team that fragment i needs together with the one before it. *)
Pair(conf, k, i) ==
  Len(conf[i].parts) + (IF i = k + 1 THEN 0 ELSE Len(conf[i - 1].parts))

Fits(conf, k, most) ==
  \A i \in k + 1 .. Len(conf) : Distinct(conf[i].parts) /\ Pair(conf, k, i) <= most

GoodReading(k, r) ==
  /\ r \in Readings
  /\ k <= Len(r.config)
  /\ ~r.thrown => r.last = IF Len(r.config) = k THEN 0 ELSE Len(r.config[Len(r.config)].parts)
  /\ ~r.thrown => Fits(r.config, k, r.max)

LEMMA FragmentRead ==
  ASSUME NEW k \in Nat, NEW r, GoodReading(k, r), ~r.thrown,
         NEW parts \in Seq(AnyPart), Distinct(parts)
  PROVE  GoodReading(k, ReadFragment(r, parts)) /\ ~ReadFragment(r, parts).thrown
<1> DEFINE e == [title |-> r.scene_name, parts |-> parts]
           n == Len(r.config)
           new == Append(r.config, e)
           most == Greater(r.max, r.last + Len(parts))
           s == ReadFragment(r, parts)
<1>1. /\ r \in Readings /\ r.config \in Seq(Entry) /\ r.scene_name \in AnyTitle
      /\ r.last \in Nat /\ r.max \in Nat /\ r.thrown = FALSE
  BY DEF GoodReading, Readings
<1>2. s = [r EXCEPT !.config = new, !.last = Len(parts), !.max = most]
  BY DEF ReadFragment
<1>3. e \in Entry
  BY <1>1 DEF Entry
<1>4. /\ new \in Seq(Entry) /\ Len(new) = n + 1 /\ new[n + 1] = e /\ n \in Nat
      /\ \A i \in 1 .. n : new[i] = r.config[i]
  BY <1>1, <1>3
<1>5. most \in Nat /\ r.max <= most /\ r.last + Len(parts) <= most /\ Len(parts) \in Nat
  BY <1>1 DEF Greater
<1> HIDE DEF new, most, s
<1>6. /\ s \in Readings /\ s.config = new /\ s.last = Len(parts) /\ s.max = most
      /\ s.thrown = FALSE
  BY <1>1, <1>2, <1>4, <1>5 DEF Readings
<1>7. k <= n /\ r.last = IF n = k THEN 0 ELSE Len(r.config[n].parts)
  BY <1>1 DEF GoodReading
<1>8. Fits(new, k, most)
  <2> SUFFICES ASSUME NEW i \in k + 1 .. Len(new)
               PROVE  Distinct(new[i].parts) /\ Pair(new, k, i) <= most
    BY DEF Fits
  <2>1. CASE i <= n
    <3>1. new[i] = r.config[i] /\ (i # k + 1 => new[i - 1] = r.config[i - 1])
      BY <1>4, <2>1
    <3>2. Distinct(r.config[i].parts) /\ Pair(r.config, k, i) <= r.max
      BY <1>1, <1>4, <2>1 DEF GoodReading, Fits
    <3>3. Pair(new, k, i) = Pair(r.config, k, i) /\ Pair(r.config, k, i) \in Nat
      <4>1. r.config[i] \in Entry /\ (i # k + 1 => r.config[i - 1] \in Entry)
        BY <1>1, <1>4, <2>1
      <4>2. /\ Len(r.config[i].parts) \in Nat
            /\ i # k + 1 => Len(r.config[i - 1].parts) \in Nat
        BY <4>1 DEF Entry
      <4>3. CASE i = k + 1
        BY <3>1, <4>2, <4>3 DEF Pair
      <4>4. CASE i # k + 1
        <5>1. Pair(new, k, i) = Len(new[i].parts) + Len(new[i - 1].parts)
          BY <4>4 DEF Pair
        <5>2. Pair(r.config, k, i) = Len(r.config[i].parts) + Len(r.config[i - 1].parts)
          BY <4>4 DEF Pair
        <5>3. /\ Len(new[i].parts) = Len(r.config[i].parts)
              /\ Len(new[i - 1].parts) = Len(r.config[i - 1].parts)
          BY <3>1, <4>4
        <5>4. Pair(new, k, i) = Pair(r.config, k, i)
          BY <5>1, <5>2, <5>3
        <5>5. Pair(r.config, k, i) \in Nat
          <6>1. Len(r.config[i].parts) \in Nat /\ Len(r.config[i - 1].parts) \in Nat
            BY <4>2, <4>4
          <6>2. \A a, b \in Nat : a + b \in Nat
            OBVIOUS
          <6> HIDE DEF n
          <6> QED
            BY <5>2, <6>1, <6>2, Zenon
        <5> QED
          BY <5>4, <5>5
      <4> QED
        BY <4>3, <4>4
    <3> QED
      BY <1>1, <1>5, <3>1, <3>2, <3>3
  <2>2. CASE i = n + 1
    <3>1. new[i].parts = parts /\ (n # k => new[i - 1] = r.config[n])
      BY <1>4, <1>7, <2>2
    <3>2. i = k + 1 <=> n = k
      BY <1>4, <2>2
    <3>3. Pair(new, k, i) = Len(parts) + r.last
      <4>1. CASE n = k
        BY <1>7, <3>1, <3>2, <4>1 DEF Pair
      <4>2. CASE n # k
        BY <1>7, <3>1, <3>2, <4>2 DEF Pair
      <4> QED
        BY <4>1, <4>2
    <3> QED
      BY <1>1, <1>5, <3>1, <3>3
  <2> QED
    BY <1>4, <2>1, <2>2
<1>9. Len(new) # k /\ k <= Len(new) /\ new[Len(new)].parts = parts
  BY <1>4, <1>7
<1> HIDE DEF e, n
<1>10. GoodReading(k, s) /\ ~s.thrown
  BY <1>6, <1>8, <1>9 DEF GoodReading
<1> QED
  BY <1>10 DEF s

LEMMA LineRead ==
  ASSUME NEW k \in Nat, NEW r, GoodReading(k, r), NEW line,
         line.kind \in {"scene", "fragment", "noise"},
         line.kind = "scene" => line.title \in AnyTitle
  PROVE  /\ GoodReading(k, ReadLine(r, line))
         /\ ReadLine(r, line).thrown <=>
              r.thrown \/ (line.kind = "fragment" /\ line.file \notin DOMAIN Fragments)
<1>1. r \in Readings /\ r.thrown \in BOOLEAN
  BY DEF GoodReading, Readings
<1>2. CASE r.thrown \/ line.kind = "noise"
  <2>1. ReadLine(r, line) = r
    BY <1>2 DEF ReadLine
  <2> QED
    BY <1>2, <2>1
<1>3. CASE ~r.thrown /\ line.kind = "scene"
  <2>1. ReadLine(r, line) = [r EXCEPT !.scene_name = line.title]
    BY <1>3 DEF ReadLine, ReadTitle
  <2> QED
    BY <1>1, <1>3, <2>1 DEF GoodReading, Readings
<1>4. CASE ~r.thrown /\ line.kind = "fragment" /\ line.file \in DOMAIN Fragments
  <2>1. ReadLine(r, line) = ReadFragment(r, parse_script_file(Fragments[line.file]))
    BY <1>4 DEF ReadLine
  <2> QED
    BY <1>4, <2>1, PartsOfFragment, FragmentRead
<1>5. CASE ~r.thrown /\ line.kind = "fragment" /\ line.file \notin DOMAIN Fragments
  <2> DEFINE e == [title |-> r.scene_name, parts |-> <<>>]
             s == ReadLine(r, line)
  <2>1. s = [r EXCEPT !.config = Append(@, e), !.thrown = TRUE]
    BY <1>5 DEF ReadLine, ReadMissing
  <2>2. e \in Entry
    BY <1>1 DEF Entry, Readings
  <2>3. /\ Append(r.config, e) \in Seq(Entry)
        /\ Len(Append(r.config, e)) = Len(r.config) + 1 /\ Len(r.config) \in Nat
    BY <1>1, <2>2 DEF Readings
  <2>4. s \in Readings /\ s.thrown = TRUE /\ Len(s.config) = Len(r.config) + 1
    BY <1>1, <2>1, <2>3 DEF Readings
  <2>5. k <= Len(r.config)
    BY DEF GoodReading
  <2> QED
    BY <1>5, <2>3, <2>4, <2>5 DEF GoodReading
<1> QED
  BY <1>2, <1>3, <1>4, <1>5

(* The reading ends with an exception if some fragment does not open. *)
Throws(lines) ==
  \E i \in DOMAIN lines : lines[i].kind = "fragment" /\ lines[i].file \notin DOMAIN Fragments

LEMMA ConfigRead ==
  ASSUME NEW conf \in Seq(Entry), NEW d \in Directories, NEW p \in Plays
  PROVE  /\ GoodReading(Len(conf), parse_config_file(conf, d[p]))
         /\ parse_config_file(conf, d[p]).thrown <=> Throws(d[p])
<1> DEFINE lines == d[p]
           k == Len(conf)
<1>1. PICK n \in Nat : DOMAIN lines = 1 .. n
  BY CastingAssumption DEF IsFile
<1>2. \A i \in 1 .. n : lines[i].kind \in {"scene", "fragment", "noise"}
  BY <1>1, CastingAssumption DEF IsFile
<1>3. \A i \in 1 .. n : lines[i].kind = "scene" => lines[i].title \in AnyTitle
  BY <1>1 DEF AnyTitle
<1> HIDE DEF lines
<1>4. PICK a : /\ a[0] = Reading(conf)
               /\ \A i \in 1 .. n : a[i] = ReadLine(a[i - 1], lines[i])
               /\ parse_config_file(conf, lines) = a[n]
  BY <1>1, ReadingByLine
<1> DEFINE Bad(j) == lines[j].kind = "fragment" /\ lines[j].file \notin DOMAIN Fragments
           T == {i \in 0 .. n : /\ GoodReading(k, a[i])
                                /\ a[i].thrown <=> \E j \in 1 .. i : Bad(j)}
<1>5. k \in Nat
  OBVIOUS
<1> HIDE DEF k
<1>6. 0 \in T
  <2>1. a[0] \in Readings
    BY <1>4 DEF Reading, Readings, AnyTitle
  <2>2. a[0].config = conf /\ a[0].last = 0 /\ a[0].max = 0 /\ a[0].thrown = FALSE
    BY <1>4 DEF Reading
  <2>3. Len(a[0].config) = k
    BY <2>2 DEF k
  <2>4. k + 1 .. k = {}
    BY <1>5
  <2>5. GoodReading(k, a[0])
    BY <1>5, <2>1, <2>2, <2>3, <2>4 DEF GoodReading, Fits
  <2> QED
    BY <2>2, <2>5
<1>7. ASSUME NEW i \in 1 .. n, i - 1 \in T PROVE i \in T
  <2>1. GoodReading(k, a[i - 1]) /\ (a[i - 1].thrown <=> \E j \in 1 .. i - 1 : Bad(j))
    BY <1>7
  <2> HIDE DEF Bad
  <2>2. /\ GoodReading(k, ReadLine(a[i - 1], lines[i]))
        /\ ReadLine(a[i - 1], lines[i]).thrown <=> a[i - 1].thrown \/ Bad(i)
    BY <1>2, <1>3, <1>5, <2>1, LineRead DEF Bad
  <2>3. (\E j \in 1 .. i : Bad(j)) <=> (\E j \in 1 .. i - 1 : Bad(j)) \/ Bad(i)
    OBVIOUS
  <2> QED
    BY <1>4, <2>1, <2>2, <2>3
<1>8. n \in T
  <2> HIDE DEF T
  <2> QED
    <3>1. \A j \in 1 .. n : j - 1 \in T => j \in T
      BY <1>7
    <3>2. n \in Nat /\ \A j \in 0 .. n : j \in T
      BY <1>1, <1>6, <3>1, UpTo
    <3> QED
      BY <3>2
<1>9. GoodReading(k, a[n]) /\ (a[n].thrown <=> Throws(lines))
  BY <1>1, <1>8 DEF Throws
<1> QED
  BY <1>4, <1>9 DEF k, lines

-----------------------------------------------------------------------------
(* The titles. *)

LEMMA TitlesTell ==
  ASSUME NEW conf \in Seq(Entry), NEW i \in DOMAIN conf,
         \A j \in 1 .. i : conf[j].title # Untitled
  PROVE  LastRead(Titles(conf), i) = conf[i].title
<1> DEFINE t == Titles(conf)
           Read(m) == {j \in 1 .. m : t[j] # Untitled}
           T == {m \in 0 .. i : m # 0 => LastRead(t, m) = conf[m].title}
<1>1. i \in Nat /\ \A m \in 1 .. i : m \in DOMAIN conf
  OBVIOUS
<1>2. \A m \in 1 .. i :
        t[m] = IF conf[m].title = (IF m = 1 THEN Untitled ELSE conf[m - 1].title)
               THEN Untitled ELSE conf[m].title
  BY <1>1 DEF Titles
<1> HIDE DEF t
<1>3. \A m \in Nat : LastRead(t, m) =
        IF Read(m) = {} THEN Untitled ELSE t[CHOOSE j \in Read(m) : \A l \in Read(m) : l <= j]
  BY DEF LastRead
<1>4. 0 \in T
  BY <1>1
<1>5. ASSUME NEW m \in 1 .. i, m - 1 \in T PROVE m \in T
  <2>1. m \in Nat /\ m - 1 \in Nat /\ conf[m].title # Untitled
    OBVIOUS
  <2>2. CASE t[m] # Untitled
    <3>1. m \in Read(m) /\ \A l \in Read(m) : l <= m
      BY <2>2
    <3>2. \A j \in Read(m) : (\A l \in Read(m) : l <= j) => j = m
      BY <3>1
    <3>3. (CHOOSE j \in Read(m) : \A l \in Read(m) : l <= j) = m
      <4> HIDE DEF Read
      <4> QED
        BY <3>1, <3>2
    <3>4. LastRead(t, m) = t[m]
      <4> HIDE DEF Read
      <4> QED
        BY <1>3, <2>1, <3>1, <3>3
    <3> QED
      BY <1>2, <2>2, <3>4
  <2>3. CASE t[m] = Untitled
    <3>1. m # 1 /\ conf[m].title = conf[m - 1].title
      BY <1>2, <2>1, <2>3
    <3>2. Read(m) = Read(m - 1)
      BY <2>3
    <3>3. LastRead(t, m) = LastRead(t, m - 1)
      <4> HIDE DEF Read
      <4> QED
        BY <1>3, <2>1, <3>2
    <3>4. LastRead(t, m - 1) = conf[m - 1].title
      BY <1>5, <3>1
    <3> QED
      BY <3>1, <3>3, <3>4
  <2> QED
    BY <2>2, <2>3
<1>6. i \in T
  <2> HIDE DEF T
  <2> QED
    <3>1. \A j \in 1 .. i : j - 1 \in T => j \in T
      BY <1>5
    <3>2. \A j \in 0 .. i : j \in T
      BY <1>1, <1>4, <3>1, UpTo
    <3> QED
      BY <1>1, <3>2
<1> QED
  BY <1>1, <1>6 DEF t

-----------------------------------------------------------------------------
(* The inductive invariant. *)

CastingTypes ==
  /\ directory \in Directories
  /\ rest \in Seq(Plays)
  /\ configs \in [Plays -> Seq(Entry)]
  /\ scenes_names \in [Plays -> Seq(AnyTitle)]
  /\ min_players \in Nat

(* Nothing has been read of the play, or it has been read once.             *)
ReadOnce(play) ==
  /\ scenes_names[play] = Titles(configs[play])
  /\ Fits(configs[play], 0, min_players)

(* A file with a fragment that does not open never yields a title; another  *)
(* one, when it is named again, yields more titles than fragments.          *)
PlayInv(play) ==
  IF Throws(directory[play])
  THEN scenes_names[play] = <<>>
  ELSE ReadOnce(play) \/ Len(scenes_names[play]) > Len(configs[play])

CastingInv == CastingTypes /\ \A play \in Plays : PlayInv(play)

LEMMA TitlesType ==
  ASSUME NEW conf \in Seq(Entry)
  PROVE  Titles(conf) \in Seq(AnyTitle) /\ Len(Titles(conf)) = Len(conf)
<1>1. \A i \in 1 .. Len(conf) : conf[i].title \in AnyTitle
  <2>1. \A i \in 1 .. Len(conf) : conf[i] \in Entry
    OBVIOUS
  <2> QED
    BY <2>1 DEF Entry
<1>2. /\ DOMAIN Titles(conf) = 1 .. Len(conf)
      /\ \A i \in 1 .. Len(conf) : Titles(conf)[i] \in AnyTitle
  BY <1>1 DEF Titles, AnyTitle
<1>3. Titles(conf) = [i \in 1 .. Len(conf) |-> Titles(conf)[i]]
  BY DEF Titles
<1> HIDE DEF Titles
<1>4. Titles(conf) \in [1 .. Len(conf) -> AnyTitle]
  BY <1>2, <1>3
<1>5. Len(conf) \in Nat
  OBVIOUS
<1> QED
  BY <1>4, <1>5

LEMMA CastingStart == CastingInit => CastingInv
<1> SUFFICES ASSUME CastingInit PROVE CastingInv
  OBVIOUS
<1>1. CastingTypes
  BY CastingAssumption DEF CastingInit, CastingTypes
<1>2. ASSUME NEW play \in Plays PROVE PlayInv(play)
  <2>1. configs[play] = <<>> /\ scenes_names[play] = <<>>
    BY DEF CastingInit
  <2>2. Titles(<<>>) = <<>>
    BY DEF Titles
  <2>3. Fits(<<>>, 0, min_players)
    BY DEF Fits
  <2> QED
    BY <2>1, <2>2, <2>3 DEF PlayInv, ReadOnce
<1> QED
  BY <1>1, <1>2 DEF CastingInv

(* More players may be asked for by a later play, fewer never. *)
LEMMA MoreFits ==
  ASSUME NEW conf \in Seq(Entry), NEW m \in Nat, NEW n \in Nat, m <= n, Fits(conf, 0, m)
  PROVE  Fits(conf, 0, n)
<1> SUFFICES ASSUME NEW i \in 0 + 1 .. Len(conf) PROVE Pair(conf, 0, i) <= n
  BY DEF Fits
<1>1. Pair(conf, 0, i) <= m
  BY DEF Fits
<1>2. Pair(conf, 0, i) \in Nat
  <2>1. i \in 1 .. Len(conf) /\ (i # 1 => i - 1 \in 1 .. Len(conf))
    OBVIOUS
  <2>2. conf[i] \in Entry /\ (i # 1 => conf[i - 1] \in Entry)
    BY <2>1
  <2>3. Len(conf[i].parts) \in Nat /\ (i # 1 => Len(conf[i - 1].parts) \in Nat)
    BY <2>2 DEF Entry
  <2>4. \A a, b \in Nat : a + b \in Nat
    OBVIOUS
  <2>5. i = 0 + 1 <=> i = 1
    OBVIOUS
  <2>6. (IF i = 0 + 1 THEN 0 ELSE Len(conf[i - 1].parts)) \in Nat
    BY <2>3, <2>5
  <2> QED
    BY <2>3, <2>4, <2>6, Zenon DEF Pair
<1> QED
  BY <1>1, <1>2

LEMMA CastingStep == CastingInv /\ [CastingNext]_castingVars => CastingInv'
<1> SUFFICES ASSUME CastingInv, [CastingNext]_castingVars PROVE CastingInv'
  OBVIOUS
<1>1. CASE UNCHANGED castingVars
  <2>1. /\ directory' = directory /\ rest' = rest /\ configs' = configs
        /\ scenes_names' = scenes_names /\ min_players' = min_players
    BY <1>1 DEF castingVars
  <2> QED
    BY <2>1 DEF CastingInv, CastingTypes, PlayInv, ReadOnce
<1>2. CASE parse_play_file
  <2>1. CastingTypes
    BY DEF CastingInv
  <2>2. rest # <<>> /\ rest' = Tail(rest) /\ directory' = directory
    BY <1>2 DEF parse_play_file
  <2>3. PICK play \in Plays : play = Head(rest)
    BY <2>1, <2>2 DEF CastingTypes
  <2>4. directory \in Directories /\ configs[play] \in Seq(Entry)
    BY <2>1, <2>3 DEF CastingTypes
  <2> DEFINE k == Len(configs[play])
  <2>5. PICK r : /\ r = parse_config_file(configs[play], directory[play])
                 /\ GoodReading(k, r) /\ (r.thrown <=> Throws(directory[play]))
    BY <2>3, <2>4, ConfigRead
  <2>6. /\ r \in Readings /\ r.config \in Seq(Entry) /\ r.max \in Nat /\ k \in Nat
        /\ k <= Len(r.config)
    BY <2>4, <2>5 DEF GoodReading, Readings
  <2>7. /\ configs' = [configs EXCEPT ![play] = r.config]
        /\ r.thrown => scenes_names' = scenes_names /\ min_players' = min_players
        /\ ~r.thrown => /\ scenes_names' = [scenes_names EXCEPT ![play] = @ \o Titles(r.config)]
                        /\ min_players' = Greater(min_players, r.max)
    BY <1>2, <2>3, <2>5 DEF parse_play_file
  <2>8. Titles(r.config) \in Seq(AnyTitle) /\ Len(Titles(r.config)) = Len(r.config)
    BY <2>6, TitlesType
  <2>9. min_players' \in Nat /\ min_players <= min_players' /\ min_players \in Nat
        /\ (~r.thrown => r.max <= min_players')
    BY <2>1, <2>2, <2>6, <2>7 DEF CastingTypes, Greater
  <2>10. CastingTypes'
    <3>1. configs' \in [Plays -> Seq(Entry)]
      BY <2>1, <2>2, <2>3, <2>6, <2>7 DEF CastingTypes
    <3>2. scenes_names' \in [Plays -> Seq(AnyTitle)]
      <4>1. scenes_names \in [Plays -> Seq(AnyTitle)]
        BY <2>1 DEF CastingTypes
      <4>2. scenes_names[play] \o Titles(r.config) \in Seq(AnyTitle)
        BY <2>8, <4>1
      <4> QED
        BY <2>6, <2>7, <4>1, <4>2 DEF Readings
    <3> QED
      BY <2>1, <2>2, <2>3, <2>7, <2>9, <3>1, <3>2 DEF CastingTypes
  <2>11. ASSUME NEW p \in Plays, p # play PROVE PlayInv(p)'
    <3>1. configs'[p] = configs[p] /\ scenes_names'[p] = scenes_names[p]
      BY <2>1, <2>2, <2>7, <2>11 DEF CastingTypes
    <3>2. configs[p] \in Seq(Entry) /\ PlayInv(p)
      BY <2>1 DEF CastingTypes, CastingInv
    <3>3. ReadOnce(p) => ReadOnce(p)'
      BY <2>9, <3>1, <3>2, MoreFits DEF ReadOnce
    <3> QED
      BY <2>2, <2>7, <3>1, <3>2, <3>3 DEF PlayInv
  <2>12. PlayInv(play)'
    <3>1. PlayInv(play) /\ configs'[play] = r.config
      BY <2>1, <2>2, <2>3, <2>7 DEF CastingTypes, CastingInv
    <3>2. CASE r.thrown
      <4>1. scenes_names'[play] = scenes_names[play]
        BY <2>2, <2>7, <3>2
      <4> QED
        BY <2>2, <2>5, <2>7, <3>1, <3>2, <4>1 DEF PlayInv
    <3>3. CASE ~r.thrown
      <4>1. /\ scenes_names'[play] = scenes_names[play] \o Titles(r.config)
            /\ scenes_names[play] \in Seq(AnyTitle)
        BY <2>1, <2>2, <2>3, <2>7, <3>3 DEF CastingTypes
      <4>2. ~Throws(directory[play]) /\ directory' = directory
        BY <2>2, <2>5, <2>7, <3>3
      <4>3. CASE scenes_names[play] = <<>> /\ configs[play] = <<>>
        <5>1. scenes_names'[play] = Titles(r.config)
          BY <2>8, <4>1, <4>3
        <5>2. k = 0
          BY <4>3
        <5>3. Fits(r.config, 0, r.max)
          BY <2>5, <3>3, <5>2 DEF GoodReading
        <5>4. Fits(r.config, 0, min_players')
          BY <2>6, <2>9, <3>3, <5>3, MoreFits
        <5>5. ReadOnce(play)'
          BY <3>1, <5>1, <5>4 DEF ReadOnce
        <5> QED
          BY <4>2, <5>5 DEF PlayInv
      <4>4. CASE Len(scenes_names[play]) > 0
        <5>1. Len(scenes_names'[play]) > Len(r.config)
          <6>1. Len(scenes_names'[play]) = Len(scenes_names[play]) + Len(Titles(r.config))
            <7>1. \A u, v \in Seq(AnyTitle) : Len(u \o v) = Len(u) + Len(v)
              OBVIOUS
            <7> QED
              BY <2>8, <4>1, <7>1, Zenon
          <6>2. Len(r.config) \in Nat /\ Len(scenes_names[play]) \in Nat
            BY <2>6, <4>1
          <6> QED
            <7>1. \A a, b \in Nat : a > 0 => a + b > b
              OBVIOUS
            <7>2. Len(scenes_names'[play]) = Len(scenes_names[play]) + Len(r.config)
              BY <2>8, <6>1, Zenon
            <7> QED
              BY <4>4, <6>2, <7>1, <7>2, Zenon
        <5> QED
          BY <3>1, <4>2, <5>1 DEF PlayInv
      <4>5. \/ scenes_names[play] = <<>> /\ configs[play] = <<>>
            \/ Len(scenes_names[play]) > 0
        <5>1. CASE ReadOnce(play)
          <6>1. Len(scenes_names[play]) = k
            BY <2>4, <5>1, TitlesType DEF ReadOnce
          <6> QED
            BY <2>4, <2>6, <4>1, <6>1
        <5>2. CASE Len(scenes_names[play]) > Len(configs[play])
          BY <2>6, <4>1, <5>2
        <5> QED
          BY <3>1, <4>2, <5>1, <5>2 DEF PlayInv
      <4> QED
        BY <4>3, <4>4, <4>5
    <3> QED
      BY <3>2, <3>3
  <2> QED
    BY <2>10, <2>11, <2>12 DEF CastingInv
<1> QED
  BY <1>1, <1>2 DEF CastingNext

THEOREM ReadingInvariant == CastingSpec => []CastingInv
<1> QED
  BY CastingStart, CastingStep, PTL DEF CastingSpec

-----------------------------------------------------------------------------
(* A play that counts as read to its end has been read once. *)
LEMMA SoundReadOnce ==
  ASSUME CastingInv, NEW play \in Plays, Sound(play)
  PROVE  ReadOnce(play) /\ configs[play] \in Seq(Entry)
<1>1. PlayInv(play) /\ configs[play] \in Seq(Entry) /\ scenes_names[play] \in Seq(AnyTitle)
  BY DEF CastingInv, CastingTypes
<1>2. ~(Len(scenes_names[play]) > Len(configs[play]))
  BY <1>1 DEF Sound
<1> QED
  BY <1>1, <1>2 DEF PlayInv, Sound

(* parse_config_file: the number of players it asks for is enough for any   *)
(* two fragments in a row of a play that was read once and to its end, and  *)
(* nobody is counted twice in a fragment, whatever the files hold and       *)
(* whatever other files, sound or not, are read besides, in any order.      *)
THEOREM TeamIsLargeEnough == CastingSpec => []EnoughForTwo
<1>1. CastingInv => EnoughForTwo
  <2> SUFFICES ASSUME CastingInv, NEW play \in Plays, Sound(play), NEW i \in DOMAIN configs[play]
               PROVE  /\ Size(play, i) + (IF i = 1 THEN 0 ELSE Size(play, i - 1)) <= min_players
                      /\ Size(play, i) =
                           Cardinality({p.character : p \in ToSet(configs[play][i].parts)})
    BY DEF EnoughForTwo
  <2>1. ReadOnce(play) /\ configs[play] \in Seq(Entry)
    BY SoundReadOnce
  <2>2. i \in 0 + 1 .. Len(configs[play]) /\ (i = 0 + 1 <=> i = 1)
    BY <2>1
  <2>3. Distinct(configs[play][i].parts) /\ Pair(configs[play], 0, i) <= min_players
    BY <2>1, <2>2 DEF ReadOnce, Fits
  <2>4. configs[play][i].parts \in Seq(AnyPart)
    <3>1. configs[play][i] \in Entry
      BY <2>1
    <3> QED
      BY <3>1 DEF Entry
  <2>5. Size(play, i) + (IF i = 1 THEN 0 ELSE Size(play, i - 1)) = Pair(configs[play], 0, i)
    BY <2>2 DEF Pair, Size
  <2>6. Size(play, i) = Cardinality({p.character : p \in ToSet(configs[play][i].parts)})
    BY <2>3, <2>4, AsManyAsCharacters DEF Size
  <2> QED
    BY <2>3, <2>5, <2>6
<1> QED
  BY <1>1, ReadingInvariant, PTL

(* parse_config_file: somebody who remembers the last title printed knows   *)
(* the scene of every fragment, for a file of any length.                   *)
THEOREM TitlesAlwaysTell == CastingSpec => []TitlesTellScenes
<1>1. CastingInv => TitlesTellScenes
  BY SoundReadOnce, TitlesTell DEF TitlesTellScenes, ReadOnce
<1> QED
  BY <1>1, ReadingInvariant, PTL

-----------------------------------------------------------------------------
(* Recital: sequences of sequences, flattened. *)

LEMMA Flattening ==
  ASSUME NEW S, NEW seqs \in Seq(Seq(S))
  PROVE  \E f : /\ f[0] = <<>>
                /\ \A i \in 1 .. Len(seqs) : f[i] = f[i - 1] \o seqs[i]
                /\ \A i \in 0 .. Len(seqs) : f[i] \in Seq(S)
                /\ FlattenSeq(seqs) = f[Len(seqs)]
<1> DEFINE k == Len(seqs)
<1>0. k \in Nat /\ \A i \in 1 .. k : seqs[i] \in Seq(S)
  OBVIOUS
<1> DEFINE P(n, g) == /\ g[0] = <<>>
                      /\ \A i \in 1 .. n : g[i] = g[i - 1] \o seqs[i]
                      /\ \A i \in 0 .. n : g[i] \in Seq(S)
           T == {n \in 0 .. k : \E g : P(n, g)}
<1>1. 0 \in T
  <2>1. P(0, [i \in 0 .. 0 |-> <<>>])
    OBVIOUS
  <2> HIDE DEF P
  <2> QED
    BY <1>0, <2>1
<1>2. ASSUME NEW n \in 1 .. k, n - 1 \in T PROVE n \in T
  <2>1. PICK g : P(n - 1, g)
    BY <1>2
  <2> DEFINE h == [i \in 0 .. n |-> IF i = n THEN g[n - 1] \o seqs[n] ELSE g[i]]
  <2>2. n \in Nat /\ 1 <= n /\ n <= k
    BY <1>0
  <2>3. h[0] = <<>>
    BY <2>1, <2>2
  <2>4. ASSUME NEW i \in 1 .. n PROVE h[i] = h[i - 1] \o seqs[i]
    <3>1. i - 1 # n /\ i - 1 \in 0 .. n /\ i \in 0 .. n
      BY <2>2
    <3>2. h[i - 1] = g[i - 1] /\ h[i] = IF i = n THEN g[n - 1] \o seqs[n] ELSE g[i]
      BY <3>1
    <3>3. i # n => g[i] = g[i - 1] \o seqs[i]
      <4>1. i # n => i \in 1 .. n - 1
        BY <2>2
      <4> QED
        BY <2>1, <4>1
    <3> HIDE DEF h, P
    <3> QED
      BY <3>2, <3>3
  <2>5. ASSUME NEW i \in 0 .. n PROVE h[i] \in Seq(S)
    <3>1. CASE i = n
      <4>1. g[n - 1] \in Seq(S) /\ seqs[n] \in Seq(S)
        BY <1>0, <2>1, <2>2
      <4> QED
        BY <3>1, <4>1
    <3>2. CASE i # n
      <4>1. i \in 0 .. n - 1
        BY <2>2, <3>2
      <4> QED
        BY <2>1, <3>2, <4>1
    <3> QED
      BY <3>1, <3>2
  <2>6. P(n, h)
    BY <2>3, <2>4, <2>5
  <2> HIDE DEF h, P
  <2> QED
    BY <2>6
<1>3. \A i \in 0 .. k : i \in T
  <2> HIDE DEF T, k
  <2>1. \A i \in 1 .. k : i - 1 \in T => i \in T
    BY <1>2
  <2> QED
    BY <1>0, <1>1, <2>1, UpTo
<1>4. PICK f : P(k, f)
  <2>1. k \in 0 .. k
    BY <1>0
  <2>2. k \in T
    BY <1>3, <2>1
  <2> QED
    BY <2>2
<1>5. FlattenSeq(seqs) = f[k]
  <2>1. CASE k = 0
    <3>1. seqs = <<>>
      BY <2>1
    <3> QED
      BY <1>4, <2>1, <3>1 DEF FlattenSeq
  <2>2. CASE k # 0
    <3> DEFINE Q(g) == g = [i \in 1 .. k |-> IF i = 1 THEN seqs[i] ELSE g[i - 1] \o seqs[i]]
               flatten == CHOOSE g : Q(g)
    <3>1. FlattenSeq(seqs) = flatten[k]
      BY <2>2 DEF FlattenSeq
    <3>2. Q([i \in 1 .. k |-> f[i]])
      <4> DEFINE g == [i \in 1 .. k |-> f[i]]
      <4>1. ASSUME NEW i \in 1 .. k
            PROVE  g[i] = IF i = 1 THEN seqs[i] ELSE g[i - 1] \o seqs[i]
        <5>1. CASE i = 1
          <6>1. f[i] = f[i - 1] \o seqs[i] /\ seqs[i] \in Seq(S)
            BY <1>0, <1>4
          <6>2. f[i - 1] = <<>>
            BY <1>4, <5>1
          <6>3. <<>> \o seqs[i] = seqs[i]
            BY <6>1, ConcatEmptySeq
          <6> QED
            BY <5>1, <6>1, <6>2, <6>3
        <5>2. CASE i # 1
          <6>1. i - 1 \in 1 .. k
            BY <1>0, <5>2
          <6> QED
            BY <1>4, <5>2, <6>1
        <5> QED
          BY <5>1, <5>2
      <4> QED
        BY <4>1
    <3>3. Q(flatten)
      <4> HIDE DEF Q
      <4> QED
        BY <3>2
    <3> DEFINE E == {i \in 0 .. k : i # 0 => flatten[i] = f[i]}
    <3>4. 0 \in E
      BY <1>0
    <3>5. ASSUME NEW i \in 1 .. k, i - 1 \in E PROVE i \in E
      <4>1. flatten[i] = IF i = 1 THEN seqs[i] ELSE flatten[i - 1] \o seqs[i]
        <5> HIDE DEF flatten
        <5> QED
          BY <3>3
      <4> HIDE DEF flatten
      <4>2. CASE i = 1
        <5>1. f[i] = f[i - 1] \o seqs[i] /\ seqs[i] \in Seq(S)
          BY <1>0, <1>4
        <5>2. f[i - 1] = <<>>
          BY <1>4, <4>2
        <5>3. <<>> \o seqs[i] = seqs[i]
          BY <5>1, ConcatEmptySeq
        <5>4. flatten[i] = f[i]
          BY <4>1, <4>2, <5>1, <5>2, <5>3
        <5> QED
          BY <1>0, <5>4
      <4>3. CASE i # 1
        <5>1. f[i] = f[i - 1] \o seqs[i]
          BY <1>0, <1>4
        <5>2. flatten[i - 1] = f[i - 1]
          BY <1>0, <3>5, <4>3
        <5>3. flatten[i] = f[i]
          BY <4>1, <4>3, <5>1, <5>2
        <5> QED
          BY <1>0, <5>3
      <4> QED
        BY <4>2, <4>3
    <3>6. \A i \in 0 .. k : i \in E
      <4> HIDE DEF E, k
      <4>1. \A i \in 1 .. k : i - 1 \in E => i \in E
        BY <3>5
      <4> QED
        BY <1>0, <3>4, <4>1, UpTo
    <3>7. flatten[k] = f[k]
      <4>1. k \in 0 .. k
        BY <1>0
      <4> HIDE DEF flatten
      <4> QED
        BY <2>2, <3>6, <4>1
    <3> QED
      BY <3>1, <3>7
  <2> QED
    BY <2>1, <2>2
<1> QED
  BY <1>4, <1>5

LEMMA FlattenedType ==
  ASSUME NEW S, NEW seqs \in Seq(Seq(S))
  PROVE  FlattenSeq(seqs) \in Seq(S)
<1>1. Len(seqs) \in 0 .. Len(seqs)
  OBVIOUS
<1> QED
  BY <1>1, Flattening

LEMMA ElementsOfConcat ==
  ASSUME NEW S, NEW s \in Seq(S), NEW t \in Seq(S)
  PROVE  ToSet(s \o t) = ToSet(s) \union ToSet(t)
<1>1. /\ Len(s \o t) = Len(s) + Len(t)
      /\ DOMAIN (s \o t) = 1 .. Len(s) + Len(t)
      /\ \A i \in 1 .. Len(s) + Len(t) : (s \o t)[i] = IF i <= Len(s) THEN s[i] ELSE t[i - Len(s)]
  BY ConcatProperties
<1>2. /\ Len(s) \in Nat /\ Len(t) \in Nat
      /\ DOMAIN s = 1 .. Len(s) /\ DOMAIN t = 1 .. Len(t)
  OBVIOUS
<1>3. \A x \in ToSet(s) : x \in ToSet(s \o t)
  BY <1>1, <1>2 DEF ToSet
<1>4. \A x \in ToSet(t) : x \in ToSet(s \o t)
  <2> SUFFICES ASSUME NEW i \in 1 .. Len(t) PROVE t[i] \in ToSet(s \o t)
    BY <1>2 DEF ToSet
  <2>1. i + Len(s) \in 1 .. Len(s) + Len(t) /\ ~(i + Len(s) <= Len(s)) /\ i + Len(s) - Len(s) = i
    BY <1>2
  <2>2. (s \o t)[i + Len(s)] = t[i]
    BY <1>1, <2>1
  <2> QED
    BY <1>1, <2>1, <2>2 DEF ToSet
<1>5. \A x \in ToSet(s \o t) : x \in ToSet(s) \union ToSet(t)
  <2> SUFFICES ASSUME NEW i \in 1 .. Len(s) + Len(t)
               PROVE  (s \o t)[i] \in ToSet(s) \union ToSet(t)
    BY <1>1 DEF ToSet
  <2>1. CASE i <= Len(s)
    BY <1>1, <1>2, <2>1 DEF ToSet
  <2>2. CASE ~(i <= Len(s))
    BY <1>1, <1>2, <2>2 DEF ToSet
  <2> QED
    BY <2>1, <2>2
<1> QED
  BY <1>3, <1>4, <1>5

LEMMA ElementsFlattened ==
  ASSUME NEW S, NEW seqs \in Seq(Seq(S))
  PROVE  ToSet(FlattenSeq(seqs)) = UNION {ToSet(seqs[i]) : i \in 1 .. Len(seqs)}
<1> DEFINE k == Len(seqs)
<1>1. k \in Nat /\ \A i \in 1 .. k : seqs[i] \in Seq(S)
  OBVIOUS
<1>2. PICK f : /\ f[0] = <<>>
               /\ \A i \in 1 .. k : f[i] = f[i - 1] \o seqs[i]
               /\ \A i \in 0 .. k : f[i] \in Seq(S)
               /\ FlattenSeq(seqs) = f[k]
  BY Flattening
<1> DEFINE U(n) == UNION {ToSet(seqs[i]) : i \in 1 .. n}
           T == {n \in 0 .. k : ToSet(f[n]) = U(n)}
<1>3. 0 \in T
  <2>1. ToSet(<<>>) = {} /\ U(0) = {}
    BY DEF ToSet
  <2> QED
    BY <1>1, <1>2, <2>1
<1>4. ASSUME NEW n \in 1 .. k, n - 1 \in T PROVE n \in T
  <2>1. n \in Nat /\ 1 <= n /\ n - 1 \in 0 .. k
    BY <1>1
  <2>2. ToSet(f[n]) = ToSet(f[n - 1]) \union ToSet(seqs[n])
    <3>1. f[n] = f[n - 1] \o seqs[n] /\ f[n - 1] \in Seq(S) /\ seqs[n] \in Seq(S)
      BY <1>1, <1>2, <2>1
    <3> QED
      BY <3>1, ElementsOfConcat
  <2>3. U(n) = U(n - 1) \union ToSet(seqs[n])
    <3>1. 1 .. n = (1 .. n - 1) \union {n}
      BY <2>1
    <3> QED
      BY <3>1
  <2>4. ToSet(f[n - 1]) = U(n - 1)
    BY <1>4
  <2>5. ToSet(f[n]) = U(n)
    BY <2>2, <2>3, <2>4
  <2> HIDE DEF U
  <2> QED
    BY <1>1, <2>5
<1>5. \A i \in 0 .. k : i \in T
  <2> HIDE DEF T, k
  <2>1. \A i \in 1 .. k : i - 1 \in T => i \in T
    BY <1>4
  <2> QED
    BY <1>1, <1>3, <2>1, UpTo
<1>6. k \in 0 .. k
  BY <1>1
<1>7. ToSet(f[k]) = U(k)
  <2> HIDE DEF U
  <2> QED
    BY <1>5, <1>6
<1> QED
  BY <1>2, <1>7

LEMMA PrefixByElement ==
  ASSUME NEW S, NEW s \in Seq(S), NEW t \in Seq(S),
         Len(s) <= Len(t), \A i \in 1 .. Len(s) : s[i] = t[i]
  PROVE  IsPrefix(s, t)
<1> DEFINE a == SubSeq(s, 1, Len(s))
           b == SubSeq(t, 1, Len(s))
<1>1. Len(s) \in Nat /\ Len(t) \in Nat
  OBVIOUS
<1>2. /\ \A i \in 1 .. Len(s) : s[i] \in S
      /\ \A i \in 1 .. Len(s) : t[i] \in S
  BY <1>1
<1>3. /\ a \in Seq(S) /\ Len(a) = Len(s)
      /\ \A i \in 1 .. Len(s) : a[i] = s[i]
  BY <1>1, SubSeqFull
<1>4. /\ b \in Seq(S) /\ Len(b) = Len(s)
      /\ \A i \in 1 .. Len(s) : b[i] = t[i]
  <2>1. /\ b \in Seq(S)
        /\ Len(b) = IF 1 <= Len(s) THEN Len(s) - 1 + 1 ELSE 0
        /\ \A i \in 1 .. Len(s) - 1 + 1 : b[i] = t[1 + i - 1]
    BY <1>1, <1>2, SubSeqProperties
  <2> HIDE DEF b
  <2> QED
    BY <1>1, <2>1
<1>5. a = b
  <2> HIDE DEF a, b
  <2>1. \A i \in 1 .. Len(a) : a[i] = b[i]
    BY <1>3, <1>4
  <2> QED
    BY <1>3, <1>4, <2>1, SeqEqual
<1> QED
  BY <1>5 DEF IsPrefix

LEMMA PrefixOfMore ==
  ASSUME NEW S, NEW s \in Seq(S), NEW t \in Seq(S), NEW u \in Seq(S),
         Len(s) <= Len(t), \A i \in 1 .. Len(s) : s[i] = t[i]
  PROVE  Len(s) <= Len(t \o u) /\ \A i \in 1 .. Len(s) : s[i] = (t \o u)[i]
<1>1. /\ Len(t \o u) = Len(t) + Len(u)
      /\ \A i \in 1 .. Len(t) + Len(u) : (t \o u)[i] = IF i <= Len(t) THEN t[i] ELSE u[i - Len(t)]
  BY ConcatProperties
<1>2. Len(s) \in Nat /\ Len(t) \in Nat /\ Len(u) \in Nat
  OBVIOUS
<1> QED
  BY <1>1, <1>2

(* If what is flattened agrees, as far as the second one goes, and the      *)
(* first one has only empty sequences beyond, then so do the results.       *)
LEMMA FlattenedPrefix ==
  ASSUME NEW S, NEW s \in Seq(Seq(S)), NEW t \in Seq(Seq(S)),
         \A i \in 1 .. Len(s) : s[i] = IF i <= Len(t) THEN t[i] ELSE <<>>
  PROVE  IsPrefix(FlattenSeq(s), FlattenSeq(t))
<1> DEFINE k == Len(s)
           l == Len(t)
<1>1. /\ k \in Nat /\ l \in Nat
      /\ \A i \in 1 .. k : s[i] \in Seq(S)
      /\ \A i \in 1 .. l : t[i] \in Seq(S)
  OBVIOUS
<1>2. PICK f : /\ f[0] = <<>>
               /\ \A i \in 1 .. k : f[i] = f[i - 1] \o s[i]
               /\ \A i \in 0 .. k : f[i] \in Seq(S)
               /\ FlattenSeq(s) = f[k]
  BY Flattening
<1>3. PICK g : /\ g[0] = <<>>
               /\ \A i \in 1 .. l : g[i] = g[i - 1] \o t[i]
               /\ \A i \in 0 .. l : g[i] \in Seq(S)
               /\ FlattenSeq(t) = g[l]
  BY Flattening
<1> DEFINE Same == {n \in 0 .. k : f[n] = IF n <= l THEN g[n] ELSE g[l]}
<1>0. \A i \in 1 .. k : s[i] = IF i <= l THEN t[i] ELSE <<>>
  OBVIOUS
<1> HIDE DEF k, l
<1>4. \A n \in 0 .. k : n \in Same
  <2>1. 0 \in Same
    BY <1>1, <1>2, <1>3
  <2>2. ASSUME NEW n \in 1 .. k, n - 1 \in Same PROVE n \in Same
    <3>1. n \in Nat /\ 1 <= n /\ n - 1 \in 0 .. k /\ n \in 0 .. k
      BY <1>1
    <3>2. f[n] = f[n - 1] \o s[n] /\ f[n - 1] = IF n - 1 <= l THEN g[n - 1] ELSE g[l]
      BY <1>2, <2>2
    <3>3. CASE n <= l
      <4>1. n \in 1 .. l /\ n - 1 <= l
        BY <1>1, <3>1, <3>3
      <4>2. g[n] = g[n - 1] \o t[n] /\ s[n] = t[n]
        BY <1>0, <1>3, <3>3, <4>1
      <4>3. f[n] = g[n]
        BY <3>2, <4>1, <4>2
      <4> QED
        BY <3>1, <3>3, <4>3
    <3>4. CASE ~(n <= l)
      <4>1. f[n - 1] = g[l]
        <5>1. n - 1 <= l => n - 1 = l
          BY <1>1, <3>1, <3>4
        <5> QED
          BY <3>2, <5>1
      <4>2. s[n] = <<>>
        BY <1>0, <3>4
      <4>3. g[l] \o <<>> = g[l]
        <5>1. g[l] \in Seq(S)
          BY <1>1, <1>3
        <5> QED
          BY <5>1, ConcatEmptySeq
      <4>4. f[n] = g[l]
        BY <3>2, <4>1, <4>2, <4>3
      <4> QED
        BY <3>1, <3>4, <4>4
    <3> QED
      BY <3>3, <3>4
  <2> HIDE DEF Same
  <2>3. \A n \in 1 .. k : n - 1 \in Same => n \in Same
    BY <2>2
  <2> QED
    BY <1>1, <2>1, <2>3, UpTo
<1>5. k \in 0 .. k
  BY <1>1
<1>6. f[k] = IF k <= l THEN g[k] ELSE g[l]
  BY <1>4, <1>5
<1> DEFINE Upto == {n \in 0 .. l : k <= n =>
                         /\ Len(f[k]) <= Len(g[n])
                         /\ \A i \in 1 .. Len(f[k]) : f[k][i] = g[n][i]}
<1>7. CASE k <= l
  <2>1. 0 \in Upto
    <3>1. k <= 0 => f[k] = g[0]
      BY <1>1, <1>6, <1>7
    <3> QED
      BY <1>1, <1>2, <1>3, <1>5, <3>1
  <2>2. ASSUME NEW n \in 1 .. l, n - 1 \in Upto PROVE n \in Upto
    <3>1. n \in Nat /\ 1 <= n /\ n - 1 \in 0 .. l /\ n \in 0 .. l
      BY <1>1
    <3>2. f[k] \in Seq(S) /\ g[n - 1] \in Seq(S) /\ t[n] \in Seq(S)
      BY <1>1, <1>2, <1>3, <1>5, <3>1
    <3>3. CASE k = n
      <4>1. f[k] = g[n]
        BY <1>6, <1>7, <3>3
      <4>2. Len(f[k]) \in Nat
        BY <3>2
      <4> QED
        BY <3>1, <4>1, <4>2
    <3>4. CASE k <= n - 1
      <4>1. g[n] = g[n - 1] \o t[n]
        BY <1>3
      <4>2. Len(f[k]) <= Len(g[n - 1]) /\ \A i \in 1 .. Len(f[k]) : f[k][i] = g[n - 1][i]
        BY <2>2, <3>4
      <4>3. Len(f[k]) <= Len(g[n]) /\ \A i \in 1 .. Len(f[k]) : f[k][i] = g[n][i]
        <5> DEFINE a == f[k]
                   b == g[n - 1]
                   c == t[n]
        <5>1. /\ a \in Seq(S) /\ b \in Seq(S) /\ c \in Seq(S)
              /\ Len(a) <= Len(b) /\ \A i \in 1 .. Len(a) : a[i] = b[i]
          BY <3>2, <4>2
        <5> HIDE DEF a, b, c
        <5>2. Len(a) <= Len(b \o c) /\ \A i \in 1 .. Len(a) : a[i] = (b \o c)[i]
          BY <5>1, PrefixOfMore
        <5> QED
          BY <4>1, <5>2 DEF a, b, c
      <4> QED
        BY <3>1, <4>3
    <3>5. CASE n < k
      BY <1>1, <3>1, <3>5
    <3>6. n < k \/ k = n \/ k <= n - 1
      BY <1>1, <3>1
    <3> QED
      BY <3>3, <3>4, <3>5, <3>6
  <2>3. \A n \in 0 .. l : n \in Upto
    <3> HIDE DEF Upto
    <3>1. \A n \in 1 .. l : n - 1 \in Upto => n \in Upto
      BY <2>2
    <3> QED
      BY <1>1, <2>1, <3>1, UpTo
  <2>4. l \in Upto /\ l \in 0 .. l
    BY <1>1, <2>3
  <2>5. Len(f[k]) <= Len(g[l]) /\ \A i \in 1 .. Len(f[k]) : f[k][i] = g[l][i]
    BY <1>7, <2>4
  <2>6. f[k] \in Seq(S) /\ g[l] \in Seq(S)
    BY <1>2, <1>3, <1>5, <2>4
  <2>7. IsPrefix(f[k], g[l])
    BY <2>5, <2>6, PrefixByElement
  <2> QED
    BY <1>2, <1>3, <2>7
<1>8. CASE ~(k <= l)
  <2>1. f[k] = g[l]
    BY <1>6, <1>8
  <2>2. f[k] \in Seq(S) /\ Len(f[k]) \in Nat
    BY <1>2, <1>5
  <2>3. Len(f[k]) <= Len(f[k])
    BY <2>2
  <2>4. IsPrefix(f[k], f[k])
    BY <2>2, <2>3, PrefixByElement
  <2> QED
    BY <1>2, <1>3, <2>1, <2>4
<1> QED
  BY <1>7, <1>8

-----------------------------------------------------------------------------
(* What splitting makes, line by line. *)

LEMMA SplitByLine ==
  ASSUME NEW script, NEW k \in Nat, DOMAIN script = 1 .. k
  PROVE  \E a : /\ a[0] = SplitStart
                /\ \A i \in 1 .. k : a[i] = SplitLine(a[i - 1], script[i])
                /\ SplitUp(script) = a[k]
<1> DEFINE P(n, g) == g = [s \in SUBSET (1 .. n) |->
                             IF s = {} THEN SplitStart
                             ELSE SplitLine(g[s \ {Max(s)}], script[Max(s)])]
           T == {n \in 0 .. k : \E g : P(n, g)}
<1>1. 0 \in T
  <2>1. P(0, [s \in SUBSET (1 .. 0) |-> SplitStart])
    <3>1. SUBSET (1 .. 0) = {{}}
      OBVIOUS
    <3> QED
      BY <3>1
  <2> QED
    BY <2>1
<1>2. ASSUME NEW n \in 1 .. k, n - 1 \in T PROVE n \in T
  <2>0. n \in Nat /\ 1 <= n
    OBVIOUS
  <2>1. PICK g : P(n - 1, g)
    BY <1>2
  <2> DEFINE h == [s \in SUBSET (1 .. n) |->
                     IF n \in s THEN SplitLine(g[s \ {n}], script[n]) ELSE g[s]]
  <2>2. ASSUME NEW s \in SUBSET (1 .. n)
        PROVE  h[s] = IF s = {} THEN SplitStart
                      ELSE SplitLine(h[s \ {Max(s)}], script[Max(s)])
    <3>1. CASE s = {}
      BY <2>1, <3>1
    <3>2. CASE n \in s
      <4>1. Max(s) = n
        <5>1. Max(s) \in s /\ n <= Max(s)
          BY <2>0, <3>2, LargestNumber
        <5>2. Max(s) \in 1 .. n
          BY <5>1
        <5> QED
          BY <2>0, <5>1, <5>2
      <4>2. s \ {n} \in SUBSET (1 .. n) /\ n \notin s \ {n}
        OBVIOUS
      <4>3. h[s \ {n}] = g[s \ {n}]
        BY <4>2
      <4>4. h[s] = SplitLine(g[s \ {n}], script[n])
        BY <3>2
      <4> HIDE DEF h, P
      <4> QED
        BY <3>2, <4>1, <4>3, <4>4
    <3>3. CASE s # {} /\ n \notin s
      <4>1. Max(s) \in s
        BY <2>0, <3>3, LargestNumber
      <4>2. s \in SUBSET (1 .. n - 1) /\ s \ {Max(s)} \in SUBSET (1 .. n - 1)
        <5>1. \A x \in s : x \in 1 .. n /\ x # n
          BY <3>3
        <5>2. \A x \in s : x \in 1 .. n - 1
          BY <2>0, <5>1
        <5> QED
          BY <5>2
      <4>3. h[s \ {Max(s)}] = g[s \ {Max(s)}] /\ h[s] = g[s]
        <5>1. s \ {Max(s)} \in SUBSET (1 .. n) /\ n \notin s \ {Max(s)}
          BY <3>3
        <5> QED
          BY <3>3, <5>1
      <4>4. g[s] = SplitLine(g[s \ {Max(s)}], script[Max(s)])
        BY <2>1, <3>3, <4>2
      <4> HIDE DEF h, P
      <4> QED
        BY <3>3, <4>3, <4>4
    <3> QED
      BY <3>1, <3>2, <3>3
  <2>3. P(n, h)
    <3>1. h = [s \in SUBSET (1 .. n) |-> h[s]]
      OBVIOUS
    <3> HIDE DEF h
    <3> QED
      BY <2>2, <3>1
  <2> HIDE DEF P, h
  <2> QED
    BY <2>3
<1>3. k \in T
  <2> HIDE DEF T
  <2> QED
    BY <1>1, <1>2, UpTo
<1> DEFINE iter == CHOOSE g : P(k, g)
<1>4. P(k, iter)
  <2> HIDE DEF P
  <2> QED
    BY <1>3
<1>5. SplitUp(script) = iter[1 .. k]
  BY DEF SplitUp, FoldLeft, MapThenFoldSet
<1> DEFINE a == [i \in 0 .. k |-> iter[1 .. i]]
<1> HIDE DEF iter
<1>6. a[0] = SplitStart
  <2>1. 1 .. 0 = {} /\ {} \in SUBSET (1 .. k)
    OBVIOUS
  <2> QED
    BY <1>4, <2>1
<1>7. ASSUME NEW i \in 1 .. k PROVE a[i] = SplitLine(a[i - 1], script[i])
  <2>0. i \in Nat /\ 1 <= i /\ i <= k
    OBVIOUS
  <2>1. 1 .. i \in SUBSET (1 .. k) /\ 1 .. i # {} /\ i \in 1 .. i
    BY <2>0
  <2>2. Max(1 .. i) = i
    <3>1. Max(1 .. i) \in 1 .. i /\ i <= Max(1 .. i)
      BY <2>0, <2>1, LargestNumber
    <3> QED
      BY <2>0, <3>1
  <2>3. (1 .. i) \ {i} = 1 .. i - 1
    OBVIOUS
  <2>4. iter[1 .. i] = SplitLine(iter[1 .. i - 1], script[i])
    BY <1>4, <2>1, <2>2, <2>3
  <2> QED
    BY <2>4
<1>8. a[k] = iter[1 .. k]
  OBVIOUS
<1> HIDE DEF P, a
<1> QED
  BY <1>5, <1>6, <1>7, <1>8


SplitState ==
  [current : Headings \union {NONE}, copying : BOOLEAN, index : Nat \ {0},
   speeches : [Headings -> Seq(Seq(FileLine))], seen : SUBSET Headings]

(* The speech being copied is the last one of the current speaker. *)
SplitType(st) ==
  /\ st \in SplitState
  /\ st.copying => st.current \in Headings /\ st.speeches[st.current] # <<>>

LEMMA HeaderType ==
  ASSUME NEW st, SplitType(st), NEW line \in ScriptLine, line.prefix \in Headings
  PROVE  /\ SplitType(Header(st, line))
         /\ Header(st, line) = [st EXCEPT !.current = line.prefix, !.copying = TRUE,
              !.speeches = [st.speeches EXCEPT ![line.prefix] = Append(st.speeches[line.prefix], <<>>)],
              !.seen = st.seen \union {line.prefix}]
<1> DEFINE c == line.prefix
           more == Append(st.speeches[c], <<>>)
<1>1. st.speeches[c] \in Seq(Seq(FileLine)) /\ <<>> \in Seq(FileLine)
  BY DEF SplitType, SplitState
<1>2. more \in Seq(Seq(FileLine)) /\ more # <<>>
  <2> DEFINE e == <<>>
             Part == Seq(FileLine)
             before == st.speeches[c]
  <2>1. before \in Seq(Part) /\ e \in Part
    BY <1>1
  <2> HIDE DEF e, Part, before
  <2>2. Append(before, e) \in Seq(Part) /\ Append(before, e) # <<>>
    BY <2>1, AppendProperties
  <2> QED
    BY <2>2 DEF e, Part, before
<1>3. Header(st, line) = [st EXCEPT !.current = c, !.copying = TRUE,
              !.speeches = [st.speeches EXCEPT ![c] = more],
              !.seen = st.seen \union {c}]
  BY DEF Header, SplitType, SplitState
<1> HIDE DEF more
<1>4. SplitType(Header(st, line))
  <2> DEFINE all == [st.speeches EXCEPT ![c] = more]
  <2>1. all \in [Headings -> Seq(Seq(FileLine))] /\ all[c] # <<>>
    BY <1>2 DEF SplitType, SplitState
  <2> HIDE DEF all
  <2>2. Header(st, line) = [st EXCEPT !.current = c, !.copying = TRUE,
          !.speeches = all, !.seen = st.seen \union {c}]
    BY <1>3 DEF all
  <2>3. st \in SplitState /\ c \in Headings /\ st.seen \union {c} \in SUBSET Headings
    BY DEF SplitType, SplitState
  <2> DEFINE more_seen == st.seen \union {c}
  <2> HIDE DEF more_seen
  <2>4. /\ Header(st, line) = [st EXCEPT !.current = c, !.copying = TRUE,
                                !.speeches = all, !.seen = more_seen]
        /\ more_seen \in SUBSET Headings
    BY <2>2, <2>3 DEF more_seen
  <2>5. /\ Header(st, line) \in SplitState
        /\ Header(st, line).current = c /\ Header(st, line).speeches = all
    BY <2>1, <2>3, <2>4 DEF SplitState
  <2> QED
    BY <2>1, <2>3, <2>5 DEF SplitType
<1> QED
  BY <1>3, <1>4 DEF more

LEMMA CopyType ==
  ASSUME NEW st, SplitType(st), st.copying, NEW line \in ScriptLine
  PROVE  LET speech == st.speeches[st.current]
             new    == [number |-> st.index, text |-> line.text]
             longer == [speech EXCEPT ![Len(speech)] = Append(speech[Len(speech)], new)]
         IN  /\ SplitType(Copy(st, line))
             /\ speech \in Seq(Seq(FileLine)) /\ Len(speech) \in 1 .. Len(speech)
             /\ new \in FileLine
             /\ longer \in Seq(Seq(FileLine)) /\ Len(longer) = Len(speech)
             /\ Copy(st, line) = [st EXCEPT
                  !.speeches = [st.speeches EXCEPT ![st.current] = longer], !.index = st.index + 1]
<1> DEFINE speech == st.speeches[st.current]
           new    == [number |-> st.index, text |-> line.text]
           last   == Append(speech[Len(speech)], new)
           longer == [speech EXCEPT ![Len(speech)] = last]
<1>1. st.current \in Headings /\ st \in SplitState
  BY DEF SplitType
<1>2. speech \in Seq(Seq(FileLine)) /\ speech # <<>>
  BY <1>1 DEF SplitType, SplitState
<1>3. new \in FileLine
  BY <1>1 DEF FileLine, ScriptLine, SplitState
<1>4. Len(speech) \in 1 .. Len(speech)
  <2> HIDE DEF speech
  <2> QED
    BY <1>2, EmptySeq
<1>5. last \in Seq(FileLine)
  <2> HIDE DEF new, speech
  <2>1. speech[Len(speech)] \in Seq(FileLine)
    BY <1>2, <1>4
  <2> QED
    BY <1>3, <2>1, AppendProperties
<1>6. longer \in Seq(Seq(FileLine)) /\ Len(longer) = Len(speech)
  <2> HIDE DEF last, speech
  <2> QED
    BY <1>2, <1>4, <1>5, ExceptSeq
<1>7. Copy(st, line) = [st EXCEPT
        !.speeches = [st.speeches EXCEPT ![st.current] = longer], !.index = st.index + 1]
  BY <1>1 DEF Copy, SplitState
<1>8. longer # <<>>
  <2> HIDE DEF longer, speech
  <2> QED
    BY <1>4, <1>6
<1>9. SplitType(Copy(st, line))
  <2> HIDE DEF longer
  <2>1. st.index + 1 \in Nat \ {0}
    BY <1>1 DEF SplitState
  <2>2. [st.speeches EXCEPT ![st.current] = longer] \in [Headings -> Seq(Seq(FileLine))]
    BY <1>1, <1>6 DEF SplitState
  <2>3. [st.speeches EXCEPT ![st.current] = longer][st.current] # <<>>
    BY <1>1, <1>8 DEF SplitState
  <2> DEFINE all == [st.speeches EXCEPT ![st.current] = longer]
  <2> HIDE DEF all
  <2>4. /\ Copy(st, line) = [st EXCEPT !.speeches = all, !.index = st.index + 1]
        /\ all \in [Headings -> Seq(Seq(FileLine))] /\ all[st.current] # <<>>
    BY <1>7, <2>2, <2>3 DEF all
  <2>5. /\ Copy(st, line) \in SplitState
        /\ Copy(st, line).current = st.current /\ Copy(st, line).speeches = all
    BY <1>1, <2>1, <2>4 DEF SplitState
  <2> QED
    BY <1>1, <2>4, <2>5 DEF SplitType
<1> QED
  BY <1>2, <1>3, <1>4, <1>6, <1>7, <1>9

LEMMA SplitLineType ==
  ASSUME NEW st, SplitType(st), NEW line \in ScriptLine
  PROVE  SplitType(SplitLine(st, line))
<1>1. CASE st.copying /\ line.kind = "empty"
  <2>1. SplitLine(st, line) = [st EXCEPT !.copying = FALSE]
    BY <1>1 DEF SplitLine
  <2> QED
    BY <2>1 DEF SplitType, SplitState
<1>2. CASE st.copying /\ line.kind # "empty"
  <2>1. SplitLine(st, line) = Copy(st, line)
    BY <1>2 DEF SplitLine
  <2>2. SplitType(Copy(st, line))
    BY <1>2, CopyType, Zenon
  <2> QED
    BY <2>1, <2>2
<1>3. CASE ~st.copying
  <2>1. SplitLine(st, line) = IF line.prefix \in {NONE, st.current} THEN st ELSE Header(st, line)
    BY <1>3 DEF SplitLine
  <2>2. CASE line.prefix \in {NONE, st.current}
    BY <2>1, <2>2
  <2>3. CASE line.prefix \notin {NONE, st.current}
    <3>1. line.prefix \in Headings
      BY <2>3 DEF ScriptLine
    <3> QED
      BY <2>1, <2>3, <3>1, HeaderType
  <2> QED
    BY <2>2, <2>3
<1>4. st.copying \in BOOLEAN
  BY DEF SplitType, SplitState
<1> QED
  BY <1>1, <1>2, <1>3, <1>4

LEMMA SplitStartType ==
  SplitType(SplitStart)
<1>1. <<>> \in Seq(Seq(FileLine))
  OBVIOUS
<1> QED
  BY <1>1 DEF SplitType, SplitState, SplitStart

LEMMA SplitUpType ==
  ASSUME NEW script \in Seq(ScriptLine)
  PROVE  SplitType(SplitUp(script))
<1> DEFINE k == Len(script)
<1>1. k \in Nat /\ DOMAIN script = 1 .. k /\ \A i \in 1 .. k : script[i] \in ScriptLine
  OBVIOUS
<1>2. PICK a : /\ a[0] = SplitStart
               /\ \A i \in 1 .. k : a[i] = SplitLine(a[i - 1], script[i])
               /\ SplitUp(script) = a[k]
  BY <1>1, SplitByLine
<1> DEFINE T == {i \in 0 .. k : SplitType(a[i])}
<1> HIDE DEF k
<1>3. 0 \in T
  BY <1>1, <1>2, SplitStartType
<1>4. ASSUME NEW i \in 1 .. k, i - 1 \in T PROVE i \in T
  BY <1>1, <1>2, <1>4, SplitLineType
<1>5. \A i \in 0 .. k : i \in T
  <2> HIDE DEF T
  <2>1. \A i \in 1 .. k : i - 1 \in T => i \in T
    BY <1>4
  <2> QED
    BY <1>1, <1>3, <2>1, UpTo
<1>6. k \in 0 .. k
  BY <1>1
<1> QED
  BY <1>2, <1>5, <1>6

-----------------------------------------------------------------------------
(* What is written of the speeches: all their lines, in whatever order. *)

LEMMA FiniteElements ==
  ASSUME NEW S, NEW s \in Seq(S)
  PROVE  IsFiniteSet(ToSet(s))
<1>1. Len(s) \in Nat /\ DOMAIN s = 1 .. Len(s)
  OBVIOUS
<1>2. s \in [1 .. Len(s) -> ToSet(s)] /\ \A x \in ToSet(s) : \E i \in 1 .. Len(s) : s[i] = x
  <2>1. s = [i \in 1 .. Len(s) |-> s[i]]
    OBVIOUS
  <2>2. \A i \in 1 .. Len(s) : s[i] \in ToSet(s)
    BY <1>1 DEF ToSet
  <2> QED
    BY <1>1, <2>1, <2>2 DEF ToSet
<1>3. s \in Surjection(1 .. Len(s), ToSet(s))
  BY <1>2, Fun_IsSurj
<1>4. IsFiniteSet(1 .. Len(s))
  BY <1>1, FS_Interval
<1> QED
  BY <1>3, <1>4, FS_Surjection

LEMMA OrderOfAll ==
  ASSUME NEW T, IsFiniteSet(T), NEW p \in SetToSeqs(T)
  PROVE  p \in Seq(T) /\ ToSet(p) = T
<1> DEFINE n == Cardinality(T)
<1>1. n \in Nat
  BY FS_CardinalityType
<1>2. p \in [1 .. n -> T] /\ \A i, j \in 1 .. n : p[i] = p[j] => i = j
  BY DEF SetToSeqs
<1> HIDE DEF n
<1>3. p \in Injection(1 .. n, T)
  BY <1>2, Fun_IsInj
<1>4. IsFiniteSet(1 .. n) /\ Cardinality(1 .. n) = n
  BY <1>1, FS_Interval
<1>5. p \in Surjection(1 .. n, T)
  BY <1>3, <1>4, FS_Injection DEF n
<1>6. \A x \in T : \E i \in 1 .. n : p[i] = x
  BY <1>5 DEF Surjection
<1> QED
  BY <1>1, <1>2, <1>6 DEF ToSet

LEMMA ShuffleSaysAll ==
  ASSUME NEW S, NEW speeches \in Seq(Seq(S)), NEW w \in Shuffles(speeches)
  PROVE  /\ w \in Seq(S)
         /\ ToSet(w) = UNION {ToSet(speeches[i]) : i \in 1 .. Len(speeches)}
<1> DEFINE k == Len(speeches)
<1>1. k \in Nat /\ DOMAIN speeches = 1 .. k /\ \A i \in 1 .. k : speeches[i] \in Seq(S)
  OBVIOUS
<1>2. PICK v : /\ w = FlattenSeq(v) /\ DOMAIN v = 1 .. k
               /\ v = [i \in 1 .. k |-> v[i]]
               /\ \A i \in 1 .. k : v[i] \in SetToSeqs(ToSet(speeches[i]))
  BY <1>1 DEF Shuffles
<1>3. ASSUME NEW i \in 1 .. k
      PROVE  v[i] \in Seq(S) /\ ToSet(v[i]) = ToSet(speeches[i])
  <2>1. speeches[i] \in Seq(S)
    BY <1>1
  <2>2. IsFiniteSet(ToSet(speeches[i]))
    BY <2>1, FiniteElements
  <2>3. v[i] \in Seq(ToSet(speeches[i])) /\ ToSet(v[i]) = ToSet(speeches[i])
    BY <1>2, <2>2, OrderOfAll
  <2>4. ToSet(speeches[i]) \subseteq S
    BY <2>1 DEF ToSet
  <2> QED
    BY <2>3, <2>4, SeqMonotonic
<1> HIDE DEF k
<1>4. v \in Seq(Seq(S)) /\ Len(v) = k
  BY <1>1, <1>2, <1>3
<1>5. w \in Seq(S) /\ ToSet(w) = UNION {ToSet(v[i]) : i \in 1 .. k}
  BY <1>2, <1>4, FlattenedType, ElementsFlattened
<1>6. UNION {ToSet(v[i]) : i \in 1 .. k} = UNION {ToSet(speeches[i]) : i \in 1 .. k}
  BY <1>3
<1> QED
  BY <1>5, <1>6 DEF k

-----------------------------------------------------------------------------
(* A part file, as lab1 and as lab0 read it. *)

LEMMA FirstOfNumber ==
  ASSUME NEW file \in Seq(FileLine)
  PROVE  /\ ReadFile(file) \subseteq ToSet(file)
         /\ ToSet(file) \subseteq FileLine
         /\ \A x \in ToSet(file) : \E l \in ReadFile(file) : l.number = x.number
         /\ \A l, m \in ReadFile(file) : l.number = m.number => l = m
<1>1. Len(file) \in Nat /\ DOMAIN file = 1 .. Len(file)
  OBVIOUS
<1>2. ReadFile(file) \subseteq ToSet(file) /\ ToSet(file) \subseteq FileLine
  BY DEF ReadFile, ToSet
<1>3. ASSUME NEW x \in ToSet(file) PROVE \E l \in ReadFile(file) : l.number = x.number
  <2> DEFINE T == {i \in DOMAIN file : file[i].number = x.number}
  <2>1. T \subseteq Nat /\ T # {}
    BY <1>1 DEF ToSet
  <2>2. PICK i \in T : \A j \in T : i <= j
    BY <2>1, LeastNumber
  <2>3. \A j \in 1 .. i - 1 : file[j].number # file[i].number
    <3> SUFFICES ASSUME NEW j \in 1 .. i - 1, file[j].number = file[i].number PROVE FALSE
      OBVIOUS
    <3>1. j \in T /\ j < i
      BY <1>1
    <3> QED
      BY <1>1, <2>2, <3>1
  <2>4. file[i] \in ReadFile(file)
    BY <2>3 DEF ReadFile
  <2> QED
    BY <2>4
<1>4. ASSUME NEW l \in ReadFile(file), NEW m \in ReadFile(file), l.number = m.number
      PROVE  l = m
  <2>1. PICK i \in 1 .. Len(file) : /\ l = file[i]
                                    /\ \A j \in 1 .. i - 1 : file[j].number # file[i].number
    BY <1>1 DEF ReadFile
  <2>2. PICK k \in 1 .. Len(file) : /\ m = file[k]
                                    /\ \A j \in 1 .. k - 1 : file[j].number # file[k].number
    BY <1>1 DEF ReadFile
  <2>3. ~(i < k) /\ ~(k < i)
    BY <1>1, <1>4, <2>1, <2>2
  <2> QED
    BY <1>1, <2>1, <2>2, <2>3
<1> QED
  BY <1>2, <1>3, <1>4

(* Where no blanks hide a text, lab0 takes of a number what lab1 takes, and *)
(* nothing if that is blank.                                                *)
LEMMA SameLine ==
  ASSUME NEW file \in Seq(FileLine), NEW l \in ReadFile(file),
         l.text = Spaces =>
           \A i \in DOMAIN file : file[i].number = l.number => file[i].text = Spaces
  PROVE  /\ l.text # Spaces => l \in ReadThread(file)
         /\ \A m \in ReadThread(file) : m.number = l.number => m = l /\ l.text # Spaces
<1>1. Len(file) \in Nat /\ DOMAIN file = 1 .. Len(file)
  OBVIOUS
<1>2. PICK i \in 1 .. Len(file) : /\ l = file[i]
                                  /\ \A j \in 1 .. i - 1 : file[j].number # file[i].number
  BY <1>1 DEF ReadFile
<1>3. l.text # Spaces => l \in ReadThread(file)
  BY <1>1, <1>2 DEF ReadThread
<1>4. ASSUME NEW m \in ReadThread(file), m.number = l.number PROVE m = l /\ l.text # Spaces
  <2>1. PICK k \in 1 .. Len(file) :
          /\ m = file[k] /\ file[k].text # Spaces
          /\ \A j \in 1 .. k - 1 : file[j].number = file[k].number => file[j].text = Spaces
    BY <1>1 DEF ReadThread
  <2>2. l.text # Spaces
    BY <1>1, <1>4, <2>1
  <2>3. ~(k < i)
    BY <1>1, <1>2, <1>4, <2>1
  <2>4. ~(i < k)
    BY <1>1, <1>2, <1>4, <2>1, <2>2
  <2> QED
    BY <1>1, <1>2, <2>1, <2>2, <2>3, <2>4
<1> QED
  BY <1>3, <1>4

LEMMA Bounded ==
  ASSUME NEW n \in Nat, NEW f \in [1 .. n -> Nat]
  PROVE  \E b \in Nat : \A i \in 1 .. n : f[i] <= b
<1> DEFINE T == {j \in 0 .. n : \E b \in Nat : \A i \in 1 .. j : f[i] <= b}
<1>1. 0 \in T
  OBVIOUS
<1>2. ASSUME NEW j \in 1 .. n, j - 1 \in T PROVE j \in T
  <2>1. PICK b \in Nat : \A i \in 1 .. j - 1 : f[i] <= b
    BY <1>2
  <2>2. f[j] \in Nat /\ b + f[j] \in Nat
    OBVIOUS
  <2>3. ASSUME NEW i \in 1 .. j PROVE f[i] <= b + f[j]
    <3>1. CASE i = j
      BY <2>2, <3>1
    <3>2. CASE i # j
      <4>1. i \in 1 .. j - 1 /\ f[i] \in Nat
        BY <3>2
      <4>2. f[i] <= b
        BY <2>1, <4>1
      <4> QED
        BY <2>2, <4>1, <4>2
    <3> QED
      BY <3>1, <3>2
  <2> QED
    BY <2>2, <2>3
<1>3. \A j \in 0 .. n : j \in T
  <2> HIDE DEF T
  <2>1. \A j \in 1 .. n : j - 1 \in T => j \in T
    BY <1>2
  <2> QED
    BY <1>1, <2>1, UpTo
<1>4. n \in T
  <2> HIDE DEF T
  <2> QED
    BY <1>3
<1> QED
  BY <1>4

LEMMA NumbersBounded ==
  ASSUME NEW all \in [Headings -> Seq(FileLine)]
  PROVE  \E b \in Nat : \A c \in Headings : \A l \in ToSet(all[c]) : l.number <= b
<1>1. \A c \in Headings : \E b \in Nat : \A l \in ToSet(all[c]) : l.number <= b
  <2> SUFFICES ASSUME NEW c \in Headings
               PROVE  \E b \in Nat : \A l \in ToSet(all[c]) : l.number <= b
    OBVIOUS
  <2> DEFINE file == all[c]
             f == [i \in 1 .. Len(file) |-> file[i].number]
  <2>1. file \in Seq(FileLine) /\ Len(file) \in Nat /\ DOMAIN file = 1 .. Len(file)
    OBVIOUS
  <2>2. f \in [1 .. Len(file) -> Nat]
    <3> HIDE DEF file
    <3>1. \A i \in 1 .. Len(file) : file[i] \in FileLine
      BY <2>1
    <3>2. \A i \in 1 .. Len(file) : file[i].number \in Nat
      BY <3>1 DEF FileLine
    <3> QED
      BY <3>2
  <2>3. PICK b \in Nat : \A i \in 1 .. Len(file) : f[i] <= b
    <3> HIDE DEF f, file
    <3> QED
      BY <2>1, <2>2, Bounded
  <2> QED
    BY <2>1, <2>3 DEF ToSet
<1> DEFINE bound == [c \in Headings |-> CHOOSE b \in Nat : \A l \in ToSet(all[c]) : l.number <= b]
<1>2. \A c \in Headings : bound[c] \in Nat /\ \A l \in ToSet(all[c]) : l.number <= bound[c]
  BY <1>1
<1>3. PICK n \in Nat : ExistsSurjection(1 .. n, Headings)
  BY RecitalAssumption, FS_NatSurjection
<1>4. PICK g : g \in [1 .. n -> Headings] /\ \A c \in Headings : \E i \in 1 .. n : g[i] = c
  BY <1>3 DEF ExistsSurjection, Surjection
<1> DEFINE f == [i \in 1 .. n |-> bound[g[i]]]
<1> HIDE DEF bound
<1>5. f \in [1 .. n -> Nat]
  BY <1>2, <1>4
<1>6. PICK b \in Nat : \A i \in 1 .. n : f[i] <= b
  <2> HIDE DEF f
  <2> QED
    BY <1>5, Bounded
<1>7. ASSUME NEW c \in Headings, NEW l \in ToSet(all[c]) PROVE l.number <= b
  <2>1. PICK i \in 1 .. n : g[i] = c
    BY <1>4
  <2>2. bound[c] <= b
    BY <1>6, <2>1
  <2>3. bound[c] \in Nat /\ l.number <= bound[c] /\ l.number \in Nat
    <3>1. l \in FileLine
      BY DEF ToSet
    <3> QED
      BY <1>2, <3>1 DEF FileLine
  <2> QED
    BY <2>2, <2>3
<1> QED
  BY <1>7

-----------------------------------------------------------------------------
(* The invariant of the recital. *)

RecitalType ==
  /\ files \in [Headings -> Seq(FileLine)] /\ origin \in [Headings -> Seq(FileLine)]
  /\ config \in SUBSET Headings
  /\ scripts \in Seq(Scripts)
  /\ main \in {"config", "enter", "exit", "done"}
  /\ thread \in [Names -> {"none", "read", "act", "done"}]
  /\ loaded \in [Names -> SUBSET FileLine]
  /\ left \in [Names -> SUBSET Nat]
  /\ counter \in Nat \ {0}
  /\ printed \in Seq([who : Names, text : Texts])

(* Nothing is written once the threads are there, and only characters of    *)
(* the configuration have one.                                              *)
WrittenBefore ==
  /\ main = "config" => \A c \in Names : thread[c] = "none"
  /\ \A c \in Names : thread[c] # "none" => c \in config

(* A thread knows its part; what it has not left to recite, the counter has *)
(* passed.                                                                  *)
PartsKnown ==
  \A c \in Names : thread[c] \in {"act", "done"} =>
    /\ loaded[c] = ReadFile(files[c])
    /\ left[c] \subseteq {l.number : l \in ReadFile(files[c])}
    /\ \A l \in ReadFile(files[c]) : l.number \in left[c] \/ l.number < counter

AllRecited ==
  /\ \A c \in Names : thread[c] = "done" => left[c] = {}
  /\ main = "done" => \A c \in Playing : thread[c] = "done"

(* The line of every number below the counter has been recited, in order,   *)
(* by somebody in whose part it is the first of that number.                *)
Recited ==
  /\ Len(printed) = counter - 1
  /\ main = "config" => counter = 1
  /\ \A k \in 1 .. counter - 1 :
       /\ printed[k].who \in config
       /\ \E l \in ReadFile(files[printed[k].who]) : l.number = k /\ l.text = printed[k].text

RecitalInv == RecitalType /\ WrittenBefore /\ PartsKnown /\ AllRecited /\ Recited

LEMMA RecitalInitInv ==
  RecitalInit => RecitalInv
<1> SUFFICES ASSUME RecitalInit PROVE RecitalInv
  OBVIOUS
<1>1. files \in [Headings -> Seq(FileLine)] /\ origin \in [Headings -> Seq(FileLine)]
      /\ config \in SUBSET Headings
  BY RecitalAssumption DEF RecitalInit
<1>2. scripts \in Seq(Scripts) /\ printed \in Seq([who : Names, text : Texts])
      /\ Len(printed) = 0
  BY DEF RecitalInit
<1>3. RecitalType
  BY <1>1, <1>2 DEF RecitalInit, RecitalType
<1>4. WrittenBefore /\ PartsKnown /\ AllRecited
  BY DEF RecitalInit, WrittenBefore, PartsKnown, AllRecited
<1>5. Recited
  BY <1>2 DEF RecitalInit, Recited
<1> QED
  BY <1>3, <1>4, <1>5 DEF RecitalInv

LEMMA SplitInv ==
  RecitalInv /\ Split => RecitalInv'
<1> SUFFICES ASSUME RecitalInv, Split PROVE RecitalInv'
  OBVIOUS
<1>1. /\ main = "config" /\ UNCHANGED <<origin, main, thread, loaded, left, counter, printed>>
  BY DEF Split, recital
<1>2. PICK script \in Scripts :
        /\ \E new \in [Headings -> UNION {Shuffles(SplitUp(script).speeches[c]) : c \in Headings}] :
             /\ \A c \in Headings : new[c] \in Shuffles(SplitUp(script).speeches[c])
             /\ files' = [c \in Headings |-> files[c] \o new[c]]
        /\ config' = SplitUp(script).seen
        /\ scripts' = Append(scripts, script)
  BY DEF Split
<1>3. PICK new : /\ \A c \in Headings : new[c] \in Shuffles(SplitUp(script).speeches[c])
                 /\ files' = [c \in Headings |-> files[c] \o new[c]]
  BY <1>2
<1>4. script \in Seq(ScriptLine)
  BY RecitalAssumption
<1> DEFINE st == SplitUp(script)
<1>5. st \in SplitState
  BY <1>4, SplitUpType DEF SplitType
<1> HIDE DEF st
<1>6. ASSUME NEW c \in Headings PROVE files[c] \o new[c] \in Seq(FileLine)
  <2> DEFINE speeches == st.speeches[c]
             w == new[c]
  <2>1. speeches \in Seq(Seq(FileLine)) /\ w \in Shuffles(speeches)
    BY <1>3, <1>5 DEF SplitState, st
  <2> HIDE DEF speeches, w
  <2>2. w \in Seq(FileLine)
    BY <2>1, ShuffleSaysAll
  <2>3. files[c] \in Seq(FileLine)
    BY DEF RecitalInv, RecitalType
  <2> QED
    BY <2>2, <2>3 DEF w
<1>7. files' \in [Headings -> Seq(FileLine)]
  BY <1>3, <1>6
<1>8. config' \in SUBSET Headings
  BY <1>2, <1>5 DEF SplitState, st
<1>9. scripts' \in Seq(Scripts)
  <2>1. scripts \in Seq(Scripts)
    BY DEF RecitalInv, RecitalType
  <2> QED
    BY <1>2, <2>1, AppendProperties
<1>10. RecitalType'
  BY <1>1, <1>7, <1>8, <1>9 DEF RecitalInv, RecitalType
<1>11. \A c \in Names : thread'[c] = "none"
  BY <1>1 DEF RecitalInv, WrittenBefore
<1>12. WrittenBefore' /\ PartsKnown' /\ AllRecited'
  BY <1>1, <1>11 DEF WrittenBefore, PartsKnown, AllRecited
<1>13. Recited'
  <2>1. counter' = 1 /\ Len(printed') = counter' - 1
    BY <1>1 DEF RecitalInv, Recited
  <2>2. 1 .. counter' - 1 = {}
    BY <2>1
  <2> QED
    BY <2>1, <2>2 DEF Recited
<1> QED
  BY <1>10, <1>12, <1>13 DEF RecitalInv

(* The first number that a thread has left. *)
LEMMA NextNumber ==
  ASSUME RecitalInv, NEW c \in Names, thread[c] = "act", left[c] # {}
  PROVE  /\ LeastOf(left[c]) \in left[c] /\ LeastOf(left[c]) \in Nat
         /\ \E l \in ReadFile(files[c]) :
              /\ l.number = LeastOf(left[c])
              /\ l.text = TextOf(c, LeastOf(left[c]))
              /\ l \in FileLine
<1> DEFINE mine == left[c]
           file == files[c]
           n == LeastOf(mine)
<1>1. mine \in SUBSET Nat /\ mine # {} /\ file \in Seq(FileLine)
  BY RecitalAssumption DEF RecitalInv, RecitalType
<1>2. loaded[c] = ReadFile(file) /\ mine \subseteq {l.number : l \in ReadFile(file)}
  BY DEF RecitalInv, PartsKnown
<1> HIDE DEF mine, file
<1>3. \E m \in mine : \A k \in mine : m <= k
  BY <1>1, LeastNumber
<1>4. n \in mine /\ n \in Nat
  BY <1>1, <1>3 DEF LeastOf
<1> HIDE DEF n
<1>5. ReadFile(file) \subseteq FileLine
  BY <1>1, FirstOfNumber
<1>6. \E l \in ReadFile(file) : l.number = n
  BY <1>2, <1>4
<1> DEFINE l == CHOOSE x \in ReadFile(file) : x.number = n
<1>7. l \in ReadFile(file) /\ l.number = n
  BY <1>6
<1>8. TextOf(c, n) = l.text
  BY <1>2 DEF TextOf
<1> HIDE DEF l
<1> QED
  BY <1>4, <1>5, <1>7, <1>8 DEF n, mine, file

LEMMA ReciteLineInv ==
  ASSUME RecitalInv, NEW c \in Names, ReciteLine(c)
  PROVE  RecitalInv'
<1> DEFINE n == LeastOf(left[c])
<1>1. /\ thread[c] = "act" /\ left[c] # {} /\ counter >= n
      /\ left' = [left EXCEPT ![c] = @ \ {n}]
      /\ UNCHANGED <<files, config, origin, scripts, main, thread, loaded>>
      /\ \/ /\ counter = n
            /\ printed' = Append(printed, [who |-> c, text |-> TextOf(c, n)])
            /\ counter' = counter + 1
         \/ counter > n /\ UNCHANGED <<printed, counter>>
  BY DEF ReciteLine, chain
<1>2. PICK l \in FileLine : /\ n \in left[c] /\ n \in Nat
                            /\ l \in ReadFile(files[c]) /\ l.number = n /\ l.text = TextOf(c, n)
  BY <1>1, NextNumber
<1> HIDE DEF n
<1>3. /\ counter \in Nat \ {0} /\ left \in [Names -> SUBSET Nat]
      /\ printed \in Seq([who : Names, text : Texts])
  BY DEF RecitalInv, RecitalType
<1>4. counter' \in Nat \ {0} /\ counter' >= counter
  BY <1>1, <1>3
<1> DEFINE new == [who |-> c, text |-> TextOf(c, n)]
<1>5. new \in [who : Names, text : Texts]
  BY <1>2 DEF FileLine
<1>6. CASE counter = n /\ printed' = Append(printed, new) /\ counter' = counter + 1
  <2> HIDE DEF new
  <2>0. /\ Append(printed, new) \in Seq([who : Names, text : Texts])
        /\ Len(Append(printed, new)) = Len(printed) + 1
        /\ \A k \in 1 .. Len(printed) : Append(printed, new)[k] = printed[k]
        /\ Append(printed, new)[Len(printed) + 1] = new
    BY <1>3, <1>5, AppendProperties
  <2>1. left' \in [Names -> SUBSET Nat]
    BY <1>1, <1>3
  <2>2. RecitalType'
    BY <1>1, <1>4, <1>6, <2>0, <2>1 DEF RecitalInv, RecitalType
  <2>3. WrittenBefore'
    BY <1>1 DEF RecitalInv, WrittenBefore
  <2>4. PartsKnown'
    <3> SUFFICES ASSUME NEW d \in Names, thread[d] \in {"act", "done"}
                 PROVE  /\ loaded[d] = ReadFile(files[d])
                        /\ left'[d] \subseteq {m.number : m \in ReadFile(files[d])}
                        /\ \A m \in ReadFile(files[d]) : m.number \in left'[d] \/ m.number < counter'
      BY <1>1 DEF PartsKnown
    <3>1. /\ loaded[d] = ReadFile(files[d])
          /\ left[d] \subseteq {m.number : m \in ReadFile(files[d])}
          /\ \A m \in ReadFile(files[d]) : m.number \in left[d] \/ m.number < counter
      BY DEF RecitalInv, PartsKnown
    <3>2. left'[d] = IF d = c THEN left[d] \ {n} ELSE left[d]
      BY <1>1, <1>3
    <3>3. \A m \in ReadFile(files[d]) : m.number \in Nat
      <4>1. files[d] \in Seq(FileLine)
        BY RecitalAssumption DEF RecitalInv, RecitalType
      <4>2. ReadFile(files[d]) \subseteq FileLine
        BY <4>1, FirstOfNumber
      <4> QED
        BY <4>2 DEF FileLine
    <3>4. left'[d] \subseteq {m.number : m \in ReadFile(files[d])}
      BY <3>1, <3>2
    <3>5. \A m \in ReadFile(files[d]) : m.number \in left'[d] \/ m.number < counter'
      BY <1>3, <1>6, <3>1, <3>2, <3>3
    <3> QED
      BY <3>1, <3>4, <3>5
  <2>5. AllRecited'
    <3>1. \A d \in Names : left'[d] \subseteq left[d]
      BY <1>1, <1>3
    <3> QED
      BY <1>1, <3>1 DEF RecitalInv, AllRecited, Playing
  <2>6. Recited'
    <3>1. Len(printed) = counter - 1 /\ main # "config"
      BY <1>1, <1>3 DEF RecitalInv, Recited, WrittenBefore
    <3>2. Len(printed') = counter' - 1
      BY <1>3, <1>6, <2>0, <3>1
    <3>3. ASSUME NEW k \in 1 .. counter' - 1
          PROVE  /\ printed'[k].who \in config
                 /\ \E m \in ReadFile(files[printed'[k].who]) : m.number = k /\ m.text = printed'[k].text
      <4>1. CASE k = counter
        <5>1. printed'[k] = new
          BY <1>3, <1>6, <2>0, <3>1, <4>1
        <5>2. c \in config
          BY <1>1 DEF RecitalInv, WrittenBefore
        <5>3. new.who = c /\ new.text = l.text
          BY <1>2 DEF new
        <5>4. l \in ReadFile(files[new.who]) /\ l.number = k /\ l.text = new.text
          BY <1>2, <1>6, <4>1, <5>3
        <5> QED
          BY <5>1, <5>2, <5>3, <5>4
      <4>2. CASE k # counter
        <5>1. k \in 1 .. counter - 1 /\ k \in 1 .. Len(printed)
          BY <1>3, <1>6, <3>1, <4>2
        <5>2. printed'[k] = printed[k]
          BY <1>6, <2>0, <5>1
        <5> QED
          BY <5>1, <5>2 DEF RecitalInv, Recited
      <4> QED
        BY <4>1, <4>2
    <3> QED
      BY <1>1, <3>1, <3>2, <3>3 DEF Recited
  <2> QED
    BY <2>2, <2>3, <2>4, <2>5, <2>6 DEF RecitalInv
<1>7. CASE counter > n /\ UNCHANGED <<printed, counter>>
  <2>1. left' \in [Names -> SUBSET Nat]
    BY <1>1, <1>3
  <2>2. RecitalType'
    BY <1>1, <1>7, <2>1 DEF RecitalInv, RecitalType
  <2>3. WrittenBefore'
    BY <1>1 DEF RecitalInv, WrittenBefore
  <2>4. PartsKnown'
    <3> SUFFICES ASSUME NEW d \in Names, thread[d] \in {"act", "done"}
                 PROVE  /\ loaded[d] = ReadFile(files[d])
                        /\ left'[d] \subseteq {m.number : m \in ReadFile(files[d])}
                        /\ \A m \in ReadFile(files[d]) : m.number \in left'[d] \/ m.number < counter
      BY <1>1, <1>7 DEF PartsKnown
    <3>1. /\ loaded[d] = ReadFile(files[d])
          /\ left[d] \subseteq {m.number : m \in ReadFile(files[d])}
          /\ \A m \in ReadFile(files[d]) : m.number \in left[d] \/ m.number < counter
      BY DEF RecitalInv, PartsKnown
    <3>2. left'[d] = IF d = c THEN left[d] \ {n} ELSE left[d]
      BY <1>1, <1>3
    <3> QED
      BY <1>2, <1>3, <1>7, <3>1, <3>2
  <2>5. AllRecited'
    <3>1. \A d \in Names : left'[d] \subseteq left[d]
      BY <1>1, <1>3
    <3> QED
      BY <1>1, <3>1 DEF RecitalInv, AllRecited, Playing
  <2>6. Recited'
    BY <1>1, <1>7 DEF RecitalInv, Recited
  <2> QED
    BY <2>2, <2>3, <2>4, <2>5, <2>6 DEF RecitalInv
<1> QED
  BY <1>1, <1>6, <1>7

LEMMA RecitalStepInv ==
  RecitalInv /\ [RecitalNext]_recitalVars => RecitalInv'
<1> SUFFICES ASSUME RecitalInv, [RecitalNext]_recitalVars PROVE RecitalInv'
  OBVIOUS
<1> USE DEF chain
<1>0. RecitalType /\ WrittenBefore /\ PartsKnown /\ AllRecited /\ Recited
  BY DEF RecitalInv
<1>1. CASE Split
  BY <1>1, SplitInv
<1>2. CASE ReadConfig
  <2>1. RecitalType' /\ Recited'
    BY <1>0, <1>2 DEF ReadConfig, RecitalType, Recited
  <2>2. WrittenBefore' /\ PartsKnown' /\ AllRecited'
    BY <1>0, <1>2 DEF ReadConfig, WrittenBefore, PartsKnown, AllRecited
  <2> QED
    BY <2>1, <2>2 DEF RecitalInv
<1>3. ASSUME NEW c \in Names, EnterPlayer(c) PROVE RecitalInv'
  <2>1. /\ main = "enter" /\ c \in config /\ thread[c] = "none"
        /\ thread' = [thread EXCEPT ![c] = "read"]
        /\ UNCHANGED <<files, config, origin, scripts, main, loaded, left, counter, printed>>
    BY <1>3 DEF EnterPlayer, Playing
  <2>2. RecitalType' /\ Recited'
    BY <1>0, <2>1 DEF RecitalType, Recited
  <2>3. \A d \in Names : thread'[d] = IF d = c THEN "read" ELSE thread[d]
    BY <1>0, <2>1 DEF RecitalType
  <2>4. WrittenBefore' /\ PartsKnown' /\ AllRecited'
    BY <1>0, <2>1, <2>3 DEF WrittenBefore, PartsKnown, AllRecited
  <2> QED
    BY <2>2, <2>4 DEF RecitalInv
<1>4. CASE AllEntered
  <2>1. RecitalType' /\ Recited'
    BY <1>0, <1>4 DEF AllEntered, RecitalType, Recited
  <2>2. WrittenBefore' /\ PartsKnown' /\ AllRecited'
    BY <1>0, <1>4 DEF AllEntered, WrittenBefore, PartsKnown, AllRecited
  <2> QED
    BY <2>1, <2>2 DEF RecitalInv
<1>5. CASE ExitPlayers
  <2>1. RecitalType' /\ Recited'
    BY <1>0, <1>5 DEF ExitPlayers, RecitalType, Recited
  <2>2. WrittenBefore' /\ PartsKnown' /\ AllRecited'
    BY <1>0, <1>5 DEF ExitPlayers, WrittenBefore, PartsKnown, AllRecited, Playing
  <2> QED
    BY <2>1, <2>2 DEF RecitalInv
<1>6. ASSUME NEW c \in Names, ReadPart(c) PROVE RecitalInv'
  <2> DEFINE read == ReadFile(files[c])
             numbers == {l.number : l \in read}
  <2>1. /\ thread[c] = "read"
        /\ loaded' = [loaded EXCEPT ![c] = read]
        /\ left' = [left EXCEPT ![c] = numbers]
        /\ thread' = [thread EXCEPT ![c] = "act"]
        /\ UNCHANGED <<files, config, origin, scripts, main, counter, printed>>
    BY <1>6 DEF ReadPart
  <2>2. read \in SUBSET FileLine /\ numbers \in SUBSET Nat
    <3>1. files[c] \in Seq(FileLine)
      BY <1>0, RecitalAssumption DEF RecitalType
    <3>2. read \subseteq FileLine
      BY <3>1, FirstOfNumber
    <3> QED
      BY <3>2 DEF FileLine
  <2> HIDE DEF read, numbers
  <2>3. RecitalType' /\ Recited'
    BY <1>0, <2>1, <2>2 DEF RecitalType, Recited
  <2>4. \A d \in Names : /\ thread'[d] = IF d = c THEN "act" ELSE thread[d]
                         /\ loaded'[d] = IF d = c THEN read ELSE loaded[d]
                         /\ left'[d] = IF d = c THEN numbers ELSE left[d]
    BY <1>0, <2>1 DEF RecitalType
  <2>5. WrittenBefore' /\ AllRecited'
    BY <1>0, <2>1, <2>4 DEF WrittenBefore, AllRecited, Playing
  <2>6. PartsKnown'
    <3> SUFFICES ASSUME NEW d \in Names, thread'[d] \in {"act", "done"}
                 PROVE  /\ loaded'[d] = ReadFile(files[d])
                        /\ left'[d] \subseteq {m.number : m \in ReadFile(files[d])}
                        /\ \A m \in ReadFile(files[d]) : m.number \in left'[d] \/ m.number < counter
      BY <2>1 DEF PartsKnown
    <3>1. CASE d = c
      BY <2>4, <3>1 DEF read, numbers
    <3>2. CASE d # c
      BY <1>0, <2>4, <3>2 DEF PartsKnown
    <3> QED
      BY <3>1, <3>2
  <2> QED
    BY <2>3, <2>5, <2>6 DEF RecitalInv
<1>7. ASSUME NEW c \in Names, ReciteLine(c) PROVE RecitalInv'
  BY <1>7, ReciteLineInv
<1>8. ASSUME NEW c \in Names, EndAct(c) PROVE RecitalInv'
  <2>1. /\ thread[c] = "act" /\ left[c] = {}
        /\ thread' = [thread EXCEPT ![c] = "done"]
        /\ UNCHANGED <<files, config, origin, scripts, main, loaded, left, counter, printed>>
    BY <1>8 DEF EndAct
  <2>2. RecitalType' /\ Recited'
    BY <1>0, <2>1 DEF RecitalType, Recited
  <2>3. \A d \in Names : thread'[d] = IF d = c THEN "done" ELSE thread[d]
    BY <1>0, <2>1 DEF RecitalType
  <2>4. WrittenBefore' /\ PartsKnown' /\ AllRecited'
    BY <1>0, <2>1, <2>3 DEF WrittenBefore, PartsKnown, AllRecited, Playing
  <2> QED
    BY <2>2, <2>4 DEF RecitalInv
<1>9. CASE UNCHANGED recitalVars
  BY <1>9 DEF RecitalInv, RecitalType, WrittenBefore, PartsKnown, AllRecited, Recited,
              recitalVars, recital, Playing
<1> QED
  BY <1>1, <1>2, <1>3, <1>4, <1>5, <1>6, <1>7, <1>8, <1>9
     DEF RecitalNext, ReciterMain, ReciterStep

THEOREM RecitalInvariant ==
  RecitalSpec => []RecitalInv
<1> QED
  BY RecitalInitInv, RecitalStepInv, PTL DEF RecitalSpec

-----------------------------------------------------------------------------
(* What the threads of lab1 have printed is the beginning of what lab0      *)
(* prints, blank lines apart.                                               *)

Spoken == [who : Names, text : Texts]

LEMMA PrintOfType ==
  ASSUME RecitalInv, NEW n
  PROVE  PrintOf(n) \in Seq(Spoken)
<1>1. CASE Structured(n) = {}
  BY <1>1 DEF PrintOf
<1>2. CASE Structured(n) # {}
  <2> DEFINE c == LeastOf(Structured(n))
             m == CHOOSE l \in ReadThread(files[c]) : l.number = n
  <2>1. Structured(n) \subseteq Nat
    BY RecitalAssumption DEF Structured, Playing
  <2>2. \E x \in Structured(n) : \A y \in Structured(n) : x <= y
    BY <1>2, <2>1, LeastNumber
  <2>3. c \in Structured(n)
    BY <2>2 DEF LeastOf
  <2>4. c \in Names /\ \E l \in ReadThread(files[c]) : l.number = n
    <3> HIDE DEF c
    <3> QED
      BY <2>3 DEF Structured, Playing
  <2>5. m \in ReadThread(files[c])
    BY <2>4
  <2>6. files[c] \in Seq(FileLine)
    BY <2>4, RecitalAssumption DEF RecitalInv, RecitalType
  <2>7. m.text \in Texts
    <3> HIDE DEF m, c
    <3>1. m \in FileLine
      BY <2>5, <2>6 DEF ReadThread
    <3> QED
      BY <3>1 DEF FileLine
  <2>8. PrintOf(n) = << [who |-> c, text |-> m.text] >>
    BY <1>2 DEF PrintOf
  <2> HIDE DEF m, c
  <2>9. [who |-> c, text |-> m.text] \in Spoken
    BY <2>4, <2>7 DEF Spoken
  <2> QED
    BY <2>8, <2>9
<1> QED
  BY <1>1, <1>2

LEMMA SaidAlike ==
  ASSUME RecitalInv, OneVoice, NothingHidden, NEW k \in 1 .. Len(printed)
  PROVE  PrintOf(k) = IF printed[k].text = Spaces THEN <<>> ELSE << printed[k] >>
<1> DEFINE c == printed[k].who
<1>1. printed \in Seq(Spoken) /\ counter \in Nat /\ Len(printed) = counter - 1
  BY DEF RecitalInv, RecitalType, Recited, Spoken
<1>2. printed[k] \in Spoken /\ k \in 1 .. counter - 1 /\ k \in Nat
  BY <1>1
<1>3. c \in Playing /\ c \in Names /\ \E l \in ReadFile(files[c]) : l.number = k /\ l.text = printed[k].text
  BY <1>2 DEF RecitalInv, Recited, Spoken, Playing
<1>4. printed[k] = [who |-> c, text |-> printed[k].text]
  BY <1>2 DEF Spoken
<1> HIDE DEF c
<1>5. PICK l \in ReadFile(files[c]) : l.number = k /\ l.text = printed[k].text
  BY <1>3
<1>6. \A d \in Playing : files[d] \in Seq(FileLine)
  BY RecitalAssumption DEF RecitalInv, RecitalType, Playing
<1>7. /\ l.text # Spaces => l \in ReadThread(files[c])
      /\ \A m \in ReadThread(files[c]) : m.number = l.number => m = l /\ l.text # Spaces
  <2> DEFINE file == files[c]
  <2>1. file \in Seq(FileLine) /\ l \in ReadFile(file)
    BY <1>3, <1>5, <1>6
  <2>2. l.text = Spaces => \A i \in DOMAIN file : file[i].number = l.number => file[i].text = Spaces
    BY <1>3, <1>5 DEF NothingHidden
  <2> HIDE DEF file
  <2>3. /\ l.text # Spaces => l \in ReadThread(file)
        /\ \A m \in ReadThread(file) : m.number = l.number => m = l /\ l.text # Spaces
    BY <2>1, <2>2, SameLine
  <2> QED
    BY <2>3 DEF file
<1>8. k \in Numbers(c)
  <2>1. l \in ToSet(files[c])
    BY <1>3, <1>5, <1>6, FirstOfNumber
  <2> QED
    BY <1>5, <2>1 DEF Numbers
<1>9. \A d \in Playing : \A m \in ReadThread(files[d]) : m.number \in Numbers(d)
  BY DEF ReadThread, Numbers, ToSet
<1>10. \A d \in Structured(k) : d = c
  <2> SUFFICES ASSUME NEW d \in Structured(k), d # c PROVE FALSE
    OBVIOUS
  <2>1. d \in Playing /\ k \in Numbers(d)
    BY <1>9 DEF Structured
  <2> QED
    BY <1>3, <1>8, <2>1 DEF OneVoice
<1>11. CASE printed[k].text = Spaces
  <2>1. Structured(k) = {}
    BY <1>5, <1>7, <1>10, <1>11 DEF Structured
  <2> QED
    BY <1>11, <2>1 DEF PrintOf
<1>12. CASE printed[k].text # Spaces
  <2>1. l \in ReadThread(files[c])
    BY <1>5, <1>7, <1>12
  <2>2. Structured(k) = {c}
    BY <1>3, <1>5, <1>10, <2>1 DEF Structured
  <2>3. LeastOf(Structured(k)) = c
    <3>1. c \in Nat
      BY <1>3, RecitalAssumption
    <3> QED
      BY <2>2, <3>1 DEF LeastOf
  <2>4. (CHOOSE m \in ReadThread(files[c]) : m.number = k) = l
    BY <1>5, <1>7, <2>1
  <2>5. PrintOf(k) = << [who |-> c, text |-> l.text] >>
    BY <2>2, <2>3, <2>4 DEF PrintOf
  <2> QED
    BY <1>4, <1>5, <1>12, <2>5
<1> QED
  BY <1>11, <1>12

(* Whatever is to be printed has a number between 1 and the last. *)
LEMMA PrintedNumbers ==
  ASSUME RecitalInv, OneVoice
  PROVE  LET numbers == UNION {{l.number : l \in ReadThread(files[c])} : c \in Playing}
             last == IF numbers = {} THEN 0 ELSE Max(numbers)
         IN  last \in Nat /\ \A n \in Nat : PrintOf(n) # <<>> => n \in 1 .. last
<1> DEFINE numbers == UNION {{l.number : l \in ReadThread(files[c])} : c \in Playing}
           last == IF numbers = {} THEN 0 ELSE Max(numbers)
<1>1. PICK b \in Nat : \A c \in Headings : \A l \in ToSet(files[c]) : l.number <= b
  <2>1. files \in [Headings -> Seq(FileLine)]
    BY DEF RecitalInv, RecitalType
  <2> QED
    BY <2>1, NumbersBounded
<1>2. ASSUME NEW c \in Playing, NEW l \in ReadThread(files[c])
      PROVE  l.number \in 1 .. b
  <2>1. c \in Headings /\ files[c] \in Seq(FileLine)
    BY RecitalAssumption DEF RecitalInv, RecitalType, Playing
  <2>2. l \in ToSet(files[c]) /\ l \in FileLine
    BY <2>1 DEF ReadThread, ToSet
  <2>3. l.number \in Nat /\ l.number # 0
    BY <2>2 DEF FileLine, OneVoice, Numbers
  <2> QED
    BY <1>1, <2>1, <2>2, <2>3
<1>3. numbers \subseteq 1 .. b
  BY <1>2
<1>4. ASSUME NEW n \in Nat, PrintOf(n) # <<>> PROVE n \in numbers
  BY <1>4 DEF PrintOf, Structured
<1> HIDE DEF numbers
<1>5. last \in Nat /\ \A n \in numbers : n \in 1 .. last
  <2>1. CASE numbers = {}
    BY <2>1
  <2>2. CASE numbers # {}
    <3>1. Max(numbers) \in numbers /\ \A n \in numbers : n <= Max(numbers)
      BY <1>3, <2>2, LargestNumber
    <3>2. last = Max(numbers)
      BY <2>2
    <3> HIDE DEF last
    <3> DEFINE top == Max(numbers)
    <3>3. top \in 1 .. b /\ \A n \in numbers : n \in 1 .. b /\ n <= top
      BY <1>3, <3>1
    <3> HIDE DEF top
    <3>4. top \in Nat /\ \A n \in numbers : n \in 1 .. top
      BY <3>3
    <3> QED
      BY <3>2, <3>4 DEF top
  <2> QED
    BY <2>1, <2>2
<1> QED
  BY <1>4, <1>5 DEF numbers

LEMMA Agreement ==
  RecitalInv => RecitalAgrees
<1> SUFFICES ASSUME RecitalInv, OneVoice, NothingHidden
             PROVE  IsPrefix(Aloud(printed), Lab0Print)
  BY DEF RecitalAgrees
<1> DEFINE numbers == UNION {{l.number : l \in ReadThread(files[c])} : c \in Playing}
           last == IF numbers = {} THEN 0 ELSE Max(numbers)
           s == [i \in DOMAIN printed |-> IF printed[i].text = Spaces THEN <<>> ELSE << printed[i] >>]
           t == [n \in 1 .. last |-> PrintOf(n)]
<1>1. last \in Nat /\ \A n \in Nat : PrintOf(n) # <<>> => n \in 1 .. last
  BY PrintedNumbers, Zenon
<1>2. Lab0Print = PrintOf(0) \o FlattenSeq(t) /\ Aloud(printed) = FlattenSeq(s)
  BY DEF Lab0Print, Aloud
<1> HIDE DEF last
<1>3. printed \in Seq(Spoken) /\ Len(printed) \in Nat /\ DOMAIN printed = 1 .. Len(printed)
  BY DEF RecitalInv, RecitalType, Spoken
<1>4. s \in Seq(Seq(Spoken)) /\ Len(s) = Len(printed)
  <2>1. \A i \in 1 .. Len(printed) : s[i] \in Seq(Spoken)
    BY <1>3
  <2> QED
    BY <1>3, <2>1
<1>5. t \in Seq(Seq(Spoken)) /\ Len(t) = last
  <2>1. \A n \in 1 .. last : t[n] \in Seq(Spoken)
    BY PrintOfType
  <2> QED
    BY <1>1, <2>1
<1>6. \A i \in 1 .. Len(s) : s[i] = IF i <= Len(t) THEN t[i] ELSE <<>>
  <2> SUFFICES ASSUME NEW i \in 1 .. Len(s)
               PROVE  s[i] = IF i <= last THEN PrintOf(i) ELSE <<>>
    <3>1. \A i \in 1 .. Len(s) : i \in Nat /\ 1 <= i /\ (i <= last => i \in 1 .. last)
      BY <1>1, <1>3, <1>4
    <3>2. \A i \in 1 .. last : t[i] = PrintOf(i)
      OBVIOUS
    <3> HIDE DEF s, t
    <3> QED
      BY <1>5, <3>1, <3>2
  <2>1. s[i] = PrintOf(i) /\ i \in Nat /\ 1 <= i
    BY <1>3, <1>4, SaidAlike
  <2> HIDE DEF s
  <2> QED
    BY <1>1, <2>1
<1> HIDE DEF s, t
<1>7. IsPrefix(FlattenSeq(s), FlattenSeq(t))
  BY <1>4, <1>5, <1>6, FlattenedPrefix
<1>8. PrintOf(0) = <<>>
  BY <1>1
<1>9. PrintOf(0) \o FlattenSeq(t) = FlattenSeq(t)
  BY <1>5, <1>8, FlattenedType, ConcatEmptySeq
<1> QED
  BY <1>2, <1>7, <1>9

(* RecitalAgrees (Recital): as long as every number belongs to one          *)
(* character and no blank line hides a text, the threads recite what lab0   *)
(* prints, in that order, however they are scheduled and whatever files,    *)
(* scripts and shuffles there were.                                         *)
THEOREM RecitedAsPrinted ==
  RecitalSpec => []RecitalAgrees
<1> QED
  BY RecitalInvariant, Agreement, PTL

-----------------------------------------------------------------------------
(* A well-formed script: the speeches hold what its author means. *)

Lines(speeches) == UNION {ToSet(speeches[i]) : i \in 1 .. Len(speeches)}

(* The lines of a character, by their place among all that is meant. *)
Part(meant, c) ==
  {[number |-> k, text |-> meant[k].text] : k \in {k \in 1 .. Len(meant) : meant[k].who = c}}

LEMMA LinesBegun ==
  ASSUME NEW S, NEW speeches \in Seq(Seq(S))
  PROVE  Lines(Append(speeches, <<>>)) = Lines(speeches)
<1> DEFINE more == Append(speeches, <<>>)
<1>1. Len(speeches) \in Nat
  OBVIOUS
<1>2. /\ Len(more) = Len(speeches) + 1
      /\ \A i \in 1 .. Len(speeches) : more[i] = speeches[i]
      /\ more[Len(speeches) + 1] = <<>>
  OBVIOUS
<1> HIDE DEF more
<1>3. ToSet(<<>>) = {}
  BY DEF ToSet
<1>4. \A i \in 1 .. Len(speeches) : i \in 1 .. Len(more)
  BY <1>1, <1>2
<1>5. \A i \in 1 .. Len(more) : i \in 1 .. Len(speeches) \/ i = Len(speeches) + 1
  BY <1>1, <1>2
<1>6. \A x : x \in Lines(more) <=> x \in Lines(speeches)
  <2>1. ASSUME NEW x \in Lines(speeches) PROVE x \in Lines(more)
    BY <1>2, <1>4 DEF Lines
  <2>2. ASSUME NEW x \in Lines(more) PROVE x \in Lines(speeches)
    <3>1. PICK i \in 1 .. Len(more) : x \in ToSet(more[i])
      BY DEF Lines
    <3> QED
      BY <1>2, <1>3, <1>5, <3>1 DEF Lines
  <2> QED
    BY <2>1, <2>2
<1>7. Lines(more) = Lines(speeches)
  BY <1>6
<1> QED
  BY <1>7 DEF more

LEMMA ElementsAppended ==
  ASSUME NEW S, NEW s \in Seq(S), NEW x \in S
  PROVE  ToSet(Append(s, x)) = ToSet(s) \union {x}
<1> DEFINE more == Append(s, x)
<1>1. Len(s) \in Nat /\ DOMAIN s = 1 .. Len(s)
  OBVIOUS
<1>2. /\ DOMAIN more = 1 .. Len(s) + 1
      /\ \A i \in 1 .. Len(s) : more[i] = s[i]
      /\ more[Len(s) + 1] = x
  OBVIOUS
<1> HIDE DEF more
<1>3. \A y \in ToSet(s) : y \in ToSet(more)
  BY <1>1, <1>2 DEF ToSet
<1>4. x \in ToSet(more)
  BY <1>1, <1>2 DEF ToSet
<1>5. \A y \in ToSet(more) : y \in ToSet(s) \union {x}
  <2> SUFFICES ASSUME NEW i \in 1 .. Len(s) + 1 PROVE more[i] \in ToSet(s) \union {x}
    BY <1>2 DEF ToSet
  <2>1. i \in 1 .. Len(s) \/ i = Len(s) + 1
    BY <1>1
  <2> QED
    BY <1>1, <1>2, <2>1 DEF ToSet
<1>6. ToSet(more) = ToSet(s) \union {x}
  BY <1>3, <1>4, <1>5
<1> QED
  BY <1>6 DEF more

LEMMA LinesCopied ==
  ASSUME NEW S, NEW speeches \in Seq(Seq(S)), Len(speeches) \in 1 .. Len(speeches), NEW new \in S,
         NEW longer, Len(longer) = Len(speeches),
         \A i \in 1 .. Len(speeches) :
           longer[i] = IF i = Len(speeches) THEN Append(speeches[i], new) ELSE speeches[i]
  PROVE  Lines(longer) = Lines(speeches) \union {new}
<1> DEFINE n == Len(speeches)
<1>1. n \in Nat /\ n \in 1 .. n /\ DOMAIN speeches = 1 .. n /\ speeches[n] \in Seq(S)
  OBVIOUS
<1>3. /\ Len(longer) = n
      /\ \A i \in 1 .. n : longer[i] = IF i = n THEN Append(speeches[n], new) ELSE speeches[i]
  OBVIOUS
<1>4. ToSet(longer[n]) = ToSet(speeches[n]) \union {new}
  <2> DEFINE s == speeches[n]
  <2>1. s \in Seq(S)
    BY <1>1
  <2> HIDE DEF s
  <2>2. ToSet(Append(s, new)) = ToSet(s) \union {new}
    BY <2>1, ElementsAppended
  <2> QED
    BY <1>1, <1>3, <2>2 DEF s
<1> HIDE DEF n
<1>5. \A i \in 1 .. n : ToSet(longer[i]) = IF i = n THEN ToSet(speeches[n]) \union {new}
                                           ELSE ToSet(speeches[i])
  <2> SUFFICES ASSUME NEW i \in 1 .. n
               PROVE  ToSet(longer[i]) = IF i = n THEN ToSet(speeches[n]) \union {new}
                                         ELSE ToSet(speeches[i])
    OBVIOUS
  <2>1. CASE i = n
    BY <1>4, <2>1
  <2>2. CASE i # n
    <3>1. longer[i] = speeches[i]
      BY <1>3, <2>2
    <3> QED
      BY <2>2, <3>1
  <2> QED
    BY <2>1, <2>2
<1>6. Lines(longer) = UNION {ToSet(longer[i]) : i \in 1 .. n}
  BY <1>3 DEF Lines
<1>7. Lines(speeches) = UNION {ToSet(speeches[i]) : i \in 1 .. n}
  BY DEF Lines, n
<1>8. \A x \in Lines(longer) : x \in Lines(speeches) \union {new}
  <2> SUFFICES ASSUME NEW x \in Lines(longer) PROVE x \in Lines(speeches) \union {new}
    OBVIOUS
  <2>1. PICK i \in 1 .. n : x \in ToSet(longer[i])
    BY <1>6
  <2>2. x \in ToSet(speeches[i]) \/ x = new
    BY <1>5, <2>1
  <2> QED
    BY <1>7, <2>2
<1>9. \A x \in Lines(speeches) : x \in Lines(longer)
  <2> SUFFICES ASSUME NEW x \in Lines(speeches) PROVE x \in Lines(longer)
    OBVIOUS
  <2>1. PICK i \in 1 .. n : x \in ToSet(speeches[i])
    BY <1>7
  <2>2. x \in ToSet(longer[i])
    BY <1>5, <2>1
  <2> QED
    BY <1>6, <2>2
<1>10. new \in Lines(longer)
  BY <1>1, <1>4, <1>6
<1> QED
  BY <1>8, <1>9, <1>10

LEMMA PartAppended ==
  ASSUME NEW S, NEW m \in Seq(S), NEW x \in S, NEW c
  PROVE  /\ Len(m \o <<x>>) = Len(m) + 1
         /\ \A k \in 1 .. Len(m) : (m \o <<x>>)[k] = m[k]
         /\ (m \o <<x>>)[Len(m) + 1] = x
         /\ Part(m \o <<x>>, c) =
              Part(m, c) \union (IF x.who = c THEN {[number |-> Len(m) + 1, text |-> x.text]} ELSE {})
<1> DEFINE more == m \o <<x>>
<1>0. Len(m) \in Nat
  OBVIOUS
<1>1. /\ Len(more) = Len(m) + 1
      /\ \A k \in 1 .. Len(m) : more[k] = m[k]
      /\ more[Len(m) + 1] = x
  OBVIOUS
<1> HIDE DEF more
<1>2. \A y \in Part(m, c) : y \in Part(more, c)
  <2> SUFFICES ASSUME NEW k \in 1 .. Len(m), m[k].who = c
               PROVE  [number |-> k, text |-> m[k].text] \in Part(more, c)
    BY DEF Part
  <2>1. k \in 1 .. Len(more) /\ more[k] = m[k]
    BY <1>0, <1>1
  <2> QED
    BY <2>1 DEF Part
<1>3. ASSUME x.who = c PROVE [number |-> Len(m) + 1, text |-> x.text] \in Part(more, c)
  <2>1. Len(m) + 1 \in 1 .. Len(more)
    BY <1>0, <1>1
  <2> QED
    BY <1>1, <1>3, <2>1 DEF Part
<1>4. ASSUME NEW k \in 1 .. Len(more), more[k].who = c
      PROVE  \/ [number |-> k, text |-> more[k].text] \in Part(m, c)
             \/ x.who = c /\ k = Len(m) + 1 /\ more[k] = x
  <2>1. k \in 1 .. Len(m) \/ k = Len(m) + 1
    BY <1>0, <1>1
  <2> QED
    BY <1>1, <1>4, <2>1 DEF Part
<1>5. \A y \in Part(more, c) : y \in Part(m, c) \union (IF x.who = c THEN {[number |-> Len(m) + 1, text |-> x.text]} ELSE {})
  <2> SUFFICES ASSUME NEW y \in Part(more, c)
               PROVE  y \in Part(m, c) \/ (x.who = c /\ y = [number |-> Len(m) + 1, text |-> x.text])
    OBVIOUS
  <2>1. PICK k \in 1 .. Len(more) : more[k].who = c /\ y = [number |-> k, text |-> more[k].text]
    BY DEF Part
  <2> QED
    BY <1>4, <2>1
<1>6. Part(more, c) = Part(m, c) \union (IF x.who = c THEN {[number |-> Len(m) + 1, text |-> x.text]} ELSE {})
  BY <1>2, <1>3, <1>5
<1> QED
  BY <1>1, <1>6 DEF more

(* What a line adds to what is meant. *)
Adds(script, i) ==
  IF script[i].kind = "empty" \/ Begins(script, i) THEN <<>>
  ELSE << [who |-> Speaker(script, i), text |-> script[i].text] >>

LEMMA LastSpeaker ==
  ASSUME NEW script, NEW i \in Nat, NEW j \in 1 .. i, Begins(script, j),
         \A k \in j + 1 .. i : ~Begins(script, k)
  PROVE  Speaker(script, i) = script[j].prefix
<1> DEFINE h == {l \in 1 .. i : Begins(script, l)}
           n == CHOOSE l \in h : \A k \in h : k <= l
<1>1. j \in h
  OBVIOUS
<1>2. \A k \in h : k <= j
  <2> SUFFICES ASSUME NEW k \in 1 .. i, Begins(script, k), ~(k <= j) PROVE FALSE
    OBVIOUS
  <2>1. k \in j + 1 .. i
    OBVIOUS
  <2> QED
    BY <2>1
<1>3. n \in h /\ \A k \in h : k <= n
  <2> HIDE DEF h
  <2>1. \E l \in h : \A k \in h : k <= l
    BY <1>1, <1>2
  <2> QED
    BY <2>1
<1>4. n = j
  <2> HIDE DEF n
  <2>1. n <= j /\ j <= n
    BY <1>1, <1>2, <1>3
  <2>2. n \in Nat /\ j \in Nat
    BY <1>3
  <2> QED
    BY <2>1, <2>2
<1>5. Speaker(script, i) = script[n].prefix
  BY DEF Speaker
<1> QED
  BY <1>4, <1>5

(* What main knows after i lines: who speaks last, and in the speeches the  *)
(* lines that are meant so far.                                             *)
SpeaksLast(script, i, who) ==
  \/ who = NONE /\ \A j \in 1 .. i : ~Begins(script, j)
  \/ \E j \in 1 .. i : /\ Begins(script, j) /\ \A k \in j + 1 .. i : ~Begins(script, k)
                       /\ who = script[j].prefix

AsMeant(script, i, st, m) ==
  /\ SplitType(st)
  /\ st.copying = (i # 0 /\ script[i].kind # "empty")
  /\ SpeaksLast(script, i, st.current)
  /\ st.copying => st.current \in st.seen
  /\ st.seen \subseteq Names
  /\ st.index = Len(m) + 1
  /\ \A k \in 1 .. Len(m) : m[k].who \in st.seen
  /\ \A c \in Headings : Lines(st.speeches[c]) = Part(m, c)

LEMMA NobodyNew ==
  ASSUME NEW script, NEW i \in Nat, NEW who, SpeaksLast(script, i, who), ~Begins(script, i + 1)
  PROVE  SpeaksLast(script, i + 1, who)
<1>1. CASE who = NONE /\ \A j \in 1 .. i : ~Begins(script, j)
  <2>1. \A j \in 1 .. i + 1 : j \in 1 .. i \/ j = i + 1
    OBVIOUS
  <2> QED
    BY <1>1, <2>1 DEF SpeaksLast
<1>2. ASSUME NEW j \in 1 .. i, Begins(script, j), \A k \in j + 1 .. i : ~Begins(script, k),
             who = script[j].prefix
      PROVE  SpeaksLast(script, i + 1, who)
  <2>1. j \in 1 .. i + 1 /\ \A k \in j + 1 .. i + 1 : k \in j + 1 .. i \/ k = i + 1
    OBVIOUS
  <2>2. \A k \in j + 1 .. i + 1 : ~Begins(script, k)
    BY <1>2, <2>1
  <2> QED
    BY <1>2, <2>1, <2>2 DEF SpeaksLast
<1> QED
  BY <1>1, <1>2 DEF SpeaksLast

LEMMA SplitLineAsMeant ==
  ASSUME NEW script \in Scripts, WellFormed(script), NEW i \in 0 .. Len(script) - 1,
         NEW S, NEW m \in Seq(S), NEW st, AsMeant(script, i, st, m),
         Adds(script, i + 1) \in Seq(S)
  PROVE  AsMeant(script, i + 1, SplitLine(st, script[i + 1]), m \o Adds(script, i + 1))
<1> DEFINE line == script[i + 1]
           adds == Adds(script, i + 1)
           next == SplitLine(st, line)
<1>0. /\ i \in Nat /\ i + 1 \in 1 .. Len(script) /\ DOMAIN script = 1 .. Len(script)
      /\ i + 1 \in Nat /\ i + 1 # 0 /\ i + 1 - 1 = i
  <2>1. script \in Seq(ScriptLine)
    BY RecitalAssumption
  <2> QED
    BY <2>1
<1>1. line \in ScriptLine /\ (line.kind = "empty" => line.prefix = NONE)
  <2>1. script \in Seq(ScriptLine)
    BY RecitalAssumption
  <2> QED
    BY <1>0, <2>1, RecitalAssumption
<1>2. /\ SplitType(st) /\ st \in SplitState
      /\ st.copying = (i # 0 /\ script[i].kind # "empty")
      /\ SpeaksLast(script, i, st.current)
      /\ st.copying => st.current \in st.seen
      /\ st.seen \subseteq Names
      /\ st.index = Len(m) + 1
      /\ \A k \in 1 .. Len(m) : m[k].who \in st.seen
      /\ \A c \in Headings : Lines(st.speeches[c]) = Part(m, c)
  BY DEF AsMeant, SplitType
<1>3. SplitType(next)
  BY <1>1, <1>2, SplitLineType
<1>4. Begins(script, i + 1) <=> line.kind # "empty" /\ ~st.copying
  <2>1. script[i + 1 - 1] = script[i] /\ (i + 1 = 1 <=> i = 0)
    BY <1>0
  <2>2. st.copying <=> i # 0 /\ script[i].kind # "empty"
    BY <1>2
  <2>3. Begins(script, i + 1) <=> line.kind # "empty" /\ (i = 0 \/ script[i].kind = "empty")
    BY <2>1 DEF Begins
  <2> HIDE DEF line
  <2> QED
    BY <2>2, <2>3
<1>5. m \o <<>> = m
  BY ConcatEmptySeq
<1>6. CASE line.kind = "empty"
  <2>1. adds = <<>> /\ ~Begins(script, i + 1)
    BY <1>4, <1>6 DEF Adds
  <2>2. SpeaksLast(script, i + 1, st.current)
    BY <1>0, <1>2, <2>1, NobodyNew
  <2>3. /\ next.copying = FALSE /\ next.current = st.current /\ next.seen = st.seen
        /\ next.index = st.index /\ next.speeches = st.speeches
    <3>1. CASE st.copying
      <4>1. next = [st EXCEPT !.copying = FALSE]
        BY <1>6, <3>1 DEF SplitLine
      <4> QED
        BY <1>2, <4>1 DEF SplitState
    <3>2. CASE ~st.copying
      <4>1. next = st
        BY <1>1, <1>6, <3>2 DEF SplitLine
      <4> QED
        BY <1>2, <3>2, <4>1 DEF SplitState
    <3> QED
      BY <3>1, <3>2
  <2> HIDE DEF next, adds
  <2>4. AsMeant(script, i + 1, next, m)
    BY <1>0, <1>2, <1>3, <1>6, <2>2, <2>3 DEF AsMeant
  <2> QED
    BY <1>5, <2>1, <2>4 DEF next, adds
<1>7. CASE line.kind # "empty" /\ ~st.copying
  <2>1. adds = <<>> /\ Begins(script, i + 1)
    BY <1>4, <1>7 DEF Adds
  <2>2. line.prefix \in Names /\ line.prefix # NONE /\ line.prefix \in Headings
    BY <1>0, <2>1, RecitalAssumption DEF WellFormed
  <2>3. line.prefix # st.current
    <3>1. CASE st.current = NONE
      BY <2>2, <3>1
    <3>2. ASSUME NEW j \in 1 .. i, Begins(script, j), \A k \in j + 1 .. i : ~Begins(script, k),
                 st.current = script[j].prefix
          PROVE  line.prefix # st.current
      BY <1>0, <2>1, <3>2 DEF WellFormed
    <3> QED
      BY <1>2, <3>1, <3>2 DEF SpeaksLast
  <2>4. next = Header(st, line)
    BY <1>7, <2>2, <2>3 DEF SplitLine
  <2> DEFINE old == st.speeches[line.prefix]
             all == [st.speeches EXCEPT ![line.prefix] = Append(old, <<>>)]
             seen == st.seen \union {line.prefix}
  <2>5. next = [st EXCEPT !.current = line.prefix, !.copying = TRUE, !.speeches = all, !.seen = seen]
    BY <1>1, <1>2, <2>2, <2>4, HeaderType
  <2> HIDE DEF all, seen, next
  <2>6. /\ next.copying = TRUE /\ next.current = line.prefix /\ next.seen = seen
        /\ next.index = st.index /\ next.speeches = all
    BY <1>2, <2>5 DEF SplitState
  <2>7. old \in Seq(Seq(FileLine)) /\ st.speeches \in [Headings -> Seq(Seq(FileLine))]
    BY <1>2, <2>2 DEF SplitState
  <2>8. ASSUME NEW c \in Headings PROVE Lines(all[c]) = Part(m, c)
    <3>1. CASE c = line.prefix
      <4> HIDE DEF old
      <4>1. all[c] = Append(old, <<>>)
        BY <2>7, <3>1 DEF all
      <4>2. Lines(Append(old, <<>>)) = Lines(old)
        BY <2>7, LinesBegun
      <4> QED
        BY <1>2, <3>1, <4>1, <4>2 DEF old
    <3>2. CASE c # line.prefix
      <4>1. all[c] = st.speeches[c]
        BY <2>7, <3>2 DEF all
      <4> QED
        BY <1>2, <4>1
    <3> QED
      BY <3>1, <3>2
  <2>9. SpeaksLast(script, i + 1, line.prefix)
    <3>1. i + 1 \in 1 .. i + 1 /\ (i + 1) + 1 .. i + 1 = {}
      BY <1>0
    <3> QED
      BY <2>1, <3>1 DEF SpeaksLast
  <2>10. seen \subseteq Names /\ line.prefix \in seen /\ \A k \in 1 .. Len(m) : m[k].who \in seen
    BY <1>2, <2>2 DEF seen
  <2>11. AsMeant(script, i + 1, next, m)
    BY <1>0, <1>2, <1>3, <1>7, <2>6, <2>8, <2>9, <2>10 DEF AsMeant
  <2> HIDE DEF adds
  <2> QED
    BY <1>5, <2>1, <2>11 DEF next, adds
<1>8. CASE line.kind # "empty" /\ st.copying
  <2>1. ~Begins(script, i + 1)
    BY <1>4, <1>8
  <2>2. SpeaksLast(script, i + 1, st.current)
    BY <1>0, <1>2, <2>1, NobodyNew
  <2>3. st.current \in Names /\ st.current \in Headings /\ st.current # NONE
    BY <1>2, <1>8, RecitalAssumption
  <2>4. Speaker(script, i + 1) = st.current
    <3>1. PICK j \in 1 .. i + 1 : /\ Begins(script, j) /\ \A k \in j + 1 .. i + 1 : ~Begins(script, k)
                                  /\ st.current = script[j].prefix
      BY <2>2, <2>3 DEF SpeaksLast
    <3> QED
      BY <1>0, <3>1, LastSpeaker
  <2> DEFINE x == [who |-> st.current, text |-> line.text]
             new == [number |-> st.index, text |-> line.text]
             speech == st.speeches[st.current]
             longer == [speech EXCEPT ![Len(speech)] = Append(speech[Len(speech)], new)]
             all == [st.speeches EXCEPT ![st.current] = longer]
  <2>5. adds = <<x>>
    BY <1>8, <2>1, <2>4 DEF Adds
  <2>6. x \in S
    <3> HIDE DEF x, adds
    <3>1. <<x>> \in Seq(S)
      BY <2>5 DEF adds
    <3> QED
      BY <3>1
  <2>7. next = Copy(st, line)
    BY <1>8 DEF SplitLine
  <2>8. /\ speech \in Seq(Seq(FileLine)) /\ Len(speech) \in 1 .. Len(speech)
        /\ new \in FileLine
        /\ Copy(st, line) = [st EXCEPT !.speeches = all, !.index = st.index + 1]
    BY <1>1, <1>2, <1>8, CopyType, Zenon
  <2> HIDE DEF all, next
  <2>9. /\ next.copying = st.copying /\ next.current = st.current /\ next.seen = st.seen
        /\ next.index = st.index + 1 /\ next.speeches = all
    BY <1>2, <2>7, <2>8 DEF SplitState
  <2>10. Lines(longer) = Lines(speech) \union {new}
    <3> HIDE DEF longer, speech, new
    <3>1. longer = [speech EXCEPT ![Len(speech)] = Append(speech[Len(speech)], new)]
      BY DEF longer
    <3>2. speech \in Seq(Seq(FileLine)) /\ Len(speech) \in 1 .. Len(speech) /\ new \in FileLine
      BY <2>8
    <3>3. /\ Len(longer) = Len(speech)
          /\ \A j \in 1 .. Len(speech) :
               longer[j] = IF j = Len(speech) THEN Append(speech[j], new) ELSE speech[j]
      BY <3>1, <3>2
    <3> QED
      BY <3>2, <3>3, LinesCopied
  <2> DEFINE more == m \o <<x>>
  <2>11. /\ Len(more) = Len(m) + 1 /\ \A k \in 1 .. Len(m) : more[k] = m[k]
         /\ more[Len(m) + 1] = x
         /\ \A c : Part(more, c) =
              Part(m, c) \union (IF x.who = c THEN {[number |-> Len(m) + 1, text |-> x.text]} ELSE {})
    <3> HIDE DEF x
    <3> QED
      BY <2>6, PartAppended
  <2> HIDE DEF more, longer, speech
  <2>12. ASSUME NEW c \in Headings PROVE Lines(all[c]) = Part(more, c)
    <3>0. st.speeches \in [Headings -> Seq(Seq(FileLine))]
      BY <1>2 DEF SplitState
    <3>1. CASE c = st.current
      <4>1. all[c] = longer
        BY <2>3, <3>0, <3>1 DEF all
      <4>2. Lines(speech) = Part(m, c)
        BY <1>2, <3>1 DEF speech
      <4>3. Part(more, c) = Part(m, c) \union {new}
        BY <1>2, <2>11, <3>1
      <4> QED
        BY <2>10, <4>1, <4>2, <4>3
    <3>2. CASE c # st.current
      <4>1. all[c] = st.speeches[c]
        BY <3>0, <3>2 DEF all
      <4>2. Part(more, c) = Part(m, c)
        BY <2>11, <3>2
      <4> QED
        BY <1>2, <4>1, <4>2
    <3> QED
      BY <3>1, <3>2
  <2>13. ASSUME NEW k \in 1 .. Len(more) PROVE more[k].who \in st.seen
    <3>0. Len(m) \in Nat
      OBVIOUS
    <3>1. k \in 1 .. Len(m) \/ k = Len(m) + 1
      BY <2>11, <3>0
    <3>2. x.who = st.current
      OBVIOUS
    <3> HIDE DEF x
    <3> QED
      BY <1>2, <1>8, <2>11, <3>1, <3>2
  <2>14. AsMeant(script, i + 1, next, more)
    BY <1>0, <1>2, <1>3, <1>8, <2>2, <2>9, <2>11, <2>12, <2>13 DEF AsMeant
  <2> HIDE DEF x, adds
  <2> QED
    BY <2>5, <2>14 DEF next, more, adds
<1> QED
  BY <1>2, <1>6, <1>7, <1>8 DEF SplitState

LEMMA SplitUpAsMeant ==
  ASSUME NEW script \in Scripts, WellFormed(script)
  PROVE  /\ \E S : /\ Meant(script) \in Seq(S)
                   /\ \A x \in S : x = [who |-> x.who, text |-> x.text]
         /\ SplitUp(script).seen \subseteq Names
         /\ \A k \in 1 .. Len(Meant(script)) : Meant(script)[k].who \in SplitUp(script).seen
         /\ \A c \in Headings : Lines(SplitUp(script).speeches[c]) = Part(Meant(script), c)
<1> DEFINE n == Len(script)
           S == {[who |-> Speaker(script, i), text |-> script[i].text] : i \in 1 .. n}
           adds == [i \in 1 .. n |-> Adds(script, i)]
<1>1. n \in Nat /\ DOMAIN script = 1 .. n
  <2>1. script \in Seq(ScriptLine)
    BY RecitalAssumption
  <2> QED
    BY <2>1
<1>2. Meant(script) = FlattenSeq(adds)
  BY <1>1 DEF Meant, Adds
<1>3. ASSUME NEW i \in 1 .. n PROVE Adds(script, i) \in Seq(S)
  <2> DEFINE x == [who |-> Speaker(script, i), text |-> script[i].text]
  <2>1. x \in S
    OBVIOUS
  <2>2. Adds(script, i) = <<>> \/ Adds(script, i) = <<x>>
    BY DEF Adds
  <2> HIDE DEF x, S
  <2>3. <<>> \in Seq(S) /\ <<x>> \in Seq(S)
    BY <2>1
  <2> QED
    BY <2>2, <2>3
<1>4. \A x \in S : x = [who |-> x.who, text |-> x.text]
  OBVIOUS
<1> HIDE DEF S
<1>5. adds \in Seq(Seq(S)) /\ Len(adds) = n /\ \A i \in 1 .. n : adds[i] = Adds(script, i)
  BY <1>1, <1>3
<1> HIDE DEF adds
<1>6. PICK f : /\ f[0] = <<>>
               /\ \A i \in 1 .. n : f[i] = f[i - 1] \o Adds(script, i)
               /\ \A i \in 0 .. n : f[i] \in Seq(S)
               /\ Meant(script) = f[n]
  <2>1. PICK f : /\ f[0] = <<>>
                 /\ \A i \in 1 .. Len(adds) : f[i] = f[i - 1] \o adds[i]
                 /\ \A i \in 0 .. Len(adds) : f[i] \in Seq(S)
                 /\ FlattenSeq(adds) = f[Len(adds)]
    BY <1>5, Flattening
  <2>2. /\ \A i \in 1 .. n : f[i] = f[i - 1] \o Adds(script, i)
        /\ \A i \in 0 .. n : f[i] \in Seq(S)
        /\ Meant(script) = f[n]
    BY <1>2, <1>5, <2>1
  <2> QED
    BY <2>1, <2>2
<1>7. PICK a : /\ a[0] = SplitStart
               /\ \A i \in 1 .. n : a[i] = SplitLine(a[i - 1], script[i])
               /\ SplitUp(script) = a[n]
  BY <1>1, SplitByLine
<1> DEFINE T == {i \in 0 .. n : AsMeant(script, i, a[i], f[i])}
<1>8. 0 \in T
  <2> DEFINE none == <<>>
  <2>0. none = <<>>
    OBVIOUS
  <2>1. /\ SplitStart.copying = FALSE /\ SplitStart.current = NONE /\ SplitStart.seen = {}
        /\ SplitStart.index = 1
        /\ \A c \in Headings : SplitStart.speeches[c] = <<>>
    BY DEF SplitStart
  <2>2. Len(<<>>) = 0 /\ 1 .. 0 = {}
    OBVIOUS
  <2>3. Lines(<<>>) = {}
    BY <2>2 DEF Lines
  <2>4. \A c : Part(<<>>, c) = {}
    BY <2>2 DEF Part
  <2>5. SpeaksLast(script, 0, NONE)
    BY <2>2 DEF SpeaksLast
  <2>6. AsMeant(script, 0, SplitStart, none)
    <3>1. \A c \in Headings : Lines(SplitStart.speeches[c]) = Part(none, c)
      BY <2>0, <2>1, <2>3, <2>4
    <3>2. SplitStart.index = Len(none) + 1 /\ \A k \in 1 .. Len(none) : none[k].who \in SplitStart.seen
      BY <2>0, <2>1, <2>2
    <3> HIDE DEF none
    <3> QED
      BY <2>1, <2>5, <3>1, <3>2, SplitStartType DEF AsMeant
  <2> QED
    BY <1>1, <1>6, <1>7, <2>6
<1> HIDE DEF n
<1>9. ASSUME NEW i \in 1 .. n, i - 1 \in T PROVE i \in T
  <2>1. i - 1 \in 0 .. n - 1 /\ i - 1 \in 0 .. n /\ i - 1 + 1 = i /\ i \in 0 .. n
    BY <1>1
  <2>2. AsMeant(script, i - 1, a[i - 1], f[i - 1]) /\ f[i - 1] \in Seq(S)
    BY <1>6, <1>9, <2>1
  <2>3. a[i] = SplitLine(a[i - 1], script[i]) /\ f[i] = f[i - 1] \o Adds(script, i)
    BY <1>6, <1>7
  <2> DEFINE st == a[i - 1]
             m == f[i - 1]
             j == i - 1
  <2>4. /\ j \in 0 .. Len(script) - 1 /\ m \in Seq(S) /\ AsMeant(script, j, st, m) /\ j + 1 = i
        /\ Adds(script, i) \in Seq(S)
    BY <1>3, <2>1, <2>2 DEF n
  <2> HIDE DEF st, m, j
  <2>5. AsMeant(script, i, SplitLine(st, script[i]), m \o Adds(script, i))
    BY <2>4, SplitLineAsMeant
  <2> QED
    BY <2>1, <2>3, <2>5 DEF st, m
<1>10. \A i \in 0 .. n : i \in T
  <2> HIDE DEF T
  <2>1. \A i \in 1 .. n : i - 1 \in T => i \in T
    BY <1>9
  <2> QED
    BY <1>1, <1>8, <2>1, UpTo
<1>11. n \in 0 .. n
  BY <1>1
<1>12. AsMeant(script, n, SplitUp(script), Meant(script))
  BY <1>6, <1>7, <1>10, <1>11
<1>13. Meant(script) \in Seq(S)
  BY <1>6, <1>11
<1> QED
  BY <1>4, <1>12, <1>13 DEF AsMeant

-----------------------------------------------------------------------------
(* The round trip. *)

(* One well-formed script has been split, once or more often, into files    *)
(* that were empty.                                                         *)
OneScript ==
  /\ scripts # <<>> /\ \A c \in Headings : origin[c] = <<>>
  /\ WellFormed(scripts[1]) /\ \A i \in DOMAIN scripts : scripts[i] = scripts[1]

(* Then the files hold what it means, and its speakers are cast. *)
AsWritten ==
  /\ scripts = <<>> => files = origin
  /\ OneScript =>
       /\ \A c \in Headings : ToSet(files[c]) = Part(Meant(scripts[1]), c)
       /\ \A k \in 1 .. Len(Meant(scripts[1])) : Meant(scripts[1])[k].who \in Playing

LEMMA SplitAsWritten ==
  RecitalInv /\ AsWritten /\ Split => AsWritten'
<1> SUFFICES ASSUME RecitalInv, AsWritten, Split PROVE AsWritten'
  OBVIOUS
<1>1. origin' = origin
  BY DEF Split
<1>2. PICK script \in Scripts :
        /\ \E new \in [Headings -> UNION {Shuffles(SplitUp(script).speeches[c]) : c \in Headings}] :
             /\ \A c \in Headings : new[c] \in Shuffles(SplitUp(script).speeches[c])
             /\ files' = [c \in Headings |-> files[c] \o new[c]]
        /\ config' = SplitUp(script).seen
        /\ scripts' = Append(scripts, script)
  BY DEF Split
<1>3. PICK new : /\ \A c \in Headings : new[c] \in Shuffles(SplitUp(script).speeches[c])
                 /\ files' = [c \in Headings |-> files[c] \o new[c]]
  BY <1>2
<1>4. /\ scripts \in Seq(Scripts) /\ Len(scripts) \in Nat /\ DOMAIN scripts = 1 .. Len(scripts)
      /\ files \in [Headings -> Seq(FileLine)]
  BY DEF RecitalInv, RecitalType
<1>5. /\ scripts' # <<>> /\ DOMAIN scripts' = 1 .. Len(scripts) + 1
      /\ \A i \in 1 .. Len(scripts) : scripts'[i] = scripts[i]
      /\ scripts'[Len(scripts) + 1] = script
  <2> DEFINE all == scripts'
  <2>1. all = Append(scripts, script)
    BY <1>2
  <2> HIDE DEF all
  <2>2. /\ all # <<>> /\ DOMAIN all = 1 .. Len(scripts) + 1
        /\ \A i \in 1 .. Len(scripts) : all[i] = scripts[i]
        /\ all[Len(scripts) + 1] = script
    <3>1. /\ Append(scripts, script) \in Seq(Scripts) /\ Append(scripts, script) # <<>>
          /\ Len(Append(scripts, script)) = Len(scripts) + 1
          /\ \A i \in 1 .. Len(scripts) : Append(scripts, script)[i] = scripts[i]
          /\ Append(scripts, script)[Len(scripts) + 1] = script
      BY <1>4, AppendProperties
    <3>2. DOMAIN Append(scripts, script) = 1 .. Len(scripts) + 1
      BY <1>4, <3>1
    <3> QED
      BY <2>1, <3>1, <3>2
  <2> QED
    BY <2>2 DEF all
<1> SUFFICES ASSUME OneScript'
             PROVE  /\ \A c \in Headings : ToSet(files'[c]) = Part(Meant(scripts'[1]), c)
                    /\ \A k \in 1 .. Len(Meant(scripts'[1])) : Meant(scripts'[1])[k].who \in Playing'
  BY <1>5 DEF AsWritten
<1>6. scripts'[1] = script /\ WellFormed(script)
  <2>1. Len(scripts) + 1 \in DOMAIN scripts'
    BY <1>4, <1>5
  <2> QED
    BY <1>5, <2>1 DEF OneScript
<1>7. ASSUME NEW c \in Headings PROVE ToSet(new[c]) = Part(Meant(script), c) /\ new[c] \in Seq(FileLine)
  <2> DEFINE speeches == SplitUp(script).speeches[c]
             w == new[c]
  <2>1. SplitType(SplitUp(script))
    <3>1. script \in Seq(ScriptLine)
      BY RecitalAssumption
    <3> QED
      BY <3>1, SplitUpType
  <2>2. speeches \in Seq(Seq(FileLine)) /\ w \in Shuffles(speeches)
    BY <1>3, <2>1 DEF SplitType, SplitState
  <2>3. Lines(speeches) = Part(Meant(script), c)
    BY <1>6, SplitUpAsMeant
  <2> HIDE DEF speeches, w
  <2>4. w \in Seq(FileLine) /\ ToSet(w) = Lines(speeches)
    BY <2>2, ShuffleSaysAll DEF Lines
  <2> QED
    BY <2>3, <2>4 DEF w
<1>8. ASSUME NEW c \in Headings PROVE ToSet(files[c]) \subseteq Part(Meant(script), c)
  <2>1. CASE scripts = <<>>
    <3>1. files[c] = <<>>
      BY <1>1, <2>1 DEF AsWritten, OneScript
    <3> QED
      BY <3>1 DEF ToSet
  <2>2. CASE scripts # <<>>
    <3>1. 1 \in 1 .. Len(scripts)
      BY <1>4, <2>2
    <3>2. scripts[1] = script /\ \A i \in DOMAIN scripts : scripts[i] = script
      <4>1. \A i \in DOMAIN scripts' : scripts'[i] = script
        BY <1>6 DEF OneScript
      <4> QED
        BY <1>4, <1>5, <3>1, <4>1
    <3>3. OneScript
      BY <1>1, <1>6, <2>2, <3>2 DEF OneScript
    <3> QED
      BY <3>2, <3>3 DEF AsWritten
  <2> QED
    BY <2>1, <2>2
<1>9. ASSUME NEW c \in Headings PROVE ToSet(files'[c]) = Part(Meant(script), c)
  <2>1. files'[c] = files[c] \o new[c] /\ files[c] \in Seq(FileLine)
    BY <1>3, <1>4
  <2> DEFINE s == files[c]
             t == new[c]
  <2>2. s \in Seq(FileLine) /\ t \in Seq(FileLine)
    BY <1>7, <2>1
  <2> HIDE DEF s, t
  <2>3. ToSet(s \o t) = ToSet(s) \union ToSet(t)
    BY <2>2, ElementsOfConcat
  <2> QED
    BY <1>7, <1>8, <2>1, <2>3 DEF s, t
<1>10. \A k \in 1 .. Len(Meant(script)) : Meant(script)[k].who \in Playing'
  BY <1>2, <1>6, SplitUpAsMeant DEF Playing
<1> QED
  BY <1>6, <1>9, <1>10

LEMMA AsWrittenStep ==
  RecitalInv /\ AsWritten /\ [RecitalNext]_recitalVars => AsWritten'
<1> SUFFICES ASSUME RecitalInv, AsWritten, [RecitalNext]_recitalVars PROVE AsWritten'
  OBVIOUS
<1>1. CASE Split
  BY <1>1, SplitAsWritten
<1>2. ASSUME UNCHANGED chain PROVE AsWritten'
  BY <1>2 DEF chain, AsWritten, OneScript, Playing
<1>3. CASE ~Split
  <2>1. UNCHANGED chain
    BY <1>3 DEF RecitalNext, ReciterMain, ReciterStep, ReadConfig, EnterPlayer, AllEntered,
                ExitPlayers, ReadPart, ReciteLine, EndAct, recitalVars
  <2> QED
    BY <1>2, <2>1
<1> QED
  BY <1>1, <1>3

LEMMA AsWrittenInit ==
  RecitalInit => AsWritten
BY DEF RecitalInit, AsWritten, OneScript

LEMMA Returned ==
  RecitalInv /\ AsWritten => RoundTrip
<1> SUFFICES ASSUME RecitalInv, AsWritten, main = "done", OneScript
             PROVE  printed = Meant(scripts[1])
  BY DEF RoundTrip, OneScript
<1> DEFINE m == Meant(scripts[1])
<1>1. scripts[1] \in Scripts /\ WellFormed(scripts[1])
  <2>1. scripts \in Seq(Scripts) /\ scripts # <<>>
    BY DEF RecitalInv, RecitalType, OneScript
  <2>2. 1 \in 1 .. Len(scripts)
    BY <2>1, EmptySeq
  <2> QED
    BY <2>1, <2>2 DEF OneScript
<1>2. PICK S : m \in Seq(S) /\ \A x \in S : x = [who |-> x.who, text |-> x.text]
  BY <1>1, SplitUpAsMeant
<1>3. /\ \A c \in Headings : ToSet(files[c]) = Part(m, c)
      /\ \A k \in 1 .. Len(m) : m[k].who \in Playing
  BY DEF AsWritten
<1> HIDE DEF m
<1>4. /\ printed \in Seq(Spoken) /\ counter \in Nat \ {0} /\ Len(printed) = counter - 1
      /\ files \in [Headings -> Seq(FileLine)] /\ config \subseteq Headings
  BY DEF RecitalInv, RecitalType, Recited, Spoken
<1>5. Len(m) \in Nat /\ \A k \in 1 .. Len(m) : m[k] \in S
  BY <1>2
(* Everything that is meant has been recited, *)
<1>6. ASSUME NEW k \in 1 .. Len(m) PROVE k <= Len(printed)
  <2> DEFINE c == m[k].who
             file == files[c]
             x == [number |-> k, text |-> m[k].text]
  <2>1. c \in Playing /\ c \in Names /\ c \in Headings
    BY <1>3, RecitalAssumption DEF Playing
  <2>2. x \in Part(m, c)
    BY DEF Part
  <2>3. x \in ToSet(file) /\ file \in Seq(FileLine)
    BY <1>3, <1>4, <2>1, <2>2
  <2>4. PICK l \in ReadFile(file) : l.number = k
    <3> HIDE DEF file
    <3>1. x.number = k
      OBVIOUS
    <3> QED
      BY <2>3, <3>1, FirstOfNumber
  <2>5. thread[c] = "done" /\ left[c] = {}
    BY <2>1 DEF RecitalInv, AllRecited
  <2>6. k < counter
    BY <2>1, <2>4, <2>5 DEF RecitalInv, PartsKnown
  <2> QED
    BY <1>4, <1>5, <2>6
(* and what has been recited is the line that is meant at its place. *)
<1>7. ASSUME NEW k \in 1 .. Len(printed) PROVE k <= Len(m) /\ printed[k] = m[k]
  <2> DEFINE c == printed[k].who
  <2>1. k \in 1 .. counter - 1 /\ printed[k] \in Spoken
    BY <1>4
  <2>2. c \in config /\ \E l \in ReadFile(files[c]) : l.number = k /\ l.text = printed[k].text
    BY <2>1 DEF RecitalInv, Recited
  <2>3. c \in Headings /\ files[c] \in Seq(FileLine)
    BY <1>4, <2>2
  <2> HIDE DEF c
  <2>4. PICK l \in ReadFile(files[c]) : l.number = k /\ l.text = printed[k].text
    BY <2>2
  <2>5. l \in Part(m, c)
    <3>1. l \in ToSet(files[c])
      BY <2>3, <2>4, FirstOfNumber
    <3> QED
      BY <1>3, <2>3, <3>1
  <2>6. PICK j \in 1 .. Len(m) : m[j].who = c /\ l = [number |-> j, text |-> m[j].text]
    BY <2>5 DEF Part
  <2>7. j = k /\ m[k].text = printed[k].text
    BY <2>4, <2>6
  <2>8. m[k] = [who |-> m[k].who, text |-> m[k].text]
    BY <1>2, <1>5, <2>6, <2>7
  <2>9. printed[k] = [who |-> printed[k].who, text |-> printed[k].text]
    BY <2>1 DEF Spoken
  <2>10. printed[k] = m[k]
    BY <2>6, <2>7, <2>8, <2>9 DEF c
  <2> QED
    BY <1>5, <2>6, <2>7, <2>10
<1>8. Len(printed) = Len(m)
  <2>1. Len(printed) \in Nat
    BY <1>4
  <2>2. Len(m) # 0 => Len(m) <= Len(printed)
    BY <1>5, <1>6
  <2>3. Len(printed) # 0 => Len(printed) <= Len(m)
    BY <1>7, <2>1
  <2> QED
    BY <1>5, <2>1, <2>2, <2>3
<1>9. printed = m
  <2>1. printed \in Seq(Spoken \union S) /\ m \in Seq(Spoken \union S)
    BY <1>2, <1>4, SeqMonotonic
  <2>2. \A k \in 1 .. Len(printed) : printed[k] = m[k]
    BY <1>7
  <2> QED
    BY <1>8, <2>1, <2>2, SeqEqual
<1> QED
  BY <1>9 DEF m

(* RoundTrip (Recital): a well-formed script, split into files that were    *)
(* empty, its speeches shuffled or not, once or again, and recited by the   *)
(* threads of lab1 in any interleaving, is the script again.                *)
THEOREM ScriptComesBack ==
  RecitalSpec => []RoundTrip
<1>1. RecitalSpec => []AsWritten
  <2>1. RecitalInv /\ RecitalInv' /\ AsWritten /\ [RecitalNext]_recitalVars => AsWritten'
    BY AsWrittenStep
  <2> QED
    BY <2>1, AsWrittenInit, RecitalInvariant, PTL DEF RecitalSpec
<1> QED
  BY <1>1, RecitalInvariant, Returned, PTL

=============================================================================
