------------------------ MODULE SocketActivationProofs ------------------------
(***************************************************************************)
(* For every list of names and every number of descriptors: the offset     *)
(* into the bytes of the names never drifts, and what run() keeps is its   *)
(* own.                                                                    *)
(***************************************************************************)
EXTENDS SocketActivation, FiniteSetTheorems, TLAPS

Alphabet == Bytes \cup {":"}

-----------------------------------------------------------------------------
(* Least numbers, and the colons among the first bytes.                    *)

\* Every set of naturals that is not empty has a least element.
LEMMA Least ==
  ASSUME NEW S \in SUBSET Nat, S # {}
  PROVE  \E m \in S : \A n \in S : m <= n
<1>1. IsWellFoundedOn(OpToRel(<, Nat), Nat)
  BY NatLessThanWellFounded
<1>2. \E x \in S : \A y \in S : ~(<<y, x>> \in OpToRel(<, Nat))
  BY <1>1, WFMin
<1>3. \A x, y \in Nat : <<y, x>> \in OpToRel(<, Nat) <=> y < x
  BY DEF OpToRel
<1>4. PICK m \in S : \A n \in S : ~(<<n, m>> \in OpToRel(<, Nat))
  BY <1>2
<1>5. ASSUME NEW n \in S PROVE m <= n
  <2>1. m \in Nat /\ n \in Nat
    OBVIOUS
  <2>2. ~(n < m)
    BY <1>3, <1>4, <2>1
  <2> QED
    BY <2>1, <2>2
<1> QED
  BY <1>4, <1>5

LEMMA MinIsLeast ==
  ASSUME NEW S \in SUBSET Nat, S # {}
  PROVE  Min(S) \in S /\ \A n \in S : Min(S) <= n
BY Least DEF Min

LEMMA MinOfTwo ==
  ASSUME NEW a \in Nat, NEW b \in Nat
  PROVE  Min({a, b}) = IF a <= b THEN a ELSE b
<1>1. Min({a, b}) \in {a, b} /\ \A n \in {a, b} : Min({a, b}) <= n
  BY MinIsLeast
<1> QED
  BY <1>1

LEMMA EndsOfInterval ==
  ASSUME NEW a \in Int, NEW b \in Int, a <= b
  PROVE  Min(a..b) = a /\ Max(a..b) = b
<1>1. a \in a..b /\ b \in a..b /\ \A y \in a..b : a <= y /\ b >= y
  OBVIOUS
<1>2. \A x \in a..b : (\A y \in a..b : x <= y) => x = a
  BY <1>1
<1>3. \A x \in a..b : (\A y \in a..b : x >= y) => x = b
  BY <1>1
<1>4. Min(a..b) = a
  BY <1>1, <1>2 DEF Min
<1>5. Max(a..b) = b
  BY <1>1, <1>3 DEF Max
<1> QED
  BY <1>4, <1>5

LEMMA ColonsAreFinite ==
  ASSUME NEW i \in Int
  PROVE  IsFiniteSet(Colons(i)) /\ Cardinality(Colons(i)) \in Nat
<1>1. IsFiniteSet(1..i)
  BY FS_Interval
<1>2. Colons(i) \in SUBSET (1..i)
  BY DEF Colons
<1>3. IsFiniteSet(Colons(i))
  BY <1>1, <1>2, FS_Subset
<1> QED
  BY <1>3, FS_CardinalityType

\* More bytes have no fewer colons, and as many only if none was added.
LEMMA ColonsGrow ==
  ASSUME NEW i \in Int, NEW j \in Int, i <= j
  PROVE  /\ Cardinality(Colons(i)) <= Cardinality(Colons(j))
         /\ (Cardinality(Colons(i)) = Cardinality(Colons(j))
               <=> \A k \in (i + 1)..j : k > 0 => names[k] # ":")
<1>1. IsFiniteSet(Colons(i)) /\ Cardinality(Colons(i)) \in Nat
  BY ColonsAreFinite
<1>2. IsFiniteSet(Colons(j)) /\ Cardinality(Colons(j)) \in Nat
  BY ColonsAreFinite
<1>3. Colons(i) \in SUBSET Colons(j)
  BY DEF Colons
<1>4. /\ Cardinality(Colons(i)) <= Cardinality(Colons(j))
      /\ Cardinality(Colons(j)) = Cardinality(Colons(i)) => Colons(j) = Colons(i)
  BY <1>2, <1>3, FS_Subset
<1>5. Colons(i) = Colons(j) <=> \A k \in (i + 1)..j : k > 0 => names[k] # ":"
  BY DEF Colons
<1> QED
  BY <1>1, <1>2, <1>4, <1>5

LEMMA ColonAddsOne ==
  ASSUME NEW i \in Nat, names[i + 1] = ":"
  PROVE  Cardinality(Colons(i + 1)) = Cardinality(Colons(i)) + 1
<1>1. IsFiniteSet(Colons(i))
  BY ColonsAreFinite
<1>2. Colons(i + 1) = Colons(i) \cup {i + 1} /\ i + 1 \notin Colons(i)
  BY DEF Colons
<1> QED
  BY <1>1, <1>2, FS_AddElement

LEMMA NoColonsAtFirst == Cardinality(Colons(0)) = 0
<1>1. Colons(0) = {}
  BY DEF Colons
<1> QED
  BY <1>1, FS_EmptySet

-----------------------------------------------------------------------------
(* Names.                                                                  *)

\* A name starts after the first o bytes, or ends with byte e; and no colon is
\* in between.
StartsAfter(o) == o = 0 \/ names[o] = ":"
EndsWith(e) == e = Len(names) \/ names[e + 1] = ":"
NoColonBetween(o, e) == \A i \in (o + 1)..e : names[i] # ":"

\* What lies between two colons that follow each other is a name, and its number
\* is one more than the colons before it.
LEMMA NameBetweenColons ==
  ASSUME NEW o \in Nat, NEW e \in Nat, o <= e, e <= Len(names), names \in Seq(Alphabet),
         StartsAfter(o), NoColonBetween(o, e), EndsWith(e)
  PROVE  NthName(Cardinality(Colons(o)) + 1) = SubSeq(names, o + 1, e)
<1> DEFINE c == Cardinality(Colons(o))
           mine == {i \in DOMAIN names : names[i] # ":" /\ Cardinality(Colons(i - 1)) = c}
<1>1. Len(names) \in Nat /\ DOMAIN names = 1..Len(names)
  OBVIOUS
<1>2. c \in Nat
  BY ColonsAreFinite
<1>3. NthName(c + 1) = IF mine = {} THEN <<>> ELSE SubSeq(names, Min(mine), Max(mine))
  <2>1. (c + 1) - 1 = c
    BY <1>2
  <2> QED
    BY <2>1 DEF NthName
<1>4. ASSUME NEW i \in (o + 1)..e PROVE i \in mine
  <2>1. i \in DOMAIN names /\ i - 1 \in Int /\ o <= i - 1
    BY <1>1
  <2>2. names[i] # ":" /\ \A j \in (o + 1)..(i - 1) : names[j] # ":"
    BY DEF NoColonBetween
  <2>3. Cardinality(Colons(i - 1)) = c
    BY <2>1, <2>2, ColonsGrow
  <2> HIDE DEF c
  <2> QED
    BY <2>1, <2>2, <2>3
<1>5. ASSUME NEW i \in mine PROVE i \in (o + 1)..e
  <2> HIDE DEF c
  <2>1. i \in 1..Len(names) /\ i - 1 \in Int /\ names[i] # ":" /\ Cardinality(Colons(i - 1)) = c
    BY <1>1
  <2> HIDE DEF mine
  <2>2. CASE i <= o
    <3>1. names[o] = ":" /\ i - 1 <= o /\ o \in ((i - 1) + 1)..o /\ o > 0
      <4>1. o # 0
        BY <1>1, <2>1, <2>2
      <4> QED
        BY <1>1, <2>1, <2>2, <4>1 DEF StartsAfter
    <3>2. Cardinality(Colons(i - 1)) # Cardinality(Colons(o))
      BY <2>1, <3>1, ColonsGrow
    <3> QED
      BY <2>1, <3>2 DEF c
  <2>3. CASE i > e
    <3>1. names[e + 1] = ":"
      <4>1. i \in Int /\ i <= Len(names)
        BY <1>1, <2>1
      <4>2. e # Len(names)
        BY <2>3, <4>1
      <4> QED
        BY <4>2 DEF EndsWith
    <3>2. i # e + 1
      BY <2>1, <3>1
    <3>3. o <= i - 1 /\ e + 1 \in (o + 1)..(i - 1) /\ e + 1 > 0
      BY <1>1, <2>1, <2>3, <3>2
    <3>4. Cardinality(Colons(o)) # Cardinality(Colons(i - 1))
      BY <2>1, <3>1, <3>3, ColonsGrow
    <3> QED
      BY <2>1, <3>4 DEF c
  <2> QED
    BY <1>1, <2>1, <2>2, <2>3
<1> HIDE DEF mine, c
<1>6. mine = (o + 1)..e
  <2>1. (o + 1)..e \subseteq mine
    BY <1>4
  <2>2. mine \subseteq (o + 1)..e
    BY <1>5
  <2> QED
    BY <2>1, <2>2
<1>7. CASE o = e
  <2>1. mine = {}
    BY <1>6, <1>7
  <2>2. SubSeq(names, o + 1, e) = <<>>
    BY <1>1, <1>7
  <2> QED
    BY <1>3, <2>1, <2>2 DEF c
<1>8. CASE o < e
  <2>1. o + 1 \in Int /\ o + 1 <= e /\ o + 1 \in (o + 1)..e
    BY <1>8
  <2>2. Min(mine) = o + 1 /\ Max(mine) = e
    BY <1>6, <2>1, EndsOfInterval
  <2>3. mine # {}
    BY <1>6, <2>1
  <2> QED
    BY <1>3, <2>2, <2>3 DEF c
<1> QED
  BY <1>7, <1>8

\* There is no name after the last.
LEMMA NamesAreCounted ==
  ASSUME NEW k \in Int, k > NumNames, names \in Seq(Alphabet)
  PROVE  NthName(k) = <<>>
<1>1. ASSUME NEW i \in DOMAIN names PROVE Cardinality(Colons(i - 1)) # k - 1
  <2>1. i \in Int /\ Len(names) \in Int /\ i - 1 <= Len(names)
    OBVIOUS
  <2>2. Cardinality(Colons(i - 1)) <= Cardinality(Colons(Len(names)))
    BY <2>1, ColonsGrow
  <2>3. Cardinality(Colons(i - 1)) \in Nat /\ Cardinality(Colons(Len(names))) \in Nat
    BY <2>1, ColonsAreFinite
  <2> QED
    BY <2>2, <2>3 DEF NumNames
<1> QED
  BY <1>1 DEF NthName

\* The name at the offset ends before the next colon, or at the end.
LEMMA NameAtOffset ==
  ASSUME names \in Seq(Alphabet), nameOffset \in 0..Len(names)
  PROVE  /\ Colon(Rest) \in 0..(Len(names) - nameOffset)
         /\ NoColonBetween(nameOffset, nameOffset + Colon(Rest))
         /\ EndsWith(nameOffset + Colon(Rest))
         /\ SubSeq(Rest, 1, Colon(Rest))
              = SubSeq(names, nameOffset + 1, nameOffset + Colon(Rest))
         /\ SubSeq(Rest, 1, Colon(Rest)) \in Seq(Alphabet)
<1> DEFINE o == nameOffset
           rest == Rest
           l == Colon(Rest)
           colons == {i \in DOMAIN rest : rest[i] = ":"}
<1>1. Len(names) \in Nat /\ o \in Nat /\ o <= Len(names)
  OBVIOUS
<1>2. /\ rest \in Seq(Alphabet) /\ Len(rest) = Len(names) - o
      /\ DOMAIN rest = 1..(Len(names) - o)
      /\ \A i \in 1..(Len(names) - o) : rest[i] = names[o + i]
  BY <1>1 DEF Rest
<1>3. l = IF colons = {} THEN Len(rest) ELSE Min(colons) - 1
  BY DEF Colon
<1>4. colons # {} => Min(colons) \in colons /\ \A i \in colons : Min(colons) <= i
  <2>1. colons \in SUBSET Nat
    BY <1>1, <1>2
  <2> QED
    BY <2>1, MinIsLeast
<1> HIDE DEF l, rest
<1>5. l \in 0..(Len(names) - o)
  <2>1. CASE colons = {}
    BY <1>1, <1>2, <1>3, <2>1
  <2>2. CASE colons # {}
    <3>1. Min(colons) \in 1..(Len(names) - o)
      BY <1>2, <1>4, <2>2
    <3> QED
      BY <1>1, <1>3, <2>2, <3>1
  <2> QED
    BY <2>1, <2>2
<1>6. \A i \in 1..l : rest[i] # ":"
  <2> SUFFICES ASSUME NEW i \in 1..l, rest[i] = ":" PROVE FALSE
    OBVIOUS
  <2>1. i \in colons /\ i \in Int /\ i <= l
    BY <1>1, <1>2, <1>5
  <2>2. colons # {}
    BY <2>1
  <2>3. Min(colons) \in 1..(Len(names) - o)
    BY <1>2, <1>4, <2>2
  <2>4. Min(colons) <= i
    BY <1>4, <2>1, <2>2
  <2>5. l = Min(colons) - 1
    BY <1>3, <2>2
  <2> HIDE DEF colons
  <2> QED
    BY <1>1, <2>1, <2>3, <2>4, <2>5
<1>7. l = Len(names) - o \/ (l + 1 \in 1..(Len(names) - o) /\ rest[l + 1] = ":")
  <2>1. CASE colons = {}
    BY <1>2, <1>3, <2>1
  <2>2. CASE colons # {}
    <3>1. Min(colons) \in 1..(Len(names) - o) /\ rest[Min(colons)] = ":"
      BY <1>2, <1>4, <2>2
    <3>2. l + 1 = Min(colons)
      BY <1>1, <1>3, <2>2, <3>1
    <3> QED
      BY <3>1, <3>2
  <2> QED
    BY <2>1, <2>2
<1>8. \A i \in (o + 1)..(o + l) : names[i] # ":"
  <2> SUFFICES ASSUME NEW i \in (o + 1)..(o + l) PROVE names[i] # ":"
    OBVIOUS
  <2>1. i - o \in 1..l /\ i - o \in 1..(Len(names) - o) /\ o + (i - o) = i
    BY <1>1, <1>5
  <2> QED
    BY <1>2, <1>6, <2>1
<1>9. o + l = Len(names) \/ names[o + l + 1] = ":"
  <2>1. o + (l + 1) = o + l + 1 /\ (l = Len(names) - o => o + l = Len(names))
    BY <1>1, <1>5
  <2> QED
    BY <1>2, <1>7, <2>1
<1>10. SubSeq(rest, 1, l) \in Seq(Alphabet) /\ SubSeq(rest, 1, l) = SubSeq(names, o + 1, o + l)
  <2>1. SubSeq(rest, 1, l) = [i \in 1..l |-> rest[i]]
    BY <1>1, <1>2, <1>5
  <2>2. SubSeq(names, o + 1, o + l) = [i \in 1..l |-> names[o + i]]
    BY <1>1, <1>5
  <2>3. \A i \in 1..l : rest[i] = names[o + i] /\ rest[i] \in Alphabet
    BY <1>1, <1>2, <1>5
  <2>4. l \in Nat
    BY <1>1, <1>5
  <2> QED
    BY <2>1, <2>2, <2>3, <2>4
<1> QED
  BY <1>5, <1>8, <1>9, <1>10 DEF l, rest, NoColonBetween, EndsWith
-----------------------------------------------------------------------------
(* The inductive invariant.                                                *)

\* Offset o is where name number c + 1 starts.
AtName(o, c) ==
  o \in 0..Len(names) /\ StartsAfter(o) /\ Cardinality(Colons(o)) = c

\* Or it is at the end, perhaps after a colon that is not there, and there are no
\* more than c names.
PastNames(o, c) == o \in {Len(names), Len(names) + 1} /\ c >= NumNames

Scanned(o, c) == AtName(o, c) \/ PastNames(o, c)

ScanInv == Scanned(nameOffset, Len(yielded))

\* How the descriptors yielded and those left make up what systemd passed.
CountInv ==
  /\ next = FirstFd + Len(yielded)
  /\ Len(yielded) + count \in 0..MaxFds
  /\ at = "parse" => yielded = <<>> /\ count = 0
  /\ at = "iterate" /\ count > 0 => listenPid = "ours"
  /\ at = "serve" => count = 0
  /\ at \in {"iterate", "panic", "serve"} /\ listenPid = "ours" => Len(yielded) + count = listenFds

\* The iterator panics at a descriptor that has no name.
PanicInv ==
  at = "panic" => listenPid = "ours" /\ count > 0 /\ PastNames(nameOffset, Len(yielded))

\* The descriptors that were yielded with the name of the service.
Own == {FirstFd + k - 1 : k \in {k \in DOMAIN yielded : yielded[k] = SessionsName}}

\* The last of them is kept and the others are closed; and there are none unless the
\* descriptors were passed to this process.
KeepInv ==
  /\ listener = 0 => Own = {} /\ closed = {}
  /\ listener # 0 => /\ listenPid = "ours"
                     /\ listener \in Own /\ \A fd \in Own : fd <= listener
                     /\ Own \ {listener} = closed
  /\ at = "serve" => listener # 0

IndInv ==
  /\ TypeOK /\ yielded \in Seq(Seq(Alphabet))
  /\ ScanInv /\ CountInv /\ PanicInv /\ KeepInv /\ YieldsTheirNames

LEMMA NamesAreSequences == Names \subseteq Seq(Alphabet)
BY NamesAssumption DEF Names, SeqOf, Alphabet

LEMMA InitInv == Init => IndInv
<1> SUFFICES ASSUME Init PROVE IndInv
  OBVIOUS
<1>1. TypeOK /\ yielded \in Seq(Seq(Alphabet))
  BY NamesAssumption DEF Init, TypeOK, FirstFd
<1>2. names \in Seq(Alphabet) /\ Len(names) \in Nat
  BY NamesAreSequences DEF Init
<1>3. Scanned(nameOffset, Len(yielded))
  BY <1>2, NoColonsAtFirst DEF Init, Scanned, AtName, StartsAfter
<1>4. CountInv /\ PanicInv
  BY NamesAssumption DEF Init, CountInv, PanicInv, FirstFd
<1>5. Own = {}
  BY DEF Init, Own
<1>6. KeepInv /\ YieldsTheirNames
  BY <1>5 DEF Init, KeepInv, YieldsTheirNames
<1> QED
  BY <1>1, <1>3, <1>4, <1>6 DEF IndInv, ScanInv

\* What is said of the names stays true of the same names.
LEMMA SameNames ==
  ASSUME UNCHANGED names
  PROVE  /\ ScanInv' <=> Scanned(nameOffset', Len(yielded'))
         /\ PanicInv' <=> (at' = "panic" => /\ listenPid' = "ours" /\ count' > 0
                                            /\ PastNames(nameOffset', Len(yielded')))
         /\ YieldsTheirNames' <=> \A k \in DOMAIN yielded' : yielded'[k] = NthName(k)
BY DEF ScanInv, PanicInv, Scanned, AtName, PastNames, StartsAfter, NumNames, Colons,
   YieldsTheirNames, NthName

\* Parse touches neither the names nor what was yielded.
LEMMA ParseInv == IndInv /\ Parse => IndInv'
<1> SUFFICES ASSUME IndInv, Parse PROVE IndInv'
  OBVIOUS
<1>1. UNCHANGED <<listenPid, listenFds, names, nameOffset, next, yielded, listener, closed>>
  BY DEF Parse, Env
<1>2. yielded = <<>> /\ count = 0 /\ next = FirstFd /\ at = "parse" /\ Len(yielded) = 0
  BY DEF IndInv, CountInv, Parse, FirstFd
<1>3. \/ at' \in {"PidError", "FdsError"} /\ count' = 0
      \/ at' = "iterate" /\ listenPid # "ours" /\ count' = 0
      \/ at' = "iterate" /\ listenPid = "ours" /\ listenFds # BadFds /\ count' = listenFds
  BY <1>2 DEF Parse, ForUs
<1>4. TypeOK'
  BY <1>1, <1>3, NamesAssumption DEF IndInv, TypeOK, BadFds, Failed
<1>5. CountInv'
  <2>1. Len(yielded') = 0 /\ next' = FirstFd /\ at' \notin {"parse", "serve"}
    BY <1>1, <1>2, <1>3
  <2>2. count' \in 0..MaxFds /\ MaxFds \in Nat
    BY <1>3, NamesAssumption DEF IndInv, TypeOK, BadFds
  <2>3. count' \in Nat
    BY <2>2
  <2>4. Len(yielded') + count' = count'
    <3>1. \A i \in Nat : 0 + i = i
      OBVIOUS
    <3> QED
      BY <2>1, <2>3, <3>1
  <2>5. next' = FirstFd + Len(yielded')
    BY <2>1 DEF FirstFd
  <2>6. listenFds' = listenFds /\ listenPid' = listenPid
    BY <1>1
  <2>7. at' = "iterate" /\ count' > 0 => listenPid = "ours"
    BY <1>3, <2>2
  <2>8. at' \in {"iterate", "panic"} /\ listenPid = "ours" => count' = listenFds
    BY <1>3
  <2> QED
    BY <2>1, <2>2, <2>4, <2>5, <2>6, <2>7, <2>8 DEF CountInv
<1>6. ScanInv' /\ YieldsTheirNames' /\ PanicInv'
  BY <1>1, <1>3, SameNames DEF IndInv, ScanInv, YieldsTheirNames
<1>7. Own' = Own
  BY <1>1 DEF Own
<1>8. KeepInv'
  BY <1>1, <1>3, <1>7 DEF IndInv, KeepInv
<1> QED
  BY <1>1, <1>4, <1>5, <1>6, <1>8 DEF IndInv

\* The name at the offset is the next one, and the offset moves on to the one
\* after it.
LEMMA NextName ==
  ASSUME NEW c \in Nat, names \in Seq(Alphabet), nameOffset \in 0..Len(names),
         Scanned(nameOffset, c)
  PROVE  /\ SubSeq(Rest, 1, Colon(Rest)) = NthName(c + 1)
         /\ SubSeq(Rest, 1, Colon(Rest)) \in Seq(Alphabet)
         /\ Scanned(NextOffset, c + 1)
         /\ NextOffset \in Nat
<1> DEFINE n == Len(names)
           o == nameOffset
           l == Colon(Rest)
           name == SubSeq(Rest, 1, l)
<1>1. n \in Nat /\ o \in Nat /\ o \in 0..n
  OBVIOUS
<1>2. /\ l \in 0..(n - o) /\ NoColonBetween(o, o + l) /\ EndsWith(o + l)
      /\ name = SubSeq(names, o + 1, o + l) /\ name \in Seq(Alphabet)
  BY NameAtOffset
<1>3. NextOffset = o + (IF l + 1 <= n THEN l + 1 ELSE n)
  <2>1. l \in Nat /\ l + 1 \in Nat
    BY <1>1, <1>2
  <2>2. Min({l + 1, n}) = IF l + 1 <= n THEN l + 1 ELSE n
    BY <1>1, <2>1, MinOfTwo
  <2> QED
    BY <2>2 DEF NextOffset
<1> HIDE DEF n, o, l, name
<1>4. l \in Nat /\ o + l \in Nat /\ o <= o + l /\ o + l <= n
  BY <1>1, <1>2
<1>5. NextOffset \in Nat
  BY <1>1, <1>3, <1>4
<1>6. o + l = n => NextOffset \in {n, n + 1}
  BY <1>1, <1>3, <1>4
<1>7. CASE AtName(o, c)
  <2>1. StartsAfter(o) /\ Cardinality(Colons(o)) = c
    BY <1>7 DEF AtName
  <2>2. name = NthName(c + 1)
    BY <1>1, <1>2, <1>4, <2>1, NameBetweenColons DEF n
  <2>3. Cardinality(Colons(o + l)) = c
    <3>1. \A k \in (o + 1)..(o + l) : k > 0 => names[k] # ":"
      BY <1>2 DEF NoColonBetween
    <3> QED
      BY <1>1, <1>4, <2>1, <3>1, ColonsGrow
  <2>4. CASE o + l = n
    <3>1. NumNames = 1 + c
      BY <2>3, <2>4 DEF NumNames, n
    <3> QED
      BY <1>2, <1>5, <1>6, <2>2, <2>4, <3>1 DEF Scanned, PastNames, n, l, name
  <2>5. CASE o + l # n
    <3>1. names[o + l + 1] = ":"
      BY <1>2, <2>5 DEF EndsWith, n
    <3>2. NextOffset = o + l + 1 /\ NextOffset \in 0..n
      BY <1>1, <1>3, <1>4, <2>5
    <3>3. Cardinality(Colons(o + l + 1)) = c + 1
      BY <1>4, <2>3, <3>1, ColonAddsOne
    <3>4. AtName(NextOffset, c + 1)
      BY <3>1, <3>2, <3>3 DEF AtName, StartsAfter, n
    <3> QED
      BY <1>2, <1>5, <2>2, <3>4 DEF Scanned, l, name
  <2> QED
    BY <2>4, <2>5
<1>8. CASE PastNames(o, c)
  <2>1. o = n /\ l = 0 /\ c >= NumNames
    BY <1>1, <1>4, <1>8 DEF PastNames, n
  <2>2. NumNames \in Nat
    <3>1. Cardinality(Colons(Len(names))) \in Nat
      BY ColonsAreFinite
    <3> QED
      BY <3>1 DEF NumNames
  <2>3. c + 1 > NumNames /\ c + 1 >= NumNames /\ c + 1 \in Int
    BY <2>1, <2>2
  <2>4. NthName(c + 1) = <<>>
    BY <2>3, NamesAreCounted
  <2>5. name = <<>>
    BY <1>1, <1>2, <2>1 DEF n
  <2>6. NextOffset \in {n, n + 1}
    BY <1>1, <1>6, <2>1
  <2> QED
    BY <1>2, <1>5, <2>3, <2>4, <2>5, <2>6 DEF Scanned, PastNames, n, l, name
<1> QED
  BY <1>7, <1>8 DEF Scanned, o, l, name

\* A yielded descriptor is the next, whatever its name; and it is kept, in place of
\* the one that was kept, exactly when it has the name of the service.
LEMMA YieldKeeps ==
  ASSUME IndInv, NEW name \in Seq(Alphabet), yielded' = Append(yielded, name),
         listener' = Keep(name), at' = at,
         closed' = IF listener' # listener /\ listener # 0
                   THEN closed \cup {listener} ELSE closed,
         at = "iterate", listenPid = "ours", UNCHANGED listenPid
  PROVE  KeepInv'
<1> DEFINE c == Len(yielded)
<1>1. yielded \in Seq(Seq(Alphabet)) /\ c \in Nat /\ next = FirstFd + c
  BY DEF IndInv, CountInv
<1>2. DOMAIN yielded = 1..c /\ DOMAIN yielded' = 1..(c + 1) /\ yielded'[c + 1] = name
      /\ \A k \in 1..c : yielded'[k] = yielded[k]
  BY <1>1
<1>3. Own' = Own \cup (IF name = SessionsName THEN {next} ELSE {})
  <2> DEFINE mine == {k \in 1..c : yielded[k] = SessionsName}
             now == {k \in 1..(c + 1) : yielded'[k] = SessionsName}
  <2>1. now = mine \cup (IF name = SessionsName THEN {c + 1} ELSE {})
    BY <1>1, <1>2
  <2>2. Own = {FirstFd + k - 1 : k \in mine} /\ Own' = {FirstFd + k - 1 : k \in now}
    BY <1>2 DEF Own, FirstFd
  <2>3. FirstFd + (c + 1) - 1 = next
    BY <1>1 DEF FirstFd
  <2> HIDE DEF mine, now
  <2> QED
    BY <2>1, <2>2, <2>3
<1>4. next \notin Own /\ next # 0 /\ 0 \notin Own /\ \A fd \in Own : fd <= next
  BY <1>1, <1>2 DEF Own, FirstFd
<1>5. CASE name # SessionsName
  <2>1. listener' = listener /\ closed' = closed /\ Own' = Own
    BY <1>3, <1>5 DEF Keep
  <2> QED
    BY <2>1 DEF IndInv, KeepInv
<1>6. CASE name = SessionsName
  <2>1. listener' = next /\ Own' = Own \cup {next}
    BY <1>3, <1>6 DEF Keep
  <2>2. listener # next
    BY <1>4 DEF IndInv, KeepInv
  <2>3. Own = closed'
    <3>1. CASE listener = 0
      BY <2>1, <2>2, <3>1 DEF IndInv, KeepInv
    <3>2. CASE listener # 0
      BY <2>1, <2>2, <3>2 DEF IndInv, KeepInv
    <3> QED
      BY <3>1, <3>2
  <2>4. Own' \ {next} = Own
    BY <1>4, <2>1
  <2>5. \A fd \in Own' : fd <= next
    BY <1>1, <1>4, <2>1 DEF FirstFd
  <2> QED
    BY <1>4, <2>1, <2>3, <2>4, <2>5 DEF KeepInv
<1> QED
  BY <1>5, <1>6

LEMMA IterateFdInv == IndInv /\ IterateFd => IndInv'
<1> SUFFICES ASSUME IndInv, IterateFd PROVE IndInv'
  OBVIOUS
<1> DEFINE c == Len(yielded)
           name == SubSeq(Rest, 1, Colon(Rest))
<1>1. /\ names \in Seq(Alphabet) /\ Len(names) \in Nat /\ nameOffset \in Nat /\ c \in Nat
      /\ yielded \in Seq(Seq(Alphabet))
  BY NamesAreSequences DEF IndInv, TypeOK
<1>2. at = "iterate" /\ count > 0 /\ UNCHANGED <<listenPid, listenFds, names>>
  BY DEF IterateFd, Env
<1>3. /\ count \in Nat /\ listenPid = "ours" /\ c + count = listenFds
      /\ c + count \in 0..MaxFds /\ next = FirstFd + c
  BY <1>2 DEF IndInv, TypeOK, CountInv
<1>4. CASE nameOffset > Len(names)
  <2>1. at' = "panic" /\ UNCHANGED <<yielded, listener, closed, nameOffset, next, count>>
    BY <1>1, <1>4 DEF IterateFd
  <2>2. TypeOK'
    BY <1>2, <2>1 DEF IndInv, TypeOK, Failed
  <2>3. Scanned(nameOffset, c) /\ ~AtName(nameOffset, c)
    BY <1>1, <1>4 DEF IndInv, ScanInv, AtName
  <2>4. PastNames(nameOffset, c)
    BY <2>3 DEF Scanned
  <2>5. ScanInv' /\ PanicInv' /\ YieldsTheirNames'
    BY <1>2, <1>3, <2>1, <2>4, SameNames DEF IndInv, ScanInv, YieldsTheirNames
  <2>6. CountInv'
    BY <1>2, <2>1 DEF IndInv, CountInv
  <2>7. Own' = Own
    BY <2>1 DEF Own
  <2>8. KeepInv'
    BY <1>2, <2>1, <2>7 DEF IndInv, KeepInv
  <2> QED
    BY <2>1, <2>2, <2>5, <2>6, <2>8 DEF IndInv
<1>5. CASE nameOffset <= Len(names)
  <2>1. /\ yielded' = Append(yielded, name) /\ listener' = Keep(name)
        /\ closed' = IF listener' # listener /\ listener # 0
                     THEN closed \cup {listener} ELSE closed
        /\ nameOffset' = NextOffset /\ next' = next + 1 /\ count' = count - 1 /\ at' = at
    BY <1>1, <1>5 DEF IterateFd, CountDown
  <2>2. /\ name = NthName(c + 1) /\ name \in Seq(Alphabet)
        /\ Scanned(NextOffset, c + 1) /\ NextOffset \in Nat
    BY <1>1, <1>5, NextName DEF IndInv, ScanInv
  <2> HIDE DEF name
  <2>3. /\ yielded' \in Seq(Seq(Alphabet)) /\ Len(yielded') = c + 1
        /\ DOMAIN yielded' = 1..(c + 1) /\ yielded'[c + 1] = name
        /\ \A k \in 1..c : yielded'[k] = yielded[k]
    BY <1>1, <2>1, <2>2
  <2>4. ScanInv'
    BY <1>2, <2>1, <2>2, <2>3, SameNames
  <2>5. YieldsTheirNames'
    <3>1. ASSUME NEW k \in 1..(c + 1) PROVE yielded'[k] = NthName(k)
      <4>1. CASE k = c + 1
        BY <2>2, <2>3, <4>1
      <4>2. CASE k \in 1..c
        <5>1. k \in DOMAIN yielded
          BY <1>1, <4>2
        <5>2. yielded[k] = NthName(k)
          BY <5>1 DEF IndInv, YieldsTheirNames
        <5> QED
          BY <2>3, <4>2, <5>2
      <4> QED
        BY <1>1, <4>1, <4>2
    <3> QED
      BY <1>2, <2>3, <3>1, SameNames
  <2>6. KeepInv'
    BY <1>2, <1>3, <2>1, <2>2, YieldKeeps
  <2>7. /\ next' \in FirstFd..(FirstFd + MaxFds) /\ count' \in 0..MaxFds
        /\ next' = FirstFd + (c + 1) /\ (c + 1) + count' = c + count /\ c + 1 \in 0..MaxFds
    BY <1>1, <1>2, <1>3, <2>1, NamesAssumption DEF FirstFd
  <2>8. CountInv' /\ PanicInv'
    BY <1>2, <1>3, <2>1, <2>3, <2>7 DEF CountInv, PanicInv
  <2>9. TypeOK'
    <3>1. listener' \in {0} \cup (FirstFd..(FirstFd + MaxFds))
      BY <2>1 DEF IndInv, TypeOK, Keep
    <3>2. closed' \subseteq FirstFd..(FirstFd + MaxFds)
      BY <2>1 DEF IndInv, TypeOK
    <3> QED
      BY <1>2, <2>1, <2>2, <2>3, <2>7, <3>1, <3>2 DEF IndInv, TypeOK
  <2> QED
    BY <2>3, <2>4, <2>5, <2>6, <2>8, <2>9 DEF IndInv
<1> QED
  BY <1>1, <1>4, <1>5

LEMMA StartInv == IndInv /\ Start => IndInv'
<1> SUFFICES ASSUME IndInv, Start PROVE IndInv'
  OBVIOUS
<1>1. /\ at = "iterate" /\ count = 0
      /\ at' = IF listener = 0 THEN "NoSocketForSessions" ELSE "serve"
      /\ UNCHANGED <<listenPid, listenFds, names, nameOffset, next, count, yielded, listener,
                     closed>>
  BY DEF Start, Env
<1>2. TypeOK'
  BY <1>1 DEF IndInv, TypeOK, Failed
<1>3. CountInv'
  BY <1>1 DEF IndInv, CountInv
<1>4. ScanInv' /\ YieldsTheirNames' /\ PanicInv'
  BY <1>1, SameNames DEF IndInv, ScanInv, YieldsTheirNames
<1>5. Own' = Own
  BY <1>1 DEF Own
<1>6. KeepInv'
  BY <1>1, <1>5 DEF IndInv, KeepInv
<1> QED
  BY <1>1, <1>2, <1>3, <1>4, <1>6 DEF IndInv

LEMMA StutterInv == IndInv /\ UNCHANGED vars => IndInv'
<1> SUFFICES ASSUME IndInv, UNCHANGED vars PROVE IndInv'
  OBVIOUS
<1>1. ScanInv' /\ YieldsTheirNames' /\ PanicInv' /\ Own' = Own
  BY SameNames DEF vars, IndInv, ScanInv, YieldsTheirNames, PanicInv, Own
<1> QED
  BY <1>1 DEF vars, IndInv, TypeOK, CountInv, KeepInv

LEMMA Inductive == Spec => []IndInv
<1>1. IndInv /\ [Next]_vars => IndInv'
  BY ParseInv, IterateFdInv, StartInv, StutterInv DEF Next
<1> QED
  BY InitInv, <1>1, PTL DEF Spec

-----------------------------------------------------------------------------
(* The properties.                                                         *)

\* run() and the iterator keep to their types, and to the bounds.
THEOREM TypeCorrect == Spec => []TypeOK
<1>1. IndInv => TypeOK
  BY DEF IndInv
<1> QED
  BY Inductive, <1>1, PTL

\* Every descriptor is yielded with the name systemd gave it, whatever the names:
\* empty ones, colons at either end, and fewer names than descriptors included.
THEOREM NamesAreTheirs == Spec => []YieldsTheirNames
<1>1. IndInv => YieldsTheirNames
  BY DEF IndInv
<1> QED
  BY Inductive, <1>1, PTL

\* When it serves, the descriptors were passed to it, and it listens on the last one
\* called tere-sessions with the others of that name closed: KeepInv says so of the
\* descriptors yielded, and at the end of the loop they are all of them.
THEOREM ListensOnOwn == Spec => []ListensOnItsOwn
<1>1. IndInv => ListensOnItsOwn
  <2> SUFFICES ASSUME IndInv, at = "serve" PROVE ListensOnItsOwn
    BY DEF ListensOnItsOwn
  <2>1. /\ listenPid = "ours" /\ listener \in Own /\ closed = Own \ {listener}
        /\ \A fd \in Own : fd <= listener
    BY DEF IndInv, KeepInv
  <2>2. DOMAIN yielded = 1..listenFds
    <3>1. Len(yielded) \in Nat /\ Len(yielded) + 0 = listenFds
      BY <2>1 DEF IndInv, CountInv
    <3> QED
      BY <3>1 DEF IndInv
  <2>3. {k \in 1..listenFds : NthName(k) = SessionsName}
          = {k \in DOMAIN yielded : yielded[k] = SessionsName}
    BY <2>2 DEF IndInv, YieldsTheirNames
  <2> QED
    BY <2>1, <2>3 DEF ListensOnItsOwn, Own
<1> QED
  BY Inductive, <1>1, PTL

\* The iterator panics only when there are more descriptors than names.
THEOREM PanicNeedsMissingName == Spec => []PanicsOnlyWithoutNames
<1>1. IndInv => PanicsOnlyWithoutNames
  <2> SUFFICES ASSUME IndInv, at = "panic" PROVE listenFds > NumNames
    BY DEF PanicsOnlyWithoutNames
  <2>1. count > 0 /\ Len(yielded) >= NumNames /\ Len(yielded) + count = listenFds
    BY DEF IndInv, CountInv, PanicInv, PastNames
  <2>2. Len(yielded) \in Nat /\ count \in Nat
    BY DEF IndInv, TypeOK
  <2>3. NumNames \in Nat
    <3>1. Len(names) \in Int
      BY NamesAreSequences DEF IndInv, TypeOK
    <3> QED
      BY <3>1, ColonsAreFinite DEF NumNames
  <2> QED
    BY <2>1, <2>2, <2>3
<1> QED
  BY Inductive, <1>1, PTL
=============================================================================
