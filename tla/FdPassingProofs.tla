--------------------------- MODULE FdPassingProofs ---------------------------
(* Theorems about FdPassing, for every value of its constants.             *)
EXTENDS FdPassing, SequenceTheorems, TLAPS

\* The number n refers to a descriptor of the last message to t.
Mine(t, n) == n \in Numbers /\ \E j \in 1..MaxFiles : table[n] = File(t, read[t], j)

Distinct(s) == \A i, j \in DOMAIN s : i # j => s[i] # s[j]

HeldInv(t) ==
  /\ pc[t] \in {"idle", "deserialize", "dropRest"} => fields[t] = <<>>
  /\ pc[t] = "idle" => deque[t] = <<>>
  /\ \A i \in DOMAIN fields[t] : Mine(t, fields[t][i])
  /\ \A i \in DOMAIN deque[t] : Mine(t, deque[t][i])
  /\ Distinct(fields[t]) /\ Distinct(deque[t])
  /\ \A i \in DOMAIN fields[t] : \A j \in DOMAIN deque[t] : fields[t][i] # deque[t][j]

IndInv == TypeOK /\ \A t \in Threads : HeldInv(t)

-----------------------------------------------------------------------------
(* Facts about sequences.                                                  *)

LEMMA TailFacts ==
  ASSUME NEW S, NEW s \in Seq(S), s # <<>>
  PROVE  /\ Head(s) = s[1] /\ Head(s) \in S /\ 1 \in DOMAIN s
         /\ Tail(s) \in Seq(S) /\ Len(Tail(s)) = Len(s) - 1
         /\ \A i \in DOMAIN Tail(s) : /\ i + 1 \in DOMAIN s /\ i + 1 # 1
                                      /\ Tail(s)[i] = s[i + 1]
  BY HeadTailProperties

\* Without its first element, a sequence of distinct elements has it no more.
LEMMA TailDistinct ==
  ASSUME NEW S, NEW s \in Seq(S), s # <<>>, Distinct(s)
  PROVE  /\ Distinct(Tail(s))
         /\ \A i \in DOMAIN Tail(s) : Tail(s)[i] # Head(s)
  <1>1. ASSUME NEW i \in DOMAIN Tail(s), NEW j \in DOMAIN Tail(s), i # j
        PROVE  Tail(s)[i] # Tail(s)[j]
    <2>1. i \in Nat /\ j \in Nat
      BY TailFacts
    <2>2. i + 1 # j + 1
      BY <1>1, <2>1
    <2> QED BY <2>2, TailFacts DEF Distinct
  <1>2. ASSUME NEW i \in DOMAIN Tail(s) PROVE Tail(s)[i] # Head(s)
    BY TailFacts DEF Distinct
  <1> QED BY <1>1, <1>2 DEF Distinct

\* The part of d behind its first j elements.
LEMMA LeftPart ==
  ASSUME NEW S, NEW d \in Seq(S), NEW j \in 0..Len(d)
  PROVE  /\ Left(d, j) \in Seq(S) /\ Len(Left(d, j)) = Len(d) - j
         /\ \A i \in 1..(Len(d) - j) : Left(d, j)[i] = d[i + j]
  BY SubSeqProperties DEF Left

\* Moving j elements from the front of d to an empty sequence.
LEMMA MovedLeft ==
  ASSUME NEW S, NEW d \in Seq(S), NEW j \in 0..Len(d)
  PROVE  /\ Moved(d, j) \in Seq(S) /\ Len(Moved(d, j)) = j
         /\ Left(d, j) \in Seq(S)
         /\ \A i \in DOMAIN Moved(d, j) : /\ i \in DOMAIN d /\ i <= j
                                          /\ Moved(d, j)[i] = d[i]
         /\ \A i \in DOMAIN Left(d, j) : /\ i \in Nat /\ i + j \in DOMAIN d /\ i + j > j
                                         /\ Left(d, j)[i] = d[i + j]
  <1>1. /\ Moved(d, j) \in Seq(S) /\ Len(Moved(d, j)) = j
        /\ \A i \in 1..j : Moved(d, j)[i] = d[i]
    BY SubSeqProperties DEF Moved
  <1>2. /\ Left(d, j) \in Seq(S) /\ Len(Left(d, j)) = Len(d) - j
        /\ \A i \in 1..(Len(d) - j) : Left(d, j)[i] = d[i + j]
    BY LeftPart
  <1> QED BY <1>1, <1>2

-----------------------------------------------------------------------------
(* Facts about the table.                                                  *)

\* A number is of one thread at most, and not free.
LEMMA MineIsOne ==
  ASSUME NEW t \in Threads, NEW u \in Threads, NEW n, Mine(t, n), Mine(u, n)
  PROVE  t = u
  BY DEF Mine, File

LEMMA MineIsNotFree ==
  ASSUME NEW t \in Threads, NEW n, Mine(t, n)
  PROVE  n \notin Free
  BY DEF Mine, File, Free, NoFile

\* A thread is not affected by what others do to numbers that are not its own.
LEMMA Others ==
  ASSUME NEW u \in Threads, HeldInv(u),
         pc'[u] = pc[u], fields'[u] = fields[u], deque'[u] = deque[u], read'[u] = read[u],
         \A n \in Numbers : Mine(u, n) => table'[n] = table[n]
  PROVE  HeldInv(u)'
  <1>1. ASSUME NEW n, Mine(u, n) PROVE Mine(u, n)'
    BY <1>1 DEF Mine
  <1> QED BY <1>1 DEF HeldInv

LEMMA InitInv == Init => IndInv
  BY KindsAssumption DEF Init, IndInv, TypeOK, HeldInv, Distinct

-----------------------------------------------------------------------------
(* One lemma for each kind of step.                                        *)

LEMMA SendInv == ASSUME IndInv, NEW t \in Threads, Send(t) PROVE IndInv'
  <1>1. PICK size \in Sizes, files \in 0..MaxFiles :
          /\ Len(sent[t]) < MaxMessages
          /\ sent' = [sent EXCEPT ![t] = Append(@, [size |-> size, files |-> files])]
          /\ UNCHANGED <<table, read, pc, kind, deque, fields>>
    BY DEF Send
  <1> DEFINE Sent == [size : Sizes, files : 0..MaxFiles]
             new == [size |-> size, files |-> files]
  <1>2. sent[t] \in Seq(Sent) /\ new \in Sent
    BY DEF IndInv, TypeOK
  <1>3. Append(sent[t], new) \in Seq(Sent) /\ Len(Append(sent[t], new)) = Len(sent[t]) + 1
    BY <1>2, AppendProperties
  <1>4. Len(sent[t]) \in Nat
    BY <1>2, LenProperties
  <1> HIDE DEF Sent, new
  <1>5. sent' \in [Threads -> Seq(Sent)]
    BY <1>1, <1>3 DEF IndInv, TypeOK, Sent, new
  <1>6. \A u \in Threads : Len(sent'[u]) <= MaxMessages /\ read'[u] <= Len(sent'[u])
    <2> SUFFICES ASSUME NEW u \in Threads
                 PROVE  Len(sent'[u]) <= MaxMessages /\ read'[u] <= Len(sent'[u])
      OBVIOUS
    <2>1. CASE u = t
      BY <1>1, <1>3, <1>4, <2>1, KindsAssumption DEF IndInv, TypeOK, new
    <2>2. CASE u # t
      BY <1>1, <2>2 DEF IndInv, TypeOK
    <2> QED BY <2>1, <2>2
  <1>7. TypeOK'
    BY <1>1, <1>5, <1>6 DEF IndInv, TypeOK, Sent
  <1>8. \A u \in Threads : HeldInv(u)'
    BY <1>1, Others DEF IndInv
  <1> QED BY <1>7, <1>8 DEF IndInv

LEMMA RecvmsgInv == ASSUME IndInv, NEW t \in Threads, Recvmsg(t) PROVE IndInv'
  <1> DEFINE m == sent[t][read[t] + 1]
  <1>1. PICK k \in Kinds, count \in 0..m.files : \E new \in [1..count -> Free] :
          /\ pc[t] = "idle" /\ read[t] < Len(sent[t])
          /\ Installs(new, m.files, k[1])
          /\ table' = [n \in Numbers |-> IF n \in Range(new)
                       THEN File(t, read[t] + 1, CHOOSE i \in 1..count : new[i] = n)
                       ELSE table[n]]
          /\ IF m.size = "fits"
             THEN /\ deque' = [deque EXCEPT ![t] = Collected(m, new)]
                  /\ kind' = [kind EXCEPT ![t] = k]
                  /\ pc' = [pc EXCEPT ![t] = IF Truncated(m, new) THEN "dropRest"
                                             ELSE "deserialize"]
             ELSE UNCHANGED <<deque, kind, pc>>
          /\ read' = [read EXCEPT ![t] = @ + 1]
          /\ UNCHANGED <<sent, fields>>
    BY DEF Recvmsg
  <1>2. PICK new \in [1..count -> Free] :
          /\ pc[t] = "idle" /\ read[t] < Len(sent[t])
          /\ Installs(new, m.files, k[1])
          /\ table' = [n \in Numbers |-> IF n \in Range(new)
                       THEN File(t, read[t] + 1, CHOOSE i \in 1..count : new[i] = n)
                       ELSE table[n]]
          /\ IF m.size = "fits"
             THEN /\ deque' = [deque EXCEPT ![t] = new]
                  /\ kind' = [kind EXCEPT ![t] = k]
                  /\ pc' = [pc EXCEPT ![t] = IF Truncated(m, new) THEN "dropRest"
                                             ELSE "deserialize"]
             ELSE UNCHANGED <<deque, kind, pc>>
          /\ read' = [read EXCEPT ![t] = @ + 1]
          /\ UNCHANGED <<sent, fields>>
    BY <1>1 DEF Collected
  <1>3. /\ read[t] + 1 \in 1..MaxMessages /\ read[t] + 1 \in DOMAIN sent[t]
        /\ read[t] + 1 <= Len(sent[t])
    BY <1>2, KindsAssumption DEF IndInv, TypeOK
  <1>4. m \in [size : Sizes, files : 0..MaxFiles]
    <2>1. sent[t] \in Seq([size : Sizes, files : 0..MaxFiles])
      BY DEF IndInv, TypeOK
    <2>2. read[t] + 1 \in 1..Len(sent[t])
      BY <1>3, <2>1
    <2> HIDE DEF m
    <2>3. m = sent[t][read[t] + 1]
      BY DEF m
    <2> QED BY <2>1, <2>2, <2>3, ElementOfSeq
  <1>5. m.files \in 0..MaxFiles /\ count \in Nat /\ 1..count \subseteq 1..MaxFiles
    BY <1>4, KindsAssumption
  <1> HIDE DEF m
  <1>6. new \in Seq(Numbers)
    BY <1>5 DEF Free
  <1>7. \A n \in Range(new) : (CHOOSE i \in 1..count : new[i] = n) \in 1..MaxFiles
    BY <1>5 DEF Range
  <1>8. table' \in [Numbers -> {NoFile} \cup (Threads \X (1..MaxMessages) \X (1..MaxFiles))]
    <2> SUFFICES ASSUME NEW n \in Numbers
                 PROVE  table'[n] \in {NoFile} \cup (Threads \X (1..MaxMessages) \X (1..MaxFiles))
      BY <1>2
    <2>1. CASE n \in Range(new)
      BY <1>2, <1>3, <1>7, <2>1 DEF File
    <2>2. CASE n \notin Range(new)
      BY <1>2, <2>2 DEF IndInv, TypeOK
    <2> QED BY <2>1, <2>2
  <1>9. fields[t] = <<>> /\ deque[t] = <<>>
    BY <1>2 DEF IndInv, HeldInv
  <1>10. read' \in [Threads -> 0..MaxMessages]
    BY <1>2, <1>3 DEF IndInv, TypeOK
  <1>11. deque' \in [Threads -> Seq(Numbers)]
    BY <1>2, <1>6 DEF IndInv, TypeOK
  <1>12. /\ pc' \in [Threads -> {"idle", "deserialize", "dropFields", "dropRest", "returned"}]
         /\ kind' \in [Threads -> {<<0, 0>>} \cup Kinds]
    BY <1>2 DEF IndInv, TypeOK
  <1>13. \A u \in Threads : Len(sent'[u]) <= MaxMessages /\ read'[u] <= Len(sent'[u])
    BY <1>2, <1>3 DEF IndInv, TypeOK
  <1>14. \A u \in Threads : Len(fields'[u]) <= kind'[u][2]
    <2> SUFFICES ASSUME NEW u \in Threads PROVE Len(fields'[u]) <= kind'[u][2]
      OBVIOUS
    <2>1. CASE kind'[u] = kind[u]
      BY <1>2, <2>1 DEF IndInv, TypeOK
    <2>2. CASE kind'[u] # kind[u]
      <3>1. u = t /\ kind'[u] = k
        BY <1>2, <2>2 DEF IndInv, TypeOK
      <3> QED BY <1>2, <1>9, <3>1, KindsAssumption
    <2> QED BY <2>1, <2>2
  <1>15. TypeOK'
    BY <1>2, <1>8, <1>10, <1>11, <1>12, <1>13, <1>14 DEF IndInv, TypeOK
  <1>16. \A n \in Numbers \ Free : table'[n] = table[n]
    BY <1>2 DEF Range
  <1>17. ASSUME NEW u \in Threads, u # t PROVE HeldInv(u)'
    <2>1. /\ pc'[u] = pc[u] /\ fields'[u] = fields[u] /\ deque'[u] = deque[u]
          /\ read'[u] = read[u]
      BY <1>2, <1>17 DEF IndInv, TypeOK
    <2> QED BY <1>16, <2>1, Others, MineIsNotFree DEF IndInv
  <1>18. HeldInv(t)'
    <2>1. fields'[t] = <<>>
      BY <1>2, <1>9
    <2>2. CASE m.size # "fits"
      BY <1>2, <1>9, <2>1, <2>2 DEF HeldInv, Distinct
    <2>3. CASE m.size = "fits"
      <3>1. deque'[t] = new /\ pc'[t] \in {"dropRest", "deserialize"} /\ read'[t] = read[t] + 1
        BY <1>2, <2>3 DEF IndInv, TypeOK
      <3>2. ASSUME NEW i \in DOMAIN new PROVE Mine(t, new[i])'
        <4>1. new[i] \in Numbers /\ new[i] \in Range(new)
          BY <1>6 DEF Range, Free
        <4>2. table'[new[i]] = File(t, read[t] + 1, CHOOSE l \in 1..count : new[l] = new[i])
          BY <1>2, <4>1
        <4> QED BY <1>7, <3>1, <4>1, <4>2 DEF Mine, File
      <3>3. Distinct(new)
        <4> SUFFICES ASSUME NEW i \in DOMAIN new, NEW j \in DOMAIN new, i # j
                     PROVE  new[i] # new[j]
          BY DEF Distinct
        <4>1. /\ i \in Nat /\ j \in Nat /\ new[i] \in Nat /\ new[j] \in Nat
              /\ i < j => new[i] < new[j]
              /\ j < i => new[j] < new[i]
          <5>1. DOMAIN new = 1..count
            OBVIOUS
          <5>2. i \in 1..count /\ j \in 1..count
            BY <5>1
          <5>3. new[i] \in Numbers /\ new[j] \in Numbers
            BY <5>2 DEF Free
          <5>4. \A a, b \in DOMAIN new : a < b => new[a] < new[b]
            BY <1>2 DEF Installs
          <5> QED BY <5>2, <5>3, <5>4 DEF Numbers
        <4> QED BY <4>1
      <3> QED BY <2>1, <3>1, <3>2, <3>3 DEF HeldInv, Distinct
    <2> QED BY <2>2, <2>3
  <1> QED BY <1>15, <1>17, <1>18 DEF IndInv

LEMMA DeserializeInv == ASSUME IndInv, NEW t \in Threads, Deserialize(t) PROVE IndInv'
  <1>1. PICK j \in 0..kind[t][2] :
          /\ pc[t] = "deserialize" /\ j <= Len(deque[t])
          /\ fields' = [fields EXCEPT ![t] = Moved(deque[t], j)]
          /\ deque' = [deque EXCEPT ![t] = Left(deque[t], j)]
          /\ \/ pc' = [pc EXCEPT ![t] = "returned"]
             \/ pc' = [pc EXCEPT ![t] = "dropFields"]
          /\ UNCHANGED <<table, connVars, kind>>
    BY DEF Deserialize
  <1>d. PICK d \in Seq(Numbers) : d = deque[t]
    BY DEF IndInv, TypeOK
  <1>2. kind[t][2] \in Nat /\ Len(d) \in Nat
    BY KindsAssumption, LenProperties DEF IndInv, TypeOK
  <1>3. j \in 0..Len(d)
    BY <1>d, <1>1, <1>2
  <1>4. /\ Moved(d, j) \in Seq(Numbers) /\ Len(Moved(d, j)) = j
        /\ Left(d, j) \in Seq(Numbers)
        /\ \A i \in DOMAIN Moved(d, j) : i \in DOMAIN d /\ i <= j /\ Moved(d, j)[i] = d[i]
        /\ \A i \in DOMAIN Left(d, j) : /\ i \in Nat /\ i + j \in DOMAIN d /\ i + j > j
                                        /\ Left(d, j)[i] = d[i + j]
    BY <1>3, MovedLeft
  <1>m. /\ fields' = [fields EXCEPT ![t] = Moved(d, j)]
        /\ deque' = [deque EXCEPT ![t] = Left(d, j)]
    BY <1>d, <1>1
  <1>5. TypeOK'
    <2>1. fields' \in [Threads -> Seq(Numbers)] /\ deque' \in [Threads -> Seq(Numbers)]
      BY <1>m, <1>4 DEF IndInv, TypeOK
    <2>2. \A u \in Threads : Len(fields'[u]) <= kind'[u][2]
      <3> SUFFICES ASSUME NEW u \in Threads PROVE Len(fields'[u]) <= kind[u][2]
        BY <1>1
      <3>1. CASE u = t
        BY <1>m, <1>2, <1>4, <3>1 DEF IndInv, TypeOK
      <3>2. CASE u # t
        BY <1>m, <3>2 DEF IndInv, TypeOK
      <3> QED BY <3>1, <3>2
    <2>3. pc' \in [Threads -> {"idle", "deserialize", "dropFields", "dropRest", "returned"}]
      BY <1>1 DEF IndInv, TypeOK
    <2> QED BY <1>1, <2>1, <2>2, <2>3 DEF IndInv, TypeOK, connVars
  <1>6. ASSUME NEW u \in Threads, u # t PROVE HeldInv(u)'
    BY <1>1, <1>6, Others DEF IndInv, TypeOK, connVars
  <1>7. HeldInv(t)'
    <2>1. /\ fields'[t] = Moved(d, j) /\ deque'[t] = Left(d, j)
          /\ pc'[t] \in {"returned", "dropFields"}
      BY <1>m, <1>1 DEF IndInv, TypeOK
    <2>2. \A n : Mine(t, n) => Mine(t, n)'
      BY <1>1 DEF Mine, connVars
    <2>3. (\A i \in DOMAIN d : Mine(t, d[i])) /\ Distinct(d)
      BY <1>d DEF IndInv, HeldInv
    <2>4. /\ \A i \in DOMAIN Moved(d, j) : Mine(t, Moved(d, j)[i])'
          /\ \A i \in DOMAIN Left(d, j) : Mine(t, Left(d, j)[i])'
      BY <1>4, <2>2, <2>3
    <2>5. Distinct(Moved(d, j))
      BY <1>4, <2>3 DEF Distinct
    <2>6. Distinct(Left(d, j))
      <3> SUFFICES ASSUME NEW i \in DOMAIN Left(d, j), NEW l \in DOMAIN Left(d, j), i # l
                   PROVE  Left(d, j)[i] # Left(d, j)[l]
        BY DEF Distinct
      <3>1. i + j # l + j
        BY <1>4
      <3> QED BY <1>4, <2>3, <3>1 DEF Distinct
    <2>7. ASSUME NEW i \in DOMAIN Moved(d, j), NEW l \in DOMAIN Left(d, j)
          PROVE  Moved(d, j)[i] # Left(d, j)[l]
      <3>1. i # l + j
        BY <1>4
      <3> QED BY <1>4, <2>3, <3>1 DEF Distinct
    <2> QED BY <2>1, <2>4, <2>5, <2>6, <2>7 DEF HeldInv
  <1> QED BY <1>5, <1>6, <1>7 DEF IndInv

\* Closing a number of one thread leaves the others alone.
LEMMA CloseInv ==
  ASSUME IndInv, NEW t \in Threads, NEW n, Mine(t, n), Close(n),
         \A u \in Threads \ {t} : /\ pc'[u] = pc[u] /\ fields'[u] = fields[u]
                                  /\ deque'[u] = deque[u] /\ read'[u] = read[u]
  PROVE  \A u \in Threads \ {t} : HeldInv(u)'
  <1> SUFFICES ASSUME NEW u \in Threads, u # t PROVE HeldInv(u)'
    OBVIOUS
  <1>1. ASSUME NEW l \in Numbers, Mine(u, l) PROVE table'[l] = table[l]
    <2>1. l # n
      BY <1>1, MineIsOne
    <2> QED BY <2>1 DEF Close, IndInv, TypeOK
  <1> QED BY <1>1, Others DEF IndInv

LEMMA DropFieldInv == ASSUME IndInv, NEW t \in Threads, DropField(t) PROVE IndInv'
  <1>p. PICK f \in Seq(Numbers) : f = fields[t]
    BY DEF IndInv, TypeOK
  <1>n. PICK n : n = Head(f)
    OBVIOUS
  <1>f. f = fields[t] /\ n = Head(f)
    BY <1>p, <1>n
  <1>1. f # <<>> /\ pc[t] = "dropFields"
    BY <1>f DEF DropField
  <1>2. /\ n = f[1] /\ n \in Numbers /\ 1 \in DOMAIN f
        /\ Tail(f) \in Seq(Numbers) /\ Len(Tail(f)) = Len(f) - 1
        /\ \A i \in DOMAIN Tail(f) : i + 1 \in DOMAIN f /\ Tail(f)[i] = f[i + 1]
    BY <1>f, <1>1, TailFacts
  <1>3. /\ Distinct(Tail(f))
        /\ \A i \in DOMAIN Tail(f) : Tail(f)[i] # n
    BY <1>f, <1>1, TailDistinct DEF IndInv, HeldInv
  <1>4. Mine(t, n)
    BY <1>f, <1>2 DEF IndInv, HeldInv
  <1>5. /\ table' = [table EXCEPT ![n] = NoFile]
        /\ fields' = [fields EXCEPT ![t] = Tail(f)]
        /\ UNCHANGED <<connVars, pc, kind, deque>>
    BY <1>f DEF DropField, Close
  <1>6. fields'[t] = Tail(f) /\ deque'[t] = deque[t] /\ pc'[t] = "dropFields"
    BY <1>f, <1>1, <1>5 DEF IndInv, TypeOK
  <1>7. TypeOK'
    <2>1. Len(Tail(f)) <= kind[t][2]
      <3>1. Len(f) \in Nat /\ kind[t][2] \in Nat /\ Len(f) <= kind[t][2]
        BY <1>f, KindsAssumption, LenProperties DEF IndInv, TypeOK
      <3> QED BY <1>2, <3>1
    <2>2. table' \in [Numbers -> {NoFile} \cup (Threads \X (1..MaxMessages) \X (1..MaxFiles))]
      BY <1>5 DEF IndInv, TypeOK
    <2>3. fields' \in [Threads -> Seq(Numbers)]
      BY <1>2, <1>5 DEF IndInv, TypeOK
    <2>4. \A u \in Threads : Len(fields'[u]) <= kind'[u][2]
      BY <1>5, <2>1 DEF IndInv, TypeOK
    <2> QED BY <1>5, <2>2, <2>3, <2>4 DEF IndInv, TypeOK, connVars
  <1>8. \A u \in Threads \ {t} : HeldInv(u)'
    <2>1. \A u \in Threads \ {t} : /\ pc'[u] = pc[u] /\ fields'[u] = fields[u]
                                   /\ deque'[u] = deque[u] /\ read'[u] = read[u]
      BY <1>5 DEF IndInv, TypeOK, connVars
    <2> QED BY <1>4, <1>5, <2>1, CloseInv DEF Close
  <1>9. HeldInv(t)'
    <2>1. \A i \in DOMAIN deque[t] : deque[t][i] # n
      BY <1>f, <1>2 DEF IndInv, HeldInv
    <2>d. PICK d : d = deque[t]
      OBVIOUS
    <2>2. /\ \A i \in DOMAIN f : Mine(t, f[i])
          /\ \A i \in DOMAIN d : Mine(t, d[i])
          /\ Distinct(d)
          /\ \A i \in DOMAIN f : \A j \in DOMAIN d : f[i] # d[j]
      BY <1>f, <2>d DEF IndInv, HeldInv
    <2>3. ASSUME NEW l, Mine(t, l), l # n PROVE Mine(t, l)'
      BY <1>5, <2>3 DEF IndInv, TypeOK, Mine, connVars
    <2>4. \A i \in DOMAIN Tail(f) : Mine(t, Tail(f)[i])'
      BY <1>2, <1>3, <2>2, <2>3
    <2>5. \A i \in DOMAIN d : Mine(t, d[i])'
      BY <2>d, <2>1, <2>2, <2>3
    <2>6. \A i \in DOMAIN Tail(f) : \A j \in DOMAIN d : Tail(f)[i] # d[j]
      BY <1>2, <2>2
    <2> QED BY <1>3, <1>6, <2>d, <2>2, <2>4, <2>5, <2>6 DEF HeldInv
  <1> QED BY <1>7, <1>8, <1>9 DEF IndInv

LEMMA DropRestInv == ASSUME IndInv, NEW t \in Threads, DropRest(t) PROVE IndInv'
  <1>p. PICK d \in Seq(Numbers) : d = deque[t]
    BY DEF IndInv, TypeOK
  <1>n. PICK n : n = Head(d)
    OBVIOUS
  <1>d. d = deque[t] /\ n = Head(d)
    BY <1>p, <1>n
  <1>1. d # <<>> /\ pc[t] = "dropRest" /\ fields[t] = <<>>
    BY <1>d DEF IndInv, HeldInv, DropRest
  <1>2. /\ n = d[1] /\ n \in Numbers /\ 1 \in DOMAIN d
        /\ Tail(d) \in Seq(Numbers)
        /\ \A i \in DOMAIN Tail(d) : i + 1 \in DOMAIN d /\ Tail(d)[i] = d[i + 1]
    BY <1>d, <1>1, TailFacts
  <1>3. /\ Distinct(Tail(d))
        /\ \A i \in DOMAIN Tail(d) : Tail(d)[i] # n
    BY <1>d, <1>1, TailDistinct DEF IndInv, HeldInv
  <1>4. Mine(t, n) /\ \A i \in DOMAIN d : Mine(t, d[i])
    BY <1>d, <1>2 DEF IndInv, HeldInv
  <1>5. /\ table' = [table EXCEPT ![n] = NoFile]
        /\ deque' = [deque EXCEPT ![t] = Tail(d)]
        /\ UNCHANGED <<connVars, pc, kind, fields>>
    BY <1>d DEF DropRest, Close
  <1>6. fields'[t] = <<>> /\ deque'[t] = Tail(d) /\ pc'[t] = "dropRest"
    BY <1>1, <1>5 DEF IndInv, TypeOK
  <1>7. TypeOK'
    <2>1. table' \in [Numbers -> {NoFile} \cup (Threads \X (1..MaxMessages) \X (1..MaxFiles))]
      BY <1>5 DEF IndInv, TypeOK
    <2>2. deque' \in [Threads -> Seq(Numbers)]
      BY <1>2, <1>5 DEF IndInv, TypeOK
    <2> QED BY <1>5, <2>1, <2>2 DEF IndInv, TypeOK, connVars
  <1>8. \A u \in Threads \ {t} : HeldInv(u)'
    <2>1. \A u \in Threads \ {t} : /\ pc'[u] = pc[u] /\ fields'[u] = fields[u]
                                   /\ deque'[u] = deque[u] /\ read'[u] = read[u]
      BY <1>5 DEF IndInv, TypeOK, connVars
    <2> QED BY <1>4, <1>5, <2>1, CloseInv DEF Close
  <1>9. HeldInv(t)'
    <2>1. ASSUME NEW l, Mine(t, l), l # n PROVE Mine(t, l)'
      BY <1>5, <2>1 DEF IndInv, TypeOK, Mine, connVars
    <2>2. \A i \in DOMAIN Tail(d) : Mine(t, Tail(d)[i])'
      BY <1>2, <1>3, <1>4, <2>1
    <2> QED BY <1>3, <1>6, <2>2 DEF HeldInv, Distinct
  <1> QED BY <1>7, <1>8, <1>9 DEF IndInv

\* The steps that close nothing and move nothing.
LEMMA PassInv ==
  ASSUME IndInv, NEW t \in Threads, DropMessage(t) \/ DroppedFields(t) \/ DroppedRest(t)
  PROVE  IndInv'
  <1>1. UNCHANGED <<table, connVars, deque, fields>>
    BY DEF DropMessage, DroppedFields, DroppedRest
  <1>2. fields'[t] = fields[t] /\ (pc'[t] \in {"idle", "dropRest"} => fields[t] = <<>>)
    BY <1>1 DEF DropMessage, DroppedFields, DroppedRest, IndInv, TypeOK, HeldInv
  <1>3. TypeOK'
    <2>1. /\ pc' \in [Threads -> {"idle", "deserialize", "dropFields", "dropRest", "returned"}]
          /\ kind' \in [Threads -> {<<0, 0>>} \cup Kinds]
      BY DEF DropMessage, DroppedFields, DroppedRest, IndInv, TypeOK
    <2>2. \A u \in Threads : Len(fields'[u]) <= kind'[u][2]
      <3> SUFFICES ASSUME NEW u \in Threads PROVE Len(fields'[u]) <= kind'[u][2]
        OBVIOUS
      <3>1. CASE kind'[u] = kind[u]
        BY <1>1, <3>1 DEF IndInv, TypeOK
      <3>2. CASE kind'[u] # kind[u]
        <4>1. u = t /\ kind'[u] = <<0, 0>> /\ pc'[t] = "idle"
          BY <3>2 DEF DropMessage, DroppedFields, DroppedRest, IndInv, TypeOK
        <4> QED BY <1>2, <4>1
      <3> QED BY <3>1, <3>2
    <2> QED BY <1>1, <2>1, <2>2 DEF IndInv, TypeOK, connVars
  <1>4. ASSUME NEW u \in Threads, u # t PROVE HeldInv(u)'
    <2>1. pc'[u] = pc[u]
      BY <1>4 DEF DropMessage, DroppedFields, DroppedRest, IndInv, TypeOK
    <2> QED BY <1>1, <2>1, Others DEF IndInv, connVars
  <1>5. HeldInv(t)'
    <2>1. \A n : Mine(t, n) => Mine(t, n)'
      BY <1>1 DEF Mine, connVars
    <2>2. /\ pc'[t] \in {"dropFields", "dropRest", "idle"}
          /\ pc'[t] = "idle" => deque[t] = <<>>
      BY DEF DropMessage, DroppedFields, DroppedRest, IndInv, TypeOK
    <2>3. deque'[t] = deque[t]
      BY <1>1
    <2> QED BY <1>2, <2>1, <2>2, <2>3 DEF IndInv, HeldInv
  <1> QED BY <1>3, <1>4, <1>5 DEF IndInv

LEMMA StepInv == IndInv /\ [Next]_vars => IndInv'
  <1> SUFFICES ASSUME IndInv, [Next]_vars PROVE IndInv'
    OBVIOUS
  <1>1. CASE UNCHANGED vars
    <2>1. TypeOK'
      BY <1>1 DEF IndInv, TypeOK, vars, connVars
    <2>2. \A u \in Threads : HeldInv(u)'
      BY <1>1, Others DEF IndInv, vars, connVars
    <2> QED BY <2>1, <2>2 DEF IndInv
  <1>2. ASSUME NEW t \in Threads, Receiver(t) PROVE IndInv'
    BY <1>2, RecvmsgInv, DeserializeInv, DropFieldInv, DropRestInv, PassInv DEF Receiver
  <1> QED BY <1>1, <1>2, SendInv DEF Next

-----------------------------------------------------------------------------

\* Every variable has its type: in particular no message gets more descriptors
\* than it has fields.
THEOREM TypeCorrect == Spec => []TypeOK
  <1>1. IndInv => TypeOK
    BY DEF IndInv
  <1> QED BY <1>1, InitInv, StepInv, PTL DEF Spec

\* An element of a concatenation is one of its first part or one of its second.
LEMMA ConcatSplit ==
  ASSUME NEW S, NEW f \in Seq(S), NEW d \in Seq(S), NEW i \in DOMAIN (f \o d)
  PROVE  /\ Len(f) \in Nat /\ i \in Nat
         /\ i <= Len(f) => i \in DOMAIN f /\ (f \o d)[i] = f[i]
         /\ i > Len(f) => i - Len(f) \in DOMAIN d /\ (f \o d)[i] = d[i - Len(f)]
  <1>1. Len(f) \in Nat /\ DOMAIN f = 1..Len(f)
    BY LenProperties
  <1>2. Len(d) \in Nat /\ DOMAIN d = 1..Len(d)
    BY LenProperties
  <1>3. /\ f \o d \in Seq(S)
        /\ Len(f \o d) = Len(f) + Len(d)
        /\ \A l \in 1..(Len(f) + Len(d)) : (f \o d)[l] =
             IF l <= Len(f) THEN f[l] ELSE d[l - Len(f)]
    BY ConcatProperties
  <1>4. DOMAIN (f \o d) = 1..Len(f \o d)
    BY <1>3, LenProperties
  <1> DEFINE h == f \o d
  <1>5. PICK k \in Nat, n \in Nat : k = Len(f) /\ n = Len(d)
    BY <1>1, <1>2
  <1>6. i \in 1..(k + n) /\ h[i] = IF i <= k THEN f[i] ELSE d[i - k]
    BY <1>3, <1>4, <1>5
  <1> HIDE DEF h
  <1>7. i <= k => i \in 1..k /\ h[i] = f[i]
    BY <1>6
  <1>8. i > k => i - k \in 1..n /\ h[i] = d[i - k]
    BY <1>6
  <1>9. i \in Nat
    BY <1>6
  <1> QED BY <1>1, <1>2, <1>5, <1>7, <1>8, <1>9 DEF h

\* What is held, in the fields first and in the queue behind them.
LEMMA HeldSplit ==
  ASSUME IndInv, NEW t \in Threads, NEW i \in DOMAIN Held(t)
  PROVE  /\ Len(fields[t]) \in Nat /\ i \in Nat
         /\ i <= Len(fields[t]) => i \in DOMAIN fields[t] /\ Held(t)[i] = fields[t][i]
         /\ i > Len(fields[t]) => /\ i - Len(fields[t]) \in DOMAIN deque[t]
                                  /\ Held(t)[i] = deque[t][i - Len(fields[t])]
  <1>1. fields[t] \in Seq(Numbers) /\ deque[t] \in Seq(Numbers)
    BY DEF IndInv, TypeOK
  <1>2. PICK f \in Seq(Numbers), d \in Seq(Numbers) : f = fields[t] /\ d = deque[t]
    BY <1>1
  <1>3. Held(t) = f \o d /\ i \in DOMAIN (f \o d)
    BY <1>2 DEF Held
  <1>4. /\ Len(f) \in Nat /\ i \in Nat
        /\ i <= Len(f) => i \in DOMAIN f /\ (f \o d)[i] = f[i]
        /\ i > Len(f) => i - Len(f) \in DOMAIN d /\ (f \o d)[i] = d[i - Len(f)]
    BY <1>3, ConcatSplit, Zenon
  <1> QED BY <1>2, <1>3, <1>4, Zenon

\* No descriptor is closed by a thread that does not own it, and none twice, however
\* the threads of a process receive, fail and close at the same time and whatever
\* their peers send.
THEOREM DescriptorsAreOwned == Spec => []NobodyClosesAnothers
  <1>1. IndInv => NobodyClosesAnothers
    <2> SUFFICES ASSUME IndInv, NEW t \in Threads, NEW i \in DOMAIN Held(t)
                 PROVE  /\ \E j \in 1..MaxFiles : table[Held(t)[i]] = File(t, read[t], j)
                        /\ \A j \in DOMAIN Held(t) : i # j => Held(t)[i] # Held(t)[j]
      BY DEF NobodyClosesAnothers
    <2>1. Mine(t, Held(t)[i])
      BY HeldSplit DEF IndInv, HeldInv
    <2>2. ASSUME NEW j \in DOMAIN Held(t), i # j PROVE Held(t)[i] # Held(t)[j]
      <3> DEFINE k == Len(fields[t])
      <3>1. /\ k \in Nat /\ i \in Nat /\ j \in Nat
            /\ i <= k => i \in DOMAIN fields[t] /\ Held(t)[i] = fields[t][i]
            /\ i > k => i - k \in DOMAIN deque[t] /\ Held(t)[i] = deque[t][i - k]
            /\ j <= k => j \in DOMAIN fields[t] /\ Held(t)[j] = fields[t][j]
            /\ j > k => j - k \in DOMAIN deque[t] /\ Held(t)[j] = deque[t][j - k]
        BY HeldSplit
      <3>2. /\ Distinct(fields[t]) /\ Distinct(deque[t])
            /\ \A a \in DOMAIN fields[t] : \A b \in DOMAIN deque[t] : fields[t][a] # deque[t][b]
        BY DEF IndInv, HeldInv
      <3> HIDE DEF k
      <3>3. CASE i <= k /\ j <= k
        BY <2>2, <3>1, <3>2, <3>3 DEF Distinct
      <3>4. CASE i > k /\ j > k
        <4>1. i - k # j - k
          BY <2>2, <3>1
        <4> QED BY <3>1, <3>2, <3>4, <4>1 DEF Distinct
      <3>5. CASE i <= k /\ j > k
        BY <3>1, <3>2, <3>5
      <3>6. CASE i > k /\ j <= k
        BY <3>1, <3>2, <3>6
      <3> QED BY <3>1, <3>3, <3>4, <3>5, <3>6
    <2> QED BY <2>1, <2>2 DEF Mine
  <1> QED BY <1>1, InitInv, StepInv, PTL DEF Spec
-----------------------------------------------------------------------------
(* Where the descriptors are: each in its place, and none forgotten.       *)

\* The sequence s has every descriptor of the last message to t, in order.
Whole(t, s) ==
  /\ read[t] \in 1..Len(sent[t])
  /\ Len(s) = sent[t][read[t]].files
  /\ \A j \in DOMAIN s : table[s[j]] = File(t, read[t], j)

InOrder(t) == /\ pc[t] = "deserialize" => Whole(t, deque[t])
              /\ pc[t] = "returned" => Whole(t, fields[t])

Holds(t, n) == \/ \E i \in DOMAIN fields[t] : fields[t][i] = n
               \/ \E i \in DOMAIN deque[t] : deque[t][i] = n

\* The number n refers to a descriptor of a message that was rejected at once.
OfRejected(n) == \E t \in Threads : \E i \in 1..Len(sent[t]) :
  table[n][1] = t /\ table[n][2] = i /\ sent[t][i].size # "fits"

\* A number in use has an owner, or came with a message that was rejected.
Known(n) == \/ table[n] = NoFile
            \/ \E t \in Threads : Holds(t, n)
            \/ OfRejected(n)

PlaceInv == /\ \A t \in Threads : InOrder(t)
            /\ \A n \in Numbers : Known(n)

LEMMA PlaceInit == Init => PlaceInv
  BY DEF Init, PlaceInv, InOrder, Known

\* A thread is not affected by what others do to numbers that are not its own.
LEMMA OthersInOrder ==
  ASSUME IndInv, NEW u \in Threads, InOrder(u),
         pc'[u] = pc[u], fields'[u] = fields[u], deque'[u] = deque[u], read'[u] = read[u],
         sent'[u] = sent[u],
         \A n \in Numbers : Mine(u, n) => table'[n] = table[n]
  PROVE  InOrder(u)'
  <1>1. /\ \A i \in DOMAIN fields[u] : table'[fields[u][i]] = table[fields[u][i]]
        /\ \A i \in DOMAIN deque[u] : table'[deque[u][i]] = table[deque[u][i]]
    BY DEF IndInv, HeldInv, Mine
  <1> QED BY <1>1 DEF InOrder, Whole

\* What is rejected stays rejected, as messages are only ever added.
LEMMA StaysRejected ==
  ASSUME NEW n, OfRejected(n), table'[n] = table[n],
         \A t \in Threads : \A i \in 1..Len(sent[t]) :
           i \in 1..Len(sent'[t]) /\ sent'[t][i] = sent[t][i]
  PROVE  OfRejected(n)'
  BY DEF OfRejected

LEMMA SendPlace == ASSUME IndInv, PlaceInv, NEW t \in Threads, Send(t) PROVE PlaceInv'
  <1>1. PICK size \in Sizes, files \in 0..MaxFiles :
          /\ sent' = [sent EXCEPT ![t] = Append(@, [size |-> size, files |-> files])]
          /\ UNCHANGED <<table, read, pc, kind, deque, fields>>
    BY DEF Send
  <1> DEFINE Sent == [size : Sizes, files : 0..MaxFiles]
             new == [size |-> size, files |-> files]
  <1>2. PICK s \in Seq(Sent) : s = sent[t]
    BY DEF IndInv, TypeOK
  <1>3. new \in Sent
    OBVIOUS
  <1> HIDE DEF Sent, new
  <1>4. /\ Len(s) \in Nat /\ Len(Append(s, new)) = Len(s) + 1
        /\ \A i \in 1..Len(s) : Append(s, new)[i] = s[i]
    BY <1>2, <1>3, AppendProperties, LenProperties
  <1>5. \A u \in Threads : sent'[u] = IF u = t THEN Append(s, new) ELSE sent[u]
    BY <1>1, <1>2 DEF IndInv, TypeOK, new
  <1>6. \A u \in Threads : \A i \in 1..Len(sent[u]) :
          i \in 1..Len(sent'[u]) /\ sent'[u][i] = sent[u][i]
    <2> SUFFICES ASSUME NEW u \in Threads, NEW i \in 1..Len(sent[u])
                 PROVE  i \in 1..Len(sent'[u]) /\ sent'[u][i] = sent[u][i]
      OBVIOUS
    <2>1. CASE u = t
      <3>1. sent'[u] = Append(s, new) /\ i \in 1..Len(s)
        BY <1>2, <1>5, <2>1
      <3>2. i \in 1..(Len(s) + 1)
        BY <1>4, <3>1
      <3> QED BY <1>2, <1>4, <2>1, <3>1, <3>2
    <2>2. CASE u # t
      BY <1>5, <2>2
    <2> QED BY <2>1, <2>2
  <1>7. \A u \in Threads : InOrder(u)'
    BY <1>1, <1>6 DEF PlaceInv, InOrder, Whole
  <1>8. \A n \in Numbers : Known(n)'
    BY <1>1, <1>6, StaysRejected DEF PlaceInv, Known, Holds
  <1> QED BY <1>7, <1>8 DEF PlaceInv

LEMMA RecvmsgPlace == ASSUME IndInv, PlaceInv, NEW t \in Threads, Recvmsg(t) PROVE PlaceInv'
  <1> DEFINE m == sent[t][read[t] + 1]
  <1>1. PICK k \in Kinds, count \in 0..m.files : \E new \in [1..count -> Free] :
          /\ pc[t] = "idle" /\ read[t] < Len(sent[t])
          /\ Installs(new, m.files, k[1])
          /\ table' = [n \in Numbers |-> IF n \in Range(new)
                       THEN File(t, read[t] + 1, CHOOSE i \in 1..count : new[i] = n)
                       ELSE table[n]]
          /\ IF m.size = "fits"
             THEN /\ deque' = [deque EXCEPT ![t] = Collected(m, new)]
                  /\ kind' = [kind EXCEPT ![t] = k]
                  /\ pc' = [pc EXCEPT ![t] = IF Truncated(m, new) THEN "dropRest"
                                             ELSE "deserialize"]
             ELSE UNCHANGED <<deque, kind, pc>>
          /\ read' = [read EXCEPT ![t] = @ + 1]
          /\ UNCHANGED <<sent, fields>>
    BY DEF Recvmsg
  <1>2. PICK new \in [1..count -> Free] :
          /\ pc[t] = "idle" /\ read[t] < Len(sent[t])
          /\ Installs(new, m.files, k[1])
          /\ table' = [n \in Numbers |-> IF n \in Range(new)
                       THEN File(t, read[t] + 1, CHOOSE i \in 1..count : new[i] = n)
                       ELSE table[n]]
          /\ IF m.size = "fits"
             THEN /\ deque' = [deque EXCEPT ![t] = new]
                  /\ kind' = [kind EXCEPT ![t] = k]
                  /\ pc' = [pc EXCEPT ![t] = IF Truncated(m, new) THEN "dropRest"
                                             ELSE "deserialize"]
             ELSE UNCHANGED <<deque, kind, pc>>
          /\ read' = [read EXCEPT ![t] = @ + 1]
          /\ UNCHANGED <<sent, fields>>
    BY <1>1 DEF Collected
  <1>3. /\ read[t] + 1 \in 1..Len(sent[t]) /\ read'[t] = read[t] + 1
        /\ sent[t] \in Seq([size : Sizes, files : 0..MaxFiles])
    <2>1. sent[t] \in Seq([size : Sizes, files : 0..MaxFiles])
      BY DEF IndInv, TypeOK
    <2>2. Len(sent[t]) \in Nat /\ read[t] \in Nat
      BY <2>1, KindsAssumption, LenProperties DEF IndInv, TypeOK
    <2>3. read[t] + 1 \in 1..Len(sent[t])
      BY <1>2, <2>2
    <2>4. read'[t] = read[t] + 1
      BY <1>2 DEF IndInv, TypeOK
    <2> QED BY <2>1, <2>3, <2>4
  <1>4. m.files \in Nat
    <2>1. m \in [size : Sizes, files : 0..MaxFiles]
      <3> HIDE DEF m
      <3>1. m = sent[t][read[t] + 1]
        BY DEF m
      <3> QED BY <1>3, <3>1, ElementOfSeq
    <2> QED BY <2>1, KindsAssumption
  <1>m. m = sent[t][read[t] + 1]
    OBVIOUS
  <1> HIDE DEF m
  <1>5. count \in Nat /\ count <= m.files /\ Len(new) = count /\ DOMAIN new = 1..count
    BY <1>4
  <1>6. \A i \in 1..count : /\ new[i] \in Numbers /\ new[i] \in Free /\ new[i] \in Range(new)
    BY DEF Free, Range
  <1>7. \A i, j \in 1..count : new[i] = new[j] => i = j
    <2> SUFFICES ASSUME NEW i \in 1..count, NEW j \in 1..count, i # j PROVE new[i] # new[j]
      OBVIOUS
    <2>1. /\ i \in Nat /\ j \in Nat /\ new[i] \in Nat /\ new[j] \in Nat
          /\ (i < j => new[i] < new[j]) /\ (j < i => new[j] < new[i])
      BY <1>2, <1>5, <1>6 DEF Installs, Numbers
    <2> QED BY <2>1
  <1>8. \A i \in 1..count : table'[new[i]] = File(t, read[t] + 1, i)
    <2> SUFFICES ASSUME NEW i \in 1..count PROVE table'[new[i]] = File(t, read[t] + 1, i)
      OBVIOUS
    <2>1. table'[new[i]] = File(t, read[t] + 1, CHOOSE j \in 1..count : new[j] = new[i])
      BY <1>2, <1>6
    <2>2. (CHOOSE j \in 1..count : new[j] = new[i]) = i
      BY <1>7
    <2> QED BY <2>1, <2>2
  <1>9. \A n \in Numbers \ Range(new) : table'[n] = table[n]
    BY <1>2
  <1>10. \A n \in Range(new) : n \in Free /\ \E i \in 1..count : n = new[i]
    BY <1>6 DEF Range
  <1>11. ASSUME NEW u \in Threads, u # t PROVE InOrder(u)'
    <2>1. /\ pc'[u] = pc[u] /\ fields'[u] = fields[u] /\ deque'[u] = deque[u]
          /\ read'[u] = read[u] /\ sent'[u] = sent[u]
      BY <1>2, <1>11 DEF IndInv, TypeOK
    <2>2. \A n \in Numbers : Mine(u, n) => table'[n] = table[n]
      BY <1>9, <1>10, MineIsNotFree
    <2> QED BY <2>1, <2>2, OthersInOrder DEF PlaceInv
  <1>12. InOrder(t)'
    <2>1. CASE pc'[t] = "deserialize"
      <3>1. m.size = "fits" /\ deque'[t] = new /\ ~Truncated(m, new)
        BY <1>2, <2>1 DEF IndInv, TypeOK
      <3>2. Len(new) = m.files
        BY <1>4, <1>5, <3>1 DEF Truncated
      <3>3. Whole(t, new)'
        BY <1>2, <1>3, <1>m, <1>5, <1>8, <3>2 DEF Whole
      <3> QED BY <2>1, <3>1, <3>3 DEF InOrder, Whole
    <2>2. CASE pc'[t] # "deserialize"
      BY <1>2, <2>2 DEF IndInv, TypeOK, InOrder
    <2> QED BY <2>1, <2>2
  <1>13. ASSUME NEW n \in Numbers PROVE Known(n)'
    <2>1. CASE n \in Range(new)
      <3>1. PICK i \in 1..count : n = new[i]
        BY <1>10, <2>1
      <3>2. table'[n] = File(t, read[t] + 1, i)
        BY <1>8, <3>1
      <3>3. CASE m.size = "fits"
        <4>1. deque'[t] = new
          BY <1>2, <3>3 DEF IndInv, TypeOK
        <4> QED BY <1>5, <3>1, <4>1 DEF Known, Holds
      <3>4. CASE m.size # "fits"
        <4>1. table'[n][1] = t /\ table'[n][2] = read[t] + 1
          BY <3>2 DEF File
        <4>2. OfRejected(n)'
          BY <1>2, <1>3, <1>m, <3>4, <4>1 DEF OfRejected
        <4> QED BY <4>2 DEF Known
      <3> QED BY <3>3, <3>4
    <2>2. CASE n \notin Range(new)
      <3>1. table'[n] = table[n]
        BY <1>9, <2>2
      <3>2. CASE table[n] = NoFile
        BY <3>1, <3>2 DEF Known
      <3>3. ASSUME NEW u \in Threads, Holds(u, n) PROVE Holds(u, n)'
        <4>1. u # t
          BY <1>2, <3>3 DEF IndInv, HeldInv, Holds
        <4> QED BY <1>2, <3>3, <4>1 DEF IndInv, TypeOK, Holds
      <3>4. OfRejected(n) => OfRejected(n)'
        BY <1>2, <3>1 DEF OfRejected
      <3> QED BY <3>2, <3>3, <3>4 DEF PlaceInv, Known
    <2> QED BY <2>1, <2>2
  <1> QED BY <1>11, <1>12, <1>13 DEF PlaceInv

LEMMA DeserializePlace == ASSUME IndInv, PlaceInv, NEW t \in Threads, Deserialize(t) PROVE PlaceInv'
  <1>1. PICK j \in 0..kind[t][2] :
          /\ pc[t] = "deserialize" /\ j <= Len(deque[t])
          /\ fields' = [fields EXCEPT ![t] = Moved(deque[t], j)]
          /\ deque' = [deque EXCEPT ![t] = Left(deque[t], j)]
          /\ \/ deque'[t] = <<>> /\ pc' = [pc EXCEPT ![t] = "returned"]
             \/ pc' = [pc EXCEPT ![t] = "dropFields"]
          /\ UNCHANGED <<table, connVars, kind>>
    BY DEF Deserialize
  <1>2. PICK d \in Seq(Numbers) : d = deque[t]
    BY DEF IndInv, TypeOK
  <1>3. j \in Nat /\ Len(d) \in Nat /\ j \in 0..Len(d) /\ DOMAIN d = 1..Len(d)
    BY <1>1, <1>2, KindsAssumption, LenProperties DEF IndInv, TypeOK
  <1>4. /\ Moved(d, j) \in Seq(Numbers) /\ Len(Moved(d, j)) = j
        /\ DOMAIN Moved(d, j) = 1..j
        /\ \A i \in 1..j : Moved(d, j)[i] = d[i]
    BY <1>3, SubSeqProperties, LenProperties DEF Moved
  <1>5. /\ Left(d, j) \in Seq(Numbers) /\ Len(Left(d, j)) = Len(d) - j
        /\ DOMAIN Left(d, j) = 1..(Len(d) - j)
        /\ \A i \in 1..(Len(d) - j) : Left(d, j)[i] = d[i + j]
    <2>1. /\ Left(d, j) \in Seq(Numbers) /\ Len(Left(d, j)) = Len(d) - j
          /\ \A i \in 1..(Len(d) - j) : Left(d, j)[i] = d[i + j]
      BY <1>3, LeftPart
    <2>2. DOMAIN Left(d, j) = 1..Len(Left(d, j))
      BY <2>1, LenProperties
    <2> QED BY <2>1, <2>2
  <1>6. fields'[t] = Moved(d, j) /\ deque'[t] = Left(d, j)
    BY <1>1, <1>2 DEF IndInv, TypeOK
  <1>7. ASSUME NEW u \in Threads, u # t PROVE InOrder(u)'
    BY <1>1, <1>7, OthersInOrder DEF IndInv, TypeOK, connVars, PlaceInv
  <1>8. InOrder(t)'
    <2>1. pc'[t] \in {"returned", "dropFields"}
      BY <1>1 DEF IndInv, TypeOK
    <2>2. CASE pc'[t] = "returned"
      <3>1. deque'[t] = <<>>
        BY <1>1, <2>2 DEF IndInv, TypeOK
      <3>2. Len(Left(d, j)) = 0
        BY <1>6, <3>1
      <3>3. j = Len(d)
        <4>1. Len(d) - j = 0
          BY <1>5, <3>2
        <4>2. Len(d) \in Nat /\ j \in Nat
          BY <1>3
        <4> QED BY <4>1, <4>2
      <3>4. Whole(t, d)
        BY <1>1, <1>2 DEF PlaceInv, InOrder
      <3>5. Whole(t, Moved(d, j))'
        BY <1>1, <1>3, <1>4, <3>3, <3>4 DEF Whole, connVars
      <3> QED BY <1>6, <2>2, <3>5 DEF InOrder, Whole
    <2> QED BY <2>1, <2>2 DEF InOrder
  <1>9. ASSUME NEW n \in Numbers PROVE Known(n)'
    <2>1. ASSUME NEW u \in Threads, u # t, Holds(u, n) PROVE Holds(u, n)'
      BY <1>1, <2>1 DEF IndInv, TypeOK, Holds
    <2>2. ASSUME Holds(t, n) PROVE Holds(t, n)'
      <3>1. fields[t] = <<>>
        BY <1>1 DEF IndInv, HeldInv
      <3>2. PICK i \in 1..Len(d) : d[i] = n
        BY <1>2, <1>3, <2>2, <3>1 DEF Holds
      <3>3. CASE i <= j
        <4>1. i \in 1..j
          BY <1>3, <3>3
        <4> QED BY <1>4, <1>6, <3>2, <4>1 DEF Holds
      <3>4. CASE i > j
        <4>1. i - j \in 1..(Len(d) - j) /\ (i - j) + j = i
          BY <1>3, <3>4
        <4> QED BY <1>5, <1>6, <3>2, <4>1 DEF Holds
      <3> QED BY <1>3, <3>3, <3>4
    <2>3. OfRejected(n) => OfRejected(n)'
      BY <1>1 DEF OfRejected, connVars
    <2> QED BY <1>1, <2>1, <2>2, <2>3 DEF PlaceInv, Known
  <1> QED BY <1>7, <1>8, <1>9 DEF PlaceInv

\* A thread closes a number n of its own and holds it no more.
LEMMA ClosePlace ==
  ASSUME IndInv, PlaceInv, NEW t \in Threads, NEW n, Mine(t, n), Close(n),
         \A u \in Threads \ {t} : /\ pc'[u] = pc[u] /\ fields'[u] = fields[u]
                                  /\ deque'[u] = deque[u],
         pc'[t] \in {"dropFields", "dropRest"},
         \A l \in Numbers : Holds(t, l) /\ l # n => Holds(t, l)',
         UNCHANGED connVars
  PROVE  PlaceInv'
  <1>1. n \in Numbers /\ table'[n] = NoFile /\ \A l \in Numbers : l # n => table'[l] = table[l]
    BY DEF Mine, Close, IndInv, TypeOK
  <1>2. ASSUME NEW u \in Threads, u # t PROVE InOrder(u)'
    <2>1. \A l \in Numbers : Mine(u, l) => table'[l] = table[l]
      BY <1>1, <1>2, MineIsOne
    <2> QED BY <1>2, <2>1, OthersInOrder DEF PlaceInv, connVars
  <1>3. InOrder(t)'
    BY DEF InOrder
  <1>4. ASSUME NEW l \in Numbers, l # n PROVE Known(l)'
    <2>1. \A u \in Threads : Holds(u, l) => Holds(u, l)'
      BY <1>4 DEF Holds
    <2>2. OfRejected(l) => OfRejected(l)'
      BY <1>1, <1>4 DEF OfRejected, connVars
    <2> QED BY <1>1, <1>4, <2>1, <2>2 DEF PlaceInv, Known
  <1> QED BY <1>1, <1>2, <1>3, <1>4 DEF PlaceInv, Known

\* What is left of s when its first element is taken.
LEMMA TailHas ==
  ASSUME NEW S, NEW s \in Seq(S), s # <<>>, NEW i \in DOMAIN s, s[i] # Head(s)
  PROVE  \E j \in DOMAIN Tail(s) : Tail(s)[j] = s[i]
  <1>1. /\ Head(s) = s[1] /\ Tail(s) \in Seq(S) /\ Len(Tail(s)) = Len(s) - 1
        /\ \A j \in 1..Len(Tail(s)) : Tail(s)[j] = s[j + 1]
    BY HeadTailProperties
  <1>2. Len(s) \in Nat /\ i \in 1..Len(s) /\ DOMAIN Tail(s) = 1..Len(Tail(s))
    BY <1>1, LenProperties
  <1>3. i # 1
    BY <1>1
  <1>4. i - 1 \in 1..Len(Tail(s)) /\ (i - 1) + 1 = i
    BY <1>1, <1>2, <1>3
  <1> QED BY <1>1, <1>2, <1>4

LEMMA DropFieldPlace == ASSUME IndInv, PlaceInv, NEW t \in Threads, DropField(t) PROVE PlaceInv'
  <1>1. PICK f \in Seq(Numbers) : f = fields[t]
    BY DEF IndInv, TypeOK
  <1>2. f # <<>> /\ pc[t] = "dropFields"
    BY <1>1 DEF DropField
  <1>3. Head(f) = f[1] /\ 1 \in DOMAIN f
    BY <1>2, TailFacts
  <1>4. Mine(t, Head(f))
    BY <1>1, <1>3 DEF IndInv, HeldInv
  <1>5. /\ Close(Head(f)) /\ fields' = [fields EXCEPT ![t] = Tail(f)]
        /\ UNCHANGED <<connVars, pc, kind, deque>>
    BY <1>1 DEF DropField
  <1>6. fields'[t] = Tail(f) /\ \A u \in Threads \ {t} : fields'[u] = fields[u]
    BY <1>5 DEF IndInv, TypeOK
  <1>7. ASSUME NEW l \in Numbers, Holds(t, l), l # Head(f) PROVE Holds(t, l)'
    <2>1. CASE \E i \in DOMAIN f : f[i] = l
      BY <1>2, <1>6, <1>7, <2>1, TailHas DEF Holds
    <2>2. CASE \E i \in DOMAIN deque[t] : deque[t][i] = l
      BY <1>5, <2>2 DEF Holds
    <2> QED BY <1>1, <1>7, <2>1, <2>2 DEF Holds
  <1>8. pc'[t] \in {"dropFields", "dropRest"}
    BY <1>2, <1>5
  <1> QED BY <1>4, <1>5, <1>6, <1>7, <1>8, ClosePlace

LEMMA DropRestPlace == ASSUME IndInv, PlaceInv, NEW t \in Threads, DropRest(t) PROVE PlaceInv'
  <1>1. PICK d \in Seq(Numbers) : d = deque[t]
    BY DEF IndInv, TypeOK
  <1>2. d # <<>> /\ pc[t] = "dropRest"
    BY <1>1 DEF DropRest
  <1>3. Head(d) = d[1] /\ 1 \in DOMAIN d
    BY <1>2, TailFacts
  <1>4. Mine(t, Head(d))
    BY <1>1, <1>3 DEF IndInv, HeldInv
  <1>5. /\ Close(Head(d)) /\ deque' = [deque EXCEPT ![t] = Tail(d)]
        /\ UNCHANGED <<connVars, pc, kind, fields>>
    BY <1>1 DEF DropRest
  <1>6. deque'[t] = Tail(d) /\ \A u \in Threads \ {t} : deque'[u] = deque[u]
    BY <1>5 DEF IndInv, TypeOK
  <1>7. ASSUME NEW l \in Numbers, Holds(t, l), l # Head(d) PROVE Holds(t, l)'
    <2>1. CASE \E i \in DOMAIN d : d[i] = l
      BY <1>2, <1>6, <1>7, <2>1, TailHas DEF Holds
    <2>2. CASE \E i \in DOMAIN fields[t] : fields[t][i] = l
      BY <1>5, <2>2 DEF Holds
    <2> QED BY <1>1, <1>7, <2>1, <2>2 DEF Holds
  <1>8. pc'[t] \in {"dropFields", "dropRest"}
    BY <1>2, <1>5
  <1> QED BY <1>4, <1>5, <1>6, <1>7, <1>8, ClosePlace

LEMMA PassPlace ==
  ASSUME IndInv, PlaceInv, NEW t \in Threads,
         DropMessage(t) \/ DroppedFields(t) \/ DroppedRest(t)
  PROVE  PlaceInv'
  <1>1. /\ UNCHANGED <<table, connVars, deque, fields>>
        /\ pc'[t] \in {"dropFields", "dropRest", "idle"}
        /\ \A u \in Threads \ {t} : pc'[u] = pc[u]
    BY DEF DropMessage, DroppedFields, DroppedRest, IndInv, TypeOK
  <1>2. \A u \in Threads : InOrder(u)'
    BY <1>1 DEF PlaceInv, InOrder, Whole, connVars
  <1>3. \A n \in Numbers : Known(n)'
    BY <1>1 DEF PlaceInv, Known, Holds, OfRejected, connVars
  <1> QED BY <1>2, <1>3 DEF PlaceInv

LEMMA PlaceStep == IndInv /\ PlaceInv /\ [Next]_vars => PlaceInv'
  <1> SUFFICES ASSUME IndInv, PlaceInv, [Next]_vars PROVE PlaceInv'
    OBVIOUS
  <1>1. CASE UNCHANGED vars
    BY <1>1 DEF PlaceInv, InOrder, Whole, Known, Holds, OfRejected, vars, connVars
  <1>2. ASSUME NEW t \in Threads, Receiver(t) PROVE PlaceInv'
    BY <1>2, RecvmsgPlace, DeserializePlace, DropFieldPlace, DropRestPlace, PassPlace DEF Receiver
  <1> QED BY <1>1, <1>2, SendPlace DEF Next

\* A message that is returned has all its descriptors, each in the field the
\* sender took it from, however full the table of the process is.
THEOREM ReturnedMessagesAreComplete == Spec => []ReturnedIsComplete
  <1>1. PlaceInv => ReturnedIsComplete
    BY DEF PlaceInv, InOrder, Whole, ReturnedIsComplete
  <1> QED BY <1>1, InitInv, StepInv, PlaceInit, PlaceStep, PTL DEF Spec

\* A number that a thread holds is in its fields and queue taken together.
LEMMA HoldsIsHeld ==
  ASSUME IndInv, NEW t \in Threads, NEW n, Holds(t, n)
  PROVE  n \in Range(Held(t))
  <1>1. PICK f \in Seq(Numbers), d \in Seq(Numbers) : f = fields[t] /\ d = deque[t]
    BY DEF IndInv, TypeOK
  <1>2. /\ Len(f) \in Nat /\ DOMAIN f = 1..Len(f) /\ Len(d) \in Nat /\ DOMAIN d = 1..Len(d)
    BY LenProperties
  <1>3. /\ f \o d \in Seq(Numbers) /\ Len(f \o d) = Len(f) + Len(d)
        /\ \A l \in 1..(Len(f) + Len(d)) : (f \o d)[l] =
             IF l <= Len(f) THEN f[l] ELSE d[l - Len(f)]
    BY ConcatProperties
  <1>4. DOMAIN (f \o d) = 1..(Len(f) + Len(d))
    BY <1>3, LenProperties
  <1>5. PICK a \in Nat, b \in Nat : a = Len(f) /\ b = Len(d)
    BY <1>2
  <1>6. CASE \E i \in DOMAIN f : f[i] = n
    <2>1. PICK i \in 1..a : f[i] = n
      BY <1>2, <1>5, <1>6
    <2>2. i \in 1..(a + b) /\ i <= a
      OBVIOUS
    <2>3. (f \o d)[i] = n
      BY <1>3, <1>5, <2>1, <2>2
    <2> QED BY <1>1, <1>4, <1>5, <2>2, <2>3 DEF Held, Range
  <1>7. CASE \E i \in DOMAIN d : d[i] = n
    <2>1. PICK i \in 1..b : d[i] = n
      BY <1>2, <1>5, <1>7
    <2>2. i + a \in 1..(a + b) /\ ~(i + a <= a) /\ (i + a) - a = i
      OBVIOUS
    <2>3. (f \o d)[i + a] = d[(i + a) - a]
      BY <1>3, <1>5, <2>2
    <2>4. (f \o d)[i + a] = n
      BY <2>1, <2>2, <2>3
    <2> QED BY <1>1, <1>4, <1>5, <2>2, <2>4 DEF Held, Range
  <1> QED BY <1>1, <1>6, <1>7 DEF Holds

\* On every path of receive_with_fds but the two early returns, each descriptor that
\* arrived is closed: none is left open with nobody to close it.
THEOREM OthersDoNotLeak == Spec => []OnlyRejectedLeak
  <1>1. IndInv /\ PlaceInv => OnlyRejectedLeak
    <2> SUFFICES ASSUME IndInv, PlaceInv, NEW n \in Numbers, n \notin Free, n \notin Owned
                 PROVE  sent[table[n][1]][table[n][2]].size # "fits"
      BY DEF OnlyRejectedLeak
    <2>1. table[n] # NoFile
      BY DEF Free
    <2>2. \A t \in Threads : ~Holds(t, n)
      BY HoldsIsHeld DEF Owned
    <2>3. OfRejected(n)
      BY <2>1, <2>2 DEF PlaceInv, Known
    <2> QED BY <2>3 DEF OfRejected
  <1> QED BY <1>1, InitInv, StepInv, PlaceInit, PlaceStep, PTL DEF Spec
=============================================================================
