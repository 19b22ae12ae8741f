--------------------------- MODULE AsyncQueueProofs ---------------------------
(***************************************************************************)
(* Proofs about AsyncQueue with one consumer, for any number of producers, *)
(* pushes and nodes; with one producer too, it implements FifoQueue.       *)
(***************************************************************************)
EXTENDS AsyncQueue, NumberLemmas, FiniteSetTheorems, SequenceTheorems, TLAPS

-------------------------------------------------------------------------------
(* Lists of linked nodes.                                                  *)

\* What a list is made of: nodes, with the next pointer of each the one after it.
LEMMA ListParts ==
  ASSUME NEW nx, NEW s, Listed(nx, s)
  PROVE  /\ s \in Seq(Node) /\ Len(s) \in Nat /\ Len(s) >= 1
         /\ ToSet(s) \subseteq Node /\ s[1] \in ToSet(s)
         /\ Last(s) = s[Len(s)] /\ Last(s) \in ToSet(s)
         /\ \A i \in 1 .. Len(s) : s[i] \in Node /\ s[i] \in ToSet(s) /\ s[i] # NULL
         /\ \A x \in ToSet(s) : \E i \in 1 .. Len(s) : x = s[i]
<1>1. s \in Seq(Node) /\ s # << >> BY DEF Listed
<1>2. Len(s) \in Nat /\ Len(s) >= 1 BY <1>1
<1>3. 1 \in 1 .. Len(s) /\ Len(s) \in 1 .. Len(s) BY <1>2
<1>4. \A i \in 1 .. Len(s) : s[i] \in Node BY <1>1
<1>5. Last(s) = s[Len(s)] BY DEF Last
<1>6. NULL \notin Node BY QueueAssumption
<1>7. ToSet(s) = {s[i] : i \in 1 .. Len(s)} BY <1>1 DEF ToSet
<1>8. QED BY <1>1, <1>2, <1>3, <1>4, <1>5, <1>6, <1>7

\* A list has no more nodes than there are.
LEMMA ListLength ==
  ASSUME NEW nx, NEW s, Listed(nx, s)
  PROVE  Len(s) \in 1 .. MaxNodes
<1>1. s \in Seq(Node) /\ s # << >> /\ Len(s) \in Nat /\ Len(s) >= 1 BY DEF Listed
<1>2. s \in Injection(1 .. Len(s), Node) BY <1>1 DEF Listed, Injection, IsInjective
<1>3. MaxNodes \in Nat BY QueueAssumption
<1>4. IsFiniteSet(Node) /\ Cardinality(Node) = MaxNodes
  <2>1. 1 \in Int /\ MaxNodes \in Int BY <1>3
  <2>2. /\ IsFiniteSet(1 .. MaxNodes)
        /\ Cardinality(1 .. MaxNodes) = IF 1 > MaxNodes THEN 0 ELSE MaxNodes - 1 + 1
    BY <2>1, FS_Interval
  <2>3. (IF 1 > MaxNodes THEN 0 ELSE MaxNodes - 1 + 1) = MaxNodes BY <1>3
  <2>4. QED BY <2>2, <2>3 DEF Node
<1>5. Cardinality(1 .. Len(s)) = Len(s)
  <2>1. 1 \in Int /\ Len(s) \in Int BY <1>1
  <2>2. Cardinality(1 .. Len(s)) = IF 1 > Len(s) THEN 0 ELSE Len(s) - 1 + 1
    BY <2>1, FS_Interval
  <2>3. (IF 1 > Len(s) THEN 0 ELSE Len(s) - 1 + 1) = Len(s) BY <1>1
  <2>4. QED BY <2>2, <2>3
<1>6. Cardinality(1 .. Len(s)) <= Cardinality(Node) BY <1>2, <1>4, FS_Injection
<1>7. QED BY <1>1, <1>3, <1>4, <1>5, <1>6

\* ChainIn follows a list to its end.
LEMMA ChainFollows ==
  ASSUME NEW nx, NEW s, Listed(nx, s)
  PROVE  ChainIn(nx, s[1]) = s
<1> DEFINE L == Len(s)
           From(g, k) == IF k = 0 THEN <<s[1]>>
                         ELSE LET after == nx[Last(g[k - 1])].ptr
                              IN  IF after = NULL THEN g[k - 1] ELSE Append(g[k - 1], after)
           m(k) == IF k < L THEN k + 1 ELSE L
           f == [k \in 0 .. MaxNodes |-> SubSeq(s, 1, m(k))]
<1>1. /\ s \in Seq(Node) /\ L \in 1 .. MaxNodes /\ MaxNodes \in Nat /\ L \in Nat /\ L >= 1
      /\ \A i \in 1 .. L - 1 : nx[s[i]].ptr = s[i + 1]
      /\ nx[s[L]].ptr = NULL
      /\ \A i \in 1 .. L : s[i] \in Node /\ s[i] # NULL
  BY ListParts, ListLength, QueueAssumption DEF Listed
<1>2. ASSUME NEW i \in 1 .. L
      PROVE  /\ SubSeq(s, 1, i) \in Seq(Node) /\ Len(SubSeq(s, 1, i)) = i
             /\ Last(SubSeq(s, 1, i)) = s[i]
             /\ i < L => Append(SubSeq(s, 1, i), s[i + 1]) = SubSeq(s, 1, i + 1)
  <2>1. SubSeq(s, 1, i) \in Seq(Node) /\ Len(SubSeq(s, 1, i)) = i BY <1>1
  <2>2. Last(SubSeq(s, 1, i)) = s[i] BY <1>1, <2>1 DEF Last
  <2>3. i < L => Append(SubSeq(s, 1, i), s[i + 1]) = SubSeq(s, 1, i + 1)
    BY <1>1, <2>1
  <2>4. QED BY <2>1, <2>2, <2>3
<1>3. SubSeq(s, 1, 1) = <<s[1]>> /\ SubSeq(s, 1, L) = s
  <2>1. SubSeq(s, 1, 1) = <<s[1]>>
    <3>1. SubSeq(s, 1, 1) \in Seq(Node) /\ Len(SubSeq(s, 1, 1)) = 1 BY <1>1
    <3>2. SubSeq(s, 1, 1)[1] = s[1] BY <1>1
    <3>3. \A a \in Seq(Node) : Len(a) = 1 => a = <<a[1]>> OBVIOUS
    <3>4. QED BY <3>1, <3>2, <3>3
  <2>2. SubSeq(s, 1, L) = s BY <1>1
  <2>3. QED BY <2>1, <2>2
<1> HIDE DEF L
<1>4. ASSUME NEW g, NEW k \in 0 .. MaxNodes, k > 0 => g[k - 1] = SubSeq(s, 1, m(k - 1))
      PROVE  From(g, k) = SubSeq(s, 1, m(k))
  <2>1. CASE k = 0
    <3>1. m(k) = 1 BY <1>1, <2>1
    <3>2. QED BY <1>3, <2>1, <3>1
  <2>2. CASE k > 0 /\ k < L
    <3>1. m(k) = k + 1 /\ m(k - 1) = k /\ k \in 1 .. L /\ k \in 1 .. L - 1 BY <1>1, <2>2
    <3>2. Last(g[k - 1]) = s[k] /\ g[k - 1] = SubSeq(s, 1, k) BY <1>2, <1>4, <2>2, <3>1
    <3>3. nx[s[k]].ptr = s[k + 1] /\ s[k + 1] # NULL BY <1>1, <3>1
    <3>4. Append(SubSeq(s, 1, k), s[k + 1]) = SubSeq(s, 1, k + 1) BY <1>2, <2>2, <3>1
    <3>5. k # 0 BY <2>2
    <3>6. QED BY <3>1, <3>2, <3>3, <3>4, <3>5
  <2>3. CASE k >= L
    <3>1. m(k) = L /\ m(k - 1) = L /\ L \in 1 .. L /\ k # 0 /\ k > 0 BY <1>1, <2>3
    <3>2. Last(g[k - 1]) = s[L] /\ g[k - 1] = SubSeq(s, 1, L) BY <1>2, <1>4, <3>1
    <3>3. QED BY <1>1, <3>1, <3>2
  <2>4. k = 0 \/ (k > 0 /\ k < L) \/ k >= L
    <3> HIDE DEF From, m, f
    <3>1. k \in Nat /\ L \in Nat BY <1>1
    <3>2. QED BY <3>1
  <2> HIDE DEF From, m
  <2>5. QED BY <2>1, <2>2, <2>3, <2>4
<1> DEFINE Rec(g) == g = [k \in 0 .. MaxNodes |-> From(g, k)]
<1>5. Rec(f)
  <2>1. ASSUME NEW k \in 0 .. MaxNodes PROVE f[k] = From(f, k)
    <3>1. k > 0 => k - 1 \in 0 .. MaxNodes BY <1>1
    <3> HIDE DEF From, m
    <3>2. k > 0 => f[k - 1] = SubSeq(s, 1, m(k - 1)) BY <3>1
    <3>3. From(f, k) = SubSeq(s, 1, m(k)) BY <1>4, <3>2
    <3>4. QED BY <3>3
  <2> HIDE DEF From, m
  <2>2. QED BY <2>1
<1>6. ASSUME NEW g, Rec(g) PROVE g = f
  <2> HIDE DEF From, m
  <2> DEFINE Bad == {k \in 0 .. MaxNodes : g[k] # SubSeq(s, 1, m(k))}
  <2>1. Bad = {}
    <3> SUFFICES ASSUME Bad # {} PROVE FALSE
      OBVIOUS
    <3>1. PICK k \in Bad : \A j \in Bad : k <= j
      <4>1. Bad \in SUBSET Nat OBVIOUS
      <4> HIDE DEF Bad
      <4>2. QED BY <4>1, LeastNat
    <3>2. k > 0 => g[k - 1] = SubSeq(s, 1, m(k - 1))
      <4> SUFFICES ASSUME k > 0 PROVE g[k - 1] = SubSeq(s, 1, m(k - 1))
        OBVIOUS
      <4>1. k - 1 \in 0 .. MaxNodes /\ ~(k <= k - 1) BY <1>1
      <4>2. QED BY <3>1, <4>1
    <3>3. g[k] = From(g, k) BY <1>6
    <3>4. QED BY <1>4, <3>2, <3>3
  <2>2. \A k \in 0 .. MaxNodes : g[k] = f[k] BY <2>1
  <2>3. g = [k \in 0 .. MaxNodes |-> g[k]] BY <1>6
  <2>4. QED BY <2>2, <2>3
<1>7. ChainIn(nx, s[1]) = (CHOOSE g : Rec(g))[MaxNodes] BY Zenon DEF ChainIn
<1> HIDE DEF Rec
<1>8. (CHOOSE g : Rec(g)) = f BY <1>5, <1>6
<1>9. f[MaxNodes] = s
  <2>1. m(MaxNodes) = L BY <1>1
  <2>2. MaxNodes \in 0 .. MaxNodes BY <1>1
  <2> HIDE DEF m
  <2>3. QED BY <1>3, <2>1, <2>2
<1>10. QED BY <1>7, <1>8, <1>9

\* A list stays one while its nodes keep their next pointers.
LEMMA ListStays ==
  ASSUME NEW nx, NEW nx2, NEW s, Listed(nx, s), \A x \in ToSet(s) : nx2[x] = nx[x]
  PROVE  Listed(nx2, s)
<1>1. /\ \A i \in 1 .. Len(s) : s[i] \in ToSet(s)
      /\ Last(s) \in ToSet(s) /\ Len(s) \in Nat
  BY ListParts
<1>2. \A i \in 1 .. Len(s) - 1 : i \in 1 .. Len(s) BY <1>1
<1>3. QED BY <1>1, <1>2 DEF Listed

\* Only the last node of a list has no next node.
LEMMA NullIsLast ==
  ASSUME NEW nx, NEW s, Listed(nx, s), NEW x \in ToSet(s), nx[x].ptr = NULL
  PROVE  x = Last(s)
<1>1. PICK i \in 1 .. Len(s) : x = s[i] BY ListParts
<1>2. Len(s) \in Nat /\ Last(s) = s[Len(s)] BY ListParts
<1>3. CASE i = Len(s) BY <1>1, <1>2, <1>3
<1>4. CASE i # Len(s)
  <2>1. i \in 1 .. Len(s) - 1 /\ i + 1 \in 1 .. Len(s) BY <1>2, <1>4
  <2>2. nx[x].ptr = s[i + 1] BY <1>1, <2>1 DEF Listed
  <2>3. s[i + 1] # NULL BY <2>1, ListParts
  <2>4. QED BY <2>2, <2>3
<1>5. QED BY <1>3, <1>4

\* The next node of a node in a list is in the list, and not its first.
LEMMA NextInList ==
  ASSUME NEW nx, NEW s, Listed(nx, s), NEW x \in ToSet(s), nx[x].ptr # NULL
  PROVE  nx[x].ptr \in ToSet(s) /\ nx[x].ptr # s[1]
<1>1. PICK i \in 1 .. Len(s) : x = s[i] BY ListParts
<1>2. Len(s) \in Nat /\ Last(s) = s[Len(s)] BY ListParts
<1>3. i # Len(s) BY <1>1, <1>2 DEF Listed
<1>4. i \in 1 .. Len(s) - 1 /\ i + 1 \in 1 .. Len(s) /\ i + 1 # 1 /\ 1 \in 1 .. Len(s)
  BY <1>2, <1>3
<1>5. nx[x].ptr = s[i + 1] BY <1>1, <1>4 DEF Listed
<1>6. s[i + 1] \in ToSet(s) BY <1>4, ListParts
<1>7. s[i + 1] # s[1] BY <1>4 DEF Listed
<1>8. QED BY <1>5, <1>6, <1>7

\* A node without a next node is a list.
LEMMA OneListed ==
  ASSUME NEW nx, NEW x \in Node, nx[x].ptr = NULL
  PROVE  /\ Listed(nx, <<x>>) /\ ToSet(<<x>>) = {x} /\ ChainIn(nx, x) = <<x>>
<1>1. /\ <<x>> \in Seq(Node) /\ <<x>> # << >> /\ Len(<<x>>) = 1 /\ <<x>>[1] = x
  OBVIOUS
<1>2. Last(<<x>>) = x BY <1>1 DEF Last
<1>3. Listed(nx, <<x>>) BY <1>1, <1>2 DEF Listed
<1>4. ToSet(<<x>>) = {x} BY <1>1 DEF ToSet
<1>5. ChainIn(nx, <<x>>[1]) = <<x>> BY <1>3, ChainFollows
<1>6. QED BY <1>1, <1>3, <1>4, <1>5

\* Without its first node a list is a list.
LEMMA RestListed ==
  ASSUME NEW nx, NEW s, Listed(nx, s), nx[s[1]].ptr # NULL
  PROVE  /\ Listed(nx, Tail(s)) /\ Tail(s)[1] = nx[s[1]].ptr
         /\ ToSet(Tail(s)) = ToSet(s) \ {s[1]}
         /\ ChainIn(nx, nx[s[1]].ptr) = Tail(s)
<1> DEFINE L == Len(s)
<1>1. s \in Seq(Node) /\ s # << >> /\ L \in Nat /\ L >= 1 /\ Last(s) = s[L]
  BY ListParts
<1>2. L # 1 BY <1>1 DEF Listed
<1>3. /\ Tail(s) \in Seq(Node) /\ Len(Tail(s)) = L - 1
      /\ \A i \in 1 .. L - 1 : Tail(s)[i] = s[i + 1]
  BY <1>1, <1>2
<1> HIDE DEF L
<1>4. Tail(s) # << >>
  <2>1. Len(Tail(s)) # 0 BY <1>1, <1>2, <1>3
  <2>2. Len(<< >>) = 0 OBVIOUS
  <2>3. QED BY <2>1, <2>2, Zenon
<1>5. Last(Tail(s)) = Last(s)
  <2>1. L - 1 \in 1 .. L - 1 BY <1>1, <1>2
  <2>2. Last(Tail(s)) = Tail(s)[L - 1] BY <1>3 DEF Last
  <2>3. Tail(s)[L - 1] = s[(L - 1) + 1] /\ (L - 1) + 1 = L BY <1>1, <1>3, <2>1
  <2>4. QED BY <1>1, <2>2, <2>3
<1>6. ASSUME NEW i \in 1 .. L - 1, NEW j \in 1 .. L - 1, Tail(s)[i] = Tail(s)[j]
      PROVE  i = j
  <2>1. s[i + 1] = s[j + 1] BY <1>3, <1>6
  <2>2. i + 1 \in 1 .. L /\ j + 1 \in 1 .. L BY <1>1
  <2>3. i + 1 = j + 1 BY <2>1, <2>2 DEF Listed, L
  <2>4. QED BY <2>3, <1>1
<1>7. ASSUME NEW i \in 1 .. (L - 1) - 1 PROVE nx[Tail(s)[i]].ptr = Tail(s)[i + 1]
  <2>1. i \in 1 .. L - 1 /\ i + 1 \in 1 .. L - 1 BY <1>1
  <2>2. Tail(s)[i] = s[i + 1] /\ Tail(s)[i + 1] = s[(i + 1) + 1] BY <1>3, <2>1
  <2>3. nx[s[i + 1]].ptr = s[(i + 1) + 1] BY <2>1 DEF Listed, L
  <2>4. QED BY <2>2, <2>3
<1>8. nx[Last(s)].ptr = NULL BY DEF Listed
<1>9. Listed(nx, Tail(s)) BY <1>3, <1>4, <1>5, <1>6, <1>7, <1>8 DEF Listed
<1>10. Tail(s)[1] = nx[s[1]].ptr
  <2>1. 1 \in 1 .. L - 1 BY <1>1, <1>2
  <2>2. Tail(s)[1] = s[1 + 1] /\ nx[s[1]].ptr = s[1 + 1] BY <1>3, <2>1 DEF Listed, L
  <2>3. QED BY <2>2
<1>11. ToSet(Tail(s)) = ToSet(s) \ {s[1]}
  <2>1. ToSet(Tail(s)) = {Tail(s)[i] : i \in 1 .. L - 1} BY <1>3 DEF ToSet
  <2>2. ToSet(s) = {s[i] : i \in 1 .. L} BY <1>1 DEF ToSet, L
  <2>3. ASSUME NEW i \in 1 .. L - 1 PROVE Tail(s)[i] \in ToSet(s) \ {s[1]}
    <3>1. Tail(s)[i] = s[i + 1] /\ i + 1 \in 1 .. L /\ i + 1 # 1 /\ 1 \in 1 .. L
      BY <1>1, <1>3
    <3>2. s[i + 1] # s[1] BY <3>1 DEF Listed, L
    <3>3. QED BY <2>2, <3>1, <3>2
  <2>4. ASSUME NEW i \in 1 .. L, s[i] # s[1] PROVE s[i] \in ToSet(Tail(s))
    <3>1. i # 1 BY <2>4
    <3>2. i - 1 \in 1 .. L - 1 /\ (i - 1) + 1 = i BY <1>1, <3>1
    <3>3. Tail(s)[i - 1] = s[i] BY <1>3, <3>2
    <3>4. QED BY <2>1, <3>2, <3>3
  <2>5. QED BY <2>1, <2>2, <2>3, <2>4
<1>12. ChainIn(nx, Tail(s)[1]) = Tail(s) BY <1>9, ChainFollows
<1>13. QED BY <1>9, <1>10, <1>11, <1>12

\* The next pointers nx2 differ from nx in linking the list u behind the list s.
LinksBehind(nx, nx2, s, u) ==
    /\ Listed(nx, s) /\ Listed(nx, u) /\ ToSet(s) \cap ToSet(u) = {}
    /\ nx2[Last(s)].ptr = u[1] /\ \A x \in Node : x # Last(s) => nx2[x] = nx[x]

\* A list linked behind the last node of another makes one list with it.
LEMMA JoinListed ==
  ASSUME NEW nx, NEW nx2, NEW s, NEW u, LinksBehind(nx, nx2, s, u)
  PROVE  /\ Listed(nx2, s \o u) /\ ToSet(s \o u) = ToSet(s) \cup ToSet(u)
         /\ (s \o u)[1] = s[1] /\ ChainIn(nx2, s[1]) = s \o u
<1> DEFINE L == Len(s)  K == Len(u)  w == s \o u
<1> USE DEF LinksBehind
<1>1. /\ s \in Seq(Node) /\ L \in Nat /\ L >= 1 /\ Last(s) = s[L]
      /\ \A i \in 1 .. L : s[i] \in Node /\ s[i] \in ToSet(s)
  BY ListParts
<1>2. /\ u \in Seq(Node) /\ K \in Nat /\ K >= 1 /\ Last(u) = u[K]
      /\ \A i \in 1 .. K : u[i] \in Node /\ u[i] \in ToSet(u)
  BY ListParts
<1>3. /\ w \in Seq(Node) /\ Len(w) = L + K
      /\ \A i \in 1 .. L : w[i] = s[i]
      /\ \A i \in L + 1 .. L + K : w[i] = u[i - L]
  BY <1>1, <1>2
<1>4. \A i \in 1 .. K : w[L + i] = u[i]
  <2> SUFFICES ASSUME NEW i \in 1 .. K PROVE w[L + i] = u[i]
    OBVIOUS
  <2>1. L + i \in L + 1 .. L + K /\ (L + i) - L = i BY <1>1, <1>2
  <2>2. w[L + i] = u[(L + i) - L] BY <1>3, <2>1
  <2>3. QED BY <2>1, <2>2
<1>5. w # << >>
  <2>1. Len(w) # 0 BY <1>1, <1>2, <1>3
  <2>2. QED BY <2>1
<1> HIDE DEF L, K, w
<1>6. \A i \in 1 .. L + K : i \in 1 .. L \/ \E j \in 1 .. K : i = L + j
  <2> SUFFICES ASSUME NEW i \in 1 .. L + K, i \notin 1 .. L
               PROVE  \E j \in 1 .. K : i = L + j
    OBVIOUS
  <2>1. i - L \in 1 .. K /\ i = L + (i - L) BY <1>1, <1>2
  <2>2. QED BY <2>1
<1>7. ASSUME NEW i \in 1 .. L + K, NEW j \in 1 .. L + K, w[i] = w[j] PROVE i = j
  <2>1. CASE i \in 1 .. L /\ j \in 1 .. L
    <3>1. s[i] = s[j] BY <1>3, <1>7, <2>1
    <3>2. QED BY <2>1, <3>1 DEF Listed, L
  <2>2. ASSUME i \in 1 .. L, NEW b \in 1 .. K, j = L + b PROVE FALSE
    <3>1. s[i] = u[b] BY <1>3, <1>4, <1>7, <2>2
    <3>2. QED BY <1>1, <1>2, <2>2, <3>1
  <2>3. ASSUME j \in 1 .. L, NEW a \in 1 .. K, i = L + a PROVE FALSE
    <3>1. s[j] = u[a] BY <1>3, <1>4, <1>7, <2>3
    <3>2. QED BY <1>1, <1>2, <2>3, <3>1
  <2>4. ASSUME NEW a \in 1 .. K, i = L + a, NEW b \in 1 .. K, j = L + b PROVE i = j
    <3>1. u[a] = u[b] BY <1>4, <1>7, <2>4
    <3>2. a = b BY <3>1 DEF Listed, K
    <3>3. QED BY <2>4, <3>2
  <2>5. QED BY <1>6, <2>1, <2>2, <2>3, <2>4
<1>8. ASSUME NEW i \in 1 .. L PROVE s[i] = Last(s) => i = L
  BY <1>1 DEF Listed, L
<1>9. ASSUME NEW i \in 1 .. (L + K) - 1 PROVE nx2[w[i]].ptr = w[i + 1]
  <2>1. CASE i \in 1 .. L /\ i # L
    <3>1. i \in 1 .. L - 1 /\ i + 1 \in 1 .. L BY <1>1, <2>1
    <3>2. nx[s[i]].ptr = s[i + 1] BY <3>1 DEF Listed, L
    <3>3. nx2[s[i]] = nx[s[i]] BY <1>1, <1>8, <2>1
    <3>4. QED BY <1>3, <2>1, <3>1, <3>2, <3>3
  <2>2. CASE i = L
    <3>1. 1 \in 1 .. K /\ L \in 1 .. L BY <1>1, <1>2
    <3>2. w[L] = Last(s) /\ w[L + 1] = u[1] BY <1>1, <1>3, <1>4, <3>1
    <3>3. QED BY <2>2, <3>2
  <2>3. ASSUME NEW j \in 1 .. K, i = L + j PROVE nx2[w[i]].ptr = w[i + 1]
    <3>1. j \in 1 .. K - 1 /\ j + 1 \in 1 .. K /\ i + 1 = L + (j + 1) BY <1>1, <1>2, <2>3
    <3>2. nx[u[j]].ptr = u[j + 1] BY <3>1 DEF Listed, K
    <3>3. u[j] # Last(s) BY <1>1, <1>2, ListParts
    <3>4. nx2[u[j]] = nx[u[j]] BY <1>2, <3>3
    <3>5. w[i] = u[j] /\ w[i + 1] = u[j + 1] BY <1>4, <2>3, <3>1
    <3>6. QED BY <3>2, <3>4, <3>5
  <2>4. i \in 1 .. L + K BY <1>1, <1>2
  <2>5. QED BY <1>6, <2>1, <2>2, <2>3, <2>4
<1>10. nx2[Last(w)].ptr = NULL
  <2>1. L + K \in Nat /\ K \in 1 .. K BY <1>1, <1>2
  <2>2. Last(w) = w[L + K] /\ w[L + K] = u[K] BY <1>3, <1>4, <2>1 DEF Last
  <2>3. Last(s) \in ToSet(s) /\ Last(u) \in ToSet(u) /\ Last(u) \in Node BY ListParts
  <2>4. nx2[Last(u)] = nx[Last(u)] BY <2>3
  <2>5. QED BY <1>2, <2>2, <2>4 DEF Listed
<1>11. Listed(nx2, w) BY <1>3, <1>5, <1>7, <1>9, <1>10 DEF Listed
<1>12. ToSet(w) = ToSet(s) \cup ToSet(u)
  <2>1. ToSet(w) = {w[i] : i \in 1 .. L + K} BY <1>3 DEF ToSet
  <2>2. ToSet(s) = {s[i] : i \in 1 .. L} BY <1>1 DEF ToSet, L
  <2>3. ToSet(u) = {u[i] : i \in 1 .. K} BY <1>2 DEF ToSet, K
  <2>4. \A i \in 1 .. L : i \in 1 .. L + K BY <1>1, <1>2
  <2>5. \A i \in 1 .. K : L + i \in 1 .. L + K BY <1>1, <1>2
  <2>6. \A x \in ToSet(w) : x \in ToSet(s) \cup ToSet(u)
    BY <1>3, <1>4, <1>6, <2>1, <2>2, <2>3
  <2>7. \A x \in ToSet(s) : x \in ToSet(w) BY <1>3, <2>1, <2>2, <2>4
  <2>8. \A x \in ToSet(u) : x \in ToSet(w) BY <1>4, <2>1, <2>3, <2>5
  <2>9. QED BY <2>6, <2>7, <2>8
<1>13. w[1] = s[1] BY <1>1, <1>3
<1>14. ChainIn(nx2, w[1]) = w BY <1>11, ChainFollows
<1>15. QED BY <1>11, <1>12, <1>13, <1>14 DEF w

-------------------------------------------------------------------------------
(* Where nodes are.                                                        *)

\* The queue, the segments, the free stack and the popped nodes are sets of nodes
\* that were cut; head and tail are in the queue, a node being filled is the first of
\* its segment.
LEMMA Places ==
  ASSUME QueueInv
  PROVE  /\ 1 .. fresh \subseteq Node
         /\ InQueue \subseteq 1 .. fresh /\ InFree \subseteq 1 .. fresh
         /\ Popped \subseteq 1 .. fresh
         /\ \A p \in Filling : Behind(p) \subseteq 1 .. fresh /\ node[p] \in Behind(p)
         /\ head.ptr \in InQueue /\ tail.ptr \in InQueue
         /\ \A p \in Producers : pc[p] = "push_init" =>
                p \in Filling /\ Segment(p) = <<node[p]>> /\ Behind(p) = {node[p]}
         /\ \A p \in Producers : pc[p] \in ReadyPc => p \in Filling
         /\ \A p \in Filling : pc[p] = "push_init" \/ pc[p] \in ReadyPc
         /\ \A x \in Thread : pc[x] \in LoadedPc => t[x].ptr \in 1 .. fresh
<1> USE DEF QueueInv
<1>1. fresh \in Node BY DEF TypeOK
<1>2. 1 .. fresh \subseteq Node BY <1>1, QueueAssumption DEF Node
<1>3. /\ InQueue \subseteq 1 .. fresh /\ InFree \subseteq 1 .. fresh
      /\ Popped \subseteq 1 .. fresh /\ \A p \in Filling : Behind(p) \subseteq 1 .. fresh
  <2>1. InQueue \cup InFree \cup Popped \cup UNION {Behind(p) : p \in Filling} = 1 .. fresh
    BY DEF PlaceInv
  <2>2. QED BY <2>1
<1>4. \A p \in Producers : pc[p] = "push_init" =>
          p \in Filling /\ Segment(p) = <<node[p]>> /\ Behind(p) = {node[p]}
  <2> SUFFICES ASSUME NEW p \in Producers, pc[p] = "push_init"
               PROVE  p \in Filling /\ Segment(p) = <<node[p]>> /\ Behind(p) = {node[p]}
    OBVIOUS
  <2>1. p \in Filling BY DEF Filling, FillPc
  <2>2. Segment(p) = <<node[p]>> BY DEF Segment
  <2>3. ToSet(<<node[p]>>) = {node[p]}
    <3>1. Len(<<node[p]>>) = 1 /\ <<node[p]>>[1] = node[p] OBVIOUS
    <3>2. QED BY <3>1 DEF ToSet
  <2>4. QED BY <2>1, <2>2, <2>3 DEF Behind
<1>5. \A p \in Producers : pc[p] \in ReadyPc => p \in Filling
  BY DEF Filling, FillPc, ReadyPc
<1>6. \A p \in Filling : pc[p] = "push_init" \/ pc[p] \in ReadyPc
  BY DEF Filling, FillPc, ReadyPc
<1>7. \A p \in Filling : node[p] \in Behind(p)
  <2> SUFFICES ASSUME NEW p \in Filling PROVE node[p] \in Behind(p)
    OBVIOUS
  <2>1. p \in Producers BY DEF Filling
  <2>2. CASE pc[p] = "push_init" BY <1>4, <2>1, <2>2
  <2>3. CASE pc[p] \in ReadyPc
    <3>1. Listed(nextOf, Segment(p)) /\ Segment(p)[1] = node[p]
      BY <2>1, <2>3 DEF ListInv
    <3>2. QED BY <3>1, ListParts DEF Behind
  <2>4. QED BY <1>6, <2>2, <2>3
<1>8. head.ptr \in InQueue
  <2>1. Listed(nextOf, Chain) /\ Chain[1] = head.ptr BY DEF ListInv
  <2>2. QED BY <2>1, ListParts DEF InQueue
<1>9. tail.ptr \in InQueue BY DEF TailInv
<1>10. \A x \in Thread : pc[x] \in LoadedPc => t[x].ptr \in 1 .. fresh BY DEF TailInv
<1>11. QED BY <1>2, <1>3, <1>4, <1>5, <1>6, <1>7, <1>8, <1>9, <1>10

\* What a step that changes no list leaves alone.
SameShape ==
    /\ nextOf' = nextOf /\ head' = head /\ free' = free /\ fresh' = fresh
    /\ Filling' = Filling /\ Popped' = Popped
    /\ \A p \in Filling : node'[p] = node[p] /\ (pc'[p] = "push_init" <=> pc[p] = "push_init")

\* Such a step keeps every node where it is.
LEMMA ShapeKept ==
  ASSUME SameShape
  PROVE  /\ Chain' = Chain /\ InQueue' = InQueue /\ InFree' = InFree
         /\ \A p \in Filling : Segment(p)' = Segment(p) /\ Behind(p)' = Behind(p)
         /\ LinkedNodes' = LinkedNodes
<1> USE DEF SameShape
<1>1. Chain' = Chain BY DEF Chain
<1>2. InQueue' = InQueue BY <1>1 DEF InQueue
<1>3. InFree' = InFree BY DEF InFree
<1>4. ASSUME NEW p \in Filling PROVE Segment(p)' = Segment(p) /\ Behind(p)' = Behind(p)
  <2>1. Segment(p)' = Segment(p) BY DEF Segment
  <2>2. QED BY <2>1 DEF Behind
<1>5. LinkedNodes' = LinkedNodes
  <2>1. LinkedNodes' = (InQueue \ {head.ptr})
                         \cup UNION {Behind(p)' \ {node'[p]} : p \in Filling}
    BY <1>2 DEF LinkedNodes
  <2>2. {Behind(p)' \ {node'[p]} : p \in Filling} = {Behind(p) \ {node[p]} : p \in Filling}
    BY <1>4
  <2>3. QED BY <2>1, <2>2 DEF LinkedNodes
<1>6. QED BY <1>1, <1>2, <1>3, <1>4, <1>5

\* A step that changes no list keeps what holds of lists and places.
LEMMA ShapeInvKept ==
  ASSUME QueueInv, SameShape
  PROVE  /\ ListInv' /\ PlaceInv'
         /\ \A x \in InFree' \cup Popped' : nextOf'[x].ptr # NULL
<1> USE DEF SameShape
<1>1. /\ Chain' = Chain /\ InQueue' = InQueue /\ InFree' = InFree
      /\ \A p \in Filling : Segment(p)' = Segment(p) /\ Behind(p)' = Behind(p)
  BY ShapeKept
<1>2. ListInv'
  <2>1. ListInv BY DEF QueueInv
  <2>2. Listed(nextOf, Chain)' /\ Chain'[1] = head'.ptr BY <1>1, <2>1 DEF ListInv
  <2>3. \A p \in Filling' : Segment(p)'[1] = node'[p] BY <1>1, <2>1 DEF ListInv
  <2>4. ASSUME NEW p \in Producers, pc'[p] \in ReadyPc
        PROVE  Listed(nextOf, Segment(p))'
    <3>1. p \in Filling' /\ pc'[p] # "push_init" BY <2>4 DEF Filling, FillPc, ReadyPc
    <3>2. p \in Filling /\ pc[p] # "push_init" BY <3>1
    <3>3. pc[p] \in ReadyPc BY <3>2 DEF Filling, FillPc, ReadyPc
    <3>4. Listed(nextOf, Segment(p)) BY <2>1, <3>3 DEF ListInv
    <3>5. QED BY <1>1, <3>2, <3>4
  <2>5. QED BY <2>2, <2>3, <2>4 DEF ListInv
<1>3. PlaceInv'
  <2>1. PlaceInv BY DEF QueueInv
  <2>2. {Behind(p)' : p \in Filling'} = {Behind(p) : p \in Filling} BY <1>1
  <2>3. QED BY <1>1, <2>1, <2>2 DEF PlaceInv
<1>4. \A x \in InFree' \cup Popped' : nextOf'[x].ptr # NULL
  BY <1>1 DEF QueueInv, UsedInv
<1>5. QED BY <1>2, <1>3, <1>4

-------------------------------------------------------------------------------
(* What moving a thread does.                                              *)

\* A thread that goes to another line leaves the others where they are.
LEMMA Moves ==
  ASSUME ThreadPc, NEW x \in Thread, NEW a, NEW b, Goto(x, a, b)
  PROVE  pc[x] = a /\ pc'[x] = b /\ \A y \in Thread : y # x => pc'[y] = pc[y]
BY DEF ThreadPc, Goto

\* A producer's move leaves the consumers where they are; it fills a node or does
\* not, by where it goes.
LEMMA PushMoves ==
  ASSUME ThreadPc, NEW p \in Producers, NEW a, NEW b, Goto(p, a, b)
  PROVE  /\ pc[p] = a /\ pc'[p] = b /\ \A y \in Thread : y # p => pc'[y] = pc[y]
         /\ \A c \in Consumers : c # p /\ pc'[c] = pc[c]
         /\ Leaving' = Leaving
         /\ b \in FillPc => Filling' = Filling \cup {p}
         /\ b \notin FillPc => Filling' = Filling \ {p}
<1>1. p \in Thread BY DEF Thread
<1>2. pc[p] = a /\ pc'[p] = b /\ \A y \in Thread : y # p => pc'[y] = pc[y]
  BY <1>1, Moves
<1>3. \A c \in Consumers : c # p /\ pc'[c] = pc[c] BY <1>2, QueueAssumption DEF Thread
<1>4. Leaving' = Leaving BY <1>3 DEF Leaving
<1>5. \A q \in Producers : q # p => pc'[q] = pc[q] BY <1>2 DEF Thread
<1>6. b \in FillPc => Filling' = Filling \cup {p} BY <1>2, <1>5 DEF Filling
<1>7. b \notin FillPc => Filling' = Filling \ {p} BY <1>2, <1>5 DEF Filling
<1>8. QED BY <1>2, <1>3, <1>4, <1>6, <1>7

\* A consumer's move leaves the producers where they are; it holds a popped node or
\* does not, by where it goes.
LEMMA PopMoves ==
  ASSUME ThreadPc, NEW c \in Consumers, NEW a, NEW b, Goto(c, a, b)
  PROVE  /\ pc[c] = a /\ pc'[c] = b /\ \A y \in Thread : y # c => pc'[y] = pc[y]
         /\ \A p \in Producers : p # c /\ pc'[p] = pc[p]
         /\ Filling' = Filling
         /\ b \in {"pop_copy", "pop_return"} => Leaving' = Leaving \cup {c}
         /\ b \notin {"pop_copy", "pop_return"} => Leaving' = Leaving \ {c}
<1>1. c \in Thread BY DEF Thread
<1>2. pc[c] = a /\ pc'[c] = b /\ \A y \in Thread : y # c => pc'[y] = pc[y]
  BY <1>1, Moves
<1>3. \A p \in Producers : p # c /\ pc'[p] = pc[p] BY <1>2, QueueAssumption DEF Thread
<1>4. Filling' = Filling BY <1>3 DEF Filling
<1>5. \A d \in Consumers : d # c => pc'[d] = pc[d] BY <1>2 DEF Thread
<1>6. b \in {"pop_copy", "pop_return"} => Leaving' = Leaving \cup {c}
  BY <1>2, <1>5 DEF Leaving
<1>7. b \notin {"pop_copy", "pop_return"} => Leaving' = Leaving \ {c}
  BY <1>2, <1>5 DEF Leaving
<1>8. QED BY <1>2, <1>3, <1>4, <1>6, <1>7

\* The steps that change no list.
QuietPush(p) ==
    \/ free = <<>> /\ PushTake(p)
    \/ PushTail(p) \/ PushNext(p) \/ PushLinkFails(p) \/ PushHelp(p)
    \/ PushSwing(p) \/ PushSize(p)
QuietPop(c) ==
    \/ PopHead(c) \/ PopTail(c) \/ PopEmpty(c) \/ PopNext(c) \/ PopHelp(c)
    \/ PopSwingFails(c) \/ PopCopy(c) \/ PopSize(c)

\* A push's loads, helping, swing and count change no list.
LEMMA QuietPushShape ==
  ASSUME TypeOK, ThreadPc, NEW p \in Producers, QuietPush(p)
  PROVE  SameShape
<1> USE DEF qvars, pool, snap, hist
<1>1. ASSUME NEW a, NEW b, Goto(p, a, b), a \in FillPc <=> b \in FillPc,
             a # "push_init", b # "push_init",
             nextOf' = nextOf, head' = head, free' = free, fresh' = fresh, h' = h,
             node' = node \/ (a \notin FillPc /\ node' = [node EXCEPT ![p] = NULL])
      PROVE  SameShape
  <2>1. /\ pc[p] = a /\ pc'[p] = b /\ \A y \in Thread : y # p => pc'[y] = pc[y]
        /\ Leaving' = Leaving
        /\ b \in FillPc => Filling' = Filling \cup {p}
        /\ b \notin FillPc => Filling' = Filling \ {p}
    BY <1>1, PushMoves
  <2>2. Filling' = Filling BY <1>1, <2>1 DEF Filling
  <2>3. Popped' = Popped BY <1>1, <2>1 DEF Popped
  <2>4. ASSUME NEW q \in Filling
        PROVE  node'[q] = node[q] /\ (pc'[q] = "push_init" <=> pc[q] = "push_init")
    <3>1. q \in Producers /\ q \in Thread /\ (a \notin FillPc => q # p)
      BY <2>1 DEF Filling, Thread
    <3>2. node'[q] = node[q] BY <1>1, <3>1 DEF TypeOK
    <3>3. q = p \/ pc'[q] = pc[q] BY <2>1, <3>1
    <3>4. QED BY <1>1, <2>1, <3>2, <3>3
  <2>5. QED BY <1>1, <2>2, <2>3, <2>4 DEF SameShape
<1>2. CASE free = <<>> /\ PushTake(p)
  <2>1. Goto(p, "idle", "push_fresh") /\ node' = node BY <1>2 DEF PushTake
  <2>2. QED BY <1>1, <1>2, <2>1 DEF PushTake, FillPc
<1>3. CASE PushTail(p) BY <1>1, <1>3 DEF PushTail, FillPc
<1>4. CASE PushNext(p)
  <2>1. Goto(p, "push_next", "push_link") \/ Goto(p, "push_next", "push_help")
    BY <1>4 DEF PushNext
  <2>2. QED BY <1>1, <1>4, <2>1 DEF PushNext, FillPc
<1>5. CASE PushLinkFails(p) BY <1>1, <1>5 DEF PushLinkFails, FillPc
<1>6. CASE PushHelp(p) BY <1>1, <1>6 DEF PushHelp, FillPc
<1>7. CASE PushSwing(p) BY <1>1, <1>7 DEF PushSwing, FillPc
<1>8. CASE PushSize(p) BY <1>1, <1>8 DEF PushSize, FillPc
<1>9. QED BY <1>2, <1>3, <1>4, <1>5, <1>6, <1>7, <1>8 DEF QuietPush

\* A pop's loads, helping, copy and count change no list.
LEMMA QuietPopShape ==
  ASSUME TypeOK, ThreadPc, NEW c \in Consumers, QuietPop(c)
  PROVE  SameShape
<1> USE DEF qvars, pool, snap, hist
<1>1. ASSUME NEW a, NEW b, Goto(c, a, b),
             nextOf' = nextOf, head' = head, free' = free, fresh' = fresh, node' = node,
             \/ a = "pop_copy" /\ b = "pop_return" /\ h' = h
             \/ /\ a \notin {"pop_copy", "pop_return"} /\ b \notin {"pop_copy", "pop_return"}
                /\ h' = h \/ \E v : h' = [h EXCEPT ![c] = v]
      PROVE  SameShape
  <2>1. /\ pc[c] = a /\ pc'[c] = b /\ \A y \in Thread : y # c => pc'[y] = pc[y]
        /\ \A p \in Producers : p # c /\ pc'[p] = pc[p]
        /\ Filling' = Filling
        /\ b \in {"pop_copy", "pop_return"} => Leaving' = Leaving \cup {c}
        /\ b \notin {"pop_copy", "pop_return"} => Leaving' = Leaving \ {c}
    BY <1>1, PopMoves
  <2>2. Leaving' = Leaving BY <1>1, <2>1 DEF Leaving
  <2>3. \A d \in Leaving : h'[d] = h[d]
    <3>1. \A d \in Leaving : d \in Thread /\ (d # c \/ h' = h)
      BY <1>1, <2>1 DEF Leaving, Thread
    <3>2. QED BY <1>1, <3>1 DEF TypeOK
  <2>4. Popped' = Popped BY <2>2, <2>3 DEF Popped
  <2>5. QED BY <1>1, <2>1, <2>4 DEF SameShape, Filling
<1>2. CASE PopHead(c) BY <1>1, <1>2 DEF PopHead
<1>3. CASE PopTail(c) BY <1>1, <1>3 DEF PopTail
<1>4. CASE PopEmpty(c) BY <1>1, <1>4 DEF PopEmpty
<1>5. CASE PopNext(c)
  <2>1. Goto(c, "pop_next", "pop_help") \/ Goto(c, "pop_next", "pop_swing")
    BY <1>5 DEF PopNext
  <2>2. QED BY <1>1, <1>5, <2>1 DEF PopNext
<1>6. CASE PopHelp(c) BY <1>1, <1>6 DEF PopHelp
<1>7. CASE PopSwingFails(c) BY <1>1, <1>7 DEF PopSwingFails
<1>8. CASE PopCopy(c) BY <1>1, <1>8 DEF PopCopy
<1>9. CASE PopSize(c) BY <1>1, <1>9 DEF PopSize
<1>10. QED BY <1>2, <1>3, <1>4, <1>5, <1>6, <1>7, <1>8, <1>9 DEF QuietPop

-------------------------------------------------------------------------------
(* The steps that change a list.                                           *)

\* A push that got a node m: nothing else moves, and m is filled next.
LEMMA NewFilling ==
  ASSUME QueueInv, NEW p \in Producers, NEW a \in {"idle", "push_fresh"}, NEW m,
         Goto(p, a, "push_init"), node' = [node EXCEPT ![p] = m],
         nextOf' = nextOf, head' = head, h' = h
  PROVE  /\ Chain' = Chain /\ InQueue' = InQueue /\ Popped' = Popped
         /\ p \notin Filling /\ Filling' = Filling \cup {p}
         /\ \A q \in Filling : Segment(q)' = Segment(q) /\ Behind(q)' = Behind(q)
         /\ \A q \in Filling : node'[q] = node[q] /\ pc'[q] = pc[q]
         /\ node'[p] = m /\ Behind(p)' = {m}
         /\ LinkedNodes' = LinkedNodes /\ ListInv'
<1>1. TypeOK /\ ThreadPc /\ ListInv BY DEF QueueInv
<1>2. /\ pc[p] = a /\ pc'[p] = "push_init" /\ \A y \in Thread : y # p => pc'[y] = pc[y]
      /\ Leaving' = Leaving
      /\ "push_init" \in FillPc => Filling' = Filling \cup {p}
  BY <1>1, PushMoves
<1>3. Filling' = Filling \cup {p} BY <1>2 DEF FillPc
<1>4. p \notin Filling BY <1>2 DEF Filling, FillPc
<1>5. Chain' = Chain BY DEF Chain
<1>6. InQueue' = InQueue BY <1>5 DEF InQueue
<1>7. Popped' = Popped BY <1>2 DEF Popped
<1>8. node'[p] = m BY <1>1 DEF TypeOK
<1>9. ASSUME NEW q \in Filling
      PROVE  /\ Segment(q)' = Segment(q) /\ Behind(q)' = Behind(q)
             /\ node'[q] = node[q] /\ pc'[q] = pc[q]
  <2>1. q \in Producers /\ q \in Thread /\ q # p BY <1>4 DEF Filling, Thread
  <2>2. node'[q] = node[q] /\ pc'[q] = pc[q] BY <1>1, <1>2, <2>1 DEF TypeOK
  <2>3. Segment(q)' = Segment(q) BY <2>2 DEF Segment
  <2>4. QED BY <2>2, <2>3 DEF Behind
<1>10. Segment(p)' = <<m>> BY <1>2, <1>8 DEF Segment
<1>11. Behind(p)' = {m}
  <2>1. Len(<<m>>) = 1 /\ <<m>>[1] = m OBVIOUS
  <2>2. ToSet(<<m>>) = {m} BY <2>1 DEF ToSet
  <2>3. QED BY <1>10, <2>2 DEF Behind
<1>12. LinkedNodes' = LinkedNodes
  <2>1. LinkedNodes' = (InQueue \ {head.ptr})
                         \cup UNION {Behind(q)' \ {node'[q]} : q \in Filling \cup {p}}
    BY <1>3, <1>6 DEF LinkedNodes
  <2>2. Behind(p)' \ {node'[p]} = {} BY <1>8, <1>11
  <2>3. \A q \in Filling : Behind(q)' \ {node'[q]} = Behind(q) \ {node[q]} BY <1>9
  <2>4. UNION {Behind(q)' \ {node'[q]} : q \in Filling \cup {p}}
          = UNION {Behind(q) \ {node[q]} : q \in Filling}
    BY <2>2, <2>3
  <2>5. QED BY <2>1, <2>4 DEF LinkedNodes
<1>13. ListInv'
  <2>1. Listed(nextOf, Chain)' /\ Chain'[1] = head'.ptr BY <1>1, <1>5 DEF ListInv
  <2>2. \A q \in Filling' : Segment(q)'[1] = node'[q]
    <3>1. Segment(p)'[1] = node'[p] BY <1>8, <1>10
    <3>2. \A q \in Filling : Segment(q)'[1] = node'[q] BY <1>1, <1>9 DEF ListInv
    <3>3. QED BY <1>3, <3>1, <3>2
  <2>3. ASSUME NEW q \in Producers, pc'[q] \in ReadyPc
        PROVE  Listed(nextOf, Segment(q))'
    <3>1. q # p /\ q \in Filling' BY <1>2, <2>3 DEF ReadyPc, Filling, FillPc
    <3>2. q \in Filling BY <1>3, <3>1
    <3>3. Listed(nextOf, Segment(q)) BY <1>1, <1>9, <2>3, <3>2 DEF ListInv
    <3>4. QED BY <1>9, <3>2, <3>3
  <2>4. QED BY <2>1, <2>2, <2>3 DEF ListInv
<1>14. QED BY <1>3, <1>4, <1>5, <1>6, <1>7, <1>8, <1>9, <1>11, <1>12, <1>13

\* Taking the top of the free stack.
LEMMA TopOfFree ==
  ASSUME TypeOK, free # << >>, IsInjective(free)
  PROVE  /\ Head(free) \in InFree /\ Tail(free) \in Seq(Node) /\ IsInjective(Tail(free))
         /\ ToSet(Tail(free)) = InFree \ {Head(free)}
<1> DEFINE L == Len(free)
<1>1. free \in Seq(Node) /\ L \in Nat /\ L >= 1 /\ Head(free) = free[1]
  BY DEF TypeOK
<1>2. /\ Tail(free) \in Seq(Node) /\ Len(Tail(free)) = L - 1
      /\ \A i \in 1 .. L - 1 : Tail(free)[i] = free[i + 1]
  BY <1>1
<1>3. \A i, j \in 1 .. L : free[i] = free[j] => i = j BY <1>1 DEF IsInjective
<1>4. InFree = {free[i] : i \in 1 .. L} BY <1>1 DEF InFree, ToSet
<1>5. ToSet(Tail(free)) = {Tail(free)[i] : i \in 1 .. L - 1} BY <1>2 DEF ToSet
<1>6. DOMAIN Tail(free) = 1 .. L - 1 BY <1>2
<1> HIDE DEF L
<1>7. Head(free) \in InFree BY <1>1, <1>4
<1>8. IsInjective(Tail(free))
  <2>1. ASSUME NEW i \in 1 .. L - 1, NEW j \in 1 .. L - 1, Tail(free)[i] = Tail(free)[j]
        PROVE  i = j
    <3>1. free[i + 1] = free[j + 1] BY <1>2, <2>1
    <3>2. i + 1 \in 1 .. L /\ j + 1 \in 1 .. L BY <1>1
    <3>3. i + 1 = j + 1 BY <1>3, <3>1, <3>2
    <3>4. QED BY <3>3
  <2>2. QED BY <1>6, <2>1 DEF IsInjective
<1>9. ASSUME NEW i \in 1 .. L - 1 PROVE Tail(free)[i] \in InFree \ {Head(free)}
  <2>1. i + 1 \in 1 .. L /\ i + 1 # 1 /\ 1 \in 1 .. L BY <1>1
  <2>2. free[i + 1] # free[1] BY <1>3, <2>1
  <2>3. QED BY <1>1, <1>2, <1>4, <2>1, <2>2
<1>10. ASSUME NEW i \in 1 .. L, free[i] # free[1] PROVE free[i] \in ToSet(Tail(free))
  <2>1. i # 1 BY <1>10
  <2>2. i - 1 \in 1 .. L - 1 /\ (i - 1) + 1 = i BY <1>1, <2>1
  <2>3. Tail(free)[i - 1] = free[i] BY <1>2, <2>2
  <2>4. QED BY <1>5, <2>2, <2>3
<1>11. ToSet(Tail(free)) = InFree \ {Head(free)} BY <1>1, <1>4, <1>5, <1>9, <1>10
<1>12. QED BY <1>2, <1>7, <1>8, <1>11

\* A node taken off the free stack becomes a segment of its own.
LEMMA TakeShape ==
  ASSUME QueueInv, NEW p \in Producers, PushTake(p), free # << >>
  PROVE  /\ InQueue' = InQueue /\ Popped' = Popped
         /\ Head(free) \in InFree /\ InFree' = InFree \ {Head(free)}
         /\ p \notin Filling /\ Filling' = Filling \cup {p}
         /\ \A q \in Filling : Behind(q)' = Behind(q) /\ node'[q] = node[q] /\ pc'[q] = pc[q]
         /\ node'[p] = Head(free) /\ Behind(p)' = {Head(free)}
         /\ LinkedNodes' = LinkedNodes /\ ListInv' /\ PlaceInv'
         /\ \A x \in InFree' \cup Popped' : nextOf'[x].ptr # NULL
<1>1. TypeOK /\ ThreadPc /\ ListInv /\ PlaceInv /\ UsedInv BY DEF QueueInv
<1>2. /\ Goto(p, "idle", "push_init") /\ node' = [node EXCEPT ![p] = Head(free)]
      /\ free' = Tail(free) /\ nextOf' = nextOf /\ head' = head /\ h' = h /\ fresh' = fresh
  BY DEF PushTake, qvars, snap
<1>3. /\ InQueue' = InQueue /\ Popped' = Popped
      /\ p \notin Filling /\ Filling' = Filling \cup {p}
      /\ \A q \in Filling : Behind(q)' = Behind(q) /\ node'[q] = node[q] /\ pc'[q] = pc[q]
      /\ node'[p] = Head(free) /\ Behind(p)' = {Head(free)}
      /\ LinkedNodes' = LinkedNodes /\ ListInv'
  BY <1>2, NewFilling
<1>4. IsInjective(free) BY <1>1 DEF PlaceInv
<1>5. /\ Head(free) \in InFree /\ IsInjective(free') /\ InFree' = InFree \ {Head(free)}
  BY <1>1, <1>2, <1>4, TopOfFree DEF InFree
<1>6. PlaceInv'
  <2>1. \A q \in Filling : Behind(q) \cap (InQueue \cup InFree) = {} /\ Behind(q) \cap Popped = {}
    BY <1>1 DEF PlaceInv
  <2>2. InQueue \cap InFree = {} /\ Popped \cap (InQueue \cup InFree) = {}
    BY <1>1 DEF PlaceInv
  <2>3. \A q \in Filling' : Behind(q)' \cap (InQueue' \cup InFree') = {}
    BY <1>3, <1>5, <2>1, <2>2
  <2>4. \A q, r \in Filling' : q # r => Behind(q)' \cap Behind(r)' = {}
    <3>1. \A q, r \in Filling : q # r => Behind(q) \cap Behind(r) = {} BY <1>1 DEF PlaceInv
    <3>2. \A q \in Filling : Head(free) \notin Behind(q) BY <1>5, <2>1
    <3>3. QED BY <1>3, <3>1, <3>2
  <2>5. \A q \in Filling' : Behind(q)' \cap Popped' = {} BY <1>3, <1>5, <2>1, <2>2
  <2>6. InQueue' \cup InFree' \cup Popped' \cup UNION {Behind(q)' : q \in Filling'} = 1 .. fresh'
    <3>1. InQueue \cup InFree \cup Popped \cup UNION {Behind(q) : q \in Filling} = 1 .. fresh
      BY <1>1 DEF PlaceInv
    <3>2. UNION {Behind(q)' : q \in Filling'}
            = (UNION {Behind(q) : q \in Filling}) \cup {Head(free)}
      BY <1>3
    <3>3. QED BY <1>2, <1>3, <1>5, <3>1, <3>2
  <2>7. InQueue' \cap InFree' = {} /\ Popped' \cap (InQueue' \cup InFree') = {}
    BY <1>3, <1>5, <2>2
  <2>8. QED BY <1>5, <2>3, <2>4, <2>5, <2>6, <2>7 DEF PlaceInv
<1>7. \A x \in InFree' \cup Popped' : nextOf'[x].ptr # NULL
  BY <1>1, <1>2, <1>3, <1>5 DEF UsedInv
<1>8. QED BY <1>3, <1>5, <1>6, <1>7

\* A node cut from the pool becomes a segment of its own.
LEMMA FreshShape ==
  ASSUME QueueInv, NEW p \in Producers, PushFresh(p)
  PROVE  /\ InQueue' = InQueue /\ Popped' = Popped /\ InFree' = InFree
         /\ p \notin Filling /\ Filling' = Filling \cup {p}
         /\ \A q \in Filling : Behind(q)' = Behind(q) /\ node'[q] = node[q] /\ pc'[q] = pc[q]
         /\ node'[p] = fresh + 1 /\ Behind(p)' = {fresh + 1}
         /\ LinkedNodes' = LinkedNodes /\ ListInv' /\ PlaceInv'
         /\ \A x \in InFree' \cup Popped' : nextOf'[x].ptr # NULL
<1>1. TypeOK /\ ThreadPc /\ ListInv /\ PlaceInv /\ UsedInv BY DEF QueueInv
<1>2. /\ Goto(p, "push_fresh", "push_init") /\ node' = [node EXCEPT ![p] = fresh + 1]
      /\ free' = free /\ nextOf' = nextOf /\ head' = head /\ h' = h /\ fresh' = fresh + 1
  BY DEF PushFresh, qvars, snap
<1>3. /\ InQueue' = InQueue /\ Popped' = Popped
      /\ p \notin Filling /\ Filling' = Filling \cup {p}
      /\ \A q \in Filling : Behind(q)' = Behind(q) /\ node'[q] = node[q] /\ pc'[q] = pc[q]
      /\ node'[p] = fresh + 1 /\ Behind(p)' = {fresh + 1}
      /\ LinkedNodes' = LinkedNodes /\ ListInv'
  BY <1>2, NewFilling
<1>4. InFree' = InFree BY <1>2 DEF InFree
<1>5. fresh \in Nat BY <1>1, QueueAssumption DEF TypeOK, Node
<1>6. fresh + 1 \notin 1 .. fresh /\ 1 .. fresh' = (1 .. fresh) \cup {fresh + 1}
  BY <1>2, <1>5
<1>7. /\ InQueue \subseteq 1 .. fresh /\ InFree \subseteq 1 .. fresh /\ Popped \subseteq 1 .. fresh
      /\ \A q \in Filling : Behind(q) \subseteq 1 .. fresh
  BY Places
<1>8. PlaceInv'
  <2>1. \A q \in Filling : Behind(q) \cap (InQueue \cup InFree) = {} /\ Behind(q) \cap Popped = {}
    BY <1>1 DEF PlaceInv
  <2>2. InQueue \cap InFree = {} /\ Popped \cap (InQueue \cup InFree) = {} /\ IsInjective(free)
    BY <1>1 DEF PlaceInv
  <2>3. \A q \in Filling' : Behind(q)' \cap (InQueue' \cup InFree') = {}
    BY <1>3, <1>4, <1>6, <1>7, <2>1
  <2>4. \A q, r \in Filling' : q # r => Behind(q)' \cap Behind(r)' = {}
    <3>1. \A q, r \in Filling : q # r => Behind(q) \cap Behind(r) = {} BY <1>1 DEF PlaceInv
    <3>2. \A q \in Filling : fresh + 1 \notin Behind(q) BY <1>6, <1>7
    <3>3. QED BY <1>3, <3>1, <3>2
  <2>5. \A q \in Filling' : Behind(q)' \cap Popped' = {} BY <1>3, <1>6, <1>7, <2>1
  <2>6. InQueue' \cup InFree' \cup Popped' \cup UNION {Behind(q)' : q \in Filling'} = 1 .. fresh'
    <3>1. InQueue \cup InFree \cup Popped \cup UNION {Behind(q) : q \in Filling} = 1 .. fresh
      BY <1>1 DEF PlaceInv
    <3>2. UNION {Behind(q)' : q \in Filling'}
            = (UNION {Behind(q) : q \in Filling}) \cup {fresh + 1}
      BY <1>3
    <3>3. QED BY <1>3, <1>4, <1>6, <3>1, <3>2
  <2>7. QED BY <1>2, <1>3, <1>4, <2>2, <2>3, <2>4, <2>5, <2>6 DEF PlaceInv
<1>9. \A x \in InFree' \cup Popped' : nextOf'[x].ptr # NULL
  BY <1>1, <1>2, <1>3, <1>4 DEF UsedInv
<1>10. QED BY <1>3, <1>4, <1>8, <1>9

\* Filling a node cuts its stale next pointer, which no other list went through.
LEMMA InitShape ==
  ASSUME QueueInv, NEW p \in Producers, PushInit(p)
  PROVE  /\ InQueue' = InQueue /\ Popped' = Popped /\ InFree' = InFree
         /\ p \in Filling /\ Filling' = Filling
         /\ node[p] \in Node /\ Behind(p) = {node[p]}
         /\ \A q \in Filling : Behind(q)' = Behind(q)
         /\ \A x \in Node : x # node[p] => nextOf'[x] = nextOf[x]
         /\ LinkedNodes' = LinkedNodes /\ ListInv' /\ PlaceInv'
         /\ \A x \in InFree' \cup Popped' : nextOf'[x].ptr # NULL
<1> DEFINE m == node[p]
<1>1. TypeOK /\ ThreadPc /\ ListInv /\ PlaceInv /\ UsedInv BY DEF QueueInv
<1>2. /\ Goto(p, "push_init", "push_tail") /\ nextOf' = [nextOf EXCEPT ![m] = Null]
      /\ node' = node /\ free' = free /\ fresh' = fresh /\ head' = head /\ h' = h
  BY DEF PushInit, pool, snap
<1>3. /\ pc[p] = "push_init" /\ pc'[p] = "push_tail"
      /\ \A y \in Thread : y # p => pc'[y] = pc[y]
      /\ Leaving' = Leaving
      /\ "push_tail" \in FillPc => Filling' = Filling \cup {p}
  BY <1>1, <1>2, PushMoves
<1>4. p \in Filling /\ Segment(p) = <<m>> /\ Behind(p) = {m} BY <1>3, Places
<1>5. Filling' = Filling BY <1>3, <1>4 DEF FillPc
<1>6. m \in Node BY <1>1, <1>3 DEF ThreadPc, FillPc
<1>7. /\ nextOf'[m].ptr = NULL /\ \A x \in Node : x # m => nextOf'[x] = nextOf[x]
  BY <1>1, <1>2, <1>6 DEF TypeOK, Null
<1> HIDE DEF m
<1>8. m \notin InQueue /\ m \notin InFree /\ m \notin Popped
  BY <1>1, <1>4 DEF PlaceInv
<1>9. Listed(nextOf, Chain) /\ Chain[1] = head.ptr BY <1>1 DEF ListInv
<1>10. Listed(nextOf', Chain)
  <2>1. \A x \in ToSet(Chain) : nextOf'[x] = nextOf[x]
    BY <1>7, <1>8, <1>9, ListParts DEF InQueue
  <2>2. QED BY <1>9, <2>1, ListStays
<1>11. Chain' = Chain
  <2>1. ChainIn(nextOf', Chain[1]) = Chain BY <1>10, ChainFollows
  <2>2. Chain' = ChainIn(nextOf', head'.ptr) BY DEF Chain
  <2>3. QED BY <1>2, <1>9, <2>1, <2>2
<1>12. InQueue' = InQueue BY <1>11 DEF InQueue
<1>13. /\ Listed(nextOf', Segment(p)') /\ Segment(p)' = <<m>> /\ Behind(p)' = {m}
  <2>1. Segment(p)' = ChainIn(nextOf', m) BY <1>2, <1>3 DEF Segment, m
  <2>2. QED BY <1>6, <1>7, <2>1, OneListed DEF Behind
<1>14. ASSUME NEW q \in Filling, q # p
       PROVE  /\ Segment(q)' = Segment(q)
              /\ pc[q] \in ReadyPc => Listed(nextOf', Segment(q))
  <2>1. q \in Producers /\ pc'[q] = pc[q] BY <1>3, <1>14 DEF Filling, Thread
  <2>2. CASE pc[q] = "push_init" BY <1>2, <2>1, <2>2 DEF Segment, ReadyPc
  <2>3. CASE pc[q] \in ReadyPc
    <3>1. Listed(nextOf, Segment(q)) /\ Segment(q)[1] = node[q]
      BY <1>1, <1>14, <2>1, <2>3 DEF ListInv
    <3>2. m \notin Behind(q) BY <1>1, <1>4, <1>14 DEF PlaceInv
    <3>3. \A x \in ToSet(Segment(q)) : nextOf'[x] = nextOf[x]
      BY <1>7, <3>1, <3>2, ListParts DEF Behind
    <3>4. Listed(nextOf', Segment(q)) BY <3>1, <3>3, ListStays
    <3>5. ChainIn(nextOf', node[q]) = Segment(q) BY <3>1, <3>4, ChainFollows
    <3>6. pc'[q] # "push_init" BY <2>1, <2>3 DEF ReadyPc
    <3>7. Segment(q)' = ChainIn(nextOf', node[q]) BY <1>2, <3>6 DEF Segment
    <3>8. QED BY <3>4, <3>5, <3>7
  <2>4. QED BY <1>14, <2>2, <2>3, Places
<1>15. \A q \in Filling : Behind(q)' = Behind(q)
  <2>1. \A q \in Filling : q # p => Behind(q)' = Behind(q) BY <1>14 DEF Behind
  <2>2. QED BY <1>4, <1>13, <2>1
<1>16. Popped' = Popped BY <1>2, <1>3 DEF Popped
<1>17. InFree' = InFree BY <1>2 DEF InFree
<1>18. LinkedNodes' = LinkedNodes
  <2>1. LinkedNodes' = (InQueue \ {head.ptr})
                         \cup UNION {Behind(q)' \ {node[q]} : q \in Filling}
    BY <1>2, <1>5, <1>12 DEF LinkedNodes
  <2>2. {Behind(q)' \ {node[q]} : q \in Filling} = {Behind(q) \ {node[q]} : q \in Filling}
    BY <1>15
  <2>3. QED BY <2>1, <2>2 DEF LinkedNodes
<1>19. ListInv'
  <2>1. Listed(nextOf, Chain)' /\ Chain'[1] = head'.ptr BY <1>2, <1>9, <1>10, <1>11
  <2>2. \A q \in Filling' : Segment(q)'[1] = node'[q]
    <3>1. <<m>>[1] = m OBVIOUS
    <3>2. Segment(p)'[1] = node'[p] BY <1>2, <1>13, <3>1 DEF m
    <3>3. \A q \in Filling : q # p => Segment(q)'[1] = node'[q] BY <1>1, <1>2, <1>14 DEF ListInv
    <3>4. QED BY <1>5, <3>2, <3>3
  <2>3. ASSUME NEW q \in Producers, pc'[q] \in ReadyPc
        PROVE  Listed(nextOf, Segment(q))'
    <3>1. CASE q = p BY <1>13, <3>1
    <3>2. CASE q # p
      <4>1. pc[q] \in ReadyPc /\ q \in Filling
        BY <1>3, <2>3, <3>2, Places DEF Thread
      <4>2. QED BY <1>14, <3>2, <4>1
    <3>3. QED BY <3>1, <3>2
  <2>4. QED BY <2>1, <2>2, <2>3 DEF ListInv
<1>20. PlaceInv'
  <2>1. {Behind(q)' : q \in Filling'} = {Behind(q) : q \in Filling} BY <1>5, <1>15
  <2>2. QED BY <1>1, <1>2, <1>5, <1>12, <1>15, <1>16, <1>17, <2>1 DEF PlaceInv
<1>21. \A x \in InFree' \cup Popped' : nextOf'[x].ptr # NULL
  <2>1. \A x \in InFree \cup Popped : x \in Node /\ nextOf[x].ptr # NULL
    BY <1>1, Places DEF UsedInv
  <2>2. QED BY <1>7, <1>8, <1>16, <1>17, <2>1
<1>22. QED BY <1>4, <1>5, <1>6, <1>7, <1>12, <1>15, <1>16, <1>17, <1>18, <1>19, <1>20, <1>21
           DEF m

\* Where a push links its node: behind the last node of the queue, or of a segment
\* that is not its own.
LEMMA LinkTarget ==
  ASSUME QueueInv, NEW p \in Producers, PushLink(p)
  PROVE  /\ nextOf[t[p].ptr].ptr = NULL /\ t[p].ptr \in Node
         /\ p \in Filling /\ pc[p] = "push_link" /\ pc'[p] = "push_swing"
         /\ \/ t[p].ptr = Last(Chain) /\ t[p].ptr \in InQueue
            \/ \E q \in Filling : /\ q # p /\ pc[q] \in ReadyPc
                                  /\ t[p].ptr = Last(Segment(q)) /\ t[p].ptr \in Behind(q)
<1> DEFINE y == t[p].ptr
<1>1. TypeOK /\ ThreadPc /\ ListInv /\ PlaceInv /\ UsedInv /\ TailInv BY DEF QueueInv
<1>2. pc[p] = "push_link" /\ pc'[p] = "push_swing" /\ p \in Thread
  BY <1>1, PushMoves DEF PushLink, Thread
<1>3. nextOf[y] = n[p] /\ n[p].ptr = NULL BY <1>1, <1>2 DEF PushLink, TailInv
<1>4. y \in 1 .. fresh /\ y \in Node /\ p \in Filling
  BY <1>2, Places DEF LoadedPc, ReadyPc
<1>5. InQueue \cup InFree \cup Popped \cup UNION {Behind(q) : q \in Filling} = 1 .. fresh
  BY <1>1 DEF PlaceInv
<1> HIDE DEF y
<1>6. y \notin InFree \cup Popped BY <1>1, <1>3 DEF UsedInv
<1>7. CASE y \in InQueue
  <2>1. Listed(nextOf, Chain) BY <1>1 DEF ListInv
  <2>2. y = Last(Chain) BY <1>3, <1>7, <2>1, NullIsLast DEF InQueue
  <2>3. QED BY <1>2, <1>3, <1>4, <1>7, <2>2 DEF y
<1>8. CASE y \notin InQueue
  <2>1. PICK q \in Filling : y \in Behind(q) BY <1>4, <1>5, <1>6, <1>8
  <2>2. q \in Producers BY DEF Filling
  <2>3. q # p BY <1>1, <1>2, <2>1, <2>2 DEF TailInv, y, TypeOK, Tagged
  <2>4. pc[q] # "push_init"
    <3> SUFFICES ASSUME pc[q] = "push_init" PROVE FALSE
      OBVIOUS
    <3>1. y = node[q] BY <2>1, <2>2, Places
    <3>2. nextOf[node[q]].ptr # NULL BY <1>1, <1>2, <2>2, <3>1 DEF UsedInv, LoadedPc, y
    <3>3. QED BY <1>3, <3>1, <3>2
  <2>5. pc[q] \in ReadyPc BY <2>4, Places
  <2>6. Listed(nextOf, Segment(q)) BY <1>1, <2>2, <2>5 DEF ListInv
  <2>7. y = Last(Segment(q)) BY <1>3, <2>1, <2>6, NullIsLast DEF Behind
  <2>8. QED BY <1>2, <1>3, <1>4, <2>1, <2>3, <2>5, <2>7 DEF y
<1>9. QED BY <1>7, <1>8

\* A link moves the push's segment to the list it is linked behind.
LEMMA LinkShape ==
  ASSUME QueueInv, NEW p \in Producers, PushLink(p)
  PROVE  /\ Popped' = Popped /\ InFree' = InFree /\ p \in Filling /\ Filling' = Filling \ {p}
         /\ nextOf'[t[p].ptr].ptr = node[p] /\ node[p] \in Node
         /\ \A x \in Node : x # t[p].ptr => nextOf'[x] = nextOf[x]
         /\ \/ /\ t[p].ptr \in InQueue /\ Chain' = Chain \o Segment(p)
               /\ InQueue' = InQueue \cup Behind(p)
               /\ \A q \in Filling' : Behind(q)' = Behind(q)
            \/ /\ Chain' = Chain /\ InQueue' = InQueue
               /\ \E q \in Filling' :
                    /\ t[p].ptr \in Behind(q) /\ Behind(q)' = Behind(q) \cup Behind(p)
                    /\ \A r \in Filling' : r # q => Behind(r)' = Behind(r)
         /\ ListInv'
<1> DEFINE y == t[p].ptr  u == Segment(p)
<1>1. TypeOK /\ ThreadPc /\ ListInv /\ PlaceInv /\ UsedInv BY DEF QueueInv
<1>2. /\ Goto(p, "push_link", "push_swing")
      /\ nextOf' = [nextOf EXCEPT ![y] = Retagged(n[p], node[p])]
      /\ node' = node /\ free' = free /\ fresh' = fresh /\ head' = head /\ h' = h
  BY DEF PushLink, pool
<1>3. /\ pc[p] = "push_link" /\ pc'[p] = "push_swing"
      /\ \A x \in Thread : x # p => pc'[x] = pc[x]
      /\ Leaving' = Leaving
      /\ "push_swing" \notin FillPc => Filling' = Filling \ {p}
  BY <1>1, <1>2, PushMoves
<1>4. Filling' = Filling \ {p} BY <1>3 DEF FillPc
<1>5. /\ nextOf[y].ptr = NULL /\ y \in Node /\ p \in Filling
      /\ \/ y = Last(Chain) /\ y \in InQueue
         \/ \E q \in Filling : /\ q # p /\ pc[q] \in ReadyPc
                               /\ y = Last(Segment(q)) /\ y \in Behind(q)
  BY LinkTarget
<1>6. node[p] \in Node BY <1>1, <1>3 DEF ThreadPc, FillPc
<1>7. /\ nextOf'[y].ptr = node[p] /\ \A x \in Node : x # y => nextOf'[x] = nextOf[x]
  BY <1>1, <1>2, <1>5 DEF TypeOK, Retagged
<1>8. Listed(nextOf, Chain) /\ Chain[1] = head.ptr BY <1>1 DEF ListInv
<1>9. Listed(nextOf, u) /\ u[1] = node[p]
  BY <1>1, <1>3, <1>5 DEF ListInv, ReadyPc
<1>10. ToSet(u) = Behind(p) BY DEF Behind
<1>11. nextOf \in [Node -> Tagged] BY <1>1 DEF TypeOK
<1> HIDE DEF y, u
<1>12. ASSUME NEW s, Listed(nextOf, s), y \notin ToSet(s)
       PROVE  Listed(nextOf', s) /\ ChainIn(nextOf', s[1]) = s
  <2>1. \A x \in ToSet(s) : nextOf'[x] = nextOf[x] BY <1>7, <1>12, ListParts
  <2>2. Listed(nextOf', s) BY <1>12, <2>1, ListStays
  <2>3. QED BY <2>2, ChainFollows
<1>13. ASSUME NEW s, Listed(nextOf, s), y = Last(s), ToSet(s) \cap Behind(p) = {}
       PROVE  /\ Listed(nextOf', s \o u) /\ ToSet(s \o u) = ToSet(s) \cup Behind(p)
              /\ (s \o u)[1] = s[1] /\ ChainIn(nextOf', s[1]) = s \o u
  <2>1. nextOf'[Last(s)].ptr = u[1] BY <1>7, <1>9, <1>13
  <2>2. \A x \in Node : x # Last(s) => nextOf'[x] = nextOf[x] BY <1>7, <1>13
  <2>3. ToSet(s) \cap ToSet(u) = {} BY <1>10, <1>13
  <2>4. /\ Listed(nextOf', s \o u) /\ ToSet(s \o u) = ToSet(s) \cup ToSet(u)
        /\ (s \o u)[1] = s[1] /\ ChainIn(nextOf', s[1]) = s \o u
    <3>1. LinksBehind(nextOf, nextOf', s, u) BY <1>9, <1>13, <2>1, <2>2, <2>3 DEF LinksBehind
    <3>2. Listed(nextOf', s \o u) BY <3>1, JoinListed
    <3>3. ToSet(s \o u) = ToSet(s) \cup ToSet(u) BY <3>1, JoinListed
    <3>4. (s \o u)[1] = s[1]
      <4>1. s \in Seq(Node) /\ Len(s) \in Nat /\ Len(s) >= 1 BY <1>13, ListParts
      <4>2. u \in Seq(Node) BY <1>9, ListParts
      <4>3. QED BY <4>1, <4>2
    <3>5. ChainIn(nextOf', s[1]) = s \o u BY <3>1, JoinListed
    <3>6. QED BY <3>2, <3>3, <3>4, <3>5
  <2>5. QED BY <1>10, <2>4
<1>14. ASSUME NEW q \in Filling, q # p
       PROVE  /\ q \in Producers /\ pc'[q] = pc[q] /\ node'[q] = node[q]
              /\ pc[q] = "push_init" => Segment(q)' = Segment(q)
              /\ pc[q] \in ReadyPc =>
                    /\ Listed(nextOf, Segment(q)) /\ Segment(q)[1] = node[q]
                    /\ Segment(q)' = ChainIn(nextOf', Segment(q)[1])
  <2>1. q \in Producers /\ pc'[q] = pc[q] /\ node'[q] = node[q]
    BY <1>2, <1>3, <1>14 DEF Filling, Thread
  <2>2. pc[q] = "push_init" => Segment(q)' = Segment(q) BY <2>1 DEF Segment
  <2>3. ASSUME pc[q] \in ReadyPc
        PROVE  /\ Listed(nextOf, Segment(q)) /\ Segment(q)[1] = node[q]
               /\ Segment(q)' = ChainIn(nextOf', Segment(q)[1])
    <3>1. Listed(nextOf, Segment(q)) /\ Segment(q)[1] = node[q]
      BY <1>1, <1>14, <2>1, <2>3 DEF ListInv
    <3>2. pc'[q] # "push_init" BY <2>1, <2>3 DEF ReadyPc
    <3>3. Segment(q)' = ChainIn(nextOf', node[q]) BY <2>1, <3>2 DEF Segment
    <3>4. QED BY <3>1, <3>3
  <2>4. QED BY <2>1, <2>2, <2>3
<1>15. ASSUME NEW q \in Filling, q # p, y \notin Behind(q)
       PROVE  /\ Segment(q)' = Segment(q) /\ Behind(q)' = Behind(q)
              /\ Segment(q)'[1] = node'[q]
              /\ pc'[q] \in ReadyPc => Listed(nextOf', Segment(q)')
  <2>1. Segment(q)' = Segment(q) /\ (pc'[q] \in ReadyPc => Listed(nextOf', Segment(q)'))
    <3>1. CASE pc[q] = "push_init" BY <1>14, <1>15, <3>1 DEF ReadyPc
    <3>2. CASE pc[q] \in ReadyPc
      <4>1. y \notin ToSet(Segment(q)) BY <1>15 DEF Behind
      <4>2. /\ Listed(nextOf, Segment(q))
            /\ Segment(q)' = ChainIn(nextOf', Segment(q)[1])
        BY <1>14, <1>15, <3>2
      <4>3. QED BY <1>12, <4>1, <4>2
    <3>3. QED BY <1>15, <3>1, <3>2, Places
  <2>2. Behind(q)' = Behind(q) BY <2>1 DEF Behind
  <2>3. Segment(q)[1] = node[q] BY <1>1, <1>15 DEF ListInv
  <2>4. QED BY <1>14, <1>15, <2>1, <2>2, <2>3
<1>16. Popped' = Popped BY <1>2, <1>3 DEF Popped
<1>17. InFree' = InFree BY <1>2 DEF InFree
<1>18. \A q \in Filling : Behind(q) \cap InQueue = {} BY <1>1 DEF PlaceInv
<1>19. \A q, r \in Filling : q # r => Behind(q) \cap Behind(r) = {} BY <1>1 DEF PlaceInv
<1>20. Chain' = ChainIn(nextOf', Chain[1]) BY <1>2, <1>8 DEF Chain
<1>21. \A q \in Producers : pc'[q] \in ReadyPc => q \in Filling /\ q # p
  <2> SUFFICES ASSUME NEW q \in Producers, pc'[q] \in ReadyPc PROVE q \in Filling /\ q # p
    OBVIOUS
  <2>1. q # p BY <1>3 DEF ReadyPc
  <2>2. pc[q] = pc'[q] BY <1>3, <2>1 DEF Thread
  <2>3. QED BY <2>1, <2>2, Places
<1>22. CASE y = Last(Chain) /\ y \in InQueue
  <2>1. \A q \in Filling : q # p => y \notin Behind(q) BY <1>18, <1>22
  <2>2. ToSet(Chain) \cap Behind(p) = {} BY <1>5, <1>18 DEF InQueue
  <2>3. /\ Listed(nextOf', Chain \o u) /\ ToSet(Chain \o u) = InQueue \cup Behind(p)
        /\ (Chain \o u)[1] = Chain[1] /\ ChainIn(nextOf', Chain[1]) = Chain \o u
    BY <1>8, <1>13, <1>22, <2>2 DEF InQueue
  <2>4. Chain' = Chain \o u BY <1>20, <2>3
  <2>5. InQueue' = InQueue \cup Behind(p) BY <2>3, <2>4 DEF InQueue
  <2>6. \A q \in Filling' : Behind(q)' = Behind(q) BY <1>4, <1>15, <2>1
  <2>7. ListInv'
    <3>1. Listed(nextOf, Chain)' /\ Chain'[1] = head'.ptr BY <1>2, <1>8, <2>3, <2>4
    <3>2. \A q \in Filling' : Segment(q)'[1] = node'[q] BY <1>4, <1>15, <2>1
    <3>3. \A q \in Producers : pc'[q] \in ReadyPc => Listed(nextOf, Segment(q))'
      BY <1>15, <1>21, <2>1
    <3>4. QED BY <3>1, <3>2, <3>3 DEF ListInv
  <2>8. QED BY <1>4, <1>5, <1>6, <1>7, <1>16, <1>17, <1>22, <2>4, <2>5, <2>6, <2>7 DEF y, u
<1>23. ASSUME NEW q \in Filling, q # p, pc[q] \in ReadyPc, y = Last(Segment(q)), y \in Behind(q)
       PROVE  /\ Chain' = Chain /\ InQueue' = InQueue
              /\ q \in Filling' /\ Behind(q)' = Behind(q) \cup Behind(p)
              /\ \A r \in Filling' : r # q => Behind(r)' = Behind(r)
              /\ ListInv'
  <2>1. \A r \in Filling : r # q => y \notin Behind(r) BY <1>19, <1>23
  <2>2. y \notin ToSet(Chain) BY <1>18, <1>23 DEF InQueue
  <2>3. Listed(nextOf', Chain) /\ Chain' = Chain BY <1>8, <1>12, <1>20, <2>2
  <2>4. InQueue' = InQueue BY <2>3 DEF InQueue
  <2>5. ToSet(Segment(q)) \cap Behind(p) = {} BY <1>5, <1>19, <1>23 DEF Behind
  <2>6. /\ Listed(nextOf, Segment(q)) /\ Segment(q)[1] = node[q] /\ node'[q] = node[q]
        /\ Segment(q)' = ChainIn(nextOf', Segment(q)[1])
    BY <1>14, <1>23
  <2>7. /\ Listed(nextOf', Segment(q) \o u)
        /\ ToSet(Segment(q) \o u) = Behind(q) \cup Behind(p)
        /\ (Segment(q) \o u)[1] = node'[q] /\ Segment(q)' = Segment(q) \o u
    BY <1>13, <1>23, <2>5, <2>6 DEF Behind
  <2>8. Behind(q)' = Behind(q) \cup Behind(p) BY <2>7 DEF Behind
  <2>9. \A r \in Filling' : r # q => Behind(r)' = Behind(r) BY <1>4, <1>15, <2>1
  <2>10. ListInv'
    <3>1. Listed(nextOf, Chain)' /\ Chain'[1] = head'.ptr BY <1>2, <1>8, <2>3
    <3>2. \A r \in Filling' : Segment(r)'[1] = node'[r] BY <1>4, <1>15, <2>1, <2>7
    <3>3. \A r \in Producers : pc'[r] \in ReadyPc => Listed(nextOf, Segment(r))'
      BY <1>15, <1>21, <2>1, <2>7
    <3>4. QED BY <3>1, <3>2, <3>3 DEF ListInv
  <2>11. q \in Filling' BY <1>4, <1>23
  <2>12. QED BY <2>3, <2>4, <2>8, <2>9, <2>10, <2>11
<1>24. CASE \E q \in Filling : /\ q # p /\ pc[q] \in ReadyPc
                               /\ y = Last(Segment(q)) /\ y \in Behind(q)
  BY <1>4, <1>5, <1>6, <1>7, <1>16, <1>17, <1>23, <1>24 DEF y, u
<1>25. QED BY <1>5, <1>22, <1>24

\* A link puts one more node with a value in the queue or behind another push's node.
LEMMA LinkPlaces ==
  ASSUME QueueInv, NEW p \in Producers, PushLink(p)
  PROVE  /\ PlaceInv' /\ LinkedNodes' = LinkedNodes \cup {node[p]}
         /\ node[p] \notin LinkedNodes
         /\ \A x \in InFree' \cup Popped' : nextOf'[x].ptr # NULL
<1>1. TypeOK /\ ThreadPc /\ ListInv /\ PlaceInv /\ UsedInv BY DEF QueueInv
<1>2. /\ Popped' = Popped /\ InFree' = InFree /\ p \in Filling /\ Filling' = Filling \ {p}
      /\ nextOf'[t[p].ptr].ptr = node[p] /\ node[p] \in Node
      /\ \A x \in Node : x # t[p].ptr => nextOf'[x] = nextOf[x]
      /\ \/ /\ InQueue' = InQueue \cup Behind(p)
            /\ \A q \in Filling' : Behind(q)' = Behind(q)
         \/ /\ InQueue' = InQueue
            /\ \E q \in Filling' :
                 /\ Behind(q)' = Behind(q) \cup Behind(p)
                 /\ \A r \in Filling' : r # q => Behind(r)' = Behind(r)
  BY LinkShape
<1>3. /\ free' = free /\ fresh' = fresh /\ head' = head /\ node' = node
  BY DEF PushLink, pool
<1>4. \A q \in Filling : node[q] \in Behind(q) /\ head.ptr \in InQueue BY Places
<1>5. \A q \in Filling : Behind(q) \cap (InQueue \cup InFree) = {} /\ Behind(q) \cap Popped = {}
  BY <1>1 DEF PlaceInv
<1>6. InQueue \cap InFree = {} /\ Popped \cap (InQueue \cup InFree) = {} /\ IsInjective(free)
  BY <1>1 DEF PlaceInv
<1>7. \A q, r \in Filling : q # r => Behind(q) \cap Behind(r) = {} BY <1>1 DEF PlaceInv
<1>8. InQueue \cup InFree \cup Popped \cup UNION {Behind(q) : q \in Filling} = 1 .. fresh
  BY <1>1 DEF PlaceInv
<1>9. node[p] # NULL BY <1>2, QueueAssumption
<1>10. \A x \in InFree' \cup Popped' : nextOf'[x].ptr # NULL
  <2>1. \A x \in InFree \cup Popped : x \in Node /\ nextOf[x].ptr # NULL
    BY <1>1, Places DEF UsedInv
  <2>2. QED BY <1>2, <1>9, <2>1
<1>11. node[p] \notin LinkedNodes
  <2>1. node[p] \notin InQueue BY <1>2, <1>4, <1>5
  <2>2. \A q \in Filling : node[p] \notin Behind(q) \ {node[q]} BY <1>2, <1>4, <1>7
  <2>3. QED BY <2>1, <2>2 DEF LinkedNodes
<1>12. CASE /\ InQueue' = InQueue \cup Behind(p)
            /\ \A q \in Filling' : Behind(q)' = Behind(q)
  <2>1. \A q \in Filling' : Behind(q)' \cap (InQueue' \cup InFree') = {}
    BY <1>2, <1>5, <1>7, <1>12
  <2>2. \A q, r \in Filling' : q # r => Behind(q)' \cap Behind(r)' = {}
    BY <1>2, <1>7, <1>12
  <2>3. InQueue' \cap InFree' = {} /\ Popped' \cap (InQueue' \cup InFree') = {}
    BY <1>2, <1>5, <1>6, <1>12
  <2>4. \A q \in Filling' : Behind(q)' \cap Popped' = {} BY <1>2, <1>5, <1>12
  <2>5. InQueue' \cup InFree' \cup Popped' \cup UNION {Behind(q)' : q \in Filling'} = 1 .. fresh'
    <3>1. UNION {Behind(q) : q \in Filling}
            = (UNION {Behind(q)' : q \in Filling'}) \cup Behind(p)
      BY <1>2, <1>12
    <3>2. QED BY <1>2, <1>3, <1>8, <1>12, <3>1
  <2>6. PlaceInv' BY <1>3, <1>6, <2>1, <2>2, <2>3, <2>4, <2>5 DEF PlaceInv
  <2>7. LinkedNodes' = LinkedNodes \cup {node[p]}
    <3>1. UNION {Behind(q) \ {node[q]} : q \in Filling}
            = (UNION {Behind(q)' \ {node'[q]} : q \in Filling'}) \cup (Behind(p) \ {node[p]})
      BY <1>2, <1>3, <1>12
    <3>2. InQueue' \ {head.ptr} = (InQueue \ {head.ptr}) \cup Behind(p)
      BY <1>2, <1>4, <1>5, <1>12
    <3>3. LinkedNodes' = (InQueue' \ {head.ptr})
                           \cup UNION {Behind(q)' \ {node'[q]} : q \in Filling'}
      BY <1>3 DEF LinkedNodes
    <3>4. LinkedNodes = (InQueue \ {head.ptr}) \cup UNION {Behind(q) \ {node[q]} : q \in Filling}
      BY DEF LinkedNodes
    <3>5. Behind(p) = (Behind(p) \ {node[p]}) \cup {node[p]} BY <1>2, <1>4
    <3>6. QED BY <3>1, <3>2, <3>3, <3>4, <3>5
  <2>8. QED BY <1>10, <1>11, <2>6, <2>7
<1>13. ASSUME InQueue' = InQueue, NEW q \in Filling', Behind(q)' = Behind(q) \cup Behind(p),
              \A r \in Filling' : r # q => Behind(r)' = Behind(r)
       PROVE  PlaceInv' /\ LinkedNodes' = LinkedNodes \cup {node[p]}
  <2>1. \A r \in Filling' : Behind(r)' \cap (InQueue' \cup InFree') = {}
    BY <1>2, <1>5, <1>13
  <2>2. \A r, s \in Filling' : r # s => Behind(r)' \cap Behind(s)' = {}
    BY <1>2, <1>7, <1>13
  <2>3. InQueue' \cap InFree' = {} /\ Popped' \cap (InQueue' \cup InFree') = {}
    BY <1>2, <1>6, <1>13
  <2>4. \A r \in Filling' : Behind(r)' \cap Popped' = {} BY <1>2, <1>5, <1>13
  <2>5. InQueue' \cup InFree' \cup Popped' \cup UNION {Behind(r)' : r \in Filling'} = 1 .. fresh'
    <3>1. UNION {Behind(r) : r \in Filling} = UNION {Behind(r)' : r \in Filling'}
      BY <1>2, <1>13
    <3>2. QED BY <1>2, <1>3, <1>8, <1>13, <3>1
  <2>6. PlaceInv' BY <1>3, <1>6, <2>1, <2>2, <2>3, <2>4, <2>5 DEF PlaceInv
  <2>7. LinkedNodes' = LinkedNodes \cup {node[p]}
    <3>1. Behind(p) = (Behind(p) \ {node[p]}) \cup {node[p]} BY <1>2, <1>4
    <3>2. q \in Filling /\ q # p BY <1>2, <1>13
    <3>3. node[q] \notin Behind(p) BY <1>2, <1>4, <1>7, <3>2
    <3>4. Behind(q)' \ {node'[q]} = (Behind(q) \ {node[q]}) \cup Behind(p)
      BY <1>3, <1>13, <3>3
    <3>5. UNION {Behind(r)' \ {node'[r]} : r \in Filling'}
            = (UNION {Behind(r) \ {node[r]} : r \in Filling}) \cup {node[p]}
      BY <1>2, <1>3, <1>13, <3>1, <3>2, <3>4
    <3>6. LinkedNodes' = (InQueue \ {head.ptr})
                           \cup UNION {Behind(r)' \ {node'[r]} : r \in Filling'}
      BY <1>3, <1>13 DEF LinkedNodes
    <3>7. LinkedNodes = (InQueue \ {head.ptr}) \cup UNION {Behind(r) \ {node[r]} : r \in Filling}
      BY DEF LinkedNodes
    <3>8. QED BY <3>5, <3>6, <3>7
  <2>8. QED BY <2>6, <2>7
<1>14. QED BY <1>2, <1>10, <1>11, <1>12, <1>13

\* A pop makes the second node of the queue the dummy, and the first one popped.
LEMMA SwingShape ==
  ASSUME QueueInv, OneConsumer, NEW c \in Consumers, PopSwing(c)
  PROVE  /\ Chain' = Tail(Chain) /\ InQueue' = InQueue \ {head.ptr} /\ InFree' = InFree
         /\ head'.ptr = nextOf[head.ptr].ptr /\ head'.ptr = n[c].ptr
         /\ head'.ptr \in InQueue /\ head'.ptr # head.ptr
         /\ Popped = {} /\ Popped' = {head.ptr} /\ Filling' = Filling
         /\ \A q \in Filling : Behind(q)' = Behind(q)
         /\ LinkedNodes' = LinkedNodes \ {head'.ptr} /\ head'.ptr \in LinkedNodes
         /\ ListInv' /\ PlaceInv'
         /\ \A x \in InFree' \cup Popped' : nextOf'[x].ptr # NULL
<1>1. TypeOK /\ ThreadPc /\ ListInv /\ PlaceInv /\ UsedInv /\ PopInv BY DEF QueueInv
<1>2. /\ Goto(c, "pop_swing", "pop_copy") /\ head = h[c] /\ head' = Retagged(h[c], n[c].ptr)
      /\ nextOf' = nextOf /\ node' = node /\ free' = free /\ fresh' = fresh /\ h' = h
  BY DEF PopSwing, pool
<1>3. /\ pc[c] = "pop_swing" /\ pc'[c] = "pop_copy"
      /\ \A x \in Thread : x # c => pc'[x] = pc[x]
      /\ \A p \in Producers : p # c /\ pc'[p] = pc[p]
      /\ Filling' = Filling
      /\ Leaving' = Leaving \cup {c}
  BY <1>1, <1>2, PopMoves
<1>4. head'.ptr = n[c].ptr /\ n[c].ptr # NULL /\ n[c].ptr = nextOf[head.ptr].ptr
  BY <1>1, <1>2, <1>3 DEF PopInv, Retagged
<1>5. Listed(nextOf, Chain) /\ Chain[1] = head.ptr BY <1>1 DEF ListInv
<1>6. /\ Listed(nextOf, Tail(Chain)) /\ Tail(Chain)[1] = head'.ptr
      /\ ToSet(Tail(Chain)) = InQueue \ {head.ptr}
      /\ ChainIn(nextOf, head'.ptr) = Tail(Chain)
  <2>1. nextOf[Chain[1]].ptr # NULL /\ nextOf[Chain[1]].ptr = head'.ptr BY <1>4, <1>5
  <2>2. Listed(nextOf, Tail(Chain)) BY <1>5, <2>1, RestListed
  <2>3. ToSet(Tail(Chain)) = InQueue \ {head.ptr} BY <1>5, <2>1, RestListed DEF InQueue
  <2>4. ChainIn(nextOf, head'.ptr) = Tail(Chain) BY <1>5, <2>1, RestListed
  <2>5. Tail(Chain)[1] = head'.ptr
    <3>1. Chain \in Seq(Node) /\ Chain # << >> /\ Len(Chain) \in Nat BY <1>5, ListParts DEF Listed
    <3>2. Tail(Chain) \in Seq(Node) /\ Tail(Chain) # << >> BY <2>2 DEF Listed
    <3>3. 1 \in 1 .. Len(Chain) - 1 BY <3>1, <3>2
    <3>4. nextOf[Chain[1]].ptr = Chain[1 + 1] BY <1>5, <3>3 DEF Listed
    <3>5. Tail(Chain)[1] = Chain[1 + 1] BY <3>1, <3>3
    <3>6. QED BY <2>1, <3>4, <3>5
  <2>6. QED BY <2>2, <2>3, <2>4, <2>5
<1>7. Chain' = Tail(Chain) BY <1>2, <1>6 DEF Chain
<1>8. InQueue' = InQueue \ {head.ptr} BY <1>6, <1>7 DEF InQueue
<1>9. head.ptr \in InQueue BY Places
<1>10. head'.ptr \in InQueue /\ head'.ptr # head.ptr
  BY <1>4, <1>5, <1>9, NextInList DEF InQueue
<1>11. Leaving = {} /\ Leaving' = {c}
  <2>1. \A d \in Consumers : d = c BY DEF OneConsumer
  <2>2. Leaving = {} BY <1>3, <2>1 DEF Leaving
  <2>3. QED BY <1>3, <2>2
<1>12. Popped = {} /\ Popped' = {head.ptr} BY <1>2, <1>11 DEF Popped
<1>13. InFree' = InFree BY <1>2 DEF InFree
<1>14. ASSUME NEW q \in Filling PROVE Segment(q)' = Segment(q) /\ Behind(q)' = Behind(q)
  <2>1. q \in Producers /\ pc'[q] = pc[q] BY <1>3 DEF Filling
  <2>2. Segment(q)' = Segment(q) BY <1>2, <2>1 DEF Segment
  <2>3. QED BY <2>2 DEF Behind
<1>15. LinkedNodes' = LinkedNodes \ {head'.ptr} /\ head'.ptr \in LinkedNodes
  <2>1. {Behind(q)' \ {node'[q]} : q \in Filling'} = {Behind(q) \ {node[q]} : q \in Filling}
    BY <1>2, <1>3, <1>14
  <2>2. LinkedNodes' = (InQueue' \ {head'.ptr}) \cup UNION {Behind(q) \ {node[q]} : q \in Filling}
    BY <2>1 DEF LinkedNodes
  <2>3. LinkedNodes = (InQueue \ {head.ptr}) \cup UNION {Behind(q) \ {node[q]} : q \in Filling}
    BY DEF LinkedNodes
  <2>4. head'.ptr \notin UNION {Behind(q) \ {node[q]} : q \in Filling}
    <3>1. \A q \in Filling : head'.ptr \notin Behind(q) BY <1>1, <1>10 DEF PlaceInv
    <3>2. QED BY <3>1
  <2>5. QED BY <1>8, <1>10, <2>2, <2>3, <2>4
<1>16. ListInv'
  <2>1. Listed(nextOf, Chain)' /\ Chain'[1] = head'.ptr BY <1>2, <1>6, <1>7
  <2>2. \A q \in Filling' : Segment(q)'[1] = node'[q] BY <1>1, <1>2, <1>3, <1>14 DEF ListInv
  <2>3. ASSUME NEW q \in Producers, pc'[q] \in ReadyPc
        PROVE  Listed(nextOf, Segment(q))'
    <3>1. pc[q] \in ReadyPc BY <1>3, <2>3
    <3>2. Listed(nextOf, Segment(q)) /\ q \in Filling BY <1>1, <3>1, Places DEF ListInv
    <3>3. QED BY <1>2, <1>14, <3>2
  <2>4. QED BY <2>1, <2>2, <2>3 DEF ListInv
<1>17. PlaceInv'
  <2>1. {Behind(q)' : q \in Filling'} = {Behind(q) : q \in Filling} BY <1>3, <1>14
  <2>2. \A q \in Filling : Behind(q) \cap (InQueue \cup InFree) = {}
    BY <1>1 DEF PlaceInv
  <2>3. InQueue \cap InFree = {} /\ IsInjective(free) BY <1>1 DEF PlaceInv
  <2>4. InQueue \cup InFree \cup Popped \cup UNION {Behind(q) : q \in Filling} = 1 .. fresh
    BY <1>1 DEF PlaceInv
  <2>5. InQueue' \cup InFree' \cup Popped' \cup UNION {Behind(q)' : q \in Filling'} = 1 .. fresh'
    BY <1>2, <1>8, <1>9, <1>12, <1>13, <2>1, <2>4
  <2>6. \A q \in Filling' : Behind(q)' \cap (InQueue' \cup InFree') = {}
    BY <1>3, <1>8, <1>13, <1>14, <2>2
  <2>7. \A q, r \in Filling' : q # r => Behind(q)' \cap Behind(r)' = {}
    BY <1>1, <1>3, <1>14 DEF PlaceInv
  <2>8. InQueue' \cap InFree' = {} /\ Popped' \cap (InQueue' \cup InFree') = {}
    BY <1>8, <1>9, <1>12, <1>13, <2>3
  <2>9. \A q \in Filling' : Behind(q)' \cap Popped' = {}
    BY <1>3, <1>9, <1>12, <1>14, <2>2
  <2>10. IsInjective(free)' BY <1>2, <2>3
  <2>11. QED BY <2>5, <2>6, <2>7, <2>8, <2>9, <2>10 DEF PlaceInv
<1>18. \A x \in InFree' \cup Popped' : nextOf'[x].ptr # NULL
  <2>1. \A x \in InFree : nextOf[x].ptr # NULL BY <1>1 DEF UsedInv
  <2>2. QED BY <1>2, <1>4, <1>12, <1>13, <2>1
<1>19. QED BY <1>3, <1>4, <1>7, <1>8, <1>10, <1>12, <1>13, <1>14, <1>15, <1>16, <1>17, <1>18

\* The popped node goes to the top of the free stack.
LEMMA ReturnShape ==
  ASSUME QueueInv, OneConsumer, NEW c \in Consumers, PopReturn(c)
  PROVE  /\ InQueue' = InQueue /\ Popped = {h[c].ptr} /\ Popped' = {}
         /\ h[c].ptr \in Node /\ InFree' = InFree \cup {h[c].ptr}
         /\ free' \in Seq(Node) /\ Filling' = Filling
         /\ \A q \in Filling : Behind(q)' = Behind(q)
         /\ LinkedNodes' = LinkedNodes /\ ListInv' /\ PlaceInv'
         /\ \A x \in InFree' \cup Popped' : nextOf'[x].ptr # NULL
<1> DEFINE x == h[c].ptr
<1>1. TypeOK /\ ThreadPc /\ ListInv /\ PlaceInv /\ UsedInv BY DEF QueueInv
<1>2. /\ Goto(c, "pop_return", "pop_size") /\ free' = <<x>> \o free
      /\ nextOf' = nextOf /\ node' = node /\ head' = head /\ fresh' = fresh
  BY DEF PopReturn, qvars
<1>3. /\ pc[c] = "pop_return" /\ pc'[c] = "pop_size"
      /\ \A p \in Producers : p # c /\ pc'[p] = pc[p]
      /\ Filling' = Filling
      /\ Leaving' = Leaving \ {c}
  BY <1>1, <1>2, PopMoves
<1>4. Leaving = {c} /\ Leaving' = {}
  <2>1. \A d \in Consumers : d = c BY DEF OneConsumer
  <2>2. Leaving = {c} BY <1>3, <2>1 DEF Leaving
  <2>3. QED BY <1>3, <2>2
<1>5. Popped = {x} /\ Popped' = {} BY <1>4 DEF Popped
<1>6. x \in Node BY <1>5, Places
<1>7. free \in Seq(Node) BY <1>1 DEF TypeOK
<1> HIDE DEF x
<1>8. /\ free' \in Seq(Node) /\ Len(free') = Len(free) + 1 /\ free'[1] = x
      /\ \A i \in 2 .. Len(free) + 1 : free'[i] = free[i - 1]
  BY <1>2, <1>6, <1>7
<1>9. Len(free) \in Nat BY <1>7
<1>10. InFree = {free[i] : i \in 1 .. Len(free)} BY <1>7 DEF InFree, ToSet
<1>11. x \notin InFree BY <1>1, <1>5 DEF PlaceInv
<1>12. InFree' = InFree \cup {x}
  <2>1. InFree' = {free'[i] : i \in 1 .. Len(free) + 1} BY <1>8 DEF InFree, ToSet
  <2>2. ASSUME NEW i \in 1 .. Len(free) + 1 PROVE free'[i] \in InFree \cup {x}
    <3>1. i = 1 \/ (i \in 2 .. Len(free) + 1 /\ i - 1 \in 1 .. Len(free)) BY <1>9
    <3>2. QED BY <1>8, <1>10, <3>1
  <2>3. ASSUME NEW i \in 1 .. Len(free) PROVE free[i] \in InFree'
    <3>1. i + 1 \in 2 .. Len(free) + 1 /\ i + 1 \in 1 .. Len(free) + 1 /\ (i + 1) - 1 = i
      BY <1>9
    <3>2. free'[i + 1] = free[i] BY <1>8, <3>1
    <3>3. QED BY <2>1, <3>1, <3>2
  <2>4. x \in InFree'
    <3>1. 1 \in 1 .. Len(free) + 1 BY <1>9
    <3>2. QED BY <1>8, <2>1, <3>1
  <2>5. QED BY <1>10, <2>1, <2>2, <2>3, <2>4
<1>13. IsInjective(free')
  <2>1. \A i, j \in 1 .. Len(free) : free[i] = free[j] => i = j
    BY <1>1, <1>7 DEF PlaceInv, IsInjective
  <2>2. ASSUME NEW i \in 1 .. Len(free) + 1, NEW j \in 1 .. Len(free) + 1, free'[i] = free'[j]
        PROVE  i = j
    <3>1. \A k \in 1 .. Len(free) + 1 :
            k = 1 \/ (k \in 2 .. Len(free) + 1 /\ k - 1 \in 1 .. Len(free))
      BY <1>9
    <3>2. \A k \in 1 .. Len(free) : free[k] # x BY <1>10, <1>11
    <3>3. CASE i = 1 BY <1>8, <2>2, <3>1, <3>2, <3>3
    <3>4. CASE j = 1 BY <1>8, <2>2, <3>1, <3>2, <3>4
    <3>5. CASE i # 1 /\ j # 1
      <4>1. /\ i - 1 \in 1 .. Len(free) /\ j - 1 \in 1 .. Len(free)
            /\ free[i - 1] = free[j - 1]
        BY <1>8, <2>2, <3>1, <3>5
      <4>2. i - 1 = j - 1 BY <2>1, <4>1
      <4>3. QED BY <4>2
    <3>6. QED BY <3>3, <3>4, <3>5
  <2>3. DOMAIN free' = 1 .. Len(free) + 1 BY <1>8
  <2>4. QED BY <2>2, <2>3 DEF IsInjective
<1>14. Chain' = Chain BY <1>2 DEF Chain
<1>15. InQueue' = InQueue BY <1>14 DEF InQueue
<1>16. ASSUME NEW q \in Filling PROVE Segment(q)' = Segment(q) /\ Behind(q)' = Behind(q)
  <2>1. q \in Producers /\ pc'[q] = pc[q] BY <1>3 DEF Filling
  <2>2. Segment(q)' = Segment(q) BY <1>2, <2>1 DEF Segment
  <2>3. QED BY <2>2 DEF Behind
<1>17. LinkedNodes' = LinkedNodes
  <2>1. {Behind(q)' \ {node'[q]} : q \in Filling'} = {Behind(q) \ {node[q]} : q \in Filling}
    BY <1>2, <1>3, <1>16
  <2>2. QED BY <1>2, <1>15, <2>1 DEF LinkedNodes
<1>18. ListInv'
  <2>1. Listed(nextOf, Chain)' /\ Chain'[1] = head'.ptr BY <1>1, <1>2, <1>14 DEF ListInv
  <2>2. \A q \in Filling' : Segment(q)'[1] = node'[q] BY <1>1, <1>2, <1>3, <1>16 DEF ListInv
  <2>3. ASSUME NEW q \in Producers, pc'[q] \in ReadyPc
        PROVE  Listed(nextOf, Segment(q))'
    <3>1. pc[q] \in ReadyPc BY <1>3, <2>3
    <3>2. Listed(nextOf, Segment(q)) /\ q \in Filling BY <1>1, <3>1, Places DEF ListInv
    <3>3. QED BY <1>2, <1>16, <3>2
  <2>4. QED BY <2>1, <2>2, <2>3 DEF ListInv
<1>19. PlaceInv'
  <2>1. {Behind(q)' : q \in Filling'} = {Behind(q) : q \in Filling} BY <1>3, <1>16
  <2>2. /\ \A q \in Filling : Behind(q) \cap (InQueue \cup InFree) = {} /\ Behind(q) \cap Popped = {}
        /\ InQueue \cap InFree = {} /\ Popped \cap (InQueue \cup InFree) = {}
    BY <1>1 DEF PlaceInv
  <2>3. InQueue \cup InFree \cup Popped \cup UNION {Behind(q) : q \in Filling} = 1 .. fresh
    BY <1>1 DEF PlaceInv
  <2>4. InQueue' \cup InFree' \cup Popped' \cup UNION {Behind(q)' : q \in Filling'} = 1 .. fresh'
    BY <1>2, <1>5, <1>12, <1>15, <2>1, <2>3
  <2>5. \A q \in Filling' : Behind(q)' \cap (InQueue' \cup InFree') = {}
    BY <1>3, <1>5, <1>12, <1>15, <1>16, <2>2
  <2>6. \A q, r \in Filling' : q # r => Behind(q)' \cap Behind(r)' = {}
    BY <1>1, <1>3, <1>16 DEF PlaceInv
  <2>7. InQueue' \cap InFree' = {} BY <1>5, <1>12, <1>15, <2>2
  <2>8. QED BY <1>5, <1>13, <2>4, <2>5, <2>6, <2>7 DEF PlaceInv
<1>20. \A y \in InFree' \cup Popped' : nextOf'[y].ptr # NULL
  BY <1>1, <1>2, <1>5, <1>12 DEF UsedInv
<1>21. QED BY <1>3, <1>5, <1>6, <1>8, <1>12, <1>15, <1>16, <1>17, <1>18, <1>19, <1>20 DEF x

\* Between operations no node is being filled and none is popped.
LEMMA IdleShape ==
  ASSUME Idle
  PROVE  /\ Filling = {} /\ Leaving = {} /\ Popped = {} /\ LinkedNodes = InQueue \ {head.ptr}
         /\ Uncounted = {} /\ Unsubtracted = {}
<1>1. \A y \in Producers \cup Consumers : pc[y] = "idle" BY DEF Idle, Thread
<1>2. Filling = {} BY <1>1 DEF Filling, FillPc
<1>3. Leaving = {} BY <1>1 DEF Leaving
<1>4. Uncounted = {} /\ Unsubtracted = {} BY <1>1 DEF Uncounted, Unsubtracted
<1>5. Popped = {} BY <1>3 DEF Popped
<1>6. LinkedNodes = InQueue \ {head.ptr} BY <1>2 DEF LinkedNodes
<1>7. QED BY <1>2, <1>3, <1>4, <1>5, <1>6

\* Clear leaves the queue with the dummy.
LEMMA ClearShape ==
  ASSUME QueueInv, Clear
  PROVE  /\ Idle /\ Idle' /\ Chain' = <<1>> /\ InQueue' = {1} /\ InFree' = {} /\ 1 \in Node
         /\ Popped' = {} /\ Filling' = {} /\ Uncounted' = {} /\ Unsubtracted' = {}
         /\ LinkedNodes' = {} /\ ListInv' /\ PlaceInv'
<1>1. TypeOK BY DEF QueueInv
<1>2. /\ Idle /\ pc' = pc /\ nextOf' = [nextOf EXCEPT ![1] = Null] /\ free' = << >>
      /\ fresh' = 1 /\ head'.ptr = 1
  BY DEF Clear
<1>3. Idle' BY <1>2 DEF Idle
<1>4. 1 \in Node BY QueueAssumption DEF Node
<1>5. nextOf'[1].ptr = NULL BY <1>1, <1>2, <1>4 DEF TypeOK, Null
<1>6. Listed(nextOf', <<1>>) /\ ToSet(<<1>>) = {1} /\ ChainIn(nextOf', 1) = <<1>>
  BY <1>4, <1>5, OneListed
<1>7. Chain' = <<1>> BY <1>2, <1>6 DEF Chain
<1>8. InQueue' = {1} BY <1>6, <1>7 DEF InQueue
<1>9. InFree' = {} BY <1>2 DEF InFree, ToSet
<1>10. /\ Filling' = {} /\ Popped' = {} /\ LinkedNodes' = InQueue' \ {head'.ptr}
       /\ Uncounted' = {} /\ Unsubtracted' = {}
  <2>1. \A y \in Producers \cup Consumers : pc'[y] = "idle" BY <1>3 DEF Idle, Thread
  <2>2. Filling' = {} BY <2>1 DEF Filling, FillPc
  <2>3. Leaving' = {} BY <2>1 DEF Leaving
  <2>4. Uncounted' = {} /\ Unsubtracted' = {} BY <2>1 DEF Uncounted, Unsubtracted
  <2>5. QED BY <2>2, <2>3, <2>4 DEF Popped, LinkedNodes
<1>11. LinkedNodes' = {} BY <1>2, <1>8, <1>10
<1>12. ListInv'
  <2>1. <<1>>[1] = 1 OBVIOUS
  <2>2. Listed(nextOf, Chain)' /\ Chain'[1] = head'.ptr BY <1>2, <1>6, <1>7, <2>1
  <2>3. \A q \in Producers : pc'[q] \notin ReadyPc BY <1>3 DEF Idle, Thread, ReadyPc
  <2>4. QED BY <1>10, <2>2, <2>3 DEF ListInv
<1>13. PlaceInv'
  <2>1. IsInjective(<< >>)
    <3>1. DOMAIN << >> = {} OBVIOUS
    <3>2. QED BY <3>1 DEF IsInjective
  <2>2. 1 .. fresh' = {1} BY <1>2
  <2>3. UNION {Behind(q)' : q \in Filling'} = {} BY <1>10
  <2>4. QED BY <1>2, <1>8, <1>9, <1>10, <2>1, <2>2, <2>3 DEF PlaceInv
<1>14. QED BY <1>2, <1>3, <1>4, <1>7, <1>8, <1>9, <1>10, <1>11, <1>12, <1>13

-------------------------------------------------------------------------------
(* Every step keeps the invariant, one conjunct at a time.                 *)

\* Every step keeps lists lists and nodes in one place, and a node off the queue
\* keeps a next pointer.
LEMMA ShapeStep ==
  ASSUME QueueInv, OneConsumer, Next
  PROVE  /\ ListInv' /\ PlaceInv' /\ \A x \in InFree' \cup Popped' : nextOf'[x].ptr # NULL
<1>1. TypeOK /\ ThreadPc BY DEF QueueInv
<1>2. ASSUME NEW p \in Producers, Push(p)
      PROVE  /\ ListInv' /\ PlaceInv' /\ \A x \in InFree' \cup Popped' : nextOf'[x].ptr # NULL
  <2>1. CASE QuietPush(p) BY <1>1, <2>1, QuietPushShape, ShapeInvKept
  <2>2. CASE PushTake(p) /\ free # << >> BY <2>2, TakeShape
  <2>3. CASE PushFresh(p) BY <2>3, FreshShape
  <2>4. CASE PushInit(p) BY <2>4, InitShape
  <2>5. CASE PushLink(p) BY <2>5, LinkShape, LinkPlaces
  <2>6. QED BY <1>2, <2>1, <2>2, <2>3, <2>4, <2>5 DEF Push, QuietPush
<1>3. ASSUME NEW c \in Consumers, Pop(c)
      PROVE  /\ ListInv' /\ PlaceInv' /\ \A x \in InFree' \cup Popped' : nextOf'[x].ptr # NULL
  <2>1. CASE QuietPop(c) BY <1>1, <2>1, QuietPopShape, ShapeInvKept
  <2>2. CASE PopSwing(c) BY <2>2, SwingShape
  <2>3. CASE PopReturn(c) BY <2>3, ReturnShape
  <2>4. QED BY <1>3, <2>1, <2>2, <2>3 DEF Pop, QuietPop
<1>4. CASE Clear
  <2>1. ListInv' /\ PlaceInv' /\ Popped' = {} /\ InFree' = {} BY <1>4, ClearShape
  <2>2. QED BY <2>1
<1>5. QED BY <1>2, <1>3, <1>4 DEF Next

\* Every step keeps the types: what a thread dereferences is a node.
LEMMA TypeStep ==
  ASSUME QueueInv, OneConsumer, Next
  PROVE  TypeOK'
<1> USE DEF qvars, pool, snap, hist, Goto
<1>1. TypeOK /\ ThreadPc /\ PopInv /\ ListInv /\ ValueInv BY DEF QueueInv
<1>2. Observe BY DEF Next, Push, Pop, Clear
<1>3. emptySeen' \in [Consumers -> BOOLEAN] BY <1>2 DEF Observe
<1>4. /\ \A k \in Int : Count(k) \in 0 .. SizeModulus - 1
      /\ size \in Int /\ 0 \in 0 .. SizeModulus - 1
  <2>1. SizeModulus \in Nat /\ SizeModulus > 0 BY QueueAssumption
  <2>2. \A k \in Int : k % SizeModulus \in 0 .. SizeModulus - 1 BY <2>1
  <2>3. QED BY <1>1, <2>1, <2>2 DEF Count, TypeOK
<1>5. \A x \in Thread : t[x].ptr \in Node \cup {NULL} /\ t[x].tag \in Nat
  BY <1>1 DEF TypeOK, Tagged
<1>6. Null \in Tagged /\ 1 \in Node BY QueueAssumption DEF Null, Tagged, Node
<1>7. ASSUME NEW x \in Thread, NEW ptr \in Node \cup {NULL}, SwingTail(x, ptr)
      PROVE  tail' \in Tagged
  <2>1. Retagged(t[x], ptr) \in Tagged BY <1>5, <1>7 DEF Retagged, Tagged
  <2>2. QED BY <1>1, <1>7, <2>1 DEF SwingTail, TypeOK
<1>8. \A x \in Thread : n[x].ptr \in Node \cup {NULL} /\ n[x].tag \in Nat
  BY <1>1 DEF TypeOK, Tagged
<1>9. \A p \in Producers : p \in Thread /\ (pc[p] \in FillPc \cup {"push_swing"} => node[p] \in Node)
  BY <1>1 DEF ThreadPc, Thread
<1>10. \A c \in Consumers : c \in Thread BY DEF Thread
<1>11. 1 .. fresh \subseteq Node /\ \A x \in Thread : pc[x] \in LoadedPc => t[x].ptr \in 1 .. fresh
  BY Places
<1>12. head.ptr \in Node BY <1>11, Places
<1>13. ASSUME NEW p \in Producers, Push(p) PROVE TypeOK'
  <2>1. CASE PushTake(p)
    <3>1. CASE free # << >>
      <4>1. IsInjective(free) BY DEF QueueInv, PlaceInv
      <4>2. Head(free) \in InFree /\ Tail(free) \in Seq(Node) BY <1>1, <3>1, <4>1, TopOfFree
      <4>3. Head(free) \in Node BY <1>11, <4>2, Places
      <4>4. QED BY <1>1, <1>3, <2>1, <3>1, <4>2, <4>3 DEF TypeOK, PushTake
    <3>2. CASE free = << >> BY <1>1, <1>3, <2>1, <3>2 DEF TypeOK, PushTake
    <3>3. QED BY <3>1, <3>2
  <2>2. CASE PushFresh(p)
    <3>1. fresh + 1 \in Node BY <1>1, <2>2, QueueAssumption DEF PushFresh, TypeOK, Node
    <3>2. QED BY <1>1, <1>3, <2>2, <3>1 DEF TypeOK, PushFresh
  <2>3. CASE PushInit(p)
    <3>1. sent[p] + 1 \in 1 .. MaxPush
      <4>1. sent[p] \in 0 .. MaxPush /\ sent[p] < MaxPush
        BY <1>1, <2>3 DEF PushInit, ThreadPc, FillPc, TypeOK
      <4>2. QED BY <4>1, QueueAssumption
    <3>2. <<p, sent[p] + 1>> \in Value BY <3>1 DEF Value
    <3>3. QED BY <1>1, <1>3, <1>6, <2>3, <3>2 DEF TypeOK, PushInit
  <2>4. CASE PushTail(p) BY <1>1, <1>3, <2>4 DEF TypeOK, PushTail
  <2>5. CASE PushNext(p)
    <3>1. t[p].ptr \in Node BY <1>9, <1>11, <2>5 DEF PushNext, LoadedPc
    <3>2. nextOf[t[p].ptr] \in Tagged BY <1>1, <3>1 DEF TypeOK
    <3>3. QED BY <1>1, <1>3, <2>5, <3>2 DEF TypeOK, PushNext
  <2>6. CASE PushLink(p)
    <3>1. node[p] \in Node BY <1>9, <2>6 DEF PushLink, FillPc
    <3>2. Retagged(n[p], node[p]) \in Tagged BY <1>8, <1>9, <3>1 DEF Retagged, Tagged
    <3>3. sent[p] + 1 \in 0 .. MaxPush
      <4>1. sent[p] \in 0 .. MaxPush /\ sent[p] < MaxPush
        BY <1>1, <2>6 DEF PushLink, ThreadPc, FillPc, TypeOK
      <4>2. QED BY <4>1, QueueAssumption
    <3>4. sent' = [sent EXCEPT ![p] = sent[p] + 1] BY <2>6 DEF PushLink
    <3>5. QED BY <1>1, <1>3, <1>6, <2>6, <3>2, <3>3, <3>4 DEF TypeOK, PushLink
  <2>7. CASE PushLinkFails(p) BY <1>1, <1>3, <1>6, <2>7 DEF TypeOK, PushLinkFails
  <2>8. CASE PushHelp(p)
    <3>1. tail' \in Tagged BY <1>7, <1>8, <1>9, <2>8 DEF PushHelp
    <3>2. QED BY <1>1, <1>3, <1>6, <2>8, <3>1 DEF TypeOK, PushHelp
  <2>9. CASE PushSwing(p)
    <3>1. node[p] \in Node BY <1>9, <2>9 DEF PushSwing
    <3>2. tail' \in Tagged BY <1>7, <1>9, <2>9, <3>1 DEF PushSwing
    <3>3. QED BY <1>1, <1>3, <1>6, <2>9, <3>2 DEF TypeOK, PushSwing
  <2>10. CASE PushSize(p)
    <3>1. Count(size + 1) \in 0 .. SizeModulus - 1
      <4>1. size + 1 \in Int BY <1>4
      <4>2. QED BY <1>4, <4>1
    <3>2. QED BY <1>1, <1>3, <2>10, <3>1 DEF TypeOK, PushSize
  <2>11. QED BY <1>13, <2>1, <2>2, <2>3, <2>4, <2>5, <2>6, <2>7, <2>8, <2>9, <2>10 DEF Push
<1>14. ASSUME NEW c \in Consumers, Pop(c) PROVE TypeOK'
  <2>1. CASE PopHead(c) BY <1>1, <1>3, <2>1 DEF TypeOK, PopHead
  <2>2. CASE PopTail(c) BY <1>1, <1>3, <2>2 DEF TypeOK, PopTail
  <2>3. CASE PopEmpty(c) BY <1>1, <1>3, <1>6, <2>3 DEF TypeOK, PopEmpty
  <2>4. CASE PopNext(c)
    <3>1. h[c] = head BY <1>1, <2>4 DEF PopNext, PopInv
    <3>2. nextOf[h[c].ptr] \in Tagged BY <1>1, <1>12, <3>1 DEF TypeOK
    <3>3. QED BY <1>1, <1>3, <2>4, <3>2 DEF TypeOK, PopNext
  <2>5. CASE PopHelp(c)
    <3>1. tail' \in Tagged BY <1>7, <1>8, <1>10, <2>5 DEF PopHelp
    <3>2. QED BY <1>1, <1>3, <2>5, <3>1 DEF TypeOK, PopHelp
  <2>6. CASE PopSwing(c)
    <3>1. h[c].tag \in Nat BY <1>1, <1>10 DEF TypeOK, Tagged
    <3>2. Retagged(h[c], n[c].ptr) \in Tagged BY <1>8, <1>10, <3>1 DEF Retagged, Tagged
    <3>3. QED BY <1>1, <1>3, <1>6, <2>6, <3>2 DEF TypeOK, PopSwing
  <2>7. CASE PopSwingFails(c) BY <1>1, <1>3, <1>6, <2>7 DEF TypeOK, PopSwingFails
  <2>8. CASE PopCopy(c)
    <3>1. Taken(c) = Append(got[c], val[n[c].ptr]) BY <2>8 DEF PopCopy, Taken
    <3>2. Taken(c) \in Seq(Value) /\ got[c] \in Seq(Value) BY <1>1 DEF ValueInv, TypeOK
    <3>3. val[n[c].ptr] \in Value
      <4>1. Len(got[c]) + 1 \in 1 .. Len(Taken(c)) /\ Taken(c)[Len(got[c]) + 1] = val[n[c].ptr]
        BY <3>1, <3>2
      <4>2. QED BY <3>2, <4>1
    <3>4. QED BY <1>1, <1>3, <1>6, <2>8, <3>3 DEF TypeOK, PopCopy
  <2>9. CASE PopReturn(c)
    <3>1. free' \in Seq(Node) BY <2>9, ReturnShape
    <3>2. QED BY <1>1, <1>3, <1>6, <2>9, <3>1 DEF TypeOK, PopReturn
  <2>10. CASE PopSize(c)
    <3>1. Count(size - 1) \in 0 .. SizeModulus - 1
      <4>1. size - 1 \in Int BY <1>4
      <4>2. QED BY <1>4, <4>1
    <3>2. out[c] \in Value BY <1>1, <2>10 DEF PopSize, ThreadPc
    <3>3. Append(got[c], out[c]) \in Seq(Value) BY <1>1, <3>2 DEF TypeOK
    <3>4. got' = [got EXCEPT ![c] = Append(got[c], out[c])] BY <2>10 DEF PopSize
    <3>5. QED BY <1>1, <1>3, <2>10, <3>1, <3>3, <3>4 DEF TypeOK, PopSize
  <2>11. QED BY <1>14, <2>1, <2>2, <2>3, <2>4, <2>5, <2>6, <2>7, <2>8, <2>9, <2>10 DEF Pop
<1>15. CASE Clear
  <2>1. [ptr |-> 1, tag |-> 0] \in Tagged BY <1>6 DEF Tagged
  <2>2. << >> \in Seq(Node) OBVIOUS
  <2>3. QED BY <1>1, <1>3, <1>4, <1>6, <1>15, <2>1, <2>2 DEF TypeOK, Clear
<1>16. QED BY <1>13, <1>14, <1>15 DEF Next

\* Every step keeps threads where their operation goes, with the locals it needs.
LEMMA ThreadPcStep ==
  ASSUME QueueInv, OneConsumer, Next
  PROVE  ThreadPc'
<1> USE DEF Goto, qvars, pool, snap, hist
<1>1. TypeOK /\ ThreadPc /\ ValueInv BY DEF QueueInv
<1>2. /\ \A p \in Producers : p \in Thread /\ p \notin Consumers
      /\ \A c \in Consumers : c \in Thread /\ c \notin Producers
  BY QueueAssumption DEF Thread
<1> DEFINE AllPc == FillPc \cup LoadedPc \cup
                      {"idle", "push_fresh", "push_size", "pop_tail", "pop_swing", "pop_copy",
                       "pop_return", "pop_size"}
<1>3. pc \in [Thread -> AllPc] BY <1>1 DEF ThreadPc
<1> DEFINE PushOK(p) ==
             /\ pc[p] \in FillPc \cup {"idle", "push_fresh", "push_swing", "push_size"}
             /\ pc[p] \in FillPc \cup {"push_swing"} => node[p] \in Node
             /\ pc[p] \in FillPc \cup {"push_fresh"} => sent[p] < MaxPush
           PopOK(c) ==
             /\ pc[c] \in {"idle", "pop_tail", "pop_next", "pop_help", "pop_swing", "pop_copy",
                           "pop_return", "pop_size"}
             /\ pc[c] \in {"pop_return", "pop_size"} => out[c] \in Value
<1>4. (\A p \in Producers : PushOK(p)) /\ (\A c \in Consumers : PopOK(c))
  BY <1>1 DEF ThreadPc
<1>5. ASSUME NEW p \in Producers, Push(p) PROVE ThreadPc'
  <2>1. /\ \A q \in Producers : q # p => PushOK(q)'
        /\ \A c \in Consumers : PopOK(c)'
    <3>1. /\ \A x \in Thread : x # p => pc'[x] = pc[x]
          /\ \A q \in Producers : q # p => node'[q] = node[q] /\ sent'[q] = sent[q]
          /\ out' = out
      BY <1>1, <1>2, <1>3, <1>5
         DEF TypeOK, Push, PushTake, PushFresh, PushInit, PushTail, PushNext, PushLink,
             PushLinkFails, PushHelp, PushSwing, PushSize
    <3>2. \A q \in Producers : q # p => PushOK(q)' BY <1>2, <1>4, <3>1
    <3>3. \A c \in Consumers : PopOK(c)'
      <4>1. \A c \in Consumers : pc'[c] = pc[c] /\ out'[c] = out[c] BY <1>2, <3>1
      <4>2. QED BY <1>4, <4>1
    <3>4. QED BY <3>2, <3>3
  <2>2. PushOK(p)' /\ pc' \in [Thread -> AllPc]
    <3>1. CASE PushTake(p)
      <4>1. CASE free # << >>
        <5>1. Head(free) \in InFree BY <4>1, <1>1, TopOfFree DEF QueueInv, PlaceInv
        <5>2. Head(free) \in Node BY <5>1, Places
        <5>3. QED BY <1>1, <1>2, <1>3, <1>4, <3>1, <4>1, <5>2 DEF PushTake, TypeOK, FillPc
      <4>2. CASE free = << >> BY <1>1, <1>2, <1>3, <1>4, <3>1, <4>2 DEF PushTake, TypeOK, FillPc
      <4>3. QED BY <4>1, <4>2
    <3>2. CASE PushFresh(p)
      <4>1. fresh + 1 \in Node BY <1>1, <3>2, QueueAssumption DEF PushFresh, TypeOK, Node
      <4>2. QED BY <1>1, <1>2, <1>3, <1>4, <3>2, <4>1 DEF PushFresh, TypeOK, FillPc
    <3>3. CASE PushInit(p) BY <1>1, <1>2, <1>3, <1>4, <3>3 DEF PushInit, FillPc
    <3>4. CASE PushTail(p) BY <1>1, <1>2, <1>3, <1>4, <3>4 DEF PushTail, FillPc
    <3>5. CASE PushNext(p) BY <1>1, <1>2, <1>3, <1>4, <3>5 DEF PushNext, FillPc
    <3>6. CASE PushLink(p) BY <1>1, <1>2, <1>3, <1>4, <3>6 DEF PushLink, FillPc, LoadedPc
    <3>7. CASE PushLinkFails(p) BY <1>1, <1>2, <1>3, <1>4, <3>7 DEF PushLinkFails, FillPc
    <3>8. CASE PushHelp(p) BY <1>1, <1>2, <1>3, <1>4, <3>8 DEF PushHelp, FillPc
    <3>9. CASE PushSwing(p) BY <1>1, <1>2, <1>3, <1>4, <3>9 DEF PushSwing, FillPc
    <3>10. CASE PushSize(p) BY <1>1, <1>2, <1>3, <1>4, <3>10 DEF PushSize, FillPc
    <3>11. QED BY <1>5, <3>1, <3>2, <3>3, <3>4, <3>5, <3>6, <3>7, <3>8, <3>9, <3>10 DEF Push
  <2>3. QED BY <2>1, <2>2 DEF ThreadPc
<1>6. ASSUME NEW c \in Consumers, Pop(c) PROVE ThreadPc'
  <2>1. /\ \A d \in Consumers : d # c => PopOK(d)'
        /\ \A p \in Producers : PushOK(p)'
    <3>1. /\ \A x \in Thread : x # c => pc'[x] = pc[x]
          /\ \A d \in Consumers : d # c => out'[d] = out[d]
          /\ node' = node /\ sent' = sent
      BY <1>1, <1>2, <1>3, <1>6
         DEF TypeOK, Pop, PopHead, PopTail, PopEmpty, PopNext, PopHelp, PopSwing,
             PopSwingFails, PopCopy, PopReturn, PopSize
    <3>2. \A d \in Consumers : d # c => PopOK(d)' BY <1>2, <1>4, <3>1
    <3>3. \A p \in Producers : PushOK(p)'
      <4>1. \A p \in Producers : pc'[p] = pc[p] /\ node'[p] = node[p] /\ sent'[p] = sent[p]
        BY <1>2, <3>1
      <4>2. QED BY <1>4, <4>1
    <3>4. QED BY <3>2, <3>3
  <2>2. PopOK(c)' /\ pc' \in [Thread -> AllPc]
    <3>1. CASE PopHead(c) BY <1>1, <1>2, <1>3, <1>4, <3>1 DEF PopHead
    <3>2. CASE PopTail(c) BY <1>1, <1>2, <1>3, <1>4, <3>2 DEF PopTail, LoadedPc
    <3>3. CASE PopEmpty(c) BY <1>1, <1>2, <1>3, <1>4, <3>3 DEF PopEmpty
    <3>4. CASE PopNext(c) BY <1>1, <1>2, <1>3, <1>4, <3>4 DEF PopNext, LoadedPc
    <3>5. CASE PopHelp(c) BY <1>1, <1>2, <1>3, <1>4, <3>5 DEF PopHelp
    <3>6. CASE PopSwing(c) BY <1>1, <1>2, <1>3, <1>4, <3>6 DEF PopSwing
    <3>7. CASE PopSwingFails(c) BY <1>1, <1>2, <1>3, <1>4, <3>7 DEF PopSwingFails
    <3>8. CASE PopCopy(c)
      <4>1. Taken(c) = Append(got[c], val[n[c].ptr]) BY <3>8 DEF PopCopy, Taken
      <4>2. Taken(c) \in Seq(Value) /\ got[c] \in Seq(Value) BY <1>1 DEF ValueInv, TypeOK
      <4>3. Len(got[c]) + 1 \in 1 .. Len(Taken(c)) /\ Taken(c)[Len(got[c]) + 1] = val[n[c].ptr]
        BY <4>1, <4>2
      <4>4. val[n[c].ptr] \in Value BY <4>2, <4>3
      <4>5. QED BY <1>1, <1>2, <1>3, <1>4, <3>8, <4>4 DEF PopCopy, TypeOK
    <3>9. CASE PopReturn(c) BY <1>1, <1>2, <1>3, <1>4, <3>9 DEF PopReturn
    <3>10. CASE PopSize(c) BY <1>1, <1>2, <1>3, <1>4, <3>10 DEF PopSize
    <3>11. QED BY <1>6, <3>1, <3>2, <3>3, <3>4, <3>5, <3>6, <3>7, <3>8, <3>9, <3>10 DEF Pop
  <2>3. QED BY <2>1, <2>2 DEF ThreadPc
<1>7. CASE Clear
  <2>1. Idle /\ pc' = pc BY <1>7 DEF Clear
  <2>2. \A x \in Thread : pc'[x] = "idle" BY <2>1 DEF Idle
  <2>3. \A p \in Producers : PushOK(p)' BY <1>2, <2>2 DEF FillPc
  <2>4. \A c \in Consumers : PopOK(c)' BY <1>2, <2>2
  <2>5. QED BY <1>3, <2>1, <2>3, <2>4 DEF ThreadPc
<1>8. QED BY <1>5, <1>6, <1>7 DEF Next

\* A loaded tail stays the one loaded, and is the tail when it is loaded.
LEMMA LoadedStep ==
  ASSUME QueueInv, Next, NEW x \in Thread, pc'[x] \in LoadedPc
  PROVE  \/ pc[x] \in LoadedPc /\ t'[x] = t[x]
         \/ t'[x] = tail /\ tail' = tail /\ nextOf' = nextOf /\ x \in Producers /\ PushTail(x)
         \/ t'[x] = tail /\ tail' = tail /\ nextOf' = nextOf /\ x \in Consumers /\ PopTail(x)
<1> USE DEF qvars, pool, snap, hist
<1>1. TypeOK /\ ThreadPc BY DEF QueueInv
<1>2. t \in [Thread -> Tagged] BY <1>1 DEF TypeOK
<1>3. ASSUME NEW p \in Producers, Push(p)
      PROVE  \/ pc[x] \in LoadedPc /\ t'[x] = t[x]
             \/ t'[x] = tail /\ tail' = tail /\ nextOf' = nextOf /\ x \in Producers /\ PushTail(x)
  <2>1. p \in Thread BY DEF Thread
  <2>2. CASE x # p
    <3>1. t'[x] = t[x] /\ pc'[x] = pc[x]
      BY <1>1, <1>2, <1>3, <2>1, <2>2
         DEF ThreadPc, Goto, Push, PushTake, PushFresh, PushInit, PushTail, PushNext, PushLink,
             PushLinkFails, PushHelp, PushSwing, PushSize
    <3>2. QED BY <3>1
  <2>3. CASE x = p
    <3>1. \A a, b : Goto(p, a, b) => pc[x] = a /\ pc'[x] = b BY <1>1, <2>1, <2>3, Moves
    <3>2. CASE PushTake(p) BY <3>1, <3>2 DEF PushTake, LoadedPc
    <3>3. CASE PushFresh(p) BY <3>1, <3>3 DEF PushFresh, LoadedPc
    <3>4. CASE PushInit(p) BY <3>1, <3>4 DEF PushInit, LoadedPc
    <3>5. CASE PushTail(p)
      <4>1. t'[x] = tail BY <1>2, <2>1, <2>3, <3>5 DEF PushTail
      <4>2. QED BY <2>3, <3>5, <4>1 DEF PushTail
    <3>6. CASE PushNext(p) BY <3>1, <3>6 DEF PushNext, LoadedPc
    <3>7. CASE PushLink(p) BY <3>1, <3>7 DEF PushLink, LoadedPc
    <3>8. CASE PushLinkFails(p) BY <3>1, <3>8 DEF PushLinkFails, LoadedPc
    <3>9. CASE PushHelp(p) BY <3>1, <3>9 DEF PushHelp, LoadedPc
    <3>10. CASE PushSwing(p) BY <3>1, <3>10 DEF PushSwing, LoadedPc
    <3>11. CASE PushSize(p) BY <3>1, <3>11 DEF PushSize, LoadedPc
    <3>12. QED BY <1>3, <3>2, <3>3, <3>4, <3>5, <3>6, <3>7, <3>8, <3>9, <3>10, <3>11 DEF Push
  <2>4. QED BY <2>2, <2>3
<1>4. ASSUME NEW c \in Consumers, Pop(c)
      PROVE  \/ pc[x] \in LoadedPc /\ t'[x] = t[x]
             \/ t'[x] = tail /\ tail' = tail /\ nextOf' = nextOf /\ x \in Consumers /\ PopTail(x)
  <2>1. c \in Thread BY DEF Thread
  <2>2. CASE x # c
    <3>1. t'[x] = t[x] /\ pc'[x] = pc[x]
      BY <1>1, <1>2, <1>4, <2>1, <2>2
         DEF ThreadPc, Goto, Pop, PopHead, PopTail, PopEmpty, PopNext, PopHelp, PopSwing,
             PopSwingFails, PopCopy, PopReturn, PopSize
    <3>2. QED BY <3>1
  <2>3. CASE x = c
    <3>1. \A a, b : Goto(c, a, b) => pc[x] = a /\ pc'[x] = b BY <1>1, <2>1, <2>3, Moves
    <3>2. CASE PopHead(c) BY <3>1, <3>2 DEF PopHead, LoadedPc
    <3>3. CASE PopTail(c)
      <4>1. t'[x] = tail BY <1>2, <2>1, <2>3, <3>3 DEF PopTail
      <4>2. QED BY <2>3, <3>3, <4>1 DEF PopTail
    <3>4. CASE PopEmpty(c) BY <3>1, <3>4 DEF PopEmpty, LoadedPc
    <3>5. CASE PopNext(c) BY <3>1, <3>5 DEF PopNext, LoadedPc
    <3>6. CASE PopHelp(c) BY <3>1, <3>6 DEF PopHelp, LoadedPc
    <3>7. CASE PopSwing(c) BY <3>1, <3>7 DEF PopSwing, LoadedPc
    <3>8. CASE PopSwingFails(c) BY <3>1, <3>8 DEF PopSwingFails, LoadedPc
    <3>9. CASE PopCopy(c) BY <3>1, <3>9 DEF PopCopy, LoadedPc
    <3>10. CASE PopReturn(c) BY <3>1, <3>10 DEF PopReturn, LoadedPc
    <3>11. CASE PopSize(c) BY <3>1, <3>11 DEF PopSize, LoadedPc
    <3>12. QED BY <1>4, <3>2, <3>3, <3>4, <3>5, <3>6, <3>7, <3>8, <3>9, <3>10, <3>11 DEF Pop
  <2>4. QED BY <2>2, <2>3
<1>5. CASE Clear BY <1>5 DEF Clear
<1>6. QED BY <1>3, <1>4, <1>5 DEF Next

\* A node's next pointer, once set, changes only when the node is filled again.
LEMMA NextStep ==
  ASSUME QueueInv, Next, NEW m \in Node, nextOf[m].ptr # NULL
  PROVE  \/ nextOf'[m] = nextOf[m]
         \/ \E p \in Producers : PushInit(p) /\ m = node[p]
         \/ Clear
<1> USE DEF qvars, pool, snap, hist
<1>1. nextOf \in [Node -> Tagged] BY DEF QueueInv, TypeOK
<1>2. ASSUME NEW p \in Producers, Push(p)
      PROVE  nextOf'[m] = nextOf[m] \/ (PushInit(p) /\ m = node[p])
  <2>1. CASE PushInit(p) BY <1>1, <2>1 DEF PushInit
  <2>2. CASE PushLink(p)
    <3>1. m # t[p].ptr BY <2>2, LinkTarget
    <3>2. QED BY <1>1, <2>2, <3>1 DEF PushLink
  <2>3. CASE ~PushInit(p) /\ ~PushLink(p)
    BY <1>2, <2>3 DEF Push, PushTake, PushFresh, PushTail, PushNext,
                      PushLinkFails, PushHelp, PushSwing, PushSize
  <2>4. QED BY <2>1, <2>2, <2>3
<1>3. ASSUME NEW c \in Consumers, Pop(c) PROVE nextOf'[m] = nextOf[m]
  BY <1>3 DEF Pop, PopHead, PopTail, PopEmpty, PopNext, PopHelp, PopSwing,
              PopSwingFails, PopCopy, PopReturn, PopSize
<1>4. QED BY <1>2, <1>3 DEF Next

\* The tail moves to the next node in the queue, and counts its moves.
LEMMA TailMoves ==
  ASSUME QueueInv, Next, ~Clear
  PROVE  \/ tail' = tail
         \/ /\ tail'.tag = tail.tag + 1 /\ head' = head /\ InQueue' = InQueue
            /\ tail'.ptr \in InQueue /\ tail'.ptr # head.ptr
<1> USE DEF qvars, pool, snap, hist
<1>1. TypeOK /\ ThreadPc /\ TailInv /\ PopInv /\ ListInv BY DEF QueueInv
<1>2. ASSUME NEW x \in Thread, NEW ptr, SwingTail(x, ptr), head' = head, nextOf' = nextOf,
             tail = t[x] => nextOf[tail.ptr].ptr = ptr /\ ptr # NULL
      PROVE  \/ tail' = tail
             \/ /\ tail'.tag = tail.tag + 1 /\ head' = head /\ InQueue' = InQueue
                /\ tail'.ptr \in InQueue /\ tail'.ptr # head.ptr
  <2>1. tail' = tail \/ (tail = t[x] /\ tail' = Retagged(t[x], ptr)) BY <1>2 DEF SwingTail
  <2>2. ASSUME tail = t[x], tail' = Retagged(t[x], ptr)
        PROVE  /\ tail'.tag = tail.tag + 1 /\ InQueue' = InQueue
               /\ tail'.ptr \in InQueue /\ tail'.ptr # head.ptr
    <3>1. tail'.tag = tail.tag + 1 /\ tail'.ptr = ptr BY <2>2 DEF Retagged
    <3>2. Listed(nextOf, Chain) /\ Chain[1] = head.ptr BY <1>1 DEF ListInv
    <3>3. tail.ptr \in ToSet(Chain) BY Places DEF InQueue
    <3>4. ptr \in ToSet(Chain) /\ ptr # head.ptr BY <1>2, <2>2, <3>2, <3>3, NextInList
    <3>5. Chain' = Chain BY <1>2 DEF Chain
    <3>6. QED BY <3>1, <3>4, <3>5 DEF InQueue
  <2>3. QED BY <1>2, <2>1, <2>2
<1>3. ASSUME NEW p \in Producers, Push(p)
      PROVE  \/ tail' = tail
             \/ /\ tail'.tag = tail.tag + 1 /\ head' = head /\ InQueue' = InQueue
                /\ tail'.ptr \in InQueue /\ tail'.ptr # head.ptr
  <2>1. p \in Thread BY DEF Thread
  <2>2. CASE PushHelp(p)
    <3>1. pc[p] = "push_help" /\ SwingTail(p, n[p].ptr) /\ head' = head /\ nextOf' = nextOf
      BY <2>2 DEF PushHelp, Goto
    <3>2. tail = t[p] => nextOf[tail.ptr].ptr = n[p].ptr /\ n[p].ptr # NULL
      BY <1>1, <3>1 DEF TailInv
    <3>3. QED BY <1>2, <2>1, <3>1, <3>2
  <2>3. CASE PushSwing(p)
    <3>1. pc[p] = "push_swing" /\ SwingTail(p, node[p]) /\ head' = head /\ nextOf' = nextOf
      BY <2>3 DEF PushSwing, Goto
    <3>2. tail = t[p] => nextOf[tail.ptr].ptr = node[p] BY <1>1, <3>1 DEF TailInv
    <3>3. node[p] # NULL BY <1>1, <3>1, QueueAssumption DEF ThreadPc
    <3>4. QED BY <1>2, <2>1, <3>1, <3>2, <3>3
  <2>4. CASE ~PushHelp(p) /\ ~PushSwing(p)
    BY <1>3, <2>4 DEF Push, PushTake, PushFresh, PushInit, PushTail, PushNext, PushLink,
                      PushLinkFails, PushSize
  <2>5. QED BY <2>2, <2>3, <2>4
<1>4. ASSUME NEW c \in Consumers, Pop(c)
      PROVE  \/ tail' = tail
             \/ /\ tail'.tag = tail.tag + 1 /\ head' = head /\ InQueue' = InQueue
                /\ tail'.ptr \in InQueue /\ tail'.ptr # head.ptr
  <2>1. c \in Thread BY DEF Thread
  <2>2. CASE PopHelp(c)
    <3>1. pc[c] = "pop_help" /\ SwingTail(c, n[c].ptr) /\ head' = head /\ nextOf' = nextOf
      BY <2>2 DEF PopHelp, Goto
    <3>2. t[c].ptr = head.ptr /\ n[c].ptr # NULL /\ n[c].ptr = nextOf[head.ptr].ptr
      BY <1>1, <3>1 DEF PopInv
    <3>3. QED BY <1>2, <2>1, <3>1, <3>2
  <2>3. CASE ~PopHelp(c)
    BY <1>4, <2>3 DEF Pop, PopHead, PopTail, PopEmpty, PopNext, PopSwing,
                      PopSwingFails, PopCopy, PopReturn, PopSize
  <2>4. QED BY <2>2, <2>3
<1>5. QED BY <1>3, <1>4 DEF Next

\* A producer starts to fill a node when it takes it.
LEMMA FillStep ==
  ASSUME QueueInv, Next, NEW p \in Producers, pc'[p] = "push_init"
  PROVE  \/ pc[p] = "push_init" /\ node'[p] = node[p] /\ ~PushInit(p)
         \/ PushTake(p) /\ free # << >>
         \/ PushFresh(p)
<1> USE DEF qvars, pool, snap, hist
<1>1. TypeOK /\ ThreadPc BY DEF QueueInv
<1>2. node \in [Producers -> Node \cup {NULL}] BY <1>1 DEF TypeOK
<1>3. p \in Thread /\ p \notin Consumers BY QueueAssumption DEF Thread
<1>4. ~PushInit(p) BY <1>1, <1>3, Moves DEF PushInit
<1>5. ASSUME NEW q \in Producers, Push(q)
      PROVE  \/ pc[p] = "push_init" /\ node'[p] = node[p]
             \/ PushTake(p) /\ free # << >>
             \/ PushFresh(p)
  <2>1. q \in Thread BY DEF Thread
  <2>2. CASE q # p
    <3>1. pc'[p] = pc[p] /\ node'[p] = node[p]
      BY <1>1, <1>2, <1>3, <1>5, <2>1, <2>2
         DEF ThreadPc, Goto, Push, PushTake, PushFresh, PushInit, PushTail, PushNext, PushLink,
             PushLinkFails, PushHelp, PushSwing, PushSize
    <3>2. QED BY <3>1
  <2>3. CASE q = p
    <3>1. \A a, b : Goto(p, a, b) => pc'[p] = b BY <1>1, <1>3, Moves
    <3>2. ~PushTail(p) BY <3>1 DEF PushTail
    <3>3. ~PushNext(p) BY <3>1 DEF PushNext
    <3>4. ~PushLink(p) BY <3>1 DEF PushLink
    <3>5. ~PushLinkFails(p) BY <3>1 DEF PushLinkFails
    <3>6. ~PushHelp(p) BY <3>1 DEF PushHelp
    <3>7. ~PushSwing(p) BY <3>1 DEF PushSwing
    <3>8. ~PushSize(p) BY <3>1 DEF PushSize
    <3>9. PushTake(p) => free # << >> BY <3>1 DEF PushTake
    <3>10. QED BY <1>4, <1>5, <2>3, <3>2, <3>3, <3>4, <3>5, <3>6, <3>7, <3>8, <3>9 DEF Push
  <2>4. QED BY <2>2, <2>3
<1>6. ASSUME NEW c \in Consumers, Pop(c)
      PROVE  pc[p] = "push_init" /\ node'[p] = node[p]
  <2>1. c \in Thread /\ c # p BY <1>3 DEF Thread
  <2>2. QED
    BY <1>1, <1>3, <1>6, <2>1
       DEF ThreadPc, Goto, Pop, PopHead, PopTail, PopEmpty, PopNext, PopHelp, PopSwing,
           PopSwingFails, PopCopy, PopReturn, PopSize
<1>7. CASE Clear BY <1>3, <1>7 DEF Clear, Idle
<1>8. QED BY <1>4, <1>5, <1>6, <1>7 DEF Next

\* Every step keeps a next pointer in the nodes a delayed push may still link behind.
LEMMA UsedStep ==
  ASSUME QueueInv, OneConsumer, Next
  PROVE  UsedInv'
<1>1. TypeOK /\ PlaceInv /\ UsedInv /\ TailInv BY DEF QueueInv
<1>2. \A x \in InFree' \cup Popped' : nextOf'[x].ptr # NULL BY ShapeStep
<1>3. ASSUME NEW p \in Producers, NEW x \in Thread,
             pc'[p] = "push_init", pc'[x] \in LoadedPc, t'[x].ptr = node'[p]
      PROVE  nextOf'[node'[p]].ptr # NULL
  <2>1. \/ pc[x] \in LoadedPc /\ t'[x] = t[x]
        \/ t'[x] = tail /\ ~PushTake(p) /\ ~PushFresh(p)
    <3>1. x \in Producers /\ PushTail(x) => ~PushTake(p) /\ ~PushFresh(p)
      <4> SUFFICES ASSUME x \in Producers, PushTail(x), PushTake(p) \/ PushFresh(p) PROVE FALSE
        OBVIOUS
      <4>1. t' = t /\ t'[x] = tail /\ x # p
        <5>1. x # p BY <1>3 DEF LoadedPc
        <5>2. QED BY <1>1, <5>1 DEF PushTail, PushTake, PushFresh, snap, TypeOK
      <4>2. pc[x] = "push_tail" /\ pc'[x] = "push_next" /\ p \in Thread
        BY PushMoves DEF PushTail, QueueInv, Thread
      <4>3. pc'[x] = pc[x]
        BY <4>1, PushMoves DEF PushTake, PushFresh, QueueInv, Thread
      <4>4. QED BY <4>2, <4>3
    <3>2. x \in Consumers /\ PopTail(x) => ~PushTake(p) /\ ~PushFresh(p)
      <4> SUFFICES ASSUME x \in Consumers, PopTail(x), PushTake(p) \/ PushFresh(p) PROVE FALSE
        OBVIOUS
      <4>1. pc[x] = "pop_tail" /\ pc'[x] = "pop_next"
        BY PopMoves DEF PopTail, QueueInv
      <4>2. pc'[x] = pc[x]
        BY PushMoves DEF PushTake, PushFresh, QueueInv
      <4>3. QED BY <4>1, <4>2
    <3>3. QED BY <1>3, <3>1, <3>2, LoadedStep
  <2>2. CASE pc[p] = "push_init" /\ node'[p] = node[p] /\ ~PushInit(p)
    <3>1. p \in Filling /\ Behind(p) = {node[p]} /\ tail.ptr \in InQueue BY <2>2, Places
    <3>2. node[p] # tail.ptr BY <1>1, <3>1 DEF PlaceInv
    <3>3. pc[x] \in LoadedPc /\ t[x].ptr = node[p] BY <1>3, <2>1, <2>2, <3>2
    <3>4. nextOf[node[p]].ptr # NULL BY <1>1, <2>2, <3>3 DEF UsedInv
    <3>5. node[p] \in Node BY <3>1, Places
    <3>6. ~Clear BY <2>2 DEF Clear, Idle, Thread
    <3>7. ASSUME NEW q \in Producers, PushInit(q), node[p] = node[q] PROVE FALSE
      <4>1. q \in Filling /\ Behind(q) = {node[q]} BY <3>7, InitShape
      <4>2. q # p BY <2>2, <3>7
      <4>3. QED BY <1>1, <3>1, <3>7, <4>1, <4>2 DEF PlaceInv
    <3>8. nextOf'[node[p]] = nextOf[node[p]] BY <3>4, <3>5, <3>6, <3>7, NextStep
    <3>9. QED BY <2>2, <3>4, <3>8
  <2>3. CASE PushTake(p) /\ free # << >>
    <3>1. node'[p] \in InFree BY <2>3, TakeShape
    <3>2. nextOf' = nextOf BY <2>3 DEF PushTake, qvars
    <3>3. QED BY <1>1, <3>1, <3>2 DEF UsedInv
  <2>4. CASE PushFresh(p)
    <3>1. node'[p] = fresh + 1 BY <2>4, FreshShape
    <3>2. pc[x] \in LoadedPc /\ t[x].ptr = fresh + 1 BY <1>3, <2>1, <2>4, <3>1
    <3>3. t[x].ptr \in 1 .. fresh BY <3>2, Places
    <3>4. fresh \in Nat BY <1>1, QueueAssumption DEF TypeOK, Node
    <3>5. QED BY <3>2, <3>3, <3>4
  <2>5. QED BY <1>3, <2>2, <2>3, <2>4, FillStep
<1>4. QED BY <1>2, <1>3 DEF UsedInv

\* A step moves one thread.
LEMMA OneMoves ==
  ASSUME QueueInv, Next, ~Clear, NEW x \in Thread
  PROVE  \/ /\ pc'[x] = pc[x] /\ t'[x] = t[x] /\ n'[x] = n[x] /\ h'[x] = h[x]
            /\ x \in Producers => node'[x] = node[x] /\ sent'[x] = sent[x]
            /\ x \in Consumers => out'[x] = out[x] /\ got'[x] = got[x]
         \/ x \in Producers /\ Push(x)
         \/ x \in Consumers /\ Pop(x)
<1> USE DEF qvars, pool, snap, hist
<1>1. TypeOK /\ ThreadPc BY DEF QueueInv
<1>2. ASSUME NEW p \in Producers, Push(p), x # p
      PROVE  /\ pc'[x] = pc[x] /\ t'[x] = t[x] /\ n'[x] = n[x] /\ h'[x] = h[x]
             /\ x \in Producers => node'[x] = node[x] /\ sent'[x] = sent[x]
             /\ x \in Consumers => out'[x] = out[x] /\ got'[x] = got[x]
  <2>1. p \in Thread BY DEF Thread
  <2>2. pc'[x] = pc[x]
    BY <1>1, <1>2, <2>1
       DEF ThreadPc, Goto, Push, PushTake, PushFresh, PushInit, PushTail, PushNext, PushLink,
           PushLinkFails, PushHelp, PushSwing, PushSize
  <2>3. /\ t'[x] = t[x] /\ n'[x] = n[x] /\ h'[x] = h[x]
        /\ x \in Producers => node'[x] = node[x] /\ sent'[x] = sent[x]
    BY <1>1, <1>2, <2>1
       DEF TypeOK, Push, PushTake, PushFresh, PushInit, PushTail, PushNext, PushLink,
           PushLinkFails, PushHelp, PushSwing, PushSize
  <2>4. out' = out /\ got' = got
    BY <1>2 DEF Push, PushTake, PushFresh, PushInit, PushTail, PushNext, PushLink,
                PushLinkFails, PushHelp, PushSwing, PushSize
  <2>5. QED BY <2>2, <2>3, <2>4
<1>3. ASSUME NEW c \in Consumers, Pop(c), x # c
      PROVE  /\ pc'[x] = pc[x] /\ t'[x] = t[x] /\ n'[x] = n[x] /\ h'[x] = h[x]
             /\ x \in Producers => node'[x] = node[x] /\ sent'[x] = sent[x]
             /\ x \in Consumers => out'[x] = out[x] /\ got'[x] = got[x]
  <2>1. c \in Thread BY DEF Thread
  <2>2. pc'[x] = pc[x]
    BY <1>1, <1>3, <2>1
       DEF ThreadPc, Goto, Pop, PopHead, PopTail, PopEmpty, PopNext, PopHelp, PopSwing,
           PopSwingFails, PopCopy, PopReturn, PopSize
  <2>3. /\ t'[x] = t[x] /\ n'[x] = n[x] /\ h'[x] = h[x]
        /\ x \in Consumers => out'[x] = out[x] /\ got'[x] = got[x]
    BY <1>1, <1>3, <2>1
       DEF TypeOK, Pop, PopHead, PopTail, PopEmpty, PopNext, PopHelp, PopSwing,
           PopSwingFails, PopCopy, PopReturn, PopSize
  <2>4. node' = node /\ sent' = sent
    BY <1>3 DEF Pop, PopHead, PopTail, PopEmpty, PopNext, PopHelp, PopSwing,
                PopSwingFails, PopCopy, PopReturn, PopSize
  <2>5. QED BY <2>2, <2>3, <2>4
<1>4. PICK y : (y \in Producers /\ Push(y)) \/ (y \in Consumers /\ Pop(y))
  BY DEF Next
<1>5. CASE x = y BY <1>4, <1>5
<1>6. CASE x # y BY <1>2, <1>3, <1>4, <1>6
<1>7. QED BY <1>5, <1>6

\* The head moves when a consumer swings it; nothing else leaves the queue.
LEMMA HeadMoves ==
  ASSUME QueueInv, OneConsumer, Next, ~Clear
  PROVE  \/ head' = head /\ InQueue \subseteq InQueue'
         \/ \E c \in Consumers : PopSwing(c) /\ InQueue' = InQueue \ {head.ptr}
<1> USE DEF qvars, pool, snap, hist
<1>1. TypeOK /\ ThreadPc BY DEF QueueInv
<1>2. ASSUME NEW p \in Producers, Push(p) PROVE head' = head /\ InQueue \subseteq InQueue'
  <2>1. head' = head
    BY <1>2 DEF Push, PushTake, PushFresh, PushInit, PushTail, PushNext, PushLink,
                PushLinkFails, PushHelp, PushSwing, PushSize
  <2>2. CASE QuietPush(p) BY <1>1, <2>1, <2>2, QuietPushShape, ShapeKept
  <2>3. CASE PushTake(p) /\ free # << >> BY <2>1, <2>3, TakeShape
  <2>4. CASE PushFresh(p) BY <2>1, <2>4, FreshShape
  <2>5. CASE PushInit(p) BY <2>1, <2>5, InitShape
  <2>6. CASE PushLink(p)
    <3>1. InQueue' = InQueue \cup Behind(p) \/ InQueue' = InQueue BY <2>6, LinkShape
    <3>2. QED BY <2>1, <3>1
  <2>7. QED BY <1>2, <2>2, <2>3, <2>4, <2>5, <2>6 DEF Push, QuietPush
<1>3. ASSUME NEW c \in Consumers, Pop(c)
      PROVE  \/ head' = head /\ InQueue \subseteq InQueue'
             \/ PopSwing(c) /\ InQueue' = InQueue \ {head.ptr}
  <2>1. CASE PopSwing(c) BY <2>1, SwingShape
  <2>2. CASE QuietPop(c)
    <3>1. SameShape BY <1>1, <2>2, QuietPopShape
    <3>2. head' = head BY <3>1 DEF SameShape
    <3>3. QED BY <3>1, <3>2, ShapeKept
  <2>3. CASE PopReturn(c)
    <3>1. head' = head BY <2>3 DEF PopReturn
    <3>2. QED BY <2>3, <3>1, ReturnShape
  <2>4. QED BY <1>3, <2>1, <2>2, <2>3 DEF Pop, QuietPop
<1>4. QED BY <1>2, <1>3 DEF Next

\* A segment grows when a push links its own behind it.
LEMMA BehindStep ==
  ASSUME QueueInv, OneConsumer, Next, ~Clear, NEW q \in Filling, q \in Filling'
  PROVE  \/ Behind(q)' = Behind(q)
         \/ \E r \in Producers :
                PushLink(r) /\ t[r].ptr \in Behind(q) /\ Behind(q)' = Behind(q) \cup Behind(r)
<1> USE DEF qvars, pool, snap, hist
<1>1. TypeOK /\ ThreadPc BY DEF QueueInv
<1>2. ASSUME NEW p \in Producers, Push(p)
      PROVE  \/ Behind(q)' = Behind(q)
             \/ PushLink(p) /\ t[p].ptr \in Behind(q) /\ Behind(q)' = Behind(q) \cup Behind(p)
  <2>1. CASE QuietPush(p) BY <1>1, <2>1, QuietPushShape, ShapeKept
  <2>2. CASE PushTake(p) /\ free # << >> BY <2>2, TakeShape
  <2>3. CASE PushFresh(p) BY <2>3, FreshShape
  <2>4. CASE PushInit(p) BY <2>4, InitShape
  <2>5. CASE PushLink(p)
    <3>1. \/ \A s \in Filling' : Behind(s)' = Behind(s)
          \/ \E s \in Filling' :
               /\ t[p].ptr \in Behind(s) /\ Behind(s)' = Behind(s) \cup Behind(p)
               /\ \A r \in Filling' : r # s => Behind(r)' = Behind(r)
      BY <2>5, LinkShape
    <3>2. QED BY <2>5, <3>1
  <2>6. QED BY <1>2, <2>1, <2>2, <2>3, <2>4, <2>5 DEF Push, QuietPush
<1>3. ASSUME NEW c \in Consumers, Pop(c) PROVE Behind(q)' = Behind(q)
  <2>1. CASE PopSwing(c) BY <2>1, SwingShape
  <2>2. CASE QuietPop(c) BY <1>1, <2>2, QuietPopShape, ShapeKept
  <2>3. CASE PopReturn(c) BY <2>3, ReturnShape
  <2>4. QED BY <1>3, <2>1, <2>2, <2>3 DEF Pop, QuietPop
<1>4. QED BY <1>2, <1>3 DEF Next

\* The next pointer of a node in the queue, once set, is left alone.
LEMMA QueuedNext ==
  ASSUME QueueInv, Next, ~Clear, NEW m \in InQueue, nextOf[m].ptr # NULL
  PROVE  nextOf'[m] = nextOf[m]
<1>1. m \in Node BY Places
<1>2. ASSUME NEW p \in Producers, PushInit(p), m = node[p] PROVE FALSE
  <2>1. p \in Filling /\ Behind(p) = {m} BY <1>2, InitShape
  <2>2. QED BY <2>1 DEF QueueInv, PlaceInv
<1>3. QED BY <1>1, <1>2, NextStep

\* Every step keeps the tail in the queue, its tag counting its moves, and segments
\* linked to segments of later loads.
LEMMA TailStep ==
  ASSUME QueueInv, OneConsumer, Next, ~Clear
  PROVE  TailInv'
<1>1. TypeOK /\ ThreadPc /\ PlaceInv /\ TailInv /\ PopInv BY DEF QueueInv
<1>2. \/ tail' = tail
      \/ /\ tail'.tag = tail.tag + 1 /\ head' = head /\ InQueue' = InQueue
         /\ tail'.ptr \in InQueue /\ tail'.ptr # head.ptr
  BY TailMoves
<1>3. tail.tag \in Nat /\ \A x \in Thread : t[x].tag \in Nat BY <1>1 DEF TypeOK, Tagged
<1>4. \A p \in Producers : p \in Thread BY DEF Thread
<1>5. 1 .. fresh \subseteq 1 .. fresh'
  <2>1. fresh \in Nat BY <1>1, QueueAssumption DEF TypeOK, Node
  <2>2. fresh' = fresh \/ fresh' = fresh + 1
    BY DEF Next, Push, Pop, PushTake, PushFresh, PushInit, PushTail, PushNext, PushLink,
           PushLinkFails, PushHelp, PushSwing, PushSize, PopHead, PopTail, PopEmpty, PopNext,
           PopHelp, PopSwing, PopSwingFails, PopCopy, PopReturn, PopSize, pool
  <2>3. QED BY <2>1, <2>2
<1>6. tail'.ptr \in InQueue'
  <2>1. tail.ptr \in InQueue BY Places
  <2>2. CASE tail' # tail BY <1>2, <2>2
  <2>3. CASE tail' = tail
    <3>1. CASE InQueue \subseteq InQueue' BY <2>1, <2>3, <3>1
    <3>2. ASSUME NEW c \in Consumers, PopSwing(c), InQueue' = InQueue \ {head.ptr}
          PROVE  tail'.ptr \in InQueue'
      <4>1. pc[c] = "pop_swing" BY <3>2 DEF PopSwing, Goto
      <4>2. tail.ptr # head.ptr BY <1>1, <4>1 DEF PopInv
      <4>3. QED BY <2>1, <2>3, <3>2, <4>2
    <3>3. QED BY <3>1, <3>2, HeadMoves
  <2>4. QED BY <2>2, <2>3
<1>7. ASSUME NEW x \in Thread, pc'[x] \in LoadedPc
      PROVE  /\ t'[x].ptr \in 1 .. fresh' /\ t'[x].tag <= tail'.tag
             /\ t'[x].tag = tail'.tag => t'[x] = tail'
  <2>1. CASE t'[x] = tail /\ tail' = tail
    <3>1. tail.ptr \in 1 .. fresh BY Places
    <3>2. QED BY <1>3, <1>5, <2>1, <3>1
  <2>2. CASE pc[x] \in LoadedPc /\ t'[x] = t[x]
    <3>1. /\ t[x].ptr \in 1 .. fresh /\ t[x].tag <= tail.tag
          /\ t[x].tag = tail.tag => t[x] = tail
      BY <1>1, <2>2 DEF TailInv
    <3>2. t[x].ptr \in 1 .. fresh' BY <1>5, <3>1
    <3>3. QED BY <1>2, <1>3, <2>2, <3>1, <3>2
  <2>3. QED BY <1>7, <2>1, <2>2, LoadedStep
<1>8. ASSUME NEW p \in Producers
      PROVE  /\ pc'[p] = "push_link" => n'[p].ptr = NULL
             /\ pc'[p] = "push_help" => n'[p].ptr # NULL
             /\ pc'[p] = "push_help" /\ tail' = t'[p] => nextOf'[tail'.ptr].ptr = n'[p].ptr
             /\ pc'[p] = "push_swing" /\ tail' = t'[p] => nextOf'[tail'.ptr].ptr = node'[p]
  <2>1. ASSUME pc[p] \in LoadedPc, tail' = t[p] PROVE tail' = tail
    <3>1. t[p].tag <= tail.tag BY <1>1, <1>4, <2>1 DEF TailInv
    <3>2. QED BY <1>2, <1>3, <1>4, <2>1, <3>1
  <2>2. CASE /\ pc'[p] = pc[p] /\ t'[p] = t[p] /\ n'[p] = n[p] /\ node'[p] = node[p]
    <3>1. pc[p] = "push_link" => n[p].ptr = NULL BY <1>1 DEF TailInv
    <3>2. pc[p] = "push_help" => n[p].ptr # NULL BY <1>1 DEF TailInv
    <3>3. ASSUME pc[p] = "push_help", tail' = t[p] PROVE nextOf'[tail'.ptr].ptr = n[p].ptr
      <4>1. tail' = tail BY <2>1, <3>3 DEF LoadedPc
      <4>2. nextOf[tail.ptr].ptr = n[p].ptr BY <1>1, <3>3, <4>1 DEF TailInv
      <4>3. nextOf'[tail.ptr] = nextOf[tail.ptr] BY <3>2, <3>3, <4>2, Places, QueuedNext
      <4>4. QED BY <4>1, <4>2, <4>3
    <3>4. ASSUME pc[p] = "push_swing", tail' = t[p] PROVE nextOf'[tail'.ptr].ptr = node[p]
      <4>1. tail' = tail BY <2>1, <3>4 DEF LoadedPc
      <4>2. nextOf[tail.ptr].ptr = node[p] BY <1>1, <3>4, <4>1 DEF TailInv
      <4>3. node[p] # NULL BY <1>1, <3>4, QueueAssumption DEF ThreadPc
      <4>4. nextOf'[tail.ptr] = nextOf[tail.ptr] BY <4>2, <4>3, Places, QueuedNext
      <4>5. QED BY <4>1, <4>2, <4>4
    <3>5. QED BY <2>2, <3>1, <3>2, <3>3, <3>4
  <2>3. CASE Push(p)
    <3>1. \A a, b : Goto(p, a, b) => pc[p] = a /\ pc'[p] = b BY <1>1, <1>4, Moves
    <3>2. CASE PushTake(p) BY <3>1, <3>2 DEF PushTake
    <3>3. CASE PushFresh(p) BY <3>1, <3>3 DEF PushFresh
    <3>4. CASE PushInit(p) BY <3>1, <3>4 DEF PushInit
    <3>5. CASE PushTail(p) BY <3>1, <3>5 DEF PushTail
    <3>6. CASE PushNext(p)
      <4>1. /\ pc'[p] = IF nextOf[t[p].ptr].ptr = NULL THEN "push_link" ELSE "push_help"
            /\ n' = [n EXCEPT ![p] = nextOf[t[p].ptr]] /\ nextOf' = nextOf /\ t' = t
        BY <3>1, <3>6 DEF PushNext, qvars
      <4>2. n'[p] = nextOf[t[p].ptr] BY <1>1, <1>4, <4>1 DEF TypeOK
      <4>3. QED BY <4>1, <4>2
    <3>7. CASE PushLink(p)
      <4>1. pc'[p] = "push_swing" /\ t' = t /\ tail' = tail /\ node' = node
        BY <3>1, <3>7 DEF PushLink
      <4>2. nextOf'[t[p].ptr].ptr = node[p] BY <3>7, LinkShape
      <4>3. QED BY <4>1, <4>2
    <3>8. CASE PushLinkFails(p) BY <3>1, <3>8 DEF PushLinkFails
    <3>9. CASE PushHelp(p) BY <3>1, <3>9 DEF PushHelp
    <3>10. CASE PushSwing(p) BY <3>1, <3>10 DEF PushSwing
    <3>11. CASE PushSize(p) BY <3>1, <3>11 DEF PushSize
    <3>12. QED BY <2>3, <3>2, <3>3, <3>4, <3>5, <3>6, <3>7, <3>8, <3>9, <3>10, <3>11 DEF Push
  <2>4. p \notin Consumers BY QueueAssumption
  <2>5. QED BY <1>4, <2>2, <2>3, <2>4, OneMoves
<1>9. ASSUME NEW p \in Producers, NEW q \in Producers,
             pc'[p] \in {"push_next", "push_link"}, pc'[q] \in {"push_next", "push_link"},
             t'[p].ptr \in Behind(q)'
      PROVE  t'[p].tag < t'[q].tag
  <2> DEFINE NextPc == {"push_next", "push_link"}
  <2>1. ASSUME NEW x \in Producers, pc'[x] \in NextPc
        PROVE  \/ pc[x] \in NextPc /\ t'[x] = t[x]
               \/ PushTail(x) /\ t'[x] = tail /\ pc[x] = "push_tail"
    <3>1. x \in Thread /\ x \notin Consumers BY QueueAssumption DEF Thread
    <3>2. CASE pc'[x] = pc[x] /\ t'[x] = t[x] BY <2>1, <3>2
    <3>3. CASE Push(x)
      <4>1. \A a, b : Goto(x, a, b) => pc[x] = a /\ pc'[x] = b BY <1>1, <3>1, Moves
      <4>2. ~PushTake(x) BY <2>1, <4>1 DEF PushTake
      <4>3. ~PushFresh(x) BY <2>1, <4>1 DEF PushFresh
      <4>4. ~PushInit(x) BY <2>1, <4>1 DEF PushInit
      <4>5. CASE PushTail(x)
        <5>1. t'[x] = tail BY <1>1, <3>1, <4>5 DEF PushTail, TypeOK
        <5>2. QED BY <4>1, <4>5, <5>1 DEF PushTail
      <4>6. CASE PushNext(x) BY <4>1, <4>6 DEF PushNext
      <4>7. ~PushLink(x) BY <2>1, <4>1 DEF PushLink
      <4>8. ~PushLinkFails(x) BY <2>1, <4>1 DEF PushLinkFails
      <4>9. ~PushHelp(x) BY <2>1, <4>1 DEF PushHelp
      <4>10. ~PushSwing(x) BY <2>1, <4>1 DEF PushSwing
      <4>11. ~PushSize(x) BY <2>1, <4>1 DEF PushSize
      <4>12. QED BY <3>3, <4>2, <4>3, <4>4, <4>5, <4>6, <4>7, <4>8, <4>9, <4>10, <4>11 DEF Push
    <3>4. QED BY <3>1, <3>2, <3>3, OneMoves
  <2>2. q \in Filling /\ q \in Filling'
    <3>1. pc[q] \in FillPc /\ pc'[q] \in FillPc BY <1>9, <2>1 DEF FillPc
    <3>2. QED BY <3>1 DEF Filling
  <2>3. tail.ptr \notin Behind(q) BY <1>1, <2>2, Places DEF PlaceInv
  <2>4. ASSUME NEW r \in Producers, PushLink(r), PushTail(p) \/ PushTail(q) PROVE FALSE
    <3>1. r \in Thread /\ p \in Thread /\ q \in Thread BY <1>4
    <3>2. pc[r] = "push_link" /\ pc'[r] = "push_swing" BY <1>1, <2>4, <3>1, Moves DEF PushLink
    <3>3. \A y \in Thread : y # r => pc'[y] = pc[y] BY <1>1, <2>4, <3>1, Moves DEF PushLink
    <3>4. PushTail(p) => pc[p] = "push_tail" /\ pc'[p] = "push_next"
      BY <1>1, <3>1, Moves DEF PushTail
    <3>5. PushTail(q) => pc[q] = "push_tail" /\ pc'[q] = "push_next"
      BY <1>1, <3>1, Moves DEF PushTail
    <3>6. QED BY <2>4, <3>1, <3>2, <3>3, <3>4, <3>5
  <2>5. CASE PushTail(p) /\ t'[p] = tail
    <3>1. Behind(q)' = Behind(q) BY <2>2, <2>4, <2>5, BehindStep
    <3>2. QED BY <1>9, <2>3, <2>5, <3>1
  <2>6. CASE PushTail(q) /\ t'[q] = tail /\ pc[p] \in NextPc /\ t'[p] = t[p]
    <3>1. Behind(q)' = Behind(q) BY <2>2, <2>4, <2>6, BehindStep
    <3>2. t[p].tag <= tail.tag /\ (t[p].tag = tail.tag => t[p] = tail)
      BY <1>1, <1>4, <2>6 DEF TailInv, LoadedPc
    <3>3. t[p] # tail BY <1>9, <2>3, <2>6, <3>1
    <3>4. QED BY <1>3, <1>4, <2>6, <3>2, <3>3
  <2>7. CASE pc[p] \in NextPc /\ t'[p] = t[p] /\ pc[q] \in NextPc /\ t'[q] = t[q]
    <3>1. CASE t[p].ptr \in Behind(q) BY <1>1, <2>7, <3>1 DEF TailInv
    <3>2. ASSUME NEW r \in Producers, PushLink(r), t[r].ptr \in Behind(q), t[p].ptr \in Behind(r)
          PROVE  t[p].tag < t[q].tag
      <4>1. pc[r] = "push_link" BY <3>2 DEF PushLink, Goto
      <4>2. t[p].tag < t[r].tag BY <1>1, <2>7, <3>2, <4>1 DEF TailInv
      <4>3. t[r].tag < t[q].tag BY <1>1, <2>7, <3>2, <4>1 DEF TailInv
      <4>4. QED BY <1>3, <1>4, <4>2, <4>3
    <3>3. QED BY <1>9, <2>2, <2>7, <3>1, <3>2, BehindStep
  <2>8. QED BY <1>9, <2>1, <2>5, <2>6, <2>7
<1>10. QED BY <1>6, <1>7, <1>8, <1>9 DEF TailInv

\* Every step keeps the consumer's snapshot good: nobody else moves the head, and
\* the tail has left it before it moves.
LEMMA PopStep ==
  ASSUME QueueInv, OneConsumer, Next, ~Clear
  PROVE  PopInv'
<1> USE DEF qvars, pool, snap, hist
<1>1. TypeOK /\ ThreadPc /\ PlaceInv /\ TailInv /\ PopInv BY DEF QueueInv
<1>2. \/ tail' = tail
      \/ /\ tail'.tag = tail.tag + 1 /\ head' = head /\ InQueue' = InQueue
         /\ tail'.ptr \in InQueue /\ tail'.ptr # head.ptr
  BY TailMoves
<1>3. head.ptr \in InQueue BY Places
<1>4. \A d, e \in Consumers : d = e BY DEF OneConsumer
<1> SUFFICES ASSUME NEW c \in Consumers
             PROVE  (/\ pc[c] \in {"pop_tail", "pop_next", "pop_help", "pop_swing"} => h[c] = head
                     /\ pc[c] \in {"pop_next", "pop_help"} /\ t[c] # tail => tail.ptr # head.ptr
                     /\ pc[c] = "pop_help" => t[c].ptr = head.ptr
                     /\ pc[c] \in {"pop_help", "pop_swing"} =>
                          n[c].ptr # NULL /\ n[c].ptr = nextOf[head.ptr].ptr
                     /\ pc[c] = "pop_swing" => tail.ptr # head.ptr
                     /\ pc[c] = "pop_copy" => n[c].ptr = head.ptr)'
  BY DEF PopInv
<1>5. c \in Thread /\ c \notin Producers BY QueueAssumption DEF Thread
<1>6. CASE PopSwing(c)
  <2>1. pc'[c] = "pop_copy" BY <1>1, <1>5, <1>6, Moves DEF PopSwing
  <2>2. n' = n BY <1>6 DEF PopSwing
  <2>3. head'.ptr = n[c].ptr BY <1>6, SwingShape
  <2>4. QED BY <2>1, <2>2, <2>3
<1>7. CASE ~PopSwing(c)
  <2>1. head' = head BY <1>4, <1>7, HeadMoves
  <2>2. nextOf[head.ptr].ptr # NULL => nextOf'[head.ptr] = nextOf[head.ptr] BY <1>3, QueuedNext
  <2>3. tail.ptr # head.ptr => tail'.ptr # head.ptr BY <1>2
  <2>4. tail' = tail \/ tail'.ptr # head.ptr BY <1>2
  <2>5. CASE pc'[c] = pc[c] /\ t'[c] = t[c] /\ n'[c] = n[c] /\ h'[c] = h[c]
    <3>1. /\ pc[c] \in {"pop_tail", "pop_next", "pop_help", "pop_swing"} => h[c] = head
          /\ pc[c] \in {"pop_next", "pop_help"} /\ t[c] # tail => tail.ptr # head.ptr
          /\ pc[c] = "pop_help" => t[c].ptr = head.ptr
          /\ pc[c] \in {"pop_help", "pop_swing"} =>
               n[c].ptr # NULL /\ n[c].ptr = nextOf[head.ptr].ptr
          /\ pc[c] = "pop_swing" => tail.ptr # head.ptr
          /\ pc[c] = "pop_copy" => n[c].ptr = head.ptr
      BY <1>1 DEF PopInv
    <3>2. pc[c] \in {"pop_next", "pop_help"} /\ t[c] # tail' => tail'.ptr # head.ptr
      BY <2>3, <2>4, <3>1
    <3>3. pc[c] \in {"pop_help", "pop_swing"} =>
             n[c].ptr # NULL /\ n[c].ptr = nextOf'[head.ptr].ptr
      BY <2>2, <3>1
    <3>4. QED BY <2>1, <2>3, <2>5, <3>1, <3>2, <3>3
  <2>6. CASE Pop(c)
    <3>1. \A a, b : Goto(c, a, b) => pc[c] = a /\ pc'[c] = b BY <1>1, <1>5, Moves
    <3>2. CASE PopHead(c)
      <4>1. pc'[c] = "pop_tail" BY <3>1, <3>2 DEF PopHead
      <4>2. h'[c] = head BY <1>1, <1>5, <3>2 DEF PopHead, TypeOK
      <4>3. QED BY <2>1, <4>1, <4>2
    <3>3. CASE PopTail(c)
      <4>1. pc[c] = "pop_tail" /\ pc'[c] = "pop_next" /\ h' = h /\ tail' = tail
        BY <3>1, <3>3 DEF PopTail
      <4>2. t'[c] = tail BY <1>1, <1>5, <3>3 DEF PopTail, TypeOK
      <4>3. h[c] = head BY <1>1, <4>1 DEF PopInv
      <4>4. QED BY <2>1, <4>1, <4>2, <4>3
    <3>4. CASE PopEmpty(c)
      <4>1. pc'[c] = "idle" BY <3>1, <3>4 DEF PopEmpty
      <4>2. QED BY <4>1
    <3>5. CASE PopNext(c)
      <4>1. /\ pc[c] = "pop_next" /\ h' = h /\ t' = t /\ tail' = tail /\ nextOf' = nextOf
            /\ nextOf[h[c].ptr].ptr # NULL
            /\ \/ pc'[c] = "pop_help" /\ h[c].ptr = t[c].ptr
               \/ pc'[c] = "pop_swing" /\ h[c].ptr # t[c].ptr
        BY <3>1, <3>5 DEF PopNext
      <4>2. n'[c] = nextOf[h[c].ptr] BY <1>1, <1>5, <3>5 DEF PopNext, TypeOK
      <4>3. h[c] = head /\ (t[c] # tail => tail.ptr # head.ptr) BY <1>1, <4>1 DEF PopInv
      <4>4. pc'[c] = "pop_swing" => tail.ptr # head.ptr BY <4>1, <4>3
      <4>5. QED BY <2>1, <4>1, <4>2, <4>3, <4>4
    <3>6. CASE PopHelp(c)
      <4>1. /\ pc[c] = "pop_help" /\ pc'[c] = "pop_swing" /\ h' = h /\ n' = n
            /\ SwingTail(c, n[c].ptr) /\ nextOf' = nextOf
        BY <3>1, <3>6 DEF PopHelp
      <4>2. /\ h[c] = head /\ (t[c] # tail => tail.ptr # head.ptr) /\ t[c].ptr = head.ptr
            /\ n[c].ptr # NULL /\ n[c].ptr = nextOf[head.ptr].ptr
        BY <1>1, <4>1 DEF PopInv
      <4>3. tail'.ptr # head.ptr
        <5>1. CASE tail # t[c] BY <2>3, <4>2, <5>1
        <5>2. CASE tail = t[c]
          <6>1. tail' = Retagged(t[c], n[c].ptr)
            BY <4>1, <5>2 DEF SwingTail, OneConsumer
          <6>2. tail'.tag = tail.tag + 1 /\ tail.tag \in Nat
            BY <1>1, <5>2, <6>1 DEF Retagged, TypeOK, Tagged
          <6>3. tail' # tail BY <6>2
          <6>4. QED BY <1>2, <6>3
        <5>3. QED BY <5>1, <5>2
      <4>4. QED BY <2>1, <4>1, <4>2, <4>3
    <3>7. CASE PopSwingFails(c)
      <4>1. pc'[c] = "pop_tail" BY <3>1, <3>7 DEF PopSwingFails
      <4>2. h'[c] = head BY <1>1, <1>5, <3>7 DEF PopSwingFails, TypeOK
      <4>3. QED BY <2>1, <4>1, <4>2
    <3>8. CASE PopCopy(c)
      <4>1. pc'[c] = "pop_return" BY <3>1, <3>8 DEF PopCopy
      <4>2. QED BY <4>1
    <3>9. CASE PopReturn(c)
      <4>1. pc'[c] = "pop_size" BY <3>1, <3>9 DEF PopReturn
      <4>2. QED BY <4>1
    <3>10. CASE PopSize(c)
      <4>1. pc'[c] = "idle" BY <3>1, <3>10 DEF PopSize
      <4>2. QED BY <4>1
    <3>11. QED BY <1>7, <2>6, <3>2, <3>3, <3>4, <3>5, <3>6, <3>7, <3>8, <3>9, <3>10 DEF Pop
  <2>7. QED BY <1>5, <2>5, <2>6, OneMoves
<1>8. QED BY <1>6, <1>7

\* Every step notes an empty queue for the consumers in a call.
LEMMA EmptyStep ==
  ASSUME Next
  PROVE  EmptyInv'
<1>1. Observe BY DEF Next, Push, Pop, Clear
<1>2. QED BY <1>1 DEF Observe, EmptyInv

\* Only linking adds a node with a value, and only moving the head removes one.
LEMMA LinkedStep ==
  ASSUME QueueInv, OneConsumer, Next, ~Clear
  PROVE  \/ /\ LinkedNodes' = LinkedNodes /\ sent' = sent
            /\ \A p \in Producers : ~PushLink(p)
            /\ \A c \in Consumers : ~PopSwing(c)
         \/ \E p \in Producers : PushLink(p)
         \/ \E c \in Consumers : PopSwing(c)
<1>1. TypeOK /\ ThreadPc BY DEF QueueInv
<1>2. ASSUME NEW p \in Producers, Push(p), ~PushLink(p)
      PROVE  LinkedNodes' = LinkedNodes /\ sent' = sent
  <2>1. CASE QuietPush(p)
    <3>1. LinkedNodes' = LinkedNodes BY <1>1, <2>1, QuietPushShape, ShapeKept
    <3>2. QED
      BY <2>1, <3>1 DEF QuietPush, PushTake, PushTail, PushNext, PushLinkFails, PushHelp,
                        PushSwing, PushSize, hist
  <2>2. CASE PushTake(p) /\ free # << >> BY <2>2, TakeShape DEF PushTake, hist
  <2>3. CASE PushFresh(p) BY <2>3, FreshShape DEF PushFresh, hist
  <2>4. CASE PushInit(p) BY <2>4, InitShape DEF PushInit, hist
  <2>5. QED BY <1>2, <2>1, <2>2, <2>3, <2>4 DEF Push, QuietPush
<1>3. ASSUME NEW c \in Consumers, Pop(c), ~PopSwing(c)
      PROVE  LinkedNodes' = LinkedNodes /\ sent' = sent
  <2>1. CASE QuietPop(c)
    <3>1. LinkedNodes' = LinkedNodes BY <1>1, <2>1, QuietPopShape, ShapeKept
    <3>2. QED
      BY <2>1, <3>1 DEF QuietPop, PopHead, PopTail, PopEmpty, PopNext, PopHelp,
                        PopSwingFails, PopCopy, PopSize, hist
  <2>2. CASE PopReturn(c) BY <2>2, ReturnShape DEF PopReturn, hist
  <2>3. QED BY <1>3, <2>1, <2>2 DEF Pop, QuietPop
<1>4. QED BY <1>2, <1>3 DEF Next

\* The value of a linked node stays, and so does that of the head.
LEMMA ValueKept ==
  ASSUME QueueInv, Next, ~Clear
  PROVE  /\ \A x \in LinkedNodes \cup InQueue : val'[x] = val[x]
         /\ \A p \in Producers : ~PushInit(p) => val'[node[p]] = val[node[p]] \/ ~(pc[p] \in FillPc)
<1> USE DEF qvars, pool, snap, hist
<1>1. TypeOK /\ ThreadPc /\ PlaceInv BY DEF QueueInv
<1>2. LinkedNodes \subseteq Node
  <2>1. InQueue \subseteq Node /\ \A q \in Filling : Behind(q) \subseteq Node BY Places
  <2>2. QED BY <2>1 DEF LinkedNodes
<1>3. InQueue \subseteq Node BY Places
<1>4. ASSUME NEW q \in Producers, PushInit(q)
      PROVE  /\ \A x \in LinkedNodes \cup InQueue : val'[x] = val[x]
             /\ \A p \in Producers : p # q /\ pc[p] \in FillPc => val'[node[p]] = val[node[p]]
  <2>1. q \in Filling /\ Behind(q) = {node[q]} /\ node[q] \in Node BY <1>4, InitShape
  <2>2. \A x \in Node : x # node[q] => val'[x] = val[x] BY <1>1, <1>4 DEF PushInit, TypeOK
  <2>3. node[q] \notin InQueue BY <1>1, <2>1 DEF PlaceInv
  <2>4. \A p \in Filling : p # q => node[q] \notin Behind(p) BY <1>1, <2>1 DEF PlaceInv
  <2>5. node[q] \notin LinkedNodes BY <2>1, <2>3, <2>4 DEF LinkedNodes
  <2>6. ASSUME NEW p \in Producers, p # q, pc[p] \in FillPc
        PROVE  val'[node[p]] = val[node[p]]
    <3>1. p \in Filling BY <2>6 DEF Filling
    <3>2. node[p] \in Behind(p) /\ node[p] \in Node BY <3>1, Places
    <3>3. QED BY <2>2, <2>4, <2>6, <3>1, <3>2
  <2>7. QED BY <1>2, <1>3, <2>2, <2>3, <2>5, <2>6
<1>5. CASE \A q \in Producers : ~PushInit(q)
  <2>1. val' = val
    BY <1>5 DEF Next, Push, Pop, PushTake, PushFresh, PushTail, PushNext, PushLink,
                PushLinkFails, PushHelp, PushSwing, PushSize, PopHead, PopTail, PopEmpty,
                PopNext, PopHelp, PopSwing, PopSwingFails, PopCopy, PopReturn, PopSize
  <2>2. QED BY <2>1
<1>6. QED BY <1>4, <1>5

\* What a consumer has taken off the queue grows when it moves the head, by the
\* value in the new dummy.
LEMMA TakenStep ==
  ASSUME QueueInv, OneConsumer, Next, ~Clear, NEW c \in Consumers
  PROVE  \/ ~PopSwing(c) /\ Taken(c)' = Taken(c)
         \/ PopSwing(c) /\ Taken(c)' = Append(Taken(c), val[head'.ptr])
<1> USE DEF qvars, pool, snap, hist
<1>1. TypeOK /\ ThreadPc /\ PopInv BY DEF QueueInv
<1>2. c \in Thread /\ c \notin Producers BY QueueAssumption DEF Thread
<1>3. pc[c] = "pop_copy" => n[c].ptr \in InQueue BY <1>1, Places DEF PopInv
<1>4. \A a, b : Goto(c, a, b) => pc[c] = a /\ pc'[c] = b BY <1>1, <1>2, Moves
<1>5. CASE /\ pc'[c] = pc[c] /\ n'[c] = n[c] /\ out'[c] = out[c] /\ got'[c] = got[c]
  <2>1. Taken(c)' = Taken(c)
    <3>1. CASE pc[c] = "pop_copy"
      <4>1. val'[n[c].ptr] = val[n[c].ptr] BY <1>3, <3>1, ValueKept
      <4>2. QED BY <1>5, <3>1, <4>1 DEF Taken
    <3>2. CASE pc[c] \in {"pop_return", "pop_size"} BY <1>5, <3>2 DEF Taken
    <3>3. CASE pc[c] \notin {"pop_copy", "pop_return", "pop_size"} BY <1>5, <3>3 DEF Taken
    <3>4. QED BY <3>1, <3>2, <3>3
  <2>2. ~PopSwing(c)
    <3>1. PopSwing(c) => pc[c] = "pop_swing" /\ pc'[c] = "pop_copy" BY <1>4 DEF PopSwing
    <3>2. QED BY <1>5, <3>1
  <2>3. QED BY <2>1, <2>2
<1>6. CASE Pop(c)
  <2> DEFINE Before == {"idle", "pop_tail", "pop_next", "pop_help", "pop_swing"}
  <2>1. ASSUME NEW a \in Before, NEW b \in Before, Goto(c, a, b), got' = got
        PROVE  ~PopSwing(c) /\ Taken(c)' = Taken(c)
    <3>1. pc[c] = a /\ pc'[c] = b BY <1>4, <2>1
    <3>2. Taken(c)' = Taken(c) BY <2>1, <3>1 DEF Taken
    <3>3. PopSwing(c) => pc'[c] = "pop_copy" BY <1>4 DEF PopSwing
    <3>4. QED BY <3>1, <3>2, <3>3
  <2>2. CASE PopHead(c) BY <2>1, <2>2 DEF PopHead
  <2>3. CASE PopTail(c) BY <2>1, <2>3 DEF PopTail
  <2>4. CASE PopEmpty(c) BY <2>1, <2>4 DEF PopEmpty
  <2>5. CASE PopNext(c)
    <3>1. Goto(c, "pop_next", "pop_help") \/ Goto(c, "pop_next", "pop_swing")
      BY <2>5 DEF PopNext
    <3>2. QED BY <2>1, <2>5, <3>1 DEF PopNext
  <2>6. CASE PopHelp(c) BY <2>1, <2>6 DEF PopHelp
  <2>7. CASE PopSwing(c)
    <3>1. /\ pc[c] = "pop_swing" /\ pc'[c] = "pop_copy" /\ n' = n /\ got' = got /\ val' = val
      BY <1>4, <2>7 DEF PopSwing
    <3>2. head'.ptr = n[c].ptr BY <2>7, SwingShape
    <3>3. Taken(c)' = Append(got[c], val[n[c].ptr]) BY <3>1 DEF Taken
    <3>4. Taken(c) = got[c] BY <3>1 DEF Taken
    <3>5. QED BY <2>7, <3>2, <3>3, <3>4
  <2>8. PopSwing(c) => pc[c] = "pop_swing" BY <1>4 DEF PopSwing
  <2>9. CASE PopSwingFails(c) BY <2>1, <2>9 DEF PopSwingFails
  <2>10. CASE PopCopy(c)
    <3>1. pc[c] = "pop_copy" /\ pc'[c] = "pop_return" /\ got' = got BY <1>4, <2>10 DEF PopCopy
    <3>2. out'[c] = val[n[c].ptr] BY <1>1, <2>10 DEF PopCopy, TypeOK
    <3>3. Taken(c)' = Append(got[c], val[n[c].ptr]) BY <3>1, <3>2 DEF Taken
    <3>4. Taken(c) = Append(got[c], val[n[c].ptr]) BY <3>1 DEF Taken
    <3>5. QED BY <2>8, <3>1, <3>3, <3>4
  <2>11. CASE PopReturn(c)
    <3>1. pc[c] = "pop_return" /\ pc'[c] = "pop_size" /\ got' = got /\ out' = out
      BY <1>4, <2>11 DEF PopReturn
    <3>2. QED BY <2>8, <3>1 DEF Taken
  <2>12. CASE PopSize(c)
    <3>1. pc[c] = "pop_size" /\ pc'[c] = "idle" BY <1>4, <2>12 DEF PopSize
    <3>2. got'[c] = Append(got[c], out[c]) BY <1>1, <2>12 DEF PopSize, TypeOK
    <3>3. QED BY <2>8, <3>1, <3>2 DEF Taken
  <2>13. QED BY <1>6, <2>2, <2>3, <2>4, <2>5, <2>6, <2>7, <2>9, <2>10, <2>11, <2>12 DEF Pop
<1>7. QED BY <1>2, <1>5, <1>6, OneMoves

\* A sequence without repetition that gets a value it does not have.
LEMMA AppendNew ==
  ASSUME NEW S, NEW s \in Seq(S), NEW e \in S, IsInjective(s), e \notin ToSet(s)
  PROVE  /\ Append(s, e) \in Seq(S) /\ IsInjective(Append(s, e))
         /\ ToSet(Append(s, e)) = ToSet(s) \cup {e}
<1> DEFINE L == Len(s)  w == Append(s, e)
<1>1. /\ L \in Nat /\ w \in Seq(S) /\ Len(w) = L + 1 /\ w[L + 1] = e
      /\ \A i \in 1 .. L : w[i] = s[i]
  OBVIOUS
<1>2. DOMAIN s = 1 .. L /\ DOMAIN w = 1 .. L + 1 BY <1>1
<1>3. ToSet(s) = {s[i] : i \in 1 .. L} /\ ToSet(w) = {w[i] : i \in 1 .. L + 1}
  BY <1>2 DEF ToSet
<1>4. \A i, j \in 1 .. L : s[i] = s[j] => i = j BY <1>2 DEF IsInjective
<1> HIDE DEF L, w
<1>5. \A i \in 1 .. L + 1 : i \in 1 .. L \/ i = L + 1 BY <1>1
<1>6. \A i \in 1 .. L : i \in 1 .. L + 1 /\ s[i] # e BY <1>1, <1>3
<1>7. IsInjective(w)
  <2>1. \A i, j \in 1 .. L + 1 : w[i] = w[j] => i = j BY <1>1, <1>4, <1>5, <1>6
  <2>2. QED BY <1>2, <2>1 DEF IsInjective
<1>8. ToSet(w) = ToSet(s) \cup {e}
  <2>1. L + 1 \in 1 .. L + 1 BY <1>1
  <2>2. \A x \in ToSet(w) : x \in ToSet(s) \cup {e} BY <1>1, <1>3, <1>5
  <2>3. \A x \in ToSet(s) \cup {e} : x \in ToSet(w) BY <1>1, <1>3, <1>6, <2>1
  <2>4. QED BY <2>2, <2>3
<1>9. QED BY <1>1, <1>7, <1>8 DEF w

\* A node filled and not linked keeps its producer's next value.
LEMMA FillingValues ==
  ASSUME QueueInv, Next, ~Clear, NEW p \in Producers, pc'[p] \in ReadyPc
  PROVE  val'[node'[p]] = <<p, sent'[p] + 1>>
<1> USE DEF qvars, pool, snap, hist
<1>1. TypeOK /\ ThreadPc /\ ValueInv BY DEF QueueInv
<1>2. p \in Thread /\ p \notin Consumers BY QueueAssumption DEF Thread
<1>3. ASSUME pc[p] \in ReadyPc, node'[p] = node[p], sent'[p] = sent[p], ~PushInit(p)
      PROVE  val'[node'[p]] = <<p, sent'[p] + 1>>
  <2>1. val[node[p]] = <<p, sent[p] + 1>> BY <1>1, <1>3 DEF ValueInv
  <2>2. pc[p] \in FillPc BY <1>3 DEF FillPc, ReadyPc
  <2>3. val'[node[p]] = val[node[p]] BY <1>3, <2>2, ValueKept
  <2>4. QED BY <1>3, <2>1, <2>3
<1>4. CASE pc'[p] = pc[p] /\ node'[p] = node[p] /\ sent'[p] = sent[p]
  <2>1. PushInit(p) => pc[p] = "push_init" BY <1>1, <1>2, Moves DEF PushInit
  <2>2. pc[p] \in ReadyPc /\ ~PushInit(p) BY <1>4, <2>1 DEF ReadyPc
  <2>3. QED BY <1>3, <1>4, <2>2
<1>5. CASE Push(p)
  <2>1. \A a, b : Goto(p, a, b) => pc[p] = a /\ pc'[p] = b BY <1>1, <1>2, Moves
  <2>2. CASE PushInit(p)
    <3>1. /\ pc[p] = "push_init" /\ node' = node /\ sent' = sent
          /\ val' = [val EXCEPT ![node[p]] = <<p, sent[p] + 1>>]
      BY <2>1, <2>2 DEF PushInit
    <3>2. node[p] \in Node BY <1>1, <3>1 DEF ThreadPc, FillPc
    <3>3. QED BY <1>1, <3>1, <3>2 DEF TypeOK
  <2>3. CASE PushTail(p)
    <3>1. pc[p] = "push_tail" /\ node' = node /\ sent' = sent BY <2>1, <2>3 DEF PushTail
    <3>2. ~PushInit(p) BY <2>1, <3>1 DEF PushInit
    <3>3. QED BY <1>3, <3>1, <3>2 DEF ReadyPc
  <2>4. CASE PushNext(p)
    <3>1. pc[p] = "push_next" /\ node' = node /\ sent' = sent BY <2>1, <2>4 DEF PushNext
    <3>2. ~PushInit(p) BY <2>1, <3>1 DEF PushInit
    <3>3. QED BY <1>3, <3>1, <3>2 DEF ReadyPc
  <2>5. CASE PushLinkFails(p)
    <3>1. pc[p] = "push_link" /\ node' = node /\ sent' = sent BY <2>1, <2>5 DEF PushLinkFails
    <3>2. ~PushInit(p) BY <2>1, <3>1 DEF PushInit
    <3>3. QED BY <1>3, <3>1, <3>2 DEF ReadyPc
  <2>6. CASE PushHelp(p)
    <3>1. pc[p] = "push_help" /\ node' = node /\ sent' = sent BY <2>1, <2>6 DEF PushHelp
    <3>2. ~PushInit(p) BY <2>1, <3>1 DEF PushInit
    <3>3. QED BY <1>3, <3>1, <3>2 DEF ReadyPc
  <2>7. ~PushTake(p) BY <2>1 DEF PushTake, ReadyPc
  <2>8. ~PushFresh(p) BY <2>1 DEF PushFresh, ReadyPc
  <2>9. ~PushLink(p) BY <2>1 DEF PushLink, ReadyPc
  <2>10. ~PushSwing(p) BY <2>1 DEF PushSwing, ReadyPc
  <2>11. ~PushSize(p) BY <2>1 DEF PushSize, ReadyPc
  <2>12. QED BY <1>5, <2>2, <2>3, <2>4, <2>5, <2>6, <2>7, <2>8, <2>9, <2>10, <2>11 DEF Push
<1>6. QED BY <1>2, <1>4, <1>5, OneMoves

\* Every step keeps a pushed value in one place, linked or taken.
LEMMA ValueStep ==
  ASSUME QueueInv, OneConsumer, Next, ~Clear
  PROVE  ValueInv'
<1>1. TypeOK /\ ThreadPc /\ ValueInv BY DEF QueueInv
<1>2. \A x \in LinkedNodes : val'[x] = val[x] BY ValueKept
<1>3. \A x, y \in LinkedNodes : val[x] = val[y] => x = y BY <1>1 DEF ValueInv
<1>4. LinkedValues \subseteq PushedValues BY <1>1 DEF ValueInv
<1>5. \A c \in Consumers :
        /\ Taken(c) \in Seq(Value) /\ IsInjective(Taken(c))
        /\ TakenSet(c) \subseteq PushedValues /\ TakenSet(c) \cap LinkedValues = {}
  BY <1>1 DEF ValueInv
<1>6. ~Clears => PushedValues \subseteq LinkedValues \cup UNION {TakenSet(c) : c \in Consumers}
  BY <1>1 DEF ValueInv
<1>7. \A p \in Producers : pc'[p] \in ReadyPc => val'[node'[p]] = <<p, sent'[p] + 1>>
  BY FillingValues
<1>8. CASE /\ LinkedNodes' = LinkedNodes /\ sent' = sent
           /\ \A p \in Producers : ~PushLink(p)
           /\ \A c \in Consumers : ~PopSwing(c)
  <2>1. LinkedValues' = LinkedValues BY <1>2, <1>8 DEF LinkedValues
  <2>2. PushedValues' = PushedValues BY <1>8 DEF PushedValues
  <2>3. \A c \in Consumers : Taken(c)' = Taken(c) BY <1>8, TakenStep
  <2>4. \A c \in Consumers : TakenSet(c)' = TakenSet(c) BY <2>3 DEF TakenSet
  <2>5. \A x, y \in LinkedNodes' : val'[x] = val'[y] => x = y BY <1>2, <1>3, <1>8
  <2>6. {TakenSet(c)' : c \in Consumers} = {TakenSet(c) : c \in Consumers} BY <2>4
  <2>7. ~Clears => PushedValues' \subseteq LinkedValues' \cup UNION {TakenSet(c)' : c \in Consumers}
    BY <1>6, <2>1, <2>2, <2>6
  <2>8. \A c \in Consumers :
          /\ Taken(c)' \in Seq(Value) /\ IsInjective(Taken(c))'
          /\ TakenSet(c)' \subseteq PushedValues' /\ TakenSet(c)' \cap LinkedValues' = {}
    BY <1>5, <2>1, <2>2, <2>3, <2>4
  <2>9. QED BY <1>4, <1>7, <2>1, <2>2, <2>5, <2>7, <2>8 DEF ValueInv
<1>9. ASSUME NEW p \in Producers, PushLink(p) PROVE ValueInv'
  <2> DEFINE m == node[p]  v == <<p, sent[p] + 1>>
  <2>1. LinkedNodes' = LinkedNodes \cup {m} /\ m \notin LinkedNodes BY <1>9, LinkPlaces
  <2>2. /\ sent' = [sent EXCEPT ![p] = sent[p] + 1] /\ val' = val /\ pc[p] = "push_link"
    BY <1>9 DEF PushLink, Goto
  <2>3. val[m] = v BY <1>1, <2>2 DEF ValueInv, ReadyPc
  <2>4. sent[p] \in 0 .. MaxPush /\ sent[p] < MaxPush /\ MaxPush \in Nat
    BY <1>1, <2>2, QueueAssumption DEF TypeOK, ThreadPc, FillPc
  <2>5. sent'[p] = sent[p] + 1 /\ \A q \in Producers : q # p => sent'[q] = sent[q]
    BY <1>1, <2>2 DEF TypeOK
  <2>6. v \in Value /\ v[1] = p /\ v[2] = sent[p] + 1 BY <2>4 DEF Value
  <2>7. v \notin PushedValues BY <2>4, <2>6 DEF PushedValues
  <2> HIDE DEF m
  <2>8. PushedValues' = PushedValues \cup {v}
    <3>1. ASSUME NEW w \in Value PROVE w \in PushedValues' <=> w \in PushedValues \cup {v}
      <4>1. PICK q \in Producers, k \in 1 .. MaxPush : w = <<q, k>> BY DEF Value
      <4>2. w[1] = q /\ w[2] = k BY <4>1
      <4>3. w = v <=> (q = p /\ k = sent[p] + 1) BY <4>1
      <4>4. w \in PushedValues <=> k <= sent[q] BY <4>2 DEF PushedValues
      <4>5. w \in PushedValues' <=> k <= sent'[q] BY <4>2 DEF PushedValues
      <4>6. CASE q = p
        <5>1. k <= sent[p] + 1 <=> (k <= sent[p] \/ k = sent[p] + 1) BY <2>4
        <5>2. QED BY <2>5, <4>3, <4>4, <4>5, <4>6, <5>1
      <4>7. CASE q # p BY <2>5, <4>3, <4>4, <4>5, <4>7
      <4>8. QED BY <4>6, <4>7
    <3>2. PushedValues \subseteq Value /\ PushedValues' \subseteq Value BY DEF PushedValues
    <3>3. QED BY <2>6, <3>1, <3>2
  <2> HIDE DEF v
  <2>9. LinkedValues' = LinkedValues \cup {v} BY <2>1, <2>2, <2>3 DEF LinkedValues
  <2>10. \A x \in LinkedNodes : val[x] # v BY <1>4, <2>7 DEF LinkedValues
  <2>11. \A x, y \in LinkedNodes' : val'[x] = val'[y] => x = y
    BY <1>3, <2>1, <2>2, <2>3, <2>10
  <2>12. \A c \in Consumers : ~PopSwing(c)
    <3> SUFFICES ASSUME NEW c \in Consumers, PopSwing(c) PROVE FALSE
      OBVIOUS
    <3>1. sent' = sent BY DEF PopSwing, hist
    <3>2. QED BY <2>4, <2>5, <3>1
  <2>13. \A c \in Consumers : Taken(c)' = Taken(c) BY <2>12, TakenStep
  <2>14. \A c \in Consumers : TakenSet(c)' = TakenSet(c) BY <2>13 DEF TakenSet
  <2>15. {TakenSet(c)' : c \in Consumers} = {TakenSet(c) : c \in Consumers} BY <2>14
  <2>16. ~Clears => PushedValues' \subseteq LinkedValues' \cup UNION {TakenSet(c)' : c \in Consumers}
    BY <1>6, <2>8, <2>9, <2>15
  <2>17. \A c \in Consumers :
           /\ Taken(c)' \in Seq(Value) /\ IsInjective(Taken(c))'
           /\ TakenSet(c)' \subseteq PushedValues' /\ TakenSet(c)' \cap LinkedValues' = {}
    BY <1>5, <2>7, <2>8, <2>9, <2>13, <2>14
  <2>18. LinkedValues' \subseteq PushedValues' BY <1>4, <2>8, <2>9
  <2>19. QED BY <1>7, <2>11, <2>16, <2>17, <2>18 DEF ValueInv
<1>10. ASSUME NEW c \in Consumers, PopSwing(c) PROVE ValueInv'
  <2> DEFINE m == head'.ptr  v == val[m]
  <2>1. LinkedNodes' = LinkedNodes \ {m} /\ m \in LinkedNodes BY <1>10, SwingShape
  <2>2. sent' = sent /\ val' = val BY <1>10 DEF PopSwing, hist
  <2>3. Taken(c)' = Append(Taken(c), v) BY <1>10, TakenStep
  <2> HIDE DEF m
  <2>4. v \in LinkedValues BY <2>1 DEF LinkedValues
  <2>5. LinkedValues' = LinkedValues \ {v} BY <1>3, <2>1, <2>2 DEF LinkedValues
  <2>6. PushedValues' = PushedValues BY <2>2 DEF PushedValues
  <2>7. v \in Value BY <1>4, <2>4 DEF PushedValues
  <2> HIDE DEF v
  <2>8. v \notin TakenSet(c) BY <1>5, <2>4
  <2>9. /\ Taken(c)' \in Seq(Value) /\ IsInjective(Taken(c))'
        /\ TakenSet(c)' = TakenSet(c) \cup {v}
    <3>1. Taken(c) \in Seq(Value) /\ IsInjective(Taken(c)) /\ v \notin ToSet(Taken(c))
      BY <1>5, <2>8 DEF TakenSet
    <3>2. /\ Append(Taken(c), v) \in Seq(Value) /\ IsInjective(Append(Taken(c), v))
          /\ ToSet(Append(Taken(c), v)) = ToSet(Taken(c)) \cup {v}
      BY <2>7, <3>1, AppendNew
    <3>3. IsInjective(Taken(c))' BY <2>3, <3>2
    <3>4. QED BY <2>3, <3>2, <3>3 DEF TakenSet
  <2>10. \A d \in Consumers : d = c BY DEF OneConsumer
  <2>11. \A x, y \in LinkedNodes' : val'[x] = val'[y] => x = y BY <1>3, <2>1, <2>2
  <2>12. TakenSet(c)' \subseteq PushedValues' /\ TakenSet(c)' \cap LinkedValues' = {}
    BY <1>4, <1>5, <2>4, <2>5, <2>6, <2>9
  <2>13. ~Clears => PushedValues' \subseteq LinkedValues' \cup UNION {TakenSet(d)' : d \in Consumers}
    <3>1. UNION {TakenSet(d) : d \in Consumers} = TakenSet(c) BY <2>10
    <3>2. UNION {TakenSet(d)' : d \in Consumers} = TakenSet(c)' BY <2>10
    <3>3. QED BY <1>6, <2>5, <2>6, <2>9, <3>1, <3>2
  <2>14. LinkedValues' \subseteq PushedValues' BY <1>4, <2>5, <2>6
  <2>15. \A d \in Consumers :
           /\ Taken(d)' \in Seq(Value) /\ IsInjective(Taken(d))'
           /\ TakenSet(d)' \subseteq PushedValues' /\ TakenSet(d)' \cap LinkedValues' = {}
    BY <2>9, <2>10, <2>12
  <2>16. QED BY <1>7, <2>11, <2>13, <2>14, <2>15 DEF ValueInv
<1>11. QED BY <1>8, <1>9, <1>10, LinkedStep

\* Linked nodes and threads on their way to the counter are finite sets.
LEMMA FiniteParts ==
  ASSUME QueueInv
  PROVE  /\ IsFiniteSet(LinkedNodes) /\ IsFiniteSet(Unsubtracted) /\ IsFiniteSet(Uncounted)
         /\ Cardinality(LinkedNodes) \in Nat /\ Cardinality(Unsubtracted) \in Nat
         /\ Cardinality(Uncounted) \in Nat
<1>1. IsFiniteSet(Node)
  <2>1. 1 \in Int /\ MaxNodes \in Int BY QueueAssumption
  <2>2. QED BY <2>1, FS_Interval DEF Node
<1>2. LinkedNodes \subseteq Node
  <2>1. InQueue \subseteq Node /\ \A q \in Filling : Behind(q) \subseteq Node BY Places
  <2>2. QED BY <2>1 DEF LinkedNodes
<1>3. IsFiniteSet(LinkedNodes) BY <1>1, <1>2, FS_Subset
<1>4. Unsubtracted \subseteq Consumers /\ Uncounted \subseteq Producers
  BY DEF Unsubtracted, Uncounted
<1>5. IsFiniteSet(Unsubtracted) /\ IsFiniteSet(Uncounted) BY <1>4, QueueAssumption, FS_Subset
<1>6. QED BY <1>3, <1>5, FS_CardinalityType

\* The size counter as a number modulo the size of its word.
LEMMA SizeAdds ==
  ASSUME NEW i \in Int
  PROVE  /\ Count(Count(i) - 1) = Count(i - 1)
         /\ Count(Count(i) + 1) = Count(i + 1)
<1>1. SizeModulus \in Nat \ {0} /\ Count(i) \in Int BY QueueAssumption DEF Count
<1>2. \A d \in Int : Count(Count(i) + d) = Count(i + d) BY <1>1, ModAdds DEF Count
<1>3. Count(Count(i) + (-1)) = Count(i + (-1)) BY <1>2
<1>4. Count(Count(i) + 1) = Count(i + 1) BY <1>2
<1>5. i + (-1) = i - 1 /\ Count(i) + (-1) = Count(i) - 1 BY <1>1
<1>6. QED BY <1>3, <1>4, <1>5

\* Values are counted when their push ends and subtracted when their pop ends.
LEMMA CountStep ==
  ASSUME QueueInv, OneConsumer, Next, ~Clear
  PROVE  CountInv'
<1> DEFINE k == Cardinality(LinkedNodes) + Cardinality(Unsubtracted) - Cardinality(Uncounted)
<1>1. TypeOK /\ ThreadPc BY DEF QueueInv
<1>2. /\ IsFiniteSet(LinkedNodes) /\ IsFiniteSet(Unsubtracted) /\ IsFiniteSet(Uncounted)
      /\ Cardinality(LinkedNodes) \in Nat /\ Cardinality(Unsubtracted) \in Nat
      /\ Cardinality(Uncounted) \in Nat
  BY FiniteParts
<1>3. size = Count(k) /\ k \in Int BY <1>2 DEF QueueInv, CountInv
<1>4. SizeModulus \in Nat \ {0} BY QueueAssumption
<1>5. Count(size + 1) = Count(k + 1) /\ Count(size - 1) = Count(k - 1)
  BY <1>3, SizeAdds
<1>6. ASSUME NEW p \in Producers, NEW a, NEW b, Goto(p, a, b)
      PROVE  /\ pc[p] = a /\ pc'[p] = b /\ Unsubtracted' = Unsubtracted
             /\ b \in {"push_swing", "push_size"} => Uncounted' = Uncounted \cup {p}
             /\ b \notin {"push_swing", "push_size"} => Uncounted' = Uncounted \ {p}
  <2>1. /\ pc[p] = a /\ pc'[p] = b /\ \A y \in Thread : y # p => pc'[y] = pc[y]
        /\ \A c \in Consumers : pc'[c] = pc[c]
    BY <1>1, <1>6, PushMoves
  <2>2. \A q \in Producers : q # p => pc'[q] = pc[q] BY <2>1 DEF Thread
  <2>3. QED BY <2>1, <2>2 DEF Unsubtracted, Uncounted
<1>7. ASSUME NEW c \in Consumers, NEW a, NEW b, Goto(c, a, b)
      PROVE  /\ pc[c] = a /\ pc'[c] = b /\ Uncounted' = Uncounted
             /\ b \in {"pop_copy", "pop_return", "pop_size"} =>
                    Unsubtracted' = Unsubtracted \cup {c}
             /\ b \notin {"pop_copy", "pop_return", "pop_size"} =>
                    Unsubtracted' = Unsubtracted \ {c}
  <2>1. /\ pc[c] = a /\ pc'[c] = b /\ \A y \in Thread : y # c => pc'[y] = pc[y]
        /\ \A p \in Producers : pc'[p] = pc[p]
    BY <1>1, <1>7, PopMoves
  <2>2. \A d \in Consumers : d # c => pc'[d] = pc[d] BY <2>1 DEF Thread
  <2>3. QED BY <2>1, <2>2 DEF Unsubtracted, Uncounted
<1>8. CASE /\ LinkedNodes' = LinkedNodes /\ size' = size
           /\ Unsubtracted' = Unsubtracted /\ Uncounted' = Uncounted
  BY <1>3, <1>8 DEF CountInv
<1>9. ASSUME NEW p \in Producers, Push(p) PROVE CountInv'
  <2>1. CASE PushLink(p)
    <3>1. /\ Goto(p, "push_link", "push_swing") /\ size' = size
      BY <2>1 DEF PushLink
    <3>2. Unsubtracted' = Unsubtracted /\ Uncounted' = Uncounted \cup {p} /\ p \notin Uncounted
      BY <1>6, <3>1 DEF Uncounted
    <3>3. LinkedNodes' = LinkedNodes \cup {node[p]} /\ node[p] \notin LinkedNodes
      BY <2>1, LinkPlaces
    <3>4. Cardinality(Uncounted') = Cardinality(Uncounted) + 1 BY <1>2, <3>2, FS_AddElement
    <3>5. Cardinality(LinkedNodes') = Cardinality(LinkedNodes) + 1
      BY <1>2, <3>3, FS_AddElement
    <3>6. Cardinality(LinkedNodes') + Cardinality(Unsubtracted') - Cardinality(Uncounted') = k
      BY <1>2, <3>2, <3>4, <3>5
    <3>7. QED BY <1>3, <3>1, <3>6 DEF CountInv
  <2>2. CASE PushSize(p)
    <3>1. Goto(p, "push_size", "idle") /\ size' = Count(size + 1) BY <2>2 DEF PushSize
    <3>2. Unsubtracted' = Unsubtracted /\ Uncounted' = Uncounted \ {p} /\ p \in Uncounted
      BY <1>6, <3>1 DEF Uncounted
    <3>3. LinkedNodes' = LinkedNodes
      BY <1>1, <2>2, QuietPushShape, ShapeKept DEF QuietPush
    <3>4. Cardinality(Uncounted') = Cardinality(Uncounted) - 1 BY <1>2, <3>2, FS_RemoveElement
    <3>5. Cardinality(LinkedNodes') + Cardinality(Unsubtracted') - Cardinality(Uncounted') = k + 1
      BY <1>2, <3>2, <3>3, <3>4
    <3>6. QED BY <1>5, <3>1, <3>5 DEF CountInv
  <2>3. CASE ~PushLink(p) /\ ~PushSize(p)
    <3>1. size' = size
      BY <1>9, <2>3 DEF Push, PushTake, PushFresh, PushInit, PushTail, PushNext,
                        PushLinkFails, PushHelp, PushSwing, qvars
    <3>2. LinkedNodes' = LinkedNodes
      <4>1. CASE QuietPush(p) BY <1>1, <4>1, QuietPushShape, ShapeKept
      <4>2. CASE PushTake(p) /\ free # << >> BY <4>2, TakeShape
      <4>3. CASE PushFresh(p) BY <4>3, FreshShape
      <4>4. CASE PushInit(p) BY <4>4, InitShape
      <4>5. QED BY <1>9, <2>3, <4>1, <4>2, <4>3, <4>4 DEF Push, QuietPush
    <3>3. ASSUME NEW a, NEW b, Goto(p, a, b),
                 \/ a = "push_swing" /\ b = "push_size"
                 \/ a \notin {"push_swing", "push_size"} /\ b \notin {"push_swing", "push_size"}
          PROVE  Unsubtracted' = Unsubtracted /\ Uncounted' = Uncounted
      BY <1>6, <3>3 DEF Uncounted
    <3>4. Unsubtracted' = Unsubtracted /\ Uncounted' = Uncounted
      <4>1. CASE PushTake(p)
        <5>1. Goto(p, "idle", "push_init") \/ Goto(p, "idle", "push_fresh")
          BY <4>1 DEF PushTake
        <5>2. QED BY <3>3, <5>1
      <4>2. CASE PushFresh(p) BY <3>3, <4>2 DEF PushFresh
      <4>3. CASE PushInit(p) BY <3>3, <4>3 DEF PushInit
      <4>4. CASE PushTail(p) BY <3>3, <4>4 DEF PushTail
      <4>5. CASE PushNext(p)
        <5>1. Goto(p, "push_next", "push_link") \/ Goto(p, "push_next", "push_help")
          BY <4>5 DEF PushNext
        <5>2. QED BY <3>3, <5>1
      <4>6. CASE PushLinkFails(p) BY <3>3, <4>6 DEF PushLinkFails
      <4>7. CASE PushHelp(p) BY <3>3, <4>7 DEF PushHelp
      <4>8. CASE PushSwing(p) BY <3>3, <4>8 DEF PushSwing
      <4>9. QED BY <1>9, <2>3, <4>1, <4>2, <4>3, <4>4, <4>5, <4>6, <4>7, <4>8 DEF Push
    <3>5. QED BY <1>8, <3>1, <3>2, <3>4
  <2>4. QED BY <2>1, <2>2, <2>3
<1>10. ASSUME NEW c \in Consumers, Pop(c) PROVE CountInv'
  <2>1. CASE PopSwing(c)
    <3>1. Goto(c, "pop_swing", "pop_copy") /\ size' = size BY <2>1 DEF PopSwing
    <3>2. Uncounted' = Uncounted /\ Unsubtracted' = Unsubtracted \cup {c} /\ c \notin Unsubtracted
      BY <1>7, <3>1 DEF Unsubtracted
    <3>3. LinkedNodes' = LinkedNodes \ {head'.ptr} /\ head'.ptr \in LinkedNodes
      BY <2>1, SwingShape
    <3>4. Cardinality(Unsubtracted') = Cardinality(Unsubtracted) + 1
      BY <1>2, <3>2, FS_AddElement
    <3>5. Cardinality(LinkedNodes') = Cardinality(LinkedNodes) - 1
      BY <1>2, <3>3, FS_RemoveElement
    <3>6. Cardinality(LinkedNodes') + Cardinality(Unsubtracted') - Cardinality(Uncounted') = k
      BY <1>2, <3>2, <3>4, <3>5
    <3>7. QED BY <1>3, <3>1, <3>6 DEF CountInv
  <2>2. CASE PopSize(c)
    <3>1. Goto(c, "pop_size", "idle") /\ size' = Count(size - 1) BY <2>2 DEF PopSize
    <3>2. Uncounted' = Uncounted /\ Unsubtracted' = Unsubtracted \ {c} /\ c \in Unsubtracted
      BY <1>7, <3>1 DEF Unsubtracted
    <3>3. LinkedNodes' = LinkedNodes
      BY <1>1, <2>2, QuietPopShape, ShapeKept DEF QuietPop
    <3>4. Cardinality(Unsubtracted') = Cardinality(Unsubtracted) - 1
      BY <1>2, <3>2, FS_RemoveElement
    <3>5. Cardinality(LinkedNodes') + Cardinality(Unsubtracted') - Cardinality(Uncounted') = k - 1
      BY <1>2, <3>2, <3>3, <3>4
    <3>6. QED BY <1>5, <3>1, <3>5 DEF CountInv
  <2>3. CASE ~PopSwing(c) /\ ~PopSize(c)
    <3>1. size' = size
      BY <1>10, <2>3 DEF Pop, PopHead, PopTail, PopEmpty, PopNext, PopHelp, PopSwingFails,
                         PopCopy, PopReturn, qvars
    <3>2. LinkedNodes' = LinkedNodes
      <4>1. CASE QuietPop(c) BY <1>1, <4>1, QuietPopShape, ShapeKept
      <4>2. CASE PopReturn(c) BY <4>2, ReturnShape
      <4>3. QED BY <1>10, <2>3, <4>1, <4>2 DEF Pop, QuietPop
    <3>3. ASSUME NEW a, NEW b, Goto(c, a, b),
                 \/ /\ a \in {"pop_copy", "pop_return"} /\ b \in {"pop_return", "pop_size"}
                 \/ /\ a \notin {"pop_copy", "pop_return", "pop_size"}
                    /\ b \notin {"pop_copy", "pop_return", "pop_size"}
          PROVE  Unsubtracted' = Unsubtracted /\ Uncounted' = Uncounted
      BY <1>7, <3>3 DEF Unsubtracted
    <3>4. Unsubtracted' = Unsubtracted /\ Uncounted' = Uncounted
      <4>1. CASE PopHead(c) BY <3>3, <4>1 DEF PopHead
      <4>2. CASE PopTail(c) BY <3>3, <4>2 DEF PopTail
      <4>3. CASE PopEmpty(c) BY <3>3, <4>3 DEF PopEmpty
      <4>4. CASE PopNext(c)
        <5>1. Goto(c, "pop_next", "pop_help") \/ Goto(c, "pop_next", "pop_swing")
          BY <4>4 DEF PopNext
        <5>2. QED BY <3>3, <5>1
      <4>5. CASE PopHelp(c) BY <3>3, <4>5 DEF PopHelp
      <4>6. CASE PopSwingFails(c) BY <3>3, <4>6 DEF PopSwingFails
      <4>7. CASE PopCopy(c) BY <3>3, <4>7 DEF PopCopy
      <4>8. CASE PopReturn(c) BY <3>3, <4>8 DEF PopReturn
      <4>9. QED BY <1>10, <2>3, <4>1, <4>2, <4>3, <4>4, <4>5, <4>6, <4>7, <4>8 DEF Pop
    <3>5. QED BY <1>8, <3>1, <3>2, <3>4
  <2>4. QED BY <2>1, <2>2, <2>3
<1>11. QED BY <1>9, <1>10 DEF Next

\* After Clear no thread is in an operation: the dummy is the queue, and what was
\* delivered stays delivered.
LEMMA ClearStep ==
  ASSUME QueueInv, Clear
  PROVE  TailInv' /\ PopInv' /\ ValueInv' /\ CountInv'
<1>1. TypeOK /\ ThreadPc /\ ValueInv BY DEF QueueInv
<1>2. /\ Idle /\ Idle' /\ InQueue' = {1} /\ Filling' = {} /\ Uncounted' = {}
      /\ Unsubtracted' = {} /\ LinkedNodes' = {}
  BY ClearShape
<1>3. /\ tail'.ptr = 1 /\ size' = 0 /\ Clears /\ got' = got /\ sent' = sent
  BY DEF Clear, hist
<1>4. \A x \in Thread : pc[x] = "idle" /\ pc'[x] = "idle" BY <1>2 DEF Idle
<1>5. /\ \A p \in Producers : p \in Thread /\ pc'[p] = "idle"
      /\ \A c \in Consumers : c \in Thread /\ pc[c] = "idle" /\ pc'[c] = "idle"
  BY <1>4 DEF Thread
<1>6. TailInv' BY <1>2, <1>3, <1>4, <1>5 DEF TailInv, LoadedPc
<1>7. PopInv' BY <1>5 DEF PopInv
<1>8. ValueInv'
  <2>1. LinkedValues' = {} BY <1>2 DEF LinkedValues
  <2>2. PushedValues' = PushedValues BY <1>3 DEF PushedValues
  <2>3. ASSUME NEW c \in Consumers
        PROVE  Taken(c)' = Taken(c) /\ TakenSet(c)' = TakenSet(c)
    <3>1. Taken(c)' = got'[c] /\ Taken(c) = got[c] BY <1>5 DEF Taken
    <3>2. Taken(c)' = Taken(c) BY <1>3, <3>1
    <3>3. QED BY <3>2 DEF TakenSet
  <2>4. \A c \in Consumers :
          /\ Taken(c)' \in Seq(Value) /\ IsInjective(Taken(c))'
          /\ TakenSet(c)' \subseteq PushedValues'
          /\ TakenSet(c)' \cap LinkedValues' = {}
    BY <1>1, <2>1, <2>2, <2>3 DEF ValueInv
  <2>5. \A p \in Producers : pc'[p] \notin ReadyPc BY <1>5 DEF ReadyPc
  <2>6. \A y, z \in LinkedNodes' : val'[y] = val'[z] => y = z BY <1>2
  <2>7. LinkedValues' \subseteq PushedValues' BY <2>1
  <2>8. ~(~Clears) BY <1>3
  <2>9. QED BY <2>4, <2>5, <2>6, <2>7, <2>8 DEF ValueInv
<1>9. CountInv'
  <2>1. Cardinality({}) = 0 BY FS_EmptySet
  <2>2. SizeModulus \in Nat \ {0} BY QueueAssumption
  <2>3. 0 % SizeModulus = 0 BY <2>2
  <2>4. Cardinality({}) + Cardinality({}) - Cardinality({}) = 0 BY <2>1
  <2>5. QED BY <1>2, <1>3, <2>3, <2>4 DEF CountInv, Count
<1>10. QED BY <1>6, <1>7, <1>8, <1>9

\* The queue vlAsyncQueueInit makes: the dummy alone, and nobody in a call.
LEMMA InitInv ==
  ASSUME Init
  PROVE  QueueInv
<1>1. /\ head = [ptr |-> 1, tag |-> 0] /\ tail = [ptr |-> 1, tag |-> 0]
      /\ nextOf = [m \in Node |-> Null] /\ val = [m \in Node |-> NULL]
      /\ size = 0 /\ free = << >> /\ fresh = 1 /\ pc = [x \in Thread |-> "idle"]
      /\ sent = [p \in Producers |-> 0] /\ got = [c \in Consumers |-> << >>]
      /\ emptySeen = [c \in Consumers |-> TRUE]
  BY DEF Init
<1>2. 1 \in Node /\ SizeModulus \in Nat \ {0} BY QueueAssumption DEF Node
<1>3. TypeOK
  <2>1. /\ Null \in Tagged /\ head \in Tagged /\ tail \in Tagged
    BY <1>1, <1>2 DEF Tagged, Null
  <2>2. << >> \in Seq(Node) /\ << >> \in Seq(Value) OBVIOUS
  <2>3. 0 \in 0 .. SizeModulus - 1 /\ 0 \in 0 .. MaxPush BY <1>2, QueueAssumption
  <2>4. /\ nextOf \in [Node -> Tagged] /\ val \in [Node -> Value \cup {NULL}]
        /\ sent \in [Producers -> 0 .. MaxPush] /\ got \in [Consumers -> Seq(Value)]
        /\ emptySeen \in [Consumers -> BOOLEAN]
    BY <1>1, <2>1, <2>2, <2>3
  <2>5. /\ node \in [Producers -> Node \cup {NULL}] /\ h \in [Thread -> Tagged]
        /\ t \in [Thread -> Tagged] /\ n \in [Thread -> Tagged]
        /\ out \in [Consumers -> Value \cup {NULL}]
    BY <2>1 DEF Init
  <2>6. QED BY <1>1, <1>2, <2>1, <2>2, <2>3, <2>4, <2>5 DEF TypeOK
<1>4. \A x \in Thread : pc[x] = "idle" BY <1>1
<1>5. /\ \A p \in Producers : pc[p] = "idle"
      /\ \A c \in Consumers : pc[c] = "idle"
  BY <1>4 DEF Thread
<1>6. ThreadPc BY <1>1, <1>5 DEF ThreadPc, FillPc
<1>7. Idle BY <1>4 DEF Idle
<1>8. /\ Filling = {} /\ Popped = {} /\ LinkedNodes = InQueue \ {head.ptr}
      /\ Uncounted = {} /\ Unsubtracted = {}
  BY <1>7, IdleShape
<1>9. nextOf[1].ptr = NULL BY <1>1, <1>2 DEF Null
<1>10. Listed(nextOf, <<1>>) /\ ToSet(<<1>>) = {1} /\ ChainIn(nextOf, 1) = <<1>>
  BY <1>2, <1>9, OneListed
<1>11. Chain = <<1>> /\ InQueue = {1} /\ InFree = {}
  <2>1. Chain = <<1>> BY <1>1, <1>10 DEF Chain
  <2>2. InFree = {} BY <1>1 DEF InFree, ToSet
  <2>3. QED BY <1>10, <2>1, <2>2 DEF InQueue
<1>12. ListInv
  <2>1. <<1>>[1] = 1 OBVIOUS
  <2>2. Listed(nextOf, Chain) /\ Chain[1] = head.ptr BY <1>1, <1>10, <1>11, <2>1
  <2>3. \A q \in Producers : pc[q] \notin ReadyPc BY <1>5 DEF ReadyPc
  <2>4. QED BY <1>8, <2>2, <2>3 DEF ListInv
<1>13. PlaceInv
  <2>1. IsInjective(<< >>)
    <3>1. DOMAIN << >> = {} OBVIOUS
    <3>2. QED BY <3>1 DEF IsInjective
  <2>2. 1 .. fresh = {1} BY <1>1
  <2>3. UNION {Behind(q) : q \in Filling} = {} BY <1>8
  <2>4. QED BY <1>1, <1>8, <1>11, <2>1, <2>2, <2>3 DEF PlaceInv
<1>14. UsedInv BY <1>5, <1>8, <1>11 DEF UsedInv
<1>15. TailInv BY <1>1, <1>4, <1>5, <1>11 DEF TailInv, LoadedPc
<1>16. PopInv BY <1>5 DEF PopInv
<1>17. LinkedNodes = {} BY <1>1, <1>8, <1>11
<1>18. ValueInv
  <2>1. LinkedValues = {} BY <1>17 DEF LinkedValues
  <2>2. PushedValues = {}
    <3> SUFFICES ASSUME NEW v \in Value, v[2] <= sent[v[1]] PROVE FALSE
      BY DEF PushedValues
    <3>1. v[1] \in Producers /\ v[2] \in 1 .. MaxPush BY DEF Value
    <3>2. sent[v[1]] = 0 BY <1>1, <3>1
    <3>3. QED BY <3>1, <3>2, QueueAssumption
  <2>3. ASSUME NEW c \in Consumers
        PROVE  Taken(c) \in Seq(Value) /\ IsInjective(Taken(c)) /\ TakenSet(c) = {}
    <3>1. Taken(c) = got[c] BY <1>5 DEF Taken
    <3>2. Taken(c) = << >> BY <1>1, <3>1
    <3>3. DOMAIN << >> = {} /\ << >> \in Seq(Value) OBVIOUS
    <3>4. IsInjective(<< >>) BY <3>3 DEF IsInjective
    <3>5. ToSet(<< >>) = {} BY DEF ToSet
    <3>6. QED BY <3>2, <3>3, <3>4, <3>5 DEF TakenSet
  <2>4. \A p \in Producers : pc[p] \notin ReadyPc BY <1>5 DEF ReadyPc
  <2>5. QED BY <1>17, <2>1, <2>2, <2>3, <2>4 DEF ValueInv
<1>19. CountInv
  <2>1. Cardinality({}) = 0 BY FS_EmptySet
  <2>2. 0 % SizeModulus = 0 BY <1>2
  <2>3. Cardinality({}) + Cardinality({}) - Cardinality({}) = 0 BY <2>1
  <2>4. QED BY <1>1, <1>8, <1>17, <2>2, <2>3 DEF CountInv, Count
<1>20. EmptyInv BY <1>1 DEF EmptyInv
<1>21. QED
  BY <1>3, <1>6, <1>12, <1>13, <1>14, <1>15, <1>16, <1>18, <1>19, <1>20 DEF QueueInv

\* A step keeps the invariant.
LEMMA QueueStep ==
  ASSUME QueueInv, OneConsumer, Next
  PROVE  QueueInv'
<1>1. TypeOK' /\ ThreadPc' /\ UsedInv' /\ EmptyInv' BY TypeStep, ThreadPcStep, UsedStep, EmptyStep
<1>2. ListInv' /\ PlaceInv' BY ShapeStep
<1>3. TailInv' /\ PopInv' /\ ValueInv' /\ CountInv'
  <2>1. CASE Clear BY <2>1, ClearStep
  <2>2. CASE ~Clear BY <2>2, TailStep, PopStep, ValueStep, CountStep
  <2>3. QED BY <2>1, <2>2
<1>4. QED BY <1>1, <1>2, <1>3 DEF QueueInv

-------------------------------------------------------------------------------
(* The theorems.                                                           *)

\* A step that leaves every variable alone keeps the invariant.
LEMMA StutterStep ==
  ASSUME QueueInv, UNCHANGED vars
  PROVE  QueueInv'
<1> USE DEF vars
<1>1. TypeOK' BY DEF QueueInv, TypeOK
<1>2. ThreadPc' BY DEF QueueInv, ThreadPc
<1>3. /\ Chain' = Chain /\ Filling' = Filling /\ Leaving' = Leaving /\ InFree' = InFree
      /\ \A p \in Producers : Segment(p)' = Segment(p)
  BY DEF Chain, Filling, Leaving, InFree, Segment
<1>4. /\ InQueue' = InQueue /\ Popped' = Popped
      /\ \A p \in Producers : Behind(p)' = Behind(p)
  BY <1>3 DEF InQueue, Popped, Behind
<1>5. SameShape BY <1>3, <1>4 DEF SameShape
<1>6. ListInv' /\ PlaceInv' BY <1>5, ShapeInvKept
<1>7. UsedInv' BY <1>3, <1>4 DEF QueueInv, UsedInv
<1>8. TailInv' BY <1>4 DEF QueueInv, TailInv
<1>9. PopInv' BY DEF QueueInv, PopInv
<1>10. LinkedNodes' = LinkedNodes BY <1>5, ShapeKept
<1>11. LinkedValues' = LinkedValues BY <1>10 DEF LinkedValues
<1>12. PushedValues' = PushedValues BY DEF PushedValues
<1>13. ASSUME NEW c \in Consumers
       PROVE  Taken(c)' = Taken(c) /\ TakenSet(c)' = TakenSet(c)
  <2>1. Taken(c)' = Taken(c) BY DEF Taken
  <2>2. QED BY <2>1 DEF TakenSet
<1>14. ValueInv'
  <2>1. \A y, z \in LinkedNodes' : val'[y] = val'[z] => y = z
    BY <1>10 DEF QueueInv, ValueInv
  <2>2. LinkedValues' \subseteq PushedValues' BY <1>11, <1>12 DEF QueueInv, ValueInv
  <2>3. \A p \in Producers : pc'[p] \in ReadyPc => val'[node'[p]] = <<p, sent'[p] + 1>>
    BY DEF QueueInv, ValueInv
  <2>4. \A c \in Consumers :
          /\ Taken(c)' \in Seq(Value) /\ IsInjective(Taken(c))'
          /\ TakenSet(c)' \subseteq PushedValues'
          /\ TakenSet(c)' \cap LinkedValues' = {}
    BY <1>11, <1>12, <1>13 DEF QueueInv, ValueInv
  <2>5. {TakenSet(c)' : c \in Consumers} = {TakenSet(c) : c \in Consumers} BY <1>13
  <2>6. ~Clears => PushedValues' \subseteq LinkedValues'
                        \cup UNION {TakenSet(c)' : c \in Consumers}
    BY <1>11, <1>12, <2>5 DEF QueueInv, ValueInv
  <2>7. QED BY <2>1, <2>2, <2>3, <2>4, <2>6 DEF ValueInv
<1>15. Uncounted' = Uncounted /\ Unsubtracted' = Unsubtracted
  BY DEF Uncounted, Unsubtracted
<1>16. CountInv' BY <1>10, <1>15 DEF QueueInv, CountInv
<1>17. EmptyInv' BY DEF QueueInv, EmptyInv
<1>18. QED
  BY <1>1, <1>2, <1>6, <1>7, <1>8, <1>9, <1>14, <1>16, <1>17 DEF QueueInv

\* With one consumer the invariant holds in every state of vlAsyncQueue, for any
\* number of producers, pushes and nodes, and with vlAsyncQueueClear between
\* operations.
THEOREM QueueInvariant == OneConsumer => (Spec => []QueueInv)
<1> SUFFICES ASSUME OneConsumer PROVE Spec => []QueueInv
  OBVIOUS
<1>1. Init => QueueInv BY InitInv
<1>2. QueueInv /\ [Next]_vars => QueueInv' BY QueueStep, StutterStep
<1>3. QED BY <1>1, <1>2, PTL DEF Spec

-------------------------------------------------------------------------------
(* The properties.                                                         *)

\* A sequence without repetition is as long as the set of its elements is large.
LEMMA InjectiveLength ==
  ASSUME NEW S, NEW s \in Seq(S), IsInjective(s)
  PROVE  IsFiniteSet(ToSet(s)) /\ Cardinality(ToSet(s)) = Len(s)
<1>1. /\ Len(s) \in Nat /\ DOMAIN s = 1 .. Len(s) /\ ToSet(s) = {s[i] : i \in 1 .. Len(s)}
      /\ s \in [1 .. Len(s) -> ToSet(s)]
  BY DEF ToSet
<1>2. s \in Bijection(1 .. Len(s), ToSet(s))
  BY <1>1 DEF Bijection, Injection, Surjection
<1>3. IsFiniteSet(1 .. Len(s)) /\ Cardinality(1 .. Len(s)) = Len(s)
  <2>1. 1 \in Int /\ Len(s) \in Int BY <1>1
  <2>2. /\ IsFiniteSet(1 .. Len(s))
        /\ Cardinality(1 .. Len(s)) = IF 1 > Len(s) THEN 0 ELSE Len(s) - 1 + 1
    BY <2>1, FS_Interval
  <2>3. (IF 1 > Len(s) THEN 0 ELSE Len(s) - 1 + 1) = Len(s) BY <1>1
  <2>4. QED BY <2>2, <2>3
<1>4. ExistsBijection(1 .. Len(s), ToSet(s)) BY <1>2 DEF ExistsBijection
<1>5. QED BY <1>3, <1>4, FS_Bijection

\* The chain has as many nodes as the queue, the dummy and the values.
LEMMA ChainCounts ==
  ASSUME QueueInv
  PROVE  /\ Chain \in Seq(Node) /\ IsInjective(Chain) /\ Len(Chain) \in Nat /\ Len(Chain) >= 1
         /\ IsFiniteSet(InQueue) /\ Cardinality(InQueue) = Len(Chain)
         /\ Cardinality(InQueue \ {head.ptr}) = Len(Chain) - 1
<1>1. Listed(nextOf, Chain) BY DEF QueueInv, ListInv
<1>2. Chain \in Seq(Node) /\ Len(Chain) \in Nat /\ Len(Chain) >= 1 BY <1>1, ListParts
<1>3. DOMAIN Chain = 1 .. Len(Chain) BY <1>2
<1>4. IsInjective(Chain) BY <1>1, <1>3 DEF Listed, IsInjective
<1>5. IsFiniteSet(InQueue) /\ Cardinality(InQueue) = Len(Chain)
  BY <1>2, <1>4, InjectiveLength DEF InQueue
<1>6. head.ptr \in InQueue BY Places
<1>7. Cardinality(InQueue \ {head.ptr}) = Cardinality(InQueue) - 1
  BY <1>5, <1>6, FS_RemoveElement
<1>8. QED BY <1>2, <1>4, <1>5, <1>7

\* With one consumer, in every state a node that was cut is in one place, the tail
\* is in the queue, and between operations no node is lost.
THEOREM NodesAreSound == OneConsumer => (Spec => []NodesSound)
<1> SUFFICES ASSUME OneConsumer PROVE Spec => []NodesSound
  OBVIOUS
<1>1. QueueInv => NodesSound
  <2> SUFFICES ASSUME QueueInv PROVE NodesSound
    OBVIOUS
  <2>1. TypeOK /\ PlaceInv /\ TailInv BY DEF QueueInv
  <2>2. NodesDisjoint
    <3>1. IsInjective(Chain) /\ IsInjective(free) /\ InQueue \cap InFree = {}
      BY <2>1, ChainCounts DEF PlaceInv
    <3>2. {node[p] : p \in Filling} \cap (InQueue \cup InFree) = {}
      <4>1. \A p \in Filling : node[p] \in Behind(p) BY Places
      <4>2. QED BY <2>1, <4>1 DEF PlaceInv
    <3>3. Filling = {q \in Producers : pc[q] \in {"push_init", "push_tail", "push_next",
                                                  "push_link", "push_help"}}
      BY DEF Filling, FillPc
    <3>4. QED BY <3>1, <3>2, <3>3 DEF NodesDisjoint, InQueue, InFree
  <2>3. TailInQueue BY <2>1 DEF TailInv, TailInQueue, InQueue
  <2>4. NodesConserved
    <3> SUFFICES ASSUME Idle PROVE Len(Chain) + Len(free) = fresh
      BY DEF NodesConserved
    <3>1. Filling = {} /\ Popped = {} BY IdleShape
    <3>2. InQueue \cup InFree = 1 .. fresh /\ InQueue \cap InFree = {} /\ IsInjective(free)
      BY <2>1, <3>1 DEF PlaceInv
    <3>3. fresh \in Nat /\ fresh >= 1 /\ free \in Seq(Node)
      BY <2>1, QueueAssumption DEF TypeOK, Node
    <3>4. IsFiniteSet(InFree) /\ Cardinality(InFree) = Len(free) /\ Len(free) \in Nat
      BY <3>2, <3>3, InjectiveLength DEF InFree
    <3>5. IsFiniteSet(InQueue) /\ Cardinality(InQueue) = Len(Chain) /\ Len(Chain) \in Nat
      BY ChainCounts
    <3>6. Cardinality(InQueue \cup InFree)
            = Cardinality(InQueue) + Cardinality(InFree) - Cardinality(InQueue \cap InFree)
      BY <3>4, <3>5, FS_Union
    <3>7. Cardinality(InQueue \cap InFree) = 0 BY <3>2, FS_EmptySet
    <3>8. Cardinality(1 .. fresh) = fresh
      <4>1. 1 \in Int /\ fresh \in Int BY <3>3
      <4>2. Cardinality(1 .. fresh) = IF 1 > fresh THEN 0 ELSE fresh - 1 + 1
        BY <4>1, FS_Interval
      <4>3. (IF 1 > fresh THEN 0 ELSE fresh - 1 + 1) = fresh BY <3>3
      <4>4. QED BY <4>2, <4>3
    <3>9. Cardinality(InQueue \cup InFree) = fresh BY <3>2, <3>8
    <3>10. fresh = Len(Chain) + Len(free) - 0 BY <3>4, <3>5, <3>6, <3>7, <3>9
    <3>11. QED BY <3>3, <3>4, <3>5, <3>10
  <2>5. QED BY <2>1, <2>2, <2>3, <2>4 DEF NodesSound
<1>2. Spec => []QueueInv BY QueueInvariant
<1>3. QED BY <1>1, <1>2, PTL

\* With one consumer the counter is, between operations, the number of queued values:
\* every push has added one and every pop subtracted one.
THEOREM SizeIsContents == OneConsumer => (Spec => []SizeSettles)
<1> SUFFICES ASSUME OneConsumer PROVE Spec => []SizeSettles
  OBVIOUS
<1>1. QueueInv => SizeSettles
  <2> SUFFICES ASSUME QueueInv, Idle PROVE size = Len(Contents) % SizeModulus
    BY DEF SizeSettles
  <2>1. LinkedNodes = InQueue \ {head.ptr} /\ Uncounted = {} /\ Unsubtracted = {}
    BY IdleShape
  <2>2. Cardinality({}) = 0 BY FS_EmptySet
  <2>3. Cardinality(LinkedNodes) = Len(Chain) - 1 /\ Len(Chain) - 1 \in Nat
    BY <2>1, ChainCounts
  <2>4. Len(Contents) = Len(Chain) - 1 BY <2>3 DEF Contents
  <2>5. Cardinality(LinkedNodes) + Cardinality({}) - Cardinality({}) = Len(Contents)
    BY <2>2, <2>3, <2>4
  <2>6. QED BY <2>1, <2>5 DEF QueueInv, CountInv, Count
<1>2. Spec => []QueueInv BY QueueInvariant
<1>3. QED BY <1>1, <1>2, PTL

\* With one consumer no value is delivered twice.
THEOREM DeliveredOnce == OneConsumer => (Spec => []NoDuplicate)
<1> SUFFICES ASSUME OneConsumer PROVE Spec => []NoDuplicate
  OBVIOUS
<1>1. QueueInv => NoDuplicate
  <2> SUFFICES ASSUME QueueInv, NEW c \in Consumers, NEW d \in Consumers,
                      NEW i \in DOMAIN got[c], NEW j \in DOMAIN got[d],
                      got[c][i] = got[d][j]
               PROVE  c = d /\ i = j
    BY DEF NoDuplicate
  <2>1. c = d BY DEF OneConsumer
  <2>2. IsInjective(Taken(c)) BY DEF QueueInv, ValueInv
  <2>3. got[c] \in Seq(Value) BY DEF QueueInv, TypeOK
  <2>4. /\ DOMAIN got[c] \subseteq DOMAIN Taken(c)
        /\ \A k \in DOMAIN got[c] : Taken(c)[k] = got[c][k]
    BY <2>3 DEF Taken
  <2>5. i = j BY <2>1, <2>2, <2>4 DEF IsInjective
  <2>6. QED BY <2>1, <2>5
<1>2. Spec => []QueueInv BY QueueInvariant
<1>3. QED BY <1>1, <1>2, PTL

\* With one consumer, and unless the clients call Clear, every value pushed has been
\* delivered or is queued, between operations.
THEOREM NothingIsLost == OneConsumer /\ ~Clears => (Spec => []NoLoss)
<1> SUFFICES ASSUME OneConsumer, ~Clears PROVE Spec => []NoLoss
  OBVIOUS
<1>1. QueueInv => NoLoss
  <2> SUFFICES ASSUME QueueInv, Idle, NEW p \in Producers, NEW k \in 1 .. sent[p]
               PROVE  \/ \E c \in Consumers : Contains(got[c], <<p, k>>)
                      \/ Contains(Contents, <<p, k>>)
    BY DEF NoLoss
  <2>1. TypeOK /\ ValueInv BY DEF QueueInv
  <2>2. <<p, k>> \in PushedValues
    <3>1. sent[p] \in 0 .. MaxPush /\ MaxPush \in Nat BY <2>1, QueueAssumption DEF TypeOK
    <3>2. k \in 1 .. MaxPush /\ k <= sent[p] BY <3>1
    <3>3. QED BY <3>2 DEF PushedValues, Value
  <2>3. <<p, k>> \in LinkedValues \/ \E c \in Consumers : <<p, k>> \in TakenSet(c)
    BY <2>1, <2>2 DEF ValueInv
  <2>4. ASSUME NEW c \in Consumers, <<p, k>> \in TakenSet(c)
        PROVE  Contains(got[c], <<p, k>>)
    <3>1. pc[c] = "idle" BY DEF Idle, Thread
    <3>2. Taken(c) = got[c] BY <3>1 DEF Taken
    <3>3. got[c] \in Seq(Value) BY <2>1 DEF TypeOK
    <3>4. \E i \in 1 .. Len(got[c]) : got[c][i] = <<p, k>>
      BY <2>4, <3>2, <3>3 DEF TakenSet, ToSet
    <3>5. QED BY <3>4 DEF Contains
  <2>5. ASSUME <<p, k>> \in LinkedValues PROVE Contains(Contents, <<p, k>>)
    <3>1. LinkedNodes = InQueue \ {head.ptr} BY IdleShape
    <3>2. PICK x \in InQueue \ {head.ptr} : val[x] = <<p, k>>
      BY <2>5, <3>1 DEF LinkedValues
    <3>3. Listed(nextOf, Chain) /\ Chain[1] = head.ptr BY DEF QueueInv, ListInv
    <3>4. Len(Chain) \in Nat BY ChainCounts
    <3>5. PICK i \in 1 .. Len(Chain) : x = Chain[i] BY <3>2, <3>3, ListParts DEF InQueue
    <3>6. i # 1 BY <3>2, <3>3, <3>5
    <3>7. i - 1 \in 1 .. Len(Chain) - 1 /\ (i - 1) + 1 = i BY <3>4, <3>6
    <3>8. Contents[i - 1] = <<p, k>> BY <3>2, <3>5, <3>7 DEF Contents
    <3>9. Len(Contents) = Len(Chain) - 1 BY <3>4, <3>7 DEF Contents
    <3>10. QED BY <3>7, <3>8, <3>9 DEF Contains
  <2>6. QED BY <2>3, <2>4, <2>5
<1>2. Spec => []QueueInv BY QueueInvariant
<1>3. QED BY <1>1, <1>2, PTL

\* With one consumer PopFront reports an empty queue only if the queue was empty at
\* some moment of the call: its head is the head.
THEOREM EmptyIsEmpty == OneConsumer => (Spec => EmptyMeansEmpty)
<1> SUFFICES ASSUME OneConsumer PROVE Spec => EmptyMeansEmpty
  OBVIOUS
<1>1. QueueInv => \A c \in Consumers : PopEmpty(c) => emptySeen[c]
  <2> SUFFICES ASSUME QueueInv, NEW c \in Consumers, PopEmpty(c) PROVE emptySeen[c]
    OBVIOUS
  <2>1. pc[c] = "pop_next" /\ nextOf[h[c].ptr].ptr = NULL BY DEF PopEmpty, Goto
  <2>2. h[c] = head BY <2>1 DEF QueueInv, PopInv
  <2>3. QED BY <2>1, <2>2 DEF QueueInv, EmptyInv
<1>2. QueueInv /\ [Next]_vars => [\A c \in Consumers : PopEmpty(c) => emptySeen[c]]_vars
  BY <1>1
<1>3. Spec => []QueueInv BY QueueInvariant
<1>4. QED BY <1>2, <1>3, PTL DEF Spec, EmptyMeansEmpty

-------------------------------------------------------------------------------
(* With one producer too, the queue is a FIFO queue.                       *)

\* With one producer no push is delayed while another one fills a node, so a node
\* stays alone until it is linked in the queue.
LEMMA AloneStep ==
  ASSUME QueueInv, AloneInv, OneProducer, Next
  PROVE  AloneInv'
<1> USE DEF qvars, pool, snap, hist
<1> SUFFICES ASSUME NEW p \in Producers, pc'[p] \in ReadyPc
             PROVE  nextOf'[node'[p]].ptr = NULL
  BY DEF AloneInv
<1>1. TypeOK /\ ThreadPc BY DEF QueueInv
<1>2. p \in Thread BY DEF Thread
<1>3. \A a, b : Goto(p, a, b) => pc[p] = a /\ pc'[p] = b BY <1>1, <1>2, Moves
<1>4. CASE pc[p] \in ReadyPc /\ node' = node /\ nextOf' = nextOf
  BY <1>4 DEF AloneInv
<1>5. CASE Clear
  <2>1. pc'[p] = "idle" BY <1>2, <1>5 DEF Clear, Idle
  <2>2. QED BY <2>1 DEF ReadyPc
<1>6. ASSUME NEW c \in Consumers, Pop(c) PROVE pc[p] \in ReadyPc /\ node' = node /\ nextOf' = nextOf
  <2>1. node' = node /\ nextOf' = nextOf
    BY <1>6 DEF Pop, PopHead, PopTail, PopEmpty, PopNext, PopHelp, PopSwing, PopSwingFails,
                PopCopy, PopReturn, PopSize
  <2>2. p # c BY QueueAssumption
  <2>3. pc'[p] = pc[p]
    BY <1>1, <1>2, <1>6, <2>2
       DEF ThreadPc, Goto, Pop, PopHead, PopTail, PopEmpty, PopNext, PopHelp, PopSwing,
           PopSwingFails, PopCopy, PopReturn, PopSize
  <2>4. QED BY <2>1, <2>3
<1>7. CASE Push(p)
  <2>1. ~PushTake(p) /\ ~PushFresh(p) /\ ~PushLink(p) /\ ~PushSwing(p) /\ ~PushSize(p)
    BY <1>3 DEF PushTake, PushFresh, PushLink, PushSwing, PushSize, ReadyPc
  <2>2. CASE PushInit(p)
    <3>1. node[p] \in Node BY <2>2, InitShape
    <3>2. QED BY <1>1, <2>2, <3>1 DEF PushInit, TypeOK, Null
  <2>3. CASE PushTail(p) \/ PushNext(p) \/ PushLinkFails(p) \/ PushHelp(p)
    <3>1. pc[p] \in ReadyPc
      BY <1>3, <2>3 DEF PushTail, PushNext, PushLinkFails, PushHelp, ReadyPc
    <3>2. node' = node /\ nextOf' = nextOf
      BY <2>3 DEF PushTail, PushNext, PushLinkFails, PushHelp
    <3>3. QED BY <1>4, <3>1, <3>2
  <2>4. QED BY <1>7, <2>1, <2>2, <2>3 DEF Push
<1>8. QED BY <1>4, <1>5, <1>6, <1>7 DEF Next, OneProducer

\* The values in a list of nodes behind its first.
LEMMA ListValues ==
  ASSUME NEW V, NEW f \in [Node -> V], NEW s \in Seq(Node), s # << >>,
         NEW w, w = [i \in 1 .. Len(s) - 1 |-> f[s[i + 1]]]
  PROVE  /\ Len(s) \in Nat /\ Len(s) >= 1
         /\ w \in Seq(V) /\ Len(w) = Len(s) - 1
         /\ \A i \in 1 .. Len(s) - 1 : i + 1 \in 1 .. Len(s) /\ w[i] = f[s[i + 1]]
<1>1. Len(s) \in Nat /\ Len(s) >= 1 /\ Len(s) - 1 \in Nat OBVIOUS
<1>2. \A i \in 1 .. Len(s) - 1 : i + 1 \in 1 .. Len(s) /\ f[s[i + 1]] \in V
  <2>1. \A i \in 1 .. Len(s) - 1 : i + 1 \in 1 .. Len(s) BY <1>1
  <2>2. QED BY <2>1
<1>3. w \in [1 .. Len(s) - 1 -> V] BY <1>2
<1>4. w \in Seq(V) BY <1>1, <1>3
<1>5. QED BY <1>1, <1>2, <1>3, <1>4

\* The queue's values come from its chain.
LEMMA ContentsAre ==
  ASSUME QueueInv
  PROVE  /\ Len(Chain) \in Nat /\ Len(Chain) >= 1 /\ Chain \in Seq(Node)
         /\ Contents \in Seq(Value \cup {NULL}) /\ Len(Contents) = Len(Chain) - 1
         /\ \A i \in 1 .. Len(Chain) - 1 :
                i + 1 \in 1 .. Len(Chain) /\ Contents[i] = val[Chain[i + 1]]
<1>1. val \in [Node -> Value \cup {NULL}] BY DEF QueueInv, TypeOK
<1>2. Chain \in Seq(Node) /\ Chain # << >> BY DEF QueueInv, ListInv, Listed
<1>3. QED BY <1>1, <1>2, ListValues DEF Contents

\* A link appends the pushed value to the queue.
LEMMA LinkContents ==
  ASSUME QueueInv, AloneInv, OneProducer, NEW p \in Producers, PushLink(p)
  PROVE  Contents' = Append(Contents, <<p, sent[p] + 1>>)
<1>1. TypeOK /\ ListInv /\ ValueInv BY DEF QueueInv
<1>2. pc[p] = "push_link" /\ p \in Filling /\ node[p] \in Node BY LinkTarget, LinkShape
<1>3. val' = val /\ val[node[p]] = <<p, sent[p] + 1>>
  BY <1>1, <1>2 DEF PushLink, ValueInv, ReadyPc
<1>4. Segment(p) = <<node[p]>>
  <2>1. nextOf[node[p]].ptr = NULL BY <1>2 DEF AloneInv, ReadyPc
  <2>2. ChainIn(nextOf, node[p]) = <<node[p]>> BY <1>2, <2>1, OneListed
  <2>3. QED BY <1>2, <2>2 DEF Segment
<1>5. Chain' = Chain \o <<node[p]>>
  <2>1. Filling' = {} BY LinkShape DEF OneProducer, Filling
  <2>2. QED BY <1>4, <2>1, LinkShape
<1> DEFINE L == Len(Chain)  v == <<p, sent[p] + 1>>
<1>6. /\ L \in Nat /\ L >= 1 /\ Chain \in Seq(Node)
      /\ Contents \in Seq(Value \cup {NULL}) /\ Len(Contents) = L - 1
      /\ \A i \in 1 .. L - 1 : i + 1 \in 1 .. L /\ Contents[i] = val[Chain[i + 1]]
  BY ContentsAre
<1>7. /\ Chain' \in Seq(Node) /\ Len(Chain') = L + 1 /\ Chain'[L + 1] = node[p]
      /\ \A i \in 1 .. L : Chain'[i] = Chain[i]
  BY <1>2, <1>5, <1>6
<1>8. Chain' # << >> BY <1>6, <1>7
<1>9. val \in [Node -> Value \cup {NULL}] BY <1>1 DEF TypeOK
<1>10. Contents' = [i \in 1 .. Len(Chain') - 1 |-> val[Chain'[i + 1]]] BY <1>3 DEF Contents
<1>11. /\ Contents' \in Seq(Value \cup {NULL}) /\ Len(Contents') = Len(Chain') - 1
       /\ \A i \in 1 .. Len(Chain') - 1 : Contents'[i] = val[Chain'[i + 1]]
  BY <1>7, <1>8, <1>9, <1>10, ListValues
<1>12. v \in Value \cup {NULL} BY <1>2, <1>3, <1>9
<1> HIDE DEF L, v
<1>13. /\ Append(Contents, v) \in Seq(Value \cup {NULL}) /\ Len(Append(Contents, v)) = L
       /\ \A i \in 1 .. L - 1 : Append(Contents, v)[i] = Contents[i]
       /\ Append(Contents, v)[L] = v
  BY <1>6, <1>12
<1>14. Len(Contents') = L BY <1>6, <1>7, <1>11
<1>15. ASSUME NEW i \in 1 .. L PROVE Contents'[i] = Append(Contents, v)[i]
  <2>1. Contents'[i] = val[Chain'[i + 1]] BY <1>6, <1>7, <1>11
  <2>2. CASE i = L BY <1>3, <1>7, <1>13, <2>1, <2>2 DEF v
  <2>3. CASE i \in 1 .. L - 1 BY <1>6, <1>7, <1>13, <2>1, <2>3
  <2>4. QED BY <1>6, <2>2, <2>3
<1>16. Contents' = Append(Contents, v) BY <1>11, <1>13, <1>14, <1>15, SeqEqual
<1>17. QED BY <1>16 DEF v

\* Moving the head takes the first value off the queue.
LEMMA SwingContents ==
  ASSUME QueueInv, OneConsumer, NEW c \in Consumers, PopSwing(c)
  PROVE  /\ Contents # << >> /\ Head(Contents) = val[head'.ptr]
         /\ Contents' = Tail(Contents)
<1>1. TypeOK /\ ListInv BY DEF QueueInv
<1>2. val' = val BY DEF PopSwing
<1>3. /\ Chain' = Tail(Chain) /\ head'.ptr = nextOf[head.ptr].ptr
      /\ head'.ptr \in InQueue /\ head'.ptr # head.ptr
  BY SwingShape
<1> DEFINE L == Len(Chain)
<1>4. /\ L \in Nat /\ L >= 1 /\ Chain \in Seq(Node)
      /\ Contents \in Seq(Value \cup {NULL}) /\ Len(Contents) = L - 1
      /\ \A i \in 1 .. L - 1 : i + 1 \in 1 .. L /\ Contents[i] = val[Chain[i + 1]]
  BY ContentsAre
<1>5. Listed(nextOf, Chain) /\ Chain[1] = head.ptr BY <1>1 DEF ListInv
<1>6. L >= 2
  <2>1. PICK i \in 1 .. L : head'.ptr = Chain[i] BY <1>3, <1>5, ListParts DEF InQueue
  <2>2. i # 1 BY <1>3, <1>5, <2>1
  <2>3. QED BY <1>4, <2>1, <2>2
<1>7. head'.ptr = Chain[2]
  <2>1. 1 \in 1 .. L - 1 BY <1>4, <1>6
  <2>2. nextOf[Chain[1]].ptr = Chain[1 + 1] BY <1>5, <2>1 DEF Listed
  <2>3. QED BY <1>3, <1>5, <2>2
<1>8. /\ Chain' \in Seq(Node) /\ Len(Chain') = L - 1 /\ Chain' # << >>
      /\ \A i \in 1 .. L - 1 : Chain'[i] = Chain[i + 1]
  BY <1>3, <1>4, <1>6
<1>9. val \in [Node -> Value \cup {NULL}] BY <1>1 DEF TypeOK
<1>10. Contents' = [i \in 1 .. Len(Chain') - 1 |-> val[Chain'[i + 1]]] BY <1>2 DEF Contents
<1>11. /\ Contents' \in Seq(Value \cup {NULL}) /\ Len(Contents') = Len(Chain') - 1
       /\ \A i \in 1 .. Len(Chain') - 1 : Contents'[i] = val[Chain'[i + 1]]
  BY <1>8, <1>9, <1>10, ListValues
<1> HIDE DEF L
<1>12. Contents # << >> BY <1>4, <1>6
<1>13. Head(Contents) = val[head'.ptr]
  <2>1. 1 \in 1 .. L - 1 BY <1>4, <1>6
  <2>2. Contents[1] = val[Chain[1 + 1]] BY <1>4, <2>1
  <2>3. QED BY <1>4, <1>7, <1>12, <2>2
<1>14. /\ Tail(Contents) \in Seq(Value \cup {NULL}) /\ Len(Tail(Contents)) = L - 2
       /\ \A i \in 1 .. L - 2 : Tail(Contents)[i] = Contents[i + 1]
  BY <1>4, <1>6, <1>12
<1>15. Len(Contents') = L - 2 BY <1>4, <1>6, <1>8, <1>11
<1>16. ASSUME NEW i \in 1 .. L - 2 PROVE Contents'[i] = Tail(Contents)[i]
  <2>1. i \in 1 .. Len(Chain') - 1 /\ i + 1 \in 1 .. L - 1 BY <1>4, <1>6, <1>8
  <2>2. Contents'[i] = val[Chain'[i + 1]] BY <1>11, <2>1
  <2>3. Chain'[i + 1] = Chain[(i + 1) + 1] BY <1>8, <2>1
  <2>4. Contents[i + 1] = val[Chain[(i + 1) + 1]] BY <1>4, <2>1
  <2>5. QED BY <1>14, <2>2, <2>3, <2>4
<1>17. Contents' = Tail(Contents) BY <1>11, <1>14, <1>15, <1>16, SeqEqual
<1>18. QED BY <1>12, <1>13, <1>17

\* No other step changes what is in the queue.
LEMMA OtherContents ==
  ASSUME QueueInv, OneConsumer, Next, ~Clear, \A p \in Producers : ~PushLink(p),
         \A c \in Consumers : ~PopSwing(c)
  PROVE  Contents' = Contents
<1>1. TypeOK /\ ListInv /\ PlaceInv BY DEF QueueInv
<1>2. head' = head BY HeadMoves
<1>3. InQueue \subseteq Node BY Places
<1>4. \A x \in InQueue : nextOf'[x] = nextOf[x]
  <2>1. ASSUME NEW p \in Producers, PushInit(p)
        PROVE  \A x \in InQueue : nextOf'[x] = nextOf[x]
    <3>1. /\ p \in Filling /\ Behind(p) = {node[p]}
          /\ \A x \in Node : x # node[p] => nextOf'[x] = nextOf[x]
      BY <2>1, InitShape
    <3>2. node[p] \notin InQueue BY <1>1, <3>1 DEF PlaceInv
    <3>3. QED BY <1>3, <3>1, <3>2
  <2>2. ASSUME \A p \in Producers : ~PushInit(p)
        PROVE  nextOf' = nextOf
    <3> USE DEF qvars, pool, snap, hist
    <3>1. ASSUME NEW p \in Producers, Push(p) PROVE nextOf' = nextOf
      <4>1. ~PushLink(p) /\ ~PushInit(p) BY <2>2
      <4>2. QED
        BY <3>1, <4>1 DEF Push, PushTake, PushFresh, PushTail, PushNext, PushLinkFails,
                          PushHelp, PushSwing, PushSize
    <3>2. ASSUME NEW c \in Consumers, Pop(c) PROVE nextOf' = nextOf
      BY <3>2 DEF Pop, PopHead, PopTail, PopEmpty, PopNext, PopHelp, PopSwing, PopSwingFails,
                  PopCopy, PopReturn, PopSize
    <3>3. QED BY <3>1, <3>2 DEF Next
  <2>3. QED BY <2>1, <2>2
<1>5. Chain' = Chain
  <2>1. Listed(nextOf, Chain) /\ Chain[1] = head.ptr BY <1>1 DEF ListInv
  <2>2. \A x \in ToSet(Chain) : nextOf'[x] = nextOf[x] BY <1>4 DEF InQueue
  <2>3. Listed(nextOf', Chain) BY <2>1, <2>2, ListStays
  <2>4. ChainIn(nextOf', Chain[1]) = Chain BY <2>3, ChainFollows
  <2>5. QED BY <1>2, <2>1, <2>4 DEF Chain
<1>6. \A i \in 1 .. Len(Chain) - 1 : val'[Chain[i + 1]] = val[Chain[i + 1]]
  <2>1. \A i \in 1 .. Len(Chain) - 1 : Chain[i + 1] \in InQueue
    <3>1. Listed(nextOf, Chain) BY <1>1 DEF ListInv
    <3>2. \A i \in 1 .. Len(Chain) : Chain[i] \in InQueue BY <3>1, ListParts DEF InQueue
    <3>3. \A i \in 1 .. Len(Chain) - 1 : i + 1 \in 1 .. Len(Chain) BY ContentsAre
    <3>4. QED BY <3>2, <3>3
  <2>2. QED BY <2>1, ValueKept
<1>7. QED BY <1>5, <1>6 DEF Contents

\* What is taken off the queue by each consumer.
LEMMA TakenOff ==
  ASSUME QueueInv, OneConsumer, Next, ~Clear
  PROVE  /\ (\A c \in Consumers : ~PopSwing(c)) =>
                [c \in Consumers |-> Taken(c)'] = [c \in Consumers |-> Taken(c)]
         /\ \A c \in Consumers : PopSwing(c) =>
                [d \in Consumers |-> Taken(d)']
                    = [[d \in Consumers |-> Taken(d)] EXCEPT ![c] = Append(Taken(c), val[head'.ptr])]
<1>1. (\A c \in Consumers : ~PopSwing(c)) => \A c \in Consumers : Taken(c)' = Taken(c)
  BY TakenStep
<1>2. ASSUME NEW c \in Consumers, PopSwing(c)
      PROVE  [d \in Consumers |-> Taken(d)']
                = [[d \in Consumers |-> Taken(d)] EXCEPT ![c] = Append(Taken(c), val[head'.ptr])]
  <2>1. \A d \in Consumers : d = c BY DEF OneConsumer
  <2>2. pc[c] = "pop_swing" /\ pc'[c] = "pop_copy" BY <1>2, PopMoves DEF PopSwing, QueueInv
  <2>3. Taken(c)' = Append(Taken(c), val[head'.ptr]) BY <1>2, TakenStep
  <2>4. QED BY <2>1, <2>3
<1>3. QED BY <1>1, <1>2

\* Every step is a step of the FIFO queue or none: a link pushes, a swing of the head
\* pops, and Clear empties it.
LEMMA FifoStep ==
  ASSUME QueueInv, AloneInv, OneConsumer, OneProducer, Next
  PROVE  Fifo!Next \/ UNCHANGED Fifo!vars
<1> DEFINE took == [c \in Consumers |-> Taken(c)]
<1>1. TypeOK /\ ThreadPc BY DEF QueueInv
<1>2. CASE Clear
  <2>1. Chain' = <<1>> /\ Idle /\ Idle' BY <1>2, ClearShape
  <2>2. Contents' = << >>
    <3>1. Len(<<1>>) = 1 OBVIOUS
    <3>2. Contents' = [i \in 1 .. 0 |-> val'[Chain'[i + 1]]] BY <2>1, <3>1 DEF Contents
    <3>3. QED BY <3>2
  <2>3. sent' = sent /\ got' = got BY <1>2 DEF Clear, hist
  <2>4. \A c \in Consumers : Taken(c)' = Taken(c)
    <3>1. \A c \in Consumers : pc[c] = "idle" /\ pc'[c] = "idle" BY <2>1 DEF Idle, Thread
    <3>2. QED BY <2>3, <3>1 DEF Taken
  <2>5. took' = took BY <2>4
  <2>6. Fifo!Clear BY <2>2, <2>3, <2>5 DEF Fifo!Clear
  <2>7. QED BY <2>6 DEF Fifo!Next
<1>3. ASSUME ~Clear, NEW p \in Producers, PushLink(p) PROVE Fifo!Next
  <2>1. Contents' = Append(Contents, <<p, sent[p] + 1>>) BY <1>3, LinkContents
  <2>2. sent' = [sent EXCEPT ![p] = sent[p] + 1] BY <1>3 DEF PushLink
  <2>3. \A c \in Consumers : ~PopSwing(c)
    <3>1. pc[p] = "push_link" /\ pc'[p] = "push_swing" BY <1>3, LinkTarget
    <3>2. ASSUME NEW c \in Consumers, PopSwing(c) PROVE FALSE
      <4>1. pc'[p] = pc[p] BY <1>1, <3>2, PopMoves DEF PopSwing
      <4>2. QED BY <3>1, <4>1
    <3>3. QED BY <3>2
  <2>4. took' = took BY <1>3, <2>3, TakenOff
  <2>5. Fifo!Push(p) BY <2>1, <2>2, <2>4 DEF Fifo!Push
  <2>6. QED BY <2>5 DEF Fifo!Next
<1>4. ASSUME ~Clear, NEW c \in Consumers, PopSwing(c) PROVE Fifo!Next
  <2>1. /\ Contents # << >> /\ Head(Contents) = val[head'.ptr] /\ Contents' = Tail(Contents)
    BY <1>4, SwingContents
  <2>2. sent' = sent BY <1>4 DEF PopSwing, hist
  <2>3. took' = [took EXCEPT ![c] = Append(Taken(c), val[head'.ptr])] BY <1>4, TakenOff
  <2>4. took[c] = Taken(c) OBVIOUS
  <2>5. took' = [took EXCEPT ![c] = Append(took[c], Head(Contents))] BY <2>1, <2>3, <2>4
  <2>6. Fifo!Pop(c) BY <2>1, <2>2, <2>5 DEF Fifo!Pop
  <2>7. QED BY <2>6 DEF Fifo!Next
<1>5. ASSUME ~Clear, \A p \in Producers : ~PushLink(p), \A c \in Consumers : ~PopSwing(c)
      PROVE  UNCHANGED Fifo!vars
  <2>1. Contents' = Contents BY <1>5, OtherContents
  <2>2. sent' = sent BY <1>5, LinkedStep
  <2>3. took' = took BY <1>5, TakenOff
  <2>4. QED BY <2>1, <2>2, <2>3 DEF Fifo!vars
<1>6. QED BY <1>2, <1>3, <1>4, <1>5

\* A step that leaves every variable alone does so for the FIFO queue.
LEMMA FifoStutter ==
  ASSUME QueueInv, AloneInv, UNCHANGED vars
  PROVE  AloneInv' /\ UNCHANGED Fifo!vars
<1> USE DEF vars
<1>1. AloneInv' BY DEF AloneInv
<1>2. Chain' = Chain BY DEF Chain
<1>3. Contents' = Contents BY <1>2 DEF Contents
<1>4. \A c \in Consumers : Taken(c)' = Taken(c) BY DEF Taken
<1>5. QED BY <1>1, <1>3, <1>4 DEF Fifo!vars

\* With one producer and one consumer the queue implements a FIFO queue: whatever the
\* interleaving, clients see values pushed and popped atomically, in order.
THEOREM FifoRefinement == OneConsumer /\ OneProducer => (Spec => ImplementsFifo)
<1> SUFFICES ASSUME OneConsumer, OneProducer PROVE Spec => ImplementsFifo
  OBVIOUS
<1>1. Init => QueueInv /\ AloneInv
  <2> SUFFICES ASSUME Init PROVE QueueInv /\ AloneInv
    OBVIOUS
  <2>1. \A p \in Producers : pc[p] = "idle" BY DEF Init, Thread
  <2>2. QED BY <2>1, InitInv DEF AloneInv, ReadyPc
<1>2. Init => Fifo!Init
  <2> SUFFICES ASSUME Init PROVE Fifo!Init
    OBVIOUS
  <2>1. \A c \in Consumers : Taken(c) = << >>
    <3>1. \A c \in Consumers : pc[c] = "idle" /\ got[c] = << >> BY DEF Init, Thread
    <3>2. QED BY <3>1 DEF Taken
  <2>2. Contents = << >>
    <3>1. 1 \in Node BY QueueAssumption DEF Node
    <3>2. head.ptr = 1 /\ nextOf[1].ptr = NULL BY <3>1 DEF Init, Null
    <3>3. Chain = <<1>> BY <3>1, <3>2, OneListed DEF Chain
    <3>4. Len(<<1>>) = 1 OBVIOUS
    <3>5. Contents = [i \in 1 .. 0 |-> val[Chain[i + 1]]] BY <3>3, <3>4 DEF Contents
    <3>6. QED BY <3>5
  <2>3. sent = [p \in Producers |-> 0] BY DEF Init
  <2>4. QED BY <2>1, <2>2, <2>3 DEF Fifo!Init
<1>3. QueueInv /\ AloneInv /\ [Next]_vars => (QueueInv /\ AloneInv)' /\ [Fifo!Next]_(Fifo!vars)
  <2>1. CASE Next BY <2>1, QueueStep, AloneStep, FifoStep
  <2>2. CASE UNCHANGED vars BY <2>2, StutterStep, FifoStutter
  <2>3. QED BY <2>1, <2>2
<1>4. QED BY <1>1, <1>2, <1>3, PTL DEF Spec, ImplementsFifo, Fifo!Spec

===============================================================================
