--------------------------- MODULE StorageProofs ---------------------------
(***************************************************************************)
(* Proofs about the fixed pool, the aligned allocations, and the sequences *)
(* kept in such memory: deque, queue, buffer and stack.  They hold for any *)
(* sizes, alignments, addresses and values, and with no bound on blocks,   *)
(* elements or capacity.  s1 to s4 are the variables of the part that      *)
(* subject names, in the order in which Storage instantiates it.           *)
(***************************************************************************)
EXTENDS Storage, Sequences, Functions, NumberLemmas, FiniteSetTheorems, TLAPS

----------------------------------------------------------------------------
(* The fixed pool. *)

\* The part of a set of indices that lies in one block.
Within(L, b) == {idx \in L : idx[1] = b}

\* Cardinality means the same in the pool's module and in this one.
LEMMA PoolCardinality == \A S : Pool!Cardinality(S) = Cardinality(S)
  BY DEF Pool!Cardinality, Cardinality

\* The first n elements of a block are n elements.
LEMMA FirstElements ==
  ASSUME NEW b, NEW n \in Nat
  PROVE  IsFiniteSet(Pool!FirstOf(b, n)) /\ Cardinality(Pool!FirstOf(b, n)) = n
<1> DEFINE f == [s \in 0..(n - 1) |-> <<b, s>>]
           T == Pool!FirstOf(b, n)
<1>1. T = {<<b, s>> : s \in 0..(n - 1)} BY DEF Pool!FirstOf
<1>2. f \in Bijection(0..(n - 1), T)
  <2>1. \A s \in 0..(n - 1) : f[s] = <<b, s>> /\ f[s] \in T BY <1>1
  <2>2. \A s, t \in 0..(n - 1) : f[s] = f[t] => s = t BY <2>1
  <2>3. \A x \in T : \E s \in 0..(n - 1) : f[s] = x BY <1>1, <2>1
  <2>4. f \in [0..(n - 1) -> T] BY <2>1
  <2> HIDE DEF f, T
  <2>5. QED BY <2>2, <2>3, <2>4 DEF Bijection, Injection, Surjection, IsInjective
<1>3. IsFiniteSet(0..(n - 1)) /\ Cardinality(0..(n - 1)) = n
  <2>1. /\ IsFiniteSet(0..(n - 1))
        /\ Cardinality(0..(n - 1)) = IF 0 > n - 1 THEN 0 ELSE (n - 1) - 0 + 1
    BY FS_Interval
  <2>2. (IF 0 > n - 1 THEN 0 ELSE (n - 1) - 0 + 1) = n OBVIOUS
  <2>3. QED BY <2>1, <2>2
<1> HIDE DEF f, T
<1>4. ExistsBijection(0..(n - 1), T) BY <1>2 DEF ExistsBijection
<1>5. IsFiniteSet(T) /\ Cardinality(T) = n BY <1>3, <1>4, FS_Bijection
<1>6. QED BY <1>5 DEF T

\* What the invariant says of one block, with the elements counted.
LEMMA BlockCounts ==
  ASSUME NEW p, NEW L, Pool!Shape(p), Pool!Cut(p, L), NEW b \in DOMAIN p.blocks
  PROVE  \E n \in 0..p.blocks[b].size :
           /\ Within(L, b) \cup Pool!RecycledIn(p, b) = Pool!FirstOf(b, n)
           /\ Within(L, b) \cap Pool!RecycledIn(p, b) = {}
           /\ IsFiniteSet(Within(L, b)) /\ IsFiniteSet(Pool!RecycledIn(p, b))
           /\ p.blocks[b].taken = Cardinality(Within(L, b))
           /\ Cardinality(Within(L, b)) + Cardinality(Pool!RecycledIn(p, b)) = n
<1> DEFINE R == Pool!RecycledIn(p, b)  S == Within(L, b)
<1>1. PICK n \in 0..p.blocks[b].size :
        S \cup R = Pool!FirstOf(b, n) /\ p.blocks[b].taken = Cardinality(S)
  BY PoolCardinality DEF Pool!Cut, Within
<1>2. n \in Nat BY DEF Pool!Shape
<1>3. S \cap R = {} BY DEF Pool!Cut, Pool!RecycledIn, Pool!Recycled, Within
<1>4. IsFiniteSet(S \cup R) /\ Cardinality(S \cup R) = n BY <1>1, <1>2, FirstElements
<1> HIDE DEF R, S
<1>5. IsFiniteSet(S) /\ IsFiniteSet(R)
  <2>1. S \subseteq S \cup R /\ R \subseteq S \cup R OBVIOUS
  <2>2. QED BY <1>4, <2>1, FS_Subset
<1>6. Cardinality(S) + Cardinality(R) = n
  <2>1. Cardinality(S \cup R) = Cardinality(S) + Cardinality(R) - Cardinality(S \cap R)
    BY <1>5, FS_Union
  <2>2. Cardinality(S \cap R) = 0 BY <1>3, FS_EmptySet
  <2>3. Cardinality(S) \in Nat /\ Cardinality(R) \in Nat BY <1>5, FS_CardinalityType
  <2>4. QED BY <1>4, <2>1, <2>2, <2>3
<1>7. QED BY <1>1, <1>3, <1>5, <1>6 DEF S, R

\* The pool finds a block that is not used up when there is one.
LEMMA UnspentFound ==
  ASSUME NEW p, Pool!Shape(p), Pool!Unspent(p) # {}
  PROVE  Pool!FirstUnspent(p) \in Pool!Unspent(p)
<1> DEFINE U == Pool!Unspent(p)  n == Len(p.blocks)
<1>1. n \in Nat /\ U \subseteq 1..n BY DEF Pool!Shape, Pool!Unspent
<1> HIDE DEF U, n
<1> DEFINE T == {n - b : b \in U}
<1>2. T \in SUBSET Nat
  <2>1. \A b \in U : n - b \in Nat BY <1>1
  <2>2. QED BY <2>1
<1>3. T # {} BY DEF U
<1>4. PICK x \in T : \A y \in T : x <= y
  <2> HIDE DEF T
  <2>1. QED BY <1>2, <1>3, LeastNat
<1>5. PICK b \in U : x = n - b BY <1>4
<1>6. \A c \in U : c <= b
  <2> TAKE c \in U
  <2>1. n - b <= n - c BY <1>4, <1>5
  <2>2. b \in Int /\ c \in Int BY <1>1
  <2>3. QED BY <1>1, <2>1, <2>2
<1>7. \E d \in U : \A c \in U : c <= d BY <1>6
<1>8. QED BY <1>7 DEF U, Pool!FirstUnspent

\* A pool that is given one more block.
LEMMA NodeNewFacts ==
  ASSUME NEW p, Pool!Shape(p)
  PROVE  /\ Pool!Shape(Pool!NodeNew(p))
         /\ Pool!NodeNew(p).free = p.free
         /\ Pool!NodeNew(p).blocks = Append(p.blocks, [taken |-> 0, size |-> p.growth])
<1> DEFINE new == [taken |-> 0, size |-> p.growth]
           B == Append(p.blocks, new)
           g == 2 * p.growth
           c == IF Len(p.blocks) >= p.lookupCapacity THEN 2 * p.lookupCapacity ELSE p.lookupCapacity
           t == IF Len(p.blocks) >= p.lookupCapacity THEN 2 * p.lookupCapacity ELSE p.tableRoom
           u == IF Len(p.blocks) >= p.lookupCapacity THEN "own" ELSE p.table
<1>1. Pool!NodeNew(p) = [p EXCEPT !.blocks = B, !.growth = g, !.lookupCapacity = c, !.tableRoom = t,
                                  !.table = u]
  BY DEF Pool!NodeNew
<1>2. /\ B \in Seq([taken : Nat, size : Nat \ {0}]) /\ B # << >> /\ Len(B) = Len(p.blocks) + 1
  <2>1. new \in [taken : Nat, size : Nat \ {0}] BY DEF Pool!Shape
  <2>2. p.blocks \in Seq([taken : Nat, size : Nat \ {0}]) BY DEF Pool!Shape
  <2> HIDE DEF new
  <2>3. QED BY <2>1, <2>2
<1>3. /\ Len(p.blocks) \in Nat /\ p.lookupCapacity \in Nat \ {0} /\ p.tableRoom \in Nat \ {0}
      /\ p.growth \in Nat \ {0} /\ Len(p.blocks) <= p.lookupCapacity
      /\ p.table \in {"own", "copied"} /\ (p.table = "own" => p.lookupCapacity <= p.tableRoom)
  BY DEF Pool!Shape
<1>4. /\ g \in Nat \ {0} /\ c \in Nat \ {0} /\ t \in Nat \ {0} /\ Len(B) <= c
      /\ u \in {"own", "copied"} /\ (u = "own" => c <= t)
  <2> HIDE DEF B
  <2>1. g \in Nat \ {0} BY <1>3
  <2>2. CASE Len(p.blocks) >= p.lookupCapacity
    <3>1. c = 2 * p.lookupCapacity /\ t = 2 * p.lookupCapacity /\ u = "own" BY <2>2
    <3> HIDE DEF g, c, t, u
    <3>2. \A k \in Nat \ {0} : 2 * k \in Nat \ {0} /\ k + 1 <= 2 * k OBVIOUS
    <3>3. c \in Nat \ {0} /\ t \in Nat \ {0} /\ c <= t BY <1>3, <3>1, <3>2
    <3>4. Len(p.blocks) = p.lookupCapacity BY <1>3, <2>2
    <3>5. Len(B) <= c BY <1>2, <1>3, <3>1, <3>2, <3>4
    <3>6. QED BY <2>1, <3>1, <3>3, <3>5
  <2>3. CASE ~(Len(p.blocks) >= p.lookupCapacity)
    <3>1. c = p.lookupCapacity /\ t = p.tableRoom /\ u = p.table BY <2>3
    <3> HIDE DEF g, c, t, u
    <3>2. QED BY <1>2, <1>3, <2>1, <2>3, <3>1
  <2>4. QED BY <2>2, <2>3
<1> HIDE DEF B, g, c, t, u
<1>5. Pool!Shape(Pool!NodeNew(p)) BY <1>1, <1>2, <1>4 DEF Pool!Shape
<1>6. Pool!NodeNew(p).free = p.free /\ Pool!NodeNew(p).blocks = B BY <1>1 DEF Pool!Shape
<1>7. QED BY <1>5, <1>6 DEF B

\* A new block is empty, and there is room in it.
LEMMA NodeNewCut ==
  ASSUME NEW p, NEW L, Pool!Shape(p), Pool!Cut(p, L)
  PROVE  Pool!Cut(Pool!NodeNew(p), L) /\ Pool!Unspent(Pool!NodeNew(p)) # {}
<1> DEFINE q == Pool!NodeNew(p)  n == Len(p.blocks) + 1
<1>1. /\ Pool!Shape(q) /\ q.free = p.free
      /\ q.blocks = Append(p.blocks, [taken |-> 0, size |-> p.growth])
  BY NodeNewFacts
<1>2. /\ DOMAIN q.blocks = 1..n /\ DOMAIN p.blocks = 1..(n - 1) /\ n \in Nat \ {0}
      /\ \A b \in 1..(n - 1) : q.blocks[b] = p.blocks[b]
      /\ q.blocks[n].taken = 0 /\ q.blocks[n].size = p.growth
      /\ p.growth \in Nat \ {0}
  <2> HIDE DEF q
  <2>1. p.blocks \in Seq([taken : Nat, size : Nat \ {0}]) /\ p.growth \in Nat \ {0} BY DEF Pool!Shape
  <2>2. QED BY <1>1, <2>1
<1> HIDE DEF q, n
<1>3. 1..(n - 1) \subseteq 1..n /\ n \in 1..n /\ n \notin 1..(n - 1) BY <1>2
<1>4. \A b : Pool!RecycledIn(q, b) = Pool!RecycledIn(p, b)
  BY <1>1 DEF Pool!RecycledIn, Pool!Recycled
<1>5. L \subseteq (DOMAIN p.blocks) \X Nat
  BY DEF Pool!Cut
<1>6. \A i \in DOMAIN p.free : p.free[i] \in (DOMAIN p.blocks) \X Nat /\ p.free[i] \notin L
  BY DEF Pool!Cut
<1>7. Within(L, n) = {} BY <1>2, <1>3, <1>5 DEF Within
<1>8. Pool!RecycledIn(q, n) = {}
  <2>1. \A i \in DOMAIN p.free : p.free[i][1] \in 1..(n - 1) BY <1>2, <1>6
  <2>2. \A i \in DOMAIN p.free : p.free[i][1] # n BY <1>3, <2>1
  <2>3. Pool!RecycledIn(p, n) = {} BY <2>2 DEF Pool!RecycledIn, Pool!Recycled
  <2>4. QED BY <1>4, <2>3
<1>9. Pool!FirstOf(n, 0) = {}
  <2>1. 0..(0 - 1) = {} OBVIOUS
  <2>2. QED BY <2>1 DEF Pool!FirstOf
<1>10. \A b \in DOMAIN q.blocks :
        \E k \in 0..q.blocks[b].size :
          /\ Within(L, b) \cup Pool!RecycledIn(q, b) = Pool!FirstOf(b, k)
          /\ q.blocks[b].taken = Cardinality(Within(L, b))
  <2> TAKE b \in DOMAIN q.blocks
  <2>1. CASE b = n
    <3>1. 0 \in 0..q.blocks[b].size BY <1>2, <2>1
    <3>2. Cardinality({}) = 0 BY FS_EmptySet
    <3>3. QED BY <1>2, <1>7, <1>8, <1>9, <2>1, <3>1, <3>2
  <2>2. CASE b # n
    <3>1. b \in DOMAIN p.blocks /\ q.blocks[b] = p.blocks[b] BY <1>2, <2>2
    <3>2. QED BY <1>4, <3>1, PoolCardinality DEF Pool!Cut, Within
  <2>3. QED BY <2>1, <2>2
<1>11. Pool!Cut(q, L)
  <2>1. L \subseteq (DOMAIN q.blocks) \X Nat BY <1>2, <1>3, <1>5
  <2>2. \A i \in DOMAIN q.free : q.free[i] \in (DOMAIN q.blocks) \X Nat /\ q.free[i] \notin L
    BY <1>1, <1>2, <1>3, <1>6
  <2>3. \A i, j \in DOMAIN q.free : q.free[i] = q.free[j] => i = j BY <1>1 DEF Pool!Cut
  <2>4. QED BY <1>10, <2>1, <2>2, <2>3, PoolCardinality DEF Pool!Cut, Within
<1>12. n \in Pool!Unspent(q) BY <1>2, <1>3 DEF Pool!Unspent
<1>13. QED BY <1>11, <1>12 DEF q
\* A block's counter and size are numbers.
LEMMA BlockTypes ==
  ASSUME NEW p, Pool!Shape(p), NEW b \in DOMAIN p.blocks
  PROVE  p.blocks[b] \in [taken : Nat, size : Nat \ {0}]
<1> DEFINE K == [taken : Nat, size : Nat \ {0}]
<1>1. p.blocks \in Seq(K) BY DEF Pool!Shape
<1> HIDE DEF K
<1>2. \A s \in Seq(K) : \A i \in DOMAIN s : s[i] \in K OBVIOUS
<1>3. QED BY <1>1, <1>2 DEF K

\* Counting d elements more, or less, changes one counter.
LEMMA BumpFacts ==
  ASSUME NEW p, Pool!Shape(p), NEW b \in DOMAIN p.blocks, NEW d \in Int,
         p.blocks[b].taken + d \in Nat
  PROVE  /\ Pool!Shape(Pool!Bump(p, b, d))
         /\ Pool!Bump(p, b, d).free = p.free
         /\ Pool!Bump(p, b, d).freeCapacity = p.freeCapacity
         /\ DOMAIN Pool!Bump(p, b, d).blocks = DOMAIN p.blocks
         /\ \A c \in DOMAIN p.blocks : Pool!Bump(p, b, d).blocks[c].size = p.blocks[c].size
         /\ Pool!Bump(p, b, d).blocks[b].taken = p.blocks[b].taken + d
         /\ \A c \in DOMAIN p.blocks \ {b} :
              Pool!Bump(p, b, d).blocks[c].taken = p.blocks[c].taken
<1> DEFINE k == p.blocks[b].taken + d
           e == [p.blocks[b] EXCEPT !.taken = k]
           B == [p.blocks EXCEPT ![b] = e]
<1>1. Pool!Bump(p, b, d) = [p EXCEPT !.blocks = B] BY DEF Pool!Bump
<1>2. p.blocks \in Seq([taken : Nat, size : Nat \ {0}]) BY DEF Pool!Shape
<1>3. p.blocks[b] \in [taken : Nat, size : Nat \ {0}] BY BlockTypes
<1>4. e \in [taken : Nat, size : Nat \ {0}] /\ e.taken = k /\ e.size = p.blocks[b].size
  <2> HIDE DEF k
  <2>1. k \in Nat BY DEF k
  <2>2. QED BY <1>3, <2>1
<1> HIDE DEF e
<1>5. /\ B \in Seq([taken : Nat, size : Nat \ {0}]) /\ Len(B) = Len(p.blocks)
      /\ DOMAIN B = DOMAIN p.blocks /\ B[b] = e
      /\ \A c \in DOMAIN p.blocks \ {b} : B[c] = p.blocks[c]
  BY <1>2, <1>4
<1>6. B # << >>
  <2>1. Len(p.blocks) # 0 BY <1>2 DEF Pool!Shape
  <2>2. QED BY <1>5, <2>1
<1> HIDE DEF B
<1>7. Pool!Shape([p EXCEPT !.blocks = B]) BY <1>5, <1>6 DEF Pool!Shape
<1>8. /\ [p EXCEPT !.blocks = B].free = p.free /\ [p EXCEPT !.blocks = B].blocks = B
      /\ [p EXCEPT !.blocks = B].freeCapacity = p.freeCapacity
  BY DEF Pool!Shape
<1>9. QED BY <1>1, <1>4, <1>5, <1>7, <1>8

\* The next element is cut out of a block with room: it is the first that was never out.
LEMMA CutNext ==
  ASSUME NEW p, NEW L, Pool!Shape(p), Pool!Cut(p, L), p.free = << >>,
         NEW b \in Pool!Unspent(p), NEW idx, idx = <<b, p.blocks[b].taken>>
  PROVE  /\ idx \notin L
         /\ Pool!Shape(Pool!Bump(p, b, 1))
         /\ Pool!Cut(Pool!Bump(p, b, 1), L \cup {idx})
<1> DEFINE q == Pool!Bump(p, b, 1)  t == p.blocks[b].taken
<1>1. /\ b \in DOMAIN p.blocks /\ t \in Nat /\ p.blocks[b].size \in Nat /\ t < p.blocks[b].size
      /\ idx[1] = b
  <2>1. b \in DOMAIN p.blocks /\ t < p.blocks[b].size BY DEF Pool!Unspent
  <2>2. p.blocks[b] \in [taken : Nat, size : Nat \ {0}] BY <2>1, BlockTypes
  <2>3. QED BY <2>1, <2>2
<1>2. \A c : Pool!RecycledIn(p, c) = {} BY DEF Pool!RecycledIn, Pool!Recycled
<1>3. /\ Pool!Shape(q) /\ q.free = << >> /\ DOMAIN q.blocks = DOMAIN p.blocks
      /\ \A c \in DOMAIN p.blocks : q.blocks[c].size = p.blocks[c].size
      /\ q.blocks[b].taken = t + 1
      /\ \A c \in DOMAIN p.blocks \ {b} : q.blocks[c].taken = p.blocks[c].taken
  BY <1>1, BumpFacts
<1> HIDE DEF q
<1>4. \A c : Pool!RecycledIn(q, c) = {} BY <1>3 DEF Pool!RecycledIn, Pool!Recycled
<1>5. PICK n \in 0..p.blocks[b].size :
        /\ Within(L, b) \cup Pool!RecycledIn(p, b) = Pool!FirstOf(b, n)
        /\ IsFiniteSet(Within(L, b)) /\ IsFiniteSet(Pool!RecycledIn(p, b))
        /\ p.blocks[b].taken = Cardinality(Within(L, b))
        /\ Cardinality(Within(L, b)) + Cardinality(Pool!RecycledIn(p, b)) = n
  BY <1>1, BlockCounts
<1>6. n = t /\ Within(L, b) = Pool!FirstOf(b, t)
  <2>1. Cardinality(Pool!RecycledIn(p, b)) = 0 BY <1>2, FS_EmptySet
  <2>2. n = t BY <1>1, <1>5, <2>1
  <2>3. QED BY <1>2, <1>5, <2>2
<1>7. idx \notin L
  <2>1. idx[1] = b /\ idx[2] = t BY DEF t
  <2>2. idx \notin Pool!FirstOf(b, t) BY <1>1, <2>1 DEF Pool!FirstOf
  <2>3. QED BY <1>6, <2>1, <2>2 DEF Within
<1>8. Pool!FirstOf(b, t + 1) = Pool!FirstOf(b, t) \cup {idx}
  <2>1. 0..((t + 1) - 1) = (0..(t - 1)) \cup {t} BY <1>1
  <2>2. QED BY <2>1 DEF Pool!FirstOf
<1>9. Within(L \cup {idx}, b) = Pool!FirstOf(b, t + 1)
  <2>1. Within(L \cup {idx}, b) = Within(L, b) \cup {idx} BY <1>1 DEF Within
  <2>2. QED BY <1>6, <1>8, <2>1
<1>10. Cardinality(Within(L \cup {idx}, b)) = t + 1
  <2>1. idx \notin Within(L, b) BY <1>7 DEF Within
  <2>2. Within(L \cup {idx}, b) = Within(L, b) \cup {idx} BY <1>1 DEF Within
  <2>3. QED BY <1>5, <2>1, <2>2, FS_AddElement
<1>11. \A c \in DOMAIN q.blocks :
        \E k \in 0..q.blocks[c].size :
          /\ Within(L \cup {idx}, c) \cup Pool!RecycledIn(q, c) = Pool!FirstOf(c, k)
          /\ q.blocks[c].taken = Cardinality(Within(L \cup {idx}, c))
  <2> TAKE c \in DOMAIN q.blocks
  <2>1. CASE c = b
    <3>1. t + 1 \in 0..q.blocks[c].size BY <1>1, <1>3, <2>1
    <3>2. QED BY <1>3, <1>4, <1>9, <1>10, <2>1, <3>1
  <2>2. CASE c # b
    <3>1. c \in DOMAIN p.blocks BY <1>3
    <3>2. q.blocks[c].taken = p.blocks[c].taken /\ q.blocks[c].size = p.blocks[c].size
      BY <1>3, <2>2, <3>1
    <3>3. Within(L \cup {idx}, c) = Within(L, c) BY <1>1, <2>2 DEF Within
    <3>4. \E k \in 0..p.blocks[c].size :
            /\ Within(L, c) \cup Pool!RecycledIn(p, c) = Pool!FirstOf(c, k)
            /\ p.blocks[c].taken = Cardinality(Within(L, c))
      BY <3>1, BlockCounts
    <3>5. QED BY <1>2, <1>4, <3>2, <3>3, <3>4
  <2>3. QED BY <2>1, <2>2
<1>12. Pool!Cut(q, L \cup {idx})
  <2>1. L \subseteq (DOMAIN p.blocks) \X Nat BY DEF Pool!Cut
  <2>2. idx \in (DOMAIN p.blocks) \X Nat BY <1>1
  <2>3. DOMAIN q.free = {} BY <1>3
  <2>4. QED BY <1>3, <1>11, <2>1, <2>2, <2>3, PoolCardinality DEF Pool!Cut, Within
<1>13. QED BY <1>3, <1>7, <1>12 DEF q
\* The index returned last goes out again.
LEMMA TakeReturned ==
  ASSUME NEW p, NEW L, Pool!Shape(p), Pool!Cut(p, L), p.free # << >>
  PROVE  /\ Pool!Take(p).idx \notin L
         /\ Pool!Shape(Pool!Take(p).pool)
         /\ Pool!Cut(Pool!Take(p).pool, L \cup {Pool!Take(p).idx})
<1> DEFINE m == Len(p.free)
           idx == p.free[m]
           F == SubSeq(p.free, 1, m - 1)
           r == [p EXCEPT !.free = F]
           q == Pool!Bump(r, idx[1], 1)
           M == L \cup {idx}
<1>1. Pool!Take(p).idx = idx /\ Pool!Take(p).pool = q BY DEF Pool!Take
<1>2. p.free \in Seq(Nat \X Nat) /\ m \in Nat \ {0} /\ DOMAIN p.free = 1..m
      /\ m <= p.freeCapacity /\ p.freeCapacity \in Nat
  BY DEF Pool!Shape
<1>3. /\ F \in Seq(Nat \X Nat) /\ Len(F) = m - 1 /\ DOMAIN F = 1..(m - 1)
      /\ \A i \in 1..(m - 1) : F[i] = p.free[i]
  <2> HIDE DEF m
  <2>1. QED BY <1>2
<1>4. m \in DOMAIN p.free /\ idx \in (DOMAIN p.blocks) \X Nat /\ idx \notin L
  <2>1. m \in DOMAIN p.free BY <1>2
  <2>2. QED BY <2>1 DEF Pool!Cut
<1> HIDE DEF F, m
<1>5. Pool!Shape(r) /\ r.free = F /\ r.blocks = p.blocks
  <2>1. r.free = F /\ r.blocks = p.blocks BY DEF Pool!Shape
  <2>2. Len(F) <= p.freeCapacity BY <1>2, <1>3
  <2>3. QED BY <1>3, <2>1, <2>2 DEF Pool!Shape
<1> HIDE DEF r, idx
<1>6. PICK b : b = idx[1] OBVIOUS
<1>7. b \in DOMAIN p.blocks BY <1>4, <1>6
<1>8. p.blocks[b].taken \in Nat
  <2>1. p.blocks[b] \in [taken : Nat, size : Nat \ {0}] BY <1>7, BlockTypes
  <2>2. QED BY <2>1
<1>9. /\ Pool!Shape(q) /\ q.free = F /\ DOMAIN q.blocks = DOMAIN p.blocks
      /\ \A c \in DOMAIN p.blocks : q.blocks[c].size = p.blocks[c].size
      /\ q.blocks[b].taken = p.blocks[b].taken + 1
      /\ \A c \in DOMAIN p.blocks \ {b} : q.blocks[c].taken = p.blocks[c].taken
  <2>1. b \in DOMAIN r.blocks /\ r.blocks[b].taken + 1 \in Nat BY <1>5, <1>7, <1>8
  <2>2. q = Pool!Bump(r, b, 1) BY <1>6
  <2> HIDE DEF q
  <2>3. QED BY <1>5, <2>1, <2>2, BumpFacts
<1> HIDE DEF q
<1>10. \A i \in 1..(m - 1) : p.free[i] # idx
  <2>1. \A i \in 1..(m - 1) : i \in DOMAIN p.free /\ i # m BY <1>2
  <2>2. QED BY <1>4, <2>1 DEF Pool!Cut, idx
<1>11. \A c : Within(M, c) \cup Pool!RecycledIn(q, c) = Within(L, c) \cup Pool!RecycledIn(p, c)
  <2> TAKE c
  <2>1. Pool!Recycled(q) \cup {idx} = Pool!Recycled(p)
    <3>1. 1..m = (1..(m - 1)) \cup {m} BY <1>2
    <3>2. Pool!Recycled(q) = {p.free[i] : i \in 1..(m - 1)} BY <1>3, <1>9 DEF Pool!Recycled
    <3>3. QED BY <1>2, <3>1, <3>2 DEF Pool!Recycled, idx
  <2>2. QED BY <2>1 DEF Within, Pool!RecycledIn
<1>12. \A c : c # b => Within(M, c) = Within(L, c) BY <1>6 DEF Within
<1>13. Cardinality(Within(M, b)) = p.blocks[b].taken + 1
  <2>1. Within(M, b) = Within(L, b) \cup {idx} BY <1>6 DEF Within
  <2>2. idx \notin Within(L, b) BY <1>4 DEF Within
  <2>3. IsFiniteSet(Within(L, b)) /\ p.blocks[b].taken = Cardinality(Within(L, b))
    BY <1>7, BlockCounts
  <2>4. QED BY <2>1, <2>2, <2>3, FS_AddElement
<1>14. \A c \in DOMAIN q.blocks :
        \E k \in 0..q.blocks[c].size :
          /\ Within(M, c) \cup Pool!RecycledIn(q, c) = Pool!FirstOf(c, k)
          /\ q.blocks[c].taken = Cardinality(Within(M, c))
  <2> TAKE c \in DOMAIN q.blocks
  <2>1. c \in DOMAIN p.blocks BY <1>9
  <2>2. PICK k \in 0..p.blocks[c].size :
          /\ Within(L, c) \cup Pool!RecycledIn(p, c) = Pool!FirstOf(c, k)
          /\ p.blocks[c].taken = Cardinality(Within(L, c))
    BY <2>1, BlockCounts
  <2>3. q.blocks[c].taken = Cardinality(Within(M, c))
    <3>1. CASE c = b BY <1>9, <1>13, <3>1
    <3>2. CASE c # b BY <1>9, <1>12, <2>1, <2>2, <3>2
    <3>3. QED BY <3>1, <3>2
  <2>4. q.blocks[c].size = p.blocks[c].size BY <1>9, <2>1
  <2>5. QED BY <1>11, <2>2, <2>3, <2>4
<1>15. Pool!Cut(q, M)
  <2>1. M \subseteq (DOMAIN q.blocks) \X Nat BY <1>4, <1>9 DEF Pool!Cut
  <2>2. \A i \in DOMAIN q.free :
          /\ q.free[i] = p.free[i] /\ i \in DOMAIN p.free /\ q.free[i] # idx
    <3>1. 1..(m - 1) \subseteq 1..m BY <1>2
    <3>2. QED BY <1>2, <1>3, <1>9, <1>10, <3>1
  <2>3. \A i \in DOMAIN q.free : q.free[i] \in (DOMAIN q.blocks) \X Nat /\ q.free[i] \notin M
    BY <1>9, <2>2 DEF Pool!Cut
  <2>4. \A i, j \in DOMAIN q.free : q.free[i] = q.free[j] => i = j
    BY <2>2 DEF Pool!Cut
  <2>5. QED BY <1>14, <2>1, <2>3, <2>4, PoolCardinality DEF Pool!Cut, Within
<1>16. QED BY <1>1, <1>4, <1>9, <1>15

\* vlPoolTake hands out an index that is not out, and keeps the invariant.
LEMMA TakeKeeps ==
  ASSUME NEW p, NEW L, Pool!Shape(p), Pool!Cut(p, L)
  PROVE  /\ Pool!Take(p).idx \notin L
         /\ Pool!Shape(Pool!Take(p).pool)
         /\ Pool!Cut(Pool!Take(p).pool, L \cup {Pool!Take(p).idx})
<1>1. CASE p.free # << >> BY <1>1, TakeReturned
<1>2. CASE p.free = << >>
  <2> DEFINE q == IF Pool!Unspent(p) = {} THEN Pool!NodeNew(p) ELSE p
             b == Pool!FirstUnspent(q)
             idx == <<b, q.blocks[b].taken>>
  <2>1. Pool!Take(p).idx = idx /\ Pool!Take(p).pool = Pool!Bump(q, b, 1)
    BY <1>2 DEF Pool!Take
  <2>2. Pool!Shape(q) /\ Pool!Cut(q, L) /\ q.free = << >> /\ Pool!Unspent(q) # {}
    <3>1. CASE Pool!Unspent(p) = {} BY <1>2, <3>1, NodeNewFacts, NodeNewCut
    <3>2. CASE Pool!Unspent(p) # {} BY <1>2, <3>2
    <3>3. QED BY <3>1, <3>2
  <2> HIDE DEF q
  <2>3. b \in Pool!Unspent(q) BY <2>2, UnspentFound
  <2> HIDE DEF b
  <2>4. /\ idx \notin L /\ Pool!Shape(Pool!Bump(q, b, 1))
        /\ Pool!Cut(Pool!Bump(q, b, 1), L \cup {idx})
    <3> HIDE DEF idx
    <3>1. idx = <<b, q.blocks[b].taken>> BY DEF idx
    <3>2. QED BY <2>2, <2>3, <3>1, CutNext
  <2>5. QED BY <2>1, <2>4
<1>3. QED BY <1>1, <1>2
\* An index that is out comes back: it moves from the set of those out to the stack.
LEMMA ReturnKeeps ==
  ASSUME NEW p, NEW L, Pool!Shape(p), Pool!Cut(p, L), NEW idx \in L
  PROVE  Pool!Shape(Pool!Return(p, idx)) /\ Pool!Cut(Pool!Return(p, idx), L \ {idx})
<1> DEFINE m == Len(p.free)
           r == Pool!Bump(p, idx[1], -1)
           F == Append(p.free, idx)
           k == IF Len(p.free) >= p.freeCapacity THEN 2 * p.freeCapacity ELSE p.freeCapacity
           q == [r EXCEPT !.free = F, !.freeCapacity = k]
           M == L \ {idx}
<1>1. PICK b : b = idx[1] OBVIOUS
<1>2. idx \in (DOMAIN p.blocks) \X Nat /\ b \in DOMAIN p.blocks
  <2>1. idx \in (DOMAIN p.blocks) \X Nat BY DEF Pool!Cut
  <2>2. QED BY <1>1, <2>1
<1>3. /\ p.free \in Seq(Nat \X Nat) /\ m \in Nat /\ DOMAIN p.free = 1..m
      /\ p.freeCapacity \in Nat \ {0} /\ m <= p.freeCapacity
      /\ DOMAIN p.blocks = 1..Len(p.blocks) /\ Len(p.blocks) \in Nat
  BY DEF Pool!Shape
<1>4. idx \in Nat \X Nat BY <1>2, <1>3
<1>5. /\ IsFiniteSet(Within(L, b)) /\ p.blocks[b].taken = Cardinality(Within(L, b))
  BY <1>2, BlockCounts
<1>6. /\ Within(M, b) = Within(L, b) \ {idx} /\ idx \in Within(L, b)
      /\ \A c : c # b => Within(M, c) = Within(L, c)
  BY <1>1 DEF Within
<1>7. /\ Cardinality(Within(M, b)) = p.blocks[b].taken - 1
      /\ p.blocks[b].taken - 1 \in Nat
  <2>1. /\ IsFiniteSet(Within(L, b) \ {idx})
        /\ Cardinality(Within(L, b) \ {idx}) = Cardinality(Within(L, b)) - 1
    BY <1>5, <1>6, FS_RemoveElement
  <2>2. Cardinality(Within(L, b) \ {idx}) \in Nat BY <2>1, FS_CardinalityType
  <2>3. QED BY <1>5, <1>6, <2>1, <2>2
<1>8. /\ Pool!Shape(r) /\ r.free = p.free /\ r.freeCapacity = p.freeCapacity
      /\ DOMAIN r.blocks = DOMAIN p.blocks
      /\ \A c \in DOMAIN p.blocks : r.blocks[c].size = p.blocks[c].size
      /\ r.blocks[b].taken = p.blocks[b].taken - 1
      /\ \A c \in DOMAIN p.blocks \ {b} : r.blocks[c].taken = p.blocks[c].taken
  <2>1. r = Pool!Bump(p, b, -1) BY <1>1
  <2>2. -1 \in Int /\ p.blocks[b].taken + -1 = p.blocks[b].taken - 1
    <3>1. p.blocks[b] \in [taken : Nat, size : Nat \ {0}] BY <1>2, BlockTypes
    <3>2. QED BY <3>1
  <2> HIDE DEF r
  <2>3. QED BY <1>2, <1>7, <2>1, <2>2, BumpFacts
<1> HIDE DEF r
<1>9. Pool!Return(p, idx) = q BY <1>8 DEF Pool!Return, r
<1>10. /\ F \in Seq(Nat \X Nat) /\ Len(F) = m + 1 /\ DOMAIN F = 1..(m + 1) /\ F[m + 1] = idx
       /\ \A i \in 1..m : F[i] = p.free[i]
  <2>1. p.free \in Seq(Nat \X Nat) /\ idx \in Nat \X Nat BY <1>3, <1>4
  <2>2. QED BY <2>1
<1>11. k \in Nat \ {0} /\ m + 1 <= k
  <2>1. CASE m >= p.freeCapacity
    <3>1. k = 2 * p.freeCapacity /\ m = p.freeCapacity BY <1>3, <2>1
    <3>2. \A j \in Nat \ {0} : 2 * j \in Nat \ {0} /\ j + 1 <= 2 * j OBVIOUS
    <3> HIDE DEF k, m
    <3>3. QED BY <1>3, <3>1, <3>2
  <2>2. CASE ~(m >= p.freeCapacity)
    <3>1. k = p.freeCapacity BY <2>2
    <3> HIDE DEF k, m
    <3>2. QED BY <1>3, <2>2, <3>1
  <2>3. QED BY <2>1, <2>2
<1> HIDE DEF F, k, m
<1>12. Pool!Shape(q) /\ q.free = F /\ q.blocks = r.blocks
  <2>1. q.free = F /\ q.blocks = r.blocks BY <1>8 DEF Pool!Shape
  <2>2. Pool!Shape(q) BY <1>8, <1>10, <1>11 DEF Pool!Shape
  <2>3. QED BY <2>1, <2>2
<1> HIDE DEF q
<1>13. Pool!Recycled(q) = Pool!Recycled(p) \cup {idx}
  <2>1. 1..(m + 1) = (1..m) \cup {m + 1} BY <1>3
  <2>2. Pool!Recycled(q) = {F[i] : i \in 1..(m + 1)} BY <1>10, <1>12 DEF Pool!Recycled
  <2>3. Pool!Recycled(p) = {p.free[i] : i \in 1..m} BY <1>3 DEF Pool!Recycled
  <2>4. QED BY <1>10, <2>1, <2>2, <2>3
<1>14. \A c : Within(M, c) \cup Pool!RecycledIn(q, c) = Within(L, c) \cup Pool!RecycledIn(p, c)
  BY <1>13 DEF Within, Pool!RecycledIn
<1>15. \A c \in DOMAIN q.blocks :
        \E j \in 0..q.blocks[c].size :
          /\ Within(M, c) \cup Pool!RecycledIn(q, c) = Pool!FirstOf(c, j)
          /\ q.blocks[c].taken = Cardinality(Within(M, c))
  <2> TAKE c \in DOMAIN q.blocks
  <2>1. c \in DOMAIN p.blocks BY <1>8, <1>12
  <2>2. PICK j \in 0..p.blocks[c].size :
          /\ Within(L, c) \cup Pool!RecycledIn(p, c) = Pool!FirstOf(c, j)
          /\ p.blocks[c].taken = Cardinality(Within(L, c))
    BY <2>1, BlockCounts
  <2>3. q.blocks[c].taken = Cardinality(Within(M, c))
    <3>1. CASE c = b BY <1>7, <1>8, <1>12, <3>1
    <3>2. CASE c # b BY <1>6, <1>8, <1>12, <2>1, <2>2, <3>2
    <3>3. QED BY <3>1, <3>2
  <2>4. q.blocks[c].size = p.blocks[c].size BY <1>8, <1>12, <2>1
  <2>5. QED BY <1>14, <2>2, <2>3, <2>4
<1>16. \A i \in DOMAIN p.free : p.free[i] \in (DOMAIN p.blocks) \X Nat /\ p.free[i] \notin L
  BY DEF Pool!Cut
<1>17. Pool!Cut(q, M)
  <2>1. M \subseteq (DOMAIN q.blocks) \X Nat BY <1>8, <1>12 DEF Pool!Cut
  <2>2. \A i \in DOMAIN q.free : \/ i = m + 1 /\ q.free[i] = idx
                                 \/ i \in DOMAIN p.free /\ q.free[i] = p.free[i]
    <3> TAKE i \in DOMAIN q.free
    <3>1. i \in 1..(m + 1) BY <1>10, <1>12
    <3>2. i = m + 1 \/ i \in 1..m BY <1>3, <3>1
    <3>3. q.free = F /\ DOMAIN p.free = 1..m BY <1>3, <1>12
    <3>4. QED BY <1>10, <3>2, <3>3
  <2>3. \A i \in DOMAIN q.free : q.free[i] \in (DOMAIN q.blocks) \X Nat /\ q.free[i] \notin M
    <3> TAKE i \in DOMAIN q.free
    <3>1. CASE q.free[i] = idx BY <1>2, <1>8, <1>12, <3>1
    <3>2. CASE i \in DOMAIN p.free /\ q.free[i] = p.free[i] BY <1>8, <1>12, <1>16, <3>2
    <3>3. QED BY <2>2, <3>1, <3>2
  <2>4. \A i, j \in DOMAIN q.free : q.free[i] = q.free[j] => i = j
    <3>1. \A i \in DOMAIN p.free : p.free[i] # idx BY <1>16
    <3>2. \A i, j \in DOMAIN p.free : p.free[i] = p.free[j] => i = j BY DEF Pool!Cut
    <3>3. QED BY <2>2, <3>1, <3>2
  <2>5. QED BY <1>15, <2>1, <2>3, <2>4, PoolCardinality DEF Pool!Cut, Within
<1>18. QED BY <1>9, <1>12, <1>17

\* A pool none of whose elements is out or recycled is in order.
LEMMA EmptyPoolCut ==
  ASSUME NEW q, Pool!Shape(q), q.free = << >>, \A b \in DOMAIN q.blocks : q.blocks[b].taken = 0
  PROVE  Pool!Cut(q, {})
<1>1. \A b : Within({}, b) \cup Pool!RecycledIn(q, b) = Pool!FirstOf(b, 0)
  <2>1. 0..(0 - 1) = {} OBVIOUS
  <2>2. QED BY <2>1 DEF Within, Pool!RecycledIn, Pool!Recycled, Pool!FirstOf
<1>2. \A b : Cardinality(Within({}, b)) = 0 BY FS_EmptySet DEF Within
<1>3. \A b \in DOMAIN q.blocks : 0 \in 0..q.blocks[b].size
  <2> TAKE b \in DOMAIN q.blocks
  <2>1. q.blocks[b] \in [taken : Nat, size : Nat \ {0}] BY BlockTypes
  <2>2. QED BY <2>1
<1>4. \A b \in DOMAIN q.blocks :
        \E n \in 0..q.blocks[b].size :
          /\ Within({}, b) \cup Pool!RecycledIn(q, b) = Pool!FirstOf(b, n)
          /\ q.blocks[b].taken = Cardinality(Within({}, b))
  BY <1>1, <1>2, <1>3
<1>5. QED BY <1>4, PoolCardinality DEF Pool!Cut, Within

\* vlPoolClear and vlPoolReset leave an empty pool, and vlPoolInitAligned makes one.
LEMMA ClearKeeps ==
  ASSUME NEW p, Pool!Shape(p)
  PROVE  Pool!Shape(Pool!Clear(p)) /\ Pool!Cut(Pool!Clear(p), {})
<1> DEFINE B == [b \in DOMAIN p.blocks |-> [p.blocks[b] EXCEPT !.taken = 0]]
           F == << >>
           q == [p EXCEPT !.blocks = B, !.free = F]
<1>1. Pool!Clear(p) = q BY DEF Pool!Clear
<1>2. \A b \in DOMAIN p.blocks :
        /\ [p.blocks[b] EXCEPT !.taken = 0] \in [taken : Nat, size : Nat \ {0}]
        /\ [p.blocks[b] EXCEPT !.taken = 0].taken = 0
  BY BlockTypes
<1>3. DOMAIN p.blocks = 1..Len(p.blocks) /\ Len(p.blocks) \in Nat /\ Len(p.blocks) # 0
  BY DEF Pool!Shape
<1>4. /\ B \in Seq([taken : Nat, size : Nat \ {0}]) /\ Len(B) = Len(p.blocks) /\ B # << >>
      /\ \A b \in DOMAIN B : B[b].taken = 0
  <2>1. DOMAIN B = 1..Len(p.blocks) BY <1>3
  <2>2. \A b \in DOMAIN B : B[b] \in [taken : Nat, size : Nat \ {0}] /\ B[b].taken = 0 BY <1>2
  <2>3. B \in [1..Len(p.blocks) -> [taken : Nat, size : Nat \ {0}]] BY <1>2, <1>3
  <2> HIDE DEF B
  <2>4. B \in Seq([taken : Nat, size : Nat \ {0}]) /\ Len(B) = Len(p.blocks)
    <3> DEFINE K == [taken : Nat, size : Nat \ {0}]
    <3> HIDE DEF K
    <3>1. \A n \in Nat : \A f \in [1..n -> K] : f \in Seq(K) /\ Len(f) = n OBVIOUS
    <3>2. QED BY <1>3, <2>3, <3>1 DEF K
  <2>5. QED BY <1>3, <2>2, <2>4
<1> HIDE DEF B
<1>5. F \in Seq(Nat \X Nat) /\ Len(F) = 0 /\ F = << >> OBVIOUS
<1> HIDE DEF F
<1>6. q.blocks = B /\ q.free = F BY DEF Pool!Shape
<1>7. Pool!Shape(q)
  <2>1. F \in Seq(Nat \X Nat) /\ Len(F) = 0 BY <1>5
  <2>2. p.freeCapacity \in Nat /\ Len(F) <= p.freeCapacity BY <2>1 DEF Pool!Shape
  <2>3. Len(B) <= p.lookupCapacity BY <1>4 DEF Pool!Shape
  <2>4. QED BY <1>4, <2>1, <2>2, <2>3 DEF Pool!Shape
<1> HIDE DEF q
<1>8. QED BY <1>1, <1>4, <1>5, <1>6, <1>7, EmptyPoolCut

\* vlPoolReset: one empty block is left.
LEMMA ResetKeeps ==
  ASSUME NEW p, Pool!Shape(p)
  PROVE  Pool!Shape(Pool!Reset(p)) /\ Pool!Cut(Pool!Reset(p), {})
<1> DEFINE e == [p.blocks[1] EXCEPT !.taken = 0]
           B == << e >>
           g == p.blocks[1].size
           F == << >>
           q == [p EXCEPT !.blocks = B, !.growth = g, !.free = F]
<1>1. Pool!Reset(p) = q BY DEF Pool!Reset
<1>2. Len(p.blocks) \in Nat /\ Len(p.blocks) >= 1 /\ 1 \in DOMAIN p.blocks
  BY DEF Pool!Shape
<1>3. p.blocks[1] \in [taken : Nat, size : Nat \ {0}] BY <1>2, BlockTypes
<1>4. e \in [taken : Nat, size : Nat \ {0}] /\ e.taken = 0 /\ g \in Nat \ {0} BY <1>3
<1> HIDE DEF e, g
<1>5. /\ B \in Seq([taken : Nat, size : Nat \ {0}]) /\ Len(B) = 1 /\ B # << >>
      /\ \A b \in DOMAIN B : B[b].taken = 0
  BY <1>4
<1> HIDE DEF B
<1>6. F \in Seq(Nat \X Nat) /\ Len(F) = 0 /\ F = << >> OBVIOUS
<1> HIDE DEF F
<1>7. q.blocks = B /\ q.free = F BY DEF Pool!Shape
<1>8. Pool!Shape(q)
  <2>1. F \in Seq(Nat \X Nat) /\ Len(F) = 0 BY <1>6
  <2>2. p.freeCapacity \in Nat /\ Len(F) <= p.freeCapacity BY <2>1 DEF Pool!Shape
  <2>3. Len(B) <= p.lookupCapacity BY <1>2, <1>5 DEF Pool!Shape
  <2>4. QED BY <1>4, <1>5, <2>1, <2>2, <2>3 DEF Pool!Shape
<1> HIDE DEF q
<1>9. QED BY <1>1, <1>5, <1>6, <1>7, <1>8, EmptyPoolCut

\* vlPoolInitAligned.
LEMMA FreshKeeps ==
  Pool!Shape(Pool!FreshPool) /\ Pool!Cut(Pool!FreshPool, {})
<1> DEFINE B == Append(<< >>, [taken |-> 0, size |-> FirstSize])
           E == << >>
           F == << >>
           base == [blocks |-> E, growth |-> FirstSize, free |-> F, freeCapacity |-> FirstTable,
                    lookupCapacity |-> FirstTable, tableRoom |-> FirstTable, table |-> "own"]
           g == 2 * FirstSize
           one == [base EXCEPT !.blocks = B, !.growth = g, !.lookupCapacity = FirstTable,
                               !.tableRoom = FirstTable, !.table = "own"]
           q == [one EXCEPT !.growth = FirstSize]
<1>1. FirstSize \in Nat \ {0} /\ FirstTable \in Nat \ {0} BY StorageAssumption
<1>2. Pool!FreshPool = q
  <2>1. ~(Len(base.blocks) >= FirstTable) BY <1>1
  <2>2. Pool!NodeNew(base) = one BY <2>1 DEF Pool!NodeNew
  <2>3. QED BY <2>2 DEF Pool!FreshPool
<1>3. /\ B \in Seq([taken : Nat, size : Nat \ {0}]) /\ Len(B) = 1 /\ B # << >>
      /\ \A b \in DOMAIN B : B[b].taken = 0
  BY <1>1
<1>4. F \in Seq(Nat \X Nat) /\ Len(F) = 0 /\ F = << >> OBVIOUS
<1>5. E \in Seq([taken : Nat, size : Nat \ {0}]) OBVIOUS
<1>6. g \in Nat \ {0} BY <1>1
<1> HIDE DEF B, E, F, g
<1>7. base \in [blocks : Seq([taken : Nat, size : Nat \ {0}]), growth : Nat \ {0},
                free : Seq(Nat \X Nat), freeCapacity : Nat \ {0},
                lookupCapacity : Nat \ {0}, tableRoom : Nat \ {0}, table : {"own", "copied"}]
      /\ base.free = F /\ base.freeCapacity = FirstTable /\ base.table = "own"
  BY <1>1, <1>4, <1>5
<1> HIDE DEF base
<1>8. one \in [blocks : Seq([taken : Nat, size : Nat \ {0}]), growth : Nat \ {0},
               free : Seq(Nat \X Nat), freeCapacity : Nat \ {0},
               lookupCapacity : Nat \ {0}, tableRoom : Nat \ {0}, table : {"own", "copied"}]
      /\ one.free = F /\ one.freeCapacity = FirstTable /\ one.blocks = B
      /\ one.lookupCapacity = FirstTable /\ one.tableRoom = FirstTable
  BY <1>1, <1>3, <1>6, <1>7
<1> HIDE DEF one
<1>9. Pool!Shape(q) /\ q.free = F /\ q.blocks = B /\ q.tableRoom = FirstTable
  <2>1. F \in Seq(Nat \X Nat) /\ Len(F) = 0 /\ Len(F) <= FirstTable /\ Len(B) <= FirstTable
    BY <1>1, <1>3, <1>4
  <2>2. /\ q.free = F /\ q.blocks = B /\ q.freeCapacity = FirstTable
        /\ q.lookupCapacity = FirstTable /\ q.tableRoom = FirstTable
    BY <1>8
  <2>3. q \in [blocks : Seq([taken : Nat, size : Nat \ {0}]), growth : Nat \ {0},
               free : Seq(Nat \X Nat), freeCapacity : Nat \ {0},
               lookupCapacity : Nat \ {0}, tableRoom : Nat \ {0}, table : {"own", "copied"}]
    BY <1>1, <1>8
  <2> HIDE DEF q
  <2>4. FirstTable <= FirstTable BY <1>1
  <2>5. Pool!Shape(q) BY <1>3, <2>1, <2>2, <2>3, <2>4 DEF Pool!Shape
  <2>6. QED BY <2>2, <2>5
<1> HIDE DEF q
<1>10. Pool!Cut(q, {}) BY <1>3, <1>4, <1>9, EmptyPoolCut
<1>11. QED BY <1>2, <1>9, <1>10

\* A clone has the elements of its source, in the memory of the pool it replaces.
LEMMA CloneKeeps ==
  ASSUME NEW p, NEW old, NEW L, Pool!Shape(p), Pool!Shape(old), Pool!Cut(p, L)
  PROVE  Pool!Shape(Pool!Clone(p, old)) /\ Pool!Cut(Pool!Clone(p, old), L)
<1> DEFINE r == Pool!Reset(old)
           k == IF r.freeCapacity < p.freeCapacity THEN p.freeCapacity ELSE r.freeCapacity
           u == IF p.lookupCapacity > old.tableRoom THEN "copied" ELSE "own"
           q == [r EXCEPT !.blocks = p.blocks, !.growth = p.growth, !.free = p.free,
                          !.freeCapacity = k, !.lookupCapacity = p.lookupCapacity, !.table = u]
<1>1. Pool!Clone(p, old) = q BY DEF Pool!Clone
<1>2. Pool!Shape(r) BY ResetKeeps
<1>3. r.tableRoom = old.tableRoom BY DEF Pool!Reset, Pool!Shape
<1> HIDE DEF r
<1>4. k \in Nat \ {0} /\ p.freeCapacity <= k
  <2>1. r.freeCapacity \in Nat \ {0} /\ p.freeCapacity \in Nat \ {0} BY <1>2 DEF Pool!Shape
  <2>2. QED BY <2>1
<1> HIDE DEF k
<1>5. u \in {"own", "copied"} /\ (u = "own" => p.lookupCapacity <= old.tableRoom)
  <2>1. p.lookupCapacity \in Nat /\ old.tableRoom \in Nat BY DEF Pool!Shape
  <2>2. QED BY <2>1
<1> HIDE DEF u
<1>6. /\ q.blocks = p.blocks /\ q.growth = p.growth /\ q.free = p.free /\ q.freeCapacity = k
      /\ q.lookupCapacity = p.lookupCapacity /\ q.tableRoom = old.tableRoom /\ q.table = u
  BY <1>2, <1>3 DEF Pool!Shape
<1>7. q \in [blocks : Seq([taken : Nat, size : Nat \ {0}]), growth : Nat \ {0},
             free : Seq(Nat \X Nat), freeCapacity : Nat \ {0},
             lookupCapacity : Nat \ {0}, tableRoom : Nat \ {0}, table : {"own", "copied"}]
  BY <1>2, <1>4, <1>5 DEF Pool!Shape
<1> HIDE DEF q
<1>8. Len(q.free) <= q.freeCapacity
  <2>1. Len(p.free) \in Nat /\ p.freeCapacity \in Nat /\ Len(p.free) <= p.freeCapacity
    BY DEF Pool!Shape
  <2>2. QED BY <1>4, <1>6, <2>1
<1>9. Pool!Shape(q) BY <1>6, <1>7, <1>8, <1>5 DEF Pool!Shape
<1>10. Pool!Cut(q, L) BY <1>6 DEF Pool!Cut, Pool!RecycledIn, Pool!Recycled
<1>11. QED BY <1>1, <1>9, <1>10

\* Both pools start empty.
LEMMA PoolStart == Pool!Init => Pool!PoolInv
  BY FreshKeeps DEF Pool!Init, Pool!PoolInv

\* Every operation keeps the invariant.
LEMMA PoolStep ==
  ASSUME Pool!PoolInv, Pool!Next \/ UNCHANGED Pool!vars
  PROVE  Pool!PoolInv'
<1>1. Pool!Shape(s1) /\ Pool!Shape(s2) /\ Pool!Cut(s1, s3) BY DEF Pool!PoolInv
<1> SUFFICES Pool!Shape(s1') /\ Pool!Shape(s2') /\ Pool!Cut(s1', s3')
  BY DEF Pool!PoolInv
<1>2. CASE Pool!TakeElement
  <2>1. /\ s1' = Pool!Take(s1).pool /\ s3' = s3 \cup {Pool!Take(s1).idx} /\ s2' = s2
    BY <1>2 DEF Pool!TakeElement
  <2>2. QED BY <1>1, <2>1, TakeKeeps
<1>3. ASSUME NEW idx \in s3, Pool!ReturnElement(idx)
      PROVE  Pool!Shape(s1') /\ Pool!Shape(s2') /\ Pool!Cut(s1', s3')
  <2>1. s1' = Pool!Return(s1, idx) /\ s3' = s3 \ {idx} /\ s2' = s2
    BY <1>3 DEF Pool!ReturnElement
  <2>2. QED BY <1>1, <2>1, ReturnKeeps
<1>4. CASE Pool!ClearPool
  <2>1. s1' = Pool!Clear(s1) /\ s3' = {} /\ s2' = s2 BY <1>4 DEF Pool!ClearPool
  <2>2. QED BY <1>1, <2>1, ClearKeeps
<1>5. CASE Pool!ResetPool
  <2>1. s1' = Pool!Reset(s1) /\ s3' = {} /\ s2' = s2 BY <1>5 DEF Pool!ResetPool
  <2>2. QED BY <1>1, <2>1, ResetKeeps
<1>6. CASE Pool!FreePool
  <2>1. s1' = Pool!FreshPool /\ s3' = {} /\ s2' = s2 BY <1>6 DEF Pool!FreePool
  <2>2. QED BY <1>1, <2>1, FreshKeeps
<1>7. ASSUME NEW n \in 1..3, Pool!ReservePool(n)
      PROVE  Pool!Shape(s1') /\ Pool!Shape(s2') /\ Pool!Cut(s1', s3')
  <2>1. (s1' = Pool!NodeNew(s1) \/ s1' = s1) /\ s3' = s3 /\ s2' = s2
    BY <1>7 DEF Pool!ReservePool, Pool!Reserve
  <2>2. QED BY <1>1, <2>1, NodeNewFacts, NodeNewCut
<1>8. CASE Pool!ClonePool
  <2>1. s1' = Pool!Clone(s1, s2) /\ s2' = s1 /\ s3' = s3
    BY <1>8 DEF Pool!ClonePool
  <2>2. QED BY <1>1, <2>1, CloneKeeps
<1>9. CASE UNCHANGED Pool!vars BY <1>1, <1>9 DEF Pool!vars
<1>10. QED BY <1>2, <1>3, <1>4, <1>5, <1>6, <1>7, <1>8, <1>9 DEF Pool!Next

\* The stack of a pool holds as many indices as it is long: none is on it twice.
LEMMA RecycledCounted ==
  ASSUME NEW p, NEW L, Pool!Shape(p), Pool!Cut(p, L)
  PROVE  Cardinality(Pool!Recycled(p)) = Len(p.free)
<1> DEFINE n == Len(p.free)  R == Pool!Recycled(p)
<1>1. n \in Nat /\ DOMAIN p.free = 1..n /\ R = {p.free[i] : i \in 1..n}
  BY DEF Pool!Shape, Pool!Recycled
<1>2. \A i, j \in 1..n : p.free[i] = p.free[j] => i = j BY <1>1 DEF Pool!Cut
<1> DEFINE f == [i \in 1..n |-> p.free[i]]
<1> HIDE DEF n, R
<1>3. f \in Bijection(1..n, R)
  <2>1. \A i \in 1..n : f[i] = p.free[i] /\ f[i] \in R BY <1>1
  <2>2. f \in [1..n -> R] BY <2>1
  <2>3. \A i, j \in 1..n : f[i] = f[j] => i = j BY <1>2, <2>1
  <2>4. \A x \in R : \E i \in 1..n : f[i] = x BY <1>1, <2>1
  <2> HIDE DEF f
  <2>5. QED BY <2>2, <2>3, <2>4 DEF Bijection, Injection, Surjection, IsInjective
<1>4. IsFiniteSet(1..n) /\ Cardinality(1..n) = n
  <2>1. IsFiniteSet(1..n) /\ Cardinality(1..n) = IF 1 > n THEN 0 ELSE n - 1 + 1
    BY <1>1, FS_Interval
  <2>2. (IF 1 > n THEN 0 ELSE n - 1 + 1) = n BY <1>1
  <2>3. QED BY <2>1, <2>2
<1>5. ExistsBijection(1..n, R) BY <1>3 DEF ExistsBijection
<1>6. Cardinality(R) = n BY <1>4, <1>5, FS_Bijection
<1>7. QED BY <1>6 DEF n, R

\* What the invariant says of the elements of a pool.
LEMMA ElementsSound ==
  ASSUME NEW p, NEW L, Pool!Shape(p), Pool!Cut(p, L)
  PROVE  /\ Pool!Take(p).idx \notin L /\ L \cap Pool!Recycled(p) = {}
         /\ Cardinality(Pool!Recycled(p)) = Len(p.free)
         /\ \A b \in DOMAIN p.blocks :
              LET cut == Cardinality(Within(L, b)) + Cardinality(Pool!RecycledIn(p, b))
              IN  /\ p.blocks[b].taken = Cardinality(Within(L, b))
                  /\ cut <= p.blocks[b].size
                  /\ Within(L, b) \cup Pool!RecycledIn(p, b) = {<<b, s>> : s \in 0..(cut - 1)}
         /\ Len(p.free) <= p.freeCapacity /\ (p.table = "own" => Pool!InTable(p))
<1>1. Pool!Take(p).idx \notin L BY TakeKeeps
<1>2. L \cap Pool!Recycled(p) = {} BY DEF Pool!Cut, Pool!Recycled
<1>3. Cardinality(Pool!Recycled(p)) = Len(p.free) BY RecycledCounted
<1>4. ASSUME NEW b \in DOMAIN p.blocks
      PROVE  LET cut == Cardinality(Within(L, b)) + Cardinality(Pool!RecycledIn(p, b))
             IN  /\ p.blocks[b].taken = Cardinality(Within(L, b))
                 /\ cut <= p.blocks[b].size
                 /\ Within(L, b) \cup Pool!RecycledIn(p, b) = {<<b, s>> : s \in 0..(cut - 1)}
  <2>1. PICK n \in 0..p.blocks[b].size :
          /\ Within(L, b) \cup Pool!RecycledIn(p, b) = Pool!FirstOf(b, n)
          /\ p.blocks[b].taken = Cardinality(Within(L, b))
          /\ Cardinality(Within(L, b)) + Cardinality(Pool!RecycledIn(p, b)) = n
    BY BlockCounts
  <2>2. p.blocks[b] \in [taken : Nat, size : Nat \ {0}] BY BlockTypes
  <2>3. n <= p.blocks[b].size BY <2>1, <2>2
  <2>4. QED BY <2>1, <2>3 DEF Pool!FirstOf
<1>5. Len(p.free) <= p.freeCapacity /\ (p.table = "own" => Pool!InTable(p))
  <2>1. Len(p.blocks) \in Nat /\ p.lookupCapacity \in Nat /\ p.tableRoom \in Nat BY DEF Pool!Shape
  <2>2. QED BY <2>1 DEF Pool!Shape, Pool!InTable
<1>6. QED BY <1>1, <1>2, <1>3, <1>4, <1>5

\* The invariant of a pool gives what a pool promises.
LEMMA PoolSoundFromInv == Pool!PoolInv => Pool!FixedPoolSound
<1> SUFFICES ASSUME Pool!PoolInv PROVE Pool!FixedPoolSound
  OBVIOUS
<1>1. Pool!Shape(s1) /\ Pool!Cut(s1, s3) BY DEF Pool!PoolInv
<1>2. \A b : Pool!LiveIn(b) = Within(s3, b) BY DEF Pool!LiveIn, Within
<1>3. Pool!CounterSound BY <1>1, <1>2, ElementsSound, PoolCardinality DEF Pool!CounterSound
<1>4. QED BY <1>1, <1>3, ElementsSound, PoolCardinality DEF Pool!FixedPoolSound

----------------------------------------------------------------------------
(* Aligned allocations: s1 is the block, s2 the cells kept. *)

\* The multiple of an alignment below an address is a multiple of it, less than one
\* alignment away.
LEMMA RoundedDown ==
  ASSUME NEW x \in Nat, NEW a \in Nat \ {0}
  PROVE  /\ (x - (x % a)) % a = 0
         /\ x % a \in 0..(a - 1)
<1> DEFINE q == x \div a  r == x % a
<1>1. x = a * q + r /\ q \in Int /\ r \in 0..(a - 1) OBVIOUS
<1> HIDE DEF q, r
<1>2. x - r = 0 + a * q /\ x - r \in Int BY <1>1
<1>3. 0 \in Int /\ q \in Int BY <1>1
<1>4. (x - r) % a = 0 % a BY <1>2, <1>3, ModPeriod
<1>5. 0 % a = 0 OBVIOUS
<1>6. QED BY <1>1, <1>4, <1>5 DEF r

\* Wherever malloc puts a block, header and cells lie inside it, and the caller's
\* address is aligned.
LEMMA HeaderPlaced ==
  ASSUME NEW o \in Origins, NEW a \in Nat \ {0}, a >= Mem!DefaultAlign
  PROVE  /\ Mem!HeadOffset(o, a) \in Nat
         /\ \A size \in Nat : Mem!HeadOffset(o, a) + Mem!HeaderSize + size <= Mem!Room(size, a)
         /\ (o + Mem!HeadOffset(o, a) + Mem!HeaderSize) % a = 0
<1> DEFINE h == Mem!HeadOffset(o, a)
<1>1. o \in Nat /\ o % 2 = 0 BY StorageAssumption
<1>2. Mem!DefaultAlign = 2 /\ Mem!HeaderSize = 2 BY DEF Mem!DefaultAlign, Mem!HeaderSize
<1>3. CASE a <= 2
  <2>1. a = 2 BY <1>2, <1>3
  <2>2. h = 0 BY <1>2, <2>1 DEF Mem!HeadOffset
  <2>3. \A size : Mem!Room(size, a) = size + 2 BY <1>2, <2>1 DEF Mem!Room
  <2>4. (o + 0 + 2) % 2 = 0 BY <1>1
  <2> HIDE DEF h
  <2>5. h \in Nat /\ (o + h + 2) % a = 0 BY <2>1, <2>2, <2>4
  <2>6. \A size \in Nat : h + 2 + size <= Mem!Room(size, a) BY <2>2, <2>3
  <2>7. QED BY <1>2, <2>5, <2>6 DEF h
<1>4. CASE a > 2
  <2> DEFINE end == o + a + 2  r == end % a
  <2>1. end \in Nat /\ (end - r) % a = 0 /\ r \in 0..(a - 1)
    <3>1. end \in Nat BY <1>1
    <3> HIDE DEF end
    <3>2. QED BY <3>1, RoundedDown
  <2>2. h = (end - r) - 2 - o
    BY <1>2, <1>4 DEF Mem!HeadOffset, Mem!UserAddress
  <2>3. \A size : Mem!Room(size, a) = size + a + 2 BY <1>2, <1>4 DEF Mem!Room
  <2>4. end = o + a + 2 OBVIOUS
  <2> HIDE DEF h, end, r
  <2>5. h = a - r /\ h \in Nat /\ h <= a BY <1>1, <2>1, <2>2, <2>4
  <2>6. o + h + 2 = end - r BY <1>1, <2>1, <2>2
  <2>7. (o + h + 2) % a = 0 BY <2>1, <2>6
  <2>8. \A size \in Nat : h + 2 + size <= Mem!Room(size, a) BY <2>3, <2>5
  <2>9. QED BY <1>2, <2>5, <2>7, <2>8 DEF h
<1>5. QED BY <1>3, <1>4

\* The room of a block is a number.
LEMMA RoomTypes ==
  ASSUME NEW size \in Nat, NEW a \in Nat
  PROVE  Mem!Room(size, a) \in Nat
  BY DEF Mem!Room, Mem!HeaderSize, Mem!DefaultAlign

\* The fields of a block that keeps n cells, and what they make of it.
LEMMA BlockFromFields ==
  ASSUME NEW b, NEW n,
         b \in [origin : Origins, room : Nat, mem : [0..(b.room - 1) -> Int], length : Nat,
                headOffset : Int, alignment : Nat \ {0}],
         b.room = Mem!Room(b.length, b.alignment),
         b.headOffset = Mem!HeadOffset(b.origin, b.alignment),
         b.alignment >= Mem!DefaultAlign, n \in 0..b.length,
         \A i \in 1..n : b.mem[b.headOffset + Mem!HeaderSize + i - 1] = i
  PROVE  Mem!BlockInv(b, n)
  BY DEF Mem!BlockInv, Mem!UserCell

\* What the invariant says of the fields of a block.
LEMMA FieldsOfBlock ==
  ASSUME NEW b, NEW n, Mem!BlockInv(b, n)
  PROVE  /\ b.origin \in Origins /\ b.length \in Nat /\ b.alignment \in Nat \ {0}
         /\ b.alignment >= Mem!DefaultAlign
         /\ b.room = Mem!Room(b.length, b.alignment) /\ b.room \in Nat
         /\ b.headOffset = Mem!HeadOffset(b.origin, b.alignment) /\ b.headOffset \in Nat
         /\ b.headOffset + Mem!HeaderSize + b.length <= b.room
         /\ b.mem \in [0..(b.room - 1) -> Int]
         /\ n \in 0..b.length
         /\ \A i \in 1..n : b.mem[b.headOffset + Mem!HeaderSize + i - 1] = i
<1>1. b \in [origin : Origins, room : Nat, mem : [0..(b.room - 1) -> Int], length : Nat,
             headOffset : Int, alignment : Nat \ {0}]
  BY DEF Mem!BlockInv
<1>2. /\ b.room = Mem!Room(b.length, b.alignment)
      /\ b.headOffset = Mem!HeadOffset(b.origin, b.alignment)
      /\ b.alignment >= Mem!DefaultAlign /\ n \in 0..b.length
  BY DEF Mem!BlockInv
<1>3. \A i \in 1..n : b.mem[b.headOffset + Mem!HeaderSize + i - 1] = i
  BY DEF Mem!BlockInv, Mem!UserCell
<1> DEFINE o == b.origin  r == b.room  m == b.mem  l == b.length  h == b.headOffset  a == b.alignment
<1>4. /\ o \in Origins /\ r \in Nat /\ m \in [0..(r - 1) -> Int] /\ l \in Nat /\ h \in Int
      /\ a \in Nat \ {0}
  BY <1>1
<1>5. h \in Nat /\ h + Mem!HeaderSize + l <= r BY <1>2, <1>4, HeaderPlaced
<1>6. QED BY <1>2, <1>3, <1>4, <1>5
\* A block as it is allocated, before the caller writes to it: a is the alignment kept.
LEMMA FreshBlock ==
  ASSUME NEW size \in Nat, NEW align \in Nat \ {0}, NEW o \in Origins
  PROVE  LET b == Mem!MemAllocAligned(size, align, o)
             a == IF align <= Mem!DefaultAlign THEN Mem!DefaultAlign ELSE align
         IN  /\ b \in [origin : Origins, room : Nat, mem : [0..(Mem!Room(size, a) - 1) -> Int],
                       length : Nat, headOffset : Int, alignment : Nat \ {0}]
             /\ b.origin = o /\ b.length = size /\ b.alignment = a
             /\ a \in Nat \ {0} /\ a >= Mem!DefaultAlign
             /\ b.room = Mem!Room(size, a) /\ b.headOffset = Mem!HeadOffset(o, a)
<1> DEFINE b == Mem!MemAllocAligned(size, align, o)
           a == IF align <= Mem!DefaultAlign THEN Mem!DefaultAlign ELSE align
           room == Mem!Room(size, align)
           h == Mem!HeadOffset(o, align)
           cells == Mem!Image(room)
<1>1. a \in Nat \ {0} /\ a >= Mem!DefaultAlign BY DEF Mem!DefaultAlign
<1>2. room = Mem!Room(size, a) /\ h = Mem!HeadOffset(o, a)
  <2>1. CASE align <= Mem!DefaultAlign
    <3>1. Mem!DefaultAlign <= Mem!DefaultAlign BY DEF Mem!DefaultAlign
    <3>2. QED BY <2>1, <3>1 DEF Mem!Room, Mem!HeadOffset
  <2>2. CASE ~(align <= Mem!DefaultAlign) BY <2>2
  <2>3. QED BY <2>1, <2>2
<1> HIDE DEF room, h
<1>3. room \in Nat /\ h \in Nat BY <1>1, <1>2, RoomTypes, HeaderPlaced
<1>4. cells \in [0..(room - 1) -> Int] BY DEF Mem!Image, Mem!Junk
<1> HIDE DEF a, cells
<1>5. b = [origin |-> o, room |-> room, mem |-> cells, length |-> size, headOffset |-> h,
           alignment |-> a]
  BY DEF Mem!MemAllocAligned, room, h, cells, a
<1> HIDE DEF b
<1>6. b \in [origin : Origins, room : Nat, mem : [0..(room - 1) -> Int],
             length : Nat, headOffset : Int, alignment : Nat \ {0}]
  BY <1>1, <1>3, <1>4, <1>5
<1>7. /\ b.origin = o /\ b.length = size /\ b.alignment = a /\ b.room = room
      /\ b.headOffset = h
  BY <1>5
<1>8. QED BY <1>1, <1>2, <1>6, <1>7 DEF a, b

\* A new block with the caller's cells written.
LEMMA AllocKeeps ==
  ASSUME NEW size \in Nat, NEW align \in Nat \ {0}, NEW o \in Origins
  PROVE  Mem!BlockInv(Mem!Fill(Mem!MemAllocAligned(size, align, o)), size)
<1> DEFINE b == Mem!MemAllocAligned(size, align, o)
           a == IF align <= Mem!DefaultAlign THEN Mem!DefaultAlign ELSE align
           u == b.headOffset + Mem!HeaderSize
           cells == [x \in DOMAIN b.mem |-> IF x \in u..(u + b.length - 1)
                                            THEN x - b.headOffset - Mem!HeaderSize + 1
                                            ELSE b.mem[x]]
           f == [b EXCEPT !.mem = cells]
<1>1. /\ b \in [origin : Origins, room : Nat, mem : [0..(Mem!Room(size, a) - 1) -> Int],
                length : Nat, headOffset : Int, alignment : Nat \ {0}]
      /\ b.origin = o /\ b.length = size /\ b.alignment = a
      /\ a \in Nat \ {0} /\ a >= Mem!DefaultAlign
      /\ b.room = Mem!Room(size, a) /\ b.headOffset = Mem!HeadOffset(o, a)
  BY FreshBlock
<1>2. Mem!Fill(b) = f BY DEF Mem!Fill
<1>3. /\ b.headOffset \in Nat /\ Mem!HeaderSize = 2
      /\ b.headOffset + Mem!HeaderSize + size <= b.room /\ b.room \in Nat
  BY <1>1, HeaderPlaced DEF Mem!HeaderSize
<1> HIDE DEF b, a
<1>4. b.mem \in [0..(b.room - 1) -> Int] BY <1>1
<1>5. cells \in [0..(b.room - 1) -> Int] BY <1>3, <1>4
<1>6. \A i \in 1..size : cells[u + i - 1] = i
  <2> TAKE i \in 1..size
  <2>1. u + i - 1 \in 0..(b.room - 1) /\ u + i - 1 \in u..(u + b.length - 1)
    BY <1>1, <1>3
  <2>2. cells[u + i - 1] = (u + i - 1) - b.headOffset - Mem!HeaderSize + 1 BY <1>4, <2>1
  <2> HIDE DEF cells
  <2>3. QED BY <1>3, <2>2
<1> HIDE DEF cells
<1>7. /\ f \in [origin : Origins, room : Nat, mem : [0..(b.room - 1) -> Int], length : Nat,
                headOffset : Int, alignment : Nat \ {0}]
      /\ f.room = b.room /\ f.mem = cells /\ f.length = size /\ f.alignment = a
      /\ f.origin = o /\ f.headOffset = b.headOffset
  BY <1>1, <1>5
<1> HIDE DEF f
<1>8. \A i \in 1..size : f.mem[f.headOffset + Mem!HeaderSize + i - 1] = i BY <1>6, <1>7
<1>9. Mem!BlockInv(f, size)
  <2>1. f \in [origin : Origins, room : Nat, mem : [0..(f.room - 1) -> Int], length : Nat,
               headOffset : Int, alignment : Nat \ {0}]
    BY <1>7
  <2>2. f.room = Mem!Room(f.length, f.alignment) /\ f.headOffset = Mem!HeadOffset(f.origin, f.alignment)
    BY <1>1, <1>7
  <2>3. f.alignment >= Mem!DefaultAlign /\ size \in 0..f.length BY <1>1, <1>7
  <2>4. QED BY <1>8, <2>1, <2>2, <2>3, BlockFromFields
<1>10. QED BY <1>2, <1>9 DEF b
\* The i-th of l cells behind a header is inside the allocation.
LEMMA CellInside ==
  ASSUME NEW h \in Nat, NEW l \in Nat, NEW room \in Nat, h + 2 + l <= room,
         NEW i \in Int, 1 <= i, i <= l
  PROVE  h + 2 + i - 1 \in 0..(room - 1) /\ h + 2 + i - 1 \in (h + 2)..(h + 2 + l - 1)
  OBVIOUS

\* Wherever realloc puts the block, the cells that still fit are moved along with the
\* header.
LEMMA ReallocKeeps ==
  ASSUME NEW b, NEW n, Mem!BlockInv(b, n), NEW size \in Nat, NEW o \in Origins
  PROVE  Mem!BlockInv(Mem!MemRealloc(b, size, o), Mem!Smaller(n, size))
<1> DEFINE a == b.alignment
           room == Mem!Room(size, a)
           mem == Mem!Moved(b.mem, room)
           to == Mem!HeadOffset(o, a)
           len == Mem!HeaderSize + Mem!Smaller(b.length, size)
           shifted == [x \in DOMAIN mem |->
                         IF x \in to..(to + len - 1) THEN mem[x - to + b.headOffset] ELSE mem[x]]
           cells == IF to = b.headOffset THEN mem ELSE shifted
           f == [b EXCEPT !.origin = o, !.room = room, !.length = size, !.headOffset = to,
                          !.mem = cells]
           k == Mem!Smaller(n, size)
<1>1. /\ b.origin \in Origins /\ b.length \in Nat /\ a \in Nat \ {0}
      /\ a >= Mem!DefaultAlign
      /\ b.room = Mem!Room(b.length, a) /\ b.room \in Nat
      /\ b.headOffset = Mem!HeadOffset(b.origin, a) /\ b.headOffset \in Nat
      /\ b.headOffset + Mem!HeaderSize + b.length <= b.room
      /\ b.mem \in [0..(b.room - 1) -> Int]
      /\ n \in 0..b.length
      /\ \A i \in 1..n : b.mem[b.headOffset + Mem!HeaderSize + i - 1] = i
  BY FieldsOfBlock
<1>2. Mem!MemRealloc(b, size, o) = f BY DEF Mem!MemRealloc
<1>3. /\ to \in Nat /\ to + Mem!HeaderSize + size <= room /\ room \in Nat
      /\ b.headOffset + Mem!HeaderSize + size <= room
  BY <1>1, HeaderPlaced, RoomTypes
<1>4. Mem!HeaderSize = 2 BY DEF Mem!HeaderSize
<1>5. /\ k \in 0..n /\ k <= size /\ k <= Mem!Smaller(b.length, size)
      /\ Mem!Smaller(b.length, size) \in Nat /\ Mem!Smaller(b.length, size) <= size
  BY <1>1 DEF Mem!Smaller
<1>6. /\ mem \in [0..(room - 1) -> Int]
      /\ \A x \in 0..(room - 1) : x \in DOMAIN b.mem => mem[x] = b.mem[x]
  BY <1>1, <1>3 DEF Mem!Moved, Mem!Junk
<1> HIDE DEF room, mem, to, k
<1>7. \A i \in 1..k : mem[b.headOffset + 2 + i - 1] = i
  <2> TAKE i \in 1..k
  <2>1. i \in 1..n /\ b.headOffset + 2 + i - 1 \in 0..(b.room - 1)
        /\ b.headOffset + 2 + i - 1 \in 0..(room - 1)
    <3>1. n \in Nat /\ n <= b.length BY <1>1
    <3>2. k \in Nat /\ k <= n /\ k <= size BY <1>5, <3>1
    <3>3. i \in Int /\ 1 <= i /\ i <= k BY <3>2
    <3>4. i <= n /\ i <= b.length /\ i <= size BY <1>1, <3>1, <3>2, <3>3
    <3>5. b.headOffset + 2 + b.length <= b.room /\ b.headOffset + 2 + size <= room
      BY <1>1, <1>3, <1>4
    <3>6. b.headOffset + 2 + i - 1 \in 0..(b.room - 1) BY <1>1, <3>3, <3>4, <3>5, CellInside
    <3>7. b.headOffset + 2 + i - 1 \in 0..(room - 1) BY <1>1, <1>3, <3>3, <3>4, <3>5, CellInside
    <3>8. i \in 1..n BY <3>1, <3>3, <3>4
    <3>9. QED BY <3>6, <3>7, <3>8
  <2>2. b.mem[b.headOffset + 2 + i - 1] = i BY <1>1, <1>4, <2>1
  <2>3. QED BY <1>1, <1>6, <2>1, <2>2
<1>8. shifted \in [0..(room - 1) -> Int] /\ \A i \in 1..k : shifted[to + 2 + i - 1] = i
  <2>1. \A x \in to..(to + len - 1) : x - to + b.headOffset \in 0..(room - 1)
    <3> TAKE x \in to..(to + len - 1)
    <3>1. x \in Int /\ to <= x /\ x <= to + (2 + Mem!Smaller(b.length, size)) - 1
      BY <1>3, <1>4, <1>5
    <3>2. b.headOffset + 2 + size <= room /\ Mem!Smaller(b.length, size) <= size
          /\ Mem!Smaller(b.length, size) \in Nat
      BY <1>3, <1>4, <1>5
    <3>3. \A h, t, l, rm \in Nat, y \in Int :
            h + 2 + l <= rm /\ t <= y /\ y <= t + (2 + l) - 1 => y - t + h \in 0..(rm - 1)
      OBVIOUS
    <3>4. b.headOffset + 2 + Mem!Smaller(b.length, size) <= room BY <1>1, <1>3, <3>2
    <3>5. QED BY <1>1, <1>3, <3>1, <3>2, <3>3, <3>4
  <2>2. shifted \in [0..(room - 1) -> Int] BY <1>6, <2>1
  <2>3. ASSUME NEW i \in 1..k PROVE shifted[to + 2 + i - 1] = i
    <3> DEFINE x == to + 2 + i - 1
    <3>1. x \in 0..(room - 1) /\ x \in to..(to + len - 1) BY <1>3, <1>4, <1>5
    <3>2. shifted[x] = mem[x - to + b.headOffset] BY <1>6, <3>1
    <3>3. x - to + b.headOffset = b.headOffset + 2 + i - 1 BY <1>1, <1>3
    <3>4. mem[b.headOffset + 2 + i - 1] = i BY <1>7
    <3> HIDE DEF shifted
    <3>5. QED BY <3>2, <3>3, <3>4
  <2>4. QED BY <2>2, <2>3
<1> HIDE DEF shifted
<1>9. cells \in [0..(room - 1) -> Int] /\ \A i \in 1..k : cells[to + 2 + i - 1] = i
  <2>1. CASE to = b.headOffset
    <3>1. cells = mem BY <2>1
    <3> HIDE DEF cells
    <3>2. QED BY <1>6, <1>7, <2>1, <3>1
  <2>2. CASE to # b.headOffset
    <3>1. cells = shifted BY <2>2
    <3> HIDE DEF cells
    <3>2. QED BY <1>8, <3>1
  <2>3. QED BY <2>1, <2>2
<1> HIDE DEF cells
<1>10. /\ f \in [origin : Origins, room : Nat, mem : [0..(room - 1) -> Int], length : Nat,
                 headOffset : Int, alignment : Nat \ {0}]
       /\ f.room = room /\ f.mem = cells /\ f.length = size /\ f.alignment = a
       /\ f.origin = o /\ f.headOffset = to
  <2>1. b \in [origin : Origins, room : Nat, mem : [0..(b.room - 1) -> Int], length : Nat,
               headOffset : Int, alignment : Nat \ {0}]
    BY DEF Mem!BlockInv
  <2>2. f \in [origin : Origins, room : Nat, mem : [0..(room - 1) -> Int], length : Nat,
               headOffset : Int, alignment : Nat \ {0}]
    <3> DEFINE S == [0..(room - 1) -> Int]  T == [0..(b.room - 1) -> Int]
    <3>1. cells \in S BY <1>9
    <3>2. b \in [origin : Origins, room : Nat, mem : T, length : Nat, headOffset : Int,
                 alignment : Nat \ {0}]
      BY <2>1
    <3>3. to \in Int BY <1>3
    <3> HIDE DEF S, T
    <3>4. f \in [origin : Origins, room : Nat, mem : S, length : Nat, headOffset : Int,
                 alignment : Nat \ {0}]
      BY <1>3, <3>1, <3>2, <3>3
    <3>5. QED BY <3>4 DEF S
  <2>3. f.room = room /\ f.mem = cells /\ f.length = size BY <2>1
  <2>4. f.origin = o /\ f.headOffset = to /\ f.alignment = a BY <2>1
  <2>5. QED BY <2>2, <2>3, <2>4
<1> HIDE DEF f
<1>11. Mem!BlockInv(f, k)
  <2>1. f \in [origin : Origins, room : Nat, mem : [0..(f.room - 1) -> Int], length : Nat,
               headOffset : Int, alignment : Nat \ {0}]
    BY <1>10
  <2>2. f.room = Mem!Room(f.length, f.alignment) BY <1>10 DEF room
  <2>3. f.headOffset = Mem!HeadOffset(f.origin, f.alignment) BY <1>10 DEF to
  <2>4. f.alignment >= Mem!DefaultAlign BY <1>1, <1>10
  <2>5. k \in 0..f.length BY <1>5, <1>10
  <2>6. \A i \in 1..k : f.mem[f.headOffset + Mem!HeaderSize + i - 1] = i
    BY <1>4, <1>9, <1>10
  <2>7. QED BY <2>1, <2>2, <2>3, <2>4, <2>5, <2>6, BlockFromFields
<1>12. QED BY <1>2, <1>11 DEF k

\* The copy vlMemClone makes of a block.
LEMMA CloneCopies ==
  ASSUME Mem!MemInv, NEW o \in Origins, Mem!Clone(o)
  PROVE  Mem!Held /\ Mem!BlockInv(s1', s2')
<1> DEFINE b == s1
           new == Mem!MemAllocAligned(b.length, b.alignment, o)
           at == new.headOffset + Mem!HeaderSize
           cells == [x \in DOMAIN new.mem |-> IF x \in at..(at + b.length - 1)
                                              THEN Mem!UserCell(b, x - at + 1) ELSE new.mem[x]]
           f == [new EXCEPT !.mem = cells]
<1>1. Mem!Held /\ Mem!BlockInv(b, s2) BY DEF Mem!Clone, Mem!MemInv
<1>2. s1' = f /\ s2' = s2 BY DEF Mem!Clone
<1>3. /\ b.length \in Nat /\ b.alignment \in Nat \ {0} /\ b.alignment >= Mem!DefaultAlign
      /\ b.headOffset \in Nat /\ b.room \in Nat
      /\ b.headOffset + Mem!HeaderSize + b.length <= b.room
      /\ b.mem \in [0..(b.room - 1) -> Int]
      /\ s2 \in 0..b.length
      /\ \A i \in 1..s2 : b.mem[b.headOffset + Mem!HeaderSize + i - 1] = i
  BY <1>1, FieldsOfBlock
<1>4. Mem!HeaderSize = 2 /\ Mem!DefaultAlign = 2 BY DEF Mem!HeaderSize, Mem!DefaultAlign
<1>5. (IF b.alignment <= Mem!DefaultAlign THEN Mem!DefaultAlign ELSE b.alignment) = b.alignment
  BY <1>3, <1>4
<1>6. /\ new \in [origin : Origins, room : Nat,
                  mem : [0..(Mem!Room(b.length, b.alignment) - 1) -> Int],
                  length : Nat, headOffset : Int, alignment : Nat \ {0}]
      /\ new.origin = o /\ new.length = b.length /\ new.alignment = b.alignment
      /\ new.room = Mem!Room(b.length, b.alignment)
      /\ new.headOffset = Mem!HeadOffset(o, b.alignment)
  BY <1>3, <1>5, FreshBlock
<1> HIDE DEF new, b
<1>7. /\ new.headOffset \in Nat /\ new.headOffset + 2 + b.length <= new.room
      /\ new.room \in Nat
  BY <1>3, <1>4, <1>6, HeaderPlaced
<1>8. new.mem \in [0..(new.room - 1) -> Int] BY <1>6
<1>9. \A x \in at..(at + b.length - 1) :
        /\ Mem!UserCell(b, x - at + 1) = b.mem[b.headOffset + 2 + (x - at)]
        /\ Mem!UserCell(b, x - at + 1) \in Int
  <2> TAKE x \in at..(at + b.length - 1)
  <2> HIDE DEF at
  <2>0. at \in Nat BY <1>4, <1>7 DEF at
  <2>1. x - at \in 0..(b.length - 1) BY <1>3, <2>0
  <2>2. b.headOffset + 2 + (x - at + 1) - 1 = b.headOffset + 2 + (x - at) BY <1>3, <2>1
  <2>3. b.headOffset + 2 + (x - at) \in 0..(b.room - 1)
    <3>1. \A h, l, rm \in Nat : h + 2 + l <= rm => \A y \in 0..(l - 1) : h + 2 + y \in 0..(rm - 1)
      OBVIOUS
    <3>2. b.headOffset + 2 + b.length <= b.room BY <1>3, <1>4
    <3>3. QED BY <1>3, <2>1, <3>1, <3>2
  <2>4. QED BY <1>3, <1>4, <2>2, <2>3 DEF Mem!UserCell
<1>10. cells \in [0..(new.room - 1) -> Int] BY <1>8, <1>9
<1>11. \A i \in 1..s2 : cells[at + i - 1] = i
  <2> TAKE i \in 1..s2
  <2>1. at + i - 1 \in at..(at + b.length - 1) /\ at + i - 1 \in 0..(new.room - 1)
    <3>1. s2 \in Nat /\ s2 <= b.length BY <1>3
    <3>2. i \in Int /\ 1 <= i /\ i <= s2 BY <3>1
    <3>3. i <= b.length BY <1>3, <3>1, <3>2
    <3>4. QED BY <1>3, <1>4, <1>7, <3>2, <3>3, CellInside
  <2>2. cells[at + i - 1] = b.mem[b.headOffset + 2 + ((at + i - 1) - at)]
    BY <1>8, <1>9, <2>1
  <2>3. b.headOffset + 2 + ((at + i - 1) - at) = b.headOffset + Mem!HeaderSize + i - 1
    BY <1>3, <1>4, <1>7
  <2> HIDE DEF cells
  <2>4. QED BY <1>3, <2>2, <2>3
<1> HIDE DEF cells
<1>12. /\ f \in [origin : Origins, room : Nat, mem : [0..(new.room - 1) -> Int], length : Nat,
                 headOffset : Int, alignment : Nat \ {0}]
       /\ f.room = new.room /\ f.mem = cells /\ f.length = b.length /\ f.alignment = b.alignment
       /\ f.origin = o /\ f.headOffset = new.headOffset
  BY <1>6, <1>10
<1> HIDE DEF f
<1>13. Mem!BlockInv(f, s2)
  <2>1. f \in [origin : Origins, room : Nat, mem : [0..(f.room - 1) -> Int], length : Nat,
               headOffset : Int, alignment : Nat \ {0}]
    BY <1>12
  <2>2. f.room = Mem!Room(f.length, f.alignment) /\ f.headOffset = Mem!HeadOffset(f.origin, f.alignment)
    BY <1>6, <1>12
  <2>3. f.alignment >= Mem!DefaultAlign /\ s2 \in 0..f.length BY <1>3, <1>12
  <2>4. \A i \in 1..s2 : f.mem[f.headOffset + Mem!HeaderSize + i - 1] = i BY <1>11, <1>12
  <2>5. QED BY <2>1, <2>2, <2>3, <2>4, BlockFromFields
<1>14. QED BY <1>1, <1>2, <1>13

\* Nothing is allocated at first.
LEMMA MemStart == Mem!MemInit => Mem!MemInv
  BY DEF Mem!MemInit, Mem!MemInv, Mem!Held

\* Every operation keeps the invariant.
LEMMA MemStep ==
  ASSUME Mem!MemInv, Mem!MemNext \/ UNCHANGED Mem!memVars
  PROVE  Mem!MemInv'
<1> SUFFICES ASSUME s1' \notin {Mem!NoBlock, Mem!Crashed} PROVE Mem!BlockInv(s1', s2')
  BY DEF Mem!MemInv, Mem!Held
<1>1. 1..MaxLength \subseteq Nat /\ Aligns \subseteq Nat \ {0} BY StorageAssumption
<1>2. ASSUME NEW size \in 1..MaxLength, NEW align \in Aligns, NEW o \in Origins,
             Mem!Alloc(size, align, o)
      PROVE  Mem!BlockInv(s1', s2')
  <2>1. s1' = Mem!Fill(Mem!MemAllocAligned(size, align, o)) /\ s2' = size
    BY <1>2 DEF Mem!Alloc
  <2>2. size \in Nat /\ align \in Nat \ {0} BY <1>1
  <2>3. QED BY <2>1, <2>2, AllocKeeps
<1>3. ASSUME NEW size \in 1..MaxLength, NEW o \in Origins, Mem!Realloc(size, o)
      PROVE  Mem!BlockInv(s1', s2')
  <2>1. /\ Mem!Held /\ s1' = Mem!MemRealloc(s1, size, o) /\ s2' = Mem!Smaller(s2, size)
    BY <1>3 DEF Mem!Realloc
  <2>2. size \in Nat /\ Mem!BlockInv(s1, s2) BY <1>1, <2>1 DEF Mem!MemInv
  <2>3. QED BY <2>1, <2>2, ReallocKeeps
<1>4. CASE Mem!ReallocFails \/ UNCHANGED Mem!memVars
  <2>1. s1' = s1 /\ s2' = s2 BY <1>4 DEF Mem!ReallocFails, Mem!memVars
  <2>2. Mem!BlockInv(s1, s2) BY <2>1 DEF Mem!MemInv, Mem!Held
  <2>3. QED BY <2>1, <2>2
<1>5. ASSUME NEW o \in Origins, Mem!Clone(o) PROVE Mem!BlockInv(s1', s2')
  BY <1>5, CloneCopies
<1>6. CASE Mem!Free BY <1>6 DEF Mem!Free
<1>7. QED BY <1>2, <1>3, <1>4, <1>5, <1>6 DEF Mem!MemNext

\* The invariant makes a block sound.
LEMMA MemorySoundFromInv == Mem!MemInv => Mem!MemorySound
<1> SUFFICES ASSUME Mem!MemInv, Mem!Held
             PROVE  /\ Mem!User(s1) % s1.alignment = 0
                    /\ s1.headOffset >= 0
                    /\ s1.headOffset + Mem!HeaderSize + s1.length <= s1.room
                    /\ \A i \in 1..s2 : Mem!UserCell(s1, i) = i
  BY DEF Mem!MemorySound
<1>1. Mem!BlockInv(s1, s2) BY DEF Mem!MemInv
<1>2. /\ s1.origin \in Origins /\ s1.alignment \in Nat \ {0} /\ s1.alignment >= Mem!DefaultAlign
      /\ s1.headOffset = Mem!HeadOffset(s1.origin, s1.alignment) /\ s1.headOffset \in Nat
      /\ s1.headOffset + Mem!HeaderSize + s1.length <= s1.room
  BY <1>1, FieldsOfBlock
<1>3. (s1.origin + s1.headOffset + Mem!HeaderSize) % s1.alignment = 0 BY <1>2, HeaderPlaced
<1>4. \A i \in 1..s2 : Mem!UserCell(s1, i) = i BY <1>1 DEF Mem!BlockInv
<1>5. QED BY <1>2, <1>3, <1>4 DEF Mem!User

----------------------------------------------------------------------------
(* Deque and queue: s1 is the sequence, s2 the elements it should hold. *)

\* The pool of the nodes is a pool like the one of the pool's own runs.
LEMMA SamePool ==
  /\ \A p : Deq!Pool!Take(p) = Pool!Take(p)
  /\ \A p, x : Deq!Pool!Return(p, x) = Pool!Return(p, x)
  /\ \A p : Deq!Pool!Clear(p) = Pool!Clear(p)
  /\ \A p, r : Deq!Pool!Clone(p, r) = Pool!Clone(p, r)
  /\ Deq!Pool!FreshPool = Pool!FreshPool
  /\ \A p, n : Deq!Pool!Reserve(p, n) \in {p, Pool!NodeNew(p)}
  /\ \A p : Deq!Pool!Shape(p) = Pool!Shape(p)
  /\ \A p, L : Deq!Pool!Cut(p, L) = Pool!Cut(p, L)
<1>1. \A p : Deq!Pool!NodeNew(p) = Pool!NodeNew(p) BY DEF Deq!Pool!NodeNew, Pool!NodeNew
<1>2. \A p, b, n : Deq!Pool!Bump(p, b, n) = Pool!Bump(p, b, n) BY DEF Deq!Pool!Bump, Pool!Bump
<1>3. \A p : Deq!Pool!Take(p) = Pool!Take(p)
  <2>1. \A p : /\ Deq!Pool!Unspent(p) = Pool!Unspent(p)
               /\ Deq!Pool!FirstUnspent(p) = Pool!FirstUnspent(p)
    BY DEF Deq!Pool!Unspent, Pool!Unspent, Deq!Pool!FirstUnspent, Pool!FirstUnspent
  <2>2. QED BY <1>1, <1>2, <2>1 DEF Deq!Pool!Take, Pool!Take
<1>4. \A p, x : Deq!Pool!Return(p, x) = Pool!Return(p, x)
  BY <1>2 DEF Deq!Pool!Return, Pool!Return
<1>5. \A p : Deq!Pool!Clear(p) = Pool!Clear(p) BY DEF Deq!Pool!Clear, Pool!Clear
<1>6. \A p, r : Deq!Pool!Clone(p, r) = Pool!Clone(p, r)
  BY DEF Deq!Pool!Clone, Pool!Clone, Deq!Pool!Reset, Pool!Reset
<1>7. Deq!Pool!FreshPool = Pool!FreshPool BY <1>1 DEF Deq!Pool!FreshPool, Pool!FreshPool
<1>8. \A p, n : Deq!Pool!Reserve(p, n) \in {p, Pool!NodeNew(p)}
  BY <1>1 DEF Deq!Pool!Reserve
<1>9. \A p : Deq!Pool!Shape(p) = Pool!Shape(p) BY DEF Deq!Pool!Shape, Pool!Shape
<1>10. \A p, L : Deq!Pool!Cut(p, L) = Pool!Cut(p, L)
  <2>1. /\ \A p, b : Deq!Pool!RecycledIn(p, b) = Pool!RecycledIn(p, b)
        /\ \A b, n : Deq!Pool!FirstOf(b, n) = Pool!FirstOf(b, n)
    BY DEF Deq!Pool!RecycledIn, Pool!RecycledIn, Deq!Pool!Recycled, Pool!Recycled,
           Deq!Pool!FirstOf, Pool!FirstOf
  <2>2. \A S : Deq!Pool!Cardinality(S) = Pool!Cardinality(S)
    BY DEF Deq!Pool!Cardinality, Pool!Cardinality
  <2> SUFFICES ASSUME NEW p, NEW L PROVE Deq!Pool!Cut(p, L) = Pool!Cut(p, L)
    OBVIOUS
  <2>3. \A b \in DOMAIN p.blocks : \A n :
          (/\ {idx \in L : idx[1] = b} \cup Deq!Pool!RecycledIn(p, b) = Deq!Pool!FirstOf(b, n)
           /\ p.blocks[b].taken = Deq!Pool!Cardinality({idx \in L : idx[1] = b}))
            = (/\ {idx \in L : idx[1] = b} \cup Pool!RecycledIn(p, b) = Pool!FirstOf(b, n)
               /\ p.blocks[b].taken = Pool!Cardinality({idx \in L : idx[1] = b}))
    BY <2>1, <2>2
  <2>4. Deq!Pool!Cut(p, L) => Pool!Cut(p, L) BY <2>3 DEF Deq!Pool!Cut, Pool!Cut
  <2>5. Pool!Cut(p, L) => Deq!Pool!Cut(p, L) BY <2>3 DEF Deq!Pool!Cut, Pool!Cut
  <2>6. QED BY <2>4, <2>5 DEF Deq!Pool!Cut, Pool!Cut
<1>11. QED BY <1>3, <1>4, <1>5, <1>6, <1>7, <1>8, <1>9, <1>10

\* The element with the node it is in.
Placed == [node : Nat \X Nat, elem : Items]

\* The invariant of a sequence q that should hold c.
Holds(q, c) ==
  /\ Deq!SeqTypes(q) /\ Deq!Linked(q, c) /\ c \in Seq(Placed)
  /\ Pool!Shape(q.pool) /\ Pool!Cut(q.pool, DOMAIN q.node)

\* It is the invariant of the machine.
LEMMA SeqInvHolds == (Deq!SeqInv <=> Holds(s1, s2)) /\ (Deq!SeqInv' <=> Holds(s1', s2'))
  BY SamePool DEF Deq!SeqInv, Holds, Placed

\* The links of the i-th element.
LinkedAt(q, c, i) ==
  LET n == q.node[c[i].node]
  IN  /\ n.elem = c[i].elem /\ n.next = Deq!After(q.kind, c, i)
      /\ q.kind = "deque" => n.prev = Deq!NodeOf(c, i - 1)

\* What makes a sequence well linked, its elements numbered from 1.
LEMMA LinkedParts ==
  ASSUME NEW q, NEW c \in Seq(Placed)
  PROVE  Deq!Linked(q, c) <=>
           /\ DOMAIN q.node = {c[i].node : i \in 1..Len(c)}
           /\ \A i, j \in 1..Len(c) : c[i].node = c[j].node => i = j
           /\ q.head = Deq!NodeOf(c, 1) /\ q.tail = Deq!NodeOf(c, Len(c))
           /\ \A i \in 1..Len(c) : LinkedAt(q, c, i)
           /\ q.kind = "deque" => q.total = Len(c)
<1>1. DOMAIN c = 1..Len(c) OBVIOUS
<1>2. QED BY <1>1, Zenon DEF Deq!Linked, LinkedAt

\* The nodes of a sequence: none is VL_POOL_INVALID_IDX, the ends are Nil only when it is
\* empty, and beyond the ends there is no node.
LEMMA NodesOf ==
  ASSUME NEW q, NEW c, Holds(q, c)
  PROVE  /\ Len(c) \in Nat /\ \A i \in 1..Len(c) : c[i] \in Placed
         /\ DOMAIN q.node = {c[i].node : i \in 1..Len(c)}
         /\ \A i \in 1..Len(c) : c[i].node \in DOMAIN q.node
         /\ Deq!Nil \notin DOMAIN q.node
         /\ \A i, j \in 1..Len(c) : c[i].node = c[j].node => i = j
         /\ q.head = Deq!NodeOf(c, 1) /\ q.tail = Deq!NodeOf(c, Len(c))
         /\ \A i \in 1..Len(c) : Deq!NodeOf(c, i) = c[i].node
         /\ \A i : i \notin 1..Len(c) => Deq!NodeOf(c, i) = Deq!Nil
         /\ \A i \in 1..Len(c) : LinkedAt(q, c, i)
         /\ q.kind = "deque" => q.total = Len(c)
         /\ q.kind \in {"deque", "queue"}
<1>1. c \in Seq(Placed) /\ Deq!Linked(q, c) /\ q.kind \in {"deque", "queue"}
  BY DEF Holds, Deq!SeqTypes
<1>2. Len(c) \in Nat /\ DOMAIN c = 1..Len(c) /\ \A i \in 1..Len(c) : c[i] \in Placed BY <1>1
<1>3. /\ DOMAIN q.node = {c[i].node : i \in 1..Len(c)}
      /\ \A i, j \in 1..Len(c) : c[i].node = c[j].node => i = j
      /\ q.head = Deq!NodeOf(c, 1) /\ q.tail = Deq!NodeOf(c, Len(c))
      /\ \A i \in 1..Len(c) : LinkedAt(q, c, i)
      /\ q.kind = "deque" => q.total = Len(c)
  BY <1>1, LinkedParts
<1>4. Deq!Nil \notin DOMAIN q.node
  <2>1. DOMAIN q.node \subseteq (DOMAIN q.pool.blocks) \X Nat BY DEF Holds, Pool!Cut
  <2>2. DOMAIN q.pool.blocks = 1..Len(q.pool.blocks) /\ 0 \notin 1..Len(q.pool.blocks)
    BY DEF Holds, Pool!Shape
  <2>3. QED BY <2>1, <2>2 DEF Deq!Nil
<1>5. /\ \A i \in 1..Len(c) : Deq!NodeOf(c, i) = c[i].node
      /\ \A i : i \notin 1..Len(c) => Deq!NodeOf(c, i) = Deq!Nil
  BY <1>2 DEF Deq!NodeOf
<1>6. QED BY <1>1, <1>2, <1>3, <1>4, <1>5

\* What a write of one field of a node changes.
LEMMA SetFacts ==
  ASSUME NEW q, Deq!SeqTypes(q), NEW x \in DOMAIN q.node \cup {Deq!Nil},
         Deq!Nil \notin DOMAIN q.node,
         NEW field \in {"prev", "next"}, NEW v
  PROVE  LET r == Deq!Set(q, x, field, v)
         IN  /\ Deq!SeqTypes(r) /\ DOMAIN r.node = DOMAIN q.node
             /\ r.kind = q.kind /\ r.head = q.head /\ r.tail = q.tail
             /\ r.total = q.total /\ r.pool = q.pool
             /\ \A y \in DOMAIN q.node :
                  /\ r.node[y].elem = q.node[y].elem
                  /\ r.node[y].prev = IF y = x /\ field = "prev" THEN v ELSE q.node[y].prev
                  /\ r.node[y].next = IF y = x /\ field = "next" THEN v ELSE q.node[y].next
<1> DEFINE r == Deq!Set(q, x, field, v)
<1>1. CASE x = Deq!Nil
  <2>1. r = q BY <1>1 DEF Deq!Set
  <2>2. \A y \in DOMAIN q.node : y # x BY <1>1
  <2> HIDE DEF r
  <2>3. QED BY <2>1, <2>2 DEF r
<1>2. CASE x \in DOMAIN q.node
  <2> DEFINE w == [q.node[x] EXCEPT ![field] = v]
             N == [q.node EXCEPT ![x] = w]
  <2>1. r = [q EXCEPT !.node = N] BY <1>2 DEF Deq!Set
  <2>2. /\ DOMAIN q = {"kind", "head", "tail", "total", "pool", "node"}
        /\ \A y \in DOMAIN q.node : DOMAIN q.node[y] = {"prev", "next", "elem"}
        /\ q.kind \in {"deque", "queue"}
    BY DEF Deq!SeqTypes
  <2>3. /\ DOMAIN w = {"prev", "next", "elem"} /\ w.elem = q.node[x].elem
        /\ w.prev = IF field = "prev" THEN v ELSE q.node[x].prev
        /\ w.next = IF field = "next" THEN v ELSE q.node[x].next
    BY <1>2, <2>2
  <2> HIDE DEF w
  <2>4. /\ DOMAIN N = DOMAIN q.node
        /\ \A y \in DOMAIN q.node : N[y] = IF y = x THEN w ELSE q.node[y]
    OBVIOUS
  <2> HIDE DEF N, r
  <2>5. /\ DOMAIN r = DOMAIN q /\ r.node = N /\ r.kind = q.kind /\ r.head = q.head
        /\ r.tail = q.tail /\ r.total = q.total /\ r.pool = q.pool
    BY <2>1, <2>2
  <2>6. Deq!SeqTypes(r) BY <2>2, <2>3, <2>4, <2>5 DEF Deq!SeqTypes
  <2>7. \A y \in DOMAIN q.node :
          /\ r.node[y].elem = q.node[y].elem
          /\ r.node[y].prev = IF y = x /\ field = "prev" THEN v ELSE q.node[y].prev
          /\ r.node[y].next = IF y = x /\ field = "next" THEN v ELSE q.node[y].next
    BY <2>3, <2>4, <2>5
  <2>8. QED BY <2>4, <2>5, <2>6, <2>7 DEF r
<1>3. QED BY <1>1, <1>2

\* What a new node changes: the sequence, the pool, and nothing of the other nodes.
LEMMA NewNodeFacts ==
  ASSUME NEW q, NEW c, Holds(q, c), NEW prev, NEW next, NEW v
  PROVE  LET t == Pool!Take(q.pool).idx
             r == Deq!NewNode(q, prev, next, v).seq
         IN  /\ Deq!NewNode(q, prev, next, v).idx = t
             /\ t \notin DOMAIN q.node /\ t # Deq!Nil /\ t \in Nat \X Nat
             /\ Deq!SeqTypes(r) /\ DOMAIN r.node = DOMAIN q.node \cup {t}
             /\ Deq!Nil \notin DOMAIN r.node
             /\ r.kind = q.kind /\ r.head = q.head /\ r.tail = q.tail
             /\ q.kind = "deque" => r.total = Len(c) + 1
             /\ Pool!Shape(r.pool) /\ Pool!Cut(r.pool, DOMAIN r.node)
             /\ r.node[t].prev = prev /\ r.node[t].next = next /\ r.node[t].elem = v
             /\ \A y \in DOMAIN q.node : r.node[y] = q.node[y]
<1> DEFINE t == Pool!Take(q.pool).idx
           P == Pool!Take(q.pool).pool
           r == Deq!NewNode(q, prev, next, v).seq
           w == [prev |-> prev, next |-> next, elem |-> v]
           N == [x \in DOMAIN q.node \cup {t} |-> IF x = t THEN w ELSE q.node[x]]
<1>1. Deq!SeqTypes(q) /\ Pool!Shape(q.pool) /\ Pool!Cut(q.pool, DOMAIN q.node) BY DEF Holds
<1>2. t \notin DOMAIN q.node /\ Pool!Shape(P) /\ Pool!Cut(P, DOMAIN q.node \cup {t})
  BY <1>1, TakeKeeps
<1>3. t \in Nat \X Nat /\ t # Deq!Nil
  <2> HIDE DEF t, P
  <2>1. t \in (DOMAIN P.blocks) \X Nat BY <1>2 DEF Pool!Cut
  <2>2. DOMAIN P.blocks = 1..Len(P.blocks) /\ \A b \in 1..Len(P.blocks) : b \in Nat \ {0}
    BY <1>2 DEF Pool!Shape
  <2>3. QED BY <2>1, <2>2 DEF Deq!Nil
<1>4. /\ Deq!NewNode(q, prev, next, v).idx = t
      /\ r = [q EXCEPT !.pool = P, !.total = Deq!Counted(q, 1), !.node = N]
  BY SamePool DEF Deq!NewNode
<1>5. /\ DOMAIN q = {"kind", "head", "tail", "total", "pool", "node"}
      /\ \A y \in DOMAIN q.node : DOMAIN q.node[y] = {"prev", "next", "elem"}
      /\ q.kind \in {"deque", "queue"}
  BY <1>1 DEF Deq!SeqTypes
<1>6. /\ DOMAIN w = {"prev", "next", "elem"} /\ w.prev = prev /\ w.next = next /\ w.elem = v
  OBVIOUS
<1>7. q.kind = "deque" => Deq!Counted(q, 1) = Len(c) + 1 BY NodesOf DEF Deq!Counted
<1> HIDE DEF w, t, P, r
<1>8. /\ DOMAIN N = DOMAIN q.node \cup {t} /\ N[t] = w
      /\ \A y \in DOMAIN q.node : N[y] = q.node[y]
  BY <1>2
<1> HIDE DEF N
<1>9. /\ DOMAIN r = DOMAIN q /\ r.node = N /\ r.kind = q.kind /\ r.head = q.head
      /\ r.tail = q.tail /\ r.total = Deq!Counted(q, 1) /\ r.pool = P
  BY <1>4, <1>5
<1>10. Deq!SeqTypes(r) BY <1>5, <1>6, <1>8, <1>9 DEF Deq!SeqTypes
<1>11. Deq!Nil \notin DOMAIN q.node BY NodesOf
<1>12. QED BY <1>2, <1>3, <1>4, <1>6, <1>7, <1>8, <1>9, <1>10, <1>11 DEF t, r

\* What a node given back changes.
LEMMA DropNodeFacts ==
  ASSUME NEW q, Deq!SeqTypes(q), Pool!Shape(q.pool), Pool!Cut(q.pool, DOMAIN q.node),
         NEW x \in DOMAIN q.node, NEW n \in Nat, q.kind = "deque" => q.total = n
  PROVE  LET r == Deq!DropNode(q, x)
         IN  /\ Deq!SeqTypes(r) /\ DOMAIN r.node = DOMAIN q.node \ {x}
             /\ r.kind = q.kind /\ r.head = q.head /\ r.tail = q.tail
             /\ q.kind = "deque" => r.total = n - 1
             /\ Pool!Shape(r.pool) /\ Pool!Cut(r.pool, DOMAIN r.node)
             /\ \A y \in DOMAIN q.node \ {x} : r.node[y] = q.node[y]
<1> DEFINE P == Pool!Return(q.pool, x)
           r == Deq!DropNode(q, x)
           N == [y \in DOMAIN q.node \ {x} |-> q.node[y]]
<1>1. Pool!Shape(P) /\ Pool!Cut(P, DOMAIN q.node \ {x}) BY ReturnKeeps
<1>2. r = [q EXCEPT !.pool = P, !.total = Deq!Counted(q, -1), !.node = N]
  BY SamePool DEF Deq!DropNode
<1>3. /\ DOMAIN q = {"kind", "head", "tail", "total", "pool", "node"}
      /\ \A y \in DOMAIN q.node : DOMAIN q.node[y] = {"prev", "next", "elem"}
      /\ q.kind \in {"deque", "queue"}
  BY DEF Deq!SeqTypes
<1>4. q.kind = "deque" => Deq!Counted(q, -1) = n - 1 BY DEF Deq!Counted
<1> HIDE DEF P, r
<1>5. DOMAIN N = DOMAIN q.node \ {x} /\ \A y \in DOMAIN q.node \ {x} : N[y] = q.node[y]
  OBVIOUS
<1> HIDE DEF N
<1>6. /\ DOMAIN r = DOMAIN q /\ r.node = N /\ r.kind = q.kind /\ r.head = q.head
      /\ r.tail = q.tail /\ r.total = Deq!Counted(q, -1) /\ r.pool = P
  BY <1>2, <1>3
<1>7. Deq!SeqTypes(r) BY <1>3, <1>5, <1>6 DEF Deq!SeqTypes
<1>8. QED BY <1>1, <1>4, <1>5, <1>6, <1>7 DEF r

\* What makes a sequence hold c.
LEMMA HoldsFrom ==
  ASSUME NEW q, NEW c \in Seq(Placed), Deq!SeqTypes(q),
         Pool!Shape(q.pool), Pool!Cut(q.pool, DOMAIN q.node),
         DOMAIN q.node = {c[i].node : i \in 1..Len(c)},
         \A i, j \in 1..Len(c) : c[i].node = c[j].node => i = j,
         q.head = Deq!NodeOf(c, 1), q.tail = Deq!NodeOf(c, Len(c)),
         \A i \in 1..Len(c) : LinkedAt(q, c, i),
         q.kind = "deque" => q.total = Len(c)
  PROVE  Holds(q, c)
<1>1. Deq!Linked(q, c) BY LinkedParts
<1>2. QED BY <1>1 DEF Holds

\* A write of the two ends changes nothing else.
LEMMA EndsFacts ==
  ASSUME NEW q, Deq!SeqTypes(q), NEW a, NEW b
  PROVE  LET r == [q EXCEPT !.head = a, !.tail = b]
         IN  /\ Deq!SeqTypes(r) /\ r.node = q.node /\ r.kind = q.kind
             /\ r.head = a /\ r.tail = b /\ r.total = q.total /\ r.pool = q.pool
<1> DEFINE r == [q EXCEPT !.head = a, !.tail = b]
<1>1. /\ DOMAIN q = {"kind", "head", "tail", "total", "pool", "node"}
      /\ \A y \in DOMAIN q.node : DOMAIN q.node[y] = {"prev", "next", "elem"}
      /\ q.kind \in {"deque", "queue"}
  BY DEF Deq!SeqTypes
<1>2. /\ DOMAIN r = DOMAIN q /\ r.node = q.node /\ r.kind = q.kind /\ r.head = a
      /\ r.tail = b /\ r.total = q.total /\ r.pool = q.pool
  BY <1>1
<1> HIDE DEF r
<1>3. Deq!SeqTypes(r) BY <1>1, <1>2 DEF Deq!SeqTypes
<1>4. QED BY <1>2, <1>3 DEF r

\* An element more in front, and the nodes around it.
LEMMA FrontAdded ==
  ASSUME NEW c \in Seq(Placed), NEW a \in Placed
  PROVE  /\ <<a>> \o c \in Seq(Placed) /\ Len(<<a>> \o c) = Len(c) + 1
         /\ (<<a>> \o c)[1] = a
         /\ \A i \in 1..Len(c) : (<<a>> \o c)[i + 1] = c[i]
  OBVIOUS

\* An element more at the end.
LEMMA BackAdded ==
  ASSUME NEW c \in Seq(Placed), NEW a \in Placed
  PROVE  /\ Append(c, a) \in Seq(Placed) /\ Len(Append(c, a)) = Len(c) + 1
         /\ Append(c, a)[Len(c) + 1] = a
         /\ \A i \in 1..Len(c) : Append(c, a)[i] = c[i]
  OBVIOUS

\* An element less in front.
LEMMA FrontRemoved ==
  ASSUME NEW c \in Seq(Placed), c # << >>
  PROVE  /\ Tail(c) \in Seq(Placed) /\ Len(Tail(c)) = Len(c) - 1 /\ Len(c) \in Nat \ {0}
         /\ \A i \in 1..(Len(c) - 1) : Tail(c)[i] = c[i + 1]
  OBVIOUS

\* An element less at the end.
LEMMA BackRemoved ==
  ASSUME NEW c \in Seq(Placed), c # << >>
  PROVE  /\ Deq!Front(c) \in Seq(Placed) /\ Len(Deq!Front(c)) = Len(c) - 1
         /\ Len(c) \in Nat \ {0}
         /\ \A i \in 1..(Len(c) - 1) : Deq!Front(c)[i] = c[i]
<1>1. Len(c) \in Nat \ {0} OBVIOUS
<1>2. PICK n \in Nat : n = Len(c) - 1 BY <1>1
<1>3. /\ SubSeq(c, 1, n) \in Seq(Placed) /\ Len(SubSeq(c, 1, n)) = n
      /\ \A i \in 1..n : SubSeq(c, 1, n)[i] = c[i]
  BY <1>1, <1>2
<1>4. Deq!Front(c) = SubSeq(c, 1, n) BY <1>2 DEF Deq!Front
<1>5. QED BY <1>1, <1>2, <1>3, <1>4

\* The nodes of a sequence with an element more in front of or behind it.
LEMMA NodesAround ==
  ASSUME NEW c \in Seq(Placed), NEW C \in Seq(Placed), Len(C) = Len(c) + 1
  PROVE  /\ (\A i \in 1..Len(c) : C[i + 1] = c[i]) =>
              /\ \A i \in 1..(Len(c) + 1) : Deq!NodeOf(C, i + 1) = Deq!NodeOf(c, i)
              /\ \A i \in 2..Len(c) : Deq!NodeOf(C, i) = Deq!NodeOf(c, i - 1)
         /\ (\A i \in 1..Len(c) : C[i] = c[i]) =>
              \A i \in 0..Len(c) : Deq!NodeOf(C, i) = Deq!NodeOf(c, i)
         /\ \A i \in 1..(Len(c) + 1) : Deq!NodeOf(C, i) = C[i].node
         /\ Deq!NodeOf(C, 0) = Deq!Nil /\ Deq!NodeOf(C, Len(c) + 2) = Deq!Nil
<1>1. DOMAIN c = 1..Len(c) /\ DOMAIN C = 1..(Len(c) + 1) /\ Len(c) \in Nat OBVIOUS
<1>2. /\ \A i \in 1..(Len(c) + 1) : Deq!NodeOf(C, i) = C[i].node
      /\ Deq!NodeOf(C, 0) = Deq!Nil /\ Deq!NodeOf(C, Len(c) + 2) = Deq!Nil
  BY <1>1 DEF Deq!NodeOf
<1>3. (\A i \in 1..Len(c) : C[i] = c[i]) =>
         \A i \in 0..Len(c) : Deq!NodeOf(C, i) = Deq!NodeOf(c, i)
  BY <1>1 DEF Deq!NodeOf
<1>4. ASSUME \A i \in 1..Len(c) : C[i + 1] = c[i]
      PROVE  /\ \A i \in 1..(Len(c) + 1) : Deq!NodeOf(C, i + 1) = Deq!NodeOf(c, i)
             /\ \A i \in 2..Len(c) : Deq!NodeOf(C, i) = Deq!NodeOf(c, i - 1)
  <2>1. \A i \in 1..(Len(c) + 1) : Deq!NodeOf(C, i + 1) = Deq!NodeOf(c, i)
    <3> SUFFICES ASSUME NEW i \in 1..(Len(c) + 1)
                 PROVE  Deq!NodeOf(C, i + 1) = Deq!NodeOf(c, i)
      OBVIOUS
    <3>1. CASE i \in 1..Len(c)
      <4>1. i + 1 \in DOMAIN C /\ i \in DOMAIN c BY <1>1, <3>1
      <4>2. QED BY <1>4, <3>1, <4>1 DEF Deq!NodeOf
    <3>2. CASE i \notin 1..Len(c)
      <4>1. i + 1 \notin DOMAIN C /\ i \notin DOMAIN c BY <1>1, <3>2
      <4>2. QED BY <4>1 DEF Deq!NodeOf
    <3>3. QED BY <3>1, <3>2
  <2>2. ASSUME NEW i \in 2..Len(c) PROVE Deq!NodeOf(C, i) = Deq!NodeOf(c, i - 1)
    <3>1. PICK j : j = i - 1 OBVIOUS
    <3>2. j \in 1..(Len(c) + 1) /\ i = j + 1 BY <1>1, <3>1
    <3>3. QED BY <2>1, <3>1, <3>2
  <2>3. QED BY <2>1, <2>2
<1>5. QED BY <1>2, <1>3, <1>4

\* The element a push adds to q.
Pushed(q, v) == [node |-> Pool!Take(q.pool).idx, elem |-> v]

\* A sequence with one node more, whose other nodes keep their elements.
LEMMA NodesWith ==
  ASSUME NEW q, NEW c, Holds(q, c), NEW a \in Placed, a.node \notin DOMAIN q.node,
         NEW C \in Seq(Placed), Len(C) = Len(c) + 1,
         \/ C[1] = a /\ \A i \in 1..Len(c) : C[i + 1] = c[i]
         \/ C[Len(c) + 1] = a /\ \A i \in 1..Len(c) : C[i] = c[i]
  PROVE  /\ {C[i].node : i \in 1..Len(C)} = DOMAIN q.node \cup {a.node}
         /\ \A i, j \in 1..Len(C) : C[i].node = C[j].node => i = j
<1>1. /\ Len(c) \in Nat /\ DOMAIN q.node = {c[i].node : i \in 1..Len(c)}
      /\ \A i, j \in 1..Len(c) : c[i].node = c[j].node => i = j
  BY NodesOf, SMTT(60)
<1>2. PICK n \in Nat : n = Len(c) BY <1>1
<1> DEFINE Pos(at, i) == IF at = 1 THEN i + 1 ELSE i
<1>3. PICK at \in {1, n + 1} : C[at] = a /\ \A i \in 1..n : C[Pos(at, i)] = c[i]
  <2>1. CASE C[1] = a /\ \A i \in 1..Len(c) : C[i + 1] = c[i]
    <3>1. \A i \in 1..n : C[Pos(1, i)] = c[i] BY <1>2, <2>1
    <3>2. QED BY <2>1, <3>1
  <2>2. CASE C[Len(c) + 1] = a /\ \A i \in 1..Len(c) : C[i] = c[i]
    <3>1. \A i \in 1..n : C[Pos(n + 1, i)] = c[i] BY <1>2, <2>2
    <3>2. C[n + 1] = a BY <1>2, <2>2
    <3>3. QED BY <3>1, <3>2
  <2>3. QED BY <2>1, <2>2
<1>4. \A k \in 1..(n + 1) : k = at \/ \E i \in 1..n : C[k] = c[i] /\ k = Pos(at, i)
  <2> SUFFICES ASSUME NEW k \in 1..(n + 1), k # at
               PROVE  \E i \in 1..n : C[k] = c[i] /\ k = Pos(at, i)
    OBVIOUS
  <2>1. PICK i : i = IF at = 1 THEN k - 1 ELSE k OBVIOUS
  <2>2. i \in 1..n /\ k = Pos(at, i) BY <1>3, <2>1
  <2>3. QED BY <1>3, <2>2
<1>5. \A i \in 1..n : \E k \in 1..(n + 1) : C[k] = c[i]
  <2> SUFFICES ASSUME NEW i \in 1..n PROVE \E k \in 1..(n + 1) : C[k] = c[i]
    OBVIOUS
  <2>1. PICK k : k = Pos(at, i) OBVIOUS
  <2>2. k \in 1..(n + 1) BY <2>1
  <2>3. QED BY <1>3, <2>1, <2>2
<1>6. at \in 1..(n + 1) /\ Len(C) = n + 1 BY <1>2, <1>3
<1>7. {C[i].node : i \in 1..Len(C)} = DOMAIN q.node \cup {a.node}
  <2>1. \A k \in 1..(n + 1) : C[k].node \in DOMAIN q.node \cup {a.node}
    BY <1>1, <1>2, <1>3, <1>4
  <2>2. ASSUME NEW x \in DOMAIN q.node PROVE \E k \in 1..(n + 1) : C[k].node = x
    <3>1. PICK i \in 1..n : x = c[i].node BY <1>1, <1>2
    <3>2. QED BY <1>5, <3>1
  <2>3. \E k \in 1..(n + 1) : C[k].node = a.node BY <1>3, <1>6
  <2>4. QED BY <1>6, <2>1, <2>2, <2>3
<1>8. ASSUME NEW i \in 1..(n + 1), NEW j \in 1..(n + 1), C[i].node = C[j].node
      PROVE  i = j
  <2>1. \A k \in 1..(n + 1) : k # at => C[k].node \in DOMAIN q.node BY <1>1, <1>2, <1>4
  <2>2. i = at <=> j = at BY <1>3, <1>8, <2>1
  <2>3. CASE i # at
    <3>1. PICK x \in 1..n : C[i] = c[x] /\ i = Pos(at, x) BY <1>4, <2>3
    <3>2. PICK y \in 1..n : C[j] = c[y] /\ j = Pos(at, y) BY <1>4, <2>2, <2>3
    <3>3. x = y BY <1>1, <1>2, <1>8, <3>1, <3>2
    <3>4. QED BY <3>1, <3>2, <3>3
  <2>4. QED BY <2>2, <2>3
<1>9. QED BY <1>6, <1>7, <1>8

\* The ends are nodes or Nil.
LEMMA EndNodes ==
  ASSUME NEW q, NEW c, Holds(q, c)
  PROVE  q.head \in DOMAIN q.node \cup {Deq!Nil} /\ q.tail \in DOMAIN q.node \cup {Deq!Nil}
<1>1. /\ \A i \in 1..Len(c) : Deq!NodeOf(c, i) \in DOMAIN q.node
      /\ \A i : i \notin 1..Len(c) => Deq!NodeOf(c, i) = Deq!Nil
      /\ q.head = Deq!NodeOf(c, 1) /\ q.tail = Deq!NodeOf(c, Len(c))
  BY NodesOf
<1>2. \A i : Deq!NodeOf(c, i) \in DOMAIN q.node \cup {Deq!Nil} BY <1>1
<1>3. QED BY <1>1, <1>2

\* vlDequePushFront puts the element in front of the others.
LEMMA DequePushFrontHolds ==
  ASSUME NEW q, NEW c, Holds(q, c), q.kind = "deque", NEW v \in Items
  PROVE  Holds(Deq!DequePushFront(q, v), <<Pushed(q, v)>> \o c)
<1> DEFINE t == Pool!Take(q.pool).idx
           a == Pushed(q, v)
           C == <<a>> \o c
           r0 == Deq!NewNode(q, Deq!Nil, q.head, v).seq
           r1 == Deq!Set(r0, q.head, "prev", t)
           e == IF q.tail = Deq!Nil THEN t ELSE q.tail
           r == [r1 EXCEPT !.head = t, !.tail = IF @ = Deq!Nil THEN t ELSE @]
<1>1. /\ Deq!NewNode(q, Deq!Nil, q.head, v).idx = t
      /\ t \notin DOMAIN q.node /\ t # Deq!Nil /\ t \in Nat \X Nat
      /\ Deq!SeqTypes(r0) /\ DOMAIN r0.node = DOMAIN q.node \cup {t}
      /\ Deq!Nil \notin DOMAIN r0.node
      /\ r0.kind = q.kind /\ r0.head = q.head /\ r0.tail = q.tail
      /\ r0.total = Len(c) + 1
      /\ Pool!Shape(r0.pool) /\ Pool!Cut(r0.pool, DOMAIN r0.node)
      /\ r0.node[t].prev = Deq!Nil /\ r0.node[t].next = q.head /\ r0.node[t].elem = v
      /\ \A y \in DOMAIN q.node : r0.node[y] = q.node[y]
  BY NewNodeFacts
<1>2. /\ Len(c) \in Nat /\ c \in Seq(Placed)
      /\ \A i \in 1..Len(c) : c[i].node \in DOMAIN q.node
      /\ Deq!Nil \notin DOMAIN q.node
      /\ \A i, j \in 1..Len(c) : c[i].node = c[j].node => i = j
      /\ q.head = Deq!NodeOf(c, 1) /\ q.tail = Deq!NodeOf(c, Len(c))
      /\ \A i \in 1..Len(c) : Deq!NodeOf(c, i) = c[i].node
      /\ \A i : i \notin 1..Len(c) => Deq!NodeOf(c, i) = Deq!Nil
      /\ \A i \in 1..Len(c) : LinkedAt(q, c, i)
  BY NodesOf DEF Holds
<1>3. Deq!DequePushFront(q, v) = r BY <1>1 DEF Deq!DequePushFront
<1> HIDE DEF t, r0
<1>4. q.head \in DOMAIN q.node \cup {Deq!Nil} BY EndNodes
<1>5. q.head # t BY <1>1, <1>4
<1>6. /\ Deq!SeqTypes(r1) /\ DOMAIN r1.node = DOMAIN q.node \cup {t}
      /\ r1.kind = q.kind /\ r1.tail = q.tail
      /\ r1.total = Len(c) + 1 /\ r1.pool = r0.pool
      /\ \A y \in DOMAIN q.node :
           /\ r1.node[y].elem = q.node[y].elem /\ r1.node[y].next = q.node[y].next
           /\ r1.node[y].prev = IF y = q.head THEN t ELSE q.node[y].prev
      /\ r1.node[t].prev = Deq!Nil /\ r1.node[t].next = q.head /\ r1.node[t].elem = v
  <2>1. q.head \in DOMAIN r0.node \cup {Deq!Nil} /\ t \in DOMAIN r0.node BY <1>1, <1>4
  <2>2. /\ Deq!SeqTypes(r1) /\ DOMAIN r1.node = DOMAIN r0.node
        /\ r1.kind = r0.kind /\ r1.head = r0.head /\ r1.tail = r0.tail
        /\ r1.total = r0.total /\ r1.pool = r0.pool
        /\ \A y \in DOMAIN r0.node :
             /\ r1.node[y].elem = r0.node[y].elem
             /\ r1.node[y].prev = IF y = q.head THEN t ELSE r0.node[y].prev
             /\ r1.node[y].next = r0.node[y].next
    BY <1>1, <2>1, SetFacts
  <2> HIDE DEF r1
  <2>3. QED BY <1>1, <1>5, <2>1, <2>2
<1> HIDE DEF r1
<1>7. /\ Deq!SeqTypes(r) /\ r.node = r1.node /\ r.kind = r1.kind
      /\ r.head = t /\ r.tail = e /\ r.total = r1.total /\ r.pool = r1.pool
  <2>1. DOMAIN r1 = {"kind", "head", "tail", "total", "pool", "node"}
    BY <1>6 DEF Deq!SeqTypes
  <2>2. /\ DOMAIN r = DOMAIN r1 /\ r.node = r1.node /\ r.kind = r1.kind
        /\ r.head = t /\ r.total = r1.total /\ r.pool = r1.pool
        /\ r.tail = IF r1.tail = Deq!Nil THEN t ELSE r1.tail
    BY <2>1
  <2> HIDE DEF r
  <2>3. Deq!SeqTypes(r) BY <1>6, <2>2 DEF Deq!SeqTypes
  <2>4. QED BY <1>6, <2>2, <2>3
<1> HIDE DEF e
<1>8. a \in Placed /\ a.node = t /\ a.elem = v BY <1>1 DEF Placed, Pushed, t
<1> HIDE DEF a, r
<1>9. /\ C \in Seq(Placed) /\ Len(C) = Len(c) + 1 /\ C[1] = a
      /\ \A i \in 1..Len(c) : C[i + 1] = c[i]
  BY <1>2, <1>8, FrontAdded
<1> HIDE DEF C
<1>10. /\ \A i \in 1..(Len(c) + 1) : Deq!NodeOf(C, i + 1) = Deq!NodeOf(c, i)
       /\ \A i \in 1..(Len(c) + 1) : Deq!NodeOf(C, i) = C[i].node
       /\ Deq!NodeOf(C, 0) = Deq!Nil
  BY <1>2, <1>9, NodesAround
<1>11. /\ {C[i].node : i \in 1..Len(C)} = DOMAIN q.node \cup {t}
       /\ \A i, j \in 1..Len(C) : C[i].node = C[j].node => i = j
  <2>1. a.node \notin DOMAIN q.node BY <1>1, <1>8
  <2>2. C[1] = a /\ \A i \in 1..Len(c) : C[i + 1] = c[i] BY <1>9
  <2>3. /\ {C[i].node : i \in 1..Len(C)} = DOMAIN q.node \cup {a.node}
        /\ \A i, j \in 1..Len(C) : C[i].node = C[j].node => i = j
    <3>1. C \in Seq(Placed) /\ Len(C) = Len(c) + 1 /\ a \in Placed BY <1>8, <1>9
    <3>2. QED BY <2>1, <2>2, <3>1, NodesWith
  <2>4. QED BY <1>8, <2>3
<1>12. r.head = Deq!NodeOf(C, 1)
  <2>1. 1 \in 1..(Len(c) + 1) BY <1>2
  <2>2. QED BY <1>7, <1>8, <1>9, <1>10, <2>1
<1>13. r.tail = Deq!NodeOf(C, Len(C))
  <2>1. CASE Len(c) = 0
    <3>1. Len(c) \notin 1..Len(c) /\ Len(C) = 1 BY <1>9, <2>1
    <3>2. e = t BY <1>2, <3>1 DEF e
    <3>3. QED BY <1>7, <1>12, <3>1, <3>2
  <2>2. CASE Len(c) > 0
    <3>1. PICK n : n = Len(c) OBVIOUS
    <3>2. n \in 1..Len(c) /\ n \in 1..(Len(c) + 1) /\ Len(C) = n + 1 BY <1>2, <1>9, <2>2, <3>1
    <3>3. e = Deq!NodeOf(c, n) BY <1>2, <3>1, <3>2 DEF e
    <3>4. QED BY <1>7, <1>10, <3>2, <3>3
  <2>3. QED BY <1>2, <2>1, <2>2
<1>14. ASSUME NEW k \in 1..Len(C) PROVE LinkedAt(r, C, k)
  <2>1. r.kind = "deque" BY <1>6, <1>7
  <2>2. CASE k = 1
    <3>1. C[k] = a /\ Deq!NodeOf(C, k + 1) = q.head /\ Deq!NodeOf(C, k - 1) = Deq!Nil
      <4>1. 1 \in 1..(Len(c) + 1) BY <1>2
      <4>2. k - 1 = 0 /\ k + 1 = 1 + 1 BY <2>2
      <4>3. QED BY <1>2, <1>9, <1>10, <2>2, <4>1, <4>2
    <3>2. QED BY <1>6, <1>7, <1>8, <2>1, <3>1 DEF LinkedAt, Deq!After
  <2>3. CASE k # 1
    <3>1. PICK i : i = k - 1 OBVIOUS
    <3>2. i \in 1..Len(c) /\ k = i + 1 BY <1>2, <1>9, <2>3, <3>1
    <3>3. C[k] = c[i] BY <1>9, <3>2
    <3>4. Deq!NodeOf(C, k + 1) = Deq!NodeOf(c, i + 1)
      <4>1. PICK j : j = i + 1 OBVIOUS
      <4>2. j \in 1..(Len(c) + 1) /\ k = j BY <1>2, <3>2, <4>1
      <4>3. QED BY <1>10, <4>1, <4>2
    <3>5. Deq!NodeOf(C, k - 1) = IF i = 1 THEN t ELSE Deq!NodeOf(c, i - 1)
      <4>1. CASE i = 1 BY <1>7, <1>12, <3>1, <4>1
      <4>2. CASE i # 1
        <5>1. PICK j : j = i - 1 OBVIOUS
        <5>2. j \in 1..(Len(c) + 1) /\ k - 1 = j + 1 BY <1>2, <3>1, <3>2, <4>2, <5>1
        <5>3. QED BY <1>10, <4>2, <5>1, <5>2
      <4>3. QED BY <4>1, <4>2
    <3>6. LinkedAt(q, c, i) /\ c[i].node \in DOMAIN q.node BY <1>2, <3>2
    <3>7. c[i].node = q.head <=> i = 1
      <4>1. 1 \in 1..Len(c) BY <1>2, <3>2
      <4>2. q.head = c[1].node BY <1>2, <4>1
      <4>3. QED BY <1>2, <3>2, <4>1, <4>2
    <3>8. QED BY <1>6, <1>7, <2>1, <3>3, <3>4, <3>5, <3>6, <3>7 DEF LinkedAt, Deq!After
  <2>4. QED BY <2>2, <2>3
<1>15. Pool!Shape(r.pool) /\ Pool!Cut(r.pool, DOMAIN r.node) BY <1>1, <1>6, <1>7
<1>16. DOMAIN r.node = {C[i].node : i \in 1..Len(C)} BY <1>6, <1>7, <1>11
<1>17. r.total = Len(C) BY <1>6, <1>7, <1>9
<1>18. Holds(r, C) BY <1>7, <1>9, <1>11, <1>12, <1>13, <1>14, <1>15, <1>16, <1>17, HoldsFrom
<1>19. QED BY <1>3, <1>18 DEF a, C, r

\* A new last node, linked to the one that was last, ends a sequence with its element.
LEMMA BackHolds ==
  ASSUME NEW q, NEW c, Holds(q, c), NEW v \in Items, NEW r, NEW t,
         t = Pool!Take(q.pool).idx, t \notin DOMAIN q.node, t \in Nat \X Nat,
         Deq!SeqTypes(r), Pool!Shape(r.pool), Pool!Cut(r.pool, DOMAIN r.node),
         DOMAIN r.node = DOMAIN q.node \cup {t}, r.kind = q.kind,
         r.tail = t, r.head = IF q.head = Deq!Nil THEN t ELSE q.head,
         q.kind = "deque" => r.total = Len(c) + 1,
         \A y \in DOMAIN q.node :
            /\ r.node[y].elem = q.node[y].elem
            /\ r.node[y].prev = q.node[y].prev
            /\ r.node[y].next = IF y = q.tail THEN t ELSE q.node[y].next,
         r.node[t].elem = v,
         r.node[t].next = IF q.kind = "queue" THEN t ELSE Deq!Nil,
         q.kind = "deque" => r.node[t].prev = q.tail
  PROVE  Holds(r, Append(c, Pushed(q, v)))
<1> DEFINE a == Pushed(q, v)
           C == Append(c, a)
<1>1. /\ Len(c) \in Nat /\ c \in Seq(Placed)
      /\ \A i \in 1..Len(c) : c[i].node \in DOMAIN q.node
      /\ Deq!Nil \notin DOMAIN q.node
      /\ \A i, j \in 1..Len(c) : c[i].node = c[j].node => i = j
      /\ q.head = Deq!NodeOf(c, 1) /\ q.tail = Deq!NodeOf(c, Len(c))
      /\ \A i \in 1..Len(c) : Deq!NodeOf(c, i) = c[i].node
      /\ \A i : i \notin 1..Len(c) => Deq!NodeOf(c, i) = Deq!Nil
      /\ \A i \in 1..Len(c) : LinkedAt(q, c, i)
      /\ q.kind \in {"deque", "queue"}
  BY NodesOf DEF Holds
<1>2. a \in Placed /\ a.node = t /\ a.elem = v BY DEF Placed, Pushed
<1> HIDE DEF a
<1>3. /\ C \in Seq(Placed) /\ Len(C) = Len(c) + 1 /\ C[Len(c) + 1] = a
      /\ \A i \in 1..Len(c) : C[i] = c[i]
  BY <1>1, <1>2, BackAdded
<1> HIDE DEF C
<1>4. PICK n \in Nat : n = Len(c) BY <1>1
<1>5. n + 1 \in 1..(n + 1) /\ C[n + 1] = a /\ Len(C) = n + 1 BY <1>3, <1>4
<1>6. /\ \A i \in 0..n : Deq!NodeOf(C, i) = Deq!NodeOf(c, i)
      /\ \A i \in 1..(n + 1) : Deq!NodeOf(C, i) = C[i].node
      /\ Deq!NodeOf(C, n + 2) = Deq!Nil
  BY <1>1, <1>3, <1>4, NodesAround
<1>7. /\ {C[i].node : i \in 1..Len(C)} = DOMAIN q.node \cup {t}
      /\ \A i, j \in 1..Len(C) : C[i].node = C[j].node => i = j
  <2>4. a.node \notin DOMAIN q.node BY <1>2
  <2>5. /\ {C[i].node : i \in 1..Len(C)} = DOMAIN q.node \cup {a.node}
        /\ \A i, j \in 1..Len(C) : C[i].node = C[j].node => i = j
    BY <1>2, <1>3, <2>4, NodesWith
  <2>6. QED BY <1>2, <2>5
<1>8. r.tail = Deq!NodeOf(C, Len(C)) BY <1>2, <1>5, <1>6
<1>9. r.head = Deq!NodeOf(C, 1)
  <2>1. 1 \in 1..(n + 1) OBVIOUS
  <2>2. CASE n = 0
    <3>1. 1 \notin 1..Len(c) BY <1>4, <2>2
    <3>2. r.head = t BY <1>1, <3>1
    <3>3. QED BY <1>2, <1>5, <1>6, <2>1, <2>2, <3>2
  <2>3. CASE n # 0
    <3>1. 1 \in 1..Len(c) /\ 1 \in 0..n BY <1>4, <2>3
    <3>2. q.head # Deq!Nil BY <1>1, <3>1
    <3>3. QED BY <1>1, <1>6, <3>1, <3>2
  <2>4. QED BY <2>2, <2>3
<1>10. ASSUME NEW k \in 1..Len(C) PROVE LinkedAt(r, C, k)
  <2>1. CASE k = n + 1
    <3>1. C[k] = a /\ k = Len(C) BY <1>5, <2>1
    <3>2. Deq!After(r.kind, C, k) = IF q.kind = "queue" THEN t ELSE Deq!Nil
      <4>1. k + 1 = n + 2 BY <2>1
      <4>2. QED BY <1>1, <1>2, <1>6, <3>1, <4>1 DEF Deq!After
    <3>3. Deq!NodeOf(C, k - 1) = q.tail
      <4>1. k - 1 = n /\ n \in 0..n BY <2>1
      <4>2. QED BY <1>1, <1>4, <1>6, <4>1
    <3>4. QED BY <1>2, <3>1, <3>2, <3>3 DEF LinkedAt
  <2>2. CASE k # n + 1
    <3>1. k \in 1..n /\ k \in 1..Len(c) /\ k # Len(C) BY <1>4, <1>5, <2>2
    <3>2. C[k] = c[k] /\ c[k].node \in DOMAIN q.node /\ LinkedAt(q, c, k) BY <1>1, <1>3, <3>1
    <3>3. Deq!NodeOf(C, k - 1) = Deq!NodeOf(c, k - 1)
      <4>1. PICK j : j = k - 1 OBVIOUS
      <4>2. j \in 0..n BY <3>1, <4>1
      <4>3. QED BY <1>6, <4>1, <4>2
    <3>4. c[k].node = q.tail <=> k = n
      <4>1. n \in 1..Len(c) BY <1>4, <3>1
      <4>2. q.tail = c[n].node BY <1>1, <1>4, <4>1
      <4>3. QED BY <1>1, <3>1, <4>1, <4>2
    <3>5. Deq!After(r.kind, C, k) = IF k = n THEN t ELSE Deq!After(q.kind, c, k)
      <4>1. PICK j : j = k + 1 OBVIOUS
      <4>2. Deq!After(r.kind, C, k) = Deq!NodeOf(C, j) BY <3>1, <4>1 DEF Deq!After
      <4>3. CASE k = n
        <5>1. j = n + 1 BY <4>1, <4>3
        <5>2. Deq!NodeOf(C, j) = t BY <1>2, <1>5, <1>6, <5>1
        <5>3. QED BY <4>2, <4>3, <5>2
      <4>4. CASE k # n
        <5>1. j \in 0..n /\ k # Len(c) BY <1>4, <3>1, <4>1, <4>4
        <5>2. QED BY <1>6, <4>1, <4>2, <4>4, <5>1 DEF Deq!After
      <4>5. QED BY <4>3, <4>4
    <3>6. QED BY <3>2, <3>3, <3>4, <3>5 DEF LinkedAt
  <2>3. QED BY <2>1, <2>2
<1>11. Holds(r, C)
  <2>1. DOMAIN r.node = {C[i].node : i \in 1..Len(C)} BY <1>7
  <2>2. r.kind = "deque" => r.total = Len(C) BY <1>3
  <2>3. QED BY <1>3, <1>7, <1>8, <1>9, <1>10, <2>1, <2>2, HoldsFrom
<1>12. QED BY <1>11 DEF C, a

\* vlDequePushBack and vlQueuePushBack put the element behind the others.
LEMMA DequePushBackHolds ==
  ASSUME NEW q, NEW c, Holds(q, c), q.kind = "deque", NEW v \in Items
  PROVE  Holds(Deq!DequePushBack(q, v), Append(c, Pushed(q, v)))
<1> DEFINE t == Pool!Take(q.pool).idx
           r0 == Deq!NewNode(q, q.tail, Deq!Nil, v).seq
           r1 == Deq!Set(r0, q.tail, "next", t)
           r == [r1 EXCEPT !.tail = t, !.head = IF @ = Deq!Nil THEN t ELSE @]
<1>1. /\ Deq!NewNode(q, q.tail, Deq!Nil, v).idx = t
      /\ t \notin DOMAIN q.node /\ t # Deq!Nil /\ t \in Nat \X Nat
      /\ Deq!SeqTypes(r0) /\ DOMAIN r0.node = DOMAIN q.node \cup {t}
      /\ Deq!Nil \notin DOMAIN r0.node
      /\ r0.kind = q.kind /\ r0.head = q.head /\ r0.tail = q.tail
      /\ r0.total = Len(c) + 1
      /\ Pool!Shape(r0.pool) /\ Pool!Cut(r0.pool, DOMAIN r0.node)
      /\ r0.node[t].prev = q.tail /\ r0.node[t].next = Deq!Nil /\ r0.node[t].elem = v
      /\ \A y \in DOMAIN q.node : r0.node[y] = q.node[y]
  BY NewNodeFacts
<1>2. Deq!DequePushBack(q, v) = r BY <1>1 DEF Deq!DequePushBack
<1>3. PICK T : T = t OBVIOUS
<1>4. q.tail \in DOMAIN q.node \cup {Deq!Nil} BY EndNodes
<1>5. q.tail # t BY <1>1, <1>4
<1> HIDE DEF t, r0
<1>6. /\ Deq!SeqTypes(r1) /\ DOMAIN r1.node = DOMAIN r0.node
      /\ r1.kind = r0.kind /\ r1.head = r0.head /\ r1.tail = r0.tail
      /\ r1.total = r0.total /\ r1.pool = r0.pool
      /\ \A y \in DOMAIN r0.node :
           /\ r1.node[y].elem = r0.node[y].elem
           /\ r1.node[y].prev = r0.node[y].prev
           /\ r1.node[y].next = IF y = q.tail THEN t ELSE r0.node[y].next
  <2>1. q.tail \in DOMAIN r0.node \cup {Deq!Nil} BY <1>1, <1>4
  <2>2. QED BY <1>1, <2>1, SetFacts
<1> HIDE DEF r1
<1>7. /\ Deq!SeqTypes(r) /\ r.node = r1.node /\ r.kind = r1.kind
      /\ r.tail = t /\ r.head = (IF r1.head = Deq!Nil THEN t ELSE r1.head)
      /\ r.total = r1.total /\ r.pool = r1.pool
  <2>1. DOMAIN r1 = {"kind", "head", "tail", "total", "pool", "node"}
    BY <1>6 DEF Deq!SeqTypes
  <2>2. /\ DOMAIN r = DOMAIN r1 /\ r.node = r1.node /\ r.kind = r1.kind
        /\ r.tail = t /\ r.total = r1.total /\ r.pool = r1.pool
        /\ r.head = IF r1.head = Deq!Nil THEN t ELSE r1.head
    BY <2>1
  <2> HIDE DEF r
  <2>3. Deq!SeqTypes(r) BY <1>6, <2>2 DEF Deq!SeqTypes
  <2>4. QED BY <2>2, <2>3
<1> HIDE DEF r
<1>8. Holds(r, Append(c, Pushed(q, v)))
  <2>1. /\ Deq!SeqTypes(r) /\ Pool!Shape(r.pool) /\ Pool!Cut(r.pool, DOMAIN r.node)
        /\ DOMAIN r.node = DOMAIN q.node \cup {t} /\ r.kind = q.kind
        /\ r.tail = t /\ r.head = (IF q.head = Deq!Nil THEN t ELSE q.head)
        /\ r.total = Len(c) + 1
    BY <1>1, <1>6, <1>7
  <2>2. \A y \in DOMAIN q.node :
            /\ r.node[y].elem = q.node[y].elem
            /\ r.node[y].prev = q.node[y].prev
            /\ r.node[y].next = IF y = q.tail THEN t ELSE q.node[y].next
    BY <1>1, <1>6, <1>7
  <2>3. r.node[t].elem = v /\ r.node[t].next = Deq!Nil /\ r.node[t].prev = q.tail
    BY <1>1, <1>5, <1>6, <1>7
  <2>4. t = Pool!Take(q.pool).idx BY DEF t
  <2>5. r.node[t].next = IF q.kind = "queue" THEN t ELSE Deq!Nil BY <2>3
  <2>6. QED BY <1>1, <2>1, <2>2, <2>3, <2>4, <2>5, BackHolds
<1>9. QED BY <1>2, <1>8

\* In a queue the new node is first made its own successor.
LEMMA QueuePushBackHolds ==
  ASSUME NEW q, NEW c, Holds(q, c), q.kind = "queue", NEW v \in Items
  PROVE  Holds(Deq!QueuePushBack(q, v), Append(c, Pushed(q, v)))
<1> DEFINE t == Pool!Take(q.pool).idx
           r0 == Deq!NewNode(q, Deq!Nil, Deq!Nil, v).seq
           r1 == Deq!Set(r0, t, "next", t)
           r2 == Deq!Set(r1, q.tail, "next", t)
           r == [r2 EXCEPT !.tail = t, !.head = IF @ = Deq!Nil THEN t ELSE @]
<1>1. /\ Deq!NewNode(q, Deq!Nil, Deq!Nil, v).idx = t
      /\ t \notin DOMAIN q.node /\ t # Deq!Nil /\ t \in Nat \X Nat
      /\ Deq!SeqTypes(r0) /\ DOMAIN r0.node = DOMAIN q.node \cup {t}
      /\ Deq!Nil \notin DOMAIN r0.node
      /\ r0.kind = q.kind /\ r0.head = q.head /\ r0.tail = q.tail
      /\ Pool!Shape(r0.pool) /\ Pool!Cut(r0.pool, DOMAIN r0.node)
      /\ r0.node[t].elem = v
      /\ \A y \in DOMAIN q.node : r0.node[y] = q.node[y]
  BY NewNodeFacts
<1>2. Deq!QueuePushBack(q, v) = r BY <1>1 DEF Deq!QueuePushBack
<1>3. q.tail \in DOMAIN q.node \cup {Deq!Nil} BY EndNodes
<1>4. q.tail # t BY <1>1, <1>3
<1> HIDE DEF t, r0
<1>5. /\ Deq!SeqTypes(r1) /\ DOMAIN r1.node = DOMAIN r0.node
      /\ r1.kind = r0.kind /\ r1.head = r0.head /\ r1.tail = r0.tail /\ r1.pool = r0.pool
      /\ \A y \in DOMAIN r0.node :
           /\ r1.node[y].elem = r0.node[y].elem
           /\ r1.node[y].prev = r0.node[y].prev
           /\ r1.node[y].next = IF y = t THEN t ELSE r0.node[y].next
  <2>1. t \in DOMAIN r0.node \cup {Deq!Nil} BY <1>1
  <2>2. QED BY <1>1, <2>1, SetFacts
<1> HIDE DEF r1
<1>6. /\ Deq!SeqTypes(r2) /\ DOMAIN r2.node = DOMAIN r1.node
      /\ r2.kind = r1.kind /\ r2.head = r1.head /\ r2.tail = r1.tail /\ r2.pool = r1.pool
      /\ \A y \in DOMAIN r1.node :
           /\ r2.node[y].elem = r1.node[y].elem
           /\ r2.node[y].prev = r1.node[y].prev
           /\ r2.node[y].next = IF y = q.tail THEN t ELSE r1.node[y].next
  <2>1. q.tail \in DOMAIN r1.node \cup {Deq!Nil} /\ Deq!Nil \notin DOMAIN r1.node
    BY <1>1, <1>3, <1>5
  <2>2. QED BY <1>5, <2>1, SetFacts
<1> HIDE DEF r2
<1>7. /\ Deq!SeqTypes(r) /\ r.node = r2.node /\ r.kind = r2.kind
      /\ r.tail = t /\ r.head = (IF r2.head = Deq!Nil THEN t ELSE r2.head)
      /\ r.pool = r2.pool
  <2>1. DOMAIN r2 = {"kind", "head", "tail", "total", "pool", "node"}
    BY <1>6 DEF Deq!SeqTypes
  <2>2. /\ DOMAIN r = DOMAIN r2 /\ r.node = r2.node /\ r.kind = r2.kind
        /\ r.tail = t /\ r.pool = r2.pool
        /\ r.head = IF r2.head = Deq!Nil THEN t ELSE r2.head
    BY <2>1
  <2> HIDE DEF r
  <2>3. Deq!SeqTypes(r) BY <1>6, <2>2 DEF Deq!SeqTypes
  <2>4. QED BY <2>2, <2>3
<1> HIDE DEF r
<1>8. Holds(r, Append(c, Pushed(q, v)))
  <2>0. r.pool = r0.pool /\ DOMAIN r.node = DOMAIN r0.node BY <1>5, <1>6, <1>7
  <2>7. r.kind = q.kind /\ r2.head = q.head BY <1>1, <1>5, <1>6, <1>7
  <2>1. /\ Deq!SeqTypes(r) /\ Pool!Shape(r.pool) /\ Pool!Cut(r.pool, DOMAIN r.node)
        /\ DOMAIN r.node = DOMAIN q.node \cup {t} /\ r.kind = q.kind
        /\ r.tail = t /\ r.head = (IF q.head = Deq!Nil THEN t ELSE q.head)
    BY <1>1, <1>7, <2>0, <2>7
  <2>2. \A y \in DOMAIN q.node :
            /\ r.node[y].elem = q.node[y].elem
            /\ r.node[y].prev = q.node[y].prev
            /\ r.node[y].next = IF y = q.tail THEN t ELSE q.node[y].next
    BY <1>1, <1>5, <1>6, <1>7
  <2>3. r.node[t].elem = v /\ r.node[t].next = t
    BY <1>1, <1>4, <1>5, <1>6, <1>7
  <2>4. t = Pool!Take(q.pool).idx BY DEF t
  <2>5. r.node[t].next = (IF q.kind = "queue" THEN t ELSE Deq!Nil) /\ q.kind # "deque" BY <2>3
  <2>6. QED BY <1>1, <2>1, <2>2, <2>3, <2>4, <2>5, BackHolds
<1>9. QED BY <1>2, <1>8

\* r is q, which holds c, without its first node.
WithoutFront(r, q, c) ==
  /\ Deq!SeqTypes(r) /\ Pool!Shape(r.pool) /\ Pool!Cut(r.pool, DOMAIN r.node)
  /\ DOMAIN r.node = DOMAIN q.node \ {q.head} /\ r.kind = q.kind
  /\ q.kind = "deque" => r.total = Len(c) - 1
  /\ r.head = Deq!NodeOf(c, 2) /\ r.tail = IF Len(c) = 1 THEN Deq!Nil ELSE q.tail
  /\ \A y \in DOMAIN r.node :
       /\ r.node[y].elem = q.node[y].elem /\ r.node[y].next = q.node[y].next
       /\ q.kind = "deque" =>
            r.node[y].prev = IF y = Deq!NodeOf(c, 2) THEN Deq!Nil ELSE q.node[y].prev

\* It holds the other elements.
LEMMA FrontGone ==
  ASSUME NEW q, NEW c, Holds(q, c), c # << >>, NEW r, WithoutFront(r, q, c)
  PROVE  Holds(r, Tail(c))
<1> DEFINE C == Tail(c)
<1>1. /\ Deq!SeqTypes(r) /\ Pool!Shape(r.pool) /\ Pool!Cut(r.pool, DOMAIN r.node)
      /\ DOMAIN r.node = DOMAIN q.node \ {q.head} /\ r.kind = q.kind
      /\ q.kind = "deque" => r.total = Len(c) - 1
      /\ r.head = Deq!NodeOf(c, 2) /\ r.tail = IF Len(c) = 1 THEN Deq!Nil ELSE q.tail
      /\ \A y \in DOMAIN r.node :
           /\ r.node[y].elem = q.node[y].elem /\ r.node[y].next = q.node[y].next
           /\ q.kind = "deque" =>
                r.node[y].prev = IF y = Deq!NodeOf(c, 2) THEN Deq!Nil ELSE q.node[y].prev
  BY DEF WithoutFront
<1>2. /\ Len(c) \in Nat /\ c \in Seq(Placed)
      /\ DOMAIN q.node = {c[i].node : i \in 1..Len(c)}
      /\ \A i, j \in 1..Len(c) : c[i].node = c[j].node => i = j
      /\ q.head = Deq!NodeOf(c, 1) /\ q.tail = Deq!NodeOf(c, Len(c))
      /\ \A i \in 1..Len(c) : Deq!NodeOf(c, i) = c[i].node
      /\ \A i : i \notin 1..Len(c) => Deq!NodeOf(c, i) = Deq!Nil
      /\ \A i \in 1..Len(c) : LinkedAt(q, c, i)
  BY NodesOf DEF Holds
<1>3. /\ C \in Seq(Placed) /\ Len(C) = Len(c) - 1 /\ Len(c) \in Nat \ {0}
      /\ \A i \in 1..(Len(c) - 1) : C[i] = c[i + 1]
  BY <1>2, FrontRemoved
<1> HIDE DEF C
<1>4. PICK n \in Nat : n = Len(c) - 1 BY <1>3
<1>5. /\ Len(C) = n /\ Len(c) = n + 1 /\ Len(c) = Len(C) + 1
      /\ \A i \in 1..n : C[i] = c[i + 1] /\ i + 1 \in 1..(n + 1)
  BY <1>3, <1>4
<1>6. /\ \A i \in 1..(n + 1) : Deq!NodeOf(c, i + 1) = Deq!NodeOf(C, i)
      /\ Deq!NodeOf(C, 0) = Deq!Nil
  <2>1. \A i \in 1..Len(C) : c[i + 1] = C[i] BY <1>5
  <2>2. 0 \notin DOMAIN C BY <1>3
  <2>3. QED BY <1>2, <1>3, <1>5, <2>1, <2>2, NodesAround DEF Deq!NodeOf
<1>7. 1 \in 1..(n + 1) /\ q.head = c[1].node BY <1>2, <1>5
<1>8. \A i, j \in 1..n : C[i].node = C[j].node => i = j
  <2> SUFFICES ASSUME NEW i \in 1..n, NEW j \in 1..n, C[i].node = C[j].node PROVE i = j
    OBVIOUS
  <2>1. i + 1 \in 1..Len(c) /\ j + 1 \in 1..Len(c) /\ c[i + 1].node = c[j + 1].node BY <1>5
  <2>2. i + 1 = j + 1 BY <1>2, <2>1
  <2>3. QED BY <2>2
<1>9. DOMAIN r.node = {C[i].node : i \in 1..n}
  <2>1. ASSUME NEW i \in 1..n PROVE C[i].node \in DOMAIN q.node /\ C[i].node # q.head
    <3>1. PICK j : j = i + 1 OBVIOUS
    <3>2. j \in 1..Len(c) /\ j # 1 /\ C[i] = c[j] BY <1>5, <3>1
    <3>3. QED BY <1>2, <1>5, <1>7, <3>2
  <2>2. ASSUME NEW y \in DOMAIN q.node, y # q.head PROVE \E i \in 1..n : y = C[i].node
    <3>1. PICK j \in 1..(n + 1) : y = c[j].node BY <1>2, <1>5
    <3>2. j # 1 BY <1>7, <2>2, <3>1
    <3>3. PICK i : i = j - 1 OBVIOUS
    <3>4. i \in 1..n /\ j = i + 1 BY <3>2, <3>3
    <3>5. QED BY <1>5, <3>1, <3>4
  <2>3. QED BY <1>1, <2>1, <2>2
<1>10. r.head = Deq!NodeOf(C, 1)
  <2>1. 1 + 1 = 2 OBVIOUS
  <2>2. Deq!NodeOf(c, 1 + 1) = Deq!NodeOf(C, 1) BY <1>6, <1>7
  <2>3. QED BY <1>1, <2>1, <2>2
<1>11. r.tail = Deq!NodeOf(C, Len(C))
  <2>1. CASE n = 0 BY <1>1, <1>5, <1>6, <2>1
  <2>2. CASE n # 0
    <3>1. n \in 1..(n + 1) /\ Len(c) # 1 BY <1>5, <2>2
    <3>2. Deq!NodeOf(c, n + 1) = Deq!NodeOf(C, n) BY <1>6, <3>1
    <3>3. QED BY <1>1, <1>2, <1>5, <3>1, <3>2
  <2>3. QED BY <2>1, <2>2
<1>12. ASSUME NEW i \in 1..n PROVE LinkedAt(r, C, i)
  <2>1. PICK j : j = i + 1 OBVIOUS
  <2>2. j \in 1..Len(c) /\ C[i] = c[j] /\ j # 1 BY <1>5, <2>1
  <2>3. LinkedAt(q, c, j) /\ c[j].node \in DOMAIN r.node BY <1>2, <1>9, <2>2
  <2>4. Deq!NodeOf(C, i + 1) = Deq!NodeOf(c, j + 1)
    <3>1. j \in 1..(n + 1) BY <1>5, <2>2
    <3>2. QED BY <1>6, <2>1, <3>1
  <2>5. (i = n) <=> (j = Len(c)) BY <1>5, <2>1
  <2>6. Deq!After(r.kind, C, i) = Deq!After(q.kind, c, j)
    BY <1>1, <1>5, <2>2, <2>4, <2>5 DEF Deq!After
  <2>7. CASE i = 1
    <3>1. c[j].node = Deq!NodeOf(c, 2) /\ Deq!NodeOf(C, i - 1) = Deq!Nil
      <4>1. j = 2 /\ i - 1 = 0 BY <2>1, <2>7
      <4>2. QED BY <1>2, <1>6, <2>2, <4>1
    <3>2. QED BY <1>1, <2>2, <2>3, <2>6, <3>1 DEF LinkedAt
  <2>8. CASE i # 1
    <3>1. PICK k : k = i - 1 OBVIOUS
    <3>2. k \in 1..(n + 1) /\ k + 1 = i /\ j - 1 = i BY <2>1, <2>8, <3>1
    <3>3. Deq!NodeOf(C, i - 1) = Deq!NodeOf(c, j - 1) BY <1>6, <3>1, <3>2
    <3>4. c[j].node # Deq!NodeOf(c, 2)
      <4>1. 2 \in 1..Len(c) /\ j # 2 BY <1>5, <2>1, <2>8
      <4>2. QED BY <1>2, <2>2, <4>1
    <3>5. QED BY <1>1, <2>2, <2>3, <2>6, <3>3, <3>4 DEF LinkedAt
  <2>9. QED BY <2>7, <2>8
<1>13. Holds(r, C)
  <2>1. r.kind = "deque" => r.total = Len(C) BY <1>1, <1>3
  <2>2. \A i \in 1..Len(C) : LinkedAt(r, C, i) BY <1>5, <1>12
  <2>3. /\ DOMAIN r.node = {C[i].node : i \in 1..Len(C)}
        /\ \A i, j \in 1..Len(C) : C[i].node = C[j].node => i = j
    BY <1>5, <1>8, <1>9
  <2>4. QED BY <1>1, <1>3, <1>10, <1>11, <2>1, <2>2, <2>3, HoldsFrom
<1>14. QED BY <1>13 DEF C

\* r is q, a deque that holds c, without its last node.
WithoutBack(r, q, c) ==
  /\ Deq!SeqTypes(r) /\ Pool!Shape(r.pool) /\ Pool!Cut(r.pool, DOMAIN r.node)
  /\ DOMAIN r.node = DOMAIN q.node \ {q.tail} /\ r.kind = q.kind /\ r.total = Len(c) - 1
  /\ r.tail = Deq!NodeOf(c, Len(c) - 1) /\ r.head = IF Len(c) = 1 THEN Deq!Nil ELSE q.head
  /\ \A y \in DOMAIN r.node :
       /\ r.node[y].elem = q.node[y].elem /\ r.node[y].prev = q.node[y].prev
       /\ r.node[y].next = IF y = Deq!NodeOf(c, Len(c) - 1) THEN Deq!Nil
                           ELSE q.node[y].next

\* It holds the other elements.
LEMMA BackGone ==
  ASSUME NEW q, NEW c, Holds(q, c), c # << >>, q.kind = "deque", NEW r, WithoutBack(r, q, c)
  PROVE  Holds(r, Deq!Front(c))
<1> DEFINE C == Deq!Front(c)
<1>1. /\ Deq!SeqTypes(r) /\ Pool!Shape(r.pool) /\ Pool!Cut(r.pool, DOMAIN r.node)
      /\ DOMAIN r.node = DOMAIN q.node \ {q.tail} /\ r.kind = q.kind /\ r.total = Len(c) - 1
      /\ r.tail = Deq!NodeOf(c, Len(c) - 1) /\ r.head = IF Len(c) = 1 THEN Deq!Nil ELSE q.head
      /\ \A y \in DOMAIN r.node :
           /\ r.node[y].elem = q.node[y].elem /\ r.node[y].prev = q.node[y].prev
           /\ r.node[y].next = IF y = Deq!NodeOf(c, Len(c) - 1) THEN Deq!Nil
                               ELSE q.node[y].next
  BY DEF WithoutBack
<1>2. /\ Len(c) \in Nat /\ c \in Seq(Placed)
      /\ DOMAIN q.node = {c[i].node : i \in 1..Len(c)}
      /\ \A i, j \in 1..Len(c) : c[i].node = c[j].node => i = j
      /\ q.head = Deq!NodeOf(c, 1) /\ q.tail = Deq!NodeOf(c, Len(c))
      /\ \A i \in 1..Len(c) : Deq!NodeOf(c, i) = c[i].node
      /\ \A i : i \notin 1..Len(c) => Deq!NodeOf(c, i) = Deq!Nil
      /\ \A i \in 1..Len(c) : LinkedAt(q, c, i)
  BY NodesOf DEF Holds
<1>3. /\ C \in Seq(Placed) /\ Len(C) = Len(c) - 1 /\ Len(c) \in Nat \ {0}
      /\ \A i \in 1..(Len(c) - 1) : C[i] = c[i]
  BY <1>2, BackRemoved
<1> HIDE DEF C
<1>4. PICK n \in Nat : n = Len(c) - 1 BY <1>3
<1>5. /\ Len(C) = n /\ Len(c) = n + 1 /\ Len(c) = Len(C) + 1
      /\ \A i \in 1..n : C[i] = c[i] /\ i \in 1..(n + 1) /\ i # n + 1
      /\ n + 1 \in 1..(n + 1)
  BY <1>3, <1>4
<1>6. /\ \A i \in 0..n : Deq!NodeOf(c, i) = Deq!NodeOf(C, i)
      /\ Deq!NodeOf(C, n + 1) = Deq!Nil
  <2>1. \A i \in 1..Len(C) : c[i] = C[i] BY <1>5
  <2>2. \A i \in 0..Len(C) : Deq!NodeOf(c, i) = Deq!NodeOf(C, i)
    BY <1>2, <1>3, <1>5, <2>1, NodesAround
  <2>3. n + 1 \notin DOMAIN C BY <1>3, <1>5
  <2>4. QED BY <1>5, <2>2, <2>3 DEF Deq!NodeOf
<1>7. q.tail = c[n + 1].node BY <1>2, <1>5
<1>8. \A i, j \in 1..n : C[i].node = C[j].node => i = j BY <1>2, <1>5
<1>9. DOMAIN r.node = {C[i].node : i \in 1..n}
  <2>1. ASSUME NEW i \in 1..n PROVE C[i].node \in DOMAIN q.node /\ C[i].node # q.tail
    BY <1>2, <1>5, <1>7
  <2>2. ASSUME NEW y \in DOMAIN q.node, y # q.tail PROVE \E i \in 1..n : y = C[i].node
    <3>1. PICK j \in 1..(n + 1) : y = c[j].node BY <1>2, <1>5
    <3>2. j # n + 1 BY <1>7, <2>2, <3>1
    <3>3. j \in 1..n BY <3>2
    <3>4. QED BY <1>5, <3>1, <3>3
  <2>3. QED BY <1>1, <2>1, <2>2
<1>10. r.tail = Deq!NodeOf(C, Len(C))
  <2>1. n \in 0..n OBVIOUS
  <2>2. QED BY <1>1, <1>4, <1>5, <1>6, <2>1
<1>11. r.head = Deq!NodeOf(C, 1)
  <2>1. CASE n = 0
    <3>1. n + 1 = 1 /\ Len(c) = 1 BY <1>5, <2>1
    <3>2. QED BY <1>1, <1>6, <3>1
  <2>2. CASE n # 0
    <3>1. 1 \in 0..n /\ Len(c) # 1 BY <1>5, <2>2
    <3>2. QED BY <1>1, <1>2, <1>6, <3>1
  <2>3. QED BY <2>1, <2>2
<1>12. ASSUME NEW i \in 1..n PROVE LinkedAt(r, C, i)
  <2>1. LinkedAt(q, c, i) /\ c[i].node \in DOMAIN r.node /\ C[i] = c[i] /\ i \in 1..Len(c)
    BY <1>2, <1>5, <1>9
  <2>2. Deq!NodeOf(C, i - 1) = Deq!NodeOf(c, i - 1)
    <3>1. PICK k : k = i - 1 OBVIOUS
    <3>2. k \in 0..n BY <3>1
    <3>3. QED BY <1>6, <3>1, <3>2
  <2>3. c[i].node = Deq!NodeOf(c, Len(c) - 1) <=> i = n
    <3>1. Deq!NodeOf(c, Len(c) - 1) = Deq!NodeOf(c, n) BY <1>4
    <3>2. n \in 1..Len(c) BY <1>5
    <3>3. QED BY <1>2, <2>1, <3>1, <3>2
  <2>4. Deq!NodeOf(C, i + 1) = IF i = n THEN Deq!Nil ELSE Deq!NodeOf(c, i + 1)
    <3>1. CASE i = n BY <1>6, <3>1
    <3>2. CASE i # n
      <4>1. PICK k : k = i + 1 OBVIOUS
      <4>2. k \in 0..n BY <3>2, <4>1
      <4>3. QED BY <1>6, <3>2, <4>1, <4>2
    <3>3. QED BY <3>1, <3>2
  <2>5. QED BY <1>1, <2>1, <2>2, <2>3, <2>4 DEF LinkedAt, Deq!After
<1>13. Holds(r, C)
  <2>1. r.kind = "deque" => r.total = Len(C) BY <1>1, <1>3
  <2>2. \A i \in 1..Len(C) : LinkedAt(r, C, i) BY <1>5, <1>12
  <2>3. /\ DOMAIN r.node = {C[i].node : i \in 1..Len(C)}
        /\ \A i, j \in 1..Len(C) : C[i].node = C[j].node => i = j
    BY <1>5, <1>8, <1>9
  <2>4. QED BY <1>1, <1>3, <1>10, <1>11, <2>1, <2>2, <2>3, HoldsFrom
<1>14. QED BY <1>13 DEF C

\* The ends tell how many elements there are, and lead to the nodes next to them.
LEMMA EndsTell ==
  ASSUME NEW q, NEW c, Holds(q, c)
  PROVE  /\ q.head = Deq!Nil <=> c = << >>
         /\ q.tail = Deq!Nil <=> c = << >>
         /\ c # << >> => (q.head = q.tail <=> Len(c) = 1)
         /\ Len(c) = 1 => Deq!NodeOf(c, 2) = Deq!Nil /\ Deq!NodeOf(c, Len(c) - 1) = Deq!Nil
         /\ c # << >> => q.head \in DOMAIN q.node /\ q.tail \in DOMAIN q.node
         /\ c # << >> /\ Len(c) # 1 =>
              /\ q.node[q.head].next = Deq!NodeOf(c, 2)
              /\ Deq!NodeOf(c, 2) \in DOMAIN q.node
              /\ q.kind = "deque" =>
                   /\ q.node[q.tail].prev = Deq!NodeOf(c, Len(c) - 1)
                   /\ Deq!NodeOf(c, Len(c) - 1) \in DOMAIN q.node
<1>1. /\ Len(c) \in Nat /\ c \in Seq(Placed)
      /\ \A i \in 1..Len(c) : c[i].node \in DOMAIN q.node
      /\ Deq!Nil \notin DOMAIN q.node
      /\ \A i, j \in 1..Len(c) : c[i].node = c[j].node => i = j
      /\ q.head = Deq!NodeOf(c, 1) /\ q.tail = Deq!NodeOf(c, Len(c))
      /\ \A i \in 1..Len(c) : Deq!NodeOf(c, i) = c[i].node
      /\ \A i : i \notin 1..Len(c) => Deq!NodeOf(c, i) = Deq!Nil
      /\ \A i \in 1..Len(c) : LinkedAt(q, c, i)
  BY NodesOf DEF Holds
<1>2. c = << >> <=> Len(c) = 0 BY <1>1
<1>3. PICK n \in Nat : n = Len(c) BY <1>1
<1>4. CASE n = 0
  <2>1. 1 \notin 1..Len(c) /\ Len(c) \notin 1..Len(c) BY <1>3, <1>4
  <2>2. QED BY <1>1, <1>2, <1>3, <1>4, <2>1
<1>5. CASE n = 1
  <2>1. 1 \in 1..Len(c) /\ 2 \notin 1..Len(c) /\ Len(c) - 1 \notin 1..Len(c) BY <1>3, <1>5
  <2>2. QED BY <1>1, <1>2, <1>3, <1>5, <2>1
<1>6. CASE n > 1
  <2>1. PICK k : k = n - 1 OBVIOUS
  <2>2. 1 \in 1..Len(c) /\ 2 \in 1..Len(c) /\ n \in 1..Len(c) /\ k \in 1..Len(c) /\ 1 # n /\ 1 # Len(c)
    BY <1>3, <1>6, <2>1
  <2>3. q.head = c[1].node /\ q.tail = c[n].node /\ q.head # q.tail BY <1>1, <1>3, <2>2
  <2>4. /\ Deq!NodeOf(c, 2) = c[2].node /\ Deq!NodeOf(c, Len(c) - 1) = c[k].node
        /\ Deq!NodeOf(c, n - 1) = c[k].node
    BY <1>1, <1>3, <2>1, <2>2
  <2>5. q.node[q.head].next = Deq!NodeOf(c, 2)
    <3>1. LinkedAt(q, c, 1) /\ 1 + 1 = 2 BY <1>1, <2>2
    <3>2. QED BY <2>2, <2>3, <3>1 DEF LinkedAt, Deq!After
  <2>6. q.kind = "deque" => q.node[q.tail].prev = Deq!NodeOf(c, n - 1)
    <3>1. LinkedAt(q, c, n) BY <1>1, <2>2
    <3>2. QED BY <2>3, <3>1 DEF LinkedAt
  <2>7. QED BY <1>1, <1>2, <1>3, <1>6, <2>2, <2>3, <2>4, <2>5, <2>6
<1>7. QED BY <1>4, <1>5, <1>6

\* vlDequePopFront and vlQueuePopFront remove the first element.
LEMMA DequePopFrontHolds ==
  ASSUME NEW q, NEW c, Holds(q, c), q.kind = "deque"
  PROVE  Holds(Deq!DequePopFront(q), IF c = << >> THEN c ELSE Tail(c))
<1> DEFINE x == Deq!NodeOf(c, 2)
           r == Deq!DequePopFront(q)
<1>1. /\ q.head = Deq!Nil <=> c = << >>
      /\ c # << >> => (q.head = q.tail <=> Len(c) = 1)
      /\ Len(c) = 1 => x = Deq!Nil
      /\ c # << >> => q.head \in DOMAIN q.node
      /\ c # << >> /\ Len(c) # 1 => q.node[q.head].next = x /\ x \in DOMAIN q.node
  BY EndsTell
<1> HIDE DEF x
<1>2. CASE c = << >> BY <1>1, <1>2 DEF Deq!DequePopFront
<1>3. CASE c # << >>
  <2> DEFINE s == Deq!Set(q, x, "prev", Deq!Nil)
             d == Deq!DropNode(s, q.head)
             w == IF Len(c) = 1 THEN Deq!Nil ELSE q.tail
  <2>1. /\ Deq!SeqTypes(q) /\ Pool!Shape(q.pool) /\ Pool!Cut(q.pool, DOMAIN q.node)
        /\ Deq!Nil \notin DOMAIN q.node /\ q.total = Len(c) /\ Len(c) \in Nat
    BY NodesOf DEF Holds
  <2>2. x \in DOMAIN q.node \cup {Deq!Nil} BY <1>1, <1>3
  <2>3. /\ Deq!SeqTypes(s) /\ DOMAIN s.node = DOMAIN q.node
        /\ s.kind = q.kind /\ s.head = q.head /\ s.tail = q.tail
        /\ s.total = q.total /\ s.pool = q.pool
        /\ \A y \in DOMAIN q.node :
             /\ s.node[y].elem = q.node[y].elem
             /\ s.node[y].prev = IF y = x THEN Deq!Nil ELSE q.node[y].prev
             /\ s.node[y].next = q.node[y].next
    BY <2>1, <2>2, SetFacts
  <2>4. IF Len(c) = 1 THEN r = [d EXCEPT !.head = Deq!Nil, !.tail = Deq!Nil]
                     ELSE r = [d EXCEPT !.head = x]
    <3>1. CASE Len(c) = 1
      <4>1. s = q BY <1>1, <3>1 DEF Deq!Set
      <4>2. r = [Deq!DropNode(q, q.head) EXCEPT !.head = Deq!Nil, !.tail = Deq!Nil]
        BY <1>1, <1>3, <3>1 DEF Deq!DequePopFront
      <4>3. QED BY <3>1, <4>1, <4>2
    <3>2. CASE Len(c) # 1 BY <1>1, <1>3, <3>2 DEF Deq!DequePopFront
    <3>3. QED BY <3>1, <3>2
  <2> HIDE DEF s
  <2>5. /\ Deq!SeqTypes(d) /\ DOMAIN d.node = DOMAIN s.node \ {q.head}
        /\ d.kind = s.kind /\ d.head = s.head /\ d.tail = s.tail
        /\ d.total = Len(c) - 1
        /\ Pool!Shape(d.pool) /\ Pool!Cut(d.pool, DOMAIN d.node)
        /\ \A y \in DOMAIN s.node \ {q.head} : d.node[y] = s.node[y]
    BY <1>1, <1>3, <2>1, <2>3, DropNodeFacts
  <2> HIDE DEF d, r
  <2>6. DOMAIN d = {"kind", "head", "tail", "total", "pool", "node"}
    BY <2>5 DEF Deq!SeqTypes
  <2>7. /\ DOMAIN r = DOMAIN d /\ r.node = d.node /\ r.kind = d.kind
        /\ r.total = d.total /\ r.pool = d.pool /\ r.head = x
        /\ r.tail = IF Len(c) = 1 THEN Deq!Nil ELSE d.tail
    BY <1>1, <2>4, <2>6
  <2>8. Deq!SeqTypes(r) BY <2>5, <2>7 DEF Deq!SeqTypes
  <2>9. \A y \in DOMAIN r.node :
           /\ r.node[y].elem = q.node[y].elem /\ r.node[y].next = q.node[y].next
           /\ r.node[y].prev = IF y = x THEN Deq!Nil ELSE q.node[y].prev
    BY <2>3, <2>5, <2>7
  <2>10. /\ Pool!Shape(r.pool) /\ Pool!Cut(r.pool, DOMAIN r.node)
         /\ DOMAIN r.node = DOMAIN q.node \ {q.head} /\ r.kind = q.kind
         /\ r.total = Len(c) - 1
         /\ r.tail = IF Len(c) = 1 THEN Deq!Nil ELSE q.tail
    BY <2>3, <2>5, <2>7
  <2>11. Holds(r, Tail(c))
    <3>1. WithoutFront(r, q, c) BY <2>7, <2>8, <2>9, <2>10 DEF x, WithoutFront
    <3>2. QED BY <1>3, <3>1, FrontGone
  <2>12. QED BY <1>3, <2>11 DEF r
<1>4. QED BY <1>2, <1>3

\* A queue has no links back to mend.
LEMMA QueuePopFrontHolds ==
  ASSUME NEW q, NEW c, Holds(q, c), q.kind = "queue"
  PROVE  Holds(Deq!QueuePopFront(q), IF c = << >> THEN c ELSE Tail(c))
<1> DEFINE x == Deq!NodeOf(c, 2)
           r == Deq!QueuePopFront(q)
<1>1. /\ q.head = Deq!Nil <=> c = << >>
      /\ c # << >> => (q.head = q.tail <=> Len(c) = 1)
      /\ Len(c) = 1 => x = Deq!Nil
      /\ c # << >> => q.head \in DOMAIN q.node
      /\ c # << >> /\ Len(c) # 1 => q.node[q.head].next = x
  BY EndsTell
<1> HIDE DEF x
<1>2. CASE c = << >> BY <1>1, <1>2 DEF Deq!QueuePopFront
<1>3. CASE c # << >>
  <2> DEFINE d == Deq!DropNode(q, q.head)
  <2>1. Deq!SeqTypes(q) /\ Pool!Shape(q.pool) /\ Pool!Cut(q.pool, DOMAIN q.node)
    BY DEF Holds
  <2>2. IF Len(c) = 1 THEN r = [d EXCEPT !.head = Deq!Nil, !.tail = Deq!Nil]
                      ELSE r = [d EXCEPT !.head = x]
    <3>1. CASE Len(c) = 1 BY <1>1, <1>3, <3>1 DEF Deq!QueuePopFront
    <3>2. CASE Len(c) # 1 BY <1>1, <1>3, <3>2 DEF Deq!QueuePopFront
    <3>3. QED BY <3>1, <3>2
  <2>3. /\ Deq!SeqTypes(d) /\ DOMAIN d.node = DOMAIN q.node \ {q.head}
        /\ d.kind = q.kind /\ d.head = q.head /\ d.tail = q.tail
        /\ Pool!Shape(d.pool) /\ Pool!Cut(d.pool, DOMAIN d.node)
        /\ \A y \in DOMAIN q.node \ {q.head} : d.node[y] = q.node[y]
    <3>1. 0 \in Nat /\ (q.kind = "deque" => q.total = 0) OBVIOUS
    <3>2. QED BY <1>1, <1>3, <2>1, <3>1, DropNodeFacts
  <2> HIDE DEF d, r
  <2>4. DOMAIN d = {"kind", "head", "tail", "total", "pool", "node"}
    BY <2>3 DEF Deq!SeqTypes
  <2>5. /\ DOMAIN r = DOMAIN d /\ r.node = d.node /\ r.kind = d.kind
        /\ r.pool = d.pool /\ r.head = x
        /\ r.tail = IF Len(c) = 1 THEN Deq!Nil ELSE d.tail
    BY <1>1, <2>2, <2>4
  <2>6. Deq!SeqTypes(r) BY <2>3, <2>5 DEF Deq!SeqTypes
  <2>7. \A y \in DOMAIN r.node :
           r.node[y].elem = q.node[y].elem /\ r.node[y].next = q.node[y].next
    BY <2>3, <2>5
  <2>8. /\ Pool!Shape(r.pool) /\ Pool!Cut(r.pool, DOMAIN r.node)
        /\ DOMAIN r.node = DOMAIN q.node \ {q.head} /\ r.kind = q.kind
        /\ r.tail = IF Len(c) = 1 THEN Deq!Nil ELSE q.tail
    BY <2>3, <2>5
  <2>9. q.kind # "deque" OBVIOUS
  <2>10. WithoutFront(r, q, c) BY <2>5, <2>6, <2>7, <2>8, <2>9 DEF x, WithoutFront
  <2>11. QED BY <1>3, <2>10, FrontGone DEF r
<1>4. QED BY <1>2, <1>3

\* vlDequePopBack removes the last element.
LEMMA DequePopBackHolds ==
  ASSUME NEW q, NEW c, Holds(q, c), q.kind = "deque"
  PROVE  Holds(Deq!DequePopBack(q), IF c = << >> THEN c ELSE Deq!Front(c))
<1> DEFINE x == Deq!NodeOf(c, Len(c) - 1)
           r == Deq!DequePopBack(q)
<1>1. /\ q.tail = Deq!Nil <=> c = << >>
      /\ c # << >> => (q.head = q.tail <=> Len(c) = 1)
      /\ Len(c) = 1 => x = Deq!Nil
      /\ c # << >> => q.tail \in DOMAIN q.node
      /\ c # << >> /\ Len(c) # 1 => q.node[q.tail].prev = x /\ x \in DOMAIN q.node
  BY EndsTell
<1> HIDE DEF x
<1>2. CASE c = << >> BY <1>1, <1>2 DEF Deq!DequePopBack
<1>3. CASE c # << >>
  <2> DEFINE s == Deq!Set(q, x, "next", Deq!Nil)
             d == Deq!DropNode(s, q.tail)
  <2>1. /\ Deq!SeqTypes(q) /\ Pool!Shape(q.pool) /\ Pool!Cut(q.pool, DOMAIN q.node)
        /\ Deq!Nil \notin DOMAIN q.node /\ q.total = Len(c) /\ Len(c) \in Nat
    BY NodesOf DEF Holds
  <2>2. x \in DOMAIN q.node \cup {Deq!Nil} BY <1>1, <1>3
  <2>3. /\ Deq!SeqTypes(s) /\ DOMAIN s.node = DOMAIN q.node
        /\ s.kind = q.kind /\ s.head = q.head /\ s.tail = q.tail
        /\ s.total = q.total /\ s.pool = q.pool
        /\ \A y \in DOMAIN q.node :
             /\ s.node[y].elem = q.node[y].elem
             /\ s.node[y].prev = q.node[y].prev
             /\ s.node[y].next = IF y = x THEN Deq!Nil ELSE q.node[y].next
    BY <2>1, <2>2, SetFacts
  <2>4. IF Len(c) = 1 THEN r = [d EXCEPT !.head = Deq!Nil, !.tail = Deq!Nil]
                     ELSE r = [d EXCEPT !.tail = x]
    <3>1. CASE Len(c) = 1
      <4>1. s = q BY <1>1, <3>1 DEF Deq!Set
      <4>2. r = [Deq!DropNode(q, q.tail) EXCEPT !.head = Deq!Nil, !.tail = Deq!Nil]
        BY <1>1, <1>3, <3>1 DEF Deq!DequePopBack
      <4>3. QED BY <3>1, <4>1, <4>2
    <3>2. CASE Len(c) # 1 BY <1>1, <1>3, <3>2 DEF Deq!DequePopBack
    <3>3. QED BY <3>1, <3>2
  <2> HIDE DEF s
  <2>5. /\ Deq!SeqTypes(d) /\ DOMAIN d.node = DOMAIN s.node \ {q.tail}
        /\ d.kind = s.kind /\ d.head = s.head /\ d.tail = s.tail
        /\ d.total = Len(c) - 1
        /\ Pool!Shape(d.pool) /\ Pool!Cut(d.pool, DOMAIN d.node)
        /\ \A y \in DOMAIN s.node \ {q.tail} : d.node[y] = s.node[y]
    BY <1>1, <1>3, <2>1, <2>3, DropNodeFacts
  <2> HIDE DEF d, r
  <2>6. DOMAIN d = {"kind", "head", "tail", "total", "pool", "node"}
    BY <2>5 DEF Deq!SeqTypes
  <2>7. /\ DOMAIN r = DOMAIN d /\ r.node = d.node /\ r.kind = d.kind
        /\ r.total = d.total /\ r.pool = d.pool /\ r.tail = x
        /\ r.head = IF Len(c) = 1 THEN Deq!Nil ELSE d.head
    BY <1>1, <2>4, <2>6
  <2>8. Deq!SeqTypes(r) BY <2>5, <2>7 DEF Deq!SeqTypes
  <2>9. \A y \in DOMAIN r.node :
           /\ r.node[y].elem = q.node[y].elem /\ r.node[y].prev = q.node[y].prev
           /\ r.node[y].next = IF y = x THEN Deq!Nil ELSE q.node[y].next
    BY <2>3, <2>5, <2>7
  <2>10. /\ Pool!Shape(r.pool) /\ Pool!Cut(r.pool, DOMAIN r.node)
         /\ DOMAIN r.node = DOMAIN q.node \ {q.tail} /\ r.kind = q.kind
         /\ r.total = Len(c) - 1
         /\ r.head = IF Len(c) = 1 THEN Deq!Nil ELSE q.head
    BY <2>3, <2>5, <2>7
  <2>11. Holds(r, Deq!Front(c))
    <3>1. WithoutBack(r, q, c) BY <2>7, <2>8, <2>9, <2>10 DEF x, WithoutBack
    <3>2. QED BY <1>3, <3>1, BackGone
  <2>12. QED BY <1>3, <2>11 DEF r
<1>4. QED BY <1>2, <1>3

\* Another pool with the same elements out leaves the sequence as it is: vlDequeClone,
\* vlDequeReserve and the queue's.
LEMMA PoolReplaced ==
  ASSUME NEW q, NEW c, Holds(q, c), NEW P, Pool!Shape(P), Pool!Cut(P, DOMAIN q.node)
  PROVE  Holds([q EXCEPT !.pool = P], c)
<1> DEFINE r == [q EXCEPT !.pool = P]
<1>1. /\ Deq!SeqTypes(q) /\ Deq!Linked(q, c) /\ c \in Seq(Placed) BY DEF Holds
<1>2. DOMAIN q = {"kind", "head", "tail", "total", "pool", "node"} BY <1>1 DEF Deq!SeqTypes
<1>3. /\ DOMAIN r = DOMAIN q /\ r.node = q.node /\ r.kind = q.kind /\ r.head = q.head
      /\ r.tail = q.tail /\ r.total = q.total /\ r.pool = P
  BY <1>2
<1> HIDE DEF r
<1>4. Deq!SeqTypes(r) BY <1>1, <1>3 DEF Deq!SeqTypes
<1>5. Deq!Linked(r, c) BY <1>1, <1>3 DEF Deq!Linked
<1>6. QED BY <1>1, <1>3, <1>4, <1>5 DEF Holds, r

\* A sequence without nodes holds nothing.
LEMMA EmptyHolds ==
  ASSUME NEW q, Deq!SeqTypes(q), Pool!Shape(q.pool), Pool!Cut(q.pool, {}),
         q.node = << >>, q.head = Deq!Nil, q.tail = Deq!Nil, q.total = 0
  PROVE  Holds(q, << >>)
<1>1. << >> \in Seq(Placed) /\ Len(<< >>) = 0 /\ DOMAIN << >> = {} OBVIOUS
<1>2. \A i : Deq!NodeOf(<< >>, i) = Deq!Nil BY <1>1 DEF Deq!NodeOf
<1>3. \A i \in 1..Len(<< >>) : FALSE BY <1>1
<1>4. DOMAIN q.node = {} BY <1>1
<1>5. Deq!Linked(q, << >>) BY <1>1, <1>2, <1>4 DEF Deq!Linked
<1>6. QED BY <1>1, <1>4, <1>5 DEF Holds

\* vlDequeClear, vlQueueClear.
LEMMA ClearSeqHolds ==
  ASSUME NEW q, NEW c, Holds(q, c)
  PROVE  Holds(Deq!ClearSeq(q), << >>)
<1> DEFINE P == Pool!Clear(q.pool)
           r == Deq!ClearSeq(q)
<1>1. Deq!SeqTypes(q) /\ Pool!Shape(q.pool) BY DEF Holds
<1>2. Pool!Shape(P) /\ Pool!Cut(P, {}) BY <1>1, ClearKeeps
<1>3. r = [q EXCEPT !.head = Deq!Nil, !.tail = Deq!Nil, !.total = 0, !.node = << >>, !.pool = P]
  BY SamePool DEF Deq!ClearSeq
<1> HIDE DEF P, r
<1>4. DOMAIN q = {"kind", "head", "tail", "total", "pool", "node"} BY <1>1 DEF Deq!SeqTypes
<1>5. /\ DOMAIN r = DOMAIN q /\ r.node = << >> /\ r.kind = q.kind /\ r.head = Deq!Nil
      /\ r.tail = Deq!Nil /\ r.total = 0 /\ r.pool = P
  BY <1>3, <1>4
<1>6. DOMAIN << >> = {} OBVIOUS
<1>7. Deq!SeqTypes(r) BY <1>1, <1>5, <1>6 DEF Deq!SeqTypes
<1>8. QED BY <1>2, <1>5, <1>7, EmptyHolds DEF r

\* A deque and a queue start empty.
LEMMA SeqStart == Deq!SeqInit => Deq!SeqInv
<1> SUFFICES ASSUME Deq!SeqInit PROVE Holds(s1, s2)
  BY SeqInvHolds
<1>1. PICK kind \in {"deque", "queue"} : s1 = Deq!EmptySeq(kind) BY DEF Deq!SeqInit
<1>2. PICK P : P = Pool!FreshPool OBVIOUS
<1>3. s1 = [kind |-> kind, head |-> Deq!Nil, tail |-> Deq!Nil, total |-> 0,
            pool |-> P, node |-> << >>]
  BY <1>1, <1>2, SamePool DEF Deq!EmptySeq
<1>4. /\ s1.kind = kind /\ s1.head = Deq!Nil /\ s1.tail = Deq!Nil /\ s1.total = 0
      /\ s1.pool = P /\ s1.node = << >>
      /\ DOMAIN s1 = {"kind", "head", "tail", "total", "pool", "node"}
  BY <1>3
<1>5. DOMAIN << >> = {} OBVIOUS
<1>6. Deq!SeqTypes(s1) BY <1>1, <1>4, <1>5 DEF Deq!SeqTypes
<1>7. Pool!Shape(P) /\ Pool!Cut(P, {}) BY <1>2, FreshKeeps
<1>8. s2 = << >> BY DEF Deq!SeqInit
<1>9. QED BY <1>4, <1>6, <1>7, <1>8, EmptyHolds

\* Every operation keeps the invariant of a deque or queue.
LEMMA SeqStep ==
  ASSUME Deq!SeqInv, Deq!SeqNext \/ UNCHANGED Deq!seqVars
  PROVE  Deq!SeqInv'
<1>1. Holds(s1, s2) BY SeqInvHolds
<1> SUFFICES Holds(s1', s2') BY SeqInvHolds
<1>2. s1.kind \in {"deque", "queue"} BY <1>1 DEF Holds, Deq!SeqTypes
<1>3. Pool!Shape(s1.pool) /\ Pool!Cut(s1.pool, DOMAIN s1.node) BY <1>1 DEF Holds
<1>4. \A v : Deq!Added(v) = Pushed(s1, v) BY SamePool DEF Deq!Added, Pushed
<1>5. CASE UNCHANGED Deq!seqVars BY <1>1, <1>5 DEF Deq!seqVars
<1>6. ASSUME NEW v \in Items, Deq!PushFront(v) PROVE Holds(s1', s2')
  <2>1. /\ s1.kind = "deque" /\ s1' = Deq!DequePushFront(s1, v)
        /\ s2' = <<Pushed(s1, v)>> \o s2
    BY <1>4, <1>6 DEF Deq!PushFront
  <2>2. QED BY <1>1, <2>1, DequePushFrontHolds
<1>7. ASSUME NEW v \in Items, Deq!PushBack(v) PROVE Holds(s1', s2')
  <2>1. /\ s1' = IF s1.kind = "deque" THEN Deq!DequePushBack(s1, v) ELSE Deq!QueuePushBack(s1, v)
        /\ s2' = Append(s2, Pushed(s1, v))
    BY <1>4, <1>7 DEF Deq!PushBack
  <2>2. CASE s1.kind = "deque" BY <1>1, <2>1, <2>2, DequePushBackHolds
  <2>3. CASE s1.kind = "queue" BY <1>1, <2>1, <2>3, QueuePushBackHolds
  <2>4. QED BY <1>2, <2>2, <2>3
<1>8. CASE Deq!PopFront
  <2>1. /\ s1' = IF s1.kind = "deque" THEN Deq!DequePopFront(s1) ELSE Deq!QueuePopFront(s1)
        /\ s2' = IF s2 = << >> THEN s2 ELSE Tail(s2)
    BY <1>8 DEF Deq!PopFront
  <2>2. CASE s1.kind = "deque"
    <3>1. s1' = Deq!DequePopFront(s1) BY <2>1, <2>2
    <3>2. Holds(Deq!DequePopFront(s1), IF s2 = << >> THEN s2 ELSE Tail(s2))
      BY <1>1, <2>2, DequePopFrontHolds
    <3>3. QED BY <2>1, <3>1, <3>2
  <2>3. CASE s1.kind = "queue"
    <3>1. s1' = Deq!QueuePopFront(s1) BY <2>1, <2>3
    <3>2. Holds(Deq!QueuePopFront(s1), IF s2 = << >> THEN s2 ELSE Tail(s2))
      BY <1>1, <2>3, QueuePopFrontHolds
    <3>3. QED BY <2>1, <3>1, <3>2
  <2>4. QED BY <1>2, <2>2, <2>3
<1>9. CASE Deq!PopBack
  <2>1. /\ s1.kind = "deque" /\ s1' = Deq!DequePopBack(s1)
        /\ s2' = IF s2 = << >> THEN s2 ELSE Deq!Front(s2)
    BY <1>9 DEF Deq!PopBack
  <2>2. Holds(Deq!DequePopBack(s1), IF s2 = << >> THEN s2 ELSE Deq!Front(s2))
    BY <1>1, <2>1, DequePopBackHolds
  <2>3. QED BY <2>1, <2>2
<1>10. CASE Deq!Clear BY <1>1, <1>10, ClearSeqHolds DEF Deq!Clear
<1>11. CASE Deq!Clone
  <2> DEFINE P == Pool!Clone(s1.pool, Pool!FreshPool)
  <2>1. s1' = [s1 EXCEPT !.pool = P] /\ s2' = s2
    BY <1>11, SamePool DEF Deq!Clone, Deq!CloneSeq
  <2>2. Pool!Shape(Pool!FreshPool) BY FreshKeeps
  <2>3. Pool!Shape(P) /\ Pool!Cut(P, DOMAIN s1.node)
    BY <1>3, <2>1, <2>2, CloneKeeps
  <2> HIDE DEF P
  <2>4. QED BY <1>1, <2>1, <2>3, PoolReplaced
<1>12. CASE Deq!Reserve(2)
  <2> DEFINE P == Deq!Pool!Reserve(s1.pool, 2)
  <2>1. s1' = [s1 EXCEPT !.pool = P] /\ s2' = s2 BY <1>12 DEF Deq!Reserve
  <2>2. P \in {s1.pool, Pool!NodeNew(s1.pool)} BY SamePool
  <2> HIDE DEF P
  <2>3. Pool!Shape(P) /\ Pool!Cut(P, DOMAIN s1.node)
    BY <1>3, <2>2, NodeNewFacts, NodeNewCut
  <2>4. QED BY <1>1, <2>1, <2>3, PoolReplaced
<1>13. QED BY <1>5, <1>6, <1>7, <1>8, <1>9, <1>10, <1>11, <1>12 DEF Deq!SeqNext


\* The invariant of a sequence gives what it promises, of its pool too.
LEMMA SeqSoundFromInv == Deq!SeqInv => Deq!SeqSound
<1> SUFFICES ASSUME Deq!SeqInv PROVE Deq!SeqSound
  OBVIOUS
<1> DEFINE p == s1.pool  L == DOMAIN s1.node
<1>1. Deq!Linked(s1, s2) /\ Pool!Shape(p) /\ Pool!Cut(p, L) BY SamePool DEF Deq!SeqInv
<1>2. /\ \A b : Deq!Pool!LiveIn(b) = Within(L, b)
      /\ Deq!Pool!Recycled(p) = Pool!Recycled(p)
      /\ \A b : Deq!Pool!RecycledIn(p, b) = Pool!RecycledIn(p, b)
      /\ \A S : Deq!Pool!Cardinality(S) = Cardinality(S)
      /\ Deq!Pool!Take(p) = Pool!Take(p) /\ Deq!Pool!InTable(p) = Pool!InTable(p)
  BY SamePool DEF Deq!Pool!InTable, Pool!InTable, Deq!Pool!LiveIn, Within, Deq!Pool!Recycled, Pool!Recycled,
     Deq!Pool!RecycledIn, Pool!RecycledIn, Deq!Pool!Cardinality, Cardinality
<1>3. Deq!Pool!CounterSound BY <1>1, <1>2, ElementsSound DEF Deq!Pool!CounterSound
<1>4. Deq!Pool!FixedPoolSound BY <1>1, <1>2, <1>3, ElementsSound DEF Deq!Pool!FixedPoolSound
<1>5. QED BY <1>1, <1>4 DEF Deq!SeqSound

----------------------------------------------------------------------------
(* Buffer and stack. *)

\* The loop that doubles a size: for a size above zero it ends, with more than is asked
\* for and no less than it began with.
LEMMA DoublingExists ==
  ASSUME NEW beyond \in Nat
  PROVE  \E g \in [Nat -> Nat] : g = [c \in Nat |-> IF c <= beyond THEN g[2 * c] ELSE c]
<1> DEFINE Good(k) == \E g \in [Nat -> Nat] : \A c \in Nat :
                        c >= k => g[c] = IF c <= beyond THEN g[2 * c] ELSE c
           T == {k \in Nat : Good(k)}
<1>1. beyond + 1 \in T
  <2> DEFINE id == [c \in Nat |-> c]
  <2>1. id \in [Nat -> Nat] /\ \A c \in Nat : id[c] = c OBVIOUS
  <2> HIDE DEF id
  <2>2. \A c \in Nat : c >= beyond + 1 => id[c] = IF c <= beyond THEN id[2 * c] ELSE c BY <2>1
  <2>3. beyond + 1 \in Nat OBVIOUS
  <2>4. QED BY <2>1, <2>2, <2>3
<1>2. PICK k \in T : \A j \in T : k <= j
  <2>1. T \in SUBSET Nat /\ T # {} BY <1>1
  <2> HIDE DEF T
  <2>2. QED BY <2>1, LeastNat
<1>3. k \in Nat /\ Good(k) OBVIOUS
<1>4. PICK g \in [Nat -> Nat] : \A c \in Nat :
        c >= k => g[c] = IF c <= beyond THEN g[2 * c] ELSE c
  BY <1>3
<1>5. k <= 1
  <2> SUFFICES ASSUME k > 1 PROVE FALSE
    BY <1>3
  <2> DEFINE b == k - 1
             v == IF b <= beyond THEN g[2 * b] ELSE b
             h == [g EXCEPT ![b] = v]
  <2>1. b \in Nat /\ 2 * b \in Nat /\ 2 * b >= k /\ b < k BY <1>3
  <2>2. v \in Nat /\ h \in [Nat -> Nat] /\ h[b] = v /\ \A c \in Nat : c # b => h[c] = g[c]
    <3>1. v \in Nat BY <2>1
    <3> HIDE DEF v, b
    <3>2. QED BY <2>1, <3>1
  <2> HIDE DEF h
  <2>3. \A c \in Nat : c >= b => h[c] = IF c <= beyond THEN h[2 * c] ELSE c
    <3> TAKE c \in Nat
    <3> HAVE c >= b
    <3>1. CASE c = b
      <4>1. 2 * b # b /\ h[2 * b] = g[2 * b] BY <2>1, <2>2
      <4>2. QED BY <2>2, <3>1, <4>1
    <3>2. CASE c # b
      <4>1. c >= k /\ 2 * c \in Nat /\ 2 * c # b BY <1>3, <3>2
      <4>2. h[c] = g[c] /\ h[2 * c] = g[2 * c] BY <2>2, <3>2, <4>1
      <4>3. QED BY <1>4, <4>1, <4>2
    <3>3. QED BY <3>1, <3>2
  <2>4. b \in T BY <2>1, <2>2, <2>3
  <2>5. k <= b BY <1>2, <2>4
  <2>6. QED BY <2>1, <2>5, <1>3
<1>6. \A c \in Nat : g[c] = IF c <= beyond THEN g[2 * c] ELSE c
  <2> TAKE c \in Nat
  <2>1. CASE c >= k BY <1>4, <2>1
  <2>2. CASE c < k
    <3>1. c = 0 /\ 2 * c = 0 /\ c <= beyond BY <1>3, <1>5, <2>2
    <3>2. QED BY <3>1
  <2>3. QED BY <1>3, <2>1, <2>2
<1>7. g = [c \in Nat |-> IF c <= beyond THEN g[2 * c] ELSE c] BY <1>6
<1>8. QED BY <1>7

\* vlBufferWrite asks for more memory than it needs, and never for less than it has.
LEMMA DoubledEnough ==
  ASSUME NEW n \in Nat, n > 0, NEW beyond \in Nat
  PROVE  Stk!Doubled(n, beyond) \in Nat /\ Stk!Doubled(n, beyond) > beyond
         /\ Stk!Doubled(n, beyond) >= n
<1> DEFINE Rec(g) == g = [c \in Nat |-> IF c <= beyond THEN g[2 * c] ELSE c]
           f == CHOOSE g : Rec(g)
<1>1. Rec(f)
  <2>1. \E g : Rec(g) BY DoublingExists
  <2> HIDE DEF Rec
  <2>2. QED BY <2>1
<1>2. Stk!Doubled(n, beyond) = f[n] BY DEF Stk!Doubled
<1>3. \A c \in Nat : f[c] = IF c <= beyond THEN f[2 * c] ELSE c
  <2> HIDE DEF f
  <2>1. QED BY <1>1
<1> HIDE DEF f
<1> DEFINE Fine(c) == f[c] \in Nat /\ f[c] > beyond /\ f[c] >= c
           T == {d \in 0..beyond : \E c \in Nat : c > 0 /\ d = beyond - c /\ ~Fine(c)}
<1>4. T = {}
  <2> SUFFICES ASSUME T # {} PROVE FALSE
    OBVIOUS
  <2>1. PICK d \in T : \A e \in T : d <= e
    <3>1. T \in SUBSET Nat OBVIOUS
    <3> HIDE DEF T
    <3>2. QED BY <3>1, LeastNat
  <2>2. PICK c \in Nat : c > 0 /\ d = beyond - c /\ ~Fine(c) OBVIOUS
  <2>3. c <= beyond /\ 2 * c \in Nat /\ 2 * c > c /\ f[c] = f[2 * c] BY <1>3, <2>2
  <2>4. Fine(2 * c)
    <3>1. CASE 2 * c > beyond
      <4>1. f[2 * c] = 2 * c BY <1>3, <2>3, <3>1
      <4>2. QED BY <2>3, <3>1, <4>1
    <3>2. CASE 2 * c <= beyond
      <4>1. SUFFICES ASSUME ~Fine(2 * c) PROVE FALSE
        OBVIOUS
      <4>2. beyond - 2 * c \in 0..beyond /\ beyond - 2 * c < d BY <2>2, <2>3, <3>2
      <4>3. 2 * c > 0 /\ beyond - 2 * c \in T
        <5> HIDE DEF Fine
        <5>1. 2 * c > 0 BY <2>2
        <5>2. QED BY <2>3, <4>1, <4>2, <5>1
      <4>4. d <= beyond - 2 * c BY <2>1, <4>3
      <4>5. QED BY <2>2, <2>3, <4>2, <4>4
    <3>3. QED BY <2>3, <3>1, <3>2
  <2>5. Fine(c) BY <2>3, <2>4
  <2>6. QED BY <2>2, <2>5
<1>5. Fine(n)
  <2>1. CASE n > beyond BY <1>3, <2>1
  <2>2. CASE n <= beyond
    <3>1. beyond - n \in 0..beyond BY <2>2
    <3>2. beyond - n \notin T BY <1>4
    <3> HIDE DEF Fine
    <3>3. QED BY <3>1, <3>2
  <2>3. QED BY <2>1, <2>2
<1>6. QED BY <1>2, <1>5

\* Memory as a sequence: n cells that are told one by one.
LEMMA CellsOf ==
  ASSUME NEW n \in Nat, NEW f, f = [i \in 1..n |-> f[i]]
  PROVE  Stk!Cells(f) /\ Len(f) = n /\ DOMAIN f = 1..n
<1> DEFINE S == {f[i] : i \in 1..n}
<1>1. f \in [1..n -> S] OBVIOUS
<1> HIDE DEF S
<1>2. \A g \in [1..n -> S] : g \in Seq(S) /\ Len(g) = n OBVIOUS
<1>3. QED BY <1>1, <1>2 DEF Stk!Cells

\* The same read the other way.
LEMMA CellsAre ==
  ASSUME NEW f, Stk!Cells(f)
  PROVE  /\ Len(f) \in Nat /\ DOMAIN f = 1..Len(f) /\ f \in Seq({f[i] : i \in 1..Len(f)})
         /\ f = [i \in 1..Len(f) |-> f[i]]
<1> DEFINE S == {f[i] : i \in 1..Len(f)}
<1>1. Len(f) \in Nat /\ f = [i \in 1..Len(f) |-> f[i]] BY DEF Stk!Cells
<1>2. f \in [1..Len(f) -> S] BY <1>1
<1> HIDE DEF S
<1>3. f \in Seq(S)
  <2>1. \A n \in Nat : \A g \in [1..n -> S] : g \in Seq(S) OBVIOUS
  <2>2. QED BY <1>1, <1>2, <2>1
<1>4. QED BY <1>1, <1>3 DEF S

\* Part of a memory.
LEMMA PartOf ==
  ASSUME NEW f, Stk!Cells(f), NEW a \in Nat, NEW n \in Nat, a + n <= Len(f)
  PROVE  /\ Stk!Cells(SubSeq(f, a + 1, a + n)) /\ Len(SubSeq(f, a + 1, a + n)) = n
         /\ \A i \in 1..n : SubSeq(f, a + 1, a + n)[i] = f[a + i]
<1> DEFINE S == {f[i] : i \in 1..Len(f)}
           p == SubSeq(f, a + 1, a + n)
<1>1. f \in Seq(S) /\ Len(f) \in Nat BY CellsAre
<1> HIDE DEF S
<1>2. p \in Seq(S) /\ Len(p) = n /\ \A i \in 1..n : p[i] = f[a + i]
  <2>1. \A i \in (a + 1)..(a + n) : i \in 1..Len(f) BY <1>1
  <2>2. a + 1 <= a + n + 1 OBVIOUS
  <2>3. QED BY <1>1, <2>1, <2>2
<1>3. Stk!Cells(p)
  <2> HIDE DEF p
  <2>1. DOMAIN p = 1..n /\ p = [i \in 1..n |-> p[i]] BY <1>2
  <2>2. QED BY <2>1, CellsOf
<1>4. QED BY <1>2, <1>3

\* The first n cells.
LEMMA FrontCells ==
  ASSUME NEW f, Stk!Cells(f), NEW n \in Nat, n <= Len(f)
  PROVE  /\ Stk!Cells(SubSeq(f, 1, n)) /\ Len(SubSeq(f, 1, n)) = n
         /\ \A i \in 1..n : SubSeq(f, 1, n)[i] = f[i]
<1> DEFINE p == SubSeq(f, 0 + 1, 0 + n)
<1>1. 0 + n <= Len(f) /\ 0 \in Nat /\ 0 + 1 = 1 /\ 0 + n = n /\ \A i \in 1..n : 0 + i = i BY CellsAre
<1>2. Stk!Cells(p) /\ Len(p) = n /\ \A i \in 1..n : p[i] = f[0 + i]
  <2>1. 0 \in Nat /\ 0 + n <= Len(f) BY <1>1
  <2>2. QED BY <2>1, PartOf
<1>3. p = SubSeq(f, 1, n) BY <1>1
<1> HIDE DEF p
<1>4. QED BY <1>1, <1>2, <1>3

\* Two memories of n cells that agree cell by cell are the same.
LEMMA SameCells ==
  ASSUME NEW f, NEW g, Stk!Cells(f), Stk!Cells(g), Len(f) = Len(g),
         \A i \in 1..Len(f) : f[i] = g[i]
  PROVE  f = g
<1>1. f = [i \in 1..Len(f) |-> f[i]] /\ g = [i \in 1..Len(f) |-> g[i]] BY DEF Stk!Cells
<1>2. QED BY <1>1

\* A part is what it is said to be, cell by cell.
LEMMA PartIs ==
  ASSUME NEW f, Stk!Cells(f), NEW a \in Nat, NEW n \in Nat, a + n <= Len(f),
         NEW g, Stk!Cells(g), Len(g) = n, \A i \in 1..n : f[a + i] = g[i]
  PROVE  SubSeq(f, a + 1, a + n) = g
<1> DEFINE p == SubSeq(f, a + 1, a + n)
<1>1. Stk!Cells(p) /\ Len(p) = n /\ \A i \in 1..n : p[i] = f[a + i] BY PartOf
<1> HIDE DEF p
<1>2. p = g BY <1>1, SameCells
<1>3. QED BY <1>2 DEF p

\* The same part of two memories that agree up to a place behind it.
LEMMA SamePart ==
  ASSUME NEW d, NEW e, Stk!Cells(d), Stk!Cells(e), NEW o \in Nat, o <= Len(d), o <= Len(e),
         \A x \in 1..o : d[x] = e[x], NEW a \in Nat, NEW n \in Nat, a + n <= o
  PROVE  SubSeq(d, a + 1, a + n) = SubSeq(e, a + 1, a + n)
<1> DEFINE g == SubSeq(e, a + 1, a + n)
<1>1. Len(d) \in Nat /\ Len(e) \in Nat BY CellsAre
<1>2. a + n <= Len(d) /\ a + n <= Len(e) BY <1>1
<1>3. Stk!Cells(g) /\ Len(g) = n /\ \A i \in 1..n : g[i] = e[a + i] BY <1>2, PartOf
<1> HIDE DEF g
<1>4. \A i \in 1..n : d[a + i] = g[i]
  <2> TAKE i \in 1..n
  <2>1. a + i \in 1..o OBVIOUS
  <2>2. QED BY <1>3, <2>1
<1> DEFINE p == SubSeq(d, a + 1, a + n)
<1>5. Stk!Cells(p) /\ Len(p) = n /\ \A i \in 1..n : p[i] = d[a + i] BY <1>2, PartOf
<1> HIDE DEF p
<1>6. p = g BY <1>3, <1>4, <1>5, SameCells
<1>7. QED BY <1>6 DEF g, p

\* vlMemRealloc keeps what fits.
LEMMA SizedCells ==
  ASSUME NEW f, NEW n \in Nat
  PROVE  /\ Stk!Cells(Stk!Sized(f, n)) /\ Len(Stk!Sized(f, n)) = n
         /\ \A i \in 1..n : Stk!Sized(f, n)[i] = IF i <= Len(f) THEN f[i] ELSE Stk!Junk
<1> DEFINE g == Stk!Sized(f, n)
<1>1. g = [i \in 1..n |-> IF i <= Len(f) THEN f[i] ELSE Stk!Junk] BY DEF Stk!Sized
<1> HIDE DEF g
<1>2. \A i \in 1..n : g[i] = IF i <= Len(f) THEN f[i] ELSE Stk!Junk BY <1>1
<1>3. g = [i \in 1..n |-> g[i]] BY <1>1
<1>4. QED BY <1>2, <1>3, CellsOf DEF g

\* Cells put over others from a place on.
LEMMA SplicedCells ==
  ASSUME NEW f, Stk!Cells(f), NEW at \in Nat, NEW w, Stk!Cells(w)
  PROVE  /\ Stk!Cells(Stk!Splice(f, at, w)) /\ Len(Stk!Splice(f, at, w)) = Len(f)
         /\ \A i \in 1..Len(f) : Stk!Splice(f, at, w)[i] =
              IF i - at \in 1..Len(w) THEN w[i - at] ELSE f[i]
<1> DEFINE g == Stk!Splice(f, at, w)
<1>1. DOMAIN f = 1..Len(f) /\ Len(f) \in Nat /\ DOMAIN w = 1..Len(w) BY CellsAre
<1>2. g = [i \in 1..Len(f) |-> IF i - at \in 1..Len(w) THEN w[i - at] ELSE f[i]]
  BY <1>1 DEF Stk!Splice
<1> HIDE DEF g
<1>3. \A i \in 1..Len(f) : g[i] = IF i - at \in 1..Len(w) THEN w[i - at] ELSE f[i] BY <1>2
<1>4. g = [i \in 1..Len(f) |-> g[i]] BY <1>2
<1>5. QED BY <1>1, <1>3, <1>4, CellsOf DEF g

\* A write: memory grows if it must, the cells are put at the offset, the rest is kept.
LEMMA WriteFacts ==
  ASSUME NEW b, Stk!Buffer(b), NEW w, Stk!Cells(w)
  PROVE  LET B == Stk!BufferWrite(b, w) IN
         /\ Stk!InMemory(B) /\ B.offset = b.offset + Len(w)
         /\ B.size = IF B.offset > b.size THEN B.offset ELSE b.size
         /\ Len(B.data) >= Len(b.data) /\ B.offset <= Len(B.data)
         /\ \A i \in 1..Len(w) : B.data[b.offset + i] = w[i]
         /\ \A i \in 1..Len(b.data) : i <= b.offset \/ i > B.offset => B.data[i] = b.data[i]
<1> DEFINE m == Stk!Doubled(Len(b.data), Len(w) + b.offset)
           data == Stk!Sized(b.data, m)
           d == Stk!Splice(data, b.offset, w)
           o == b.offset + Len(w)
           z == IF o > b.size THEN o ELSE b.size
           B == [data |-> d, offset |-> o, size |-> z]
<1>1. /\ Len(b.data) \in Nat /\ Len(b.data) > 0 /\ Len(w) \in Nat
      /\ b.offset \in Nat /\ b.size \in Nat /\ b.size <= Len(b.data)
  BY CellsAre DEF Stk!Buffer, Stk!Capacity
<1>2. Stk!BufferWrite(b, w) = B BY DEF Stk!BufferWrite, Stk!Capacity
<1>3. m \in Nat /\ m > Len(w) + b.offset /\ m >= Len(b.data)
  <2>1. \A n, y \in Nat : n > 0 => /\ Stk!Doubled(n, y) \in Nat /\ Stk!Doubled(n, y) > y
                                   /\ Stk!Doubled(n, y) >= n
    BY DoubledEnough
  <2>2. Len(w) + b.offset \in Nat BY <1>1
  <2>3. QED BY <1>1, <2>1, <2>2
<1> HIDE DEF m
<1>4. /\ Stk!Cells(data) /\ Len(data) = m
      /\ \A i \in 1..m : data[i] = IF i <= Len(b.data) THEN b.data[i] ELSE Stk!Junk
  BY <1>3, SizedCells
<1> HIDE DEF data
<1>5. /\ Stk!Cells(d) /\ Len(d) = m
      /\ \A i \in 1..m : d[i] = IF i - b.offset \in 1..Len(w) THEN w[i - b.offset] ELSE data[i]
  <2>1. /\ Stk!Cells(d) /\ Len(d) = Len(data)
        /\ \A i \in 1..Len(data) : d[i] = IF i - b.offset \in 1..Len(w) THEN w[i - b.offset]
                                          ELSE data[i]
    <3>1. Stk!Cells(data) BY <1>4
    <3>2. b.offset \in Nat BY <1>1
    <3>3. Stk!Cells(w) OBVIOUS
    <3>4. QED BY <3>1, <3>2, <3>3, SplicedCells, Zenon
  <2> HIDE DEF d
  <2>2. QED BY <1>4, <2>1
<1> HIDE DEF d
<1>6. /\ o \in Nat /\ o <= m /\ z \in Nat /\ o <= z /\ z <= m BY <1>1, <1>3
<1>7. \A i \in 1..Len(w) : d[b.offset + i] = w[i]
  <2> TAKE i \in 1..Len(w)
  <2>1. b.offset + i \in 1..m /\ (b.offset + i) - b.offset = i BY <1>1, <1>3
  <2>2. QED BY <1>5, <2>1
<1>8. \A i \in 1..Len(b.data) : i <= b.offset \/ i > o => d[i] = b.data[i]
  <2> TAKE i \in 1..Len(b.data)
  <2> HAVE i <= b.offset \/ i > o
  <2>1. i \in 1..m /\ i - b.offset \notin 1..Len(w) /\ i <= Len(b.data) BY <1>1, <1>3
  <2>2. QED BY <1>4, <1>5, <2>1
<1> HIDE DEF o, z
<1>9. Stk!InMemory(B) BY <1>1, <1>3, <1>5, <1>6 DEF Stk!InMemory, Stk!Buffer, Stk!Capacity
<1>10. o = b.offset + Len(w) /\ z = (IF o > b.size THEN o ELSE b.size) BY DEF o, z
<1>11. /\ B.offset = b.offset + Len(w) /\ B.size = IF B.offset > b.size THEN B.offset ELSE b.size
       /\ Len(B.data) >= Len(b.data) /\ B.offset <= Len(B.data)
  BY <1>3, <1>5, <1>6, <1>10
<1>12. QED BY <1>2, <1>7, <1>8, <1>9, <1>11

\* A new memory holds nothing, and its offset is at its beginning.
LEMMA NewMemory ==
  ASSUME NEW f, NEW n \in Nat, n > 0, NEW b,
         b = [data |-> Stk!Sized(f, n), offset |-> 0, size |-> 0]
  PROVE  Stk!InMemory(b) /\ b.offset = 0 /\ b.size = 0
<1> DEFINE g == Stk!Sized(f, n)
<1>1. Stk!Cells(g) /\ Len(g) = n BY SizedCells
<1> HIDE DEF g
<1>2. /\ DOMAIN b = {"data", "offset", "size"} /\ b.data = g /\ b.offset = 0 /\ b.size = 0
  BY DEF g
<1>3. QED BY <1>1, <1>2 DEF Stk!InMemory, Stk!Buffer, Stk!Capacity

\* What the invariant of a buffer says, cell by cell.
LEMMA BufferHolds ==
  ASSUME Stk!BufInv
  PROVE  /\ Stk!Buffer(s1) /\ Stk!Cells(s2) /\ Len(s2) = s1.size
         /\ \A i \in 1..Len(s2) : s2[i] = Stk!Junk \/ s2[i] = s1.data[i]
         /\ Stk!Cells(s1.data) /\ Len(s1.data) \in Nat /\ s1.size \in Nat /\ s1.offset \in Nat
         /\ s1.size <= Len(s1.data)
<1>1. Stk!Buffer(s1) /\ Stk!Cells(s2) /\ Stk!BufferSound BY DEF Stk!BufInv
<1>2. DOMAIN s2 = 1..Len(s2) BY <1>1, CellsAre
<1>3. QED BY <1>1, <1>2, CellsAre DEF Stk!Buffer, Stk!BufferSound, Stk!Capacity

\* And how it is established.
LEMMA BufferKeeps ==
  ASSUME Stk!Buffer(s1'), Stk!Cells(s2'), Len(s2') = s1'.size,
         \A i \in 1..Len(s2') : s2'[i] = Stk!Junk \/ s2'[i] = s1'.data[i]
  PROVE  Stk!BufInv'
<1>1. DOMAIN s2' = 1..Len(s2') BY CellsAre
<1>2. s1'.size <= Len(s1'.data) BY DEF Stk!Buffer, Stk!Capacity
<1>3. QED BY <1>1, <1>2 DEF Stk!BufInv, Stk!BufferSound, Stk!Capacity

\* What is written is one value, over and over.
LEMMA WordCells ==
  ASSUME NEW n \in Nat, NEW mark
  PROVE  /\ Stk!Cells(Stk!Word(n, mark)) /\ Len(Stk!Word(n, mark)) = n
         /\ \A i \in 1..n : Stk!Word(n, mark)[i] = mark
<1> DEFINE w == Stk!Word(n, mark)
<1>1. w = [i \in 1..n |-> mark] BY DEF Stk!Word
<1> HIDE DEF w
<1>2. w = [i \in 1..n |-> w[i]] /\ \A i \in 1..n : w[i] = mark BY <1>1
<1>3. QED BY <1>2, CellsOf DEF w

\* vlBufferWrite.
LEMMA BufferWriteStep ==
  ASSUME Stk!BufInv, NEW n \in 1..MaxSize, NEW mark, Stk!Write(n, mark)
  PROVE  Stk!BufInv'
<1> DEFINE w == Stk!Word(n, mark)
           end == s1.offset + n
           room == IF end > Len(s2) THEN end ELSE Len(s2)
           old == Stk!Sized(s2, room)
           new == Stk!Splice(old, s1.offset, w)
<1>1. n \in Nat /\ n > 0 BY StorageAssumption
<1>2. s1' = Stk!BufferWrite(s1, w) /\ s2' = new BY DEF Stk!Write
<1>3. Stk!Cells(w) /\ Len(w) = n BY <1>1, WordCells
<1> HIDE DEF w
<1>4. /\ Stk!Buffer(s1) /\ Stk!Cells(s2) /\ Len(s2) = s1.size
      /\ \A i \in 1..Len(s2) : s2[i] = Stk!Junk \/ s2[i] = s1.data[i]
      /\ Len(s1.data) \in Nat /\ s1.size \in Nat /\ s1.offset \in Nat
      /\ s1.size <= Len(s1.data)
  BY BufferHolds
<1>5. /\ Stk!Buffer(s1') /\ s1'.offset = s1.offset + n
      /\ s1'.size = IF s1'.offset > s1.size THEN s1'.offset ELSE s1.size
      /\ \A i \in 1..n : s1'.data[s1.offset + i] = w[i]
      /\ \A i \in 1..Len(s1.data) : i <= s1.offset \/ i > s1'.offset => s1'.data[i] = s1.data[i]
  <2>1. LET B == Stk!BufferWrite(s1, w) IN
         /\ Stk!InMemory(B) /\ B.offset = s1.offset + Len(w)
         /\ B.size = IF B.offset > s1.size THEN B.offset ELSE s1.size
         /\ \A i \in 1..Len(w) : B.data[s1.offset + i] = w[i]
         /\ \A i \in 1..Len(s1.data) : i <= s1.offset \/ i > B.offset => B.data[i] = s1.data[i]
    BY <1>3, <1>4, WriteFacts
  <2>2. QED BY <1>2, <1>3, <2>1 DEF Stk!InMemory
<1>6. room \in Nat /\ room = s1'.size /\ end \in Nat /\ end = s1'.offset BY <1>1, <1>4, <1>5
<1> HIDE DEF room
<1>7. /\ Stk!Cells(old) /\ Len(old) = room
      /\ \A i \in 1..room : old[i] = IF i <= Len(s2) THEN s2[i] ELSE Stk!Junk
  BY <1>6, SizedCells
<1> HIDE DEF old
<1>8. /\ Stk!Cells(new) /\ Len(new) = room
      /\ \A i \in 1..room : new[i] = IF i - s1.offset \in 1..n THEN w[i - s1.offset] ELSE old[i]
  <2>1. /\ Stk!Cells(new) /\ Len(new) = Len(old)
        /\ \A i \in 1..Len(old) : new[i] = IF i - s1.offset \in 1..Len(w) THEN w[i - s1.offset]
                                           ELSE old[i]
    <3>1. Stk!Cells(old) /\ s1.offset \in Nat BY <1>4, <1>7
    <3>2. QED BY <1>3, <3>1, SplicedCells, Zenon
  <2> HIDE DEF new
  <2>2. QED BY <1>3, <1>7, <2>1
<1> HIDE DEF new, end
<1>9. \A i \in 1..room : new[i] = Stk!Junk \/ new[i] = s1'.data[i]
  <2> TAKE i \in 1..room
  <2>1. CASE i - s1.offset \in 1..n
    <3> DEFINE j == i - s1.offset
    <3>1. j \in 1..n /\ s1.offset + j = i BY <1>4, <1>6, <2>1
    <3>2. s1'.data[s1.offset + j] = w[j] BY <1>5, <3>1
    <3>3. new[i] = w[j] BY <1>8, <2>1
    <3>4. QED BY <3>1, <3>2, <3>3
  <2>2. CASE i - s1.offset \notin 1..n
    <3>1. i <= s1.offset \/ i > s1'.offset BY <1>1, <1>4, <1>5, <1>6, <2>2
    <3>2. CASE i <= s1.size
      <4>1. i \in 1..Len(s1.data) /\ i \in 1..Len(s2) BY <1>4, <1>6, <3>2
      <4>2. s1'.data[i] = s1.data[i] BY <1>5, <3>1, <4>1
      <4>3. new[i] = s2[i] BY <1>4, <1>7, <1>8, <2>2, <3>2
      <4>4. QED BY <1>4, <4>1, <4>2, <4>3
    <3>3. CASE ~(i <= s1.size) BY <1>4, <1>7, <1>8, <2>2, <3>3
    <3>4. QED BY <3>2, <3>3
  <2>3. QED BY <2>1, <2>2
<1>10. QED BY <1>2, <1>5, <1>6, <1>8, <1>9, BufferKeeps

\* No cells at all.
LEMMA NoCells == Stk!Cells(<< >>) /\ Len(<< >>) = 0
<1>1. << >> = [i \in 1..0 |-> << >>[i]] OBVIOUS
<1>2. QED BY <1>1, CellsOf

\* vlBufferRead, vlBufferSeek and a copy from the buffer move the offset.
LEMMA OffsetMoves ==
  ASSUME Stk!BufInv, NEW o \in Nat, s1' = [s1 EXCEPT !.offset = o], s2' = s2
  PROVE  Stk!BufInv'
<1>1. /\ Stk!Buffer(s1) /\ Stk!Cells(s2) /\ Len(s2) = s1.size
      /\ \A i \in 1..Len(s2) : s2[i] = Stk!Junk \/ s2[i] = s1.data[i]
  BY BufferHolds
<1>2. /\ DOMAIN s1' = {"data", "offset", "size"} /\ s1'.data = s1.data /\ s1'.offset = o
      /\ s1'.size = s1.size
  BY <1>1 DEF Stk!Buffer
<1>3. Stk!Buffer(s1') BY <1>1, <1>2 DEF Stk!Buffer, Stk!Capacity
<1>4. QED BY <1>1, <1>2, <1>3, BufferKeeps

\* vlBufferRead.
LEMMA BufferReadStep ==
  ASSUME Stk!BufInv, NEW n \in 1..MaxSize, Stk!ReadSome(n)
  PROVE  Stk!BufInv'
<1>1. n \in Nat BY StorageAssumption
<1>2. s1.size \in Nat /\ s1.offset \in Nat BY BufferHolds
<1> DEFINE o == s1.offset + Stk!Readable(s1, n)
<1>3. o \in Nat BY <1>1, <1>2 DEF Stk!Readable
<1>4. s1' = [s1 EXCEPT !.offset = o] /\ s2' = s2 BY DEF Stk!ReadSome
<1> HIDE DEF o
<1>5. QED BY <1>3, <1>4, OffsetMoves

\* vlBufferSeek.
LEMMA BufferSeekStep ==
  ASSUME Stk!BufInv, NEW to \in 0..Stk!Capacity(s1), Stk!Seek(to)
  PROVE  Stk!BufInv'
<1>1. to \in Nat OBVIOUS
<1>2. s1' = [s1 EXCEPT !.offset = to] /\ s2' = s2 BY DEF Stk!Seek
<1>3. QED BY <1>1, <1>2, OffsetMoves

\* A buffer with nothing in it is in order.
LEMMA NothingWritten ==
  ASSUME Stk!Buffer(s1'), s1'.size = 0, s2' = << >>
  PROVE  Stk!BufInv'
<1>1. /\ Stk!Cells(s2') /\ Len(s2') = s1'.size
      /\ \A i \in 1..Len(s2') : s2'[i] = Stk!Junk \/ s2'[i] = s1'.data[i]
  BY NoCells
<1>2. QED BY <1>1, BufferKeeps

\* vlBufferClear.
LEMMA BufferClearStep ==
  ASSUME Stk!BufInv, Stk!BufferClear
  PROVE  Stk!BufInv'
<1> DEFINE z == [i \in DOMAIN s1.data |-> 0]
<1>1. Stk!Buffer(s1) /\ Stk!Cells(s1.data) /\ Len(s1.data) \in Nat BY BufferHolds
<1>2. DOMAIN s1.data = 1..Len(s1.data) BY <1>1, CellsAre
<1>3. Stk!Cells(z) /\ Len(z) = Len(s1.data)
  <2>1. z = [i \in 1..Len(s1.data) |-> z[i]] BY <1>2
  <2> HIDE DEF z
  <2>2. QED BY <1>1, <2>1, CellsOf
<1>4. s1' = [data |-> z, offset |-> 0, size |-> 0] /\ s2' = << >> BY DEF Stk!BufferClear
<1> HIDE DEF z
<1>5. /\ DOMAIN s1' = {"data", "offset", "size"} /\ s1'.data = z /\ s1'.offset = 0 /\ s1'.size = 0
  BY <1>4
<1>6. Stk!Buffer(s1') BY <1>1, <1>3, <1>5 DEF Stk!Buffer, Stk!Capacity
<1>7. QED BY <1>4, <1>5, <1>6, NothingWritten

\* vlBufferReset, and a new buffer.
LEMMA BufferResetStep ==
  ASSUME Stk!BufInv, Stk!BufferReset(BufferSize)
  PROVE  Stk!BufInv'
<1>1. s1' = [data |-> Stk!Sized(s1.data, BufferSize), offset |-> 0, size |-> 0] /\ s2' = << >>
  BY DEF Stk!BufferReset
<1>2. BufferSize \in Nat /\ BufferSize > 0 BY StorageAssumption
<1>3. Stk!Buffer(s1') /\ s1'.size = 0 BY <1>1, <1>2, NewMemory DEF Stk!InMemory
<1>4. QED BY <1>1, <1>3, NothingWritten

\* vlBufferShrinkToFit keeps everything written.
LEMMA ShrinkStep ==
  ASSUME Stk!BufInv, Stk!ShrinkToFit
  PROVE  Stk!BufInv'
<1>1. /\ Stk!Buffer(s1) /\ Stk!Cells(s2) /\ Len(s2) = s1.size
      /\ \A i \in 1..Len(s2) : s2[i] = Stk!Junk \/ s2[i] = s1.data[i]
      /\ Len(s1.data) \in Nat /\ s1.size \in Nat /\ s1.offset \in Nat
      /\ s1.size <= Len(s1.data)
  BY BufferHolds
<1>2. s2' = s2 BY DEF Stk!ShrinkToFit
<1>3. CASE s1.size > 0
  <2> DEFINE d == Stk!Sized(s1.data, s1.size)
  <2>1. s1' = [s1 EXCEPT !.data = d] BY <1>3 DEF Stk!ShrinkToFit
  <2>2. /\ Stk!Cells(d) /\ Len(d) = s1.size
        /\ \A i \in 1..s1.size : d[i] = IF i <= Len(s1.data) THEN s1.data[i] ELSE Stk!Junk
    BY <1>1, SizedCells
  <2> HIDE DEF d
  <2>3. /\ DOMAIN s1' = {"data", "offset", "size"} /\ s1'.data = d /\ s1'.offset = s1.offset
        /\ s1'.size = s1.size
    BY <1>1, <2>1 DEF Stk!Buffer
  <2>4. Stk!Buffer(s1') BY <1>1, <1>3, <2>2, <2>3 DEF Stk!Buffer, Stk!Capacity
  <2>5. \A i \in 1..Len(s2') : s2'[i] = Stk!Junk \/ s2'[i] = s1'.data[i]
    BY <1>1, <1>2, <2>2, <2>3
  <2>6. QED BY <1>1, <1>2, <2>3, <2>4, <2>5, BufferKeeps
<1>4. CASE ~(s1.size > 0)
  <2>1. s1' = [s1 EXCEPT !.data = s1.data] BY <1>4 DEF Stk!ShrinkToFit
  <2>2. /\ DOMAIN s1' = {"data", "offset", "size"} /\ s1'.data = s1.data
        /\ s1'.offset = s1.offset /\ s1'.size = s1.size
    BY <1>1, <2>1 DEF Stk!Buffer
  <2>3. Stk!Buffer(s1') BY <1>1, <2>2 DEF Stk!Buffer, Stk!Capacity
  <2>4. QED BY <1>1, <1>2, <2>2, <2>3, BufferKeeps
<1>5. QED BY <1>3, <1>4

\* The cells from an offset on; there is Junk behind the last.
LEMMA CellsAtFacts ==
  ASSUME NEW f, NEW o \in Nat, NEW n \in Nat
  PROVE  /\ Stk!Cells(Stk!CellsAt(f, o, n)) /\ Len(Stk!CellsAt(f, o, n)) = n
         /\ \A i \in 1..n : Stk!CellsAt(f, o, n)[i] =
              IF o + i <= Len(f) THEN f[o + i] ELSE Stk!Junk
<1> DEFINE w == Stk!CellsAt(f, o, n)
<1>1. w = [i \in 1..n |-> IF o + i <= Len(f) THEN f[o + i] ELSE Stk!Junk] BY DEF Stk!CellsAt
<1> HIDE DEF w
<1>2. \A i \in 1..n : w[i] = IF o + i <= Len(f) THEN f[o + i] ELSE Stk!Junk BY <1>1
<1>3. w = [i \in 1..n |-> w[i]] BY <1>1
<1>4. QED BY <1>2, <1>3, CellsOf DEF w

\* vlBufferCopy: the new buffer holds the cells that stood at the offset, and the offset
\* of the source moves on.
LEMMA CopyStep ==
  ASSUME Stk!BufInv, NEW n \in 1..MaxSize, Stk!CopyRest(n)
  PROVE  Stk!BufInv'
<1> DEFINE len == Stk!CopyLength(s1, n)
           w == Stk!CellsAt(s1.data, s1.offset, len)
           fresh == Stk!NewBuffer(BufferSize)
           rest == Stk!CellsAt(s2, s1.offset, len)
<1>1. n \in Nat /\ n > 0 BY StorageAssumption
<1>2. /\ Stk!Cells(s2) /\ Len(s2) = s1.size
      /\ \A i \in 1..Len(s2) : s2[i] = Stk!Junk \/ s2[i] = s1.data[i]
      /\ s1.size \in Nat /\ s1.offset \in Nat
      /\ Len(s1.data) \in Nat /\ s1.size <= Len(s1.data)
  BY BufferHolds
<1>3. len \in Nat /\ len > 0 BY <1>1, <1>2 DEF Stk!CopyLength
<1>4. \/ s1' = Stk!BufferWrite(fresh, w) /\ s2' = rest
      \/ s1' = [s1 EXCEPT !.offset = s1.offset + len] /\ s2' = s2
  BY DEF Stk!CopyRest, Stk!BufferCopy
<1> HIDE DEF len
<1>5. CASE s1' = [s1 EXCEPT !.offset = s1.offset + len] /\ s2' = s2
  <2>1. s1.offset + len \in Nat BY <1>2, <1>3
  <2>2. QED BY <1>5, <2>1, OffsetMoves
<1>6. CASE s1' = Stk!BufferWrite(fresh, w) /\ s2' = rest
  <2>1. /\ Stk!Cells(w) /\ Len(w) = len
        /\ \A i \in 1..len : w[i] = IF s1.offset + i <= Len(s1.data) THEN s1.data[s1.offset + i]
                                      ELSE Stk!Junk
    BY <1>2, <1>3, CellsAtFacts
  <2>2. /\ Stk!Cells(rest) /\ Len(rest) = len
        /\ \A i \in 1..len : rest[i] = IF s1.offset + i <= Len(s2) THEN s2[s1.offset + i]
                                         ELSE Stk!Junk
    BY <1>2, <1>3, CellsAtFacts
  <2> HIDE DEF w, rest
  <2>3. Stk!Buffer(fresh) /\ fresh.offset = 0 /\ fresh.size = 0
    <3>1. fresh = [data |-> Stk!Sized(<< >>, BufferSize), offset |-> 0, size |-> 0]
      BY DEF Stk!NewBuffer
    <3>2. BufferSize \in Nat /\ BufferSize > 0 BY StorageAssumption
    <3> HIDE DEF fresh
    <3>3. QED BY <3>1, <3>2, NewMemory DEF Stk!InMemory
  <2> HIDE DEF fresh
  <2>4. Stk!Buffer(s1') /\ s1'.size = len /\ \A i \in 1..len : s1'.data[i] = w[i]
    <3>1. LET B == Stk!BufferWrite(fresh, w) IN
           /\ Stk!InMemory(B) /\ B.offset = fresh.offset + Len(w)
           /\ B.size = IF B.offset > fresh.size THEN B.offset ELSE fresh.size
           /\ \A i \in 1..Len(w) : B.data[fresh.offset + i] = w[i]
      BY <2>1, <2>3, WriteFacts
    <3>2. \A i \in 1..len : 0 + i = i BY <1>3
    <3>3. QED BY <1>3, <1>6, <2>1, <2>3, <3>1, <3>2 DEF Stk!InMemory
  <2>5. \A i \in 1..len : rest[i] = Stk!Junk \/ rest[i] = w[i]
    <3> TAKE i \in 1..len
    <3>1. CASE s1.offset + i <= Len(s2)
      <4>1. s1.offset + i \in 1..Len(s2) /\ s1.offset + i <= Len(s1.data) BY <1>2, <1>3, <3>1
      <4>2. QED BY <1>2, <2>1, <2>2, <3>1, <4>1
    <3>2. CASE ~(s1.offset + i <= Len(s2)) BY <2>2, <3>2
    <3>3. QED BY <3>1, <3>2
  <2>6. QED BY <1>6, <2>2, <2>4, <2>5, BufferKeeps
<1>7. QED BY <1>4, <1>5, <1>6

\* A buffer starts empty.
LEMMA BufStart == Stk!BufInit => Stk!BufInv
<1> SUFFICES ASSUME Stk!BufInit PROVE Stk!BufInv
  OBVIOUS
<1>1. s1 = [data |-> Stk!Sized(<< >>, BufferSize), offset |-> 0, size |-> 0] /\ s2 = << >>
  BY DEF Stk!BufInit, Stk!NewBuffer
<1>2. BufferSize \in Nat /\ BufferSize > 0 BY StorageAssumption
<1>3. Stk!Buffer(s1) /\ s1.size = 0 BY <1>1, <1>2, NewMemory DEF Stk!InMemory
<1>4. s1.size <= Stk!Capacity(s1) BY <1>3 DEF Stk!Buffer
<1>5. QED BY <1>1, <1>3, <1>4, NoCells DEF Stk!BufInv, Stk!BufferSound

\* Every operation keeps the invariant of a buffer.
LEMMA BufStep ==
  ASSUME Stk!BufInv, Stk!BufNext \/ UNCHANGED Stk!bufVars
  PROVE  Stk!BufInv'
<1>1. ASSUME NEW n \in 1..MaxSize, NEW mark \in Items, Stk!Write(n, mark) PROVE Stk!BufInv'
  BY <1>1, BufferWriteStep
<1>2. ASSUME NEW n \in 1..MaxSize, Stk!ReadSome(n) \/ Stk!CopyRest(n) PROVE Stk!BufInv'
  BY <1>2, BufferReadStep, CopyStep
<1>3. ASSUME NEW to \in 0..Stk!Capacity(s1), Stk!Seek(to) PROVE Stk!BufInv'
  BY <1>3, BufferSeekStep
<1>4. CASE Stk!BufferClear BY <1>4, BufferClearStep
<1>5. CASE Stk!BufferReset(BufferSize) BY <1>5, BufferResetStep
<1>6. CASE Stk!ShrinkToFit BY <1>6, ShrinkStep
<1>7. CASE UNCHANGED Stk!bufVars
  <2>1. s1' = s1 /\ s2' = s2 BY <1>7 DEF Stk!bufVars
  <2>2. QED BY <2>1 DEF Stk!BufInv, Stk!BufferSound
<1>8. QED BY <1>1, <1>2, <1>3, <1>4, <1>5, <1>6, <1>7 DEF Stk!BufNext

\* What the invariant says of one level.
LEMMA LevelFacts ==
  ASSUME Stk!StackInv, NEW i \in 1..Len(s4)
  PROVE  /\ s4[i].at \in Nat /\ Stk!Cells(s4[i].cells) /\ Len(s4[i].cells) \in Nat
         /\ Stk!LevelAt(s4, i) = s4[i].at
         /\ Stk!LevelEnd(s4, i) = s4[i].at + 1 + Len(s4[i].cells)
         /\ s4[i].at + 1 + Len(s4[i].cells) <= s3.buffer.offset
         /\ \A j \in 1..Len(s4) : i < j => s4[i].at + 1 + Len(s4[i].cells) <= s4[j].at
         /\ s4[i].at = Stk!LevelEnd(s4, i - 1)
         /\ s3.buffer.data[s4[i].at + 1] =
              [size |-> Len(s4[i].cells), previousOffset |-> Stk!LevelAt(s4, i - 1)]
         /\ SubSeq(s3.buffer.data, s4[i].at + 1 + 1, s4[i].at + 1 + Len(s4[i].cells)) = s4[i].cells
<1>1. DOMAIN s4 = 1..Len(s4) BY CellsAre DEF Stk!StackInv
<1>2. /\ s4[i].at \in Nat /\ Stk!Cells(s4[i].cells)
      /\ Stk!LevelEnd(s4, i) <= s3.buffer.offset
      /\ \A j \in 1..Len(s4) : i < j => Stk!LevelEnd(s4, i) <= s4[j].at
  BY <1>1 DEF Stk!StackInv, Stk!Apart
<1>3. Stk!LevelAt(s4, i) = s4[i].at /\ Stk!LevelEnd(s4, i) = s4[i].at + 1 + Len(s4[i].cells)
  BY <1>1 DEF Stk!LevelAt, Stk!LevelEnd, Stk!Header
<1>4. /\ s4[i].at = Stk!LevelEnd(s4, i - 1)
      /\ s3.buffer.data[s4[i].at + 1] =
           [size |-> Len(s4[i].cells), previousOffset |-> Stk!LevelAt(s4, i - 1)]
      /\ SubSeq(s3.buffer.data, s4[i].at + 1 + 1, s4[i].at + 1 + Len(s4[i].cells)) = s4[i].cells
  <2>1. /\ s4[i].at = Stk!LevelEnd(s4, i - 1)
        /\ s3.buffer.data[s4[i].at + 1] =
             [size |-> Len(s4[i].cells), previousOffset |-> Stk!LevelAt(s4, i - 1)]
        /\ Stk!Sample(s3, s4[i].at) = s4[i].cells
    BY <1>1 DEF Stk!StackInv, Stk!StackSound, Stk!Stacked
  <2>2. Stk!SampleSize(s3, s4[i].at) = Len(s4[i].cells) BY <2>1 DEF Stk!SampleSize
  <2>3. QED BY <2>1, <2>2 DEF Stk!Sample, Stk!Header
<1>5. Len(s4[i].cells) \in Nat BY <1>2, CellsAre
<1>6. QED BY <1>2, <1>3, <1>4, <1>5

\* And of the stack as a whole.
LEMMA StackFacts ==
  ASSUME Stk!StackInv
  PROVE  /\ DOMAIN s3 = {"buffer", "headOffset", "depth"}
         /\ Stk!InMemory(s3.buffer) /\ Stk!Cells(s3.buffer.data) /\ Len(s3.buffer.data) \in Nat
         /\ s3.buffer.offset \in Nat /\ s3.buffer.size \in Nat
         /\ s3.buffer.offset <= s3.buffer.size /\ s3.buffer.size <= Len(s3.buffer.data)
         /\ Stk!Cells(s4) /\ Len(s4) \in Nat /\ DOMAIN s4 = 1..Len(s4)
         /\ s3.depth = Len(s4) /\ s3.headOffset = Stk!LevelAt(s4, Len(s4))
         /\ s3.buffer.offset = Stk!LevelEnd(s4, Len(s4))
  BY CellsAre DEF Stk!StackInv, Stk!StackSound, Stk!Stacked, Stk!InMemory, Stk!Buffer, Stk!Capacity

\* The i-th level of c lies in the cells d: its header, then its cells.
Level(c, d, i) ==
    /\ DOMAIN c[i] = {"at", "cells"} /\ c[i].at \in Nat /\ Stk!Cells(c[i].cells)
    /\ c[i].at = Stk!LevelEnd(c, i - 1)
    /\ d[c[i].at + 1] = [size |-> Len(c[i].cells), previousOffset |-> Stk!LevelAt(c, i - 1)]
    /\ SubSeq(d, c[i].at + 1 + 1, c[i].at + 1 + Len(c[i].cells)) = c[i].cells

\* How the invariant is established, level by level.
LEMMA StackKeeps ==
  ASSUME DOMAIN s3' = {"buffer", "headOffset", "depth"},
         Stk!InMemory(s3'.buffer), Stk!Cells(s4'),
         s3'.depth = Len(s4'), s3'.headOffset = Stk!LevelAt(s4', Len(s4')),
         s3'.buffer.offset = Stk!LevelEnd(s4', Len(s4')),
         \A i \in 1..Len(s4') :
           /\ Level(s4', s3'.buffer.data, i)
           /\ Stk!LevelEnd(s4', i) <= s3'.buffer.offset
           /\ \A j \in 1..Len(s4') : i < j => Stk!LevelEnd(s4', i) <= s4'[j].at
  PROVE  Stk!StackInv'
<1>1. DOMAIN s4' = 1..Len(s4') BY CellsAre
<1>2. Stk!Apart(s4', s3'.buffer.offset) BY <1>1 DEF Stk!Apart, Level
<1>3. \A i \in 1..Len(s4') : Stk!Sample(s3', s4'[i].at) = s4'[i].cells
  <2> SUFFICES ASSUME NEW i \in 1..Len(s4') PROVE Stk!Sample(s3', s4'[i].at) = s4'[i].cells
    OBVIOUS
  <2>1. /\ s3'.buffer.data[s4'[i].at + 1].size = Len(s4'[i].cells)
        /\ SubSeq(s3'.buffer.data, s4'[i].at + 1 + 1, s4'[i].at + 1 + Len(s4'[i].cells))
             = s4'[i].cells
    <3>1. Level(s4', s3'.buffer.data, i) OBVIOUS
    <3>2. QED BY <3>1 DEF Level
  <2>2. Stk!SampleSize(s3', s4'[i].at) = Len(s4'[i].cells) BY <2>1 DEF Stk!SampleSize
  <2>3. QED BY <2>1, <2>2 DEF Stk!Sample, Stk!Header
<1>4. Stk!Stacked(s3', s4') BY <1>1, <1>3 DEF Stk!Stacked, Level
<1>5. QED BY <1>2, <1>4 DEF Stk!StackInv, Stk!StackSound

\* Levels are where they were in a list that agrees with theirs.
LEMMA LevelsAgree ==
  ASSUME NEW c, NEW k, Stk!Cells(c), Stk!Cells(k), NEW m \in Nat, m <= Len(c), m <= Len(k),
         \A i \in 1..m : k[i] = c[i]
  PROVE  \A i \in 0..m : Stk!LevelAt(k, i) = Stk!LevelAt(c, i) /\ Stk!LevelEnd(k, i) = Stk!LevelEnd(c, i)
<1>1. DOMAIN c = 1..Len(c) /\ DOMAIN k = 1..Len(k) /\ Len(c) \in Nat /\ Len(k) \in Nat BY CellsAre
<1> TAKE i \in 0..m
<1>2. CASE i = 0
  <2>1. 0 \notin DOMAIN c /\ 0 \notin DOMAIN k BY <1>1
  <2>2. QED BY <1>2, <2>1 DEF Stk!LevelAt, Stk!LevelEnd
<1>3. CASE i # 0
  <2>1. i \in 1..m /\ i \in DOMAIN c /\ i \in DOMAIN k BY <1>1, <1>3
  <2>2. QED BY <2>1 DEF Stk!LevelAt, Stk!LevelEnd
<1>4. QED BY <1>2, <1>3

\* A level is as it was if the memory up to its end is.
LEMMA LevelStays ==
  ASSUME Stk!StackInv, NEW i \in 1..Len(s4), NEW k, NEW d, Stk!Cells(d),
         s3.buffer.offset <= Len(d),
         \A x \in 1..s3.buffer.offset : d[x] = s3.buffer.data[x],
         k[i] = s4[i], Stk!LevelAt(k, i - 1) = Stk!LevelAt(s4, i - 1),
         Stk!LevelEnd(k, i - 1) = Stk!LevelEnd(s4, i - 1)
  PROVE  Level(k, d, i)
<1> DEFINE at == s4[i].at  n == Len(s4[i].cells)  e == s3.buffer.data
<1>1. /\ at \in Nat /\ Stk!Cells(s4[i].cells) /\ n \in Nat
      /\ at + 1 + n <= s3.buffer.offset
      /\ at = Stk!LevelEnd(s4, i - 1)
      /\ e[at + 1] = [size |-> n, previousOffset |-> Stk!LevelAt(s4, i - 1)]
      /\ SubSeq(e, at + 1 + 1, at + 1 + n) = s4[i].cells
  BY LevelFacts
<1>2. DOMAIN s4[i] = {"at", "cells"}
  <2>1. i \in DOMAIN s4 BY StackFacts
  <2>2. QED BY <2>1 DEF Stk!StackInv, Stk!Apart
<1>3. /\ Stk!Cells(e) /\ Len(e) \in Nat /\ s3.buffer.offset <= Len(e) /\ s3.buffer.offset \in Nat
  BY StackFacts
<1> DEFINE o == s3.buffer.offset
<1> HIDE DEF e, at, n, o
<1>0. /\ at \in Nat /\ n \in Nat /\ o \in Nat /\ Len(e) \in Nat /\ Len(d) \in Nat
      /\ at + 1 + n <= o /\ o <= Len(e) /\ o <= Len(d)
  <2>1. Len(d) \in Nat BY CellsAre
  <2>2. QED BY <1>1, <1>3, <2>1 DEF o
<1>4. d[at + 1] = e[at + 1]
  <2>1. at + 1 \in 1..o BY <1>0
  <2>2. QED BY <2>1 DEF e, o
<1>5. SubSeq(d, at + 1 + 1, at + 1 + n) = s4[i].cells
  <2>1. at + 1 \in Nat /\ (at + 1) + n <= o BY <1>0
  <2>2. \A x \in 1..o : d[x] = e[x] BY DEF o, e
  <2>3. SubSeq(d, (at + 1) + 1, (at + 1) + n) = SubSeq(e, (at + 1) + 1, (at + 1) + n)
    <3>1. Stk!Cells(d) /\ Stk!Cells(e) BY <1>3
    <3>2. QED BY <1>0, <2>1, <2>2, <3>1, SamePart
  <2>4. QED BY <1>1, <2>3
<1>6. QED BY <1>1, <1>2, <1>4, <1>5 DEF Level, at, n

\* A header and one value over and over.
LEMMA HeadedCells ==
  ASSUME NEW h, NEW n \in Nat, NEW mark
  PROVE  LET w == <<h>> \o Stk!Word(n, mark) IN
         Stk!Cells(w) /\ Len(w) = n + 1 /\ w[1] = h /\ \A i \in 1..n : w[i + 1] = mark
<1> DEFINE u == Stk!Word(n, mark)  w == <<h>> \o u
           S == {u[i] : i \in 1..n} \cup {h}
<1>1. Stk!Cells(u) /\ Len(u) = n /\ \A i \in 1..n : u[i] = mark BY WordCells
<1> HIDE DEF u
<1>2. u \in Seq(S) /\ <<h>> \in Seq(S)
  <2>1. u = [i \in 1..n |-> u[i]] BY <1>1, CellsAre
  <2>2. u \in [1..n -> S] BY <2>1
  <2>3. h \in S OBVIOUS
  <2> HIDE DEF S
  <2>4. QED BY <2>2, <2>3
<1> HIDE DEF S
<1>3. w \in Seq(S) /\ Len(w) = n + 1 /\ w[1] = h /\ \A i \in 1..n : w[i + 1] = u[i]
  BY <1>1, <1>2
<1> HIDE DEF w
<1>4. w = [i \in 1..(n + 1) |-> w[i]] BY <1>3
<1>5. Stk!Cells(w) BY <1>3, <1>4, CellsOf
<1>6. QED BY <1>1, <1>3, <1>5 DEF w, u

\* One more level, and one less.
LEMMA LevelAppended ==
  ASSUME NEW c, Stk!Cells(c), NEW x
  PROVE  /\ Stk!Cells(Append(c, x)) /\ Len(Append(c, x)) = Len(c) + 1
         /\ Append(c, x)[Len(c) + 1] = x /\ \A i \in 1..Len(c) : Append(c, x)[i] = c[i]
<1> DEFINE S == {c[i] : i \in 1..Len(c)} \cup {x}
           k == Append(c, x)
<1>1. c \in Seq({c[i] : i \in 1..Len(c)}) /\ Len(c) \in Nat BY CellsAre
<1>2. c \in Seq(S) /\ x \in S
  <2>1. c = [i \in 1..Len(c) |-> c[i]] BY CellsAre
  <2>2. c \in [1..Len(c) -> S] /\ x \in S BY <2>1
  <2> HIDE DEF S
  <2>3. QED BY <1>1, <2>2
<1> HIDE DEF S
<1>3. /\ k \in Seq(S) /\ Len(k) = Len(c) + 1 /\ k[Len(c) + 1] = x
      /\ \A i \in 1..Len(c) : k[i] = c[i]
  BY <1>1, <1>2
<1> HIDE DEF k
<1>4. k = [i \in 1..(Len(c) + 1) |-> k[i]] BY <1>1, <1>3
<1>5. Len(c) + 1 \in Nat BY <1>1
<1>6. Stk!Cells(k) BY <1>4, <1>5, CellsOf
<1>7. QED BY <1>3, <1>6 DEF k

\* vlStackPush: the new level lies behind all others, with its header in front.
LEMMA PushStep ==
  ASSUME Stk!StackInv, NEW n \in 1..MaxSize, NEW mark, Stk!Push(n, mark)
  PROVE  Stk!StackInv'
<1> DEFINE L == Len(s4)  o == s3.buffer.offset
           h == [size |-> n, previousOffset |-> s3.headOffset]
           w == <<h>> \o Stk!Word(n, mark)
           B == Stk!BufferWrite(s3.buffer, w)
           new == [at |-> o, cells |-> Stk!Word(n, mark)]
<1>1. n \in Nat /\ n > 0 BY StorageAssumption
<1>2. /\ DOMAIN s3 = {"buffer", "headOffset", "depth"}
      /\ Stk!InMemory(s3.buffer) /\ Stk!Cells(s3.buffer.data) /\ Len(s3.buffer.data) \in Nat
      /\ o \in Nat /\ o <= Len(s3.buffer.data)
      /\ Stk!Cells(s4) /\ L \in Nat
      /\ s3.depth = L /\ s3.headOffset = Stk!LevelAt(s4, L) /\ o = Stk!LevelEnd(s4, L)
  BY StackFacts
<1>3. /\ s3' = [buffer |-> B, headOffset |-> o, depth |-> s3.depth + 1]
      /\ s4' = Append(s4, new)
  BY DEF Stk!Push
<1>4. Stk!Cells(w) /\ Len(w) = n + 1 /\ w[1] = h /\ \A i \in 1..n : w[i + 1] = mark
  BY <1>1, HeadedCells
<1> HIDE DEF w
<1>5. /\ Stk!InMemory(B) /\ B.offset = o + n + 1 /\ Stk!Cells(B.data)
      /\ B.offset <= Len(B.data) /\ Len(B.data) \in Nat
      /\ \A i \in 1..(n + 1) : B.data[o + i] = w[i]
      /\ \A i \in 1..o : B.data[i] = s3.buffer.data[i]
  <2>1. LET D == Stk!BufferWrite(s3.buffer, w) IN
         /\ Stk!InMemory(D) /\ D.offset = s3.buffer.offset + Len(w)
         /\ D.offset <= Len(D.data)
         /\ \A i \in 1..Len(w) : D.data[s3.buffer.offset + i] = w[i]
         /\ \A i \in 1..Len(s3.buffer.data) :
              i <= s3.buffer.offset \/ i > D.offset => D.data[i] = s3.buffer.data[i]
    <3>1. Stk!InMemory(s3.buffer) /\ Stk!Cells(w) BY <1>2, <1>4
    <3>2. QED BY <3>1, WriteFacts DEF Stk!InMemory
  <2> HIDE DEF B
  <2>2. Stk!InMemory(B) /\ B.offset = o + n + 1 /\ B.offset <= Len(B.data)
        /\ \A i \in 1..(n + 1) : B.data[o + i] = w[i]
    BY <1>1, <1>2, <1>4, <2>1 DEF B
  <2>3. \A i \in 1..o : i \in 1..Len(s3.buffer.data) /\ i <= o BY <1>2
  <2>4. \A i \in 1..o : B.data[i] = s3.buffer.data[i] BY <2>1, <2>3 DEF B
  <2>5. Stk!Cells(B.data) /\ Len(B.data) \in Nat BY <2>2, CellsAre DEF Stk!InMemory, Stk!Buffer
  <2>6. QED BY <2>2, <2>4, <2>5
<1> HIDE DEF B
<1>6. /\ DOMAIN s3' = {"buffer", "headOffset", "depth"} /\ s3'.buffer = B
      /\ s3'.headOffset = o /\ s3'.depth = L + 1
  BY <1>2, <1>3
<1>7. Stk!Cells(new.cells) /\ Len(new.cells) = n /\ \A i \in 1..n : new.cells[i] = mark
  BY <1>1, WordCells
<1>8. new.at = o /\ DOMAIN new = {"at", "cells"} OBVIOUS
<1> HIDE DEF new
<1>9. /\ Stk!Cells(s4') /\ Len(s4') = L + 1 /\ s4'[L + 1] = new
      /\ \A i \in 1..L : s4'[i] = s4[i]
  BY <1>2, <1>3, LevelAppended
<1>10. \A i \in 0..L : /\ Stk!LevelAt(s4', i) = Stk!LevelAt(s4, i)
                       /\ Stk!LevelEnd(s4', i) = Stk!LevelEnd(s4, i)
  <2>1. L <= Len(s4) /\ L <= Len(s4') BY <1>2, <1>9
  <2>2. QED BY <1>2, <1>9, <2>1, LevelsAgree
<1> HIDE DEF L, o, h
<1>11. Stk!LevelAt(s4', L + 1) = o /\ Stk!LevelEnd(s4', L + 1) = o + 1 + n
  <2>1. L + 1 \in DOMAIN s4' BY <1>2, <1>9, CellsAre
  <2>2. QED BY <1>7, <1>8, <1>9, <2>1 DEF Stk!LevelAt, Stk!LevelEnd, Stk!Header
<1>12. ASSUME NEW i \in 1..(L + 1)
       PROVE  /\ Level(s4', B.data, i)
              /\ Stk!LevelEnd(s4', i) <= B.offset
              /\ \A j \in 1..(L + 1) : i < j => Stk!LevelEnd(s4', i) <= s4'[j].at
  <2>1. CASE i \in 1..L
    <3>1. i \in 1..Len(s4) /\ i - 1 \in 0..L /\ i \in 0..L BY <1>2, <2>1 DEF L
    <3>2. s3.buffer.offset <= Len(B.data) /\ \A x \in 1..s3.buffer.offset : B.data[x] = s3.buffer.data[x]
      BY <1>1, <1>2, <1>5 DEF o
    <3>3. Level(s4', B.data, i)
      <4>1. /\ Stk!LevelAt(s4', i - 1) = Stk!LevelAt(s4, i - 1)
            /\ Stk!LevelEnd(s4', i - 1) = Stk!LevelEnd(s4, i - 1)
            /\ s4'[i] = s4[i] /\ Stk!Cells(B.data)
        BY <1>5, <1>9, <1>10, <2>1, <3>1
      <4>2. QED BY <3>1, <3>2, <4>1, LevelStays
    <3>4. PICK e : e = Stk!LevelEnd(s4, i) OBVIOUS
    <3>5. /\ e \in Nat /\ e <= o /\ \A j \in 1..L : i < j => e <= s4[j].at
      <4>1. /\ s4[i].at \in Nat /\ Len(s4[i].cells) \in Nat
            /\ e = s4[i].at + 1 + Len(s4[i].cells)
            /\ s4[i].at + 1 + Len(s4[i].cells) <= s3.buffer.offset
            /\ \A j \in 1..Len(s4) : i < j => s4[i].at + 1 + Len(s4[i].cells) <= s4[j].at
        BY <3>1, <3>4, LevelFacts
      <4>2. e \in Nat BY <4>1
      <4>3. QED BY <4>1, <4>2 DEF o, L
    <3>6. Stk!LevelEnd(s4', i) = e BY <1>10, <3>1, <3>4
    <3>7. e <= B.offset BY <1>1, <1>2, <1>5, <3>5
    <3>8. ASSUME NEW j \in 1..(L + 1), i < j PROVE e <= s4'[j].at
      <4>1. CASE j = L + 1 BY <1>8, <1>9, <3>5, <4>1
      <4>2. CASE j # L + 1
        <5>1. j \in 1..L BY <1>2, <4>2
        <5>2. QED BY <1>9, <3>5, <3>8, <5>1
      <4>3. QED BY <4>1, <4>2
    <3>9. QED BY <3>3, <3>6, <3>7, <3>8
  <2>2. CASE i = L + 1
    <3>1. s4'[i] = new /\ i - 1 = L /\ L \in 0..L BY <1>2, <1>9, <2>2
    <3>2. o = Stk!LevelEnd(s4', i - 1) /\ s3.headOffset = Stk!LevelAt(s4', i - 1)
      BY <1>2, <1>10, <3>1
    <3>3. B.data[o + 1] = [size |-> n, previousOffset |-> Stk!LevelAt(s4', i - 1)]
      <4>1. 1 \in 1..(n + 1) BY <1>1
      <4>2. B.data[o + 1] = w[1] BY <1>5, <4>1
      <4>3. QED BY <1>4, <3>2, <4>2 DEF h
    <3>4. SubSeq(B.data, o + 1 + 1, o + 1 + n) = new.cells
      <4> DEFINE p == SubSeq(B.data, (o + 1) + 1, (o + 1) + n)
      <4>1. o + 1 \in Nat /\ (o + 1) + n <= Len(B.data) BY <1>1, <1>2, <1>5
      <4>2. Stk!Cells(p) /\ Len(p) = n /\ \A x \in 1..n : p[x] = B.data[(o + 1) + x]
        BY <1>1, <1>5, <4>1, PartOf
      <4> HIDE DEF p
      <4>3. \A x \in 1..n : p[x] = new.cells[x]
        <5> TAKE x \in 1..n
        <5>1. x + 1 \in 1..(n + 1) /\ o + (x + 1) = (o + 1) + x BY <1>1, <1>2
        <5>2. B.data[(o + 1) + x] = w[x + 1] BY <1>5, <5>1
        <5>3. QED BY <1>4, <1>7, <4>2, <5>2
      <4>4. p = new.cells BY <1>7, <4>2, <4>3, SameCells
      <4>5. QED BY <4>4 DEF p
    <3>5. Level(s4', B.data, i) BY <1>2, <1>7, <1>8, <3>1, <3>2, <3>3, <3>4 DEF Level
    <3>6. Stk!LevelEnd(s4', i) <= B.offset BY <1>1, <1>2, <1>5, <1>11, <2>2
    <3>7. \A j \in 1..(L + 1) : ~(i < j) BY <1>2, <2>2
    <3>8. QED BY <3>5, <3>6, <3>7
  <2>3. QED BY <1>2, <2>1, <2>2
<1>13. s3'.buffer.offset = Stk!LevelEnd(s4', Len(s4')) /\ s3'.headOffset = Stk!LevelAt(s4', Len(s4'))
  BY <1>1, <1>2, <1>5, <1>6, <1>9, <1>11
<1>14. QED BY <1>5, <1>6, <1>9, <1>12, <1>13, StackKeeps

\* vlStackPop: the level below the last one is the last one again.
LEMMA PopStep ==
  ASSUME Stk!StackInv, Stk!Pop
  PROVE  Stk!StackInv'
<1> DEFINE L == Len(s4)  b == s3.buffer  at == s4[L].at
           p == s3.buffer.data[s3.headOffset + 1].previousOffset
           B == [b EXCEPT !.offset = s3.headOffset]
<1>1. /\ DOMAIN s3 = {"buffer", "headOffset", "depth"}
      /\ Stk!InMemory(b) /\ Stk!Cells(b.data) /\ Len(b.data) \in Nat
      /\ b.offset \in Nat /\ b.size \in Nat /\ b.offset <= b.size
      /\ Stk!Cells(s4) /\ L \in Nat
      /\ s3.depth = L /\ s3.headOffset = Stk!LevelAt(s4, L)
      /\ DOMAIN b = {"data", "offset", "size"}
  BY StackFacts DEF Stk!InMemory, Stk!Buffer
<1>2. L > 0 /\ L \in 1..L /\ L - 1 \in Nat BY <1>1 DEF Stk!Pop
<1>3. /\ at \in Nat /\ s3.headOffset = at /\ Len(s4[L].cells) \in Nat
      /\ at + 1 + Len(s4[L].cells) <= b.offset
      /\ at = Stk!LevelEnd(s4, L - 1)
      /\ b.data[at + 1] = [size |-> Len(s4[L].cells), previousOffset |-> Stk!LevelAt(s4, L - 1)]
  BY <1>1, <1>2, LevelFacts
<1>4. at <= b.offset BY <1>1, <1>3
<1>5. p = Stk!LevelAt(s4, L - 1) BY <1>3
<1>6. /\ s3' = [s3 EXCEPT !.buffer.offset = s3.headOffset, !.headOffset = p, !.depth = s3.depth - 1]
      /\ s4' = SubSeq(s4, 1, L - 1)
  BY DEF Stk!Pop, Stk!Front
<1> HIDE DEF p
<1>7. /\ DOMAIN s3' = {"buffer", "headOffset", "depth"} /\ s3'.buffer = B
      /\ s3'.headOffset = p /\ s3'.depth = L - 1
  BY <1>1, <1>6
<1>8. /\ DOMAIN B = {"data", "offset", "size"} /\ B.data = b.data /\ B.size = b.size /\ B.offset = at
  BY <1>1, <1>3
<1> HIDE DEF B
<1>9. Stk!InMemory(B)
  <2>1. /\ Stk!Cells(b.data) /\ b.size \in Nat /\ b.size <= Stk!Capacity(b) /\ Stk!Capacity(b) > 0
    BY <1>1 DEF Stk!InMemory, Stk!Buffer
  <2>2. at \in Nat /\ at <= b.size BY <1>1, <1>3, <1>4
  <2>3. Stk!Capacity(B) = Stk!Capacity(b) BY <1>8 DEF Stk!Capacity
  <2>4. QED BY <1>8, <2>1, <2>2, <2>3 DEF Stk!InMemory, Stk!Buffer
<1>10. /\ Stk!Cells(s4') /\ Len(s4') = L - 1 /\ \A i \in 1..(L - 1) : s4'[i] = s4[i]
  <2>1. PICK n : n = L - 1 OBVIOUS
  <2>2. n \in Nat /\ n <= Len(s4) BY <1>1, <1>2, <2>1
  <2>3. /\ Stk!Cells(SubSeq(s4, 1, n)) /\ Len(SubSeq(s4, 1, n)) = n
        /\ \A i \in 1..n : SubSeq(s4, 1, n)[i] = s4[i]
    BY <1>1, <2>2, FrontCells
  <2>4. s4' = SubSeq(s4, 1, n) BY <1>6, <2>1
  <2>5. QED BY <2>1, <2>3, <2>4
<1>11. \A i \in 0..(L - 1) : /\ Stk!LevelAt(s4', i) = Stk!LevelAt(s4, i)
                             /\ Stk!LevelEnd(s4', i) = Stk!LevelEnd(s4, i)
  <2>1. L - 1 <= Len(s4) /\ L - 1 <= Len(s4') BY <1>1, <1>2, <1>10
  <2>2. QED BY <1>1, <1>2, <1>10, <2>1, LevelsAgree
<1> HIDE DEF L, at, b
<1>12. ASSUME NEW i \in 1..(L - 1)
       PROVE  /\ Level(s4', B.data, i)
              /\ Stk!LevelEnd(s4', i) <= B.offset
              /\ \A j \in 1..(L - 1) : i < j => Stk!LevelEnd(s4', i) <= s4'[j].at
  <2>1. i \in 1..L /\ L \in 1..L /\ i < L /\ i - 1 \in 0..(L - 1) /\ i \in 0..(L - 1) BY <1>1, <1>2
  <2>2. Level(s4', B.data, i)
    <3>1. i \in 1..Len(s4) BY <2>1 DEF L
    <3>2. /\ Stk!LevelAt(s4', i - 1) = Stk!LevelAt(s4, i - 1)
          /\ Stk!LevelEnd(s4', i - 1) = Stk!LevelEnd(s4, i - 1)
          /\ s4'[i] = s4[i] /\ Stk!Cells(B.data)
      BY <1>1, <1>8, <1>10, <1>11, <2>1
    <3>3. s3.buffer.offset <= Len(B.data) /\ \A x \in 1..s3.buffer.offset : B.data[x] = s3.buffer.data[x]
      <4>1. b.offset <= Len(b.data)
        <5>1. b.size <= Len(b.data) BY StackFacts DEF b
        <5>2. QED BY <1>1, <5>1
      <4>2. QED BY <1>8, <4>1 DEF b
    <3>4. QED BY <3>1, <3>2, <3>3, LevelStays
  <2>3. PICK e : e = Stk!LevelEnd(s4, i) OBVIOUS
  <2>4. \A j \in 1..L : i < j => e <= s4[j].at
    <3>1. /\ e = s4[i].at + 1 + Len(s4[i].cells)
          /\ \A j \in 1..Len(s4) : i < j => s4[i].at + 1 + Len(s4[i].cells) <= s4[j].at
      BY <2>1, <2>3, LevelFacts DEF L
    <3>2. QED BY <3>1 DEF L
  <2>5. Stk!LevelEnd(s4', i) = e BY <1>11, <2>1, <2>3
  <2>6. e <= at BY <2>1, <2>4 DEF at
  <2>7. ASSUME NEW j \in 1..(L - 1), i < j PROVE e <= s4'[j].at
    <3>1. j \in 1..L BY <1>1
    <3>2. QED BY <1>10, <2>4, <2>7, <3>1
  <2>8. QED BY <1>8, <2>2, <2>5, <2>6, <2>7
<1>13. s3'.buffer.offset = Stk!LevelEnd(s4', Len(s4')) /\ s3'.headOffset = Stk!LevelAt(s4', Len(s4'))
  <2>1. L - 1 \in 0..(L - 1) BY <1>2
  <2>2. QED BY <1>3, <1>5, <1>7, <1>8, <1>10, <1>11, <2>1
<1>14. QED BY <1>7, <1>9, <1>10, <1>12, <1>13, StackKeeps

\* A stack without levels: vlStackInit and vlStackReset.
LEMMA ResetStackStep ==
  ASSUME Stk!StackInv, Stk!ResetStack
  PROVE  Stk!StackInv'
<1> DEFINE b == s3.buffer  B == [b EXCEPT !.offset = 0]
<1>1. DOMAIN s3 = {"buffer", "headOffset", "depth"} /\ Stk!InMemory(b)
  BY StackFacts
<1>2. s3' = [s3 EXCEPT !.depth = 0, !.headOffset = 0, !.buffer.offset = 0] /\ s4' = << >>
  BY DEF Stk!ResetStack
<1>3. /\ DOMAIN s3' = {"buffer", "headOffset", "depth"} /\ s3'.buffer = B
      /\ s3'.headOffset = 0 /\ s3'.depth = 0
  BY <1>1, <1>2
<1>4. /\ DOMAIN B = {"data", "offset", "size"} /\ B.data = b.data /\ B.size = b.size /\ B.offset = 0
  BY <1>1 DEF Stk!InMemory, Stk!Buffer
<1> HIDE DEF b, B
<1>5. Stk!InMemory(B) BY <1>1, <1>4 DEF Stk!InMemory, Stk!Buffer, Stk!Capacity
<1>6. Stk!Cells(s4') /\ Len(s4') = 0 /\ DOMAIN s4' = {} BY <1>2, NoCells
<1>7. Stk!LevelAt(s4', 0) = 0 /\ Stk!LevelEnd(s4', 0) = 0
  BY <1>6 DEF Stk!LevelAt, Stk!LevelEnd
<1>8. \A i \in 1..Len(s4') : FALSE BY <1>6
<1>9. QED BY <1>3, <1>4, <1>5, <1>6, <1>7, <1>8, StackKeeps

\* A stack starts empty.
LEMMA StackStart == Stk!StackInit => Stk!StackInv
<1> SUFFICES ASSUME Stk!StackInit PROVE Stk!StackInv
  OBVIOUS
<1> DEFINE b == Stk!NewBuffer(BufferSize)
<1>1. s3 = [buffer |-> b, headOffset |-> 0, depth |-> 0] /\ s4 = << >> BY DEF Stk!StackInit
<1>2. Stk!InMemory(b) /\ b.offset = 0
  <2>1. b = [data |-> Stk!Sized(<< >>, BufferSize), offset |-> 0, size |-> 0]
    BY DEF Stk!NewBuffer
  <2>2. BufferSize \in Nat /\ BufferSize > 0 BY StorageAssumption
  <2> HIDE DEF b
  <2>3. QED BY <2>1, <2>2, NewMemory
<1> HIDE DEF b
<1>3. /\ DOMAIN s3 = {"buffer", "headOffset", "depth"} /\ s3.buffer = b /\ s3.headOffset = 0
      /\ s3.depth = 0
  BY <1>1
<1>4. Stk!Cells(s4) /\ Len(s4) = 0 /\ DOMAIN s4 = {} BY <1>1, NoCells
<1>5. QED BY <1>2, <1>3, <1>4
          DEF Stk!StackInv, Stk!StackSound, Stk!Stacked, Stk!Apart, Stk!LevelAt, Stk!LevelEnd

\* Every operation keeps the invariant of a stack.
LEMMA StackStep ==
  ASSUME Stk!StackInv, Stk!StackNext \/ UNCHANGED Stk!stackVars
  PROVE  Stk!StackInv'
<1>1. CASE UNCHANGED Stk!stackVars
  <2>1. s3' = s3 /\ s4' = s4 BY <1>1 DEF Stk!stackVars
  <2>2. QED BY <2>1 DEF Stk!StackInv, Stk!StackSound
<1>2. QED BY <1>1, PushStep, PopStep, ResetStackStep DEF Stk!StackNext

----------------------------------------------------------------------------
(* Allocators and sequences together. *)

\* Every allocator and every sequence keeps its invariant, whatever sizes, alignments,
\* addresses and values are.
THEOREM StorageInductive == StorageSpec => []StorageInv
<1>1. StorageInit => StorageInv
  BY PoolStart, MemStart, SeqStart, BufStart, StackStart DEF StorageInit, StorageInv
<1>2. StorageInv /\ [StorageNext]_state => StorageInv'
  <2> SUFFICES ASSUME StorageInv, [StorageNext]_state PROVE StorageInv'
    OBVIOUS
  <2>1. subject' = subject BY DEF StorageNext, state
  <2>2. ASSUME subject = "pool" PROVE Pool!PoolInv'
    <3>1. Pool!Next \/ UNCHANGED Pool!vars BY <2>2 DEF StorageNext, state, Pool!vars
    <3>2. Pool!PoolInv BY <2>2 DEF StorageInv
    <3>3. QED BY <3>1, <3>2, PoolStep
  <2>3. ASSUME subject = "memory" PROVE Mem!MemInv'
    <3>1. Mem!MemNext \/ UNCHANGED Mem!memVars BY <2>3 DEF StorageNext, state, Mem!memVars
    <3>2. Mem!MemInv BY <2>3 DEF StorageInv
    <3>3. QED BY <3>1, <3>2, MemStep
  <2>4. ASSUME subject = "deque" PROVE Deq!SeqInv'
    <3>1. Deq!SeqNext \/ UNCHANGED Deq!seqVars BY <2>4 DEF StorageNext, state, Deq!seqVars
    <3>2. Deq!SeqInv BY <2>4 DEF StorageInv
    <3>3. QED BY <3>1, <3>2, SeqStep
  <2>5. ASSUME subject = "buffer" PROVE Stk!BufInv'
    <3>1. Stk!BufNext \/ UNCHANGED Stk!bufVars BY <2>5 DEF StorageNext, state, Stk!bufVars
    <3>2. Stk!BufInv BY <2>5 DEF StorageInv
    <3>3. QED BY <3>1, <3>2, BufStep
  <2>6. ASSUME subject = "stack" PROVE Stk!StackInv'
    <3>1. Stk!StackNext \/ UNCHANGED Stk!stackVars BY <2>6 DEF StorageNext, state, Stk!stackVars
    <3>2. Stk!StackInv BY <2>6 DEF StorageInv
    <3>3. QED BY <3>1, <3>2, StackStep
  <2>7. QED BY <2>1, <2>2, <2>3, <2>4, <2>5, <2>6 DEF StorageInv
<1>3. QED BY <1>1, <1>2, PTL DEF StorageSpec

\* A pool never hands out an element that is in use; its counters and stack agree with
\* what is out, after any mix of returns, clears, resets, reserves and clones, for any
\* number of blocks.  Its lookup table holds every block unless vlPoolClone copied a
\* larger capacity to it, after which nothing more is said (vlPoolTake, vlPoolReturn).
THEOREM PoolIsSound == StorageSpec => []FixedPoolSound
<1>1. StorageInv => FixedPoolSound BY PoolSoundFromInv DEF StorageInv, FixedPoolSound
<1>2. QED BY <1>1, StorageInductive, PTL

\* A block is aligned, inside its allocation and keeps its cells, wherever malloc and
\* realloc put it and whatever it is resized to, as long as realloc does not fail for a
\* block of the default alignment (vlMemAllocAligned, vlMemRealloc, vlMemClone).
THEOREM AllocationsAreSound == StorageSpec => []MemorySound
<1>1. StorageInv => MemorySound BY MemorySoundFromInv DEF StorageInv, MemorySound
<1>2. QED BY <1>1, StorageInductive, PTL

\* Both allocators are sound, in the sense of the two theorems above.
THEOREM AllocatorsAreSound == StorageSpec => []AllocatorsSound
<1>1. FixedPoolSound /\ MemorySound => AllocatorsSound BY DEF AllocatorsSound
<1>2. QED BY <1>1, PoolIsSound, AllocationsAreSound, PTL

\* A deque and a queue give back the elements pushed, in order and at either end, while
\* their nodes are recycled through a pool that never hands out a linked one; a buffer
\* keeps what was written below its size, whatever it grew from and wherever the cursor
\* was put, and a copy of it as much as vlBufferCopy copies, which past the end is not
\* what vl_buffer.h says; a stack finds the cells of every level again, in order
\* (vlDequePushFront, vlQueuePopFront, vlBufferWrite, vlStackPush).
THEOREM SequencesAreSound == StorageSpec => []SequencesSound
<1>1. StorageInv => SequencesSound
  <2>1. Stk!BufInv => Stk!BufferSound BY DEF Stk!BufInv
  <2>2. Stk!StackInv => Stk!StackSound BY DEF Stk!StackInv
  <2>3. QED BY <2>1, <2>2, SeqSoundFromInv DEF StorageInv, SequencesSound
<1>2. QED BY <1>1, StorageInductive, PTL

===============================================================================
