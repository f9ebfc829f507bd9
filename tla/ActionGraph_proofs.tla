------------------------- MODULE ActionGraph_proofs -------------------------
(***************************************************************************)
(* What the proofs about both placements of fences rest on: why it is      *)
(* enough to look at simple paths, since what every simple path from src   *)
(* to dst passes, every walk from src to dst passes; and that the passes   *)
(* which build the action graph keep its types.                            *)
(***************************************************************************)
EXTENDS Obligations, Dependences, FiniteSetTheorems, WellFoundedInduction, TLAPS

(* A walk as the program makes it: any number of steps, any block any      *)
(* number of times, skipped blocks only at the end.                        *)
Walks(g, skip, src, dst) ==
  {w \in Seq(Blocks) :
     /\ Len(w) >= 2
     /\ w[1] = src
     /\ w[Len(w)] = dst
     /\ IsWalk(g, w)
     /\ \A n \in 1 .. Len(w) - 1 : w[n] \notin skip}

(* Does the walk take an arc of A? *)
Crosses(w, A) == \E n \in 1 .. Len(w) - 1 : <<w[n], w[n + 1]>> \in A

(* Does it take an arc of A, or one of B and later one of C? *)
Passes(w, A, B, C) ==
  \/ Crosses(w, A)
  \/ \E m, n \in 1 .. Len(w) - 1 :
       m < n /\ <<w[m], w[m + 1]>> \in B /\ <<w[n], w[n + 1]>> \in C

(* The walk without the steps i + 1 .. j, where w[i] = w[j]. *)
Shortcut(w, i, j) ==
  [n \in 1 .. Len(w) - (j - i) |-> IF n <= i THEN w[n] ELSE w[n + (j - i)]]

(* A set of naturals that has a member has a least one. *)
LEMMA LeastNatural ==
  ASSUME NEW T \in SUBSET Nat, T # {}
  PROVE  \E n \in T : \A m \in T : n <= m
<1>1. PICK n \in T : \A m \in T : ~(<<m, n>> \in OpToRel(<, Nat))
  BY NatLessThanWellFounded, WFMin
<1>2. \A m \in T : ~(m < n)
  BY <1>1 DEF OpToRel
<1> QED BY <1>2

(* A sequence that is simple is at most one block longer than there are    *)
(* blocks.                                                                 *)
LEMMA SimpleIsShort ==
  ASSUME NEW w \in Seq(Blocks), IsSimple(w), Len(w) >= 2
  PROVE  Len(w) <= Cardinality(Blocks) + 1
<1> DEFINE f == [n \in 1 .. Len(w) - 1 |-> w[n]]
<1>1. f \in [1 .. Len(w) - 1 -> Blocks]
  OBVIOUS
<1>2. Cardinality(Blocks) \in Nat
  BY BlocksAssumption, FS_CardinalityType
<1>3. IsFiniteSet(1 .. Len(w) - 1) /\ Cardinality(1 .. Len(w) - 1) = Len(w) - 1
  BY FS_Interval
<1>4. SUFFICES ASSUME Cardinality(Blocks) < Len(w) - 1 PROVE FALSE
  BY <1>2
<1>5. PICK m, n \in 1 .. Len(w) - 1 : m # n /\ f[m] = f[n]
  <2> DEFINE S == 1 .. Len(w) - 1
  <2>1. IsFiniteSet(S) /\ IsFiniteSet(Blocks) /\ f \in [S -> Blocks]
    BY <1>1, <1>3, BlocksAssumption
  <2>2. Cardinality(Blocks) < Cardinality(S)
    BY <1>3, <1>4
  <2> HIDE DEF f, S
  <2>3. \E x, y \in S : x # y /\ f[x] = f[y]
    BY <2>1, <2>2, FS_PigeonHole
  <2> QED BY <2>3 DEF S
<1>6. w[m] = w[n] /\ (m < n \/ n < m)
  BY <1>5
<1> QED BY <1>6 DEF IsSimple

(* Cutting a detour out of a walk leaves a walk between the same ends that *)
(* takes no new arc and no arcs in a new order.                            *)
LEMMA ShortcutIsWalk ==
  ASSUME NEW g, NEW skip, NEW src, NEW dst, NEW A, NEW B, NEW C,
         NEW w \in Walks(g, skip, src, dst), ~Passes(w, A, B, C),
         NEW i \in 1 .. Len(w), NEW j \in 1 .. Len(w),
         i < j, w[i] = w[j], ~(i = 1 /\ j = Len(w))
  PROVE  /\ Shortcut(w, i, j) \in Walks(g, skip, src, dst)
         /\ ~Passes(Shortcut(w, i, j), A, B, C)
         /\ Len(Shortcut(w, i, j)) < Len(w)
<1> DEFINE d == j - i
           v == Shortcut(w, i, j)
           At(n) == IF n <= i THEN n ELSE n + d
<1>1. /\ w \in Seq(Blocks) /\ Len(w) \in Nat /\ Len(w) >= 2
      /\ w[1] = src /\ w[Len(w)] = dst
      /\ IsWalk(g, w)
      /\ \A n \in 1 .. Len(w) - 1 : w[n] \notin skip
  BY DEF Walks
<1>2. d \in 1 .. Len(w) - 1 /\ Len(w) - d \in 2 .. Len(w) - 1
  BY <1>1
<1>3. \A n \in 1 .. Len(w) - d : At(n) \in 1 .. Len(w) /\ v[n] = w[At(n)]
  BY <1>1, <1>2 DEF Shortcut
<1>4. v \in Seq(Blocks) /\ Len(v) = Len(w) - d
  <2>1. v \in [1 .. Len(w) - d -> Blocks]
    BY <1>1, <1>2 DEF Shortcut
  <2> QED BY <2>1, <1>2
<1>5. v[1] = src
  BY <1>1, <1>2, <1>3
<1>6. v[Len(v)] = dst
  <2>1. CASE j = Len(w)
    <3>1. Len(v) = i
      BY <2>1, <1>4
    <3> QED BY <3>1, <2>1, <1>1, <1>2, <1>3, <1>4
  <2>2. CASE j < Len(w)
    <3>1. Len(v) > i /\ Len(v) + d = Len(w) /\ Len(v) \in 1 .. Len(w) - d
      BY <2>2, <1>1, <1>2, <1>4
    <3>2. PICK n \in 1 .. Len(w) - d : n = Len(v)
      BY <3>1
    <3>3. v[n] = w[n + d]
      BY <3>1, <3>2, <1>3
    <3> QED BY <3>1, <3>2, <3>3, <1>1
  <2> QED BY <2>1, <2>2
<1> DEFINE Arc(n) == IF n < i THEN n ELSE n + d
<1>7. ASSUME NEW n \in 1 .. Len(v) - 1
      PROVE  /\ Arc(n) \in 1 .. Len(w) - 1
             /\ v[n] = w[Arc(n)] /\ v[n + 1] = w[Arc(n) + 1]
  <2>1. n + 1 \in 1 .. Len(w) - d /\ n \in 1 .. Len(w) - d
    BY <1>2, <1>4
  <2>2. v[n] = w[At(n)] /\ v[n + 1] = w[At(n + 1)]
    BY <2>1, <1>3
  <2>3. Arc(n) \in 1 .. Len(w) - 1 /\ At(n + 1) = Arc(n) + 1
    BY <2>1, <1>2
  <2>4. CASE n = i
    <3>1. v[n] = w[j] /\ Arc(n) = j
      BY <2>2, <2>4, <1>2
    <3> HIDE DEF v, Arc, At
    <3> QED BY <3>1, <2>2, <2>3
  <2>5. CASE n # i
    <3>1. At(n) = Arc(n)
      BY <2>1, <2>5, <1>2
    <3> QED BY <3>1, <2>2, <2>3
  <2> QED BY <2>4, <2>5
<1>8. \A n \in 1 .. Len(v) - 1 : v[n] \notin skip
  <2> TAKE n \in 1 .. Len(v) - 1
  <2>1. n \in 1 .. Len(w) - d /\ At(n) \in 1 .. Len(w) - 1
    BY <1>2, <1>4
  <2> QED BY <2>1, <1>1, <1>3
<1>9. \A m, n \in 1 .. Len(v) - 1 : m < n => Arc(m) < Arc(n)
  BY <1>2, <1>4
<1>10. IsWalk(g, v) /\ ~Passes(v, A, B, C)
  <2> HIDE DEF v, Arc
  <2>1. IsWalk(g, v)
    BY <1>1, <1>7 DEF IsWalk
  <2>2. ~Crosses(v, A)
    BY <1>7 DEF Passes, Crosses
  <2>3. ASSUME NEW m \in 1 .. Len(v) - 1, NEW n \in 1 .. Len(v) - 1, m < n,
               <<v[m], v[m + 1]>> \in B, <<v[n], v[n + 1]>> \in C
        PROVE  FALSE
    BY <2>3, <1>7, <1>9 DEF Passes
  <2> QED BY <2>1, <2>2, <2>3 DEF Passes
<1> QED BY <1>1, <1>2, <1>4, <1>5, <1>6, <1>8, <1>10 DEF Walks

(* The table of paths holds, for each graph, its simple paths.             *)
LEMMA PathsOfGraph ==
  \A g \in Graphs :
    PathsOf(g) = {r.path : r \in {q \in SimplePaths : q.graph = g}}
<1> TAKE g \in Graphs
<1> DEFINE row == [graph |-> g,
                   paths |-> {r.path : r \in {q \in SimplePaths : q.graph = g}}]
<1>1. row \in PathTable /\ row.graph = g
  BY DEF PathTable
<1>2. \A r \in PathTable : r.graph = g => r = row
  BY DEF PathTable
<1>3. (CHOOSE r \in PathTable : r.graph = g) = row
  BY <1>1, <1>2
<1>4. row.paths = {r.path : r \in {q \in SimplePaths : q.graph = g}}
  OBVIOUS
<1> HIDE DEF row
<1> QED BY <1>3, <1>4 DEF PathsOf

(* If every path that findAllSimplePaths returns takes an arc of A, or one *)
(* of B and later one of C, then so does every walk of the program between *)
(* the same blocks: a shortest walk that does not would be one of those    *)
(* paths.                                                                  *)
THEOREM PairsOnSimplePaths ==
  ASSUME NEW g \in Graphs, NEW skip, NEW src, NEW dst, NEW A, NEW B, NEW C,
         \A p \in FindAllSimplePaths(g, skip, src, dst) : Passes(p, A, B, C)
  PROVE  \A w \in Walks(g, skip, src, dst) : Passes(w, A, B, C)
<1> DEFINE Bad == {w \in Walks(g, skip, src, dst) : ~Passes(w, A, B, C)}
           Lengths == {n \in Nat : \E w \in Bad : Len(w) = n}
<1> SUFFICES ASSUME Bad # {} PROVE FALSE
  OBVIOUS
<1>1. \A w \in Bad : w \in Seq(Blocks) /\ Len(w) \in Nat
  BY DEF Walks
<1>2. Lengths # {}
  BY <1>1
<1>3. PICK m \in Lengths : \A n \in Lengths : m <= n
  BY <1>2, LeastNatural
<1>4. PICK w \in Bad : Len(w) = m
  BY <1>3
<1>5. IsSimple(w)
  <2> SUFFICES ASSUME NEW i \in 1 .. Len(w), NEW j \in 1 .. Len(w),
                      i < j, w[i] = w[j], ~(i = 1 /\ j = Len(w))
               PROVE  FALSE
    BY DEF IsSimple
  <2>1. Shortcut(w, i, j) \in Bad /\ Len(Shortcut(w, i, j)) < m
    BY <1>4, ShortcutIsWalk
  <2>2. Len(Shortcut(w, i, j)) \in Lengths
    BY <2>1, <1>1
  <2> QED BY <2>1, <2>2, <1>1, <1>3, <1>4
<1>6. w \in BlockSequences
  <2>1. Len(w) \in 1 .. Cardinality(Blocks) + 1
    <3>1. Cardinality(Blocks) \in Nat
      BY BlocksAssumption, FS_CardinalityType
    <3> QED BY <3>1, <1>1, <1>5, SimpleIsShort DEF Walks
  <2>2. w \in [1 .. Len(w) -> Blocks]
    BY <1>1
  <2> QED BY <2>1, <2>2 DEF BlockSequences
<1>7. [graph |-> g, path |-> w] \in SimplePaths
  <2> DEFINE c == <<g, w>>
  <2>1. c \in {x \in Graphs \X BlockSequences :
                 IsWalk(x[1], x[2]) /\ IsSimple(x[2])}
    BY <1>5, <1>6 DEF Walks
  <2> QED BY <2>1 DEF SimplePaths
<1>8. w \in FindAllSimplePaths(g, skip, src, dst)
  BY <1>7, PathsOfGraph DEF FindAllSimplePaths, Walks
<1> QED BY <1>4, <1>8

(* So it is enough to look at simple paths for what every walk must take.  *)
THEOREM SimplePathsSuffice ==
  ASSUME NEW g \in Graphs, NEW skip, NEW src, NEW dst, NEW A,
         \A p \in FindAllSimplePaths(g, skip, src, dst) : Crosses(p, A)
  PROVE  \A w \in Walks(g, skip, src, dst) : Crosses(w, A)
<1>1. \A w : Passes(w, A, {}, {}) <=> Crosses(w, A)
  BY DEF Passes
<1> QED BY <1>1, PairsOnSimplePaths

-----------------------------------------------------------------------------
(* What can be reached, and from where. *)
LEMMA PathIsWalk ==
  ASSUME NEW g \in Graphs, NEW skip, NEW src, NEW dst,
         NEW p \in FindAllSimplePaths(g, skip, src, dst)
  PROVE  p \in Walks(g, skip, src, dst)
<1>1. /\ p \in PathsOf(g) /\ Len(p) >= 2 /\ p[1] = src /\ p[Len(p)] = dst
      /\ \A n \in 1 .. Len(p) - 1 : p[n] \notin skip
  BY DEF FindAllSimplePaths
<1>2. p \in {r.path : r \in {q \in SimplePaths : q.graph = g}}
  BY <1>1, PathsOfGraph
<1>3. \A q \in SimplePaths : q.path \in BlockSequences /\ IsWalk(q.graph, q.path)
  BY DEF SimplePaths
<1>4. p \in BlockSequences /\ IsWalk(g, p)
  BY <1>2, <1>3
<1>5. p \in Seq(Blocks)
  <2>1. Cardinality(Blocks) \in Nat
    BY BlocksAssumption, FS_CardinalityType
  <2>2. PICK n \in 1 .. Cardinality(Blocks) + 1 : p \in [1 .. n -> Blocks]
    BY <1>4 DEF BlockSequences
  <2> QED BY <2>1, <2>2
<1> QED BY <1>1, <1>4, <1>5 DEF Walks

LEMMA WalkReaches ==
  ASSUME NEW g \in Graphs, NEW skip, NEW src, NEW dst, NEW w \in Walks(g, skip, src, dst)
  PROVE  Reaches(g, skip, src, dst)
<1>1. ASSUME FindAllSimplePaths(g, skip, src, dst) = {} PROVE FALSE
  <2>1. \A v \in Walks(g, skip, src, dst) : Crosses(v, {})
    BY <1>1, SimplePathsSuffice
  <2> QED BY <2>1 DEF Crosses
<1> QED BY <1>1 DEF Reaches

LEMMA ReachesOnward ==
  ASSUME NEW g \in Graphs, NEW skip, NEW a \in Blocks, NEW b \in Blocks,
         a \notin skip, b \notin skip, NEW c \in Succ(g, b),
         Reaches(g, skip, a, b)
  PROVE  c \in Blocks /\ Reaches(g, skip, a, c)
<1>1. c \in Blocks
  BY GraphsAssumption DEF Succ
<1>2. CASE a = b
  <2> DEFINE w == <<a, c>>
  <2>1. w \in Walks(g, skip, a, c)
    BY <1>1, <1>2 DEF Walks, IsWalk
  <2> QED BY <1>1, <2>1, WalkReaches
<1>3. CASE a # b
  <2>1. PICK p : p \in Walks(g, skip, a, b)
    BY <1>3, PathIsWalk DEF Reaches
  <2> DEFINE w == Append(p, c)
  <2>2. p \in Seq(Blocks) /\ Len(p) \in Nat /\ Len(p) >= 2 /\ p[1] = a /\ p[Len(p)] = b /\ IsWalk(g, p)
    BY <2>1 DEF Walks
  <2>3. /\ w \in Seq(Blocks) /\ Len(w) = Len(p) + 1 /\ w[Len(p) + 1] = c
        /\ \A n \in 1 .. Len(p) : w[n] = p[n]
    BY <1>1, <2>2
  <2> HIDE DEF w
  <2>4. IsWalk(g, w)
    <3> SUFFICES ASSUME NEW n \in 1 .. Len(w) - 1 PROVE w[n + 1] \in Succ(g, w[n])
      BY DEF IsWalk
    <3>1. CASE n = Len(p)
      BY <2>2, <2>3, <3>1
    <3>2. CASE n # Len(p)
      <4>1. n \in 1 .. Len(p) - 1 /\ n + 1 \in 1 .. Len(p)
        BY <2>2, <2>3, <3>2
      <4> QED BY <2>2, <2>3, <4>1 DEF IsWalk
    <3> QED BY <3>1, <3>2
  <2>5. \A n \in 1 .. Len(w) - 1 : w[n] \notin skip
    <3>1. \A n \in 1 .. Len(p) - 1 : p[n] \notin skip
      BY <2>1 DEF Walks
    <3>2. \A n \in 1 .. Len(w) - 1 : n \in 1 .. Len(p) /\ (n \in 1 .. Len(p) - 1 \/ n = Len(p))
      BY <2>2, <2>3
    <3> QED BY <2>2, <2>3, <3>1, <3>2
  <2>6. w[1] = a /\ w[Len(w)] = c /\ Len(w) >= 2
    BY <2>2, <2>3
  <2>7. w \in Walks(g, skip, a, c)
    BY <2>3, <2>4, <2>5, <2>6 DEF Walks
  <2> QED BY <1>1, <2>7, WalkReaches
<1> QED BY <1>2, <1>3

LEMMA ReachesBefore ==
  ASSUME NEW g \in Graphs, NEW a \in Blocks, NEW b \in Succ(g, a), NEW c \in Blocks,
         Reaches(g, {}, b, c)
  PROVE  Reaches(g, {}, a, c)
<1>1. b \in Blocks
  BY GraphsAssumption DEF Succ
<1>2. CASE b = c
  <2> DEFINE w == <<a, c>>
  <2>1. w \in Walks(g, {}, a, c)
    BY <1>1, <1>2 DEF Walks, IsWalk
  <2> QED BY <1>1, <2>1, WalkReaches
<1>3. CASE b # c
  <2>1. PICK p : p \in Walks(g, {}, b, c)
    BY <1>3, PathIsWalk DEF Reaches
  <2> DEFINE w == <<a>> \o p
  <2>2. p \in Seq(Blocks) /\ Len(p) \in Nat /\ Len(p) >= 2 /\ p[1] = b /\ p[Len(p)] = c /\ IsWalk(g, p)
    BY <2>1 DEF Walks
  <2>3. /\ w \in Seq(Blocks) /\ Len(w) = Len(p) + 1 /\ w[1] = a
        /\ \A n \in 1 .. Len(p) : w[n + 1] = p[n]
    BY <2>2
  <2> HIDE DEF w
  <2>4. IsWalk(g, w)
    <3> SUFFICES ASSUME NEW n \in 1 .. Len(w) - 1 PROVE w[n + 1] \in Succ(g, w[n])
      BY DEF IsWalk
    <3>1. CASE n = 1
      BY <2>2, <2>3, <3>1
    <3>2. CASE n # 1
      <4>1. PICK m \in 1 .. Len(p) - 1 : n = m + 1
        BY <2>2, <2>3, <3>2
      <4>2. m + 1 \in 1 .. Len(p) /\ m \in 1 .. Len(p)
        BY <2>2
      <4>3. w[m + 1] = p[m] /\ w[m + 1 + 1] = p[m + 1] /\ p[m + 1] \in Succ(g, p[m])
        BY <2>2, <2>3, <4>2 DEF IsWalk
      <4> QED BY <4>1, <4>3
    <3> QED BY <3>1, <3>2
  <2>5. w[Len(w)] = c
    BY <2>2, <2>3
  <2>6. w \in Walks(g, {}, a, c)
    BY <2>2, <2>3, <2>4, <2>5 DEF Walks
  <2> QED BY <2>6, WalkReaches
<1> QED BY <1>2, <1>3

-----------------------------------------------------------------------------
(* Folds over finite sets, element by element in the order of CHOOSE.      *)
Pick(S) == CHOOSE x \in S : TRUE
Rest(S) == S \ {Pick(S)}

LEMMA PickIsIn ==
  ASSUME NEW S, S # {}
  PROVE  Pick(S) \in S /\ Rest(S) \subseteq S /\ Rest(S) # S
BY DEF Pick, Rest

LEMMA RestIsSmaller ==
  ASSUME NEW S, S # {}, IsFiniteSet(S)
  PROVE  /\ IsFiniteSet(Rest(S))
         /\ Cardinality(S) \in Nat /\ Cardinality(Rest(S)) \in Nat
         /\ Cardinality(Rest(S)) < Cardinality(S)
BY PickIsIn, FS_RemoveElement, FS_CardinalityType, FS_Subset DEF Rest

(* Of some subsets of a finite set there is a smallest one. *)
LEMMA SmallestSet ==
  ASSUME NEW S, IsFiniteSet(S), NEW Q \in SUBSET (SUBSET S), Q # {}
  PROVE  /\ \A U \in SUBSET S : IsFiniteSet(U) /\ Cardinality(U) \in Nat
         /\ \E U \in Q : \A T \in Q : Cardinality(U) <= Cardinality(T)
<1> DEFINE Sizes == {Cardinality(U) : U \in Q}
<1>1. \A U \in SUBSET S : IsFiniteSet(U) /\ Cardinality(U) \in Nat
  BY FS_Subset, FS_CardinalityType
<1>2. Sizes \in SUBSET Nat /\ Sizes # {}
  BY <1>1
<1>3. PICK n \in Sizes : \A m \in Sizes : n <= m
  <2> HIDE DEF Sizes
  <2> QED BY <1>2, LeastNatural
<1> QED BY <1>1, <1>3

(* What holds of the empty set, and of a set if of the rest of it, holds.  *)
LEMMA RestInduction ==
  ASSUME NEW S, IsFiniteSet(S), NEW P \in SUBSET (SUBSET S), {} \in P,
         \A U \in SUBSET S : U # {} /\ Rest(U) \in P => U \in P
  PROVE  P = SUBSET S
<1> DEFINE Wrong == (SUBSET S) \ P
<1>1. SUFFICES ASSUME Wrong # {} PROVE FALSE
  OBVIOUS
<1>2. /\ \A U \in SUBSET S : IsFiniteSet(U) /\ Cardinality(U) \in Nat
      /\ \E U \in Wrong : \A T \in Wrong : Cardinality(U) <= Cardinality(T)
  <2>1. Wrong \in SUBSET (SUBSET S)
    OBVIOUS
  <2> HIDE DEF Wrong
  <2> QED BY <1>1, <2>1, SmallestSet
<1>3. PICK U \in Wrong : \A T \in Wrong : Cardinality(U) <= Cardinality(T)
  BY <1>2
<1>4. U \in SUBSET S /\ U # {} /\ U \notin P
  BY <1>3
<1>5. Rest(U) \in Wrong
  BY <1>4, PickIsIn
<1> QED BY <1>2, <1>3, <1>4, <1>5, RestIsSmaller

FoldsInto(f, S, base, H) ==
  f = [U \in SUBSET S |-> IF U = {} THEN base ELSE H[<<Pick(U), f[Rest(U)]>>]]

(* A fold whose step stays in a set V exists: by the size of the subsets.  *)
LEMMA FoldExists ==
  ASSUME NEW S, IsFiniteSet(S), NEW V, NEW base \in V, NEW H \in [S \X V -> V]
  PROVE  \E f \in [SUBSET S -> V] : FoldsInto(f, S, base, H)
<1> DEFINE Body(f, U) == IF U = {} THEN base ELSE H[<<Pick(U), f[Rest(U)]>>]
           UpTo(n) == {U \in SUBSET S : Cardinality(U) <= n}
           Level(n, f) == \A U \in UpTo(n) : f[U] = Body(f, U)
           Bad == {n \in Nat : ~ \E f \in [SUBSET S -> V] : Level(n, f)}
<1>1. \A U \in SUBSET S : IsFiniteSet(U) /\ Cardinality(U) \in Nat
  BY FS_Subset, FS_CardinalityType
<1>2. \A f \in [SUBSET S -> V] : \A U \in SUBSET S : Body(f, U) \in V
  BY PickIsIn
<1>3. Bad = {}
  <2> SUFFICES ASSUME Bad # {} PROVE FALSE
    OBVIOUS
  <2>1. PICK n \in Bad : \A m \in Bad : n <= m
    <3>1. Bad \in SUBSET Nat
      OBVIOUS
    <3> HIDE DEF Bad
    <3> QED BY <3>1, LeastNatural
  <2>2. n # 0
    <3> DEFINE f == [U \in SUBSET S |-> base]
    <3>1. f \in [SUBSET S -> V]
      OBVIOUS
    <3>2. \A U \in UpTo(0) : U = {}
      BY <1>1, FS_EmptySet
    <3>3. Level(0, f)
      BY <3>2
    <3> HIDE DEF f, Level
    <3> QED BY <2>1, <3>1, <3>3
  <2>3. PICK f \in [SUBSET S -> V] : Level(n - 1, f)
    <3> HIDE DEF Level
    <3>1. n - 1 \in Nat /\ ~(n <= n - 1)
      BY <2>1, <2>2
    <3>2. n - 1 \notin Bad
      BY <2>1, <3>1
    <3> QED BY <3>1, <3>2
  <2> DEFINE g == [U \in SUBSET S |-> Body(f, U)]
  <2>4. g \in [SUBSET S -> V]
    BY <1>2
  <2>5. ASSUME NEW U \in UpTo(n) PROVE g[U] = Body(g, U)
    <3>1. CASE U = {}
      BY <3>1
    <3>2. CASE U # {}
      <4>1. Rest(U) \in UpTo(n - 1)
        BY <1>1, <3>2, PickIsIn, RestIsSmaller, <2>1
      <4>2. f[Rest(U)] = Body(f, Rest(U))
        BY <4>1, <2>3
      <4>3. g[Rest(U)] = f[Rest(U)]
        BY <4>1, <4>2
      <4> QED BY <3>2, <4>3
    <3> QED BY <3>1, <3>2
  <2>6. Level(n, g)
    <3> HIDE DEF g, Body, UpTo
    <3> QED BY <2>5
  <2> HIDE DEF g, Level
  <2> QED BY <2>1, <2>4, <2>6
<1>4. PICK f \in [SUBSET S -> V] : Level(Cardinality(S), f)
  BY <1>1, <1>3
<1>5. \A U \in SUBSET S : U \in UpTo(Cardinality(S))
  BY <1>1, FS_Subset
<1>6. \A U \in SUBSET S : f[U] = Body(f, U)
  <2> HIDE DEF UpTo, Body
  <2> QED BY <1>4, <1>5
<1>7. f = [U \in SUBSET S |-> Body(f, U)]
  <2> HIDE DEF Body
  <2> QED BY <1>6
<1> QED BY <1>7 DEF FoldsInto

-----------------------------------------------------------------------------
(* A function that adds to a set what step finds from it, until that is    *)
(* nothing new.                                                            *)
Saturates(f, E, step) ==
  f = [S \in SUBSET E |-> IF step[S] \subseteq S THEN S ELSE f[S \cup step[S]]]

LeastOf(E, step, S) ==
  {e \in E : \A C \in SUBSET E : S \subseteq C /\ step[C] \subseteq C => e \in C}

(* Such a function exists for every monotonic step, and returns the least  *)
(* set that the step leaves as it is: what it adds is in every such set.   *)
LEMMA LeastClosed ==
  ASSUME NEW E, NEW step \in [SUBSET E -> SUBSET E],
         \A S, C \in SUBSET E : S \subseteq C => step[S] \subseteq step[C],
         NEW S \in SUBSET E
  PROVE  /\ LeastOf(E, step, S) \in SUBSET E
         /\ S \subseteq LeastOf(E, step, S)
         /\ step[LeastOf(E, step, S)] \subseteq LeastOf(E, step, S)
         /\ step[S] \subseteq S => LeastOf(E, step, S) = S
         /\ LeastOf(E, step, S) = LeastOf(E, step, S \cup step[S])
<1> DEFINE L == LeastOf(E, step, S)
<1>1. L \in SUBSET E /\ S \subseteq L
  BY DEF LeastOf
<1>2. \A C \in SUBSET E : S \subseteq C /\ step[C] \subseteq C => L \subseteq C
  BY DEF LeastOf
<1>3. step[L] \subseteq L
  <2> SUFFICES ASSUME NEW e \in step[L], NEW C \in SUBSET E,
                      S \subseteq C, step[C] \subseteq C
               PROVE  e \in C
    BY <1>1 DEF LeastOf
  <2>1. L \subseteq C
    BY <1>2
  <2> HIDE DEF L
  <2> QED BY <2>1, <1>1
<1>4. step[S] \subseteq S => L = S
  BY <1>1, <1>2
<1>5. \A C \in SUBSET E : S \subseteq C /\ step[C] \subseteq C
                            <=> S \cup step[S] \subseteq C /\ step[C] \subseteq C
  <2> TAKE C \in SUBSET E
  <2> QED OBVIOUS
<1>6. L = LeastOf(E, step, S \cup step[S])
  BY <1>5 DEF LeastOf
<1> QED BY <1>1, <1>3, <1>4, <1>6

LEMMA SaturationExists ==
  ASSUME NEW E, NEW step \in [SUBSET E -> SUBSET E],
         \A S, C \in SUBSET E : S \subseteq C => step[S] \subseteq step[C]
  PROVE  \E f : Saturates(f, E, step)
<1> DEFINE f == [S \in SUBSET E |-> LeastOf(E, step, S)]
<1>1. ASSUME NEW S \in SUBSET E
      PROVE  f[S] = IF step[S] \subseteq S THEN S ELSE f[S \cup step[S]]
  <2>1. S \cup step[S] \in SUBSET E
    OBVIOUS
  <2>2. step[S] \subseteq S => LeastOf(E, step, S) = S
    BY LeastClosed
  <2>3. LeastOf(E, step, S) = LeastOf(E, step, S \cup step[S])
    BY LeastClosed
  <2> QED BY <2>1, <2>2, <2>3
<1>2. f = [S \in SUBSET E |-> IF step[S] \subseteq S THEN S ELSE f[S \cup step[S]]]
  <2> DEFINE g == [S \in SUBSET E |-> IF step[S] \subseteq S THEN S ELSE f[S \cup step[S]]]
  <2>1. \A S \in SUBSET E : f[S] = g[S]
    <3> HIDE DEF f
    <3> QED BY <1>1
  <2> QED BY <2>1
<1> HIDE DEF f
<1> QED BY <1>2 DEF Saturates

LEMMA SaturationIsLeast ==
  ASSUME NEW E, IsFiniteSet(E), NEW step \in [SUBSET E -> SUBSET E],
         \A S, C \in SUBSET E : S \subseteq C => step[S] \subseteq step[C],
         NEW f, Saturates(f, E, step), NEW S \in SUBSET E
  PROVE  f[S] = LeastOf(E, step, S)
<1> DEFINE Remaining(T) == Cardinality(E \ T)
           Wrong == {T \in SUBSET E : f[T] # LeastOf(E, step, T)}
<1>1. \A T \in SUBSET E : Remaining(T) \in Nat
  BY FS_Difference, FS_CardinalityType
<1>2. SUFFICES ASSUME Wrong # {} PROVE FALSE
  OBVIOUS
<1>3. PICK T \in Wrong : \A U \in Wrong : Remaining(T) <= Remaining(U)
  <2> DEFINE N == {Remaining(U) : U \in Wrong}
  <2>1. N \in SUBSET Nat /\ N # {}
    BY <1>1, <1>2
  <2>2. PICK n \in N : \A m \in N : n <= m
    <3> HIDE DEF N
    <3> QED BY <2>1, LeastNatural
  <2>3. PICK T \in Wrong : n = Remaining(T)
    OBVIOUS
  <2>4. \A U \in Wrong : Remaining(U) \in N
    OBVIOUS
  <2> QED BY <2>2, <2>3, <2>4
<1>4. T \in SUBSET E /\ f[T] # LeastOf(E, step, T)
  BY <1>3
<1> DEFINE U == T \cup step[T]
<1>5. f[T] = IF step[T] \subseteq T THEN T ELSE f[U]
  BY <1>4 DEF Saturates
<1>6. /\ step[T] \subseteq T => LeastOf(E, step, T) = T
      /\ LeastOf(E, step, T) = LeastOf(E, step, U)
  BY <1>4, LeastClosed
<1>7. ~ step[T] \subseteq T /\ f[U] # LeastOf(E, step, U)
  <2> HIDE DEF U
  <2> QED BY <1>4, <1>5, <1>6
<1>8. U \in Wrong
  BY <1>4, <1>7
<1>9. PICK e \in step[T] : e \notin T
  BY <1>7
<1>10. E \ U \subseteq E \ T /\ E \ U # E \ T
  BY <1>4, <1>9
<1>11. IsFiniteSet(E \ T)
  BY FS_Difference
<1>12. Remaining(U) < Remaining(T)
  <2> HIDE DEF U
  <2>1. E \ U # E \ T /\ E \ U \in SUBSET (E \ T)
    BY <1>10
  <2>2. Cardinality(E \ U) <= Cardinality(E \ T)
        /\ (Cardinality(E \ U) = Cardinality(E \ T) => E \ U = E \ T)
    BY <1>11, <2>1, FS_Subset
  <2>3. U \in SUBSET E
    BY <1>8
  <2>4. Cardinality(E \ U) \in Nat /\ Cardinality(E \ T) \in Nat
    BY <2>3, <1>1, <1>4
  <2> QED BY <2>1, <2>2, <2>4
<1>13. Remaining(T) \in Nat /\ Remaining(U) \in Nat
  BY <1>1, <1>4, <1>8
<1> QED BY <1>3, <1>8, <1>12, <1>13

LEMMA SuccType ==
  ASSUME fn \in Functions
  PROVE  \A b \in Blocks : fn.cfg.succ[b] \subseteq Blocks /\ Succ(fn.cfg, b) \subseteq Blocks
BY FunctionsAssumption, GraphsAssumption DEF Succ

(* A dependence on the load lasts until the block that computes it runs    *)
(* again.                                                                  *)
LEMMA AfterKeeps ==
  ASSUME fn \in Functions, NEW load, NEW hid, NEW after, NEW a, NEW b,
         NEW x \in DOMAIN fn.vals, x \in after, fn.vals[x].block # b
  PROVE  x \in AfterBlock(load, hid, after, a, b)
<1> DEFINE D == DOMAIN fn.vals
           Arm(v) == fn.vals[v].op = "phi"
                     /\ \E arm \in fn.vals[v].ins : arm[1] = a /\ arm[2] \in after
           Looks(v) == fn.vals[v].op \in {"gep", "load"}
           Holds(v, S) == IF fn.vals[v].block # b THEN v \in after
                          ELSE load \in hid
                               /\ (Arm(v) \/ (Looks(v) /\ \E u \in fn.vals[v].args : u \in S))
           step == [S \in SUBSET D |-> {v \in D : Holds(v, S)}]
           Solves(f) ==
             f = [v \in DOMAIN fn.vals |->
                    LET def == fn.vals[v] IN
                    IF def.block # b THEN v \in after
                    ELSE /\ load \in hid
                         /\ \/ /\ def.op = "phi"
                               /\ \E arm \in def.ins : arm[1] = a /\ arm[2] \in after
                            \/ def.op \in {"gep", "load"} /\ \E u \in def.args : f[u]]
<1>1. PICK L \in SUBSET D : step[L] = L
  <2>1. step \in [SUBSET D -> SUBSET D]
    OBVIOUS
  <2>2. \A S, C \in SUBSET D : S \subseteq C => step[S] \subseteq step[C]
    OBVIOUS
  <2> DEFINE M == LeastOf(D, step, {})
  <2>3. M \in SUBSET D /\ step[M] \subseteq M
    <3> HIDE DEF D, step
    <3> QED BY <2>1, <2>2, LeastClosed
  <2>4. step[step[M]] \subseteq step[M] /\ step[M] \in SUBSET D
    <3> HIDE DEF D, step, M
    <3> QED BY <2>1, <2>2, <2>3
  <2>5. M \subseteq step[M]
    <3> HIDE DEF D, step
    <3> QED BY <2>4 DEF LeastOf
  <2>6. M \in SUBSET D /\ step[M] = M
    <3> HIDE DEF D, step, M
    <3> QED BY <2>3, <2>5
  <2> HIDE DEF M, step, D
  <2> QED BY <2>6
<1> DEFINE g == [v \in D |-> v \in L]
<1>2. \A v \in D : (v \in L) <=> Holds(v, L)
  BY <1>1
<1>3. \A v \in D : fn.vals[v].args \subseteq D
  BY ValuesAssumption
<1>4. Solves(g)
  <2> DEFINE body(v) == LET def == fn.vals[v] IN
                        IF def.block # b THEN v \in after
                        ELSE /\ load \in hid
                             /\ \/ /\ def.op = "phi"
                                   /\ \E arm \in def.ins : arm[1] = a /\ arm[2] \in after
                                \/ def.op \in {"gep", "load"} /\ \E u \in def.args : g[u]
  <2>1. ASSUME NEW v \in D PROVE g[v] = body(v)
    <3>1. \A u \in fn.vals[v].args : g[u] <=> u \in L
      BY <1>3
    <3>2. (\E u \in fn.vals[v].args : g[u]) <=> (\E u \in fn.vals[v].args : u \in L)
      <4> HIDE DEF g
      <4> QED BY <3>1
    <3>3. (v \in L) = body(v)
      <4> HIDE DEF g
      <4>1. CASE fn.vals[v].block # b
        BY <1>2, <4>1
      <4>2. CASE fn.vals[v].block = b
        <5>1. (v \in L) = Holds(v, L)
          BY <1>2
        <5>2. Holds(v, L) = body(v)
          BY <3>2, <4>2
        <5> QED BY <5>1, <5>2
      <4> QED BY <4>1, <4>2
    <3> HIDE DEF body
    <3>4. g[v] = (v \in L)
      OBVIOUS
    <3> QED BY <3>3, <3>4
  <2>2. g = [v \in D |-> body(v)]
    <3> HIDE DEF body
    <3> QED BY <2>1
  <2> HIDE DEF g
  <2> QED BY <2>2
<1>5. Solves(CHOOSE f : Solves(f))
  <2> HIDE DEF Solves
  <2> QED BY <1>4
<1>6. (CHOOSE f : Solves(f))[x] = (x \in after)
  <2> DEFINE h == CHOOSE f : Solves(f)
  <2>1. Solves(h)
    BY <1>5
  <2> HIDE DEF h
  <2> QED BY <2>1 DEF h
<1>7. AfterBlock(load, hid, after, a, b) = {v \in D : (CHOOSE f : Solves(f))[v]}
  BY DEF AfterBlock
<1> HIDE DEF Solves
<1> QED BY <1>6, <1>7

(* The states of a walk are finitely many. *)
LEMMA StatesFinite ==
  ASSUME fn \in Functions
  PROVE  IsFiniteSet([b : Blocks, after : SUBSET DOMAIN fn.vals, ctrl : BOOLEAN])
<1> DEFINE afters == SUBSET DOMAIN fn.vals
           tuples == Blocks \X (afters \X BOOLEAN)
           states == [b : Blocks, after : afters, ctrl : BOOLEAN]
           f == [t \in tuples |-> [b |-> t[1], after |-> t[2][1], ctrl |-> t[2][2]]]
<1>1. IsFiniteSet(afters) /\ IsFiniteSet(BOOLEAN)
  <2>1. IsFiniteSet(afters)
    BY ValuesAssumption, FS_SUBSET
  <2>2. IsFiniteSet({TRUE}) /\ IsFiniteSet({FALSE})
    BY FS_Singleton
  <2>3. IsFiniteSet({TRUE} \cup {FALSE})
    BY <2>2, FS_Union
  <2>4. BOOLEAN = {TRUE} \cup {FALSE}
    OBVIOUS
  <2> QED BY <2>1, <2>3, <2>4
<1>2. IsFiniteSet(tuples)
  <2>1. IsFiniteSet(afters \X BOOLEAN)
    BY <1>1, FS_Product
  <2> QED BY <2>1, BlocksAssumption, FS_Product
<1>3. f \in [tuples -> states]
  OBVIOUS
<1>4. ASSUME NEW s \in states PROVE \E t \in tuples : f[t] = s
  <2>1. <<s.b, <<s.after, s.ctrl>>>> \in tuples
    OBVIOUS
  <2>2. f[<<s.b, <<s.after, s.ctrl>>>>] = s
    BY <2>1
  <2> QED BY <2>1, <2>2
<1>5. f \in Surjection(tuples, states)
  <2> HIDE DEF f, tuples, states
  <2> QED BY <1>3, <1>4 DEF Surjection
<1> HIDE DEF f, tuples
<1> QED BY <1>2, <1>5, FS_Surjection

-----------------------------------------------------------------------------
(* Types.                                                                  *)

HasPlace(a) ==
  \/ HasRoom(fn, actions[a].bb, actions[a].out)
  \/ actions[a].name = "" /\ actions[a].bb = actions[a].out

(* The registrations still to be processed have the room they need. *)
PendingOK ==
  /\ pending \in Seq(EdgeCalls \cup PushCalls)
  /\ \A n \in 1 .. Len(pending) :
       LET c == pending[n] IN
       /\ c.kind = "push" => HasRoom(fn, c.block, c.block)
       /\ \A a \in ActionsOf : LooksAround(c, actions[a]) => HasPlace(a)

PassOK == pc = "findEdges" => at = 0

GraphInv == GraphTypeOK /\ PendingOK /\ PassOK

(* What SetToSeq returns holds every member of the set. *)
LEMMA SetToSeqIsOnto ==
  ASSUME NEW S, IsFiniteSet(S)
  PROVE  /\ SetToSeq(S) \in Seq(S)
         /\ \A x \in S : \E n \in 1 .. Len(SetToSeq(S)) : SetToSeq(S)[n] = x
<1> DEFINE c == Cardinality(S)
<1>1. c \in Nat /\ Bijection(1 .. c, S) # {}
  BY FS_CardinalityType DEF ExistsBijection
<1>2. PICK f \in [1 .. c -> S] : IsInjective(f)
  BY <1>1 DEF Bijection, Injection
<1>3. SetToSeq(S) \in [1 .. c -> S] /\ IsInjective(SetToSeq(S))
  BY <1>2 DEF SetToSeq
<1>4. IsFiniteSet(1 .. c) /\ Cardinality(1 .. c) = c
  BY <1>1, FS_Interval
<1>5. SetToSeq(S) \in Injection(1 .. c, S)
  BY <1>3 DEF Injection
<1>6. SetToSeq(S) \in Surjection(1 .. c, S)
  BY <1>4, <1>5, FS_Injection
<1>7. SetToSeq(S) \in Seq(S) /\ Len(SetToSeq(S)) = c
  BY <1>1, <1>3
<1> QED BY <1>6, <1>7 DEF Surjection

(* makePrePostAction adds dummy actions at the end and loses no action. *)
LEMMA WithPrePostType ==
  ASSUME GraphInv, NEW bbs \in SUBSET Blocks
  PROVE  LET acts == WithPrePost(bbs) IN
         /\ acts \in Seq(ActionRecords(fn))
         /\ Len(actions) \in Nat /\ Len(acts) \in Nat /\ Len(actions) <= Len(acts)
         /\ \A a \in ActionsOf : acts[a] = actions[a]
         /\ \A a \in 1 .. Len(acts) :
              \/ a \in ActionsOf
              \/ /\ acts[a].name = "" /\ acts[a].bb = acts[a].out
                 /\ acts[a].type = "PrePost" /\ acts[a].odep = NoValue
                 /\ \A x \in ActionsOf : actions[x].bb # acts[a].bb
         /\ \A b \in bbs : \E a \in 1 .. Len(acts) : acts[a].bb = b
<1> DEFINE New == {b \in bbs : \A a \in ActionsOf : actions[a].bb # b}
           new == SetToSeq(New)
           dummies == [n \in 1 .. Len(new) |-> PrePost(new[n])]
<1>1. actions \in Seq(ActionRecords(fn)) /\ Len(actions) \in Nat
  BY DEF GraphInv, GraphTypeOK
<1>2. IsFiniteSet(New)
  BY BlocksAssumption, FS_Subset
<1>3. /\ new \in Seq(New)
      /\ \A b \in New : \E n \in 1 .. Len(new) : new[n] = b
  <2> HIDE DEF New
  <2> QED BY <1>2, SetToSeqIsOnto
<1>4. Len(new) \in Nat /\ \A n \in 1 .. Len(new) : new[n] \in Blocks /\ new[n] \in New
  <2> HIDE DEF new
  <2> QED BY <1>3
<1>5. \A b \in Blocks : /\ PrePost(b) \in ActionRecords(fn)
                        /\ PrePost(b).name = ""
                        /\ PrePost(b).bb = b /\ PrePost(b).out = b
                        /\ PrePost(b).type = "PrePost" /\ PrePost(b).odep = NoValue
  <2> TAKE b \in Blocks
  <2>1. "PrePost" \in ActionTypes
    BY DEF ActionTypes
  <2> QED BY <2>1 DEF PrePost, ActionRecords
<1>6. dummies \in Seq(ActionRecords(fn)) /\ Len(dummies) = Len(new)
  <2> HIDE DEF new
  <2>1. \A n \in 1 .. Len(new) : PrePost(new[n]) \in ActionRecords(fn)
    BY <1>4, <1>5
  <2>2. dummies \in [1 .. Len(new) -> ActionRecords(fn)]
    BY <2>1
  <2> QED BY <2>2, <1>4
<1>7. WithPrePost(bbs) = actions \o dummies
  BY DEF WithPrePost
<1>8. /\ WithPrePost(bbs) \in Seq(ActionRecords(fn))
      /\ Len(WithPrePost(bbs)) = Len(actions) + Len(new)
  <2> DEFINE R == ActionRecords(fn)
  <2> HIDE DEF dummies, new, R
  <2>1. actions \in Seq(R) /\ dummies \in Seq(R)
    BY <1>1, <1>6 DEF R
  <2>2. actions \o dummies \in Seq(R)
    BY <2>1
  <2>3. Len(actions \o dummies) = Len(actions) + Len(dummies)
    BY <2>1
  <2> QED BY <2>2, <2>3, <1>6, <1>7 DEF R
<1>9. /\ \A a \in ActionsOf : WithPrePost(bbs)[a] = actions[a]
      /\ \A n \in 1 .. Len(new) :
           WithPrePost(bbs)[Len(actions) + n] = PrePost(new[n])
  <2> DEFINE R == ActionRecords(fn)
  <2>1. \A n \in 1 .. Len(new) : dummies[n] = PrePost(new[n])
    OBVIOUS
  <2> HIDE DEF dummies, new, R
  <2>2. actions \in Seq(R) /\ dummies \in Seq(R)
    BY <1>1, <1>6 DEF R
  <2>3. \A a \in 1 .. Len(actions) : (actions \o dummies)[a] = actions[a]
    BY <2>2
  <2>4. \A n \in 1 .. Len(dummies) :
          (actions \o dummies)[Len(actions) + n] = dummies[n]
    BY <2>2
  <2>5. \A a \in ActionsOf : WithPrePost(bbs)[a] = actions[a]
    BY <1>7, <2>3 DEF ActionsOf
  <2>6. \A n \in 1 .. Len(new) :
          WithPrePost(bbs)[Len(actions) + n] = PrePost(new[n])
    BY <1>6, <1>7, <2>1, <2>4
  <2> QED BY <2>5, <2>6
<1>10. \A a \in 1 .. Len(WithPrePost(bbs)) :
         \/ a \in ActionsOf
         \/ /\ WithPrePost(bbs)[a].name = ""
            /\ WithPrePost(bbs)[a].bb = WithPrePost(bbs)[a].out
            /\ WithPrePost(bbs)[a].type = "PrePost" /\ WithPrePost(bbs)[a].odep = NoValue
            /\ \A x \in ActionsOf : actions[x].bb # WithPrePost(bbs)[a].bb
  <2> TAKE a \in 1 .. Len(WithPrePost(bbs))
  <2>1. a \in ActionsOf \/ a - Len(actions) \in 1 .. Len(new)
    BY <1>1, <1>4, <1>8 DEF ActionsOf
  <2>2. CASE a - Len(actions) \in 1 .. Len(new)
    <3>1. PICK n \in 1 .. Len(new) : n = a - Len(actions)
      BY <2>2
    <3>2. a = Len(actions) + n
      BY <3>1, <1>1, <1>4, <1>8
    <3>3. WithPrePost(bbs)[a] = PrePost(new[n]) /\ new[n] \in Blocks
          /\ \A x \in ActionsOf : actions[x].bb # new[n]
      BY <3>2, <1>4, <1>9
    <3>4. /\ PrePost(new[n]).name = "" /\ PrePost(new[n]).bb = PrePost(new[n]).out
          /\ PrePost(new[n]).type = "PrePost" /\ PrePost(new[n]).odep = NoValue
          /\ PrePost(new[n]).bb = new[n]
      BY <3>3, <1>5
    <3> HIDE DEF new
    <3> QED BY <3>3, <3>4
  <2> QED BY <2>1, <2>2
<1>11. \A b \in bbs : \E a \in 1 .. Len(WithPrePost(bbs)) :
         WithPrePost(bbs)[a].bb = b
  <2> TAKE b \in bbs
  <2>1. CASE b \in New
    <3>1. PICK n \in 1 .. Len(new) : new[n] = b
      BY <2>1, <1>3
    <3>2. WithPrePost(bbs)[Len(actions) + n].bb = b
      BY <3>1, <1>5, <1>9
    <3>3. Len(actions) + n \in 1 .. Len(WithPrePost(bbs))
      BY <1>1, <1>4, <1>8
    <3> QED BY <3>2, <3>3
  <2>2. CASE b \notin New
    <3>1. PICK a \in ActionsOf : actions[a].bb = b
      BY <2>2
    <3>2. a \in 1 .. Len(WithPrePost(bbs))
      BY <1>1, <1>4, <1>8 DEF ActionsOf
    <3> QED BY <3>1, <3>2, <1>9
  <2> QED BY <2>1, <2>2
<1>12. Len(WithPrePost(bbs)) \in Nat /\ Len(actions) <= Len(WithPrePost(bbs))
  BY <1>1, <1>4, <1>8
<1> QED BY <1>1, <1>8, <1>9, <1>10, <1>11, <1>12

LEMMA ActionType ==
  ASSUME GraphInv
  PROVE  \A a \in ActionsOf : actions[a] \in ActionRecords(fn)
BY DEF GraphInv, GraphTypeOK, ActionsOf

LEMMA PendingType ==
  ASSUME GraphInv, pending # <<>>
  PROVE  /\ pending \in Seq(EdgeCalls \cup PushCalls)
         /\ 1 \in 1 .. Len(pending) /\ Head(pending) = pending[1]
         /\ Head(pending) \in EdgeCalls \cup PushCalls
         /\ Tail(pending) \in Seq(EdgeCalls \cup PushCalls)
         /\ \A n \in 1 .. Len(Tail(pending)) :
              n + 1 \in 1 .. Len(pending) /\ Tail(pending)[n] = pending[n + 1]
<1>1. pending \in Seq(EdgeCalls \cup PushCalls)
  BY DEF GraphInv, PendingOK
<1> QED BY <1>1

(* Where there is room the blocks before and after an action exist. *)
LEMMA RoomType ==
  ASSUME GraphInv, NEW a, a.out \in Blocks, HasRoom(fn, a.bb, a.out)
  PROVE  PreBlock(a) \in Blocks /\ PostBlock(a) \in Blocks
<1>1. fn.cfg.succ \in [Blocks -> SUBSET Blocks]
  BY GraphsAssumption, FunctionsAssumption DEF GraphInv, GraphTypeOK
<1>2. \E b \in Blocks : b \in fn.cfg.succ[a.out]
  BY <1>1 DEF HasRoom
<1> QED BY <1>2 DEF HasRoom, PreBlock, PostBlock

LEMMA TripleCountType ==
  ASSUME NEW n \in Nat
  PROVE  Cardinality(EdgeTypes) * n * n * n \in Nat
<1>1. EdgeTypes \in SUBSET Nat /\ \A t \in EdgeTypes : t <= 2
  BY DEF EdgeTypes, ExecutionEdge, VisibilityEdge, PushEdge
<1>2. Cardinality(EdgeTypes) \in Nat
  BY <1>1, FS_BoundedSetOfNaturals, FS_CardinalityType
<1>3. Cardinality(EdgeTypes) * n \in Nat
  BY <1>2
<1>4. Cardinality(EdgeTypes) * n * n \in Nat
  BY <1>3
<1> QED BY <1>4

(* One registration processed: the actions it adds and the edges it makes. *)
EdgesOver(acts) ==
  [type : EdgeTypes, src : 1 .. Len(acts), dst : 1 .. Len(acts), bind : BindSites]

LEMMA RegisterType ==
  ASSUME GraphInv, pc = "findEdges", pending # <<>>,
         NEW bbs \in SUBSET Blocks, actions' = WithPrePost(bbs),
         NEW new \in SUBSET EdgesOver(actions'), RegisterEdges(new),
         pending' = Tail(pending), UNCHANGED <<fn, pc, trans, at>>
  PROVE  GraphInv' /\ Edges \subseteq Edges'
<1>1. /\ actions' \in Seq(ActionRecords(fn))
      /\ Len(actions) \in Nat /\ Len(actions') \in Nat
      /\ Len(actions) <= Len(actions')
      /\ \A a \in ActionsOf : actions'[a] = actions[a]
      /\ \A a \in 1 .. Len(actions') :
           \/ a \in ActionsOf
           \/ actions'[a].name = "" /\ actions'[a].bb = actions'[a].out
  BY WithPrePostType
<1>2. Edges' = EdgesOver(actions') /\ Edges = EdgesOver(actions)
  BY DEF ActionsOf, Edges, EdgesOver
<1>3. Edges \subseteq Edges'
  <2>1. \A m, n \in Nat : m <= n => 1 .. m \subseteq 1 .. n
    OBVIOUS
  <2>2. 1 .. Len(actions) \subseteq 1 .. Len(actions')
    BY <1>1, <2>1
  <2> QED BY <1>2, <2>2 DEF EdgesOver
<1>4. at' = 0 /\ TripleCount' \in Nat
  BY <1>1, TripleCountType DEF TripleCount, GraphInv, PassOK
<1>5. GraphTypeOK'
  <2>1. fn' \in Functions /\ actions' \in Seq(ActionRecords(fn'))
    BY <1>1 DEF GraphInv, GraphTypeOK
  <2>2. edges' \subseteq Edges' /\ graph' \subseteq Edges'
    BY <1>2, <1>3 DEF GraphInv, GraphTypeOK, RegisterEdges
  <2>3. trans' \subseteq Edges'
    BY <1>3 DEF GraphInv, GraphTypeOK
  <2> QED BY <2>1, <2>2, <2>3, <1>4 DEF GraphTypeOK
<1>6. PendingOK'
  <2>1. /\ pending \in Seq(EdgeCalls \cup PushCalls)
        /\ pending' \in Seq(EdgeCalls \cup PushCalls)
        /\ \A n \in 1 .. Len(pending') :
             n + 1 \in 1 .. Len(pending) /\ pending'[n] = pending[n + 1]
    BY PendingType
  <2>2. ASSUME NEW n \in 1 .. Len(pending'), NEW a \in 1 .. Len(actions'),
               LooksAround(pending'[n], actions'[a])
        PROVE  HasPlace(a)'
    <3>1. CASE a \in ActionsOf
      <4>1. pending'[n] = pending[n + 1] /\ actions'[a] = actions[a]
        BY <1>1, <2>1, <3>1
      <4>2. HasPlace(a)
        BY <2>1, <2>2, <3>1, <4>1 DEF GraphInv, PendingOK
      <4> QED BY <4>1, <4>2 DEF HasPlace
    <3>2. CASE a \notin ActionsOf
      BY <1>1, <3>2 DEF HasPlace
    <3> QED BY <3>1, <3>2
  <2>3. ASSUME NEW n \in 1 .. Len(pending'), pending'[n].kind = "push"
        PROVE  HasRoom(fn, pending'[n].block, pending'[n].block)
    BY <2>1, <2>3 DEF GraphInv, PendingOK
  <2> QED BY <2>1, <2>2, <2>3 DEF PendingOK, ActionsOf
<1> QED BY <1>3, <1>4, <1>5, <1>6 DEF GraphInv, PassOK

(* The blocks a registration looks at are blocks of the function. *)
LEMMA DummyBlocksType ==
  ASSUME GraphInv, pending # <<>>
  PROVE  DummyBlocks(Head(pending)) \in SUBSET Blocks
<1> DEFINE call == Head(pending)
<1>1. 1 \in 1 .. Len(pending) /\ call = pending[1]
  BY PendingType
<1>2. \A a \in ActionsOf : actions[a].bb \in Blocks /\ actions[a].out \in Blocks
  BY ActionType DEF ActionRecords
<1>3. \A a \in ActionsOf : LooksAround(call, actions[a]) => HasPlace(a)
  BY <1>1 DEF GraphInv, PendingOK
<1>4. CASE call.kind = "push"
  <2>1. ASSUME NEW a \in Pushed(call)
        PROVE  PreBlock(actions[a]) \in Blocks /\ PostBlock(actions[a]) \in Blocks
    <3>1. a \in ActionsOf /\ actions[a].bb = call.block
      BY DEF Pushed
    <3>2. HasRoom(fn, call.block, call.block) /\ HasPlace(a)
      BY <1>1, <1>3, <1>4, <3>1 DEF GraphInv, PendingOK, LooksAround
    <3>3. HasRoom(fn, actions[a].bb, actions[a].out)
      BY <3>1, <3>2 DEF HasPlace
    <3> QED BY <1>2, <3>1, <3>3, RoomType
  <2> QED BY <1>4, <2>1 DEF DummyBlocks
<1>5. CASE call.kind # "push"
  <2>1. call \in EdgeCalls /\ call.kind = "edge"
    BY <1>5, PendingType DEF PushCalls, EdgeCalls
  <2>2. ASSUME NEW a \in Pres(call) \cup Posts(call)
        PROVE  PreBlock(actions[a]) \in Blocks /\ PostBlock(actions[a]) \in Blocks
    <3>1. /\ a \in ActionsOf
          /\ \/ call.src = "pre" /\ actions[a].name = call.dst
             \/ call.dst = "post" /\ actions[a].name = call.src
      BY DEF Pres, Posts, Labelled
    <3>2. actions[a].name # "" /\ LooksAround(call, actions[a])
      BY <2>1, <3>1, LabelsAssumption DEF EdgeCalls, LooksAround
    <3>3. HasRoom(fn, actions[a].bb, actions[a].out)
      BY <1>3, <3>1, <3>2 DEF HasPlace
    <3> QED BY <1>2, <3>1, <3>3, RoomType
  <2> QED BY <1>5, <2>2 DEF DummyBlocks
<1> QED BY <1>4, <1>5

(* Each of these blocks has an action once makePrePostAction is through. *)
LEMMA DummiesExist ==
  ASSUME GraphInv, NEW bbs \in SUBSET Blocks
  PROVE  /\ ActionsOf \subseteq 1 .. Len(WithPrePost(bbs))
         /\ \A b \in bbs :
              ActionAt(WithPrePost(bbs), b) \in 1 .. Len(WithPrePost(bbs))
<1>1. PICK acts : acts = WithPrePost(bbs)
  OBVIOUS
<1>2. /\ Len(actions) \in Nat /\ Len(acts) \in Nat /\ Len(actions) <= Len(acts)
      /\ \A b \in bbs : \E a \in 1 .. Len(acts) : acts[a].bb = b
  BY <1>1, WithPrePostType
<1>3. ActionsOf \subseteq 1 .. Len(acts)
  BY <1>2 DEF ActionsOf
<1>4. \A b \in bbs : ActionAt(acts, b) \in 1 .. Len(acts)
  BY <1>2 DEF ActionAt
<1> QED BY <1>1, <1>3, <1>4

LEMMA ProcessEdgeType ==
  ASSUME GraphInv, pc = "findEdges", pending # <<>>,
         ProcessEdge(Head(pending)),
         pending' = Tail(pending), UNCHANGED <<fn, pc, trans, at>>
  PROVE  GraphInv' /\ Edges \subseteq Edges'
<1> DEFINE call == Head(pending)
           srcs == Labelled(call.src)
           dsts == Labelled(call.dst)
           bbs == DummyBlocks(call)
           acts == WithPrePost(bbs)
           new == {Edge(call.type, s, d, call.bind) : s \in srcs, d \in dsts}
                  \cup {Edge(call.type, ActionAt(acts, PreBlock(actions[d])), d,
                             call.bind) : d \in Pres(call)}
                  \cup {Edge(call.type, s, ActionAt(acts, PostBlock(actions[s])),
                             call.bind) : s \in Posts(call)}
<1>1. call.kind = "edge" /\ actions' = acts /\ RegisterEdges(new)
  BY DEF ProcessEdge
<1>2. call \in EdgeCalls
  <2>1. call \in EdgeCalls \cup PushCalls
    BY PendingType
  <2> QED BY <2>1, <1>1 DEF PushCalls
<1>3. call.type \in EdgeTypes /\ call.bind \in BindSites
  BY <1>2 DEF EdgeCalls
<1>4. /\ srcs \subseteq ActionsOf /\ dsts \subseteq ActionsOf
      /\ Pres(call) \subseteq ActionsOf /\ Posts(call) \subseteq ActionsOf
  BY DEF Labelled, Pres, Posts
<1>5. bbs \in SUBSET Blocks
  BY DummyBlocksType
<1>6. /\ \A d \in Pres(call) : PreBlock(actions[d]) \in bbs
      /\ \A s \in Posts(call) : PostBlock(actions[s]) \in bbs
  BY <1>1 DEF DummyBlocks
<1>7. /\ ActionsOf \subseteq 1 .. Len(acts)
      /\ \A b \in bbs : ActionAt(acts, b) \in 1 .. Len(acts)
  <2> HIDE DEF bbs
  <2> QED BY <1>5, DummiesExist
<1>8. new \in SUBSET EdgesOver(acts)
  <2> HIDE DEF srcs, dsts, bbs, acts, call
  <2>1. \A s \in srcs, d \in dsts :
          Edge(call.type, s, d, call.bind) \in EdgesOver(acts)
    BY <1>3, <1>4, <1>7 DEF Edge, EdgesOver
  <2>2. \A d \in Pres(call) :
          Edge(call.type, ActionAt(acts, PreBlock(actions[d])), d, call.bind)
            \in EdgesOver(acts)
    BY <1>3, <1>4, <1>6, <1>7 DEF Edge, EdgesOver
  <2>3. \A s \in Posts(call) :
          Edge(call.type, s, ActionAt(acts, PostBlock(actions[s])), call.bind)
            \in EdgesOver(acts)
    BY <1>3, <1>4, <1>6, <1>7 DEF Edge, EdgesOver
  <2> QED BY <2>1, <2>2, <2>3
<1> HIDE DEF bbs, new
<1> QED BY <1>1, <1>5, <1>8, RegisterType

LEMMA ProcessPushType ==
  ASSUME GraphInv, pc = "findEdges", pending # <<>>,
         ProcessPush(Head(pending)),
         pending' = Tail(pending), UNCHANGED <<fn, pc, trans, at>>
  PROVE  GraphInv' /\ Edges \subseteq Edges'
<1> DEFINE call == Head(pending)
           bbs == DummyBlocks(call)
           acts == WithPrePost(bbs)
           new == {Edge(PushEdge, ActionAt(acts, PreBlock(actions[a])),
                        ActionAt(acts, PostBlock(actions[a])), Outside) :
                     a \in Pushed(call)}
<1>1. call.kind = "push" /\ actions' = acts /\ RegisterEdges(new)
  BY DEF ProcessPush
<1>2. bbs \in SUBSET Blocks
  BY DummyBlocksType
<1>3. \A a \in Pushed(call) :
        PreBlock(actions[a]) \in bbs /\ PostBlock(actions[a]) \in bbs
  BY <1>1 DEF DummyBlocks
<1>4. \A b \in bbs : ActionAt(acts, b) \in 1 .. Len(acts)
  <2> HIDE DEF bbs
  <2> QED BY <1>2, DummiesExist
<1>5. new \in SUBSET EdgesOver(acts)
  <2> HIDE DEF bbs, acts, call
  <2> QED BY <1>3, <1>4 DEF Edge, EdgesOver, EdgeTypes, BindSites
<1> HIDE DEF bbs, new
<1> QED BY <1>1, <1>2, <1>5, RegisterType

(* The minimum of the triples that join two edges is one of them. *)
LEMMA NextJoinType ==
  ASSUME GraphInv, JoinsFrom(at) # {}
  PROVE  Min(JoinsFrom(at)) \in at .. TripleCount - 1
<1>1. TripleCount \in Nat /\ at \in Nat
  BY TripleCountType DEF GraphInv, GraphTypeOK, TripleCount
<1>2. JoinsFrom(at) \subseteq at .. TripleCount - 1
  BY DEF JoinsFrom
<1>3. \E n \in JoinsFrom(at) : \A m \in JoinsFrom(at) : n <= m
  BY <1>1, <1>2, LeastNatural
<1>4. Min(JoinsFrom(at)) \in JoinsFrom(at)
  BY <1>3 DEF Min
<1> QED BY <1>2, <1>4

(* Two edges join into an edge. *)
LEMMA JoinsType ==
  ASSUME GraphInv, NEW t
  PROVE  Joins(t) \subseteq Edges
<1> SUFFICES ASSUME NEW b1 \in BindsOf(t.type, t.i, t.k),
                    NEW b2 \in BindsOf(t.type, t.k, t.j)
             PROVE  Edge(t.type, t.i, t.j, MergeBindPoints(b1, b2)) \in Edges
  BY DEF Joins
<1>1. trans \subseteq Edges
  BY DEF GraphInv, GraphTypeOK
<1>2. PICK e \in trans : e.type = t.type /\ e.src = t.i /\ e.bind = b1
  BY DEF BindsOf
<1>3. PICK f \in trans : f.type = t.type /\ f.dst = t.j /\ f.bind = b2
  BY DEF BindsOf
<1>4. MergeBindPoints(b1, b2) \in BindSites
  BY <1>1, <1>2, <1>3 DEF MergeBindPoints, Edges, BindSites
<1> QED BY <1>1, <1>2, <1>3, <1>4 DEF Edge, Edges

LEMMA GraphType ==
  ASSUME GraphInv, GraphNext
  PROVE  GraphInv' /\ Edges \subseteq Edges' /\ fn' = fn /\ pc # "cut"
<1>1. CASE FindEdges
  BY <1>1, ProcessEdgeType, ProcessPushType DEF FindEdges
<1>2. ASSUME BuildActionGraph \/ TransitiveClosure \/ AssertFails
             \/ RemoveUselessEdges \/ RebuildEdges,
             trans' \subseteq Edges, edges' \subseteq Edges,
             at' \in 0 .. TripleCount, pc' # "findEdges"
      PROVE  GraphInv' /\ Edges \subseteq Edges' /\ fn' = fn /\ pc # "cut"
  <2>1. UNCHANGED <<fn, actions, pending, graph>> /\ pc # "cut"
    BY <1>2 DEF BuildActionGraph, TransitiveClosure,
                AssertFails, RemoveUselessEdges, RebuildEdges
  <2>2. UNCHANGED <<Edges, TripleCount, ActionsOf>>
    BY <2>1 DEF Edges, ActionsOf, TripleCount
  <2>3. GraphTypeOK'
    BY <1>2, <2>1, <2>2 DEF GraphInv, GraphTypeOK
  <2>4. PendingOK'
    BY <2>1, <2>2 DEF GraphInv, PendingOK, HasPlace
  <2> QED BY <1>2, <2>1, <2>2, <2>3, <2>4 DEF GraphInv, PassOK
<1>3. TripleCount \in Nat /\ at \in 0 .. TripleCount
  BY TripleCountType DEF GraphInv, GraphTypeOK, TripleCount
<1>4. trans \subseteq Edges /\ edges \subseteq Edges /\ graph \subseteq Edges
  BY DEF GraphInv, GraphTypeOK
<1>5. CASE BuildActionGraph
  <2>1. \A e \in graph : [e EXCEPT !.type = ExecutionEdge] \in Edges
    BY <1>4 DEF Edges, EdgeTypes
  <2> QED BY <1>2, <1>3, <1>4, <1>5, <2>1 DEF BuildActionGraph
<1>6. CASE TransitiveClosure
  <2>1. PICK n : n = Min(JoinsFrom(at))
    OBVIOUS
  <2>2. trans' = trans \cup Joins(NextJoin) /\ at' = n + 1
        /\ UNCHANGED <<edges, pc>> /\ pc = "close" /\ JoinsFrom(at) # {}
    BY <1>6, <2>1 DEF TransitiveClosure
  <2>3. trans' \subseteq Edges
    BY <2>2, <1>4, JoinsType
  <2>4. at' \in 0 .. TripleCount
    BY <2>1, <2>2, <1>3, NextJoinType
  <2> QED BY <1>2, <1>4, <1>6, <2>2, <2>3, <2>4
<1>7. CASE RemoveUselessEdges
  BY <1>2, <1>3, <1>4, <1>7 DEF RemoveUselessEdges
<1>8. CASE RebuildEdges
  BY <1>2, <1>3, <1>4, <1>8 DEF RebuildEdges
<1>9. CASE AssertFails
  BY <1>2, <1>3, <1>4, <1>9 DEF AssertFails
<1> QED BY <1>1, <1>5, <1>6, <1>7, <1>8, <1>9 DEF GraphNext

(* A pass that leaves the graph alone and at most drops edges. *)
LEMMA GraphKept ==
  ASSUME GraphInv, UNCHANGED <<fn, actions, graphVars>>, edges' \subseteq edges
  PROVE  GraphInv' /\ Edges' = Edges
<1>1. UNCHANGED <<Edges, TripleCount, ActionsOf>>
  BY DEF Edges, ActionsOf, TripleCount
<1> QED BY <1>1 DEF GraphInv, GraphTypeOK, PendingOK, HasPlace, PassOK, graphVars

LEMMA GraphStart ==
  ASSUME GraphInit
  PROVE  GraphInv
<1>1. /\ fn \in Functions /\ actions \in Seq(ActionRecords(fn))
      /\ pending \in Seq(EdgeCalls \cup PushCalls)
  BY FunctionsAssumption DEF GraphInit
<1>2. TripleCount \in Nat
  BY <1>1, TripleCountType DEF TripleCount
<1>3. GraphTypeOK
  BY <1>1, <1>2 DEF GraphInit, GraphTypeOK
<1>4. PendingOK
  BY <1>1, RoomAssumption DEF GraphInit, PendingOK, HasPlace, ActionsOf
<1> QED BY <1>3, <1>4 DEF GraphInv, PassOK, GraphInit

(* There are finitely many edges between finitely many actions. *)
LEMMA EdgesFinite ==
  ASSUME actions \in Seq(ActionRecords(fn))
  PROVE  IsFiniteSet(Edges)
<1> DEFINE Sites == Blocks \cup {Outside}
           tuples == EdgeTypes \X (ActionsOf \X (ActionsOf \X Sites))
           f == [t \in tuples |-> [type |-> t[1], src |-> t[2][1],
                                   dst |-> t[2][2][1], bind |-> t[2][2][2]]]
<1>1. IsFiniteSet(Sites)
  <2>1. IsFiniteSet({Outside})
    BY FS_Singleton
  <2> QED BY <2>1, BlocksAssumption, FS_Union
<1>2. IsFiniteSet(ActionsOf)
  <2>1. Len(actions) \in Nat
    OBVIOUS
  <2> QED BY <2>1, FS_Interval DEF ActionsOf
<1>3. IsFiniteSet(EdgeTypes)
  <2>1. EdgeTypes \in SUBSET Nat /\ \A t \in EdgeTypes : t <= 2
    BY DEF EdgeTypes, ExecutionEdge, VisibilityEdge, PushEdge
  <2> QED BY <2>1, FS_BoundedSetOfNaturals
<1>4. IsFiniteSet(tuples)
  <2> HIDE DEF Sites
  <2>1. IsFiniteSet(ActionsOf \X Sites)
    BY <1>1, <1>2, FS_Product
  <2>2. IsFiniteSet(ActionsOf \X (ActionsOf \X Sites))
    BY <1>2, <2>1, FS_Product
  <2> QED BY <1>3, <2>2, FS_Product
<1>5. BindSites = Sites
  BY DEF BindSites
<1>6. f \in [tuples -> Edges]
  BY <1>5 DEF Edges
<1>7. ASSUME NEW e \in Edges
      PROVE  \E t \in tuples : f[t] = e
  <2>1. <<e.type, <<e.src, <<e.dst, e.bind>>>>>> \in tuples
    BY <1>5 DEF Edges
  <2>2. f[<<e.type, <<e.src, <<e.dst, e.bind>>>>>>] = e
    BY <2>1, <1>5 DEF Edges
  <2> QED BY <2>1, <2>2
<1>8. f \in Surjection(tuples, Edges)
  <2> HIDE DEF f, tuples
  <2> QED BY <1>6, <1>7 DEF Surjection
<1> HIDE DEF f, tuples
<1> QED BY <1>4, <1>8, FS_Surjection

-----------------------------------------------------------------------------
(* A block that an action reads in is no other action's: findActions gives *)
(* it a first block of its own, and a dummy action, which reads nothing,   *)
(* is only put where no action starts.                                     *)
Apart ==
  \A a, b \in ActionsOf :
    /\ actions[a].bb \in {actions[b].bb, actions[b].out}
    /\ actions[a].type # "PrePost" \/ actions[a].odep # NoValue
    => a = b

LEMMA ApartStart == ASSUME GraphInit PROVE Apart
BY ApartAssumption DEF GraphInit, Apart, ActionsOf

LEMMA ApartWithDummies ==
  ASSUME GraphInv, Apart, NEW bbs \in SUBSET Blocks, actions' = WithPrePost(bbs)
  PROVE  Apart'
<1>1. /\ Len(actions) \in Nat /\ Len(actions') \in Nat
      /\ \A a \in ActionsOf : actions'[a] = actions[a]
      /\ \A a \in 1 .. Len(actions') :
           \/ a \in ActionsOf
           \/ /\ actions'[a].bb = actions'[a].out
              /\ actions'[a].type = "PrePost" /\ actions'[a].odep = NoValue
              /\ \A x \in ActionsOf : actions[x].bb # actions'[a].bb
  BY WithPrePostType
<1>2. ASSUME NEW a \in 1 .. Len(actions'), NEW b \in 1 .. Len(actions'),
             actions'[a].bb \in {actions'[b].bb, actions'[b].out},
             actions'[a].type # "PrePost" \/ actions'[a].odep # NoValue
      PROVE  a = b
  <2>1. a \in ActionsOf /\ actions'[a] = actions[a]
    BY <1>1, <1>2
  <2>2. b \in ActionsOf /\ actions'[b] = actions[b]
    BY <1>1, <1>2, <2>1
  <2> QED BY <1>2, <2>1, <2>2 DEF Apart
<1> QED BY <1>2 DEF Apart, ActionsOf

LEMMA ApartStep ==
  ASSUME GraphInv, Apart, GraphNext
  PROVE  Apart'
<1>1. CASE FindEdges
  <2>1. pending # <<>> /\ actions' = WithPrePost(DummyBlocks(Head(pending)))
    BY <1>1 DEF FindEdges, ProcessEdge, ProcessPush
  <2> QED BY <2>1, DummyBlocksType, ApartWithDummies
<1>2. CASE UNCHANGED actions
  BY <1>2 DEF Apart, ActionsOf
<1> QED BY <1>1, <1>2 DEF GraphNext, BuildActionGraph, TransitiveClosure, AssertFails,
                          RemoveUselessEdges, RebuildEdges

(* removeUselessEdges leaves no useless edge to the cuts. *)
NoneUseless ==
  /\ pc = "rebuild" => \A e \in trans : ~Useless(e)
  /\ pc = "cut" => \A e \in edges : ~Useless(e)

LEMMA NoneUselessStep ==
  ASSUME NoneUseless, GraphNext
  PROVE  NoneUseless'
<1>1. ASSUME UNCHANGED actions PROVE \A e : Useless(e)' <=> Useless(e)
  BY <1>1 DEF Useless
<1>2. CASE FindEdges
  BY <1>2 DEF FindEdges, NoneUseless
<1>3. CASE RemoveUselessEdges
  <2>1. /\ \A e \in trans' : ~Useless(e)
        /\ pc' = "rebuild" /\ UNCHANGED actions
    BY <1>3 DEF RemoveUselessEdges
  <2> QED BY <1>1, <2>1 DEF NoneUseless
<1>4. CASE RebuildEdges
  <2>1. pc = "rebuild" /\ pc' = "cut" /\ edges' = trans /\ UNCHANGED actions
    BY <1>4 DEF RebuildEdges
  <2> QED BY <1>1, <2>1 DEF NoneUseless
<1>5. CASE BuildActionGraph \/ TransitiveClosure \/ AssertFails
  <2>1. pc' \notin {"rebuild", "cut"}
    BY <1>5 DEF BuildActionGraph, TransitiveClosure, AssertFails
  <2> QED BY <2>1 DEF NoneUseless
<1> QED BY <1>2, <1>3, <1>4, <1>5 DEF GraphNext
=============================================================================
