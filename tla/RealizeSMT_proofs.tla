------------------------- MODULE RealizeSMT_proofs -------------------------
(***************************************************************************)
(* The placement of fences by the solver, whatever the function, its       *)
(* control-flow graph, its edges and the architecture are: capacities are  *)
(* found unless the function may get to where there is no way out, the     *)
(* solver is never asked for the impossible, some solution costs no more   *)
(* than a fence in front of the destination of each edge, the search for   *)
(* the least cost never loses it, and the cuts of a solution, once they    *)
(* are inserted, order every edge that needs no address on every walk.     *)
(***************************************************************************)
EXTENDS RealizeSMT, ActionGraph_proofs

-----------------------------------------------------------------------------
(* Sums of natural numbers. *)
SumsUp(f, c, S) ==
  f = [U \in SUBSET S |-> IF U = {} THEN 0 ELSE c[Pick(U)] + f[Rest(U)]]
Sum(c, S) == (CHOOSE f : SumsUp(f, c, S))[S]

LEMMA SumExists ==
  ASSUME NEW D, NEW c \in [D -> Nat], NEW S \in SUBSET D, IsFiniteSet(S)
  PROVE  SumsUp(CHOOSE f : SumsUp(f, c, S), c, S)
<1> DEFINE H == [p \in S \X Nat |-> c[p[1]] + p[2]]
<1>1. H \in [S \X Nat -> Nat]
  OBVIOUS
<1>2. PICK f \in [SUBSET S -> Nat] : FoldsInto(f, S, 0, H)
  <2> HIDE DEF H
  <2> QED BY <1>1, FoldExists
<1>3. ASSUME NEW U \in SUBSET S, U # {}
      PROVE  H[<<Pick(U), f[Rest(U)]>>] = c[Pick(U)] + f[Rest(U)]
  BY <1>3, PickIsIn
<1>4. SumsUp(f, c, S)
  <2> DEFINE g == [U \in SUBSET S |-> IF U = {} THEN 0 ELSE c[Pick(U)] + f[Rest(U)]]
  <2>1. f = [U \in SUBSET S |-> IF U = {} THEN 0 ELSE H[<<Pick(U), f[Rest(U)]>>]]
    BY <1>2 DEF FoldsInto
  <2>2. \A U \in SUBSET S : f[U] = g[U]
    <3> HIDE DEF H
    <3> QED BY <1>3, <2>1
  <2>3. f = g
    <3> HIDE DEF H
    <3> QED BY <2>2, <1>2
  <2> QED BY <2>3 DEF SumsUp
<1>5. \E h : SumsUp(h, c, S)
  BY <1>4
<1> QED BY <1>5

LEMMA SumsAgree ==
  ASSUME NEW D, NEW c \in [D -> Nat], NEW S \in SUBSET D, IsFiniteSet(S),
         NEW f, SumsUp(f, c, S), NEW T \in SUBSET S, NEW g, SumsUp(g, c, T)
  PROVE  f[T] = g[T] /\ f[T] \in Nat
<1> DEFINE P == {U \in SUBSET T : f[U] = g[U] /\ f[U] \in Nat}
<1>1. /\ \A U \in SUBSET S : f[U] = IF U = {} THEN 0 ELSE c[Pick(U)] + f[Rest(U)]
      /\ \A U \in SUBSET T : g[U] = IF U = {} THEN 0 ELSE c[Pick(U)] + g[Rest(U)]
  BY DEF SumsUp
<1>2. {} \in P
  <2>1. {} \in SUBSET S /\ {} \in SUBSET T
    OBVIOUS
  <2>2. f[{}] = 0 /\ g[{}] = 0
    BY <1>1, <2>1
  <2> QED BY <2>1, <2>2
<1>3. ASSUME NEW U \in SUBSET T, U # {}, Rest(U) \in P
      PROVE  U \in P
  <2>1. Pick(U) \in D /\ c[Pick(U)] \in Nat
    BY <1>3, PickIsIn
  <2> QED BY <1>1, <1>3, <2>1
<1>4. P = SUBSET T
  <2>1. IsFiniteSet(T) /\ P \in SUBSET (SUBSET T)
    BY FS_Subset
  <2> HIDE DEF P
  <2> QED BY <1>2, <1>3, <2>1, RestInduction
<1> QED BY <1>4

LEMMA SumUnfolds ==
  ASSUME NEW D, NEW c \in [D -> Nat], NEW S \in SUBSET D, IsFiniteSet(S)
  PROVE  /\ Sum(c, S) \in Nat
         /\ S = {} => Sum(c, S) = 0
         /\ S # {} => /\ c[Pick(S)] \in Nat
                      /\ Sum(c, Rest(S)) \in Nat
                      /\ Sum(c, S) = c[Pick(S)] + Sum(c, Rest(S))
<1>1. PICK f : f = CHOOSE h : SumsUp(h, c, S)
  OBVIOUS
<1>2. SumsUp(f, c, S) /\ Sum(c, S) = f[S]
  BY <1>1, SumExists DEF Sum
<1>3. f[S] = IF S = {} THEN 0 ELSE c[Pick(S)] + f[Rest(S)]
  BY <1>2 DEF SumsUp
<1>4. f[S] \in Nat
  BY <1>2, SumsAgree
<1>5. ASSUME S # {}
      PROVE  c[Pick(S)] \in Nat /\ Sum(c, Rest(S)) = f[Rest(S)] /\ f[Rest(S)] \in Nat
  <2>1. Rest(S) \in SUBSET S /\ IsFiniteSet(Rest(S)) /\ c[Pick(S)] \in Nat
    BY <1>5, PickIsIn, RestIsSmaller
  <2>2. PICK g : g = CHOOSE h : SumsUp(h, c, Rest(S))
    OBVIOUS
  <2>3. SumsUp(g, c, Rest(S)) /\ Sum(c, Rest(S)) = g[Rest(S)]
    BY <2>1, <2>2, SumExists DEF Sum
  <2>4. f[Rest(S)] = g[Rest(S)] /\ f[Rest(S)] \in Nat
    BY <1>2, <2>1, <2>3, SumsAgree
  <2> QED BY <2>1, <2>3, <2>4
<1> QED BY <1>2, <1>3, <1>4, <1>5

LEMMA SumRemove ==
  ASSUME NEW D, NEW c \in [D -> Nat], NEW S \in SUBSET D, IsFiniteSet(S),
         NEW x \in S
  PROVE  Sum(c, S) = c[x] + Sum(c, S \ {x})
<1> DEFINE Wrong == {U \in SUBSET S : \E y \in U : Sum(c, U) # c[y] + Sum(c, U \ {y})}
<1>1. SUFFICES ASSUME Wrong # {} PROVE FALSE
  OBVIOUS
<1>2. /\ \A U \in SUBSET S : IsFiniteSet(U) /\ Cardinality(U) \in Nat
      /\ \E U \in Wrong : \A T \in Wrong : Cardinality(U) <= Cardinality(T)
  <2>1. Wrong \in SUBSET (SUBSET S)
    OBVIOUS
  <2> HIDE DEF Wrong
  <2> QED BY <1>1, <2>1, SmallestSet
<1>3. PICK U \in Wrong : \A T \in Wrong : Cardinality(U) <= Cardinality(T)
  BY <1>2
<1>4. PICK y \in U : Sum(c, U) # c[y] + Sum(c, U \ {y})
  BY <1>3
<1>5. U \in SUBSET S /\ IsFiniteSet(U)
  BY <1>2, <1>3
<1>6. \A T \in SUBSET S : Sum(c, T) \in Nat
  BY <1>2, SumUnfolds
<1>7. ASSUME NEW z \in U, NEW w \in U \ {z}
      PROVE  Sum(c, U \ {z}) = c[w] + Sum(c, U \ {z, w})
  <2>1. U \ {z} \in SUBSET S /\ (U \ {z}) \ {w} = U \ {z, w}
    BY <1>5
  <2>2. Cardinality(U \ {z}) < Cardinality(U)
    BY <1>2, <1>5, FS_RemoveElement
  <2>3. U \ {z} \notin Wrong
    <3> HIDE DEF Wrong
    <3> QED BY <1>2, <1>3, <1>5, <2>1, <2>2
  <2> QED BY <2>1, <2>3
<1>8. PICK z : z = Pick(U)
  OBVIOUS
<1>9. z \in U /\ Sum(c, U) = c[z] + Sum(c, U \ {z})
  BY <1>5, <1>8, PickIsIn, SumUnfolds DEF Rest
<1>10. y # z
  BY <1>4, <1>9
<1>11. Sum(c, U \ {z}) = c[y] + Sum(c, U \ {z, y})
  BY <1>7, <1>9, <1>10
<1>12. Sum(c, U \ {y}) = c[z] + Sum(c, U \ {z, y})
  <2>1. U \ {z, y} = U \ {y, z}
    OBVIOUS
  <2> QED BY <1>7, <1>9, <1>10, <2>1
<1>13. c[y] \in Nat /\ c[z] \in Nat /\ Sum(c, U \ {z, y}) \in Nat
  BY <1>5, <1>6, <1>9
<1> QED BY <1>4, <1>9, <1>11, <1>12, <1>13

LEMMA SumGrows ==
  ASSUME NEW D, NEW c \in [D -> Nat], NEW S \in SUBSET D, IsFiniteSet(S),
         NEW T \in SUBSET S
  PROVE  Sum(c, T) \in Nat /\ Sum(c, S) \in Nat /\ Sum(c, T) <= Sum(c, S)
<1> DEFINE Wrong == {U \in SUBSET S : T \subseteq U /\ ~(Sum(c, T) <= Sum(c, U))}
<1>1. \A U \in SUBSET S : IsFiniteSet(U) /\ Sum(c, U) \in Nat
  BY FS_Subset, SumUnfolds
<1>2. SUFFICES ASSUME Wrong # {} PROVE FALSE
  BY <1>1
<1>3. /\ \A U \in SUBSET S : IsFiniteSet(U) /\ Cardinality(U) \in Nat
      /\ \E U \in Wrong : \A V \in Wrong : Cardinality(U) <= Cardinality(V)
  <2>1. Wrong \in SUBSET (SUBSET S)
    OBVIOUS
  <2> HIDE DEF Wrong
  <2> QED BY <1>2, <2>1, SmallestSet
<1>4. PICK U \in Wrong : \A V \in Wrong : Cardinality(U) <= Cardinality(V)
  BY <1>3
<1>5. U \in SUBSET S /\ T \subseteq U /\ ~(Sum(c, T) <= Sum(c, U))
  BY <1>4
<1>6. U # T
  BY <1>1, <1>5
<1>7. PICK x \in U : x \notin T
  BY <1>5, <1>6
<1>8. U \ {x} \in Wrong
  <2>1. Sum(c, U) = c[x] + Sum(c, U \ {x})
    BY <1>1, <1>5, SumRemove
  <2>2. U \ {x} \in SUBSET S /\ T \subseteq U \ {x} /\ c[x] \in Nat
    BY <1>5, <1>7
  <2>3. Sum(c, U \ {x}) \in Nat /\ Sum(c, T) \in Nat /\ Sum(c, U) \in Nat
    BY <1>1, <1>5, <2>2
  <2> QED BY <1>5, <2>1, <2>2, <2>3
<1>9. Cardinality(U \ {x}) < Cardinality(U)
  BY <1>3, <1>5, FS_RemoveElement
<1>10. Cardinality(U \ {x}) \in Nat /\ Cardinality(U) \in Nat
  BY <1>3, <1>5, <1>8
<1> HIDE DEF Wrong
<1> QED BY <1>1, <1>4, <1>8, <1>9, <1>10

(* Sums over sets that are apart add up. *)
LEMMA SumApart ==
  ASSUME NEW D, NEW c \in [D -> Nat], NEW A \in SUBSET D, NEW B \in SUBSET D,
         IsFiniteSet(A), IsFiniteSet(B), A \cap B = {}
  PROVE  Sum(c, A \cup B) = Sum(c, A) + Sum(c, B)
<1> DEFINE P == {U \in SUBSET B : Sum(c, A \cup U) = Sum(c, A) + Sum(c, U)}
<1>1. ASSUME NEW U \in SUBSET B
      PROVE  /\ IsFiniteSet(U) /\ IsFiniteSet(A \cup U) /\ U \in SUBSET D
             /\ A \cup U \in SUBSET D
             /\ Sum(c, U) \in Nat /\ Sum(c, A) \in Nat /\ Sum(c, A \cup U) \in Nat
  <2>1. IsFiniteSet(U) /\ IsFiniteSet(A \cup U)
    BY FS_Subset, FS_Union
  <2> QED BY <2>1, SumUnfolds
<1>2. {} \in P
  <2>1. A \cup {} = A /\ {} \in SUBSET B
    OBVIOUS
  <2>2. Sum(c, {}) = 0
    <3>1. IsFiniteSet({}) /\ {} \in SUBSET D
      BY FS_EmptySet
    <3> QED BY <3>1, SumUnfolds
  <2>3. Sum(c, A) = Sum(c, A) + Sum(c, {})
    <3>1. Sum(c, A) \in Nat
      BY SumUnfolds
    <3> QED BY <2>2, <3>1
  <2>4. Sum(c, A \cup {}) = Sum(c, A)
    BY <2>1, Zenon
  <2> QED BY <2>1, <2>3, <2>4
<1>3. ASSUME NEW U \in SUBSET B, U # {}, Rest(U) \in P
      PROVE  U \in P
  <2>1. PICK x : x = Pick(U)
    OBVIOUS
  <2>2. x \in U /\ Rest(U) = U \ {x} /\ Rest(U) \in SUBSET B
    BY <1>3, <2>1, PickIsIn DEF Rest
  <2>3. (A \cup U) \ {x} = A \cup Rest(U) /\ x \in A \cup U /\ x \in D
    BY <2>2
  <2>4. Sum(c, A \cup U) = c[x] + Sum(c, A \cup Rest(U))
    <3>1. PICK B1 : B1 = A \cup U
      OBVIOUS
    <3>2. B1 \in SUBSET D /\ IsFiniteSet(B1) /\ x \in B1 /\ B1 \ {x} = A \cup Rest(U)
      BY <1>1, <2>3, <3>1
    <3>3. Sum(c, B1) = c[x] + Sum(c, B1 \ {x})
      BY <3>2, SumRemove
    <3> QED BY <3>1, <3>2, <3>3
  <2>5. Sum(c, U) = c[x] + Sum(c, Rest(U))
    <3>1. U \in SUBSET D /\ IsFiniteSet(U)
      BY <1>1
    <3> HIDE DEF P
    <3> QED BY <2>2, <3>1, SumRemove
  <2>6. c[x] \in Nat
    BY <2>3
  <2>7. Sum(c, A \cup Rest(U)) = Sum(c, A) + Sum(c, Rest(U))
    BY <1>3
  <2>8. Sum(c, A) \in Nat /\ Sum(c, Rest(U)) \in Nat
    BY <1>1, <2>2
  <2> QED BY <2>4, <2>5, <2>6, <2>7, <2>8
<1>4. P = SUBSET B
  <2>1. P \in SUBSET (SUBSET B)
    OBVIOUS
  <2> HIDE DEF P
  <2> QED BY <1>2, <1>3, <2>1, RestInduction
<1> QED BY <1>4

(* If each c[x] is a sum of its own part of G, their sum is that of G.     *)
LEMMA SumOfParts ==
  ASSUME NEW D, NEW c \in [D -> Nat], NEW S \in SUBSET D, IsFiniteSet(S),
         NEW E, NEW G \in [E -> Nat], IsFiniteSet(E), NEW Part \in [S -> SUBSET E],
         \A x, y \in S : x # y => Part[x] \cap Part[y] = {},
         \A x \in S : c[x] = Sum(G, Part[x])
  PROVE  Sum(c, S) = Sum(G, UNION {Part[x] : x \in S})
<1> DEFINE All(U) == UNION {Part[x] : x \in U}
           P == {U \in SUBSET S : Sum(c, U) = Sum(G, All(U))}
<1>1. ASSUME NEW U \in SUBSET S
      PROVE  IsFiniteSet(U) /\ All(U) \in SUBSET E /\ IsFiniteSet(All(U))
  BY FS_Subset
<1>2. {} \in P
  <2>1. All({}) = {} /\ {} \in SUBSET S
    OBVIOUS
  <2>2. IsFiniteSet({}) /\ {} \in SUBSET E /\ {} \in SUBSET D
    BY FS_EmptySet
  <2>3. Sum(c, {}) = 0 /\ Sum(G, {}) = 0
    BY <2>2, SumUnfolds
  <2> QED BY <2>1, <2>3
<1>3. ASSUME NEW U \in SUBSET S, U # {}, Rest(U) \in P
      PROVE  U \in P
  <2>1. PICK x : x = Pick(U)
    OBVIOUS
  <2>2. x \in U /\ Rest(U) = U \ {x} /\ Rest(U) \in SUBSET S
    BY <1>3, <2>1, PickIsIn DEF Rest
  <2>3. All(U) = All(Rest(U)) \cup Part[x] /\ All(Rest(U)) \cap Part[x] = {}
    BY <2>2
  <2>4. Sum(c, U) = c[x] + Sum(c, Rest(U))
    <3>1. U \in SUBSET D /\ IsFiniteSet(U)
      BY <1>1
    <3> HIDE DEF P
    <3> QED BY <2>2, <3>1, SumRemove
  <2>5. IsFiniteSet(Part[x]) /\ Part[x] \in SUBSET E
    BY <2>2, FS_Subset
  <2>6. Sum(G, All(U)) = Sum(G, All(Rest(U))) + Sum(G, Part[x])
    <3>1. PICK A : A = All(Rest(U))
      OBVIOUS
    <3>2. A \in SUBSET E /\ IsFiniteSet(A) /\ A \cap Part[x] = {} /\ All(U) = A \cup Part[x]
      <4> HIDE DEF All
      <4> QED BY <1>1, <2>2, <2>3, <3>1
    <3>3. Sum(G, A \cup Part[x]) = Sum(G, A) + Sum(G, Part[x])
      <4> HIDE DEF All, P
      <4> QED BY <2>5, <3>2, SumApart
    <3> HIDE DEF All
    <3> QED BY <3>1, <3>2, <3>3
  <2>7. Sum(G, All(Rest(U))) \in Nat /\ Sum(G, Part[x]) \in Nat
    <3> HIDE DEF All
    <3> QED BY <1>1, <2>2, <2>5, SumUnfolds
  <2>8. Sum(c, Rest(U)) = Sum(G, All(Rest(U))) /\ c[x] = Sum(G, Part[x])
    BY <1>3, <2>2
  <2>9. Sum(c, U) = Sum(G, All(U))
    <3> HIDE DEF All
    <3> QED BY <2>4, <2>6, <2>7, <2>8
  <2> QED BY <2>9
<1>4. P = SUBSET S
  <2>1. P \in SUBSET (SUBSET S)
    OBVIOUS
  <2> HIDE DEF P
  <2> QED BY <1>2, <1>3, <2>1, RestInduction
<1> QED BY <1>4

LEMMA SumScales ==
  ASSUME NEW D, NEW c \in [D -> Nat], NEW d \in [D -> Nat], NEW S \in SUBSET D,
         IsFiniteSet(S), NEW k \in Nat, NEW m \in Nat,
         \A x \in S : k * c[x] = m * d[x]
  PROVE  k * Sum(c, S) = m * Sum(d, S)
<1> DEFINE P == {U \in SUBSET S : k * Sum(c, U) = m * Sum(d, U)}
<1>1. ASSUME NEW U \in SUBSET S
      PROVE  IsFiniteSet(U) /\ Sum(c, U) \in Nat /\ Sum(d, U) \in Nat
  BY FS_Subset, SumUnfolds
<1>2. {} \in P
  <2>1. {} \in SUBSET S
    OBVIOUS
  <2>2. Sum(c, {}) = 0 /\ Sum(d, {}) = 0
    BY <1>1, <2>1, SumUnfolds
  <2> QED BY <2>1, <2>2
<1>3. ASSUME NEW U \in SUBSET S, U # {}, Rest(U) \in P
      PROVE  U \in P
  <2>1. PICK x : x = Pick(U)
    OBVIOUS
  <2>2. x \in U /\ Rest(U) = U \ {x} /\ Rest(U) \in SUBSET S
    BY <1>3, <2>1, PickIsIn DEF Rest
  <2>3. Sum(c, U) = c[x] + Sum(c, Rest(U)) /\ Sum(d, U) = d[x] + Sum(d, Rest(U))
    BY <1>1, <2>2, SumRemove
  <2>4. PICK p, q, r, s \in Nat : /\ p = c[x] /\ q = Sum(c, Rest(U))
                                  /\ r = d[x] /\ s = Sum(d, Rest(U))
    BY <1>1, <2>2
  <2>5. k * p = m * r /\ k * q = m * s
    BY <1>3, <2>2, <2>4
  <2>6. k * (p + q) = k * p + k * q /\ m * (r + s) = m * r + m * s
    OBVIOUS
  <2> QED BY <2>3, <2>4, <2>5, <2>6
<1>4. P = SUBSET S
  <2>1. P \in SUBSET (SUBSET S)
    OBVIOUS
  <2> HIDE DEF P
  <2> QED BY <1>2, <1>3, <2>1, RestInduction
<1> QED BY <1>4

(* A sum that is not zero has a term that is not. *)
LEMMA SumIsZero ==
  ASSUME NEW D, NEW c \in [D -> Nat], NEW S \in SUBSET D, IsFiniteSet(S)
  PROVE  Sum(c, S) = 0 <=> \A x \in S : c[x] = 0
<1>1. ASSUME \A x \in S : c[x] = 0 PROVE Sum(c, S) = 0
  <2>1. \A x \in S : 1 * c[x] = 0 * c[x]
    BY <1>1
  <2>2. 1 * Sum(c, S) = 0 * Sum(c, S)
    BY <2>1, SumScales
  <2> QED BY <2>2, SumUnfolds
<1>2. ASSUME Sum(c, S) = 0, NEW x \in S PROVE c[x] = 0
  <2>1. Sum(c, S) = c[x] + Sum(c, S \ {x})
    BY SumRemove
  <2>2. Sum(c, S \ {x}) \in Nat
    BY SumGrows
  <2> QED BY <1>2, <2>1, <2>2
<1> QED BY <1>1, <1>2

LEMMA SumOfOne ==
  ASSUME NEW D, NEW c \in [D -> Nat], NEW x \in D
  PROVE  Sum(c, {x}) = c[x]
<1>1. IsFiniteSet({x}) /\ IsFiniteSet({}) /\ {x} \ {x} = {}
  BY FS_Singleton, FS_EmptySet
<1>2. Sum(c, {x}) = c[x] + Sum(c, {x} \ {x}) /\ Sum(c, {}) = 0
  BY <1>1, SumRemove, SumUnfolds
<1> QED BY <1>1, <1>2

LEMMA Divides ==
  \A p \in Nat : \A q \in Nat \ {0} : p % q = 0 => q * (p \div q) = p
OBVIOUS

LEMMA Cancels ==
  \A p \in Nat : \A q \in Nat : \A r \in Nat \ {0} : r * p = r * q => p = q
OBVIOUS

(* The sum as the community modules write it. *)
LEMMA MapSumIsSum ==
  ASSUME NEW D, NEW c \in [D -> Nat], NEW S \in SUBSET D, IsFiniteSet(S)
  PROVE  MapThenSumSet(LAMBDA x : c[x], S) = Sum(c, S)
<1> DEFINE Sums(f) == f = [U \in SUBSET S |-> IF U = {} THEN 0
                                              ELSE c[Pick(U)] + f[Rest(U)]]
<1>1. MapThenSumSet(LAMBDA x : c[x], S) = (CHOOSE f : Sums(f))[S]
  BY DEF MapThenSumSet, MapThenFoldSet, Pick, Rest
<1> QED BY <1>1, Zenon DEF Sum, SumsUp

(* What the solver is asked about.  The cuts the architecture has, and the *)
(* finite sets of them.                                                    *)
FenceVars ==
  {v \in [kind : Fences \cup Strengths, src : Blocks, dst : Blocks] : params[v.kind] >= 0}
CtrlVars ==
  {v \in [kind : {"ctrl"}, src : Blocks, dst : Blocks, dep : ActionsOf] :
     params.addCtrl >= 0}
DataVars ==
  {v \in [kind : {"data"}, src : Blocks, dst : Blocks, dep : ActionsOf,
          bind : BindSites, path : Seq(Blocks)] :
     /\ params.useData >= 0
     /\ \E b \in Blocks : v.dst \in Succ(fn.cfg, b)}
CutVars == FenceVars \cup CtrlVars \cup DataVars
Solutions == {S \in SUBSET CutVars : IsFiniteSet(S)}

WeightsOK == cap.weight \in [Blocks \X Blocks -> Nat]

FormulasOK ==
  /\ fn \in Functions
  /\ actions \in Seq(ActionRecords(fn))
  /\ edges \subseteq Edges
  /\ target \in Targets
  /\ WeightsOK

LEMMA ParamsType ==
  ASSUME target \in Targets
  PROVE  /\ \A k \in Fences \cup Strengths : params[k] \in Int
         /\ params.sync \in Nat /\ params["sync"] = params.sync
         /\ params["lwsync"] = params.lwsync
         /\ params.addCtrl \in Int /\ params.useData \in Int
         /\ params.addCtrl >= 0 => params.useCtrl \in Nat
<1> DEFINE Keys == {"sync", "lwsync", "isync", "dmbst", "dmbld", "release", "acquire"}
           OK(p) == /\ \A k \in Keys : p[k] \in Int
                    /\ p.sync \in Nat
                    /\ p.addCtrl \in Int /\ p.useData \in Int
                    /\ p.addCtrl >= 0 => p.useCtrl \in Nat
<1>1. Fences \cup Strengths = Keys
  BY DEF Fences, Strengths
<1>2. CASE target = "x86"
  <2>1. params = [DefaultParams EXCEPT !.sync = 800, !.lwsync = 500]
    BY <1>2 DEF params, ArchParams
  <2>2. OK(params)
    BY <2>1 DEF DefaultParams, Never
  <2> QED BY <1>1, <2>2
<1>3. CASE target = "POWER"
  <2>1. params = [WithDependencies(DefaultParams)
                  EXCEPT !.sync = 800, !.lwsync = 500, !.isync = 200]
    BY <1>3 DEF params, ArchParams
  <2>2. OK(params)
    BY <2>1 DEF WithDependencies, DefaultParams, Never
  <2> QED BY <1>1, <2>2
<1>4. CASE target = "ARM"
  <2>1. params = [WithDependencies(DefaultParams) EXCEPT !.sync = 500, !.dmbst = 350]
    BY <1>4 DEF params, ArchParams
  <2>2. OK(params)
    BY <2>1 DEF WithDependencies, DefaultParams, Never
  <2> QED BY <1>1, <2>2
<1>5. CASE target = "ARMv8"
  <2>1. params = [WithDependencies(DefaultParams)
                  EXCEPT !.sync = 800, !.lwsync = 500, !.dmbst = 350, !.dmbld = 300,
                         !.release = 240, !.acquire = 240, !.relAbuse = TRUE]
    BY <1>5 DEF params, ArchParams
  <2>2. OK(params)
    BY <2>1 DEF WithDependencies, DefaultParams, Never
  <2> QED BY <1>1, <2>2
<1> QED BY <1>2, <1>3, <1>4, <1>5, TargetsAssumption

LEMMA NatTimes == \A m, n \in Nat : m * n \in Nat
OBVIOUS

LEMMA WeightType ==
  ASSUME WeightsOK, NEW s \in Blocks, NEW d \in Blocks
  PROVE  Weight(s, d) \in Nat
BY DEF WeightsOK, Weight

LEMMA CostType ==
  ASSUME FormulasOK, NEW v \in CutVars
  PROVE  CostOf(v) \in Nat
<1>1. CASE v \in FenceVars
  <2>1. v.kind \in Fences \cup Strengths /\ params[v.kind] \in Int /\ params[v.kind] >= 0
    BY <1>1, ParamsType DEF FenceVars, FormulasOK
  <2>2. v.kind # "ctrl" /\ v.kind # "data"
    BY <2>1 DEF Fences, Strengths
  <2>3. Weight(v.src, v.dst) \in Nat
    BY <1>1, WeightType DEF FenceVars, FormulasOK
  <2>4. CostOf(v) = params[v.kind] * Weight(v.src, v.dst) + 1
    BY <2>2 DEF CostOf
  <2>5. params[v.kind] * Weight(v.src, v.dst) \in Nat
    BY <2>1, <2>3, NatTimes
  <2> QED BY <2>4, <2>5
<1>2. CASE v \in CtrlVars
  <2>1. v.kind = "ctrl" /\ Weight(v.src, v.dst) \in Nat
    BY <1>2, WeightType DEF CtrlVars, FormulasOK
  <2>2. params.addCtrl \in Nat /\ params.useCtrl \in Nat
    BY <1>2, ParamsType DEF CtrlVars, FormulasOK
  <2>3. CostOf(v) = (IF BranchesOn(v.src, actions[v.dep].odep)
                     THEN params.useCtrl ELSE params.addCtrl) * Weight(v.src, v.dst)
    BY <2>1 DEF CostOf
  <2> QED BY <2>1, <2>2, <2>3, NatTimes
<1>3. CASE v \in DataVars
  <2>1. v.kind = "data" /\ v.dst \in Blocks /\ \E b \in Blocks : v.dst \in Succ(fn.cfg, b)
    BY <1>3 DEF DataVars
  <2>2. params.useData \in Nat
    BY <1>3, ParamsType DEF DataVars, FormulasOK
  <2>3. PICK b \in Blocks : b = CHOOSE c \in Blocks : v.dst \in Succ(fn.cfg, c)
    BY <2>1
  <2>4. CostOf(v) = params.useData * Weight(b, v.dst)
    BY <2>1, <2>3 DEF CostOf
  <2>5. Weight(b, v.dst) \in Nat
    BY <2>1, WeightType DEF FormulasOK
  <2> QED BY <2>2, <2>4, <2>5, NatTimes
<1> QED BY <1>1, <1>2, <1>3 DEF CutVars

Costs == [v \in CutVars |-> CostOf(v)]

LEMMA CostIsSum ==
  ASSUME FormulasOK, NEW S \in Solutions
  PROVE  /\ S \in SUBSET CutVars /\ IsFiniteSet(S)
         /\ Costs \in [CutVars -> Nat]
         /\ Cost(S) = Sum(Costs, S) /\ Cost(S) \in Nat
<1>1. S \in SUBSET CutVars /\ IsFiniteSet(S)
  BY DEF Solutions
<1>2. Costs \in [CutVars -> Nat]
  BY CostType DEF Costs
<1> DEFINE Sums(f) == f = [U \in SUBSET S |-> IF U = {} THEN 0 ELSE CostOf(Pick(U)) + f[Rest(U)]]
<1>3. Cost(S) = (CHOOSE f : Sums(f))[S]
  BY DEF Cost, MapThenSumSet, MapThenFoldSet, Pick, Rest
<1>4. ASSUME NEW f PROVE Sums(f) <=> SumsUp(f, Costs, S)
  <2>1. \A U \in SUBSET S : U # {} => Costs[Pick(U)] = CostOf(Pick(U))
    BY <1>1, PickIsIn DEF Costs
  <2> QED BY <2>1, Zenon DEF SumsUp
<1>5. PICK g : g = CHOOSE f : SumsUp(f, Costs, S)
  OBVIOUS
<1>6. SumsUp(g, Costs, S)
  BY <1>1, <1>2, <1>5, SumExists
<1>7. PICK f : f = CHOOSE h : Sums(h)
  OBVIOUS
<1>8. Sums(f)
  <2> HIDE DEF Sums
  <2> QED BY <1>4, <1>6, <1>7
<1>9. SumsUp(f, Costs, S)
  <2> HIDE DEF Sums
  <2> QED BY <1>4, <1>8
<1>10. f[S] = g[S] /\ f[S] \in Nat
  <2>1. S \in SUBSET S
    OBVIOUS
  <2> QED BY <1>1, <1>2, <1>6, <1>9, <2>1, SumsAgree
<1> HIDE DEF Sums
<1> QED BY <1>1, <1>2, <1>3, <1>5, <1>7, <1>10 DEF Sum

LEMMA CostGrows ==
  ASSUME FormulasOK, NEW S \in Solutions, NEW T \in SUBSET S
  PROVE  T \in Solutions /\ Cost(T) \in Nat /\ Cost(S) \in Nat /\ Cost(T) <= Cost(S)
<1>1. T \in Solutions
  BY FS_Subset DEF Solutions
<1>2. S \in SUBSET CutVars /\ IsFiniteSet(S) /\ Costs \in [CutVars -> Nat]
  BY CostIsSum
<1> QED BY <1>1, <1>2, CostIsSum, SumGrows

(* What finitely many things are mapped to is finite. *)
LEMMA ImageFinite ==
  ASSUME NEW S, IsFiniteSet(S), NEW f
  PROVE  IsFiniteSet({f[x] : x \in S})
<1> DEFINE T == {f[x] : x \in S}
           g == [x \in S |-> f[x]]
<1>1. g \in Surjection(S, T)
  BY DEF Surjection
<1> HIDE DEF g, T
<1> QED BY <1>1, FS_Surjection DEF T

LEMMA PathsFinite == IsFiniteSet(BlockSequences)
<1>1. ASSUME NEW n \in Nat PROVE IsFiniteSet([1 .. n -> Blocks])
  <2> DEFINE Tables == SUBSET ((1 .. n) \X Blocks)
             read == [t \in Tables |-> [i \in 1 .. n |-> CHOOSE b \in Blocks : <<i, b>> \in t]]
  <2>1. IsFiniteSet(Tables)
    <3>1. IsFiniteSet(1 .. n)
      BY FS_Interval
    <3>2. IsFiniteSet((1 .. n) \X Blocks)
      BY <3>1, BlocksAssumption, FS_Product
    <3> QED BY <3>2, FS_SUBSET
  <2>2. ASSUME NEW p \in [1 .. n -> Blocks] PROVE \E t \in Tables : read[t] = p
    <3> DEFINE t == {<<i, p[i]>> : i \in 1 .. n}
    <3>1. t \in Tables
      OBVIOUS
    <3>2. \A i \in 1 .. n : \A b \in Blocks : <<i, b>> \in t <=> b = p[i]
      OBVIOUS
    <3>3. \A i \in 1 .. n : (CHOOSE b \in Blocks : <<i, b>> \in t) = p[i]
      <4> HIDE DEF t
      <4> QED BY <3>2
    <3>4. read[t] = [i \in 1 .. n |-> CHOOSE b \in Blocks : <<i, b>> \in t]
      <4> HIDE DEF t
      <4> QED BY <3>1
    <3>5. read[t] = p
      <4> HIDE DEF t, read
      <4> QED BY <3>3, <3>4
    <3> QED BY <3>1, <3>5
  <2>3. [1 .. n -> Blocks] \subseteq {read[t] : t \in Tables}
    <3> HIDE DEF read, Tables
    <3> QED BY <2>2
  <2>4. IsFiniteSet({read[t] : t \in Tables})
    <3> HIDE DEF read, Tables
    <3> QED BY <2>1, ImageFinite
  <2> HIDE DEF read, Tables
  <2> QED BY <2>3, <2>4, FS_Subset
<1> DEFINE N == 1 .. Cardinality(Blocks) + 1
           seqs == [n \in N |-> [1 .. n -> Blocks]]
           Some == {seqs[n] : n \in N}
<1>2. Cardinality(Blocks) \in Nat
  BY BlocksAssumption, FS_CardinalityType
<1>3. IsFiniteSet(N)
  BY <1>2, FS_Interval
<1>4. IsFiniteSet(Some)
  <2> HIDE DEF N, seqs
  <2> QED BY <1>3, ImageFinite
<1>5. \A T \in Some : IsFiniteSet(T)
  BY <1>1, <1>2
<1>6. BlockSequences = UNION Some
  BY DEF BlockSequences
<1> HIDE DEF Some
<1> QED BY <1>4, <1>5, <1>6, FS_UNION

(* What findAllSimplePaths returns are walks through blocks. *)
LEMMA PathsType ==
  ASSUME fn \in Functions, NEW bind, NEW s, NEW d
  PROVE  /\ IsFiniteSet(PathsFrom(bind, s, d))
         /\ \A p \in PathsFrom(bind, s, d) :
              /\ p \in Seq(Blocks) /\ Len(p) >= 2
              /\ p[1] = s /\ p[Len(p)] = d
              /\ \A n \in 1 .. Len(p) - 1 : p[n + 1] \in Succ(fn.cfg, p[n])
<1>1. fn.cfg \in Graphs
  BY FunctionsAssumption
<1>2. ASSUME NEW p \in PathsFrom(bind, s, d)
      PROVE  /\ p \in BlockSequences /\ IsWalk(fn.cfg, p)
             /\ Len(p) >= 2 /\ p[1] = s /\ p[Len(p)] = d
  <2>1. p \in PathsOf(fn.cfg) /\ Len(p) >= 2 /\ p[1] = s /\ p[Len(p)] = d
    BY DEF PathsFrom, FindAllSimplePaths
  <2>2. p \in {r.path : r \in {q \in SimplePaths : q.graph = fn.cfg}}
    BY <1>1, <2>1, PathsOfGraph
  <2>3. \A q \in SimplePaths : q.path \in BlockSequences /\ IsWalk(q.graph, q.path)
    BY DEF SimplePaths
  <2> QED BY <2>1, <2>2, <2>3
<1>3. ASSUME NEW p \in BlockSequences PROVE p \in Seq(Blocks)
  <2>1. Cardinality(Blocks) \in Nat
    BY BlocksAssumption, FS_CardinalityType
  <2>2. PICK n \in 1 .. Cardinality(Blocks) + 1 : p \in [1 .. n -> Blocks]
    BY DEF BlockSequences
  <2>3. n \in Nat
    BY <2>1, <2>2
  <2> QED BY <2>2, <2>3
<1>4. IsFiniteSet(PathsFrom(bind, s, d))
  <2>1. PathsFrom(bind, s, d) \subseteq BlockSequences
    BY <1>2
  <2> QED BY <2>1, PathsFinite, FS_Subset
<1> QED BY <1>2, <1>3, <1>4 DEF IsWalk

LEMMA ActionsType ==
  ASSUME FormulasOK, NEW a \in ActionsOf
  PROVE  actions[a].bb \in Blocks /\ actions[a].out \in Blocks
<1>1. actions[a] \in ActionRecords(fn)
  BY DEF FormulasOK, ActionsOf
<1> QED BY <1>1 DEF ActionRecords

-----------------------------------------------------------------------------
(* A fence in front of the destination of every edge is a solution.        *)
LEMMA GreedyType ==
  ASSUME FormulasOK
  PROVE  GreedyFences \in Solutions
<1>1. ASSUME NEW e \in edges
      PROVE  GreedyFencesOf(e) \subseteq FenceVars /\ IsFiniteSet(GreedyFencesOf(e))
  <2> DEFINE k == IF e.type = PushEdge \/ params.lwsync < 0 THEN "sync" ELSE "lwsync"
             d == actions[e.dst].bb
             before == {c \in Blocks : d \in Succ(fn.cfg, c)}
             f == [b \in before |-> FenceVar(k, b, d)]
  <2>1. d \in Blocks
    <3>1. e.dst \in ActionsOf
      BY DEF FormulasOK, Edges
    <3> QED BY <3>1, ActionsType
  <2>2. k \in Fences /\ params[k] >= 0
    <3>1. params["lwsync"] = params.lwsync /\ params["sync"] >= 0
          /\ params["lwsync"] \in Int
      BY ParamsType DEF FormulasOK, Fences
    <3> QED BY <3>1 DEF Fences
  <2>3. GreedyFencesOf(e) = {f[b] : b \in before}
    BY DEF GreedyFencesOf
  <2>4. IsFiniteSet(before)
    BY BlocksAssumption, FS_Subset
  <2>5. \A b \in before : f[b] \in FenceVars
    <3> HIDE DEF k, d
    <3> QED BY <2>1, <2>2 DEF FenceVars, FenceVar
  <2> HIDE DEF f, before
  <2> QED BY <2>3, <2>4, <2>5, ImageFinite
<1> DEFINE f == [e \in edges |-> GreedyFencesOf(e)]
<1>2. IsFiniteSet(edges)
  BY EdgesFinite, FS_Subset DEF FormulasOK
<1>3. IsFiniteSet({f[e] : e \in edges})
  <2> HIDE DEF f
  <2> QED BY <1>2, ImageFinite
<1>4. GreedyFences = UNION {f[e] : e \in edges}
  BY DEF GreedyFences
<1>5. IsFiniteSet(GreedyFences)
  <2>1. \A T \in {f[e] : e \in edges} : IsFiniteSet(T)
    BY <1>1
  <2> HIDE DEF f
  <2> QED BY <1>3, <1>4, <2>1, FS_UNION
<1>6. GreedyFences \subseteq CutVars
  BY <1>1 DEF GreedyFences, CutVars
<1> QED BY <1>5, <1>6 DEF Solutions

(* Formulas over the cuts; some fences of GreedyFences make one true.      *)
Formulas == SUBSET Solutions
WithinGreedy(F) == \E S \in F : S \subseteq GreedyFences

LEMMA LeastType ==
  ASSUME FormulasOK, NEW F \in Formulas
  PROVE  /\ Least(F) \in Formulas
         /\ WithinGreedy(F) => WithinGreedy(Least(F))
<1>1. Least(F) \subseteq F
  BY DEF Least
<1>2. ASSUME WithinGreedy(F) PROVE WithinGreedy(Least(F))
  <2> DEFINE Q == {S \in F : S \subseteq GreedyFences}
  <2>1. IsFiniteSet(GreedyFences) /\ Q \in SUBSET (SUBSET GreedyFences) /\ Q # {}
    BY <1>2, GreedyType DEF WithinGreedy, Solutions
  <2>2. /\ \A U \in SUBSET GreedyFences : IsFiniteSet(U) /\ Cardinality(U) \in Nat
        /\ \E U \in Q : \A T \in Q : Cardinality(U) <= Cardinality(T)
    <3> HIDE DEF Q
    <3> QED BY <2>1, SmallestSet
  <2>3. PICK U \in Q : \A T \in Q : Cardinality(U) <= Cardinality(T)
    BY <2>2
  <2>4. \A S \in Q : Cost(S) <= Cost(GreedyFences)
    BY GreedyType, CostGrows
  <2>5. ASSUME NEW T \in F, T # U, T \subseteq U PROVE FALSE
    <3>1. T \in Q
      BY <2>3, <2>5
    <3>2. Cardinality(T) < Cardinality(U)
      <4>1. IsFiniteSet(U) /\ T \in SUBSET U
        BY <2>2, <2>3, <2>5
      <4>2. Cardinality(T) <= Cardinality(U) /\ (Cardinality(U) = Cardinality(T) => U = T)
        BY <4>1, FS_Subset
      <4> QED BY <4>2, <2>5, <2>2, <2>3, <3>1
    <3> QED BY <3>1, <3>2, <2>2, <2>3
  <2>6. U \in Least(F)
    <3>1. U \in F /\ Cost(U) <= Cost(GreedyFences)
      BY <2>3, <2>4
    <3> QED BY <3>1, <2>5 DEF Least
  <2> QED BY <2>3, <2>6 DEF WithinGreedy
<1> QED BY <1>1, <1>2 DEF Formulas

LEMMA AnyOfType ==
  ASSUME FormulasOK, NEW Fs \in SUBSET Formulas
  PROVE  /\ AnyOf(Fs) \in Formulas
         /\ (\E F \in Fs : WithinGreedy(F)) => WithinGreedy(AnyOf(Fs))
<1>1. UNION Fs \in Formulas
  BY DEF Formulas
<1>2. (\E F \in Fs : WithinGreedy(F)) => WithinGreedy(UNION Fs)
  BY DEF WithinGreedy
<1> QED BY <1>1, <1>2, LeastType DEF AnyOf

LEMMA AndType ==
  ASSUME FormulasOK, NEW F \in Formulas, NEW G \in Formulas
  PROVE  /\ And(F, G) \in Formulas
         /\ WithinGreedy(F) /\ WithinGreedy(G) => WithinGreedy(And(F, G))
<1> DEFINE H == {ST[1] \cup ST[2] : ST \in F \X G}
<1>1. H \in Formulas
  <2> SUFFICES ASSUME NEW S \in F, NEW T \in G PROVE S \cup T \in Solutions
    BY DEF Formulas
  <2>1. S \in Solutions /\ T \in Solutions
    BY DEF Formulas
  <2> QED BY <2>1, FS_Union DEF Solutions
<1>2. ASSUME WithinGreedy(F), WithinGreedy(G) PROVE WithinGreedy(H)
  <2>1. PICK S \in F : S \subseteq GreedyFences
    BY <1>2 DEF WithinGreedy
  <2>2. PICK T \in G : T \subseteq GreedyFences
    BY <1>2 DEF WithinGreedy
  <2>3. <<S, T>> \in F \X G
    OBVIOUS
  <2>4. S \cup T \in H
    BY <2>3
  <2> QED BY <2>1, <2>2, <2>4 DEF WithinGreedy
<1> HIDE DEF H
<1> QED BY <1>1, <1>2, LeastType DEF And, H

(* And with what no solution makes true. *)
LEMMA AndFalse == ASSUME NEW G PROVE And({}, G) = {}
BY DEF And, Least

LEMMA TrueType ==
  /\ TrueFormula \in Formulas /\ FalseFormula \in Formulas
  /\ WithinGreedy(TrueFormula)
<1>1. {} \in Solutions
  BY FS_EmptySet DEF Solutions
<1> QED BY <1>1 DEF TrueFormula, FalseFormula, Formulas, WithinGreedy

(* A conjunction is folded from its members one by one.                    *)
LEMMA AllOfUnfolds ==
  ASSUME FormulasOK, NEW Fs \in SUBSET Formulas, IsFiniteSet(Fs)
  PROVE  \E f : /\ \A U \in SUBSET Fs :
                     f[U] = IF U = {} THEN TrueFormula ELSE And(Pick(U), f[Rest(U)])
               /\ AllOf(Fs) = f[Fs]
<1> DEFINE Ands(f) == f = [U \in SUBSET Fs |-> IF U = {} THEN TrueFormula
                                               ELSE And(Pick(U), f[Rest(U)])]
           H == [p \in Fs \X Formulas |-> And(p[1], p[2])]
<1>1. H \in [Fs \X Formulas -> Formulas]
  BY AndType
<1>2. PICK g \in [SUBSET Fs -> Formulas] : FoldsInto(g, Fs, TrueFormula, H)
  <2> HIDE DEF H
  <2> QED BY <1>1, TrueType, FoldExists
<1>3. Ands(g)
  <2> DEFINE h == [U \in SUBSET Fs |-> IF U = {} THEN TrueFormula ELSE And(Pick(U), g[Rest(U)])]
  <2>1. g = [U \in SUBSET Fs |-> IF U = {} THEN TrueFormula ELSE H[<<Pick(U), g[Rest(U)]>>]]
    BY <1>2 DEF FoldsInto
  <2>2. ASSUME NEW U \in SUBSET Fs, U # {}
        PROVE  H[<<Pick(U), g[Rest(U)]>>] = And(Pick(U), g[Rest(U)])
    <3>1. <<Pick(U), g[Rest(U)]>> \in Fs \X Formulas
      BY <1>2, <2>2, PickIsIn
    <3> QED BY <3>1
  <2>3. \A U \in SUBSET Fs : g[U] = h[U]
    <3> HIDE DEF H
    <3> QED BY <2>1, <2>2
  <2>4. g = h
    <3> HIDE DEF H
    <3> QED BY <1>2, <2>3
  <2> QED BY <2>4
<1>4. AllOf(Fs) = (CHOOSE f : Ands(f))[Fs]
  BY DEF AllOf, FoldSet, MapThenFoldSet, Pick, Rest
<1>5. PICK f : f = CHOOSE h : Ands(h)
  OBVIOUS
<1>6. Ands(f)
  <2> HIDE DEF Ands
  <2> QED BY <1>3, <1>5
<1>7. \A U \in SUBSET Fs : f[U] = IF U = {} THEN TrueFormula ELSE And(Pick(U), f[Rest(U)])
  BY <1>6
<1>8. AllOf(Fs) = f[Fs]
  <2> HIDE DEF Ands
  <2> QED BY <1>4, <1>5
<1> HIDE DEF Ands
<1> QED BY <1>7, <1>8

LEMMA AllOfType ==
  ASSUME FormulasOK, NEW Fs \in SUBSET Formulas, IsFiniteSet(Fs)
  PROVE  /\ AllOf(Fs) \in Formulas
         /\ (\A F \in Fs : WithinGreedy(F)) => WithinGreedy(AllOf(Fs))
<1>1. PICK f : /\ \A U \in SUBSET Fs :
                     f[U] = IF U = {} THEN TrueFormula ELSE And(Pick(U), f[Rest(U)])
               /\ AllOf(Fs) = f[Fs]
  BY AllOfUnfolds
<1> DEFINE P == {U \in SUBSET Fs : /\ f[U] \in Formulas
                                   /\ (\A F \in U : WithinGreedy(F)) => WithinGreedy(f[U])}
<1>2. {} \in P
  <2>1. {} \in SUBSET Fs /\ f[{}] = TrueFormula
    BY <1>1
  <2> QED BY <2>1, TrueType
<1>3. ASSUME NEW U \in SUBSET Fs, U # {}, Rest(U) \in P
      PROVE  U \in P
  <2>1. Pick(U) \in U /\ Pick(U) \in Formulas /\ Rest(U) \subseteq U
    BY <1>3, PickIsIn
  <2>2. f[U] = And(Pick(U), f[Rest(U)])
    BY <1>1, <1>3
  <2>3. f[Rest(U)] \in Formulas
    BY <1>3
  <2> QED BY <1>3, <2>1, <2>2, <2>3, AndType
<1>4. P = SUBSET Fs
  <2>1. P \in SUBSET (SUBSET Fs)
    OBVIOUS
  <2> HIDE DEF P
  <2> QED BY <1>2, <1>3, <2>1, RestInduction
<1>5. Fs \in P
  BY <1>4
<1> QED BY <1>1, <1>5

-----------------------------------------------------------------------------
(* What cuts a path.                                                       *)
IsPath(p) ==
  /\ p \in Seq(Blocks)
  /\ \A n \in 1 .. Len(p) - 1 : p[n + 1] \in Succ(fn.cfg, p[n])

LEMMA SuffixIsPath ==
  ASSUME NEW p, IsPath(p), NEW n \in 1 .. Len(p)
  PROVE  IsPath(Suffix(p, n))
<1>1. p \in Seq(Blocks) /\ Len(p) \in Nat
  BY DEF IsPath
<1>2. /\ Suffix(p, n) \in Seq(Blocks)
      /\ Len(Suffix(p, n)) = Len(p) - n + 1
      /\ \A i \in 1 .. Len(p) - n + 1 : Suffix(p, n)[i] = p[n + i - 1]
  BY <1>1 DEF Suffix
<1>3. ASSUME NEW i \in 1 .. Len(Suffix(p, n)) - 1
      PROVE  Suffix(p, n)[i + 1] \in Succ(fn.cfg, Suffix(p, n)[i])
  <2>1. Suffix(p, n)[i + 1] = p[n + i] /\ Suffix(p, n)[i] = p[n + i - 1]
    BY <1>2
  <2>2. n + i - 1 \in 1 .. Len(p) - 1 /\ (n + i - 1) + 1 = n + i
    BY <1>1, <1>2
  <2>3. p[(n + i - 1) + 1] \in Succ(fn.cfg, p[n + i - 1])
    BY <2>2 DEF IsPath
  <2> QED BY <2>1, <2>2, <2>3
<1> QED BY <1>2, <1>3 DEF IsPath

LEMMA IsCutType ==
  ASSUME FormulasOK, NEW k \in Fences \cup Strengths, NEW s \in Blocks, NEW d \in Blocks
  PROVE  IsCut(k, s, d) \in Formulas
<1>1. CASE params[k] >= 0
  <2>1. FenceVar(k, s, d) \in CutVars
    BY <1>1 DEF FenceVar, FenceVars, CutVars
  <2>2. {FenceVar(k, s, d)} \in Solutions
    BY <2>1, FS_Singleton DEF Solutions
  <2> QED BY <1>1, <2>2 DEF IsCut, Formulas
<1>2. CASE ~(params[k] >= 0)
  BY <1>2, TrueType DEF IsCut
<1> QED BY <1>1, <1>2

LEMMA PathArcs ==
  ASSUME NEW p, IsPath(p), NEW n \in 1 .. Len(p) - 1
  PROVE  /\ Len(p) \in Nat /\ n \in Nat /\ n \in 1 .. Len(p) /\ n + 1 \in 1 .. Len(p)
         /\ p[n] \in Blocks /\ p[n + 1] \in Blocks
         /\ p[n + 1] \in Succ(fn.cfg, p[n])
BY DEF IsPath

LEMMA ArcCutType ==
  ASSUME FormulasOK, NEW k \in Fences, NEW p, IsPath(p)
  PROVE  /\ ArcCut(k, p) \in Formulas
         /\ (\E n \in 1 .. Len(p) - 1 : WithinGreedy(IsCut(k, p[n], p[n + 1])))
              => WithinGreedy(ArcCut(k, p))
<1> DEFINE Fs == {IsCut(k, p[n], p[n + 1]) : n \in 1 .. Len(p) - 1}
<1>1. Fs \in SUBSET Formulas
  <2> SUFFICES ASSUME NEW n \in 1 .. Len(p) - 1
               PROVE  IsCut(k, p[n], p[n + 1]) \in Formulas
    OBVIOUS
  <2> QED BY PathArcs, IsCutType
<1>2. (\E n \in 1 .. Len(p) - 1 : WithinGreedy(IsCut(k, p[n], p[n + 1])))
        => \E F \in Fs : WithinGreedy(F)
  OBVIOUS
<1>3. ArcCut(k, p) = AnyOf(Fs)
  BY DEF ArcCut
<1> HIDE DEF Fs
<1> QED BY <1>1, <1>2, <1>3, AnyOfType

LEMMA CtrlType ==
  ASSUME FormulasOK, params.addCtrl >= 0, NEW a \in ActionsOf,
         NEW s \in Blocks, NEW d \in Blocks
  PROVE  Ctrl(a, s, d) \in Formulas
<1>1. CtrlVar(a, s, d) \in CutVars
  BY DEF CtrlVar, CtrlVars, CutVars
<1>2. {CtrlVar(a, s, d)} \in Solutions
  BY <1>1, FS_Singleton DEF Solutions
<1>3. {{CtrlVar(a, s, d)}} \in Formulas /\ FalseFormula \in Formulas
  BY <1>2, TrueType DEF Formulas
<1>4. Ctrl(a, s, d) = {{CtrlVar(a, s, d)}} \/ Ctrl(a, s, d) = FalseFormula
  BY DEF Ctrl
<1> QED BY <1>3, <1>4

LEMMA PathCtrlType ==
  ASSUME FormulasOK, params.addCtrl >= 0, NEW a \in ActionsOf, NEW p, IsPath(p)
  PROVE  PathCtrl(a, p) \in Formulas
<1> DEFINE Fs == {Ctrl(a, p[n], p[n + 1]) : n \in 1 .. Len(p) - 1}
<1>1. Fs \in SUBSET Formulas
  <2> SUFFICES ASSUME NEW n \in 1 .. Len(p) - 1
               PROVE  Ctrl(a, p[n], p[n + 1]) \in Formulas
    OBVIOUS
  <2> QED BY PathArcs, CtrlType
<1>2. PathCtrl(a, p) = AnyOf(Fs)
  BY DEF PathCtrl
<1> HIDE DEF Fs
<1> QED BY <1>1, <1>2, AnyOfType

LEMMA PathCtrlIsyncType ==
  ASSUME FormulasOK, params.addCtrl >= 0, NEW a \in ActionsOf, NEW p, IsPath(p)
  PROVE  PathCtrlIsync(a, p) \in Formulas
<1> DEFINE Both(n) == And(Ctrl(a, p[n], p[n + 1]), ArcCut("isync", Suffix(p, n)))
           Fs == {Both(n) : n \in 1 .. Len(p) - 1}
<1>1. Fs \in SUBSET Formulas
  <2> SUFFICES ASSUME NEW n \in 1 .. Len(p) - 1 PROVE Both(n) \in Formulas
    OBVIOUS
  <2>1. Ctrl(a, p[n], p[n + 1]) \in Formulas
    BY PathArcs, CtrlType
  <2>2. IsPath(Suffix(p, n)) /\ "isync" \in Fences
    BY PathArcs, SuffixIsPath DEF Fences
  <2>3. ArcCut("isync", Suffix(p, n)) \in Formulas
    BY <2>2, ArcCutType
  <2> QED BY <2>1, <2>3, AndType
<1>2. PathCtrlIsync(a, p) = AnyOf(Fs)
  BY DEF PathCtrlIsync
<1> HIDE DEF Fs
<1> QED BY <1>1, <1>2, AnyOfType

LEMMA ReadersType == \A b : Readers(b) \subseteq ActionsOf
BY DEF Readers, ActionAtBlock

LEMMA PathCtrlCutType ==
  ASSUME FormulasOK, NEW p, IsPath(p), NEW tail
  PROVE  /\ PathCtrlCut(p, tail) \in Formulas
         /\ params.addCtrl < 0 => PathCtrlCut(p, tail) = {}
<1>1. CASE params.addCtrl < 0
  BY <1>1, TrueType DEF PathCtrlCut, FalseFormula
<1>2. CASE ~(params.addCtrl < 0)
  <2> DEFINE C == {PathCtrl(a, p) : a \in Readers(p[1])}
             D == {PathCtrlIsync(a, p) : a \in Readers(p[1])}
  <2>1. params.addCtrl >= 0
    BY <1>2, ParamsType DEF FormulasOK
  <2>2. C \in SUBSET Formulas /\ D \in SUBSET Formulas
    BY <2>1, ReadersType, PathCtrlType, PathCtrlIsyncType
  <2>3. PathCtrlCut(p, tail) = AnyOf(C) \/ PathCtrlCut(p, tail) = AnyOf(D)
    BY <1>2 DEF PathCtrlCut
  <2> HIDE DEF C, D
  <2> QED BY <1>2, <2>2, <2>3, AnyOfType
<1> QED BY <1>1, <1>2

LEMMA AllPathsCtrlType ==
  ASSUME FormulasOK, params.addCtrl >= 0, NEW a \in ActionsOf
  PROVE  AllPathsCtrl(a) \in Formulas
<1> DEFINE Ps == PathsFrom(Outside, actions[a].bb, actions[a].bb)
           f == [p \in Ps |-> PathCtrl(a, p)]
           Fs == {f[p] : p \in Ps}
<1>1. IsFiniteSet(Ps) /\ \A p \in Ps : IsPath(p)
  BY PathsType DEF FormulasOK, IsPath
<1>2. IsFiniteSet(Fs)
  <2> HIDE DEF Ps, f
  <2> QED BY <1>1, ImageFinite
<1>3. Fs \in SUBSET Formulas
  <2> HIDE DEF Ps
  <2> QED BY <1>1, PathCtrlType
<1>4. AllPathsCtrl(a) = AllOf(Fs)
  <2>1. Fs = {PathCtrl(a, p) : p \in Ps}
    <3> HIDE DEF Ps
    <3> QED OBVIOUS
  <2> QED BY <2>1 DEF AllPathsCtrl
<1> HIDE DEF Fs
<1> QED BY <1>2, <1>3, <1>4, AllOfType

LEMMA DataType ==
  ASSUME FormulasOK, params.useData >= 0, NEW a \in ActionsOf,
         NEW d \in Blocks, \E b \in Blocks : d \in Succ(fn.cfg, b),
         NEW p \in Seq(Blocks), NEW bind \in BindSites
  PROVE  Data(a, d, p, bind) \in Formulas
<1>1. DataVar(bind, a, d, p) \in CutVars
  BY ActionsType DEF DataVar, DataVars, CutVars
<1>2. {{DataVar(bind, a, d, p)}} \in Formulas
  <2>1. {DataVar(bind, a, d, p)} \in Solutions
    BY <1>1, FS_Singleton DEF Solutions
  <2> QED BY <2>1 DEF Formulas
<1> DEFINE Fs == {{{DataVar(bind, a, d, p)}} :
                    t \in {u \in ActionAtBlock(d) :
                             AddrDepsOn([src |-> a, dst |-> u, bind |-> bind], p)}}
<1>3. Fs \in SUBSET Formulas
  BY <1>2
<1>4. Data(a, d, p, bind) = AnyOf(Fs)
  BY DEF Data
<1> HIDE DEF Fs
<1> QED BY <1>3, <1>4, AnyOfType

(* makePathDataCut is recursive: what cuts the path from its i-th block is *)
(* made of what cuts it from the later ones, f.                            *)
DataThen(path, tail, bind, i, a, n, later) ==
  And(Data(a, path[n + 1], Suffix(path, i), bind),
      IF path[n + 1] = actions[tail].bb THEN TrueFormula
      ELSE AnyOf({PathCtrlCut(Suffix(path, n + 1), tail), later}))

DataFrom(path, tail, bind, i, f) ==
  AnyOf(UNION {{DataThen(path, tail, bind, i, a, n, f[n + 1]) : a \in Readers(path[i])} :
                 n \in i .. Len(path) - 1})

DataCuts(f, path, tail, bind) ==
  f = [i \in 1 .. Len(path) |-> DataFrom(path, tail, bind, i, f)]

LEMMA DataFromLater ==
  ASSUME NEW path, NEW tail, NEW bind, Len(path) \in Nat, NEW i \in 1 .. Len(path),
         NEW f, NEW g, \A m \in i + 1 .. Len(path) : f[m] = g[m]
  PROVE  DataFrom(path, tail, bind, i, f) = DataFrom(path, tail, bind, i, g)
<1> DEFINE part(h, n) == {DataThen(path, tail, bind, i, a, n, h[n + 1]) : a \in Readers(path[i])}
           whole(h) == UNION {part(h, n) : n \in i .. Len(path) - 1}
<1>1. ASSUME NEW n \in i .. Len(path) - 1 PROVE part(f, n) = part(g, n)
  <2>1. n + 1 \in i + 1 .. Len(path)
    OBVIOUS
  <2>2. f[n + 1] = g[n + 1]
    BY <2>1
  <2> QED BY <2>2
<1>2. whole(f) = whole(g)
  <2> HIDE DEF part
  <2> QED BY <1>1
<1>3. DataFrom(path, tail, bind, i, f) = AnyOf(whole(f))
      /\ DataFrom(path, tail, bind, i, g) = AnyOf(whole(g))
  BY DEF DataFrom
<1> HIDE DEF whole
<1> QED BY <1>2, <1>3

LEMMA DataCutsExist ==
  ASSUME NEW path, NEW tail, NEW bind, Len(path) \in Nat
  PROVE  \E f : DataCuts(f, path, tail, bind)
<1> DEFINE N == Len(path)
           From(i, f) == DataFrom(path, tail, bind, i, f)
           Done(k, f) == \A i \in 1 .. N : i > N - k => f[i] = From(i, f)
           Bad == {k \in 0 .. N : ~ \E f : Done(k, f)}
<1>1. Bad = {}
  <2> SUFFICES ASSUME Bad # {} PROVE FALSE
    OBVIOUS
  <2>1. PICK k \in Bad : \A m \in Bad : k <= m
    <3>1. Bad \in SUBSET Nat
      OBVIOUS
    <3> HIDE DEF Bad
    <3> QED BY <3>1, LeastNatural
  <2>2. k # 0
    <3>1. \A f : Done(0, f)
      OBVIOUS
    <3> HIDE DEF Done
    <3> QED BY <2>1, <3>1
  <2>3. PICK f : Done(k - 1, f)
    <3> HIDE DEF Done
    <3>1. k - 1 \in 0 .. N /\ ~(k <= k - 1)
      BY <2>1, <2>2
    <3>2. k - 1 \notin Bad
      BY <2>1, <3>1
    <3> QED BY <3>1, <3>2
  <2> DEFINE g == [i \in 1 .. N |-> From(i, f)]
  <2>4. k \in Nat /\ k <= N
    BY <2>1
  <2>5. ASSUME NEW i \in 1 .. N, i > N - k
        PROVE  g[i] = From(i, g)
    <3>1. ASSUME NEW m \in i + 1 .. N PROVE f[m] = g[m]
      <4>1. m \in 1 .. N /\ m > N - (k - 1)
        BY <2>4, <2>5
      <4>2. f[m] = From(m, f)
        BY <2>3, <4>1
      <4>3. g[m] = From(m, f)
        BY <4>1
      <4> QED BY <4>2, <4>3
    <3>2. From(i, f) = From(i, g)
      <4> HIDE DEF g
      <4> QED BY <3>1, DataFromLater
    <3> QED BY <3>2
  <2>6. Done(k, g)
    <3> HIDE DEF g, From
    <3> QED BY <2>5
  <2> HIDE DEF g, Done
  <2> QED BY <2>1, <2>6
<1>2. PICK f : Done(N, f)
  <2>1. N \in 0 .. N
    OBVIOUS
  <2> HIDE DEF Done
  <2> QED BY <1>1, <2>1
<1> DEFINE g == [i \in 1 .. N |-> f[i]]
<1>3. ASSUME NEW i \in 1 .. N PROVE g[i] = From(i, g)
  <2>1. f[i] = From(i, f)
    BY <1>2
  <2>2. From(i, f) = From(i, g)
    <3>1. \A m \in i + 1 .. N : f[m] = g[m]
      OBVIOUS
    <3> HIDE DEF g
    <3> QED BY <3>1, DataFromLater
  <2> QED BY <2>1, <2>2
<1>4. g = [i \in 1 .. N |-> From(i, g)]
  <2>1. g = [i \in 1 .. N |-> g[i]]
    OBVIOUS
  <2> HIDE DEF g, From
  <2> QED BY <1>3, <2>1
<1> HIDE DEF g
<1> QED BY <1>4 DEF DataCuts

LEMMA PathDataCutType ==
  ASSUME FormulasOK, NEW path, IsPath(path), Len(path) >= 2,
         NEW tail, NEW bind \in BindSites
  PROVE  PathDataCut(path, tail, bind) \in Formulas
<1>1. CASE params.useData < 0
  BY <1>1, TrueType DEF PathDataCut
<1>2. CASE ~(params.useData < 0)
  <2>1. Len(path) \in Nat /\ params.useData >= 0 /\ path \in Seq(Blocks)
    BY <1>2, ParamsType DEF FormulasOK, IsPath
  <2>2. PathDataCut(path, tail, bind) = (CHOOSE f : DataCuts(f, path, tail, bind))[1]
    BY <1>2 DEF PathDataCut, DataCuts, DataFrom, DataThen
  <2>3. PICK f : f = CHOOSE h : DataCuts(h, path, tail, bind)
    OBVIOUS
  <2>4. DataCuts(f, path, tail, bind)
    BY <2>1, <2>3, DataCutsExist
  <2>5. \A i \in 1 .. Len(path) : f[i] = DataFrom(path, tail, bind, i, f)
    BY <2>4 DEF DataCuts
  <2>6. ASSUME NEW i \in 1 .. Len(path),
               \A m \in i + 1 .. Len(path) : f[m] \in Formulas
        PROVE  f[i] \in Formulas
    <3>1. ASSUME NEW n \in i .. Len(path) - 1, NEW a \in Readers(path[i])
          PROVE  DataThen(path, tail, bind, i, a, n, f[n + 1]) \in Formulas
      <4>1. n \in 1 .. Len(path) - 1 /\ n + 1 \in i + 1 .. Len(path) /\ n + 1 \in 1 .. Len(path)
        BY <2>1
      <4>2. path[n] \in Blocks /\ path[n + 1] \in Blocks /\ path[n + 1] \in Succ(fn.cfg, path[n])
        BY <4>1, PathArcs
      <4>3. IsPath(Suffix(path, i)) /\ IsPath(Suffix(path, n + 1))
        BY <4>1, SuffixIsPath
      <4>4. Data(a, path[n + 1], Suffix(path, i), bind) \in Formulas
        BY <2>1, <4>2, <4>3, ReadersType, DataType DEF IsPath
      <4>5. {PathCtrlCut(Suffix(path, n + 1), tail), f[n + 1]} \in SUBSET Formulas
        BY <2>6, <4>1, <4>3, PathCtrlCutType
      <4>6. AnyOf({PathCtrlCut(Suffix(path, n + 1), tail), f[n + 1]}) \in Formulas
        BY <4>5, AnyOfType
      <4> QED BY <4>4, <4>6, TrueType, AndType DEF DataThen
    <3> DEFINE Fs == UNION {{DataThen(path, tail, bind, i, a, n, f[n + 1]) :
                               a \in Readers(path[i])} : n \in i .. Len(path) - 1}
    <3>2. Fs \in SUBSET Formulas
      BY <3>1
    <3>3. f[i] = AnyOf(Fs)
      BY <2>5 DEF DataFrom
    <3> HIDE DEF Fs
    <3> QED BY <3>2, <3>3, AnyOfType
  <2> DEFINE Bad == {k \in Nat : \E i \in 1 .. Len(path) : k = Len(path) - i /\ f[i] \notin Formulas}
  <2>7. ASSUME Bad # {} PROVE FALSE
    <3>1. PICK k \in Bad : \A m \in Bad : k <= m
      <4>1. Bad \in SUBSET Nat
        OBVIOUS
      <4> HIDE DEF Bad
      <4> QED BY <2>7, <4>1, LeastNatural
    <3>2. PICK i \in 1 .. Len(path) : k = Len(path) - i /\ f[i] \notin Formulas
      BY <3>1
    <3>3. ASSUME NEW m \in i + 1 .. Len(path) PROVE f[m] \in Formulas
      <4>1. Len(path) - m \in Nat /\ Len(path) - m < k /\ m \in 1 .. Len(path)
        BY <2>1, <3>2
      <4>2. Len(path) - m \notin Bad
        <5> HIDE DEF Bad
        <5> QED BY <3>1, <4>1, <3>2, <2>1
      <4> QED BY <4>1, <4>2
    <3> QED BY <2>6, <3>2, <3>3
  <2>8. f[1] \in Formulas
    <3>1. 1 \in 1 .. Len(path) /\ Len(path) - 1 \in Nat
      BY <2>1
    <3> QED BY <2>7, <3>1
  <2> QED BY <2>2, <2>3, <2>8
<1> QED BY <1>1, <1>2

(* A path to the destination of an edge ends in an arc with one of the     *)
(* fences of GreedyFences.                                                 *)
GreedyKind(e) == IF e.type = PushEdge \/ params.lwsync < 0 THEN "sync" ELSE "lwsync"

LEMMA GreedyCuts ==
  ASSUME FormulasOK, NEW e \in edges, NEW p, IsPath(p), Len(p) >= 2,
         p[Len(p)] = actions[e.dst].bb
  PROVE  WithinGreedy(ArcCut(GreedyKind(e), p))
<1> DEFINE n == Len(p) - 1
           k == GreedyKind(e)
<1>1. n \in 1 .. Len(p) - 1 /\ n + 1 = Len(p)
  BY DEF IsPath
<1>2. k \in Fences /\ params[k] >= 0
  BY ParamsType DEF GreedyKind, FormulasOK, Fences
<1>3. p[n] \in Blocks /\ p[n + 1] = actions[e.dst].bb /\ p[n + 1] \in Succ(fn.cfg, p[n])
  BY <1>1, PathArcs
<1>4. FenceVar(k, p[n], p[n + 1]) \in GreedyFences
  <2>1. FenceVar(k, p[n], p[n + 1]) \in GreedyFencesOf(e)
    BY <1>3 DEF GreedyFencesOf, GreedyKind
  <2> QED BY <2>1 DEF GreedyFences
<1>5. WithinGreedy(IsCut(k, p[n], p[n + 1]))
  BY <1>2, <1>4 DEF IsCut, WithinGreedy
<1> HIDE DEF k, n
<1> QED BY <1>1, <1>2, <1>5, ArcCutType DEF k

LEMMA PathVcutType ==
  ASSUME FormulasOK, NEW p, IsPath(p), NEW type
  PROVE  /\ PathVcut(p, type) \in Formulas
         /\ \A e \in edges :
              /\ e.type = PushEdge <=> type = PushEdge
              /\ Len(p) >= 2 /\ p[Len(p)] = actions[e.dst].bb
              => WithinGreedy(PathVcut(p, type))
<1> DEFINE afterWrites == \E a \in ActionAtBlock(p[1]) : actions[a].type = "SimpleWrites"
           Kinds == {"sync"} \cup (IF type = PushEdge THEN {} ELSE {"lwsync"})
                      \cup (IF type # PushEdge /\ afterWrites THEN {"dmbst"} ELSE {})
           Fs == {ArcCut(k, p) : k \in Kinds}
<1>1. PathVcut(p, type) = AnyOf(Fs)
  BY DEF PathVcut
<1>2. Kinds \subseteq Fences
  BY DEF Fences
<1>3. Fs \in SUBSET Formulas
  <2> HIDE DEF Kinds
  <2> QED BY <1>2, ArcCutType
<1>4. ASSUME NEW e \in edges, e.type = PushEdge <=> type = PushEdge,
             Len(p) >= 2, p[Len(p)] = actions[e.dst].bb
      PROVE  \E F \in Fs : WithinGreedy(F)
  <2>1. GreedyKind(e) \in Kinds
    BY <1>4 DEF GreedyKind
  <2>2. WithinGreedy(ArcCut(GreedyKind(e), p))
    BY <1>4, GreedyCuts
  <2> HIDE DEF Kinds
  <2> QED BY <2>1, <2>2
<1> HIDE DEF Fs
<1> QED BY <1>1, <1>3, <1>4, AnyOfType

LEMMA PathXcutType ==
  ASSUME FormulasOK, NEW e \in Edges, NEW p, IsPath(p), Len(p) >= 2,
         NEW ctrlAgain, params.addCtrl >= 0 => ctrlAgain \in Formulas,
         NEW dataAgain \in Formulas
  PROVE  /\ PathXcut(e, p, ctrlAgain, dataAgain) \in Formulas
         /\ \A f \in edges :
              f.type # PushEdge /\ p[Len(p)] = actions[f.dst].bb
              => WithinGreedy(PathXcut(e, p, ctrlAgain, dataAgain))
<1> DEFINE A == ArcCut("dmbld", p)
           B == PathVcut(p, ExecutionEdge)
           C == And(PathCtrlCut(p, e.dst), ctrlAgain)
           D == And(PathDataCut(p, e.dst, e.bind), dataAgain)
<1>1. A \in Formulas
  <2>1. "dmbld" \in Fences
    BY DEF Fences
  <2> QED BY <2>1, ArcCutType
<1>2. /\ B \in Formulas
      /\ \A f \in edges : f.type # PushEdge /\ p[Len(p)] = actions[f.dst].bb
           => WithinGreedy(B)
  <2>1. ExecutionEdge # PushEdge
    BY DEF ExecutionEdge, PushEdge
  <2> QED BY <2>1, PathVcutType
<1>3. C \in Formulas
  <2>1. CASE params.addCtrl < 0
    BY <2>1, PathCtrlCutType, AndFalse, TrueType DEF FalseFormula
  <2>2. CASE ~(params.addCtrl < 0)
    <3>1. params.addCtrl >= 0
      BY <2>2, ParamsType DEF FormulasOK
    <3> QED BY <3>1, PathCtrlCutType, AndType
  <2> QED BY <2>1, <2>2
<1>4. D \in Formulas
  <2>1. e.bind \in BindSites
    BY DEF Edges
  <2> QED BY <2>1, PathDataCutType, AndType
<1>5. PathXcut(e, p, ctrlAgain, dataAgain) = AnyOf({A, B, C, D})
  BY DEF PathXcut
<1> HIDE DEF A, B, C, D
<1>6. {A, B, C, D} \in SUBSET Formulas
  BY <1>1, <1>2, <1>3, <1>4
<1>7. B \in {A, B, C, D}
  OBVIOUS
<1> QED BY <1>2, <1>5, <1>6, <1>7, AnyOfType

LEMMA StrengthenedType ==
  ASSUME FormulasOK, NEW k \in Strengths, NEW a \in ActionsOf
  PROVE  Strengthened(k, a) \in Formulas
<1> DEFINE bb == actions[a].bb
<1>1. bb \in Blocks /\ fn.cfg.succ[bb] \subseteq Blocks
  BY ActionsType, SuccType DEF FormulasOK
<1>2. CASE fn.cfg.succ[bb] # {}
  <2>1. PICK d \in Blocks : d = CHOOSE b \in fn.cfg.succ[bb] : TRUE
    BY <1>1, <1>2
  <2>2. IsCut(k, bb, d) \in Formulas
    BY <1>1, IsCutType
  <2>3. Strengthened(k, a) = TrueFormula \/ Strengthened(k, a) = IsCut(k, bb, d)
    BY <1>2, <2>1 DEF Strengthened
  <2> QED BY <2>2, <2>3, TrueType
<1>3. CASE fn.cfg.succ[bb] = {}
  BY <1>3, TrueType DEF Strengthened
<1> QED BY <1>2, <1>3

LEMMA RelAcqCutType ==
  ASSUME FormulasOK, NEW e \in Edges
  PROVE  RelAcqCut(e) \in Formulas
<1> DEFINE R == Strengthened("release", e.dst)
           A == Strengthened("acquire", e.src)
<1>1. R \in Formulas /\ A \in Formulas
  BY StrengthenedType DEF Edges, Strengths
<1>2. {R, A, And(R, A), FalseFormula} \in SUBSET Formulas
  <2> HIDE DEF R, A
  <2> QED BY <1>1, AndType, TrueType
<1>3. PICK F, G, H \in {R, A, And(R, A), FalseFormula} : RelAcqCut(e) = AnyOf({F, G, H})
  BY DEF RelAcqCut
<1> HIDE DEF R, A
<1>4. {F, G, H} \in SUBSET Formulas
  BY <1>2
<1> QED BY <1>3, <1>4, AnyOfType

-----------------------------------------------------------------------------
(* What cuts an edge.                                                      *)

LEMMA XcutIfType ==
  ASSUME FormulasOK, NEW e \in Edges,
         NEW ctrlAgain, params.addCtrl >= 0 => ctrlAgain \in Formulas,
         NEW dataAgain \in Formulas
  PROVE  /\ XcutIf(e, ctrlAgain, dataAgain) \in Formulas
         /\ e \in edges /\ e.type # PushEdge => WithinGreedy(XcutIf(e, ctrlAgain, dataAgain))
<1> DEFINE Ps == PathsFrom(e.bind, actions[e.src].bb, actions[e.dst].bb)
           f == [p \in Ps |-> PathXcut(e, p, ctrlAgain, dataAgain)]
           Fs == {f[p] : p \in Ps}
<1>1. /\ IsFiniteSet(Ps)
      /\ \A p \in Ps : IsPath(p) /\ Len(p) >= 2 /\ p[Len(p)] = actions[e.dst].bb
  BY PathsType DEF FormulasOK, IsPath
<1>2. IsFiniteSet(Fs)
  <2> HIDE DEF Ps, f
  <2> QED BY <1>1, ImageFinite
<1>3. Fs \in SUBSET Formulas
  <2> HIDE DEF Ps
  <2> QED BY <1>1, PathXcutType
<1>4. e \in edges /\ e.type # PushEdge => \A F \in Fs : WithinGreedy(F)
  <2> HIDE DEF Ps
  <2> QED BY <1>1, PathXcutType
<1>5. XcutIf(e, ctrlAgain, dataAgain) = AnyOf({RelAcqCut(e), AllOf(Fs)})
  <2>1. Fs = {PathXcut(e, p, ctrlAgain, dataAgain) : p \in Ps}
    <3> HIDE DEF Ps
    <3> QED OBVIOUS
  <2> QED BY <2>1 DEF XcutIf
<1> HIDE DEF Fs
<1>6. {RelAcqCut(e), AllOf(Fs)} \in SUBSET Formulas
  BY <1>2, <1>3, RelAcqCutType, AllOfType
<1>7. e \in edges /\ e.type # PushEdge => WithinGreedy(AllOf(Fs))
  BY <1>2, <1>3, <1>4, AllOfType
<1> QED BY <1>5, <1>6, <1>7, AnyOfType

LEMMA XcutType ==
  ASSUME FormulasOK, NEW e \in edges, e.type # PushEdge
  PROVE  Xcut(e) \in Formulas /\ WithinGreedy(Xcut(e))
<1> DEFINE self == [e EXCEPT !.dst = e.src]
           again == XcutIf(self, TrueFormula, TrueFormula)
           head == Readers(actions[e.src].bb)
           Fs == {again} \cup {AllPathsCtrl(a) : a \in head}
<1>1. e \in Edges /\ self \in Edges
  BY DEF FormulasOK, Edges
<1>2. again \in Formulas
  <2> HIDE DEF self
  <2> QED BY <1>1, TrueType, XcutIfType
<1>3. ASSUME params.addCtrl >= 0 PROVE AnyOf(Fs) \in Formulas
  <2>1. Fs \in SUBSET Formulas
    <3> HIDE DEF again
    <3> QED BY <1>2, <1>3, ReadersType, AllPathsCtrlType
  <2> HIDE DEF Fs
  <2> QED BY <2>1, AnyOfType
<1>4. /\ XcutIf(e, TrueFormula, TrueFormula) \in Formulas
      /\ WithinGreedy(XcutIf(e, TrueFormula, TrueFormula))
  BY <1>1, TrueType, XcutIfType
<1>5. /\ XcutIf(e, AnyOf(Fs), again) \in Formulas
      /\ WithinGreedy(XcutIf(e, AnyOf(Fs), again))
  <2> HIDE DEF Fs, again
  <2> QED BY <1>1, <1>2, <1>3, XcutIfType
<1>6. Xcut(e) = XcutIf(e, TrueFormula, TrueFormula) \/ Xcut(e) = XcutIf(e, AnyOf(Fs), again)
  BY DEF Xcut
<1> HIDE DEF Fs, again
<1> QED BY <1>4, <1>5, <1>6

LEMMA VcutType ==
  ASSUME FormulasOK, NEW e \in edges
  PROVE  Vcut(e) \in Formulas /\ WithinGreedy(Vcut(e))
<1> DEFINE Ps == PathsFrom(e.bind, actions[e.src].out, actions[e.dst].bb)
           f == [p \in Ps |-> PathVcut(p, e.type)]
           Fs == {f[p] : p \in Ps}
<1>1. /\ IsFiniteSet(Ps)
      /\ \A p \in Ps : IsPath(p) /\ Len(p) >= 2 /\ p[Len(p)] = actions[e.dst].bb
  BY PathsType DEF FormulasOK, IsPath
<1>2. IsFiniteSet(Fs)
  <2> HIDE DEF Ps, f
  <2> QED BY <1>1, ImageFinite
<1>3. Fs \in SUBSET Formulas /\ \A F \in Fs : WithinGreedy(F)
  <2> HIDE DEF Ps
  <2> QED BY <1>1, PathVcutType
<1>4. Vcut(e) = AnyOf({RelAcqCut(e), AllOf(Fs)})
  <2>1. Fs = {PathVcut(p, e.type) : p \in Ps}
    <3> HIDE DEF Ps
    <3> QED OBVIOUS
  <2> QED BY <2>1 DEF Vcut
<1>5. e \in Edges
  BY DEF FormulasOK
<1> HIDE DEF Fs
<1>6. {RelAcqCut(e), AllOf(Fs)} \in SUBSET Formulas /\ WithinGreedy(AllOf(Fs))
  BY <1>2, <1>3, <1>5, RelAcqCutType, AllOfType
<1> QED BY <1>4, <1>6, AnyOfType

(* The assertions of the solver have a solution among the fences that a    *)
(* greedy placement would use.                                             *)
LEMMA EdgesCutType ==
  ASSUME FormulasOK
  PROVE  EdgesCut \in Formulas /\ WithinGreedy(EdgesCut)
<1> DEFINE f == [e \in edges |-> IF e.type = ExecutionEdge THEN Xcut(e) ELSE Vcut(e)]
           Fs == {f[e] : e \in edges}
<1>1. IsFiniteSet(edges)
  BY EdgesFinite, FS_Subset DEF FormulasOK
<1>2. IsFiniteSet(Fs)
  <2> HIDE DEF f
  <2> QED BY <1>1, ImageFinite
<1>3. Fs \in SUBSET Formulas /\ \A F \in Fs : WithinGreedy(F)
  <2>1. ExecutionEdge # PushEdge
    BY DEF ExecutionEdge, PushEdge
  <2> QED BY <2>1, XcutType, VcutType
<1>4. EdgesCut = AllOf(Fs)
  <2>1. Fs = {IF e.type = ExecutionEdge THEN Xcut(e) ELSE Vcut(e) : e \in edges}
    OBVIOUS
  <2> QED BY <2>1 DEF EdgesCut
<1> HIDE DEF Fs
<1> QED BY <1>2, <1>3, <1>4, AllOfType

-----------------------------------------------------------------------------
(* The capacities that computeCapacities finds are natural numbers.        *)
LEMMA DenominatorIsSum ==
  ASSUME NEW g \in Graphs, NEW b \in Blocks
  PROVE  Denominator(g, b) = Sum([t \in Blocks |-> Numerator(g, b, t)], g.succ[b])
<1> DEFINE S == g.succ[b]
           c == [t \in Blocks |-> Numerator(g, b, t)]
           Sums(f) == f = [U \in SUBSET S |-> IF U = {} THEN 0
                                              ELSE Numerator(g, b, Pick(U)) + f[Rest(U)]]
           Sums2(f) == f = [U \in SUBSET S |-> IF U = {} THEN 0
                                               ELSE c[Pick(U)] + f[Rest(U)]]
<1>1. S \in SUBSET Blocks
  BY GraphsAssumption
<1>2. Denominator(g, b) = (CHOOSE f : Sums(f))[S]
  BY DEF Denominator, MapThenSumSet, MapThenFoldSet, Pick, Rest
<1>3. ASSUME NEW f PROVE Sums(f) <=> Sums2(f)
  <2>1. \A U \in SUBSET S : U # {} => c[Pick(U)] = Numerator(g, b, Pick(U))
    BY <1>1, PickIsIn
  <2> HIDE DEF c, S
  <2> QED BY <2>1, Zenon
<1>4. (CHOOSE f : Sums(f)) = (CHOOSE f : Sums2(f))
  <2> HIDE DEF Sums, Sums2, S
  <2> QED BY <1>3
<1>5. Denominator(g, b) = (CHOOSE f : Sums2(f))[S]
  <2> HIDE DEF Sums, Sums2, S
  <2> QED BY <1>2, <1>4
<1> QED BY <1>5, Zenon DEF Sum, SumsUp

LEMMA DenominatorType ==
  ASSUME NEW g \in Graphs, NEW b \in Blocks, g.succ[b] # {}
  PROVE  Denominator(g, b) \in Nat /\ Denominator(g, b) >= 1
<1> DEFINE S == g.succ[b]
           c == [t \in Blocks |-> Numerator(g, b, t)]
<1>1. S \in SUBSET Blocks /\ IsFiniteSet(S)
  BY GraphsAssumption, BlocksAssumption, FS_Subset
<1>2. c \in [Blocks -> Nat] /\ \A t \in Blocks : c[t] >= 1
  BY DEF Numerator
<1>3. Denominator(g, b) = Sum(c, S)
  BY DenominatorIsSum
<1>4. /\ c[Pick(S)] \in Nat /\ c[Pick(S)] >= 1
      /\ Sum(c, Rest(S)) \in Nat
      /\ Sum(c, S) = c[Pick(S)] + Sum(c, Rest(S))
  <2>1. Pick(S) \in Blocks
    BY <1>1, PickIsIn
  <2> HIDE DEF c
  <2> QED BY <1>1, <1>2, <2>1, SumUnfolds
<1> HIDE DEF c, S
<1> QED BY <1>3, <1>4

LEMMA CapacityType ==
  ASSUME NEW g \in Graphs, NEW r \in Capacities(g)
  PROVE  r.weight \in [Blocks \X Blocks -> Nat]
<1>1. PICK x \in Graphs \X [Blocks -> 0 .. MaxCapacity] :
        r = [graph |-> x[1], node |-> x[2],
             weight |-> [arc \in Blocks \X Blocks |->
                           IF x[1].succ[arc[1]] = {} THEN x[2][arc[1]]
                           ELSE ArcCap(x[1], x[2], arc[1], arc[2])]]
  BY DEF Capacities, CapacityTable
<1>2. ASSUME NEW a \in Blocks, NEW b \in Blocks
      PROVE  (IF x[1].succ[a] = {} THEN x[2][a] ELSE ArcCap(x[1], x[2], a, b)) \in Nat
  <2>1. x[2][a] \in Nat
    BY MaxCapacityAssumption
  <2>2. CASE x[1].succ[a] # {}
    <3>1. Denominator(x[1], a) \in Nat /\ Denominator(x[1], a) >= 1
      BY <2>2, DenominatorType
    <3>2. Numerator(x[1], a, b) \in Nat
      BY DEF Numerator
    <3>3. x[2][a] * Numerator(x[1], a, b) \in Nat
      BY <2>1, <3>2, NatTimes
    <3>4. (x[2][a] * Numerator(x[1], a, b)) \div Denominator(x[1], a) \in Nat
      BY <3>1, <3>3
    <3> QED BY <2>2, <3>4 DEF ArcCap
  <2> QED BY <2>1, <2>2
<1> QED BY <1>1, <1>2

-----------------------------------------------------------------------------
(* What the search does not change keeps the costs.                        *)
LEMMA SameCost ==
  ASSUME UNCHANGED <<fn, actions, cap, target>>, NEW S
  PROVE  Cost(S)' = Cost(S)
<1>1. ASSUME NEW v PROVE CostOf(v)' = CostOf(v)
  <2>1. params' = params
    BY DEF params
  <2>2. \A b, x : BranchesOn(b, x)' <=> BranchesOn(b, x)
    BY DEF BranchesOn
  <2>3. \A s, d : Weight(s, d)' = Weight(s, d)
    BY DEF Weight
  <2>4. (CHOOSE b \in Blocks : v.dst \in Succ(fn.cfg, b))'
          = CHOOSE b \in Blocks : v.dst \in Succ(fn.cfg, b)
    OBVIOUS
  <2> QED BY <2>1, <2>2, <2>3, <2>4 DEF CostOf
<1> QED BY <1>1, Zenon DEF Cost, MapThenSumSet, MapThenFoldSet

LEMMA SameGreedy ==
  ASSUME UNCHANGED <<fn, actions, edges, target>>
  PROVE  GreedyFences' = GreedyFences
<1>1. params' = params
  BY DEF params
<1>2. \A e : GreedyFencesOf(e)' = GreedyFencesOf(e)
  BY <1>1 DEF GreedyFencesOf
<1> QED BY <1>2 DEF GreedyFences

LEMMA SameFormulas ==
  ASSUME UNCHANGED <<fn, actions, edges, target>>
  PROVE  /\ Solutions' = Solutions /\ Formulas' = Formulas
         /\ \A F : WithinGreedy(F)' <=> WithinGreedy(F)
<1>1. params' = params
  BY DEF params
<1>2. CutVars' = CutVars
  BY <1>1 DEF CutVars, FenceVars, CtrlVars, DataVars, ActionsOf
<1> QED BY <1>2, SameGreedy DEF Solutions, Formulas, WithinGreedy

-----------------------------------------------------------------------------
(* The search.  Once the edges are constraints there is a solution among   *)
(* the greedy fences, and the interval holds the least cost.               *)
Steps == {"capacities", "abort", "constraints", "minimize", "search", "insert"}

Solvable == solver \in Formulas /\ WithinGreedy(solver)

Bracketed ==
  /\ lo \in Nat /\ hi \in Nat
  /\ \A S \in solver : lo <= Cost(S)
  /\ \E S \in solver : Cost(S) <= hi

SolverInv ==
  /\ GraphInv /\ target \in Targets /\ step \in Steps
  /\ step # "capacities" => pc = "cut"
  /\ step \in {"constraints", "minimize", "search", "insert"} => WeightsOK
  /\ step \in {"minimize", "search"} => Solvable
  /\ step = "search" => Bracketed

LEMMA FormulasFromInv ==
  ASSUME SolverInv, step \in {"constraints", "minimize", "search", "insert"}
  PROVE  FormulasOK
BY DEF SolverInv, FormulasOK, GraphInv, GraphTypeOK

(* The interval is only needed to hold a cost, and holds the least one.    *)
LEMMA LeastCostIsIn ==
  ASSUME SolverInv, step = "search"
  PROVE  LET least == Min({Cost(S) : S \in solver})
         IN lo <= least /\ least <= hi /\ (lo >= hi => hi = least)
<1> DEFINE C == {Cost(S) : S \in solver}
           least == Min(C)
<1>1. FormulasOK /\ Solvable /\ Bracketed
  BY FormulasFromInv DEF SolverInv
<1>2. C \in SUBSET Nat /\ C # {}
  BY <1>1, CostIsSum DEF Solvable, Formulas, WithinGreedy
<1>3. \E c \in C : \A d \in C : c <= d
  <2> HIDE DEF C
  <2> QED BY <1>2, LeastNatural
<1>4. least \in C /\ \A c \in C : least <= c
  <2> HIDE DEF C
  <2> QED BY <1>3 DEF Min
<1>5. /\ lo \in Nat /\ hi \in Nat
      /\ \A c \in C : lo <= c
      /\ \E c \in C : c <= hi
  BY <1>1 DEF Bracketed
<1>6. lo <= least /\ least <= hi /\ (lo >= hi => hi = least)
  <2> HIDE DEF C, least
  <2> QED BY <1>2, <1>4, <1>5
<1> QED BY <1>6

(* One turn halves the interval and keeps a solution in it. *)
LEMMA SearchType ==
  ASSUME SolverInv, FindFirstTrue, UNCHANGED <<fn, actions, edges, graphVars>>
  PROVE  SolverInv'
<1> DEFINE mid == lo + ((hi - lo) \div 2)
<1>1. /\ step = "search" /\ lo < hi
      /\ UNCHANGED <<target, step, cap, solver>>
      /\ IF IsCostUnder(mid) THEN hi' = mid /\ lo' = lo ELSE lo' = mid + 1 /\ hi' = hi
  BY DEF FindFirstTrue
<1>2. FormulasOK /\ Solvable /\ Bracketed
  BY <1>1, FormulasFromInv DEF SolverInv
<1>3. mid \in Nat
  BY <1>1, <1>2 DEF Bracketed
<1>4. \A S \in solver : Cost(S) \in Nat /\ Cost(S)' = Cost(S)
  BY <1>1, <1>2, CostIsSum, SameCost DEF Solvable, Formulas
<1> HIDE DEF mid
<1>5. Bracketed'
  <2>1. CASE IsCostUnder(mid)
    BY <1>1, <1>2, <1>3, <1>4, <2>1 DEF Bracketed, IsCostUnder
  <2>2. CASE ~IsCostUnder(mid)
    <3>1. \A S \in solver : mid + 1 <= Cost(S)
      BY <1>3, <1>4, <2>2 DEF IsCostUnder
    <3> QED BY <1>1, <1>2, <1>3, <1>4, <2>2, <3>1 DEF Bracketed
  <2> QED BY <2>1, <2>2
<1>6. Solvable'
  BY <1>1, <1>2, SameFormulas DEF Solvable
<1>7. GraphInv'
  BY GraphKept DEF SolverInv
<1> QED BY <1>1, <1>5, <1>6, <1>7 DEF SolverInv, WeightsOK, graphVars

LEMMA SolverStep ==
  ASSUME SolverInv, SmtAnalyze
  PROVE  SolverInv'
<1>1. pc = "cut" /\ SMTNext /\ UNCHANGED <<fn, actions, edges, graphVars>>
  BY DEF SmtAnalyze
<1>2. GraphInv' /\ pc' = "cut"
  BY <1>1, GraphKept DEF SolverInv, graphVars
<1>3. CASE ComputeCapacities
  <2>1. fn.cfg \in Graphs
    BY FunctionsAssumption DEF SolverInv, GraphInv, GraphTypeOK
  <2>2. WeightsOK'
    BY <1>3, <2>1, CapacityType DEF ComputeCapacities, WeightsOK
  <2> QED BY <1>2, <1>3, <2>2 DEF ComputeCapacities, SolverInv, Steps
<1>4. CASE CapacitiesFail
  BY <1>2, <1>4 DEF CapacitiesFail, SolverInv, Steps
<1>5. CASE MakeSureEverythingIsCut
  <2>1. step = "constraints" /\ solver' = EdgesCut /\ step' = "minimize"
        /\ UNCHANGED <<target, cap>>
    BY <1>5 DEF MakeSureEverythingIsCut
  <2>2. FormulasOK
    BY <2>1, FormulasFromInv
  <2>3. Solvable'
    BY <1>1, <2>1, <2>2, EdgesCutType, SameFormulas DEF Solvable
  <2> QED BY <1>2, <2>1, <2>3 DEF SolverInv, Steps, WeightsOK
<1>6. CASE GuessUpperBound
  <2>1. step = "minimize" /\ step' = "search" /\ lo' = 0
        /\ UNCHANGED <<target, cap, solver>> /\ \E S \in solver : hi' = Cost(S)
    BY <1>6 DEF GuessUpperBound
  <2>2. FormulasOK /\ Solvable
    BY <2>1, FormulasFromInv DEF SolverInv
  <2>3. \A S \in solver : Cost(S) \in Nat /\ Cost(S)' = Cost(S)
    BY <1>1, <2>1, <2>2, CostIsSum, SameCost DEF Solvable, Formulas
  <2>4. Bracketed'
    BY <2>1, <2>3 DEF Bracketed
  <2>5. Solvable'
    BY <1>1, <2>1, <2>2, SameFormulas DEF Solvable
  <2> QED BY <1>2, <2>1, <2>4, <2>5 DEF SolverInv, Steps, WeightsOK
<1>7. CASE FindFirstTrue
  BY <1>1, <1>7, SearchType
<1>8. CASE TakeModel
  BY <1>2, <1>8 DEF TakeModel, SolverInv, Steps, WeightsOK
<1>9. CASE InsertCut
  BY <1>2, <1>9 DEF InsertCut, SolverInv, Steps, WeightsOK
<1> QED BY <1>1, <1>3, <1>4, <1>5, <1>6, <1>7, <1>8, <1>9 DEF SMTNext

(* The graph is built before the solver starts. *)
LEMMA BuildStep ==
  ASSUME SolverInv, BuildGraph
  PROVE  SolverInv'
<1>1. GraphInv' /\ pc # "cut" /\ UNCHANGED smtVars
  BY GraphType DEF SolverInv, BuildGraph
<1> QED BY <1>1 DEF SolverInv, smtVars

LEMMA SolverStutter ==
  ASSUME SolverInv, UNCHANGED vars
  PROVE  SolverInv'
<1>1. UNCHANGED <<fn, actions, edges, graphVars, target, step, cap, solver, lo, hi, pc>>
  BY DEF vars, smtVars, graphVars
<1>2. GraphInv'
  BY <1>1, GraphKept DEF SolverInv
<1>3. \A S : Cost(S)' = Cost(S)
  BY <1>1, SameCost
<1>4. Solvable => Solvable'
  BY <1>1, SameFormulas DEF Solvable
<1>5. Bracketed => Bracketed'
  BY <1>1, <1>3 DEF Bracketed
<1> QED BY <1>1, <1>2, <1>4, <1>5 DEF SolverInv, WeightsOK

LEMMA SolverStart == Init => SolverInv
BY GraphStart DEF Init, SMTInit, SolverInv, Steps

(* The solver always has something to choose from, and its search an       *)
(* interval with a solution at its upper end and none below the lower.     *)
THEOREM SolverInvariant == Spec => []SolverInv
<1>1. SolverInv /\ [Next]_vars => SolverInv'
  BY BuildStep, SolverStep, SolverStutter DEF Next
<1> QED BY <1>1, SolverStart, PTL DEF Spec

(* Whatever the edges are, the solver is not asked for the impossible, and *)
(* its cheapest answer costs no more than the greedy placement's fences.   *)
THEOREM SolverFindsCuts == Spec => []NoDearerThanGreedy
<1>1. SolverInv => NoDearerThanGreedy
  <2> SUFFICES ASSUME SolverInv, step \in {"minimize", "search"}
               PROVE  \E S \in solver : Cost(S) <= Cost(GreedyFences)
    BY DEF NoDearerThanGreedy
  <2>1. FormulasOK /\ Solvable
    BY FormulasFromInv DEF SolverInv
  <2>2. PICK S \in solver : S \subseteq GreedyFences
    BY <2>1 DEF Solvable, WithinGreedy
  <2> QED BY <2>1, <2>2, GreedyType, CostGrows
<1> QED BY <1>1, SolverInvariant, PTL

(* The search ends with the least cost of all solutions. *)
THEOREM SearchFindsLeast == Spec => []SearchKeepsLeastCost
<1>1. SolverInv => SearchKeepsLeastCost
  BY LeastCostIsIn DEF SearchKeepsLeastCost
<1> QED BY <1>1, SolverInvariant, PTL

-----------------------------------------------------------------------------
(* What flows along the arcs of a graph with capacities. *)
Arcs(g) == {arc \in Blocks \X Blocks : arc[2] \in g.succ[arc[1]]}
Flow(g, c) == [arc \in Arcs(g) |-> ArcCap(g, c, arc[1], arc[2])]
Into(g, S)  == {arc \in Arcs(g) : arc[2] \in S}
OutOf(g, S) == {arc \in Arcs(g) : arc[1] \in S}

LEMMA ArcsFinite ==
  ASSUME NEW g \in Graphs
  PROVE  IsFiniteSet(Arcs(g)) /\ \A S : Into(g, S) \subseteq Arcs(g) /\ OutOf(g, S) \subseteq Arcs(g)
<1>1. IsFiniteSet(Blocks \X Blocks)
  BY BlocksAssumption, FS_Product
<1> QED BY <1>1, FS_Subset DEF Arcs, Into, OutOf

LEMMA ArcCapType ==
  ASSUME NEW g \in Graphs, NEW c \in [Blocks -> Nat], NEW a \in Blocks, g.succ[a] # {},
         NEW b
  PROVE  ArcCap(g, c, a, b) \in Nat
<1>1. Denominator(g, a) \in Nat /\ Denominator(g, a) >= 1
  BY DenominatorType
<1>2. Numerator(g, a, b) \in Nat /\ c[a] \in Nat
  BY DEF Numerator
<1>3. c[a] * Numerator(g, a, b) \in Nat
  BY <1>2, NatTimes
<1>4. (c[a] * Numerator(g, a, b)) \div Denominator(g, a) \in Nat
  BY <1>1, <1>3
<1> QED BY <1>4 DEF ArcCap

LEMMA ArcCapPositive ==
  ASSUME NEW g \in Graphs, NEW c \in [Blocks -> Nat], IsFlow(g, c),
         NEW a \in Blocks, NEW b \in g.succ[a], c[a] > 0
  PROVE  ArcCap(g, c, a, b) > 0
<1>1. Denominator(g, a) \in Nat \ {0}
  BY DenominatorType
<1>2. Numerator(g, a, b) \in Nat \ {0} /\ c[a] \in Nat \ {0}
  BY DEF Numerator
<1>3. PICK p \in Nat : p = c[a] * Numerator(g, a, b) /\ p # 0
  BY <1>2, NatTimes
<1>4. p % Denominator(g, a) = 0
  BY <1>3 DEF IsFlow
<1>5. Denominator(g, a) * (p \div Denominator(g, a)) = p
  BY <1>1, <1>4, Divides
<1>6. p \div Denominator(g, a) \in Nat
  BY <1>1
<1> QED BY <1>1, <1>3, <1>5, <1>6 DEF ArcCap

LEMMA FlowType ==
  ASSUME NEW g \in Graphs, NEW c \in [Blocks -> Nat]
  PROVE  Flow(g, c) \in [Arcs(g) -> Nat]
BY ArcCapType DEF Flow, Arcs

(* A block other than the entry has what flows into it ... *)
LEMMA CapacityIn ==
  ASSUME NEW g \in Graphs, NEW c \in [Blocks -> Nat], IsFlow(g, c),
         NEW b \in Blocks \ {g.entry}
  PROVE  c[b] = Sum(Flow(g, c), Into(g, {b}))
<1> DEFINE S == {a \in Blocks : b \in g.succ[a]}
           d == [a \in S |-> ArcCap(g, c, a, b)]
           Part == [a \in S |-> {<<a, b>>}]
           Sums(f) == f = [U \in SUBSET S |-> IF U = {} THEN 0
                                              ELSE ArcCap(g, c, Pick(U), b) + f[Rest(U)]]
           Sums2(f) == f = [U \in SUBSET S |-> IF U = {} THEN 0
                                               ELSE d[Pick(U)] + f[Rest(U)]]
<1>1. c[b] = MapThenSumSet(LAMBDA a : ArcCap(g, c, a, b), S)
  BY DEF IsFlow
<1>2. c[b] = (CHOOSE f : Sums(f))[S]
  BY <1>1 DEF MapThenSumSet, MapThenFoldSet, Pick, Rest
<1>3. ASSUME NEW f PROVE Sums(f) <=> Sums2(f)
  <2>1. \A U \in SUBSET S : U # {} => d[Pick(U)] = ArcCap(g, c, Pick(U), b)
    BY PickIsIn
  <2> HIDE DEF d, S
  <2> QED BY <2>1, Zenon
<1>4. c[b] = (CHOOSE f : Sums2(f))[S]
  <2> HIDE DEF Sums, Sums2, S
  <2>1. (CHOOSE f : Sums(f)) = (CHOOSE f : Sums2(f))
    BY <1>3
  <2> QED BY <1>2, <2>1
<1>5. c[b] = Sum(d, S)
  BY <1>4, Zenon DEF Sum, SumsUp
<1>6. IsFiniteSet(S) /\ S \in SUBSET Blocks /\ d \in [S -> Nat]
  BY BlocksAssumption, FS_Subset, ArcCapType
<1>7. /\ Flow(g, c) \in [Arcs(g) -> Nat] /\ IsFiniteSet(Arcs(g))
      /\ Part \in [S -> SUBSET Arcs(g)]
      /\ \A x, y \in S : x # y => Part[x] \cap Part[y] = {}
  <2>1. \A a \in S : <<a, b>> \in Arcs(g)
    BY DEF Arcs
  <2>2. Part \in [S -> SUBSET Arcs(g)]
    BY <2>1
  <2>3. \A x, y \in S : x # y => {<<x, b>>} \cap {<<y, b>>} = {}
    OBVIOUS
  <2>4. \A x, y \in S : x # y => Part[x] \cap Part[y] = {}
    BY <2>3
  <2> QED BY <2>2, <2>4, FlowType, ArcsFinite
<1>8. \A a \in S : d[a] = Sum(Flow(g, c), Part[a])
  <2> TAKE a \in S
  <2>1. <<a, b>> \in Arcs(g)
    BY DEF Arcs
  <2>2. Part[a] = {<<a, b>>}
    OBVIOUS
  <2>3. Flow(g, c)[<<a, b>>] = ArcCap(g, c, a, b) /\ d[a] = ArcCap(g, c, a, b)
    BY <2>1 DEF Flow
  <2> HIDE DEF S, Part, d
  <2> QED BY <1>7, <2>1, <2>2, <2>3, SumOfOne
<1>9. UNION {Part[a] : a \in S} = Into(g, {b})
  <2>1. UNION {Part[a] : a \in S} = {<<a, b>> : a \in S}
    <3>1. \A a \in S : Part[a] = {<<a, b>>}
      OBVIOUS
    <3> HIDE DEF S, Part
    <3> QED BY <3>1
  <2>2. \A a \in S : <<a, b>> \in Into(g, {b})
    BY DEF Into, Arcs
  <2>3. \A arc \in Into(g, {b}) : arc[1] \in S /\ arc = <<arc[1], b>>
    BY DEF Into, Arcs
  <2> HIDE DEF S, Part
  <2> QED BY <2>1, <2>2, <2>3
<1>10. Sum(d, S) = Sum(Flow(g, c), UNION {Part[a] : a \in S})
  <2> HIDE DEF S, d, Part
  <2> QED BY <1>6, <1>7, <1>8, SumOfParts
<1> QED BY <1>5, <1>9, <1>10

(* ... and a block that is no exit what flows out of it. *)
LEMMA CapacityOut ==
  ASSUME NEW g \in Graphs, NEW c \in [Blocks -> Nat], IsFlow(g, c),
         NEW b \in Blocks \ Exits(g)
  PROVE  c[b] = Sum(Flow(g, c), OutOf(g, {b}))
<1> DEFINE S == g.succ[b]
           n == [t \in Blocks |-> Numerator(g, b, t)]
           d == [t \in Blocks |-> ArcCap(g, c, b, t)]
           Part == [t \in S |-> {<<b, t>>}]
           den == Denominator(g, b)
<1>1. S \in SUBSET Blocks /\ S # {} /\ IsFiniteSet(S)
  BY GraphsAssumption, BlocksAssumption, FS_Subset DEF Exits
<1>2. n \in [Blocks -> Nat] /\ d \in [Blocks -> Nat] /\ c[b] \in Nat
  <2>1. \A t \in Blocks : ArcCap(g, c, b, t) \in Nat
    BY <1>1, ArcCapType
  <2> QED BY <2>1 DEF Numerator
<1>3. den \in Nat /\ den >= 1 /\ den = Sum(n, S)
  BY <1>1, DenominatorType, DenominatorIsSum
<1>4. \A t \in S : den * d[t] = c[b] * n[t]
  <2> TAKE t \in S
  <2>1. (c[b] * Numerator(g, b, t)) % den = 0
    BY <1>1 DEF IsFlow
  <2>2. d[t] = (c[b] * Numerator(g, b, t)) \div den /\ n[t] = Numerator(g, b, t)
    BY <1>1 DEF ArcCap
  <2>3. c[b] * Numerator(g, b, t) \in Nat
    <3>1. Numerator(g, b, t) \in Nat
      BY DEF Numerator
    <3> QED BY <1>2, <3>1, NatTimes
  <2> HIDE DEF den, d, n, S
  <2>4. den * ((c[b] * Numerator(g, b, t)) \div den) = c[b] * Numerator(g, b, t)
    <3>1. den \in Nat \ {0}
      BY <1>3
    <3>2. PICK p \in Nat : p = c[b] * Numerator(g, b, t)
      BY <2>3
    <3>3. p % den = 0
      BY <2>1, <3>2
    <3>4. den * (p \div den) = p
      BY <3>1, <3>3, Divides
    <3> QED BY <3>2, <3>4
  <2> QED BY <2>2, <2>4
<1>5. den * Sum(d, S) = c[b] * Sum(n, S)
  <2> HIDE DEF den, d, n, S
  <2> QED BY <1>1, <1>2, <1>3, <1>4, SumScales
<1>6. c[b] = Sum(d, S)
  <2>1. Sum(d, S) \in Nat
    <3> HIDE DEF d, S
    <3> QED BY <1>1, <1>2, SumUnfolds
  <2> HIDE DEF den, d, n, S
  <2>2. den * Sum(d, S) = den * c[b]
    BY <1>2, <1>3, <1>5
  <2>3. den \in Nat \ {0}
    BY <1>3
  <2> QED BY <1>2, <2>1, <2>2, <2>3, Cancels
<1>7. /\ Flow(g, c) \in [Arcs(g) -> Nat] /\ IsFiniteSet(Arcs(g))
      /\ Part \in [S -> SUBSET Arcs(g)]
      /\ \A x, y \in S : x # y => Part[x] \cap Part[y] = {}
  <2>1. \A a \in S : <<b, a>> \in Arcs(g)
    BY <1>1 DEF Arcs
  <2>2. Part \in [S -> SUBSET Arcs(g)]
    BY <2>1
  <2>3. \A x, y \in S : x # y => {<<b, x>>} \cap {<<b, y>>} = {}
    OBVIOUS
  <2>4. \A x, y \in S : x # y => Part[x] \cap Part[y] = {}
    BY <2>3
  <2> QED BY <2>2, <2>4, FlowType, ArcsFinite
<1>8. \A a \in S : d[a] = Sum(Flow(g, c), Part[a])
  <2> TAKE a \in S
  <2>1. <<b, a>> \in Arcs(g) /\ a \in Blocks
    BY <1>1 DEF Arcs
  <2>2. Part[a] = {<<b, a>>} /\ d[a] = ArcCap(g, c, b, a)
    BY <2>1
  <2>3. Flow(g, c)[<<b, a>>] = ArcCap(g, c, b, a)
    BY <2>1 DEF Flow
  <2> HIDE DEF S, Part, d
  <2> QED BY <1>7, <2>1, <2>2, <2>3, SumOfOne
<1>9. UNION {Part[a] : a \in S} = OutOf(g, {b})
  <2>1. UNION {Part[a] : a \in S} = {<<b, a>> : a \in S}
    <3>1. \A a \in S : Part[a] = {<<b, a>>}
      OBVIOUS
    <3> HIDE DEF S, Part
    <3> QED BY <3>1
  <2>2. \A a \in S : <<b, a>> \in OutOf(g, {b})
    BY <1>1 DEF OutOf, Arcs
  <2>3. \A arc \in OutOf(g, {b}) : arc[2] \in S /\ arc = <<b, arc[2]>>
    BY DEF OutOf, Arcs
  <2> HIDE DEF S, Part
  <2> QED BY <2>1, <2>2, <2>3
<1>10. Sum(d, S) = Sum(Flow(g, c), UNION {Part[a] : a \in S})
  <2> HIDE DEF S, d, Part
  <2> QED BY <1>1, <1>2, <1>7, <1>8, SumOfParts
<1> QED BY <1>6, <1>9, <1>10

(* The same for sets of blocks. *)
LEMMA FlowBalances ==
  ASSUME NEW g \in Graphs, NEW c \in [Blocks -> Nat], IsFlow(g, c),
         NEW S \in SUBSET Blocks
  PROVE  /\ g.entry \notin S => Sum(c, S) = Sum(Flow(g, c), Into(g, S))
         /\ Sum(c, S \ Exits(g)) = Sum(Flow(g, c), OutOf(g, S))
<1>1. /\ Flow(g, c) \in [Arcs(g) -> Nat] /\ IsFiniteSet(Arcs(g))
      /\ IsFiniteSet(S) /\ IsFiniteSet(S \ Exits(g)) /\ S \ Exits(g) \in SUBSET Blocks
  BY FlowType, ArcsFinite, BlocksAssumption, FS_Subset
<1>2. ASSUME g.entry \notin S
      PROVE  Sum(c, S) = Sum(Flow(g, c), Into(g, S))
  <2> DEFINE Part == [b \in S |-> Into(g, {b})]
  <2>1. Part \in [S -> SUBSET Arcs(g)]
    BY ArcsFinite
  <2>2. \A x, y \in S : x # y => Part[x] \cap Part[y] = {}
    BY DEF Into
  <2>3. \A x \in S : c[x] = Sum(Flow(g, c), Part[x])
    BY <1>2, CapacityIn
  <2>4. UNION {Part[b] : b \in S} = Into(g, S)
    <3>1. \A b \in S : Part[b] = Into(g, {b})
      OBVIOUS
    <3> HIDE DEF Part
    <3> QED BY <3>1 DEF Into
  <2>5. Sum(c, S) = Sum(Flow(g, c), UNION {Part[b] : b \in S})
    <3> HIDE DEF Part
    <3> QED BY <1>1, <2>1, <2>2, <2>3, SumOfParts
  <2> QED BY <2>4, <2>5
<1>3. Sum(c, S \ Exits(g)) = Sum(Flow(g, c), OutOf(g, S))
  <2> DEFINE T == S \ Exits(g)
             Part == [b \in T |-> OutOf(g, {b})]
  <2>1. Part \in [T -> SUBSET Arcs(g)]
    BY ArcsFinite
  <2>2. \A x, y \in T : x # y => Part[x] \cap Part[y] = {}
    BY DEF OutOf
  <2>3. \A x \in T : c[x] = Sum(Flow(g, c), Part[x])
    BY CapacityOut
  <2>4. UNION {Part[b] : b \in T} = OutOf(g, S)
    <3>1. \A b \in T : Part[b] = OutOf(g, {b})
      OBVIOUS
    <3>2. \A arc \in OutOf(g, S) : arc[1] \in T
      BY DEF OutOf, Arcs, Exits
    <3>3. T \subseteq S
      OBVIOUS
    <3> HIDE DEF Part, T
    <3> QED BY <3>1, <3>2, <3>3 DEF OutOf
  <2>5. Sum(c, T) = Sum(Flow(g, c), UNION {Part[b] : b \in T})
    <3> HIDE DEF Part
    <3>1. T \in SUBSET Blocks /\ IsFiniteSet(T)
      BY <1>1
    <3> HIDE DEF T
    <3> QED BY <1>1, <2>1, <2>2, <2>3, <3>1, SumOfParts
  <2> QED BY <2>4, <2>5
<1> QED BY <1>2, <1>3

-----------------------------------------------------------------------------
(* What holds of a block and after every step holds of all it reaches.     *)
LEMMA ReachedInside ==
  ASSUME NEW g \in Graphs, NEW W, NEW a \in W, NEW b, Reaches(g, {}, a, b),
         \A x \in W : Succ(g, x) \subseteq W
  PROVE  b \in W
<1> SUFFICES ASSUME b \notin W PROVE FALSE
  OBVIOUS
<1>1. PICK p : p \in Walks(g, {}, a, b)
  BY PathIsWalk DEF Reaches
<1>2. /\ Len(p) \in Nat /\ Len(p) >= 2 /\ p[1] = a /\ p[Len(p)] = b
      /\ \A n \in 1 .. Len(p) - 1 : p[n + 1] \in Succ(g, p[n])
  BY <1>1 DEF Walks, IsWalk
<1> DEFINE Out == {n \in 1 .. Len(p) : p[n] \notin W}
<1>3. Out \in SUBSET Nat /\ Out # {}
  BY <1>2
<1>4. PICK n \in Out : \A m \in Out : n <= m
  <2> HIDE DEF Out
  <2> QED BY <1>3, LeastNatural
<1>5. n \in 1 .. Len(p) /\ n # 1
  BY <1>2, <1>4
<1>6. PICK m \in 1 .. Len(p) - 1 : n = m + 1
  BY <1>2, <1>5
<1>7. m \notin Out /\ m \in 1 .. Len(p)
  BY <1>2, <1>4, <1>6
<1> QED BY <1>2, <1>4, <1>6, <1>7

(* Where something flows there is a way out. *)
LEMMA CapacityHasNoTrap ==
  ASSUME NEW g \in Graphs, NEW c \in [Blocks -> Nat], IsCapacity(g, c)
  PROVE  ~Trapped(g)
<1> DEFINE F == Flow(g, c)
           R == {b \in Blocks : Reaches(g, {}, g.entry, b)}
           U == Blocks \ R
           T == {b \in Blocks : \A x \in Exits(g) : ~Reaches(g, {}, b, x)}
           W == {b \in Blocks : c[b] > 0 /\ b \notin T}
<1>1. /\ F \in [Arcs(g) -> Nat] /\ IsFiniteSet(Arcs(g)) /\ IsFlow(g, c) /\ c[g.entry] > 0
      /\ g.entry \in Blocks /\ Exits(g) \subseteq Blocks
      /\ \A b \in Blocks : Succ(g, b) \subseteq Blocks /\ g.succ[b] \subseteq Succ(g, b)
      /\ \A S \in SUBSET Blocks : IsFiniteSet(S)
  BY FlowType, ArcsFinite, BlocksAssumption, GraphsAssumption, FS_Subset
     DEF IsCapacity, Exits, Succ
<1>2. g.entry \notin U /\ Into(g, U) \subseteq OutOf(g, U)
  <2>1. \A a \in R : \A b \in Succ(g, a) : b \in R
    BY <1>1, ReachesOnward
  <2>2. g.entry \in R
    BY <1>1 DEF Reaches
  <2>3. ASSUME NEW arc \in Into(g, U) PROVE arc \in OutOf(g, U)
    <3>1. arc[1] \in Blocks /\ arc[2] \in Succ(g, arc[1]) /\ arc[2] \in U /\ arc \in Arcs(g)
      BY <1>1 DEF Into, Arcs
    <3>2. arc[1] \in U
      BY <2>1, <3>1
    <3> QED BY <3>1, <3>2 DEF OutOf
  <2> QED BY <2>2, <2>3
<1>3. \A x \in U \cap Exits(g) : c[x] = 0
  <2>1. U \in SUBSET Blocks /\ IsFiniteSet(U)
    BY <1>1
  <2> HIDE DEF U
  <2>2. Sum(c, U) = Sum(F, Into(g, U)) /\ Sum(c, U \ Exits(g)) = Sum(F, OutOf(g, U))
    BY <1>1, <1>2, <2>1, FlowBalances
  <2>3. Sum(F, Into(g, U)) <= Sum(F, OutOf(g, U))
    <3>1. OutOf(g, U) \in SUBSET Arcs(g) /\ IsFiniteSet(OutOf(g, U))
      BY <1>1, ArcsFinite, FS_Subset
    <3> HIDE DEF F
    <3> QED BY <1>1, <1>2, <3>1, SumGrows
  <2>4. Sum(c, U) = Sum(c, U \ Exits(g)) + Sum(c, U \cap Exits(g))
    <3>1. PICK A, B : A = U \ Exits(g) /\ B = U \cap Exits(g)
      OBVIOUS
    <3>2. /\ A \in SUBSET Blocks /\ B \in SUBSET Blocks /\ A \cap B = {} /\ A \cup B = U
          /\ IsFiniteSet(A) /\ IsFiniteSet(B)
      BY <1>1, <2>1, <3>1
    <3>3. Sum(c, A \cup B) = Sum(c, A) + Sum(c, B)
      BY <3>2, SumApart
    <3> QED BY <3>1, <3>2, <3>3
  <2>5. /\ U \ Exits(g) \in SUBSET Blocks /\ U \cap Exits(g) \in SUBSET Blocks
        /\ IsFiniteSet(U \ Exits(g)) /\ IsFiniteSet(U \cap Exits(g))
    BY <1>1, <2>1
  <2>6. Sum(c, U \ Exits(g)) \in Nat /\ Sum(c, U \cap Exits(g)) \in Nat
    BY <2>5, SumUnfolds
  <2>7. Sum(c, U \cap Exits(g)) = 0
    BY <2>2, <2>3, <2>4, <2>6
  <2> QED BY <2>5, <2>7, SumIsZero
<1>4. g.entry \notin T
  <2>1. c[g.entry] = Sum(c, Exits(g))
    <3>1. c[g.entry] = MapThenSumSet(LAMBDA b : c[b], Exits(g))
      BY <1>1 DEF IsFlow
    <3> QED BY <1>1, <3>1, MapSumIsSum
  <2>2. PICK x \in Exits(g) : c[x] # 0
    BY <1>1, <2>1, SumIsZero
  <2>3. x \in R
    BY <1>1, <1>3, <2>2
  <2> QED BY <2>3
<1>5. \A a \in T : \A b \in Succ(g, a) : b \in T
  BY <1>1, ReachesBefore
<1>6. T \in SUBSET Blocks /\ T \cap Exits(g) = {} /\ T \ Exits(g) = T
  BY DEF Reaches
<1>7. OutOf(g, T) \subseteq Into(g, T)
  <2> SUFFICES ASSUME NEW arc \in OutOf(g, T) PROVE arc \in Into(g, T)
    OBVIOUS
  <2>1. arc[1] \in Blocks /\ arc[2] \in Succ(g, arc[1]) /\ arc[1] \in T /\ arc \in Arcs(g)
    BY <1>1 DEF OutOf, Arcs
  <2>2. arc[2] \in T
    BY <1>5, <2>1
  <2> QED BY <2>1, <2>2 DEF Into
<1>8. \A arc \in Into(g, T) \ OutOf(g, T) : F[arc] = 0
  <2>1. PICK A, B : A = OutOf(g, T) /\ B = Into(g, T) \ OutOf(g, T)
    OBVIOUS
  <2>2. A \in SUBSET Arcs(g) /\ B \in SUBSET Arcs(g) /\ IsFiniteSet(A) /\ IsFiniteSet(B)
    BY <1>1, <2>1, ArcsFinite, FS_Subset
  <2>3. A \cap B = {} /\ A \cup B = Into(g, T)
    BY <1>7, <2>1
  <2>4. Sum(F, A \cup B) = Sum(F, A) + Sum(F, B)
    <3> HIDE DEF F
    <3> QED BY <1>1, <2>2, <2>3, SumApart
  <2>5. Sum(c, T) = Sum(F, A \cup B) /\ Sum(c, T) = Sum(F, A)
    <3>1. g.entry \notin T => Sum(c, T) = Sum(F, Into(g, T))
      BY <1>1, <1>6, FlowBalances
    <3>2. Sum(c, T \ Exits(g)) = Sum(F, OutOf(g, T))
      <4>1. PICK S \in SUBSET Blocks : S = T
        BY <1>6
      <4>2. Sum(c, S \ Exits(g)) = Sum(F, OutOf(g, S))
        BY <1>1, FlowBalances
      <4> HIDE DEF T, F
      <4> QED BY <4>1, <4>2
    <3> HIDE DEF F, T
    <3> QED BY <1>4, <1>6, <2>1, <2>3, <3>1, <3>2
  <2>6. Sum(F, A) \in Nat /\ Sum(F, B) \in Nat
    <3> HIDE DEF F
    <3> QED BY <1>1, <2>2, SumUnfolds
  <2>7. Sum(F, B) = 0
    <3> HIDE DEF F
    <3> QED BY <2>4, <2>5, <2>6
  <2>8. \A arc \in B : F[arc] = 0
    <3> HIDE DEF F
    <3> QED BY <1>1, <2>2, <2>7, SumIsZero
  <2> QED BY <2>1, <2>8
<1>9. \A a \in Blocks : \A b \in g.succ[a] : c[a] > 0 => ArcCap(g, c, a, b) > 0
  BY <1>1, ArcCapPositive
<1>10. \A b \in W : Succ(g, b) \subseteq W
  <2> SUFFICES ASSUME NEW b \in W, NEW d \in Succ(g, b) PROVE d \in W
    OBVIOUS
  <2>1. CASE d = g.entry
    BY <1>1, <1>4, <2>1
  <2>2. CASE d # g.entry
    <3>1. d \in g.succ[b] /\ d \in Blocks
      BY <1>1, <2>2 DEF Succ
    <3>2. <<b, d>> \in Arcs(g) /\ F[<<b, d>>] = ArcCap(g, c, b, d) /\ F[<<b, d>>] > 0
      BY <1>9, <3>1 DEF Arcs, Flow
    <3>3. d \notin T
      <4> SUFFICES ASSUME d \in T PROVE FALSE
        OBVIOUS
      <4>1. <<b, d>> \in Into(g, T) \ OutOf(g, T)
        BY <3>2 DEF Into, OutOf
      <4>2. F[<<b, d>>] = 0
        BY <1>8, <4>1
      <4> QED BY <3>2, <4>2
    <3>4. c[d] > 0
      <4>1. c[d] = Sum(F, Into(g, {d}))
        BY <1>1, <2>2, <3>1, CapacityIn
      <4>2. <<b, d>> \in Into(g, {d})
        BY <3>2 DEF Into
      <4>3. Into(g, {d}) \in SUBSET Arcs(g) /\ IsFiniteSet(Into(g, {d}))
        BY <1>1, ArcsFinite, FS_Subset
      <4>4. Sum(F, Into(g, {d})) # 0
        <5>1. PICK S \in SUBSET Arcs(g) : S = Into(g, {d})
          BY <4>3
        <5>2. F[<<b, d>>] # 0 /\ <<b, d>> \in S /\ IsFiniteSet(S)
          BY <3>2, <4>2, <4>3, <5>1
        <5>3. Sum(F, S) # 0
          <6> HIDE DEF F
          <6> QED BY <1>1, <5>2, SumIsZero
        <5> QED BY <5>1, <5>3
      <4> QED BY <3>1, <4>1, <4>4
    <3> QED BY <3>1, <3>3, <3>4
  <2> QED BY <2>1, <2>2
<1>11. g.entry \in W
  BY <1>1, <1>4
<1>12. \A b \in R : b \in W
  <2> HIDE DEF W
  <2> QED BY <1>10, <1>11, ReachedInside
<1> QED BY <1>12 DEF Trapped

(* The table has a row for a graph if there is any solution: the least     *)
(* one, which is no multiple of another.                                   *)
LEMMA RowOfCapacity ==
  ASSUME NEW g \in Graphs, NEW c \in [Blocks -> 0 .. MaxCapacity], IsCapacity(g, c)
  PROVE  Capacities(g) # {}
<1> DEFINE All == {d \in [Blocks -> 0 .. MaxCapacity] : IsCapacity(g, d)}
           Sizes == {d[g.entry] : d \in All}
           Row(gc) == [graph |-> gc[1], node |-> gc[2],
                       weight |-> [arc \in Blocks \X Blocks |->
                                     IF gc[1].succ[arc[1]] = {} THEN gc[2][arc[1]]
                                     ELSE ArcCap(gc[1], gc[2], arc[1], arc[2])]]
           Rows == {x \in Graphs \X [Blocks -> 0 .. MaxCapacity] :
               /\ IsCapacity(x[1], x[2])
               /\ ~\E k \in 2 .. MaxCapacity : \E f \in [Blocks -> 0 .. MaxCapacity] :
                    /\ f # x[2]
                    /\ \A b \in Blocks : x[2][b] = k * f[b]
                    /\ IsCapacity(x[1], f)}
<1>1. g.entry \in Blocks
  BY GraphsAssumption
<1>2. Sizes \in SUBSET Nat /\ Sizes # {}
  BY <1>1, MaxCapacityAssumption
<1>3. PICK n \in Sizes : \A m \in Sizes : n <= m
  <2> HIDE DEF Sizes
  <2> QED BY <1>2, LeastNatural
<1>4. PICK d \in All : d[g.entry] = n
  BY <1>3
<1>5. ASSUME NEW k \in 2 .. MaxCapacity, NEW f \in [Blocks -> 0 .. MaxCapacity],
             \A b \in Blocks : d[b] = k * f[b], IsCapacity(g, f)
      PROVE  FALSE
  <2>1. f[g.entry] \in Sizes
    BY <1>5
  <2>2. f[g.entry] \in Nat /\ f[g.entry] > 0 /\ k \in Nat /\ k >= 2
    BY <1>1, <1>5, MaxCapacityAssumption DEF IsCapacity
  <2>3. d[g.entry] = k * f[g.entry] /\ d[g.entry] <= f[g.entry]
    BY <1>1, <1>3, <1>4, <1>5, <2>1
  <2>4. \A i, j \in Nat : i >= 2 /\ j > 0 => ~(i * j <= j)
    OBVIOUS
  <2> QED BY <2>2, <2>3, <2>4
<1>6. <<g, d>> \in Rows
  BY <1>4, <1>5
<1>7. CapacityTable = {Row(gc) : gc \in Rows}
  BY Zenon DEF CapacityTable
<1>8. Row(<<g, d>>).graph = g
  OBVIOUS
<1> HIDE DEF Row, Rows
<1> QED BY <1>6, <1>7, <1>8 DEF Capacities

LEMMA CapacityOfRow ==
  ASSUME NEW g, NEW r \in Capacities(g)
  PROVE  g \in Graphs /\ \E c \in [Blocks -> 0 .. MaxCapacity] : IsCapacity(g, c)
<1>1. PICK x \in Graphs \X [Blocks -> 0 .. MaxCapacity] :
        r.graph = x[1] /\ IsCapacity(x[1], x[2])
  BY DEF Capacities, CapacityTable
<1>2. r.graph = g
  BY DEF Capacities
<1> QED BY <1>1, <1>2

(* The assertion of computeCapacities fails for the functions with a block *)
(* that may be reached and has no way out, and for no other: what flows    *)
(* into such blocks would have to flow out of them.                        *)
THEOREM TrapsAbort == Spec => []AbortsIffStuck
<1> DEFINE Inv == SolverInv /\ AbortsIffStuck
<1>1. Init => Inv
  BY SolverStart DEF Init, SMTInit, AbortsIffStuck
<1>2. Inv /\ [Next]_vars => Inv'
  <2> SUFFICES ASSUME Inv, [Next]_vars PROVE Inv'
    OBVIOUS
  <2>1. SolverInv'
    BY BuildStep, SolverStep, SolverStutter DEF Next
  <2>2. CASE BuildGraph
    <3>1. pc # "cut" /\ UNCHANGED smtVars
      BY <2>2, GraphType DEF SolverInv, BuildGraph
    <3>2. step = "capacities" /\ step' = step
      BY <3>1 DEF SolverInv, smtVars
    <3> QED BY <2>1, <3>2 DEF AbortsIffStuck
  <2>3. CASE SmtAnalyze
    <3>1. SMTNext /\ fn' = fn
      BY <2>3 DEF SmtAnalyze
    <3>2. fn.cfg \in Graphs
      BY FunctionsAssumption DEF SolverInv, GraphInv, GraphTypeOK
    <3>3. CASE ComputeCapacities
      <4>1. PICK r \in Capacities(fn.cfg) : step' = "constraints"
        BY <3>3 DEF ComputeCapacities
      <4>2. PICK c \in [Blocks -> 0 .. MaxCapacity] : IsCapacity(fn.cfg, c)
        BY CapacityOfRow
      <4>3. c \in [Blocks -> Nat]
        BY MaxCapacityAssumption
      <4>4. ~Trapped(fn.cfg)
        BY <3>2, <4>2, <4>3, CapacityHasNoTrap
      <4> QED BY <2>1, <3>1, <4>1, <4>4 DEF AbortsIffStuck
    <3>4. CASE CapacitiesFail
      <4>1. Capacities(fn.cfg) = {} /\ step' = "abort"
        BY <3>4 DEF CapacitiesFail
      <4>2. Trapped(fn.cfg)
        BY <3>2, <4>1, CapacityAssumption, RowOfCapacity
      <4> QED BY <2>1, <3>1, <4>1, <4>2 DEF AbortsIffStuck
    <3>5. CASE MakeSureEverythingIsCut \/ GuessUpperBound \/ FindFirstTrue \/ TakeModel \/ InsertCut
      <4>1. step \notin {"abort", "capacities"} /\ step' \notin {"abort", "capacities"}
        BY <3>5 DEF MakeSureEverythingIsCut, GuessUpperBound, FindFirstTrue, TakeModel, InsertCut
      <4> QED BY <2>1, <3>1, <4>1 DEF AbortsIffStuck
    <3> QED BY <3>1, <3>3, <3>4, <3>5 DEF SMTNext
  <2>4. CASE UNCHANGED vars
    BY <2>1, <2>4 DEF AbortsIffStuck, vars, smtVars
  <2> QED BY <2>2, <2>3, <2>4 DEF Next
<1>3. Inv => AbortsIffStuck
  OBVIOUS
<1> QED BY <1>1, <1>2, <1>3, PTL DEF Spec

-----------------------------------------------------------------------------
(* What a solution says of the cuts.  A set of cuts makes a formula true   *)
(* if it holds one of its sets.                                            *)
Holds(F, S) == \E T \in F : T \subseteq S

LEMMA HoldsAny ==
  ASSUME NEW Fs, NEW S, Holds(AnyOf(Fs), S)
  PROVE  \E F \in Fs : Holds(F, S)
<1>1. PICK T \in AnyOf(Fs) : T \subseteq S
  BY DEF Holds
<1>2. T \in UNION Fs
  BY <1>1 DEF AnyOf, Least
<1> QED BY <1>1, <1>2 DEF Holds

LEMMA HoldsBoth ==
  ASSUME NEW F, NEW G, NEW S, Holds(And(F, G), S)
  PROVE  Holds(F, S) /\ Holds(G, S)
<1>1. PICK T \in And(F, G) : T \subseteq S
  BY DEF Holds
<1>2. T \in {UV[1] \cup UV[2] : UV \in F \X G}
  BY <1>1 DEF And, Least
<1>3. PICK U \in F, V \in G : T = U \cup V
  BY <1>2
<1>4. U \subseteq S /\ V \subseteq S
  BY <1>1, <1>3
<1> QED BY <1>3, <1>4 DEF Holds

LEMMA HoldsAll ==
  ASSUME FormulasOK, NEW Fs \in SUBSET Formulas, IsFiniteSet(Fs), NEW S,
         Holds(AllOf(Fs), S)
  PROVE  \A F \in Fs : Holds(F, S)
<1>1. PICK f : /\ \A U \in SUBSET Fs :
                     f[U] = IF U = {} THEN TrueFormula ELSE And(Pick(U), f[Rest(U)])
               /\ AllOf(Fs) = f[Fs]
  BY AllOfUnfolds
<1> DEFINE P == {U \in SUBSET Fs : Holds(f[U], S) => \A F \in U : Holds(F, S)}
<1>2. {} \in P
  OBVIOUS
<1>3. ASSUME NEW U \in SUBSET Fs, U # {}, Rest(U) \in P
      PROVE  U \in P
  <2> SUFFICES ASSUME Holds(f[U], S) PROVE \A F \in U : Holds(F, S)
    OBVIOUS
  <2>1. f[U] = And(Pick(U), f[Rest(U)])
    BY <1>1, <1>3
  <2>2. Holds(Pick(U), S) /\ Holds(f[Rest(U)], S)
    BY <2>1, HoldsBoth
  <2>3. \A F \in Rest(U) : Holds(F, S)
    BY <1>3, <2>2
  <2> QED BY <2>2, <2>3 DEF Rest
<1>4. P = SUBSET Fs
  <2>1. P \in SUBSET (SUBSET Fs)
    OBVIOUS
  <2> HIDE DEF P
  <2> QED BY <1>2, <1>3, <2>1, RestInduction
<1>5. Fs \in P
  BY <1>4
<1> QED BY <1>1, <1>5

LEMMA HoldsCut ==
  ASSUME NEW k, NEW s, NEW d, NEW S, Holds(IsCut(k, s, d), S)
  PROVE  FenceVar(k, s, d) \in S
BY DEF Holds, IsCut, FalseFormula

LEMMA HoldsArcCut ==
  ASSUME NEW k, NEW p, NEW S, Holds(ArcCut(k, p), S)
  PROVE  \E n \in 1 .. Len(p) - 1 : FenceVar(k, p[n], p[n + 1]) \in S
<1> DEFINE Fs == {IsCut(k, p[n], p[n + 1]) : n \in 1 .. Len(p) - 1}
<1>1. ArcCut(k, p) = AnyOf(Fs)
  BY DEF ArcCut
<1>2. PICK F \in Fs : Holds(F, S)
  <2> HIDE DEF Fs
  <2> QED BY <1>1, HoldsAny
<1>3. PICK n \in 1 .. Len(p) - 1 : F = IsCut(k, p[n], p[n + 1])
  BY <1>2
<1> QED BY <1>2, <1>3, HoldsCut

LEMMA HoldsCtrl ==
  ASSUME NEW a, NEW s, NEW d, NEW S, Holds(Ctrl(a, s, d), S)
  PROVE  CtrlVar(a, s, d) \in S
<1> DEFINE def == fn.vals[actions[a].odep].block
           P == s = actions[a].bb \/ (s # def /\ Dominates(fn.cfg, def, s))
<1>1. Ctrl(a, s, d) = IF P THEN {{CtrlVar(a, s, d)}} ELSE FalseFormula
  BY DEF Ctrl
<1> HIDE DEF P
<1> QED BY <1>1 DEF Holds, FalseFormula

LEMMA HoldsPathCtrl ==
  ASSUME NEW a, NEW p, NEW S, Holds(PathCtrl(a, p), S)
  PROVE  \E n \in 1 .. Len(p) - 1 : CtrlVar(a, p[n], p[n + 1]) \in S
<1> DEFINE Fs == {Ctrl(a, p[n], p[n + 1]) : n \in 1 .. Len(p) - 1}
<1>1. PathCtrl(a, p) = AnyOf(Fs)
  BY DEF PathCtrl
<1>2. PICK F \in Fs : Holds(F, S)
  <2> HIDE DEF Fs
  <2> QED BY <1>1, HoldsAny
<1>3. PICK n \in 1 .. Len(p) - 1 : F = Ctrl(a, p[n], p[n + 1])
  BY <1>2
<1> QED BY <1>2, <1>3, HoldsCtrl

(* The isync is on the arc of the branch or on a later one.                *)
LEMMA HoldsPathCtrlIsync ==
  ASSUME NEW a, NEW p \in Seq(Blocks), NEW S, Holds(PathCtrlIsync(a, p), S)
  PROVE  \E n, m \in 1 .. Len(p) - 1 :
           /\ n <= m
           /\ CtrlVar(a, p[n], p[n + 1]) \in S
           /\ FenceVar("isync", p[m], p[m + 1]) \in S
<1> DEFINE Fs == {And(Ctrl(a, p[n], p[n + 1]), ArcCut("isync", Suffix(p, n))) :
                    n \in 1 .. Len(p) - 1}
<1>1. PathCtrlIsync(a, p) = AnyOf(Fs)
  BY DEF PathCtrlIsync
<1>2. PICK F \in Fs : Holds(F, S)
  <2> HIDE DEF Fs
  <2> QED BY <1>1, HoldsAny
<1>3. PICK n \in 1 .. Len(p) - 1 :
        F = And(Ctrl(a, p[n], p[n + 1]), ArcCut("isync", Suffix(p, n)))
  BY <1>2
<1> DEFINE q == Suffix(p, n)
<1>4. CtrlVar(a, p[n], p[n + 1]) \in S /\ Holds(ArcCut("isync", q), S)
  BY <1>2, <1>3, HoldsBoth, HoldsCtrl
<1>5. PICK i \in 1 .. Len(q) - 1 : FenceVar("isync", q[i], q[i + 1]) \in S
  <2> HIDE DEF q
  <2> QED BY <1>4, HoldsArcCut
<1>6. /\ Len(p) \in Nat /\ Len(q) = Len(p) - n + 1
      /\ \A j \in 1 .. Len(p) - n + 1 : q[j] = p[n + j - 1]
  BY DEF Suffix
<1> HIDE DEF q
<1>7. i \in 1 .. Len(p) - n /\ i + 1 \in 1 .. Len(p) - n + 1
  BY <1>5, <1>6
<1>8. q[i] = p[n + i - 1] /\ q[i + 1] = p[(n + i - 1) + 1]
  BY <1>6, <1>7
<1>9. n + i - 1 \in 1 .. Len(p) - 1 /\ n <= n + i - 1
  BY <1>6, <1>7
<1> QED BY <1>4, <1>5, <1>8, <1>9

-----------------------------------------------------------------------------
(* What a solution S says of one edge, in terms of the arcs with a fence   *)
(* that orders it, of those with a branch on what its source read, and of  *)
(* those with an isync.                                                    *)
FenceArcs(e, S) ==
  {arc \in Blocks \X Blocks :
     \E k \in Fences : FenceVar(k, arc[1], arc[2]) \in S /\ FenceOrders(e, k, FALSE)}
BranchArcs(e, S) ==
  {arc \in Blocks \X Blocks :
     CtrlVar(e.src, arc[1], arc[2]) \in S /\ actions[e.src].odep # NoValue}
SyncArcs(S) ==
  {arc \in Blocks \X Blocks : FenceVar("isync", arc[1], arc[2]) \in S}

(* A fence; or a branch and, on the same arc or later, an isync.           *)
Passing(e, S, p) ==
  Passes(p, FenceArcs(e, S) \cup (BranchArcs(e, S) \cap SyncArcs(S)),
         BranchArcs(e, S), SyncArcs(S))

(* No dependency carries what the source of e read.                        *)
NoDataOf(e, S) ==
  actions[e.src].odep # NoValue => \A v \in S : v.kind = "data" => v.dep # e.src

LEMMA ArcsOfPath ==
  ASSUME NEW p \in Seq(Blocks), NEW n \in 1 .. Len(p) - 1
  PROVE  p[n] \in Blocks /\ p[n + 1] \in Blocks /\ <<p[n], p[n + 1]>> \in Blocks \X Blocks
OBVIOUS

LEMMA FenceOnPath ==
  ASSUME NEW e, NEW S, NEW p \in Seq(Blocks), NEW k \in Fences,
         FenceOrders(e, k, FALSE), Holds(ArcCut(k, p), S)
  PROVE  Crosses(p, FenceArcs(e, S))
<1>1. PICK n \in 1 .. Len(p) - 1 : FenceVar(k, p[n], p[n + 1]) \in S
  BY HoldsArcCut
<1>2. <<p[n], p[n + 1]>> \in FenceArcs(e, S)
  BY <1>1, ArcsOfPath DEF FenceArcs
<1> QED BY <1>2 DEF Crosses

LEMMA HoldsPathVcut ==
  ASSUME Apart, NEW e \in Edges, NEW S, NEW p \in Seq(Blocks),
         p[1] \in {actions[e.src].bb, actions[e.src].out},
         Holds(PathVcut(p, e.type), S)
  PROVE  Crosses(p, FenceArcs(e, S))
<1> DEFINE afterWrites == \E a \in ActionAtBlock(p[1]) : actions[a].type = "SimpleWrites"
           ks == {"sync"} \cup (IF e.type = PushEdge THEN {} ELSE {"lwsync"})
                    \cup (IF e.type # PushEdge /\ afterWrites THEN {"dmbst"} ELSE {})
           Fs == {ArcCut(k, p) : k \in ks}
<1>1. PathVcut(p, e.type) = AnyOf(Fs)
  BY DEF PathVcut
<1>2. PICK F \in Fs : Holds(F, S)
  <2> HIDE DEF Fs
  <2> QED BY <1>1, HoldsAny
<1>3. PICK k \in ks : F = ArcCut(k, p)
  BY <1>2
<1>4. afterWrites => actions[e.src].type = "SimpleWrites"
  BY DEF ActionAtBlock, Apart, Edges
<1>5. k \in Fences /\ FenceOrders(e, k, FALSE)
  <2> HIDE DEF afterWrites
  <2> QED BY <1>3, <1>4 DEF Fences, FenceOrders
<1> QED BY <1>2, <1>3, <1>5, FenceOnPath

LEMMA HoldsPathCtrlCut ==
  ASSUME Apart, NEW e \in Edges, NEW S, NEW p \in Seq(Blocks),
         p[1] = actions[e.src].bb, NEW tail, Holds(PathCtrlCut(p, tail), S)
  PROVE  /\ ~(params.addCtrl < 0) /\ actions[e.src].odep # NoValue
         /\ IF actions[tail].type = "SimpleWrites"
            THEN Crosses(p, BranchArcs(e, S)) ELSE Passing(e, S, p)
<1> DEFINE cut(a) == IF actions[tail].type = "SimpleWrites"
                     THEN PathCtrl(a, p) ELSE PathCtrlIsync(a, p)
           Fs == {cut(a) : a \in Readers(p[1])}
<1>1. ~(params.addCtrl < 0) /\ PathCtrlCut(p, tail) = AnyOf(Fs)
  BY DEF PathCtrlCut, Holds, FalseFormula
<1>2. PICK F \in Fs : Holds(F, S)
  <2> HIDE DEF Fs
  <2> QED BY <1>1, HoldsAny
<1>3. PICK a \in Readers(p[1]) : F = cut(a)
  BY <1>2
<1>4. a = e.src /\ actions[e.src].odep # NoValue
  BY DEF Readers, ActionAtBlock, Apart, Edges
<1>5. CASE actions[tail].type = "SimpleWrites"
  <2>1. PICK n \in 1 .. Len(p) - 1 : CtrlVar(e.src, p[n], p[n + 1]) \in S
    BY <1>2, <1>3, <1>4, <1>5, HoldsPathCtrl
  <2>2. <<p[n], p[n + 1]>> \in BranchArcs(e, S)
    BY <1>4, <2>1, ArcsOfPath DEF BranchArcs
  <2> QED BY <1>1, <1>4, <1>5, <2>2 DEF Crosses
<1>6. CASE actions[tail].type # "SimpleWrites"
  <2>1. Holds(PathCtrlIsync(e.src, p), S)
    BY <1>2, <1>3, <1>4, <1>6
  <2>2. PICK n, m \in 1 .. Len(p) - 1 :
           /\ n <= m
           /\ CtrlVar(e.src, p[n], p[n + 1]) \in S
           /\ FenceVar("isync", p[m], p[m + 1]) \in S
    BY <2>1, HoldsPathCtrlIsync
  <2>3. <<p[n], p[n + 1]>> \in BranchArcs(e, S) /\ <<p[m], p[m + 1]>> \in SyncArcs(S)
    BY <1>4, <2>2, ArcsOfPath DEF BranchArcs, SyncArcs
  <2>4. n < m \/ n = m
    BY <2>2
  <2> QED BY <1>1, <1>4, <1>6, <2>3, <2>4 DEF Passing, Passes, Crosses
<1> QED BY <1>5, <1>6

(* A dependency that makes a path safe starts with what the source read.   *)
LEMMA HoldsPathDataCut ==
  ASSUME Apart, NEW e \in Edges, NEW S, NEW p \in Seq(Blocks), Len(p) >= 2,
         p[1] = actions[e.src].bb, NEW tail, NEW bind, Holds(PathDataCut(p, tail, bind), S)
  PROVE  ~NoDataOf(e, S)
<1>1. ~(params.useData < 0)
  BY DEF PathDataCut, Holds, FalseFormula
<1>2. PathDataCut(p, tail, bind) = (CHOOSE f : DataCuts(f, p, tail, bind))[1]
  BY <1>1 DEF PathDataCut, DataCuts, DataFrom, DataThen
<1>3. PICK f : f = CHOOSE h : DataCuts(h, p, tail, bind)
  OBVIOUS
<1>4. DataCuts(f, p, tail, bind)
  <2>1. Len(p) \in Nat
    OBVIOUS
  <2> QED BY <1>3, <2>1, DataCutsExist
<1>5. f[1] = DataFrom(p, tail, bind, 1, f)
  BY <1>4 DEF DataCuts
<1> DEFINE part(n) == {DataThen(p, tail, bind, 1, a, n, f[n + 1]) : a \in Readers(p[1])}
           Fs == UNION {part(n) : n \in 1 .. Len(p) - 1}
<1>6. Holds(AnyOf(Fs), S)
  BY <1>2, <1>3, <1>5 DEF DataFrom
<1>7. PICK F \in Fs : Holds(F, S)
  <2> HIDE DEF Fs
  <2> QED BY <1>6, HoldsAny
<1>8. PICK n \in 1 .. Len(p) - 1, a \in Readers(p[1]) :
        F = DataThen(p, tail, bind, 1, a, n, f[n + 1])
  BY <1>7
<1>9. Holds(Data(a, p[n + 1], Suffix(p, 1), bind), S)
  BY <1>7, <1>8, HoldsBoth DEF DataThen
<1>10. a = e.src /\ actions[e.src].odep # NoValue
  BY DEF Readers, ActionAtBlock, Apart, Edges
<1> DEFINE v == DataVar(bind, a, p[n + 1], Suffix(p, 1))
           Gs == {{{v}} : t \in {u \in ActionAtBlock(p[n + 1]) :
                                   AddrDepsOn([src |-> a, dst |-> u, bind |-> bind],
                                              Suffix(p, 1))}}
<1>11. Data(a, p[n + 1], Suffix(p, 1), bind) = AnyOf(Gs)
  BY DEF Data
<1>12. PICK G \in Gs : Holds(G, S)
  <2> HIDE DEF Gs
  <2> QED BY <1>9, <1>11, HoldsAny
<1>13. v \in S
  BY <1>12 DEF Holds
<1>14. v.kind = "data" /\ v.dep = e.src
  BY <1>10 DEF DataVar
<1> QED BY <1>10, <1>13, <1>14 DEF NoDataOf

(* The access orders that S asks for order e. *)
Asks(S, k, a) ==
  LET bb == actions[a].bb IN bb \in fn.sc \/ \E v \in S : v.kind = k /\ v.src = bb

AccessCut(e, S) ==
  LET st == actions[e.src].type
      dt == actions[e.dst].type
      reads    == st \in {"SimpleRead", "SimpleRMW"}
      released == Asks(S, "release", e.dst)
      acquired == Asks(S, "acquire", e.src) /\ reads
  IN /\ e.type # PushEdge
     /\ \/ e.type = ExecutionEdge /\ acquired
        \/ released /\ dt = "SimpleWrites" /\ (params.relAbuse \/ st = "SimpleWrites")
        \/ released /\ dt = "SimpleRMW" /\ e.type = VisibilityEdge
             /\ (params.relAbuse \/ st = "SimpleWrites")
        \/ released /\ acquired /\ dt \in {"SimpleWrites", "SimpleRMW"}

LEMMA HoldsStrengthened ==
  ASSUME NEW S, NEW k \in Strengths, NEW a, Holds(Strengthened(k, a), S)
  PROVE  Asks(S, k, a)
<1> DEFINE bb == actions[a].bb
           d == CHOOSE b \in fn.cfg.succ[bb] : TRUE
<1>1. CASE bb \in fn.sc
  BY <1>1 DEF Asks
<1>2. CASE bb \notin fn.sc
  <2>1. Strengthened(k, a) = FalseFormula \/ Strengthened(k, a) = IsCut(k, bb, d)
    BY <1>2 DEF Strengthened
  <2>2. Holds(IsCut(k, bb, d), S)
    BY <2>1 DEF Holds, FalseFormula
  <2>3. FenceVar(k, bb, d) \in S
    BY <2>2, HoldsCut
  <2>4. FenceVar(k, bb, d).kind = k /\ FenceVar(k, bb, d).src = bb
    BY DEF FenceVar
  <2> QED BY <2>3, <2>4 DEF Asks
<1> QED BY <1>1, <1>2

LEMMA HoldsRelAcqCut ==
  ASSUME NEW S, NEW e, Holds(RelAcqCut(e), S)
  PROVE  AccessCut(e, S)
<1> DEFINE st == actions[e.src].type
           dt == actions[e.dst].type
           reads == st \in {"SimpleRead", "SimpleRMW"}
           R == Strengthened("release", e.dst)
           A == Strengthened("acquire", e.src)
           r == /\ e.type # PushEdge
                /\ st = "SimpleWrites" \/ params.relAbuse
                /\ \/ dt = "SimpleWrites"
                   \/ dt = "SimpleRMW" /\ e.type = VisibilityEdge
           a == e.type = ExecutionEdge /\ reads
           both == /\ ~params.relAbuse /\ e.type # PushEdge /\ reads
                   /\ dt \in {"SimpleWrites", "SimpleRMW"}
           F == IF r THEN R ELSE FalseFormula
           G == IF a THEN A ELSE FalseFormula
           H == IF both THEN And(R, A) ELSE FalseFormula
<1>1. RelAcqCut(e) = AnyOf({F, G, H})
  BY DEF RelAcqCut
<1>2. Holds(R, S) => Asks(S, "release", e.dst)
  BY HoldsStrengthened DEF Strengths
<1>3. Holds(A, S) => Asks(S, "acquire", e.src)
  BY HoldsStrengthened DEF Strengths
<1>4. Holds(And(R, A), S) => Asks(S, "release", e.dst) /\ Asks(S, "acquire", e.src)
  <2> HIDE DEF R, A
  <2> QED BY <1>2, <1>3, HoldsBoth
<1>5. Holds(F, S) \/ Holds(G, S) \/ Holds(H, S)
  <2> HIDE DEF F, G, H
  <2> QED BY <1>1, HoldsAny
<1>6. ~Holds(FalseFormula, S)
  BY DEF Holds, FalseFormula
<1>7. \/ r /\ Asks(S, "release", e.dst)
      \/ a /\ Asks(S, "acquire", e.src)
      \/ both /\ Asks(S, "release", e.dst) /\ Asks(S, "acquire", e.src)
  <2> HIDE DEF R, A, r, a, both
  <2> QED BY <1>2, <1>3, <1>4, <1>5, <1>6
<1>8. ExecutionEdge # PushEdge
  BY DEF ExecutionEdge, PushEdge
<1> QED BY <1>7, <1>8 DEF AccessCut

-----------------------------------------------------------------------------
(* What a solution says of all the paths of an edge.                       *)

SelfEdge(e) == [e EXCEPT !.dst = e.src]

(* What the branches and fences do on a path to the action tail.           *)
CutAt(e, S, p, tail) ==
  \/ Crosses(p, FenceArcs(e, S))
  \/ /\ actions[e.src].odep # NoValue
     /\ IF actions[tail].type = "SimpleWrites"
        THEN Crosses(p, BranchArcs(e, S)) ELSE Passing(e, S, p)

LEMMA HoldsPathXcut ==
  ASSUME Apart, NEW e \in Edges, e.type = ExecutionEdge, NEW S, NoDataOf(e, S),
         NEW p \in Seq(Blocks), Len(p) >= 2, p[1] = actions[e.src].bb,
         NEW ctrlAgain, NEW dataAgain, Holds(PathXcut(e, p, ctrlAgain, dataAgain), S)
  PROVE  \/ Crosses(p, FenceArcs(e, S))
         \/ Holds(ctrlAgain, S) /\ ~(params.addCtrl < 0) /\ CutAt(e, S, p, e.dst)
<1> DEFINE F == And(PathCtrlCut(p, e.dst), ctrlAgain)
           G == And(PathDataCut(p, e.dst, e.bind), dataAgain)
           Fs == {ArcCut("dmbld", p), PathVcut(p, ExecutionEdge), F, G}
<1>1. PathXcut(e, p, ctrlAgain, dataAgain) = AnyOf(Fs)
  BY DEF PathXcut
<1>2. \/ Holds(ArcCut("dmbld", p), S) \/ Holds(PathVcut(p, ExecutionEdge), S)
      \/ Holds(F, S) \/ Holds(G, S)
  <2>1. PICK H \in Fs : Holds(H, S)
    <3> HIDE DEF Fs
    <3> QED BY <1>1, HoldsAny
  <2> HIDE DEF F, G
  <2> QED BY <2>1
<1>3. CASE Holds(ArcCut("dmbld", p), S)
  <2>1. "dmbld" \in Fences /\ FenceOrders(e, "dmbld", FALSE)
    BY DEF Fences, FenceOrders
  <2> QED BY <1>3, <2>1, FenceOnPath
<1>4. CASE Holds(PathVcut(p, ExecutionEdge), S)
  BY <1>4, HoldsPathVcut
<1>5. CASE Holds(F, S)
  <2>1. Holds(PathCtrlCut(p, e.dst), S) /\ Holds(ctrlAgain, S)
    BY <1>5, HoldsBoth
  <2> QED BY <2>1, HoldsPathCtrlCut DEF CutAt
<1>6. CASE Holds(G, S)
  <2>1. Holds(PathDataCut(p, e.dst, e.bind), S)
    BY <1>6, HoldsBoth
  <2> QED BY <2>1, HoldsPathDataCut
<1> QED BY <1>2, <1>3, <1>4, <1>5, <1>6

LEMMA HoldsXcutIf ==
  ASSUME FormulasOK, Apart, NEW e \in Edges, e.type = ExecutionEdge,
         NEW S, NoDataOf(e, S),
         NEW ctrlAgain, params.addCtrl >= 0 => ctrlAgain \in Formulas,
         NEW dataAgain \in Formulas, Holds(XcutIf(e, ctrlAgain, dataAgain), S)
  PROVE  \/ AccessCut(e, S)
         \/ \A p \in PathsFrom(e.bind, actions[e.src].bb, actions[e.dst].bb) :
              \/ Crosses(p, FenceArcs(e, S))
              \/ Holds(ctrlAgain, S) /\ ~(params.addCtrl < 0) /\ CutAt(e, S, p, e.dst)
<1> DEFINE Ps == PathsFrom(e.bind, actions[e.src].bb, actions[e.dst].bb)
           f == [p \in Ps |-> PathXcut(e, p, ctrlAgain, dataAgain)]
           Fs == {f[p] : p \in Ps}
<1>1. /\ IsFiniteSet(Ps)
      /\ \A p \in Ps : /\ IsPath(p) /\ Len(p) >= 2 /\ p \in Seq(Blocks)
                       /\ p[1] = actions[e.src].bb /\ p[Len(p)] = actions[e.dst].bb
  BY PathsType DEF FormulasOK, IsPath
<1>2. IsFiniteSet(Fs)
  <2> HIDE DEF Ps, f
  <2> QED BY <1>1, ImageFinite
<1>3. Fs \in SUBSET Formulas
  <2> HIDE DEF Ps
  <2> QED BY <1>1, PathXcutType
<1>4. XcutIf(e, ctrlAgain, dataAgain) = AnyOf({RelAcqCut(e), AllOf(Fs)})
  <2>1. Fs = {PathXcut(e, p, ctrlAgain, dataAgain) : p \in Ps}
    <3> HIDE DEF Ps
    <3> QED OBVIOUS
  <2> QED BY <2>1 DEF XcutIf
<1>5. Holds(RelAcqCut(e), S) \/ Holds(AllOf(Fs), S)
  <2> HIDE DEF Fs
  <2>1. PICK F \in {RelAcqCut(e), AllOf(Fs)} : Holds(F, S)
    BY <1>4, HoldsAny
  <2> QED BY <2>1
<1>6. CASE Holds(RelAcqCut(e), S)
  BY <1>6, HoldsRelAcqCut
<1>7. CASE Holds(AllOf(Fs), S)
  <2>1. \A F \in Fs : Holds(F, S)
    <3> HIDE DEF Fs
    <3> QED BY <1>2, <1>3, <1>7, HoldsAll
  <2>2. \A p \in Ps : Holds(PathXcut(e, p, ctrlAgain, dataAgain), S)
    <3> HIDE DEF Ps
    <3> QED BY <2>1
  <2> HIDE DEF Fs, f
  <2>3. ASSUME NEW p \in Ps
        PROVE  \/ Crosses(p, FenceArcs(e, S))
               \/ Holds(ctrlAgain, S) /\ ~(params.addCtrl < 0) /\ CutAt(e, S, p, e.dst)
    <3>1. p \in Seq(Blocks) /\ Len(p) >= 2 /\ p[1] = actions[e.src].bb
          /\ Holds(PathXcut(e, p, ctrlAgain, dataAgain), S)
      BY <1>1, <2>2
    <3> HIDE DEF Ps
    <3> QED BY <3>1, HoldsPathXcut
  <2> QED BY <2>3
<1> QED BY <1>5, <1>6, <1>7

(* The paths on which the source comes back to itself are cut.             *)
SelfCut(e, S) ==
  \A p \in PathsFrom(e.bind, actions[e.src].bb, actions[e.src].bb) :
    Passing(e, S, p) \/ Crosses(p, BranchArcs(e, S))

LEMMA CutAtSelf ==
  ASSUME NEW e, NEW S, NEW p, NEW tail, CutAt(e, S, p, tail)
  PROVE  Passing(e, S, p) \/ Crosses(p, BranchArcs(e, S))
BY DEF CutAt, Passing, Passes, Crosses

LEMMA SelfArcs ==
  ASSUME NEW e \in Edges, NEW S
  PROVE  /\ SelfEdge(e) \in Edges
         /\ SelfEdge(e).type = e.type /\ SelfEdge(e).bind = e.bind
         /\ SelfEdge(e).src = e.src /\ SelfEdge(e).dst = e.src
         /\ NoDataOf(e, S) => NoDataOf(SelfEdge(e), S)
         /\ \A p, tail : CutAt(SelfEdge(e), S, p, tail) <=> CutAt(e, S, p, tail)
         /\ \A p : Crosses(p, FenceArcs(SelfEdge(e), S)) <=> Crosses(p, FenceArcs(e, S))
<1>1. /\ SelfEdge(e) \in Edges
      /\ SelfEdge(e).type = e.type /\ SelfEdge(e).bind = e.bind
      /\ SelfEdge(e).src = e.src /\ SelfEdge(e).dst = e.src
  BY DEF SelfEdge, Edges
<1>2. \A k : FenceOrders(SelfEdge(e), k, FALSE) <=> FenceOrders(e, k, FALSE)
  BY <1>1 DEF FenceOrders
<1>3. FenceArcs(SelfEdge(e), S) = FenceArcs(e, S)
  BY <1>2 DEF FenceArcs
<1>4. BranchArcs(SelfEdge(e), S) = BranchArcs(e, S)
  BY <1>1 DEF BranchArcs
<1>5. \A p : Passing(SelfEdge(e), S, p) <=> Passing(e, S, p)
  BY <1>3, <1>4 DEF Passing
<1>6. \A p, tail : CutAt(SelfEdge(e), S, p, tail) <=> CutAt(e, S, p, tail)
  BY <1>1, <1>3, <1>4, <1>5 DEF CutAt
<1> QED BY <1>1, <1>3, <1>6 DEF NoDataOf

LEMMA HoldsTrue == ASSUME NEW S PROVE Holds(TrueFormula, S)
BY DEF Holds, TrueFormula

(* The next instance of the source is ordered after this one.              *)
LEMMA HoldsAgain ==
  ASSUME FormulasOK, Apart, NEW e \in Edges, e.type = ExecutionEdge,
         actions[e.src].type # "SimpleWrites",
         NEW S, NoDataOf(e, S),
         Holds(XcutIf(SelfEdge(e), TrueFormula, TrueFormula), S)
  PROVE  AccessCut(e, S) \/ SelfCut(e, S)
<1> DEFINE f == SelfEdge(e)
<1>1. /\ f \in Edges /\ f.type = ExecutionEdge /\ f.bind = e.bind
      /\ f.src = e.src /\ f.dst = e.src /\ NoDataOf(f, S)
      /\ \A p, tail : CutAt(f, S, p, tail) <=> CutAt(e, S, p, tail)
      /\ \A p : Crosses(p, FenceArcs(f, S)) <=> Crosses(p, FenceArcs(e, S))
  BY SelfArcs
<1> HIDE DEF f
<1>2. \/ AccessCut(f, S)
      \/ \A p \in PathsFrom(f.bind, actions[f.src].bb, actions[f.dst].bb) :
           \/ Crosses(p, FenceArcs(f, S))
           \/ Holds(TrueFormula, S) /\ ~(params.addCtrl < 0) /\ CutAt(f, S, p, f.dst)
  BY <1>1, TrueType, HoldsXcutIf DEF f
<1>3. CASE AccessCut(f, S)
  BY <1>1, <1>3 DEF AccessCut, ExecutionEdge, VisibilityEdge, PushEdge
<1>4. CASE \A p \in PathsFrom(e.bind, actions[e.src].bb, actions[e.src].bb) :
             Crosses(p, FenceArcs(e, S)) \/ CutAt(e, S, p, e.src)
  <2>1. \A p \in PathsFrom(e.bind, actions[e.src].bb, actions[e.src].bb) :
          CutAt(e, S, p, e.src)
    BY <1>4 DEF CutAt
  <2> QED BY <2>1, CutAtSelf DEF SelfCut
<1> QED BY <1>1, <1>2, <1>3, <1>4

LEMMA HoldsAllPathsCtrl ==
  ASSUME FormulasOK, params.addCtrl >= 0, NEW e \in Edges, actions[e.src].odep # NoValue,
         NEW S, Holds(AllPathsCtrl(e.src), S)
  PROVE  SelfCut(e, S)
<1> DEFINE bb == actions[e.src].bb
           Ps == PathsFrom(Outside, bb, bb)
           f == [p \in Ps |-> PathCtrl(e.src, p)]
           Fs == {f[p] : p \in Ps}
<1>1. IsFiniteSet(Ps) /\ \A p \in Ps : IsPath(p) /\ p \in Seq(Blocks)
  BY PathsType DEF FormulasOK, IsPath
<1>2. IsFiniteSet(Fs)
  <2> HIDE DEF Ps, f
  <2> QED BY <1>1, ImageFinite
<1>3. Fs \in SUBSET Formulas
  <2>1. e.src \in ActionsOf
    BY DEF Edges
  <2> HIDE DEF Ps
  <2> QED BY <1>1, <2>1, PathCtrlType
<1>4. AllPathsCtrl(e.src) = AllOf(Fs)
  <2>1. Fs = {PathCtrl(e.src, p) : p \in Ps}
    <3> HIDE DEF Ps
    <3> QED OBVIOUS
  <2> QED BY <2>1 DEF AllPathsCtrl
<1>5. \A F \in Fs : Holds(F, S)
  <2> HIDE DEF Fs
  <2> QED BY <1>2, <1>3, <1>4, HoldsAll
<1>6. ASSUME NEW p \in Ps PROVE Crosses(p, BranchArcs(e, S))
  <2>1. Holds(PathCtrl(e.src, p), S)
    <3> HIDE DEF Ps
    <3> QED BY <1>5, <1>6
  <2>2. PICK n \in 1 .. Len(p) - 1 : CtrlVar(e.src, p[n], p[n + 1]) \in S
    BY <2>1, HoldsPathCtrl
  <2>3. <<p[n], p[n + 1]>> \in BranchArcs(e, S)
    <3> HIDE DEF Ps
    <3> QED BY <1>1, <1>6, <2>2, ArcsOfPath DEF BranchArcs
  <2> QED BY <2>3 DEF Crosses
<1>7. PathsFrom(e.bind, bb, bb) \subseteq Ps
  BY DEF PathsFrom, FindAllSimplePaths
<1> QED BY <1>6, <1>7 DEF SelfCut

(* The edges that the solution cuts without a dependency on an address.    *)
EdgePaths(e) ==
  PathsFrom(e.bind,
            IF e.type = ExecutionEdge THEN actions[e.src].bb ELSE actions[e.src].out,
            actions[e.dst].bb)

FenceCut(e, S) == \A p \in EdgePaths(e) : Crosses(p, FenceArcs(e, S))

BranchCut(e, S) ==
  /\ e.type = ExecutionEdge /\ actions[e.src].odep # NoValue
  /\ \A p \in EdgePaths(e) : CutAt(e, S, p, e.dst)
  /\ SelfCut(e, S)

LEMMA HoldsXcut ==
  ASSUME FormulasOK, Apart, NEW e \in edges, e.type = ExecutionEdge,
         actions[e.src].type # "SimpleWrites",
         NEW S, NoDataOf(e, S), Holds(Xcut(e), S)
  PROVE  AccessCut(e, S) \/ FenceCut(e, S) \/ BranchCut(e, S)
<1> DEFINE again == XcutIf(SelfEdge(e), TrueFormula, TrueFormula)
           head == Readers(actions[e.src].bb)
           Fs == {again} \cup {AllPathsCtrl(a) : a \in head}
           once == XcutIf(e, TrueFormula, TrueFormula)
           twice == XcutIf(e, AnyOf(Fs), again)
<1>1. e \in Edges /\ SelfEdge(e) \in Edges /\ ~(e.type = PushEdge)
  BY SelfArcs DEF FormulasOK, ExecutionEdge, PushEdge
<1>2. Xcut(e) = IF actions[e.src].bb = actions[e.dst].bb THEN once ELSE twice
  BY DEF Xcut, SelfEdge
<1>3. EdgePaths(e) = PathsFrom(e.bind, actions[e.src].bb, actions[e.dst].bb)
  BY DEF EdgePaths
<1>4. CASE actions[e.src].bb = actions[e.dst].bb
  <2>1. Holds(once, S)
    BY <1>2, <1>4
  <2>2. \/ AccessCut(e, S)
        \/ \A p \in EdgePaths(e) :
             \/ Crosses(p, FenceArcs(e, S))
             \/ Holds(TrueFormula, S) /\ ~(params.addCtrl < 0) /\ CutAt(e, S, p, e.dst)
    BY <1>1, <1>3, <2>1, TrueType, HoldsXcutIf
  <2>3. ASSUME ~AccessCut(e, S), ~FenceCut(e, S) PROVE BranchCut(e, S)
    <3>1. \A p \in EdgePaths(e) : CutAt(e, S, p, e.dst)
      BY <2>2, <2>3 DEF CutAt
    <3>2. actions[e.src].odep # NoValue
      BY <2>3, <3>1 DEF FenceCut, CutAt
    <3>3. SelfCut(e, S)
      BY <1>3, <1>4, <3>1, CutAtSelf DEF SelfCut
    <3> QED BY <3>1, <3>2, <3>3 DEF BranchCut
  <2> QED BY <2>3
<1>5. CASE actions[e.src].bb # actions[e.dst].bb
  <2>1. Holds(twice, S)
    BY <1>2, <1>5
  <2>2. again \in Formulas
    BY <1>1, TrueType, XcutIfType
  <2>3. ASSUME params.addCtrl >= 0 PROVE AnyOf(Fs) \in Formulas
    <3>1. Fs \in SUBSET Formulas
      <4> HIDE DEF again
      <4> QED BY <2>2, <2>3, ReadersType, AllPathsCtrlType
    <3> HIDE DEF Fs
    <3> QED BY <3>1, AnyOfType
  <2>4. \/ AccessCut(e, S)
        \/ \A p \in EdgePaths(e) :
             \/ Crosses(p, FenceArcs(e, S))
             \/ Holds(AnyOf(Fs), S) /\ ~(params.addCtrl < 0) /\ CutAt(e, S, p, e.dst)
    <3> HIDE DEF Fs, again
    <3> QED BY <1>1, <1>3, <2>1, <2>2, <2>3, HoldsXcutIf
  <2>5. ASSUME ~AccessCut(e, S), ~FenceCut(e, S) PROVE BranchCut(e, S)
    <3>1. \A p \in EdgePaths(e) : CutAt(e, S, p, e.dst)
      BY <2>4, <2>5 DEF CutAt
    <3>2. /\ actions[e.src].odep # NoValue
          /\ Holds(AnyOf(Fs), S) /\ ~(params.addCtrl < 0)
      BY <2>4, <2>5, <3>1 DEF FenceCut, CutAt
    <3>3. params.addCtrl >= 0
      BY <3>2, ParamsType DEF FormulasOK
    <3>4. PICK F \in Fs : Holds(F, S)
      <4> HIDE DEF Fs
      <4> QED BY <3>2, HoldsAny
    <3>5. CASE F = again
      BY <1>1, <2>5, <3>4, <3>5, HoldsAgain, <3>1, <3>2 DEF BranchCut
    <3>6. CASE F # again
      <4>1. PICK a \in head : F = AllPathsCtrl(a)
        BY <3>4, <3>6
      <4>2. a = e.src
        BY <1>1 DEF Readers, ActionAtBlock, Apart, Edges
      <4>3. SelfCut(e, S)
        BY <1>1, <3>2, <3>3, <3>4, <4>1, <4>2, HoldsAllPathsCtrl
      <4> QED BY <3>1, <3>2, <4>3 DEF BranchCut
    <3> QED BY <3>5, <3>6
  <2> QED BY <2>5
<1> QED BY <1>4, <1>5

LEMMA HoldsVcut ==
  ASSUME FormulasOK, Apart, NEW e \in edges, e.type # ExecutionEdge,
         NEW S, Holds(Vcut(e), S)
  PROVE  AccessCut(e, S) \/ FenceCut(e, S)
<1> DEFINE Ps == PathsFrom(e.bind, actions[e.src].out, actions[e.dst].bb)
           f == [p \in Ps |-> PathVcut(p, e.type)]
           Fs == {f[p] : p \in Ps}
<1>1. /\ IsFiniteSet(Ps)
      /\ \A p \in Ps : /\ IsPath(p) /\ Len(p) >= 2 /\ p \in Seq(Blocks)
                       /\ p[1] = actions[e.src].out /\ p[Len(p)] = actions[e.dst].bb
  BY PathsType DEF FormulasOK, IsPath
<1>2. IsFiniteSet(Fs)
  <2> HIDE DEF Ps, f
  <2> QED BY <1>1, ImageFinite
<1>3. Fs \in SUBSET Formulas
  <2> HIDE DEF Ps
  <2> QED BY <1>1, PathVcutType
<1>4. Vcut(e) = AnyOf({RelAcqCut(e), AllOf(Fs)})
  <2>1. Fs = {PathVcut(p, e.type) : p \in Ps}
    <3> HIDE DEF Ps
    <3> QED OBVIOUS
  <2> QED BY <2>1 DEF Vcut
<1>5. e \in Edges /\ EdgePaths(e) = Ps
  BY DEF FormulasOK, EdgePaths
<1>6. Holds(RelAcqCut(e), S) \/ Holds(AllOf(Fs), S)
  <2> HIDE DEF Fs
  <2>1. PICK F \in {RelAcqCut(e), AllOf(Fs)} : Holds(F, S)
    BY <1>4, HoldsAny
  <2> QED BY <2>1
<1>7. CASE Holds(RelAcqCut(e), S)
  BY <1>7, HoldsRelAcqCut
<1>8. CASE Holds(AllOf(Fs), S)
  <2>1. \A F \in Fs : Holds(F, S)
    <3> HIDE DEF Fs
    <3> QED BY <1>2, <1>3, <1>8, HoldsAll
  <2>2. ASSUME NEW p \in Ps PROVE Crosses(p, FenceArcs(e, S))
    <3>1. Holds(PathVcut(p, e.type), S)
      <4> HIDE DEF Ps
      <4> QED BY <2>1, <2>2
    <3>2. p \in Seq(Blocks) /\ p[1] = actions[e.src].out
      BY <1>1, <2>2
    <3> QED BY <1>5, <3>1, <3>2, HoldsPathVcut
  <2> QED BY <1>5, <2>2 DEF FenceCut
<1> QED BY <1>6, <1>7, <1>8

(* All the edges at once.                                                  *)
LEMMA HoldsEdgesCut ==
  ASSUME FormulasOK, Apart, NEW S, Holds(EdgesCut, S),
         NEW e \in edges,
         e.type = ExecutionEdge => actions[e.src].type # "SimpleWrites" /\ NoDataOf(e, S)
  PROVE  AccessCut(e, S) \/ FenceCut(e, S) \/ BranchCut(e, S)
<1> DEFINE f == [x \in edges |-> IF x.type = ExecutionEdge THEN Xcut(x) ELSE Vcut(x)]
           Fs == {f[x] : x \in edges}
<1>1. IsFiniteSet(edges)
  BY EdgesFinite, FS_Subset DEF FormulasOK
<1>2. IsFiniteSet(Fs)
  <2> HIDE DEF f
  <2> QED BY <1>1, ImageFinite
<1>3. Fs \in SUBSET Formulas
  <2>1. ExecutionEdge # PushEdge
    BY DEF ExecutionEdge, PushEdge
  <2> QED BY <2>1, XcutType, VcutType
<1>4. EdgesCut = AllOf(Fs)
  <2>1. Fs = {IF x.type = ExecutionEdge THEN Xcut(x) ELSE Vcut(x) : x \in edges}
    OBVIOUS
  <2> QED BY <2>1 DEF EdgesCut
<1>5. \A F \in Fs : Holds(F, S)
  <2> HIDE DEF Fs
  <2> QED BY <1>2, <1>3, <1>4, HoldsAll
<1>6. Holds(IF e.type = ExecutionEdge THEN Xcut(e) ELSE Vcut(e), S)
  BY <1>5
<1> QED BY <1>6, HoldsXcut, HoldsVcut

-----------------------------------------------------------------------------
(* The code in which the cuts of a solution have been inserted.            *)

OneWay(b) == ~(Cardinality(fn.cfg.succ[b]) > 1)
In(ins, i) == \E n \in 1 .. Len(ins) : ins[n] = i
PutAt(v, i) == IF OneWay(v.src) THEN In(back[v.src], i) ELSE In(front[v.dst], i)

Inserted(v) ==
  /\ v.kind \in Fences => PutAt(v, Fence(v.kind))
  /\ v.kind = "ctrl" =>
       LET read == actions[v.dep].odep IN
       IF BranchesOn(v.src, read) THEN <<v.src, v.dst, read>> \in kept
       ELSE PutAt(v, Branch(read))
  /\ v.kind = "data" => actions[v.dep].odep \in hidden
  /\ v.kind \in Strengths => <<v.src, v.kind>> \in strong

(* A branch is put so that an isync of the same block comes after it.      *)
SyncsLast(ins) ==
  \A m \in 1 .. Len(ins) :
    ins[m].kind = "ctrl" /\ In(ins, Fence("isync"))
      => \E n \in m .. Len(ins) : ins[n] = Fence("isync")

CodeInOrder == \A b \in Blocks : SyncsLast(front[b]) /\ SyncsLast(back[b])

-----------------------------------------------------------------------------
(* The judgement of the walks.                                             *)

States == [b : Blocks, after : SUBSET DOMAIN fn.vals, ctrl : BOOLEAN]

LEMMA PastOne ==
  ASSUME NEW e, NEW s \in States, NEW ins, NEW t \in Past(e, s, ins)
  PROVE  /\ t \in States /\ t.b = s.b /\ t.after = s.after
         /\ t.ctrl = BranchedBy(s, ins, Len(ins))
         /\ \A n \in 1 .. Len(ins) :
              ~FenceOrders(e, ins[n].kind, BranchedBy(s, ins, n))
<1>1. t = [s EXCEPT !.ctrl = BranchedBy(s, ins, Len(ins))]
  BY DEF Past
<1>2. BranchedBy(s, ins, Len(ins)) \in BOOLEAN
  BY DEF BranchedBy, States
<1>3. \A n \in 1 .. Len(ins) : ~FenceOrders(e, ins[n].kind, BranchedBy(s, ins, n))
  BY DEF Past
<1> QED BY <1>1, <1>2, <1>3 DEF States

(* An arc that a walk takes past the instructions put on it has no fence   *)
(* that orders, and no isync behind a branch; behind a branch ctrl is set. *)
Clean(e, S, B, C, arc, before, ctrl) ==
  /\ arc \notin FenceArcs(e, S) /\ arc \notin B \cap C
  /\ arc \in B => ctrl
  /\ arc \in C => ~before

LEMMA ArcIsClean ==
  ASSUME NEW e, NEW S, NEW B \in SUBSET BranchArcs(e, S), NEW C \in SUBSET SyncArcs(S),
         C # {} => e.type = ExecutionEdge,
         NEW x, NEW d, NEW s \in States, NEW ins, NEW t \in Past(e, s, ins),
         NEW before \in BOOLEAN, before => s.ctrl,
         \A k \in Fences : FenceVar(k, x, d) \in S => In(ins, Fence(k)),
         <<x, d>> \in B => \/ s.ctrl
                           \/ /\ actions[e.src].odep \in s.after
                              /\ \/ fn.vals[actions[e.src].odep].op = "rmw"
                                 \/ In(ins, Branch(actions[e.src].odep)),
         SyncsLast(ins)
  PROVE  Clean(e, S, B, C, <<x, d>>, before, t.ctrl)
<1> DEFINE v == actions[e.src].odep
           by(n) == BranchedBy(s, ins, n)
<1>1. \A n \in 1 .. Len(ins) : ~FenceOrders(e, ins[n].kind, by(n))
  BY PastOne
<1>2. t.ctrl = by(Len(ins))
  BY PastOne
<1>3. \A k : Fence(k).kind = k
  BY DEF Fence
<1>4. \A k \in Fences : FenceVar(k, x, d) \in S => ~FenceOrders(e, k, FALSE)
  <2> SUFFICES ASSUME NEW k \in Fences, FenceVar(k, x, d) \in S, FenceOrders(e, k, FALSE)
               PROVE  FALSE
    OBVIOUS
  <2>1. PICK n \in 1 .. Len(ins) : ins[n] = Fence(k)
    BY DEF In
  <2>2. FenceOrders(e, ins[n].kind, by(n))
    <3> HIDE DEF by
    <3> QED BY <1>3, <2>1 DEF FenceOrders
  <2> QED BY <1>1, <2>2
<1>5. <<x, d>> \notin FenceArcs(e, S)
  BY <1>4 DEF FenceArcs
<1>6. \A n : s.ctrl => by(n)
  BY DEF BranchedBy
<1>7. \A n : v \in s.after /\ fn.vals[v].op = "rmw" => by(n)
  BY DEF BranchedBy
<1>8. \A m, n \in Nat : m >= 1 /\ m <= n /\ ins[m] = Branch(v) /\ v \in s.after => by(n)
  <2> SUFFICES ASSUME NEW m \in Nat, NEW n \in Nat, m >= 1, m <= n,
                      ins[m] = Branch(v), v \in s.after
               PROVE  by(n)
    OBVIOUS
  <2>1. m \in 1 .. n /\ ins[m].kind = "ctrl" /\ ins[m].read \in s.after
    BY DEF Branch
  <2> QED BY <2>1 DEF BranchedBy
<1>9. ASSUME NEW n \in 1 .. Len(ins), ins[n] = Fence("isync"), <<x, d>> \in C
      PROVE  ~by(n)
  <2>1. ~FenceOrders(e, "isync", by(n)) /\ e.type = ExecutionEdge
    BY <1>1, <1>3, <1>9
  <2> HIDE DEF by
  <2> QED BY <2>1 DEF FenceOrders
<1>10. <<x, d>> \in C => In(ins, Fence("isync"))
  BY DEF SyncArcs, Fences
<1> HIDE DEF by
<1>11. <<x, d>> \in B => t.ctrl
  <2> SUFFICES ASSUME <<x, d>> \in B PROVE t.ctrl
    OBVIOUS
  <2>1. CASE s.ctrl
    BY <1>2, <1>6, <2>1
  <2>2. CASE v \in s.after /\ fn.vals[v].op = "rmw"
    BY <1>2, <1>7, <2>2
  <2>3. CASE v \in s.after /\ In(ins, Branch(v))
    <3>1. PICK m \in 1 .. Len(ins) : ins[m] = Branch(v)
      BY <2>3 DEF In
    <3> QED BY <1>2, <1>8, <2>3, <3>1
  <2> QED BY <2>1, <2>2, <2>3
<1>12. <<x, d>> \in C => ~before
  <2> SUFFICES ASSUME <<x, d>> \in C, before PROVE FALSE
    OBVIOUS
  <2>1. PICK n \in 1 .. Len(ins) : ins[n] = Fence("isync")
    BY <1>10 DEF In
  <2> QED BY <1>6, <1>9, <2>1
<1>13. <<x, d>> \notin B \cap C
  <2> SUFFICES ASSUME <<x, d>> \in B, <<x, d>> \in C PROVE FALSE
    OBVIOUS
  <2>1. PICK n \in 1 .. Len(ins) : ins[n] = Fence("isync")
    BY <1>10 DEF In
  <2>2. CASE s.ctrl \/ (v \in s.after /\ fn.vals[v].op = "rmw")
    BY <1>6, <1>7, <1>9, <2>1, <2>2
  <2>3. CASE v \in s.after /\ In(ins, Branch(v))
    <3>1. PICK m \in 1 .. Len(ins) : ins[m] = Branch(v)
      BY <2>3 DEF In
    <3>2. PICK j \in m .. Len(ins) : ins[j] = Fence("isync")
      BY <1>10, <3>1 DEF SyncsLast, Branch
    <3> QED BY <1>8, <1>9, <2>3, <3>1, <3>2
  <2> QED BY <2>2, <2>3
<1> QED BY <1>5, <1>11, <1>12, <1>13 DEF Clean

LEMMA InsertedVars ==
  ASSUME NEW S, \A v \in S : Inserted(v), NEW x, NEW d
  PROVE  /\ \A k \in Fences : FenceVar(k, x, d) \in S =>
              IF OneWay(x) THEN In(back[x], Fence(k)) ELSE In(front[d], Fence(k))
         /\ \A a : CtrlVar(a, x, d) \in S =>
              LET read == actions[a].odep IN
              IF BranchesOn(x, read) THEN <<x, d, read>> \in kept
              ELSE IF OneWay(x) THEN In(back[x], Branch(read)) ELSE In(front[d], Branch(read))
<1>1. ASSUME NEW k \in Fences, FenceVar(k, x, d) \in S
      PROVE  IF OneWay(x) THEN In(back[x], Fence(k)) ELSE In(front[d], Fence(k))
  <2>1. FenceVar(k, x, d).kind = k /\ FenceVar(k, x, d).src = x /\ FenceVar(k, x, d).dst = d
    BY DEF FenceVar
  <2>2. PutAt(FenceVar(k, x, d), Fence(k))
    BY <1>1, <2>1 DEF Inserted
  <2> QED BY <2>1, <2>2 DEF PutAt
<1>2. ASSUME NEW a, CtrlVar(a, x, d) \in S
      PROVE  LET read == actions[a].odep IN
             IF BranchesOn(x, read) THEN <<x, d, read>> \in kept
             ELSE IF OneWay(x) THEN In(back[x], Branch(read)) ELSE In(front[d], Branch(read))
  <2> DEFINE v == CtrlVar(a, x, d)
             read == actions[a].odep
  <2>1. v.kind = "ctrl" /\ v.src = x /\ v.dst = d /\ v.dep = a
    BY DEF CtrlVar
  <2> HIDE DEF v
  <2>2. Inserted(v)
    BY <1>2 DEF v
  <2>3. IF BranchesOn(x, read) THEN <<x, d, read>> \in kept ELSE PutAt(v, Branch(read))
    BY <2>1, <2>2 DEF Inserted
  <2> QED BY <2>1, <2>3 DEF PutAt
<1> QED BY <1>1, <1>2

(* A walk about to take the arc to d, behind the branch that ends s.b.     *)
Branching(s, d) == [s EXCEPT !.ctrl = @ \/ \E v \in s.after : <<s.b, d, v>> \in kept]

LEMMA EnteringType ==
  ASSUME fn \in Functions, NEW e, NEW s \in States, NEW d \in Blocks,
         NEW t \in Entering(e, s, d)
  PROVE  /\ t \in States /\ t.b = d /\ (s.ctrl => t.ctrl)
         /\ t.after = AfterBlock(actions[e.src].odep, hidden, s.after, s.b, d)
         /\ Branching(s, d) \in States
         /\ t.ctrl \in {u.ctrl : u \in Past(e, Branching(s, d), front[d])}
<1> DEFINE r == Branching(s, d)
<1>1. r \in States /\ (s.ctrl => r.ctrl)
  BY DEF States, Branching
<1>2. PICK u \in Past(e, r, front[d]) :
        t = [b |-> d, ctrl |-> u.ctrl,
             after |-> AfterBlock(actions[e.src].odep, hidden, s.after, s.b, d)]
  BY DEF Entering, Branching
<1> HIDE DEF r
<1>4. u \in States /\ u.ctrl = BranchedBy(r, front[d], Len(front[d]))
  BY <1>1, <1>2, PastOne
<1>5. r.ctrl => u.ctrl
  BY <1>4 DEF BranchedBy
<1>6. s.ctrl => t.ctrl
  BY <1>1, <1>2, <1>5
<1>7. AfterBlock(actions[e.src].odep, hidden, s.after, s.b, d) \subseteq DOMAIN fn.vals
  BY DEF AfterBlock
<1>8. t \in States
  BY <1>2, <1>4, <1>7 DEF States
<1> QED BY <1>1, <1>2, <1>6, <1>8 DEF r

LEMMA EnteringIsClean ==
  ASSUME fn \in Functions, CodeInOrder,
         NEW e, NEW S, \A v \in S : Inserted(v),
         NEW B \in SUBSET BranchArcs(e, S), NEW C \in SUBSET SyncArcs(S),
         C # {} => e.type = ExecutionEdge,
         NEW s \in States, NEW d \in Blocks, ~OneWay(s.b),
         B # {} => s.ctrl \/ actions[e.src].odep \in s.after,
         NEW t \in Entering(e, s, d)
  PROVE  Clean(e, S, B, C, <<s.b, d>>, s.ctrl, t.ctrl)
<1> DEFINE v == actions[e.src].odep
           r == Branching(s, d)
<1>1. r \in States /\ t.ctrl \in {u.ctrl : u \in Past(e, r, front[d])}
  BY EnteringType
<1>2. r.after = s.after /\ r.b = s.b
      /\ r.ctrl = (s.ctrl \/ \E x \in s.after : <<s.b, d, x>> \in kept)
  BY DEF States, Branching
<1> HIDE DEF r
<1>3. \A k \in Fences : FenceVar(k, s.b, d) \in S => In(front[d], Fence(k))
  BY InsertedVars
<1>4. ASSUME <<s.b, d>> \in B
      PROVE  \/ r.ctrl
             \/ v \in r.after /\ (fn.vals[v].op = "rmw" \/ In(front[d], Branch(v)))
  <2>1. CtrlVar(e.src, s.b, d) \in S
    BY <1>4 DEF BranchArcs
  <2>2. IF BranchesOn(s.b, v) THEN <<s.b, d, v>> \in kept ELSE In(front[d], Branch(v))
    BY <2>1, InsertedVars
  <2>3. s.ctrl \/ v \in s.after
    BY <1>4
  <2> QED BY <1>2, <2>2, <2>3
<1>5. s.ctrl \in BOOLEAN /\ SyncsLast(front[d])
  BY DEF States, CodeInOrder
<1>6. s.ctrl => r.ctrl
  BY <1>2
<1>7. PICK u \in Past(e, r, front[d]) : t.ctrl = u.ctrl
  BY <1>1
<1>8. Clean(e, S, B, C, <<s.b, d>>, s.ctrl, u.ctrl)
  BY <1>1, <1>3, <1>4, <1>5, <1>6, ArcIsClean
<1> QED BY <1>7, <1>8

LEMMA LeavingIsClean ==
  ASSUME fn \in Functions, CodeInOrder,
         NEW e, NEW S, \A v \in S : Inserted(v),
         NEW B \in SUBSET BranchArcs(e, S), NEW C \in SUBSET SyncArcs(S),
         C # {} => e.type = ExecutionEdge,
         NEW s \in States, NEW d \in Blocks, OneWay(s.b),
         B # {} => s.ctrl \/ actions[e.src].odep \in s.after,
         NEW t \in Past(e, s, back[s.b])
  PROVE  Clean(e, S, B, C, <<s.b, d>>, s.ctrl, t.ctrl)
<1> DEFINE v == actions[e.src].odep
<1>1. \A k \in Fences : FenceVar(k, s.b, d) \in S => In(back[s.b], Fence(k))
  BY InsertedVars
<1>2. s.b \in Blocks /\ s.ctrl \in BOOLEAN
  BY DEF States
<1>3. ASSUME <<s.b, d>> \in B
      PROVE  \/ s.ctrl
             \/ v \in s.after /\ (fn.vals[v].op = "rmw" \/ In(back[s.b], Branch(v)))
  <2>1. CtrlVar(e.src, s.b, d) \in S
    BY <1>3 DEF BranchArcs
  <2>2. BranchesOn(s.b, v) \/ In(back[s.b], Branch(v))
    BY <2>1, InsertedVars
  <2>3. fn.branch[s.b] = {}
    BY <1>2, BranchAssumption DEF OneWay
  <2>4. fn.vals[v].op = "rmw" \/ In(back[s.b], Branch(v))
    BY <2>2, <2>3 DEF BranchesOn
  <2> QED BY <1>3, <2>4
<1>4. SyncsLast(back[s.b])
  BY <1>2 DEF CodeInOrder
<1> QED BY <1>1, <1>2, <1>3, <1>4, ArcIsClean

(* The walk w from the source of e to block b, which has not crossed the   *)
(* bind site, and has passed nothing that orders e.  Once it has taken an  *)
(* arc of B, the branch there has made ctrl true.                          *)
Trail(e, w, b) ==
  /\ w \in Seq(Blocks) /\ Len(w) >= 1
  /\ w[1] = actions[e.src].out /\ w[Len(w)] = b
  /\ IsWalk(fn.cfg, w)
  /\ \A n \in 1 .. Len(w) : w[n] \notin SkipSet(e)

Quiet(e, S, B, C, w, ctrl) ==
  /\ ~Passes(w, FenceArcs(e, S) \cup (B \cap C), B, C)
  /\ Crosses(w, B) => ctrl

LEMMA QuietExtends ==
  ASSUME NEW e, NEW S, NEW B, NEW C, NEW w \in Seq(Blocks), Len(w) >= 1,
         NEW d \in Blocks, NEW before \in BOOLEAN, NEW after \in BOOLEAN,
         Quiet(e, S, B, C, w, before), before => after,
         Clean(e, S, B, C, <<w[Len(w)], d>>, before, after)
  PROVE  Quiet(e, S, B, C, Append(w, d), after)
<1> DEFINE v == Append(w, d)
           A == FenceArcs(e, S) \cup (B \cap C)
           L == Len(w)
<1>1. /\ v \in Seq(Blocks) /\ L \in Nat /\ Len(v) = L + 1
      /\ v[L + 1] = d /\ \A n \in 1 .. L : v[n] = w[n]
  OBVIOUS
<1>2. <<v[L], v[L + 1]>> = <<w[L], d>>
  BY <1>1
<1>3. \A n \in 1 .. L - 1 : <<v[n], v[n + 1]>> = <<w[n], w[n + 1]>>
  <2> TAKE n \in 1 .. L - 1
  <2>1. n \in 1 .. L /\ n + 1 \in 1 .. L
    BY <1>1
  <2> HIDE DEF v
  <2> QED BY <1>1, <2>1
<1>4. ~Passes(w, A, B, C) /\ (Crosses(w, B) => before)
  BY DEF Quiet
<1>5. <<w[L], d>> \notin A /\ (<<w[L], d>> \in B => after) /\ (<<w[L], d>> \in C => ~before)
  BY DEF Clean
<1>6. 1 .. Len(v) - 1 = 1 .. L
  BY <1>1
<1>7. \A n \in 1 .. L : n = L \/ n \in 1 .. L - 1
  BY <1>1
<1> HIDE DEF v, A
<1>8. Crosses(v, B) => after
  BY <1>2, <1>3, <1>4, <1>5, <1>6, <1>7 DEF Crosses
<1>9. ~Crosses(v, A)
  BY <1>2, <1>3, <1>4, <1>5, <1>6, <1>7 DEF Crosses, Passes
<1>10. ASSUME NEW m \in 1 .. L, NEW n \in 1 .. L, m < n,
              <<v[m], v[m + 1]>> \in B, <<v[n], v[n + 1]>> \in C
       PROVE  FALSE
  <2>1. m \in 1 .. L - 1 /\ <<w[m], w[m + 1]>> \in B
    <3>1. m # L
      BY <1>1, <1>10
    <3> QED BY <1>3, <1>7, <1>10, <3>1
  <2>2. before
    BY <1>4, <2>1 DEF Crosses
  <2>3. n # L
    BY <1>2, <1>5, <1>10, <2>2
  <2>4. n \in 1 .. L - 1 /\ <<w[n], w[n + 1]>> \in C
    BY <1>3, <1>7, <1>10, <2>3
  <2> QED BY <1>4, <1>10, <2>1, <2>4 DEF Passes
<1>11. ~Passes(v, A, B, C)
  BY <1>6, <1>9, <1>10 DEF Passes
<1> QED BY <1>8, <1>11 DEF Quiet, v, A

(* The edge e, the solution S in the code, and what its walks must pass.   *)
Setting(e, S, B, C) ==
  /\ fn \in Functions /\ CodeInOrder /\ e \in Edges
  /\ \A v \in S : Inserted(v)
  /\ B \in SUBSET BranchArcs(e, S) /\ C \in SUBSET SyncArcs(S)
  /\ C # {} => e.type = ExecutionEdge
  /\ actions[e.src].out \in Blocks /\ e.bind # actions[e.src].out
  /\ actions[e.src].odep \in DOMAIN fn.vals \cup {NoValue}
  /\ B # {} =>
       /\ actions[e.src].odep \in DOMAIN fn.vals
       /\ fn.vals[actions[e.src].odep].block = actions[e.src].out
       /\ \A w \in Walks(fn.cfg, SkipSet(e), actions[e.src].out, actions[e.src].out) :
            Crosses(w, FenceArcs(e, S) \cup B)

(* The states of the walks that leave a block: the value read is still     *)
(* there, and the arc out of a block with only one has been looked at.     *)
HasValue(e, B, s) == B # {} => (s.ctrl \/ actions[e.src].odep \in s.after)

Departs(e, S, B, C, s) ==
  /\ s \in States /\ HasValue(e, B, s)
  /\ \E w : /\ Trail(e, w, s.b) /\ Quiet(e, S, B, C, w, s.ctrl)
            /\ OneWay(s.b) => \A d \in Succ(fn.cfg, s.b) :
                                Quiet(e, S, B, C, Append(w, d), s.ctrl)

Enters(e, S, B, C, t) ==
  /\ t \in States /\ HasValue(e, B, t)
  /\ \E v : /\ v \in Walks(fn.cfg, SkipSet(e), actions[e.src].out, t.b)
            /\ Quiet(e, S, B, C, v, t.ctrl)
            /\ t.b # e.bind => Trail(e, v, t.b)

LEMMA TrailExtends ==
  ASSUME NEW e, NEW w, NEW b \in Blocks, Trail(e, w, b), NEW d \in Blocks,
         d \in Succ(fn.cfg, b)
  PROVE  /\ Append(w, d) \in Walks(fn.cfg, SkipSet(e), actions[e.src].out, d)
         /\ d # e.bind => Trail(e, Append(w, d), d)
<1> DEFINE v == Append(w, d)
           L == Len(w)
<1>1. /\ w \in Seq(Blocks) /\ L \in Nat /\ L >= 1 /\ w[1] = actions[e.src].out
      /\ w[L] = b /\ IsWalk(fn.cfg, w) /\ \A n \in 1 .. L : w[n] \notin SkipSet(e)
  BY DEF Trail
<1>2. /\ v \in Seq(Blocks) /\ Len(v) = L + 1
      /\ v[L + 1] = d /\ \A n \in 1 .. L : v[n] = w[n]
  BY <1>1
<1> HIDE DEF v
<1>3. ASSUME NEW n \in 1 .. L PROVE v[n + 1] \in Succ(fn.cfg, v[n])
  <2>1. CASE n = L
    BY <1>1, <1>2, <2>1
  <2>2. CASE n # L
    <3>1. n \in 1 .. L - 1 /\ n + 1 \in 1 .. L
      BY <1>1, <2>2
    <3>2. w[n + 1] \in Succ(fn.cfg, w[n])
      BY <1>1, <3>1 DEF IsWalk
    <3> QED BY <1>2, <3>1, <3>2
  <2> QED BY <2>1, <2>2
<1>4. 1 .. Len(v) - 1 = 1 .. L
  BY <1>1, <1>2
<1>5. IsWalk(fn.cfg, v)
  BY <1>3, <1>4 DEF IsWalk
<1>6. Len(v) >= 2 /\ v[1] = actions[e.src].out /\ v[Len(v)] = d
  BY <1>1, <1>2
<1>7. v \in Walks(fn.cfg, SkipSet(e), actions[e.src].out, d)
  BY <1>1, <1>2, <1>4, <1>5, <1>6 DEF Walks
<1>8. ASSUME d # e.bind PROVE Trail(e, v, d)
  <2>1. d \notin SkipSet(e)
    BY <1>8 DEF SkipSet
  <2>2. \A n \in 1 .. Len(v) : v[n] \notin SkipSet(e)
    BY <2>1, <1>1, <1>2
  <2> QED BY <1>2, <1>5, <1>6, <2>2 DEF Trail
<1> QED BY <1>7, <1>8 DEF v

LEMMA DepartsEnters ==
  ASSUME NEW e, NEW S, NEW B, NEW C, Setting(e, S, B, C),
         NEW s, Departs(e, S, B, C, s),
         NEW d \in Succ(fn.cfg, s.b), NEW t \in Entering(e, s, d)
  PROVE  Enters(e, S, B, C, t) /\ t.b = d
<1> DEFINE v == actions[e.src].odep
<1>1. /\ s \in States /\ s.b \in Blocks /\ s.ctrl \in BOOLEAN /\ fn \in Functions
      /\ HasValue(e, B, s)
  BY DEF Setting, Departs, States
<1>2. d \in Blocks
  BY <1>1, SuccType
<1>3. /\ t \in States /\ t.b = d /\ (s.ctrl => t.ctrl)
      /\ t.after = AfterBlock(v, hidden, s.after, s.b, d)
  BY <1>1, <1>2, EnteringType
<1>4. t.ctrl \in BOOLEAN
  BY <1>3 DEF States
<1>5. PICK w : /\ Trail(e, w, s.b) /\ Quiet(e, S, B, C, w, s.ctrl)
               /\ OneWay(s.b) => \A x \in Succ(fn.cfg, s.b) :
                                   Quiet(e, S, B, C, Append(w, x), s.ctrl)
  BY DEF Departs
<1>6. PICK p : p = Append(w, d)
  OBVIOUS
<1>7. /\ p \in Walks(fn.cfg, SkipSet(e), actions[e.src].out, d)
      /\ d # e.bind => Trail(e, p, d)
  BY <1>1, <1>2, <1>5, <1>6, TrailExtends
<1>8. Quiet(e, S, B, C, p, t.ctrl)
  <2>1. CASE OneWay(s.b)
    <3>1. Quiet(e, S, B, C, p, s.ctrl)
      BY <1>5, <1>6, <2>1
    <3> QED BY <1>3, <3>1 DEF Quiet
  <2>2. CASE ~OneWay(s.b)
    <3>1. Clean(e, S, B, C, <<s.b, d>>, s.ctrl, t.ctrl)
      BY <1>1, <1>2, <2>2, EnteringIsClean DEF Setting, HasValue
    <3>2. w \in Seq(Blocks) /\ Len(w) >= 1 /\ w[Len(w)] = s.b
      BY <1>5 DEF Trail
    <3> QED BY <1>1, <1>2, <1>3, <1>4, <1>5, <1>6, <3>1, <3>2, QuietExtends
  <2> QED BY <2>1, <2>2
<1>9. HasValue(e, B, t)
  <2> SUFFICES ASSUME B # {}, ~t.ctrl PROVE v \in t.after
    BY DEF HasValue
  <2>1. v \in s.after
    BY <1>1, <1>3 DEF HasValue
  <2>2. ~Crosses(p, B) /\ ~Crosses(p, FenceArcs(e, S))
    BY <1>8 DEF Quiet, Passes, Crosses
  <2>3. ~Crosses(p, FenceArcs(e, S) \cup B)
    BY <2>2 DEF Crosses
  <2>4. d # actions[e.src].out
    BY <1>7, <2>3 DEF Setting
  <2>5. v \in DOMAIN fn.vals /\ fn.vals[v].block # d
    BY <2>4 DEF Setting
  <2> QED BY <1>1, <1>3, <2>1, <2>5, AfterKeeps
<1> QED BY <1>3, <1>7, <1>8, <1>9 DEF Enters

LEMMA EntersDeparts ==
  ASSUME NEW e, NEW S, NEW B, NEW C, Setting(e, S, B, C),
         NEW t \in States, HasValue(e, B, t),
         NEW w, Trail(e, w, t.b), Quiet(e, S, B, C, w, t.ctrl),
         NEW u \in Past(e, t, back[t.b])
  PROVE  Departs(e, S, B, C, u)
<1>1. t.b \in Blocks /\ t.ctrl \in BOOLEAN /\ fn \in Functions
  BY DEF States, Setting
<1>2. /\ u \in States /\ u.b = t.b /\ u.after = t.after
      /\ u.ctrl = BranchedBy(t, back[t.b], Len(back[t.b]))
  BY PastOne
<1>3. t.ctrl => u.ctrl
  BY <1>2 DEF BranchedBy
<1>4. u.ctrl \in BOOLEAN
  BY <1>2 DEF States
<1>5. HasValue(e, B, u)
  BY <1>2, <1>3 DEF HasValue
<1>6. Quiet(e, S, B, C, w, u.ctrl)
  BY <1>3 DEF Quiet
<1>7. ASSUME OneWay(t.b), NEW d \in Succ(fn.cfg, t.b)
      PROVE  Quiet(e, S, B, C, Append(w, d), u.ctrl)
  <2>1. d \in Blocks
    BY <1>1, SuccType
  <2>2. Clean(e, S, B, C, <<t.b, d>>, t.ctrl, u.ctrl)
    BY <1>1, <1>7, <2>1, LeavingIsClean DEF Setting, HasValue
  <2>3. w \in Seq(Blocks) /\ Len(w) >= 1 /\ w[Len(w)] = t.b
    BY DEF Trail
  <2> QED BY <1>1, <1>3, <1>4, <2>1, <2>2, <2>3, QuietExtends
<1> QED BY <1>2, <1>5, <1>6, <1>7 DEF Departs

(* What holds of the states that leave the source, and is kept from block  *)
(* to block, holds of those from which the walks arrive.                   *)
LEMMA OnwardType ==
  ASSUME fn \in Functions, NEW e, NEW S \in SUBSET States
  PROVE  Onward(e, S) \in SUBSET States /\ Leaving(e, S) \in SUBSET States
<1>1. ASSUME NEW s \in S, NEW d \in Succ(fn.cfg, s.b), NEW t \in Entering(e, s, d)
      PROVE  t \in States
  <2>1. s \in States /\ d \in Blocks
    BY SuccType DEF States
  <2> QED BY <1>1, <2>1, EnteringType
<1>2. ASSUME NEW s \in S, NEW t \in Past(e, s, back[s.b]) PROVE t \in States
  BY <1>2, PastOne
<1> QED BY <1>1, <1>2 DEF Onward, Leaving

LEMMA ArrivesFrom ==
  ASSUME fn \in Functions, NEW e, WalkStart(e) \in States,
         NEW I \in SUBSET States, Past(e, WalkStart(e), back[WalkStart(e).b]) \subseteq I,
         \A s \in I : \A d \in Succ(fn.cfg, s.b) : \A t \in Entering(e, s, d) :
           t.b # e.bind => Past(e, t, back[t.b]) \subseteq I,
         NEW t \in Arrives(e)
  PROVE  /\ t.b = actions[e.dst].bb
         /\ \E s \in I : \E d \in Succ(fn.cfg, s.b) : t \in Entering(e, s, d)
<1> DEFINE Start == Leaving(e, {WalkStart(e)})
           Found(S) == Leaving(e, {u \in Onward(e, S) : u.b # e.bind})
           hop == [S \in SUBSET States |-> Found(S)]
           Solves(f) ==
             f = [S \in SUBSET [b : Blocks, after : SUBSET DOMAIN fn.vals, ctrl : BOOLEAN] |->
                    LET T == S \cup Leaving(e, {u \in Onward(e, S) : u.b # e.bind})
                    IN IF T = S THEN S ELSE f[T]]
           Explore == CHOOSE f : Solves(f)
<1>1. hop \in [SUBSET States -> SUBSET States]
  <2>1. \A S \in SUBSET States : Found(S) \in SUBSET States
    <3> TAKE S \in SUBSET States
    <3>1. {u \in Onward(e, S) : u.b # e.bind} \in SUBSET States
      BY OnwardType
    <3> QED BY <3>1, OnwardType
  <2> HIDE DEF Found
  <2> QED BY <2>1
<1>2. \A S, T \in SUBSET States : S \subseteq T => hop[S] \subseteq hop[T]
  <2>1. \A S, T : S \subseteq T => Onward(e, S) \subseteq Onward(e, T)
    BY DEF Onward
  <2>2. \A S, T : S \subseteq T => Leaving(e, S) \subseteq Leaving(e, T)
    BY DEF Leaving
  <2>3. \A S, T : S \subseteq T => Found(S) \subseteq Found(T)
    <3> TAKE S, T
    <3>1. S \subseteq T => {u \in Onward(e, S) : u.b # e.bind}
                             \subseteq {u \in Onward(e, T) : u.b # e.bind}
      BY <2>1
    <3> QED BY <2>2, <3>1
  <2> HIDE DEF Found
  <2> QED BY <2>3
<1>3. \A f : Solves(f) <=> Saturates(f, States, hop)
  <2> TAKE f
  <2> DEFINE one(S) == LET T == S \cup Found(S) IN IF T = S THEN S ELSE f[T]
             two(S) == IF hop[S] \subseteq S THEN S ELSE f[S \cup hop[S]]
  <2>1. ASSUME NEW S \in SUBSET States PROVE one(S) = two(S)
    <3>1. hop[S] = Found(S)
      OBVIOUS
    <3> DEFINE U == Found(S)
    <3>2. (S \cup U = S) <=> U \subseteq S
      <4> HIDE DEF U
      <4> QED OBVIOUS
    <3>3. one(S) = IF S \cup U = S THEN S ELSE f[S \cup U]
      BY Zenon
    <3>4. two(S) = IF U \subseteq S THEN S ELSE f[S \cup U]
      <4> HIDE DEF hop
      <4> QED BY <3>1
    <3> HIDE DEF one, two, U
    <3> QED BY <3>2, <3>3, <3>4
  <2>2. [S \in SUBSET States |-> one(S)] = [S \in SUBSET States |-> two(S)]
    <3> HIDE DEF one, two
    <3> QED BY <2>1
  <2>3. Solves(f) <=> f = [S \in SUBSET States |-> one(S)]
    BY DEF States
  <2> HIDE DEF one, Solves, hop
  <2> QED BY <2>2, <2>3 DEF Saturates
<1>4. Saturates(Explore, States, hop)
  <2>1. \E f : Solves(f)
    <3> HIDE DEF Solves, hop
    <3> QED BY <1>1, <1>2, <1>3, SaturationExists
  <2>2. Solves(Explore)
    <3> HIDE DEF Solves
    <3> QED BY <2>1
  <2> HIDE DEF Solves, Explore, hop
  <2> QED BY <2>2, <1>3
<1>5. Start \in SUBSET States /\ Start \subseteq I
  <2>1. Start = Past(e, WalkStart(e), back[WalkStart(e).b])
    BY DEF Leaving
  <2> QED BY <2>1
<1>6. Explore[Start] = LeastOf(States, hop, Start)
  <2>1. IsFiniteSet(States)
    BY StatesFinite DEF States
  <2> HIDE DEF Explore, hop, Start
  <2> QED BY <1>1, <1>2, <1>4, <1>5, <2>1, SaturationIsLeast
<1>7. Arrives(e) = {u \in Onward(e, Explore[Start]) : u.b = actions[e.dst].bb}
  BY DEF Arrives
<1>8. hop[I] \subseteq I
  <2>1. hop[I] = Found(I)
    OBVIOUS
  <2>2. Found(I) \subseteq I
    BY DEF Leaving, Onward
  <2> HIDE DEF hop, Found
  <2> QED BY <2>1, <2>2
<1>9. LeastOf(States, hop, Start) \subseteq I
  <2> HIDE DEF hop, Start
  <2> QED BY <1>5, <1>8 DEF LeastOf
<1> HIDE DEF Explore, hop, Start
<1>10. t \in Onward(e, Explore[Start]) /\ t.b = actions[e.dst].bb
  BY <1>7
<1>11. \E s \in Explore[Start] : \E d \in Succ(fn.cfg, s.b) : t \in Entering(e, s, d)
  BY <1>10 DEF Onward
<1> QED BY <1>6, <1>9, <1>10, <1>11

(* So every arrival has come by a walk that passes nothing that orders.    *)
LEMMA ArrivesQuietly ==
  ASSUME NEW e, NEW S, NEW B, NEW C, Setting(e, S, B, C),
         NEW t \in Arrives(e)
  PROVE  /\ t.ctrl \in BOOLEAN
         /\ \E v : /\ v \in Walks(fn.cfg, SkipSet(e), actions[e.src].out, actions[e.dst].bb)
                   /\ Quiet(e, S, B, C, v, t.ctrl)
<1> DEFINE I == {s \in States : Departs(e, S, B, C, s)}
           start == WalkStart(e)
           out == actions[e.src].out
<1>1. fn \in Functions /\ e \in Edges /\ out \in Blocks /\ e.bind # out
  BY DEF Setting
<1>2. start.b = out /\ start.ctrl = FALSE
  BY DEF WalkStart
<1>3. start \in States /\ HasValue(e, B, start)
  <2>1. actions[e.src].odep # NoValue => actions[e.src].odep \in start.after
    BY DEF WalkStart
  <2>2. actions[e.src].odep \in DOMAIN fn.vals \cup {NoValue}
    BY DEF Setting
  <2>3. B # {} => actions[e.src].odep \in start.after
    <3>1. B # {} => actions[e.src].odep # NoValue
      BY DEF Setting, BranchArcs
    <3> QED BY <2>1, <3>1
  <2>4. start \in States
    BY <1>1, <2>2 DEF WalkStart, States
  <2> HIDE DEF start
  <2> QED BY <2>3, <2>4 DEF HasValue
<1>4. Trail(e, <<out>>, out)
  <2> DEFINE w == <<out>>
  <2>1. w \in Seq(Blocks) /\ Len(w) = 1 /\ w[1] = out
    BY <1>1
  <2>2. IsWalk(fn.cfg, w)
    BY <2>1 DEF IsWalk
  <2>3. \A n \in 1 .. Len(w) : w[n] \notin SkipSet(e)
    BY <1>1, <2>1 DEF SkipSet
  <2>4. Len(w) >= 1 /\ w[Len(w)] = out
    BY <2>1
  <2> HIDE DEF w
  <2> QED BY <2>1, <2>2, <2>3, <2>4 DEF Trail, w
<1>5. Quiet(e, S, B, C, <<out>>, start.ctrl)
  <2>1. 1 .. Len(<<out>>) - 1 = {}
    OBVIOUS
  <2> QED BY <2>1 DEF Quiet, Passes, Crosses
<1> HIDE DEF start
<1>6. Past(e, start, back[start.b]) \subseteq I
  <2> SUFFICES ASSUME NEW u \in Past(e, start, back[start.b]) PROVE u \in I
    OBVIOUS
  <2>1. Departs(e, S, B, C, u)
    BY <1>2, <1>3, <1>4, <1>5, EntersDeparts
  <2> QED BY <2>1 DEF Departs
<1>7. ASSUME NEW s \in I, NEW d \in Succ(fn.cfg, s.b), NEW u \in Entering(e, s, d)
      PROVE  Enters(e, S, B, C, u)
  BY <1>7, DepartsEnters
<1>8. ASSUME NEW s \in I, NEW d \in Succ(fn.cfg, s.b), NEW u \in Entering(e, s, d),
             u.b # e.bind
      PROVE  Past(e, u, back[u.b]) \subseteq I
  <2> SUFFICES ASSUME NEW x \in Past(e, u, back[u.b]) PROVE x \in I
    OBVIOUS
  <2>1. Enters(e, S, B, C, u)
    BY <1>7, <1>8
  <2>2. PICK v : Quiet(e, S, B, C, v, u.ctrl) /\ Trail(e, v, u.b)
    BY <1>8, <2>1 DEF Enters
  <2>3. Departs(e, S, B, C, x)
    BY <2>1, <2>2, EntersDeparts DEF Enters
  <2> QED BY <2>3 DEF Departs
<1>9. PICK s \in I : \E d \in Succ(fn.cfg, s.b) : t \in Entering(e, s, d)
  <2>1. I \in SUBSET States
    OBVIOUS
  <2> HIDE DEF I
  <2> QED BY <1>1, <1>3, <1>6, <1>8, <2>1, ArrivesFrom DEF start
<1>10. t.b = actions[e.dst].bb
  BY <1>7, <1>9, DepartsEnters DEF Arrives
<1>11. Enters(e, S, B, C, t)
  BY <1>7, <1>9
<1> QED BY <1>10, <1>11 DEF Enters, States

(* An edge whose walks all take an arc with a fence on it, or all a branch *)
(* and what has to come behind it, is ordered.                             *)
CutWalks(e) ==
  Walks(fn.cfg, SkipSet(e), actions[e.src].out, actions[e.dst].bb)

LEMMA WalksOfPaths ==
  ASSUME FormulasOK, NEW e \in Edges,
         e.type = ExecutionEdge => actions[e.src].bb = actions[e.src].out
  PROVE  /\ fn.cfg \in Graphs /\ fn \in Functions
         /\ actions[e.src].out \in Blocks
         /\ actions[e.src].odep \in DOMAIN fn.vals \cup {NoValue}
         /\ EdgePaths(e) = FindAllSimplePaths(fn.cfg, SkipSet(e), actions[e.src].out,
                                              actions[e.dst].bb)
<1>1. e.src \in ActionsOf
  BY DEF Edges
<1>2. actions[e.src] \in ActionRecords(fn)
  BY <1>1 DEF FormulasOK, ActionsOf
<1> QED BY <1>2, FunctionsAssumption
        DEF FormulasOK, EdgePaths, PathsFrom, SkipSet, ActionRecords

LEMMA FencesOrder ==
  ASSUME FormulasOK, CodeInOrder, NEW e \in Edges, NEW S, \A v \in S : Inserted(v),
         e.bind # actions[e.src].out,
         e.type = ExecutionEdge => actions[e.src].bb = actions[e.src].out,
         FenceCut(e, S)
  PROVE  Ordered(e)
<1>1. /\ fn.cfg \in Graphs /\ fn \in Functions
      /\ actions[e.src].out \in Blocks
      /\ actions[e.src].odep \in DOMAIN fn.vals \cup {NoValue}
      /\ EdgePaths(e) = FindAllSimplePaths(fn.cfg, SkipSet(e), actions[e.src].out,
                                           actions[e.dst].bb)
  BY WalksOfPaths
<1>2. Setting(e, S, {}, {})
  BY <1>1 DEF Setting
<1>3. \A w \in CutWalks(e) : Crosses(w, FenceArcs(e, S))
  BY <1>1, SimplePathsSuffice DEF FenceCut, CutWalks
<1>4. ASSUME NEW t \in Arrives(e) PROVE FALSE
  <2>1. PICK w \in CutWalks(e) : Quiet(e, S, {}, {}, w, t.ctrl)
    BY <1>2, ArrivesQuietly DEF CutWalks
  <2>2. ~Crosses(w, FenceArcs(e, S))
    BY <2>1 DEF Quiet, Passes, Crosses
  <2> QED BY <1>3, <2>2
<1> QED BY <1>4 DEF Ordered

LEMMA BranchesOrder ==
  ASSUME FormulasOK, CodeInOrder, NEW e \in Edges, NEW S, \A v \in S : Inserted(v),
         e.bind # actions[e.src].out, actions[e.src].bb = actions[e.src].out,
         fn.vals[actions[e.src].odep].block = actions[e.src].out,
         BranchCut(e, S)
  PROVE  Ordered(e)
<1> DEFINE F == FenceArcs(e, S)
           B == BranchArcs(e, S)
           C == SyncArcs(S)
           A == F \cup (B \cap C)
           out == actions[e.src].out
           bb == actions[e.dst].bb
<1>1. /\ fn.cfg \in Graphs /\ fn \in Functions /\ out \in Blocks
      /\ actions[e.src].odep \in DOMAIN fn.vals \cup {NoValue}
      /\ EdgePaths(e) = FindAllSimplePaths(fn.cfg, SkipSet(e), out, bb)
  BY WalksOfPaths
<1>2. /\ e.type = ExecutionEdge /\ actions[e.src].odep # NoValue
      /\ \A p \in EdgePaths(e) : CutAt(e, S, p, e.dst)
      /\ SelfCut(e, S)
  BY DEF BranchCut
<1>3. \A p : Passing(e, S, p) <=> Passes(p, A, B, C)
  BY DEF Passing
<1>4. \A p : Passes(p, A, B, C) \/ Crosses(p, B) => Crosses(p, F \cup B)
  BY DEF Passes, Crosses
<1>5. \A w : /\ Crosses(w, F) => Passes(w, A, B, C)
             /\ Crosses(w, F \cup B) => Crosses(w, F) \/ Crosses(w, B)
             /\ Crosses(w, F) => Crosses(w, F \cup B)
  BY DEF Passes, Crosses
<1>6. \A w \in Walks(fn.cfg, SkipSet(e), out, out) : Crosses(w, F \cup B)
  <2>1. \A p \in FindAllSimplePaths(fn.cfg, SkipSet(e), out, out) : Crosses(p, F \cup B)
    <3>1. \A p \in FindAllSimplePaths(fn.cfg, SkipSet(e), out, out) :
            Passing(e, S, p) \/ Crosses(p, B)
      BY <1>2 DEF SelfCut, PathsFrom, SkipSet
    <3> HIDE DEF A, B, C, F
    <3> QED BY <3>1, <1>3, <1>4
  <2> HIDE DEF F, B
  <2> QED BY <1>1, <2>1, SimplePathsSuffice
<1>7. Setting(e, S, B, C)
  BY <1>1, <1>2, <1>6 DEF Setting
<1>8. ASSUME NEW t \in Arrives(e)
      PROVE  t.ctrl /\ actions[e.dst].type = "SimpleWrites"
  <2>1. PICK w \in CutWalks(e) : Quiet(e, S, B, C, w, t.ctrl)
    <3> HIDE DEF B, C
    <3> QED BY <1>7, ArrivesQuietly DEF CutWalks
  <2>2. ~Passes(w, A, B, C) /\ (Crosses(w, B) => t.ctrl)
    BY <2>1 DEF Quiet
  <2> HIDE DEF F, A, B, C
  <2>3. CASE actions[e.dst].type = "SimpleWrites"
    <3>1. \A p \in EdgePaths(e) : Crosses(p, F \cup B)
      BY <1>2, <1>4, <1>5, <2>3 DEF CutAt, F, B
    <3>2. Crosses(w, F \cup B)
      BY <1>1, <3>1, SimplePathsSuffice DEF CutWalks
    <3> QED BY <1>5, <2>2, <2>3, <3>2
  <2>4. CASE actions[e.dst].type # "SimpleWrites"
    <3>1. \A p \in EdgePaths(e) : Passes(p, A, B, C)
      BY <1>2, <1>3, <1>5, <2>4 DEF CutAt, F
    <3>2. Passes(w, A, B, C)
      BY <1>1, <3>1, PairsOnSimplePaths DEF CutWalks
    <3> QED BY <2>2, <3>2
  <2> QED BY <2>3, <2>4
<1>9. \A t \in Arrives(e) : OrderedAt(e, t)
  BY <1>2, <1>8 DEF OrderedAt
<1> QED BY <1>9 DEF Ordered

(* What a solution S says of e; and what is in the code of a solution      *)
(* orders each edge.                                                       *)
CutBy(e, S) ==
  (e.type = ExecutionEdge => NoDataOf(e, S))
    => AccessCut(e, S) \/ FenceCut(e, S) \/ BranchCut(e, S)

LEMMA SolutionCuts ==
  ASSUME FormulasOK, Apart, \A e \in edges : ~Useless(e), NEW S \in EdgesCut,
         NEW e \in edges
  PROVE  CutBy(e, S)
<1>1. Holds(EdgesCut, S)
  BY DEF Holds
<1>2. e.type = ExecutionEdge => actions[e.src].type # "SimpleWrites"
  BY DEF Useless
<1> QED BY <1>1, <1>2, HoldsEdgesCut DEF CutBy

LEMMA SolutionOrders ==
  ASSUME FormulasOK, CodeInOrder, NEW S, \A v \in S : Inserted(v),
         NEW e \in edges, CutBy(e, S), e.bind # actions[e.src].out,
         e.type = ExecutionEdge => NoAddress(e)
  PROVE  Ordered(e)
<1>1. e \in Edges
  BY DEF FormulasOK
<1>2. e.type = ExecutionEdge => NoDataOf(e, S)
  BY DEF NoDataOf, NoAddress, Inserted
<1>3. AccessCut(e, S) \/ FenceCut(e, S) \/ BranchCut(e, S)
  BY <1>2 DEF CutBy
<1>4. CASE AccessCut(e, S)
  <2>1. ASSUME NEW k \in Strengths, NEW a, Asks(S, k, a) PROVE Has(k, a)
    BY <2>1 DEF Asks, Has, Inserted
  <2>2. /\ Asks(S, "release", e.dst) => Has("release", e.dst)
        /\ Asks(S, "acquire", e.src) => Has("acquire", e.src)
    BY <2>1 DEF Strengths
  <2>3. OrderedByAccess(e)
    BY <1>4, <2>2 DEF AccessCut, OrderedByAccess
  <2> QED BY <2>3 DEF Ordered
<1>5. CASE FenceCut(e, S)
  BY <1>1, <1>5, FencesOrder DEF NoAddress
<1>6. CASE BranchCut(e, S)
  BY <1>1, <1>6, BranchesOrder DEF NoAddress, BranchCut
<1> QED BY <1>3, <1>4, <1>5, <1>6

(* Only the function, its graph and the target matter to that. *)
LEMMA SameCuts ==
  ASSUME UNCHANGED <<fn, actions, target>>, NEW S, NEW e
  PROVE  CutBy(e, S)' <=> CutBy(e, S)
<1>1. params' = params
  BY DEF params, ArchParams
<1>2. NoDataOf(e, S)' <=> NoDataOf(e, S)
  BY DEF NoDataOf
<1>3. AccessCut(e, S)' <=> AccessCut(e, S)
  BY <1>1 DEF AccessCut, Asks
<1>4. EdgePaths(e)' = EdgePaths(e)
  BY DEF EdgePaths, PathsFrom
<1>5. /\ FenceArcs(e, S)' = FenceArcs(e, S)
      /\ BranchArcs(e, S)' = BranchArcs(e, S)
      /\ SyncArcs(S)' = SyncArcs(S)
  BY DEF FenceArcs, BranchArcs, SyncArcs, FenceOrders, FenceVar, CtrlVar
<1>6. \A p : Passing(e, S, p)' <=> Passing(e, S, p)
  BY <1>5 DEF Passing, Passes, Crosses
<1>7. \A p : /\ Crosses(p, FenceArcs(e, S))' <=> Crosses(p, FenceArcs(e, S))
             /\ Crosses(p, BranchArcs(e, S))' <=> Crosses(p, BranchArcs(e, S))
  BY <1>5 DEF Crosses
<1>8. \A p, tail : CutAt(e, S, p, tail)' <=> CutAt(e, S, p, tail)
  BY <1>6, <1>7 DEF CutAt
<1>9. SelfCut(e, S)' <=> SelfCut(e, S)
  BY <1>6, <1>7 DEF SelfCut, PathsFrom
<1>10. FenceCut(e, S)' <=> FenceCut(e, S)
  BY <1>4, <1>7 DEF FenceCut
<1>11. BranchCut(e, S)' <=> BranchCut(e, S)
  BY <1>4, <1>8, <1>9 DEF BranchCut
<1> QED BY <1>2, <1>3, <1>10, <1>11 DEF CutBy

-----------------------------------------------------------------------------
(* The insertion of the cuts, in the order of their table.                 *)
Instrs == [kind : Fences \cup {"ctrl"}, read : DOMAIN fn.vals \cup {NoValue}]

(* What is inserted does not come after what is still to be inserted, T.   *)
InOrder(ins, T) == \A n \in 1 .. Len(ins), w \in T : Rank(ins[n]) <= Rank(w)

(* An isync is the last of what comes before a terminator: the fences that *)
(* come later in the table are no cuts of an architecture with isync.      *)
SyncIsLast(ins) == In(ins, Fence("isync")) => ins[Len(ins)] = Fence("isync")
Available(ins)  == \A n \in 1 .. Len(ins) : ins[n].kind \in Fences => params[ins[n].kind] >= 0

FrontOK(ins, T) == SyncsLast(ins) /\ InOrder(ins, T)
BackOK(ins, T)  == SyncsLast(ins) /\ InOrder(ins, T) /\ SyncIsLast(ins) /\ Available(ins)

(* The next of T to be inserted, as an instruction i. *)
Turn(v, T, i) ==
  /\ i \in Instrs
  /\ v \in T /\ i.kind = v.kind
  /\ \A w \in T : Rank(v) <= Rank(w)
  /\ i.kind \in Fences => i = Fence(i.kind) /\ params[i.kind] >= 0

LEMMA Ranks ==
  ASSUME NEW x
  PROVE  /\ x.kind = "sync" => Rank(x) = 1
         /\ x.kind = "lwsync" => Rank(x) = 2
         /\ x.kind = "isync" => Rank(x) = 3
         /\ x.kind = "dmbst" => Rank(x) = 4
         /\ x.kind = "dmbld" => Rank(x) = 5
         /\ x.kind = "ctrl" => Rank(x) = 8
<1>1. /\ 1 .. Len(CutOrder) = 1 .. 9
      /\ CutOrder[1] = "sync" /\ CutOrder[2] = "lwsync" /\ CutOrder[3] = "isync"
      /\ CutOrder[4] = "dmbst" /\ CutOrder[5] = "dmbld" /\ CutOrder[6] = "release"
      /\ CutOrder[7] = "acquire" /\ CutOrder[8] = "ctrl" /\ CutOrder[9] = "data"
  BY DEF CutOrder
<1>2. \A n \in 1 .. 9 : n = 1 \/ n = 2 \/ n = 3 \/ n = 4 \/ n = 5 \/ n = 6
                        \/ n = 7 \/ n = 8 \/ n = 9
  OBVIOUS
<1>3. \A m, n \in 1 .. 9 : CutOrder[m] = CutOrder[n] => m = n
  BY <1>1, <1>2
<1>4. \A n \in 1 .. 9 : CutOrder[n] = x.kind => Rank(x) = n
  BY <1>1, <1>3 DEF Rank
<1>5. 1 \in 1 .. 9 /\ 2 \in 1 .. 9 /\ 3 \in 1 .. 9 /\ 4 \in 1 .. 9 /\ 5 \in 1 .. 9
      /\ 8 \in 1 .. 9
  OBVIOUS
<1> QED BY <1>1, <1>4, <1>5

(* The order of the table, where it matters. *)
LEMMA TurnRanks ==
  ASSUME NEW T, NEW v, NEW i, Turn(v, T, i)
  PROVE  /\ Rank(i) = Rank(v)
         /\ i.kind \in Fences \/ i.kind = "ctrl"
         /\ i.kind \in Fences => Rank(v) <= 5
         /\ i.kind \in {"sync", "lwsync"} => Rank(v) <= 2
         /\ Rank(v) \in Nat
<1>1. i.kind \in Fences \/ i.kind = "ctrl"
  BY DEF Turn, Instrs
<1>2. i.kind = v.kind
  BY DEF Turn
<1>3. Rank(i) = Rank(v)
  BY <1>2 DEF Rank
<1> QED BY <1>1, <1>3, Ranks DEF Fences

LEMMA NoBranchBefore ==
  ASSUME NEW T, NEW v, NEW i, Turn(v, T, i), i.kind \in Fences,
         NEW ins, InOrder(ins, T)
  PROVE  \A n \in 1 .. Len(ins) : ins[n].kind # "ctrl"
<1> SUFFICES ASSUME NEW n \in 1 .. Len(ins), ins[n].kind = "ctrl" PROVE FALSE
  OBVIOUS
<1>1. Rank(ins[n]) = 8
  BY Ranks
<1>2. Rank(ins[n]) <= Rank(v)
  BY DEF InOrder, Turn
<1> QED BY <1>1, <1>2, TurnRanks

(* Adding one instruction, wherever it goes. *)
AddsOne(old, new, i) ==
  /\ new \in Seq(Instrs) /\ Len(new) = Len(old) + 1
  /\ \A n \in 1 .. Len(new) : new[n] = i \/ \E m \in 1 .. Len(old) : new[n] = old[m]
  /\ \A m \in 1 .. Len(old) : \E n \in 1 .. Len(new) : new[n] = old[m]
  /\ \E n \in 1 .. Len(new) : new[n] = i

LEMMA AddKeeps ==
  ASSUME NEW T, NEW v, NEW i, Turn(v, T, i),
         NEW old \in Seq(Instrs), NEW new, AddsOne(old, new, i), InOrder(old, T)
  PROVE  /\ InOrder(new, T \ {v})
         /\ \A j : In(new, j) <=> j = i \/ In(old, j)
         /\ Available(old) => Available(new)
         /\ i.kind \in Fences => SyncsLast(new)
<1>1. \A w \in T : Rank(i) <= Rank(w)
  BY TurnRanks DEF Turn
<1>2. InOrder(new, T \ {v})
  BY <1>1 DEF InOrder, AddsOne
<1>3. \A j : In(new, j) <=> j = i \/ In(old, j)
  BY DEF In, AddsOne
<1>4. Available(old) => Available(new)
  BY DEF Available, AddsOne, Turn
<1>5. ASSUME i.kind \in Fences PROVE SyncsLast(new)
  <2>1. \A m \in 1 .. Len(old) : old[m].kind # "ctrl"
    BY <1>5, NoBranchBefore
  <2>2. i.kind # "ctrl"
    BY <1>5 DEF Fences
  <2>3. \A n \in 1 .. Len(new) : new[n].kind # "ctrl"
    BY <2>1, <2>2 DEF AddsOne
  <2> QED BY <2>3 DEF SyncsLast
<1> QED BY <1>2, <1>3, <1>4, <1>5

LEMMA FrontKeeps ==
  ASSUME NEW T, NEW v, NEW i, Turn(v, T, i),
         NEW old \in Seq(Instrs), FrontOK(old, T)
  PROVE  /\ AddsOne(old, <<i>> \o old, i)
         /\ FrontOK(<<i>> \o old, T \ {v})
<1> DEFINE new == <<i>> \o old
<1>1. i = Fence("isync") => i.kind \in Fences
  BY DEF Fence, Fences
<1>2. i \in Instrs /\ Len(old) \in Nat
  BY DEF Turn
<1>3. /\ new \in Seq(Instrs) /\ Len(new) = Len(old) + 1 /\ new[1] = i
      /\ \A m \in 1 .. Len(old) : new[m + 1] = old[m]
  <2> DEFINE R == Instrs
  <2> HIDE DEF R
  <2>1. i \in R /\ old \in Seq(R)
    BY <1>2 DEF R
  <2> QED BY <2>1 DEF R
<1> HIDE DEF new
<1>4. \A n \in 1 .. Len(new) : n = 1 \/ (n - 1 \in 1 .. Len(old) /\ n = (n - 1) + 1)
  BY <1>2, <1>3
<1>5. \A m \in 1 .. Len(old) : m + 1 \in 1 .. Len(new)
  BY <1>2, <1>3
<1>6. 1 \in 1 .. Len(new)
  BY <1>2, <1>3
<1>7. AddsOne(old, new, i)
  <2>1. \A n \in 1 .. Len(new) : new[n] = i \/ \E m \in 1 .. Len(old) : new[n] = old[m]
    BY <1>3, <1>4
  <2> QED BY <2>1, <1>3, <1>5, <1>6 DEF AddsOne
<1>8. /\ InOrder(new, T \ {v}) /\ (i.kind \in Fences => SyncsLast(new))
      /\ \A j : In(new, j) <=> j = i \/ In(old, j)
  BY <1>7, AddKeeps DEF FrontOK
<1>9. ASSUME i.kind \notin Fences PROVE SyncsLast(new)
  <2> SUFFICES ASSUME NEW m \in 1 .. Len(new), new[m].kind = "ctrl",
                      In(new, Fence("isync"))
               PROVE  \E n \in m .. Len(new) : new[n] = Fence("isync")
    BY DEF SyncsLast
  <2>1. In(old, Fence("isync"))
    BY <1>1, <1>8, <1>9
  <2>2. CASE m = 1
    <3>1. PICK n \in 1 .. Len(old) : old[n] = Fence("isync")
      BY <2>1 DEF In
    <3>2. n + 1 \in m .. Len(new) /\ new[n + 1] = Fence("isync")
      BY <1>2, <1>3, <2>2, <3>1
    <3> QED BY <3>2
  <2>3. CASE m # 1
    <3>1. m - 1 \in 1 .. Len(old) /\ old[m - 1].kind = "ctrl"
      BY <1>3, <1>4, <2>3
    <3>2. PICK n \in m - 1 .. Len(old) : old[n] = Fence("isync")
      BY <2>1, <3>1 DEF FrontOK, SyncsLast
    <3>3. n \in 1 .. Len(old) /\ n + 1 \in m .. Len(new)
      BY <1>2, <1>3, <3>1
    <3> QED BY <1>3, <3>2, <3>3
  <2> QED BY <2>2, <2>3
<1> QED BY <1>7, <1>8, <1>9 DEF FrontOK, new

LEMMA PutBackAdds ==
  ASSUME NEW i \in Instrs, NEW old \in Seq(Instrs)
  PROVE  LET new == PutBack(old, i) IN
         /\ AddsOne(old, new, i)
         /\ IF i.kind = "ctrl" /\ old # <<>> /\ old[Len(old)] = Fence("isync")
            THEN new[Len(new)] = Fence("isync") ELSE new[Len(new)] = i
<1> DEFINE R == Instrs
           L == Len(old)
           new == PutBack(old, i)
<1>1. L \in Nat /\ (old # <<>> => L >= 1)
  OBVIOUS
<1>2. CASE i.kind = "ctrl" /\ old # <<>> /\ old[L] = Fence("isync")
  <2>1. new = (SubSeq(old, 1, L - 1) \o <<i>>) \o SubSeq(old, L, L)
    BY <1>2 DEF PutBack, InsertAt, Last
  <2> HIDE DEF R, new
  <2>2. /\ SubSeq(old, 1, L - 1) \in Seq(R) /\ Len(SubSeq(old, 1, L - 1)) = L - 1
        /\ \A n \in 1 .. L - 1 : SubSeq(old, 1, L - 1)[n] = old[n]
    <3>1. old \in Seq(R) /\ L - 1 \in Nat /\ \A n \in 1 .. L - 1 : n \in 1 .. L
      BY <1>1, <1>2 DEF R
    <3>2. SubSeq(old, 1, L - 1) = [n \in 1 .. L - 1 |-> old[n]]
      BY <3>1
    <3>3. \A n \in 1 .. L - 1 : old[n] \in R
      BY <3>1
    <3>4. PICK q : q = SubSeq(old, 1, L - 1)
      OBVIOUS
    <3>5. q \in [1 .. L - 1 -> R]
      BY <3>2, <3>3, <3>4
    <3>6. q \in Seq(R) /\ Len(q) = L - 1
      BY <3>1, <3>5
    <3> QED BY <3>2, <3>4, <3>6
  <2>3. /\ SubSeq(old, L, L) \in Seq(R) /\ Len(SubSeq(old, L, L)) = 1
        /\ SubSeq(old, L, L)[1] = old[L]
    BY <1>1, <1>2 DEF R
  <2>4. PICK p \in Seq(R) : p = SubSeq(old, 1, L - 1) \o <<i>>
    <3>1. i \in R
      BY DEF R
    <3>2. PICK q : q = SubSeq(old, 1, L - 1)
      OBVIOUS
    <3>3. q \o <<i>> \in Seq(R)
      BY <2>2, <3>1, <3>2
    <3> QED BY <3>2, <3>3
  <2>5. Len(p) = L /\ p[L] = i /\ \A n \in 1 .. L - 1 : p[n] = old[n]
    BY <1>1, <1>2, <2>2, <2>4 DEF R
  <2>6. /\ new \in Seq(R) /\ Len(new) = L + 1 /\ new[L + 1] = old[L]
        /\ new[L] = i /\ \A n \in 1 .. L - 1 : new[n] = old[n]
    <3>1. PICK q \in Seq(R) : q = SubSeq(old, L, L)
      BY <2>3
    <3>2. new = p \o q /\ Len(q) = 1 /\ q[1] = old[L]
      BY <2>1, <2>3, <2>4, <3>1
    <3>3. \A n \in 1 .. L : new[n] = p[n]
      BY <1>1, <2>5, <3>2
    <3>4. L \in 1 .. L /\ \A n \in 1 .. L - 1 : n \in 1 .. L
      BY <1>1, <1>2
    <3> QED BY <1>1, <2>5, <3>1, <3>2, <3>3, <3>4
  <2>7. \A n \in 1 .. L + 1 : n \in 1 .. L - 1 \/ n = L \/ n = L + 1
    BY <1>1
  <2>8. L \in 1 .. L /\ L \in 1 .. L + 1 /\ L + 1 \in 1 .. L + 1
    BY <1>1, <1>2
  <2>9. \A n \in 1 .. L : n \in 1 .. L - 1 \/ n = L
    BY <1>1
  <2>10. \A n \in 1 .. L - 1 : n \in 1 .. L /\ n \in 1 .. L + 1
    BY <1>1
  <2>11. \A n \in 1 .. Len(new) : new[n] = i \/ \E m \in 1 .. L : new[n] = old[m]
    BY <2>6, <2>7, <2>8, <2>10
  <2>12. \A m \in 1 .. L : \E n \in 1 .. Len(new) : new[n] = old[m]
    BY <2>6, <2>8, <2>9, <2>10
  <2>13. AddsOne(old, new, i)
    BY <2>6, <2>8, <2>11, <2>12 DEF AddsOne, R
  <2> QED BY <1>2, <2>6, <2>13 DEF new
<1>3. CASE ~(i.kind = "ctrl" /\ old # <<>> /\ old[L] = Fence("isync"))
  <2>1. new = Append(old, i)
    BY <1>3 DEF PutBack, Last
  <2> HIDE DEF R, new
  <2>2. /\ new \in Seq(R) /\ Len(new) = L + 1 /\ new[L + 1] = i
        /\ \A n \in 1 .. L : new[n] = old[n]
    BY <2>1 DEF R
  <2>3. \A n \in 1 .. L + 1 : n \in 1 .. L \/ n = L + 1
    BY <1>1
  <2>4. L + 1 \in 1 .. L + 1 /\ \A n \in 1 .. L : n \in 1 .. L + 1
    BY <1>1
  <2>5. AddsOne(old, new, i)
    BY <2>2, <2>3, <2>4 DEF AddsOne, R
  <2> QED BY <1>3, <2>2, <2>5 DEF new
<1> QED BY <1>2, <1>3

(* No architecture that has an isync has one of the later fences. *)
LEMMA SyncIsAlone ==
  ASSUME target \in Targets
  PROVE  params["isync"] >= 0 => ~(params["dmbst"] >= 0) /\ ~(params["dmbld"] >= 0)
<1>1. target \in {"x86", "POWER", "ARM", "ARMv8"}
  BY TargetsAssumption
<1> QED BY <1>1 DEF params, ArchParams, DefaultParams, WithDependencies, Never

LEMMA BackKeeps ==
  ASSUME target \in Targets, NEW T, NEW v, NEW i, Turn(v, T, i),
         NEW old \in Seq(Instrs), BackOK(old, T)
  PROVE  /\ AddsOne(old, PutBack(old, i), i)
         /\ BackOK(PutBack(old, i), T \ {v})
<1>1. PICK new : new = PutBack(old, i)
  OBVIOUS
<1>2. /\ AddsOne(old, new, i)
      /\ IF i.kind = "ctrl" /\ old # <<>> /\ old[Len(old)] = Fence("isync")
         THEN new[Len(new)] = Fence("isync") ELSE new[Len(new)] = i
  BY <1>1, PutBackAdds DEF Turn
<1>3. /\ InOrder(new, T \ {v}) /\ Available(new)
      /\ \A j : In(new, j) <=> j = i \/ In(old, j)
      /\ i.kind \in Fences => SyncsLast(new)
  BY <1>2, AddKeeps DEF BackOK
<1>4. /\ i.kind \in Fences \/ i.kind = "ctrl"
      /\ Fence("isync").kind = "isync" /\ "isync" # "ctrl"
      /\ Len(old) \in Nat /\ Len(new) = Len(old) + 1
  BY <1>2 DEF Turn, Instrs, Fence, AddsOne
<1>5. CASE i.kind = "ctrl"
  <2>1. i # Fence("isync")
    BY <1>4, <1>5
  <2>2. CASE In(old, Fence("isync"))
    <3>1. old # <<>> /\ old[Len(old)] = Fence("isync")
      BY <2>2 DEF BackOK, SyncIsLast, In
    <3>2. new[Len(new)] = Fence("isync")
      BY <1>2, <1>5, <3>1
    <3>3. \A m \in 1 .. Len(new) : Len(new) \in m .. Len(new)
      BY <1>4
    <3>4. SyncsLast(new) /\ SyncIsLast(new)
      BY <3>2, <3>3 DEF SyncsLast, SyncIsLast
    <3> QED BY <1>1, <1>2, <1>3, <3>4 DEF BackOK
  <2>3. CASE ~In(old, Fence("isync"))
    <3>1. ~In(new, Fence("isync"))
      BY <1>3, <2>1, <2>3
    <3> QED BY <1>1, <1>2, <1>3, <3>1 DEF BackOK, SyncsLast, SyncIsLast
  <2> QED BY <2>2, <2>3
<1>6. CASE i.kind \in Fences
  <2>1. new[Len(new)] = i
    <3>1. i.kind # "ctrl"
      BY <1>6 DEF Fences
    <3> QED BY <1>2, <3>1
  <2>2. CASE In(old, Fence("isync"))
    <3>1. PICK n \in 1 .. Len(old) : old[n] = Fence("isync")
      BY <2>2 DEF In
    <3>2. 3 <= Rank(v)
      BY <1>4, <3>1, Ranks DEF BackOK, InOrder, Turn
    <3>3. i.kind \notin {"sync", "lwsync"}
      BY <3>2, TurnRanks
    <3>4. params["isync"] >= 0
      BY <1>4, <3>1 DEF BackOK, Available, Fences
    <3>5. i.kind \notin {"dmbst", "dmbld"}
      BY <1>6, <3>4, SyncIsAlone DEF Turn
    <3>6. i = Fence("isync")
      BY <1>6, <3>3, <3>5 DEF Fences, Turn
    <3> QED BY <1>1, <1>2, <1>3, <1>6, <2>1, <3>6 DEF BackOK, SyncIsLast
  <2>3. CASE ~In(old, Fence("isync"))
    <3>1. SyncIsLast(new)
      BY <1>3, <2>1, <2>3 DEF SyncIsLast
    <3> QED BY <1>1, <1>2, <1>3, <1>6, <3>1 DEF BackOK
  <2> QED BY <2>2, <2>3
<1> QED BY <1>4, <1>5, <1>6

(* The code while the cuts are inserted. *)
CodeTypeOK == front \in [Blocks -> Seq(Instrs)] /\ back \in [Blocks -> Seq(Instrs)]
CodeOK == CodeTypeOK /\ \A b \in Blocks : FrontOK(front[b], todo) /\ BackOK(back[b], todo)

(* Nothing that was inserted is lost. *)
CodeGrows ==
  /\ \A b \in Blocks : \A i : /\ In(front[b], i) => In(front'[b], i)
                              /\ In(back[b], i) => In(back'[b], i)
  /\ kept \subseteq kept' /\ hidden \subseteq hidden' /\ strong \subseteq strong'

LEMMA PutKeeps ==
  ASSUME UNCHANGED <<fn, target>>, target \in Targets, CodeOK,
         NEW v, NEW i, Turn(v, todo, i), v.src \in Blocks, v.dst \in Blocks,
         Put(v, i), todo' = todo \ {v}
  PROVE  /\ CodeOK'
         /\ \A b \in Blocks : \A j : /\ In(front[b], j) => In(front'[b], j)
                                     /\ In(back[b], j) => In(back'[b], j)
         /\ PutAt(v, i)'
<1>1. Instrs' = Instrs
  BY DEF Instrs
<1>2. params' = params
  BY DEF params, ArchParams
<1>3. /\ front \in [Blocks -> Seq(Instrs)] /\ back \in [Blocks -> Seq(Instrs)]
      /\ \A b \in Blocks : FrontOK(front[b], todo) /\ BackOK(back[b], todo)
  BY DEF CodeOK, CodeTypeOK
<1>4. \A ins : /\ FrontOK(ins, todo) => FrontOK(ins, todo \ {v})
               /\ BackOK(ins, todo) => BackOK(ins, todo \ {v})
  BY DEF FrontOK, BackOK, InOrder
<1>5. \A ins, T : BackOK(ins, T)' <=> BackOK(ins, T)
  BY <1>2 DEF BackOK, Available
<1>6. ASSUME CodeTypeOK',
             \A b \in Blocks : FrontOK(front'[b], todo \ {v}) /\ BackOK(back'[b], todo \ {v})
      PROVE  CodeOK'
  BY <1>2, <1>6 DEF CodeOK, BackOK, Available
<1>7. CASE OneWay(v.src)
  <2>1. front' = front /\ back' = [back EXCEPT ![v.src] = PutBack(@, i)]
    BY <1>7 DEF Put, OneWay
  <2>2. PICK new : new = PutBack(back[v.src], i)
    OBVIOUS
  <2>3. AddsOne(back[v.src], new, i) /\ BackOK(new, todo \ {v})
    BY <1>3, <2>2, BackKeeps
  <2>4. \A j : In(new, j) <=> j = i \/ In(back[v.src], j)
    BY <1>3, <2>3, AddKeeps DEF BackOK
  <2>5. back' \in [Blocks -> Seq(Instrs)] /\ back'[v.src] = new
        /\ \A b \in Blocks : b # v.src => back'[b] = back[b]
    <3>1. new \in Seq(Instrs)
      BY <2>3 DEF AddsOne
    <3> QED BY <1>3, <2>1, <2>2, <3>1
  <2>6. CodeTypeOK'
    BY <1>1, <1>3, <2>1, <2>5 DEF CodeTypeOK
  <2>7. \A b \in Blocks : FrontOK(front'[b], todo \ {v}) /\ BackOK(back'[b], todo \ {v})
    BY <1>3, <1>4, <2>1, <2>3, <2>5
  <2>8. \A b \in Blocks : \A j : /\ In(front[b], j) => In(front'[b], j)
                                 /\ In(back[b], j) => In(back'[b], j)
    BY <2>1, <2>4, <2>5
  <2>9. PutAt(v, i)'
    BY <1>7, <2>4, <2>5 DEF PutAt, OneWay
  <2> QED BY <1>6, <2>6, <2>7, <2>8, <2>9
<1>8. CASE ~OneWay(v.src)
  <2>1. back' = back /\ front' = [front EXCEPT ![v.dst] = <<i>> \o @]
    BY <1>8 DEF Put, OneWay
  <2>2. PICK new : new = <<i>> \o front[v.dst]
    OBVIOUS
  <2>3. AddsOne(front[v.dst], new, i) /\ FrontOK(new, todo \ {v})
    BY <1>3, <2>2, FrontKeeps
  <2>4. \A j : In(new, j) <=> j = i \/ In(front[v.dst], j)
    BY <1>3, <2>3, AddKeeps DEF FrontOK
  <2>5. front' \in [Blocks -> Seq(Instrs)] /\ front'[v.dst] = new
        /\ \A b \in Blocks : b # v.dst => front'[b] = front[b]
    <3>1. new \in Seq(Instrs)
      BY <2>3 DEF AddsOne
    <3> QED BY <1>3, <2>1, <2>2, <3>1
  <2>6. CodeTypeOK'
    BY <1>1, <1>3, <2>1, <2>5 DEF CodeTypeOK
  <2>7. \A b \in Blocks : FrontOK(front'[b], todo \ {v}) /\ BackOK(back'[b], todo \ {v})
    BY <1>3, <1>4, <2>1, <2>3, <2>5
  <2>8. \A b \in Blocks : \A j : /\ In(front[b], j) => In(front'[b], j)
                                 /\ In(back[b], j) => In(back'[b], j)
    BY <2>1, <2>4, <2>5
  <2>9. PutAt(v, i)'
    BY <1>8, <2>4, <2>5 DEF PutAt, OneWay
  <2> QED BY <1>6, <2>6, <2>7, <2>8, <2>9
<1> QED BY <1>7, <1>8

LEMMA CutVarType ==
  ASSUME NEW v \in CutVars
  PROVE  /\ v.src \in Blocks /\ v.dst \in Blocks
         /\ v.kind \in Fences => params[v.kind] >= 0
         /\ v.kind = "ctrl" => v.dep \in ActionsOf
<1>1. ~("ctrl" \in Fences \cup Strengths) /\ ~("data" \in Fences) /\ "data" # "ctrl"
  BY DEF Fences, Strengths
<1>2. CASE v \in FenceVars
  BY <1>1, <1>2 DEF FenceVars
<1>3. CASE v \in CtrlVars
  BY <1>1, <1>3 DEF CtrlVars
<1>4. CASE v \in DataVars
  BY <1>1, <1>4 DEF DataVars
<1> QED BY <1>2, <1>3, <1>4 DEF CutVars

LEMMA InsertedStays ==
  ASSUME UNCHANGED <<fn, actions>>, CodeGrows, NEW v \in CutVars, Inserted(v)
  PROVE  Inserted(v)'
<1>1. v.src \in Blocks /\ v.dst \in Blocks
  BY CutVarType
<1>2. \A i : PutAt(v, i) => PutAt(v, i)'
  BY <1>1 DEF PutAt, OneWay, CodeGrows
<1>3. \A b, x : BranchesOn(b, x)' <=> BranchesOn(b, x)
  BY DEF BranchesOn
<1> QED BY <1>2, <1>3 DEF Inserted, CodeGrows

(* A cut that adds no instruction. *)
LEMMA CodeShrinks ==
  ASSUME UNCHANGED <<fn, target, front, back>>, CodeOK, todo' \subseteq todo
  PROVE  CodeOK'
<1>1. params' = params
  BY DEF params, ArchParams
<1>2. CodeTypeOK'
  BY DEF CodeOK, CodeTypeOK, Instrs
<1> QED BY <1>1, <1>2 DEF CodeOK, FrontOK, BackOK, InOrder, Available

LEMMA InsertKeeps ==
  ASSUME FormulasOK, CodeOK, todo \subseteq CutVars, InsertCut,
         UNCHANGED <<fn, actions>>
  PROVE  /\ CodeOK' /\ CodeGrows
         /\ \E v \in todo : todo' = todo \ {v} /\ Inserted(v)'
<1>1. PICK v \in todo :
        /\ \A w \in todo : Rank(v) <= Rank(w)
        /\ InsertFence(v) \/ InsertCtrl(v) \/ InsertData(v) \/ StrengthenBlockOrders(v)
        /\ todo' = todo \ {v}
  BY DEF InsertCut
<1>2. target' = target /\ target \in Targets
  BY DEF InsertCut, FormulasOK
<1>3. /\ v \in CutVars /\ v.src \in Blocks /\ v.dst \in Blocks
      /\ v.kind \in Fences => params[v.kind] >= 0
      /\ v.kind = "ctrl" => v.dep \in ActionsOf
  BY CutVarType
<1>4. /\ ~("ctrl" \in Fences) /\ ~("data" \in Fences) /\ "data" # "ctrl"
      /\ \A k \in Strengths : k \notin Fences /\ k # "ctrl" /\ k # "data"
      /\ ~("ctrl" \in Strengths) /\ ~("data" \in Strengths)
      /\ \A k \in Fences : k # "ctrl" /\ k # "data" /\ k \notin Strengths
  BY DEF Fences, Strengths
<1>5. CASE InsertFence(v)
  <2>1. v.kind \in Fences /\ Put(v, Fence(v.kind)) /\ UNCHANGED <<kept, hidden, strong>>
    BY <1>5 DEF InsertFence
  <2>2. Fence(v.kind) \in Instrs /\ Fence(v.kind).kind = v.kind
    BY <2>1 DEF Fence, Instrs
  <2>3. Turn(v, todo, Fence(v.kind))
    BY <1>1, <1>3, <2>1, <2>2 DEF Turn
  <2>4. /\ CodeOK'
        /\ \A b \in Blocks : \A j : /\ In(front[b], j) => In(front'[b], j)
                                    /\ In(back[b], j) => In(back'[b], j)
        /\ PutAt(v, Fence(v.kind))'
    BY <1>1, <1>2, <1>3, <2>1, <2>3, PutKeeps
  <2>5. CodeGrows
    BY <2>1, <2>4 DEF CodeGrows
  <2>6. Inserted(v)'
    BY <1>4, <2>1, <2>4 DEF Inserted
  <2> QED BY <1>1, <2>4, <2>5, <2>6
<1>6. CASE InsertCtrl(v)
  <2> DEFINE read == actions[v.dep].odep
  <2>1. v.kind = "ctrl" /\ UNCHANGED <<hidden, strong>>
    BY <1>6 DEF InsertCtrl
  <2>2. BranchesOn(v.src, read)' <=> BranchesOn(v.src, read)
    BY DEF BranchesOn
  <2>3. CASE BranchesOn(v.src, read)
    <3>1. kept' = kept \cup {<<v.src, v.dst, read>>} /\ UNCHANGED <<front, back>>
      BY <1>6, <2>3 DEF InsertCtrl
    <3>2. CodeOK'
      BY <1>1, <1>2, <3>1, CodeShrinks
    <3>3. CodeGrows
      BY <2>1, <3>1 DEF CodeGrows
    <3>4. Inserted(v)'
      BY <1>4, <2>1, <2>2, <2>3, <3>1 DEF Inserted
    <3> QED BY <1>1, <3>2, <3>3, <3>4
  <2>4. CASE ~BranchesOn(v.src, read)
    <3>1. Put(v, Branch(read)) /\ kept' = kept
      BY <1>6, <2>4 DEF InsertCtrl
    <3>2. read \in DOMAIN fn.vals \cup {NoValue}
      <4>1. actions[v.dep] \in ActionRecords(fn)
        BY <1>3, <2>1 DEF FormulasOK, ActionsOf
      <4> QED BY <4>1 DEF ActionRecords
    <3>3. Branch(read) \in Instrs /\ Branch(read).kind = "ctrl"
      BY <3>2 DEF Branch, Instrs
    <3>4. Turn(v, todo, Branch(read))
      BY <1>1, <1>4, <2>1, <3>3 DEF Turn
    <3>5. /\ CodeOK'
          /\ \A b \in Blocks : \A j : /\ In(front[b], j) => In(front'[b], j)
                                      /\ In(back[b], j) => In(back'[b], j)
          /\ PutAt(v, Branch(read))'
      <4>1. PICK i : i = Branch(read)
        OBVIOUS
      <4>2. Branch(read)' = i
        BY <4>1 DEF Branch
      <4>3. /\ CodeOK'
            /\ \A b \in Blocks : \A j : /\ In(front[b], j) => In(front'[b], j)
                                        /\ In(back[b], j) => In(back'[b], j)
            /\ PutAt(v, i)'
        <5> HIDE DEF read
        <5> QED BY <1>1, <1>2, <1>3, <3>1, <3>4, <4>1, PutKeeps
      <4> QED BY <4>2, <4>3 DEF PutAt
    <3>6. CodeGrows
      BY <2>1, <3>1, <3>5 DEF CodeGrows
    <3>7. Inserted(v)'
      BY <1>4, <2>1, <2>2, <2>4, <3>5 DEF Inserted
    <3> QED BY <1>1, <3>5, <3>6, <3>7
  <2> QED BY <2>3, <2>4
<1>7. CASE InsertData(v)
  <2>1. /\ v.kind = "data" /\ hidden' = hidden \cup {actions[v.dep].odep}
        /\ UNCHANGED <<front, back, kept, strong>>
    BY <1>7 DEF InsertData
  <2>2. CodeOK' /\ CodeGrows
    BY <1>1, <1>2, <2>1, CodeShrinks DEF CodeGrows
  <2>3. Inserted(v)'
    BY <1>4, <2>1 DEF Inserted
  <2> QED BY <1>1, <2>2, <2>3
<1>8. CASE StrengthenBlockOrders(v)
  <2>1. /\ v.kind \in Strengths /\ strong' = strong \cup {<<v.src, v.kind>>}
        /\ UNCHANGED <<front, back, kept, hidden>>
    BY <1>8 DEF StrengthenBlockOrders
  <2>2. CodeOK' /\ CodeGrows
    BY <1>1, <1>2, <2>1, CodeShrinks DEF CodeGrows
  <2>3. Inserted(v)'
    BY <1>4, <2>1 DEF Inserted
  <2> QED BY <1>1, <2>2, <2>3
<1> QED BY <1>1, <1>5, <1>6, <1>7, <1>8

-----------------------------------------------------------------------------
(* From the solver's answer to the code.                                   *)

(* Every solution cuts every edge; and what of the chosen one is not in    *)
(* the code yet is still to be inserted.                                   *)
Untouched == front = [b \in Blocks |-> <<>>] /\ back = [b \in Blocks |-> <<>>]

Inserting ==
  /\ CodeOK
  /\ \E S \in Solutions :
       /\ \A e \in edges : CutBy(e, S)
       /\ todo \subseteq S
       /\ \A v \in S : v \in todo \/ Inserted(v)

CutInv ==
  /\ SolverInv /\ Apart /\ NoneUseless
  /\ step \in {"minimize", "search"} => \A S \in solver, e \in edges : CutBy(e, S)
  /\ step # "insert" => Untouched
  /\ step = "insert" => Inserting

LEMMA CutStart == Init => CutInv
BY SolverStart, ApartStart
   DEF Init, SMTInit, GraphInit, CutInv, NoneUseless, Untouched

LEMMA CutBuild ==
  ASSUME CutInv, BuildGraph
  PROVE  CutInv'
<1>1. GraphNext /\ GraphInv /\ pc # "cut" /\ UNCHANGED smtVars
  BY GraphType DEF CutInv, SolverInv, BuildGraph
<1>2. SolverInv' /\ Apart' /\ NoneUseless'
  BY <1>1, BuildStep, ApartStep, NoneUselessStep DEF CutInv
<1>3. step = "capacities" /\ step' = step /\ UNCHANGED <<front, back>>
  BY <1>1 DEF CutInv, SolverInv, smtVars, code
<1> QED BY <1>2, <1>3 DEF CutInv, Untouched

LEMMA CutTake ==
  ASSUME CutInv, TakeModel, UNCHANGED <<fn, actions, edges, graphVars>>
  PROVE  Inserting'
<1>1. PICK S \in solver :
        /\ step = "search" /\ todo' = S
        /\ UNCHANGED <<target, front, back>>
  BY DEF TakeModel, code
<1>2. FormulasOK /\ S \in Solutions /\ \A e \in edges : CutBy(e, S)
  BY <1>1, FormulasFromInv DEF CutInv, SolverInv, Solvable, Formulas
<1>3. Solutions' = Solutions /\ \A e \in edges' : CutBy(e, S)'
  BY <1>1, <1>2, SameFormulas, SameCuts
<1>4. CodeOK'
  <2>1. front' = [b \in Blocks |-> <<>>] /\ back' = [b \in Blocks |-> <<>>]
    BY <1>1 DEF CutInv, Untouched
  <2>2. CodeTypeOK'
    BY <2>1 DEF CodeTypeOK
  <2>3. \A b \in Blocks : front'[b] = <<>> /\ back'[b] = <<>>
    BY <2>1
  <2>4. Len(<<>>) = 0 /\ 1 .. 0 = {}
    OBVIOUS
  <2> QED BY <2>2, <2>3, <2>4
          DEF CodeOK, FrontOK, BackOK, SyncsLast, InOrder, SyncIsLast, Available, In
<1> QED BY <1>1, <1>2, <1>3, <1>4 DEF Inserting

LEMMA CutInsert ==
  ASSUME CutInv, InsertCut, UNCHANGED <<fn, actions, edges, graphVars>>
  PROVE  Inserting'
<1>1. step = "insert" /\ UNCHANGED target
  BY DEF InsertCut
<1>2. FormulasOK /\ CodeOK
  BY <1>1, FormulasFromInv DEF CutInv, Inserting
<1>3. PICK S \in Solutions :
        /\ \A e \in edges : CutBy(e, S)
        /\ todo \subseteq S
        /\ \A v \in S : v \in todo \/ Inserted(v)
  BY <1>1 DEF CutInv, Inserting
<1>4. S \subseteq CutVars /\ todo \subseteq CutVars
  BY <1>3 DEF Solutions
<1>5. CodeOK' /\ CodeGrows /\ \E v \in todo : todo' = todo \ {v} /\ Inserted(v)'
  BY <1>2, <1>4, InsertKeeps
<1>6. Solutions' = Solutions /\ \A e \in edges' : CutBy(e, S)'
  BY <1>1, <1>3, SameFormulas, SameCuts
<1>7. \A v \in S : Inserted(v) => Inserted(v)'
  BY <1>4, <1>5, InsertedStays
<1>8. todo' \subseteq S /\ \A v \in S : v \in todo' \/ Inserted(v)'
  BY <1>3, <1>5, <1>7
<1> QED BY <1>5, <1>6, <1>8 DEF Inserting

LEMMA CutStep ==
  ASSUME CutInv, SmtAnalyze
  PROVE  CutInv'
<1>1. pc = "cut" /\ SMTNext /\ UNCHANGED <<fn, actions, edges, graphVars, pc, trans>>
  BY DEF SmtAnalyze, graphVars
<1>2. SolverInv' /\ Apart' /\ NoneUseless'
  <2>1. NoneUseless'
    BY <1>1 DEF CutInv, NoneUseless, Useless
  <2> QED BY <1>1, <2>1, SolverStep DEF CutInv, Apart, ActionsOf
<1>3. UNCHANGED <<front, back>> => (Untouched => Untouched')
  BY DEF Untouched
<1>4. CASE ComputeCapacities \/ CapacitiesFail
  BY <1>2, <1>3, <1>4 DEF ComputeCapacities, CapacitiesFail, CutInv, code
<1>5. CASE MakeSureEverythingIsCut
  <2>1. /\ step = "constraints" /\ solver' = EdgesCut /\ step' = "minimize"
        /\ UNCHANGED <<target, front, back>>
    BY <1>5 DEF MakeSureEverythingIsCut, code
  <2>2. FormulasOK
    BY <2>1, FormulasFromInv DEF CutInv
  <2>3. \A S \in EdgesCut, e \in edges : CutBy(e, S)
    BY <1>1, <2>2, SolutionCuts DEF CutInv, NoneUseless
  <2>4. \A S \in solver', e \in edges' : CutBy(e, S)'
    BY <1>1, <2>1, <2>3, SameCuts
  <2> QED BY <1>2, <1>3, <2>1, <2>4 DEF CutInv
<1>6. CASE GuessUpperBound \/ FindFirstTrue
  <2>1. /\ step \in {"minimize", "search"} /\ step' = "search" /\ solver' = solver
        /\ UNCHANGED <<target, front, back>>
    BY <1>6 DEF GuessUpperBound, FindFirstTrue, code
  <2>2. \A S \in solver', e \in edges' : CutBy(e, S)'
    BY <1>1, <2>1, SameCuts DEF CutInv
  <2> QED BY <1>2, <1>3, <2>1, <2>2 DEF CutInv
<1>7. CASE TakeModel
  BY <1>1, <1>2, <1>7, CutTake DEF TakeModel, CutInv
<1>8. CASE InsertCut
  BY <1>1, <1>2, <1>8, CutInsert DEF InsertCut, CutInv
<1> QED BY <1>1, <1>4, <1>5, <1>6, <1>7, <1>8 DEF SMTNext

LEMMA CutStutter ==
  ASSUME CutInv, UNCHANGED vars
  PROVE  CutInv'
<1>1. UNCHANGED <<fn, actions, edges, target, step, solver, todo, front, back, kept,
                  hidden, strong, pc, trans>>
  BY DEF vars, smtVars, graphVars, code
<1>2. SolverInv'
  BY SolverStutter DEF CutInv
<1>3. Apart' /\ NoneUseless'
  BY <1>1 DEF CutInv, Apart, ActionsOf, NoneUseless, Useless
<1>4. \A S, e : CutBy(e, S)' <=> CutBy(e, S)
  BY <1>1, SameCuts
<1>5. ASSUME Inserting PROVE Inserting'
  <2>1. CodeOK'
    BY <1>1, <1>5, CodeShrinks DEF Inserting
  <2>2. Solutions' = Solutions
    BY <1>1, SameFormulas
  <2>3. PICK S \in Solutions : /\ \A e \in edges : CutBy(e, S)
                               /\ todo \subseteq S
                               /\ \A v \in S : v \in todo \/ Inserted(v)
    BY <1>5 DEF Inserting
  <2>4. \A v \in S : Inserted(v) => Inserted(v)'
    BY <1>1, <2>3, InsertedStays DEF Solutions, CodeGrows
  <2> QED BY <1>1, <1>4, <2>1, <2>2, <2>3, <2>4 DEF Inserting
<1> QED BY <1>1, <1>2, <1>3, <1>4, <1>5 DEF CutInv, Untouched

(* From the formulas to the code nothing of the solution is lost, and what *)
(* of it is in the code stays in the order in which it works.              *)
THEOREM CutInvariant == Spec => []CutInv
<1>1. CutInv /\ [Next]_vars => CutInv'
  BY CutBuild, CutStep, CutStutter DEF Next
<1> QED BY <1>1, CutStart, PTL DEF Spec

(* When all the cuts of a cheapest solution are in the code, every edge    *)
(* that needs no address is ordered on every walk of the program, loops    *)
(* and detours included, although the formulas look at simple paths and at *)
(* one self edge only (SMTify.cpp:960, "Make sure everything is cut").     *)
THEOREM SolutionsOrder == Spec => []OrderedWithoutAddress
<1>1. CutInv => OrderedWithoutAddress
  <2> SUFFICES ASSUME CutInv, Finished, NEW e \in edges,
                      e.bind # actions[e.src].out,
                      e.type = ExecutionEdge => NoAddress(e)
               PROVE  Ordered(e)
    BY DEF OrderedWithoutAddress
  <2>1. step = "insert" /\ todo = {} /\ FormulasOK /\ CodeOK
    BY FormulasFromInv DEF Finished, CutInv, Inserting
  <2>2. PICK S \in Solutions : /\ \A f \in edges : CutBy(f, S)
                               /\ \A v \in S : Inserted(v)
    BY <2>1 DEF CutInv, Inserting
  <2>3. CodeInOrder
    BY <2>1 DEF CodeOK, FrontOK, BackOK, CodeInOrder
  <2> QED BY <2>1, <2>2, <2>3, SolutionOrders
<1> QED BY <1>1, CutInvariant, PTL
=============================================================================
