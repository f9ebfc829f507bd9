------------------------- MODULE PathSearch_proofs -------------------------
(***************************************************************************)
(* The searches of PathCache.cpp return what PathCache says, for every     *)
(* graph and whatever was interned before.  The recursive functions of     *)
(* the model exist since every recursive call has more grey blocks; what   *)
(* they return follows from the calls they make.                           *)
(***************************************************************************)
EXTENDS PathSearch, ActionGraph_proofs, SequenceTheorems

(* T expands a recursive definition of a function on D once: it leads from *)
(* G to G, and what it makes of F at d depends only on F at lower ranks.   *)
Recursion(D, V, G, N, rank, T) ==
  /\ G \in SUBSET [D -> V] /\ G # {} /\ T \in [G -> G]
  /\ N \in Nat /\ rank \in [D -> 0 .. N]
  /\ \A F, H \in G : \A d \in D :
       (\A e \in D : rank[e] < rank[d] => F[e] = H[e]) => T[F][d] = T[H][d]

(* Such a definition has a solution in G. *)
LEMMA Solved ==
  ASSUME NEW D, NEW V, NEW G, NEW N, NEW rank, NEW T,
         Recursion(D, V, G, N, rank, T)
  PROVE  \E F \in G : T[F] = F
<1> USE DEF Recursion
<1> DEFINE UpTo(F, n) == \A d \in D : rank[d] < n => T[F][d] = F[d]
           Bad == {n \in Nat : ~ \E F \in G : UpTo(F, n)}
<1>1. Bad = {}
  <2> SUFFICES ASSUME Bad # {} PROVE FALSE
    OBVIOUS
  <2>1. PICK n \in Bad : \A m \in Bad : n <= m
    <3>1. Bad \in SUBSET Nat
      OBVIOUS
    <3> HIDE DEF Bad
    <3> QED BY <3>1, LeastNatural
  <2>2. n \in Nat /\ ~ \E F \in G : UpTo(F, n)
    OBVIOUS
  <2>3. n # 0
    <3>1. \A F \in G : UpTo(F, 0)
      OBVIOUS
    <3> QED BY <2>2, <3>1
  <2>4. n - 1 \in Nat /\ ~(n <= n - 1)
    BY <2>2, <2>3
  <2>5. n - 1 \notin Bad
    BY <2>1, <2>4
  <2>6. PICK F \in G : UpTo(F, n - 1)
    BY <2>4, <2>5
  <2>7. T[F] \in G
    OBVIOUS
  <2>8. ASSUME NEW d \in D, rank[d] < n PROVE T[T[F]][d] = T[F][d]
    <3>1. \A e \in D : rank[e] < rank[d] => T[F][e] = F[e]
      BY <2>2, <2>6, <2>8
    <3> QED BY <2>7, <3>1
  <2>9. UpTo(T[F], n)
    BY <2>8
  <2> QED BY <2>2, <2>7, <2>9
<1>2. PICK F \in G : UpTo(F, N + 1)
  <2>1. \A n \in Nat : \E F \in G : UpTo(F, n)
    BY <1>1, Zenon
  <2> HIDE DEF UpTo
  <2>2. N + 1 \in Nat
    OBVIOUS
  <2> QED BY <2>1, <2>2
<1>3. \A d \in D : T[F][d] = F[d]
  BY <1>2
<1>4. T[F] \in [D -> V] /\ F \in [D -> V]
  OBVIOUS
<1>5. T[F] = F
  BY <1>3, <1>4
<1> QED BY <1>5

-----------------------------------------------------------------------------
(* The path of an id. *)
EntryRecords == [head : Blocks, tail : Nat, last : Blocks]

LEMMA InternedType ==
  ASSUME NEW es \in Interned
  PROVE  /\ es \in Seq(EntryRecords) /\ Len(es) \in Nat
         /\ \A k \in 1 .. Len(es) :
              /\ es[k] \in EntryRecords
              /\ es[k].head \in Blocks /\ es[k].last \in Blocks
              /\ es[k].tail \in Nat /\ es[k].tail < k
              /\ es[k].tail \in 0 .. Len(es)
<1>1. es \in Seq(EntryRecords) /\ \A k \in 1 .. Len(es) : es[k].tail < k
  BY DEF Interned, EntryRecords
<1>2. \A k \in 1 .. Len(es) : es[k] \in EntryRecords
  BY <1>1
<1> QED BY <1>1, <1>2 DEF EntryRecords

ExtractsFrom(P, es) ==
  P = [k \in 0 .. Len(es) |-> IF k = kEmptyPath THEN <<>>
                              ELSE <<es[k].head>> \o P[es[k].tail]]

LEMMA ExtractExists ==
  ASSUME NEW es \in Interned
  PROVE  \E P \in [0 .. Len(es) -> Seq(Blocks)] : ExtractsFrom(P, es)
<1> DEFINE D == 0 .. Len(es)
           G == [D -> Seq(Blocks)]
           Body(P) == [k \in D |-> IF k = kEmptyPath THEN <<>>
                                   ELSE <<es[k].head>> \o P[es[k].tail]]
           T == [P \in G |-> Body(P)]
           rank == [k \in D |-> k]
<1>1. \A k \in D : k # kEmptyPath =>
         es[k].head \in Blocks /\ es[k].tail \in D /\ es[k].tail < k
  BY InternedType DEF kEmptyPath
<1>2. Len(es) \in Nat /\ rank \in [D -> 0 .. Len(es)]
  BY InternedType
<1>3. ASSUME NEW P \in G PROVE Body(P) \in G
  <2> SUFFICES ASSUME NEW k \in D, k # kEmptyPath
               PROVE  <<es[k].head>> \o P[es[k].tail] \in Seq(Blocks)
    OBVIOUS
  <2>1. <<es[k].head>> \in Seq(Blocks) /\ P[es[k].tail] \in Seq(Blocks)
    BY <1>1
  <2> QED BY <2>1
<1>4. T \in [G -> G]
  <2> HIDE DEF Body, G
  <2> QED BY <1>3
<1>5. \A P, Q \in G : \A k \in D :
        (\A l \in D : rank[l] < rank[k] => P[l] = Q[l]) => T[P][k] = T[Q][k]
  <2>1. ASSUME NEW P \in G, NEW Q \in G, NEW k \in D, \A l \in D : l < k => P[l] = Q[l]
        PROVE  Body(P)[k] = Body(Q)[k]
    BY <1>1, <2>1
  <2>2. \A P \in G : T[P] = Body(P)
    OBVIOUS
  <2>3. \A l \in D : rank[l] = l
    OBVIOUS
  <2> HIDE DEF T, G, D, rank, Body
  <2> QED BY <2>1, <2>2, <2>3
<1>6. G # {}
  <2>1. [k \in D |-> <<>>] \in G
    OBVIOUS
  <2> QED BY <2>1
<1>7. PICK P \in G : T[P] = P
  <2>1. G \in SUBSET [D -> Seq(Blocks)]
    OBVIOUS
  <2> DEFINE N == Len(es)
             V == Seq(Blocks)
  <2>2. N \in Nat /\ rank \in [D -> 0 .. N]
    BY <1>2
  <2>3. G \in SUBSET [D -> V]
    BY <2>1
  <2> HIDE DEF T, G, D, rank, N, V, Body
  <2>4. Recursion(D, V, G, N, rank, T)
    BY <1>4, <1>5, <1>6, <2>2, <2>3 DEF Recursion
  <2> QED BY <2>4, Solved
<1>8. ExtractsFrom(P, es)
  BY <1>7 DEF ExtractsFrom
<1> QED BY <1>7, <1>8

LEMMA PathUnfolds ==
  ASSUME NEW es \in Interned
  PROVE  /\ ExtractPath(es, 0) = <<>>
         /\ \A k \in 1 .. Len(es) :
              ExtractPath(es, k) = <<es[k].head>> \o ExtractPath(es, es[k].tail)
<1>1. \A id : ExtractPath(es, id) = (CHOOSE P : ExtractsFrom(P, es))[id]
  BY DEF ExtractPath, ExtractsFrom
<1>2. PICK P : P = CHOOSE Q : ExtractsFrom(Q, es)
  OBVIOUS
<1>3. ExtractsFrom(P, es)
  BY <1>2, ExtractExists
<1>4. /\ P[0] = <<>>
      /\ \A k \in 1 .. Len(es) : P[k] = <<es[k].head>> \o P[es[k].tail]
  <2>1. \A k \in 0 .. Len(es) : P[k] = IF k = 0 THEN <<>> ELSE <<es[k].head>> \o P[es[k].tail]
    BY <1>3 DEF ExtractsFrom, kEmptyPath
  <2>2. Len(es) \in Nat
    BY InternedType
  <2>3. 0 \in 0 .. Len(es) /\ \A k \in 1 .. Len(es) : k \in 0 .. Len(es) /\ k # 0
    BY <2>2
  <2> QED BY <2>1, <2>3
<1> QED BY <1>1, <1>2, <1>4

LEMMA PathType ==
  ASSUME NEW es \in Interned, NEW k \in 0 .. Len(es)
  PROVE  /\ ExtractPath(es, k) \in Seq(Blocks)
         /\ k >= 1 => /\ Len(ExtractPath(es, k)) >= 1
                      /\ ExtractPath(es, k)[1] = es[k].head
<1> DEFINE Wrong == {n \in 0 .. Len(es) : ExtractPath(es, n) \notin Seq(Blocks)}
<1>1. Wrong = {}
  <2> SUFFICES ASSUME Wrong # {} PROVE FALSE
    OBVIOUS
  <2>1. PICK n \in Wrong : \A m \in Wrong : n <= m
    <3>1. Wrong \in SUBSET Nat
      BY InternedType
    <3> HIDE DEF Wrong
    <3> QED BY <3>1, LeastNatural
  <2>2. n \in 1 .. Len(es)
    <3>1. ExtractPath(es, 0) \in Seq(Blocks)
      <4>1. ExtractPath(es, 0) = <<>> /\ <<>> \in Seq(Blocks)
        BY PathUnfolds
      <4> QED BY <4>1
    <3>2. n # 0
      BY <2>1, <3>1
    <3> QED BY <2>1, <3>2, InternedType
  <2>3. es[n].tail \in 0 .. Len(es) /\ ~(n <= es[n].tail) /\ es[n].head \in Blocks
    BY <2>2, InternedType
  <2>4. es[n].tail \notin Wrong
    BY <2>1, <2>3
  <2>5. ExtractPath(es, es[n].tail) \in Seq(Blocks)
    BY <2>3, <2>4
  <2>6. ExtractPath(es, n) \in Seq(Blocks)
    <3>1. ExtractPath(es, n) = <<es[n].head>> \o ExtractPath(es, es[n].tail)
      BY <2>2, PathUnfolds
    <3>2. <<es[n].head>> \in Seq(Blocks)
      BY <2>3
    <3> HIDE DEF Wrong
    <3> QED BY <2>5, <3>1, <3>2
  <2> QED BY <2>1, <2>6
<1>2. ExtractPath(es, k) \in Seq(Blocks)
  BY <1>1
<1>3. ASSUME k >= 1
      PROVE  Len(ExtractPath(es, k)) >= 1 /\ ExtractPath(es, k)[1] = es[k].head
  <2>1. k \in 1 .. Len(es)
    BY <1>3, InternedType
  <2>2. es[k].tail \in 0 .. Len(es) /\ es[k].head \in Blocks
    BY <2>1, InternedType
  <2>3. ExtractPath(es, es[k].tail) \in Seq(Blocks)
    BY <1>1, <2>2
  <2>4. ExtractPath(es, k) = <<es[k].head>> \o ExtractPath(es, es[k].tail)
    BY <2>1, PathUnfolds
  <2> QED BY <2>2, <2>3, <2>4
<1> QED BY <1>2, <1>3

Extends(es, fs) ==
  Len(es) <= Len(fs) /\ \A k \in 1 .. Len(es) : fs[k] = es[k]

(* What is interned twice gets the same id, and last is kept right.        *)
Canonical(es) ==
  /\ es \in Interned
  /\ \A k, l \in 1 .. Len(es) :
       es[k].head = es[l].head /\ es[k].tail = es[l].tail => k = l
  /\ \A k \in 1 .. Len(es) :
       es[k].last = IF es[k].tail = kEmptyPath THEN es[k].head ELSE es[es[k].tail].last

LEMMA PathKept ==
  ASSUME NEW es \in Interned, NEW fs \in Interned, Extends(es, fs), NEW k \in 0 .. Len(es)
  PROVE  k \in 0 .. Len(fs) /\ ExtractPath(fs, k) = ExtractPath(es, k)
<1> DEFINE Wrong == {n \in 0 .. Len(es) : ExtractPath(fs, n) # ExtractPath(es, n)}
<1>1. Len(es) \in Nat /\ Len(fs) \in Nat /\ Len(es) <= Len(fs)
  BY InternedType DEF Extends
<1>2. Wrong = {}
  <2> SUFFICES ASSUME Wrong # {} PROVE FALSE
    OBVIOUS
  <2>1. PICK n \in Wrong : \A m \in Wrong : n <= m
    <3>1. Wrong \in SUBSET Nat
      BY <1>1
    <3> HIDE DEF Wrong
    <3> QED BY <3>1, LeastNatural
  <2>2. n \in 0 .. Len(es) /\ ExtractPath(fs, n) # ExtractPath(es, n)
    BY <2>1
  <2>3. n # 0
    BY <2>2, PathUnfolds
  <2>4. n \in 1 .. Len(es) /\ n \in 1 .. Len(fs) /\ fs[n] = es[n]
    BY <1>1, <2>2, <2>3 DEF Extends
  <2>5. es[n].tail \in 0 .. Len(es) /\ ~(n <= es[n].tail)
    BY <2>4, InternedType
  <2>6. ExtractPath(fs, es[n].tail) = ExtractPath(es, es[n].tail)
    BY <2>1, <2>5
  <2>7. /\ ExtractPath(fs, n) = <<fs[n].head>> \o ExtractPath(fs, fs[n].tail)
        /\ ExtractPath(es, n) = <<es[n].head>> \o ExtractPath(es, es[n].tail)
    BY <2>4, PathUnfolds
  <2> QED BY <2>2, <2>4, <2>6, <2>7
<1> QED BY <1>1, <1>2

LEMMA CanonicalPaths ==
  ASSUME NEW es, Canonical(es)
  PROVE  /\ \A k, l \in 1 .. Len(es) : ExtractPath(es, k) = ExtractPath(es, l) => k = l
         /\ \A k \in 1 .. Len(es) :
              es[k].last = ExtractPath(es, k)[Len(ExtractPath(es, k))]
<1> DEFINE p(k) == ExtractPath(es, k)
<1>1. es \in Interned /\ Len(es) \in Nat
  BY InternedType DEF Canonical
<1>2. \A k \in 1 .. Len(es) :
        /\ es[k].head \in Blocks /\ es[k].tail \in 0 .. Len(es) /\ es[k].tail < k
        /\ p(k) = <<es[k].head>> \o p(es[k].tail)
        /\ Len(p(k)) >= 1
        /\ k \in 0 .. Len(es) /\ k # 0
  <2>1. \A k \in 1 .. Len(es) : k \in 0 .. Len(es) /\ k # 0 /\ k >= 1
    BY <1>1
  <2> QED BY <1>1, <2>1, InternedType, PathUnfolds, PathType
<1>3. \A k \in 0 .. Len(es) : p(k) \in Seq(Blocks)
  BY <1>1, PathType
<1>4. p(0) = <<>>
  BY <1>1, PathUnfolds
<1> HIDE DEF p
<1>5. ASSUME NEW k \in 1 .. Len(es)
      PROVE  /\ Len(p(k)) = 1 + Len(p(es[k].tail))
             /\ p(k)[1] = es[k].head
             /\ \A n \in 1 .. Len(p(es[k].tail)) : p(k)[n + 1] = p(es[k].tail)[n]
             /\ p(es[k].tail) = Tail(p(k))
  <2>1. p(es[k].tail) \in Seq(Blocks) /\ es[k].head \in Blocks
        /\ p(k) = <<es[k].head>> \o p(es[k].tail)
    BY <1>2, <1>3
  <2> QED BY <2>1
<1>6. \A k, l \in 0 .. Len(es) : p(k) = p(l) => k = l
  <2> DEFINE Wrong == {k \in 0 .. Len(es) : \E l \in 0 .. Len(es) : p(k) = p(l) /\ k # l}
  <2> SUFFICES ASSUME Wrong # {} PROVE FALSE
    OBVIOUS
  <2>1. PICK k \in Wrong : \A m \in Wrong : k <= m
    <3>1. Wrong \in SUBSET Nat
      BY <1>1
    <3> HIDE DEF Wrong
    <3> QED BY <3>1, LeastNatural
  <2>2. PICK l \in 0 .. Len(es) : p(k) = p(l) /\ k # l
    BY <2>1
  <2>3. k \in 0 .. Len(es)
    BY <2>1
  <2>4. k # 0 /\ l # 0
    <3>1. Len(p(0)) = 0
      BY <1>4
    <3>2. \A n \in 0 .. Len(es) : n # 0 => Len(p(n)) >= 1
      <4>1. \A n \in 0 .. Len(es) : n # 0 => n \in 1 .. Len(es)
        BY <1>1
      <4> QED BY <4>1, <1>2
    <3> HIDE DEF Wrong
    <3> QED BY <2>2, <2>3, <3>1, <3>2
  <2>5. k \in 1 .. Len(es) /\ l \in 1 .. Len(es)
    BY <1>1, <2>2, <2>3, <2>4
  <2>6. es[k].head = es[l].head /\ p(es[k].tail) = p(es[l].tail)
    BY <1>5, <2>2, <2>5
  <2>7. es[k].tail # es[l].tail
    BY <2>2, <2>5, <2>6 DEF Canonical
  <2>8. es[k].tail \in Wrong
    BY <1>2, <2>5, <2>6, <2>7
  <2>9. es[k].tail < k
    BY <1>2, <2>5
  <2>10. k <= es[k].tail
    BY <2>1, <2>8
  <2>11. es[k].tail \in Nat /\ k \in Nat
    <3>1. es[k].tail \in 0 .. Len(es)
      BY <1>2, <2>5
    <3> HIDE DEF Wrong
    <3> QED BY <1>1, <2>3, <3>1
  <2> QED BY <2>9, <2>10, <2>11
<1>7. \A k \in 1 .. Len(es) : es[k].last = p(k)[Len(p(k))]
  <2> DEFINE Wrong == {k \in 1 .. Len(es) : es[k].last # p(k)[Len(p(k))]}
  <2> SUFFICES ASSUME Wrong # {} PROVE FALSE
    OBVIOUS
  <2>1. PICK k \in Wrong : \A m \in Wrong : k <= m
    <3>1. Wrong \in SUBSET Nat
      BY <1>1
    <3> HIDE DEF Wrong
    <3> QED BY <3>1, LeastNatural
  <2>2. k \in 1 .. Len(es) /\ es[k].last # p(k)[Len(p(k))]
    BY <2>1
  <2> DEFINE t == es[k].tail
  <2>3. t \in 0 .. Len(es) /\ t < k
    BY <1>2, <2>2
  <2>4. t # 0
    <3>1. ASSUME t = 0 PROVE FALSE
      <4>1. es[k].last = es[k].head
        BY <2>2, <3>1 DEF Canonical, kEmptyPath
      <4>2. Len(p(k)) = 1 /\ p(k)[1] = es[k].head
        <5>1. Len(p(k)) = 1 + Len(p(es[k].tail)) /\ p(k)[1] = es[k].head
          BY <1>5, <2>2
        <5>2. p(es[k].tail) = <<>>
          BY <1>4, <3>1
        <5> HIDE DEF Wrong
        <5> QED BY <5>1, <5>2
      <4> QED BY <2>2, <4>1, <4>2
    <3> QED BY <3>1
  <2>5. t \in 1 .. Len(es) /\ ~(k <= t)
    BY <1>1, <2>2, <2>3, <2>4
  <2>6. es[k].last = es[t].last
    BY <2>2, <2>4 DEF Canonical, kEmptyPath
  <2>7. es[t].last = p(t)[Len(p(t))]
    BY <2>1, <2>5
  <2>8. p(k)[Len(p(k))] = p(t)[Len(p(t))]
    <3>1. Len(p(t)) \in Nat /\ Len(p(t)) >= 1
      <4>1. p(t) \in Seq(Blocks)
        BY <1>3, <2>3
      <4>2. Len(p(t)) >= 1
        BY <1>2, <2>5
      <4> HIDE DEF Wrong, t
      <4> QED BY <4>1, <4>2
    <3>2. /\ Len(p(k)) = 1 + Len(p(t))
          /\ \A n \in 1 .. Len(p(t)) : p(k)[n + 1] = p(t)[n]
      BY <1>5, <2>2
    <3> HIDE DEF Wrong, t
    <3> QED BY <3>1, <3>2
  <2> QED BY <2>2, <2>6, <2>7, <2>8
<1>8. \A k \in 1 .. Len(es) : k \in 0 .. Len(es)
  BY <1>1
<1> QED BY <1>6, <1>7, <1>8 DEF p

LEMMA AddToPathType ==
  ASSUME NEW es \in Interned, NEW b \in Blocks, NEW id \in 0 .. Len(es)
  PROVE  LET r == AddToPath(es, b, id) IN
         /\ r.entries \in Interned /\ Extends(es, r.entries)
         /\ r.id \in 1 .. Len(r.entries)
         /\ ExtractPath(r.entries, r.id) = <<b>> \o ExtractPath(es, id)
         /\ Canonical(es) => Canonical(r.entries)
<1> DEFINE r == AddToPath(es, b, id)
           known == {k \in 1 .. Len(es) : es[k].head = b /\ es[k].tail = id}
           new == [head |-> b, tail |-> id, last |-> IF id = kEmptyPath THEN b ELSE es[id].last]
<1>1. /\ Len(es) \in Nat /\ es \in Seq(EntryRecords)
      /\ \A k \in 1 .. Len(es) : es[k] \in EntryRecords /\ es[k].tail < k
  BY InternedType
<1>2. CASE known # {}
  <2>1. r.entries = es /\ r.id = Min(known)
    BY <1>2 DEF AddToPath
  <2>2. Min(known) \in known
    <3>1. known \in SUBSET Nat
      BY <1>1
    <3>2. PICK n \in known : \A m \in known : n <= m
      <4> HIDE DEF known
      <4> QED BY <1>2, <3>1, LeastNatural
    <3> HIDE DEF known
    <3> QED BY <3>2 DEF Min
  <2>3. Extends(es, es)
    BY <1>1 DEF Extends
  <2>4. ExtractPath(es, r.id) = <<b>> \o ExtractPath(es, id)
    BY <2>1, <2>2, PathUnfolds
  <2> QED BY <2>1, <2>2, <2>3, <2>4
<1>3. CASE known = {}
  <2> DEFINE fs == Append(es, new)
  <2>1. r.entries = fs /\ r.id = Len(es) + 1
    BY <1>3 DEF AddToPath
  <2>2. new \in EntryRecords
    <3>1. ASSUME id # kEmptyPath PROVE es[id].last \in Blocks
      <4>1. id \in 1 .. Len(es)
        BY <1>1, <3>1 DEF kEmptyPath
      <4> QED BY <4>1, InternedType
    <3>2. id \in Nat
      BY <1>1
    <3> QED BY <3>1, <3>2 DEF EntryRecords
  <2>3. /\ fs \in Seq(EntryRecords) /\ Len(fs) = Len(es) + 1
        /\ fs[Len(es) + 1] = new
        /\ \A k \in 1 .. Len(es) : fs[k] = es[k]
    <3> HIDE DEF new
    <3> QED BY <1>1, <2>2
  <2>4. new.tail = id /\ new.head = b
        /\ new.last = IF id = kEmptyPath THEN b ELSE es[id].last
    OBVIOUS
  <2> HIDE DEF fs, new, known, r
  <2>5. fs \in Interned
    <3>1. \A k \in 1 .. Len(fs) : fs[k].tail < k
      <4> SUFFICES ASSUME NEW k \in 1 .. Len(fs) PROVE fs[k].tail < k
        OBVIOUS
      <4>1. k \in 1 .. Len(es) \/ k = Len(es) + 1
        BY <1>1, <2>3
      <4>2. id < Len(es) + 1
        BY <1>1
      <4> QED BY <1>1, <2>3, <2>4, <4>1, <4>2
    <3> QED BY <2>3, <3>1 DEF Interned, EntryRecords
  <2>6. Extends(es, fs)
    BY <1>1, <2>3 DEF Extends
  <2>7. Len(es) + 1 \in 1 .. Len(fs)
    BY <1>1, <2>3
  <2>8. ExtractPath(fs, Len(es) + 1) = <<b>> \o ExtractPath(es, id)
    <3>1. ExtractPath(fs, Len(es) + 1)
            = <<fs[Len(es) + 1].head>> \o ExtractPath(fs, fs[Len(es) + 1].tail)
      BY <2>5, <2>7, PathUnfolds
    <3>2. ExtractPath(fs, id) = ExtractPath(es, id)
      BY <2>5, <2>6, PathKept
    <3> QED BY <2>3, <2>4, <3>1, <3>2
  <2>9. ASSUME Canonical(es) PROVE Canonical(fs)
    <3> DEFINE N == Len(es)
    <3>1. \A k \in 1 .. Len(fs) : k \in 1 .. N \/ k = N + 1
      BY <1>1, <2>3
    <3>2. \A k \in 1 .. N : ~(fs[k].head = b /\ fs[k].tail = id)
      BY <1>3, <2>3 DEF known
    <3>3. ASSUME NEW k \in 1 .. Len(fs), NEW l \in 1 .. Len(fs),
                 fs[k].head = fs[l].head, fs[k].tail = fs[l].tail
          PROVE  k = l
      <4>1. CASE k \in 1 .. N /\ l \in 1 .. N
        BY <2>3, <2>9, <3>3, <4>1 DEF Canonical
      <4>2. CASE k = N + 1 \/ l = N + 1
        BY <2>3, <2>4, <3>1, <3>2, <3>3, <4>2
      <4> QED BY <3>1, <4>1, <4>2
    <3>4. ASSUME NEW k \in 1 .. Len(fs)
          PROVE  fs[k].last = IF fs[k].tail = kEmptyPath THEN fs[k].head
                              ELSE fs[fs[k].tail].last
      <4>1. CASE k \in 1 .. N
        <5>1. fs[k] = es[k] /\ es[k].tail \in 0 .. N
          BY <2>3, <4>1, InternedType
        <5>2. es[k].tail # kEmptyPath => fs[es[k].tail] = es[es[k].tail]
          BY <1>1, <2>3, <5>1 DEF kEmptyPath
        <5>3. es[k].last = IF es[k].tail = kEmptyPath THEN es[k].head ELSE es[es[k].tail].last
          BY <2>9, <4>1 DEF Canonical
        <5> QED BY <5>1, <5>2, <5>3
      <4>2. CASE k = N + 1
        <5>1. fs[k] = new
          BY <2>3, <4>2
        <5>2. id # kEmptyPath => fs[id] = es[id]
          BY <1>1, <2>3 DEF kEmptyPath
        <5> QED BY <2>4, <5>1, <5>2
      <4> QED BY <3>1, <4>1, <4>2
    <3> HIDE DEF N
    <3> QED BY <2>5, <3>3, <3>4 DEF Canonical
  <2> QED BY <2>1, <2>5, <2>6, <2>7, <2>8, <2>9 DEF r
<1> QED BY <1>2, <1>3

LEMMA ExtendsOnward ==
  ASSUME NEW es \in Interned, NEW fs \in Interned, NEW hs \in Interned,
         Extends(es, fs), Extends(fs, hs)
  PROVE  Extends(es, hs) /\ Extends(es, es)
<1>1. Len(es) \in Nat /\ Len(fs) \in Nat /\ Len(hs) \in Nat
  BY InternedType
<1> QED BY <1>1 DEF Extends

-----------------------------------------------------------------------------
(* What a search returns. *)
Founds ==
  {r \in [entries : Interned, grey : SUBSET Blocks, ids : Seq(Nat)] :
     \A n \in 1 .. Len(r.ids) : r.ids[n] \in 1 .. Len(r.entries)}

PathsIn(r) == {ExtractPath(r.entries, r.ids[n]) : n \in 1 .. Len(r.ids)}

OneMore(r, b, id) ==
  LET added == AddToPath(r.entries, b, id)
  IN [r EXCEPT !.entries = added.entries, !.ids = Append(@, added.id)]

Adds(A, b, found) ==
  A = [n \in 0 .. Len(found.ids) |->
         IF n = 0 THEN [found EXCEPT !.ids = <<>>]
         ELSE OneMore(A[n - 1], b, found.ids[n])]

(* One more path in the accumulated result. *)
LEMMA AddedType ==
  ASSUME NEW r \in Founds, NEW b \in Blocks, NEW id \in 0 .. Len(r.entries)
  PROVE  LET added == AddToPath(r.entries, b, id)
             s     == OneMore(r, b, id)
         IN  /\ s \in Founds /\ Extends(r.entries, s.entries) /\ s.grey = r.grey
             /\ Len(s.ids) = Len(r.ids) + 1
             /\ \A n \in 1 .. Len(r.ids) : s.ids[n] = r.ids[n]
             /\ s.ids[Len(r.ids) + 1] = added.id /\ s.entries = added.entries
<1> DEFINE added == AddToPath(r.entries, b, id)
           s == [r EXCEPT !.entries = added.entries, !.ids = Append(@, added.id)]
<1> USE DEF OneMore
<1>1. /\ r.entries \in Interned /\ r.grey \in SUBSET Blocks /\ r.ids \in Seq(Nat)
      /\ r = [entries |-> r.entries, grey |-> r.grey, ids |-> r.ids]
      /\ \A n \in 1 .. Len(r.ids) : r.ids[n] \in 1 .. Len(r.entries)
  BY DEF Founds
<1>2. /\ added.entries \in Interned /\ Extends(r.entries, added.entries)
      /\ added.id \in 1 .. Len(added.entries)
  BY <1>1, AddToPathType
<1> HIDE DEF added
<1>3. /\ s.entries = added.entries /\ s.grey = r.grey
      /\ s.ids = Append(r.ids, added.id)
  BY <1>1
<1>4. Len(added.entries) \in Nat /\ Len(r.entries) \in Nat /\ Len(r.entries) <= Len(added.entries)
  BY <1>1, <1>2, InternedType DEF Extends
<1>5. /\ Append(r.ids, added.id) \in Seq(Nat)
      /\ Len(Append(r.ids, added.id)) = Len(r.ids) + 1
      /\ \A n \in 1 .. Len(r.ids) : Append(r.ids, added.id)[n] = r.ids[n]
      /\ Append(r.ids, added.id)[Len(r.ids) + 1] = added.id
      /\ Len(r.ids) \in Nat
  BY <1>1, <1>2, <1>4
<1>6. s \in [entries : Interned, grey : SUBSET Blocks, ids : Seq(Nat)]
  <2>1. Append(r.ids, added.id) \in Seq(Nat)
    BY <1>5
  <2> QED BY <1>1, <1>2, <2>1
<1> HIDE DEF s
<1>7. \A n \in 1 .. Len(s.ids) : s.ids[n] \in 1 .. Len(s.entries)
  <2> SUFFICES ASSUME NEW n \in 1 .. Len(s.ids) PROVE s.ids[n] \in 1 .. Len(s.entries)
    OBVIOUS
  <2>1. CASE n \in 1 .. Len(r.ids)
    <3>1. s.ids[n] = r.ids[n] /\ r.ids[n] \in 1 .. Len(r.entries)
      BY <1>1, <1>3, <1>5, <2>1
    <3> QED BY <1>3, <1>4, <3>1
  <2>2. CASE n = Len(r.ids) + 1
    BY <1>2, <1>3, <1>5, <2>2
  <2>3. n \in 1 .. Len(r.ids) \/ n = Len(r.ids) + 1
    BY <1>3, <1>5
  <2> QED BY <2>1, <2>2, <2>3
<1>8. s \in Founds
  BY <1>6, <1>7 DEF Founds
<1> QED BY <1>2, <1>3, <1>5, <1>8 DEF s, added

LEMMA AddsExists ==
  ASSUME NEW b \in Blocks, NEW found \in Founds
  PROVE  \E A : Adds(A, b, found)
<1> DEFINE D == 0 .. Len(found.ids)
           V == {r \in Founds : Len(found.entries) <= Len(r.entries)}
           G == [D -> V]
           Next1(r, n) == OneMore(r, b, found.ids[n])
           Body(A) == [n \in D |-> IF n = 0 THEN [found EXCEPT !.ids = <<>>]
                                   ELSE Next1(A[n - 1], n)]
           T == [A \in G |-> Body(A)]
           rank == [n \in D |-> n]
           N == Len(found.ids)
<1>1. /\ found.entries \in Interned /\ found.ids \in Seq(Nat) /\ N \in Nat
      /\ found.grey \in SUBSET Blocks
      /\ found = [entries |-> found.entries, grey |-> found.grey, ids |-> found.ids]
      /\ \A n \in 1 .. N : found.ids[n] \in 1 .. Len(found.entries)
      /\ Len(found.entries) \in Nat
  BY InternedType DEF Founds
<1>2. [found EXCEPT !.ids = <<>>] \in V
  <2> DEFINE r == [found EXCEPT !.ids = <<>>]
  <2>1. r = [entries |-> found.entries, grey |-> found.grey, ids |-> <<>>]
    BY <1>1
  <2>2. <<>> \in Seq(Nat) /\ Len(<<>>) = 0
    OBVIOUS
  <2> HIDE DEF r
  <2>3. r \in Founds
    BY <1>1, <2>1, <2>2 DEF Founds
  <2> QED BY <1>1, <2>1, <2>3 DEF r
<1>3. \A r \in V : \A n \in 1 .. N : Next1(r, n) \in V
  <2> SUFFICES ASSUME NEW r \in V, NEW n \in 1 .. N PROVE Next1(r, n) \in V
    OBVIOUS
  <2>1. r.entries \in Interned /\ Len(r.entries) \in Nat
    BY InternedType DEF Founds
  <2>2. found.ids[n] \in 0 .. Len(r.entries)
    BY <1>1, <2>1
  <2>3. Next1(r, n) \in Founds /\ Extends(r.entries, Next1(r, n).entries)
    BY <2>2, AddedType
  <2>4. Len(Next1(r, n).entries) \in Nat
    BY <2>3, InternedType DEF Founds
  <2> HIDE DEF Next1
  <2> QED BY <1>1, <2>1, <2>3, <2>4 DEF Extends
<1>4. \A n \in D : n # 0 => n - 1 \in D /\ n - 1 < n /\ n \in 1 .. N
  BY <1>1
<1>5. \A A \in G : Body(A) \in G
  <2> HIDE DEF Next1, V
  <2> QED BY <1>2, <1>3, <1>4
<1>6. T \in [G -> G] /\ \A A \in G : T[A] = Body(A)
  <2> HIDE DEF Body, G
  <2> QED BY <1>5
<1>7. ASSUME NEW A \in G, NEW B \in G, NEW n \in D, \A m \in D : m < n => A[m] = B[m]
      PROVE  Body(A)[n] = Body(B)[n]
  <2> HIDE DEF Next1, V
  <2> QED BY <1>4, <1>7
<1>8. rank \in [D -> 0 .. N] /\ \A n \in D : rank[n] = n
  OBVIOUS
<1>9. G # {}
  <2>1. [n \in D |-> [found EXCEPT !.ids = <<>>]] \in G
    BY <1>2
  <2> QED BY <2>1
<1>10. G \in SUBSET [D -> V] /\ N \in Nat
  BY <1>1
<1>11. PICK A \in G : T[A] = A
  <2> HIDE DEF T, G, D, rank, N, V, Body
  <2>1. Recursion(D, V, G, N, rank, T)
    BY <1>6, <1>7, <1>8, <1>9, <1>10 DEF Recursion
  <2> QED BY <2>1, Solved
<1>12. Body(A) = A
  <2> HIDE DEF Body, G
  <2> QED BY <1>6, <1>11
<1>13. Adds(A, b, found)
  BY <1>12 DEF Adds
<1> QED BY <1>13

(* Prefixed puts b in front of every path, and adds and loses none.        *)
LEMMA PrefixedType ==
  ASSUME NEW b \in Blocks, NEW found \in Founds
  PROVE  LET r == Prefixed(b, found) IN
         /\ r \in Founds /\ Extends(found.entries, r.entries) /\ r.grey = found.grey
         /\ PathsIn(r) = {<<b>> \o p : p \in PathsIn(found)}
         /\ Canonical(found.entries) => Canonical(r.entries)
<1> DEFINE N == Len(found.ids)
<1>1. Prefixed(b, found) = (CHOOSE A : Adds(A, b, found))[N]
  BY DEF Prefixed, Adds, OneMore
<1>2. PICK A : A = CHOOSE B : Adds(B, b, found)
  OBVIOUS
<1>3. Adds(A, b, found)
  BY <1>2, AddsExists
<1>4. /\ found.entries \in Interned /\ found.ids \in Seq(Nat) /\ N \in Nat
      /\ found.grey \in SUBSET Blocks
      /\ found = [entries |-> found.entries, grey |-> found.grey, ids |-> found.ids]
      /\ \A n \in 1 .. N : found.ids[n] \in 1 .. Len(found.entries)
      /\ Len(found.entries) \in Nat
  BY InternedType DEF Founds
<1>5. A[0] = [entries |-> found.entries, grey |-> found.grey, ids |-> <<>>]
  <2>1. A[0] = [found EXCEPT !.ids = <<>>]
    <3>1. 0 \in 0 .. N
      BY <1>4
    <3> QED BY <1>3, <3>1 DEF Adds
  <2> QED BY <1>4, <2>1
<1> DEFINE Step1(r, n) == OneMore(r, b, found.ids[n])
<1>6. \A n \in 1 .. N : A[n] = Step1(A[n - 1], n)
  <2> SUFFICES ASSUME NEW n \in 1 .. N PROVE A[n] = Step1(A[n - 1], n)
    OBVIOUS
  <2>1. n \in 0 .. N /\ n # 0
    BY <1>4
  <2> QED BY <1>3, <2>1 DEF Adds
<1> DEFINE Right(r, n) ==
             /\ r \in Founds /\ Extends(found.entries, r.entries) /\ r.grey = found.grey
             /\ Len(r.ids) = n
             /\ \A m \in 1 .. n : ExtractPath(r.entries, r.ids[m])
                                    = <<b>> \o ExtractPath(found.entries, found.ids[m])
             /\ Canonical(found.entries) => Canonical(r.entries)
<1>7. Right(A[0], 0)
  <2> DEFINE r == A[0]
  <2>1. r.entries = found.entries /\ r.grey = found.grey /\ r.ids = <<>>
        /\ <<>> \in Seq(Nat) /\ Len(<<>>) = 0
    BY <1>5
  <2>2. r \in Founds
    BY <1>4, <1>5, <2>1 DEF Founds
  <2>3. Extends(found.entries, r.entries)
    BY <1>4, <2>1, ExtendsOnward DEF Extends
  <2> QED BY <2>1, <2>2, <2>3
<1>8. ASSUME NEW n \in 1 .. N, Right(A[n - 1], n - 1)
      PROVE  Right(A[n], n)
  <2> DEFINE r == A[n - 1]
             s == A[n]
             id == found.ids[n]
             added == AddToPath(r.entries, b, id)
  <2>1. r \in Founds /\ r.entries \in Interned /\ Len(r.entries) \in Nat
    BY <1>8, InternedType DEF Founds
  <2>2. id \in 1 .. Len(found.entries) /\ id \in 0 .. Len(r.entries)
    BY <1>4, <1>8, <2>1 DEF Extends
  <2>3. s = Step1(r, n)
    BY <1>6
  <2>4. /\ s \in Founds /\ Extends(r.entries, s.entries) /\ s.grey = r.grey
        /\ Len(s.ids) = Len(r.ids) + 1
        /\ \A m \in 1 .. Len(r.ids) : s.ids[m] = r.ids[m]
        /\ s.ids[Len(r.ids) + 1] = added.id /\ s.entries = added.entries
    <3>1. s = OneMore(r, b, id)
      BY <2>3
    <3> HIDE DEF r, s, id, Right, Step1
    <3>2. id \in 0 .. Len(r.entries) /\ r \in Founds
      BY <2>1, <2>2
    <3> QED BY <3>1, <3>2, AddedType
  <2>5. /\ ExtractPath(added.entries, added.id) = <<b>> \o ExtractPath(r.entries, id)
        /\ Canonical(r.entries) => Canonical(added.entries)
    BY <2>1, <2>2, AddToPathType
  <2>6. s.entries \in Interned
    BY <2>4 DEF Founds
  <2>7. /\ Extends(found.entries, r.entries) /\ r.grey = found.grey /\ Len(r.ids) = n - 1
        /\ \A m \in 1 .. n - 1 : ExtractPath(r.entries, r.ids[m])
                               = <<b>> \o ExtractPath(found.entries, found.ids[m])
        /\ Canonical(found.entries) => Canonical(r.entries)
    BY <1>8
  <2>8. \A m \in 1 .. n - 1 : r.ids[m] \in 0 .. Len(r.entries)
    <3> HIDE DEF r, Right
    <3>1. \A m \in 1 .. Len(r.ids) : r.ids[m] \in 1 .. Len(r.entries)
      BY <2>1 DEF Founds
    <3> QED BY <2>1, <2>7, <3>1
  <2> HIDE DEF r, s, added, id, Right, Step1
  <2>9. Extends(found.entries, s.entries)
    BY <1>4, <2>1, <2>4, <2>6, <2>7, ExtendsOnward
  <2>10. ExtractPath(r.entries, id) = ExtractPath(found.entries, id)
    <3>1. id \in 0 .. Len(found.entries)
      BY <1>4, <2>2
    <3> QED BY <1>4, <2>1, <2>7, <3>1, PathKept
  <2>11. n \in Nat /\ n - 1 + 1 = n
    BY <1>4
  <2>12. ASSUME NEW m \in 1 .. n
         PROVE  ExtractPath(s.entries, s.ids[m])
                  = <<b>> \o ExtractPath(found.entries, found.ids[m])
    <3>1. CASE m = n
      BY <2>4, <2>5, <2>7, <2>10, <2>11, <3>1 DEF id
    <3>2. CASE m # n
      <4>1. m \in 1 .. n - 1
        BY <2>11, <3>2
      <4>2. s.ids[m] = r.ids[m]
        BY <2>4, <2>7, <4>1
      <4>3. ExtractPath(s.entries, r.ids[m]) = ExtractPath(r.entries, r.ids[m])
        BY <2>1, <2>4, <2>6, <2>8, <4>1, PathKept
      <4> QED BY <2>7, <4>1, <4>2, <4>3
    <3> QED BY <3>1, <3>2
  <2>13. Right(s, n)
    BY <2>4, <2>5, <2>7, <2>9, <2>11, <2>12 DEF Right
  <2> QED BY <2>13 DEF s
<1>9. Right(A[N], N)
  <2> DEFINE Wrong == {n \in 0 .. N : ~ Right(A[n], n)}
  <2> HIDE DEF Right
  <2> SUFFICES ASSUME Wrong # {} PROVE FALSE
    BY <1>4
  <2>1. PICK n \in Wrong : \A m \in Wrong : n <= m
    <3>1. Wrong \in SUBSET Nat
      BY <1>4
    <3> HIDE DEF Wrong
    <3> QED BY <3>1, LeastNatural
  <2>2. n \in 0 .. N /\ ~ Right(A[n], n)
    BY <2>1
  <2>3. n # 0
    BY <1>7, <2>2
  <2>4. n \in 1 .. N /\ n - 1 \in 0 .. N /\ ~(n <= n - 1)
    BY <1>4, <2>2, <2>3
  <2>5. Right(A[n - 1], n - 1)
    BY <2>1, <2>4
  <2> QED BY <1>8, <2>2, <2>4, <2>5
<1> DEFINE r == A[N]
<1>10. PathsIn(r) = {<<b>> \o p : p \in PathsIn(found)}
  <2>1. Len(r.ids) = Len(found.ids)
    BY <1>9
  <2>2. \A m \in 1 .. N : ExtractPath(r.entries, r.ids[m])
                            = <<b>> \o ExtractPath(found.entries, found.ids[m])
    BY <1>9
  <2> HIDE DEF r
  <2> QED BY <2>1, <2>2 DEF PathsIn
<1>11. r = Prefixed(b, found)
  BY <1>1, <1>2
<1> QED BY <1>9, <1>10, <1>11

-----------------------------------------------------------------------------
(* The more blocks are grey, the fewer are left to search. *)
Left(K) == Cardinality(Blocks \ K)

LEMMA LeftShrinks ==
  ASSUME NEW K \in SUBSET Blocks
  PROVE  /\ Left(K) \in Nat /\ Left(K) \in 0 .. Cardinality(Blocks)
         /\ Cardinality(Blocks) \in Nat
         /\ \A M \in SUBSET Blocks : \A b \in Blocks :
              b \notin K /\ K \cup {b} \subseteq M => Left(M) < Left(K)
<1>1. IsFiniteSet(Blocks) /\ Cardinality(Blocks) \in Nat
  BY BlocksAssumption, FS_CardinalityType
<1>2. \A M \in SUBSET Blocks :
        /\ IsFiniteSet(Blocks \ M) /\ Left(M) \in Nat /\ Left(M) <= Cardinality(Blocks)
  <2> TAKE M \in SUBSET Blocks
  <2>1. Blocks \ M \in SUBSET Blocks
    OBVIOUS
  <2> QED BY <1>1, <2>1, FS_Subset, FS_CardinalityType DEF Left
<1>3. ASSUME NEW M \in SUBSET Blocks, NEW b \in Blocks, b \notin K, K \cup {b} \subseteq M
      PROVE  Left(M) < Left(K)
  <2>1. PICK A : A = Blocks \ M
    OBVIOUS
  <2>2. PICK B : B = Blocks \ K
    OBVIOUS
  <2>3. A \in SUBSET B /\ A # B /\ IsFiniteSet(B)
    BY <1>2, <1>3, <2>1, <2>2
  <2>4. Cardinality(A) <= Cardinality(B) /\ Cardinality(A) # Cardinality(B)
    BY <2>3, FS_Subset
  <2>5. Left(M) = Cardinality(A) /\ Left(K) = Cardinality(B)
    BY <2>1, <2>2 DEF Left
  <2>6. Left(M) \in Nat /\ Left(K) \in Nat
    BY <1>2
  <2> QED BY <2>4, <2>5, <2>6
<1>4. Left(K) \in Nat /\ Left(K) <= Cardinality(Blocks)
  BY <1>2
<1>5. Left(K) \in 0 .. Cardinality(Blocks)
  BY <1>1, <1>4
<1> QED BY <1>1, <1>3, <1>4, <1>5

-----------------------------------------------------------------------------
(* The recursion of findAllSimplePaths. *)
Fits(c, r) ==
  r \in Founds /\ r.grey = c.grey /\ Extends(c.entries, r.entries)

GoodSearches == {F \in [Calls -> Founds] : \A c \in Calls : Fits(c, F[c])}

CallOf(acc, s) == [entries |-> acc.entries, grey |-> acc.grey, src |-> s]

Combined(F, s, acc) == [F[CallOf(acc, s)] EXCEPT !.ids = acc.ids \o @]

BaseOf(c) == [entries |-> c.entries, grey |-> c.grey \cup {c.src}, ids |-> <<>>]

Below(c) ==
  {r \in Founds : r.grey = c.grey \cup {c.src} /\ Extends(c.entries, r.entries)}

LEMMA CombinedType ==
  ASSUME NEW acc \in Founds, NEW sub \in Founds, Extends(acc.entries, sub.entries)
  PROVE  LET r == [sub EXCEPT !.ids = acc.ids \o @] IN
         /\ r \in Founds /\ r.entries = sub.entries /\ r.grey = sub.grey
         /\ PathsIn(r) = PathsIn(acc) \cup PathsIn(sub)
<1> DEFINE r == [sub EXCEPT !.ids = acc.ids \o @]
<1>1. /\ acc.ids \in Seq(Nat) /\ sub.ids \in Seq(Nat)
      /\ acc.entries \in Interned /\ sub.entries \in Interned /\ sub.grey \in SUBSET Blocks
      /\ \A n \in 1 .. Len(acc.ids) : acc.ids[n] \in 1 .. Len(acc.entries)
      /\ \A n \in 1 .. Len(sub.ids) : sub.ids[n] \in 1 .. Len(sub.entries)
      /\ sub \in [entries : Interned, grey : SUBSET Blocks, ids : Seq(Nat)]
  BY DEF Founds
<1>2. Len(acc.entries) \in Nat /\ Len(sub.entries) \in Nat /\ Len(acc.entries) <= Len(sub.entries)
  BY <1>1, InternedType DEF Extends
<1> DEFINE A == Len(acc.ids)
           B == Len(sub.ids)
<1>3. /\ A \in Nat /\ B \in Nat
      /\ acc.ids \o sub.ids \in Seq(Nat) /\ Len(acc.ids \o sub.ids) = A + B
      /\ \A n \in 1 .. A : (acc.ids \o sub.ids)[n] = acc.ids[n]
      /\ \A n \in 1 .. B : (acc.ids \o sub.ids)[A + n] = sub.ids[n]
  BY <1>1
<1>4. r.entries = sub.entries /\ r.grey = sub.grey /\ r.ids = acc.ids \o sub.ids
  BY <1>1
<1>5. r \in [entries : Interned, grey : SUBSET Blocks, ids : Seq(Nat)]
  BY <1>1, <1>3
<1> HIDE DEF r, A, B
<1>6. \A n \in 1 .. A + B : n \in 1 .. A \/ \E m \in 1 .. B : n = A + m
  <2> TAKE n \in 1 .. A + B
  <2>1. n \notin 1 .. A => n - A \in 1 .. B /\ n = A + (n - A)
    BY <1>3
  <2> QED BY <2>1
<1>7. /\ \A n \in 1 .. A : n \in 1 .. A + B /\ r.ids[n] = acc.ids[n]
      /\ \A n \in 1 .. B : A + n \in 1 .. A + B /\ r.ids[A + n] = sub.ids[n]
      /\ Len(r.ids) = A + B
  <2>1. /\ \A n \in 1 .. A : n \in 1 .. A + B
        /\ \A n \in 1 .. B : A + n \in 1 .. A + B
    BY <1>3
  <2> QED BY <1>3, <1>4, <2>1
<1>8. r \in Founds
  <2>1. ASSUME NEW n \in 1 .. A + B PROVE r.ids[n] \in 1 .. Len(sub.entries)
    <3>1. CASE n \in 1 .. A
      <4>1. acc.ids[n] \in 1 .. Len(acc.entries)
        BY <1>1, <3>1 DEF A
      <4> QED BY <1>2, <1>7, <3>1, <4>1
    <3>2. ASSUME NEW m \in 1 .. B, n = A + m PROVE r.ids[n] \in 1 .. Len(sub.entries)
      BY <1>1, <1>7, <3>2 DEF B
    <3> QED BY <1>6, <3>1, <3>2
  <2> QED BY <1>4, <1>5, <1>7, <2>1 DEF Founds
<1>9. \A n \in 1 .. A : ExtractPath(sub.entries, acc.ids[n]) = ExtractPath(acc.entries, acc.ids[n])
  <2> TAKE n \in 1 .. A
  <2>1. acc.ids[n] \in 0 .. Len(acc.entries)
    BY <1>1, <1>2 DEF A
  <2> QED BY <1>1, <2>1, PathKept
<1>10. PathsIn(r) = PathsIn(acc) \cup PathsIn(sub)
  <2>1. PathsIn(r) = {ExtractPath(sub.entries, r.ids[n]) : n \in 1 .. A + B}
    BY <1>4, <1>7 DEF PathsIn
  <2>2. PathsIn(acc) = {ExtractPath(sub.entries, acc.ids[n]) : n \in 1 .. A}
    BY <1>9 DEF PathsIn, A
  <2>3. PathsIn(sub) = {ExtractPath(sub.entries, sub.ids[n]) : n \in 1 .. B}
    BY DEF PathsIn, B
  <2> QED BY <1>6, <1>7, <2>1, <2>2, <2>3
<1> QED BY <1>4, <1>8, <1>10 DEF r

LEMMA SuccFinite ==
  ASSUME NEW g \in Graphs, NEW b \in Blocks
  PROVE  /\ Succ(g, b) \in SUBSET Blocks /\ IsFiniteSet(Succ(g, b))
         /\ Pred(g, b) \in SUBSET Blocks /\ IsFiniteSet(Pred(g, b))
<1>1. Succ(g, b) \in SUBSET Blocks
  BY GraphsAssumption DEF Succ
<1>2. Pred(g, b) \in SUBSET Blocks
  BY GraphsAssumption DEF Pred
<1> QED BY <1>1, <1>2, BlocksAssumption, FS_Subset

LEMMA BelowType ==
  ASSUME NEW c \in Calls, c.src \notin c.grey
  PROVE  /\ BaseOf(c) \in Below(c)
         /\ \A acc \in Below(c) : \A s \in Blocks :
              CallOf(acc, s) \in Calls /\ Left(CallOf(acc, s).grey) < Left(c.grey)
         /\ \A F \in GoodSearches : \A acc \in Below(c) : \A s \in Blocks :
              /\ Combined(F, s, acc) \in Below(c)
              /\ PathsIn(Combined(F, s, acc)) = PathsIn(acc) \cup PathsIn(F[CallOf(acc, s)])
              /\ Combined(F, s, acc).entries = F[CallOf(acc, s)].entries
<1>1. c.entries \in Interned /\ c.grey \in SUBSET Blocks /\ c.src \in Blocks
  BY DEF Calls
<1>2. BaseOf(c) \in Below(c)
  <2> DEFINE r == BaseOf(c)
  <2>1. r.entries = c.entries /\ r.grey = c.grey \cup {c.src} /\ r.ids = <<>>
    BY DEF BaseOf
  <2>2. r \in [entries : Interned, grey : SUBSET Blocks, ids : Seq(Nat)]
    BY <1>1 DEF BaseOf
  <2>3. Extends(c.entries, r.entries)
    BY <1>1, <2>1, ExtendsOnward, InternedType DEF Extends
  <2>4. Len(r.ids) = 0
    BY <2>1
  <2> HIDE DEF r
  <2>5. r \in Founds
    BY <2>2, <2>4 DEF Founds
  <2> QED BY <2>1, <2>3, <2>5 DEF Below, r
<1>3. ASSUME NEW acc \in Below(c), NEW s \in Blocks
      PROVE  CallOf(acc, s) \in Calls /\ Left(CallOf(acc, s).grey) < Left(c.grey)
  <2>1. acc.entries \in Interned /\ acc.grey = c.grey \cup {c.src} /\ acc.grey \in SUBSET Blocks
    BY <1>1 DEF Below, Founds
  <2>2. CallOf(acc, s) \in Calls /\ CallOf(acc, s).grey = acc.grey
    BY <2>1 DEF CallOf, Calls
  <2> QED BY <1>1, <2>1, <2>2, LeftShrinks
<1>4. ASSUME NEW F \in GoodSearches, NEW acc \in Below(c), NEW s \in Blocks
      PROVE  /\ Combined(F, s, acc) \in Below(c)
             /\ PathsIn(Combined(F, s, acc)) = PathsIn(acc) \cup PathsIn(F[CallOf(acc, s)])
             /\ Combined(F, s, acc).entries = F[CallOf(acc, s)].entries
  <2> DEFINE d == CallOf(acc, s)
             sub == F[d]
             r == [sub EXCEPT !.ids = acc.ids \o @]
  <2>1. d \in Calls /\ d.entries = acc.entries /\ d.grey = acc.grey
    BY <1>3 DEF CallOf
  <2>2. sub \in Founds /\ sub.grey = acc.grey /\ Extends(acc.entries, sub.entries)
    BY <2>1 DEF GoodSearches, Fits
  <2>3. acc \in Founds /\ acc.grey = c.grey \cup {c.src} /\ Extends(c.entries, acc.entries)
    BY DEF Below
  <2>4. Combined(F, s, acc) = r
    BY DEF Combined
  <2> HIDE DEF d, sub
  <2>5. /\ r \in Founds /\ r.entries = sub.entries /\ r.grey = sub.grey
        /\ PathsIn(r) = PathsIn(acc) \cup PathsIn(sub)
    BY <2>2, <2>3, CombinedType
  <2> HIDE DEF r
  <2>6. Extends(c.entries, r.entries)
    <3>1. acc.entries \in Interned /\ sub.entries \in Interned
      BY <2>2, <2>3 DEF Founds
    <3> QED BY <1>1, <2>2, <2>3, <2>5, <3>1, ExtendsOnward
  <2> QED BY <2>2, <2>3, <2>4, <2>5, <2>6 DEF Below, d, sub
<1> QED BY <1>2, <1>3, <1>4

(* F and H are the same for every call with more grey blocks than c has.   *)
AgreeBelow(F, H, c) == \A d \in Calls : Left(d.grey) < Left(c.grey) => F[d] = H[d]

(* The searches from the successors one after the other.                   *)
SearchesInto(h, F, c, S) ==
  h = [U \in SUBSET S |-> IF U = {} THEN BaseOf(c) ELSE Combined(F, Pick(U), h[Rest(U)])]

LEMMA SearchFromFolds ==
  ASSUME NEW g \in Graphs, NEW c \in Calls, c.src \notin c.grey,
         NEW H \in GoodSearches
  PROVE  \E h \in [SUBSET Succ(g, c.src) -> Below(c)] :
           /\ h[{}] = BaseOf(c)
           /\ \A U \in SUBSET Succ(g, c.src) :
                U # {} => h[U] = Combined(H, Pick(U), h[Rest(U)])
           /\ \A F : AgreeBelow(F, H, c) => SearchFrom(F, g, c) = h[Succ(g, c.src)]
<1> DEFINE S == Succ(g, c.src)
           V == Below(c)
           step == [q \in S \X V |-> Combined(H, q[1], q[2])]
<1>1. S \in SUBSET Blocks /\ IsFiniteSet(S)
  BY SuccFinite DEF Calls
<1>2. /\ BaseOf(c) \in V
      /\ \A acc \in V : \A s \in Blocks :
           CallOf(acc, s) \in Calls /\ Left(CallOf(acc, s).grey) < Left(c.grey)
      /\ \A acc \in V : \A s \in Blocks : Combined(H, s, acc) \in V
  BY BelowType
<1>3. step \in [S \X V -> V]
  <2> HIDE DEF V, S
  <2> QED BY <1>1, <1>2
<1>4. PICK h \in [SUBSET S -> V] : FoldsInto(h, S, BaseOf(c), step)
  <2> HIDE DEF V, S, step
  <2> QED BY <1>1, <1>2, <1>3, FoldExists
<1>5. \A U \in SUBSET S : U # {} => Pick(U) \in S /\ Rest(U) \in SUBSET S
  BY PickIsIn
<1>6. h[{}] = BaseOf(c)
  BY <1>4 DEF FoldsInto
<1>7. ASSUME NEW U \in SUBSET S, U # {}
      PROVE  h[U] = Combined(H, Pick(U), h[Rest(U)])
  <2>1. h[U] = step[<<Pick(U), h[Rest(U)]>>]
    BY <1>4, <1>7 DEF FoldsInto
  <2>2. Pick(U) \in S /\ h[Rest(U)] \in V
    BY <1>4, <1>5, <1>7
  <2>3. \A s \in S : \A acc \in V : step[<<s, acc>>] = Combined(H, s, acc)
    OBVIOUS
  <2> HIDE DEF S, V, step
  <2> QED BY <2>1, <2>2, <2>3
<1>8. ASSUME NEW F, AgreeBelow(F, H, c) PROVE SearchFrom(F, g, c) = h[S]
  <2>1. \A acc \in V : \A s \in Blocks : Combined(F, s, acc) = Combined(H, s, acc)
    <3> TAKE acc \in V
    <3> TAKE s \in Blocks
    <3>1. F[CallOf(acc, s)] = H[CallOf(acc, s)]
      BY <1>2, <1>8 DEF AgreeBelow
    <3> QED BY <3>1 DEF Combined
  <2>2. SearchFrom(F, g, c) = (CHOOSE f : SearchesInto(f, F, c, S))[S]
    BY DEF SearchFrom, FoldSet, MapThenFoldSet, Pick, Rest, SearchesInto, Combined,
           CallOf, BaseOf
  <2>3. SearchesInto(h, F, c, S)
    <3> DEFINE k == [U \in SUBSET S |->
                       IF U = {} THEN BaseOf(c) ELSE Combined(F, Pick(U), h[Rest(U)])]
    <3>1. ASSUME NEW U \in SUBSET S PROVE h[U] = k[U]
      <4>1. CASE U = {}
        BY <1>6, <4>1
      <4>2. CASE U # {}
        <5>1. Pick(U) \in Blocks /\ h[Rest(U)] \in V
          <6> HIDE DEF S, V
          <6> QED BY <1>1, <1>4, <1>5, <4>2
        <5>2. h[U] = Combined(F, Pick(U), h[Rest(U)])
          BY <1>7, <2>1, <4>2, <5>1
        <5> QED BY <4>2, <5>2
      <4> QED BY <4>1, <4>2
    <3>2. h = k
      <4> HIDE DEF S, V
      <4>1. DOMAIN h = SUBSET S /\ h = [U \in SUBSET S |-> h[U]]
        BY <1>4
      <4>2. [U \in SUBSET S |-> h[U]] = k
        BY <3>1
      <4> HIDE DEF k
      <4> QED BY <4>1, <4>2
    <3> QED BY <3>2 DEF SearchesInto
  <2>4. PICK f : f = CHOOSE k : SearchesInto(k, F, c, S)
    OBVIOUS
  <2>5. SearchesInto(f, F, c, S)
    <3> HIDE DEF S
    <3> QED BY <2>3, <2>4
  <2> DEFINE P == {U \in SUBSET S : f[U] = h[U]}
  <2>6. {} \in P
    BY <1>6, <2>5 DEF SearchesInto
  <2>7. ASSUME NEW U \in SUBSET S, U # {}, Rest(U) \in P PROVE U \in P
    <3>1. f[U] = Combined(F, Pick(U), f[Rest(U)])
      BY <2>5, <2>7 DEF SearchesInto
    <3>2. f[Rest(U)] = h[Rest(U)]
      BY <2>7
    <3>3. Pick(U) \in Blocks /\ h[Rest(U)] \in V
      <4> HIDE DEF S, V
      <4> QED BY <1>1, <1>4, <1>5, <2>7
    <3> QED BY <1>7, <2>1, <2>7, <3>1, <3>2, <3>3
  <2>8. P = SUBSET S
    <3>1. P \in SUBSET (SUBSET S)
      OBVIOUS
    <3> HIDE DEF P, S
    <3> QED BY <1>1, <2>6, <2>7, <3>1, RestInduction
  <2>9. f[S] = h[S]
    <3>1. S \in P
      BY <2>8
    <3> QED BY <3>1
  <2> HIDE DEF S
  <2> QED BY <2>2, <2>4, <2>9
<1> QED BY <1>4, <1>6, <1>7, <1>8

(* A step of the search returns grey as it was, and what it interned.      *)
LEMMA StepType ==
  ASSUME NEW g \in Graphs, NEW c \in Calls, NEW H \in GoodSearches
  PROVE  /\ Fits(c, Step(H, g, c))
         /\ \A F : AgreeBelow(F, H, c) => Step(F, g, c) = Step(H, g, c)
<1>1. c.entries \in Interned /\ c.grey \in SUBSET Blocks /\ c.src \in Blocks
  BY DEF Calls
<1>2. Extends(c.entries, c.entries)
  BY <1>1, ExtendsOnward, InternedType DEF Extends
<1>3. CASE c.src \in c.grey
  <2> DEFINE r == [entries |-> c.entries, grey |-> c.grey, ids |-> <<>>]
  <2>1. \A F : Step(F, g, c) = r
    BY <1>3 DEF Step
  <2>2. r \in [entries : Interned, grey : SUBSET Blocks, ids : Seq(Nat)]
    BY <1>1
  <2>3. r.entries = c.entries /\ r.grey = c.grey /\ Len(r.ids) = 0
    OBVIOUS
  <2> HIDE DEF r
  <2>4. Fits(c, r)
    BY <1>2, <2>2, <2>3 DEF Fits, Founds
  <2> QED BY <2>1, <2>4
<1>4. CASE c.src \notin c.grey
  <2>1. PICK h \in [SUBSET Succ(g, c.src) -> Below(c)] :
          /\ h[{}] = BaseOf(c)
          /\ \A U \in SUBSET Succ(g, c.src) :
               U # {} => h[U] = Combined(H, Pick(U), h[Rest(U)])
          /\ \A F : AgreeBelow(F, H, c) => SearchFrom(F, g, c) = h[Succ(g, c.src)]
    BY <1>4, SearchFromFolds
  <2>2. PICK b : b = h[Succ(g, c.src)]
    OBVIOUS
  <2>3. b \in Below(c)
    BY <2>1, <2>2
  <2>4. PICK r : r = Prefixed(c.src, b)
    OBVIOUS
  <2>5. /\ b \in Founds /\ b.grey = c.grey \cup {c.src} /\ Extends(c.entries, b.entries)
    BY <2>3 DEF Below
  <2>6. r \in Founds /\ Extends(b.entries, r.entries) /\ r.grey = b.grey
    BY <1>1, <2>4, <2>5, PrefixedType
  <2>7. \A F : AgreeBelow(F, H, c) => Step(F, g, c) = [r EXCEPT !.grey = @ \ {c.src}]
    BY <1>4, <2>1, <2>2, <2>4 DEF Step
  <2>8. AgreeBelow(H, H, c)
    BY DEF AgreeBelow
  <2> DEFINE s == [r EXCEPT !.grey = @ \ {c.src}]
  <2>9. /\ r \in [entries : Interned, grey : SUBSET Blocks, ids : Seq(Nat)]
        /\ \A n \in 1 .. Len(r.ids) : r.ids[n] \in 1 .. Len(r.entries)
        /\ b.entries \in Interned
    BY <2>5, <2>6 DEF Founds
  <2>10. s.entries = r.entries /\ s.ids = r.ids /\ s.grey = r.grey \ {c.src}
    BY <2>9
  <2>11. s \in [entries : Interned, grey : SUBSET Blocks, ids : Seq(Nat)]
    BY <2>9
  <2>12. s.grey = c.grey
    BY <1>4, <2>5, <2>6, <2>10
  <2> HIDE DEF s
  <2>13. Extends(c.entries, s.entries)
    BY <1>1, <2>5, <2>6, <2>9, <2>10, ExtendsOnward
  <2>14. Fits(c, s)
    BY <2>9, <2>10, <2>11, <2>12, <2>13 DEF Fits, Founds
  <2> QED BY <2>7, <2>8, <2>14 DEF s
<1> QED BY <1>3, <1>4

SearchBody(F, g, dst, c) ==
  IF c.src = dst
  THEN LET added == AddToPath(c.entries, dst, kEmptyPath) IN
       [entries |-> added.entries, grey |-> c.grey, ids |-> <<added.id>>]
  ELSE Step(F, g, c)

LEMMA BodyType ==
  ASSUME NEW g \in Graphs, NEW dst \in Blocks, NEW c \in Calls, NEW H \in GoodSearches
  PROVE  /\ Fits(c, SearchBody(H, g, dst, c))
         /\ \A F : AgreeBelow(F, H, c) => SearchBody(F, g, dst, c) = SearchBody(H, g, dst, c)
<1>1. c.entries \in Interned /\ c.grey \in SUBSET Blocks /\ c.src \in Blocks
  BY DEF Calls
<1>2. CASE c.src = dst
  <2> DEFINE added == AddToPath(c.entries, dst, kEmptyPath)
             r == [entries |-> added.entries, grey |-> c.grey, ids |-> <<added.id>>]
  <2>1. kEmptyPath \in 0 .. Len(c.entries)
    BY <1>1, InternedType DEF kEmptyPath
  <2>2. added.entries \in Interned /\ Extends(c.entries, added.entries)
        /\ added.id \in 1 .. Len(added.entries)
    BY <1>1, <2>1, AddToPathType
  <2>3. \A F : SearchBody(F, g, dst, c) = r
    BY <1>2 DEF SearchBody
  <2> HIDE DEF added
  <2>4. r.entries = added.entries /\ r.grey = c.grey /\ r.ids = <<added.id>>
    OBVIOUS
  <2>5. added.id \in Nat
    BY <2>2, InternedType
  <2>6. /\ <<added.id>> \in Seq(Nat) /\ Len(<<added.id>>) = 1
        /\ \A n \in 1 .. 1 : <<added.id>>[n] = added.id
    BY <2>5
  <2>7. r \in [entries : Interned, grey : SUBSET Blocks, ids : Seq(Nat)]
    BY <1>1, <2>2, <2>6
  <2> HIDE DEF r
  <2>8. Fits(c, r)
    BY <2>2, <2>4, <2>6, <2>7 DEF Fits, Founds
  <2> QED BY <2>3, <2>8
<1>3. CASE c.src # dst
  BY <1>3, StepType DEF SearchBody
<1> QED BY <1>2, <1>3

IsSearch(F, g, dst) == F = [c \in Calls |-> SearchBody(F, g, dst, c)]

LEMMA SearchExists ==
  ASSUME NEW g \in Graphs, NEW dst \in Blocks
  PROVE  \E F \in GoodSearches : IsSearch(F, g, dst)
<1> DEFINE G == GoodSearches
           Body(F) == [c \in Calls |-> SearchBody(F, g, dst, c)]
           T == [F \in G |-> Body(F)]
           rank == [c \in Calls |-> Left(c.grey)]
           N == Cardinality(Blocks)
<1>1. \A c \in Calls : c.grey \in SUBSET Blocks
  BY DEF Calls
<1>2. rank \in [Calls -> 0 .. N] /\ N \in Nat /\ \A c \in Calls : rank[c] = Left(c.grey)
  <2>1. \A c \in Calls : Left(c.grey) \in 0 .. N
    BY <1>1, LeftShrinks
  <2>2. N \in Nat
    BY BlocksAssumption, FS_CardinalityType
  <2> HIDE DEF N
  <2> QED BY <2>1, <2>2
<1>3. ASSUME NEW F \in G PROVE Body(F) \in G
  <2>1. \A c \in Calls : Fits(c, SearchBody(F, g, dst, c))
    BY BodyType
  <2>2. \A c \in Calls : SearchBody(F, g, dst, c) \in Founds
    BY <2>1 DEF Fits
  <2> QED BY <2>1, <2>2 DEF GoodSearches
<1>4. T \in [G -> G] /\ \A F \in G : T[F] = Body(F)
  <2> HIDE DEF Body, G
  <2> QED BY <1>3
<1>5. ASSUME NEW F \in G, NEW H \in G, NEW c \in Calls,
             \A d \in Calls : rank[d] < rank[c] => F[d] = H[d]
      PROVE  Body(F)[c] = Body(H)[c]
  <2>1. AgreeBelow(F, H, c)
    BY <1>2, <1>5 DEF AgreeBelow
  <2>2. SearchBody(F, g, dst, c) = SearchBody(H, g, dst, c)
    BY <2>1, BodyType
  <2> QED BY <2>2
<1>6. G # {}
  <2> DEFINE F == [c \in Calls |-> [entries |-> c.entries, grey |-> c.grey, ids |-> <<>>]]
  <2>1. ASSUME NEW c \in Calls PROVE F[c] \in Founds /\ Fits(c, F[c])
    <3> DEFINE r == [entries |-> c.entries, grey |-> c.grey, ids |-> <<>>]
    <3>1. c.entries \in Interned /\ c.grey \in SUBSET Blocks
      BY DEF Calls
    <3>2. r \in [entries : Interned, grey : SUBSET Blocks, ids : Seq(Nat)]
      BY <3>1
    <3>3. r.entries = c.entries /\ r.grey = c.grey /\ Len(r.ids) = 0
      OBVIOUS
    <3>4. Extends(c.entries, c.entries)
      BY <3>1, ExtendsOnward, InternedType DEF Extends
    <3>5. F[c] = r
      OBVIOUS
    <3> HIDE DEF r, F
    <3> QED BY <3>2, <3>3, <3>4, <3>5 DEF Fits, Founds
  <2>2. F \in [Calls -> Founds]
    BY <2>1
  <2> HIDE DEF F
  <2> QED BY <2>1, <2>2 DEF GoodSearches
<1>7. G \in SUBSET [Calls -> Founds]
  BY DEF GoodSearches
<1>8. PICK F \in G : T[F] = F
  <2> HIDE DEF T, G, rank, N, Body
  <2>1. Recursion(Calls, Founds, G, N, rank, T)
    BY <1>2, <1>4, <1>5, <1>6, <1>7 DEF Recursion
  <2> QED BY <2>1, Solved
<1>9. Body(F) = F
  <2> HIDE DEF Body, G
  <2> QED BY <1>4, <1>8
<1>10. IsSearch(F, g, dst)
  BY <1>9 DEF IsSearch
<1> QED BY <1>8, <1>10

(* There is only one, so it is the one the model works with.               *)
LEMMA SearchesIs ==
  ASSUME NEW g \in Graphs, NEW dst \in Blocks
  PROVE  /\ Searches(g, dst) \in GoodSearches
         /\ \A c \in Calls : Searches(g, dst)[c] = SearchBody(Searches(g, dst), g, dst, c)
<1>1. Searches(g, dst) = CHOOSE F : IsSearch(F, g, dst)
  BY DEF Searches, IsSearch, SearchBody
<1>2. PICK H \in GoodSearches : IsSearch(H, g, dst)
  BY SearchExists
<1>3. PICK F : F = Searches(g, dst)
  OBVIOUS
<1>4. IsSearch(F, g, dst)
  BY <1>1, <1>2, <1>3
<1>5. /\ \A c \in Calls : F[c] = SearchBody(F, g, dst, c)
      /\ \A c \in Calls : H[c] = SearchBody(H, g, dst, c)
      /\ F = [c \in Calls |-> F[c]] /\ H = [c \in Calls |-> H[c]]
  <2>1. \A K : IsSearch(K, g, dst) =>
          /\ \A c \in Calls : K[c] = SearchBody(K, g, dst, c)
          /\ K = [c \in Calls |-> K[c]]
    BY DEF IsSearch
  <2> QED BY <1>2, <1>4, <2>1
<1> DEFINE Wrong == {c \in Calls : F[c] # H[c]}
<1>6. Wrong = {}
  <2> SUFFICES ASSUME Wrong # {} PROVE FALSE
    OBVIOUS
  <2>1. \A c \in Calls : Left(c.grey) \in Nat
    BY LeftShrinks DEF Calls
  <2> DEFINE R == {Left(c.grey) : c \in Wrong}
  <2>2. PICK n \in R : \A m \in R : n <= m
    <3>1. R \in SUBSET Nat /\ R # {}
      BY <2>1
    <3> HIDE DEF R
    <3> QED BY <3>1, LeastNatural
  <2>3. PICK c \in Wrong : n = Left(c.grey)
    OBVIOUS
  <2>4. c \in Calls /\ F[c] # H[c]
    BY <2>3
  <2>5. AgreeBelow(F, H, c)
    <3> SUFFICES ASSUME NEW d \in Calls, Left(d.grey) < Left(c.grey), F[d] # H[d]
                 PROVE  FALSE
      BY DEF AgreeBelow
    <3>1. Left(d.grey) \in R
      OBVIOUS
    <3>2. n <= Left(d.grey)
      BY <2>2, <3>1
    <3> HIDE DEF R, Wrong
    <3> QED BY <2>1, <2>3, <2>4, <3>2
  <2>6. SearchBody(F, g, dst, c) = SearchBody(H, g, dst, c)
    BY <2>4, <2>5, BodyType
  <2> HIDE DEF Wrong
  <2> QED BY <1>5, <2>4, <2>6
<1>7. F = H
  <2>1. \A c \in Calls : F[c] = H[c]
    BY <1>6
  <2> QED BY <1>5, <2>1
<1> QED BY <1>2, <1>3, <1>5, <1>7

-----------------------------------------------------------------------------
(* The paths a search looks for, and the ones it starts with a step.       *)
IsPath(g, K, src, dst, p) ==
  /\ p \in Seq(Blocks) /\ Len(p) >= 1
  /\ p[1] = src /\ p[Len(p)] = dst
  /\ IsWalk(g, p)
  /\ \A m, n \in 1 .. Len(p) : p[m] = p[n] => m = n
  /\ \A n \in 1 .. Len(p) - 1 : p[n] \notin K

StartsPath(g, K, src, dst, p) ==
  /\ p \in Seq(Blocks) /\ Len(p) >= 2
  /\ p[1] = src /\ p[Len(p)] = dst
  /\ IsWalk(g, p)
  /\ IsSimple(p)
  /\ \A n \in 1 .. Len(p) - 1 : p[n] \notin K

SearchPaths(g, K, src, dst) == {p \in Seq(Blocks) : IsPath(g, K, src, dst, p)}
StepPaths(g, K, src, dst) == {p \in Seq(Blocks) : StartsPath(g, K, src, dst, p)}
PathsFrom(g, K, T, dst) == UNION {SearchPaths(g, K, t, dst) : t \in T}
Behind(b, Q) == {<<b>> \o q : q \in Q}

LEMMA PathsFromMore ==
  ASSUME NEW g, NEW K, NEW dst, NEW T, NEW t
  PROVE  /\ PathsFrom(g, K, {}, dst) = {}
         /\ PathsFrom(g, K, T \cup {t}, dst)
              = PathsFrom(g, K, T, dst) \cup SearchPaths(g, K, t, dst)
BY DEF PathsFrom

LEMMA PathsFromDst ==
  ASSUME NEW g \in Graphs, NEW K, NEW dst \in Blocks
  PROVE  SearchPaths(g, K, dst, dst) = {<<dst>>}
<1>1. ASSUME NEW p \in SearchPaths(g, K, dst, dst) PROVE p = <<dst>>
  <2>1. /\ p \in Seq(Blocks) /\ Len(p) >= 1 /\ p[1] = dst /\ p[Len(p)] = dst
        /\ \A m, n \in 1 .. Len(p) : p[m] = p[n] => m = n
    BY DEF SearchPaths, IsPath
  <2>2. Len(p) = 1
    BY <2>1
  <2> QED BY <2>1, <2>2
<1>2. <<dst>> \in SearchPaths(g, K, dst, dst)
  BY DEF SearchPaths, IsPath, IsWalk
<1> QED BY <1>1, <1>2

LEMMA StepIsPath ==
  ASSUME NEW g \in Graphs, NEW K, NEW src \in Blocks, NEW dst \in Blocks, src # dst
  PROVE  SearchPaths(g, K, src, dst) = StepPaths(g, K, src, dst)
<1>1. ASSUME NEW p \in SearchPaths(g, K, src, dst) PROVE p \in StepPaths(g, K, src, dst)
  <2>1. IsPath(g, K, src, dst, p) /\ p \in Seq(Blocks) /\ Len(p) \in Nat
    BY DEF SearchPaths
  <2>2. Len(p) >= 2
    BY <2>1 DEF IsPath
  <2>3. IsSimple(p)
    BY <2>1 DEF IsPath, IsSimple
  <2> QED BY <2>1, <2>2, <2>3 DEF IsPath, StepPaths, StartsPath
<1>2. ASSUME NEW p \in StepPaths(g, K, src, dst) PROVE p \in SearchPaths(g, K, src, dst)
  <2>1. StartsPath(g, K, src, dst, p) /\ p \in Seq(Blocks) /\ Len(p) \in Nat
    BY DEF StepPaths
  <2>2. ASSUME NEW m \in 1 .. Len(p), NEW n \in 1 .. Len(p), p[m] = p[n] PROVE m = n
    <3>1. m < n => m = 1 /\ n = Len(p)
      BY <2>1, <2>2 DEF StartsPath, IsSimple
    <3>2. n < m => n = 1 /\ m = Len(p)
      BY <2>1, <2>2 DEF StartsPath, IsSimple
    <3>3. p[1] # p[Len(p)]
      BY <2>1 DEF StartsPath
    <3> QED BY <2>1, <2>2, <3>1, <3>2, <3>3
  <2> QED BY <2>1, <2>2 DEF StartsPath, SearchPaths, IsPath
<1> QED BY <1>1, <1>2

LEMMA FindIsStep ==
  ASSUME NEW g \in Graphs, NEW K, NEW src \in Blocks, NEW dst \in Blocks
  PROVE  FindAllSimplePaths(g, K, src, dst) = StepPaths(g, K, src, dst)
<1>1. ASSUME NEW p \in FindAllSimplePaths(g, K, src, dst)
      PROVE  p \in StepPaths(g, K, src, dst)
  <2>1. p \in Walks(g, K, src, dst)
    BY PathIsWalk
  <2>2. p \in {r.path : r \in {q \in SimplePaths : q.graph = g}}
    BY PathsOfGraph DEF FindAllSimplePaths
  <2>3. \A q \in SimplePaths : IsSimple(q.path)
    BY DEF SimplePaths
  <2>4. IsSimple(p)
    BY <2>2, <2>3
  <2> QED BY <2>1, <2>4 DEF Walks, StepPaths, StartsPath
<1>2. ASSUME NEW p \in StepPaths(g, K, src, dst)
      PROVE  p \in FindAllSimplePaths(g, K, src, dst)
  <2>1. /\ p \in Seq(Blocks) /\ Len(p) >= 2 /\ p[1] = src /\ p[Len(p)] = dst
        /\ IsWalk(g, p) /\ IsSimple(p) /\ \A n \in 1 .. Len(p) - 1 : p[n] \notin K
        /\ Len(p) \in Nat
    BY DEF StepPaths, StartsPath
  <2>2. p \in BlockSequences
    <3>1. Cardinality(Blocks) \in Nat
      BY BlocksAssumption, FS_CardinalityType
    <3>2. Len(p) \in 1 .. Cardinality(Blocks) + 1
      BY <2>1, <3>1, SimpleIsShort
    <3>3. p \in [1 .. Len(p) -> Blocks]
      BY <2>1
    <3> QED BY <3>2, <3>3 DEF BlockSequences
  <2>3. [graph |-> g, path |-> p] \in SimplePaths
    <3> DEFINE c == <<g, p>>
    <3>1. c \in {x \in Graphs \X BlockSequences : IsWalk(x[1], x[2]) /\ IsSimple(x[2])}
      BY <2>1, <2>2
    <3> QED BY <3>1 DEF SimplePaths
  <2>4. p \in PathsOf(g)
    BY <2>3, PathsOfGraph
  <2> QED BY <2>1, <2>4 DEF FindAllSimplePaths
<1> QED BY <1>1, <1>2

(* A path that starts with a step from src goes on from a successor, with  *)
(* src grey as well.                                                       *)
LEMMA StepUnfolds ==
  ASSUME NEW g \in Graphs, NEW K, NEW src \in Blocks, NEW dst \in Blocks, src \notin K
  PROVE  StepPaths(g, K, src, dst)
           = Behind(src, PathsFrom(g, K \cup {src}, Succ(g, src), dst))
<1> DEFINE L == K \cup {src}
           Q == PathsFrom(g, L, Succ(g, src), dst)
<1>1. ASSUME NEW p \in StepPaths(g, K, src, dst)
      PROVE  \E q \in Q : p = <<src>> \o q
  <2>1. /\ p \in Seq(Blocks) /\ Len(p) >= 2 /\ p[1] = src /\ p[Len(p)] = dst
        /\ IsWalk(g, p) /\ IsSimple(p) /\ \A n \in 1 .. Len(p) - 1 : p[n] \notin K
        /\ Len(p) \in Nat
    BY DEF StepPaths, StartsPath
  <2>2. PICK q : q = Tail(p)
    OBVIOUS
  <2>3. /\ q \in Seq(Blocks) /\ Len(q) = Len(p) - 1
        /\ \A n \in 1 .. Len(q) : q[n] = p[n + 1]
        /\ p = <<src>> \o q
    BY <2>1, <2>2
  <2>4. q[1] \in Succ(g, src) /\ q[Len(q)] = dst /\ Len(q) >= 1
    BY <2>1, <2>3 DEF IsWalk
  <2>5. IsWalk(g, q)
    <3> SUFFICES ASSUME NEW n \in 1 .. Len(q) - 1 PROVE q[n + 1] \in Succ(g, q[n])
      BY DEF IsWalk
    <3>1. n + 1 \in 1 .. Len(p) - 1 /\ n \in 1 .. Len(q) /\ n + 1 \in 1 .. Len(q)
      BY <2>1, <2>3
    <3>2. p[n + 1 + 1] \in Succ(g, p[n + 1])
      BY <2>1, <3>1 DEF IsWalk
    <3> QED BY <2>3, <3>1, <3>2
  <2>6. \A m, n \in 1 .. Len(q) : q[m] = q[n] => m = n
    <3>1. ASSUME NEW m \in 1 .. Len(q), NEW n \in 1 .. Len(q), m < n PROVE q[m] # q[n]
      <4>1. m + 1 \in 1 .. Len(p) /\ n + 1 \in 1 .. Len(p) /\ m + 1 < n + 1 /\ m + 1 # 1
        BY <2>1, <2>3, <3>1
      <4>2. p[m + 1] # p[n + 1]
        BY <2>1, <4>1 DEF IsSimple
      <4> QED BY <2>3, <4>2
    <3>2. \A m, n \in 1 .. Len(q) : m < n \/ n < m \/ m = n
      BY <2>1, <2>3
    <3> QED BY <3>1, <3>2
  <2>7. \A n \in 1 .. Len(q) - 1 : q[n] \notin L
    <3> TAKE n \in 1 .. Len(q) - 1
    <3>1. n + 1 \in 1 .. Len(p) - 1 /\ n \in 1 .. Len(q) /\ 1 \in 1 .. Len(p)
          /\ n + 1 \in 1 .. Len(p) /\ 1 < n + 1 /\ n + 1 # Len(p)
      BY <2>1, <2>3
    <3>2. p[n + 1] # p[1]
      BY <2>1, <3>1 DEF IsSimple
    <3> QED BY <2>1, <2>3, <3>1, <3>2
  <2>8. q \in SearchPaths(g, L, q[1], dst)
    BY <2>3, <2>4, <2>5, <2>6, <2>7 DEF SearchPaths, IsPath
  <2>9. q \in Q
    BY <2>4, <2>8 DEF PathsFrom
  <2> QED BY <2>3, <2>9
<1>2. ASSUME NEW t \in Succ(g, src), NEW q \in SearchPaths(g, L, t, dst)
      PROVE  <<src>> \o q \in StepPaths(g, K, src, dst)
  <2>1. /\ q \in Seq(Blocks) /\ Len(q) >= 1 /\ q[1] = t /\ q[Len(q)] = dst
        /\ IsWalk(g, q) /\ Len(q) \in Nat
        /\ \A m, n \in 1 .. Len(q) : q[m] = q[n] => m = n
        /\ \A n \in 1 .. Len(q) - 1 : q[n] \notin L
    BY DEF SearchPaths, IsPath
  <2>2. PICK p : p = <<src>> \o q
    OBVIOUS
  <2>3. /\ p \in Seq(Blocks) /\ Len(p) = Len(q) + 1 /\ p[1] = src
        /\ \A n \in 1 .. Len(q) : p[n + 1] = q[n]
    BY <2>1, <2>2
  <2>4. \A n \in 1 .. Len(p) : n # 1 => \E m \in 1 .. Len(q) : n = m + 1
    <3> TAKE n \in 1 .. Len(p)
    <3>1. n # 1 => n - 1 \in 1 .. Len(q) /\ n = n - 1 + 1
      BY <2>1, <2>3
    <3> QED BY <3>1
  <2>5. p[Len(p)] = dst /\ Len(p) >= 2
    BY <2>1, <2>3
  <2>6. IsWalk(g, p)
    <3> SUFFICES ASSUME NEW n \in 1 .. Len(p) - 1 PROVE p[n + 1] \in Succ(g, p[n])
      BY DEF IsWalk
    <3>1. CASE n = 1
      BY <2>1, <2>3, <3>1
    <3>2. CASE n # 1
      <4>1. PICK m \in 1 .. Len(q) - 1 : n = m + 1
        <5>1. n - 1 \in 1 .. Len(q) - 1 /\ n = n - 1 + 1
          BY <2>1, <2>3, <3>2
        <5> QED BY <5>1
      <4>2. m + 1 \in 1 .. Len(q) /\ m \in 1 .. Len(q)
        BY <2>1
      <4>3. p[m + 1] = q[m] /\ p[m + 1 + 1] = q[m + 1] /\ q[m + 1] \in Succ(g, q[m])
        BY <2>1, <2>3, <4>2 DEF IsWalk
      <4> QED BY <4>1, <4>3
    <3> QED BY <3>1, <3>2
  <2>7. \A n \in 1 .. Len(p) - 1 : p[n] \notin K
    <3> TAKE n \in 1 .. Len(p) - 1
    <3>1. CASE n = 1
      BY <2>3, <3>1
    <3>2. CASE n # 1
      <4>1. n - 1 \in 1 .. Len(q) - 1 /\ n - 1 \in 1 .. Len(q) /\ n = n - 1 + 1
        BY <2>1, <2>3, <3>2
      <4>2. p[n] = q[n - 1]
        BY <2>3, <4>1
      <4> QED BY <2>1, <4>1, <4>2
    <3> QED BY <3>1, <3>2
  <2>8. IsSimple(p)
    <3> SUFFICES ASSUME NEW m \in 1 .. Len(p), NEW n \in 1 .. Len(p), m < n, p[m] = p[n]
                 PROVE  m = 1 /\ n = Len(p)
      BY DEF IsSimple
    <3>1. n - 1 \in 1 .. Len(q) /\ n = n - 1 + 1 /\ p[n] = q[n - 1]
      <4>1. n - 1 \in 1 .. Len(q) /\ n = n - 1 + 1
        BY <2>1, <2>3
      <4> QED BY <2>3, <4>1
    <3>2. CASE m = 1
      <4>1. q[n - 1] = src
        BY <2>3, <3>1, <3>2
      <4>2. n - 1 \notin 1 .. Len(q) - 1
        BY <2>1, <4>1
      <4> QED BY <2>1, <2>3, <3>1, <3>2, <4>2
    <3>3. CASE m # 1
      <4>1. m - 1 \in 1 .. Len(q) /\ m = m - 1 + 1
        BY <2>1, <2>3, <3>3
      <4>2. p[m] = q[m - 1]
        BY <2>3, <4>1
      <4>3. m - 1 = n - 1
        BY <2>1, <3>1, <4>1, <4>2
      <4> QED BY <3>1, <4>1, <4>3
    <3> QED BY <3>2, <3>3
  <2> QED BY <2>2, <2>3, <2>5, <2>6, <2>7, <2>8 DEF StepPaths, StartsPath
<1>3. \A q \in Q : \E t \in Succ(g, src) : q \in SearchPaths(g, L, t, dst)
  BY DEF PathsFrom
<1> HIDE DEF Q
<1>4. \A q \in Q : <<src>> \o q \in StepPaths(g, K, src, dst)
  BY <1>2, <1>3
<1>5. StepPaths(g, K, src, dst) = {<<src>> \o q : q \in Q}
  BY <1>1, <1>4
<1> QED BY <1>5 DEF Q, Behind

LEMMA NoStepFromGrey ==
  ASSUME NEW g \in Graphs, NEW K, NEW src \in K, NEW dst
  PROVE  StepPaths(g, K, src, dst) = {}
<1> SUFFICES ASSUME NEW p \in StepPaths(g, K, src, dst) PROVE FALSE
  OBVIOUS
<1>1. p[1] \in K /\ Len(p) >= 2 /\ Len(p) \in Nat /\ \A n \in 1 .. Len(p) - 1 : p[n] \notin K
  BY DEF StepPaths, StartsPath
<1> QED BY <1>1

-----------------------------------------------------------------------------
(* What the search returns, by the number of blocks left to search.        *)
Right(F, g, dst, c) ==
  /\ Canonical(F[c].entries)
  /\ PathsIn(F[c]) = SearchPaths(g, c.grey, c.src, dst)

RightBelow(F, g, dst, c) ==
  \A d \in Calls :
    Left(d.grey) < Left(c.grey) /\ Canonical(d.entries) => Right(F, g, dst, d)

LEMMA StepRight ==
  ASSUME NEW g \in Graphs, NEW dst \in Blocks, NEW F \in GoodSearches,
         NEW c \in Calls, Canonical(c.entries), RightBelow(F, g, dst, c)
  PROVE  /\ Canonical(Step(F, g, c).entries)
         /\ PathsIn(Step(F, g, c)) = StepPaths(g, c.grey, c.src, dst)
<1>1. c.entries \in Interned /\ c.grey \in SUBSET Blocks /\ c.src \in Blocks
  BY DEF Calls
<1>2. CASE c.src \in c.grey
  <2> DEFINE r == [entries |-> c.entries, grey |-> c.grey, ids |-> <<>>]
  <2>1. Step(F, g, c) = r
    BY <1>2 DEF Step
  <2>2. r.entries = c.entries /\ Len(r.ids) = 0
    OBVIOUS
  <2>3. PathsIn(r) = {}
    <3> HIDE DEF r
    <3> QED BY <2>2 DEF PathsIn
  <2> QED BY <1>1, <1>2, <2>1, <2>2, <2>3, NoStepFromGrey
<1>3. CASE c.src \notin c.grey
  <2> DEFINE S == Succ(g, c.src)
             K == c.grey \cup {c.src}
  <2>1. PICK h \in [SUBSET Succ(g, c.src) -> Below(c)] :
          /\ h[{}] = BaseOf(c)
          /\ \A U \in SUBSET Succ(g, c.src) :
               U # {} => h[U] = Combined(F, Pick(U), h[Rest(U)])
          /\ \A G : AgreeBelow(G, F, c) => SearchFrom(G, g, c) = h[Succ(g, c.src)]
    BY <1>3, SearchFromFolds
  <2>2. SearchFrom(F, g, c) = h[S]
    BY <2>1 DEF AgreeBelow
  <2>3. S \in SUBSET Blocks /\ IsFiniteSet(S)
    BY <1>1, SuccFinite
  <2> DEFINE P == {U \in SUBSET S : /\ Canonical(h[U].entries)
                                    /\ PathsIn(h[U]) = PathsFrom(g, K, U, dst)}
  <2>4. {} \in P
    <3>1. h[{}].entries = c.entries /\ Len(h[{}].ids) = 0
      BY <2>1 DEF BaseOf
    <3>2. PathsIn(h[{}]) = {}
      BY <3>1 DEF PathsIn
    <3> QED BY <3>1, <3>2, PathsFromMore
  <2>5. ASSUME NEW U \in SUBSET S, U # {}, Rest(U) \in P PROVE U \in P
    <3> DEFINE s == Pick(U)
               acc == h[Rest(U)]
               d == CallOf(acc, s)
    <3>1. s \in U /\ s \in Blocks /\ U = Rest(U) \cup {s} /\ Rest(U) \in SUBSET S
      BY <2>3, <2>5, PickIsIn DEF Rest
    <3>2. acc \in Below(c)
      BY <2>1, <3>1
    <3>3. h[U] = Combined(F, s, acc)
      BY <2>1, <2>5
    <3>4. Canonical(acc.entries) /\ PathsIn(acc) = PathsFrom(g, K, Rest(U), dst)
      BY <2>5
    <3>5. d.entries = acc.entries /\ d.grey = acc.grey /\ d.src = s
      BY DEF CallOf
    <3> HIDE DEF s, acc, d
    <3>6. /\ d \in Calls /\ Left(d.grey) < Left(c.grey)
          /\ PathsIn(Combined(F, s, acc)) = PathsIn(acc) \cup PathsIn(F[d])
          /\ Combined(F, s, acc).entries = F[d].entries
      BY <1>3, <3>1, <3>2, BelowType DEF d
    <3>7. acc.grey = K
      BY <3>2 DEF Below
    <3>8. Canonical(F[d].entries) /\ PathsIn(F[d]) = SearchPaths(g, K, s, dst)
      BY <3>4, <3>5, <3>6, <3>7 DEF RightBelow, Right
    <3> HIDE DEF K
    <3>9. PathsFrom(g, K, U, dst) = PathsFrom(g, K, Rest(U), dst) \cup SearchPaths(g, K, s, dst)
      <4>1. PICK V : V = Rest(U)
        OBVIOUS
      <4>2. PathsFrom(g, K, V \cup {s}, dst)
              = PathsFrom(g, K, V, dst) \cup SearchPaths(g, K, s, dst)
        BY DEF PathsFrom
      <4>3. U = V \cup {s}
        BY <3>1, <4>1
      <4> QED BY <4>1, <4>2, <4>3
    <3>10. PathsIn(h[U]) = PathsFrom(g, K, U, dst)
      BY <3>3, <3>4, <3>6, <3>8, <3>9
    <3> QED BY <3>3, <3>6, <3>8, <3>10
  <2>6. P = SUBSET S
    <3>1. P \in SUBSET (SUBSET S)
      OBVIOUS
    <3> HIDE DEF P, S
    <3> QED BY <2>3, <2>4, <2>5, <3>1, RestInduction
  <2> DEFINE Q == PathsFrom(g, K, S, dst)
  <2>7. Canonical(h[S].entries) /\ PathsIn(h[S]) = Q
    <3>1. S \in P
      BY <2>6
    <3> QED BY <3>1
  <2>8. PICK b : b = h[S]
    OBVIOUS
  <2>9. b \in Founds
    BY <2>1, <2>8 DEF Below
  <2>10. PICK r : r = Prefixed(c.src, b)
    OBVIOUS
  <2> HIDE DEF Q
  <2>11. r \in Founds /\ PathsIn(r) = {<<c.src>> \o p : p \in Q} /\ Canonical(r.entries)
    BY <1>1, <2>7, <2>8, <2>9, <2>10, PrefixedType
  <2>12. Step(F, g, c) = [r EXCEPT !.grey = @ \ {c.src}]
    BY <1>3, <2>2, <2>8, <2>10 DEF Step
  <2>13. Step(F, g, c).entries = r.entries /\ Step(F, g, c).ids = r.ids
    BY <2>11, <2>12 DEF Founds
  <2>14. PathsIn(Step(F, g, c)) = PathsIn(r)
    BY <2>13 DEF PathsIn
  <2>15. StepPaths(g, c.grey, c.src, dst) = {<<c.src>> \o p : p \in Q}
    <3>1. StepPaths(g, c.grey, c.src, dst) = Behind(c.src, Q)
      BY <1>1, <1>3, StepUnfolds DEF Q
    <3> QED BY <3>1 DEF Behind
  <2> QED BY <2>11, <2>13, <2>14, <2>15
<1> QED BY <1>2, <1>3

LEMMA SearchRight ==
  ASSUME NEW g \in Graphs, NEW dst \in Blocks, NEW F \in GoodSearches,
         \A c \in Calls : F[c] = SearchBody(F, g, dst, c)
  PROVE  \A c \in Calls : Canonical(c.entries) => Right(F, g, dst, c)
<1> DEFINE Wrong == {c \in Calls : Canonical(c.entries) /\ ~ Right(F, g, dst, c)}
<1> SUFFICES ASSUME Wrong # {} PROVE FALSE
  OBVIOUS
<1>1. \A c \in Calls : Left(c.grey) \in Nat
  BY LeftShrinks DEF Calls
<1> DEFINE R == {Left(c.grey) : c \in Wrong}
<1>2. PICK n \in R : \A m \in R : n <= m
  <2>1. R \in SUBSET Nat /\ R # {}
    BY <1>1
  <2> HIDE DEF R
  <2> QED BY <2>1, LeastNatural
<1>3. PICK c \in Wrong : n = Left(c.grey)
  OBVIOUS
<1>4. c \in Calls /\ Canonical(c.entries) /\ ~ Right(F, g, dst, c)
  BY <1>3
<1>5. c.entries \in Interned /\ c.grey \in SUBSET Blocks /\ c.src \in Blocks
  BY <1>4 DEF Calls
<1>6. RightBelow(F, g, dst, c)
  <2> SUFFICES ASSUME NEW d \in Calls, Left(d.grey) < Left(c.grey), Canonical(d.entries),
                      ~ Right(F, g, dst, d)
               PROVE  FALSE
    BY DEF RightBelow
  <2>1. Left(d.grey) \in R
    OBVIOUS
  <2>2. n <= Left(d.grey)
    BY <1>2, <2>1
  <2> HIDE DEF R, Wrong
  <2> QED BY <1>1, <1>3, <1>4, <2>2
<1> HIDE DEF R, Wrong
<1>7. F[c] = SearchBody(F, g, dst, c)
  BY <1>4
<1>8. CASE c.src = dst
  <2>1. PICK added : added = AddToPath(c.entries, dst, kEmptyPath)
    OBVIOUS
  <2>2. F[c] = [entries |-> added.entries, grey |-> c.grey, ids |-> <<added.id>>]
    BY <1>7, <1>8, <2>1 DEF SearchBody
  <2>3. kEmptyPath \in 0 .. Len(c.entries)
    BY <1>5, InternedType DEF kEmptyPath
  <2>4. /\ Canonical(added.entries)
        /\ ExtractPath(added.entries, added.id) = <<dst>> \o ExtractPath(c.entries, kEmptyPath)
    BY <1>4, <1>5, <2>1, <2>3, AddToPathType
  <2>5. ExtractPath(added.entries, added.id) = <<dst>>
    <3>1. ExtractPath(c.entries, kEmptyPath) = <<>>
      BY <1>5, PathUnfolds DEF kEmptyPath
    <3> QED BY <2>4, <3>1
  <2>6. F[c].entries = added.entries /\ Len(F[c].ids) = 1 /\ F[c].ids[1] = added.id
    BY <2>2
  <2>7. PathsIn(F[c]) = {<<dst>>}
    BY <2>5, <2>6 DEF PathsIn
  <2>8. SearchPaths(g, c.grey, c.src, dst) = {<<dst>>}
    BY <1>8, PathsFromDst
  <2> QED BY <1>4, <2>4, <2>6, <2>7, <2>8 DEF Right
<1>9. CASE c.src # dst
  <2>1. F[c] = Step(F, g, c)
    BY <1>7, <1>9 DEF SearchBody
  <2>2. /\ Canonical(F[c].entries)
        /\ PathsIn(F[c]) = StepPaths(g, c.grey, c.src, dst)
    BY <1>4, <1>6, <2>1, StepRight
  <2>3. SearchPaths(g, c.grey, c.src, dst) = StepPaths(g, c.grey, c.src, dst)
    BY <1>5, <1>9, StepIsPath
  <2> QED BY <1>4, <2>2, <2>3 DEF Right
<1> QED BY <1>8, <1>9

(* findAllSimplePaths returns the simple paths that avoid the grey blocks, *)
(* for every graph and whatever is interned, interns canonically, and      *)
(* leaves the grey blocks as they were.                                    *)
THEOREM SearchFindsPaths ==
  ASSUME NEW g \in Graphs, NEW dst \in Blocks, NEW c \in Calls, Canonical(c.entries)
  PROVE  LET r == Step(Searches(g, dst), g, c) IN
         /\ Canonical(r.entries)
         /\ {ExtractPath(r.entries, r.ids[n]) : n \in 1 .. Len(r.ids)}
              = FindAllSimplePaths(g, c.grey, c.src, dst)
         /\ r.grey = c.grey
<1>1. PICK F : F = Searches(g, dst)
  OBVIOUS
<1>2. F \in GoodSearches /\ \A d \in Calls : F[d] = SearchBody(F, g, dst, d)
  BY <1>1, SearchesIs
<1>3. RightBelow(F, g, dst, c)
  BY <1>2, SearchRight DEF RightBelow
<1>4. Canonical(Step(F, g, c).entries)
      /\ PathsIn(Step(F, g, c)) = StepPaths(g, c.grey, c.src, dst)
  BY <1>2, <1>3, StepRight
<1>5. FindAllSimplePaths(g, c.grey, c.src, dst) = StepPaths(g, c.grey, c.src, dst)
  BY FindIsStep DEF Calls
<1>6. Step(F, g, c).grey = c.grey
  BY <1>2, StepType DEF Fits
<1> QED BY <1>1, <1>4, <1>5, <1>6 DEF PathsIn

-----------------------------------------------------------------------------
(* Whatever was asked, in whatever order, ids stay canonical.              *)
SearchInv == func \in Graphs /\ Canonical(entries)

LEMMA EmptyIsCanonical == Canonical(<<>>)
<1>1. <<>> \in Interned /\ Len(<<>>) = 0
  BY DEF Interned
<1> QED BY <1>1 DEF Canonical

LEMMA SearchStep ==
  ASSUME SearchInv, [Next]_vars
  PROVE  SearchInv' /\ (PathsFound => PathsFound')
<1>1. ASSUME NEW site \in Blocks \cup {Outside}, NEW src \in Blocks, NEW dst \in Blocks,
             FindPaths(site, src, dst)
      PROVE  SearchInv' /\ PathsFound'
  <2>1. PICK c : c = [entries |-> entries, grey |-> {site} \ {Outside}, src |-> src]
    OBVIOUS
  <2>2. c \in Calls /\ Canonical(c.entries) /\ c.grey = {site} \ {Outside} /\ c.src = src
    BY <2>1 DEF SearchInv, Canonical, Calls
  <2>3. PICK r : r = Step(Searches(func, dst), func, c)
    OBVIOUS
  <2>4. /\ entries' = r.entries /\ func' = func
        /\ answer' = [kind |-> "paths", site |-> site, src |-> src, dst |-> dst,
                      ids |-> r.ids]
    BY <1>1, <2>1, <2>3 DEF FindPaths
  <2>5. /\ Canonical(r.entries)
        /\ {ExtractPath(r.entries, r.ids[n]) : n \in 1 .. Len(r.ids)}
             = FindAllSimplePaths(func, {site} \ {Outside}, src, dst)
    <3>1. func \in Graphs
      BY DEF SearchInv
    <3>2. /\ Canonical(r.entries)
          /\ {ExtractPath(r.entries, r.ids[n]) : n \in 1 .. Len(r.ids)}
               = FindAllSimplePaths(func, c.grey, c.src, dst)
      <4>1. LET q == Step(Searches(func, dst), func, c) IN
            /\ Canonical(q.entries)
            /\ {ExtractPath(q.entries, q.ids[n]) : n \in 1 .. Len(q.ids)}
                 = FindAllSimplePaths(func, c.grey, c.src, dst)
        BY <2>2, <3>1, SearchFindsPaths
      <4> QED BY <2>3, <4>1
    <3> QED BY <2>2, <3>2
  <2>6. SearchInv'
    BY <2>4, <2>5 DEF SearchInv
  <2>7. PathsFound'
    <3>1. /\ answer'.site = site /\ answer'.src = src /\ answer'.dst = dst
          /\ answer'.ids = r.ids
      BY <2>4
    <3> QED BY <2>4, <2>5, <3>1 DEF PathsFound
  <2> QED BY <2>6, <2>7
<1>2. ASSUME NEW site \in Blocks \cup {Outside}, FindSCCsCached(site)
      PROVE  SearchInv' /\ PathsFound'
  <2>1. entries' = entries /\ func' = func /\ answer'.kind = "sccs"
    BY <1>2 DEF FindSCCsCached
  <2> QED BY <2>1 DEF SearchInv, PathsFound
<1>3. ASSUME UNCHANGED vars PROVE SearchInv' /\ (PathsFound => PathsFound')
  BY <1>3 DEF vars, SearchInv, PathsFound
<1> QED BY <1>1, <1>2, <1>3 DEF Next

(* Every search returns the simple paths that avoid the bind site, all of  *)
(* them and only those, whatever has been interned before.                 *)
THEOREM PathsAreFound == Spec => []PathsFound
<1>1. Init => SearchInv /\ PathsFound
  BY EmptyIsCanonical DEF Init, SearchInv, PathsFound
<1>2. (SearchInv /\ PathsFound) /\ [Next]_vars => (SearchInv /\ PathsFound)'
  BY SearchStep
<1> QED BY <1>1, <1>2, PTL DEF Spec

(* addToPath interns a path once, whatever is searched: ids may be         *)
(* compared instead of paths, and the last block kept with an id is the    *)
(* last of its path.                                                       *)
THEOREM IdsAreCanonical == Spec => []IdsCanonical
<1>1. Init => SearchInv
  BY EmptyIsCanonical DEF Init, SearchInv
<1>2. SearchInv /\ [Next]_vars => SearchInv'
  BY SearchStep
<1>3. SearchInv => IdsCanonical
  BY CanonicalPaths DEF SearchInv, IdsCanonical
<1> QED BY <1>1, <1>2, <1>3, PTL DEF Spec

-----------------------------------------------------------------------------
(* What can be reached from S along arcs, or against them if back, without *)
(* the blocks of K: the least set with S that is closed.                   *)
Arcs(g, back, b) == IF back THEN Pred(g, b) ELSE Succ(g, b)

Closed(g, back, K, C) == \A y \in C : \A z \in Arcs(g, back, y) : z \in K \/ z \in C

Reached(g, back, K, S) ==
  {x \in Blocks : \A C \in SUBSET Blocks :
     S \ K \subseteq C /\ Closed(g, back, K, C) => x \in C}

LEMMA ArcsType ==
  ASSUME NEW g \in Graphs, NEW back \in BOOLEAN, NEW b \in Blocks
  PROVE  /\ Arcs(g, back, b) \in SUBSET Blocks
         /\ \A c \in Blocks : c \in Arcs(g, back, b) <=> b \in Arcs(g, ~back, c)
<1>1. Arcs(g, back, b) \in SUBSET Blocks
  BY SuccFinite DEF Arcs
<1>2. \A a, c \in Blocks : c \in Pred(g, a) <=> a \in Succ(g, c)
  BY GraphsAssumption DEF Pred, Succ
<1>3. \A c \in Blocks : c \in Arcs(g, back, b) <=> b \in Arcs(g, ~back, c)
  <2>1. CASE back = TRUE
    BY <1>2, <2>1 DEF Arcs
  <2>2. CASE back = FALSE
    BY <1>2, <2>2 DEF Arcs
  <2> QED BY <2>1, <2>2
<1> QED BY <1>1, <1>3

LEMMA ReachedIsLeast ==
  ASSUME NEW g \in Graphs, NEW back \in BOOLEAN, NEW K \in SUBSET Blocks, NEW S \in SUBSET Blocks
  PROVE  /\ Reached(g, back, K, S) \in SUBSET Blocks
         /\ S \ K \subseteq Reached(g, back, K, S)
         /\ Closed(g, back, K, Reached(g, back, K, S))
         /\ Reached(g, back, K, S) \cap K = {}
         /\ \A C \in SUBSET Blocks :
              S \ K \subseteq C /\ Closed(g, back, K, C) => Reached(g, back, K, S) \subseteq C
<1> DEFINE R == Reached(g, back, K, S)
<1>1. R \in SUBSET Blocks /\ S \ K \subseteq R
  BY DEF Reached
<1>2. \A C \in SUBSET Blocks : S \ K \subseteq C /\ Closed(g, back, K, C) => R \subseteq C
  BY DEF Reached
<1>3. Closed(g, back, K, R)
  <2> SUFFICES ASSUME NEW y \in R, NEW z \in Arcs(g, back, y), z \notin K PROVE z \in R
    BY DEF Closed
  <2>1. y \in Blocks /\ z \in Blocks
    BY <1>1, ArcsType
  <2> SUFFICES ASSUME NEW C \in SUBSET Blocks, S \ K \subseteq C, Closed(g, back, K, C)
               PROVE  z \in C
    BY <2>1 DEF Reached
  <2>2. y \in C
    BY <1>2
  <2> QED BY <2>2 DEF Closed
<1>4. R \cap K = {}
  <2> DEFINE C == Blocks \ K
  <2>1. Closed(g, back, K, C)
    BY ArcsType DEF Closed
  <2>2. R \subseteq C
    BY <1>2, <2>1
  <2> QED BY <2>2
<1> QED BY <1>1, <1>2, <1>3, <1>4

IsJoin(U, S, T) == \A x : x \in U <=> x \in S \/ x \in T

LEMMA ReachedMore ==
  ASSUME NEW g \in Graphs, NEW back \in BOOLEAN, NEW K \in SUBSET Blocks,
         NEW S \in SUBSET Blocks, NEW T \in SUBSET Blocks,
         NEW U \in SUBSET Blocks, IsJoin(U, S, T),
         NEW L \in SUBSET Blocks, IsJoin(L, K, Reached(g, back, K, S))
  PROVE  Reached(g, back, K, U) = Reached(g, back, K, S) \cup Reached(g, back, L, T)
<1>1. PICK A : A = Reached(g, back, K, S)
  OBVIOUS
<1>2. /\ A \in SUBSET Blocks /\ S \ K \subseteq A /\ Closed(g, back, K, A)
      /\ \A C \in SUBSET Blocks : S \ K \subseteq C /\ Closed(g, back, K, C) => A \subseteq C
  BY <1>1, ReachedIsLeast
<1>3. L = K \cup A /\ U = S \cup T
  BY <1>1 DEF IsJoin
<1>4. L \in SUBSET Blocks
  OBVIOUS
<1>5. PICK B : B = Reached(g, back, L, T)
  OBVIOUS
<1>6. /\ B \in SUBSET Blocks /\ T \ L \subseteq B /\ Closed(g, back, L, B)
      /\ \A C \in SUBSET Blocks : T \ L \subseteq C /\ Closed(g, back, L, C) => B \subseteq C
  BY <1>4, <1>5, ReachedIsLeast
<1>7. PICK W : W = Reached(g, back, K, U)
  OBVIOUS
<1>8. /\ W \in SUBSET Blocks /\ (S \cup T) \ K \subseteq W /\ Closed(g, back, K, W)
      /\ \A C \in SUBSET Blocks : (S \cup T) \ K \subseteq C /\ Closed(g, back, K, C) => W \subseteq C
  <2>1. /\ W \in SUBSET Blocks /\ U \ K \subseteq W /\ Closed(g, back, K, W)
        /\ \A C \in SUBSET Blocks : U \ K \subseteq C /\ Closed(g, back, K, C) => W \subseteq C
    BY <1>7, ReachedIsLeast
  <2> QED BY <1>3, <2>1
<1>9. A \subseteq W
  BY <1>2, <1>8
<1>10. B \subseteq W
  <2>1. Closed(g, back, L, W)
    BY <1>3, <1>8 DEF Closed
  <2>2. T \ L \subseteq W
    BY <1>3, <1>8
  <2> QED BY <1>6, <1>8, <2>1, <2>2
<1>11. W \subseteq A \cup B
  <2>1. Closed(g, back, K, A \cup B)
    BY <1>2, <1>3, <1>6 DEF Closed
  <2>2. (S \cup T) \ K \subseteq A \cup B
    BY <1>2, <1>3, <1>6
  <2> QED BY <1>2, <1>6, <1>8, <2>1, <2>2
<1> QED BY <1>1, <1>3, <1>5, <1>7, <1>9, <1>10, <1>11

LEMMA ReachedThrough ==
  ASSUME NEW g \in Graphs, NEW back \in BOOLEAN, NEW K \in SUBSET Blocks,
         NEW b \in Blocks, b \notin K
  PROVE  Reached(g, back, K, {b}) = {b} \cup Reached(g, back, K \cup {b}, Arcs(g, back, b))
<1>1. PICK L : L = K \cup {b}
  OBVIOUS
<1>2. PICK T : T = Arcs(g, back, b)
  OBVIOUS
<1>3. L \in SUBSET Blocks /\ T \in SUBSET Blocks
  BY <1>1, <1>2, ArcsType
<1>4. PICK B : B = Reached(g, back, L, T)
  OBVIOUS
<1>5. /\ B \in SUBSET Blocks /\ T \ L \subseteq B /\ Closed(g, back, L, B)
      /\ \A C \in SUBSET Blocks : T \ L \subseteq C /\ Closed(g, back, L, C) => B \subseteq C
  BY <1>3, <1>4, ReachedIsLeast
<1>6. PICK U : U = Reached(g, back, K, {b})
  OBVIOUS
<1>7. /\ U \in SUBSET Blocks /\ {b} \ K \subseteq U /\ Closed(g, back, K, U)
      /\ \A C \in SUBSET Blocks : {b} \ K \subseteq C /\ Closed(g, back, K, C) => U \subseteq C
  BY <1>6, ReachedIsLeast
<1>8. b \in U
  BY <1>7
<1>9. B \subseteq U
  <2>1. Closed(g, back, L, U)
    BY <1>1, <1>7 DEF Closed
  <2>2. T \ L \subseteq U
    BY <1>1, <1>2, <1>7, <1>8 DEF Closed
  <2> QED BY <1>5, <1>7, <2>1, <2>2
<1>10. U \subseteq {b} \cup B
  <2>1. Closed(g, back, K, {b} \cup B)
    <3> SUFFICES ASSUME NEW y \in {b} \cup B, NEW z \in Arcs(g, back, y), z \notin K
                 PROVE  z \in {b} \cup B
      BY DEF Closed
    <3>1. CASE y = b
      BY <1>1, <1>2, <1>5, <3>1
    <3>2. CASE y \in B
      BY <1>1, <1>5, <3>2 DEF Closed
    <3> QED BY <3>1, <3>2
  <2> QED BY <1>5, <1>7, <2>1
<1> QED BY <1>1, <1>2, <1>4, <1>6, <1>8, <1>9, <1>10

LEMMA ReachedShrinks ==
  ASSUME NEW g \in Graphs, NEW back \in BOOLEAN, NEW K \in SUBSET Blocks,
         NEW L \in SUBSET Blocks, K \subseteq L, NEW S \in SUBSET Blocks
  PROVE  /\ Reached(g, back, L, S) \subseteq Reached(g, back, K, S)
         /\ Reached(g, back, K, S) \cap L \subseteq K
              => Reached(g, back, L, S) = Reached(g, back, K, S)
<1>1. PICK A : A = Reached(g, back, K, S)
  OBVIOUS
<1>2. /\ A \in SUBSET Blocks /\ S \ K \subseteq A /\ Closed(g, back, K, A) /\ A \cap K = {}
      /\ \A C \in SUBSET Blocks : S \ K \subseteq C /\ Closed(g, back, K, C) => A \subseteq C
  BY <1>1, ReachedIsLeast
<1>3. PICK B : B = Reached(g, back, L, S)
  OBVIOUS
<1>4. /\ B \in SUBSET Blocks /\ S \ L \subseteq B /\ Closed(g, back, L, B)
      /\ \A C \in SUBSET Blocks : S \ L \subseteq C /\ Closed(g, back, L, C) => B \subseteq C
  BY <1>3, ReachedIsLeast
<1>5. B \subseteq A
  <2>1. Closed(g, back, L, A)
    BY <1>2 DEF Closed
  <2> QED BY <1>2, <1>4, <2>1
<1>6. ASSUME A \cap L \subseteq K PROVE A \subseteq B
  <2>1. \A z \in A : z \notin L
    BY <1>2, <1>6
  <2>2. S \ K \subseteq B
    BY <1>2, <1>4, <2>1
  <2>3. Closed(g, back, K, B)
    <3> SUFFICES ASSUME NEW y \in B, NEW z \in Arcs(g, back, y), z \notin K PROVE z \in B
      BY DEF Closed
    <3>1. z \in A
      BY <1>2, <1>5 DEF Closed
    <3> QED BY <1>4, <2>1, <3>1 DEF Closed
  <2> QED BY <1>2, <1>4, <2>2, <2>3
<1> QED BY <1>1, <1>3, <1>5, <1>6

(* v can be reached from u, and each from the other. *)
Leads(g, back, K, u, v) == v \in Reached(g, back, K, {u})
Both(g, back, K, u, v) == Leads(g, back, K, u, v) /\ Leads(g, back, K, v, u)

LEMMA LeadsOnward ==
  ASSUME NEW g \in Graphs, NEW back \in BOOLEAN, NEW K \in SUBSET Blocks,
         NEW S \in SUBSET Blocks, NEW v \in Reached(g, back, K, S)
  PROVE  Reached(g, back, K, {v}) \subseteq Reached(g, back, K, S)
<1>1. /\ Reached(g, back, K, S) \in SUBSET Blocks
      /\ Closed(g, back, K, Reached(g, back, K, S))
  BY ReachedIsLeast
<1>2. PICK R : R = Reached(g, back, K, S)
  OBVIOUS
<1>3. {v} \in SUBSET Blocks /\ {v} \ K \subseteq R /\ R \in SUBSET Blocks /\ Closed(g, back, K, R)
  BY <1>1, <1>2
<1>4. Reached(g, back, K, {v}) \subseteq R
  BY <1>3, ReachedIsLeast
<1> QED BY <1>2, <1>4

LEMMA LeadsType ==
  ASSUME NEW g \in Graphs, NEW back \in BOOLEAN, NEW K \in SUBSET Blocks, NEW u \in Blocks
  PROVE  /\ \A v : Leads(g, back, K, u, v) => v \in Blocks /\ v \notin K
         /\ u \notin K => Leads(g, back, K, u, u)
         /\ \A v, w \in Blocks :
              Leads(g, back, K, u, v) /\ Leads(g, back, K, v, w) => Leads(g, back, K, u, w)
<1>1. {u} \in SUBSET Blocks
  OBVIOUS
<1>2. /\ Reached(g, back, K, {u}) \in SUBSET Blocks /\ {u} \ K \subseteq Reached(g, back, K, {u})
      /\ Reached(g, back, K, {u}) \cap K = {}
  BY <1>1, ReachedIsLeast
<1>3. ASSUME NEW v \in Blocks, NEW w \in Blocks,
             Leads(g, back, K, u, v), Leads(g, back, K, v, w)
      PROVE  Leads(g, back, K, u, w)
  <2>1. v \in Reached(g, back, K, {u}) /\ w \in Reached(g, back, K, {v})
    BY <1>3 DEF Leads
  <2>2. Reached(g, back, K, {v}) \subseteq Reached(g, back, K, {u})
    BY <1>1, <2>1, LeadsOnward
  <2> QED BY <2>1, <2>2 DEF Leads
<1>4. \A v : Leads(g, back, K, u, v) => v \in Blocks /\ v \notin K
  BY <1>2 DEF Leads
<1>5. u \notin K => Leads(g, back, K, u, u)
  BY <1>2 DEF Leads
<1> QED BY <1>3, <1>4, <1>5

(* Against the arcs, the other way round. *)
LEMMA LeadsBack ==
  ASSUME NEW g \in Graphs, NEW back \in BOOLEAN, NEW K \in SUBSET Blocks,
         NEW u \in Blocks, u \notin K, NEW v, Leads(g, back, K, u, v)
  PROVE  Leads(g, ~back, K, v, u)
<1> DEFINE C == {x \in Blocks \ K : Leads(g, ~back, K, x, u)}
<1>0. (~back) \in BOOLEAN
  OBVIOUS
<1>1. u \in C
  BY <1>0, LeadsType
<1>2. Closed(g, back, K, C)
  <2> SUFFICES ASSUME NEW y \in C, NEW z \in Arcs(g, back, y), z \notin K PROVE z \in C
    BY DEF Closed
  <2>1. y \in Blocks /\ y \notin K /\ z \in Blocks /\ Leads(g, ~back, K, y, u)
    BY ArcsType
  <2>2. y \in Arcs(g, ~back, z)
    BY <2>1, ArcsType
  <2>3. PICK forth \in BOOLEAN : forth = ~back
    OBVIOUS
  <2>4. y \in Reached(g, ~back, K, {z})
    <3>1. PICK S : S = {z}
      OBVIOUS
    <3>2. S \ K \subseteq Reached(g, forth, K, S) /\ Closed(g, forth, K, Reached(g, forth, K, S))
      <4>1. S \in SUBSET Blocks
        BY <2>1, <3>1
      <4> HIDE DEF C
      <4> QED BY <4>1, ReachedIsLeast
    <3>3. z \in Reached(g, forth, K, S) /\ y \in Arcs(g, forth, z)
      BY <2>2, <2>3, <3>1, <3>2
    <3>4. y \in Reached(g, forth, K, S)
      BY <2>1, <3>2, <3>3 DEF Closed
    <3> QED BY <2>3, <3>1, <3>4
  <2>5. Leads(g, ~back, K, z, u)
    BY <1>0, <2>1, <2>4, LeadsType DEF Leads
  <2> QED BY <2>1, <2>5
<1>3. Reached(g, back, K, {u}) \subseteq C
  <2>1. C \in SUBSET Blocks /\ {u} \ K \subseteq C /\ {u} \in SUBSET Blocks
    BY <1>1
  <2> HIDE DEF C
  <2> QED BY <1>2, <2>1, ReachedIsLeast
<1> QED BY <1>3 DEF Leads

-----------------------------------------------------------------------------
(* The order in which a search leaves the blocks: if one leads to another, *)
(* a block of its component is left after that one.                        *)
Sorted(g, back, K, es) ==
  \A i, j \in 1 .. Len(es) : Leads(g, back, K, es[i], es[j]) =>
    \E k \in 1 .. Len(es) : k >= j /\ Both(g, back, K, es[i], es[k])

InOrder(g, back, K, S, es) ==
  /\ es \in Seq(Blocks)
  /\ \A n \in 1 .. Len(es) : es[n] \in Reached(g, back, K, S)
  /\ \A x \in Reached(g, back, K, S) : \E n \in 1 .. Len(es) : es[n] = x
  /\ Sorted(g, back, K, es)

LEMMA ConcatAt ==
  ASSUME NEW es \in Seq(Blocks), NEW fs \in Seq(Blocks)
  PROVE  /\ es \o fs \in Seq(Blocks)
         /\ Len(es) \in Nat /\ Len(fs) \in Nat /\ Len(es \o fs) = Len(es) + Len(fs)
         /\ \A n \in 1 .. Len(es) : n \in 1 .. Len(es \o fs) /\ (es \o fs)[n] = es[n]
         /\ \A n \in 1 .. Len(fs) :
              Len(es) + n \in 1 .. Len(es \o fs) /\ (es \o fs)[Len(es) + n] = fs[n]
         /\ \A n \in 1 .. Len(es \o fs) :
              n \in 1 .. Len(es) \/ \E m \in 1 .. Len(fs) : n = Len(es) + m
<1>1. /\ es \o fs \in Seq(Blocks)
      /\ Len(es) \in Nat /\ Len(fs) \in Nat /\ Len(es \o fs) = Len(es) + Len(fs)
      /\ \A n \in 1 .. Len(es) : (es \o fs)[n] = es[n]
      /\ \A n \in 1 .. Len(fs) : (es \o fs)[Len(es) + n] = fs[n]
  OBVIOUS
<1>2. /\ \A n \in 1 .. Len(es) : n \in 1 .. Len(es \o fs)
      /\ \A n \in 1 .. Len(fs) : Len(es) + n \in 1 .. Len(es \o fs)
  BY <1>1
<1>3. ASSUME NEW n \in 1 .. Len(es \o fs), n \notin 1 .. Len(es)
      PROVE  \E m \in 1 .. Len(fs) : n = Len(es) + m
  <2>1. n - Len(es) \in 1 .. Len(fs) /\ n = Len(es) + (n - Len(es))
    BY <1>1, <1>3
  <2> QED BY <2>1
<1> QED BY <1>1, <1>2, <1>3

(* Another search after the first. *)
LEMMA OrderMore ==
  ASSUME NEW g \in Graphs, NEW back \in BOOLEAN, NEW K \in SUBSET Blocks,
         NEW S \in SUBSET Blocks, NEW T \in SUBSET Blocks, NEW es, NEW fs,
         InOrder(g, back, K, S, es),
         InOrder(g, back, K \cup Reached(g, back, K, S), T, fs)
  PROVE  InOrder(g, back, K, S \cup T, es \o fs)
<1>1. PICK A : A = Reached(g, back, K, S)
  OBVIOUS
<1>2. /\ A \in SUBSET Blocks /\ A \cap K = {}
  BY <1>1, ReachedIsLeast
<1>3. PICK L : L = K \cup A
  OBVIOUS
<1>4. L \in SUBSET Blocks /\ K \subseteq L
  BY <1>2, <1>3
<1>5. PICK B : B = Reached(g, back, L, T)
  OBVIOUS
<1>6. B \in SUBSET Blocks /\ B \cap L = {}
  BY <1>4, <1>5, ReachedIsLeast
<1>7. /\ es \in Seq(Blocks) /\ Sorted(g, back, K, es)
      /\ \A n \in 1 .. Len(es) : es[n] \in A
      /\ \A x \in A : \E n \in 1 .. Len(es) : es[n] = x
  BY <1>1 DEF InOrder
<1>8. /\ fs \in Seq(Blocks) /\ Sorted(g, back, L, fs)
      /\ \A n \in 1 .. Len(fs) : fs[n] \in B
      /\ \A x \in B : \E n \in 1 .. Len(fs) : fs[n] = x
  BY <1>1, <1>3, <1>5 DEF InOrder
<1>9. PICK hs : hs = es \o fs
  OBVIOUS
<1>10. PICK N : N = Len(es)
  OBVIOUS
<1>11. /\ hs \in Seq(Blocks)
       /\ N \in Nat /\ Len(fs) \in Nat /\ Len(hs) = N + Len(fs)
       /\ \A n \in 1 .. N : n \in 1 .. Len(hs) /\ hs[n] = es[n]
       /\ \A n \in 1 .. Len(fs) : N + n \in 1 .. Len(hs) /\ hs[N + n] = fs[n]
       /\ \A n \in 1 .. Len(hs) : n \in 1 .. N \/ \E m \in 1 .. Len(fs) : n = N + m
  BY <1>7, <1>8, <1>9, <1>10, ConcatAt
<1>12. Reached(g, back, K, S \cup T) = A \cup B
  <2>1. PICK U : U = S \cup T
    OBVIOUS
  <2>2. U \in SUBSET Blocks /\ IsJoin(U, S, T)
    BY <2>1 DEF IsJoin
  <2>3. IsJoin(L, K, Reached(g, back, K, S))
    BY <1>1, <1>3 DEF IsJoin
  <2>4. Reached(g, back, K, U) = A \cup B
    BY <1>1, <1>4, <1>5, <2>2, <2>3, ReachedMore
  <2> QED BY <2>1, <2>4
<1>13. /\ \A n \in 1 .. Len(hs) : hs[n] \in A \cup B
       /\ \A x \in A \cup B : \E n \in 1 .. Len(hs) : hs[n] = x
  <2>1. \A n \in 1 .. Len(hs) : hs[n] \in A \cup B
    <3> TAKE n \in 1 .. Len(hs)
    <3>1. CASE n \in 1 .. N
      BY <1>7, <1>10, <1>11, <3>1
    <3>2. ASSUME NEW m \in 1 .. Len(fs), n = N + m PROVE hs[n] \in A \cup B
      BY <1>8, <1>11, <3>2
    <3> QED BY <1>11, <3>1, <3>2
  <2>2. \A x \in A : \E n \in 1 .. Len(hs) : hs[n] = x
    BY <1>7, <1>10, <1>11
  <2>3. \A x \in B : \E n \in 1 .. Len(hs) : hs[n] = x
    BY <1>8, <1>11
  <2> QED BY <2>1, <2>2, <2>3
<1>14. ASSUME NEW i \in 1 .. Len(hs), NEW j \in 1 .. Len(hs), Leads(g, back, K, hs[i], hs[j])
       PROVE  \E k \in 1 .. Len(hs) : k >= j /\ Both(g, back, K, hs[i], hs[k])
  <2>1. CASE i \in 1 .. N
    <3>1. hs[i] = es[i] /\ hs[i] \in A
      BY <1>7, <1>10, <1>11, <2>1
    <3>2. Reached(g, back, K, {hs[i]}) \subseteq A
      BY <1>1, <3>1, LeadsOnward
    <3>3. hs[j] \in A
      BY <1>14, <3>2 DEF Leads
    <3>4. j \in 1 .. N
      <4>1. ASSUME NEW m \in 1 .. Len(fs), j = N + m PROVE FALSE
        BY <1>3, <1>6, <1>8, <1>11, <3>3, <4>1
      <4> QED BY <1>11, <4>1
    <3>5. hs[j] = es[j]
      BY <1>11, <3>4
    <3>6. PICK k \in 1 .. N : k >= j /\ Both(g, back, K, es[i], es[k])
      BY <1>7, <1>10, <1>14, <2>1, <3>1, <3>4, <3>5 DEF Sorted
    <3> QED BY <1>11, <3>1, <3>6
  <2>2. ASSUME NEW m \in 1 .. Len(fs), i = N + m
        PROVE  \E k \in 1 .. Len(hs) : k >= j /\ Both(g, back, K, hs[i], hs[k])
    <3>1. hs[i] = fs[m] /\ hs[i] \in B /\ hs[i] \in Blocks /\ hs[i] \notin K
      BY <1>4, <1>6, <1>8, <1>11, <2>2
    <3>2. CASE j \in 1 .. N
      <4>1. i >= j
        BY <1>11, <2>2, <3>2
      <4>2. Both(g, back, K, hs[i], hs[i])
        BY <3>1, LeadsType DEF Both
      <4> QED BY <4>1, <4>2
    <3>3. ASSUME NEW n \in 1 .. Len(fs), j = N + n
          PROVE  \E k \in 1 .. Len(hs) : k >= j /\ Both(g, back, K, hs[i], hs[k])
      <4>1. hs[j] = fs[n] /\ hs[j] \notin A
        BY <1>3, <1>6, <1>8, <1>11, <3>3
      <4>2. PICK V : V = {hs[i]}
        OBVIOUS
      <4>3. V \in SUBSET Blocks
        BY <3>1, <4>2
      <4>4. PICK W : W = S \cup V
        OBVIOUS
      <4>5. /\ Reached(g, back, K, W) = A \cup Reached(g, back, L, V)
            /\ Reached(g, back, K, V) \subseteq Reached(g, back, K, W)
        <5>1. Reached(g, back, K, W) = A \cup Reached(g, back, L, V)
          <6>1. W \in SUBSET Blocks /\ IsJoin(W, S, V)
            BY <4>3, <4>4 DEF IsJoin
          <6>2. IsJoin(L, K, Reached(g, back, K, S))
            BY <1>1, <1>3 DEF IsJoin
          <6> QED BY <1>1, <1>4, <4>3, <6>1, <6>2, ReachedMore
        <5>2. PICK M \in SUBSET Blocks : IsJoin(M, K, Reached(g, back, K, V))
          <6>1. Reached(g, back, K, V) \in SUBSET Blocks
            BY <4>3, ReachedIsLeast
          <6>2. K \cup Reached(g, back, K, V) \in SUBSET Blocks
            BY <6>1
          <6> QED BY <6>2 DEF IsJoin
        <5>3. W \in SUBSET Blocks /\ IsJoin(W, V, S)
          BY <4>3, <4>4 DEF IsJoin
        <5>4. Reached(g, back, K, W) = Reached(g, back, K, V) \cup Reached(g, back, M, S)
          BY <4>3, <5>2, <5>3, ReachedMore
        <5> QED BY <5>1, <5>4
      <4>6. Leads(g, back, L, fs[m], fs[n])
        BY <1>14, <3>1, <4>1, <4>2, <4>4, <4>5 DEF Leads
      <4>7. PICK k \in 1 .. Len(fs) : k >= n /\ Both(g, back, L, fs[m], fs[k])
        BY <1>8, <4>6 DEF Sorted
      <4>8. \A u \in Blocks : Reached(g, back, L, {u}) \subseteq Reached(g, back, K, {u})
        <5> TAKE u \in Blocks
        <5>1. {u} \in SUBSET Blocks
          OBVIOUS
        <5> QED BY <1>4, <5>1, ReachedShrinks
      <4>9. fs[m] \in Blocks /\ fs[k] \in Blocks
        BY <1>6, <1>8
      <4>10. Both(g, back, K, fs[m], fs[k])
        BY <4>7, <4>8, <4>9 DEF Both, Leads
      <4>11. N + k \in 1 .. Len(hs) /\ hs[N + k] = fs[k] /\ N + k >= j
        BY <1>11, <3>3, <4>7
      <4> QED BY <3>1, <4>10, <4>11
    <3> QED BY <1>11, <3>2, <3>3
  <2> QED BY <1>11, <2>1, <2>2
<1>15. Sorted(g, back, K, hs)
  BY <1>14 DEF Sorted
<1> QED BY <1>9, <1>11, <1>12, <1>13, <1>15 DEF InOrder

(* A block is left after all that can be reached from it.                  *)
LEMMA OrderThrough ==
  ASSUME NEW g \in Graphs, NEW back \in BOOLEAN, NEW K \in SUBSET Blocks,
         NEW b \in Blocks, b \notin K, NEW es,
         InOrder(g, back, K \cup {b}, Arcs(g, back, b), es)
  PROVE  InOrder(g, back, K, {b}, Append(es, b))
<1>1. PICK L : L = K \cup {b}
  OBVIOUS
<1>2. PICK B : B = Reached(g, back, L, Arcs(g, back, b))
  OBVIOUS
<1>3. L \in SUBSET Blocks /\ K \subseteq L
  BY <1>1
<1>4. B \in SUBSET Blocks /\ B \cap L = {}
  BY <1>2, <1>3, ArcsType, ReachedIsLeast
<1>5. /\ es \in Seq(Blocks) /\ Sorted(g, back, L, es)
      /\ \A n \in 1 .. Len(es) : es[n] \in B
      /\ \A x \in B : \E n \in 1 .. Len(es) : es[n] = x
  BY <1>1, <1>2 DEF InOrder
<1>6. PICK R : R = Reached(g, back, K, {b})
  OBVIOUS
<1>7. R = {b} \cup B
  BY <1>1, <1>2, <1>6, ReachedThrough
<1>8. PICK hs : hs = Append(es, b)
  OBVIOUS
<1>9. PICK N : N = Len(es)
  OBVIOUS
<1>10. /\ hs \in Seq(Blocks) /\ N \in Nat /\ Len(hs) = N + 1 /\ hs[N + 1] = b
       /\ \A n \in 1 .. N : hs[n] = es[n]
  BY <1>5, <1>8, <1>9
<1>11. /\ \A n \in 1 .. N : n \in 1 .. Len(hs)
       /\ N + 1 \in 1 .. Len(hs)
       /\ \A n \in 1 .. Len(hs) : n <= N + 1 /\ (n \in 1 .. N \/ n = N + 1)
  BY <1>10
<1>12. \A n \in 1 .. Len(hs) : hs[n] \in R /\ hs[n] \in Blocks
  BY <1>4, <1>5, <1>7, <1>9, <1>10, <1>11
<1>13. \A x \in R : \E n \in 1 .. Len(hs) : hs[n] = x
  BY <1>5, <1>7, <1>9, <1>10, <1>11
<1>14. ASSUME NEW i \in 1 .. Len(hs), NEW j \in 1 .. Len(hs), Leads(g, back, K, hs[i], hs[j])
       PROVE  \E k \in 1 .. Len(hs) : k >= j /\ Both(g, back, K, hs[i], hs[k])
  <2>1. Leads(g, back, K, b, hs[i])
    BY <1>6, <1>12 DEF Leads
  <2>2. CASE Leads(g, back, K, hs[i], b)
    <3>1. Both(g, back, K, hs[i], hs[N + 1])
      BY <1>10, <2>1, <2>2 DEF Both
    <3>2. N + 1 >= j
      BY <1>10, <1>11
    <3> QED BY <1>11, <3>1, <3>2
  <2>3. CASE ~ Leads(g, back, K, hs[i], b)
    <3>1. hs[i] # b /\ hs[j] # b
      BY <1>14, <2>1, <2>3
    <3>2. i \in 1 .. N /\ j \in 1 .. N
      BY <1>10, <1>11, <3>1
    <3>3. hs[i] = es[i] /\ hs[j] = es[j]
      BY <1>10, <3>2
    <3>4. PICK V : V = {hs[i]}
      OBVIOUS
    <3>5. V \in SUBSET Blocks
      BY <1>12, <3>4
    <3>6. b \notin Reached(g, back, K, V)
      BY <2>3, <3>4 DEF Leads
    <3>7. Reached(g, back, L, V) = Reached(g, back, K, V)
      <4>1. Reached(g, back, K, V) \cap L \subseteq K
        BY <1>1, <3>6
      <4> QED BY <1>3, <3>5, <4>1, ReachedShrinks
    <3>8. Leads(g, back, L, es[i], es[j])
      BY <1>14, <3>3, <3>4, <3>7 DEF Leads
    <3>9. PICK k \in 1 .. N : k >= j /\ Both(g, back, L, es[i], es[k])
      BY <1>5, <1>9, <3>2, <3>8 DEF Sorted
    <3>10. \A u \in Blocks : Reached(g, back, L, {u}) \subseteq Reached(g, back, K, {u})
      <4> TAKE u \in Blocks
      <4>1. {u} \in SUBSET Blocks
        OBVIOUS
      <4> QED BY <1>3, <4>1, ReachedShrinks
    <3>11. es[i] \in Blocks /\ es[k] \in Blocks
      BY <1>4, <1>5, <1>9, <3>2
    <3>12. Both(g, back, K, es[i], es[k])
      BY <3>9, <3>10, <3>11 DEF Both, Leads
    <3> QED BY <1>10, <1>11, <3>3, <3>9, <3>12
  <2> QED BY <2>2, <2>3
<1>15. Sorted(g, back, K, hs)
  BY <1>14 DEF Sorted
<1> QED BY <1>6, <1>8, <1>10, <1>12, <1>13, <1>15 DEF InOrder

LEMMA NothingInOrder ==
  ASSUME NEW g \in Graphs, NEW back \in BOOLEAN, NEW K \in SUBSET Blocks,
         NEW S \in SUBSET K
  PROVE  InOrder(g, back, K, S, <<>>) /\ Reached(g, back, K, S) = {}
<1>1. Closed(g, back, K, {}) /\ S \ K = {} /\ S \in SUBSET Blocks
  BY DEF Closed
<1>2. Reached(g, back, K, S) \subseteq {}
  <2>1. PICK C : C = {}
    OBVIOUS
  <2>2. C \in SUBSET Blocks /\ S \ K \subseteq C /\ Closed(g, back, K, C)
    BY <1>1, <2>1
  <2>3. \A D \in SUBSET Blocks :
          S \ K \subseteq D /\ Closed(g, back, K, D) => Reached(g, back, K, S) \subseteq D
    BY <1>1, ReachedIsLeast
  <2>4. Reached(g, back, K, S) \subseteq C
    BY <2>2, <2>3
  <2> QED BY <2>1, <2>4
<1>3. <<>> \in Seq(Blocks) /\ Len(<<>>) = 0
  OBVIOUS
<1> QED BY <1>2, <1>3 DEF InOrder, Sorted

-----------------------------------------------------------------------------
(* The recursion of findAllReachableDFS. *)
VisitCalls == Visits \X Blocks

Onward(st) == {r \in Visits : st.grey \subseteq r.grey}

GoodReaches == {F \in [VisitCalls -> Visits] : \A v \in VisitCalls : F[v] \in Onward(v[1])}

AgreeFrom(F, H, K) == \A v \in VisitCalls : K \subseteq v[1].grey => F[v] = H[v]

ReachesInto(h, F, st, S) ==
  h = [U \in SUBSET S |-> IF U = {} THEN st ELSE F[<<h[Rest(U)], Pick(U)>>]]

LEMMA OnwardType ==
  ASSUME NEW st \in Visits
  PROVE  /\ st \in Onward(st) /\ st.grey \in SUBSET Blocks /\ st.order \in Seq(Blocks)
         /\ \A r \in Onward(st) : \A b \in Blocks :
              <<r, b>> \in VisitCalls /\ <<r, b>>[1] = r /\ <<r, b>>[2] = b
         /\ \A H \in GoodReaches : \A r \in Onward(st) : \A b \in Blocks :
              H[<<r, b>>] \in Onward(st)
<1>1. st \in Onward(st) /\ st.grey \in SUBSET Blocks /\ st.order \in Seq(Blocks)
  BY DEF Onward, Visits
<1>2. \A r \in Onward(st) : \A b \in Blocks :
        <<r, b>> \in VisitCalls /\ <<r, b>>[1] = r /\ <<r, b>>[2] = b
  BY DEF Onward, VisitCalls
<1>3. ASSUME NEW H \in GoodReaches, NEW r \in Onward(st), NEW b \in Blocks
      PROVE  H[<<r, b>>] \in Onward(st)
  <2>1. H[<<r, b>>] \in Onward(r)
    BY <1>2 DEF GoodReaches
  <2> QED BY <2>1 DEF Onward
<1> QED BY <1>1, <1>2, <1>3

(* The visits of the blocks of S one after the other: h[U] has done U.      *)
OneByOne(h, H, st, S) ==
  /\ h \in [SUBSET S -> Onward(st)]
  /\ h[{}] = st
  /\ \A U \in SUBSET S : U # {} => h[U] = H[<<h[Rest(U)], Pick(U)>>]
  /\ \A F : AgreeFrom(F, H, st.grey) => ReachAll(F, st, S) = h[S]

LEMMA ReachAllFolds ==
  ASSUME NEW st \in Visits, NEW S \in SUBSET Blocks, NEW H \in GoodReaches
  PROVE  \E h : OneByOne(h, H, st, S)
<1> DEFINE V == Onward(st)
           step == [q \in S \X V |-> H[<<q[2], q[1]>>]]
<1>1. IsFiniteSet(S)
  BY BlocksAssumption, FS_Subset
<1>2. /\ st \in V
      /\ \A acc \in V : \A s \in Blocks : <<acc, s>> \in VisitCalls /\ <<acc, s>>[1] = acc
      /\ \A acc \in V : \A s \in Blocks : H[<<acc, s>>] \in V
  BY OnwardType
<1>3. step \in [S \X V -> V]
  <2> HIDE DEF V
  <2> QED BY <1>1, <1>2
<1>4. PICK h \in [SUBSET S -> V] : FoldsInto(h, S, st, step)
  <2> HIDE DEF V, step
  <2> QED BY <1>1, <1>2, <1>3, FoldExists
<1>5. \A U \in SUBSET S : U # {} => Pick(U) \in S /\ Rest(U) \in SUBSET S
  BY PickIsIn
<1>6. h[{}] = st
  BY <1>4 DEF FoldsInto
<1>7. ASSUME NEW U \in SUBSET S, U # {}
      PROVE  h[U] = H[<<h[Rest(U)], Pick(U)>>]
  <2>1. h[U] = step[<<Pick(U), h[Rest(U)]>>]
    BY <1>4, <1>7 DEF FoldsInto
  <2>2. Pick(U) \in S /\ h[Rest(U)] \in V
    BY <1>4, <1>5, <1>7
  <2>3. \A s \in S : \A acc \in V : step[<<s, acc>>] = H[<<acc, s>>]
    OBVIOUS
  <2> HIDE DEF V, step
  <2> QED BY <2>1, <2>2, <2>3
<1>8. ASSUME NEW F, AgreeFrom(F, H, st.grey) PROVE ReachAll(F, st, S) = h[S]
  <2>1. \A acc \in V : \A s \in Blocks : F[<<acc, s>>] = H[<<acc, s>>]
    <3> TAKE acc \in V
    <3> TAKE s \in Blocks
    <3>1. <<acc, s>> \in VisitCalls /\ st.grey \subseteq <<acc, s>>[1].grey
      BY <1>2 DEF Onward
    <3> QED BY <1>8, <3>1 DEF AgreeFrom
  <2>2. ReachAll(F, st, S) = (CHOOSE f : ReachesInto(f, F, st, S))[S]
    BY DEF ReachAll, FoldSet, MapThenFoldSet, Pick, Rest, ReachesInto
  <2>3. ReachesInto(h, F, st, S)
    <3> DEFINE k == [U \in SUBSET S |-> IF U = {} THEN st ELSE F[<<h[Rest(U)], Pick(U)>>]]
    <3>1. ASSUME NEW U \in SUBSET S PROVE h[U] = k[U]
      <4>1. CASE U = {}
        BY <1>6, <4>1
      <4>2. CASE U # {}
        <5>1. Pick(U) \in Blocks /\ h[Rest(U)] \in V
          <6> HIDE DEF V
          <6> QED BY <1>4, <1>5, <4>2
        <5>2. h[U] = F[<<h[Rest(U)], Pick(U)>>]
          BY <1>7, <2>1, <4>2, <5>1
        <5> QED BY <4>2, <5>2
      <4> QED BY <4>1, <4>2
    <3>2. h = k
      <4> HIDE DEF V
      <4>1. DOMAIN h = SUBSET S /\ h = [U \in SUBSET S |-> h[U]]
        BY <1>4
      <4>2. [U \in SUBSET S |-> h[U]] = k
        BY <3>1
      <4> HIDE DEF k
      <4> QED BY <4>1, <4>2
    <3> QED BY <3>2 DEF ReachesInto
  <2>4. PICK f : f = CHOOSE k : ReachesInto(k, F, st, S)
    OBVIOUS
  <2>5. ReachesInto(f, F, st, S)
    BY <2>3, <2>4
  <2> DEFINE P == {U \in SUBSET S : f[U] = h[U]}
  <2>6. {} \in P
    BY <1>6, <2>5 DEF ReachesInto
  <2>7. ASSUME NEW U \in SUBSET S, U # {}, Rest(U) \in P PROVE U \in P
    <3>1. f[U] = F[<<f[Rest(U)], Pick(U)>>]
      BY <2>5, <2>7 DEF ReachesInto
    <3>2. f[Rest(U)] = h[Rest(U)]
      BY <2>7
    <3>3. Pick(U) \in Blocks /\ h[Rest(U)] \in V
      <4> HIDE DEF V
      <4> QED BY <1>4, <1>5, <2>7
    <3> QED BY <1>7, <2>1, <2>7, <3>1, <3>2, <3>3
  <2>8. P = SUBSET S
    <3>1. P \in SUBSET (SUBSET S)
      OBVIOUS
    <3> HIDE DEF P
    <3> QED BY <1>1, <2>6, <2>7, <3>1, RestInduction
  <2>9. f[S] = h[S]
    <3>1. S \in P
      BY <2>8
    <3> QED BY <3>1
  <2> QED BY <2>2, <2>4, <2>9
<1> QED BY <1>4, <1>6, <1>7, <1>8 DEF OneByOne

AgreeAbove(F, H, v) ==
  \A w \in VisitCalls : Left(w[1].grey) < Left(v[1].grey) => F[w] = H[w]

EnteredBy(v) == [v[1] EXCEPT !.grey = @ \cup {v[2]}]

ReachBody(F, g, back, v) ==
  LET st == v[1]
      b  == v[2]
      below == ReachAll(F, [st EXCEPT !.grey = @ \cup {b}],
                        IF back THEN Pred(g, b) ELSE Succ(g, b))
  IN IF b \in st.grey THEN st ELSE [below EXCEPT !.order = Append(@, b)]

LEMMA CallType ==
  ASSUME NEW v \in VisitCalls
  PROVE  /\ v[1] \in Visits /\ v[2] \in Blocks
         /\ v[1].grey \in SUBSET Blocks /\ v[1].order \in Seq(Blocks)
         /\ Left(v[1].grey) \in Nat /\ Left(v[1].grey) \in 0 .. Cardinality(Blocks)
         /\ EnteredBy(v) \in Visits
         /\ EnteredBy(v).grey = v[1].grey \cup {v[2]} /\ EnteredBy(v).order = v[1].order
         /\ v[2] \notin v[1].grey =>
              \A w \in VisitCalls : EnteredBy(v).grey \subseteq w[1].grey =>
                Left(w[1].grey) < Left(v[1].grey)
<1>1. \A w \in VisitCalls : w[1] \in Visits /\ w[2] \in Blocks
  BY DEF VisitCalls
<1>2. \A w \in VisitCalls : w[1].grey \in SUBSET Blocks /\ w[1].order \in Seq(Blocks)
  BY <1>1 DEF Visits
<1>3. /\ EnteredBy(v).grey = v[1].grey \cup {v[2]} /\ EnteredBy(v).order = v[1].order
      /\ EnteredBy(v) \in Visits
  BY <1>1, <1>2 DEF EnteredBy, Visits
<1>4. Left(v[1].grey) \in Nat /\ Left(v[1].grey) \in 0 .. Cardinality(Blocks)
  BY <1>2, LeftShrinks
<1>5. ASSUME v[2] \notin v[1].grey, NEW w \in VisitCalls, EnteredBy(v).grey \subseteq w[1].grey
      PROVE  Left(w[1].grey) < Left(v[1].grey)
  BY <1>1, <1>2, <1>3, <1>5, LeftShrinks
<1> QED BY <1>1, <1>2, <1>3, <1>4, <1>5

LEMMA ReachBodyType ==
  ASSUME NEW g \in Graphs, NEW back \in BOOLEAN, NEW v \in VisitCalls, NEW H \in GoodReaches
  PROVE  /\ ReachBody(H, g, back, v) \in Onward(v[1])
         /\ \A F : AgreeAbove(F, H, v) => ReachBody(F, g, back, v) = ReachBody(H, g, back, v)
<1>1. PICK st : st = v[1]
  OBVIOUS
<1>2. PICK b : b = v[2]
  OBVIOUS
<1>3. st \in Visits /\ b \in Blocks /\ st.grey \in SUBSET Blocks
  BY <1>1, <1>2, CallType
<1>4. CASE b \in st.grey
  <2>1. \A F : ReachBody(F, g, back, v) = st
    BY <1>1, <1>2, <1>4 DEF ReachBody
  <2> QED BY <1>1, <1>3, <2>1, OnwardType
<1>5. CASE b \notin st.grey
  <2>1. PICK in : in = EnteredBy(v)
    OBVIOUS
  <2>2. /\ in \in Visits /\ in.grey = st.grey \cup {b}
        /\ \A w \in VisitCalls : in.grey \subseteq w[1].grey => Left(w[1].grey) < Left(v[1].grey)
    BY <1>1, <1>2, <1>5, <2>1, CallType
  <2>3. PICK S : S = Arcs(g, back, b)
    OBVIOUS
  <2>4. S \in SUBSET Blocks
    BY <1>3, <2>3, ArcsType
  <2>5. PICK h : OneByOne(h, H, in, S)
    BY <2>2, <2>4, ReachAllFolds
  <2>6. PICK r : r = h[S]
    OBVIOUS
  <2>7. r \in Onward(in) /\ \A F : AgreeFrom(F, H, in.grey) => ReachAll(F, in, S) = r
    BY <2>5, <2>6 DEF OneByOne
  <2> DEFINE q == [r EXCEPT !.order = Append(@, b)]
  <2>8. ASSUME NEW F, AgreeAbove(F, H, v) PROVE ReachBody(F, g, back, v) = q
    <3>1. AgreeFrom(F, H, in.grey)
      BY <2>2, <2>8 DEF AgreeFrom, AgreeAbove
    <3>2. ReachAll(F, in, S) = r
      BY <2>7, <3>1
    <3> QED BY <1>1, <1>2, <1>5, <2>1, <2>3, <3>2 DEF ReachBody, EnteredBy, Arcs
  <2>9. AgreeAbove(H, H, v)
    BY DEF AgreeAbove
  <2>10. q \in Onward(st)
    <3>1. r \in [grey : SUBSET Blocks, order : Seq(Blocks)] /\ in.grey \subseteq r.grey
      BY <2>7 DEF Onward, Visits
    <3>2. q.grey = r.grey
      BY <3>1
    <3>3. Append(r.order, b) \in Seq(Blocks)
      BY <1>3, <3>1
    <3>4. q \in [grey : SUBSET Blocks, order : Seq(Blocks)]
      BY <3>1, <3>3
    <3> HIDE DEF q
    <3> QED BY <2>2, <3>1, <3>2, <3>4 DEF Onward, Visits
  <2> HIDE DEF q
  <2> QED BY <1>1, <2>8, <2>9, <2>10
<1> QED BY <1>4, <1>5

IsReaching(F, g, back) == F = [v \in VisitCalls |-> ReachBody(F, g, back, v)]

LEMMA ReachingExists ==
  ASSUME NEW g \in Graphs, NEW back \in BOOLEAN
  PROVE  \E F \in GoodReaches : IsReaching(F, g, back)
<1> DEFINE G == GoodReaches
           Body(F) == [v \in VisitCalls |-> ReachBody(F, g, back, v)]
           T == [F \in G |-> Body(F)]
           rank == [v \in VisitCalls |-> Left(v[1].grey)]
           N == Cardinality(Blocks)
<1>1. rank \in [VisitCalls -> 0 .. N] /\ N \in Nat
      /\ \A v \in VisitCalls : rank[v] = Left(v[1].grey)
  <2>1. \A v \in VisitCalls : Left(v[1].grey) \in 0 .. N
    BY CallType
  <2>2. N \in Nat
    BY BlocksAssumption, FS_CardinalityType
  <2> HIDE DEF N
  <2> QED BY <2>1, <2>2
<1>2. ASSUME NEW F \in G PROVE Body(F) \in G
  <2>1. \A v \in VisitCalls : ReachBody(F, g, back, v) \in Onward(v[1])
    BY ReachBodyType
  <2>2. \A v \in VisitCalls : ReachBody(F, g, back, v) \in Visits
    BY <2>1 DEF Onward
  <2> QED BY <2>1, <2>2 DEF GoodReaches
<1>3. T \in [G -> G] /\ \A F \in G : T[F] = Body(F)
  <2> HIDE DEF Body, G
  <2> QED BY <1>2
<1>4. ASSUME NEW F \in G, NEW H \in G, NEW v \in VisitCalls,
             \A w \in VisitCalls : rank[w] < rank[v] => F[w] = H[w]
      PROVE  Body(F)[v] = Body(H)[v]
  <2>1. AgreeAbove(F, H, v)
    BY <1>1, <1>4 DEF AgreeAbove
  <2>2. ReachBody(F, g, back, v) = ReachBody(H, g, back, v)
    BY <2>1, ReachBodyType
  <2> QED BY <2>2
<1>5. G # {}
  <2> DEFINE F == [v \in VisitCalls |-> v[1]]
  <2>1. \A v \in VisitCalls : v[1] \in Visits /\ v[1] \in Onward(v[1])
    BY CallType, OnwardType
  <2>2. F \in GoodReaches
    BY <2>1 DEF GoodReaches
  <2> QED BY <2>2
<1>6. G \in SUBSET [VisitCalls -> Visits]
  BY DEF GoodReaches
<1>7. PICK F \in G : T[F] = F
  <2> HIDE DEF T, G, rank, N, Body
  <2>0. \A F, H \in G : \A v \in VisitCalls :
          (\A w \in VisitCalls : rank[w] < rank[v] => F[w] = H[w]) => T[F][v] = T[H][v]
    BY <1>3, <1>4
  <2>1. Recursion(VisitCalls, Visits, G, N, rank, T)
    BY <1>1, <1>3, <2>0, <1>5, <1>6 DEF Recursion
  <2> QED BY <2>1, Solved
<1>8. Body(F) = F
  <2> HIDE DEF Body, G
  <2> QED BY <1>3, <1>7
<1>9. IsReaching(F, g, back)
  BY <1>8 DEF IsReaching
<1> QED BY <1>7, <1>9

LEMMA ReachingIs ==
  ASSUME NEW g \in Graphs, NEW back \in BOOLEAN
  PROVE  /\ Reaching(g, back) \in GoodReaches
         /\ \A v \in VisitCalls :
              Reaching(g, back)[v] = ReachBody(Reaching(g, back), g, back, v)
<1>1. Reaching(g, back) = CHOOSE F : IsReaching(F, g, back)
  BY DEF Reaching, IsReaching, ReachBody, VisitCalls
<1>2. PICK H \in GoodReaches : IsReaching(H, g, back)
  BY ReachingExists
<1>3. PICK F : F = Reaching(g, back)
  OBVIOUS
<1>4. IsReaching(F, g, back)
  BY <1>1, <1>2, <1>3
<1>5. /\ \A v \in VisitCalls : F[v] = ReachBody(F, g, back, v)
      /\ \A v \in VisitCalls : H[v] = ReachBody(H, g, back, v)
      /\ F = [v \in VisitCalls |-> F[v]] /\ H = [v \in VisitCalls |-> H[v]]
  <2>1. \A K : IsReaching(K, g, back) =>
          /\ \A v \in VisitCalls : K[v] = ReachBody(K, g, back, v)
          /\ K = [v \in VisitCalls |-> K[v]]
    BY DEF IsReaching
  <2> QED BY <1>2, <1>4, <2>1
<1> DEFINE Wrong == {v \in VisitCalls : F[v] # H[v]}
<1>6. Wrong = {}
  <2> SUFFICES ASSUME Wrong # {} PROVE FALSE
    OBVIOUS
  <2>1. \A v \in VisitCalls : Left(v[1].grey) \in Nat
    BY CallType
  <2> DEFINE R == {Left(v[1].grey) : v \in Wrong}
  <2>2. PICK n \in R : \A m \in R : n <= m
    <3>1. R \in SUBSET Nat /\ R # {}
      BY <2>1
    <3> HIDE DEF R
    <3> QED BY <3>1, LeastNatural
  <2>3. PICK v \in Wrong : n = Left(v[1].grey)
    OBVIOUS
  <2>4. v \in VisitCalls /\ F[v] # H[v]
    BY <2>3
  <2>5. AgreeAbove(F, H, v)
    <3> SUFFICES ASSUME NEW w \in VisitCalls, Left(w[1].grey) < Left(v[1].grey), F[w] # H[w]
                 PROVE  FALSE
      BY DEF AgreeAbove
    <3>1. Left(w[1].grey) \in R
      OBVIOUS
    <3>2. n <= Left(w[1].grey)
      BY <2>2, <3>1
    <3> HIDE DEF R, Wrong
    <3> QED BY <2>1, <2>3, <2>4, <3>2
  <2>6. ReachBody(F, g, back, v) = ReachBody(H, g, back, v)
    BY <2>4, <2>5, ReachBodyType
  <2> HIDE DEF Wrong
  <2> QED BY <1>5, <2>4, <2>6
<1>7. F = H
  <2>1. \A v \in VisitCalls : F[v] = H[v]
    BY <1>6
  <2> QED BY <1>5, <2>1
<1> QED BY <1>2, <1>3, <1>5, <1>7

-----------------------------------------------------------------------------
(* What a search from S adds to st: the blocks it reaches, in order. *)
Visited(g, back, st, S, r) ==
  /\ r.grey = st.grey \cup Reached(g, back, st.grey, S)
  /\ \E es : InOrder(g, back, st.grey, S, es) /\ r.order = st.order \o es

LEMMA VisitedNothing ==
  ASSUME NEW g \in Graphs, NEW back \in BOOLEAN, NEW st \in Visits, NEW S \in SUBSET st.grey
  PROVE  Visited(g, back, st, S, st)
<1>1. st.grey \in SUBSET Blocks /\ st.order \in Seq(Blocks)
  BY OnwardType
<1>2. InOrder(g, back, st.grey, S, <<>>) /\ Reached(g, back, st.grey, S) = {}
  BY <1>1, NothingInOrder
<1>3. st.order = st.order \o <<>>
  BY <1>1
<1> QED BY <1>2, <1>3 DEF Visited

LEMMA OneAfterAnother ==
  ASSUME NEW p \in Seq(Blocks), NEW q \in Seq(Blocks), NEW r \in Seq(Blocks)
  PROVE  (p \o q) \o r = p \o (q \o r)
BY ConcatAssociative

LEMMA AppendAfter ==
  ASSUME NEW p \in Seq(Blocks), NEW q \in Seq(Blocks), NEW b \in Blocks
  PROVE  Append(p \o q, b) = p \o Append(q, b)
<1>1. Append(q, b) = q \o <<b>> /\ Append(p \o q, b) = (p \o q) \o <<b>>
  OBVIOUS
<1>2. <<b>> \in Seq(Blocks)
  OBVIOUS
<1>3. (p \o q) \o <<b>> = p \o (q \o <<b>>)
  BY <1>2, ConcatAssociative
<1> QED BY <1>1, <1>3

LEMMA VisitedMore ==
  ASSUME NEW g \in Graphs, NEW back \in BOOLEAN, NEW st \in Visits, NEW r \in Visits,
         NEW S \in SUBSET Blocks, NEW T \in SUBSET Blocks, NEW U \in SUBSET Blocks,
         IsJoin(U, S, T), NEW q,
         Visited(g, back, st, S, r), Visited(g, back, r, T, q)
  PROVE  Visited(g, back, st, U, q)
<1>1. PICK K : K = st.grey
  OBVIOUS
<1>2. PICK L : L = r.grey
  OBVIOUS
<1>3. K \in SUBSET Blocks /\ L \in SUBSET Blocks /\ st.order \in Seq(Blocks)
  BY <1>1, <1>2, OnwardType
<1>4. L = K \cup Reached(g, back, K, S)
  BY <1>1, <1>2 DEF Visited
<1>5. PICK es : InOrder(g, back, K, S, es) /\ r.order = st.order \o es
  BY <1>1 DEF Visited
<1>6. PICK fs : InOrder(g, back, L, T, fs) /\ q.order = r.order \o fs
  BY <1>2 DEF Visited
<1>7. U = S \cup T
  BY DEF IsJoin
<1>8. InOrder(g, back, K, U, es \o fs)
  <2>1. InOrder(g, back, K \cup Reached(g, back, K, S), T, fs)
    BY <1>4, <1>6
  <2>2. InOrder(g, back, K, S \cup T, es \o fs)
    BY <1>3, <1>5, <2>1, OrderMore
  <2> QED BY <1>7, <2>2
<1>9. q.order = st.order \o (es \o fs)
  <2>1. es \in Seq(Blocks) /\ fs \in Seq(Blocks)
    BY <1>5, <1>6 DEF InOrder
  <2>2. (st.order \o es) \o fs = st.order \o (es \o fs)
    BY <1>3, <2>1, OneAfterAnother
  <2> QED BY <1>5, <1>6, <2>2
<1>10. q.grey = K \cup Reached(g, back, K, U)
  <2>1. q.grey = L \cup Reached(g, back, L, T)
    BY <1>2 DEF Visited
  <2>2. IsJoin(L, K, Reached(g, back, K, S))
    BY <1>4 DEF IsJoin
  <2>3. Reached(g, back, K, U) = Reached(g, back, K, S) \cup Reached(g, back, L, T)
    BY <1>3, <2>2, ReachedMore
  <2> QED BY <1>4, <2>1, <2>3
<1> QED BY <1>1, <1>8, <1>9, <1>10 DEF Visited

LEMMA VisitedThrough ==
  ASSUME NEW g \in Graphs, NEW back \in BOOLEAN, NEW v \in VisitCalls,
         v[2] \notin v[1].grey, NEW r \in Visits,
         Visited(g, back, EnteredBy(v), Arcs(g, back, v[2]), r)
  PROVE  Visited(g, back, v[1], {v[2]}, [r EXCEPT !.order = Append(@, v[2])])
<1>1. PICK K : K = v[1].grey
  OBVIOUS
<1>2. PICK b : b = v[2]
  OBVIOUS
<1>3. K \in SUBSET Blocks /\ b \in Blocks /\ b \notin K /\ v[1].order \in Seq(Blocks)
  BY <1>1, <1>2, CallType
<1>4. EnteredBy(v).grey = K \cup {b} /\ EnteredBy(v).order = v[1].order
  BY <1>1, <1>2, CallType
<1>5. PICK es : InOrder(g, back, K \cup {b}, Arcs(g, back, b), es) /\ r.order = v[1].order \o es
  BY <1>2, <1>4 DEF Visited
<1>6. InOrder(g, back, K, {b}, Append(es, b))
  BY <1>3, <1>5, OrderThrough
<1>7. r.grey = (K \cup {b}) \cup Reached(g, back, K \cup {b}, Arcs(g, back, b))
  BY <1>2, <1>4 DEF Visited
<1>8. r.grey = K \cup Reached(g, back, K, {b})
  <2>1. Reached(g, back, K, {b}) = {b} \cup Reached(g, back, K \cup {b}, Arcs(g, back, b))
    BY <1>3, ReachedThrough
  <2> QED BY <1>7, <2>1
<1> DEFINE q == [r EXCEPT !.order = Append(@, v[2])]
<1>9. q.grey = r.grey /\ q.order = Append(r.order, b)
  BY <1>2 DEF Visits
<1>10. Append(r.order, b) = v[1].order \o Append(es, b)
  <2>1. es \in Seq(Blocks)
    BY <1>5 DEF InOrder
  <2>2. Append(v[1].order \o es, b) = v[1].order \o Append(es, b)
    BY <1>3, <2>1, AppendAfter
  <2> QED BY <1>5, <2>2
<1> HIDE DEF q
<1>11. Visited(g, back, v[1], {b}, q)
  BY <1>1, <1>6, <1>8, <1>9, <1>10 DEF Visited
<1> QED BY <1>2, <1>11 DEF q

(* The visits of many blocks, if each is right. *)
LEMMA VisitsRight ==
  ASSUME NEW g \in Graphs, NEW back \in BOOLEAN, NEW st \in Visits, NEW S \in SUBSET Blocks,
         NEW H \in GoodReaches,
         \A w \in VisitCalls :
           st.grey \subseteq w[1].grey => Visited(g, back, w[1], {w[2]}, H[w])
  PROVE  ReachAll(H, st, S) \in Visits /\ Visited(g, back, st, S, ReachAll(H, st, S))
<1>1. PICK h : OneByOne(h, H, st, S)
  BY ReachAllFolds
<1>2. /\ h \in [SUBSET S -> Onward(st)] /\ h[{}] = st
      /\ \A U \in SUBSET S : U # {} => h[U] = H[<<h[Rest(U)], Pick(U)>>]
  BY <1>1 DEF OneByOne
<1>3. ReachAll(H, st, S) = h[S]
  <2>1. AgreeFrom(H, H, st.grey)
    BY DEF AgreeFrom
  <2> QED BY <1>1, <2>1 DEF OneByOne
<1> DEFINE P == {U \in SUBSET S : Visited(g, back, st, U, h[U])}
<1>4. {} \in P
  BY <1>2, VisitedNothing
<1>5. ASSUME NEW U \in SUBSET S, U # {}, Rest(U) \in P PROVE U \in P
  <2>1. PICK acc : acc = h[Rest(U)]
    OBVIOUS
  <2>2. PICK b : b = Pick(U)
    OBVIOUS
  <2>3. PICK V : V = Rest(U)
    OBVIOUS
  <2>4. b \in U /\ b \in Blocks /\ V \in SUBSET S /\ V \in SUBSET Blocks /\ U \in SUBSET Blocks
        /\ IsJoin(U, V, {b})
    BY <1>5, <2>2, <2>3, PickIsIn DEF IsJoin, Rest
  <2>5. acc \in Onward(st) /\ acc \in Visits /\ st.grey \subseteq acc.grey
    BY <1>2, <2>1, <2>3, <2>4 DEF Onward
  <2>6. <<acc, b>> \in VisitCalls /\ <<acc, b>>[1] = acc /\ <<acc, b>>[2] = b
    BY <2>4, <2>5, OnwardType
  <2>7. PICK w \in VisitCalls : w = <<acc, b>> /\ w[1] = acc /\ w[2] = b
    BY <2>6
  <2>8. Visited(g, back, acc, {b}, H[w])
    BY <2>5, <2>7
  <2>9. h[U] = H[w]
    BY <1>2, <1>5, <2>1, <2>2, <2>7
  <2>10. Visited(g, back, st, V, acc)
    BY <1>5, <2>1, <2>3
  <2>11. PICK B : B = {b}
    OBVIOUS
  <2>12. B \in SUBSET Blocks /\ IsJoin(U, V, B) /\ Visited(g, back, acc, B, H[w])
    BY <2>4, <2>8, <2>11
  <2>13. Visited(g, back, st, U, H[w])
    BY <2>4, <2>5, <2>10, <2>12, VisitedMore
  <2> QED BY <2>9, <2>13
<1>6. P = SUBSET S
  <2>1. P \in SUBSET (SUBSET S) /\ IsFiniteSet(S)
    BY BlocksAssumption, FS_Subset
  <2> HIDE DEF P
  <2> QED BY <1>4, <1>5, <2>1, RestInduction
<1>7. Visited(g, back, st, S, h[S])
  <2>1. S \in P
    BY <1>6
  <2> QED BY <2>1
<1> QED BY <1>2, <1>3, <1>7 DEF Onward

LEMMA ReachRight ==
  ASSUME NEW g \in Graphs, NEW back \in BOOLEAN
  PROVE  \A v \in VisitCalls : Visited(g, back, v[1], {v[2]}, Reaching(g, back)[v])
<1>1. PICK F : F = Reaching(g, back)
  OBVIOUS
<1>2. F \in GoodReaches /\ \A v \in VisitCalls : F[v] = ReachBody(F, g, back, v)
  BY <1>1, ReachingIs
<1> DEFINE Wrong == {v \in VisitCalls : ~ Visited(g, back, v[1], {v[2]}, F[v])}
<1>3. Wrong = {}
  <2> SUFFICES ASSUME Wrong # {} PROVE FALSE
    OBVIOUS
  <2>1. \A v \in VisitCalls : Left(v[1].grey) \in Nat
    BY CallType
  <2> DEFINE R == {Left(v[1].grey) : v \in Wrong}
  <2>2. PICK n \in R : \A m \in R : n <= m
    <3>1. R \in SUBSET Nat /\ R # {}
      BY <2>1
    <3> HIDE DEF R
    <3> QED BY <3>1, LeastNatural
  <2>3. PICK v \in Wrong : n = Left(v[1].grey)
    OBVIOUS
  <2>4. v \in VisitCalls /\ ~ Visited(g, back, v[1], {v[2]}, F[v])
    BY <2>3
  <2>5. \A w \in VisitCalls : Left(w[1].grey) < Left(v[1].grey) =>
          Visited(g, back, w[1], {w[2]}, F[w])
    <3> SUFFICES ASSUME NEW w \in VisitCalls, Left(w[1].grey) < Left(v[1].grey),
                        ~ Visited(g, back, w[1], {w[2]}, F[w])
                 PROVE  FALSE
      OBVIOUS
    <3>1. Left(w[1].grey) \in R
      OBVIOUS
    <3>2. n <= Left(w[1].grey)
      BY <2>2, <3>1
    <3> HIDE DEF R, Wrong
    <3> QED BY <2>1, <2>3, <2>4, <3>2
  <2> HIDE DEF R, Wrong
  <2>6. /\ v[1] \in Visits /\ v[2] \in Blocks /\ v[1].grey \in SUBSET Blocks
        /\ F[v] = ReachBody(F, g, back, v)
    BY <1>2, <2>4, CallType
  <2>7. CASE v[2] \in v[1].grey
    <3>1. F[v] = v[1]
      BY <2>6, <2>7 DEF ReachBody
    <3>2. {v[2]} \in SUBSET v[1].grey
      BY <2>7
    <3> QED BY <2>4, <2>6, <3>1, <3>2, VisitedNothing
  <2>8. CASE v[2] \notin v[1].grey
    <3>1. PICK in \in Visits : in = EnteredBy(v)
      BY <2>4, CallType
    <3>2. PICK S \in SUBSET Blocks : S = Arcs(g, back, v[2])
      BY <2>6, ArcsType
    <3>3. \A w \in VisitCalls : in.grey \subseteq w[1].grey =>
            Visited(g, back, w[1], {w[2]}, F[w])
      BY <2>4, <2>5, <2>8, <3>1, CallType
    <3>4. PICK r : r = ReachAll(F, in, S)
      OBVIOUS
    <3>5. r \in Visits /\ Visited(g, back, in, S, r)
      BY <1>2, <3>3, <3>4, VisitsRight
    <3>6. F[v] = [r EXCEPT !.order = Append(@, v[2])]
      BY <2>6, <2>8, <3>1, <3>2, <3>4 DEF ReachBody, EnteredBy, Arcs
    <3>7. Visited(g, back, v[1], {v[2]}, [r EXCEPT !.order = Append(@, v[2])])
      BY <2>4, <2>8, <3>1, <3>2, <3>5, VisitedThrough
    <3> QED BY <2>4, <3>6, <3>7
  <2> QED BY <2>7, <2>8
<1> QED BY <1>1, <1>3

-----------------------------------------------------------------------------
(* findSCCs: the roots of the second search. *)
Rooted(g, K, roots) ==
  /\ roots \in Seq(Blocks)
  /\ \A n \in 1 .. Len(roots) : roots[n] \notin K
  /\ \A x \in Blocks : x \notin K => \E n \in 1 .. Len(roots) : roots[n] = x
  /\ \A i, j \in 1 .. Len(roots) : Leads(g, FALSE, K, roots[i], roots[j]) =>
       \E k \in 1 .. Len(roots) : k <= j /\ Both(g, FALSE, K, roots[i], roots[k])

LEMMA FirstOrderRooted ==
  ASSUME NEW g \in Graphs, NEW K \in SUBSET Blocks
  PROVE  Rooted(g, K, FirstOrder(g, K))
<1>1. PICK st : st = [grey |-> K, order |-> <<>>]
  OBVIOUS
<1>2. st \in Visits /\ st.grey = K /\ st.order = <<>>
  BY <1>1 DEF Visits
<1>3. PICK F : F = Reaching(g, FALSE)
  OBVIOUS
<1>4. F \in GoodReaches /\ \A v \in VisitCalls : Visited(g, FALSE, v[1], {v[2]}, F[v])
  BY <1>3, ReachingIs, ReachRight
<1>5. PICK r : r = ReachAll(F, st, Blocks)
  OBVIOUS
<1>6. Visited(g, FALSE, st, Blocks, r)
  BY <1>2, <1>4, <1>5, VisitsRight
<1>7. PICK es : InOrder(g, FALSE, K, Blocks, es) /\ r.order = <<>> \o es
  BY <1>2, <1>6 DEF Visited
<1>8. PICK N : N = Len(es)
  OBVIOUS
<1>9. es \in Seq(Blocks) /\ r.order = es /\ N \in Nat
  BY <1>7, <1>8 DEF InOrder
<1>10. PICK roots : roots = Reverse(es)
  OBVIOUS
<1>11. FirstOrder(g, K) = roots
  BY <1>1, <1>3, <1>5, <1>9, <1>10 DEF FirstOrder
<1>12. /\ roots \in Seq(Blocks) /\ Len(roots) = N
       /\ \A n \in 1 .. N : roots[n] = es[N + 1 - n] /\ N + 1 - n \in 1 .. N
                            /\ N + 1 - (N + 1 - n) = n
  BY <1>8, <1>9, <1>10 DEF Reverse
<1>13. /\ Reached(g, FALSE, K, Blocks) \cap K = {}
       /\ Blocks \ K \subseteq Reached(g, FALSE, K, Blocks)
  <2>1. Blocks \in SUBSET Blocks
    OBVIOUS
  <2> QED BY <2>1, ReachedIsLeast
<1>14. /\ \A n \in 1 .. N : es[n] \notin K
       /\ \A x \in Blocks : x \notin K => \E n \in 1 .. N : es[n] = x
       /\ \A i, j \in 1 .. N : Leads(g, FALSE, K, es[i], es[j]) =>
            \E k \in 1 .. N : k >= j /\ Both(g, FALSE, K, es[i], es[k])
  BY <1>7, <1>8, <1>13 DEF InOrder, Sorted
<1>15. \A n \in 1 .. N : roots[n] \notin K
  BY <1>12, <1>14
<1>16. \A x \in Blocks : x \notin K => \E n \in 1 .. N : roots[n] = x
  <2> SUFFICES ASSUME NEW x \in Blocks, x \notin K PROVE \E n \in 1 .. N : roots[n] = x
    OBVIOUS
  <2>1. PICK n \in 1 .. N : es[n] = x
    BY <1>14
  <2>2. N + 1 - n \in 1 .. N /\ roots[N + 1 - n] = es[n]
    BY <1>12
  <2> QED BY <2>1, <2>2
<1>17. ASSUME NEW i \in 1 .. N, NEW j \in 1 .. N, Leads(g, FALSE, K, roots[i], roots[j])
       PROVE  \E k \in 1 .. N : k <= j /\ Both(g, FALSE, K, roots[i], roots[k])
  <2>1. PICK a \in 1 .. N : a = N + 1 - i /\ roots[i] = es[a]
    BY <1>12
  <2>2. PICK b \in 1 .. N : b = N + 1 - j /\ roots[j] = es[b]
    BY <1>12
  <2>3. PICK c \in 1 .. N : c >= b /\ Both(g, FALSE, K, es[a], es[c])
    BY <1>14, <1>17, <2>1, <2>2
  <2>4. PICK k \in 1 .. N : k = N + 1 - c /\ roots[k] = es[c]
    <3>1. N + 1 - c \in 1 .. N /\ N + 1 - (N + 1 - c) = c
      BY <1>12
    <3>2. roots[N + 1 - c] = es[N + 1 - (N + 1 - c)]
      BY <1>12, <3>1
    <3> QED BY <3>1, <3>2
  <2>5. k <= j
    BY <1>9, <2>2, <2>3, <2>4
  <2> QED BY <2>1, <2>3, <2>4, <2>5
<1> QED BY <1>11, <1>12, <1>15, <1>16, <1>17 DEF Rooted

LEMMA BothType ==
  ASSUME NEW g \in Graphs, NEW K \in SUBSET Blocks
  PROVE  /\ \A x, y \in Blocks : Both(g, FALSE, K, x, y) =>
              Both(g, FALSE, K, y, x) /\ x \notin K /\ y \notin K
         /\ \A x \in Blocks : x \notin K => Both(g, FALSE, K, x, x)
         /\ \A x, y, z \in Blocks :
              Both(g, FALSE, K, x, y) /\ Both(g, FALSE, K, y, z) => Both(g, FALSE, K, x, z)
<1>1. PICK forth \in BOOLEAN : forth = FALSE
  OBVIOUS
<1>2. \A u \in Blocks :
        /\ \A v : Leads(g, forth, K, u, v) => v \in Blocks /\ v \notin K
        /\ u \notin K => Leads(g, forth, K, u, u)
        /\ \A v, w \in Blocks :
             Leads(g, forth, K, u, v) /\ Leads(g, forth, K, v, w) => Leads(g, forth, K, u, w)
  BY LeadsType
<1>3. \A x, y \in Blocks : Both(g, forth, K, x, y) =>
        Both(g, forth, K, y, x) /\ x \notin K /\ y \notin K
  BY <1>2 DEF Both
<1>4. \A x \in Blocks : x \notin K => Both(g, forth, K, x, x)
  BY <1>2 DEF Both
<1>5. \A x, y, z \in Blocks :
        Both(g, forth, K, x, y) /\ Both(g, forth, K, y, z) => Both(g, forth, K, x, z)
  BY <1>2 DEF Both
<1> QED BY <1>1, <1>3, <1>4, <1>5

(* Against the arcs, past the components already found, a root reaches its *)
(* component: whatever else leads to it was found before it.               *)
LEMMA SecondReaches ==
  ASSUME NEW g \in Graphs, NEW K \in SUBSET Blocks, NEW L \in SUBSET Blocks, K \subseteq L,
         NEW root \in Blocks, root \notin L,
         \A x, y \in Blocks : Both(g, FALSE, K, x, y) /\ x \in L => y \in L,
         \A x \in Blocks : x \notin L /\ Leads(g, FALSE, K, x, root)
                             => Both(g, FALSE, K, root, x)
  PROVE  \A x \in Blocks : x \in Reached(g, TRUE, L, {root}) <=> Both(g, FALSE, K, root, x)
<1>1. PICK S \in SUBSET Blocks : S = {root}
  OBVIOUS
<1>2. PICK A : A = Reached(g, TRUE, K, S)
  OBVIOUS
<1>3. PICK B : B = Reached(g, TRUE, L, S)
  OBVIOUS
<1>4. /\ A \in SUBSET Blocks /\ S \ K \subseteq A /\ Closed(g, TRUE, K, A) /\ A \cap K = {}
      /\ \A C \in SUBSET Blocks : S \ K \subseteq C /\ Closed(g, TRUE, K, C) => A \subseteq C
  <2>1. PICK back \in BOOLEAN : back = TRUE
    OBVIOUS
  <2>2. A = Reached(g, back, K, S)
    BY <1>2, <2>1
  <2>3. /\ A \in SUBSET Blocks /\ S \ K \subseteq A /\ Closed(g, back, K, A) /\ A \cap K = {}
        /\ \A C \in SUBSET Blocks : S \ K \subseteq C /\ Closed(g, back, K, C) => A \subseteq C
    BY <2>2, ReachedIsLeast
  <2> QED BY <2>1, <2>3
<1>5. B \in SUBSET Blocks /\ S \ L \subseteq B /\ Closed(g, TRUE, L, B) /\ B \cap L = {}
  <2>1. PICK back \in BOOLEAN : back = TRUE
    OBVIOUS
  <2>2. B = Reached(g, back, L, S)
    BY <1>3, <2>1
  <2>3. B \in SUBSET Blocks /\ S \ L \subseteq B /\ Closed(g, back, L, B) /\ B \cap L = {}
    BY <2>2, ReachedIsLeast
  <2> QED BY <2>1, <2>3
<1>6. B \subseteq A
  BY <1>2, <1>3, ReachedShrinks
<1>7. root \notin K
  OBVIOUS
<1>8. \A x : x \in A <=> Leads(g, TRUE, K, root, x)
  BY <1>1, <1>2 DEF Leads
<1>9. \A x \in A : Leads(g, FALSE, K, x, root)
  <2> TAKE x \in A
  <2>1. PICK back \in BOOLEAN : back = TRUE
    OBVIOUS
  <2>2. Leads(g, back, K, root, x)
    BY <1>8, <2>1
  <2>3. Leads(g, ~back, K, x, root)
    BY <1>7, <2>2, LeadsBack
  <2> QED BY <2>1, <2>3
<1>10. \A x \in Blocks : x \notin K /\ Leads(g, FALSE, K, x, root) => x \in A
  <2> SUFFICES ASSUME NEW x \in Blocks, x \notin K, Leads(g, FALSE, K, x, root) PROVE x \in A
    OBVIOUS
  <2>1. PICK back \in BOOLEAN : back = FALSE
    OBVIOUS
  <2>2. Leads(g, back, K, x, root)
    BY <2>1
  <2>3. Leads(g, ~back, K, root, x)
    BY <2>2, LeadsBack
  <2> QED BY <1>8, <2>1, <2>3
<1>11. ASSUME NEW x \in B PROVE Both(g, FALSE, K, root, x)
  <2>1. x \in Blocks /\ x \notin L /\ Leads(g, FALSE, K, x, root)
    BY <1>5, <1>6, <1>9
  <2> QED BY <2>1
<1> DEFINE C == {y \in A : Leads(g, FALSE, K, root, y) => y \in B}
<1>12. root \in C
  BY <1>1, <1>4, <1>5, <1>7
<1>13. Closed(g, TRUE, K, C)
  <2> SUFFICES ASSUME NEW y \in C, NEW z \in Arcs(g, TRUE, y), z \notin K PROVE z \in C
    BY DEF Closed
  <2>1. y \in Blocks /\ y \notin K /\ y \in A
    BY <1>4
  <2>2. z \in A /\ z \in Blocks
    BY <1>4, <2>1 DEF Closed
  <2>3. ASSUME Leads(g, FALSE, K, root, z) PROVE z \in B
    <3>1. y \in Arcs(g, FALSE, z)
      <4>1. PICK back \in BOOLEAN : back = TRUE
        OBVIOUS
      <4>2. z \in Arcs(g, back, y) <=> y \in Arcs(g, ~back, z)
        BY <2>1, <2>2, ArcsType
      <4> QED BY <4>1, <4>2
    <3>2. Leads(g, FALSE, K, root, y)
      <4>1. Closed(g, FALSE, K, Reached(g, FALSE, K, S))
        <5>1. PICK back \in BOOLEAN : back = FALSE
          OBVIOUS
        <5>2. Closed(g, back, K, Reached(g, back, K, S))
          BY ReachedIsLeast
        <5> QED BY <5>1, <5>2
      <4>2. z \in Reached(g, FALSE, K, S)
        BY <1>1, <2>3 DEF Leads
      <4>3. y \in Reached(g, FALSE, K, S)
        BY <2>1, <3>1, <4>1, <4>2 DEF Closed
      <4> QED BY <1>1, <4>3 DEF Leads
    <3>3. y \in B
      BY <3>2
    <3>4. Both(g, FALSE, K, z, root)
      BY <1>9, <2>2, <2>3 DEF Both
    <3>5. z \notin L
      BY <2>2, <3>4
    <3> QED BY <1>5, <3>3, <3>5 DEF Closed
  <2> QED BY <2>2, <2>3
<1>14. A \subseteq C
  <2>1. C \in SUBSET Blocks /\ S \ K \subseteq C
    BY <1>1, <1>4, <1>12
  <2> HIDE DEF C
  <2> QED BY <1>4, <1>13, <2>1
<1>15. ASSUME NEW x \in Blocks, Both(g, FALSE, K, root, x) PROVE x \in B
  <2>1. x \notin K
    BY <1>15, BothType
  <2>2. x \in A
    BY <1>10, <1>15, <2>1 DEF Both
  <2> QED BY <1>14, <1>15, <2>2 DEF Both
<1> QED BY <1>1, <1>3, <1>11, <1>15

(* One more root. *)
Splits == [grey : SUBSET Blocks, sccs : [Blocks -> Blocks \cup {Outside}]]

OneRoot(g, root, acc) ==
  LET r == Reaching(g, TRUE)[<<[grey |-> acc.grey, order |-> <<>>], root>>] IN
  IF root \in acc.grey THEN acc
  ELSE [grey |-> r.grey,
        sccs |-> [b \in Blocks |-> IF b \in ToSet(r.order) THEN root ELSE acc.sccs[b]]]

LEMMA OneRootIs ==
  ASSUME NEW g \in Graphs, NEW root \in Blocks, NEW acc \in Splits
  PROVE  /\ OneRoot(g, root, acc) \in Splits
         /\ root \in acc.grey => OneRoot(g, root, acc) = acc
         /\ root \notin acc.grey =>
              /\ OneRoot(g, root, acc).grey = acc.grey \cup Reached(g, TRUE, acc.grey, {root})
              /\ \A b \in Blocks : OneRoot(g, root, acc).sccs[b] =
                   IF b \in Reached(g, TRUE, acc.grey, {root}) THEN root ELSE acc.sccs[b]
<1>1. acc.grey \in SUBSET Blocks /\ acc.sccs \in [Blocks -> Blocks \cup {Outside}]
  BY DEF Splits
<1>2. CASE root \in acc.grey
  BY <1>2 DEF OneRoot
<1>3. CASE root \notin acc.grey
  <2>1. PICK st : st = [grey |-> acc.grey, order |-> <<>>]
    OBVIOUS
  <2>2. st \in Visits /\ st.grey = acc.grey /\ st.order = <<>>
    BY <1>1, <2>1 DEF Visits
  <2>3. PICK v : v = <<st, root>>
    OBVIOUS
  <2>4. v \in VisitCalls /\ v[1] = st /\ v[2] = root
    BY <2>2, <2>3 DEF VisitCalls
  <2>5. PICK back \in BOOLEAN : back = TRUE
    OBVIOUS
  <2>6. PICK r : r = Reaching(g, back)[v]
    OBVIOUS
  <2>7. r \in Visits /\ Visited(g, back, st, {root}, r)
    <3>1. Reaching(g, back) \in GoodReaches
      BY ReachingIs
    <3>2. Reaching(g, back)[v] \in Visits
      BY <2>4, <3>1 DEF GoodReaches
    <3>3. Visited(g, back, v[1], {v[2]}, Reaching(g, back)[v])
      BY <2>4, ReachRight
    <3> QED BY <2>4, <2>6, <3>2, <3>3
  <2>8. PICK B : B = Reached(g, back, acc.grey, {root})
    OBVIOUS
  <2>9. r.grey = acc.grey \cup B /\ r.grey \in SUBSET Blocks
    BY <2>2, <2>7, <2>8 DEF Visited, Visits
  <2>10. PICK es : InOrder(g, back, acc.grey, {root}, es) /\ r.order = <<>> \o es
    BY <2>2, <2>7 DEF Visited
  <2>11. r.order = es /\ es \in Seq(Blocks)
    BY <2>10 DEF InOrder
  <2>12. \A b : b \in ToSet(r.order) <=> b \in B
    <3>1. ToSet(es) = {es[n] : n \in 1 .. Len(es)}
      BY <2>11 DEF ToSet
    <3>2. /\ \A n \in 1 .. Len(es) : es[n] \in B
          /\ \A x \in B : \E n \in 1 .. Len(es) : es[n] = x
      BY <2>8, <2>10 DEF InOrder
    <3> QED BY <2>11, <3>1, <3>2
  <2> DEFINE sccs == [b \in Blocks |-> IF b \in ToSet(r.order) THEN root ELSE acc.sccs[b]]
  <2>13. OneRoot(g, root, acc) = [grey |-> r.grey, sccs |-> sccs]
    BY <1>3, <2>1, <2>3, <2>5, <2>6 DEF OneRoot
  <2>14. sccs \in [Blocks -> Blocks \cup {Outside}]
    BY <1>1
  <2>15. \A b \in Blocks : sccs[b] = IF b \in B THEN root ELSE acc.sccs[b]
    BY <2>12
  <2> HIDE DEF sccs
  <2>16. /\ OneRoot(g, root, acc).grey = r.grey /\ OneRoot(g, root, acc).sccs = sccs
         /\ OneRoot(g, root, acc) \in Splits
    BY <2>9, <2>13, <2>14 DEF Splits
  <2> QED BY <1>3, <2>5, <2>8, <2>9, <2>15, <2>16
<1> QED BY <1>2, <1>3

NoneSplit(K) == [grey |-> K, sccs |-> [b \in Blocks |-> Outside]]

IsUpTo(U, g, K, roots) ==
  U = [n \in 0 .. Len(roots) |-> IF n = 0 THEN NoneSplit(K)
                                 ELSE OneRoot(g, roots[n], U[n - 1])]

LEMMA UpToExists ==
  ASSUME NEW g \in Graphs, NEW K \in SUBSET Blocks, NEW roots \in Seq(Blocks)
  PROVE  \E U \in [0 .. Len(roots) -> Splits] : IsUpTo(U, g, K, roots)
<1> DEFINE N == Len(roots)
           D == 0 .. N
           G == [D -> Splits]
           Body(U) == [n \in D |-> IF n = 0 THEN NoneSplit(K)
                                   ELSE OneRoot(g, roots[n], U[n - 1])]
           T == [U \in G |-> Body(U)]
           rank == [n \in D |-> n]
<1>1. N \in Nat /\ rank \in [D -> 0 .. N] /\ \A n \in D : rank[n] = n
  OBVIOUS
<1>2. NoneSplit(K) \in Splits
  BY DEF NoneSplit, Splits
<1>3. \A n \in D : n # 0 => roots[n] \in Blocks /\ n - 1 \in D /\ n - 1 < n
  OBVIOUS
<1>4. ASSUME NEW U \in G PROVE Body(U) \in G
  <2>1. ASSUME NEW n \in D, n # 0 PROVE OneRoot(g, roots[n], U[n - 1]) \in Splits
    <3>1. roots[n] \in Blocks /\ U[n - 1] \in Splits
      BY <1>3, <2>1
    <3> QED BY <3>1, OneRootIs
  <2> QED BY <1>2, <2>1
<1>5. T \in [G -> G] /\ \A U \in G : T[U] = Body(U)
  <2> HIDE DEF Body, G
  <2> QED BY <1>4
<1>6. ASSUME NEW U \in G, NEW W \in G, NEW n \in D, \A m \in D : rank[m] < rank[n] => U[m] = W[m]
      PROVE  Body(U)[n] = Body(W)[n]
  <2>1. n # 0 => U[n - 1] = W[n - 1]
    BY <1>1, <1>3, <1>6
  <2> QED BY <2>1
<1>7. G # {}
  <2>1. [n \in D |-> NoneSplit(K)] \in G
    BY <1>2
  <2> QED BY <2>1
<1>8. G \in SUBSET [D -> Splits]
  OBVIOUS
<1>9. PICK U \in G : T[U] = U
  <2> HIDE DEF T, G, D, N, rank, Body
  <2>1. \A U, W \in G : \A n \in D :
          (\A m \in D : rank[m] < rank[n] => U[m] = W[m]) => T[U][n] = T[W][n]
    BY <1>5, <1>6
  <2>2. Recursion(D, Splits, G, N, rank, T)
    BY <1>1, <1>5, <1>7, <1>8, <2>1 DEF Recursion
  <2> QED BY <2>2, Solved
<1>10. Body(U) = U
  <2> HIDE DEF Body, G
  <2> QED BY <1>5, <1>9
<1>11. IsUpTo(U, g, K, roots)
  BY <1>10 DEF IsUpTo
<1> QED BY <1>9, <1>11

(* What the roots up to n have split off. *)
Split(g, K, roots, n, acc) ==
  /\ acc \in Splits
  /\ \A x \in Blocks : x \in acc.grey <=>
       x \in K \/ \E m \in 1 .. n : Both(g, FALSE, K, roots[m], x)
  /\ \A x \in Blocks : x \notin acc.grey \/ x \in K => acc.sccs[x] = Outside
  /\ \A x \in acc.grey : x \notin K =>
       acc.sccs[x] \in Blocks /\ Both(g, FALSE, K, x, acc.sccs[x])
  /\ \A x, y \in acc.grey : Both(g, FALSE, K, x, y) => acc.sccs[x] = acc.sccs[y]

LEMMA SplitStart ==
  ASSUME NEW g \in Graphs, NEW K \in SUBSET Blocks, NEW roots
  PROVE  Split(g, K, roots, 0, NoneSplit(K))
<1>1. /\ NoneSplit(K) \in Splits /\ NoneSplit(K).grey = K
      /\ \A x \in Blocks : NoneSplit(K).sccs[x] = Outside
  BY DEF NoneSplit, Splits
<1>2. \A m \in 1 .. 0 : FALSE
  OBVIOUS
<1>3. PICK acc : acc = NoneSplit(K)
  OBVIOUS
<1>4. acc \in Splits /\ acc.grey = K /\ \A x \in Blocks : acc.sccs[x] = Outside
  BY <1>1, <1>3
<1>5. Split(g, K, roots, 0, acc)
  BY <1>2, <1>4 DEF Split
<1> QED BY <1>3, <1>5

LEMMA SplitStep ==
  ASSUME NEW g \in Graphs, NEW K \in SUBSET Blocks, NEW roots, Rooted(g, K, roots),
         NEW n \in 1 .. Len(roots), NEW acc, Split(g, K, roots, n - 1, acc)
  PROVE  Split(g, K, roots, n, OneRoot(g, roots[n], acc))
<1>1. PICK root : root = roots[n]
  OBVIOUS
<1>2. /\ roots \in Seq(Blocks) /\ Len(roots) \in Nat /\ n \in Nat /\ n - 1 \in Nat
      /\ root \in Blocks /\ root \notin K
  BY <1>1 DEF Rooted
<1>3. \A m \in 1 .. n : /\ roots[m] \in Blocks
                        /\ m \in 1 .. n - 1 \/ roots[m] = root
  BY <1>1, <1>2
<1>4. \A m \in 1 .. n - 1 : m \in 1 .. n
  BY <1>2
<1>5. PICK L : L = acc.grey
  OBVIOUS
<1>6. /\ acc \in Splits /\ L \in SUBSET Blocks
      /\ \A x \in Blocks : x \in L <=>
           x \in K \/ \E m \in 1 .. n - 1 : Both(g, FALSE, K, roots[m], x)
  BY <1>5 DEF Split, Splits
<1>7. n \in 1 .. n
  BY <1>2
<1>8. CASE root \in L
  <2>1. OneRoot(g, root, acc) = acc
    BY <1>2, <1>5, <1>6, <1>8, OneRootIs
  <2>2. PICK k \in 1 .. n - 1 : Both(g, FALSE, K, roots[k], root)
    BY <1>2, <1>6, <1>8
  <2>3. \A x \in Blocks : x \in L <=>
          x \in K \/ \E m \in 1 .. n : Both(g, FALSE, K, roots[m], x)
    <3> TAKE x \in Blocks
    <3>1. ASSUME NEW m \in 1 .. n, Both(g, FALSE, K, roots[m], x) PROVE x \in L
      <4>1. CASE m \in 1 .. n - 1
        BY <1>6, <3>1, <4>1
      <4>2. CASE roots[m] = root
        <5>1. Both(g, FALSE, K, roots[k], x)
          BY <1>2, <1>3, <1>4, <2>2, <3>1, <4>2, BothType
        <5> QED BY <1>6, <5>1
      <4> QED BY <1>3, <4>1, <4>2
    <3> QED BY <1>4, <1>6, <3>1
  <2> QED BY <1>1, <1>5, <2>1, <2>3 DEF Split
<1>9. CASE root \notin L
  <2>1. \A x, y \in Blocks : Both(g, FALSE, K, x, y) /\ x \in L => y \in L
    <3> SUFFICES ASSUME NEW x \in Blocks, NEW y \in Blocks, Both(g, FALSE, K, x, y), x \in L
                 PROVE  y \in L
      OBVIOUS
    <3>1. x \notin K
      BY BothType
    <3>2. PICK m \in 1 .. n - 1 : Both(g, FALSE, K, roots[m], x)
      BY <1>6, <3>1
    <3>3. Both(g, FALSE, K, roots[m], y)
      BY <1>3, <1>4, <3>2, BothType
    <3> QED BY <1>6, <3>3
  <2>2. ASSUME NEW x \in Blocks, x \notin L, Leads(g, FALSE, K, x, root)
        PROVE  Both(g, FALSE, K, root, x)
    <3>1. x \notin K
      BY <1>6, <2>2
    <3>2. PICK i \in 1 .. Len(roots) : roots[i] = x
      BY <3>1 DEF Rooted
    <3>3. PICK k \in 1 .. Len(roots) : k <= n /\ Both(g, FALSE, K, x, roots[k])
      BY <1>1, <2>2, <3>2 DEF Rooted
    <3>4. k \in 1 .. n
      BY <1>2, <3>3
    <3>5. Both(g, FALSE, K, roots[k], x)
      BY <1>3, <3>3, <3>4, BothType
    <3>6. k \notin 1 .. n - 1
      BY <1>6, <2>2, <3>5
    <3> QED BY <1>3, <3>4, <3>5, <3>6
  <2>3. PICK B : B = Reached(g, TRUE, L, {root})
    OBVIOUS
  <2>4. K \subseteq L
    BY <1>6
  <2>5. \A x \in Blocks : x \in B <=> Both(g, FALSE, K, root, x)
    BY <1>2, <1>6, <1>9, <2>1, <2>2, <2>3, <2>4, SecondReaches
  <2>6. B \in SUBSET Blocks /\ B \cap L = {}
    <3>1. PICK back \in BOOLEAN : back = TRUE
      OBVIOUS
    <3>2. PICK S \in SUBSET Blocks : S = {root}
      BY <1>2
    <3>3. B = Reached(g, back, L, S)
      BY <2>3, <3>1, <3>2
    <3> QED BY <1>6, <3>3, ReachedIsLeast
  <2>7. PICK new : new = OneRoot(g, root, acc)
    OBVIOUS
  <2>8. /\ new \in Splits /\ new.grey = L \cup B
        /\ \A b \in Blocks : new.sccs[b] = IF b \in B THEN root ELSE acc.sccs[b]
    <3>1. /\ OneRoot(g, root, acc) \in Splits
          /\ OneRoot(g, root, acc).grey = acc.grey \cup Reached(g, TRUE, acc.grey, {root})
          /\ \A b \in Blocks : OneRoot(g, root, acc).sccs[b] =
               IF b \in Reached(g, TRUE, acc.grey, {root}) THEN root ELSE acc.sccs[b]
      BY <1>2, <1>5, <1>6, <1>9, OneRootIs
    <3> QED BY <1>5, <2>3, <2>7, <3>1
  <2>9. \A x \in Blocks : x \in new.grey <=>
          x \in K \/ \E m \in 1 .. n : Both(g, FALSE, K, roots[m], x)
    <3> TAKE x \in Blocks
    <3>1. ASSUME NEW m \in 1 .. n, Both(g, FALSE, K, roots[m], x) PROVE x \in L \cup B
      BY <1>3, <1>6, <2>5, <3>1
    <3>2. x \in B => Both(g, FALSE, K, roots[n], x)
      BY <1>1, <2>5
    <3> QED BY <1>4, <1>6, <1>7, <2>8, <3>1, <3>2
  <2>10. \A x \in Blocks : x \notin new.grey \/ x \in K => new.sccs[x] = Outside
    <3>1. \A x \in Blocks : x \notin L \/ x \in K => acc.sccs[x] = Outside
      BY <1>5 DEF Split
    <3> QED BY <2>4, <2>6, <2>8, <3>1
  <2>11. \A x \in new.grey : x \notin K =>
           new.sccs[x] \in Blocks /\ Both(g, FALSE, K, x, new.sccs[x])
    <3> SUFFICES ASSUME NEW x \in new.grey, x \notin K
                 PROVE  new.sccs[x] \in Blocks /\ Both(g, FALSE, K, x, new.sccs[x])
      OBVIOUS
    <3>1. x \in Blocks /\ (x \in L \/ x \in B)
      BY <1>6, <2>6, <2>8
    <3>2. CASE x \in B
      <4>1. Both(g, FALSE, K, x, root)
        BY <1>2, <2>5, <3>1, <3>2, BothType
      <4> QED BY <1>2, <2>8, <3>1, <3>2, <4>1
    <3>3. CASE x \notin B
      BY <1>5, <2>8, <3>1, <3>3 DEF Split
    <3> QED BY <3>2, <3>3
  <2>12. \A x, y \in new.grey : Both(g, FALSE, K, x, y) => new.sccs[x] = new.sccs[y]
    <3> SUFFICES ASSUME NEW x \in new.grey, NEW y \in new.grey, Both(g, FALSE, K, x, y)
                 PROVE  new.sccs[x] = new.sccs[y]
      OBVIOUS
    <3>1. x \in Blocks /\ y \in Blocks /\ (x \in L \/ x \in B) /\ (y \in L \/ y \in B)
      BY <1>6, <2>6, <2>8
    <3>2. Both(g, FALSE, K, y, x)
      BY <3>1, BothType
    <3>3. CASE x \in B
      <4>1. y \in B
        BY <1>2, <2>5, <3>1, <3>3, BothType
      <4> QED BY <2>8, <3>1, <3>3, <4>1
    <3>4. CASE x \notin B
      <4>1. y \notin B
        BY <1>2, <2>5, <3>1, <3>2, <3>4, BothType
      <4>2. acc.sccs[x] = acc.sccs[y]
        BY <1>5, <3>1, <3>4, <4>1 DEF Split
      <4> QED BY <2>8, <3>1, <3>4, <4>1, <4>2
    <3> QED BY <3>3, <3>4
  <2>13. Split(g, K, roots, n, new)
    BY <2>8, <2>9, <2>10, <2>11, <2>12 DEF Split
  <2> QED BY <1>1, <2>7, <2>13
<1> QED BY <1>8, <1>9

(* findSCCs splits the blocks into the classes of Both. *)
Classes(g, K, sccs) ==
  /\ \A x \in Blocks : x \in K => sccs[x] = Outside
  /\ \A x \in Blocks : x \notin K =>
       sccs[x] \in Blocks /\ Both(g, FALSE, K, x, sccs[x])
  /\ \A x, y \in Blocks : Both(g, FALSE, K, x, y) => sccs[x] = sccs[y]

LEMMA SplitIsRight ==
  ASSUME NEW g \in Graphs, NEW K \in SUBSET Blocks
  PROVE  Classes(g, K, FindSCCs(g, K))
<1>1. PICK roots : roots = FirstOrder(g, K)
  OBVIOUS
<1>2. PICK N : N = Len(roots)
  OBVIOUS
<1>3. Rooted(g, K, roots) /\ roots \in Seq(Blocks) /\ N \in Nat
  <2>1. Rooted(g, K, roots)
    BY <1>1, FirstOrderRooted
  <2>2. roots \in Seq(Blocks)
    BY <2>1 DEF Rooted
  <2>3. Len(roots) \in Nat
    BY <2>2
  <2> QED BY <1>2, <2>1, <2>2, <2>3
<1>4. PICK U : U = CHOOSE W : IsUpTo(W, g, K, roots)
  OBVIOUS
<1>5. IsUpTo(U, g, K, roots)
  BY <1>3, <1>4, UpToExists
<1>6. FindSCCs(g, K) = U[N].sccs
  BY <1>1, <1>2, <1>4 DEF FindSCCs, IsUpTo, OneRoot, NoneSplit
<1>7. U[0] = NoneSplit(K) /\ \A n \in 1 .. N : U[n] = OneRoot(g, roots[n], U[n - 1])
  <2>1. \A n \in 1 .. N : n \in 0 .. N /\ n # 0
    BY <1>3
  <2>2. 0 \in 0 .. N
    BY <1>3
  <2>3. \A n \in 0 .. N : U[n] = IF n = 0 THEN NoneSplit(K) ELSE OneRoot(g, roots[n], U[n - 1])
    BY <1>2, <1>5 DEF IsUpTo
  <2> QED BY <2>1, <2>2, <2>3
<1> DEFINE Bad == {n \in 0 .. N : ~ Split(g, K, roots, n, U[n])}
<1>8. Bad = {}
  <2> SUFFICES ASSUME Bad # {} PROVE FALSE
    OBVIOUS
  <2>1. PICK n \in Bad : \A m \in Bad : n <= m
    <3>1. Bad \in SUBSET Nat
      BY <1>3
    <3> HIDE DEF Bad
    <3> QED BY <3>1, LeastNatural
  <2>2. n \in 0 .. N /\ ~ Split(g, K, roots, n, U[n])
    BY <2>1
  <2>3. n # 0
    BY <1>7, <2>2, SplitStart
  <2>4. n \in 1 .. N /\ n - 1 \in 0 .. N /\ ~(n <= n - 1)
    BY <1>3, <2>2, <2>3
  <2>5. Split(g, K, roots, n - 1, U[n - 1])
    BY <2>1, <2>4
  <2>6. Split(g, K, roots, n, OneRoot(g, roots[n], U[n - 1]))
    BY <1>2, <1>3, <2>4, <2>5, SplitStep
  <2> QED BY <1>7, <2>2, <2>4, <2>6
<1>9. PICK acc : acc = U[N]
  OBVIOUS
<1>10. Split(g, K, roots, N, acc)
  <2>1. N \in 0 .. N
    BY <1>3
  <2> QED BY <1>8, <1>9, <2>1
<1>11. \A x \in Blocks : x \in acc.grey
  <2> TAKE x \in Blocks
  <2>1. CASE x \in K
    BY <1>10, <2>1 DEF Split
  <2>2. CASE x \notin K
    <3>1. PICK m \in 1 .. N : roots[m] = x
      BY <1>2, <1>3, <2>2 DEF Rooted
    <3>2. Both(g, FALSE, K, roots[m], x)
      BY <2>2, <3>1, BothType
    <3> QED BY <1>10, <3>2 DEF Split
  <2> QED BY <2>1, <2>2
<1>12. /\ \A x \in Blocks : x \in K => acc.sccs[x] = Outside
       /\ \A x \in Blocks : x \notin K =>
            acc.sccs[x] \in Blocks /\ Both(g, FALSE, K, x, acc.sccs[x])
       /\ \A x, y \in Blocks : Both(g, FALSE, K, x, y) => acc.sccs[x] = acc.sccs[y]
  BY <1>10, <1>11 DEF Split
<1>13. Classes(g, K, acc.sccs)
  BY <1>12 DEF Classes
<1> QED BY <1>6, <1>9, <1>13

(* To lead to a block is to reach it on a simple path. *)
LEMMA LeadsIsReaches ==
  ASSUME NEW g \in Graphs, NEW K \in SUBSET Blocks, NEW b \in Blocks, b \notin K,
         NEW c \in Blocks, c \notin K
  PROVE  Reaches(g, K, b, c) <=> Leads(g, FALSE, K, b, c)
<1>1. PICK back \in BOOLEAN : back = FALSE
  OBVIOUS
<1>2. PICK S \in SUBSET Blocks : S = {b}
  OBVIOUS
<1>3. PICK R : R = Reached(g, back, K, S)
  OBVIOUS
<1>4. /\ R \in SUBSET Blocks /\ S \ K \subseteq R /\ Closed(g, back, K, R)
      /\ \A C \in SUBSET Blocks : S \ K \subseteq C /\ Closed(g, back, K, C) => R \subseteq C
  BY <1>3, ReachedIsLeast
<1>5. \A y : Leads(g, FALSE, K, b, y) <=> y \in R
  BY <1>1, <1>2, <1>3 DEF Leads
<1>6. \A y : Arcs(g, back, y) = Succ(g, y)
  BY <1>1 DEF Arcs
<1>7. b \in R
  BY <1>2, <1>4
<1>8. ASSUME c \in R PROVE Reaches(g, K, b, c)
  <2> DEFINE C == {x \in Blocks \ K : Reaches(g, K, b, x)}
  <2>1. b \in C
    BY DEF Reaches
  <2>2. Closed(g, back, K, C)
    <3> SUFFICES ASSUME NEW y \in C, NEW z \in Succ(g, y), z \notin K PROVE z \in C
      BY <1>6 DEF Closed
    <3>1. z \in Blocks /\ Reaches(g, K, b, z)
      BY ReachesOnward
    <3> QED BY <3>1
  <2>3. R \subseteq C
    <3>1. C \in SUBSET Blocks /\ S \ K \subseteq C
      BY <1>2, <2>1
    <3> HIDE DEF C
    <3> QED BY <1>4, <2>2, <3>1
  <2> QED BY <1>8, <2>3
<1>9. ASSUME Reaches(g, K, b, c), b # c PROVE c \in R
  <2>1. PICK p : p \in Walks(g, K, b, c)
    BY <1>9, PathIsWalk DEF Reaches
  <2>2. /\ p \in Seq(Blocks) /\ Len(p) \in Nat /\ Len(p) >= 2 /\ p[1] = b /\ p[Len(p)] = c
        /\ IsWalk(g, p) /\ \A n \in 1 .. Len(p) - 1 : p[n] \notin K
    BY <2>1 DEF Walks
  <2>3. \A n \in 1 .. Len(p) : p[n] \notin K
    <3>1. \A n \in 1 .. Len(p) : n \in 1 .. Len(p) - 1 \/ n = Len(p)
      BY <2>2
    <3> QED BY <2>2, <3>1
  <2> DEFINE Bad == {n \in 1 .. Len(p) : p[n] \notin R}
  <2>4. Bad = {}
    <3> SUFFICES ASSUME Bad # {} PROVE FALSE
      OBVIOUS
    <3>1. PICK n \in Bad : \A m \in Bad : n <= m
      <4>1. Bad \in SUBSET Nat
        BY <2>2
      <4> HIDE DEF Bad
      <4> QED BY <4>1, LeastNatural
    <3>2. n \in 1 .. Len(p) /\ p[n] \notin R
      BY <3>1
    <3>3. n # 1
      BY <1>7, <2>2, <3>2
    <3>4. n - 1 \in 1 .. Len(p) /\ n - 1 \in 1 .. Len(p) - 1 /\ ~(n <= n - 1) /\ n - 1 + 1 = n
      BY <2>2, <3>2, <3>3
    <3>5. p[n - 1] \in R
      BY <3>1, <3>4
    <3>6. p[n] \in Succ(g, p[n - 1])
      BY <2>2, <3>4 DEF IsWalk
    <3> QED BY <1>4, <1>6, <2>3, <3>2, <3>5, <3>6 DEF Closed
  <2>5. Len(p) \in 1 .. Len(p)
    BY <2>2
  <2> QED BY <2>2, <2>4, <2>5
<1> QED BY <1>5, <1>7, <1>8, <1>9

(* findSCCs gives two blocks the same canonical element iff each reaches   *)
(* the other without the skipped blocks, for every graph.                  *)
THEOREM SCCsAreFound ==
  ASSUME NEW g \in Graphs, NEW K \in SUBSET Blocks
  PROVE  \A b1, b2 \in Blocks : FindSCCs(g, K)[b1] = FindSCCs(g, K)[b2] <=> SameSCC(g, K, b1, b2)
<1>1. PICK sccs : sccs = FindSCCs(g, K)
  OBVIOUS
<1>2. /\ \A x \in Blocks : x \in K => sccs[x] = Outside
      /\ \A x \in Blocks : x \notin K =>
           sccs[x] \in Blocks /\ Both(g, FALSE, K, x, sccs[x])
      /\ \A x, y \in Blocks : Both(g, FALSE, K, x, y) => sccs[x] = sccs[y]
  <2>1. Classes(g, K, sccs)
    BY <1>1, SplitIsRight
  <2> QED BY <2>1 DEF Classes
<1> SUFFICES ASSUME NEW x \in Blocks, NEW y \in Blocks
             PROVE  sccs[x] = sccs[y] <=> SameSCC(g, K, x, y)
  BY <1>1
<1>3. CASE x \in K \/ y \in K
  <2>1. SameSCC(g, K, x, y) <=> x \in K /\ y \in K
    BY <1>3 DEF SameSCC
  <2>2. \A z \in Blocks : z \in K <=> sccs[z] = Outside
    <3> SUFFICES ASSUME NEW z \in Blocks PROVE z \in K <=> sccs[z] = Outside
      OBVIOUS
    <3>1. z \in K => sccs[z] = Outside
      BY <1>2
    <3>2. z \notin K => sccs[z] \in Blocks
      BY <1>2
    <3> QED BY <3>1, <3>2, OutsideAssumption
  <2>3. x \in K /\ y \in K <=> sccs[x] = sccs[y]
    BY <1>3, <2>2
  <2> QED BY <2>1, <2>3
<1>4. CASE x \notin K /\ y \notin K
  <2>1. SameSCC(g, K, x, y) <=> Both(g, FALSE, K, x, y)
    BY <1>4, LeadsIsReaches DEF SameSCC, Both
  <2>2. ASSUME sccs[x] = sccs[y] PROVE Both(g, FALSE, K, x, y)
    <3>1. PICK z \in Blocks : z = sccs[x] /\ z = sccs[y]
      BY <1>2, <1>4, <2>2
    <3>2. Both(g, FALSE, K, x, z) /\ Both(g, FALSE, K, y, z)
      BY <1>2, <1>4, <3>1
    <3> QED BY <3>2, BothType
  <2> QED BY <1>2, <2>1, <2>2
<1> QED BY <1>3, <1>4

-----------------------------------------------------------------------------
(* What is cached is what findSCCs returned. *)
CacheInv ==
  /\ func \in Graphs
  /\ \A c \in sccCache : /\ c.site \in Blocks \cup {Outside}
                         /\ c.sccs = FindSCCs(func, {c.site} \ {Outside})

LEMMA CacheStep ==
  ASSUME CacheInv, [Next]_vars
  PROVE  CacheInv'
<1>1. ASSUME NEW site \in Blocks \cup {Outside}, NEW src \in Blocks, NEW dst \in Blocks,
             FindPaths(site, src, dst)
      PROVE  CacheInv'
  BY <1>1 DEF FindPaths, CacheInv
<1>2. ASSUME NEW site \in Blocks \cup {Outside}, FindSCCsCached(site)
      PROVE  CacheInv'
  <2>1. PICK new : new = [site |-> site, sccs |-> FindSCCs(func, {site} \ {Outside})]
    OBVIOUS
  <2>2. new.site = site /\ new.sccs = FindSCCs(func, {site} \ {Outside})
    BY <2>1
  <2>3. func' = func /\ \A c \in sccCache' : c \in sccCache \/ c = new
    BY <1>2, <2>1 DEF FindSCCsCached
  <2> QED BY <2>2, <2>3 DEF CacheInv
<1>3. CASE UNCHANGED vars
  BY <1>3 DEF vars, CacheInv
<1> QED BY <1>1, <1>2, <1>3 DEF Next

(* What findSCCsCached keeps for a bind site tells the components without  *)
(* that block.                                                             *)
THEOREM SCCsAreRight == Spec => []SCCsRight
<1>1. Init => CacheInv
  BY DEF Init, CacheInv
<1>2. CacheInv /\ [Next]_vars => CacheInv'
  BY CacheStep
<1>3. CacheInv => SCCsRight
  <2> SUFFICES ASSUME CacheInv, NEW c \in sccCache, NEW b1 \in Blocks, NEW b2 \in Blocks
               PROVE  c.sccs[b1] = c.sccs[b2] <=> SameSCC(func, {c.site} \ {Outside}, b1, b2)
    BY DEF SCCsRight
  <2>1. PICK K \in SUBSET Blocks : K = {c.site} \ {Outside}
    BY DEF CacheInv
  <2>2. func \in Graphs /\ c.sccs = FindSCCs(func, K)
    BY <2>1 DEF CacheInv
  <2>3. FindSCCs(func, K)[b1] = FindSCCs(func, K)[b2] <=> SameSCC(func, K, b1, b2)
    BY <2>2, SCCsAreFound
  <2> QED BY <2>1, <2>2, <2>3
<1> QED BY <1>1, <1>2, <1>3, PTL DEF Spec

=============================================================================
