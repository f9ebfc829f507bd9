--------------------------- MODULE MSQueue_proofs ---------------------------
(***************************************************************************)
(* The queues are queues, for any threads, nodes, queues and scripts:      *)
(* whatever is late, values leave in turn and once, no node is in two      *)
(* places, and a dequeue that finds nothing was called on a queue that was *)
(* empty at an instant.                                                    *)
(*                                                                         *)
(* The lists that start at head_ of the stack and of each queue are paths  *)
(* without a repetition (ListsOK); they, the nodes in hand and the new     *)
(* nodes are apart (ApartOK) and are all there is (AllPlaced).  The        *)
(* generations of head_ and tail_ differ by the nodes between (TailsOK).   *)
(* A word that a thread read is current if its generation is (Seen), so a  *)
(* compare-and-exchange that succeeds acts on the list the thread meant    *)
(* (ThreadOK).  Of the other threads a thread relies on what Rely says;    *)
(* that is enough for what it knows (Stable).  Each action then has one    *)
(* lemma, named for it.                                                    *)
(***************************************************************************)
EXTENDS MSQueue, SequenceTheorems, FiniteSetTheorems, NaturalsInduction,
        WellFoundedInduction, TLAPS

NodesOrNull == Nodes \cup {Null}
Words == [ptr : NodesOrNull, gen : Nat]
Frames == [old : Words, under : NodesOrNull, node : NodesOrNull,
           head : Words, tail : Words, next : Words, data : Nat]

(* In enqueue and in dequeue; with a node in hand.                         *)
Linking    == {"enqTail", "enqNext", "enqCheck", "enqCas", "enqSwing"}
Enqueueing == Linking \cup
  {"popLook", "popCas", "fill", "loadNext", "storeNext", "enqFinish"}
Returning  == {"push", "pushLink", "pushCas"}
Dequeueing == Returning \cup
  {"deqHead", "deqTail", "deqNext", "deqCheck", "deqSwing", "deqData", "deqCas", "empty"}
Holding    == Linking \cup Returning \cup {"fill", "loadNext", "storeNext"}

TypeOK ==
  /\ top \in Words
  /\ below \in [Nodes -> NodesOrNull]
  /\ fresh \in SUBSET Nodes
  /\ pc \in [Threads -> Enqueueing \cup Dequeueing \cup {"idle"}]
  /\ frame \in [Threads -> Frames]
  /\ next \in [Nodes -> Words]
  /\ data \in [Nodes -> Nat]
  /\ head \in [Queues -> Words]
  /\ tail \in [Queues -> Words]
  /\ script \in [Threads -> Seq(Operations)]
  /\ got \in [Threads -> Seq(Nat)]
  /\ wasEmpty \in [Threads -> BOOLEAN]

(* s is where the links lead from n. *)
Nth(s, k) == IF k \in 1 .. Len(s) THEN s[k] ELSE Null
Path(link, n, s) ==
  /\ s \in Seq(Nodes)
  /\ \A j, k \in 1 .. Len(s) : s[j] = s[k] => j = k
  /\ n = Nth(s, 1)
  /\ \A k \in 1 .. Len(s) : link[s[k]] = Nth(s, k + 1)

ListsOK ==
  /\ Path(below, top.ptr, FreeNodes)
  /\ \A q \in Queues : Path(NextNode, head[q].ptr, QueueNodes(q)) /\ head[q].ptr # Null

(* Who has which node. *)
NodesIn(s) == {s[k] : k \in 1 .. Len(s)}
InStack     == NodesIn(FreeNodes)
In(q)    == NodesIn(QueueNodes(q))
Owned(t) == IF pc[t] \in Holding THEN {frame[t].node} ELSE {}

ApartOK ==
  /\ fresh \cap InStack = {}
  /\ \A q \in Queues : In(q) \cap (fresh \cup InStack) = {}
  /\ \A p, q \in Queues : p # q => In(p) \cap In(q) = {}
  /\ \A t \in Threads : Owned(t) \subseteq Nodes \ (fresh \cup InStack)
  /\ \A t \in Threads, q \in Queues : Owned(t) \cap In(q) = {}
  /\ \A t, u \in Threads : t # u => Owned(t) \cap Owned(u) = {}

AllPlaced ==
  \A n \in Nodes : \/ n \in fresh \cup InStack
                   \/ \E q \in Queues : n \in In(q)
                   \/ \E t \in Threads : n \in Owned(t)

(* The generations of head and tail count the nodes that left and those   *)
(* that the tail went past.                                                *)
TailOK(q) ==
  LET pos == tail[q].gen - head[q].gen + 1 IN
  pos \in 1 .. Len(QueueNodes(q)) /\ tail[q].ptr = QueueNodes(q)[pos]
TailsOK == \A q \in Queues : TailOK(q)

(* A word that was read; if its generation is current so is all of it. *)
Seen(w, now) == w.gen <= now.gen /\ (w.gen = now.gen => w = now)

(* n comes after the tail that was read, as long as that is the tail. *)
AfterTail(t, n) ==
  /\ n # Null
  /\ tail[Queue(t)] = frame[t].tail => next[frame[t].tail.ptr].ptr = n

ScriptFits(t) ==
  /\ pc[t] \in Enqueueing => script[t] # <<>> /\ Doing(t).op = "enq"
  /\ pc[t] \in Dequeueing => script[t] # <<>> /\ Doing(t).op = "deq"

StackOK(t) ==
  LET f == frame[t] IN
  /\ pc[t] \in {"popLook", "popCas"} => Seen(f.old, top)
  /\ pc[t] = "popCas" => /\ f.old.ptr # Null
                         /\ (f.old = top => f.under = below[f.old.ptr])
  /\ pc[t] = "pushCas" => below[f.node] = f.old.ptr

HandOK(t) ==
  LET f == frame[t] IN
  /\ pc[t] = "storeNext" => f.next = next[f.node]
  /\ pc[t] \in Linking => next[f.node].ptr = Null
  /\ pc[t] \in Linking \cup {"loadNext", "storeNext"} => data[f.node] = Doing(t).v

EnqOK(t) ==
  LET f == frame[t]  q == Queue(t) IN
  /\ pc[t] \in {"enqNext", "enqCheck", "enqCas", "enqSwing", "enqFinish"} =>
        Seen(f.tail, tail[q]) /\ f.tail.ptr # Null
  /\ pc[t] \in {"enqCheck", "enqCas"} => Seen(f.next, next[f.tail.ptr])
  /\ pc[t] = "enqCheck" /\ tail[q] = f.tail /\ f.next.ptr # Null
        => next[f.tail.ptr] = f.next
  /\ pc[t] = "enqCas" =>
        f.next.ptr = Null /\ (next[f.tail.ptr] = f.next => f.tail.ptr \in In(q))
  /\ pc[t] = "enqSwing" => AfterTail(t, f.next.ptr)
  /\ pc[t] = "enqFinish" => AfterTail(t, f.node)

DeqOK(t) ==
  LET f == frame[t]  q == Queue(t) IN
  /\ pc[t] \in {"deqTail", "deqNext", "deqCheck", "deqData", "deqCas"} =>
        Seen(f.head, head[q]) /\ f.head.ptr # Null
  /\ pc[t] \in {"deqNext", "deqCheck", "deqSwing"} =>
        Seen(f.tail, tail[q]) /\ f.tail.ptr # Null
  /\ /\ pc[t] \in {"deqNext", "deqCheck", "deqData", "deqCas"}
     /\ head[q] = f.head /\ f.tail # f.head
     => tail[q].gen > head[q].gen
  /\ pc[t] = "deqCheck" /\ head[q] = f.head =>
        /\ (f.next.ptr # Null => next[f.head.ptr] = f.next)
        /\ (f.next.ptr = Null => f.tail = f.head /\ wasEmpty[t])
  /\ pc[t] \in {"deqData", "deqCas"} =>
        /\ f.tail # f.head /\ f.next.ptr # Null
        /\ (head[q] = f.head => next[f.head.ptr].ptr = f.next.ptr)
  /\ pc[t] = "deqCas" /\ head[q] = f.head => f.data = data[f.next.ptr]
  /\ pc[t] = "deqSwing" => AfterTail(t, f.next.ptr)
  /\ pc[t] = "empty" => wasEmpty[t]

ThreadOK(t) == ScriptFits(t) /\ StackOK(t) /\ HandOK(t) /\ EnqOK(t) /\ DeqOK(t)
ThreadsOK == \A t \in Threads : ThreadOK(t)

IInv == TypeOK /\ ListsOK /\ ApartOK /\ AllPlaced /\ TailsOK /\ ThreadsOK

-----------------------------------------------------------------------------
(* Paths, for any links.                                                   *)

(* A set of numbers has a least one. *)
LEMMA LeastNumber ==
  ASSUME NEW T \in SUBSET Nat, T # {}
  PROVE  \E n \in T : \A m \in T : n <= m
<1>1. PICK n \in T : \A m \in T : ~(<<m, n>> \in OpToRel(<, Nat))
  BY NatLessThanWellFounded, WFMin
<1>2. \A m \in T : ~(m < n)
  BY <1>1 DEF OpToRel
<1> QED
  BY <1>2

(* A path has no more nodes than there are. *)
LEMMA PathLength ==
  ASSUME NEW link, NEW n, NEW s, Path(link, n, s)
  PROVE  /\ Len(s) \in Nat /\ Cardinality(Nodes) \in Nat
         /\ Len(s) <= Cardinality(Nodes)
<1>1. s \in [1 .. Len(s) -> Nodes] /\ Len(s) \in Nat
  BY DEF Path
<1>2. IsFiniteSet(1 .. Len(s)) /\ Cardinality(1 .. Len(s)) = Len(s)
  <2>1. Cardinality(1 .. Len(s)) = IF 1 > Len(s) THEN 0 ELSE Len(s) - 1 + 1
    BY <1>1, FS_Interval
  <2>2. IsFiniteSet(1 .. Len(s))
    BY <1>1, FS_Interval
  <2> QED
    BY <1>1, <2>1, <2>2
<1>3. Cardinality(Nodes) \in Nat
  BY NodesAssumption, FS_CardinalityType
<1>4. Len(s) <= Cardinality(Nodes)
  <2> SUFFICES ASSUME Cardinality(Nodes) < Len(s) PROVE FALSE
    BY <1>1, <1>3
  <2>1. \E j, k \in 1 .. Len(s) : j # k /\ s[j] = s[k]
    BY <1>1, <1>2, NodesAssumption, FS_PigeonHole
  <2> QED
    BY <2>1 DEF Path
<1> QED
  BY <1>1, <1>3, <1>4

(* What Chain returns is the path there is. *)
LEMMA ChainIsPath ==
  ASSUME NEW link, NEW n, NEW s, Path(link, n, s)
  PROVE  Chain(link, n) = s
<1> DEFINE N == Cardinality(Nodes)
           at[k \in 0 .. N] == IF k = 0 THEN n
                               ELSE IF at[k - 1] = Null THEN Null ELSE link[at[k - 1]]
<1>1. s \in Seq(Nodes) /\ Len(s) \in Nat /\ N \in Nat /\ Len(s) <= N
  BY PathLength DEF Path
<1>2. \A k \in 1 .. Len(s) : s[k] \in Nodes /\ s[k] # Null
  BY <1>1, NodesAssumption
<1>3. ASSUME NEW k \in 0 .. N
      PROVE  Nth(s, k + 1) = IF k = 0 THEN n
                             ELSE IF Nth(s, k) = Null THEN Null ELSE link[Nth(s, k)]
  <2>1. CASE k = 0
    BY <2>1 DEF Path
  <2>2. CASE k \in 1 .. Len(s)
    BY <2>2, <1>1, <1>2 DEF Path, Nth
  <2>3. CASE k # 0 /\ k \notin 1 .. Len(s)
    <3>1. Nth(s, k) = Null /\ Nth(s, k + 1) = Null
      BY <2>3, <1>1 DEF Nth
    <3> QED
      BY <3>1, <2>3
  <2> QED
    BY <2>1, <2>2, <2>3
<1>4. at = [k \in 0 .. N |-> IF k = 0 THEN n
                             ELSE IF at[k - 1] = Null THEN Null ELSE link[at[k - 1]]]
  <2> DEFINE g == [k \in 0 .. N |-> Nth(s, k + 1)]
             h == [k \in 0 .. N |-> IF k = 0 THEN n
                                    ELSE IF g[k - 1] = Null THEN Null ELSE link[g[k - 1]]]
  <2>1. ASSUME NEW k \in 0 .. N
        PROVE  g[k] = h[k]
    <3>1. k # 0 => k - 1 \in 0 .. N /\ (k - 1) + 1 = k
      BY <1>1
    <3>2. k # 0 => g[k - 1] = Nth(s, k)
      BY <3>1
    <3> QED
      BY <3>2, <1>3
  <2>2. g = h
    <3> HIDE DEF g
    <3>1. DOMAIN g = 0 .. N /\ g = [k \in 0 .. N |-> g[k]]
      BY DEF g
    <3> QED
      BY <2>1, <3>1
  <2> HIDE DEF g
  <2>3. \E f : f = [k \in 0 .. N |-> IF k = 0 THEN n
                                     ELSE IF f[k - 1] = Null THEN Null ELSE link[f[k - 1]]]
    BY <2>2
  <2> QED
    BY <2>3
<1> HIDE DEF at
<1>5. \A k \in 0 .. N : at[k] = Nth(s, k + 1)
  <2> DEFINE Wrong == {k \in 0 .. N : at[k] # Nth(s, k + 1)}
  <2> SUFFICES ASSUME Wrong # {} PROVE FALSE
    OBVIOUS
  <2>1. Wrong \in SUBSET Nat
    BY <1>1
  <2>2. PICK k \in Wrong : \A m \in Wrong : k <= m
    <3> HIDE DEF Wrong
    <3> QED
      BY <2>1, LeastNumber
  <2>3. k \in 0 .. N /\ at[k] # Nth(s, k + 1)
    BY <2>2
  <2>4. k # 0
    BY <2>3, <1>4, <1>3, <1>1
  <2>5. k - 1 \in 0 .. N /\ (k - 1) + 1 = k /\ ~ (k <= k - 1)
    BY <2>3, <2>4, <1>1
  <2>6. k - 1 \notin Wrong
    <3> HIDE DEF Wrong
    <3> QED
      BY <2>2, <2>5
  <2>7. at[k - 1] = Nth(s, k)
    BY <2>5, <2>6
  <2> QED
    BY <2>3, <2>4, <2>7, <1>3, <1>4
<1>6. Chain(link, n) = [k \in {j \in 1 .. N + 1 : at[j - 1] # Null} |-> at[k - 1]]
  BY DEF Chain, at
<1>7. \A k \in 1 .. N + 1 : at[k - 1] = Nth(s, k)
  <2> TAKE k \in 1 .. N + 1
  <2>1. k - 1 \in 0 .. N /\ (k - 1) + 1 = k
    BY <1>1
  <2> QED
    BY <2>1, <1>5
<1>8. {j \in 1 .. N + 1 : at[j - 1] # Null} = 1 .. Len(s)
  BY <1>1, <1>2, <1>7 DEF Nth
<1>9. [k \in {j \in 1 .. N + 1 : at[j - 1] # Null} |-> at[k - 1]] = [k \in 1 .. Len(s) |-> s[k]]
  BY <1>1, <1>7, <1>8 DEF Nth
<1>10. s = [k \in 1 .. Len(s) |-> s[k]]
  BY <1>1
<1> QED
  BY <1>6, <1>9, <1>10

(* Links elsewhere do not matter. *)
LEMMA PathElsewhere ==
  ASSUME NEW link, NEW n, NEW s, Path(link, n, s),
         NEW link2, \A m \in NodesIn(s) : link2[m] = link[m]
  PROVE  Path(link2, n, s)
BY DEF Path, NodesIn

(* Where a path is empty. *)
LEMMA PathStart ==
  ASSUME NEW link, NEW n, NEW s, Path(link, n, s)
  PROVE  /\ Len(s) \in Nat /\ NodesIn(s) \subseteq Nodes
         /\ n = Null => s = <<>> /\ Len(s) = 0
         /\ n # Null => 1 \in 1 .. Len(s) /\ n = s[1] /\ n \in NodesIn(s)
<1>1. s \in Seq(Nodes) /\ Len(s) \in Nat /\ n = Nth(s, 1)
  BY DEF Path
<1>2. NodesIn(s) \subseteq Nodes
  BY <1>1 DEF NodesIn
<1>3. n = Null => Len(s) = 0
  BY <1>1, NodesAssumption DEF Nth
<1>4. n # Null => 1 \in 1 .. Len(s) /\ n = s[1]
  BY <1>1 DEF Nth
<1>5. n = Null => s = <<>>
  BY <1>1, <1>3
<1>6. n # Null => n \in NodesIn(s)
  BY <1>4 DEF NodesIn
<1> QED
  BY <1>1, <1>2, <1>3, <1>4, <1>5, <1>6

(* The link of a node on a path, and of the last one.                      *)
LEMMA PathLink ==
  ASSUME NEW link, NEW n, NEW s, Path(link, n, s), NEW k \in 1 .. Len(s)
  PROVE  /\ s[k] \in Nodes /\ s[k] \in NodesIn(s)
         /\ link[s[k]] = Null => k = Len(s)
         /\ link[s[k]] # Null => k + 1 \in 1 .. Len(s) /\ link[s[k]] = s[k + 1]
<1>1. s \in Seq(Nodes) /\ Len(s) \in Nat /\ link[s[k]] = Nth(s, k + 1)
  BY DEF Path
<1>2. s[k] \in Nodes /\ s[k] \in NodesIn(s)
  BY <1>1 DEF NodesIn
<1>3. CASE k = Len(s)
  <2>1. k + 1 \notin 1 .. Len(s)
    BY <1>1, <1>3
  <2> QED
    BY <1>1, <1>2, <1>3, <2>1 DEF Nth
<1>4. CASE k # Len(s)
  <2>1. k + 1 \in 1 .. Len(s)
    BY <1>1, <1>4
  <2>2. s[k + 1] \in Nodes /\ s[k + 1] # Null
    BY <1>1, <2>1, NodesAssumption
  <2> QED
    BY <1>1, <1>2, <2>1, <2>2 DEF Nth
<1> QED
  BY <1>3, <1>4

(* The rest of a path, after its first node. *)
LEMMA PathTail ==
  ASSUME NEW link, NEW n, NEW s, Path(link, n, s), n # Null
  PROVE  /\ Path(link, link[n], Tail(s))
         /\ Len(Tail(s)) = Len(s) - 1
         /\ \A k \in 1 .. Len(s) - 1 : Tail(s)[k] = s[k + 1]
         /\ NodesIn(s) = {n} \cup NodesIn(Tail(s))
         /\ n \notin NodesIn(Tail(s))
<1>1. s \in Seq(Nodes) /\ Len(s) \in Nat /\ 1 \in 1 .. Len(s) /\ n = s[1]
  BY PathStart DEF Path
<1>2. /\ Tail(s) \in Seq(Nodes) /\ Len(Tail(s)) = Len(s) - 1
      /\ \A k \in 1 .. Len(s) - 1 : Tail(s)[k] = s[k + 1]
  <2>1. s # <<>>
    BY <1>1
  <2>2. Len(Tail(s)) = Len(s) - 1 /\ \A k \in 1 .. Len(Tail(s)) : Tail(s)[k] = s[k + 1]
    BY <1>1, <2>1, HeadTailProperties
  <2>3. Tail(s) \in Seq(Nodes)
    BY <1>1, <2>1, HeadTailProperties
  <2> QED
    BY <2>2, <2>3
<1> DEFINE r == Tail(s)
<1> HIDE DEF r
<1>3. \A k \in Nat : Nth(r, k) = IF k = 0 THEN Null ELSE Nth(s, k + 1)
  <2> TAKE k \in Nat
  <2>1. k # 0 => (k \in 1 .. Len(r) <=> k + 1 \in 1 .. Len(s))
    BY <1>1, <1>2 DEF r
  <2>2. k \in 1 .. Len(r) => r[k] = s[k + 1]
    BY <1>1, <1>2 DEF r
  <2>3. 0 \notin 1 .. Len(r)
    OBVIOUS
  <2> QED
    BY <2>1, <2>2, <2>3 DEF Nth
<1>4. \A j, k \in 1 .. Len(r) : r[j] = r[k] => j = k
  <2> SUFFICES ASSUME NEW j \in 1 .. Len(r), NEW k \in 1 .. Len(r), r[j] = r[k]
               PROVE  j = k
    OBVIOUS
  <2>1. j + 1 \in 1 .. Len(s) /\ k + 1 \in 1 .. Len(s) /\ s[j + 1] = s[k + 1]
    BY <1>1, <1>2 DEF r
  <2>2. j + 1 = k + 1
    BY <2>1 DEF Path
  <2> QED
    BY <2>2, <1>1, <1>2 DEF r
<1>5. link[n] = Nth(r, 1)
  BY <1>1, <1>3 DEF Path
<1>6. ASSUME NEW k \in 1 .. Len(r)
      PROVE  link[r[k]] = Nth(r, k + 1)
  <2>1. k + 1 \in 1 .. Len(s) /\ r[k] = s[k + 1] /\ k + 1 \in Nat /\ k + 1 # 0
    BY <1>1, <1>2 DEF r
  <2>2. link[s[k + 1]] = Nth(s, (k + 1) + 1)
    BY <2>1 DEF Path
  <2> QED
    BY <2>1, <2>2, <1>3
<1>7. Path(link, link[n], r)
  BY <1>2, <1>4, <1>5, <1>6 DEF Path, r
<1>8. NodesIn(s) = {n} \cup NodesIn(r)
  <2>1. \A k \in 1 .. Len(s) : s[k] = n \/ s[k] \in NodesIn(r)
    <3> TAKE k \in 1 .. Len(s)
    <3>1. CASE k = 1
      BY <3>1, <1>1
    <3>2. CASE k # 1
      <4>1. k - 1 \in 1 .. Len(r) /\ r[k - 1] = s[(k - 1) + 1] /\ (k - 1) + 1 = k
        BY <3>2, <1>1, <1>2 DEF r
      <4> QED
        BY <4>1 DEF NodesIn
    <3> QED
      BY <3>1, <3>2
  <2>2. \A k \in 1 .. Len(r) : r[k] \in NodesIn(s)
    <3> TAKE k \in 1 .. Len(r)
    <3>1. k + 1 \in 1 .. Len(s) /\ r[k] = s[k + 1]
      BY <1>1, <1>2 DEF r
    <3> QED
      BY <3>1 DEF NodesIn
  <2> QED
    BY <2>1, <2>2, <1>1 DEF NodesIn
<1>9. n \notin NodesIn(r)
  <2> SUFFICES ASSUME NEW k \in 1 .. Len(r), r[k] = n PROVE FALSE
    BY DEF NodesIn
  <2>1. k + 1 \in 1 .. Len(s) /\ s[k + 1] = s[1] /\ k + 1 # 1
    BY <1>1, <1>2 DEF r
  <2> QED
    BY <2>1, <1>1 DEF Path
<1> QED
  BY <1>2, <1>7, <1>8, <1>9 DEF r

(* A node before a path. *)
LEMMA PathPush ==
  ASSUME NEW link, NEW n, NEW s, Path(link, n, s),
         NEW m \in Nodes, m \notin NodesIn(s), link[m] = n
  PROVE  /\ Path(link, m, <<m>> \o s)
         /\ NodesIn(<<m>> \o s) = {m} \cup NodesIn(s)
<1> DEFINE r == <<m>> \o s
<1>1. s \in Seq(Nodes) /\ Len(s) \in Nat /\ n = Nth(s, 1)
  BY DEF Path
<1>2. /\ r \in Seq(Nodes) /\ Len(r) = Len(s) + 1 /\ r[1] = m
      /\ \A k \in 1 .. Len(s) : r[k + 1] = s[k]
  <2>1. <<m>> \in Seq(Nodes) /\ Len(<<m>>) = 1 /\ <<m>>[1] = m
    OBVIOUS
  <2> DEFINE one == <<m>>
  <2> HIDE DEF one
  <2>2. /\ one \o s \in Seq(Nodes)
        /\ Len(one \o s) = Len(one) + Len(s)
        /\ \A k \in 1 .. Len(one) + Len(s) :
             (one \o s)[k] = IF k <= Len(one) THEN one[k] ELSE s[k - Len(one)]
    BY <1>1, <2>1, ConcatProperties DEF one
  <2>3. \A k \in 1 .. Len(s) : k + 1 \in 1 .. 1 + Len(s) /\ ~ (k + 1 <= 1) /\ (k + 1) - 1 = k
    BY <1>1
  <2>4. 1 \in 1 .. 1 + Len(s)
    BY <1>1
  <2>5. Len(one) = 1 /\ one[1] = m
    BY <2>1 DEF one
  <2> QED
    BY <1>1, <2>2, <2>3, <2>4, <2>5 DEF one
<1> HIDE DEF r
<1>3. \A k \in 1 .. Len(r) : k = 1 \/ (k - 1 \in 1 .. Len(s) /\ r[k] = s[k - 1])
  <2> TAKE k \in 1 .. Len(r)
  <2>1. k # 1 => k - 1 \in 1 .. Len(s) /\ (k - 1) + 1 = k
    BY <1>1, <1>2
  <2> QED
    BY <2>1, <1>2
<1>4. \A k \in Nat \ {0} : Nth(r, k + 1) = Nth(s, k)
  <2> TAKE k \in Nat \ {0}
  <2>1. k + 1 \in 1 .. Len(r) <=> k \in 1 .. Len(s)
    BY <1>1, <1>2
  <2> QED
    BY <2>1, <1>2 DEF Nth
<1>5. \A j, k \in 1 .. Len(r) : r[j] = r[k] => j = k
  <2> SUFFICES ASSUME NEW j \in 1 .. Len(r), NEW k \in 1 .. Len(r), r[j] = r[k]
               PROVE  j = k
    OBVIOUS
  <2>1. \A i \in 1 .. Len(s) : s[i] # m
    BY DEF NodesIn
  <2>2. CASE j = 1 \/ k = 1
    BY <2>1, <2>2, <1>2, <1>3
  <2>3. CASE j # 1 /\ k # 1
    <3>1. j - 1 \in 1 .. Len(s) /\ k - 1 \in 1 .. Len(s) /\ s[j - 1] = s[k - 1]
      BY <2>3, <1>3
    <3>2. j - 1 = k - 1
      BY <3>1 DEF Path
    <3> QED
      BY <3>2, <1>1, <1>2
  <2> QED
    BY <2>2, <2>3
<1>6. m = Nth(r, 1)
  BY <1>1, <1>2 DEF Nth
<1>7. ASSUME NEW k \in 1 .. Len(r)
      PROVE  link[r[k]] = Nth(r, k + 1)
  <2>1. CASE k = 1
    BY <2>1, <1>1, <1>2, <1>4
  <2>2. CASE k # 1
    <3>1. k - 1 \in 1 .. Len(s) /\ r[k] = s[k - 1] /\ k \in Nat \ {0} /\ (k - 1) + 1 = k
      BY <2>2, <1>1, <1>2, <1>3
    <3>2. link[s[k - 1]] = Nth(s, (k - 1) + 1)
      BY <3>1 DEF Path
    <3> QED
      BY <3>1, <3>2, <1>4
  <2> QED
    BY <2>1, <2>2
<1>8. Path(link, m, r)
  BY <1>2, <1>5, <1>6, <1>7 DEF Path
<1>9. NodesIn(r) = {m} \cup NodesIn(s)
  <2>1. \A k \in 1 .. Len(r) : r[k] \in {m} \cup NodesIn(s)
    BY <1>2, <1>3 DEF NodesIn
  <2>2. m \in NodesIn(r)
    BY <1>1, <1>2 DEF NodesIn
  <2>3. \A k \in 1 .. Len(s) : s[k] \in NodesIn(r)
    <3> TAKE k \in 1 .. Len(s)
    <3>1. k + 1 \in 1 .. Len(r) /\ r[k + 1] = s[k]
      BY <1>1, <1>2
    <3> QED
      BY <3>1 DEF NodesIn
  <2> QED
    BY <2>1, <2>2, <2>3 DEF NodesIn
<1> QED
  BY <1>8, <1>9 DEF r

(* A node after a path. *)
LEMMA PathAppend ==
  ASSUME NEW link, NEW n, NEW s, Path(link, n, s), n # Null,
         NEW m \in Nodes, m \notin NodesIn(s),
         NEW link2, link2[m] = Null, link2[s[Len(s)]] = m,
         \A k \in 1 .. Len(s) - 1 : link2[s[k]] = link[s[k]]
  PROVE  /\ Path(link2, n, Append(s, m))
         /\ Len(Append(s, m)) = Len(s) + 1 /\ Append(s, m)[Len(s) + 1] = m
         /\ \A k \in 1 .. Len(s) : Append(s, m)[k] = s[k]
         /\ NodesIn(Append(s, m)) = {m} \cup NodesIn(s)
<1> DEFINE r == Append(s, m)
<1>1. s \in Seq(Nodes) /\ Len(s) \in Nat /\ 1 \in 1 .. Len(s) /\ n = s[1]
  BY PathStart DEF Path
<1>2. /\ r \in Seq(Nodes) /\ Len(r) = Len(s) + 1 /\ r[Len(s) + 1] = m
      /\ \A k \in 1 .. Len(s) : r[k] = s[k]
  BY <1>1, AppendProperties
<1> HIDE DEF r
<1>3. \A k \in 1 .. Len(r) : k \in 1 .. Len(s) \/ k = Len(s) + 1
  BY <1>1, <1>2
<1>4. \A j, k \in 1 .. Len(r) : r[j] = r[k] => j = k
  <2> SUFFICES ASSUME NEW j \in 1 .. Len(r), NEW k \in 1 .. Len(r), r[j] = r[k]
               PROVE  j = k
    OBVIOUS
  <2>1. \A i \in 1 .. Len(s) : s[i] # m
    BY DEF NodesIn
  <2>2. CASE j \in 1 .. Len(s) /\ k \in 1 .. Len(s)
    BY <2>2, <1>2 DEF Path
  <2>3. CASE ~(j \in 1 .. Len(s) /\ k \in 1 .. Len(s))
    BY <2>1, <2>3, <1>2, <1>3
  <2> QED
    BY <2>2, <2>3
<1>5. n = Nth(r, 1)
  BY <1>1, <1>2 DEF Nth
<1>6. ASSUME NEW k \in 1 .. Len(r)
      PROVE  link2[r[k]] = Nth(r, k + 1)
  <2>1. CASE k \in 1 .. Len(s) - 1
    <3>1. k \in 1 .. Len(s) /\ k + 1 \in 1 .. Len(s) /\ k + 1 \in 1 .. Len(r)
      BY <2>1, <1>1, <1>2
    <3>2. link[s[k]] = s[k + 1]
      BY <3>1 DEF Path, Nth
    <3> QED
      BY <2>1, <3>1, <3>2, <1>2 DEF Nth
  <2>2. CASE k = Len(s)
    <3>1. k + 1 \in 1 .. Len(r) /\ k \in 1 .. Len(s)
      BY <2>2, <1>1, <1>2
    <3> QED
      BY <2>2, <3>1, <1>2 DEF Nth
  <2>3. CASE k = Len(s) + 1
    <3>1. k + 1 \notin 1 .. Len(r)
      BY <2>3, <1>1, <1>2
    <3> QED
      BY <2>3, <3>1, <1>2 DEF Nth
  <2> QED
    BY <2>1, <2>2, <2>3, <1>1, <1>2
<1>7. Path(link2, n, r)
  BY <1>2, <1>4, <1>5, <1>6 DEF Path
<1>8. NodesIn(r) = {m} \cup NodesIn(s)
  <2>1. \A k \in 1 .. Len(r) : r[k] \in {m} \cup NodesIn(s)
    BY <1>2, <1>3 DEF NodesIn
  <2>2. m \in NodesIn(r)
    <3>1. Len(s) + 1 \in 1 .. Len(r)
      BY <1>1, <1>2
    <3> QED
      BY <3>1, <1>2 DEF NodesIn
  <2>3. \A k \in 1 .. Len(s) : k \in 1 .. Len(r) /\ r[k] = s[k]
    BY <1>1, <1>2
  <2> QED
    BY <2>1, <2>2, <2>3 DEF NodesIn
<1> QED
  BY <1>2, <1>7, <1>8 DEF r

-----------------------------------------------------------------------------
(* Types.                                                                  *)

Newer(old, new) == new = old \/ new.gen > old.gen

(* inc is a word, newer than the old one. *)
LEMMA IncType ==
  ASSUME NEW w \in Words, NEW n \in NodesOrNull
  PROVE  /\ Inc(w, n) \in Words /\ Inc(w, n).ptr = n
         /\ Inc(w, n).gen = w.gen + 1 /\ Newer(w, Inc(w, n))
BY DEF Inc, PtrTo, Words, Newer

(* The frame at the start, and the null pointer. *)
LEMMA NoFrameType ==
  /\ NoFrame \in Frames /\ NullPtr \in Words /\ NullPtr.ptr = Null /\ NullPtr.gen = 0
  /\ Null \in NodesOrNull /\ Nodes \subseteq NodesOrNull /\ Null \notin Nodes
BY NodesAssumption DEF NoFrame, NullPtr, PtrTo, Frames, Words, NodesOrNull

(* What a thread does is an operation on a queue. *)
LEMMA DoingType ==
  ASSUME TypeOK, NEW t \in Threads, script[t] # <<>>
  PROVE  /\ Doing(t) \in Operations /\ Queue(t) \in Queues /\ Doing(t).v \in Nat
         /\ Tail(script[t]) \in Seq(Operations)
<1>1. script[t] \in Seq(Operations)
  BY DEF TypeOK
<1>2. Head(script[t]) \in Operations /\ Tail(script[t]) \in Seq(Operations)
  BY <1>1, HeadTailProperties
<1> QED
  BY <1>2 DEF Doing, Queue, Operations

(* A thread that holds a node holds the one of its frame. *)
LEMMA InHand ==
  ASSUME IInv, NEW t \in Threads, pc[t] \in Holding
  PROVE  Owned(t) = {frame[t].node} /\ frame[t].node \in Nodes
BY DEF IInv, ApartOK, Owned

(* The tail, the script and the label have their types. *)
LEMMA SwingType ==
  ASSUME TypeOK, NEW t \in Threads, Queue(t) \in Queues,
         NEW n \in NodesOrNull, SwingTail(t, n)
  PROVE  tail' \in [Queues -> Words]
BY IncType DEF TypeOK, SwingTail

(* An operation is done; the other scripts stay. *)
LEMMA ReturnType ==
  ASSUME TypeOK, NEW t \in Threads, script[t] # <<>>, Return(t)
  PROVE  /\ script' \in [Threads -> Seq(Operations)]
         /\ script'[t] = Tail(script[t])
         /\ \A u \in Threads \ {t} : script'[u] = script[u]
<1>1. Tail(script[t]) \in Seq(Operations)
  BY DoingType
<1> QED
  BY <1>1 DEF Return, TypeOK

(* The label of the thread that moves. *)
LEMMA GotoType ==
  ASSUME TypeOK, NEW t \in Threads,
         NEW label \in Enqueueing \cup Dequeueing \cup {"idle"}, Goto(t, label)
  PROVE  /\ pc' \in [Threads -> Enqueueing \cup Dequeueing \cup {"idle"}]
         /\ pc'[t] = label
         /\ \A u \in Threads \ {t} : pc'[u] = pc[u]
BY DEF Goto, TypeOK

(* Every action keeps the types. *)
LEMMA StackTypes ==
  ASSUME IInv, NEW t \in Threads,
         \/ Starts(t, "enq") /\ PopRead(t)
         \/ PopLook(t) \/ PopNew(t) \/ PopCas(t) \/ PopRetry(t)
         \/ PushRead(t) \/ PushLink(t) \/ PushRetry(t) \/ PushCas(t)
  PROVE  /\ top' \in Words /\ below' \in [Nodes -> NodesOrNull]
         /\ fresh' \in SUBSET Nodes /\ frame' \in [Threads -> Frames]
         /\ pc' \in [Threads -> Enqueueing \cup Dequeueing \cup {"idle"}]
<1> USE DEF stack, Enqueueing, Dequeueing, Linking, Returning
<1>1. TypeOK /\ frame[t] \in Frames
  BY DEF IInv, TypeOK
<1>2. CASE Starts(t, "enq") /\ PopRead(t)
  BY <1>1, <1>2, GotoType, NoFrameType DEF PopRead, TypeOK, Frames
<1>3. CASE PopLook(t)
  BY <1>1, <1>3, GotoType DEF PopLook, TypeOK, Frames, Words, NodesOrNull
<1>4. CASE PopNew(t)
  BY <1>1, <1>4, GotoType DEF PopNew, TypeOK, Frames, NodesOrNull
<1>5. CASE PopCas(t)
  <2>1. Inc(frame[t].old, frame[t].under) \in Words
    BY <1>1, IncType DEF Frames
  <2> QED
    BY <2>1, <1>1, <1>5, GotoType DEF PopCas, TypeOK, Frames, Words
<1>6. CASE PopRetry(t)
  BY <1>1, <1>6, GotoType DEF PopRetry, TypeOK, Frames
<1>7. CASE PushRead(t)
  BY <1>1, <1>7, GotoType DEF PushRead, TypeOK, Frames
<1>8. CASE PushLink(t)
  BY <1>1, <1>8, GotoType DEF PushLink, TypeOK, Frames, Words
<1>9. CASE PushRetry(t)
  BY <1>1, <1>9, GotoType DEF PushRetry, TypeOK, Frames
<1>10. CASE PushCas(t)
  <2>1. Inc(frame[t].old, frame[t].node) \in Words
    BY <1>1, IncType DEF Frames
  <2> QED
    BY <2>1, <1>1, <1>10, GotoType DEF PushCas, TypeOK
<1> QED
  BY <1>2, <1>3, <1>4, <1>5, <1>6, <1>7, <1>8, <1>9, <1>10

(* Every action keeps the types. *)
LEMMA TypeStep ==
  ASSUME IInv, NEW t \in Threads, Step(t)
  PROVE  TypeOK'
<1> USE DEF stack, queues, history, client, Enqueueing, Dequeueing, Linking, Returning
<1>1. TypeOK /\ frame[t] \in Frames
  BY DEF IInv, TypeOK
<1>2. script[t] # <<>> => Queue(t) \in Queues /\ Doing(t).v \in Nat
  BY <1>1, DoingType
<1>3. pc[t] # "idle" => script[t] # <<>>
  BY DEF IInv, TypeOK, ThreadsOK, ThreadOK, ScriptFits
<1>4. CASE Alloc(t)
  BY <1>1, <1>4, StackTypes DEF Alloc, TypeOK
<1>5. CASE AllocStep(t)
  BY <1>1, <1>5, StackTypes DEF AllocStep, TypeOK
<1>6. CASE Fill(t)
  BY <1>1, <1>2, <1>3, <1>6, GotoType DEF Fill, TypeOK
<1>7. CASE EnqLoadNext(t)
  <2>1. next[frame[t].node] \in Words
    BY <1>1, <1>7, InHand DEF EnqLoadNext, TypeOK, Holding
  <2> QED
    BY <2>1, <1>1, <1>7, GotoType DEF EnqLoadNext, Set, TypeOK, Frames
<1>8. CASE EnqStoreNext(t)
  <2>1. Inc(frame[t].next, Null) \in Words
    BY <1>1, IncType, NoFrameType DEF Frames
  <2> QED
    BY <2>1, <1>1, <1>8, GotoType DEF EnqStoreNext, TypeOK
<1>9. CASE EnqTail(t)
  BY <1>1, <1>2, <1>3, <1>9, GotoType DEF EnqTail, Set, TypeOK, Frames
<1>10. CASE EnqNext(t)
  <2>1. frame[t].tail.ptr \in Nodes
    BY <1>1, <1>10 DEF EnqNext, IInv, ThreadsOK, ThreadOK, EnqOK, Frames, Words, NodesOrNull
  <2> QED
    BY <2>1, <1>1, <1>10, GotoType DEF EnqNext, Set, TypeOK, Frames
<1>11. CASE EnqCheck(t)
  BY <1>1, <1>11, GotoType DEF EnqCheck, TypeOK
<1>12. CASE EnqCas(t)
  <2>1. \A n \in Nodes : Inc(next[n], frame[t].node) \in Words
    BY <1>1, IncType DEF Frames, TypeOK
  <2> QED
    BY <2>1, <1>1, <1>12, GotoType DEF EnqCas, TypeOK
<1>13. CASE EnqRetry(t)
  BY <1>1, <1>13, GotoType DEF EnqRetry, TypeOK
<1>14. CASE EnqSwing(t)
  <2>1. tail' \in [Queues -> Words]
    BY <1>1, <1>2, <1>3, <1>14, SwingType DEF EnqSwing, Frames, Words
  <2> QED
    BY <2>1, <1>1, <1>14, GotoType DEF EnqSwing, TypeOK
<1>15. CASE EnqFinish(t)
  <2>1. tail' \in [Queues -> Words]
    BY <1>1, <1>2, <1>3, <1>15, SwingType DEF EnqFinish, Frames
  <2> QED
    BY <2>1, <1>1, <1>3, <1>15, GotoType, ReturnType DEF EnqFinish, TypeOK
<1>16. CASE DeqHead(t)
  <2>1. script[t] # <<>>
    BY <1>3, <1>16 DEF DeqHead, Starts
  <2> QED
    BY <2>1, <1>1, <1>2, <1>16, GotoType, NoFrameType DEF DeqHead, TypeOK, Frames
<1>17. CASE DeqTail(t)
  BY <1>1, <1>2, <1>3, <1>17, GotoType DEF DeqTail, Set, TypeOK, Frames
<1>18. CASE DeqNext(t)
  <2>1. frame[t].head.ptr \in Nodes
    BY <1>1, <1>18 DEF DeqNext, IInv, ThreadsOK, ThreadOK, DeqOK, Frames, Words, NodesOrNull
  <2> QED
    BY <2>1, <1>1, <1>18, GotoType DEF DeqNext, Set, TypeOK, Frames
<1>19. CASE DeqCheck(t)
  BY <1>1, <1>19, GotoType DEF DeqCheck, TypeOK
<1>20. CASE DeqEmpty(t)
  BY <1>1, <1>3, <1>20, GotoType, ReturnType DEF DeqEmpty, TypeOK
<1>21. CASE DeqSwing(t)
  <2>1. tail' \in [Queues -> Words]
    BY <1>1, <1>2, <1>3, <1>21, SwingType DEF DeqSwing, Frames, Words
  <2> QED
    BY <2>1, <1>1, <1>21, GotoType DEF DeqSwing, TypeOK
<1>22. CASE DeqData(t)
  <2>1. frame[t].next.ptr \in Nodes
    BY <1>1, <1>22 DEF DeqData, IInv, ThreadsOK, ThreadOK, DeqOK, Frames, Words, NodesOrNull
  <2> QED
    BY <2>1, <1>1, <1>22, GotoType DEF DeqData, Set, TypeOK, Frames
<1>23. CASE DeqCas(t)
  <2>1. frame[t].next.ptr \in NodesOrNull /\ frame[t].head.ptr \in NodesOrNull
    BY <1>1 DEF Frames, Words
  <2>2. head' \in [Queues -> Words]
    BY <2>1, <1>1, <1>2, <1>3, <1>23, IncType DEF DeqCas, TypeOK
  <2>3. frame' \in [Threads -> Frames]
    BY <2>1, <1>1, <1>23 DEF DeqCas, Set, TypeOK, Frames
  <2>4. got' \in [Threads -> Seq(Nat)]
    <3>1. Append(got[t], frame[t].data) \in Seq(Nat)
      BY <1>1, AppendProperties DEF TypeOK, Frames
    <3> QED
      BY <3>1, <1>1, <1>23 DEF DeqCas, TypeOK
  <2> QED
    BY <2>2, <2>3, <2>4, <1>1, <1>23, GotoType DEF DeqCas, TypeOK
<1>24. CASE DeqRetry(t)
  BY <1>1, <1>24, GotoType DEF DeqRetry, TypeOK
<1>25. CASE Free(t)
  BY <1>1, <1>25, StackTypes DEF Free, TypeOK
<1>26. CASE Freed(t)
  <2>1. script' \in [Threads -> Seq(Operations)]
    BY <1>1, <1>3, <1>26, ReturnType DEF Freed, PushCas
  <2> QED
    BY <2>1, <1>1, <1>26, StackTypes DEF Freed, TypeOK
<1> QED
  BY <1>4, <1>5, <1>6, <1>7, <1>8, <1>9, <1>10, <1>11, <1>12, <1>13, <1>14, <1>15,
     <1>16, <1>17, <1>18, <1>19, <1>20, <1>21, <1>22, <1>23, <1>24, <1>25, <1>26
     DEF Step

-----------------------------------------------------------------------------
(* What the threads do to each other.                                      *)

(* The other threads do not move. *)
Others(t) ==
  \A u \in Threads \ {t} :
    /\ pc'[u] = pc[u] /\ frame'[u] = frame[u]
    /\ script'[u] = script[u] /\ wasEmpty'[u] = wasEmpty[u]

(* What a thread may rely on while another makes a step. *)
Rely(t) ==
  /\ Newer(top, top')
  /\ \A q \in Queues : Newer(head[q], head'[q]) /\ Newer(tail[q], tail'[q])
  /\ \A n \in Nodes : Newer(next[n], next'[n])
  /\ \A n \in InStack : below'[n] = below[n]
  /\ \A q \in Queues : \A n \in In(q) :
       /\ data'[n] = data[n]
       /\ next[n].ptr # Null => next'[n] = next[n]
       /\ next'[n].ptr = Null => n \in In(q)'
  /\ Others(t)
  /\ \A u \in Threads \ {t} : \A n \in Owned(u) :
       below'[n] = below[n] /\ next'[n] = next[n] /\ data'[n] = data[n]

Placed == FreeNodes' = FreeNodes /\ \A q \in Queues : QueueNodes(q)' = QueueNodes(q)

(* The links of the lists stay, and so do the lists. *)
LEMMA StackStays ==
  ASSUME IInv, top' = top, \A n \in InStack : below'[n] = below[n]
  PROVE  FreeNodes' = FreeNodes /\ Path(below', top'.ptr, FreeNodes')
<1>1. Path(below, top.ptr, FreeNodes)
  BY DEF IInv, ListsOK
<1>2. Path(below', top.ptr, FreeNodes)
  BY <1>1, PathElsewhere DEF InStack
<1>3. Chain(below', top'.ptr) = FreeNodes
  BY <1>2, ChainIsPath
<1>4. FreeNodes' = Chain(below', top'.ptr)
  BY DEF FreeNodes
<1> QED
  BY <1>2, <1>3, <1>4

(* A path from the head is the queue. *)
LEMMA NewPath ==
  ASSUME NEW q \in Queues, NEW s, Path(NextNode', head'[q].ptr, s)
  PROVE  QueueNodes(q)' = s
<1>1. Chain(NextNode', head'[q].ptr) = s
  BY ChainIsPath
<1> QED
  BY <1>1 DEF QueueNodes

(* The links of a queue stay, and so does the queue. *)
LEMMA QueueStays ==
  ASSUME IInv, NEW q \in Queues, head'[q] = head[q],
         \A n \in In(q) : next'[n].ptr = next[n].ptr
  PROVE  QueueNodes(q)' = QueueNodes(q) /\ Path(NextNode', head'[q].ptr, QueueNodes(q)')
<1>1. Path(NextNode, head[q].ptr, QueueNodes(q))
  BY DEF IInv, ListsOK
<1>2. In(q) \subseteq Nodes
  BY <1>1, PathStart DEF In
<1>3. \A n \in In(q) : NextNode'[n] = NextNode[n]
  BY <1>2 DEF NextNode
<1>4. Path(NextNode', head'[q].ptr, QueueNodes(q))
  BY <1>1, <1>3, PathElsewhere DEF In
<1> QED
  BY <1>4, NewPath

(* Paths are lists. *)
LEMMA Lists ==
  ASSUME Path(below', top'.ptr, FreeNodes'),
         \A q \in Queues : Path(NextNode', head'[q].ptr, QueueNodes(q)') /\ head'[q].ptr # Null
  PROVE  ListsOK'
BY DEF ListsOK

(* What is in a list or in hand is a node. *)
LEMMA InNodes ==
  ASSUME IInv
  PROVE  /\ InStack \subseteq Nodes
         /\ \A q \in Queues : In(q) \subseteq Nodes
         /\ \A t \in Threads : Owned(t) \subseteq Nodes
  <1>1. InStack \subseteq Nodes
    BY PathStart DEF IInv, ListsOK, InStack
  <1>2. \A q \in Queues : In(q) \subseteq Nodes
    BY PathStart DEF IInv, ListsOK, In
  <1>3. \A t \in Threads : Owned(t) \subseteq Nodes
    BY DEF IInv, ApartOK
  <1> QED
    BY <1>1, <1>2, <1>3

(* Where the tail is.                                                      *)
LEMMA TailNode ==
  ASSUME IInv, NEW q \in Queues
  PROVE  /\ tail[q].gen - head[q].gen + 1 \in 1 .. Len(QueueNodes(q))
         /\ tail[q].ptr = QueueNodes(q)[tail[q].gen - head[q].gen + 1]
         /\ tail[q].ptr \in In(q) /\ tail[q].ptr \in Nodes
         /\ head[q].ptr \in In(q) /\ head[q].ptr \in Nodes
         /\ head[q] \in Words /\ tail[q] \in Words
         /\ head[q].gen <= tail[q].gen
         /\ tail[q].gen = head[q].gen => tail[q] = head[q]
<1>1. /\ tail[q].gen - head[q].gen + 1 \in 1 .. Len(QueueNodes(q))
      /\ tail[q].ptr = QueueNodes(q)[tail[q].gen - head[q].gen + 1]
  BY DEF IInv, TailsOK, TailOK
<1>2. head[q] \in Words /\ tail[q] \in Words
  BY DEF IInv, TypeOK
<1>3. Path(NextNode, head[q].ptr, QueueNodes(q)) /\ head[q].ptr # Null
  BY DEF IInv, ListsOK
<1>4. Len(QueueNodes(q)) \in Nat /\ head[q].ptr = QueueNodes(q)[1] /\ head[q].ptr \in In(q)
  BY <1>3, PathStart DEF In
<1>5. tail[q].ptr \in In(q)
  BY <1>1 DEF In, NodesIn
<1>6. In(q) \subseteq Nodes
  BY InNodes
<1>7. head[q].gen \in Nat /\ tail[q].gen \in Nat
  BY <1>2 DEF Words
<1>8. head[q].gen <= tail[q].gen
  BY <1>1, <1>4, <1>7
<1>9. tail[q].gen = head[q].gen => tail[q].ptr = head[q].ptr
  <2>1. tail[q].gen = head[q].gen => tail[q].gen - head[q].gen + 1 = 1
    BY <1>7
  <2> QED
    BY <2>1, <1>1, <1>4
<1>10. tail[q].gen = head[q].gen => tail[q] = head[q]
  BY <1>2, <1>9 DEF Words
<1> QED
  BY <1>1, <1>2, <1>4, <1>5, <1>6, <1>8, <1>10

(* The tail stays or goes to the next node. *)
LEMMA TailMoves ==
  ASSUME IInv, NEW t \in Threads, Queue(t) \in Queues,
         NEW n, AfterTail(t, n), SwingTail(t, n), NEW q \in Queues,
         head' = head, QueueNodes(q)' = QueueNodes(q)
  PROVE  TailOK(q)' /\ Newer(tail[q], tail'[q])
<1>1. CASE tail'[q] = tail[q]
  <2>1. TailOK(q)
    BY DEF IInv, TailsOK
  <2> QED
    BY <1>1, <2>1 DEF TailOK, Newer
<1>2. CASE tail'[q] # tail[q]
  <2> DEFINE s == QueueNodes(q)
             k == tail[q].gen - head[q].gen + 1
  <2>1. q = Queue(t) /\ tail[q] = frame[t].tail /\ tail'[q] = Inc(tail[q], n)
    BY <1>2 DEF SwingTail, IInv, TypeOK
  <2>2. n # Null /\ next[tail[q].ptr].ptr = n
    BY <2>1 DEF AfterTail
  <2>3. /\ k \in 1 .. Len(s) /\ tail[q].ptr = s[k] /\ s[k] \in Nodes
        /\ tail[q].gen \in Nat /\ head[q].gen \in Nat
    BY TailNode DEF Words
  <2>4. Path(NextNode, head[q].ptr, s)
    BY DEF IInv, ListsOK
  <2>5. NextNode[s[k]] = n
    BY <2>2, <2>3 DEF NextNode
  <2> HIDE DEF s, k
  <2>6. k + 1 \in 1 .. Len(s) /\ n = s[k + 1]
    BY <2>2, <2>3, <2>4, <2>5, PathLink
  <2>7. tail'[q].ptr = n /\ tail'[q].gen = tail[q].gen + 1
    BY <2>1 DEF Inc, PtrTo
  <2>8. tail'[q].gen - head'[q].gen + 1 = k + 1
    BY <2>3, <2>7 DEF k
  <2>9. TailOK(q)'
    BY <2>6, <2>7, <2>8 DEF TailOK, s
  <2> QED
    BY <2>9, <2>7, <2>3 DEF Newer
<1> QED
  BY <1>1, <1>2

(* A step that moves no node: it changes nodes in hand only. *)
Still(t) ==
  /\ top' = top /\ head' = head /\ fresh' = fresh
  /\ \A n \in Nodes \ Owned(t) :
       below'[n] = below[n] /\ next'[n] = next[n] /\ data'[n] = data[n]
  /\ \A n \in Nodes : Newer(next[n], next'[n])
  /\ Others(t)
  /\ Owned(t)' = Owned(t)

(* ... leaves the lists and who has what as they were ... *)
LEMMA StillLists ==
  ASSUME IInv, NEW t \in Threads, Still(t)
  PROVE  Placed /\ ListsOK' /\ ApartOK' /\ AllPlaced'
<1>1. \A n \in InStack : below'[n] = below[n]
  <2>1. \A n \in InStack : n \in Nodes \ Owned(t)
    BY InNodes DEF IInv, ApartOK
  <2> QED
    BY <2>1 DEF Still
<1>2. \A q \in Queues : \A n \in In(q) : next'[n] = next[n]
  <2>1. \A q \in Queues : \A n \in In(q) : n \in Nodes \ Owned(t)
    BY InNodes DEF IInv, ApartOK
  <2> QED
    BY <2>1 DEF Still
<1>3. FreeNodes' = FreeNodes /\ Path(below', top'.ptr, FreeNodes')
  BY <1>1, StackStays DEF Still
<1>4. \A q \in Queues :
        QueueNodes(q)' = QueueNodes(q) /\ Path(NextNode', head'[q].ptr, QueueNodes(q)')
  BY <1>2, QueueStays DEF Still
<1>5. ListsOK'
  BY <1>3, <1>4, Lists DEF Still, IInv, ListsOK
<1>6. InStack' = InStack /\ \A q \in Queues : In(q)' = In(q)
  BY <1>3, <1>4 DEF InStack, In
<1>7. \A u \in Threads : Owned(u)' = Owned(u)
  BY DEF Still, Others, Owned
<1>8. ApartOK'
  BY <1>6, <1>7 DEF Still, ApartOK, IInv
<1>9. AllPlaced'
  BY <1>6, <1>7 DEF Still, AllPlaced, IInv
<1> QED
  BY <1>3, <1>4, <1>5, <1>8, <1>9 DEF Placed

(* ... and the others may rely on it. *)
LEMMA StillRely ==
  ASSUME IInv, NEW t \in Threads, Still(t), \A q \in Queues : Newer(tail[q], tail'[q])
  PROVE  Rely(t)
<1>1. \A n \in InStack : below'[n] = below[n]
  <2>1. \A n \in InStack : n \in Nodes \ Owned(t)
    BY InNodes DEF IInv, ApartOK
  <2> QED
    BY <2>1 DEF Still
<1>2. \A q \in Queues : \A n \in In(q) : next'[n] = next[n] /\ data'[n] = data[n]
  <2>1. \A q \in Queues : \A n \in In(q) : n \in Nodes \ Owned(t)
    BY InNodes DEF IInv, ApartOK
  <2> QED
    BY <2>1 DEF Still
<1>3. \A u \in Threads \ {t} : \A n \in Owned(u) :
        below'[n] = below[n] /\ next'[n] = next[n] /\ data'[n] = data[n]
  <2>1. \A u \in Threads \ {t} : \A n \in Owned(u) : n \in Nodes \ Owned(t)
    BY InNodes DEF IInv, ApartOK
  <2> QED
    BY <2>1 DEF Still
<1>4. \A q \in Queues : In(q)' = In(q)
  BY StillLists DEF Placed, In
<1> QED
  BY <1>1, <1>2, <1>3, <1>4 DEF Rely, Still, Newer

(* A word that was read stays one, and when it is current it was. *)
LEMMA SeenStays ==
  ASSUME NEW w \in Words, NEW old \in Words, NEW new \in Words,
         Seen(w, old), Newer(old, new)
  PROVE  Seen(w, new) /\ (new = w => old = w)
BY DEF Words, Seen, Newer

(* The steps of the others keep what a thread knows. *)
LEMMA Stable ==
  ASSUME IInv, TypeOK', NEW t \in Threads, Rely(t), NEW u \in Threads, u # t
  PROVE  ThreadOK(u)'
<1>a. PICK f : f = frame[u]
  OBVIOUS
<1>b. PICK q : q = Queue(u)
  OBVIOUS
<1> USE <1>a, <1>b
<1>1. /\ pc'[u] = pc[u] /\ frame'[u] = frame[u]
      /\ script'[u] = script[u] /\ wasEmpty'[u] = wasEmpty[u]
  BY DEF Rely, Others
<1>2. ThreadOK(u)
  BY DEF IInv, ThreadsOK
<1>3. Doing(u)' = Doing(u) /\ Queue(u)' = Queue(u)
  BY <1>1 DEF Doing, Queue
<1>4. ScriptFits(u)'
  BY <1>1, <1>2, <1>3 DEF ThreadOK, ScriptFits
<1>5. /\ f \in Frames /\ f.old \in Words /\ f.head \in Words
      /\ f.tail \in Words /\ f.next \in Words
  BY DEF IInv, TypeOK, Frames
<1>6. top \in Words /\ top' \in Words
  BY DEF IInv, TypeOK
<1>7. Newer(top, top')
  BY DEF Rely
<1>8. pc[u] \in {"popLook", "popCas"} => Seen(f.old, top') /\ (top' = f.old => top = f.old)
  <2>1. pc[u] \in {"popLook", "popCas"} => Seen(f.old, top)
    BY <1>2 DEF ThreadOK, StackOK
  <2> QED
    BY <2>1, <1>5, <1>6, <1>7, SeenStays
<1>9. pc[u] \in Holding => f.node \in Owned(u)
  BY DEF Owned
<1>10. pc[u] \in Holding => /\ below'[f.node] = below[f.node] /\ next'[f.node] = next[f.node]
                           /\ data'[f.node] = data[f.node]
  BY <1>9 DEF Rely
<1>11. top.ptr # Null => below'[top.ptr] = below[top.ptr]
  <2>1. top.ptr # Null => top.ptr \in InStack
    BY PathStart DEF IInv, ListsOK, InStack
  <2> QED
    BY <2>1 DEF Rely
<1>12. StackOK(u)'
  <2>1. pc[u] = "popCas" => /\ f.old.ptr # Null
                            /\ (f.old = top' => f.under = below'[f.old.ptr])
    BY <1>2, <1>8, <1>11 DEF ThreadOK, StackOK
  <2>2. pc[u] = "pushCas" => below'[f.node] = f.old.ptr
    BY <1>2, <1>10 DEF ThreadOK, StackOK, Holding, Returning
  <2> QED
    BY <1>1, <1>8, <2>1, <2>2 DEF StackOK
<1>13. HandOK(u)'
  <2>1. pc[u] = "storeNext" => f.next = next'[f.node]
    BY <1>2, <1>10 DEF ThreadOK, HandOK, Holding
  <2>2. pc[u] \in Linking => next'[f.node].ptr = Null
    BY <1>2, <1>10 DEF ThreadOK, HandOK, Holding
  <2>3. pc[u] \in Linking \cup {"loadNext", "storeNext"} => data'[f.node] = Doing(u).v
    BY <1>2, <1>10 DEF ThreadOK, HandOK, Holding
  <2> QED
    BY <1>1, <1>3, <2>1, <2>2, <2>3 DEF HandOK
<1>14. pc[u] # "idle" => q \in Queues
  <2>1. pc[u] # "idle" => script[u] # <<>>
    BY <1>2 DEF ThreadOK, ScriptFits, IInv, TypeOK
  <2> QED
    BY <2>1, DoingType DEF IInv
<1>15. q \in Queues => /\ head[q] \in Words /\ head'[q] \in Words /\ Newer(head[q], head'[q])
                       /\ tail[q] \in Words /\ tail'[q] \in Words /\ Newer(tail[q], tail'[q])
  BY DEF IInv, TypeOK, Rely
<1>16. \A n \in Nodes : next[n] \in Words /\ next'[n] \in Words /\ Newer(next[n], next'[n])
  BY DEF IInv, TypeOK, Rely
<1>17. \A w \in Words : w.ptr # Null => w.ptr \in Nodes
  BY DEF Words, NodesOrNull
<1>18. q \in Queues => \A n \in In(q) : next[n].ptr # Null => next'[n] = next[n]
  BY DEF Rely
<1>19. q \in Queues /\ Seen(f.tail, tail[q]) => Seen(f.tail, tail'[q]) /\ (tail'[q] = f.tail => tail[q] = f.tail)
  BY <1>5, <1>15, SeenStays
<1>20. q \in Queues /\ Seen(f.head, head[q]) => Seen(f.head, head'[q]) /\ (head'[q] = f.head => head[q] = f.head)
  BY <1>5, <1>15, SeenStays
<1>21. ASSUME NEW n, q \in Queues, Seen(f.tail, tail[q]), AfterTail(u, n)
       PROVE  AfterTail(u, n)'
  <2>1. n # Null
    BY <1>21 DEF AfterTail
  <2>2. tail'[q] = f.tail => next'[f.tail.ptr].ptr = n
    <3> SUFFICES ASSUME tail'[q] = f.tail PROVE next'[f.tail.ptr].ptr = n
      OBVIOUS
    <3>1. tail[q] = f.tail /\ next[f.tail.ptr].ptr = n
      BY <1>19, <1>21 DEF AfterTail
    <3>2. f.tail.ptr \in In(q)
      BY <3>1, <1>21, TailNode
    <3> QED
      BY <3>1, <3>2, <2>1, <1>18, <1>21
  <2> QED
    BY <2>1, <2>2, <1>1, <1>3 DEF AfterTail
<1>22. ASSUME q \in Queues, pc[u] \in {"enqNext", "enqCheck", "enqCas", "enqSwing", "enqFinish"}
       PROVE  EnqOK(u)'
  <2>1. Seen(f.tail, tail[q]) /\ f.tail.ptr # Null
    BY <1>2, <1>22 DEF ThreadOK, EnqOK
  <2>2. Seen(f.tail, tail'[q]) /\ (tail'[q] = f.tail => tail[q] = f.tail)
    BY <2>1, <1>19, <1>22
  <2>3. f.tail.ptr \in Nodes
    BY <2>1, <1>5, <1>17
  <2>4. pc[u] \in {"enqCheck", "enqCas"} =>
          /\ Seen(f.next, next'[f.tail.ptr])
          /\ next'[f.tail.ptr] = f.next => next[f.tail.ptr] = f.next
    <3>1. pc[u] \in {"enqCheck", "enqCas"} => Seen(f.next, next[f.tail.ptr])
      BY <1>2 DEF ThreadOK, EnqOK
    <3> QED
      BY <3>1, <2>3, <1>5, <1>16, SeenStays
  <2>5. pc[u] = "enqCheck" /\ tail'[q] = f.tail /\ f.next.ptr # Null => next'[f.tail.ptr] = f.next
    <3> SUFFICES ASSUME pc[u] = "enqCheck", tail'[q] = f.tail, f.next.ptr # Null
                 PROVE  next'[f.tail.ptr] = f.next
      OBVIOUS
    <3>1. tail[q] = f.tail /\ next[f.tail.ptr] = f.next
      BY <1>2, <2>2 DEF ThreadOK, EnqOK
    <3>2. f.tail.ptr \in In(q)
      BY <3>1, <1>22, TailNode
    <3> QED
      BY <3>1, <3>2, <1>18, <1>22
  <2>6. pc[u] = "enqCas" => /\ f.next.ptr = Null
                            /\ next'[f.tail.ptr] = f.next => f.tail.ptr \in In(q)'
    <3>1. pc[u] = "enqCas" => /\ f.next.ptr = Null
                              /\ next[f.tail.ptr] = f.next => f.tail.ptr \in In(q)
      BY <1>2 DEF ThreadOK, EnqOK
    <3>2. ASSUME pc[u] = "enqCas", next'[f.tail.ptr] = f.next
          PROVE  f.tail.ptr \in In(q)'
      <4>1. f.tail.ptr \in In(q) /\ next'[f.tail.ptr].ptr = Null
        BY <3>1, <3>2, <2>4
      <4> QED
        BY <4>1, <1>22 DEF Rely
    <3> QED
      BY <3>1, <3>2
  <2>7. pc[u] = "enqSwing" => AfterTail(u, f.next.ptr)'
    BY <2>1, <1>2, <1>21, <1>22 DEF ThreadOK, EnqOK
  <2>8. pc[u] = "enqFinish" => AfterTail(u, f.node)'
    BY <2>1, <1>2, <1>21, <1>22 DEF ThreadOK, EnqOK
  <2>9. Queue(u)' = q /\ frame'[u] = f
    BY <1>1, <1>3
  <2> QED
    BY <2>1, <2>2, <2>4, <2>5, <2>6, <2>7, <2>8, <2>9, <1>1 DEF EnqOK
<1>23. EnqOK(u)'
  <2>1. CASE pc[u] \in {"enqNext", "enqCheck", "enqCas", "enqSwing", "enqFinish"}
    BY <2>1, <1>14, <1>22
  <2>2. CASE pc[u] \notin {"enqNext", "enqCheck", "enqCas", "enqSwing", "enqFinish"}
    BY <2>2, <1>1 DEF EnqOK
  <2> QED
    BY <2>1, <2>2
<1>24. ASSUME q \in Queues PROVE DeqOK(u)'
  <2>1. pc[u] \in {"deqTail", "deqNext", "deqCheck", "deqData", "deqCas"} =>
          /\ Seen(f.head, head'[q]) /\ f.head.ptr # Null
          /\ head'[q] = f.head => head[q] = f.head
    BY <1>2, <1>20, <1>24 DEF ThreadOK, DeqOK
  <2>2. pc[u] \in {"deqNext", "deqCheck", "deqSwing"} => Seen(f.tail, tail'[q]) /\ f.tail.ptr # Null
    BY <1>2, <1>19, <1>24 DEF ThreadOK, DeqOK
  <2>3. head[q].gen \in Nat /\ tail[q].gen \in Nat /\ tail'[q].gen \in Nat
    BY <1>15, <1>24 DEF Words
  <2>4. ASSUME pc[u] \in {"deqNext", "deqCheck", "deqData", "deqCas"},
               head'[q] = f.head, f.tail # f.head
        PROVE  tail'[q].gen > head'[q].gen
    <3>1. head[q] = f.head
      BY <2>1, <2>4
    <3>2. tail[q].gen > head[q].gen
      BY <1>2, <2>4, <3>1 DEF ThreadOK, DeqOK
    <3>3. tail'[q] = tail[q] \/ tail'[q].gen > tail[q].gen
      BY <1>15, <1>24 DEF Newer
    <3> QED
      BY <2>3, <2>4, <3>1, <3>2, <3>3
  <2>5. head[q].ptr \in In(q)
    BY <1>24, TailNode
  <2>6. ASSUME head[q] = f.head, next[f.head.ptr].ptr # Null
        PROVE  next'[f.head.ptr] = next[f.head.ptr]
    BY <2>5, <2>6, <1>18, <1>24
  <2>7. pc[u] = "deqCheck" /\ head'[q] = f.head =>
          /\ (f.next.ptr # Null => next'[f.head.ptr] = f.next)
          /\ (f.next.ptr = Null => f.tail = f.head /\ wasEmpty'[u])
    <3> SUFFICES ASSUME pc[u] = "deqCheck", head'[q] = f.head
                 PROVE  /\ (f.next.ptr # Null => next'[f.head.ptr] = f.next)
                        /\ (f.next.ptr = Null => f.tail = f.head /\ wasEmpty'[u])
      OBVIOUS
    <3>1. head[q] = f.head
      BY <2>1
    <3>2. /\ (f.next.ptr # Null => next[f.head.ptr] = f.next)
          /\ (f.next.ptr = Null => f.tail = f.head /\ wasEmpty[u])
      BY <3>1, <1>2 DEF ThreadOK, DeqOK
    <3> QED
      BY <3>1, <3>2, <2>6, <1>1
  <2>8. pc[u] \in {"deqData", "deqCas"} =>
          /\ f.tail # f.head /\ f.next.ptr # Null
          /\ (head'[q] = f.head => next[f.head.ptr].ptr = f.next.ptr /\ next'[f.head.ptr].ptr = f.next.ptr)
    <3>1. pc[u] \in {"deqData", "deqCas"} =>
            /\ f.tail # f.head /\ f.next.ptr # Null
            /\ (head'[q] = f.head => head[q] = f.head /\ next[f.head.ptr].ptr = f.next.ptr)
      BY <1>2, <2>1 DEF ThreadOK, DeqOK
    <3> QED
      BY <3>1, <2>6
  <2>9. ASSUME pc[u] = "deqCas", head'[q] = f.head
        PROVE  f.data = data'[f.next.ptr]
    <3>1. head[q] = f.head
      BY <2>1, <2>9
    <3>2. f.data = data[f.next.ptr]
      BY <3>1, <2>9, <1>2 DEF ThreadOK, DeqOK
    <3>3. f.next.ptr \in In(q)
      <4>1. Path(NextNode, head[q].ptr, QueueNodes(q)) /\ head[q].ptr # Null
        BY <1>24 DEF IInv, ListsOK
      <4>2. 1 \in 1 .. Len(QueueNodes(q)) /\ QueueNodes(q)[1] = head[q].ptr
        BY <4>1, PathStart
      <4>3. NextNode[head[q].ptr] = f.next.ptr /\ f.next.ptr # Null
        BY <2>8, <2>9, <3>1, <1>24, TailNode DEF NextNode
      <4>4. 1 + 1 \in 1 .. Len(QueueNodes(q)) /\ f.next.ptr = QueueNodes(q)[1 + 1]
        BY <4>1, <4>2, <4>3, PathLink
      <4> QED
        BY <4>4 DEF In, NodesIn
    <3> QED
      BY <3>2, <3>3, <1>24 DEF Rely
  <2>10. pc[u] = "deqSwing" => AfterTail(u, f.next.ptr)'
    BY <1>2, <1>21, <1>24 DEF ThreadOK, DeqOK
  <2>11. pc[u] = "empty" => wasEmpty'[u]
    BY <1>1, <1>2 DEF ThreadOK, DeqOK
  <2>12. Queue(u)' = q /\ frame'[u] = f
    BY <1>1, <1>3
  <2> QED
    BY <2>1, <2>2, <2>4, <2>7, <2>8, <2>9, <2>10, <2>11, <2>12, <1>1 DEF DeqOK
<1>25. pc[u] = "idle" => DeqOK(u)'
  BY <1>1 DEF DeqOK
<1> QED
  BY <1>4, <1>12, <1>13, <1>14, <1>23, <1>24, <1>25 DEF ThreadOK

-----------------------------------------------------------------------------
(* The actions.                                                            *)

(* A step that moves no node and no tail. *)
LEMMA StillStep ==
  ASSUME IInv, TypeOK', NEW t \in Threads, Still(t), ThreadOK(t)',
         \A q \in Queues : TailOK(q)' /\ Newer(tail[q], tail'[q])
  PROVE  IInv'
<1>1. ListsOK' /\ ApartOK' /\ AllPlaced'
  BY StillLists
<1>2. Rely(t)
  BY StillRely
<1>3. \A u \in Threads : ThreadOK(u)'
  BY <1>2, Stable
<1>4. ThreadsOK'
  BY <1>3 DEF ThreadsOK
<1>5. TailsOK'
  BY DEF TailsOK
<1> QED
  BY <1>1, <1>4, <1>5 DEF IInv

Quiet(t) ==
  /\ UNCHANGED <<top, below, fresh, next, data, head, tail>>
  /\ Others(t)
  /\ Owned(t)' = Owned(t)

(* A step that changes locals only. *)
LEMMA QuietStep ==
  ASSUME IInv, TypeOK', NEW t \in Threads, Quiet(t), ThreadOK(t)'
  PROVE  IInv'
<1>1. Still(t)
  BY DEF Quiet, Still, Newer
<1>2. Placed
  BY <1>1, StillLists
<1>3. \A q \in Queues : TailOK(q)' /\ Newer(tail[q], tail'[q])
  <2> TAKE q \in Queues
  <2>1. QueueNodes(q)' = QueueNodes(q)
    BY <1>2 DEF Placed
  <2>2. TailOK(q)
    BY DEF IInv, TailsOK
  <2> QED
    BY <2>1, <2>2 DEF Quiet, TailOK, Newer
<1> QED
  BY <1>1, <1>3, StillStep

(* The locals and the label of the thread that moves. *)
LEMMA Moves ==
  ASSUME IInv, NEW t \in Threads, NEW label, Goto(t, label)
  PROVE  /\ pc'[t] = label
         /\ \A u \in Threads \ {t} : pc'[u] = pc[u]
BY DEF Goto, IInv, TypeOK

(* The locals of one thread change. *)
LEMMA NewFrame ==
  ASSUME IInv, NEW t \in Threads, NEW f, frame' = [frame EXCEPT ![t] = f]
  PROVE  /\ frame'[t] = f
         /\ \A u \in Threads \ {t} : frame'[u] = frame[u]
BY DEF IInv, TypeOK

(* A thread that is in the same operation. *)
LEMMA SameScript ==
  ASSUME IInv, NEW t \in Threads, script'[t] = script[t],
         pc[t] \in Enqueueing <=> pc'[t] \in Enqueueing,
         pc[t] \in Dequeueing <=> pc'[t] \in Dequeueing
  PROVE  ScriptFits(t)' /\ Doing(t)' = Doing(t) /\ Queue(t)' = Queue(t)
BY DEF IInv, ThreadsOK, ThreadOK, ScriptFits, Doing, Queue

(* alloc *)
LEMMA AllocKeeps ==
  ASSUME IInv, TypeOK', NEW t \in Threads, Alloc(t)
  PROVE  IInv'
<1> USE DEF stack, queues, client, history
<1>1. /\ pc[t] = "idle" /\ script[t] # <<>> /\ Doing(t).op = "enq"
      /\ frame' = [frame EXCEPT ![t] = [NoFrame EXCEPT !.old = top]]
      /\ Goto(t, "popLook") /\ UNCHANGED <<stack, queues, client>>
  BY DEF Alloc, Starts, PopRead
<1>2. /\ pc'[t] = "popLook" /\ frame'[t].old = top
      /\ \A u \in Threads \ {t} : pc'[u] = pc[u] /\ frame'[u] = frame[u]
  <2>1. [NoFrame EXCEPT !.old = top].old = top
    BY DEF NoFrame
  <2> QED
    BY <2>1, <1>1, Moves DEF IInv, TypeOK
<1>3. Quiet(t)
  BY <1>1, <1>2 DEF Quiet, Others, Owned, Holding, Linking, Returning
<1>4. ThreadOK(t)'
  BY <1>1, <1>2 DEF ThreadOK, ScriptFits, StackOK, HandOK, EnqOK, DeqOK, Seen, Doing,
       Enqueueing, Dequeueing, Linking, Returning, TypeOK, Words
<1> QED
  BY <1>3, <1>4, QuietStep

(* popNode reads the node below the top ... *)
LEMMA PopLookKeeps ==
  ASSUME IInv, TypeOK', NEW t \in Threads, PopLook(t), UNCHANGED <<queues, client>>
  PROVE  IInv'
<1> USE DEF stack, queues, client, history
<1>1. /\ pc[t] = "popLook" /\ frame[t].old.ptr # Null
      /\ frame' = [frame EXCEPT ![t].under = below[frame[t].old.ptr]]
      /\ Goto(t, "popCas") /\ UNCHANGED <<stack, queues, client>>
  BY DEF PopLook
<1>2. /\ pc'[t] = "popCas" /\ frame'[t].old = frame[t].old
      /\ frame'[t].under = below[frame[t].old.ptr]
      /\ \A u \in Threads \ {t} : pc'[u] = pc[u] /\ frame'[u] = frame[u]
  BY <1>1, Moves DEF IInv, TypeOK, Frames
<1>3. Quiet(t)
  BY <1>1, <1>2 DEF Quiet, Others, Owned, Holding, Linking, Returning
<1>4. Seen(frame[t].old, top)
  BY <1>1 DEF IInv, ThreadsOK, ThreadOK, StackOK
<1>5. ScriptFits(t)'
  BY <1>1, <1>2, SameScript DEF Enqueueing, Dequeueing, Linking, Returning
<1>6. ThreadOK(t)'
  BY <1>1, <1>2, <1>4, <1>5 DEF ThreadOK, StackOK, HandOK, EnqOK, DeqOK, Linking
<1> QED
  BY <1>3, <1>6, QuietStep

(* ... and reads the top again. *)
LEMMA PopRetryKeeps ==
  ASSUME IInv, TypeOK', NEW t \in Threads, PopRetry(t), UNCHANGED <<queues, client>>
  PROVE  IInv'
<1> USE DEF stack, queues, client, history
<1>1. /\ pc[t] = "popCas" /\ frame' = [frame EXCEPT ![t].old = top]
      /\ Goto(t, "popLook") /\ UNCHANGED <<stack, queues, client>>
  BY DEF PopRetry
<1>2. /\ pc'[t] = "popLook" /\ frame'[t].old = top
      /\ \A u \in Threads \ {t} : pc'[u] = pc[u] /\ frame'[u] = frame[u]
  BY <1>1, Moves DEF IInv, TypeOK, Frames
<1>3. Quiet(t)
  BY <1>1, <1>2 DEF Quiet, Others, Owned, Holding, Linking, Returning
<1>5. ScriptFits(t)'
  BY <1>1, <1>2, SameScript DEF Enqueueing, Dequeueing, Linking, Returning
<1>6. ThreadOK(t)'
  BY <1>1, <1>2, <1>5 DEF ThreadOK, StackOK, HandOK, EnqOK, DeqOK, Linking, Seen, TypeOK, Words
<1> QED
  BY <1>3, <1>6, QuietStep

(* enqueueNode reads next_ of its node. *)
LEMMA EnqLoadNextKeeps ==
  ASSUME IInv, TypeOK', NEW t \in Threads, EnqLoadNext(t)
  PROVE  IInv'
<1> USE DEF stack, queues, client, history
<1>1. /\ pc[t] = "loadNext" /\ frame' = [frame EXCEPT ![t].next = next[frame[t].node]]
      /\ Goto(t, "storeNext") /\ UNCHANGED <<stack, queues, client>>
  BY DEF EnqLoadNext, Set
<1>2. /\ pc'[t] = "storeNext" /\ frame'[t].next = next[frame[t].node]
      /\ frame'[t].node = frame[t].node
      /\ \A u \in Threads \ {t} : pc'[u] = pc[u] /\ frame'[u] = frame[u]
  BY <1>1, Moves DEF IInv, TypeOK, Frames
<1>3. Quiet(t)
  BY <1>1, <1>2 DEF Quiet, Others, Owned, Holding
<1>4. data[frame[t].node] = Doing(t).v
  BY <1>1 DEF IInv, ThreadsOK, ThreadOK, HandOK
<1>5. ScriptFits(t)' /\ Doing(t)' = Doing(t)
  BY <1>1, <1>2, SameScript DEF Enqueueing, Dequeueing, Linking, Returning
<1>6. ThreadOK(t)'
  BY <1>1, <1>2, <1>4, <1>5 DEF ThreadOK, StackOK, HandOK, EnqOK, DeqOK, Linking
<1> QED
  BY <1>3, <1>6, QuietStep

(* What a thread knows of the node in its hands. *)
LEMMA HandStays ==
  ASSUME IInv, NEW t \in Threads, pc[t] \in Linking, frame'[t].node = frame[t].node,
         UNCHANGED <<next, data>>, Doing(t)' = Doing(t), pc'[t] \in Linking \cup {"enqFinish"}
  PROVE  HandOK(t)'
<1>1. next[frame[t].node].ptr = Null /\ data[frame[t].node] = Doing(t).v
  BY DEF IInv, ThreadsOK, ThreadOK, HandOK
<1> QED
  BY <1>1 DEF HandOK, Linking

(* enqueueNode reads the tail ... *)
LEMMA EnqTailKeeps ==
  ASSUME IInv, TypeOK', NEW t \in Threads, EnqTail(t)
  PROVE  IInv'
<1> USE DEF stack, queues, client, history
<1>1. /\ pc[t] = "enqTail" /\ frame' = [frame EXCEPT ![t].tail = tail[Queue(t)]]
      /\ Goto(t, "enqNext") /\ UNCHANGED <<stack, queues, client>>
  BY DEF EnqTail, Set
<1>2. /\ pc'[t] = "enqNext" /\ frame'[t].tail = tail[Queue(t)]
      /\ frame'[t].node = frame[t].node
      /\ \A u \in Threads \ {t} : pc'[u] = pc[u] /\ frame'[u] = frame[u]
  BY <1>1, Moves DEF IInv, TypeOK, Frames
<1>3. Quiet(t)
  BY <1>1, <1>2 DEF Quiet, Others, Owned, Holding, Linking
<1>4. ScriptFits(t)' /\ Doing(t)' = Doing(t) /\ Queue(t)' = Queue(t)
  BY <1>1, <1>2, SameScript DEF Enqueueing, Dequeueing, Linking, Returning
<1>5. HandOK(t)'
  BY <1>1, <1>2, <1>4, HandStays DEF Linking
<1>6. Queue(t) \in Queues
  BY <1>1, DoingType DEF IInv, ThreadsOK, ThreadOK, ScriptFits, Enqueueing, Linking
<1>7. Seen(tail[Queue(t)], tail[Queue(t)]) /\ tail[Queue(t)].ptr # Null
  BY <1>6, TailNode, NodesAssumption DEF Seen, Words
<1>8. EnqOK(t)'
  BY <1>1, <1>2, <1>4, <1>7 DEF EnqOK
<1>9. ThreadOK(t)'
  BY <1>1, <1>2, <1>4, <1>5, <1>8 DEF ThreadOK, StackOK, DeqOK
<1> QED
  BY <1>3, <1>9, QuietStep

(* ... its next_ ... *)
LEMMA EnqNextKeeps ==
  ASSUME IInv, TypeOK', NEW t \in Threads, EnqNext(t)
  PROVE  IInv'
<1> USE DEF stack, queues, client, history
<1>1. /\ pc[t] = "enqNext" /\ frame' = [frame EXCEPT ![t].next = next[frame[t].tail.ptr]]
      /\ Goto(t, "enqCheck") /\ UNCHANGED <<stack, queues, client>>
  BY DEF EnqNext, Set
<1>2. /\ pc'[t] = "enqCheck" /\ frame'[t].next = next[frame[t].tail.ptr]
      /\ frame'[t].node = frame[t].node /\ frame'[t].tail = frame[t].tail
      /\ \A u \in Threads \ {t} : pc'[u] = pc[u] /\ frame'[u] = frame[u]
  BY <1>1, Moves DEF IInv, TypeOK, Frames
<1>3. Quiet(t)
  BY <1>1, <1>2 DEF Quiet, Others, Owned, Holding, Linking
<1>4. ScriptFits(t)' /\ Doing(t)' = Doing(t) /\ Queue(t)' = Queue(t)
  BY <1>1, <1>2, SameScript DEF Enqueueing, Dequeueing, Linking, Returning
<1>5. HandOK(t)'
  BY <1>1, <1>2, <1>4, HandStays DEF Linking
<1>6. Seen(frame[t].tail, tail[Queue(t)]) /\ frame[t].tail.ptr # Null
  BY <1>1 DEF IInv, ThreadsOK, ThreadOK, EnqOK
<1>7. Seen(next[frame[t].tail.ptr], next[frame[t].tail.ptr])
  BY <1>6 DEF Seen, IInv, TypeOK, Frames, Words, NodesOrNull
<1>8. EnqOK(t)'
  BY <1>1, <1>2, <1>4, <1>6, <1>7 DEF EnqOK
<1>9. ThreadOK(t)'
  BY <1>1, <1>2, <1>4, <1>5, <1>8 DEF ThreadOK, StackOK, DeqOK
<1> QED
  BY <1>3, <1>9, QuietStep

(* ... and the tail again: it is the last node, or behind. *)
LEMMA EnqCheckKeeps ==
  ASSUME IInv, TypeOK', NEW t \in Threads, EnqCheck(t)
  PROVE  IInv'
<1> USE DEF stack, queues, client, history
<1>a. PICK label : label = (IF tail[Queue(t)] # frame[t].tail THEN "enqTail"
                            ELSE IF frame[t].next.ptr = Null THEN "enqCas"
                            ELSE "enqSwing")
  OBVIOUS
<1>1. /\ pc[t] = "enqCheck" /\ frame' = frame
      /\ Goto(t, label) /\ UNCHANGED <<stack, queues, client>>
  BY <1>a DEF EnqCheck
<1>2. /\ pc'[t] = label /\ label \in {"enqTail", "enqCas", "enqSwing"}
      /\ \A u \in Threads \ {t} : pc'[u] = pc[u]
  BY <1>a, <1>1, Moves
<1>3. Quiet(t)
  BY <1>1, <1>2 DEF Quiet, Others, Owned, Holding, Linking
<1>4. ScriptFits(t)' /\ Doing(t)' = Doing(t) /\ Queue(t)' = Queue(t)
  BY <1>1, <1>2, SameScript DEF Enqueueing, Dequeueing, Linking, Returning
<1>5. HandOK(t)'
  BY <1>1, <1>2, <1>4, HandStays DEF Linking
<1>6. /\ Seen(frame[t].tail, tail[Queue(t)]) /\ frame[t].tail.ptr # Null
      /\ Seen(frame[t].next, next[frame[t].tail.ptr])
      /\ tail[Queue(t)] = frame[t].tail /\ frame[t].next.ptr # Null
           => next[frame[t].tail.ptr] = frame[t].next
  BY <1>1 DEF IInv, ThreadsOK, ThreadOK, EnqOK
<1>7. Queue(t) \in Queues
  BY <1>1, DoingType DEF IInv, ThreadsOK, ThreadOK, ScriptFits, Enqueueing, Linking
<1>8. tail[Queue(t)] = frame[t].tail => frame[t].tail.ptr \in In(Queue(t))
  BY <1>7, TailNode
<1>9. In(Queue(t))' = In(Queue(t))
  BY <1>1, <1>4 DEF In, QueueNodes, NextNode
<1>10. CASE label = "enqTail"
  <2>1. EnqOK(t)'
    BY <1>2, <1>10 DEF EnqOK
  <2>2. ThreadOK(t)'
    BY <1>2, <1>10, <1>4, <1>5, <2>1 DEF ThreadOK, StackOK, DeqOK
  <2> QED
    BY <1>3, <2>2, QuietStep
<1>11. CASE label = "enqCas"
  <2>1. EnqOK(t)'
    BY <1>a, <1>1, <1>2, <1>11, <1>4, <1>6, <1>8, <1>9 DEF EnqOK
  <2>2. ThreadOK(t)'
    BY <1>2, <1>11, <1>4, <1>5, <2>1 DEF ThreadOK, StackOK, DeqOK
  <2> QED
    BY <1>3, <2>2, QuietStep
<1>12. CASE label = "enqSwing"
  <2>1. EnqOK(t)'
    BY <1>a, <1>1, <1>2, <1>12, <1>4, <1>6 DEF EnqOK, AfterTail
  <2>2. ThreadOK(t)'
    BY <1>2, <1>12, <1>4, <1>5, <2>1 DEF ThreadOK, StackOK, DeqOK
  <2> QED
    BY <1>3, <2>2, QuietStep
<1> QED
  BY <1>2, <1>10, <1>11, <1>12

(* The node could not be linked. *)
LEMMA EnqRetryKeeps ==
  ASSUME IInv, TypeOK', NEW t \in Threads, EnqRetry(t)
  PROVE  IInv'
<1> USE DEF stack, queues, client, history
<1>1. /\ pc[t] = "enqCas" /\ frame' = frame
      /\ Goto(t, "enqTail") /\ UNCHANGED <<stack, queues, client>>
  BY DEF EnqRetry
<1>2. /\ pc'[t] = "enqTail"
      /\ \A u \in Threads \ {t} : pc'[u] = pc[u]
  BY <1>1, Moves
<1>3. Quiet(t)
  BY <1>1, <1>2 DEF Quiet, Others, Owned, Holding, Linking
<1>4. ScriptFits(t)' /\ Doing(t)' = Doing(t)
  BY <1>1, <1>2, SameScript DEF Enqueueing, Dequeueing, Linking, Returning
<1>5. HandOK(t)'
  BY <1>1, <1>2, <1>4, HandStays DEF Linking
<1>6. ThreadOK(t)'
  BY <1>2, <1>4, <1>5 DEF ThreadOK, StackOK, EnqOK, DeqOK
<1> QED
  BY <1>3, <1>6, QuietStep

(* Of an idle thread nothing is asked. *)
LEMMA AtIdle ==
  ASSUME NEW t \in Threads, pc'[t] = "idle"
  PROVE  ThreadOK(t)'
BY DEF ThreadOK, ScriptFits, StackOK, HandOK, EnqOK, DeqOK,
       Enqueueing, Dequeueing, Linking, Returning

(* A step that may move the tail of the thread's queue. *)
LEMMA SwingStep ==
  ASSUME IInv, TypeOK', NEW t \in Threads, Queue(t) \in Queues,
         NEW n, AfterTail(t, n), SwingTail(t, n),
         UNCHANGED <<top, below, fresh, next, data, head>>, Others(t),
         Owned(t)' = Owned(t), ThreadOK(t)'
  PROVE  IInv'
<1>1. Still(t)
  BY DEF Still, Newer
<1>2. Placed
  BY <1>1, StillLists
<1>3. \A q \in Queues : TailOK(q)' /\ Newer(tail[q], tail'[q])
  BY <1>2, TailMoves DEF Placed
<1> QED
  BY <1>1, <1>3, StillStep

(* enqueueNode helps the tail ... *)
LEMMA EnqSwingKeeps ==
  ASSUME IInv, TypeOK', NEW t \in Threads, EnqSwing(t)
  PROVE  IInv'
<1> USE DEF stack, queues, client, history
<1>1. /\ pc[t] = "enqSwing" /\ frame' = frame
      /\ Goto(t, "enqTail") /\ UNCHANGED <<stack, next, data, head, client>>
      /\ SwingTail(t, frame[t].next.ptr)
  BY DEF EnqSwing
<1>2. /\ pc'[t] = "enqTail"
      /\ \A u \in Threads \ {t} : pc'[u] = pc[u]
  BY <1>1, Moves
<1>3. Others(t) /\ Owned(t)' = Owned(t)
  BY <1>1, <1>2 DEF Others, Owned, Holding, Linking
<1>4. ScriptFits(t)' /\ Doing(t)' = Doing(t)
  BY <1>1, <1>2, SameScript DEF Enqueueing, Dequeueing, Linking, Returning
<1>5. HandOK(t)'
  BY <1>1, <1>2, <1>4, HandStays DEF Linking
<1>6. ThreadOK(t)'
  BY <1>2, <1>4, <1>5 DEF ThreadOK, StackOK, EnqOK, DeqOK
<1>7. AfterTail(t, frame[t].next.ptr) /\ Queue(t) \in Queues
  BY <1>1, DoingType DEF IInv, ThreadsOK, ThreadOK, EnqOK, ScriptFits, Enqueueing, Linking
<1> QED
  BY <1>1, <1>3, <1>6, <1>7, SwingStep

(* ... or moves it to its own node ... *)
LEMMA EnqFinishKeeps ==
  ASSUME IInv, TypeOK', NEW t \in Threads, EnqFinish(t)
  PROVE  IInv'
<1> USE DEF stack, queues, client, history
<1>1. /\ pc[t] = "enqFinish" /\ frame' = frame
      /\ Goto(t, "idle") /\ UNCHANGED <<stack, next, data, head, history>>
      /\ SwingTail(t, frame[t].node) /\ Return(t)
  BY DEF EnqFinish
<1>2. /\ pc'[t] = "idle"
      /\ \A u \in Threads \ {t} : pc'[u] = pc[u]
  BY <1>1, Moves
<1>3. AfterTail(t, frame[t].node) /\ script[t] # <<>> /\ Queue(t) \in Queues
  BY <1>1, DoingType DEF IInv, ThreadsOK, ThreadOK, EnqOK, ScriptFits, Enqueueing
<1>4. \A u \in Threads \ {t} : script'[u] = script[u]
  BY <1>1, <1>3, ReturnType DEF IInv
<1>5. Others(t) /\ Owned(t)' = Owned(t)
  BY <1>1, <1>2, <1>4 DEF Others, Owned, Holding, Linking, Returning
<1> QED
  BY <1>1, <1>2, <1>3, <1>5, AtIdle, SwingStep

(* ... and dequeue helps it. *)
LEMMA DeqSwingKeeps ==
  ASSUME IInv, TypeOK', NEW t \in Threads, DeqSwing(t)
  PROVE  IInv'
<1> USE DEF stack, queues, client, history
<1>1. /\ pc[t] = "deqSwing" /\ frame' = frame
      /\ Goto(t, "deqHead") /\ UNCHANGED <<stack, next, data, head, client>>
      /\ SwingTail(t, frame[t].next.ptr)
  BY DEF DeqSwing
<1>2. /\ pc'[t] = "deqHead"
      /\ \A u \in Threads \ {t} : pc'[u] = pc[u]
  BY <1>1, Moves
<1>3. Others(t) /\ Owned(t)' = Owned(t)
  BY <1>1, <1>2 DEF Others, Owned, Holding, Linking, Returning
<1>4. ScriptFits(t)' /\ Doing(t)' = Doing(t)
  BY <1>1, <1>2, SameScript DEF Enqueueing, Dequeueing, Linking, Returning
<1>6. ThreadOK(t)'
  BY <1>2, <1>4 DEF ThreadOK, StackOK, HandOK, EnqOK, DeqOK, Linking
<1>7. AfterTail(t, frame[t].next.ptr) /\ Queue(t) \in Queues
  BY <1>1, DoingType DEF IInv, ThreadsOK, ThreadOK, DeqOK, ScriptFits, Dequeueing
<1> QED
  BY <1>1, <1>3, <1>6, <1>7, SwingStep

(* Steps that write to the node in hand. *)
LEMMA HandStep ==
  ASSUME IInv, TypeOK', NEW t \in Threads, Still(t), ThreadOK(t)', tail' = tail
  PROVE  IInv'
<1>1. Placed
  BY StillLists
<1>2. \A q \in Queues : TailOK(q)' /\ Newer(tail[q], tail'[q])
  <2> TAKE q \in Queues
  <2>1. QueueNodes(q)' = QueueNodes(q)
    BY <1>1 DEF Placed
  <2>2. TailOK(q)
    BY DEF IInv, TailsOK
  <2> QED
    BY <2>1, <2>2 DEF Still, TailOK, Newer
<1> QED
  BY <1>2, StillStep

(* The value is written to the node ... *)
LEMMA FillKeeps ==
  ASSUME IInv, TypeOK', NEW t \in Threads, Fill(t)
  PROVE  IInv'
<1> USE DEF stack, queues, client, history
<1>1. /\ pc[t] = "fill" /\ frame' = frame
      /\ Goto(t, "loadNext") /\ UNCHANGED <<stack, next, head, tail, client>>
      /\ data' = [data EXCEPT ![frame[t].node] = Doing(t).v]
  BY DEF Fill
<1>2. /\ pc'[t] = "loadNext"
      /\ \A u \in Threads \ {t} : pc'[u] = pc[u]
  BY <1>1, Moves
<1>3. Owned(t) = {frame[t].node} /\ frame[t].node \in Nodes
  BY <1>1, InHand DEF Holding
<1>4. Still(t)
  BY <1>1, <1>2, <1>3 DEF Still, Newer, Others, Owned, Holding, IInv, TypeOK
<1>5. ScriptFits(t)' /\ Doing(t)' = Doing(t)
  BY <1>1, <1>2, SameScript DEF Enqueueing, Dequeueing, Linking, Returning
<1>6. data'[frame[t].node] = Doing(t).v
  BY <1>1, <1>3 DEF IInv, TypeOK
<1>7. ThreadOK(t)'
  BY <1>1, <1>2, <1>5, <1>6 DEF ThreadOK, StackOK, HandOK, EnqOK, DeqOK, Linking
<1> QED
  BY <1>1, <1>4, <1>7, HandStep

(* ... next_ is cleared, with a new generation ... *)
LEMMA EnqStoreNextKeeps ==
  ASSUME IInv, TypeOK', NEW t \in Threads, EnqStoreNext(t)
  PROVE  IInv'
<1> USE DEF stack, queues, client, history
<1>1. /\ pc[t] = "storeNext" /\ frame' = frame
      /\ Goto(t, "enqTail") /\ UNCHANGED <<stack, data, head, tail, client>>
      /\ next' = [next EXCEPT ![frame[t].node] = Inc(frame[t].next, Null)]
  BY DEF EnqStoreNext
<1>2. /\ pc'[t] = "enqTail"
      /\ \A u \in Threads \ {t} : pc'[u] = pc[u]
  BY <1>1, Moves
<1>3. Owned(t) = {frame[t].node} /\ frame[t].node \in Nodes
  BY <1>1, InHand DEF Holding
<1>4. frame[t].next = next[frame[t].node] /\ data[frame[t].node] = Doing(t).v
  BY <1>1 DEF IInv, ThreadsOK, ThreadOK, HandOK
<1>5. /\ next'[frame[t].node].ptr = Null
      /\ Newer(next[frame[t].node], next'[frame[t].node])
      /\ \A n \in Nodes \ {frame[t].node} : next'[n] = next[n]
  <2>1. next[frame[t].node] \in Words /\ next \in [Nodes -> Words]
    BY <1>3 DEF IInv, TypeOK
  <2>2. next'[frame[t].node] = Inc(next[frame[t].node], Null)
    BY <1>1, <1>3, <1>4, <2>1
  <2>3. \A n \in Nodes \ {frame[t].node} : next'[n] = next[n]
    BY <1>1, <2>1
  <2> QED
    BY <2>1, <2>2, <2>3, IncType, NoFrameType
<1>6. Still(t)
  BY <1>1, <1>2, <1>3, <1>5 DEF Still, Newer, Others, Owned, Holding, Linking
<1>7. ScriptFits(t)' /\ Doing(t)' = Doing(t)
  BY <1>1, <1>2, SameScript DEF Enqueueing, Dequeueing, Linking, Returning
<1>8. ThreadOK(t)'
  BY <1>1, <1>2, <1>4, <1>5, <1>7 DEF ThreadOK, StackOK, HandOK, EnqOK, DeqOK
<1> QED
  BY <1>1, <1>6, <1>8, HandStep

(* ... and pushNode puts the node above the top it read. *)
LEMMA PushLinkKeeps ==
  ASSUME IInv, TypeOK', NEW t \in Threads, PushLink(t), UNCHANGED <<queues, client>>
  PROVE  IInv'
<1> USE DEF stack, queues, client, history
<1>1. /\ pc[t] = "pushLink" /\ frame' = frame
      /\ Goto(t, "pushCas") /\ UNCHANGED <<top, fresh, queues, client>>
      /\ below' = [below EXCEPT ![frame[t].node] = frame[t].old.ptr]
  BY DEF PushLink
<1>2. /\ pc'[t] = "pushCas"
      /\ \A u \in Threads \ {t} : pc'[u] = pc[u]
  BY <1>1, Moves
<1>3. Owned(t) = {frame[t].node} /\ frame[t].node \in Nodes
  BY <1>1, InHand DEF Holding, Returning
<1>4. /\ below'[frame[t].node] = frame[t].old.ptr
      /\ \A n \in Nodes \ {frame[t].node} : below'[n] = below[n]
  BY <1>1, <1>3 DEF IInv, TypeOK
<1>5. Still(t)
  BY <1>1, <1>2, <1>3, <1>4 DEF Still, Newer, Others, Owned, Holding, Returning
<1>6. ScriptFits(t)'
  BY <1>1, <1>2, SameScript DEF Enqueueing, Dequeueing, Linking, Returning
<1>7. ThreadOK(t)'
  BY <1>1, <1>2, <1>4, <1>6 DEF ThreadOK, StackOK, HandOK, EnqOK, DeqOK, Linking
<1> QED
  BY <1>1, <1>5, <1>7, HandStep

(* pushNode reads the top. *)
LEMMA PushReadKeeps ==
  ASSUME IInv, TypeOK', NEW t \in Threads, PushRead(t) \/ PushRetry(t),
         UNCHANGED <<queues, client>>
  PROVE  IInv'
<1> USE DEF stack, queues, client, history
<1>1. /\ pc[t] \in {"push", "pushCas"} /\ frame' = [frame EXCEPT ![t].old = top]
      /\ Goto(t, "pushLink") /\ UNCHANGED <<stack, queues, client>>
  BY DEF PushRead, PushRetry
<1>2. /\ pc'[t] = "pushLink" /\ frame'[t].node = frame[t].node
      /\ \A u \in Threads \ {t} : pc'[u] = pc[u] /\ frame'[u] = frame[u]
  BY <1>1, Moves DEF IInv, TypeOK, Frames
<1>3. Quiet(t)
  BY <1>1, <1>2 DEF Quiet, Others, Owned, Holding, Returning
<1>4. ScriptFits(t)'
  BY <1>1, <1>2, SameScript DEF Enqueueing, Dequeueing, Linking, Returning
<1>5. ThreadOK(t)'
  BY <1>2, <1>4 DEF ThreadOK, StackOK, HandOK, EnqOK, DeqOK, Linking
<1> QED
  BY <1>3, <1>5, QuietStep

(* A thread that is in an operation has a queue. *)
LEMMA BusyQueue ==
  ASSUME IInv, NEW t \in Threads, pc[t] \in Enqueueing \cup Dequeueing
  PROVE  script[t] # <<>> /\ Queue(t) \in Queues
BY DoingType DEF IInv, ThreadsOK, ThreadOK, ScriptFits

(* dequeue reads the head ... *)
LEMMA DeqHeadKeeps ==
  ASSUME IInv, TypeOK', NEW t \in Threads, DeqHead(t)
  PROVE  IInv'
<1> USE DEF stack, queues, client, history
<1>1. /\ pc[t] \in {"idle", "deqHead"} /\ script[t] # <<>> /\ Doing(t).op = "deq"
      /\ frame' = [frame EXCEPT ![t] = [NoFrame EXCEPT !.head = head[Queue(t)]]]
      /\ Goto(t, "deqTail") /\ UNCHANGED <<stack, queues, client>>
  BY BusyQueue DEF DeqHead, Starts, IInv, ThreadsOK, ThreadOK, ScriptFits, Dequeueing
<1>2. /\ pc'[t] = "deqTail" /\ frame'[t].head = head[Queue(t)]
      /\ \A u \in Threads \ {t} : pc'[u] = pc[u] /\ frame'[u] = frame[u]
  <2>1. [NoFrame EXCEPT !.head = head[Queue(t)]].head = head[Queue(t)]
    BY DEF NoFrame
  <2> QED
    BY <2>1, <1>1, Moves DEF IInv, TypeOK
<1>3. Quiet(t)
  BY <1>1, <1>2 DEF Quiet, Others, Owned, Holding, Linking, Returning
<1>4. ScriptFits(t)' /\ Doing(t)' = Doing(t) /\ Queue(t)' = Queue(t)
  BY <1>1, <1>2 DEF ScriptFits, Doing, Queue, Enqueueing, Dequeueing, Linking, Returning
<1>5. Queue(t) \in Queues
  BY <1>1, DoingType DEF IInv
<1>6. Seen(head[Queue(t)], head[Queue(t)]) /\ head[Queue(t)].ptr # Null
  BY <1>5, TailNode, NodesAssumption DEF Seen, Words
<1>7. ThreadOK(t)'
  BY <1>1, <1>2, <1>4, <1>6 DEF ThreadOK, StackOK, HandOK, EnqOK, DeqOK, Linking
<1> QED
  BY <1>3, <1>7, QuietStep

(* ... and the tail. *)
LEMMA DeqTailKeeps ==
  ASSUME IInv, TypeOK', NEW t \in Threads, DeqTail(t)
  PROVE  IInv'
<1> USE DEF stack, queues, client, history
<1>1. /\ pc[t] = "deqTail" /\ frame' = [frame EXCEPT ![t].tail = tail[Queue(t)]]
      /\ Goto(t, "deqNext") /\ UNCHANGED <<stack, queues, client>>
  BY DEF DeqTail, Set
<1>2. /\ pc'[t] = "deqNext" /\ frame'[t].tail = tail[Queue(t)]
      /\ frame'[t].head = frame[t].head
      /\ \A u \in Threads \ {t} : pc'[u] = pc[u] /\ frame'[u] = frame[u]
  BY <1>1, Moves DEF IInv, TypeOK, Frames
<1>3. Quiet(t)
  BY <1>1, <1>2 DEF Quiet, Others, Owned, Holding, Linking, Returning
<1>4. ScriptFits(t)' /\ Doing(t)' = Doing(t) /\ Queue(t)' = Queue(t)
  BY <1>1, <1>2, SameScript DEF Enqueueing, Dequeueing, Linking, Returning
<1>5. Queue(t) \in Queues
  BY <1>1, BusyQueue DEF Dequeueing
<1>6. Seen(frame[t].head, head[Queue(t)]) /\ frame[t].head.ptr # Null
  BY <1>1 DEF IInv, ThreadsOK, ThreadOK, DeqOK
<1>7. Seen(tail[Queue(t)], tail[Queue(t)]) /\ tail[Queue(t)].ptr # Null
  BY <1>5, TailNode, NodesAssumption DEF Seen, Words
<1>8. head[Queue(t)] = frame[t].head /\ tail[Queue(t)] # frame[t].head
        => tail[Queue(t)].gen > head[Queue(t)].gen
  BY <1>5, TailNode DEF Words
<1>9. ThreadOK(t)'
  BY <1>1, <1>2, <1>4, <1>6, <1>7, <1>8 DEF ThreadOK, StackOK, HandOK, EnqOK, DeqOK, Linking
<1> QED
  BY <1>3, <1>9, QuietStep

(* A queue whose head has no successor has only the dummy node. *)
LEMMA LastNode ==
  ASSUME IInv, NEW q \in Queues, next[head[q].ptr].ptr = Null
  PROVE  Items[q] = <<>> /\ tail[q] = head[q] /\ Len(QueueNodes(q)) = 1
<1>1. Path(NextNode, head[q].ptr, QueueNodes(q)) /\ head[q].ptr # Null
  BY DEF IInv, ListsOK
<1>2. /\ 1 \in 1 .. Len(QueueNodes(q)) /\ head[q].ptr = QueueNodes(q)[1]
  BY <1>1, PathStart
<1>3. NextNode[QueueNodes(q)[1]] = Null
  BY <1>2, TailNode DEF NextNode
<1>4. Len(QueueNodes(q)) = 1
  <2>1. PICK k \in 1 .. Len(QueueNodes(q)) : k = 1
    BY <1>2
  <2>2. NextNode[QueueNodes(q)[k]] = Null
    BY <1>3, <2>1
  <2>3. k = Len(QueueNodes(q))
    BY <1>1, <2>2, PathLink
  <2> QED
    BY <2>1, <2>3
<1>5. 1 .. Len(QueueNodes(q)) - 1 = {}
  BY <1>4
<1>6. Items[q] = <<>>
  <2>1. Items[q] = [k \in 1 .. Len(QueueNodes(q)) - 1 |-> data[QueueNodes(q)[k + 1]]]
    BY DEF Items
  <2> HIDE DEF Items
  <2>2. Items[q] \in [1 .. 0 -> Nat]
    BY <1>5, <2>1
  <2>3. Items[q] \in Seq(Nat)
    BY <2>2, SeqDef
  <2>4. Len(Items[q]) = 0
    BY <2>2, <2>3, LenProperties
  <2> QED
    BY <2>3, <2>4, EmptySeq
<1>7. tail[q] = head[q]
  BY <1>4, TailNode DEF Words
<1> QED
  BY <1>4, <1>6, <1>7

(* dequeue reads next_ of the head; here the queue may be empty. *)
LEMMA DeqNextKeeps ==
  ASSUME IInv, TypeOK', NEW t \in Threads, DeqNext(t)
  PROVE  IInv'
<1> USE DEF stack, queues, client, history
<1>1. /\ pc[t] = "deqNext" /\ frame' = [frame EXCEPT ![t].next = next[frame[t].head.ptr]]
      /\ wasEmpty' = [wasEmpty EXCEPT ![t] = Items[Queue(t)] = <<>>]
      /\ Goto(t, "deqCheck") /\ UNCHANGED <<stack, queues, script>>
  BY DEF DeqNext, Set
<1>2. /\ pc'[t] = "deqCheck" /\ frame'[t].tail = frame[t].tail
      /\ frame'[t].head = frame[t].head /\ frame'[t].next = next[frame[t].head.ptr]
      /\ \A u \in Threads \ {t} : pc'[u] = pc[u] /\ frame'[u] = frame[u]
  BY <1>1, Moves DEF IInv, TypeOK, Frames
<1>3. /\ wasEmpty'[t] = (Items[Queue(t)] = <<>>)
      /\ \A u \in Threads \ {t} : wasEmpty'[u] = wasEmpty[u]
  <2>1. DOMAIN wasEmpty = Threads
    BY DEF IInv, TypeOK
  <2> HIDE DEF Items
  <2>2. wasEmpty'[t] = (Items[Queue(t)] = <<>>)
    BY <1>1, <2>1, Zenon
  <2>3. \A u \in Threads \ {t} : wasEmpty'[u] = wasEmpty[u]
    BY <1>1, <2>1
  <2> QED
    BY <2>2, <2>3
<1>4. Quiet(t)
  BY <1>1, <1>2, <1>3 DEF Quiet, Others, Owned, Holding, Linking, Returning
<1>5. ScriptFits(t)' /\ Doing(t)' = Doing(t) /\ Queue(t)' = Queue(t)
  BY <1>1, <1>2, SameScript DEF Enqueueing, Dequeueing, Linking, Returning
<1>6. Queue(t) \in Queues
  BY <1>1, BusyQueue DEF Dequeueing
<1>7. /\ Seen(frame[t].head, head[Queue(t)]) /\ frame[t].head.ptr # Null
      /\ Seen(frame[t].tail, tail[Queue(t)]) /\ frame[t].tail.ptr # Null
      /\ head[Queue(t)] = frame[t].head /\ frame[t].tail # frame[t].head
            => tail[Queue(t)].gen > head[Queue(t)].gen
  BY <1>1 DEF IInv, ThreadsOK, ThreadOK, DeqOK
<1>8. ASSUME head[Queue(t)] = frame[t].head, next[frame[t].head.ptr].ptr = Null
      PROVE  frame[t].tail = frame[t].head /\ Items[Queue(t)] = <<>>
  <2>1. Items[Queue(t)] = <<>> /\ tail[Queue(t)] = head[Queue(t)]
    BY <1>6, <1>8, LastNode
  <2>2. ~ (tail[Queue(t)].gen > head[Queue(t)].gen)
    BY <1>6, <2>1, TailNode DEF Words
  <2> QED
    BY <1>7, <1>8, <2>1, <2>2
<1>9. DeqOK(t)'
  BY <1>1, <1>2, <1>3, <1>5, <1>7, <1>8 DEF DeqOK
<1>10. ThreadOK(t)'
  BY <1>2, <1>5, <1>9 DEF ThreadOK, StackOK, HandOK, EnqOK, Linking
<1> QED
  BY <1>4, <1>10, QuietStep

(* The head is still the head, so what was read was true of it. *)
LEMMA DeqCheckKeeps ==
  ASSUME IInv, TypeOK', NEW t \in Threads, DeqCheck(t)
  PROVE  IInv'
<1> USE DEF stack, queues, client, history
<1>a. PICK label : label = (IF head[Queue(t)] # frame[t].head THEN "deqHead"
                            ELSE IF frame[t].head # frame[t].tail THEN "deqData"
                            ELSE IF frame[t].next.ptr = Null THEN "empty"
                            ELSE "deqSwing")
  OBVIOUS
<1>1. /\ pc[t] = "deqCheck" /\ frame' = frame
      /\ Goto(t, label) /\ UNCHANGED <<stack, queues, client>>
  BY <1>a DEF DeqCheck
<1>2. /\ pc'[t] = label /\ label \in {"deqHead", "deqData", "empty", "deqSwing"}
      /\ \A u \in Threads \ {t} : pc'[u] = pc[u]
  BY <1>a, <1>1, Moves
<1>3. Quiet(t)
  BY <1>1, <1>2 DEF Quiet, Others, Owned, Holding, Linking, Returning
<1>4. ScriptFits(t)' /\ Doing(t)' = Doing(t) /\ Queue(t)' = Queue(t)
  BY <1>1, <1>2, SameScript DEF Enqueueing, Dequeueing, Linking, Returning
<1>5. /\ Seen(frame[t].head, head[Queue(t)]) /\ frame[t].head.ptr # Null
      /\ Seen(frame[t].tail, tail[Queue(t)]) /\ frame[t].tail.ptr # Null
      /\ head[Queue(t)] = frame[t].head /\ frame[t].tail # frame[t].head
            => tail[Queue(t)].gen > head[Queue(t)].gen
      /\ head[Queue(t)] = frame[t].head =>
           /\ (frame[t].next.ptr # Null => next[frame[t].head.ptr] = frame[t].next)
           /\ (frame[t].next.ptr = Null => frame[t].tail = frame[t].head /\ wasEmpty[t])
  BY <1>1 DEF IInv, ThreadsOK, ThreadOK, DeqOK
<1>6. DeqOK(t)'
  <2>1. CASE label = "deqHead"
    BY <1>2, <2>1 DEF DeqOK
  <2>2. CASE label = "deqData"
    BY <1>a, <1>1, <1>2, <2>2, <1>4, <1>5 DEF DeqOK
  <2>3. CASE label = "empty"
    BY <1>a, <1>1, <1>2, <2>3, <1>4, <1>5 DEF DeqOK
  <2>4. CASE label = "deqSwing"
    BY <1>a, <1>1, <1>2, <2>4, <1>4, <1>5 DEF DeqOK, AfterTail
  <2> QED
    BY <1>2, <2>1, <2>2, <2>3, <2>4
<1>7. StackOK(t)' /\ HandOK(t)' /\ EnqOK(t)'
  BY <1>2 DEF StackOK, HandOK, EnqOK, Linking
<1>8. ThreadOK(t)'
  BY <1>4, <1>6, <1>7 DEF ThreadOK
<1> QED
  BY <1>3, <1>8, QuietStep

(* dequeue returns nothing ... *)
LEMMA DeqEmptyKeeps ==
  ASSUME IInv, TypeOK', NEW t \in Threads, DeqEmpty(t)
  PROVE  IInv'
<1> USE DEF stack, queues, client, history
<1>1. /\ pc[t] = "empty" /\ frame' = frame
      /\ Goto(t, "idle") /\ Return(t) /\ UNCHANGED <<stack, queues>>
      /\ wasEmpty' = [wasEmpty EXCEPT ![t] = FALSE]
  BY DEF DeqEmpty
<1>2. /\ pc'[t] = "idle"
      /\ \A u \in Threads \ {t} : pc'[u] = pc[u]
  BY <1>1, Moves
<1>3. \A u \in Threads \ {t} : script'[u] = script[u] /\ wasEmpty'[u] = wasEmpty[u]
  BY <1>1, BusyQueue, ReturnType DEF IInv, TypeOK, Dequeueing
<1>4. Quiet(t)
  BY <1>1, <1>2, <1>3 DEF Quiet, Others, Owned, Holding, Linking, Returning
<1> QED
  BY <1>2, <1>4, AtIdle, QuietStep

(* ... or starts again. *)
LEMMA DeqRetryKeeps ==
  ASSUME IInv, TypeOK', NEW t \in Threads, DeqRetry(t)
  PROVE  IInv'
<1> USE DEF stack, queues, client, history
<1>1. /\ pc[t] = "deqCas" /\ frame' = frame
      /\ Goto(t, "deqHead") /\ UNCHANGED <<stack, queues, client>>
  BY DEF DeqRetry
<1>2. /\ pc'[t] = "deqHead"
      /\ \A u \in Threads \ {t} : pc'[u] = pc[u]
  BY <1>1, Moves
<1>3. Quiet(t)
  BY <1>1, <1>2 DEF Quiet, Others, Owned, Holding, Linking, Returning
<1>4. ScriptFits(t)'
  BY <1>1, <1>2, SameScript DEF Enqueueing, Dequeueing, Linking, Returning
<1>5. ThreadOK(t)'
  BY <1>2, <1>4 DEF ThreadOK, StackOK, HandOK, EnqOK, DeqOK, Linking
<1> QED
  BY <1>3, <1>5, QuietStep

(* dequeue reads the value: the node is in the queue, or the head moved. *)
LEMMA DeqDataKeeps ==
  ASSUME IInv, TypeOK', NEW t \in Threads, DeqData(t)
  PROVE  IInv'
<1> USE DEF stack, queues, client, history
<1>1. /\ pc[t] = "deqData" /\ frame' = [frame EXCEPT ![t].data = data[frame[t].next.ptr]]
      /\ Goto(t, "deqCas") /\ UNCHANGED <<stack, queues, client>>
  BY DEF DeqData, Set
<1>2. /\ pc'[t] = "deqCas" /\ frame'[t].head = frame[t].head
      /\ frame'[t].tail = frame[t].tail /\ frame'[t].next = frame[t].next
      /\ frame'[t].data = data[frame[t].next.ptr]
      /\ \A u \in Threads \ {t} : pc'[u] = pc[u] /\ frame'[u] = frame[u]
  BY <1>1, Moves DEF IInv, TypeOK, Frames
<1>3. Quiet(t)
  BY <1>1, <1>2 DEF Quiet, Others, Owned, Holding, Linking, Returning
<1>4. ScriptFits(t)' /\ Doing(t)' = Doing(t) /\ Queue(t)' = Queue(t)
  BY <1>1, <1>2, SameScript DEF Enqueueing, Dequeueing, Linking, Returning
<1>5. /\ Seen(frame[t].head, head[Queue(t)]) /\ frame[t].head.ptr # Null
      /\ head[Queue(t)] = frame[t].head /\ frame[t].tail # frame[t].head
            => tail[Queue(t)].gen > head[Queue(t)].gen
      /\ frame[t].tail # frame[t].head /\ frame[t].next.ptr # Null
      /\ head[Queue(t)] = frame[t].head => next[frame[t].head.ptr].ptr = frame[t].next.ptr
  BY <1>1 DEF IInv, ThreadsOK, ThreadOK, DeqOK
<1>6. DeqOK(t)'
  BY <1>1, <1>2, <1>4, <1>5 DEF DeqOK
<1>7. ThreadOK(t)'
  BY <1>2, <1>4, <1>6 DEF ThreadOK, StackOK, HandOK, EnqOK, Linking
<1> QED
  BY <1>3, <1>7, QuietStep

(* Steps that move a node.                                                 *)
LEMMA MovingStep ==
  ASSUME IInv, TypeOK', NEW t \in Threads, ListsOK', ApartOK', AllPlaced', TailsOK',
         Rely(t), ThreadOK(t)'
  PROVE  IInv'
<1>1. \A u \in Threads : ThreadOK(u)'
  BY Stable
<1> QED
  BY <1>1 DEF IInv, ThreadsOK

(* The nodes in the hands of the others stay. *)
LEMMA OthersKeep ==
  ASSUME IInv, NEW t \in Threads, Others(t)
  PROVE  \A u \in Threads \ {t} : Owned(u)' = Owned(u)
BY DEF Others, Owned

(* Nothing moves that a tail counts. *)
LEMMA TailsSame ==
  ASSUME IInv, head' = head, tail' = tail,
         \A q \in Queues : QueueNodes(q)' = QueueNodes(q)
  PROVE  TailsOK'
BY DEF IInv, TailsOK, TailOK

(* A new node. *)
LEMMA PopNewKeeps ==
  ASSUME IInv, TypeOK', NEW t \in Threads, PopNew(t), UNCHANGED <<queues, client>>
  PROVE  IInv'
<1> USE DEF stack, queues, client, history
<1>1. PICK n \in fresh : /\ fresh' = fresh \ {n}
                         /\ frame' = [frame EXCEPT ![t].node = n]
  BY DEF PopNew
<1>2. /\ pc[t] = "popLook" /\ Goto(t, "fill")
      /\ UNCHANGED <<top, below, queues, client>>
  BY DEF PopNew
<1>3. /\ pc'[t] = "fill" /\ frame'[t].node = n
      /\ \A u \in Threads \ {t} : pc'[u] = pc[u] /\ frame'[u] = frame[u]
  BY <1>1, <1>2, Moves DEF IInv, TypeOK, Frames
<1>4. Others(t)
  BY <1>2, <1>3 DEF Others
<1>5. Owned(t) = {} /\ Owned(t)' = {n} /\ \A u \in Threads \ {t} : Owned(u)' = Owned(u)
  BY <1>2, <1>3, <1>4, OthersKeep DEF Owned, Holding, Linking, Returning
<1>6. FreeNodes' = FreeNodes /\ Path(below', top'.ptr, FreeNodes')
  BY <1>2, StackStays
<1>7. \A q \in Queues :
        QueueNodes(q)' = QueueNodes(q) /\ Path(NextNode', head'[q].ptr, QueueNodes(q)')
  BY <1>2, QueueStays
<1>8. ListsOK'
  BY <1>2, <1>6, <1>7, Lists DEF IInv, ListsOK
<1>9. InStack' = InStack /\ \A q \in Queues : In(q)' = In(q)
  BY <1>6, <1>7 DEF InStack, In
<1>10. n \in Nodes
  BY DEF IInv, TypeOK
<1>11. ApartOK'
  BY <1>1, <1>5, <1>9, <1>10 DEF IInv, ApartOK
<1>12. AllPlaced'
  BY <1>1, <1>5, <1>9 DEF IInv, AllPlaced
<1>13. TailsOK'
  BY <1>2, <1>7, TailsSame
<1>14. Rely(t)
  BY <1>2, <1>4, <1>9 DEF Rely, Newer
<1>15. ScriptFits(t)'
  BY <1>2, <1>3, SameScript DEF Enqueueing, Dequeueing, Linking, Returning
<1>16. ThreadOK(t)'
  BY <1>3, <1>15 DEF ThreadOK, StackOK, HandOK, EnqOK, DeqOK, Linking
<1> QED
  BY <1>8, <1>11, <1>12, <1>13, <1>14, <1>16, MovingStep

(* The node at the top of the free list. *)
LEMMA PopCasKeeps ==
  ASSUME IInv, TypeOK', NEW t \in Threads, PopCas(t), UNCHANGED <<queues, client>>
  PROVE  IInv'
<1> USE DEF stack, queues, client, history
<1>1. /\ pc[t] = "popCas" /\ top = frame[t].old
      /\ top' = Inc(frame[t].old, frame[t].under)
      /\ frame' = [frame EXCEPT ![t].node = frame[t].old.ptr]
      /\ Goto(t, "fill") /\ UNCHANGED <<below, fresh, queues, client>>
  BY DEF PopCas
<1>2. top.ptr # Null /\ frame[t].under = below[top.ptr]
  BY <1>1 DEF IInv, ThreadsOK, ThreadOK, StackOK
<1>a. PICK n : n = top.ptr
  OBVIOUS
<1>3. /\ pc'[t] = "fill" /\ frame'[t].node = n
      /\ \A u \in Threads \ {t} : pc'[u] = pc[u] /\ frame'[u] = frame[u]
  BY <1>a, <1>1, Moves DEF IInv, TypeOK, Frames
<1>4. Others(t)
  BY <1>1, <1>3 DEF Others
<1>5. Owned(t) = {} /\ Owned(t)' = {n} /\ \A u \in Threads \ {t} : Owned(u)' = Owned(u)
  BY <1>1, <1>3, <1>4, OthersKeep DEF Owned, Holding, Linking, Returning
<1>6. top'.ptr = below[n] /\ Newer(top, top')
  BY <1>a, <1>1, <1>2 DEF Inc, PtrTo, Newer, IInv, TypeOK, Words
<1>7. /\ Path(below, below[n], Tail(FreeNodes))
      /\ InStack = {n} \cup NodesIn(Tail(FreeNodes)) /\ n \notin NodesIn(Tail(FreeNodes))
  BY <1>a, <1>2, PathTail DEF IInv, ListsOK, InStack
<1>8. FreeNodes' = Tail(FreeNodes)
  <2>1. Chain(below', top'.ptr) = Tail(FreeNodes)
    BY <1>1, <1>6, <1>7, ChainIsPath
  <2> QED
    BY <2>1 DEF FreeNodes
<1>9. Path(below', top'.ptr, FreeNodes')
  BY <1>1, <1>6, <1>7, <1>8
<1>10. \A q \in Queues :
        QueueNodes(q)' = QueueNodes(q) /\ Path(NextNode', head'[q].ptr, QueueNodes(q)')
  BY <1>1, QueueStays
<1>11. ListsOK'
  BY <1>1, <1>9, <1>10, Lists DEF IInv, ListsOK
<1>12. /\ InStack = {n} \cup InStack' /\ n \notin InStack'
       /\ \A q \in Queues : In(q)' = In(q)
  BY <1>7, <1>8, <1>10 DEF InStack, In
<1>13. n \in Nodes
  BY <1>12, InNodes
<1>14. ApartOK'
  BY <1>1, <1>5, <1>12, <1>13 DEF IInv, ApartOK
<1>15. AllPlaced'
  BY <1>1, <1>5, <1>12 DEF IInv, AllPlaced
<1>16. TailsOK'
  BY <1>1, <1>10, TailsSame
<1>17. Rely(t)
  BY <1>1, <1>4, <1>6, <1>12 DEF Rely, Newer
<1>18. ScriptFits(t)'
  BY <1>1, <1>3, SameScript DEF Enqueueing, Dequeueing, Linking, Returning
<1>19. ThreadOK(t)'
  BY <1>3, <1>18 DEF ThreadOK, StackOK, HandOK, EnqOK, DeqOK, Linking
<1> QED
  BY <1>11, <1>14, <1>15, <1>16, <1>17, <1>19, MovingStep

(* The node in hand goes back. *)
LEMMA FreedKeeps ==
  ASSUME IInv, TypeOK', NEW t \in Threads, Freed(t)
  PROVE  IInv'
<1> USE DEF stack, queues, client, history
<1>1. /\ pc[t] = "pushCas" /\ top = frame[t].old
      /\ top' = Inc(frame[t].old, frame[t].node)
      /\ Goto(t, "idle") /\ Return(t)
      /\ UNCHANGED <<below, fresh, frame, queues, history>>
  BY DEF Freed, PushCas
<1>2. below[frame[t].node] = top.ptr
  BY <1>1 DEF IInv, ThreadsOK, ThreadOK, StackOK
<1>a. PICK n : n = frame[t].node
  OBVIOUS
<1>3. Owned(t) = {n} /\ n \in Nodes
  BY <1>a, <1>1, InHand DEF Holding, Returning
<1>4. /\ pc'[t] = "idle"
      /\ \A u \in Threads \ {t} : pc'[u] = pc[u] /\ script'[u] = script[u]
  BY <1>1, Moves, BusyQueue, ReturnType DEF IInv, Dequeueing, Returning
<1>5. Others(t)
  BY <1>1, <1>4 DEF Others
<1>6. Owned(t)' = {} /\ \A u \in Threads \ {t} : Owned(u)' = Owned(u)
  BY <1>4, <1>5, OthersKeep DEF Owned, Holding, Linking, Returning
<1>7. top'.ptr = n /\ Newer(top, top')
  BY <1>a, <1>1 DEF Inc, PtrTo, Newer, IInv, TypeOK, Words
<1>8. n \notin InStack
  BY <1>3 DEF IInv, ApartOK
<1>9. /\ Path(below, n, <<n>> \o FreeNodes)
      /\ NodesIn(<<n>> \o FreeNodes) = {n} \cup InStack
  BY <1>a, <1>2, <1>3, <1>8, PathPush DEF IInv, ListsOK, InStack
<1>10. FreeNodes' = <<n>> \o FreeNodes
  <2>1. Chain(below', top'.ptr) = <<n>> \o FreeNodes
    BY <1>1, <1>7, <1>9, ChainIsPath
  <2> QED
    BY <2>1 DEF FreeNodes
<1>11. Path(below', top'.ptr, FreeNodes')
  BY <1>1, <1>7, <1>9, <1>10
<1>12. \A q \in Queues :
        QueueNodes(q)' = QueueNodes(q) /\ Path(NextNode', head'[q].ptr, QueueNodes(q)')
  BY <1>1, QueueStays
<1>13. ListsOK'
  BY <1>1, <1>11, <1>12, Lists DEF IInv, ListsOK
<1>14. InStack' = {n} \cup InStack /\ \A q \in Queues : In(q)' = In(q)
  BY <1>9, <1>10, <1>12 DEF InStack, In
<1>15. ApartOK'
  BY <1>1, <1>3, <1>6, <1>14 DEF IInv, ApartOK
<1>16. AllPlaced'
  BY <1>1, <1>3, <1>6, <1>14 DEF IInv, AllPlaced
<1>17. TailsOK'
  BY <1>1, <1>12, TailsSame
<1>18. Rely(t)
  BY <1>1, <1>5, <1>7, <1>14 DEF Rely, Newer
<1> QED
  BY <1>4, <1>13, <1>15, <1>16, <1>17, <1>18, AtIdle, MovingStep

(* A node joins a queue. *)
LEMMA EnqCasLinks ==
  ASSUME IInv, NEW t \in Threads, EnqCas(t),
         NEW n, n = frame[t].node, NEW q, q = Queue(t)
  PROVE  /\ q \in Queues /\ n \in Nodes /\ n \notin In(q)
         /\ Owned(t) = {n} /\ Owned(t)' = {}
         /\ next[n].ptr = Null /\ data[n] = Doing(t).v
         /\ frame[t].tail.ptr = QueueNodes(q)[Len(QueueNodes(q))]
         /\ frame[t].tail.ptr \in In(q) /\ next[frame[t].tail.ptr].ptr = Null
         /\ next'[frame[t].tail.ptr] = Inc(next[frame[t].tail.ptr], n)
         /\ \A m \in Nodes \ {frame[t].tail.ptr} : next'[m] = next[m]
         /\ QueueNodes(q)' = Append(QueueNodes(q), n)
         /\ Path(NextNode', head'[q].ptr, QueueNodes(q)')
         /\ Len(QueueNodes(q)) \in Nat \ {0} /\ Len(QueueNodes(q)') = Len(QueueNodes(q)) + 1
         /\ QueueNodes(q)'[Len(QueueNodes(q)) + 1] = n
         /\ \A k \in 1 .. Len(QueueNodes(q)) : QueueNodes(q)'[k] = QueueNodes(q)[k]
         /\ In(q)' = {n} \cup In(q)
         /\ \A p \in Queues \ {q} : QueueNodes(p)' = QueueNodes(p)
                                 /\ Path(NextNode', head'[p].ptr, QueueNodes(p)')
<1> USE DEF stack, queues, client, history
<1>1. /\ pc[t] = "enqCas" /\ next[frame[t].tail.ptr] = frame[t].next
      /\ next' = [next EXCEPT ![frame[t].tail.ptr] = Inc(@, n)]
      /\ Goto(t, "enqFinish") /\ UNCHANGED <<stack, frame, data, head, tail>>
  BY DEF EnqCas
<1>2. q \in Queues
  BY <1>1, BusyQueue DEF Enqueueing, Linking
<1>3. Owned(t) = {n} /\ n \in Nodes
  BY <1>1, InHand DEF Holding, Linking
<1>4. Owned(t)' = {}
  BY <1>1, Moves DEF Owned, Holding, Linking, Returning
<1>5. next[n].ptr = Null /\ data[n] = Doing(t).v
  BY <1>1 DEF IInv, ThreadsOK, ThreadOK, HandOK, Linking
<1>6. n \notin In(q)
  BY <1>2, <1>3 DEF IInv, ApartOK
<1>a. PICK l : l = frame[t].tail.ptr
  OBVIOUS
<1>b. PICK s : s = QueueNodes(q)
  OBVIOUS
<1>7. l \in In(q) /\ next[l].ptr = Null
  BY <1>a, <1>1 DEF IInv, ThreadsOK, ThreadOK, EnqOK
<1>8. l \in Nodes
  BY <1>2, <1>7, InNodes
<1>9. /\ next'[l] = Inc(next[l], n)
      /\ \A m \in Nodes \ {l} : next'[m] = next[m]
  BY <1>a, <1>1, <1>8 DEF IInv, TypeOK
<1>10. Path(NextNode, head[q].ptr, s) /\ head[q].ptr # Null
  BY <1>b, <1>2 DEF IInv, ListsOK
<1>11. l = s[Len(s)] /\ Len(s) \in 1 .. Len(s) /\ Len(s) \in Nat
  <2>1. PICK k \in 1 .. Len(s) : s[k] = l
    BY <1>b, <1>7 DEF In, NodesIn
  <2>2. NextNode[s[k]] = Null
    BY <2>1, <1>7, <1>8 DEF NextNode
  <2>3. k = Len(s)
    BY <1>10, <2>2, PathLink
  <2>4. Len(s) \in Nat
    BY <1>10, PathStart
  <2> QED
    BY <2>1, <2>3, <2>4
<1>12. n # l
  BY <1>6, <1>7
<1>13. NextNode'[n] = Null /\ NextNode'[l] = n
  BY <1>3, <1>5, <1>8, <1>9, <1>12 DEF NextNode, Inc, PtrTo
<1>14. \A k \in 1 .. Len(s) - 1 : NextNode'[s[k]] = NextNode[s[k]]
  <2> TAKE k \in 1 .. Len(s) - 1
  <2>1. k \in 1 .. Len(s) /\ k # Len(s)
    BY <1>11
  <2>2. s[k] \in Nodes /\ s[k] # l
    BY <2>1, <1>10, <1>11 DEF Path
  <2> QED
    BY <2>2, <1>9 DEF NextNode
<1>15. n \notin NodesIn(s)
  BY <1>b, <1>6 DEF In
<1>16. /\ Path(NextNode', head[q].ptr, Append(s, n))
       /\ Len(Append(s, n)) = Len(s) + 1 /\ Append(s, n)[Len(s) + 1] = n
       /\ \A k \in 1 .. Len(s) : Append(s, n)[k] = s[k]
       /\ NodesIn(Append(s, n)) = {n} \cup NodesIn(s)
  BY <1>3, <1>10, <1>11, <1>13, <1>14, <1>15, PathAppend
<1>17. QueueNodes(q)' = Append(s, n) /\ Path(NextNode', head'[q].ptr, QueueNodes(q)')
  <2>1. Path(NextNode', head'[q].ptr, Append(s, n))
    BY <1>1, <1>16
  <2>2. QueueNodes(q)' = Append(s, n)
    BY <1>2, <2>1, NewPath
  <2> QED
    BY <2>1, <2>2
<1>18. In(q)' = {n} \cup In(q)
  BY <1>b, <1>16, <1>17 DEF In
<1>19. ASSUME NEW p \in Queues \ {q}
       PROVE  QueueNodes(p)' = QueueNodes(p) /\ Path(NextNode', head'[p].ptr, QueueNodes(p)')
  <2>1. l \notin In(p)
    BY <1>2, <1>7 DEF IInv, ApartOK
  <2>2. \A m \in In(p) : next'[m].ptr = next[m].ptr
    BY <2>1, <1>9, InNodes
  <2> QED
    BY <2>2, <1>1, QueueStays
<1> QED
  BY <1>a, <1>b, <1>2, <1>3, <1>4, <1>5, <1>6, <1>7, <1>9, <1>11, <1>16, <1>17, <1>18, <1>19

(* The node is linked after the last one. *)
LEMMA EnqCasKeeps ==
  ASSUME IInv, TypeOK', NEW t \in Threads, EnqCas(t)
  PROVE  IInv'
<1> USE DEF stack, queues, client, history
<1>1. /\ pc[t] = "enqCas" /\ Goto(t, "enqFinish")
      /\ UNCHANGED <<stack, frame, data, head, tail, script, wasEmpty>>
  BY DEF EnqCas
<1>a. PICK n : n = frame[t].node
  OBVIOUS
<1>b. PICK q : q = Queue(t)
  OBVIOUS
<1>c. PICK l : l = frame[t].tail.ptr
  OBVIOUS
<1>2. /\ q \in Queues /\ n \in Nodes /\ n \notin In(q)
      /\ Owned(t) = {n} /\ Owned(t)' = {}
      /\ next[n].ptr = Null
      /\ l \in In(q) /\ next[l].ptr = Null /\ next'[l] = Inc(next[l], n)
      /\ \A m \in Nodes \ {l} : next'[m] = next[m]
      /\ Path(NextNode', head'[q].ptr, QueueNodes(q)')
      /\ Len(QueueNodes(q)) \in Nat \ {0} /\ Len(QueueNodes(q)') = Len(QueueNodes(q)) + 1
      /\ \A k \in 1 .. Len(QueueNodes(q)) : QueueNodes(q)'[k] = QueueNodes(q)[k]
      /\ In(q)' = {n} \cup In(q)
      /\ \A p \in Queues \ {q} : QueueNodes(p)' = QueueNodes(p)
                              /\ Path(NextNode', head'[p].ptr, QueueNodes(p)')
  BY <1>a, <1>b, <1>c, EnqCasLinks
<1>3. /\ pc'[t] = "enqFinish"
      /\ \A u \in Threads \ {t} : pc'[u] = pc[u]
  BY <1>1, Moves
<1>4. Others(t)
  BY <1>1, <1>3 DEF Others
<1>5. \A u \in Threads \ {t} : Owned(u)' = Owned(u)
  BY <1>4, OthersKeep
<1>6. FreeNodes' = FreeNodes /\ Path(below', top'.ptr, FreeNodes')
  BY <1>1, StackStays
<1>7. ListsOK'
  BY <1>1, <1>2, <1>6, Lists DEF IInv, ListsOK
<1>8. InStack' = InStack /\ \A p \in Queues \ {q} : In(p)' = In(p)
  BY <1>2, <1>6 DEF InStack, In
<1>9. ApartOK'
  <2> USE DEF IInv, ApartOK
  <2>1. n \notin fresh \cup InStack /\ \A p \in Queues : n \notin In(p)
    BY <1>2
  <2>2. \A u \in Threads \ {t} : n \notin Owned(u)
    BY <1>2
  <2>3. fresh' \cap InStack' = {}
    BY <1>1, <1>8
  <2>4. \A p \in Queues : In(p)' \cap (fresh' \cup InStack') = {}
    BY <2>1, <1>1, <1>2, <1>8
  <2>5. \A o, p \in Queues : o # p => In(o)' \cap In(p)' = {}
    BY <2>1, <1>2, <1>8
  <2>6. \A u \in Threads : Owned(u)' \subseteq Nodes \ (fresh' \cup InStack')
    BY <1>1, <1>2, <1>5, <1>8
  <2>7. \A u \in Threads, p \in Queues : Owned(u)' \cap In(p)' = {}
    BY <2>2, <1>2, <1>5, <1>8
  <2>8. \A u, w \in Threads : u # w => Owned(u)' \cap Owned(w)' = {}
    BY <1>2, <1>5
  <2> QED
    BY <2>3, <2>4, <2>5, <2>6, <2>7, <2>8
<1>10. AllPlaced'
  BY <1>1, <1>2, <1>5, <1>8 DEF IInv, AllPlaced
<1>11. TailsOK'
  <2> SUFFICES ASSUME NEW p \in Queues PROVE TailOK(p)'
    BY DEF TailsOK
  <2>1. CASE p # q
    BY <2>1, <1>1, <1>2 DEF IInv, TailsOK, TailOK
  <2>2. CASE p = q
    <3>1. /\ tail[q].gen - head[q].gen + 1 \in 1 .. Len(QueueNodes(q))
          /\ tail[q].ptr = QueueNodes(q)[tail[q].gen - head[q].gen + 1]
      BY <1>2, TailNode
    <3> QED
      BY <2>2, <3>1, <1>1, <1>2 DEF TailOK
  <2> QED
    BY <2>1, <2>2
<1>12. next[l] \in Words /\ Inc(next[l], n).ptr = n /\ Newer(next[l], next'[l])
  <2>1. next[l] \in Words
    BY <1>2, InNodes DEF IInv, TypeOK
  <2> QED
    BY <2>1, <1>2, IncType, NoFrameType
<1>13. Rely(t)
  <2>1. \A m \in Nodes : Newer(next[m], next'[m])
    BY <1>2, <1>12 DEF Newer
  <2>2. ASSUME NEW p \in Queues, NEW m \in In(p)
        PROVE  /\ next[m].ptr # Null => next'[m] = next[m]
               /\ m \in In(p)'
    BY <2>2, <1>2, <1>8, InNodes
  <2>3. ASSUME NEW u \in Threads \ {t}, NEW m \in Owned(u)
        PROVE  next'[m] = next[m]
    <3>1. m # l /\ m \in Nodes
      BY <2>3, <1>2, InNodes DEF IInv, ApartOK
    <3> QED
      BY <3>1, <1>2
  <2> QED
    BY <2>1, <2>2, <2>3, <1>1, <1>4 DEF Rely, Newer
<1>14. ScriptFits(t)' /\ Doing(t)' = Doing(t) /\ Queue(t)' = Queue(t)
  BY <1>1, <1>3, SameScript DEF Enqueueing, Dequeueing, Linking, Returning
<1>15. EnqOK(t)'
  <2>1. Seen(frame[t].tail, tail[q]) /\ frame[t].tail.ptr # Null
    BY <1>b, <1>1 DEF IInv, ThreadsOK, ThreadOK, EnqOK
  <2>2. n # Null /\ next'[frame[t].tail.ptr].ptr = n
    BY <1>c, <1>2, <1>12, NodesAssumption
  <2>3. AfterTail(t, frame[t].node)'
    BY <2>2, <1>a, <1>1 DEF AfterTail
  <2> QED
    BY <2>1, <2>3, <1>b, <1>1, <1>3, <1>14 DEF EnqOK
<1>16. ThreadOK(t)'
  BY <1>3, <1>14, <1>15 DEF ThreadOK, StackOK, HandOK, DeqOK, Linking
<1> QED
  BY <1>7, <1>9, <1>10, <1>11, <1>13, <1>16, MovingStep

(* The first node leaves a queue, and the next one is the dummy. *)
LEMMA DeqCasLinks ==
  ASSUME IInv, NEW t \in Threads, DeqCas(t),
         NEW n, n = frame[t].head.ptr, NEW q, q = Queue(t)
  PROVE  /\ q \in Queues /\ n \in Nodes /\ n \notin In(q)'
         /\ Owned(t) = {} /\ Owned(t)' = {n}
         /\ head'[q].gen = head[q].gen + 1 /\ Newer(head[q], head'[q])
         /\ \A p \in Queues \ {q} : head'[p] = head[p]
         /\ next[n].ptr # Null /\ head'[q].ptr # Null
         /\ tail[q].gen > head[q].gen
         /\ QueueNodes(q)' = Tail(QueueNodes(q))
         /\ Path(NextNode', head'[q].ptr, QueueNodes(q)')
         /\ Len(QueueNodes(q)) \in Nat /\ 2 \in 1 .. Len(QueueNodes(q))
         /\ Len(QueueNodes(q)') = Len(QueueNodes(q)) - 1
         /\ \A k \in 1 .. Len(QueueNodes(q)) - 1 : QueueNodes(q)'[k] = QueueNodes(q)[k + 1]
         /\ In(q) = {n} \cup In(q)'
         /\ frame[t].data = data[QueueNodes(q)[2]]
         /\ \A p \in Queues \ {q} : QueueNodes(p)' = QueueNodes(p)
                                 /\ Path(NextNode', head'[p].ptr, QueueNodes(p)')
<1> USE DEF stack, queues, client, history
<1>a. PICK m : m = frame[t].next.ptr
  OBVIOUS
<1>b. PICK s : s = QueueNodes(q)
  OBVIOUS
<1>1. /\ pc[t] = "deqCas" /\ head[q] = frame[t].head
      /\ head' = [head EXCEPT ![q] = Inc(@, m)]
      /\ frame' = [frame EXCEPT ![t].node = n]
      /\ Goto(t, "push") /\ UNCHANGED <<stack, next, data, tail, script>>
  BY <1>a DEF DeqCas, Set
<1>2. q \in Queues
  BY <1>1, BusyQueue DEF Dequeueing
<1>3. /\ frame[t].tail # frame[t].head /\ m # Null
      /\ next[n].ptr = m /\ frame[t].data = data[m]
      /\ tail[q].gen > head[q].gen
  BY <1>a, <1>1 DEF IInv, ThreadsOK, ThreadOK, DeqOK
<1>4. n = head[q].ptr /\ n \in Nodes /\ n \in In(q) /\ head[q] \in Words
  BY <1>1, <1>2, TailNode
<1>5. Owned(t) = {} /\ Owned(t)' = {n}
  <2>1. frame'[t].node = n /\ pc'[t] = "push"
    BY <1>1, Moves DEF IInv, TypeOK, Frames
  <2> QED
    BY <2>1, <1>1 DEF Owned, Holding, Linking, Returning
<1>6. /\ head'[q] = Inc(head[q], m) /\ \A p \in Queues \ {q} : head'[p] = head[p]
  BY <1>1, <1>2 DEF IInv, TypeOK
<1>7. /\ head'[q].gen = head[q].gen + 1 /\ Newer(head[q], head'[q]) /\ head'[q].ptr = m
  BY <1>4, <1>6 DEF Inc, PtrTo, Newer, Words
<1>8. NextNode[n] = m /\ NextNode' = NextNode
  BY <1>1, <1>3, <1>4 DEF NextNode
<1>9. Path(NextNode, n, s) /\ n # Null
  BY <1>b, <1>2, <1>4, NodesAssumption DEF IInv, ListsOK
<1>10. /\ Path(NextNode, m, Tail(s))
       /\ Len(Tail(s)) = Len(s) - 1
       /\ \A k \in 1 .. Len(s) - 1 : Tail(s)[k] = s[k + 1]
       /\ NodesIn(s) = {n} \cup NodesIn(Tail(s))
       /\ n \notin NodesIn(Tail(s))
  BY <1>8, <1>9, PathTail
<1>11. Path(NextNode', head'[q].ptr, Tail(s))
  BY <1>7, <1>8, <1>10
<1>12. QueueNodes(q)' = Tail(s)
  BY <1>2, <1>11, NewPath
<1>13. Len(s) \in Nat /\ 2 \in 1 .. Len(s) /\ s[2] = m
  <2>1. Len(s) \in Nat
    BY <1>9, PathStart
  <2>2. PICK r : r = Tail(s)
    OBVIOUS
  <2>3. Path(NextNode, m, r)
    BY <1>10, <2>2
  <2>4. 1 \in 1 .. Len(r) /\ m = r[1]
    BY <1>3, <2>3, PathStart
  <2> QED
    BY <2>1, <2>2, <2>4, <1>10
<1>14. In(q) = {n} \cup In(q)' /\ n \notin In(q)'
  BY <1>b, <1>10, <1>12 DEF In
<1>15. ASSUME NEW p \in Queues \ {q}
       PROVE  QueueNodes(p)' = QueueNodes(p) /\ Path(NextNode', head'[p].ptr, QueueNodes(p)')
  BY <1>1, <1>6, QueueStays
<1> QED
  BY <1>b, <1>2, <1>3, <1>4, <1>5, <1>6, <1>7, <1>10, <1>11, <1>12, <1>13, <1>14, <1>15

(* The first node of a queue is taken out. *)
LEMMA DeqCasKeeps ==
  ASSUME IInv, TypeOK', NEW t \in Threads, DeqCas(t)
  PROVE  IInv'
<1> USE DEF stack, queues, client, history
<1>a. PICK n : n = frame[t].head.ptr
  OBVIOUS
<1>b. PICK q : q = Queue(t)
  OBVIOUS
<1>1. /\ pc[t] = "deqCas" /\ Goto(t, "push")
      /\ frame' = [frame EXCEPT ![t].node = n]
      /\ UNCHANGED <<stack, next, data, tail, script>>
      /\ wasEmpty' = [wasEmpty EXCEPT ![t] = FALSE]
  BY <1>a DEF DeqCas, Set
<1>2. /\ q \in Queues /\ n \in Nodes /\ n \notin In(q)'
      /\ Owned(t) = {} /\ Owned(t)' = {n}
      /\ head'[q].gen = head[q].gen + 1 /\ Newer(head[q], head'[q])
      /\ \A p \in Queues \ {q} : head'[p] = head[p]
      /\ next[n].ptr # Null /\ head'[q].ptr # Null
      /\ tail[q].gen > head[q].gen
      /\ Path(NextNode', head'[q].ptr, QueueNodes(q)')
      /\ Len(QueueNodes(q)) \in Nat /\ Len(QueueNodes(q)') = Len(QueueNodes(q)) - 1
      /\ \A k \in 1 .. Len(QueueNodes(q)) - 1 : QueueNodes(q)'[k] = QueueNodes(q)[k + 1]
      /\ In(q) = {n} \cup In(q)'
      /\ \A p \in Queues \ {q} : QueueNodes(p)' = QueueNodes(p)
                              /\ Path(NextNode', head'[p].ptr, QueueNodes(p)')
  BY <1>a, <1>b, DeqCasLinks
<1>3. /\ pc'[t] = "push"
      /\ \A u \in Threads \ {t} : pc'[u] = pc[u] /\ frame'[u] = frame[u]
  BY <1>1, Moves DEF IInv, TypeOK
<1>4. Others(t)
  <2>1. \A u \in Threads \ {t} : wasEmpty'[u] = wasEmpty[u]
    BY <1>1 DEF IInv, TypeOK
  <2> QED
    BY <2>1, <1>1, <1>3 DEF Others
<1>5. \A u \in Threads \ {t} : Owned(u)' = Owned(u)
  BY <1>4, OthersKeep
<1>6. FreeNodes' = FreeNodes /\ Path(below', top'.ptr, FreeNodes')
  BY <1>1, StackStays
<1>7. ListsOK'
  BY <1>1, <1>2, <1>6, Lists DEF IInv, ListsOK
<1>8. InStack' = InStack /\ \A p \in Queues \ {q} : In(p)' = In(p)
  BY <1>2, <1>6 DEF InStack, In
<1>9. ApartOK'
  <2> USE DEF IInv, ApartOK
  <2>1. n \in In(q) /\ n \notin fresh \cup InStack /\ \A p \in Queues \ {q} : n \notin In(p)
    BY <1>2
  <2>2. \A u \in Threads : n \notin Owned(u)
    BY <2>1, <1>2
  <2>3. fresh' \cap InStack' = {}
    BY <1>1, <1>8
  <2>4. \A p \in Queues : In(p)' \subseteq In(p)
    BY <1>2, <1>8
  <2>5. \A p \in Queues : In(p)' \cap (fresh' \cup InStack') = {}
    BY <2>4, <1>1, <1>8
  <2>6. \A o, p \in Queues : o # p => In(o)' \cap In(p)' = {}
    BY <2>4
  <2>7. \A u \in Threads : Owned(u)' \subseteq Nodes \ (fresh' \cup InStack')
    BY <2>1, <1>1, <1>2, <1>5, <1>8
  <2>8. \A u \in Threads, p \in Queues : Owned(u)' \cap In(p)' = {}
    <3> TAKE u \in Threads, p \in Queues
    <3>1. CASE u # t
      BY <3>1, <2>4, <1>5
    <3>2. CASE u = t
      BY <3>2, <2>1, <1>2, <1>8
    <3> QED
      BY <3>1, <3>2
  <2>9. \A u, w \in Threads : u # w => Owned(u)' \cap Owned(w)' = {}
    BY <2>2, <1>2, <1>5
  <2> QED
    BY <2>3, <2>5, <2>6, <2>7, <2>8, <2>9
<1>10. AllPlaced'
  <2> SUFFICES ASSUME NEW m \in Nodes
               PROVE  \/ m \in fresh' \cup InStack'
                      \/ \E p \in Queues : m \in In(p)'
                      \/ \E u \in Threads : m \in Owned(u)'
    BY DEF AllPlaced
  <2>1. \/ m \in fresh \cup InStack
        \/ \E p \in Queues : m \in In(p)
        \/ \E u \in Threads : m \in Owned(u)
    BY DEF IInv, AllPlaced
  <2>2. CASE m \in fresh \cup InStack
    BY <2>2, <1>1, <1>8
  <2>3. CASE \E p \in Queues : m \in In(p)
    BY <2>3, <1>2, <1>8
  <2>4. CASE \E u \in Threads : m \in Owned(u)
    BY <2>4, <1>2, <1>5
  <2> QED
    BY <2>1, <2>2, <2>3, <2>4
<1>11. TailsOK'
  <2> SUFFICES ASSUME NEW p \in Queues PROVE TailOK(p)'
    BY DEF TailsOK
  <2>1. CASE p # q
    BY <2>1, <1>1, <1>2 DEF IInv, TailsOK, TailOK
  <2>2. CASE p = q
    <3>1. /\ tail[q].gen - head[q].gen + 1 \in 1 .. Len(QueueNodes(q))
          /\ tail[q].ptr = QueueNodes(q)[tail[q].gen - head[q].gen + 1]
          /\ tail[q].gen \in Nat /\ head[q].gen \in Nat
      BY <1>2, TailNode DEF Words
    <3>2. /\ tail[q].gen - head'[q].gen + 1 = tail[q].gen - head[q].gen
          /\ tail[q].gen - head[q].gen \in 1 .. Len(QueueNodes(q)) - 1
      BY <3>1, <1>2
    <3>3. tail[q].ptr = QueueNodes(q)'[tail[q].gen - head[q].gen]
      BY <3>1, <3>2, <1>2
    <3> QED
      BY <2>2, <3>2, <3>3, <1>1, <1>2 DEF TailOK
  <2> QED
    BY <2>1, <2>2
<1>12. Rely(t)
  <2>1. \A p \in Queues : Newer(head[p], head'[p])
    BY <1>2 DEF Newer
  <2>2. ASSUME NEW p \in Queues, NEW m \in In(p), next'[m].ptr = Null
        PROVE  m \in In(p)'
    BY <2>2, <1>1, <1>2, <1>8
  <2> QED
    BY <2>1, <2>2, <1>1, <1>4 DEF Rely, Newer
<1>13. ScriptFits(t)'
  BY <1>1, <1>3, SameScript DEF Enqueueing, Dequeueing, Linking, Returning
<1>14. ThreadOK(t)'
  BY <1>3, <1>13 DEF ThreadOK, StackOK, HandOK, EnqOK, DeqOK, Linking
<1> QED
  BY <1>7, <1>9, <1>10, <1>11, <1>12, <1>14, MovingStep

-----------------------------------------------------------------------------
(* The invariant, and what follows from it.                                *)

(* There are nodes enough to construct the queues. *)
LEMMA DummyChoice ==
  \E dummy : /\ dummy = CHOOSE d \in [Queues -> Nodes] :
                          \A p, q \in Queues : p # q => d[p] # d[q]
             /\ dummy \in [Queues -> Nodes]
             /\ \A p, q \in Queues : p # q => dummy[p] # dummy[q]
BY DummiesAssumption

(* The path of no node ... *)
LEMMA EmptyPath ==
  ASSUME NEW link
  PROVE  Path(link, Null, <<>>) /\ NodesIn(<<>>) = {}
BY DEF Path, Nth, NodesIn

(* ... and of one. *)
LEMMA OnePath ==
  ASSUME NEW link, NEW n \in Nodes, link[n] = Null
  PROVE  /\ Path(link, n, <<n>>)
         /\ Len(<<n>>) = 1 /\ <<n>>[1] = n /\ NodesIn(<<n>>) = {n}
<1>1. <<n>> \in Seq(Nodes) /\ Len(<<n>>) = 1 /\ <<n>>[1] = n
  OBVIOUS
<1> DEFINE s == <<n>>
<1> HIDE DEF s
<1>2. s \in Seq(Nodes) /\ Len(s) = 1 /\ s[1] = n
  BY <1>1 DEF s
<1>3. Nth(s, 1) = n /\ Nth(s, 1 + 1) = Null
  BY <1>2 DEF Nth
<1>4. \A k \in 1 .. Len(s) : k = 1
  BY <1>2
<1>5. Path(link, n, s)
  BY <1>2, <1>3, <1>4 DEF Path
<1>6. NodesIn(s) = {n}
  BY <1>2, <1>4 DEF NodesIn
<1> QED
  BY <1>2, <1>5, <1>6 DEF s

(* The invariant holds when the queues were constructed, ... *)
LEMMA InitHolds == Init => IInv
<1> SUFFICES ASSUME Init PROVE IInv
  OBVIOUS
<1>1. PICK dummy \in [Queues -> Nodes] :
        /\ \A p, q \in Queues : p # q => dummy[p] # dummy[q]
        /\ StackInit({dummy[q] : q \in Queues})
        /\ head = [q \in Queues |-> PtrTo(dummy[q], 0)]
        /\ next = [n \in Nodes |-> IF n \in fresh THEN NullPtr ELSE Inc(NullPtr, Null)]
  BY DummyChoice DEF Init
<1>2. /\ top = NullPtr /\ below = [n \in Nodes |-> Null]
      /\ fresh = Nodes \ {dummy[q] : q \in Queues}
      /\ frame = [t \in Threads |-> NoFrame]
  BY <1>1 DEF StackInit
<1>3. /\ tail = head /\ data = [n \in Nodes |-> 0]
      /\ pc = [t \in Threads |-> "idle"] /\ script \in Scripts
      /\ got = [t \in Threads |-> <<>>]
      /\ wasEmpty = [t \in Threads |-> FALSE]
  BY DEF Init
<1>4. Inc(NullPtr, Null) \in Words /\ Inc(NullPtr, Null).ptr = Null
  BY IncType, NoFrameType
<1>5. TypeOK
  <2>1. head \in [Queues -> Words]
    BY <1>1 DEF PtrTo, Words, NodesOrNull
  <2>2. next \in [Nodes -> Words]
    BY <1>1, <1>4, NoFrameType
  <2>3. script \in [Threads -> Seq(Operations)]
    BY <1>3, ScriptsAssumption
  <2>4. got \in [Threads -> Seq(Nat)]
    BY <1>3, EmptySeq
  <2> QED
    BY <2>1, <2>2, <2>3, <2>4, <1>2, <1>3, NoFrameType DEF TypeOK
<1>6. \A n \in Nodes : NextNode[n] = Null
  BY <1>1, <1>4, NoFrameType DEF NextNode
<1>7. FreeNodes = <<>> /\ Path(below, top.ptr, FreeNodes) /\ InStack = {}
  <2>1. Path(below, top.ptr, <<>>) /\ NodesIn(<<>>) = {}
    BY <1>2, EmptyPath, NoFrameType
  <2>2. FreeNodes = <<>>
    BY <2>1, ChainIsPath DEF FreeNodes
  <2> QED
    BY <2>1, <2>2 DEF InStack
<1>8. ASSUME NEW q \in Queues
      PROVE  /\ head[q].ptr = dummy[q] /\ head[q].ptr # Null /\ head[q].gen = 0
             /\ Path(NextNode, head[q].ptr, QueueNodes(q))
             /\ Len(QueueNodes(q)) = 1 /\ QueueNodes(q)[1] = dummy[q]
             /\ In(q) = {dummy[q]}
  <2>1. PICK n \in Nodes : n = dummy[q]
    OBVIOUS
  <2>2. head[q].ptr = n /\ head[q].gen = 0
    BY <1>1, <2>1 DEF PtrTo
  <2>3. /\ Path(NextNode, n, <<n>>)
        /\ Len(<<n>>) = 1 /\ <<n>>[1] = n /\ NodesIn(<<n>>) = {n}
    BY <1>6, OnePath
  <2>4. QueueNodes(q) = <<n>>
    BY <2>2, <2>3, ChainIsPath DEF QueueNodes
  <2> QED
    BY <2>1, <2>2, <2>3, <2>4, NodesAssumption DEF In
<1>9. ListsOK
  BY <1>7, <1>8 DEF ListsOK
<1>10. \A t \in Threads : Owned(t) = {}
  BY <1>3 DEF Owned, Holding, Linking, Returning
<1>11. ApartOK
  BY <1>1, <1>2, <1>7, <1>8, <1>10 DEF ApartOK
<1>12. AllPlaced
  BY <1>2, <1>8 DEF AllPlaced
<1>13. TailsOK
  <2> SUFFICES ASSUME NEW q \in Queues PROVE TailOK(q)
    BY DEF TailsOK
  <2>1. tail[q].gen - head[q].gen + 1 = 1 /\ tail[q].ptr = dummy[q]
    BY <1>3, <1>8
  <2> QED
    BY <2>1, <1>8 DEF TailOK
<1>14. ThreadsOK
  BY <1>3 DEF ThreadsOK, ThreadOK, ScriptFits, StackOK, HandOK, EnqOK, DeqOK,
     Enqueueing, Dequeueing, Linking, Returning
<1> QED
  BY <1>5, <1>9, <1>11, <1>12, <1>13, <1>14 DEF IInv

(* ... every step keeps it, ... *)
LEMMA StepKeeps ==
  ASSUME IInv, NEW t \in Threads, Step(t)
  PROVE  IInv'
<1>1. TypeOK'
  BY TypeStep
<1>2. CASE AllocStep(t)
  BY <1>1, <1>2, PopLookKeeps, PopNewKeeps, PopCasKeeps, PopRetryKeeps DEF AllocStep
<1>3. CASE Free(t)
  BY <1>1, <1>3, PushReadKeeps, PushLinkKeeps DEF Free
<1> QED
  BY <1>1, <1>2, <1>3, AllocKeeps, FillKeeps, EnqLoadNextKeeps, EnqStoreNextKeeps,
     EnqTailKeeps, EnqNextKeeps, EnqCheckKeeps, EnqCasKeeps, EnqRetryKeeps,
     EnqSwingKeeps, EnqFinishKeeps, DeqHeadKeeps, DeqTailKeeps, DeqNextKeeps,
     DeqCheckKeeps, DeqEmptyKeeps, DeqSwingKeeps, DeqDataKeeps, DeqCasKeeps,
     DeqRetryKeeps, FreedKeeps DEF Step

(* ... and so does no step. *)
LEMMA StutterKeeps == ASSUME IInv, UNCHANGED vars PROVE IInv'
<1> USE DEF vars, stack, queues, client, history
<1>1. FreeNodes' = FreeNodes /\ \A q \in Queues : QueueNodes(q)' = QueueNodes(q)
  BY DEF FreeNodes, QueueNodes, NextNode
<1>2. InStack' = InStack /\ \A q \in Queues : In(q)' = In(q)
  BY <1>1 DEF InStack, In
<1>3. \A t \in Threads : Owned(t)' = Owned(t) /\ Queue(t)' = Queue(t) /\ Doing(t)' = Doing(t)
  BY DEF Owned, Queue, Doing
<1>4. TypeOK'
  BY DEF IInv, TypeOK
<1>5. ListsOK'
  BY <1>1, Lists DEF IInv, ListsOK, NextNode
<1>6. ApartOK' /\ AllPlaced'
  BY <1>2, <1>3 DEF IInv, ApartOK, AllPlaced
<1>7. TailsOK'
  BY <1>1, TailsSame
<1>8. ThreadsOK'
  <2> SUFFICES ASSUME NEW t \in Threads PROVE ThreadOK(t)'
    BY DEF ThreadsOK
  <2>1. ThreadOK(t)
    BY DEF IInv, ThreadsOK
  <2>2. ScriptFits(t)' /\ StackOK(t)' /\ HandOK(t)'
    BY <2>1, <1>3 DEF ThreadOK, ScriptFits, StackOK, HandOK
  <2>3. \A q \in Queues : In(q)' = In(q)
    BY <1>2
  <2>4. In(Queue(t))' = In(Queue(t))
    BY <1>3 DEF In, QueueNodes, NextNode
  <2>5. EnqOK(t)' /\ DeqOK(t)'
    BY <2>1, <2>4, <1>3 DEF ThreadOK, EnqOK, DeqOK, AfterTail
  <2> QED
    BY <2>2, <2>5 DEF ThreadOK
<1> QED
  BY <1>4, <1>5, <1>6, <1>7, <1>8 DEF IInv

(* The types, and who has which node, for ever (ms_queue_sc2.hpp). *)
THEOREM Invariant == Spec => []IInv
<1>1. IInv /\ [Next]_vars => IInv'
  BY StepKeeps, StutterKeeps DEF Next
<1> QED
  BY InitHolds, <1>1, PTL DEF Spec

(* dequeue says that a queue is empty only if it was, after the call.      *)
THEOREM EmptyTold == Spec => []EmptyOnlyIfEmpty
<1>1. IInv => EmptyOnlyIfEmpty
  BY DEF IInv, ThreadsOK, ThreadOK, DeqOK, EmptyOnlyIfEmpty
<1> QED
  BY <1>1, Invariant, PTL

(* Where a node is.                                                        *)
LEMMA PlaceIs ==
  ASSUME IInv, NEW pl \in Places
  PROVE  /\ pl[2] \in Seq(Nodes) /\ Len(pl[2]) \in Nat /\ DOMAIN pl[2] = 1 .. Len(pl[2])
         /\ Len(pl[2]) <= Cardinality(Nodes) /\ Cardinality(Nodes) \in Nat
         /\ \A j, k \in 1 .. Len(pl[2]) : pl[2][j] = pl[2][k] => j = k
         /\ \/ pl = <<"free", FreeNodes>> /\ NodesIn(pl[2]) = InStack
            \/ \E q \in Queues : pl = <<q, QueueNodes(q)>> /\ NodesIn(pl[2]) = In(q)
            \/ \E t \in Threads : pl = <<t, OwnNode(t)>> /\ NodesIn(pl[2]) = Owned(t)
<1>0. Cardinality(Nodes) \in Nat
  BY NodesAssumption, FS_CardinalityType
<1>1. CASE pl = <<"free", FreeNodes>>
  <2>1. pl[2] = FreeNodes /\ Path(below, top.ptr, FreeNodes)
    BY <1>1 DEF IInv, ListsOK
  <2>2. pl[2] \in Seq(Nodes) /\ \A j, k \in 1 .. Len(pl[2]) : pl[2][j] = pl[2][k] => j = k
    BY <2>1 DEF Path
  <2>3. Len(pl[2]) \in Nat /\ DOMAIN pl[2] = 1 .. Len(pl[2])
    BY <2>2
  <2>4. Len(pl[2]) <= Cardinality(Nodes)
    BY <2>1, PathLength
  <2> QED
    BY <1>0, <1>1, <2>1, <2>2, <2>3, <2>4 DEF InStack
<1>2. CASE \E q \in Queues : pl = <<q, QueueNodes(q)>>
  <2> PICK q \in Queues : pl = <<q, QueueNodes(q)>>
    BY <1>2
  <2>1. pl[2] = QueueNodes(q) /\ Path(NextNode, head[q].ptr, QueueNodes(q))
    BY DEF IInv, ListsOK
  <2>2. pl[2] \in Seq(Nodes) /\ \A j, k \in 1 .. Len(pl[2]) : pl[2][j] = pl[2][k] => j = k
    BY <2>1 DEF Path
  <2>3. Len(pl[2]) \in Nat /\ DOMAIN pl[2] = 1 .. Len(pl[2])
    BY <2>2
  <2>4. Len(pl[2]) <= Cardinality(Nodes)
    BY <2>1, PathLength
  <2> QED
    BY <1>0, <2>1, <2>2, <2>3, <2>4 DEF In
<1>3. CASE \E t \in Threads : pl = <<t, OwnNode(t)>>
  <2> PICK t \in Threads : pl = <<t, OwnNode(t)>>
    BY <1>3
  <2>1. pl[2] = OwnNode(t)
    OBVIOUS
  <2>2. CASE pc[t] \in Holding
    <3>1. PICK n \in Nodes : n = frame[t].node /\ Owned(t) = {n}
      BY <2>2, InHand
    <3>2. OwnNode(t) = <<n>>
      BY <2>2, <3>1 DEF OwnNode, Holding, Linking, Returning
    <3>3. Len(<<n>>) = 1 /\ <<n>>[1] = n /\ NodesIn(<<n>>) = {n} /\ <<n>> \in Seq(Nodes)
      <4>1. PICK link : link = [m \in Nodes |-> Null]
        OBVIOUS
      <4>2. link[n] = Null
        BY <4>1
      <4> QED
        BY <4>2, OnePath
    <3>4. 1 <= Cardinality(Nodes)
      <4>1. Cardinality(Nodes) # 0
        BY NodesAssumption, FS_EmptySet
      <4> QED
        BY <4>1, <1>0
    <3>5. /\ pl[2] \in Seq(Nodes) /\ Len(pl[2]) = 1
          /\ DOMAIN pl[2] = 1 .. Len(pl[2])
      BY <2>1, <3>2, <3>3
    <3>6. \A j, k \in 1 .. Len(pl[2]) : j = k
      BY <3>5
    <3>7. NodesIn(pl[2]) = Owned(t)
      BY <2>1, <3>1, <3>2, <3>3
    <3> QED
      BY <1>0, <3>4, <3>5, <3>6, <3>7
  <2>3. CASE pc[t] \notin Holding
    <3>1. OwnNode(t) = <<>> /\ Owned(t) = {}
      BY <2>3 DEF OwnNode, Owned, Holding, Linking, Returning
    <3>2. pl[2] \in Seq(Nodes) /\ Len(pl[2]) = 0 /\ DOMAIN pl[2] = 1 .. Len(pl[2])
      BY <2>1, <3>1
    <3>3. NodesIn(pl[2]) = Owned(t)
      BY <3>1, <2>1, EmptyPath
    <3>4. \A j, k \in 1 .. Len(pl[2]) : j = k
      BY <3>2
    <3> QED
      BY <1>0, <3>2, <3>3, <3>4
  <2> QED
    BY <2>2, <2>3
<1> QED
  BY <1>1, <1>2, <1>3 DEF Places

(* No node is in two places ... *)
LEMMA OnePlace ==
  ASSUME IInv, NEW pl \in Places, NEW pm \in Places,
         NEW n, n \in NodesIn(pl[2]), n \in NodesIn(pm[2])
  PROVE  pl = pm /\ n \notin fresh
<1>1. \/ pl = <<"free", FreeNodes>> /\ NodesIn(pl[2]) = InStack
      \/ \E q \in Queues : pl = <<q, QueueNodes(q)>> /\ NodesIn(pl[2]) = In(q)
      \/ \E t \in Threads : pl = <<t, OwnNode(t)>> /\ NodesIn(pl[2]) = Owned(t)
  BY PlaceIs
<1>2. \/ pm = <<"free", FreeNodes>> /\ NodesIn(pm[2]) = InStack
      \/ \E q \in Queues : pm = <<q, QueueNodes(q)>> /\ NodesIn(pm[2]) = In(q)
      \/ \E t \in Threads : pm = <<t, OwnNode(t)>> /\ NodesIn(pm[2]) = Owned(t)
  BY PlaceIs
<1>3. ApartOK
  BY DEF IInv
<1>4. CASE pl = <<"free", FreeNodes>> /\ NodesIn(pl[2]) = InStack
  BY <1>2, <1>3, <1>4 DEF ApartOK
<1>5. CASE \E q \in Queues : pl = <<q, QueueNodes(q)>> /\ NodesIn(pl[2]) = In(q)
  <2> PICK q \in Queues : pl = <<q, QueueNodes(q)>> /\ NodesIn(pl[2]) = In(q)
    BY <1>5
  <2>1. n \notin fresh /\ n \notin InStack
    BY <1>3 DEF ApartOK
  <2>2. \A t \in Threads : n \notin Owned(t)
    BY <1>3 DEF ApartOK
  <2>3. \A p \in Queues : n \in In(p) => p = q
    BY <1>3 DEF ApartOK
  <2> QED
    BY <1>2, <2>1, <2>2, <2>3
<1>6. CASE \E t \in Threads : pl = <<t, OwnNode(t)>> /\ NodesIn(pl[2]) = Owned(t)
  <2> PICK t \in Threads : pl = <<t, OwnNode(t)>> /\ NodesIn(pl[2]) = Owned(t)
    BY <1>6
  <2>1. n \notin fresh /\ n \notin InStack
    BY <1>3 DEF ApartOK
  <2>2. \A q \in Queues : n \notin In(q)
    BY <1>3 DEF ApartOK
  <2>3. \A u \in Threads : n \in Owned(u) => u = t
    BY <1>3 DEF ApartOK
  <2> QED
    BY <1>2, <2>1, <2>2, <2>3
<1> QED
  BY <1>1, <1>4, <1>5, <1>6

(* ... or in none, once it was allocated. *)
LEMMA SomePlace ==
  ASSUME IInv, NEW n \in Nodes, n \notin fresh
  PROVE  \E pl \in Places : n \in NodesIn(pl[2])
<1>1. CASE n \in InStack
  <2>1. <<"free", FreeNodes>> \in Places
    BY DEF Places
  <2> QED
    BY <1>1, <2>1 DEF InStack
<1>2. CASE \E q \in Queues : n \in In(q)
  <2> PICK q \in Queues : n \in In(q)
    BY <1>2
  <2>1. <<q, QueueNodes(q)>> \in Places
    BY DEF Places
  <2> QED
    BY <2>1 DEF In
<1>3. CASE \E t \in Threads : n \in Owned(t)
  <2> PICK t \in Threads : n \in Owned(t)
    BY <1>3
  <2>1. <<t, OwnNode(t)>> \in Places
    BY DEF Places
  <2>2. OwnNode(t) = <<n>>
    BY DEF Owned, OwnNode, Holding, Linking, Returning
  <2>3. n \in NodesIn(OwnNode(t))
    BY <2>2 DEF NodesIn
  <2> QED
    BY <2>1, <2>3
<1> QED
  BY <1>1, <1>2, <1>3 DEF IInv, AllPlaced

(* Every node that was allocated is in one place, in it once.              *)
THEOREM NodesKept == Spec => []NodesOnce
<1>1. IInv => NodesOnce
  <2> SUFFICES ASSUME IInv, NEW n \in Nodes
               PROVE  Cardinality({pk \in Places \X (1 .. Cardinality(Nodes) + 1) :
                                     pk[2] \in DOMAIN pk[1][2] /\ pk[1][2][pk[2]] = n})
                        = IF n \in fresh THEN 0 ELSE 1
    BY DEF NodesOnce
  <2> DEFINE Found == {pk \in Places \X (1 .. Cardinality(Nodes) + 1) :
                         pk[2] \in DOMAIN pk[1][2] /\ pk[1][2][pk[2]] = n}
  <2>1. ASSUME NEW pk \in Found
        PROVE  /\ pk[1] \in Places /\ pk = <<pk[1], pk[2]>>
               /\ pk[2] \in 1 .. Len(pk[1][2]) /\ pk[1][2][pk[2]] = n
               /\ n \in NodesIn(pk[1][2])
    <3>1. pk[1] \in Places /\ pk = <<pk[1], pk[2]>>
      OBVIOUS
    <3>2. pk[2] \in 1 .. Len(pk[1][2]) /\ pk[1][2][pk[2]] = n
      BY <3>1, PlaceIs
    <3> QED
      BY <3>1, <3>2 DEF NodesIn
  <2>2. CASE n \in fresh
    <3>1. Found = {}
      <4> SUFFICES ASSUME NEW pk \in Found PROVE FALSE
        OBVIOUS
      <4>1. pk[1] \in Places /\ n \in NodesIn(pk[1][2])
        BY <2>1
      <4> HIDE DEF Found
      <4> QED
        BY <2>2, <4>1, OnePlace
    <3> QED
      BY <2>2, <3>1, FS_EmptySet
  <2>3. CASE n \notin fresh
    <3>1. PICK pl \in Places : n \in NodesIn(pl[2])
      BY <2>3, SomePlace
    <3>2. PICK k \in 1 .. Len(pl[2]) : pl[2][k] = n
      BY <3>1 DEF NodesIn
    <3>3. /\ Len(pl[2]) \in Nat /\ DOMAIN pl[2] = 1 .. Len(pl[2])
          /\ Len(pl[2]) <= Cardinality(Nodes) /\ Cardinality(Nodes) \in Nat
          /\ \A i, j \in 1 .. Len(pl[2]) : pl[2][i] = pl[2][j] => i = j
      BY PlaceIs
    <3>4. k \in 1 .. Cardinality(Nodes) + 1
      BY <3>3
    <3>5. <<pl, k>> \in Found
      BY <3>2, <3>3, <3>4
    <3>6. ASSUME NEW pk \in Found
          PROVE  pk = <<pl, k>>
      <4>1. /\ pk[1] \in Places /\ pk = <<pk[1], pk[2]>>
            /\ pk[2] \in 1 .. Len(pk[1][2]) /\ pk[1][2][pk[2]] = n
            /\ n \in NodesIn(pk[1][2])
        BY <2>1
      <4> HIDE DEF Found
      <4>2. pk[1] = pl
        BY <3>1, <4>1, OnePlace
      <4>3. pk[2] = k
        BY <3>2, <3>3, <4>1, <4>2
      <4> QED
        BY <4>1, <4>2, <4>3
    <3>7. Found = {<<pl, k>>}
      <4> HIDE DEF Found
      <4> QED
        BY <3>5, <3>6
    <3>8. Cardinality(Found) = 1
      BY <3>7, FS_Singleton
    <3> QED
      BY <2>3, <3>8
  <2> QED
    BY <2>2, <2>3
<1> QED
  BY <1>1, Invariant, PTL

-----------------------------------------------------------------------------
(* The queues implement the abstract ones.                                 *)

(* Calls that have not taken effect, of all threads. *)
Late == {"enqFinish", "push", "pushLink", "pushCas"}
PendingCalls == [t \in Threads |-> Pending(t)]

(* A step of a thread leaves the calls of the others, *)
LEMMA PendingStays ==
  ASSUME NEW t \in Threads, Pending(t)' = Pending(t),
         \A u \in Threads \ {t} : pc'[u] = pc[u] /\ script'[u] = script[u]
  PROVE  PendingCalls' = PendingCalls
<1>1. ASSUME NEW u \in Threads
      PROVE  Pending(u)' = Pending(u)
  <2>1. CASE u # t
    BY <2>1 DEF Pending
  <2> QED
    BY <2>1
<1> QED
  BY <1>1 DEF PendingCalls

(* and makes one of its own take effect when it goes where it is late, or  *)
(* returns without having been there.                                      *)
LEMMA PendingTail ==
  ASSUME NEW t \in Threads, Pending(t) = script[t], Pending(t)' = Tail(script[t]),
         \A u \in Threads \ {t} : pc'[u] = pc[u] /\ script'[u] = script[u]
  PROVE  /\ PendingCalls[t] = script[t]
         /\ PendingCalls' = [PendingCalls EXCEPT ![t] = Tail(@)]
<1>1. \A u \in Threads \ {t} : Pending(u)' = Pending(u)
  BY DEF Pending
<1>2. PendingCalls' = [u \in Threads |-> Pending(u)']
  BY DEF PendingCalls
<1>3. \A u \in Threads : PendingCalls[u] = Pending(u)
  BY DEF PendingCalls
<1>4. PendingCalls = [u \in Threads |-> Pending(u)]
  BY DEF PendingCalls
<1> QED
  BY <1>1, <1>2, <1>3, <1>4

ItemsOf(q) == [k \in 1 .. Len(QueueNodes(q)) - 1 |-> data[QueueNodes(q)[k + 1]]]

(* The values after the dummy node. *)
LEMMA ItemsType ==
  ASSUME IInv, NEW q \in Queues
  PROVE  /\ Items = [p \in Queues |-> ItemsOf(p)]
         /\ ItemsOf(q) \in Seq(Nat) /\ Len(ItemsOf(q)) = Len(QueueNodes(q)) - 1
         /\ Len(QueueNodes(q)) \in Nat \ {0}
         /\ \A k \in 1 .. Len(QueueNodes(q)) - 1 : ItemsOf(q)[k] = data[QueueNodes(q)[k + 1]]
<1>1. Path(NextNode, head[q].ptr, QueueNodes(q)) /\ head[q].ptr # Null
  BY DEF IInv, ListsOK
<1>2. QueueNodes(q) \in Seq(Nodes) /\ Len(QueueNodes(q)) \in Nat \ {0}
  <2>1. Len(QueueNodes(q)) \in Nat /\ 1 \in 1 .. Len(QueueNodes(q))
    BY <1>1, PathStart
  <2> QED
    BY <1>1, <2>1 DEF Path
<1>a. PICK m : m = Len(QueueNodes(q)) - 1
  OBVIOUS
<1>3. \A k \in 1 .. m : k + 1 \in 1 .. Len(QueueNodes(q))
  BY <1>a, <1>2
<1>4. \A k \in 1 .. m : data[QueueNodes(q)[k + 1]] \in Nat
  BY <1>2, <1>3 DEF IInv, TypeOK
<1>5. ItemsOf(q) \in [1 .. m -> Nat] /\ m \in Nat
  BY <1>a, <1>2, <1>4 DEF ItemsOf
<1>6. ItemsOf(q) \in Seq(Nat)
  BY <1>5, SeqDef
<1>7. Len(ItemsOf(q)) = m
  BY <1>5, <1>6, LenProperties
<1>8. Items = [p \in Queues |-> ItemsOf(p)]
  BY DEF Items, ItemsOf
<1>9. \A k \in 1 .. Len(QueueNodes(q)) - 1 : ItemsOf(q)[k] = data[QueueNodes(q)[k + 1]]
  BY DEF ItemsOf
<1> QED
  BY <1>a, <1>2, <1>6, <1>7, <1>8, <1>9

(* Steps that leave the queues alone, with what is in them. *)
LEMMA ItemsOfStay ==
  ASSUME IInv, NEW q \in Queues, QueueNodes(q)' = QueueNodes(q),
         \A n \in In(q) : data'[n] = data[n]
  PROVE  ItemsOf(q)' = ItemsOf(q)
<1>1. Len(QueueNodes(q)) \in Nat \ {0}
  BY ItemsType
<1>2. \A k \in 1 .. Len(QueueNodes(q)) - 1 : data'[QueueNodes(q)[k + 1]] = data[QueueNodes(q)[k + 1]]
  <2> TAKE k \in 1 .. Len(QueueNodes(q)) - 1
  <2>1. k + 1 \in 1 .. Len(QueueNodes(q))
    BY <1>1
  <2>2. QueueNodes(q)[k + 1] \in In(q)
    BY <2>1 DEF In, NodesIn
  <2> QED
    BY <2>2
<1>a. PICK s : s = QueueNodes(q)
  OBVIOUS
<1>3. ItemsOf(q)' = [k \in 1 .. Len(s) - 1 |-> data'[s[k + 1]]]
  BY <1>a DEF ItemsOf
<1>4. ItemsOf(q) = [k \in 1 .. Len(s) - 1 |-> data[s[k + 1]]]
  BY <1>a DEF ItemsOf
<1> QED
  BY <1>a, <1>2, <1>3, <1>4

(* A step that writes to its own node leaves the values. *)
LEMMA ItemsStay ==
  ASSUME IInv, NEW t \in Threads, head' = head,
         \A n \in Nodes \ Owned(t) : next'[n] = next[n] /\ data'[n] = data[n]
  PROVE  Items' = Items
<1>1. ASSUME NEW q \in Queues
      PROVE  ItemsOf(q)' = ItemsOf(q)
  <2>1. \A n \in In(q) : next'[n] = next[n] /\ data'[n] = data[n]
    BY InNodes DEF IInv, ApartOK
  <2>2. QueueNodes(q)' = QueueNodes(q)
    BY <2>1, QueueStays
  <2> QED
    BY <2>1, <2>2, ItemsOfStay
<1>2. Items' = [q \in Queues |-> ItemsOf(q)'] /\ Items = [q \in Queues |-> ItemsOf(q)]
  BY DEF Items, ItemsOf
<1> QED
  BY <1>1, <1>2

(* enqueue puts its value at the end. *)
LEMMA EnqCasItems ==
  ASSUME IInv, IInv', NEW t \in Threads, EnqCas(t), NEW q, q = Queue(t)
  PROVE  Items' = [Items EXCEPT ![q] = Append(@, Doing(t).v)]
<1>a. PICK n : n = frame[t].node
  OBVIOUS
<1>b. PICK v : v = Doing(t).v
  OBVIOUS
<1>c. PICK s : s = QueueNodes(q)
  OBVIOUS
<1>d. PICK r : r = QueueNodes(q)'
  OBVIOUS
<1>1. data' = data
  BY DEF EnqCas
<1>2. /\ q \in Queues /\ data[n] = v
      /\ Len(s) \in Nat \ {0} /\ Len(r) = Len(s) + 1
      /\ r[Len(s) + 1] = n /\ \A k \in 1 .. Len(s) : r[k] = s[k]
      /\ \A p \in Queues \ {q} : QueueNodes(p)' = QueueNodes(p)
  BY <1>a, <1>b, <1>c, <1>d, EnqCasLinks
<1>3. PICK old : old = ItemsOf(q)
  OBVIOUS
<1>4. PICK new : new = ItemsOf(q)'
  OBVIOUS
<1>5. /\ old \in Seq(Nat) /\ Len(old) = Len(s) - 1
      /\ \A k \in 1 .. Len(s) - 1 : old[k] = data[s[k + 1]]
  BY <1>c, <1>2, <1>3, ItemsType
<1>6. new = [k \in 1 .. Len(r) - 1 |-> data'[r[k + 1]]]
  BY <1>d, <1>4 DEF ItemsOf
<1>7. v \in Nat
  BY <1>2, EnqCasLinks, <1>a DEF IInv, TypeOK
<1>8. Append(old, v) \in Seq(Nat) /\ Len(Append(old, v)) = Len(s)
      /\ Append(old, v)[Len(s)] = v /\ \A k \in 1 .. Len(s) - 1 : Append(old, v)[k] = old[k]
  <2>1. /\ Append(old, v) \in Seq(Nat) /\ Len(Append(old, v)) = Len(old) + 1
        /\ \A k \in 1 .. Len(old) : Append(old, v)[k] = old[k]
        /\ Append(old, v)[Len(old) + 1] = v
    BY <1>5, <1>7, AppendProperties
  <2>2. Len(old) + 1 = Len(s)
    BY <1>2, <1>5
  <2> QED
    BY <2>1, <2>2, <1>5
<1>9. new = Append(old, v)
  <2>1. Len(r) - 1 = Len(s)
    BY <1>2
  <2>2. ASSUME NEW k \in 1 .. Len(s)
        PROVE  data'[r[k + 1]] = Append(old, v)[k]
    <3>1. CASE k = Len(s)
      BY <3>1, <1>1, <1>2, <1>8
    <3>2. CASE k # Len(s)
      <4>1. k \in 1 .. Len(s) - 1 /\ k + 1 \in 1 .. Len(s)
        BY <3>2, <1>2
      <4> QED
        BY <4>1, <1>1, <1>2, <1>5, <1>8
    <3> QED
      BY <3>1, <3>2
  <2>3. Append(old, v) = [k \in 1 .. Len(s) |-> Append(old, v)[k]]
    <3>1. PICK app : app = Append(old, v)
      OBVIOUS
    <3>2. app \in [1 .. Len(s) -> Nat]
      BY <3>1, <1>8, LenProperties
    <3>3. app = [k \in 1 .. Len(s) |-> app[k]]
      BY <3>2
    <3> QED
      BY <3>1, <3>3
  <2>4. new = [k \in 1 .. Len(s) |-> data'[r[k + 1]]]
    BY <1>6, <2>1
  <2>5. [k \in 1 .. Len(s) |-> data'[r[k + 1]]] = [k \in 1 .. Len(s) |-> Append(old, v)[k]]
    BY <2>2
  <2> QED
    BY <2>3, <2>4, <2>5
<1>10. \A p \in Queues \ {q} : ItemsOf(p)' = ItemsOf(p)
  BY <1>1, <1>2, ItemsOfStay
<1>11. Items' = [p \in Queues |-> ItemsOf(p)'] /\ Items = [p \in Queues |-> ItemsOf(p)]
  BY DEF Items, ItemsOf
<1> HIDE DEF Items
<1> QED
  BY <1>b, <1>2, <1>3, <1>4, <1>9, <1>10, <1>11

(* dequeue takes the first. *)
LEMMA DeqCasItems ==
  ASSUME IInv, IInv', NEW t \in Threads, DeqCas(t), NEW q, q = Queue(t)
  PROVE  /\ q \in Queues /\ Items[q] # <<>> /\ Head(Items[q]) = frame[t].data
         /\ Items' = [Items EXCEPT ![q] = Tail(@)]
<1>a. PICK n : n = frame[t].head.ptr
  OBVIOUS
<1>c. PICK s : s = QueueNodes(q)
  OBVIOUS
<1>d. PICK r : r = QueueNodes(q)'
  OBVIOUS
<1>1. data' = data
  BY DEF DeqCas
<1>2. /\ q \in Queues /\ frame[t].data = data[s[2]]
      /\ Len(s) \in Nat /\ 2 \in 1 .. Len(s) /\ Len(r) = Len(s) - 1
      /\ \A k \in 1 .. Len(s) - 1 : r[k] = s[k + 1]
      /\ \A p \in Queues \ {q} : QueueNodes(p)' = QueueNodes(p)
  BY <1>a, <1>c, <1>d, DeqCasLinks
<1>3. PICK old : old = ItemsOf(q)
  OBVIOUS
<1>4. PICK new : new = ItemsOf(q)'
  OBVIOUS
<1>5. /\ old \in Seq(Nat) /\ Len(old) = Len(s) - 1
      /\ \A k \in 1 .. Len(s) - 1 : old[k] = data[s[k + 1]]
  BY <1>c, <1>2, <1>3, ItemsType
<1>6. new = [k \in 1 .. Len(r) - 1 |-> data'[r[k + 1]]]
  BY <1>d, <1>4 DEF ItemsOf
<1>7. old # <<>> /\ Head(old) = data[s[2]]
  <2>1. 1 \in 1 .. Len(old) /\ 1 \in 1 .. Len(s) - 1
    BY <1>2, <1>5
  <2>2. old # <<>> /\ Head(old) = old[1]
    BY <2>1, <1>5, HeadTailProperties, EmptySeq
  <2> QED
    BY <2>1, <2>2, <1>5
<1>8. /\ Tail(old) \in Seq(Nat) /\ Len(Tail(old)) = Len(s) - 2
      /\ \A k \in 1 .. Len(s) - 2 : Tail(old)[k] = old[k + 1]
  <2>1. Tail(old) \in Seq(Nat) /\ Len(Tail(old)) = Len(old) - 1
        /\ \A k \in 1 .. Len(Tail(old)) : Tail(old)[k] = old[k + 1]
    BY <1>5, <1>7, HeadTailProperties
  <2>2. Len(old) - 1 = Len(s) - 2
    BY <1>2, <1>5
  <2> QED
    BY <2>1, <2>2
<1>9. new = Tail(old)
  <2>1. Len(r) - 1 = Len(s) - 2
    BY <1>2
  <2>2. ASSUME NEW k \in 1 .. Len(s) - 2
        PROVE  data'[r[k + 1]] = Tail(old)[k]
    <3>1. k + 1 \in 1 .. Len(s) - 1 /\ (k + 1) + 1 \in Nat
      BY <1>2
    <3> QED
      BY <3>1, <1>1, <1>2, <1>5, <1>8
  <2>3. Tail(old) = [k \in 1 .. Len(s) - 2 |-> Tail(old)[k]]
    <3>1. PICK rest : rest = Tail(old)
      OBVIOUS
    <3>2. rest \in [1 .. Len(s) - 2 -> Nat]
      BY <3>1, <1>8, LenProperties
    <3>3. rest = [k \in 1 .. Len(s) - 2 |-> rest[k]]
      BY <3>2
    <3> QED
      BY <3>1, <3>3
  <2>4. new = [k \in 1 .. Len(s) - 2 |-> data'[r[k + 1]]]
    BY <1>6, <2>1
  <2>5. [k \in 1 .. Len(s) - 2 |-> data'[r[k + 1]]] = [k \in 1 .. Len(s) - 2 |-> Tail(old)[k]]
    BY <2>2
  <2> QED
    BY <2>3, <2>4, <2>5
<1>10. \A p \in Queues \ {q} : ItemsOf(p)' = ItemsOf(p)
  BY <1>1, <1>2, ItemsOfStay
<1>11. Items' = [p \in Queues |-> ItemsOf(p)'] /\ Items = [p \in Queues |-> ItemsOf(p)]
  BY DEF Items, ItemsOf
<1> HIDE DEF Items
<1> QED
  BY <1>2, <1>3, <1>4, <1>7, <1>9, <1>10, <1>11

FifoVars == <<Items, PendingCalls, wasEmpty, got>>

(* The thread makes no step of a queue. *)
Silent(t) ==
  /\ head' = head /\ wasEmpty' = wasEmpty /\ got' = got
  /\ \A n \in Nodes \ Owned(t) : next'[n] = next[n] /\ data'[n] = data[n]

(* Its calls stay. *)
LEMMA SilentStep ==
  ASSUME IInv, NEW t \in Threads, Silent(t), Pending(t)' = Pending(t),
         \A u \in Threads \ {t} : pc'[u] = pc[u] /\ script'[u] = script[u]
  PROVE  UNCHANGED FifoVars
BY ItemsStay, PendingStays DEF Silent, FifoVars

(* Each step makes a call take effect, looks, or is none of a queue.       *)
LEMMA StepMaps ==
  ASSUME IInv, IInv', NEW t \in Threads, Step(t)
  PROVE  [Abstract!Next]_FifoVars
<1> USE DEF stack, queues, client, history
<1>a. pc[t] # "idle" => /\ script[t] # <<>> /\ Queue(t) \in Queues
                        /\ pc[t] \in Enqueueing => Doing(t).op = "enq"
                        /\ pc[t] \in Dequeueing => Doing(t).op = "deq"
  BY DoingType DEF IInv, TypeOK, ThreadsOK, ThreadOK, ScriptFits
<1>b. DOMAIN pc = Threads /\ DOMAIN script = Threads
  BY DEF IInv, TypeOK
<1>1. CASE EnqCas(t)
  <2>1. /\ pc[t] = "enqCas" /\ Goto(t, "enqFinish") /\ script' = script
        /\ UNCHANGED <<wasEmpty, got>>
    BY <1>1 DEF EnqCas
  <2>2. script[t] # <<>> /\ Queue(t) \in Queues /\ Doing(t).op = "enq"
    BY <2>1, <1>a DEF Enqueueing, Linking
  <2>3. pc'[t] = "enqFinish" /\ \A u \in Threads \ {t} : pc'[u] = pc[u]
    BY <2>1, Moves
  <2>4. Pending(t) = script[t] /\ Pending(t)' = Tail(script[t])
    BY <2>1, <2>3 DEF Pending
  <2>5. /\ PendingCalls[t] = script[t]
        /\ PendingCalls' = [PendingCalls EXCEPT ![t] = Tail(@)]
    BY <2>1, <2>3, <2>4, PendingTail
  <2>6. Items' = [Items EXCEPT ![Queue(t)] = Append(@, Doing(t).v)]
    BY <1>1, EnqCasItems
  <2> HIDE DEF Items
  <2>7. Abstract!Enqueue(t)
    BY <2>1, <2>2, <2>5, <2>6
       DEF Abstract!Enqueue, Abstract!Calls, Abstract!Queue, Abstract!TakesEffect,
           PendingCalls, Doing, Queue
  <2> QED
    BY <2>7 DEF Abstract!Next
<1>2. CASE DeqCas(t)
  <2>1. /\ pc[t] = "deqCas" /\ Goto(t, "push") /\ script' = script
        /\ got' = [got EXCEPT ![t] = Append(@, frame[t].data)]
        /\ wasEmpty' = [wasEmpty EXCEPT ![t] = FALSE]
    BY <1>2 DEF DeqCas
  <2>2. script[t] # <<>> /\ Doing(t).op = "deq"
    BY <2>1, <1>a DEF Dequeueing
  <2>3. pc'[t] = "push" /\ \A u \in Threads \ {t} : pc'[u] = pc[u]
    BY <2>1, Moves
  <2>4. Pending(t) = script[t] /\ Pending(t)' = Tail(script[t])
    BY <2>1, <2>3 DEF Pending
  <2>5. /\ PendingCalls[t] = script[t]
        /\ PendingCalls' = [PendingCalls EXCEPT ![t] = Tail(@)]
    BY <2>1, <2>3, <2>4, PendingTail
  <2>6. /\ Items[Queue(t)] # <<>> /\ Head(Items[Queue(t)]) = frame[t].data
        /\ Items' = [Items EXCEPT ![Queue(t)] = Tail(@)]
    BY <1>2, DeqCasItems
  <2> HIDE DEF Items
  <2>7. Abstract!Dequeue(t)
    BY <2>1, <2>2, <2>5, <2>6
       DEF Abstract!Dequeue, Abstract!Calls, Abstract!Queue, Abstract!TakesEffect,
           PendingCalls, Doing, Queue
  <2> QED
    BY <2>7 DEF Abstract!Next
<1>3. CASE DeqNext(t)
  <2>1. /\ pc[t] = "deqNext" /\ Goto(t, "deqCheck")
        /\ UNCHANGED <<head, next, data, script, got>>
        /\ wasEmpty' = [wasEmpty EXCEPT ![t] = Items[Queue(t)] = <<>>]
    BY <1>3 DEF DeqNext
  <2>2. script[t] # <<>> /\ Doing(t).op = "deq"
    BY <2>1, <1>a DEF Dequeueing
  <2>3. pc'[t] = "deqCheck" /\ \A u \in Threads \ {t} : pc'[u] = pc[u]
    BY <2>1, Moves
  <2>4. Pending(t) = script[t] /\ Pending(t)' = Pending(t)
    BY <2>1, <2>3 DEF Pending
  <2>5. PendingCalls[t] = script[t] /\ PendingCalls' = PendingCalls
    BY <2>1, <2>3, <2>4, PendingStays DEF PendingCalls
  <2>6. Items' = Items
    BY <2>1, ItemsStay
  <2> HIDE DEF Items
  <2>7. Abstract!Look(t)
    BY <2>1, <2>2, <2>5, <2>6
       DEF Abstract!Look, Abstract!Calls, Abstract!Queue, PendingCalls, Doing, Queue
  <2> QED
    BY <2>7 DEF Abstract!Next
<1>4. CASE DeqEmpty(t)
  <2>1. /\ pc[t] = "empty" /\ Goto(t, "idle") /\ Return(t)
        /\ UNCHANGED <<head, next, data, got>>
        /\ wasEmpty' = [wasEmpty EXCEPT ![t] = FALSE]
    BY <1>4 DEF DeqEmpty
  <2>2. script[t] # <<>> /\ Doing(t).op = "deq" /\ wasEmpty[t]
    BY <2>1, <1>a DEF Dequeueing, IInv, ThreadsOK, ThreadOK, DeqOK
  <2>3. /\ pc'[t] = "idle" /\ script'[t] = Tail(script[t])
        /\ \A u \in Threads \ {t} : pc'[u] = pc[u] /\ script'[u] = script[u]
    BY <2>1, <2>2, Moves, ReturnType DEF IInv
  <2>4. Pending(t) = script[t] /\ Pending(t)' = Tail(script[t])
    BY <2>1, <2>3 DEF Pending
  <2>5. /\ PendingCalls[t] = script[t]
        /\ PendingCalls' = [PendingCalls EXCEPT ![t] = Tail(@)]
    BY <2>3, <2>4, PendingTail
  <2>6. Items' = Items
    BY <2>1, ItemsStay
  <2> HIDE DEF Items
  <2>7. Abstract!FindNothing(t)
    BY <2>1, <2>2, <2>5, <2>6
       DEF Abstract!FindNothing, Abstract!Calls, Abstract!TakesEffect, PendingCalls, Doing
  <2> QED
    BY <2>7 DEF Abstract!Next
<1>5. ASSUME Silent(t), script' = script, pc[t] \in Late <=> pc'[t] \in Late,
             \A u \in Threads \ {t} : pc'[u] = pc[u]
      PROVE  UNCHANGED FifoVars
  <2>1. Pending(t)' = Pending(t)
    BY <1>5 DEF Pending, Late
  <2> QED
    BY <2>1, <1>5, SilentStep
<1>6. ASSUME Silent(t), pc[t] \in Late, Return(t), Goto(t, "idle")
      PROVE  UNCHANGED FifoVars
  <2>1. script[t] # <<>>
    BY <1>6, <1>a DEF Late
  <2>2. /\ pc'[t] = "idle" /\ script'[t] = Tail(script[t])
        /\ \A u \in Threads \ {t} : pc'[u] = pc[u] /\ script'[u] = script[u]
    BY <2>1, <1>6, Moves, ReturnType DEF IInv
  <2>3. Pending(t)' = Pending(t)
    BY <1>6, <2>2 DEF Pending, Late
  <2> QED
    BY <2>2, <2>3, <1>6, SilentStep
<1>7. CASE Alloc(t) \/ AllocStep(t) \/ Free(t)
  <2>1. Silent(t) /\ script' = script
    BY <1>7 DEF Silent, Alloc, AllocStep, Free
  <2>2. /\ pc[t] \in Late <=> pc'[t] \in Late
        /\ \A u \in Threads \ {t} : pc'[u] = pc[u]
    BY <1>7, Moves DEF Alloc, AllocStep, Free, Starts, PopRead, PopLook, PopNew, PopCas,
       PopRetry, PushRead, PushLink, PushRetry, Late
  <2> QED
    BY <1>5, <2>1, <2>2
<1>8. CASE Fill(t)
  <2>1. Owned(t) = {frame[t].node} /\ frame[t].node \in Nodes
    BY <1>8, InHand DEF Fill, Holding
  <2>2. Silent(t)
    BY <1>8, <2>1 DEF Silent, Fill, IInv, TypeOK
  <2> QED
    BY <1>5, <1>8, <2>2, Moves DEF Fill, Late
<1>9. CASE EnqStoreNext(t)
  <2>1. Owned(t) = {frame[t].node} /\ frame[t].node \in Nodes
    BY <1>9, InHand DEF EnqStoreNext, Holding
  <2>2. Silent(t)
    BY <1>9, <2>1 DEF Silent, EnqStoreNext, IInv, TypeOK
  <2> QED
    BY <1>5, <1>9, <2>2, Moves DEF EnqStoreNext, Late
<1>10. CASE \/ EnqLoadNext(t) \/ EnqTail(t) \/ EnqNext(t) \/ EnqCheck(t)
            \/ EnqRetry(t) \/ EnqSwing(t)
  <2>1. Silent(t) /\ script' = script
    BY <1>10 DEF Silent, EnqLoadNext, EnqTail, EnqNext, EnqCheck, EnqRetry, EnqSwing
  <2>2. /\ pc[t] \in Late <=> pc'[t] \in Late
        /\ \A u \in Threads \ {t} : pc'[u] = pc[u]
    BY <1>10, Moves
       DEF EnqLoadNext, EnqTail, EnqNext, EnqCheck, EnqRetry, EnqSwing, Late
  <2> QED
    BY <1>5, <2>1, <2>2
<1>11. CASE \/ DeqHead(t) \/ DeqTail(t) \/ DeqCheck(t)
            \/ DeqSwing(t) \/ DeqData(t) \/ DeqRetry(t)
  <2>1. Silent(t) /\ script' = script
    BY <1>11 DEF Silent, DeqHead, DeqTail, DeqCheck, DeqSwing, DeqData, DeqRetry
  <2>2. /\ pc[t] \in Late <=> pc'[t] \in Late
        /\ \A u \in Threads \ {t} : pc'[u] = pc[u]
    BY <1>11, Moves
       DEF DeqHead, DeqTail, DeqCheck, DeqSwing, DeqData, DeqRetry, Starts, Late
  <2> QED
    BY <1>5, <2>1, <2>2
<1>12. CASE EnqFinish(t)
  <2>1. Silent(t) /\ pc[t] = "enqFinish"
    BY <1>12 DEF Silent, EnqFinish
  <2> QED
    BY <1>6, <1>12, <2>1 DEF EnqFinish, Late
<1>13. CASE Freed(t)
  <2>1. Silent(t) /\ pc[t] = "pushCas"
    BY <1>13 DEF Silent, Freed, PushCas
  <2> QED
    BY <1>6, <1>13, <2>1 DEF Freed, PushCas, Late
<1> QED
  BY <1>1, <1>2, <1>3, <1>4, <1>7, <1>8, <1>9, <1>10, <1>11, <1>12, <1>13 DEF Step

(* Queues are constructed empty. *)
LEMMA InitMaps == Init => Abstract!Init
<1> SUFFICES ASSUME Init PROVE Abstract!Init
  OBVIOUS
<1>1. /\ script \in Scripts /\ pc = [t \in Threads |-> "idle"]
      /\ got = [t \in Threads |-> <<>>] /\ wasEmpty = [t \in Threads |-> FALSE]
  BY DEF Init
<1>2. IInv
  BY InitHolds
<1>3. PendingCalls = script
  <2>1. script \in [Threads -> Seq(Operations)]
    BY <1>2 DEF IInv, TypeOK
  <2>2. \A t \in Threads : Pending(t) = script[t]
    BY <1>1 DEF Pending
  <2> QED
    BY <2>1, <2>2 DEF PendingCalls
<1>4. Items = [q \in Queues |-> <<>>]
  <2>1. PICK dummy \in [Queues -> Nodes] :
          next = [n \in Nodes |-> IF n \in fresh THEN NullPtr ELSE Inc(NullPtr, Null)]
    BY DummyChoice DEF Init
  <2>2. \A q \in Queues : next[head[q].ptr].ptr = Null
    <3>1. Inc(NullPtr, Null).ptr = Null /\ NullPtr.ptr = Null
      BY IncType, NoFrameType
    <3> QED
      BY <1>2, <2>1, <3>1, TailNode
  <2>3. \A q \in Queues : Items[q] = <<>>
    BY <1>2, <2>2, LastNode
  <2>4. Items = [q \in Queues |-> Items[q]]
    BY DEF Items
  <2> QED
    BY <2>3, <2>4
<1> QED
  BY <1>1, <1>3, <1>4 DEF Abstract!Init, PendingCalls

(* The queues are queues, whatever the threads do: each call takes effect  *)
(* once, on the queue it was made on; a value leaves that queue in turn,   *)
(* once, as it was put in, although its node may be in use again before a  *)
(* late thread looks at it, and a late thread does not link its node to    *)
(* one that is in another queue by then.                                   *)
THEOREM QueuesImplementFifo == Spec => ImplementsFifo
<1>1. Init => Abstract!Init
  BY InitMaps
<1>2. IInv /\ IInv' /\ [Next]_vars => [Abstract!Next]_FifoVars
  <2> SUFFICES ASSUME IInv, IInv', [Next]_vars
               PROVE  [Abstract!Next]_FifoVars
    OBVIOUS
  <2>1. CASE Next
    BY <2>1, StepMaps DEF Next
  <2>2. CASE UNCHANGED vars
    BY <2>2 DEF vars, stack, queues, client, history, FifoVars, PendingCalls, Pending,
       Items, QueueNodes, NextNode
  <2> QED
    BY <2>1, <2>2
<1> QED
  BY <1>1, <1>2, Invariant, PTL
     DEF Spec, ImplementsFifo, Abstract!Spec, FifoVars, PendingCalls
=============================================================================
