-------------------------- MODULE QSpinLock_proofs --------------------------
(***************************************************************************)
(* Proofs about the queue-based spin lock, for any set of threads.  The    *)
(* inductive invariant describes the queue: it is what makes a failed      *)
(* compare_exchange of step four find the lock still free.                 *)
(***************************************************************************)
EXTENDS QSpinLock, TLAPS

(* The queue holds each thread that has swung the tail and still has a     *)
(* node in use, once; the tail is its last.                                *)
InQueue(t) == \E n \in 1 .. Len(queue) : queue[n] = t

QueueOK ==
  /\ \A t \in Threads : pc[t] \in Waiting \cup Handing <=> InQueue(t)
  /\ \A m, n \in 1 .. Len(queue) : queue[m] = queue[n] => m = n
  /\ tail.node = IF queue = <<>> THEN NoNode ELSE queue[Len(queue)]

(* Behind the head each thread links up and then waits for the one before. *)
Linked(p, t) ==
  \/ /\ pc[t] = "link"
     /\ frame[t].oldTail.node = p /\ next[p] = NoNode
  \/ pc[t] = "awaitReady" /\ next[p] = t

LinksOK ==
  /\ \A n \in 1 .. Len(queue) - 1 :
       Linked(queue[n], queue[n + 1]) /\ ~ready[queue[n + 1]]
  /\ queue # <<>> => next[queue[Len(queue)]] = NoNode

(* The head has been told that it is. *)
HeadOK == queue # <<>> =>
  \/ pc[queue[1]] = "awaitReady" /\ ready[queue[1]]
  \/ pc[queue[1]] \in {"awaitFree", "take"} \cup Handing

(* A thread that hands over has a successor. *)
HandingOK ==
  /\ \A t \in Threads : pc[t] \in Handing => Len(queue) > 1
  /\ \A t \in Threads : pc[t] = "handOver" =>
       frame[t].next = queue[2] /\ pc[queue[2]] = "awaitReady"

(* A node not yet in the queue is as it was constructed. *)
FreshOK ==
  \A t \in Threads : pc[t] \in {"enqueue", "tryTop"} =>
    /\ next[t] = NoNode /\ ~ready[t]
    /\ pc[t] = "tryTop" => frame[t].oldTail = Unlocked

(* Once the head has seen the lock free, only it can take it. *)
TakeOK ==
  \A t \in Threads : pc[t] = "take" =>
    /\ tail.tag = 0
    /\ frame[t].curTail.tag = 0 /\ frame[t].curTail.node # NoNode

IInv ==
  /\ TypeOK /\ QueueOK /\ LinksOK /\ HeadOK /\ HandingOK /\ FreshOK /\ TakeOK
  /\ MutualExclusion

----------------------------------------------------------------------------

(* The queue has a length, and whoever is past awaitReady is its head. *)
LEMMA Shape ==
  ASSUME IInv
  PROVE  /\ Len(queue) \in Nat
         /\ queue = <<>> <=> Len(queue) = 0
         /\ \A n \in 1 .. Len(queue) : queue[n] \in Threads
         /\ \A t \in Threads :
              \/ pc[t] \in {"awaitFree", "take"} \cup Handing
              \/ pc[t] = "awaitReady" /\ ready[t]
              => queue # <<>> /\ queue[1] = t
         /\ \A t \in Threads :
              pc[t] \in Waiting \cup Handing => queue # <<>> /\ tail.node # NoNode
<1>1. /\ Len(queue) \in Nat
      /\ queue = <<>> <=> Len(queue) = 0
      /\ \A n \in 1 .. Len(queue) : queue[n] \in Threads
  BY DEF IInv, TypeOK
<1>2. ASSUME NEW t \in Threads,
             \/ pc[t] \in {"awaitFree", "take"} \cup Handing
             \/ pc[t] = "awaitReady" /\ ready[t]
      PROVE  queue # <<>> /\ queue[1] = t
  <2>1. PICK n \in 1 .. Len(queue) : queue[n] = t
    BY <1>2 DEF IInv, QueueOK, InQueue, Waiting
  <2>2. ASSUME n # 1 PROVE FALSE
    <3>1. n - 1 \in 1 .. Len(queue) - 1 /\ (n - 1) + 1 = n
      BY <1>1, <2>1, <2>2
    <3>2. pc[t] \in {"link", "awaitReady"} /\ ~ready[t]
      BY <2>1, <3>1 DEF IInv, LinksOK, Linked
    <3> QED BY <1>2, <3>2 DEF Handing
  <2> QED BY <1>1, <2>1, <2>2
<1>3. ASSUME NEW t \in Threads, pc[t] \in Waiting \cup Handing
      PROVE  queue # <<>> /\ tail.node # NoNode
  <2>1. PICK n \in 1 .. Len(queue) : queue[n] = t
    BY <1>3 DEF IInv, QueueOK, InQueue
  <2>2. queue # <<>> /\ queue[Len(queue)] \in Threads
    BY <1>1, <2>1
  <2> QED BY <2>2, NoNodeAssumption DEF IInv, QueueOK
<1> QED BY <1>1, <1>2, <1>3

(* The old tail of a thread that links up is in the queue, just before it. *)
LEMMA LinkTarget ==
  ASSUME IInv, NEW t \in Threads, pc[t] = "link"
  PROVE  \E n \in 1 .. Len(queue) - 1 :
           queue[n] = frame[t].oldTail.node /\ queue[n + 1] = t
<1>1. PICK n \in 1 .. Len(queue) : queue[n] = t
  BY DEF IInv, QueueOK, InQueue, Waiting
<1>2. n # 1
  BY <1>1 DEF IInv, HeadOK, Handing
<1>3. n - 1 \in 1 .. Len(queue) - 1 /\ (n - 1) + 1 = n
  BY <1>1, <1>2, Shape
<1>4. frame[t].oldTail.node = queue[n - 1]
  BY <1>1, <1>3 DEF IInv, LinksOK, Linked
<1> QED BY <1>1, <1>3, <1>4

LEMMA LockFastKeeps ==
  ASSUME IInv, NEW t \in Threads, LockFast(t)
  PROVE  IInv'
<1> USE DEF LockFast, Return, NoFrame, Goto, Ptr, shared, Unlocked
<1>0. TypeOK'
  BY NoNodeAssumption DEF IInv, TypeOK, TailPtrs, Nodes, Labels, Waiting, Handing, Frames
<1>1. QueueOK'
  BY DEF IInv, TypeOK, QueueOK, InQueue, Waiting, Handing, TailPtrs
<1>2. LinksOK'
  BY Shape DEF IInv, TypeOK, LinksOK, Linked, QueueOK, InQueue, Waiting, Handing
<1>3. HeadOK'
  BY Shape DEF IInv, TypeOK, HeadOK, Handing
<1>4. HandingOK'
  BY Shape DEF IInv, TypeOK, HandingOK, Handing
<1>5. FreshOK'
  BY DEF IInv, TypeOK, FreshOK
<1>6. TakeOK'
  BY Shape DEF IInv, TypeOK, TakeOK, TailPtrs, Waiting, MutualExclusion, Holds
<1>7. MutualExclusion'
  BY DEF IInv, TypeOK, MutualExclusion, Holds, Handing, TailPtrs
<1> QED BY <1>0, <1>1, <1>2, <1>3, <1>4, <1>5, <1>6, <1>7 DEF IInv

LEMMA LockSlowKeeps ==
  ASSUME IInv, NEW t \in Threads, LockSlow(t)
  PROVE  IInv'
<1> USE DEF LockSlow, Goto, Ptr, shared, Unlocked
<1>0. TypeOK'
  BY NoNodeAssumption DEF IInv, TypeOK, TailPtrs, Nodes, Labels, Waiting, Handing, Frames
<1>1. QueueOK'
  BY DEF IInv, TypeOK, QueueOK, InQueue, Waiting, Handing, TailPtrs
<1>2. LinksOK'
  BY Shape DEF IInv, TypeOK, LinksOK, Linked, QueueOK, InQueue, Waiting, Handing
<1>3. HeadOK'
  BY Shape DEF IInv, TypeOK, HeadOK, Handing
<1>4. HandingOK'
  BY Shape DEF IInv, TypeOK, HandingOK, Handing
<1>5. FreshOK'
  BY DEF IInv, TypeOK, FreshOK
<1>6. TakeOK'
  BY Shape DEF IInv, TypeOK, TakeOK, TailPtrs, Waiting, MutualExclusion, Holds
<1>7. MutualExclusion'
  BY DEF IInv, TypeOK, MutualExclusion, Holds, Handing, TailPtrs
<1> QED BY <1>0, <1>1, <1>2, <1>3, <1>4, <1>5, <1>6, <1>7 DEF IInv

LEMMA EnqueueFailsKeeps ==
  ASSUME IInv, NEW t \in Threads, EnqueueFails(t)
  PROVE  IInv'
<1> USE DEF EnqueueFails, Goto, Ptr, shared, Unlocked
<1>0. TypeOK'
  BY NoNodeAssumption DEF IInv, TypeOK, TailPtrs, Nodes, Labels, Waiting, Handing, Frames
<1>1. QueueOK'
  BY DEF IInv, TypeOK, QueueOK, InQueue, Waiting, Handing, TailPtrs
<1>2. LinksOK'
  BY Shape DEF IInv, TypeOK, LinksOK, Linked, QueueOK, InQueue, Waiting, Handing
<1>3. HeadOK'
  BY Shape DEF IInv, TypeOK, HeadOK, Handing
<1>4. HandingOK'
  BY Shape DEF IInv, TypeOK, HandingOK, Handing
<1>5. FreshOK'
  BY DEF IInv, TypeOK, FreshOK
<1>6. TakeOK'
  BY Shape DEF IInv, TypeOK, TakeOK, TailPtrs, Waiting, MutualExclusion, Holds
<1>7. MutualExclusion'
  BY DEF IInv, TypeOK, MutualExclusion, Holds, Handing, TailPtrs
<1> QED BY <1>0, <1>1, <1>2, <1>3, <1>4, <1>5, <1>6, <1>7 DEF IInv

LEMMA TryTopKeeps ==
  ASSUME IInv, NEW t \in Threads, TryTop(t)
  PROVE  IInv'
<1> USE DEF TryTop, Return, NoFrame, Goto, Ptr, shared, Unlocked
<1>8. tail.node = NoNode /\ tail.tag = 0
  BY DEF IInv, FreshOK
<1>0. TypeOK'
  BY NoNodeAssumption DEF IInv, TypeOK, TailPtrs, Nodes, Labels, Waiting, Handing, Frames
<1>1. QueueOK'
  BY <1>8 DEF IInv, TypeOK, QueueOK, InQueue, Waiting, Handing, TailPtrs
<1>2. LinksOK'
  BY <1>8, Shape DEF IInv, TypeOK, LinksOK, Linked, QueueOK, InQueue, Waiting, Handing
<1>3. HeadOK'
  BY Shape DEF IInv, TypeOK, HeadOK, Handing
<1>4. HandingOK'
  BY Shape DEF IInv, TypeOK, HandingOK, Handing
<1>5. FreshOK'
  BY <1>8 DEF IInv, TypeOK, FreshOK
<1>6. TakeOK'
  BY <1>8, Shape DEF IInv, TypeOK, TakeOK, TailPtrs, Waiting, MutualExclusion, Holds
<1>7. MutualExclusion'
  BY <1>8 DEF IInv, TypeOK, MutualExclusion, Holds, Handing, TailPtrs
<1> QED BY <1>0, <1>1, <1>2, <1>3, <1>4, <1>5, <1>6, <1>7 DEF IInv

LEMMA TryTopFailsKeeps ==
  ASSUME IInv, NEW t \in Threads, TryTopFails(t)
  PROVE  IInv'
<1> USE DEF TryTopFails, Goto, Ptr, shared, Unlocked
<1>0. TypeOK'
  BY NoNodeAssumption DEF IInv, TypeOK, TailPtrs, Nodes, Labels, Waiting, Handing, Frames
<1>1. QueueOK'
  BY DEF IInv, TypeOK, QueueOK, InQueue, Waiting, Handing, TailPtrs
<1>2. LinksOK'
  BY Shape DEF IInv, TypeOK, LinksOK, Linked, QueueOK, InQueue, Waiting, Handing
<1>3. HeadOK'
  BY Shape DEF IInv, TypeOK, HeadOK, Handing
<1>4. HandingOK'
  BY Shape DEF IInv, TypeOK, HandingOK, Handing
<1>5. FreshOK'
  BY DEF IInv, TypeOK, FreshOK
<1>6. TakeOK'
  BY Shape DEF IInv, TypeOK, TakeOK, TailPtrs, Waiting, MutualExclusion, Holds
<1>7. MutualExclusion'
  BY DEF IInv, TypeOK, MutualExclusion, Holds, Handing, TailPtrs
<1> QED BY <1>0, <1>1, <1>2, <1>3, <1>4, <1>5, <1>6, <1>7 DEF IInv

LEMMA LinkKeeps ==
  ASSUME IInv, NEW t \in Threads, Link(t)
  PROVE  IInv'
<1> USE DEF Link, Goto, Ptr, shared, Unlocked
<1>0. TypeOK'
  BY NoNodeAssumption DEF IInv, TypeOK, TailPtrs, Nodes, Labels, Waiting, Handing, Frames
<1>1. QueueOK'
  BY DEF IInv, TypeOK, QueueOK, InQueue, Waiting, Handing, TailPtrs
<1>2. LinksOK'
  <2>1. PICK k \in 1 .. Len(queue) - 1 :
          queue[k] = frame[t].oldTail.node /\ queue[k + 1] = t
    BY LinkTarget
  <2>2. k \in 1 .. Len(queue) /\ k + 1 \in 1 .. Len(queue)
    BY Shape
  <2>3. ASSUME NEW m \in 1 .. Len(queue) - 1
        PROVE  Linked(queue[m], queue[m + 1])' /\ ~ready'[queue[m + 1]]
    <3>1. /\ m \in 1 .. Len(queue) /\ m + 1 \in 1 .. Len(queue)
          /\ queue[m] \in Threads /\ queue[m + 1] \in Threads
      BY Shape
    <3>2. Linked(queue[m], queue[m + 1]) /\ ~ready[queue[m + 1]]
      BY DEF IInv, LinksOK
    <3>3. CASE m = k
      BY <2>1, <2>2, <3>1, <3>2, <3>3 DEF Linked, IInv, TypeOK
    <3>4. CASE m # k
      <4>1. queue[m] # queue[k] /\ queue[m + 1] # t
        BY <2>1, <2>2, <3>1, <3>4, Shape DEF IInv, QueueOK
      <4> QED BY <2>1, <3>1, <3>2, <4>1 DEF Linked, IInv, TypeOK
    <3> QED BY <3>3, <3>4
  <2>4. queue # <<>> => next'[queue[Len(queue)]] = NoNode
    <3> SUFFICES ASSUME queue # <<>> PROVE next'[queue[Len(queue)]] = NoNode
      OBVIOUS
    <3>1. Len(queue) \in 1 .. Len(queue) /\ k # Len(queue)
      BY <2>1, Shape
    <3>2. queue[Len(queue)] # queue[k]
      BY <2>2, <3>1, Shape DEF IInv, QueueOK
    <3> QED BY <2>1, <3>1, <3>2, Shape DEF IInv, LinksOK, TypeOK
  <2> QED BY <2>3, <2>4 DEF LinksOK, Linked
<1>3. HeadOK'
  BY Shape DEF IInv, TypeOK, HeadOK, Handing
<1>4. HandingOK'
  BY Shape DEF IInv, TypeOK, HandingOK, Handing
<1>5. FreshOK'
  <2>1. PICK p \in Threads : p = frame[t].oldTail.node /\ InQueue(p)
    BY LinkTarget, Shape DEF InQueue
  <2>2. pc[p] \in Waiting \cup Handing
    BY <2>1 DEF IInv, QueueOK
  <2> QED BY <2>1, <2>2 DEF IInv, TypeOK, FreshOK, Waiting, Handing
<1>6. TakeOK'
  BY Shape DEF IInv, TypeOK, TakeOK, TailPtrs, Waiting, MutualExclusion, Holds
<1>7. MutualExclusion'
  BY DEF IInv, TypeOK, MutualExclusion, Holds, Handing, TailPtrs
<1> QED BY <1>0, <1>1, <1>2, <1>3, <1>4, <1>5, <1>6, <1>7 DEF IInv

LEMMA AwaitReadyKeeps ==
  ASSUME IInv, NEW t \in Threads, AwaitReady(t)
  PROVE  IInv'
<1> USE DEF AwaitReady, Goto, Ptr, shared, Unlocked
<1>0. TypeOK'
  BY NoNodeAssumption DEF IInv, TypeOK, TailPtrs, Nodes, Labels, Waiting, Handing, Frames
<1>1. QueueOK'
  BY DEF IInv, TypeOK, QueueOK, InQueue, Waiting, Handing, TailPtrs
<1>2. LinksOK'
  BY Shape DEF IInv, TypeOK, LinksOK, Linked, QueueOK, InQueue, Waiting, Handing
<1>3. HeadOK'
  BY Shape DEF IInv, TypeOK, HeadOK, Handing
<1>4. HandingOK'
  BY Shape DEF IInv, TypeOK, HandingOK, Handing
<1>5. FreshOK'
  BY DEF IInv, TypeOK, FreshOK
<1>6. TakeOK'
  BY Shape DEF IInv, TypeOK, TakeOK, TailPtrs, Waiting, MutualExclusion, Holds
<1>7. MutualExclusion'
  BY DEF IInv, TypeOK, MutualExclusion, Holds, Handing, TailPtrs
<1> QED BY <1>0, <1>1, <1>2, <1>3, <1>4, <1>5, <1>6, <1>7 DEF IInv

LEMMA AwaitFreeKeeps ==
  ASSUME IInv, NEW t \in Threads, AwaitFree(t)
  PROVE  IInv'
<1> USE DEF AwaitFree, Goto, Ptr, shared, Unlocked
<1>0. TypeOK'
  BY NoNodeAssumption DEF IInv, TypeOK, TailPtrs, Nodes, Labels, Waiting, Handing, Frames
<1>1. QueueOK'
  BY DEF IInv, TypeOK, QueueOK, InQueue, Waiting, Handing, TailPtrs
<1>2. LinksOK'
  BY Shape DEF IInv, TypeOK, LinksOK, Linked, QueueOK, InQueue, Waiting, Handing
<1>3. HeadOK'
  BY Shape DEF IInv, TypeOK, HeadOK, Handing
<1>4. HandingOK'
  BY Shape DEF IInv, TypeOK, HandingOK, Handing
<1>5. FreshOK'
  BY DEF IInv, TypeOK, FreshOK
<1>6. TakeOK'
  BY Shape DEF IInv, TypeOK, TakeOK, TailPtrs, Waiting, MutualExclusion, Holds
<1>7. MutualExclusion'
  BY DEF IInv, TypeOK, MutualExclusion, Holds, Handing, TailPtrs
<1> QED BY <1>0, <1>1, <1>2, <1>3, <1>4, <1>5, <1>6, <1>7 DEF IInv

LEMMA TakeFailsKeeps ==
  ASSUME IInv, NEW t \in Threads, TakeFails(t)
  PROVE  IInv'
<1> USE DEF TakeFails, Goto, Ptr, shared, Unlocked
<1>0. TypeOK'
  BY NoNodeAssumption DEF IInv, TypeOK, TailPtrs, Nodes, Labels, Waiting, Handing, Frames
<1>1. QueueOK'
  BY DEF IInv, TypeOK, QueueOK, InQueue, Waiting, Handing, TailPtrs
<1>2. LinksOK'
  BY Shape DEF IInv, TypeOK, LinksOK, Linked, QueueOK, InQueue, Waiting, Handing
<1>3. HeadOK'
  BY Shape DEF IInv, TypeOK, HeadOK, Handing
<1>4. HandingOK'
  BY Shape DEF IInv, TypeOK, HandingOK, Handing
<1>5. FreshOK'
  BY DEF IInv, TypeOK, FreshOK
<1>6. TakeOK'
  BY Shape DEF IInv, TypeOK, TakeOK, TailPtrs, Waiting, MutualExclusion, Holds
<1>7. MutualExclusion'
  BY DEF IInv, TypeOK, MutualExclusion, Holds, Handing, TailPtrs
<1> QED BY <1>0, <1>1, <1>2, <1>3, <1>4, <1>5, <1>6, <1>7 DEF IInv

LEMMA AwaitNextKeeps ==
  ASSUME IInv, NEW t \in Threads, AwaitNext(t)
  PROVE  IInv'
<1> USE DEF AwaitNext, Goto, Ptr, shared, Unlocked
<1>0. TypeOK'
  BY NoNodeAssumption DEF IInv, TypeOK, TailPtrs, Nodes, Labels, Waiting, Handing, Frames
<1>1. QueueOK'
  BY DEF IInv, TypeOK, QueueOK, InQueue, Waiting, Handing, TailPtrs
<1>2. LinksOK'
  BY Shape DEF IInv, TypeOK, LinksOK, Linked, QueueOK, InQueue, Waiting, Handing
<1>3. HeadOK'
  BY Shape DEF IInv, TypeOK, HeadOK, Handing
<1>4. HandingOK'
  <2>1. Len(queue) > 1 /\ queue[1] = t
    BY Shape DEF IInv, HandingOK, Handing
  <2>2. Linked(t, queue[2])
    <3>1. 1 \in 1 .. Len(queue) - 1 /\ 1 + 1 = 2
      BY <2>1, Shape
    <3> QED BY <2>1, <3>1 DEF IInv, LinksOK
  <2>3. next[t] = queue[2] /\ pc[queue[2]] = "awaitReady"
    BY <2>2 DEF Linked
  <2>4. \A u \in Threads : pc[u] = "handOver" => u = t
    BY <2>1, Shape DEF Handing
  <2> QED BY <2>1, <2>3, <2>4 DEF IInv, TypeOK, HandingOK, Handing
<1>5. FreshOK'
  BY DEF IInv, TypeOK, FreshOK
<1>6. TakeOK'
  BY Shape DEF IInv, TypeOK, TakeOK, TailPtrs, Waiting, MutualExclusion, Holds
<1>7. MutualExclusion'
  BY DEF IInv, TypeOK, MutualExclusion, Holds, Handing, TailPtrs
<1> QED BY <1>0, <1>1, <1>2, <1>3, <1>4, <1>5, <1>6, <1>7 DEF IInv

LEMMA UnlockKeeps ==
  ASSUME IInv, NEW t \in Threads, Unlock(t)
  PROVE  IInv'
<1> USE DEF Unlock, Goto, Ptr, shared, Unlocked
<1>0. TypeOK'
  BY NoNodeAssumption DEF IInv, TypeOK, TailPtrs, Nodes, Labels, Waiting, Handing, Frames
<1>1. QueueOK'
  BY DEF IInv, TypeOK, QueueOK, InQueue, Waiting, Handing, TailPtrs
<1>2. LinksOK'
  BY Shape DEF IInv, TypeOK, LinksOK, Linked, QueueOK, InQueue, Waiting, Handing
<1>3. HeadOK'
  BY Shape DEF IInv, TypeOK, HeadOK, Handing
<1>4. HandingOK'
  BY Shape DEF IInv, TypeOK, HandingOK, Handing
<1>5. FreshOK'
  BY DEF IInv, TypeOK, FreshOK
<1>6. TakeOK'
  BY Shape DEF IInv, TypeOK, TakeOK, TailPtrs, Waiting, MutualExclusion, Holds
<1>7. MutualExclusion'
  BY DEF IInv, TypeOK, MutualExclusion, Holds, Handing, TailPtrs
<1> QED BY <1>0, <1>1, <1>2, <1>3, <1>4, <1>5, <1>6, <1>7 DEF IInv

LEMMA EnqueueKeeps ==
  ASSUME IInv, NEW t \in Threads, Enqueue(t)
  PROVE  IInv'
<1> USE DEF Enqueue, Goto, Ptr
<1>1. TypeOK'
  BY NoNodeAssumption DEF IInv, TypeOK, TailPtrs, Nodes, Labels, Waiting, Handing
<1>2. /\ Len(queue') = Len(queue) + 1 /\ Len(queue) \in Nat
      /\ queue'[Len(queue) + 1] = t
      /\ \A n \in 1 .. Len(queue) : queue'[n] = queue[n] /\ queue[n] \in Threads
      /\ queue' # <<>>
  BY DEF IInv, TypeOK
<1>3. \A n \in 1 .. Len(queue) : queue[n] # t
  BY DEF IInv, QueueOK, InQueue, Waiting, Handing
<1>4. IF queue = <<>>
      THEN tail.node = NoNode /\ pc' = [pc EXCEPT ![t] = "awaitFree"]
      ELSE /\ tail.node = queue[Len(queue)] /\ queue[Len(queue)] \in Threads
           /\ frame[t].oldTail.node = queue[Len(queue)]
           /\ pc' = [pc EXCEPT ![t] = "link"]
  <2>1. tail = frame[t].oldTail
    OBVIOUS
  <2>2. CASE queue = <<>>
    BY <2>1, <2>2 DEF IInv, QueueOK
  <2>3. CASE queue # <<>>
    <3>1. Len(queue) \in 1 .. Len(queue)
      BY <2>3, Shape
    <3>2. tail.node = queue[Len(queue)] /\ queue[Len(queue)] \in Threads
      BY <2>3, <3>1, Shape DEF IInv, QueueOK
    <3> QED BY <2>1, <2>3, <3>2, NoNodeAssumption
  <2> QED BY <2>2, <2>3
<1>5. QueueOK'
  <2>1. \A u \in Threads : InQueue(u)' <=> InQueue(u) \/ u = t
    BY <1>2 DEF InQueue
  <2>2. \A u \in Threads : pc'[u] \in Waiting \cup Handing <=> InQueue(u)'
    BY <1>4, <2>1 DEF IInv, TypeOK, QueueOK, Waiting, Handing
  <2>3. \A m, n \in 1 .. Len(queue') : queue'[m] = queue'[n] => m = n
    BY <1>2, <1>3 DEF IInv, QueueOK
  <2>4. tail'.node = IF queue' = <<>> THEN NoNode ELSE queue'[Len(queue')]
    BY <1>2 DEF IInv, TypeOK
  <2> QED BY <2>2, <2>3, <2>4 DEF QueueOK, InQueue
<1>6. LinksOK'
  <2>1. ASSUME NEW n \in 1 .. Len(queue') - 1
        PROVE  (Linked(queue[n], queue[n + 1]) /\ ~ready[queue[n + 1]])'
    <3>1. CASE n = Len(queue)
      <4>1. queue # <<>> /\ queue'[n] = queue[Len(queue)] /\ queue'[n + 1] = t
        BY <1>2, <3>1
      <4>2. next[queue[Len(queue)]] = NoNode /\ ~ready[t]
        BY <4>1 DEF IInv, LinksOK, FreshOK
      <4> QED BY <1>4, <4>1, <4>2 DEF Linked, IInv, TypeOK
    <3>2. CASE n # Len(queue)
      <4>1. n \in 1 .. Len(queue) - 1 /\ n + 1 \in 1 .. Len(queue)
        BY <1>2, <3>2
      <4>2. queue'[n] = queue[n] /\ queue'[n + 1] = queue[n + 1]
        BY <1>2, <4>1
      <4>3. Linked(queue[n], queue[n + 1]) /\ ~ready[queue[n + 1]]
        BY <4>1 DEF IInv, LinksOK
      <4>4. pc'[queue[n + 1]] = pc[queue[n + 1]]
        BY <1>3, <4>1 DEF IInv, TypeOK
      <4> QED BY <4>2, <4>3, <4>4 DEF Linked
    <3> QED BY <3>1, <3>2
  <2>2. next'[queue'[Len(queue')]] = NoNode
    BY <1>2 DEF IInv, FreshOK
  <2> QED BY <2>1, <2>2 DEF LinksOK, Linked
<1>7. HeadOK'
  BY <1>2, <1>3, <1>4 DEF IInv, TypeOK, HeadOK, Handing
<1>8. HandingOK'
  BY <1>2, <1>3, <1>4 DEF IInv, TypeOK, HandingOK, Handing
<1>9. FreshOK' /\ TakeOK'
  BY <1>4 DEF IInv, TypeOK, FreshOK, TakeOK
<1>10. MutualExclusion'
  BY <1>4 DEF IInv, TypeOK, MutualExclusion, Holds, Handing, TailPtrs
<1> QED BY <1>1, <1>5, <1>6, <1>7, <1>8, <1>9, <1>10 DEF IInv

(* With nobody behind it the head leaves the queue empty. *)
LEMMA TakeLockKeeps ==
  ASSUME IInv, NEW t \in Threads, TakeLock(t)
  PROVE  IInv'
<1> USE DEF TakeLock, Goto, Ptr, Return, NoFrame, Unlocked
<1>1. /\ queue # <<>> /\ queue[1] = t /\ tail.node = queue[Len(queue)]
      /\ Len(queue) \in Nat /\ tail.tag = 0 /\ tail = frame[t].curTail
  BY Shape DEF IInv, QueueOK, TakeOK
<1>2. TypeOK'
  <2>1. /\ tail' \in TailPtrs /\ frame' \in [Threads -> Frames]
        /\ pc' \in [Threads -> Labels]
    BY NoNodeAssumption
       DEF IInv, TypeOK, TailPtrs, Nodes, Labels, Waiting, Handing, Frames
  <2>2. Tail(queue) \in Seq(Threads)
    BY <1>1 DEF IInv, TypeOK
  <2> QED BY <2>1, <2>2 DEF IInv, TypeOK
<1>3. /\ tail'.tag = 1 /\ \A u \in Threads : ~Holds(u) /\ (Holds(u)' <=> u = t)
      /\ \A u \in Threads : pc'[u] = "take" => FALSE
  <2>1. \A u \in Threads : ~Holds(u)
    BY <1>1 DEF IInv, MutualExclusion
  <2>2. \A u \in Threads : pc[u] = "take" => u = t
    BY <1>1, Shape
  <2> QED BY <2>1, <2>2 DEF Holds, Handing, IInv, TypeOK
<1>4. MutualExclusion' /\ TakeOK' /\ FreshOK'
  BY <1>3 DEF IInv, TypeOK, MutualExclusion, TakeOK, FreshOK
<1>5. CASE tail.node # t
  <2>1. UNCHANGED <<frame, queue, next, ready>> /\ Len(queue) > 1
        /\ pc' = [pc EXCEPT ![t] = "awaitNext"] /\ tail'.node = tail.node
    BY <1>1, <1>5
  <2>2. \A n \in 2 .. Len(queue) : queue[n] # t
    BY <1>1 DEF IInv, QueueOK
  <2>3. QueueOK'
    BY <2>1 DEF IInv, TypeOK, QueueOK, InQueue, Waiting, Handing
  <2>4. LinksOK'
    <3>1. ASSUME NEW n \in 1 .. Len(queue) - 1
          PROVE  (Linked(queue[n], queue[n + 1]) /\ ~ready[queue[n + 1]])'
      <4>1. Linked(queue[n], queue[n + 1]) /\ ~ready[queue[n + 1]]
        BY DEF IInv, LinksOK
      <4>2. n + 1 \in 2 .. Len(queue) /\ queue[n + 1] # t
        BY <1>1, <2>2
      <4> QED BY <2>1, <4>1, <4>2 DEF Linked, IInv, TypeOK
    <3> QED BY <2>1, <3>1 DEF IInv, LinksOK, Linked
  <2>5. HeadOK' /\ HandingOK'
    BY <1>1, <1>3, <2>1, <2>2
       DEF IInv, TypeOK, HeadOK, HandingOK, Handing, Holds
  <2> QED BY <1>2, <1>4, <2>3, <2>4, <2>5 DEF IInv
<1>6. CASE tail.node = t
  <2>1. Len(queue) = 1 /\ queue' = <<>> /\ Len(queue') = 0
    <3>1. Len(queue) \in 1 .. Len(queue) /\ 1 \in 1 .. Len(queue)
      BY <1>1, Shape
    <3>2. Len(queue) = 1
      BY <1>1, <1>6, <3>1 DEF IInv, QueueOK
    <3>3. queue' = Tail(queue)
      BY <1>1, <1>6
    <3> QED BY <3>2, <3>3 DEF IInv, TypeOK
  <2>2. pc' = [pc EXCEPT ![t] = "locked"] /\ tail'.node = NoNode
    BY <1>1, <1>6
  <2>3. QueueOK'
    BY <1>1, <2>1, <2>2 DEF IInv, TypeOK, QueueOK, InQueue, Waiting, Handing
  <2>4. LinksOK' /\ HeadOK' /\ HandingOK'
    BY <1>3, <2>1, <2>2 DEF IInv, TypeOK, LinksOK, HeadOK, HandingOK, Holds, Handing
  <2> QED BY <1>2, <1>4, <2>3, <2>4 DEF IInv
<1> QED BY <1>5, <1>6

LEMMA HandOverKeeps ==
  ASSUME IInv, NEW t \in Threads, HandOver(t)
  PROVE  IInv'
<1> USE DEF HandOver, Goto, Return, NoFrame, Unlocked, Ptr
<1>1. /\ Len(queue) \in Nat /\ Len(queue) > 1 /\ queue[1] = t
      /\ frame[t].next = queue[2] /\ pc[queue[2]] = "awaitReady"
      /\ queue[2] \in Threads
  BY Shape DEF IInv, HandingOK, Handing
<1>2. /\ Len(queue') = Len(queue) - 1 /\ queue' # <<>>
      /\ \A n \in 1 .. Len(queue') : queue'[n] = queue[n + 1]
  <2>1. queue \in Seq(Threads) /\ queue # <<>> /\ queue' = Tail(queue)
    BY <1>1 DEF IInv, TypeOK
  <2>2. /\ Len(queue') = Len(queue) - 1
        /\ \A n \in 1 .. Len(queue) - 1 : Tail(queue)[n] = queue[n + 1]
    BY <2>1
  <2>3. queue' # <<>>
    <3>1. Len(queue') # 0
      BY <1>1, <2>2
    <3>2. queue' = <<>> => Len(queue') = 0
      OBVIOUS
    <3> QED BY <3>1, <3>2, Zenon
  <2>4. \A n \in 1 .. Len(queue') : n \in 1 .. Len(queue) - 1
    BY <1>1, <2>2
  <2> QED BY <2>1, <2>2, <2>3, <2>4
<1>3. TypeOK'
  BY <1>1, NoNodeAssumption
     DEF IInv, TypeOK, TailPtrs, Nodes, Labels, Waiting, Handing, Frames
<1>4. \A m \in 2 .. Len(queue) : queue[m] # t
  BY <1>1 DEF IInv, QueueOK
<1>5. QueueOK'
  <2>1. \A u \in Threads : InQueue(u)' <=> InQueue(u) /\ u # t
    <3> TAKE u \in Threads
    <3>1. ASSUME InQueue(u)' PROVE InQueue(u) /\ u # t
      <4>1. PICK n \in 1 .. Len(queue') : queue'[n] = u
        BY <3>1 DEF InQueue
      <4>2. n + 1 \in 2 .. Len(queue) /\ queue[n + 1] = u
        BY <1>1, <1>2, <4>1
      <4> QED BY <1>1, <1>4, <4>2 DEF InQueue
    <3>2. ASSUME InQueue(u), u # t PROVE InQueue(u)'
      <4>1. PICK n \in 1 .. Len(queue) : queue[n] = u
        BY <3>2 DEF InQueue
      <4>2. n - 1 \in 1 .. Len(queue') /\ queue'[n - 1] = u
        BY <1>1, <1>2, <3>2, <4>1
      <4> QED BY <4>2 DEF InQueue
    <3> QED BY <3>1, <3>2
  <2>2. \A u \in Threads : pc'[u] \in Waiting \cup Handing <=> InQueue(u)'
    BY <2>1 DEF IInv, TypeOK, QueueOK, Waiting, Handing
  <2>3. \A m, n \in 1 .. Len(queue') : queue'[m] = queue'[n] => m = n
    BY <1>1, <1>2 DEF IInv, QueueOK
  <2>4. tail'.node = IF queue' = <<>> THEN NoNode ELSE queue'[Len(queue')]
    BY <1>1, <1>2 DEF IInv, QueueOK
  <2> QED BY <2>2, <2>3, <2>4 DEF QueueOK, InQueue
<1>6. LinksOK'
  <2>1. ASSUME NEW n \in 1 .. Len(queue') - 1
        PROVE  (Linked(queue[n], queue[n + 1]) /\ ~ready[queue[n + 1]])'
    <3>1. /\ n + 1 \in 1 .. Len(queue) - 1 /\ n + 2 \in 3 .. Len(queue)
          /\ queue'[n] = queue[n + 1] /\ queue'[n + 1] = queue[n + 2]
      BY <1>1, <1>2
    <3>2. Linked(queue[n + 1], queue[n + 2]) /\ ~ready[queue[n + 2]]
      <4>1. (n + 1) + 1 = n + 2
        OBVIOUS
      <4> QED BY <3>1, <4>1 DEF IInv, LinksOK
    <3>3. queue[n + 2] # t /\ queue[n + 2] # queue[2]
      BY <1>1, <1>4, <3>1 DEF IInv, QueueOK
    <3> QED BY <1>1, <3>1, <3>2, <3>3 DEF Linked, IInv, TypeOK
  <2>2. next'[queue'[Len(queue')]] = NoNode
    BY <1>1, <1>2 DEF IInv, LinksOK
  <2> QED BY <2>1, <2>2 DEF LinksOK, Linked
<1>7. HeadOK'
  <2>1. queue'[1] = queue[2] /\ queue[2] # t
    BY <1>1, <1>2, <1>4
  <2> QED BY <1>1, <2>1 DEF IInv, TypeOK, HeadOK
<1>8. \A u \in Threads : pc'[u] \notin Handing /\ (Holds(u)' <=> Holds(u))
  <2>1. \A u \in Threads : pc[u] \in Handing => u = t
    BY <1>1, Shape
  <2> QED BY <2>1 DEF IInv, TypeOK, Holds, Handing
<1>9. HandingOK' /\ MutualExclusion'
  BY <1>8 DEF IInv, HandingOK, MutualExclusion, Handing
<1>10. FreshOK' /\ TakeOK'
  BY <1>1 DEF IInv, TypeOK, FreshOK, TakeOK
<1> QED BY <1>3, <1>5, <1>6, <1>7, <1>9, <1>10 DEF IInv

----------------------------------------------------------------------------

(* The queue, its links and the tag agree in every state. *)
THEOREM Invariance == Spec => []IInv
<1>1. Init => IInv
  <2> SUFFICES ASSUME Init PROVE IInv
    OBVIOUS
  <2> USE DEF Init, Unlocked, Ptr, NoFrame
  <2>1. TypeOK
    BY DEF TypeOK, TailPtrs, Nodes, Labels, Frames
  <2>2. QueueOK /\ LinksOK /\ HeadOK
    BY DEF QueueOK, InQueue, LinksOK, HeadOK, Waiting, Handing
  <2>3. HandingOK /\ FreshOK /\ TakeOK
    BY DEF HandingOK, FreshOK, TakeOK, Handing
  <2>4. MutualExclusion
    BY DEF MutualExclusion, Holds, Handing
  <2> QED BY <2>1, <2>2, <2>3, <2>4 DEF IInv
<1>2. IInv /\ [Next]_vars => IInv'
  <2> SUFFICES ASSUME IInv, [Next]_vars PROVE IInv'
    OBVIOUS
  <2>1. ASSUME NEW t \in Threads, LockFast(t) \/ LockSlow(t) PROVE IInv'
    BY <2>1, LockFastKeeps, LockSlowKeeps
  <2>2. ASSUME NEW t \in Threads, Step(t) PROVE IInv'
    BY <2>2, EnqueueKeeps, EnqueueFailsKeeps, TryTopKeeps, TryTopFailsKeeps,
       LinkKeeps, AwaitReadyKeeps, AwaitFreeKeeps, TakeLockKeeps, TakeFailsKeeps,
       AwaitNextKeeps, HandOverKeeps, UnlockKeeps
       DEF Step
  <2>3. CASE UNCHANGED vars
    BY <2>3 DEF vars, shared, IInv, TypeOK, QueueOK, InQueue, LinksOK, Linked,
                HeadOK, HandingOK, FreshOK, TakeOK, MutualExclusion, Holds
  <2> QED BY <2>1, <2>2, <2>3 DEF Next
<1> QED BY <1>1, <1>2, PTL DEF Spec

(* Two threads never hold the lock together. *)
THEOREM LockExcludes == Spec => []MutualExclusion
<1>1. IInv => MutualExclusion
  BY DEF IInv
<1> QED BY <1>1, Invariance, PTL

(* The two assertions of step four never fail. *)
THEOREM AssertionsHold == Spec => []AssertsHold
<1>1. IInv => AssertsHold
  BY DEF IInv, TakeOK, AssertsHold
<1> QED BY <1>1, Invariance, PTL

(* No thread writes into a node that has left the queue, even if it came   *)
(* back at the same address.                                               *)
THEOREM NodesStayAlive == Spec => []NodesAlive
<1>1. IInv => NodesAlive
  <2> SUFFICES ASSUME IInv PROVE NodesAlive
    OBVIOUS
  <2>1. ASSUME NEW t \in Threads, pc[t] = "handOver"
        PROVE  /\ Len(queue) > 1 /\ queue[1] = t /\ queue[2] = frame[t].next
               /\ pc[queue[2]] = "awaitReady" /\ ~ready[queue[2]]
    <3>1. /\ Len(queue) > 1 /\ queue[1] = t /\ queue[2] = frame[t].next
          /\ pc[queue[2]] = "awaitReady"
      BY <2>1, Shape DEF IInv, HandingOK, Handing
    <3>2. 1 \in 1 .. Len(queue) - 1 /\ 1 + 1 = 2
      BY <3>1, Shape
    <3> QED BY <3>1, <3>2 DEF IInv, LinksOK
  <2> QED BY <2>1, LinkTarget DEF NodesAlive
<1> QED BY <1>1, Invariance, PTL

----------------------------------------------------------------------------

(* What the users of the lock see, in terms of the threads. *)
ViewOK ==
  /\ \A t \in Threads : Holds(t) => Holder = t
  /\ (\A t \in Threads : ~Holds(t)) => Holder = NoNode
  /\ (\E t \in Threads : pc[t] \in Handing) => InLine = Tail(queue)
  /\ (\A t \in Threads : pc[t] \notin Handing) => InLine = queue

LEMMA View == IInv => ViewOK
<1> SUFFICES ASSUME IInv PROVE ViewOK
  OBVIOUS
<1>1. ASSUME NEW t \in Threads, Holds(t) PROVE Holder = t
  BY <1>1 DEF IInv, MutualExclusion, Holder
<1>2. ASSUME \A t \in Threads : ~Holds(t) PROVE Holder = NoNode
  BY <1>2 DEF Holder
<1>3. ASSUME NEW t \in Threads, pc[t] \in Handing PROVE InLine = Tail(queue)
  BY <1>3, Shape DEF InLine
<1>4. ASSUME \A t \in Threads : pc[t] \notin Handing PROVE InLine = queue
  <2>1. queue # <<>> => queue[1] \in Threads
    BY Shape
  <2> QED BY <1>4, <2>1 DEF InLine
<1> QED BY <1>1, <1>2, <1>3, <1>4 DEF ViewOK

(* A lock word that is all free has no queue and no holder. *)
LEMMA FreeWord ==
  ASSUME IInv, ViewOK, tail = Unlocked
  PROVE  /\ Holder = NoNode /\ InLine = <<>> /\ queue = <<>>
         /\ \A t \in Threads : pc[t] \notin Waiting \cup Handing \cup {"locked"}
<1>1. tail.node = NoNode /\ tail.tag = 0
  BY DEF Unlocked, Ptr
<1>2. \A t \in Threads : pc[t] \notin Waiting \cup Handing
  BY <1>1, Shape
<1>3. \A t \in Threads : ~Holds(t)
  <2>1. tail.tag # 1
    BY <1>1
  <2> QED BY <2>1, Zenon DEF IInv, MutualExclusion
<1>4. queue = <<>>
  <2> SUFFICES ASSUME queue # <<>> PROVE FALSE
    OBVIOUS
  <2>1. Len(queue) \in 1 .. Len(queue)
    BY Shape
  <2>2. queue[Len(queue)] \in Threads /\ queue[Len(queue)] = NoNode
    BY <1>1, <2>1, Shape DEF IInv, QueueOK
  <2> QED BY <2>2, NoNodeAssumption
<1> QED BY <1>2, <1>3, <1>4 DEF ViewOK, Holds

LEMMA TakeAtOnceStep ==
  ASSUME IInv, ViewOK, ViewOK', NEW t \in Threads, LockFast(t) \/ TryTop(t)
  PROVE  Fair!TakeAtOnce(t)
<1>1. tail = Unlocked
  BY DEF LockFast, TryTop, IInv, FreshOK
<1>2. pc' = [pc EXCEPT ![t] = "locked"] /\ queue' = queue
  BY DEF LockFast, TryTop, Return, Goto
<1>3. /\ Holds(t)' /\ \A u \in Threads : pc'[u] \notin Handing
  BY <1>1, <1>2, FreeWord DEF Holds, IInv, TypeOK, Handing
<1>4. Holder' = t /\ InLine' = <<>>
  BY <1>1, <1>2, <1>3, FreeWord DEF ViewOK
<1> QED BY <1>1, <1>4, FreeWord DEF Fair!TakeAtOnce

LEMMA JoinLineStep ==
  ASSUME IInv, ViewOK, ViewOK', NEW t \in Threads, Enqueue(t)
  PROVE  Fair!JoinLine(t)
<1>1. /\ pc[t] = "enqueue" /\ queue' = Append(queue, t)
      /\ pc' = [pc EXCEPT ![t] = "link"] \/ pc' = [pc EXCEPT ![t] = "awaitFree"]
  BY DEF Enqueue, Goto
<1>2. \A u \in Threads : /\ Holds(u)' <=> Holds(u)
                         /\ pc'[u] \in Handing <=> pc[u] \in Handing
  BY <1>1 DEF Holds, Handing, IInv, TypeOK
<1>3. Holder' = Holder /\ Holder # t
  <2>1. CASE \E u \in Threads : Holds(u)
    BY <1>1, <1>2, <2>1 DEF ViewOK, Holds, Handing
  <2>2. CASE \A u \in Threads : ~Holds(u)
    BY <1>2, <2>2, NoNodeAssumption DEF ViewOK
  <2> QED BY <2>1, <2>2
<1>4. \A n \in 1 .. Len(queue) : queue[n] # t
  BY <1>1 DEF IInv, QueueOK, InQueue, Waiting, Handing
<1>5. InLine' = Append(InLine, t) /\ \A n \in 1 .. Len(InLine) : InLine[n] # t
  <2>1. CASE \E u \in Threads : pc[u] \in Handing
    <3>1. InLine = Tail(queue) /\ InLine' = Tail(queue')
      BY <1>2, <2>1 DEF ViewOK
    <3>2. queue \in Seq(Threads) /\ queue # <<>>
      BY <2>1, Shape DEF IInv, TypeOK
    <3>3. Tail(Append(queue, t)) = Append(Tail(queue), t)
      BY <3>2
    <3>4. \A n \in 1 .. Len(Tail(queue)) :
            n + 1 \in 1 .. Len(queue) /\ Tail(queue)[n] = queue[n + 1]
      BY <3>2
    <3> QED BY <1>1, <1>4, <3>1, <3>3, <3>4
  <2>2. CASE \A u \in Threads : pc[u] \notin Handing
    BY <1>1, <1>2, <1>4, <2>2 DEF ViewOK
  <2> QED BY <2>1, <2>2
<1> QED BY <1>3, <1>5 DEF Fair!JoinLine

LEMMA ServeNextStep ==
  ASSUME IInv, ViewOK, ViewOK', NEW t \in Threads, TakeLock(t)
  PROVE  Fair!ServeNext
<1>1. /\ queue # <<>> /\ queue[1] = t /\ pc[t] = "take" /\ tail.tag = 0
      /\ queue \in Seq(Threads)
  BY Shape DEF TakeLock, IInv, TakeOK, TypeOK
<1>2. \A u \in Threads : ~Holds(u) /\ pc[u] \notin Handing
  BY <1>1 DEF IInv, MutualExclusion, Holds
<1>3. Holder = NoNode /\ InLine = queue
  BY <1>2 DEF ViewOK
<1>4. \/ pc' = [pc EXCEPT ![t] = "awaitNext"] /\ queue' = queue
      \/ pc' = [pc EXCEPT ![t] = "locked"] /\ queue' = Tail(queue)
  BY DEF TakeLock, Goto, Return
<1>5. Holder' = t
  BY <1>4 DEF Holds, Handing, ViewOK, IInv, TypeOK
<1>6. InLine' = Tail(queue)
  <2>1. CASE pc' = [pc EXCEPT ![t] = "awaitNext"] /\ queue' = queue
    BY <2>1 DEF ViewOK, Handing, IInv, TypeOK
  <2>2. CASE pc' = [pc EXCEPT ![t] = "locked"] /\ queue' = Tail(queue)
    BY <1>2, <2>2 DEF ViewOK, Handing, IInv, TypeOK
  <2> QED BY <1>4, <2>1, <2>2
<1> QED BY <1>1, <1>3, <1>5, <1>6 DEF Fair!ServeNext

LEMMA ReleaseStep ==
  ASSUME IInv, ViewOK, ViewOK', NEW t \in Threads, Unlock(t)
  PROVE  Fair!Release
<1>1. pc[t] = "locked" /\ pc' = [pc EXCEPT ![t] = "idle"] /\ queue' = queue
  BY DEF Unlock, Goto
<1>2. Holds(t) /\ \A u \in Threads : Holds(u) => u = t
  BY <1>1 DEF IInv, MutualExclusion, Holds
<1>3. \A u \in Threads : pc[u] \notin Handing /\ pc'[u] \notin Handing /\ ~Holds(u)'
  BY <1>1, <1>2 DEF Holds, Handing, IInv, TypeOK
<1> QED BY <1>1, <1>2, <1>3, NoNodeAssumption DEF ViewOK, Fair!Release

(* The other steps change nothing for the users. *)
LEMMA InnerStep ==
  ASSUME IInv, ViewOK, ViewOK', NEW t \in Threads,
         \/ LockSlow(t) \/ EnqueueFails(t) \/ TryTopFails(t) \/ Link(t)
         \/ AwaitReady(t) \/ AwaitFree(t) \/ TakeFails(t) \/ AwaitNext(t)
         \/ HandOver(t)
  PROVE  UNCHANGED Fair!vars
<1>1. \A u \in Threads : Holds(u)' <=> Holds(u)
  BY DEF LockSlow, EnqueueFails, TryTopFails, Link, AwaitReady, AwaitFree,
         TakeFails, AwaitNext, HandOver, Goto, Return, Holds, Handing, IInv, TypeOK
<1>2. Holder' = Holder
  BY <1>1 DEF ViewOK
<1>3. InLine' = InLine
  <2>1. CASE HandOver(t)
    <3>1. pc[t] \in Handing /\ queue' = Tail(queue) /\ pc' = [pc EXCEPT ![t] = "locked"]
      BY <2>1 DEF HandOver, Return, Goto, Handing
    <3>2. \A u \in Threads : pc'[u] \notin Handing
      <4>1. \A u \in Threads : pc[u] \in Handing => u = t
        BY <3>1 DEF IInv, MutualExclusion, Holds
      <4> QED BY <3>1, <4>1 DEF Handing, IInv, TypeOK
    <3> QED BY <3>1, <3>2 DEF ViewOK
  <2>2. CASE ~HandOver(t)
    <3>1. queue' = queue
      BY <2>2 DEF LockSlow, EnqueueFails, TryTopFails, Link, AwaitReady, AwaitFree,
                  TakeFails, AwaitNext
    <3>2. \A u \in Threads : pc'[u] \in Handing <=> pc[u] \in Handing
      BY <2>2 DEF LockSlow, EnqueueFails, TryTopFails, Link, AwaitReady, AwaitFree,
                  TakeFails, AwaitNext, Goto, Handing, IInv, TypeOK
    <3> QED BY <3>1, <3>2 DEF ViewOK
  <2> QED BY <2>1, <2>2
<1> QED BY <1>2, <1>3 DEF Fair!vars

(* The spin lock implements the fair lock's safety: whatever threads do,   *)
(* they get the lock in the order in which they entered the queue, and     *)
(* nobody who finds a queue passes it.                                     *)
THEOREM FirstComeFirstServed == Spec => Fair!SafetySpec
<1>1. Init => Fair!Init
  <2> SUFFICES ASSUME Init PROVE Fair!Init
    OBVIOUS
  <2>1. queue = <<>> /\ \A t \in Threads : ~Holds(t)
    BY DEF Init, Holds, Handing
  <2> QED BY <2>1 DEF Holder, InLine, Fair!Init
<1>2. IInv /\ ViewOK /\ ViewOK' /\ [Next]_vars => [Fair!Next]_(Fair!vars)
  <2> SUFFICES ASSUME IInv, ViewOK, ViewOK', [Next]_vars
               PROVE  [Fair!Next]_(Fair!vars)
    OBVIOUS
  <2>1. ASSUME NEW t \in Threads, LockFast(t) \/ LockSlow(t) \/ Step(t)
        PROVE  Fair!Next \/ UNCHANGED Fair!vars
    <3>1. CASE LockFast(t) \/ TryTop(t)
      BY <3>1, TakeAtOnceStep DEF Fair!Next
    <3>2. CASE Enqueue(t)
      BY <3>2, JoinLineStep DEF Fair!Next
    <3>3. CASE TakeLock(t)
      BY <3>3, ServeNextStep DEF Fair!Next
    <3>4. CASE Unlock(t)
      BY <3>4, ReleaseStep DEF Fair!Next
    <3>5. CASE \/ LockSlow(t) \/ EnqueueFails(t) \/ TryTopFails(t) \/ Link(t)
               \/ AwaitReady(t) \/ AwaitFree(t) \/ TakeFails(t) \/ AwaitNext(t)
               \/ HandOver(t)
      BY <3>5, InnerStep
    <3> QED BY <2>1, <3>1, <3>2, <3>3, <3>4, <3>5 DEF Step
  <2>2. CASE UNCHANGED vars
    BY <2>2 DEF vars, shared, Fair!vars, Holder, InLine, Holds
  <2> QED BY <2>1, <2>2 DEF Next
<1> QED BY <1>1, <1>2, Invariance, View, PTL DEF Spec, Fair!SafetySpec

=============================================================================
