----------------------------- MODULE QSpinLock -----------------------------
(***************************************************************************)
(* The queue-based spin lock of qspinlock_sc.hpp.  The lock is one word,   *)
(* tail: the last node of the queue of waiting threads, and a tag that     *)
(* says that somebody holds the lock.  Each thread waits on a node of its  *)
(* own, which lives on its stack while it is in slowpathLock; a node is    *)
(* named by its thread, so the node of a later call is at the address of   *)
(* an earlier one.  Each action is one access to shared memory; a turn of  *)
(* a spin loop that changes nothing is a stutter.                          *)
(***************************************************************************)
EXTENDS Naturals, Sequences

CONSTANTS Threads,    \* threads that use the lock
          NoNode      \* the null pointer

ASSUME NoNodeAssumption == NoNode \notin Threads

Nodes == Threads \cup {NoNode}

Ptr(node, tag) == [node |-> node, tag |-> tag]
TailPtrs == [node : Nodes, tag : {0, 1}]
Unlocked == Ptr(NoNode, 0)

VARIABLES
  tail,      \* tail_
  next,      \* Node::next, of the node of each thread
  ready,     \* Node::ready
  pc,        \* where in lock() a thread is: "idle" outside, "locked" after
  frame,     \* locals of slowpathLock: oldTail, curTail, next of step five
  queue      \* history variable: the nodes in use, in the order their
             \* threads swung the tail; the code has it only as links

shared == <<tail, next, ready>>
vars == <<shared, pc, frame, queue>>

Goto(t, label) == pc' = [pc EXCEPT ![t] = label]

NoFrame == [oldTail |-> Unlocked, curTail |-> Unlocked, next |-> NoNode]
Frames == [oldTail : TailPtrs, curTail : TailPtrs, next : Nodes]

(* lock() returns: its locals are gone. *)
Return(t) ==
  /\ Goto(t, "locked")
  /\ frame' = [frame EXCEPT ![t] = NoFrame]

Init ==
  /\ tail = Unlocked
  /\ next = [t \in Threads |-> NoNode]
  /\ ready = [t \in Threads |-> FALSE]
  /\ pc = [t \in Threads |-> "idle"]
  /\ frame = [t \in Threads |-> NoFrame]
  /\ queue = <<>>

LockFastOfTag(t) ==  \* mutant: the fast path looks at the tag only
  /\ pc[t] = "idle"
  /\ tail.tag = 0
  /\ tail' = Ptr(tail.node, 1)
  /\ Return(t)
  /\ UNCHANGED <<next, ready, queue>>

(* lock(): take the word if it is all free, or enter slowpathLock, whose   *)
(* first act is to construct the node.                                     *)
LockFast(t) ==
  /\ pc[t] = "idle"
  /\ tail = Unlocked
  /\ tail' = Ptr(NoNode, 1)
  /\ Return(t)
  /\ UNCHANGED <<next, ready, queue>>

LockSlow(t) ==
  /\ pc[t] = "idle"
  /\ tail # Unlocked
  /\ frame' = [frame EXCEPT ![t].oldTail = tail]
  /\ next' = [next EXCEPT ![t] = NoNode]
  /\ ready' = [ready EXCEPT ![t] = FALSE]
  /\ Goto(t, "enqueue")
  /\ UNCHANGED <<tail, queue>>

EnqueueUntagged(t) ==  \* mutant: the tag of the old tail is lost
  LET oldTail == frame[t].oldTail IN
  /\ pc[t] = "enqueue"
  /\ tail = oldTail
  /\ tail' = Ptr(t, 0)
  /\ queue' = Append(queue, t)
  /\ Goto(t, IF oldTail.node # NoNode THEN "link" ELSE "awaitFree")
  /\ UNCHANGED <<next, ready, frame>>

(* Step one: put ourselves at the back of the queue.  A failed             *)
(* compare_exchange loads the word it found.                               *)
Enqueue(t) ==
  LET oldTail == frame[t].oldTail IN
  /\ pc[t] = "enqueue"
  /\ tail = oldTail
  /\ tail' = Ptr(t, oldTail.tag)
  /\ queue' = Append(queue, t)
  /\ Goto(t, IF oldTail.node # NoNode THEN "link" ELSE "awaitFree")
  /\ UNCHANGED <<next, ready, frame>>

EnqueueFails(t) ==
  /\ pc[t] = "enqueue"
  /\ tail # frame[t].oldTail
  /\ frame' = [frame EXCEPT ![t].oldTail = tail]
  /\ Goto(t, IF tail = Unlocked THEN "tryTop" ELSE "enqueue")
  /\ UNCHANGED <<shared, queue>>

(* Maybe the whole thing is just unlocked now: try the top level lock. *)
TryTop(t) ==
  /\ pc[t] = "tryTop"
  /\ tail = frame[t].oldTail
  /\ tail' = Ptr(NoNode, 1)
  /\ Return(t)
  /\ UNCHANGED <<next, ready, queue>>

TryTopFails(t) ==
  /\ pc[t] = "tryTop"
  /\ tail # frame[t].oldTail
  /\ frame' = [frame EXCEPT ![t].oldTail = tail]
  /\ Goto(t, "enqueue")
  /\ UNCHANGED <<shared, queue>>

(* Step two: link up with the old tail and wait to be the head. *)
Link(t) ==
  /\ pc[t] = "link"
  /\ next' = [next EXCEPT ![frame[t].oldTail.node] = t]
  /\ Goto(t, "awaitReady")
  /\ UNCHANGED <<tail, ready, frame, queue>>

AwaitReady(t) ==
  /\ pc[t] = "awaitReady"
  /\ ready[t]
  /\ Goto(t, "awaitFree")
  /\ UNCHANGED <<shared, frame, queue>>

(* Step three: wait until the lock is freed. *)
AwaitFree(t) ==
  /\ pc[t] = "awaitFree"
  /\ tail.tag = 0
  /\ frame' = [frame EXCEPT ![t].curTail = tail]
  /\ Goto(t, "take")
  /\ UNCHANGED <<shared, queue>>

(* Step four: take the lock.  The last thread in the queue leaves it empty *)
(* and returns.                                                            *)
TakeLock(t) ==
  LET curTail    == frame[t].curTail
      newThreads == curTail.node # t
  IN
  /\ pc[t] = "take"
  /\ tail = curTail
  /\ tail' = Ptr(IF newThreads THEN curTail.node ELSE NoNode, 1)
  /\ IF newThreads
     THEN Goto(t, "awaitNext") /\ UNCHANGED <<frame, queue>>
     ELSE Return(t) /\ queue' = Tail(queue)
  /\ UNCHANGED <<next, ready>>

TakeFails(t) ==
  /\ pc[t] = "take"
  /\ tail # frame[t].curTail
  /\ frame' = [frame EXCEPT ![t].curTail = tail]
  /\ UNCHANGED <<shared, pc, queue>>

AwaitNextOnce(t) ==  \* mutant: it returns if the next has not linked up yet
  /\ pc[t] = "awaitNext"
  /\ IF next[t] # NoNode
     THEN /\ frame' = [frame EXCEPT ![t].next = next[t]]
          /\ Goto(t, "handOver") /\ UNCHANGED queue
     ELSE Return(t) /\ queue' = Tail(queue)
  /\ UNCHANGED shared

(* Step five: wait for the next thread to have written itself in, and tell *)
(* it that it is at the head.                                              *)
AwaitNext(t) ==
  /\ pc[t] = "awaitNext"
  /\ next[t] # NoNode
  /\ frame' = [frame EXCEPT ![t].next = next[t]]
  /\ Goto(t, "handOver")
  /\ UNCHANGED <<shared, queue>>

HandOverUnmarked(t) ==  \* mutant: the next is not told
  /\ pc[t] = "handOver"
  /\ queue' = Tail(queue)
  /\ Return(t)
  /\ UNCHANGED shared

HandOver(t) ==
  /\ pc[t] = "handOver"
  /\ ready' = [ready EXCEPT ![frame[t].next] = TRUE]
  /\ queue' = Tail(queue)
  /\ Return(t)
  /\ UNCHANGED <<tail, next>>

(* unlock(): clearTag, by a fetch_and. *)
Unlock(t) ==
  /\ pc[t] = "locked"
  /\ tail' = [tail EXCEPT !.tag = 0]
  /\ Goto(t, "idle")
  /\ UNCHANGED <<next, ready, frame, queue>>

(* What a thread does once it has called lock(). *)
Step(t) ==
  \/ Enqueue(t) \/ EnqueueFails(t) \/ TryTop(t) \/ TryTopFails(t)
  \/ Link(t) \/ AwaitReady(t)
  \/ AwaitFree(t) \/ TakeLock(t) \/ TakeFails(t)
  \/ AwaitNext(t) \/ HandOver(t)
  \/ Unlock(t)

Next == \E t \in Threads : LockFast(t) \/ LockSlow(t) \/ Step(t)

Spec == Init /\ [][Next]_vars

(* Every thread that is in lock() or holds the lock gets to run. *)
FairSpec == Spec /\ \A t \in Threads : WF_vars(Step(t))

----------------------------------------------------------------------------

Waiting == {"link", "awaitReady", "awaitFree", "take"}
Handing == {"awaitNext", "handOver"}
Labels == {"idle", "enqueue", "tryTop", "locked"} \cup Waiting \cup Handing

TypeOK ==
  /\ tail \in TailPtrs
  /\ next \in [Threads -> Nodes]
  /\ ready \in [Threads -> BOOLEAN]
  /\ pc \in [Threads -> Labels]
  /\ frame \in [Threads -> Frames]
  /\ queue \in Seq(Threads)

Holds(t) == pc[t] \in Handing \cup {"locked"}

(* One thread at a time has the lock, from the compare_exchange that takes *)
(* it (fast path, step one or step four) to the clearTag of unlock, and    *)
(* the tag says whether one has.                                           *)
MutualExclusion ==
  /\ \A t, u \in Threads : Holds(t) /\ Holds(u) => t = u
  /\ tail.tag = 1 <=> \E t \in Threads : Holds(t)

(* The assertions of step four: the word read last is unlocked, and        *)
(* somebody is in the queue.  Nobody else can have taken the lock between  *)
(* step three and a failed compare_exchange.                               *)
AssertsHold ==
  \A t \in Threads : pc[t] = "take" =>
    frame[t].curTail.tag = 0 /\ frame[t].curTail.node # NoNode

(* Writing into another thread's node is safe: the old tail has not left   *)
(* the queue, and not come back with the same address either, as it is     *)
(* still just before the thread that links up; and the node marked ready   *)
(* is the next in the queue and has been waiting for it.                   *)
NodesAlive ==
  /\ \A t \in Threads : pc[t] = "link" =>
       \E n \in 1 .. Len(queue) - 1 :
         queue[n] = frame[t].oldTail.node /\ queue[n + 1] = t
  /\ \A t \in Threads : pc[t] = "handOver" =>
       /\ Len(queue) > 1 /\ queue[1] = t /\ queue[2] = frame[t].next
       /\ pc[queue[2]] = "awaitReady" /\ ~ready[queue[2]]

(* A thread that got into the queue gets the lock, newcomers and threads   *)
(* that come back notwithstanding.                                         *)
QueuedGetLock ==
  \A t \in Threads : pc[t] \in Waiting ~> pc[t] = "locked"

(* The lock as its users see it.  A thread that has taken the lock and     *)
(* still has to hand over the head of the queue is not in line any more.   *)
InLine == IF queue # <<>> /\ pc[queue[1]] \in Handing
          THEN Tail(queue) ELSE queue
Holder == IF \E t \in Threads : Holds(t)
          THEN CHOOSE t \in Threads : Holds(t) ELSE NoNode

Fair == INSTANCE FairLock
          WITH NoThread <- NoNode, holder <- Holder, line <- InLine

(* The code implements the fair lock: threads get the lock in the order    *)
(* their nodes entered the queue, the fast path never overtakes a queue,   *)
(* and a free lock with threads in line is taken.                          *)
ImplementsFairLock == Fair!Spec
=============================================================================
