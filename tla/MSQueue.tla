------------------------------ MODULE MSQueue ------------------------------
(***************************************************************************)
(* The queues of Michael and Scott with generation pointers                *)
(* (ms_queue_sc2.hpp), which share one free list.  Each thread performs    *)
(* the operations of its script.  Each action is one access to shared      *)
(* memory; the steps of enqueueNode are named Enq..., those of dequeue     *)
(* Deq....                                                                 *)
(***************************************************************************)
EXTENDS GenStack

CONSTANTS Queues,
          Scripts   \* functions from threads to sequences of Operations

(* A dequeue has no value. *)
Operations == [op : {"enq", "deq"}, q : Queues, v : Nat]

ASSUME DummiesAssumption ==
  \E d \in [Queues -> Nodes] : \A p, q \in Queues : p # q => d[p] # d[q]
ASSUME ScriptsAssumption ==
  \A s \in Scripts : s \in [Threads -> Seq(Operations)]

VARIABLES
  next,     \* MSQueueNode::next_ of each node
  data,     \* MSQueueNode::data_ of each node
  head,     \* head_ of each queue
  tail,     \* tail_ of each queue
  script,   \* the operations each thread has still to do
  got,      \* history variables: the values each thread dequeued,
  wasEmpty  \* the queue was empty when the thread read the head's next_

queues  == <<next, data, head, tail>>
history == <<got, wasEmpty>>
client  == <<script, history>>
vars    == <<stack, pc, frame, queues, client>>

Doing(t) == Head(script[t])
Queue(t) == Doing(t).q
Starts(t, op) == pc[t] = "idle" /\ script[t] # <<>> /\ Doing(t).op = op
Return(t) == script' = [script EXCEPT ![t] = Tail(@)]
Set(t, field, value) == frame' = [frame EXCEPT ![t][field] = value]

(* The values in the nodes after the dummy node. *)
NextNode == [n \in Nodes |-> next[n].ptr]
QueueNodes(q) == Chain(NextNode, head[q].ptr)
Items == [q \in Queues |-> [k \in 1 .. Len(QueueNodes(q)) - 1 |->
                              data[QueueNodes(q)[k + 1]]]]

(* Each queue was constructed, with a dummy node. *)
Init ==
  /\ \E dummy \in [Queues -> Nodes] :
       /\ dummy = CHOOSE d \in [Queues -> Nodes] :
                    \A p, q \in Queues : p # q => d[p] # d[q]
       /\ StackInit({dummy[q] : q \in Queues})
       /\ head = [q \in Queues |-> PtrTo(dummy[q], 0)]
       /\ next = [n \in Nodes |-> IF n \in fresh THEN NullPtr ELSE Inc(NullPtr, Null)]
  /\ tail = head
  /\ data = [n \in Nodes |-> 0]
  /\ pc = [t \in Threads |-> "idle"]
  /\ script \in Scripts
  /\ got = [t \in Threads |-> <<>>]
  /\ wasEmpty = [t \in Threads |-> FALSE]

-----------------------------------------------------------------------------
(* enqueue: allocate a node, fill it, clear its next_, link it. *)
Alloc(t) == Starts(t, "enq") /\ PopRead(t) /\ UNCHANGED <<queues, client>>

AllocStep(t) ==
  /\ PopLook(t) \/ PopNew(t) \/ PopCas(t) \/ PopRetry(t)
  /\ UNCHANGED <<queues, client>>

Fill(t) ==
  /\ pc[t] = "fill"
  /\ data' = [data EXCEPT ![frame[t].node] = Doing(t).v]
  /\ Goto(t, "loadNext")
  /\ UNCHANGED <<stack, frame, next, head, tail, client>>

EnqLoadNext(t) ==
  /\ pc[t] = "loadNext"
  /\ Set(t, "next", next[frame[t].node])
  /\ Goto(t, "storeNext")
  /\ UNCHANGED <<stack, queues, client>>

EnqStoreNext(t) ==
  /\ pc[t] = "storeNext"
  /\ next' = [next EXCEPT ![frame[t].node] = Inc(frame[t].next, Null)]
  /\ Goto(t, "enqTail")
  /\ UNCHANGED <<stack, frame, data, head, tail, client>>

EnqTail(t) ==
  /\ pc[t] = "enqTail"
  /\ Set(t, "tail", tail[Queue(t)])
  /\ Goto(t, "enqNext")
  /\ UNCHANGED <<stack, queues, client>>

EnqNext(t) ==
  /\ pc[t] = "enqNext"
  /\ Set(t, "next", next[frame[t].tail.ptr])
  /\ Goto(t, "enqCheck")
  /\ UNCHANGED <<stack, queues, client>>

EnqCheckNothing(t) ==  \* mutant: the tail is not read again
  /\ pc[t] = "enqCheck"
  /\ Goto(t, IF frame[t].next.ptr = Null THEN "enqCas" ELSE "enqSwing")
  /\ UNCHANGED <<stack, frame, queues, client>>

EnqCheck(t) ==
  /\ pc[t] = "enqCheck"
  /\ Goto(t, IF tail[Queue(t)] # frame[t].tail THEN "enqTail"
             ELSE IF frame[t].next.ptr = Null THEN "enqCas"
             ELSE "enqSwing")
  /\ UNCHANGED <<stack, frame, queues, client>>

EnqCas(t) ==
  /\ pc[t] = "enqCas"
  /\ next[frame[t].tail.ptr] = frame[t].next
  /\ next' = [next EXCEPT ![frame[t].tail.ptr] = Inc(@, frame[t].node)]
  /\ Goto(t, "enqFinish")
  /\ UNCHANGED <<stack, frame, data, head, tail, client>>

EnqRetry(t) ==
  /\ pc[t] = "enqCas"
  /\ Goto(t, "enqTail")
  /\ UNCHANGED <<stack, frame, queues, client>>

SwingTail(t, n) ==
  tail' = IF tail[Queue(t)] = frame[t].tail
          THEN [tail EXCEPT ![Queue(t)] = Inc(@, n)] ELSE tail

EnqSwing(t) ==
  /\ pc[t] = "enqSwing"
  /\ SwingTail(t, frame[t].next.ptr)
  /\ Goto(t, "enqTail")
  /\ UNCHANGED <<stack, frame, next, data, head, client>>

EnqFinish(t) ==
  /\ pc[t] = "enqFinish"
  /\ SwingTail(t, frame[t].node)
  /\ Return(t)
  /\ Goto(t, "idle")
  /\ UNCHANGED <<stack, frame, next, data, head, history>>

-----------------------------------------------------------------------------
(* dequeue; the node that was the dummy goes to the free list. *)
DeqHead(t) ==
  /\ Starts(t, "deq") \/ pc[t] = "deqHead"
  /\ frame' = [frame EXCEPT ![t] = [NoFrame EXCEPT !.head = head[Queue(t)]]]
  /\ Goto(t, "deqTail")
  /\ UNCHANGED <<stack, queues, client>>

DeqTail(t) ==
  /\ pc[t] = "deqTail"
  /\ Set(t, "tail", tail[Queue(t)])
  /\ Goto(t, "deqNext")
  /\ UNCHANGED <<stack, queues, client>>

DeqNext(t) ==
  /\ pc[t] = "deqNext"
  /\ Set(t, "next", next[frame[t].head.ptr])
  /\ wasEmpty' = [wasEmpty EXCEPT ![t] = Items[Queue(t)] = <<>>]
  /\ Goto(t, "deqCheck")
  /\ UNCHANGED <<stack, queues, script, got>>

DeqCheckTail(t) ==  \* mutant: empty if the head is the tail
  /\ pc[t] = "deqCheck"
  /\ Goto(t, IF head[Queue(t)] # frame[t].head THEN "deqHead"
             ELSE IF frame[t].head # frame[t].tail THEN "deqData"
             ELSE "empty")
  /\ UNCHANGED <<stack, frame, queues, client>>

DeqCheck(t) ==
  /\ pc[t] = "deqCheck"
  /\ Goto(t, IF head[Queue(t)] # frame[t].head THEN "deqHead"
             ELSE IF frame[t].head # frame[t].tail THEN "deqData"
             ELSE IF frame[t].next.ptr = Null THEN "empty"
             ELSE "deqSwing")
  /\ UNCHANGED <<stack, frame, queues, client>>

DeqEmpty(t) ==
  /\ pc[t] = "empty"
  /\ Return(t)
  /\ Goto(t, "idle")
  /\ wasEmpty' = [wasEmpty EXCEPT ![t] = FALSE]
  /\ UNCHANGED <<stack, frame, queues, got>>

DeqSwing(t) ==
  /\ pc[t] = "deqSwing"
  /\ SwingTail(t, frame[t].next.ptr)
  /\ Goto(t, "deqHead")
  /\ UNCHANGED <<stack, frame, next, data, head, client>>

DeqData(t) ==
  /\ pc[t] = "deqData"
  /\ Set(t, "data", data[frame[t].next.ptr])
  /\ Goto(t, "deqCas")
  /\ UNCHANGED <<stack, queues, client>>

DeqCas(t) ==
  /\ pc[t] = "deqCas"
  /\ head[Queue(t)] = frame[t].head
  /\ head' = [head EXCEPT ![Queue(t)] = Inc(@, frame[t].next.ptr)]
  /\ Set(t, "node", frame[t].head.ptr)
  /\ got' = [got EXCEPT ![t] = Append(@, frame[t].data)]
  /\ wasEmpty' = [wasEmpty EXCEPT ![t] = FALSE]
  /\ Goto(t, "push")
  /\ UNCHANGED <<stack, next, data, tail, script>>

DeqRetry(t) ==
  /\ pc[t] = "deqCas"
  /\ Goto(t, "deqHead")
  /\ UNCHANGED <<stack, frame, queues, client>>

Free(t) ==
  /\ PushRead(t) \/ PushLink(t) \/ PushRetry(t)
  /\ UNCHANGED <<queues, client>>

Freed(t) == PushCas(t) /\ Return(t) /\ UNCHANGED <<queues, history>>

-----------------------------------------------------------------------------
Step(t) ==
  \/ Alloc(t) \/ AllocStep(t) \/ Fill(t) \/ EnqLoadNext(t) \/ EnqStoreNext(t)
  \/ EnqTail(t) \/ EnqNext(t) \/ EnqCheck(t) \/ EnqCas(t) \/ EnqRetry(t)
  \/ EnqSwing(t) \/ EnqFinish(t)
  \/ DeqHead(t) \/ DeqTail(t) \/ DeqNext(t) \/ DeqCheck(t) \/ DeqEmpty(t)
  \/ DeqSwing(t) \/ DeqData(t) \/ DeqCas(t) \/ DeqRetry(t) \/ Free(t) \/ Freed(t)

Next == \E t \in Threads : Step(t)

Spec == Init /\ [][Next]_vars

(* Threads run, and a weak compare-and-exchange that would succeed does not *)
(* fail for ever.                                                           *)
Cas(t) == \/ EnqCas(t) \/ DeqCas(t) \/ Freed(t)
          \/ PopCas(t) /\ UNCHANGED <<queues, client>>
Fairness == \A t \in Threads : WF_vars(Step(t)) /\ SF_vars(Cas(t))
FairSpec == Spec /\ Fairness

-----------------------------------------------------------------------------
(* The calls that have not taken effect: the link of an enqueue and the    *)
(* new head of a dequeue are their effects, and they return later.         *)
Pending(t) ==
  IF pc[t] \in {"enqFinish", "push", "pushLink", "pushCas"}
  THEN Tail(script[t]) ELSE script[t]

(* The queues are queues: each call takes effect once, at one step, on the *)
(* queue it was made on.  A value leaves in turn, once, as it was put in,  *)
(* although its node may be in use again before it is read; a thread that  *)
(* is late with its link appends to the queue it meant, or tries again,    *)
(* though the node it found last be the last of another queue by then; and *)
(* a dequeue finds nothing only in a queue that was empty meanwhile.       *)
Abstract == INSTANCE Fifo WITH
  items <- Items, calls <- [t \in Threads |-> Pending(t)]
ImplementsFifo == Abstract!Spec

(* dequeue finds nothing only if there was an instant with nothing in the  *)
(* queue, however far the tail had fallen behind.                          *)
EmptyOnlyIfEmpty == \A t \in Threads : pc[t] = "empty" => wasEmpty[t]

(* Every node is in one place: new, free, in one queue, or in the hands of *)
(* one thread; a free list that lost track would give it out twice.        *)
OwnNode(t) ==
  IF pc[t] \in {"fill", "loadNext", "storeNext", "enqTail", "enqNext", "enqCheck",
                "enqCas", "enqSwing", "push", "pushLink", "pushCas"}
  THEN <<frame[t].node>> ELSE <<>>
Places == {<<"free", FreeNodes>>}
            \cup {<<q, QueueNodes(q)>> : q \in Queues}
            \cup {<<t, OwnNode(t)>> : t \in Threads}
NodesOnce ==
  \A n \in Nodes :
    Cardinality({pk \in Places \X (1 .. Cardinality(Nodes) + 1) :
                   pk[2] \in DOMAIN pk[1][2] /\ pk[1][2][pk[2]] = n})
      = IF n \in fresh THEN 0 ELSE 1

(* Every operation ends. *)
OperationsFinish == <>(\A t \in Threads : script[t] = <<>>)
=============================================================================
