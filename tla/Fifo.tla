-------------------------------- MODULE Fifo --------------------------------
(***************************************************************************)
(* What the queues of the case studies promise (MSQueue<T>): each thread   *)
(* makes its calls, one after the other, on the queue that the call names. *)
(* A value goes into that queue once, at its end, and leaves it once, from *)
(* its front; a dequeue finds nothing only if its queue was empty at some  *)
(* instant of the call.                                                    *)
(***************************************************************************)
EXTENDS Sequences

CONSTANTS Threads, Queues,
          Scripts   \* functions from threads to sequences of calls

VARIABLES items,     \* what each queue holds
          calls,     \* the calls of each thread that have not taken effect
          wasEmpty,  \* when the thread looked last its queue was empty
          got        \* what each thread dequeued, in order

Init ==
  /\ items = [q \in Queues |-> <<>>]
  /\ calls \in Scripts
  /\ wasEmpty = [t \in Threads |-> FALSE]
  /\ got = [t \in Threads |-> <<>>]

Calls(t, op) == calls[t] # <<>> /\ Head(calls[t]).op = op
Queue(t) == Head(calls[t]).q
TakesEffect(t) == calls' = [calls EXCEPT ![t] = Tail(@)]

Enqueue(t) ==
  /\ Calls(t, "enq")
  /\ items' = [items EXCEPT ![Queue(t)] = Append(@, Head(calls[t]).v)]
  /\ TakesEffect(t)
  /\ UNCHANGED <<wasEmpty, got>>

Dequeue(t) ==
  /\ Calls(t, "deq")
  /\ items[Queue(t)] # <<>>
  /\ got' = [got EXCEPT ![t] = Append(@, Head(items[Queue(t)]))]
  /\ items' = [items EXCEPT ![Queue(t)] = Tail(@)]
  /\ wasEmpty' = [wasEmpty EXCEPT ![t] = FALSE]
  /\ TakesEffect(t)

Look(t) ==
  /\ Calls(t, "deq")
  /\ wasEmpty' = [wasEmpty EXCEPT ![t] = items[Queue(t)] = <<>>]
  /\ UNCHANGED <<items, calls, got>>

FindNothing(t) ==
  /\ Calls(t, "deq")
  /\ wasEmpty[t]
  /\ wasEmpty' = [wasEmpty EXCEPT ![t] = FALSE]
  /\ TakesEffect(t)
  /\ UNCHANGED <<items, got>>

Next == \E t \in Threads : Enqueue(t) \/ Dequeue(t) \/ Look(t) \/ FindNothing(t)

Spec == Init /\ [][Next]_<<items, calls, wasEmpty, got>>
=============================================================================
