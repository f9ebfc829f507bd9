------------------------------ MODULE RingBuf ------------------------------
(***************************************************************************)
(* The ring buffer of ringbuf_sc.hpp, for one producer and one consumer    *)
(* (ringbuf-test.cpp).  front_ and back_ are unsigned integers that count  *)
(* all that was ever taken and put, and wrap around.                       *)
(***************************************************************************)
EXTENDS Naturals, Sequences

CONSTANTS NumElems,   \* numElems
          UIntRange,  \* unsigned arithmetic is modulo this number
          NumValues   \* bound: how many values the producer has

ASSUME RingAssumption ==
  /\ NumElems \in Nat \ {0} /\ NumValues \in Nat
  /\ UIntRange \in Nat /\ UIntRange % NumElems = 0 /\ NumElems < UIntRange

VARIABLES
  buf, front, back,  \* as in the code
  producer,          \* where the producer is,
  frontSeen,         \* and the front_ it read
  consumer,          \* where the consumer is,
  backSeen, taken,   \* the back_ and the value it read
  received           \* history variable: all values that were dequeued

ring == <<buf, front, back>>
ringVars == <<ring, producer, frontSeen, consumer, backSeen, taken, received>>

RingInit ==
  /\ buf = [k \in 0 .. NumElems - 1 |-> 0]
  /\ front = 0 /\ back = 0
  /\ producer = "idle" /\ frontSeen = 0
  /\ consumer = "idle" /\ backSeen = 0 /\ taken = 0
  /\ received = <<>>

(* The values are 1, 2, ... in this order; used is how many back_ counts.  *)
Used == (back + UIntRange - front) % UIntRange
NextValue == Len(received) + Used + 1

FullUnwrapped(f) == back = f + NumElems  \* mutant: back does not wrap around
Full(f) == (back + UIntRange - NumElems) % UIntRange = f

(* enqueue; only the producer writes back_ *)
EnqueueLook ==
  /\ producer = "idle"
  /\ NextValue <= NumValues
  /\ frontSeen' = front
  /\ producer' = IF Full(front) THEN "idle" ELSE "write"
  /\ UNCHANGED <<ring, consumer, backSeen, taken, received>>

EnqueueWrite ==
  /\ producer = "write"
  /\ buf' = [buf EXCEPT ![back % NumElems] = NextValue]
  /\ producer' = "store"
  /\ UNCHANGED <<front, back, frontSeen, consumer, backSeen, taken, received>>

EnqueueStore ==
  /\ producer = "store"
  /\ back' = (back + 1) % UIntRange
  /\ producer' = "idle"
  /\ UNCHANGED <<buf, front, frontSeen, consumer, backSeen, taken, received>>

(* dequeue; only the consumer writes front_ *)
DequeueLook ==
  /\ consumer = "idle"
  /\ backSeen' = back
  /\ consumer' = IF front = back THEN "idle" ELSE "read"
  /\ UNCHANGED <<ring, producer, frontSeen, taken, received>>

DequeueRead ==
  /\ consumer = "read"
  /\ taken' = buf[front % NumElems]
  /\ consumer' = "store"
  /\ UNCHANGED <<ring, producer, frontSeen, backSeen, received>>

DequeueStore ==
  /\ consumer = "store"
  /\ front' = (front + 1) % UIntRange
  /\ received' = Append(received, taken)
  /\ consumer' = "idle"
  /\ UNCHANGED <<buf, back, producer, frontSeen, backSeen, taken>>

RingNext == \/ EnqueueLook \/ EnqueueWrite \/ EnqueueStore
            \/ DequeueLook \/ DequeueRead \/ DequeueStore

-----------------------------------------------------------------------------
(* What is in the buffer, from front_ to back_. *)
Content == [k \in 1 .. Used |-> buf[(front + k - 1) % NumElems]]

(* What the producer has still to put, and the consumer to take.          *)
RingThreads == {"producer", "consumer"}
CallsFrom(put, got) ==
  [t \in RingThreads |->
     IF t = "producer"
     THEN [k \in 1 .. NumValues - put |-> [op |-> "enq", q |-> "ring", v |-> put + k]]
     ELSE [k \in 1 .. NumValues - got |-> [op |-> "deq", q |-> "ring"]]]

(* The buffer is a queue, also when the counters wrap around: no value is  *)
(* overwritten before it is taken, or taken twice.  A dequeue that found   *)
(* nothing is one call with the dequeue that comes next.                   *)
RingFifo == INSTANCE Fifo WITH
  Threads <- RingThreads, Queues <- {"ring"}, Scripts <- {CallsFrom(0, 0)},
  items <- [q \in {"ring"} |-> Content],
  calls <- CallsFrom(Len(received) + Used, Len(received)),
  wasEmpty <- [t \in RingThreads |-> FALSE],
  got <- [t \in RingThreads |-> IF t = "consumer" THEN received ELSE <<>>]
RingIsFifo == RingFifo!Spec
=============================================================================
