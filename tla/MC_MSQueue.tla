----------------------------- MODULE MC_MSQueue -----------------------------
(***************************************************************************)
(* Threads, queues and scripts for the model checker.                      *)
(***************************************************************************)
EXTENDS MSQueue, TLC

CONSTANTS a, b, c, p, q, n1, n2, n3, n4, n5
MCThreads == {a, b, c}
MCQueues == {p, q}
MCNodes == {n1, n2, n3, n4, n5}
Enq(queue, v) == [op |-> "enq", q |-> queue, v |-> v]
Deq(queue) == [op |-> "deq", q |-> queue, v |-> 0]

(* Two enqueue while one dequeues; one is late while another moves a node  *)
(* from a queue to the other, or back to the same; one is late in the free *)
(* list while another takes two nodes and returns the first.               *)
MCScripts ==
  { a :> <<Enq(p, 1)>> @@ b :> <<Enq(p, 2)>> @@ c :> <<Deq(p)>>,
    a :> <<Enq(p, 1), Deq(p), Enq(q, 2)>> @@ b :> <<Enq(p, 3), Deq(q)>> @@ c :> <<>>,
    a :> <<Enq(p, 1), Deq(p), Enq(p, 2)>> @@ b :> <<Deq(p), Deq(p)>> @@ c :> <<>>,
    a :> <<Enq(p, 1), Deq(p)>> @@ b :> <<Enq(p, 2)>> @@ c :> <<Deq(p)>>,
    a :> <<Enq(p, 1), Enq(p, 2), Deq(p), Deq(p), Enq(p, 3), Enq(p, 4), Deq(p), Deq(p)>>
      @@ b :> <<Enq(q, 5)>> @@ c :> <<>> }
=============================================================================
