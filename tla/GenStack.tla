------------------------------ MODULE GenStack ------------------------------
(***************************************************************************)
(* The free list of queue nodes (freelist_shared.hpp), a stack whose head  *)
(* is a pointer with a generation (unsafe_tstack_gen_sc.hpp, gen_ptr.hpp). *)
(* A node that was allocated once is reused, never returned to the system, *)
(* so a thread that is late may look into a node that is in use again.     *)
(* Each action is one access to shared memory by one thread; what happens  *)
(* to the node is the business of the module that extends this one.        *)
(***************************************************************************)
EXTENDS Naturals, Sequences, FiniteSets

CONSTANTS Threads, Nodes, Null

ASSUME NodesAssumption == IsFiniteSet(Nodes) /\ Null \notin Nodes

VARIABLES
  top,       \* head_ of the stack
  below,     \* TStackNode::next_ of each node
  fresh,     \* nodes that were never allocated
  pc, frame  \* where each thread is, and its locals

stack == <<top, below, fresh>>

PtrTo(n, gen) == [ptr |-> n, gen |-> gen]

(* gen_ptr::inc and update *)
IncPtrOnly(old, n) == PtrTo(n, old.gen)  \* mutant: the generation stays
Inc(old, n) == PtrTo(n, old.gen + 1)

Goto(t, label) == pc' = [pc EXCEPT ![t] = label]
NullPtr == PtrTo(Null, 0)
NoFrame == [old |-> NullPtr, under |-> Null, node |-> Null,
            head |-> NullPtr, tail |-> NullPtr, next |-> NullPtr, data |-> 0]

StackInit(used) ==
  /\ top = NullPtr
  /\ below = [n \in Nodes |-> Null]
  /\ fresh = Nodes \ used
  /\ frame = [t \in Threads |-> NoFrame]

-----------------------------------------------------------------------------
(* alloc, popNode: the thread takes the node at the top, or a new one. *)
PopRead(t) ==
  /\ frame' = [frame EXCEPT ![t] = [NoFrame EXCEPT !.old = top]]
  /\ Goto(t, "popLook")
  /\ UNCHANGED stack

PopLook(t) ==
  /\ pc[t] = "popLook"
  /\ frame[t].old.ptr # Null
  /\ frame' = [frame EXCEPT ![t].under = below[frame[t].old.ptr]]
  /\ Goto(t, "popCas")
  /\ UNCHANGED stack

PopNew(t) ==
  /\ pc[t] = "popLook"
  /\ frame[t].old.ptr = Null
  /\ fresh # {}  \* Nodes bounds the memory
  /\ LET n == CHOOSE n \in fresh : TRUE IN
       /\ fresh' = fresh \ {n}
       /\ frame' = [frame EXCEPT ![t].node = n]
  /\ Goto(t, "fill")
  /\ UNCHANGED <<top, below>>

PopCas(t) ==
  /\ pc[t] = "popCas"
  /\ top = frame[t].old
  /\ top' = Inc(frame[t].old, frame[t].under)
  /\ frame' = [frame EXCEPT ![t].node = frame[t].old.ptr]
  /\ Goto(t, "fill")
  /\ UNCHANGED <<below, fresh>>

PopRetryStale(t) ==  \* mutant: the expected head is not read again
  /\ pc[t] = "popCas"
  /\ Goto(t, "popLook")
  /\ UNCHANGED <<stack, frame>>

(* A weak compare-and-exchange may fail although nothing changed. *)
PopRetry(t) ==
  /\ pc[t] = "popCas"
  /\ frame' = [frame EXCEPT ![t].old = top]
  /\ Goto(t, "popLook")
  /\ UNCHANGED stack

-----------------------------------------------------------------------------
(* unlinked, pushNode: the node frame[t].node goes back. *)
PushRead(t) ==
  /\ pc[t] = "push"
  /\ frame' = [frame EXCEPT ![t].old = top]
  /\ Goto(t, "pushLink")
  /\ UNCHANGED stack

PushLink(t) ==
  /\ pc[t] = "pushLink"
  /\ below' = [below EXCEPT ![frame[t].node] = frame[t].old.ptr]
  /\ Goto(t, "pushCas")
  /\ UNCHANGED <<top, fresh, frame>>

PushCas(t) ==
  /\ pc[t] = "pushCas"
  /\ top = frame[t].old
  /\ top' = Inc(frame[t].old, frame[t].node)
  /\ Goto(t, "idle")
  /\ UNCHANGED <<below, fresh, frame>>

PushRetry(t) ==
  /\ pc[t] = "pushCas"
  /\ frame' = [frame EXCEPT ![t].old = top]
  /\ Goto(t, "pushLink")
  /\ UNCHANGED stack

-----------------------------------------------------------------------------
(* The nodes from n along a link, in order; a circle shows as a repetition. *)
Chain(link, n) ==
  LET at[k \in 0 .. Cardinality(Nodes)] ==
        IF k = 0 THEN n
        ELSE IF at[k - 1] = Null THEN Null ELSE link[at[k - 1]]
  IN  [k \in {j \in 1 .. Cardinality(Nodes) + 1 : at[j - 1] # Null} |-> at[k - 1]]

FreeNodes == Chain(below, top.ptr)
=============================================================================
