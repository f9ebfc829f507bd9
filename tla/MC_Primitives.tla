--------------------------- MODULE MC_Primitives ---------------------------
(***************************************************************************)
(* The primitives that threads meet at, one at a time: the pair behind a   *)
(* lock, the ring buffer, the four slots; and two parkers whose flags      *)
(* share a bucket, with two unparkers, which may be at the same parker.    *)
(***************************************************************************)
EXTENDS SeqLocks, RingBuf, FourSlot, Parking

CONSTANTS t1, t2, t3, Structures
MCThreads == {t1, t2, t3}

Zeros == {[slot |-> [k \in Bit |-> 0], latest |-> 0, reading |-> 0, next |-> 0]}

VARIABLE structure

MCInit ==
  /\ structure \in Structures
  /\ Init /\ RingInit /\ SlotInit /\ ParkInit
  /\ structure # "locks" => kind = CHOOSE k \in Kinds : TRUE

(* The producer has no more values, and the buffer is empty. *)
RingEnds == NextValue > NumValues /\ Used = 0 /\ UNCHANGED ringVars

MCNext ==
  \/ structure = "locks" /\ Next /\ UNCHANGED <<ringVars, slotVars, pkVars>>
  \/ structure = "ring" /\ (RingNext \/ RingEnds) /\ UNCHANGED <<vars, slotVars, pkVars>>
  \/ structure = "slots" /\ SlotNext /\ UNCHANGED <<vars, ringVars, pkVars>>
  \/ structure = "parking" /\ ParkNext /\ UNCHANGED <<vars, ringVars, slotVars>>

(* The fairness of FairSpec and FairParkSpec; nothing is claimed that a     *)
(* sequence lock must reach, so its threads need not go on.                *)
MCSpec ==
  /\ MCInit
  /\ [][MCNext /\ UNCHANGED structure]_<<vars, ringVars, slotVars, pkVars, structure>>
  /\ \A t \in Threads : WF_vars(structure = "locks" /\ kind # "seqlock" /\ Proceed(t))
  /\ \A k \in Parkers : WF_pkVars(structure = "parking" /\ ParkerStep(k))
  /\ \A u \in Unparkers : WF_pkVars(structure = "parking" /\ Unpark(u))
=============================================================================
