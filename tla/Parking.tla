------------------------------ MODULE Parking ------------------------------
(***************************************************************************)
(* Parking of threads (parking.hpp, over futexes): each thread has a flag, *)
(* which unpark raises and park waits for and lowers.  The threads are     *)
(* those of parking-test.cpp, over and over: a parker parks until it is    *)
(* signaled, an unparker signals a parker and then unparks it.  The flag   *)
(* of a parker is the futex of its own name.                               *)
(***************************************************************************)
EXTENDS Futex

CONSTANTS Unparkers, NoParker
Parkers == Sleepers

ASSUME WordsAssumption == Words = Sleepers
ASSUME ParkersAssumption == Parkers \cap Unparkers = {} /\ NoParker \notin Parkers

VARIABLES parker,     \* where each parker is
          unparker,   \* where each unparker is
          target,     \* the argument of its unpark
          signaled    \* what each parker waits for

pkVars == <<val, queue, parker, unparker, target, signaled>>

ParkerAt(k, label) == parker' = [parker EXCEPT ![k] = label]
UnparkerAt(u, label) == unparker' = [unparker EXCEPT ![u] = label]

ParkInit ==
  /\ FutexInit
  /\ parker = [k \in Parkers |-> "check"]
  /\ unparker = [u \in Unparkers |-> "signal"]
  /\ target = [u \in Unparkers |-> NoParker]
  /\ signaled = [k \in Parkers |-> FALSE]

(* while (!signaled) park(); a parker that was signaled starts again. *)
CheckSignaled(k) ==
  /\ parker[k] = "check"
  /\ signaled[k]
  /\ signaled' = [signaled EXCEPT ![k] = FALSE]
  /\ UNCHANGED <<val, queue, parker, unparker, target>>

CheckNotSignaled(k) ==
  /\ parker[k] = "check"
  /\ ~signaled[k]
  /\ ParkerAt(k, "test")
  /\ UNCHANGED <<val, queue, unparker, target, signaled>>

(* park_inner *)
ParkTest(k) ==
  /\ parker[k] = "test"
  /\ ParkerAt(k, IF val[k] = 0 THEN "wait" ELSE "lower")
  /\ UNCHANGED <<val, queue, unparker, target, signaled>>

ParkWait(k) ==
  /\ parker[k] = "wait"
  /\ \/ StartWait(k, k, 0) /\ ParkerAt(k, "asleep")
     \/ NoWait(k, 0) /\ ParkerAt(k, "lower")
  /\ UNCHANGED <<val, unparker, target, signaled>>

ParkSignaled(k) ==
  /\ parker[k] = "asleep"
  /\ Signaled(k)
  /\ ParkerAt(k, "lower")
  /\ UNCHANGED <<val, unparker, target, signaled>>

ParkGivesUp(k) ==
  /\ parker[k] = "asleep"
  /\ GiveUp(k)
  /\ ParkerAt(k, "lower")
  /\ UNCHANGED <<val, unparker, target, signaled>>

ParkLower(k) ==
  /\ parker[k] = "lower"
  /\ val' = [val EXCEPT ![k] = 0]
  /\ ParkerAt(k, "check")
  /\ UNCHANGED <<queue, unparker, target, signaled>>

(* The unparker sets what the parker waits for, then calls unpark. *)
Signal(u) ==
  /\ unparker[u] = "signal"
  /\ \E k \in Parkers :
       /\ signaled' = [signaled EXCEPT ![k] = TRUE]
       /\ target' = [target EXCEPT ![u] = k]
  /\ UnparkerAt(u, "raise")
  /\ UNCHANGED <<val, queue, parker>>

Return(u) ==
  /\ UnparkerAt(u, "signal")
  /\ target' = [target EXCEPT ![u] = NoParker]

UnparkRaise(u) ==
  /\ unparker[u] = "raise"
  /\ val' = [val EXCEPT ![target[u]] = 1]
  /\ IF val[target[u]] # 1
     THEN UnparkerAt(u, "wake") /\ UNCHANGED target
     ELSE Return(u)
  /\ UNCHANGED <<queue, parker, signaled>>

UnparkWake(u) ==
  /\ unparker[u] = "wake"
  /\ WakeOne(target[u])
  /\ Return(u)
  /\ UNCHANGED <<val, parker, signaled>>

ParkerStep(k) ==
  \/ CheckSignaled(k) \/ CheckNotSignaled(k)
  \/ ParkTest(k) \/ ParkWait(k) \/ ParkSignaled(k) \/ ParkLower(k)

Unpark(u) == UnparkRaise(u) \/ UnparkWake(u)

ParkNext ==
  \/ \E k \in Parkers : ParkerStep(k) \/ ParkGivesUp(k)
  \/ \E u \in Unparkers : Signal(u) \/ Unpark(u)

ParkSpec == ParkInit /\ [][ParkNext]_pkVars

(* Threads keep being scheduled.  Nothing makes a thread signal again, and *)
(* nothing wakes a sleeper but unpark.                                     *)
FairParkSpec ==
  /\ ParkSpec
  /\ \A k \in Parkers : WF_pkVars(ParkerStep(k))
  /\ \A u \in Unparkers : WF_pkVars(Unpark(u))

(***************************************************************************)
(* Properties.                                                             *)
(***************************************************************************)

(* Types. *)
ParkTypeOK ==
  /\ val \in [Words -> {0, 1}]
  /\ queue \in Seq(Waiters)
  /\ parker \in [Parkers -> {"check", "test", "wait", "asleep", "lower"}]
  /\ unparker \in [Unparkers -> {"signal", "raise", "wake"}]
  /\ target \in [Unparkers -> Parkers \cup {NoParker}]
  /\ signaled \in [Parkers -> BOOLEAN]
  /\ \A u \in Unparkers : unparker[u] # "signal" => target[u] \in Parkers

(* A waiter is a node on the stack of waitInner: the bucket's list holds   *)
(* only threads that are still inside, each at its own flag and once.      *)
NoDanglingWaiters ==
  /\ \A n \in 1 .. Len(queue) :
       parker[queue[n].thread] = "asleep" /\ queue[n].word = queue[n].thread
  /\ \A m, n \in 1 .. Len(queue) :
       queue[m].thread = queue[n].thread => m = n

UnparkUnderWay(k, labels) ==
  \E u \in Unparkers : unparker[u] \in labels /\ target[u] = k

(* A parker that sleeps although it was signaled is about to be woken: an  *)
(* unpark of this parker has still to raise the flag or to wake.  (park    *)
(* tests the flag outside the bucket's lock, and unpark does not wake if   *)
(* the flag is up.)                                                        *)
WakeOnItsWay ==
  \A k \in Parkers :
    parker[k] = "asleep" /\ InList(k) /\ signaled[k]
      => UnparkUnderWay(k, {"raise", "wake"})

(* What is signaled is noticed: park does not swallow an unpark that came  *)
(* before it, and does not sleep through one that comes after.             *)
SignalsNoticed == \A k \in Parkers : signaled[k] ~> ~signaled[k]
=============================================================================
