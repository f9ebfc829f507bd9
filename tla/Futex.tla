------------------------------- MODULE Futex -------------------------------
(***************************************************************************)
(* Futexes (futex.hpp): a thread can sleep at a word while the word has a  *)
(* certain value, until it is woken.  The waiters of all words that share  *)
(* a bucket are in one list, in the order they came.  The list is only     *)
(* touched under the bucket's lock, so each section under the lock is one  *)
(* step; wake is one section, waitInner two.  A waiter was signaled iff    *)
(* wake has removed it from the list.                                      *)
(*                                                                         *)
(* With UseRealFutex the list stands for the kernel's, and wake is a       *)
(* system call that does not say which of the waiters at a word it wakes.  *)
(***************************************************************************)
EXTENDS Integers, SequencesExt

CONSTANTS Words,          \* the futexes of one bucket
          Sleepers,       \* threads that may wait at them
          UseRealFutex    \* USE_REAL_FUTEX

ASSUME UseRealFutexAssumption == UseRealFutex \in BOOLEAN

VARIABLES val,            \* Futex::val of each word
          queue           \* WaiterQueue::queue

Waiters == [thread : Sleepers, word : Words]
InList(t) == \E n \in 1 .. Len(queue) : queue[n].thread = t
Candidates(w) == {n \in 1 .. Len(queue) : queue[n].word = w}

FutexInit == val = [w \in Words |-> 0] /\ queue = <<>>

StartWaitUnchecked(t, w, v) ==  \* mutant: the value is not looked at again
  queue' = Append(queue, [thread |-> t, word |-> w])

(* waitInner, up to the wait on the condition variable. *)
StartWait(t, w, v) ==
  /\ val[w] = v
  /\ queue' = Append(queue, [thread |-> t, word |-> w])

(* Its early return. *)
NoWait(w, v) == val[w] # v /\ UNCHANGED queue

(* The rest of waitInner: a waiter that was signaled returns; one that     *)
(* wakes by itself or by a timeout takes itself off the list first.        *)
Signaled(t) == ~InList(t) /\ UNCHANGED queue

GiveUpStays(t) ==  \* mutant: the waiter does not take itself off the list
  InList(t) /\ UNCHANGED queue

GiveUp(t) ==
  \E n \in 1 .. Len(queue) :
    queue[n].thread = t /\ queue' = RemoveAt(queue, n)

WakeNewest(w) ==  \* mutant: the list is walked from its end
  IF Candidates(w) = {}
  THEN UNCHANGED queue
  ELSE \E n \in Candidates(w) :
         /\ \A m \in Candidates(w) : m <= n
         /\ queue' = RemoveAt(queue, n)

WakeOfOthers(w) ==  \* mutant: the handle is not compared
  queue' = IF queue = <<>> THEN queue ELSE Tail(queue)

(* wake(handle, 1) *)
WakeOne(w) ==
  IF Candidates(w) = {}
  THEN UNCHANGED queue
  ELSE \E n \in Candidates(w) :
         /\ UseRealFutex \/ \A m \in Candidates(w) : n <= m
         /\ queue' = RemoveAt(queue, n)
=============================================================================
