------------------------------ MODULE CondVar ------------------------------
(***************************************************************************)
(* Condition variables over futexes (condvar_sc.hpp).  As in               *)
(* condvar-test.cpp there are threads that wait under a lock for something *)
(* to be there, and threads that put it there and notify; here they do so  *)
(* more than once.  wait compares sequence numbers instead of keeping a    *)
(* list of its own; notify_one advances the number and wakes one thread at *)
(* the futex.                                                              *)
(***************************************************************************)
EXTENDS Futex

CONSTANTS Producers,
          SeqWord,        \* the futex seq_
          NoThread,
          AddBound        \* bound on the items added, and so on seq_
Consumers == Sleepers

ASSUME CVAssumption ==
  Words = {SeqWord} /\ NoThread \notin Consumers \cup Producers

VARIABLES pc,             \* where each thread is
          seq,            \* the local of wait
          waiters,        \* waiters_
          lock,           \* holder of the user's lock
          items,          \* what the lock protects: signaled of the test
          added,          \* items added so far
          due             \* history variable: wakeups that the calls of
                          \* notify_one still owe

cvShared == <<val, queue, waiters, lock, items, added, due>>
cvVars == <<cvShared, pc, seq>>

Goto(t, label) == pc' = [pc EXCEPT ![t] = label]

(* Threads past the first part of wait, "unlock and deschedule", and not   *)
(* yet past the second, "wakeup".                                          *)
Waiting == {t \in Consumers : pc[t] \in {"futexWait", "asleep", "recheck"}}

Init ==
  /\ FutexInit
  /\ pc = [t \in Consumers \cup Producers |->
             IF t \in Consumers THEN "consume" ELSE "produce"]
  /\ seq = [t \in Consumers |-> 0]
  /\ waiters = 0
  /\ lock = NoThread
  /\ items = 0 /\ added = 0 /\ due = 0

(* std::mutex *)
Acquire(t) == lock = NoThread /\ lock' = t
Release == lock' = NoThread

(* while (!signaled) cvar.wait(lk); *)
ConsumerLock(t) ==
  /\ pc[t] = "consume"
  /\ Acquire(t)
  /\ Goto(t, "check")
  /\ UNCHANGED <<val, queue, waiters, items, added, due, seq>>

ConsumerTake(t) ==
  /\ pc[t] = "check"
  /\ items > 0
  /\ items' = items - 1
  /\ Release
  /\ Goto(t, "consume")
  /\ UNCHANGED <<val, queue, waiters, added, due, seq>>

(* wait *)
WaitReadSeq(t) ==
  /\ pc[t] = "check"
  /\ items = 0
  /\ seq' = [seq EXCEPT ![t] = val[SeqWord]]
  /\ Goto(t, "register")
  /\ UNCHANGED cvShared

WaitRegister(t) ==
  /\ pc[t] = "register"
  /\ waiters' = waiters + 1
  /\ Goto(t, "unlock")
  /\ UNCHANGED <<val, queue, lock, items, added, due, seq>>

WaitUnlock(t) ==
  /\ pc[t] = "unlock"
  /\ Release
  /\ Goto(t, "futexWait")
  /\ UNCHANGED <<val, queue, waiters, items, added, due, seq>>

WaitSleep(t) ==
  /\ pc[t] = "futexWait"
  /\ \/ StartWait(t, SeqWord, seq[t]) /\ Goto(t, "asleep")
     \/ NoWait(SeqWord, seq[t]) /\ Goto(t, "recheck")
  /\ UNCHANGED <<val, waiters, lock, items, added, due, seq>>

WaitSignaled(t) ==
  /\ pc[t] = "asleep"
  /\ Signaled(t)
  /\ Goto(t, "recheck")
  /\ UNCHANGED <<val, waiters, lock, items, added, due, seq>>

WaitGivesUp(t) ==
  /\ pc[t] = "asleep"
  /\ GiveUp(t)
  /\ Goto(t, "recheck")
  /\ UNCHANGED <<val, waiters, lock, items, added, due, seq>>

WaitAgain(t) ==
  /\ pc[t] = "recheck"
  /\ val[SeqWord] = seq[t]
  /\ Goto(t, "futexWait")
  /\ UNCHANGED <<cvShared, seq>>

WaitOver(t) ==
  /\ pc[t] = "recheck"
  /\ val[SeqWord] # seq[t]
  /\ Goto(t, "unregister")
  /\ due' = IF due = 0 THEN 0 ELSE due - 1
  /\ UNCHANGED <<val, queue, waiters, lock, items, added, seq>>

WaitUnregister(t) ==
  /\ pc[t] = "unregister"
  /\ waiters' = waiters - 1
  /\ Goto(t, "relock")
  /\ UNCHANGED <<val, queue, lock, items, added, due, seq>>

WaitRelock(t) ==
  /\ pc[t] = "relock"
  /\ Acquire(t)
  /\ seq' = [seq EXCEPT ![t] = 0]
  /\ Goto(t, "check")
  /\ UNCHANGED <<val, queue, waiters, items, added, due>>

(* The producer adds an item under the lock, and notifies before it lets   *)
(* go, as the test does, or after; then the critical section is one step.  *)
ProducerAdd(t) ==
  /\ pc[t] = "produce"
  /\ added < AddBound
  /\ lock = NoThread
  /\ lock' \in {t, NoThread}
  /\ items' = items + 1
  /\ added' = added + 1
  /\ Goto(t, "notify")
  /\ UNCHANGED <<val, queue, waiters, due, seq>>

NotifyReturn(t) ==
  /\ Goto(t, "produce")
  /\ IF lock = t THEN Release ELSE UNCHANGED lock

Notified == due' = IF due < Cardinality(Waiting) THEN due + 1 ELSE due

NotifyCheckOffByOne(t) ==  \* mutant: a single waiter is overlooked
  /\ pc[t] = "notify"
  /\ IF waiters <= 1
     THEN NotifyReturn(t)
     ELSE Goto(t, "advance") /\ UNCHANGED lock
  /\ Notified
  /\ UNCHANGED <<val, queue, waiters, items, added, seq>>

(* notify_one *)
NotifyCheck(t) ==
  /\ pc[t] = "notify"
  /\ IF waiters = 0
     THEN NotifyReturn(t)
     ELSE Goto(t, "advance") /\ UNCHANGED lock
  /\ Notified
  /\ UNCHANGED <<val, queue, waiters, items, added, seq>>

NotifyAdvance(t) ==
  /\ pc[t] = "advance"
  /\ val' = [val EXCEPT ![SeqWord] = @ + 1]
  /\ Goto(t, "wake")
  /\ UNCHANGED <<queue, waiters, lock, items, added, due, seq>>

NotifyWake(t) ==
  /\ pc[t] = "wake"
  /\ WakeOne(SeqWord)
  /\ NotifyReturn(t)
  /\ UNCHANGED <<val, waiters, items, added, due, seq>>

WaitStep(t) ==
  \/ WaitReadSeq(t) \/ WaitRegister(t) \/ WaitUnlock(t)
  \/ WaitSleep(t) \/ WaitSignaled(t) \/ WaitAgain(t) \/ WaitOver(t)
  \/ WaitUnregister(t) \/ WaitRelock(t)

ConsumerStep(t) == ConsumerLock(t) \/ ConsumerTake(t) \/ WaitStep(t)

NotifyStep(t) == NotifyCheck(t) \/ NotifyAdvance(t) \/ NotifyWake(t)

Next ==
  \/ \E t \in Consumers : ConsumerStep(t) \/ WaitGivesUp(t)
  \/ \E t \in Producers : ProducerAdd(t) \/ NotifyStep(t)

Spec == Init /\ [][Next]_cvVars

(* Threads keep being scheduled, but a mutex is not fair: a thread may lose *)
(* the race for it for ever.  Nothing makes a producer add another item,   *)
(* and nothing wakes a sleeper but a notification.                         *)
FairSpec ==
  /\ Spec
  /\ \A t \in Consumers : WF_cvVars(ConsumerStep(t))
  /\ \A t \in Producers : WF_cvVars(NotifyStep(t))

(***************************************************************************)
(* Properties.                                                             *)
(***************************************************************************)

(* notify_one wakes a thread that was waiting before it ("if a wait.1      *)
(* occurs in this order before a notify_one and there isn't any            *)
(* intervening (spurious) wakeup or another notify_one, it needs to wake   *)
(* that one up"): of the threads that wait when it starts, as many leave   *)
(* the loop of wait as there were calls.                                   *)
NotifyWakes == due > 0 ~> due = 0

(* Nobody sleeps on while there is something to take: it wakes up, or      *)
(* somebody else takes it.                                                 *)
NoLostWakeup == \A t \in Consumers :
  pc[t] = "asleep" /\ items > 0 ~> (pc[t] # "asleep" \/ items = 0)
=============================================================================
