------------------------------ MODULE SeqLocks ------------------------------
(***************************************************************************)
(* Sequence locks (seqlock_sc.hpp), and the reader-writer locks of         *)
(* rwlocks_sc.hpp that stand in for them (seqlock_rwlock.hpp), under the   *)
(* threads of seqlock-test.cpp: each reads a pair whose second half is the *)
(* negation of the first, or writes the next pair.  Each action is one     *)
(* access to shared memory; a turn of a spin loop that changes nothing is  *)
(* a stutter.  The accesses are sequentially consistent, but for the two   *)
(* loads of a reader, which are relaxed (mo_rlx): the load of the lock     *)
(* comes before them, but nothing orders them with each other, and         *)
(* read_unlock of a sequence lock, which is a load, may come before them;  *)
(* unlock_shared writes, and stays behind.                                 *)
(***************************************************************************)
EXTENDS Integers, FiniteSets

CONSTANTS Threads,
          Kinds,      \* the locks to try: "seqlock", "readstarve", "writestarve"
          Modulus,    \* the pairs are those of the numbers below it
          MaxCount    \* bound: nobody starts to write when count_ is larger

ASSUME ThreadsAssumption == IsFiniteSet(Threads)
ASSUME KindsAssumption == Kinds \subseteq {"seqlock", "readstarve", "writestarve"}
ASSUME BoundsAssumption == Modulus \in Nat \ {0} /\ MaxCount \in Nat

VARIABLES
  kind,       \* which lock
  count,      \* SeqLock::count_
  locked,     \* locked_: the bit kWriterLocked, and the rest
  a, b,       \* the pair
  pc, frame   \* where each thread is, and its locals

word == <<kind, count, locked>>
pair == <<a, b>>
vars == <<word, pair, pc, frame>>

Unlocked == [writer |-> FALSE, readers |-> 0]

(* due: the loads of the pair that the reader has still to perform.        *)
Halves == {"a", "b"}
NoFrame == [tag |-> 0, locked |-> Unlocked, a |-> 0, b |-> 0,
            due |-> Halves]

Goto(t, label) == pc' = [pc EXCEPT ![t] = label]
Again(t, label) == Goto(t, label) /\ frame' = [frame EXCEPT ![t] = NoFrame]
At(t, k, label) == kind = k /\ pc[t] = label
IsLocked(tag) == tag % 2 # 0
PlusReaders(n) == [locked EXCEPT !.readers = @ + n]

Init ==
  /\ kind \in Kinds
  /\ count = 0
  /\ locked = Unlocked
  /\ a = 0 /\ b = 0
  /\ pc = [t \in Threads |-> "idle"]
  /\ frame = [t \in Threads |-> NoFrame]

Begin(t) ==
  /\ pc[t] = "idle"
  /\ \/ Goto(t, "readLock")
     \/ count <= MaxCount /\ Goto(t, "lock")
  /\ UNCHANGED <<word, pair, frame>>

-----------------------------------------------------------------------------
(* SeqLock: readers do not write to the lock. *)
SeqReadLockAtOnce(t) ==  \* mutant: a reader does not wait for the writer
  /\ At(t, "seqlock", "readLock")
  /\ frame' = [frame EXCEPT ![t].tag = count]
  /\ Goto(t, "reading")
  /\ UNCHANGED <<word, pair>>

SeqReadLock(t) ==
  /\ At(t, "seqlock", "readLock")
  /\ ~IsLocked(count)
  /\ frame' = [frame EXCEPT ![t].tag = count]
  /\ Goto(t, "reading")
  /\ UNCHANGED <<word, pair>>

(* The tag is not needed any more. *)
SeqReadUnlock(t) ==
  /\ At(t, "seqlock", "reading")
  /\ count = frame[t].tag
  /\ frame' = [frame EXCEPT ![t].tag = 0]
  /\ Goto(t, "got")
  /\ UNCHANGED <<word, pair>>

SeqReadAgain(t) ==
  /\ At(t, "seqlock", "reading")
  /\ count # frame[t].tag
  /\ Again(t, "readLock")
  /\ UNCHANGED <<word, pair>>

SeqLockLoad(t) ==
  /\ At(t, "seqlock", "lock")
  /\ ~IsLocked(count)
  /\ frame' = [frame EXCEPT ![t].tag = count]
  /\ Goto(t, "lockCas")
  /\ UNCHANGED <<word, pair>>

SeqLockCas(t) ==
  /\ At(t, "seqlock", "lockCas")
  /\ count = frame[t].tag
  /\ count' = count + 1
  /\ Goto(t, "write")
  /\ UNCHANGED <<kind, locked, pair, frame>>

SeqUnlockLoad(t) ==
  /\ At(t, "seqlock", "unlock")
  /\ frame' = [frame EXCEPT ![t].tag = count]
  /\ Goto(t, "unlockStore")
  /\ UNCHANGED <<word, pair>>

SeqUnlockStore(t) ==
  /\ At(t, "seqlock", "unlockStore")
  /\ count' = frame[t].tag + 1
  /\ Again(t, "idle")
  /\ UNCHANGED <<kind, locked, pair>>

-----------------------------------------------------------------------------
(* busy_rwlock_readstarve: a reader that finds the writer's bit withdraws, *)
(* a writer sets its bit and waits until the readers are gone.             *)
LockShared(t) ==
  /\ At(t, "readstarve", "readLock")
  /\ locked' = PlusReaders(1)
  /\ Goto(t, IF locked.writer THEN "backOff" ELSE "reading")
  /\ UNCHANGED <<kind, count, pair, frame>>

BackOffNot(t) ==  \* mutant: the reader does not withdraw
  /\ At(t, "readstarve", "backOff")
  /\ Goto(t, "slowLoad")
  /\ UNCHANGED <<word, pair, frame>>

BackOff(t) ==
  /\ At(t, "readstarve", "backOff")
  /\ locked' = PlusReaders(-1)
  /\ Goto(t, "slowLoad")
  /\ UNCHANGED <<kind, count, pair, frame>>

(* The load of locked_, or a compare-and-exchange that failed. *)
SlowLoad(t) ==
  /\ kind = "readstarve" /\ pc[t] \in {"slowLoad", "slowCas"}
  /\ frame' = [frame EXCEPT ![t].locked = locked]
  /\ Goto(t, IF locked.writer THEN "slowLoad" ELSE "slowCas")
  /\ UNCHANGED <<word, pair>>

SlowCas(t) ==
  /\ At(t, "readstarve", "slowCas")
  /\ locked = frame[t].locked
  /\ locked' = PlusReaders(1)
  /\ Goto(t, "reading")
  /\ UNCHANGED <<kind, count, pair, frame>>

LockLoad(t) ==
  /\ At(t, "readstarve", "lock")
  /\ ~locked.writer
  /\ frame' = [frame EXCEPT ![t].locked = locked]
  /\ Goto(t, "lockCas")
  /\ UNCHANGED <<word, pair>>

LockCas(t) ==
  /\ At(t, "readstarve", "lockCas")
  /\ locked = frame[t].locked
  /\ locked' = [locked EXCEPT !.writer = TRUE]
  /\ Goto(t, IF locked.readers = 0 THEN "write" ELSE "drain")
  /\ UNCHANGED <<kind, count, pair, frame>>

Drain(t) ==
  /\ At(t, "readstarve", "drain")
  /\ locked.readers = 0
  /\ Goto(t, "write")
  /\ UNCHANGED <<word, pair, frame>>

-----------------------------------------------------------------------------
(* busy_rwlock_writestarve: a reader stays counted while it waits, and a   *)
(* writer gets in only when nobody is counted.                             *)
CountShared(t) ==
  /\ At(t, "writestarve", "readLock")
  /\ locked' = PlusReaders(1)
  /\ Goto(t, IF locked.writer THEN "waitShared" ELSE "reading")
  /\ UNCHANGED <<kind, count, pair, frame>>

WaitShared(t) ==
  /\ At(t, "writestarve", "waitShared")
  /\ ~locked.writer
  /\ Goto(t, "reading")
  /\ UNCHANGED <<word, pair, frame>>

LockLoadZero(t) ==
  /\ At(t, "writestarve", "lock")
  /\ locked = Unlocked
  /\ Goto(t, "lockCas")
  /\ UNCHANGED <<word, pair, frame>>

LockOverReaders(t) ==  \* mutant: only the writer's bit is compared
  /\ At(t, "writestarve", "lockCas")
  /\ ~locked.writer
  /\ locked' = [locked EXCEPT !.writer = TRUE]
  /\ Goto(t, "write")
  /\ UNCHANGED <<kind, count, pair, frame>>

LockCasZero(t) ==
  /\ At(t, "writestarve", "lockCas")
  /\ locked = Unlocked
  /\ locked' = [locked EXCEPT !.writer = TRUE]
  /\ Goto(t, "write")
  /\ UNCHANGED <<kind, count, pair, frame>>

-----------------------------------------------------------------------------
(* What the locks have in common: write_lock starts again after a failed   *)
(* compare-and-exchange; unlock_shared; unlock.                            *)
LockRetry(t) ==
  /\ pc[t] = "lockCas"
  /\ Again(t, "lock")
  /\ UNCHANGED <<word, pair>>

UnlockShared(t) ==
  /\ kind # "seqlock" /\ pc[t] = "reading"
  /\ frame[t].due = {}
  /\ locked' = PlusReaders(-1)
  /\ Goto(t, "got")
  /\ UNCHANGED <<kind, count, pair, frame>>

Unlock(t) ==
  /\ kind # "seqlock" /\ pc[t] = "unlock"
  /\ locked' = [locked EXCEPT !.writer = ~@]
  /\ Again(t, "idle")
  /\ UNCHANGED <<kind, count, pair>>

(* The critical sections of the test; what is read is used in "got".       *)
ReadA(t) ==
  /\ pc[t] \in {"reading", "got"} /\ "a" \in frame[t].due
  /\ frame' = [frame EXCEPT ![t].a = a, ![t].due = @ \ {"a"}]
  /\ UNCHANGED <<word, pair, pc>>

ReadB(t) ==
  /\ pc[t] \in {"reading", "got"} /\ "b" \in frame[t].due
  /\ frame' = [frame EXCEPT ![t].b = b, ![t].due = @ \ {"b"}]
  /\ UNCHANGED <<word, pair, pc>>

Got(t) ==
  /\ pc[t] = "got" /\ frame[t].due = {}
  /\ Again(t, "idle")
  /\ UNCHANGED <<word, pair>>

WriteNext(t) ==
  /\ pc[t] = "write"
  /\ frame' = [frame EXCEPT ![t].a = (a + 1) % Modulus]
  /\ Goto(t, "writeA")
  /\ UNCHANGED <<word, pair>>

WriteA(t) ==
  /\ pc[t] = "writeA"
  /\ a' = frame[t].a
  /\ Goto(t, "writeB")
  /\ UNCHANGED <<word, b, frame>>

WriteB(t) ==
  /\ pc[t] = "writeB"
  /\ b' = 0 - frame[t].a
  /\ Goto(t, "unlock")
  /\ UNCHANGED <<word, a, frame>>

-----------------------------------------------------------------------------
SeqStep(t) == \/ SeqReadLock(t) \/ SeqReadUnlock(t) \/ SeqReadAgain(t)
              \/ SeqLockLoad(t) \/ SeqLockCas(t)
              \/ SeqUnlockLoad(t) \/ SeqUnlockStore(t)
ReadStarveStep(t) == \/ LockShared(t) \/ BackOff(t) \/ SlowLoad(t) \/ SlowCas(t)
                     \/ LockLoad(t) \/ LockCas(t) \/ Drain(t)
WriteStarveStep(t) == \/ CountShared(t) \/ WaitShared(t)
                      \/ LockLoadZero(t) \/ LockCasZero(t)
CommonStep(t) == \/ LockRetry(t) \/ UnlockShared(t) \/ Unlock(t) \/ Got(t)
                 \/ ReadA(t) \/ ReadB(t) \/ WriteNext(t) \/ WriteA(t) \/ WriteB(t)

(* A thread that began goes on; it need not begin. *)
Proceed(t) == SeqStep(t) \/ ReadStarveStep(t) \/ WriteStarveStep(t) \/ CommonStep(t)
Next == \E t \in Threads : Begin(t) \/ Proceed(t)

Spec == Init /\ [][Next]_vars
FairSpec == Spec /\ \A t \in Threads : WF_vars(Proceed(t))

-----------------------------------------------------------------------------
Reading(t) == pc[t] = "reading"
Writing(t) == pc[t] \in {"write", "writeA", "writeB", "unlock", "unlockStore"}

TypeOK ==
  /\ kind \in {"seqlock", "readstarve", "writestarve"}
  /\ count \in Nat
  /\ locked \in [writer : BOOLEAN, readers : Int]
  /\ a \in Int /\ b \in Int
  /\ pc \in [Threads -> {"idle", "readLock", "reading", "got",
                         "lock", "lockCas", "write", "writeA", "writeB", "unlock",
                         "unlockStore", "backOff", "slowLoad", "slowCas", "drain",
                         "waitShared"}]
  /\ frame \in [Threads -> [tag : Nat, locked : [writer : BOOLEAN, readers : Int],
                            a : Int, b : Int, due : SUBSET Halves]]

(* A reader that may use what it read has read the two halves of one pair, *)
(* whoever wrote meanwhile (seqlock-test.cpp asserts it).  The sequence    *)
(* lock does not achieve this: its readers may look at the count early.    *)
HasRead(t) == pc[t] = "got" /\ frame[t].due = {}
Whole(t) == frame[t].b = 0 - frame[t].a
ReadsWhole == \A t \in Threads : HasRead(t) => Whole(t)

(* What it does achieve: a reader that has read both halves, in whatever   *)
(* order, before it looks at the count and finds it unchanged has a pair;  *)
(* and the reader-writer locks achieve it without exception.               *)
Finds(t) == pc[t] = "reading" /\ frame[t].due = {} /\ count = frame[t].tag
InOrderReadsWhole ==
  \A t \in Threads :
    (IF kind = "seqlock" THEN Finds(t) ELSE HasRead(t)) => Whole(t)

(* A writer is alone: with respect to writers, and, except that readers of *)
(* a sequence lock find out afterwards, to readers.                        *)
WritersAlone ==
  \A t, u \in Threads :
    t # u /\ Writing(t) => ~Writing(u) /\ (Reading(u) => kind = "seqlock")

(* Who starves only starves before it is in the word of the lock: a writer *)
(* that has set its bit gets in once the readers are gone, though others   *)
(* come and withdraw; a reader that is counted gets in after the writer.   *)
AnnouncedGetIn ==
  \A t \in Threads :
    pc[t] \in {"drain", "waitShared"} ~> pc[t] \in {"write", "reading"}
=============================================================================
