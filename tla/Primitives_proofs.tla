------------------------- MODULE Primitives_proofs -------------------------
(***************************************************************************)
(* What is read was written, and whole: the pair behind a reader-writer    *)
(* lock or, when its loads are not late, a sequence lock, for any finite   *)
(* set of threads and any number of writes; the value in the four slots;   *)
(* and the ring buffer, a queue of any size.  A signal is not slept        *)
(* through by the threads that park, for any number of parkers and         *)
(* unparkers, whichever waiter a wake picks, and with spurious wakeups and *)
(* timeouts.                                                               *)
(***************************************************************************)
EXTENDS SeqLocks, FourSlot, RingBuf, Parking, FiniteSetTheorems, SequenceTheorems, TLAPS

-----------------------------------------------------------------------------
(* The pair behind a lock: a writer is alone, and readers read whole pairs.*)
(* Each lock uses its own labels. *)
OwnLabels(t) ==
  /\ pc[t] \in {"backOff", "slowLoad", "slowCas", "drain"} => kind = "readstarve"
  /\ pc[t] = "waitShared" => kind = "writestarve"
  /\ pc[t] = "unlockStore" => kind = "seqlock"

(* The threads that have the writer's bit, or made the count odd, *)
Holds(t) == Writing(t) \/ pc[t] = "drain"
OneHolder == \A t, u \in Threads : Holds(t) /\ Holds(u) => t = u

(* and those that are in the count of readers. *)
Counted(t) == Reading(t) \/ pc[t] \in {"backOff", "waitShared"}
CountedSet == {t \in Threads : Counted(t)}

(* What is written is half written only between the two stores. *)
PairInv ==
  /\ (\A t \in Threads : pc[t] # "writeB") => b = 0 - a
  /\ \A t \in Threads : pc[t] = "writeB" => frame[t].a = a
  /\ \A t \in Threads : pc[t] \notin {"reading", "got"} => frame[t].due = Halves
  /\ kind # "seqlock" =>
       \A t \in Threads : pc[t] = "got" => frame[t].due = {} /\ Whole(t)

(* What a reader has read is in the pair still. *)
ReadSoFar(t) ==
  /\ "a" \notin frame[t].due => frame[t].a = a
  /\ "b" \notin frame[t].due => frame[t].b = b

(* Sequence lock: a reader whose tag is still the count read what is there *)
(* now; the tag of another was overtaken and will not come back.           *)
SeqInv ==
  /\ IsLocked(count) <=> \E t \in Threads : Holds(t)
  /\ \A t \in Threads :
       /\ pc[t] = "unlockStore" => frame[t].tag = count
       /\ pc[t] = "lockCas" => ~IsLocked(frame[t].tag)
       /\ Reading(t) => /\ ~IsLocked(frame[t].tag)
                        /\ frame[t].tag <= count
                        /\ frame[t].tag = count => ReadSoFar(t)

(* Reader-writer locks: the word tells who is in.  The writer's bit was    *)
(* set over a word that did not have it.                                   *)
RwInv ==
  /\ locked.readers = Cardinality(CountedSet)
  /\ locked.writer <=> \E t \in Threads : Holds(t)
  /\ \A t, u \in Threads : Writing(t) => ~Reading(u)
  /\ \A t \in Threads :
       /\ Reading(t) => ReadSoFar(t)
       /\ kind = "readstarve" /\ pc[t] \in {"lockCas", "slowCas"} =>
            ~frame[t].locked.writer

IInv ==
  /\ TypeOK
  /\ \A t \in Threads : OwnLabels(t)
  /\ OneHolder
  /\ PairInv
  /\ kind = "seqlock" => SeqInv
  /\ kind # "seqlock" => RwInv
-----------------------------------------------------------------------------
LEMMA TypeInit == Init => TypeOK
  BY KindsAssumption DEF Init, TypeOK, Unlocked, NoFrame

LEMMA TypeStep ==
  ASSUME TypeOK, NEW t \in Threads, Begin(t) \/ Proceed(t)
  PROVE  TypeOK'
<1>0. (a + 1) % Modulus \in Int
  BY BoundsAssumption DEF TypeOK
<1>1. CASE SeqStep(t)
  <2>1. CASE SeqReadLock(t)
    BY <2>1 DEF SeqReadLock, TypeOK, At, Goto, PlusReaders, Unlocked, word,
       pair
  <2>2. CASE SeqReadUnlock(t)
    BY <2>2 DEF SeqReadUnlock, TypeOK, At, Goto, PlusReaders, Unlocked, word,
       pair
  <2>3. CASE SeqLockLoad(t)
    BY <2>3 DEF SeqLockLoad, TypeOK, At, Goto, PlusReaders, Unlocked, word,
       pair
  <2>4. CASE SeqLockCas(t)
    BY <2>4 DEF SeqLockCas, TypeOK, At, Goto, PlusReaders, Unlocked, word,
       pair
  <2>5. CASE SeqUnlockLoad(t)
    BY <2>5 DEF SeqUnlockLoad, TypeOK, At, Goto, PlusReaders, Unlocked, word,
       pair
  <2>6. CASE SeqUnlockStore(t)
    BY <2>6 DEF SeqUnlockStore, TypeOK, At, Goto, Again, NoFrame, Halves,
       PlusReaders, Unlocked, word, pair
  <2>7. CASE SeqReadAgain(t)
    BY <2>7 DEF SeqReadAgain, TypeOK, At, Goto, Again, NoFrame, Halves,
       PlusReaders, Unlocked, word, pair
  <2> QED
    BY <1>1, <2>1, <2>2, <2>3, <2>4, <2>5, <2>6, <2>7 DEF SeqStep
<1>2. CASE ReadStarveStep(t)
  <2>1. CASE LockShared(t)
    BY <2>1 DEF LockShared, TypeOK, At, Goto, PlusReaders, Unlocked, word,
       pair
  <2>2. CASE BackOff(t)
    BY <2>2 DEF BackOff, TypeOK, At, Goto, PlusReaders, Unlocked, word, pair
  <2>3. CASE SlowLoad(t)
    BY <2>3 DEF SlowLoad, TypeOK, At, Goto, PlusReaders, Unlocked, word, pair
  <2>4. CASE SlowCas(t)
    BY <2>4 DEF SlowCas, TypeOK, At, Goto, PlusReaders, Unlocked, word, pair
  <2>5. CASE LockLoad(t)
    BY <2>5 DEF LockLoad, TypeOK, At, Goto, PlusReaders, Unlocked, word, pair
  <2>6. CASE LockCas(t)
    BY <2>6 DEF LockCas, TypeOK, At, Goto, PlusReaders, Unlocked, word, pair
  <2>7. CASE Drain(t)
    BY <2>7 DEF Drain, TypeOK, At, Goto, PlusReaders, Unlocked, word, pair
  <2> QED
    BY <1>2, <2>1, <2>2, <2>3, <2>4, <2>5, <2>6, <2>7 DEF ReadStarveStep
<1>3. CASE WriteStarveStep(t)
  <2>1. CASE CountShared(t)
    BY <2>1 DEF CountShared, TypeOK, At, Goto, PlusReaders, Unlocked, word,
       pair
  <2>2. CASE WaitShared(t)
    BY <2>2 DEF WaitShared, TypeOK, At, Goto, PlusReaders, Unlocked, word,
       pair
  <2>3. CASE LockLoadZero(t)
    BY <2>3 DEF LockLoadZero, TypeOK, At, Goto, PlusReaders, Unlocked, word,
       pair
  <2>4. CASE LockCasZero(t)
    BY <2>4 DEF LockCasZero, TypeOK, At, Goto, PlusReaders, Unlocked, word,
       pair
  <2> QED
    BY <1>3, <2>1, <2>2, <2>3, <2>4 DEF WriteStarveStep
<1>4. CASE CommonStep(t)
  <2>1. CASE LockRetry(t)
    BY <2>1 DEF LockRetry, TypeOK, At, Goto, Again, NoFrame, Halves,
       PlusReaders, Unlocked, word, pair
  <2>2. CASE UnlockShared(t)
    BY <2>2 DEF UnlockShared, TypeOK, At, Goto, PlusReaders, Unlocked, word,
       pair
  <2>3. CASE Unlock(t)
    <3>1. locked' \in [writer : BOOLEAN, readers : Int]
      BY <2>3 DEF Unlock, TypeOK
    <3>2. frame' \in [Threads -> [tag : Nat, locked : [writer : BOOLEAN, readers : Int],
                                 a : Int, b : Int, due : SUBSET Halves]]
      BY <2>3 DEF Unlock, TypeOK, Again, NoFrame, Halves, Unlocked
    <3> QED
      BY <2>3, <3>1, <3>2 DEF Unlock, TypeOK, Goto, Again, pair
  <2>4. CASE Got(t)
    BY <2>4 DEF Got, TypeOK, At, Goto, Again, NoFrame, Halves, PlusReaders,
       Unlocked, word, pair
  <2>5. CASE ReadA(t)
    BY <2>5 DEF ReadA, TypeOK, At, Halves, PlusReaders, Unlocked, word, pair
  <2>6. CASE ReadB(t)
    BY <2>6 DEF ReadB, TypeOK, At, Halves, PlusReaders, Unlocked, word, pair
  <2>7. CASE WriteNext(t)
    BY <1>0, <2>7 DEF WriteNext, TypeOK, At, Goto, PlusReaders, Unlocked,
       word, pair
  <2>8. CASE WriteA(t)
    BY <2>8 DEF WriteA, TypeOK, At, Goto, PlusReaders, Unlocked, word, pair
  <2>9. CASE WriteB(t)
    BY <2>9 DEF WriteB, TypeOK, At, Goto, PlusReaders, Unlocked, word, pair
  <2> QED
    BY <1>4, <2>1, <2>2, <2>3, <2>4, <2>5, <2>6, <2>7, <2>8, <2>9 DEF CommonStep
<1>5. CASE Begin(t)
  BY <1>5 DEF TypeOK, Begin, Goto, Unlocked, NoFrame, word, pair
<1> QED
  BY <1>1, <1>2, <1>3, <1>4, <1>5 DEF Proceed

LEMMA Typing == Spec => []TypeOK
<1>1. TypeOK /\ [Next]_vars => TypeOK'
  <2> SUFFICES ASSUME TypeOK, [Next]_vars PROVE TypeOK'
    OBVIOUS
  <2>1. CASE Next
    BY <2>1, TypeStep DEF Next
  <2>2. CASE UNCHANGED vars
    BY <2>2 DEF vars, word, pair, TypeOK
  <2> QED
    BY <2>1, <2>2
<1> QED
  BY TypeInit, <1>1, PTL DEF Spec

-----------------------------------------------------------------------------
(* A step of a thread changes the number of readers by itself only. *)
LEMMA CountChange ==
  ASSUME TypeOK, NEW t \in Threads, NEW l, pc' = [pc EXCEPT ![t] = l]
  PROVE  /\ Cardinality(CountedSet) \in Nat
         /\ ~Counted(t) /\ Counted(t)' =>
              Cardinality(CountedSet)' = Cardinality(CountedSet) + 1
         /\ Counted(t) /\ ~Counted(t)' =>
              Cardinality(CountedSet)' = Cardinality(CountedSet) - 1
         /\ (Counted(t) <=> Counted(t)') =>
              Cardinality(CountedSet)' = Cardinality(CountedSet)
<1>1. IsFiniteSet(CountedSet)
  BY ThreadsAssumption, FS_Subset DEF CountedSet
<1>2. \A u \in Threads \ {t} : Counted(u)' = Counted(u)
  BY DEF TypeOK, Counted, Reading
<1>3. CASE ~Counted(t) /\ Counted(t)'
  <2>1. CountedSet' = CountedSet \cup {t} /\ t \notin CountedSet
    BY <1>2, <1>3 DEF CountedSet
  <2> QED
    BY <2>1, <1>1, <1>3, FS_AddElement, FS_CardinalityType
<1>4. CASE Counted(t) /\ ~Counted(t)'
  <2>1. CountedSet' = CountedSet \ {t} /\ t \in CountedSet
    BY <1>2, <1>4 DEF CountedSet
  <2> QED
    BY <2>1, <1>1, <1>4, FS_RemoveElement, FS_CardinalityType
<1>5. CASE Counted(t) <=> Counted(t)'
  <2>1. CountedSet' = CountedSet
    BY <1>2, <1>5 DEF CountedSet
  <2> QED
    BY <2>1, <1>1, <1>5, FS_CardinalityType
<1> QED
  BY <1>3, <1>4, <1>5

LEMMA NobodyCounted ==
  ASSUME Cardinality(CountedSet) = 0
  PROVE  \A t \in Threads : ~Counted(t)
<1>1. IsFiniteSet(CountedSet)
  BY ThreadsAssumption, FS_Subset DEF CountedSet
<1> QED
  BY <1>1, FS_EmptySet DEF CountedSet

LEMMA OddEven ==
  \A n \in Nat : IsLocked(n + 1) <=> ~IsLocked(n)
  BY DEF IsLocked

-----------------------------------------------------------------------------
LEMMA SeqSteps ==
  ASSUME IInv, TypeOK', NEW t \in Threads, SeqStep(t)
  PROVE  IInv'
<1>1. CASE SeqReadLock(t)
  <2>1. (\A u \in Threads : OwnLabels(u))'
    BY <1>1 DEF SeqReadLock, At, Goto, TypeOK, IInv, OwnLabels, word
  <2>2. OneHolder'
    BY <1>1 DEF SeqReadLock, At, Goto, TypeOK, IInv, OneHolder, Holds,
       Writing, OwnLabels, word, SeqInv, RwInv, Unlocked
  <2>3. PairInv'
    BY <1>1 DEF SeqReadLock, At, Goto, TypeOK, IInv, PairInv, Whole, Halves,
       OneHolder, Holds, Writing, Reading, ReadSoFar, SeqInv, RwInv,
       OwnLabels, word, pair, Unlocked
  <2>4. (kind = "seqlock" => SeqInv)'
    BY <1>1, OddEven DEF SeqReadLock, At, Goto, TypeOK, IInv, SeqInv,
       OneHolder, Holds, Writing, Reading, ReadSoFar, PairInv, Halves,
       OwnLabels, word, pair
  <2>5. (kind # "seqlock" => RwInv)'
    BY <1>1 DEF SeqReadLock, At, Goto, TypeOK, IInv, word
  <2> QED
    BY <2>1, <2>2, <2>3, <2>4, <2>5 DEF IInv
<1>2. CASE SeqReadUnlock(t)
  <2>1. (\A u \in Threads : OwnLabels(u))'
    BY <1>2 DEF SeqReadUnlock, At, Goto, TypeOK, IInv, OwnLabels, word
  <2>2. OneHolder'
    BY <1>2 DEF SeqReadUnlock, At, Goto, TypeOK, IInv, OneHolder, Holds,
       Writing, OwnLabels, word, SeqInv, RwInv, Unlocked
  <2>3. PairInv'
    BY <1>2 DEF SeqReadUnlock, At, Goto, TypeOK, IInv, PairInv, Whole, Halves,
       OneHolder, Holds, Writing, Reading, ReadSoFar, SeqInv, RwInv,
       OwnLabels, word, pair, Unlocked
  <2>4. (kind = "seqlock" => SeqInv)'
    BY <1>2, OddEven DEF SeqReadUnlock, At, Goto, TypeOK, IInv, SeqInv,
       OneHolder, Holds, Writing, Reading, ReadSoFar, PairInv, Halves,
       OwnLabels, word, pair
  <2>5. (kind # "seqlock" => RwInv)'
    BY <1>2 DEF SeqReadUnlock, At, Goto, TypeOK, IInv, word
  <2> QED
    BY <2>1, <2>2, <2>3, <2>4, <2>5 DEF IInv
<1>3. CASE SeqLockLoad(t)
  <2>1. (\A u \in Threads : OwnLabels(u))'
    BY <1>3 DEF SeqLockLoad, At, Goto, TypeOK, IInv, OwnLabels, word
  <2>2. OneHolder'
    BY <1>3 DEF SeqLockLoad, At, Goto, TypeOK, IInv, OneHolder, Holds,
       Writing, OwnLabels, word, SeqInv, RwInv, Unlocked
  <2>3. PairInv'
    BY <1>3 DEF SeqLockLoad, At, Goto, TypeOK, IInv, PairInv, Whole, Halves,
       OneHolder, Holds, Writing, Reading, ReadSoFar, SeqInv, RwInv,
       OwnLabels, word, pair, Unlocked
  <2>4. (kind = "seqlock" => SeqInv)'
    BY <1>3, OddEven DEF SeqLockLoad, At, Goto, TypeOK, IInv, SeqInv,
       OneHolder, Holds, Writing, Reading, ReadSoFar, PairInv, Halves,
       OwnLabels, word, pair
  <2>5. (kind # "seqlock" => RwInv)'
    BY <1>3 DEF SeqLockLoad, At, Goto, TypeOK, IInv, word
  <2> QED
    BY <2>1, <2>2, <2>3, <2>4, <2>5 DEF IInv
<1>4. CASE SeqLockCas(t)
  <2>1. (\A u \in Threads : OwnLabels(u))'
    BY <1>4 DEF SeqLockCas, At, Goto, TypeOK, IInv, OwnLabels, word
  <2>2. OneHolder'
    BY <1>4 DEF SeqLockCas, At, Goto, TypeOK, IInv, OneHolder, Holds,
       Writing, OwnLabels, word, SeqInv, RwInv, Unlocked
  <2>3. PairInv'
    BY <1>4 DEF SeqLockCas, At, Goto, TypeOK, IInv, PairInv, Whole, Halves,
       OneHolder, Holds, Writing, Reading, ReadSoFar, SeqInv, RwInv,
       OwnLabels, word, pair, Unlocked
  <2>4. (kind = "seqlock" => SeqInv)'
    BY <1>4, OddEven DEF SeqLockCas, At, Goto, TypeOK, IInv, SeqInv,
       OneHolder, Holds, Writing, Reading, ReadSoFar, PairInv, Halves,
       OwnLabels, word, pair
  <2>5. (kind # "seqlock" => RwInv)'
    BY <1>4 DEF SeqLockCas, At, Goto, TypeOK, IInv, word
  <2> QED
    BY <2>1, <2>2, <2>3, <2>4, <2>5 DEF IInv
<1>5. CASE SeqUnlockLoad(t)
  <2>1. (\A u \in Threads : OwnLabels(u))'
    BY <1>5 DEF SeqUnlockLoad, At, Goto, TypeOK, IInv, OwnLabels, word
  <2>2. OneHolder'
    BY <1>5 DEF SeqUnlockLoad, At, Goto, TypeOK, IInv, OneHolder, Holds,
       Writing, OwnLabels, word, SeqInv, RwInv, Unlocked
  <2>3. PairInv'
    BY <1>5 DEF SeqUnlockLoad, At, Goto, TypeOK, IInv, PairInv, Whole,
       Halves, OneHolder, Holds, Writing, Reading, ReadSoFar, SeqInv, RwInv,
       OwnLabels, word, pair, Unlocked
  <2>4. (kind = "seqlock" => SeqInv)'
    BY <1>5, OddEven DEF SeqUnlockLoad, At, Goto, TypeOK, IInv, SeqInv,
       OneHolder, Holds, Writing, Reading, ReadSoFar, PairInv, Halves,
       OwnLabels, word, pair
  <2>5. (kind # "seqlock" => RwInv)'
    BY <1>5 DEF SeqUnlockLoad, At, Goto, TypeOK, IInv, word
  <2> QED
    BY <2>1, <2>2, <2>3, <2>4, <2>5 DEF IInv
<1>6. CASE SeqUnlockStore(t)
  <2>1. (\A u \in Threads : OwnLabels(u))'
    BY <1>6 DEF SeqUnlockStore, At, Goto, Again, NoFrame, Halves, TypeOK,
       IInv, OwnLabels, word
  <2>2. OneHolder'
    BY <1>6 DEF SeqUnlockStore, At, Goto, Again, NoFrame, Halves, TypeOK,
       IInv, OneHolder, Holds, Writing, OwnLabels, word, SeqInv, RwInv,
       Unlocked
  <2>3. PairInv'
    BY <1>6 DEF SeqUnlockStore, At, Goto, Again, NoFrame, Halves, TypeOK,
       IInv, PairInv, Whole, OneHolder, Holds, Writing, Reading, ReadSoFar,
       SeqInv, RwInv, OwnLabels, word, pair, Unlocked
  <2>4. (kind = "seqlock" => SeqInv)'
    BY <1>6, OddEven DEF SeqUnlockStore, At, Goto, Again, NoFrame, Halves,
       TypeOK, IInv, SeqInv, OneHolder, Holds, Writing, Reading, ReadSoFar,
       PairInv, OwnLabels, word, pair
  <2>5. (kind # "seqlock" => RwInv)'
    BY <1>6 DEF SeqUnlockStore, At, Goto, Again, NoFrame, Halves, TypeOK,
       IInv, word
  <2> QED
    BY <2>1, <2>2, <2>3, <2>4, <2>5 DEF IInv
<1>7. CASE SeqReadAgain(t)
  <2>1. (\A u \in Threads : OwnLabels(u))'
    BY <1>7 DEF SeqReadAgain, At, Goto, Again, TypeOK, IInv, OwnLabels, word
  <2>2. OneHolder'
    BY <1>7 DEF SeqReadAgain, At, Goto, Again, TypeOK, IInv, OneHolder, Holds,
       Writing, OwnLabels, word, SeqInv, RwInv, Unlocked
  <2>3. PairInv'
    BY <1>7 DEF SeqReadAgain, At, Goto, Again, NoFrame, TypeOK, IInv, PairInv,
       Whole, Halves, OneHolder, Holds, Writing, Reading, ReadSoFar, SeqInv,
       RwInv, OwnLabels, word, pair, Unlocked
  <2>4. (kind = "seqlock" => SeqInv)'
    BY <1>7, OddEven DEF SeqReadAgain, At, Goto, Again, NoFrame, TypeOK, IInv,
       SeqInv, OneHolder, Holds, Writing, Reading, ReadSoFar, PairInv, Halves,
       OwnLabels, word, pair
  <2>5. (kind # "seqlock" => RwInv)'
    BY <1>7 DEF SeqReadAgain, At, Goto, Again, TypeOK, IInv, word
  <2> QED
    BY <2>1, <2>2, <2>3, <2>4, <2>5 DEF IInv
<1> QED
  BY <1>1, <1>2, <1>3, <1>4, <1>5, <1>6, <1>7 DEF SeqStep

LEMMA ReadStarveSteps ==
  ASSUME IInv, TypeOK', NEW t \in Threads, ReadStarveStep(t)
  PROVE  IInv'
<1>1. CASE LockShared(t)
  <2>1. (\A u \in Threads : OwnLabels(u))'
    BY <1>1 DEF LockShared, At, Goto, TypeOK, IInv, OwnLabels, word
  <2>2. OneHolder'
    BY <1>1 DEF LockShared, At, Goto, TypeOK, IInv, OneHolder, Holds,
       Writing, OwnLabels, word, SeqInv, RwInv, Unlocked
  <2>3. PairInv'
    BY <1>1 DEF LockShared, At, Goto, TypeOK, IInv, PairInv, Whole, Halves,
       OneHolder, Holds, Writing, Reading, ReadSoFar, SeqInv, RwInv,
       OwnLabels, word, pair, Unlocked
  <2>4. (kind = "seqlock" => SeqInv)'
    BY <1>1 DEF LockShared, At, Goto, TypeOK, IInv, word
  <2>5. (kind # "seqlock" => RwInv)'
    <3> SUFFICES ASSUME kind # "seqlock" PROVE RwInv'
      BY <1>1 DEF LockShared, word
    <3>1. (locked.readers = Cardinality(CountedSet))'
      BY <1>1, CountChange DEF LockShared, At, Goto, TypeOK, IInv, RwInv,
         Counted, Reading, PlusReaders, OwnLabels, word
    <3>2. (locked.writer <=> \E u \in Threads : Holds(u))'
      BY <1>1 DEF LockShared, At, Goto, TypeOK, IInv, RwInv, Holds, Writing,
         PlusReaders, OwnLabels, word
    <3>3. (\A u, v \in Threads : Writing(u) => ~Reading(v))'
      BY <1>1 DEF LockShared, At, Goto, TypeOK, IInv, RwInv, Holds, Writing,
         Reading, word
    <3>4. (\A u \in Threads : Reading(u) => ReadSoFar(u))'
      BY <1>1 DEF LockShared, At, Goto, TypeOK, IInv, RwInv, PairInv, Halves,
         Writing, Reading, ReadSoFar, word, pair
    <3>5. (\A u \in Threads :
             kind = "readstarve" /\ pc[u] \in {"lockCas", "slowCas"} =>
               ~frame[u].locked.writer)'
      BY <1>1 DEF LockShared, At, Goto, TypeOK, IInv, RwInv, OwnLabels,
         Unlocked, word
    <3> QED
      BY <3>1, <3>2, <3>3, <3>4, <3>5 DEF RwInv
  <2> QED
    BY <2>1, <2>2, <2>3, <2>4, <2>5 DEF IInv
<1>2. CASE BackOff(t)
  <2>1. (\A u \in Threads : OwnLabels(u))'
    BY <1>2 DEF BackOff, At, Goto, TypeOK, IInv, OwnLabels, word
  <2>2. OneHolder'
    BY <1>2 DEF BackOff, At, Goto, TypeOK, IInv, OneHolder, Holds, Writing,
       OwnLabels, word, SeqInv, RwInv, Unlocked
  <2>3. PairInv'
    BY <1>2 DEF BackOff, At, Goto, TypeOK, IInv, PairInv, Whole, Halves,
       OneHolder, Holds, Writing, Reading, ReadSoFar, SeqInv, RwInv,
       OwnLabels, word, pair, Unlocked
  <2>4. (kind = "seqlock" => SeqInv)'
    BY <1>2 DEF BackOff, At, Goto, TypeOK, IInv, word
  <2>5. (kind # "seqlock" => RwInv)'
    <3> SUFFICES ASSUME kind # "seqlock" PROVE RwInv'
      BY <1>2 DEF BackOff, word
    <3>1. (locked.readers = Cardinality(CountedSet))'
      BY <1>2, CountChange DEF BackOff, At, Goto, TypeOK, IInv, RwInv,
         Counted, Reading, PlusReaders, OwnLabels, word
    <3>2. (locked.writer <=> \E u \in Threads : Holds(u))'
      BY <1>2 DEF BackOff, At, Goto, TypeOK, IInv, RwInv, Holds, Writing,
         PlusReaders, OwnLabels, word
    <3>3. (\A u, v \in Threads : Writing(u) => ~Reading(v))'
      BY <1>2 DEF BackOff, At, Goto, TypeOK, IInv, RwInv, Holds, Writing,
         Reading, word
    <3>4. (\A u \in Threads : Reading(u) => ReadSoFar(u))'
      BY <1>2 DEF BackOff, At, Goto, TypeOK, IInv, RwInv, PairInv, Halves,
         Writing, Reading, ReadSoFar, word, pair
    <3>5. (\A u \in Threads :
             kind = "readstarve" /\ pc[u] \in {"lockCas", "slowCas"} =>
               ~frame[u].locked.writer)'
      BY <1>2 DEF BackOff, At, Goto, TypeOK, IInv, RwInv, OwnLabels,
         Unlocked, word
    <3> QED
      BY <3>1, <3>2, <3>3, <3>4, <3>5 DEF RwInv
  <2> QED
    BY <2>1, <2>2, <2>3, <2>4, <2>5 DEF IInv
<1>3. CASE SlowLoad(t)
  <2>1. (\A u \in Threads : OwnLabels(u))'
    BY <1>3 DEF SlowLoad, At, Goto, TypeOK, IInv, OwnLabels, word
  <2>2. OneHolder'
    BY <1>3 DEF SlowLoad, At, Goto, TypeOK, IInv, OneHolder, Holds, Writing,
       OwnLabels, word, SeqInv, RwInv, Unlocked
  <2>3. PairInv'
    BY <1>3 DEF SlowLoad, At, Goto, TypeOK, IInv, PairInv, Whole, Halves,
       OneHolder, Holds, Writing, Reading, ReadSoFar, SeqInv, RwInv,
       OwnLabels, word, pair, Unlocked
  <2>4. (kind = "seqlock" => SeqInv)'
    BY <1>3 DEF SlowLoad, At, Goto, TypeOK, IInv, word
  <2>5. (kind # "seqlock" => RwInv)'
    <3> SUFFICES ASSUME kind # "seqlock" PROVE RwInv'
      BY <1>3 DEF SlowLoad, word
    <3>1. (locked.readers = Cardinality(CountedSet))'
      BY <1>3, CountChange DEF SlowLoad, At, Goto, TypeOK, IInv, RwInv,
         Counted, Reading, word
    <3>2. (locked.writer <=> \E u \in Threads : Holds(u))'
      BY <1>3 DEF SlowLoad, At, Goto, TypeOK, IInv, RwInv, Holds, Writing,
         word
    <3>3. (\A u, v \in Threads : Writing(u) => ~Reading(v))'
      BY <1>3 DEF SlowLoad, At, Goto, TypeOK, IInv, RwInv, Writing, Reading,
         word
    <3>4. (\A u \in Threads : Reading(u) => ReadSoFar(u))'
      BY <1>3 DEF SlowLoad, At, Goto, TypeOK, IInv, RwInv, Reading,
         ReadSoFar, PairInv, Halves, word, pair
    <3>5. (\A u \in Threads :
             kind = "readstarve" /\ pc[u] \in {"lockCas", "slowCas"} =>
               ~frame[u].locked.writer)'
      BY <1>3 DEF SlowLoad, At, Goto, TypeOK, IInv, RwInv, OwnLabels,
         Unlocked, word
    <3> QED
      BY <3>1, <3>2, <3>3, <3>4, <3>5 DEF RwInv
  <2> QED
    BY <2>1, <2>2, <2>3, <2>4, <2>5 DEF IInv
<1>4. CASE SlowCas(t)
  <2>1. (\A u \in Threads : OwnLabels(u))'
    BY <1>4 DEF SlowCas, At, Goto, TypeOK, IInv, OwnLabels, word
  <2>2. OneHolder'
    BY <1>4 DEF SlowCas, At, Goto, TypeOK, IInv, OneHolder, Holds, Writing,
       OwnLabels, word, SeqInv, RwInv, Unlocked
  <2>3. PairInv'
    BY <1>4 DEF SlowCas, At, Goto, TypeOK, IInv, PairInv, Whole, Halves,
       OneHolder, Holds, Writing, Reading, ReadSoFar, SeqInv, RwInv,
       OwnLabels, word, pair, Unlocked
  <2>4. (kind = "seqlock" => SeqInv)'
    BY <1>4 DEF SlowCas, At, Goto, TypeOK, IInv, word
  <2>5. (kind # "seqlock" => RwInv)'
    <3> SUFFICES ASSUME kind # "seqlock" PROVE RwInv'
      BY <1>4 DEF SlowCas, word
    <3>1. (locked.readers = Cardinality(CountedSet))'
      BY <1>4, CountChange DEF SlowCas, At, Goto, TypeOK, IInv, RwInv,
         Counted, Reading, PlusReaders, OwnLabels, word
    <3>2. (locked.writer <=> \E u \in Threads : Holds(u))'
      BY <1>4 DEF SlowCas, At, Goto, TypeOK, IInv, RwInv, Holds, Writing,
         PlusReaders, OwnLabels, word
    <3>3. (\A u, v \in Threads : Writing(u) => ~Reading(v))'
      BY <1>4 DEF SlowCas, At, Goto, TypeOK, IInv, RwInv, Holds, Writing,
         Reading, word
    <3>4. (\A u \in Threads : Reading(u) => ReadSoFar(u))'
      BY <1>4 DEF SlowCas, At, Goto, TypeOK, IInv, RwInv, PairInv, Halves,
         Writing, Reading, ReadSoFar, word, pair
    <3>5. (\A u \in Threads :
             kind = "readstarve" /\ pc[u] \in {"lockCas", "slowCas"} =>
               ~frame[u].locked.writer)'
      BY <1>4 DEF SlowCas, At, Goto, TypeOK, IInv, RwInv, OwnLabels,
         Unlocked, word
    <3> QED
      BY <3>1, <3>2, <3>3, <3>4, <3>5 DEF RwInv
  <2> QED
    BY <2>1, <2>2, <2>3, <2>4, <2>5 DEF IInv
<1>5. CASE LockLoad(t)
  <2>1. (\A u \in Threads : OwnLabels(u))'
    BY <1>5 DEF LockLoad, At, Goto, TypeOK, IInv, OwnLabels, word
  <2>2. OneHolder'
    BY <1>5 DEF LockLoad, At, Goto, TypeOK, IInv, OneHolder, Holds, Writing,
       OwnLabels, word, SeqInv, RwInv, Unlocked
  <2>3. PairInv'
    BY <1>5 DEF LockLoad, At, Goto, TypeOK, IInv, PairInv, Whole, Halves,
       OneHolder, Holds, Writing, Reading, ReadSoFar, SeqInv, RwInv,
       OwnLabels, word, pair, Unlocked
  <2>4. (kind = "seqlock" => SeqInv)'
    BY <1>5 DEF LockLoad, At, Goto, TypeOK, IInv, word
  <2>5. (kind # "seqlock" => RwInv)'
    <3> SUFFICES ASSUME kind # "seqlock" PROVE RwInv'
      BY <1>5 DEF LockLoad, word
    <3>1. (locked.readers = Cardinality(CountedSet))'
      BY <1>5, CountChange DEF LockLoad, At, Goto, TypeOK, IInv, RwInv,
         Counted, Reading, word
    <3>2. (locked.writer <=> \E u \in Threads : Holds(u))'
      BY <1>5 DEF LockLoad, At, Goto, TypeOK, IInv, RwInv, Holds, Writing,
         word
    <3>3. (\A u, v \in Threads : Writing(u) => ~Reading(v))'
      BY <1>5 DEF LockLoad, At, Goto, TypeOK, IInv, RwInv, Writing, Reading,
         word
    <3>4. (\A u \in Threads : Reading(u) => ReadSoFar(u))'
      BY <1>5 DEF LockLoad, At, Goto, TypeOK, IInv, RwInv, Reading,
         ReadSoFar, PairInv, Halves, word, pair
    <3>5. (\A u \in Threads :
             kind = "readstarve" /\ pc[u] \in {"lockCas", "slowCas"} =>
               ~frame[u].locked.writer)'
      BY <1>5 DEF LockLoad, At, Goto, TypeOK, IInv, RwInv, OwnLabels,
         Unlocked, word
    <3> QED
      BY <3>1, <3>2, <3>3, <3>4, <3>5 DEF RwInv
  <2> QED
    BY <2>1, <2>2, <2>3, <2>4, <2>5 DEF IInv
<1>6. CASE LockCas(t)
  <2>1. (\A u \in Threads : OwnLabels(u))'
    BY <1>6 DEF LockCas, At, Goto, TypeOK, IInv, OwnLabels, word
  <2>2. OneHolder'
    BY <1>6 DEF LockCas, At, Goto, TypeOK, IInv, OneHolder, Holds, Writing,
       OwnLabels, word, SeqInv, RwInv, Unlocked
  <2>3. PairInv'
    BY <1>6 DEF LockCas, At, Goto, TypeOK, IInv, PairInv, Whole, Halves,
       OneHolder, Holds, Writing, Reading, ReadSoFar, SeqInv, RwInv,
       OwnLabels, word, pair, Unlocked
  <2>4. (kind = "seqlock" => SeqInv)'
    BY <1>6 DEF LockCas, At, Goto, TypeOK, IInv, word
  <2>5. (kind # "seqlock" => RwInv)'
    BY <1>6, CountChange, NobodyCounted DEF LockCas, At, Goto, TypeOK, IInv,
       RwInv, OneHolder, Holds, Writing, Reading, ReadSoFar, PairInv, Halves,
       Counted, PlusReaders, Unlocked, OwnLabels, word, pair
  <2> QED
    BY <2>1, <2>2, <2>3, <2>4, <2>5 DEF IInv
<1>7. CASE Drain(t)
  <2>1. (\A u \in Threads : OwnLabels(u))'
    BY <1>7 DEF Drain, At, Goto, TypeOK, IInv, OwnLabels, word
  <2>2. OneHolder'
    BY <1>7 DEF Drain, At, Goto, TypeOK, IInv, OneHolder, Holds, Writing,
       OwnLabels, word, SeqInv, RwInv, Unlocked
  <2>3. PairInv'
    BY <1>7 DEF Drain, At, Goto, TypeOK, IInv, PairInv, Whole, Halves,
       OneHolder, Holds, Writing, Reading, ReadSoFar, SeqInv, RwInv,
       OwnLabels, word, pair, Unlocked
  <2>4. (kind = "seqlock" => SeqInv)'
    BY <1>7 DEF Drain, At, Goto, TypeOK, IInv, word
  <2>5. (kind # "seqlock" => RwInv)'
    BY <1>7, CountChange, NobodyCounted DEF Drain, At, Goto, TypeOK, IInv,
       RwInv, OneHolder, Holds, Writing, Reading, ReadSoFar, PairInv, Halves,
       Counted, PlusReaders, Unlocked, OwnLabels, word, pair
  <2> QED
    BY <2>1, <2>2, <2>3, <2>4, <2>5 DEF IInv
<1> QED
  BY <1>1, <1>2, <1>3, <1>4, <1>5, <1>6, <1>7 DEF ReadStarveStep

LEMMA WriteStarveSteps ==
  ASSUME IInv, TypeOK', NEW t \in Threads, WriteStarveStep(t)
  PROVE  IInv'
<1>1. CASE CountShared(t)
  <2>1. (\A u \in Threads : OwnLabels(u))'
    BY <1>1 DEF CountShared, At, Goto, TypeOK, IInv, OwnLabels, word
  <2>2. OneHolder'
    BY <1>1 DEF CountShared, At, Goto, TypeOK, IInv, OneHolder, Holds,
       Writing, OwnLabels, word, SeqInv, RwInv, Unlocked
  <2>3. PairInv'
    BY <1>1 DEF CountShared, At, Goto, TypeOK, IInv, PairInv, Whole, Halves,
       OneHolder, Holds, Writing, Reading, ReadSoFar, SeqInv, RwInv,
       OwnLabels, word, pair, Unlocked
  <2>4. (kind = "seqlock" => SeqInv)'
    BY <1>1 DEF CountShared, At, Goto, TypeOK, IInv, word
  <2>5. (kind # "seqlock" => RwInv)'
    <3> SUFFICES ASSUME kind # "seqlock" PROVE RwInv'
      BY <1>1 DEF CountShared, word
    <3>1. (locked.readers = Cardinality(CountedSet))'
      BY <1>1, CountChange DEF CountShared, At, Goto, TypeOK, IInv, RwInv,
         Counted, Reading, PlusReaders, OwnLabels, word
    <3>2. (locked.writer <=> \E u \in Threads : Holds(u))'
      BY <1>1 DEF CountShared, At, Goto, TypeOK, IInv, RwInv, Holds, Writing,
         PlusReaders, OwnLabels, word
    <3>3. (\A u, v \in Threads : Writing(u) => ~Reading(v))'
      BY <1>1 DEF CountShared, At, Goto, TypeOK, IInv, RwInv, Holds, Writing,
         Reading, word
    <3>4. (\A u \in Threads : Reading(u) => ReadSoFar(u))'
      BY <1>1 DEF CountShared, At, Goto, TypeOK, IInv, RwInv, PairInv,
         Halves, Writing, Reading, ReadSoFar, word, pair
    <3>5. (\A u \in Threads :
             kind = "readstarve" /\ pc[u] \in {"lockCas", "slowCas"} =>
               ~frame[u].locked.writer)'
      BY <1>1 DEF CountShared, At, Goto, TypeOK, IInv, RwInv, OwnLabels,
         Unlocked, word
    <3> QED
      BY <3>1, <3>2, <3>3, <3>4, <3>5 DEF RwInv
  <2> QED
    BY <2>1, <2>2, <2>3, <2>4, <2>5 DEF IInv
<1>2. CASE WaitShared(t)
  <2>1. (\A u \in Threads : OwnLabels(u))'
    BY <1>2 DEF WaitShared, At, Goto, TypeOK, IInv, OwnLabels, word
  <2>2. OneHolder'
    BY <1>2 DEF WaitShared, At, Goto, TypeOK, IInv, OneHolder, Holds,
       Writing, OwnLabels, word, SeqInv, RwInv, Unlocked
  <2>3. PairInv'
    BY <1>2 DEF WaitShared, At, Goto, TypeOK, IInv, PairInv, Whole, Halves,
       OneHolder, Holds, Writing, Reading, ReadSoFar, SeqInv, RwInv,
       OwnLabels, word, pair, Unlocked
  <2>4. (kind = "seqlock" => SeqInv)'
    BY <1>2 DEF WaitShared, At, Goto, TypeOK, IInv, word
  <2>5. (kind # "seqlock" => RwInv)'
    BY <1>2, CountChange, NobodyCounted DEF WaitShared, At, Goto, TypeOK,
       IInv, RwInv, OneHolder, Holds, Writing, Reading, ReadSoFar, PairInv,
       Halves, Counted, PlusReaders, Unlocked, OwnLabels, word, pair
  <2> QED
    BY <2>1, <2>2, <2>3, <2>4, <2>5 DEF IInv
<1>3. CASE LockLoadZero(t)
  <2>1. (\A u \in Threads : OwnLabels(u))'
    BY <1>3 DEF LockLoadZero, At, Goto, TypeOK, IInv, OwnLabels, word
  <2>2. OneHolder'
    BY <1>3 DEF LockLoadZero, At, Goto, TypeOK, IInv, OneHolder, Holds,
       Writing, OwnLabels, word, SeqInv, RwInv, Unlocked
  <2>3. PairInv'
    BY <1>3 DEF LockLoadZero, At, Goto, TypeOK, IInv, PairInv, Whole, Halves,
       OneHolder, Holds, Writing, Reading, ReadSoFar, SeqInv, RwInv,
       OwnLabels, word, pair, Unlocked
  <2>4. (kind = "seqlock" => SeqInv)'
    BY <1>3 DEF LockLoadZero, At, Goto, TypeOK, IInv, word
  <2>5. (kind # "seqlock" => RwInv)'
    <3> SUFFICES ASSUME kind # "seqlock" PROVE RwInv'
      BY <1>3 DEF LockLoadZero, word
    <3>1. (locked.readers = Cardinality(CountedSet))'
      BY <1>3, CountChange DEF LockLoadZero, At, Goto, TypeOK, IInv, RwInv,
         Counted, Reading, word
    <3>2. (locked.writer <=> \E u \in Threads : Holds(u))'
      BY <1>3 DEF LockLoadZero, At, Goto, TypeOK, IInv, RwInv, Holds,
         Writing, word
    <3>3. (\A u, v \in Threads : Writing(u) => ~Reading(v))'
      BY <1>3 DEF LockLoadZero, At, Goto, TypeOK, IInv, RwInv, Writing,
         Reading, word
    <3>4. (\A u \in Threads : Reading(u) => ReadSoFar(u))'
      BY <1>3 DEF LockLoadZero, At, Goto, TypeOK, IInv, RwInv, Reading,
         ReadSoFar, PairInv, Halves, word, pair
    <3>5. (\A u \in Threads :
             kind = "readstarve" /\ pc[u] \in {"lockCas", "slowCas"} =>
               ~frame[u].locked.writer)'
      BY <1>3 DEF LockLoadZero, At, Goto, TypeOK, IInv, RwInv, OwnLabels,
         Unlocked, word
    <3> QED
      BY <3>1, <3>2, <3>3, <3>4, <3>5 DEF RwInv
  <2> QED
    BY <2>1, <2>2, <2>3, <2>4, <2>5 DEF IInv
<1>4. CASE LockCasZero(t)
  <2>1. (\A u \in Threads : OwnLabels(u))'
    BY <1>4 DEF LockCasZero, At, Goto, TypeOK, IInv, OwnLabels, word
  <2>2. OneHolder'
    BY <1>4 DEF LockCasZero, At, Goto, TypeOK, IInv, OneHolder, Holds,
       Writing, OwnLabels, word, SeqInv, RwInv, Unlocked
  <2>3. PairInv'
    BY <1>4 DEF LockCasZero, At, Goto, TypeOK, IInv, PairInv, Whole, Halves,
       OneHolder, Holds, Writing, Reading, ReadSoFar, SeqInv, RwInv,
       OwnLabels, word, pair, Unlocked
  <2>4. (kind = "seqlock" => SeqInv)'
    BY <1>4 DEF LockCasZero, At, Goto, TypeOK, IInv, word
  <2>5. (kind # "seqlock" => RwInv)'
    BY <1>4, CountChange, NobodyCounted DEF LockCasZero, At, Goto, TypeOK,
       IInv, RwInv, OneHolder, Holds, Writing, Reading, ReadSoFar, PairInv,
       Halves, Counted, PlusReaders, Unlocked, OwnLabels, word, pair
  <2> QED
    BY <2>1, <2>2, <2>3, <2>4, <2>5 DEF IInv
<1> QED
  BY <1>1, <1>2, <1>3, <1>4 DEF WriteStarveStep

LEMMA CommonSteps ==
  ASSUME IInv, TypeOK', NEW t \in Threads, CommonStep(t)
  PROVE  IInv'
<1>1. CASE LockRetry(t)
  <2>1. (\A u \in Threads : OwnLabels(u))'
    BY <1>1 DEF LockRetry, At, Goto, Again, NoFrame, Halves, TypeOK, IInv,
       OwnLabels, word
  <2>2. OneHolder'
    BY <1>1 DEF LockRetry, At, Goto, Again, NoFrame, Halves, TypeOK, IInv,
       OneHolder, Holds, Writing, OwnLabels, word, SeqInv, RwInv, Unlocked
  <2>3. PairInv'
    BY <1>1 DEF LockRetry, At, Goto, Again, NoFrame, Halves, TypeOK, IInv,
       PairInv, Whole, OneHolder, Holds, Writing, Reading, ReadSoFar, SeqInv,
       RwInv, OwnLabels, word, pair, Unlocked
  <2>4. (kind = "seqlock" => SeqInv)'
    BY <1>1, OddEven DEF LockRetry, At, Goto, Again, NoFrame, Halves, TypeOK,
       IInv, SeqInv, OneHolder, Holds, Writing, Reading, ReadSoFar, PairInv,
       OwnLabels, word, pair
  <2>5. (kind # "seqlock" => RwInv)'
    <3> SUFFICES ASSUME kind # "seqlock" PROVE RwInv'
      BY <1>1 DEF LockRetry, word
    <3>1. (locked.readers = Cardinality(CountedSet))'
      BY <1>1, CountChange DEF LockRetry, At, Goto, Again, NoFrame, TypeOK,
         IInv, RwInv, Counted, Reading, PlusReaders, OwnLabels, word
    <3>2. (locked.writer <=> \E u \in Threads : Holds(u))'
      BY <1>1 DEF LockRetry, At, Goto, Again, NoFrame, TypeOK, IInv, RwInv,
         Holds, Writing, PlusReaders, OwnLabels, word
    <3>3. (\A u, v \in Threads : Writing(u) => ~Reading(v))'
      BY <1>1 DEF LockRetry, At, Goto, Again, NoFrame, TypeOK, IInv, RwInv,
         Holds, Writing, Reading, word
    <3>4. (\A u \in Threads : Reading(u) => ReadSoFar(u))'
      BY <1>1 DEF LockRetry, At, Goto, Again, NoFrame, TypeOK, IInv, RwInv,
         PairInv, Halves, Writing, Reading, ReadSoFar, word, pair
    <3>5. (\A u \in Threads :
             kind = "readstarve" /\ pc[u] \in {"lockCas", "slowCas"} =>
               ~frame[u].locked.writer)'
      BY <1>1 DEF LockRetry, At, Goto, Again, NoFrame, TypeOK, IInv, RwInv,
         OwnLabels, Unlocked, word
    <3> QED
      BY <3>1, <3>2, <3>3, <3>4, <3>5 DEF RwInv
  <2> QED
    BY <2>1, <2>2, <2>3, <2>4, <2>5 DEF IInv
<1>2. CASE UnlockShared(t)
  <2>1. (\A u \in Threads : OwnLabels(u))'
    BY <1>2 DEF UnlockShared, At, Goto, TypeOK, IInv, OwnLabels, word
  <2>2. OneHolder'
    BY <1>2 DEF UnlockShared, At, Goto, TypeOK, IInv, OneHolder, Holds,
       Writing, OwnLabels, word, SeqInv, RwInv, Unlocked
  <2>3. PairInv'
    <3>1. UNCHANGED <<a, b, frame>> /\ pc[t]' = "got"
          /\ \A u \in Threads \ {t} : pc'[u] = pc[u]
      BY <1>2 DEF UnlockShared, Goto, TypeOK, IInv, pair
    <3>2. frame[t].a = a /\ frame[t].b = b /\ frame[t].due = {}
      BY <1>2 DEF UnlockShared, IInv, RwInv, Reading, ReadSoFar
    <3>3. \A u \in Threads : pc[u] # "writeB"
      BY <1>2 DEF UnlockShared, IInv, RwInv, Reading, Writing
    <3> QED
      BY <1>2, <3>1, <3>2, <3>3 DEF UnlockShared, IInv, PairInv, Whole
  <2>4. (kind = "seqlock" => SeqInv)'
    BY <1>2, OddEven DEF UnlockShared, At, Goto, TypeOK, IInv, SeqInv,
       OneHolder, Holds, Writing, Reading, ReadSoFar, PairInv, Halves,
       OwnLabels, word, pair
  <2>5. (kind # "seqlock" => RwInv)'
    <3> SUFFICES ASSUME kind # "seqlock" PROVE RwInv'
      BY <1>2 DEF UnlockShared, word
    <3>1. (locked.readers = Cardinality(CountedSet))'
      BY <1>2, CountChange DEF UnlockShared, At, Goto, TypeOK, IInv, RwInv,
         Counted, Reading, PlusReaders, OwnLabels, word
    <3>2. (locked.writer <=> \E u \in Threads : Holds(u))'
      BY <1>2 DEF UnlockShared, At, Goto, TypeOK, IInv, RwInv, Holds,
         Writing, PlusReaders, OwnLabels, word
    <3>3. (\A u, v \in Threads : Writing(u) => ~Reading(v))'
      BY <1>2 DEF UnlockShared, At, Goto, TypeOK, IInv, RwInv, Holds,
         Writing, Reading, word
    <3>4. (\A u \in Threads : Reading(u) => ReadSoFar(u))'
      BY <1>2 DEF UnlockShared, At, Goto, TypeOK, IInv, RwInv, PairInv,
         Halves, Writing, Reading, ReadSoFar, word, pair
    <3>5. (\A u \in Threads :
             kind = "readstarve" /\ pc[u] \in {"lockCas", "slowCas"} =>
               ~frame[u].locked.writer)'
      BY <1>2 DEF UnlockShared, At, Goto, TypeOK, IInv, RwInv, OwnLabels,
         Unlocked, word
    <3> QED
      BY <3>1, <3>2, <3>3, <3>4, <3>5 DEF RwInv
  <2> QED
    BY <2>1, <2>2, <2>3, <2>4, <2>5 DEF IInv
<1>3. CASE Unlock(t)
  <2>1. (\A u \in Threads : OwnLabels(u))'
    BY <1>3 DEF Unlock, At, Goto, Again, NoFrame, Halves, TypeOK, IInv,
       OwnLabels, word
  <2>2. OneHolder'
    BY <1>3 DEF Unlock, At, Goto, Again, NoFrame, Halves, TypeOK, IInv,
       OneHolder, Holds, Writing, OwnLabels, word, SeqInv, RwInv, Unlocked
  <2>3. PairInv'
    BY <1>3 DEF Unlock, At, Goto, Again, NoFrame, Halves, TypeOK, IInv,
       PairInv, Whole, OneHolder, Holds, Writing, Reading, ReadSoFar, SeqInv,
       RwInv, OwnLabels, word, pair, Unlocked
  <2>4. (kind = "seqlock" => SeqInv)'
    BY <1>3, OddEven DEF Unlock, At, Goto, Again, NoFrame, Halves, TypeOK,
       IInv, SeqInv, OneHolder, Holds, Writing, Reading, ReadSoFar, PairInv,
       OwnLabels, word, pair
  <2>5. (kind # "seqlock" => RwInv)'
    BY <1>3, CountChange, NobodyCounted DEF Unlock, At, Goto, Again, NoFrame,
       Halves, TypeOK, IInv, RwInv, OneHolder, Holds, Writing, Reading,
       ReadSoFar, PairInv, Counted, PlusReaders, Unlocked, OwnLabels, word,
       pair
  <2> QED
    BY <2>1, <2>2, <2>3, <2>4, <2>5 DEF IInv
<1>4. CASE Got(t)
  <2>1. (\A u \in Threads : OwnLabels(u))'
    BY <1>4 DEF Got, At, Goto, Again, NoFrame, Halves, TypeOK, IInv,
       OwnLabels, word
  <2>2. OneHolder'
    BY <1>4 DEF Got, At, Goto, Again, NoFrame, Halves, TypeOK, IInv,
       OneHolder, Holds, Writing, OwnLabels, word, SeqInv, RwInv, Unlocked
  <2>3. PairInv'
    BY <1>4 DEF Got, At, Goto, Again, NoFrame, Halves, TypeOK, IInv, PairInv,
       Whole, OneHolder, Holds, Writing, Reading, ReadSoFar, SeqInv, RwInv,
       OwnLabels, word, pair, Unlocked
  <2>4. (kind = "seqlock" => SeqInv)'
    BY <1>4, OddEven DEF Got, At, Goto, Again, NoFrame, Halves, TypeOK, IInv,
       SeqInv, OneHolder, Holds, Writing, Reading, ReadSoFar, PairInv,
       OwnLabels, word, pair
  <2>5. (kind # "seqlock" => RwInv)'
    <3> SUFFICES ASSUME kind # "seqlock" PROVE RwInv'
      BY <1>4 DEF Got, word
    <3>1. (locked.readers = Cardinality(CountedSet))'
      BY <1>4, CountChange DEF Got, At, Goto, Again, NoFrame, TypeOK, IInv,
         RwInv, Counted, Reading, PlusReaders, OwnLabels, word
    <3>2. (locked.writer <=> \E u \in Threads : Holds(u))'
      BY <1>4 DEF Got, At, Goto, Again, NoFrame, TypeOK, IInv, RwInv, Holds,
         Writing, PlusReaders, OwnLabels, word
    <3>3. (\A u, v \in Threads : Writing(u) => ~Reading(v))'
      BY <1>4 DEF Got, At, Goto, Again, NoFrame, TypeOK, IInv, RwInv, Holds,
         Writing, Reading, word
    <3>4. (\A u \in Threads : Reading(u) => ReadSoFar(u))'
      BY <1>4 DEF Got, At, Goto, Again, NoFrame, TypeOK, IInv, RwInv,
         PairInv, Halves, Writing, Reading, ReadSoFar, word, pair
    <3>5. (\A u \in Threads :
             kind = "readstarve" /\ pc[u] \in {"lockCas", "slowCas"} =>
               ~frame[u].locked.writer)'
      BY <1>4 DEF Got, At, Goto, Again, NoFrame, TypeOK, IInv, RwInv,
         OwnLabels, Unlocked, word
    <3> QED
      BY <3>1, <3>2, <3>3, <3>4, <3>5 DEF RwInv
  <2> QED
    BY <2>1, <2>2, <2>3, <2>4, <2>5 DEF IInv
<1>5. CASE ReadA(t)
  <2>1. (\A u \in Threads : OwnLabels(u))'
    BY <1>5 DEF ReadA, At, Halves, TypeOK, IInv, OwnLabels, word
  <2>2. OneHolder'
    BY <1>5 DEF ReadA, At, Halves, TypeOK, IInv, OneHolder, Holds, Writing,
       OwnLabels, word, SeqInv, RwInv, Unlocked
  <2>3. PairInv'
    BY <1>5 DEF ReadA, At, Halves, TypeOK, IInv, PairInv, Whole, OneHolder,
       Holds, Writing, Reading, ReadSoFar, SeqInv, RwInv, OwnLabels, word,
       pair, Unlocked
  <2>4. (kind = "seqlock" => SeqInv)'
    BY <1>5, OddEven DEF ReadA, At, Halves, TypeOK, IInv, SeqInv, OneHolder,
       Holds, Writing, Reading, ReadSoFar, PairInv, OwnLabels, word, pair
  <2>5. (kind # "seqlock" => RwInv)'
    <3> SUFFICES ASSUME kind # "seqlock" PROVE RwInv'
      BY <1>5 DEF ReadA, word
    <3>1. (locked.readers = Cardinality(CountedSet))'
      BY <1>5, CountChange DEF ReadA, At, Halves, TypeOK, IInv, RwInv,
         Counted, Reading, word
    <3>2. (locked.writer <=> \E u \in Threads : Holds(u))'
      BY <1>5 DEF ReadA, At, Halves, TypeOK, IInv, RwInv, Holds, Writing,
         word
    <3>3. (\A u, v \in Threads : Writing(u) => ~Reading(v))'
      BY <1>5 DEF ReadA, At, Halves, TypeOK, IInv, RwInv, Writing, Reading,
         word
    <3>4. (\A u \in Threads : Reading(u) => ReadSoFar(u))'
      BY <1>5 DEF ReadA, At, Halves, TypeOK, IInv, RwInv, Reading, ReadSoFar,
         PairInv, word, pair
    <3>5. (\A u \in Threads :
             kind = "readstarve" /\ pc[u] \in {"lockCas", "slowCas"} =>
               ~frame[u].locked.writer)'
      BY <1>5 DEF ReadA, At, Halves, TypeOK, IInv, RwInv, OwnLabels,
         Unlocked, word
    <3> QED
      BY <3>1, <3>2, <3>3, <3>4, <3>5 DEF RwInv
  <2> QED
    BY <2>1, <2>2, <2>3, <2>4, <2>5 DEF IInv
<1>6. CASE ReadB(t)
  <2>1. (\A u \in Threads : OwnLabels(u))'
    BY <1>6 DEF ReadB, At, Halves, TypeOK, IInv, OwnLabels, word
  <2>2. OneHolder'
    BY <1>6 DEF ReadB, At, Halves, TypeOK, IInv, OneHolder, Holds, Writing,
       OwnLabels, word, SeqInv, RwInv, Unlocked
  <2>3. PairInv'
    BY <1>6 DEF ReadB, At, Halves, TypeOK, IInv, PairInv, Whole, OneHolder,
       Holds, Writing, Reading, ReadSoFar, SeqInv, RwInv, OwnLabels, word,
       pair, Unlocked
  <2>4. (kind = "seqlock" => SeqInv)'
    BY <1>6, OddEven DEF ReadB, At, Halves, TypeOK, IInv, SeqInv, OneHolder,
       Holds, Writing, Reading, ReadSoFar, PairInv, OwnLabels, word, pair
  <2>5. (kind # "seqlock" => RwInv)'
    <3> SUFFICES ASSUME kind # "seqlock" PROVE RwInv'
      BY <1>6 DEF ReadB, word
    <3>1. (locked.readers = Cardinality(CountedSet))'
      BY <1>6, CountChange DEF ReadB, At, Halves, TypeOK, IInv, RwInv,
         Counted, Reading, word
    <3>2. (locked.writer <=> \E u \in Threads : Holds(u))'
      BY <1>6 DEF ReadB, At, Halves, TypeOK, IInv, RwInv, Holds, Writing,
         word
    <3>3. (\A u, v \in Threads : Writing(u) => ~Reading(v))'
      BY <1>6 DEF ReadB, At, Halves, TypeOK, IInv, RwInv, Writing, Reading,
         word
    <3>4. (\A u \in Threads : Reading(u) => ReadSoFar(u))'
      BY <1>6 DEF ReadB, At, Halves, TypeOK, IInv, RwInv, Reading, ReadSoFar,
         PairInv, word, pair
    <3>5. (\A u \in Threads :
             kind = "readstarve" /\ pc[u] \in {"lockCas", "slowCas"} =>
               ~frame[u].locked.writer)'
      BY <1>6 DEF ReadB, At, Halves, TypeOK, IInv, RwInv, OwnLabels,
         Unlocked, word
    <3> QED
      BY <3>1, <3>2, <3>3, <3>4, <3>5 DEF RwInv
  <2> QED
    BY <2>1, <2>2, <2>3, <2>4, <2>5 DEF IInv
<1>7. CASE WriteNext(t)
  <2>1. (\A u \in Threads : OwnLabels(u))'
    BY <1>7 DEF WriteNext, At, Goto, TypeOK, IInv, OwnLabels, word
  <2>2. OneHolder'
    BY <1>7 DEF WriteNext, At, Goto, TypeOK, IInv, OneHolder, Holds, Writing,
       OwnLabels, word, SeqInv, RwInv, Unlocked
  <2>3. PairInv'
    BY <1>7 DEF WriteNext, At, Goto, TypeOK, IInv, PairInv, Whole, Halves,
       OneHolder, Holds, Writing, Reading, ReadSoFar, SeqInv, RwInv,
       OwnLabels, word, pair, Unlocked
  <2>4. (kind = "seqlock" => SeqInv)'
    BY <1>7, OddEven DEF WriteNext, At, Goto, TypeOK, IInv, SeqInv,
       OneHolder, Holds, Writing, Reading, ReadSoFar, PairInv, Halves,
       OwnLabels, word, pair
  <2>5. (kind # "seqlock" => RwInv)'
    <3> SUFFICES ASSUME kind # "seqlock" PROVE RwInv'
      BY <1>7 DEF WriteNext, word
    <3>1. (locked.readers = Cardinality(CountedSet))'
      BY <1>7, CountChange DEF WriteNext, At, Goto, TypeOK, IInv, RwInv,
         Counted, Reading, PlusReaders, OwnLabels, word
    <3>2. (locked.writer <=> \E u \in Threads : Holds(u))'
      BY <1>7 DEF WriteNext, At, Goto, TypeOK, IInv, RwInv, Holds, Writing,
         PlusReaders, OwnLabels, word
    <3>3. (\A u, v \in Threads : Writing(u) => ~Reading(v))'
      BY <1>7 DEF WriteNext, At, Goto, TypeOK, IInv, RwInv, Holds, Writing,
         Reading, word
    <3>4. (\A u \in Threads : Reading(u) => ReadSoFar(u))'
      BY <1>7 DEF WriteNext, At, Goto, TypeOK, IInv, RwInv, PairInv, Halves,
         Writing, Reading, ReadSoFar, word, pair
    <3>5. (\A u \in Threads :
             kind = "readstarve" /\ pc[u] \in {"lockCas", "slowCas"} =>
               ~frame[u].locked.writer)'
      BY <1>7 DEF WriteNext, At, Goto, TypeOK, IInv, RwInv, OwnLabels,
         Unlocked, word
    <3> QED
      BY <3>1, <3>2, <3>3, <3>4, <3>5 DEF RwInv
  <2> QED
    BY <2>1, <2>2, <2>3, <2>4, <2>5 DEF IInv
<1>8. CASE WriteA(t)
  <2>1. (\A u \in Threads : OwnLabels(u))'
    BY <1>8 DEF WriteA, At, Goto, TypeOK, IInv, OwnLabels, word
  <2>2. OneHolder'
    BY <1>8 DEF WriteA, At, Goto, TypeOK, IInv, OneHolder, Holds, Writing,
       OwnLabels, word, SeqInv, RwInv, Unlocked
  <2>3. PairInv'
    BY <1>8 DEF WriteA, At, Goto, TypeOK, IInv, PairInv, Whole, Halves,
       OneHolder, Holds, Writing, Reading, ReadSoFar, SeqInv, RwInv,
       OwnLabels, word, pair, Unlocked
  <2>4. (kind = "seqlock" => SeqInv)'
    BY <1>8, OddEven DEF WriteA, At, Goto, TypeOK, IInv, SeqInv, OneHolder,
       Holds, Writing, Reading, ReadSoFar, PairInv, Halves, OwnLabels, word,
       pair
  <2>5. (kind # "seqlock" => RwInv)'
    <3> SUFFICES ASSUME kind # "seqlock" PROVE RwInv'
      BY <1>8 DEF WriteA, word
    <3>1. (locked.readers = Cardinality(CountedSet))'
      BY <1>8, CountChange DEF WriteA, At, Goto, TypeOK, IInv, RwInv,
         Counted, Reading, PlusReaders, OwnLabels, word
    <3>2. (locked.writer <=> \E u \in Threads : Holds(u))'
      BY <1>8 DEF WriteA, At, Goto, TypeOK, IInv, RwInv, Holds, Writing,
         PlusReaders, OwnLabels, word
    <3>3. (\A u, v \in Threads : Writing(u) => ~Reading(v))'
      BY <1>8 DEF WriteA, At, Goto, TypeOK, IInv, RwInv, Holds, Writing,
         Reading, word
    <3>4. (\A u \in Threads : Reading(u) => ReadSoFar(u))'
      BY <1>8 DEF WriteA, At, Goto, TypeOK, IInv, RwInv, PairInv, Halves,
         Writing, Reading, ReadSoFar, word, pair
    <3>5. (\A u \in Threads :
             kind = "readstarve" /\ pc[u] \in {"lockCas", "slowCas"} =>
               ~frame[u].locked.writer)'
      BY <1>8 DEF WriteA, At, Goto, TypeOK, IInv, RwInv, OwnLabels, Unlocked,
         word
    <3> QED
      BY <3>1, <3>2, <3>3, <3>4, <3>5 DEF RwInv
  <2> QED
    BY <2>1, <2>2, <2>3, <2>4, <2>5 DEF IInv
<1>9. CASE WriteB(t)
  <2>1. (\A u \in Threads : OwnLabels(u))'
    BY <1>9 DEF WriteB, At, Goto, TypeOK, IInv, OwnLabels, word
  <2>2. OneHolder'
    BY <1>9 DEF WriteB, At, Goto, TypeOK, IInv, OneHolder, Holds, Writing,
       OwnLabels, word, SeqInv, RwInv, Unlocked
  <2>3. PairInv'
    BY <1>9 DEF WriteB, At, Goto, TypeOK, IInv, PairInv, Whole, Halves,
       OneHolder, Holds, Writing, Reading, ReadSoFar, SeqInv, RwInv,
       OwnLabels, word, pair, Unlocked
  <2>4. (kind = "seqlock" => SeqInv)'
    BY <1>9, OddEven DEF WriteB, At, Goto, TypeOK, IInv, SeqInv, OneHolder,
       Holds, Writing, Reading, ReadSoFar, PairInv, Halves, OwnLabels, word,
       pair
  <2>5. (kind # "seqlock" => RwInv)'
    <3> SUFFICES ASSUME kind # "seqlock" PROVE RwInv'
      BY <1>9 DEF WriteB, word
    <3>1. (locked.readers = Cardinality(CountedSet))'
      BY <1>9, CountChange DEF WriteB, At, Goto, TypeOK, IInv, RwInv,
         Counted, Reading, PlusReaders, OwnLabels, word
    <3>2. (locked.writer <=> \E u \in Threads : Holds(u))'
      BY <1>9 DEF WriteB, At, Goto, TypeOK, IInv, RwInv, Holds, Writing,
         PlusReaders, OwnLabels, word
    <3>3. (\A u, v \in Threads : Writing(u) => ~Reading(v))'
      BY <1>9 DEF WriteB, At, Goto, TypeOK, IInv, RwInv, Holds, Writing,
         Reading, word
    <3>4. (\A u \in Threads : Reading(u) => ReadSoFar(u))'
      BY <1>9 DEF WriteB, At, Goto, TypeOK, IInv, RwInv, PairInv, Halves,
         Writing, Reading, ReadSoFar, word, pair
    <3>5. (\A u \in Threads :
             kind = "readstarve" /\ pc[u] \in {"lockCas", "slowCas"} =>
               ~frame[u].locked.writer)'
      BY <1>9 DEF WriteB, At, Goto, TypeOK, IInv, RwInv, OwnLabels, Unlocked,
         word
    <3> QED
      BY <3>1, <3>2, <3>3, <3>4, <3>5 DEF RwInv
  <2> QED
    BY <2>1, <2>2, <2>3, <2>4, <2>5 DEF IInv
<1> QED
  BY <1>1, <1>2, <1>3, <1>4, <1>5, <1>6, <1>7, <1>8, <1>9 DEF CommonStep

LEMMA BeginSteps ==
  ASSUME IInv, TypeOK', NEW t \in Threads, Begin(t)
  PROVE  IInv'
<1>1. CASE Begin(t)
  <2>1. (\A u \in Threads : OwnLabels(u))'
    BY <1>1 DEF Begin, At, Goto, TypeOK, IInv, OwnLabels, word
  <2>2. OneHolder'
    BY <1>1 DEF Begin, At, Goto, TypeOK, IInv, OneHolder, Holds, Writing,
       OwnLabels, word, SeqInv, RwInv, Unlocked
  <2>3. PairInv'
    BY <1>1 DEF Begin, At, Goto, TypeOK, IInv, PairInv, Whole, Halves,
       OneHolder, Holds, Writing, Reading, ReadSoFar, SeqInv, RwInv,
       OwnLabels, word, pair, Unlocked
  <2>4. (kind = "seqlock" => SeqInv)'
    BY <1>1, OddEven DEF Begin, At, Goto, TypeOK, IInv, SeqInv, OneHolder,
       Holds, Writing, Reading, ReadSoFar, PairInv, Halves, OwnLabels, word,
       pair
  <2>5. (kind # "seqlock" => RwInv)'
    BY <1>1, CountChange, NobodyCounted DEF Begin, At, Goto, TypeOK, IInv,
       RwInv, OneHolder, Holds, Writing, Reading, ReadSoFar, PairInv, Halves,
       Counted, PlusReaders, Unlocked, OwnLabels, word, pair
  <2> QED
    BY <2>1, <2>2, <2>3, <2>4, <2>5 DEF IInv
<1> QED
  BY <1>1

-----------------------------------------------------------------------------
LEMMA InvInit == Init => IInv
<1> SUFFICES ASSUME Init PROVE IInv
  OBVIOUS
<1>1. CountedSet = {}
  BY DEF Init, CountedSet, Counted, Reading
<1>2. PairInv /\ OneHolder /\ \A t \in Threads : OwnLabels(t)
  <2>1. a = 0 /\ b = 0
        /\ \A t \in Threads : pc[t] = "idle" /\ frame[t].due = Halves
    BY DEF Init, NoFrame
  <2>2. b = 0 - a
    BY <2>1
  <2> QED
    BY <2>1, <2>2 DEF PairInv, Whole, Halves, OneHolder, Holds, Writing,
       OwnLabels
<1>3. SeqInv
  <2>1. ~IsLocked(0)
    BY DEF IsLocked
  <2> QED
    BY <2>1 DEF Init, SeqInv, Holds, Writing, Reading
<1>4. RwInv
  BY <1>1, FS_EmptySet DEF Init, RwInv, Unlocked, NoFrame, Holds, Writing,
     Reading
<1> QED
  BY <1>2, <1>3, <1>4, TypeInit DEF IInv

LEMMA Inductive == Spec => []IInv
<1>1. IInv /\ [Next]_vars => IInv'
  <2> SUFFICES ASSUME IInv, [Next]_vars PROVE IInv'
    OBVIOUS
  <2>1. CASE Next
    <3> PICK t \in Threads : Begin(t) \/ Proceed(t)
      BY <2>1 DEF Next
    <3>1. TypeOK'
      BY TypeStep DEF IInv
    <3>2. CASE Begin(t)
      BY <3>1, <3>2, BeginSteps
    <3>3. CASE Proceed(t)
      BY <3>1, <3>3, SeqSteps, ReadStarveSteps, WriteStarveSteps, CommonSteps
         DEF Proceed
    <3> QED
      BY <3>2, <3>3
  <2>2. CASE UNCHANGED vars
    <3>1. UNCHANGED <<kind, count, locked, a, b, pc, frame>>
      BY <2>2 DEF vars, word, pair
    <3>2. CountedSet' = CountedSet
      BY <3>1 DEF CountedSet, Counted, Reading
    <3> QED
      BY <3>1, <3>2 DEF IInv, TypeOK, OwnLabels, OneHolder, Holds, Writing,
         Reading, PairInv, Whole, Halves, SeqInv, RwInv, ReadSoFar
  <2> QED
    BY <2>1, <2>2
<1> QED
  BY InvInit, <1>1, PTL DEF Spec

-----------------------------------------------------------------------------
(* The words and locals of the locks keep their types. *)
THEOREM TypeCorrect == Spec => []TypeOK
  BY Typing

(* What a reader of a reader-writer lock returns are the two halves of one *)
(* pair: the assertion of seqlock-test.cpp, for any number of readers and  *)
(* writers.  Under the sequence lock the halves are those of one pair when *)
(* both loads were performed before the count was found unchanged.         *)
THEOREM WholePairs == Spec => []InOrderReadsWhole
<1>1. IInv => InOrderReadsWhole
  <2> SUFFICES ASSUME IInv, NEW t \in Threads,
                      IF kind = "seqlock" THEN Finds(t) ELSE HasRead(t)
               PROVE  Whole(t)
    BY DEF InOrderReadsWhole
  <2>1. CASE kind = "seqlock"
    <3>1. /\ ~IsLocked(count)
          /\ frame[t].a = a /\ frame[t].b = b
      BY <2>1 DEF IInv, SeqInv, Finds, Reading, ReadSoFar
    <3>2. \A u \in Threads : pc[u] # "writeB"
      BY <2>1, <3>1 DEF IInv, SeqInv, Holds, Writing
    <3> QED
      BY <3>1, <3>2 DEF IInv, PairInv, Whole
  <2>2. CASE kind # "seqlock"
    BY <2>2 DEF IInv, PairInv, HasRead
  <2> QED
    BY <2>1, <2>2
<1> QED
  BY <1>1, Inductive, PTL

(* Nobody writes while another writes, nor, under a reader-writer lock,    *)
(* while another reads.                                                    *)
THEOREM Exclusion == Spec => []WritersAlone
<1>1. IInv => WritersAlone
  BY DEF IInv, WritersAlone, OneHolder, Holds, RwInv
<1> QED
  BY <1>1, Inductive, PTL

-----------------------------------------------------------------------------
(* The four slots.                                                         *)
Locs == Bit \X Bit

SlotTypeOK ==
  /\ cell \in [Locs -> [first : Nat, second : Nat]]
  /\ slot \in [Bit -> Bit] /\ latest \in Bit /\ reading \in Bit /\ next \in Bit
  /\ writeLoc \in Locs /\ readLoc \in Locs
  /\ writer \in {"first", "second", "slot", "latest", "next"}
  /\ reader \in {"latest", "reading", "slot", "first", "second", "got"}
  /\ written \in Nat
  /\ value \in [first : Nat, second : Nat]

WriteInHand == writer \in {"first", "second"}
ReadInHand == reader \in {"first", "second"}

(* The writer writes where the reader would not look. *)
WriteElsewhere ==
  IF written = 0
  THEN /\ writeLoc = <<1, 0>>
       /\ WriteInHand => (latest = 0 \/ slot[1] = 1)
  ELSE WriteInHand => writeLoc = <<next, 1 - slot[next]>>

(* The reader announced the pair it reads in, and if the writer writes in  *)
(* the same pair it had chosen it before.                                  *)
ReadApart ==
  /\ reader \in {"slot", "first", "second"} => reading = readLoc[1]
  /\ ReadInHand /\ WriteInHand => readLoc # writeLoc
  /\ written = 0 /\ WriteInHand /\ reader \in {"reading", "slot"} =>
       (readLoc[1] = 0 \/ slot[1] = 1)

HalvesWritten ==
  /\ writer = "second" => cell[writeLoc].first = written + 1
  /\ \A loc \in Locs :
       ~(writer = "second" /\ loc = writeLoc) =>
         cell[loc].first = cell[loc].second

HalvesRead ==
  /\ reader = "second" => value.first = cell[readLoc].first
  /\ HalvesMatch

SlotInv == SlotTypeOK /\ WriteElsewhere /\ ReadApart /\ HalvesWritten /\ HalvesRead

-----------------------------------------------------------------------------
LEMMA InitSlots ==
  ASSUME SafeMemory, SlotInit
  PROVE  SlotInv
<1>1. PICK m \in Memory : /\ slot = m.slot /\ latest = m.latest
                          /\ reading = m.reading /\ next = m.next
  BY DEF SlotInit
<1>2. /\ slot \in [Bit -> Bit] /\ latest \in Bit /\ reading \in Bit /\ next \in Bit
      /\ latest = 1 => slot[1] = 1
  BY <1>1, MemoryAssumption DEF SafeMemory
<1>3. SlotTypeOK
  BY <1>2 DEF SlotInit, SlotTypeOK, Nothing, Bit, Locs
<1>4. WriteElsewhere /\ ReadApart /\ HalvesWritten /\ HalvesRead
  BY <1>2 DEF SlotInit, WriteElsewhere, ReadApart, HalvesWritten, HalvesRead,
     HalvesMatch, WriteInHand, ReadInHand, Nothing, Bit, Locs
<1> QED
  BY <1>3, <1>4 DEF SlotInv

(* Two locations are the same if their indices are. *)
LEMMA LocPairs ==
  /\ \A p, i \in Bit : /\ <<p, i>> \in Locs
                       /\ <<p, i>>[1] = p /\ <<p, i>>[2] = i
                       /\ 1 - p \in Bit /\ 1 - p # p
  /\ \A l \in Locs : l[1] \in Bit /\ l[2] \in Bit /\ l = <<l[1], l[2]>>
  BY DEF Locs, Bit

LEMMA StepSlots ==
  ASSUME SlotInv, SlotNext
  PROVE  SlotInv'
<1> USE LocPairs
<1>1. CASE WriteFirst
  <2>1. SlotTypeOK'
    BY <1>1 DEF WriteFirst, WriterAt, ReaderAt, indices, writing, readVars,
       SlotInv, SlotTypeOK
  <2>2. WriteElsewhere'
    BY <1>1 DEF WriteFirst, WriterAt, ReaderAt, indices, writing, readVars,
       SlotInv, SlotTypeOK, WriteElsewhere, WriteInHand
  <2>3. ReadApart'
    BY <1>1 DEF WriteFirst, WriterAt, ReaderAt, indices, writing, readVars,
       SlotInv, SlotTypeOK, WriteElsewhere, ReadApart, WriteInHand,
       ReadInHand
  <2>4. HalvesWritten'
    BY <1>1 DEF WriteFirst, WriterAt, ReaderAt, indices, writing, readVars,
       SlotInv, SlotTypeOK, HalvesWritten
  <2>5. HalvesRead'
    BY <1>1 DEF WriteFirst, WriterAt, ReaderAt, indices, writing, readVars,
       SlotInv, SlotTypeOK, ReadApart, HalvesWritten, HalvesRead,
       HalvesMatch, WriteInHand, ReadInHand
  <2> QED
    BY <2>1, <2>2, <2>3, <2>4, <2>5 DEF SlotInv
<1>2. CASE WriteSecond
  <2>1. SlotTypeOK'
    BY <1>2 DEF WriteSecond, WriterAt, ReaderAt, indices, writing, readVars,
       SlotInv, SlotTypeOK
  <2>2. WriteElsewhere'
    BY <1>2 DEF WriteSecond, WriterAt, ReaderAt, indices, writing, readVars,
       SlotInv, SlotTypeOK, WriteElsewhere, WriteInHand
  <2>3. ReadApart'
    BY <1>2 DEF WriteSecond, WriterAt, ReaderAt, indices, writing, readVars,
       SlotInv, SlotTypeOK, WriteElsewhere, ReadApart, WriteInHand,
       ReadInHand
  <2>4. HalvesWritten'
    BY <1>2 DEF WriteSecond, WriterAt, ReaderAt, indices, writing, readVars,
       SlotInv, SlotTypeOK, HalvesWritten
  <2>5. HalvesRead'
    BY <1>2 DEF WriteSecond, WriterAt, ReaderAt, indices, writing, readVars,
       SlotInv, SlotTypeOK, ReadApart, HalvesWritten, HalvesRead,
       HalvesMatch, WriteInHand, ReadInHand
  <2> QED
    BY <2>1, <2>2, <2>3, <2>4, <2>5 DEF SlotInv
<1>3. CASE FlipSlot
  <2>1. SlotTypeOK'
    BY <1>3 DEF FlipSlot, WriterAt, ReaderAt, indices, writing, readVars,
       SlotInv, SlotTypeOK
  <2>2. WriteElsewhere'
    BY <1>3 DEF FlipSlot, WriterAt, ReaderAt, indices, writing, readVars,
       SlotInv, SlotTypeOK, WriteElsewhere, WriteInHand
  <2>3. ReadApart'
    BY <1>3 DEF FlipSlot, WriterAt, ReaderAt, indices, writing, readVars,
       SlotInv, SlotTypeOK, WriteElsewhere, ReadApart, WriteInHand,
       ReadInHand
  <2>4. HalvesWritten'
    BY <1>3 DEF FlipSlot, WriterAt, ReaderAt, indices, writing, readVars,
       SlotInv, SlotTypeOK, HalvesWritten
  <2>5. HalvesRead'
    BY <1>3 DEF FlipSlot, WriterAt, ReaderAt, indices, writing, readVars,
       SlotInv, SlotTypeOK, ReadApart, HalvesWritten, HalvesRead,
       HalvesMatch, WriteInHand, ReadInHand
  <2> QED
    BY <2>1, <2>2, <2>3, <2>4, <2>5 DEF SlotInv
<1>4. CASE StoreLatest
  <2>1. SlotTypeOK'
    BY <1>4 DEF StoreLatest, WriterAt, ReaderAt, indices, writing, readVars,
       SlotInv, SlotTypeOK
  <2>2. WriteElsewhere'
    BY <1>4 DEF StoreLatest, WriterAt, ReaderAt, indices, writing, readVars,
       SlotInv, SlotTypeOK, WriteElsewhere, WriteInHand
  <2>3. ReadApart'
    BY <1>4 DEF StoreLatest, WriterAt, ReaderAt, indices, writing, readVars,
       SlotInv, SlotTypeOK, WriteElsewhere, ReadApart, WriteInHand,
       ReadInHand
  <2>4. HalvesWritten'
    BY <1>4 DEF StoreLatest, WriterAt, ReaderAt, indices, writing, readVars,
       SlotInv, SlotTypeOK, HalvesWritten
  <2>5. HalvesRead'
    BY <1>4 DEF StoreLatest, WriterAt, ReaderAt, indices, writing, readVars,
       SlotInv, SlotTypeOK, ReadApart, HalvesWritten, HalvesRead,
       HalvesMatch, WriteInHand, ReadInHand
  <2> QED
    BY <2>1, <2>2, <2>3, <2>4, <2>5 DEF SlotInv
<1>5. CASE ChooseNext
  <2>1. SlotTypeOK'
    <3>1. 1 - reading \in Bit /\ slot[1 - reading] \in Bit
      BY <1>5 DEF SlotInv, SlotTypeOK
    <3>2. <<1 - reading, 1 - slot[1 - reading]>> \in Locs
      BY <3>1
    <3> QED
      BY <1>5, <3>1, <3>2 DEF ChooseNext, WriterAt, readVars, SlotInv, SlotTypeOK
  <2>2. WriteElsewhere'
    BY <1>5 DEF ChooseNext, WriterAt, ReaderAt, indices, writing, readVars,
       SlotInv, SlotTypeOK, WriteElsewhere, WriteInHand
  <2>3. ReadApart'
    BY <1>5 DEF ChooseNext, WriterAt, ReaderAt, indices, writing, readVars,
       SlotInv, SlotTypeOK, WriteElsewhere, ReadApart, WriteInHand,
       ReadInHand
  <2>4. HalvesWritten'
    BY <1>5 DEF ChooseNext, WriterAt, ReaderAt, indices, writing, readVars,
       SlotInv, SlotTypeOK, HalvesWritten
  <2>5. HalvesRead'
    BY <1>5 DEF ChooseNext, WriterAt, ReaderAt, indices, writing, readVars,
       SlotInv, SlotTypeOK, ReadApart, HalvesWritten, HalvesRead,
       HalvesMatch, WriteInHand, ReadInHand
  <2> QED
    BY <2>1, <2>2, <2>3, <2>4, <2>5 DEF SlotInv
<1>6. CASE ReadLatest
  <2>1. SlotTypeOK'
    <3>1. <<latest, 0>> \in Locs
      BY DEF SlotInv, SlotTypeOK, Bit
    <3> QED
      BY <1>6, <3>1 DEF ReadLatest, ReaderAt, indices, writing, SlotInv,
         SlotTypeOK
  <2>2. WriteElsewhere'
    BY <1>6 DEF ReadLatest, WriterAt, ReaderAt, indices, writing, readVars,
       SlotInv, SlotTypeOK, WriteElsewhere, WriteInHand
  <2>3. ReadApart'
    BY <1>6 DEF ReadLatest, WriterAt, ReaderAt, indices, writing, readVars,
       SlotInv, SlotTypeOK, WriteElsewhere, ReadApart, WriteInHand,
       ReadInHand
  <2>4. HalvesWritten'
    BY <1>6 DEF ReadLatest, WriterAt, ReaderAt, indices, writing, readVars,
       SlotInv, SlotTypeOK, HalvesWritten
  <2>5. HalvesRead'
    BY <1>6 DEF ReadLatest, WriterAt, ReaderAt, indices, writing, readVars,
       SlotInv, SlotTypeOK, ReadApart, HalvesWritten, HalvesRead,
       HalvesMatch, WriteInHand, ReadInHand
  <2> QED
    BY <2>1, <2>2, <2>3, <2>4, <2>5 DEF SlotInv
<1>7. CASE StoreReading
  <2>1. SlotTypeOK'
    BY <1>7 DEF StoreReading, WriterAt, ReaderAt, indices, writing, readVars,
       SlotInv, SlotTypeOK
  <2>2. WriteElsewhere'
    BY <1>7 DEF StoreReading, WriterAt, ReaderAt, indices, writing, readVars,
       SlotInv, SlotTypeOK, WriteElsewhere, WriteInHand
  <2>3. ReadApart'
    BY <1>7 DEF StoreReading, WriterAt, ReaderAt, indices, writing, readVars,
       SlotInv, SlotTypeOK, WriteElsewhere, ReadApart, WriteInHand,
       ReadInHand
  <2>4. HalvesWritten'
    BY <1>7 DEF StoreReading, WriterAt, ReaderAt, indices, writing, readVars,
       SlotInv, SlotTypeOK, HalvesWritten
  <2>5. HalvesRead'
    BY <1>7 DEF StoreReading, WriterAt, ReaderAt, indices, writing, readVars,
       SlotInv, SlotTypeOK, ReadApart, HalvesWritten, HalvesRead,
       HalvesMatch, WriteInHand, ReadInHand
  <2> QED
    BY <2>1, <2>2, <2>3, <2>4, <2>5 DEF SlotInv
<1>8. CASE ReadSlot
  <2>1. SlotTypeOK'
    BY <1>8 DEF ReadSlot, WriterAt, ReaderAt, indices, writing, readVars,
       SlotInv, SlotTypeOK
  <2>2. WriteElsewhere'
    BY <1>8 DEF ReadSlot, WriterAt, ReaderAt, indices, writing, readVars,
       SlotInv, SlotTypeOK, WriteElsewhere, WriteInHand
  <2>3. ReadApart'
    <3> DEFINE p == readLoc[1]
    <3>1. /\ p \in Bit /\ slot[p] \in Bit /\ reading = p
          /\ readLoc' = <<p, slot[p]>> /\ reader' = "first"
          /\ UNCHANGED <<writer, written, writeLoc, slot, next, reading>>
      BY <1>8 DEF ReadSlot, ReaderAt, indices, writing, SlotInv, SlotTypeOK,
         ReadApart
    <3>2. readLoc'[1] = p /\ readLoc'[2] = slot[p]
      BY <3>1
    <3>3. ASSUME WriteInHand PROVE readLoc' # writeLoc
      <4>1. CASE written = 0
        <5>1. writeLoc[1] = 1 /\ writeLoc[2] = 0
          BY <4>1 DEF SlotInv, WriteElsewhere
        <5>2. p = 0 \/ slot[1] = 1
          BY <1>8, <3>3, <4>1 DEF ReadSlot, SlotInv, ReadApart
        <5> QED
          BY <3>1, <3>2, <5>1, <5>2 DEF Bit
      <4>2. CASE written # 0
        <5>1. next \in Bit /\ slot[next] \in Bit
          BY DEF SlotInv, SlotTypeOK
        <5>2. writeLoc = <<next, 1 - slot[next]>>
          BY <3>3, <4>2 DEF SlotInv, WriteElsewhere
        <5>3. writeLoc[1] = next /\ writeLoc[2] = 1 - slot[next]
          BY <5>1, <5>2
        <5> QED
          BY <3>1, <3>2, <5>1, <5>3 DEF Bit
      <4> QED
        BY <4>1, <4>2
    <3> QED
      BY <3>1, <3>2, <3>3 DEF ReadApart, WriteInHand, ReadInHand
  <2>4. HalvesWritten'
    BY <1>8 DEF ReadSlot, WriterAt, ReaderAt, indices, writing, readVars,
       SlotInv, SlotTypeOK, HalvesWritten
  <2>5. HalvesRead'
    BY <1>8 DEF ReadSlot, WriterAt, ReaderAt, indices, writing, readVars,
       SlotInv, SlotTypeOK, ReadApart, HalvesWritten, HalvesRead,
       HalvesMatch, WriteInHand, ReadInHand
  <2> QED
    BY <2>1, <2>2, <2>3, <2>4, <2>5 DEF SlotInv
<1>9. CASE ReadFirst
  <2>1. SlotTypeOK'
    BY <1>9 DEF ReadFirst, WriterAt, ReaderAt, indices, writing, readVars,
       SlotInv, SlotTypeOK
  <2>2. WriteElsewhere'
    BY <1>9 DEF ReadFirst, WriterAt, ReaderAt, indices, writing, readVars,
       SlotInv, SlotTypeOK, WriteElsewhere, WriteInHand
  <2>3. ReadApart'
    BY <1>9 DEF ReadFirst, WriterAt, ReaderAt, indices, writing, readVars,
       SlotInv, SlotTypeOK, WriteElsewhere, ReadApart, WriteInHand,
       ReadInHand
  <2>4. HalvesWritten'
    BY <1>9 DEF ReadFirst, WriterAt, ReaderAt, indices, writing, readVars,
       SlotInv, SlotTypeOK, HalvesWritten
  <2>5. HalvesRead'
    BY <1>9 DEF ReadFirst, WriterAt, ReaderAt, indices, writing, readVars,
       SlotInv, SlotTypeOK, ReadApart, HalvesWritten, HalvesRead,
       HalvesMatch, WriteInHand, ReadInHand
  <2> QED
    BY <2>1, <2>2, <2>3, <2>4, <2>5 DEF SlotInv
<1>10. CASE ReadSecond
  <2>1. SlotTypeOK'
    BY <1>10 DEF ReadSecond, WriterAt, ReaderAt, indices, writing, readVars,
       SlotInv, SlotTypeOK
  <2>2. WriteElsewhere'
    BY <1>10 DEF ReadSecond, WriterAt, ReaderAt, indices, writing, readVars,
       SlotInv, SlotTypeOK, WriteElsewhere, WriteInHand
  <2>3. ReadApart'
    BY <1>10 DEF ReadSecond, WriterAt, ReaderAt, indices, writing, readVars,
       SlotInv, SlotTypeOK, WriteElsewhere, ReadApart, WriteInHand,
       ReadInHand
  <2>4. HalvesWritten'
    BY <1>10 DEF ReadSecond, WriterAt, ReaderAt, indices, writing, readVars,
       SlotInv, SlotTypeOK, HalvesWritten
  <2>5. HalvesRead'
    BY <1>10 DEF ReadSecond, WriterAt, ReaderAt, indices, writing, readVars,
       SlotInv, SlotTypeOK, ReadApart, HalvesWritten, HalvesRead,
       HalvesMatch, WriteInHand, ReadInHand
  <2> QED
    BY <2>1, <2>2, <2>3, <2>4, <2>5 DEF SlotInv
<1>11. CASE ReadAgain
  <2>1. SlotTypeOK'
    BY <1>11 DEF ReadAgain, WriterAt, ReaderAt, indices, writing, readVars,
       SlotInv, SlotTypeOK
  <2>2. WriteElsewhere'
    BY <1>11 DEF ReadAgain, WriterAt, ReaderAt, indices, writing, readVars,
       SlotInv, SlotTypeOK, WriteElsewhere, WriteInHand
  <2>3. ReadApart'
    BY <1>11 DEF ReadAgain, WriterAt, ReaderAt, indices, writing, readVars,
       SlotInv, SlotTypeOK, WriteElsewhere, ReadApart, WriteInHand,
       ReadInHand
  <2>4. HalvesWritten'
    BY <1>11 DEF ReadAgain, WriterAt, ReaderAt, indices, writing, readVars,
       SlotInv, SlotTypeOK, HalvesWritten
  <2>5. HalvesRead'
    BY <1>11 DEF ReadAgain, WriterAt, ReaderAt, indices, writing, readVars,
       SlotInv, SlotTypeOK, ReadApart, HalvesWritten, HalvesRead,
       HalvesMatch, WriteInHand, ReadInHand
  <2> QED
    BY <2>1, <2>2, <2>3, <2>4, <2>5 DEF SlotInv
<1> QED
  BY <1>1, <1>2, <1>3, <1>4, <1>5, <1>6, <1>7, <1>8, <1>9, <1>10, <1>11 DEF SlotNext

LEMMA SlotInvariance ==
  ASSUME SlotInv, [SlotNext]_slotVars
  PROVE  SlotInv'
<1>1. CASE SlotNext
  BY <1>1, StepSlots
<1>2. CASE UNCHANGED slotVars
  BY <1>2 DEF slotVars, indices, writing, readVars, SlotInv, SlotTypeOK,
     WriteElsewhere, ReadApart, HalvesWritten, HalvesRead, HalvesMatch,
     WriteInHand, ReadInHand
<1> QED
  BY <1>1, <1>2

(* Which memory the four slots can be constructed in: with an initial      *)
(* latest_ of 0, or a slot_[1] of 1, no read sees the halves of different  *)
(* writes, as the assertion of four_slot-test.cpp says, however many       *)
(* writes there are.                                                       *)
THEOREM HalvesBelongTogether == SafeMemory => (SlotSpec => []HalvesMatch)
<1> SUFFICES ASSUME SafeMemory PROVE SlotSpec => []HalvesMatch
  OBVIOUS
<1>1. SlotInit => SlotInv
  BY InitSlots
<1>2. SlotInv /\ [SlotNext]_slotVars => SlotInv'
  BY SlotInvariance
<1>3. SlotInv => HalvesMatch
  BY DEF SlotInv, HalvesRead
<1> QED
  BY <1>1, <1>2, <1>3, PTL DEF SlotSpec

-----------------------------------------------------------------------------
(***************************************************************************)
(* The order of what is read.  The number of a value is the number of the  *)
(* write it comes from.                                                    *)
(***************************************************************************)
Count(p) == cell[<<p, slot[p]>>].first
Floor(n) == IF n = 1 THEN 0 ELSE n

(* The number of what the write in hand publishes: the first write goes    *)
(* elsewhere.                                                              *)
NewCount == IF written = 0 THEN 0 ELSE written + 1

(* The writer leaves the pair that is read: if the latest value is not in  *)
(* it, the next one goes to where the latest is.                           *)
InTurn ==
  /\ latest # reading => next = latest
  /\ reader = "reading" /\ readLoc[1] # reading => latest = readLoc[1]

(* The latest pair holds what was written last; the other holds something  *)
(* older, or the first value, or what is about to become the latest.       *)
Numbered ==
  /\ \A loc \in Locs : cell[loc].first <= written + 1
  /\ written = 0 => /\ next = 0
                    /\ \A loc \in Locs : loc # <<1, 0>> => cell[loc].first = 0
  /\ writer \in {"second", "slot"} => cell[writeLoc].first = written + 1
  /\ written # 0 /\ writer = "slot" => writeLoc = <<next, 1 - slot[next]>>
  /\ writer = "latest" => Count(next) = NewCount
  /\ writer = "next" => Count(latest) = NewCount
  /\ Count(latest) >= Floor(written) /\ Count(latest) # 1
  /\ \A p \in Bit : \/ Count(p) <= Count(latest)
                    \/ p = next /\ writer = "latest"
                    \/ Count(p) = 1

(* Not older than what had been written when the read began, or was read   *)
(* before, at each stage of a read.                                        *)
Recent(n) == n >= last /\ n >= Floor(begun) /\ n # 1
InOrder ==
  /\ begun \in Nat /\ last \in Nat /\ begun <= written
  /\ reader = "latest" => last <= Count(latest)
  /\ reader \in {"reading", "slot"} => Recent(Count(readLoc[1]))
  /\ reader \in {"first", "second"} =>
        /\ Recent(cell[readLoc].first) /\ cell[readLoc].first <= Count(latest)
  /\ reader = "got" => Recent(value.first) /\ value.first <= Count(latest)

(* The memory in which the first value goes to the pair that is not        *)
(* announced first, and in which the indices agree.                        *)
OrderlyMemory ==
  SafeMemory /\ \A m \in Memory : m.next = 0 /\ (m.latest = 1 => m.reading = 1)

OrderInv == InTurn /\ Numbered /\ InOrder
LEMMA CountNotOne ==
  ASSUME written \in Nat
  PROVE  NewCount # 1 /\ NewCount \in Nat
  BY DEF NewCount

(* Each step keeps the order; FlipSlot, StoreLatest and ReadSlot are the    *)
(* ones that matter.                                                        *)
LEMMA StepOrder ==
  ASSUME SlotInv, SlotInv', OrderInv, SlotNext
  PROVE  OrderInv'
<1> USE LocPairs DEF WriterAt, ReaderAt, indices, writing, readVars, SlotInv, SlotTypeOK, OrderInv
<1>1. CASE WriteFirst
  <2>1. InTurn'
    BY <1>1 DEF WriteFirst, InTurn, Bit
  <2>2. Numbered'
    BY <1>1 DEF WriteFirst, Numbered, InTurn, Count, Floor, NewCount, Bit,
       WriteElsewhere, WriteInHand, HalvesWritten
  <2>3. InOrder'
    BY <1>1 DEF WriteFirst, Numbered, InTurn, InOrder, Recent, Count, Floor,
       Bit, ReadApart, WriteElsewhere, ReadInHand, WriteInHand
  <2> QED
    BY <2>1, <2>2, <2>3
<1>2. CASE WriteSecond
  <2>1. InTurn'
    BY <1>2 DEF WriteSecond, InTurn, Bit
  <2>2. Numbered'
    BY <1>2 DEF WriteSecond, Numbered, InTurn, Count, Floor, NewCount, Bit,
       WriteElsewhere, WriteInHand, HalvesWritten
  <2>3. InOrder'
    BY <1>2 DEF WriteSecond, Numbered, InTurn, InOrder, Recent, Count, Floor,
       Bit, ReadApart, WriteElsewhere, ReadInHand, WriteInHand
  <2> QED
    BY <2>1, <2>2, <2>3
<1>3. CASE FlipSlot
  <2> DEFINE flipped == <<next, 1 - slot[next]>>
  <2>a. /\ next \in Bit /\ latest \in Bit /\ flipped \in Locs /\ written \in Nat
        /\ slot' = [slot EXCEPT ![next] = 1 - @] /\ slot'[next] = 1 - slot[next]
        /\ slot'[1 - next] = slot[1 - next]
        /\ writer = "slot" /\ writer' = "latest"
        /\ UNCHANGED <<cell, latest, reading, next, writeLoc, written, readVars>>
    BY <1>3 DEF FlipSlot, Bit
  <2>b. Count(next)' = cell[flipped].first /\ Count(1 - next)' = Count(1 - next)
    BY <2>a DEF Count
  <2>c. cell[flipped].first = NewCount
    <3>1. CASE written = 0
      <4>1. flipped # <<1, 0>>
        BY <3>1, <2>a DEF Numbered
      <4> QED
        BY <3>1, <4>1, <2>a DEF Numbered, NewCount
    <3>2. CASE written # 0
      BY <3>2, <2>a DEF Numbered, NewCount
    <3> QED
      BY <3>1, <3>2
  <2>d. /\ \A p \in Bit : p = next \/ p = 1 - next
        /\ \A p \in Bit : Count(p) \in Nat /\ Count(p) <= written + 1
        /\ written = 0 => \A p \in Bit : Count(p) = 0 \/ Count(p) = 1
    <3>1. \A p \in Bit : <<p, slot[p]>> \in Locs
      BY DEF Bit
    <3> QED
      BY <2>a, <3>1 DEF Numbered, Count, Bit
  <2>e. Count(next)' = NewCount /\ NewCount # 1 /\ NewCount \in Nat
    <3>1. NewCount # 1 /\ NewCount \in Nat
      BY <2>a, CountNotOne
    <3> QED
      BY <3>1, <2>b, <2>c
  <2>1. InTurn'
    BY <1>3 DEF FlipSlot, InTurn, Bit
  <2>2. Numbered'
    <3>1. \A loc \in Locs : cell'[loc].first <= written' + 1
      BY <2>a DEF Numbered
    <3>2. written' = 0 => /\ next' = 0
                          /\ \A loc \in Locs : loc # <<1, 0>> => cell'[loc].first = 0
      BY <2>a DEF Numbered
    <3>3. Count(latest)' >= Floor(written') /\ Count(latest)' # 1
      <4>1. CASE latest = next
        BY <4>1, <2>a, <2>b, <2>e DEF Floor, NewCount, Count
      <4>2. CASE latest # next
        <5>1. Count(latest)' = Count(latest)
          BY <4>2, <2>a, <2>b, <2>d DEF Count
        <5> QED
          BY <5>1, <2>a DEF Numbered, Floor
      <4> QED
        BY <4>1, <4>2
    <3>4. ASSUME NEW p \in Bit, p # next
          PROVE  Count(p)' <= Count(latest)' \/ Count(p)' = 1
      <4>1. Count(p)' = Count(p) /\ Count(p) \in Nat /\ Count(p) <= written + 1
        BY <3>4, <2>a, <2>b, <2>d DEF Count
      <4>2. CASE latest = next
        <5>1. Count(latest)' = NewCount
          BY <4>2, <2>a, <2>b, <2>e DEF Count
        <5> QED
          BY <4>1, <5>1, <2>a, <2>d DEF NewCount
      <4>3. CASE latest # next
        BY <3>4, <4>1, <4>3, <2>a, <2>d DEF Bit
      <4> QED
        BY <4>2, <4>3
    <3> QED
      BY <2>a, <2>e, <3>1, <3>2, <3>3, <3>4 DEF Numbered, NewCount
  <2>3. InOrder'
    <3>1. ASSUME NEW n \in Nat, n <= Count(latest)
          PROVE  n <= Count(latest)'
      <4>1. CASE latest = next
        BY <3>1, <4>1, <2>a, <2>b, <2>d, <2>e DEF NewCount, Numbered, Count
      <4>2. CASE latest # next
        BY <3>1, <4>2, <2>a, <2>b, <2>d DEF Count
      <4> QED
        BY <4>1, <4>2
    <3>2. ASSUME NEW p \in Bit, Recent(Count(p)), begun <= written
          PROVE  Recent(Count(p)')
      <4>1. CASE p = next
        BY <3>2, <4>1, <2>a, <2>d, <2>e DEF NewCount, Recent, Floor, InOrder, Count
      <4>2. CASE p # next
        BY <3>2, <4>2, <2>a, <2>b, <2>d DEF Recent, Count
      <4> QED
        BY <4>1, <4>2
    <3> QED
      BY <2>a, <3>1, <3>2 DEF InOrder, Recent, readVars
  <2> QED
    BY <2>1, <2>2, <2>3
<1>4. CASE StoreLatest
  <2>a. /\ next \in Bit /\ latest \in Bit /\ written \in Nat /\ latest' = next
        /\ writer = "latest" /\ writer' = "next"
        /\ UNCHANGED <<cell, slot, reading, next, writeLoc, written, readVars>>
    BY <1>4 DEF StoreLatest
  <2>b. \A p \in Bit : Count(p)' = Count(p) /\ Count(p) \in Nat
    <3>1. \A p \in Bit : <<p, slot[p]>> \in Locs
      BY DEF Bit
    <3> QED
      BY <2>a, <3>1 DEF Count
  <2>c. Count(latest)' = Count(next) /\ Count(next) = NewCount /\ NewCount # 1
    BY <2>a, <2>b DEF Numbered, NewCount, Count
  <2>d. \A p \in Bit : Count(p) <= NewCount \/ Count(p) = 1
    <3>1. CASE written = 0
      <4>1. \A p \in Bit : <<p, slot[p]>> \in Locs
        BY DEF Bit
      <4> QED
        BY <3>1, <4>1, <2>b DEF Numbered, NewCount, Count
    <3>2. CASE written # 0
      <4>1. \A p \in Bit : <<p, slot[p]>> \in Locs
        BY DEF Bit
      <4> QED
        BY <3>2, <4>1, <2>b DEF Numbered, NewCount, Count
    <3> QED
      BY <3>1, <3>2
  <2>e. Count(latest) <= NewCount
    BY <2>a, <2>d DEF Numbered
  <2>1. InTurn'
    BY <1>4 DEF StoreLatest, InTurn, Bit
  <2>2. Numbered'
    <3>1. Count(latest)' >= Floor(written') /\ Count(latest)' # 1
      BY <2>a, <2>c DEF Floor, NewCount
    <3>2. \A p \in Bit : Count(p)' <= Count(latest)' \/ Count(p)' = 1
      BY <2>b, <2>c, <2>d
    <3> QED
      BY <2>a, <2>c, <3>1, <3>2 DEF Numbered, NewCount
  <2>3. InOrder'
    <3>1. /\ Count(latest) <= Count(latest)' /\ Count(latest) \in Nat
          /\ Count(latest)' \in Nat
      BY <2>a, <2>b, <2>c, <2>e
    <3>2. reader \in {"reading", "slot"} => Count(readLoc[1])' = Count(readLoc[1])
      BY <2>a, <2>b DEF Count, readVars
    <3> QED
      BY <2>a, <3>1, <3>2 DEF InOrder, Recent, readVars
  <2> QED
    BY <2>1, <2>2, <2>3
<1>5. CASE ChooseNext
  <2>1. InTurn'
    BY <1>5 DEF ChooseNext, InTurn, Bit
  <2>2. Numbered'
    BY <1>5 DEF ChooseNext, Numbered, InTurn, Count, Floor, NewCount, Bit,
       WriteElsewhere, WriteInHand, HalvesWritten
  <2>3. InOrder'
    BY <1>5 DEF ChooseNext, Numbered, InTurn, InOrder, Recent, Count, Floor,
       Bit, ReadApart, WriteElsewhere, ReadInHand, WriteInHand
  <2> QED
    BY <2>1, <2>2, <2>3
<1>6. CASE ReadLatest
  <2>1. InTurn'
    BY <1>6 DEF ReadLatest, InTurn, Bit
  <2>2. Numbered'
    BY <1>6 DEF ReadLatest, Numbered, InTurn, Count, Floor, NewCount, Bit,
       WriteElsewhere, WriteInHand, HalvesWritten
  <2>3. InOrder'
    BY <1>6 DEF ReadLatest, Numbered, InTurn, InOrder, Recent, Count, Floor,
       Bit, ReadApart, WriteElsewhere, ReadInHand, WriteInHand
  <2> QED
    BY <2>1, <2>2, <2>3
<1>7. CASE StoreReading
  <2>1. InTurn'
    BY <1>7 DEF StoreReading, InTurn, Bit
  <2>2. Numbered'
    BY <1>7 DEF StoreReading, Numbered, InTurn, Count, Floor, NewCount, Bit,
       WriteElsewhere, WriteInHand, HalvesWritten
  <2>3. InOrder'
    BY <1>7 DEF StoreReading, Numbered, InTurn, InOrder, Recent, Count, Floor,
       Bit, ReadApart, WriteElsewhere, ReadInHand, WriteInHand
  <2> QED
    BY <2>1, <2>2, <2>3
<1>8. CASE ReadSlot
  <2>1. InTurn'
    BY <1>8 DEF ReadSlot, InTurn, Bit
  <2>2. Numbered'
    BY <1>8 DEF ReadSlot, Numbered, InTurn, Count, Floor, NewCount, Bit,
       WriteElsewhere, WriteInHand, HalvesWritten
  <2>3. InOrder'
    <3> DEFINE p == readLoc[1]
    <3>1. /\ p \in Bit /\ slot[p] \in Bit /\ reading = p /\ reader' = "first"
          /\ readLoc' = <<p, slot[p]>> /\ Recent(Count(p))
          /\ UNCHANGED <<cell, indices, writing, value, begun, last>>
      BY <1>8 DEF ReadSlot, InOrder, ReadApart
    <3>2. cell'[readLoc'].first = Count(p) /\ Count(latest)' = Count(latest)
      BY <3>1 DEF Count
    <3>3. Count(p) <= Count(latest)
      <4>1. CASE p = latest
        <5>1. <<p, slot[p]>> \in Locs
          BY <3>1
        <5> QED
          BY <4>1, <5>1 DEF Count
      <4>2. CASE p # latest
        BY <4>2, <3>1 DEF InTurn, Numbered, Recent
      <4> QED
        BY <4>1, <4>2
    <3>4. Recent(cell[readLoc].first)'
      BY <3>1, <3>2 DEF Recent
    <3> QED
      BY <3>1, <3>2, <3>3, <3>4 DEF InOrder
  <2> QED
    BY <2>1, <2>2, <2>3
<1>9. CASE ReadFirst
  <2>1. InTurn'
    BY <1>9 DEF ReadFirst, InTurn, Bit
  <2>2. Numbered'
    BY <1>9 DEF ReadFirst, Numbered, InTurn, Count, Floor, NewCount, Bit,
       WriteElsewhere, WriteInHand, HalvesWritten
  <2>3. InOrder'
    BY <1>9 DEF ReadFirst, Numbered, InTurn, InOrder, Recent, Count, Floor,
       Bit, ReadApart, WriteElsewhere, ReadInHand, WriteInHand
  <2> QED
    BY <2>1, <2>2, <2>3
<1>10. CASE ReadSecond
  <2>1. InTurn'
    BY <1>10 DEF ReadSecond, InTurn, Bit
  <2>2. Numbered'
    BY <1>10 DEF ReadSecond, Numbered, InTurn, Count, Floor, NewCount, Bit,
       WriteElsewhere, WriteInHand, HalvesWritten
  <2>3. InOrder'
    BY <1>10 DEF ReadSecond, HalvesRead, Numbered, InTurn, InOrder, Recent,
       Count, Floor, Bit, ReadApart, WriteElsewhere, ReadInHand, WriteInHand
  <2> QED
    BY <2>1, <2>2, <2>3
<1>11. CASE ReadAgain
  <2>1. InTurn'
    BY <1>11 DEF ReadAgain, InTurn, Bit
  <2>2. Numbered'
    BY <1>11 DEF ReadAgain, Numbered, InTurn, Count, Floor, NewCount, Bit,
       WriteElsewhere, WriteInHand, HalvesWritten
  <2>3. InOrder'
    BY <1>11 DEF ReadAgain, Numbered, InTurn, InOrder, Recent, Count, Floor,
       Bit, ReadApart, WriteElsewhere, ReadInHand, WriteInHand
  <2> QED
    BY <2>1, <2>2, <2>3
<1> QED
  BY <1>1, <1>2, <1>3, <1>4, <1>5, <1>6, <1>7, <1>8, <1>9, <1>10, <1>11 DEF SlotNext

LEMMA InitOrder ==
  ASSUME OrderlyMemory, SlotInit
  PROVE  OrderInv
<1>1. PICK m \in Memory : /\ slot = m.slot /\ latest = m.latest
                          /\ reading = m.reading /\ next = m.next
  BY DEF SlotInit
<1>2. /\ next = 0 /\ (latest = 1 => reading = 1)
      /\ slot \in [Bit -> Bit] /\ latest \in Bit /\ reading \in Bit
  BY <1>1, MemoryAssumption DEF OrderlyMemory
<1>3. \A p \in Bit : <<p, slot[p]>> \in Bit \X Bit
  BY <1>2
<1>4. \A p \in Bit : Count(p) = 0
  BY <1>3 DEF Count, SlotInit, Nothing
<1>5. InTurn /\ Numbered
  BY <1>2, <1>4 DEF SlotInit, InTurn, Numbered, Nothing, Locs, Floor, Bit
<1>6. InOrder
  BY <1>2, <1>4 DEF SlotInit, InOrder
<1> QED
  BY <1>5, <1>6 DEF OrderInv

(* No read returns a value older than the last write that had returned     *)
(* when the read began, or than the value of the read before, however      *)
(* often the writer overtakes the reader; the value of the first write is  *)
(* never seen.                                                             *)
THEOREM ReadsGoForward == OrderlyMemory => (SlotSpec => []ReadsLatest)
<1> SUFFICES ASSUME OrderlyMemory PROVE SlotSpec => []ReadsLatest
  OBVIOUS
<1>1. SlotInit => SlotInv /\ OrderInv
  BY InitSlots, InitOrder DEF OrderlyMemory
<1>2. SlotInv /\ [SlotNext]_slotVars => SlotInv'
  BY SlotInvariance
<1>3. SlotInv /\ SlotInv' /\ OrderInv /\ [SlotNext]_slotVars => OrderInv'
  <2>1. CASE SlotNext
    BY <2>1, StepOrder
  <2>2. CASE UNCHANGED slotVars
    BY <2>2 DEF slotVars, indices, writing, readVars, OrderInv, InTurn, Numbered,
       InOrder, Recent, Count, NewCount
  <2> QED
    BY <2>1, <2>2
<1>4. SlotInv /\ OrderInv => ReadsLatest
  BY DEF OrderInv, InOrder, Recent, Floor, ReadsLatest
<1> QED
  BY <1>1, <1>2, <1>3, <1>4, PTL DEF SlotSpec

-----------------------------------------------------------------------------
(***************************************************************************)
(* The ring buffer is a queue, for every size and range of its counters.   *)
(***************************************************************************)
RingTypeOK ==
  /\ buf \in [0 .. NumElems - 1 -> Nat]
  /\ front \in 0 .. UIntRange - 1 /\ back \in 0 .. UIntRange - 1
  /\ producer \in {"idle", "write", "store"}
  /\ consumer \in {"idle", "read", "store"}
  /\ taken \in Nat
  /\ received \in Seq(Nat)

(* A producer or consumer under way found room, or something to take.      *)
RoomOK ==
  /\ Used <= NumElems /\ Len(received) + Used <= NumValues
  /\ producer # "idle" => Used < NumElems /\ NextValue <= NumValues
  /\ consumer # "idle" => Used > 0

(* The buffer holds the values in turn, and so do both hands. *)
ValuesInTurn ==
  /\ \A k \in 1 .. Used : buf[(front + k - 1) % NumElems] = Len(received) + k
  /\ producer = "store" => buf[back % NumElems] = NextValue
  /\ consumer = "store" => taken = Len(received) + 1

RingInv == RingTypeOK /\ RoomOK /\ ValuesInTurn

-----------------------------------------------------------------------------
(* Division with remainder. *)
LEMMA DivMod ==
  ASSUME NEW x \in Nat, NEW n \in Nat \ {0}
  PROVE  /\ x \div n \in Nat /\ x % n \in 0 .. n - 1
         /\ x = n * (x \div n) + (x % n)
  OBVIOUS

LEMMA Multiples ==
  ASSUME NEW n \in Nat \ {0}, NEW d \in Int, n * d < n, - n < n * d
  PROVE  d = 0
<1>1. CASE d >= 1
  BY <1>1
<1>2. CASE d <= -1
  BY <1>2
<1> QED
  BY <1>1, <1>2

(* The remainder is the only one there is. *)
LEMMA Remainder ==
  ASSUME NEW n \in Nat \ {0}, NEW q \in Int, NEW r \in 0 .. n - 1, n * q + r \in Nat
  PROVE  (n * q + r) % n = r
<1> DEFINE x == n * q + r
<1>1. /\ x \div n \in Nat /\ x % n \in 0 .. n - 1
      /\ x = n * (x \div n) + (x % n)
  BY DivMod
<1>2. n * (q - x \div n) = (x % n) - r
  BY <1>1
<1>3. q - x \div n = 0
  BY <1>1, <1>2, Multiples
<1> QED
  BY <1>1, <1>2, <1>3

(* Unsigned numbers that are at most one turn too large. *)
LEMMA WrapAround ==
  ASSUME NEW x \in 0 .. 2 * UIntRange - 1
  PROVE  x % UIntRange = IF x < UIntRange THEN x ELSE x - UIntRange
<1>1. UIntRange \in Nat \ {0}
  BY RingAssumption
<1>2. CASE x < UIntRange
  <2>1. (UIntRange * 0 + x) % UIntRange = x
    BY <1>1, <1>2, Remainder
  <2> QED
    BY <1>1, <1>2, <2>1
<1>3. CASE x >= UIntRange
  <2>1. (UIntRange * 1 + (x - UIntRange)) % UIntRange = x - UIntRange
    BY <1>1, <1>3, Remainder
  <2> QED
    BY <1>1, <1>3, <2>1
<1> QED
  BY <1>1, <1>2, <1>3

(* A counter that wraps around stays at the same place of the buffer. *)
LEMMA SamePlace ==
  ASSUME NEW x \in Nat, x >= UIntRange
  PROVE  (x - UIntRange) % NumElems = x % NumElems
<1>1. NumElems \in Nat \ {0} /\ UIntRange \in Nat /\ UIntRange % NumElems = 0
  BY RingAssumption
<1> DEFINE m == UIntRange \div NumElems
           y == x - UIntRange
           q == y \div NumElems
<1>2. m \in Nat /\ UIntRange = NumElems * m
  BY <1>1, DivMod
<1>a. y \in Nat
  BY <1>1
<1>3. q \in Nat /\ y % NumElems \in 0 .. NumElems - 1 /\ y = NumElems * q + (y % NumElems)
  <2> HIDE DEF y
  <2> QED
    BY <1>1, <1>a, DivMod
<1>4. x = NumElems * (q + m) + (y % NumElems)
  BY <1>1, <1>2, <1>3
<1>5. q + m \in Int
  BY <1>2, <1>3
<1> HIDE DEF m, q, y
<1>6. (NumElems * (q + m) + (y % NumElems)) % NumElems = y % NumElems
  BY <1>1, <1>3, <1>4, <1>5, Remainder
<1> QED
  BY <1>4, <1>6 DEF y

(* Fewer than NumElems values in a row are at different places. *)
LEMMA OtherPlace ==
  ASSUME NEW x \in Nat, NEW y \in Nat, x < y, y < x + NumElems
  PROVE  x % NumElems # y % NumElems
<1>1. NumElems \in Nat \ {0}
  BY RingAssumption
<1>2. /\ x = NumElems * (x \div NumElems) + (x % NumElems)
      /\ y = NumElems * (y \div NumElems) + (y % NumElems)
      /\ x \div NumElems \in Nat /\ y \div NumElems \in Nat
      /\ x % NumElems \in 0 .. NumElems - 1
  BY <1>1, DivMod
<1> SUFFICES ASSUME x % NumElems = y % NumElems
             PROVE  FALSE
  OBVIOUS
<1>3. NumElems * (y \div NumElems - x \div NumElems) = y - x
  BY <1>1, <1>2
<1>4. y \div NumElems - x \div NumElems = 0
  BY <1>1, <1>2, <1>3, Multiples
<1> QED
  BY <1>1, <1>3, <1>4

(* Unsigned subtraction. *)
LEMMA Distance ==
  ASSUME NEW f \in 0 .. UIntRange - 1, NEW k \in 0 .. UIntRange - 1
  PROVE  (k + UIntRange - f) % UIntRange = IF f <= k THEN k - f ELSE k + UIntRange - f
<1> DEFINE x == k + UIntRange - f
<1>1. UIntRange \in Nat /\ x \in 0 .. 2 * UIntRange - 1
  BY RingAssumption
<1>2. x % UIntRange = IF x < UIntRange THEN x ELSE x - UIntRange
  <2> HIDE DEF x
  <2> QED
    BY <1>1, WrapAround
<1> QED
  BY <1>1, <1>2

(* How many values there are, by whether back_ is a turn ahead. *)
LEMMA UsedIs ==
  ASSUME RingTypeOK
  PROVE  Used = IF front <= back THEN back - front ELSE back + UIntRange - front
  BY Distance DEF Used, RingTypeOK

(* A counter goes up by one, or wraps around. *)
LEMMA CountUp ==
  ASSUME NEW x \in 0 .. UIntRange - 1
  PROVE  (x + 1) % UIntRange = IF x = UIntRange - 1 THEN 0 ELSE x + 1
<1>1. UIntRange \in Nat /\ NumElems \in Nat \ {0} /\ NumElems < UIntRange
  BY RingAssumption
<1>2. x + 1 \in 0 .. 2 * UIntRange - 1
  BY <1>1
<1> QED
  BY <1>1, <1>2, WrapAround

(* The test for a full buffer is right across the wrap. *)
LEMMA FullIs ==
  ASSUME RingTypeOK, Used <= NumElems
  PROVE  Full(front) <=> Used = NumElems
<1> DEFINE x == back + UIntRange - NumElems
<1>1. /\ UIntRange \in Nat /\ front \in Nat /\ back \in Nat
      /\ front < UIntRange /\ back < UIntRange /\ x \in 0 .. 2 * UIntRange - 1
      /\ NumElems \in Nat \ {0} /\ NumElems < UIntRange
  BY RingAssumption DEF RingTypeOK
<1>2. x % UIntRange = IF x < UIntRange THEN x ELSE x - UIntRange
  <2> HIDE DEF x
  <2> QED
    BY <1>1, WrapAround
<1>3. Used = IF front <= back THEN back - front ELSE back + UIntRange - front
  BY UsedIs
<1> QED
  BY <1>1, <1>2, <1>3 DEF Full

LEMMA InitRing ==
  ASSUME RingInit
  PROVE  RingInv
<1>1. RingTypeOK
  BY RingAssumption DEF RingInit, RingTypeOK
<1>2. Used = 0 /\ Len(received) = 0
  BY <1>1, UsedIs DEF RingInit
<1> QED
  BY <1>1, <1>2, RingAssumption DEF RingInit, RingInv, RoomOK, ValuesInTurn

(* The places of the values, and of the next one. *)
LEMMA PlacesAre ==
  ASSUME RingTypeOK
  PROVE  /\ Used \in Nat
         /\ \A k \in 1 .. Used + 1 : (front + k - 1) % NumElems \in 0 .. NumElems - 1
         /\ back % NumElems = (front + Used) % NumElems
         /\ back % NumElems \in 0 .. NumElems - 1
<1>1. NumElems \in Nat \ {0} /\ UIntRange \in Nat
  BY RingAssumption
<1>2. Used \in Nat
  BY <1>1, UsedIs DEF RingTypeOK
<1>3. \A k \in 1 .. Used + 1 : (front + k - 1) % NumElems \in 0 .. NumElems - 1
  <2> SUFFICES ASSUME NEW k \in 1 .. Used + 1
               PROVE  (front + k - 1) % NumElems \in 0 .. NumElems - 1
    OBVIOUS
  <2>1. front + k - 1 \in Nat
    BY <1>2 DEF RingTypeOK
  <2> QED
    BY <1>1, <2>1, DivMod
<1>4. back % NumElems = (front + Used) % NumElems
  <2>1. CASE front <= back
    <3>1. front + Used = back
      BY <2>1, <1>1, UsedIs DEF RingTypeOK
    <3> QED
      BY <3>1
  <2>2. CASE ~ front <= back
    <3>1. front + Used = back + UIntRange
      BY <2>2, <1>1, UsedIs DEF RingTypeOK
    <3> DEFINE x == front + Used
    <3>2. x \in Nat /\ x >= UIntRange /\ x - UIntRange = back
      BY <3>1, <1>1, <1>2 DEF RingTypeOK
    <3>3. (x - UIntRange) % NumElems = x % NumElems
      <4> HIDE DEF x
      <4> QED
        BY <3>2, SamePlace
    <3> QED
      BY <3>2, <3>3
  <2> QED
    BY <2>1, <2>2
<1>5. back % NumElems \in 0 .. NumElems - 1
  BY <1>1, DivMod DEF RingTypeOK
<1> QED
  BY <1>2, <1>3, <1>4, <1>5

LEMMA ContentIs ==
  ASSUME RingTypeOK
  PROVE  Content \in Seq(Nat) /\ Len(Content) = Used
<1>1. \A k \in 1 .. Used : buf[(front + k - 1) % NumElems] \in Nat
  <2> SUFFICES ASSUME NEW k \in 1 .. Used
               PROVE  buf[(front + k - 1) % NumElems] \in Nat
    OBVIOUS
  <2>1. (front + k - 1) % NumElems \in 0 .. NumElems - 1
    BY PlacesAre
  <2> QED
    BY <2>1 DEF RingTypeOK
<1>2. Content \in [1 .. Used -> Nat]
  BY <1>1 DEF Content
<1> QED
  BY <1>2, PlacesAre

LEMMA AppendIs ==
  ASSUME NEW s \in Seq(Nat), NEW v \in Nat
  PROVE  Append(s, v) = [k \in 1 .. Len(s) + 1 |-> IF k = Len(s) + 1 THEN v ELSE s[k]]
<1> DEFINE r == [k \in 1 .. Len(s) + 1 |-> IF k = Len(s) + 1 THEN v ELSE s[k]]
<1>1. r \in [1 .. Len(s) + 1 -> Nat]
  OBVIOUS
<1>2. r \in Seq(Nat) /\ Len(r) = Len(s) + 1
  BY <1>1
<1>3. /\ Append(s, v) \in Seq(Nat) /\ Len(Append(s, v)) = Len(s) + 1
      /\ \A k \in 1 .. Len(s) : Append(s, v)[k] = s[k]
      /\ Append(s, v)[Len(s) + 1] = v
  BY AppendProperties
<1>4. \A k \in 1 .. Len(Append(s, v)) : Append(s, v)[k] = r[k]
  BY <1>3
<1> HIDE DEF r
<1>5. Append(s, v) = r
  BY <1>2, <1>3, <1>4, SeqEqual
<1> QED
  BY <1>5 DEF r

LEMMA TailIs ==
  ASSUME NEW S, NEW s \in Seq(S), s # <<>>
  PROVE  Tail(s) = [k \in 1 .. Len(s) - 1 |-> s[k + 1]]
<1> DEFINE r == [k \in 1 .. Len(s) - 1 |-> s[k + 1]]
<1>1. r \in [1 .. Len(s) - 1 -> S] /\ Len(s) - 1 \in Nat
  OBVIOUS
<1>2. r \in Seq(S) /\ Len(r) = Len(s) - 1
  BY <1>1
<1> QED
  BY <1>2, HeadTailProperties, SeqEqual

(* One more value put in, or taken out, is the first of the calls left.    *)
LEMMA NextPut ==
  ASSUME NEW m \in Nat, NEW g \in Nat, m < NumValues, NumValues \in Nat
  PROVE  /\ CallsFrom(m, g)["producer"] # <<>>
         /\ Head(CallsFrom(m, g)["producer"]) = [op |-> "enq", q |-> "ring", v |-> m + 1]
         /\ CallsFrom(m + 1, g) = [CallsFrom(m, g) EXCEPT !["producer"] = Tail(@)]
<1> DEFINE Put(k) == [op |-> "enq", q |-> "ring", v |-> m + k]
           s == [k \in 1 .. NumValues - m |-> Put(k)]
           n == NumValues - m
           P == {Put(k) : k \in Nat}
<1>1. n \in Nat /\ n > 0 /\ s \in [1 .. n -> P]
  <2>1. n \in Nat /\ n > 0
    OBVIOUS
  <2>2. \A k \in 1 .. n : s[k] \in P
    <3> TAKE k \in 1 .. n
    <3>1. s[k] = Put(k) /\ k \in Nat
      OBVIOUS
    <3> HIDE DEF Put
    <3> QED
      BY <3>1
  <2> QED
    BY <2>1, <2>2
<1>2. s # <<>> /\ Head(s) = s[1] /\ Tail(s) = [k \in 1 .. n - 1 |-> s[k + 1]]
  <2> HIDE DEF s, n, P
  <2>1. s \in Seq(P) /\ Len(s) = n
    BY <1>1
  <2>2. s # <<>> /\ Head(s) = s[1]
    BY <1>1, <2>1
  <2> QED
    BY <2>1, <2>2, TailIs
<1>3. [k \in 1 .. NumValues - m - 1 |-> s[k + 1]]
        = [k \in 1 .. NumValues - (m + 1) |-> [op |-> "enq", q |-> "ring", v |-> m + 1 + k]]
  OBVIOUS
<1>4. s[1] = [op |-> "enq", q |-> "ring", v |-> m + 1]
  OBVIOUS
<1>5. CallsFrom(m, g)["producer"] = s
  BY DEF CallsFrom, RingThreads
<1> HIDE DEF s
<1>6. CallsFrom(m + 1, g) = [CallsFrom(m, g) EXCEPT !["producer"] = Tail(s)]
  BY <1>2, <1>3 DEF CallsFrom, RingThreads
<1> QED
  BY <1>2, <1>4, <1>5, <1>6

LEMMA NextGot ==
  ASSUME NEW m \in Nat, NEW g \in Nat, g < NumValues, NumValues \in Nat
  PROVE  /\ CallsFrom(m, g)["consumer"] # <<>>
         /\ Head(CallsFrom(m, g)["consumer"]) = [op |-> "deq", q |-> "ring"]
         /\ CallsFrom(m, g + 1) = [CallsFrom(m, g) EXCEPT !["consumer"] = Tail(@)]
<1> DEFINE Get == [op |-> "deq", q |-> "ring"]
           s == [k \in 1 .. NumValues - g |-> Get]
           n == NumValues - g
<1>1. n \in Nat /\ n > 0 /\ s \in [1 .. n -> {Get}]
  OBVIOUS
<1>2. s # <<>> /\ Head(s) = s[1] /\ Tail(s) = [k \in 1 .. n - 1 |-> s[k + 1]]
  <2> HIDE DEF s, n, Get
  <2>1. s \in Seq({Get}) /\ Len(s) = n
    BY <1>1
  <2>2. s # <<>> /\ Head(s) = s[1]
    BY <1>1, <2>1
  <2> QED
    BY <2>1, <2>2, TailIs
<1>3. [k \in 1 .. NumValues - g - 1 |-> s[k + 1]] = [k \in 1 .. NumValues - (g + 1) |-> Get]
  OBVIOUS
<1>4. s[1] = Get
  OBVIOUS
<1>5. CallsFrom(m, g)["consumer"] = s
  BY DEF CallsFrom, RingThreads
<1> HIDE DEF s
<1>6. CallsFrom(m, g + 1) = [CallsFrom(m, g) EXCEPT !["consumer"] = Tail(s)]
  BY <1>2, <1>3 DEF CallsFrom, RingThreads
<1> QED
  BY <1>2, <1>4, <1>5, <1>6

(* A step keeps the invariant, and is one of the queue or changes nothing  *)
(* of it: EnqueueStore puts a value in, DequeueStore takes one out.        *)
LEMMA StepRing ==
  ASSUME RingInv, RingNext
  PROVE  /\ RingInv'
         /\ RingFifo!Next \/ UNCHANGED <<Content, Used, received>>
<1> DEFINE n == Len(received)
<1>1. /\ NumElems \in Nat \ {0} /\ UIntRange \in Nat /\ NumElems < UIntRange
      /\ front \in 0 .. UIntRange - 1 /\ back \in 0 .. UIntRange - 1
      /\ Used \in Nat /\ n \in Nat /\ NumValues \in Nat /\ received \in Seq(Nat)
      /\ taken \in Nat /\ buf \in [0 .. NumElems - 1 -> Nat]
  BY RingAssumption, PlacesAre DEF RingInv, RingTypeOK
<1>a. RingTypeOK
  BY DEF RingInv
<1>2. CASE EnqueueLook
  <2>1. /\ RingTypeOK' /\ UNCHANGED <<ring, received, Used, Content>>
    BY <1>2, <1>1 DEF EnqueueLook, RingInv, RingTypeOK, ring, Used, Content
  <2>2. producer' # "idle" => Used < NumElems
    BY <1>2, <1>1, FullIs DEF EnqueueLook, RingInv, RoomOK
  <2> QED
    BY <1>2, <2>1, <2>2 DEF EnqueueLook, RingInv, RoomOK, ValuesInTurn, ring,
       NextValue
<1>3. CASE DequeueLook
  <2>1. /\ RingTypeOK' /\ UNCHANGED <<ring, received, Used, Content>>
    BY <1>3, <1>1 DEF DequeueLook, RingInv, RingTypeOK, ring, Used, Content
  <2>2. consumer' # "idle" => Used > 0
    BY <1>3, <1>1, UsedIs DEF DequeueLook, RingInv
  <2> QED
    BY <1>3, <2>1, <2>2 DEF DequeueLook, RingInv, RoomOK, ValuesInTurn, ring,
       NextValue
<1>4. CASE DequeueRead
  <2>1. /\ UNCHANGED <<ring, received, Used, Content, producer>>
        /\ taken' = buf[front % NumElems]
    BY <1>4 DEF DequeueRead, ring, Used, Content
  <2>2. Used > 0
    BY <1>4 DEF DequeueRead, RingInv, RoomOK
  <2>3. taken' = n + 1
    <3>1. 1 \in 1 .. Used /\ front + 1 - 1 = front
      BY <1>1, <2>2
    <3> QED
      BY <2>1, <3>1 DEF RingInv, ValuesInTurn
  <2> QED
    BY <1>1, <1>4, <2>1, <2>2, <2>3
       DEF DequeueRead, RingInv, RingTypeOK, RoomOK, ValuesInTurn, ring, NextValue
<1>5. CASE EnqueueWrite
  <2> DEFINE place == back % NumElems
  <2>1. /\ UNCHANGED <<front, back, received, Used, consumer, taken>> /\ NextValue' = NextValue
        /\ buf' = [buf EXCEPT ![place] = NextValue] /\ NextValue = n + Used + 1
        /\ producer = "write" /\ producer' = "store"
    BY <1>5 DEF EnqueueWrite, Used, NextValue
  <2>2. Used < NumElems /\ place \in 0 .. NumElems - 1 /\ place = (front + Used) % NumElems
    BY <1>5, PlacesAre DEF EnqueueWrite, RingInv, RoomOK
  <2>3. \A k \in 1 .. Used : buf'[(front + k - 1) % NumElems] = buf[(front + k - 1) % NumElems]
    <3> SUFFICES ASSUME NEW k \in 1 .. Used
                 PROVE  buf'[(front + k - 1) % NumElems] = buf[(front + k - 1) % NumElems]
      OBVIOUS
    <3>1. (front + k - 1) % NumElems \in 0 .. NumElems - 1
      BY <1>1, PlacesAre DEF RingInv
    <3>2. /\ front + k - 1 \in Nat /\ front + Used \in Nat /\ front + k - 1 < front + Used
          /\ front + Used < front + k - 1 + NumElems
      BY <1>1, <2>2
    <3>3. (front + k - 1) % NumElems # place
      BY <2>2, <3>2, OtherPlace
    <3> QED
      BY <1>1, <2>1, <3>1, <3>3
  <2>4. Content' = Content
    BY <2>1, <2>3 DEF Content
  <2>5. RingTypeOK'
    BY <1>1, <1>5, <2>1 DEF EnqueueWrite, RingInv, RingTypeOK
  <2>6. buf'[place] = NextValue
    BY <1>1, <2>1, <2>2
  <2>7. RoomOK'
    BY <1>5, <2>1, <2>2 DEF RingInv, RoomOK
  <2>8. ValuesInTurn'
    BY <1>1, <1>5, <2>1, <2>3, <2>6 DEF RingInv, ValuesInTurn
  <2> QED
    BY <2>1, <2>4, <2>5, <2>7, <2>8 DEF RingInv
<1>6. CASE EnqueueStore
  <2>1. /\ UNCHANGED <<buf, front, received, consumer, taken>> /\ producer' = "idle"
        /\ back' = (back + 1) % UIntRange /\ producer = "store"
    BY <1>6 DEF EnqueueStore
  <2>2. Used < NumElems /\ NextValue <= NumValues /\ NextValue = n + Used + 1
    BY <1>6 DEF EnqueueStore, RingInv, RoomOK, NextValue
  <2>3. back' = (IF back = UIntRange - 1 THEN 0 ELSE back + 1)
        /\ back' \in 0 .. UIntRange - 1
    BY <1>1, <2>1, CountUp
  <2>4. Used' = Used + 1
    <3>1. Used' = IF front <= back' THEN back' - front ELSE back' + UIntRange - front
      BY <1>1, <2>1, <2>3, Distance DEF Used
    <3>2. Used = IF front <= back THEN back - front ELSE back + UIntRange - front
      BY UsedIs DEF RingInv
    <3> QED
      BY <1>1, <2>2, <2>3, <3>1, <3>2
  <2>5. /\ back % NumElems = (front + Used) % NumElems
        /\ buf[(front + (Used + 1) - 1) % NumElems] = NextValue
    <3>1. front + (Used + 1) - 1 = front + Used
      BY <1>1
    <3> QED
      BY <2>1, <3>1, PlacesAre DEF RingInv, ValuesInTurn
  <2>6. ValuesInTurn'
    <3> SUFFICES ASSUME NEW k \in 1 .. Used + 1
                 PROVE  buf[(front + k - 1) % NumElems] = n + k
      BY <1>1, <2>1, <2>4 DEF ValuesInTurn, RingInv
    <3>1. CASE k = Used + 1
      BY <1>1, <2>2, <2>5, <3>1
    <3>2. CASE k # Used + 1
      <4>1. k \in 1 .. Used
        BY <1>1, <3>2
      <4> QED
        BY <4>1 DEF RingInv, ValuesInTurn
    <3> QED
      BY <3>1, <3>2
  <2>7. RingTypeOK' /\ RoomOK'
    BY <1>1, <2>1, <2>2, <2>3, <2>4 DEF RingInv, RingTypeOK, RoomOK
  <2>8. Content' = Append(Content, NextValue)
    <3>1. Content' = [k \in 1 .. Used + 1 |-> buf[(front + k - 1) % NumElems]]
      BY <2>1, <2>4 DEF Content
    <3>2. Append(Content, NextValue)
            = [k \in 1 .. Used + 1 |-> IF k = Used + 1 THEN NextValue ELSE Content[k]]
      BY <1>1, <1>a, <2>2, ContentIs, AppendIs
    <3>3. ASSUME NEW k \in 1 .. Used + 1
          PROVE  buf[(front + k - 1) % NumElems]
                   = IF k = Used + 1 THEN NextValue ELSE Content[k]
      <4>1. CASE k = Used + 1
        BY <2>5, <4>1
      <4>2. CASE k # Used + 1
        <5>1. k \in 1 .. Used
          BY <1>1, <4>2
        <5> QED
          BY <4>2, <5>1 DEF Content
      <4> QED
        BY <4>1, <4>2
    <3> QED
      BY <3>1, <3>2, <3>3
  <2>9. RingFifo!Enqueue("producer")
    <3>1. Len(received') + Used' = n + Used + 1
      BY <1>1, <2>1, <2>4
    <3>2. /\ CallsFrom(n + Used, n)["producer"] # <<>>
          /\ Head(CallsFrom(n + Used, n)["producer"])
               = [op |-> "enq", q |-> "ring", v |-> NextValue]
          /\ CallsFrom(n + Used + 1, n)
               = [CallsFrom(n + Used, n) EXCEPT !["producer"] = Tail(@)]
      <4>1. n + Used \in Nat /\ n + Used < NumValues /\ n + Used + 1 = NextValue
        BY <1>1, <2>2
      <4> QED
        BY <1>1, <4>1, NextPut
    <3> DEFINE c == CallsFrom(n + Used, n)
    <3>3. /\ c["producer"] # <<>> /\ Head(c["producer"]).op = "enq"
          /\ Head(c["producer"]).q = "ring" /\ Head(c["producer"]).v = NextValue
      BY <3>2
    <3>4. CallsFrom(Len(received) + Used, Len(received))' = [c EXCEPT !["producer"] = Tail(@)]
      BY <2>1, <3>1, <3>2
    <3> QED
      BY <2>1, <2>8, <3>3, <3>4
         DEF RingFifo!Enqueue, RingFifo!Calls, RingFifo!Queue, RingFifo!TakesEffect
  <2> QED
    BY <2>6, <2>7, <2>9 DEF RingInv, RingFifo!Next, RingThreads
<1>7. CASE DequeueStore
  <2>1. /\ UNCHANGED <<buf, back, producer, taken>> /\ consumer' = "idle"
        /\ front' = (front + 1) % UIntRange /\ consumer = "store"
        /\ received' = Append(received, taken)
    BY <1>7 DEF DequeueStore
  <2>2. Used > 0 /\ taken = n + 1
    BY <2>1 DEF RingInv, RoomOK, ValuesInTurn
  <2>3. front' = (IF front = UIntRange - 1 THEN 0 ELSE front + 1)
        /\ front' \in 0 .. UIntRange - 1
    BY <1>1, <2>1, CountUp
  <2>4. Used' = Used - 1
    <3>1. Used' = IF front' <= back THEN back - front' ELSE back + UIntRange - front'
      BY <1>1, <2>1, <2>3, Distance DEF Used
    <3>2. Used = IF front <= back THEN back - front ELSE back + UIntRange - front
      BY UsedIs DEF RingInv
    <3> QED
      BY <1>1, <2>2, <2>3, <3>1, <3>2
  <2>5. Len(received') = n + 1 /\ received' \in Seq(Nat)
    BY <1>1, <2>1
  <2>6. ASSUME NEW k \in 1 .. Used - 1
        PROVE  (front' + k - 1) % NumElems = (front + (k + 1) - 1) % NumElems
    <3> DEFINE x == front + k
    <3>1. x \in Nat /\ front + (k + 1) - 1 = x
      BY <1>1
    <3>2. CASE front = UIntRange - 1
      <4>1. x >= UIntRange /\ front' + k - 1 = x - UIntRange
        BY <1>1, <2>3, <3>2
      <4> HIDE DEF x
      <4>2. (x - UIntRange) % NumElems = x % NumElems
        BY <3>1, <4>1, SamePlace
      <4> QED
        BY <3>1, <4>1, <4>2
    <3>3. CASE front # UIntRange - 1
      <4>1. front' + k - 1 = x
        BY <1>1, <2>3, <3>3
      <4> QED
        BY <3>1, <4>1
    <3> QED
      BY <3>2, <3>3
  <2>7. ValuesInTurn'
    <3>1. ASSUME NEW k \in 1 .. Used - 1
          PROVE  buf[(front' + k - 1) % NumElems] = n + 1 + k
      <4>1. k + 1 \in 1 .. Used
        BY <1>1
      <4>2. buf[(front + (k + 1) - 1) % NumElems] = n + (k + 1)
        BY <4>1 DEF RingInv, ValuesInTurn
      <4> QED
        BY <1>1, <2>6, <4>2
    <3>2. NextValue' = NextValue
      BY <1>1, <2>1, <2>4, <2>5 DEF NextValue
    <3> QED
      BY <2>1, <2>4, <2>5, <3>1, <3>2 DEF RingInv, ValuesInTurn
  <2>8. RingTypeOK' /\ RoomOK'
    <3>1. NextValue' = NextValue
      BY <1>1, <2>1, <2>4, <2>5 DEF NextValue
    <3> QED
      BY <1>1, <2>1, <2>2, <2>3, <2>4, <2>5, <3>1 DEF RingInv, RingTypeOK, RoomOK
  <2>9. Content # <<>> /\ Head(Content) = taken
    <3>1. 1 \in 1 .. Used
      BY <1>1, <2>2
    <3>2. buf[(front + 1 - 1) % NumElems] = n + 1
      BY <3>1 DEF RingInv, ValuesInTurn
    <3>3. Content[1] = taken
      BY <2>2, <3>1, <3>2 DEF Content
    <3>4. Content # <<>> /\ Head(Content) = Content[1]
      BY <1>1, <2>2, <1>a, ContentIs
    <3> QED
      BY <3>3, <3>4
  <2>10. Content' = Tail(Content)
    <3>1. Content' = [k \in 1 .. Used - 1 |-> buf[(front' + k - 1) % NumElems]]
      BY <2>1, <2>4 DEF Content
    <3>2. Content' = [k \in 1 .. Used - 1 |-> buf[(front + (k + 1) - 1) % NumElems]]
      BY <2>6, <3>1
    <3>3. Tail(Content) = [k \in 1 .. Used - 1 |-> Content[k + 1]]
      BY <1>1, <2>2, <2>9, <1>a, ContentIs, TailIs
    <3>4. \A k \in 1 .. Used - 1 : Content[k + 1] = buf[(front + (k + 1) - 1) % NumElems]
      BY <1>1 DEF Content
    <3> QED
      BY <3>2, <3>3, <3>4
  <2>11. RingFifo!Dequeue("consumer")
    <3>1. Len(received') + Used' = n + Used /\ Len(received') = n + 1 /\ n < NumValues
      BY <1>1, <2>2, <2>4, <2>5 DEF RingInv, RoomOK
    <3>2. /\ CallsFrom(n + Used, n)["consumer"] # <<>>
          /\ Head(CallsFrom(n + Used, n)["consumer"]) = [op |-> "deq", q |-> "ring"]
          /\ CallsFrom(n + Used, n + 1)
               = [CallsFrom(n + Used, n) EXCEPT !["consumer"] = Tail(@)]
      <4>1. n + Used \in Nat
        BY <1>1
      <4> QED
        BY <1>1, <3>1, <4>1, NextGot
    <3> DEFINE c == CallsFrom(n + Used, n)
    <3>3. /\ c["consumer"] # <<>> /\ Head(c["consumer"]).op = "deq"
          /\ Head(c["consumer"]).q = "ring"
      BY <3>2
    <3>4. CallsFrom(Len(received) + Used, Len(received))' = [c EXCEPT !["consumer"] = Tail(@)]
      BY <3>1, <3>2
    <3> DEFINE items == [q \in {"ring"} |-> Content]
               got == [t \in RingThreads |-> IF t = "consumer" THEN received ELSE <<>>]
    <3>5. items["ring"] # <<>> /\ items' = [items EXCEPT !["ring"] = Tail(@)]
      BY <2>9, <2>10
    <3>6. got' = [got EXCEPT !["consumer"] = Append(@, Head(items["ring"]))]
      BY <2>1, <2>9 DEF RingThreads
    <3>7. [t \in RingThreads |-> FALSE]
            = [[t \in RingThreads |-> FALSE] EXCEPT !["consumer"] = FALSE]
      OBVIOUS
    <3> QED
      BY <3>3, <3>4, <3>5, <3>6, <3>7
         DEF RingFifo!Dequeue, RingFifo!Calls, RingFifo!Queue, RingFifo!TakesEffect
  <2> QED
    BY <2>7, <2>8, <2>11 DEF RingInv, RingFifo!Next, RingThreads
<1> QED
  BY <1>2, <1>3, <1>4, <1>5, <1>6, <1>7 DEF RingNext

(* What the queue consists of. *)
RingFifoVars == <<[q \in {"ring"} |-> Content],
                  CallsFrom(Len(received) + Used, Len(received)),
                  [t \in RingThreads |-> FALSE],
                  [t \in RingThreads |-> IF t = "consumer" THEN received ELSE <<>>]>>

(* Every behaviour of the ring buffer with one producer and one consumer   *)
(* is one of a queue: values leave in the order in which they came, none   *)
(* is overwritten or taken twice, also when front_ and back_ wrap around.  *)
THEOREM RingImplementsFifo == RingInit /\ [][RingNext]_ringVars => RingIsFifo
<1>1. RingInit => RingInv
  BY InitRing
<1>2. RingInv /\ [RingNext]_ringVars => RingInv'
  <2>1. CASE RingNext
    BY <2>1, StepRing
  <2>2. CASE UNCHANGED ringVars
    BY <2>2 DEF ringVars, ring, RingInv, RingTypeOK, RoomOK, ValuesInTurn,
       Used, NextValue
  <2> QED
    BY <2>1, <2>2
<1>3. RingInit => RingFifo!Init
  <2> SUFFICES ASSUME RingInit
               PROVE  RingFifo!Init
    OBVIOUS
  <2>1. Used = 0 /\ received = <<>>
    BY InitRing, UsedIs DEF RingInv, RingInit
  <2>2. Content = <<>>
    BY <2>1 DEF Content
  <2> QED
    BY <2>1, <2>2 DEF RingFifo!Init, RingThreads
<1>4. RingInv /\ [RingNext]_ringVars
        => [RingFifo!Next]_RingFifoVars
  <2>1. CASE RingNext
    BY <2>1, StepRing DEF RingFifoVars
  <2>2. CASE UNCHANGED ringVars
    BY <2>2 DEF ringVars, ring, Content, Used, RingFifoVars
  <2> QED
    BY <2>1, <2>2
<1> QED
  BY <1>1, <1>2, <1>3, <1>4, PTL DEF RingIsFifo, RingFifo!Spec, RingFifoVars

-----------------------------------------------------------------------------
(* Parking.                                                                *)
(* What removing one waiter leaves. *)
LEMMA RemoveAtOf ==
  ASSUME NEW S, NEW s \in Seq(S), NEW n \in 1 .. Len(s)
  PROVE  /\ RemoveAt(s, n) \in Seq(S)
         /\ Len(RemoveAt(s, n)) = Len(s) - 1
         /\ \A m \in 1 .. Len(s) - 1 :
              RemoveAt(s, n)[m] = IF m < n THEN s[m] ELSE s[m + 1]
<1> DEFINE p == SubSeq(s, 1, n - 1)
           q == SubSeq(s, n + 1, Len(s))
<1>1. p \in Seq(S) /\ Len(p) = n - 1 /\ \A m \in 1 .. n - 1 : p[m] = s[m]
  OBVIOUS
<1>2. q \in Seq(S) /\ Len(q) = Len(s) - n
      /\ \A m \in 1 .. Len(s) - n : q[m] = s[m + n]
  OBVIOUS
<1>3. RemoveAt(s, n) = p \o q
  BY DEF RemoveAt
<1> HIDE DEF p, q
<1>4. p \o q \in Seq(S) /\ Len(p \o q) = Len(s) - 1
  <2>1. p \o q \in Seq(S) /\ Len(p \o q) = Len(p) + Len(q)
    BY <1>1, <1>2, ConcatProperties
  <2>2. Len(s) \in Nat
    OBVIOUS
  <2> QED
    BY <2>1, <2>2, <1>1, <1>2
<1>5. ASSUME NEW m \in 1 .. Len(s) - 1
      PROVE  (p \o q)[m] = IF m < n THEN s[m] ELSE s[m + 1]
  <2>1. CASE m < n
    BY <2>1, <1>1, <1>2
  <2>2. CASE ~(m < n)
    <3>1. (p \o q)[m] = q[m - (n - 1)]
      BY <2>2, <1>1, <1>2
    <3>2. m - (n - 1) \in 1 .. Len(s) - n
      BY <2>2
    <3> QED
      BY <3>1, <3>2, <1>2, <2>2
  <2> QED
    BY <2>1, <2>2
<1> QED
  BY <1>3, <1>4, <1>5


(***************************************************************************)
(* The list of the bucket.                                                 *)
(***************************************************************************)
Members(q) == {q[n].thread : n \in 1 .. Len(q)}
OwnFlags(q) == \A n \in 1 .. Len(q) : q[n].word = q[n].thread
Once(q) == \A m, n \in 1 .. Len(q) : q[m].thread = q[n].thread => m = n
ListOK(q) == q \in Seq(Waiters) /\ OwnFlags(q) /\ Once(q)

LEMMA AppendMembers ==
  ASSUME NEW q, ListOK(q), NEW k \in Parkers, k \notin Members(q)
  PROVE  LET r == Append(q, [thread |-> k, word |-> k])
         IN  ListOK(r) /\ Members(r) = Members(q) \cup {k}
<1> DEFINE e == [thread |-> k, word |-> k]
           r == Append(q, e)
<1>1. e \in Waiters /\ e.thread = k /\ e.word = k
  BY WordsAssumption DEF Waiters, Parkers
<1> HIDE DEF e
<1>2. q \in Seq(Waiters) /\ Len(q) \in Nat
  BY DEF ListOK
<1>3. /\ r \in Seq(Waiters)
      /\ Len(r) = Len(q) + 1
      /\ \A n \in 1 .. Len(q) : r[n] = q[n]
      /\ r[Len(q) + 1] = e
  BY <1>1, <1>2
<1> HIDE DEF r
<1>4. OwnFlags(r)
  BY <1>1, <1>2, <1>3 DEF ListOK, OwnFlags
<1>5. Once(r)
  BY <1>1, <1>2, <1>3 DEF ListOK, Once, Members
<1>6. Members(r) = Members(q) \cup {k}
  <2>1. Members(r) \subseteq Members(q) \cup {k}
    BY <1>1, <1>2, <1>3 DEF Members
  <2>2. k \in Members(r)
    BY <1>1, <1>2, <1>3 DEF Members
  <2>3. ASSUME NEW n \in 1 .. Len(q)
        PROVE  q[n].thread \in Members(r)
    <3>1. n \in 1 .. Len(r) /\ r[n] = q[n]
      BY <1>2, <1>3
    <3> QED
      BY <3>1 DEF Members
  <2> QED
    BY <2>1, <2>2, <2>3 DEF Members
<1> QED
  BY <1>3, <1>4, <1>5, <1>6 DEF ListOK, r, e

LEMMA RemoveMembers ==
  ASSUME NEW q, ListOK(q), NEW n \in 1 .. Len(q)
  PROVE  /\ ListOK(RemoveAt(q, n))
         /\ Members(RemoveAt(q, n)) = Members(q) \ {q[n].thread}
<1> DEFINE r == RemoveAt(q, n)
           Old(m) == IF m < n THEN m ELSE m + 1
<1>1. q \in Seq(Waiters) /\ Len(q) \in Nat
  BY DEF ListOK
<1>2. /\ r \in Seq(Waiters)
      /\ Len(r) = Len(q) - 1
      /\ \A m \in 1 .. Len(q) - 1 : r[m] = IF m < n THEN q[m] ELSE q[m + 1]
  BY <1>1, RemoveAtOf
<1> HIDE DEF r
<1>3. \A m \in 1 .. Len(r) :
        /\ Old(m) \in 1 .. Len(q)
        /\ Old(m) # n
        /\ r[m] = q[Old(m)]
  BY <1>1, <1>2
<1>4. \A l, m \in 1 .. Len(r) : Old(l) = Old(m) => l = m
  OBVIOUS
<1>5. \A j \in 1 .. Len(q) : j # n => \E m \in 1 .. Len(r) : Old(m) = j
  <2> SUFFICES ASSUME NEW j \in 1 .. Len(q), j # n
               PROVE  \E m \in 1 .. Len(r) : Old(m) = j
    OBVIOUS
  <2>1. CASE j < n
    BY <2>1, <1>1, <1>2
  <2>2. CASE ~(j < n)
    <3>1. j - 1 \in 1 .. Len(r) /\ Old(j - 1) = j
      BY <2>2, <1>1, <1>2
    <3> QED
      BY <3>1
  <2> QED
    BY <2>1, <2>2
<1> HIDE DEF Old
<1>6. OwnFlags(r)
  BY <1>3 DEF ListOK, OwnFlags
<1>7. Once(r)
  BY <1>3, <1>4 DEF ListOK, Once
<1>8. Members(r) = Members(q) \ {q[n].thread}
  <2>1. Members(r) \subseteq Members(q) \ {q[n].thread}
    BY <1>3 DEF ListOK, Once, Members
  <2>2. ASSUME NEW j \in 1 .. Len(q), q[j].thread # q[n].thread
        PROVE  q[j].thread \in Members(r)
    <3>1. PICK m \in 1 .. Len(r) : Old(m) = j
      BY <2>2, <1>5
    <3>2. r[m] = q[j]
      BY <3>1, <1>3
    <3> QED
      BY <3>2 DEF Members
  <2> QED
    BY <2>1, <2>2 DEF Members
<1> QED
  BY <1>2, <1>6, <1>7, <1>8 DEF ListOK, r

LEMMA InListIsMember == ASSUME NEW k PROVE InList(k) <=> k \in Members(queue)
BY DEF InList, Members

LEMMA WakeMembers ==
  ASSUME ListOK(queue), NEW k \in Parkers, WakeOne(k)
  PROVE  ListOK(queue') /\ Members(queue') = Members(queue) \ {k}
<1>1. \A n \in 1 .. Len(queue) : n \in Candidates(k) <=> queue[n].thread = k
  BY DEF Candidates, ListOK, OwnFlags
<1>2. CASE Candidates(k) = {}
  <2>1. queue' = queue
    BY <1>2 DEF WakeOne
  <2>2. k \notin Members(queue)
    BY <1>1, <1>2 DEF Members
  <2> QED
    BY <2>1, <2>2
<1>3. CASE Candidates(k) # {}
  <2>1. PICK n \in Candidates(k) : queue' = RemoveAt(queue, n)
    BY <1>3 DEF WakeOne
  <2>2. n \in 1 .. Len(queue) /\ queue[n].thread = k
    BY <1>1 DEF Candidates
  <2> QED
    BY <2>1, <2>2, RemoveMembers
<1> QED
  BY <1>2, <1>3

LEMMA GiveUpMembers ==
  ASSUME ListOK(queue), NEW k, GiveUp(k)
  PROVE  ListOK(queue') /\ Members(queue') = Members(queue) \ {k}
<1>1. PICK n \in 1 .. Len(queue) :
        queue[n].thread = k /\ queue' = RemoveAt(queue, n)
  BY DEF GiveUp
<1> QED
  BY <1>1, RemoveMembers

(***************************************************************************)
(* The inductive invariant.  A parker that is on its way to sleep, or      *)
(* asleep, has looked at signaled before; if it is signaled now, then the  *)
(* flag is up or will be raised.  If a listed parker's flag is up, it was  *)
(* raised after the parker was listed, and the unpark that raised it has   *)
(* still to wake.                                                          *)
(***************************************************************************)
ParkTypes ==
  /\ val \in [Parkers -> {0, 1}]
  /\ parker \in [Parkers -> {"check", "test", "wait", "asleep", "lower"}]
  /\ unparker \in [Unparkers -> {"signal", "raise", "wake"}]
  /\ target \in [Unparkers -> Parkers \cup {NoParker}]
  /\ signaled \in [Parkers -> BOOLEAN]
  /\ \A u \in Unparkers : unparker[u] # "signal" => target[u] \in Parkers

ParkListInv ==
  /\ ListOK(queue)
  /\ \A k \in Members(queue) : parker[k] = "asleep"

FlagUpOrRaised ==
  \A k \in Parkers :
    parker[k] \in {"test", "wait", "asleep"} /\ signaled[k]
      => val[k] = 1 \/ UnparkUnderWay(k, {"raise"})

RaisedWakes ==
  \A k \in Members(queue) : val[k] = 1 => UnparkUnderWay(k, {"wake"})

ParkInv == ParkTypes /\ ParkListInv /\ FlagUpOrRaised /\ RaisedWakes

LEMMA ParkInvImplies == ParkInv => ParkTypeOK /\ NoDanglingWaiters /\ WakeOnItsWay
<1> SUFFICES ASSUME ParkInv PROVE ParkTypeOK /\ NoDanglingWaiters /\ WakeOnItsWay
  OBVIOUS
<1>1. ParkTypeOK
  BY WordsAssumption DEF ParkInv, ParkTypes, ParkListInv, ListOK, ParkTypeOK, Parkers
<1>2. NoDanglingWaiters
  BY DEF ParkInv, ParkListInv, ListOK, OwnFlags, Once, Members, NoDanglingWaiters
<1>3. WakeOnItsWay
  <2> SUFFICES ASSUME NEW k \in Parkers,
                      parker[k] = "asleep", InList(k), signaled[k]
               PROVE  UnparkUnderWay(k, {"raise", "wake"})
    BY DEF WakeOnItsWay
  <2>1. CASE val[k] = 1
    <3>1. UnparkUnderWay(k, {"wake"})
      BY <2>1, InListIsMember DEF ParkInv, RaisedWakes
    <3> QED
      BY <3>1 DEF UnparkUnderWay
  <2>2. CASE val[k] # 1
    <3>1. UnparkUnderWay(k, {"raise"})
      BY <2>2 DEF ParkInv, FlagUpOrRaised
    <3> QED
      BY <3>1 DEF UnparkUnderWay
  <2> QED
    BY <2>1, <2>2
<1> QED
  BY <1>1, <1>2, <1>3

LEMMA InitPark == ParkInit => ParkInv
<1> SUFFICES ASSUME ParkInit PROVE ParkInv
  OBVIOUS
<1>1. ParkTypes
  BY WordsAssumption DEF ParkInit, FutexInit, ParkTypes, Parkers
<1>2. Members(queue) = {} /\ ListOK(queue)
  BY DEF ParkInit, FutexInit, Members, ListOK, OwnFlags, Once
<1>3. FlagUpOrRaised
  BY DEF ParkInit, FlagUpOrRaised
<1> QED
  BY <1>1, <1>2, <1>3 DEF ParkInv, ParkListInv, RaisedWakes

LEMMA StepPark == ParkInv /\ [ParkNext]_pkVars => ParkInv'
<1> SUFFICES ASSUME ParkInv, [ParkNext]_pkVars PROVE ParkInv'
  OBVIOUS
<1> USE DEF ParkInv
<1>1. ASSUME NEW k \in Parkers, CheckSignaled(k) PROVE ParkInv'
  BY <1>1 DEF CheckSignaled, ParkTypes, ParkListInv, FlagUpOrRaised, RaisedWakes,
              UnparkUnderWay
<1>2. ASSUME NEW k \in Parkers, CheckNotSignaled(k) PROVE ParkInv'
  BY <1>2 DEF CheckNotSignaled, ParkerAt, ParkTypes, ParkListInv, FlagUpOrRaised,
              RaisedWakes, UnparkUnderWay
<1>3. ASSUME NEW k \in Parkers, ParkTest(k) PROVE ParkInv'
  BY <1>3 DEF ParkTest, ParkerAt, ParkTypes, ParkListInv, FlagUpOrRaised, RaisedWakes,
              UnparkUnderWay
<1>4. ASSUME NEW k \in Parkers, ParkWait(k) PROVE ParkInv'
  <2>0. k \notin Members(queue) /\ parker[k] = "wait"
    BY <1>4 DEF ParkWait, ParkListInv
  <2>1. CASE StartWait(k, k, 0) /\ ParkerAt(k, "asleep")
    <3>1. ListOK(queue') /\ Members(queue') = Members(queue) \cup {k}
      BY <2>0, <2>1, AppendMembers DEF StartWait, ParkListInv
    <3>2. val[k] = 0 /\ parker' = [parker EXCEPT ![k] = "asleep"]
          /\ UNCHANGED <<val, unparker, target, signaled>>
      BY <1>4, <2>1 DEF StartWait, ParkWait, ParkerAt
    <3> QED
      BY <2>0, <3>1, <3>2 DEF ParkTypes, ParkListInv, FlagUpOrRaised, RaisedWakes,
                              UnparkUnderWay
  <2>2. CASE NoWait(k, 0) /\ ParkerAt(k, "lower")
    BY <1>4, <2>0, <2>2
       DEF ParkWait, NoWait, ParkerAt, ParkTypes, ParkListInv, FlagUpOrRaised,
           RaisedWakes, UnparkUnderWay
  <2> QED
    BY <1>4, <2>1, <2>2 DEF ParkWait
<1>5. ASSUME NEW k \in Parkers, ParkSignaled(k) PROVE ParkInv'
  <2>1. k \notin Members(queue)
    BY <1>5, InListIsMember DEF ParkSignaled, Signaled
  <2> QED
    BY <1>5, <2>1
       DEF ParkSignaled, Signaled, ParkerAt, ParkTypes, ParkListInv, FlagUpOrRaised,
           RaisedWakes, UnparkUnderWay
<1>6. ASSUME NEW k \in Parkers, ParkGivesUp(k) PROVE ParkInv'
  <2>1. ListOK(queue') /\ Members(queue') = Members(queue) \ {k}
    BY <1>6, GiveUpMembers DEF ParkGivesUp, ParkListInv
  <2> QED
    BY <1>6, <2>1
       DEF ParkGivesUp, ParkerAt, ParkTypes, ParkListInv, FlagUpOrRaised, RaisedWakes,
           UnparkUnderWay
<1>7. ASSUME NEW k \in Parkers, ParkLower(k) PROVE ParkInv'
  BY <1>7 DEF ParkLower, ParkerAt, ParkTypes, ParkListInv, FlagUpOrRaised, RaisedWakes,
              UnparkUnderWay
<1>8. ASSUME NEW u \in Unparkers, Signal(u) PROVE ParkInv'
  BY <1>8 DEF Signal, UnparkerAt, ParkTypes, ParkListInv, FlagUpOrRaised, RaisedWakes,
              UnparkUnderWay
<1>9. ASSUME NEW u \in Unparkers, UnparkRaise(u) PROVE ParkInv'
  BY <1>9, ParkersAssumption
     DEF UnparkRaise, UnparkerAt, Return, ParkTypes, ParkListInv, FlagUpOrRaised,
         RaisedWakes, UnparkUnderWay
<1>10. ASSUME NEW u \in Unparkers, UnparkWake(u) PROVE ParkInv'
  <2>1. target[u] \in Parkers
    BY <1>10 DEF UnparkWake, ParkTypes
  <2>2. ListOK(queue') /\ Members(queue') = Members(queue) \ {target[u]}
    BY <1>10, <2>1, WakeMembers DEF UnparkWake, ParkListInv
  <2> QED
    BY <1>10, <2>1, <2>2
       DEF UnparkWake, UnparkerAt, Return, ParkTypes, ParkListInv, FlagUpOrRaised,
           RaisedWakes, UnparkUnderWay
<1>11. CASE UNCHANGED pkVars
  BY <1>11 DEF pkVars, ParkTypes, ParkListInv, FlagUpOrRaised, RaisedWakes,
               UnparkUnderWay
<1> QED
  BY <1>1, <1>2, <1>3, <1>4, <1>5, <1>6, <1>7, <1>8, <1>9, <1>10, <1>11
     DEF ParkNext, ParkerStep, Unpark

(* The types, the list of the bucket, and that no signal is slept through, *)
(* in every reachable state.                                               *)
THEOREM ParkingInvariance == ParkSpec => []ParkInv
<1> QED
  BY InitPark, StepPark, PTL DEF ParkSpec

(* A waiter's node is on the list only while its thread is in waitInner.   *)
THEOREM WaitersStay == ParkSpec => []NoDanglingWaiters
<1> QED
  BY ParkingInvariance, ParkInvImplies, PTL

(* A parker that sleeps although it was signaled is about to be woken.     *)
THEOREM NoSignalLost == ParkSpec => []WakeOnItsWay
<1> QED
  BY ParkingInvariance, ParkInvImplies, PTL
=============================================================================
