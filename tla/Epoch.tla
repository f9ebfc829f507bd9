------------------------------- MODULE Epoch -------------------------------
(***************************************************************************)
(* Epoch-based reclamation (epoch_sc.cpp, epoch_shared.hpp), and threads   *)
(* that use it: they read and replace a shared object in critical          *)
(* sections, wait for the readers with rcuSynchronize, and exit.  An       *)
(* object is named by the number of replacements before it.  Each action   *)
(* is one access to shared memory, with the local work that follows it;    *)
(* an atomic push to, or emptying of, a bag of garbage is one step.        *)
(***************************************************************************)
EXTENDS Integers, Sequences, FiniteSets

CONSTANTS Threads,           \* each is one participant, from enroll to exit
          NoThread,          \* the null pointer
          Scripts,           \* what the threads do: a set of functions from
                             \* some threads to sequences of Operations
          GarbageThreshold   \* kGarbageThreshold

(* A thread exits when it has nothing more to do, or stays. *)
Operations == {"read", "rcuRead", "update", "sync", "stay"}

ASSUME EpochAssumption ==
  /\ \A s \in Scripts : /\ DOMAIN s \subseteq Threads
                         /\ s \in [DOMAIN s -> Seq(Operations)]
  /\ GarbageThreshold \in Nat

(* A pointer to a participant is never one to an object, and never null.   *)
ASSUME PointersAssumption ==
  /\ NoThread \notin Threads
  /\ (Threads \cup {NoThread}) \cap Nat = {}

VARIABLES
  globalEpoch,   \* global_epoch_
  bags,          \* global_garbage_
  participants,  \* participants_
  next,          \* Participant::next_, of each thread: a pointer and its tag
  epoch,         \* Participant::epoch_
  inCritical,    \* Participant::in_critical_
  garbage,       \* Participant::garbage_
  object,        \* the object the threads share
  freed,         \* objects and participants that were deleted
  pc, frame,     \* where each thread is, and its locals
  script,        \* operations it has still to do
  held,          \* the object it took a reference to
  readers        \* history variable: the threads that are in a critical
                 \* section since before this thread's rcuSynchronize

list    == <<participants, next>>
epochs  == <<globalEpoch, epoch, inCritical>>
rubbish == <<bags, garbage, freed>>
client  == <<object, script, held, readers>>
vars    == <<list, epochs, rubbish, client, pc, frame>>

NumEpochs == 3  \* kNumEpochs
Link(to, tag) == [to |-> to, tag |-> tag]
NoGarbage == [old |-> {}, cur |-> {}, new |-> {}]
NoFrame == [epoch |-> 0, old |-> 0, prev |-> NoThread, cur |-> NoThread,
            next |-> NoThread, caller |-> "enter", successes |-> 0]

Goto(t, label) == pc' = [pc EXCEPT ![t] = label]
Doing(t) == IF script[t] = <<>> THEN "leave" ELSE Head(script[t])

Init ==
  /\ globalEpoch = 0
  /\ bags = [n \in 0 .. NumEpochs - 1 |-> {}]
  /\ participants = NoThread
  /\ next = [t \in Threads |-> Link(NoThread, 0)]
  /\ epoch = [t \in Threads |-> 0]
  /\ inCritical = [t \in Threads |-> 0]
  /\ garbage = [t \in Threads |-> NoGarbage]
  /\ object = 0
  /\ freed = {}
  /\ script \in Scripts
  /\ pc = [t \in Threads |-> IF t \in DOMAIN script THEN "start" ELSE "never"]
  /\ frame = [t \in Threads |-> NoFrame]
  /\ held = [t \in Threads |-> {}]
  /\ readers = [t \in Threads |-> {}]

(* quickEnter has returned, and exit has not begun. *)
Pinned(t) == inCritical[t] > 0 /\ pc[t] \notin {"readEpoch", "copyEpoch"}

-----------------------------------------------------------------------------
(* enroll *)
Enroll(t) ==
  /\ pc[t] = "start"
  /\ frame' = [frame EXCEPT ![t].cur = participants]
  /\ Goto(t, "enroll")
  /\ UNCHANGED <<list, epochs, rubbish, client>>

EnrollCas(t) ==
  /\ pc[t] = "enroll"
  /\ IF participants = frame[t].cur
     THEN /\ next' = [next EXCEPT ![t] = Link(participants, 0)]
          /\ participants' = t
          /\ Goto(t, "idle")
          /\ frame' = [frame EXCEPT ![t] = NoFrame]
     ELSE /\ frame' = [frame EXCEPT ![t].cur = participants]
          /\ UNCHANGED <<list, pc>>
  /\ UNCHANGED <<epochs, rubbish, client>>

-----------------------------------------------------------------------------
(* quickEnter, and what enter adds to it.  A thread in a critical section  *)
(* is counted in in_critical_ before it looks at the global epoch.         *)
Enter(t) ==
  /\ pc[t] = "idle"
  /\ Doing(t) # "stay"
  /\ inCritical' = [inCritical EXCEPT ![t] = @ + 1]
  /\ frame' = [frame EXCEPT ![t].old = epoch[t], ![t].caller = "enter"]
  /\ readers' = IF Doing(t) = "sync" /\ frame[t].successes = 0
                THEN [readers EXCEPT ![t] =
                        {u \in Threads \ {t} : Pinned(u)}]
                ELSE readers
  /\ Goto(t, "readEpoch")
  /\ UNCHANGED <<list, globalEpoch, epoch, rubbish, object, script, held>>

ReadEpoch(t) ==
  /\ pc[t] = "readEpoch"
  /\ frame' = [frame EXCEPT ![t].epoch = globalEpoch]
  /\ Goto(t, "copyEpoch")
  /\ UNCHANGED <<list, epochs, rubbish, client>>

NeedsCollect(t) == Cardinality(garbage[t].new) > GarbageThreshold

CopyEpoch(t) ==
  /\ pc[t] = "copyEpoch"
  /\ epoch' = [epoch EXCEPT ![t] = frame[t].epoch]
  /\ Goto(t, IF Doing(t) = "rcuRead" THEN "body"
             ELSE IF frame[t].old # frame[t].epoch THEN "collect"
             ELSE IF NeedsCollect(t) THEN "tryCollect"
             ELSE "body")
  /\ frame' = [frame EXCEPT ![t].epoch = 0, ![t].old = 0]
  /\ UNCHANGED <<list, globalEpoch, inCritical, rubbish, client>>

(* RealLocalGarbage::collect *)
Collect(t) ==
  /\ freed' = freed \cup garbage[t].old
  /\ garbage' = [garbage EXCEPT ![t] =
                   [old |-> @.cur, cur |-> @.new, new |-> {}]]

(* The epoch has changed; nothing is new any more, so no tryCollect.       *)
CollectOnEnter(t) ==
  /\ pc[t] = "collect"
  /\ Collect(t)
  /\ Goto(t, "body")
  /\ UNCHANGED <<list, epochs, bags, client, frame>>

-----------------------------------------------------------------------------
(* tryCollect, called by enter or by rcuSynchronize in its own section.    *)
(* prev is the participant whose next_ prevp points to, NoThread for the   *)
(* head of the list.                                                       *)
ReturnFrom(t, success) ==
  /\ frame' = [frame EXCEPT ![t] =
                 [NoFrame EXCEPT !.successes = frame[t].successes +
                    (IF success /\ frame[t].caller = "sync" THEN 1 ELSE 0)]]
  /\ Goto(t, IF frame[t].caller = "sync" THEN "exit" ELSE "body")

StartCollect(t) ==
  /\ pc[t] = "tryCollect"
  /\ frame' = [frame EXCEPT ![t].epoch = globalEpoch]
  /\ Goto(t, "first")
  /\ UNCHANGED <<list, epochs, rubbish, client>>

Continue(t, prev, cur) ==
  /\ frame' = [frame EXCEPT ![t].prev = prev, ![t].cur = cur]
  /\ Goto(t, IF cur = NoThread THEN "advance" ELSE "look")

FirstParticipant(t) ==
  /\ pc[t] = "first"
  /\ Continue(t, NoThread, participants)
  /\ UNCHANGED <<list, epochs, rubbish, client>>

Look(t) ==
  /\ pc[t] = "look"
  /\ frame' = [frame EXCEPT ![t].next = next[frame[t].cur].to]
  /\ Goto(t, IF next[frame[t].cur].tag = 1 THEN "unlink" ELSE "inCritical")
  /\ UNCHANGED <<list, epochs, rubbish, client>>

UnlinkDeletes(t) ==  \* mutant: the participant is deleted at once
  LET f == frame[t] IN
  /\ pc[t] = "unlink"
  /\ IF f.prev = NoThread THEN participants = f.cur ELSE next[f.prev] = Link(f.cur, 0)
  /\ IF f.prev = NoThread
     THEN participants' = f.next /\ UNCHANGED next
     ELSE next' = [next EXCEPT ![f.prev] = Link(f.next, 0)] /\ UNCHANGED participants
  /\ freed' = freed \cup {f.cur}
  /\ Continue(t, f.prev, f.next)
  /\ UNCHANGED <<epochs, bags, garbage, client>>

(* Fails if the node is unlinked already or the one before it has exited.  *)
(* The nested critical section only counts up and down.                    *)
Unlink(t) ==
  LET f == frame[t] IN
  /\ pc[t] = "unlink"
  /\ IF f.prev = NoThread THEN participants = f.cur ELSE next[f.prev] = Link(f.cur, 0)
  /\ IF f.prev = NoThread
     THEN participants' = f.next /\ UNCHANGED next
     ELSE next' = [next EXCEPT ![f.prev] = Link(f.next, 0)] /\ UNCHANGED participants
  /\ garbage' = [garbage EXCEPT ![t].new = @ \cup {f.cur}]
  /\ Continue(t, f.prev, f.next)
  /\ UNCHANGED <<epochs, bags, freed, client>>

UnlinkFails(t) ==
  LET f == frame[t] IN
  /\ pc[t] = "unlink"
  /\ IF f.prev = NoThread THEN participants # f.cur ELSE next[f.prev] # Link(f.cur, 0)
  /\ Goto(t, "first")
  /\ UNCHANGED <<list, epochs, rubbish, client, frame>>

LookInCritical(t) ==
  LET f == frame[t] IN
  /\ pc[t] = "inCritical"
  /\ IF inCritical[f.cur] > 0
     THEN Goto(t, "compare") /\ UNCHANGED frame
     ELSE Continue(t, f.cur, f.next)
  /\ UNCHANGED <<list, epochs, rubbish, client>>

CompareNothing(t) ==  \* mutant: the epochs are not compared
  /\ pc[t] = "compare"
  /\ Continue(t, frame[t].cur, frame[t].next)
  /\ UNCHANGED <<list, epochs, rubbish, client>>

CompareEpochs(t) ==
  LET f == frame[t] IN
  /\ pc[t] = "compare"
  /\ IF epoch[f.cur] # f.epoch
     THEN ReturnFrom(t, FALSE)
     ELSE Continue(t, f.cur, f.next)
  /\ UNCHANGED <<list, epochs, rubbish, client>>

Advance(t) ==
  /\ pc[t] = "advance"
  /\ IF globalEpoch = frame[t].epoch
     THEN /\ globalEpoch' = globalEpoch + 1
          /\ Goto(t, "collectGlobal")
          /\ frame' = [frame EXCEPT ![t].prev = NoThread, ![t].next = NoThread]
     ELSE ReturnFrom(t, FALSE) /\ UNCHANGED globalEpoch
  /\ UNCHANGED <<list, epoch, inCritical, rubbish, client>>

CollectNewest(t) ==  \* mutant: the bag of the epoch that just ended
  LET n == frame[t].epoch % NumEpochs IN
  /\ pc[t] = "collectGlobal"
  /\ freed' = freed \cup bags[n]
  /\ bags' = [bags EXCEPT ![n] = {}]
  /\ Goto(t, "collectLocal")
  /\ UNCHANGED <<list, epochs, garbage, client, frame>>

(* ConcurrentBag::collect, of the bag two epochs behind the new one. *)
CollectGlobal(t) ==
  LET n == (frame[t].epoch + 2) % NumEpochs IN
  /\ pc[t] = "collectGlobal"
  /\ freed' = freed \cup bags[n]
  /\ bags' = [bags EXCEPT ![n] = {}]
  /\ Goto(t, "collectLocal")
  /\ UNCHANGED <<list, epochs, garbage, client, frame>>

CollectLocal(t) ==
  /\ pc[t] = "collectLocal"
  /\ Collect(t)
  /\ Goto(t, "update")
  /\ UNCHANGED <<list, epochs, bags, client, frame>>

UpdateLocal(t) ==
  /\ pc[t] = "update"
  /\ epoch' = [epoch EXCEPT ![t] = frame[t].epoch + 1]
  /\ ReturnFrom(t, TRUE)
  /\ UNCHANGED <<list, globalEpoch, inCritical, rubbish, client>>

-----------------------------------------------------------------------------
(* What the threads do in a critical section. *)
Read(t) ==
  /\ pc[t] = "body"
  /\ Doing(t) \in {"read", "rcuRead"}
  /\ held' = [held EXCEPT ![t] = {object}]
  /\ Goto(t, "exit")
  /\ UNCHANGED <<list, epochs, rubbish, object, script, readers, frame>>

(* An atomic exchange, and unlinked(). *)
Update(t) ==
  /\ pc[t] = "body"
  /\ Doing(t) = "update"
  /\ object' = object + 1
  /\ garbage' = [garbage EXCEPT ![t].new = @ \cup {object}]
  /\ Goto(t, "exit")
  /\ UNCHANGED <<list, epochs, bags, freed, script, held, readers, frame>>

(* rcuSynchronize collects in each of its critical sections, *)
Synchronize(t) ==
  /\ pc[t] = "body"
  /\ Doing(t) = "sync"
  /\ frame' = [frame EXCEPT ![t].caller = "sync"]
  /\ Goto(t, "tryCollect")
  /\ UNCHANGED <<list, epochs, rubbish, client>>

OneSuccess == 1  \* mutant: one is enough

(* until it succeeded three times. *)
SuccessesWanted == 3

(* ~LocalEpoch migrates the garbage to the bag of the global epoch. *)
Migrate(t) ==
  /\ pc[t] = "body"
  /\ Doing(t) = "leave"
  /\ frame' = [frame EXCEPT ![t].epoch = globalEpoch]
  /\ Goto(t, "migrate")
  /\ UNCHANGED <<list, epochs, rubbish, client>>

RegisterNewest(t) ==  \* mutant: only the newest garbage is moved
  /\ pc[t] = "migrate"
  /\ bags' = [bags EXCEPT ![frame[t].epoch % NumEpochs] = @ \cup garbage[t].new]
  /\ garbage' = [garbage EXCEPT ![t] = NoGarbage]
  /\ Goto(t, "exit")
  /\ UNCHANGED <<list, epochs, freed, client, frame>>

RegisterCleanup(t) ==
  /\ pc[t] = "migrate"
  /\ bags' = [bags EXCEPT ![frame[t].epoch % NumEpochs] =
                @ \cup garbage[t].old \cup garbage[t].cur \cup garbage[t].new]
  /\ garbage' = [garbage EXCEPT ![t] = NoGarbage]
  /\ Goto(t, "exit")
  /\ UNCHANGED <<list, epochs, freed, client, frame>>

(* exit; references do not outlive the critical section. *)
Exit(t) ==
  LET again == Doing(t) = "sync" /\ frame[t].successes < SuccessesWanted IN
  /\ pc[t] = "exit"
  /\ inCritical' = [inCritical EXCEPT ![t] = @ - 1]
  /\ held' = [held EXCEPT ![t] = {}]
  /\ readers' = [u \in Threads |-> readers[u] \ {t}]
  /\ script' = IF again \/ Doing(t) = "leave" THEN script
               ELSE [script EXCEPT ![t] = Tail(@)]
  /\ Goto(t, IF Doing(t) = "leave" THEN "shutdown"
             ELSE IF Doing(t) = "sync" /\ ~again THEN "synced"
             ELSE "idle")
  /\ UNCHANGED <<list, globalEpoch, epoch, rubbish, object, frame>>

(* rcuSynchronize returns. *)
Synced(t) ==
  /\ pc[t] = "synced"
  /\ frame' = [frame EXCEPT ![t] = NoFrame]
  /\ readers' = [readers EXCEPT ![t] = {}]
  /\ Goto(t, "idle")
  /\ UNCHANGED <<list, epochs, rubbish, object, script, held>>

Shutdown(t) ==
  /\ pc[t] = "shutdown"
  /\ next' = [next EXCEPT ![t].tag = 1]
  /\ frame' = [frame EXCEPT ![t] = NoFrame]
  /\ Goto(t, "gone")
  /\ UNCHANGED <<participants, epochs, rubbish, client>>

Step(t) ==
  \/ Enroll(t) \/ EnrollCas(t)
  \/ Enter(t) \/ ReadEpoch(t) \/ CopyEpoch(t) \/ CollectOnEnter(t)
  \/ StartCollect(t) \/ FirstParticipant(t) \/ Look(t)
  \/ Unlink(t) \/ UnlinkFails(t) \/ LookInCritical(t) \/ CompareEpochs(t)
  \/ Advance(t) \/ CollectGlobal(t) \/ CollectLocal(t) \/ UpdateLocal(t)
  \/ Read(t) \/ Update(t) \/ Synchronize(t) \/ Migrate(t)
  \/ RegisterCleanup(t) \/ Exit(t) \/ Synced(t) \/ Shutdown(t)

Next == \E t \in Threads : Step(t)

Spec == Init /\ [][Next]_vars

-----------------------------------------------------------------------------
(* A thread in a critical section keeps the global epoch from getting more *)
(* than one ahead of its own, although it copies the global epoch after it *)
(* read it, and others decide to advance it on what they saw before.       *)
EpochsClose ==
  \A t \in Threads :
    Pinned(t) => globalEpoch \in {epoch[t], epoch[t] + 1}

(* No object is deleted while a thread may still use it. *)
NothingFreedInUse == \A t \in Threads : held[t] \cap freed = {}

(* Participants that have exited are deleted once no walk of the list can  *)
(* be at them or at their successor.                                       *)
WalksOnLiveNodes ==
  \A t \in Threads :
    pc[t] \in {"look", "unlink", "inCritical", "compare"} =>
      {frame[t].prev, frame[t].cur} \cap freed = {}

(* What was unlinked is in one bag only, or deleted: nothing is deleted    *)
(* twice, and the exit of a thread loses no garbage.                       *)
Bags == {<<t, age>> : t \in Threads, age \in {"old", "cur", "new"}}
          \cup {<<NoThread, n>> : n \in 0 .. NumEpochs - 1}
Content(b) == IF b[1] = NoThread THEN bags[b[2]] ELSE garbage[b[1]][b[2]]
GarbageOnce ==
  /\ \A b, c \in Bags : b # c => Content(b) \cap Content(c) = {}
  /\ \A b \in Bags : Content(b) \cap freed = {}
  /\ \A n \in 0 .. object - 1 :
       n \in freed \/ \E b \in Bags : b[1] \notin freed /\ n \in Content(b)

(* rcuSynchronize returns after every critical section that was in         *)
(* progress when it was called.                                            *)
SynchronizeWaits == \A t \in Threads : pc[t] = "synced" => readers[t] = {}

=============================================================================
