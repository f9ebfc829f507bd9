---------------------------- MODULE Epoch_proofs ----------------------------
(***************************************************************************)
(* Epoch-based reclamation is safe for any number of threads, whatever     *)
(* they do: the five invariants of Epoch, from one inductive invariant.    *)
(*                                                                         *)
(* The argument.  A critical section keeps the global epoch within one of  *)
(* its own, because a walk that can still advance the epoch has every      *)
(* thread with an older epoch ahead of it (EpochsOK, WalkOK); it meets     *)
(* each of them, because the list loses only participants that have        *)
(* exited (ListOK).  What a thread can reach was linked when its section   *)
(* began, so it is garbage of its own epoch or a later one, and so the     *)
(* older a bag is, the older is the section that can reach its content     *)
(* (ReachedOK): a bag that is deleted is too old for anybody.  And an      *)
(* epoch that advances under rcuSynchronize leaves a reader behind by one  *)
(* for each success (ReadersOK), which two successes make impossible.      *)
(*                                                                         *)
(* First the invariant; then the list of participants; then what each      *)
(* action does to the state (XDoes); then one lemma for each part of the   *)
(* invariant, by cases of the action; and the theorems.                    *)
(***************************************************************************)
EXTENDS Epoch, TLAPS

(* Pointers to participants, and what can be garbage. *)
Pointers == Threads \cup {NoThread}
Things == Threads \cup Nat

(* In a walk of the list, with the new epoch taken, before the epoch is    *)
(* copied, in a critical section, and outside of it.                       *)
Walking   == {"first", "look", "unlink", "inCritical", "compare", "advance"}
Advancing == {"collectGlobal", "collectLocal", "update"}
Copying   == {"readEpoch", "copyEpoch"}
PinnedAt  == Walking \cup Advancing
               \cup {"collect", "tryCollect", "body", "migrate", "exit"}
Outside   == {"never", "start", "enroll", "idle", "synced", "shutdown", "gone"}
Labels    == Copying \cup PinnedAt \cup Outside

Frames == [epoch : Nat, old : Nat, prev : Pointers, cur : Pointers,
           next : Pointers, caller : {"enter", "sync"}, successes : Nat]
Bag == [old : SUBSET Things, cur : SUBSET Things, new : SUBSET Things]

TypeOK ==
  /\ globalEpoch \in Nat
  /\ bags \in [0 .. 2 -> SUBSET Things]
  /\ participants \in Pointers
  /\ next \in [Threads -> [to : Pointers, tag : {0, 1}]]
  /\ epoch \in [Threads -> Nat]
  /\ inCritical \in [Threads -> Nat]
  /\ garbage \in [Threads -> Bag]
  /\ object \in Nat
  /\ freed \in SUBSET Things
  /\ pc \in [Threads -> Labels]
  /\ frame \in [Threads -> Frames]
  /\ held \in [Threads -> SUBSET Nat]
  /\ readers \in [Threads -> SUBSET Threads]

(* Where a thread is tells what it counts, holds and points to. *)
PlaceOK(t) ==
  /\ inCritical[t] = IF pc[t] \in Copying \cup PinnedAt THEN 1 ELSE 0
  /\ held[t] # {} => pc[t] = "exit"
  /\ pc[t] # "never" => t \in DOMAIN script
  /\ pc[t] \notin Walking \cup {"enroll"} =>
       frame[t].prev = NoThread /\ frame[t].cur = NoThread /\ frame[t].next = NoThread
  /\ pc[t] = "enroll" => frame[t].prev = NoThread /\ frame[t].next = NoThread
  /\ pc[t] \in {"look", "unlink", "inCritical", "compare"} => frame[t].cur # NoThread
  /\ pc[t] = "advance" => frame[t].cur = NoThread
  /\ pc[t] \in Copying => frame[t].old = epoch[t] /\ frame[t].caller = "enter"
  /\ pc[t] = "migrate" => Doing(t) = "leave"
  /\ pc[t] \in Walking \cup Advancing \cup {"tryCollect"} /\ frame[t].caller = "sync"
       => Doing(t) = "sync"
  /\ pc[t] = "exit" /\ Doing(t) = "leave" => garbage[t] = NoGarbage
  /\ pc[t] \in {"never", "start", "enroll", "shutdown", "gone"} => garbage[t] = NoGarbage
  /\ pc[t] = "synced" => frame[t].successes >= 3

PlacesOK == \A t \in Threads : PlaceOK(t)

-----------------------------------------------------------------------------
(* The participants on the way from p to the end of the list: those in     *)
(* every set that holds p and is closed under next.                        *)
Closed(link, S) == \A u \in S : link[u].to \in S \cup {NoThread}
AfterIn(link, p) ==
  {u \in Threads : \A S \in SUBSET Threads :
                     Closed(link, S) /\ p \in S \cup {NoThread} => u \in S}
After(p) == AfterIn(next, p)

Enrolled(t) == pc[t] \notin {"never", "start", "enroll"}
IsEnrolled(p) == p = NoThread \/ Enrolled(p)

(* The list ends, holds whoever is enrolled and not gone, and a tag tells  *)
(* who is gone; every pointer of a walk is to a participant that enrolled. *)
NodeOK(t) ==
  /\ Enrolled(t) => IsEnrolled(next[t].to)
  /\ IsEnrolled(frame[t].prev) /\ IsEnrolled(frame[t].cur) /\ IsEnrolled(frame[t].next)
  /\ next[t].tag = 1 <=> pc[t] = "gone"
  /\ Enrolled(t) /\ pc[t] # "gone" => t \in After(participants)
  /\ Enrolled(t) => t \notin After(next[t].to)
  /\ pc[t] = "unlink" => next[frame[t].cur] = Link(frame[t].next, 1)

ListOK == IsEnrolled(participants) /\ \A t \in Threads : NodeOK(t)

(* Nobody has two predecessors in the list. *)
OnePredecessor ==
  \A u, v \in After(participants) :
    next[u].to = next[v].to /\ next[u].to # NoThread => u = v

-----------------------------------------------------------------------------
(* How far the global epoch is from those that were read from it: one      *)
(* ahead of a critical section at most, and exactly one when the section's *)
(* thread has just advanced it.                                            *)
EpochOK(t) ==
  /\ epoch[t] <= globalEpoch
  /\ frame[t].epoch <= globalEpoch
  /\ pc[t] = "copyEpoch" => /\ epoch[t] <= frame[t].epoch
                            /\ globalEpoch <= frame[t].epoch + 1
  /\ pc[t] \in PinnedAt => globalEpoch <= epoch[t] + 1
  /\ pc[t] \in Advancing => /\ epoch[t] = frame[t].epoch
                            /\ globalEpoch = frame[t].epoch + 1
  /\ pc[t] = "migrate" => epoch[t] <= frame[t].epoch

EpochsOK == \A t \in Threads : EpochOK(t)

(* u is in no critical section, or in one of epoch e. *)
Fresh(u, e) == /\ pc[u] = "copyEpoch" => frame[u].epoch = e
               /\ pc[u] \in PinnedAt => epoch[u] = e

(* Who is not is still ahead of a walk that can advance the epoch. *)
Ahead(t, u) ==
  /\ pc[t] = "look" => u \in After(frame[t].cur)
  /\ pc[t] = "unlink" => u \in After(frame[t].next)
  /\ pc[t] \in {"inCritical", "compare"} =>
       u = frame[t].cur \/ u \in After(frame[t].next)
  /\ pc[t] # "advance"

WalkOK ==
  \A t, u \in Threads :
    pc[t] \in Walking /\ frame[t].epoch = globalEpoch /\ ~ Fresh(u, globalEpoch)
      => Ahead(t, u)

-----------------------------------------------------------------------------
(* What is in the bags of thread t, in those of all threads, in those of   *)
(* the epochs; and all that was ever unlinked.                             *)
Local(t) == garbage[t].old \cup garbage[t].cur \cup garbage[t].new
Locals == UNION {Local(t) : t \in Threads}
Bagged == UNION {bags[n] : n \in 0 .. 2}
Trash == freed \cup Bagged \cup Locals

(* What was unlinked is gone, and no longer in the list. *)
TrashOK ==
  /\ \A t \in Threads : t \in Trash => pc[t] = "gone" /\ t \notin After(participants)
  /\ \A n \in Nat : n \in Trash => n < object

(* What a thread may still touch. *)
Reached(t) ==
  IF pc[t] \in Walking
  THEN After(frame[t].prev) \cup After(frame[t].cur) \cup After(frame[t].next)
  ELSE held[t]

(* garbage_ has aged with the epoch; it will by one if the epoch has       *)
(* changed already, and it has by one if the epoch is about to change.     *)
Behind(t, u, age) ==
  epoch[t] + age + (IF pc[u] = "collect" THEN 1 ELSE 0)
    <= epoch[u] + 1 + (IF pc[u] = "update" THEN 1 ELSE 0)

(* The older the garbage, the older the section that can reach it. *)
AgesOK(t, x, u) ==
  /\ x \in garbage[u].new => Behind(t, u, 0)
  /\ x \in garbage[u].cur => Behind(t, u, 1)
  /\ x \in garbage[u].old => Behind(t, u, 2)
  /\ pc[u] = "migrate" /\ x \in Local(u) => epoch[t] <= frame[u].epoch

BagsOK(t, x) ==
  \A d \in 0 .. 2 : x \in bags[(globalEpoch + 3 - d) % 3] => epoch[t] + d <= globalEpoch

ReachedOK ==
  \A t \in Threads : \A x \in Reached(t) :
    x \notin freed /\ BagsOK(t, x) /\ \A u \in Threads : AgesOK(t, x, u)

(* What is in one bag is in no other, and not freed. *)
OnceAt(x) ==
  /\ \A t, u \in Threads : x \in Local(t) /\ x \in Local(u) => t = u
  /\ \A m, n \in 0 .. 2 : x \in bags[m] /\ x \in bags[n] => m = n
  /\ \A t \in Threads : x \in Local(t) =>
       /\ x \notin freed /\ \A n \in 0 .. 2 : x \notin bags[n]
       /\ x \in garbage[t].old => x \notin garbage[t].cur
       /\ x \in garbage[t].cur => x \notin garbage[t].new
       /\ x \in garbage[t].new => x \notin garbage[t].old
  /\ x \in freed => \A n \in 0 .. 2 : x \notin bags[n]

OnceOK == /\ \A x \in Trash : OnceAt(x)
          /\ \A n \in 0 .. object - 1 : n \in Trash

-----------------------------------------------------------------------------
(* A reader is in a section since rcuSynchronize began: the global epoch   *)
(* is ahead of its epoch by the collections that succeeded.                *)
JustAdvanced(t) == IF pc[t] \in Advancing THEN 1 ELSE 0
Successes(t) ==
  frame[t].successes + (IF frame[t].caller = "sync" THEN JustAdvanced(t) ELSE 0)

ReaderOK(t, u) ==
  /\ u # t /\ pc[u] \in PinnedAt
  /\ epoch[u] + JustAdvanced(u) + Successes(t) <= globalEpoch

ReadersOK == \A t \in Threads : \A u \in readers[t] : ReaderOK(t, u)

IInv == /\ TypeOK /\ PlacesOK /\ ListOK /\ OnePredecessor /\ EpochsOK /\ WalkOK
        /\ TrashOK /\ ReachedOK /\ OnceOK /\ ReadersOK

-----------------------------------------------------------------------------
(***************************************************************************)
(* The participants after p, for any links.                                *)
(***************************************************************************)
LEMMA AfterType ==
  ASSUME NEW link, NEW p
  PROVE  AfterIn(link, p) \subseteq Threads
  BY DEF AfterIn

LEMMA AfterFirst ==
  ASSUME NEW link, NEW x \in Threads
  PROVE  x \in AfterIn(link, x)
  BY PointersAssumption DEF AfterIn

LEMMA AfterNone ==
  ASSUME NEW link
  PROVE  AfterIn(link, NoThread) = {}
<1>1. Closed(link, {})
  BY DEF Closed
<1> QED
  BY <1>1 DEF AfterIn

(* What comes after x is after its successor, or x itself. *)
LEMMA AfterNext ==
  ASSUME NEW link, NEW x \in Threads, NEW y \in AfterIn(link, x), y # x
  PROVE  y \in AfterIn(link, link[x].to)
<1> SUFFICES ASSUME NEW S \in SUBSET Threads, Closed(link, S),
                    link[x].to \in S \cup {NoThread}
             PROVE  y \in S
  BY AfterType DEF AfterIn
<1>1. Closed(link, S \cup {x})
  BY DEF Closed
<1> QED
  BY <1>1 DEF AfterIn

(* The list after the successor of x is a part of the list after x. *)
LEMMA NextAfter ==
  ASSUME NEW link, NEW x \in Threads
  PROVE  AfterIn(link, link[x].to) \subseteq AfterIn(link, x)
<1> SUFFICES ASSUME NEW y \in AfterIn(link, link[x].to), NEW S \in SUBSET Threads,
                    Closed(link, S), x \in S \cup {NoThread}
             PROVE  y \in S
  BY AfterType DEF AfterIn
<1>1. x \in S
  BY PointersAssumption
<1>2. link[x].to \in S \cup {NoThread}
  BY <1>1 DEF Closed
<1> QED
  BY <1>2 DEF AfterIn

LEMMA AfterAfter ==
  ASSUME NEW link, NEW p, NEW x \in AfterIn(link, p)
  PROVE  AfterIn(link, x) \subseteq AfterIn(link, p)
  BY AfterType DEF AfterIn

LEMMA AfterWithin ==
  ASSUME NEW link, NEW S \in SUBSET Threads, Closed(link, S),
         NEW p \in S \cup {NoThread}
  PROVE  AfterIn(link, p) \subseteq S
  BY DEF AfterIn

(* The list after p is closed under next. *)
LEMMA AfterClosed ==
  ASSUME NEW link, \A u \in Threads : link[u].to \in Pointers, NEW p
  PROVE  Closed(link, AfterIn(link, p))
<1> SUFFICES ASSUME NEW x \in AfterIn(link, p)
             PROVE  link[x].to \in AfterIn(link, p) \cup {NoThread}
  BY DEF Closed
<1>1. x \in Threads /\ link[x].to \in Pointers
  BY AfterType
<1>2. CASE link[x].to \in Threads
  <2>1. link[x].to \in AfterIn(link, link[x].to)
    BY <1>2, AfterFirst
  <2> QED
    BY <1>1, <2>1, NextAfter, AfterAfter
<1> QED
  BY <1>1, <1>2 DEF Pointers

(* Only what the links lead to matters. *)
LEMMA SameLinks ==
  ASSUME NEW link, NEW link2, NEW p, \A u \in Threads : link2[u].to = link[u].to
  PROVE  AfterIn(link2, p) = AfterIn(link, p)
<1>1. \A S \in SUBSET Threads : Closed(link2, S) <=> Closed(link, S)
  BY DEF Closed
<1> QED
  BY <1>1 DEF AfterIn

(* A change outside of a closed set is not seen from within. *)
LEMMA SameWithin ==
  ASSUME NEW link, NEW link2, NEW E \in SUBSET Threads, Closed(link, E),
         \A u \in E : link2[u].to = link[u].to, NEW p \in E \cup {NoThread}
  PROVE  AfterIn(link2, p) = AfterIn(link, p)
<1>1. Closed(link2, E)
  BY DEF Closed
<1>2. \A S \in SUBSET Threads :
        /\ Closed(link, S) => Closed(link2, S \cap E)
        /\ Closed(link2, S) => Closed(link, S \cap E)
  BY <1>1 DEF Closed
<1> QED
  BY <1>2 DEF AfterIn

(* The list without z, which was the successor of q. *)
CutOut(link, link2, z, q) ==
  /\ z \in Threads /\ q \in Threads
  /\ link[q].to = z /\ link2[q].to = link[z].to
  /\ \A u \in Threads \ {q} : link2[u].to = link[u].to

(* Whoever is not z stays in the list, and nobody comes in. *)
LEMMA UnlinkShrinks ==
  ASSUME NEW link, NEW link2, NEW z, NEW q, CutOut(link, link2, z, q), NEW p
  PROVE  /\ AfterIn(link2, p) \subseteq AfterIn(link, p)
         /\ AfterIn(link, p) \subseteq AfterIn(link2, p) \cup {z}
<1>1. ASSUME NEW S \in SUBSET Threads, Closed(link, S)
      PROVE  Closed(link2, S)
  <2> SUFFICES ASSUME NEW u \in S
               PROVE  link2[u].to \in S \cup {NoThread}
    BY DEF Closed
  <2>1. CASE u = q
    <3>1. z \in S
      BY <1>1, <2>1, PointersAssumption DEF Closed, CutOut
    <3> QED
      BY <1>1, <2>1, <3>1 DEF Closed, CutOut
  <2>2. CASE u # q
    BY <1>1, <2>2 DEF Closed, CutOut
  <2> QED
    BY <2>1, <2>2
<1>2. AfterIn(link, p) \subseteq AfterIn(link2, p) \cup {z}
  <2> SUFFICES ASSUME NEW y \in AfterIn(link, p), y # z,
                      NEW T \in SUBSET Threads, Closed(link2, T),
                      p \in T \cup {NoThread}
               PROVE  y \in T
    BY AfterType DEF AfterIn
  <2>1. CASE q \in T
    <3>1. link[z].to \in T \cup {NoThread}
      BY <2>1 DEF Closed, CutOut
    <3>2. Closed(link, T \cup {z})
      BY <3>1 DEF Closed, CutOut
    <3> QED
      BY <3>2 DEF AfterIn, CutOut
  <2>2. CASE q \notin T
    <3>1. Closed(link, T)
      BY <2>2 DEF Closed, CutOut
    <3> QED
      BY <3>1 DEF AfterIn
  <2> QED
    BY <2>1, <2>2
<1> QED
  BY <1>1, <1>2 DEF AfterIn

-----------------------------------------------------------------------------
(***************************************************************************)
(* What the actions do.  A step of thread t leaves the other entries of a  *)
(* function alone, moves t from one place to another, and sets its locals. *)
(***************************************************************************)
Others(f, g, t) == \A u \in Threads \ {t} : g[u] = f[u]
Moves(t, from, to) == pc[t] = from /\ pc'[t] = to /\ Others(pc, pc', t)
Sets(t, e, o, p, c, n, k, s) ==
  /\ Others(frame, frame', t)
  /\ frame'[t].epoch = e /\ frame'[t].old = o
  /\ frame'[t].prev = p /\ frame'[t].cur = c /\ frame'[t].next = n
  /\ frame'[t].caller = k /\ frame'[t].successes = s

LEMMA AllLabels ==
  \A l \in {"never", "start", "enroll", "idle", "synced", "shutdown", "gone",
            "first", "look", "unlink", "inCritical", "compare", "advance",
            "collectGlobal", "collectLocal", "update", "readEpoch", "copyEpoch",
            "collect", "tryCollect", "body", "migrate", "exit"} : l \in Labels
  BY DEF Labels, Copying, PinnedAt, Outside, Walking, Advancing

LEMMA GotoDoes ==
  ASSUME TypeOK, NEW t \in Threads, NEW l \in Labels, Goto(t, l)
  PROVE  /\ pc' \in [Threads -> Labels]
         /\ pc'[t] = l /\ Others(pc, pc', t)
  BY DEF TypeOK, Goto, Others

(* The locals and the garbage of a thread after one of them was set. *)
LEMMA FrameTypes ==
  ASSUME TypeOK, NEW t \in Threads
  PROVE  /\ frame[t] \in Frames /\ frame \in [Threads -> Frames]
         /\ frame[t].epoch \in Nat /\ frame[t].old \in Nat
         /\ frame[t].prev \in Pointers /\ frame[t].cur \in Pointers
         /\ frame[t].next \in Pointers
         /\ frame[t].caller \in {"enter", "sync"} /\ frame[t].successes \in Nat
<1>1. frame[t] \in Frames
  BY DEF TypeOK
<1> QED
  BY <1>1 DEF TypeOK, Frames

LEMMA SetFrame ==
  ASSUME TypeOK, NEW t \in Threads, NEW f \in Frames,
         frame' = [frame EXCEPT ![t] = f]
  PROVE  frame' \in [Threads -> Frames] /\ frame'[t] = f /\ Others(frame, frame', t)
  BY FrameTypes DEF Others

LEMMA SetEpoch ==
  ASSUME TypeOK, NEW t \in Threads, NEW e \in Nat,
         frame' = [frame EXCEPT ![t].epoch = e]
  PROVE  /\ frame' \in [Threads -> Frames]
         /\ Sets(t, e, frame[t].old, frame[t].prev, frame[t].cur,
                 frame[t].next, frame[t].caller, frame[t].successes)
<1>1. frame'[t] = [frame[t] EXCEPT !.epoch = e]
  BY FrameTypes
<1>2. frame'[t] \in Frames
  BY <1>1, FrameTypes DEF Frames, Pointers
<1>3. Others(frame, frame', t) /\ frame' \in [Threads -> Frames]
  <2>1. frame' = [u \in Threads |-> frame'[u]] /\ Others(frame, frame', t)
    BY FrameTypes DEF Others
  <2> QED
    BY <1>2, <2>1, FrameTypes DEF Others
<1> QED
  BY <1>1, <1>3, FrameTypes DEF Sets, Frames

LEMMA ClearEpochs ==
  ASSUME TypeOK, NEW t \in Threads,
         frame' = [frame EXCEPT ![t].epoch = 0, ![t].old = 0]
  PROVE  /\ frame' \in [Threads -> Frames]
         /\ Sets(t, 0, 0, frame[t].prev, frame[t].cur, frame[t].next,
                 frame[t].caller, frame[t].successes)
<1>1. frame'[t] = [frame[t] EXCEPT !.epoch = 0, !.old = 0]
  BY FrameTypes
<1>2. frame'[t] \in Frames
  BY <1>1, FrameTypes DEF Frames, Pointers
<1>3. Others(frame, frame', t) /\ frame' \in [Threads -> Frames]
  <2>1. frame' = [u \in Threads |-> frame'[u]] /\ Others(frame, frame', t)
    BY FrameTypes DEF Others
  <2> QED
    BY <1>2, <2>1, FrameTypes DEF Others
<1> QED
  BY <1>1, <1>3, FrameTypes DEF Sets, Frames

LEMMA SetOld ==
  ASSUME TypeOK, NEW t \in Threads, NEW o \in Nat,
         frame' = [frame EXCEPT ![t].old = o, ![t].caller = "enter"]
  PROVE  /\ frame' \in [Threads -> Frames]
         /\ Sets(t, frame[t].epoch, o, frame[t].prev, frame[t].cur,
                 frame[t].next, "enter", frame[t].successes)
<1>1. frame'[t] = [frame[t] EXCEPT !.old = o, !.caller = "enter"]
  BY FrameTypes
<1>2. frame'[t] \in Frames
  BY <1>1, FrameTypes DEF Frames, Pointers
<1>3. Others(frame, frame', t) /\ frame' \in [Threads -> Frames]
  <2>1. frame' = [u \in Threads |-> frame'[u]] /\ Others(frame, frame', t)
    BY FrameTypes DEF Others
  <2> QED
    BY <1>2, <2>1, FrameTypes DEF Others
<1> QED
  BY <1>1, <1>3, FrameTypes DEF Sets, Frames

LEMMA SetCur ==
  ASSUME TypeOK, NEW t \in Threads, NEW p \in Pointers,
         frame' = [frame EXCEPT ![t].cur = p]
  PROVE  /\ frame' \in [Threads -> Frames]
         /\ Sets(t, frame[t].epoch, frame[t].old, frame[t].prev, p,
                 frame[t].next, frame[t].caller, frame[t].successes)
<1>1. frame'[t] = [frame[t] EXCEPT !.cur = p]
  BY FrameTypes
<1>2. frame'[t] \in Frames
  BY <1>1, FrameTypes DEF Frames, Pointers
<1>3. Others(frame, frame', t) /\ frame' \in [Threads -> Frames]
  <2>1. frame' = [u \in Threads |-> frame'[u]] /\ Others(frame, frame', t)
    BY FrameTypes DEF Others
  <2> QED
    BY <1>2, <2>1, FrameTypes DEF Others
<1> QED
  BY <1>1, <1>3, FrameTypes DEF Sets, Frames

LEMMA SetNext ==
  ASSUME TypeOK, NEW t \in Threads, NEW p \in Pointers,
         frame' = [frame EXCEPT ![t].next = p]
  PROVE  /\ frame' \in [Threads -> Frames]
         /\ Sets(t, frame[t].epoch, frame[t].old, frame[t].prev,
                 frame[t].cur, p, frame[t].caller, frame[t].successes)
<1>1. frame'[t] = [frame[t] EXCEPT !.next = p]
  BY FrameTypes
<1>2. frame'[t] \in Frames
  BY <1>1, FrameTypes DEF Frames, Pointers
<1>3. Others(frame, frame', t) /\ frame' \in [Threads -> Frames]
  <2>1. frame' = [u \in Threads |-> frame'[u]] /\ Others(frame, frame', t)
    BY FrameTypes DEF Others
  <2> QED
    BY <1>2, <2>1, FrameTypes DEF Others
<1> QED
  BY <1>1, <1>3, FrameTypes DEF Sets, Frames

LEMMA SetPlace ==
  ASSUME TypeOK, NEW t \in Threads, NEW p \in Pointers, NEW q \in Pointers,
         frame' = [frame EXCEPT ![t].prev = p, ![t].cur = q]
  PROVE  /\ frame' \in [Threads -> Frames]
         /\ Sets(t, frame[t].epoch, frame[t].old, p, q, frame[t].next,
                 frame[t].caller, frame[t].successes)
<1>1. frame'[t] = [frame[t] EXCEPT !.prev = p, !.cur = q]
  BY FrameTypes
<1>2. frame'[t] \in Frames
  BY <1>1, FrameTypes DEF Frames, Pointers
<1>3. Others(frame, frame', t) /\ frame' \in [Threads -> Frames]
  <2>1. frame' = [u \in Threads |-> frame'[u]] /\ Others(frame, frame', t)
    BY FrameTypes DEF Others
  <2> QED
    BY <1>2, <2>1, FrameTypes DEF Others
<1> QED
  BY <1>1, <1>3, FrameTypes DEF Sets, Frames

LEMMA ClearPlace ==
  ASSUME TypeOK, NEW t \in Threads,
         frame' = [frame EXCEPT ![t].prev = NoThread, ![t].next = NoThread]
  PROVE  /\ frame' \in [Threads -> Frames]
         /\ Sets(t, frame[t].epoch, frame[t].old, NoThread, frame[t].cur,
                 NoThread, frame[t].caller, frame[t].successes)
<1>1. frame'[t] = [frame[t] EXCEPT !.prev = NoThread, !.next = NoThread]
  BY FrameTypes
<1>2. frame'[t] \in Frames
  BY <1>1, FrameTypes DEF Frames, Pointers
<1>3. Others(frame, frame', t) /\ frame' \in [Threads -> Frames]
  <2>1. frame' = [u \in Threads |-> frame'[u]] /\ Others(frame, frame', t)
    BY FrameTypes DEF Others
  <2> QED
    BY <1>2, <2>1, FrameTypes DEF Others
<1> QED
  BY <1>1, <1>3, FrameTypes DEF Sets, Frames

LEMMA SetCaller ==
  ASSUME TypeOK, NEW t \in Threads,
         frame' = [frame EXCEPT ![t].caller = "sync"]
  PROVE  /\ frame' \in [Threads -> Frames]
         /\ Sets(t, frame[t].epoch, frame[t].old, frame[t].prev,
                 frame[t].cur, frame[t].next, "sync", frame[t].successes)
<1>1. frame'[t] = [frame[t] EXCEPT !.caller = "sync"]
  BY FrameTypes
<1>2. frame'[t] \in Frames
  BY <1>1, FrameTypes DEF Frames, Pointers
<1>3. Others(frame, frame', t) /\ frame' \in [Threads -> Frames]
  <2>1. frame' = [u \in Threads |-> frame'[u]] /\ Others(frame, frame', t)
    BY FrameTypes DEF Others
  <2> QED
    BY <1>2, <2>1, FrameTypes DEF Others
<1> QED
  BY <1>1, <1>3, FrameTypes DEF Sets, Frames

LEMMA ClearFrame ==
  ASSUME TypeOK, NEW t \in Threads, frame' = [frame EXCEPT ![t] = NoFrame]
  PROVE  /\ frame' \in [Threads -> Frames]
         /\ Sets(t, 0, 0, NoThread, NoThread, NoThread, "enter", 0)
<1>1. NoFrame \in Frames
  BY DEF NoFrame, Frames, Pointers
<1> QED
  BY <1>1, SetFrame DEF Sets, NoFrame

LEMMA ReturnDoes ==
  ASSUME TypeOK, NEW t \in Threads, NEW success \in BOOLEAN,
         ReturnFrom(t, success)
  PROVE  /\ frame' \in [Threads -> Frames] /\ pc' \in [Threads -> Labels]
         /\ pc'[t] = IF frame[t].caller = "sync" THEN "exit" ELSE "body"
         /\ Others(pc, pc', t)
         /\ Sets(t, 0, 0, NoThread, NoThread, NoThread, "enter",
                 frame[t].successes +
                   (IF success /\ frame[t].caller = "sync" THEN 1 ELSE 0))
<1> DEFINE n == frame[t].successes +
                  (IF success /\ frame[t].caller = "sync" THEN 1 ELSE 0)
<1>1. n \in Nat
  BY FrameTypes
<1>2. [NoFrame EXCEPT !.successes = n] \in Frames
  BY <1>1 DEF NoFrame, Frames, Pointers
<1>3. frame' = [frame EXCEPT ![t] = [NoFrame EXCEPT !.successes = n]]
  BY DEF ReturnFrom
<1>4. Sets(t, 0, 0, NoThread, NoThread, NoThread, "enter", n)
  BY <1>2, <1>3, SetFrame DEF Sets, NoFrame
<1>5. Goto(t, IF frame[t].caller = "sync" THEN "exit" ELSE "body")
  BY DEF ReturnFrom
<1> QED
  BY <1>2, <1>3, <1>4, <1>5, SetFrame, GotoDoes, AllLabels

LEMMA ContinueDoes ==
  ASSUME TypeOK, NEW t \in Threads, NEW p \in Pointers, NEW q \in Pointers,
         Continue(t, p, q)
  PROVE  /\ frame' \in [Threads -> Frames] /\ pc' \in [Threads -> Labels]
         /\ pc'[t] = IF q = NoThread THEN "advance" ELSE "look"
         /\ Others(pc, pc', t)
         /\ Sets(t, frame[t].epoch, frame[t].old, p, q, frame[t].next,
                 frame[t].caller, frame[t].successes)
  BY SetPlace, GotoDoes, AllLabels DEF Continue

LEMMA CollectDoes ==
  ASSUME TypeOK, NEW t \in Threads, Collect(t)
  PROVE  /\ freed' \in SUBSET Things /\ freed' = freed \cup garbage[t].old
         /\ garbage' \in [Threads -> Bag] /\ Others(garbage, garbage', t)
         /\ garbage'[t].old = garbage[t].cur /\ garbage'[t].cur = garbage[t].new
         /\ garbage'[t].new = {}
<1>1. garbage[t] \in Bag /\ garbage \in [Threads -> Bag]
  BY DEF TypeOK
<1>2. [old |-> garbage[t].cur, cur |-> garbage[t].new, new |-> {}] \in Bag
  BY <1>1 DEF Bag
<1> QED
  BY <1>1, <1>2 DEF Collect, Others, Bag, TypeOK

LEMMA AddGarbage ==
  ASSUME TypeOK, NEW t \in Threads, NEW x \in Things,
         garbage' = [garbage EXCEPT ![t].new = @ \cup {x}]
  PROVE  /\ garbage' \in [Threads -> Bag] /\ Others(garbage, garbage', t)
         /\ garbage'[t].new = garbage[t].new \cup {x}
         /\ garbage'[t].cur = garbage[t].cur /\ garbage'[t].old = garbage[t].old
<1>1. garbage[t] \in Bag /\ garbage \in [Threads -> Bag]
  BY DEF TypeOK
<1>2. garbage'[t] = [garbage[t] EXCEPT !.new = garbage[t].new \cup {x}]
  BY <1>1
<1>3. garbage'[t] \in Bag
  BY <1>1, <1>2 DEF Bag
<1>4. garbage' \in [Threads -> Bag] /\ Others(garbage, garbage', t)
  <2>1. garbage' = [u \in Threads |-> garbage'[u]] /\ Others(garbage, garbage', t)
    BY <1>1 DEF Others
  <2> QED
    BY <1>1, <1>3, <2>1 DEF Others
<1> QED
  BY <1>1, <1>2, <1>4 DEF Bag

LEMMA EnrollDoes ==
  ASSUME TypeOK, NEW t \in Threads, Enroll(t)
  PROVE  /\ TypeOK' /\ Moves(t, "start", "enroll")
         /\ Sets(t, frame[t].epoch, frame[t].old, frame[t].prev,
                 participants, frame[t].next, frame[t].caller,
                 frame[t].successes)
         /\ UNCHANGED <<list, epochs, rubbish, client>>
<1>1. pc' \in [Threads -> Labels] /\ Moves(t, "start", "enroll")
  BY GotoDoes, AllLabels DEF Enroll, Moves, TypeOK
<1>2. /\ frame' \in [Threads -> Frames]
      /\ Sets(t, frame[t].epoch, frame[t].old, frame[t].prev,
              participants, frame[t].next, frame[t].caller,
              frame[t].successes)
  BY SetCur DEF Enroll, TypeOK
<1>3. UNCHANGED <<list, epochs, rubbish, client>>
  BY DEF Enroll, list, epochs, rubbish, client
<1> QED
  BY <1>1, <1>2, <1>3 DEF Enroll, TypeOK, list, epochs, rubbish, client, Others

LEMMA EnrollCasDoes ==
  ASSUME TypeOK, NEW t \in Threads, EnrollCas(t)
  PROVE  /\ TypeOK'
         /\ \/ /\ Moves(t, "enroll", "idle")
               /\ next'[t] = Link(participants, 0) /\ Others(next, next', t)
               /\ participants' = t
               /\ Sets(t, 0, 0, NoThread, NoThread, NoThread, "enter", 0)
            \/ /\ pc[t] = "enroll"
               /\ Sets(t, frame[t].epoch, frame[t].old, frame[t].prev, participants,
                       frame[t].next, frame[t].caller, frame[t].successes)
               /\ UNCHANGED <<list, pc>>
         /\ UNCHANGED <<epochs, rubbish, client>>
<1>1. CASE participants = frame[t].cur
  <2>1. pc' \in [Threads -> Labels] /\ Moves(t, "enroll", "idle")
    BY <1>1, GotoDoes, AllLabels DEF EnrollCas, Moves
  <2>2. /\ frame' \in [Threads -> Frames]
        /\ Sets(t, 0, 0, NoThread, NoThread, NoThread, "enter", 0)
    BY <1>1, ClearFrame DEF EnrollCas
  <2>3. Link(participants, 0) \in [to : Pointers, tag : {0, 1}]
    BY DEF TypeOK, Link
  <2>4. /\ next' \in [Threads -> [to : Pointers, tag : {0, 1}]]
        /\ next'[t] = Link(participants, 0) /\ Others(next, next', t)
    BY <1>1, <2>3 DEF EnrollCas, TypeOK, Others
  <2> QED
    BY <1>1, <2>1, <2>2, <2>4 DEF EnrollCas, TypeOK, Pointers, epochs, rubbish,
       client
<1>2. CASE participants # frame[t].cur
  <2>1. /\ frame' \in [Threads -> Frames]
        /\ Sets(t, frame[t].epoch, frame[t].old, frame[t].prev, participants,
                frame[t].next, frame[t].caller, frame[t].successes)
    BY <1>2, SetCur DEF EnrollCas, TypeOK
  <2> QED
    BY <1>2, <2>1 DEF EnrollCas, TypeOK, list, epochs, rubbish, client
<1> QED
  BY <1>1, <1>2

LEMMA EnterDoes ==
  ASSUME TypeOK, NEW t \in Threads, Enter(t)
  PROVE  /\ TypeOK' /\ Moves(t, "idle", "readEpoch")
         /\ Sets(t, frame[t].epoch, epoch[t], frame[t].prev,
                 frame[t].cur, frame[t].next, "enter",
                 frame[t].successes)
         /\ inCritical'[t] = inCritical[t] + 1 /\ Others(inCritical, inCritical', t)
         /\ \/ readers' = readers
            \/ /\ frame[t].successes = 0
               /\ readers' = [readers EXCEPT ![t] = {u \in Threads \ {t} : Pinned(u)}]
         /\ Doing(t) # "stay"
         /\ UNCHANGED <<list, globalEpoch, epoch, rubbish, object, script, held>>
<1>1. pc' \in [Threads -> Labels] /\ Moves(t, "idle", "readEpoch")
  BY GotoDoes, AllLabels DEF Enter, Moves, TypeOK
<1>2. /\ frame' \in [Threads -> Frames]
      /\ Sets(t, frame[t].epoch, epoch[t], frame[t].prev,
              frame[t].cur, frame[t].next, "enter",
              frame[t].successes)
  BY SetOld DEF Enter, TypeOK
<1>3. inCritical' \in [Threads -> Nat]
  BY DEF Enter, TypeOK
<1>4. readers' \in [Threads -> SUBSET Threads]
  BY DEF Enter, TypeOK
<1>5. UNCHANGED <<list, globalEpoch, epoch, rubbish, object, script, held>>
  BY DEF Enter, list, epochs, rubbish, client
<1> QED
  BY <1>1, <1>2, <1>3, <1>4, <1>5 DEF Enter, TypeOK, list, epochs, rubbish,
     client, Others

LEMMA ReadEpochDoes ==
  ASSUME TypeOK, NEW t \in Threads, ReadEpoch(t)
  PROVE  /\ TypeOK' /\ Moves(t, "readEpoch", "copyEpoch")
         /\ Sets(t, globalEpoch, frame[t].old, frame[t].prev,
                 frame[t].cur, frame[t].next, frame[t].caller,
                 frame[t].successes)
         /\ UNCHANGED <<list, epochs, rubbish, client>>
<1>1. pc' \in [Threads -> Labels] /\ Moves(t, "readEpoch", "copyEpoch")
  BY GotoDoes, AllLabels DEF ReadEpoch, Moves, TypeOK
<1>2. /\ frame' \in [Threads -> Frames]
      /\ Sets(t, globalEpoch, frame[t].old, frame[t].prev,
              frame[t].cur, frame[t].next, frame[t].caller,
              frame[t].successes)
  BY SetEpoch DEF ReadEpoch, TypeOK
<1>3. UNCHANGED <<list, epochs, rubbish, client>>
  BY DEF ReadEpoch, list, epochs, rubbish, client
<1> QED
  BY <1>1, <1>2, <1>3 DEF ReadEpoch, TypeOK, list, epochs, rubbish, client, Others

LEMMA CopyEpochDoes ==
  ASSUME TypeOK, NEW t \in Threads, CopyEpoch(t)
  PROVE  /\ TypeOK' /\ Moves(t, "copyEpoch", pc'[t])
         /\ Sets(t, 0, 0, frame[t].prev, frame[t].cur, frame[t].next,
                 frame[t].caller, frame[t].successes)
         /\ epoch'[t] = frame[t].epoch /\ Others(epoch, epoch', t)
         /\ \/ pc'[t] = "collect" /\ frame[t].old # frame[t].epoch
            \/ pc'[t] \in {"tryCollect", "body"}
         /\ UNCHANGED <<list, globalEpoch, inCritical, rubbish, client>>
<1>1. pc' \in [Threads -> Labels] /\ Moves(t, "copyEpoch", pc'[t])
  BY GotoDoes, AllLabels DEF CopyEpoch, Moves, TypeOK
<1>2. /\ frame' \in [Threads -> Frames]
      /\ Sets(t, 0, 0, frame[t].prev, frame[t].cur, frame[t].next,
              frame[t].caller, frame[t].successes)
  BY ClearEpochs DEF CopyEpoch, TypeOK
<1>3. epoch' \in [Threads -> Nat]
  BY FrameTypes DEF CopyEpoch, TypeOK
<1>4. \/ pc'[t] = "collect" /\ frame[t].old # frame[t].epoch
      \/ pc'[t] \in {"tryCollect", "body"}
  BY DEF CopyEpoch, Goto, TypeOK
<1>5. UNCHANGED <<list, globalEpoch, inCritical, rubbish, client>>
  BY DEF CopyEpoch
<1>6. epoch'[t] = frame[t].epoch /\ Others(epoch, epoch', t)
  BY DEF CopyEpoch, TypeOK, Others
<1> QED
  BY <1>1, <1>2, <1>3, <1>4, <1>5, <1>6 DEF TypeOK, list, rubbish, client

LEMMA CollectOnEnterDoes ==
  ASSUME TypeOK, NEW t \in Threads, CollectOnEnter(t)
  PROVE  /\ TypeOK' /\ Moves(t, "collect", "body")
         /\ freed' = freed \cup garbage[t].old
         /\ Others(garbage, garbage', t)
         /\ garbage'[t].old = garbage[t].cur /\ garbage'[t].cur = garbage[t].new
         /\ garbage'[t].new = {}
         /\ UNCHANGED <<list, epochs, bags, client, frame>>
<1>1. pc' \in [Threads -> Labels] /\ Moves(t, "collect", "body")
  BY GotoDoes, AllLabels DEF CollectOnEnter, Moves, TypeOK
<1>2. UNCHANGED <<list, epochs, bags, client, frame>> /\ Collect(t)
  BY DEF CollectOnEnter
<1> QED
  BY <1>1, <1>2, CollectDoes DEF TypeOK, list, epochs, client

LEMMA StartCollectDoes ==
  ASSUME TypeOK, NEW t \in Threads, StartCollect(t)
  PROVE  /\ TypeOK' /\ Moves(t, "tryCollect", "first")
         /\ Sets(t, globalEpoch, frame[t].old, frame[t].prev,
                 frame[t].cur, frame[t].next, frame[t].caller,
                 frame[t].successes)
         /\ UNCHANGED <<list, epochs, rubbish, client>>
<1>1. pc' \in [Threads -> Labels] /\ Moves(t, "tryCollect", "first")
  BY GotoDoes, AllLabels DEF StartCollect, Moves, TypeOK
<1>2. /\ frame' \in [Threads -> Frames]
      /\ Sets(t, globalEpoch, frame[t].old, frame[t].prev,
              frame[t].cur, frame[t].next, frame[t].caller,
              frame[t].successes)
  BY SetEpoch DEF StartCollect, TypeOK
<1>3. UNCHANGED <<list, epochs, rubbish, client>>
  BY DEF StartCollect, list, epochs, rubbish, client
<1> QED
  BY <1>1, <1>2, <1>3 DEF StartCollect, TypeOK, list, epochs, rubbish, client,
     Others

LEMMA FirstParticipantDoes ==
  ASSUME TypeOK, NEW t \in Threads, FirstParticipant(t)
  PROVE  /\ TypeOK' /\ Moves(t, "first", IF participants = NoThread THEN "advance" ELSE "look")
         /\ Sets(t, frame[t].epoch, frame[t].old, NoThread, participants,
                 frame[t].next, frame[t].caller, frame[t].successes)
         /\ UNCHANGED <<list, epochs, rubbish, client>>
<1>1. NoThread \in Pointers /\ participants \in Pointers
  BY DEF Pointers, TypeOK
<1>2. pc' \in [Threads -> Labels] /\ Moves(t, "first", IF participants = NoThread THEN "advance" ELSE "look")
  BY <1>1, GotoDoes, AllLabels, ContinueDoes DEF FirstParticipant, Moves, TypeOK
<1>3. /\ frame' \in [Threads -> Frames]
      /\ Sets(t, frame[t].epoch, frame[t].old, NoThread, participants,
              frame[t].next, frame[t].caller, frame[t].successes)
  BY <1>1, ContinueDoes DEF FirstParticipant, TypeOK
<1>4. UNCHANGED <<list, epochs, rubbish, client>>
  BY DEF FirstParticipant, list, epochs, rubbish, client
<1> QED
  BY <1>1, <1>2, <1>3, <1>4 DEF FirstParticipant, TypeOK, list, epochs,
     rubbish, client, Others

LEMMA LookDoes ==
  ASSUME TypeOK, NEW t \in Threads, PlaceOK(t), Look(t)
  PROVE  /\ TypeOK' /\ Moves(t, "look", IF next[frame[t].cur].tag = 1 THEN "unlink" ELSE "inCritical")
         /\ Sets(t, frame[t].epoch, frame[t].old, frame[t].prev,
                 frame[t].cur, next[frame[t].cur].to, frame[t].caller,
                 frame[t].successes)
         /\ frame[t].cur \in Threads
         /\ UNCHANGED <<list, epochs, rubbish, client>>
<1>1. frame[t].cur \in Threads
  BY FrameTypes DEF Look, PlaceOK, Pointers
<1>2. next[frame[t].cur].to \in Pointers
  BY <1>1 DEF TypeOK
<1>3. pc' \in [Threads -> Labels] /\ Moves(t, "look", IF next[frame[t].cur].tag = 1 THEN "unlink" ELSE "inCritical")
  BY <1>1, <1>2, GotoDoes, AllLabels DEF Look, Moves, TypeOK
<1>4. /\ frame' \in [Threads -> Frames]
      /\ Sets(t, frame[t].epoch, frame[t].old, frame[t].prev,
              frame[t].cur, next[frame[t].cur].to, frame[t].caller,
              frame[t].successes)
  BY <1>1, <1>2, SetNext DEF Look, TypeOK
<1>5. UNCHANGED <<list, epochs, rubbish, client>>
  BY DEF Look, list, epochs, rubbish, client
<1> QED
  BY <1>1, <1>2, <1>3, <1>4, <1>5 DEF Look, TypeOK, list, epochs, rubbish,
     client, Others

LEMMA UnlinkDoes ==
  ASSUME TypeOK, NEW t \in Threads, PlaceOK(t), Unlink(t)
  PROVE  /\ TypeOK'
         /\ Moves(t, "unlink", IF frame[t].next = NoThread THEN "advance" ELSE "look")
         /\ Sets(t, frame[t].epoch, frame[t].old, frame[t].prev, frame[t].next,
                 frame[t].next, frame[t].caller, frame[t].successes)
         /\ frame[t].cur \in Threads
         /\ \/ /\ frame[t].prev = NoThread /\ participants = frame[t].cur
               /\ participants' = frame[t].next /\ UNCHANGED next
            \/ /\ frame[t].prev \in Threads
               /\ next[frame[t].prev] = Link(frame[t].cur, 0)
               /\ next'[frame[t].prev] = Link(frame[t].next, 0)
               /\ Others(next, next', frame[t].prev) /\ UNCHANGED participants
         /\ Others(garbage, garbage', t)
         /\ garbage'[t].new = garbage[t].new \cup {frame[t].cur}
         /\ garbage'[t].cur = garbage[t].cur /\ garbage'[t].old = garbage[t].old
         /\ UNCHANGED <<epochs, bags, freed, client>>
<1>1. frame[t].prev \in Pointers /\ frame[t].next \in Pointers
  BY FrameTypes
<1>2. frame[t].cur \in Threads
  BY FrameTypes DEF Unlink, PlaceOK, Pointers
<1>3. /\ frame' \in [Threads -> Frames] /\ pc' \in [Threads -> Labels]
      /\ Moves(t, "unlink", IF frame[t].next = NoThread THEN "advance" ELSE "look")
      /\ Sets(t, frame[t].epoch, frame[t].old, frame[t].prev, frame[t].next,
              frame[t].next, frame[t].caller, frame[t].successes)
  BY <1>1, ContinueDoes DEF Unlink, Moves
<1>4. /\ garbage' \in [Threads -> Bag] /\ Others(garbage, garbage', t)
      /\ garbage'[t].new = garbage[t].new \cup {frame[t].cur}
      /\ garbage'[t].cur = garbage[t].cur /\ garbage'[t].old = garbage[t].old
  BY <1>2, AddGarbage DEF Unlink, Things
<1>5. CASE frame[t].prev = NoThread
  BY <1>1, <1>2, <1>3, <1>4, <1>5 DEF Unlink, TypeOK, epochs, client
<1>6. CASE frame[t].prev # NoThread
  <2>1. frame[t].prev \in Threads
    BY <1>1, <1>6 DEF Pointers
  <2>2. Link(frame[t].next, 0) \in [to : Pointers, tag : {0, 1}]
    BY <1>1 DEF Link
  <2>3. /\ next' \in [Threads -> [to : Pointers, tag : {0, 1}]]
        /\ next'[frame[t].prev] = Link(frame[t].next, 0)
        /\ Others(next, next', frame[t].prev)
    BY <1>6, <2>1, <2>2 DEF Unlink, TypeOK, Others
  <2> QED
    BY <1>2, <1>3, <1>4, <1>6, <2>1, <2>3 DEF Unlink, TypeOK, epochs, client
<1> QED
  BY <1>5, <1>6

LEMMA UnlinkFailsDoes ==
  ASSUME TypeOK, NEW t \in Threads, UnlinkFails(t)
  PROVE  /\ TypeOK' /\ Moves(t, "unlink", "first")
         /\ UNCHANGED <<list, epochs, rubbish, client, frame>>
<1>1. pc' \in [Threads -> Labels] /\ Moves(t, "unlink", "first")
  BY GotoDoes, AllLabels DEF UnlinkFails, Moves, TypeOK
<1>2. UNCHANGED <<list, epochs, rubbish, client, frame>>
  BY DEF UnlinkFails, list, epochs, rubbish, client
<1> QED
  BY <1>1, <1>2 DEF UnlinkFails, TypeOK, list, epochs, rubbish, client, Others

LEMMA LookInCriticalDoes ==
  ASSUME TypeOK, NEW t \in Threads, PlaceOK(t), LookInCritical(t)
  PROVE  /\ TypeOK' /\ frame[t].cur \in Threads
         /\ \/ /\ Moves(t, "inCritical", "compare")
               /\ inCritical[frame[t].cur] > 0 /\ UNCHANGED frame
            \/ /\ Moves(t, "inCritical",
                        IF frame[t].next = NoThread THEN "advance" ELSE "look")
               /\ ~ inCritical[frame[t].cur] > 0
               /\ Sets(t, frame[t].epoch, frame[t].old, frame[t].cur, frame[t].next,
                       frame[t].next, frame[t].caller, frame[t].successes)
         /\ UNCHANGED <<list, epochs, rubbish, client>>
<1>1. frame[t].cur \in Pointers /\ frame[t].next \in Pointers
  BY FrameTypes
<1>2. frame[t].cur \in Threads
  BY FrameTypes DEF LookInCritical, PlaceOK, Pointers
<1>3. CASE inCritical[frame[t].cur] > 0
  <2>1. pc' \in [Threads -> Labels] /\ Moves(t, "inCritical", "compare")
    BY <1>3, GotoDoes, AllLabels DEF LookInCritical, Moves
  <2> QED
    BY <1>2, <1>3, <2>1 DEF LookInCritical, TypeOK, list, epochs, rubbish, client
<1>4. CASE ~ inCritical[frame[t].cur] > 0
  <2>1. /\ frame' \in [Threads -> Frames] /\ pc' \in [Threads -> Labels]
        /\ Moves(t, "inCritical",
                 IF frame[t].next = NoThread THEN "advance" ELSE "look")
        /\ Sets(t, frame[t].epoch, frame[t].old, frame[t].cur, frame[t].next,
                frame[t].next, frame[t].caller, frame[t].successes)
    BY <1>1, <1>4, ContinueDoes DEF LookInCritical, Moves
  <2> QED
    BY <1>2, <1>4, <2>1 DEF LookInCritical, TypeOK, list, epochs, rubbish, client
<1> QED
  BY <1>3, <1>4

LEMMA CompareEpochsDoes ==
  ASSUME TypeOK, NEW t \in Threads, PlaceOK(t), CompareEpochs(t)
  PROVE  /\ TypeOK' /\ frame[t].cur \in Threads
         /\ \/ /\ Moves(t, "compare",
                        IF frame[t].caller = "sync" THEN "exit" ELSE "body")
               /\ Sets(t, 0, 0, NoThread, NoThread, NoThread, "enter",
                       frame[t].successes)
            \/ /\ Moves(t, "compare",
                        IF frame[t].next = NoThread THEN "advance" ELSE "look")
               /\ epoch[frame[t].cur] = frame[t].epoch
               /\ Sets(t, frame[t].epoch, frame[t].old, frame[t].cur, frame[t].next,
                       frame[t].next, frame[t].caller, frame[t].successes)
         /\ UNCHANGED <<list, epochs, rubbish, client>>
<1>1. /\ frame[t].cur \in Pointers /\ frame[t].next \in Pointers
      /\ frame[t].successes \in Nat
  BY FrameTypes
<1>2. frame[t].cur \in Threads
  BY FrameTypes DEF CompareEpochs, PlaceOK, Pointers
<1>3. CASE epoch[frame[t].cur] # frame[t].epoch
  <2>1. ReturnFrom(t, FALSE)
    BY <1>3 DEF CompareEpochs
  <2>2. frame[t].successes + (IF FALSE /\ frame[t].caller = "sync" THEN 1 ELSE 0)
          = frame[t].successes
    BY FrameTypes
  <2>3. /\ frame' \in [Threads -> Frames] /\ pc' \in [Threads -> Labels]
        /\ Others(pc, pc', t)
        /\ pc'[t] = IF frame[t].caller = "sync" THEN "exit" ELSE "body"
        /\ Sets(t, 0, 0, NoThread, NoThread, NoThread, "enter", frame[t].successes)
    BY <2>1, <2>2, ReturnDoes
  <2> QED
    BY <1>2, <2>3 DEF CompareEpochs, Moves, TypeOK, list, epochs, rubbish, client
<1>4. CASE epoch[frame[t].cur] = frame[t].epoch
  <2>1. /\ frame' \in [Threads -> Frames] /\ pc' \in [Threads -> Labels]
        /\ Moves(t, "compare",
                 IF frame[t].next = NoThread THEN "advance" ELSE "look")
        /\ Sets(t, frame[t].epoch, frame[t].old, frame[t].cur, frame[t].next,
                frame[t].next, frame[t].caller, frame[t].successes)
    BY <1>1, <1>4, ContinueDoes DEF CompareEpochs, Moves
  <2> QED
    BY <1>2, <1>4, <2>1 DEF CompareEpochs, TypeOK, list, epochs, rubbish, client
<1> QED
  BY <1>3, <1>4

LEMMA AdvanceDoes ==
  ASSUME TypeOK, NEW t \in Threads, Advance(t)
  PROVE  /\ TypeOK'
         /\ \/ /\ Moves(t, "advance", "collectGlobal")
               /\ globalEpoch = frame[t].epoch /\ globalEpoch' = globalEpoch + 1
               /\ Sets(t, frame[t].epoch, frame[t].old, NoThread, frame[t].cur,
                       NoThread, frame[t].caller, frame[t].successes)
            \/ /\ Moves(t, "advance",
                        IF frame[t].caller = "sync" THEN "exit" ELSE "body")
               /\ Sets(t, 0, 0, NoThread, NoThread, NoThread, "enter",
                       frame[t].successes)
               /\ UNCHANGED globalEpoch
         /\ UNCHANGED <<list, epoch, inCritical, rubbish, client>>
<1>1. CASE globalEpoch = frame[t].epoch
  <2>1. /\ frame' \in [Threads -> Frames]
        /\ Sets(t, frame[t].epoch, frame[t].old, NoThread, frame[t].cur,
                NoThread, frame[t].caller, frame[t].successes)
    BY <1>1, ClearPlace DEF Advance
  <2>2. pc' \in [Threads -> Labels] /\ Moves(t, "advance", "collectGlobal")
    BY <1>1, GotoDoes, AllLabels DEF Advance, Moves
  <2>3. globalEpoch' = globalEpoch + 1
    BY <1>1 DEF Advance
  <2> QED
    BY <1>1, <2>1, <2>2, <2>3 DEF Advance, TypeOK, list, rubbish, client
<1>2. CASE globalEpoch # frame[t].epoch
  <2>1. ReturnFrom(t, FALSE)
    BY <1>2 DEF Advance
  <2>2. frame[t].successes + (IF FALSE /\ frame[t].caller = "sync" THEN 1 ELSE 0)
          = frame[t].successes
    BY FrameTypes
  <2>3. /\ frame' \in [Threads -> Frames] /\ pc' \in [Threads -> Labels]
        /\ Others(pc, pc', t)
        /\ pc'[t] = IF frame[t].caller = "sync" THEN "exit" ELSE "body"
        /\ Sets(t, 0, 0, NoThread, NoThread, NoThread, "enter", frame[t].successes)
    BY <2>1, <2>2, ReturnDoes
  <2> QED
    BY <1>2, <2>3 DEF Advance, Moves, TypeOK, list, rubbish, client
<1> QED
  BY <1>1, <1>2

LEMMA CollectGlobalDoes ==
  ASSUME TypeOK, NEW t \in Threads, CollectGlobal(t)
  PROVE  /\ TypeOK' /\ Moves(t, "collectGlobal", "collectLocal")
         /\ (frame[t].epoch + 2) % 3 \in 0 .. 2
         /\ freed' = freed \cup bags[(frame[t].epoch + 2) % 3]
         /\ bags' = [bags EXCEPT ![(frame[t].epoch + 2) % 3] = {}]
         /\ UNCHANGED <<list, epochs, garbage, client, frame>>
<1>1. (frame[t].epoch + 2) % 3 \in 0 .. 2
  BY FrameTypes
<1>2. pc' \in [Threads -> Labels] /\ Moves(t, "collectGlobal", "collectLocal")
  BY <1>1, GotoDoes, AllLabels DEF CollectGlobal, NumEpochs, Moves, TypeOK
<1>3. bags' \in [0 .. 2 -> SUBSET Things]
  BY DEF CollectGlobal, NumEpochs, TypeOK
<1>4. freed' \in SUBSET Things
  BY <1>1 DEF CollectGlobal, NumEpochs, TypeOK
<1>5. UNCHANGED <<list, epochs, garbage, client, frame>>
  BY DEF CollectGlobal, NumEpochs, list, epochs, rubbish, client
<1> QED
  BY <1>1, <1>2, <1>3, <1>4, <1>5 DEF CollectGlobal, NumEpochs, TypeOK, list,
     epochs, rubbish, client, Others

LEMMA CollectLocalDoes ==
  ASSUME TypeOK, NEW t \in Threads, CollectLocal(t)
  PROVE  /\ TypeOK' /\ Moves(t, "collectLocal", "update")
         /\ freed' = freed \cup garbage[t].old
         /\ Others(garbage, garbage', t)
         /\ garbage'[t].old = garbage[t].cur /\ garbage'[t].cur = garbage[t].new
         /\ garbage'[t].new = {}
         /\ UNCHANGED <<list, epochs, bags, client, frame>>
<1>1. pc' \in [Threads -> Labels] /\ Moves(t, "collectLocal", "update")
  BY GotoDoes, AllLabels DEF CollectLocal, Moves, TypeOK
<1>2. UNCHANGED <<list, epochs, bags, client, frame>> /\ Collect(t)
  BY DEF CollectLocal
<1> QED
  BY <1>1, <1>2, CollectDoes DEF TypeOK, list, epochs, client

LEMMA UpdateLocalDoes ==
  ASSUME TypeOK, NEW t \in Threads, UpdateLocal(t)
  PROVE  /\ TypeOK' /\ Moves(t, "update", IF frame[t].caller = "sync" THEN "exit" ELSE "body")
         /\ Sets(t, 0, 0, NoThread, NoThread, NoThread, "enter",
                 frame[t].successes + (IF frame[t].caller = "sync" THEN 1 ELSE 0))
         /\ epoch'[t] = frame[t].epoch + 1 /\ Others(epoch, epoch', t)
         /\ UNCHANGED <<list, globalEpoch, inCritical, rubbish, client>>
<1>1. pc' \in [Threads -> Labels] /\ Moves(t, "update", IF frame[t].caller = "sync" THEN "exit" ELSE "body")
  BY GotoDoes, AllLabels, ReturnDoes DEF UpdateLocal, Moves, TypeOK
<1>2. /\ frame' \in [Threads -> Frames]
      /\ Sets(t, 0, 0, NoThread, NoThread, NoThread, "enter",
              frame[t].successes + (IF frame[t].caller = "sync" THEN 1 ELSE 0))
  BY ReturnDoes DEF UpdateLocal, TypeOK
<1>3. epoch' \in [Threads -> Nat]
  BY FrameTypes DEF UpdateLocal, TypeOK
<1>4. UNCHANGED <<list, globalEpoch, inCritical, rubbish, client>>
  BY DEF UpdateLocal, list, epochs, rubbish, client
<1> QED
  BY <1>1, <1>2, <1>3, <1>4 DEF UpdateLocal, TypeOK, list, epochs, rubbish,
     client, Others

LEMMA ReadDoes ==
  ASSUME TypeOK, NEW t \in Threads, Read(t)
  PROVE  /\ TypeOK' /\ Moves(t, "body", "exit")
         /\ held'[t] = {object} /\ Others(held, held', t)
         /\ Doing(t) \in {"read", "rcuRead"}
         /\ UNCHANGED <<list, epochs, rubbish, object, script, readers, frame>>
<1>1. pc' \in [Threads -> Labels] /\ Moves(t, "body", "exit")
  BY GotoDoes, AllLabels DEF Read, Moves, TypeOK
<1>2. held' \in [Threads -> SUBSET Nat]
  BY DEF Read, TypeOK
<1>3. UNCHANGED <<list, epochs, rubbish, object, script, readers, frame>>
  BY DEF Read, list, epochs, rubbish, client
<1> QED
  BY <1>1, <1>2, <1>3 DEF Read, TypeOK, list, epochs, rubbish, client, Others

LEMMA UpdateDoes ==
  ASSUME TypeOK, NEW t \in Threads, Update(t)
  PROVE  /\ TypeOK' /\ Moves(t, "body", "exit")
         /\ object' = object + 1
         /\ Others(garbage, garbage', t)
         /\ garbage'[t].new = garbage[t].new \cup {object}
         /\ garbage'[t].cur = garbage[t].cur /\ garbage'[t].old = garbage[t].old
         /\ Doing(t) = "update"
         /\ UNCHANGED <<list, epochs, bags, freed, script, held, readers, frame>>
<1>1. pc' \in [Threads -> Labels] /\ Moves(t, "body", "exit")
  BY GotoDoes, AllLabels DEF Update, Moves, TypeOK
<1>2. object' \in Nat
  BY DEF Update, TypeOK
<1>3. garbage' \in [Threads -> Bag]
  BY AddGarbage DEF Update, TypeOK, Things
<1>4. UNCHANGED <<list, epochs, bags, freed, script, held, readers, frame>>
  BY DEF Update, list, epochs, rubbish, client
<1> QED
  BY <1>1, <1>2, <1>3, <1>4 DEF Update, TypeOK, list, epochs, rubbish, client,
     Others

LEMMA SynchronizeDoes ==
  ASSUME TypeOK, NEW t \in Threads, Synchronize(t)
  PROVE  /\ TypeOK' /\ Moves(t, "body", "tryCollect")
         /\ Sets(t, frame[t].epoch, frame[t].old, frame[t].prev,
                 frame[t].cur, frame[t].next, "sync", frame[t].successes)
         /\ Doing(t) = "sync"
         /\ UNCHANGED <<list, epochs, rubbish, client>>
<1>1. pc' \in [Threads -> Labels] /\ Moves(t, "body", "tryCollect")
  BY GotoDoes, AllLabels DEF Synchronize, Moves, TypeOK
<1>2. /\ frame' \in [Threads -> Frames]
      /\ Sets(t, frame[t].epoch, frame[t].old, frame[t].prev,
              frame[t].cur, frame[t].next, "sync", frame[t].successes)
  BY SetCaller DEF Synchronize, TypeOK
<1>3. UNCHANGED <<list, epochs, rubbish, client>>
  BY DEF Synchronize, list, epochs, rubbish, client
<1> QED
  BY <1>1, <1>2, <1>3 DEF Synchronize, TypeOK, list, epochs, rubbish, client, Others

LEMMA MigrateDoes ==
  ASSUME TypeOK, NEW t \in Threads, Migrate(t)
  PROVE  /\ TypeOK' /\ Moves(t, "body", "migrate")
         /\ Sets(t, globalEpoch, frame[t].old, frame[t].prev,
                 frame[t].cur, frame[t].next, frame[t].caller,
                 frame[t].successes)
         /\ Doing(t) = "leave"
         /\ UNCHANGED <<list, epochs, rubbish, client>>
<1>1. pc' \in [Threads -> Labels] /\ Moves(t, "body", "migrate")
  BY GotoDoes, AllLabels DEF Migrate, Moves, TypeOK
<1>2. /\ frame' \in [Threads -> Frames]
      /\ Sets(t, globalEpoch, frame[t].old, frame[t].prev,
              frame[t].cur, frame[t].next, frame[t].caller,
              frame[t].successes)
  BY SetEpoch DEF Migrate, TypeOK
<1>3. UNCHANGED <<list, epochs, rubbish, client>>
  BY DEF Migrate, list, epochs, rubbish, client
<1> QED
  BY <1>1, <1>2, <1>3 DEF Migrate, TypeOK, list, epochs, rubbish, client, Others

LEMMA RegisterCleanupDoes ==
  ASSUME TypeOK, NEW t \in Threads, RegisterCleanup(t)
  PROVE  /\ TypeOK' /\ Moves(t, "migrate", "exit")
         /\ frame[t].epoch % 3 \in 0 .. 2
         /\ bags' = [bags EXCEPT ![frame[t].epoch % 3] = @ \cup Local(t)]
         /\ garbage'[t] = NoGarbage /\ Others(garbage, garbage', t)
         /\ UNCHANGED <<list, epochs, freed, client, frame>>
<1>1. frame[t].epoch % 3 \in 0 .. 2
  BY FrameTypes
<1>2. Local(t) \in SUBSET Things /\ NoGarbage \in Bag
  BY DEF TypeOK, Bag, Local, NoGarbage
<1>3. pc' \in [Threads -> Labels] /\ Moves(t, "migrate", "exit")
  BY <1>1, <1>2, GotoDoes, AllLabels DEF RegisterCleanup, NumEpochs, Local,
     Moves, TypeOK
<1>4. bags' \in [0 .. 2 -> SUBSET Things]
  BY <1>1, <1>2 DEF RegisterCleanup, NumEpochs, Local, TypeOK
<1>5. garbage' \in [Threads -> Bag]
  BY <1>2 DEF RegisterCleanup, NumEpochs, Local, TypeOK
<1>6. UNCHANGED <<list, epochs, freed, client, frame>>
  BY DEF RegisterCleanup, NumEpochs, Local, list, epochs, rubbish, client
<1> QED
  BY <1>1, <1>2, <1>3, <1>4, <1>5, <1>6 DEF RegisterCleanup, NumEpochs, Local,
     TypeOK, list, epochs, rubbish, client, Others

LEMMA ExitDoes ==
  ASSUME TypeOK, NEW t \in Threads, PlaceOK(t), Exit(t)
  PROVE  /\ TypeOK' /\ Moves(t, "exit", pc'[t])
         /\ IF Doing(t) = "leave" THEN pc'[t] = "shutdown"
            ELSE \/ pc'[t] = "idle"
                 \/ pc'[t] = "synced" /\ frame[t].successes >= 3
         /\ inCritical'[t] = 0 /\ Others(inCritical, inCritical', t)
         /\ held'[t] = {} /\ Others(held, held', t)
         /\ readers' = [u \in Threads |-> readers[u] \ {t}]
         /\ DOMAIN script' = DOMAIN script
         /\ \A u \in DOMAIN script \ {t} : script'[u] = script[u]
         /\ UNCHANGED <<list, globalEpoch, epoch, rubbish, object, frame>>
<1>1. pc' \in [Threads -> Labels] /\ Moves(t, "exit", pc'[t])
  BY GotoDoes, AllLabels DEF Exit, Moves
<1>2. inCritical[t] = 1
  BY DEF Exit, PlaceOK, PinnedAt
<1>3. /\ inCritical' \in [Threads -> Nat]
      /\ inCritical'[t] = 0 /\ Others(inCritical, inCritical', t)
  BY <1>2 DEF Exit, TypeOK, Others
<1>4. /\ held' \in [Threads -> SUBSET Nat]
      /\ held'[t] = {} /\ Others(held, held', t)
  BY DEF Exit, TypeOK, Others
<1>5. /\ readers' \in [Threads -> SUBSET Threads]
      /\ readers' = [u \in Threads |-> readers[u] \ {t}]
  BY DEF Exit, TypeOK
<1>6. IF Doing(t) = "leave" THEN pc'[t] = "shutdown"
      ELSE \/ pc'[t] = "idle"
           \/ pc'[t] = "synced" /\ frame[t].successes >= 3
  <2>1. pc'[t] = IF Doing(t) = "leave" THEN "shutdown"
                 ELSE IF Doing(t) = "sync" /\ ~ frame[t].successes < 3
                      THEN "synced" ELSE "idle"
    BY DEF Exit, Goto, TypeOK, SuccessesWanted
  <2> QED
    BY <2>1, FrameTypes
<1>7. /\ DOMAIN script' = DOMAIN script
      /\ \A u \in DOMAIN script \ {t} : script'[u] = script[u]
  BY DEF Exit
<1>8. UNCHANGED <<list, globalEpoch, epoch, rubbish, object, frame>>
  BY DEF Exit
<1> QED
  BY <1>1, <1>3, <1>4, <1>5, <1>6, <1>7, <1>8 DEF TypeOK, list, rubbish

LEMMA SyncedDoes ==
  ASSUME TypeOK, NEW t \in Threads, Synced(t)
  PROVE  /\ TypeOK' /\ Moves(t, "synced", "idle")
         /\ Sets(t, 0, 0, NoThread, NoThread, NoThread, "enter", 0)
         /\ readers' = [readers EXCEPT ![t] = {}]
         /\ UNCHANGED <<list, epochs, rubbish, object, script, held>>
<1>1. pc' \in [Threads -> Labels] /\ Moves(t, "synced", "idle")
  BY GotoDoes, AllLabels DEF Synced, Moves, TypeOK
<1>2. /\ frame' \in [Threads -> Frames]
      /\ Sets(t, 0, 0, NoThread, NoThread, NoThread, "enter", 0)
  BY ClearFrame DEF Synced, TypeOK
<1>3. readers' \in [Threads -> SUBSET Threads]
  BY DEF Synced, TypeOK
<1>4. UNCHANGED <<list, epochs, rubbish, object, script, held>>
  BY DEF Synced, list, epochs, rubbish, client
<1> QED
  BY <1>1, <1>2, <1>3, <1>4 DEF Synced, TypeOK, list, epochs, rubbish, client,
     Others

LEMMA ShutdownDoes ==
  ASSUME TypeOK, NEW t \in Threads, Shutdown(t)
  PROVE  /\ TypeOK' /\ Moves(t, "shutdown", "gone")
         /\ Sets(t, 0, 0, NoThread, NoThread, NoThread, "enter", 0)
         /\ next'[t].to = next[t].to /\ next'[t].tag = 1 /\ Others(next, next', t)
         /\ UNCHANGED <<participants, epochs, rubbish, client>>
<1>1. pc' \in [Threads -> Labels] /\ Moves(t, "shutdown", "gone")
  BY GotoDoes, AllLabels DEF Shutdown, Moves, TypeOK
<1>2. /\ frame' \in [Threads -> Frames]
      /\ Sets(t, 0, 0, NoThread, NoThread, NoThread, "enter", 0)
  BY ClearFrame DEF Shutdown, TypeOK
<1>3. next' \in [Threads -> [to : Pointers, tag : {0, 1}]]
  BY DEF Shutdown, TypeOK
<1>4. UNCHANGED <<participants, epochs, rubbish, client>>
  BY DEF Shutdown, list, epochs, rubbish, client
<1> QED
  BY <1>1, <1>2, <1>3, <1>4 DEF Shutdown, TypeOK, list, epochs, rubbish,
     client, Others

-----------------------------------------------------------------------------
(***************************************************************************)
(* PlacesOK.  A step changes the place of one thread only; the others are  *)
(* as they were.                                                           *)
(***************************************************************************)
Kept(u) == /\ pc'[u] = pc[u] /\ frame'[u] = frame[u] /\ epoch'[u] = epoch[u]
           /\ inCritical'[u] = inCritical[u] /\ garbage'[u] = garbage[u]
           /\ held'[u] = held[u] /\ DOMAIN script' = DOMAIN script
           /\ u \in DOMAIN script => script'[u] = script[u]

LEMMA OthersKept ==
  ASSUME TypeOK, PlacesOK, NEW t \in Threads, Step(t), NEW u \in Threads, u # t
  PROVE  Kept(u)
<1>0. PlaceOK(t)
  BY DEF PlacesOK
<1>1. CASE Enroll(t)
  BY <1>0, <1>1, EnrollDoes DEF Kept, Others, Moves, Sets, list, epochs,
     rubbish, client
<1>2. CASE EnrollCas(t)
  BY <1>0, <1>2, EnrollCasDoes DEF Kept, Others, Moves, Sets, list, epochs,
     rubbish, client
<1>3. CASE Enter(t)
  BY <1>0, <1>3, EnterDoes DEF Kept, Others, Moves, Sets, list, epochs,
     rubbish, client
<1>4. CASE ReadEpoch(t)
  BY <1>0, <1>4, ReadEpochDoes DEF Kept, Others, Moves, Sets, list, epochs,
     rubbish, client
<1>5. CASE CopyEpoch(t)
  BY <1>0, <1>5, CopyEpochDoes DEF Kept, Others, Moves, Sets, list, epochs,
     rubbish, client
<1>6. CASE CollectOnEnter(t)
  BY <1>0, <1>6, CollectOnEnterDoes DEF Kept, Others, Moves, Sets, list,
     epochs, rubbish, client
<1>7. CASE StartCollect(t)
  BY <1>0, <1>7, StartCollectDoes DEF Kept, Others, Moves, Sets, list, epochs,
     rubbish, client
<1>8. CASE FirstParticipant(t)
  BY <1>0, <1>8, FirstParticipantDoes DEF Kept, Others, Moves, Sets, list,
     epochs, rubbish, client
<1>9. CASE Look(t)
  BY <1>0, <1>9, LookDoes DEF Kept, Others, Moves, Sets, list, epochs, rubbish,
     client
<1>10. CASE Unlink(t)
  BY <1>0, <1>10, UnlinkDoes DEF Kept, Others, Moves, Sets, list, epochs,
     rubbish, client
<1>11. CASE UnlinkFails(t)
  BY <1>0, <1>11, UnlinkFailsDoes DEF Kept, Others, Moves, Sets, list, epochs,
     rubbish, client
<1>12. CASE LookInCritical(t)
  BY <1>0, <1>12, LookInCriticalDoes DEF Kept, Others, Moves, Sets, list,
     epochs, rubbish, client
<1>13. CASE CompareEpochs(t)
  BY <1>0, <1>13, CompareEpochsDoes DEF Kept, Others, Moves, Sets, list,
     epochs, rubbish, client
<1>14. CASE Advance(t)
  BY <1>0, <1>14, AdvanceDoes DEF Kept, Others, Moves, Sets, list, epochs,
     rubbish, client
<1>15. CASE CollectGlobal(t)
  BY <1>0, <1>15, CollectGlobalDoes DEF Kept, Others, Moves, Sets, list,
     epochs, rubbish, client
<1>16. CASE CollectLocal(t)
  BY <1>0, <1>16, CollectLocalDoes DEF Kept, Others, Moves, Sets, list, epochs,
     rubbish, client
<1>17. CASE UpdateLocal(t)
  BY <1>0, <1>17, UpdateLocalDoes DEF Kept, Others, Moves, Sets, list, epochs,
     rubbish, client
<1>18. CASE Read(t)
  BY <1>0, <1>18, ReadDoes DEF Kept, Others, Moves, Sets, list, epochs,
     rubbish, client
<1>19. CASE Update(t)
  BY <1>0, <1>19, UpdateDoes DEF Kept, Others, Moves, Sets, list, epochs,
     rubbish, client
<1>20. CASE Synchronize(t)
  BY <1>0, <1>20, SynchronizeDoes DEF Kept, Others, Moves, Sets, list, epochs,
     rubbish, client
<1>21. CASE Migrate(t)
  BY <1>0, <1>21, MigrateDoes DEF Kept, Others, Moves, Sets, list, epochs,
     rubbish, client
<1>22. CASE RegisterCleanup(t)
  BY <1>0, <1>22, RegisterCleanupDoes DEF Kept, Others, Moves, Sets, list,
     epochs, rubbish, client
<1>23. CASE Exit(t)
  BY <1>0, <1>23, ExitDoes DEF Kept, Others, Moves, Sets, list, epochs,
     rubbish, client
<1>24. CASE Synced(t)
  BY <1>0, <1>24, SyncedDoes DEF Kept, Others, Moves, Sets, list, epochs,
     rubbish, client
<1>25. CASE Shutdown(t)
  BY <1>0, <1>25, ShutdownDoes DEF Kept, Others, Moves, Sets, list, epochs,
     rubbish, client
<1> QED
  BY <1>1, <1>2, <1>3, <1>4, <1>5, <1>6, <1>7, <1>8, <1>9, <1>10, <1>11, <1>12,
     <1>13, <1>14, <1>15, <1>16, <1>17, <1>18, <1>19, <1>20, <1>21, <1>22,
     <1>23, <1>24, <1>25 DEF Step

LEMMA SameDoing ==
  ASSUME NEW u, script'[u] = script[u]
  PROVE  Doing(u)' = Doing(u)
  BY DEF Doing

LEMMA OthersPlaces ==
  ASSUME TypeOK, PlacesOK, NEW t \in Threads, Step(t), NEW u \in Threads, u # t
  PROVE  PlaceOK(u)'
<1>1. Kept(u) /\ PlaceOK(u)
  BY OthersKept DEF PlacesOK
<1>2. u \in DOMAIN script => Doing(u)' = Doing(u)
  BY <1>1, SameDoing DEF Kept
<1> QED
  BY <1>1, <1>2 DEF PlaceOK, Kept, Copying, PinnedAt, Walking, Advancing, NoGarbage

LEMMA PlacesStep ==
  ASSUME TypeOK, PlacesOK, NEW t \in Threads, Step(t)
  PROVE  TypeOK' /\ PlacesOK'
<1>1. TypeOK' /\ PlaceOK(t)'
  <2>0. PlaceOK(t)
    BY DEF PlacesOK
  <2>d. script' = script => Doing(t)' = Doing(t)
    BY SameDoing
  <2>1. CASE Enroll(t)
    BY <2>0, <2>d, <2>1, EnrollDoes DEF PlaceOK, Moves, Sets, epochs, rubbish,
       client,
       Copying, PinnedAt, Walking, Advancing, NoGarbage
  <2>2. CASE EnrollCas(t)
    BY <2>0, <2>d, <2>2, EnrollCasDoes DEF PlaceOK, Moves, Sets, epochs,
       rubbish, client,
       Copying, PinnedAt, Walking, Advancing, NoGarbage
  <2>3. CASE Enter(t)
    BY <2>0, <2>d, <2>3, EnterDoes DEF PlaceOK, Moves, Sets, epochs, rubbish,
       client,
       Copying, PinnedAt, Walking, Advancing, NoGarbage
  <2>4. CASE ReadEpoch(t)
    BY <2>0, <2>d, <2>4, ReadEpochDoes DEF PlaceOK, Moves, Sets, epochs,
       rubbish, client,
       Copying, PinnedAt, Walking, Advancing, NoGarbage
  <2>5. CASE CopyEpoch(t)
    BY <2>0, <2>d, <2>5, CopyEpochDoes DEF PlaceOK, Moves, Sets, epochs,
       rubbish, client,
       Copying, PinnedAt, Walking, Advancing, NoGarbage
  <2>6. CASE CollectOnEnter(t)
    BY <2>0, <2>d, <2>6, CollectOnEnterDoes DEF PlaceOK, Moves, Sets, epochs,
       rubbish, client,
       Copying, PinnedAt, Walking, Advancing, NoGarbage
  <2>7. CASE StartCollect(t)
    BY <2>0, <2>d, <2>7, StartCollectDoes DEF PlaceOK, Moves, Sets, epochs,
       rubbish, client,
       Copying, PinnedAt, Walking, Advancing, NoGarbage
  <2>8. CASE FirstParticipant(t)
    BY <2>0, <2>d, <2>8, FirstParticipantDoes DEF PlaceOK, Moves, Sets, epochs,
       rubbish, client,
       Copying, PinnedAt, Walking, Advancing, NoGarbage
  <2>9. CASE Look(t)
    BY <2>0, <2>d, <2>9, LookDoes DEF PlaceOK, Moves, Sets, epochs, rubbish, client,
       Copying, PinnedAt, Walking, Advancing, NoGarbage
  <2>10. CASE Unlink(t)
    BY <2>0, <2>d, <2>10, UnlinkDoes DEF PlaceOK, Moves, Sets, epochs, rubbish,
       client,
       Copying, PinnedAt, Walking, Advancing, NoGarbage
  <2>11. CASE UnlinkFails(t)
    BY <2>0, <2>d, <2>11, UnlinkFailsDoes DEF PlaceOK, Moves, Sets, epochs,
       rubbish, client,
       Copying, PinnedAt, Walking, Advancing, NoGarbage
  <2>12. CASE LookInCritical(t)
    BY <2>0, <2>d, <2>12, LookInCriticalDoes DEF PlaceOK, Moves, Sets, epochs,
       rubbish, client,
       Copying, PinnedAt, Walking, Advancing, NoGarbage
  <2>13. CASE CompareEpochs(t)
    BY <2>0, <2>d, <2>13, CompareEpochsDoes DEF PlaceOK, Moves, Sets, epochs,
       rubbish, client,
       Copying, PinnedAt, Walking, Advancing, NoGarbage
  <2>14. CASE Advance(t)
    BY <2>0, <2>d, <2>14, AdvanceDoes DEF PlaceOK, Moves, Sets, epochs,
       rubbish, client,
       Copying, PinnedAt, Walking, Advancing, NoGarbage
  <2>15. CASE CollectGlobal(t)
    BY <2>0, <2>d, <2>15, CollectGlobalDoes DEF PlaceOK, Moves, Sets, epochs,
       rubbish, client,
       Copying, PinnedAt, Walking, Advancing, NoGarbage
  <2>16. CASE CollectLocal(t)
    BY <2>0, <2>d, <2>16, CollectLocalDoes DEF PlaceOK, Moves, Sets, epochs,
       rubbish, client,
       Copying, PinnedAt, Walking, Advancing, NoGarbage
  <2>17. CASE UpdateLocal(t)
    BY <2>0, <2>d, <2>17, UpdateLocalDoes DEF PlaceOK, Moves, Sets, epochs,
       rubbish, client,
       Copying, PinnedAt, Walking, Advancing, NoGarbage
  <2>18. CASE Read(t)
    BY <2>0, <2>d, <2>18, ReadDoes DEF PlaceOK, Moves, Sets, epochs, rubbish,
       client,
       Copying, PinnedAt, Walking, Advancing, NoGarbage
  <2>19. CASE Update(t)
    BY <2>0, <2>d, <2>19, UpdateDoes DEF PlaceOK, Moves, Sets, epochs, rubbish,
       client,
       Copying, PinnedAt, Walking, Advancing, NoGarbage
  <2>20. CASE Synchronize(t)
    BY <2>0, <2>d, <2>20, SynchronizeDoes DEF PlaceOK, Moves, Sets, epochs,
       rubbish, client,
       Copying, PinnedAt, Walking, Advancing, NoGarbage
  <2>21. CASE Migrate(t)
    BY <2>0, <2>d, <2>21, MigrateDoes DEF PlaceOK, Moves, Sets, epochs,
       rubbish, client,
       Copying, PinnedAt, Walking, Advancing, NoGarbage
  <2>22. CASE RegisterCleanup(t)
    BY <2>0, <2>d, <2>22, RegisterCleanupDoes DEF PlaceOK, Moves, Sets, epochs,
       rubbish, client,
       Copying, PinnedAt, Walking, Advancing, NoGarbage
  <2>23. CASE Exit(t)
    BY <2>0, <2>d, <2>23, ExitDoes DEF PlaceOK, Moves, Sets, epochs, rubbish,
       client,
       Copying, PinnedAt, Walking, Advancing, NoGarbage
  <2>24. CASE Synced(t)
    BY <2>0, <2>d, <2>24, SyncedDoes DEF PlaceOK, Moves, Sets, epochs, rubbish,
       client,
       Copying, PinnedAt, Walking, Advancing, NoGarbage
  <2>25. CASE Shutdown(t)
    BY <2>0, <2>d, <2>25, ShutdownDoes DEF PlaceOK, Moves, Sets, epochs,
       rubbish, client,
       Copying, PinnedAt, Walking, Advancing, NoGarbage
  <2> QED
    BY <2>1, <2>2, <2>3, <2>4, <2>5, <2>6, <2>7, <2>8, <2>9, <2>10, <2>11,
       <2>12, <2>13, <2>14, <2>15, <2>16, <2>17, <2>18, <2>19, <2>20, <2>21,
       <2>22, <2>23, <2>24, <2>25 DEF Step
<1> QED
  BY <1>1, OthersPlaces DEF PlacesOK

-----------------------------------------------------------------------------
(***************************************************************************)
(* ListOK and OnePredecessor.  Three steps change the list: a thread puts  *)
(* itself in front, a walk cuts out a participant that is gone, a thread   *)
(* that exits tags its own link.                                           *)
(***************************************************************************)
LEMMA LinkTypes ==
  ASSUME TypeOK
  PROVE  /\ participants \in Pointers
         /\ \A u \in Threads : next[u].to \in Pointers
         /\ \A u \in Threads : next[u] = Link(next[u].to, next[u].tag)
  BY DEF TypeOK, Link

(* Whoever is reached from somebody enrolled is enrolled. *)
LEMMA EnrolledAfter ==
  ASSUME TypeOK, ListOK, NEW p \in Pointers, IsEnrolled(p)
  PROVE  \A x \in After(p) : Enrolled(x)
<1> DEFINE E == {u \in Threads : Enrolled(u)}
<1>1. Closed(next, E)
  <2> SUFFICES ASSUME NEW u \in E
               PROVE  next[u].to \in E \cup {NoThread}
    BY DEF Closed
  <2>1. IsEnrolled(next[u].to)
    BY DEF ListOK, NodeOK
  <2>2. next[u].to \in Threads \cup {NoThread}
    BY LinkTypes DEF Pointers
  <2> QED
    BY <2>1, <2>2 DEF IsEnrolled
<1>2. p \in E \cup {NoThread}
  BY DEF IsEnrolled, Pointers
<1>3. After(p) \subseteq E
  BY <1>1, <1>2, AfterWithin DEF After
<1> QED
  BY <1>3

LEMMA NextFrameTypes ==
  ASSUME TypeOK', NEW t \in Threads
  PROVE  /\ frame'[t].prev \in Pointers /\ frame'[t].cur \in Pointers
         /\ frame'[t].next \in Pointers
  BY DEF TypeOK, Frames, Pointers

(* Most steps leave the list alone. *)
LEMMA ListKept ==
  ASSUME TypeOK, TypeOK', ListOK, OnePredecessor,
         NEW t \in Threads, UNCHANGED list,
         Others(pc, pc', t), Others(frame, frame', t),
         Enrolled(t)' = Enrolled(t), pc[t] # "gone", pc'[t] # "gone",
         IsEnrolled(frame'[t].prev), IsEnrolled(frame'[t].cur),
         IsEnrolled(frame'[t].next),
         pc'[t] = "unlink" => next[frame'[t].cur] = Link(frame'[t].next, 1)
  PROVE  ListOK' /\ OnePredecessor'
<1>1. next' = next /\ participants' = participants
  BY DEF list
<1>2. \A p : After(p)' = After(p)
  BY <1>1 DEF After, AfterIn, Closed
<1>3. \A u \in Threads : Enrolled(u)' = Enrolled(u)
  BY DEF Enrolled, Others
<1>4. \A u \in Threads : pc'[u] = "gone" <=> pc[u] = "gone"
  BY DEF Others
<1>5. ASSUME NEW p \in Pointers, IsEnrolled(p)
      PROVE  IsEnrolled(p)'
  BY <1>3, <1>5 DEF IsEnrolled, Pointers
<1>6. ASSUME NEW u \in Threads
      PROVE  NodeOK(u)'
  <2>1. NodeOK(u) /\ next[u].to \in Pointers
    BY LinkTypes DEF ListOK
  <2>2. Enrolled(u)' => IsEnrolled(next[u].to)'
    BY <1>1, <1>3, <1>5, <2>1 DEF NodeOK
  <2>3. CASE u # t
    <3>1. frame'[u] = frame[u] /\ pc'[u] = pc[u]
      BY <2>3 DEF Others
    <3>2. /\ frame[u].prev \in Pointers /\ frame[u].cur \in Pointers
          /\ frame[u].next \in Pointers
      BY FrameTypes
    <3>3. /\ IsEnrolled(frame[u].prev)' /\ IsEnrolled(frame[u].cur)'
          /\ IsEnrolled(frame[u].next)'
      BY <1>3, <2>1, <3>1, <3>2 DEF NodeOK, IsEnrolled, Pointers
    <3> QED
      BY <1>1, <1>2, <1>3, <2>1, <2>2, <3>1, <3>3 DEF NodeOK, Link
  <2>4. CASE u = t
    <3>1. /\ IsEnrolled(frame[t].prev)' /\ IsEnrolled(frame[t].cur)'
          /\ IsEnrolled(frame[t].next)'
      BY <1>3, NextFrameTypes DEF IsEnrolled, Pointers
    <3> QED
      BY <1>1, <1>2, <1>4, <2>1, <2>2, <2>4, <3>1 DEF NodeOK, Link
  <2> QED
    BY <2>3, <2>4
<1>7. participants \in Pointers /\ IsEnrolled(participants)
  BY LinkTypes DEF ListOK
<1> QED
  BY <1>1, <1>2, <1>5, <1>6, <1>7 DEF ListOK, OnePredecessor

(* A thread that enrolls becomes the head of the list. *)
Enrolls(t) == /\ Moves(t, "enroll", "idle")
              /\ next'[t] = Link(participants, 0) /\ Others(next, next', t)
              /\ participants' = t
              /\ Sets(t, 0, 0, NoThread, NoThread, NoThread, "enter", 0)

LEMMA EnrolledList ==
  ASSUME TypeOK, ListOK, NEW t \in Threads, Enrolls(t)
  PROVE  /\ \A u \in Threads : Enrolled(u)' <=> Enrolled(u) \/ u = t
         /\ \A p \in Pointers : IsEnrolled(p) => After(p)' = After(p)
         /\ After(participants)' = After(participants) \cup {t}
         /\ next'[t].to = participants /\ next'[t].tag = 0
<1> DEFINE E == {u \in Threads : Enrolled(u)}
<1>1. pc[t] = "enroll" /\ ~ Enrolled(t)
  BY DEF Enrolls, Moves, Enrolled
<1>2. \A u \in Threads : Enrolled(u)' <=> Enrolled(u) \/ u = t
  BY DEF Enrolls, Moves, Enrolled, Others
<1>3. next'[t].to = participants /\ next'[t].tag = 0
  BY DEF Enrolls, Link
<1>4. Closed(next, E)
  <2> SUFFICES ASSUME NEW u \in E
               PROVE  next[u].to \in E \cup {NoThread}
    BY DEF Closed
  <2> QED
    BY LinkTypes DEF ListOK, NodeOK, IsEnrolled, Pointers
<1>5. \A u \in E : next'[u].to = next[u].to
  BY <1>1 DEF Enrolls, Others
<1>6. ASSUME NEW p \in Pointers, IsEnrolled(p)
      PROVE  AfterIn(next', p) = AfterIn(next, p)
  <2>1. p \in E \cup {NoThread}
    BY <1>6 DEF IsEnrolled, Pointers
  <2> HIDE DEF E
  <2>2. E \in SUBSET Threads
    BY DEF E
  <2> QED
    BY <1>4, <1>5, <2>1, <2>2, SameWithin
<1>7. participants \in Pointers /\ IsEnrolled(participants)
  BY LinkTypes DEF ListOK
<1>8. AfterIn(next', t) = AfterIn(next, participants) \cup {t}
  <2>1. AfterIn(next', participants) \subseteq AfterIn(next', t)
    BY <1>3, NextAfter
  <2>2. AfterIn(next', t) \subseteq AfterIn(next', participants) \cup {t}
    BY <1>3, AfterNext
  <2>3. t \in AfterIn(next', t)
    BY AfterFirst
  <2> QED
    BY <1>6, <1>7, <2>1, <2>2, <2>3
<1>9. participants' = t
  BY DEF Enrolls
<1> QED
  BY <1>2, <1>3, <1>6, <1>8, <1>9 DEF After

LEMMA EnrollKeeps ==
  ASSUME TypeOK, PlacesOK, ListOK, OnePredecessor, NEW t \in Threads, Enrolls(t)
  PROVE  ListOK' /\ OnePredecessor'
<1>1. /\ \A u \in Threads : Enrolled(u)' <=> Enrolled(u) \/ u = t
      /\ \A p \in Pointers : IsEnrolled(p) => After(p)' = After(p)
      /\ After(participants)' = After(participants) \cup {t}
      /\ next'[t].to = participants /\ next'[t].tag = 0
  BY EnrolledList
<1>2. /\ ~ Enrolled(t) /\ participants' = t /\ pc'[t] = "idle"
      /\ Others(pc, pc', t) /\ Others(frame, frame', t) /\ Others(next, next', t)
      /\ frame'[t].prev = NoThread /\ frame'[t].cur = NoThread
      /\ frame'[t].next = NoThread
  BY DEF Enrolls, Moves, Enrolled, Sets
<1>3. participants \in Pointers /\ IsEnrolled(participants)
  BY LinkTypes DEF ListOK
<1>4. ASSUME NEW u \in Threads, u # t
      PROVE  NodeOK(u)'
  <2>1. NodeOK(u) /\ next[u].to \in Pointers /\ next'[u] = next[u]
        /\ frame'[u] = frame[u] /\ pc'[u] = pc[u]
    BY <1>2, <1>4, LinkTypes DEF ListOK, Others
  <2>2. /\ frame[u].prev \in Pointers /\ frame[u].cur \in Pointers
        /\ frame[u].next \in Pointers
    BY FrameTypes
  <2>3. Enrolled(u)' => IsEnrolled(next[u].to)'
    BY <1>1, <1>4, <2>1 DEF NodeOK, IsEnrolled, Pointers
  <2>4. /\ IsEnrolled(frame[u].prev)' /\ IsEnrolled(frame[u].cur)'
        /\ IsEnrolled(frame[u].next)'
    BY <1>1, <2>1, <2>2 DEF NodeOK, IsEnrolled, Pointers
  <2>5. Enrolled(u)' => u \notin After(next[u].to)'
    <3>1. Enrolled(u)' => Enrolled(u) /\ IsEnrolled(next[u].to)
      BY <1>1, <1>4, <2>1 DEF NodeOK
    <3>2. Enrolled(u)' => AfterIn(next', next[u].to) = AfterIn(next, next[u].to)
      BY <1>1, <2>1, <3>1 DEF After
    <3> QED
      BY <2>1, <3>1, <3>2 DEF NodeOK, After
  <2>6. pc'[u] = "unlink" => next'[frame'[u].cur] = Link(frame'[u].next, 1)
    <3>1. pc[u] = "unlink" => frame[u].cur \in Threads \ {t}
      BY <1>2, <2>1, <2>2 DEF PlacesOK, PlaceOK, NodeOK, IsEnrolled, Pointers
    <3> QED
      BY <1>2, <2>1, <3>1 DEF NodeOK, Others
  <2> QED
    BY <1>1, <1>4, <2>1, <2>3, <2>4, <2>5, <2>6 DEF NodeOK, Link
<1>5. NodeOK(t)'
  <2>1. t \notin AfterIn(next, participants)
    BY <1>2, <1>3, EnrolledAfter DEF After
  <2>2. AfterIn(next', next'[t].to) = AfterIn(next, participants)
    BY <1>1, <1>3 DEF After
  <2>3. IsEnrolled(next[t].to)'
    BY <1>1, <1>3 DEF IsEnrolled, Pointers
  <2> QED
    BY <1>1, <1>2, <2>1, <2>2, <2>3 DEF NodeOK, IsEnrolled, After
<1>6. IsEnrolled(participants)'
  BY <1>1, <1>2 DEF IsEnrolled
<1>7. OnePredecessor'
  <2> SUFFICES ASSUME NEW u \in After(participants) \cup {t},
                      NEW v \in After(participants) \cup {t},
                      next'[u].to = next'[v].to, next'[u].to # NoThread, u # v
               PROVE  FALSE
    BY <1>1 DEF OnePredecessor
  <2>1. After(participants) \subseteq Threads
    BY AfterType DEF After
  <2>2. ASSUME NEW w \in After(participants), w # t
        PROVE  next'[w].to # participants \/ participants = NoThread
    <3>1. Enrolled(w) /\ NodeOK(w) /\ next'[w] = next[w]
      BY <1>2, <1>3, <2>1, <2>2, EnrolledAfter DEF ListOK, Others
    <3> QED
      BY <3>1, <2>2 DEF NodeOK
  <2>3. CASE u # t /\ v # t
    BY <1>2, <2>1, <2>3 DEF OnePredecessor, Others
  <2> QED
    BY <1>1, <2>2, <2>3
<1> QED
  BY <1>4, <1>5, <1>6, <1>7 DEF ListOK

(* The collecting thread cuts out a participant that has exited. *)
LEMMA UnlinkedList ==
  ASSUME TypeOK, PlacesOK, ListOK, OnePredecessor, NEW t \in Threads, Unlink(t)
  PROVE  /\ pc[frame[t].cur] = "gone"
         /\ next[frame[t].cur].to = frame[t].next
         /\ frame[t].cur \in After(participants)
         /\ frame[t].cur \notin After(participants)'
         /\ \A p : After(p)' \subseteq After(p)
         /\ \A p : After(p) \subseteq After(p)' \cup {frame[t].cur}
         /\ After(participants)' \subseteq After(participants)
         /\ After(participants) \subseteq After(participants)' \cup {frame[t].cur}
<1> DEFINE z == frame[t].cur
           q == frame[t].prev
           H == AfterIn(next, participants)
<1>1. PlaceOK(t) /\ NodeOK(t) /\ pc[t] = "unlink"
  BY DEF PlacesOK, ListOK, Unlink
<1>2. /\ z \in Threads /\ NodeOK(z)
      /\ \/ q = NoThread /\ participants = z /\ participants' = frame[t].next /\ UNCHANGED next
         \/ /\ q \in Threads /\ next[q] = Link(z, 0)
            /\ next'[q] = Link(frame[t].next, 0)
            /\ Others(next, next', q) /\ UNCHANGED participants
  BY <1>1, UnlinkDoes DEF ListOK
<1>3. next[z].to = frame[t].next /\ next[z].tag = 1 /\ pc[z] = "gone"
  BY <1>1, <1>2 DEF NodeOK, Link
<1>4. Enrolled(z) /\ z \notin AfterIn(next, next[z].to) /\ next[z].to \in Pointers
  BY <1>2, <1>3, LinkTypes DEF NodeOK, Enrolled, After
<1>5. next[z].to # z
  BY <1>2, <1>4, AfterFirst
<1>6. CASE q = NoThread
  <2>1. participants = z /\ participants' = next[z].to /\ next' = next
    BY <1>2, <1>3, <1>6, PointersAssumption
  <2>2. AfterIn(next, next[z].to) \subseteq H
    BY <1>2, <2>1, NextAfter
  <2>3. H \subseteq AfterIn(next, next[z].to) \cup {z} /\ z \in H
    BY <1>2, <2>1, AfterNext, AfterFirst
  <2> QED
    BY <1>3, <1>4, <2>1, <2>2, <2>3 DEF After
<1>7. CASE q \in Threads
  <2>1. /\ next[q] = Link(z, 0) /\ next'[q] = Link(frame[t].next, 0)
        /\ Others(next, next', q) /\ participants' = participants
    BY <1>2, <1>7, PointersAssumption
  <2>2. next[q].to = z /\ next'[q].to = next[z].to /\ next[q].tag = 0
    BY <1>3, <2>1 DEF Link
  <2>3. \A u \in Threads \ {q} : next'[u].to = next[u].to
    BY <2>1 DEF Others
  <2>4. \A p : /\ AfterIn(next', p) \subseteq AfterIn(next, p)
               /\ AfterIn(next, p) \subseteq AfterIn(next', p) \cup {z}
    <3>1. CutOut(next, next', z, q)
      BY <1>2, <1>7, <2>2, <2>3 DEF CutOut
    <3> QED
      BY <3>1, UnlinkShrinks
  <2>5. q \in H
    BY <1>1, <1>7, <2>2, PointersAssumption DEF ListOK, NodeOK, IsEnrolled, After
  <2>6. participants # z
    BY <1>1, <1>7, <2>2, <2>5, PointersAssumption DEF ListOK, NodeOK,
       IsEnrolled, After
  <2>7. H \subseteq Threads /\ Closed(next, H)
    BY AfterType, AfterClosed, LinkTypes
  <2>8. z \in H
    BY <1>2, <2>2, <2>5, <2>7, PointersAssumption DEF Closed
  <2>9. z \notin AfterIn(next', participants)
    <3>1. Closed(next', H \ {z})
      <4> SUFFICES ASSUME NEW u \in H, u # z
                   PROVE  next'[u].to \in (H \ {z}) \cup {NoThread}
        BY DEF Closed
      <4>1. CASE u = q
        BY <1>5, <2>2, <2>7, <2>8, <4>1 DEF Closed
      <4>2. CASE u # q
        <5>1. next'[u].to = next[u].to /\ next[u].to \in H \cup {NoThread}
          BY <2>3, <2>7, <4>2 DEF Closed
        <5>2. next[u].to # z
          BY <1>2, <2>2, <2>5, <4>2, PointersAssumption DEF OnePredecessor, After
        <5> QED
          BY <5>1, <5>2
      <4> QED
        BY <4>1, <4>2
    <3>2. participants \in (H \ {z}) \cup {NoThread}
      BY <2>6, LinkTypes, AfterFirst DEF Pointers
    <3>3. AfterIn(next', participants) \subseteq H \ {z}
      BY <2>7, <3>1, <3>2, AfterWithin
    <3> QED
      BY <3>3
  <2> QED
    BY <1>3, <2>1, <2>4, <2>6, <2>8, <2>9 DEF After
<1> QED
  BY <1>2, <1>6, <1>7

LEMMA UnlinkKeeps ==
  ASSUME TypeOK, PlacesOK, ListOK, OnePredecessor, NEW t \in Threads, Unlink(t)
  PROVE  ListOK' /\ OnePredecessor'
<1> DEFINE z == frame[t].cur
           q == frame[t].prev
<1>1. PlaceOK(t) /\ NodeOK(t) /\ pc[t] = "unlink"
  BY DEF PlacesOK, ListOK, Unlink
<1>2. /\ z \in Threads /\ NodeOK(z) /\ pc[z] = "gone"
      /\ \/ /\ q = NoThread /\ participants = z /\ participants' = frame[t].next
            /\ UNCHANGED next
         \/ /\ q \in Threads /\ next[q] = Link(z, 0)
            /\ next'[q] = Link(frame[t].next, 0)
            /\ Others(next, next', q) /\ UNCHANGED participants
      /\ Others(pc, pc', t) /\ Others(frame, frame', t)
      /\ pc'[t] \in {"advance", "look"}
      /\ frame'[t].prev = q /\ frame'[t].cur = frame[t].next
      /\ frame'[t].next = frame[t].next
  BY <1>1, UnlinkDoes, UnlinkedList DEF ListOK, Moves, Sets
<1>3. /\ next[z].to = frame[t].next
      /\ \A p : After(p)' \subseteq After(p)
      /\ After(participants)' \subseteq After(participants)
      /\ After(participants) \subseteq After(participants)' \cup {z}
      /\ z \notin After(participants)'
  BY UnlinkedList
<1>4. \A u \in Threads : /\ Enrolled(u)' <=> Enrolled(u)
                         /\ pc'[u] = "gone" <=> pc[u] = "gone"
  BY <1>1, <1>2 DEF Enrolled, Others
<1>5. /\ frame[t].next \in Pointers /\ participants \in Pointers
      /\ Enrolled(z) /\ IsEnrolled(participants) /\ IsEnrolled(frame[t].next)
  BY <1>1, <1>2, LinkTypes, FrameTypes DEF ListOK, NodeOK, Enrolled
<1>6. ASSUME NEW u \in Threads
      PROVE  NodeOK(u)'
  <2>1. NodeOK(u) /\ next[u].to \in Pointers
    BY LinkTypes DEF ListOK
  <2>2. /\ next'[u].tag = next[u].tag
        /\ \/ next'[u] = next[u]
           \/ u = q /\ next[u].to = z /\ next'[u].to = next[z].to
    BY <1>2, <1>3 DEF Others, Link
  <2>3. Enrolled(u)' => IsEnrolled(next[u].to)'
    BY <1>3, <1>4, <1>5, <2>1, <2>2 DEF NodeOK, IsEnrolled, Pointers
  <2>4. /\ IsEnrolled(frame[u].prev)' /\ IsEnrolled(frame[u].cur)'
        /\ IsEnrolled(frame[u].next)'
    <3>1. /\ frame[u].prev \in Pointers /\ frame[u].cur \in Pointers
          /\ frame[u].next \in Pointers /\ q \in Pointers
      BY FrameTypes
    <3>2. CASE u = t
      BY <1>1, <1>2, <1>4, <1>5, <3>1, <3>2 DEF NodeOK, IsEnrolled, Pointers
    <3>3. CASE u # t
      BY <1>2, <1>4, <2>1, <3>1, <3>3 DEF NodeOK, IsEnrolled, Pointers, Others
    <3> QED
      BY <3>2, <3>3
  <2>5. Enrolled(u)' /\ pc'[u] # "gone" => u \in After(participants)'
    BY <1>2, <1>3, <1>4, <2>1 DEF NodeOK
  <2>6. Enrolled(u)' => u \notin After(next[u].to)'
    <3>1. After(next[u].to)' \subseteq After(next[u].to)
      <4>1. AfterIn(next', next'[u].to) \subseteq AfterIn(next, next'[u].to)
        BY <1>3 DEF After
      <4>2. AfterIn(next, next'[u].to) \subseteq AfterIn(next, next[u].to)
        BY <1>2, <2>2, NextAfter
      <4> QED
        BY <4>1, <4>2 DEF After
    <3> QED
      BY <1>4, <2>1, <3>1 DEF NodeOK
  <2>7. pc'[u] = "unlink" => next'[frame'[u].cur] = Link(frame'[u].next, 1)
    <3> SUFFICES ASSUME pc'[u] = "unlink"
                 PROVE  next'[frame'[u].cur] = Link(frame'[u].next, 1)
      OBVIOUS
    <3>1. u # t /\ pc[u] = "unlink" /\ frame'[u] = frame[u]
      BY <1>2 DEF Others
    <3>2. frame[u].cur \in Threads /\ next[frame[u].cur].tag = 1
      BY <2>1, <3>1, FrameTypes DEF PlacesOK, PlaceOK, NodeOK, Link, Pointers
    <3>3. next'[frame[u].cur] = next[frame[u].cur]
      BY <1>2, <3>2 DEF Others, Link
    <3> QED
      BY <2>1, <3>1, <3>3 DEF NodeOK
  <2>8. next'[u].tag = 1 <=> pc'[u] = "gone"
    BY <1>4, <2>1, <2>2 DEF NodeOK
  <2> QED
    BY <2>3, <2>4, <2>5, <2>6, <2>7, <2>8 DEF NodeOK, Link
<1>7. IsEnrolled(participants)'
  BY <1>2, <1>4, <1>5 DEF IsEnrolled, Pointers
<1>8. OnePredecessor'
  <2>1. After(participants) \subseteq Threads
    BY AfterType DEF After
  <2>2. CASE next' = next
    BY <1>3, <2>2 DEF OnePredecessor
  <2>3. CASE next' # next
    <3>1. /\ q \in Threads /\ next[q].to = z /\ next[q].tag = 0
          /\ next'[q].to = next[z].to /\ Others(next, next', q)
      BY <1>2, <1>3, <2>3 DEF Link
    <3>2. q \in After(participants) /\ z \in After(participants)
      <4>1. q \in After(participants)
        BY <1>1, <3>1, PointersAssumption DEF ListOK, NodeOK, IsEnrolled
      <4>2. Closed(next, After(participants))
        BY AfterClosed, LinkTypes DEF After
      <4> QED
        BY <1>2, <3>1, <4>1, <4>2, PointersAssumption DEF Closed
    <3> SUFFICES ASSUME NEW u \in After(participants)', NEW v \in After(participants)',
                        next'[u].to = next'[v].to, next'[u].to # NoThread, u # v
                 PROVE  FALSE
      BY DEF OnePredecessor
    <3>3. /\ u \in After(participants) /\ v \in After(participants)
          /\ u # z /\ v # z
      BY <1>3
    <3>4. CASE u # q /\ v # q
      BY <2>1, <3>1, <3>3, <3>4 DEF OnePredecessor, Others
    <3>5. CASE u = q
      <4>1. next'[v].to = next[v].to
        BY <2>1, <3>1, <3>3, <3>5 DEF Others
      <4> QED
        BY <3>1, <3>2, <3>3, <3>5, <4>1 DEF OnePredecessor
    <3>6. CASE v = q
      <4>1. next'[u].to = next[u].to
        BY <2>1, <3>1, <3>3, <3>6 DEF Others
      <4> QED
        BY <3>1, <3>2, <3>3, <3>6, <4>1 DEF OnePredecessor
    <3> QED
      BY <3>4, <3>5, <3>6
  <2> QED
    BY <2>2, <2>3
<1> QED
  BY <1>6, <1>7, <1>8 DEF ListOK

(* A thread that exits tags its link. *)
LEMMA ShutdownKeeps ==
  ASSUME TypeOK, PlacesOK, ListOK, OnePredecessor, NEW t \in Threads, Shutdown(t)
  PROVE  /\ ListOK' /\ OnePredecessor'
         /\ \A p : After(p)' = After(p)
<1>1. /\ PlaceOK(t) /\ NodeOK(t)
      /\ pc[t] = "shutdown" /\ pc'[t] = "gone" /\ Others(pc, pc', t)
      /\ Others(frame, frame', t) /\ frame'[t].prev = NoThread
      /\ frame'[t].cur = NoThread /\ frame'[t].next = NoThread
      /\ next'[t].to = next[t].to /\ next'[t].tag = 1 /\ Others(next, next', t)
      /\ participants' = participants
  BY ShutdownDoes DEF PlacesOK, ListOK, Moves, Sets
<1>2. \A u \in Threads : next'[u].to = next[u].to
  BY <1>1 DEF Others
<1>3. \A p : AfterIn(next', p) = AfterIn(next, p)
  BY <1>2 DEF AfterIn, Closed
<1>4. \A u \in Threads : Enrolled(u)' <=> Enrolled(u)
  BY <1>1 DEF Enrolled, Others
<1>5. ASSUME NEW u \in Threads
      PROVE  NodeOK(u)'
  <2>1. NodeOK(u) /\ next[u].to \in Pointers
    BY LinkTypes DEF ListOK
  <2>2. Enrolled(u)' => IsEnrolled(next[u].to)'
    BY <1>2, <1>4, <2>1 DEF NodeOK, IsEnrolled, Pointers
  <2>3. CASE u = t
    BY <1>1, <1>2, <1>3, <1>4, <2>1, <2>2, <2>3 DEF NodeOK, IsEnrolled, After
  <2>4. CASE u # t
    <3>1. frame'[u] = frame[u] /\ pc'[u] = pc[u] /\ next'[u] = next[u]
      BY <1>1, <2>4 DEF Others
    <3>2. /\ frame[u].prev \in Pointers /\ frame[u].cur \in Pointers
          /\ frame[u].next \in Pointers
      BY FrameTypes
    <3>3. /\ IsEnrolled(frame[u].prev)' /\ IsEnrolled(frame[u].cur)'
          /\ IsEnrolled(frame[u].next)'
      BY <1>4, <2>1, <3>1, <3>2 DEF NodeOK, IsEnrolled, Pointers
    <3>4. pc[u] = "unlink" => next'[frame[u].cur] = next[frame[u].cur]
      <4> SUFFICES ASSUME pc[u] = "unlink"
                   PROVE  next'[frame[u].cur] = next[frame[u].cur]
        OBVIOUS
      <4>1. frame[u].cur \in Threads /\ next[frame[u].cur].tag = 1
        BY <2>1, <3>2 DEF PlacesOK, PlaceOK, NodeOK, Link, Pointers
      <4> QED
        BY <1>1, <4>1 DEF Others, NodeOK
    <3> QED
      BY <1>1, <1>2, <1>3, <1>4, <2>1, <2>2, <3>1, <3>3, <3>4 DEF NodeOK,
         After, Link
  <2> QED
    BY <2>3, <2>4
<1>6. IsEnrolled(participants)'
  BY <1>1, <1>4, LinkTypes DEF ListOK, IsEnrolled, Pointers
<1>7. OnePredecessor'
  BY <1>1, <1>2, <1>3, AfterType DEF OnePredecessor, After
<1> QED
  BY <1>3, <1>5, <1>6, <1>7 DEF ListOK, After

LEMMA ListStep ==
  ASSUME TypeOK, PlacesOK, ListOK, OnePredecessor, NEW t \in Threads, Step(t)
  PROVE  ListOK' /\ OnePredecessor'
<1>0. PlaceOK(t) /\ NodeOK(t) /\ TypeOK' /\ IsEnrolled(participants) /\ IsEnrolled(NoThread)
  BY PlacesStep DEF PlacesOK, ListOK, IsEnrolled
<1>1. CASE Enroll(t)
  BY <1>0, <1>1, EnrollDoes, ListKept DEF NodeOK, Enrolled, Moves, Sets, Others
<1>2. CASE EnrollCas(t)
  <2>1. CASE Enrolls(t)
    BY <2>1, EnrollKeeps
  <2>2. CASE ~ Enrolls(t)
    BY <1>0, <1>2, <2>2, EnrollCasDoes, ListKept DEF Enrolls, NodeOK, Enrolled,
       Sets, Others
  <2> QED
    BY <2>1, <2>2
<1>3. CASE Enter(t)
  BY <1>0, <1>3, EnterDoes, ListKept DEF NodeOK, Enrolled, Moves, Sets, Others
<1>4. CASE ReadEpoch(t)
  BY <1>0, <1>4, ReadEpochDoes, ListKept DEF NodeOK, Enrolled, Moves, Sets, Others
<1>5. CASE CopyEpoch(t)
  BY <1>0, <1>5, CopyEpochDoes, ListKept DEF NodeOK, Enrolled, Moves, Sets, Others
<1>6. CASE CollectOnEnter(t)
  BY <1>0, <1>6, CollectOnEnterDoes, ListKept DEF NodeOK, Enrolled, Moves,
     Sets, Others
<1>7. CASE StartCollect(t)
  BY <1>0, <1>7, StartCollectDoes, ListKept DEF NodeOK, Enrolled, Moves, Sets,
     Others
<1>8. CASE FirstParticipant(t)
  BY <1>0, <1>8, FirstParticipantDoes, ListKept DEF NodeOK, Enrolled, Moves,
     Sets, Others
<1>9. CASE Look(t)
  <2>1. /\ frame[t].cur \in Threads /\ frame[t].cur # NoThread
        /\ IsEnrolled(next[frame[t].cur].to)
        /\ next[frame[t].cur] = Link(next[frame[t].cur].to, next[frame[t].cur].tag)
    BY <1>0, <1>9, LookDoes, LinkTypes, PointersAssumption DEF ListOK, NodeOK,
       IsEnrolled
  <2> QED
    BY <1>0, <1>9, <2>1, LookDoes, ListKept DEF NodeOK, Enrolled, Moves, Sets
<1>10. CASE Unlink(t)
  BY <1>10, UnlinkKeeps
<1>11. CASE UnlinkFails(t)
  BY <1>0, <1>11, UnlinkFailsDoes, ListKept DEF NodeOK, Enrolled, Moves, Sets,
     Others
<1>12. CASE LookInCritical(t)
  BY <1>0, <1>12, LookInCriticalDoes, ListKept DEF NodeOK, Enrolled, Moves,
     Sets, Others
<1>13. CASE CompareEpochs(t)
  BY <1>0, <1>13, CompareEpochsDoes, ListKept DEF NodeOK, Enrolled, Moves,
     Sets, Others
<1>14. CASE Advance(t)
  BY <1>0, <1>14, AdvanceDoes, ListKept DEF NodeOK, Enrolled, Moves, Sets, Others
<1>15. CASE CollectGlobal(t)
  BY <1>0, <1>15, CollectGlobalDoes, ListKept DEF NodeOK, Enrolled, Moves,
     Sets, Others
<1>16. CASE CollectLocal(t)
  BY <1>0, <1>16, CollectLocalDoes, ListKept DEF NodeOK, Enrolled, Moves, Sets,
     Others
<1>17. CASE UpdateLocal(t)
  BY <1>0, <1>17, UpdateLocalDoes, ListKept DEF NodeOK, Enrolled, Moves, Sets,
     Others
<1>18. CASE Read(t)
  BY <1>0, <1>18, ReadDoes, ListKept DEF NodeOK, Enrolled, Moves, Sets, Others
<1>19. CASE Update(t)
  BY <1>0, <1>19, UpdateDoes, ListKept DEF NodeOK, Enrolled, Moves, Sets, Others
<1>20. CASE Synchronize(t)
  BY <1>0, <1>20, SynchronizeDoes, ListKept DEF NodeOK, Enrolled, Moves, Sets,
     Others
<1>21. CASE Migrate(t)
  BY <1>0, <1>21, MigrateDoes, ListKept DEF NodeOK, Enrolled, Moves, Sets, Others
<1>22. CASE RegisterCleanup(t)
  BY <1>0, <1>22, RegisterCleanupDoes, ListKept DEF NodeOK, Enrolled, Moves,
     Sets, Others
<1>23. CASE Exit(t)
  BY <1>0, <1>23, ExitDoes, ListKept DEF NodeOK, Enrolled, Moves, Sets, Others
<1>24. CASE Synced(t)
  BY <1>0, <1>24, SyncedDoes, ListKept DEF NodeOK, Enrolled, Moves, Sets, Others
<1>25. CASE Shutdown(t)
  BY <1>25, ShutdownKeeps
<1> QED
  BY <1>1, <1>2, <1>3, <1>4, <1>5, <1>6, <1>7, <1>8, <1>9, <1>10, <1>11, <1>12,
     <1>13, <1>14, <1>15, <1>16, <1>17, <1>18, <1>19, <1>20, <1>21, <1>22,
     <1>23, <1>24, <1>25 DEF Step

-----------------------------------------------------------------------------
(***************************************************************************)
(* EpochsOK and WalkOK.  The walk of the list decides to advance the       *)
(* epoch; behind it nobody is in an older one.                             *)
(***************************************************************************)
(* A step takes out of the list whoever is gone, and nobody else. *)
LEMMA AfterStep ==
  ASSUME TypeOK, PlacesOK, ListOK, OnePredecessor, NEW t \in Threads, Step(t),
         NEW p \in Pointers, IsEnrolled(p)
  PROVE  /\ After(p)' \subseteq After(p)
         /\ \A u \in After(p) : pc[u] # "gone" => u \in After(p)'
<1>1. CASE UNCHANGED list
  BY <1>1 DEF After, AfterIn, Closed, list
<1>2. CASE EnrollCas(t)
  <2>1. CASE Enrolls(t)
    BY <2>1, EnrolledList
  <2>2. CASE ~ Enrolls(t)
    <3>1. UNCHANGED list
      BY <1>2, <2>2, EnrollCasDoes DEF Enrolls
    <3> QED
      BY <1>1, <3>1
  <2> QED
    BY <2>1, <2>2
<1>3. CASE Unlink(t)
  BY <1>3, UnlinkedList
<1>4. CASE Shutdown(t)
  BY <1>4, ShutdownKeeps
<1> QED
  BY <1>1, <1>2, <1>3, <1>4 DEF Step, Enroll, Enter, ReadEpoch, CopyEpoch,
     CollectOnEnter, StartCollect, FirstParticipant, Look, UnlinkFails,
     LookInCritical, CompareEpochs, Advance, CollectGlobal, CollectLocal,
     UpdateLocal, Read, Update, Synchronize, Migrate, RegisterCleanup, Exit,
     Synced

(* Only Advance changes the global epoch; whoever is fresh stays fresh. *)
LEMMA EpochSteps ==
  ASSUME TypeOK, PlacesOK, EpochsOK, NEW t \in Threads, Step(t)
  PROVE  \/ /\ globalEpoch' = globalEpoch
            /\ \A u \in Threads : Fresh(u, globalEpoch) => Fresh(u, globalEpoch)'
         \/ /\ Moves(t, "advance", "collectGlobal") /\ frame[t].epoch = globalEpoch
            /\ globalEpoch' = globalEpoch + 1
<1>0. PlaceOK(t) /\ EpochOK(t)
  BY DEF PlacesOK, EpochsOK
<1>1. CASE globalEpoch' = globalEpoch
  <2>1. ASSUME NEW u \in Threads, u # t, Fresh(u, globalEpoch)
        PROVE  Fresh(u, globalEpoch)'
    <3>1. Kept(u)
      BY <2>1, OthersKept
    <3> QED
      BY <1>1, <2>1, <3>1 DEF Fresh, Kept, PinnedAt, Walking, Advancing
  <2>2. ASSUME Fresh(t, globalEpoch)
        PROVE  Fresh(t, globalEpoch)'
    <3>1. CASE Enroll(t)
      BY <1>0, <1>1, <2>2, <3>1, EnrollDoes, FrameTypes
         DEF Fresh, EpochOK, Moves, Sets, epochs, PinnedAt, Walking, Advancing
    <3>2. CASE EnrollCas(t)
      BY <1>0, <1>1, <2>2, <3>2, EnrollCasDoes, FrameTypes
         DEF Fresh, EpochOK, Moves, Sets, epochs, PinnedAt, Walking, Advancing
    <3>3. CASE Enter(t)
      BY <1>0, <1>1, <2>2, <3>3, EnterDoes, FrameTypes
         DEF Fresh, EpochOK, Moves, Sets, epochs, PinnedAt, Walking, Advancing
    <3>4. CASE ReadEpoch(t)
      BY <1>0, <1>1, <2>2, <3>4, ReadEpochDoes, FrameTypes
         DEF Fresh, EpochOK, Moves, Sets, epochs, PinnedAt, Walking, Advancing
    <3>5. CASE CopyEpoch(t)
      BY <1>0, <1>1, <2>2, <3>5, CopyEpochDoes, FrameTypes
         DEF Fresh, EpochOK, Moves, Sets, epochs, PinnedAt, Walking, Advancing
    <3>6. CASE CollectOnEnter(t)
      BY <1>0, <1>1, <2>2, <3>6, CollectOnEnterDoes, FrameTypes
         DEF Fresh, EpochOK, Moves, Sets, epochs, PinnedAt, Walking, Advancing
    <3>7. CASE StartCollect(t)
      BY <1>0, <1>1, <2>2, <3>7, StartCollectDoes, FrameTypes
         DEF Fresh, EpochOK, Moves, Sets, epochs, PinnedAt, Walking, Advancing
    <3>8. CASE FirstParticipant(t)
      BY <1>0, <1>1, <2>2, <3>8, FirstParticipantDoes, FrameTypes
         DEF Fresh, EpochOK, Moves, Sets, epochs, PinnedAt, Walking, Advancing
    <3>9. CASE Look(t)
      BY <1>0, <1>1, <2>2, <3>9, LookDoes, FrameTypes
         DEF Fresh, EpochOK, Moves, Sets, epochs, PinnedAt, Walking, Advancing
    <3>10. CASE Unlink(t)
      BY <1>0, <1>1, <2>2, <3>10, UnlinkDoes, FrameTypes
         DEF Fresh, EpochOK, Moves, Sets, epochs, PinnedAt, Walking, Advancing
    <3>11. CASE UnlinkFails(t)
      BY <1>0, <1>1, <2>2, <3>11, UnlinkFailsDoes, FrameTypes
         DEF Fresh, EpochOK, Moves, Sets, epochs, PinnedAt, Walking, Advancing
    <3>12. CASE LookInCritical(t)
      BY <1>0, <1>1, <2>2, <3>12, LookInCriticalDoes, FrameTypes
         DEF Fresh, EpochOK, Moves, Sets, epochs, PinnedAt, Walking, Advancing
    <3>13. CASE CompareEpochs(t)
      BY <1>0, <1>1, <2>2, <3>13, CompareEpochsDoes, FrameTypes
         DEF Fresh, EpochOK, Moves, Sets, epochs, PinnedAt, Walking, Advancing
    <3>14. CASE Advance(t)
      BY <1>0, <1>1, <2>2, <3>14, AdvanceDoes, FrameTypes
         DEF Fresh, EpochOK, Moves, Sets, epochs, PinnedAt, Walking, Advancing
    <3>15. CASE CollectGlobal(t)
      BY <1>0, <1>1, <2>2, <3>15, CollectGlobalDoes, FrameTypes
         DEF Fresh, EpochOK, Moves, Sets, epochs, PinnedAt, Walking, Advancing
    <3>16. CASE CollectLocal(t)
      BY <1>0, <1>1, <2>2, <3>16, CollectLocalDoes, FrameTypes
         DEF Fresh, EpochOK, Moves, Sets, epochs, PinnedAt, Walking, Advancing
    <3>17. CASE UpdateLocal(t)
      BY <1>0, <1>1, <2>2, <3>17, UpdateLocalDoes, FrameTypes
         DEF Fresh, EpochOK, Moves, Sets, epochs, PinnedAt, Walking, Advancing
    <3>18. CASE Read(t)
      BY <1>0, <1>1, <2>2, <3>18, ReadDoes, FrameTypes
         DEF Fresh, EpochOK, Moves, Sets, epochs, PinnedAt, Walking, Advancing
    <3>19. CASE Update(t)
      BY <1>0, <1>1, <2>2, <3>19, UpdateDoes, FrameTypes
         DEF Fresh, EpochOK, Moves, Sets, epochs, PinnedAt, Walking, Advancing
    <3>20. CASE Synchronize(t)
      BY <1>0, <1>1, <2>2, <3>20, SynchronizeDoes, FrameTypes
         DEF Fresh, EpochOK, Moves, Sets, epochs, PinnedAt, Walking, Advancing
    <3>21. CASE Migrate(t)
      BY <1>0, <1>1, <2>2, <3>21, MigrateDoes, FrameTypes
         DEF Fresh, EpochOK, Moves, Sets, epochs, PinnedAt, Walking, Advancing
    <3>22. CASE RegisterCleanup(t)
      BY <1>0, <1>1, <2>2, <3>22, RegisterCleanupDoes, FrameTypes
         DEF Fresh, EpochOK, Moves, Sets, epochs, PinnedAt, Walking, Advancing
    <3>23. CASE Exit(t)
      BY <1>0, <1>1, <2>2, <3>23, ExitDoes, FrameTypes
         DEF Fresh, EpochOK, Moves, Sets, epochs, PinnedAt, Walking, Advancing
    <3>24. CASE Synced(t)
      BY <1>0, <1>1, <2>2, <3>24, SyncedDoes, FrameTypes
         DEF Fresh, EpochOK, Moves, Sets, epochs, PinnedAt, Walking, Advancing
    <3>25. CASE Shutdown(t)
      BY <1>0, <1>1, <2>2, <3>25, ShutdownDoes, FrameTypes
         DEF Fresh, EpochOK, Moves, Sets, epochs, PinnedAt, Walking, Advancing
    <3> QED
      BY <3>1, <3>2, <3>3, <3>4, <3>5, <3>6, <3>7, <3>8, <3>9, <3>10, <3>11,
         <3>12, <3>13, <3>14, <3>15, <3>16, <3>17, <3>18, <3>19, <3>20, <3>21,
         <3>22, <3>23, <3>24, <3>25 DEF Step
  <2> QED
    BY <1>1, <2>1, <2>2
<1>2. CASE Advance(t)
  BY <1>1, <1>2, AdvanceDoes
<1> QED
  BY <1>1, <1>2 DEF Step, epochs, Enroll, EnrollCas, Enter, ReadEpoch,
     CopyEpoch, CollectOnEnter, StartCollect, FirstParticipant, Look, Unlink,
     UnlinkFails, LookInCritical, CompareEpochs, CollectGlobal, CollectLocal,
     UpdateLocal, Read, Update, Synchronize, Migrate, RegisterCleanup, Exit,
     Synced, Shutdown

LEMMA EpochsStep ==
  ASSUME TypeOK, PlacesOK, EpochsOK, WalkOK, NEW t \in Threads, Step(t)
  PROVE  EpochsOK'
<1>0. PlaceOK(t) /\ EpochOK(t)
  BY DEF PlacesOK, EpochsOK
<1>1. ASSUME NEW u \in Threads, u # t
      PROVE  EpochOK(u)'
  <2>1. Kept(u) /\ EpochOK(u)
    BY <1>1, OthersKept DEF EpochsOK
  <2>2. CASE globalEpoch' = globalEpoch
    BY <2>1, <2>2 DEF EpochOK, Kept, PinnedAt, Walking, Advancing
  <2>3. CASE globalEpoch' # globalEpoch
    <3>1. /\ pc[t] = "advance" /\ frame[t].epoch = globalEpoch
          /\ globalEpoch' = globalEpoch + 1
      BY <2>3, EpochSteps DEF Moves
    <3>2. Fresh(u, globalEpoch)
      BY <3>1 DEF WalkOK, Ahead, Walking
    <3>3. globalEpoch \in Nat /\ epoch[u] \in Nat /\ frame[u].epoch \in Nat
      BY FrameTypes DEF TypeOK
    <3> QED
      BY <2>1, <3>1, <3>2, <3>3 DEF EpochOK, Fresh, Kept, PinnedAt, Walking,
         Advancing
  <2> QED
    BY <2>2, <2>3
<1>2. EpochOK(t)'
  <2>0. globalEpoch \in Nat /\ epoch[t] \in Nat /\ frame[t].epoch \in Nat
    BY FrameTypes DEF TypeOK
  <2>1. CASE Enroll(t)
    BY <1>0, <2>0, <2>1, EnrollDoes
       DEF EpochOK, Moves, Sets, epochs, PinnedAt, Walking, Advancing
  <2>2. CASE EnrollCas(t)
    BY <1>0, <2>0, <2>2, EnrollCasDoes
       DEF EpochOK, Moves, Sets, epochs, PinnedAt, Walking, Advancing
  <2>3. CASE Enter(t)
    BY <1>0, <2>0, <2>3, EnterDoes
       DEF EpochOK, Moves, Sets, epochs, PinnedAt, Walking, Advancing
  <2>4. CASE ReadEpoch(t)
    BY <1>0, <2>0, <2>4, ReadEpochDoes
       DEF EpochOK, Moves, Sets, epochs, PinnedAt, Walking, Advancing
  <2>5. CASE CopyEpoch(t)
    BY <1>0, <2>0, <2>5, CopyEpochDoes
       DEF EpochOK, Moves, Sets, epochs, PinnedAt, Walking, Advancing
  <2>6. CASE CollectOnEnter(t)
    BY <1>0, <2>0, <2>6, CollectOnEnterDoes
       DEF EpochOK, Moves, Sets, epochs, PinnedAt, Walking, Advancing
  <2>7. CASE StartCollect(t)
    BY <1>0, <2>0, <2>7, StartCollectDoes
       DEF EpochOK, Moves, Sets, epochs, PinnedAt, Walking, Advancing
  <2>8. CASE FirstParticipant(t)
    BY <1>0, <2>0, <2>8, FirstParticipantDoes
       DEF EpochOK, Moves, Sets, epochs, PinnedAt, Walking, Advancing
  <2>9. CASE Look(t)
    BY <1>0, <2>0, <2>9, LookDoes
       DEF EpochOK, Moves, Sets, epochs, PinnedAt, Walking, Advancing
  <2>10. CASE Unlink(t)
    BY <1>0, <2>0, <2>10, UnlinkDoes
       DEF EpochOK, Moves, Sets, epochs, PinnedAt, Walking, Advancing
  <2>11. CASE UnlinkFails(t)
    BY <1>0, <2>0, <2>11, UnlinkFailsDoes
       DEF EpochOK, Moves, Sets, epochs, PinnedAt, Walking, Advancing
  <2>12. CASE LookInCritical(t)
    BY <1>0, <2>0, <2>12, LookInCriticalDoes
       DEF EpochOK, Moves, Sets, epochs, PinnedAt, Walking, Advancing
  <2>13. CASE CompareEpochs(t)
    BY <1>0, <2>0, <2>13, CompareEpochsDoes
       DEF EpochOK, Moves, Sets, epochs, PinnedAt, Walking, Advancing
  <2>14. CASE Advance(t)
    <3>1. globalEpoch = frame[t].epoch => epoch[t] = globalEpoch
      BY <2>14 DEF Advance, WalkOK, Ahead, Fresh, Walking, PinnedAt
    <3> QED
      BY <1>0, <2>0, <2>14, <3>1, AdvanceDoes
         DEF EpochOK, Moves, Sets, PinnedAt, Walking, Advancing
  <2>15. CASE CollectGlobal(t)
    BY <1>0, <2>0, <2>15, CollectGlobalDoes
       DEF EpochOK, Moves, Sets, epochs, PinnedAt, Walking, Advancing
  <2>16. CASE CollectLocal(t)
    BY <1>0, <2>0, <2>16, CollectLocalDoes
       DEF EpochOK, Moves, Sets, epochs, PinnedAt, Walking, Advancing
  <2>17. CASE UpdateLocal(t)
    BY <1>0, <2>0, <2>17, UpdateLocalDoes
       DEF EpochOK, Moves, Sets, epochs, PinnedAt, Walking, Advancing
  <2>18. CASE Read(t)
    BY <1>0, <2>0, <2>18, ReadDoes
       DEF EpochOK, Moves, Sets, epochs, PinnedAt, Walking, Advancing
  <2>19. CASE Update(t)
    BY <1>0, <2>0, <2>19, UpdateDoes
       DEF EpochOK, Moves, Sets, epochs, PinnedAt, Walking, Advancing
  <2>20. CASE Synchronize(t)
    BY <1>0, <2>0, <2>20, SynchronizeDoes
       DEF EpochOK, Moves, Sets, epochs, PinnedAt, Walking, Advancing
  <2>21. CASE Migrate(t)
    BY <1>0, <2>0, <2>21, MigrateDoes
       DEF EpochOK, Moves, Sets, epochs, PinnedAt, Walking, Advancing
  <2>22. CASE RegisterCleanup(t)
    BY <1>0, <2>0, <2>22, RegisterCleanupDoes
       DEF EpochOK, Moves, Sets, epochs, PinnedAt, Walking, Advancing
  <2>23. CASE Exit(t)
    BY <1>0, <2>0, <2>23, ExitDoes
       DEF EpochOK, Moves, Sets, epochs, PinnedAt, Walking, Advancing
  <2>24. CASE Synced(t)
    BY <1>0, <2>0, <2>24, SyncedDoes
       DEF EpochOK, Moves, Sets, epochs, PinnedAt, Walking, Advancing
  <2>25. CASE Shutdown(t)
    BY <1>0, <2>0, <2>25, ShutdownDoes
       DEF EpochOK, Moves, Sets, epochs, PinnedAt, Walking, Advancing
  <2> QED
    BY <2>1, <2>2, <2>3, <2>4, <2>5, <2>6, <2>7, <2>8, <2>9, <2>10, <2>11,
       <2>12, <2>13, <2>14, <2>15, <2>16, <2>17, <2>18, <2>19, <2>20, <2>21,
       <2>22, <2>23, <2>24, <2>25 DEF Step
<1> QED
  BY <1>1, <1>2 DEF EpochsOK

(* A thread that is not fresh is pinned, or about to be, in an older epoch. *)
LEMMA NotFresh ==
  ASSUME TypeOK, PlacesOK, ListOK, EpochsOK, NEW u \in Threads,
         ~ Fresh(u, globalEpoch)
  PROVE  /\ pc[u] # "gone" /\ u \in After(participants)
         /\ inCritical[u] > 0 /\ epoch[u] # globalEpoch
<1>1. pc[u] \in {"copyEpoch"} \cup PinnedAt
  BY DEF Fresh
<1>2. pc[u] # "gone" /\ Enrolled(u) /\ inCritical[u] = 1
  BY <1>1 DEF PlacesOK, PlaceOK, Enrolled, Copying, PinnedAt, Walking, Advancing
<1>3. epoch[u] # globalEpoch
  <2>1. globalEpoch \in Nat /\ epoch[u] \in Nat /\ frame[u].epoch \in Nat
    BY FrameTypes DEF TypeOK
  <2> QED
    BY <2>1 DEF Fresh, EpochsOK, EpochOK
<1> QED
  BY <1>2, <1>3 DEF ListOK, NodeOK

LEMMA WalkStep ==
  ASSUME TypeOK, PlacesOK, ListOK, OnePredecessor, EpochsOK, WalkOK,
         NEW s \in Threads, Step(s)
  PROVE  WalkOK'
<1> SUFFICES ASSUME NEW t \in Threads, NEW u \in Threads,
                    pc'[t] \in Walking, frame'[t].epoch = globalEpoch',
                    ~ Fresh(u, globalEpoch)'
             PROVE  Ahead(t, u)'
  BY DEF WalkOK, Walking
<1>0. /\ PlaceOK(t) /\ EpochOK(t) /\ NodeOK(t) /\ globalEpoch \in Nat
      /\ frame[t].epoch \in Nat /\ frame[t].cur \in Pointers /\ frame[t].next \in Pointers
      /\ participants \in Pointers /\ IsEnrolled(participants) /\ IsEnrolled(NoThread)
  BY FrameTypes DEF TypeOK, PlacesOK, ListOK, EpochsOK, IsEnrolled
<1>1. globalEpoch' = globalEpoch /\ ~ Fresh(u, globalEpoch)
  <2>1. CASE globalEpoch' = globalEpoch
    BY <1>0, <2>1, EpochSteps
  <2>2. CASE globalEpoch' # globalEpoch
    <3>1. /\ globalEpoch' = globalEpoch + 1 /\ pc'[s] = "collectGlobal"
      BY <2>2, EpochSteps DEF Moves
    <3>2. t # s
      BY <3>1 DEF Walking
    <3>3. frame'[t] = frame[t]
      BY <3>2, OthersKept DEF Kept
    <3> QED
      BY <1>0, <3>1, <3>3 DEF EpochOK
  <2> QED
    BY <2>1, <2>2
<1>2. /\ pc[u] # "gone" /\ u \in After(participants)
      /\ inCritical[u] > 0 /\ epoch[u] # globalEpoch
  BY <1>1, NotFresh
<1>3. \A p \in Pointers : IsEnrolled(p) /\ u \in AfterIn(next, p) => u \in AfterIn(next', p)
  BY <1>2, AfterStep DEF After
<1>4. CASE t # s
  <2>1. pc'[t] = pc[t] /\ frame'[t] = frame[t]
    BY <1>4, OthersKept DEF Kept
  <2>2. Ahead(t, u)
    BY <1>1, <2>1 DEF WalkOK, Walking
  <2> QED
    BY <1>0, <1>3, <2>1, <2>2 DEF Ahead, After, NodeOK
<1>5. CASE t = s
  <2>0. u \notin AfterIn(next, NoThread)
    BY AfterNone
  <2>1. CASE StartCollect(t)
    BY <2>1, StartCollectDoes DEF Ahead, Moves
  <2>2. CASE FirstParticipant(t)
    BY <1>0, <1>2, <1>3, <2>0, <2>2, FirstParticipantDoes DEF Ahead, Moves,
       Sets, After
  <2>3. CASE Look(t)
    <3>1. Ahead(t, u) /\ frame[t].cur \in Threads
      BY <1>0, <1>1, <1>5, <2>3, LookDoes DEF WalkOK, Walking, Moves, Sets
    <3>2. u \in AfterIn(next, frame[t].cur)
      BY <2>3, <3>1 DEF Ahead, After, Look
    <3>3. u = frame[t].cur \/ u \in AfterIn(next, next[frame[t].cur].to)
      BY <3>1, <3>2, AfterNext
    <3>4. next[frame[t].cur].tag = 1 => u # frame[t].cur
      BY <1>2 DEF ListOK, NodeOK
    <3>5. UNCHANGED next
      BY <1>0, <2>3, LookDoes DEF list
    <3> QED
      BY <1>0, <2>3, <3>3, <3>4, <3>5, LookDoes DEF Ahead, Moves, Sets, After
  <2>4. CASE Unlink(t)
    <3>1. Ahead(t, u)
      BY <1>0, <1>1, <1>5, <2>4, UnlinkDoes DEF WalkOK, Walking, Moves, Sets, epochs
    <3> QED
      BY <1>0, <1>3, <2>0, <2>4, <3>1, UnlinkDoes DEF Ahead, Moves, Sets,
         After, NodeOK
  <2>5. CASE UnlinkFails(t)
    BY <2>5, UnlinkFailsDoes DEF Ahead, Moves
  <2>6. CASE LookInCritical(t)
    <3>1. Ahead(t, u)
      BY <1>0, <1>1, <1>5, <2>6, LookInCriticalDoes DEF WalkOK, Walking, Moves,
         Sets, LookInCritical
    <3> QED
      BY <1>0, <1>2, <1>3, <2>0, <2>6, <3>1, LookInCriticalDoes DEF Ahead,
         Moves, Sets, After, NodeOK
  <2>7. CASE CompareEpochs(t)
    <3>1. /\ Moves(t, "compare", IF frame[t].next = NoThread THEN "advance" ELSE "look")
          /\ epoch[frame[t].cur] = frame[t].epoch /\ frame'[t].epoch = frame[t].epoch
          /\ frame'[t].cur = frame[t].next /\ frame'[t].next = frame[t].next
      BY <1>0, <2>7, CompareEpochsDoes DEF Moves, Sets, Walking
    <3>2. Ahead(t, u) /\ u # frame[t].cur
      BY <1>1, <1>2, <3>1 DEF WalkOK, Walking, Moves
    <3> QED
      BY <1>0, <1>3, <2>0, <3>1, <3>2 DEF Ahead, Moves, After, NodeOK
  <2>8. CASE Enroll(t)
    BY <1>0, <2>8, EnrollDoes DEF Moves, Walking
  <2>9. CASE EnrollCas(t)
    BY <1>0, <2>9, EnrollCasDoes DEF Moves, Walking
  <2>10. CASE Enter(t)
    BY <1>0, <2>10, EnterDoes DEF Moves, Walking
  <2>11. CASE ReadEpoch(t)
    BY <1>0, <2>11, ReadEpochDoes DEF Moves, Walking
  <2>12. CASE CopyEpoch(t)
    BY <1>0, <2>12, CopyEpochDoes DEF Moves, Walking
  <2>13. CASE CollectOnEnter(t)
    BY <1>0, <2>13, CollectOnEnterDoes DEF Moves, Walking
  <2>14. CASE Advance(t)
    BY <1>0, <2>14, AdvanceDoes DEF Moves, Walking
  <2>15. CASE CollectGlobal(t)
    BY <1>0, <2>15, CollectGlobalDoes DEF Moves, Walking
  <2>16. CASE CollectLocal(t)
    BY <1>0, <2>16, CollectLocalDoes DEF Moves, Walking
  <2>17. CASE UpdateLocal(t)
    BY <1>0, <2>17, UpdateLocalDoes DEF Moves, Walking
  <2>18. CASE Read(t)
    BY <1>0, <2>18, ReadDoes DEF Moves, Walking
  <2>19. CASE Update(t)
    BY <1>0, <2>19, UpdateDoes DEF Moves, Walking
  <2>20. CASE Synchronize(t)
    BY <1>0, <2>20, SynchronizeDoes DEF Moves, Walking
  <2>21. CASE Migrate(t)
    BY <1>0, <2>21, MigrateDoes DEF Moves, Walking
  <2>22. CASE RegisterCleanup(t)
    BY <1>0, <2>22, RegisterCleanupDoes DEF Moves, Walking
  <2>23. CASE Exit(t)
    BY <1>0, <2>23, ExitDoes DEF Moves, Walking
  <2>24. CASE Synced(t)
    BY <1>0, <2>24, SyncedDoes DEF Moves, Walking
  <2>25. CASE Shutdown(t)
    BY <1>0, <2>25, ShutdownDoes DEF Moves, Walking
  <2> QED
    BY <1>5, <2>1, <2>2, <2>3, <2>4, <2>5, <2>6, <2>7, <2>8, <2>9, <2>10,
       <2>11, <2>12, <2>13, <2>14, <2>15, <2>16, <2>17, <2>18, <2>19, <2>20,
       <2>21, <2>22, <2>23, <2>24, <2>25 DEF Step
<1> QED
  BY <1>4, <1>5

-----------------------------------------------------------------------------
(***************************************************************************)
(* TrashOK and OnceOK.  What is garbage is so for ever, and at one place.  *)
(***************************************************************************)
LEMMA InTrash ==
  ASSUME NEW x
  PROVE  /\ x \in Bagged <=> \E n \in 0 .. 2 : x \in bags[n]
         /\ x \in Bagged' <=> \E n \in 0 .. 2 : x \in bags'[n]
         /\ x \in Locals <=> \E u \in Threads : x \in Local(u)
         /\ x \in Locals' <=> \E u \in Threads : x \in Local(u)'
         /\ x \in Trash <=> x \in freed \/ x \in Bagged \/ x \in Locals
         /\ x \in Trash' <=> x \in freed' \/ x \in Bagged' \/ x \in Locals'
  BY DEF Trash, Bagged, Locals

(* The garbage of thread t becomes one epoch older. *)
Ages(t) == /\ freed' = freed \cup garbage[t].old
           /\ Others(garbage, garbage', t)
           /\ garbage'[t].old = garbage[t].cur /\ garbage'[t].cur = garbage[t].new
           /\ garbage'[t].new = {} /\ UNCHANGED bags

(* x becomes garbage of thread t. *)
Adds(t, x) == /\ Others(garbage, garbage', t)
              /\ garbage'[t].new = garbage[t].new \cup {x}
              /\ garbage'[t].cur = garbage[t].cur /\ garbage'[t].old = garbage[t].old
              /\ UNCHANGED <<bags, freed>>

(* The garbage of all threads that was in bag n is deleted. *)
Empties(n) == /\ n \in 0 .. 2 /\ freed' = freed \cup bags[n]
              /\ bags' = [bags EXCEPT ![n] = {}] /\ UNCHANGED garbage

(* The garbage of thread t moves to bag n. *)
MovesTo(t, n) == /\ n \in 0 .. 2 /\ bags' = [bags EXCEPT ![n] = @ \cup Local(t)]
                 /\ garbage'[t] = NoGarbage /\ Others(garbage, garbage', t)
                 /\ UNCHANGED freed

(* What a step does to the garbage. *)
LEMMA RubbishStep ==
  ASSUME TypeOK, PlacesOK, ListOK, OnePredecessor, NEW t \in Threads, Step(t)
  PROVE  \/ rubbish' = rubbish /\ object' = object
         \/ /\ Ages(t) /\ object' = object
            /\ Moves(t, "collect", "body") \/ Moves(t, "collectLocal", "update")
            /\ UNCHANGED <<epochs, frame>>
         \/ /\ Adds(t, object) /\ object' = object + 1 /\ pc[t] = "body"
            /\ pc'[t] = "exit" /\ UNCHANGED epochs
         \/ /\ Unlink(t) /\ Adds(t, frame[t].cur) /\ object' = object
            /\ frame[t].cur \in Threads /\ pc[t] = "unlink"
            /\ pc'[t] \in {"advance", "look"} /\ UNCHANGED epochs
         \/ /\ Empties((frame[t].epoch + 2) % 3) /\ object' = object
            /\ Moves(t, "collectGlobal", "collectLocal") /\ UNCHANGED <<epochs, frame>>
         \/ /\ MovesTo(t, frame[t].epoch % 3) /\ object' = object
            /\ Moves(t, "migrate", "exit") /\ UNCHANGED <<epochs, frame>>
<1>0. PlaceOK(t)
  BY DEF PlacesOK
<1>1. CASE CollectOnEnter(t)
  BY <1>1, CollectOnEnterDoes DEF Ages, client
<1>2. CASE CollectLocal(t)
  BY <1>2, CollectLocalDoes DEF Ages, client
<1>3. CASE Update(t)
  BY <1>3, UpdateDoes DEF Adds, Moves
<1>4. CASE Unlink(t)
  BY <1>0, <1>4, UnlinkDoes DEF Adds, Moves, client
<1>5. CASE CollectGlobal(t)
  BY <1>5, CollectGlobalDoes DEF Empties, client
<1>6. CASE RegisterCleanup(t)
  BY <1>6, RegisterCleanupDoes DEF MovesTo, client
<1>7. CASE rubbish' = rubbish /\ object' = object
  BY <1>7
<1> QED
  BY <1>1, <1>2, <1>3, <1>4, <1>5, <1>6, <1>7
     DEF Step, Enroll, EnrollCas, Enter, ReadEpoch, CopyEpoch, StartCollect,
         FirstParticipant, Look, UnlinkFails, LookInCritical, CompareEpochs,
         Advance, UpdateLocal, Read, Synchronize, Migrate, Exit, Synced,
         Shutdown, client

LEMMA LocalIs ==
  ASSUME NEW x
  PROVE  /\ \A u \in Threads : x \in Local(u) <=>
              \/ x \in garbage[u].old \/ x \in garbage[u].cur \/ x \in garbage[u].new
         /\ \A u \in Threads : x \in Local(u)' <=>
              \/ x \in garbage'[u].old \/ x \in garbage'[u].cur \/ x \in garbage'[u].new
  BY DEF Local

(* Nothing leaves the garbage, and what is new in it is one thing. *)
LEMMA TrashStep ==
  ASSUME TypeOK, PlacesOK, ListOK, OnePredecessor, NEW t \in Threads, Step(t), NEW x
  PROVE  /\ x \in Trash => x \in Trash'
         /\ x \in Trash' => \/ x \in Trash
                            \/ x = object /\ object' = object + 1
                            \/ x = frame[t].cur /\ Unlink(t) /\ object' = object
         /\ object' = object + 1 /\ x = object => x \in Trash'
         /\ object' = object \/ object' = object + 1
<1>3. object \in Nat /\ object # object + 1
  BY DEF TypeOK
<1>4. CASE rubbish' = rubbish /\ object' = object
  <2>1. Trash' = Trash
    BY <1>4 DEF Trash, Bagged, Locals, Local, rubbish
  <2> QED
    BY <1>3, <1>4, <2>1
<1>5. CASE Ages(t) /\ object' = object
  BY <1>3, <1>5, LocalIs, InTrash DEF Ages, Others
<1>6. CASE Adds(t, object) /\ object' = object + 1
  BY <1>3, <1>6, LocalIs, InTrash DEF Adds, Others
<1>7. CASE Unlink(t) /\ Adds(t, frame[t].cur) /\ object' = object
  BY <1>3, <1>7, LocalIs, InTrash DEF Adds, Others
<1>8. CASE Empties((frame[t].epoch + 2) % 3) /\ object' = object
  BY <1>3, <1>8, LocalIs, InTrash DEF Empties, TypeOK
<1>9. CASE MovesTo(t, frame[t].epoch % 3) /\ object' = object
  <2> DEFINE n == frame[t].epoch % 3
  <2>1. /\ \A m \in 0 .. 2 : bags'[m] = IF m = n THEN bags[m] \cup Local(t) ELSE bags[m]
        /\ n \in 0 .. 2 /\ freed' = freed
    BY <1>9 DEF MovesTo, TypeOK
  <2>2. x \notin Local(t)' /\ \A u \in Threads \ {t} : x \in Local(u)' <=> x \in Local(u)
    BY <1>9, LocalIs DEF MovesTo, NoGarbage, Others
  <2> HIDE DEF n
  <2>3. x \in Trash' <=> x \in Trash
    BY <2>1, <2>2, InTrash
  <2> QED
    BY <1>3, <1>9, <2>3
<1> QED
  BY <1>4, <1>5, <1>6, <1>7, <1>8, <1>9, RubbishStep

(* Whoever is gone and out of the list stays so. *)
LEMMA GoneStep ==
  ASSUME TypeOK, PlacesOK, ListOK, OnePredecessor, NEW t \in Threads, Step(t),
         NEW u \in Threads, pc[u] = "gone", u \notin After(participants)
  PROVE  pc'[u] = "gone" /\ u \notin After(participants)'
<1>1. pc[t] # "gone"
  BY DEF Step, Enroll, EnrollCas, Enter, ReadEpoch, CopyEpoch, CollectOnEnter,
     StartCollect, FirstParticipant, Look, Unlink, UnlinkFails, LookInCritical,
     CompareEpochs, Advance, CollectGlobal, CollectLocal, UpdateLocal, Read,
     Update, Synchronize, Migrate, RegisterCleanup, Exit, Synced, Shutdown
<1>2. u # t /\ pc'[u] = "gone"
  BY <1>1, OthersKept DEF Kept
<1>3. CASE participants' = participants
  <2>1. participants \in Pointers /\ IsEnrolled(participants)
    BY LinkTypes DEF ListOK
  <2>2. AfterIn(next', participants) \subseteq AfterIn(next, participants)
    BY <2>1, AfterStep DEF After
  <2> QED
    BY <1>2, <1>3, <2>2 DEF After
<1>4. CASE EnrollCas(t) /\ participants' # participants
  <2>1. Enrolls(t)
    BY <1>4, EnrollCasDoes DEF Enrolls, list
  <2> QED
    BY <1>2, <2>1, EnrolledList
<1>5. CASE Unlink(t)
  BY <1>2, <1>5, UnlinkedList
<1> QED
  BY <1>2, <1>3, <1>4, <1>5 DEF Step, list, Enroll, Enter, ReadEpoch,
     CopyEpoch, CollectOnEnter, StartCollect, FirstParticipant, Look,
     UnlinkFails, LookInCritical, CompareEpochs, Advance, CollectGlobal,
     CollectLocal, UpdateLocal, Read, Update, Synchronize, Migrate,
     RegisterCleanup, Exit, Synced, Shutdown

LEMMA TrashOKStep ==
  ASSUME TypeOK, PlacesOK, ListOK, OnePredecessor, TrashOK, NEW t \in Threads, Step(t)
  PROVE  TrashOK'
<1>0. object \in Nat
  BY DEF TypeOK
<1>1. ASSUME NEW u \in Threads, u \in Trash'
      PROVE  pc'[u] = "gone" /\ u \notin After(participants)'
  <2>1. u # object
    BY <1>0, PointersAssumption
  <2>2. CASE u \in Trash
    BY <2>2, GoneStep DEF TrashOK
  <2>3. CASE u \notin Trash
    <3>1. Unlink(t) /\ u = frame[t].cur
      BY <1>1, <2>1, <2>3, TrashStep
    <3>2. pc[u] = "gone" /\ u \notin After(participants)'
      BY <3>1, UnlinkedList
    <3>3. pc'[u] = pc[u]
      BY <3>1, <3>2, OthersKept DEF Kept, Unlink
    <3> QED
      BY <3>2, <3>3
  <2> QED
    BY <2>2, <2>3
<1>2. ASSUME NEW n \in Nat, n \in Trash'
      PROVE  n < object'
  <2>1. CASE n \in Trash
    <3>1. n < object
      BY <2>1 DEF TrashOK
    <3> QED
      BY <1>0, <3>1, TrashStep
  <2>2. CASE n \notin Trash
    <3>1. Unlink(t) => frame[t].cur \in Threads
      BY UnlinkDoes DEF PlacesOK
    <3>2. n = object /\ object' = object + 1
      BY <1>2, <2>2, <3>1, TrashStep, PointersAssumption
    <3> QED
      BY <1>0, <3>2
  <2> QED
    BY <2>1, <2>2
<1> QED
  BY <1>1, <1>2 DEF TrashOK

LEMMA OnceEverywhere ==
  ASSUME OnceOK, NEW x
  PROVE  OnceAt(x)
<1>1. CASE x \in Trash
  BY <1>1 DEF OnceOK
<1>2. CASE x \notin Trash
  BY <1>2, InTrash DEF OnceAt
<1> QED
  BY <1>1, <1>2

LEMMA OnceStep ==
  ASSUME TypeOK, PlacesOK, ListOK, OnePredecessor, TrashOK, OnceOK,
         NEW t \in Threads, Step(t)
  PROVE  OnceOK'
<1>1. ASSUME NEW x
      PROVE  OnceAt(x)'
  <2>1. OnceAt(x)
    BY OnceEverywhere
  <2>2. CASE rubbish' = rubbish
    BY <2>1, <2>2 DEF OnceAt, Local, rubbish
  <2>3. CASE Ages(t)
    BY <2>1, <2>3, LocalIs DEF OnceAt, Ages, Others
  <2>4. ASSUME NEW y, y \notin Trash, Adds(t, y)
        PROVE  OnceAt(x)'
    <3>1. \A u \in Threads : y \notin Local(u)
      BY <2>4, InTrash
    <3>2. y \notin freed /\ \A n \in 0 .. 2 : y \notin bags[n]
      BY <2>4, InTrash
    <3> QED
      BY <2>1, <2>4, <3>1, <3>2, LocalIs DEF OnceAt, Adds, Others
  <2>5. ASSUME NEW n, Empties(n)
        PROVE  OnceAt(x)'
    <3>1. /\ n \in 0 .. 2 /\ freed' = freed \cup bags[n] /\ garbage' = garbage
          /\ \A m \in 0 .. 2 : bags'[m] = IF m = n THEN {} ELSE bags[m]
      BY <2>5 DEF Empties, TypeOK
    <3>2. \A u \in Threads : Local(u)' = Local(u)
      BY <3>1 DEF Local
    <3> QED
      BY <2>1, <3>1, <3>2 DEF OnceAt
  <2>6. ASSUME NEW n, MovesTo(t, n)
        PROVE  OnceAt(x)'
    <3>1. /\ n \in 0 .. 2 /\ freed' = freed
          /\ \A m \in 0 .. 2 : bags'[m] = IF m = n THEN bags[m] \cup Local(t) ELSE bags[m]
          /\ \A u \in Threads \ {t} : garbage'[u] = garbage[u]
          /\ garbage'[t] = NoGarbage
      BY <2>6 DEF MovesTo, Others, TypeOK
    <3>2. x \notin Local(t)' /\ \A u \in Threads \ {t} : Local(u)' = Local(u)
      BY <3>1 DEF Local, NoGarbage
    <3> QED
      BY <2>1, <3>1, <3>2 DEF OnceAt
  <2>7. object \notin Trash
    BY DEF TypeOK, TrashOK
  <2>8. Unlink(t) => frame[t].cur \notin Trash
    BY UnlinkedList, UnlinkDoes DEF TrashOK, PlacesOK
  <2> QED
    BY <2>2, <2>3, <2>4, <2>5, <2>6, <2>7, <2>8, RubbishStep
<1>2. ASSUME NEW n \in 0 .. object' - 1
      PROVE  n \in Trash'
  <2>1. object \in Nat /\ (object' = object \/ object' = object + 1)
    BY TrashStep DEF TypeOK
  <2>2. n \in 0 .. object - 1 \/ (n = object /\ object' = object + 1)
    BY <2>1
  <2> QED
    BY <2>2, TrashStep DEF OnceOK
<1> QED
  BY <1>1, <1>2 DEF OnceOK

(* What a thread can reach after a step it could reach before, or it is    *)
(* not garbage.                                                            *)
LEMMA ReachedStep ==
  ASSUME TypeOK, PlacesOK, ListOK, OnePredecessor, TrashOK, NEW s \in Threads, Step(s),
         NEW t \in Threads, NEW x, x \in Reached(t)'
  PROVE  /\ pc'[t] \in Walking \cup {"exit"}
         /\ \/ x \in Reached(t) /\ pc[t] \in PinnedAt /\ epoch'[t] = epoch[t]
            \/ x \notin Trash /\ rubbish' = rubbish
<1>0. /\ PlaceOK(t) /\ NodeOK(t) /\ PlaceOK(t)' /\ participants \in Pointers
      /\ frame[t].prev \in Pointers /\ frame[t].cur \in Pointers
      /\ frame[t].next \in Pointers /\ object \in Nat
  BY PlacesStep, LinkTypes, FrameTypes DEF PlacesOK, ListOK, TypeOK
<1>1. pc'[t] \in Walking \cup {"exit"}
  BY <1>0 DEF Reached, PlaceOK, Walking
<1>2. x \in Reached(t) => pc[t] \in Walking \cup {"exit"}
  BY <1>0 DEF Reached, PlaceOK, Walking
<1>3. \A p \in Pointers : /\ IsEnrolled(p) => AfterIn(next', p) \subseteq AfterIn(next, p)
                          /\ IsEnrolled(p) <=> p = NoThread \/ Enrolled(p)
  BY AfterStep DEF After, IsEnrolled
<1>4. /\ AfterIn(next', frame[t].prev) \subseteq AfterIn(next, frame[t].prev)
      /\ AfterIn(next', frame[t].cur) \subseteq AfterIn(next, frame[t].cur)
      /\ AfterIn(next', frame[t].next) \subseteq AfterIn(next, frame[t].next)
  BY <1>0, <1>3 DEF NodeOK
<1>5. CASE t # s
  <2>1. pc'[t] = pc[t] /\ frame'[t] = frame[t] /\ held'[t] = held[t] /\ epoch'[t] = epoch[t]
    BY <1>5, OthersKept DEF Kept
  <2>2. x \in Reached(t)
    BY <1>4, <2>1 DEF Reached, After, Walking
  <2> QED
    BY <1>1, <1>2, <2>1, <2>2 DEF PinnedAt
<1>6. CASE t = s
  <2>0. AfterIn(next', NoThread) = {}
    BY AfterNone
  <2>1. CASE pc'[t] \notin Walking
    <3>1. x \in held'[t]
      BY <2>1 DEF Reached, Walking
    <3>2. Read(t)
      <4>1. held' = held \/ Read(t) \/ Exit(t)
        BY <1>6 DEF Step, client, Enroll, EnrollCas, Enter, ReadEpoch,
           CopyEpoch, CollectOnEnter, StartCollect, FirstParticipant, Look,
           Unlink, UnlinkFails, LookInCritical, CompareEpochs, Advance,
           CollectGlobal, CollectLocal, UpdateLocal, Read, Update, Synchronize,
           Migrate, RegisterCleanup, Exit, Synced, Shutdown
      <4>2. pc[t] = "exit" => Exit(t)
        BY <1>6 DEF Step, Enroll, EnrollCas, Enter, ReadEpoch, CopyEpoch,
           CollectOnEnter, StartCollect, FirstParticipant, Look, Unlink,
           UnlinkFails, LookInCritical, CompareEpochs, Advance, CollectGlobal,
           CollectLocal, UpdateLocal, Read, Update, Synchronize, Migrate,
           RegisterCleanup, Exit, Synced, Shutdown
      <4>3. ~ Exit(t)
        BY <1>0, <3>1, ExitDoes
      <4> QED
        BY <1>0, <3>1, <4>1, <4>2, <4>3 DEF PlaceOK
    <3>3. x = object /\ rubbish' = rubbish
      BY <3>1, <3>2, ReadDoes
    <3> QED
      BY <1>0, <1>1, <3>3 DEF TrashOK
  <2>2. CASE pc'[t] \in Walking
    <3>0. x \in AfterIn(next', frame'[t].prev) \cup AfterIn(next', frame'[t].cur)
                  \cup AfterIn(next', frame'[t].next)
      BY <2>2 DEF Reached, After, Walking
    <3>a. ASSUME x \in AfterIn(next, frame[t].prev) \cup AfterIn(next, frame[t].cur)
                         \cup AfterIn(next, frame[t].next),
                 pc[t] \in Walking, epoch' = epoch
          PROVE  x \in Reached(t) /\ pc[t] \in PinnedAt /\ epoch'[t] = epoch[t]
      BY <3>a DEF Reached, After, PinnedAt
    <3>1. CASE StartCollect(t)
      BY <1>0, <2>0, <3>0, <3>1, StartCollectDoes DEF PlaceOK, Moves, Sets, Walking
    <3>2. CASE FirstParticipant(t)
      <4>1. /\ frame'[t].prev = NoThread /\ frame'[t].cur = participants
            /\ frame'[t].next = frame[t].next /\ pc[t] = "first" /\ UNCHANGED <<list, epochs, rubbish>>
        BY <3>2, FirstParticipantDoes DEF Moves, Sets
      <4>2. CASE x \in AfterIn(next', participants)
        <5>1. x \in After(participants) /\ x \in Threads
          BY <4>1, <4>2, AfterType DEF After, list
        <5> QED
          BY <1>1, <4>1, <5>1 DEF TrashOK
      <4>3. CASE x \notin AfterIn(next', participants)
        BY <1>1, <1>4, <2>0, <3>0, <3>a, <4>1, <4>3 DEF epochs, Walking
      <4> QED
        BY <4>2, <4>3
    <3>3. CASE Look(t)
      <4>1. /\ frame'[t].prev = frame[t].prev /\ frame'[t].cur = frame[t].cur
            /\ frame'[t].next = next[frame[t].cur].to /\ frame[t].cur \in Threads
            /\ pc[t] = "look" /\ UNCHANGED <<list, epochs, rubbish>>
        BY <1>0, <3>3, LookDoes DEF Moves, Sets
      <4>2. AfterIn(next', frame'[t].next) \subseteq AfterIn(next, frame[t].cur)
        BY <4>1, NextAfter DEF list
      <4> QED
        BY <1>1, <1>4, <3>0, <3>a, <4>1, <4>2 DEF epochs, Walking
    <3>4. CASE Unlink(t)
      <4>1. /\ frame'[t].prev = frame[t].prev /\ frame'[t].cur = frame[t].next
            /\ frame'[t].next = frame[t].next /\ pc[t] = "unlink" /\ epoch' = epoch
        BY <1>0, <3>4, UnlinkDoes DEF Moves, Sets, epochs
      <4> QED
        BY <1>1, <1>4, <3>0, <3>a, <4>1 DEF Walking
    <3>5. CASE UnlinkFails(t)
      BY <1>1, <1>4, <3>0, <3>a, <3>5, UnlinkFailsDoes DEF Moves, epochs, Walking
    <3>6. CASE LookInCritical(t) \/ CompareEpochs(t)
      <4>1. /\ pc[t] \in {"inCritical", "compare"} /\ epoch' = epoch
            /\ \/ frame' = frame
               \/ /\ frame'[t].prev = frame[t].cur /\ frame'[t].cur = frame[t].next
                  /\ frame'[t].next = frame[t].next
        BY <1>0, <2>2, <3>6, LookInCriticalDoes, CompareEpochsDoes
           DEF Moves, Sets, epochs, Walking
      <4> QED
        BY <1>1, <1>4, <3>0, <3>a, <4>1 DEF Walking
    <3>7. \/ StartCollect(t) \/ FirstParticipant(t) \/ Look(t) \/ Unlink(t)
          \/ UnlinkFails(t) \/ LookInCritical(t) \/ CompareEpochs(t)
      <4>1. CASE Enroll(t)
        BY <1>0, <2>2, <4>1, EnrollDoes DEF Moves, Walking
      <4>2. CASE EnrollCas(t)
        BY <1>0, <2>2, <4>2, EnrollCasDoes DEF Moves, Walking
      <4>3. CASE Enter(t)
        BY <1>0, <2>2, <4>3, EnterDoes DEF Moves, Walking
      <4>4. CASE ReadEpoch(t)
        BY <1>0, <2>2, <4>4, ReadEpochDoes DEF Moves, Walking
      <4>5. CASE CopyEpoch(t)
        BY <1>0, <2>2, <4>5, CopyEpochDoes DEF Moves, Walking
      <4>6. CASE CollectOnEnter(t)
        BY <1>0, <2>2, <4>6, CollectOnEnterDoes DEF Moves, Walking
      <4>7. CASE Advance(t)
        BY <1>0, <2>2, <4>7, AdvanceDoes DEF Moves, Walking
      <4>8. CASE CollectGlobal(t)
        BY <1>0, <2>2, <4>8, CollectGlobalDoes DEF Moves, Walking
      <4>9. CASE CollectLocal(t)
        BY <1>0, <2>2, <4>9, CollectLocalDoes DEF Moves, Walking
      <4>10. CASE UpdateLocal(t)
        BY <1>0, <2>2, <4>10, UpdateLocalDoes DEF Moves, Walking
      <4>11. CASE Read(t)
        BY <1>0, <2>2, <4>11, ReadDoes DEF Moves, Walking
      <4>12. CASE Update(t)
        BY <1>0, <2>2, <4>12, UpdateDoes DEF Moves, Walking
      <4>13. CASE Synchronize(t)
        BY <1>0, <2>2, <4>13, SynchronizeDoes DEF Moves, Walking
      <4>14. CASE Migrate(t)
        BY <1>0, <2>2, <4>14, MigrateDoes DEF Moves, Walking
      <4>15. CASE RegisterCleanup(t)
        BY <1>0, <2>2, <4>15, RegisterCleanupDoes DEF Moves, Walking
      <4>16. CASE Exit(t)
        BY <1>0, <2>2, <4>16, ExitDoes DEF Moves, Walking
      <4>17. CASE Synced(t)
        BY <1>0, <2>2, <4>17, SyncedDoes DEF Moves, Walking
      <4>18. CASE Shutdown(t)
        BY <1>0, <2>2, <4>18, ShutdownDoes DEF Moves, Walking
      <4> QED
        BY <1>6, <4>1, <4>2, <4>3, <4>4, <4>5, <4>6, <4>7, <4>8, <4>9, <4>10,
           <4>11, <4>12, <4>13, <4>14, <4>15, <4>16, <4>17, <4>18 DEF Step
    <3> QED
      BY <1>1, <3>1, <3>2, <3>3, <3>4, <3>5, <3>6, <3>7
  <2> QED
    BY <2>1, <2>2
<1> QED
  BY <1>5, <1>6

-----------------------------------------------------------------------------
(***************************************************************************)
(* ReachedOK.  The age of what a thread can reach.                         *)
(***************************************************************************)
(* The bags of three epochs in a row are different. *)
LEMMA BagNumbers ==
  ASSUME NEW g \in Nat, NEW d \in 0 .. 2
  PROVE  /\ (g + 3 - d) % 3 \in 0 .. 2
         /\ (g + 3 - d) % 3 = g % 3 => d = 0
         /\ \A f \in Nat : g = f + 1 => /\ (g + 3 - d) % 3 = f % 3 => d = 1
                                        /\ (g + 3 - 2) % 3 = (f + 2) % 3
         /\ d # 0 => (g + 1 + 3 - d) % 3 = (g + 3 - (d - 1)) % 3
         /\ (g + 1 + 3 - 0) % 3 = (g + 3 - 2) % 3
  OBVIOUS

(* The epoch of a thread grows when its garbage is said to age with it. *)
LEMMA EpochGrows ==
  ASSUME TypeOK, PlacesOK, EpochsOK, NEW t \in Threads, Step(t)
  PROVE  /\ epoch[t] + (IF pc[t] = "update" THEN 1 ELSE 0)
                     + (IF pc'[t] = "collect" THEN 1 ELSE 0)
              <= epoch'[t] + (IF pc'[t] = "update" THEN 1 ELSE 0)
                           + (IF pc[t] = "collect" THEN 1 ELSE 0)
         /\ pc'[t] = "migrate" => frame'[t].epoch = globalEpoch
<1>0. PlaceOK(t) /\ EpochOK(t) /\ epoch[t] \in Nat /\ frame[t].epoch \in Nat
  BY FrameTypes DEF PlacesOK, EpochsOK, TypeOK
<1>1. CASE Enroll(t)
  BY <1>0, <1>1, EnrollDoes DEF PlaceOK, EpochOK, Moves, Sets, epochs, Copying,
     Advancing
<1>2. CASE EnrollCas(t)
  BY <1>0, <1>2, EnrollCasDoes DEF PlaceOK, EpochOK, Moves, Sets, epochs,
     Copying, Advancing
<1>3. CASE Enter(t)
  BY <1>0, <1>3, EnterDoes DEF PlaceOK, EpochOK, Moves, Sets, epochs, Copying,
     Advancing
<1>4. CASE ReadEpoch(t)
  BY <1>0, <1>4, ReadEpochDoes DEF PlaceOK, EpochOK, Moves, Sets, epochs,
     Copying, Advancing
<1>5. CASE CopyEpoch(t)
  BY <1>0, <1>5, CopyEpochDoes DEF PlaceOK, EpochOK, Moves, Sets, epochs,
     Copying, Advancing
<1>6. CASE CollectOnEnter(t)
  BY <1>0, <1>6, CollectOnEnterDoes DEF PlaceOK, EpochOK, Moves, Sets, epochs,
     Copying, Advancing
<1>7. CASE StartCollect(t)
  BY <1>0, <1>7, StartCollectDoes DEF PlaceOK, EpochOK, Moves, Sets, epochs,
     Copying, Advancing
<1>8. CASE FirstParticipant(t)
  BY <1>0, <1>8, FirstParticipantDoes DEF PlaceOK, EpochOK, Moves, Sets,
     epochs, Copying, Advancing
<1>9. CASE Look(t)
  BY <1>0, <1>9, LookDoes DEF PlaceOK, EpochOK, Moves, Sets, epochs, Copying,
     Advancing
<1>10. CASE Unlink(t)
  BY <1>0, <1>10, UnlinkDoes DEF PlaceOK, EpochOK, Moves, Sets, epochs,
     Copying, Advancing
<1>11. CASE UnlinkFails(t)
  BY <1>0, <1>11, UnlinkFailsDoes DEF PlaceOK, EpochOK, Moves, Sets, epochs,
     Copying, Advancing
<1>12. CASE LookInCritical(t)
  BY <1>0, <1>12, LookInCriticalDoes DEF PlaceOK, EpochOK, Moves, Sets, epochs,
     Copying, Advancing
<1>13. CASE CompareEpochs(t)
  BY <1>0, <1>13, CompareEpochsDoes DEF PlaceOK, EpochOK, Moves, Sets, epochs,
     Copying, Advancing
<1>14. CASE Advance(t)
  BY <1>0, <1>14, AdvanceDoes DEF PlaceOK, EpochOK, Moves, Sets, epochs,
     Copying, Advancing
<1>15. CASE CollectGlobal(t)
  BY <1>0, <1>15, CollectGlobalDoes DEF PlaceOK, EpochOK, Moves, Sets, epochs,
     Copying, Advancing
<1>16. CASE CollectLocal(t)
  BY <1>0, <1>16, CollectLocalDoes DEF PlaceOK, EpochOK, Moves, Sets, epochs,
     Copying, Advancing
<1>17. CASE UpdateLocal(t)
  BY <1>0, <1>17, UpdateLocalDoes DEF PlaceOK, EpochOK, Moves, Sets, epochs,
     Copying, Advancing
<1>18. CASE Read(t)
  BY <1>0, <1>18, ReadDoes DEF PlaceOK, EpochOK, Moves, Sets, epochs, Copying,
     Advancing
<1>19. CASE Update(t)
  BY <1>0, <1>19, UpdateDoes DEF PlaceOK, EpochOK, Moves, Sets, epochs,
     Copying, Advancing
<1>20. CASE Synchronize(t)
  BY <1>0, <1>20, SynchronizeDoes DEF PlaceOK, EpochOK, Moves, Sets, epochs,
     Copying, Advancing
<1>21. CASE Migrate(t)
  BY <1>0, <1>21, MigrateDoes DEF PlaceOK, EpochOK, Moves, Sets, epochs,
     Copying, Advancing
<1>22. CASE RegisterCleanup(t)
  BY <1>0, <1>22, RegisterCleanupDoes DEF PlaceOK, EpochOK, Moves, Sets,
     epochs, Copying, Advancing
<1>23. CASE Exit(t)
  BY <1>0, <1>23, ExitDoes DEF PlaceOK, EpochOK, Moves, Sets, epochs, Copying,
     Advancing
<1>24. CASE Synced(t)
  BY <1>0, <1>24, SyncedDoes DEF PlaceOK, EpochOK, Moves, Sets, epochs,
     Copying, Advancing
<1>25. CASE Shutdown(t)
  BY <1>0, <1>25, ShutdownDoes DEF PlaceOK, EpochOK, Moves, Sets, epochs,
     Copying, Advancing
<1> QED
  BY <1>1, <1>2, <1>3, <1>4, <1>5, <1>6, <1>7, <1>8, <1>9, <1>10, <1>11, <1>12,
     <1>13, <1>14, <1>15, <1>16, <1>17, <1>18, <1>19, <1>20, <1>21, <1>22,
     <1>23, <1>24, <1>25 DEF Step

LEMMA AgesStep ==
  ASSUME TypeOK, PlacesOK, ListOK, OnePredecessor, EpochsOK, ReachedOK,
         NEW s \in Threads, Step(s), NEW t \in Threads, NEW x \in Reached(t),
         pc[t] \in PinnedAt, epoch'[t] = epoch[t], NEW u \in Threads
  PROVE  AgesOK(t, x, u)'
<1>0. /\ AgesOK(t, x, u) /\ EpochOK(t) /\ EpochOK(u) /\ globalEpoch \in Nat
      /\ epoch[t] \in Nat /\ epoch[u] \in Nat /\ frame[u].epoch \in Nat
  BY FrameTypes DEF ReachedOK, EpochsOK, TypeOK
<1>1. CASE u # s
  <2>1. Kept(u)
    BY <1>1, OthersKept
  <2> QED
    BY <1>0, <2>1, LocalIs DEF AgesOK, Behind, Kept
<1>2. CASE u = s
  <2>1. /\ epoch'[u] \in Nat /\ epoch[t] <= globalEpoch
        /\ epoch[u] + (IF pc[u] = "update" THEN 1 ELSE 0)
                    + (IF pc'[u] = "collect" THEN 1 ELSE 0)
             <= epoch'[u] + (IF pc'[u] = "update" THEN 1 ELSE 0)
                          + (IF pc[u] = "collect" THEN 1 ELSE 0)
        /\ pc'[u] = "migrate" => frame'[u].epoch = globalEpoch
    BY <1>0, <1>2, EpochGrows, PlacesStep DEF TypeOK, EpochOK
  <2>2. \A age \in 0 .. 2 : Behind(t, u, age) => Behind(t, u, age)'
    BY <1>0, <2>1 DEF Behind
  <2>3. CASE rubbish' = rubbish
    <3>1. garbage' = garbage /\ Local(u)' = Local(u)
      BY <2>3 DEF rubbish, Local
    <3>2. pc'[u] = "migrate" => epoch'[t] <= frame'[u].epoch
      BY <2>1
    <3> QED
      BY <1>0, <2>2, <3>1, <3>2 DEF AgesOK
  <2>4. CASE /\ Ages(u) /\ UNCHANGED <<epochs, frame>>
             /\ Moves(u, "collect", "body") \/ Moves(u, "collectLocal", "update")
    BY <1>0, <2>4, LocalIs DEF AgesOK, Behind, Ages, Moves, epochs
  <2>5. ASSUME NEW y, Adds(u, y), pc[u] \in {"body", "unlink"}, pc'[u] # "migrate"
        PROVE  AgesOK(t, x, u)'
    <3>1. Behind(t, u, 0)
      BY <1>0, <2>1, <2>5 DEF Behind, EpochOK, PinnedAt, Walking
    <3> QED
      BY <1>0, <2>2, <2>5, <3>1 DEF AgesOK, Adds
  <2>6. CASE Empties((frame[u].epoch + 2) % 3) /\ pc'[u] = "collectLocal"
    BY <1>0, <2>2, <2>6 DEF AgesOK, Empties
  <2>7. CASE MovesTo(u, frame[u].epoch % 3) /\ pc'[u] = "exit"
    BY <2>7 DEF AgesOK, MovesTo, NoGarbage
  <2> QED
    BY <1>2, <2>3, <2>4, <2>5, <2>6, <2>7, RubbishStep DEF Moves, PinnedAt, Walking
<1> QED
  BY <1>1, <1>2

LEMMA BagsStep ==
  ASSUME TypeOK, PlacesOK, ListOK, OnePredecessor, EpochsOK, ReachedOK,
         NEW s \in Threads, Step(s), NEW t \in Threads, NEW x \in Reached(t),
         pc[t] \in PinnedAt, epoch'[t] = epoch[t]
  PROVE  x \notin freed' /\ BagsOK(t, x)'
<1>0. /\ AgesOK(t, x, s) /\ BagsOK(t, x) /\ EpochOK(t) /\ EpochOK(s)
      /\ x \notin freed /\ globalEpoch \in Nat /\ epoch[t] \in Nat /\ epoch[s] \in Nat
      /\ frame[s].epoch \in Nat
  BY FrameTypes DEF ReachedOK, EpochsOK, TypeOK
<1>1. epoch[t] <= globalEpoch /\ globalEpoch <= epoch[t] + 1
  BY <1>0 DEF EpochOK
<1>2. CASE globalEpoch' # globalEpoch
  <2>1. globalEpoch' = globalEpoch + 1 /\ Moves(s, "advance", "collectGlobal")
    BY <1>2, EpochSteps
  <2>2. bags' = bags /\ freed' = freed
    BY <2>1, RubbishStep DEF Moves, rubbish
  <2> SUFFICES ASSUME NEW d \in 0 .. 2, x \in bags[(globalEpoch + 1 + 3 - d) % 3]
               PROVE  epoch[t] + d <= globalEpoch + 1
    BY <1>0, <2>1, <2>2 DEF BagsOK
  <2>3. CASE d = 0
    BY <1>1, <1>0, <2>3
  <2>4. CASE d # 0
    <3>1. d - 1 \in 0 .. 2 /\ x \in bags[(globalEpoch + 3 - (d - 1)) % 3]
      BY <1>0, <2>4, BagNumbers
    <3>2. epoch[t] + (d - 1) <= globalEpoch
      BY <1>0, <3>1 DEF BagsOK
    <3> QED
      BY <1>0, <3>2
  <2> QED
    BY <2>3, <2>4
<1>3. CASE globalEpoch' = globalEpoch
  <2>1. CASE rubbish' = rubbish
    BY <1>0, <1>3, <2>1 DEF BagsOK, rubbish
  <2>2. CASE /\ Ages(s)
             /\ Moves(s, "collect", "body") \/ Moves(s, "collectLocal", "update")
    <3>1. x \notin garbage[s].old
      BY <1>0, <1>1, <2>2 DEF AgesOK, Behind, EpochOK, Moves, Advancing, PinnedAt
    <3> QED
      BY <1>0, <1>3, <2>2, <3>1 DEF BagsOK, Ages
  <2>3. ASSUME NEW y, Adds(s, y)
        PROVE  x \notin freed' /\ BagsOK(t, x)'
    BY <1>0, <1>3, <2>3 DEF BagsOK, Adds
  <2>4. CASE /\ Empties((frame[s].epoch + 2) % 3)
             /\ Moves(s, "collectGlobal", "collectLocal")
    <3> DEFINE n == (frame[s].epoch + 2) % 3
    <3>1. globalEpoch = frame[s].epoch + 1
      BY <1>0, <2>4 DEF EpochOK, Moves, Advancing
    <3>2. n = (globalEpoch + 3 - 2) % 3
      BY <1>0, <3>1, BagNumbers
    <3>3. x \notin bags[n]
      BY <1>0, <1>1, <3>2 DEF BagsOK
    <3>4. x \notin freed'
      BY <1>0, <2>4, <3>3 DEF Empties
    <3>5. \A m \in 0 .. 2 : x \in bags'[m] => x \in bags[m]
      BY <2>4 DEF Empties, TypeOK
    <3>6. \A d \in 0 .. 2 : (globalEpoch + 3 - d) % 3 \in 0 .. 2
      BY <1>0, BagNumbers
    <3> QED
      BY <1>0, <1>3, <3>4, <3>5, <3>6 DEF BagsOK
  <2>5. CASE MovesTo(s, frame[s].epoch % 3) /\ Moves(s, "migrate", "exit")
    <3> DEFINE n == frame[s].epoch % 3
    <3>1. freed' = freed
      BY <2>5 DEF MovesTo
    <3>2. \A m \in 0 .. 2 : x \in bags'[m] => \/ x \in bags[m]
                                              \/ m = n /\ x \in Local(s)
      BY <2>5 DEF MovesTo, TypeOK
    <3>3. \A d \in 0 .. 2 : (globalEpoch + 3 - d) % 3 \in 0 .. 2
      BY <1>0, BagNumbers
    <3>4. globalEpoch = frame[s].epoch \/ globalEpoch = frame[s].epoch + 1
      BY <1>0, <2>5 DEF EpochOK, Moves, PinnedAt
    <3>5. x \in Local(s) => epoch[t] <= frame[s].epoch
      BY <1>0, <2>5 DEF AgesOK, Moves
    <3>6. ASSUME NEW d \in 0 .. 2, (globalEpoch + 3 - d) % 3 = n, x \in Local(s)
          PROVE  epoch[t] + d <= globalEpoch
      <4>1. CASE globalEpoch = frame[s].epoch
        <5>1. d = 0
          BY <1>0, <3>6, <4>1, BagNumbers
        <5> QED
          BY <1>0, <1>1, <5>1
      <4>2. CASE globalEpoch = frame[s].epoch + 1
        <5>1. d = 1
          BY <1>0, <3>6, <4>2, BagNumbers
        <5> QED
          BY <1>0, <3>5, <3>6, <4>2, <5>1
      <4> QED
        BY <3>4, <4>1, <4>2
    <3> HIDE DEF n
    <3>7. ASSUME NEW d \in 0 .. 2, x \in bags'[(globalEpoch + 3 - d) % 3]
          PROVE  epoch[t] + d <= globalEpoch
      BY <1>0, <3>2, <3>3, <3>6, <3>7 DEF BagsOK
    <3> QED
      BY <1>0, <1>3, <3>1, <3>7 DEF BagsOK
  <2> QED
    BY <2>1, <2>2, <2>3, <2>4, <2>5, RubbishStep
<1> QED
  BY <1>2, <1>3

LEMMA ReachedOKStep ==
  ASSUME TypeOK, PlacesOK, ListOK, OnePredecessor, EpochsOK, TrashOK, ReachedOK,
         NEW s \in Threads, Step(s)
  PROVE  ReachedOK'
<1> SUFFICES ASSUME NEW t \in Threads, NEW x, x \in Reached(t)'
             PROVE  /\ x \notin freed' /\ BagsOK(t, x)'
                    /\ \A u \in Threads : AgesOK(t, x, u)'
  BY DEF ReachedOK
<1>1. CASE x \in Reached(t) /\ pc[t] \in PinnedAt /\ epoch'[t] = epoch[t]
  BY <1>1, AgesStep, BagsStep
<1>2. CASE x \notin Trash /\ rubbish' = rubbish
  <2>1. freed' = freed /\ bags' = bags /\ garbage' = garbage
    BY <1>2 DEF rubbish
  <2>2. /\ x \notin freed /\ \A n \in 0 .. 2 : x \notin bags[n]
        /\ \A u \in Threads : x \notin Local(u)
    BY <1>2, InTrash
  <2>3. globalEpoch' \in Nat
    BY PlacesStep DEF TypeOK
  <2>4. \A d \in 0 .. 2 : (globalEpoch' + 3 - d) % 3 \in 0 .. 2
    BY <2>3, BagNumbers
  <2> QED
    BY <2>1, <2>2, <2>4, LocalIs DEF BagsOK, AgesOK
<1> QED
  BY <1>1, <1>2, ReachedStep

-----------------------------------------------------------------------------
(***************************************************************************)
(* ReadersOK.  The readers that rcuSynchronize waits for.                  *)
(***************************************************************************)
(* The epoch of a reader, counting what its collection has begun, and the  *)
(* successes of rcuSynchronize grow no faster than the global epoch.       *)
LEMMA ReaderGrows ==
  ASSUME TypeOK, PlacesOK, EpochsOK, NEW t \in Threads, Step(t)
  PROVE  /\ globalEpoch <= globalEpoch'
         /\ pc[t] \in PinnedAt =>
              \/ Exit(t)
              \/ /\ pc'[t] \in PinnedAt
                 /\ epoch'[t] + JustAdvanced(t)' + globalEpoch
                      <= epoch[t] + JustAdvanced(t) + globalEpoch'
         /\ Successes(t)' + globalEpoch <= Successes(t) + globalEpoch'
<1>0. /\ PlaceOK(t) /\ EpochOK(t) /\ epoch[t] \in Nat /\ frame[t].epoch \in Nat
      /\ globalEpoch \in Nat /\ frame[t].successes \in Nat
  BY FrameTypes DEF PlacesOK, EpochsOK, TypeOK
<1>1. CASE Enroll(t)
  BY <1>0, <1>1, EnrollDoes DEF EpochOK, Moves, Sets, epochs, JustAdvanced,
     Successes,
     PinnedAt, Walking, Advancing
<1>2. CASE EnrollCas(t)
  BY <1>0, <1>2, EnrollCasDoes DEF EpochOK, Moves, Sets, epochs, JustAdvanced,
     Successes,
     PinnedAt, Walking, Advancing
<1>3. CASE Enter(t)
  BY <1>0, <1>3, EnterDoes DEF EpochOK, Moves, Sets, epochs, JustAdvanced,
     Successes,
     PinnedAt, Walking, Advancing
<1>4. CASE ReadEpoch(t)
  BY <1>0, <1>4, ReadEpochDoes DEF EpochOK, Moves, Sets, epochs, JustAdvanced,
     Successes,
     PinnedAt, Walking, Advancing
<1>5. CASE CopyEpoch(t)
  BY <1>0, <1>5, CopyEpochDoes DEF EpochOK, Moves, Sets, epochs, JustAdvanced,
     Successes,
     PinnedAt, Walking, Advancing
<1>6. CASE CollectOnEnter(t)
  BY <1>0, <1>6, CollectOnEnterDoes DEF EpochOK, Moves, Sets, epochs,
     JustAdvanced, Successes,
     PinnedAt, Walking, Advancing
<1>7. CASE StartCollect(t)
  BY <1>0, <1>7, StartCollectDoes DEF EpochOK, Moves, Sets, epochs,
     JustAdvanced, Successes,
     PinnedAt, Walking, Advancing
<1>8. CASE FirstParticipant(t)
  BY <1>0, <1>8, FirstParticipantDoes DEF EpochOK, Moves, Sets, epochs,
     JustAdvanced, Successes,
     PinnedAt, Walking, Advancing
<1>9. CASE Look(t)
  BY <1>0, <1>9, LookDoes DEF EpochOK, Moves, Sets, epochs, JustAdvanced, Successes,
     PinnedAt, Walking, Advancing
<1>10. CASE Unlink(t)
  BY <1>0, <1>10, UnlinkDoes DEF EpochOK, Moves, Sets, epochs, JustAdvanced,
     Successes,
     PinnedAt, Walking, Advancing
<1>11. CASE UnlinkFails(t)
  BY <1>0, <1>11, UnlinkFailsDoes DEF EpochOK, Moves, Sets, epochs,
     JustAdvanced, Successes,
     PinnedAt, Walking, Advancing
<1>12. CASE LookInCritical(t)
  BY <1>0, <1>12, LookInCriticalDoes DEF EpochOK, Moves, Sets, epochs,
     JustAdvanced, Successes,
     PinnedAt, Walking, Advancing
<1>13. CASE CompareEpochs(t)
  BY <1>0, <1>13, CompareEpochsDoes DEF EpochOK, Moves, Sets, epochs,
     JustAdvanced, Successes,
     PinnedAt, Walking, Advancing
<1>14. CASE Advance(t)
  BY <1>0, <1>14, AdvanceDoes DEF EpochOK, Moves, Sets, epochs, JustAdvanced,
     Successes,
     PinnedAt, Walking, Advancing
<1>15. CASE CollectGlobal(t)
  BY <1>0, <1>15, CollectGlobalDoes DEF EpochOK, Moves, Sets, epochs,
     JustAdvanced, Successes,
     PinnedAt, Walking, Advancing
<1>16. CASE CollectLocal(t)
  BY <1>0, <1>16, CollectLocalDoes DEF EpochOK, Moves, Sets, epochs,
     JustAdvanced, Successes,
     PinnedAt, Walking, Advancing
<1>17. CASE UpdateLocal(t)
  BY <1>0, <1>17, UpdateLocalDoes DEF EpochOK, Moves, Sets, epochs,
     JustAdvanced, Successes,
     PinnedAt, Walking, Advancing
<1>18. CASE Read(t)
  BY <1>0, <1>18, ReadDoes DEF EpochOK, Moves, Sets, epochs, JustAdvanced,
     Successes,
     PinnedAt, Walking, Advancing
<1>19. CASE Update(t)
  BY <1>0, <1>19, UpdateDoes DEF EpochOK, Moves, Sets, epochs, JustAdvanced,
     Successes,
     PinnedAt, Walking, Advancing
<1>20. CASE Synchronize(t)
  BY <1>0, <1>20, SynchronizeDoes DEF EpochOK, Moves, Sets, epochs,
     JustAdvanced, Successes,
     PinnedAt, Walking, Advancing
<1>21. CASE Migrate(t)
  BY <1>0, <1>21, MigrateDoes DEF EpochOK, Moves, Sets, epochs, JustAdvanced,
     Successes,
     PinnedAt, Walking, Advancing
<1>22. CASE RegisterCleanup(t)
  BY <1>0, <1>22, RegisterCleanupDoes DEF EpochOK, Moves, Sets, epochs,
     JustAdvanced, Successes,
     PinnedAt, Walking, Advancing
<1>23. CASE Exit(t)
  BY <1>0, <1>23, ExitDoes DEF EpochOK, Moves, Sets, epochs, JustAdvanced,
     Successes,
     PinnedAt, Walking, Advancing
<1>24. CASE Synced(t)
  BY <1>0, <1>24, SyncedDoes DEF EpochOK, Moves, Sets, epochs, JustAdvanced,
     Successes,
     PinnedAt, Walking, Advancing
<1>25. CASE Shutdown(t)
  BY <1>0, <1>25, ShutdownDoes DEF EpochOK, Moves, Sets, epochs, JustAdvanced,
     Successes,
     PinnedAt, Walking, Advancing
<1> QED
  BY <1>1, <1>2, <1>3, <1>4, <1>5, <1>6, <1>7, <1>8, <1>9, <1>10, <1>11, <1>12,
     <1>13, <1>14, <1>15, <1>16, <1>17, <1>18, <1>19, <1>20, <1>21, <1>22,
     <1>23, <1>24, <1>25 DEF Step

(* Who is recorded as a reader. *)
LEMMA ReadersStep ==
  ASSUME TypeOK, PlacesOK, NEW s \in Threads, Step(s),
         NEW t \in Threads, NEW u \in readers'[t]
  PROVE  /\ u \in Threads /\ (Exit(s) => u # s)
         /\ \/ u \in readers[t]
            \/ /\ t = s /\ Enter(s) /\ u # t /\ pc[u] \in PinnedAt
               /\ frame[t].successes = 0
<1>0. PlaceOK(s)
  BY DEF PlacesOK
<1>1. CASE Enter(s)
  <2>1. \/ readers' = readers
        \/ /\ frame[s].successes = 0
           /\ readers' = [readers EXCEPT ![s] = {v \in Threads \ {s} : Pinned(v)}]
    BY <1>1, EnterDoes
  <2>2. \A v \in Threads : Pinned(v) => pc[v] \in PinnedAt
    BY DEF Pinned, PlacesOK, PlaceOK, Copying
  <2>3. ~ Exit(s)
    BY <1>1 DEF Enter, Exit
  <2>4. readers \in [Threads -> SUBSET Threads]
    BY DEF TypeOK
  <2> QED
    BY <1>1, <2>1, <2>2, <2>3, <2>4
<1>2. CASE Exit(s)
  BY <1>0, <1>2, ExitDoes DEF TypeOK
<1>3. CASE Synced(s)
  BY <1>3, SyncedDoes DEF TypeOK, Synced, Exit
<1>4. CASE readers' = readers /\ ~ Exit(s)
  BY <1>4 DEF TypeOK
<1>5. readers' = readers \/ Enter(s) \/ Exit(s) \/ Synced(s)
  BY DEF Step, client, Enroll, EnrollCas, ReadEpoch, CopyEpoch, CollectOnEnter,
     StartCollect, FirstParticipant, Look, Unlink, UnlinkFails, LookInCritical,
     CompareEpochs, Advance, CollectGlobal, CollectLocal, UpdateLocal, Read,
     Update, Synchronize, Migrate, RegisterCleanup, Shutdown
<1> QED
  BY <1>1, <1>2, <1>3, <1>4, <1>5

LEMMA ReadersOKStep ==
  ASSUME TypeOK, PlacesOK, EpochsOK, ReadersOK, NEW s \in Threads, Step(s)
  PROVE  ReadersOK'
<1> SUFFICES ASSUME NEW t \in Threads, NEW u \in readers'[t]
             PROVE  ReaderOK(t, u)'
  BY DEF ReadersOK
<1>0. /\ u \in Threads /\ globalEpoch \in Nat /\ globalEpoch' \in Nat
      /\ epoch[u] \in Nat /\ epoch'[u] \in Nat /\ frame[u].epoch \in Nat
      /\ JustAdvanced(u) \in {0, 1} /\ JustAdvanced(u)' \in {0, 1}
      /\ Successes(t) \in Nat /\ Successes(t)' \in Nat
  <2>1. u \in Threads
    BY ReadersStep
  <2>2. frame[t].successes \in Nat /\ frame'[t].successes \in Nat /\ frame[u].epoch \in Nat
    BY <2>1, FrameTypes, PlacesStep DEF TypeOK, Frames
  <2> QED
    BY <2>1, <2>2, PlacesStep DEF TypeOK, JustAdvanced, Successes
<1>1. CASE u \in readers[t]
  <2>1. ReaderOK(t, u)
    BY <1>1 DEF ReadersOK
  <2>2. /\ u # s => Kept(u)
        /\ t # s => Kept(t)
    BY <1>0, OthersKept
  <2>3. u # s => pc'[u] = pc[u] /\ epoch'[u] = epoch[u] /\ JustAdvanced(u)' = JustAdvanced(u)
    BY <2>2 DEF Kept, JustAdvanced, Advancing
  <2>4. t # s => Successes(t)' = Successes(t)
    BY <2>2 DEF Kept, JustAdvanced, Successes, Advancing
  <2>5. Exit(s) => u # s
    BY ReadersStep
  <2>6. CASE u = s
    BY <1>0, <2>1, <2>4, <2>5, <2>6, ReaderGrows DEF ReaderOK
  <2>7. CASE t = s
    BY <1>0, <2>1, <2>3, <2>7, ReaderGrows DEF ReaderOK, PinnedAt, Walking,
       Advancing
  <2>8. CASE u # s /\ t # s
    BY <1>0, <2>1, <2>3, <2>4, <2>8, ReaderGrows DEF ReaderOK, PinnedAt,
       Walking, Advancing
  <2> QED
    BY <2>6, <2>7, <2>8
<1>2. CASE /\ t = s /\ Enter(s) /\ u # t /\ pc[u] \in PinnedAt
           /\ frame[t].successes = 0
  <2>1. Kept(u) /\ EpochOK(u)
    BY <1>0, <1>2, OthersKept DEF EpochsOK
  <2>2. /\ Successes(t)' = 0 /\ globalEpoch' = globalEpoch
    BY <1>2, EnterDoes DEF Successes, JustAdvanced, Sets, Moves, Advancing
  <2> QED
    BY <1>0, <1>2, <2>1, <2>2
       DEF ReaderOK, Kept, EpochOK, JustAdvanced, PinnedAt, Walking, Advancing
<1> QED
  BY <1>1, <1>2, ReadersStep

-----------------------------------------------------------------------------
(***************************************************************************)
(* The theorems.                                                           *)
(***************************************************************************)
LEMMA InitInvariant ==
  ASSUME Init
  PROVE  IInv
<1>1. /\ globalEpoch = 0 /\ participants = NoThread /\ object = 0 /\ freed = {}
      /\ bags = [n \in 0 .. 2 |-> {}]
      /\ \A t \in Threads :
           /\ next[t] = Link(NoThread, 0) /\ epoch[t] = 0 /\ inCritical[t] = 0
           /\ garbage[t] = NoGarbage /\ frame[t] = NoFrame /\ held[t] = {}
           /\ readers[t] = {} /\ pc[t] \in {"start", "never"}
           /\ pc[t] # "never" => t \in DOMAIN script
  BY DEF Init, NumEpochs
<1>2. NoFrame \in Frames /\ NoGarbage \in Bag /\ Link(NoThread, 0) \in [to : Pointers, tag : {0, 1}]
  BY DEF NoFrame, Frames, Pointers, NoGarbage, Bag, Link
<1>3. TypeOK
  BY <1>1, <1>2, AllLabels DEF Init, TypeOK, Pointers, NumEpochs
<1>4. PlacesOK
  BY <1>1 DEF PlacesOK, PlaceOK, NoFrame, Copying, PinnedAt, Walking, Advancing
<1>5. ListOK /\ OnePredecessor
  <2>1. After(participants) = {}
    BY <1>1, AfterNone DEF After
  <2>2. \A t \in Threads : NodeOK(t)
    BY <1>1 DEF NodeOK, Enrolled, IsEnrolled, NoFrame, Link
  <2> QED
    BY <1>1, <2>1, <2>2 DEF ListOK, OnePredecessor, IsEnrolled
<1>6. EpochsOK /\ WalkOK
  BY <1>1 DEF EpochsOK, EpochOK, WalkOK, NoFrame, PinnedAt, Walking, Advancing
<1>7. \A x : x \notin Trash
  BY <1>1, InTrash, LocalIs DEF NoGarbage
<1>8. TrashOK /\ OnceOK
  BY <1>1, <1>7 DEF TrashOK, OnceOK
<1>9. ReachedOK /\ ReadersOK
  BY <1>1 DEF ReachedOK, Reached, ReadersOK, Walking
<1> QED
  BY <1>3, <1>4, <1>5, <1>6, <1>8, <1>9 DEF IInv

LEMMA NextInvariant ==
  ASSUME IInv, [Next]_vars
  PROVE  IInv'
<1>1. CASE Next
  <2>1. PICK t \in Threads : Step(t)
    BY <1>1 DEF Next
  <2> QED
    BY <2>1, PlacesStep, ListStep, EpochsStep, WalkStep, TrashOKStep, ReachedOKStep,
       OnceStep, ReadersOKStep DEF IInv
<1>2. CASE UNCHANGED vars
  <2> USE <1>2 DEF vars, list, epochs, rubbish, client
  <2>1. TypeOK' /\ PlacesOK'
    BY DEF IInv, TypeOK, PlacesOK, PlaceOK, Doing
  <2>2. /\ \A p : After(p)' = After(p)
        /\ After(participants)' = After(participants)
    BY DEF After, AfterIn, Closed
  <2>3. ListOK' /\ OnePredecessor'
    BY <2>2 DEF IInv, ListOK, NodeOK, Enrolled, IsEnrolled, OnePredecessor, After
  <2>4. EpochsOK' /\ WalkOK'
    BY <2>2 DEF IInv, EpochsOK, EpochOK, WalkOK, Ahead, Fresh, After
  <2>5. Trash' = Trash /\ \A u \in Threads : Local(u)' = Local(u)
    BY DEF Trash, Bagged, Locals, Local
  <2>6. TrashOK' /\ OnceOK'
    BY <2>2, <2>5 DEF IInv, TrashOK, OnceOK, OnceAt, After
  <2>7. ReachedOK'
    BY <2>2, <2>5 DEF IInv, ReachedOK, Reached, BagsOK, AgesOK, Behind, After
  <2>8. ReadersOK'
    BY DEF IInv, ReadersOK, ReaderOK, JustAdvanced, Successes
  <2> QED
    BY <2>1, <2>3, <2>4, <2>6, <2>7, <2>8 DEF IInv
<1> QED
  BY <1>1, <1>2

(* The inductive invariant: what the types, the list of participants, the  *)
(* epochs, the bags and the records of rcuSynchronize are in every state   *)
(* that enter, exit, tryCollect, enroll and shutdown can lead to.          *)
THEOREM Invariant == Spec => []IInv
<1>1. Init => IInv
  BY InitInvariant
<1>2. IInv /\ [Next]_vars => IInv'
  BY NextInvariant
<1> QED
  BY <1>1, <1>2, PTL DEF Spec

(* While a thread is in a critical section, tryCollect advances the global *)
(* epoch at most once, although quickEnter copies the epoch after it read  *)
(* it, and tryCollect decides on epochs it read one after the other.       *)
THEOREM EpochsStayClose == Spec => []EpochsClose
<1>1. IInv => EpochsClose
  <2> SUFFICES ASSUME IInv, NEW t \in Threads, Pinned(t)
               PROVE  globalEpoch \in {epoch[t], epoch[t] + 1}
    BY DEF EpochsClose
  <2>1. PlaceOK(t) /\ EpochOK(t) /\ globalEpoch \in Nat /\ epoch[t] \in Nat
    BY DEF IInv, PlacesOK, EpochsOK, TypeOK
  <2>2. pc[t] \in PinnedAt
    BY <2>1 DEF PlaceOK, Pinned, Copying
  <2> QED
    BY <2>1, <2>2 DEF EpochOK
<1> QED
  BY <1>1, Invariant, PTL

(* Neither collect() nor the bag of a global epoch deletes an object that  *)
(* a thread took a reference to in a section it has not left.              *)
THEOREM NothingUsedIsFreed == Spec => []NothingFreedInUse
<1>1. IInv => NothingFreedInUse
  <2> SUFFICES ASSUME IInv, NEW t \in Threads, NEW x \in held[t]
               PROVE  x \notin freed
    BY DEF NothingFreedInUse
  <2>1. pc[t] = "exit"
    BY DEF IInv, PlacesOK, PlaceOK
  <2> QED
    BY <2>1 DEF IInv, ReachedOK, Reached, Walking
<1> QED
  BY <1>1, Invariant, PTL

(* A walk of tryCollect never stands on a participant, or holds the link   *)
(* of one, that was deleted: others may unlink it under the walk, and      *)
(* delete it, but not before the walk's section has ended.                 *)
THEOREM WalksStayOnLiveNodes == Spec => []WalksOnLiveNodes
<1>1. IInv => WalksOnLiveNodes
  <2> SUFFICES ASSUME IInv, NEW t \in Threads,
                      pc[t] \in {"look", "unlink", "inCritical", "compare"},
                      NEW p \in {frame[t].prev, frame[t].cur}
               PROVE  p \notin freed
    BY DEF WalksOnLiveNodes
  <2>1. p \in Pointers /\ freed \subseteq Things
    BY FrameTypes DEF IInv, TypeOK
  <2>2. CASE p = NoThread
    BY <2>1, <2>2, PointersAssumption DEF Things
  <2>3. CASE p \in Threads
    <3>1. p \in Reached(t)
      BY <2>3, AfterFirst DEF Reached, After, Walking
    <3> QED
      BY <3>1 DEF IInv, ReachedOK
  <2> QED
    BY <2>1, <2>2, <2>3 DEF Pointers
<1> QED
  BY <1>1, Invariant, PTL

(* Whatever was unlinked is in one bag or deleted, never both: no bag is   *)
(* deleted twice, and ~LocalEpoch hands on all of a thread's garbage.      *)
THEOREM GarbageIsOnce == Spec => []GarbageOnce
<1>1. IInv => GarbageOnce
  <2> SUFFICES ASSUME IInv
               PROVE  GarbageOnce
    OBVIOUS
  <2>1. \A x : OnceAt(x)
    BY OnceEverywhere DEF IInv
  <2>2. ASSUME NEW b \in Bags
        PROVE  \/ \E t \in Threads :
                    \/ b = <<t, "old">> /\ Content(b) = garbage[t].old
                    \/ b = <<t, "cur">> /\ Content(b) = garbage[t].cur
                    \/ b = <<t, "new">> /\ Content(b) = garbage[t].new
               \/ \E n \in 0 .. 2 : b = <<NoThread, n>> /\ Content(b) = bags[n]
    BY PointersAssumption DEF Bags, Content, NumEpochs
  <2>3. ASSUME NEW b \in Bags, NEW c \in Bags, b # c
        PROVE  Content(b) \cap Content(c) = {}
    BY <2>1, <2>2, <2>3, LocalIs DEF OnceAt
  <2>4. ASSUME NEW b \in Bags
        PROVE  Content(b) \cap freed = {}
    BY <2>1, <2>2, <2>4, LocalIs DEF OnceAt
  <2>5. ASSUME NEW n \in 0 .. object - 1
        PROVE  n \in freed \/ \E b \in Bags : b[1] \notin freed /\ n \in Content(b)
    <3>1. n \in Trash
      BY DEF IInv, OnceOK
    <3>2. CASE n \in Bagged
      <4>1. PICK m \in 0 .. 2 : n \in bags[m]
        BY <3>2, InTrash
      <4>2. <<NoThread, m>> \in Bags /\ NoThread \notin freed
        BY PointersAssumption DEF Bags, NumEpochs, IInv, TypeOK, Things
      <4>3. n \in Content(<<NoThread, m>>)
        BY <4>1 DEF Content
      <4> QED
        BY <4>2, <4>3
    <3>3. CASE n \in Locals
      <4>1. PICK t \in Threads : n \in Local(t)
        BY <3>3, InTrash
      <4>2. pc[t] # "gone"
        BY <4>1, LocalIs DEF IInv, PlacesOK, PlaceOK, NoGarbage
      <4>3. t \notin freed
        BY <4>2, InTrash DEF IInv, TrashOK
      <4>4. PICK age \in {"old", "cur", "new"} : n \in garbage[t][age]
        BY <4>1, LocalIs
      <4>5. <<t, age>> \in Bags /\ n \in Content(<<t, age>>)
        BY <4>4, PointersAssumption DEF Bags, Content
      <4> QED
        BY <4>3, <4>5
    <3> QED
      BY <3>1, <3>2, <3>3, InTrash
  <2> QED
    BY <2>3, <2>4, <2>5 DEF GarbageOnce
<1> QED
  BY <1>1, Invariant, PTL

(* When rcuSynchronize returns, no thread is in the critical section that  *)
(* it was in when rcuSynchronize was called.                               *)
THEOREM SynchronizeDoesWait == Spec => []SynchronizeWaits
<1>1. IInv => SynchronizeWaits
  <2> SUFFICES ASSUME IInv, NEW t \in Threads, pc[t] = "synced", NEW u \in readers[t]
               PROVE  FALSE
    BY DEF SynchronizeWaits
  <2>1. /\ u \in Threads /\ ReaderOK(t, u) /\ PlaceOK(t) /\ EpochOK(u)
        /\ globalEpoch \in Nat /\ epoch[u] \in Nat /\ frame[t].successes \in Nat
    BY FrameTypes DEF IInv, ReadersOK, PlacesOK, EpochsOK, TypeOK
  <2> QED
    BY <2>1 DEF ReaderOK, PlaceOK, EpochOK, Successes, JustAdvanced
<1> QED
  BY <1>1, Invariant, PTL

=============================================================================
