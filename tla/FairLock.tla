------------------------------ MODULE FairLock ------------------------------
(***************************************************************************)
(* What a queueing lock promises: one holder, and threads in line get the  *)
(* lock in the order they came.  A thread that finds the lock free and     *)
(* nobody in line may take it at once.                                     *)
(***************************************************************************)
EXTENDS Naturals, Sequences

CONSTANTS Threads, NoThread

VARIABLES holder, line
vars == <<holder, line>>

Init == holder = NoThread /\ line = <<>>

TakeAtOnce(t) ==
  /\ holder = NoThread /\ line = <<>>
  /\ holder' = t
  /\ UNCHANGED line

JoinLine(t) ==
  /\ t # holder /\ \A n \in 1 .. Len(line) : line[n] # t
  /\ line' = Append(line, t)
  /\ UNCHANGED holder

ServeNext ==
  /\ holder = NoThread /\ line # <<>>
  /\ holder' = Head(line)
  /\ line' = Tail(line)

Release ==
  /\ holder # NoThread
  /\ holder' = NoThread
  /\ UNCHANGED line

Next ==
  \/ \E t \in Threads : TakeAtOnce(t) \/ JoinLine(t)
  \/ ServeNext
  \/ Release

SafetySpec == Init /\ [][Next]_vars
Spec == SafetySpec /\ WF_vars(ServeNext) /\ WF_vars(Release)
=============================================================================
