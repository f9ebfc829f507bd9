---------------------------- MODULE RealizeRMC ----------------------------
(***************************************************************************)
(* RealizeRMC::run without the SMT solver: the action graph, then the      *)
(* greedy cuts, and what the two must achieve together.                    *)
(***************************************************************************)
EXTENDS Obligations, GreedyCut

vars == <<fn, actions, edges, graphVars, cutVars>>

Init == GraphInit /\ CutInit

(* cutEdges of run(). *)
CutEdges ==
  /\ pc = "cut"
  /\ CutNext
  /\ UNCHANGED graphVars

BuildGraph == GraphNext /\ UNCHANGED cutVars

Next == BuildGraph \/ CutEdges

Spec == Init /\ [][Next]_vars

(* The edges are cut and the function is handed back to LLVM. *)
Finished == pc = "cut" /\ edges = {}

-----------------------------------------------------------------------------
(* What the emitted code orders, judged on every walk of the program and   *)
(* not on simple paths.  The judgement follows one instance of the source  *)
(* through the blocks that run after it:                                   *)
(*   b      the block that has just run                                    *)
(*   after  the values that depend on that instance: by the dependency     *)
(*          they carry, whatever accesses memory through them is ordered   *)
(*          after it (only dependencies hidden from LLVM survive)          *)
(*   ctrl   a branch on such a value was taken: later writes are ordered   *)

Fenced(e, b) ==
  \E n \in 1 .. Len(fences[b]) :
    \/ fences[b][n] = "sync"
    \/ fences[b][n] = "lwsync" /\ e.type < PushEdge

WalkStart(e) ==
  [b |-> actions[e.src].out,
   after |-> {actions[e.src].odep} \ {NoValue},
   ctrl |-> FALSE]

WalkStates ==
  [b : Blocks, after : SUBSET DOMAIN fn.vals, ctrl : BOOLEAN]

(* A processor that executes an RMW with a retry loop branches on it. *)
BranchTaken(s, b) ==
  s.ctrl \/ \E v \in s.after : <<s.b, b, v>> \in kept \/ fn.vals[v].op = "rmw"

(* Where the walk goes unless a fence orders all that follows. *)
WalkSteps(e, s) ==
  {[b |-> b, ctrl |-> BranchTaken(s, b),
    after |-> AfterBlock(actions[e.src].odep, hidden, s.after, s.b, b)] :
     b \in {c \in Succ(fn.cfg, s.b) : ~Fenced(e, c)}}

(* Crossing the bind site ends the obligation, unless it is the            *)
(* destination's own block.                                                *)
Walked(e) ==
  LET Onward(s) == {t \in WalkSteps(e, s) : t.b # e.bind}
      Explore[S \in SUBSET WalkStates] ==
        LET T == S \cup UNION {Onward(s) : s \in S}
        IN IF T = S THEN S ELSE Explore[T]
  IN Explore[{WalkStart(e)}]

Arrives(e) ==
  {t \in UNION {WalkSteps(e, s) : s \in Walked(e)} : t.b = actions[e.dst].bb}

(* An execution edge may rest on the address or on a branch, and a         *)
(* visibility edge to a read is no more than one; any other visibility or  *)
(* push edge needs its fence.                                              *)
OrderedAt(e, t) ==
  /\ \/ e.type = ExecutionEdge
     \/ e.type = VisibilityEdge /\ actions[e.dst].type = "SimpleRead"
  /\ \/ t.ctrl /\ actions[e.dst].type \in {"SimpleWrites", "SimpleRMW"}
     \/ actions[e.dst].idep \in t.after

Ordered(e) == \A t \in Arrives(e) : OrderedAt(e, t)

-----------------------------------------------------------------------------
(* The edges that are done and the cuts have their types. *)
CutTypeOK ==
  /\ done \subseteq Edges
  /\ cuts \in [Blocks -> BlockCuts]
  /\ fences \in [Blocks -> Seq({"sync", "lwsync"})]
  /\ kept \subseteq Blocks \X Blocks \X DOMAIN fn.vals
  /\ hidden \subseteq DOMAIN fn.vals

TypeOK == GraphTypeOK /\ CutTypeOK

(* Every edge that cutEdges has gone past is ordered by the code emitted   *)
(* so far on every walk of the program, loops and detours included,        *)
(* although isEdgeCut looks at simple paths and at one self edge only.     *)
CutEdgesOrdered == \A e \in done : Ordered(e)

(* When run() ends, the code orders everything the registered edges demand *)
(* together, also through actions whose own edges were dropped.            *)
SourceOrderEnforced ==
  Finished => \A e \in Demanded : Observable(e) => Ordered(e)

(* The closure derives no edge the program did not ask for: none would be  *)
(* wrong, but each one costs a fence.                                      *)
NothingInvented == trans \subseteq Demanded

(* A block never gets an lwsync next to another fence: the sort and the    *)
(* recorded cuts see to it.                                                *)
NoWastedLwsync ==
  \A b \in Blocks : \A m, n \in 1 .. Len(fences[b]) :
    fences[b][m] = "lwsync" => m = n

(* impl-notes:16-17 where no address can carry the order: a push edge gets *)
(* its sync, and a visibility edge to a write its lwsync, on every path.   *)
NoDependency(e) == NoValue \in {actions[e.src].odep, actions[e.dst].idep}

FencesOnEveryPath ==
  \A e \in done : e.type # ExecutionEdge /\ NoDependency(e) =>
    \A p \in EdgePaths(e) : \E n \in 2 .. Len(p) : Fenced(e, p[n])

(* impl-notes:18-19: "Every R->R edge is cut by a sync, lwsync,            *)
(* control-isync, or data/address dependency".                             *)
BothRead(e) ==
  actions[e.src].type = "SimpleRead" /\ actions[e.dst].type = "SimpleRead"

ReadEdgesCut ==
  \A e \in done : e.type = ExecutionEdge /\ BothRead(e) => Ordered(e)
=============================================================================
