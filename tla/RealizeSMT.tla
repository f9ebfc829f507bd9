----------------------------- MODULE RealizeSMT -----------------------------
(***************************************************************************)
(* RealizeRMC::run with the SMT solver: the action graph, then the cuts    *)
(* the solver chooses, and what the emitted code must order.               *)
(***************************************************************************)
EXTENDS Obligations, SMTify

vars == <<fn, actions, edges, graphVars, smtVars>>

Init == GraphInit /\ SMTInit

SmtAnalyze ==
  /\ pc = "cut"
  /\ SMTNext
  /\ UNCHANGED <<fn, actions, edges, graphVars>>

BuildGraph == GraphNext /\ UNCHANGED smtVars

Next == BuildGraph \/ SmtAnalyze

Spec == Init /\ [][Next]_vars

(* The compiler runs on, and the solver answers each query. *)
Solve == step \in {"minimize", "search", "insert"} /\ SmtAnalyze
FairSpec == Spec /\ WF_vars(Solve)

Finished == step = "insert" /\ todo = {}

-----------------------------------------------------------------------------
(* What the emitted code orders after one instance of the source of e, on  *)
(* every walk of the program.  The state of a walk is                      *)
(*   b      the block it is in                                             *)
(*   after  the values that depend on that instance                        *)
(*   ctrl   a branch on such a value was taken                             *)

(* What a fence orders: dmb st only writes, dmb ld only what is behind a   *)
(* read, isync only what is behind a branch. *)
FenceOrders(e, k, ctrl) ==
  \/ k = "sync"
  \/ k = "lwsync" /\ e.type # PushEdge
  \/ k = "dmbst" /\ e.type # PushEdge /\ actions[e.src].type = "SimpleWrites"
  \/ k = "dmbld" /\ e.type = ExecutionEdge
  \/ k = "isync" /\ e.type = ExecutionEdge /\ ctrl

(* A value that depends on the instance was branched on; the retry loop of  *)
(* an RMW branches on what it read.                                        *)
BranchedBy(s, ins, n) ==
  \/ s.ctrl \/ \E v \in s.after : fn.vals[v].op = "rmw"
  \/ \E m \in 1 .. n : ins[m].kind = "ctrl" /\ ins[m].read \in s.after

(* The walk past the inserted instructions ins, unless they order the rest.*)
Past(e, s, ins) ==
  IF \E n \in 1 .. Len(ins) : FenceOrders(e, ins[n].kind, BranchedBy(s, ins, n))
  THEN {} ELSE {[s EXCEPT !.ctrl = BranchedBy(s, ins, Len(ins))]}

WalkStart(e) ==
  [b |-> actions[e.src].out,
   after |-> {actions[e.src].odep} \ {NoValue},
   ctrl |-> FALSE]

Leaving(e, S) == UNION {Past(e, s, back[s.b]) : s \in S}

(* Down the arc to block c. *)
Entering(e, s, c) ==
  {[b |-> c, ctrl |-> t.ctrl,
    after |-> AfterBlock(actions[e.src].odep, hidden, s.after, s.b, c)] :
     t \in Past(e, [s EXCEPT !.ctrl = @ \/ \E v \in s.after : <<s.b, c, v>> \in kept],
                front[c])}

Onward(e, S) ==
  UNION {UNION {Entering(e, s, c) : c \in Succ(fn.cfg, s.b)} : s \in S}

(* Crossing the bind site ends the obligation, unless it is the            *)
(* destination's own block. *)
Arrives(e) ==
  LET Explore[S \in SUBSET [b : Blocks, after : SUBSET DOMAIN fn.vals, ctrl : BOOLEAN]] ==
        LET T == S \cup Leaving(e, {t \in Onward(e, S) : t.b # e.bind})
        IN IF T = S THEN S ELSE Explore[T]
  IN {t \in Onward(e, Explore[Leaving(e, {WalkStart(e)})]) : t.b = actions[e.dst].bb}

(* A release orders everything before its write, where the architecture    *)
(* says so or if that is a write; an acquire everything after its read.    *)
Has(k, a) == actions[a].bb \in fn.sc \/ <<actions[a].bb, k>> \in strong

OrderedByAccess(e) ==
  LET st == actions[e.src].type
      dt == actions[e.dst].type
      reads    == st \in {"SimpleRead", "SimpleRMW"}
      released == Has("release", e.dst)
      acquired == Has("acquire", e.src) /\ reads
  IN /\ e.type # PushEdge
     /\ \/ e.type = ExecutionEdge /\ acquired
        \/ released /\ dt = "SimpleWrites" /\ (params.relAbuse \/ st = "SimpleWrites")
        \/ released /\ dt = "SimpleRMW" /\ e.type = VisibilityEdge
             /\ (params.relAbuse \/ st = "SimpleWrites")
        \/ released /\ acquired /\ dt \in {"SimpleWrites", "SimpleRMW"}

OrderedAt(e, t) ==
  /\ \/ e.type = ExecutionEdge
     \/ e.type = VisibilityEdge /\ actions[e.dst].type = "SimpleRead"
  /\ \/ t.ctrl /\ actions[e.dst].type = "SimpleWrites"
     \/ actions[e.dst].idep \in t.after

Ordered(e) == OrderedByAccess(e) \/ \A t \in Arrives(e) : OrderedAt(e, t)

-----------------------------------------------------------------------------
(* SMTify.cpp:960, "Make sure everything is cut": when the cuts of any     *)
(* cheapest solution are in the code, every edge is ordered on every walk  *)
(* of the program, loops and detours included, although the formulas look  *)
(* at simple paths and at one self edge only.                              *)
EverythingCut == Finished => \A e \in edges : Ordered(e)

(* The part of it that rests on no address: an action that the code does   *)
(* not carry on by the address of a later access, of one block, which      *)
(* computes the value it reads, has its edges ordered by fences, branches  *)
(* and access orders.                                                      *)
NoAddress(e) ==
  LET src == actions[e.src] IN
  /\ src.bb = src.out
  /\ src.odep # NoValue => fn.vals[src.odep].block = src.out /\ src.odep \notin hidden

OrderedWithoutAddress ==
  Finished => \A e \in edges :
    /\ e.bind # actions[e.src].out
    /\ e.type = ExecutionEdge => NoAddress(e)
    => Ordered(e)

(* The same for all that the registered edges demand together, also        *)
(* through actions whose own edges were dropped before the solver ran.     *)
SourceOrderEnforced ==
  Finished => \A e \in Demanded : Observable(e) => Ordered(e)

(* findFirstTrue never loses the least cost out of its interval, and ends  *)
(* with it.                                                                *)
SearchKeepsLeastCost ==
  step = "search" =>
    LET least == Min({Cost(S) : S \in solver})
    IN lo <= least /\ least <= hi /\ (lo >= hi => hi = least)

(* There is always a solution, and one that costs no more than a fence in  *)
(* front of the destination of every edge: the solver is never asked for   *)
(* the impossible.  The bound is this placement, whatever the edges are;   *)
(* cutEdges emits fewer fences where one does for several edges.           *)
NoDearerThanGreedy ==
  step \in {"minimize", "search"} =>
    \E S \in solver : Cost(S) <= Cost(GreedyFences)

(* The assertion of computeCapacities fails exactly for functions that may *)
(* get to where there is no way out: nothing flows back from there, so the *)
(* equations have only the zero solution, although other ways may return.  *)
AbortsIffStuck ==
  /\ step = "abort" => Trapped(fn.cfg)
  /\ step \notin {"abort", "capacities"} => ~Trapped(fn.cfg)

(* findFirstTrue: the solver is asked finitely often, and the cuts of a    *)
(* cheapest solution get inserted.                                         *)
CutsInserted == step = "minimize" ~> Finished
=============================================================================
