------------------------------- MODULE SMTify -------------------------------
(***************************************************************************)
(* The placement of fences by the SMT solver (SMTify.cpp): what each edge  *)
(* needs is stated as a formula over Boolean variables, one per fence or   *)
(* dependency the code could use; the solver is asked for the cheapest     *)
(* solution; and the cuts it names are inserted into the code.             *)
(*                                                                         *)
(* No formula has a negation, so it is represented by the least sets of    *)
(* variables that make it true; {{}} is true and {} is false.  The         *)
(* variables that only name a formula (xcut, pathVcut, ...) are that       *)
(* formula.  Sets that cost more than MaxCost are left out.                *)
(***************************************************************************)
EXTENDS Dependences, FiniteSetsExt, SequencesExt

CONSTANTS Targets,      \* the architectures to compile for
          MaxCapacity   \* bound on the capacity of a block

ASSUME TargetsAssumption == Targets \subseteq {"x86", "POWER", "ARM", "ARMv8"}
ASSUME MaxCapacityAssumption == MaxCapacity \in Nat

(* A block compares values to branch on only if it has two ways to go.     *)
ASSUME BranchAssumption ==
  \A f \in Functions : \A b \in Blocks :
    f.branch[b] # {} => Cardinality(f.cfg.succ[b]) > 1

VARIABLES target,    \* target_
          step,      \* where smtAnalyze, and then run(), is
          cap,       \* the capacity of each block
          solver,    \* the assertions of the solver
          lo, hi,    \* the interval findFirstTrue still searches
          todo,      \* the cuts of the solution not yet inserted
          front,     \* what was inserted at the front of each block
          back,      \* and before the terminator of each block
          kept,      \* branches hidden from LLVM: <<block, successor, value>>
          hidden,    \* values all of whose transitive uses are hidden
          strong     \* <<block, ordering>> given to atomic accesses

code    == <<front, back, kept, hidden, strong>>
smtVars == <<target, step, cap, solver, lo, hi, todo, code>>

-----------------------------------------------------------------------------
(* TuningParams: the costs, Never where the architecture has no such cut.  *)
Never == -1
DefaultParams ==
  [sync |-> 100, lwsync |-> Never, dmbst |-> Never, dmbld |-> Never,
   isync |-> Never, useCtrl |-> Never, addCtrl |-> Never, useData |-> Never,
   release |-> Never, acquire |-> Never, relAbuse |-> FALSE]
WithDependencies(p) == [p EXCEPT !.useCtrl = 1, !.addCtrl = 70, !.useData = 1]

ArchParams(t) ==
  CASE t = "x86"   -> [DefaultParams EXCEPT !.sync = 800, !.lwsync = 500]
    [] t = "POWER" -> [WithDependencies(DefaultParams)
                       EXCEPT !.sync = 800, !.lwsync = 500, !.isync = 200]
    [] t = "ARM"   -> [WithDependencies(DefaultParams)
                       EXCEPT !.sync = 500, !.dmbst = 350]
    [] t = "ARMv8" -> [WithDependencies(DefaultParams)
                       EXCEPT !.sync = 800, !.lwsync = 500, !.dmbst = 350,
                              !.dmbld = 300, !.release = 240, !.acquire = 240,
                              !.relAbuse = TRUE]
params == ArchParams(target)

-----------------------------------------------------------------------------
(* computeCapacities: how often each block runs, if the arcs out of a      *)
(* block are equally likely except where a loop is entered or left.        *)

(* LLVM's LoopInfo: the blocks of the natural loop of each header. *)
LoopInfo ==
  {[graph |-> gh[1], header |-> gh[2],
    body |-> {b \in Blocks :
                /\ Dominates(gh[1], gh[2], b)
                /\ \E t \in Blocks :
                     /\ gh[2] \in gh[1].succ[t]
                     /\ Dominates(gh[1], gh[2], t)
                     /\ b = gh[2] \/ Reaches(gh[1], {gh[2]}, b, t)}] :
     gh \in Graphs \X Blocks}
LoopBody(g, h) == (CHOOSE r \in LoopInfo : r.graph = g /\ r.header = h).body
LoopsAround(g, b) == {h \in Blocks : b \in LoopBody(g, h)}
InnerLoop(g, b) ==
  {h \in LoopsAround(g, b) : LoopBody(g, h) \cap LoopsAround(g, b) = {h}}
LoopExiting(g, b) ==
  \A h \in InnerLoop(g, b) : ~(g.succ[b] \subseteq LoopBody(g, h))

Numerator(g, b, t) ==
  IF InnerLoop(g, b) # {} /\ ~LoopExiting(g, b) THEN 1
  ELSE IF InnerLoop(g, t) = InnerLoop(g, b) THEN 1 ELSE 4

Denominator(g, b) == MapThenSumSet(LAMBDA t : Numerator(g, b, t), g.succ[b])
ArcCap(g, c, b, t) == (c[b] * Numerator(g, b, t)) \div Denominator(g, b)
Exits(g) == {b \in Blocks : g.succ[b] = {}}

(* The equations, in integers. *)
IsFlow(g, c) ==
  /\ c[g.entry] = MapThenSumSet(LAMBDA b : c[b], Exits(g))
  /\ \A b \in Blocks : g.succ[b] # {} =>
       \A t \in g.succ[b] :
         (c[b] * Numerator(g, b, t)) % Denominator(g, b) = 0
  /\ \A b \in Blocks \ {g.entry} :
       c[b] = MapThenSumSet(LAMBDA a : ArcCap(g, c, a, b),
                            {a \in Blocks : b \in g.succ[a]})

(* All zeros is no solution. *)
IsCapacity(g, c) == c[g.entry] > 0 /\ IsFlow(g, c)

(* Some block that may be reached has no way out. *)
Trapped(g) ==
  \E b \in Blocks : /\ Reaches(g, {}, g.entry, b)
                    /\ \A x \in Exits(g) : ~Reaches(g, {}, b, x)

(* The solver's integers have no bound.  Where there always is a way out   *)
(* the equations have a solution; MaxCapacity is high enough for it.       *)
ASSUME CapacityAssumption ==
  \A g \in Graphs : Trapped(g) \/ \E c \in [Blocks -> 0 .. MaxCapacity] : IsCapacity(g, c)

(* The least solution (the solver may return a multiple of it), with the   *)
(* weight of the arcs; of a return's arc back to the entry, the block's.   *)
CapacityTable ==
  {[graph |-> gc[1], node |-> gc[2],
    weight |-> [arc \in Blocks \X Blocks |->
                  IF gc[1].succ[arc[1]] = {} THEN gc[2][arc[1]]
                  ELSE ArcCap(gc[1], gc[2], arc[1], arc[2])]] :
     gc \in {x \in Graphs \X [Blocks -> 0 .. MaxCapacity] :
               /\ IsCapacity(x[1], x[2])
               /\ ~\E n \in 2 .. MaxCapacity : \E d \in [Blocks -> 0 .. MaxCapacity] :
                    /\ d # x[2]
                    /\ \A b \in Blocks : x[2][b] = n * d[b]
                    /\ IsCapacity(x[1], d)}}
Capacities(g) == {r \in CapacityTable : r.graph = g}

Weight(s, d) == cap.weight[<<s, d>>]

-----------------------------------------------------------------------------
(* Variables and formulas. *)

Fences == {"sync", "lwsync", "isync", "dmbst", "dmbld"}
Strengths == {"release", "acquire"}

FenceVar(k, s, d)         == [kind |-> k, src |-> s, dst |-> d]
CtrlVar(dep, s, d)        == [kind |-> "ctrl", src |-> s, dst |-> d, dep |-> dep]
DataVar(bind, dep, d, p)  ==
  [kind |-> "data", src |-> actions[dep].bb, dst |-> d, dep |-> dep,
   bind |-> bind, path |-> p]

(* The cost function.  A data dependency is charged at its destination. *)
CostOf(v) ==
  CASE v.kind = "ctrl" ->
         (IF BranchesOn(v.src, actions[v.dep].odep)
          THEN params.useCtrl ELSE params.addCtrl) * Weight(v.src, v.dst)
    [] v.kind = "data" ->
         params.useData *
           Weight(CHOOSE b \in Blocks : v.dst \in Succ(fn.cfg, b), v.dst)
    [] OTHER -> params[v.kind] * Weight(v.src, v.dst) + 1
Cost(S) == MapThenSumSet(CostOf, S)

(* A fence on the arcs into the destination of each edge would do. *)
GreedyFencesOf(e) ==
  {FenceVar(IF e.type = PushEdge \/ params.lwsync < 0 THEN "sync" ELSE "lwsync",
            b, actions[e.dst].bb) :
     b \in {c \in Blocks : actions[e.dst].bb \in Succ(fn.cfg, c)}}
GreedyFences == UNION {GreedyFencesOf(e) : e \in edges}
Least(F) ==
  LET budget == Cost(GreedyFences)
      G == {S \in F : Cost(S) <= budget}
  IN {S \in G : ~\E T \in G : T # S /\ T \subseteq S}

TrueFormula  == {{}}
FalseFormula == {}
And(F, G) == Least({ST[1] \cup ST[2] : ST \in F \X G})
AllOf(Fs) == FoldSet(And, TrueFormula, Fs)
AnyOf(Fs) == Least(UNION Fs)

IsCut(k, s, d) ==
  IF params[k] >= 0 THEN {{FenceVar(k, s, d)}} ELSE FalseFormula

-----------------------------------------------------------------------------
(* What cuts one path p, a sequence of blocks. *)

Suffix(p, n) == SubSeq(p, n, Len(p))
PathsFrom(bind, s, d) ==
  FindAllSimplePaths(fn.cfg, {bind} \ {Outside}, s, d)
ActionAtBlock(b) == {a \in ActionsOf : actions[a].bb = b}
Readers(b) == {a \in ActionAtBlock(b) : actions[a].odep # NoValue}

(* forAllPathEdges, for a cut on any one arc. *)
ArcCut(k, p) == AnyOf({IsCut(k, p[n], p[n + 1]) : n \in 1 .. Len(p) - 1})

(* makeCtrl: only where the value is there to branch on. *)
Ctrl(a, s, d) ==
  LET def == fn.vals[actions[a].odep].block IN
  IF s = actions[a].bb \/ (s # def /\ Dominates(fn.cfg, def, s))
  THEN {{CtrlVar(a, s, d)}} ELSE FalseFormula

PathCtrl(a, p) == AnyOf({Ctrl(a, p[n], p[n + 1]) : n \in 1 .. Len(p) - 1})

PathCtrlIsync(a, p) ==
  AnyOf({And(Ctrl(a, p[n], p[n + 1]), ArcCut("isync", Suffix(p, n))) :
           n \in 1 .. Len(p) - 1})

PathCtrlCut(p, tail) ==
  IF params.addCtrl < 0 THEN FalseFormula
  ELSE IF actions[tail].type = "SimpleWrites"
  THEN AnyOf({PathCtrl(a, p) : a \in Readers(p[1])})
  ELSE AnyOf({PathCtrlIsync(a, p) : a \in Readers(p[1])})

AllPathsCtrl(a) ==
  AllOf({PathCtrl(a, p) : p \in PathsFrom(Outside, actions[a].bb, actions[a].bb)})

(* makeData, and makePathDataCut: the address of the tail depends on the   *)
(* head, or that of an access in between does and the rest of the path is  *)
(* cut by a dependency on what is read there.                              *)
Data(a, d, p, bind) ==
  AnyOf({{{DataVar(bind, a, d, p)}} :
           t \in {u \in ActionAtBlock(d) :
                    AddrDepsOn([src |-> a, dst |-> u, bind |-> bind], p)}})

PathDataCut(path, tail, bind) ==
  LET Cut[i \in 1 .. Len(path)] ==
        AnyOf(UNION {
          {And(Data(a, path[n + 1], Suffix(path, i), bind),
               IF path[n + 1] = actions[tail].bb THEN TrueFormula
               ELSE AnyOf({PathCtrlCut(Suffix(path, n + 1), tail), Cut[n + 1]})) :
             a \in Readers(path[i])} : n \in i .. Len(path) - 1})
  IN IF params.useData < 0 THEN FalseFormula ELSE Cut[1]

(* makePathVcut: a dmb st is enough behind plain writes. *)
PathVcutForPush(p, type) ==  \* mutant: the test for push edges is inverted
  AnyOf({ArcCut(k, p) : k \in {"sync"} \cup (IF type = PushEdge THEN {"lwsync"} ELSE {})})

PathVcut(p, type) ==
  LET afterWrites == \E a \in ActionAtBlock(p[1]) : actions[a].type = "SimpleWrites"
  IN AnyOf({ArcCut(k, p) :
              k \in {"sync"} \cup (IF type = PushEdge THEN {} ELSE {"lwsync"})
                    \cup (IF type # PushEdge /\ afterWrites THEN {"dmbst"} ELSE {})})

PathXcut(e, p, ctrlAgain, dataAgain) ==
  AnyOf({ArcCut("dmbld", p), PathVcut(p, ExecutionEdge),
         And(PathCtrlCut(p, e.dst), ctrlAgain),
         And(PathDataCut(p, e.dst, e.bind), dataAgain)})

-----------------------------------------------------------------------------
(* What cuts an edge. *)

(* getRelease, getAcquire: fn.sc is the set of blocks whose actions are    *)
(* sequentially consistent accesses only.                                  *)
Strengthened(k, a) ==
  LET bb == actions[a].bb IN
  IF bb \in fn.sc THEN TrueFormula
  ELSE IF fn.cfg.succ[bb] = {} THEN FalseFormula
  ELSE IsCut(k, bb, CHOOSE b \in fn.cfg.succ[bb] : TRUE)

RelAcqCut(e) ==
  LET st == actions[e.src].type
      dt == actions[e.dst].type
      reads == st \in {"SimpleRead", "SimpleRMW"}
  IN AnyOf(
       {IF /\ e.type # PushEdge
           /\ st = "SimpleWrites" \/ params.relAbuse
           /\ \/ dt = "SimpleWrites"
              \/ dt = "SimpleRMW" /\ e.type = VisibilityEdge
        THEN Strengthened("release", e.dst) ELSE FalseFormula,
        IF e.type = ExecutionEdge /\ reads
        THEN Strengthened("acquire", e.src) ELSE FalseFormula,
        IF /\ ~params.relAbuse /\ e.type # PushEdge /\ reads
           /\ dt \in {"SimpleWrites", "SimpleRMW"}
        THEN And(Strengthened("release", e.dst), Strengthened("acquire", e.src))
        ELSE FalseFormula})

XcutIf(e, ctrlAgain, dataAgain) ==
  AnyOf({RelAcqCut(e),
         AllOf({PathXcut(e, p, ctrlAgain, dataAgain) :
                  p \in PathsFrom(e.bind, actions[e.src].bb, actions[e.dst].bb)})})

(* makeXcut: a dependency orders one instance of the source only, which    *)
(* must be ordered with the next one.                                      *)
XcutOnce(e) ==  \* mutant: the next instance of the source is forgotten
  XcutIf(e, TrueFormula, TrueFormula)

Xcut(e) ==
  LET again == XcutIf([e EXCEPT !.dst = e.src], TrueFormula, TrueFormula)
      head  == Readers(actions[e.src].bb)
  IN IF actions[e.src].bb = actions[e.dst].bb
     THEN XcutIf(e, TrueFormula, TrueFormula)
     ELSE XcutIf(e, AnyOf({again} \cup {AllPathsCtrl(a) : a \in head}), again)

VcutIsLwsync(e) ==  \* mutant: push edges are cut like visibility edges
  AnyOf({RelAcqCut(e),
         AllOf({PathVcut(p, VisibilityEdge) :
                  p \in PathsFrom(e.bind, actions[e.src].out, actions[e.dst].bb)})})

Vcut(e) ==
  AnyOf({RelAcqCut(e),
         AllOf({PathVcut(p, e.type) :
                  p \in PathsFrom(e.bind, actions[e.src].out, actions[e.dst].bb)})})

EdgesCut ==
  AllOf({IF e.type = ExecutionEdge THEN Xcut(e) ELSE Vcut(e) : e \in edges})

-----------------------------------------------------------------------------
(* smtAnalyzeInner, from the capacities to the solution. *)

ComputeCapacities ==
  /\ step = "capacities"
  /\ cap' \in Capacities(fn.cfg)
  /\ step' = "constraints"
  /\ UNCHANGED <<target, solver, lo, hi, todo, code>>

(* The assertion that the equations have a solution. *)
CapacitiesFail ==
  /\ step = "capacities"
  /\ Capacities(fn.cfg) = {}
  /\ step' = "abort"
  /\ UNCHANGED <<target, cap, solver, lo, hi, todo, code>>

MakeSureEverythingIsCut ==
  /\ step = "constraints"
  /\ solver' = EdgesCut
  /\ step' = "minimize"
  /\ UNCHANGED <<target, cap, lo, hi, todo, code>>

(* handMinimize: the cost of some solution is an upper bound. *)
GuessUpperBound ==
  /\ step = "minimize"
  /\ \E S \in solver : hi' = Cost(S)
  /\ lo' = 0
  /\ step' = "search"
  /\ UNCHANGED <<target, cap, solver, todo, code>>

IsCostUnder(c) == \E S \in solver : Cost(S) <= c

(* findFirstTrue: one turn of the recursion. *)
FindFirstTrueBelow ==  \* mutant: a middle that holds is not kept
  LET mid == lo + (hi - lo) \div 2 IN
  /\ step = "search"
  /\ lo < hi
  /\ IF IsCostUnder(mid)
     THEN hi' = mid - 1 /\ UNCHANGED lo
     ELSE lo' = mid + 1 /\ UNCHANGED hi
  /\ UNCHANGED <<target, step, cap, solver, todo, code>>

FindFirstTrueStuck ==  \* mutant: the middle stays in the upper half
  LET mid == lo + (hi - lo) \div 2 IN
  /\ step = "search"
  /\ lo < hi
  /\ IF IsCostUnder(mid)
     THEN hi' = mid /\ UNCHANGED lo
     ELSE lo' = mid /\ UNCHANGED hi
  /\ UNCHANGED <<target, step, cap, solver, todo, code>>

FindFirstTrue ==
  LET mid == lo + (hi - lo) \div 2 IN
  /\ step = "search"
  /\ lo < hi
  /\ IF IsCostUnder(mid)
     THEN hi' = mid /\ UNCHANGED lo
     ELSE lo' = mid + 1 /\ UNCHANGED hi
  /\ UNCHANGED <<target, step, cap, solver, todo, code>>

TakeModel ==
  /\ step = "search"
  /\ lo >= hi
  /\ \E S \in solver : Cost(S) = hi /\ todo' = S
  /\ step' = "insert"
  /\ UNCHANGED <<target, cap, solver, lo, hi, code>>

-----------------------------------------------------------------------------
(* insertCut: the cuts come in the order of the table of cut types, then   *)
(* the control and the data dependencies.                                  *)
CutOrder == <<"sync", "lwsync", "isync", "dmbst", "dmbld", "release",
              "acquire", "ctrl", "data">>
Rank(v) == CHOOSE n \in 1 .. Len(CutOrder) : CutOrder[n] = v.kind

Fence(k)  == [kind |-> k, read |-> NoValue]
Branch(v) == [kind |-> "ctrl", read |-> v]

(* getCutInstr, for a block with one successor: before the terminator, and *)
(* a branch before an isync that is there.                                 *)
PutBack(s, new) ==
  IF new.kind = "ctrl" /\ s # <<>> /\ Last(s) = Fence("isync")
  THEN InsertAt(s, Len(s), new) ELSE Append(s, new)

Put(v, new) ==
  IF Cardinality(fn.cfg.succ[v.src]) > 1
  THEN /\ front' = [front EXCEPT ![v.dst] = <<new>> \o @]
       /\ UNCHANGED back
  ELSE /\ back' = [back EXCEPT ![v.src] = PutBack(@, new)]
       /\ UNCHANGED front

InsertFence(v) ==
  /\ v.kind \in Fences
  /\ Put(v, Fence(v.kind))
  /\ UNCHANGED <<kept, hidden, strong>>

InsertCtrl(v) ==
  LET read == actions[v.dep].odep IN
  /\ v.kind = "ctrl"
  /\ IF BranchesOn(v.src, read)
     THEN /\ kept' = kept \cup {<<v.src, v.dst, read>>}
          /\ UNCHANGED <<front, back>>
     ELSE Put(v, Branch(read)) /\ UNCHANGED kept
  /\ UNCHANGED <<hidden, strong>>

InsertData(v) ==
  /\ v.kind = "data"
  /\ hidden' = hidden \cup {actions[v.dep].odep}
  /\ UNCHANGED <<front, back, kept, strong>>

StrengthenBlockOrders(v) ==
  /\ v.kind \in Strengths
  /\ strong' = strong \cup {<<v.src, v.kind>>}
  /\ UNCHANGED <<front, back, kept, hidden>>

InsertCut ==
  /\ step = "insert"
  /\ \E v \in todo :
       /\ \A w \in todo : Rank(v) <= Rank(w)
       /\ InsertFence(v) \/ InsertCtrl(v) \/ InsertData(v) \/ StrengthenBlockOrders(v)
       /\ todo' = todo \ {v}
  /\ UNCHANGED <<target, step, cap, solver, lo, hi>>

SMTInit ==
  /\ target \in Targets
  /\ step = "capacities"
  /\ cap = <<>>
  /\ solver = {}
  /\ lo = 0 /\ hi = 0
  /\ todo = {}
  /\ front = [b \in Blocks |-> <<>>]
  /\ back = [b \in Blocks |-> <<>>]
  /\ kept = {} /\ hidden = {} /\ strong = {}

SMTNext ==
  ComputeCapacities \/ CapacitiesFail \/ MakeSureEverythingIsCut
  \/ GuessUpperBound \/ FindFirstTrue \/ TakeModel \/ InsertCut
=============================================================================
