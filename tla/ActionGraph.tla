---------------------------- MODULE ActionGraph ----------------------------
(***************************************************************************)
(* The action graph (findEdges to rebuildEdges in RMC.cpp): the edges a    *)
(* function registers are collected, closed transitively, stripped of the  *)
(* edges that have no effect, and turned into the list of edges to cut.    *)
(*                                                                         *)
(* An edge is a member of a set: Action.edges of all actions, and likewise *)
(* Action.transEdges, is a set of edges here.                              *)
(***************************************************************************)
EXTENDS RMCInternal, FiniteSetsExt, SequencesExt

VARIABLES pc,       \* which pass of run() is under way
          pending,  \* the registration calls findEdges has not reached
          graph,    \* Action.edges, of every action and edge type
          trans,    \* Action.transEdges, likewise
          at        \* how many triples of the closure's loops are past

graphVars == <<pc, pending, graph, trans, at>>

(* collectEdges: several blocks may carry one label; "pre" and "post" are  *)
(* no labels.                                                              *)
Labelled(name) == {a \in ActionsOf : actions[a].name = name}

PrePost(bb) == [name |-> "", bb |-> bb, out |-> bb, type |-> "PrePost",
                odep |-> NoValue, idep |-> NoValue]

(* getPreAction, getPostAction: the dummy action sits in the only block    *)
(* before or after the action.                                             *)
PreBlock(a) == CHOOSE b \in Blocks : a.bb \in fn.cfg.succ[b]
PostBlock(a) == CHOOSE b \in Blocks : b \in fn.cfg.succ[a.out]

(* makePrePostAction, for each of a set of blocks: only where bb2action_   *)
(* has none yet.                                                           *)
WithPrePost(bbs) ==
  actions \o LET new == SetToSeq({b \in bbs :
                                    \A a \in ActionsOf : actions[a].bb # b})
             IN [n \in 1 .. Len(new) |-> PrePost(new[n])]

ActionAt(acts, bb) == CHOOSE a \in 1 .. Len(acts) : acts[a].bb = bb

(* registerEdge, of a set of edges. *)
RegisterEdges(new) ==
  /\ graph' = graph \cup new
  /\ edges' = edges \cup new

(* The blocks that a registration looks at for a dummy action. *)
Pres(call)  == IF call.src = "pre" THEN Labelled(call.dst) ELSE {}
Posts(call) == IF call.dst = "post" THEN Labelled(call.src) ELSE {}
Pushed(call) == {a \in ActionsOf : actions[a].bb = call.block}

DummyBlocks(call) ==
  IF call.kind = "push"
  THEN {PreBlock(actions[a]) : a \in Pushed(call)}
       \cup {PostBlock(actions[a]) : a \in Pushed(call)}
  ELSE {PreBlock(actions[d]) : d \in Pres(call)}
       \cup {PostBlock(actions[s]) : s \in Posts(call)}

(* The assertion of makePrePostAction: what is there is a dummy action.    *)
Clashes(bbs) ==
  \E b \in bbs, a \in ActionsOf : actions[a].bb = b /\ actions[a].type # "PrePost"

(* processEdge.  The program names labels that exist. *)
ProcessEdge(call) ==
  LET acts == WithPrePost(DummyBlocks(call))
      srcs == Labelled(call.src)
      dsts == Labelled(call.dst)
  IN /\ call.kind = "edge"
     /\ actions' = acts
     /\ RegisterEdges(
          {Edge(call.type, s, d, call.bind) : s \in srcs, d \in dsts}
          \cup {Edge(call.type, ActionAt(acts, PreBlock(actions[d])), d,
                     call.bind) : d \in Pres(call)}
          \cup {Edge(call.type, s, ActionAt(acts, PostBlock(actions[s])),
                     call.bind) : s \in Posts(call)})

(* processPush: a push in an action, if only a dummy one, is an edge from  *)
(* its pre to its post action; any other push is left alone.               *)
ProcessPush(call) ==
  LET acts == WithPrePost(DummyBlocks(call))
  IN /\ call.kind = "push"
     /\ actions' = acts
     /\ RegisterEdges({Edge(PushEdge, ActionAt(acts, PreBlock(actions[a])),
                            ActionAt(acts, PostBlock(actions[a])), Outside) :
                         a \in Pushed(call)})

FindEdges ==
  /\ pc = "findEdges"
  /\ pending # <<>>
  /\ ~Clashes(DummyBlocks(Head(pending)))
  /\ ProcessEdge(Head(pending)) \/ ProcessPush(Head(pending))
  /\ pending' = Tail(pending)
  /\ UNCHANGED <<fn, pc, trans, at>>

(* buildActionGraph: visibility implies execution; push is not propagated. *)
(* The execution version of a visibility edge does not replace or join an  *)
(* execution edge between the same actions (MapVector's insert keeps the   *)
(* entry it has), whatever the bind sites are.                             *)
Joined(type, e) == \E f \in graph : f.type = type /\ f.src = e.src /\ f.dst = e.dst

BuildGraphByType ==  \* mutant: visibility edges are visibility edges only
  /\ pc = "findEdges"
  /\ pending = <<>>
  /\ trans' = graph
  /\ at' = 0
  /\ pc' = "close"
  /\ UNCHANGED <<fn, actions, edges, pending, graph>>

BuildActionGraph ==
  /\ pc = "findEdges"
  /\ pending = <<>>
  /\ trans' = graph \cup {[e EXCEPT !.type = ExecutionEdge] :
                            e \in {f \in graph : f.type = VisibilityEdge
                                               /\ ~Joined(ExecutionEdge, f)}}
  /\ at' = 0
  /\ pc' = "close"
  /\ UNCHANGED <<fn, actions, edges, pending, graph>>

(* mergeBindPoints: outside absorbs; otherwise the nearest common          *)
(* dominator, which is asserted to be one of the two.                      *)
MergeBindPoints(b1, b2) ==
  IF b1 = Outside \/ b2 = Outside THEN Outside
  ELSE IF Dominates(fn.cfg, b1, b2) THEN b1 ELSE b2

BindsOf(type, src, dst) ==
  {e.bind : e \in {f \in trans : f.type = type /\ f.src = src /\ f.dst = dst}}

(* transitiveClosure: the loops run k, i, j within each type; a triple     *)
(* without both edges is skipped.  The sets of bind sites are those at the *)
(* start of the inner loops.                                               *)
Triple(n) ==
  LET N == Len(actions) IN
  [type |-> n \div (N * N * N),
   k |-> ((n \div (N * N)) % N) + 1,
   i |-> ((n \div N) % N) + 1,
   j |-> (n % N) + 1]

TripleCount == Cardinality(EdgeTypes) * Len(actions) * Len(actions) * Len(actions)

JoinsUnbound(t) ==  \* mutant: the bind sites of the two edges are dropped
  {Edge(t.type, t.i, t.j, Outside) :
     b1 \in BindsOf(t.type, t.i, t.k), b2 \in BindsOf(t.type, t.k, t.j)}

Joins(t) == {Edge(t.type, t.i, t.j, MergeBindPoints(b1, b2)) :
               b1 \in BindsOf(t.type, t.i, t.k), b2 \in BindsOf(t.type, t.k, t.j)}

JoinsFrom(n) == {m \in n .. TripleCount - 1 : Joins(Triple(m)) # {}}

(* The assertion of mergeBindPoints. *)
Incomparable(t) ==
  \E b1 \in BindsOf(t.type, t.i, t.k) \ {Outside},
     b2 \in BindsOf(t.type, t.k, t.j) \ {Outside} :
    ~Dominates(fn.cfg, b1, b2) /\ ~Dominates(fn.cfg, b2, b1)

NextJoin == Triple(Min(JoinsFrom(at)))

TransitiveClosure ==
  /\ pc = "close"
  /\ JoinsFrom(at) # {}
  /\ ~Incomparable(NextJoin)
  /\ trans' = trans \cup Joins(NextJoin)
  /\ at' = Min(JoinsFrom(at)) + 1
  /\ UNCHANGED <<fn, actions, edges, pc, pending, graph>>

(* A failed assertion ends the compiler. *)
AssertFails ==
  /\ \/ pc = "findEdges" /\ pending # <<>> /\ Clashes(DummyBlocks(Head(pending)))
     \/ pc = "close" /\ JoinsFrom(at) # {} /\ Incomparable(NextJoin)
  /\ pc' = "abort"
  /\ UNCHANGED <<fn, actions, edges, pending, graph, trans, at>>

(* removeUselessEdges: an edge of a no-op matters only through the closure;*)
(* nothing runs before or after a write because the write executed; and a  *)
(* visibility edge to a read is at most the execution edge that is there.  *)
Useless(e) ==
  LET st == actions[e.src].type
      dt == actions[e.dst].type
  IN \/ /\ e.type # PushEdge
        /\ "Nop" \in {st, dt}
     \/ e.type = ExecutionEdge /\ st = "SimpleWrites"
     \/ e.type = VisibilityEdge /\ st \in {"SimpleRead", "SimpleWrites"}
          /\ dt = "SimpleRead"

RemoveUselessEdges ==
  /\ pc = "close"
  /\ JoinsFrom(at) = {}
  /\ trans' = {e \in trans : ~Useless(e)}
  /\ at' = TripleCount
  /\ pc' = "rebuild"
  /\ UNCHANGED <<fn, actions, edges, pending, graph>>

RebuildEdges ==
  /\ pc = "rebuild"
  /\ edges' = trans
  /\ pc' = "cut"
  /\ UNCHANGED <<fn, actions, pending, graph, trans, at>>

(* findActions has split and numbered the actions, and analyzeAction has   *)
(* typed them: registrations is a set of pointers, so the order of the     *)
(* vector is any order.                                                    *)
GraphInit ==
  /\ fn \in Functions
  /\ actions = fn.acts
  /\ pending = fn.calls
  /\ edges = {}
  /\ graph = {}
  /\ trans = {}
  /\ at = 0
  /\ pc = "findEdges"

GraphNext ==
  FindEdges \/ BuildActionGraph \/ TransitiveClosure \/ AssertFails
  \/ RemoveUselessEdges \/ RebuildEdges

-----------------------------------------------------------------------------
(* The actions and the edges of every pass have their types: an edge only  *)
(* ever joins actions that exist.                                          *)
GraphTypeOK ==
  /\ fn \in Functions
  /\ actions \in Seq(ActionRecords(fn))
  /\ edges \subseteq Edges
  /\ graph \subseteq Edges
  /\ trans \subseteq Edges
  /\ at \in 0 .. TripleCount
=============================================================================
