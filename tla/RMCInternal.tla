---------------------------- MODULE RMCInternal ----------------------------
(***************************************************************************)
(* The data of the RMC pass (RMCInternal.h): the function being compiled,  *)
(* its actions, and the edges between them.  A function is a record        *)
(*   cfg     its control-flow graph                                        *)
(*   acts    its labelled actions, in the order of the vector actions_     *)
(*   calls   the registrations of edges and pushes, in program order       *)
(*   branch  block -> the values its conditional branch compares           *)
(*   vals    SSA value -> [op, block, args, ins]; op is "load", "rmw",     *)
(*           "gep" (any operation the dependency search looks through),    *)
(*           "phi" (ins: the set of <<block, value>> it joins) or "other"  *)
(* A basic block that holds an action holds nothing else (findActions      *)
(* splits it off).  Types, operands and instructions that access no shared *)
(* memory are abstracted away.                                             *)
(***************************************************************************)
EXTENDS PathCache

CONSTANTS NoValue,    \* a null outgoingDep or incomingDep
          Labels,     \* the names of actions
          Functions   \* the functions a run compiles

(* RMCEdgeType: the values are the ones in rmc-core.h, and are compared.   *)
ExecutionEdge  == 0
VisibilityEdge == 1
PushEdge       == 2
EdgeTypes == {ExecutionEdge, VisibilityEdge, PushEdge}

ActionTypes == {"PrePost", "Nop", "Complex", "SimpleRead", "SimpleWrites",
                "SimpleRMW", "Give", "Take"}

BindSites == Blocks \cup {Outside}

(* The Action records and the registration calls of function f. *)
ActionRecords(f) ==
  [name : Labels \cup {""}, bb : Blocks, out : Blocks, type : ActionTypes,
   odep : DOMAIN f.vals \cup {NoValue}, idep : DOMAIN f.vals \cup {NoValue}]

EdgeCalls == [kind : {"edge"}, type : EdgeTypes, src : Labels \cup {"pre"},
              dst : Labels \cup {"post"}, bind : BindSites]
PushCalls == [kind : {"push"}, block : Blocks]

(* There is a block before bb and one after out. *)
HasRoom(f, bb, out) ==
  (\E b \in Blocks : bb \in f.cfg.succ[b]) /\ f.cfg.succ[out] # {}

ASSUME LabelsAssumption == "" \notin Labels
ASSUME FunctionsAssumption ==
  \A f \in Functions :
    /\ f.cfg \in Graphs
    /\ f.acts \in Seq(ActionRecords(f))
    /\ f.calls \in Seq(EdgeCalls \cup PushCalls)

(* A function has finitely many values; operands are values as well. *)
ASSUME ValuesAssumption ==
  \A f \in Functions :
    /\ IsFiniteSet(DOMAIN f.vals)
    /\ \A v \in DOMAIN f.vals : f.vals[v].args \subseteq DOMAIN f.vals

(* findActions gives every action a first block of its own.                *)
ASSUME ApartAssumption ==
  \A f \in Functions : \A m, n \in 1 .. Len(f.acts) :
    f.acts[m].bb \in {f.acts[n].bb, f.acts[n].out} => m = n

(* findActions puts a block of its own before and after every action; a    *)
(* function has these blocks where a registration looks for them.          *)
LooksAround(c, a) ==
  \/ c.kind = "push" /\ c.block = a.bb
  \/ c.kind = "edge" /\ c.src = "pre" /\ c.dst = a.name
  \/ c.kind = "edge" /\ c.dst = "post" /\ c.src = a.name

ASSUME RoomAssumption ==
  \A f \in Functions : \A n \in 1 .. Len(f.calls) :
    /\ f.calls[n].kind = "push" => HasRoom(f, f.calls[n].block, f.calls[n].block)
    /\ \A a \in 1 .. Len(f.acts) :
         LooksAround(f.calls[n], f.acts[a]) => HasRoom(f, f.acts[a].bb, f.acts[a].out)

VARIABLES fn,       \* func_: the function being compiled
          actions,  \* actions_: the labelled actions, then the pre/post ones
          edges     \* edges_: the edges registered, later those to be cut

(* CutStrength, compared with < *)
NoCut   == 0
DataCut == 1
SoftCut == 2
HardCut == 3

(* An RMCEdge between the actions of index src and dst. *)
Edge(type, src, dst, bind) ==
  [type |-> type, src |-> src, dst |-> dst, bind |-> bind]

ActionsOf == 1 .. Len(actions)
Edges == [type : EdgeTypes, src : ActionsOf, dst : ActionsOf, bind : BindSites]
=============================================================================
