----------------------------- MODULE GreedyCut -----------------------------
(***************************************************************************)
(* The placement of fences without the SMT solver (cutEdges in RMC.cpp):   *)
(* the edges are taken strongest type first; an edge that is already cut   *)
(* on every simple path by the recorded block cuts, by a branch on the     *)
(* source's value or by an address dependency costs nothing, and any other *)
(* edge gets a sync or an lwsync at the front of its destination.          *)
(*                                                                         *)
(* edges_ is sorted by type and keeps, within one type, an order that      *)
(* depends on pointers and on insertions: here it is a set, and a step     *)
(* takes any edge of the strongest type that is left.                      *)
(***************************************************************************)
EXTENDS Dependences

VARIABLES done,     \* the edges already processed
          cuts,     \* cuts_: the cut recorded for a block
          fences,   \* the fences emitted at the front of a block, in order
          kept,     \* branches hidden from LLVM: <<block, successor, value>>
          hidden    \* values all of whose transitive uses are hidden

cutVars == <<done, cuts, fences, kept, hidden>>

NoBlockCut == [type |-> "None", front |-> FALSE]
BlockCuts == {NoBlockCut} \cup [type : {"Lwsync", "Sync"}, front : BOOLEAN]

(* isPathCut: is there a recorded cut between the ends of the path?        *)
(* (It looks for CutCtrlIsync as well, which no code records.)             *)
HardAtAnywhere(e, p, n) ==  \* mutant: a fence before the source counts
  LET cut == cuts[p[n]] IN
  \/ cut.type = "Sync"
  \/ cut.type = "Lwsync" /\ e.type < PushEdge

HardAt(e, p, n) ==
  LET cut == cuts[p[n]] IN
  /\ ~(n = 1 /\ cut.front)
  /\ ~(n = Len(p) /\ ~cut.front)
  /\ \/ cut.type = "Sync"
     \/ cut.type = "Lwsync" /\ e.type < PushEdge

IsHardCut(e, p) == Len(p) <= 1 \/ \E n \in 1 .. Len(p) : HardAt(e, p, n)

BranchAt(e, p, justCheckCtrl, n) ==
  /\ e.type = ExecutionEdge
  /\ actions[e.src].odep # NoValue
  /\ actions[e.dst].type \in {"SimpleWrites", "SimpleRMW"} \/ justCheckCtrl
  /\ BranchesOn(p[n], actions[e.src].odep)

HasSoftCut(e, p, justCheckCtrl) ==
  \E n \in 1 .. Len(p) - 1 : BranchAt(e, p, justCheckCtrl, n)

IsPathCut(e, p, justCheckCtrl) ==
  IF IsHardCut(e, p) THEN HardCut
  ELSE IF HasSoftCut(e, p, justCheckCtrl) THEN SoftCut
  ELSE IF AddrDepsOn(e, p) THEN DataCut
  ELSE NoCut

EdgePaths(e) ==
  FindAllSimplePaths(fn.cfg, SkipSet(e),
                     actions[e.src].out, actions[e.dst].bb)

(* isEdgeCut: the weakest of the paths, a hard cut when there is none. *)
IsEdgeCut(e, justCheckCtrl) ==
  LET strengths == {IsPathCut(e, p, justCheckCtrl) : p \in EdgePaths(e)}
                     \cup {HardCut}
  IN CHOOSE s \in strengths : \A t \in strengths : s <= t

SelfEdge(e) == [e EXCEPT !.dst = e.src]

(* isCut: what orders one iteration only must also order the source with   *)
(* its own next instance.                                                  *)
IsCutOnce(e) ==  \* mutant: one instance of the source is enough
  IsEdgeCut(e, FALSE) > NoCut

IsCut(e) ==
  LET strength == IsEdgeCut(e, FALSE) IN
  \/ strength = HardCut
  \/ strength = DataCut /\ IsEdgeCut(SelfEdge(e), FALSE) > NoCut
  \/ strength = SoftCut /\ IsEdgeCut(SelfEdge(e), TRUE) > NoCut

(* What isEdgeCut(e, true, justCheckCtrl) protects from LLVM on each path  *)
(* that is not hard cut before: the first branch, or else the dependency.  *)
EnforceBranches(e, justCheckCtrl) ==
  UNION {{<<p[n], p[n + 1], actions[e.src].odep>> :
            n \in {m \in 1 .. Len(p) - 1 :
                    /\ BranchAt(e, p, justCheckCtrl, m)
                    /\ \A k \in 1 .. m - 1 : ~BranchAt(e, p, justCheckCtrl, k)
                    /\ \A k \in 1 .. m : ~HardAt(e, p, k)}} :
         p \in EdgePaths(e)}

EnforceDeps(e, justCheckCtrl) ==
  IF \E p \in EdgePaths(e) : IsPathCut(e, p, justCheckCtrl) = DataCut
  THEN {actions[e.src].odep} ELSE {}

(* cutEdge of an edge that is cut: isCut protects the dependencies it      *)
(* relies on, of the edge and of its self edge, and nothing is emitted.    *)
KeepCut(e) ==
  /\ IsCut(e)
  /\ LET strength == IsEdgeCut(e, FALSE)
         both == {e, SelfEdge(e)}
     IN IF strength = HardCut
        THEN UNCHANGED <<kept, hidden>>
        ELSE /\ kept' = kept \cup
                  UNION {EnforceBranches(f, strength = SoftCut) : f \in both}
             /\ hidden' = hidden \cup
                  UNION {EnforceDeps(f, strength = SoftCut) : f \in both}
  /\ UNCHANGED <<cuts, fences>>

(* cutEdge of any other edge.  The recorded cut is an lwsync even where a  *)
(* sync was emitted.                                                       *)
InsertFence(e) ==
  LET bb == actions[e.dst].bb IN
  /\ ~IsCut(e)
  /\ fences' = [fences EXCEPT ![bb] =
                  Append(@, IF e.type = PushEdge THEN "sync" ELSE "lwsync")]
  /\ cuts' = [cuts EXCEPT ![bb] = [type |-> "Lwsync", front |-> TRUE]]
  /\ UNCHANGED <<kept, hidden>>

(* cutEdges: push, then visibility, then execution edges. *)
CutEdgeUnsorted(e) ==  \* mutant: the edges come in any order
  /\ e \in edges
  /\ KeepCut(e) \/ InsertFence(e)
  /\ edges' = edges \ {e}
  /\ done' = done \cup {e}
  /\ UNCHANGED <<fn, actions>>

CutEdge(e) ==
  /\ e \in edges
  /\ \A f \in edges : f.type <= e.type
  /\ KeepCut(e) \/ InsertFence(e)
  /\ edges' = edges \ {e}
  /\ done' = done \cup {e}
  /\ UNCHANGED <<fn, actions>>

CutInit ==
  /\ done = {}
  /\ cuts = [b \in Blocks |-> NoBlockCut]
  /\ fences = [b \in Blocks |-> <<>>]
  /\ kept = {}
  /\ hidden = {}

CutNext == \E e \in edges : CutEdge(e)
=============================================================================
