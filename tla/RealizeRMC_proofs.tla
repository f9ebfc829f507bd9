------------------------- MODULE RealizeRMC_proofs -------------------------
(***************************************************************************)
(* The passes of RMC.cpp keep their types, and the greedy algorithm puts   *)
(* the fences that the kinds of the edges call for, whatever the function, *)
(* its control-flow graph and its edges are; the closure of the edges      *)
(* derives nothing that does not follow from them; and the fences and the  *)
(* branches that are kept order every edge that needs no address for it.   *)
(* Before that: every action that is found is what is between its calls,   *)
(* and what is said of it never understates what it does.                  *)
(***************************************************************************)
EXTENDS RealizeRMC, FindActions, ActionGraph_proofs, SequenceTheorems

-----------------------------------------------------------------------------
(* Types.                                                                  *)

TypeInv == GraphInv /\ CutTypeOK

LEMMA TypesOfGraph == TypeInv => GraphInv /\ TypeOK
BY DEF TypeInv, GraphInv, TypeOK

LEMMA BuildGraphType ==
  ASSUME TypeInv, BuildGraph
  PROVE  TypeInv'
<1>1. GraphInv' /\ Edges \subseteq Edges' /\ fn' = fn
  BY TypesOfGraph, GraphType DEF BuildGraph
<1>2. CutTypeOK'
  BY <1>1 DEF TypeInv, BuildGraph, CutTypeOK, cutVars
<1> QED BY <1>1, <1>2 DEF TypeInv

(* What findAllSimplePaths returns are paths of blocks. *)
LEMMA EdgePathsType ==
  ASSUME TypeInv, NEW e, NEW p \in EdgePaths(e)
  PROVE  /\ Len(p) \in Nat /\ Len(p) >= 2
         /\ \A n \in 1 .. Len(p) : p[n] \in Blocks
         /\ p[Len(p)] = actions[e.dst].bb
<1>1. p \in BlockSequences /\ Len(p) >= 2 /\ p[Len(p)] = actions[e.dst].bb
  <2>1. fn.cfg \in Graphs
    BY FunctionsAssumption DEF TypeInv, TypeOK, GraphInv, GraphTypeOK
  <2>2. p \in PathsOf(fn.cfg) /\ Len(p) >= 2 /\ p[Len(p)] = actions[e.dst].bb
    BY DEF EdgePaths, FindAllSimplePaths
  <2>3. p \in {r.path : r \in {q \in SimplePaths : q.graph = fn.cfg}}
    BY <2>1, <2>2, PathsOfGraph
  <2>4. \A q \in SimplePaths : q.path \in BlockSequences
    BY DEF SimplePaths
  <2> QED BY <2>2, <2>3, <2>4
<1>2. PICK n \in 1 .. Cardinality(Blocks) + 1 : p \in [1 .. n -> Blocks]
  BY <1>1 DEF BlockSequences
<1>3. Cardinality(Blocks) \in Nat
  BY BlocksAssumption, FS_CardinalityType
<1>4. n \in Nat /\ Len(p) = n
  BY <1>2, <1>3
<1> QED BY <1>1, <1>2, <1>4

(* What the dependencies hidden from LLVM are. *)
LEMMA EnforceType ==
  ASSUME TypeInv, NEW e \in Edges, NEW j \in BOOLEAN
  PROVE  /\ EnforceBranches(e, j) \subseteq Blocks \X Blocks \X DOMAIN fn.vals
         /\ EnforceDeps(e, j) \subseteq DOMAIN fn.vals
<1>1. actions[e.src].odep \in DOMAIN fn.vals \cup {NoValue}
  BY TypesOfGraph, ActionType DEF Edges, ActionRecords
<1>2. ASSUME NEW p \in EdgePaths(e), NEW n \in 1 .. Len(p) - 1, BranchAt(e, p, j, n)
      PROVE  <<p[n], p[n + 1], actions[e.src].odep>>
               \in Blocks \X Blocks \X DOMAIN fn.vals
  <2>1. p[n] \in Blocks /\ p[n + 1] \in Blocks
    BY EdgePathsType
  <2>2. actions[e.src].odep \in DOMAIN fn.vals
    BY <1>1, <1>2 DEF BranchAt
  <2> QED BY <2>1, <2>2
<1>3. EnforceBranches(e, j) \subseteq Blocks \X Blocks \X DOMAIN fn.vals
  BY <1>2 DEF EnforceBranches
<1>4. ASSUME NEW p \in EdgePaths(e), IsPathCut(e, p, j) = DataCut
      PROVE  actions[e.src].odep \in DOMAIN fn.vals
  <2>1. AddrDepsOn(e, p)
    BY <1>4 DEF IsPathCut, DataCut, NoCut, SoftCut, HardCut
  <2> QED BY <2>1, <1>1 DEF AddrDepsOn
<1>5. EnforceDeps(e, j) \subseteq DOMAIN fn.vals
  BY <1>4 DEF EnforceDeps
<1> QED BY <1>3, <1>5

LEMMA CutType ==
  ASSUME TypeInv, CutEdges
  PROVE  TypeInv'
<1>1. PICK e \in edges : CutEdge(e)
  BY DEF CutEdges, CutNext
<1>2. UNCHANGED <<fn, actions, pending, graph, trans, at, pc>>
      /\ edges' = edges \ {e} /\ done' = done \cup {e} /\ e \in Edges
  BY <1>1 DEF CutEdge, CutEdges, graphVars, TypeInv, TypeOK, GraphInv, GraphTypeOK
<1>3. GraphInv' /\ Edges' = Edges
  <2>1. UNCHANGED <<fn, actions, graphVars>> /\ edges' \subseteq edges
    BY <1>2 DEF graphVars
  <2> QED BY <2>1, TypesOfGraph, GraphKept
<1>4. done' \subseteq Edges'
  BY <1>2, <1>3 DEF TypeInv, CutTypeOK
<1>5. CASE KeepCut(e)
  <2>1. SelfEdge(e) \in Edges
    BY <1>2 DEF SelfEdge, Edges
  <2>2. kept' \subseteq Blocks \X Blocks \X DOMAIN fn.vals
        /\ hidden' \subseteq DOMAIN fn.vals
    <3> DEFINE soft == IsEdgeCut(e, FALSE) = SoftCut
    <3>1. /\ kept' \subseteq kept \cup UNION {EnforceBranches(f, soft) : f \in {e, SelfEdge(e)}}
          /\ hidden' \subseteq hidden \cup UNION {EnforceDeps(f, soft) : f \in {e, SelfEdge(e)}}
      BY <1>5 DEF KeepCut
    <3>2. soft \in BOOLEAN
      OBVIOUS
    <3> HIDE DEF soft
    <3> QED BY <3>1, <3>2, <2>1, <1>2, EnforceType DEF TypeInv, TypeOK, CutTypeOK
  <2> QED BY <1>2, <1>3, <1>4, <1>5, <2>2 DEF KeepCut, TypeInv, CutTypeOK
<1>6. CASE InsertFence(e)
  <2> DEFINE bb == actions[e.dst].bb
  <2>1. bb \in Blocks
    BY <1>2, TypesOfGraph, ActionType DEF Edges, ActionRecords
  <2>2. fences' \in [Blocks -> Seq({"sync", "lwsync"})]
    BY <1>6, <2>1 DEF InsertFence, TypeInv, TypeOK, CutTypeOK
  <2>3. cuts' \in [Blocks -> BlockCuts]
    BY <1>6, <2>1 DEF InsertFence, TypeInv, TypeOK, CutTypeOK, BlockCuts
  <2> QED BY <1>2, <1>3, <1>4, <1>6, <2>2, <2>3
          DEF InsertFence, TypeInv, CutTypeOK
<1> QED BY <1>1, <1>5, <1>6 DEF CutEdge

LEMMA InitType == Init => TypeInv
<1> SUFFICES ASSUME Init PROVE TypeInv
  OBVIOUS
<1>1. <<>> \in Seq({"sync", "lwsync"})
  OBVIOUS
<1>2. CutTypeOK
  BY <1>1 DEF Init, CutInit, CutTypeOK, NoBlockCut, BlockCuts
<1> QED BY <1>2, GraphStart DEF TypeInv, Init

LEMMA TypeStutter ==
  ASSUME TypeInv, UNCHANGED vars
  PROVE  TypeInv'
<1>1. GraphInv' /\ Edges' = Edges
  <2>1. UNCHANGED <<fn, actions, graphVars>> /\ edges' \subseteq edges
    BY DEF vars
  <2> QED BY <2>1, TypesOfGraph, GraphKept
<1> QED BY <1>1 DEF TypeInv, CutTypeOK, vars, cutVars

(* The types of TypeOK hold in every state, so no pass makes an edge whose *)
(* ends are not actions, or looks for a dummy action that is not there.    *)
THEOREM TypeInvariant == Spec => []TypeInv
<1>1. TypeInv /\ [Next]_vars => TypeInv'
  BY BuildGraphType, CutType, TypeStutter DEF Next
<1> QED BY <1>1, InitType, PTL DEF Spec

THEOREM TypeCorrect == Spec => []TypeOK
<1>1. TypeInv => TypeOK
  BY TypesOfGraph
<1> QED BY <1>1, TypeInvariant, PTL

-----------------------------------------------------------------------------
(* Fences.                                                                 *)

(* A cut is recorded for exactly the blocks that got a fence: where the    *)
(* record says less than the code, an edge costs a fence it does not need, *)
(* and where it says more, an edge is left without one.                    *)
RecordedOK ==
  \A b \in Blocks :
    cuts[b] = IF fences[b] = <<>> THEN NoBlockCut
              ELSE [type |-> "Lwsync", front |-> TRUE]

(* Nothing is cut before the graph is done. *)
NothingYet == pc # "cut" => done = {} /\ \A b \in Blocks : fences[b] = <<>>

(* While a push edge is left no lwsync has been emitted. *)
PushFirst ==
  (\E e \in edges : e.type = PushEdge) =>
    \A b \in Blocks : \A n \in 1 .. Len(fences[b]) : fences[b][n] # "lwsync"

FenceInv == RecordedOK /\ NothingYet /\ PushFirst /\ NoWastedLwsync /\ FencesOnEveryPath

(* isEdgeCut is the strength of one of the paths, or of none; no path is   *)
(* weaker.                                                                 *)
LEMMA EdgeCutIsLeast ==
  ASSUME NEW e, NEW j
  PROVE  /\ IsEdgeCut(e, j) \in {NoCut, DataCut, SoftCut, HardCut}
         /\ \/ IsEdgeCut(e, j) = HardCut
            \/ \E p \in EdgePaths(e) : IsEdgeCut(e, j) = IsPathCut(e, p, j)
         /\ \A p \in EdgePaths(e) : IsEdgeCut(e, j) <= IsPathCut(e, p, j)
<1> DEFINE T == {IsPathCut(e, p, j) : p \in EdgePaths(e)} \cup {HardCut}
<1>1. T \in SUBSET {NoCut, DataCut, SoftCut, HardCut}
  BY DEF IsPathCut
<1>2. \E s \in T : \A t \in T : s <= t
  <2>1. T \in SUBSET Nat /\ T # {}
    BY <1>1 DEF NoCut, DataCut, SoftCut, HardCut
  <2> HIDE DEF T
  <2> QED BY <2>1, LeastNatural
<1>3. IsEdgeCut(e, j) = CHOOSE s \in T : \A t \in T : s <= t
  BY DEF IsEdgeCut
<1>4. IsEdgeCut(e, j) \in T /\ \A t \in T : IsEdgeCut(e, j) <= t
  <2> HIDE DEF T
  <2> QED BY <1>2, <1>3
<1> QED BY <1>1, <1>4

(* An edge that is cut hard has a recorded cut inside every path. *)
LEMMA HardCutMeans ==
  ASSUME TypeInv, NEW e, NEW j, IsEdgeCut(e, j) = HardCut, NEW p \in EdgePaths(e)
  PROVE  \E n \in 1 .. Len(p) : HardAt(e, p, n)
<1>1. IsPathCut(e, p, j) = HardCut
  BY EdgeCutIsLeast DEF IsPathCut, NoCut, DataCut, SoftCut, HardCut
<1>2. IsHardCut(e, p)
  BY <1>1 DEF IsPathCut, NoCut, DataCut, SoftCut, HardCut
<1>3. Len(p) \in Nat /\ Len(p) >= 2
  BY EdgePathsType
<1> QED BY <1>2, <1>3 DEF IsHardCut

(* Without a dependency there is no other way to be cut. *)
LEMMA NoDependencyHard ==
  ASSUME NEW e, e.type # ExecutionEdge, NoDependency(e), IsCut(e)
  PROVE  IsEdgeCut(e, FALSE) = HardCut
<1>1. \A p \in EdgePaths(e) : IsPathCut(e, p, FALSE) \in {NoCut, HardCut}
  BY DEF IsPathCut, HasSoftCut, BranchAt, AddrDepsOn, NoDependency
<1> DEFINE strength == IsEdgeCut(e, FALSE)
<1>2. strength \in {NoCut, HardCut}
  BY <1>1, EdgeCutIsLeast
<1>3. strength \in {DataCut, SoftCut, HardCut}
  BY Zenon DEF IsCut
<1> HIDE DEF strength
<1>4. strength = HardCut
  BY <1>2, <1>3 DEF NoCut, DataCut, SoftCut, HardCut
<1> QED BY <1>4 DEF strength

(* A recorded cut that cuts a path is a fence past the path's first block. *)
LEMMA HardAtFenced ==
  ASSUME TypeInv, RecordedOK, NEW e \in Edges, NEW p \in EdgePaths(e),
         NEW n \in 1 .. Len(p), HardAt(e, p, n)
  PROVE  n \in 2 .. Len(p) /\ Fenced(e, p[n])
<1>1. Len(p) \in Nat /\ p[n] \in Blocks
  BY EdgePathsType
<1>2. cuts[p[n]].type \in {"Sync", "Lwsync"}
  BY DEF HardAt
<1>3. fences[p[n]] # <<>> /\ cuts[p[n]] = [type |-> "Lwsync", front |-> TRUE]
  BY <1>1, <1>2 DEF RecordedOK, NoBlockCut
<1>4. n # 1 /\ e.type < PushEdge
  BY <1>3 DEF HardAt
<1>5. fences[p[n]] \in Seq({"sync", "lwsync"})
  BY <1>1 DEF TypeInv, TypeOK, CutTypeOK
<1>6. 1 \in 1 .. Len(fences[p[n]]) /\ fences[p[n]][1] \in {"sync", "lwsync"}
  BY <1>3, <1>5
<1>7. Fenced(e, p[n])
  BY <1>4, <1>6 DEF Fenced
<1> QED BY <1>1, <1>4, <1>7

LEMMA AppendMembers ==
  ASSUME NEW S, NEW s \in Seq(S), NEW x
  PROVE  LET t == Append(s, x) IN
         /\ \A n \in 1 .. Len(t) : \/ n \in 1 .. Len(s) /\ t[n] = s[n]
                                   \/ t[n] = x
         /\ \E n \in 1 .. Len(t) : t[n] = x
         /\ \A n \in 1 .. Len(s) : n \in 1 .. Len(t) /\ t[n] = s[n]
<1>1. /\ Len(s) \in Nat /\ Len(Append(s, x)) = Len(s) + 1
      /\ Append(s, x)[Len(s) + 1] = x
      /\ \A n \in 1 .. Len(s) : Append(s, x)[n] = s[n]
  OBVIOUS
<1>2. Len(s) + 1 \in 1 .. Len(Append(s, x))
  BY <1>1
<1> QED BY <1>1, <1>2

(* An edge processed takes away no fence and no branch. *)
LEMMA FencesGrow ==
  ASSUME TypeInv, NEW e \in edges, CutEdge(e)
  PROVE  /\ \A f, b : b \in Blocks /\ Fenced(f, b) => Fenced(f, b)'
         /\ kept \subseteq kept'
<1>1. CASE KeepCut(e)
  BY <1>1 DEF KeepCut, Fenced
<1>2. CASE InsertFence(e)
  <2>1. PICK bb, fence : fences' = [fences EXCEPT ![bb] = Append(fences[bb], fence)]
    BY <1>2 DEF InsertFence
  <2>2. fences \in [Blocks -> Seq({"sync", "lwsync"})]
    BY DEF TypeInv, CutTypeOK
  <2>3. ASSUME NEW b \in Blocks, NEW n \in 1 .. Len(fences[b])
        PROVE  n \in 1 .. Len(fences'[b]) /\ fences'[b][n] = fences[b][n]
    <3>1. CASE b = bb
      <4>1. PICK s \in Seq({"sync", "lwsync"}) : s = fences[b]
        BY <2>2
      <4>2. fences'[b] = Append(s, fence)
        BY <2>1, <2>2, <3>1, <4>1
      <4>3. n \in 1 .. Len(Append(s, fence)) /\ Append(s, fence)[n] = s[n]
        BY <4>1, AppendMembers
      <4> QED BY <4>1, <4>2, <4>3
    <3>2. CASE b # bb
      BY <2>1, <2>2, <3>2
    <3> QED BY <3>1, <3>2
  <2> QED BY <1>2, <2>3 DEF Fenced, InsertFence
<1> QED BY <1>1, <1>2 DEF CutEdge

(* One edge processed. *)
LEMMA CutEdgeFences ==
  ASSUME TypeInv, FenceInv, pc = "cut", pc' = pc, NEW e \in edges, CutEdge(e)
  PROVE  FenceInv'
<1>1. /\ UNCHANGED <<fn, actions>>
      /\ edges' = edges \ {e} /\ done' = done \cup {e}
      /\ \A f \in edges : f.type <= e.type
      /\ e \in Edges /\ \A f \in edges : f \in Edges
      /\ fences \in [Blocks -> Seq({"sync", "lwsync"})]
      /\ cuts \in [Blocks -> BlockCuts]
  BY DEF CutEdge, TypeInv, TypeOK, GraphInv, GraphTypeOK, CutTypeOK
<1>2. \A f : EdgePaths(f)' = EdgePaths(f) /\ NoDependency(f)' = NoDependency(f)
  BY <1>1 DEF EdgePaths, SkipSet, NoDependency
<1> PICK bb \in Blocks : bb = actions[e.dst].bb
  BY <1>1, TypesOfGraph, ActionType DEF Edges, ActionRecords
<1>3. CASE KeepCut(e)
  <2>1. IsCut(e) /\ UNCHANGED <<cuts, fences>>
    BY <1>3 DEF KeepCut
  <2>2. \A f, b : Fenced(f, b)' = Fenced(f, b)
    BY <2>1 DEF Fenced
  <2>3. RecordedOK' /\ NothingYet' /\ PushFirst' /\ NoWastedLwsync'
    BY <1>1, <2>1
       DEF FenceInv, RecordedOK, NothingYet, PushFirst, NoWastedLwsync
  <2>4. ASSUME e.type # ExecutionEdge, NoDependency(e), NEW p \in EdgePaths(e)
        PROVE  \E n \in 2 .. Len(p) : Fenced(e, p[n])
    <3>1. PICK n \in 1 .. Len(p) : HardAt(e, p, n)
      BY <2>1, <2>4, NoDependencyHard, HardCutMeans
    <3> QED BY <1>1, <3>1, HardAtFenced DEF FenceInv
  <2>5. FencesOnEveryPath'
    BY <1>1, <1>2, <2>2, <2>4 DEF FenceInv, FencesOnEveryPath
  <2> QED BY <2>3, <2>5 DEF FenceInv
<1>4. CASE InsertFence(e)
  <2> PICK fence : fence = IF e.type = PushEdge THEN "sync" ELSE "lwsync"
    OBVIOUS
  <2>1. /\ ~IsCut(e)
        /\ fences' = [fences EXCEPT ![bb] = Append(fences[bb], fence)]
        /\ cuts' = [cuts EXCEPT ![bb] = [type |-> "Lwsync", front |-> TRUE]]
    BY <1>4 DEF InsertFence
  <2>2. /\ fences'[bb] = Append(fences[bb], fence)
        /\ fences[bb] \in Seq({"sync", "lwsync"})
        /\ \A b \in Blocks \ {bb} : fences'[b] = fences[b] /\ cuts'[b] = cuts[b]
        /\ cuts'[bb] = [type |-> "Lwsync", front |-> TRUE]
    BY <1>1, <2>1
  \* what the longer sequence of bb holds
  <2>15. LET t == fences'[bb] IN
         /\ \A n \in 1 .. Len(t) :
              \/ n \in 1 .. Len(fences[bb]) /\ t[n] = fences[bb][n]
              \/ t[n] = fence
         /\ \E n \in 1 .. Len(t) : t[n] = fence
    <3> DEFINE s == fences[bb]
               t == fences'[bb]
    <3>1. s \in Seq({"sync", "lwsync"}) /\ t = Append(s, fence)
      BY <2>2
    <3> HIDE DEF s, t
    <3>2. /\ \A n \in 1 .. Len(t) : \/ n \in 1 .. Len(s) /\ t[n] = s[n]
                                    \/ t[n] = fence
          /\ \E n \in 1 .. Len(t) : t[n] = fence
      BY <3>1, AppendMembers
    <3> QED BY <3>2 DEF s, t
  <2>3. \A b \in Blocks : \A n \in 1 .. Len(fences'[b]) :
          \/ n \in 1 .. Len(fences[b]) /\ fences'[b][n] = fences[b][n]
          \/ fences'[b][n] = fence
    <3> TAKE b \in Blocks
    <3>1. CASE b = bb
      BY <2>15, <3>1, Zenon
    <3>2. CASE b # bb
      BY <2>2, <3>2
    <3> QED BY <3>1, <3>2
  <2>5. \E n \in 1 .. Len(fences'[bb]) : fences'[bb][n] = fence
    BY <2>15, Zenon
  <2>6. RecordedOK'
    <3>1. fences'[bb] # <<>>
      BY <2>2
    <3> QED BY <2>2, <3>1 DEF FenceInv, RecordedOK
  <2>7. NothingYet'
    BY DEF NothingYet
  <2>8. PushFirst'
    <3>1. CASE e.type = PushEdge
      <4>1. \A b \in Blocks : \A n \in 1 .. Len(fences[b]) : fences[b][n] # "lwsync"
        BY <3>1 DEF FenceInv, PushFirst
      <4> QED BY <2>3, <3>1, <4>1 DEF PushFirst
    <3>2. CASE e.type # PushEdge
      BY <1>1, <3>2 DEF PushFirst, Edges, EdgeTypes, ExecutionEdge,
                        VisibilityEdge, PushEdge
    <3> QED BY <3>1, <3>2
  \* a recorded cut at bb would have cut every path of e
  <2>9. e.type # PushEdge => fences[bb] = <<>>
    <3> SUFFICES ASSUME e.type # PushEdge, fences[bb] # <<>> PROVE FALSE
      OBVIOUS
    <3>1. cuts[bb] = [type |-> "Lwsync", front |-> TRUE]
      BY <2>1 DEF FenceInv, RecordedOK
    <3>2. e.type < PushEdge
      BY <1>1 DEF Edges, EdgeTypes, ExecutionEdge, VisibilityEdge, PushEdge
    <3>3. ASSUME NEW p \in EdgePaths(e) PROVE IsPathCut(e, p, FALSE) = HardCut
      <4>1. Len(p) \in Nat /\ Len(p) >= 2 /\ p[Len(p)] = bb
        BY EdgePathsType
      <4>2. HardAt(e, p, Len(p))
        BY <3>1, <3>2, <4>1 DEF HardAt
      <4>3. IsHardCut(e, p)
        BY <4>1, <4>2 DEF IsHardCut
      <4> QED BY <4>3, Zenon DEF IsPathCut
    <3>4. IsEdgeCut(e, FALSE) = HardCut
      BY <3>3, EdgeCutIsLeast
    <3> QED BY <2>1, <3>4 DEF IsCut
  <2>10. NoWastedLwsync'
    <3>1. CASE e.type = PushEdge
      <4>1. \A b \in Blocks : \A n \in 1 .. Len(fences[b]) : fences[b][n] # "lwsync"
        BY <3>1 DEF FenceInv, PushFirst
      <4>2. \A b \in Blocks : \A n \in 1 .. Len(fences'[b]) : fences'[b][n] # "lwsync"
        BY <2>3, <3>1, <4>1
      <4> QED BY <4>2 DEF NoWastedLwsync
    <3>2. CASE e.type # PushEdge
      BY <2>2, <2>9, <3>2 DEF FenceInv, NoWastedLwsync
    <3> QED BY <3>1, <3>2
  <2>11. \A f, b : b \in Blocks /\ Fenced(f, b) => Fenced(f, b)'
    BY FencesGrow
  <2>12. Fenced(e, bb)'
    <3>1. fence = "sync" \/ (fence = "lwsync" /\ e.type < PushEdge)
      BY <1>1 DEF Edges, EdgeTypes, ExecutionEdge, VisibilityEdge, PushEdge
    <3> QED BY <2>5, <3>1 DEF Fenced
  <2>13. ASSUME NEW p \in EdgePaths(e)
         PROVE  \E n \in 2 .. Len(p) : Fenced(e, p[n])'
    <3>1. Len(p) \in 2 .. Len(p) /\ p[Len(p)] = bb
      BY EdgePathsType
    <3> QED BY <2>12, <3>1
  <2>14. FencesOnEveryPath'
    <3> SUFFICES ASSUME NEW f \in done', f.type # ExecutionEdge, NoDependency(f),
                        NEW p \in EdgePaths(f)
                 PROVE  \E n \in 2 .. Len(p) : Fenced(f, p[n])'
      BY <1>1, <1>2 DEF FencesOnEveryPath
    <3>1. CASE f = e
      BY <3>1, <2>13
    <3>2. CASE f \in done
      <4>1. PICK n \in 2 .. Len(p) : Fenced(f, p[n])
        BY <3>2 DEF FenceInv, FencesOnEveryPath
      <4> QED BY <4>1, <2>11, EdgePathsType
    <3> QED BY <1>1, <3>1, <3>2
  <2> QED BY <2>6, <2>7, <2>8, <2>10, <2>14 DEF FenceInv
<1> QED BY <1>3, <1>4 DEF CutEdge

LEMMA InitFences == Init => FenceInv
BY DEF Init, GraphInit, CutInit, FenceInv, RecordedOK, NothingYet, PushFirst,
       NoWastedLwsync, FencesOnEveryPath

LEMMA NextFences ==
  ASSUME TypeInv, FenceInv, [Next]_vars
  PROVE  FenceInv'
<1>1. CASE BuildGraph
  <2>1. pc # "cut" /\ UNCHANGED <<done, cuts, fences>>
    BY <1>1 DEF BuildGraph, GraphNext, FindEdges, BuildActionGraph, cutVars,
                TransitiveClosure, AssertFails, RemoveUselessEdges, RebuildEdges
  <2>2. done = {} /\ \A b \in Blocks : fences[b] = <<>>
    BY <2>1 DEF FenceInv, NothingYet
  <2> QED BY <2>1, <2>2 DEF FenceInv, RecordedOK, NothingYet, PushFirst,
                            NoWastedLwsync, FencesOnEveryPath
<1>2. CASE CutEdges
  BY <1>2, CutEdgeFences DEF CutEdges, CutNext, graphVars
<1>3. CASE UNCHANGED vars
  BY <1>3 DEF vars, graphVars, cutVars, FenceInv, RecordedOK, NothingYet,
              PushFirst, NoWastedLwsync, FencesOnEveryPath, EdgePaths,
              SkipSet, NoDependency, Fenced
<1> QED BY <1>1, <1>2, <1>3 DEF Next

THEOREM FenceInvariant == Spec => []FenceInv
<1>1. TypeInv /\ FenceInv /\ [Next]_vars => FenceInv'
  BY NextFences
<1> QED BY <1>1, InitFences, TypeInvariant, PTL DEF Spec

(* No block gets an lwsync next to another fence, in whatever order edges  *)
(* of one type come.                                                       *)
THEOREM NoLwsyncWasted == Spec => []NoWastedLwsync
<1>1. FenceInv => NoWastedLwsync
  BY DEF FenceInv
<1> QED BY <1>1, FenceInvariant, PTL

(* Visibility and push edges that no address dependency can carry have     *)
(* their fence on every simple path.                                       *)
THEOREM PathsAreFenced == Spec => []FencesOnEveryPath
<1>1. FenceInv => FencesOnEveryPath
  BY DEF FenceInv
<1> QED BY <1>1, FenceInvariant, PTL

(* The arcs that lead to a fence which orders e. *)
FencedArcs(e) == {a \in Blocks \X Blocks : Fenced(e, a[2])}

LEMMA FenceCrosses ==
  ASSUME TypeInv, NEW e, NEW p \in EdgePaths(e), NEW n \in 2 .. Len(p),
         Fenced(e, p[n])
  PROVE  Crosses(p, FencedArcs(e))
<1>1. Len(p) \in Nat /\ \A m \in 1 .. Len(p) : p[m] \in Blocks
  BY EdgePathsType
<1>2. PICK m \in 1 .. Len(p) - 1 : m + 1 = n
  <2>1. n - 1 \in 1 .. Len(p) - 1
    BY <1>1
  <2> QED BY <2>1
<1>3. m \in 1 .. Len(p) /\ m + 1 \in 1 .. Len(p)
  BY <1>1, <1>2
<1>4. <<p[m], p[m + 1]>> \in FencedArcs(e)
  BY <1>1, <1>2, <1>3 DEF FencedArcs
<1> QED BY <1>4 DEF Crosses

(* And so on every walk of the program, round any loop any number of times.*)
FencesOnEveryWalk ==
  \A e \in done : e.type # ExecutionEdge /\ NoDependency(e) =>
    \A w \in Walks(fn.cfg, SkipSet(e), actions[e.src].out, actions[e.dst].bb) :
      \E n \in 2 .. Len(w) : Fenced(e, w[n])

THEOREM WalksAreFenced == Spec => []FencesOnEveryWalk
<1>1. ASSUME TypeInv, FencesOnEveryPath PROVE FencesOnEveryWalk
  <2> SUFFICES ASSUME NEW e \in done, e.type # ExecutionEdge, NoDependency(e),
                      NEW w \in Walks(fn.cfg, SkipSet(e), actions[e.src].out,
                                      actions[e.dst].bb)
               PROVE  \E n \in 2 .. Len(w) : Fenced(e, w[n])
    BY DEF FencesOnEveryWalk
  <2>1. fn.cfg \in Graphs
    BY <1>1, FunctionsAssumption DEF TypeInv, TypeOK, GraphInv, GraphTypeOK
  <2>2. \A p \in EdgePaths(e) : Crosses(p, FencedArcs(e))
    BY <1>1, FenceCrosses DEF FencesOnEveryPath
  <2>3. Crosses(w, FencedArcs(e))
    BY <2>1, <2>2, SimplePathsSuffice DEF EdgePaths
  <2>4. PICK n \in 1 .. Len(w) - 1 : Fenced(e, w[n + 1])
    BY <2>3 DEF Crosses, FencedArcs
  <2>5. n + 1 \in 2 .. Len(w)
    BY DEF Walks
  <2> QED BY <2>4, <2>5
<1>2. TypeInv /\ FencesOnEveryPath => FencesOnEveryWalk
  BY <1>1
<1> QED BY <1>2, TypeInvariant, PathsAreFenced, PTL

-----------------------------------------------------------------------------
(* The closure, against what the registered edges demand.                  *)

-----------------------------------------------------------------------------
LEMMA ComposedType ==
  ASSUME NEW S \in SUBSET Edges
  PROVE  Composed(S) \in SUBSET Edges
<1> SUFFICES ASSUME NEW e \in S, NEW f \in S, e.type = f.type, e.dst = f.src
             PROVE  Edge(e.type, e.src, f.dst, MergeBindPoints(e.bind, f.bind)) \in Edges
  BY DEF Composed
<1>1. MergeBindPoints(e.bind, f.bind) \in BindSites
  BY DEF MergeBindPoints, Edges, BindSites
<1> QED BY <1>1 DEF Edge, Edges

(* What the registered edges demand is closed under composition: Close is  *)
(* a recursive function, which exists and is unique because each call is   *)
(* with more of finitely many edges.                                       *)
LEMMA DemandedClosed ==
  ASSUME actions \in Seq(ActionRecords(fn)), graph \subseteq Edges
  PROVE  /\ Requested \subseteq Demanded
         /\ Composed(Demanded) \subseteq Demanded
<1> DEFINE further == [S \in SUBSET Edges |-> Composed(S)]
<1>1. further \in [SUBSET Edges -> SUBSET Edges]
  BY ComposedType
<1>2. \A S, C \in SUBSET Edges : S \subseteq C => further[S] \subseteq further[C]
  BY DEF Composed
<1>3. Requested \in SUBSET Edges
  BY DEF Requested, Edges, EdgeTypes
<1>4. Saturates(Close, Edges, further)
  <2>1. PICK g : Saturates(g, Edges, further)
    <3> HIDE DEF further
    <3> QED BY <1>1, <1>2, SaturationExists
  <2>2. \A h : Saturates(h, Edges, further)
          <=> h = [S \in SUBSET Edges |->
                     IF Composed(S) \subseteq S THEN S ELSE h[S \cup Composed(S)]]
    BY DEF Saturates
  <2>3. \E h : h = [S \in SUBSET Edges |->
                     IF Composed(S) \subseteq S THEN S ELSE h[S \cup Composed(S)]]
    BY <2>1, <2>2
  <2>4. Close = [S \in SUBSET Edges |->
                   IF Composed(S) \subseteq S THEN S ELSE Close[S \cup Composed(S)]]
    BY <2>3 DEF Close
  <2> QED BY <2>2, <2>4
<1>5. Demanded = LeastOf(Edges, further, Requested)
  <2> HIDE DEF further
  <2> QED BY <1>1, <1>2, <1>3, <1>4, EdgesFinite, SaturationIsLeast DEF Demanded
<1>6. /\ LeastOf(Edges, further, Requested) \in SUBSET Edges
      /\ Requested \subseteq LeastOf(Edges, further, Requested)
      /\ further[LeastOf(Edges, further, Requested)] \subseteq LeastOf(Edges, further, Requested)
  <2> HIDE DEF further
  <2> QED BY <1>1, <1>2, <1>3, LeastClosed
<1> QED BY <1>5, <1>6

(* The loops of transitiveClosure compose edges that are there. *)
LEMMA JoinsCompose ==
  ASSUME NEW t
  PROVE  Joins(t) \subseteq Composed(trans)
<1> SUFFICES ASSUME NEW b1 \in BindsOf(t.type, t.i, t.k),
                    NEW b2 \in BindsOf(t.type, t.k, t.j)
             PROVE  Edge(t.type, t.i, t.j, MergeBindPoints(b1, b2)) \in Composed(trans)
  BY DEF Joins
<1>1. PICK e \in trans : e.type = t.type /\ e.src = t.i /\ e.dst = t.k /\ e.bind = b1
  BY DEF BindsOf
<1>2. PICK f \in trans : f.type = t.type /\ f.src = t.k /\ f.dst = t.j /\ f.bind = b2
  BY DEF BindsOf
<1>3. <<e, f>> \in {p \in trans \X trans : p[1].type = p[2].type /\ p[1].dst = p[2].src}
  BY <1>1, <1>2
<1> QED BY <1>1, <1>2, <1>3 DEF Composed

(* Nothing is derived before all is registered. *)
ClosureInv == TypeInv /\ NothingInvented /\ (pc = "findEdges" => trans = {})

LEMMA ClosureStep ==
  ASSUME ClosureInv, [Next]_vars, TypeInv'
  PROVE  ClosureInv'
<1>1. /\ actions \in Seq(ActionRecords(fn)) /\ graph \subseteq Edges
      /\ trans \subseteq Demanded
  BY DEF ClosureInv, TypeInv, TypeOK, GraphInv, GraphTypeOK, NothingInvented
<1>2. Requested \subseteq Demanded /\ Composed(Demanded) \subseteq Demanded
  BY <1>1, DemandedClosed
<1>3. ASSUME UNCHANGED <<fn, actions, graph>>, trans' \subseteq Demanded,
             pc' = "findEdges" => trans' = {}
      PROVE  ClosureInv'
  <2>1. UNCHANGED Demanded
    BY <1>3 DEF Demanded, Requested, Close, Composed, MergeBindPoints, Edges, ActionsOf
  <2> QED BY <1>3, <2>1 DEF ClosureInv, NothingInvented
<1>4. CASE FindEdges
  BY <1>4 DEF FindEdges, ClosureInv, NothingInvented
<1>5. CASE BuildActionGraph
  <2>1. trans' \subseteq Requested
    BY <1>5 DEF BuildActionGraph, Requested
  <2>2. pc' = "close" /\ UNCHANGED <<fn, actions, graph>>
    BY <1>5 DEF BuildActionGraph
  <2> QED BY <1>2, <1>3, <2>1, <2>2
<1>6. CASE TransitiveClosure
  <2>1. trans' = trans \cup Joins(NextJoin) /\ pc' = "close"
        /\ UNCHANGED <<fn, actions, graph>>
    BY <1>6 DEF TransitiveClosure
  <2>2. Joins(NextJoin) \subseteq Composed(trans)
    BY JoinsCompose
  <2>3. Composed(trans) \subseteq Composed(Demanded)
    BY <1>1 DEF Composed
  <2> QED BY <1>1, <1>2, <1>3, <2>1, <2>2, <2>3
<1>7. CASE RemoveUselessEdges
  BY <1>1, <1>3, <1>7 DEF RemoveUselessEdges
<1>8. CASE RebuildEdges
  BY <1>1, <1>3, <1>8 DEF RebuildEdges
<1>9. CASE AssertFails
  BY <1>1, <1>3, <1>9 DEF AssertFails
<1>10. CASE CutEdges
  BY <1>1, <1>3, <1>10 DEF CutEdges, CutNext, CutEdge, graphVars
<1>11. CASE UNCHANGED vars
  BY <1>1, <1>3, <1>11 DEF vars, graphVars, ClosureInv
<1> QED
  BY <1>4, <1>5, <1>6, <1>7, <1>8, <1>9, <1>10, <1>11 DEF Next, BuildGraph, GraphNext

(* transitiveClosure derives only what follows from the edges a function   *)
(* registers, with the bind sites it may have, whichever pairs of edges    *)
(* the loops meet.                                                         *)
THEOREM ClosureInventsNothing == Spec => []NothingInvented
<1>1. Init => ClosureInv
  BY InitType DEF Init, GraphInit, ClosureInv, NothingInvented
<1>2. ClosureInv /\ TypeInv' /\ [Next]_vars => ClosureInv'
  BY ClosureStep
<1>3. ClosureInv => NothingInvented
  BY DEF ClosureInv
<1> QED BY <1>1, <1>2, <1>3, TypeInvariant, PTL DEF Spec

-----------------------------------------------------------------------------
(* The judgement of the walks.                                             *)

LEMMA WalkStepsType ==
  ASSUME fn \in Functions, NEW e, NEW s \in WalkStates
  PROVE  WalkSteps(e, s) \subseteq WalkStates
<1> SUFFICES ASSUME NEW b \in Succ(fn.cfg, s.b)
             PROVE  [b |-> b, ctrl |-> BranchTaken(s, b),
                     after |-> AfterBlock(actions[e.src].odep, hidden, s.after, s.b, b)]
                      \in WalkStates
  BY DEF WalkSteps
<1>1. b \in Blocks
  BY SuccType DEF WalkStates
<1>2. AfterBlock(actions[e.src].odep, hidden, s.after, s.b, b) \subseteq DOMAIN fn.vals
  BY DEF AfterBlock
<1>3. BranchTaken(s, b) \in BOOLEAN
  BY DEF BranchTaken, WalkStates
<1> QED BY <1>1, <1>2, <1>3 DEF WalkStates

LEMMA WalkStatesFinite == fn \in Functions => IsFiniteSet(WalkStates)
BY StatesFinite DEF WalkStates

(* What holds at the start of the walks and is kept by a step that does    *)
(* not cross the bind site holds all along them.                           *)
LEMMA WalkedIn ==
  ASSUME fn \in Functions, NEW e, WalkStart(e) \in WalkStates,
         NEW I \in SUBSET WalkStates, WalkStart(e) \in I,
         \A s \in I : \A t \in WalkSteps(e, s) : t.b # e.bind => t \in I
  PROVE  Walked(e) \subseteq I
<1> DEFINE Ahead(s) == {t \in WalkSteps(e, s) : t.b # e.bind}
           further == [S \in SUBSET WalkStates |-> UNION {Ahead(s) : s \in S}]
           Solves(f) ==
             f = [S \in SUBSET WalkStates |->
                    LET T == S \cup UNION {Ahead(s) : s \in S}
                    IN IF T = S THEN S ELSE f[T]]
           Explore == CHOOSE f : Solves(f)
<1>1. further \in [SUBSET WalkStates -> SUBSET WalkStates]
  BY WalkStepsType
<1>2. \A S, C \in SUBSET WalkStates : S \subseteq C => further[S] \subseteq further[C]
  OBVIOUS
<1>3. \A f : Solves(f) <=> Saturates(f, WalkStates, further)
  <2> TAKE f
  <2> DEFINE one(S) == LET T == S \cup UNION {Ahead(s) : s \in S}
                       IN IF T = S THEN S ELSE f[T]
             two(S) == IF further[S] \subseteq S THEN S ELSE f[S \cup further[S]]
  <2>1. ASSUME NEW S \in SUBSET WalkStates PROVE one(S) = two(S)
    <3>1. further[S] = UNION {Ahead(s) : s \in S}
      OBVIOUS
    <3> DEFINE U == UNION {Ahead(s) : s \in S}
    <3>2. (S \cup U = S) <=> U \subseteq S
      <4> HIDE DEF U
      <4> QED OBVIOUS
    <3>3. one(S) = IF S \cup U = S THEN S ELSE f[S \cup U]
      BY Zenon
    <3>4. two(S) = IF U \subseteq S THEN S ELSE f[S \cup U]
      <4> HIDE DEF further
      <4> QED BY <3>1
    <3> HIDE DEF one, two, U
    <3> QED BY <3>2, <3>3, <3>4
  <2>2. [S \in SUBSET WalkStates |-> one(S)] = [S \in SUBSET WalkStates |-> two(S)]
    <3> HIDE DEF one, two
    <3> QED BY <2>1
  <2> QED BY <2>2 DEF Saturates
<1>4. Saturates(Explore, WalkStates, further)
  <2>1. \E f : Solves(f)
    <3> HIDE DEF Solves, further
    <3> QED BY <1>1, <1>2, <1>3, SaturationExists
  <2>2. Solves(Explore)
    <3> HIDE DEF Solves
    <3> QED BY <2>1
  <2> HIDE DEF Solves, Explore, further
  <2> QED BY <2>2, <1>3
<1>5. {WalkStart(e)} \in SUBSET WalkStates
  OBVIOUS
<1>6. Explore[{WalkStart(e)}] = LeastOf(WalkStates, further, {WalkStart(e)})
  <2> HIDE DEF Explore, further
  <2> QED BY <1>1, <1>2, <1>4, <1>5, WalkStatesFinite, SaturationIsLeast
<1>7. Walked(e) = Explore[{WalkStart(e)}]
  BY DEF Walked
<1>8. further[I] \subseteq I
  OBVIOUS
<1>9. LeastOf(WalkStates, further, {WalkStart(e)}) \subseteq I
  <2> HIDE DEF further
  <2> QED BY <1>8 DEF LeastOf
<1> HIDE DEF Explore, further
<1> QED BY <1>6, <1>7, <1>9


(* How the code can order a source whose value no address carries: every   *)
(* path of the edge leads to a fence, or every path of it and of its self  *)
(* edge takes one of those arcs or a branch on the value that is kept.     *)
KeptArcs(e) == {a \in Blocks \X Blocks : <<a[1], a[2], actions[e.src].odep>> \in kept}

Guarded(e) ==
  \/ \A p \in EdgePaths(e) : Crosses(p, FencedArcs(e))
  \/ /\ e.type = ExecutionEdge
     /\ actions[e.src].odep # NoValue
     /\ actions[e.dst].type \in {"SimpleWrites", "SimpleRMW"}
     /\ \A f \in {e, SelfEdge(e)} : \A p \in EdgePaths(f) :
          Crosses(p, FencedArcs(e) \cup KeptArcs(e))

(* A read or an RMW, whose value is its own. *)
OwnBlock(e) ==
  LET src == actions[e.src] IN
  src.odep # NoValue => src.bb = src.out /\ fn.vals[src.odep].block = src.out

(* The walk behind a state of the judgement has not taken an arc of A. *)
Trace(e, A, s) ==
  \E w \in Seq(Blocks) :
    /\ Len(w) >= 1 /\ w[1] = actions[e.src].out /\ w[Len(w)] = s.b
    /\ IsWalk(fn.cfg, w)
    /\ \A n \in 1 .. Len(w) : w[n] \notin SkipSet(e)
    /\ ~Crosses(w, A)

LEMMA TraceStep ==
  ASSUME fn \in Functions, NEW e, NEW A, NEW s \in WalkStates, Trace(e, A, s),
         NEW t \in WalkSteps(e, s), <<s.b, t.b>> \notin A
  PROVE  /\ t.b # e.bind => Trace(e, A, t)
         /\ \E v \in Walks(fn.cfg, SkipSet(e), actions[e.src].out, t.b) : ~Crosses(v, A)
<1>1. PICK w \in Seq(Blocks) :
        /\ Len(w) >= 1 /\ w[1] = actions[e.src].out /\ w[Len(w)] = s.b
        /\ IsWalk(fn.cfg, w)
        /\ \A n \in 1 .. Len(w) : w[n] \notin SkipSet(e)
        /\ ~Crosses(w, A)
  BY DEF Trace
<1>2. t.b \in Succ(fn.cfg, s.b) /\ t.b \in Blocks
  BY SuccType DEF WalkSteps, WalkStates
<1> DEFINE v == Append(w, t.b)
<1>3. /\ v \in Seq(Blocks) /\ Len(w) \in Nat /\ Len(v) = Len(w) + 1
      /\ v[Len(w) + 1] = t.b
      /\ \A n \in 1 .. Len(w) : v[n] = w[n]
  BY <1>2
<1> HIDE DEF v
<1>4. \A n \in 1 .. Len(v) - 1 :
        \/ n \in 1 .. Len(w) - 1 /\ v[n] = w[n] /\ v[n + 1] = w[n + 1]
        \/ n = Len(w) /\ v[n] = s.b /\ v[n + 1] = t.b
  <2> TAKE n \in 1 .. Len(v) - 1
  <2>1. CASE n = Len(w)
    BY <2>1, <1>1, <1>3
  <2>2. CASE n # Len(w)
    <3>1. n \in 1 .. Len(w) - 1 /\ n + 1 \in 1 .. Len(w) /\ n \in 1 .. Len(w)
      BY <2>2, <1>3
    <3> QED BY <3>1, <1>3
  <2> QED BY <2>1, <2>2
<1>5. IsWalk(fn.cfg, v) /\ ~Crosses(v, A)
  <2>1. IsWalk(fn.cfg, v)
    BY <1>1, <1>2, <1>4 DEF IsWalk
  <2>2. ~Crosses(v, A)
    BY <1>1, <1>4 DEF Crosses
  <2> QED BY <2>1, <2>2
<1>6. v[1] = actions[e.src].out /\ v[Len(v)] = t.b /\ Len(v) >= 2
  BY <1>1, <1>3
<1>7. \A n \in 1 .. Len(v) - 1 : v[n] \notin SkipSet(e)
  BY <1>1, <1>3
<1>8. v \in Walks(fn.cfg, SkipSet(e), actions[e.src].out, t.b)
  BY <1>3, <1>5, <1>6, <1>7 DEF Walks
<1>9. ASSUME t.b # e.bind PROVE Trace(e, A, t)
  <2>1. t.b \notin SkipSet(e)
    BY <1>9 DEF SkipSet
  <2>2. \A n \in 1 .. Len(v) : v[n] \notin SkipSet(e)
    BY <2>1, <1>3, <1>6, <1>7
  <2>3. Len(v) >= 1 /\ v[1] = actions[e.src].out /\ v[Len(v)] = t.b
    BY <1>3, <1>6
  <2> QED BY <2>2, <2>3, <1>3, <1>5 DEF Trace
<1> QED BY <1>5, <1>8, <1>9

(* Every walk that takes no arc of A ends short of the destination. *)
LEMMA NoWalkAround ==
  ASSUME fn \in Functions, NEW f, NEW A, \A p \in EdgePaths(f) : Crosses(p, A)
  PROVE  \A w \in Walks(fn.cfg, SkipSet(f), actions[f.src].out, actions[f.dst].bb) :
           Crosses(w, A)
<1>1. fn.cfg \in Graphs
  BY FunctionsAssumption
<1> QED BY <1>1, SimplePathsSuffice DEF EdgePaths

LEMMA GuardedIsOrdered ==
  ASSUME TypeInv, NEW e \in Edges, Guarded(e), OwnBlock(e),
         e.bind # actions[e.src].out
  PROVE  Ordered(e)
<1> DEFINE src == actions[e.src]
           dst == actions[e.dst]
           F == FencedArcs(e)
           A == F \cup KeptArcs(e)
<1>1. /\ fn \in Functions
      /\ src.out \in Blocks /\ src.bb \in Blocks /\ dst.bb \in Blocks
      /\ src.odep \in DOMAIN fn.vals \cup {NoValue}
  BY TypesOfGraph, ActionType DEF TypeInv, GraphInv, GraphTypeOK, Edges, ActionRecords
<1>2. WalkStart(e) \in WalkStates
  BY <1>1 DEF WalkStart, WalkStates
<1>3. \A B : Trace(e, B, WalkStart(e))
  <2> TAKE B
  <2> DEFINE w == <<src.out>>
  <2>1. w \in Seq(Blocks) /\ Len(w) = 1 /\ w[1] = src.out
    BY <1>1
  <2>2. IsWalk(fn.cfg, w) /\ ~Crosses(w, B)
    BY <2>1 DEF IsWalk, Crosses
  <2>3. \A n \in 1 .. Len(w) : w[n] \notin SkipSet(e)
    BY <2>1 DEF SkipSet
  <2>4. WalkStart(e).b = src.out
    BY DEF WalkStart
  <2>5. Len(w) >= 1 /\ w[1] = src.out /\ w[Len(w)] = WalkStart(e).b
    BY <2>1, <2>4
  <2> HIDE DEF w
  <2> QED BY <2>1, <2>2, <2>3, <2>5 DEF Trace
<1>4. \A s, t : t \in WalkSteps(e, s) => ~Fenced(e, t.b)
  BY DEF WalkSteps
<1>5. CASE \A p \in EdgePaths(e) : Crosses(p, F)
  <2> DEFINE I == {s \in WalkStates : Trace(e, F, s)}
  <2>1. \A s \in I : \A t \in WalkSteps(e, s) : <<s.b, t.b>> \notin F
    BY <1>4 DEF FencedArcs
  <2>2. \A s \in I : \A t \in WalkSteps(e, s) : t.b # e.bind => t \in I
    <3> HIDE DEF F
    <3> QED BY <1>1, <2>1, TraceStep, WalkStepsType
  <2>3. Walked(e) \subseteq I
    <3> HIDE DEF I
    <3>1. I \in SUBSET WalkStates /\ WalkStart(e) \in I
      BY <1>2, <1>3 DEF I
    <3> QED BY <1>1, <1>2, <2>2, <3>1, WalkedIn
  <2>4. ASSUME NEW t \in Arrives(e) PROVE FALSE
    <3>1. PICK s \in Walked(e) : t \in WalkSteps(e, s)
      BY DEF Arrives
    <3>2. s \in WalkStates /\ Trace(e, F, s) /\ <<s.b, t.b>> \notin F /\ t.b = dst.bb
      BY <2>1, <2>3, <2>4, <3>1 DEF Arrives
    <3>3. PICK w \in Walks(fn.cfg, SkipSet(e), src.out, t.b) : ~Crosses(w, F)
      <4> HIDE DEF F
      <4> QED BY <1>1, <3>1, <3>2, TraceStep
    <3>4. Crosses(w, F)
      <4> HIDE DEF F
      <4> QED BY <1>1, <1>5, <3>2, <3>3, NoWalkAround
    <3> QED BY <3>3, <3>4
  <2> QED BY <2>4 DEF Ordered
<1>6. CASE /\ e.type = ExecutionEdge
           /\ src.odep # NoValue
           /\ dst.type \in {"SimpleWrites", "SimpleRMW"}
           /\ \A f \in {e, SelfEdge(e)} : \A p \in EdgePaths(f) : Crosses(p, A)
  <2>1. /\ src.odep \in DOMAIN fn.vals
        /\ src.bb = src.out /\ fn.vals[src.odep].block = src.out
    BY <1>1, <1>6 DEF OwnBlock
  <2> DEFINE Depends(s) == Trace(e, A, s) /\ src.odep \in s.after
             I == {s \in WalkStates : s.ctrl \/ Depends(s)}
  \* a kept branch is taken by a walk that still has the value
  <2>2. ASSUME NEW s \in I, NEW t \in WalkSteps(e, s), s.ctrl \/ <<s.b, t.b>> \in A
        PROVE  t.ctrl
    <3>1. t.ctrl = BranchTaken(s, t.b) /\ ~Fenced(e, t.b)
      BY DEF WalkSteps
    <3>2. CASE s.ctrl
      BY <3>1, <3>2 DEF BranchTaken
    <3>3. CASE ~s.ctrl
      <4>1. <<s.b, t.b, src.odep>> \in kept /\ src.odep \in s.after
        BY <2>2, <3>1, <3>3 DEF FencedArcs, KeptArcs
      <4> QED BY <3>1, <4>1 DEF BranchTaken
    <3> QED BY <3>2, <3>3
  \* otherwise the walk is not at its source again, nor at the destination
  <2>3. ASSUME NEW s \in I, NEW t \in WalkSteps(e, s), ~t.ctrl
        PROVE  /\ t.b # src.out /\ t.b # dst.bb
               /\ t.b # e.bind => Depends(t)
    <3>1. Depends(s) /\ s \in WalkStates /\ <<s.b, t.b>> \notin A
      BY <2>2, <2>3
    <3>2. /\ t.b # e.bind => Trace(e, A, t)
          /\ \E w \in Walks(fn.cfg, SkipSet(e), src.out, t.b) : ~Crosses(w, A)
      <4> HIDE DEF A
      <4> QED BY <1>1, <3>1, TraceStep
    <3>3. \A w \in Walks(fn.cfg, SkipSet(e), src.out, dst.bb) : Crosses(w, A)
      <4> HIDE DEF A
      <4> QED BY <1>1, <1>6, NoWalkAround
    <3>4. \A w \in Walks(fn.cfg, SkipSet(e), src.out, src.out) : Crosses(w, A)
      <4>1. PICK f : f = SelfEdge(e)
        OBVIOUS
      <4>2. f.src = e.src /\ f.dst = e.src /\ SkipSet(f) = SkipSet(e)
        BY <4>1 DEF SelfEdge, SkipSet, Edges
      <4>3. \A p \in EdgePaths(f) : Crosses(p, A)
        BY <1>6, <4>1
      <4>4. \A w \in Walks(fn.cfg, SkipSet(f), actions[f.src].out, actions[f.dst].bb) :
              Crosses(w, A)
        <5> HIDE DEF A
        <5> QED BY <1>1, <4>3, NoWalkAround
      <4> QED BY <2>1, <4>2, <4>4
    <3>5. t.b # src.out /\ t.b # dst.bb
      <4> HIDE DEF A
      <4> QED BY <3>2, <3>3, <3>4
    <3>6. src.odep \in t.after
      <4>1. t.after = AfterBlock(src.odep, hidden, s.after, s.b, t.b)
        BY DEF WalkSteps
      <4>2. src.odep \in s.after /\ fn.vals[src.odep].block # t.b
        BY <2>1, <3>1, <3>5
      <4> QED BY <1>1, <2>1, <4>1, <4>2, AfterKeeps
    <3> QED BY <3>2, <3>5, <3>6
  <2>4. \A s \in I : \A t \in WalkSteps(e, s) : t.b # e.bind => t \in I
    <3> SUFFICES ASSUME NEW s \in I, NEW t \in WalkSteps(e, s), t.b # e.bind
                 PROVE  t \in I
      OBVIOUS
    <3>1. t \in WalkStates
      BY <1>1, WalkStepsType
    <3>2. t.ctrl \/ Depends(t)
      <4> HIDE DEF I, Depends
      <4> QED BY <2>3
    <3> QED BY <3>1, <3>2
  <2>5. Walked(e) \subseteq I
    <3>1. I \in SUBSET WalkStates /\ WalkStart(e) \in I
      BY <1>2, <1>3, <2>1, <1>6 DEF WalkStart
    <3> HIDE DEF I
    <3> QED BY <1>1, <1>2, <2>4, <3>1, WalkedIn
  <2>6. ASSUME NEW t \in Arrives(e) PROVE OrderedAt(e, t)
    <3>1. PICK s \in Walked(e) : t \in WalkSteps(e, s) /\ t.b = dst.bb
      BY DEF Arrives
    <3>2. t.ctrl
      <4> HIDE DEF I
      <4> QED BY <2>3, <2>5, <3>1
    <3> QED BY <1>6, <3>2 DEF OrderedAt
  <2> QED BY <2>6 DEF Ordered
<1> QED BY <1>5, <1>6 DEF Guarded

-----------------------------------------------------------------------------
(* Fences and branches order.                                              *)

(* No path of the edge, or of the self edge that may have to help it,      *)
(* orders by an address.                                                   *)
NoAddress(f) == \A p \in EdgePaths(f) : ~AddrDepsOn(f, p)

WithoutAddress(e) ==
  NoAddress(e) /\ (e.type = ExecutionEdge => NoAddress(SelfEdge(e)))

GuardInv == \A e \in done : WithoutAddress(e) => Guarded(e)

(* What isEdgeCut protects on a path that is cut hard or soft. *)
LEMMA EnforceCrosses ==
  ASSUME TypeInv, RecordedOK, NEW f \in Edges, NEW j \in BOOLEAN,
         NEW p \in EdgePaths(f), IsPathCut(f, p, j) \in {SoftCut, HardCut}
  PROVE  \/ Crosses(p, FencedArcs(f))
         \/ /\ IsPathCut(f, p, j) = SoftCut
            /\ \E n \in 1 .. Len(p) - 1 :
                 <<p[n], p[n + 1], actions[f.src].odep>> \in EnforceBranches(f, j)
<1>1. Len(p) \in Nat /\ Len(p) >= 2
  BY EdgePathsType
<1>2. CASE IsHardCut(f, p)
  <2>1. PICK n \in 1 .. Len(p) : HardAt(f, p, n)
    BY <1>1, <1>2 DEF IsHardCut
  <2> QED BY <2>1, HardAtFenced, FenceCrosses
<1>3. CASE ~IsHardCut(f, p)
  <2>1. HasSoftCut(f, p, j) /\ IsPathCut(f, p, j) = SoftCut
    BY <1>3 DEF IsPathCut, NoCut, DataCut, SoftCut, HardCut
  <2> DEFINE T == {n \in 1 .. Len(p) - 1 : BranchAt(f, p, j, n)}
  <2>2. T \in SUBSET Nat /\ T # {}
    BY <2>1 DEF HasSoftCut
  <2>3. PICK m \in T : \A n \in T : m <= n
    <3> HIDE DEF T
    <3> QED BY <2>2, LeastNatural
  <2>4. m \in 1 .. Len(p) - 1 /\ BranchAt(f, p, j, m)
    OBVIOUS
  <2>5. \A k \in 1 .. m - 1 : ~BranchAt(f, p, j, k)
    <3> SUFFICES ASSUME NEW k \in 1 .. m - 1, BranchAt(f, p, j, k) PROVE FALSE
      OBVIOUS
    <3>1. k \in T /\ k < m
      BY <1>1, <2>4
    <3>2. m <= k
      BY <2>3, <3>1
    <3> QED BY <2>4, <3>1, <3>2
  <2>6. \A k \in 1 .. m : ~HardAt(f, p, k)
    BY <1>1, <1>3, <2>4 DEF IsHardCut
  <2>7. <<p[m], p[m + 1], actions[f.src].odep>> \in EnforceBranches(f, j)
    BY <2>4, <2>5, <2>6 DEF EnforceBranches
  <2> QED BY <2>1, <2>4, <2>7
<1> QED BY <1>2, <1>3

LEMMA KeptIsGuarded ==
  ASSUME TypeInv, RecordedOK, NEW e \in Edges, KeepCut(e), UNCHANGED <<fn, actions>>,
         WithoutAddress(e)
  PROVE  Guarded(e)'
<1>1. UNCHANGED <<cuts, fences>> /\ IsCut(e)
  BY DEF KeepCut
<1>2. \A f : EdgePaths(f)' = EdgePaths(f) /\ FencedArcs(f)' = FencedArcs(f)
  BY <1>1 DEF EdgePaths, SkipSet, FencedArcs, Fenced
<1>3. ASSUME NEW f, NoAddress(f), NEW j, NEW p \in EdgePaths(f)
      PROVE  IsPathCut(f, p, j) \in {NoCut, SoftCut, HardCut}
  BY <1>3 DEF IsPathCut, NoAddress
<1> PICK no, yes \in BOOLEAN : no = FALSE /\ yes = TRUE
  OBVIOUS
<1>4. PICK strength, around : strength = IsEdgeCut(e, no)
                              /\ around = IsEdgeCut(SelfEdge(e), yes)
  OBVIOUS
<1>5. /\ strength \in {NoCut, SoftCut, HardCut}
      /\ \A p \in EdgePaths(e) : strength <= IsPathCut(e, p, no)
                                 /\ IsPathCut(e, p, no) \in {NoCut, SoftCut, HardCut}
      /\ strength # HardCut => \E p \in EdgePaths(e) : strength = IsPathCut(e, p, no)
  <2>1. NoAddress(e)
    BY DEF WithoutAddress
  <2> QED BY <1>3, <1>4, <2>1, EdgeCutIsLeast
<1>6. \/ strength = HardCut
      \/ strength = SoftCut /\ around > NoCut
  <2>1. strength = IsEdgeCut(e, FALSE) /\ around = IsEdgeCut(SelfEdge(e), TRUE)
    BY <1>4, Zenon
  <2>2. \/ strength = HardCut
        \/ strength = DataCut
        \/ strength = SoftCut /\ around > NoCut
    BY <1>1, <2>1, Zenon DEF IsCut
  <2> QED BY <1>5, <2>2 DEF NoCut, DataCut, SoftCut, HardCut
<1>7. CASE strength = HardCut
  <2>1. ASSUME NEW p \in EdgePaths(e) PROVE Crosses(p, FencedArcs(e))
    <3>1. IsPathCut(e, p, no) = HardCut
      BY <1>5, <1>7 DEF NoCut, SoftCut, HardCut
    <3> QED BY <3>1, EnforceCrosses DEF SoftCut, HardCut
  <2> QED BY <2>1, <1>2 DEF Guarded
<1>8. CASE strength = SoftCut /\ around > NoCut
  <2>1. PICK p \in EdgePaths(e) : IsPathCut(e, p, no) = SoftCut
    BY <1>5, <1>8 DEF SoftCut, HardCut
  <2>2. /\ e.type = ExecutionEdge
        /\ actions[e.src].odep # NoValue
        /\ actions[e.dst].type \in {"SimpleWrites", "SimpleRMW"}
    <3>1. HasSoftCut(e, p, no)
      BY <2>1 DEF IsPathCut, NoCut, DataCut, SoftCut, HardCut
    <3> QED BY <3>1 DEF HasSoftCut, BranchAt
  <2>3. PICK self \in Edges : self = SelfEdge(e)
    BY DEF SelfEdge, Edges
  <2>4. /\ self.src = e.src /\ self.type = e.type
        /\ FencedArcs(self) = FencedArcs(e)
    BY <2>3 DEF SelfEdge, Edges, FencedArcs, Fenced
  <2>5. \A f \in {e, self} : \A q \in EdgePaths(f) :
          IsPathCut(f, q, yes) \in {SoftCut, HardCut}
    <3>1. ASSUME NEW q \in EdgePaths(e)
          PROVE  IsPathCut(e, q, yes) \in {SoftCut, HardCut}
      <4>1. IsPathCut(e, q, no) \in {SoftCut, HardCut}
        BY <1>5, <1>8 DEF NoCut, SoftCut, HardCut
      <4>2. HasSoftCut(e, q, no) => HasSoftCut(e, q, yes)
        BY DEF HasSoftCut, BranchAt
      <4> QED BY <4>1, <4>2 DEF IsPathCut, NoCut, DataCut, SoftCut, HardCut
    <3>2. ASSUME NEW q \in EdgePaths(self)
          PROVE  IsPathCut(self, q, yes) \in {SoftCut, HardCut}
      <4>1. NoAddress(self)
        BY <2>2, <2>3 DEF WithoutAddress
      <4>2. IsPathCut(self, q, yes) \in {NoCut, SoftCut, HardCut}
        BY <1>3, <4>1
      <4>3. /\ IsEdgeCut(self, yes) <= IsPathCut(self, q, yes)
            /\ IsEdgeCut(self, yes) \in {NoCut, DataCut, SoftCut, HardCut}
        BY EdgeCutIsLeast
      <4>4. around = IsEdgeCut(self, yes)
        BY <1>4, <2>3, Zenon
      <4>5. PICK c : c = IsPathCut(self, q, yes)
        OBVIOUS
      <4>6. c \in {NoCut, SoftCut, HardCut} /\ around <= c /\ around > NoCut
        BY <1>8, <4>2, <4>3, <4>4, <4>5, Zenon
      <4>7. around \in {NoCut, DataCut, SoftCut, HardCut}
        BY <4>3, <4>4, Zenon
      <4>8. c \in {SoftCut, HardCut}
        BY <4>6, <4>7 DEF NoCut, DataCut, SoftCut, HardCut
      <4> QED BY <4>5, <4>8, Zenon
    <3> QED BY <3>1, <3>2
  <2>6. \A f \in {e, self} : EnforceBranches(f, yes) \subseteq kept'
    <3> DEFINE soft == IsEdgeCut(e, FALSE) = SoftCut
    <3>1. IsEdgeCut(e, FALSE) = SoftCut
      BY <1>4, <1>8, Zenon
    <3>2. IsEdgeCut(e, FALSE) # HardCut
      <4>1. SoftCut # HardCut
        BY DEF SoftCut, HardCut
      <4> QED BY <3>1, <4>1, Zenon
    <3>3. kept' = kept \cup UNION {EnforceBranches(f, soft) : f \in {e, SelfEdge(e)}}
      BY <3>2 DEF KeepCut
    <3>4. soft = yes
      BY <3>1
    <3> HIDE DEF soft
    <3> QED BY <2>3, <3>3, <3>4
  <2>7. ASSUME NEW f \in {e, self}, NEW q \in EdgePaths(f)
        PROVE  Crosses(q, FencedArcs(e) \cup KeptArcs(e)')
    <3>1. \/ Crosses(q, FencedArcs(f))
          \/ \E n \in 1 .. Len(q) - 1 :
               <<q[n], q[n + 1], actions[f.src].odep>> \in EnforceBranches(f, yes)
      BY <2>5, EnforceCrosses
    <3>2. CASE Crosses(q, FencedArcs(f))
      BY <2>4, <3>2 DEF Crosses
    <3>3. CASE \E n \in 1 .. Len(q) - 1 :
                 <<q[n], q[n + 1], actions[f.src].odep>> \in EnforceBranches(f, yes)
      <4>1. PICK n \in 1 .. Len(q) - 1 :
              <<q[n], q[n + 1], actions[e.src].odep>> \in kept'
        BY <2>4, <2>6, <3>3
      <4>2. q[n] \in Blocks /\ q[n + 1] \in Blocks
        BY EdgePathsType
      <4>3. <<q[n], q[n + 1]>> \in KeptArcs(e)'
        BY <4>1, <4>2 DEF KeptArcs
      <4> QED BY <4>3 DEF Crosses
    <3> QED BY <3>1, <3>2, <3>3
  <2>8. \A f \in {e, SelfEdge(e)} : \A q \in EdgePaths(f)' :
          Crosses(q, (FencedArcs(e) \cup KeptArcs(e))')
    BY <1>2, <2>3, <2>7
  <2> QED BY <2>2, <2>8 DEF Guarded
<1> QED BY <1>6, <1>7, <1>8


LEMMA GuardsLast ==
  ASSUME TypeInv, NEW e \in edges, CutEdge(e), NEW f \in Edges, Guarded(f)
  PROVE  Guarded(f)'
<1>1. UNCHANGED <<fn, actions>>
  BY DEF CutEdge
<1>2. \A g : EdgePaths(g)' = EdgePaths(g)
  BY <1>1 DEF EdgePaths, SkipSet
<1>3. FencedArcs(f) \subseteq FencedArcs(f)' /\ KeptArcs(f) \subseteq KeptArcs(f)'
  BY <1>1, FencesGrow DEF FencedArcs, KeptArcs
<1>4. \A p, A, B : A \subseteq B /\ Crosses(p, A) => Crosses(p, B)
  BY DEF Crosses
<1>5. FencedArcs(f) \cup KeptArcs(f) \subseteq (FencedArcs(f) \cup KeptArcs(f))'
  BY <1>3
<1>6. CASE \A p \in EdgePaths(f) : Crosses(p, FencedArcs(f))
  BY <1>2, <1>3, <1>4, <1>6 DEF Guarded
<1>7. CASE ~ \A p \in EdgePaths(f) : Crosses(p, FencedArcs(f))
  BY <1>1, <1>2, <1>4, <1>5, <1>7 DEF Guarded
<1> QED BY <1>6, <1>7

LEMMA FencedIsGuarded ==
  ASSUME TypeInv, NEW e \in Edges, InsertFence(e), UNCHANGED <<fn, actions>>
  PROVE  Guarded(e)'
<1>1. PICK bb, fence : bb = actions[e.dst].bb
                       /\ fence = IF e.type = PushEdge THEN "sync" ELSE "lwsync"
  OBVIOUS
<1>2. bb \in Blocks /\ e.type \in EdgeTypes
  BY <1>1, TypesOfGraph, ActionType DEF Edges, ActionRecords
<1>3. Fenced(e, bb)'
  <2>1. PICK s \in Seq({"sync", "lwsync"}) : s = fences[bb]
    BY <1>2 DEF TypeInv, CutTypeOK
  <2>2. fences'[bb] = Append(s, fence)
    BY <1>1, <1>2, <2>1 DEF InsertFence, TypeInv, CutTypeOK
  <2>3. \E n \in 1 .. Len(fences'[bb]) : fences'[bb][n] = fence
    BY <2>2, AppendMembers
  <2>4. fence = "sync" \/ (fence = "lwsync" /\ e.type < PushEdge)
    BY <1>1, <1>2 DEF EdgeTypes, ExecutionEdge, VisibilityEdge, PushEdge
  <2> QED BY <2>3, <2>4 DEF Fenced
<1>4. ASSUME NEW p \in EdgePaths(e) PROVE Crosses(p, FencedArcs(e)')
  <2>1. /\ Len(p) \in Nat /\ Len(p) >= 2
        /\ \A n \in 1 .. Len(p) : p[n] \in Blocks
        /\ p[Len(p)] = bb
    BY <1>1, EdgePathsType
  <2>2. PICK n \in 1 .. Len(p) - 1 : n + 1 = Len(p)
    <3>1. Len(p) - 1 \in 1 .. Len(p) - 1
      BY <2>1
    <3> QED BY <3>1, <2>1
  <2>3. <<p[n], p[n + 1]>> \in FencedArcs(e)'
    BY <1>2, <1>3, <2>1, <2>2 DEF FencedArcs
  <2> QED BY <2>3 DEF Crosses
<1>5. EdgePaths(e)' = EdgePaths(e)
  BY DEF EdgePaths, SkipSet
<1> QED BY <1>4, <1>5 DEF Guarded

LEMMA GuardStep ==
  ASSUME TypeInv, FenceInv, GuardInv, [Next]_vars
  PROVE  GuardInv'
<1>1. ASSUME NEW e \in edges, CutEdge(e)
      PROVE  GuardInv'
  <2>1. UNCHANGED <<fn, actions>> /\ done' = done \cup {e} /\ e \in Edges
        /\ done \subseteq Edges /\ RecordedOK
    BY <1>1 DEF CutEdge, FenceInv, TypeInv, GraphInv, GraphTypeOK, CutTypeOK
  <2>2. \A f : WithoutAddress(f)' <=> WithoutAddress(f)
    BY <2>1 DEF WithoutAddress, NoAddress, AddrDepsOn, SearchAddrDeps,
                EdgePaths, SkipSet
  <2>3. WithoutAddress(e) => Guarded(e)'
    <3>1. CASE KeepCut(e)
      BY <2>1, <3>1, KeptIsGuarded
    <3>2. CASE InsertFence(e)
      BY <2>1, <3>2, FencedIsGuarded
    <3> QED BY <1>1, <3>1, <3>2 DEF CutEdge
  <2>4. \A f \in done : WithoutAddress(f) => Guarded(f)'
    BY <1>1, <2>1, GuardsLast DEF GuardInv
  <2> QED BY <2>1, <2>2, <2>3, <2>4 DEF GuardInv
<1>2. CASE CutEdges
  BY <1>1, <1>2 DEF CutEdges, CutNext
<1>3. CASE BuildGraph
  <2>1. pc # "cut" /\ UNCHANGED done
    BY <1>3 DEF BuildGraph, GraphNext, FindEdges, BuildActionGraph, cutVars,
                TransitiveClosure, AssertFails, RemoveUselessEdges, RebuildEdges
  <2> QED BY <2>1 DEF FenceInv, NothingYet, GuardInv
<1>4. CASE UNCHANGED vars
  <2>1. UNCHANGED <<fn, actions, done, fences, kept>>
    BY <1>4 DEF vars, cutVars
  <2>2. \A f : WithoutAddress(f)' <=> WithoutAddress(f)
    BY <2>1 DEF WithoutAddress, NoAddress, AddrDepsOn, SearchAddrDeps,
                EdgePaths, SkipSet
  <2>3. \A f : Guarded(f)' <=> Guarded(f)
    BY <2>1 DEF Guarded, EdgePaths, SkipSet, FencedArcs, Fenced, KeptArcs
  <2> QED BY <2>1, <2>2, <2>3 DEF GuardInv
<1> QED BY <1>2, <1>3, <1>4 DEF Next

(* Unless an address dependency is what orders it, every edge that is done *)
(* is ordered on every walk of the program: round any loop, whatever the   *)
(* branches that LLVM may not remove, and although isCut looks at simple   *)
(* paths and at one self edge only.  The source computes its value in its  *)
(* own block, and the bind site is not that block.                         *)
OrderedWithoutAddress ==
  \A e \in done :
    WithoutAddress(e) /\ OwnBlock(e) /\ e.bind # actions[e.src].out => Ordered(e)

THEOREM FencesAndBranchesOrder == Spec => []OrderedWithoutAddress
<1>1. Init => GuardInv
  BY DEF Init, CutInit, GuardInv
<1>2. TypeInv /\ FenceInv /\ GuardInv /\ [Next]_vars => GuardInv'
  BY GuardStep
<1>3. TypeInv /\ GuardInv => OrderedWithoutAddress
  <2> SUFFICES ASSUME TypeInv, GuardInv, NEW e \in done, WithoutAddress(e),
                      OwnBlock(e), e.bind # actions[e.src].out
               PROVE  Ordered(e)
    BY DEF OrderedWithoutAddress
  <2>1. e \in Edges
    BY DEF TypeInv, CutTypeOK
  <2>2. Guarded(e)
    BY DEF GuardInv
  <2> QED BY <2>1, <2>2, GuardedIsOrdered
<1> QED BY <1>1, <1>2, <1>3, TypeInvariant, FenceInvariant, PTL DEF Spec
-----------------------------------------------------------------------------
(* How the actions were found, before the graph is built.  Codes as they   *)
(* are split: their places, and which of them are reached from which.      *)
LEMMA CodeType ==
  ASSUME NEW c \in Codes
  PROVE  /\ Len(c) \in Nat /\ DOMAIN c = 1 .. Len(c)
         /\ \A b \in DOMAIN c : /\ c[b] \in [ins : Seq(Instrs), succ : SUBSET Nat]
                                /\ c[b].ins \in Seq(Instrs) /\ Len(c[b].ins) \in Nat
                                /\ DOMAIN c[b].ins = 1 .. Len(c[b].ins)
                                /\ c[b].succ \subseteq DOMAIN c
<1> DEFINE R == [ins : Seq(Instrs), succ : SUBSET Nat]
<1>1. c \in Seq(R) /\ \A b \in DOMAIN c : c[b].succ \subseteq DOMAIN c
  BY DEF Codes
<1>2. Len(c) \in Nat /\ DOMAIN c = 1 .. Len(c) /\ \A b \in DOMAIN c : c[b] \in R
  <2> HIDE DEF R
  <2> QED BY <1>1
<1>3. \A q \in Seq(Instrs) : Len(q) \in Nat /\ DOMAIN q = 1 .. Len(q)
  OBVIOUS
<1>4. \A b \in DOMAIN c : c[b].ins \in Seq(Instrs)
  BY <1>2
<1> QED BY <1>1, <1>2, <1>3, <1>4

LEMMA PlaceType ==
  ASSUME NEW c \in Codes
  PROVE  /\ \A b, k : <<b, k>> \in Places(c) <=> b \in DOMAIN c /\ k \in 1 .. Len(c[b].ins) + 1
         /\ \A b, k : <<b, k>> \in Sites(c) <=> b \in DOMAIN c /\ k \in 1 .. Len(c[b].ins)
         /\ \A p \in Places(c) : /\ p = <<p[1], p[2]>> /\ p[1] \in DOMAIN c
                                 /\ p[2] \in 1 .. Len(c[p[1]].ins) + 1
         /\ Sites(c) \subseteq Places(c)
<1>1. \A b \in DOMAIN c : Len(c[b].ins) \in Nat /\ DOMAIN c[b].ins = 1 .. Len(c[b].ins)
  BY CodeType
<1>2. \A b, k : <<b, k>> \in Places(c) <=> b \in DOMAIN c /\ k \in 1 .. Len(c[b].ins) + 1
  BY DEF Places
<1>3. \A b, k : <<b, k>> \in Sites(c) <=> b \in DOMAIN c /\ k \in 1 .. Len(c[b].ins)
  BY <1>1 DEF Sites
<1>4. \A p \in Places(c) : \E b \in DOMAIN c : \E k \in 1 .. Len(c[b].ins) + 1 : p = <<b, k>>
  BY DEF Places
<1>5. \A p \in Sites(c) : \E b \in DOMAIN c : \E k \in 1 .. Len(c[b].ins) : p = <<b, k>>
  BY <1>1 DEF Sites
<1>6. Sites(c) \subseteq Places(c)
  <2> SUFFICES ASSUME NEW p \in Sites(c) PROVE p \in Places(c)
    OBVIOUS
  <2>1. PICK b \in DOMAIN c : \E k \in 1 .. Len(c[b].ins) : p = <<b, k>>
    BY <1>5
  <2>2. PICK k \in 1 .. Len(c[b].ins) : p = <<b, k>>
    BY <2>1
  <2>3. k \in 1 .. Len(c[b].ins) + 1
    BY <1>1
  <2> QED BY <1>2, <2>2, <2>3
<1>7. \A p \in Places(c) : /\ p = <<p[1], p[2]>> /\ p[1] \in DOMAIN c
                           /\ p[2] \in 1 .. Len(c[p[1]].ins) + 1
  BY <1>4
<1> QED BY <1>2, <1>3, <1>6, <1>7

LEMMA ImageFinite ==
  ASSUME NEW S, IsFiniteSet(S), NEW f, DOMAIN f = S
  PROVE  IsFiniteSet({f[x] : x \in S})
<1> DEFINE T == {f[x] : x \in S}
           h == [x \in S |-> f[x]]
<1>1. h \in Surjection(S, T)
  BY DEF Surjection
<1> HIDE DEF h, T
<1> QED BY <1>1, FS_Surjection DEF T

LEMMA PlacesFinite ==
  ASSUME NEW c \in Codes
  PROVE  IsFiniteSet(Places(c))
<1> DEFINE row(b) == {<<b, k>> : k \in 1 .. Len(c[b].ins) + 1}
           rows == {row(b) : b \in DOMAIN c}
<1>1. \A b \in DOMAIN c : IsFiniteSet(row(b))
  <2> TAKE b \in DOMAIN c
  <2> DEFINE K == 1 .. Len(c[b].ins) + 1
             f == [k \in K |-> <<b, k>>]
  <2>1. IsFiniteSet(K)
    BY CodeType, FS_Interval
  <2>2. DOMAIN f = K /\ {f[k] : k \in K} = row(b)
    OBVIOUS
  <2> HIDE DEF f, K
  <2>3. IsFiniteSet({f[k] : k \in K})
    BY <2>1, <2>2, ImageFinite
  <2> QED BY <2>2, <2>3
<1>2. IsFiniteSet(DOMAIN c)
  BY CodeType, FS_Interval
<1>3. IsFiniteSet(rows)
  <2> DEFINE f == [b \in DOMAIN c |-> row(b)]
  <2>1. DOMAIN f = DOMAIN c /\ {f[b] : b \in DOMAIN c} = rows
    OBVIOUS
  <2> HIDE DEF f, rows
  <2>2. IsFiniteSet({f[b] : b \in DOMAIN c})
    BY <1>2, <2>1, ImageFinite
  <2> QED BY <2>1, <2>2
<1>4. IsFiniteSet(UNION rows)
  <2>1. \A r \in rows : IsFiniteSet(r)
    BY <1>1
  <2> HIDE DEF rows
  <2> QED BY <1>3, <2>1, FS_UNION
<1> QED BY <1>4 DEF Places

LEMMA OnwardOfPlace ==
  ASSUME NEW c \in Codes, NEW p \in Places(c)
  PROVE  Onward(c, p) \subseteq Places(c)
<1>1. p = <<p[1], p[2]>> /\ p[1] \in DOMAIN c /\ p[2] \in 1 .. Len(c[p[1]].ins) + 1
  BY PlaceType
<1>2. CASE p \in Sites(c)
  <2>1. p[2] \in 1 .. Len(c[p[1]].ins)
    BY <1>1, <1>2, PlaceType
  <2>2. p[2] + 1 \in 1 .. Len(c[p[1]].ins) + 1
    BY <1>1, <2>1, CodeType
  <2> QED BY <1>1, <1>2, <2>2, PlaceType DEF Onward
<1>3. CASE p \notin Sites(c)
  <2> SUFFICES ASSUME NEW b \in c[p[1]].succ PROVE <<b, 1>> \in Places(c)
    BY <1>3 DEF Onward
  <2>1. b \in DOMAIN c /\ Len(c[b].ins) \in Nat
    BY <1>1, CodeType
  <2> QED BY <2>1, PlaceType
<1> QED BY <1>2, <1>3

(* Reach is the least set of places that holds the first one and where one *)
(* goes on to from those that do not stop.                                 *)
LEMMA ReachIsLeast ==
  ASSUME NEW c \in Codes, NEW from \in Places(c), NEW stops
  PROVE  /\ Reach(c, from, stops) \subseteq Places(c)
         /\ from \in Reach(c, from, stops)
         /\ \A p \in Reach(c, from, stops) \ stops : Onward(c, p) \subseteq Reach(c, from, stops)
         /\ \A C \in SUBSET Places(c) :
              from \in C /\ (\A p \in C \ stops : Onward(c, p) \subseteq C)
              => Reach(c, from, stops) \subseteq C
<1> DEFINE P == Places(c)
           Found(S) == UNION {Onward(c, p) : p \in S \ stops}
           hop == [S \in SUBSET P |-> Found(S)]
           Solves(f) ==
             f = [S \in SUBSET Places(c) |->
                    LET T == S \cup UNION {Onward(c, p) : p \in S \ stops}
                    IN IF T = S THEN S ELSE f[T]]
           Explore == CHOOSE f : Solves(f)
<1>1. hop \in [SUBSET P -> SUBSET P]
  BY OnwardOfPlace
<1>2. \A S, T \in SUBSET P : S \subseteq T => hop[S] \subseteq hop[T]
  OBVIOUS
<1>3. \A f : Solves(f) <=> Saturates(f, P, hop)
  <2> TAKE f
  <2> DEFINE one(S) == LET T == S \cup Found(S) IN IF T = S THEN S ELSE f[T]
             two(S) == IF hop[S] \subseteq S THEN S ELSE f[S \cup hop[S]]
  <2>1. ASSUME NEW S \in SUBSET P PROVE one(S) = two(S)
    <3>1. hop[S] = Found(S)
      OBVIOUS
    <3> DEFINE U == Found(S)
    <3>2. (S \cup U = S) <=> U \subseteq S
      <4> HIDE DEF U
      <4> QED OBVIOUS
    <3>3. one(S) = IF S \cup U = S THEN S ELSE f[S \cup U]
      BY Zenon
    <3>4. two(S) = IF U \subseteq S THEN S ELSE f[S \cup U]
      <4> HIDE DEF hop
      <4> QED BY <3>1
    <3> HIDE DEF one, two, U
    <3> QED BY <3>2, <3>3, <3>4
  <2>2. [S \in SUBSET P |-> one(S)] = [S \in SUBSET P |-> two(S)]
    <3> HIDE DEF one, two
    <3> QED BY <2>1
  <2>3. Solves(f) <=> f = [S \in SUBSET P |-> one(S)]
    OBVIOUS
  <2> HIDE DEF one, Solves, hop
  <2> QED BY <2>2, <2>3 DEF Saturates
<1>4. Saturates(Explore, P, hop)
  <2>1. \E f : Solves(f)
    <3> HIDE DEF Solves, hop
    <3> QED BY <1>1, <1>2, <1>3, SaturationExists
  <2>2. Solves(Explore)
    <3> HIDE DEF Solves
    <3> QED BY <2>1
  <2> HIDE DEF Solves, Explore, hop
  <2> QED BY <2>2, <1>3
<1>5. Reach(c, from, stops) = Explore[{from}]
  BY DEF Reach
<1>6. {from} \in SUBSET P
  OBVIOUS
<1>7. Explore[{from}] = LeastOf(P, hop, {from})
  <2>1. IsFiniteSet(P)
    BY PlacesFinite
  <2> HIDE DEF Explore, hop, P
  <2> QED BY <1>1, <1>2, <1>4, <1>6, <2>1, SaturationIsLeast
<1> DEFINE R == LeastOf(P, hop, {from})
<1>8. R \in SUBSET P /\ {from} \subseteq R /\ hop[R] \subseteq R
  <2> HIDE DEF hop, P
  <2> QED BY <1>1, <1>2, <1>6, LeastClosed
<1>9. \A p \in R \ stops : Onward(c, p) \subseteq R
  <2>1. hop[R] = Found(R)
    <3> HIDE DEF R
    <3> QED BY <1>8
  <2>2. Found(R) \subseteq R
    <3> HIDE DEF R, hop, Found
    <3> QED BY <1>8, <2>1
  <2> HIDE DEF R
  <2> QED BY <2>2
<1>10. ASSUME NEW C \in SUBSET P, from \in C, \A p \in C \ stops : Onward(c, p) \subseteq C
       PROVE  R \subseteq C
  <2>1. hop[C] = Found(C) /\ Found(C) \subseteq C
    BY <1>10
  <2> HIDE DEF hop, Found
  <2> QED BY <1>10, <2>1 DEF LeastOf
<1> HIDE DEF R, Explore, hop, P
<1> QED BY <1>5, <1>7, <1>8, <1>9, <1>10 DEF P, R

(* B is A without the place e, which only leads on to the next one: the    *)
(* rest of the places are the same, g and H tell which.                    *)
Contracts(A, B, e, g, H) ==
  /\ e \in Places(A)
  /\ g \in [Places(B) -> Places(A)] /\ H \in [Places(A) -> Places(B)]
  /\ \A q \in Places(B) : g[q] # e /\ H[g[q]] = q
  /\ \A p \in Places(A) : p # e => g[H[p]] = p
  /\ Onward(A, e) = {g[H[e]]}
  /\ \A q \in Places(B) : Onward(B, q) = {H[p] : p \in Onward(A, g[q])}
  /\ \A q \in Places(B) : q \in Sites(B) <=> g[q] \in Sites(A)
  /\ \A q \in Sites(B) : At(B, q) = At(A, g[q])
  /\ e \in Sites(A) => At(A, e).op \in {"register", "close"}

LEMMA ReachContracts ==
  ASSUME NEW A \in Codes, NEW B \in Codes, NEW e, NEW g, NEW H, Contracts(A, B, e, g, H),
         NEW from \in Places(A), NEW stop \in Places(B)
  PROVE  \A q \in Places(B) : q \in Reach(B, H[from], {stop}) <=> g[q] \in Reach(A, from, {g[stop]})
<1> DEFINE RA == Reach(A, from, {g[stop]})
           RB == Reach(B, H[from], {stop})
<1>1. H[from] \in Places(B)
  BY DEF Contracts
<1>2. /\ RA \subseteq Places(A) /\ from \in RA
      /\ \A p \in RA \ {g[stop]} : Onward(A, p) \subseteq RA
  BY ReachIsLeast
<1>3. \A C \in SUBSET Places(A) :
        from \in C /\ (\A p \in C \ {g[stop]} : Onward(A, p) \subseteq C) => RA \subseteq C
  BY ReachIsLeast
<1>4. /\ RB \subseteq Places(B) /\ H[from] \in RB
      /\ \A p \in RB \ {stop} : Onward(B, p) \subseteq RB
  BY <1>1, ReachIsLeast
<1>5. \A C \in SUBSET Places(B) :
        H[from] \in C /\ (\A p \in C \ {stop} : Onward(B, p) \subseteq C) => RB \subseteq C
  BY <1>1, ReachIsLeast
<1> HIDE DEF RA, RB
<1>6. e # g[stop]
  BY DEF Contracts
<1>7. RA \subseteq {p \in Places(A) : H[p] \in RB}
  <2> DEFINE C == {p \in Places(A) : H[p] \in RB}
  <2>1. ASSUME NEW p \in C \ {g[stop]} PROVE Onward(A, p) \subseteq C
    <3>1. Onward(A, p) \subseteq Places(A)
      BY OnwardOfPlace
    <3>2. CASE p = e
      BY <2>1, <3>1, <3>2 DEF Contracts
    <3>3. CASE p # e
      <4>1. H[p] \in RB /\ H[p] \in Places(B) /\ g[H[p]] = p
        BY <2>1, <3>3 DEF Contracts
      <4>2. H[p] # stop
        BY <2>1, <4>1
      <4>3. Onward(B, H[p]) = {H[r] : r \in Onward(A, p)}
        BY <4>1 DEF Contracts
      <4>4. Onward(B, H[p]) \subseteq RB
        BY <1>4, <4>1, <4>2
      <4> QED BY <3>1, <4>3, <4>4
    <3> QED BY <3>2, <3>3
  <2> QED BY <1>3, <1>4, <2>1
<1>8. RB \subseteq {q \in Places(B) : g[q] \in RA}
  <2> DEFINE C == {q \in Places(B) : g[q] \in RA}
  <2>1. ASSUME NEW p \in RA PROVE H[p] \in Places(B) /\ g[H[p]] \in RA
    <3>1. p \in Places(A)
      BY <1>2, <2>1
    <3>2. CASE p = e
      BY <1>2, <1>6, <2>1, <3>1, <3>2 DEF Contracts
    <3> QED BY <2>1, <3>1, <3>2 DEF Contracts
  <2>2. ASSUME NEW q \in C \ {stop} PROVE Onward(B, q) \subseteq C
    <3>1. g[q] # g[stop]
      BY <2>2 DEF Contracts
    <3>2. Onward(A, g[q]) \subseteq RA
      BY <1>2, <2>2, <3>1
    <3>3. Onward(B, q) = {H[p] : p \in Onward(A, g[q])}
      BY <2>2 DEF Contracts
    <3> QED BY <2>1, <3>2, <3>3
  <2>3. H[from] \in C
    BY <1>2, <2>1
  <2> QED BY <1>5, <2>2, <2>3
<1>9. \A q \in Places(B) : H[g[q]] = q /\ g[q] \in Places(A)
  BY DEF Contracts
<1> QED BY <1>7, <1>8, <1>9 DEF RA, RB

LEMMA CallsContract ==
  ASSUME NEW A \in Codes, NEW B \in Codes, NEW e, NEW g, NEW H, Contracts(A, B, e, g, H),
         NEW op, NEW id, e \notin Calls(A, op, id)
  PROVE  /\ \A q : Calls(B, op, id) = {q} => Calls(A, op, id) = {g[q]}
         /\ \A p : Calls(A, op, id) = {p} => Calls(B, op, id) = {H[p]} /\ g[H[p]] = p
<1>1. Sites(A) \subseteq Places(A) /\ Sites(B) \subseteq Places(B)
  BY PlaceType
<1>2. ASSUME NEW q \in Calls(B, op, id) PROVE g[q] \in Calls(A, op, id)
  <2>1. q \in Sites(B) /\ q \in Places(B)
    BY <1>1, <1>2 DEF Calls
  <2> QED BY <1>2, <2>1 DEF Calls, Contracts
<1>3. ASSUME NEW p \in Calls(A, op, id) PROVE H[p] \in Calls(B, op, id) /\ g[H[p]] = p
  <2>1. p \in Sites(A) /\ p \in Places(A) /\ p # e
    BY <1>1, <1>3 DEF Calls
  <2>2. H[p] \in Places(B) /\ g[H[p]] = p
    BY <2>1 DEF Contracts
  <2>3. H[p] \in Sites(B)
    BY <2>1, <2>2 DEF Contracts
  <2>4. At(B, H[p]) = At(A, p)
    BY <2>2, <2>3 DEF Contracts
  <2> QED BY <1>3, <2>2, <2>3, <2>4 DEF Calls
<1>4. \A q \in Calls(B, op, id) : H[g[q]] = q
  BY <1>1 DEF Calls, Contracts
<1> HIDE DEF Calls
<1> QED BY <1>2, <1>3, <1>4

LEMMA CallIsSite ==
  ASSUME NEW c, NEW op, NEW id, NEW p, Calls(c, op, id) = {p}
  PROVE  /\ p \in Sites(c) /\ At(c, p).op = op /\ At(c, p).id = id
         /\ TheCall(c, op, id) = p
<1>1. p \in Calls(c, op, id)
  OBVIOUS
<1>2. TheCall(c, op, id) = p
  BY DEF TheCall
<1> QED BY <1>1, <1>2 DEF Calls

(* Of what an action does its own calls and those of others are not part.  *)
Data(S) == {i \in S : i.op \notin {"register", "close"}}

LEMMA InsideContracts ==
  ASSUME NEW A \in Codes, NEW B \in Codes, NEW e, NEW g, NEW H, Contracts(A, B, e, g, H),
         NEW id, NEW r, NEW z, r # e, z # e,
         Calls(A, "register", id) = {r}, Calls(A, "close", id) = {z}
  PROVE  Data(Inside(A, id)) = Data(Inside(B, id))
<1> DEFINE from == <<r[1], r[2] + 1>>
           RA == Reach(A, from, {z})
           RB == Reach(B, H[from], {H[z]})
<1>1. /\ r \in Sites(A) /\ z \in Sites(A)
      /\ TheCall(A, "register", id) = r /\ TheCall(A, "close", id) = z
  BY CallIsSite
<1>2. e \notin Calls(A, "register", id) /\ e \notin Calls(A, "close", id)
  OBVIOUS
<1>3. /\ Calls(B, "register", id) = {H[r]} /\ g[H[r]] = r
      /\ Calls(B, "close", id) = {H[z]} /\ g[H[z]] = z
  BY <1>2, CallsContract
<1>4. /\ H[r] \in Sites(B) /\ H[z] \in Sites(B)
      /\ TheCall(B, "register", id) = H[r] /\ TheCall(B, "close", id) = H[z]
  <2> DEFINE rB == H[r]
             zB == H[z]
  <2>1. Calls(B, "register", id) = {rB} /\ Calls(B, "close", id) = {zB}
    BY <1>3
  <2> HIDE DEF rB, zB
  <2>2. rB \in Sites(B) /\ TheCall(B, "register", id) = rB
    BY <2>1, CallIsSite
  <2>3. zB \in Sites(B) /\ TheCall(B, "close", id) = zB
    BY <2>1, CallIsSite
  <2> QED BY <2>2, <2>3 DEF rB, zB
<1>5. /\ Sites(A) \subseteq Places(A) /\ Sites(B) \subseteq Places(B)
  BY PlaceType
<1>6. Onward(A, r) = {from} /\ from \in Places(A)
  <2>1. Onward(A, r) = {from}
    BY <1>1 DEF Onward
  <2> QED BY <2>1, <1>1, <1>5, OnwardOfPlace
<1>7. H[from] = <<H[r][1], H[r][2] + 1>>
  <2>1. Onward(B, H[r]) = {H[p] : p \in Onward(A, r)}
    BY <1>3, <1>4, <1>5 DEF Contracts
  <2>2. Onward(B, H[r]) = {<<H[r][1], H[r][2] + 1>>}
    BY <1>4 DEF Onward
  <2> HIDE DEF from
  <2> QED BY <1>6, <2>1, <2>2
<1>8. Inside(A, id) = InsOf(A, RA \ {z}) /\ Inside(B, id) = InsOf(B, RB \ {H[z]})
  BY <1>1, <1>4, <1>7 DEF Inside
<1>9. \A q \in Places(B) : q \in RB <=> g[q] \in RA
  <2> HIDE DEF from
  <2>1. \A q \in Places(B) : q \in Reach(B, H[from], {H[z]})
                               <=> g[q] \in Reach(A, from, {g[H[z]]})
    BY <1>4, <1>5, <1>6, ReachContracts
  <2> QED BY <1>3, <2>1
<1> HIDE DEF RA, RB, from
<1>10. ASSUME NEW q \in (RB \ {H[z]}) \cap Sites(B)
       PROVE  g[q] \in (RA \ {z}) \cap Sites(A) /\ At(B, q) = At(A, g[q])
  <2>1. q \in Places(B) /\ H[g[q]] = q
    BY <1>5 DEF Contracts
  <2> QED BY <1>9, <2>1 DEF Contracts
<1>11. ASSUME NEW p \in (RA \ {z}) \cap Sites(A), At(A, p).op \notin {"register", "close"}
       PROVE  H[p] \in (RB \ {H[z]}) \cap Sites(B) /\ At(B, H[p]) = At(A, p)
  <2>1. p \in Places(A) /\ p # e
    BY <1>5, <1>11 DEF Contracts
  <2>2. H[p] \in Places(B) /\ g[H[p]] = p
    BY <2>1 DEF Contracts
  <2> QED BY <1>3, <1>9, <2>2 DEF Contracts
<1>12. \A i \in Data(Inside(B, id)) : i \in Data(Inside(A, id))
  BY <1>8, <1>10 DEF Data, InsOf
<1>13. \A i \in Data(Inside(A, id)) : i \in Data(Inside(B, id))
  BY <1>8, <1>11 DEF Data, InsOf
<1> QED BY <1>12, <1>13

LEMMA BetweenContracts ==
  ASSUME NEW A \in Codes, NEW B \in Codes, NEW e, NEW g, NEW H, Contracts(A, B, e, g, H),
         NEW bb, NEW m, NEW n, <<bb, 1>> \in Places(A), H[<<bb, 1>>] = <<bb, 1>>,
         End(B, n) \in Places(B), g[End(B, n)] = End(A, m)
  PROVE  Data(Between(A, bb, m)) = Data(Between(B, bb, n))
<1> DEFINE RA == Reach(A, <<bb, 1>>, {End(A, m)})
           RB == Reach(B, <<bb, 1>>, {End(B, n)})
<1>1. Between(A, bb, m) = InsOf(A, RA) /\ Between(B, bb, n) = InsOf(B, RB)
  BY DEF Between
<1>2. \A q \in Places(B) : q \in RB <=> g[q] \in RA
  <2> DEFINE from == <<bb, 1>>
             stop == End(B, n)
  <2>1. from \in Places(A) /\ H[from] = from /\ stop \in Places(B) /\ g[stop] = End(A, m)
    OBVIOUS
  <2> HIDE DEF from, stop
  <2>2. \A q \in Places(B) : q \in Reach(B, H[from], {stop})
                               <=> g[q] \in Reach(A, from, {g[stop]})
    BY <2>1, ReachContracts
  <2> QED BY <2>1, <2>2 DEF from, stop
<1> HIDE DEF RA, RB
<1>3. Sites(A) \subseteq Places(A) /\ Sites(B) \subseteq Places(B)
  BY PlaceType
<1>4. ASSUME NEW q \in RB \cap Sites(B)
      PROVE  g[q] \in RA \cap Sites(A) /\ At(B, q) = At(A, g[q])
  BY <1>2, <1>3 DEF Contracts
<1>5. ASSUME NEW p \in RA \cap Sites(A), At(A, p).op \notin {"register", "close"}
      PROVE  H[p] \in RB \cap Sites(B) /\ At(B, H[p]) = At(A, p)
  <2>1. p \in Places(A) /\ p # e
    BY <1>3, <1>5 DEF Contracts
  <2>2. H[p] \in Places(B) /\ g[H[p]] = p
    BY <2>1 DEF Contracts
  <2> QED BY <1>2, <2>2 DEF Contracts
<1>6. \A i \in Data(Between(B, bb, n)) : i \in Data(Between(A, bb, m))
  BY <1>1, <1>4 DEF Data, InsOf
<1>7. \A i \in Data(Between(A, bb, m)) : i \in Data(Between(B, bb, n))
  BY <1>1, <1>5 DEF Data, InsOf
<1> QED BY <1>6, <1>7

(* Splitting a block in front of an instruction adds the end of its first  *)
(* part, from where one goes on to the second.                             *)
SplitFrom(c, b, k) ==
  [q \in Places(c) |-> IF q[1] = b /\ q[2] >= k THEN <<Len(c) + 1, q[2] - k + 1>> ELSE q]
SplitTo(c, b, k) ==
  [p \in Places(SplitAt(c, b, k)) |-> IF p[1] = Len(c) + 1 THEN <<b, p[2] + k - 1>> ELSE p]

IsSplit(d, c, b, k) ==
  /\ d \in Codes /\ DOMAIN d = 1 .. Len(c) + 1 /\ Len(d) = Len(c) + 1
  /\ \A x \in DOMAIN c : x # b => d[x] = c[x]
  /\ d[b].succ = {Len(c) + 1} /\ Len(d[b].ins) = k - 1
  /\ \A j \in 1 .. k - 1 : d[b].ins[j] = c[b].ins[j]
  /\ d[Len(c) + 1].succ = c[b].succ
  /\ Len(d[Len(c) + 1].ins) = Len(c[b].ins) - k + 1
  /\ \A j \in 1 .. Len(c[b].ins) - k + 1 : d[Len(c) + 1].ins[j] = c[b].ins[j + k - 1]

LEMMA SplitType ==
  ASSUME NEW c \in Codes, NEW b \in DOMAIN c, NEW k \in 1 .. Len(c[b].ins),
         NEW d, d = SplitAt(c, b, k)
  PROVE  IsSplit(d, c, b, k)
<1> DEFINE R == [ins : Seq(Instrs), succ : SUBSET Nat]
           N == Len(c) + 1
           ins == c[b].ins
           front == [ins |-> SubSeq(ins, 1, k - 1), succ |-> {N}]
           rest == [ins |-> SubSeq(ins, k, Len(ins)), succ |-> c[b].succ]
           f == [c EXCEPT ![b] = front]
<1>1. d = Append(f, rest)
  BY DEF SplitAt
<1>2. /\ c \in Seq(R) /\ Len(c) \in Nat /\ DOMAIN c = 1 .. Len(c)
      /\ ins \in Seq(Instrs) /\ Len(ins) \in Nat
      /\ \A x \in DOMAIN c : c[x].succ \subseteq DOMAIN c
      /\ k \in 1 .. Len(ins)
  BY CodeType DEF Codes
<1>3. /\ SubSeq(ins, 1, k - 1) \in Seq(Instrs) /\ Len(SubSeq(ins, 1, k - 1)) = k - 1
      /\ \A j \in 1 .. k - 1 : SubSeq(ins, 1, k - 1)[j] = ins[j]
  <2> HIDE DEF ins
  <2> QED BY <1>2
<1>4. /\ SubSeq(ins, k, Len(ins)) \in Seq(Instrs)
      /\ Len(SubSeq(ins, k, Len(ins))) = Len(ins) - k + 1
      /\ \A j \in 1 .. Len(ins) - k + 1 : SubSeq(ins, k, Len(ins))[j] = ins[j + k - 1]
  <2> HIDE DEF ins
  <2> QED BY <1>2
<1>5. front \in R /\ rest \in R
  <2>1. c[b].succ \in SUBSET Nat
    BY <1>2
  <2> HIDE DEF ins
  <2> QED BY <1>2, <1>3, <1>4, <2>1
<1>6. /\ front.ins = SubSeq(ins, 1, k - 1) /\ front.succ = {N}
      /\ rest.ins = SubSeq(ins, k, Len(ins)) /\ rest.succ = c[b].succ
  OBVIOUS
<1> HIDE DEF ins, front, rest, R
<1>7. f \in Seq(R) /\ Len(f) = Len(c) /\ f[b] = front /\ \A x \in DOMAIN c : x # b => f[x] = c[x]
  BY <1>2, <1>5
<1> HIDE DEF f
<1>8. /\ d \in Seq(R) /\ Len(d) = N /\ DOMAIN d = 1 .. N /\ d[N] = rest
      /\ d[b] = front /\ \A x \in DOMAIN c : x # b => d[x] = c[x]
  <2>1. /\ d \in Seq(R) /\ Len(d) = Len(f) + 1 /\ d[Len(f) + 1] = rest
        /\ \A x \in 1 .. Len(f) : d[x] = f[x]
    BY <1>1, <1>5, <1>7, AppendProperties
  <2>2. DOMAIN d = 1 .. Len(d)
    BY <2>1
  <2> QED BY <1>2, <1>7, <2>1, <2>2
<1>9. \A x \in DOMAIN d : d[x].succ \subseteq DOMAIN d
  <2> TAKE x \in DOMAIN d
  <2>1. DOMAIN c \subseteq DOMAIN d /\ N \in DOMAIN d
    BY <1>2, <1>8
  <2>2. CASE x = N
    BY <1>2, <1>6, <1>8, <2>1, <2>2
  <2>3. CASE x = b
    BY <1>6, <1>8, <2>1, <2>3
  <2>4. CASE x # N /\ x # b
    <3>1. x \in DOMAIN c
      BY <1>2, <1>8, <2>4
    <3> QED BY <1>2, <1>8, <2>1, <2>4, <3>1
  <2> QED BY <2>2, <2>3, <2>4
<1>10. d \in Codes
  BY <1>8, <1>9 DEF Codes, R
<1> QED BY <1>1, <1>3, <1>4, <1>6, <1>8, <1>10 DEF ins, IsSplit

LEMMA SplitContracts ==
  ASSUME NEW c \in Codes, NEW b \in DOMAIN c, NEW k \in 1 .. Len(c[b].ins)
  PROVE  Contracts(SplitAt(c, b, k), c, <<b, k>>, SplitFrom(c, b, k), SplitTo(c, b, k))
<1> DEFINE d == SplitAt(c, b, k)
           N == Len(c) + 1
           L == Len(c[b].ins)
           e == <<b, k>>
           g == SplitFrom(c, b, k)
           H == SplitTo(c, b, k)
<1>1. /\ d \in Codes /\ DOMAIN d = 1 .. N
      /\ \A x \in DOMAIN c : x # b => d[x] = c[x]
      /\ d[b].succ = {N} /\ Len(d[b].ins) = k - 1
      /\ \A j \in 1 .. k - 1 : d[b].ins[j] = c[b].ins[j]
      /\ d[N].succ = c[b].succ /\ Len(d[N].ins) = L - k + 1
      /\ \A j \in 1 .. L - k + 1 : d[N].ins[j] = c[b].ins[j + k - 1]
  <2>1. d = SplitAt(c, b, k)
    OBVIOUS
  <2> HIDE DEF d, N, L
  <2>2. N = Len(c) + 1 /\ L = Len(c[b].ins)
    BY DEF N, L
  <2>3. IsSplit(d, c, b, k)
    BY <2>1, SplitType
  <2> QED BY <2>2, <2>3 DEF IsSplit
<1>2. /\ Len(c) \in Nat /\ DOMAIN c = 1 .. Len(c) /\ L \in Nat /\ k \in 1 .. L
      /\ \A x \in DOMAIN c : Len(c[x].ins) \in Nat /\ c[x].succ \subseteq DOMAIN c
  BY CodeType
<1>3. g = [q \in Places(c) |-> IF q[1] = b /\ q[2] >= k THEN <<N, q[2] - k + 1>> ELSE q]
  BY DEF SplitFrom
<1>4. H = [p \in Places(d) |-> IF p[1] = N THEN <<b, p[2] + k - 1>> ELSE p]
  BY DEF SplitTo
<1>5. /\ \A x, j : <<x, j>> \in Places(c) <=> x \in DOMAIN c /\ j \in 1 .. Len(c[x].ins) + 1
      /\ \A x, j : <<x, j>> \in Sites(c) <=> x \in DOMAIN c /\ j \in 1 .. Len(c[x].ins)
      /\ \A p \in Places(c) : /\ p = <<p[1], p[2]>> /\ p[1] \in DOMAIN c
                              /\ p[2] \in 1 .. Len(c[p[1]].ins) + 1
      /\ Sites(c) \subseteq Places(c)
  BY PlaceType
<1>6. /\ \A x, j : <<x, j>> \in Places(d) <=> x \in DOMAIN d /\ j \in 1 .. Len(d[x].ins) + 1
      /\ \A x, j : <<x, j>> \in Sites(d) <=> x \in DOMAIN d /\ j \in 1 .. Len(d[x].ins)
      /\ \A p \in Places(d) : /\ p = <<p[1], p[2]>> /\ p[1] \in DOMAIN d
                              /\ p[2] \in 1 .. Len(d[p[1]].ins) + 1
  BY <1>1, PlaceType
<1> HIDE DEF d, g, H, N, L
<1>7. N = Len(c) + 1 /\ L = Len(c[b].ins)
  BY DEF N, L
<1>8. /\ b # N /\ Len(d[b].ins) + 1 = k /\ Len(d[N].ins) + 1 = L - k + 2
      /\ \A x : x \in DOMAIN d <=> x = N \/ x \in DOMAIN c
      /\ \A x \in DOMAIN c : x # N /\ (x # b => Len(d[x].ins) = Len(c[x].ins))
  <2>1. N \notin DOMAIN c /\ \A x : x \in 1 .. N <=> x = N \/ x \in 1 .. Len(c)
    BY <1>2, <1>7
  <2>2. k - 1 + 1 = k /\ L - k + 1 + 1 = L - k + 2
    BY <1>2
  <2>3. Len(d[b].ins) + 1 = k /\ Len(d[N].ins) + 1 = L - k + 2
    BY <1>1, <2>2
  <2> QED BY <1>1, <1>2, <2>1, <2>3
(* where the places of the three kinds of blocks are *)
<1>9. \A x, j : /\ <<x, j>> \in Places(d) <=>
                     \/ x \in DOMAIN c /\ x # b /\ j \in 1 .. Len(c[x].ins) + 1
                     \/ x = b /\ j \in 1 .. k
                     \/ x = N /\ j \in 1 .. L - k + 2
                /\ <<x, j>> \in Sites(d) <=>
                     \/ x \in DOMAIN c /\ x # b /\ j \in 1 .. Len(c[x].ins)
                     \/ x = b /\ j \in 1 .. k - 1
                     \/ x = N /\ j \in 1 .. L - k + 1
  <2> TAKE x, j
  <2>1. <<x, j>> \in Places(d) <=> x \in DOMAIN d /\ j \in 1 .. Len(d[x].ins) + 1
    BY <1>6
  <2>2. <<x, j>> \in Sites(d) <=> x \in DOMAIN d /\ j \in 1 .. Len(d[x].ins)
    BY <1>6
  <2>3. CASE x = N
    BY <1>1, <1>8, <2>1, <2>2, <2>3
  <2>4. CASE x = b
    BY <1>1, <1>8, <2>1, <2>2, <2>4
  <2>5. CASE x # N /\ x # b
    BY <1>8, <2>1, <2>2, <2>5
  <2> QED BY <2>3, <2>4, <2>5
<1>10. ASSUME NEW x, NEW j, <<x, j>> \in Places(c)
       PROVE  /\ x = b /\ j >= k => g[<<x, j>>] = <<N, j - k + 1>> /\ <<N, j - k + 1>> \in Places(d)
              /\ x # b \/ j < k => g[<<x, j>>] = <<x, j>> /\ <<x, j>> \in Places(d)
              /\ j \in Nat
  <2>1. x \in DOMAIN c /\ j \in 1 .. Len(c[x].ins) + 1 /\ j \in Nat
    BY <1>2, <1>5, <1>10
  <2>2. g[<<x, j>>] = IF x = b /\ j >= k THEN <<N, j - k + 1>> ELSE <<x, j>>
    BY <1>3, <1>10
  <2>3. CASE x = b /\ j >= k
    <3>1. j - k + 1 \in 1 .. L - k + 2
      BY <1>2, <1>7, <2>1, <2>3
    <3> QED BY <1>9, <2>1, <2>2, <2>3, <3>1
  <2>4. CASE x # b
    BY <1>9, <2>1, <2>2, <2>4
  <2>5. CASE x = b /\ j < k
    <3>1. ~(j >= k) /\ j \in 1 .. k
      BY <1>2, <2>1, <2>5
    <3> QED BY <1>9, <2>1, <2>2, <2>5, <3>1
  <2> QED BY <1>2, <2>1, <2>3, <2>4, <2>5
<1>11. ASSUME NEW x, NEW j, <<x, j>> \in Places(d)
       PROVE  /\ x = N => H[<<x, j>>] = <<b, j + k - 1>> /\ <<b, j + k - 1>> \in Places(c)
              /\ x # N => H[<<x, j>>] = <<x, j>> /\ <<x, j>> \in Places(c)
              /\ j \in Nat
  <2>1. \/ x \in DOMAIN c /\ x # b /\ j \in 1 .. Len(c[x].ins) + 1
        \/ x = b /\ j \in 1 .. k
        \/ x = N /\ j \in 1 .. L - k + 2
    BY <1>9, <1>11
  <2>2. H[<<x, j>>] = IF x = N THEN <<b, j + k - 1>> ELSE <<x, j>>
    BY <1>4, <1>11
  <2>3. CASE x = N
    <3>1. j \in Nat /\ j + k - 1 \in 1 .. Len(c[b].ins) + 1
      <4>1. j \in 1 .. L - k + 2
        BY <1>8, <2>1, <2>3
      <4> QED BY <1>2, <1>7, <4>1
    <3> QED BY <1>5, <2>2, <2>3, <3>1
  <2>4. CASE x = b
    <3>1. j \in Nat /\ j \in 1 .. Len(c[b].ins) + 1
      BY <1>2, <1>7, <1>8, <2>1, <2>4
    <3> QED BY <1>5, <1>8, <2>2, <2>4, <3>1
  <2>5. CASE x # N /\ x # b
    BY <1>2, <1>5, <2>1, <2>2, <2>5
  <2> QED BY <2>3, <2>4, <2>5
<1>12. e \in Places(d) /\ e \notin Sites(d) /\ g[H[e]] = <<N, 1>> /\ <<N, 1>> \in Places(d)
  <2>1. k \in 1 .. k /\ ~(k \in 1 .. k - 1) /\ k >= k /\ k - k + 1 = 1
    BY <1>2
  <2>2. <<b, k>> \in Places(d) /\ <<b, k>> \notin Sites(d)
    BY <1>8, <1>9, <2>1
  <2>3. H[<<b, k>>] = <<b, k>> /\ <<b, k>> \in Places(c)
    BY <1>8, <1>11, <2>2
  <2>4. g[<<b, k>>] = <<N, k - k + 1>> /\ <<N, k - k + 1>> \in Places(d)
    BY <1>10, <2>1, <2>3
  <2> QED BY <2>1, <2>2, <2>3, <2>4
<1>13. \A q \in Places(c) : \E x, j : q = <<x, j>>
  BY <1>5
<1>14. \A p \in Places(d) : \E x, j : p = <<x, j>>
  BY <1>6
<1>15. g \in [Places(c) -> Places(d)] /\ H \in [Places(d) -> Places(c)]
  <2>1. ASSUME NEW q \in Places(c) PROVE g[q] \in Places(d)
    <3>1. PICK x, j : q = <<x, j>>
      BY <1>13
    <3>2. j \in Nat
      BY <1>10, <3>1
    <3>3. (x = b /\ j >= k) \/ x # b \/ j < k
      BY <1>2, <3>2
    <3> QED BY <1>10, <3>1, <3>3
  <2>2. ASSUME NEW p \in Places(d) PROVE H[p] \in Places(c)
    <3>1. PICK x, j : p = <<x, j>>
      BY <1>14
    <3> QED BY <1>11, <3>1
  <2> QED BY <1>3, <1>4, <2>1, <2>2
<1>16. ASSUME NEW q \in Places(c) PROVE g[q] # e /\ H[g[q]] = q
  <2>1. PICK x, j : q = <<x, j>>
    BY <1>13
  <2>2. x \in DOMAIN c /\ x # N /\ j \in Nat
    BY <1>2, <1>5, <1>7, <2>1
  <2>3. CASE x = b /\ j >= k
    <3>1. g[q] = <<N, j - k + 1>> /\ <<N, j - k + 1>> \in Places(d)
      BY <1>10, <2>1, <2>3
    <3>2. H[g[q]] = <<b, j - k + 1 + k - 1>>
      BY <1>11, <3>1
    <3>3. j - k + 1 + k - 1 = j
      BY <1>2, <2>2
    <3> QED BY <2>1, <2>2, <2>3, <3>1, <3>2, <3>3
  <2>4. CASE x # b \/ j < k
    <3>1. g[q] = <<x, j>> /\ <<x, j>> \in Places(d)
      BY <1>10, <2>1, <2>4
    <3>2. H[<<x, j>>] = <<x, j>>
      BY <1>11, <2>2, <3>1
    <3>3. <<x, j>> # <<b, k>>
      BY <1>2, <2>2, <2>4
    <3> QED BY <2>1, <3>1, <3>2, <3>3
  <2> QED BY <1>2, <2>2, <2>3, <2>4
<1>17. ASSUME NEW p \in Places(d), p # e PROVE g[H[p]] = p
  <2>1. PICK x, j : p = <<x, j>>
    BY <1>14
  <2>2. CASE x = N
    <3>1. PICK m : m = j + k - 1
      OBVIOUS
    <3>2. H[p] = <<b, m>> /\ <<b, m>> \in Places(c) /\ j \in Nat /\ j >= 1
      BY <1>6, <1>11, <2>1, <2>2, <3>1
    <3>3. m >= k /\ m - k + 1 = j
      BY <1>2, <3>1, <3>2
    <3>4. g[<<b, m>>] = <<N, m - k + 1>>
      BY <1>10, <3>2, <3>3
    <3> QED BY <2>1, <2>2, <3>2, <3>3, <3>4
  <2>3. CASE x # N
    <3>1. H[p] = <<x, j>> /\ <<x, j>> \in Places(c) /\ j \in Nat
      BY <1>11, <2>1, <2>3
    <3>2. x # b \/ j < k
      <4>1. x = b => j \in 1 .. k
        BY <1>8, <1>9, <2>1, <2>3
      <4>2. x = b => j # k
        BY <1>17, <2>1
      <4> QED BY <1>2, <4>1, <4>2
    <3> QED BY <1>10, <2>1, <3>1, <3>2
  <2> QED BY <2>2, <2>3
<1>18. Onward(d, e) = {g[H[e]]}
  BY <1>1, <1>12 DEF Onward
<1>19. ASSUME NEW q \in Places(c)
       PROVE  /\ q \in Sites(c) <=> g[q] \in Sites(d)
              /\ q \in Sites(c) => At(c, q) = At(d, g[q])
              /\ Onward(c, q) = {H[p] : p \in Onward(d, g[q])}
  <2>1. PICK x, j : q = <<x, j>>
    BY <1>13
  <2>2. x \in DOMAIN c /\ x # N /\ j \in Nat /\ b # N
    BY <1>2, <1>5, <1>7, <2>1
  <2>3. \A y \in DOMAIN c : y # N /\ <<y, 1>> \in Places(d) /\ H[<<y, 1>>] = <<y, 1>>
    <3> TAKE y \in DOMAIN c
    <3>1. y # N /\ 1 \in 1 .. Len(c[y].ins) + 1 /\ 1 \in 1 .. k
      BY <1>2, <1>8
    <3>2. <<y, 1>> \in Places(d)
      BY <1>9, <3>1
    <3> QED BY <1>11, <3>1, <3>2
  <2>4. CASE x = b /\ j >= k
    <3>1. g[q] = <<N, j - k + 1>> /\ <<N, j - k + 1>> \in Places(d)
      BY <1>10, <2>1, <2>4
    <3>2. /\ q \in Sites(c) <=> j \in 1 .. L
          /\ g[q] \in Sites(d) <=> j - k + 1 \in 1 .. L - k + 1
      <4>1. q \in Sites(c) <=> j \in 1 .. L
        BY <1>5, <1>7, <2>1, <2>4
      <4> DEFINE m == j - k + 1
      <4>2. g[q] = <<N, m>>
        BY <3>1
      <4> HIDE DEF m
      <4>3. <<N, m>> \in Sites(d) <=> m \in 1 .. L - k + 1
        BY <1>8, <1>9
      <4> QED BY <4>1, <4>2, <4>3 DEF m
    <3>3. q \in Sites(c) <=> g[q] \in Sites(d)
      BY <1>2, <2>2, <2>4, <3>2
    <3>4. CASE q \in Sites(c)
      <4>1. j - k + 1 \in 1 .. L - k + 1 /\ j - k + 1 + k - 1 = j
        BY <1>2, <2>2, <3>2, <3>3, <3>4
      <4>2. d[N].ins[j - k + 1] = c[b].ins[j]
        BY <1>1, <4>1
      <4>3. At(c, q) = At(d, g[q])
        BY <2>1, <2>4, <3>1, <4>2 DEF At
      <4>4. Onward(c, q) = {<<b, j + 1>>} /\ Onward(d, g[q]) = {<<N, j - k + 2>>}
        <5>1. j - k + 1 + 1 = j - k + 2
          BY <1>2, <2>2
        <5> QED BY <2>1, <2>4, <3>1, <3>3, <3>4, <5>1 DEF Onward
      <4>5. H[<<N, j - k + 2>>] = <<b, j + 1>>
        <5>1. j - k + 2 \in 1 .. L - k + 2 /\ j - k + 2 + k - 1 = j + 1
          BY <1>2, <2>2, <4>1
        <5>2. <<N, j - k + 2>> \in Places(d)
          BY <1>9, <5>1
        <5> QED BY <1>11, <5>1, <5>2
      <4> QED BY <3>3, <4>3, <4>4, <4>5
    <3>5. CASE q \notin Sites(c)
      <4>1. /\ Onward(c, q) = {<<y, 1>> : y \in c[b].succ}
            /\ Onward(d, g[q]) = {<<y, 1>> : y \in c[b].succ}
        BY <1>1, <2>1, <2>4, <3>1, <3>3, <3>5 DEF Onward
      <4>2. c[b].succ \subseteq DOMAIN c
        BY <1>2
      <4> QED BY <2>3, <3>3, <3>5, <4>1, <4>2
    <3> QED BY <3>4, <3>5
  <2>5. CASE x # b \/ j < k
    <3>1. g[q] = q /\ q \in Places(d)
      BY <1>10, <2>1, <2>5
    <3>2. q \in Sites(c) <=> q \in Sites(d)
      BY <1>2, <1>5, <1>7, <1>9, <2>1, <2>2, <2>5
    <3>3. CASE q \in Sites(c)
      <4>1. At(c, q) = At(d, q)
        <5>1. x = b => j \in 1 .. k - 1
          BY <1>2, <1>5, <1>7, <2>1, <2>2, <2>5, <3>3
        <5> QED BY <1>1, <2>1, <2>2, <5>1 DEF At
      <4>2. Onward(c, q) = {<<x, j + 1>>} /\ Onward(d, q) = {<<x, j + 1>>}
        BY <2>1, <3>2, <3>3 DEF Onward
      <4>3. H[<<x, j + 1>>] = <<x, j + 1>>
        <5>1. j + 1 \in 1 .. Len(c[x].ins) + 1 /\ (x = b => j + 1 \in 1 .. k)
          BY <1>2, <1>5, <1>7, <2>1, <2>2, <2>5, <3>3
        <5>2. <<x, j + 1>> \in Places(d)
          BY <1>9, <2>2, <5>1
        <5> QED BY <1>11, <2>2, <5>2
      <4> QED BY <3>1, <3>2, <4>1, <4>2, <4>3
    <3>4. CASE q \notin Sites(c)
      <4>1. x # b
        BY <1>2, <1>5, <1>7, <2>1, <2>2, <2>5, <3>4
      <4>2. d[x] = c[x]
        BY <1>1, <2>2, <4>1
      <4>3. Onward(c, q) = {<<y, 1>> : y \in c[x].succ} /\ Onward(d, q) = {<<y, 1>> : y \in c[x].succ}
        BY <2>1, <3>2, <3>4, <4>2 DEF Onward
      <4>4. c[x].succ \subseteq DOMAIN c
        BY <1>2, <2>2
      <4> QED BY <2>3, <3>1, <3>2, <3>4, <4>3, <4>4
    <3> QED BY <3>3, <3>4
  <2> QED BY <1>2, <2>2, <2>4, <2>5
<1>20. \A q \in Sites(c) : q \in Places(c)
  BY <1>5
<1> HIDE DEF e
<1> QED BY <1>12, <1>15, <1>16, <1>17, <1>18, <1>19, <1>20 DEF Contracts, d, g, H, e

(* Deleting the first instruction of a block leaves its first place empty, *)
(* which is the second place now.                                          *)
DeleteFrom(c, b, d) == [q \in Places(d) |-> IF q[1] = b THEN <<b, q[2] + 1>> ELSE q]
DeleteTo(c, b) ==
  [p \in Places(c) |-> IF p[1] = b /\ p[2] > 1 THEN <<b, p[2] - 1>> ELSE p]

IsTail(d, c, b) ==
  /\ d \in Codes /\ DOMAIN d = DOMAIN c /\ Len(d) = Len(c)
  /\ \A x \in DOMAIN c : x # b => d[x] = c[x]
  /\ d[b].succ = c[b].succ /\ Len(d[b].ins) = Len(c[b].ins) - 1
  /\ \A j \in 1 .. Len(c[b].ins) - 1 : d[b].ins[j] = c[b].ins[j + 1]

LEMMA DeleteType ==
  ASSUME NEW c \in Codes, NEW b \in DOMAIN c, 1 \in 1 .. Len(c[b].ins),
         NEW d, d = [c EXCEPT ![b].ins = RemoveAt(@, 1)]
  PROVE  IsTail(d, c, b)
<1> DEFINE R == [ins : Seq(Instrs), succ : SUBSET Nat]
           ins == c[b].ins
           new == RemoveAt(ins, 1)
           row == [ins |-> new, succ |-> c[b].succ]
<1>1. /\ c \in Seq(R) /\ Len(c) \in Nat /\ DOMAIN c = 1 .. Len(c) /\ c[b] \in R
      /\ ins \in Seq(Instrs) /\ Len(ins) \in Nat /\ 1 \in 1 .. Len(ins)
      /\ \A x \in DOMAIN c : c[x].succ \subseteq DOMAIN c
  BY CodeType DEF Codes
<1>2. /\ new \in Seq(Instrs) /\ Len(new) = Len(ins) - 1
      /\ \A j \in 1 .. Len(ins) - 1 : new[j] = ins[j + 1]
  <2> HIDE DEF ins
  <2> DEFINE p == SubSeq(ins, 1, 0)
             q == SubSeq(ins, 2, Len(ins))
  <2>1. new = p \o q
    BY DEF RemoveAt
  <2>2. p = <<>> /\ p \in Seq(Instrs) /\ Len(p) = 0
    BY <1>1
  <2> HIDE DEF p
  <2>3. /\ q \in Seq(Instrs) /\ Len(q) = Len(ins) - 1
        /\ \A j \in 1 .. Len(ins) - 1 : q[j] = ins[j + 1]
    <3>1. PICK k : k = 2
      OBVIOUS
    <3>2. /\ SubSeq(ins, k, Len(ins)) \in Seq(Instrs)
          /\ Len(SubSeq(ins, k, Len(ins))) = Len(ins) - k + 1
          /\ \A j \in 1 .. Len(ins) - k + 1 : SubSeq(ins, k, Len(ins))[j] = ins[j + k - 1]
      <4>1. k \in Int /\ Len(ins) \in Int /\ \A i \in k .. Len(ins) : ins[i] \in Instrs
        BY <1>1, <3>1
      <4>2. PICK n \in Int : n = Len(ins)
        BY <4>1
      <4>3. /\ SubSeq(ins, k, n) \in Seq(Instrs)
            /\ Len(SubSeq(ins, k, n)) = IF k <= n THEN n - k + 1 ELSE 0
            /\ \A j \in 1 .. n - k + 1 : SubSeq(ins, k, n)[j] = ins[k + j - 1]
        BY <4>1, <4>2, SubSeqProperties
      <4>4. (IF k <= n THEN n - k + 1 ELSE 0) = n - k + 1
        BY <1>1, <3>1, <4>2
      <4>5. \A j \in 1 .. n - k + 1 : k + j - 1 = j + k - 1
        BY <3>1, <4>2
      <4> QED BY <4>2, <4>3, <4>4, <4>5
    <3>3. q = SubSeq(ins, k, Len(ins))
      BY <3>1
    <3> HIDE DEF q
    <3>4. Len(ins) - k + 1 = Len(ins) - 1
      BY <1>1, <3>1
    <3>5. \A j \in 1 .. Len(ins) - 1 : j + k - 1 = j + 1
      BY <1>1, <3>1
    <3> QED BY <3>2, <3>3, <3>4, <3>5
  <2> HIDE DEF p, q, new
  <2>4. p \o q = q
    BY <2>2, <2>3
  <2> QED BY <2>1, <2>3, <2>4
<1>3. d = [c EXCEPT ![b] = row]
  <2>1. [c[b] EXCEPT !.ins = new] = row
    <3> HIDE DEF new
    <3> QED BY <1>1
  <2>2. d = [c EXCEPT ![b] = [c[b] EXCEPT !.ins = new]]
    OBVIOUS
  <2> HIDE DEF row, new
  <2> QED BY <2>1, <2>2
<1>4. row \in R
  <2>1. c[b].succ \in SUBSET Nat
    BY <1>1
  <2> HIDE DEF ins, new
  <2> QED BY <1>2, <2>1
<1>5. row.ins = new /\ row.succ = c[b].succ
  OBVIOUS
<1> HIDE DEF ins, new, row, R
<1>6. /\ d \in Seq(R) /\ Len(d) = Len(c) /\ DOMAIN d = DOMAIN c /\ d[b] = row
      /\ \A x \in DOMAIN c : x # b => d[x] = c[x]
  BY <1>1, <1>3, <1>4
<1>7. \A x \in DOMAIN d : d[x].succ \subseteq DOMAIN d
  BY <1>1, <1>5, <1>6
<1>8. d \in Codes
  BY <1>6, <1>7 DEF Codes, R
<1> QED BY <1>2, <1>5, <1>6, <1>8 DEF ins, IsTail

LEMMA DeleteContracts ==
  ASSUME NEW c \in Codes, NEW b \in DOMAIN c, 1 \in 1 .. Len(c[b].ins),
         NEW d, IsTail(d, c, b), At(c, <<b, 1>>).op \in {"register", "close"}
  PROVE  Contracts(c, d, <<b, 1>>, DeleteFrom(c, b, d), DeleteTo(c, b))
<1> DEFINE L == Len(c[b].ins)
           e == <<b, 1>>
           g == DeleteFrom(c, b, d)
           H == DeleteTo(c, b)
<1>1. /\ d \in Codes /\ DOMAIN d = DOMAIN c
      /\ \A x \in DOMAIN c : x # b => d[x] = c[x]
      /\ d[b].succ = c[b].succ /\ Len(d[b].ins) = L - 1
      /\ \A j \in 1 .. L - 1 : d[b].ins[j] = c[b].ins[j + 1]
  BY DEF IsTail
<1>2. /\ L \in Nat /\ 1 <= L
      /\ \A x \in DOMAIN c : Len(c[x].ins) \in Nat /\ c[x].succ \subseteq DOMAIN c
  BY CodeType
<1>3. g = [q \in Places(d) |-> IF q[1] = b THEN <<b, q[2] + 1>> ELSE q]
  BY DEF DeleteFrom
<1>4. H = [p \in Places(c) |-> IF p[1] = b /\ p[2] > 1 THEN <<b, p[2] - 1>> ELSE p]
  BY DEF DeleteTo
<1>5. /\ \A x, j : <<x, j>> \in Places(c) <=> x \in DOMAIN c /\ j \in 1 .. Len(c[x].ins) + 1
      /\ \A x, j : <<x, j>> \in Sites(c) <=> x \in DOMAIN c /\ j \in 1 .. Len(c[x].ins)
      /\ \A p \in Places(c) : p = <<p[1], p[2]>>
  BY PlaceType
<1>6. /\ \A x, j : <<x, j>> \in Places(d) <=> x \in DOMAIN d /\ j \in 1 .. Len(d[x].ins) + 1
      /\ \A x, j : <<x, j>> \in Sites(d) <=> x \in DOMAIN d /\ j \in 1 .. Len(d[x].ins)
      /\ \A p \in Places(d) : p = <<p[1], p[2]>>
      /\ Sites(d) \subseteq Places(d)
  BY <1>1, PlaceType
<1> HIDE DEF g, H, L
<1>7. L = Len(c[b].ins)
  BY DEF L
<1>8. \A x, j : /\ <<x, j>> \in Places(d) <=>
                     \/ x \in DOMAIN c /\ x # b /\ j \in 1 .. Len(c[x].ins) + 1
                     \/ x = b /\ j \in 1 .. L
                /\ <<x, j>> \in Sites(d) <=>
                     \/ x \in DOMAIN c /\ x # b /\ j \in 1 .. Len(c[x].ins)
                     \/ x = b /\ j \in 1 .. L - 1
  <2> TAKE x, j
  <2>1. CASE x = b
    <3>1. L - 1 + 1 = L
      BY <1>2
    <3> QED BY <1>1, <1>6, <2>1, <3>1
  <2>2. CASE x # b
    BY <1>1, <1>6, <2>2
  <2> QED BY <2>1, <2>2
<1>9. \A j : /\ <<b, j>> \in Places(c) <=> j \in 1 .. L + 1
             /\ <<b, j>> \in Sites(c) <=> j \in 1 .. L
  BY <1>5, <1>7
<1>10. ASSUME NEW x, NEW j, <<x, j>> \in Places(d)
       PROVE  /\ x = b => g[<<x, j>>] = <<b, j + 1>> /\ <<b, j + 1>> \in Places(c)
              /\ x # b => g[<<x, j>>] = <<x, j>> /\ <<x, j>> \in Places(c)
              /\ j \in Nat /\ j >= 1
  <2>1. g[<<x, j>>] = IF x = b THEN <<b, j + 1>> ELSE <<x, j>>
    BY <1>3, <1>10
  <2>2. CASE x = b
    <3>1. j \in 1 .. L /\ j + 1 \in 1 .. L + 1
      BY <1>2, <1>8, <1>10, <2>2
    <3> QED BY <1>9, <2>1, <2>2, <3>1
  <2>3. CASE x # b
    BY <1>2, <1>5, <1>8, <1>10, <2>1, <2>3
  <2> QED BY <2>2, <2>3
<1>11. ASSUME NEW x, NEW j, <<x, j>> \in Places(c)
       PROVE  /\ x = b /\ j > 1 => H[<<x, j>>] = <<b, j - 1>> /\ <<b, j - 1>> \in Places(d)
              /\ x # b \/ j = 1 => H[<<x, j>>] = <<x, j>> /\ <<x, j>> \in Places(d)
              /\ j \in Nat /\ j >= 1
  <2>1. H[<<x, j>>] = IF x = b /\ j > 1 THEN <<b, j - 1>> ELSE <<x, j>>
    BY <1>4, <1>11
  <2>2. CASE x = b
    <3>1. j \in 1 .. L + 1
      BY <1>9, <1>11, <2>2
    <3>2. j > 1 => j - 1 \in 1 .. L
      BY <1>2, <3>1
    <3>3. j = 1 => j \in 1 .. L
      BY <1>2
    <3> QED BY <1>8, <2>1, <2>2, <3>1, <3>2, <3>3
  <2>3. CASE x # b
    BY <1>2, <1>5, <1>8, <1>11, <2>1, <2>3
  <2> QED BY <2>2, <2>3
<1>12. e \in Places(c) /\ e \in Sites(c) /\ H[e] = <<b, 1>> /\ g[H[e]] = <<b, 2>>
  <2>1. 1 \in 1 .. L + 1 /\ 1 \in 1 .. L
    BY <1>2
  <2>2. <<b, 1>> \in Places(c) /\ <<b, 1>> \in Sites(c)
    BY <1>9, <2>1
  <2>3. H[<<b, 1>>] = <<b, 1>> /\ <<b, 1>> \in Places(d)
    BY <1>11, <2>2
  <2>4. g[<<b, 1>>] = <<b, 1 + 1>>
    BY <1>10, <2>3
  <2> QED BY <2>2, <2>3, <2>4
<1>13. \A p \in Places(c) : \E x, j : p = <<x, j>>
  BY <1>5
<1>14. \A q \in Places(d) : \E x, j : q = <<x, j>>
  BY <1>6
<1>15. g \in [Places(d) -> Places(c)] /\ H \in [Places(c) -> Places(d)]
  <2>1. ASSUME NEW q \in Places(d) PROVE g[q] \in Places(c)
    <3>1. PICK x, j : q = <<x, j>>
      BY <1>14
    <3>2. CASE x = b
      <4>1. g[<<x, j>>] = <<b, j + 1>> /\ <<b, j + 1>> \in Places(c)
        BY <1>10, <3>1, <3>2
      <4> QED BY <3>1, <4>1
    <3>3. CASE x # b
      BY <1>10, <3>1, <3>3
    <3> QED BY <3>2, <3>3
  <2>2. ASSUME NEW p \in Places(c) PROVE H[p] \in Places(d)
    <3>1. PICK x, j : p = <<x, j>>
      BY <1>13
    <3>2. (x = b /\ j > 1) \/ x # b \/ j = 1
      <4>1. j \in Nat /\ j >= 1
        BY <1>11, <3>1
      <4> QED BY <4>1
    <3> QED BY <1>11, <3>1, <3>2
  <2> QED BY <1>3, <1>4, <2>1, <2>2
<1>16. ASSUME NEW q \in Places(d) PROVE g[q] # e /\ H[g[q]] = q
  <2>1. PICK x, j : q = <<x, j>>
    BY <1>14
  <2>2. CASE x = b
    <3>1. PICK m : m = j + 1
      OBVIOUS
    <3>2. g[q] = <<b, m>> /\ <<b, m>> \in Places(c) /\ m > 1 /\ m - 1 = j
      BY <1>10, <2>1, <2>2, <3>1
    <3>3. H[<<b, m>>] = <<b, m - 1>>
      BY <1>11, <3>2
    <3> QED BY <2>1, <2>2, <3>2, <3>3
  <2>3. CASE x # b
    <3>1. g[<<x, j>>] = <<x, j>> /\ <<x, j>> \in Places(c)
      BY <1>10, <2>1, <2>3
    <3>2. H[<<x, j>>] = <<x, j>>
      BY <1>11, <2>3, <3>1
    <3>3. <<x, j>> # <<b, 1>>
      BY <2>3
    <3> QED BY <2>1, <3>1, <3>2, <3>3
  <2> QED BY <2>2, <2>3
<1>17. ASSUME NEW p \in Places(c), p # e PROVE g[H[p]] = p
  <2>1. PICK x, j : p = <<x, j>>
    BY <1>13
  <2>2. CASE x = b
    <3>1. PICK m : m = j - 1
      OBVIOUS
    <3>2. H[p] = <<b, m>> /\ <<b, m>> \in Places(d) /\ m + 1 = j
      BY <1>11, <1>17, <2>1, <2>2, <3>1
    <3>3. g[<<b, m>>] = <<b, m + 1>>
      BY <1>10, <3>2
    <3> QED BY <2>1, <2>2, <3>2, <3>3
  <2>3. CASE x # b
    BY <1>10, <1>11, <2>1, <2>3
  <2> QED BY <2>2, <2>3
<1>18. Onward(c, e) = {g[H[e]]}
  BY <1>12 DEF Onward
<1>19. ASSUME NEW q \in Places(d)
       PROVE  /\ q \in Sites(d) <=> g[q] \in Sites(c)
              /\ q \in Sites(d) => At(d, q) = At(c, g[q])
              /\ Onward(d, q) = {H[p] : p \in Onward(c, g[q])}
  <2>1. PICK x, j : q = <<x, j>>
    BY <1>14
  <2>2. x \in DOMAIN c /\ j \in Nat /\ j >= 1
    BY <1>1, <1>6, <1>10, <2>1
  <2>3. \A y \in DOMAIN c : H[<<y, 1>>] = <<y, 1>>
    <3> TAKE y \in DOMAIN c
    <3>1. <<y, 1>> \in Places(c)
      BY <1>2, <1>5
    <3> QED BY <1>11, <3>1
  <2>4. CASE x = b
    <3>1. g[q] = <<b, j + 1>>
      <4>1. g[<<x, j>>] = <<b, j + 1>>
        BY <1>10, <2>1, <2>4
      <4> QED BY <2>1, <4>1
    <3>2. q \in Sites(d) <=> j \in 1 .. L - 1
      BY <1>8, <2>1, <2>4
    <3>3. g[q] \in Sites(c) <=> j + 1 \in 1 .. L
      <4> DEFINE m == j + 1
      <4>1. g[q] = <<b, m>>
        BY <3>1
      <4> HIDE DEF m
      <4>2. <<b, m>> \in Sites(c) <=> m \in 1 .. L
        BY <1>9
      <4> QED BY <4>1, <4>2 DEF m
    <3>4. q \in Sites(d) <=> g[q] \in Sites(c)
      BY <1>2, <2>2, <3>2, <3>3
    <3>5. CASE q \in Sites(d)
      <4>1. d[b].ins[j] = c[b].ins[j + 1]
        BY <1>1, <3>2, <3>5
      <4>2. At(d, q) = At(c, g[q])
        BY <2>1, <2>4, <3>1, <4>1 DEF At
      <4>3. PICK m : m = j + 2
        OBVIOUS
      <4>4. Onward(d, q) = {<<b, j + 1>>} /\ Onward(c, g[q]) = {<<b, m>>}
        <5>1. j + 1 + 1 = m
          BY <2>2, <4>3
        <5> QED BY <2>1, <2>4, <3>1, <3>4, <3>5, <5>1 DEF Onward
      <4>5. m \in 1 .. L + 1 /\ m > 1 /\ m - 1 = j + 1
        BY <1>2, <2>2, <3>2, <3>5, <4>3
      <4>6. <<b, m>> \in Places(c)
        BY <1>9, <4>5
      <4>7. H[<<b, m>>] = <<b, j + 1>>
        BY <1>11, <4>5, <4>6
      <4> QED BY <3>4, <4>2, <4>4, <4>7
    <3>6. CASE q \notin Sites(d)
      <4>1. /\ Onward(d, q) = {<<y, 1>> : y \in c[b].succ}
            /\ Onward(c, g[q]) = {<<y, 1>> : y \in c[b].succ}
        BY <1>1, <2>1, <2>4, <3>1, <3>4, <3>6 DEF Onward
      <4>2. c[b].succ \subseteq DOMAIN c
        BY <1>2
      <4> QED BY <2>3, <3>4, <3>6, <4>1, <4>2
    <3> QED BY <3>5, <3>6
  <2>5. CASE x # b
    <3>1. g[q] = q /\ q \in Places(c) /\ d[x] = c[x]
      BY <1>1, <1>10, <2>1, <2>2, <2>5
    <3>2. q \in Sites(c) <=> q \in Sites(d)
      BY <1>5, <1>8, <2>1, <2>2, <2>5
    <3>3. CASE q \in Sites(c)
      <4>1. At(c, q) = At(d, q)
        BY <2>1, <3>1 DEF At
      <4>2. Onward(c, q) = {<<x, j + 1>>} /\ Onward(d, q) = {<<x, j + 1>>}
        BY <2>1, <3>2, <3>3 DEF Onward
      <4>3. H[<<x, j + 1>>] = <<x, j + 1>>
        <5>1. j + 1 \in 1 .. Len(c[x].ins) + 1
          BY <1>2, <1>5, <2>1, <2>2, <3>3
        <5>2. <<x, j + 1>> \in Places(c)
          BY <1>5, <2>2, <5>1
        <5> QED BY <1>11, <2>5, <5>2
      <4> QED BY <3>1, <3>2, <4>1, <4>2, <4>3
    <3>4. CASE q \notin Sites(c)
      <4>1. Onward(c, q) = {<<y, 1>> : y \in c[x].succ} /\ Onward(d, q) = {<<y, 1>> : y \in c[x].succ}
        BY <2>1, <3>1, <3>2, <3>4 DEF Onward
      <4>2. c[x].succ \subseteq DOMAIN c
        BY <1>2, <2>2
      <4> QED BY <2>3, <3>1, <3>2, <3>4, <4>1, <4>2
    <3> QED BY <3>3, <3>4
  <2> QED BY <2>4, <2>5
<1>20. \A q \in Sites(d) : q \in Places(d)
  BY <1>6
<1>21. At(c, e).op \in {"register", "close"}
  OBVIOUS
<1> HIDE DEF e
<1> QED BY <1>12, <1>15, <1>16, <1>17, <1>18, <1>19, <1>20, <1>21 DEF Contracts, g, H, e

(* What findActions has found when some of the actions, those of ids, are  *)
(* still to be found.  Their calls are there, once each, and what is       *)
(* between them is what it was.                                            *)
Once(c, id) ==
  \A op \in {"register", "close"} : \E p \in Sites(c) : Calls(c, op, id) = {p}
Pending(src, c, id) ==
  /\ Once(c, id)
  /\ Data(Inside(c, id)) = Data(Inside(src, id))
  /\ LET r == TheCall(c, "register", id)
         z == TheCall(c, "close", id)
     IN z \in Reach(c, <<r[1], r[2] + 1>>, {z})

(* In the last block of an action what opens also closes, and in the first *)
(* one what closes was also opened.                                        *)
ClosedIn(c, b, ids) ==
  \A id \in ids : \A j \in DOMAIN c[b].ins :
    Opens(c, b, j, id) => \E k \in DOMAIN c[b].ins : j < k /\ Closes(c, b, k, id)
OpenedIn(c, b, ids) ==
  \A id \in ids : \A k \in DOMAIN c[b].ins :
    Closes(c, b, k, id) => \E j \in DOMAIN c[b].ins : j < k /\ Opens(c, b, j, id)

(* The action that starts at bb, with the instructions is, lies before the *)
(* block rest; starts are where actions start.                             *)
LastBlock(c, ids, starts, bb, rest, is, p) ==
  /\ p \in DOMAIN c \ (starts \ {bb})
  /\ Preds(c, rest) = {p} /\ c[p].succ = {rest}
  /\ ClosedIn(c, p, ids)
  /\ Data(Between(c, bb, p)) = is
  /\ End(c, p) \in Reach(c, <<bb, 1>>, {End(c, p)})

Found(c, ids, starts, bb, rest, is) ==
  /\ bb \in DOMAIN c /\ rest \in DOMAIN c \ starts
  /\ \E e \in DOMAIN c \ starts : Preds(c, bb) = {e} /\ c[e].ins = <<>>
  /\ OpenedIn(c, bb, ids)
  /\ \E p \in DOMAIN c : LastBlock(c, ids, starts, bb, rest, is, p)

Starts(as) == {as[n].bb : n \in DOMAIN as}

FoundRight(src, c, ids, as) ==
  /\ c \in Codes
  /\ Nested(c, ids)
  /\ \A id \in ids : Pending(src, c, id)
  /\ \A n \in DOMAIN as :
       Found(c, ids, Starts(as), as[n].bb, as[n].out, Data(Inside(src, as[n].id)))
  /\ \A m, n \in DOMAIN as : as[m].bb = as[n].bb => m = n

(* Blocks that are parts of others.                                        *)
Piece(d, x, c, y, o) ==
  /\ o \in Nat /\ Len(d[x].ins) + o <= Len(c[y].ins)
  /\ \A j \in 1 .. Len(d[x].ins) : d[x].ins[j] = c[y].ins[j + o]

LEMMA CallsOfPiece ==
  ASSUME NEW c \in Codes, NEW d \in Codes, NEW x \in DOMAIN d, NEW y \in DOMAIN c, NEW o,
         Piece(d, x, c, y, o)
  PROVE  \A j \in DOMAIN d[x].ins :
           /\ j \in Nat /\ j >= 1 /\ j + o \in DOMAIN c[y].ins
           /\ \A id : /\ Opens(d, x, j, id) <=> Opens(c, y, j + o, id)
                      /\ Closes(d, x, j, id) <=> Closes(c, y, j + o, id)
<1>1. /\ Len(d[x].ins) \in Nat /\ DOMAIN d[x].ins = 1 .. Len(d[x].ins)
      /\ Len(c[y].ins) \in Nat /\ DOMAIN c[y].ins = 1 .. Len(c[y].ins)
  BY CodeType
<1>2. /\ o \in Nat /\ Len(d[x].ins) + o <= Len(c[y].ins)
      /\ \A j \in 1 .. Len(d[x].ins) : d[x].ins[j] = c[y].ins[j + o]
  BY DEF Piece
<1> TAKE j \in DOMAIN d[x].ins
<1>3. j \in Nat /\ j >= 1 /\ j <= Len(d[x].ins) /\ j + o \in 1 .. Len(c[y].ins)
  BY <1>1, <1>2
<1>4. d[x].ins[j] = c[y].ins[j + o]
  BY <1>1, <1>2
<1> QED BY <1>1, <1>3, <1>4 DEF Opens, Closes

NestedIn(c, b, ids) ==
  \A j, k \in DOMAIN c[b].ins : \A m, n \in ids :
    Opens(c, b, j, m) /\ Closes(c, b, k, n) =>
      IF m = n THEN j < k
      ELSE j < k => \E l \in j + 1 .. k - 1 : Closes(c, b, l, m) \/ Opens(c, b, l, n)

LEMMA NestedInPiece ==
  ASSUME NEW c \in Codes, NEW d \in Codes, NEW x \in DOMAIN d, NEW y \in DOMAIN c, NEW o,
         Piece(d, x, c, y, o), NEW ids, NestedIn(c, y, ids)
  PROVE  NestedIn(d, x, ids)
<1>1. \A j \in DOMAIN d[x].ins :
           /\ j \in Nat /\ j >= 1 /\ j + o \in DOMAIN c[y].ins
           /\ \A id : /\ Opens(d, x, j, id) <=> Opens(c, y, j + o, id)
                      /\ Closes(d, x, j, id) <=> Closes(c, y, j + o, id)
  BY CallsOfPiece
<1>2. o \in Nat
  BY DEF Piece
<1>3. DOMAIN d[x].ins = 1 .. Len(d[x].ins) /\ Len(d[x].ins) \in Nat
  BY CodeType
<1> SUFFICES ASSUME NEW j \in DOMAIN d[x].ins, NEW k \in DOMAIN d[x].ins, NEW m \in ids, NEW n \in ids,
                    Opens(d, x, j, m), Closes(d, x, k, n)
             PROVE  IF m = n THEN j < k
                    ELSE j < k => \E l \in j + 1 .. k - 1 : Closes(d, x, l, m) \/ Opens(d, x, l, n)
  BY DEF NestedIn
<1>4. PICK J : J = j + o
  OBVIOUS
<1>5. PICK K : K = k + o
  OBVIOUS
<1>6. /\ J \in DOMAIN c[y].ins /\ K \in DOMAIN c[y].ins /\ Opens(c, y, J, m) /\ Closes(c, y, K, n)
      /\ j \in Nat /\ k \in Nat
  BY <1>1, <1>4, <1>5
<1>7. IF m = n THEN J < K
      ELSE J < K => \E l \in J + 1 .. K - 1 : Closes(c, y, l, m) \/ Opens(c, y, l, n)
  BY <1>6 DEF NestedIn
<1>8. J < K <=> j < k
  BY <1>2, <1>4, <1>5, <1>6
<1>9. CASE m = n
  BY <1>7, <1>8, <1>9
<1>10. CASE m # n /\ j < k
  <2>1. PICK l \in J + 1 .. K - 1 : Closes(c, y, l, m) \/ Opens(c, y, l, n)
    BY <1>7, <1>8, <1>10
  <2>2. PICK i : i = l - o
    OBVIOUS
  <2>3. i \in j + 1 .. k - 1 /\ i + o = l
    BY <1>2, <1>4, <1>5, <1>6, <2>1, <2>2
  <2>4. i \in DOMAIN d[x].ins
    BY <1>3, <1>6, <2>3
  <2>5. Closes(d, x, i, m) \/ Opens(d, x, i, n)
    BY <1>1, <2>1, <2>3, <2>4
  <2> QED BY <1>10, <2>3, <2>5
<1> QED BY <1>9, <1>10

LEMMA ClosedInPiece ==
  ASSUME NEW c \in Codes, NEW d \in Codes, NEW x \in DOMAIN d, NEW y \in DOMAIN c, NEW o,
         Piece(d, x, c, y, o), Len(d[x].ins) + o = Len(c[y].ins),
         NEW ids, NEW some \in SUBSET ids, ClosedIn(c, y, ids)
  PROVE  ClosedIn(d, x, some)
<1>1. \A j \in DOMAIN d[x].ins :
           /\ j \in Nat /\ j >= 1 /\ j + o \in DOMAIN c[y].ins
           /\ \A id : /\ Opens(d, x, j, id) <=> Opens(c, y, j + o, id)
                      /\ Closes(d, x, j, id) <=> Closes(c, y, j + o, id)
  BY CallsOfPiece
<1>2. o \in Nat
  BY DEF Piece
<1>3. /\ DOMAIN d[x].ins = 1 .. Len(d[x].ins) /\ Len(d[x].ins) \in Nat
      /\ DOMAIN c[y].ins = 1 .. Len(c[y].ins)
  BY CodeType
<1> SUFFICES ASSUME NEW id \in some, NEW j \in DOMAIN d[x].ins, Opens(d, x, j, id)
             PROVE  \E k \in DOMAIN d[x].ins : j < k /\ Closes(d, x, k, id)
  BY DEF ClosedIn
<1>4. PICK J : J = j + o
  OBVIOUS
<1>5. J \in DOMAIN c[y].ins /\ Opens(c, y, J, id) /\ j \in Nat /\ j >= 1
  BY <1>1, <1>4
<1>6. PICK K \in DOMAIN c[y].ins : J < K /\ Closes(c, y, K, id)
  BY <1>5 DEF ClosedIn
<1>7. PICK k : k = K - o
  OBVIOUS
<1>8. k \in DOMAIN d[x].ins /\ j < k /\ k + o = K
  BY <1>2, <1>3, <1>4, <1>5, <1>6, <1>7
<1> QED BY <1>1, <1>6, <1>8

LEMMA OpenedInPiece ==
  ASSUME NEW c \in Codes, NEW d \in Codes, NEW x \in DOMAIN d, NEW y \in DOMAIN c, NEW o,
         Piece(d, x, c, y, o), NEW ids, NEW some \in SUBSET ids, OpenedIn(c, y, ids),
         \A j \in 1 .. o : \A id \in some : ~Opens(c, y, j, id)
  PROVE  OpenedIn(d, x, some)
<1>1. \A j \in DOMAIN d[x].ins :
           /\ j \in Nat /\ j >= 1 /\ j + o \in DOMAIN c[y].ins
           /\ \A id : /\ Opens(d, x, j, id) <=> Opens(c, y, j + o, id)
                      /\ Closes(d, x, j, id) <=> Closes(c, y, j + o, id)
  BY CallsOfPiece
<1>2. o \in Nat
  BY DEF Piece
<1>3. /\ DOMAIN d[x].ins = 1 .. Len(d[x].ins) /\ Len(d[x].ins) \in Nat
      /\ DOMAIN c[y].ins = 1 .. Len(c[y].ins)
  BY CodeType
<1> SUFFICES ASSUME NEW id \in some, NEW k \in DOMAIN d[x].ins, Closes(d, x, k, id)
             PROVE  \E j \in DOMAIN d[x].ins : j < k /\ Opens(d, x, j, id)
  BY DEF OpenedIn
<1>4. PICK K : K = k + o
  OBVIOUS
<1>5. K \in DOMAIN c[y].ins /\ Closes(c, y, K, id) /\ k \in Nat /\ k >= 1
  BY <1>1, <1>4
<1>6. PICK J \in DOMAIN c[y].ins : J < K /\ Opens(c, y, J, id)
  BY <1>5 DEF OpenedIn
<1>7. J \notin 1 .. o
  BY <1>6
<1>8. PICK j : j = J - o
  OBVIOUS
<1>9. j \in DOMAIN d[x].ins /\ j < k /\ j + o = J
  BY <1>2, <1>3, <1>4, <1>5, <1>6, <1>7, <1>8
<1> QED BY <1>1, <1>6, <1>9

LEMMA SplitPieces ==
  ASSUME NEW c \in Codes, NEW b \in DOMAIN c, NEW k \in 1 .. Len(c[b].ins),
         NEW d, IsSplit(d, c, b, k)
  PROVE  /\ Piece(d, b, c, b, 0) /\ Piece(d, Len(c) + 1, c, b, k - 1)
         /\ Len(d[Len(c) + 1].ins) + (k - 1) = Len(c[b].ins)
         /\ \A x \in DOMAIN c : x # b => Piece(d, x, c, x, 0)
<1>1. \A x \in DOMAIN c : Len(c[x].ins) \in Nat
  BY CodeType
<1>2. ASSUME NEW x \in DOMAIN c, x # b PROVE Piece(d, x, c, x, 0)
  <2>1. d[x] = c[x] /\ \A j \in 1 .. Len(c[x].ins) : j + 0 = j
    BY <1>1, <1>2 DEF IsSplit
  <2> QED BY <1>1, <2>1 DEF Piece
<1>3. Piece(d, b, c, b, 0)
  <2>1. Len(d[b].ins) = k - 1 /\ \A j \in 1 .. k - 1 : d[b].ins[j] = c[b].ins[j] /\ j + 0 = j
    BY DEF IsSplit
  <2>2. k - 1 + 0 <= Len(c[b].ins)
    BY <1>1
  <2> QED BY <2>1, <2>2 DEF Piece
<1>4. Piece(d, Len(c) + 1, c, b, k - 1) /\ Len(d[Len(c) + 1].ins) + (k - 1) = Len(c[b].ins)
  <2> DEFINE N == Len(c) + 1
             L == Len(c[b].ins)
  <2>1. Len(d[N].ins) = L - k + 1 /\ \A j \in 1 .. L - k + 1 : d[N].ins[j] = c[b].ins[j + k - 1]
    BY DEF IsSplit
  <2>2. L \in Nat /\ k \in 1 .. L
    BY <1>1
  <2> HIDE DEF N, L
  <2>3. k - 1 \in Nat /\ (L - k + 1) + (k - 1) = L
    BY <2>2
  <2>4. \A j \in 1 .. L - k + 1 : j + (k - 1) = j + k - 1
    BY <2>2
  <2>5. Len(d[N].ins) + (k - 1) = L
    BY <2>1, <2>3
  <2>6. \A j \in 1 .. Len(d[N].ins) : d[N].ins[j] = c[b].ins[j + (k - 1)]
    BY <2>1, <2>4
  <2>7. Piece(d, N, c, b, k - 1)
    BY <2>2, <2>3, <2>5, <2>6 DEF Piece, L
  <2> QED BY <2>5, <2>7 DEF N, L
<1> QED BY <1>2, <1>3, <1>4

SplitPred(c, d, b, new, x) ==
  /\ Preds(c, x) = {b} => Preds(d, x) = {new}
  /\ \A p : Preds(c, x) = {p} /\ p # b => Preds(d, x) = {p}

LEMMA SplitPreds ==
  ASSUME NEW c \in Codes, NEW b \in DOMAIN c, NEW k \in 1 .. Len(c[b].ins),
         NEW d, IsSplit(d, c, b, k)
  PROVE  /\ Preds(d, Len(c) + 1) = {b}
         /\ \A x \in DOMAIN c : SplitPred(c, d, b, Len(c) + 1, x)
<1> DEFINE N == Len(c) + 1
<1>1. /\ Len(c) \in Nat /\ DOMAIN c = 1 .. Len(c) /\ \A x \in DOMAIN c : c[x].succ \subseteq DOMAIN c
  BY CodeType
<1>2. /\ DOMAIN d = 1 .. N /\ \A x \in DOMAIN c : x # b => d[x] = c[x]
      /\ d[b].succ = {N} /\ d[N].succ = c[b].succ
  BY DEF IsSplit
<1>3. N \notin DOMAIN c /\ DOMAIN d = DOMAIN c \cup {N}
  BY <1>1, <1>2
<1> HIDE DEF N
<1>4. Preds(d, N) = {b}
  BY <1>1, <1>2, <1>3 DEF Preds
<1>5. ASSUME NEW x \in DOMAIN c, NEW p, NEW q, Preds(c, x) = {p},
             (p = b /\ q = N) \/ (p # b /\ q = p)
      PROVE  Preds(d, x) = {q}
  <2>1. \A y \in DOMAIN c : x \in c[y].succ <=> y = p
    BY <1>5 DEF Preds
  <2>2. p \in DOMAIN c
    BY <1>5 DEF Preds
  <2>3. \A y \in DOMAIN d : x \in d[y].succ <=> y = q
    BY <1>1, <1>2, <1>3, <1>5, <2>1, <2>2
  <2> QED BY <1>3, <1>5, <2>2, <2>3 DEF Preds
<1>6. \A x \in DOMAIN c : SplitPred(c, d, b, N, x)
  BY <1>5 DEF SplitPred
<1> QED BY <1>4, <1>6 DEF N

LEMMA PieceOfAction ==
  ASSUME NEW A \in Codes, NEW B \in Codes, NEW e, NEW g, NEW H, Contracts(A, B, e, g, H),
         NEW bb, NEW m, NEW n, <<bb, 1>> \in Places(A), H[<<bb, 1>>] = <<bb, 1>>,
         End(B, n) \in Places(B), g[End(B, n)] = End(A, m)
  PROVE  /\ Data(Between(A, bb, m)) = Data(Between(B, bb, n))
         /\ End(A, m) \in Reach(A, <<bb, 1>>, {End(A, m)}) <=>
              End(B, n) \in Reach(B, <<bb, 1>>, {End(B, n)})
<1>1. Data(Between(A, bb, m)) = Data(Between(B, bb, n))
  BY BetweenContracts
<1> DEFINE from == <<bb, 1>>
           stop == End(B, n)
<1>2. from \in Places(A) /\ stop \in Places(B)
  OBVIOUS
<1> HIDE DEF from, stop
<1>3. stop \in Reach(B, H[from], {stop}) <=> g[stop] \in Reach(A, from, {g[stop]})
  BY <1>2, ReachContracts
<1> QED BY <1>1, <1>3 DEF from, stop

LEMMA SplitEnds ==
  ASSUME NEW c \in Codes, NEW b \in DOMAIN c, NEW k \in 1 .. Len(c[b].ins),
         NEW d, IsSplit(d, c, b, k), d = SplitAt(c, b, k), NEW x \in DOMAIN c
  PROVE  /\ <<x, 1>> \in Places(d) /\ SplitTo(c, b, k)[<<x, 1>>] = <<x, 1>>
         /\ End(c, x) \in Places(c)
         /\ SplitFrom(c, b, k)[End(c, x)] = End(d, IF x = b THEN Len(c) + 1 ELSE x)
<1>1. /\ Len(c) \in Nat /\ DOMAIN c = 1 .. Len(c)
      /\ Len(c[x].ins) \in Nat /\ Len(c[b].ins) \in Nat
  BY CodeType
<1>2. /\ d \in Codes /\ DOMAIN d = 1 .. Len(c) + 1
      /\ x # b => d[x] = c[x]
      /\ Len(d[Len(c) + 1].ins) = Len(c[b].ins) - k + 1
  BY DEF IsSplit
<1>3. <<x, 1>> \in Places(d)
  <2>1. x \in DOMAIN d
    BY <1>1, <1>2
  <2>2. Len(d[x].ins) \in Nat
    BY <1>2, <2>1, CodeType
  <2>3. 1 \in 1 .. Len(d[x].ins) + 1
    BY <2>2
  <2> QED BY <1>2, <2>1, <2>3, PlaceType
<1>4. SplitTo(c, b, k)[<<x, 1>>] = <<x, 1>>
  <2>1. x # Len(c) + 1
    BY <1>1
  <2>2. <<x, 1>> \in Places(SplitAt(c, b, k))
    BY <1>3
  <2> QED BY <2>1, <2>2 DEF SplitTo
<1>5. End(c, x) \in Places(c)
  <2>1. Len(c[x].ins) + 1 \in 1 .. Len(c[x].ins) + 1
    BY <1>1
  <2> QED BY <2>1, PlaceType DEF End
<1>6. SplitFrom(c, b, k)[End(c, x)] = End(d, IF x = b THEN Len(c) + 1 ELSE x)
  <2> DEFINE L == Len(c[x].ins) + 1
  <2>1. <<x, L>> \in Places(c)
    BY <1>5 DEF End
  <2> HIDE DEF L
  <2>2. SplitFrom(c, b, k)[<<x, L>>] = IF x = b /\ L >= k THEN <<Len(c) + 1, L - k + 1>> ELSE <<x, L>>
    BY <2>1 DEF SplitFrom
  <2>3. CASE x = b
    <3>1. L >= k /\ L - k + 1 = Len(c[b].ins) - k + 1 + 1
      BY <1>1, <2>3 DEF L
    <3> QED BY <1>2, <2>2, <2>3, <3>1 DEF End, L
  <2>4. CASE x # b
    BY <1>2, <2>2, <2>4 DEF End, L
  <2> QED BY <2>3, <2>4
<1> QED BY <1>3, <1>4, <1>5, <1>6

(* What was found stays found when a block is split for another action.    *)
LEMMA SplitKeepsFound ==
  ASSUME NEW c \in Codes, NEW b \in DOMAIN c, NEW k \in 1 .. Len(c[b].ins),
         NEW ids, NEW starts \in SUBSET DOMAIN c, NEW bb, NEW rest, NEW is,
         Found(c, ids, starts, bb, rest, is)
  PROVE  Found(SplitAt(c, b, k), ids, starts, bb, rest, is)
<1> DEFINE N == Len(c) + 1
           g == SplitFrom(c, b, k)
           H == SplitTo(c, b, k)
           cut == <<b, k>>
<1>1. PICK d : d = SplitAt(c, b, k)
  OBVIOUS
<1>2. IsSplit(d, c, b, k)
  BY <1>1, SplitType
<1>3. Contracts(d, c, cut, g, H)
  BY <1>1, SplitContracts
<1>4. \A x \in DOMAIN c :
         /\ <<x, 1>> \in Places(d) /\ H[<<x, 1>>] = <<x, 1>>
         /\ End(c, x) \in Places(c)
         /\ g[End(c, x)] = End(d, IF x = b THEN N ELSE x)
  <2> TAKE x \in DOMAIN c
  <2>1. /\ <<x, 1>> \in Places(d) /\ SplitTo(c, b, k)[<<x, 1>>] = <<x, 1>>
        /\ End(c, x) \in Places(c)
        /\ SplitFrom(c, b, k)[End(c, x)] = End(d, IF x = b THEN Len(c) + 1 ELSE x)
    BY <1>1, <1>2, SplitEnds
  <2> QED BY <2>1
<1>5. /\ d \in Codes /\ DOMAIN d = DOMAIN c \cup {N} /\ N \notin DOMAIN c
      /\ \A x \in DOMAIN c : x # b => d[x] = c[x]
      /\ d[b].succ = {N} /\ d[N].succ = c[b].succ
  BY <1>2, CodeType DEF IsSplit
<1>6. /\ Piece(d, b, c, b, 0) /\ Piece(d, N, c, b, k - 1)
      /\ Len(d[N].ins) + (k - 1) = Len(c[b].ins)
      /\ \A x \in DOMAIN c : x # b => Piece(d, x, c, x, 0)
  BY <1>2, SplitPieces
<1>7. \A x \in DOMAIN c : SplitPred(c, d, b, N, x)
  BY <1>2, SplitPreds
<1> HIDE DEF N, g, H, cut
<1>8. /\ bb \in DOMAIN c /\ rest \in DOMAIN c \ starts
      /\ OpenedIn(c, bb, ids)
  BY DEF Found
<1>9. \E e \in DOMAIN d \ starts : Preds(d, bb) = {e} /\ d[e].ins = <<>>
  <2>1. PICK e \in DOMAIN c \ starts : Preds(c, bb) = {e} /\ c[e].ins = <<>>
    BY DEF Found
  <2>2. e # b
    <3>1. Len(c[b].ins) # 0
      BY CodeType
    <3> QED BY <2>1, <3>1
  <2>3. Preds(d, bb) = {e} /\ d[e].ins = <<>> /\ e \in DOMAIN d
    BY <1>5, <1>7, <1>8, <2>1, <2>2 DEF SplitPred
  <2> QED BY <2>1, <2>3
<1>10. OpenedIn(d, bb, ids)
  <2>1. Piece(d, bb, c, bb, 0)
    BY <1>6, <1>8
  <2>2. \A j \in 1 .. 0 : \A id \in ids : ~Opens(c, bb, j, id)
    OBVIOUS
  <2>3. bb \in DOMAIN d
    BY <1>5, <1>8
  <2> QED BY <1>5, <1>8, <2>1, <2>2, <2>3, OpenedInPiece
<1>11. PICK p \in DOMAIN c : LastBlock(c, ids, starts, bb, rest, is, p)
  BY DEF Found
<1>12. PICK q : q = IF p = b THEN N ELSE p
  OBVIOUS
<1>13. q \in DOMAIN d \ (starts \ {bb}) /\ Preds(d, rest) = {q} /\ d[q].succ = {rest}
  <2>1. p \notin starts \ {bb} /\ Preds(c, rest) = {p} /\ c[p].succ = {rest}
    BY <1>11 DEF LastBlock
  <2>2. CASE p = b
    BY <1>5, <1>7, <1>8, <1>12, <2>1, <2>2 DEF SplitPred
  <2>3. CASE p # b
    BY <1>5, <1>7, <1>8, <1>12, <2>1, <2>3 DEF SplitPred
  <2> QED BY <2>2, <2>3
<1>14. ClosedIn(d, q, ids)
  <2>1. ClosedIn(c, p, ids)
    BY <1>11 DEF LastBlock
  <2>2. ids \in SUBSET ids
    OBVIOUS
  <2>3. CASE p = b
    <3>1. Piece(d, q, c, p, k - 1) /\ Len(d[q].ins) + (k - 1) = Len(c[p].ins)
      BY <1>6, <1>12, <2>3
    <3> QED BY <1>5, <1>13, <2>1, <2>2, <3>1, ClosedInPiece
  <2>4. CASE p # b
    <3>1. Piece(d, q, c, p, 0) /\ d[q] = c[p]
      BY <1>5, <1>6, <1>12, <2>4
    <3>2. Len(d[q].ins) + 0 = Len(c[p].ins)
      BY <3>1, CodeType
    <3> QED BY <1>5, <1>13, <2>1, <2>2, <3>1, <3>2, ClosedInPiece
  <2> QED BY <2>3, <2>4
<1>15. /\ Data(Between(d, bb, q)) = Data(Between(c, bb, p))
       /\ End(d, q) \in Reach(d, <<bb, 1>>, {End(d, q)}) <=>
            End(c, p) \in Reach(c, <<bb, 1>>, {End(c, p)})
  <2>1. /\ <<bb, 1>> \in Places(d) /\ H[<<bb, 1>>] = <<bb, 1>>
        /\ End(c, p) \in Places(c) /\ g[End(c, p)] = End(d, q)
    BY <1>4, <1>8, <1>11, <1>12
  <2> QED BY <1>3, <1>5, <2>1, PieceOfAction
<1>16. LastBlock(d, ids, starts, bb, rest, is, q)
  BY <1>11, <1>13, <1>14, <1>15 DEF LastBlock
<1> QED BY <1>1, <1>5, <1>8, <1>9, <1>10, <1>13, <1>16 DEF Found

LEMMA PendingContracts ==
  ASSUME NEW A \in Codes, NEW B \in Codes, NEW e, NEW g, NEW H, Contracts(A, B, e, g, H),
         NEW id, Once(A, id), \A op : e \notin Calls(A, op, id)
  PROVE  Pending(source, A, id) <=> Pending(source, B, id)
<1>0. PICK r : Calls(A, "register", id) = {r}
  BY DEF Once
<1>00. PICK z : Calls(A, "close", id) = {z}
  BY DEF Once
<1> DEFINE from == <<r[1], r[2] + 1>>
<1>1. /\ r \in Sites(A) /\ z \in Sites(A)
      /\ TheCall(A, "register", id) = r /\ TheCall(A, "close", id) = z
  BY <1>0, <1>00, CallIsSite
<1>2. r # e /\ z # e
  BY <1>0, <1>00
<1>3. /\ Calls(B, "register", id) = {H[r]} /\ g[H[r]] = r
      /\ Calls(B, "close", id) = {H[z]} /\ g[H[z]] = z
  BY <1>0, <1>00, CallsContract
<1>4. /\ H[r] \in Sites(B) /\ H[z] \in Sites(B)
      /\ TheCall(B, "register", id) = H[r] /\ TheCall(B, "close", id) = H[z]
  <2> DEFINE rB == H[r]
             zB == H[z]
  <2>1. Calls(B, "register", id) = {rB}
    BY <1>3
  <2>2. Calls(B, "close", id) = {zB}
    BY <1>3
  <2> HIDE DEF rB, zB
  <2>3. rB \in Sites(B) /\ TheCall(B, "register", id) = rB
    BY <2>1, CallIsSite
  <2>4. zB \in Sites(B) /\ TheCall(B, "close", id) = zB
    BY <2>2, CallIsSite
  <2> QED BY <2>3, <2>4 DEF rB, zB
<1>5. Sites(A) \subseteq Places(A) /\ Sites(B) \subseteq Places(B)
  BY PlaceType
<1>6. Onward(A, r) = {from} /\ from \in Places(A)
  <2>1. Onward(A, r) = {from}
    BY <1>1 DEF Onward
  <2>2. Onward(A, r) \subseteq Places(A)
    BY <1>1, <1>5, OnwardOfPlace
  <2> QED BY <2>1, <2>2
<1>7. H[from] = <<H[r][1], H[r][2] + 1>>
  <2> HIDE DEF from
  <2>1. Onward(B, H[r]) = {H[from]}
    BY <1>3, <1>4, <1>5, <1>6 DEF Contracts
  <2>2. Onward(B, H[r]) = {<<H[r][1], H[r][2] + 1>>}
    BY <1>4 DEF Onward
  <2> QED BY <2>1, <2>2
<1>8. z \in Reach(A, from, {z}) <=> H[z] \in Reach(B, H[from], {H[z]})
  <2> DEFINE stop == H[z]
  <2>1. stop \in Places(B) /\ g[stop] = z
    BY <1>3, <1>4, <1>5
  <2> HIDE DEF from, stop
  <2>2. stop \in Reach(B, H[from], {stop}) <=> g[stop] \in Reach(A, from, {g[stop]})
    BY <1>6, <2>1, ReachContracts
  <2> QED BY <2>1, <2>2 DEF stop
<1>9. Data(Inside(A, id)) = Data(Inside(B, id))
  BY <1>0, <1>00, <1>2, InsideContracts
<1>10. Once(A, id) /\ Once(B, id)
  BY <1>3, <1>4 DEF Once
<1>11. Pending(source, A, id) <=> Data(Inside(A, id)) = Data(Inside(source, id)) /\ z \in Reach(A, from, {z})
  <2>1. Pending(source, A, id) <=> Data(Inside(A, id)) = Data(Inside(source, id))
           /\ LET rr == TheCall(A, "register", id)
                  zz == TheCall(A, "close", id)
              IN zz \in Reach(A, <<rr[1], rr[2] + 1>>, {zz})
    BY <1>10 DEF Pending
  <2> QED BY <1>1, <2>1
<1>12. Pending(source, B, id) <=> Data(Inside(B, id)) = Data(Inside(source, id)) /\ H[z] \in Reach(B, H[from], {H[z]})
  <2>1. Pending(source, B, id) <=> Data(Inside(B, id)) = Data(Inside(source, id))
           /\ LET rr == TheCall(B, "register", id)
                  zz == TheCall(B, "close", id)
              IN zz \in Reach(B, <<rr[1], rr[2] + 1>>, {zz})
    BY <1>10 DEF Pending
  <2> HIDE DEF from
  <2> QED BY <1>4, <1>7, <2>1
<1> HIDE DEF from
<1> QED BY <1>8, <1>9, <1>11, <1>12

(* Where the only call is after the block b is split at k.                 *)
LEMMA SplitKeepsPending ==
  ASSUME NEW c \in Codes, NEW b \in DOMAIN c, NEW k \in 1 .. Len(c[b].ins),
         NEW id, Pending(source, c, id)
  PROVE  /\ Pending(source, SplitAt(c, b, k), id)
         /\ \A op \in {"register", "close"} : \A p : Calls(c, op, id) = {p} =>
              Calls(SplitAt(c, b, k), op, id) = {SplitFrom(c, b, k)[p]}
<1> DEFINE g == SplitFrom(c, b, k)
           H == SplitTo(c, b, k)
           cut == <<b, k>>
<1>1. PICK d : d = SplitAt(c, b, k)
  OBVIOUS
<1>2. IsSplit(d, c, b, k)
  BY <1>1, SplitType
<1>3. Contracts(d, c, cut, g, H)
  BY <1>1, SplitContracts
<1>4. d \in Codes
  BY <1>2 DEF IsSplit
<1>5. cut \notin Sites(d)
  <2>1. b \in DOMAIN d /\ Len(d[b].ins) = k - 1
    BY <1>2, CodeType DEF IsSplit
  <2>2. k \notin 1 .. k - 1
    BY CodeType
  <2> QED BY <1>4, <2>1, <2>2, PlaceType
<1> HIDE DEF g, H, cut
<1>6. \A op : cut \notin Calls(d, op, id)
  BY <1>5 DEF Calls
<1>7. \A op : \A p : Calls(c, op, id) = {p} => Calls(d, op, id) = {g[p]}
  BY <1>3, <1>4, <1>6, CallsContract
<1>8. ASSUME NEW op \in {"register", "close"}
      PROVE  \E p \in Sites(d) : Calls(d, op, id) = {p}
  <2>1. PICK p : Calls(c, op, id) = {p}
    BY DEF Pending, Once
  <2>2. Calls(d, op, id) = {g[p]}
    BY <1>7, <2>1
  <2>3. PICK q : Calls(d, op, id) = {q}
    BY <2>2
  <2>4. q \in Sites(d)
    BY <2>3, CallIsSite
  <2> QED BY <2>3, <2>4
<1>9. Once(d, id)
  BY <1>8 DEF Once
<1>10. Pending(source, d, id) <=> Pending(source, c, id)
  BY <1>3, <1>4, <1>6, <1>9, PendingContracts
<1> QED BY <1>1, <1>7, <1>10 DEF g

LEMMA SplitKeepsNested ==
  ASSUME NEW c \in Codes, NEW b \in DOMAIN c, NEW k \in 1 .. Len(c[b].ins),
         NEW ids, Nested(c, ids)
  PROVE  Nested(SplitAt(c, b, k), ids)
<1>1. PICK d : d = SplitAt(c, b, k)
  OBVIOUS
<1>2. IsSplit(d, c, b, k)
  BY <1>1, SplitType
<1>3. d \in Codes /\ DOMAIN d = DOMAIN c \cup {Len(c) + 1}
  BY <1>2, CodeType DEF IsSplit
<1>4. /\ Piece(d, b, c, b, 0) /\ Piece(d, Len(c) + 1, c, b, k - 1)
      /\ \A x \in DOMAIN c : x # b => Piece(d, x, c, x, 0)
  BY <1>2, SplitPieces
<1>5. \A x \in DOMAIN c : NestedIn(c, x, ids)
  BY DEF Nested, NestedIn
<1>6. ASSUME NEW x \in DOMAIN d PROVE NestedIn(d, x, ids)
  <2>1. \E y \in DOMAIN c : \E o : Piece(d, x, c, y, o)
    BY <1>3, <1>4
  <2> QED BY <1>3, <1>5, <2>1, NestedInPiece
<1> QED BY <1>1, <1>6 DEF Nested, NestedIn

LEMMA SplitKeepsRight ==
  ASSUME NEW c, NEW ids, NEW as, FoundRight(source, c, ids, as),
         NEW b \in DOMAIN c, NEW k \in 1 .. Len(c[b].ins)
  PROVE  FoundRight(source, SplitAt(c, b, k), ids, as)
<1>1. PICK d : d = SplitAt(c, b, k)
  OBVIOUS
<1>2. c \in Codes /\ Nested(c, ids)
  BY DEF FoundRight
<1>3. d \in Codes
  BY <1>1, <1>2, SplitType DEF IsSplit
<1>4. Nested(d, ids)
  BY <1>1, <1>2, SplitKeepsNested
<1>5. \A id \in ids : Pending(source, d, id)
  BY <1>1, <1>2, SplitKeepsPending DEF FoundRight
<1>6. ASSUME NEW n \in DOMAIN as
      PROVE  Found(d, ids, Starts(as), as[n].bb, as[n].out, Data(Inside(source, as[n].id)))
  <2> DEFINE X == Data(Inside(source, as[n].id))
             starts == Starts(as)
             bb == as[n].bb
             rest == as[n].out
  <2>1. starts \in SUBSET DOMAIN c
    BY DEF FoundRight, Starts, Found
  <2>2. Found(c, ids, starts, bb, rest, X)
    BY DEF FoundRight
  <2> HIDE DEF X, starts, bb, rest
  <2>3. Found(d, ids, starts, bb, rest, X)
    BY <1>1, <1>2, <2>1, <2>2, SplitKeepsFound
  <2> QED BY <2>3 DEF X, starts, bb, rest
<1> QED BY <1>1, <1>3, <1>4, <1>5, <1>6 DEF FoundRight

LEMMA DeleteEnds ==
  ASSUME NEW c \in Codes, NEW b \in DOMAIN c, 1 \in 1 .. Len(c[b].ins),
         NEW d, IsTail(d, c, b), NEW x \in DOMAIN c
  PROVE  /\ <<x, 1>> \in Places(c) /\ DeleteTo(c, b)[<<x, 1>>] = <<x, 1>>
         /\ End(d, x) \in Places(d)
         /\ DeleteFrom(c, b, d)[End(d, x)] = End(c, x)
<1>1. /\ d \in Codes /\ DOMAIN d = DOMAIN c /\ (x # b => d[x] = c[x])
      /\ Len(d[b].ins) = Len(c[b].ins) - 1
  BY DEF IsTail
<1>2. Len(c[x].ins) \in Nat /\ Len(c[b].ins) \in Nat /\ Len(d[x].ins) \in Nat
  BY <1>1, CodeType
<1>3. <<x, 1>> \in Places(c)
  <2>1. 1 \in 1 .. Len(c[x].ins) + 1
    BY <1>2
  <2> QED BY <2>1, PlaceType
<1>4. DeleteTo(c, b)[<<x, 1>>] = <<x, 1>>
  BY <1>3 DEF DeleteTo
<1> DEFINE L == Len(d[x].ins) + 1
<1>5. <<x, L>> \in Places(d)
  <2>1. L \in 1 .. Len(d[x].ins) + 1
    BY <1>2
  <2> HIDE DEF L
  <2> QED BY <1>1, <2>1, PlaceType
<1>6. L + 1 = (IF x = b THEN Len(c[x].ins) + 1 ELSE L + 1) /\ (x # b => L = Len(c[x].ins) + 1)
  BY <1>1, <1>2
<1>7. End(d, x) = <<x, L>>
  BY DEF End
<1> HIDE DEF L
<1>8. DeleteFrom(c, b, d)[<<x, L>>] = IF x = b THEN <<b, L + 1>> ELSE <<x, L>>
  BY <1>5 DEF DeleteFrom
<1> QED BY <1>3, <1>4, <1>5, <1>6, <1>7, <1>8 DEF End

LEMMA DeletePieces ==
  ASSUME NEW c \in Codes, NEW b \in DOMAIN c, 1 \in 1 .. Len(c[b].ins), NEW d, IsTail(d, c, b)
  PROVE  /\ Piece(d, b, c, b, 1) /\ Len(d[b].ins) + 1 = Len(c[b].ins)
         /\ \A x \in DOMAIN c : x # b => Piece(d, x, c, x, 0) /\ Len(d[x].ins) + 0 = Len(c[x].ins)
<1>1. \A x \in DOMAIN c : Len(c[x].ins) \in Nat
  BY CodeType
<1>2. Piece(d, b, c, b, 1) /\ Len(d[b].ins) + 1 = Len(c[b].ins)
  BY <1>1 DEF IsTail, Piece
<1>3. ASSUME NEW x \in DOMAIN c, x # b PROVE Piece(d, x, c, x, 0) /\ Len(d[x].ins) + 0 = Len(c[x].ins)
  <2>1. d[x] = c[x] /\ \A j \in 1 .. Len(c[x].ins) : j + 0 = j
    BY <1>1, <1>3 DEF IsTail
  <2> QED BY <1>1, <2>1 DEF Piece
<1> QED BY <1>2, <1>3

(* What was found stays found when a call is deleted of an action that was *)
(* found, at the start of its block.                                       *)
LEMMA DeleteKeepsFound ==
  ASSUME NEW c \in Codes, NEW b \in DOMAIN c, 1 \in 1 .. Len(c[b].ins), NEW d, IsTail(d, c, b),
         At(c, <<b, 1>>).op \in {"register", "close"},
         NEW ids, NEW some \in SUBSET ids, At(c, <<b, 1>>).id \notin some,
         NEW starts, NEW bb, NEW rest, NEW is, Found(c, ids, starts, bb, rest, is)
  PROVE  Found(d, some, starts, bb, rest, is)
<1> DEFINE g == DeleteFrom(c, b, d)
           H == DeleteTo(c, b)
           cut == <<b, 1>>
<1>1. Contracts(c, d, cut, g, H)
  BY DeleteContracts
<1>2. \A x \in DOMAIN c :
         /\ <<x, 1>> \in Places(c) /\ H[<<x, 1>>] = <<x, 1>>
         /\ End(d, x) \in Places(d) /\ g[End(d, x)] = End(c, x)
  BY DeleteEnds
<1>3. /\ d \in Codes /\ DOMAIN d = DOMAIN c
      /\ \A x \in DOMAIN c : d[x].succ = c[x].succ /\ (x # b => d[x] = c[x])
  BY DEF IsTail
<1>4. /\ Piece(d, b, c, b, 1) /\ Len(d[b].ins) + 1 = Len(c[b].ins)
      /\ \A x \in DOMAIN c : x # b => Piece(d, x, c, x, 0) /\ Len(d[x].ins) + 0 = Len(c[x].ins)
  BY DeletePieces
<1>5. \A x : Preds(d, x) = Preds(c, x)
  BY <1>3 DEF Preds
<1>6. \A id \in some : ~Opens(c, b, 1, id)
  BY DEF Opens, At
<1> HIDE DEF g, H, cut
<1>7. /\ bb \in DOMAIN c /\ rest \in DOMAIN c \ starts
      /\ OpenedIn(c, bb, ids)
  BY DEF Found
<1>8. \E e \in DOMAIN d \ starts : Preds(d, bb) = {e} /\ d[e].ins = <<>>
  <2>1. PICK e \in DOMAIN c \ starts : Preds(c, bb) = {e} /\ c[e].ins = <<>>
    BY DEF Found
  <2>2. e # b
    <3>1. Len(c[b].ins) # 0
      BY CodeType
    <3> QED BY <2>1, <3>1
  <2> QED BY <1>3, <1>5, <2>1, <2>2
<1>9. OpenedIn(d, bb, some)
  <2>1. CASE bb = b
    <3>1. \A j \in 1 .. 1 : \A id \in some : ~Opens(c, b, j, id)
      BY <1>6
    <3>2. OpenedIn(c, b, ids)
      BY <1>7, <2>1
    <3>3. b \in DOMAIN d
      BY <1>3
    <3>4. OpenedIn(d, b, some)
      BY <1>3, <1>4, <3>1, <3>2, <3>3, OpenedInPiece
    <3> QED BY <2>1, <3>4
  <2>2. CASE bb # b
    <3>1. Piece(d, bb, c, bb, 0) /\ bb \in DOMAIN d
      BY <1>3, <1>4, <1>7, <2>2
    <3>2. \A j \in 1 .. 0 : \A id \in some : ~Opens(c, bb, j, id)
      OBVIOUS
    <3> QED BY <1>3, <1>7, <3>1, <3>2, OpenedInPiece
  <2> QED BY <2>1, <2>2
<1>10. PICK p \in DOMAIN c : LastBlock(c, ids, starts, bb, rest, is, p)
  BY DEF Found
<1>11. ClosedIn(d, p, some)
  <2>1. ClosedIn(c, p, ids) /\ p \in DOMAIN d
    BY <1>3, <1>10 DEF LastBlock
  <2>2. PICK o : Piece(d, p, c, p, o) /\ Len(d[p].ins) + o = Len(c[p].ins)
    BY <1>4, <1>10
  <2> QED BY <1>3, <1>10, <2>1, <2>2, ClosedInPiece
<1>12. /\ Data(Between(c, bb, p)) = Data(Between(d, bb, p))
       /\ End(c, p) \in Reach(c, <<bb, 1>>, {End(c, p)}) <=>
            End(d, p) \in Reach(d, <<bb, 1>>, {End(d, p)})
  <2>1. /\ <<bb, 1>> \in Places(c) /\ H[<<bb, 1>>] = <<bb, 1>>
        /\ End(d, p) \in Places(d) /\ g[End(d, p)] = End(c, p)
    BY <1>2, <1>7, <1>10
  <2>2. d \in Codes
    BY <1>3
  <2> QED BY <1>1, <2>1, <2>2, PieceOfAction
<1>13. LastBlock(d, some, starts, bb, rest, is, p)
  BY <1>3, <1>5, <1>10, <1>11, <1>12 DEF LastBlock
<1> QED BY <1>3, <1>7, <1>8, <1>9, <1>10, <1>13 DEF Found

LEMMA DeleteKeepsRight ==
  ASSUME NEW c, NEW ids, NEW as, FoundRight(source, c, ids, as),
         NEW b \in DOMAIN c, 1 \in 1 .. Len(c[b].ins), NEW d, IsTail(d, c, b),
         At(c, <<b, 1>>).op \in {"register", "close"},
         NEW some \in SUBSET ids, At(c, <<b, 1>>).id \notin some
  PROVE  FoundRight(source, d, some, as)
<1>1. c \in Codes /\ Nested(c, ids)
  BY DEF FoundRight
<1>2. d \in Codes /\ DOMAIN d = DOMAIN c
  BY DEF IsTail
<1>3. Nested(d, some)
  <2>1. \A x \in DOMAIN c : NestedIn(c, x, some)
    BY <1>1 DEF Nested, NestedIn
  <2>2. ASSUME NEW x \in DOMAIN d PROVE NestedIn(d, x, some)
    <3>1. \E o : Piece(d, x, c, x, o)
      BY <1>1, <1>2, DeletePieces
    <3> QED BY <1>1, <1>2, <2>1, <3>1, NestedInPiece
  <2> QED BY <2>2 DEF Nested, NestedIn
<1>4. ASSUME NEW id \in some PROVE Pending(source, d, id)
  <2> DEFINE g == DeleteFrom(c, b, d)
             H == DeleteTo(c, b)
             cut == <<b, 1>>
  <2>1. Contracts(c, d, cut, g, H)
    BY <1>1, DeleteContracts
  <2>2. \A op : cut \notin Calls(c, op, id)
    BY DEF Calls
  <2>3. Pending(source, c, id) /\ Once(c, id)
    BY DEF FoundRight, Pending
  <2> HIDE DEF g, H, cut
  <2> QED BY <1>1, <1>2, <2>1, <2>2, <2>3, PendingContracts
<1>5. ASSUME NEW n \in DOMAIN as
      PROVE  Found(d, some, Starts(as), as[n].bb, as[n].out, Data(Inside(source, as[n].id)))
  <2> DEFINE X == Data(Inside(source, as[n].id))
             starts == Starts(as)
             bb == as[n].bb
             rest == as[n].out
  <2>1. Found(c, ids, starts, bb, rest, X)
    BY DEF FoundRight
  <2> HIDE DEF X, starts, bb, rest
  <2>2. Found(d, some, starts, bb, rest, X)
    BY <1>1, <2>1, DeleteKeepsFound
  <2> QED BY <2>2 DEF X, starts, bb, rest
<1> QED BY <1>2, <1>3, <1>4, <1>5 DEF FoundRight

(* Splitting a block before a call brings the call to the start of the new *)
(* block.                                                                  *)
CallAt(c, op, id, b, k) == Calls(c, op, id) = {<<b, k>>}

HasCall(c, b, k, op, id) == c[b].ins[k].op = op /\ c[b].ins[k].id = id

LEMMA CallAtPlace ==
  ASSUME NEW c \in Codes, NEW op, NEW id, NEW b, NEW k, CallAt(c, op, id, b, k)
  PROVE  /\ b \in DOMAIN c /\ k \in 1 .. Len(c[b].ins)
         /\ HasCall(c, b, k, op, id)
         /\ <<b, k>> \in Places(c) /\ b \in Nat /\ k \in Nat /\ k >= 1
<1> DEFINE p == <<b, k>>
<1>1. Calls(c, op, id) = {p}
  BY DEF CallAt
<1> HIDE DEF p
<1>2. /\ p \in Sites(c) /\ At(c, p).op = op /\ At(c, p).id = id
      /\ TheCall(c, op, id) = p
  BY <1>1, CallIsSite
<1>3. b \in DOMAIN c /\ k \in 1 .. Len(c[b].ins) /\ <<b, k>> \in Places(c)
  BY <1>2, PlaceType DEF p
<1>4. b \in Nat /\ k \in Nat /\ k >= 1
  BY <1>3, CodeType
<1> QED BY <1>2, <1>3, <1>4 DEF p, At, HasCall

LEMMA CallAtIs ==
  ASSUME NEW c, NEW op, NEW id, NEW b, NEW k, CallAt(c, op, id, b, k)
  PROVE  TheCall(c, op, id) = <<b, k>>
<1> DEFINE p == <<b, k>>
<1>1. Calls(c, op, id) = {p}
  BY DEF CallAt
<1> HIDE DEF p
<1>2. TheCall(c, op, id) = p
  BY <1>1, CallIsSite
<1> QED BY <1>2 DEF p

LEMMA SplitBlockAt ==
  ASSUME NEW c \in Codes, NEW op, NEW id, NEW b, NEW k, CallAt(c, op, id, b, k)
  PROVE  SplitBlock(c, op, id) = SplitAt(c, b, k)
<1>1. TheCall(c, op, id) = <<b, k>>
  BY CallAtIs
<1> QED BY <1>1 DEF SplitBlock

SplitsFirst(c, d, ids, as, op, id, b, k) ==
  /\ FoundRight(source, d, ids, as) /\ IsSplit(d, c, b, k) /\ CallAt(d, op, id, Len(c) + 1, 1)
  /\ \A q \in {"register", "close"} : \A x, j :
       CallAt(c, q, id, x, j) /\ (x # b \/ j < k) => CallAt(d, q, id, x, j)

LEMMA SplitBlockFirst ==
  ASSUME NEW c, NEW ids, NEW as, FoundRight(source, c, ids, as), NEW id \in ids,
         NEW op \in {"register", "close"}, NEW b, NEW k, CallAt(c, op, id, b, k),
         NEW d, d = SplitBlock(c, op, id)
  PROVE  SplitsFirst(c, d, ids, as, op, id, b, k)
<1>1. c \in Codes /\ Pending(source, c, id)
  BY DEF FoundRight
<1>2. d = SplitAt(c, b, k) /\ b \in DOMAIN c /\ k \in 1 .. Len(c[b].ins)
  <2>1. SplitBlock(c, op, id) = SplitAt(c, b, k)
    BY <1>1, SplitBlockAt
  <2>2. b \in DOMAIN c /\ k \in 1 .. Len(c[b].ins)
    BY <1>1, CallAtPlace
  <2> QED BY <2>1, <2>2
<1>3. FoundRight(source, d, ids, as)
  BY <1>2, SplitKeepsRight
<1>4. IsSplit(d, c, b, k)
  BY <1>1, <1>2, SplitType
<1>5. \A q \in {"register", "close"} : \A p : Calls(c, q, id) = {p} => Calls(d, q, id) = {SplitFrom(c, b, k)[p]}
  BY <1>1, <1>2, SplitKeepsPending
<1>6. ASSUME NEW q \in {"register", "close"}, NEW x, NEW j, CallAt(c, q, id, x, j)
      PROVE  /\ x = b /\ j >= k => CallAt(d, q, id, Len(c) + 1, j - k + 1)
             /\ x # b \/ j < k => CallAt(d, q, id, x, j)
  <2> DEFINE p == <<x, j>>
             n == SplitFrom(c, b, k)[p]
  <2>1. p \in Places(c) /\ j \in Nat
    BY <1>1, <1>6, CallAtPlace
  <2>2. n = IF x = b /\ j >= k THEN <<Len(c) + 1, j - k + 1>> ELSE <<x, j>>
    BY <2>1 DEF SplitFrom
  <2>3. Calls(c, q, id) = {p}
    BY <1>6 DEF CallAt
  <2>4. k \in Nat
    BY <1>1, <1>2, CodeType
  <2> HIDE DEF p, n
  <2>5. Calls(d, q, id) = {n}
    BY <1>5, <2>3 DEF n
  <2>6. ASSUME x = b, j >= k PROVE CallAt(d, q, id, Len(c) + 1, j - k + 1)
    BY <2>2, <2>5, <2>6 DEF CallAt
  <2>7. ASSUME x # b \/ j < k PROVE CallAt(d, q, id, x, j)
    <3>1. n = <<x, j>>
      BY <2>1, <2>2, <2>4, <2>7
    <3> QED BY <2>5, <3>1 DEF CallAt
  <2> QED BY <2>6, <2>7
<1>7. CallAt(d, op, id, Len(c) + 1, 1)
  <2>1. k >= k /\ k - k + 1 = 1
    BY <1>2, CodeType
  <2>2. CallAt(d, op, id, Len(c) + 1, k - k + 1)
    BY <1>6, <2>1
  <2> QED BY <2>1, <2>2
<1>8. \A q \in {"register", "close"} : \A x, j :
        CallAt(c, q, id, x, j) /\ (x # b \/ j < k) => CallAt(d, q, id, x, j)
  BY <1>6
<1> QED BY <1>3, <1>4, <1>7, <1>8 DEF SplitsFirst

(* The first two splits: the register call is in front of its block bb,    *)
(* and before that there is an empty one.  Both are new.                   *)
HasOpened(c, d, id, e, bb) ==
  /\ DOMAIN d = DOMAIN c \cup {e, bb} /\ e \notin DOMAIN c /\ bb \notin DOMAIN c /\ e # bb
  /\ Len(d) = bb
  /\ d[e].ins = <<>> /\ Preds(d, bb) = {e}
  /\ CallAt(d, "register", id, bb, 1)

LEMMA OpenedAtFirst ==
  ASSUME NEW c, NEW ids, NEW as, FoundRight(source, c, ids, as), NEW id \in ids,
         NEW s, s = SplitBlock(c, "register", id), NEW d, d = SplitBlock(s, "register", id)
  PROVE  FoundRight(source, d, ids, as) /\ HasOpened(c, d, id, Len(s), Len(d))
<1> DEFINE e == Len(c) + 1
           bb == Len(s) + 1
<1>1. c \in Codes /\ Len(c) \in Nat /\ DOMAIN c = 1 .. Len(c)
  BY CodeType DEF FoundRight
<1>2. PICK b, k : CallAt(c, "register", id, b, k)
  <2>1. PICK p \in Sites(c) : Calls(c, "register", id) = {p}
    BY DEF FoundRight, Pending, Once
  <2>2. p = <<p[1], p[2]>>
    BY <1>1, PlaceType
  <2> QED BY <2>1, <2>2 DEF CallAt
<1>3. FoundRight(source, s, ids, as) /\ IsSplit(s, c, b, k) /\ CallAt(s, "register", id, e, 1)
  <2>1. SplitsFirst(c, s, ids, as, "register", id, b, k)
    BY <1>2, SplitBlockFirst
  <2> QED BY <2>1 DEF SplitsFirst
<1>5. /\ s \in Codes /\ DOMAIN s = 1 .. e /\ Len(s) = e
  BY <1>3 DEF IsSplit
<1> HIDE DEF e, bb
<1>6. FoundRight(source, d, ids, as) /\ IsSplit(d, s, e, 1) /\ CallAt(d, "register", id, bb, 1)
  <2>1. SplitsFirst(s, d, ids, as, "register", id, e, 1)
    BY <1>3, SplitBlockFirst
  <2> QED BY <2>1 DEF SplitsFirst, bb
<1>7. /\ d \in Codes /\ DOMAIN d = 1 .. bb /\ Len(d) = bb
      /\ Len(d[e].ins) = 1 - 1
  BY <1>6 DEF IsSplit, bb
<1>8. Preds(d, bb) = {e}
  <2>1. e \in DOMAIN s /\ 1 \in 1 .. Len(s[e].ins)
    BY <1>3, <1>5, CallAtPlace
  <2> QED BY <1>5, <1>6, <2>1, SplitPreds DEF bb
<1>9. bb = e + 1 /\ e \in Nat /\ e = Len(c) + 1
  BY <1>1, <1>5 DEF e, bb
<1>10. /\ DOMAIN d = DOMAIN c \cup {e, bb} /\ e \notin DOMAIN c /\ bb \notin DOMAIN c /\ e # bb
      /\ e \in DOMAIN d
  <2>1. \A x : x \in DOMAIN d <=> x \in DOMAIN c \/ x = e \/ x = bb
    BY <1>1, <1>7, <1>9
  <2>2. e \notin DOMAIN c /\ bb \notin DOMAIN c /\ e # bb
    BY <1>1, <1>9
  <2> QED BY <2>1, <2>2
<1>11. d[e].ins = <<>>
  <2>1. d[e].ins \in Seq(Instrs) /\ Len(d[e].ins) = 0
    BY <1>7, <1>10, CodeType
  <2> QED BY <2>1, EmptySeq
<1> QED BY <1>5, <1>6, <1>7, <1>8, <1>10, <1>11 DEF HasOpened

(* What is between the calls of an action is what is between its first     *)
(* block and the end of the block before the close call.                   *)
OnlyNext(d, b, n) == Preds(d, n) = {b} /\ d[b].succ = {n}

LEMMA InsideIsBetween ==
  ASSUME NEW d \in Codes, NEW id, NEW bb, NEW n, NEW b,
         CallAt(d, "register", id, bb, 1), CallAt(d, "close", id, n, 1),
         OnlyNext(d, b, n), Pending(source, d, id)
  PROVE  /\ Data(Between(d, bb, b)) = Data(Inside(d, id))
         /\ End(d, b) \in Reach(d, <<bb, 1>>, {End(d, b)})
<1> DEFINE s == <<bb, 1>>
           t == <<bb, 2>>
           z == <<n, 1>>
           E == End(d, b)
           R == Reach(d, s, {E})
           Q == Reach(d, t, {z})
<1>1. /\ bb \in DOMAIN d /\ 1 \in 1 .. Len(d[bb].ins) /\ d[bb].ins[1].op = "register"
      /\ TheCall(d, "register", id) = s
  <2>1. bb \in DOMAIN d /\ 1 \in 1 .. Len(d[bb].ins) /\ d[bb].ins[1].op = "register"
    <3>1. bb \in DOMAIN d /\ 1 \in 1 .. Len(d[bb].ins) /\ HasCall(d, bb, 1, "register", id)
      BY CallAtPlace
    <3> QED BY <3>1 DEF HasCall
  <2>2. TheCall(d, "register", id) = s
    BY CallAtIs
  <2> QED BY <2>1, <2>2
<1>2. /\ n \in DOMAIN d /\ 1 \in 1 .. Len(d[n].ins) /\ d[n].ins[1].op = "close"
      /\ TheCall(d, "close", id) = z
  <2>1. n \in DOMAIN d /\ 1 \in 1 .. Len(d[n].ins) /\ d[n].ins[1].op = "close"
    <3>1. n \in DOMAIN d /\ 1 \in 1 .. Len(d[n].ins) /\ HasCall(d, n, 1, "close", id)
      BY CallAtPlace
    <3> QED BY <3>1 DEF HasCall
  <2>2. TheCall(d, "close", id) = z
    BY CallAtIs
  <2> QED BY <2>1, <2>2
<1>3. b \in DOMAIN d /\ \A x \in DOMAIN d : n \in d[x].succ <=> x = b
  BY DEF OnlyNext, Preds
<1>4. /\ \A x, k : <<x, k>> \in Places(d) <=> x \in DOMAIN d /\ k \in 1 .. Len(d[x].ins) + 1
      /\ \A x, k : <<x, k>> \in Sites(d) <=> x \in DOMAIN d /\ k \in 1 .. Len(d[x].ins)
      /\ \A p \in Places(d) : /\ p = <<p[1], p[2]>> /\ p[1] \in DOMAIN d
                              /\ p[2] \in 1 .. Len(d[p[1]].ins) + 1
      /\ Sites(d) \subseteq Places(d)
  BY PlaceType
<1>5. \A x \in DOMAIN d : Len(d[x].ins) \in Nat
  BY CodeType
<1>6. s \in Sites(d) /\ s \in Places(d) /\ Onward(d, s) = {t}
  BY <1>1, <1>4 DEF Onward
<1>7. z \in Sites(d) /\ z \in Places(d)
  BY <1>2, <1>4
<1>8. E \in Places(d) /\ E \notin Sites(d) /\ Onward(d, E) = {z}
  <2> DEFINE L == Len(d[b].ins) + 1
  <2>1. L \in 1 .. Len(d[b].ins) + 1 /\ L \notin 1 .. Len(d[b].ins)
    BY <1>3, <1>5
  <2>2. E = <<b, L>>
    BY DEF End
  <2> HIDE DEF L, E
  <2>3. E \in Places(d) /\ E \notin Sites(d)
    BY <1>3, <1>4, <2>1, <2>2
  <2> QED BY <2>2, <2>3 DEF Onward, OnlyNext
<1>9. t \in Places(d)
  BY <1>6, OnwardOfPlace
<1>10. ASSUME NEW q \in Places(d), z \in Onward(d, q) PROVE q = E
  <2> DEFINE x == q[1]
             k == q[2]
  <2>1. q = <<x, k>> /\ x \in DOMAIN d /\ k \in 1 .. Len(d[x].ins) + 1
    BY <1>4
  <2> HIDE DEF x, k
  <2>2. q \notin Sites(d)
    <3> SUFFICES ASSUME q \in Sites(d) PROVE FALSE
      OBVIOUS
    <3>1. z = <<x, k + 1>>
      BY <1>10, <2>1 DEF Onward
    <3>2. k + 1 = 1 /\ k >= 1 /\ k \in Nat
      BY <1>5, <2>1, <3>1
    <3> QED BY <3>2
  <2>3. n \in d[x].succ
    BY <1>10, <2>1, <2>2 DEF Onward
  <2>4. x = b
    BY <1>3, <2>1, <2>3
  <2>5. k = Len(d[b].ins) + 1
    BY <1>4, <1>5, <2>1, <2>2, <2>4
  <2> QED BY <2>1, <2>4, <2>5 DEF End
<1>11. s # z /\ s # E
  BY <1>1, <1>2, <1>6, <1>8
<1> HIDE DEF s, t, z, E, R, Q
<1>12. /\ R \subseteq Places(d) /\ s \in R
       /\ \A p \in R \ {E} : Onward(d, p) \subseteq R
  BY <1>6, ReachIsLeast DEF R
<1>13. \A C \in SUBSET Places(d) :
         s \in C /\ (\A p \in C \ {E} : Onward(d, p) \subseteq C) => R \subseteq C
  BY <1>6, ReachIsLeast DEF R
<1>14. /\ Q \subseteq Places(d) /\ t \in Q
       /\ \A p \in Q \ {z} : Onward(d, p) \subseteq Q
  BY <1>9, ReachIsLeast DEF Q
<1>15. \A C \in SUBSET Places(d) :
         t \in C /\ (\A p \in C \ {z} : Onward(d, p) \subseteq C) => Q \subseteq C
  BY <1>9, ReachIsLeast DEF Q
<1>16. t \in R
  BY <1>6, <1>11, <1>12
<1>17. R \subseteq (Q \ {z}) \cup {s}
  <2> DEFINE C == (Q \ {z}) \cup {s}
  <2>1. C \in SUBSET Places(d) /\ s \in C
    BY <1>6, <1>14
  <2>2. ASSUME NEW p \in C \ {E} PROVE Onward(d, p) \subseteq C
    <3>1. z \notin Onward(d, p)
      BY <1>10, <2>1, <2>2
    <3>2. Onward(d, p) \subseteq Q
      BY <1>6, <1>14, <2>2
    <3> QED BY <3>1, <3>2
  <2> HIDE DEF C
  <2>3. R \subseteq C
    BY <1>13, <2>1, <2>2
  <2> QED BY <2>3 DEF C
<1>18. Q \subseteq R \cup {z}
  <2> DEFINE C == R \cup {z}
  <2>1. C \in SUBSET Places(d) /\ t \in C
    BY <1>7, <1>12, <1>16
  <2>2. ASSUME NEW p \in C \ {z} PROVE Onward(d, p) \subseteq C
    BY <1>8, <1>12, <2>2
  <2> HIDE DEF C
  <2>3. Q \subseteq C
    BY <1>15, <2>1, <2>2
  <2> QED BY <2>3 DEF C
<1>19. z \in Q
  <2>1. LET rr == TheCall(d, "register", id)
            zz == TheCall(d, "close", id)
        IN zz \in Reach(d, <<rr[1], rr[2] + 1>>, {zz})
    BY DEF Pending
  <2>2. z \in Reach(d, <<s[1], s[2] + 1>>, {z})
    BY <1>1, <1>2, <2>1
  <2>3. <<s[1], s[2] + 1>> = t
    BY DEF s, t
  <2> QED BY <2>2, <2>3 DEF Q
<1>20. E \in R
  <2> SUFFICES ASSUME E \notin R PROVE FALSE
    OBVIOUS
  <2>1. Q \subseteq R
    BY <1>12, <1>15, <1>16
  <2> QED BY <1>11, <1>17, <1>19, <2>1
<1>21. Inside(d, id) = InsOf(d, Q \ {z})
  <2>1. <<s[1], s[2] + 1>> = t
    BY DEF s, t
  <2> QED BY <1>1, <1>2, <2>1 DEF Inside, Q
<1>22. Between(d, bb, b) = InsOf(d, R)
  BY DEF Between, R, s, E
<1>23. Data(InsOf(d, R)) = Data(InsOf(d, Q \ {z}))
  <2>1. At(d, s).op = "register"
    BY <1>1 DEF At, s
  <2>2. InsOf(d, Q \ {z}) \subseteq InsOf(d, R)
    BY <1>18 DEF InsOf
  <2>3. InsOf(d, R) \subseteq InsOf(d, Q \ {z}) \cup {At(d, s)}
    BY <1>17 DEF InsOf
  <2>4. Data(InsOf(d, Q \ {z})) \subseteq Data(InsOf(d, R))
    BY <2>2 DEF Data
  <2>5. Data(InsOf(d, R)) \subseteq Data(InsOf(d, Q \ {z}))
    BY <2>1, <2>3 DEF Data
  <2> QED BY <2>4, <2>5
<1> QED BY <1>20, <1>21, <1>22, <1>23 DEF R, E, s

LEMMA OpensIsCall ==
  ASSUME NEW c \in Codes, NEW x \in DOMAIN c, NEW j \in DOMAIN c[x].ins, NEW id
  PROVE  /\ Opens(c, x, j, id) <=> <<x, j>> \in Calls(c, "register", id)
         /\ Closes(c, x, j, id) <=> <<x, j>> \in Calls(c, "close", id)
<1>1. <<x, j>> \in Sites(c)
  BY CodeType, PlaceType
<1> QED BY <1>1 DEF Opens, Closes, Calls, At

LEMMA OpensAlone ==
  ASSUME NEW c \in Codes, NEW id, NEW b, NEW k, NEW x \in DOMAIN c, NEW j \in DOMAIN c[x].ins,
         CallAt(c, "register", id, b, k)
  PROVE  Opens(c, x, j, id) <=> x = b /\ j = k
<1>1. <<x, j>> = <<b, k>> <=> x = b /\ j = k
  OBVIOUS
<1> QED BY <1>1, OpensIsCall DEF CallAt

LEMMA ClosesAlone ==
  ASSUME NEW c \in Codes, NEW id, NEW b, NEW k, NEW x \in DOMAIN c, NEW j \in DOMAIN c[x].ins,
         CallAt(c, "close", id, b, k)
  PROVE  Closes(c, x, j, id) <=> x = b /\ j = k
<1>1. <<x, j>> = <<b, k>> <=> x = b /\ j = k
  OBVIOUS
<1> QED BY <1>1, OpensIsCall DEF CallAt

(* The third split: it puts the close call at the start of the rest, and   *)
(* the action is found.                                                    *)
HasClosed(c, d, id, bb) ==
  /\ Len(d) \notin DOMAIN c /\ DOMAIN d = DOMAIN c \cup {Len(d)}
  /\ CallAt(d, "register", id, bb, 1) /\ CallAt(d, "close", id, Len(d), 1)

LEMMA NewIsFound ==
  ASSUME NEW c, NEW ids, NEW as, FoundRight(source, c, ids, as), NEW id \in ids,
         NEW m, NEW e, NEW bb, FoundRight(source, m, ids, as), HasOpened(c, m, id, e, bb),
         NEW d, d = SplitBlock(m, "close", id)
  PROVE  /\ FoundRight(source, d, ids, as) /\ HasClosed(m, d, id, bb)
         /\ Found(d, ids \ {id}, Starts(as) \cup {bb}, bb, Len(d), Data(Inside(source, id)))
<1> DEFINE n == Len(m) + 1
           starts == Starts(as) \cup {bb}
<1>1. m \in Codes /\ c \in Codes /\ Pending(source, m, id) /\ Nested(m, ids)
  BY DEF FoundRight
<1>2. PICK b, k : CallAt(m, "close", id, b, k)
  <2>1. PICK p \in Sites(m) : Calls(m, "close", id) = {p}
    BY <1>1 DEF Pending, Once
  <2>2. p = <<p[1], p[2]>>
    BY <1>1, PlaceType
  <2> QED BY <2>1, <2>2 DEF CallAt
<1>3. SplitsFirst(m, d, ids, as, "close", id, b, k)
  BY <1>2, SplitBlockFirst
<1>4. /\ FoundRight(source, d, ids, as) /\ IsSplit(d, m, b, k)
      /\ \A q \in {"register", "close"} : \A x, j :
           CallAt(m, q, id, x, j) /\ (x # b \/ j < k) => CallAt(d, q, id, x, j)
  BY <1>3 DEF SplitsFirst
<1>5. CallAt(d, "close", id, n, 1)
  BY <1>3 DEF SplitsFirst
<1>6. /\ DOMAIN m = DOMAIN c \cup {e, bb} /\ e \notin DOMAIN c /\ bb \notin DOMAIN c /\ e # bb
      /\ m[e].ins = <<>> /\ Preds(m, bb) = {e}
      /\ CallAt(m, "register", id, bb, 1)
  BY DEF HasOpened
<1> HIDE DEF n, starts
<1>7. b \in DOMAIN m /\ k \in 1 .. Len(m[b].ins) /\ HasCall(m, b, k, "close", id)
  BY <1>1, <1>2, CallAtPlace
<1>8. bb \in DOMAIN m /\ 1 \in 1 .. Len(m[bb].ins) /\ HasCall(m, bb, 1, "register", id)
  BY <1>1, <1>6, CallAtPlace
<1>9. Len(m[b].ins) \in Nat /\ DOMAIN m[b].ins = 1 .. Len(m[b].ins)
  BY <1>1, <1>7, CodeType
<1>10. CallAt(d, "register", id, bb, 1)
  <2>1. bb # b \/ 1 < k
    <3>1. bb = b => k # 1
      BY <1>7, <1>8 DEF HasCall
    <3> QED BY <1>7, <1>9, <3>1
  <2> QED BY <1>4, <1>6, <2>1
<1>11. b # e
  <2>1. Len(m[b].ins) # 0
    BY <1>7, <1>9
  <2> QED BY <1>6, <2>1
<1>12. /\ d \in Codes /\ Len(d) = n /\ n \notin DOMAIN m /\ DOMAIN d = DOMAIN m \cup {n}
       /\ \A x \in DOMAIN m : x # b => d[x] = m[x]
       /\ d[b].succ = {n} /\ Len(d[b].ins) = k - 1
       /\ \A j \in 1 .. k - 1 : d[b].ins[j] = m[b].ins[j]
  <2>1. Len(m) \in Nat /\ DOMAIN m = 1 .. Len(m)
    BY <1>1, CodeType
  <2>2. /\ d \in Codes /\ Len(d) = n /\ DOMAIN d = 1 .. n
        /\ \A x \in DOMAIN m : x # b => d[x] = m[x]
        /\ d[b].succ = {n} /\ Len(d[b].ins) = k - 1
        /\ \A j \in 1 .. k - 1 : d[b].ins[j] = m[b].ins[j]
    BY <1>4 DEF IsSplit, n
  <2>3. n \notin DOMAIN m /\ DOMAIN d = DOMAIN m \cup {n}
    <3> DEFINE L == Len(m)
    <3>1. DOMAIN d = 1 .. n /\ n = L + 1 /\ L \in Nat /\ DOMAIN m = 1 .. L
      BY <2>1, <2>2 DEF n
    <3> HIDE DEF L
    <3>2. \A x : x \in 1 .. n <=> x \in 1 .. L \/ x = n
      BY <3>1
    <3>3. n \notin 1 .. L
      BY <3>1
    <3> QED BY <3>1, <3>2, <3>3
  <2> QED BY <2>2, <2>3
<1>13. Preds(d, n) = {b}
  BY <1>1, <1>4, <1>7, SplitPreds DEF n
<1>14. OnlyNext(d, b, n)
  BY <1>12, <1>13 DEF OnlyNext
<1>15. starts \subseteq DOMAIN m /\ e \notin starts /\ n \notin starts
  <2>1. Starts(as) \subseteq DOMAIN c
    BY DEF FoundRight, Found, Starts
  <2> QED BY <1>6, <1>12, <2>1 DEF starts
<1>16. Nested(d, ids) /\ Pending(source, d, id)
  BY <1>4 DEF FoundRight
<1>17. \E x \in DOMAIN d \ starts : Preds(d, bb) = {x} /\ d[x].ins = <<>>
  <2>1. Preds(d, bb) = {e}
    <3>1. SplitPred(m, d, b, n, bb)
      BY <1>1, <1>4, <1>7, <1>8, SplitPreds DEF n
    <3> QED BY <1>6, <1>11, <3>1 DEF SplitPred
  <2>2. e \in DOMAIN d /\ d[e].ins = <<>>
    BY <1>6, <1>11, <1>12
  <2> QED BY <1>15, <2>1, <2>2
<1>18. OpenedIn(d, bb, ids \ {id})
  <2> SUFFICES ASSUME NEW x \in ids \ {id}, NEW l \in DOMAIN d[bb].ins, Closes(d, bb, l, x)
               PROVE  \E j \in DOMAIN d[bb].ins : j < l /\ Opens(d, bb, j, x)
    BY DEF OpenedIn
  <2>1. bb \in DOMAIN d /\ bb # n
    BY <1>8, <1>12
  <2>2. DOMAIN d[bb].ins = 1 .. Len(d[bb].ins) /\ Len(d[bb].ins) \in Nat
    BY <1>12, <2>1, CodeType
  <2>3. 1 \in DOMAIN d[bb].ins
    BY <2>2
  <2>4. Opens(d, bb, 1, id)
    BY <1>10, <1>12, <2>1, <2>3, OpensAlone
  <2>5. l # 1
    BY <2>4 DEF Opens, Closes
  <2>6. 1 < l
    BY <2>2, <2>5
  <2>7. PICK i \in 1 + 1 .. l - 1 : Closes(d, bb, i, id) \/ Opens(d, bb, i, x)
    BY <1>16, <2>1, <2>3, <2>4, <2>6 DEF Nested
  <2>8. i \in DOMAIN d[bb].ins /\ i < l
    BY <2>2, <2>7
  <2>9. ~Closes(d, bb, i, id)
    <3>1. d \in Codes
      BY <1>12
    <3>2. Closes(d, bb, i, id) => bb = n
      BY <1>5, <2>1, <2>8, <3>1, ClosesAlone
    <3> QED BY <2>1, <3>2
  <2> QED BY <2>7, <2>8, <2>9
<1>19. ClosedIn(d, b, ids \ {id})
  <2> SUFFICES ASSUME NEW x \in ids \ {id}, NEW j \in DOMAIN d[b].ins, Opens(d, b, j, x)
               PROVE  \E l \in DOMAIN d[b].ins : j < l /\ Closes(d, b, l, x)
    BY DEF ClosedIn
  <2>1. DOMAIN d[b].ins = 1 .. k - 1
    BY <1>7, <1>12, CodeType
  <2>2. \A l \in 1 .. k - 1 : l \in DOMAIN m[b].ins /\ l < k
    BY <1>7, <1>9
  <2>3. \A l \in 1 .. k - 1 : \A y : /\ Opens(d, b, l, y) <=> Opens(m, b, l, y)
                                     /\ Closes(d, b, l, y) <=> Closes(m, b, l, y)
    BY <1>12 DEF Opens, Closes
  <2>4. Opens(m, b, j, x) /\ j \in DOMAIN m[b].ins /\ j < k
    BY <2>1, <2>2, <2>3
  <2>5. Closes(m, b, k, id) /\ k \in DOMAIN m[b].ins
    BY <1>7, <1>9 DEF HasCall, Closes
  <2>6. PICK l \in j + 1 .. k - 1 : Closes(m, b, l, x) \/ Opens(m, b, l, id)
    BY <1>1, <1>7, <2>4, <2>5 DEF Nested
  <2>7. l \in 1 .. k - 1 /\ j < l /\ 1 < l
    BY <1>7, <1>9, <2>1, <2>6
  <2>8. ~Opens(m, b, l, id)
    <3>1. l \in DOMAIN m[b].ins /\ l # 1
      BY <2>2, <2>7
    <3> QED BY <1>1, <1>6, <1>7, <3>1, OpensAlone
  <2> QED BY <2>1, <2>3, <2>6, <2>7, <2>8
<1>20. b \notin starts \ {bb}
  <2> SUFFICES ASSUME b \in Starts(as), b # bb PROVE FALSE
    BY DEF starts
  <2>1. OpenedIn(m, b, ids)
    BY DEF FoundRight, Found, Starts
  <2>2. Closes(m, b, k, id) /\ k \in DOMAIN m[b].ins
    BY <1>7, <1>9 DEF HasCall, Closes
  <2>3. PICK j \in DOMAIN m[b].ins : Opens(m, b, j, id)
    BY <2>1, <2>2 DEF OpenedIn
  <2> QED BY <1>1, <1>6, <1>7, <2>3, OpensAlone
<1>21. /\ Data(Between(d, bb, b)) = Data(Inside(d, id))
       /\ End(d, b) \in Reach(d, <<bb, 1>>, {End(d, b)})
  BY <1>5, <1>10, <1>12, <1>14, <1>16, InsideIsBetween
<1>22. Data(Inside(d, id)) = Data(Inside(source, id))
  BY <1>16 DEF Pending
<1>23. LastBlock(d, ids \ {id}, starts, bb, n, Data(Inside(source, id)), b)
  BY <1>7, <1>12, <1>13, <1>19, <1>20, <1>21, <1>22 DEF LastBlock
<1>24. Found(d, ids \ {id}, starts, bb, n, Data(Inside(source, id)))
  BY <1>7, <1>8, <1>12, <1>15, <1>17, <1>18, <1>23 DEF Found
<1>25. HasClosed(m, d, id, bb)
  BY <1>5, <1>10, <1>12 DEF HasClosed
<1> QED BY <1>4, <1>12, <1>24, <1>25 DEF starts

LEMMA OthersAreFound ==
  ASSUME NEW c, NEW ids, NEW as, FoundRight(source, c, ids, as), NEW id \in ids,
         NEW m, NEW e, NEW bb, HasOpened(c, m, id, e, bb),
         NEW d, FoundRight(source, d, ids, as), HasClosed(m, d, id, bb),
         NEW first, NEW rest, NEW is, Found(c, ids, Starts(as), first, rest, is),
         Found(d, ids, Starts(as), first, rest, is)
  PROVE  Found(d, ids \ {id}, Starts(as) \cup {bb}, first, rest, is) /\ first # bb
<1> DEFINE n == Len(d)
           starts == Starts(as) \cup {bb}
<1>0. /\ n \notin DOMAIN m /\ DOMAIN d = DOMAIN m \cup {n}
      /\ CallAt(d, "register", id, bb, 1) /\ CallAt(d, "close", id, n, 1)
  BY DEF HasClosed
<1> HIDE DEF n
<1>1. d \in Codes
  BY DEF FoundRight
<1>2. DOMAIN m = DOMAIN c \cup {e, bb} /\ bb \notin DOMAIN c
  BY DEF HasOpened
<1>3. first \in DOMAIN c /\ rest \in DOMAIN c
  BY DEF Found
<1>4. first # bb /\ rest # bb
  BY <1>2, <1>3
<1>5. bb \in DOMAIN d /\ 1 \in 1 .. Len(d[bb].ins) /\ bb # n
  <2>1. bb \in DOMAIN d /\ 1 \in 1 .. Len(d[bb].ins)
    BY <1>0, <1>1, CallAtPlace
  <2> QED BY <1>0, <1>2, <2>1
<1>6. Len(d[bb].ins) \in Nat /\ DOMAIN d[bb].ins = 1 .. Len(d[bb].ins)
  BY <1>1, <1>5, CodeType
<1>7. first \in DOMAIN d /\ rest \in DOMAIN d \ Starts(as) /\ OpenedIn(d, first, ids)
  BY DEF Found
<1>8. \E x \in DOMAIN d \ starts : Preds(d, first) = {x} /\ d[x].ins = <<>>
  <2>1. PICK x \in DOMAIN d \ Starts(as) : Preds(d, first) = {x} /\ d[x].ins = <<>>
    BY DEF Found
  <2>2. x # bb
    BY <1>5, <1>6, <2>1
  <2> QED BY <2>1, <2>2
<1>9. OpenedIn(d, first, ids \ {id})
  BY <1>7 DEF OpenedIn
<1>10. PICK p \in DOMAIN d : LastBlock(d, ids, Starts(as), first, rest, is, p)
  BY DEF Found
<1>11. p # bb
  <2> SUFFICES ASSUME p = bb PROVE FALSE
    OBVIOUS
  <2>1. ClosedIn(d, bb, ids)
    BY <1>10 DEF LastBlock
  <2>2. Opens(d, bb, 1, id)
    BY <1>0, <1>1, <1>5, <1>6, OpensAlone
  <2>3. PICK k \in DOMAIN d[bb].ins : Closes(d, bb, k, id)
    BY <1>5, <1>6, <2>1, <2>2 DEF ClosedIn
  <2> QED BY <1>0, <1>1, <1>5, <2>3, ClosesAlone
<1>12. ClosedIn(d, p, ids \ {id})
  BY <1>10 DEF ClosedIn, LastBlock
<1>13. LastBlock(d, ids \ {id}, starts, first, rest, is, p)
  BY <1>10, <1>11, <1>12 DEF LastBlock
<1> QED BY <1>4, <1>7, <1>8, <1>9, <1>10, <1>13 DEF Found

FoundRecords ==
  [id : Nat, bb : Nat, out : Nat, type : {"Complex"}, allSC : {FALSE}, odep : {0}]

ExtendedBy(as, a, new) ==
  /\ \A i \in DOMAIN as : i \in DOMAIN new /\ new[i] = as[i]
  /\ \E k \in DOMAIN new \ DOMAIN as : new[k] = a /\ DOMAIN new = DOMAIN as \cup {k}

LEMMA AppendedTo ==
  ASSUME NEW S, NEW as \in Seq(S), NEW a \in S
  PROVE  Append(as, a) \in Seq(S) /\ ExtendedBy(as, a, Append(as, a))
<1>1. PICK new : new = Append(as, a)
  OBVIOUS
<1>2. /\ new \in Seq(S) /\ Len(new) = Len(as) + 1 /\ new[Len(as) + 1] = a
      /\ \A i \in 1 .. Len(as) : new[i] = as[i]
  BY <1>1, AppendProperties
<1>3. Len(as) \in Nat /\ DOMAIN as = 1 .. Len(as)
  BY LenProperties
<1>4. DOMAIN new = 1 .. Len(new)
  BY <1>2, LenProperties
<1> DEFINE L == Len(as)
           k == L + 1
<1>5. /\ L \in Nat /\ DOMAIN as = 1 .. L /\ DOMAIN new = 1 .. k /\ new[k] = a
      /\ \A i \in 1 .. L : new[i] = as[i]
  BY <1>2, <1>3, <1>4
<1>6. k = L + 1
  OBVIOUS
<1> HIDE DEF L, k
<1>7. \A i : i \in 1 .. k <=> i \in 1 .. L \/ i = k
  BY <1>5, <1>6
<1>8. k \notin 1 .. L
  BY <1>5, <1>6
<1>9. ExtendedBy(as, a, new)
  BY <1>5, <1>7, <1>8 DEF ExtendedBy
<1> QED BY <1>1, <1>2, <1>9

LEMMA NewIsRight ==
  ASSUME NEW c, NEW ids, NEW as \in Seq(FoundRecords), FoundRight(source, c, ids, as), NEW id \in ids,
         NEW m, NEW e, NEW bb, FoundRight(source, m, ids, as), HasOpened(c, m, id, e, bb),
         NEW d, d = SplitBlock(m, "close", id)
  PROVE  /\ FoundRight(source, d, ids \ {id}, Append(as, Action(id, bb, Len(d))))
         /\ HasClosed(m, d, id, bb)
         /\ Append(as, Action(id, bb, Len(d))) \in Seq(FoundRecords)
<1> DEFINE n == Len(d)
           a == Action(id, bb, n)
           new == Append(as, a)
           starts == Starts(as) \cup {bb}
           X(x) == Data(Inside(source, x.id))
<1>1. /\ FoundRight(source, d, ids, as) /\ HasClosed(m, d, id, bb)
      /\ Found(d, ids \ {id}, starts, bb, n, Data(Inside(source, id)))
  BY NewIsFound
<1>2. CallAt(d, "register", id, bb, 1) /\ CallAt(d, "close", id, n, 1)
  BY <1>1 DEF HasClosed
<1>3. a.id = id /\ a.bb = bb /\ a.out = n
  BY DEF Action
<1>4. a \in FoundRecords
  <2>1. d \in Codes
    BY <1>1 DEF FoundRight
  <2>2. bb \in DOMAIN d /\ 1 \in 1 .. Len(d[bb].ins) /\ HasCall(d, bb, 1, "register", id)
    BY <1>2, <2>1, CallAtPlace
  <2>3. bb \in Nat /\ Len(d) \in Nat /\ d[bb].ins[1] \in Instrs
    BY <2>1, <2>2, CodeType
  <2>4. id \in Nat
    BY <2>2, <2>3 DEF HasCall, Instrs
  <2> HIDE DEF n
  <2> QED BY <2>3, <2>4 DEF Action, FoundRecords, n
<1> HIDE DEF a
<1>5. new \in Seq(FoundRecords) /\ ExtendedBy(as, a, new)
  BY <1>4, AppendedTo
<1>6. new = Append(as, a)
  OBVIOUS
<1> HIDE DEF new
<1>7. \A i \in DOMAIN as : i \in DOMAIN new /\ new[i] = as[i]
  BY <1>5 DEF ExtendedBy
<1>8. PICK k \in DOMAIN new : k \notin DOMAIN as /\ new[k] = a /\ DOMAIN new = DOMAIN as \cup {k}
  BY <1>5 DEF ExtendedBy
<1>9. Starts(new) = starts
  <2>1. ASSUME NEW i \in DOMAIN new PROVE new[i].bb \in starts
    <3>1. CASE i \in DOMAIN as
      <4>1. new[i].bb = as[i].bb
        BY <1>7, <3>1
      <4> QED BY <3>1, <4>1 DEF Starts
    <3>2. CASE i = k
      BY <1>3, <1>8, <3>2
    <3> QED BY <1>8, <3>1, <3>2
  <2>2. starts \subseteq Starts(new)
    BY <1>3, <1>7, <1>8 DEF Starts
  <2>3. Starts(new) \subseteq starts
    <3> HIDE DEF starts
    <3> QED BY <2>1 DEF Starts
  <2> QED BY <2>2, <2>3
<1>10. ASSUME NEW i \in DOMAIN as
       PROVE  Found(d, ids \ {id}, starts, as[i].bb, as[i].out, Data(Inside(source, as[i].id))) /\ as[i].bb # bb
  <2> DEFINE first == as[i].bb
             rest == as[i].out
             is == Data(Inside(source, as[i].id))
  <2>1. Found(c, ids, Starts(as), first, rest, is) /\ Found(d, ids, Starts(as), first, rest, is)
    BY <1>1 DEF FoundRight
  <2> HIDE DEF first, rest, is
  <2>2. Found(d, ids \ {id}, starts, first, rest, is) /\ first # bb
    BY <1>1, <2>1, OthersAreFound
  <2> QED BY <2>2 DEF first, rest, is
<1> HIDE DEF starts
<1>11. \A i \in DOMAIN new :
         Found(d, ids \ {id}, starts, new[i].bb, new[i].out, Data(Inside(source, new[i].id)))
  <2> TAKE i \in DOMAIN new
  <2>1. CASE i \in DOMAIN as
    BY <1>7, <1>10, <2>1
  <2>2. CASE i = k
    BY <1>1, <1>3, <1>8, <2>2
  <2> QED BY <1>8, <2>1, <2>2
<1>12. \A i, j \in DOMAIN new : new[i].bb = new[j].bb => i = j
  <2>1. \A i, j \in DOMAIN as : as[i].bb = as[j].bb => i = j
    BY DEF FoundRight
  <2>2. \A i \in DOMAIN as : new[i].bb = as[i].bb /\ new[i].bb # bb
    BY <1>7, <1>10
  <2>3. new[k].bb = bb
    BY <1>3, <1>8
  <2> QED BY <1>8, <2>1, <2>2, <2>3
<1>13. d \in Codes /\ Nested(d, ids \ {id}) /\ \A x \in ids \ {id} : Pending(source, d, x)
  BY <1>1 DEF FoundRight, Nested
<1>14. FoundRight(source, d, ids \ {id}, new)
  BY <1>9, <1>11, <1>12, <1>13 DEF FoundRight
<1> QED BY <1>1, <1>5, <1>6, <1>14 DEF a

LEMMA DeleteFirst ==
  ASSUME NEW c, NEW ids, NEW as, FoundRight(source, c, ids, as),
         NEW op \in {"register", "close"}, NEW id, id \notin ids, NEW b, CallAt(c, op, id, b, 1)
  PROVE  /\ FoundRight(source, DeleteCall(c, op, id), ids, as)
         /\ \A q \in {"register", "close"} : \A x :
              CallAt(c, q, id, x, 1) /\ x # b => CallAt(DeleteCall(c, op, id), q, id, x, 1)
<1>1. c \in Codes
  BY DEF FoundRight
<1>2. b \in DOMAIN c /\ 1 \in 1 .. Len(c[b].ins) /\ HasCall(c, b, 1, op, id)
  BY <1>1, CallAtPlace
<1>3. PICK d : d = [c EXCEPT ![b].ins = RemoveAt(@, 1)]
  OBVIOUS
<1>4. DeleteCall(c, op, id) = d
  <2> DEFINE p == <<b, 1>>
  <2>1. TheCall(c, op, id) = p
    BY CallAtIs
  <2>2. p[1] = b /\ p[2] = 1
    OBVIOUS
  <2> HIDE DEF p
  <2> QED BY <1>3, <2>1, <2>2 DEF DeleteCall
<1>5. IsTail(d, c, b)
  BY <1>1, <1>2, <1>3, DeleteType
<1>6. At(c, <<b, 1>>).op = op /\ At(c, <<b, 1>>).id = id
  BY <1>2 DEF HasCall, At
<1>7. At(c, <<b, 1>>).op \in {"register", "close"} /\ At(c, <<b, 1>>).id \notin ids
  BY <1>6
<1>8. FoundRight(source, d, ids, as)
  <2>1. ids \in SUBSET ids
    OBVIOUS
  <2> QED BY <1>2, <1>5, <1>7, <2>1, DeleteKeepsRight
<1>9. ASSUME NEW q \in {"register", "close"}, NEW x, CallAt(c, q, id, x, 1), x # b
      PROVE  CallAt(d, q, id, x, 1)
  <2> DEFINE cut == <<b, 1>>
             p == <<x, 1>>
             g == DeleteFrom(c, b, d)
             H == DeleteTo(c, b)
  <2>1. Contracts(c, d, cut, g, H)
    BY <1>1, <1>2, <1>5, <1>7, DeleteContracts
  <2>2. Calls(c, q, id) = {p} /\ cut # p
    BY <1>9 DEF CallAt
  <2>3. H[p] = p
    <3>1. <<x, 1>> \in Places(c)
      BY <1>1, <1>9, CallAtPlace
    <3> QED BY <3>1 DEF DeleteTo
  <2>4. d \in Codes
    BY <1>5 DEF IsTail
  <2> HIDE DEF cut, p, g, H
  <2>5. cut \notin Calls(c, q, id)
    BY <2>2
  <2>6. Calls(d, q, id) = {H[p]}
    BY <1>1, <2>1, <2>2, <2>4, <2>5, CallsContract
  <2> QED BY <2>3, <2>6 DEF CallAt, p
<1> QED BY <1>4, <1>8, <1>9

(* A turn of the loop.                                                     *)
LEMMA SplitOffRight ==
  ASSUME NEW ids, acts \in Seq(FoundRecords), FoundRight(source, code, ids, acts), NEW id \in ids, SplitOff(id)
  PROVE  /\ FoundRight(source, code', ids \ {id}, acts') /\ acts' \in Seq(FoundRecords)
<1> DEFINE start == SplitBlock(code, "register", id)
           main == SplitBlock(start, "register", id)
           end == SplitBlock(main, "close", id)
           cut == DeleteCall(end, "register", id)
           some == ids \ {id}
           bb == Len(main)
           a == Action(id, bb, Len(end))
           new == Append(acts, a)
<1>1. code' = DeleteCall(cut, "close", id) /\ acts' = new
  BY DEF SplitOff
<1> HIDE DEF start, main, end, cut, a, new, some, bb
<1>2. FoundRight(source, main, ids, acts) /\ HasOpened(code, main, id, Len(start), bb)
  BY OpenedAtFirst DEF main, start, bb
<1>3. FoundRight(source, end, some, new) /\ HasClosed(main, end, id, bb) /\ new \in Seq(FoundRecords)
  <2>1. /\ FoundRight(source, end, ids \ {id}, Append(acts, Action(id, bb, Len(end))))
        /\ HasClosed(main, end, id, bb)
        /\ Append(acts, Action(id, bb, Len(end))) \in Seq(FoundRecords)
    BY <1>2, NewIsRight DEF end
  <2> QED BY <2>1 DEF new, a, some
<1> DEFINE n == Len(end)
<1>4. /\ CallAt(end, "register", id, bb, 1) /\ CallAt(end, "close", id, n, 1)
      /\ n \notin DOMAIN main
  BY <1>3 DEF HasClosed
<1>5. bb # n
  BY <1>2, <1>4 DEF HasOpened
<1> HIDE DEF n
<1>6. id \notin some
  BY DEF some
<1>7. FoundRight(source, cut, some, new) /\ CallAt(cut, "close", id, n, 1)
  BY <1>3, <1>4, <1>5, <1>6, DeleteFirst DEF cut
<1>8. FoundRight(source, DeleteCall(cut, "close", id), some, new)
  BY <1>6, <1>7, DeleteFirst
<1> QED BY <1>1, <1>3, <1>8 DEF some

(* When all are found: an action has its blocks for itself, and what they  *)
(* do is what is between its calls, but for transfers that were replaced.  *)
Accessing(S) == {i \in S : i.op \in Accesses}
SameData(S, X) ==
  /\ DataOf(S) = DataOf(X) /\ Accessing(S) = Accessing(X)
  /\ \A i \in S : i.op \in {"take", "give"} => i \in X

OwnsBlocks(c, starts, bb, out) ==
  /\ bb \in DOMAIN c /\ out \in DOMAIN c \ (starts \ {bb})
  /\ \E e \in DOMAIN c \ starts : Preds(c, bb) = {e}
  /\ \E q \in DOMAIN c \ starts : c[out].succ = {q}

Owns(c, starts, bb, out, X) ==
  /\ OwnsBlocks(c, starts, bb, out)
  /\ End(c, out) \in Reach(c, <<bb, 1>>, {End(c, out)})
  /\ SameData(Between(c, bb, out), X)

AllOwn(src, c, as) ==
  /\ c \in Codes
  /\ \A n \in DOMAIN as : Owns(c, Starts(as), as[n].bb, as[n].out, Inside(src, as[n].id))
  /\ \A m, n \in DOMAIN as : as[m].bb = as[n].bb => m = n

LEMMA DataAreSame ==
  ASSUME NEW S, NEW X, Data(S) = Data(X)
  PROVE  SameData(S, X)
<1>1. \A Y : DataOf(Y) = {i.id : i \in Data(Y)}
  BY DEF DataOf, Data
<1>2. \A Y : Accessing(Y) = {i \in Data(Y) : i.op \in Accesses}
  BY DEF Accessing, Accesses, Data
<1>3. \A i \in S : i.op \in {"take", "give"} => i \in Data(S)
  BY DEF Data
<1>4. Data(X) \subseteq X
  BY DEF Data
<1> QED BY <1>1, <1>2, <1>3, <1>4 DEF SameData

LEMMA SinglePredOf ==
  ASSUME NEW c, NEW b, NEW p, Preds(c, b) = {p}
  PROVE  SinglePred(c, b) = p
<1>1. Cardinality({p}) = 1
  BY FS_Singleton
<1> QED BY <1>1 DEF SinglePred

LEMMA FoundOwns ==
  ASSUME NEW c \in Codes, NEW starts, NEW bb, NEW rest, NEW X, Found(c, {}, starts, bb, rest, Data(X))
  PROVE  Owns(c, starts, bb, SinglePred(c, rest), X)
<1>1. PICK p \in DOMAIN c : LastBlock(c, {}, starts, bb, rest, Data(X), p)
  BY DEF Found
<1>2. /\ p \notin starts \ {bb} /\ Preds(c, rest) = {p} /\ c[p].succ = {rest}
      /\ Data(Between(c, bb, p)) = Data(X)
      /\ End(c, p) \in Reach(c, <<bb, 1>>, {End(c, p)})
  BY <1>1 DEF LastBlock
<1>3. SinglePred(c, rest) = p
  BY <1>2, SinglePredOf
<1>4. OwnsBlocks(c, starts, bb, p)
  <2>1. \E e \in DOMAIN c \ starts : Preds(c, bb) = {e}
    BY DEF Found
  <2>2. bb \in DOMAIN c /\ rest \in DOMAIN c \ starts
    BY DEF Found
  <2> QED BY <1>1, <1>2, <2>1, <2>2 DEF OwnsBlocks
<1>5. SameData(Between(c, bb, p), X)
  BY <1>2, DataAreSame
<1> QED BY <1>2, <1>3, <1>4, <1>5 DEF Owns

FreshRecords(c) ==
  [id : Nat, bb : Nat, out : DOMAIN c, type : {"Complex"}, allSC : {FALSE}, odep : {0}]

LEMMA FixOutOwns ==
  ASSUME acts \in Seq(FoundRecords), FoundRight(source, code, {}, acts), FixOut
  PROVE  /\ AllOwn(source, code, acts') /\ DOMAIN acts' = DOMAIN acts
         /\ \A n \in DOMAIN acts : acts'[n] \in FreshRecords(code)
<1>1. code \in Codes
  BY DEF FoundRight
<1>2. acts' = [n \in DOMAIN acts |-> [acts[n] EXCEPT !.out = SinglePred(code, @)]]
  BY DEF FixOut
<1>3. DOMAIN acts' = DOMAIN acts
  BY <1>2
<1>4. ASSUME NEW n \in DOMAIN acts
      PROVE  /\ acts'[n].id = acts[n].id /\ acts'[n].bb = acts[n].bb
             /\ acts'[n].out = SinglePred(code, acts[n].out)
             /\ (SinglePred(code, acts[n].out) \in DOMAIN code => acts'[n] \in FreshRecords(code))
  <2>1. acts[n] \in FoundRecords
    BY <1>4
  <2>2. acts'[n] = [acts[n] EXCEPT !.out = SinglePred(code, acts[n].out)]
    BY <1>2, <1>4
  <2> QED BY <2>1, <2>2 DEF FoundRecords, FreshRecords
<1>5. Starts(acts') = Starts(acts)
  BY <1>3, <1>4 DEF Starts
<1>6. ASSUME NEW n \in DOMAIN acts
      PROVE  Owns(code, Starts(acts), acts'[n].bb, acts'[n].out, Inside(source, acts'[n].id))
  <2> DEFINE bb == acts[n].bb
             rest == acts[n].out
             X == Inside(source, acts[n].id)
             starts == Starts(acts)
  <2>1. Found(code, {}, starts, bb, rest, Data(X))
    BY <1>6 DEF FoundRight
  <2> HIDE DEF bb, rest, X, starts
  <2>2. Owns(code, starts, bb, SinglePred(code, rest), X)
    BY <1>1, <2>1, FoundOwns
  <2> QED BY <1>4, <1>6, <2>2 DEF bb, rest, X, starts
<1>7. \A n \in DOMAIN acts : acts'[n].out \in DOMAIN code
  BY <1>6 DEF Owns, OwnsBlocks
<1>8. \A m, n \in DOMAIN acts' : acts'[m].bb = acts'[n].bb => m = n
  BY <1>3, <1>4 DEF FoundRight
<1>9. AllOwn(source, code, acts')
  BY <1>1, <1>3, <1>5, <1>6, <1>8 DEF AllOwn
<1> QED BY <1>3, <1>4, <1>7, <1>9

(* A call of a transfer is replaced in the block b at k: nothing is at     *)
(* another place than it was.                                              *)
IsRelabelled(d, c, b, k) ==
  /\ d \in Codes /\ DOMAIN d = DOMAIN c
  /\ \A x \in DOMAIN c : d[x].succ = c[x].succ /\ Len(d[x].ins) = Len(c[x].ins)
  /\ \A x \in DOMAIN c : \A j \in 1 .. Len(c[x].ins) :
       IF x = b /\ j = k THEN d[x].ins[j] = [c[x].ins[j] EXCEPT !.op = "other"]
                         ELSE d[x].ins[j] = c[x].ins[j]

(* A sequence with another element in the place of one.                    *)
LEMMA RowReplaced ==
  ASSUME NEW R, NEW c \in Seq(R), NEW b \in DOMAIN c, NEW row \in R, NEW d, d = [c EXCEPT ![b] = row]
  PROVE  /\ d \in Seq(R) /\ Len(d) = Len(c) /\ DOMAIN d = DOMAIN c /\ d[b] = row
         /\ \A x \in DOMAIN c : x # b => d[x] = c[x]
  OBVIOUS

OpReplaced(c, b, k) == [c EXCEPT ![b].ins[k].op = "other"]

LEMMA RelabelType ==
  ASSUME NEW c \in Codes, NEW b \in DOMAIN c, NEW k \in 1 .. Len(c[b].ins),
         NEW d, d = OpReplaced(c, b, k)
  PROVE  IsRelabelled(d, c, b, k)
<1> DEFINE R == [ins : Seq(Instrs), succ : SUBSET Nat]
           ins == c[b].ins
           i == [ins[k] EXCEPT !.op = "other"]
           new == [ins EXCEPT ![k] = i]
           row == [ins |-> new, succ |-> c[b].succ]
<1>1. /\ c \in Seq(R) /\ Len(c) \in Nat /\ DOMAIN c = 1 .. Len(c) /\ c[b] \in R
      /\ ins \in Seq(Instrs) /\ Len(ins) \in Nat /\ k \in 1 .. Len(ins)
      /\ \A x \in DOMAIN c : c[x].succ \subseteq DOMAIN c
  BY CodeType DEF Codes
<1>2. i \in Instrs
  <2>1. ins[k] \in Instrs
    BY <1>1
  <2> HIDE DEF ins
  <2> QED BY <2>1 DEF Instrs, Ops
<1> HIDE DEF i
<1>3. /\ new \in Seq(Instrs) /\ Len(new) = Len(ins) /\ new[k] = i
      /\ \A j \in 1 .. Len(ins) : j # k => new[j] = ins[j]
  <2> HIDE DEF ins
  <2> QED BY <1>1, <1>2
<1>4. d = [c EXCEPT ![b] = row]
  <2>1. [c[b] EXCEPT !.ins = new] = row
    <3> HIDE DEF new
    <3> QED BY <1>1
  <2>2. d = [c EXCEPT ![b] = [c[b] EXCEPT !.ins = new]]
    BY DEF i, OpReplaced
  <2> HIDE DEF row, new
  <2> QED BY <2>1, <2>2
<1>5. row \in R
  <2>1. c[b].succ \in SUBSET Nat
    BY <1>1
  <2> HIDE DEF ins, new
  <2> QED BY <1>3, <2>1
<1>6. row.ins = new /\ row.succ = c[b].succ
  OBVIOUS
<1> HIDE DEF new, row, R
<1>7. /\ d \in Seq(R) /\ Len(d) = Len(c) /\ DOMAIN d = DOMAIN c /\ d[b] = row
      /\ \A x \in DOMAIN c : x # b => d[x] = c[x]
  <2> HIDE DEF ins
  <2> QED BY <1>1, <1>4, <1>5, RowReplaced
<1>8. d \in Codes
  BY <1>1, <1>6, <1>7 DEF Codes, R
<1>9. \A x \in DOMAIN c : d[x].succ = c[x].succ /\ Len(d[x].ins) = Len(c[x].ins)
  BY <1>3, <1>6, <1>7
<1>10. ASSUME NEW x \in DOMAIN c, NEW j \in 1 .. Len(c[x].ins)
       PROVE  IF x = b /\ j = k THEN d[x].ins[j] = [c[x].ins[j] EXCEPT !.op = "other"]
                                ELSE d[x].ins[j] = c[x].ins[j]
  <2>1. CASE x = b /\ j = k
    <3>1. d[x].ins[j] = i
      BY <1>3, <1>6, <1>7, <2>1
    <3> QED BY <2>1, <3>1 DEF i
  <2>2. CASE x = b /\ j # k
    <3>1. d[x].ins[j] = ins[j]
      BY <1>3, <1>6, <1>7, <1>10, <2>2
    <3> QED BY <2>2, <3>1
  <2>3. CASE x # b
    BY <1>7, <2>3
  <2> QED BY <2>1, <2>2, <2>3
<1> QED BY <1>7, <1>8, <1>9, <1>10 DEF IsRelabelled

LEMMA RelabelPlaces ==
  ASSUME NEW c \in Codes, NEW b, NEW k, NEW d, IsRelabelled(d, c, b, k)
  PROVE  /\ Places(d) = Places(c) /\ Sites(d) = Sites(c)
         /\ \A p \in Places(c) : Onward(d, p) = Onward(c, p)
         /\ \A x : Preds(d, x) = Preds(c, x)
         /\ \A x \in DOMAIN c : End(d, x) = End(c, x)
<1>1. /\ d \in Codes /\ DOMAIN d = DOMAIN c
      /\ \A x \in DOMAIN c : d[x].succ = c[x].succ /\ Len(d[x].ins) = Len(c[x].ins)
  BY DEF IsRelabelled
<1>2. /\ \A x, j : <<x, j>> \in Places(c) <=> x \in DOMAIN c /\ j \in 1 .. Len(c[x].ins) + 1
      /\ \A x, j : <<x, j>> \in Sites(c) <=> x \in DOMAIN c /\ j \in 1 .. Len(c[x].ins)
      /\ \A p \in Places(c) : p = <<p[1], p[2]>> /\ p[1] \in DOMAIN c
      /\ Sites(c) \subseteq Places(c)
  BY PlaceType
<1>3. /\ \A x, j : <<x, j>> \in Places(d) <=> x \in DOMAIN d /\ j \in 1 .. Len(d[x].ins) + 1
      /\ \A x, j : <<x, j>> \in Sites(d) <=> x \in DOMAIN d /\ j \in 1 .. Len(d[x].ins)
      /\ \A p \in Places(d) : p = <<p[1], p[2]>>
      /\ Sites(d) \subseteq Places(d)
  BY <1>1, PlaceType
<1>4. /\ \A x, j : <<x, j>> \in Places(d) <=> <<x, j>> \in Places(c)
      /\ \A x, j : <<x, j>> \in Sites(d) <=> <<x, j>> \in Sites(c)
  BY <1>1, <1>2, <1>3
<1>5. Places(d) = Places(c) /\ Sites(d) = Sites(c)
  <2> DEFINE P == Places(c)
             Q == Places(d)
             A == Sites(c)
             B == Sites(d)
  <2>1. /\ \A p \in P : p = <<p[1], p[2]>>
        /\ \A p \in Q : p = <<p[1], p[2]>>
        /\ A \subseteq P /\ B \subseteq Q
        /\ \A x, j : <<x, j>> \in Q <=> <<x, j>> \in P
        /\ \A x, j : <<x, j>> \in B <=> <<x, j>> \in A
    BY <1>2, <1>3, <1>4
  <2> HIDE DEF P, Q, A, B
  <2>2. \A p \in P : p \in Q
    BY <2>1
  <2>3. \A p \in Q : p \in P
    BY <2>1
  <2>4. \A p \in A : p \in B
    BY <2>1
  <2>5. \A p \in B : p \in A
    BY <2>1
  <2>6. P = Q /\ A = B
    BY <2>2, <2>3, <2>4, <2>5
  <2> QED BY <2>6 DEF P, Q, A, B
<1>6. \A p \in Places(c) : Onward(d, p) = Onward(c, p)
  BY <1>1, <1>2, <1>5 DEF Onward
<1>7. \A x : Preds(d, x) = Preds(c, x)
  BY <1>1 DEF Preds
<1>8. \A x \in DOMAIN c : End(d, x) = End(c, x)
  BY <1>1 DEF End
<1> QED BY <1>5, <1>6, <1>7, <1>8

LEMMA RelabelAt ==
  ASSUME NEW c \in Codes, NEW b \in DOMAIN c, NEW k \in 1 .. Len(c[b].ins),
         NEW d, IsRelabelled(d, c, b, k)
  PROVE  /\ <<b, k>> \in Sites(c)
         /\ At(d, <<b, k>>) = [At(c, <<b, k>>) EXCEPT !.op = "other"]
         /\ \A p \in Sites(c) : p # <<b, k>> => At(d, p) = At(c, p)
<1>1. \A x \in DOMAIN c : \A j \in 1 .. Len(c[x].ins) :
           IF x = b /\ j = k THEN d[x].ins[j] = [c[x].ins[j] EXCEPT !.op = "other"]
                             ELSE d[x].ins[j] = c[x].ins[j]
  BY DEF IsRelabelled
<1>2. /\ \A x, j : <<x, j>> \in Sites(c) <=> x \in DOMAIN c /\ j \in 1 .. Len(c[x].ins)
      /\ \A p \in Places(c) : p = <<p[1], p[2]>>
      /\ Sites(c) \subseteq Places(c)
  BY PlaceType
<1>3. <<b, k>> \in Sites(c)
  BY <1>2
<1>4. At(d, <<b, k>>) = [At(c, <<b, k>>) EXCEPT !.op = "other"]
  <2>1. d[b].ins[k] = [c[b].ins[k] EXCEPT !.op = "other"]
    BY <1>1
  <2>2. At(d, <<b, k>>) = d[b].ins[k] /\ At(c, <<b, k>>) = c[b].ins[k]
    BY DEF At
  <2> QED BY <2>1, <2>2
<1>5. ASSUME NEW p \in Sites(c), p # <<b, k>>
      PROVE  At(d, p) = At(c, p)
  <2> DEFINE x == p[1]
             j == p[2]
  <2>1. p = <<x, j>>
    BY <1>2
  <2>2. At(d, p) = d[x].ins[j] /\ At(c, p) = c[x].ins[j]
    BY DEF At
  <2> HIDE DEF x, j
  <2>3. x \in DOMAIN c /\ j \in 1 .. Len(c[x].ins)
    BY <1>2, <2>1
  <2>4. ~(x = b /\ j = k)
    BY <1>5, <2>1
  <2> QED BY <1>1, <2>2, <2>3, <2>4
<1> QED BY <1>3, <1>4, <1>5

(* Where one gets depends on where one goes on only.                       *)
LEMMA SameReach ==
  ASSUME NEW c \in Codes, NEW d \in Codes, Places(d) = Places(c),
         \A p \in Places(c) : Onward(d, p) = Onward(c, p),
         NEW from \in Places(c), NEW stops
  PROVE  Reach(d, from, stops) = Reach(c, from, stops)
<1> DEFINE P == Reach(c, from, stops)
           Q == Reach(d, from, stops)
<1>1. /\ P \subseteq Places(c) /\ from \in P
      /\ \A p \in P \ stops : Onward(c, p) \subseteq P
  BY ReachIsLeast
<1>2. \A C \in SUBSET Places(c) :
        from \in C /\ (\A p \in C \ stops : Onward(c, p) \subseteq C) => P \subseteq C
  BY ReachIsLeast
<1>3. /\ Q \subseteq Places(d) /\ from \in Q
      /\ \A p \in Q \ stops : Onward(d, p) \subseteq Q
  BY ReachIsLeast
<1>4. \A C \in SUBSET Places(d) :
        from \in C /\ (\A p \in C \ stops : Onward(d, p) \subseteq C) => Q \subseteq C
  BY ReachIsLeast
<1> HIDE DEF P, Q
<1>5. P \subseteq Q
  <2>1. \A p \in Q \ stops : Onward(c, p) \subseteq Q
    BY <1>3
  <2> QED BY <1>2, <1>3, <2>1
<1>6. Q \subseteq P
  <2>1. \A p \in P \ stops : Onward(d, p) \subseteq P
    BY <1>1
  <2> QED BY <1>1, <1>4, <2>1
<1> QED BY <1>5, <1>6 DEF P, Q

(* So an action still owns its blocks, and what they do is the same.       *)
LEMMA RelabelOwns ==
  ASSUME NEW c \in Codes, NEW b \in DOMAIN c, NEW k \in 1 .. Len(c[b].ins),
         NEW d, IsRelabelled(d, c, b, k), c[b].ins[k].op \in {"take", "give"},
         NEW starts, NEW bb, NEW out, NEW X, Owns(c, starts, bb, out, X)
  PROVE  Owns(d, starts, bb, out, X)
<1> DEFINE cut == <<b, k>>
           R == Reach(c, <<bb, 1>>, {End(c, out)})
           S == Between(c, bb, out)
           T == Between(d, bb, out)
<1>1. /\ d \in Codes /\ DOMAIN d = DOMAIN c
      /\ \A x \in DOMAIN c : d[x].succ = c[x].succ
  BY DEF IsRelabelled
<1>2. /\ Places(d) = Places(c) /\ Sites(d) = Sites(c)
      /\ \A p \in Places(c) : Onward(d, p) = Onward(c, p)
      /\ \A x : Preds(d, x) = Preds(c, x)
      /\ \A x \in DOMAIN c : End(d, x) = End(c, x)
  BY RelabelPlaces
<1>3. /\ cut \in Sites(c) /\ At(d, cut) = [At(c, cut) EXCEPT !.op = "other"]
      /\ \A p \in Sites(c) : p # cut => At(d, p) = At(c, p)
  BY RelabelAt
<1>4. At(c, cut).op \in {"take", "give"} /\ At(c, cut) \in Instrs
  <2>1. c[b].ins[k] \in Instrs
    BY CodeType
  <2> QED BY <2>1 DEF At
<1> HIDE DEF cut
<1>5. bb \in DOMAIN c /\ out \in DOMAIN c /\ <<bb, 1>> \in Places(c)
  <2>1. bb \in DOMAIN c /\ out \in DOMAIN c
    BY DEF Owns, OwnsBlocks
  <2>2. 1 \in 1 .. Len(c[bb].ins) + 1
    BY <2>1, CodeType
  <2> QED BY <2>1, <2>2, PlaceType
<1>6. OwnsBlocks(d, starts, bb, out)
  BY <1>1, <1>2 DEF Owns, OwnsBlocks
<1>7. Reach(d, <<bb, 1>>, {End(d, out)}) = R
  <2>1. End(d, out) = End(c, out)
    BY <1>2, <1>5
  <2> DEFINE from == <<bb, 1>>
             stops == {End(c, out)}
  <2>2. from \in Places(c)
    BY <1>5
  <2> HIDE DEF from, stops
  <2>3. Reach(d, from, stops) = Reach(c, from, stops)
    BY <1>1, <1>2, <2>2, SameReach
  <2> QED BY <2>1, <2>3 DEF from, stops
<1>8. End(d, out) \in Reach(d, <<bb, 1>>, {End(d, out)})
  BY <1>2, <1>5, <1>7 DEF Owns
<1>9. S = {At(c, p) : p \in R \cap Sites(c)} /\ T = {At(d, p) : p \in R \cap Sites(c)}
  BY <1>2, <1>7 DEF Between, InsOf
<1>10. SameData(S, X)
  BY DEF Owns
<1> HIDE DEF R, S, T
<1>11. \A p \in Sites(c) : p # cut => At(d, p) = At(c, p)
  BY <1>3
<1>12. /\ At(d, cut).id = At(c, cut).id /\ At(d, cut).op = "other"
  BY <1>3, <1>4 DEF Instrs
<1>13. \A p \in Sites(c) : /\ At(d, p).id = At(c, p).id
                           /\ At(d, p).op \in {"register", "close"} <=> At(c, p).op \in {"register", "close"}
  BY <1>4, <1>11, <1>12
<1>14. DataOf(T) = DataOf(S)
  <2>1. DataOf(S) = {At(c, p).id : p \in {q \in R \cap Sites(c) : At(c, q).op \notin {"register", "close"}}}
    BY <1>9 DEF DataOf
  <2>2. DataOf(T) = {At(d, p).id : p \in {q \in R \cap Sites(c) : At(d, q).op \notin {"register", "close"}}}
    BY <1>9 DEF DataOf
  <2>3. {q \in R \cap Sites(c) : At(d, q).op \notin {"register", "close"}}
          = {q \in R \cap Sites(c) : At(c, q).op \notin {"register", "close"}}
    BY <1>13
  <2>4. \A p \in R \cap Sites(c) : At(d, p).id = At(c, p).id
    BY <1>13
  <2> QED BY <2>1, <2>2, <2>3, <2>4
<1>15. "other" \notin Accesses /\ "take" \notin Accesses /\ "give" \notin Accesses
  BY DEF Accesses
<1>16. Accessing(T) = Accessing(S)
  <2>1. \A p \in R \cap Sites(c) : At(d, p).op \in Accesses \/ At(c, p).op \in Accesses => At(d, p) = At(c, p)
    BY <1>4, <1>11, <1>12, <1>15
  <2> QED BY <1>9, <2>1 DEF Accessing
<1>17. \A i \in T : i.op \in {"take", "give"} => i \in S
  <2> SUFFICES ASSUME NEW p \in R \cap Sites(c), At(d, p).op \in {"take", "give"} PROVE At(d, p) \in S
    BY <1>9
  <2> QED BY <1>9, <1>11, <1>12
<1>18. SameData(T, X)
  BY <1>10, <1>14, <1>16, <1>17 DEF SameData
<1> QED BY <1>6, <1>8, <1>18 DEF Owns, T

(* From the start of one block to the end of another all of the other is   *)
(* gone through; from the start of a block to its end nothing else is.     *)
LEMMA BlockReached ==
  ASSUME NEW c \in Codes, NEW bb \in DOMAIN c, NEW out \in DOMAIN c,
         End(c, out) \in Reach(c, <<bb, 1>>, {End(c, out)}), NEW k \in 1 .. Len(c[out].ins)
  PROVE  c[out].ins[k] \in Between(c, bb, out)
<1> DEFINE E == End(c, out)
           from == <<bb, 1>>
           R == Reach(c, from, {E})
           C == R \ {<<out, m>> : m \in k .. Len(c[out].ins) + 1}
<1>1. /\ \A x, j : <<x, j>> \in Places(c) <=> x \in DOMAIN c /\ j \in 1 .. Len(c[x].ins) + 1
      /\ \A x, j : <<x, j>> \in Sites(c) <=> x \in DOMAIN c /\ j \in 1 .. Len(c[x].ins)
      /\ \A p \in Places(c) : p = <<p[1], p[2]>> /\ p[1] \in DOMAIN c /\ p[2] \in 1 .. Len(c[p[1]].ins) + 1
      /\ \A x \in DOMAIN c : Len(c[x].ins) \in Nat
  BY PlaceType, CodeType
<1>2. from \in Places(c)
  <2>1. 1 \in 1 .. Len(c[bb].ins) + 1
    BY <1>1
  <2> QED BY <1>1, <2>1
<1>3. /\ R \subseteq Places(c) /\ from \in R
      /\ \A p \in R \ {E} : Onward(c, p) \subseteq R
  <2> HIDE DEF from, E
  <2> QED BY <1>2, ReachIsLeast
<1>4. from \in C /\ (\A p \in C \ {E} : Onward(c, p) \subseteq C) => R \subseteq C
  <2>1. C \in SUBSET Places(c)
    BY <1>3
  <2> HIDE DEF from, E, C
  <2> QED BY <1>2, <2>1, ReachIsLeast
<1>5. E = <<out, Len(c[out].ins) + 1>> /\ E \in R
  BY DEF End
<1> HIDE DEF R, E
<1>6. E \notin C
  BY <1>1, <1>5
<1>7. <<out, k>> \in R
  <2> SUFFICES ASSUME <<out, k>> \notin R PROVE FALSE
    OBVIOUS
  <2>1. from \in C
    <3> SUFFICES ASSUME NEW m \in k .. Len(c[out].ins) + 1, from = <<out, m>> PROVE FALSE
      BY <1>3
    <3>1. out = bb /\ m = 1
      OBVIOUS
    <3>2. k = 1
      BY <3>1
    <3> QED BY <1>3, <3>1, <3>2
  <2>2. ASSUME NEW p \in C \ {E}, NEW q \in Onward(c, p)
        PROVE  q \in C
    <3>1. q \in R
      BY <1>3, <2>2
    <3> SUFFICES ASSUME NEW m \in k .. Len(c[out].ins) + 1, q = <<out, m>> PROVE FALSE
      BY <3>1
    <3>2. CASE p \in Sites(c)
      <4>1. p \in Places(c)
        BY <1>3
      <4>2. q = <<p[1], p[2] + 1>>
        BY <3>2, <2>2 DEF Onward
      <4>3. p[1] = out /\ p[2] + 1 = m /\ p[2] \in Nat
        BY <1>1, <4>1, <4>2
      <4>4. p = <<out, p[2]>>
        BY <1>1, <4>1, <4>3
      <4>5. ~(p[2] \in k .. Len(c[out].ins) + 1)
        BY <4>4
      <4>6. m = k
        BY <1>1, <4>3, <4>5
      <4> QED BY <3>1, <4>6
    <3>3. CASE p \notin Sites(c)
      <4>1. \E x : q = <<x, 1>>
        BY <2>2, <3>3 DEF Onward
      <4>2. m = 1 /\ k = 1
        BY <4>1
      <4> QED BY <3>1, <4>2
    <3> QED BY <3>2, <3>3
  <2> QED BY <1>4, <1>5, <1>6, <2>1, <2>2
<1>8. <<out, k>> \in Sites(c) /\ At(c, <<out, k>>) = c[out].ins[k]
  BY <1>1 DEF At
<1> QED BY <1>7, <1>8 DEF Between, InsOf, R, E

LEMMA BlockAlone ==
  ASSUME NEW c \in Codes, NEW bb \in DOMAIN c, NEW i \in Between(c, bb, bb)
  PROVE  \E k \in 1 .. Len(c[bb].ins) : i = c[bb].ins[k]
<1> DEFINE E == End(c, bb)
           from == <<bb, 1>>
           R == Reach(c, from, {E})
           C == {<<bb, m>> : m \in 1 .. Len(c[bb].ins) + 1}
<1>1. /\ \A x, j : <<x, j>> \in Places(c) <=> x \in DOMAIN c /\ j \in 1 .. Len(c[x].ins) + 1
      /\ \A x, j : <<x, j>> \in Sites(c) <=> x \in DOMAIN c /\ j \in 1 .. Len(c[x].ins)
      /\ \A x \in DOMAIN c : Len(c[x].ins) \in Nat
  BY PlaceType, CodeType
<1>2. 1 \in 1 .. Len(c[bb].ins) + 1
  BY <1>1
<1>3. from \in C /\ C \in SUBSET Places(c)
  BY <1>1, <1>2
<1>4. ASSUME NEW p \in C \ {E}
      PROVE  Onward(c, p) \subseteq C
  <2>1. PICK m \in 1 .. Len(c[bb].ins) + 1 : p = <<bb, m>>
    BY <1>4
  <2>2. m # Len(c[bb].ins) + 1
    BY <1>4, <2>1 DEF End
  <2>3. m \in 1 .. Len(c[bb].ins) /\ m + 1 \in 1 .. Len(c[bb].ins) + 1
    BY <1>1, <2>2
  <2>4. p \in Sites(c)
    BY <1>1, <2>1, <2>3
  <2>5. Onward(c, p) = {<<bb, m + 1>>}
    BY <2>1, <2>4 DEF Onward
  <2> QED BY <2>3, <2>5
<1>5. R \subseteq C
  <2> HIDE DEF from, E, C
  <2> QED BY <1>3, <1>4, ReachIsLeast
<1>6. PICK p \in R \cap Sites(c) : i = At(c, p)
  BY DEF Between, InsOf
<1>7. PICK m \in 1 .. Len(c[bb].ins) + 1 : p = <<bb, m>>
  BY <1>5, <1>6
<1>8. m \in 1 .. Len(c[bb].ins)
  BY <1>1, <1>6, <1>7
<1>9. i = c[bb].ins[m]
  BY <1>6, <1>7 DEF At
<1> QED BY <1>8, <1>9

(* What is said of an action once it is analyzed.                          *)
TypeRight(src, a) ==
  LET does == Accessing(Inside(src, a.id))
  IN /\ a.type = "Nop" => does = {}
     /\ a.type = "SimpleWrites" => does # {} /\ \A i \in does : i.op = "store"
     /\ a.type = "SimpleRead" => \E i \in does : does = {i} /\ i.op = "load" /\ a.odep = i.id
     /\ a.type = "SimpleRMW" => \E i \in does : does = {i} /\ i.op = "rmw" /\ a.odep = i.id
     /\ a.type \in {"Take", "Give"} => \E i \in Inside(src, a.id) : i.op \in {"take", "give"}
     /\ a.allSC => \A i \in does : i.sc

SamePlace(b, a) == b.id = a.id /\ b.bb = a.bb /\ b.out = a.out

LEMMA FirstTransferIs ==
  ASSUME code \in Codes, NEW a, a.out \in DOMAIN code, TransferOf(a) # {}
  PROVE  /\ FirstTransfer(a) \in 1 .. Len(Body(a))
         /\ Body(a)[FirstTransfer(a)].op \in {"take", "give"}
<1> DEFINE T == TransferOf(a)
           P(k) == k \in T /\ \A m \in T : k <= m
<1>1. DOMAIN Body(a) = 1 .. Len(Body(a)) /\ Len(Body(a)) \in Nat
  BY CodeType DEF Body
<1>2. \A k \in T : k \in 1 .. Len(Body(a)) /\ Body(a)[k].op \in {"take", "give"}
  BY <1>1 DEF TransferOf, With
<1>3. T \in SUBSET Nat
  BY <1>1, <1>2
<1>4. T # {}
  OBVIOUS
<1> HIDE DEF T
<1>5. \E k \in T : \A m \in T : k <= m
  BY <1>3, <1>4, LeastNatural
<1>6. FirstTransfer(a) \in T
  <2>1. FirstTransfer(a) = CHOOSE k \in T : \A m \in T : k <= m
    BY DEF FirstTransfer, T
  <2> QED BY <1>5, <2>1
<1> QED BY <1>2, <1>6

LEMMA TransferredRight ==
  ASSUME code \in Codes, NEW a \in FreshRecords(code), NEW starts, NEW src,
         Owns(code, starts, a.bb, a.out, Inside(src, a.id)), TransferOf(a) # {}
  PROVE  TypeRight(src, Transferred(a)) /\ SamePlace(Transferred(a), a)
<1> DEFINE k == FirstTransfer(a)
           call == Body(a)[k]
           X == Inside(src, a.id)
           new == Transferred(a)
<1>1. a.bb \in DOMAIN code /\ a.out \in DOMAIN code
  BY DEF Owns, OwnsBlocks
<1>2. k \in 1 .. Len(code[a.out].ins) /\ call.op \in {"take", "give"}
  BY <1>1, FirstTransferIs DEF Body
<1>3. call \in Between(code, a.bb, a.out)
  <2>1. End(code, a.out) \in Reach(code, <<a.bb, 1>>, {End(code, a.out)})
    BY DEF Owns
  <2> HIDE DEF k
  <2> QED BY <1>1, <1>2, <2>1, BlockReached DEF Body
<1>4. call \in X
  BY <1>2, <1>3 DEF Owns, SameData
<1>5. /\ new.id = a.id /\ new.bb = a.bb /\ new.out = a.out /\ new.type \in {"Take", "Give"}
      /\ new.allSC = FALSE
  <2>1. /\ new = [a EXCEPT !.type = "Take", !.odep = call.id]
        \/ new = [a EXCEPT !.type = "Give"]
    BY DEF Transferred
  <2> HIDE DEF call, new
  <2> QED BY <2>1 DEF FreshRecords
<1> HIDE DEF call, X, new
<1>6. \E i \in X : i.op \in {"take", "give"}
  BY <1>2, <1>4
<1>7. TypeRight(src, new)
  BY <1>5, <1>6 DEF TypeRight, X
<1> QED BY <1>5, <1>7 DEF SamePlace, new

(* What the out block of an action of one block does is all that it does.  *)
LEMMA AccessesOfBody ==
  ASSUME code \in Codes, NEW a, NEW starts, NEW X,
         Owns(code, starts, a.bb, a.out, X), a.out = a.bb
  PROVE  /\ \A k \in With(a, Accesses) : Body(a)[k] \in Accessing(X)
         /\ Accessing(X) \subseteq {Body(a)[k] : k \in With(a, Accesses)}
<1>1. a.bb \in DOMAIN code
  BY DEF Owns, OwnsBlocks
<1>2. Accessing(Between(code, a.bb, a.bb)) = Accessing(X)
  BY DEF Owns, SameData
<1>3. DOMAIN Body(a) = 1 .. Len(code[a.bb].ins)
  BY <1>1, CodeType DEF Body
<1>4. ASSUME NEW k \in With(a, Accesses)
      PROVE  Body(a)[k] \in Accessing(X)
  <2>1. k \in 1 .. Len(code[a.bb].ins) /\ Body(a)[k].op \in Accesses
    BY <1>3, <1>4 DEF With
  <2>2. End(code, a.bb) \in Reach(code, <<a.bb, 1>>, {End(code, a.bb)})
    BY DEF Owns
  <2>3. code[a.bb].ins[k] \in Between(code, a.bb, a.bb)
    BY <1>1, <2>1, <2>2, BlockReached
  <2>4. Body(a)[k] \in Accessing(Between(code, a.bb, a.bb))
    BY <2>1, <2>3 DEF Accessing, Body
  <2> QED BY <1>2, <2>4
<1>5. ASSUME NEW i \in Accessing(X)
      PROVE  \E k \in With(a, Accesses) : i = Body(a)[k]
  <2>1. i \in Between(code, a.bb, a.bb) /\ i.op \in Accesses
    BY <1>2, <1>5 DEF Accessing
  <2>2. PICK k \in 1 .. Len(code[a.bb].ins) : i = code[a.bb].ins[k]
    BY <1>1, <2>1, BlockAlone
  <2> QED BY <1>3, <2>1, <2>2 DEF With, Body
<1> QED BY <1>4, <1>5

LEMMA SoleLoadIs ==
  ASSUME code \in Codes, NEW a, a.out \in DOMAIN code, NEW op \in {"load", "rmw"}, One(a, op)
  PROVE  \E k \in With(a, Accesses) : /\ With(a, Accesses) = {k} /\ Body(a)[k].op = op
                                      /\ SoleLoad(a) = Body(a)[k].id
<1>1. Only(a, {op}) /\ Cardinality(With(a, {op})) = 1
  BY DEF One
<1>2. op \in Accesses
  BY DEF Accesses
<1>3. With(a, Accesses) = With(a, {op}) /\ With(a, {"load", "rmw"}) = With(a, {op})
  BY <1>1, <1>2 DEF Only, With, Accesses
<1>4. PICK k : With(a, {op}) = {k}
  <2> DEFINE W == With(a, {op})
  <2>1. IsFiniteSet(W)
    <3>1. DOMAIN Body(a) = 1 .. Len(Body(a)) /\ Len(Body(a)) \in Nat
      BY CodeType DEF Body
    <3>2. W \subseteq 1 .. Len(Body(a))
      BY <3>1 DEF With
    <3>3. IsFiniteSet(1 .. Len(Body(a)))
      <4>1. 1 \in Int /\ Len(Body(a)) \in Int
        BY <3>1
      <4> QED BY <4>1, FS_Interval
    <3> HIDE DEF W
    <3> QED BY <3>2, <3>3, FS_Subset
  <2>2. \E x : W = {x}
    <3>1. Cardinality(W) = 1
      BY <1>1
    <3> HIDE DEF W
    <3> QED BY <2>1, <3>1, FS_Singleton
  <2> QED BY <2>2
<1>5. SoleLoad(a) = Body(a)[k].id
  <2>1. (CHOOSE x \in {k} : TRUE) = k
    OBVIOUS
  <2> QED BY <1>3, <1>4, <2>1 DEF SoleLoad
<1>6. Body(a)[k].op = op
  BY <1>4 DEF With
<1> QED BY <1>3, <1>4, <1>5, <1>6


LEMMA TypeOfBlockRight ==
  ASSUME code \in Codes, NEW a, NEW starts, NEW X,
         Owns(code, starts, a.bb, a.out, X), a.out = a.bb
  PROVE  LET does == Accessing(X) IN
         /\ TypeOfBlock(a) \in {"SimpleRead", "SimpleWrites", "SimpleRMW", "Nop", "Complex"}
         /\ TypeOfBlock(a) = "Nop" => does = {}
         /\ TypeOfBlock(a) = "SimpleWrites" => does # {} /\ \A i \in does : i.op = "store"
         /\ TypeOfBlock(a) = "SimpleRead" =>
              \E i \in does : does = {i} /\ i.op = "load" /\ SoleLoad(a) = i.id
         /\ TypeOfBlock(a) = "SimpleRMW" =>
              \E i \in does : does = {i} /\ i.op = "rmw" /\ SoleLoad(a) = i.id
         /\ AllSC(a) => \A i \in does : i.sc
<1> DEFINE does == Accessing(X)
           t == TypeOfBlock(a)
<1>1. a.out \in DOMAIN code
  BY DEF Owns, OwnsBlocks
<1>2. /\ \A k \in With(a, Accesses) : Body(a)[k] \in does
      /\ \A i \in does : \E k \in With(a, Accesses) : i = Body(a)[k]
  <2>1. \A k \in With(a, Accesses) : Body(a)[k] \in Accessing(X)
    BY AccessesOfBody
  <2>2. Accessing(X) \subseteq {Body(a)[k] : k \in With(a, Accesses)}
    BY AccessesOfBody
  <2> QED BY <2>1, <2>2
<1>3. /\ t \in {"SimpleRead", "SimpleWrites", "SimpleRMW", "Nop", "Complex"}
      /\ t = "Nop" => With(a, Accesses) = {}
      /\ t = "SimpleWrites" => Only(a, {"store"})
      /\ t = "SimpleRead" => One(a, "load")
      /\ t = "SimpleRMW" => One(a, "rmw")
  <2>1. CASE One(a, "load")
    BY <2>1 DEF TypeOfBlock
  <2>2. CASE ~One(a, "load") /\ Only(a, {"store"})
    BY <2>2 DEF TypeOfBlock
  <2>3. CASE ~One(a, "load") /\ ~Only(a, {"store"}) /\ One(a, "rmw")
    BY <2>3 DEF TypeOfBlock
  <2>4. CASE ~One(a, "load") /\ ~Only(a, {"store"}) /\ ~One(a, "rmw") /\ With(a, Accesses) = {}
    BY <2>4 DEF TypeOfBlock
  <2>5. CASE ~One(a, "load") /\ ~Only(a, {"store"}) /\ ~One(a, "rmw") /\ With(a, Accesses) # {}
    BY <2>5 DEF TypeOfBlock
  <2> QED BY <2>1, <2>2, <2>3, <2>4, <2>5
<1>4. ASSUME NEW op \in {"load", "rmw"}, One(a, op)
      PROVE  \E i \in does : does = {i} /\ i.op = op /\ SoleLoad(a) = i.id
  <2>1. PICK k \in With(a, Accesses) : /\ With(a, Accesses) = {k} /\ Body(a)[k].op = op
                                       /\ SoleLoad(a) = Body(a)[k].id
    BY <1>1, <1>4, SoleLoadIs
  <2> DEFINE i == Body(a)[k]
  <2>2. i \in does /\ \A x \in does : x = i
    BY <1>2, <2>1
  <2>3. does = {i}
    BY <2>2
  <2> QED BY <2>1, <2>2, <2>3
<1>5. t = "Nop" => does = {}
  BY <1>2, <1>3
<1>6. ASSUME Only(a, {"store"})
      PROVE  does # {} /\ \A i \in does : i.op = "store"
  <2>1. With(a, {"store"}) # {} /\ With(a, Accesses \ {"store"}) = {}
    BY <1>6 DEF Only
  <2>2. "store" \in Accesses
    BY DEF Accesses
  <2>3. PICK k : k \in With(a, {"store"})
    BY <2>1
  <2>4. k \in With(a, Accesses)
    BY <2>2, <2>3 DEF With
  <2>5. \A m \in With(a, Accesses) : Body(a)[m].op = "store"
    BY <2>1 DEF With
  <2> QED BY <1>2, <2>4, <2>5
<1>7. ASSUME AllSC(a)
      PROVE  \A i \in does : i.sc
  <2> SUFFICES ASSUME NEW k \in With(a, Accesses) PROVE Body(a)[k].sc
    BY <1>2
  <2>1. /\ With(a, {"call", "pure", "fence"}) = {}
        /\ \A m \in With(a, {"load", "store", "rmw"}) : Body(a)[m].sc
    BY <1>7 DEF AllSC
  <2>2. k \in DOMAIN Body(a) /\ Body(a)[k].op \in Accesses
    BY DEF With
  <2>3. Body(a)[k].op \in {"call", "pure", "fence"} \/ Body(a)[k].op \in {"load", "store", "rmw"}
    BY <2>2 DEF Accesses
  <2>4. \A ops : Body(a)[k].op \in ops => k \in With(a, ops)
    BY <2>2 DEF With
  <2> QED BY <2>1, <2>3, <2>4
<1> HIDE DEF does, t
<1>8. (t = "SimpleWrites" => does # {} /\ \A i \in does : i.op = "store")
  BY <1>3, <1>6
<1>9. t = "SimpleRead" => \E i \in does : does = {i} /\ i.op = "load" /\ SoleLoad(a) = i.id
  BY <1>3, <1>4
<1>10. t = "SimpleRMW" => \E i \in does : does = {i} /\ i.op = "rmw" /\ SoleLoad(a) = i.id
  BY <1>3, <1>4
<1>11. t \in {"SimpleRead", "SimpleWrites", "SimpleRMW", "Nop", "Complex"}
  BY <1>3
<1> QED BY <1>5, <1>7, <1>8, <1>9, <1>10, <1>11 DEF does, t

LEMMA ClassifiedRight ==
  ASSUME code \in Codes, NEW a \in FreshRecords(code), NEW starts, NEW src,
         Owns(code, starts, a.bb, a.out, Inside(src, a.id))
  PROVE  TypeRight(src, Classified(a)) /\ SamePlace(Classified(a), a)
<1>1. CASE a.out # a.bb
  <2>1. Classified(a) = a
    BY <1>1 DEF Classified
  <2>2. a.type = "Complex" /\ a.allSC = FALSE
    BY DEF FreshRecords
  <2> QED BY <2>1, <2>2 DEF TypeRight, SamePlace
<1>2. CASE a.out = a.bb
  <2> DEFINE t == TypeOfBlock(a)
             sc == AllSC(a)
             on == IF t \in {"SimpleRead", "SimpleRMW"} THEN SoleLoad(a) ELSE 0
             new == Classified(a)
             X == Inside(src, a.id)
             does == Accessing(X)
  <2>1. new = [a EXCEPT !.allSC = sc, !.type = t, !.odep = on]
    BY <1>2 DEF Classified
  <2>2. t \in {"SimpleRead", "SimpleRMW"} => on = SoleLoad(a)
    OBVIOUS
  <2>3. Owns(code, starts, a.bb, a.out, X)
    OBVIOUS
  <2>4. /\ t \in {"SimpleRead", "SimpleWrites", "SimpleRMW", "Nop", "Complex"}
        /\ t = "Nop" => does = {}
        /\ t = "SimpleWrites" => does # {} /\ \A i \in does : i.op = "store"
        /\ t = "SimpleRead" => \E i \in does : does = {i} /\ i.op = "load" /\ SoleLoad(a) = i.id
        /\ t = "SimpleRMW" => \E i \in does : does = {i} /\ i.op = "rmw" /\ SoleLoad(a) = i.id
        /\ sc => \A i \in does : i.sc
    <3> HIDE DEF X
    <3> QED BY <1>2, <2>3, TypeOfBlockRight
  <2> HIDE DEF t, sc, on, new, X, does
  <2>5. /\ new.id = a.id /\ new.bb = a.bb /\ new.out = a.out
        /\ new.type = t /\ new.allSC = sc /\ new.odep = on
    BY <2>1 DEF FreshRecords
  <2>6. t \notin {"Take", "Give"}
    BY <2>4
  <2>7. does = Accessing(Inside(src, new.id))
    BY <2>5 DEF does, X
  <2>8. TypeRight(src, new)
    BY <2>2, <2>4, <2>5, <2>6, <2>7 DEF TypeRight
  <2> QED BY <2>5, <2>8 DEF SamePlace, new
<1> QED BY <1>1, <1>2

(* The invariant of the pass: while actions are split off, what was found  *)
(* is right and what is pending can still be found; then every action owns *)
(* its blocks, and what is said of it is right or yet to be said.          *)
IsSequence(as) == \E R : as \in Seq(R)

SplitInv == /\ turn = 1 /\ acts \in Seq(FoundRecords)
            /\ FoundRight(source, code, registrations, acts)

AnalyzeInv ==
  /\ turn \in Nat \ {0} /\ IsSequence(acts)
  /\ 1 .. turn - 1 \subseteq DOMAIN acts
  /\ AllOwn(source, code, acts)
  /\ \A n \in DOMAIN acts : n >= turn => acts[n] \in FreshRecords(code)
  /\ \A n \in DOMAIN acts : n < turn => TypeRight(source, acts[n])

FindInv ==
  /\ source \in Sources
  /\ step \in {"split", "analyze"}
  /\ step = "split" => SplitInv
  /\ step = "analyze" => AnalyzeInv

LEMMA FindInvInit ==
  ASSUME FindInit
  PROVE  FindInv
<1>1. source \in Sources /\ code = source /\ registrations = Registered(source) /\ acts = <<>> /\ turn = 1
  BY DEF FindInit
<1>2. source \in Codes
  BY <1>1, SourcesAssumption
<1>3. Nested(source, Registered(source))
  BY <1>1, NestedAssumption
<1>4. ASSUME NEW id \in Registered(source)
      PROVE  Pending(source, source, id)
  <2>1. Once(source, id)
    BY <1>1, <1>4, CallsAssumption DEF Once
  <2>2. LET r == TheCall(source, "register", id)
            z == TheCall(source, "close", id)
        IN z \in Reach(source, <<r[1], r[2] + 1>>, {z})
    BY <1>1, <1>4, ReachedAssumption
  <2> QED BY <2>1, <2>2 DEF Pending
<1>5. DOMAIN acts = {} /\ acts \in Seq(FoundRecords)
  BY <1>1
<1>6. FoundRight(source, code, registrations, acts)
  BY <1>1, <1>2, <1>3, <1>4, <1>5 DEF FoundRight
<1> QED BY <1>1, <1>5, <1>6 DEF FindInit, FindInv, SplitInv

LEMMA FindActionInv ==
  ASSUME FindInv, FindAction
  PROVE  FindInv'
<1>1. PICK id \in registrations : SplitOff(id) /\ registrations' = registrations \ {id}
  BY DEF FindAction
<1>2. step = "split" /\ source' = source /\ turn' = turn /\ step' = step
  BY DEF FindAction
<1>3. turn = 1 /\ acts \in Seq(FoundRecords) /\ FoundRight(source, code, registrations, acts)
  BY <1>2 DEF FindInv, SplitInv
<1>4. FoundRight(source, code', registrations \ {id}, acts') /\ acts' \in Seq(FoundRecords)
  BY <1>1, <1>3, SplitOffRight
<1>5. SplitInv'
  BY <1>1, <1>2, <1>3, <1>4 DEF SplitInv
<1> QED BY <1>2, <1>5 DEF FindInv

LEMMA FixOutInv ==
  ASSUME FindInv, FixOut
  PROVE  FindInv'
<1>1. /\ step = "split" /\ step' = "analyze" /\ registrations = {}
      /\ source' = source /\ code' = code /\ turn' = turn
  BY DEF FixOut
<1>2. turn = 1 /\ acts \in Seq(FoundRecords) /\ FoundRight(source, code, registrations, acts)
  BY <1>1 DEF FindInv, SplitInv
<1>3. /\ AllOwn(source, code, acts') /\ DOMAIN acts' = DOMAIN acts
      /\ \A n \in DOMAIN acts : acts'[n] \in FreshRecords(code)
  BY <1>1, <1>2, FixOutOwns
<1>4. IsSequence(acts')
  <2>1. acts' = [n \in DOMAIN acts |-> [acts[n] EXCEPT !.out = SinglePred(code, @)]]
    BY DEF FixOut
  <2> DEFINE f == [n \in DOMAIN acts |-> [acts[n] EXCEPT !.out = SinglePred(code, @)]]
             R == FreshRecords(code)
  <2>2. Len(acts) \in Nat /\ DOMAIN acts = 1 .. Len(acts)
    BY <1>2
  <2>3. acts' = f /\ f = [n \in DOMAIN acts |-> f[n]]
    BY <2>1
  <2> HIDE DEF f, R
  <2>4. \A n \in 1 .. Len(acts) : f[n] \in R
    BY <1>3, <2>2, <2>3 DEF R
  <2>5. f \in [1 .. Len(acts) -> R]
    BY <2>2, <2>3, <2>4
  <2>6. f \in Seq(R)
    BY <2>2, <2>5
  <2> QED BY <2>3, <2>6 DEF IsSequence
<1>5. \A n \in DOMAIN acts' : ~(n < turn')
  <2>1. DOMAIN acts' = 1 .. Len(acts) /\ Len(acts) \in Nat
    BY <1>2, <1>3
  <2> QED BY <1>1, <1>2, <2>1
<1>6. AnalyzeInv'
  <2>1. (turn \in Nat \ {0})'
    BY <1>1, <1>2
  <2>2. AllOwn(source, code, acts)'
    BY <1>1, <1>3
  <2>3. \A n \in DOMAIN acts' : acts'[n] \in FreshRecords(code)'
    BY <1>1, <1>3
  <2>4. (1 .. turn - 1 \subseteq DOMAIN acts)'
    BY <1>1, <1>2
  <2> QED BY <1>4, <1>5, <2>1, <2>2, <2>3, <2>4 DEF AnalyzeInv
<1> QED BY <1>1, <1>6 DEF FindInv

(* A turn of the analysis, whatever is said of the action.                 *)
LEMMA AnalyzedInv ==
  ASSUME AnalyzeInv, turn \in DOMAIN acts, NEW a, acts' = [acts EXCEPT ![turn] = a],
         SamePlace(a, acts[turn]), TypeRight(source, a),
         source' = source, turn' = turn + 1, DOMAIN code' = DOMAIN code,
         code' \in Codes,
         \A n \in DOMAIN acts :
           Owns(code', Starts(acts), acts[n].bb, acts[n].out, Inside(source, acts[n].id))
  PROVE  AnalyzeInv'
<1>1. /\ DOMAIN acts' = DOMAIN acts /\ acts'[turn] = a
      /\ \A n \in DOMAIN acts : n # turn => acts'[n] = acts[n]
  OBVIOUS
<1>2. \A n \in DOMAIN acts : SamePlace(acts'[n], acts[n])
  BY <1>1 DEF SamePlace
<1>3. IsSequence(acts')
  <2>1. PICK R : acts \in Seq(R)
    BY DEF AnalyzeInv, IsSequence
  <2> DEFINE S == R \cup {a}
  <2>2. acts \in Seq(S) /\ a \in S
    <3>1. Len(acts) \in Nat /\ DOMAIN acts = 1 .. Len(acts) /\ \A n \in 1 .. Len(acts) : acts[n] \in R
      BY <2>1
    <3>2. acts = [n \in 1 .. Len(acts) |-> acts[n]]
      BY <2>1
    <3>3. a \in S /\ \A n \in 1 .. Len(acts) : acts[n] \in S
      BY <3>1
    <3> HIDE DEF S
    <3>4. acts \in [1 .. Len(acts) -> S]
      BY <3>2, <3>3
    <3> QED BY <3>1, <3>3, <3>4
  <2> HIDE DEF S
  <2>3. acts' \in Seq(S)
    BY <2>2, RowReplaced
  <2> QED BY <2>3 DEF IsSequence
<1>4. \A n \in DOMAIN acts : n \in Nat
  <2>1. PICK R : acts \in Seq(R)
    BY DEF AnalyzeInv, IsSequence
  <2> QED BY <2>1
<1>5. turn \in Nat \ {0} /\ turn + 1 \in Nat \ {0}
  BY DEF AnalyzeInv
<1>6. Starts(acts') = Starts(acts)
  BY <1>1, <1>2 DEF Starts, SamePlace
<1>7. AllOwn(source, code', acts')
  <2>1. \A n \in DOMAIN acts' :
          Owns(code', Starts(acts'), acts'[n].bb, acts'[n].out, Inside(source, acts'[n].id))
    BY <1>1, <1>2, <1>6 DEF SamePlace
  <2>2. \A m, n \in DOMAIN acts' : acts'[m].bb = acts'[n].bb => m = n
    BY <1>1, <1>2 DEF SamePlace, AnalyzeInv, AllOwn
  <2> QED BY <2>1, <2>2 DEF AllOwn
<1>8. ASSUME NEW n \in DOMAIN acts', n >= turn'
      PROVE  acts'[n] \in FreshRecords(code')
  <2>1. n \in Nat /\ n >= turn /\ n # turn
    BY <1>1, <1>4, <1>5, <1>8
  <2>2. acts'[n] \in FreshRecords(code)
    BY <1>1, <1>8, <2>1 DEF AnalyzeInv
  <2> QED BY <2>2 DEF FreshRecords
<1>9. ASSUME NEW n \in DOMAIN acts', n < turn'
      PROVE  TypeRight(source, acts'[n])
  <2>1. CASE n = turn
    BY <1>1, <2>1
  <2>2. CASE n # turn
    <3>1. n < turn
      BY <1>1, <1>4, <1>5, <1>9, <2>2
    <3> QED BY <1>1, <1>9, <2>2, <3>1 DEF AnalyzeInv
  <2> QED BY <2>1, <2>2
<1>10. AllOwn(source, code, acts)'
  BY <1>7
<1>11. turn' \in Nat \ {0}
  BY <1>5
<1>12. 1 .. turn' - 1 \subseteq DOMAIN acts'
  <2> SUFFICES ASSUME NEW n \in 1 .. turn' - 1 PROVE n \in DOMAIN acts
    BY <1>1
  <2>1. n = turn \/ n \in 1 .. turn - 1
    BY <1>5
  <2> QED BY <2>1 DEF AnalyzeInv
<1> QED BY <1>3, <1>8, <1>9, <1>10, <1>11, <1>12 DEF AnalyzeInv

LEMMA AnalyzeActionInv ==
  ASSUME FindInv, AnalyzeAction
  PROVE  FindInv'
<1> DEFINE a == acts[turn]
<1>1. /\ step = "analyze" /\ turn <= Len(acts) /\ turn' = turn + 1
      /\ source' = source /\ step' = step
  BY DEF AnalyzeAction
<1>2. AnalyzeInv
  BY <1>1 DEF FindInv
<1>3. turn \in DOMAIN acts
  <2>1. PICK R : acts \in Seq(R)
    BY <1>2 DEF AnalyzeInv, IsSequence
  <2>2. Len(acts) \in Nat /\ DOMAIN acts = 1 .. Len(acts)
    BY <2>1
  <2> QED BY <1>1, <1>2, <2>2 DEF AnalyzeInv
<1>4. a \in FreshRecords(code)
  BY <1>2, <1>3 DEF AnalyzeInv
<1>5. /\ code \in Codes
      /\ \A n \in DOMAIN acts : Owns(code, Starts(acts), acts[n].bb, acts[n].out, Inside(source, acts[n].id))
  BY <1>2 DEF AnalyzeInv, AllOwn
<1>6. Owns(code, Starts(acts), a.bb, a.out, Inside(source, a.id))
  BY <1>3, <1>5
<1>7. CASE TransferOf(a) # {}
  <2> DEFINE b == a.out
             k == FirstTransfer(a)
             new == Transferred(a)
             starts == Starts(acts)
  <2>1. code' = CallReplaced(a) /\ acts' = [acts EXCEPT ![turn] = new]
    BY <1>7 DEF AnalyzeAction
  <2>2. code' = OpReplaced(code, b, k)
    BY <2>1 DEF CallReplaced, OpReplaced
  <2> HIDE DEF a
  <2>3. TypeRight(source, new) /\ SamePlace(new, a)
    BY <1>4, <1>5, <1>6, <1>7, TransferredRight
  <2>4. b \in DOMAIN code
    BY <1>6 DEF Owns, OwnsBlocks
  <2>5. k \in 1 .. Len(code[b].ins) /\ code[b].ins[k].op \in {"take", "give"}
    BY <1>5, <1>7, <2>4, FirstTransferIs DEF Body
  <2> HIDE DEF b, k, new, starts
  <2>6. IsRelabelled(code', code, b, k)
    BY <1>5, <2>2, <2>4, <2>5, RelabelType
  <2>7. code' \in Codes /\ DOMAIN code' = DOMAIN code
    BY <2>6 DEF IsRelabelled
  <2>8. ASSUME NEW n \in DOMAIN acts
        PROVE  Owns(code', starts, acts[n].bb, acts[n].out, Inside(source, acts[n].id))
    <3> DEFINE bb == acts[n].bb
               out == acts[n].out
               X == Inside(source, acts[n].id)
    <3>1. Owns(code, starts, bb, out, X)
      BY <1>5, <2>8 DEF starts
    <3> HIDE DEF bb, out, X
    <3>2. Owns(code', starts, bb, out, X)
      BY <1>5, <2>4, <2>5, <2>6, <3>1, RelabelOwns
    <3> QED BY <3>2 DEF bb, out, X
  <2>9. AnalyzeInv'
    BY <1>1, <1>2, <1>3, <2>1, <2>3, <2>7, <2>8, AnalyzedInv DEF starts, a
  <2> QED BY <1>1, <2>9 DEF FindInv
<1>8. CASE TransferOf(a) = {}
  <2> DEFINE new == Classified(a)
  <2>1. code' = code /\ acts' = [acts EXCEPT ![turn] = new]
    BY <1>8 DEF AnalyzeAction
  <2>2. TypeRight(source, new) /\ SamePlace(new, a)
    <3> HIDE DEF a
    <3> QED BY <1>4, <1>5, <1>6, ClassifiedRight
  <2> HIDE DEF new
  <2>3. /\ DOMAIN code' = DOMAIN code /\ code' \in Codes
        /\ \A n \in DOMAIN acts :
             Owns(code', Starts(acts), acts[n].bb, acts[n].out, Inside(source, acts[n].id))
    BY <1>5, <2>1
  <2>4. AnalyzeInv'
    BY <1>1, <1>2, <1>3, <2>1, <2>2, <2>3, AnalyzedInv
  <2> QED BY <1>1, <2>4 DEF FindInv
<1> QED BY <1>7, <1>8

LEMMA FindInvNext ==
  ASSUME FindInv, [FindNext]_findVars
  PROVE  FindInv'
<1>1. CASE FindAction
  BY <1>1, FindActionInv
<1>2. CASE FixOut
  BY <1>2, FixOutInv
<1>3. CASE AnalyzeAction
  BY <1>3, AnalyzeActionInv
<1>4. CASE UNCHANGED findVars
  BY <1>4 DEF findVars, FindInv, SplitInv, AnalyzeInv, AllOwn, Owns, OwnsBlocks, TypeRight
<1> QED BY <1>1, <1>2, <1>3, <1>4 DEF FindNext

LEMMA FindInvHolds == FindSpec => []FindInv
<1>1. FindInit => FindInv
  BY FindInvInit
<1>2. FindInv /\ [FindNext]_findVars => FindInv'
  BY FindInvNext
<1> QED BY <1>1, <1>2, PTL DEF FindSpec

LEMMA OwnIsApart ==
  ASSUME FindInv
  PROVE  ActionsApart
<1> SUFFICES ASSUME step = "analyze" PROVE ActionsApart
  BY DEF ActionsApart
<1>1. AllOwn(source, code, acts)
  BY DEF FindInv, AnalyzeInv
<1>2. ASSUME NEW n \in DOMAIN acts
      PROVE  LET a == acts[n] IN
             /\ DataOf(Owned(a)) = DataOf(Inside(source, a.id))
             /\ \E p, q \in DOMAIN code :
                  /\ Preds(code, a.bb) = {p} /\ code[a.out].succ = {q}
                  /\ \A m \in DOMAIN acts : acts[m].bb \notin {p, q}
  <2> DEFINE a == acts[n]
  <2>1. Owns(code, Starts(acts), a.bb, a.out, Inside(source, a.id))
    BY <1>1, <1>2 DEF AllOwn
  <2> HIDE DEF a
  <2>2. DataOf(Owned(a)) = DataOf(Inside(source, a.id))
    BY <2>1 DEF Owns, SameData, Owned
  <2>3. PICK p \in DOMAIN code \ Starts(acts) : Preds(code, a.bb) = {p}
    BY <2>1 DEF Owns, OwnsBlocks
  <2>4. PICK q \in DOMAIN code \ Starts(acts) : code[a.out].succ = {q}
    BY <2>1 DEF Owns, OwnsBlocks
  <2>5. \A m \in DOMAIN acts : acts[m].bb \in Starts(acts)
    BY DEF Starts
  <2>6. \A m \in DOMAIN acts : acts[m].bb \notin {p, q}
    BY <2>3, <2>4, <2>5
  <2> QED BY <2>2, <2>3, <2>4, <2>6 DEF a
<1>3. ASSUME NEW m \in DOMAIN acts, NEW n \in DOMAIN acts, acts[m].bb \in {acts[n].bb, acts[n].out}
      PROVE  m = n
  <2>1. acts[n].out \notin Starts(acts) \ {acts[n].bb}
    BY <1>1 DEF AllOwn, Owns, OwnsBlocks
  <2>2. acts[m].bb \in Starts(acts)
    BY DEF Starts
  <2>3. acts[m].bb = acts[n].bb
    BY <1>3, <2>1, <2>2
  <2> QED BY <1>1, <2>3 DEF AllOwn
<1> QED BY <1>2, <1>3 DEF ActionsApart

LEMMA RightIsTold ==
  ASSUME FindInv
  PROVE  TypesTell
<1>1. ASSUME NEW n \in 1 .. turn - 1
      PROVE  TypeRight(source, acts[n])
  <2>1. CASE step = "split"
    BY <2>1 DEF FindInv, SplitInv
  <2>2. CASE step = "analyze"
    <3>1. AnalyzeInv
      BY <2>2 DEF FindInv
    <3>2. n \in DOMAIN acts /\ n < turn
      BY <3>1 DEF AnalyzeInv
    <3> QED BY <3>1, <3>2 DEF AnalyzeInv
  <2> QED BY <2>1, <2>2 DEF FindInv
<1> QED BY <1>1 DEF TypesTell, TypeRight, Accessing

(* Whatever the function and the order in which its actions are found, and *)
(* however they are nested: when findActions is done an action is what is  *)
(* between its calls, in blocks of its own, and has a block that is no     *)
(* action's before it and one after it.                                    *)
THEOREM ActionsStayApart == FindSpec => []ActionsApart
<1>1. FindInv => ActionsApart
  BY OwnIsApart
<1> QED BY <1>1, FindInvHolds, PTL

(* For every function: what analyzeAction says of an action never          *)
(* understates what runs between its calls.                                *)
THEOREM TypesAreRight == FindSpec => []TypesTell
<1>1. FindInv => TypesTell
  BY RightIsTold
<1> QED BY <1>1, FindInvHolds, PTL
=============================================================================
