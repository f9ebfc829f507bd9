---------------------------- MODULE Obligations ----------------------------
(***************************************************************************)
(* What the edges a function registers ask of the code emitted for it,     *)
(* whichever way the edges are cut.                                        *)
(***************************************************************************)
EXTENDS ActionGraph

(* What the registered edges demand, independently of the code's loops:    *)
(* the least transitive set of edges that holds them and the execution     *)
(* version of each visibility edge.                                        *)
Composed(S) ==
  {Edge(ef[1].type, ef[1].src, ef[2].dst,
        MergeBindPoints(ef[1].bind, ef[2].bind)) :
     ef \in {p \in S \X S : p[1].type = p[2].type /\ p[1].dst = p[2].src}}

Requested == graph \cup {[e EXCEPT !.type = ExecutionEdge] :
                           e \in {f \in graph : f.type = VisibilityEdge}}

Close[S \in SUBSET Edges] ==
  IF Composed(S) \subseteq S THEN S ELSE Close[S \cup Composed(S)]

Demanded == Close[Requested]

(* The demanded edges that can be observed: not those of a no-op, nor an   *)
(* execution edge out of a plain write; of a visibility edge to a read the *)
(* execution version, which is demanded as well.                           *)
Observable(e) ==
  LET st == actions[e.src].type
      dt == actions[e.dst].type
  IN CASE e.type = PushEdge       -> TRUE
       [] e.type = VisibilityEdge -> "Nop" \notin {st, dt} /\ dt # "SimpleRead"
       [] e.type = ExecutionEdge  -> "Nop" \notin {st, dt} /\ st # "SimpleWrites"
=============================================================================
