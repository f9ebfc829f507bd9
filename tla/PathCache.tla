----------------------------- MODULE PathCache -----------------------------
(***************************************************************************)
(* Control-flow graphs and their simple paths (PathCache.cpp), stated by   *)
(* what the searches return.  A graph is a record [succ: block -> its      *)
(* successors, entry: the entry block, rets: the blocks that end in a      *)
(* return].  Two arcs between the same blocks are one.                     *)
(***************************************************************************)
EXTENDS Integers, FiniteSets, Sequences

CONSTANTS Blocks,     \* basic blocks
          Graphs,     \* the control-flow graphs a run works on
          Outside     \* the null bind site: bound outside the function

ASSUME BlocksAssumption == IsFiniteSet(Blocks)
ASSUME GraphsAssumption ==
  \A g \in Graphs :
    /\ g.entry \in Blocks
    /\ g.rets \subseteq Blocks
    /\ g.succ \in [Blocks -> SUBSET Blocks]
ASSUME OutsideAssumption == Outside \notin Blocks

(* What forwardIterate visits: a return leads back to the entry block, as  *)
(* the function may be called again.                                       *)
Succ(g, b) == g.succ[b] \cup (IF b \in g.rets THEN {g.entry} ELSE {})

IsWalk(g, p) == \A n \in 1 .. Len(p) - 1 : p[n + 1] \in Succ(g, p[n])

(* No block twice, but a path may come back to the block it starts from.   *)
IsSimple(p) ==
  \A m, n \in 1 .. Len(p) : m < n /\ p[m] = p[n] => m = 1 /\ n = Len(p)

(* Every simple path of every graph. *)
BlockSequences ==
  UNION {[1 .. n -> Blocks] : n \in 1 .. Cardinality(Blocks) + 1}

SimplePaths ==
  {[graph |-> gp[1], path |-> gp[2]] :
     gp \in {c \in Graphs \X BlockSequences :
               IsWalk(c[1], c[2]) /\ IsSimple(c[2])}}
PathTable ==
  {[graph |-> g, paths |-> {r.path : r \in {q \in SimplePaths : q.graph = g}}] :
     g \in Graphs}
PathsOf(g) == (CHOOSE r \in PathTable : r.graph = g).paths

(* findAllSimplePaths(skip, src, dst) with self cycles allowed: paths of   *)
(* at least two blocks; dst is recognised before the skip set is looked    *)
(* at, so it may be a skipped block, and any other block may not.          *)
FindAllSimplePaths(g, skip, src, dst) ==
  {p \in PathsOf(g) :
     /\ Len(p) >= 2
     /\ p[1] = src
     /\ p[Len(p)] = dst
     /\ \A n \in 1 .. Len(p) - 1 : p[n] \notin skip}

Reaches(g, skip, b, c) == b = c \/ FindAllSimplePaths(g, skip, b, c) # {}

(* findSCCs: two blocks get the same canonical element iff each reaches    *)
(* the other without the skipped blocks, which all map to null.            *)
SameSCC(g, skip, b, c) ==
  IF b \in skip \/ c \in skip
  THEN b \in skip /\ c \in skip
  ELSE Reaches(g, skip, b, c) /\ Reaches(g, skip, c, b)

(* The dominator tree: every walk from the entry to c passes b. *)
Dominates(g, b, c) ==
  \/ b = c \/ b = g.entry
  \/ c # g.entry /\ FindAllSimplePaths(g, {b}, g.entry, c) = {}
=============================================================================
