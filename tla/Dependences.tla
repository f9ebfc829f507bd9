---------------------------- MODULE Dependences ----------------------------
(***************************************************************************)
(* The program analysis both placements of fences use (branchesOn,         *)
(* addrDepsOn in RMC.cpp), and the dependency it stands for.               *)
(***************************************************************************)
EXTENDS RMCInternal

(* branchesOn: does leaving b branch on v?  An RMW is taken to branch on   *)
(* the value it read wherever one looks; of a conditional branch only the  *)
(* operands of its comparison count.                                       *)
BranchesOn(b, v) == fn.vals[v].op = "rmw" \/ v \in fn.branch[b]

(* addrDepsOnSearch: a phi met again is assumed to depend, so a cycle of   *)
(* phis depends when all the ways into it that can be reached do.          *)
SearchAddrDeps(load, inReach, pointer) ==
  LET Search[v \in DOMAIN fn.vals, phis \in SUBSET DOMAIN fn.vals] ==
        LET def == fn.vals[v] IN
        \/ v = load
        \/ v \in phis
        \/ def.op \in {"gep", "load"} /\ \E a \in def.args : Search[a, phis]
        \/ /\ def.op = "phi"
           /\ \A arm \in def.ins :
                arm[1] \in inReach => Search[arm[2], phis \cup {v}]
  IN Search[pointer, {}]

(* addrDepsOn: only the phi arms out of blocks in the strongly connected   *)
(* component of a block of the path can be on a detour from that path.     *)
SkipSet(e) == {e.bind} \ {Outside}

AddrDepsOn(e, p) ==
  LET load == actions[e.src].odep
      pointer == actions[e.dst].idep
  IN /\ load # NoValue
     /\ pointer # NoValue
     /\ SearchAddrDeps(load,
          {b \in Blocks : \E n \in 1 .. Len(p) :
                            SameSCC(fn.cfg, SkipSet(e), b, p[n])},
          pointer)

(* The values that depend on an instance of load once block b ran, coming  *)
(* from a, if after depended on it before; only a load all of whose uses   *)
(* are hidden from LLVM has dependencies that survive.                     *)
AfterBlock(load, hiddenLoads, after, a, b) ==
  LET Dep[v \in DOMAIN fn.vals] ==
        LET def == fn.vals[v] IN
        IF def.block # b THEN v \in after
        ELSE /\ load \in hiddenLoads
             /\ \/ /\ def.op = "phi"
                   /\ \E arm \in def.ins : arm[1] = a /\ arm[2] \in after
                \/ def.op \in {"gep", "load"} /\ \E u \in def.args : Dep[u]
  IN {v \in DOMAIN fn.vals : Dep[v]}
=============================================================================
