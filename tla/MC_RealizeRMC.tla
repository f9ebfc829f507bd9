--------------------------- MODULE MC_RealizeRMC ---------------------------
(***************************************************************************)
(* Functions for the model checker: the control-flow shapes of the         *)
(* examples (rmc-test.c, data_uhoh.cpp, rcu-test.c, reg_merge_test.cpp),   *)
(* each with several kinds of actions and sets of edges.                   *)
(***************************************************************************)
EXTENDS RealizeRMC

MCBlocks == {"e", "a", "b", "c", "x", "y"}

MCLabels == {"a", "b", "c", "x", "y"}

(* The part of a graph that matters: blocks not named have no successor.   *)
Graph(arcs, rets) ==
  [succ |-> [b \in MCBlocks |-> {s \in MCBlocks : <<b, s>> \in arcs}],
   entry |-> "e", rets |-> rets]

Line  == Graph({<<"e","a">>, <<"a","b">>, <<"b","c">>}, {"c"})
Spin  == Graph({<<"e","a">>, <<"a","x">>, <<"x","a">>, <<"x","b">>, <<"b","c">>},
               {"c"})
Fork  == Graph({<<"e","a">>, <<"a","x">>, <<"x","b">>, <<"x","y">>, <<"b","y">>,
                <<"y","c">>}, {"c"})
Loop  == Graph({<<"e","a">>, <<"a","b">>, <<"b","c">>, <<"c","x">>, <<"x","a">>,
                <<"x","y">>}, {"y"})
\* a, then b in a loop that never ends or that repeats before b
Chase == Graph({<<"e","a">>, <<"a","x">>, <<"x","b">>, <<"b","x">>}, {})
Twice == Graph({<<"e","a">>, <<"a","x">>, <<"x","x">>, <<"x","b">>}, {"b"})

\* the two ways round a fork meet before b
Fork2 == Graph({<<"e","a">>, <<"a","x">>, <<"x","c">>, <<"x","y">>, <<"c","y">>,
                <<"y","b">>}, {"b"})
\* a list: use an element, then load the next one
List  == Graph({<<"e","x">>, <<"x","b">>, <<"b","a">>, <<"a","c">>, <<"c","x">>,
                <<"c","y">>}, {"y"})
\* one block after the other, with room before and after an action
Row   == Graph({<<"e","a">>, <<"a","x">>, <<"x","b">>, <<"b","y">>, <<"y","c">>},
               {"c"})

\* a loop with a block of its own at the head of its body
Turns == Graph({<<"e","x">>, <<"x","a">>, <<"a","b">>, <<"b","c">>, <<"c","x">>,
                <<"c","y">>}, {"y"})

\* two arms, then three blocks in a row
Arms  == Graph({<<"e","c">>, <<"e","x">>, <<"c","y">>, <<"x","y">>, <<"y","b">>,
                <<"b","a">>}, {"a"})

MCGraphs == {Arms, Line, Turns, Spin, Fork, Loop, Chase, Twice, Fork2, List, Row}

Load(b, ptr)  == [op |-> "load", block |-> b, args |-> {ptr}, ins |-> {}]
Rmw(b)        == [op |-> "rmw", block |-> b, args |-> {}, ins |-> {}]
Phi(b, arms)  == [op |-> "phi", block |-> b, args |-> {}, ins |-> arms]
Other(b)      == [op |-> "other", block |-> b, args |-> {}, ins |-> {}]

(* The value an action reads has the name of its block. *)
ReadAt(b, ptr) == [name |-> b, bb |-> b, out |-> b, type |-> "SimpleRead",
                   odep |-> b, idep |-> ptr]
RmwAt(b)       == [name |-> b, bb |-> b, out |-> b, type |-> "SimpleRMW",
                   odep |-> b, idep |-> NoValue]
At(b, type)    == [name |-> b, bb |-> b, out |-> b, type |-> type,
                   odep |-> NoValue, idep |-> NoValue]

Call(type, src, dst, bind) ==
  [kind |-> "edge", type |-> type, src |-> src, dst |-> dst, bind |-> bind]
X(src, dst, bind) == Call(ExecutionEdge, src, dst, bind)
V(src, dst, bind) == Call(VisibilityEdge, src, dst, bind)
P(src, dst, bind) == Call(PushEdge, src, dst, bind)

NoBranch == [n \in MCBlocks |-> {}]
Branching(b, v) == [n \in MCBlocks |-> IF n = b THEN {v} ELSE {}]

PtrVals == [p |-> Other("e"), q |-> Other("e"), a |-> Other("e"),
            b |-> Other("e"), c |-> Other("e")]

Kind(b, t) == CASE t = "SimpleRead" -> ReadAt(b, "p")
                [] t = "SimpleRMW"  -> RmwAt(b)
                [] OTHER            -> At(b, t)
ValOf(b, t) == CASE t = "SimpleRead" -> Load(b, "p")
                 [] t = "SimpleRMW"  -> Rmw(b)
                 [] OTHER            -> Other(b)

(* Three actions in a row, in a loop, or past a branch on the first.       *)
Plain(g, ta, tb, tc, calls) ==
  [cfg |-> g, acts |-> <<Kind("a", ta), Kind("b", tb), Kind("c", tc)>>,
   calls |-> calls, branch |-> Branching("x", "a"),
   vals |-> [PtrVals EXCEPT !.a = ValOf("a", ta), !.b = ValOf("b", tb),
                            !.c = ValOf("c", tc)]]

CallLists ==
  {<<k1, k2>> : k1 \in {X("a", "b", Outside), X("a", "b", "e"), V("a", "b", Outside),
                        P("a", "b", "e")},
                k2 \in {X("b", "c", Outside), V("b", "c", "e"), X("a", "a", "e"),
                        V("a", "c", Outside)}}

PlainFunctions ==
  {Plain(g, ta, tb, tc, calls) :
     g \in {Line, Spin, Fork, Loop},
     ta \in {"SimpleRead", "SimpleWrites", "SimpleRMW"},
     tb \in {"SimpleRead", "SimpleWrites", "Nop"},
     tc \in {"SimpleRead", "SimpleWrites"},
     calls \in CallLists}

(* Address dependencies (data_uhoh.cpp): a reads a pointer, b reads        *)
(* through it; ptr is the pointer b uses.                                  *)
Pointer(g, ptr, phis, branch, calls) ==
  [cfg |-> g, acts |-> <<ReadAt("a", "p"), ReadAt("b", ptr)>>,
   calls |-> calls, branch |-> branch,
   vals |-> [PtrVals EXCEPT !.a = Load("a", "p"), !.b = Load("b", ptr),
                            !.q = phis]]

(* q is the element of this turn of the loop: both actions access it.      *)
Walk(g, calls) ==
  [Pointer(g, "q", Phi("x", {<<"e", "p">>, <<"c", "a">>}), NoBranch, calls)
   EXCEPT !.acts[1].idep = "q", !.vals.a.args = {"q"}]

PointerCalls == {<<k>> : k \in {X("a", "b", "e"), X("a", "b", Outside), V("a", "b", "e")}}

PointerFunctions ==
  \* nus, nus2: the loop goes on with the pointer it has, or with another
  {Pointer(Chase, ptr, Phi("x", {<<"a", "a">>, <<"b", again>>}), NoBranch, calls) :
     ptr \in {"a", "q"}, again \in {"p", "q", "b"}, calls \in PointerCalls}
  \* nus3: the loop in between replaces the pointer when it repeats
  \cup {Pointer(Twice, "q", Phi("x", {<<"a", "a">>, <<"x", again>>}), NoBranch, calls) :
     again \in {"p", "q", "a"}, calls \in PointerCalls}
  \* nus4: one way round the fork replaces the pointer
  \cup {Pointer(Fork2, "q", Phi("y", {<<"x", "a">>, <<"c", other>>}), NoBranch, calls) :
     other \in {"p", "a"}, calls \in PointerCalls}
  \* a list (rcu-test.c): a loads the next pointer through the last one
  \cup {Walk(List, calls) : calls \in {<<X("a", "a", "e"), X("a", "b", "e")>>,
                                       <<X("a", "b", "e")>>, <<X("a", "b", Outside)>>}}

(* A pointer handed into the labelled code (LTAKE) or out of it (LGIVE).   *)
HandedFunctions ==
  {[f EXCEPT !.acts[n].type = IF n = 1 THEN "Take" ELSE "Give"] :
     f \in {Pointer(Twice, ptr, Phi("x", {<<"a", "a">>, <<"x", "q">>}), NoBranch, calls) :
              ptr \in {"a", "q"},
              calls \in {<<X("a", "b", "e")>>, <<X("a", "b", Outside)>>}},
     n \in {1, 2}}

(* A push between two accesses, tied to them by edges or to all before and *)
(* after it (__rmc_push_here); a release of all that came before (LPRE).   *)
Push(bb) == [kind |-> "push", block |-> bb]

Around(ta, tb, tc, calls) ==
  [cfg |-> Row, acts |-> <<Kind("a", ta), Kind("b", tb), Kind("c", tc)>>,
   calls |-> calls, branch |-> NoBranch,
   vals |-> [PtrVals EXCEPT !.a = ValOf("a", ta), !.b = ValOf("b", tb),
                            !.c = ValOf("c", tc)]]

AroundFunctions ==
  {Around(ta, "Nop", tc, calls) :
     ta \in {"SimpleWrites", "SimpleRead"}, tc \in {"SimpleWrites", "SimpleRead"},
     calls \in {<<V("a", "b", Outside), X("b", "c", Outside), Push("b")>>,
                <<Push("b"), V("pre", "b", Outside), X("b", "post", Outside)>>,
                <<Push("x"), V("pre", "b", "e"), X("a", "post", Outside)>>}}

(* One label on two blocks (reg_merge_test.cpp), and an action of several  *)
(* blocks (multiblocks.c) between two others.                              *)
Relabelled(f, name) == [f EXCEPT !.acts[2].name = name, !.acts[3].name = name]
Widened(f) == [f EXCEPT !.acts[2] = [@ EXCEPT !.bb = "x", !.out = "b", !.type = "Complex"]]

SpecialFunctions ==
  {Relabelled(Plain(Fork, "SimpleRead", tb, tc, <<k>>), "b") :
     tb \in {"SimpleRead", "SimpleWrites"}, tc \in {"SimpleRead", "SimpleWrites"},
     k \in {X("a", "b", "e"), V("a", "b", "e")}}
  \cup {Widened(Around("SimpleRead", "Nop", "SimpleWrites", <<k1, k2>>)) :
     k1 \in {X("a", "b", "e"), V("a", "b", "e")}, k2 \in {X("b", "c", Outside), V("b", "post", "e")}}

(* A chain of four actions through two no-ops, the vector actions_ in      *)
(* every order.                                                            *)
Chain(acts, calls) ==
  [cfg |-> Row, acts |-> acts, calls |-> calls, branch |-> NoBranch,
   vals |-> [PtrVals EXCEPT !.a = Load("a", "p")]]
ChainActions == <<ReadAt("a", "p"), At("x", "Nop"), At("b", "Nop"), At("y", "SimpleWrites")>>
ChainFunctions ==
  {Chain([n \in 1 .. 4 |-> ChainActions[order[n]]], calls) :
     order \in Permutations(1 .. 4),
     calls \in {<<X("a", "x", "e"), X("x", "b", Outside), V("b", "y", "e")>>,
               <<V("x", "b", "a"), V("b", "y", "e"), V("a", "x", "e")>>}}

(* Two edges of one pair of actions. *)
SamePair(ta, tb, calls) == Plain(Spin, ta, tb, "SimpleRead", calls)
PairFunctions ==
  {SamePair(ta, "SimpleWrites", calls) :
     ta \in {"SimpleRead", "SimpleRMW"},
     calls \in {<<X("a", "b", "e"), V("a", "b", Outside)>>,
               <<X("a", "b", "e"), X("a", "b", Outside), V("b", "c", "e")>>}}

(* A push after an action that has a post edge: the block it is in belongs *)
(* to the dummy action.                                                    *)
PushAfterPost == {Around("SimpleRead", "SimpleRead", "SimpleWrites", <<X("b", "post", Outside), Push("y")>>)}

(* Edges bound in the two arms of a branch. *)
BoundInArms ==
  {[Around("SimpleRead", "Nop", "SimpleWrites", <<X("a", "b", "c"), X("b", "c", "x")>>)
    EXCEPT !.cfg = Arms, !.acts[1].bb = "y", !.acts[1].out = "y",
           !.vals.a.block = "y",
           !.acts[2].bb = "b", !.acts[2].out = "b", !.acts[3].bb = "a", !.acts[3].out = "a"]}

MCFunctions ==
  PlainFunctions \cup PointerFunctions \cup HandedFunctions
  \cup AroundFunctions \cup SpecialFunctions \cup ChainFunctions
  \cup PairFunctions \cup PushAfterPost \cup BoundInArms

(* A list whose next pointer is loaded before the element is used.         *)
NextFirst == {Walk(Turns, <<X("a", "b", "e")>>)}
=============================================================================
