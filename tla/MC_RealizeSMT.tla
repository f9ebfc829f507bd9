--------------------------- MODULE MC_RealizeSMT ---------------------------
(***************************************************************************)
(* Functions for the model checker: message passing through flags, loops,  *)
(* branches and pointers, for each architecture.                           *)
(***************************************************************************)
EXTENDS RealizeSMT

MCBlocks == {"e", "a", "b", "c", "x"}
MCLabels == {"a", "b", "c", "x"}

Graph(arcs) ==
  LET After(b) == {s \in MCBlocks : <<b, s>> \in arcs} IN
  [succ |-> [b \in MCBlocks |-> After(b)], entry |-> "e",
   rets |-> {b \in MCBlocks : After(b) = {} /\ \E a \in MCBlocks : <<a, b>> \in arcs}]

Line == Graph({<<"e","a">>, <<"a","b">>, <<"b","c">>})
\* wait for a, then b
Spin == Graph({<<"e","a">>, <<"a","x">>, <<"x","a">>, <<"x","b">>})
\* a, and b on one of two ways
Fork == Graph({<<"e","a">>, <<"a","x">>, <<"x","b">>, <<"x","c">>, <<"b","c">>})
\* a and b again and again
Loop == Graph({<<"e","a">>, <<"a","b">>, <<"b","x">>, <<"x","a">>, <<"x","c">>})
\* a once, then b again and again
Chase == Graph({<<"e","a">>, <<"a","x">>, <<"x","b">>, <<"b","x">>, <<"b","c">>})
\* no way out, and none on one of two ways
Forever == Graph({<<"e","a">>, <<"a","b">>, <<"b","a">>})
Trap == Graph({<<"e","a">>, <<"a","b">>, <<"a","x">>, <<"x","x">>})

MCGraphs == {Line, Spin, Fork, Loop, Chase, Forever, Trap}

Load(b, ptr) == [op |-> "load", block |-> b, args |-> {ptr}, ins |-> {}]
Rmw(b)       == [op |-> "rmw", block |-> b, args |-> {}, ins |-> {}]
Phi(b, arms) == [op |-> "phi", block |-> b, args |-> {}, ins |-> arms]
Other(b)     == [op |-> "other", block |-> b, args |-> {}, ins |-> {}]

(* The value an action reads has the name of its block. *)
Action(b, type, ptr) ==
  [name |-> b, bb |-> b, out |-> b, type |-> type,
   odep |-> IF type \in {"SimpleRead", "SimpleRMW"} THEN b ELSE NoValue,
   idep |-> IF type = "SimpleRead" THEN ptr ELSE NoValue]
ValOf(b, type, ptr) ==
  CASE type = "SimpleRead" -> Load(b, ptr)
    [] type = "SimpleRMW"  -> Rmw(b)
    [] OTHER               -> Other(b)

Call(type, src, dst, bind) ==
  [kind |-> "edge", type |-> type, src |-> src, dst |-> dst, bind |-> bind]
X(src, dst, bind) == Call(ExecutionEdge, src, dst, bind)
V(src, dst, bind) == Call(VisibilityEdge, src, dst, bind)
P(src, dst, bind) == Call(PushEdge, src, dst, bind)

(* Two actions; ptr is the pointer the second one uses, and q a phi.       *)
Two(g, ta, tb, ptr, q, branch, sc, calls) ==
  [cfg |-> g, acts |-> <<Action("a", ta, "p"), Action("b", tb, ptr)>>,
   calls |-> calls, sc |-> sc,
   branch |-> [n \in MCBlocks |-> IF n = branch THEN {"a"} ELSE {}],
   vals |-> [e |-> Other("e"), p |-> Other("e"), q |-> q,
             a |-> ValOf("a", ta, "p"), b |-> ValOf("b", tb, ptr)]]

Plain(g, ta, tb, branch, sc, call) ==
  Two(g, ta, tb, "p", Other("e"), branch, sc, <<call>>)

AccessTypes == {"SimpleRead", "SimpleWrites", "SimpleRMW"}
PlainFunctions ==
  {Plain(g, ta, tb, "none", {}, call) :
     g \in {Line, Spin, Fork, Loop}, ta \in AccessTypes, tb \in AccessTypes,
     call \in {X("a", "b", Outside), X("a", "b", "e"), V("a", "b", Outside)}}
  \cup {Plain(g, "SimpleRead", tb, "x", {}, X("a", "b", bind)) :
     g \in {Spin, Fork, Loop}, tb \in AccessTypes, bind \in {"e", Outside}}
  \cup {Plain(g, "SimpleWrites", "SimpleRead", "none", {}, P("a", "b", bind)) :
     g \in {Line, Spin, Fork, Loop}, bind \in {"e", Outside}}
  \cup {Plain(Loop, ta, tb, "none", sc, call) :
     ta \in {"SimpleRead", "SimpleWrites"}, tb \in {"SimpleWrites", "SimpleRMW"},
     sc \in {{"a"}, {"b"}, {"a", "b"}}, call \in {X("a", "b", "e"), V("a", "b", "e")}}
  \cup {Plain(g, "SimpleRead", "SimpleRead", "none", {}, X("a", "b", "e")) :
     g \in {Forever, Trap}}

PointerFunctions ==
  {Two(g, "SimpleRead", "SimpleRead", "a", Other("e"), "none", {}, <<call>>) :
     g \in {Line, Fork, Loop}, call \in {X("a", "b", "e"), X("a", "b", Outside), V("a", "b", "e")}}
  \cup {Two(Chase, "SimpleRead", "SimpleRead", "q",
            Phi("x", {<<"a", "a">>, <<"b", again>>}), "none", {}, <<X("a", "b", bind)>>) :
     again \in {"p", "q", "b"}, bind \in {"e", Outside}}

(* Three actions: two reads through pointers and what is done with them;   *)
(* a no-op between two accesses.                                           *)
Three(g, ta, tb, tc, ptr, branch, calls) ==
  LET f == Two(g, ta, tb, ptr, Other("e"), branch, {}, calls) IN
  [cfg |-> g, acts |-> f.acts \o <<Action("c", tc, "b")>>, calls |-> calls,
   sc |-> {}, branch |-> f.branch,
   vals |-> [v \in DOMAIN f.vals \cup {"c"} |->
               IF v = "c" THEN ValOf("c", tc, "b") ELSE f.vals[v]]]

ThreeFunctions ==
  {Three(Line, "SimpleRead", "SimpleRead", tc, "a", "none", <<X("a", "c", bind)>>) :
     tc \in {"SimpleRead", "SimpleWrites"}, bind \in {"e", Outside}}
  \cup {Three(Line, ta, "Nop", tc, "p", "none", <<k, X("b", "c", "e")>>) :
     ta \in {"SimpleRead", "SimpleWrites"}, tc \in {"SimpleRead", "SimpleWrites"},
     k \in {X("a", "b", "e"), V("a", "b", Outside)}}

(* Two edges over three accesses, which share what cuts them.              *)
ChainFunctions ==
  {Three(g, ta, tb, tc, "p", "none", <<first, second>>) :
     g \in {Line, Fork, Loop}, ta \in {"SimpleRead", "SimpleWrites"},
     tb \in {"SimpleRead", "SimpleWrites"}, tc \in {"SimpleRead", "SimpleWrites"},
     first \in {X("a", "b", "e"), V("a", "b", Outside)},
     second \in {X("b", "c", "e"), V("b", "c", Outside)}}

MCFunctions == PlainFunctions \cup PointerFunctions \cup ThreeFunctions \cup ChainFunctions

MCTargets == {"x86", "POWER", "ARM", "ARMv8"}
=============================================================================
