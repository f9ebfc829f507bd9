-------------------------- MODULE MC_PathSearch --------------------------
(***************************************************************************)
(* Graphs of four blocks: a fork, a loop with an exit, two loops that      *)
(* share a block, a loop with two entries, all arcs, and a block apart.    *)
(***************************************************************************)
EXTENDS PathSearch

MCBlocks == {"e", "a", "b", "c"}

Graph(arcs, rets) ==
  [succ |-> [b \in MCBlocks |-> {s \in MCBlocks : <<b, s>> \in arcs}],
   entry |-> "e", rets |-> rets]

MCGraphs ==
  {Graph({<<"e","a">>, <<"e","b">>, <<"a","c">>, <<"b","c">>}, rets) : rets \in {{}, {"c"}}}
  \cup {Graph({<<"e","a">>, <<"a","b">>, <<"b","a">>, <<"b","c">>}, rets) : rets \in {{}, {"c"}}}
  \cup {Graph({<<"e","a">>, <<"a","b">>, <<"b","a">>, <<"a","c">>, <<"c","a">>}, {}),
        Graph({<<"e","a">>, <<"e","b">>, <<"a","b">>, <<"b","a">>, <<"b","b">>}, {"c"}),
        Graph({<<"e","a">>, <<"c","c">>, <<"c","a">>}, {"a", "b"}),
        Graph((MCBlocks \ {"b"}) \X (MCBlocks \ {"e"}), {"b"})}
=============================================================================
