---------------------------- MODULE PathSearch ----------------------------
(***************************************************************************)
(* The searches of PathCache.cpp: depth-first searches that share a set of *)
(* grey blocks, paths interned so that equal paths get equal ids, and the  *)
(* strongly connected components by two searches.  PathCache says what     *)
(* they return.                                                            *)
(***************************************************************************)
EXTENDS PathCache, FiniteSetsExt, SequencesExt

CONSTANT MaxQueries  \* how many queries a run asks

VARIABLES func,      \* the control-flow graph of the function
          entries,   \* entries_: of a path id, the block it starts with, the
                     \* id of the rest and its last block
          sccCache,  \* sccCache_: a set of [site, sccs]
          asked,     \* the queries answered so far
          answer     \* the last query and what it returned

vars == <<func, entries, sccCache, asked, answer>>

kEmptyPath == 0

(* The rest of a path is interned before the path. *)
Interned ==
  {es \in Seq([head : Blocks, tail : Nat, last : Blocks]) :
     \A k \in 1 .. Len(es) : es[k].tail < k}

(* backwardIterate *)
Pred(g, b) ==
  {c \in Blocks : b \in g.succ[c]} \cup (IF b = g.entry THEN g.rets ELSE {})

(* addToPath: cache_ maps each key to its id, so it is entries_ itself.    *)
AddToPathAnew(es, b, id) ==  \* mutant: the path is not looked up
  [entries |-> Append(es, [head |-> b, tail |-> id,
                           last |-> IF id = kEmptyPath THEN b ELSE es[id].last]),
   id |-> Len(es) + 1]

AddToPath(es, b, id) ==
  LET known == {k \in 1 .. Len(es) : es[k].head = b /\ es[k].tail = id} IN
  IF known # {} THEN [entries |-> es, id |-> Min(known)]
  ELSE [entries |-> Append(es, [head |-> b, tail |-> id,
                                last |-> IF id = kEmptyPath THEN b ELSE es[id].last]),
        id |-> Len(es) + 1]

ExtractPath(es, id) ==
  LET Path[k \in 0 .. Len(es)] ==
        IF k = kEmptyPath THEN <<>> ELSE <<es[k].head>> \o Path[es[k].tail]
  IN Path[id]

(* Puts b in front of all the paths found. *)
Prefixed(b, found) ==
  LET Add[n \in 0 .. Len(found.ids)] ==
        IF n = 0 THEN [found EXCEPT !.ids = <<>>]
        ELSE LET acc   == Add[n - 1]
                 added == AddToPath(acc.entries, b, found.ids[n])
             IN [acc EXCEPT !.entries = added.entries, !.ids = Append(@, added.id)]
  IN Add[Len(found.ids)]

(* The recursion of findAllSimplePaths; grey is passed on as it is shared. *)
(* Search[c] is what the recursive call c returns, which takes a step from *)
(* any block but the destination.                                          *)
Calls == [entries : Interned, grey : SUBSET Blocks, src : Blocks]

SearchFrom(Search, g, c) ==
  FoldSet(LAMBDA s, acc :
            LET sub == Search[[entries |-> acc.entries, grey |-> acc.grey, src |-> s]]
            IN [sub EXCEPT !.ids = acc.ids \o @],
          [entries |-> c.entries, grey |-> c.grey \cup {c.src}, ids |-> <<>>],
          Succ(g, c.src))

StepGreyKept(Search, g, c) ==  \* mutant: src is not taken out of grey
  IF c.src \in c.grey THEN [entries |-> c.entries, grey |-> c.grey, ids |-> <<>>]
  ELSE Prefixed(c.src, SearchFrom(Search, g, c))

Step(Search, g, c) ==
  IF c.src \in c.grey THEN [entries |-> c.entries, grey |-> c.grey, ids |-> <<>>]
  ELSE LET found == Prefixed(c.src, SearchFrom(Search, g, c)) IN
       [found EXCEPT !.grey = @ \ {c.src}]

Searches(g, dst) ==
  LET Search[c \in Calls] ==
        IF c.src = dst
        THEN LET added == AddToPath(c.entries, dst, kEmptyPath) IN
             [entries |-> added.entries, grey |-> c.grey, ids |-> <<added.id>>]
        ELSE Step(Search, g, c)
  IN Search

(* findAllReachableDFS: the blocks in the order the search leaves them.    *)
Visits == [grey : SUBSET Blocks, order : Seq(Blocks)]

ReachAll(Reach, st, S) ==
  FoldSet(LAMBDA b, acc : Reach[<<acc, b>>], st, S)

Reaching(g, back) ==
  LET Reach[v \in Visits \X Blocks] ==
        LET st == v[1]
            b  == v[2]
            below == ReachAll(Reach, [st EXCEPT !.grey = @ \cup {b}],
                              IF back THEN Pred(g, b) ELSE Succ(g, b))
        IN IF b \in st.grey THEN st ELSE [below EXCEPT !.order = Append(@, b)]
  IN Reach

(* findSCCs.  A block the second search does not reach maps to null. *)
FirstRootIsLast(g, skip) ==  \* mutant: the order is not reversed
  ReachAll(Reaching(g, FALSE), [grey |-> skip, order |-> <<>>], Blocks).order

FirstOrder(g, skip) ==
  Reverse(ReachAll(Reaching(g, FALSE), [grey |-> skip, order |-> <<>>], Blocks).order)

FindSCCs(g, skip) ==
  LET roots == FirstOrder(g, skip)
      UpTo[n \in 0 .. Len(roots)] ==
        IF n = 0 THEN [grey |-> skip, sccs |-> [b \in Blocks |-> Outside]]
        ELSE LET acc  == UpTo[n - 1]
                 root == roots[n]
                 r    == Reaching(g, TRUE)[<<[grey |-> acc.grey, order |-> <<>>], root>>]
             IN IF root \in acc.grey THEN acc
                ELSE [grey |-> r.grey,
                      sccs |-> [b \in Blocks |-> IF b \in ToSet(r.order) THEN root
                                                 ELSE acc.sccs[b]]]
  IN UpTo[Len(roots)].sccs

-----------------------------------------------------------------------------
Init ==
  /\ func \in Graphs
  /\ entries = <<>>
  /\ sccCache = {}
  /\ asked = 0
  /\ answer = [kind |-> "none"]

(* findAllSimplePaths of isEdgeCut: the bind site is the only grey block.  *)
FindPaths(site, src, dst) ==
  /\ asked < MaxQueries
  /\ asked' = asked + 1
  /\ LET found == Step(Searches(func, dst), func,
                       [entries |-> entries, grey |-> {site} \ {Outside}, src |-> src])
     IN /\ entries' = found.entries
        /\ answer' = [kind |-> "paths", site |-> site, src |-> src, dst |-> dst,
                      ids |-> found.ids]
  /\ UNCHANGED <<func, sccCache>>

(* findSCCsCached *)
FindSCCsCached(site) ==
  /\ asked < MaxQueries
  /\ asked' = asked + 1
  /\ sccCache' = IF \E c \in sccCache : c.site = site THEN sccCache
                 ELSE sccCache \cup
                        {[site |-> site, sccs |-> FindSCCs(func, {site} \ {Outside})]}
  /\ answer' = [kind |-> "sccs", site |-> site]
  /\ UNCHANGED <<func, entries>>

Next ==
  \/ \E site \in Blocks \cup {Outside}, src, dst \in Blocks : FindPaths(site, src, dst)
  \/ \E site \in Blocks \cup {Outside} : FindSCCsCached(site)

Spec == Init /\ [][Next]_vars

-----------------------------------------------------------------------------
(* Every search returns the simple paths that avoid the bind site, all of  *)
(* them and only those, whatever has been interned before.                 *)
PathsFound ==
  answer.kind = "paths" =>
    {ExtractPath(entries, answer.ids[n]) : n \in 1 .. Len(answer.ids)}
      = FindAllSimplePaths(func, {answer.site} \ {Outside}, answer.src, answer.dst)

(* Ids are canonical: a client may compare ids to compare paths, and the   *)
(* last block kept with an id is the last of its path.                     *)
IdsCanonical ==
  LET path == [k \in 1 .. Len(entries) |-> ExtractPath(entries, k)] IN
  \A k, l \in 1 .. Len(entries) :
    /\ path[k] = path[l] => k = l
    /\ entries[k].last = path[k][Len(path[k])]

(* Two blocks have the same canonical element iff each reaches the other   *)
(* without the bind site.                                                  *)
SCCsRight ==
  \A c \in sccCache : \A b1, b2 \in Blocks :
    c.sccs[b1] = c.sccs[b2] <=> SameSCC(func, {c.site} \ {Outside}, b1, b2)
=============================================================================
