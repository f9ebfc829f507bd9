---------------------------- MODULE FindActions ----------------------------
(***************************************************************************)
(* How the pass finds its actions and what it takes them for: findActions  *)
(* splits what is between a call of __rmc_action_register and its          *)
(* __rmc_action_close into blocks of its own, and analyzeAction classifies *)
(* it by its accesses.  The code of a function is a sequence of blocks     *)
(* [ins, succ]; block 1 is the entry.  An instruction is [op, id, sc]: a   *)
(* register and its close have the id of their action, any other has an id *)
(* of its own.  The id of a register stands for the call; that several     *)
(* actions may have one label plays no part here.                          *)
(***************************************************************************)
EXTENDS Naturals, FiniteSets, SequencesExt

CONSTANT Sources      \* the functions, as the front end leaves them

(* "pure" stands for calls that access no memory, "other" for the rest.    *)
Accesses == {"load", "store", "rmw", "call", "fence"}
Ops == Accesses \cup {"register", "close", "take", "give", "pure", "other"}

Instrs == [op : Ops, id : Nat, sc : BOOLEAN]
Codes == {c \in Seq([ins : Seq(Instrs), succ : SUBSET Nat]) :
            \A b \in DOMAIN c : c[b].succ \subseteq DOMAIN c}

ASSUME SourcesAssumption == Sources \subseteq Codes

(* Where the instructions are, and the ends of the blocks after them. *)
Sites(c)  == UNION {{<<b, k>> : k \in DOMAIN c[b].ins} : b \in DOMAIN c}
Places(c) == UNION {{<<b, k>> : k \in 1 .. Len(c[b].ins) + 1} : b \in DOMAIN c}
At(c, p)  == c[p[1]].ins[p[2]]
Calls(c, op, id) == {p \in Sites(c) : At(c, p).op = op /\ At(c, p).id = id}
Registered(c) == {id \in {At(c, p).id : p \in Sites(c)} : Calls(c, "register", id) # {}}

(* A register call has one close call (RMC.cpp:703, "hasOneUse").          *)
ASSUME CallsAssumption ==
  \A s \in Sources : \A id \in Registered(s) :
    \A op \in {"register", "close"} : \E p \in Sites(s) : Calls(s, op, id) = {p}

(* A close uses what its register returns, so in a block it is behind it;  *)
(* and labels are expressions, so what opens inside one closes inside it.  *)
Opens(c, b, j, id)  == c[b].ins[j].op = "register" /\ c[b].ins[j].id = id
Closes(c, b, k, id) == c[b].ins[k].op = "close" /\ c[b].ins[k].id = id
Nested(c, ids) ==
  \A b \in DOMAIN c : \A j, k \in DOMAIN c[b].ins : \A m, n \in ids :
    Opens(c, b, j, m) /\ Closes(c, b, k, n) =>
      IF m = n THEN j < k
      ELSE j < k => \E l \in j + 1 .. k - 1 : Closes(c, b, l, m) \/ Opens(c, b, l, n)

ASSUME NestedAssumption == \A s \in Sources : Nested(s, Registered(s))

VARIABLES source,         \* the code before the pass
          code,           \* func_, as the pass splits it
          registrations,  \* the register calls still to be looked at
          acts,           \* actions_
          turn,           \* the action to be analyzed next
          step            \* how far run() is

findVars == <<source, code, registrations, acts, turn, step>>

TheCall(c, op, id) == CHOOSE p \in Calls(c, op, id) : TRUE

(* llvm::SplitBlock: the instructions from k on move to a new block, with  *)
(* the arcs out of the old one.                                            *)
SplitAt(c, b, k) ==
  Append([c EXCEPT ![b] = [ins |-> SubSeq(@.ins, 1, k - 1), succ |-> {Len(c) + 1}]],
         [ins |-> SubSeq(c[b].ins, k, Len(c[b].ins)), succ |-> c[b].succ])

(* splitBlock before a register or close call; the new block is the last.  *)
SplitBlock(c, op, id) == LET p == TheCall(c, op, id) IN SplitAt(c, p[1], p[2])

Preds(c, b) == {p \in DOMAIN c : b \in c[p].succ}
SinglePred(c, b) == CHOOSE p \in Preds(c, b) : Cardinality(Preds(c, b)) = 1

DeleteCall(c, op, id) ==
  LET p == TheCall(c, op, id) IN [c EXCEPT ![p[1]].ins = RemoveAt(@, p[2])]

FindInit ==
  /\ source \in Sources
  /\ code = source
  /\ registrations = Registered(source)
  /\ acts = <<>> /\ turn = 1
  /\ step = "split"

Action(id, bb, out) ==
  [id |-> id, bb |-> bb, out |-> out, type |-> "Complex", allSC |-> FALSE, odep |-> 0]

SplitOffOnce(id) ==  \* mutant: no empty block in front
  LET main == SplitBlock(code, "register", id)
      end == SplitBlock(main, "close", id)
  IN /\ code' = DeleteCall(DeleteCall(end, "register", id), "close", id)
     /\ acts' = Append(acts, Action(id, Len(main), Len(end)))

(* One turn of findActions' loop: an empty block, the action's own blocks, *)
(* the rest.  The rest always has a single predecessor, the block it was   *)
(* split from, so nothing needs to be shaved off it.  Until the loop is    *)
(* over the action has the block after its out block.                      *)
SplitOff(id) ==
  LET start == SplitBlock(code, "register", id)
      main == SplitBlock(start, "register", id)
      end == SplitBlock(main, "close", id)
  IN /\ code' = DeleteCall(DeleteCall(end, "register", id), "close", id)
     /\ acts' = Append(acts, Action(id, Len(main), Len(end)))

(* The set of registrations is ordered by pointers. *)
FindAction ==
  /\ step = "split"
  /\ \E id \in registrations :
       /\ SplitOff(id)
       /\ registrations' = registrations \ {id}
  /\ UNCHANGED <<source, turn, step>>

FixOut ==
  /\ step = "split"
  /\ registrations = {}
  /\ acts' = [a \in DOMAIN acts |-> [acts[a] EXCEPT !.out = SinglePred(code, @)]]
  /\ step' = "analyze"
  /\ UNCHANGED <<source, code, registrations, turn>>

(* analyzeAction: what the out block does. *)
Body(a) == code[a.out].ins
With(a, ops) == {k \in DOMAIN Body(a) : Body(a)[k].op \in ops}
AllSC(a) == With(a, {"call", "pure", "fence"}) = {}
              /\ \A k \in With(a, {"load", "store", "rmw"}) : Body(a)[k].sc
Only(a, ops) == With(a, ops) # {} /\ With(a, Accesses \ ops) = {}
One(a, op) == Only(a, {op}) /\ Cardinality(With(a, {op})) = 1
SoleLoad(a) == Body(a)[CHOOSE k \in With(a, {"load", "rmw"}) : TRUE].id

TypeOfBlock(a) ==
  CASE One(a, "load")       -> "SimpleRead"
    [] Only(a, {"store"})   -> "SimpleWrites"
    [] One(a, "rmw")        -> "SimpleRMW"
    [] With(a, Accesses) = {} -> "Nop"
    [] OTHER                -> "Complex"

ClassifiedByOut(a) ==  \* mutant: the blocks before the out block are forgotten
  [a EXCEPT !.allSC = AllSC(a), !.type = TypeOfBlock(a),
            !.odep = IF TypeOfBlock(a) \in {"SimpleRead", "SimpleRMW"} THEN SoleLoad(a) ELSE 0]

Classified(a) ==
  IF a.out # a.bb THEN a
  ELSE [a EXCEPT !.allSC = AllSC(a), !.type = TypeOfBlock(a),
                 !.odep = IF TypeOfBlock(a) \in {"SimpleRead", "SimpleRMW"}
                          THEN SoleLoad(a) ELSE 0]

(* handleTransfer: the first transfer in the out block decides, whatever   *)
(* else the action does, and its call is replaced by its operand.          *)
TransferOf(a) == With(a, {"take", "give"})
FirstTransfer(a) == CHOOSE k \in TransferOf(a) : \A m \in TransferOf(a) : k <= m
Transferred(a) ==
  LET call == Body(a)[FirstTransfer(a)]
  IN IF call.op = "take" THEN [a EXCEPT !.type = "Take", !.odep = call.id]
                         ELSE [a EXCEPT !.type = "Give"]
CallReplaced(a) == [code EXCEPT ![a.out].ins[FirstTransfer(a)].op = "other"]

(* run() analyzes the actions in the order of the vector. *)
AnalyzeAction ==
  /\ step = "analyze"
  /\ turn <= Len(acts)
  /\ LET a == acts[turn] IN
     IF TransferOf(a) # {}
     THEN /\ acts' = [acts EXCEPT ![turn] = Transferred(@)]
          /\ code' = CallReplaced(a)
     ELSE /\ acts' = [acts EXCEPT ![turn] = Classified(@)]
          /\ UNCHANGED code
  /\ turn' = turn + 1
  /\ UNCHANGED <<source, registrations, step>>

FindNext == FindAction \/ FixOut \/ AnalyzeAction

FindSpec == FindInit /\ [][FindNext]_findVars

-----------------------------------------------------------------------------
(* The places that are met from one on, before or at a place of stops.    *)
Onward(c, p) == IF p \in Sites(c) THEN {<<p[1], p[2] + 1>>} ELSE {<<b, 1>> : b \in c[p[1]].succ}

Reach(c, from, stops) ==
  LET Explore[S \in SUBSET Places(c)] ==
        LET T == S \cup UNION {Onward(c, p) : p \in S \ stops}
        IN IF T = S THEN S ELSE Explore[T]
  IN Explore[{from}]

InsOf(c, ps) == {At(c, p) : p \in ps \cap Sites(c)}

(* The program's side: the instructions that run after the register call   *)
(* of an action and before its close call, judged on the code that the     *)
(* front end left.                                                         *)
Inside(c, id) ==
  LET r == TheCall(c, "register", id)
      z == TheCall(c, "close", id)
  IN InsOf(c, Reach(c, <<r[1], r[2] + 1>>, {z}) \ {z})

(* The close call uses what its register call returns, and code that is    *)
(* never reached has been removed: from the one to the other there is a    *)
(* way.                                                                    *)
ASSUME ReachedAssumption ==
  \A s \in Sources : \A id \in Registered(s) :
    LET r == TheCall(s, "register", id)
        z == TheCall(s, "close", id)
    IN z \in Reach(s, <<r[1], r[2] + 1>>, {z})

(* The pass's side: the instructions from bb to the end of out. *)
End(c, b) == <<b, Len(c[b].ins) + 1>>
Between(c, bb, out) == InsOf(c, Reach(c, <<bb, 1>>, {End(c, out)}))
Owned(a) == Between(code, a.bb, a.out)

DataOf(S) == {i.id : i \in {j \in S : j.op \notin {"register", "close"}}}

(* Whatever the order in which the actions are found, and although one may *)
(* be inside another and splits its blocks: an action is what is between   *)
(* its calls, no more and no less; its first block is no other action's    *)
(* first or last; and before it and after it there is one block that is no *)
(* action's, where getPreAction and getPostAction look for it.             *)
ActionsApart ==
  step = "analyze" =>
    /\ \A n \in DOMAIN acts :
         LET a == acts[n] IN
         /\ DataOf(Owned(a)) = DataOf(Inside(source, a.id))
         /\ \E p, q \in DOMAIN code :
              /\ Preds(code, a.bb) = {p} /\ code[a.out].succ = {q}
              /\ \A m \in DOMAIN acts : acts[m].bb \notin {p, q}
    /\ \A m, n \in DOMAIN acts : acts[m].bb \in {acts[n].bb, acts[n].out} => m = n

(* The type and the dependency given to an action never understate what it *)
(* does: the rest of the pass takes them for all there is.  Transfers are  *)
(* an exception by design.                                                 *)
TypesTell ==
  \A n \in 1 .. turn - 1 :
    LET a == acts[n]
        does == {i \in Inside(source, a.id) : i.op \in Accesses}
    IN /\ a.type = "Nop" => does = {}
       /\ a.type = "SimpleWrites" => does # {} /\ \A i \in does : i.op = "store"
       /\ a.type = "SimpleRead" => \E i \in does : does = {i} /\ i.op = "load" /\ a.odep = i.id
       /\ a.type = "SimpleRMW" => \E i \in does : does = {i} /\ i.op = "rmw" /\ a.odep = i.id
       /\ a.type \in {"Take", "Give"} =>
            \E i \in Inside(source, a.id) : i.op \in {"take", "give"}
       /\ a.allSC => \A i \in does : i.sc
=============================================================================
