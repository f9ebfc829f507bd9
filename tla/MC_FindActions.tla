-------------------------- MODULE MC_FindActions --------------------------
(***************************************************************************)
(* Functions whose labels stand one after the other, inside each other, in *)
(* loops and on expressions with branches of their own.                    *)
(***************************************************************************)
EXTENDS FindActions

Instr(op, id, sc) == [op |-> op, id |-> id, sc |-> sc]
Open(id)  == <<Instr("register", id, FALSE)>>
Close(id) == <<Instr("close", id, FALSE)>>
Do(op, id) == <<Instr(op, id, FALSE)>>
L(id, body) == Open(id) \o body \o Close(id)

B(ins, succ) == [ins |-> ins, succ |-> succ]

(* What a labelled expression may do, in one block. *)
Small ==
  {<<>>} \cup {<<Instr(op, 11, sc)>> : op \in {"load", "store", "rmw", "call", "pure"}, sc \in BOOLEAN}
    \cup {<<Instr(p, 11, sc), Instr(q, 12, TRUE)>> :
            p \in {"load", "store", "rmw", "pure", "other"},
            q \in {"load", "store", "rmw", "fence"}, sc \in BOOLEAN}
    \cup {Do("load", 11) \o Do(op, 12) : op \in {"take", "give"}}

(* Two labels in a row, with and without something between them. *)
Row == {<<B(L(1, x) \o y \o L(2, Do("store", 21)), {2}), B(<<>>, {})>> :
          x \in Small, y \in {<<>>, Do("store", 31)}}

(* A label inside another: at its start, at its end, as all of it. *)
Inner == {<<B(Do("other", 30) \o L(1, x \o L(2, y) \o z) \o Do("store", 31), {})>> :
             x \in {<<>>, Do("load", 11)}, y \in Small, z \in {<<>>, Do("take", 15), Do("store", 16)}}

(* A conditional expression: one of two blocks runs, and the label closes  *)
(* where they meet; there may be another label in an arm.                  *)
Choice == {<<B(Open(1) \o x, {2, 3}), B(y, {4}), B(Do("store", 13), {4}),
             B(z \o Close(1) \o Do("load", 31) \o L(3, Do("load", 32)), {})>> :
             x \in {<<>>, Do("load", 14)}, y \in {<<>>, L(2, Do("load", 21)), Do("rmw", 22)},
             z \in {<<>>, Do("other", 15), Do("take", 16), Do("load", 17)}}

(* A loop, with labels around it, in it, and after it. *)
Loops == {<<B(Do("other", 30) \o x, {2}), B(L(2, Do("load", 21)) \o y, {2, 3}),
            B(z \o L(3, Do("store", 31)), {})>> :
            <<x, z>> \in {<<Open(1), Close(1)>>, <<Open(1), Do("store", 12) \o Close(1)>>,
                          <<L(1, Do("store", 11)), <<>>>>},
            y \in {<<>>, Do("store", 22), L(4, <<>>)}}

MCSources == Row \cup Inner \cup Choice \cup Loops
=============================================================================
