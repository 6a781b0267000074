------------------------------ MODULE MCSkills ------------------------------
(* Small instances of Skills: an empty, a single and an unsorted list, and    *)
(* expressions with a division by zero, an unbound name, a name bound to no   *)
(* number, a function call, and operators outside the grammar.               *)
EXTENDS Skills

ErrorFaults == {"error"}

MCTransforms == {"square"}   \* the identity makes the same states with smaller numbers
MCLists == {<<>>, <<3>>, <<4, -1>>}
MCNames == {"fresh", "taken"}
MCBindings == [s |-> <<12, 1>>, n |-> <<4, 1>>, half |-> <<1, 2>>, word |-> <<>>]

Num(v) == [kind |-> "number", value |-> v]
Var(id) == [kind |-> "name", id |-> id]
Bin(op, l, r) == [kind |-> "bin", op |-> op, left |-> l, right |-> r]
Unary(op, o) == [kind |-> "unary", op |-> op, operand |-> o]
Call == [kind |-> "call"]

\* s / n - half ** 2, 1 / (n - 4), 0 * unbound, 1 / 0 + f(), -n * word,
\* s % n, not 1
MCExpressions == <<
    <<Var("s"), Var("n"), Bin("Div", 1, 2), Var("half"), Num(2), Bin("Pow", 4, 5), Bin("Sub", 3, 6)>>,
    <<Num(1), Var("n"), Num(4), Bin("Sub", 2, 3), Bin("Div", 1, 4)>>,
    <<Num(0), Var("unbound"), Bin("Mult", 1, 2)>>,
    <<Num(1), Num(0), Bin("Div", 1, 2), Call, Bin("Add", 3, 4)>>,
    <<Var("n"), Unary("USub", 1), Var("word"), Bin("Mult", 2, 3)>>,
    <<Var("s"), Var("n"), Bin("Mod", 1, 2)>>,
    <<Num(1), Unary("Not", 1)>> >>
=============================================================================
