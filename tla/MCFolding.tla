----------------------------- MODULE MCFolding ------------------------------
(***************************************************************************)
(* Expressions for Folding: every operation on two operands of a numeric   *)
(* type under every second operation, with literals up to the first one    *)
(* past the width, minus signs, comparisons and conditions above them.     *)
(* I32 has three bits, I64 four; F32 holds the even numbers up to 4, F64   *)
(* the numbers up to 6.                                                    *)
(***************************************************************************)
EXTENDS Folding

MCLeast == [I32 |-> -4, I64 |-> -8, F32 |-> -4, F64 |-> -6]
MCGreatest == [I32 |-> 3, I64 |-> 7, F32 |-> 4, F64 |-> 6]
MCStep == [I32 |-> 1, I64 |-> 1, F32 |-> 2, F64 |-> 1]

\* A name of each type: x, a number; b, a condition.
MCInputs ==
  {[i |-> IntegerValue(n), f |-> FloatValue(2 * n), b |-> BooleanValue(c)] :
     n \in {-1}, c \in BOOLEAN}

Number_(n, ty) == Literal(IF ty \in FloatTypes THEN FloatValue(n) ELSE IntegerValue(n), ty)

Operands(ty, numbers) ==
  {Number_(n, ty) : n \in numbers}
    \cup {UnaryOp("-", Number_(n, ty), ty) : n \in numbers \ {0}}
    \cup {Name(IF ty \in FloatTypes THEN "f" ELSE "i", ty)}

Few(ty) == CASE ty = "I32" -> {0, 1, 3, 4} [] ty = "I64" -> {1, 7, 8}
             [] ty = "F32" -> {1, 2, 3} [] ty = "F64" -> {0, 1, 5}

\* (a op b) op2 c, and a comparison of a op b with c in an if.
Nested(ty) ==
  {BinaryOp(BinaryOp(a, op, b, ty), op2, c, ty) :
     a \in Operands(ty, Few(ty)), b \in Operands(ty, Few(ty)), c \in Operands(ty, {2}),
     op \in Arithmetic, op2 \in {"+", "/"}}

Conditions(ty) ==
  {BinaryOp(BinaryOp(a, op, b, ty), cmp, c, "Boolean") :
     a \in Operands(ty, Few(ty)), b \in Operands(ty, Few(ty)), c \in Operands(ty, {1}),
     op \in {"-", "/"}, cmp \in Comparisons}

Truth == {Literal(BooleanValue(c), "Boolean") : c \in BOOLEAN} \cup {Name("b", "Boolean")}

Logic == {BinaryOp(UnaryOp("!", a, "Boolean"), op, b, "Boolean") :
            a \in Truth, b \in Truth, op \in {"&&", "||", "==", "!="}}

Strings == {BinaryOp(Literal(StringValue(<<"s">>), "String"), op,
                     Literal(StringValue(t), "String"), IF op = "+" THEN "String" ELSE "Boolean") :
              t \in {<<>>, <<"s">>}, op \in {"+", "=="}}

OneMinusOne == BinaryOp(Number_(1, "I32"), "-", Number_(1, "I32"), "I32")
Fault == BinaryOp(Number_(1, "I32"), "/", OneMinusOne, "I32")

Ifs == {If(c, <<Other(<<OneMinusOne, Fault>>, "I32")>>, "I32") : c \in Logic}
         \cup {If(c, <<OneMinusOne, Fault>>, "I32") : c \in Logic \cup Conditions("I32")}
         \cup {UnaryOp("-", If(c, <<OneMinusOne, Number_(3, "I32")>>, "I32"), "I32") : c \in Logic}

Negations == {UnaryOp("-", BinaryOp(a, op, b, ty), ty) :
                a \in Operands("I32", Few("I32")), b \in Operands("I32", {1, 3}),
                op \in Arithmetic, ty \in {"I32"}}

Exprs == UNION {Nested(ty) : ty \in IntegerTypes \cup FloatTypes}
           \cup UNION {Conditions(ty) : ty \in {"I64", "F32", "F64"}}
           \cup Logic \cup Strings \cup Ifs \cup Negations

\* Every expression in a let; an operation in each of the other places.
MCModules ==
  {[lets |-> e, impls |-> OneMinusOne, functions |-> Fault, defaults |-> OneMinusOne] : e \in Exprs}
=============================================================================
