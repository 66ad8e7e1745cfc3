------------------------------ MODULE Folding -------------------------------
(***************************************************************************)
(* The constant folding pass (ir/fold).                                    *)
(*                                                                         *)
(* The pass replaces an operation on two literals by its result, in the    *)
(* width of the operands, and an `if` with a literal condition by its      *)
(* branch.  What a backend would have to decide (an overflow, a division   *)
(* by zero, a float that is not finite) it leaves alone.                   *)
(*                                                                         *)
(* Numbers.  An integer type has the words Least[w] .. Greatest[w].  A     *)
(* float type holds the multiples of Step[w] up to Greatest[w]; a result   *)
(* between two of them is rounded, one beyond them is not finite.  A       *)
(* string is a sequence of characters.  Signed zero is left out.           *)
(***************************************************************************)
EXTENDS Integers, Sequences

CONSTANTS
  Modules,     \* the modules to fold: from the places to their expressions
  Inputs,      \* what the names of an expression can stand for
  Least, Greatest, Step   \* the numbers of each width

IntegerTypes == {"I32", "I64"}
FloatTypes == {"F32", "F64"}
Arithmetic == {"+", "-", "*", "/", "%"}
Comparisons == {"<", "<=", ">", ">=", "==", "!="}

\* The places of a module that hold an expression the pass folds.
Places == <<"impls", "functions", "lets", "defaults">>

-----------------------------------------------------------------------------
(***************************************************************************)
(* Expressions.  `other` is any node that the pass keeps, with the         *)
(* expressions in it; a literal's value has a kind, so 1 is not 1.0.       *)
(***************************************************************************)
IntegerValue(n) == [kind |-> "integer", v |-> n]
FloatValue(n) == [kind |-> "float", v |-> n]
BooleanValue(b) == [kind |-> "boolean", v |-> b]
StringValue(s) == [kind |-> "string", v |-> s]

Literal(value, ty) == [node |-> "literal", value |-> value, ty |-> ty]
Name(x, ty) == [node |-> "name", name |-> x, ty |-> ty]
BinaryOp(l, op, r, ty) ==
  [node |-> "binary", op |-> op, left |-> l, right |-> r, ty |-> ty]
UnaryOp(op, e, ty) == [node |-> "unary", op |-> op, operand |-> e, ty |-> ty]
\* An `if` has one branch or two.
If(c, branches, ty) ==
  [node |-> "if", condition |-> c, branches |-> branches, ty |-> ty]
Other(children, ty) == [node |-> "other", children |-> children, ty |-> ty]

None == [node |-> "none"]

Magnitude(n) == IF n < 0 THEN -n ELSE n
Sign(n) == IF n < 0 THEN -1 ELSE 1

\* Division rounds towards zero, and the remainder has the sign of the left.
Quotient(a, b) == Sign(a) * Sign(b) * (Magnitude(a) \div Magnitude(b))
Remainder(a, b) == a - b * Quotient(a, b)

Compare(a, op, b) ==
  CASE op = "<" -> a < b [] op = "<=" -> a <= b [] op = ">" -> a > b
    [] op = ">=" -> a >= b [] op = "==" -> a = b [] op = "!=" -> a # b

Compute(a, op, b) ==
  CASE op = "+" -> a + b [] op = "-" -> a - b [] op = "*" -> a * b
    [] op = "/" -> Quotient(a, b) [] op = "%" -> Remainder(a, b)

-----------------------------------------------------------------------------
(***************************************************************************)
(* The rules for two literals (fold/ops.rs).                               *)
(***************************************************************************)

\* Whether an integer is a word of the width: try_from, the checked operations.
Fits(n, w) == n \in Least[w] .. Greatest[w]

\* The nearest float of the width, towards zero.
Rounded(n, w) == Sign(n) * Step[w] * (Magnitude(n) \div Step[w])
IsFinite(n, w) == Magnitude(n) <= Greatest[w]

\* A literal whose type is the type of the operation; a comparison is a
\* Boolean.
NumericResult(value, ty) ==
  Literal(value, IF value.kind = "boolean" THEN "Boolean" ELSE ty)

\* Mutant: only a division by zero stays.
FoldIntegersUnchecked(l, op, r, w, ty) ==
  IF op \in Comparisons THEN NumericResult(BooleanValue(Compare(l, op, r)), ty)
  ELSE IF op \in Arithmetic /\ ~ (op \in {"/", "%"} /\ r = 0)
  THEN NumericResult(IntegerValue(Compute(l, op, r)), ty)
  ELSE None

\* Two integers of a width.  The least integer divided by -1 overflows, and
\* so does its remainder.
FoldIntegerPair(l, op, r, w, ty) ==
  IF ~ Fits(l, w) \/ ~ Fits(r, w) THEN None
  ELSE IF op \in Comparisons THEN NumericResult(BooleanValue(Compare(l, op, r)), ty)
  ELSE IF /\ op \in Arithmetic
          /\ op \in {"/", "%"} => r # 0 /\ Fits(Quotient(l, r), w)
          /\ Fits(Compute(l, op, r), w)
  THEN NumericResult(IntegerValue(Compute(l, op, r)), ty)
  ELSE None

\* Two floats: each operand is rounded to the width first.
FoldFloatPair(l, op, r, w, ty) ==
  LET a == Rounded(l, w)
      b == Rounded(r, w)
  IN  IF op \in Comparisons THEN NumericResult(BooleanValue(Compare(a, op, b)), ty)
      ELSE IF /\ op \in Arithmetic /\ (op \in {"/", "%"} => b # 0)
              /\ IsFinite(Rounded(Compute(a, op, b), w), w)
      THEN NumericResult(FloatValue(Rounded(Compute(a, op, b), w)), ty)
      ELSE None

FoldBooleanPair(l, op, r) ==
  CASE op = "&&" -> Literal(BooleanValue(l /\ r), "Boolean")
    [] op = "||" -> Literal(BooleanValue(l \/ r), "Boolean")
    [] op = "==" -> Literal(BooleanValue(l = r), "Boolean")
    [] op = "!=" -> Literal(BooleanValue(l # r), "Boolean")
    [] OTHER -> None

FoldStringPair(l, op, r) ==
  IF op = "+" THEN Literal(StringValue(l \o r), "String") ELSE None

\* The result of an operation on two literals of operandTy, or None.
FoldPair(l, op, r, operandTy, ty) ==
  LET kinds == {l.kind, r.kind}
  IN  CASE kinds \subseteq {"integer", "float"} /\ operandTy \in FloatTypes ->
             FoldFloatPair(l.v, op, r.v, operandTy, ty)
        [] kinds = {"integer"} /\ operandTy \in IntegerTypes ->
             FoldIntegerPair(l.v, op, r.v, operandTy, ty)
        [] kinds = {"boolean"} -> FoldBooleanPair(l.v, op, r.v)
        [] kinds = {"string"} -> FoldStringPair(l.v, op, r.v)
        [] OTHER -> None

\* The negation of the least word of a width overflows; the word above the
\* greatest is no literal of the width, so it stays under its minus.
FoldUnary(op, value, ty) ==
  CASE /\ op = "-" /\ value.kind = "integer" /\ ty \in IntegerTypes
       /\ Fits(value.v, ty) /\ Fits(-value.v, ty) ->
         Literal(IntegerValue(-value.v), ty)
    [] op = "-" /\ value.kind \in {"integer", "float"} /\ ty \in FloatTypes ->
         Literal(FloatValue(-value.v), ty)
    [] op = "!" /\ value.kind = "boolean" -> Literal(BooleanValue(~ value.v), "Boolean")
    [] OTHER -> None

-----------------------------------------------------------------------------
(***************************************************************************)
(* The walk (fold/mod.rs): children first, then the rule.                  *)
(***************************************************************************)
FoldBinaryOp(e, l, r) ==
  LET result == IF /\ l.node = "literal" /\ r.node = "literal" /\ l.ty = r.ty
                THEN FoldPair(l.value, e.op, r.value, l.ty, e.ty) ELSE None
  IN  IF result # None THEN result ELSE [e EXCEPT !.left = l, !.right = r]

FoldUnaryOp(e, operand) ==
  LET result == IF operand.node = "literal"
                THEN FoldUnary(e.op, operand.value, e.ty) ELSE None
  IN  IF result # None THEN result ELSE [e EXCEPT !.operand = operand]

\* Mutant: the branch an `if` picks is not folded.
IfKeepsItsBranch(e, c, branches) ==
  IF /\ c.node = "literal" /\ c.value.kind = "boolean"
     /\ c.value.v \/ Len(branches) = 2
  THEN e.branches[IF c.value.v THEN 1 ELSE 2]
  ELSE [e EXCEPT !.condition = c, !.branches = branches]

\* A literal condition picks its branch; false without an else picks none.
FoldIf(e, c, branches) ==
  IF /\ c.node = "literal" /\ c.value.kind = "boolean"
     /\ c.value.v \/ Len(branches) = 2
  THEN branches[IF c.value.v THEN 1 ELSE 2]
  ELSE [e EXCEPT !.condition = c, !.branches = branches]

RECURSIVE FoldExpr(_)
FoldExpr(e) ==
  CASE e.node \in {"literal", "name"} -> e
    [] e.node = "binary" -> FoldBinaryOp(e, FoldExpr(e.left), FoldExpr(e.right))
    [] e.node = "unary" -> FoldUnaryOp(e, FoldExpr(e.operand))
    [] e.node = "if" ->
         FoldIf(e, FoldExpr(e.condition), [i \in DOMAIN e.branches |-> FoldExpr(e.branches[i])])
    [] e.node = "other" ->
         [e EXCEPT !.children = [i \in DOMAIN e.children |-> FoldExpr(e.children[i])]]

-----------------------------------------------------------------------------
VARIABLES
  source,   \* the module the pass is given (history)
  module,   \* the copy it folds
  at        \* the next place

vars == <<source, module, at>>

Init ==
  /\ source \in Modules
  /\ module = source
  /\ at = 1

\* The places of the module, one kind after the other.
FoldPlace ==
  /\ at <= Len(Places)
  /\ module' = [module EXCEPT ![Places[at]] = FoldExpr(@)]
  /\ at' = at + 1
  /\ UNCHANGED source

Next == FoldPlace

Spec == Init /\ [][Next]_vars

-----------------------------------------------------------------------------
(***************************************************************************)
(* What a program does: the value of an expression for an input, or that   *)
(* the backend decides.  An integer operation outside its width, a         *)
(* division by zero and a float that is not finite are the backend's.      *)
(***************************************************************************)
Decided(value) == [decided |-> TRUE, value |-> value]
BackendDecides == [decided |-> FALSE]
Nothing == Decided([kind |-> "nothing", v |-> 0])

\* A literal as the program holds it.
Held(value, ty) ==
  CASE ty \in FloatTypes -> Decided(FloatValue(Rounded(value.v, ty)))
    [] ty \in IntegerTypes ->
         IF value.v \in Least[ty] .. Greatest[ty] THEN Decided(value) ELSE BackendDecides
    [] OTHER -> Decided(value)

Number(n, ty) ==
  IF ty \in IntegerTypes
  THEN IF n \in Least[ty] .. Greatest[ty] THEN Decided(IntegerValue(n)) ELSE BackendDecides
  ELSE IF Magnitude(Rounded(n, ty)) <= Greatest[ty]
  THEN Decided(FloatValue(Rounded(n, ty))) ELSE BackendDecides

Operate(l, op, r, operandTy) ==
  IF operandTy \in IntegerTypes \cup FloatTypes
  THEN IF op \in Comparisons THEN Decided(BooleanValue(Compare(l.v, op, r.v)))
       ELSE IF op \in {"/", "%"} /\ r.v = 0 THEN BackendDecides
       ELSE IF op = "%" /\ operandTy \in IntegerTypes /\ l.v = Least[operandTy] /\ r.v = -1
       THEN BackendDecides
       ELSE Number(Compute(l.v, op, r.v), operandTy)
  ELSE CASE op = "&&" -> Decided(BooleanValue(l.v /\ r.v))
         [] op = "||" -> Decided(BooleanValue(l.v \/ r.v))
         [] op = "==" -> Decided(BooleanValue(l.v = r.v))
         [] op = "!=" -> Decided(BooleanValue(l.v # r.v))
         [] op = "+" -> Decided(StringValue(l.v \o r.v))

RECURSIVE Value(_, _)
Value(e, input) ==
  CASE e.node = "literal" -> Held(e.value, e.ty)
    [] e.node = "name" -> Decided(input[e.name])
    [] e.node = "binary" ->
         LET l == Value(e.left, input)
             r == Value(e.right, input)
         IN  IF l.decided /\ r.decided
             THEN Operate(l.value, e.op, r.value, e.left.ty) ELSE BackendDecides
    [] e.node = "unary" ->
         \* A minus and its literal are one word: the least has no plus.
         IF e.op = "-" /\ e.operand.node = "literal"
         THEN Number(-e.operand.value.v, e.ty)
         ELSE LET v == Value(e.operand, input)
              IN  CASE ~ v.decided -> BackendDecides
                    [] v.decided /\ e.op = "!" -> Decided(BooleanValue(~ v.value.v))
                    [] OTHER -> Number(-v.value.v, e.ty)
    [] e.node = "if" ->
         LET c == Value(e.condition, input)
         IN  CASE ~ c.decided -> BackendDecides
               [] c.decided /\ c.value.v -> Value(e.branches[1], input)
               [] OTHER -> IF Len(e.branches) = 2
                           THEN Value(e.branches[2], input) ELSE Nothing
    [] e.node = "other" ->
         LET vs == [i \in DOMAIN e.children |-> Value(e.children[i], input)]
         IN  IF \A i \in DOMAIN vs : vs[i].decided
             THEN Decided([kind |-> "other", v |-> [i \in DOMAIN vs |-> vs[i].value]])
             ELSE BackendDecides

\* Folding changes what no input sees: every expression keeps its type and
\* gives the same result, and what the backend decides is left for it to
\* decide (fold/ops.rs: hazard of the overflows, the zero divisor, the
\* width the operands are computed in).
SameResult ==
  \A p \in DOMAIN source :
    /\ module[p].ty = source[p].ty
    /\ \A input \in Inputs : Value(module[p], input) = Value(source[p], input)

\* Folding is complete: no operation on two literals is left that has a
\* decided result, and no condition is a literal with a branch to take, at
\* any depth of any place of the module.  The pass has no rule for strings
\* other than "+".
RECURSIVE Unfolded(_)
Unfolded(e) ==
  CASE e.node \in {"literal", "name"} -> FALSE
    [] e.node = "binary" ->
         \/ Unfolded(e.left) \/ Unfolded(e.right)
         \/ /\ e.left.node = "literal" /\ e.right.node = "literal"
            /\ e.left.ty = "String" => e.op = "+"
            /\ \A input \in Inputs : Value(e, input).decided
    [] e.node = "unary" ->
         \/ Unfolded(e.operand)
         \/ /\ e.operand.node = "literal" /\ e.ty \in IntegerTypes \cup {"Boolean"}
            /\ \A input \in Inputs : Value(e.operand, input).decided /\ Value(e, input).decided
    [] e.node = "if" ->
         \/ Unfolded(e.condition) \/ \E i \in DOMAIN e.branches : Unfolded(e.branches[i])
         \/ /\ e.condition.node = "literal"
            /\ e.condition.value.v \/ Len(e.branches) = 2
    [] e.node = "other" -> \E i \in DOMAIN e.children : Unfolded(e.children[i])

NothingIsLeft ==
  at > Len(Places) => \A p \in DOMAIN module : ~ Unfolded(module[p])
=============================================================================
