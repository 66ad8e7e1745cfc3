-------------------------------- MODULE Bodies --------------------------------
(***************************************************************************)
(* The body of a function, as the two ownership walks of the analyzer      *)
(* (semantic/validation) and an execution of it meet it: the sequence of   *)
(* its bindings, accesses and scopes in the order of the source.           *)
(*                                                                         *)
(* A token is a record [op, x, with, via, seq, a, b]:                      *)
(*   let      a binding x of a fresh value, of a lazy sequence when seq    *)
(*   read     a use of x: of a sequence, the use that drives it            *)
(*   give     x fills a sink parameter of a function, of a method or of a  *)
(*            closure (via)                                                *)
(*   set      x, a whole binding, is assigned a fresh value                *)
(*   pair     a call with the two accesses a and b, each [conv, path]      *)
(*   call     the closure bound to x is called                             *)
(*   if else end, for end, block end: as in the source; "for" binds x,     *)
(*            its sequence is driven at once                               *)
(*   closure end  "let x = () -> ..."                                      *)
(*   arg end      a closure literal with the parameter x in a call that    *)
(*            runs it for each element, as "fold" does                     *)
(* A statement binds only inside a block, a missing "else" is an empty one.*)
(***************************************************************************)
EXTENDS Naturals, Sequences, FiniteSets

CONSTANT Functions  \* the functions that are checked: [params, tokens], where
                    \* params gives each parameter its [sink, seq]

VARIABLES fn,       \* the function
          phase,    \* "linear", "validate" or "run": which walk is going on
          pos,      \* its next token
          open,     \* what the walk keeps for each construct it is inside of
          errors    \* what the analyzer has reported: <<error, token>>

walkVars == <<fn, phase, pos, open, errors>>

body == fn.tokens
Params == fn.params
Openers == {"if", "for", "block", "closure", "arg"}

\* How many constructs that are open at token j were opened at or after i.
DepthAt(i, j) ==
    Cardinality({k \in i..j : body[k].op \in Openers})
        - Cardinality({k \in i..j : body[k].op = "end"})

\* The end of the construct that opens at i, and the "else" of an "if".
EndOf(i) ==
    CHOOSE j \in (i + 1)..Len(body) :
        /\ body[j].op = "end"  /\ DepthAt(i, j) = 0
        /\ \A k \in i..(j - 1) : DepthAt(i, k) > 0
ElseOf(i) ==
    CHOOSE j \in (i + 1)..EndOf(i) : body[j].op = "else" /\ DepthAt(i, j) = 1

\* The constructs that are open at token j.
Around(j) == {i \in 1..(j - 1) : body[i].op \in Openers /\ j < EndOf(i)}

\* The names a token refers to, and the name that a construct binds inside.
NamesAt(j) ==
    CASE body[j].op \in {"read", "give", "set", "call"} -> {body[j].x}
      [] body[j].op = "pair" -> {body[j].a.path[1], body[j].b.path[1]}
      [] OTHER -> {}
Binds(i) == IF body[i].op \in {"for", "arg"} THEN {body[i].x} ELSE {}

\* The tokens of the closure literal at i that refer to a name from outside it,
\* and the names: no parameter or loop variable inside the literal binds them.
FreeReferences(i) ==
    {<<j, n>> \in (i..EndOf(i)) \X UNION {NamesAt(j) : j \in i..EndOf(i)} :
        /\ n \in NamesAt(j)
        /\ \A k \in Around(j) : k >= i => n \notin Binds(k)}
FreeNames(i) == {r[2] : r \in FreeReferences(i)}

Top == open[Len(open)]
Pop(s) == SubSeq(s, 1, Len(s) - 1)
At(op) == pos <= Len(body) /\ body[pos].op = op
Closes(op) == At("end") /\ open # <<>> /\ Top.op = op
Advance == pos' = pos + 1

\* Two walks end at the last token, and the next one starts.
Hand(to) ==
    /\ pos = Len(body) + 1
    /\ phase' = to
    /\ pos' = 1
    /\ open' = <<>>
    /\ UNCHANGED fn
===============================================================================
