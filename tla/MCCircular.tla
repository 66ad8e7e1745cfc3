----------------------------- MODULE MCCircular -----------------------------
(***************************************************************************)
(* Small files for Circular: every graph of three types whose fields name  *)
(* a type inline, in an optional or in an array, with a trait in it; and   *)
(* every file of two lets and two functions, one with two overloads.       *)
(***************************************************************************)
EXTENDS Circular

MCTypeNames == {"A", "B", "C"}
MCLetNames == {"x", "y"}
MCFunctions == {"f", "g"}

Plain == [kind |-> "struct", parents |-> {}, mentions |-> {}]
NoValue == [reads |-> {}, calls |-> {}]

Under == {<<>>, <<"optional", "array">>}

\* A type that mentions each name of inline as it is, the others in an
\* array; optional puts the inline names in an optional.
MCType(inline, boxed, wrapper) ==
  [Plain EXCEPT !.mentions = {[under |-> wrapper, name |-> n] : n \in inline}
                     \cup {[under |-> <<"optional", "array">>, name |-> n] : n \in boxed}]

TypeFiles ==
  {[types |-> [t \in MCTypeNames |->
       IF t = "A" /\ trait THEN [kind |-> "trait", parents |-> a, mentions |-> {}]
       ELSE IF t = "A" THEN MCType(a, MCTypeNames \ a, <<"optional">>)
       ELSE IF t = "B" THEN MCType(b, {"A"}, <<"argument">>)
       ELSE MCType(c, {"C"}, <<>>)],
    lets |-> <<>>, functions |-> <<>>] :
   a \in SUBSET MCTypeNames, b \in SUBSET MCTypeNames,
   c \in SUBSET MCTypeNames, trait \in BOOLEAN}

Values == [reads : SUBSET MCLetNames, calls : SUBSET MCFunctions]

LetFiles ==
  {[types |-> <<>>,
    lets |-> [l \in MCLetNames |-> IF l = "x" THEN x ELSE y],
    functions |-> [g \in MCFunctions |->
       IF g = "f"
       THEN {[params |-> p, reads |-> f.reads, calls |-> f.calls],
             [params |-> {}, reads |-> {}, calls |-> {"g"}]}
       ELSE {[params |-> {}, reads |-> r, calls |-> {"f"}]}]] :
   x \in Values, y \in Values, f \in Values,
   p \in {{}, {"x"}}, r \in {{}, {"y"}}}

MCFiles == TypeFiles \cup LetFiles
=============================================================================
