----------------------------- MODULE MCLinking -----------------------------
(***************************************************************************)
(* Three modules in a diamond: a leaf defines items that a middle file and *)
(* the entry module import, and each of the three has a private function   *)
(* `h`.  The order of the definitions, what is imported, the ids of the    *)
(* two files and the paths that the source writes for them vary.           *)
(***************************************************************************)
EXTENDS Linking

MCSegments == {"h", "f", "S", "b", "T", "g", "p", "U", "k", "main", "text",
               "assert", "one", "two"}
MCSigs == {"value", "pair"}

PreludeItem(n, types) == [name |-> Plain(<<n>>), sig |-> "value", types |-> types,
                          calls |-> <<>>, file |-> 0]
MCPrelude == [k \in Kinds |->
                CASE k = "struct"   -> <<PreludeItem("text", <<>>)>>
                  [] k = "function" -> <<PreludeItem("assert", <<1>>)>>
                  [] OTHER          -> <<>>]

D(k, path, sig, types, calls) ==
    [kind |-> k, path |-> path, sig |-> sig, types |-> types, calls |-> calls]
C(path, sig) == [path |-> path, sig |-> sig]

\* The orders of the first n definitions; the others stay behind them.
Orders(n, ds) == {[i \in DOMAIN ds |-> IF i <= n THEN ds[p[i]] ELSE ds[i]] :
                    p \in {q \in [1..n -> 1..n] : {q[i] : i \in 1..n} = 1..n}}

\* The leaf: overloads of `f` that call the private `h`, wherever it stands;
\* an inline module whose functions call each other, in both orders.
LeafDefs ==
    Orders(3, <<D("function", <<"h">>, "value", <<>>, <<C(<<"assert">>, "value")>>),
                D("function", <<"f">>, "pair", <<<<"S">>>>, <<C(<<"h">>, "value")>>),
                D("struct", <<"S">>, "value", <<<<"text">>>>, <<C(<<"h">>, "value")>>),
                D("function", <<"f">>, "value", <<>>, <<C(<<"h">>, "value")>>),
                D("struct", <<"b", "T">>, "value", <<<<"S">>, <<"T">>>>, <<>>),
                D("function", <<"b", "g">>, "value", <<<<"T">>>>,
                  <<C(<<"p">>, "value"), C(<<"h">>, "value")>>),
                D("function", <<"b", "p">>, "value", <<>>, <<C(<<"g">>, "value")>>),
                D("impl", <<"S">>, "value", <<<<"S">>, <<"b", "T">>>>,
                  <<C(<<"f">>, "pair"), C(<<"b", "g">>, "value")>>)>>)

\* What a module that imports `imp` can write.
Uses(imp) == (IF "f" \in imp THEN <<C(<<"f">>, "value"), C(<<"f">>, "pair")>> ELSE <<>>)
             \o (IF "b" \in imp THEN <<C(<<"b", "p">>, "value")>> ELSE <<>>)
Types(imp) == (IF "S" \in imp THEN <<<<"S">>>> ELSE <<>>)
              \o (IF "b" \in imp THEN <<<<"b", "T">>>> ELSE <<>>)

\* The middle file, between the entry module and the leaf.
MiddleDefs(imp) ==
    Orders(3, <<D("function", <<"k">>, "value", Types(imp),
                  Append(Uses(imp), C(<<"h">>, "value"))),
                D("struct", <<"U">>, "value", Types(imp), <<>>),
                D("function", <<"h">>, "value", <<<<"U">>>>, <<C(<<"k">>, "value")>>)>>)

\* The entry module; with an inline module of the name of a path or without.
EntryDefs(imp, inline) ==
    Orders(1, <<D("function", <<"main">>, "value", Types(imp),
                  Uses(imp) \o <<C(<<"h">>, "value"), C(<<"k">>, "value")>>),
                D("function", <<"h">>, "value", <<<<"U">>>>, <<>>),
                D("struct", <<inline, "S">>, "value", <<<<"U">>>>, <<>>)>>)

\* What a module imports from the file `leaf`.  The ids follow the order in
\* which the `use`s are met: the leaf has the lower one when the entry module
\* imports it before the other file.
FromLeaf(imp, leaf) == [n \in Segments |-> IF n \in imp THEN leaf ELSE 0]

ProgramOf(leaf, imp1, impE, d1, d2, e, l2) ==
    [defs    |-> [m \in Modules |-> CASE m = Entry -> e [] m = leaf -> d2 [] OTHER -> d1],
     imports |-> [m \in Modules |->
                    CASE m = Entry -> [FromLeaf(impE, leaf) EXCEPT !["U"] = 3 - leaf,
                                                                   !["k"] = 3 - leaf]
                      [] m = leaf  -> FromLeaf({}, leaf)
                      [] OTHER     -> FromLeaf(imp1, leaf)],
     logical |-> IF leaf = 2 THEN <<<<"one">>, l2>> ELSE <<l2, <<"one">>>>]

MCPrograms ==
    UNION {{ProgramOf(leaf, imp1, impE, d1, d2, e, l2) :
                leaf \in IF impE = {} THEN {2} ELSE {1, 2},
                d1 \in MiddleDefs(imp1), d2 \in LeafDefs, e \in EntryDefs(impE, inline),
                l2 \in {<<"one">>, <<"one", "two">>, <<"two">>}} :
           imp1 \in {{"f"}, {"b"}, {"f", "S", "b"}}, impE \in {{}, {"f"}, {"S", "b"}},
           inline \in {"two", "main"}}

\* For a look at what NoFileInAnother excludes: a file `one` with an inline
\* module `two` and the file `one/two` beside it, each with a struct `S`.  With
\* Programs <- FileInAnother, NamesStayUnique is violated once the entry module
\* is renamed: two structs are then called `one::two::S`.
FileInAnother ==
    {[defs    |-> [m \in Modules |->
                     CASE m = 1 -> <<D("struct", <<"U">>, "value", <<>>, <<>>),
                                     D("struct", <<"two", "S">>, "value", <<>>, <<>>)>>
                       [] m = 2 -> <<D("struct", <<"S">>, "value", <<>>, <<>>)>>
                       [] OTHER -> <<D("function", <<"main">>, "value",
                                       <<<<"U">>, <<"S">>>>, <<>>)>>],
      imports |-> [m \in Modules |->
                     IF m = Entry THEN [FromLeaf({"U"}, 1) EXCEPT !["S"] = 2]
                     ELSE FromLeaf({}, 1)],
      logical |-> <<<<"one">>, <<"one", "two">>>>]}
=============================================================================
