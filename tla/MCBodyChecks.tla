----------------------------- MODULE MCBodyChecks -----------------------------
(***************************************************************************)
(* Bodies for BodyChecks, put together from statements: every way to put   *)
(* two or three statements about one binding one after the other, each of  *)
(* them alone, in a branch, in a loop, in a closure or in a block.         *)
(***************************************************************************)
EXTENDS BodyChecks, SequencesExt

T(op, x) == [op |-> op, x |-> x]
LetOf(x, seq) == <<[op |-> "let", x |-> x, seq |-> seq]>>
Give(x, via) == <<[op |-> "give", x |-> x, via |-> via]>>
Access(conv, path) == [conv |-> conv, path |-> path]
Pair(a, b) == <<[op |-> "pair", a |-> a, b |-> b]>>
Wrapped(op, x, ts) == <<T(op, x)>> \o ts \o <<T("end", x)>>
\* An assignment is a statement, and the braces around statements make a block.
Braced(ts) ==
    IF ts # <<>> /\ ts[1].op = "set" THEN Wrapped("block", "-", ts) ELSE ts
If(ts, es) ==
    <<T("if", "-")>> \o Braced(ts) \o <<T("else", "-")>> \o Braced(es) \o <<T("end", "-")>>

\* What a statement can do with a binding that it may give away.
Plain(x) == {<<T("read", x)>>, <<T("set", x)>>, Give(x, "function")}
\* A closure bound to c, and perhaps a call of it.
Closures(x) ==
    {Wrapped("closure", "c", Braced(ts)) \o after :
        ts \in Plain(x), after \in {<<T("call", "c")>>, <<T("call", "c"), T("call", "c")>>}}
Inside(stmts) ==
    {If(ts, es) : ts \in stmts, es \in stmts \cup {<<>>}}
        \cup {If(<<>>, es) : es \in stmts}
        \cup {Wrapped(op, "x", Braced(ts)) : op \in {"for", "arg"}, ts \in stmts}
        \cup {Wrapped("block", "-", ts) : ts \in stmts}
\* A second binding of the name, in a block or an own binding of a loop body.
Shadows(x) ==
    {Wrapped("block", "-", LetOf(x, FALSE) \o ts) : ts \in Plain(x)}
        \cup {Wrapped(op, "x", Wrapped("block", "-", LetOf(x, FALSE) \o ts)) :
                 op \in {"for", "arg"}, ts \in Plain(x)}
Gives(x) == {Give(x, "function")}
Nested(x) ==
    Inside({If(Give(x, "function"), <<>>), Wrapped("for", "x", <<T("read", x)>>),
            Wrapped("for", "x", Give("x", "function")),
            Wrapped("block", "-", Give(x, "function"))})
Statements(x) == Plain(x) \cup Inside(Plain(x)) \cup Nested(x) \cup Shadows(x) \cup Closures(x)

\* Two statements of any form, and three with the plain ones around.
Owned ==
    {LetOf("v", FALSE) \o s \o t : s \in Statements("v"), t \in Statements("v")}
        \cup {LetOf("v", FALSE) \o s \o t \o u :
                 s \in Plain("v"), t \in Statements("v"), u \in Plain("v")}
        \cup {LetOf("v", FALSE) \o Give("v", via) \o s :
                 via \in {"method", "closure"}, s \in Statements("v")}

\* A closure that is given away takes what it captures along.
Escapes ==
    {LetOf("v", FALSE) \o Wrapped("closure", "c", <<T("read", "v")>>) \o Give("c", via) \o s :
        via \in {"function", "method", "closure"}, s \in Plain("v") \cup Inside(Plain("v"))}
    \cup
    {LetOf("v", FALSE) \o Wrapped("closure", "c", <<T("read", "v")>>)
        \o Wrapped("closure", "d", <<T("call", "c")>>) \o s \o t :
        s \in {Give("c", "function"), Give("d", "function")},
        t \in {<<T("read", "v")>>, <<T("call", "d")>>, <<T("set", "v")>>}}

\* Sequences: bindings, the uses that drive them, and the forms around a use.
Uses(s) == {<<T("read", s)>>, Give(s, "function"), <<>>}
SeqStatements(s) ==
    Uses(s) \cup Inside(Uses(s)) \cup
    {Wrapped("block", "-", LetOf(s, TRUE) \o u \o w) : u \in Uses(s), w \in Uses(s)} \cup
    {Wrapped("for", "x", Wrapped("block", "-", LetOf("t", TRUE) \o u \o w)) :
        u \in Uses("t"), w \in Uses("t") \cup Inside(Uses("t"))} \cup
    Inside(Inside({<<T("read", s)>>}))
Lazy ==
    {LetOf("s", TRUE) \o u \o w :
        u \in SeqStatements("s"), w \in Uses("s") \cup Inside({<<T("read", "s")>>})}

\* Two arguments of one call, over the fields and the elements of one value.
Fields == {<<"v">>, <<"v", "f">>, <<"v", "g">>, <<"v", "f", "g">>}
Elements == {<<"v">>, <<"v", "[]">>, <<"v", "[]", "f">>, <<"v", "[]", "g">>}
AllLeaves == {<<"v", "f", "f">>, <<"v", "f", "g">>, <<"v", "g">>, <<"v", "[]", "f">>,
              <<"v", "[]", "g">>, <<"w">>}
Accesses(paths) == {Access(c, p) : c \in {"let", "mut", "sink"}, p \in paths}
                       \cup {Access("mut", <<"w">>)}
PairsOver(paths) ==
    {LetOf("v", FALSE) \o LetOf("w", FALSE) \o Pair(a, b) \o t :
        a, b \in Accesses(paths), t \in {<<>>, <<T("read", "v")>>}}
Pairs == PairsOver(Fields) \cup PairsOver(Elements)

Of(bodies, params) == {[params |-> params, tokens |-> b] : b \in bodies}
Param(n, sink, seq) == n :> [sink |-> sink, seq |-> seq]
Calls(x) == {s \o t : s \in Plain(x) \cup Inside(Plain(x)), t \in Plain(x)}

\* The same statements about a parameter; a plain parameter is not assigned to,
\* its convention forbids it.
Borrowed == {b \in Calls("p") : \A i \in DOMAIN b : b[i].op # "set"}
MCFunctions ==
    Of(Owned \cup Escapes \cup Lazy \cup Pairs, <<>>)
        \cup Of(Borrowed, Param("p", FALSE, FALSE))
        \cup Of(Calls("q"), Param("q", TRUE, FALSE))
        \cup Of({s \o t : s \in SeqStatements("q"), t \in Uses("q")}, Param("q", TRUE, TRUE))
===============================================================================
