--------------------------- MODULE MCImportNames ---------------------------
(***************************************************************************)
(* The names that travel through imports: a leaf file c, a file b that may *)
(* import from c, a file a that imports from both, and the entry module.   *)
(* Each `use` is plain or `pub`, and names an item or everything; items    *)
(* are public or private, and functions have overloads.  The file b may    *)
(* have a function of the name of one of c, which merges with an import.   *)
(***************************************************************************)
EXTENDS ImportAnalysis, TLC

CONSTANTS a, b, c, main, none,  \* the modules
          x, y,                 \* a type and a function
          s1, s2, nosig         \* signatures

MCFiles == {a, b, c}
MCNames == {x, y}
MCSigs == {s1, s2}
MCPaths == {a, b, c}

Item(m, n, sig, pub) ==
    [name |-> n, sig |-> sig, pub |-> pub, home |-> m, inner |-> FALSE]
Type(m, n, pub) == Item(m, n, nosig, pub)

\* A `use` of the file f: of some names, or of everything.
UseOf(f, names, pub) ==
    [path |-> f, file |-> f, glob |-> names = {}, pub |-> pub, names |-> names]
UsesFrom(f) == {UseOf(f, ns, p) : ns \in {{x}, {y}, {}}, p \in BOOLEAN}

OwnLeaf ==
    {<<Type(c, x, TRUE)>>,
     <<Type(c, x, FALSE), Item(c, y, s1, TRUE)>>,
     <<Item(c, y, s1, TRUE), Type(c, x, TRUE), Item(c, y, s2, FALSE)>>}
OwnOf(m) == {<<>>, <<Type(m, x, TRUE)>>, <<Type(m, x, FALSE)>>}
OwnB == {<<>>, <<Type(b, x, TRUE)>>, <<Item(b, y, s2, TRUE)>>}

UsesB == {<<>>} \cup {<<u>> : u \in UsesFrom(c)}
UsesA == {<<>>} \cup {<<u>> : u \in UsesFrom(b)}
                \cup {<<u, v>> : u \in UsesFrom(b), v \in UsesFrom(c)}
                \cup {<<u, v>> : u \in UsesFrom(c), v \in UsesFrom(b)}
UsesMain == {<<UseOf(a, {}, FALSE), UseOf(c, {}, FALSE)>>,
             <<UseOf(b, {x}, FALSE), UseOf(a, {y}, FALSE)>>,
             <<UseOf(a, {x}, FALSE)>>}

\* The entry module may hold an inline module with the items x and y.
Inner == {[Type(main, x, TRUE) EXCEPT !.inner = TRUE],
          [Type(main, y, FALSE) EXCEPT !.inner = TRUE]}
Locals == {<<>>, <<[name |-> x, ambiguous |-> FALSE, pub |-> FALSE]>>}

MCPrograms ==
    {[uses |-> (main :> um) @@ (a :> ua) @@ (b :> ub) @@ (c :> <<>>),
      locals |-> (main :> l) @@ [m \in MCFiles |-> <<>>],
      own |-> (main :> <<>>) @@ (a :> oa) @@ (b :> ob) @@ (c :> oc),
      inner |-> (main :> Inner) @@ [m \in MCFiles |-> {}],
      garbled |-> {}, faulty |-> {}] :
        um \in UsesMain, ua \in UsesA, ub \in UsesB, l \in Locals,
        oa \in OwnOf(a), ob \in OwnB, oc \in OwnLeaf}

ASSUME MCPlainFiles == PlainFiles
=============================================================================
