-------------------------- MODULE MCClosureDivergences --------------------------
(***************************************************************************)
(* The closures docs/user/closures.md returns from a function: one that    *)
(* names a module let and its own parameter, and one that names a module   *)
(* let and a parameter of the function.                                    *)
(***************************************************************************)
EXTENDS MCClosures

Base == Let("base", Number("100"))

FromBase ==
    Module(<<Base>>,
           <<Maker("from_base", <<>>, Lam("y", Pair(Name("y"), Name("base")))),
             Fun("probe", <<P("x")>>,
                 Apply(Call(Plain("from_base"), <<>>, IntFn), <<Name("x")>>))>>,
           <<>>, <<>>, <<>>)

FromParameter ==
    Module(<<Base>>,
           <<Fun("probe", <<P("x")>>,
                 Block(<<LetStmt("add", Lam("y", Pair(Pair(Name("y"), Name("x")), Name("base"))))>>,
                       Apply(Name("add"), <<Number("1")>>)))>>,
           <<>>, <<>>, <<>>)

MCModuleLetCaptures == {FromBase, FromParameter}
==============================================================================
