--------------------------- MODULE MCCallDivergences ---------------------------
(* A call that gives one argument by position and one by label, and leaves a  *)
(* default out: docs/user/functions.md:43 writes such a call.                 *)
EXTENDS MCCalls

LostArguments == {<<F(<<X("I32"), Y(Constant("y")), Param("z", "", "I32", Constant("z"))>>),
                    FCall(<<Literal("", "1"), Literal("z", "2")>>)>>}
===============================================================================
