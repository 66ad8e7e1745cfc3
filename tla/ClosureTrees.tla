------------------------------ MODULE ClosureTrees ------------------------------
(***************************************************************************)
(* The part of the IR that closures touch: expression nodes with the       *)
(* bindings they introduce, functions, structs and enums of one module;    *)
(* and how the lowering of a closure works out what it captures            *)
(* (src/src/ir/expr/mod.rs, src/src/ir/lower/expr/closures.rs).            *)
(*                                                                         *)
(* A node carries a kind, the name it was written with, the binding it was *)
(* resolved to, the bindings it introduces, its children and its type.     *)
(* Every form without a rule of its own (operators, tuples, arrays,        *)
(* dictionaries, ...) is one kind, "pair": all of them only visit their    *)
(* children.  A definition's name keeps the inline module it is in and,    *)
(* for the names this part of the compiler invents, the number at its end. *)
(***************************************************************************)
EXTENDS Integers, Sequences, FiniteSets, SequencesExt

------------------------------------------------------------------------------
(* Types. *)

IntType == <<"int">>
ClosureType(params, result) == <<"closure", params, result>>
StructType(id) == <<"struct", id>>
EnumType(id) == <<"enum", id>>

IsClosureType(t) == t[1] = "closure"

------------------------------------------------------------------------------
(* Names of definitions. *)

Plain(stem) == [home |-> "", stem |-> stem, number |-> -1]
Numbered(stem, n) == [home |-> "", stem |-> stem, number |-> n]
Inside(home, name) == [name EXCEPT !.home = home]

NoName == Plain("")

------------------------------------------------------------------------------
(* Nodes. *)

Binding(name, ty) == [name |-> name, id |-> 0, ty |-> ty]

Node(kind, name, kids, ty) ==
    [kind |-> kind, name |-> name, target |-> "none", id |-> 0, callee |-> NoName,
     binds |-> <<>>, captures |-> <<>>, kids |-> kids, ty |-> ty]

Absent == Node("absent", "", <<>>, IntType)

Number(k) == Node("number", k, <<>>, IntType)
Name(x) == Node("name", x, <<>>, IntType)
PathTo(x, f) == Node("path", x, <<Node("number", f, <<>>, IntType)>>, IntType)
SelfField(f) == Node("selffield", f, <<>>, IntType)
Pair(a, b) == Node("pair", "", <<a, b>>, IntType)
LetStmt(x, value) == [Node("let", x, <<value>>, IntType) EXCEPT !.binds = <<Binding(x, IntType)>>]
AssignStmt(x, value) == Node("assign", "", <<Name(x), value>>, IntType)
Block(stmts, result) == Node("block", "", stmts \o <<result>>, IntType)
ForEach(x, coll, body) ==
    [Node("for", x, <<coll, body>>, IntType) EXCEPT !.binds = <<Binding(x, IntType)>>]
Closure(params, body) == [Node("closure", "", <<body>>, IntType) EXCEPT !.binds = params]
Apply(f, args) == Node("apply", "", <<f>> \o args, IntType)
Call(callee, args, ty) == [Node("call", "", args, ty) EXCEPT !.callee = callee]
New(id, fields) ==
    [Node("struct", "", [i \in DOMAIN fields |-> fields[i][2]], StructType(id)) EXCEPT
        !.id = id, !.binds = [i \in DOMAIN fields |-> Binding(fields[i][1], IntType)]]
Invoke(receiver, method, args) ==
    [Node("method", "", <<receiver>> \o args, IntType) EXCEPT !.callee = Plain(method)]

Reference(x, ty) == Node("ref", x, <<>>, ty)
LetRef(x, ty) == Node("letref", x, <<>>, ty)
FieldOf(object, field, ty) == Node("field", field, <<object>>, ty)

------------------------------------------------------------------------------
(* Definitions of a module. *)

Param(name, ty, default) == [name |-> name, id |-> 0, ty |-> ty, default |-> default]
Function(name, params, result, body) ==
    [name |-> name, params |-> params, result |-> result, body |-> body]
Let(name, value) == [name |-> name, value |-> value]
Field(name, ty, default) == [name |-> name, ty |-> ty, default |-> default]
Struct(name, fields) == [name |-> name, fields |-> fields]
Variant(name, fields) == [name |-> name, fields |-> fields]
Enum(name, variants) == [name |-> name, variants |-> variants]

Module(lets, functions, methods, structs, enums) ==
    [lets |-> lets, functions |-> functions, methods |-> methods, structs |-> structs,
     enums |-> enums]

------------------------------------------------------------------------------
(* Lowering: which names are locals, and what a closure captures. *)

\* The free names of a lowered expression, in the order they are first read, each once, with
\* its type: captures are collected by NAME, before any binding has an id.
RECURSIVE CollectFreeRefs(_, _, _)
CollectFreeRefs(e, bound, out) ==
    LET Seen == {c.name : c \in Range(out)}
        Note(names) == FoldLeft(LAMBDA acc, c : IF c.name \in bound \cup {d.name : d \in Range(acc)}
                                                   THEN acc
                                                   ELSE Append(acc, Binding(c.name, c.ty)),
                                out, names)
        Among(kids, names, found) ==
            FoldLeft(LAMBDA acc, k : CollectFreeRefs(k, names, acc), found, kids)
    IN  CASE e.kind \in {"ref", "letref"} ->
                IF e.name \in bound \cup Seen THEN out ELSE Append(out, Binding(e.name, e.ty))
          [] e.kind = "for" ->
                Among(Tail(e.kids), bound \cup {e.name}, Among(<<Head(e.kids)>>, bound, out))
          [] e.kind = "closure" ->
                Note(SelectSeq(e.captures, LAMBDA c : c.name \notin {b.name : b \in Range(e.binds)}))
          [] e.kind = "block" ->
                FoldLeft(LAMBDA acc, k :
                            [names |-> IF k.kind = "let" THEN acc.names \cup {k.name} ELSE acc.names,
                             found |-> Among(<<k>>, acc.names, acc.found)],
                         [names |-> bound, found |-> out], e.kids).found
          [] OTHER -> Among(e.kids, bound, out)

\* A closure body has no self of its own: self.f reads the field of a captured self.
RECURSIVE ReadSelfFieldsThroughSelf(_, _)
ReadSelfFieldsThroughSelf(e, selfType) ==
    IF e.kind = "selffield"
    THEN FieldOf(Reference("self", selfType), e.name, e.ty)
    ELSE [e EXCEPT !.kids = [i \in DOMAIN e.kids |-> ReadSelfFieldsThroughSelf(e.kids[i], selfType)]]

With(scope, bindings) ==
    [x \in DOMAIN scope \cup {b.name : b \in Range(bindings)} |->
        IF \E b \in Range(bindings) : b.name = x
        THEN (CHOOSE b \in Range(bindings) : b.name = x).ty ELSE scope[x]]

\* A name is a local, or else a module-level let: the two become different nodes.
LowerReference(x, locals, lets) ==
    IF x \in DOMAIN locals THEN Reference(x, locals[x]) ELSE LetRef(x, lets[x])

\* The closure in a call f(args) of a name is a LetRef whatever f is.
LowerCallee(f, locals, lets, lowered) ==
    IF f.kind = "name"
    THEN LetRef(f.name, IF f.name \in DOMAIN locals THEN locals[f.name] ELSE lets[f.name])
    ELSE lowered

\* The lowered form of a source expression: locals and lets give the types of the names in scope.
RECURSIVE Lower(_, _, _)
Lower(e, locals, lets) ==
    LET Here(k) == Lower(k, locals, lets)
        \* a statement of a block: a let adds its name
        Stated(acc, k, node) ==
            [kids |-> Append(acc.kids, node),
             locals |-> IF k.kind = "let" THEN With(acc.locals, <<Binding(k.name, node.kids[1].ty)>>)
                        ELSE acc.locals]
        BlockOf(kids) == [e EXCEPT !.kids = kids, !.ty = Last(kids).ty]
        ThroughSelf(body, inner) ==
            IF "self" \in DOMAIN inner THEN ReadSelfFieldsThroughSelf(body, inner["self"]) ELSE body
        ClosureOf(body) ==
            [e EXCEPT !.kids = <<body>>,
                      !.captures = CollectFreeRefs(body, {b.name : b \in Range(e.binds)}, <<>>),
                      !.ty = ClosureType([i \in DOMAIN e.binds |-> e.binds[i].ty], body.ty)]
        InClosure(inner) == ClosureOf(ThroughSelf(Lower(e.kids[1], inner, lets), inner))
        ApplyOf(callee) == [e EXCEPT !.kids = <<callee>> \o [i \in 1 .. Len(@) - 1 |-> Here(@[i + 1])],
                                    !.ty = callee.ty[3]]
    IN
    CASE e.kind = "name" -> LowerReference(e.name, locals, lets)
      [] e.kind = "path" ->
            FieldOf(LetRef(e.name, IF e.name \in DOMAIN locals THEN locals[e.name] ELSE lets[e.name]),
                    e.kids[1].name, IntType)
      [] e.kind = "for" ->
            [e EXCEPT !.kids = <<Here(e.kids[1]), Lower(e.kids[2], With(locals, e.binds), lets)>>]
      [] e.kind = "block" ->
            BlockOf(FoldLeft(LAMBDA acc, k : Stated(acc, k, Lower(k, acc.locals, lets)),
                            [kids |-> <<>>, locals |-> locals], e.kids).kids)
      [] e.kind = "closure" -> InClosure(With(locals, e.binds))
      [] e.kind = "apply" -> ApplyOf(LowerCallee(e.kids[1], locals, lets, Here(e.kids[1])))
      [] OTHER -> [e EXCEPT !.kids = [i \in DOMAIN e.kids |-> Here(e.kids[i])]]

NoLocals == [x \in {} |-> IntType]

\* Every body, let value and default of the module, lowered; a let sees the lets before it.
LowerModule(source) ==
    LET WithLet(acc, l, value) ==
            [done |-> Append(acc.done, [l EXCEPT !.value = value]),
             types |-> With(acc.types, <<Binding(l.name, value.ty)>>)]
        OfFunction(f, types) ==
            [f EXCEPT !.params = [i \in DOMAIN f.params |->
                                    [f.params[i] EXCEPT
                                        !.default = Lower(@, With(NoLocals, SubSeq(f.params, 1, i - 1)),
                                                          types)]],
                      !.body = Lower(@, With(NoLocals, f.params), types)]
        Rest(lets) ==
            [source EXCEPT
                !.lets = lets.done,
                !.functions = [i \in DOMAIN @ |-> OfFunction(@[i], lets.types)],
                !.methods = [i \in DOMAIN @ |-> OfFunction(@[i], lets.types)],
                !.structs = [i \in DOMAIN @ |-> [@[i] EXCEPT !.fields = [j \in DOMAIN @ |->
                                [@[j] EXCEPT !.default = Lower(@, NoLocals, lets.types)]]]]]
    IN  Rest(FoldLeft(LAMBDA acc, l : WithLet(acc, l, Lower(l.value, NoLocals, acc.types)),
                      [done |-> <<>>, types |-> NoLocals], source.lets))
==============================================================================
