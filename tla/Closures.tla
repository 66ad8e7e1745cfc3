-------------------------------- MODULE Closures --------------------------------
(***************************************************************************)
(* How closures leave the IR (src/src/ir/resolve_refs, closure_conv,       *)
(* defunctionalise).  Names get binding ids; each closure is lifted to a   *)
(* top-level function that takes its captures in a synthetic struct; names *)
(* are resolved once more; then every closure value becomes a tag of an    *)
(* enum and every call of one a call of a dispatch function, and names are *)
(* resolved a last time.                                                   *)
(*                                                                         *)
(* A binding is known by an id to one half of this and by its name to the  *)
(* other: captures are listed by name before there are ids, conversion     *)
(* compares ids, and the lifted bodies are resolved again by name.         *)
(***************************************************************************)
EXTENDS ClosureTrees

CONSTANT Programs   \* the modules the passes may be given, as source trees

VARIABLES
    source,         \* the module as written
    module,         \* the IR module the passes own
    stage,          \* what happens next
    conversion,     \* ConversionState: next number, environments and lifted functions so far
    shapes,         \* the closure types met, with the lifted functions of each
    plan,           \* the shapes whose enum and dispatch function exist
    errors          \* what made a pass give up

vars == <<source, module, stage, conversion, shapes, plan, errors>>

------------------------------------------------------------------------------
(* ResolveReferencesPass: every binding gets an id, every name its binding. *)

EnvParam == "__env"

\* The definitions of the module as the passes look them up, by name.
IndexOf(defs, name) ==
    IF \E i \in DOMAIN defs : defs[i].name = name
    THEN CHOOSE i \in DOMAIN defs : defs[i].name = name ELSE 0

FunctionIdOf(name, home, m) ==
    LET local == IndexOf(m.functions, Inside(home, name))
    IN  IF name.home = "" /\ home # "" /\ local # 0 THEN local ELSE IndexOf(m.functions, name)

\* A binding's frame: its name now means this id.
Bind(scope, b, id, as) == [x \in DOMAIN scope \cup {b.name} |->
                              IF x = b.name THEN [id |-> id, as |-> as] ELSE scope[x]]

NoScope == [x \in {} |-> [id |-> 0, as |-> "local"]]

\* Mutant: the last id given out is given out again.
ReuseLastId(binds, scope, next) ==
    [binds |-> [i \in DOMAIN binds |-> [binds[i] EXCEPT !.id = next + i - 1]],
     scope |-> FoldLeftDomain(LAMBDA acc, i : Bind(acc, binds[i], next + i - 1, "local"), scope, binds),
     next |-> next + Len(binds) - 1]

\* Give binders the next ids in order, and bind them all.
BindAll(binds, scope, next) ==
    [binds |-> [i \in DOMAIN binds |-> [binds[i] EXCEPT !.id = next + i - 1]],
     scope |-> FoldLeftDomain(LAMBDA acc, i : Bind(acc, binds[i], next + i - 1, "local"), scope, binds),
     next |-> next + Len(binds)]

\* A lone name is a binding in scope, or else a let of the module.
ResolvePath(x, scope, m) ==
    CASE x \in DOMAIN scope -> [target |-> scope[x].as, id |-> scope[x].id]
      [] x \notin DOMAIN scope /\ IndexOf(m.lets, x) # 0 -> [target |-> "let", id |-> IndexOf(m.lets, x)]
      [] OTHER -> [target |-> "none", id |-> 0]

Resolved(e, next, scope, bad) == [e |-> e, next |-> next, scope |-> scope, errors |-> bad]

\* The next child r, after those in acc; only the statements of a block pass their scope on.
WithChild(acc, r, passOn) ==
    [kids |-> Append(acc.kids, r.e), next |-> r.next,
     scope |-> IF passOn THEN r.scope ELSE acc.scope, errors |-> acc.errors \cup r.errors]

RECURSIVE ResolveExpr(_, _, _, _)
ResolveExpr(e, scope, next, at) ==   \* at: the module and the inline module of the walked definition
    LET
      Through(kids) ==     \* the children in order
          FoldLeft(LAMBDA acc, k : WithChild(acc, ResolveExpr(k, acc.scope, acc.next, at), e.kind = "block"),
                   [kids |-> <<>>, next |-> next, scope |-> scope, errors |-> {}], kids)
      Plainly(node, r) == Resolved([node EXCEPT !.kids = r.kids], r.next, scope, r.errors)
      Found(path) ==
          Resolved([e EXCEPT !.target = path.target, !.id = path.id], next, scope,
                   IF path.target = "none" THEN {"undefined reference"} ELSE {})
      IdOf(b) == IF b.name \in DOMAIN scope THEN scope[b.name].id ELSE b.id
      \* a loop, an arm or a closure: the last child is in the scope of the binders
      Bound(outer, bound, body) ==
          Resolved([e EXCEPT !.captures = [i \in DOMAIN @ |-> [@[i] EXCEPT !.id = IdOf(e.captures[i])]],
                             !.binds = bound.binds, !.kids = Append(outer.kids, body.e)],
                   body.next, scope, outer.errors \cup body.errors)
      InScopeOf(outer, bound) == Bound(outer, bound, ResolveExpr(Last(e.kids), bound.scope, bound.next, at))
      After(outer) == InScopeOf(outer, BindAll(e.binds, scope, outer.next))
      \* a let statement: its name is in scope after its value
      Declared(value, bound) ==
          Resolved([e EXCEPT !.binds = bound.binds, !.kids = value.kids], bound.next, bound.scope, value.errors)
      Declare(value) == Declared(value, BindAll(e.binds, scope, value.next))
    IN
    CASE e.kind = "ref" -> Found(ResolvePath(e.name, scope, at.module))
      [] e.kind = "letref" -> Resolved([e EXCEPT !.id = IdOf(e)], next, scope, {})
      [] e.kind = "call" ->
            Plainly([e EXCEPT !.id = IF @ = 0 THEN FunctionIdOf(e.callee, at.home, at.module) ELSE @],
                    Through(e.kids))
      [] e.kind \in {"for", "arm", "closure"} -> After(Through(Front(e.kids)))
      [] e.kind = "let" -> Declare(Through(e.kids))
      [] OTHER -> Plainly(e, Through(e.kids))

\* resolve_function: a parameter gets its id, then its default is walked, then the body.
ResolveFunction(f, at) ==
    LET WithDefault(acc, p, scope, default) ==
            [params |-> Append(acc.params, [p EXCEPT !.id = acc.next, !.default = default.e]),
             scope |-> scope, next |-> default.next, errors |-> acc.errors \cup default.errors]
        WithParam(acc, p, scope) ==
            WithDefault(acc, p, scope, ResolveExpr(p.default, scope, acc.next + 1, at))
        Done(ps, body) == [done |-> [f EXCEPT !.params = ps.params, !.body = body.e],
                           errors |-> ps.errors \cup body.errors]
        WithBody(ps) == Done(ps, ResolveExpr(f.body, ps.scope, ps.next, at))
    IN  WithBody(FoldLeft(LAMBDA acc, p : WithParam(acc, p, Bind(acc.scope, p, acc.next, "param")),
                          [params |-> <<>>, scope |-> NoScope, next |-> 0, errors |-> {}], f.params))

\* substitute_in_expr: a call that was short of trailing arguments gets the defaults it now knows.
RECURSIVE FillDefaults(_, _)
FillDefaults(e, functions) ==
    LET defaults == IF e.kind = "call" /\ e.id # 0 THEN functions[e.id].params ELSE <<>>
        missing == SubSeq(defaults, Len(e.kids) + 1, Len(defaults))
        gap == {i \in DOMAIN missing : missing[i].default.kind = "absent"}
        usable == IF gap = {} THEN missing
                  ELSE SubSeq(missing, 1, (CHOOSE i \in gap : \A j \in gap : i <= j) - 1)
        kids == e.kids \o [i \in DOMAIN usable |-> usable[i].default]
    IN  [e EXCEPT !.kids = [i \in DOMAIN kids |-> FillDefaults(kids[i], functions)]]

\* The whole pass: functions, methods, lets, field defaults, then the missing arguments.
ResolveReferences(m) ==
    LET At(home) == [module |-> m, home |-> home]
        OfField(d) == [d EXCEPT !.default = ResolveExpr(@, NoScope, 0, At("")).e]
        Filled(f, functions) == [f EXCEPT !.body = FillDefaults(@, functions)]
        WithArguments(fs, ms, ls, functions) ==
            [errors |-> UNION {r.errors : r \in Range(fs) \cup Range(ms) \cup Range(ls)},
             module |-> [m EXCEPT
                !.functions = [i \in DOMAIN @ |-> Filled(functions[i], functions)],
                !.methods = [i \in DOMAIN @ |-> Filled(ms[i].done, functions)],
                !.lets = [i \in DOMAIN @ |-> [@[i] EXCEPT !.value = FillDefaults(ls[i].e, functions)]],
                !.structs = [i \in DOMAIN @ |-> [@[i] EXCEPT !.fields =
                                [j \in DOMAIN @ |-> OfField(@[j])]]]]]
        AfterWalks(fs, ms, ls) == WithArguments(fs, ms, ls, [i \in DOMAIN fs |-> fs[i].done])
    IN  AfterWalks([i \in DOMAIN m.functions |-> ResolveFunction(m.functions[i], At(m.functions[i].name.home))],
                   [i \in DOMAIN m.methods |-> ResolveFunction(m.methods[i], At(""))],
                   [i \in DOMAIN m.lets |-> ResolveExpr(m.lets[i].value, NoScope, 0, At(""))])

------------------------------------------------------------------------------
(* ClosureConversionPass: lift each closure, turn captured names into      *)
(* fields of the environment.                                              *)

MaxOf(s) == CHOOSE x \in s : \A y \in s : x >= y

\* Mutant: only the functions of the source are looked at.
FirstFreeFunction(m) ==
    MaxOf({d.name.number : d \in {d \in Range(m.functions) :
                                    d.name.home = "" /\ d.name.stem = "__closure"}} \cup {-1}) + 1

\* first_free_index: one past the highest number a user's name already uses.
FirstFreeIndex(m) ==
    LET NumbersOf(defs, stem) ==
            {d.name.number : d \in {d \in Range(defs) : d.name.home = "" /\ d.name.stem = stem}}
        used == NumbersOf(m.structs, "__ClosureEnv") \cup NumbersOf(m.functions, "__closure")
    IN  MaxOf(used \cup {-1}) + 1

\* CaptureCtx: the ids captured by the closure the walk is in, the name of each, its environment.
ModuleLevel == [ids |-> {}, nameOf |-> [id \in {} |-> ""], env |-> IntType]

ForClosure(captures, env) ==
    [ids |-> {c.id : c \in Range(captures)},
     nameOf |-> FoldLeft(LAMBDA acc, c : [id \in DOMAIN acc \cup {c.id} |->
                                            IF id = c.id THEN c.name ELSE acc[id]],
                         [id \in {} |-> ""], captures),
     env |-> env]

EnvFieldAccess(field, ty, ctx) == FieldOf(Reference(EnvParam, ctx.env), field, ty)

LiftedFunction(name, envType, params, body) ==
    Function(name,
             <<Param(EnvParam, envType, Absent)>>
                \o [i \in DOMAIN params |-> Param(params[i].name, params[i].ty, Absent)],
             body.ty, body)

\* process, over some expressions: the state goes from one to the next, left to right.
RECURSIVE Process(_, _, _)
ProcessEach(kids, ctx, st) ==
    LET Processed(acc, r) == [kids |-> Append(acc.kids, r.e), st |-> r.st]
    IN  FoldLeft(LAMBDA acc, k : Processed(acc, Process(k, ctx, acc.st)), [kids |-> <<>>, st |-> st], kids)

\* lift_closure: the environment first, then the body in its own context, then the lifted
\* function; the values of the environment are read where the closure stands.
LiftClosure(e, outer, st) ==
    LET envType == StructType(st.baseStructs + Len(st.envs) + 1)
        fields == [i \in DOMAIN e.captures |-> Field(e.captures[i].name, e.captures[i].ty, Absent)]
        opened == [st EXCEPT !.next = @ + 1,
                             !.envs = Append(@, Struct(Numbered("__ClosureEnv", st.next), fields))]
        name == Numbered("__closure", st.next)
        Closed(body) == [body.st EXCEPT !.lifted = Append(@, LiftedFunction(name, envType, e.binds, body.e))]
        reads == [i \in DOMAIN e.captures |->
                    [Reference(e.captures[i].name, e.captures[i].ty) EXCEPT
                        !.target = "local", !.id = e.captures[i].id]]
        Environment(values) == New(envType[2], [i \in DOMAIN reads |-> <<reads[i].name, values[i]>>])
        Lifted(values) ==
            [e |-> [Node("closureref", "", <<Environment(values.kids)>>, e.ty) EXCEPT !.callee = name],
             st |-> values.st]
    IN  Lifted(ProcessEach(reads, outer,
                   Closed(Process(e.kids[1], ForClosure(e.captures, envType), opened))))

Process(e, ctx, st) ==
    CASE e.kind = "ref" /\ e.target \in {"local", "param"} /\ e.id \in ctx.ids ->
            [e |-> EnvFieldAccess(ctx.nameOf[e.id], e.ty, ctx), st |-> st]
      [] e.kind = "letref" /\ e.id \in ctx.ids ->
            [e |-> EnvFieldAccess(e.name, e.ty, ctx), st |-> st]
      [] e.kind = "closure" -> LiftClosure(e, ctx, st)
      [] OTHER ->
            LET Whole(r) == [e |-> [e EXCEPT !.kids = r.kids], st |-> r.st]
            IN  Whole(ProcessEach(e.kids, ctx, st))

\* Fold the state through a sequence of definitions; Of(d, st) gives [done, st].
ConvertAll(defs, Of(_, _), st) ==
    LET Converted(acc, r) == [defs |-> Append(acc.defs, r.done), st |-> r.st]
    IN  FoldLeft(LAMBDA acc, d : Converted(acc, Of(d, acc.st)), [defs |-> <<>>, st |-> st], defs)

ConvertLet(l, st) ==
    LET Converted(r) == [done |-> [l EXCEPT !.value = r.e], st |-> r.st]
    IN  Converted(Process(l.value, ModuleLevel, st))

\* A parameter or a field: its default.
ConvertDefault(p, st) ==
    LET Converted(r) == [done |-> [p EXCEPT !.default = r.e], st |-> r.st]
    IN  Converted(Process(p.default, ModuleLevel, st))

\* The body first, then the defaults of the parameters.
ConvertFunction(f, st) ==
    LET Converted(body, params) ==
            [done |-> [f EXCEPT !.body = body.e, !.params = params.defs], st |-> params.st]
        WithBody(body) == Converted(body, ConvertAll(f.params, ConvertDefault, body.st))
    IN  WithBody(Process(f.body, ModuleLevel, st))

ConvertStruct(s, st) ==
    LET Converted(fields) == [done |-> [s EXCEPT !.fields = fields.defs], st |-> fields.st]
    IN  Converted(ConvertAll(s.fields, ConvertDefault, st))

NewConversion(m) ==
    [next |-> FirstFreeIndex(m), baseStructs |-> Len(m.structs), envs |-> <<>>, lifted |-> <<>>]

\* Every expression of the module, for the checks that look for what should be gone.
RECURSIVE Within(_)
Within(e) == {e} \cup UNION {Within(k) : k \in Range(e.kids)}

BodiesOf(m) ==
    {f.body : f \in Range(m.functions) \cup Range(m.methods)} \cup {l.value : l \in Range(m.lets)}
FieldDefaultsOf(m) == UNION {{d.default : d \in Range(s.fields)} : s \in Range(m.structs)}
ParamDefaultsOf(m) ==
    UNION {{p.default : p \in Range(f.params)} : f \in Range(m.functions) \cup Range(m.methods)}

ExprHasClosure(e) == \E k \in Within(e) : k.kind = "closure"

------------------------------------------------------------------------------
(* DefunctionalisePass: an enum and a dispatch function for every closure  *)
(* type, a tag for every closure value.                                    *)

\* The order walk_module visits bodies in: field defaults, methods, functions, lets.
WalkOrder(m) ==
    FlattenSeq([i \in DOMAIN m.structs |-> [j \in DOMAIN m.structs[i].fields |->
                                                m.structs[i].fields[j].default]])
    \o [i \in DOMAIN m.methods |-> m.methods[i].body]
    \o [i \in DOMAIN m.functions |-> m.functions[i].body]
    \o [i \in DOMAIN m.lets |-> m.lets[i].value]

ShapeIndex(found, ty) ==
    IF \E i \in DOMAIN found : found[i].ty = ty THEN CHOOSE i \in DOMAIN found : found[i].ty = ty
    ELSE 0

RecordShape(found, ty) ==
    IF ShapeIndex(found, ty) # 0 THEN found ELSE Append(found, [ty |-> ty, targets |-> <<>>])

RecordTarget(found, ty, target) ==
    LET known == RecordShape(found, ty)
        i == ShapeIndex(known, ty)
    IN  IF target \in Range(known[i].targets) THEN known
        ELSE [known EXCEPT ![i].targets = Append(@, target)]

RECURSIVE Collect(_, _)
Collect(found, e) ==
    LET here == CASE e.kind = "apply" /\ IsClosureType(e.kids[1].ty) -> RecordShape(found, e.kids[1].ty)
                  [] e.kind = "closureref" ->
                        RecordTarget(found, e.ty, [callee |-> e.callee, env |-> e.kids[1].ty])
                  [] OTHER -> found
    IN  FoldLeft(LAMBDA acc, k : Collect(acc, k), here, e.kids)

ClosureShapes(m) == FoldLeft(LAMBDA acc, e : Collect(acc, e), <<>>, WalkOrder(m))

\* fresh_names: the next number free for an enum and for a function.
FreshNumber(m, next) ==
    CHOOSE k \in next .. next + Len(m.enums) + Len(m.functions) :
        /\ IndexOf(m.enums, Numbered("__Fn", k)) = 0
        /\ IndexOf(m.functions, Numbered("__call_Fn", k)) = 0
        /\ \A j \in next .. k - 1 : \/ IndexOf(m.enums, Numbered("__Fn", j)) # 0
                                    \/ IndexOf(m.functions, Numbered("__call_Fn", j)) # 0

Digits == <<"p0", "p1", "p2", "p3">>

\* build_dispatch: match f { .__closure<N>(env): __closure<N>(env, p0, ..), .. }
Dispatch(name, shape, enumType) ==
    LET params == shape.ty[2]
        result == shape.ty[3]
        Arguments == [i \in DOMAIN params |-> Reference(Digits[i], params[i])]
        Arm(t) == [Node("arm", "", <<Call(t.callee, <<Reference("env", t.env)>> \o Arguments, result)>>,
                        result)
                   EXCEPT !.callee = t.callee, !.binds = <<Binding("env", t.env)>>]
        body == Node("match", "",
                     <<Reference("f", enumType)>>
                        \o [i \in DOMAIN shape.targets |-> Arm(shape.targets[i])], result)
    IN  Function(name,
                 <<Param("f", enumType, Absent)>>
                    \o [i \in DOMAIN params |-> Param(Digits[i], params[i], Absent)],
                 result, body)

\* One shape: its enum, its dispatch function, and what the rewrite must know of them.
SynthesiseShape(m, shape, next) ==
    LET k == FreshNumber(m, next)
        enumType == EnumType(Len(m.enums) + 1)
        variants == [i \in DOMAIN shape.targets |->
                        Variant(shape.targets[i].callee,
                                <<Field("env", shape.targets[i].env, Absent)>>)]
        call == Numbered("__call_Fn", k)
    IN  [module |-> [m EXCEPT !.enums = Append(@, Enum(Numbered("__Fn", k), variants)),
                              !.functions = Append(@, Dispatch(call, shape, enumType))],
         next |-> k + 1,
         planned |-> [ty |-> shape.ty, enum |-> enumType, call |-> call,
                      variants |-> {t.callee : t \in Range(shape.targets)}]]

PlanFor(planned, ty) == {p \in Range(planned) : p.ty = ty}

\* A type slot: the whole type first, then the parts of a closure type nothing was built for.
RECURSIVE RewriteType(_, _)
RewriteType(t, planned) ==
    IF PlanFor(planned, t) # {} THEN (CHOOSE p \in PlanFor(planned, t) : TRUE).enum
    ELSE IF IsClosureType(t)
    THEN ClosureType([i \in DOMAIN t[2] |-> RewriteType(t[2][i], planned)], RewriteType(t[3], planned))
    ELSE t

RECURSIVE RewriteExpr(_, _)
RewriteExpr(e, planned) ==
    LET Kids == [i \in DOMAIN e.kids |-> RewriteExpr(e.kids[i], planned)]
        As(p) == CHOOSE q \in p : TRUE
    IN
    CASE e.kind = "closureref" ->
            LET p == PlanFor(planned, e.ty)
            IN  IF p = {} \/ e.callee \notin As(p).variants THEN e
                ELSE [Node("tag", "", Kids, As(p).enum) EXCEPT !.callee = e.callee]
      [] e.kind = "apply" ->
            LET p == PlanFor(planned, e.kids[1].ty)
            IN  IF p = {} THEN [e EXCEPT !.kids = Kids] ELSE Call(As(p).call, Kids, e.ty)
      [] OTHER ->
            [e EXCEPT !.kids = Kids, !.ty = RewriteType(@, planned),
                      !.binds = [i \in DOMAIN @ |-> [@[i] EXCEPT !.ty = RewriteType(@, planned)]]]

\* apply: lets, functions, methods, fields of structs and of variants.
RewriteModule(m, planned) ==
    LET OfFunction(f) ==
            [f EXCEPT !.params = [i \in DOMAIN @ |-> [@[i] EXCEPT
                                    !.ty = RewriteType(@, planned), !.default = RewriteExpr(@, planned)]],
                      !.result = RewriteType(@, planned), !.body = RewriteExpr(@, planned)]
        OfFields(fields) ==
            [i \in DOMAIN fields |-> [fields[i] EXCEPT
                !.ty = RewriteType(@, planned), !.default = RewriteExpr(@, planned)]]
    IN  [m EXCEPT
            !.lets = [i \in DOMAIN @ |-> [@[i] EXCEPT !.value = RewriteExpr(@, planned)]],
            !.functions = [i \in DOMAIN @ |-> OfFunction(@[i])],
            !.methods = [i \in DOMAIN @ |-> OfFunction(@[i])],
            !.structs = [i \in DOMAIN @ |-> [@[i] EXCEPT !.fields = OfFields(@)]],
            !.enums = [i \in DOMAIN @ |-> [@[i] EXCEPT !.variants =
                [j \in DOMAIN @ |-> [@[j] EXCEPT !.fields = OfFields(@)]]]]]

------------------------------------------------------------------------------
(* The passes, one step of theirs at a time. *)

NoConversion == [next |-> 0, baseStructs |-> 0, envs |-> <<>>, lifted |-> <<>>]
EmptyModule == Module(<<>>, <<>>, <<>>, <<>>, <<>>)
NoPlan == [next |-> 0, made |-> <<>>]

Init ==
    /\ source \in Programs
    /\ module = EmptyModule
    /\ stage = "lower"
    /\ conversion = NoConversion
    /\ shapes = <<>>
    /\ plan = NoPlan
    /\ errors = {}

LowerClosures ==
    /\ stage = "lower"
    /\ module' = LowerModule(source)
    /\ stage' = "resolve"
    /\ UNCHANGED <<source, conversion, shapes, plan, errors>>

\* A run of the reference pass: its errors stop the pass that asked for it.
Resolve(from, to, done) ==
    LET Take(r) == /\ errors' = r.errors
                   /\ module' = r.module
                   /\ stage' = IF r.errors = {} THEN to ELSE "failed"
                   /\ conversion' = IF done THEN conversion ELSE NewConversion(r.module)
    IN  /\ stage = from
        /\ Take(ResolveReferences(module))
        /\ UNCHANGED <<source, shapes, plan>>

ResolveBeforeConversion == Resolve("resolve", "lets", FALSE)

ConvertLets ==
    /\ stage = "lets"
    /\ LET r == ConvertAll(module.lets, ConvertLet, conversion)
       IN  module' = [module EXCEPT !.lets = r.defs] /\ conversion' = r.st
    /\ stage' = "functions"
    /\ UNCHANGED <<source, shapes, plan, errors>>

ConvertFunctions ==
    /\ stage = "functions"
    /\ LET r == ConvertAll(module.functions, ConvertFunction, conversion)
       IN  module' = [module EXCEPT !.functions = r.defs] /\ conversion' = r.st
    /\ stage' = "methods"
    /\ UNCHANGED <<source, shapes, plan, errors>>

ConvertMethods ==
    /\ stage = "methods"
    /\ LET r == ConvertAll(module.methods, ConvertFunction, conversion)
       IN  module' = [module EXCEPT !.methods = r.defs] /\ conversion' = r.st
    /\ stage' = "fields"
    /\ UNCHANGED <<source, shapes, plan, errors>>

ConvertFieldDefaults ==
    /\ stage = "fields"
    /\ LET r == ConvertAll(module.structs, ConvertStruct, conversion)
       IN  module' = [module EXCEPT !.structs = r.defs] /\ conversion' = r.st
    /\ stage' = "append"
    /\ UNCHANGED <<source, shapes, plan, errors>>

\* The synthetic definitions go last, and no closure may be left anywhere.
AppendLifted ==
    /\ stage = "append"
    /\ LET m == [module EXCEPT !.structs = @ \o conversion.envs,
                               !.functions = @ \o conversion.lifted]
           residual == \E e \in BodiesOf(m) \cup FieldDefaultsOf(m) \cup ParamDefaultsOf(m) :
                           ExprHasClosure(e)
       IN  /\ module' = m
           /\ errors' = IF residual THEN {"residual closure"} ELSE {}
           /\ stage' = IF residual THEN "failed" ELSE "resolve lifted"
    /\ UNCHANGED <<source, conversion, shapes, plan>>

ResolveLifted == Resolve("resolve lifted", "converted", TRUE)

CollectShapes ==
    /\ stage = "converted"
    /\ shapes' = ClosureShapes(module)
    /\ stage' = IF shapes' = <<>> THEN "done" ELSE "synthesise"
    /\ UNCHANGED <<source, module, conversion, plan, errors>>

Synthesise ==
    /\ stage = "synthesise"
    /\ LET r == SynthesiseShape(module, shapes[Len(plan.made) + 1], plan.next)
       IN  /\ module' = r.module
           /\ plan' = [next |-> r.next, made |-> Append(plan.made, r.planned)]
           /\ stage' = IF Len(plan'.made) = Len(shapes) THEN "rewrite" ELSE stage
    /\ UNCHANGED <<source, conversion, shapes, errors>>

\* Rewrite everything; find_residuals walks what walk_module walks.
RewriteClosures ==
    /\ stage = "rewrite"
    /\ LET m == RewriteModule(module, plan.made)
           residual == \E e \in Range(WalkOrder(m)) : \E k \in Within(e) : k.kind \in {"closureref", "apply"}
       IN  /\ module' = m
           /\ errors' = IF residual THEN {"indirect call remains"} ELSE {}
           /\ stage' = IF residual THEN "failed" ELSE "resolve dispatch"
    /\ UNCHANGED <<source, conversion, shapes, plan>>

ResolveDispatch == Resolve("resolve dispatch", "done", TRUE)

Stop == stage \in {"done", "failed"} /\ UNCHANGED vars

Next ==
    \/ LowerClosures \/ ResolveBeforeConversion
    \/ ConvertLets \/ ConvertFunctions \/ ConvertMethods \/ ConvertFieldDefaults
    \/ AppendLifted \/ ResolveLifted
    \/ CollectShapes \/ Synthesise \/ RewriteClosures \/ ResolveDispatch
    \/ Stop

Spec == Init /\ [][Next]_vars
==============================================================================
