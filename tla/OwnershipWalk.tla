----------------------------- MODULE OwnershipWalk ----------------------------
(***************************************************************************)
(* What the validation of one body (semantic/validation: blocks, branches, *)
(* loops, closures, the conventions of calls) records about the ownership  *)
(* of its bindings: a binding given to a sink parameter is consumed, and   *)
(* a later read of it is an error.  Everything is recorded by name.        *)
(***************************************************************************)
EXTENDS Bodies

VARIABLES consumed,     \* consumed_bindings
          lets,         \* local_let_bindings: parameters and bindings in scope
          inner,        \* loop_var_scopes and closure_param_scopes
          captures,     \* closure_binding_captures: a name to what it captures
          frames        \* outer_frames: [closure, names] for each loop or closure

ownVars == <<consumed, lets, inner, captures, frames>>

Validates(op) == phase = "validate" /\ At(op)
Errors(es) == errors' = errors \cup {<<e, pos>> : e \in es}

\* validate_expr_reference, as far as ownership goes.
ReadErrors(n) == IF n \in consumed THEN {"UseAfterSink"} ELSE {}

sink_repeats(n) == \E i \in DOMAIN frames : n \in frames[i].names
is_closure_capture(n) == \E i \in DOMAIN frames : frames[i].closure /\ n \in frames[i].names

\* check_sink_owner: only the arguments of functions are checked.
check_sink_owner(n) ==
    CASE n \in DOMAIN Params /\ ~Params[n].sink -> {"MutabilityMismatch"}
      [] sink_repeats(n) -> {"UseAfterSink"}
      [] OTHER -> {}

\* escape_closure_value: the captures of a closure that is given away, and theirs.
Captured(ns) == UNION {captures[n] : n \in ns \cap DOMAIN captures}
escape_closure_value(n) ==
    LET grow[k \in Nat] == IF k = 0 THEN Captured({n})
                           ELSE grow[k - 1] \cup Captured(grow[k - 1])
    IN  grow[Cardinality(DOMAIN captures)]

ValidateLet ==
    /\ Validates("let")
    /\ lets' = lets \cup {body[pos].x}
    /\ Advance
    /\ UNCHANGED <<fn, phase, open, errors, consumed, inner, captures, frames>>

ValidateRead ==
    /\ Validates("read")
    /\ Errors(ReadErrors(body[pos].x))
    /\ Advance
    /\ UNCHANGED <<fn, phase, open, ownVars>>

\* An argument is validated as an expression before its convention is applied:
\* validate_mut_param_args for functions, validate_fn_param_conventions_args for
\* methods, validate_closure_call_conventions for closures.
ValidateGive ==
    /\ Validates("give")
    /\ LET n == body[pos].x
       IN  /\ Errors(ReadErrors(n)
                \cup IF body[pos].via = "function" THEN check_sink_owner(n) ELSE {})
           /\ consumed' = consumed \cup {n} \cup escape_closure_value(n)
    /\ Advance
    /\ UNCHANGED <<fn, phase, open, lets, inner, captures, frames>>

\* Mutant: an assignment does not give the binding its value back.
SetKeepsConsumed ==
    /\ Validates("set")
    /\ Errors(IF is_closure_capture(body[pos].x) THEN {"AssignmentToImmutable"} ELSE {})
    /\ Advance
    /\ UNCHANGED <<fn, phase, open, ownVars>>

\* An assignment to a whole binding writes it and does not read it.
ValidateSet ==
    /\ Validates("set")
    /\ LET n == body[pos].x
       IN  /\ Errors(IF is_closure_capture(n) THEN {"AssignmentToImmutable"} ELSE {})
           /\ consumed' = consumed \ {n}
    /\ Advance
    /\ UNCHANGED <<fn, phase, open, lets, inner, captures, frames>>

\* validate_exclusive_access: paths are compared field by field, and an index
\* reaches its whole container.
is_exclusive(conv) == conv \in {"mut", "sink"}
access_path(path) == SelectSeq(path, LAMBDA segment : segment # "[]")
starts_with(p, q) == Len(q) <= Len(p) /\ SubSeq(p, 1, Len(q)) = q
overlap(p, q) == IF Len(p) <= Len(q) THEN starts_with(q, p) ELSE starts_with(p, q)

\* root_binding: a field has the root of its object, an element has none.
root_binding(path) == IF \E i \in DOMAIN path : path[i] = "[]" THEN {} ELSE {path[1]}
Roots(accesses, conv) ==
    UNION {root_binding(a.path) : a \in {a \in accesses : a.conv = conv}}
Given(accesses) == Roots(accesses, "sink")

\* The conventions are applied argument by argument, the accesses compared after.
\* A closure is pure: it passes no binding that it captures to a mut parameter.
MutErrors(accesses) ==
    IF \E n \in Roots(accesses, "mut") : is_closure_capture(n)
    THEN {"MutabilityMismatch"} ELSE {}
ValidatePair ==
    /\ Validates("pair")
    /\ LET a == body[pos].a
           b == body[pos].b
       IN  /\ Errors(ReadErrors(a.path[1]) \cup ReadErrors(b.path[1])
                \cup MutErrors({a, b})
                \cup UNION {check_sink_owner(n) : n \in Given({a, b})}
                \cup IF /\ is_exclusive(a.conv) \/ is_exclusive(b.conv)
                        /\ overlap(access_path(a.path), access_path(b.path))
                     THEN {"OverlappingArguments"} ELSE {})
           /\ consumed' = consumed \cup Given({a, b})
    /\ Advance
    /\ UNCHANGED <<fn, phase, open, lets, inner, captures, frames>>

\* A call through a binding: what the closure captured must still be there.
ValidateCall ==
    /\ Validates("call")
    /\ Errors(IF Captured({body[pos].x}) \cap consumed # {} THEN {"UseAfterSink"} ELSE {})
    /\ Advance
    /\ UNCHANGED <<fn, phase, open, ownVars>>

ValidateBlock ==
    /\ Validates("block")
    /\ open' = Append(open, [op |-> "block", lets |-> lets, captures |-> captures,
                             consumed |-> consumed])
    /\ Advance
    /\ UNCHANGED <<fn, phase, errors, ownVars>>

\* What the block consumed stays consumed, except the names it introduced.
introduced_here(n) == n \in lets /\ n \notin Top.lets
ValidateEndBlock ==
    /\ phase = "validate" /\ Closes("block")
    /\ consumed' = Top.consumed \cup {n \in consumed : ~introduced_here(n)}
    /\ lets' = Top.lets
    /\ captures' = Top.captures
    /\ open' = Pop(open)
    /\ Advance
    /\ UNCHANGED <<fn, phase, errors, inner, frames>>

\* Both branches start from the state before the "if"; after it, what one of them
\* consumed is consumed.  A "match" does the same with its arms.
ValidateIf ==
    /\ Validates("if")
    /\ open' = Append(open, [op |-> "if", pre |-> consumed])
    /\ Advance
    /\ UNCHANGED <<fn, phase, errors, ownVars>>

ValidateElse ==
    /\ Validates("else")
    /\ open' = Append(Pop(open), [op |-> "if", pre |-> Top.pre, after_then |-> consumed])
    /\ consumed' = Top.pre
    /\ Advance
    /\ UNCHANGED <<fn, phase, errors, lets, inner, captures, frames>>

\* Mutant: the state after the last branch is the state after all of them.
EndIfKeepsLast ==
    /\ phase = "validate" /\ Closes("if")
    /\ open' = Pop(open)
    /\ Advance
    /\ UNCHANGED <<fn, phase, errors, ownVars>>

ValidateEndIf ==
    /\ phase = "validate" /\ Closes("if")
    /\ consumed' = consumed \cup Top.after_then
    /\ open' = Pop(open)
    /\ Advance
    /\ UNCHANGED <<fn, phase, errors, lets, inner, captures, frames>>

\* push_outer_frame: the names in scope where the body starts.
InScope == lets \cup UNION {inner[i] : i \in DOMAIN inner}
push_outer_frame(closure) ==
    frames' = Append(frames, [closure |-> closure, names |-> InScope])

ValidateFor ==
    /\ Validates("for")
    /\ push_outer_frame(FALSE)
    /\ inner' = Append(inner, Binds(pos))
    /\ open' = Append(open, [op |-> "for"])
    /\ Advance
    /\ UNCHANGED <<fn, phase, errors, consumed, lets, captures>>

\* A closure literal, bound to a name or an argument: its body may not name what
\* is consumed where the closure is made, except as the head of a call.
ConsumedCaptures ==
    {r[2] : r \in {r \in FreeReferences(pos) : body[r[1]].op # "call"}} \cap consumed
ValidateClosure ==
    /\ \E op \in {"closure", "arg"} : Validates(op)
    /\ Errors(IF ConsumedCaptures # {} THEN {"UseAfterSink"} ELSE {})
    /\ push_outer_frame(TRUE)
    /\ inner' = Append(inner, Binds(pos))
    /\ open' = Append(open, [op |-> body[pos].op, x |-> body[pos].x, free |-> FreeNames(pos)])
    /\ Advance
    /\ UNCHANGED <<fn, phase, consumed, lets, captures>>

\* The end of a loop, of a closure argument, and of a closure that is bound.
ValidateEndBody ==
    /\ phase = "validate" /\ \E op \in {"for", "closure", "arg"} : Closes(op)
    /\ frames' = Pop(frames)
    /\ inner' = Pop(inner)
    /\ IF Top.op = "closure"
       THEN /\ captures' = [n \in DOMAIN captures \cup {Top.x} |->
                               IF n = Top.x THEN Top.free ELSE captures[n]]
            /\ lets' = lets \cup {Top.x}
       ELSE UNCHANGED <<captures, lets>>
    /\ open' = Pop(open)
    /\ Advance
    /\ UNCHANGED <<fn, phase, errors, consumed>>

ValidateDone ==
    /\ phase = "validate" /\ Hand("run")
    /\ UNCHANGED <<errors, ownVars>>

OwnershipInit ==
    /\ consumed = {}
    /\ lets = DOMAIN Params
    /\ inner = <<>>
    /\ captures = <<>>
    /\ frames = <<>>

OwnershipNext ==
    \/ ValidateLet \/ ValidateRead \/ ValidateGive \/ ValidateSet
    \/ ValidatePair \/ ValidateCall
    \/ ValidateBlock \/ ValidateEndBlock
    \/ ValidateIf \/ ValidateElse \/ ValidateEndIf
    \/ ValidateFor \/ ValidateClosure \/ ValidateEndBody
    \/ ValidateDone
===============================================================================
