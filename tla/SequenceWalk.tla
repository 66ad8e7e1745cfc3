----------------------------- MODULE SequenceWalk -----------------------------
(***************************************************************************)
(* The walk of semantic/validation/sequence_linear.rs over one body: a     *)
(* lazy sequence must be read exactly once on every path.                  *)
(***************************************************************************)
EXTENDS Bodies

VARIABLE scopes     \* one function from names to bindings for each open scope

linearVars == <<scopes>>

Linear(op) == phase = "linear" /\ At(op)
Innermost == Len(scopes)
Binding(seq) == [seq |-> seq, used |-> FALSE, outside |-> FALSE]

\* The bindings of the scopes, as <<scope, name>>.
Places(frames) ==
    UNION {{<<d, n>> : n \in DOMAIN frames[d]} : d \in DOMAIN frames}

\* A binding that reuses a name of the same scope replaces it.
bind(frame, n, seq) ==
    [m \in DOMAIN frame \cup {n} |-> IF m = n THEN Binding(seq) ELSE frame[m]]

\* The sequences of the closing scope that nothing read.
Unread(frame) == {n \in DOMAIN frame : frame[n].seq /\ ~frame[n].used}
close_scope(frames) ==
    {<<"SeqNotConsumed", pos>> : n \in Unread(frames[Len(frames)])}

\* A read of n: the innermost binding of the name is the one that is read.
DepthOf(n) == {d \in DOMAIN scopes : n \in DOMAIN scopes[d]}
BindingDepth(n) == CHOOSE d \in DepthOf(n) : \A e \in DepthOf(n) : e <= d
read(n) ==
    IF DepthOf(n) = {} \/ ~scopes[BindingDepth(n)][n].seq
    THEN UNCHANGED <<scopes, errors>>
    ELSE LET d == BindingDepth(n)
             b == scopes[d][n]
         IN  IF b.used \/ b.outside
             THEN /\ errors' = errors \cup {<<"SeqUsedTwice", pos>>}
                  /\ UNCHANGED scopes
             ELSE /\ scopes' = [scopes EXCEPT ![d][n].used = TRUE]
                  /\ UNCHANGED errors

LinearLet ==
    /\ Linear("let")
    /\ scopes' = [scopes EXCEPT ![Innermost] =
                     bind(scopes[Innermost], body[pos].x, body[pos].seq)]
    /\ Advance
    /\ UNCHANGED <<fn, phase, open, errors>>

\* References, arguments and the targets of assignments are all read.
LinearRead ==
    /\ \E op \in {"read", "give", "set"} : Linear(op)
    /\ read(body[pos].x)
    /\ Advance
    /\ UNCHANGED <<fn, phase, open>>

\* The head of a call is a path of its own kind, not a reference: a call through
\* a binding reads nothing.  The programs pass no sequence to a "pair".
LinearSkip ==
    /\ \E op \in {"call", "pair"} : Linear(op)
    /\ Advance
    /\ UNCHANGED <<fn, phase, open, errors, scopes>>

LinearBlock ==
    /\ Linear("block")
    /\ scopes' = Append(scopes, <<>>)
    /\ open' = Append(open, [op |-> "block"])
    /\ Advance
    /\ UNCHANGED <<fn, phase, errors>>

LinearEndBlock ==
    /\ phase = "linear" /\ Closes("block")
    /\ errors' = errors \cup close_scope(scopes)
    /\ scopes' = Pop(scopes)
    /\ open' = Pop(open)
    /\ Advance
    /\ UNCHANGED <<fn, phase>>

\* walk_alternatives: each branch starts from the state before the first one.
LinearIf ==
    /\ Linear("if")
    /\ open' = Append(open, [op |-> "if", before |-> scopes])
    /\ Advance
    /\ UNCHANGED <<fn, phase, errors, scopes>>

LinearElse ==
    /\ Linear("else")
    /\ open' = Append(Pop(open), [op |-> "if", before |-> Top.before, after |-> scopes])
    /\ scopes' = Top.before
    /\ Advance
    /\ UNCHANGED <<fn, phase, errors>>

\* What was not read before the branches and is read in one of them is read
\* after them, and it must be read in both.
merged(before, one, other) ==
    [d \in DOMAIN before |->
        [n \in DOMAIN before[d] |->
            [before[d][n] EXCEPT !.used = @ \/ one[d][n].used \/ other[d][n].used]]]
Disagreements(before, one, other) ==
    {<<d, n>> \in Places(before) :
        ~before[d][n].used /\ one[d][n].used # other[d][n].used}

LinearEndIf ==
    /\ phase = "linear" /\ Closes("if")
    /\ errors' = errors \cup {<<"SeqNotConsumed", pos>> :
                     x \in Disagreements(Top.before, Top.after, scopes)}
    /\ scopes' = merged(Top.before, Top.after, scopes)
    /\ open' = Pop(open)
    /\ Advance
    /\ UNCHANGED <<fn, phase>>

\* Mutant: the bindings of the innermost scope only.
UnmarkedHere == {<<d, n>> \in Places(scopes) : d = Innermost /\ ~scopes[d][n].outside}

\* walk_repeated: every binding in scope is outside a body that runs for each
\* element.  Neither the loop variable nor the parameters of a closure are bound.
Unmarked == {<<d, n>> \in Places(scopes) : ~scopes[d][n].outside}
Marked(frames, which, value) ==
    [d \in DOMAIN frames |->
        [n \in DOMAIN frames[d] |->
            IF <<d, n>> \in which THEN [frames[d][n] EXCEPT !.outside = value]
            ELSE frames[d][n]]]

LinearRepeat ==
    /\ \E op \in {"for", "arg"} : Linear(op)
    /\ scopes' = Append(Marked(scopes, Unmarked, TRUE), <<>>)
    /\ open' = Append(open, [op |-> body[pos].op, marked |-> Unmarked])
    /\ Advance
    /\ UNCHANGED <<fn, phase, errors>>

LinearEndRepeat ==
    /\ phase = "linear" /\ (Closes("for") \/ Closes("arg"))
    /\ errors' = errors \cup close_scope(scopes)
    /\ scopes' = Marked(Pop(scopes), Top.marked, FALSE)
    /\ open' = Pop(open)
    /\ Advance
    /\ UNCHANGED <<fn, phase>>

\* A closure that is bound to a name: its body is walked where it stands, and the
\* binding is plain.
LinearClosure ==
    /\ Linear("closure")
    /\ open' = Append(open, [op |-> "closure", x |-> body[pos].x])
    /\ Advance
    /\ UNCHANGED <<fn, phase, errors, scopes>>

LinearEndClosure ==
    /\ phase = "linear" /\ Closes("closure")
    /\ scopes' = [scopes EXCEPT ![Innermost] = bind(scopes[Innermost], Top.x, FALSE)]
    /\ open' = Pop(open)
    /\ Advance
    /\ UNCHANGED <<fn, phase, errors>>

\* The scope of the parameters closes after the body.
LinearDone ==
    /\ phase = "linear" /\ Hand("validate")
    /\ errors' = errors \cup close_scope(scopes)
    /\ scopes' = <<>>

SequenceInit ==
    scopes = <<[n \in DOMAIN Params |-> Binding(Params[n].sink /\ Params[n].seq)]>>

SequenceNext ==
    \/ LinearLet \/ LinearRead \/ LinearSkip
    \/ LinearBlock \/ LinearEndBlock
    \/ LinearIf \/ LinearElse \/ LinearEndIf
    \/ LinearRepeat \/ LinearEndRepeat
    \/ LinearClosure \/ LinearEndClosure
    \/ LinearDone
===============================================================================
