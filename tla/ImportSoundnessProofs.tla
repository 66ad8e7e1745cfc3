------------------------ MODULE ImportSoundnessProofs ------------------------
(***************************************************************************)
(* Further proofs about ImportAnalysis, on top of its inductive invariant: *)
(*   - an accepted program is sound in every module that the entry module  *)
(*     reaches, however failures, cycles and the cache met on the way;     *)
(*   - a reported cycle is a cycle of the source;                          *)
(*   - a file keeps one id, and what finished stays as it is;              *)
(*   - no error is lost on its way to the entry module;                    *)
(*   - the lowering never misses the module that an import came from.      *)
(***************************************************************************)
EXTENDS ImportAnalysisProofs

-----------------------------------------------------------------------------
(* What a step does to the stack, seen from the frames: each frame comes   *)
(* from one that was there, or is new.                                     *)

\* The frame y comes from x: in the same file, with the errors of x at least,
\* and past the current `use` of x or not; F are the import edges.
Follows(uses, F, x, y) ==
    /\ y.file = x.file
    /\ x.errs \subseteq y.errs
    /\ \/ y.next = x.next
       \/ /\ y.next = x.next + 1
          /\ y.errs = {} => <<x.file, uses[x.file][x.next].file>> \in F

\* A new analyzer, on a file that parses.
Fresh(garbled, y) == y.next = 1 /\ y.errs = {} /\ y.file \notin garbled

StackFollows(uses, garbled, F, s, t) ==
    \A i \in 1..Len(t) : \/ \E j \in 1..Len(s) : Follows(uses, F, s[j], t[i])
                         \/ Fresh(garbled, t[i])

\* The innermost frame follows and the others stay.
LEMMA FollowsReplace ==
    ASSUME IInv, NEW x \in Frame, SetTop(x), NEW G, NEW F, Follows(prog.uses, F, Top, x)
    PROVE  StackFollows(prog.uses, G, F, stack, stack')
<1>1. stack \in Seq(Frame) /\ stack # <<>> /\ Len(stack) \in Nat \ {0}
  BY TopFacts DEF IInv, TypeOK
<1>2. /\ Len(stack') = Len(stack) /\ stack'[Len(stack)] = x
      /\ \A i \in 1..(Len(stack) - 1) : stack'[i] = stack[i]
  BY <1>1, ReplaceTop DEF SetTop, Below
<1>3. ASSUME NEW i \in 1..Len(stack)
      PROVE  \E j \in 1..Len(stack) : Follows(prog.uses, F, stack[j], stack'[i])
  <2>1. CASE i = Len(stack)
    BY <1>1, <1>2, <2>1 DEF Top
  <2>2. CASE i \in 1..(Len(stack) - 1)
    BY <1>2, <2>2 DEF Follows
  <2> QED
    BY <1>1, <2>1, <2>2
<1> QED
  BY <1>2, <1>3 DEF StackFollows

\* The innermost frame goes and the one below follows.
LEMMA FollowsPop ==
    ASSUME IInv, Depth > 0, NEW x \in Frame, NEW G,
           stack' = Append(SubSeq(Below, 1, Len(Below) - 1), x),
           Follows(prog.uses, edges, Parent, x)
    PROVE  StackFollows(prog.uses, G, edges, stack, stack')
<1>1. /\ Len(stack) > 1 /\ Len(stack) \in Nat /\ stack \in Seq(Frame)
      /\ Parent = stack[Len(stack) - 1]
  BY ParentFacts DEF IInv, TypeOK
<1>2. /\ Len(stack') = Len(stack) - 1 /\ stack'[Len(stack) - 1] = x
      /\ \A i \in 1..(Len(stack) - 2) : stack'[i] = stack[i]
  BY <1>1, PopTop DEF Below
<1>3. ASSUME NEW i \in 1..(Len(stack) - 1)
      PROVE  \E j \in 1..Len(stack) : Follows(prog.uses, edges, stack[j], stack'[i])
  <2>1. CASE i = Len(stack) - 1
    <3>1. Follows(prog.uses, edges, stack[i], stack'[i])
      BY <1>1, <1>2, <2>1
    <3>2. i \in 1..Len(stack)
      BY <1>1
    <3> QED
      BY <3>1, <3>2
  <2>2. CASE i \in 1..(Len(stack) - 2)
    <3>1. stack'[i] = stack[i] /\ i \in 1..Len(stack)
      BY <1>1, <1>2, <2>2
    <3>2. Follows(prog.uses, edges, stack[i], stack'[i])
      BY <3>1 DEF Follows
    <3> QED
      BY <3>1, <3>2
  <2>3. i = Len(stack) - 1 \/ i \in 1..(Len(stack) - 2)
    BY <1>1
  <2> QED
    BY <2>1, <2>2, <2>3
<1> QED
  BY <1>2, <1>3 DEF StackFollows

LEMMA ParentFollows ==
    ASSUME IInv, Depth > 0, NEW x, x.file = Parent.file, x.next = Parent.next + 1,
           Parent.errs \subseteq x.errs
    PROVE  Follows(prog.uses, edges, Parent, x)
<1>1. /\ Len(stack) - 1 \in 1..(Len(stack) - 1) /\ Parent = stack[Len(stack) - 1]
  BY ParentFacts
<1>2. <<Parent.file, prog.uses[Parent.file][Parent.next].file>> \in edges
  BY <1>1 DEF IInv, Links
<1> QED
  BY <1>2 DEF Follows

-----------------------------------------------------------------------------
(* What is known of the modules behind the stack. *)

\* The module f has no fault of its own, and all that it imports finished.
Clean(f, fin, E) ==
    /\ f \notin prog.garbled \cup prog.faulty
    /\ \A i \in DOMAIN prog.locals[f] : ~prog.locals[f][i].ambiguous
    /\ \A k \in DOMAIN UsesOf(f) : UsesOf(f)[k].file \in fin /\ <<f, UsesOf(f)[k].file>> \in E

\* Frames: their file parses, and a frame without an error has put an edge
\* into the graph for each `use` behind it.
EdgesBehind(uses, garbled, E, s) ==
    \A i \in 1..Len(s) :
        /\ s[i].file \notin garbled
        /\ s[i].errs = {} =>
             \A k \in 1..(s[i].next - 1) : <<s[i].file, uses[s[i].file][k].file>> \in E

SInv ==
    /\ EdgesBehind(prog.uses, prog.garbled, edges, stack)
    /\ \A f \in Finished : Clean(f, Finished, edges)
    /\ verdict = "ok" => Clean(Root, Finished, edges)

LEMMA EdgesBehindKeeps ==
    ASSUME NEW uses, NEW G, NEW E, NEW F, E \subseteq F,
           NEW s \in Seq(Frame), NEW t \in Seq(Frame),
           EdgesBehind(uses, G, E, s), StackFollows(uses, G, F, s, t)
    PROVE  EdgesBehind(uses, G, F, t)
<1> SUFFICES ASSUME NEW i \in 1..Len(t)
             PROVE  /\ t[i].file \notin G
                    /\ t[i].errs = {} =>
                         \A k \in 1..(t[i].next - 1) : <<t[i].file, uses[t[i].file][k].file>> \in F
  BY DEF EdgesBehind
<1>1. CASE Fresh(G, t[i])
  BY <1>1 DEF Fresh
<1>2. ASSUME NEW j \in 1..Len(s), Follows(uses, F, s[j], t[i])
      PROVE  /\ t[i].file \notin G
             /\ t[i].errs = {} =>
                  \A k \in 1..(t[i].next - 1) : <<t[i].file, uses[t[i].file][k].file>> \in F
  <2>1. t[i].file = s[j].file /\ s[j].file \notin G /\ s[j].next \in Nat \ {0}
    <3>1. s[j] \in Frame
      BY ElementOfSeq, LenProperties
    <3> QED
      BY <1>2, <3>1 DEF Follows, EdgesBehind, Frame
  <2>2. ASSUME t[i].errs = {}, NEW k \in 1..(t[i].next - 1)
        PROVE  <<t[i].file, uses[t[i].file][k].file>> \in F
    <3>1. s[j].errs = {}
      BY <1>2, <2>2 DEF Follows
    <3>2. CASE k \in 1..(s[j].next - 1)
      BY <2>1, <3>1, <3>2 DEF EdgesBehind
    <3>3. CASE k = s[j].next /\ t[i].next = s[j].next + 1
      BY <1>2, <2>1, <2>2, <3>3 DEF Follows
    <3>4. \/ k \in 1..(s[j].next - 1)
          \/ k = s[j].next /\ t[i].next = s[j].next + 1
      <4>1. t[i].next = s[j].next \/ t[i].next = s[j].next + 1
        BY <1>2 DEF Follows
      <4> QED
        BY <2>1, <2>2, <4>1
    <3> QED
      BY <3>2, <3>3, <3>4
  <2> QED
    BY <2>1, <2>2
<1> QED
  BY <1>1, <1>2 DEF StackFollows

-----------------------------------------------------------------------------
(* Every step follows the frames. *)

LEMMA UseMissingFollows ==
    ASSUME IInv, UseMissing
    PROVE  /\ edges \subseteq edges'
           /\ StackFollows(prog.uses, prog.garbled, edges', stack, stack')
<1>1. HasUse(Top) /\ Top \in Frame /\ Error("ModuleNotFound", Top) \in ErrorRec
  BY TopFacts, ErrorType DEF IInv, UseMissing, ErrorKinds
<1> DEFINE x == Refuse(Top, {Error("ModuleNotFound", Top)})
<1>2. /\ x \in Frame /\ x.file = Top.file /\ x.next = Top.next + 1
      /\ Top.errs \subseteq x.errs /\ x.errs # {}
  BY <1>1, RefuseType
<1>3. SetTop(x) /\ edges' = edges
  BY DEF UseMissing
<1> HIDE DEF x
<1>4. Follows(prog.uses, edges', Top, x)
  BY <1>2 DEF Follows
<1> QED
  BY <1>2, <1>3, <1>4, FollowsReplace

LEMMA UseCyclicFollows ==
    ASSUME IInv, UseCyclic
    PROVE  /\ edges \subseteq edges'
           /\ StackFollows(prog.uses, prog.garbled, edges', stack, stack')
<1>1. HasUse(Top) /\ Top \in Frame /\ Error("CircularImport", Top) \in ErrorRec
  BY TopFacts, ErrorType DEF IInv, UseCyclic, ErrorKinds
<1> DEFINE x == Refuse(Top, {Error("CircularImport", Top)})
<1>2. /\ x \in Frame /\ x.file = Top.file /\ x.next = Top.next + 1
      /\ Top.errs \subseteq x.errs /\ x.errs # {}
  BY <1>1, RefuseType
<1>3. SetTop(x) /\ edges' = edges
  BY DEF UseCyclic
<1> HIDE DEF x
<1>4. Follows(prog.uses, edges', Top, x)
  BY <1>2 DEF Follows
<1> QED
  BY <1>2, <1>3, <1>4, FollowsReplace

LEMMA UseGarbledFollows ==
    ASSUME IInv, UseGarbled
    PROVE  /\ edges \subseteq edges'
           /\ StackFollows(prog.uses, prog.garbled, edges', stack, stack')
<1>1. /\ HasUse(Top) /\ Top \in Frame /\ Error("ParseError", Top) \in ErrorRec
      /\ Admit(CurrentUse(Top))
  BY TopFacts, ErrorType DEF IInv, UseGarbled, ErrorKinds
<1> DEFINE x == Refuse(Top, {Error("ParseError", Top)})
<1>2. /\ x \in Frame /\ x.file = Top.file /\ x.next = Top.next + 1
      /\ Top.errs \subseteq x.errs /\ x.errs # {}
  BY <1>1, RefuseType
<1>3. SetTop(x) /\ edges \subseteq edges'
  BY <1>1 DEF UseGarbled, Admit
<1> HIDE DEF x
<1>4. Follows(prog.uses, edges', Top, x)
  BY <1>2 DEF Follows
<1> QED
  BY <1>2, <1>3, <1>4, FollowsReplace

LEMMA UseCachedFollows ==
    ASSUME IInv, UseCached
    PROVE  /\ edges \subseteq edges'
           /\ StackFollows(prog.uses, prog.garbled, edges', stack, stack')
<1> DEFINE u == CurrentUse(Top)
           x == Bring(Top, cache[u.file])
<1>1. /\ HasUse(Top) /\ Top \in Frame /\ Admit(u) /\ u.file \in Finished /\ SetTop(x)
  BY TopFacts DEF IInv, UseCached, Cached
<1>2. u \in Use /\ u.file \in Files /\ cache[u.file] \in Table
  BY <1>1, UseFacts, AdmitKeeps DEF IInv, TypeOK, Finished
<1>3. /\ x \in Frame /\ x.file = Top.file /\ x.next = Top.next + 1
      /\ Top.errs \subseteq x.errs
  BY <1>1, <1>2, BringType
<1> HIDE DEF x
<1>4. edges \subseteq edges' /\ <<Top.file, prog.uses[Top.file][Top.next].file>> \in edges'
  BY <1>1, AdmitKeeps DEF CurrentUse, UsesOf
<1>5. Follows(prog.uses, edges', Top, x)
  BY <1>3, <1>4 DEF Follows
<1> QED
  BY <1>1, <1>3, <1>4, <1>5, FollowsReplace

LEMMA EnterModuleFollows ==
    ASSUME IInv, EnterModule
    PROVE  /\ edges \subseteq edges'
           /\ StackFollows(prog.uses, prog.garbled, edges', stack, stack')
<1> DEFINE u == CurrentUse(Top)
           x == NewFrame(u.file)
<1>1. /\ HasUse(Top) /\ Admit(u) /\ u.file \notin prog.garbled
      /\ stack' = Append(stack, x)
  BY DEF EnterModule
<1>2. edges \subseteq edges'
  BY <1>1, AdmitKeeps
<1>3. stack \in Seq(Frame) /\ Len(stack) \in Nat
  BY TopFacts DEF IInv, TypeOK
<1>4. Fresh(prog.garbled, x)
  BY <1>1 DEF Fresh, NewFrame
<1> HIDE DEF x
<1>5. /\ Len(stack') = Len(stack) + 1 /\ stack'[Len(stack) + 1] = x
      /\ \A i \in 1..Len(stack) : stack'[i] = stack[i]
  BY <1>1, <1>3
<1>6. ASSUME NEW i \in 1..Len(stack')
      PROVE  \/ \E j \in 1..Len(stack) : Follows(prog.uses, edges', stack[j], stack'[i])
             \/ Fresh(prog.garbled, stack'[i])
  <2>1. CASE i = Len(stack) + 1
    BY <1>4, <1>5, <2>1
  <2>2. CASE i \in 1..Len(stack)
    <3>1. Follows(prog.uses, edges', stack[i], stack'[i])
      BY <1>5, <2>2 DEF Follows
    <3> QED
      BY <2>2, <3>1
  <2> QED
    BY <1>3, <1>5, <2>1, <2>2
<1> QED
  BY <1>2, <1>6 DEF StackFollows

LEMMA FailModuleFollows ==
    ASSUME IInv, FailModule
    PROVE  /\ edges \subseteq edges'
           /\ StackFollows(prog.uses, prog.garbled, edges', stack, stack')
<1> DEFINE x == Refuse(Parent, LowerErrors(Top))
<1>1. /\ Depth > 0 /\ Top \in Frame /\ edges' = edges
      /\ stack' = Append(SubSeq(Below, 1, Len(Below) - 1), x)
  BY TopFacts DEF IInv, FailModule
<1>2. Parent \in Frame /\ LowerErrors(Top) \in SUBSET ErrorRec
  BY <1>1, ParentFacts, LowerErrorsType
<1>3. /\ x \in Frame /\ x.file = Parent.file /\ x.next = Parent.next + 1
      /\ Parent.errs \subseteq x.errs
  BY <1>2, RefuseType
<1> HIDE DEF x
<1> QED
  BY <1>1, <1>3, ParentFollows, FollowsPop

LEMMA FinishModuleFollows ==
    ASSUME IInv, FinishModule
    PROVE  /\ edges \subseteq edges'
           /\ StackFollows(prog.uses, prog.garbled, edges', stack, stack')
<1> DEFINE t == FinalTable(Top)
           x == Bring(Parent, t)
<1>1. /\ Depth > 0 /\ Top \in Frame /\ edges' = edges
      /\ stack' = Append(SubSeq(Below, 1, Len(Below) - 1), x)
  BY TopFacts DEF IInv, FinishModule
<1>2. /\ Parent \in Frame /\ CurrentUse(Parent) \in Use
      /\ CurrentUse(Parent).file \in Files
  BY <1>1, ParentFacts
<1>3. t \in Table
  BY <1>1, AnalyzedTableType DEF IInv, TypeOK
<1> HIDE DEF t
<1>4. /\ x \in Frame /\ x.file = Parent.file /\ x.next = Parent.next + 1
      /\ Parent.errs \subseteq x.errs
  BY <1>2, <1>3, BringType
<1> HIDE DEF x
<1> QED
  BY <1>1, <1>4, ParentFollows, FollowsPop

LEMMA FinishEntryFollows ==
    ASSUME IInv, FinishEntry
    PROVE  /\ edges \subseteq edges'
           /\ StackFollows(prog.uses, prog.garbled, edges', stack, stack')
<1> DEFINE t == FinalTable(Top)
           errs == LowerErrors(Top)
           x == [Top EXCEPT !.errs = errs, !.table = t]
<1>1. Depth = 0 /\ Top \in Frame /\ stack' = <<x>> /\ edges' = edges
  BY TopFacts DEF IInv, FinishEntry
<1>2. Top.errs \subseteq errs
  BY DEF LowerErrors, PassErrors
<1> HIDE DEF errs, t
<1>3. x.file = Top.file /\ x.next = Top.next /\ x.errs = errs
  BY <1>1 DEF Frame
<1> HIDE DEF x
<1>4. Len(stack) = 1 /\ Top = stack[1] /\ Len(stack') = 1 /\ stack'[1] = x
  BY <1>1, TopFacts DEF IInv, Depth, Top
<1>5. Follows(prog.uses, edges', Top, x)
  BY <1>2, <1>3 DEF Follows
<1> QED
  BY <1>1, <1>4, <1>5 DEF StackFollows

LEMMA StepFollows ==
    ASSUME IInv, Next
    PROVE  /\ edges \subseteq edges'
           /\ StackFollows(prog.uses, prog.garbled, edges', stack, stack')
BY UseMissingFollows, UseCyclicFollows, UseCachedFollows, UseGarbledFollows,
   EnterModuleFollows, FailModuleFollows, FinishModuleFollows, FinishEntryFollows DEF Next

-----------------------------------------------------------------------------
(* An accepted program is sound. *)

\* A module that ends without an error is clean.
LEMMA EndIsClean ==
    ASSUME IInv, SInv, AtEnd, LowerErrors(Top) = {}
    PROVE  Clean(Top.file, Finished, edges)
<1>1. /\ Len(stack) \in 1..Len(stack) /\ Top = stack[Len(stack)]
      /\ Top \in Frame /\ Top.next \in Nat \ {0}
  BY TopFacts DEF IInv, Top
<1>2. PassErrors(Top) = {} /\ Top.errs = {}
  BY DEF LowerErrors, PassErrors
<1>3. \A e \in [kind : {"AmbiguousModulePath", "OwnError"}, mod : {Top.file}, use : {0}] :
        IF e.kind = "AmbiguousModulePath" THEN ~AmbiguousUse(Top)
        ELSE Top.file \notin prog.faulty
  BY <1>2 DEF PassErrors
<1>4. ~AmbiguousUse(Top)
  <2> DEFINE e == [kind |-> "AmbiguousModulePath", mod |-> Top.file, use |-> 0]
  <2>1. e \in [kind : {"AmbiguousModulePath", "OwnError"}, mod : {Top.file}, use : {0}]
    OBVIOUS
  <2>2. e.kind = "AmbiguousModulePath"
    OBVIOUS
  <2> QED
    BY <1>3, <2>1, <2>2
<1>5. Top.file \notin prog.faulty
  <2> DEFINE e == [kind |-> "OwnError", mod |-> Top.file, use |-> 0]
  <2>1. e \in [kind : {"AmbiguousModulePath", "OwnError"}, mod : {Top.file}, use : {0}]
    OBVIOUS
  <2>2. e.kind # "AmbiguousModulePath"
    OBVIOUS
  <2> QED
    BY <1>3, <2>1, <2>2
<1>6. Top.file \notin prog.garbled
  BY <1>1 DEF SInv, EdgesBehind
<1>7. ASSUME NEW k \in DOMAIN UsesOf(Top.file)
      PROVE  UsesOf(Top.file)[k].file \in Finished /\ <<Top.file, UsesOf(Top.file)[k].file>> \in edges
  <2>1. UsesOf(Top.file) \in Seq(Use)
    BY <1>1 DEF IInv, TypeOK, Program, UsesOf, Frame
  <2>2. DOMAIN UsesOf(Top.file) = 1..Len(UsesOf(Top.file)) /\ Len(UsesOf(Top.file)) \in Nat
    BY <2>1, LenProperties
  <2>3. k \in 1..(Top.next - 1)
    BY <1>1, <2>2 DEF AtEnd, HasUse
  <2>4. UsesOf(Top.file)[k].file \in Finished
    BY <1>1, <1>2, <2>3 DEF IInv, Provided, UsesOf
  <2>5. <<Top.file, UsesOf(Top.file)[k].file>> \in edges
    BY <1>1, <1>2, <2>3 DEF SInv, EdgesBehind, UsesOf
  <2> QED
    BY <2>4, <2>5
<1> QED
  BY <1>4, <1>5, <1>6, <1>7 DEF Clean, AmbiguousUse

\* Clean modules stay clean: files and edges are only added.
LEMMA CleanMonotone ==
    ASSUME prog' = prog, NEW f, NEW fin, NEW more, fin \subseteq more,
           NEW E, NEW F, E \subseteq F, Clean(f, fin, E)
    PROVE  Clean(f, more, F)'
BY DEF Clean, UsesOf

LEMMA SInvInit == Init => SInv
<1> SUFFICES ASSUME Init PROVE SInv
  OBVIOUS
<1>1. prog.garbled \subseteq Files
  BY ProgramsAreTyped DEF Init, Program
<1>2. stack = <<NewFrame(Root)>> /\ NewFrame(Root).file = Root /\ NewFrame(Root).next = 1
  BY DEF Init, NewFrame
<1>3. EdgesBehind(prog.uses, prog.garbled, edges, stack)
  BY <1>1, <1>2, RootIsNoFile DEF EdgesBehind
<1> QED
  BY <1>3 DEF Init, SInv, Finished

LEMMA SInvStep == IInv /\ SInv /\ [Next]_vars => SInv'
<1> SUFFICES ASSUME IInv, SInv, [Next]_vars PROVE SInv'
  OBVIOUS
<1>0. IInv'
  BY StepKeeps
<1>1. CASE UNCHANGED vars
  BY <1>1 DEF vars, SInv, EdgesBehind, Finished, Clean, UsesOf
<1>2. CASE Next
  <2>1. prog' = prog
    BY <1>2 DEF Next, UseMissing, UseCyclic, UseCached, UseGarbled, EnterModule,
                FailModule, FinishModule, FinishEntry
  <2>2. /\ edges \subseteq edges'
        /\ StackFollows(prog.uses, prog.garbled, edges', stack, stack')
    BY <1>2, StepFollows
  <2>3. EdgesBehind(prog.uses, prog.garbled, edges, stack)'
    BY <1>0, <2>1, <2>2, EdgesBehindKeeps DEF IInv, TypeOK, SInv
  <2>4. CASE FinishModule
    <3>1. /\ Finished' = Finished \cup {Top.file} /\ verdict' = verdict /\ edges' = edges
          /\ AtEnd /\ LowerErrors(Top) = {}
      BY <2>4 DEF FinishModule, Finished
    <3>2. Clean(Top.file, Finished, edges)
      BY <3>1, EndIsClean
    <3>3. \A f \in Finished' : Clean(f, Finished, edges)
      BY <3>1, <3>2 DEF SInv
    <3>4. \A f \in Finished' : Clean(f, Finished, edges)'
      BY <2>1, <2>2, <3>1, <3>3, CleanMonotone DEF Finished
    <3>5. verdict' # "ok"
      BY <3>1 DEF AtEnd
    <3> QED
      BY <2>3, <3>4, <3>5 DEF SInv
  <2>5. CASE FinishEntry
    <3>1. /\ Finished' = Finished /\ edges' = edges /\ AtEnd /\ Depth = 0
          /\ verdict' = "ok" => LowerErrors(Top) = {}
      BY <2>5 DEF FinishEntry, Finished
    <3>2. Top.file = Root
      BY <3>1, TopFacts DEF IInv, Depth, Top, Links
    <3>3. verdict' = "ok" => Clean(Root, Finished, edges)
      BY <3>1, <3>2, EndIsClean
    <3> QED
      BY <2>1, <2>3, <3>1, <3>3 DEF SInv, Clean, UsesOf
  <2>6. CASE ~FinishModule /\ ~FinishEntry
    <3>1. Finished' = Finished /\ verdict' = verdict /\ verdict # "ok"
      BY <1>2, <2>6 DEF Next, UseMissing, UseCyclic, UseCached, UseGarbled, EnterModule,
                        FailModule, AtEnd, Finished
    <3>2. \A f \in Finished' : Clean(f, Finished, edges)'
      <4>1. \A f \in Finished : Clean(f, Finished, edges)
        BY DEF SInv
      <4> QED
        BY <2>1, <2>2, <3>1, <4>1 DEF Clean, UsesOf
    <3> QED
      BY <2>3, <3>1, <3>2 DEF SInv
  <2> QED
    BY <2>4, <2>5, <2>6
<1> QED
  BY <1>1, <1>2

\* The entry module and the finished files are closed under the `use`s of the
\* source, and the import graph has all these `use`s: so every module in
\* reach is clean, and none is on a cycle.
LEMMA CleanIsSound ==
    ASSUME IInv, SInv, verdict = "ok"
    PROVE  SoundProgram
<1> DEFINE S == Finished \cup {Root}
           G == UseGraph
<1>1. S \in SUBSET Modules /\ Root \in S
  BY DEF IInv, TypeOK, Modules, Finished
<1>2. \A m \in S : Clean(m, Finished, edges)
  BY DEF SInv
<1>3. \A e \in G : e[1] \in S => e \in edges /\ e[2] \in S
  <2> SUFFICES ASSUME NEW e \in G, e[1] \in S PROVE e \in edges /\ e[2] \in S
    OBVIOUS
  <2>1. PICK i \in DOMAIN UsesOf(e[1]) : UsesOf(e[1])[i].file = e[2]
    BY DEF UseGraph
  <2>2. e[2] \in Finished /\ <<e[1], e[2]>> \in edges
    BY <1>2, <2>1 DEF Clean
  <2>3. e = <<e[1], e[2]>>
    BY DEF UseGraph
  <2> QED
    BY <2>2, <2>3
<1>4. Closed(G, S)
  BY <1>3 DEF Closed
<1>5. ASSUME NEW m \in Modules, Reaches(G, Root, m)
      PROVE  Sound(G, m)
  <2>1. m \in S
    BY <1>1, <1>4, <1>5 DEF Reaches
  <2>2. Clean(m, Finished, edges)
    BY <1>2, <2>1
  <2>3. \A i \in DOMAIN UsesOf(m) : UsesOf(m)[i].file # NoFile
    BY <2>2, NoFileIsNoFile DEF Clean, IInv, TypeOK, Finished
  <2>4. ASSUME NEW f \in Files, <<m, f>> \in G PROVE ~Reaches(G, f, m)
    <3>1. <<m, f>> \in edges /\ f \in S
      BY <1>3, <2>1, <2>4
    <3>2. ~Reaches(edges, f, m)
      BY <3>1 DEF IInv, Acyclic
    <3>3. PICK T \in SUBSET Modules : f \in T /\ Closed(edges, T) /\ m \notin T
      BY <3>2 DEF Reaches
    <3>4. Closed(G, S \cap T)
      BY <1>3, <3>3 DEF Closed
    <3>5. S \cap T \in SUBSET Modules /\ f \in S \cap T /\ m \notin S \cap T
      BY <3>1, <3>3
    <3> QED
      BY <3>4, <3>5 DEF Reaches
  <2> HIDE DEF G
  <2> QED
    BY <2>2, <2>3, <2>4 DEF Sound, Clean
<1> QED
  BY <1>5 DEF SoundProgram

\* A program is accepted only if every module that the entry module reaches
\* is free of faults and of cycles: the cache, the retries after a failure
\* and the order of the `use`s hide nothing.
THEOREM AcceptedProgramsAreSound == Spec => []AcceptedIsSound
<1>1. IInv /\ SInv => AcceptedIsSound
  BY CleanIsSound DEF AcceptedIsSound
<1> QED
  BY <1>1, Invariance, SInvInit, SInvStep, PTL DEF Spec

-----------------------------------------------------------------------------
(* The errors of the running analyzers. *)

Frames(st) == {st[i] : i \in 1..Len(st)}

LEMMA ErrorsOfFrames ==
    ASSUME IInv
    PROVE  AllErrors = UNION {y.errs : y \in Frames(stack)}
<1>1. DOMAIN stack = 1..Len(stack)
  BY TopFacts DEF IInv
<1> QED
  BY <1>1 DEF AllErrors, Frames

\* A `use` adds what it found.
LEMMA ErrorsReplace ==
    ASSUME IInv, IInv', NEW x \in Frame, SetTop(x), NEW es, x.errs = Top.errs \cup es
    PROVE  AllErrors' = AllErrors \cup es
<1>1. stack \in Seq(Frame) /\ stack # <<>> /\ Len(stack) \in Nat \ {0}
  BY TopFacts DEF IInv, TypeOK
<1>2. /\ Len(stack') = Len(stack) /\ stack'[Len(stack)] = x
      /\ \A i \in 1..(Len(stack) - 1) : stack'[i] = stack[i]
  BY <1>1, ReplaceTop DEF SetTop, Below
<1> DEFINE rest == {stack[i] : i \in 1..(Len(stack) - 1)}
<1>3. Frames(stack) = rest \cup {Top}
  <2>1. 1..Len(stack) = 1..(Len(stack) - 1) \cup {Len(stack)}
    BY <1>1
  <2> QED
    BY <2>1 DEF Frames, Top
<1>4. Frames(stack)' = rest \cup {x}
  <2>1. 1..Len(stack) = 1..(Len(stack) - 1) \cup {Len(stack)}
    BY <1>1
  <2> QED
    BY <1>2, <2>1 DEF Frames
<1> HIDE DEF rest
<1>5. /\ AllErrors = (UNION {y.errs : y \in rest}) \cup Top.errs
      /\ AllErrors' = (UNION {y.errs : y \in rest}) \cup x.errs
  <2>1. AllErrors = UNION {y.errs : y \in rest \cup {Top}}
    BY <1>3, ErrorsOfFrames
  <2>2. AllErrors' = UNION {y.errs : y \in rest \cup {x}}
    <3>1. AllErrors' = UNION {y.errs : y \in Frames(stack)'}
      <4>1. DOMAIN stack' = 1..Len(stack')
        BY TopFacts DEF IInv, TypeOK
      <4> QED
        BY <4>1 DEF AllErrors, Frames
    <3> QED
      BY <1>4, <3>1
  <2> QED
    BY <2>1, <2>2
<1> QED
  BY <1>5

\* An analyzer that ends hands its errors down.
LEMMA ErrorsPop ==
    ASSUME IInv, IInv', Depth > 0, NEW x \in Frame,
           stack' = Append(SubSeq(Below, 1, Len(Below) - 1), x),
           NEW es, x.errs = Parent.errs \cup es, Top.errs \subseteq es
    PROVE  AllErrors' = AllErrors \cup es
<1>1. /\ Len(stack) > 1 /\ Len(stack) \in Nat /\ stack \in Seq(Frame)
      /\ Parent = stack[Len(stack) - 1]
  BY ParentFacts DEF IInv, TypeOK
<1>2. /\ Len(stack') = Len(stack) - 1 /\ stack'[Len(stack) - 1] = x
      /\ \A i \in 1..(Len(stack) - 2) : stack'[i] = stack[i]
  BY <1>1, PopTop DEF Below
<1> DEFINE rest == {stack[i] : i \in 1..(Len(stack) - 2)}
<1>3. Frames(stack) = rest \cup {Parent, Top}
  <2>1. 1..Len(stack) = 1..(Len(stack) - 2) \cup {Len(stack) - 1, Len(stack)}
    BY <1>1
  <2> QED
    BY <1>1, <2>1 DEF Frames, Top
<1>4. Frames(stack)' = rest \cup {x}
  <2>1. 1..(Len(stack) - 1) = 1..(Len(stack) - 2) \cup {Len(stack) - 1}
    BY <1>1
  <2>2. Frames(stack)' = {stack'[i] : i \in 1..(Len(stack) - 2) \cup {Len(stack) - 1}}
    BY <1>2, <2>1 DEF Frames
  <2>3. @ = {stack'[i] : i \in 1..(Len(stack) - 2)} \cup {stack'[Len(stack) - 1]}
    OBVIOUS
  <2>4. {stack'[i] : i \in 1..(Len(stack) - 2)} = rest
    BY <1>2
  <2> QED
    BY <1>2, <2>2, <2>3, <2>4
<1> HIDE DEF rest
<1>5. AllErrors = UNION {y.errs : y \in rest \cup {Parent, Top}}
  BY <1>3, ErrorsOfFrames
<1>6. AllErrors' = UNION {y.errs : y \in rest \cup {x}}
  <2>1. DOMAIN stack' = 1..Len(stack')
    BY TopFacts DEF IInv, TypeOK
  <2>2. AllErrors' = UNION {y.errs : y \in Frames(stack)'}
    BY <2>1, SMTT(30) DEF AllErrors, Frames
  <2> QED
    BY <1>4, <2>2
<1>7. AllErrors = (UNION {y.errs : y \in rest}) \cup Parent.errs \cup Top.errs
  BY <1>5
<1>8. AllErrors' = (UNION {y.errs : y \in rest}) \cup x.errs
  BY <1>6
<1> QED
  BY <1>7, <1>8

\* What importing from a table may report.
LEMMA BringErrors ==
    ASSUME NEW fr, NEW from
    PROVE  \E es \in SUBSET {Error("ImportRefused", fr)} :
             Bring(fr, from).errs = fr.errs \cup es
BY DEF Bring, Advance

\* What the end of an analyzer reports on its own module.
EndError(fr, e) ==
    \/ e.kind = "AmbiguousModulePath" /\ e.mod = fr.file /\ AmbiguousUse(fr)
    \/ e.kind = "OwnError" /\ e.mod = fr.file
    \/ e.kind = "InternalError" /\ Missing(FinalTable(fr)) # {}

\* Each kind of error comes from one step: an error about a `use` from the step
\* that refuses it, the others from the end of an analyzer.
StepError(e) ==
    \/ UseMissing /\ e = Error("ModuleNotFound", Top)
    \/ UseCyclic /\ e = Error("CircularImport", Top)
    \/ UseGarbled /\ e = Error("ParseError", Top)
    \/ e.kind = "ImportRefused"
    \/ EndError(Top, e)

ErrorStep ==
    \E es : /\ AllErrors' = AllErrors \cup es
            /\ \A e \in es \ AllErrors : StepError(e)

LEMMA UseErrorStep ==
    ASSUME IInv, IInv', UseMissing \/ UseCyclic \/ UseGarbled \/ UseCached
    PROVE  ErrorStep
<1>0. Top \in Frame
  BY TopFacts DEF IInv
<1>1. ASSUME NEW k \in ErrorKinds, SetTop(Refuse(Top, {Error(k, Top)})),
             StepError(Error(k, Top))
      PROVE  ErrorStep
  <2> DEFINE x == Refuse(Top, {Error(k, Top)})
  <2>1. x \in Frame /\ x.errs = Top.errs \cup {Error(k, Top)}
    BY <1>0, ErrorType, RefuseType
  <2>2. SetTop(x)
    BY <1>1
  <2> HIDE DEF x
  <2>3. AllErrors' = AllErrors \cup {Error(k, Top)}
    BY <2>1, <2>2, ErrorsReplace
  <2> QED
    BY <1>1, <2>3 DEF ErrorStep
<1>2. CASE UseMissing
  <2>1. SetTop(Refuse(Top, {Error("ModuleNotFound", Top)}))
    BY <1>2 DEF UseMissing
  <2>2. StepError(Error("ModuleNotFound", Top)) /\ "ModuleNotFound" \in ErrorKinds
    BY <1>2 DEF StepError, ErrorKinds
  <2> QED
    BY <1>1, <2>1, <2>2
<1>3. CASE UseCyclic
  <2>1. SetTop(Refuse(Top, {Error("CircularImport", Top)}))
    BY <1>3 DEF UseCyclic
  <2>2. StepError(Error("CircularImport", Top)) /\ "CircularImport" \in ErrorKinds
    BY <1>3 DEF StepError, ErrorKinds
  <2> QED
    BY <1>1, <2>1, <2>2
<1>4. CASE UseGarbled
  <2>1. SetTop(Refuse(Top, {Error("ParseError", Top)}))
    BY <1>4 DEF UseGarbled
  <2>2. StepError(Error("ParseError", Top)) /\ "ParseError" \in ErrorKinds
    BY <1>4 DEF StepError, ErrorKinds
  <2> QED
    BY <1>1, <2>1, <2>2
<1>5. CASE UseCached
  <2> DEFINE u == CurrentUse(Top)
             x == Bring(Top, cache[u.file])
  <2>1. /\ HasUse(Top) /\ Admit(u) /\ u.file \in Finished /\ SetTop(x)
    BY <1>5 DEF UseCached, Cached
  <2>2. u \in Use /\ u.file \in Files /\ cache[u.file] \in Table
    BY <1>0, <2>1, UseFacts, AdmitKeeps DEF IInv, TypeOK, Finished
  <2>3. x \in Frame
    BY <1>0, <2>2, BringType
  <2>4. PICK es \in SUBSET {Error("ImportRefused", Top)} : x.errs = Top.errs \cup es
    BY BringErrors
  <2> HIDE DEF x
  <2>5. AllErrors' = AllErrors \cup es
    BY <2>1, <2>3, <2>4, ErrorsReplace
  <2>6. \A e \in es : e.kind = "ImportRefused"
    BY <2>4 DEF Error
  <2> QED
    BY <2>5, <2>6 DEF ErrorStep, StepError
<1> QED
  BY <1>2, <1>3, <1>4, <1>5

LEMMA EnterErrorStep ==
    ASSUME IInv, IInv', EnterModule
    PROVE  ErrorStep
<1> DEFINE x == NewFrame(CurrentUse(Top).file)
<1>1. stack' = Append(stack, x) /\ x.errs = {}
  BY DEF EnterModule, NewFrame
<1>2. stack \in Seq(Frame) /\ Len(stack) \in Nat /\ DOMAIN stack = 1..Len(stack)
  BY TopFacts DEF IInv, TypeOK
<1> HIDE DEF x
<1>3. /\ Len(stack') = Len(stack) + 1 /\ stack'[Len(stack) + 1] = x
      /\ \A i \in 1..Len(stack) : stack'[i] = stack[i]
      /\ DOMAIN stack' = 1..(Len(stack) + 1)
  BY <1>1, <1>2
<1>4. AllErrors \subseteq AllErrors'
  <2>1. \A i \in DOMAIN stack : i \in DOMAIN stack' /\ stack'[i].errs = stack[i].errs
    BY <1>2, <1>3
  <2> QED
    BY <2>1 DEF AllErrors
<1>5. AllErrors' \subseteq AllErrors
  <2>1. \A i \in DOMAIN stack' : \/ stack'[i].errs = {}
                                 \/ i \in DOMAIN stack /\ stack'[i].errs = stack[i].errs
    BY <1>1, <1>2, <1>3
  <2> QED
    BY <2>1 DEF AllErrors
<1>6. AllErrors' = AllErrors \cup {}
  BY <1>4, <1>5
<1> QED
  BY <1>6 DEF ErrorStep

\* The errors that a module ends with.
LEMMA LowerErrorsKinds ==
    ASSUME NEW fr
    PROVE  /\ fr.errs \subseteq LowerErrors(fr)
           /\ \A e \in LowerErrors(fr) \ fr.errs : EndError(fr, e)
<1>1. fr.errs \subseteq PassErrors(fr)
  BY DEF PassErrors
<1>2. ASSUME NEW e \in PassErrors(fr) \ fr.errs
      PROVE  EndError(fr, e)
  <2>1. /\ e \in [kind : {"AmbiguousModulePath", "OwnError"}, mod : {fr.file}, use : {0}]
        /\ e.kind = "AmbiguousModulePath" => AmbiguousUse(fr)
    BY <1>2 DEF PassErrors
  <2>2. e.mod = fr.file /\ (e.kind = "AmbiguousModulePath" \/ e.kind = "OwnError")
    BY <2>1
  <2> QED
    BY <2>1, <2>2 DEF EndError
<1>3. CASE PassErrors(fr) # {}
  BY <1>1, <1>2, <1>3 DEF LowerErrors
<1>4. CASE PassErrors(fr) = {}
  <2>1. ASSUME NEW e \in LowerErrors(fr)
        PROVE  EndError(fr, e)
    <3>1. /\ Missing(FinalTable(fr)) # {}
          /\ e = [kind |-> "InternalError", mod |-> fr.file, use |-> 0]
      BY <1>4 DEF LowerErrors
    <3>2. e.kind = "InternalError"
      BY <3>1
    <3> QED
      BY <3>1, <3>2 DEF EndError
  <2> QED
    BY <1>1, <1>4, <2>1
<1> QED
  BY <1>3, <1>4

LEMMA TopErrorsAreErrors ==
    ASSUME IInv PROVE Top.errs \subseteq AllErrors
<1>1. Len(stack) \in DOMAIN stack
  BY TopFacts DEF IInv
<1> QED
  BY <1>1 DEF AllErrors, Top

LEMMA FailErrorStep ==
    ASSUME IInv, IInv', FailModule
    PROVE  ErrorStep
<1> DEFINE es == LowerErrors(Top)
           x == Refuse(Parent, es)
<1>1. /\ Depth > 0 /\ Top \in Frame
      /\ stack' = Append(SubSeq(Below, 1, Len(Below) - 1), x)
  BY TopFacts DEF IInv, FailModule
<1>2. /\ Top.errs \subseteq es
      /\ \A e \in es \ Top.errs : EndError(Top, e)
  BY LowerErrorsKinds
<1>3. Parent \in Frame /\ es \in SUBSET ErrorRec
  BY <1>1, ParentFacts, LowerErrorsType
<1> HIDE DEF es
<1>4. x \in Frame /\ x.errs = Parent.errs \cup es
  BY <1>3, RefuseType
<1> HIDE DEF x
<1>5. AllErrors' = AllErrors \cup es
  BY <1>1, <1>2, <1>4, ErrorsPop
<1> QED
  BY <1>2, <1>5, TopErrorsAreErrors DEF ErrorStep, StepError

LEMMA FinishErrorStep ==
    ASSUME IInv, IInv', FinishModule
    PROVE  ErrorStep
<1> DEFINE t == FinalTable(Top)
           x == Bring(Parent, t)
<1>1. /\ Depth > 0 /\ Top \in Frame /\ LowerErrors(Top) = {}
      /\ stack' = Append(SubSeq(Below, 1, Len(Below) - 1), x)
  BY TopFacts DEF IInv, FinishModule
<1>2. /\ Parent \in Frame /\ CurrentUse(Parent) \in Use
      /\ CurrentUse(Parent).file \in Files
  BY <1>1, ParentFacts
<1>3. t \in Table
  BY <1>1, AnalyzedTableType DEF IInv, TypeOK
<1> HIDE DEF t
<1>4. x \in Frame
  BY <1>2, <1>3, BringType
<1>5. PICK es \in SUBSET {Error("ImportRefused", Parent)} : x.errs = Parent.errs \cup es
  BY BringErrors
<1> HIDE DEF x
<1>6. Top.errs \subseteq es
  BY <1>1, LowerErrorsKinds
<1>7. AllErrors' = AllErrors \cup es
  BY <1>1, <1>4, <1>5, <1>6, ErrorsPop
<1>8. \A e \in es : e.kind = "ImportRefused"
  BY <1>5 DEF Error
<1> QED
  BY <1>7, <1>8 DEF ErrorStep, StepError

LEMMA FinishEntryErrorStep ==
    ASSUME IInv, IInv', FinishEntry
    PROVE  ErrorStep
<1> DEFINE t == FinalTable(Top)
           es == LowerErrors(Top)
           x == [Top EXCEPT !.errs = es, !.table = t]
<1>1. Depth = 0 /\ Top \in Frame /\ stack' = <<x>>
  BY TopFacts DEF IInv, FinishEntry
<1>2. /\ Top.errs \subseteq es
      /\ \A e \in es \ Top.errs : EndError(Top, e)
  BY LowerErrorsKinds
<1> HIDE DEF es, t
<1>3. x.errs = es
  BY <1>1 DEF Frame
<1> HIDE DEF x
<1>4. DOMAIN stack = {1} /\ Top = stack[1] /\ DOMAIN stack' = {1} /\ stack'[1] = x
  BY <1>1, TopFacts DEF IInv, Depth, Top
<1>5. AllErrors = Top.errs /\ AllErrors' = es
  BY <1>3, <1>4 DEF AllErrors
<1>6. AllErrors' = AllErrors \cup es
  BY <1>2, <1>5
<1> QED
  BY <1>2, <1>5, <1>6 DEF ErrorStep, StepError

LEMMA NextErrorStep ==
    ASSUME IInv, IInv', Next PROVE ErrorStep
BY UseErrorStep, EnterErrorStep, FailErrorStep, FinishErrorStep, FinishEntryErrorStep DEF Next

\* An error that any analyzer found reaches the entry module's list: it is
\* never dropped, neither by a failure above it nor by the cache.
THEOREM NoErrorIsLost == Spec => ErrorsAreKept
<1>1. IInv /\ IInv' /\ [Next]_vars => [AllErrors \subseteq AllErrors']_vars
  <2> SUFFICES ASSUME IInv, IInv', Next PROVE AllErrors \subseteq AllErrors'
    OBVIOUS
  <2> QED
    BY NextErrorStep DEF ErrorStep
<1>2. Spec => [][Next]_vars
  BY PTL DEF Spec
<1>3. Spec => [][AllErrors \subseteq AllErrors']_vars
  BY <1>1, <1>2, Invariance, PTL
<1> QED
  BY <1>3 DEF ErrorsAreKept

-----------------------------------------------------------------------------
(* Reported cycles are cycles of the source. *)

CInv ==
    /\ edges \subseteq UseGraph
    /\ \A e \in AllErrors :
          e.kind = "CircularImport" => Reaches(UseGraph, UsesOf(e.mod)[e.use].file, e.mod)

\* The innermost analyzer's `use` is an edge of the source.
LEMMA UseIsInSource ==
    ASSUME IInv, HasUse(Top), CurrentUse(Top).file \in Files
    PROVE  <<Top.file, CurrentUse(Top).file>> \in UseGraph
<1>1. Top.file \in Modules /\ Top.next \in Nat \ {0}
  BY TopFacts DEF IInv
<1>2. UsesOf(Top.file) \in Seq(Use)
  BY <1>1 DEF IInv, TypeOK, Program, UsesOf
<1>3. DOMAIN UsesOf(Top.file) = 1..Len(UsesOf(Top.file)) /\ Len(UsesOf(Top.file)) \in Nat
  BY <1>2, LenProperties
<1>4. Top.next \in DOMAIN UsesOf(Top.file)
  BY <1>1, <1>3 DEF HasUse
<1> QED
  BY <1>1, <1>4 DEF UseGraph, CurrentUse

LEMMA CInvInit == Init => CInv
<1> SUFFICES ASSUME Init PROVE CInv
  OBVIOUS
<1>1. AllErrors = {}
  BY DEF Init, AllErrors, NewFrame
<1> QED
  BY <1>1 DEF Init, CInv

LEMMA CInvStep == IInv /\ CInv /\ [Next]_vars => CInv'
<1> SUFFICES ASSUME IInv, CInv, [Next]_vars PROVE CInv'
  OBVIOUS
<1>0. IInv'
  BY StepKeeps
<1>1. CASE UNCHANGED vars
  BY <1>1 DEF vars, CInv, AllErrors, UseGraph, UsesOf
<1>2. CASE Next
  <2>1. prog' = prog
    BY <1>2 DEF Next, UseMissing, UseCyclic, UseCached, UseGarbled, EnterModule,
                FailModule, FinishModule, FinishEntry
  <2>2. UseGraph' = UseGraph /\ \A m : UsesOf(m)' = UsesOf(m)
    BY <2>1 DEF UseGraph, UsesOf
  <2>3. edges' \subseteq UseGraph
    <3>1. CASE HasUse(Top) /\ Admit(CurrentUse(Top))
      <4>1. edges' = edges \cup {<<Top.file, CurrentUse(Top).file>>}
        BY <3>1, AdmitKeeps
      <4>2. <<Top.file, CurrentUse(Top).file>> \in UseGraph
        BY <3>1, AdmitKeeps, UseIsInSource
      <4> QED
        BY <4>1, <4>2 DEF CInv
    <3>2. CASE edges' = edges
      BY <3>2 DEF CInv
    <3> QED
      BY <1>2, <3>1, <3>2 DEF Next, UseMissing, UseCyclic, UseCached, UseGarbled,
         EnterModule, FailModule, FinishModule, FinishEntry
  <2>4. ASSUME UseCyclic
        PROVE  LET e == Error("CircularImport", Top)
               IN  Reaches(UseGraph, UsesOf(e.mod)[e.use].file, e.mod)
    <3> DEFINE e == Error("CircularImport", Top)
    <3>1. e.mod = Top.file /\ e.use = Top.next
      BY DEF Error
    <3>2. Reaches(edges, CurrentUse(Top).file, Top.file)
      BY <2>4 DEF UseCyclic, WouldCycle
    <3>3. Reaches(UseGraph, CurrentUse(Top).file, Top.file)
      BY <3>2, ReachesMonotone DEF CInv
    <3> QED
      BY <3>1, <3>3 DEF CurrentUse
  <2>5. ASSUME NEW e \in AllErrors', e.kind = "CircularImport"
        PROVE  Reaches(UseGraph, UsesOf(e.mod)[e.use].file, e.mod)
    <3>1. e \in AllErrors \/ StepError(e)
      BY <1>0, <1>2, <2>5, NextErrorStep DEF ErrorStep
    <3>2. e \in AllErrors \/ (UseCyclic /\ e = Error("CircularImport", Top))
      BY <2>5, <3>1 DEF StepError, EndError, Error
    <3> QED
      BY <2>4, <2>5, <3>2 DEF CInv
  <2> QED
    BY <2>2, <2>3, <2>5 DEF CInv
<1> QED
  BY <1>1, <1>2

\* A `CircularImport` is only reported for a `use` that lies on a cycle of the
\* source, although the graph that the search sees holds what failed too.
THEOREM ReportedCyclesAreReal == Spec => []CyclesAreReal
<1>1. IInv /\ CInv => CyclesAreReal
  <2> SUFFICES ASSUME IInv, CInv PROVE CyclesAreReal
    OBVIOUS
  <2> QED
    BY TopErrorsAreErrors DEF CInv, CyclesAreReal, Top
<1> QED
  BY <1>1, Invariance, CInvInit, CInvStep, PTL DEF Spec

-----------------------------------------------------------------------------
(* Ids, and what finished. *)

\* Each step leaves the ids as they are, or gives one to a new file.
LEMMA OrderStep ==
    ASSUME IInv, Next
    PROVE  \/ order' = order
           \/ \E f \in Files : /\ \A i \in DOMAIN order : order[i] # f
                               /\ order' = Append(order, f)
<1>1. CASE HasUse(Top) /\ CurrentUse(Top).file \in Files /\ Register(CurrentUse(Top))
  BY <1>1 DEF Register, Known
<1>2. CASE order' = order
  BY <1>2
<1>3. (HasUse(Top) /\ CurrentUse(Top).file # NoFile) => CurrentUse(Top).file \in Files
  BY TopFacts, UseFacts DEF IInv, TypeOK
<1> QED
  BY <1>1, <1>2, <1>3 DEF Next, UseMissing, UseCyclic, UseCached, UseGarbled, EnterModule,
     FailModule, FinishModule, FinishEntry, Admit

\* `register` never gives a file a second id.
THEOREM EveryFileHasOneId == Spec => []OneIdPerFile
<1>1. Init => OneIdPerFile
  BY DEF Init, OneIdPerFile
<1>2. IInv /\ OneIdPerFile /\ [Next]_vars => OneIdPerFile'
  <2> SUFFICES ASSUME IInv, OneIdPerFile, [Next]_vars PROVE OneIdPerFile'
    OBVIOUS
  <2>1. CASE order' = order
    BY <2>1 DEF OneIdPerFile
  <2>2. ASSUME NEW f \in Files, \A i \in DOMAIN order : order[i] # f, order' = Append(order, f)
        PROVE  OneIdPerFile'
    <3>1. order \in Seq(Files) /\ Len(order) \in Nat /\ DOMAIN order = 1..Len(order)
      BY LenProperties DEF IInv, TypeOK
    <3>2. /\ DOMAIN order' = 1..(Len(order) + 1) /\ order'[Len(order) + 1] = f
          /\ \A i \in 1..Len(order) : order'[i] = order[i]
      BY <2>2, <3>1
    <3>3. SUFFICES ASSUME NEW i \in 1..(Len(order) + 1), NEW j \in 1..(Len(order) + 1),
                          order'[i] = order'[j]
                   PROVE  i = j
      BY <3>2 DEF OneIdPerFile
    <3>4. CASE i \in 1..Len(order) /\ j \in 1..Len(order)
      BY <3>1, <3>2, <3>3, <3>4 DEF OneIdPerFile
    <3>5. CASE i = Len(order) + 1 \/ j = Len(order) + 1
      <4>1. \A k \in 1..Len(order) : order'[k] # f
        BY <2>2, <3>1, <3>2
      <4> QED
        BY <3>1, <3>2, <3>3, <3>5, <4>1
    <3> QED
      BY <3>1, <3>4, <3>5
  <2>3. CASE UNCHANGED vars
    BY <2>1, <2>3 DEF vars
  <2> QED
    BY <2>1, <2>2, <2>3, OrderStep
<1> QED
  BY <1>1, <1>2, Invariance, PTL DEF Spec

\* A file has one analyzer at most, none after it finished, and one id:
\* `parse_and_analyze_module` and `register` take each file once, whatever
\* fails on the way.
THEOREM FilesAreTakenOnce == Spec => []EachFileOnce
<1>1. NoReentry /\ AnalyzedOnce /\ OneIdPerFile => EachFileOnce
  BY DEF EachFileOnce
<1> QED
  BY <1>1, NoFileIsReentered, FinishedStaysFinished, EveryFileHasOneId, PTL

\* The table and the IR of a finished file never change, and no id is ever
\* taken back: what an importing module read stays true.
THEOREM FinishedFilesStay == Spec => FinishedIsStable
<1> DEFINE A == /\ \A f \in Finished : /\ f \in DOMAIN cache'
                                       /\ cache'[f] = cache[f]
                                       /\ linked'[f] = linked[f]
                /\ Len(order') >= Len(order)
                /\ SubSeq(order', 1, Len(order)) = order
<1>1. ASSUME IInv, Next PROVE A
  <2>1. order \in Seq(Files) /\ Len(order) \in Nat
    BY <1>1, LenProperties DEF IInv, TypeOK
  <2>2. Len(order') >= Len(order) /\ SubSeq(order', 1, Len(order)) = order
    <3>1. CASE order' = order
      BY <2>1, <3>1
    <3>2. ASSUME NEW f \in Files, order' = Append(order, f)
          PROVE  Len(order') >= Len(order) /\ SubSeq(order', 1, Len(order)) = order
      BY <2>1, <3>2
    <3> QED
      BY <1>1, <3>1, <3>2, OrderStep
  <2>3. \A f \in Finished : /\ f \in DOMAIN cache'
                            /\ cache'[f] = cache[f] /\ linked'[f] = linked[f]
    <3>1. CASE FinishModule
      <4>1. Top.file \notin Finished
        BY <1>1, TopFacts DEF IInv, AnalyzedOnce, Top
      <4>2. DOMAIN linked = Finished
        BY <1>1 DEF IInv, TypeOK, Finished
      <4> QED
        BY <3>1, <4>1, <4>2 DEF FinishModule
    <3>2. CASE cache' = cache /\ linked' = linked
      BY <3>2 DEF Finished
    <3> QED
      BY <1>1, <3>1, <3>2 DEF Next, UseMissing, UseCyclic, UseCached, UseGarbled,
         EnterModule, FailModule, FinishEntry
  <2> QED
    BY <2>2, <2>3
<1> HIDE DEF A
<1>2. IInv /\ [Next]_vars => [A]_vars
  BY <1>1
<1>3. Spec => [][Next]_vars
  BY PTL DEF Spec
<1>4. Spec => [][A]_vars
  BY <1>2, <1>3, Invariance, PTL
<1> QED
  BY <1>4 DEF FinishedIsStable, A

-----------------------------------------------------------------------------
(* The linker finds everything that an import names. *)

OriginsIn(t, fin) == \A n \in Names : t.origin[n] \in fin \cup {NoFile}

OInv ==
    /\ \A i \in DOMAIN stack : OriginsIn(stack[i].table, Finished)
    /\ \A f \in Finished : OriginsIn(cache[f], Finished)
    /\ \A e \in AllErrors : e.kind # "InternalError"

\* An import from a finished file brings in names of finished files.
LEMMA BringOrigins ==
    ASSUME NEW fr \in Frame, NEW from \in Table, NEW fin, CurrentUse(fr).file \in fin,
           OriginsIn(fr.table, fin), OriginsIn(from, fin)
    PROVE  OriginsIn(Bring(fr, from).table, fin)
<1> DEFINE u == CurrentUse(fr)
<1>1. Bring(fr, from).table = ImportUse(fr.table, from, u, u.file)
  BY DEF Bring, Advance
<1>2. ASSUME NEW n \in Names
      PROVE  ImportUse(fr.table, from, u, u.file).origin[n] \in fin \cup {NoFile}
  BY DEF ImportUse, OriginOf, OriginsIn
<1> QED
  BY <1>1, <1>2 DEF OriginsIn

\* The module's own items have no origin.
LEMMA FinalOrigins ==
    ASSUME NEW fr \in Frame
    PROVE  FinalTable(fr).origin = fr.table.origin
<1>1. fr.table \in Table
  BY DEF Frame
<1>2. OwnTable(fr).origin = fr.table.origin /\ OwnTable(fr) = [fr.table EXCEPT !.syms = OwnTable(fr).syms]
  BY <1>1 DEF OwnTable, DefineAll, DefineFirst, Table
<1> QED
  BY <1>1, <1>2 DEF FinalTable, LocalTable, AliasAll, Table

LEMMA NothingMissing ==
    ASSUME IInv, OInv PROVE Missing(FinalTable(Top)) = {}
<1>1. Top \in Frame /\ Len(stack) \in DOMAIN stack /\ DOMAIN linked = Finished
  BY TopFacts DEF IInv, TypeOK, Finished
<1>2. OriginsIn(Top.table, Finished)
  BY <1>1 DEF OInv, Top
<1> QED
  BY <1>1, <1>2, FinalOrigins DEF Missing, Deps, OriginsIn

LEMMA OInvInit == Init => OInv
<1> SUFFICES ASSUME Init PROVE OInv
  OBVIOUS
<1>1. AllErrors = {}
  BY DEF Init, AllErrors, NewFrame
<1>2. OriginsIn(NewTable, Finished)
  BY DEF OriginsIn, NewTable
<1>3. stack = <<NewFrame(Root)>> /\ NewFrame(Root).table = NewTable /\ Finished = {}
  BY DEF Init, NewFrame, Finished
<1> QED
  BY <1>1, <1>2, <1>3 DEF OInv

\* The frames of the next state: those of this one, or one new frame.
LEMMA OriginsReplace ==
    ASSUME IInv, NEW x \in Frame, SetTop(x), NEW fin, OriginsIn(x.table, fin),
           \A i \in DOMAIN stack : OriginsIn(stack[i].table, fin)
    PROVE  \A i \in DOMAIN stack' : OriginsIn(stack'[i].table, fin)
<1>0. DOMAIN stack = 1..Len(stack)
  BY TopFacts DEF IInv
<1>1. stack \in Seq(Frame) /\ stack # <<>> /\ Len(stack) \in Nat \ {0}
  BY TopFacts DEF IInv, TypeOK
<1>2. /\ Len(stack') = Len(stack) /\ stack'[Len(stack)] = x /\ stack' \in Seq(Frame)
      /\ \A i \in 1..(Len(stack) - 1) : stack'[i] = stack[i]
  BY <1>1, ReplaceTop DEF SetTop, Below
<1>3. DOMAIN stack' = 1..Len(stack)
  BY <1>2, LenProperties
<1>4. ASSUME NEW i \in 1..Len(stack) PROVE OriginsIn(stack'[i].table, fin)
  <2>1. CASE i = Len(stack)
    BY <1>2, <2>1
  <2>2. CASE i \in 1..(Len(stack) - 1)
    <3>1. i \in DOMAIN stack
      BY <1>0, <1>1, <2>2
    <3> QED
      BY <1>2, <2>2, <3>1
  <2> QED
    BY <1>1, <2>1, <2>2
<1> QED
  BY <1>3, <1>4

LEMMA OriginsPop ==
    ASSUME IInv, Depth > 0, NEW x \in Frame, NEW fin, OriginsIn(x.table, fin),
           stack' = Append(SubSeq(Below, 1, Len(Below) - 1), x),
           \A i \in DOMAIN stack : OriginsIn(stack[i].table, fin)
    PROVE  \A i \in DOMAIN stack' : OriginsIn(stack'[i].table, fin)
<1>0. Len(stack) > 1 /\ Len(stack) \in Nat
  BY ParentFacts
<1>1. DOMAIN stack = 1..Len(stack)
  BY TopFacts DEF IInv, TypeOK
<1>2. /\ Len(stack') = Len(stack) - 1 /\ stack'[Len(stack) - 1] = x /\ stack' \in Seq(Frame)
      /\ \A i \in 1..(Len(stack) - 2) : stack'[i] = stack[i]
  <2>1. stack \in Seq(Frame)
    BY DEF IInv, TypeOK
  <2>2. stack' = Append(SubSeq(SubSeq(stack, 1, Len(stack) - 1), 1, Len(SubSeq(stack, 1, Len(stack) - 1)) - 1), x)
    BY DEF Below
  <2> QED
    BY ONLY <1>0, <2>1, <2>2, x \in Frame, PopTop
<1>3. DOMAIN stack' = 1..(Len(stack) - 1)
  BY <1>2, LenProperties
<1>4. ASSUME NEW i \in 1..(Len(stack) - 1) PROVE OriginsIn(stack'[i].table, fin)
  <2>1. CASE i = Len(stack) - 1
    BY <1>2, <2>1
  <2>2. CASE i \in 1..(Len(stack) - 2)
    <3>1. stack'[i] = stack[i]
      BY <1>2, <2>2
    <3>2. i \in DOMAIN stack
      BY <1>0, <1>1, <2>2
    <3> QED
      BY <3>1, <3>2
  <2>3. i = Len(stack) - 1 \/ i \in 1..(Len(stack) - 2)
    BY <1>0
  <2> QED
    BY <2>1, <2>2, <2>3
<1> QED
  BY <1>3, <1>4

\* A refused `use` leaves the table as it was.
LEMMA RefuseOrigins ==
    ASSUME NEW fr, NEW es PROVE Refuse(fr, es).table = fr.table
BY DEF Refuse, Advance

LEMMA OriginsStep ==
    ASSUME IInv, OInv, Next
    PROVE  /\ \A i \in DOMAIN stack' : OriginsIn(stack'[i].table, Finished')
           /\ \A f \in Finished' : OriginsIn(cache'[f], Finished')
<1>0. /\ Top \in Frame /\ Len(stack) \in DOMAIN stack /\ DOMAIN stack = 1..Len(stack)
      /\ stack \in Seq(Frame) /\ Len(stack) \in Nat
  BY TopFacts DEF IInv, TypeOK
<1>1. /\ OriginsIn(Top.table, Finished)
      /\ \A i \in DOMAIN stack : OriginsIn(stack[i].table, Finished)
      /\ \A f \in Finished : OriginsIn(cache[f], Finished)
  BY <1>0 DEF OInv, Top
<1>2. ASSUME NEW k \in ErrorKinds, SetTop(Refuse(Top, {Error(k, Top)})), cache' = cache
      PROVE  /\ \A i \in DOMAIN stack' : OriginsIn(stack'[i].table, Finished')
             /\ \A f \in Finished' : OriginsIn(cache'[f], Finished')
  <2> DEFINE x == Refuse(Top, {Error(k, Top)})
  <2>1. x \in Frame /\ x.table = Top.table
    BY <1>0, ErrorType, RefuseType, RefuseOrigins
  <2>2. SetTop(x)
    BY <1>2
  <2> HIDE DEF x
  <2>3. \A i \in DOMAIN stack' : OriginsIn(stack'[i].table, Finished)
    BY <1>1, <2>1, <2>2, OriginsReplace
  <2> QED
    BY <1>1, <1>2, <2>3 DEF Finished
<1>3. CASE UseMissing
  BY <1>2, <1>3 DEF UseMissing, ErrorKinds
<1>4. CASE UseCyclic
  BY <1>2, <1>4 DEF UseCyclic, ErrorKinds
<1>5. CASE UseGarbled
  BY <1>2, <1>5 DEF UseGarbled, ErrorKinds
<1>6. CASE UseCached
  <2> DEFINE u == CurrentUse(Top)
             x == Bring(Top, cache[u.file])
  <2>1. /\ HasUse(Top) /\ Admit(u) /\ u.file \in Finished /\ SetTop(x) /\ cache' = cache
    BY <1>6 DEF UseCached, Cached
  <2>2. u \in Use /\ u.file \in Files /\ cache[u.file] \in Table
    BY <1>0, <2>1, UseFacts, AdmitKeeps DEF IInv, TypeOK, Finished
  <2>3. x \in Frame
    BY <1>0, <2>2, BringType
  <2>4. OriginsIn(x.table, Finished)
    BY <1>0, <1>1, <2>1, <2>2, BringOrigins
  <2> HIDE DEF x
  <2>5. \A i \in DOMAIN stack' : OriginsIn(stack'[i].table, Finished)
    BY <1>1, <2>1, <2>3, <2>4, OriginsReplace
  <2> QED
    BY <1>1, <2>1, <2>5 DEF Finished
<1>7. CASE EnterModule
  <2> DEFINE x == NewFrame(CurrentUse(Top).file)
  <2>1. stack' = Append(stack, x) /\ cache' = cache /\ x.table = NewTable
    BY <1>7 DEF EnterModule, NewFrame
  <2> HIDE DEF x
  <2>2. OriginsIn(x.table, Finished)
    BY <2>1 DEF OriginsIn, NewTable
  <2>3. \A i \in DOMAIN stack' : \/ i = Len(stack) + 1 /\ stack'[i] = x
                                 \/ i \in DOMAIN stack /\ stack'[i] = stack[i]
    BY <1>0, <2>1
  <2> QED
    BY <1>1, <2>1, <2>2, <2>3 DEF Finished
<1>8. CASE FailModule
  <2> DEFINE es == LowerErrors(Top)
             x == Refuse(Parent, es)
  <2>1. /\ Depth > 0 /\ cache' = cache
        /\ stack' = Append(SubSeq(Below, 1, Len(Below) - 1), x)
    BY <1>8 DEF FailModule
  <2>2. Parent \in Frame /\ es \in SUBSET ErrorRec /\ Len(stack) - 1 \in DOMAIN stack
        /\ Parent = stack[Len(stack) - 1]
    BY <1>0, <2>1, ParentFacts, LowerErrorsType
  <2>3. x \in Frame /\ OriginsIn(x.table, Finished)
    BY <1>1, <2>2, RefuseType, RefuseOrigins
  <2> HIDE DEF x
  <2>4. \A i \in DOMAIN stack' : OriginsIn(stack'[i].table, Finished)
    BY <1>1, <2>1, <2>3, OriginsPop
  <2> QED
    BY <1>1, <2>1, <2>4 DEF Finished
<1>9. CASE FinishModule
  <2> DEFINE t == FinalTable(Top)
             x == Bring(Parent, t)
             fin == Finished \cup {Top.file}
  <2>1. /\ Depth > 0
        /\ stack' = Append(SubSeq(Below, 1, Len(Below) - 1), x)
        /\ cache' = [g \in Finished \cup {Top.file} |-> IF g = Top.file THEN t ELSE cache[g]]
    BY <1>9 DEF FinishModule
  <2>2. /\ Parent \in Frame /\ CurrentUse(Parent) \in Use
        /\ CurrentUse(Parent).file \in Files /\ CurrentUse(Parent).file = Top.file
        /\ Len(stack) - 1 \in DOMAIN stack /\ Parent = stack[Len(stack) - 1]
    BY <1>0, <2>1, ParentFacts
  <2>3. t \in Table /\ t.origin = Top.table.origin
    BY <1>0, AnalyzedTableType, FinalOrigins DEF IInv, TypeOK
  <2> HIDE DEF t
  <2>4. /\ OriginsIn(t, fin)
        /\ \A i \in DOMAIN stack : OriginsIn(stack[i].table, fin)
        /\ \A f \in Finished : OriginsIn(cache[f], fin)
    BY <1>1, <2>3 DEF OriginsIn
  <2>5. x \in Frame /\ OriginsIn(x.table, fin)
    <3>1. CurrentUse(Parent).file \in fin /\ OriginsIn(Parent.table, fin)
      BY <2>2, <2>4
    <3> HIDE DEF fin
    <3> QED
      BY <2>2, <2>3, <2>4, <3>1, BringType, BringOrigins
  <2> HIDE DEF x
  <2>6. \A i \in DOMAIN stack' : OriginsIn(stack'[i].table, fin)
    BY <2>1, <2>4, <2>5, OriginsPop
  <2>7. Finished' = fin
    BY <2>1 DEF Finished
  <2>8. \A f \in fin : OriginsIn(cache'[f], fin)
    BY <2>1, <2>4
  <2> QED
    BY <2>6, <2>7, <2>8
<1>10. CASE FinishEntry
  <2> DEFINE t == FinalTable(Top)
             es == LowerErrors(Top)
             x == [Top EXCEPT !.errs = es, !.table = t]
  <2>1. stack' = <<x>> /\ cache' = cache
    BY <1>10 DEF FinishEntry
  <2>2. t.origin = Top.table.origin
    BY <1>0, FinalOrigins
  <2> HIDE DEF t, es
  <2>3. x.table = t
    BY <1>0 DEF Frame
  <2> HIDE DEF x
  <2>4. OriginsIn(x.table, Finished)
    BY <1>1, <2>2, <2>3 DEF OriginsIn
  <2> QED
    BY <1>1, <2>1, <2>4 DEF Finished
<1> QED
  BY <1>3, <1>4, <1>5, <1>6, <1>7, <1>8, <1>9, <1>10 DEF Next

LEMMA OInvStep == IInv /\ OInv /\ [Next]_vars => OInv'
<1> SUFFICES ASSUME IInv, OInv, [Next]_vars PROVE OInv'
  OBVIOUS
<1>1. CASE UNCHANGED vars
  BY <1>1 DEF vars, OInv, Finished, AllErrors
<1>2. CASE Next
  <2>1. ErrorStep
    BY <1>2, StepKeeps, NextErrorStep
  <2>2. \A e \in AllErrors' : e.kind # "InternalError"
    <3>1. ASSUME NEW e, StepError(e) PROVE e.kind # "InternalError"
      BY <3>1, NothingMissing DEF StepError, EndError, Error
    <3> QED
      BY <2>1, <3>1 DEF ErrorStep, OInv
  <2> QED
    BY <1>2, <2>2, OriginsStep DEF OInv
<1> QED
  BY <1>1, <1>2

\* `ModuleLinks::lower` never misses the IR of an import: every name of a
\* table comes from a file that is finished, through any chain of re-exports
\* and whatever failed before.
THEOREM ImportsAreNeverMissing == Spec => []NoInternalError
<1>1. IInv /\ OInv => NoInternalError
  BY DEF OInv, NoInternalError, AllErrors
<1> QED
  BY <1>1, Invariance, OInvInit, OInvStep, PTL DEF Spec
=============================================================================
