------------------------- MODULE ImportNamesProofs -------------------------
(***************************************************************************)
(* Proofs about what ImportAnalysis reports, numbers and links:            *)
(*   - a program is rejected only for a cause that its source shows;       *)
(*   - the path that the entry module writes last for a file is the path   *)
(*     of the file;                                                        *)
(*   - an imported item is in the linked IR of the module that imports it, *)
(*     under the file that defines it;                                     *)
(*   - a finished file exports what its source says, and nothing else.     *)
(***************************************************************************)
EXTENDS ImportSoundnessProofs, RankProofs

-----------------------------------------------------------------------------
(* What a step does to the stack. *)

LEMMA ReplaceShape ==
    ASSUME IInv, NEW x \in Frame, SetTop(x)
    PROVE  /\ Len(stack) \in Nat \ {0} /\ Len(stack') = Len(stack)
           /\ stack'[Len(stack)] = x
           /\ \A i \in 1..(Len(stack) - 1) : stack'[i] = stack[i]
<1>1. stack \in Seq(Frame) /\ stack # <<>> /\ Len(stack) \in Nat \ {0}
  BY TopFacts DEF IInv, TypeOK
<1> QED
  BY <1>1, ReplaceTop DEF SetTop, Below

LEMMA PushShape ==
    ASSUME IInv, NEW x \in Frame, stack' = Append(stack, x)
    PROVE  /\ Len(stack) \in Nat \ {0} /\ Len(stack') = Len(stack) + 1
           /\ stack'[Len(stack) + 1] = x
           /\ \A i \in 1..Len(stack) : stack'[i] = stack[i]
<1>1. stack \in Seq(Frame) /\ Len(stack) \in Nat \ {0}
  BY TopFacts DEF IInv, TypeOK
<1> QED
  BY <1>1

LEMMA PopShape ==
    ASSUME IInv, Depth > 0, NEW x \in Frame,
           stack' = Append(SubSeq(Below, 1, Len(Below) - 1), x)
    PROVE  /\ Len(stack) \in Nat /\ Len(stack) > 1 /\ Len(stack') = Len(stack) - 1
           /\ stack'[Len(stack) - 1] = x
           /\ \A i \in 1..(Len(stack) - 2) : stack'[i] = stack[i]
<1>1. Len(stack) > 1 /\ Len(stack) \in Nat /\ stack \in Seq(Frame)
  BY ParentFacts DEF IInv, TypeOK
<1> QED
  BY <1>1, PopTop DEF Below

\* The analyzer moves its innermost frame past a `use`, starts a frame, ends
\* the innermost one and moves its parent past the `use`, or ends the entry's.
UseStep == UseMissing \/ UseCyclic \/ UseCached \/ UseGarbled
EndStep == FailModule \/ FinishModule

LEMMA UseStepShape ==
    ASSUME IInv, UseStep
    PROVE  \E x \in Frame : SetTop(x) /\ x.file = Top.file /\ x.next = Top.next + 1
<1>0. Top \in Frame
  BY TopFacts DEF IInv
<1>1. ASSUME NEW k \in ErrorKinds, SetTop(Refuse(Top, {Error(k, Top)}))
      PROVE  \E x \in Frame : SetTop(x) /\ x.file = Top.file /\ x.next = Top.next + 1
  <2> DEFINE x == Refuse(Top, {Error(k, Top)})
  <2>1. x \in Frame /\ x.file = Top.file /\ x.next = Top.next + 1 /\ SetTop(x)
    BY <1>0, <1>1, ErrorType, RefuseType
  <2> QED
    BY <2>1
<1>2. CASE UseMissing
  BY <1>1, <1>2 DEF UseMissing, ErrorKinds
<1>3. CASE UseCyclic
  BY <1>1, <1>3 DEF UseCyclic, ErrorKinds
<1>4. CASE UseGarbled
  BY <1>1, <1>4 DEF UseGarbled, ErrorKinds
<1>5. CASE UseCached
  <2> DEFINE u == CurrentUse(Top)
             x == Bring(Top, cache[u.file])
  <2>1. HasUse(Top) /\ Admit(u) /\ u.file \in Finished /\ SetTop(x)
    BY <1>5 DEF UseCached, Cached
  <2>2. u \in Use /\ u.file \in Files /\ cache[u.file] \in Table
    BY <1>0, <2>1, UseFacts, AdmitKeeps DEF IInv, TypeOK, Finished
  <2>3. x \in Frame /\ x.file = Top.file /\ x.next = Top.next + 1
    BY <1>0, <2>2, BringType
  <2> QED
    BY <2>1, <2>3
<1> QED
  BY <1>2, <1>3, <1>4, <1>5 DEF UseStep

LEMMA EnterShape ==
    ASSUME IInv, EnterModule
    PROVE  /\ NewFrame(CurrentUse(Top).file) \in Frame
           /\ stack' = Append(stack, NewFrame(CurrentUse(Top).file))
<1>1. HasUse(Top) /\ Admit(CurrentUse(Top)) /\ stack' = Append(stack, NewFrame(CurrentUse(Top).file))
  BY DEF EnterModule
<1>2. CurrentUse(Top).file \in Files
  BY <1>1, AdmitKeeps
<1>3. NewTable \in Table
  BY DEF NewTable, Table
<1> QED
  BY <1>1, <1>2, <1>3 DEF NewFrame, Frame, Modules

LEMMA EndStepShape ==
    ASSUME IInv, EndStep
    PROVE  /\ Depth > 0
           /\ \E x \in Frame : /\ stack' = Append(SubSeq(Below, 1, Len(Below) - 1), x)
                               /\ x.file = Parent.file /\ x.next = Parent.next + 1
<1>1. CASE FailModule
  <2> DEFINE x == Refuse(Parent, LowerErrors(Top))
  <2>1. /\ Depth > 0 /\ Top \in Frame
        /\ stack' = Append(SubSeq(Below, 1, Len(Below) - 1), x)
    BY <1>1, TopFacts DEF IInv, FailModule
  <2>2. Parent \in Frame /\ LowerErrors(Top) \in SUBSET ErrorRec
    BY <2>1, ParentFacts, LowerErrorsType
  <2>3. x \in Frame /\ x.file = Parent.file /\ x.next = Parent.next + 1
    BY <2>2, RefuseType
  <2> QED
    BY <2>1, <2>3
<1>2. CASE FinishModule
  <2> DEFINE x == Bring(Parent, FinalTable(Top))
  <2>1. /\ Depth > 0 /\ Top \in Frame
        /\ stack' = Append(SubSeq(Below, 1, Len(Below) - 1), x)
    BY <1>2, TopFacts DEF IInv, FinishModule
  <2>2. /\ Parent \in Frame /\ CurrentUse(Parent) \in Use
        /\ CurrentUse(Parent).file \in Files /\ FinalTable(Top) \in Table
    BY <2>1, ParentFacts, AnalyzedTableType DEF IInv, TypeOK
  <2>3. x \in Frame /\ x.file = Parent.file /\ x.next = Parent.next + 1
    BY <2>2, BringType
  <2> QED
    BY <2>1, <2>3
<1> QED
  BY <1>1, <1>2 DEF EndStep

-----------------------------------------------------------------------------
(* A rejection has a cause. *)

\* The error e has a cause in the source: a module in reach that is unsound,
\* or a name that cannot be imported or defined.
Cause(e) ==
    \/ e.kind = "ImportRefused"
    \/ e.kind = "OwnError" /\ e.mod \notin prog.faulty
    \/ \E m \in Modules : Reaches(UseGraph, Root, m) /\ ~Sound(UseGraph, m)

BInv ==
    /\ \A e \in AllErrors : Cause(e)
    /\ verdict # "running" => Len(stack) = 1
    /\ verdict = "rejected" => AllErrors # {}

\* The innermost module is in reach of the entry module.
LEMMA TopInReach ==
    ASSUME IInv, CInv
    PROVE  Top.file \in Modules /\ Reaches(UseGraph, Root, Top.file)
<1>1. /\ Len(stack) \in Nat \ {0} /\ Top = stack[Len(stack)] /\ Top.file \in Modules
  BY TopFacts DEF IInv, Top
<1>2. Reaches(edges, stack[1].file, stack[Len(stack)].file) /\ stack[1].file = Root
  BY <1>1 DEF IInv, Links
<1> QED
  BY <1>1, <1>2, ReachesMonotone DEF CInv

\* The current `use` is one of the module's.
LEMMA CurrentInDomain ==
    ASSUME IInv, HasUse(Top)
    PROVE  Top.next \in DOMAIN UsesOf(Top.file)
<1>1. Top.file \in Modules /\ Top.next \in Nat \ {0}
  BY TopFacts DEF IInv
<1>2. UsesOf(Top.file) \in Seq(Use)
  BY <1>1 DEF IInv, TypeOK, Program, UsesOf
<1> QED
  BY <1>1, <1>2, LenProperties DEF HasUse

\* An error of a step has a cause.
LEMMA StepErrorHasCause ==
    ASSUME IInv, CInv, OInv, NEW e, StepError(e)
    PROVE  Cause(e)
<1> DEFINE G == UseGraph
           u == CurrentUse(Top)
<1>1. Top.file \in Modules /\ Reaches(G, Root, Top.file)
  BY TopInReach
<1>2. CASE UseMissing
  <2>1. HasUse(Top) /\ u.file = NoFile
    BY <1>2 DEF UseMissing
  <2>2. Top.next \in DOMAIN UsesOf(Top.file) /\ UsesOf(Top.file)[Top.next].file = NoFile
    BY <2>1, CurrentInDomain DEF CurrentUse
  <2>3. ~Sound(G, Top.file)
    BY <2>2 DEF Sound
  <2> QED
    BY <1>1, <2>3 DEF Cause
<1>3. CASE UseCyclic
  <2>1. HasUse(Top) /\ u.file # NoFile /\ Reaches(edges, u.file, Top.file)
    BY <1>3 DEF UseCyclic, WouldCycle
  <2>2. u.file \in Files
    BY <2>1, TopFacts, UseFacts DEF IInv, TypeOK
  <2>3. <<Top.file, u.file>> \in G /\ Reaches(G, u.file, Top.file)
    BY <2>1, <2>2, UseIsInSource, ReachesMonotone DEF CInv
  <2>4. ~Sound(G, Top.file)
    BY <2>2, <2>3 DEF Sound
  <2> QED
    BY <1>1, <2>4 DEF Cause
<1>4. CASE UseGarbled
  <2>1. HasUse(Top) /\ Admit(u) /\ u.file \in prog.garbled
    BY <1>4 DEF UseGarbled
  <2>2. u.file \in Files /\ u.file \in Modules
    BY <2>1, AdmitKeeps DEF Modules
  <2>3. <<Top.file, u.file>> \in G
    BY <2>1, <2>2, UseIsInSource
  <2>4. Reaches(G, Root, u.file)
    BY <1>1, <2>3, ReachesEdge, ReachesTransitive
  <2>5. ~Sound(G, u.file)
    BY <2>1 DEF Sound
  <2> QED
    BY <2>2, <2>4, <2>5 DEF Cause
<1>5. CASE e.kind = "ImportRefused"
  BY <1>5 DEF Cause
<1>6. CASE EndError(Top, e)
  <2>1. CASE e.kind = "AmbiguousModulePath" /\ AmbiguousUse(Top)
    <3>1. ~Sound(G, Top.file)
      BY <2>1 DEF Sound, AmbiguousUse
    <3> QED
      BY <1>1, <3>1 DEF Cause
  <2>2. CASE e.kind = "OwnError" /\ e.mod = Top.file
    <3>1. CASE Top.file \in prog.faulty
      <4>1. ~Sound(G, Top.file)
        BY <3>1 DEF Sound
      <4> QED
        BY <1>1, <4>1 DEF Cause
    <3> QED
      BY <2>2, <3>1 DEF Cause
  <2> QED
    BY <1>6, <2>1, <2>2, NothingMissing DEF EndError
<1> QED
  BY <1>2, <1>3, <1>4, <1>5, <1>6 DEF StepError

LEMMA BInvInit == Init => BInv
<1> SUFFICES ASSUME Init PROVE BInv
  OBVIOUS
<1>1. AllErrors = {}
  BY DEF Init, AllErrors, NewFrame
<1> QED
  BY <1>1 DEF Init, BInv

LEMMA BInvStep == IInv /\ CInv /\ OInv /\ BInv /\ [Next]_vars => BInv'
<1> SUFFICES ASSUME IInv, CInv, OInv, BInv, [Next]_vars PROVE BInv'
  OBVIOUS
<1>1. CASE UNCHANGED vars
  <2>1. prog' = prog /\ AllErrors' = AllErrors /\ stack' = stack /\ verdict' = verdict
    BY <1>1 DEF vars, AllErrors
  <2>2. \A e : Cause(e)' = Cause(e)
    BY <2>1 DEF Cause, UseGraph, UsesOf, Sound
  <2> QED
    BY <2>1, <2>2 DEF BInv
<1>2. CASE Next
  <2>1. prog' = prog /\ verdict = "running"
    BY <1>2 DEF Next, UseMissing, UseCyclic, UseCached, UseGarbled, EnterModule,
                FailModule, FinishModule, FinishEntry, AtEnd
  <2>2. \A e : Cause(e)' = Cause(e)
    BY <2>1 DEF Cause, UseGraph, UsesOf, Sound
  <2>3. ErrorStep
    BY <1>2, StepKeeps, NextErrorStep
  <2>4. \A e \in AllErrors' : Cause(e)
    BY <2>3, StepErrorHasCause DEF ErrorStep, BInv
  <2>5. CASE FinishEntry
    <3> DEFINE errs == LowerErrors(Top)
               t == FinalTable(Top)
               x == [Top EXCEPT !.errs = errs, !.table = t]
    <3>1. stack' = <<x>> /\ verdict' = (IF errs = {} THEN "ok" ELSE "rejected") /\ Top \in Frame
      BY <2>5, TopFacts DEF FinishEntry, IInv
    <3> HIDE DEF errs, t
    <3>2. x.errs = errs
      BY <3>1 DEF Frame
    <3> HIDE DEF x
    <3>3. Len(stack') = 1 /\ AllErrors' = errs
      BY <3>1, <3>2 DEF AllErrors
    <3> QED
      BY <2>2, <2>4, <3>1, <3>3 DEF BInv
  <2>6. CASE ~FinishEntry
    <3>1. verdict' = verdict
      BY <1>2, <2>6 DEF Next, UseMissing, UseCyclic, UseCached, UseGarbled, EnterModule,
                        FailModule, FinishModule
    <3> QED
      BY <2>1, <2>2, <2>4, <3>1 DEF BInv
  <2> QED
    BY <2>5, <2>6
<1> QED
  BY <1>1, <1>2

\* A program is rejected only where a module in reach of the entry module is
\* unsound, or a name cannot be imported or defined: the caches, the retries
\* and the order of the `use`s invent no failure.
THEOREM RejectionsAreCaused == Spec => []RejectedHasCause
<1>1. IInv /\ BInv => RejectedHasCause
  <2> SUFFICES ASSUME IInv, BInv, verdict = "rejected"
               PROVE  \/ ~SoundProgram
                      \/ \E e \in stack[1].errs :
                            \/ e.kind = "ImportRefused"
                            \/ e.kind = "OwnError" /\ e.mod \notin prog.faulty
    BY DEF RejectedHasCause
  <2>1. PICK e \in AllErrors : Cause(e)
    BY DEF BInv
  <2>2. DOMAIN stack = {1}
    BY TopFacts DEF IInv, BInv
  <2>3. e \in stack[1].errs
    BY <2>1, <2>2 DEF AllErrors
  <2> QED
    BY <2>1, <2>3 DEF Cause, SoundProgram
<1> QED
  BY <1>1, Invariance, CInvInit, CInvStep, OInvInit, OInvStep, BInvInit, BInvStep, PTL DEF Spec

-----------------------------------------------------------------------------
(* The paths of the files. *)

\* The `use`s of the entry module that were registered: those behind it, and
\* the one that it waits for.
Registered == IF Depth = 0 THEN stack[1].next - 1 ELSE stack[1].next

RootFile(k) == UsesOf(Root)[k].file

\* Among the first n `use`s of the entry module, the last one that names a
\* file gave it its path.
LastWins(n, ord, log) ==
    \A k \in 1..n, i \in 1..Len(ord) :
        RootFile(k) = ord[i] /\ (\A l \in (k + 1)..n : RootFile(l) # ord[i])
            => log[i] = UsesOf(Root)[k].path

\* Each file that they name has an id.
HaveIds(n, ord) ==
    \A k \in 1..n : RootFile(k) # NoFile => \E i \in 1..Len(ord) : ord[i] = RootFile(k)

EInv ==
    /\ Registered <= Len(UsesOf(Root))
    /\ LastWins(Registered, order, logical)
    /\ HaveIds(Registered, order)

\* A `use` that finds no file registers nothing.
LEMMA MissingWins ==
    ASSUME order \in Seq(Files), NEW n \in Nat, RootFile(n + 1) = NoFile,
           LastWins(n, order, logical), HaveIds(n, order)
    PROVE  LastWins(n + 1, order, logical) /\ HaveIds(n + 1, order)
<1>1. \A i \in 1..Len(order) : order[i] # NoFile
  BY NoFileIsNoFile, ElementOfSeq
<1>2. \A k \in 1..(n + 1) : k = n + 1 \/ k \in 1..n
  OBVIOUS
<1>3. LastWins(n + 1, order, logical)
  <2> SUFFICES ASSUME NEW k \in 1..(n + 1), NEW i \in 1..Len(order),
                      RootFile(k) = order[i],
                      \A l \in (k + 1)..(n + 1) : RootFile(l) # order[i]
               PROVE  logical[i] = UsesOf(Root)[k].path
    BY DEF LastWins
  <2>1. k \in 1..n
    BY <1>1, <1>2
  <2>2. \A l \in (k + 1)..n : l \in (k + 1)..(n + 1)
    BY <2>1
  <2> QED
    BY <2>1, <2>2 DEF LastWins
<1>4. HaveIds(n + 1, order)
  BY <1>2 DEF HaveIds
<1> QED
  BY <1>3, <1>4

\* What `register` does to the two lists.
LEMMA RegisterShape ==
    ASSUME order \in Seq(Files), logical \in Seq(Paths), Len(logical) = Len(order),
           NEW u, Register(u)
    PROVE  /\ Len(order) \in Nat
           /\ \/ /\ order' = order
                 /\ \E i \in 1..Len(order) : order[i] = u.file
                 /\ \A i \in 1..Len(order) :
                       logical'[i] = IF order[i] = u.file /\ InEntry THEN u.path
                                     ELSE logical[i]
              \/ /\ \A i \in 1..Len(order) : order[i] # u.file
                 /\ Len(order') = Len(order) + 1
                 /\ order'[Len(order) + 1] = u.file /\ logical'[Len(order) + 1] = u.path
                 /\ \A i \in 1..Len(order) : order'[i] = order[i] /\ logical'[i] = logical[i]
<1>1. /\ Len(order) \in Nat /\ DOMAIN order = 1..Len(order) /\ DOMAIN logical = 1..Len(order)
  BY LenProperties
<1>2. CASE Known(u)
  BY <1>1, <1>2 DEF Register, Known
<1>3. CASE ~Known(u)
  <2>1. order' = Append(order, u.file) /\ logical' = Append(logical, u.path)
    BY <1>3 DEF Register
  <2>2. \A i \in 1..Len(order) : order[i] # u.file
    BY <1>1, <1>3 DEF Known
  <2>3. Len(order') = Len(order) + 1 /\ order'[Len(order) + 1] = u.file
        /\ \A i \in 1..Len(order) : order'[i] = order[i]
    BY <1>1, <2>1
  <2>4. logical'[Len(order) + 1] = u.path /\ \A i \in 1..Len(order) : logical'[i] = logical[i]
    BY <1>1, <2>1
  <2> QED
    BY <1>1, <2>2, <2>3, <2>4
<1> QED
  BY <1>2, <1>3

\* The entry module registers its next `use`.
LEMMA EntryRegisters ==
    ASSUME order \in Seq(Files), logical \in Seq(Paths), Len(logical) = Len(order),
           NEW n \in Nat, NEW u, u = UsesOf(Root)[n + 1], Register(u), InEntry,
           LastWins(n, order, logical), HaveIds(n, order)
    PROVE  LastWins(n + 1, order', logical') /\ HaveIds(n + 1, order')
<1>1. RootFile(n + 1) = u.file
  BY DEF RootFile
<1>2. \A k \in 1..(n + 1) : k = n + 1 \/ k \in 1..n
  OBVIOUS
<1>3. ASSUME NEW k \in 1..n, NEW i, \A l \in (k + 1)..(n + 1) : RootFile(l) # i
      PROVE  i # u.file /\ \A l \in (k + 1)..n : RootFile(l) # i
  <2>1. n + 1 \in (k + 1)..(n + 1) /\ \A l \in (k + 1)..n : l \in (k + 1)..(n + 1)
    OBVIOUS
  <2> QED
    BY <1>1, <1>3, <2>1
<1>4. CASE /\ order' = order
           /\ \E i \in 1..Len(order) : order[i] = u.file
           /\ \A i \in 1..Len(order) :
                 logical'[i] = IF order[i] = u.file /\ InEntry THEN u.path ELSE logical[i]
  <2>1. LastWins(n + 1, order', logical')
    <3> SUFFICES ASSUME NEW k \in 1..(n + 1), NEW i \in 1..Len(order),
                        RootFile(k) = order[i],
                        \A l \in (k + 1)..(n + 1) : RootFile(l) # order[i]
                 PROVE  logical'[i] = UsesOf(Root)[k].path
      BY <1>4 DEF LastWins
    <3>1. CASE k = n + 1
      BY <1>1, <1>4, <3>1
    <3>2. CASE k \in 1..n
      <4>1. order[i] # u.file /\ \A l \in (k + 1)..n : RootFile(l) # order[i]
        BY <1>3, <3>2
      <4>2. logical[i] = UsesOf(Root)[k].path
        BY <3>2, <4>1 DEF LastWins
      <4> QED
        BY <1>4, <4>1, <4>2
    <3> QED
      BY <1>2, <3>1, <3>2
  <2>2. HaveIds(n + 1, order')
    BY <1>1, <1>2, <1>4 DEF HaveIds
  <2> QED
    BY <2>1, <2>2
<1>5. CASE /\ \A i \in 1..Len(order) : order[i] # u.file
           /\ Len(order') = Len(order) + 1 /\ Len(order) \in Nat
           /\ order'[Len(order) + 1] = u.file /\ logical'[Len(order) + 1] = u.path
           /\ \A i \in 1..Len(order) : order'[i] = order[i] /\ logical'[i] = logical[i]
  <2>1. LastWins(n + 1, order', logical')
    <3> SUFFICES ASSUME NEW k \in 1..(n + 1), NEW i \in 1..(Len(order) + 1),
                        RootFile(k) = order'[i],
                        \A l \in (k + 1)..(n + 1) : RootFile(l) # order'[i]
                 PROVE  logical'[i] = UsesOf(Root)[k].path
      BY <1>5 DEF LastWins
    <3>1. i = Len(order) + 1 \/ i \in 1..Len(order)
      BY <1>5
    <3>2. CASE k = n + 1
      <4>1. order'[i] = u.file
        BY <1>1, <3>2
      <4>2. i = Len(order) + 1
        BY <1>5, <3>1, <4>1
      <4> QED
        BY <1>5, <3>2, <4>2
    <3>3. CASE k \in 1..n
      <4>1. order'[i] # u.file /\ \A l \in (k + 1)..n : RootFile(l) # order'[i]
        BY <1>3, <3>3
      <4>2. i \in 1..Len(order) /\ order'[i] = order[i]
        BY <1>5, <3>1, <4>1
      <4>3. logical[i] = UsesOf(Root)[k].path
        BY <3>3, <4>1, <4>2 DEF LastWins
      <4> QED
        BY <1>5, <4>2, <4>3
    <3> QED
      BY <1>2, <3>2, <3>3
  <2>2. HaveIds(n + 1, order')
    <3> SUFFICES ASSUME NEW k \in 1..(n + 1), RootFile(k) # NoFile
                 PROVE  \E i \in 1..(Len(order) + 1) : order'[i] = RootFile(k)
      BY <1>5 DEF HaveIds
    <3>1. CASE k = n + 1
      <4>1. Len(order) + 1 \in 1..(Len(order) + 1)
        BY <1>5
      <4> QED
        BY <1>1, <1>5, <3>1, <4>1
    <3>2. CASE k \in 1..n
      <4>1. PICK i \in 1..Len(order) : order[i] = RootFile(k)
        BY <3>2 DEF HaveIds
      <4>2. i \in 1..(Len(order) + 1) /\ order'[i] = RootFile(k)
        BY <1>5, <4>1
      <4> QED
        BY <4>2
    <3> QED
      BY <1>2, <3>1, <3>2
  <2> QED
    BY <2>1, <2>2
<1> QED
  BY <1>4, <1>5, RegisterShape

\* A module below registers a `use`: the files of the entry module keep what
\* they have.
LEMMA OthersRegister ==
    ASSUME order \in Seq(Files), logical \in Seq(Paths), Len(logical) = Len(order),
           NEW n \in Nat, NEW u, u.file \in Files, Register(u), ~InEntry,
           LastWins(n, order, logical), HaveIds(n, order)
    PROVE  LastWins(n, order', logical') /\ HaveIds(n, order')
<1>1. CASE /\ order' = order
           /\ \A i \in 1..Len(order) :
                 logical'[i] = IF order[i] = u.file /\ InEntry THEN u.path ELSE logical[i]
  BY <1>1 DEF LastWins, HaveIds
<1>2. CASE /\ \A i \in 1..Len(order) : order[i] # u.file
           /\ Len(order') = Len(order) + 1 /\ Len(order) \in Nat
           /\ order'[Len(order) + 1] = u.file
           /\ \A i \in 1..Len(order) : order'[i] = order[i] /\ logical'[i] = logical[i]
  <2>1. ASSUME NEW k \in 1..n PROVE RootFile(k) # u.file
    <3>1. RootFile(k) # NoFile => \E i \in 1..Len(order) : order[i] = RootFile(k)
      BY DEF HaveIds
    <3> QED
      BY <1>2, <3>1, NoFileIsNoFile
  <2>2. LastWins(n, order', logical')
    <3> SUFFICES ASSUME NEW k \in 1..n, NEW i \in 1..(Len(order) + 1),
                        RootFile(k) = order'[i],
                        \A l \in (k + 1)..n : RootFile(l) # order'[i]
                 PROVE  logical'[i] = UsesOf(Root)[k].path
      BY <1>2 DEF LastWins
    <3>1. i \in 1..Len(order)
      BY <1>2, <2>1
    <3>2. order'[i] = order[i] /\ logical'[i] = logical[i]
      BY <1>2, <3>1
    <3> QED
      BY <3>1, <3>2 DEF LastWins
  <2>3. HaveIds(n, order')
    <3> SUFFICES ASSUME NEW k \in 1..n, RootFile(k) # NoFile
                 PROVE  \E i \in 1..(Len(order) + 1) : order'[i] = RootFile(k)
      BY <1>2 DEF HaveIds
    <3>1. PICK i \in 1..Len(order) : order[i] = RootFile(k)
      BY DEF HaveIds
    <3>2. i \in 1..(Len(order) + 1) /\ order'[i] = RootFile(k)
      BY <1>2, <3>1
    <3> QED
      BY <3>2
  <2> QED
    BY <2>2, <2>3
<1> QED
  BY <1>1, <1>2, RegisterShape

LEMMA RegisteredFacts ==
    ASSUME IInv
    PROVE  /\ Registered \in Nat /\ stack[1] \in Frame /\ stack[1].next \in Nat \ {0}
           /\ Depth = Len(stack) - 1 /\ Len(stack) \in Nat \ {0}
           /\ Depth = 0 => /\ Top = stack[1] /\ Top.file = Root
                           /\ Registered + 1 = Top.next
<1>1. /\ Len(stack) \in Nat \ {0} /\ stack[1] \in Frame /\ stack[1].file = Root
      /\ stack[1].next \in Nat \ {0}
  BY TopFacts DEF IInv, Links, Frame
<1> QED
  BY <1>1 DEF Registered, Depth, Top

\* How the steps move the count of registered `use`s.
LEMMA RegisteredStep ==
    ASSUME IInv, Next
    PROVE  /\ UseStep \/ EnterModule =>
                Registered' = IF Depth = 0 THEN Registered + 1 ELSE Registered
           /\ EndStep \/ FinishEntry => Registered' = Registered
<1>1. /\ stack[1] \in Frame /\ stack[1].next \in Nat \ {0}
      /\ Depth = Len(stack) - 1 /\ Len(stack) \in Nat \ {0}
      /\ Depth = 0 => Top = stack[1]
      /\ Depth' = Len(stack') - 1
  BY RegisteredFacts DEF Depth
<1>2. CASE UseStep
  <2>1. PICK x \in Frame : SetTop(x) /\ x.next = Top.next + 1
    BY <1>2, UseStepShape
  <2>2. /\ Len(stack') = Len(stack) /\ stack'[Len(stack)] = x
        /\ \A i \in 1..(Len(stack) - 1) : stack'[i] = stack[i]
    BY <2>1, ReplaceShape
  <2>3. ASSUME Depth = 0 PROVE Registered' = Registered + 1
    <3>1. Depth' = 0 /\ stack'[1] = x /\ Top = stack[1]
      BY <1>1, <2>2, <2>3, SMTT(30)
    <3>2. Registered = stack[1].next - 1
      BY <2>3 DEF Registered
    <3>3. Registered' = x.next - 1
      BY <3>1 DEF Registered
    <3> QED
      BY <1>1, <2>1, <3>1, <3>2, <3>3
  <2>4. ASSUME Depth # 0 PROVE Registered' = Registered
    <3>1. stack'[1] = stack[1] /\ Depth' # 0
      BY <1>1, <2>2, <2>4
    <3> QED
      BY <2>4, <3>1 DEF Registered
  <2>5. ~EndStep /\ ~FinishEntry
    BY <1>1, <1>2 DEF UseStep, EndStep, FinishEntry, FailModule, FinishModule, AtEnd,
       UseMissing, UseCyclic, UseCached, UseGarbled
  <2>6. Registered' = IF Depth = 0 THEN Registered + 1 ELSE Registered
    BY <2>3, <2>4
  <2> QED
    BY <2>5, <2>6
<1>3. CASE EnterModule
  <2>1. /\ Len(stack') = Len(stack) + 1
        /\ \A i \in 1..Len(stack) : stack'[i] = stack[i]
    BY <1>3, EnterShape, PushShape
  <2>2. stack'[1] = stack[1] /\ Depth' # 0
    BY <1>1, <2>1
  <2>3. ~EndStep /\ ~FinishEntry
    BY <1>3 DEF EndStep, FinishEntry, FailModule, FinishModule, AtEnd, EnterModule
  <2> QED
    BY <1>1, <2>2, <2>3 DEF Registered
<1>4. CASE EndStep
  <2>0. ~UseStep /\ ~EnterModule
    BY <1>4 DEF UseStep, EndStep, FailModule, FinishModule, AtEnd, EnterModule,
       UseMissing, UseCyclic, UseCached, UseGarbled
  <2>1. PICK x \in Frame : /\ stack' = Append(SubSeq(Below, 1, Len(Below) - 1), x)
                           /\ x.next = Parent.next + 1
    BY <1>4, EndStepShape
  <2>2. /\ Depth > 0 /\ Len(stack) > 1 /\ Len(stack') = Len(stack) - 1
        /\ stack'[Len(stack) - 1] = x
        /\ \A i \in 1..(Len(stack) - 2) : stack'[i] = stack[i]
        /\ Parent = stack[Len(stack) - 1]
    BY <1>4, <2>1, EndStepShape, PopShape, ParentFacts
  <2>3. CASE Len(stack) = 2
    <3>1. Depth' = 0 /\ Depth # 0 /\ stack'[1] = x /\ Parent = stack[1]
      BY <1>1, <2>2, <2>3
    <3>2. Registered' = x.next - 1 /\ Registered = stack[1].next
      BY <3>1 DEF Registered
    <3>3. x.next - 1 = stack[1].next
      BY <1>1, <2>1, <3>1
    <3> QED
      BY <2>0, <3>2, <3>3
  <2>4. CASE Len(stack) # 2
    <3>1. Depth' # 0 /\ Depth # 0 /\ stack'[1] = stack[1]
      BY <1>1, <2>2, <2>4
    <3> QED
      BY <1>1, <2>0, <3>1 DEF Registered
  <2> QED
    BY <2>3, <2>4
<1>5. CASE FinishEntry
  <2>0. ~UseStep /\ ~EnterModule
    BY <1>5 DEF UseStep, FinishEntry, AtEnd, EnterModule,
       UseMissing, UseCyclic, UseCached, UseGarbled
  <2> DEFINE x == [Top EXCEPT !.errs = LowerErrors(Top), !.table = FinalTable(Top)]
  <2>1. Depth = 0 /\ stack' = <<x>>
    BY <1>5 DEF FinishEntry
  <2>2. x.next = Top.next
    BY <1>1, <2>1 DEF Frame
  <2> HIDE DEF x
  <2>3. Depth' = 0 /\ stack'[1] = x
    BY <1>1, <2>1
  <2> QED
    BY <1>1, <2>0, <2>1, <2>2, <2>3 DEF Registered
<1> QED
  BY <1>2, <1>3, <1>4, <1>5

LEMMA EInvInit == Init => EInv
<1> SUFFICES ASSUME Init PROVE EInv
  OBVIOUS
<1>1. stack[1].next = 1 /\ Len(stack) = 1 /\ order = <<>>
  BY DEF Init, NewFrame
<1>2. Registered = 0
  BY <1>1 DEF Registered, Depth
<1>3. Len(UsesOf(Root)) \in Nat
  BY ProgramsAreTyped, LenProperties DEF Init, UsesOf, Program, Modules
<1> QED
  BY <1>1, <1>2, <1>3 DEF EInv, LastWins, HaveIds

LEMMA EInvStep == IInv /\ EInv /\ [Next]_vars => EInv'
<1> SUFFICES ASSUME IInv, EInv, [Next]_vars PROVE EInv'
  OBVIOUS
<1>0. /\ order \in Seq(Files) /\ logical \in Seq(Paths) /\ Len(logical) = Len(order)
  BY DEF IInv, TypeOK
<1>1. CASE UNCHANGED vars
  BY <1>1 DEF vars, EInv, Registered, Depth, LastWins, HaveIds, RootFile, UsesOf
<1>2. CASE Next
  <2>1. prog' = prog
    BY <1>2 DEF Next, UseMissing, UseCyclic, UseCached, UseGarbled, EnterModule,
                FailModule, FinishModule, FinishEntry
  <2>2. SUFFICES /\ Registered' <= Len(UsesOf(Root))
                 /\ LastWins(Registered', order', logical') /\ HaveIds(Registered', order')
    BY <2>1 DEF EInv, LastWins, HaveIds, RootFile, UsesOf
  <2>3. /\ Registered \in Nat
        /\ Depth = 0 => Top.file = Root /\ Registered + 1 = Top.next
        /\ InEntry <=> Depth = 0
    BY RegisteredFacts DEF InEntry
  <2>4. CASE EndStep \/ FinishEntry
    <3>1. order' = order /\ logical' = logical /\ Registered' = Registered
      BY <1>2, <2>4, RegisteredStep DEF EndStep, FailModule, FinishModule, FinishEntry
    <3> QED
      BY <3>1 DEF EInv
  <2>5. CASE UseStep \/ EnterModule
    <3>1. /\ HasUse(Top)
          /\ Registered' = IF Depth = 0 THEN Registered + 1 ELSE Registered
      BY <1>2, <2>5, RegisteredStep
         DEF UseStep, UseMissing, UseCyclic, UseCached, UseGarbled, EnterModule
    <3>2. Registered' <= Len(UsesOf(Root))
      BY <2>3, <3>1 DEF HasUse, EInv
    <3>3. Depth = 0 => CurrentUse(Top) = UsesOf(Root)[Registered + 1]
      BY <2>3 DEF CurrentUse
    <3>4. CASE UseMissing
      <4>1. order' = order /\ logical' = logical /\ CurrentUse(Top).file = NoFile
        BY <3>4 DEF UseMissing
      <4>2. Depth = 0 => RootFile(Registered + 1) = NoFile
        BY <3>3, <4>1 DEF RootFile
      <4>3. Depth = 0 => /\ LastWins(Registered + 1, order, logical)
                         /\ HaveIds(Registered + 1, order)
        BY <1>0, <2>3, <4>2, MissingWins DEF EInv
      <4> QED
        BY <3>1, <3>2, <4>1, <4>3 DEF EInv
    <3>5. CASE Register(CurrentUse(Top)) /\ CurrentUse(Top).file # NoFile
      <4>1. CurrentUse(Top).file \in Files
        BY <3>1, <3>5, TopFacts, UseFacts DEF IInv, TypeOK
      <4>2. CASE Depth = 0
        BY <1>0, <2>3, <3>1, <3>2, <3>3, <3>5, <4>2, EntryRegisters DEF EInv
      <4>3. CASE Depth # 0
        BY <1>0, <2>3, <3>1, <3>2, <3>5, <4>1, <4>3, OthersRegister DEF EInv
      <4> QED
        BY <4>2, <4>3
    <3> QED
      BY <2>5, <3>4, <3>5 DEF UseStep, UseCyclic, UseCached, UseGarbled, EnterModule, Admit
  <2> QED
    BY <1>2, <2>4, <2>5 DEF Next, UseStep, EndStep
<1> QED
  BY <1>1, <1>2

\* A file that the entry module names has, in the final names, the path that
\* the entry module wrote last for it: `register` replaces a path that another
\* file wrote first, and nobody else replaces the entry's.
THEOREM EntryNamesItsFiles == Spec => []EntryPathWins
<1>1. IInv /\ EInv => EntryPathWins
  <2> SUFFICES ASSUME IInv, EInv, NEW k \in 1..(stack[1].next - 1), NEW i \in DOMAIN order,
                      UsesOf(Root)[k].file = order[i],
                      \A l \in (k + 1)..Len(UsesOf(Root)) : UsesOf(Root)[l].file # order[i]
               PROVE  logical[i] = UsesOf(Root)[k].path
    BY DEF EntryPathWins
  <2>1. DOMAIN order = 1..Len(order)
    BY LenProperties DEF IInv, TypeOK
  <2>2. stack[1].next \in Nat \ {0} /\ Registered \in Nat
        /\ (Registered = stack[1].next - 1 \/ Registered = stack[1].next)
    BY RegisteredFacts DEF Registered
  <2>3. k \in 1..Registered
    BY <2>2
  <2>4. Len(UsesOf(Root)) \in Nat
    BY LenProperties DEF IInv, TypeOK, UsesOf, Program, Modules
  <2>5. \A l \in (k + 1)..Registered : l \in (k + 1)..Len(UsesOf(Root))
    BY <2>2, <2>3, <2>4 DEF EInv
  <2>6. /\ RootFile(k) = order[i]
        /\ \A l \in (k + 1)..Registered : RootFile(l) # order[i]
    BY <2>5 DEF RootFile
  <2> QED
    BY <2>1, <2>3, <2>6 DEF EInv, LastWins
<1> QED
  BY <1>1, Invariance, EInvInit, EInvStep, PTL DEF Spec

-----------------------------------------------------------------------------
(* The items behind the names of a table. *)

\* The items that a module writes itself.
OwnItems(m) == {prog.own[m][i] : i \in DOMAIN prog.own[m]} \cup prog.inner[m]

\* The table t of the file f holds own items and items of linked files, with
\* the right origin for every name that is not merged.
TableIn(f, t, fin, lnk, merged) ==
    /\ \A s \in t.syms :
          /\ \/ s.home = f /\ s \in OwnItems(f)
             \/ s.home \in fin /\ s \in lnk[s.home]
          /\ s.home # f /\ s.name \notin merged => t.origin[s.name] = s.home
    /\ \A n \in Names : t.origin[n] # NoFile => \E s \in Named(t, n) : s.home # f

\* While pass 0 runs, the table of an analyzer holds nothing of its own.
FrameIn(fr, fin, lnk, merged) ==
    /\ TableIn(fr.file, fr.table, fin, lnk, merged)
    /\ \A s \in fr.table.syms : s.home # fr.file

FramesIn(st, fin, lnk, merged) == \A i \in 1..Len(st) : FrameIn(st[i], fin, lnk, merged)

FilesIn(fin, tabs, lnk, merged) ==
    \A f \in fin : /\ TableIn(f, tabs[f], fin, lnk, merged)
                   /\ OwnItems(f) \subseteq lnk[f]
                   /\ \A g \in Deps(tabs[f]) : lnk[g] \subseteq lnk[f]

TInv ==
    /\ prog \in Programs
    /\ verdict = "running" => FramesIn(stack, Finished, linked, MergedNames)
    /\ FilesIn(Finished, cache, linked, MergedNames)

\* What holds of a table stays true when files are added.
LEMMA TableInMonotone ==
    ASSUME NEW f, NEW t, NEW fin, NEW more, fin \subseteq more,
           NEW lnk, NEW lnk2, \A g \in fin : lnk2[g] = lnk[g],
           NEW merged, NEW merged2, merged \subseteq merged2,
           TableIn(f, t, fin, lnk, merged)
    PROVE  TableIn(f, t, more, lnk2, merged2)
BY DEF TableIn

\* A `use` of a finished file brings in linked items under their origin.
LEMMA ImportUseIn ==
    ASSUME NEW f, NEW t \in Table, NEW from \in Table, NEW u \in Use, u.file \in Files,
           NEW fin \in SUBSET Files, NEW lnk, NEW merged, f \notin fin, u.file \in fin,
           TableIn(f, t, fin, lnk, merged), \A s \in t.syms : s.home # f,
           TableIn(u.file, from, fin, lnk, merged), OwnItems(u.file) \subseteq lnk[u.file],
           \A n \in Names : \A s, r \in Named(from, n) : s.home # r.home => n \in merged
    PROVE  LET w == ImportUse(t, from, u, u.file)
           IN  TableIn(f, w, fin, lnk, merged) /\ \A s \in w.syms : s.home # f
<1> DEFINE new == Brought(t, from, u)
           w == ImportUse(t, from, u, u.file)
<1>1. /\ w.syms = t.syms \cup {s \in UNION {Offered(from, n) : n \in new} : s.pub}
      /\ w.origin = [n \in Names |-> IF n \in new THEN OriginOf(from, n, u.file)
                                                  ELSE t.origin[n]]
  BY DEF ImportUse
<1>2. \A n \in new : /\ n \in Names /\ ~Has(t, n)
                     /\ \E s \in Offered(from, n) : s.pub
  BY DEF Brought, Wanted, PublicNames, Use, Importable
<1>3. \A n : Offered(from, n) \subseteq Named(from, n)
  BY DEF Offered
<1>4. t.syms \subseteq Symbol /\ from.syms \subseteq Symbol /\ NoFile \notin fin
  BY NoFileIsNoFile DEF Table
<1> HIDE DEF new, w
<1>5. ASSUME NEW n \in new, NEW s \in Offered(from, n)
      PROVE  /\ s \in from.syms /\ s.name = n /\ s.home \in fin /\ s \in lnk[s.home]
             /\ s.home # f
             /\ n \notin merged => w.origin[n] = s.home
  <2>1. s \in Named(from, n) /\ s \in from.syms /\ s.name = n
    BY <1>3 DEF Named
  <2>2. s.home \in fin /\ s \in lnk[s.home]
    BY <2>1 DEF TableIn
  <2>3. w.origin[n] = OriginOf(from, n, u.file)
    BY <1>1, <1>2
  <2>4. ASSUME n \notin merged PROVE OriginOf(from, n, u.file) = s.home
    <3>1. CASE s.home = u.file
      <4>1. \A r \in Named(from, n) : r.home = u.file
        BY <1>2, <2>1, <2>4, <3>1
      <4>2. from.origin[n] = NoFile
        BY <1>2, <4>1 DEF TableIn
      <4> QED
        BY <3>1, <4>2 DEF OriginOf
    <3>2. CASE s.home # u.file
      <4>1. from.origin[n] = s.home
        BY <2>1, <2>4, <3>2 DEF TableIn
      <4> QED
        BY <1>4, <2>2, <4>1 DEF OriginOf
    <3> QED
      BY <3>1, <3>2
  <2> QED
    BY <2>1, <2>2, <2>3, <2>4
<1>6. ASSUME NEW s \in t.syms
      PROVE  s.name \in Names /\ w.origin[s.name] = t.origin[s.name]
  <2>1. s.name \in Names /\ Has(t, s.name)
    BY <1>4 DEF Symbol, Has, Named
  <2> QED
    BY <1>1, <1>2, <2>1
<1>7. ASSUME NEW s \in w.syms
      PROVE  /\ \/ s.home = f /\ s \in OwnItems(f)
                \/ s.home \in fin /\ s \in lnk[s.home]
             /\ s.home # f
             /\ s.name \notin merged => w.origin[s.name] = s.home
  <2>1. CASE s \in t.syms
    BY <1>6, <2>1 DEF TableIn
  <2>2. CASE s \notin t.syms
    <3>1. PICK n \in new : s \in Offered(from, n)
      BY <1>1, <2>2
    <3> QED
      BY <1>5, <3>1
  <2> QED
    BY <2>1, <2>2
<1>8. ASSUME NEW n \in Names, w.origin[n] # NoFile
      PROVE  \E s \in Named(w, n) : s.home # f
  <2>1. CASE n \in new
    <3>1. PICK s \in Offered(from, n) : s.pub
      BY <1>2, <2>1
    <3>2. s \in w.syms /\ s.name = n /\ s.home # f
      BY <1>1, <1>5, <2>1, <3>1
    <3> QED
      BY <3>2 DEF Named
  <2>2. CASE n \notin new
    <3>1. t.origin[n] # NoFile
      BY <1>1, <1>8, <2>2
    <3>2. PICK s \in Named(t, n) : s.home # f
      BY <3>1 DEF TableIn
    <3> QED
      BY <1>1, <3>2 DEF Named
  <2> QED
    BY <2>1, <2>2
<1> QED
  BY <1>7, <1>8 DEF TableIn, w

\* The table that a module ends with: its imports and its own items.
LEMMA FinalTableIn ==
    ASSUME prog \in Programs, NEW fr \in Frame, NEW fin, NEW lnk, NEW merged,
           FrameIn(fr, fin, lnk, merged)
    PROVE  TableIn(fr.file, FinalTable(fr), fin, lnk, merged)
<1> DEFINE f == fr.file
           t == FinalTable(fr)
<1>1. f \in Modules /\ fr.table \in Table /\ prog.own[f] \in Seq(Symbol)
  BY ProgramsAreTyped DEF Frame, Program
<1>2. t.origin = fr.table.origin
  BY FinalOrigins
<1>3. /\ OwnTable(fr).syms = fr.table.syms \cup {prog.own[f][i] : i \in 1..Len(prog.own[f])}
      /\ OwnTable(fr) \in [syms : {OwnTable(fr).syms}, origin : {fr.table.origin},
                           reexports : {fr.table.reexports}]
  BY <1>1 DEF OwnTable, DefineAll, DefineFirst, Table
<1>4. /\ t.syms \subseteq OwnTable(fr).syms \cup prog.inner[f]
      /\ OwnTable(fr).syms \subseteq t.syms
  BY <1>3 DEF FinalTable, LocalTable, AliasAll
<1>5. DOMAIN prog.own[f] = 1..Len(prog.own[f])
  BY <1>1, LenProperties
<1>6. /\ t.syms \subseteq fr.table.syms \cup OwnItems(f)
      /\ fr.table.syms \subseteq t.syms
  BY <1>3, <1>4, <1>5 DEF OwnItems
<1>7. \A s \in OwnItems(f) : s.home = f
  BY <1>1, ItemsAreAtHome DEF OwnItems
<1> HIDE DEF t
<1>8. TableIn(f, t, fin, lnk, merged)
  BY <1>2, <1>6, <1>7 DEF FrameIn, TableIn, Named
<1> QED
  BY <1>8 DEF t

\* The names that the finished tables merge are merged in every one of them.
LEMMA MergedIn ==
    ASSUME NEW f \in Finished
    PROVE  \A n \in Names : \A s, r \in Named(cache[f], n) : s.home # r.home => n \in MergedNames
BY DEF MergedNames

LEMMA TInvInit == Init => TInv
<1> SUFFICES ASSUME Init PROVE TInv
  OBVIOUS
<1>1. /\ stack = <<NewFrame(Root)>> /\ NewFrame(Root).file = Root
      /\ NewFrame(Root).table = NewTable /\ Finished = {}
  BY DEF Init, NewFrame, Finished
<1>2. FrameIn(NewFrame(Root), Finished, linked, MergedNames)
  BY <1>1 DEF FrameIn, TableIn, NewTable
<1> QED
  BY <1>1, <1>2 DEF Init, TInv, FramesIn, FilesIn

\* A frame that goes on to a finished file.
LEMMA BringIn ==
    ASSUME IInv, NEW fr \in Frame, NEW from \in Table, CurrentUse(fr) \in Use,
           NEW fin \in SUBSET Files, NEW lnk, NEW merged,
           CurrentUse(fr).file \in fin, fr.file \notin fin,
           FrameIn(fr, fin, lnk, merged),
           TableIn(CurrentUse(fr).file, from, fin, lnk, merged),
           OwnItems(CurrentUse(fr).file) \subseteq lnk[CurrentUse(fr).file],
           \A n \in Names : \A s, r \in Named(from, n) : s.home # r.home => n \in merged
    PROVE  FrameIn(Bring(fr, from), fin, lnk, merged)
<1> DEFINE u == CurrentUse(fr)
           w == ImportUse(fr.table, from, u, u.file)
<1>1. Bring(fr, from).table = w /\ Bring(fr, from).file = fr.file
  BY DEF Bring, Advance
<1>2. fr.table \in Table /\ u.file \in Files
  BY DEF Frame
<1> HIDE DEF u
<1>3. TableIn(fr.file, w, fin, lnk, merged) /\ \A s \in w.syms : s.home # fr.file
  <2>1. TableIn(fr.file, fr.table, fin, lnk, merged) /\ \A s \in fr.table.syms : s.home # fr.file
    BY DEF FrameIn
  <2> QED
    BY <1>2, <2>1, ImportUseIn DEF u
<1> HIDE DEF w
<1> QED
  BY <1>1, <1>3 DEF FrameIn

\* The frames of the next state, when the innermost one is replaced.
LEMMA FramesReplace ==
    ASSUME IInv, NEW x \in Frame, SetTop(x), NEW fin, NEW lnk, NEW merged,
           FramesIn(stack, fin, lnk, merged), FrameIn(x, fin, lnk, merged)
    PROVE  FramesIn(stack', fin, lnk, merged)
<1>1. /\ Len(stack) \in Nat \ {0} /\ Len(stack') = Len(stack)
      /\ stack'[Len(stack)] = x
      /\ \A i \in 1..(Len(stack) - 1) : stack'[i] = stack[i]
  BY ReplaceShape
<1>2. \A i \in 1..Len(stack) : i = Len(stack) \/ i \in 1..(Len(stack) - 1)
  BY <1>1
<1> QED
  BY <1>1, <1>2 DEF FramesIn

LEMMA FramesPop ==
    ASSUME IInv, Depth > 0, NEW x \in Frame, NEW fin, NEW lnk, NEW merged,
           stack' = Append(SubSeq(Below, 1, Len(Below) - 1), x),
           \A i \in 1..(Len(stack) - 2) : FrameIn(stack[i], fin, lnk, merged),
           FrameIn(x, fin, lnk, merged)
    PROVE  FramesIn(stack', fin, lnk, merged)
<1>1. /\ Len(stack) \in Nat /\ Len(stack) > 1 /\ Len(stack') = Len(stack) - 1
      /\ stack'[Len(stack) - 1] = x
      /\ \A i \in 1..(Len(stack) - 2) : stack'[i] = stack[i]
  BY PopShape
<1>2. \A i \in 1..(Len(stack) - 1) : i = Len(stack) - 1 \/ i \in 1..(Len(stack) - 2)
  BY <1>1
<1> QED
  BY <1>1, <1>2 DEF FramesIn

\* A step that finishes no file: the frames keep what holds of them.
LEMMA UseStepTables ==
    ASSUME IInv, TInv, UseStep
    PROVE  FramesIn(stack', Finished, linked, MergedNames)
<1>0. /\ Top \in Frame /\ Len(stack) \in 1..Len(stack) /\ Top = stack[Len(stack)]
      /\ FramesIn(stack, Finished, linked, MergedNames)
      /\ FilesIn(Finished, cache, linked, MergedNames)
  BY TopFacts DEF IInv, TInv, Top, UseStep, UseMissing, UseCyclic, UseCached, UseGarbled
<1>1. FrameIn(Top, Finished, linked, MergedNames)
  BY <1>0 DEF FramesIn
<1>2. ASSUME NEW k \in ErrorKinds, SetTop(Refuse(Top, {Error(k, Top)}))
      PROVE  FramesIn(stack', Finished, linked, MergedNames)
  <2> DEFINE x == Refuse(Top, {Error(k, Top)})
  <2>1. x \in Frame /\ x.file = Top.file /\ x.table = Top.table /\ SetTop(x)
    BY <1>0, <1>2, ErrorType, RefuseType, RefuseOrigins
  <2> HIDE DEF x
  <2>2. FrameIn(x, Finished, linked, MergedNames)
    BY <1>1, <2>1 DEF FrameIn
  <2> QED
    BY <1>0, <2>1, <2>2, FramesReplace
<1>3. CASE UseMissing
  BY <1>2, <1>3 DEF UseMissing, ErrorKinds
<1>4. CASE UseCyclic
  BY <1>2, <1>4 DEF UseCyclic, ErrorKinds
<1>5. CASE UseGarbled
  BY <1>2, <1>5 DEF UseGarbled, ErrorKinds
<1>6. CASE UseCached
  <2> DEFINE u == CurrentUse(Top)
             x == Bring(Top, cache[u.file])
  <2>1. HasUse(Top) /\ Admit(u) /\ u.file \in Finished /\ SetTop(x)
    BY <1>6 DEF UseCached, Cached
  <2>2. /\ u \in Use /\ u.file \in Files /\ cache[u.file] \in Table
        /\ Finished \in SUBSET Files
    BY <1>0, <2>1, UseFacts, AdmitKeeps DEF IInv, TypeOK, Finished
  <2>3. x \in Frame
    BY <1>0, <2>2, BringType
  <2>4. /\ TableIn(u.file, cache[u.file], Finished, linked, MergedNames)
        /\ OwnItems(u.file) \subseteq linked[u.file]
    BY <1>0, <2>1 DEF FilesIn
  <2>5. Top.file \notin Finished
    BY <1>0, TopFacts DEF IInv, AnalyzedOnce
  <2>6. FrameIn(x, Finished, linked, MergedNames)
    BY <1>0, <1>1, <2>1, <2>2, <2>4, <2>5, MergedIn, BringIn
  <2> HIDE DEF x
  <2> QED
    BY <1>0, <2>1, <2>3, <2>6, FramesReplace
<1> QED
  BY <1>3, <1>4, <1>5, <1>6 DEF UseStep

LEMMA EnterTables ==
    ASSUME IInv, TInv, EnterModule
    PROVE  FramesIn(stack', Finished, linked, MergedNames)
<1> DEFINE x == NewFrame(CurrentUse(Top).file)
<1>1. /\ x \in Frame /\ stack' = Append(stack, x)
  BY EnterShape
<1>2. FrameIn(x, Finished, linked, MergedNames)
  BY DEF FrameIn, TableIn, NewFrame, NewTable
<1> HIDE DEF x
<1>3. /\ Len(stack) \in Nat /\ Len(stack') = Len(stack) + 1
      /\ stack'[Len(stack) + 1] = x
      /\ \A i \in 1..Len(stack) : stack'[i] = stack[i]
  BY <1>1, PushShape
<1>4. FramesIn(stack, Finished, linked, MergedNames)
  BY DEF TInv, EnterModule
<1>5. \A i \in 1..(Len(stack) + 1) : i = Len(stack) + 1 \/ i \in 1..Len(stack)
  BY <1>3
<1> QED
  BY <1>2, <1>3, <1>4, <1>5 DEF FramesIn

LEMMA FailTables ==
    ASSUME IInv, TInv, FailModule
    PROVE  FramesIn(stack', Finished, linked, MergedNames)
<1> DEFINE x == Refuse(Parent, LowerErrors(Top))
<1>1. /\ Depth > 0 /\ Top \in Frame /\ verdict = "running"
      /\ stack' = Append(SubSeq(Below, 1, Len(Below) - 1), x)
  BY TopFacts DEF IInv, FailModule, AtEnd
<1>2. /\ Parent \in Frame /\ LowerErrors(Top) \in SUBSET ErrorRec
      /\ Len(stack) > 1 /\ Len(stack) \in Nat /\ Parent = stack[Len(stack) - 1]
  BY <1>1, ParentFacts, LowerErrorsType
<1>3. x \in Frame /\ x.file = Parent.file /\ x.table = Parent.table
  BY <1>2, RefuseType, RefuseOrigins
<1> HIDE DEF x
<1>4. FramesIn(stack, Finished, linked, MergedNames)
  BY <1>1 DEF TInv
<1>5. FrameIn(Parent, Finished, linked, MergedNames)
  <2>1. Len(stack) - 1 \in 1..Len(stack)
    BY <1>2
  <2> QED
    BY <1>2, <1>4, <2>1 DEF FramesIn
<1>6. FrameIn(x, Finished, linked, MergedNames)
  BY <1>3, <1>5 DEF FrameIn
<1>7. \A i \in 1..(Len(stack) - 2) : FrameIn(stack[i], Finished, linked, MergedNames)
  BY <1>2, <1>4 DEF FramesIn
<1> QED
  BY <1>1, <1>3, <1>6, <1>7, FramesPop

\* A module that finishes: its table, its IR, and the analyzer that waits.
LEMMA FinishTables ==
    ASSUME IInv, OInv, TInv, FinishModule
    PROVE  /\ FramesIn(stack', Finished', linked', MergedNames')
           /\ FilesIn(Finished', cache', linked', MergedNames')
<1> DEFINE f == Top.file
           t == FinalTable(Top)
           x == Bring(Parent, t)
           fin == Finished \cup {f}
           more == MergedNames'
<1>1. /\ Depth > 0 /\ verdict = "running" /\ LowerErrors(Top) = {} /\ prog' = prog
      /\ stack' = Append(SubSeq(Below, 1, Len(Below) - 1), x)
      /\ cache' = [g \in fin |-> IF g = f THEN t ELSE cache[g]]
      /\ linked' = [g \in DOMAIN linked \cup {f} |-> IF g = f THEN ItemsOf(f, t) ELSE linked[g]]
  BY DEF FinishModule, AtEnd
<1>2. /\ Len(stack) \in Nat /\ Len(stack) > 1
      /\ Parent \in Frame /\ Parent = stack[Len(stack) - 1]
      /\ CurrentUse(Parent) \in Use /\ CurrentUse(Parent).file = f /\ f \in Files
  BY <1>1, ParentFacts
<1>3. Top \in Frame /\ Top = stack[Len(stack)] /\ t \in Table
  BY TopFacts, AnalyzedTableType DEF IInv, TypeOK, Top
<1>4. /\ Finished' = fin /\ fin \in SUBSET Files /\ DOMAIN linked = Finished
      /\ \A g \in Finished : g # f
  <2>1. f \notin Finished
    BY <1>2, <1>3, TopFacts DEF IInv, AnalyzedOnce
  <2> QED
    BY <1>1, <1>2, <2>1 DEF IInv, TypeOK, Finished
<1>5. /\ \A g \in Finished : linked'[g] = linked[g] /\ cache'[g] = cache[g]
      /\ linked'[f] = ItemsOf(f, t) /\ cache'[f] = t
  BY <1>1, <1>4
<1>6. MergedNames \subseteq more
  BY <1>4, <1>5 DEF MergedNames
<1>7. \A n \in Names : \A s, r \in Named(t, n) : s.home # r.home => n \in more
  BY <1>4, <1>5 DEF MergedNames
<1>8. Deps(t) \subseteq Finished
  BY <1>1, <1>4 DEF LowerErrors, Missing
<1> HIDE DEF more, fin
<1>9. ASSUME NEW i \in 1..Len(stack)
      PROVE  FrameIn(stack[i], fin, linked', more)
  <2>1. FrameIn(stack[i], Finished, linked, MergedNames)
    BY <1>1 DEF TInv, FramesIn
  <2>2. Finished \subseteq fin
    BY DEF fin
  <2> QED
    BY <1>5, <1>6, <2>1, <2>2, TableInMonotone DEF FrameIn
<1>10. TableIn(f, t, fin, linked', more)
  <2>1. FrameIn(Top, fin, linked', more)
    BY <1>2, <1>3, <1>9
  <2> QED
    BY <1>3, <2>1, FinalTableIn DEF TInv
<1>11. OwnItems(f) \subseteq linked'[f]
  BY <1>5 DEF ItemsOf, OwnItems
<1>12. \A g \in Deps(t) : linked'[g] \subseteq linked'[f]
  BY <1>5, <1>8 DEF ItemsOf
<1> HIDE DEF t, f
<1>13. FramesIn(stack', fin, linked', more)
  <2>1. Len(stack) - 1 \in 1..Len(stack)
    BY <1>2
  <2>2. Parent.file \notin fin
    <3>1. stack'[Len(stack) - 1] = x /\ Len(stack') = Len(stack) - 1 /\ x \in Frame /\ x.file = Parent.file
      <4>1. x \in Frame /\ x.file = Parent.file
        BY <1>2, <1>3, BringType
      <4> QED
        BY <1>1, <1>2, <4>1, PopShape
    <3>2. IInv'
      BY StepKeeps DEF Next
    <3>3. Len(stack) - 1 \in DOMAIN stack'
      BY <1>2, <3>1, <3>2, TopFacts, LenProperties DEF IInv, TypeOK
    <3> QED
      BY <1>4, <3>1, <3>2, <3>3 DEF IInv, AnalyzedOnce
  <2>3. FrameIn(Parent, fin, linked', more) /\ f \in fin
    BY <1>2, <1>9, <2>1 DEF fin
  <2>4. x \in Frame
    BY <1>2, <1>3, BringType
  <2>5. FrameIn(x, fin, linked', more)
    BY <1>2, <1>3, <1>4, <1>7, <1>10, <1>11, <2>2, <2>3, BringIn
  <2> HIDE DEF x
  <2>6. \A i \in 1..(Len(stack) - 2) : FrameIn(stack[i], fin, linked', more)
    BY <1>2, <1>9
  <2> QED
    BY <1>1, <2>4, <2>5, <2>6, FramesPop
<1>14. FilesIn(fin, cache', linked', more)
  <2>1. ASSUME NEW g \in Finished
        PROVE  /\ TableIn(g, cache'[g], fin, linked', more)
               /\ OwnItems(g) \subseteq linked'[g]
               /\ \A h \in Deps(cache'[g]) : linked'[h] \subseteq linked'[g]
    <3>1. /\ TableIn(g, cache[g], Finished, linked, MergedNames)
          /\ OwnItems(g) \subseteq linked[g]
          /\ \A h \in Deps(cache[g]) : linked[h] \subseteq linked[g]
      BY DEF TInv, FilesIn
    <3>2. TableIn(g, cache[g], fin, linked', more)
      BY <1>5, <1>6, <3>1, TableInMonotone DEF fin
    <3>3. Deps(cache[g]) \subseteq Finished
      <4>1. ASSUME NEW n \in Names, cache[g].origin[n] # NoFile
            PROVE  cache[g].origin[n] \in Finished
        BY <4>1 DEF OInv, OriginsIn
      <4> QED
        BY <4>1 DEF Deps
    <3> QED
      BY <1>5, <3>1, <3>2, <3>3
  <2>2. \A g \in fin : g \in Finished \/ g = f
    BY DEF fin
  <2> QED
    BY <1>5, <1>10, <1>11, <1>12, <2>1, <2>2 DEF FilesIn
<1> QED
  BY <1>4, <1>13, <1>14 DEF more

LEMMA TInvStep == IInv /\ OInv /\ TInv /\ [Next]_vars => TInv'
<1> SUFFICES ASSUME IInv, OInv, TInv, [Next]_vars PROVE TInv'
  OBVIOUS
<1>1. CASE UNCHANGED vars
  BY <1>1 DEF vars, TInv, FramesIn, FrameIn, FilesIn, TableIn, OwnItems, MergedNames, Finished
<1>2. CASE Next
  <2>1. prog' = prog
    BY <1>2 DEF Next, UseMissing, UseCyclic, UseCached, UseGarbled, EnterModule,
                FailModule, FinishModule, FinishEntry
  <2>2. SUFFICES /\ verdict' = "running" =>
                       FramesIn(stack', Finished', linked', MergedNames')
                 /\ FilesIn(Finished', cache', linked', MergedNames')
    BY <2>1 DEF TInv, FramesIn, FrameIn, FilesIn, TableIn, OwnItems
  <2>3. CASE FinishModule
    BY <2>3, FinishTables
  <2>4. CASE ~FinishModule
    <3>1. cache' = cache /\ linked' = linked
      BY <1>2, <2>4 DEF Next, UseMissing, UseCyclic, UseCached, UseGarbled, EnterModule,
                        FailModule, FinishEntry
    <3>2. Finished' = Finished /\ MergedNames' = MergedNames
      BY <3>1 DEF Finished, MergedNames
    <3>3. FilesIn(Finished, cache, linked, MergedNames)
      BY DEF TInv
    <3>4. verdict' = "running" => FramesIn(stack', Finished, linked, MergedNames)
      BY <1>2, <2>4, UseStepTables, EnterTables, FailTables DEF Next, UseStep, FinishEntry
    <3> QED
      BY <3>1, <3>2, <3>3, <3>4
  <2> QED
    BY <2>3, <2>4
<1> QED
  BY <1>1, <1>2

\* Every imported item of a finished file is an item of the linked IR, under
\* the file that defines it, however long the chain of re-exports that brought
\* its name: `import_symbol` passes the origin on, and `lower` links the IR
\* of each origin.
THEOREM ImportedItemsAreLinked == Spec => []ImportedItemsLinked
<1>1. IInv /\ OInv /\ TInv => ImportedItemsLinked
  <2> SUFFICES ASSUME IInv, OInv, TInv, NEW f \in Finished, NEW s \in cache[f].syms,
                      s.name \notin MergedNames
               PROVE  s \in linked[f] /\ (s.home # f => cache[f].origin[s.name] = s.home)
    BY DEF ImportedItemsLinked
  <2>1. /\ TableIn(f, cache[f], Finished, linked, MergedNames)
        /\ OwnItems(f) \subseteq linked[f]
        /\ \A g \in Deps(cache[f]) : linked[g] \subseteq linked[f]
    BY DEF TInv, FilesIn
  <2>2. s.name \in Names /\ NoFile \notin Finished
    BY NoFileIsNoFile DEF IInv, TypeOK, Finished, Table, Symbol
  <2>3. CASE s.home = f /\ s \in OwnItems(f)
    BY <2>1, <2>3
  <2>4. CASE s.home # f
    <3>1. s.home \in Finished /\ s \in linked[s.home] /\ cache[f].origin[s.name] = s.home
      BY <2>1, <2>4 DEF TableIn
    <3>2. s.home \in Deps(cache[f])
      BY <2>2, <3>1 DEF Deps
    <3> QED
      BY <2>1, <3>1, <3>2
  <2>5. CASE s.home = f /\ s \notin OwnItems(f)
    BY <2>1, <2>5 DEF TableIn
  <2> QED
    BY <2>3, <2>4, <2>5
<1> QED
  BY <1>1, Invariance, OInvInit, OInvStep, TInvInit, TInvStep, PTL DEF Spec

-----------------------------------------------------------------------------
(* What a file exports, followed k steps along the re-exports. *)

\* The functions of the files to the items that they may export.
Exporters == [Files \cup {NoFile} -> SUBSET Symbol]

NextExports(exp) ==
    [f \in Files \cup {NoFile} |-> IF f = NoFile THEN {} ELSE ExportsOf(exp, f)]

LEMMA ExportsType ==
    ASSUME prog \in Program, NEW exp \in Exporters
    PROVE  NextExports(exp) \in Exporters
<1>1. ASSUME NEW f \in Files PROVE ExportsOf(exp, f) \in SUBSET Symbol
  <2>1. prog.own[f] \in Seq(Symbol) /\ UsesOf(f) \in Seq(Use)
    BY DEF Program, Modules, UsesOf
  <2>2. \A i \in DOMAIN prog.own[f] : prog.own[f][i] \in Symbol
    BY <2>1
  <2>3. ASSUME NEW i \in DOMAIN UsesOf(f) PROVE Provides(exp, UsesOf(f)[i]) \subseteq Symbol
    <3>1. UsesOf(f)[i] \in Use
      BY <2>1
    <3>2. exp[UsesOf(f)[i].file] \in SUBSET Symbol
      BY <3>1 DEF Use, Exporters
    <3> QED
      BY <3>2 DEF Provides
  <2> QED
    BY <2>2, <2>3 DEF ExportsOf
<1> QED
  BY <1>1 DEF NextExports, Exporters

IsExports(g) ==
    g = [k \in 0..Cardinality(Files) |->
            [f \in Files \cup {NoFile} |->
                IF k = 0 \/ f = NoFile THEN {} ELSE ExportsOf(g[k - 1], f)]]

LEMMA ExportsExist ==
    ASSUME prog \in Program, IsFiniteSet(Files)
    PROVE  \E g : IsExports(g)
<1> DEFINE N == Cardinality(Files)
           none == [f \in Files \cup {NoFile} |-> {}]
           step == [x \in (1..N) \X Exporters |-> NextExports(x[2])]
<1>1. N \in Nat
  BY FS_CardinalityType
<1>2. none \in Exporters
  BY DEF Exporters
<1>3. step \in [(1..N) \X Exporters -> Exporters]
  BY ExportsType
<1> HIDE DEF N, none
<1>4. PICK g : Takes(g, N, Exporters, none, step)
  <2> HIDE DEF step
  <2> QED
    BY <1>1, <1>2, <1>3, StepsExist
<1>5. /\ g \in [0..N -> Exporters] /\ g[0] = none
      /\ \A k \in 1..N : g[k] = step[<<k, g[k - 1]>>]
  BY <1>4 DEF Takes
<1>6. ASSUME NEW k \in 0..N
      PROVE  g[k] = [f \in Files \cup {NoFile} |->
                       IF k = 0 \/ f = NoFile THEN {} ELSE ExportsOf(g[k - 1], f)]
  <2>1. CASE k = 0
    BY <1>5, <2>1 DEF none
  <2>2. CASE k # 0
    <3>1. k \in 1..N /\ k - 1 \in 0..N
      BY <1>1, <2>2
    <3>2. g[k] = step[<<k, g[k - 1]>>] /\ g[k - 1] \in Exporters
      BY <1>5, <3>1
    <3>3. g[k] = NextExports(g[k - 1])
      BY <3>1, <3>2
    <3> QED
      BY <2>2, <3>3 DEF NextExports
  <2> QED
    BY <2>1, <2>2
<1>7. IsExports(g)
  BY <1>5, <1>6 DEF IsExports, N
<1> QED
  BY <1>7

LEMMA ExportsAt ==
    ASSUME prog \in Program, IsFiniteSet(Files), NEW k \in 0..Cardinality(Files)
    PROVE  ExportsWithin[k] =
             [f \in Files \cup {NoFile} |->
                 IF k = 0 \/ f = NoFile THEN {} ELSE ExportsOf(ExportsWithin[k - 1], f)]
<1>1. ExportsWithin = CHOOSE g : IsExports(g)
  BY DEF ExportsWithin, IsExports
<1>2. IsExports(ExportsWithin)
  BY <1>1, ExportsExist
<1> DEFINE g == ExportsWithin
<1>3. g = [i \in 0..Cardinality(Files) |->
              [h \in Files \cup {NoFile} |->
                  IF i = 0 \/ h = NoFile THEN {} ELSE ExportsOf(g[i - 1], h)]]
  BY <1>2 DEF IsExports
<1> HIDE DEF g
<1>4. g[k] = [h \in Files \cup {NoFile} |->
                 IF k = 0 \/ h = NoFile THEN {} ELSE ExportsOf(g[k - 1], h)]
  BY <1>3
<1> QED
  BY <1>4 DEF g

LEMMA ExportsUnfold ==
    ASSUME prog \in Program, IsFiniteSet(Files), NEW k \in 1..Cardinality(Files), NEW f \in Files
    PROVE  ExportsWithin[k][f] = ExportsOf(ExportsWithin[k - 1], f)
<1>1. k \in 0..Cardinality(Files) /\ k # 0 /\ f # NoFile
  BY FS_CardinalityType, NoFileIsNoFile
<1>2. ExportsWithin[k] =
        [h \in Files \cup {NoFile} |->
            IF k = 0 \/ h = NoFile THEN {} ELSE ExportsOf(ExportsWithin[k - 1], h)]
  BY <1>1, ExportsAt
<1> DEFINE before == ExportsWithin[k - 1]
           now == ExportsWithin[k]
<1> HIDE DEF before, now
<1>3. now = [h \in Files \cup {NoFile} |->
               IF k = 0 \/ h = NoFile THEN {} ELSE ExportsOf(before, h)]
  BY <1>2 DEF before, now
<1>4. now[f] = ExportsOf(before, f)
  BY <1>1, <1>3
<1> QED
  BY <1>4 DEF before, now

LEMMA ExportsTyped ==
    ASSUME prog \in Program, IsFiniteSet(Files), NEW f \in Files
    PROVE  ExportsWithin[Cardinality(Files)][f] \in SUBSET Symbol
<1> DEFINE N == Cardinality(Files)
           P == {k \in Nat : k <= N => ExportsWithin[k] \in Exporters}
<1>1. N \in Nat
  BY FS_CardinalityType
<1>2. 0 \in P
  <2>1. ExportsWithin[0] = [h \in Files \cup {NoFile} |-> {}]
    <3>1. ASSUME NEW k \in 0..N, k = 0
          PROVE  ExportsWithin[k] = [h \in Files \cup {NoFile} |-> {}]
      <4>1. ExportsWithin[k] =
              [h \in Files \cup {NoFile} |->
                  IF k = 0 \/ h = NoFile THEN {} ELSE ExportsOf(ExportsWithin[k - 1], h)]
        BY ExportsAt
      <4> QED
        BY <3>1, <4>1
    <3> QED
      BY <1>1, <3>1
  <2> DEFINE now == ExportsWithin[0]
  <2> HIDE DEF now
  <2>2. now = [h \in Files \cup {NoFile} |-> {}]
    BY <2>1 DEF now
  <2>3. now \in Exporters
    BY <2>2 DEF Exporters
  <2> QED
    BY <2>3 DEF now
<1>3. ASSUME NEW k \in P PROVE k + 1 \in P
  <2> SUFFICES ASSUME k + 1 <= N PROVE ExportsWithin[k + 1] \in Exporters
    OBVIOUS
  <2> DEFINE before == ExportsWithin[k]
  <2>1. k \in Nat /\ k + 1 \in 0..N /\ k + 1 # 0 /\ (k + 1) - 1 = k /\ before \in Exporters
    BY <1>1
  <2>2. ExportsWithin[k + 1] =
          [h \in Files \cup {NoFile} |->
              IF k + 1 = 0 \/ h = NoFile THEN {} ELSE ExportsOf(before, h)]
    BY <2>1, ExportsAt
  <2> HIDE DEF before
  <2>3. ExportsWithin[k + 1] = NextExports(before)
    BY <2>1, <2>2 DEF NextExports
  <2> QED
    BY <2>1, <2>3, ExportsType
<1> HIDE DEF P
<1>4. \A k \in Nat : k \in P
  BY <1>2, <1>3, EveryNumber
<1>5. ExportsWithin[N] \in Exporters
  BY <1>1, <1>4 DEF P
<1> QED
  BY <1>5 DEF Exporters, N

-----------------------------------------------------------------------------
(* What a table exports, and what it got from its `use`s. *)

\* The items that `import_symbol` takes from the table t for the name n.
Exported(t, n) ==
    IF Importable(t, n) THEN {s \in Offered(t, n) : s.pub} ELSE {}

\* What the j-th `use` asks for under the name n.
ByUse(us, tabs, j, n) ==
    IF us[j].glob \/ n \in us[j].names THEN Exported(tabs[us[j].file], n) ELSE {}

\* The first i uses leave the name alone.
Unbound(us, tabs, i, n) == \A j \in 1..i : ByUse(us, tabs, j, n) = {}

\* After k uses the table holds what the first use that offers the name brought.
BoundIn(us, tabs, k, t, n) ==
    \/ /\ Named(t, n) = {} /\ t.origin[n] = NoFile /\ n \notin t.reexports
       /\ Unbound(us, tabs, k, n)
    \/ \E i \in 1..k :
          /\ Unbound(us, tabs, i - 1, n)
          /\ Named(t, n) = ByUse(us, tabs, i, n) /\ Named(t, n) # {}
          /\ t.origin[n] # NoFile
          /\ n \in t.reexports <=> us[i].pub

LEMMA BringBinds ==
    ASSUME NEW us, NEW tabs, NEW k \in Nat, NEW t \in Table, NEW from \in Table,
           NEW u \in Use, u = us[k + 1], u.file \in Files, from = tabs[u.file],
           Refused(t, from, u) = {}, NEW n \in Names, BoundIn(us, tabs, k, t, n)
    PROVE  BoundIn(us, tabs, k + 1, ImportUse(t, from, u, u.file), n)
<1> DEFINE new == Brought(t, from, u)
           w == ImportUse(t, from, u, u.file)
<1>1. /\ w.syms = t.syms \cup {s \in UNION {Offered(from, m) : m \in new} : s.pub}
      /\ w.origin = [m \in Names |-> IF m \in new THEN OriginOf(from, m, u.file)
                                                  ELSE t.origin[m]]
      /\ w.reexports = IF u.pub THEN t.reexports \cup Wanted(t, from, u) ELSE t.reexports
  BY DEF ImportUse
<1>0. SUFFICES BoundIn(us, tabs, k + 1, w, n)
  OBVIOUS
<1>2. new = Wanted(t, from, u)
  BY DEF Refused, Brought
<1>3. \A m : \A s \in Offered(from, m) : s.name = m
  BY DEF Offered, Named
<1>4. n \in new <=> ByUse(us, tabs, k + 1, n) # {} /\ Named(t, n) = {}
  <2>1. ByUse(us, tabs, k + 1, n) # {} <=> (u.glob \/ n \in u.names) /\ Importable(from, n)
    BY DEF ByUse, Exported, Importable
  <2>2. Importable(from, n) => n \in PublicNames(from)
    BY DEF Importable, PublicNames, Public, Offered
  <2>3. n \in new <=> /\ n \in Wanted(t, from, u) /\ Named(t, n) = {} /\ Importable(from, n)
    BY DEF Brought, Has
  <2>4. CASE u.glob
    BY <2>1, <2>2, <2>3, <2>4 DEF Wanted, Has
  <2>5. CASE ~u.glob
    BY <1>2, <2>1, <2>3, <2>5 DEF Wanted, Has
  <2> QED
    BY <2>4, <2>5
<1>5. \A j \in 1..(k + 1) : j = k + 1 \/ j \in 1..k
  OBVIOUS
<1>6. CASE n \in new
  <2>1. Named(t, n) = {} /\ n \notin t.reexports /\ Unbound(us, tabs, k, n)
        /\ ByUse(us, tabs, k + 1, n) # {}
    BY <1>4, <1>6 DEF BoundIn
  <2>2. ByUse(us, tabs, k + 1, n) = {s \in Offered(from, n) : s.pub}
    BY <2>1 DEF ByUse, Exported
  <2>3. Named(w, n) = {s \in Offered(from, n) : s.pub}
    BY <1>1, <1>3, <1>6, <2>1 DEF Named
  <2>4. w.origin[n] # NoFile
    BY <1>1, <1>6, NoFileIsNoFile DEF OriginOf
  <2>5. n \in w.reexports <=> u.pub
    BY <1>1, <1>2, <1>6, <2>1
  <2>6. k + 1 \in 1..(k + 1) /\ (k + 1) - 1 = k
    OBVIOUS
  <2> HIDE DEF w
  <2> QED
    BY <2>1, <2>2, <2>3, <2>4, <2>5, <2>6 DEF BoundIn
<1>7. CASE n \notin new
  <2>1. Named(w, n) = Named(t, n)
    BY <1>1, <1>3, <1>7 DEF Named
  <2>2. w.origin[n] = t.origin[n] /\ (n \in w.reexports <=> n \in t.reexports)
    BY <1>1, <1>2, <1>7
  <2>3. Named(t, n) = {} => ByUse(us, tabs, k + 1, n) = {}
    BY <1>4, <1>7
  <2> HIDE DEF w, new
  <2>4. Named(t, n) = {} /\ Unbound(us, tabs, k, n) => Unbound(us, tabs, k + 1, n)
    BY <1>5, <2>3 DEF Unbound
  <2>5. \A i \in 1..k : i \in 1..(k + 1)
    OBVIOUS
  <2> QED
    BY <2>1, <2>2, <2>4, <2>5 DEF BoundIn
<1> QED
  BY <1>6, <1>7

\* It depends on the tables of the uses behind the analyzer only.
LEMMA BoundInElsewhere ==
    ASSUME NEW us, NEW tabs, NEW tabs2, NEW k \in Nat, NEW t, NEW n,
           \A j \in 1..k : tabs2[us[j].file] = tabs[us[j].file],
           BoundIn(us, tabs, k, t, n)
    PROVE  BoundIn(us, tabs2, k, t, n)
<1>1. \A j \in 1..k : ByUse(us, tabs2, j, n) = ByUse(us, tabs, j, n)
  BY DEF ByUse
<1>2. \A i \in 1..k : \A j \in 1..(i - 1) : j \in 1..k
  OBVIOUS
<1> QED
  BY <1>1, <1>2 DEF BoundIn, Unbound

-----------------------------------------------------------------------------
(* The table that a file ends with exports what its source says. *)

\* The items that the file writes itself under the name n.
OwnNamed(f, n) == {s \in {prog.own[f][i] : i \in DOMAIN prog.own[f]} : s.name = n}

\* For each `use`, exp is right about what its file exports as n.
RightAbout(exp, us, tabs, n) ==
    \A j \in 1..Len(us) : {s \in exp[us[j].file] : s.name = n} = Exported(tabs[us[j].file], n)

\* A table whose items of the name are all functions, or all types.
OneKind(S) == (\A s \in S : IsFn(s)) \/ (\A s \in S : ~IsFn(s))

LEMMA OneKindOffered ==
    ASSUME NEW t, NEW n, OneKind(Named(t, n))
    PROVE  Offered(t, n) = Named(t, n)
BY DEF OneKind, Offered

LEMMA ExportedOneKind ==
    ASSUME NEW t, NEW n PROVE OneKind(Exported(t, n)) /\ \A s \in Exported(t, n) : s.pub /\ s.name = n
BY DEF OneKind, Exported, Offered, Named

\* What exp says that the j-th `use` provides under the name.
LEMMA ProvidesNamed ==
    ASSUME NEW exp, NEW us, NEW tabs, NEW n, RightAbout(exp, us, tabs, n), NEW j \in 1..Len(us)
    PROVE  {s \in Provides(exp, us[j]) : s.name = n} = ByUse(us, tabs, j, n)
<1>1. {s \in exp[us[j].file] : s.name = n} = Exported(tabs[us[j].file], n)
  BY DEF RightAbout
<1>2. {s \in Provides(exp, us[j]) : s.name = n} =
        IF us[j].glob \/ n \in us[j].names THEN {s \in exp[us[j].file] : s.name = n} ELSE {}
  BY DEF Provides
<1> QED
  BY <1>1, <1>2 DEF ByUse

\* The own items and the first `use` of the name, if it is `pub`.
LEMMA ExportsByName ==
    ASSUME NEW f, NEW us \in Seq(Use), us = UsesOf(f), NEW exp, NEW tabs, NEW n,
           RightAbout(exp, us, tabs, n)
    PROVE  {s \in ExportsOf(exp, f) : s.name = n} =
             {s \in OwnNamed(f, n) : s.pub}
             \cup UNION {ByUse(us, tabs, i, n) :
                           i \in {i \in 1..Len(us) : us[i].pub /\ Unbound(us, tabs, i - 1, n)}}
<1> DEFINE G(i) == Provides(exp, us[i])
<1>1. \A i \in 1..Len(us) : {s \in G(i) : s.name = n} = ByUse(us, tabs, i, n)
  BY ProvidesNamed
<1>2. Len(us) \in Nat /\ DOMAIN us = 1..Len(us)
  BY LenProperties
<1>3. ASSUME NEW i \in 1..Len(us)
      PROVE  (\A j \in 1..(i - 1) : \A r \in G(j) : r.name # n) <=> Unbound(us, tabs, i - 1, n)
  <2>1. \A j \in 1..(i - 1) : j \in 1..Len(us)
    BY <1>2
  <2>2. \A j \in 1..(i - 1) : (\A r \in G(j) : r.name # n) <=> ByUse(us, tabs, j, n) = {}
    <3> SUFFICES ASSUME NEW j \in 1..(i - 1)
                 PROVE  (\A r \in G(j) : r.name # n) <=> ByUse(us, tabs, j, n) = {}
      OBVIOUS
    <3>1. {s \in G(j) : s.name = n} = ByUse(us, tabs, j, n)
      BY <1>1, <2>1
    <3> HIDE DEF G
    <3> QED
      BY <3>1
  <2> HIDE DEF G
  <2> QED
    BY <2>2 DEF Unbound
<1> DEFINE A == {i \in DOMAIN us : us[i].pub /\ \A j \in 1..(i - 1) : \A r \in G(j) : r.name # n}
           B == {i \in 1..Len(us) : us[i].pub /\ Unbound(us, tabs, i - 1, n)}
<1>4. A = B
  BY <1>2, <1>3
<1>5. {s \in ExportsOf(exp, f) : s.name = n} =
        {s \in OwnNamed(f, n) : s.pub} \cup {s \in UNION {G(i) : i \in A} : s.name = n}
  <2>1. ExportsOf(exp, f) =
          {s \in {prog.own[f][i] : i \in DOMAIN prog.own[f]} : s.pub}
          \cup UNION {{s \in G(i) : \A j \in 1..(i - 1) : s.name \notin {r.name : r \in G(j)}} :
                        i \in {i \in DOMAIN us : us[i].pub}}
    BY DEF ExportsOf
  <2> HIDE DEF G
  <2> QED
    BY <2>1 DEF OwnNamed
<1>6. {s \in UNION {G(i) : i \in B} : s.name = n} = UNION {ByUse(us, tabs, i, n) : i \in B}
  <2>1. \A i \in B : {s \in G(i) : s.name = n} = ByUse(us, tabs, i, n)
    BY <1>1
  <2> HIDE DEF G, B
  <2> QED
    BY <2>1
<1> HIDE DEF A, G
<1> QED
  BY <1>4, <1>5, <1>6

\* With no `use` of an inline module, the table ends with its own items added.
LEMMA FinalNamed ==
    ASSUME prog \in Program, NEW fr \in Frame, prog.locals[fr.file] = <<>>, NEW n
    PROVE  /\ Named(FinalTable(fr), n) = Named(fr.table, n) \cup OwnNamed(fr.file, n)
           /\ FinalTable(fr).origin = fr.table.origin
           /\ FinalTable(fr).reexports = fr.table.reexports
<1> DEFINE f == fr.file
           t == fr.table
           w == FinalTable(fr)
<1>1. prog.own[f] \in Seq(Symbol) /\ t \in Table
  BY DEF Program, Frame
<1>2. DOMAIN prog.own[f] = 1..Len(prog.own[f])
  BY <1>1, LenProperties
<1>3. OwnTable(fr) = [t EXCEPT !.syms = t.syms \cup {prog.own[f][i] : i \in 1..Len(prog.own[f])}]
  BY DEF OwnTable, DefineAll, DefineFirst
<1>4. LocalNames(f, Len(prog.locals[f])) = {}
  BY DEF LocalNames
<1>5. w = [OwnTable(fr) EXCEPT !.syms = OwnTable(fr).syms \cup {}]
  BY <1>4 DEF FinalTable, LocalTable, AliasAll
<1>6. w.syms = t.syms \cup {prog.own[f][i] : i \in DOMAIN prog.own[f]}
      /\ w.origin = t.origin /\ w.reexports = t.reexports
  BY <1>1, <1>2, <1>3, <1>5 DEF Table
<1> HIDE DEF w, f, t
<1>7. /\ Named(w, n) = Named(t, n) \cup OwnNamed(f, n)
      /\ w.origin = t.origin /\ w.reexports = t.reexports
  BY <1>6 DEF Named, OwnNamed
<1> QED
  BY <1>7 DEF w, f, t

\* The uses of the analyzer are behind it, exp is right about their files, and
\* the name is not both imported and defined.
Settled(fr, tabs, exp, n) ==
    /\ fr.file \in Files /\ prog.locals[fr.file] = <<>> /\ OneKindEach(prog, fr.file)
    /\ BoundIn(UsesOf(fr.file), tabs, Len(UsesOf(fr.file)), fr.table, n)
    /\ RightAbout(exp, UsesOf(fr.file), tabs, n)
    /\ OwnNamed(fr.file, n) = {} \/ Named(fr.table, n) = {}

LEMMA FinalExports ==
    ASSUME prog \in Program, NEW fr \in Frame, NEW tabs, NEW exp, NEW n \in Names,
           Settled(fr, tabs, exp, n)
    PROVE  Exported(FinalTable(fr), n) = {s \in ExportsOf(exp, fr.file) : s.name = n}
<1> DEFINE us == UsesOf(fr.file)
           f == fr.file
           t == fr.table
           w == FinalTable(fr)
           own == {s \in OwnNamed(f, n) : s.pub}
           B == {i \in 1..Len(us) : us[i].pub /\ Unbound(us, tabs, i - 1, n)}
<1>0. /\ BoundIn(us, tabs, Len(us), t, n) /\ RightAbout(exp, us, tabs, n)
      /\ f \in Files /\ prog.locals[f] = <<>> /\ OneKindEach(prog, f)
      /\ OwnNamed(f, n) = {} \/ Named(t, n) = {}
  BY DEF Settled
<1>1. /\ prog.own[f] \in Seq(Symbol) /\ us \in Seq(Use) /\ t \in Table
  BY <1>0 DEF Program, Modules, UsesOf, Frame
<1>2. Len(us) \in Nat /\ DOMAIN prog.own[f] = 1..Len(prog.own[f])
  BY <1>1, LenProperties
<1>3. {s \in ExportsOf(exp, f) : s.name = n} = own \cup UNION {ByUse(us, tabs, i, n) : i \in B}
  BY <1>0, <1>1, ExportsByName
<1>4. /\ Named(w, n) = Named(t, n) \cup OwnNamed(f, n)
      /\ w.origin = t.origin /\ w.reexports = t.reexports
  BY <1>0, FinalNamed
<1> HIDE DEF w, t, f, us
<1>5. CASE Named(t, n) = {}
  <2>1. t.origin[n] = NoFile /\ Unbound(us, tabs, Len(us), n)
    BY <1>0, <1>5 DEF BoundIn
  <2>2. \A i \in B : ByUse(us, tabs, i, n) = {}
    BY <2>1 DEF Unbound
  <2>3. Named(w, n) = OwnNamed(f, n) /\ Exportable(w, n)
    BY <1>4, <1>5, <2>1 DEF Exportable
  <2>4. OneKind(OwnNamed(f, n))
    BY <1>0 DEF OneKind, OwnNamed, OneKindEach
  <2>5. Offered(w, n) = OwnNamed(f, n)
    BY <2>3, <2>4, OneKindOffered
  <2>6. Exported(w, n) = own
    BY <2>3, <2>5 DEF Exported, Importable
  <2> HIDE DEF B, own
  <2> QED
    BY <1>3, <2>2, <2>6 DEF w, f
<1>6. CASE Named(t, n) # {}
  <2>1. OwnNamed(f, n) = {} /\ own = {}
    BY <1>0, <1>6
  <2>2. PICK i \in 1..Len(us) : /\ Unbound(us, tabs, i - 1, n)
                                /\ Named(t, n) = ByUse(us, tabs, i, n)
                                /\ t.origin[n] # NoFile
                                /\ n \in t.reexports <=> us[i].pub
    BY <1>0, <1>6 DEF BoundIn
  <2> DEFINE P == ByUse(us, tabs, i, n)
  <2>3. Named(w, n) = P /\ P # {} /\ (Exportable(w, n) <=> us[i].pub)
    BY <1>4, <1>6, <2>1, <2>2 DEF Exportable
  <2>4. OneKind(P) /\ \A s \in P : s.pub
    BY ExportedOneKind DEF ByUse, OneKind
  <2> HIDE DEF P
  <2>5. Offered(w, n) = P
    BY <2>3, <2>4, OneKindOffered
  <2>6. Exported(w, n) = IF us[i].pub THEN P ELSE {}
    BY <2>3, <2>4, <2>5 DEF Exported, Importable
  <2>7. UNION {ByUse(us, tabs, k, n) : k \in B} = IF us[i].pub THEN P ELSE {}
    <3>1. ASSUME NEW k \in B, ByUse(us, tabs, k, n) # {} PROVE k = i
      <4>1. k \in 1..Len(us) /\ Unbound(us, tabs, k - 1, n)
        OBVIOUS
      <4>2. ~(k < i)
        BY <1>2, <2>2, <3>1, <4>1 DEF Unbound
      <4>3. ~(i < k)
        BY <1>2, <2>3, <4>1 DEF Unbound, P
      <4> QED
        BY <1>2, <4>1, <4>2, <4>3
    <3>2. us[i].pub => i \in B
      BY <2>2
    <3>3. ~us[i].pub => i \notin B
      OBVIOUS
    <3>4. P = ByUse(us, tabs, i, n)
      BY DEF P
    <3> HIDE DEF B
    <3> QED
      BY <3>1, <3>2, <3>3, <3>4
  <2> QED
    BY <1>3, <2>1, <2>6, <2>7 DEF w, f
<1> QED
  BY <1>5, <1>6

-----------------------------------------------------------------------------
(* The invariant: a finished file exports what its source says, and each   *)
(* analyzer that found no error has taken every name from the first `use`  *)
(* that offers it.                                                         *)

Foreseen(fin, tabs, merged) ==
    \A f \in fin, n \in Names \ merged, k \in Cardinality(fin)..Cardinality(Files) :
        {s \in ExportsWithin[k][f] : s.name = n} = Exported(tabs[f], n)

FrameBound(fr, tabs) ==
    /\ fr.next - 1 <= Len(UsesOf(fr.file))
    /\ fr.errs = {} => \A n \in Names : BoundIn(UsesOf(fr.file), tabs, fr.next - 1, fr.table, n)

FramesBound(st, tabs) == \A i \in 1..Len(st) : FrameBound(st[i], tabs)

NInv ==
    /\ verdict = "running" => FramesBound(stack, cache)
    /\ Foreseen(Finished, cache, MergedNames)

LEMMA NewFrameBound ==
    ASSUME prog \in Program, NEW m \in Modules, NEW tabs
    PROVE  FrameBound(NewFrame(m), tabs)
<1>1. UsesOf(m) \in Seq(Use)
  BY DEF Program, UsesOf
<1>2. Len(UsesOf(m)) \in Nat
  BY <1>1, LenProperties
<1>3. NewFrame(m).next - 1 = 0 /\ NewFrame(m).file = m /\ NewFrame(m).table = NewTable
  BY DEF NewFrame
<1>4. \A n \in Names : BoundIn(UsesOf(m), tabs, 0, NewTable, n)
  BY DEF BoundIn, Unbound, Named, NewTable
<1> QED
  BY <1>2, <1>3, <1>4 DEF FrameBound

\* A `use` that ends in an error.
LEMMA RefuseBound ==
    ASSUME prog \in Program, NEW fr \in Frame, HasUse(fr), NEW es, es # {}, NEW tabs
    PROVE  FrameBound(Refuse(fr, es), tabs)
<1>1. /\ Refuse(fr, es).file = fr.file /\ Refuse(fr, es).next = fr.next + 1
      /\ Refuse(fr, es).errs = fr.errs \cup es
  BY DEF Refuse, Advance
<1>2. UsesOf(fr.file) \in Seq(Use) /\ fr.next \in Nat
  BY DEF Frame, Program, UsesOf
<1>3. Len(UsesOf(fr.file)) \in Nat /\ Refuse(fr, es).next - 1 = fr.next
  BY <1>1, <1>2, LenProperties
<1>4. Refuse(fr, es).errs # {}
  BY <1>1
<1> QED
  BY <1>1, <1>3, <1>4 DEF FrameBound, HasUse

\* A `use` of a finished file.
LEMMA BringBound ==
    ASSUME prog \in Program, NEW fr \in Frame, HasUse(fr), CurrentUse(fr) \in Use,
           CurrentUse(fr).file \in Files, NEW tabs, NEW from \in Table,
           tabs[CurrentUse(fr).file] = from, FrameBound(fr, tabs)
    PROVE  FrameBound(Bring(fr, from), tabs)
<1> DEFINE u == CurrentUse(fr)
           us == UsesOf(fr.file)
           x == Bring(fr, from)
           w == ImportUse(fr.table, from, u, u.file)
<1>1. /\ x.file = fr.file /\ x.next = fr.next + 1 /\ x.table = w
      /\ x.errs = {} => fr.errs = {} /\ Refused(fr.table, from, u) = {}
  BY DEF Bring, Advance
<1>2. /\ us \in Seq(Use) /\ fr.next \in Nat \ {0} /\ fr.table \in Table
  BY DEF Frame, Program, UsesOf
<1>3. /\ Len(us) \in Nat /\ x.next - 1 = fr.next /\ fr.next - 1 \in Nat
      /\ fr.next - 1 + 1 = fr.next
  BY <1>1, <1>2, LenProperties
<1>4. fr.next <= Len(us) /\ u = us[fr.next]
  BY DEF HasUse, CurrentUse
<1> HIDE DEF x, w, us, u
<1>5. ASSUME x.errs = {}, NEW n \in Names
      PROVE  BoundIn(us, tabs, fr.next, w, n)
  <2>1. BoundIn(us, tabs, fr.next - 1, fr.table, n) /\ Refused(fr.table, from, u) = {}
    BY <1>1, <1>5 DEF FrameBound, us
  <2> DEFINE k == fr.next - 1
  <2>2. k \in Nat /\ k + 1 = fr.next /\ u = us[k + 1] /\ BoundIn(us, tabs, k, fr.table, n)
    BY <1>3, <1>4, <2>1
  <2> HIDE DEF k
  <2>3. u \in Use /\ u.file \in Files /\ from = tabs[u.file]
    BY DEF u
  <2>4. BoundIn(us, tabs, k + 1, ImportUse(fr.table, from, u, u.file), n)
    BY <1>2, <2>1, <2>2, <2>3, BringBinds
  <2> QED
    BY <2>2, <2>4 DEF w
<1> QED
  BY <1>1, <1>3, <1>4, <1>5 DEF FrameBound, us, x

LEMMA BoundReplace ==
    ASSUME IInv, NEW x \in Frame, SetTop(x), NEW tabs,
           FramesBound(stack, tabs), FrameBound(x, tabs)
    PROVE  FramesBound(stack', tabs)
<1>1. /\ Len(stack) \in Nat \ {0} /\ Len(stack') = Len(stack)
      /\ stack'[Len(stack)] = x
      /\ \A i \in 1..(Len(stack) - 1) : stack'[i] = stack[i]
  BY ReplaceShape
<1>2. \A i \in 1..Len(stack) : i = Len(stack) \/ i \in 1..(Len(stack) - 1)
  BY <1>1
<1> QED
  BY <1>1, <1>2 DEF FramesBound

LEMMA BoundPop ==
    ASSUME IInv, Depth > 0, NEW x \in Frame, NEW tabs,
           stack' = Append(SubSeq(Below, 1, Len(Below) - 1), x),
           FramesBound(stack, tabs), FrameBound(x, tabs)
    PROVE  FramesBound(stack', tabs)
<1>1. /\ Len(stack) \in Nat /\ Len(stack) > 1 /\ Len(stack') = Len(stack) - 1
      /\ stack'[Len(stack) - 1] = x
      /\ \A i \in 1..(Len(stack) - 2) : stack'[i] = stack[i]
  BY PopShape
<1>2. \A i \in 1..(Len(stack) - 1) :
          i \in 1..Len(stack) /\ (i = Len(stack) - 1 \/ i \in 1..(Len(stack) - 2))
  BY <1>1
<1> QED
  BY <1>1, <1>2 DEF FramesBound

LEMMA UseStepBound ==
    ASSUME IInv, NInv, UseStep
    PROVE  FramesBound(stack', cache)
<1>0. /\ Top \in Frame /\ Len(stack) \in 1..Len(stack) /\ Top = stack[Len(stack)]
      /\ FramesBound(stack, cache) /\ prog \in Program /\ HasUse(Top)
  BY TopFacts DEF IInv, TypeOK, NInv, Top, UseStep, UseMissing, UseCyclic, UseCached, UseGarbled
<1>1. FrameBound(Top, cache)
  BY <1>0 DEF FramesBound
<1>2. ASSUME NEW k \in ErrorKinds, SetTop(Refuse(Top, {Error(k, Top)}))
      PROVE  FramesBound(stack', cache)
  <2> DEFINE es == {Error(k, Top)}
             x == Refuse(Top, es)
  <2>1. x \in Frame /\ SetTop(x) /\ es # {}
    BY <1>0, <1>2, ErrorType, RefuseType
  <2> HIDE DEF es
  <2>2. FrameBound(x, cache)
    BY <1>0, <2>1, RefuseBound
  <2> HIDE DEF x
  <2> QED
    BY <1>0, <2>1, <2>2, BoundReplace
<1>3. CASE UseMissing
  BY <1>2, <1>3 DEF UseMissing, ErrorKinds
<1>4. CASE UseCyclic
  BY <1>2, <1>4 DEF UseCyclic, ErrorKinds
<1>5. CASE UseGarbled
  BY <1>2, <1>5 DEF UseGarbled, ErrorKinds
<1>6. CASE UseCached
  <2> DEFINE u == CurrentUse(Top)
             from == cache[u.file]
             x == Bring(Top, from)
  <2>1. Admit(u) /\ u.file \in Finished /\ SetTop(x)
    BY <1>6 DEF UseCached, Cached
  <2>2. u \in Use /\ u.file \in Files /\ from \in Table
    BY <1>0, <2>1, UseFacts, AdmitKeeps DEF IInv, TypeOK, Finished
  <2>3. x \in Frame
    BY <1>0, <2>2, BringType
  <2>4. cache[u.file] = from
    OBVIOUS
  <2> HIDE DEF from
  <2>5. FrameBound(x, cache)
    BY <1>0, <1>1, <2>2, <2>4, BringBound
  <2> HIDE DEF x
  <2> QED
    BY <1>0, <2>1, <2>3, <2>5, BoundReplace
<1> QED
  BY <1>3, <1>4, <1>5, <1>6 DEF UseStep

LEMMA EnterBound ==
    ASSUME IInv, NInv, EnterModule
    PROVE  FramesBound(stack', cache)
<1> DEFINE m == CurrentUse(Top).file
           x == NewFrame(m)
<1>1. x \in Frame /\ stack' = Append(stack, x) /\ m \in Modules
  <2>1. HasUse(Top) /\ Admit(CurrentUse(Top))
    BY DEF EnterModule
  <2> QED
    BY <2>1, EnterShape, AdmitKeeps DEF Modules
<1>2. FrameBound(x, cache)
  <2> HIDE DEF m
  <2> QED
    BY <1>1, NewFrameBound DEF IInv, TypeOK
<1> HIDE DEF x
<1>3. /\ Len(stack) \in Nat /\ Len(stack') = Len(stack) + 1
      /\ stack'[Len(stack) + 1] = x
      /\ \A i \in 1..Len(stack) : stack'[i] = stack[i]
  BY <1>1, PushShape
<1>4. FramesBound(stack, cache)
  BY DEF NInv, EnterModule
<1>5. \A i \in 1..(Len(stack) + 1) : i = Len(stack) + 1 \/ i \in 1..Len(stack)
  BY <1>3
<1> QED
  BY <1>2, <1>3, <1>4, <1>5 DEF FramesBound

LEMMA FailBound ==
    ASSUME IInv, NInv, FailModule
    PROVE  FramesBound(stack', cache)
<1> DEFINE es == LowerErrors(Top)
           x == Refuse(Parent, es)
<1>1. /\ Depth > 0 /\ Top \in Frame /\ verdict = "running" /\ es # {}
      /\ stack' = Append(SubSeq(Below, 1, Len(Below) - 1), x)
  BY TopFacts DEF IInv, FailModule, AtEnd
<1>2. Parent \in Frame /\ es \in SUBSET ErrorRec /\ HasUse(Parent)
  BY <1>1, ParentFacts, LowerErrorsType
<1> HIDE DEF es
<1>3. x \in Frame /\ FrameBound(x, cache)
  BY <1>1, <1>2, RefuseType, RefuseBound DEF IInv, TypeOK
<1> HIDE DEF x
<1>4. FramesBound(stack, cache)
  BY <1>1 DEF NInv
<1> QED
  BY <1>1, <1>3, <1>4, BoundPop

\* What holds when the innermost analyzer finishes its file.
Finishing(f, t, fin) ==
    /\ Depth > 0 /\ verdict = "running" /\ prog' = prog
    /\ Top \in Frame /\ Top.file = f /\ f \in Files /\ f \notin Finished
    /\ Top.errs = {} /\ ~HasUse(Top) /\ t = FinalTable(Top) /\ t \in Table
    /\ fin = Finished \cup {f} /\ Finished' = fin /\ fin \in SUBSET Files
    /\ \A g \in Finished : cache'[g] = cache[g]
    /\ cache'[f] = t
    /\ stack' = Append(SubSeq(Below, 1, Len(Below) - 1), Bring(Parent, t))
    /\ MergedNames \subseteq MergedNames'

LEMMA FinishFacts ==
    ASSUME IInv, FinishModule
    PROVE  Finishing(Top.file, FinalTable(Top), Finished \cup {Top.file})
<1> DEFINE f == Top.file
           t == FinalTable(Top)
           fin == Finished \cup {f}
<1>1. /\ Depth > 0 /\ verdict = "running" /\ LowerErrors(Top) = {} /\ ~HasUse(Top) /\ prog' = prog
      /\ stack' = Append(SubSeq(Below, 1, Len(Below) - 1), Bring(Parent, t))
      /\ cache' = [g \in fin |-> IF g = f THEN t ELSE cache[g]]
  BY DEF FinishModule, AtEnd
<1>2. f \in Files
  BY <1>1, ParentFacts
<1>3. Top \in Frame /\ Top = stack[Len(stack)] /\ t \in Table
  BY TopFacts, AnalyzedTableType DEF IInv, TypeOK, Top
<1>4. f \notin Finished /\ fin \in SUBSET Files /\ Finished' = fin
  <2>1. f \notin Finished
    BY <1>2, <1>3, TopFacts DEF IInv, AnalyzedOnce
  <2> QED
    BY <1>1, <1>2, <2>1 DEF IInv, TypeOK, Finished
<1>5. (\A g \in Finished : cache'[g] = cache[g]) /\ cache'[f] = t
  BY <1>1, <1>4
<1>6. MergedNames \subseteq MergedNames'
  BY <1>4, <1>5 DEF MergedNames
<1>7. Top.errs = {}
  BY <1>1 DEF LowerErrors, PassErrors
<1> QED
  BY <1>1, <1>2, <1>3, <1>4, <1>5, <1>6, <1>7 DEF Finishing

\* The analyzers go on with the tables of the next state.
LEMMA FinishBound ==
    ASSUME IInv, NInv, NEW f, NEW t, NEW fin, Finishing(f, t, fin)
    PROVE  FramesBound(stack', cache')
<1> DEFINE x == Bring(Parent, t)
           tabs == cache'
<1>1. /\ Len(stack) \in Nat /\ Len(stack) > 1
      /\ Parent \in Frame /\ Parent = stack[Len(stack) - 1] /\ HasUse(Parent)
      /\ CurrentUse(Parent) \in Use /\ CurrentUse(Parent).file = f /\ f \in Files
  BY ParentFacts DEF Finishing
<1>2. FramesBound(stack, tabs)
  <2> SUFFICES ASSUME NEW i \in 1..Len(stack) PROVE FrameBound(stack[i], tabs)
    BY DEF FramesBound
  <2> DEFINE fr == stack[i]
             us == UsesOf(fr.file)
             k == fr.next - 1
  <2>1. FrameBound(fr, cache)
    BY DEF NInv, FramesBound, Finishing
  <2>2. fr \in Frame
    BY TopFacts DEF IInv
  <2>3. k \in Nat
    BY <2>2 DEF Frame
  <2>4. ASSUME fr.errs = {}, NEW n \in Names PROVE BoundIn(us, tabs, k, fr.table, n)
    <3>1. \A j \in 1..k : us[j].file \in Finished
      BY <2>4 DEF IInv, Provided, UsesOf
    <3>2. \A j \in 1..k : tabs[us[j].file] = cache[us[j].file]
      BY <3>1 DEF Finishing
    <3>3. BoundIn(us, cache, k, fr.table, n)
      BY <2>1, <2>4 DEF FrameBound
    <3> HIDE DEF tabs, us, k, fr
    <3> QED
      BY <2>3, <3>2, <3>3, BoundInElsewhere
  <2> QED
    BY <2>1, <2>4 DEF FrameBound
<1>3. t \in Table /\ tabs[f] = t /\ Depth > 0
      /\ stack' = Append(SubSeq(Below, 1, Len(Below) - 1), x)
  BY DEF Finishing
<1> HIDE DEF tabs
<1>4. FrameBound(Parent, tabs)
  <2>1. Len(stack) - 1 \in 1..Len(stack)
    BY <1>1
  <2> QED
    BY <1>1, <1>2, <2>1 DEF FramesBound
<1>5. FrameBound(x, tabs)
  BY <1>1, <1>3, <1>4, BringBound DEF IInv, TypeOK
<1>6. x \in Frame
  BY <1>1, <1>3, BringType
<1> HIDE DEF x
<1>7. FramesBound(stack', tabs)
  BY <1>2, <1>3, <1>5, <1>6, BoundPop
<1> QED
  BY <1>7 DEF tabs

\* A name that no table merges is the file's own or imported, not both.
LEMMA OwnOrImported ==
    ASSUME IInv, TInv, PlainFiles, NEW f, NEW t, NEW fin, Finishing(f, t, fin),
           NEW n \in Names \ MergedNames'
    PROVE  OwnNamed(f, n) = {} \/ Named(Top.table, n) = {}
<1>1. prog \in Program /\ prog \in Programs /\ Top \in Frame /\ Top.file = f /\ f \in Files
      /\ verdict = "running" /\ t = FinalTable(Top)
  BY DEF Finishing, IInv, TypeOK, TInv
<1>2. Named(t, n) = Named(Top.table, n) \cup OwnNamed(f, n)
  BY <1>1, FinalNamed DEF PlainFiles
<1>3. \A s, r \in Named(t, n) : s.home = r.home
  <2>1. f \in Finished' /\ cache'[f] = t
    BY DEF Finishing
  <2> QED
    BY <2>1 DEF MergedNames
<1>4. \A s \in OwnNamed(f, n) : s.home = f
  BY <1>1, ItemsAreAtHome DEF OwnNamed, Modules
<1>5. \A s \in Named(Top.table, n) : s.home # f
  <2>1. Len(stack) \in 1..Len(stack) /\ Top = stack[Len(stack)]
    BY TopFacts DEF IInv, Top
  <2>2. FrameIn(Top, Finished, linked, MergedNames)
    BY <1>1, <2>1 DEF TInv, FramesIn
  <2> QED
    BY <1>1, <2>2 DEF FrameIn, Named
<1>6. ASSUME NEW s \in OwnNamed(f, n), NEW r \in Named(Top.table, n) PROVE FALSE
  <2>1. s.home = f /\ r.home # f /\ s \in Named(t, n) /\ r \in Named(t, n)
    BY <1>2, <1>4, <1>5
  <2> QED
    BY <1>3, <2>1
<1> QED
  BY <1>6

\* The finished files export what their sources say.
LEMMA FinishForeseen ==
    ASSUME IInv, TInv, NInv, PlainFiles, IsFiniteSet(Files),
           NEW f, NEW t, NEW fin, Finishing(f, t, fin)
    PROVE  Foreseen(fin, cache', MergedNames')
<1> DEFINE N == Cardinality(Files)
           c == Cardinality(Finished)
           us == UsesOf(f)
<1>1. /\ prog \in Program /\ prog \in Programs /\ Top \in Frame /\ Top.file = f /\ f \in Files
      /\ t = FinalTable(Top) /\ fin = Finished \cup {f} /\ f \notin Finished /\ Finished \in SUBSET Files
      /\ MergedNames \subseteq MergedNames' /\ cache'[f] = t
      /\ \A g \in Finished : cache'[g] = cache[g]
  BY DEF Finishing, IInv, TypeOK, TInv
<1>2. N \in Nat /\ c \in Nat /\ Cardinality(fin) = c + 1
  <2>1. IsFiniteSet(Finished)
    BY <1>1, FS_Subset
  <2> QED
    BY <1>1, <2>1, FS_CardinalityType, FS_AddElement
<1> HIDE DEF N, c
<1>3. /\ us \in Seq(Use) /\ Len(us) \in Nat /\ Top.next - 1 = Len(us)
      /\ \A n \in Names : BoundIn(us, cache, Len(us), Top.table, n)
      /\ \A j \in 1..Len(us) : us[j].file \in Finished
  <2>1. us \in Seq(Use)
    BY <1>1 DEF Program, Modules, UsesOf
  <2>2. Len(us) \in Nat
    BY <2>1, LenProperties
  <2>3. Len(stack) \in 1..Len(stack) /\ Top = stack[Len(stack)]
    BY TopFacts DEF IInv, Top
  <2>4. FrameBound(Top, cache)
    BY <2>3 DEF NInv, FramesBound, Finishing
  <2>5. Top.next \in Nat /\ ~(Top.next <= Len(us)) /\ Top.next - 1 <= Len(us)
    BY <1>1, <2>4 DEF Frame, Finishing, HasUse, FrameBound
  <2>6. Top.next - 1 = Len(us)
    BY <2>2, <2>5
  <2>7. Top.errs = {}
    BY DEF Finishing
  <2>8. \A n \in Names : BoundIn(us, cache, Len(us), Top.table, n)
    BY <1>1, <2>4, <2>6, <2>7 DEF FrameBound
  <2>9. \A j \in 1..Len(us) : us[j].file \in Finished
    BY <1>1, <2>3, <2>6, <2>7 DEF IInv, Provided, UsesOf
  <2> QED
    BY <2>1, <2>2, <2>6, <2>8, <2>9
<1> HIDE DEF us
<1>4. ASSUME NEW g \in Finished, NEW n \in Names \ MergedNames', NEW k \in c..N
      PROVE  {s \in ExportsWithin[k][g] : s.name = n} = Exported(cache[g], n)
  BY <1>1, <1>4 DEF NInv, Foreseen, N, c
<1>5. ASSUME NEW n \in Names \ MergedNames', NEW k \in (c + 1)..N
      PROVE  {s \in ExportsWithin[k][f] : s.name = n} = Exported(t, n)
  <2> DEFINE exp == ExportsWithin[k - 1]
  <2>1. k \in 1..N /\ k - 1 \in c..N
    BY <1>2
  <2>2. ExportsWithin[k][f] = ExportsOf(exp, f)
    BY <1>1, <2>1, ExportsUnfold DEF N
  <2>3. RightAbout(exp, us, cache, n)
    BY <1>3, <1>4, <2>1 DEF RightAbout
  <2>4. OwnNamed(f, n) = {} \/ Named(Top.table, n) = {}
    BY OwnOrImported
  <2>5. us = UsesOf(Top.file) /\ BoundIn(us, cache, Len(us), Top.table, n)
        /\ prog.locals[Top.file] = <<>> /\ OneKindEach(prog, Top.file)
    BY <1>1, <1>3 DEF us, PlainFiles
  <2> HIDE DEF exp
  <2>6. Exported(FinalTable(Top), n) = {s \in ExportsOf(exp, Top.file) : s.name = n}
    <3>1. prog \in Program /\ Top \in Frame /\ n \in Names
      BY <1>1
    <3>2. Settled(Top, cache, exp, n)
      BY <1>1, <2>3, <2>4, <2>5 DEF Settled
    <3> QED
      BY <3>1, <3>2, FinalExports
  <2> QED
    BY <1>1, <2>2, <2>6
<1>6. SUFFICES ASSUME NEW g \in fin, NEW n \in Names \ MergedNames', NEW k \in (c + 1)..N
               PROVE  {s \in ExportsWithin[k][g] : s.name = n} = Exported(cache'[g], n)
  BY <1>2 DEF Foreseen, N
<1>7. CASE g = f
  BY <1>1, <1>5, <1>7
<1>8. CASE g # f
  <2>1. g \in Finished /\ k \in c..N
    BY <1>1, <1>2, <1>8
  <2> QED
    BY <1>1, <1>4, <2>1
<1> QED
  BY <1>7, <1>8

LEMMA NInvInit == Init => NInv
<1> SUFFICES ASSUME Init PROVE NInv
  OBVIOUS
<1>1. stack = <<NewFrame(Root)>> /\ Finished = {} /\ prog \in Program
  BY ProgramsAreTyped DEF Init, Finished
<1>2. FrameBound(NewFrame(Root), cache)
  BY <1>1, NewFrameBound DEF Modules
<1>3. FramesBound(stack, cache)
  BY <1>1, <1>2 DEF FramesBound
<1> QED
  BY <1>1, <1>3 DEF NInv, Foreseen

LEMMA NInvStep ==
    ASSUME IsFiniteSet(Files), PlainFiles
    PROVE  IInv /\ TInv /\ NInv /\ [Next]_vars => NInv'
<1> SUFFICES ASSUME IInv, TInv, NInv, [Next]_vars PROVE NInv'
  OBVIOUS
<1>0. prog' = prog
  BY DEF Next, UseMissing, UseCyclic, UseCached, UseGarbled, EnterModule,
         FailModule, FinishModule, FinishEntry, vars
<1>1. ExportsWithin' = ExportsWithin
  BY <1>0 DEF ExportsWithin, ExportsOf, Provides, UsesOf
<1>2. SUFFICES /\ verdict' = "running" => FramesBound(stack', cache')
               /\ Foreseen(Finished', cache', MergedNames')
  BY <1>0, <1>1 DEF NInv, FramesBound, FrameBound, Foreseen, UsesOf
<1>3. CASE UNCHANGED vars
  BY <1>3 DEF vars, NInv, MergedNames, Finished
<1>4. CASE Next
  <2>1. CASE FinishModule
    <3>1. Finishing(Top.file, FinalTable(Top), Finished \cup {Top.file})
      BY <2>1, FinishFacts
    <3>2. Finished' = Finished \cup {Top.file}
      BY <3>1 DEF Finishing
    <3> QED
      BY <3>1, <3>2, FinishBound, FinishForeseen
  <2>2. CASE ~FinishModule
    <3>1. cache' = cache
      BY <1>4, <2>2 DEF Next, UseMissing, UseCyclic, UseCached, UseGarbled, EnterModule,
                        FailModule, FinishEntry
    <3>2. Finished' = Finished /\ MergedNames' = MergedNames
      BY <3>1 DEF Finished, MergedNames
    <3>3. Foreseen(Finished, cache, MergedNames)
      BY DEF NInv
    <3>4. verdict' = "running" => FramesBound(stack', cache)
      BY <1>4, <2>2, UseStepBound, EnterBound, FailBound DEF Next, UseStep, FinishEntry
    <3> QED
      BY <3>1, <3>2, <3>3, <3>4
  <2> QED
    BY <2>1, <2>2
<1> QED
  BY <1>3, <1>4

\* A finished file exports what its source says, and nothing else: its own
\* public items, and of each name that a `pub use` asks for the items that
\* the first `use` of the name brought.  Neither the order in which the
\* files were met, nor the cache, nor a long chain of re-exports adds or
\* hides a name that no table merged.
THEOREM ExportsAreThoseOfTheSource ==
    ASSUME IsFiniteSet(Files), PlainFiles
    PROVE  Spec => []ExportsMatchSource
<1>1. ASSUME IInv, NInv PROVE ExportsMatchSource
  <2> SUFFICES ASSUME NEW f \in Finished
               PROVE  {s \in UNION {Offered(cache[f], n) :
                                       n \in PublicNames(cache[f]) \ MergedNames} : s.pub}
                        = {s \in ExportsWithin[Cardinality(Files)][f] : s.name \notin MergedNames}
    BY DEF ExportsMatchSource
  <2> DEFINE t == cache[f]
             exp == ExportsWithin[Cardinality(Files)][f]
  <2>1. Cardinality(Files) \in Cardinality(Finished)..Cardinality(Files)
    <3>1. Finished \in SUBSET Files
      BY <1>1 DEF IInv, TypeOK, Finished
    <3> QED
      BY <3>1, FS_Subset, FS_CardinalityType
  <2>2. \A n \in Names \ MergedNames : {s \in exp : s.name = n} = Exported(t, n)
    BY <1>1, <2>1 DEF NInv, Foreseen
  <2>3. \A s \in exp : s.name \in Names
    <3>1. prog \in Program /\ Cardinality(Files) \in Nat /\ f \in Files
      BY <1>1, FS_CardinalityType DEF IInv, TypeOK, Finished
    <3> QED
      BY <3>1, ExportsTyped DEF Symbol
  <2>4. \A n : \A s \in Offered(t, n) : s.name = n /\ s \in Named(t, n)
    BY DEF Offered, Named
  <2>5. \A n \in Names : \A s \in Offered(t, n) :
           s.pub /\ n \in PublicNames(t) <=> s \in Exported(t, n)
    BY <2>4 DEF PublicNames, Public, Exported, Importable
  <2>6. \A n \in Names : Exported(t, n) \subseteq Offered(t, n)
    BY DEF Exported
  <2>7. PublicNames(t) \subseteq Names
    BY DEF PublicNames
  <2> HIDE DEF t, exp
  <2>8. {s \in UNION {Offered(t, n) : n \in PublicNames(t) \ MergedNames} : s.pub}
          = {s \in exp : s.name \notin MergedNames}
    <3>1. ASSUME NEW n \in PublicNames(t) \ MergedNames, NEW s \in Offered(t, n), s.pub
          PROVE  s \in exp /\ s.name \notin MergedNames
      BY <2>2, <2>4, <2>5, <2>7, <3>1
    <3>2. ASSUME NEW s \in exp, s.name \notin MergedNames
          PROVE  s.pub /\ s.name \in PublicNames(t) /\ s \in Offered(t, s.name)
      BY <2>2, <2>3, <2>5, <2>6, <3>2
    <3> QED
      BY <3>1, <3>2
  <2> QED
    BY <2>8 DEF t, exp
<1> QED
  BY <1>1, Invariance, OInvInit, OInvStep, TInvInit, TInvStep, NInvInit, NInvStep, PTL DEF Spec

=============================================================================
