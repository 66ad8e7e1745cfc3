------------------------ MODULE ImportAnalysisProofs ------------------------
(***************************************************************************)
(* Proofs about ImportAnalysis, for every set of files, every program over *)
(* them and every order in which the programs write their `use`s:          *)
(*   - the type invariant;                                                 *)
(*   - the import graph stays acyclic, and no file is analyzed while its   *)
(*     own analysis still runs, or after it finished;                      *)
(*   - the analysis implements ModuleBuild.                                *)
(* `Reaches` is defined by closed sets, so a path is never taken apart:    *)
(* that two nodes are not connected is shown by one closed set between     *)
(* them, and no induction over paths is needed.                            *)
(***************************************************************************)
EXTENDS ImportAnalysis, SequenceTheorems, TLAPS

-----------------------------------------------------------------------------
(* The stack of analyzers. *)

\* The innermost frame is replaced.
LEMMA ReplaceTop ==
    ASSUME NEW S, NEW s \in Seq(S), s # <<>>, NEW x \in S
    PROVE  LET t == Append(SubSeq(s, 1, Len(s) - 1), x)
           IN  /\ t \in Seq(S) /\ t # <<>>
               /\ Len(t) = Len(s)
               /\ t[Len(s)] = x
               /\ \A i \in 1..(Len(s) - 1) : t[i] = s[i]
<1> DEFINE r == SubSeq(s, 1, Len(s) - 1)
<1>1. Len(s) \in Nat \ {0}
  BY EmptySeq
<1>2. \A i \in 1..(Len(s) - 1) : s[i] \in S
  BY <1>1, ElementOfSeq
<1>3. /\ r \in Seq(S)
      /\ Len(r) = Len(s) - 1
      /\ \A i \in 1..(Len(s) - 1) : r[i] = s[i]
  <2> DEFINE n == Len(s) - 1
  <2>1. n \in Nat /\ 1 \in Int
    BY <1>1
  <2> HIDE DEF n
  <2>2. /\ SubSeq(s, 1, n) \in Seq(S)
        /\ Len(SubSeq(s, 1, n)) = IF 1 <= n THEN n - 1 + 1 ELSE 0
        /\ \A i \in 1..(n - 1 + 1) : SubSeq(s, 1, n)[i] = s[1 + i - 1]
    BY <1>2, <2>1, SubSeqProperties DEF n
  <2>3. n - 1 + 1 = n /\ (\A i \in 1..n : 1 + i - 1 = i)
    BY <2>1
  <2>4. IF 1 <= n THEN n - 1 + 1 = n ELSE n = 0
    BY <2>1
  <2>5. /\ SubSeq(s, 1, n) \in Seq(S)
        /\ Len(SubSeq(s, 1, n)) = n
        /\ \A i \in 1..n : SubSeq(s, 1, n)[i] = s[i]
    BY <2>2, <2>3, <2>4
  <2> QED
    BY <2>5 DEF n
<1> HIDE DEF r
<1>4. /\ Append(r, x) \in Seq(S)
      /\ Len(Append(r, x)) = Len(s)
      /\ Append(r, x)[Len(s)] = x
      /\ \A i \in 1..(Len(s) - 1) : Append(r, x)[i] = r[i]
  BY <1>1, <1>3
<1>5. Append(r, x) # <<>>
  BY <1>1, <1>4
<1> QED
  BY <1>3, <1>4, <1>5 DEF r

\* The innermost frame is popped, and the one below it replaced.
LEMMA PopTop ==
    ASSUME NEW S, NEW s \in Seq(S), Len(s) > 1, NEW x \in S
    PROVE  LET b == SubSeq(s, 1, Len(s) - 1)
               t == Append(SubSeq(b, 1, Len(b) - 1), x)
           IN  /\ t \in Seq(S) /\ t # <<>>
               /\ Len(t) = Len(s) - 1
               /\ t[Len(s) - 1] = x
               /\ \A i \in 1..(Len(s) - 2) : t[i] = s[i]
<1> DEFINE b == SubSeq(s, 1, Len(s) - 1)
<1>1. Len(s) \in Nat
  BY LenProperties
<1>2. \A i \in 1..(Len(s) - 1) : s[i] \in S
  BY <1>1, ElementOfSeq
<1>3. /\ b \in Seq(S)
      /\ Len(b) = Len(s) - 1
      /\ \A i \in 1..(Len(s) - 1) : b[i] = s[i]
  BY <1>1, <1>2, SubSeqProperties
<1> HIDE DEF b
<1>4. b # <<>>
  BY <1>1, <1>3
<1>5. LET t == Append(SubSeq(b, 1, Len(b) - 1), x)
      IN  /\ t \in Seq(S) /\ t # <<>>
          /\ Len(t) = Len(b)
          /\ t[Len(b)] = x
          /\ \A i \in 1..(Len(b) - 1) : t[i] = b[i]
  BY <1>3, <1>4, ReplaceTop
<1>6. \A i \in 1..(Len(s) - 2) : b[i] = s[i] /\ i \in 1..(Len(b) - 1)
  BY <1>1, <1>3
<1> QED
  BY <1>1, <1>3, <1>5, <1>6 DEF b

-----------------------------------------------------------------------------
(* Reachability. *)

\* A node reaches itself, and the end of its edges.
LEMMA ReachesSelf ==
    ASSUME NEW E, NEW m PROVE Reaches(E, m, m)
BY DEF Reaches

LEMMA ReachesEdge ==
    ASSUME NEW E, NEW m, NEW f, <<m, f>> \in E PROVE Reaches(E, m, f)
BY DEF Reaches, Closed

LEMMA ReachesTransitive ==
    ASSUME NEW E, NEW m, NEW f, NEW g, Reaches(E, m, f), Reaches(E, f, g)
    PROVE  Reaches(E, m, g)
BY DEF Reaches

LEMMA ReachesMonotone ==
    ASSUME NEW E, NEW F, E \subseteq F, NEW m, NEW f, Reaches(E, m, f)
    PROVE  Reaches(F, m, f)
BY DEF Reaches, Closed

\* An edge that closes no cycle leaves an acyclic graph acyclic.
Acyclic(E) == \A e \in E : ~Reaches(E, e[2], e[1])

LEMMA AcyclicExtended ==
    ASSUME NEW E, Acyclic(E), NEW m, NEW f, ~Reaches(E, f, m)
    PROVE  Acyclic(E \cup {<<m, f>>})
<1> DEFINE F == E \cup {<<m, f>>}
<1>1. PICK S \in SUBSET Modules : f \in S /\ Closed(E, S) /\ m \notin S
  BY DEF Reaches
<1>2. Closed(F, S)
  BY <1>1 DEF Closed
<1>3. SUFFICES ASSUME NEW e \in F PROVE ~Reaches(F, e[2], e[1])
  BY DEF Acyclic
<1>4. CASE e = <<m, f>>
  BY <1>1, <1>2, <1>4 DEF Reaches
<1>5. CASE e \in E
  <2>1. PICK T \in SUBSET Modules : e[2] \in T /\ Closed(E, T) /\ e[1] \notin T
    BY <1>5 DEF Acyclic, Reaches
  <2>2. CASE m \notin T
    <3>1. Closed(F, T)
      BY <2>1, <2>2 DEF Closed
    <3> QED
      BY <2>1, <3>1 DEF Reaches
  <2>3. CASE m \in T /\ e[1] \notin S
    <3>1. Closed(F, S \cup T)
      BY <1>1, <2>1, <2>3 DEF Closed
    <3> QED
      BY <2>1, <2>3, <3>1 DEF Reaches
  <2>4. CASE m \in T /\ e[1] \in S
    <3>1. Closed(F, S \cap T)
      BY <1>1, <2>1 DEF Closed
    <3>2. e[2] \in S \cap T
      BY <1>1, <1>5, <2>1, <2>4 DEF Closed
    <3> QED
      BY <2>1, <3>1, <3>2 DEF Reaches
  <2> QED
    BY <2>2, <2>3, <2>4
<1> QED
  BY <1>3, <1>4, <1>5

-----------------------------------------------------------------------------
(* Types of the operators. *)

LEMMA ImportUseType ==
    ASSUME NEW t \in Table, NEW from \in Table, NEW u \in Use, NEW f \in Files
    PROVE  ImportUse(t, from, u, f) \in Table
<1>1. Wanted(t, from, u) \subseteq Names
  BY DEF Wanted, PublicNames, Use
<1>2. Brought(t, from, u) \subseteq Names
  BY <1>1 DEF Brought
<1>3. \A n : Offered(from, n) \subseteq Symbol
  BY DEF Offered, Named, Table
<1>4. \A n \in Names : OriginOf(from, n, f) \in Files \cup {NoFile}
  BY DEF OriginOf, Table
<1> QED
  BY <1>1, <1>2, <1>3, <1>4 DEF ImportUse, Table

LEMMA AnalyzedTableType ==
    ASSUME prog \in Program, NEW fr \in Frame
    PROVE  FinalTable(fr) \in Table
<1>1. /\ prog.own[fr.file] \in Seq(Symbol)
      /\ prog.inner[fr.file] \in SUBSET Symbol
      /\ fr.table \in Table
  BY DEF Program, Frame
<1>2. {prog.own[fr.file][i] : i \in 1..Len(prog.own[fr.file])} \subseteq Symbol
  BY <1>1
<1>3. OwnTable(fr) \in Table
  BY <1>1, <1>2 DEF OwnTable, DefineAll, DefineFirst, Table
<1> QED
  BY <1>1, <1>3 DEF FinalTable, LocalTable, AliasAll, Table

LEMMA ErrorType ==
    ASSUME NEW fr \in Frame, NEW k \in ErrorKinds
    PROVE  Error(k, fr) \in ErrorRec
BY DEF Error, ErrorRec, Frame

LEMMA AdvanceType ==
    ASSUME NEW fr \in Frame, NEW es \in SUBSET ErrorRec, NEW t \in Table
    PROVE  /\ Advance(fr, es, t) \in Frame
           /\ Advance(fr, es, t).file = fr.file
           /\ Advance(fr, es, t).next = fr.next + 1
           /\ Advance(fr, es, t).errs = fr.errs \cup es
<1>1. Advance(fr, es, t) \in Frame
  BY DEF Advance, Frame
<1> QED
  BY <1>1 DEF Advance

LEMMA RefuseType ==
    ASSUME NEW fr \in Frame, NEW es \in SUBSET ErrorRec
    PROVE  /\ Refuse(fr, es) \in Frame
           /\ Refuse(fr, es).file = fr.file
           /\ Refuse(fr, es).next = fr.next + 1
           /\ Refuse(fr, es).errs = fr.errs \cup es
<1>1. fr.table \in Table
  BY DEF Frame
<1> QED
  BY <1>1, AdvanceType DEF Refuse

LEMMA BringType ==
    ASSUME NEW fr \in Frame, NEW from \in Table,
           CurrentUse(fr) \in Use, CurrentUse(fr).file \in Files
    PROVE  /\ Bring(fr, from) \in Frame
           /\ Bring(fr, from).file = fr.file
           /\ Bring(fr, from).next = fr.next + 1
           /\ fr.errs \subseteq Bring(fr, from).errs
<1> DEFINE u == CurrentUse(fr)
           tb == ImportUse(fr.table, from, u, u.file)
           es == IF Refused(fr.table, from, u) = {} THEN {}
                 ELSE {Error("ImportRefused", fr)}
<1>1. tb \in Table
  BY ImportUseType DEF Frame
<1>2. es \in SUBSET ErrorRec
  BY ErrorType DEF ErrorKinds
<1>3. Bring(fr, from) = Advance(fr, es, tb)
  BY DEF Bring
<1> HIDE DEF tb, es
<1>4. /\ Advance(fr, es, tb) \in Frame
      /\ Advance(fr, es, tb).file = fr.file
      /\ Advance(fr, es, tb).next = fr.next + 1
      /\ Advance(fr, es, tb).errs = fr.errs \cup es
  BY ONLY <1>1, <1>2, fr \in Frame, AdvanceType
<1> QED
  BY <1>3, <1>4

LEMMA LowerErrorsType ==
    ASSUME NEW fr \in Frame
    PROVE  LowerErrors(fr) \in SUBSET ErrorRec
<1>1. fr.errs \in SUBSET ErrorRec /\ fr.file \in Modules
  BY DEF Frame
<1>2. [kind |-> "InternalError", mod |-> fr.file, use |-> 0] \in ErrorRec
  BY <1>1 DEF ErrorRec, ErrorKinds
<1>3. [kind : {"AmbiguousModulePath", "OwnError"}, mod : {fr.file}, use : {0}]
        \subseteq ErrorRec
  BY <1>1 DEF ErrorRec, ErrorKinds
<1>4. PassErrors(fr) \in SUBSET ErrorRec
  BY <1>1, <1>3 DEF PassErrors
<1> QED
  BY <1>2, <1>4 DEF LowerErrors

LEMMA ItemsType ==
    ASSUME prog \in Program, NEW m \in Modules, NEW t \in Table,
           linked \in [DOMAIN linked -> SUBSET Symbol], Missing(t) = {}
    PROVE  ItemsOf(m, t) \in SUBSET Symbol
<1>1. prog.own[m] \in Seq(Symbol) /\ prog.inner[m] \in SUBSET Symbol
  BY DEF Program
<1>2. {prog.own[m][i] : i \in DOMAIN prog.own[m]} \subseteq Symbol
  BY <1>1
<1>3. UNION {linked[f] : f \in Deps(t)} \subseteq Symbol
  BY DEF Missing
<1> QED
  BY <1>1, <1>2, <1>3 DEF ItemsOf

\* Registering a file keeps the two lists in step.
LEMMA RegisterType ==
    ASSUME order \in Seq(Files), logical \in Seq(Paths), Len(logical) = Len(order),
           NEW u \in Use, u.file \in Files, Register(u)
    PROVE  order' \in Seq(Files) /\ logical' \in Seq(Paths) /\ Len(logical') = Len(order')
<1>1. u.path \in Paths
  BY DEF Use
<1>2. CASE Known(u)
  <2>1. order' = order
    BY <1>2 DEF Register
  <2>2. logical' = [i \in DOMAIN logical |->
                      IF order[i] = u.file /\ InEntry THEN u.path ELSE logical[i]]
    BY <1>2 DEF Register
  <2>3. Len(logical) \in Nat /\ DOMAIN logical = 1..Len(logical)
    BY LenProperties
  <2>4. logical' \in [1..Len(logical) -> Paths]
    BY <1>1, <2>2, <2>3
  <2>5. logical' \in Seq(Paths)
    BY <2>3, <2>4 
  <2>6. Len(logical') = Len(logical)
    BY <2>2, <2>3, <2>5, LenProperties
  <2> QED
    BY <2>1, <2>5, <2>6
<1>3. CASE ~Known(u)
  BY <1>1, <1>3, SMTT(30) DEF Register
<1> QED
  BY <1>2, <1>3

-----------------------------------------------------------------------------
(* The stack is a path of the import graph. *)

\* `uses` are the program's uses, `st` the stack and E the import edges: each
\* analyzer but the innermost waits for the file that its current `use`
\* names, over an edge of the graph, and the innermost is in reach of all.
Links(uses, st, E) ==
    /\ st[1].file = Root
    /\ \A i \in 1..(Len(st) - 1) :
          LET u == uses[st[i].file][st[i].next]
          IN  /\ st[i].next <= Len(uses[st[i].file])
              /\ u.file = st[i + 1].file
              /\ u.file \in Files
              /\ <<st[i].file, u.file>> \in E
    /\ \A i, j \in 1..Len(st) : i <= j => Reaches(E, st[i].file, st[j].file)

\* The innermost frame moves on.
LEMMA LinksReplace ==
    ASSUME NEW uses, NEW s \in Seq(Frame), s # <<>>, NEW E, NEW F, E \subseteq F,
           NEW x \in Frame, x.file = s[Len(s)].file, Links(uses, s, E)
    PROVE  Links(uses, Append(SubSeq(s, 1, Len(s) - 1), x), F)
<1> DEFINE t == Append(SubSeq(s, 1, Len(s) - 1), x)
<1>1. /\ Len(t) = Len(s) /\ t[Len(s)] = x
      /\ \A i \in 1..(Len(s) - 1) : t[i] = s[i]
      /\ Len(s) \in Nat \ {0}
  BY ReplaceTop, EmptySeq
<1> HIDE DEF t
<1>2. \A i \in 1..Len(s) : t[i].file = s[i].file
  BY <1>1
<1>3. t[1].file = Root
  BY <1>1, <1>2 DEF Links
<1>4. ASSUME NEW i \in 1..(Len(t) - 1)
      PROVE  LET u == uses[t[i].file][t[i].next]
             IN  /\ t[i].next <= Len(uses[t[i].file])
                 /\ u.file = t[i + 1].file
                 /\ u.file \in Files
                 /\ <<t[i].file, u.file>> \in F
  <2>1. t[i] = s[i] /\ i \in 1..(Len(s) - 1) /\ i + 1 \in 1..Len(s)
    BY <1>1
  <2> QED
    BY <1>2, <2>1 DEF Links
<1>5. ASSUME NEW i \in 1..Len(t), NEW j \in 1..Len(t), i <= j
      PROVE  Reaches(F, t[i].file, t[j].file)
  <2>1. Reaches(E, s[i].file, s[j].file)
    BY <1>1, <1>5 DEF Links
  <2> QED
    BY <1>1, <1>2, <2>1, ReachesMonotone
<1> QED
  BY <1>3, <1>4, <1>5 DEF Links, t

\* A new analyzer starts for the current `use` of the innermost frame.
LEMMA LinksPush ==
    ASSUME NEW uses, NEW s \in Seq(Frame), s # <<>>, NEW E, NEW F, E \subseteq F,
           NEW x \in Frame, x.file \in Files, Links(uses, s, E),
           s[Len(s)].next <= Len(uses[s[Len(s)].file]),
           uses[s[Len(s)].file][s[Len(s)].next].file = x.file,
           <<s[Len(s)].file, x.file>> \in F
    PROVE  Links(uses, Append(s, x), F)
<1> DEFINE t == Append(s, x)
<1>1. /\ Len(t) = Len(s) + 1 /\ t[Len(s) + 1] = x
      /\ \A i \in 1..Len(s) : t[i] = s[i]
      /\ Len(s) \in Nat \ {0}
  BY EmptySeq
<1> HIDE DEF t
<1>2. t[1].file = Root
  <2>1. s[1].file = Root
    BY DEF Links
  <2>2. 1 \in 1..Len(s)
    BY <1>1
  <2>3. QED
    BY <1>1, <2>1, <2>2
<1>3. ASSUME NEW i \in 1..(Len(t) - 1)
      PROVE  LET u == uses[t[i].file][t[i].next]
             IN  /\ t[i].next <= Len(uses[t[i].file])
                 /\ u.file = t[i + 1].file
                 /\ u.file \in Files
                 /\ <<t[i].file, u.file>> \in F
  <2>1. CASE i = Len(s)
    <3>1. t[i] = s[Len(s)] /\ t[i + 1] = x
      BY <1>1, <2>1
    <3> QED
      BY <2>1, <3>1
  <2>2. CASE i \in 1..(Len(s) - 1)
    <3>1. t[i] = s[i] /\ t[i + 1] = s[i + 1]
      BY <1>1, <2>2
    <3> QED
      BY <2>2, <3>1 DEF Links
  <2> QED
    BY <1>1, <2>1, <2>2
<1>4. ASSUME NEW i \in 1..Len(t), NEW j \in 1..Len(t), i <= j
      PROVE  Reaches(F, t[i].file, t[j].file)
  <2>1. CASE j \in 1..Len(s)
    <3>1. i \in 1..Len(s)
      BY <1>1, <1>4, <2>1
    <3>2. Reaches(E, s[i].file, s[j].file)
      BY <1>4, <2>1, <3>1 DEF Links
    <3> QED
      BY <1>1, <2>1, <3>1, <3>2, ReachesMonotone
  <2>2. CASE i = Len(s) + 1 /\ j = Len(s) + 1
    BY <2>2, ReachesSelf
  <2>3. CASE i \in 1..Len(s) /\ j = Len(s) + 1
    <3>1. Len(s) \in 1..Len(s) /\ i <= Len(s)
      BY <1>1, <2>3
    <3>4. Reaches(E, s[i].file, s[Len(s)].file)
      BY <2>3, <3>1 DEF Links
    <3>2. Reaches(F, s[i].file, s[Len(s)].file)
      BY <3>4, ReachesMonotone
    <3>3. Reaches(F, s[Len(s)].file, x.file)
      BY ReachesEdge
    <3> QED
      BY <1>1, <2>3, <3>2, <3>3, ReachesTransitive
  <2> QED
    BY <1>1, <1>4, <2>1, <2>2, <2>3
<1> QED
  BY <1>2, <1>3, <1>4 DEF Links, t

\* The innermost analyzer ends, and the one below moves on.
LEMMA LinksPop ==
    ASSUME NEW uses, NEW s \in Seq(Frame), Len(s) > 1, NEW E,
           NEW x \in Frame, x.file = s[Len(s) - 1].file, Links(uses, s, E)
    PROVE  LET b == SubSeq(s, 1, Len(s) - 1)
           IN  Links(uses, Append(SubSeq(b, 1, Len(b) - 1), x), E)
<1> DEFINE b == SubSeq(s, 1, Len(s) - 1)
<1>1. Len(s) \in Nat
  BY LenProperties
<1>2. \A i \in 1..(Len(s) - 1) : s[i] \in Frame
  BY <1>1, ElementOfSeq
<1>3. /\ b \in Seq(Frame)
      /\ Len(b) = Len(s) - 1
      /\ \A i \in 1..(Len(s) - 1) : b[i] = s[i]
  BY <1>1, <1>2, SubSeqProperties
<1> HIDE DEF b
<1>4. b # <<>> /\ x.file = b[Len(b)].file
  BY <1>1, <1>3
<1>5. b[1].file = Root
  BY <1>1, <1>3 DEF Links
<1>6. ASSUME NEW i \in 1..(Len(b) - 1)
      PROVE  LET u == uses[b[i].file][b[i].next]
             IN  /\ b[i].next <= Len(uses[b[i].file])
                 /\ u.file = b[i + 1].file
                 /\ u.file \in Files
                 /\ <<b[i].file, u.file>> \in E
  <2>1. b[i] = s[i] /\ b[i + 1] = s[i + 1] /\ i \in 1..(Len(s) - 1)
    BY <1>1, <1>3
  <2> QED
    BY <2>1 DEF Links
<1>7. \A i, j \in 1..Len(b) : i <= j => Reaches(E, b[i].file, b[j].file)
  BY <1>1, <1>3 DEF Links
<1>8. Links(uses, b, E)
  BY <1>5, <1>6, <1>7 DEF Links
<1>9. Links(uses, Append(SubSeq(b, 1, Len(b) - 1), x), E)
  BY <1>3, <1>4, <1>8, LinksReplace
<1> QED
  BY <1>9 DEF b

-----------------------------------------------------------------------------
(* The inductive invariant. *)

\* An analyzer without an error has every file that its earlier uses name.
Provided(uses, st, fin) ==
    \A i \in 1..Len(st) : st[i].errs = {} =>
        \A k \in 1..(st[i].next - 1) : uses[st[i].file][k].file \in fin

IInv ==
    /\ TypeOK
    /\ Links(prog.uses, stack, edges)
    /\ Acyclic(edges)
    /\ AnalyzedOnce
    /\ Provided(prog.uses, stack, Finished)

LEMMA TopFacts ==
    ASSUME TypeOK
    PROVE  /\ Len(stack) \in Nat \ {0}
           /\ DOMAIN stack = 1..Len(stack)
           /\ \A i \in 1..Len(stack) : stack[i] \in Frame
           /\ Top \in Frame /\ Top.file \in Modules /\ Top.next \in Nat \ {0}
           /\ Top.errs \in SUBSET ErrorRec /\ Top.table \in Table
<1>1. stack \in Seq(Frame) /\ stack # <<>>
  BY DEF TypeOK
<1>2. /\ Len(stack) \in Nat \ {0}
      /\ DOMAIN stack = 1..Len(stack)
      /\ \A i \in 1..Len(stack) : stack[i] \in Frame
  BY <1>1, EmptySeq, LenProperties, ElementOfSeq
<1>3. Top \in Frame
  BY <1>2 DEF Top
<1> QED
  BY <1>2, <1>3 DEF Frame

LEMMA UseFacts ==
    ASSUME prog \in Program, NEW fr \in Frame, HasUse(fr)
    PROVE  CurrentUse(fr) \in Use /\ CurrentUse(fr).file \in Files \cup {NoFile}
<1>1. fr.file \in Modules /\ fr.next \in Nat \ {0}
  BY DEF Frame
<1>2. prog.uses[fr.file] \in Seq(Use)
  BY <1>1 DEF Program
<1>3. fr.next \in 1..Len(prog.uses[fr.file])
  BY <1>1, <1>2, LenProperties DEF HasUse, UsesOf
<1>4. CurrentUse(fr) \in Use
  BY <1>2, <1>3, ElementOfSeq DEF CurrentUse, UsesOf
<1> QED
  BY <1>4 DEF Use

\* A step that moves the innermost analyzer past a `use`, whose file is
\* finished unless the step reports an error.
LEMMA SetTopKeeps ==
    ASSUME IInv, HasUse(Top), NEW x \in Frame, SetTop(x),
           x.file = Top.file, x.next = Top.next + 1, Top.errs \subseteq x.errs,
           x.errs = {} => CurrentUse(Top).file \in Finished,
           edges \subseteq edges', UNCHANGED <<prog, cache>>
    PROVE  /\ stack' \in Seq(Frame) /\ stack' # <<>>
           /\ Links(prog.uses, stack, edges)'
           /\ AnalyzedOnce'
           /\ Provided(prog.uses, stack, Finished)'
<1>1. /\ Len(stack) \in Nat \ {0} /\ Top.next \in Nat \ {0}
      /\ stack \in Seq(Frame) /\ stack # <<>>
  BY TopFacts DEF IInv, TypeOK
<1>2. /\ stack' \in Seq(Frame) /\ stack' # <<>>
      /\ Len(stack') = Len(stack) /\ stack'[Len(stack)] = x
      /\ \A i \in 1..(Len(stack) - 1) : stack'[i] = stack[i]
  BY <1>1, ReplaceTop DEF SetTop, Below
<1>3. Links(prog.uses, stack, edges)'
  BY <1>1, LinksReplace DEF IInv, SetTop, Below, Top
<1>4. \A i \in 1..Len(stack) : stack'[i].file = stack[i].file
  BY <1>1, <1>2 DEF Top
<1>5. DOMAIN stack = 1..Len(stack) /\ DOMAIN stack' = 1..Len(stack)
  BY <1>1, <1>2, LenProperties
<1>6. AnalyzedOnce'
  BY <1>4, <1>5 DEF IInv, AnalyzedOnce, Finished
<1>7. Finished' = Finished
  BY DEF Finished
<1>8. ASSUME NEW i \in 1..Len(stack), stack'[i].errs = {},
             NEW k \in 1..(stack'[i].next - 1)
      PROVE  prog.uses[stack'[i].file][k].file \in Finished
  <2>1. CASE i = Len(stack)
    <3>1. x.errs = {} /\ Top.errs = {}
      BY <1>2, <1>8, <2>1
    <3>2. CASE k = Top.next
      BY <1>1, <1>2, <2>1, <3>1, <3>2 DEF CurrentUse, UsesOf
    <3>3. CASE k \in 1..(Top.next - 1)
      BY <1>1, <1>2, <2>1, <3>1, <3>3 DEF IInv, Provided, Top
    <3>4. k \in 1..Top.next
      BY <1>1, <1>2, <1>8, <2>1
    <3> QED
      BY <1>1, <3>2, <3>3, <3>4
  <2>2. CASE i \in 1..(Len(stack) - 1)
    BY <1>1, <1>2, <1>8, <2>2 DEF IInv, Provided
  <2> QED
    BY <1>1, <2>1, <2>2
<1>9. Provided(prog.uses, stack, Finished)'
  BY <1>2, <1>7, <1>8 DEF Provided
<1> QED
  BY <1>2, <1>3, <1>6, <1>9

\* The admission of an import keeps the types of what it changes.
LEMMA AdmitKeeps ==
    ASSUME IInv, HasUse(Top), Admit(CurrentUse(Top))
    PROVE  /\ CurrentUse(Top).file \in Files
           /\ edges' = edges \cup {<<Top.file, CurrentUse(Top).file>>}
           /\ edges' \in SUBSET (Modules \X Files)
           /\ Acyclic(edges')
           /\ order' \in Seq(Files)
           /\ logical' \in Seq(Paths) /\ Len(logical') = Len(order')
<1>1. prog \in Program /\ Top \in Frame /\ Top.file \in Modules
  BY TopFacts DEF IInv, TypeOK
<1>2. CurrentUse(Top) \in Use /\ CurrentUse(Top).file \in Files
  BY <1>1, UseFacts DEF Admit
<1>3. edges' = edges \cup {<<Top.file, CurrentUse(Top).file>>}
  BY DEF Admit
<1>4. edges' \in SUBSET (Modules \X Files)
  BY <1>1, <1>2, <1>3 DEF IInv, TypeOK
<1>5. Acyclic(edges')
  BY <1>3, AcyclicExtended DEF IInv, Admit, WouldCycle
<1>6. order' \in Seq(Files) /\ logical' \in Seq(Paths) /\ Len(logical') = Len(order')
  BY <1>2, RegisterType DEF IInv, TypeOK, Admit
<1> QED
  BY <1>2, <1>3, <1>4, <1>5, <1>6

LEMMA UseMissingKeeps ==
    ASSUME IInv, UseMissing PROVE IInv'
<1>1. HasUse(Top) /\ Top \in Frame /\ Error("ModuleNotFound", Top) \in ErrorRec
  BY TopFacts, ErrorType DEF IInv, UseMissing, ErrorKinds
<1> DEFINE x == Refuse(Top, {Error("ModuleNotFound", Top)})
<1>2. /\ x \in Frame /\ x.file = Top.file /\ x.next = Top.next + 1
      /\ Top.errs \subseteq x.errs /\ x.errs # {}
  BY <1>1, RefuseType
<1>3. SetTop(x) /\ UNCHANGED <<prog, edges, order, logical, cache, linked, verdict, entry>>
  BY DEF UseMissing
<1> HIDE DEF x
<1>4. /\ stack' \in Seq(Frame) /\ stack' # <<>>
      /\ Links(prog.uses, stack, edges)' /\ AnalyzedOnce'
      /\ Provided(prog.uses, stack, Finished)'
  BY <1>1, <1>2, <1>3, SetTopKeeps
<1>5. TypeOK'
  BY <1>3, <1>4 DEF IInv, TypeOK
<1>6. Acyclic(edges)'
  BY <1>3 DEF IInv
<1> QED
  BY <1>4, <1>5, <1>6 DEF IInv

LEMMA UseCyclicKeeps ==
    ASSUME IInv, UseCyclic PROVE IInv'
<1>1. HasUse(Top) /\ Top \in Frame /\ Error("CircularImport", Top) \in ErrorRec
  BY TopFacts, ErrorType DEF IInv, UseCyclic, ErrorKinds
<1> DEFINE x == Refuse(Top, {Error("CircularImport", Top)})
<1>2. /\ x \in Frame /\ x.file = Top.file /\ x.next = Top.next + 1
      /\ Top.errs \subseteq x.errs /\ x.errs # {}
  BY <1>1, RefuseType
<1>3. SetTop(x) /\ UNCHANGED <<prog, edges, cache, linked, verdict, entry>>
  BY DEF UseCyclic
<1> HIDE DEF x
<1>4. /\ stack' \in Seq(Frame) /\ stack' # <<>>
      /\ Links(prog.uses, stack, edges)' /\ AnalyzedOnce'
      /\ Provided(prog.uses, stack, Finished)'
  BY <1>1, <1>2, <1>3, SetTopKeeps
<1>5. CurrentUse(Top) \in Use /\ CurrentUse(Top).file \in Files
  BY <1>1, UseFacts DEF IInv, TypeOK, UseCyclic
<1>6. order' \in Seq(Files) /\ logical' \in Seq(Paths) /\ Len(logical') = Len(order')
  BY <1>5, RegisterType DEF IInv, TypeOK, UseCyclic
<1>7. TypeOK'
  BY <1>3, <1>4, <1>6 DEF IInv, TypeOK
<1>8. Acyclic(edges)'
  BY <1>3 DEF IInv
<1> QED
  BY <1>4, <1>7, <1>8 DEF IInv

LEMMA UseCachedKeeps ==
    ASSUME IInv, UseCached PROVE IInv'
<1> DEFINE u == CurrentUse(Top)
           x == Bring(Top, cache[u.file])
<1>1. /\ HasUse(Top) /\ Top \in Frame /\ Admit(u) /\ u.file \in Finished
      /\ SetTop(x) /\ UNCHANGED <<prog, cache, linked, verdict, entry>>
  BY TopFacts DEF IInv, UseCached, Cached
<1>2. u \in Use /\ u.file \in Files
  BY <1>1, UseFacts, AdmitKeeps DEF IInv, TypeOK
<1>3. cache[u.file] \in Table
  BY <1>1 DEF IInv, TypeOK, Finished
<1>4. /\ x \in Frame /\ x.file = Top.file /\ x.next = Top.next + 1
      /\ Top.errs \subseteq x.errs
  BY <1>1, <1>2, <1>3, BringType
<1> HIDE DEF x
<1>5. /\ edges \subseteq edges' /\ edges' \in SUBSET (Modules \X Files)
      /\ Acyclic(edges') /\ order' \in Seq(Files)
      /\ logical' \in Seq(Paths) /\ Len(logical') = Len(order')
  BY <1>1, AdmitKeeps
<1>6. /\ stack' \in Seq(Frame) /\ stack' # <<>>
      /\ Links(prog.uses, stack, edges)' /\ AnalyzedOnce'
      /\ Provided(prog.uses, stack, Finished)'
  BY <1>1, <1>4, <1>5, SetTopKeeps
<1>7. TypeOK'
  BY <1>1, <1>5, <1>6 DEF IInv, TypeOK
<1> QED
  BY <1>5, <1>6, <1>7 DEF IInv

LEMMA UseGarbledKeeps ==
    ASSUME IInv, UseGarbled PROVE IInv'
<1>1. /\ HasUse(Top) /\ Top \in Frame /\ Error("ParseError", Top) \in ErrorRec
      /\ Admit(CurrentUse(Top)) /\ UNCHANGED <<prog, cache, linked, verdict, entry>>
  BY TopFacts, ErrorType DEF IInv, UseGarbled, ErrorKinds
<1> DEFINE x == Refuse(Top, {Error("ParseError", Top)})
<1>2. /\ x \in Frame /\ x.file = Top.file /\ x.next = Top.next + 1
      /\ Top.errs \subseteq x.errs /\ x.errs # {}
  BY <1>1, RefuseType
<1>3. SetTop(x)
  BY DEF UseGarbled
<1> HIDE DEF x
<1>4. /\ edges \subseteq edges' /\ edges' \in SUBSET (Modules \X Files)
      /\ Acyclic(edges') /\ order' \in Seq(Files)
      /\ logical' \in Seq(Paths) /\ Len(logical') = Len(order')
  BY <1>1, AdmitKeeps
<1>5. /\ stack' \in Seq(Frame) /\ stack' # <<>>
      /\ Links(prog.uses, stack, edges)' /\ AnalyzedOnce'
      /\ Provided(prog.uses, stack, Finished)'
  BY <1>1, <1>2, <1>3, <1>4, SetTopKeeps
<1>6. TypeOK'
  BY <1>1, <1>4, <1>5 DEF IInv, TypeOK
<1> QED
  BY <1>4, <1>5, <1>6 DEF IInv

LEMMA EnterModuleKeeps ==
    ASSUME IInv, EnterModule PROVE IInv'
<1> DEFINE u == CurrentUse(Top)
           x == NewFrame(u.file)
<1>1. /\ HasUse(Top) /\ Top \in Frame /\ Admit(u) /\ u.file \notin Finished
      /\ stack' = Append(stack, x)
      /\ UNCHANGED <<prog, cache, linked, verdict, entry>>
  BY TopFacts DEF IInv, EnterModule, Cached
<1>2. u.file \in Files
  BY <1>1, AdmitKeeps
<1>3. NewTable \in Table
  BY DEF NewTable, Table
<1>4. x \in Frame /\ x.file = u.file /\ x.next = 1 /\ x.errs = {}
  BY <1>2, <1>3 DEF NewFrame, Frame, Modules
<1>5. /\ edges' = edges \cup {<<Top.file, u.file>>}
      /\ edges' \in SUBSET (Modules \X Files)
      /\ Acyclic(edges') /\ order' \in Seq(Files)
      /\ logical' \in Seq(Paths) /\ Len(logical') = Len(order')
  BY <1>1, AdmitKeeps
<1>6. Top.next <= Len(prog.uses[Top.file]) /\ prog.uses[Top.file][Top.next].file = x.file
  BY <1>1, <1>4 DEF HasUse, UsesOf, CurrentUse
<1> HIDE DEF u, x
<1>7. stack \in Seq(Frame) /\ stack # <<>> /\ Len(stack) \in Nat \ {0}
  BY TopFacts DEF IInv, TypeOK
<1>8. /\ stack' \in Seq(Frame) /\ stack' # <<>> /\ Len(stack') = Len(stack) + 1
      /\ stack'[Len(stack) + 1] = x
      /\ \A i \in 1..Len(stack) : stack'[i] = stack[i]
  BY <1>1, <1>4, <1>7
<1>9. Links(prog.uses, stack, edges)'
  <2>1. edges \subseteq edges' /\ <<stack[Len(stack)].file, x.file>> \in edges'
    BY <1>4, <1>5 DEF Top
  <2>2. Links(prog.uses, Append(stack, x), edges')
    BY <1>2, <1>4, <1>6, <1>7, <2>1, LinksPush DEF IInv, Top
  <2> QED
    BY <1>1, <2>2
<1>10. AnalyzedOnce'
  <2>1. DOMAIN stack' = 1..(Len(stack) + 1) /\ DOMAIN stack = 1..Len(stack)
    BY <1>7, <1>8, LenProperties
  <2>2. Finished' = Finished
    BY <1>1 DEF Finished
  <2>3. ASSUME NEW i \in 1..(Len(stack) + 1) PROVE stack'[i].file \notin Finished
    <3>1. CASE i = Len(stack) + 1
      BY <1>1, <1>4, <1>8, <3>1
    <3>2. CASE i \in 1..Len(stack)
      BY <1>8, <2>1, <3>2 DEF IInv, AnalyzedOnce
    <3> QED
      BY <1>7, <3>1, <3>2
  <2> QED
    BY <2>1, <2>2, <2>3 DEF AnalyzedOnce
<1>11. Provided(prog.uses, stack, Finished)'
  <2>1. Finished' = Finished
    BY <1>1 DEF Finished
  <2>2. ASSUME NEW i \in 1..Len(stack'), stack'[i].errs = {},
               NEW k \in 1..(stack'[i].next - 1)
        PROVE  prog.uses[stack'[i].file][k].file \in Finished
    <3>1. CASE i = Len(stack) + 1
      BY <1>4, <1>8, <2>2, <3>1
    <3>2. CASE i \in 1..Len(stack)
      BY <1>8, <2>2, <3>2 DEF IInv, Provided
    <3> QED
      BY <1>7, <1>8, <3>1, <3>2
  <2> QED
    BY <1>1, <2>1, <2>2 DEF Provided
<1>12. TypeOK'
  BY <1>1, <1>5, <1>8 DEF IInv, TypeOK
<1> QED
  BY <1>5, <1>9, <1>10, <1>11, <1>12 DEF IInv

\* The analyzer below the innermost one waits for it.
LEMMA ParentFacts ==
    ASSUME IInv, Depth > 0
    PROVE  /\ Len(stack) > 1 /\ Len(stack) \in Nat
           /\ Parent \in Frame /\ Parent = stack[Len(stack) - 1]
           /\ HasUse(Parent) /\ CurrentUse(Parent) \in Use
           /\ CurrentUse(Parent).file = Top.file
           /\ Top.file \in Files
<1>1. Len(stack) \in Nat /\ Len(stack) > 1
  BY TopFacts DEF IInv, Depth
<1>2. Parent \in Frame /\ Parent = stack[Len(stack) - 1]
  BY <1>1, TopFacts DEF IInv, Parent
<1>3. Len(stack) - 1 \in 1..(Len(stack) - 1) /\ (Len(stack) - 1) + 1 = Len(stack)
  BY <1>1
<1>4. /\ Parent.next <= Len(prog.uses[Parent.file])
      /\ prog.uses[Parent.file][Parent.next].file = Top.file
      /\ Top.file \in Files
  BY <1>2, <1>3 DEF IInv, Links, Top
<1>5. HasUse(Parent) /\ CurrentUse(Parent).file = Top.file
  BY <1>4 DEF HasUse, CurrentUse, UsesOf
<1> QED
  BY <1>1, <1>2, <1>4, <1>5, UseFacts DEF IInv, TypeOK

\* A step that ends the innermost analyzer and moves the one below past its
\* `use`, with an error or with the file finished.
LEMMA PopKeeps ==
    ASSUME IInv, Depth > 0, NEW x \in Frame, NEW fin,
           stack' = Append(SubSeq(Below, 1, Len(Below) - 1), x),
           x.file = Parent.file, x.next = Parent.next + 1, Parent.errs \subseteq x.errs,
           x.errs = {} => Top.file \in fin,
           Finished \subseteq fin, fin \subseteq Finished \cup {Top.file}
    PROVE  /\ stack' \in Seq(Frame) /\ stack' # <<>>
           /\ Links(prog.uses, stack', edges)
           /\ \A i \in DOMAIN stack' : stack'[i].file \notin fin
           /\ Provided(prog.uses, stack', fin)
<1>1. /\ Len(stack) > 1 /\ Len(stack) \in Nat /\ stack \in Seq(Frame)
      /\ Parent \in Frame /\ Parent = stack[Len(stack) - 1]
      /\ CurrentUse(Parent).file = Top.file
  BY ParentFacts DEF IInv, TypeOK
<1>2. /\ stack' \in Seq(Frame) /\ stack' # <<>>
      /\ Len(stack') = Len(stack) - 1 /\ stack'[Len(stack) - 1] = x
      /\ \A i \in 1..(Len(stack) - 2) : stack'[i] = stack[i]
  BY <1>1, PopTop DEF Below
<1>3. Links(prog.uses, stack', edges)
  BY <1>1, LinksPop DEF IInv, Below
<1>0. Len(stack) \in Nat /\ Len(stack) > 1
  BY <1>1
<1>4. ASSUME NEW i \in 1..(Len(stack) - 1) PROVE stack'[i].file = stack[i].file
  <2>1. CASE i = Len(stack) - 1
    BY <1>1, <1>2, <2>1
  <2>2. CASE i \in 1..(Len(stack) - 2)
    BY <1>2, <2>2
  <2>3. i = Len(stack) - 1 \/ i \in 1..(Len(stack) - 2)
    BY <1>0
  <2> QED
    BY <2>1, <2>2, <2>3
<1>5. DOMAIN stack' = 1..(Len(stack) - 1) /\ DOMAIN stack = 1..Len(stack)
  BY <1>1, <1>2, LenProperties
<1>6. ASSUME NEW i \in 1..(Len(stack) - 1) PROVE stack[i].file # Top.file
  <2>1. <<stack[i].file, stack[i + 1].file>> \in edges
    BY DEF IInv, Links
  <2>2. i + 1 \in 1..Len(stack) /\ Len(stack) \in 1..Len(stack) /\ i + 1 <= Len(stack)
    BY <1>1
  <2>3. Reaches(edges, stack[i + 1].file, stack[Len(stack)].file)
    BY <2>2 DEF IInv, Links
  <2>4. ~Reaches(edges, stack[i + 1].file, stack[i].file)
    BY <2>1 DEF IInv, Acyclic
  <2> QED
    BY <2>3, <2>4 DEF Top
<1>7. ASSUME NEW i \in DOMAIN stack' PROVE stack'[i].file \notin fin
  <2>0. i \in 1..(Len(stack) - 1)
    BY <1>5
  <2>1. i \in 1..(Len(stack) - 1) /\ i \in DOMAIN stack
    <3>1. i \in 1..Len(stack)
      BY <1>0, <2>0
    <3> QED
      BY <1>5, <2>0, <3>1
  <2>2. stack[i].file \notin Finished
    BY <2>1 DEF IInv, AnalyzedOnce
  <2> QED
    BY <1>4, <1>6, <2>1, <2>2
<1>8. ASSUME NEW i \in 1..Len(stack'), stack'[i].errs = {},
             NEW k \in 1..(stack'[i].next - 1)
      PROVE  prog.uses[stack'[i].file][k].file \in fin
  <2>1. CASE i = Len(stack) - 1
    <3>1. x.errs = {} /\ Parent.errs = {} /\ Parent.next \in Nat
      BY <1>1, <1>2, <1>8, <2>1 DEF Frame
    <3>2. CASE k = Parent.next
      <4>1. prog.uses[Parent.file][Parent.next].file = Top.file
        BY <1>1 DEF CurrentUse, UsesOf
      <4>2. Top.file \in fin
        BY <3>1
      <4> QED
        BY <1>2, <2>1, <3>2, <4>1, <4>2
    <3>3. CASE k \in 1..(Parent.next - 1)
      <4>1. Len(stack) - 1 \in 1..Len(stack)
        BY <1>1
      <4>2. prog.uses[Parent.file][k].file \in Finished
        BY <1>1, <3>1, <3>3, <4>1 DEF IInv, Provided
      <4> QED
        BY <1>2, <2>1, <4>2
    <3>4. k \in 1..Parent.next
      BY <1>2, <1>8, <2>1, <3>1
    <3>5. \A n \in Nat : k \in 1..n => k = n \/ k \in 1..(n - 1)
      OBVIOUS
    <3>6. k = Parent.next \/ k \in 1..(Parent.next - 1)
      BY <3>1, <3>4, <3>5
    <3> QED
      BY <3>2, <3>3, <3>6
  <2>2. CASE i \in 1..(Len(stack) - 2)
    <3>1. stack'[i] = stack[i] /\ i \in 1..Len(stack)
      BY <1>0, <1>2, <2>2
    <3>2. prog.uses[stack[i].file][k].file \in Finished
      BY <1>8, <3>1 DEF IInv, Provided
    <3> QED
      BY <3>1, <3>2
  <2> QED
    BY <1>1, <1>2, <2>1, <2>2
<1> QED
  BY <1>2, <1>3, <1>7, <1>8 DEF Provided

LEMMA FailModuleKeeps ==
    ASSUME IInv, FailModule PROVE IInv'
<1> DEFINE x == Refuse(Parent, LowerErrors(Top))
<1>1. /\ Depth > 0 /\ LowerErrors(Top) # {} /\ Top \in Frame
      /\ stack' = Append(SubSeq(Below, 1, Len(Below) - 1), x)
      /\ UNCHANGED <<prog, edges, order, logical, cache, linked, verdict, entry>>
  BY TopFacts DEF IInv, FailModule
<1>2. Parent \in Frame /\ LowerErrors(Top) \in SUBSET ErrorRec
  BY <1>1, ParentFacts, LowerErrorsType
<1>3. /\ x \in Frame /\ x.file = Parent.file /\ x.next = Parent.next + 1
      /\ Parent.errs \subseteq x.errs /\ x.errs # {}
  BY <1>1, <1>2, RefuseType
<1> HIDE DEF x
<1>4. /\ stack' \in Seq(Frame) /\ stack' # <<>>
      /\ Links(prog.uses, stack', edges)
      /\ \A i \in DOMAIN stack' : stack'[i].file \notin Finished
      /\ Provided(prog.uses, stack', Finished)
  BY <1>1, <1>3, PopKeeps
<1>5. TypeOK'
  BY <1>1, <1>4 DEF IInv, TypeOK
<1>6. Finished' = Finished
  BY <1>1 DEF Finished
<1>7. AnalyzedOnce' /\ Links(prog.uses, stack, edges)'
      /\ Provided(prog.uses, stack, Finished)' /\ Acyclic(edges)'
  BY <1>1, <1>4, <1>6 DEF IInv, AnalyzedOnce
<1> QED
  BY <1>5, <1>7 DEF IInv

LEMMA FinishModuleKeeps ==
    ASSUME IInv, FinishModule PROVE IInv'
<1> DEFINE f == Top.file
           t == FinalTable(Top)
           x == Bring(Parent, t)
           items == ItemsOf(f, t)
<1>1. /\ Depth > 0 /\ LowerErrors(Top) = {} /\ Top \in Frame
      /\ stack' = Append(SubSeq(Below, 1, Len(Below) - 1), x)
      /\ cache' = [g \in Finished \cup {f} |-> IF g = f THEN t ELSE cache[g]]
      /\ linked' = [g \in DOMAIN linked \cup {f} |->
                      IF g = f THEN items ELSE linked[g]]
      /\ UNCHANGED <<prog, edges, order, logical, verdict, entry>>
  BY TopFacts DEF IInv, FinishModule
<1>2. /\ Parent \in Frame /\ CurrentUse(Parent) \in Use
      /\ CurrentUse(Parent).file = f /\ f \in Files
  BY <1>1, ParentFacts
<1>3. t \in Table
  BY <1>1, AnalyzedTableType DEF IInv, TypeOK
<1>4. Missing(t) = {}
  BY <1>1 DEF LowerErrors
<1>5. linked \in [DOMAIN linked -> SUBSET Symbol]
  BY DEF IInv, TypeOK
<1>6. items \in SUBSET Symbol
  BY <1>2, <1>3, <1>4, <1>5, ItemsType DEF IInv, TypeOK, Modules
<1>7. /\ x \in Frame /\ x.file = Parent.file /\ x.next = Parent.next + 1
      /\ Parent.errs \subseteq x.errs
  BY <1>2, <1>3, BringType
<1> HIDE DEF x, t, items, f
<1>8. Finished' = Finished \cup {f}
  BY <1>1 DEF Finished
<1>9. /\ stack' \in Seq(Frame) /\ stack' # <<>>
      /\ Links(prog.uses, stack', edges)
      /\ \A i \in DOMAIN stack' : stack'[i].file \notin Finished \cup {f}
      /\ Provided(prog.uses, stack', Finished \cup {f})
  BY <1>1, <1>7, PopKeeps DEF f
<1>10. /\ cache' \in [Finished \cup {f} -> Table]
       /\ linked' \in [Finished \cup {f} -> SUBSET Symbol]
       /\ DOMAIN cache' = Finished \cup {f} /\ DOMAIN linked' = DOMAIN cache'
  BY <1>1, <1>3, <1>6 DEF IInv, TypeOK, Finished
<1>11. TypeOK'
  BY <1>1, <1>2, <1>9, <1>10 DEF IInv, TypeOK, Finished
<1>12. AnalyzedOnce' /\ Links(prog.uses, stack, edges)'
       /\ Provided(prog.uses, stack, Finished)' /\ Acyclic(edges)'
  BY <1>1, <1>8, <1>9 DEF IInv, AnalyzedOnce
<1> QED
  BY <1>11, <1>12 DEF IInv

LEMMA FinishEntryKeeps ==
    ASSUME IInv, FinishEntry PROVE IInv'
<1> DEFINE t == FinalTable(Top)
           errs == LowerErrors(Top)
           x == [Top EXCEPT !.errs = errs, !.table = t]
<1>1. /\ Depth = 0 /\ Top \in Frame
      /\ stack' = <<x>>
      /\ verdict' = IF errs = {} THEN "ok" ELSE "rejected"
      /\ entry' = IF errs = {} THEN ItemsOf(Top.file, t) ELSE {}
      /\ UNCHANGED <<prog, edges, order, logical, cache, linked>>
  BY TopFacts DEF IInv, FinishEntry
<1>2. t \in Table /\ errs \in SUBSET ErrorRec
  BY <1>1, AnalyzedTableType, LowerErrorsType DEF IInv, TypeOK
<1>3. errs = {} => Missing(t) = {} /\ Top.errs = {}
  BY DEF LowerErrors, PassErrors
<1>4. errs = {} => ItemsOf(Top.file, t) \in SUBSET Symbol
  BY <1>1, <1>2, <1>3, ItemsType DEF IInv, TypeOK, Frame
<1> HIDE DEF errs, t
<1>5. x \in Frame /\ x.file = Top.file /\ x.next = Top.next /\ x.errs = errs
  BY <1>1, <1>2 DEF Frame
<1> HIDE DEF x
<1>6. Len(stack) = 1 /\ Top = stack[1]
  BY <1>1, TopFacts DEF IInv, Depth, Top
<1>7. stack' \in Seq(Frame) /\ stack' # <<>> /\ Len(stack') = 1 /\ stack'[1] = x
  BY <1>1, <1>5
<1>8. Links(prog.uses, stack, edges)'
  BY <1>1, <1>5, <1>6, <1>7, ReachesSelf DEF IInv, Links
<1>9. AnalyzedOnce'
  BY <1>1, <1>5, <1>6, <1>7, TopFacts DEF IInv, AnalyzedOnce, Finished
<1>10. Provided(prog.uses, stack, Finished)'
  BY <1>1, <1>3, <1>5, <1>6, <1>7 DEF IInv, Provided, Finished
<1>11. TypeOK'
  BY <1>1, <1>4, <1>7 DEF IInv, TypeOK
<1> QED
  BY <1>1, <1>8, <1>9, <1>10, <1>11 DEF IInv

LEMMA InitEstablishes == Init => IInv
<1> SUFFICES ASSUME Init PROVE IInv
  OBVIOUS
<1>1. NewFrame(Root) \in Frame
  BY DEF NewFrame, Frame, Modules, NewTable, Table
<1>2. stack \in Seq(Frame) /\ stack # <<>> /\ Len(stack) = 1 /\ stack[1] = NewFrame(Root)
  BY <1>1 DEF Init
<1>3. NewFrame(Root).file = Root /\ NewFrame(Root).next = 1
  BY DEF NewFrame
<1>4. prog \in Program
  BY ProgramsAreTyped DEF Init
<1>5. Finished = {} /\ cache \in [DOMAIN cache -> Table]
      /\ DOMAIN linked = DOMAIN cache
      /\ linked \in [DOMAIN cache -> SUBSET Symbol]
  BY DEF Init, Finished
<1>6. TypeOK
  BY <1>2, <1>4, <1>5 DEF Init, TypeOK, Finished
<1>7. Links(prog.uses, stack, edges)
  BY <1>2, <1>3, ReachesSelf DEF Links
<1>8. Acyclic(edges)
  BY DEF Init, Acyclic
<1>9. AnalyzedOnce
  BY <1>5 DEF AnalyzedOnce
<1>10. Provided(prog.uses, stack, Finished)
  BY <1>2, <1>3 DEF Provided
<1> QED
  BY <1>6, <1>7, <1>8, <1>9, <1>10 DEF IInv

LEMMA StepKeeps == IInv /\ [Next]_vars => IInv'
<1> SUFFICES ASSUME IInv, [Next]_vars PROVE IInv'
  OBVIOUS
<1>1. CASE Next
  BY <1>1, UseMissingKeeps, UseCyclicKeeps, UseCachedKeeps, UseGarbledKeeps,
     EnterModuleKeeps, FailModuleKeeps, FinishModuleKeeps, FinishEntryKeeps DEF Next
<1>2. CASE UNCHANGED vars
  <2>1. UNCHANGED <<prog, stack, edges, order, logical, cache, linked, verdict, entry>>
    BY <1>2 DEF vars
  <2>2. TypeOK'
    BY <2>1 DEF IInv, TypeOK
  <2>3. AnalyzedOnce' /\ Finished' = Finished
    BY <2>1 DEF IInv, AnalyzedOnce, Finished
  <2> QED
    BY <2>1, <2>2, <2>3 DEF IInv
<1> QED
  BY <1>1, <1>2

\* The inductive invariant holds in every reachable state.
LEMMA Invariance == Spec => []IInv
<1> QED
  BY InitEstablishes, StepKeeps, PTL DEF Spec

-----------------------------------------------------------------------------
(* The theorems. *)

\* Every variable of the analysis has its type, whatever the files are.
THEOREM TypeCorrect == Spec => []TypeOK
<1>1. IInv => TypeOK
  BY DEF IInv
<1> QED
  BY <1>1, Invariance, PTL

\* The graph that `add_import` builds never gets a cycle: the search in
\* `would_create_cycle`, asked before each edge, is enough.
THEOREM GraphStaysAcyclic == Spec => []ImportGraphAcyclic
<1>1. IInv => ImportGraphAcyclic
  BY DEF IInv, Acyclic, ImportGraphAcyclic
<1> QED
  BY <1>1, Invariance, PTL

\* `parse_and_analyze_module` never comes back to a file that it is in.
THEOREM NoFileIsReentered == Spec => []NoReentry
<1>1. ASSUME IInv, NEW i \in 1..Len(stack), NEW j \in 1..Len(stack), i < j
      PROVE  stack[i].file # stack[j].file
  <2>1. Len(stack) \in Nat
    BY <1>1, TopFacts DEF IInv
  <2>2. i \in 1..(Len(stack) - 1) /\ i + 1 \in 1..Len(stack) /\ i + 1 <= j
    BY <1>1, <2>1
  <2>3. <<stack[i].file, stack[i + 1].file>> \in edges
    BY <1>1, <2>2 DEF IInv, Links
  <2>4. Reaches(edges, stack[i + 1].file, stack[j].file)
    BY <1>1, <2>2 DEF IInv, Links
  <2>5. ~Reaches(edges, stack[i + 1].file, stack[i].file)
    BY <1>1, <2>3 DEF IInv, Acyclic
  <2> QED
    BY <2>4, <2>5
<1>2. ASSUME IInv PROVE NoReentry
  <2>1. DOMAIN stack = 1..Len(stack) /\ Len(stack) \in Nat
    BY <1>2, TopFacts DEF IInv
  <2>2. SUFFICES ASSUME NEW i \in 1..Len(stack), NEW j \in 1..Len(stack),
                        stack[i].file = stack[j].file
                 PROVE  i = j
    BY <2>1 DEF NoReentry
  <2>3. ~(i < j) /\ ~(j < i)
    BY <1>1, <1>2, <2>2
  <2> QED
    BY <2>1, <2>3
<1> QED
  BY <1>2, Invariance, PTL

\* A file whose analysis finished is never analyzed again.
THEOREM FinishedStaysFinished == Spec => []AnalyzedOnce
<1>1. IInv => AnalyzedOnce
  BY DEF IInv
<1> QED
  BY <1>1, Invariance, PTL

-----------------------------------------------------------------------------
(* The analysis implements the build in dependency order. *)

LEMMA BuildInit == Init => Build!Init
<1> SUFFICES ASSUME Init PROVE Build!Init
  OBVIOUS
<1>1. prog \in Program
  BY ProgramsAreTyped DEF Init
<1>2. ASSUME NEW m \in Modules
      PROVE  {UsesOf(m)[i].file : i \in DOMAIN UsesOf(m)} \subseteq Files \cup {NoFile}
  <2>1. UsesOf(m) \in Seq(Use)
    BY <1>1 DEF UsesOf, Program
  <2>2. \A i \in DOMAIN UsesOf(m) : UsesOf(m)[i] \in Use
    BY <2>1
  <2> QED
    BY <2>2 DEF Use
<1>3. Needs \in [Files \cup {Root} -> SUBSET (Files \cup {NoFile})]
  BY <1>2 DEF Needs, Modules
<1>4. Finished = {} /\ verdict = "running"
  BY DEF Init, Finished
<1> QED
  BY <1>3, <1>4 DEF Build!Init

\* What the innermost analyzer needs when it ends without an error.
LEMMA NeedsProvided ==
    ASSUME IInv, AtEnd, LowerErrors(Top) = {}
    PROVE  Needs[Top.file] \subseteq Finished
<1>1. /\ Len(stack) \in 1..Len(stack) /\ Top = stack[Len(stack)]
      /\ Top \in Frame /\ Top.file \in Modules /\ Top.next \in Nat \ {0}
  BY TopFacts DEF IInv, Top
<1>2. Top.errs = {}
  BY DEF LowerErrors, PassErrors
<1>3. UsesOf(Top.file) \in Seq(Use)
  BY <1>1 DEF IInv, TypeOK, Program, UsesOf
<1>4. /\ DOMAIN UsesOf(Top.file) = 1..Len(UsesOf(Top.file))
      /\ Len(UsesOf(Top.file)) \in Nat
  BY <1>3, LenProperties
<1>5. ASSUME NEW k \in DOMAIN UsesOf(Top.file)
      PROVE  UsesOf(Top.file)[k].file \in Finished
  <2>1. k \in 1..(Top.next - 1)
    BY <1>1, <1>4 DEF AtEnd, HasUse
  <2> QED
    BY <1>1, <1>2, <2>1 DEF IInv, Provided, UsesOf
<1> QED
  BY <1>1, <1>5 DEF Needs

LEMMA BuildStep == IInv /\ [Next]_vars => [Build!Next]_Build!vars
<1> SUFFICES ASSUME IInv, [Next]_vars PROVE [Build!Next]_Build!vars
  OBVIOUS
<1>1. prog' = prog
  BY DEF Next, vars, UseMissing, UseCyclic, UseCached, UseGarbled, EnterModule,
     FailModule, FinishModule, FinishEntry
<1>2. Needs' = Needs
  BY <1>1 DEF Needs, UsesOf
<1>3. CASE UNCHANGED <<cache, verdict>>
  BY <1>2, <1>3 DEF Finished, Build!vars
<1>4. CASE FinishModule
  <2>1. /\ Depth > 0 /\ AtEnd /\ LowerErrors(Top) = {} /\ verdict = "running"
        /\ verdict' = verdict /\ Finished' = Finished \cup {Top.file}
    BY <1>4 DEF FinishModule, AtEnd, Finished
  <2>2. Top.file \in Files
    BY <2>1, ParentFacts
  <2>3. Top.file \notin Finished
    BY TopFacts DEF IInv, AnalyzedOnce, Top
  <2>4. Needs[Top.file] \subseteq Finished
    BY <2>1, NeedsProvided
  <2>5. Build!BuildFile(Top.file)
    BY <1>2, <2>1, <2>2, <2>3, <2>4 DEF Build!BuildFile
  <2> QED
    BY <2>2, <2>5 DEF Build!Next
<1>5. CASE FinishEntry
  <2>1. /\ Depth = 0 /\ AtEnd /\ verdict = "running" /\ Finished' = Finished
        /\ verdict' = IF LowerErrors(Top) = {} THEN "ok" ELSE "rejected"
    BY <1>5 DEF FinishEntry, AtEnd, Finished
  <2>2. Top.file = Root
    BY <2>1, TopFacts DEF IInv, Links, Depth, Top
  <2>3. CASE LowerErrors(Top) = {}
    <3>1. Needs[Root] \subseteq Finished
      BY <2>1, <2>2, <2>3, NeedsProvided
    <3> QED
      BY <1>2, <2>1, <2>3, <3>1 DEF Build!Accept, Build!Next
  <2>4. CASE LowerErrors(Top) # {}
    BY <1>2, <2>1, <2>4 DEF Build!Reject, Build!Next
  <2> QED
    BY <2>3, <2>4
<1>6. CASE UseMissing \/ UseCyclic \/ UseCached \/ UseGarbled \/ EnterModule \/ FailModule
  <2>1. UNCHANGED <<cache, verdict>>
    BY <1>6 DEF UseMissing, UseCyclic, UseCached, UseGarbled, EnterModule, FailModule
  <2> QED
    BY <1>3, <2>1
<1>7. CASE UNCHANGED vars
  BY <1>3, <1>7 DEF vars
<1> QED
  BY <1>4, <1>5, <1>6, <1>7 DEF Next

\* Whatever is cached and however the recursion runs, a file finishes only
\* after every file it needs, and the entry module is accepted only when
\* everything it needs has finished.
THEOREM BuildsInDependencyOrder == Spec => BuildsInOrder
<1> QED
  BY BuildInit, BuildStep, Invariance, PTL DEF Spec, BuildsInOrder, Build!Spec

=============================================================================
