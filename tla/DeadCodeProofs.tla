--------------------------- MODULE DeadCodeProofs ---------------------------
(***************************************************************************)
(* Proofs about dead code elimination, for every module that               *)
(* monomorphisation can leave.                                             *)
(***************************************************************************)
EXTENDS DeadCode, RankProofs, FiniteSetTheorems, TLAPS

-----------------------------------------------------------------------------
(* The locals that a block keeps. *)

Walk == [used : SUBSET STRING, keep : SUBSET Nat]

LEMMA NamesInType ==
  ASSUME NEW v \in Expr
  PROVE  names_in(v) \in SUBSET STRING
<1>1. \A j \in DOMAIN v.branches : v.branches[j] \in Branch
  BY DEF Expr
<1>2. \A b \in Elements(v.branches) : b \in Branch
  BY <1>1 DEF Elements
<1>3. QED
  BY <1>2 DEF names_in, Branch, Read

\* A statement adds itself to what is kept, or it can be left out.
LEMMA BeforeType ==
  ASSUME NEW e \in Block, NEW i \in DOMAIN e, NEW after \in Walk
  PROVE  /\ Before(e, i, after) \in Walk
         /\ \/ Before(e, i, after).keep = after.keep \cup {i}
            \/ Before(e, i, after) = after /\ effect_free(e[i].value)
<1> DEFINE s == e[i]
<1>1. s \in Statement /\ i \in Nat
  BY DEF Block
<1>2. names_in(s.value) \in SUBSET STRING
  BY <1>1, NamesInType DEF Statement
<1>3. s.form \in {"let", "assign", "do"} /\ s.name \in STRING
  BY <1>1 DEF Statement
<1> DEFINE keep == after.keep \cup {i}
           needed == s.name \in after.used \/ ~effect_free(s.value)
<1>4. after.used \in SUBSET STRING /\ keep \in SUBSET Nat
  BY <1>1 DEF Walk
<1>5. Before(e, i, after) =
        CASE s.form = "let" /\ ~needed -> after
          [] s.form = "let" /\ needed ->
               [used |-> (after.used \ {s.name}) \cup names_in(s.value), keep |-> keep]
          [] s.form = "assign" ->
               [used |-> after.used \cup {s.name} \cup names_in(s.value), keep |-> keep]
          [] s.form = "do" ->
               [used |-> after.used \cup names_in(s.value), keep |-> keep]
  BY DEF Before
<1>6. CASE s.form = "let" /\ ~needed
  BY <1>5, <1>6
<1> HIDE DEF keep, s, needed
<1>7. CASE s.form = "let" /\ needed
  BY <1>2, <1>4, <1>5, <1>7 DEF Walk, keep
<1>8. CASE s.form = "assign"
  BY <1>2, <1>3, <1>4, <1>5, <1>8 DEF Walk, keep
<1>9. CASE s.form = "do"
  BY <1>2, <1>4, <1>5, <1>9 DEF Walk, keep
<1>10. QED
  BY <1>3, <1>6, <1>7, <1>8, <1>9

\* The whole walk, from the end of the block to its first statement.
IsWalk(e, f) ==
  f = [i \in 1..(Len(e) + 1) |->
          IF i > Len(e) THEN [used |-> {}, keep |-> {}] ELSE Before(e, i, f[i + 1])]

LEMMA WalkExists ==
  ASSUME NEW e \in Block
  PROVE  \E f : IsWalk(e, f)
<1> DEFINE N == Len(e)
           nothing == [used |-> {}, keep |-> {}]
           step == [x \in (1..N) \X Walk |-> Before(e, N + 1 - x[1], x[2])]
<1>1. N \in Nat /\ DOMAIN e = 1..N
  BY DEF Block
<1>2. nothing \in Walk
  BY DEF Walk
<1>3. step \in [(1..N) \X Walk -> Walk]
  <2>1. ASSUME NEW x \in (1..N) \X Walk PROVE Before(e, N + 1 - x[1], x[2]) \in Walk
    <3>1. N + 1 - x[1] \in DOMAIN e /\ x[2] \in Walk
      BY <1>1
    <3>2. QED
      BY <3>1, BeforeType
  <2>2. QED
    BY <2>1
<1> HIDE DEF nothing, N
<1>4. PICK g : Takes(g, N, Walk, nothing, step)
  <2> HIDE DEF step
  <2>1. N \in Nat
    BY <1>1
  <2>2. QED
    BY <1>2, <1>3, <2>1, StepsExist
<1>10. /\ g \in [0..N -> Walk] /\ g[0] = nothing
       /\ \A n \in 1..N : g[n] = step[<<n, g[n - 1]>>]
  BY <1>4 DEF Takes
<1> DEFINE f == [i \in 1..(N + 1) |-> g[N + 1 - i]]
<1>5. ASSUME NEW i \in 1..(N + 1)
      PROVE  f[i] = IF i > N THEN nothing ELSE Before(e, i, f[i + 1])
  <2>1. CASE i > N
    <3>1. N + 1 - i = 0
      BY <1>1, <2>1
    <3>2. QED
      BY <1>10, <2>1, <3>1
  <2>2. CASE ~(i > N)
    <3> DEFINE n == N + 1 - i
    <3>1. /\ n \in 1..N /\ n - 1 \in 0..N
          /\ i + 1 \in 1..(N + 1) /\ N + 1 - (i + 1) = n - 1 /\ N + 1 - n = i
      BY <1>1, <2>2
    <3>2. f[i] = g[n] /\ f[i + 1] = g[N + 1 - (i + 1)]
      BY <3>1
    <3> HIDE DEF n, f
    <3>3. f[i + 1] = g[n - 1] /\ f[i + 1] \in Walk
      BY <1>10, <3>1, <3>2
    <3>4. f[i] = step[<<n, f[i + 1]>>]
      <4> HIDE DEF step
      <4>1. QED
        BY <1>10, <3>1, <3>2, <3>3
    <3>5. step[<<n, f[i + 1]>>] = Before(e, N + 1 - n, f[i + 1])
      BY <3>1, <3>3
    <3>6. QED
      BY <2>2, <3>1, <3>4, <3>5
  <2>3. QED
    BY <2>1, <2>2
<1>6. f = [i \in 1..(N + 1) |-> IF i > N THEN nothing ELSE Before(e, i, f[i + 1])]
  <2>1. f = [i \in 1..(N + 1) |-> f[i]]
    OBVIOUS
  <2> HIDE DEF f
  <2>2. QED
    BY <1>5, <2>1
<1> HIDE DEF f
<1>7. IsWalk(e, f)
  BY <1>6 DEF IsWalk, N, nothing
<1>8. QED
  BY <1>7

\* It keeps statements of the block, and only goes past one that has no effect.
LEMMA WalkKeeps ==
  ASSUME NEW e \in Block
  PROVE  /\ WalkFromEnd(e).keep \subseteq DOMAIN e
         /\ \A i \in DOMAIN e : i \notin WalkFromEnd(e).keep => effect_free(e[i].value)
<1> DEFINE N == Len(e)
           f == CHOOSE f : IsWalk(e, f)
<1>1. N \in Nat /\ DOMAIN e = 1..N
  BY DEF Block
<1>2. IsWalk(e, f)
  BY WalkExists
<1>3. WalkFromEnd(e) = f[1]
  BY DEF WalkFromEnd, IsWalk
<1> HIDE DEF f
<1>4. /\ f[N + 1] = [used |-> {}, keep |-> {}]
      /\ \A i \in 1..N : f[i] = Before(e, i, f[i + 1])
  <2>1. f = [i \in 1..(N + 1) |->
               IF i > N THEN [used |-> {}, keep |-> {}] ELSE Before(e, i, f[i + 1])]
    BY <1>2 DEF IsWalk
  <2>2. N + 1 \in 1..(N + 1) /\ N + 1 > N
    BY <1>1
  <2>3. \A i \in 1..N : i \in 1..(N + 1) /\ ~(i > N)
    BY <1>1
  <2> HIDE DEF N
  <2>4. f[N + 1] = [used |-> {}, keep |-> {}]
    BY <2>1, <2>2
  <2>5. \A i \in 1..N : f[i] = Before(e, i, f[i + 1])
    BY <2>1, <2>3
  <2>6. QED
    BY <2>4, <2>5
<1> HIDE DEF N
<1> DEFINE From(n) == /\ f[N + 1 - n] \in Walk
                      /\ f[N + 1 - n].keep \subseteq (N + 1 - n)..N
                      /\ \A i \in (N + 1 - n)..N :
                            i \notin f[N + 1 - n].keep => effect_free(e[i].value)
           P == {n \in Nat : n <= N => From(n)}
<1>5. 0 \in P
  <2>1. N + 1 - 0 = N + 1 /\ (N + 1)..N = {}
    BY <1>1
  <2>2. [used |-> {}, keep |-> {}] \in Walk
    BY DEF Walk
  <2>3. From(0)
    BY <1>4, <2>1, <2>2
  <2> HIDE DEF From
  <2>4. QED
    BY <2>3
<1>6. ASSUME NEW n \in Nat, n \in P PROVE n + 1 \in P
  <2> SUFFICES ASSUME n + 1 <= N PROVE From(n + 1)
    <3> HIDE DEF From
    <3>1. QED
      OBVIOUS
  <2>1. From(n)
    <3> HIDE DEF From
    <3>1. QED
      BY <1>1, <1>6
  <2> DEFINE j == N + 1 - (n + 1)
             after == f[N + 1 - n]
  <2>2. j \in 1..N /\ j + 1 = N + 1 - n /\ j \in DOMAIN e
    BY <1>1
  <2>3. f[j] = Before(e, j, after)
    BY <1>4, <2>2
  <2>4. /\ after \in Walk /\ after.keep \subseteq (j + 1)..N
        /\ \A i \in (j + 1)..N : i \notin after.keep => effect_free(e[i].value)
    BY <2>1, <2>2
  <2> HIDE DEF after, j
  <2>5. /\ f[j] \in Walk
        /\ \/ f[j].keep = after.keep \cup {j}
           \/ f[j] = after /\ effect_free(e[j].value)
    BY <2>2, <2>3, <2>4, BeforeType
  <2>6. j..N = {j} \cup (j + 1)..N
    BY <1>1, <2>2
  <2>7. /\ f[j] \in Walk /\ f[j].keep \subseteq j..N
        /\ \A i \in j..N : i \notin f[j].keep => effect_free(e[i].value)
    BY <2>4, <2>5, <2>6
  <2>8. QED
    BY <2>7 DEF j
<1>7. N \in P
  <2> HIDE DEF P
  <2>1. Nat \subseteq P
    BY <1>5, <1>6, EveryNumber
  <2>2. QED
    BY <1>1, <2>1
<1>8. From(N) /\ N + 1 - N = 1
  BY <1>1, <1>7
<1>9. QED
  BY <1>1, <1>3, <1>8

-----------------------------------------------------------------------------
(* The inductive invariant: what a part of the module m says still fits m, *)
(* and is what the part of the source said that it comes from.             *)

ReadIn(m, src, r) ==
    /\ ReadOK(m, r)
    /\ r.means # 0 /\ r.id = 0 => r.name = src.lets[r.means].name

BranchIn(m, src, b) ==
    /\ \A r \in b.types : RefOK(m, r)
    /\ \A c \in b.calls : /\ CallOK(m, c)
                          /\ Meant(src.impls[c.means].target) \subseteq Meant(b.types)
    /\ \A r \in b.reads : ReadIn(m, src, r)

BlockIn(m, src, e) ==
    /\ e \in Block
    /\ \A i \in DOMAIN e : \A j \in DOMAIN e[i].value.branches :
          BranchIn(m, src, e[i].value.branches[j])

CallsNothing(e) ==
    \A i \in DOMAIN e : \A j \in DOMAIN e[i].value.branches :
        e[i].value.branches[j].calls = {}

BoundsIn(m, bounds) ==
    \A b \in bounds : b.args = {} /\ b.trait.kind = "trait" /\ RefOK(m, b.trait)

DefIn(m, src, k, d) ==
    /\ d \in Def /\ d.was \in DOMAIN src.defs[k]
    /\ \A r \in d.types : RefOK(m, r)
    /\ \A r \in d.composed : RefOK(m, r) /\ r.kind = "trait"
    /\ BoundsIn(m, d.bounds)
    /\ BlockIn(m, src, d.default)
    /\ d.pub = src.defs[k][d.was].pub
    /\ Meant(d.types) = Meant(src.defs[k][d.was].types)
    /\ Meant(d.composed) = Meant(src.defs[k][d.was].composed)
    /\ MeantBy(d.bounds) = MeantBy(src.defs[k][d.was].bounds)

\* What functions and the methods of impls have in common.
CallableIn(m, src, f, s) ==
    /\ \A r \in f.sig : RefOK(m, r)
    /\ f.bounds = {} /\ s.bounds = {}
    /\ Meant(f.sig) = Meant(s.sig)
    /\ BlockIn(m, src, f.body)
    /\ BlockIn(m, src, f.default) /\ CallsNothing(f.default)

ImplIn(m, src, i) ==
    /\ i \in Impl /\ i.was \in DOMAIN src.impls
    /\ CallableIn(m, src, i, src.impls[i.was])
    /\ \A t \in i.target : RefOK(m, t) /\ t.kind # "trait"
    /\ BoundsIn(m, i.trait)
    /\ Meant(i.target) = Meant(src.impls[i.was].target)
    /\ MeantBy(i.trait) = MeantBy(src.impls[i.was].trait)

LetIn(m, src, l) ==
    /\ l \in LetDef /\ l.was \in DOMAIN src.lets
    /\ \A r \in l.type : RefOK(m, r)
    /\ BlockIn(m, src, l.value)
    /\ l.pub = src.lets[l.was].pub /\ l.name = src.lets[l.was].name

FunctionsIn(m, src) ==
    /\ Len(m.functions) = Len(src.functions)
    /\ \A n \in DOMAIN m.functions :
          CallableIn(m, src, m.functions[n], src.functions[n])

ModuleIn(m, src) ==
    /\ m \in Module
    /\ \A k \in Kinds : /\ InOrder(m.defs[k], src.defs[k])
                        /\ \A i \in DOMAIN m.defs[k] : DefIn(m, src, k, m.defs[k][i])
    /\ InOrder(m.impls, src.impls)
    /\ \A i \in DOMAIN m.impls : ImplIn(m, src, m.impls[i])
    /\ InOrder(m.lets, src.lets)
    /\ \A i \in DOMAIN m.lets : LetIn(m, src, m.lets[i])
    /\ FunctionsIn(m, src)

\* What may not go: public definitions, the impls of what stays, bindings that
\* are public or, behind the collapsing of branches, have an effect.
Holds(items, was) == \E i \in DOMAIN items : items[i].was = was

PublicStay(m, src) ==
    \A k \in Kinds : \A i \in DOMAIN src.defs[k] : src.defs[k][i].pub => Holds(m.defs[k], i)

ImplsStay(m, src) ==
    \A i \in DOMAIN src.impls :
        (\A t \in src.impls[i].target : Holds(m.defs[t.kind], t.means)) => Holds(m.impls, i)

Certain(e) == \E i \in DOMAIN e : e[i].value.test = "none" /\ ~effect_free(e[i].value)
Effective(e) == \E i \in DOMAIN e : ~effect_free(e[i].value)

LetsStay(m, src, part) ==
    \A i \in DOMAIN src.lets : src.lets[i].pub \/ Certain(src.lets[i].value) =>
        \E j \in DOMAIN m.lets :
            /\ m.lets[j].was = i
            /\ \/ m.lets[j].pub
               \/ part = "branches" /\ Certain(m.lets[j].value)
               \/ part # "branches" /\ Effective(m.lets[j].value)

AllMarked == \A k \in Kinds : \A i \in DOMAIN ir.defs[k] : <<k, i>> \in Analyzed

IInv ==
    /\ pc \in {"branches", "locals", "lets", "mark", "remove", "done"}
    /\ all \in BOOLEAN
    /\ source \in Modules
    /\ ModuleIn(ir, source)
    /\ PublicStay(ir, source) /\ ImplsStay(ir, source) /\ LetsStay(ir, source, pc)
    /\ TotalOf(ir) <= TotalOf(source)
    /\ rounds \in Nat /\ rounds <= TotalOf(source) + 1
    /\ pc \in {"mark", "remove"} => rounds > TotalOf(ir)
    /\ pc = "remove" => used = Analyzed
    /\ pc = "done" /\ all => AllMarked

-----------------------------------------------------------------------------
(* What stays where it is. *)

SamePlaces(a, b) == DOMAIN b = DOMAIN a /\ \A i \in DOMAIN a : b[i].was = a[i].was

LEMMA NamesStay ==
  ASSUME NEW a, NEW b, SamePlaces(a, b), NEW id, NEW means, Names(a, id, means)
  PROVE  Names(b, id, means)
BY DEF Names, SamePlaces

LEMMA RefStays ==
  ASSUME NEW m, NEW n, \A k \in Kinds : SamePlaces(m.defs[k], n.defs[k]),
         NEW r \in Ref, RefOK(m, r)
  PROVE  RefOK(n, r)
<1>1. r.kind \in Kinds
  BY DEF Ref
<1>2. SamePlaces(m.defs[r.kind], n.defs[r.kind]) /\ Names(m.defs[r.kind], r.id, r.means)
  BY <1>1 DEF RefOK
<1>3. QED
  BY <1>2, NamesStay DEF RefOK

LEMMA CallStays ==
  ASSUME NEW m, NEW n, SamePlaces(m.impls, n.impls), NEW c, CallOK(m, c)
  PROVE  CallOK(n, c)
BY NamesStay DEF CallOK

LEMMA ReadStays ==
  ASSUME NEW m, NEW n, SamePlaces(m.lets, n.lets), NEW r, ReadOK(m, r)
  PROVE  ReadOK(n, r)
<1>1. CASE r.means = 0
  BY <1>1 DEF ReadOK
<1>2. CASE r.id # 0 /\ Names(m.lets, r.id, r.means)
  BY <1>2, NamesStay DEF ReadOK
<1>3. CASE r.id = 0 /\ \E l \in Elements(m.lets) : l.was = r.means
  <2>1. PICK i \in DOMAIN m.lets : m.lets[i].was = r.means
    BY <1>3 DEF Elements
  <2>2. i \in DOMAIN n.lets /\ n.lets[i].was = r.means
    BY <2>1 DEF SamePlaces
  <2>3. QED
    BY <1>3, <2>2 DEF ReadOK, Elements
<1>4. QED
  BY <1>1, <1>2, <1>3 DEF ReadOK

SameModulePlaces(m, n) ==
    /\ \A k \in Kinds : SamePlaces(m.defs[k], n.defs[k])
    /\ SamePlaces(m.impls, n.impls)
    /\ SamePlaces(m.lets, n.lets)

LEMMA BranchStays ==
  ASSUME NEW m, NEW n, SameModulePlaces(m, n), NEW src, NEW b \in Branch, BranchIn(m, src, b)
  PROVE  BranchIn(n, src, b)
<1>1. ASSUME NEW r \in b.types PROVE RefOK(n, r)
  <2>1. r \in Ref /\ RefOK(m, r)
    BY DEF BranchIn, Branch
  <2>2. QED
    BY <2>1, RefStays DEF SameModulePlaces
<1>2. ASSUME NEW c \in b.calls PROVE CallOK(n, c)
  <2>1. CallOK(m, c)
    BY DEF BranchIn
  <2>2. QED
    BY <2>1, CallStays DEF SameModulePlaces
<1>3. ASSUME NEW r \in b.reads PROVE ReadIn(n, src, r)
  <2>1. ReadIn(m, src, r) /\ ReadOK(m, r)
    BY DEF BranchIn, ReadIn
  <2>2. ReadOK(n, r)
    BY <2>1, ReadStays DEF SameModulePlaces
  <2>3. QED
    BY <2>1, <2>2 DEF ReadIn
<1>4. QED
  BY <1>1, <1>2, <1>3 DEF BranchIn

LEMMA BranchesOfBlock ==
  ASSUME NEW e \in Block, NEW i \in DOMAIN e
  PROVE  /\ e[i] \in Statement /\ e[i].value \in Expr
         /\ e[i].value.branches \in Seq(Branch) /\ e[i].value.branches # <<>>
         /\ \A j \in DOMAIN e[i].value.branches : e[i].value.branches[j] \in Branch
<1>1. e[i] \in Statement
  BY DEF Block
<1>2. e[i].value \in Expr
  BY <1>1 DEF Statement
<1>3. e[i].value.branches \in Seq(Branch) /\ e[i].value.branches # <<>>
  BY <1>2 DEF Expr
<1>4. QED
  BY <1>1, <1>2, <1>3

LEMMA BlockStays ==
  ASSUME NEW m, NEW n, SameModulePlaces(m, n), NEW src, NEW e, BlockIn(m, src, e)
  PROVE  BlockIn(n, src, e)
<1>1. e \in Block
  BY DEF BlockIn
<1>2. ASSUME NEW i \in DOMAIN e, NEW j \in DOMAIN e[i].value.branches
      PROVE  BranchIn(n, src, e[i].value.branches[j])
  <2>1. e[i].value.branches[j] \in Branch
    BY <1>1, BranchesOfBlock
  <2>2. BranchIn(m, src, e[i].value.branches[j])
    BY DEF BlockIn
  <2>3. QED
    BY <2>1, <2>2, BranchStays
<1>3. QED
  BY <1>1, <1>2 DEF BlockIn

-----------------------------------------------------------------------------
(* Branches of a constant condition. *)

LEMMA CollapseShape ==
  ASSUME NEW v \in Expr
  PROVE  /\ Collapse(v) \in Expr
         /\ v.test = "none" => Collapse(v) = v
         /\ \A j \in DOMAIN Collapse(v).branches :
               \E i \in DOMAIN v.branches : Collapse(v).branches[j] = v.branches[i]
<1> DEFINE taken == CASE v.test = "true" -> 1
                      [] v.test = "false" /\ Len(v.branches) = 2 -> 2
                      [] OTHER -> 0
<1>1. v.branches \in Seq(Branch) /\ v.branches # <<>>
  BY DEF Expr
<1>2. Len(v.branches) \in Nat /\ Len(v.branches) >= 1 /\ DOMAIN v.branches = 1..Len(v.branches)
  BY <1>1, EmptySeq, LenProperties
<1>3. taken = 0 \/ taken \in DOMAIN v.branches
  <2>1. CASE v.test = "true"
    BY <1>2, <2>1
  <2>2. CASE v.test = "false" /\ Len(v.branches) = 2
    BY <1>2, <2>2
  <2>3. CASE ~(v.test = "true") /\ ~(v.test = "false" /\ Len(v.branches) = 2)
    BY <2>3
  <2>4. QED
    BY <2>1, <2>2, <2>3
<1>4. v.test = "none" => taken = 0
  OBVIOUS
<1>5. Collapse(v) = IF taken = 0 THEN v
                    ELSE [test |-> "none", branches |-> <<v.branches[taken]>>]
  BY DEF Collapse
<1> HIDE DEF taken
<1>6. CASE taken = 0
  BY <1>5, <1>6
<1>7. CASE taken \in DOMAIN v.branches /\ taken # 0
  <2> DEFINE b == v.branches[taken]
  <2>1. b \in Branch
    BY <1>1, <1>7
  <2>2. Collapse(v) = [test |-> "none", branches |-> <<b>>]
    BY <1>5, <1>7
  <2> HIDE DEF b
  <2>3. <<b>> \in Seq(Branch) /\ <<b>> # <<>> /\ DOMAIN <<b>> = {1} /\ <<b>>[1] = b
    BY <2>1
  <2>4. Collapse(v) \in Expr
    BY <2>2, <2>3 DEF Expr
  <2>5. \A j \in DOMAIN Collapse(v).branches : Collapse(v).branches[j] = b
    BY <2>2, <2>3
  <2>6. QED
    BY <1>4, <1>7, <2>4, <2>5 DEF b
<1>8. QED
  BY <1>3, <1>6, <1>7

LEMMA CollapsedBlock ==
  ASSUME NEW m, NEW src, NEW e, BlockIn(m, src, e)
  PROVE  /\ BlockIn(m, src, eliminate_dead_code_expr(e))
         /\ Certain(e) => Effective(eliminate_dead_code_expr(e))
<1> DEFINE f == eliminate_dead_code_expr(e)
<1>1. e \in Block /\ Len(e) \in Nat /\ DOMAIN e = 1..Len(e)
  BY DEF BlockIn, Block
<1>2. ASSUME NEW i \in DOMAIN e
      PROVE  f[i] \in Statement /\ f[i].value = Collapse(e[i].value)
  <2>1. e[i] \in Statement /\ e[i].value \in Expr
    BY <1>1, BranchesOfBlock
  <2>2. f[i] = [e[i] EXCEPT !.value = Collapse(@)]
    BY DEF eliminate_dead_code_expr
  <2>3. Collapse(e[i].value) \in Expr
    BY <2>1, CollapseShape
  <2> HIDE DEF f
  <2>4. QED
    BY <2>1, <2>2, <2>3 DEF Statement
<1>3. f = [i \in 1..Len(e) |-> f[i]]
  BY <1>1 DEF eliminate_dead_code_expr
<1> HIDE DEF f
<1>4. f \in Block /\ DOMAIN f = DOMAIN e
  BY <1>1, <1>2, <1>3, SeqBy DEF Block
<1>5. ASSUME NEW i \in DOMAIN f, NEW j \in DOMAIN f[i].value.branches
      PROVE  BranchIn(m, src, f[i].value.branches[j])
  <2>1. i \in DOMAIN e /\ e[i].value \in Expr
    BY <1>1, <1>4, BranchesOfBlock
  <2>2. PICK l \in DOMAIN e[i].value.branches :
           f[i].value.branches[j] = e[i].value.branches[l]
    BY <1>2, <1>5, <2>1, CollapseShape
  <2>3. QED
    BY <2>1, <2>2 DEF BlockIn
<1>6. Certain(e) => Effective(f)
  <2> SUFFICES ASSUME NEW i \in DOMAIN e, e[i].value.test = "none",
                      ~effect_free(e[i].value)
               PROVE  Effective(f)
    BY DEF Certain
  <2>1. f[i].value = e[i].value
    BY <1>1, <1>2, BranchesOfBlock, CollapseShape
  <2>2. QED
    BY <1>4, <2>1 DEF Effective
<1>7. QED
  BY <1>4, <1>5, <1>6 DEF BlockIn, f

-----------------------------------------------------------------------------
(* Blocks that lose statements, and blocks whose branches are rewritten.   *)

LEMMA KeptBlock ==
  ASSUME NEW m, NEW src, NEW e, BlockIn(m, src, e)
  PROVE  /\ BlockIn(m, src, remove_unused_locals(e))
         /\ Effective(e) => Effective(remove_unused_locals(e))
         /\ CallsNothing(e) => CallsNothing(remove_unused_locals(e))
<1> DEFINE keep == WalkFromEnd(e).keep
           f == Kept(e, keep)
<1>1. e \in Block /\ Len(e) \in Nat /\ DOMAIN e = 1..Len(e)
  BY DEF BlockIn, Block
<1>2. remove_unused_locals(e) = f
  BY DEF remove_unused_locals
<1>3. keep \in SUBSET (1..Len(e)) /\ \A i \in DOMAIN e : i \notin keep => effect_free(e[i].value)
  BY <1>1, WalkKeeps
<1> HIDE DEF keep
<1>4. f \in Block
  <2>1. \A i \in keep : e[i] \in Statement
    BY <1>1, <1>3 DEF Block
  <2>2. QED
    BY <1>1, <1>3, <2>1, KeptType DEF Block
<1>5. ASSUME NEW n \in DOMAIN f PROVE \E i \in DOMAIN e : f[n] = e[i]
  <2>1. keep \in SUBSET (1..Len(e)) /\ Len(e) \in Nat
    BY <1>1, <1>3
  <2>2. n \in 1..Cardinality(keep)
    BY DEF Kept
  <2>3. PICK i \in keep : Rank(keep, i) = n
    BY <2>1, <2>2, RankOnto
  <2>4. f[n] = e[i]
    BY <2>1, <2>3, KeptAt
  <2>5. i \in DOMAIN e
    BY <1>1, <2>1
  <2>6. QED
    BY <2>4, <2>5
<1>6. ASSUME NEW i \in keep PROVE \E n \in DOMAIN f : f[n] = e[i]
  BY <1>1, <1>3, KeptAt
<1> HIDE DEF f
<1>7. BlockIn(m, src, f)
  BY <1>4, <1>5 DEF BlockIn
<1>8. CallsNothing(e) => CallsNothing(f)
  BY <1>5 DEF CallsNothing
<1>9. Effective(e) => Effective(f)
  BY <1>3, <1>6 DEF Effective
<1>10. QED
  BY <1>2, <1>7, <1>8, <1>9

\* f is e with the branches B.
IsRebranched(e, f, B) ==
    /\ \A i \in DOMAIN e :
          /\ B[i] = [j \in DOMAIN e[i].value.branches |-> B[i][j]]
          /\ \A j \in DOMAIN e[i].value.branches : B[i][j] \in Branch
    /\ f = [i \in DOMAIN e |-> [e[i] EXCEPT !.value.branches = B[i]]]

LEMMA RebranchedShape ==
  ASSUME NEW e \in Block, NEW f, NEW B, IsRebranched(e, f, B)
  PROVE  /\ f \in Block /\ DOMAIN f = DOMAIN e
         /\ \A i \in DOMAIN e :
               /\ f[i].form = e[i].form /\ f[i].name = e[i].name
               /\ f[i].value.test = e[i].value.test
               /\ f[i].value.branches = B[i]
               /\ DOMAIN f[i].value.branches = DOMAIN e[i].value.branches
<1>1. Len(e) \in Nat /\ DOMAIN e = 1..Len(e)
  BY DEF Block
<1>2. ASSUME NEW i \in DOMAIN e
      PROVE  /\ f[i] \in Statement
             /\ f[i].form = e[i].form /\ f[i].name = e[i].name
             /\ f[i].value.test = e[i].value.test
             /\ f[i].value.branches = B[i]
             /\ DOMAIN f[i].value.branches = DOMAIN e[i].value.branches
  <2> DEFINE s == e[i]
             bs == B[i]
             old == s.value.branches
  <2>1. s \in Statement /\ s.value \in Expr /\ old \in Seq(Branch) /\ old # <<>>
    BY BranchesOfBlock
  <2>2. Len(old) \in Nat /\ DOMAIN old = 1..Len(old) /\ Len(old) # 0
    BY <2>1, EmptySeq, LenProperties
  <2>3. bs = [j \in 1..Len(old) |-> bs[j]] /\ \A j \in 1..Len(old) : bs[j] \in Branch
    BY <2>2 DEF IsRebranched
  <2>4. f[i] = [s EXCEPT !.value.branches = bs]
    BY DEF IsRebranched
  <2> HIDE DEF s, bs, old
  <2>5. bs \in Seq(Branch) /\ Len(bs) = Len(old) /\ DOMAIN bs = DOMAIN old
    BY <2>2, <2>3, SeqBy
  <2>6. bs # <<>>
    BY <2>2, <2>5
  <2>7. [s.value EXCEPT !.branches = bs] \in Expr
    BY <2>1, <2>5, <2>6 DEF Expr
  <2>8. f[i] = [s EXCEPT !.value = [s.value EXCEPT !.branches = bs]]
    BY <2>4
  <2>9. /\ f[i] \in Statement /\ f[i].form = s.form /\ f[i].name = s.name
        /\ f[i].value = [s.value EXCEPT !.branches = bs]
    BY <2>1, <2>7, <2>8 DEF Statement
  <2>10. f[i].value.test = s.value.test /\ f[i].value.branches = bs
    BY <2>1, <2>9 DEF Expr
  <2>11. QED
    BY <2>5, <2>9, <2>10 DEF s, bs, old
<1>3. f = [i \in 1..Len(e) |-> f[i]] /\ DOMAIN f = DOMAIN e
  BY <1>1 DEF IsRebranched
<1>4. f \in Block
  BY <1>1, <1>2, <1>3, SeqBy DEF Block
<1>5. QED
  BY <1>2, <1>3, <1>4

\* Branches that have effects where the old ones had keep the block's.
LEMMA RebranchedEffects ==
  ASSUME NEW e \in Block, NEW f, NEW B, IsRebranched(e, f, B),
         \A i \in DOMAIN e : \A j \in DOMAIN e[i].value.branches :
            B[i][j].effect = e[i].value.branches[j].effect
  PROVE  Effective(e) => Effective(f)
<1>1. /\ DOMAIN f = DOMAIN e
      /\ \A i \in DOMAIN e : /\ f[i].value.branches = B[i]
                             /\ DOMAIN f[i].value.branches = DOMAIN e[i].value.branches
  BY RebranchedShape
<1>2. ASSUME NEW i \in DOMAIN e, ~effect_free(e[i].value) PROVE ~effect_free(f[i].value)
  <2>1. PICK j \in DOMAIN e[i].value.branches : e[i].value.branches[j].effect
    BY <1>2 DEF effect_free, Elements
  <2>2. j \in DOMAIN f[i].value.branches /\ f[i].value.branches[j].effect
    BY <1>1, <2>1
  <2>3. QED
    BY <2>2 DEF effect_free, Elements
<1>3. QED
  BY <1>1, <1>2 DEF Effective

-----------------------------------------------------------------------------
(* Modules whose roots are rewritten.                                      *)

SameBut(n, src, f, g) ==
    /\ g = [f EXCEPT !.body = g.body, !.default = g.default]
    /\ BlockIn(n, src, g.body)
    /\ BlockIn(n, src, g.default) /\ CallsNothing(g.default)

Rerooted(m, n, src) ==
    /\ n = [defs |-> n.defs, impls |-> n.impls, functions |-> n.functions, lets |-> n.lets]
    /\ n.functions = [i \in DOMAIN m.functions |-> n.functions[i]]
    /\ \A i \in DOMAIN m.functions : SameBut(n, src, m.functions[i], n.functions[i])
    /\ n.impls = [i \in DOMAIN m.impls |-> n.impls[i]]
    /\ \A i \in DOMAIN m.impls : SameBut(n, src, m.impls[i], n.impls[i])
    /\ n.defs = [k \in Kinds |-> [i \in DOMAIN m.defs[k] |-> n.defs[k][i]]]
    /\ \A k \in Kinds : \A i \in DOMAIN m.defs[k] :
          /\ n.defs[k][i] = [m.defs[k][i] EXCEPT !.default = n.defs[k][i].default]
          /\ BlockIn(n, src, n.defs[k][i].default)

LetsIn(m, src, lets) ==
    /\ lets \in Seq(LetDef)
    /\ InOrder(lets, src.lets)
    /\ \A i \in DOMAIN lets : LetIn(m, src, lets[i])

\* A module and the parts of it.
LEMMA ModuleParts ==
  ASSUME NEW m \in Module
  PROVE  /\ \A k \in Kinds : /\ m.defs[k] \in Seq(Def) /\ Len(m.defs[k]) \in Nat
                             /\ DOMAIN m.defs[k] = 1..Len(m.defs[k])
                             /\ \A i \in DOMAIN m.defs[k] : m.defs[k][i] \in Def
         /\ m.impls \in Seq(Impl) /\ Len(m.impls) \in Nat /\ DOMAIN m.impls = 1..Len(m.impls)
         /\ \A i \in DOMAIN m.impls : m.impls[i] \in Impl
         /\ m.functions \in Seq(Function) /\ Len(m.functions) \in Nat
         /\ DOMAIN m.functions = 1..Len(m.functions)
         /\ \A i \in DOMAIN m.functions : m.functions[i] \in Function
         /\ m.lets \in Seq(LetDef) /\ Len(m.lets) \in Nat /\ DOMAIN m.lets = 1..Len(m.lets)
         /\ \A i \in DOMAIN m.lets : m.lets[i] \in LetDef
<1>1. /\ m.defs \in [Kinds -> Seq(Def)] /\ m.impls \in Seq(Impl)
      /\ m.functions \in Seq(Function) /\ m.lets \in Seq(LetDef)
  BY DEF Module
<1>2. ASSUME NEW k \in Kinds
      PROVE  /\ m.defs[k] \in Seq(Def) /\ Len(m.defs[k]) \in Nat
             /\ DOMAIN m.defs[k] = 1..Len(m.defs[k])
             /\ \A i \in DOMAIN m.defs[k] : m.defs[k][i] \in Def
  <2>1. m.defs[k] \in Seq(Def)
    BY <1>1
  <2>2. QED
    BY <2>1
<1>3. QED
  BY <1>1, <1>2

LEMMA SameFunction ==
  ASSUME NEW n, NEW src, NEW f \in Function, NEW g, SameBut(n, src, f, g)
  PROVE  g \in Function /\ g.sig = f.sig /\ g.bounds = f.bounds
<1>1. g.body \in Block /\ g.default \in Block
  BY DEF SameBut, BlockIn
<1>2. g = [f EXCEPT !.body = g.body, !.default = g.default]
  BY DEF SameBut
<1>3. QED
  BY <1>1, <1>2 DEF Function

LEMMA SameImpl ==
  ASSUME NEW n, NEW src, NEW f \in Impl, NEW g, SameBut(n, src, f, g)
  PROVE  /\ g \in Impl /\ g.sig = f.sig /\ g.bounds = f.bounds
         /\ g.was = f.was /\ g.target = f.target /\ g.trait = f.trait
<1>1. g.body \in Block /\ g.default \in Block
  BY DEF SameBut, BlockIn
<1>2. g = [f EXCEPT !.body = g.body, !.default = g.default]
  BY DEF SameBut
<1>3. QED
  BY <1>1, <1>2 DEF Impl

LEMMA SameDef ==
  ASSUME NEW d \in Def, NEW g, g = [d EXCEPT !.default = g.default], g.default \in Block
  PROVE  /\ g \in Def /\ g.was = d.was /\ g.pub = d.pub /\ g.types = d.types
         /\ g.composed = d.composed /\ g.bounds = d.bounds
BY DEF Def

\* References of the items that stay where they are.
LEMMA RefsStay ==
  ASSUME NEW m, NEW n, \A k \in Kinds : SamePlaces(m.defs[k], n.defs[k]),
         NEW refs \in SUBSET Ref, \A r \in refs : RefOK(m, r)
  PROVE  \A r \in refs : RefOK(n, r)
<1>1. ASSUME NEW r \in refs PROVE RefOK(n, r)
  <2>1. r \in Ref /\ RefOK(m, r)
    OBVIOUS
  <2>2. QED
    BY <2>1, RefStays
<1>2. QED
  BY <1>1

LEMMA BoundsStay ==
  ASSUME NEW m, NEW n, \A k \in Kinds : SamePlaces(m.defs[k], n.defs[k]),
         NEW bounds \in SUBSET Bound, BoundsIn(m, bounds)
  PROVE  BoundsIn(n, bounds)
<1>1. ASSUME NEW b \in bounds PROVE RefOK(n, b.trait)
  <2>1. b.trait \in Ref /\ RefOK(m, b.trait)
    BY DEF BoundsIn, Bound
  <2>2. QED
    BY <2>1, RefStays
<1>2. QED
  BY <1>1 DEF BoundsIn

LEMMA DefStays ==
  ASSUME NEW m, NEW n, \A k \in Kinds : SamePlaces(m.defs[k], n.defs[k]),
         NEW src, NEW k \in Kinds, NEW d, DefIn(m, src, k, d),
         NEW g, g = [d EXCEPT !.default = g.default], BlockIn(n, src, g.default)
  PROVE  DefIn(n, src, k, g)
<1>1. d \in Def /\ g.default \in Block
  BY DEF DefIn, BlockIn
<1>2. /\ g \in Def /\ g.was = d.was /\ g.pub = d.pub /\ g.types = d.types
      /\ g.composed = d.composed /\ g.bounds = d.bounds
  BY <1>1, SameDef
<1>3. d.types \in SUBSET Ref /\ d.composed \in SUBSET Ref /\ d.bounds \in SUBSET Bound
  BY <1>1 DEF Def
<1>4. \A r \in d.types : RefOK(n, r)
  <2>1. ASSUME NEW r \in d.types PROVE RefOK(n, r)
    <3>1. r \in Ref /\ RefOK(m, r)
      BY <1>3 DEF DefIn
    <3>2. QED
      BY <3>1, RefStays
  <2>2. QED
    BY <2>1
<1>5. \A r \in d.composed : RefOK(n, r)
  <2>1. ASSUME NEW r \in d.composed PROVE RefOK(n, r)
    <3>1. r \in Ref /\ RefOK(m, r)
      BY <1>3 DEF DefIn
    <3>2. QED
      BY <3>1, RefStays
  <2>2. QED
    BY <2>1
<1>6. BoundsIn(n, d.bounds)
  <2>1. BoundsIn(m, d.bounds)
    BY DEF DefIn
  <2>2. QED
    BY <1>3, <2>1, BoundsStay
<1>7. QED
  BY <1>2, <1>4, <1>5, <1>6 DEF DefIn

LEMMA CallableStays ==
  ASSUME NEW m, NEW n, \A k \in Kinds : SamePlaces(m.defs[k], n.defs[k]),
         NEW src, NEW f, NEW s, CallableIn(m, src, f, s), f.sig \in SUBSET Ref,
         NEW g, SameBut(n, src, f, g), g.sig = f.sig, g.bounds = f.bounds
  PROVE  CallableIn(n, src, g, s)
<1>1. \A r \in f.sig : RefOK(n, r)
  <2>1. \A r \in f.sig : RefOK(m, r)
    BY DEF CallableIn
  <2>2. QED
    BY <2>1, RefsStay
<1>2. QED
  BY <1>1 DEF CallableIn, SameBut

LEMMA ImplStays ==
  ASSUME NEW m, NEW n, \A k \in Kinds : SamePlaces(m.defs[k], n.defs[k]),
         NEW src, NEW f, ImplIn(m, src, f), NEW g, SameBut(n, src, f, g)
  PROVE  ImplIn(n, src, g)
<1>1. f \in Impl
  BY DEF ImplIn
<1>2. /\ g \in Impl /\ g.sig = f.sig /\ g.bounds = f.bounds
      /\ g.was = f.was /\ g.target = f.target /\ g.trait = f.trait
  BY <1>1, SameImpl
<1>3. f.sig \in SUBSET Ref /\ f.target \in SUBSET Ref /\ f.trait \in SUBSET Bound
  BY <1>1 DEF Impl
<1>4. CallableIn(n, src, g, src.impls[g.was])
  <2>1. CallableIn(m, src, f, src.impls[f.was])
    BY DEF ImplIn
  <2>2. QED
    BY <1>2, <1>3, <2>1, CallableStays
<1>5. \A t \in f.target : RefOK(n, t)
  <2>1. \A t \in f.target : RefOK(m, t)
    BY DEF ImplIn
  <2>2. QED
    BY <1>3, <2>1, RefsStay
<1>6. BoundsIn(n, f.trait)
  <2>1. BoundsIn(m, f.trait)
    BY DEF ImplIn
  <2>2. QED
    BY <1>3, <2>1, BoundsStay
<1>7. QED
  BY <1>2, <1>4, <1>5, <1>6 DEF ImplIn

LEMMA SamePlacesInOrder ==
  ASSUME NEW a, NEW b, SamePlaces(a, b), NEW src, InOrder(a, src)
  PROVE  InOrder(b, src)
BY DEF SamePlaces, InOrder

LEMMA RerootedModule ==
  ASSUME NEW m, NEW src, ModuleIn(m, src), NEW n, Rerooted(m, n, src),
         LetsIn(n, src, n.lets)
  PROVE  /\ ModuleIn(n, src)
         /\ \A k \in Kinds : SamePlaces(m.defs[k], n.defs[k]) /\ Len(n.defs[k]) = Len(m.defs[k])
         /\ SamePlaces(m.impls, n.impls)
<1>1. m \in Module
  BY DEF ModuleIn
<1>2. ASSUME NEW k \in Kinds
      PROVE  /\ n.defs[k] \in Seq(Def) /\ Len(n.defs[k]) = Len(m.defs[k])
             /\ SamePlaces(m.defs[k], n.defs[k])
  <2>1. /\ Len(m.defs[k]) \in Nat /\ DOMAIN m.defs[k] = 1..Len(m.defs[k])
        /\ \A i \in DOMAIN m.defs[k] : m.defs[k][i] \in Def
    BY <1>1, ModuleParts
  <2>2. ASSUME NEW i \in DOMAIN m.defs[k]
        PROVE  n.defs[k][i] \in Def /\ n.defs[k][i].was = m.defs[k][i].was
    <3>1. /\ n.defs[k][i] = [m.defs[k][i] EXCEPT !.default = n.defs[k][i].default]
          /\ BlockIn(n, src, n.defs[k][i].default)
      BY DEF Rerooted
    <3>2. n.defs[k][i].default \in Block /\ m.defs[k][i] \in Def
      BY <2>1, <3>1 DEF BlockIn
    <3>3. QED
      BY <3>1, <3>2, SameDef
  <2>3. n.defs[k] = [i \in 1..Len(m.defs[k]) |-> n.defs[k][i]]
    BY <2>1 DEF Rerooted
  <2> DEFINE a == m.defs[k]
             b == n.defs[k]
  <2> HIDE DEF a, b
  <2>4. /\ Len(a) \in Nat /\ DOMAIN a = 1..Len(a) /\ b = [i \in 1..Len(a) |-> b[i]]
        /\ \A i \in 1..Len(a) : b[i] \in Def
    BY <2>1, <2>2, <2>3 DEF a, b
  <2>5. b \in Seq(Def) /\ Len(b) = Len(a) /\ DOMAIN b = 1..Len(a)
    BY <2>4, SeqBy
  <2>6. QED
    BY <2>1, <2>2, <2>5 DEF a, b, SamePlaces
<1>3. n.impls \in Seq(Impl) /\ SamePlaces(m.impls, n.impls)
      /\ \A i \in DOMAIN n.impls : ImplIn(n, src, n.impls[i])
  <2>1. Len(m.impls) \in Nat /\ DOMAIN m.impls = 1..Len(m.impls)
        /\ \A i \in DOMAIN m.impls : m.impls[i] \in Impl
    BY <1>1, ModuleParts
  <2>2. ASSUME NEW i \in DOMAIN m.impls
        PROVE  /\ n.impls[i] \in Impl /\ n.impls[i].was = m.impls[i].was
               /\ ImplIn(n, src, n.impls[i])
    <3>1. SameBut(n, src, m.impls[i], n.impls[i]) /\ m.impls[i] \in Impl
      BY <2>1 DEF Rerooted
    <3>2. ImplIn(m, src, m.impls[i])
      BY DEF ModuleIn
    <3>3. ImplIn(n, src, n.impls[i])
      BY <1>2, <3>1, <3>2, ImplStays
    <3>4. QED
      BY <3>1, <3>3, SameImpl
  <2>3. n.impls = [i \in 1..Len(m.impls) |-> n.impls[i]]
    BY <2>1 DEF Rerooted
  <2>4. n.impls \in Seq(Impl) /\ DOMAIN n.impls = 1..Len(m.impls)
    BY <2>1, <2>2, <2>3, SeqBy
  <2>5. QED
    BY <2>1, <2>2, <2>4 DEF SamePlaces
<1>4. n.functions \in Seq(Function) /\ FunctionsIn(n, src)
  <2>1. Len(m.functions) \in Nat /\ DOMAIN m.functions = 1..Len(m.functions)
        /\ \A i \in DOMAIN m.functions : m.functions[i] \in Function
    BY <1>1, ModuleParts
  <2>2. ASSUME NEW i \in DOMAIN m.functions
        PROVE  /\ n.functions[i] \in Function
               /\ CallableIn(n, src, n.functions[i], src.functions[i])
    <3>1. SameBut(n, src, m.functions[i], n.functions[i]) /\ m.functions[i] \in Function
      BY <2>1 DEF Rerooted
    <3>2. CallableIn(m, src, m.functions[i], src.functions[i])
      BY DEF ModuleIn, FunctionsIn
    <3>3. /\ n.functions[i] \in Function /\ n.functions[i].sig = m.functions[i].sig
          /\ n.functions[i].bounds = m.functions[i].bounds
      BY <3>1, SameFunction
    <3>4. m.functions[i].sig \in SUBSET Ref
      BY <3>1 DEF Function
    <3>5. QED
      BY <1>2, <3>1, <3>2, <3>3, <3>4, CallableStays
  <2>3. n.functions = [i \in 1..Len(m.functions) |-> n.functions[i]]
    BY <2>1 DEF Rerooted
  <2>4. /\ n.functions \in Seq(Function) /\ Len(n.functions) = Len(m.functions)
        /\ DOMAIN n.functions = 1..Len(m.functions)
    BY <2>1, <2>2, <2>3, SeqBy
  <2>5. Len(m.functions) = Len(src.functions)
    BY DEF ModuleIn, FunctionsIn
  <2>6. QED
    BY <2>1, <2>2, <2>4, <2>5 DEF FunctionsIn
<1>5. n \in Module
  <2>1. n.defs \in [Kinds -> Seq(Def)]
    <3>1. n.defs = [k \in Kinds |-> n.defs[k]]
      BY DEF Rerooted
    <3>2. QED
      BY <1>2, <3>1
  <2>2. n.lets \in Seq(LetDef)
    BY DEF LetsIn
  <2>3. n = [defs |-> n.defs, impls |-> n.impls, functions |-> n.functions, lets |-> n.lets]
    BY DEF Rerooted
  <2>4. QED
    BY <1>3, <1>4, <2>1, <2>2, <2>3 DEF Module
<1>6. ASSUME NEW k \in Kinds
      PROVE  /\ InOrder(n.defs[k], src.defs[k])
             /\ \A i \in DOMAIN n.defs[k] : DefIn(n, src, k, n.defs[k][i])
  <2>1. InOrder(n.defs[k], src.defs[k])
    <3>1. InOrder(m.defs[k], src.defs[k]) /\ SamePlaces(m.defs[k], n.defs[k])
      BY <1>2 DEF ModuleIn
    <3>2. QED
      BY <3>1, SamePlacesInOrder
  <2>2. ASSUME NEW i \in DOMAIN n.defs[k] PROVE DefIn(n, src, k, n.defs[k][i])
    <3>1. i \in DOMAIN m.defs[k]
      BY <1>2 DEF SamePlaces
    <3>2. /\ DefIn(m, src, k, m.defs[k][i])
          /\ n.defs[k][i] = [m.defs[k][i] EXCEPT !.default = n.defs[k][i].default]
          /\ BlockIn(n, src, n.defs[k][i].default)
      BY <3>1 DEF ModuleIn, Rerooted
    <3>3. QED
      BY <1>2, <3>2, DefStays
  <2>3. QED
    BY <2>1, <2>2
<1>7. InOrder(n.impls, src.impls)
  <2>1. InOrder(m.impls, src.impls)
    BY DEF ModuleIn
  <2>2. QED
    BY <1>3, <2>1, SamePlacesInOrder
<1>8. QED
  BY <1>2, <1>3, <1>4, <1>5, <1>6, <1>7 DEF ModuleIn, LetsIn

\* The bindings of a module: from a sequence of old bindings, with new values.
SameLets(lets, n, src) ==
    /\ n.lets = [i \in DOMAIN lets |-> n.lets[i]]
    /\ \A i \in DOMAIN lets :
          /\ n.lets[i] = [lets[i] EXCEPT !.value = n.lets[i].value]
          /\ BlockIn(n, src, n.lets[i].value)

LEMMA LetStays ==
  ASSUME NEW m, NEW n, \A k \in Kinds : SamePlaces(m.defs[k], n.defs[k]),
         NEW src, NEW l, LetIn(m, src, l),
         NEW g, g = [l EXCEPT !.value = g.value], BlockIn(n, src, g.value)
  PROVE  LetIn(n, src, g) /\ g.was = l.was /\ g.pub = l.pub /\ g.name = l.name
<1>1. l \in LetDef /\ g.value \in Block
  BY DEF LetIn, BlockIn
<1>2. /\ g \in LetDef /\ g.was = l.was /\ g.pub = l.pub /\ g.name = l.name
      /\ g.type = l.type
  BY <1>1 DEF LetDef
<1>3. ASSUME NEW r \in l.type PROVE RefOK(n, r)
  <2>1. r \in Ref /\ RefOK(m, r)
    BY <1>1 DEF LetIn, LetDef
  <2>2. QED
    BY <2>1, RefStays
<1>4. QED
  BY <1>2, <1>3 DEF LetIn

LEMMA SameLetsIn ==
  ASSUME NEW m, NEW n, \A k \in Kinds : SamePlaces(m.defs[k], n.defs[k]),
         NEW src, NEW lets, LetsIn(m, src, lets), SameLets(lets, n, src)
  PROVE  /\ LetsIn(n, src, n.lets) /\ DOMAIN n.lets = DOMAIN lets
         /\ \A i \in DOMAIN lets : /\ n.lets[i].was = lets[i].was
                                   /\ n.lets[i].pub = lets[i].pub
                                   /\ n.lets[i].name = lets[i].name
<1>1. /\ lets \in Seq(LetDef) /\ Len(lets) \in Nat /\ DOMAIN lets = 1..Len(lets)
      /\ InOrder(lets, src.lets)
  BY DEF LetsIn
<1>2. ASSUME NEW i \in DOMAIN lets
      PROVE  /\ LetIn(n, src, n.lets[i]) /\ n.lets[i] \in LetDef
             /\ n.lets[i].was = lets[i].was
             /\ n.lets[i].pub = lets[i].pub
             /\ n.lets[i].name = lets[i].name
  <2>1. LetIn(m, src, lets[i])
    BY DEF LetsIn
  <2>2. /\ n.lets[i] = [lets[i] EXCEPT !.value = n.lets[i].value]
        /\ BlockIn(n, src, n.lets[i].value)
    BY DEF SameLets
  <2>3. /\ LetIn(n, src, n.lets[i]) /\ n.lets[i].was = lets[i].was
        /\ n.lets[i].pub = lets[i].pub /\ n.lets[i].name = lets[i].name
    BY <2>1, <2>2, LetStays
  <2>4. QED
    BY <2>3 DEF LetIn
<1>3. n.lets = [i \in 1..Len(lets) |-> n.lets[i]]
  BY <1>1 DEF SameLets
<1>4. n.lets \in Seq(LetDef) /\ DOMAIN n.lets = DOMAIN lets
  BY <1>1, <1>2, <1>3, SeqBy
<1>5. SamePlaces(lets, n.lets)
  BY <1>2, <1>4 DEF SamePlaces
<1>6. InOrder(n.lets, src.lets)
  BY <1>1, <1>5, SamePlacesInOrder
<1>7. QED
  BY <1>2, <1>4, <1>6 DEF LetsIn

\* What may not go does not, when the items stay.
LEMMA NothingGoes ==
  ASSUME NEW m, NEW n, NEW src \in Module, \A k \in Kinds : SamePlaces(m.defs[k], n.defs[k]),
         SamePlaces(m.impls, n.impls), PublicStay(m, src), ImplsStay(m, src)
  PROVE  PublicStay(n, src) /\ ImplsStay(n, src)
<1>1. ASSUME NEW k, NEW was, k \in Kinds PROVE Holds(m.defs[k], was) <=> Holds(n.defs[k], was)
  <2>1. SamePlaces(m.defs[k], n.defs[k])
    BY <1>1
  <2>2. QED
    BY <2>1 DEF Holds, SamePlaces
<1>2. ASSUME NEW was PROVE Holds(m.impls, was) => Holds(n.impls, was)
  BY DEF Holds, SamePlaces
<1>3. PublicStay(n, src)
  BY <1>1 DEF PublicStay
<1>4. ImplsStay(n, src)
  <2> SUFFICES ASSUME NEW i \in DOMAIN src.impls,
                      \A t \in src.impls[i].target : Holds(n.defs[t.kind], t.means)
               PROVE  Holds(n.impls, i)
    BY DEF ImplsStay
  <2>1. ASSUME NEW t \in src.impls[i].target PROVE Holds(m.defs[t.kind], t.means)
    <3>1. t.kind \in Kinds
      <4>1. src.impls[i] \in Impl
        BY ModuleParts
      <4>2. t \in Ref
        BY <4>1 DEF Impl
      <4>3. QED
        BY <4>2 DEF Ref
    <3>2. QED
      BY <1>1, <3>1
  <2>2. Holds(m.impls, i)
    BY <2>1 DEF ImplsStay
  <2>3. QED
    BY <1>2, <2>2
<1>5. QED
  BY <1>3, <1>4

\* n is m with the bindings given and its roots rewritten: F rewrites every
\* root, P the parameter defaults.
OnFunction(f, F, P) == [f EXCEPT !.body = F[@], !.default = P[@]]
OnDef(d, F) == [d EXCEPT !.default = F[@]]
OnLet(l, F) == [l EXCEPT !.value = F[@]]
Rewritten(m, n, lets, F, P) ==
    /\ n = [defs |-> n.defs, impls |-> n.impls, functions |-> n.functions, lets |-> n.lets]
    /\ n.functions = [i \in DOMAIN m.functions |-> OnFunction(m.functions[i], F, P)]
    /\ n.impls = [i \in DOMAIN m.impls |-> OnFunction(m.impls[i], F, P)]
    /\ n.defs = [k \in Kinds |-> n.defs[k]]
    /\ \A k \in Kinds : n.defs[k] = [i \in DOMAIN m.defs[k] |-> OnDef(m.defs[k][i], F)]
    /\ n.lets = [i \in DOMAIN lets |-> OnLet(lets[i], F)]

LEMMA OnFunctionShape ==
  ASSUME NEW F, NEW P, NEW f \in Function \cup Impl
  PROVE  OnFunction(f, F, P).body = F[f.body] /\ OnFunction(f, F, P).default = P[f.default]
BY DEF OnFunction, Function, Impl

LEMMA OnImplShape ==
  ASSUME NEW F, NEW P, NEW f \in Impl
  PROVE  OnFunction(f, F, P).was = f.was
BY DEF OnFunction, Impl

LEMMA OnDefShape ==
  ASSUME NEW F, NEW d \in Def
  PROVE  OnDef(d, F).default = F[d.default] /\ OnDef(d, F).was = d.was
BY DEF OnDef, Def

LEMMA OnLetShape ==
  ASSUME NEW F, NEW l \in LetDef
  PROVE  OnLet(l, F).value = F[l.value] /\ OnLet(l, F).was = l.was
BY DEF OnLet, LetDef

LEMMA RewrittenPlaces ==
  ASSUME NEW m \in Module, NEW n, NEW lets, NEW F, NEW P, Rewritten(m, n, lets, F, P),
         \A i \in DOMAIN lets : lets[i] \in LetDef
  PROVE  /\ \A k \in Kinds : SamePlaces(m.defs[k], n.defs[k])
         /\ SamePlaces(m.impls, n.impls)
         /\ SamePlaces(lets, n.lets)
<1>1. ASSUME NEW k \in Kinds PROVE SamePlaces(m.defs[k], n.defs[k])
  <2>1. n.defs[k] = [i \in DOMAIN m.defs[k] |-> OnDef(m.defs[k][i], F)]
    BY DEF Rewritten
  <2>2. \A i \in DOMAIN m.defs[k] : m.defs[k][i] \in Def
    BY ModuleParts
  <2>3. ASSUME NEW i \in DOMAIN m.defs[k] PROVE n.defs[k][i].was = m.defs[k][i].was
    <3>1. m.defs[k][i] \in Def /\ n.defs[k][i] = OnDef(m.defs[k][i], F)
      BY <2>1, <2>2
    <3>2. OnDef(m.defs[k][i], F).was = m.defs[k][i].was
      BY <3>1, OnDefShape
    <3>3. QED
      BY <3>1, <3>2
  <2>4. DOMAIN n.defs[k] = DOMAIN m.defs[k]
    BY <2>1
  <2>5. QED
    BY <2>3, <2>4 DEF SamePlaces
<1>2. SamePlaces(m.impls, n.impls)
  <2>1. n.impls = [i \in DOMAIN m.impls |-> OnFunction(m.impls[i], F, P)]
    BY DEF Rewritten
  <2>2. \A i \in DOMAIN m.impls : m.impls[i] \in Impl
    BY ModuleParts
  <2>3. ASSUME NEW i \in DOMAIN m.impls PROVE n.impls[i].was = m.impls[i].was
    <3>1. m.impls[i] \in Impl /\ n.impls[i] = OnFunction(m.impls[i], F, P)
      BY <2>1, <2>2
    <3>2. OnFunction(m.impls[i], F, P).was = m.impls[i].was
      BY <3>1, OnImplShape
    <3>3. QED
      BY <3>1, <3>2
  <2>4. QED
    BY <2>1, <2>3 DEF SamePlaces
<1>3. SamePlaces(lets, n.lets)
  <2>1. n.lets = [i \in DOMAIN lets |-> OnLet(lets[i], F)]
    BY DEF Rewritten
  <2>2. ASSUME NEW i \in DOMAIN lets PROVE n.lets[i].was = lets[i].was
    <3>1. lets[i] \in LetDef /\ n.lets[i] = OnLet(lets[i], F)
      BY <2>1
    <3>2. OnLet(lets[i], F).was = lets[i].was
      BY <3>1, OnLetShape
    <3>3. QED
      BY <3>1, <3>2
  <2>3. QED
    BY <2>1, <2>2 DEF SamePlaces
<1>4. QED
  BY <1>1, <1>2, <1>3

\* The roots of a module.
LEMMA RootsAre ==
  ASSUME NEW m
  PROVE  /\ \A i \in DOMAIN m.functions : /\ m.functions[i].body \in RootsOf(m)
                                          /\ m.functions[i].default \in RootsOf(m)
         /\ \A i \in DOMAIN m.impls : /\ m.impls[i].body \in RootsOf(m)
                                      /\ m.impls[i].default \in RootsOf(m)
         /\ \A k \in Kinds : \A i \in DOMAIN m.defs[k] : m.defs[k][i].default \in RootsOf(m)
         /\ \A i \in DOMAIN m.lets : m.lets[i].value \in RootsOf(m)
<1> DEFINE ofFunctions == UNION {{f.body, f.default} : f \in Elements(m.functions)}
           ofImpls == UNION {{i.body, i.default} : i \in Elements(m.impls)}
           ofDefs == {d.default : d \in UNION {Elements(m.defs[k]) : k \in Kinds}}
           ofLets == {l.value : l \in Elements(m.lets)}
<1>1. RootsOf(m) = ofFunctions \cup ofImpls \cup ofDefs \cup ofLets
  BY DEF RootsOf
<1>2. ASSUME NEW i \in DOMAIN m.functions
      PROVE  m.functions[i].body \in ofFunctions /\ m.functions[i].default \in ofFunctions
  <2>1. m.functions[i] \in Elements(m.functions)
    BY DEF Elements
  <2>2. QED
    BY <2>1
<1>3. ASSUME NEW i \in DOMAIN m.impls
      PROVE  m.impls[i].body \in ofImpls /\ m.impls[i].default \in ofImpls
  <2>1. m.impls[i] \in Elements(m.impls)
    BY DEF Elements
  <2>2. QED
    BY <2>1
<1>4. ASSUME NEW k \in Kinds, NEW i \in DOMAIN m.defs[k]
      PROVE  m.defs[k][i].default \in ofDefs
  <2>1. m.defs[k][i] \in Elements(m.defs[k])
    BY DEF Elements
  <2>2. m.defs[k][i] \in UNION {Elements(m.defs[j]) : j \in Kinds}
    BY <2>1
  <2>3. QED
    BY <2>2
<1>5. ASSUME NEW i \in DOMAIN m.lets PROVE m.lets[i].value \in ofLets
  <2>1. m.lets[i] \in Elements(m.lets)
    BY DEF Elements
  <2>2. QED
    BY <2>1
<1> HIDE DEF ofFunctions, ofImpls, ofDefs, ofLets
<1>6. QED
  BY <1>1, <1>2, <1>3, <1>4, <1>5

LEMMA RewrittenModule ==
  ASSUME NEW src, NEW m, ModuleIn(m, src), NEW lets, LetsIn(m, src, lets),
         NEW n, NEW F, NEW P, Rewritten(m, n, lets, F, P),
         \A i \in DOMAIN lets : lets[i].value \in RootsOf(m),
         \A e \in RootsOf(m) : BlockIn(m, src, e) => BlockIn(n, src, F[e]),
         \A e \in RootsOf(m) : BlockIn(m, src, e) /\ CallsNothing(e) =>
                                  BlockIn(n, src, P[e]) /\ CallsNothing(P[e])
  PROVE  /\ ModuleIn(n, src) /\ \A k \in Kinds : Len(n.defs[k]) = Len(m.defs[k])
         /\ DOMAIN n.lets = DOMAIN lets
         /\ \A i \in DOMAIN lets : /\ n.lets[i].was = lets[i].was
                                   /\ n.lets[i].pub = lets[i].pub
                                   /\ n.lets[i].value = F[lets[i].value]
<1>1. m \in Module
  BY DEF ModuleIn
<1>2. \A i \in DOMAIN lets : lets[i] \in LetDef /\ BlockIn(m, src, lets[i].value)
  BY DEF LetsIn, LetIn
<1>3. \A k \in Kinds : SamePlaces(m.defs[k], n.defs[k])
  BY <1>1, <1>2, RewrittenPlaces
<1>4. ASSUME NEW f \in Function \cup Impl, NEW s, CallableIn(m, src, f, s),
             f.body \in RootsOf(m), f.default \in RootsOf(m)
      PROVE  SameBut(n, src, f, OnFunction(f, F, P))
  <2> DEFINE g == OnFunction(f, F, P)
  <2>1. BlockIn(m, src, f.body) /\ BlockIn(m, src, f.default) /\ CallsNothing(f.default)
    BY <1>4 DEF CallableIn
  <2>2. g.body = F[f.body] /\ g.default = P[f.default]
    BY OnFunctionShape
  <2>3. g = [f EXCEPT !.body = g.body, !.default = g.default]
    BY <2>2 DEF OnFunction
  <2>4. BlockIn(n, src, g.body) /\ BlockIn(n, src, g.default) /\ CallsNothing(g.default)
    BY <1>4, <2>1, <2>2
  <2>5. QED
    BY <2>3, <2>4 DEF SameBut
<1>5. Rerooted(m, n, src)
  <2>1. ASSUME NEW i \in DOMAIN m.functions
        PROVE  SameBut(n, src, m.functions[i], n.functions[i])
    <3>1. m.functions[i] \in Function /\ CallableIn(m, src, m.functions[i], src.functions[i])
      BY <1>1, ModuleParts DEF ModuleIn, FunctionsIn
    <3>2. n.functions[i] = OnFunction(m.functions[i], F, P)
      BY DEF Rewritten
    <3>3. QED
      BY <1>4, <3>1, <3>2, RootsAre
  <2>2. ASSUME NEW i \in DOMAIN m.impls
        PROVE  SameBut(n, src, m.impls[i], n.impls[i])
    <3>1. /\ m.impls[i] \in Impl
          /\ CallableIn(m, src, m.impls[i], src.impls[m.impls[i].was])
      BY <1>1, ModuleParts DEF ModuleIn, ImplIn
    <3>2. n.impls[i] = OnFunction(m.impls[i], F, P)
      BY DEF Rewritten
    <3>3. QED
      BY <1>4, <3>1, <3>2, RootsAre
  <2>3. ASSUME NEW k \in Kinds, NEW i \in DOMAIN m.defs[k]
        PROVE  /\ n.defs[k][i] = [m.defs[k][i] EXCEPT !.default = n.defs[k][i].default]
               /\ BlockIn(n, src, n.defs[k][i].default)
    <3> DEFINE d == m.defs[k][i]
               g == n.defs[k][i]
    <3>7. d.default \in RootsOf(m)
      BY RootsAre
    <3>1. d \in Def /\ BlockIn(m, src, d.default)
      BY <1>1, ModuleParts DEF ModuleIn, DefIn
    <3>2. g = OnDef(d, F)
      <4>1. n.defs[k] = [j \in DOMAIN m.defs[k] |-> OnDef(m.defs[k][j], F)]
        BY DEF Rewritten
      <4>2. QED
        BY <4>1
    <3> HIDE DEF d, g
    <3>3. g.default = F[d.default]
      BY <3>1, <3>2, OnDefShape
    <3>4. g = [d EXCEPT !.default = g.default]
      BY <3>2, <3>3 DEF OnDef
    <3>5. BlockIn(n, src, g.default)
      BY <3>1, <3>3, <3>7
    <3>6. QED
      BY <3>4, <3>5 DEF d, g
  <2>4. /\ n.functions = [i \in DOMAIN m.functions |-> n.functions[i]]
        /\ n.impls = [i \in DOMAIN m.impls |-> n.impls[i]]
    BY DEF Rewritten
  <2>5. n.defs = [k \in Kinds |-> [i \in DOMAIN m.defs[k] |-> n.defs[k][i]]]
    <3>1. n.defs = [k \in Kinds |-> n.defs[k]]
      BY DEF Rewritten
    <3>2. ASSUME NEW k \in Kinds PROVE n.defs[k] = [i \in DOMAIN m.defs[k] |-> n.defs[k][i]]
      BY DEF Rewritten
    <3>3. QED
      BY <3>1, <3>2
  <2>6. n = [defs |-> n.defs, impls |-> n.impls, functions |-> n.functions, lets |-> n.lets]
    BY DEF Rewritten
  <2>7. QED
    BY <2>1, <2>2, <2>3, <2>4, <2>5, <2>6 DEF Rerooted
<1>6. /\ SameLets(lets, n, src)
      /\ \A i \in DOMAIN lets : n.lets[i].value = F[lets[i].value]
  <2>1. ASSUME NEW i \in DOMAIN lets
        PROVE  /\ n.lets[i].value = F[lets[i].value]
               /\ n.lets[i] = [lets[i] EXCEPT !.value = n.lets[i].value]
               /\ BlockIn(n, src, n.lets[i].value)
    <3> DEFINE l == lets[i]
               g == n.lets[i]
    <3>1. l \in LetDef /\ BlockIn(m, src, l.value) /\ l.value \in RootsOf(m)
      BY <1>2
    <3>2. g = OnLet(l, F)
      BY DEF Rewritten
    <3> HIDE DEF l, g
    <3>3. g.value = F[l.value]
      BY <3>1, <3>2, OnLetShape
    <3>4. g = [l EXCEPT !.value = g.value]
      BY <3>2, <3>3 DEF OnLet
    <3>5. BlockIn(n, src, g.value)
      BY <3>1, <3>3
    <3>6. QED
      BY <3>3, <3>4, <3>5 DEF l, g
  <2>2. n.lets = [i \in DOMAIN lets |-> n.lets[i]]
    BY DEF Rewritten
  <2>3. QED
    BY <2>1, <2>2 DEF SameLets
<1>7. /\ LetsIn(n, src, n.lets) /\ DOMAIN n.lets = DOMAIN lets
      /\ \A i \in DOMAIN lets : /\ n.lets[i].was = lets[i].was
                                /\ n.lets[i].pub = lets[i].pub
  BY <1>3, <1>6, SameLetsIn
<1>8. ModuleIn(n, src) /\ \A k \in Kinds : Len(n.defs[k]) = Len(m.defs[k])
  BY <1>5, <1>7, RerootedModule
<1>9. QED
  BY <1>6, <1>7, <1>8

\* The blocks of a module.
LEMMA ModuleBlocks ==
  ASSUME NEW m \in Module
  PROVE  /\ \A k \in Kinds : \A i \in DOMAIN m.defs[k] : m.defs[k][i].default \in Block
         /\ \A i \in DOMAIN m.impls :
               m.impls[i].body \in Block /\ m.impls[i].default \in Block
         /\ \A i \in DOMAIN m.functions :
               m.functions[i].body \in Block /\ m.functions[i].default \in Block
         /\ \A i \in DOMAIN m.lets : m.lets[i].value \in Block
<1>1. ASSUME NEW k \in Kinds, NEW i \in DOMAIN m.defs[k] PROVE m.defs[k][i].default \in Block
  <2>1. m.defs[k][i] \in Def
    BY ModuleParts
  <2>2. QED
    BY <2>1 DEF Def
<1>2. ASSUME NEW i \in DOMAIN m.impls
      PROVE  m.impls[i].body \in Block /\ m.impls[i].default \in Block
  <2>1. m.impls[i] \in Impl
    BY ModuleParts
  <2>2. QED
    BY <2>1 DEF Impl
<1>3. ASSUME NEW i \in DOMAIN m.functions
      PROVE  m.functions[i].body \in Block /\ m.functions[i].default \in Block
  <2>1. m.functions[i] \in Function
    BY ModuleParts
  <2>2. QED
    BY <2>1 DEF Function
<1>4. ASSUME NEW i \in DOMAIN m.lets PROVE m.lets[i].value \in Block
  <2>1. m.lets[i] \in LetDef
    BY ModuleParts
  <2>2. QED
    BY <2>1 DEF LetDef
<1>5. QED
  BY <1>1, <1>2, <1>3, <1>4

LEMMA CollapseRewrites ==
  ASSUME NEW m \in Module, NEW n, n = OnRoots(m, eliminate_dead_code_expr, Same,
                 eliminate_dead_code_expr, eliminate_dead_code_expr),
         NEW F, F = [e \in Block |-> eliminate_dead_code_expr(e)],
         NEW P, P = [e \in Block |-> e]
  PROVE  Rewritten(m, n, m.lets, F, P)
<1>1. /\ n = [defs |-> n.defs, impls |-> n.impls, functions |-> n.functions, lets |-> n.lets]
      /\ n.defs = [k \in Kinds |-> n.defs[k]]
  BY DEF OnRoots
<1>2. n.functions = [i \in DOMAIN m.functions |-> OnFunction(m.functions[i], F, P)]
  <2>1. n.functions = [i \in DOMAIN m.functions |->
           [m.functions[i] EXCEPT !.body = eliminate_dead_code_expr(@), !.default = @]]
    BY DEF OnRoots, Same
  <2>2. QED
    BY <2>1, ModuleBlocks DEF OnFunction
<1>3. n.impls = [i \in DOMAIN m.impls |-> OnFunction(m.impls[i], F, P)]
  <2>1. n.impls = [i \in DOMAIN m.impls |->
           [m.impls[i] EXCEPT !.body = eliminate_dead_code_expr(@), !.default = @]]
    BY DEF OnRoots, Same
  <2>2. QED
    BY <2>1, ModuleBlocks DEF OnFunction
<1>4. ASSUME NEW k \in Kinds
      PROVE  n.defs[k] = [i \in DOMAIN m.defs[k] |-> OnDef(m.defs[k][i], F)]
  <2>1. n.defs[k] = [i \in DOMAIN m.defs[k] |->
           [m.defs[k][i] EXCEPT !.default = eliminate_dead_code_expr(@)]]
    BY DEF OnRoots
  <2>2. QED
    BY <2>1, ModuleBlocks DEF OnDef
<1>5. n.lets = [i \in DOMAIN m.lets |-> OnLet(m.lets[i], F)]
  <2>1. n.lets = [i \in DOMAIN m.lets |->
           [m.lets[i] EXCEPT !.value = eliminate_dead_code_expr(@)]]
    BY DEF OnRoots
  <2>2. QED
    BY <2>1, ModuleBlocks DEF OnLet
<1>6. QED
  BY <1>1, <1>2, <1>3, <1>4, <1>5 DEF Rewritten

LEMMA CollapsedModule ==
  ASSUME NEW src \in Module, NEW m, ModuleIn(m, src),
         NEW n, n = OnRoots(m, eliminate_dead_code_expr, Same,
                            eliminate_dead_code_expr, eliminate_dead_code_expr)
  PROVE  /\ ModuleIn(n, src) /\ \A k \in Kinds : Len(n.defs[k]) = Len(m.defs[k])
         /\ PublicStay(m, src) /\ ImplsStay(m, src) => PublicStay(n, src) /\ ImplsStay(n, src)
         /\ LetsStay(m, src, "branches") => LetsStay(n, src, "locals")
<1> DEFINE F == [e \in Block |-> eliminate_dead_code_expr(e)]
           P == [e \in Block |-> e]
<1>1. m \in Module
  BY DEF ModuleIn
<1>2. Rewritten(m, n, m.lets, F, P)
  BY <1>1, CollapseRewrites
<1>3. LetsIn(m, src, m.lets) /\ \A i \in DOMAIN m.lets : m.lets[i] \in LetDef
  BY <1>1, ModuleParts DEF ModuleIn, LetsIn
<1>4. ASSUME NEW e, BlockIn(m, src, e)
      PROVE  /\ F[e] = eliminate_dead_code_expr(e) /\ P[e] = e
             /\ Certain(e) => Effective(F[e])
  <2>1. e \in Block
    BY <1>4 DEF BlockIn
  <2>2. QED
    BY <1>4, <2>1, CollapsedBlock
<1> HIDE DEF F, P
<1>5. SameModulePlaces(m, n)
  BY <1>1, <1>2, <1>3, RewrittenPlaces DEF SameModulePlaces
<1>6. ASSUME NEW e, BlockIn(m, src, e)
      PROVE  BlockIn(n, src, F[e]) /\ BlockIn(n, src, P[e])
  <2>1. BlockIn(n, src, e)
    BY <1>5, <1>6, BlockStays
  <2>2. BlockIn(n, src, eliminate_dead_code_expr(e))
    BY <2>1, CollapsedBlock
  <2>3. QED
    BY <1>4, <1>6, <2>1, <2>2
<1>7. ASSUME NEW e, BlockIn(m, src, e) /\ CallsNothing(e)
      PROVE  BlockIn(n, src, P[e]) /\ CallsNothing(P[e])
  BY <1>4, <1>6, <1>7
<1>8. /\ ModuleIn(n, src) /\ \A k \in Kinds : Len(n.defs[k]) = Len(m.defs[k])
      /\ DOMAIN n.lets = DOMAIN m.lets
      /\ \A i \in DOMAIN m.lets : /\ n.lets[i].was = m.lets[i].was
                                  /\ n.lets[i].pub = m.lets[i].pub
                                  /\ n.lets[i].value = F[m.lets[i].value]
  BY <1>2, <1>3, <1>6, <1>7, RootsAre, RewrittenModule
<1>9. PublicStay(m, src) /\ ImplsStay(m, src) => PublicStay(n, src) /\ ImplsStay(n, src)
  BY <1>5, NothingGoes DEF SameModulePlaces
<1>10. LetsStay(m, src, "branches") => LetsStay(n, src, "locals")
  <2> SUFFICES ASSUME LetsStay(m, src, "branches"), NEW i \in DOMAIN src.lets,
                      src.lets[i].pub \/ Certain(src.lets[i].value)
               PROVE  \E j \in DOMAIN n.lets :
                         /\ n.lets[j].was = i
                         /\ n.lets[j].pub \/ Effective(n.lets[j].value)
    BY DEF LetsStay
  <2>1. PICK j \in DOMAIN m.lets : /\ m.lets[j].was = i
                                   /\ m.lets[j].pub \/ Certain(m.lets[j].value)
    BY DEF LetsStay
  <2>2. BlockIn(m, src, m.lets[j].value)
    BY <1>1 DEF ModuleIn, LetIn
  <2>3. Certain(m.lets[j].value) => Effective(n.lets[j].value)
    BY <1>4, <1>8, <2>2
  <2>4. QED
    BY <1>8, <2>1, <2>3
<1>11. QED
  BY <1>8, <1>9, <1>10

LEMMA LocalsRewrite ==
  ASSUME NEW m \in Module, NEW n, n = OnRoots(m, remove_unused_locals, remove_unused_locals,
                 remove_unused_locals, remove_unused_locals),
         NEW F, F = [e \in Block |-> remove_unused_locals(e)],
         NEW P, P = [e \in Block |-> remove_unused_locals(e)]
  PROVE  Rewritten(m, n, m.lets, F, P)
<1>1. /\ n = [defs |-> n.defs, impls |-> n.impls, functions |-> n.functions, lets |-> n.lets]
      /\ n.defs = [k \in Kinds |-> n.defs[k]]
  BY DEF OnRoots
<1>2. n.functions = [i \in DOMAIN m.functions |-> OnFunction(m.functions[i], F, P)]
  <2>1. n.functions = [i \in DOMAIN m.functions |->
           [m.functions[i] EXCEPT !.body = remove_unused_locals(@),
                                  !.default = remove_unused_locals(@)]]
    BY DEF OnRoots
  <2>2. QED
    BY <2>1, ModuleBlocks DEF OnFunction
<1>3. n.impls = [i \in DOMAIN m.impls |-> OnFunction(m.impls[i], F, P)]
  <2>1. n.impls = [i \in DOMAIN m.impls |->
           [m.impls[i] EXCEPT !.body = remove_unused_locals(@),
                                  !.default = remove_unused_locals(@)]]
    BY DEF OnRoots
  <2>2. QED
    BY <2>1, ModuleBlocks DEF OnFunction
<1>4. ASSUME NEW k \in Kinds
      PROVE  n.defs[k] = [i \in DOMAIN m.defs[k] |-> OnDef(m.defs[k][i], F)]
  <2>1. n.defs[k] = [i \in DOMAIN m.defs[k] |->
           [m.defs[k][i] EXCEPT !.default = remove_unused_locals(@)]]
    BY DEF OnRoots
  <2>2. QED
    BY <2>1, ModuleBlocks DEF OnDef
<1>5. n.lets = [i \in DOMAIN m.lets |-> OnLet(m.lets[i], F)]
  <2>1. n.lets = [i \in DOMAIN m.lets |->
           [m.lets[i] EXCEPT !.value = remove_unused_locals(@)]]
    BY DEF OnRoots
  <2>2. QED
    BY <2>1, ModuleBlocks DEF OnLet
<1>6. QED
  BY <1>1, <1>2, <1>3, <1>4, <1>5 DEF Rewritten

LEMMA LocalsModule ==
  ASSUME NEW src \in Module, NEW m, ModuleIn(m, src),
         NEW n, n = OnRoots(m, remove_unused_locals, remove_unused_locals,
                            remove_unused_locals, remove_unused_locals)
  PROVE  /\ ModuleIn(n, src) /\ \A k \in Kinds : Len(n.defs[k]) = Len(m.defs[k])
         /\ PublicStay(m, src) /\ ImplsStay(m, src) => PublicStay(n, src) /\ ImplsStay(n, src)
         /\ \A part \in {"lets", "done"} :
               LetsStay(m, src, "locals") => LetsStay(n, src, part)
<1> DEFINE F == [e \in Block |-> remove_unused_locals(e)]
           P == F
<1>1. m \in Module
  BY DEF ModuleIn
<1>2. Rewritten(m, n, m.lets, F, P)
  BY <1>1, LocalsRewrite
<1>3. LetsIn(m, src, m.lets) /\ \A i \in DOMAIN m.lets : m.lets[i] \in LetDef
  BY <1>1, ModuleParts DEF ModuleIn, LetsIn
<1>4. ASSUME NEW e, BlockIn(m, src, e)
      PROVE  /\ F[e] = remove_unused_locals(e) /\ P[e] = remove_unused_locals(e)
             /\ Effective(e) => Effective(F[e])
             /\ CallsNothing(e) => CallsNothing(P[e])
  <2>1. e \in Block
    BY <1>4 DEF BlockIn
  <2>2. QED
    BY <1>4, <2>1, KeptBlock
<1> HIDE DEF F, P
<1>5. SameModulePlaces(m, n)
  BY <1>1, <1>2, <1>3, RewrittenPlaces DEF SameModulePlaces
<1>6. ASSUME NEW e, BlockIn(m, src, e)
      PROVE  BlockIn(n, src, F[e]) /\ BlockIn(n, src, P[e])
  <2>1. BlockIn(n, src, e)
    BY <1>5, <1>6, BlockStays
  <2>2. BlockIn(n, src, remove_unused_locals(e))
    BY <2>1, KeptBlock
  <2>3. QED
    BY <1>4, <1>6, <2>1, <2>2
<1>7. ASSUME NEW e, BlockIn(m, src, e) /\ CallsNothing(e)
      PROVE  BlockIn(n, src, P[e]) /\ CallsNothing(P[e])
  BY <1>4, <1>6, <1>7
<1>8. /\ ModuleIn(n, src) /\ \A k \in Kinds : Len(n.defs[k]) = Len(m.defs[k])
      /\ DOMAIN n.lets = DOMAIN m.lets
      /\ \A i \in DOMAIN m.lets : /\ n.lets[i].was = m.lets[i].was
                                  /\ n.lets[i].pub = m.lets[i].pub
                                  /\ n.lets[i].value = F[m.lets[i].value]
  BY <1>2, <1>3, <1>6, <1>7, RootsAre, RewrittenModule
<1>9. PublicStay(m, src) /\ ImplsStay(m, src) => PublicStay(n, src) /\ ImplsStay(n, src)
  BY <1>5, NothingGoes DEF SameModulePlaces
<1>10. ASSUME NEW part \in {"lets", "done"}
       PROVE  LetsStay(m, src, "locals") => LetsStay(n, src, part)
  <2> SUFFICES ASSUME LetsStay(m, src, "locals"), NEW i \in DOMAIN src.lets,
                      src.lets[i].pub \/ Certain(src.lets[i].value)
               PROVE  \E j \in DOMAIN n.lets :
                         /\ n.lets[j].was = i
                         /\ n.lets[j].pub \/ Effective(n.lets[j].value)
    BY DEF LetsStay
  <2>1. PICK j \in DOMAIN m.lets : /\ m.lets[j].was = i
                                   /\ m.lets[j].pub \/ Effective(m.lets[j].value)
    BY DEF LetsStay
  <2>2. BlockIn(m, src, m.lets[j].value)
    BY <1>1 DEF ModuleIn, LetIn
  <2>3. Effective(m.lets[j].value) => Effective(n.lets[j].value)
    BY <1>4, <1>8, <2>2
  <2>4. QED
    BY <1>8, <2>1, <2>3
<1>11. QED
  BY <1>8, <1>9, <1>10

-----------------------------------------------------------------------------
(* Private module bindings: the bindings kept close ranks, and every read  *)
(* follows the one that it names.                                          *)

MovedRead(r, keep) == IF r.id \in keep THEN [r EXCEPT !.id = Rank(keep, r.id)] ELSE r
ReadBranch(b, keep) == [b EXCEPT !.reads = {MovedRead(r, keep) : r \in b.reads}]

LetsMoved(m, n, src, keep) ==
    /\ keep \in SUBSET (1..Len(m.lets))
    /\ \A i \in keep : /\ Rank(keep, i) \in DOMAIN n.lets
                       /\ n.lets[Rank(keep, i)].was = m.lets[i].was
    /\ \A r \in Reads(m) : \A i \in DOMAIN m.lets \ keep :
          r.name # m.lets[i].name /\ r.id # i
    /\ \A i \in DOMAIN m.lets : m.lets[i].name = src.lets[m.lets[i].was].name

LEMMA ReadMoves ==
  ASSUME NEW src, NEW m \in Module, NEW n, NEW keep, LetsMoved(m, n, src, keep),
         NEW r \in Read, r \in Reads(m), ReadIn(m, src, r)
  PROVE  MovedRead(r, keep) \in Read /\ ReadIn(n, src, MovedRead(r, keep))
<1> DEFINE q == MovedRead(r, keep)
           N == Len(m.lets)
<1>1. DOMAIN m.lets = 1..N /\ N \in Nat /\ keep \in SUBSET (1..N)
  BY ModuleParts DEF LetsMoved
<1> HIDE DEF N
<1>2. ASSUME r.id \in keep
      PROVE  /\ q \in Read /\ q.name = r.name /\ q.means = r.means
             /\ q.id = Rank(keep, r.id) /\ q.id # 0
  <2>1. Rank(keep, r.id) \in 1..Cardinality(keep) /\ Cardinality(keep) \in Nat
    BY <1>1, <1>2, RankType, PositionsAreFinite
  <2>2. Rank(keep, r.id) \in Nat /\ Rank(keep, r.id) # 0
    BY <2>1
  <2>3. q = [r EXCEPT !.id = Rank(keep, r.id)]
    BY <1>2 DEF MovedRead
  <2>4. QED
    BY <2>2, <2>3 DEF Read
<1>3. ASSUME r.id \notin keep PROVE q = r
  BY <1>3 DEF MovedRead
<1> HIDE DEF q
<1>4. q \in Read /\ q.means = r.means /\ q.name = r.name
  BY <1>2, <1>3
<1>5. CASE r.means = 0
  BY <1>4, <1>5 DEF ReadIn, ReadOK, q
<1>6. CASE r.id # 0 /\ Names(m.lets, r.id, r.means)
  <2>1. r.id \in DOMAIN m.lets /\ m.lets[r.id].was = r.means
    BY <1>6 DEF Names
  <2>2. r.id \in keep
    BY <2>1 DEF LetsMoved
  <2>3. Names(n.lets, Rank(keep, r.id), r.means)
    BY <2>1, <2>2 DEF Names, LetsMoved
  <2>4. QED
    BY <1>2, <1>4, <2>2, <2>3 DEF ReadIn, ReadOK, q
<1>7. CASE r.means # 0 /\ r.id = 0 /\ \E l \in Elements(m.lets) : l.was = r.means
  <2>1. PICK i \in DOMAIN m.lets : m.lets[i].was = r.means
    BY <1>7 DEF Elements
  <2>2. m.lets[i].name = r.name
    BY <1>7, <2>1 DEF LetsMoved, ReadIn
  <2>3. i \in keep
    BY <2>2 DEF LetsMoved
  <2>4. Rank(keep, i) \in DOMAIN n.lets /\ n.lets[Rank(keep, i)].was = r.means
    BY <2>1, <2>3 DEF LetsMoved
  <2>5. r.id \notin keep
    BY <1>1, <1>7
  <2>6. \E l \in Elements(n.lets) : l.was = r.means
    BY <2>4 DEF Elements
  <2>7. QED
    BY <1>3, <1>7, <2>5, <2>6 DEF ReadIn, ReadOK, q
<1>8. QED
  BY <1>5, <1>6, <1>7 DEF ReadIn, ReadOK, q

\* The reads of a root are reads of the module.
LEMMA ReadsOfRoots ==
  ASSUME NEW m, NEW e \in RootsOf(m), NEW i \in DOMAIN e,
         NEW j \in DOMAIN e[i].value.branches
  PROVE  e[i].value.branches[j].reads \subseteq Reads(m)
<1> DEFINE b == e[i].value.branches[j]
<1>1. b \in Branches(e)
  <2>1. b \in Elements(e[i].value.branches)
    BY DEF Elements
  <2>2. QED
    BY <2>1 DEF Branches
<1> HIDE DEF b
<1>2. b.reads \subseteq ReadsIn(e)
  BY <1>1 DEF ReadsIn
<1>3. QED
  BY <1>2 DEF Reads, b

LEMMA ReadBranchMoves ==
  ASSUME NEW src, NEW m \in Module, NEW n, NEW keep, LetsMoved(m, n, src, keep),
         \A k \in Kinds : SamePlaces(m.defs[k], n.defs[k]), SamePlaces(m.impls, n.impls),
         NEW b \in Branch, BranchIn(m, src, b), b.reads \subseteq Reads(m)
  PROVE  /\ ReadBranch(b, keep) \in Branch /\ BranchIn(n, src, ReadBranch(b, keep))
         /\ ReadBranch(b, keep).effect = b.effect /\ ReadBranch(b, keep).calls = b.calls
<1> DEFINE c == ReadBranch(b, keep)
           reads == {MovedRead(r, keep) : r \in b.reads}
<1>1. ASSUME NEW r \in b.reads
      PROVE  MovedRead(r, keep) \in Read /\ ReadIn(n, src, MovedRead(r, keep))
  <2>1. r \in Read /\ r \in Reads(m)
    BY DEF Branch
  <2>2. ReadIn(m, src, r)
    BY DEF BranchIn
  <2>3. QED
    BY <2>1, <2>2, ReadMoves
<1>2. reads \in SUBSET Read
  BY <1>1
<1>3. \A q \in reads : ReadIn(n, src, q)
  BY <1>1
<1>4. c = [b EXCEPT !.reads = reads]
  BY DEF ReadBranch
<1> HIDE DEF c, reads
<1>5. /\ c \in Branch /\ c.effect = b.effect /\ c.calls = b.calls /\ c.types = b.types
      /\ c.reads = reads
  BY <1>2, <1>4 DEF Branch
<1>6. \A r \in b.types : RefOK(n, r)
  <2>1. ASSUME NEW r \in b.types PROVE RefOK(n, r)
    <3>1. r \in Ref /\ RefOK(m, r)
      BY DEF Branch, BranchIn
    <3>2. QED
      BY <3>1, RefStays
  <2>2. QED
    BY <2>1
<1>7. \A x \in b.calls : CallOK(n, x)
  <2>1. ASSUME NEW x \in b.calls PROVE CallOK(n, x)
    <3>1. CallOK(m, x)
      BY DEF BranchIn
    <3>2. QED
      BY <3>1, CallStays
  <2>2. QED
    BY <2>1
<1>8. \A x \in b.calls : Meant(src.impls[x.means].target) \subseteq Meant(b.types)
  BY DEF BranchIn
<1>9. BranchIn(n, src, c)
  BY <1>3, <1>5, <1>6, <1>7, <1>8 DEF BranchIn
<1>10. QED
  BY <1>5, <1>9 DEF c

LEMMA RebranchedBlock ==
  ASSUME NEW n, NEW src, NEW e \in Block, NEW f, NEW B, IsRebranched(e, f, B),
         \A i \in DOMAIN e : \A j \in DOMAIN e[i].value.branches : BranchIn(n, src, B[i][j])
  PROVE  BlockIn(n, src, f)
<1>1. /\ f \in Block /\ DOMAIN f = DOMAIN e
      /\ \A i \in DOMAIN e : /\ f[i].value.branches = B[i]
                             /\ DOMAIN f[i].value.branches = DOMAIN e[i].value.branches
  BY RebranchedShape
<1>2. QED
  BY <1>1 DEF BlockIn

LEMMA RebranchedCalls ==
  ASSUME NEW e \in Block, NEW f, NEW B, IsRebranched(e, f, B), CallsNothing(e),
         \A i \in DOMAIN e : \A j \in DOMAIN e[i].value.branches :
            e[i].value.branches[j].calls = {} => B[i][j].calls = {}
  PROVE  CallsNothing(f)
<1>1. /\ DOMAIN f = DOMAIN e
      /\ \A i \in DOMAIN e : /\ f[i].value.branches = B[i]
                             /\ DOMAIN f[i].value.branches = DOMAIN e[i].value.branches
  BY RebranchedShape
<1>2. QED
  BY <1>1 DEF CallsNothing

LEMMA ReadBlockMoves ==
  ASSUME NEW src, NEW m \in Module, NEW n, NEW keep, LetsMoved(m, n, src, keep),
         \A k \in Kinds : SamePlaces(m.defs[k], n.defs[k]), SamePlaces(m.impls, n.impls),
         NEW e \in RootsOf(m), BlockIn(m, src, e)
  PROVE  /\ BlockIn(n, src, remap_let_ids(e, keep))
         /\ Effective(e) => Effective(remap_let_ids(e, keep))
         /\ CallsNothing(e) => CallsNothing(remap_let_ids(e, keep))
<1> DEFINE f == remap_let_ids(e, keep)
           B == [i \in DOMAIN e |-> [j \in DOMAIN e[i].value.branches |->
                    ReadBranch(e[i].value.branches[j], keep)]]
<1>1. e \in Block
  BY DEF BlockIn
<1>2. ASSUME NEW i \in DOMAIN e, NEW j \in DOMAIN e[i].value.branches
      PROVE  /\ B[i][j] \in Branch /\ BranchIn(n, src, B[i][j])
             /\ B[i][j].effect = e[i].value.branches[j].effect
             /\ B[i][j].calls = e[i].value.branches[j].calls
  <2> DEFINE b == e[i].value.branches[j]
  <2>1. B[i][j] = ReadBranch(b, keep)
    OBVIOUS
  <2>2. b \in Branch
    BY <1>1, BranchesOfBlock
  <2>3. BranchIn(m, src, b)
    BY DEF BlockIn
  <2>4. b.reads \subseteq Reads(m)
    BY ReadsOfRoots
  <2> HIDE DEF b, B
  <2>5. /\ ReadBranch(b, keep) \in Branch /\ BranchIn(n, src, ReadBranch(b, keep))
        /\ ReadBranch(b, keep).effect = b.effect /\ ReadBranch(b, keep).calls = b.calls
    BY <2>2, <2>3, <2>4, ReadBranchMoves
  <2>6. QED
    BY <2>1, <2>5 DEF b
<1>3. f = [i \in DOMAIN e |-> [e[i] EXCEPT !.value.branches = B[i]]]
  BY DEF remap_let_ids, OnBranches, ReadBranch, MovedRead
<1>4. \A i \in DOMAIN e : B[i] = [j \in DOMAIN e[i].value.branches |-> B[i][j]]
  OBVIOUS
<1> HIDE DEF f, B
<1>5. IsRebranched(e, f, B)
  BY <1>2, <1>3, <1>4 DEF IsRebranched
<1>6. BlockIn(n, src, f)
  BY <1>1, <1>2, <1>5, RebranchedBlock
<1>7. Effective(e) => Effective(f)
  BY <1>1, <1>2, <1>5, RebranchedEffects
<1>8. CallsNothing(e) => CallsNothing(f)
  BY <1>1, <1>2, <1>5, RebranchedCalls
<1>9. QED
  BY <1>6, <1>7, <1>8 DEF f

\* The bindings kept.
LEMMA KeptLets ==
  ASSUME NEW m, NEW src, LetsIn(m, src, m.lets), NEW keep \in SUBSET (1..Len(m.lets))
  PROVE  LetsIn(m, src, Kept(m.lets, keep))
<1> DEFINE N == Len(m.lets)
           lets == Kept(m.lets, keep)
<1>1. N \in Nat /\ DOMAIN m.lets = 1..N /\ keep \in SUBSET (1..N)
  BY DEF LetsIn
<1>2. \A i \in keep : m.lets[i] \in LetDef
  BY <1>1 DEF LetsIn, LetIn
<1> HIDE DEF N
<1>3. lets \in Seq(LetDef) /\ DOMAIN lets = 1..Cardinality(keep)
  BY <1>1, <1>2, KeptType
<1>4. ASSUME NEW n \in DOMAIN lets PROVE \E i \in keep : Rank(keep, i) = n /\ lets[n] = m.lets[i]
  <2>1. n \in 1..Cardinality(keep)
    BY <1>3
  <2>2. PICK i \in keep : Rank(keep, i) = n
    BY <1>1, <2>1, RankOnto
  <2>3. lets[n] = m.lets[i]
    BY <1>1, <2>2, KeptAt
  <2>4. QED
    BY <2>2, <2>3
<1> HIDE DEF lets
<1>5. ASSUME NEW n \in DOMAIN lets PROVE LetIn(m, src, lets[n])
  BY <1>1, <1>4 DEF LetsIn
<1>6. InOrder(lets, src.lets)
  <2>1. ASSUME NEW n \in DOMAIN lets PROVE lets[n].was \in DOMAIN src.lets
    BY <1>5 DEF LetIn
  <2>2. ASSUME NEW a \in DOMAIN lets, NEW b \in DOMAIN lets, a < b
        PROVE  lets[a].was < lets[b].was
    <3>1. PICK i \in keep : Rank(keep, i) = a /\ lets[a] = m.lets[i]
      BY <1>4
    <3>2. PICK j \in keep : Rank(keep, j) = b /\ lets[b] = m.lets[j]
      BY <1>4
    <3>3. i < j
      BY <1>1, <2>2, <3>1, <3>2, RankInjective
    <3>4. QED
      BY <1>1, <3>1, <3>2, <3>3 DEF LetsIn, InOrder
  <2>3. QED
    BY <2>1, <2>2 DEF InOrder
<1>7. QED
  BY <1>3, <1>5, <1>6 DEF LetsIn, lets

LEMMA MovedReads ==
  ASSUME NEW x \in Module, NEW keep, NEW n, n = remap_roots(x, keep),
         NEW F, F = [e \in Block |-> remap_let_ids(e, keep)]
  PROVE  Rewritten(x, n, x.lets, F, F)
<1>1. /\ n = [defs |-> n.defs, impls |-> n.impls, functions |-> n.functions, lets |-> n.lets]
      /\ n.defs = [k \in Kinds |-> n.defs[k]]
  BY DEF remap_roots, OnRoots
<1>2. n.functions = [i \in DOMAIN x.functions |-> OnFunction(x.functions[i], F, F)]
  <2>1. n.functions = [i \in DOMAIN x.functions |->
           [x.functions[i] EXCEPT !.body = remap_let_ids(@, keep),
                                  !.default = remap_let_ids(@, keep)]]
    BY DEF remap_roots, OnRoots
  <2>2. QED
    BY <2>1, ModuleBlocks DEF OnFunction
<1>3. n.impls = [i \in DOMAIN x.impls |-> OnFunction(x.impls[i], F, F)]
  <2>1. n.impls = [i \in DOMAIN x.impls |->
           [x.impls[i] EXCEPT !.body = remap_let_ids(@, keep),
                              !.default = remap_let_ids(@, keep)]]
    BY DEF remap_roots, OnRoots
  <2>2. QED
    BY <2>1, ModuleBlocks DEF OnFunction
<1>4. ASSUME NEW k \in Kinds
      PROVE  n.defs[k] = [i \in DOMAIN x.defs[k] |-> OnDef(x.defs[k][i], F)]
  <2>1. n.defs[k] = [i \in DOMAIN x.defs[k] |->
           [x.defs[k][i] EXCEPT !.default = remap_let_ids(@, keep)]]
    BY DEF remap_roots, OnRoots
  <2>2. QED
    BY <2>1, ModuleBlocks DEF OnDef
<1>5. n.lets = [i \in DOMAIN x.lets |-> OnLet(x.lets[i], F)]
  <2>1. n.lets = [i \in DOMAIN x.lets |->
           [x.lets[i] EXCEPT !.value = remap_let_ids(@, keep)]]
    BY DEF remap_roots, OnRoots
  <2>2. QED
    BY <2>1, ModuleBlocks DEF OnLet
<1>6. QED
  BY <1>1, <1>2, <1>3, <1>4, <1>5 DEF Rewritten

\* What nothing reads and has no effect goes.
LEMMA LetsModule ==
  ASSUME NEW src \in Module, NEW m, ModuleIn(m, src),
         NEW n, n = RemoveLets(m, UnreadLets(m))
  PROVE  /\ ModuleIn(n, src) /\ \A k \in Kinds : Len(n.defs[k]) = Len(m.defs[k])
         /\ PublicStay(m, src) /\ ImplsStay(m, src) => PublicStay(n, src) /\ ImplsStay(n, src)
         /\ LetsStay(m, src, "lets") => LetsStay(n, src, "lets")
<1> DEFINE keep == DOMAIN m.lets \ UnreadLets(m)
           lets == Kept(m.lets, keep)
           m1 == [m EXCEPT !.lets = lets]
           F == [e \in Block |-> remap_let_ids(e, keep)]
           N == Len(m.lets)
<1>1. m \in Module
  BY DEF ModuleIn
<1>2. /\ DOMAIN m.lets = 1..N /\ N \in Nat /\ keep \in SUBSET (1..N)
  BY <1>1, ModuleParts
<1>3. m1 = [defs |-> m.defs, impls |-> m.impls, functions |-> m.functions, lets |-> lets]
  <2>1. m = [defs |-> m.defs, impls |-> m.impls, functions |-> m.functions, lets |-> m.lets]
    BY <1>1 DEF Module
  <2> HIDE DEF lets
  <2>2. QED
    BY <2>1
<1>4. LetsIn(m, src, m.lets)
  BY <1>1, ModuleParts DEF ModuleIn, LetsIn
<1>5. LetsIn(m, src, lets)
  <2> HIDE DEF keep
  <2>1. QED
    BY <1>2, <1>4, KeptLets
<1>6. ASSUME NEW i \in keep PROVE Rank(keep, i) \in DOMAIN lets /\ lets[Rank(keep, i)] = m.lets[i]
  <2> HIDE DEF keep, N
  <2>1. QED
    BY <1>2, KeptAt
<1>7. ASSUME NEW a \in DOMAIN lets PROVE \E i \in keep : Rank(keep, i) = a /\ lets[a] = m.lets[i]
  <2> HIDE DEF keep, N
  <2>1. a \in 1..Cardinality(keep)
    BY DEF Kept
  <2>2. PICK i \in keep : Rank(keep, i) = a
    BY <1>2, <2>1, RankOnto
  <2>3. QED
    BY <1>6, <2>2
<1>8. Rewritten(m, n, lets, F, F)
  <2> HIDE DEF lets
  <2>1. n = remap_roots(m1, keep)
    BY DEF RemoveLets, lets
  <2>2. m1 \in Module
    BY <1>1, <1>3, <1>5 DEF Module, LetsIn
  <2>3. F = [e \in Block |-> remap_let_ids(e, keep)]
    OBVIOUS
  <2>4. /\ m1.defs = m.defs /\ m1.impls = m.impls /\ m1.functions = m.functions
        /\ m1.lets = lets
    BY <1>3
  <2> HIDE DEF keep, m1, F
  <2>5. Rewritten(m1, n, m1.lets, F, F)
    BY <2>1, <2>2, <2>3, MovedReads
  <2>6. QED
    BY <2>4, <2>5 DEF Rewritten
<1> HIDE DEF m1, lets, N
<1>9. /\ \A k \in Kinds : SamePlaces(m.defs[k], n.defs[k])
      /\ SamePlaces(m.impls, n.impls) /\ SamePlaces(lets, n.lets)
  <2>1. \A i \in DOMAIN lets : lets[i] \in LetDef
    BY <1>5 DEF LetsIn, LetIn
  <2> HIDE DEF F
  <2>2. QED
    BY <1>1, <1>8, <2>1, RewrittenPlaces
<1>10. ASSUME NEW i \in UnreadLets(m)
       PROVE  /\ i \in DOMAIN m.lets /\ ~m.lets[i].pub
              /\ \A r \in Reads(m) : r.name # m.lets[i].name /\ r.id # i
              /\ ~Effective(m.lets[i].value)
  BY DEF UnreadLets, Effective, Elements
<1>11. LetsMoved(m, n, src, keep)
  <2>1. ASSUME NEW i \in keep
        PROVE  /\ Rank(keep, i) \in DOMAIN n.lets
               /\ n.lets[Rank(keep, i)].was = m.lets[i].was
    <3> HIDE DEF keep
    <3>1. QED
      BY <1>6, <1>9 DEF SamePlaces
  <2>2. ASSUME NEW i \in DOMAIN m.lets \ keep, NEW r \in Reads(m)
        PROVE  r.name # m.lets[i].name /\ r.id # i
    <3>1. i \in UnreadLets(m)
      OBVIOUS
    <3>2. QED
      BY <1>10, <3>1
  <2>3. \A i \in DOMAIN m.lets : m.lets[i].name = src.lets[m.lets[i].was].name
    BY <1>4 DEF LetsIn, LetIn
  <2> HIDE DEF keep
  <2>4. QED
    BY <1>2, <2>1, <2>2, <2>3 DEF LetsMoved, N
<1>12. ASSUME NEW e \in RootsOf(m), BlockIn(m, src, e)
       PROVE  /\ F[e] = remap_let_ids(e, keep) /\ BlockIn(n, src, F[e])
              /\ Effective(e) => Effective(F[e])
              /\ CallsNothing(e) => CallsNothing(F[e])
  <2>1. F[e] = remap_let_ids(e, keep)
    BY <1>12 DEF BlockIn
  <2> HIDE DEF F, keep
  <2>2. QED
    BY <1>1, <1>9, <1>11, <1>12, <2>1, ReadBlockMoves
<1> HIDE DEF F, keep
<1>13. \A i \in DOMAIN lets : lets[i].value \in RootsOf(m)
  BY <1>2, <1>7, RootsAre
<1>14. /\ ModuleIn(n, src) /\ \A k \in Kinds : Len(n.defs[k]) = Len(m.defs[k])
       /\ DOMAIN n.lets = DOMAIN lets
       /\ \A i \in DOMAIN lets : /\ n.lets[i].was = lets[i].was
                                 /\ n.lets[i].pub = lets[i].pub
                                 /\ n.lets[i].value = F[lets[i].value]
  BY <1>5, <1>8, <1>12, <1>13, RewrittenModule
<1>15. PublicStay(m, src) /\ ImplsStay(m, src) => PublicStay(n, src) /\ ImplsStay(n, src)
  BY <1>9, NothingGoes
<1>16. LetsStay(m, src, "lets") => LetsStay(n, src, "lets")
  <2> SUFFICES ASSUME LetsStay(m, src, "lets"), NEW i \in DOMAIN src.lets,
                      src.lets[i].pub \/ Certain(src.lets[i].value)
               PROVE  \E j \in DOMAIN n.lets :
                         /\ n.lets[j].was = i
                         /\ n.lets[j].pub \/ Effective(n.lets[j].value)
    BY DEF LetsStay
  <2>1. PICK j \in DOMAIN m.lets : /\ m.lets[j].was = i
                                   /\ m.lets[j].pub \/ Effective(m.lets[j].value)
    BY DEF LetsStay
  <2>2. j \in keep
    BY <1>10, <2>1 DEF keep
  <2> DEFINE a == Rank(keep, j)
  <2>3. a \in DOMAIN lets /\ lets[a] = m.lets[j]
    BY <1>6, <2>2
  <2>4. BlockIn(m, src, m.lets[j].value) /\ m.lets[j].value \in RootsOf(m)
    BY <1>4, RootsAre DEF LetsIn, LetIn
  <2>5. Effective(m.lets[j].value) => Effective(F[m.lets[j].value])
    BY <1>12, <2>4
  <2> HIDE DEF a
  <2>6. QED
    BY <1>14, <2>1, <2>3, <2>5
<1>17. QED
  BY <1>14, <1>15, <1>16

-----------------------------------------------------------------------------
(* The analysis: what is marked are places of the module, all that the     *)
(* items of the module refer to is marked, and so is all that an impl of a *)
(* marked type refers to.                                                  *)

Places(m) == {p \in Kinds \X Nat : p[2] \in DOMAIN m.defs[p[1]]}

LEMMA RefPlace ==
  ASSUME NEW m, NEW r \in Ref, RefOK(m, r)
  PROVE  Mark(r) \in Places(m)
<1>1. r.kind \in Kinds /\ r.id \in Nat /\ r.id \in DOMAIN m.defs[r.kind]
  BY DEF RefOK, Names, Ref
<1>2. QED
  BY <1>1 DEF Mark, Places

LEMMA BoundsRefs ==
  ASSUME NEW m, NEW bounds, BoundsIn(m, bounds)
  PROVE  OfBounds(bounds) = {b.trait : b \in bounds}
<1>1. \A b \in bounds : b.args = {}
  BY DEF BoundsIn
<1>2. UNION {b.args : b \in bounds} = {}
  BY <1>1
<1>3. QED
  BY <1>2 DEF OfBounds

LEMMA BoundsPlaces ==
  ASSUME NEW m, NEW bounds \in SUBSET Bound, BoundsIn(m, bounds)
  PROVE  /\ MarkAll(OfBounds(bounds)) \subseteq Places(m)
         /\ \A p \in MarkAll(OfBounds(bounds)) : p[1] = "trait"
<1>1. OfBounds(bounds) = {b.trait : b \in bounds}
  BY BoundsRefs
<1>2. ASSUME NEW b \in bounds PROVE Mark(b.trait) \in Places(m) /\ Mark(b.trait)[1] = "trait"
  <2>1. b.trait \in Ref /\ RefOK(m, b.trait) /\ b.trait.kind = "trait"
    BY DEF Bound, BoundsIn
  <2>2. QED
    BY <2>1, RefPlace DEF Mark
<1>3. QED
  BY <1>1, <1>2 DEF MarkAll

IsUpTo(marked, f) ==
  f = [n \in 0..Len(ir.impls) |-> IF n = 0 THEN marked ELSE mark_used_in_impl(n, f[n - 1])]

LEMMA UpToExists ==
  ASSUME NEW src, ModuleIn(ir, src), NEW marked \in SUBSET Places(ir)
  PROVE  \E f : IsUpTo(marked, f)
<1> DEFINE N == Len(ir.impls)
           S == SUBSET Places(ir)
           step == [x \in (1..N) \X S |-> mark_used_in_impl(x[1], x[2])]
<1>1. N \in Nat /\ DOMAIN ir.impls = 1..N
  BY ModuleParts DEF ModuleIn
<1>2. step \in [(1..N) \X S -> S]
  <2>1. ASSUME NEW x \in (1..N) \X S PROVE mark_used_in_impl(x[1], x[2]) \in S
    <3> DEFINE bounds == ir.impls[x[1]].trait
    <3>1. x[1] \in DOMAIN ir.impls /\ x[2] \in S
      BY <1>1
    <3>2. ImplIn(ir, src, ir.impls[x[1]])
      BY <3>1 DEF ModuleIn
    <3>3. bounds \in SUBSET Bound /\ BoundsIn(ir, bounds)
      BY <3>2 DEF ImplIn, Impl
    <3> HIDE DEF bounds
    <3>4. MarkAll(OfBounds(bounds)) \subseteq Places(ir)
      BY <3>3, BoundsPlaces
    <3>5. QED
      BY <3>1, <3>4 DEF mark_used_in_impl, bounds
  <2>2. QED
    BY <2>1
<1> HIDE DEF N, S
<1>3. PICK f : Takes(f, N, S, marked, step)
  <2> HIDE DEF step
  <2>1. N \in Nat /\ marked \in S
    BY <1>1 DEF S
  <2>2. QED
    BY <1>2, <2>1, StepsExist
<1>4. f \in [0..N -> S] /\ f[0] = marked /\ \A n \in 1..N : f[n] = step[<<n, f[n - 1]>>]
  BY <1>3 DEF Takes
<1>5. ASSUME NEW n \in 0..N
      PROVE  f[n] = IF n = 0 THEN marked ELSE mark_used_in_impl(n, f[n - 1])
  <2>1. CASE n = 0
    BY <1>4, <2>1
  <2>2. CASE n # 0
    <3>1. n \in 1..N /\ n - 1 \in 0..N
      BY <1>1, <2>2
    <3>2. f[n] = step[<<n, f[n - 1]>>] /\ f[n - 1] \in S
      BY <1>4, <3>1
    <3>3. QED
      BY <2>2, <3>1, <3>2
  <2>3. QED
    BY <2>1, <2>2
<1>6. f = [n \in 0..N |-> IF n = 0 THEN marked ELSE mark_used_in_impl(n, f[n - 1])]
  BY <1>4, <1>5
<1>7. IsUpTo(marked, f)
  BY <1>6 DEF IsUpTo, N
<1>8. QED
  BY <1>7

LEMMA ImplMarks ==
  ASSUME NEW src, ModuleIn(ir, src), NEW marked \in SUBSET Places(ir)
  PROVE  /\ mark_used_in_impl_traits(marked) \subseteq Places(ir)
         /\ marked \subseteq mark_used_in_impl_traits(marked)
         /\ \A p \in mark_used_in_impl_traits(marked) \ marked : p[1] = "trait"
         /\ \A n \in DOMAIN ir.impls :
               (\A t \in ir.impls[n].target : Mark(t) \in marked) =>
                   MarkAll(OfBounds(ir.impls[n].trait)) \subseteq mark_used_in_impl_traits(marked)
<1> DEFINE N == Len(ir.impls)
           f == CHOOSE f : IsUpTo(marked, f)
           S == SUBSET Places(ir)
           More(n) == MarkAll(OfBounds(ir.impls[n].trait))
           Live(n, marks) == \A t \in ir.impls[n].target : Mark(t) \in marks
<1>1. N \in Nat /\ DOMAIN ir.impls = 1..N
  BY ModuleParts DEF ModuleIn
<1>2. IsUpTo(marked, f)
  BY UpToExists
<1>3. mark_used_in_impl_traits(marked) = f[N]
  BY DEF mark_used_in_impl_traits, IsUpTo
<1> HIDE DEF f
<1>4. /\ f[0] = marked
      /\ \A n \in 1..N : f[n] = IF Live(n, f[n - 1]) THEN f[n - 1] \cup More(n) ELSE f[n - 1]
  <2>1. f = [n \in 0..N |-> IF n = 0 THEN marked ELSE mark_used_in_impl(n, f[n - 1])]
    BY <1>2 DEF IsUpTo
  <2>2. 0 \in 0..N /\ \A n \in 1..N : n \in 0..N /\ n # 0
    BY <1>1
  <2> HIDE DEF N
  <2>3. f[0] = marked
    BY <2>1, <2>2
  <2>4. \A n \in 1..N : f[n] = mark_used_in_impl(n, f[n - 1])
    BY <2>1, <2>2
  <2>5. QED
    BY <2>3, <2>4 DEF mark_used_in_impl
<1>5. ASSUME NEW n \in 1..N
      PROVE  More(n) \subseteq Places(ir) /\ \A p \in More(n) : p[1] = "trait"
  <2> DEFINE bounds == ir.impls[n].trait
  <2>1. ImplIn(ir, src, ir.impls[n])
    BY <1>1 DEF ModuleIn
  <2>2. bounds \in SUBSET Bound /\ BoundsIn(ir, bounds)
    BY <2>1 DEF ImplIn, Impl
  <2> HIDE DEF bounds
  <2>3. MarkAll(OfBounds(bounds)) \subseteq Places(ir)
        /\ \A p \in MarkAll(OfBounds(bounds)) : p[1] = "trait"
    BY <2>2, BoundsPlaces
  <2>4. QED
    BY <2>3 DEF bounds
<1> HIDE DEF N, More
<1> DEFINE Good(n) == /\ f[n] \subseteq Places(ir) /\ marked \subseteq f[n]
                      /\ \A p \in f[n] \ marked : p[1] = "trait"
                      /\ \A j \in 1..n : Live(j, marked) => More(j) \subseteq f[n]
           P == {n \in Nat : n <= N => Good(n)}
<1>6. 0 \in P
  <2>1. 1..0 = {}
    OBVIOUS
  <2>2. Good(0)
    BY <1>4, <2>1
  <2> HIDE DEF Good
  <2>3. QED
    BY <2>2
<1>7. ASSUME NEW n \in Nat, n \in P PROVE n + 1 \in P
  <2> SUFFICES ASSUME n + 1 <= N PROVE Good(n + 1)
    <3> HIDE DEF Good
    <3>1. QED
      OBVIOUS
  <2>1. Good(n)
    <3> HIDE DEF Good
    <3>1. QED
      BY <1>1, <1>7
  <2> DEFINE m == n + 1
  <2>2. m \in 1..N /\ m - 1 = n /\ \A j \in 1..m : j = m \/ j \in 1..n
    BY <1>1
  <2>3. f[m] = IF Live(m, f[n]) THEN f[n] \cup More(m) ELSE f[n]
    BY <1>4, <2>2
  <2>4. More(m) \subseteq Places(ir) /\ \A p \in More(m) : p[1] = "trait"
    BY <1>5, <2>2
  <2> HIDE DEF m
  <2>5. Live(m, marked) => Live(m, f[n])
    BY <2>1
  <2> HIDE DEF Live
  <2>6. /\ f[m] \subseteq Places(ir) /\ marked \subseteq f[m]
        /\ \A p \in f[m] \ marked : p[1] = "trait"
    BY <2>1, <2>3, <2>4
  <2>7. ASSUME NEW j \in 1..m, Live(j, marked) PROVE More(j) \subseteq f[m]
    <3>1. CASE j = m
      BY <2>3, <2>5, <2>7, <3>1
    <3>2. CASE j \in 1..n
      BY <2>1, <2>3, <2>7, <3>2
    <3>3. QED
      BY <2>2, <3>1, <3>2
  <2>8. QED
    BY <2>6, <2>7 DEF m
<1>8. N \in P
  <2> HIDE DEF P
  <2>1. Nat \subseteq P
    BY <1>6, <1>7, EveryNumber
  <2>2. QED
    BY <1>1, <2>1
<1>9. Good(N)
  <2> HIDE DEF Good
  <2>1. QED
    BY <1>1, <1>8
<1>10. QED
  BY <1>1, <1>3, <1>9 DEF More

AllIn(refs, marks) == \A r \in refs : Mark(r) \in marks

CallableMarked(f, marks) ==
    AllIn(f.sig, marks) /\ AllIn(TypesIn(f.body), marks) /\ AllIn(TypesIn(f.default), marks)
DefMarked(d, marks) ==
    /\ AllIn(d.types, marks) /\ AllIn(d.composed, marks)
    /\ AllIn(OfBounds(d.bounds), marks) /\ AllIn(TypesIn(d.default), marks)
LetMarked(l, marks) == AllIn(l.type, marks) /\ AllIn(TypesIn(l.value), marks)

BaseMarks ==
    mark_public_definitions \cup mark_used_in_functions
        \cup mark_used_in_lets \cup mark_used_in_definitions

LEMMA RefsPlaces ==
  ASSUME NEW m, NEW refs \in SUBSET Ref, \A r \in refs : RefOK(m, r)
  PROVE  AllIn(refs, Places(m))
<1>1. ASSUME NEW r \in refs PROVE Mark(r) \in Places(m)
  <2>1. r \in Ref /\ RefOK(m, r)
    OBVIOUS
  <2>2. QED
    BY <2>1, RefPlace
<1>2. QED
  BY <1>1 DEF AllIn

LEMMA TypesOfBlock ==
  ASSUME NEW e, NEW r \in TypesIn(e)
  PROVE  \E i \in DOMAIN e : \E j \in DOMAIN e[i].value.branches :
            r \in e[i].value.branches[j].types
<1>1. PICK b \in Branches(e) : r \in b.types
  BY DEF TypesIn
<1>2. PICK i \in DOMAIN e : b \in Elements(e[i].value.branches)
  BY <1>1 DEF Branches
<1>3. PICK j \in DOMAIN e[i].value.branches : b = e[i].value.branches[j]
  BY <1>2 DEF Elements
<1>4. QED
  BY <1>1, <1>3

LEMMA TypesOfBranch ==
  ASSUME NEW e, NEW i \in DOMAIN e, NEW j \in DOMAIN e[i].value.branches
  PROVE  e[i].value.branches[j].types \subseteq TypesIn(e)
<1> DEFINE b == e[i].value.branches[j]
<1>1. b \in Elements(e[i].value.branches)
  BY DEF Elements
<1>2. b \in Branches(e)
  BY <1>1 DEF Branches
<1> HIDE DEF b
<1>3. b.types \subseteq TypesIn(e)
  BY <1>2 DEF TypesIn
<1>4. QED
  BY <1>3 DEF b

LEMMA BlockPlaces ==
  ASSUME NEW m, NEW src, NEW e, BlockIn(m, src, e)
  PROVE  AllIn(TypesIn(e), Places(m))
<1>1. ASSUME NEW r \in TypesIn(e) PROVE Mark(r) \in Places(m)
  <2>1. PICK i \in DOMAIN e : \E j \in DOMAIN e[i].value.branches :
           r \in e[i].value.branches[j].types
    BY TypesOfBlock
  <2>2. PICK j \in DOMAIN e[i].value.branches : r \in e[i].value.branches[j].types
    BY <2>1
  <2>3. e[i].value.branches[j] \in Branch /\ BranchIn(m, src, e[i].value.branches[j])
    BY BranchesOfBlock DEF BlockIn
  <2>4. r \in Ref /\ RefOK(m, r)
    BY <2>2, <2>3 DEF Branch, BranchIn
  <2>5. QED
    BY <2>4, RefPlace
<1>2. QED
  BY <1>1 DEF AllIn

LEMMA CallablePlaces ==
  ASSUME NEW m, NEW src, NEW f, NEW s, CallableIn(m, src, f, s), f.sig \in SUBSET Ref
  PROVE  CallableMarked(f, Places(m))
<1>1. AllIn(f.sig, Places(m))
  <2>1. \A r \in f.sig : RefOK(m, r)
    BY DEF CallableIn
  <2>2. QED
    BY <2>1, RefsPlaces
<1>2. BlockIn(m, src, f.body) /\ BlockIn(m, src, f.default)
  BY DEF CallableIn
<1>3. QED
  BY <1>1, <1>2, BlockPlaces DEF CallableMarked

LEMMA DefPlaces ==
  ASSUME NEW m, NEW src, NEW k, NEW d, DefIn(m, src, k, d)
  PROVE  DefMarked(d, Places(m))
<1>1. d.types \in SUBSET Ref /\ d.composed \in SUBSET Ref /\ d.bounds \in SUBSET Bound
  BY DEF DefIn, Def
<1>2. AllIn(d.types, Places(m))
  <2>1. \A r \in d.types : RefOK(m, r)
    BY DEF DefIn
  <2>2. QED
    BY <1>1, <2>1, RefsPlaces
<1>3. AllIn(d.composed, Places(m))
  <2>1. \A r \in d.composed : RefOK(m, r)
    BY DEF DefIn
  <2>2. QED
    BY <1>1, <2>1, RefsPlaces
<1>4. AllIn(OfBounds(d.bounds), Places(m))
  <2>1. BoundsIn(m, d.bounds)
    BY DEF DefIn
  <2>2. MarkAll(OfBounds(d.bounds)) \subseteq Places(m)
    BY <1>1, <2>1, BoundsPlaces
  <2>3. QED
    BY <2>2 DEF MarkAll, AllIn
<1>5. AllIn(TypesIn(d.default), Places(m))
  BY BlockPlaces DEF DefIn
<1>6. QED
  BY <1>2, <1>3, <1>4, <1>5 DEF DefMarked

LEMMA LetPlaces ==
  ASSUME NEW m, NEW src, NEW l, LetIn(m, src, l)
  PROVE  LetMarked(l, Places(m))
<1>1. AllIn(l.type, Places(m))
  <2>1. l.type \in SUBSET Ref /\ \A r \in l.type : RefOK(m, r)
    BY DEF LetIn, LetDef
  <2>2. QED
    BY <2>1, RefsPlaces
<1>2. AllIn(TypesIn(l.value), Places(m))
  BY BlockPlaces DEF LetIn
<1>3. QED
  BY <1>1, <1>2 DEF LetMarked

LEMMA BaseMarksItems ==
  /\ \A k \in Kinds : \A i \in DOMAIN ir.defs[k] :
        /\ ir.defs[k][i].pub => <<k, i>> \in BaseMarks
        /\ DefMarked(ir.defs[k][i], BaseMarks)
  /\ \A i \in DOMAIN ir.functions : CallableMarked(ir.functions[i], BaseMarks)
  /\ \A i \in DOMAIN ir.impls : CallableMarked(ir.impls[i], BaseMarks)
  /\ \A i \in DOMAIN ir.lets : LetMarked(ir.lets[i], BaseMarks)
<1>1. ASSUME NEW f \in Elements(ir.functions) \cup Elements(ir.impls)
      PROVE  CallableMarked(f, BaseMarks)
  <2> DEFINE refs == UNION {g.sig \cup TypesIn(g.body) \cup TypesIn(g.default) :
                               g \in Elements(ir.functions) \cup Elements(ir.impls)}
  <2>1. f.sig \subseteq refs /\ TypesIn(f.body) \subseteq refs /\ TypesIn(f.default) \subseteq refs
    OBVIOUS
  <2>2. mark_used_in_functions = MarkAll(refs)
    BY DEF mark_used_in_functions
  <2> HIDE DEF refs
  <2>3. \A r \in refs : Mark(r) \in BaseMarks
    BY <2>2 DEF MarkAll, BaseMarks
  <2>4. QED
    BY <2>1, <2>3 DEF CallableMarked, AllIn
<1>2. ASSUME NEW l \in Elements(ir.lets) PROVE LetMarked(l, BaseMarks)
  <2> DEFINE refs == UNION {g.type \cup TypesIn(g.value) : g \in Elements(ir.lets)}
  <2>1. l.type \subseteq refs /\ TypesIn(l.value) \subseteq refs
    OBVIOUS
  <2>2. mark_used_in_lets = MarkAll(refs)
    BY DEF mark_used_in_lets
  <2> HIDE DEF refs
  <2>3. \A r \in refs : Mark(r) \in BaseMarks
    BY <2>2 DEF MarkAll, BaseMarks
  <2>4. QED
    BY <2>1, <2>3 DEF LetMarked, AllIn
<1>3. ASSUME NEW d \in UNION {Elements(ir.defs[k]) : k \in Kinds} PROVE DefMarked(d, BaseMarks)
  <2> DEFINE refs == UNION {g.types \cup g.composed \cup OfBounds(g.bounds) \cup TypesIn(g.default) :
                               g \in UNION {Elements(ir.defs[k]) : k \in Kinds}}
  <2>1. /\ d.types \subseteq refs /\ d.composed \subseteq refs
        /\ OfBounds(d.bounds) \subseteq refs /\ TypesIn(d.default) \subseteq refs
    OBVIOUS
  <2>2. mark_used_in_definitions = MarkAll(refs)
    BY DEF mark_used_in_definitions
  <2> HIDE DEF refs
  <2>3. \A r \in refs : Mark(r) \in BaseMarks
    BY <2>2 DEF MarkAll, BaseMarks
  <2>4. QED
    BY <2>1, <2>3 DEF DefMarked, AllIn
<1>4. ASSUME NEW k \in Kinds, NEW i \in DOMAIN ir.defs[k], ir.defs[k][i].pub
      PROVE  <<k, i>> \in BaseMarks
  <2>1. <<k, i>> \in {<<k, j>> : j \in {j \in DOMAIN ir.defs[k] : ir.defs[k][j].pub}}
    BY <1>4
  <2>2. <<k, i>> \in mark_public_definitions
    BY <2>1 DEF mark_public_definitions
  <2>3. QED
    BY <2>2 DEF BaseMarks
<1>5. \A i \in DOMAIN ir.functions : ir.functions[i] \in Elements(ir.functions)
  BY DEF Elements
<1>6. \A i \in DOMAIN ir.impls : ir.impls[i] \in Elements(ir.impls)
  BY DEF Elements
<1>7. \A i \in DOMAIN ir.lets : ir.lets[i] \in Elements(ir.lets)
  BY DEF Elements
<1>8. \A k \in Kinds : \A i \in DOMAIN ir.defs[k] :
         ir.defs[k][i] \in UNION {Elements(ir.defs[j]) : j \in Kinds}
  BY DEF Elements
<1>9. QED
  BY <1>1, <1>2, <1>3, <1>4, <1>5, <1>6, <1>7, <1>8

LEMMA BaseMarksPlaces ==
  ASSUME NEW src, ModuleIn(ir, src)
  PROVE  BaseMarks \subseteq Places(ir)
<1>1. ir \in Module
  BY DEF ModuleIn
<1>2. ASSUME NEW f \in Elements(ir.functions) \cup Elements(ir.impls)
      PROVE  CallableMarked(f, Places(ir))
  <2>1. CASE f \in Elements(ir.functions)
    <3>1. PICK i \in DOMAIN ir.functions : f = ir.functions[i]
      BY <2>1 DEF Elements
    <3>2. f \in Function /\ CallableIn(ir, src, f, src.functions[i])
      BY <1>1, <3>1, ModuleParts DEF ModuleIn, FunctionsIn
    <3>3. f.sig \in SUBSET Ref
      BY <3>2 DEF Function
    <3>4. QED
      BY <3>2, <3>3, CallablePlaces
  <2>2. CASE f \in Elements(ir.impls)
    <3>1. PICK i \in DOMAIN ir.impls : f = ir.impls[i]
      BY <2>2 DEF Elements
    <3>2. f \in Impl /\ CallableIn(ir, src, f, src.impls[f.was])
      BY <3>1 DEF ModuleIn, ImplIn
    <3>3. f.sig \in SUBSET Ref
      BY <3>2 DEF Impl
    <3>4. QED
      BY <3>2, <3>3, CallablePlaces
  <2>3. QED
    BY <2>1, <2>2
<1>3. mark_used_in_functions \subseteq Places(ir)
  <2>1. ASSUME NEW f \in Elements(ir.functions) \cup Elements(ir.impls),
               NEW r \in f.sig \cup TypesIn(f.body) \cup TypesIn(f.default)
        PROVE  Mark(r) \in Places(ir)
    BY <1>2 DEF CallableMarked, AllIn
  <2>2. QED
    BY <2>1 DEF mark_used_in_functions, MarkAll
<1>4. mark_used_in_lets \subseteq Places(ir)
  <2>1. ASSUME NEW l \in Elements(ir.lets), NEW r \in l.type \cup TypesIn(l.value)
        PROVE  Mark(r) \in Places(ir)
    <3>1. LetIn(ir, src, l)
      BY DEF Elements, ModuleIn
    <3>2. LetMarked(l, Places(ir))
      BY <3>1, LetPlaces
    <3>3. QED
      BY <3>2 DEF LetMarked, AllIn
  <2>2. QED
    BY <2>1 DEF mark_used_in_lets, MarkAll
<1>5. mark_used_in_definitions \subseteq Places(ir)
  <2>1. ASSUME NEW d \in UNION {Elements(ir.defs[k]) : k \in Kinds},
               NEW r \in d.types \cup d.composed \cup OfBounds(d.bounds) \cup TypesIn(d.default)
        PROVE  Mark(r) \in Places(ir)
    <3>1. PICK k \in Kinds : DefIn(ir, src, k, d)
      BY DEF Elements, ModuleIn
    <3>2. DefMarked(d, Places(ir))
      BY <3>1, DefPlaces
    <3>3. QED
      BY <3>2 DEF DefMarked, AllIn
  <2>2. QED
    BY <2>1 DEF mark_used_in_definitions, MarkAll
<1>6. mark_public_definitions \subseteq Places(ir)
  <2>1. ASSUME NEW k \in Kinds, NEW i \in DOMAIN ir.defs[k] PROVE <<k, i>> \in Places(ir)
    <3>1. i \in Nat
      BY <1>1, ModuleParts
    <3>2. QED
      BY <3>1 DEF Places
  <2>2. QED
    BY <2>1 DEF mark_public_definitions
<1>7. QED
  BY <1>3, <1>4, <1>5, <1>6 DEF BaseMarks

\* What the analysis gives.
LEMMA AnalyzedMarks ==
  ASSUME NEW src, ModuleIn(ir, src)
  PROVE  /\ Analyzed \subseteq Places(ir) /\ BaseMarks \subseteq Analyzed
         /\ \A p \in Analyzed \ BaseMarks : p[1] = "trait"
         /\ \A n \in DOMAIN ir.impls :
               (\A t \in ir.impls[n].target : Mark(t) \in BaseMarks) =>
                   AllIn(OfBounds(ir.impls[n].trait), Analyzed)
<1>1. Analyzed = mark_used_in_impl_traits(BaseMarks)
  BY DEF Analyzed, BaseMarks
<1>2. BaseMarks \in SUBSET Places(ir)
  BY BaseMarksPlaces
<1>3. \A n \in DOMAIN ir.impls :
         (\A t \in ir.impls[n].target : Mark(t) \in BaseMarks) =>
             MarkAll(OfBounds(ir.impls[n].trait)) \subseteq Analyzed
  BY <1>1, <1>2, ImplMarks
<1>4. QED
  BY <1>1, <1>2, <1>3, ImplMarks DEF AllIn, MarkAll

-----------------------------------------------------------------------------
(* The removal.  What stays closes ranks; what it refers to stays too, and *)
(* each id follows what it names.                                          *)

AreKept(refs, keep) == \A r \in refs : r.id \in keep[r.kind]

\* The items of m that are kept are where n has them.
Removed(m, n, keep, impls) ==
    /\ \A k \in Kinds :
          /\ keep[k] \in SUBSET (1..Len(m.defs[k]))
          /\ \A i \in keep[k] : /\ Rank(keep[k], i) \in DOMAIN n.defs[k]
                                /\ n.defs[k][Rank(keep[k], i)].was = m.defs[k][i].was
    /\ impls \in SUBSET (1..Len(m.impls))
    /\ \A i \in impls : /\ Rank(impls, i) \in DOMAIN n.impls
                        /\ n.impls[Rank(impls, i)].was = m.impls[i].was
    /\ \A i \in DOMAIN m.impls : AreKept(m.impls[i].target, keep) => i \in impls
    /\ SamePlaces(m.lets, n.lets)

LEMMA RefMoves ==
  ASSUME NEW m \in Module, NEW n, NEW keep, NEW impls, Removed(m, n, keep, impls),
         NEW r \in Ref, RefOK(m, r), r.id \in keep[r.kind]
  PROVE  /\ remap_type(r, keep) \in Ref /\ RefOK(n, remap_type(r, keep))
         /\ remap_type(r, keep).kind = r.kind /\ remap_type(r, keep).means = r.means
<1> DEFINE k == r.kind
           K == keep[k]
           N == Len(m.defs[k])
           q == remap_type(r, keep)
<1>1. k \in Kinds /\ r.id \in K /\ m.defs[k][r.id].was = r.means
  BY DEF Ref, RefOK, Names
<1>2. N \in Nat /\ K \in SUBSET (1..N)
  BY <1>1, ModuleParts DEF Removed
<1>3. /\ Rank(K, r.id) \in DOMAIN n.defs[k]
      /\ n.defs[k][Rank(K, r.id)].was = r.means
  BY <1>1 DEF Removed
<1>4. q = [r EXCEPT !.id = Rank(K, r.id)]
  BY DEF remap_type
<1> HIDE DEF N, K
<1>5. Rank(K, r.id) \in Nat
  BY <1>2, PositionsAreFinite
<1> HIDE DEF q
<1>6. /\ q \in Ref /\ q.kind = r.kind /\ q.means = r.means /\ q.id = Rank(K, r.id)
  BY <1>4, <1>5 DEF Ref
<1>7. RefOK(n, q)
  BY <1>3, <1>6 DEF RefOK, Names
<1>8. QED
  BY <1>6, <1>7 DEF q

LEMMA RefsMove ==
  ASSUME NEW m \in Module, NEW n, NEW keep, NEW impls, Removed(m, n, keep, impls),
         NEW refs \in SUBSET Ref, \A r \in refs : RefOK(m, r), AreKept(refs, keep)
  PROVE  /\ remap_types(refs, keep) \in SUBSET Ref
         /\ \A q \in remap_types(refs, keep) : RefOK(n, q)
         /\ Meant(remap_types(refs, keep)) = Meant(refs)
         /\ \A q \in remap_types(refs, keep) : \E r \in refs : q.kind = r.kind
<1>1. ASSUME NEW r \in refs
      PROVE  /\ remap_type(r, keep) \in Ref /\ RefOK(n, remap_type(r, keep))
             /\ remap_type(r, keep).kind = r.kind /\ remap_type(r, keep).means = r.means
  <2>1. r \in Ref /\ RefOK(m, r) /\ r.id \in keep[r.kind]
    BY DEF AreKept
  <2>2. QED
    BY <2>1, RefMoves
<1>2. remap_types(refs, keep) = {remap_type(r, keep) : r \in refs}
  BY DEF remap_types
<1>3. Meant(remap_types(refs, keep)) = Meant(refs)
  BY <1>1, <1>2 DEF Meant
<1>4. QED
  BY <1>1, <1>2, <1>3

LEMMA BoundsMove ==
  ASSUME NEW m \in Module, NEW n, NEW keep, NEW impls, Removed(m, n, keep, impls),
         NEW bounds \in SUBSET Bound, BoundsIn(m, bounds), AreKept(OfBounds(bounds), keep)
  PROVE  /\ retain_trait_ref(bounds, keep) = {remap_bound(b, keep) : b \in bounds}
         /\ \A b \in bounds : b.trait.id \in keep["trait"]
         /\ retain_trait_ref(bounds, keep) \in SUBSET Bound
         /\ BoundsIn(n, retain_trait_ref(bounds, keep))
         /\ MeantBy(retain_trait_ref(bounds, keep)) = MeantBy(bounds)
<1>1. ASSUME NEW b \in bounds
      PROVE  /\ b.trait.id \in keep["trait"]
             /\ remap_bound(b, keep) \in Bound /\ remap_bound(b, keep).args = {}
             /\ remap_bound(b, keep).trait.kind = "trait"
             /\ remap_bound(b, keep).trait.means = b.trait.means
             /\ RefOK(n, remap_bound(b, keep).trait)
             /\ b.args = {}
  <2>1. b.trait \in Ref /\ b.args = {} /\ b.trait.kind = "trait" /\ RefOK(m, b.trait)
    BY DEF Bound, BoundsIn
  <2>2. b.trait \in OfBounds(bounds)
    BY BoundsRefs
  <2>3. b.trait.id \in keep[b.trait.kind]
    BY <2>2 DEF AreKept
  <2> DEFINE q == remap_type(b.trait, keep)
  <2>4. q \in Ref /\ RefOK(n, q) /\ q.kind = "trait" /\ q.means = b.trait.means
    BY <2>1, <2>3, RefMoves
  <2>5. remap_types(b.args, keep) = {}
    BY <2>1 DEF remap_types
  <2> HIDE DEF q
  <2>6. remap_bound(b, keep) = [trait |-> q, args |-> {}]
    BY <2>5 DEF remap_bound, q
  <2>7. QED
    BY <2>1, <2>3, <2>4, <2>6 DEF Bound
<1>2. retain_trait_ref(bounds, keep) = {remap_bound(b, keep) : b \in bounds}
  BY <1>1 DEF retain_trait_ref
<1>3. BoundsIn(n, retain_trait_ref(bounds, keep))
  BY <1>1, <1>2 DEF BoundsIn
<1>4. MeantBy(retain_trait_ref(bounds, keep)) = MeantBy(bounds)
  <2>1. \A b \in bounds : <<remap_bound(b, keep).trait.means, Meant(remap_bound(b, keep).args)>>
                            = <<b.trait.means, Meant(b.args)>>
    BY <1>1
  <2>2. QED
    BY <1>2, <2>1 DEF MeantBy
<1>5. QED
  BY <1>1, <1>2, <1>3, <1>4

LEMMA ComposedMove ==
  ASSUME NEW keep, NEW refs, \A r \in refs : r.kind = "trait", AreKept(refs, keep)
  PROVE  retain_trait_id(refs, keep) = remap_types(refs, keep)
<1>1. \A r \in refs : r.id \in keep["trait"]
  BY DEF AreKept
<1>2. {r \in refs : r.id \in keep["trait"]} = refs
  BY <1>1
<1>3. QED
  BY <1>2 DEF retain_trait_id

\* An id that names an item of a sequence names the only one.
LEMMA NamesOne ==
  ASSUME NEW items, NEW N \in Nat, DOMAIN items = 1..N, NEW src, InOrder(items, src),
         NEW S, DOMAIN src = S, S \subseteq Nat,
         NEW i, NEW j, NEW was, Names(items, i, was), Names(items, j, was)
  PROVE  i = j
<1>1. /\ i \in 1..N /\ j \in 1..N /\ items[i].was = was /\ items[j].was = was
      /\ was \in Nat
  BY DEF Names, InOrder
<1>2. /\ i < j => items[i].was < items[j].was
      /\ j < i => items[j].was < items[i].was
  BY <1>1 DEF InOrder
<1>3. i = j \/ i < j \/ j < i
  BY <1>1
<1>4. QED
  BY <1>1, <1>2, <1>3

\* What an impl is for is not marked less than what names it in a call.
LEMMA CallsAreKept ==
  ASSUME NEW src \in Module, NEW m, ModuleIn(m, src), NEW n, NEW keep, NEW impls,
         Removed(m, n, keep, impls), NEW b \in Branch, BranchIn(m, src, b),
         AreKept(b.types, keep), NEW c \in b.calls
  PROVE  c.id \in impls
<1> DEFINE i == m.impls[c.id]
<1>1. m \in Module
  BY DEF ModuleIn
<1>2. /\ c.id \in DOMAIN m.impls /\ i.was = c.means
      /\ Meant(src.impls[c.means].target) \subseteq Meant(b.types)
  BY DEF BranchIn, CallOK, Names
<1>3. ImplIn(m, src, i)
  BY <1>2 DEF ModuleIn
<1>4. /\ \A t \in i.target : t \in Ref /\ RefOK(m, t)
      /\ Meant(i.target) \subseteq Meant(b.types)
  BY <1>2, <1>3 DEF ImplIn, Impl
<1> HIDE DEF i
<1>5. ASSUME NEW t \in i.target PROVE t.id \in keep[t.kind]
  <2>1. <<t.kind, t.means>> \in Meant(b.types)
    BY <1>4 DEF Meant
  <2>2. PICK r \in b.types : <<t.kind, t.means>> = <<r.kind, r.means>>
    BY <2>1 DEF Meant
  <2> DEFINE k == t.kind
  <2>3. /\ k \in Kinds /\ r.kind = k /\ r.means = t.means /\ r.id \in keep[k]
    BY <1>4, <2>2 DEF Ref, AreKept
  <2>4. Names(m.defs[k], t.id, t.means) /\ Names(m.defs[k], r.id, t.means)
    <3>1. RefOK(m, t) /\ RefOK(m, r)
      BY <1>4 DEF BranchIn
    <3>2. QED
      BY <2>3, <3>1 DEF RefOK
  <2>5. /\ Len(m.defs[k]) \in Nat /\ DOMAIN m.defs[k] = 1..Len(m.defs[k])
        /\ DOMAIN src.defs[k] \subseteq Nat
    <3>1. Len(src.defs[k]) \in Nat /\ DOMAIN src.defs[k] = 1..Len(src.defs[k])
      BY <2>3, ModuleParts
    <3>2. Len(m.defs[k]) \in Nat /\ DOMAIN m.defs[k] = 1..Len(m.defs[k])
      BY <1>1, <2>3, ModuleParts
    <3>3. QED
      BY <3>1, <3>2
  <2>6. InOrder(m.defs[k], src.defs[k])
    BY <2>3 DEF ModuleIn
  <2> HIDE DEF k
  <2>7. t.id = r.id
    BY <2>4, <2>5, <2>6, NamesOne
  <2>8. QED
    BY <2>3, <2>7 DEF k
<1>6. AreKept(i.target, keep)
  BY <1>5 DEF AreKept
<1>7. QED
  BY <1>2, <1>6 DEF Removed, i

MovedCall(c, impls) == IF c.id \in impls THEN [c EXCEPT !.id = Rank(impls, c.id)] ELSE c

LEMMA CallMoves ==
  ASSUME NEW m \in Module, NEW n, NEW keep, NEW impls, Removed(m, n, keep, impls),
         NEW c \in Call, CallOK(m, c), c.id \in impls
  PROVE  /\ MovedCall(c, impls) \in Call /\ CallOK(n, MovedCall(c, impls))
         /\ MovedCall(c, impls).means = c.means
<1> DEFINE N == Len(m.impls)
           q == MovedCall(c, impls)
<1>1. N \in Nat /\ impls \in SUBSET (1..N)
  BY ModuleParts DEF Removed
<1>2. /\ Rank(impls, c.id) \in DOMAIN n.impls
      /\ n.impls[Rank(impls, c.id)].was = c.means
  BY DEF Removed, CallOK, Names
<1>3. q = [c EXCEPT !.id = Rank(impls, c.id)]
  BY DEF MovedCall
<1> HIDE DEF N, q
<1>4. Rank(impls, c.id) \in Nat
  BY <1>1, PositionsAreFinite
<1>5. q \in Call /\ q.means = c.means /\ q.id = Rank(impls, c.id)
  BY <1>3, <1>4 DEF Call
<1>6. CallOK(n, q)
  BY <1>2, <1>5 DEF CallOK, Names
<1>7. QED
  BY <1>5, <1>6 DEF q

TypeBranch(b, keep) == [b EXCEPT !.types = remap_types(b.types, keep)]
CallBranch(b, impls) == [b EXCEPT !.calls = {MovedCall(c, impls) : c \in b.calls}]

LEMMA BranchMoves ==
  ASSUME NEW src \in Module, NEW m, ModuleIn(m, src), NEW n, NEW keep, NEW impls,
         Removed(m, n, keep, impls), NEW b \in Branch, BranchIn(m, src, b),
         AreKept(b.types, keep)
  PROVE  /\ TypeBranch(b, keep) \in Branch
         /\ TypeBranch(b, keep).effect = b.effect
         /\ TypeBranch(b, keep).calls = b.calls
         /\ CallBranch(TypeBranch(b, keep), impls) \in Branch
         /\ CallBranch(TypeBranch(b, keep), impls).effect = b.effect
         /\ BranchIn(n, src, CallBranch(TypeBranch(b, keep), impls))
         /\ b.calls = {} => BranchIn(n, src, TypeBranch(b, keep))
<1> DEFINE types == remap_types(b.types, keep)
           calls == {MovedCall(c, impls) : c \in b.calls}
           d == TypeBranch(b, keep)
           e == CallBranch(d, impls)
<1>1. m \in Module
  BY DEF ModuleIn
<1>2. /\ types \in SUBSET Ref /\ \A q \in types : RefOK(n, q)
      /\ Meant(types) = Meant(b.types)
  <2>1. b.types \in SUBSET Ref /\ \A r \in b.types : RefOK(m, r)
    BY DEF Branch, BranchIn
  <2>2. QED
    BY <1>1, <2>1, RefsMove
<1>3. ASSUME NEW c \in b.calls
      PROVE  /\ MovedCall(c, impls) \in Call /\ CallOK(n, MovedCall(c, impls))
             /\ MovedCall(c, impls).means = c.means
  <2>1. c \in Call /\ CallOK(m, c)
    BY DEF Branch, BranchIn
  <2>2. c.id \in impls
    BY CallsAreKept
  <2>3. QED
    BY <1>1, <2>1, <2>2, CallMoves
<1>4. \A r \in b.reads : ReadIn(n, src, r)
  <2>1. ASSUME NEW r \in b.reads PROVE ReadIn(n, src, r)
    <3>1. ReadIn(m, src, r) /\ ReadOK(m, r)
      BY DEF BranchIn, ReadIn
    <3>2. SamePlaces(m.lets, n.lets)
      BY DEF Removed
    <3>3. ReadOK(n, r)
      BY <3>1, <3>2, ReadStays
    <3>4. QED
      BY <3>1, <3>3 DEF ReadIn
  <2>2. QED
    BY <2>1
<1>5. d = [b EXCEPT !.types = types]
  BY DEF TypeBranch
<1>6. \A c \in b.calls : Meant(src.impls[c.means].target) \subseteq Meant(types)
  BY <1>2 DEF BranchIn
<1>7. calls \in SUBSET Call
  BY <1>3
<1>8. \A q \in calls : /\ CallOK(n, q)
                       /\ Meant(src.impls[q.means].target) \subseteq Meant(types)
  BY <1>3, <1>6
<1> HIDE DEF types, d
<1>9. /\ d \in Branch /\ d.types = types /\ d.calls = b.calls /\ d.reads = b.reads
      /\ d.effect = b.effect
  BY <1>2, <1>5 DEF Branch
<1>10. e = [d EXCEPT !.calls = calls]
  BY <1>9 DEF CallBranch
<1> HIDE DEF calls, e
<1>11. /\ e \in Branch /\ e.types = types /\ e.calls = calls /\ e.reads = b.reads
       /\ e.effect = b.effect
  BY <1>7, <1>9, <1>10 DEF Branch
<1>12. BranchIn(n, src, e)
  BY <1>2, <1>4, <1>8, <1>11 DEF BranchIn
<1>13. b.calls = {} => BranchIn(n, src, d)
  BY <1>2, <1>4, <1>9 DEF BranchIn
<1>14. QED
  BY <1>9, <1>11, <1>12, <1>13 DEF d, e

\* What becomes of a block, with and without its calls.
LEMMA BlockMoves ==
  ASSUME NEW src \in Module, NEW m, ModuleIn(m, src), NEW n, NEW keep, NEW impls,
         Removed(m, n, keep, impls), NEW e, BlockIn(m, src, e), AreKept(TypesIn(e), keep)
  PROVE  /\ remap_expr(e, keep) \in Block
         /\ BlockIn(n, src, rewrite_static_impl_ids(remap_expr(e, keep), impls))
         /\ Effective(e) => Effective(rewrite_static_impl_ids(remap_expr(e, keep), impls))
         /\ CallsNothing(e) => /\ BlockIn(n, src, remap_expr(e, keep))
                               /\ CallsNothing(remap_expr(e, keep))
<1> DEFINE f == remap_expr(e, keep)
           g == rewrite_static_impl_ids(f, impls)
           B == [i \in DOMAIN e |-> [j \in DOMAIN e[i].value.branches |->
                    TypeBranch(e[i].value.branches[j], keep)]]
           C == [i \in DOMAIN f |-> [j \in DOMAIN f[i].value.branches |->
                    CallBranch(f[i].value.branches[j], impls)]]
<1>1. e \in Block
  BY DEF BlockIn
<1>2. ASSUME NEW i \in DOMAIN e, NEW j \in DOMAIN e[i].value.branches
      PROVE  /\ B[i][j] = TypeBranch(e[i].value.branches[j], keep)
             /\ B[i][j] \in Branch
             /\ B[i][j].effect = e[i].value.branches[j].effect
             /\ B[i][j].calls = e[i].value.branches[j].calls
             /\ CallBranch(B[i][j], impls) \in Branch
             /\ CallBranch(B[i][j], impls).effect = e[i].value.branches[j].effect
             /\ BranchIn(n, src, CallBranch(B[i][j], impls))
             /\ e[i].value.branches[j].calls = {} => BranchIn(n, src, B[i][j])
  <2> DEFINE b == e[i].value.branches[j]
  <2>1. B[i][j] = TypeBranch(b, keep)
    OBVIOUS
  <2>2. b \in Branch
    BY <1>1, BranchesOfBlock
  <2>3. BranchIn(m, src, b)
    BY DEF BlockIn
  <2>4. AreKept(b.types, keep)
    BY TypesOfBranch DEF AreKept
  <2> HIDE DEF b, B
  <2>5. /\ TypeBranch(b, keep) \in Branch
        /\ TypeBranch(b, keep).effect = b.effect
        /\ TypeBranch(b, keep).calls = b.calls
        /\ CallBranch(TypeBranch(b, keep), impls) \in Branch
        /\ CallBranch(TypeBranch(b, keep), impls).effect = b.effect
        /\ BranchIn(n, src, CallBranch(TypeBranch(b, keep), impls))
        /\ b.calls = {} => BranchIn(n, src, TypeBranch(b, keep))
    BY <2>2, <2>3, <2>4, BranchMoves
  <2>6. QED
    BY <2>1, <2>5 DEF b
<1>3. f = [i \in DOMAIN e |-> [e[i] EXCEPT !.value.branches = B[i]]]
  BY DEF remap_expr, OnBranches, TypeBranch
<1>4. \A i \in DOMAIN e : B[i] = [j \in DOMAIN e[i].value.branches |-> B[i][j]]
  OBVIOUS
<1>5. g = [i \in DOMAIN f |-> [f[i] EXCEPT !.value.branches = C[i]]]
  <2> HIDE DEF f
  <2>1. QED
    BY DEF rewrite_static_impl_ids, OnBranches, CallBranch, MovedCall
<1>6. \A i \in DOMAIN f : C[i] = [j \in DOMAIN f[i].value.branches |-> C[i][j]]
  <2> HIDE DEF f
  <2>1. QED
    OBVIOUS
<1>7. \A i \in DOMAIN f : \A j \in DOMAIN f[i].value.branches :
         C[i][j] = CallBranch(f[i].value.branches[j], impls)
  <2> HIDE DEF f
  <2>1. QED
    OBVIOUS
<1> HIDE DEF f, g, B, C
<1>8. IsRebranched(e, f, B)
  BY <1>2, <1>3, <1>4 DEF IsRebranched
<1>9. /\ f \in Block /\ DOMAIN f = DOMAIN e
      /\ \A i \in DOMAIN e : /\ f[i].value.branches = B[i]
                             /\ DOMAIN f[i].value.branches = DOMAIN e[i].value.branches
  BY <1>1, <1>8, RebranchedShape
<1>10. ASSUME NEW i \in DOMAIN f, NEW j \in DOMAIN f[i].value.branches
       PROVE  /\ C[i][j] \in Branch /\ BranchIn(n, src, C[i][j])
              /\ C[i][j].effect = f[i].value.branches[j].effect
  <2>1. i \in DOMAIN e /\ j \in DOMAIN e[i].value.branches /\ f[i].value.branches[j] = B[i][j]
    BY <1>9
  <2>2. C[i][j] = CallBranch(B[i][j], impls)
    BY <1>7, <2>1
  <2>3. QED
    BY <1>2, <2>1, <2>2
<1>11. IsRebranched(f, g, C)
  BY <1>5, <1>6, <1>10 DEF IsRebranched
<1>12. BlockIn(n, src, g)
  BY <1>9, <1>10, <1>11, RebranchedBlock
<1>13. Effective(e) => Effective(g)
  <2>1. Effective(e) => Effective(f)
    BY <1>1, <1>2, <1>8, RebranchedEffects
  <2>2. Effective(f) => Effective(g)
    BY <1>9, <1>10, <1>11, RebranchedEffects
  <2>3. QED
    BY <2>1, <2>2
<1>14. ASSUME CallsNothing(e) PROVE BlockIn(n, src, f) /\ CallsNothing(f)
  <2>1. \A i \in DOMAIN e : \A j \in DOMAIN e[i].value.branches :
           e[i].value.branches[j].calls = {} /\ BranchIn(n, src, B[i][j])
    BY <1>2, <1>14 DEF CallsNothing
  <2>2. BlockIn(n, src, f)
    BY <1>1, <1>8, <2>1, RebranchedBlock
  <2>3. CallsNothing(f)
    BY <1>1, <1>2, <1>8, <1>14, RebranchedCalls
  <2>4. QED
    BY <2>2, <2>3
<1>15. QED
  BY <1>9, <1>12, <1>13, <1>14 DEF f, g

-----------------------------------------------------------------------------
(* The items, each with what remap_module and apply_impl_index_remap make  *)
(* of it.                                                                  *)

CallsOfDef(d, impls) == [d EXCEPT !.default = rewrite_static_impl_ids(@, impls)]
CallsOfFunction(f, impls) ==
    [f EXCEPT !.body = rewrite_static_impl_ids(@, impls), !.default = Same(@)]
CallsOfLet(l, impls) == [l EXCEPT !.value = rewrite_static_impl_ids(@, impls)]

MovedDef(d, keep, impls) == CallsOfDef(remap_definition(d, keep), impls)
MovedFunction(f, keep, impls) == CallsOfFunction(remap_function(f, keep), impls)
MovedImpl(i, keep, impls) == CallsOfFunction(remap_impl(i, keep), impls)
MovedLet(l, keep, impls) == CallsOfLet(remap_let(l, keep), impls)

\* All that is marked stays.
MarksAreKept(marks, keep) == \A p \in marks : p[2] \in keep[p[1]]

LEMMA MarkedIsKept ==
  ASSUME NEW marks, NEW keep, MarksAreKept(marks, keep), NEW refs, AllIn(refs, marks)
  PROVE  AreKept(refs, keep)
<1>1. ASSUME NEW r \in refs PROVE r.id \in keep[r.kind]
  <2>1. <<r.kind, r.id>> \in marks
    BY DEF AllIn, Mark
  <2>2. <<r.kind, r.id>>[2] \in keep[<<r.kind, r.id>>[1]]
    BY <2>1 DEF MarksAreKept
  <2>3. QED
    BY <2>2
<1>2. QED
  BY <1>1 DEF AreKept

LEMMA MovedDefShape ==
  ASSUME NEW d \in Def, NEW keep, NEW impls
  PROVE  MovedDef(d, keep, impls) =
            [was |-> d.was, pub |-> d.pub, types |-> remap_types(d.types, keep),
             bounds |-> retain_trait_ref(d.bounds, keep),
             composed |-> retain_trait_id(d.composed, keep),
             default |-> rewrite_static_impl_ids(remap_expr(d.default, keep), impls)]
<1> DEFINE r == remap_definition(d, keep)
<1>1. r = [was |-> d.was, pub |-> d.pub, types |-> remap_types(d.types, keep),
           bounds |-> retain_trait_ref(d.bounds, keep),
           composed |-> retain_trait_id(d.composed, keep),
           default |-> remap_expr(d.default, keep)]
  <2>1. d = [was |-> d.was, pub |-> d.pub, types |-> d.types, bounds |-> d.bounds,
             composed |-> d.composed, default |-> d.default]
    BY DEF Def
  <2>2. r = [d EXCEPT !.types = remap_types(d.types, keep),
                      !.composed = retain_trait_id(d.composed, keep),
                      !.bounds = retain_trait_ref(d.bounds, keep),
                      !.default = remap_expr(d.default, keep)]
    BY DEF remap_definition
  <2> HIDE DEF r
  <2>3. QED
    BY <2>1, <2>2
<1> HIDE DEF r
<1>2. MovedDef(d, keep, impls) = [r EXCEPT !.default = rewrite_static_impl_ids(r.default, impls)]
  BY DEF MovedDef, CallsOfDef, r
<1>3. QED
  BY <1>1, <1>2

LEMMA MovedFunctionShape ==
  ASSUME NEW f \in Function, NEW keep, NEW impls
  PROVE  MovedFunction(f, keep, impls) =
            [sig |-> remap_types(f.sig, keep), bounds |-> f.bounds,
             body |-> rewrite_static_impl_ids(remap_expr(f.body, keep), impls),
             default |-> remap_expr(f.default, keep)]
<1> DEFINE r == remap_function(f, keep)
<1>1. r = [sig |-> remap_types(f.sig, keep), bounds |-> f.bounds,
           body |-> remap_expr(f.body, keep), default |-> remap_expr(f.default, keep)]
  <2>1. f = [sig |-> f.sig, bounds |-> f.bounds, body |-> f.body, default |-> f.default]
    BY DEF Function
  <2>2. r = [f EXCEPT !.sig = remap_types(f.sig, keep), !.body = remap_expr(f.body, keep),
                      !.default = remap_expr(f.default, keep)]
    BY DEF remap_function
  <2> HIDE DEF r
  <2>3. QED
    BY <2>1, <2>2
<1> HIDE DEF r
<1>2. MovedFunction(f, keep, impls) =
        [r EXCEPT !.body = rewrite_static_impl_ids(r.body, impls), !.default = r.default]
  BY DEF MovedFunction, CallsOfFunction, Same, r
<1>3. QED
  BY <1>1, <1>2

LEMMA MovedImplShape ==
  ASSUME NEW i \in Impl, NEW keep, NEW impls, \A b \in i.trait : b.trait.id \in keep["trait"]
  PROVE  MovedImpl(i, keep, impls) =
            [was |-> i.was, target |-> remap_types(i.target, keep),
             trait |-> {remap_bound(b, keep) : b \in i.trait},
             sig |-> remap_types(i.sig, keep), bounds |-> i.bounds,
             body |-> rewrite_static_impl_ids(remap_expr(i.body, keep), impls),
             default |-> remap_expr(i.default, keep)]
<1> DEFINE r == remap_function(i, keep)
           q == remap_impl(i, keep)
           trait == {IF b.trait.id \in keep["trait"] THEN remap_bound(b, keep) ELSE b :
                       b \in i.trait}
<1>1. r = [was |-> i.was, target |-> i.target, trait |-> i.trait,
           sig |-> remap_types(i.sig, keep), bounds |-> i.bounds,
           body |-> remap_expr(i.body, keep), default |-> remap_expr(i.default, keep)]
  <2>1. i = [was |-> i.was, target |-> i.target, trait |-> i.trait, sig |-> i.sig,
             bounds |-> i.bounds, body |-> i.body, default |-> i.default]
    BY DEF Impl
  <2>2. r = [i EXCEPT !.sig = remap_types(i.sig, keep), !.body = remap_expr(i.body, keep),
                      !.default = remap_expr(i.default, keep)]
    BY DEF remap_function
  <2> HIDE DEF r
  <2>3. QED
    BY <2>1, <2>2
<1>2. trait = {remap_bound(b, keep) : b \in i.trait}
  OBVIOUS
<1> HIDE DEF r
<1>3. q = [r EXCEPT !.target = remap_types(r.target, keep),
                    !.trait = {IF b.trait.id \in keep["trait"] THEN remap_bound(b, keep) ELSE b :
                                 b \in r.trait}]
  BY DEF remap_impl, r
<1> HIDE DEF q, trait
<1>4. q = [r EXCEPT !.target = remap_types(i.target, keep), !.trait = trait]
  BY <1>1, <1>3 DEF trait
<1>5. MovedImpl(i, keep, impls) =
        [q EXCEPT !.body = rewrite_static_impl_ids(q.body, impls), !.default = q.default]
  BY DEF MovedImpl, CallsOfFunction, Same, q
<1>6. QED
  BY <1>1, <1>2, <1>4, <1>5

LEMMA MovedLetShape ==
  ASSUME NEW l \in LetDef, NEW keep, NEW impls
  PROVE  MovedLet(l, keep, impls) =
            [was |-> l.was, pub |-> l.pub, name |-> l.name,
             type |-> remap_types(l.type, keep),
             value |-> rewrite_static_impl_ids(remap_expr(l.value, keep), impls)]
<1> DEFINE r == remap_let(l, keep)
<1>1. r = [was |-> l.was, pub |-> l.pub, name |-> l.name,
           type |-> remap_types(l.type, keep), value |-> remap_expr(l.value, keep)]
  <2>1. l = [was |-> l.was, pub |-> l.pub, name |-> l.name, type |-> l.type,
             value |-> l.value]
    BY DEF LetDef
  <2>2. r = [l EXCEPT !.type = remap_types(l.type, keep), !.value = remap_expr(l.value, keep)]
    BY DEF remap_let
  <2> HIDE DEF r
  <2>3. QED
    BY <2>1, <2>2
<1> HIDE DEF r
<1>2. MovedLet(l, keep, impls) = [r EXCEPT !.value = rewrite_static_impl_ids(r.value, impls)]
  BY DEF MovedLet, CallsOfLet, r
<1>3. QED
  BY <1>1, <1>2

LEMMA DefMoves ==
  ASSUME NEW src \in Module, NEW m, ModuleIn(m, src), NEW n, NEW keep, NEW impls,
         Removed(m, n, keep, impls), NEW marks, MarksAreKept(marks, keep),
         NEW k, NEW d, DefIn(m, src, k, d), DefMarked(d, marks)
  PROVE  DefIn(n, src, k, MovedDef(d, keep, impls)) /\ MovedDef(d, keep, impls).was = d.was
<1> DEFINE types == remap_types(d.types, keep)
           composed == retain_trait_id(d.composed, keep)
           bounds == retain_trait_ref(d.bounds, keep)
           default == rewrite_static_impl_ids(remap_expr(d.default, keep), impls)
           g == MovedDef(d, keep, impls)
<1>1. m \in Module
  BY DEF ModuleIn
<1>2. /\ d \in Def /\ d.types \in SUBSET Ref /\ d.composed \in SUBSET Ref
      /\ d.bounds \in SUBSET Bound /\ d.pub \in BOOLEAN /\ d.was \in Nat
  BY DEF DefIn, Def
<1>3. /\ AreKept(d.types, keep) /\ AreKept(d.composed, keep)
      /\ AreKept(OfBounds(d.bounds), keep) /\ AreKept(TypesIn(d.default), keep)
  BY MarkedIsKept DEF DefMarked
<1>4. g = [was |-> d.was, pub |-> d.pub, types |-> types, bounds |-> bounds,
           composed |-> composed, default |-> default]
  BY <1>2, MovedDefShape
<1>5. /\ types \in SUBSET Ref /\ \A q \in types : RefOK(n, q)
      /\ Meant(types) = Meant(d.types)
  <2>1. \A r \in d.types : RefOK(m, r)
    BY DEF DefIn
  <2>2. QED
    BY <1>1, <1>2, <1>3, <2>1, RefsMove
<1>6. /\ composed \in SUBSET Ref /\ \A q \in composed : RefOK(n, q) /\ q.kind = "trait"
      /\ Meant(composed) = Meant(d.composed)
  <2>1. \A r \in d.composed : RefOK(m, r) /\ r.kind = "trait"
    BY DEF DefIn
  <2>2. composed = remap_types(d.composed, keep)
    BY <1>3, <2>1, ComposedMove
  <2> HIDE DEF composed
  <2>3. /\ remap_types(d.composed, keep) \in SUBSET Ref
        /\ \A q \in remap_types(d.composed, keep) : RefOK(n, q)
        /\ Meant(remap_types(d.composed, keep)) = Meant(d.composed)
        /\ \A q \in remap_types(d.composed, keep) : \E r \in d.composed : q.kind = r.kind
    BY <1>1, <1>2, <1>3, <2>1, RefsMove
  <2>4. QED
    BY <2>1, <2>2, <2>3
<1>7. bounds \in SUBSET Bound /\ BoundsIn(n, bounds) /\ MeantBy(bounds) = MeantBy(d.bounds)
  <2>1. BoundsIn(m, d.bounds)
    BY DEF DefIn
  <2>2. QED
    BY <1>1, <1>2, <1>3, <2>1, BoundsMove
<1>8. BlockIn(n, src, default)
  <2>1. BlockIn(m, src, d.default)
    BY DEF DefIn
  <2>2. QED
    BY <1>3, <2>1, BlockMoves
<1> HIDE DEF types, composed, bounds, default, g
<1>9. /\ g.was = d.was /\ g.pub = d.pub /\ g.types = types /\ g.composed = composed
      /\ g.bounds = bounds /\ g.default = default
  BY <1>4
<1>10. g \in Def
  <2>1. default \in Block
    BY <1>8 DEF BlockIn
  <2>2. QED
    BY <1>2, <1>4, <1>5, <1>6, <1>7, <2>1 DEF Def
<1>11. DefIn(n, src, k, g)
  <2>1. /\ d.was \in DOMAIN src.defs[k] /\ d.pub = src.defs[k][d.was].pub
        /\ Meant(d.types) = Meant(src.defs[k][d.was].types)
        /\ Meant(d.composed) = Meant(src.defs[k][d.was].composed)
        /\ MeantBy(d.bounds) = MeantBy(src.defs[k][d.was].bounds)
    BY DEF DefIn
  <2>2. QED
    BY <1>5, <1>6, <1>7, <1>8, <1>9, <1>10, <2>1 DEF DefIn
<1>12. QED
  BY <1>9, <1>11 DEF g

\* The parts that functions and impls share.
LEMMA CallableMoves ==
  ASSUME NEW src \in Module, NEW m, ModuleIn(m, src), NEW n, NEW keep, NEW impls,
         Removed(m, n, keep, impls), NEW marks, MarksAreKept(marks, keep),
         NEW f, NEW s, CallableIn(m, src, f, s), CallableMarked(f, marks), f.sig \in SUBSET Ref,
         NEW g, g.sig = remap_types(f.sig, keep), g.bounds = f.bounds,
         g.body = rewrite_static_impl_ids(remap_expr(f.body, keep), impls),
         g.default = remap_expr(f.default, keep)
  PROVE  CallableIn(n, src, g, s) /\ g.sig \in SUBSET Ref
<1>1. m \in Module
  BY DEF ModuleIn
<1>2. /\ AreKept(f.sig, keep) /\ AreKept(TypesIn(f.body), keep)
      /\ AreKept(TypesIn(f.default), keep)
  BY MarkedIsKept DEF CallableMarked
<1>3. /\ g.sig \in SUBSET Ref /\ \A q \in g.sig : RefOK(n, q)
      /\ Meant(g.sig) = Meant(f.sig)
  <2>1. \A r \in f.sig : RefOK(m, r)
    BY DEF CallableIn
  <2>2. /\ remap_types(f.sig, keep) \in SUBSET Ref
        /\ \A q \in remap_types(f.sig, keep) : RefOK(n, q)
        /\ Meant(remap_types(f.sig, keep)) = Meant(f.sig)
    BY <1>1, <1>2, <2>1, RefsMove
  <2>3. QED
    BY <2>2
<1>4. BlockIn(n, src, g.body)
  <2>1. BlockIn(m, src, f.body)
    BY DEF CallableIn
  <2>2. QED
    BY <1>2, <2>1, BlockMoves
<1>5. BlockIn(n, src, g.default) /\ CallsNothing(g.default)
  <2>1. BlockIn(m, src, f.default) /\ CallsNothing(f.default)
    BY DEF CallableIn
  <2>2. QED
    BY <1>2, <2>1, BlockMoves
<1>6. f.bounds = {} /\ s.bounds = {} /\ Meant(f.sig) = Meant(s.sig)
  BY DEF CallableIn
<1>7. QED
  BY <1>3, <1>4, <1>5, <1>6 DEF CallableIn

LEMMA FunctionMoves ==
  ASSUME NEW src \in Module, NEW m, ModuleIn(m, src), NEW n, NEW keep, NEW impls,
         Removed(m, n, keep, impls), NEW marks, MarksAreKept(marks, keep),
         NEW f \in Function, NEW s, CallableIn(m, src, f, s), CallableMarked(f, marks)
  PROVE  /\ MovedFunction(f, keep, impls) \in Function
         /\ CallableIn(n, src, MovedFunction(f, keep, impls), s)
<1> DEFINE sig == remap_types(f.sig, keep)
           body == rewrite_static_impl_ids(remap_expr(f.body, keep), impls)
           default == remap_expr(f.default, keep)
           g == MovedFunction(f, keep, impls)
<1>1. g = [sig |-> sig, bounds |-> f.bounds, body |-> body, default |-> default]
  BY MovedFunctionShape
<1>2. f.sig \in SUBSET Ref /\ f.bounds \in SUBSET Bound
  BY DEF Function
<1> HIDE DEF sig, body, default, g
<1>3. g.sig = sig /\ g.bounds = f.bounds /\ g.body = body /\ g.default = default
  BY <1>1
<1>4. CallableIn(n, src, g, s) /\ g.sig \in SUBSET Ref
  BY <1>2, <1>3, CallableMoves DEF sig, body, default
<1>5. g.body \in Block /\ g.default \in Block
  BY <1>4 DEF CallableIn, BlockIn
<1>6. g \in Function
  BY <1>1, <1>2, <1>3, <1>4, <1>5 DEF Function
<1>7. QED
  BY <1>4, <1>6 DEF g

LEMMA ImplMoves ==
  ASSUME NEW src \in Module, NEW m, ModuleIn(m, src), NEW n, NEW keep, NEW impls,
         Removed(m, n, keep, impls), NEW marks, MarksAreKept(marks, keep),
         NEW i, ImplIn(m, src, i), CallableMarked(i, marks), AreKept(i.target, keep),
         AreKept(OfBounds(i.trait), keep)
  PROVE  /\ MovedImpl(i, keep, impls).was = i.was
         /\ ImplIn(n, src, MovedImpl(i, keep, impls))
<1> DEFINE sig == remap_types(i.sig, keep)
           target == remap_types(i.target, keep)
           trait == {remap_bound(b, keep) : b \in i.trait}
           body == rewrite_static_impl_ids(remap_expr(i.body, keep), impls)
           default == remap_expr(i.default, keep)
           g == MovedImpl(i, keep, impls)
<1>1. m \in Module
  BY DEF ModuleIn
<1>2. /\ i \in Impl /\ i.sig \in SUBSET Ref /\ i.bounds \in SUBSET Bound /\ i.was \in Nat
      /\ i.target \in SUBSET Ref /\ i.trait \in SUBSET Bound
  BY DEF ImplIn, Impl
<1>3. /\ \A b \in i.trait : b.trait.id \in keep["trait"]
      /\ trait \in SUBSET Bound /\ BoundsIn(n, trait) /\ MeantBy(trait) = MeantBy(i.trait)
  <2>1. BoundsIn(m, i.trait)
    BY DEF ImplIn
  <2>2. /\ retain_trait_ref(i.trait, keep) = trait
        /\ \A b \in i.trait : b.trait.id \in keep["trait"]
        /\ retain_trait_ref(i.trait, keep) \in SUBSET Bound
        /\ BoundsIn(n, retain_trait_ref(i.trait, keep))
        /\ MeantBy(retain_trait_ref(i.trait, keep)) = MeantBy(i.trait)
    BY <1>1, <1>2, <2>1, BoundsMove
  <2> HIDE DEF trait
  <2>3. QED
    BY <2>2
<1>4. g = [was |-> i.was, target |-> target, trait |-> trait, sig |-> sig,
           bounds |-> i.bounds, body |-> body, default |-> default]
  BY <1>2, <1>3, MovedImplShape
<1>5. /\ target \in SUBSET Ref /\ \A q \in target : RefOK(n, q) /\ q.kind # "trait"
      /\ Meant(target) = Meant(i.target)
  <2>1. \A t \in i.target : RefOK(m, t) /\ t.kind # "trait"
    BY DEF ImplIn
  <2>2. /\ target \in SUBSET Ref /\ \A q \in target : RefOK(n, q)
        /\ Meant(target) = Meant(i.target)
        /\ \A q \in target : \E t \in i.target : q.kind = t.kind
    BY <1>1, <1>2, <2>1, RefsMove
  <2> HIDE DEF target
  <2>3. QED
    BY <2>1, <2>2
<1> HIDE DEF sig, target, trait, body, default, g
<1>6. /\ g.was = i.was /\ g.target = target /\ g.trait = trait /\ g.sig = sig
      /\ g.bounds = i.bounds /\ g.body = body /\ g.default = default
  BY <1>4
<1>7. CallableIn(n, src, g, src.impls[i.was]) /\ g.sig \in SUBSET Ref
  <2>1. CallableIn(m, src, i, src.impls[i.was])
    BY DEF ImplIn
  <2>2. QED
    BY <1>2, <1>6, <2>1, CallableMoves DEF sig, body, default
<1>8. g.body \in Block /\ g.default \in Block
  BY <1>7 DEF CallableIn, BlockIn
<1>9. g \in Impl
  BY <1>2, <1>3, <1>4, <1>5, <1>6, <1>7, <1>8 DEF Impl
<1>10. /\ i.was \in DOMAIN src.impls
       /\ Meant(i.target) = Meant(src.impls[i.was].target)
       /\ MeantBy(i.trait) = MeantBy(src.impls[i.was].trait)
  BY DEF ImplIn
<1>11. ImplIn(n, src, g)
  BY <1>3, <1>5, <1>6, <1>7, <1>9, <1>10 DEF ImplIn
<1>12. QED
  BY <1>6, <1>11 DEF g

LEMMA LetMoves ==
  ASSUME NEW src \in Module, NEW m, ModuleIn(m, src), NEW n, NEW keep, NEW impls,
         Removed(m, n, keep, impls), NEW marks, MarksAreKept(marks, keep),
         NEW l, LetIn(m, src, l), LetMarked(l, marks)
  PROVE  /\ LetIn(n, src, MovedLet(l, keep, impls))
         /\ MovedLet(l, keep, impls).was = l.was
         /\ MovedLet(l, keep, impls).pub = l.pub
         /\ Effective(l.value) => Effective(MovedLet(l, keep, impls).value)
<1> DEFINE type == remap_types(l.type, keep)
           value == rewrite_static_impl_ids(remap_expr(l.value, keep), impls)
           g == MovedLet(l, keep, impls)
<1>1. m \in Module
  BY DEF ModuleIn
<1>2. /\ l \in LetDef /\ l.type \in SUBSET Ref /\ l.was \in Nat /\ l.pub \in BOOLEAN
      /\ l.name \in STRING
  BY DEF LetIn, LetDef
<1>3. AreKept(l.type, keep) /\ AreKept(TypesIn(l.value), keep)
  BY MarkedIsKept DEF LetMarked
<1>4. g = [was |-> l.was, pub |-> l.pub, name |-> l.name, type |-> type, value |-> value]
  BY <1>2, MovedLetShape
<1>5. type \in SUBSET Ref /\ \A q \in type : RefOK(n, q)
  <2>1. \A r \in l.type : RefOK(m, r)
    BY DEF LetIn
  <2>2. QED
    BY <1>1, <1>2, <1>3, <2>1, RefsMove
<1>7. /\ BlockIn(n, src, value)
      /\ Effective(l.value) => Effective(value)
  <2>1. BlockIn(m, src, l.value)
    BY DEF LetIn
  <2>2. QED
    BY <1>3, <2>1, BlockMoves
<1> HIDE DEF type, value, g
<1>8. g.was = l.was /\ g.pub = l.pub /\ g.name = l.name /\ g.type = type /\ g.value = value
  BY <1>4
<1>9. g \in LetDef
  BY <1>2, <1>4, <1>5, <1>7 DEF LetDef, BlockIn
<1>10. LetIn(n, src, g)
  BY <1>5, <1>7, <1>8, <1>9 DEF LetIn
<1>11. QED
  BY <1>7, <1>8, <1>10 DEF g

-----------------------------------------------------------------------------
(* The module that a removal leaves.                                       *)

IsMoved(m, n, keep, impls) ==
    /\ n = [defs |-> n.defs, impls |-> n.impls, functions |-> n.functions, lets |-> n.lets]
    /\ n.defs = [k \in Kinds |-> n.defs[k]]
    /\ \A k \in Kinds :
          LET kept == Kept(m.defs[k], keep[k])
          IN  n.defs[k] = [i \in DOMAIN kept |-> MovedDef(kept[i], keep, impls)]
    /\ LET kept == Kept(m.impls, impls)
       IN  n.impls = [i \in DOMAIN kept |-> MovedImpl(kept[i], keep, impls)]
    /\ n.functions = [i \in DOMAIN m.functions |-> MovedFunction(m.functions[i], keep, impls)]
    /\ n.lets = [i \in DOMAIN m.lets |-> MovedLet(m.lets[i], keep, impls)]

LEMMA RemovalMoves ==
  ASSUME NEW m \in Module, NEW keep, NEW impls,
         NEW left, left = [m EXCEPT !.defs = [k \in Kinds |-> Kept(m.defs[k], keep[k])],
                                    !.impls = Kept(m.impls, impls)],
         NEW x, x = remap_module(left, keep),
         NEW n, n = apply_impl_index_remap(x, impls)
  PROVE  IsMoved(m, n, keep, impls)
<1>1. /\ left.functions = m.functions /\ left.lets = m.lets
      /\ left.impls = Kept(m.impls, impls)
      /\ \A k \in Kinds : left.defs[k] = Kept(m.defs[k], keep[k])
  <2>1. m = [defs |-> m.defs, impls |-> m.impls, functions |-> m.functions, lets |-> m.lets]
    BY DEF Module
  <2>2. QED
    BY <2>1
<1>2. /\ n = [defs |-> n.defs, impls |-> n.impls, functions |-> n.functions, lets |-> n.lets]
      /\ n.defs = [k \in Kinds |-> n.defs[k]]
  BY DEF apply_impl_index_remap, OnRoots
<1>3. n.functions = [i \in DOMAIN m.functions |-> MovedFunction(m.functions[i], keep, impls)]
  <2>1. n.functions = [i \in DOMAIN x.functions |-> CallsOfFunction(x.functions[i], impls)]
    BY DEF apply_impl_index_remap, OnRoots, CallsOfFunction
  <2>2. x.functions = [i \in DOMAIN m.functions |-> remap_function(m.functions[i], keep)]
    BY <1>1 DEF remap_module
  <2>3. QED
    BY <2>1, <2>2 DEF MovedFunction
<1>4. n.impls = [i \in DOMAIN left.impls |-> MovedImpl(left.impls[i], keep, impls)]
  <2> DEFINE a == x.impls
             b == left.impls
  <2>1. n.impls = [i \in DOMAIN a |-> CallsOfFunction(a[i], impls)]
    BY DEF apply_impl_index_remap, OnRoots, CallsOfFunction
  <2>2. a = [i \in DOMAIN b |-> remap_impl(b[i], keep)]
    BY DEF remap_module
  <2> HIDE DEF a, b
  <2>3. n.impls = [i \in DOMAIN b |-> MovedImpl(b[i], keep, impls)]
    BY <2>1, <2>2 DEF MovedImpl
  <2>4. QED
    BY <2>3 DEF b
<1>5. ASSUME NEW k \in Kinds
      PROVE  n.defs[k] = [i \in DOMAIN left.defs[k] |-> MovedDef(left.defs[k][i], keep, impls)]
  <2> DEFINE a == x.defs[k]
             b == left.defs[k]
  <2>1. n.defs[k] = [i \in DOMAIN a |-> CallsOfDef(a[i], impls)]
    BY DEF apply_impl_index_remap, OnRoots, CallsOfDef
  <2>2. a = [i \in DOMAIN b |-> remap_definition(b[i], keep)]
    BY DEF remap_module
  <2> HIDE DEF a, b
  <2>3. n.defs[k] = [i \in DOMAIN b |-> MovedDef(b[i], keep, impls)]
    BY <2>1, <2>2 DEF MovedDef
  <2>4. QED
    BY <2>3 DEF b
<1>6. n.lets = [i \in DOMAIN m.lets |-> MovedLet(m.lets[i], keep, impls)]
  <2>1. n.lets = [i \in DOMAIN x.lets |-> CallsOfLet(x.lets[i], impls)]
    BY DEF apply_impl_index_remap, OnRoots, CallsOfLet
  <2>2. x.lets = [i \in DOMAIN m.lets |-> remap_let(m.lets[i], keep)]
    BY <1>1 DEF remap_module
  <2>3. QED
    BY <2>1, <2>2 DEF MovedLet
<1>7. n.impls = [i \in DOMAIN Kept(m.impls, impls) |->
                    MovedImpl(Kept(m.impls, impls)[i], keep, impls)]
  BY <1>1, <1>4
<1>8. ASSUME NEW k \in Kinds
      PROVE  n.defs[k] = [i \in DOMAIN Kept(m.defs[k], keep[k]) |->
                             MovedDef(Kept(m.defs[k], keep[k])[i], keep, impls)]
  <2> DEFINE b == left.defs[k]
             c == Kept(m.defs[k], keep[k])
  <2>1. b = c
    BY <1>1
  <2>2. n.defs[k] = [i \in DOMAIN b |-> MovedDef(b[i], keep, impls)]
    BY <1>5
  <2> HIDE DEF b, c
  <2>3. n.defs[k] = [i \in DOMAIN c |-> MovedDef(c[i], keep, impls)]
    BY <2>1, <2>2
  <2>4. QED
    BY <2>3 DEF c
<1>9. QED
  BY <1>2, <1>3, <1>6, <1>7, <1>8 DEF IsMoved

\* t holds what s held at the positions kept, in order.
IsPacked(s, keep, t) ==
    /\ DOMAIN t = 1..Cardinality(keep)
    /\ \A i \in keep : Rank(keep, i) \in DOMAIN t /\ t[Rank(keep, i)] = s[i]
    /\ \A a \in DOMAIN t : \E i \in keep : Rank(keep, i) = a

LEMMA KeptIsPacked ==
  ASSUME NEW N \in Nat, NEW keep \in SUBSET (1..N), NEW s
  PROVE  IsPacked(s, keep, Kept(s, keep))
<1>1. DOMAIN Kept(s, keep) = 1..Cardinality(keep)
  BY DEF Kept
<1>2. \A i \in keep : /\ Rank(keep, i) \in DOMAIN Kept(s, keep)
                      /\ Kept(s, keep)[Rank(keep, i)] = s[i]
  BY KeptAt
<1>3. \A a \in 1..Cardinality(keep) : \E i \in keep : Rank(keep, i) = a
  BY RankOnto
<1>4. QED
  BY <1>1, <1>2, <1>3 DEF IsPacked

\* What closes ranks stays in order.
LEMMA RankedInOrder ==
  ASSUME NEW N \in Nat, NEW keep \in SUBSET (1..N), NEW s, DOMAIN s = 1..N, NEW t,
         \A i \in keep : Rank(keep, i) \in DOMAIN t /\ t[Rank(keep, i)].was = s[i].was,
         \A a \in DOMAIN t : \E i \in keep : Rank(keep, i) = a,
         NEW src, InOrder(s, src)
  PROVE  InOrder(t, src)
<1>1. ASSUME NEW a \in DOMAIN t PROVE \E i \in keep : Rank(keep, i) = a /\ t[a].was = s[i].was
  OBVIOUS
<1>2. ASSUME NEW a \in DOMAIN t PROVE t[a].was \in DOMAIN src
  <2>1. PICK i \in keep : t[a].was = s[i].was
    BY <1>1
  <2>2. QED
    BY <2>1 DEF InOrder
<1>3. ASSUME NEW a \in DOMAIN t, NEW b \in DOMAIN t, a < b PROVE t[a].was < t[b].was
  <2>1. PICK i \in keep : Rank(keep, i) = a /\ t[a].was = s[i].was
    BY <1>1
  <2>2. PICK j \in keep : Rank(keep, j) = b /\ t[b].was = s[j].was
    BY <1>1
  <2>3. i < j
    BY <1>3, <2>1, <2>2, RankInjective
  <2>4. QED
    BY <2>1, <2>2, <2>3 DEF InOrder
<1>4. QED
  BY <1>2, <1>3 DEF InOrder

\* What has to be true of the definitions and the impls kept, all that is
\* marked being among them.
CanStay(m, keep, impls, marks) ==
    /\ \A k \in Kinds : keep[k] \in SUBSET (1..Len(m.defs[k]))
    /\ impls \in SUBSET (1..Len(m.impls))
    /\ \A i \in DOMAIN m.impls : i \in impls <=> AreKept(m.impls[i].target, keep)
    /\ \A i \in impls : AreKept(OfBounds(m.impls[i].trait), keep)
    /\ MarksAreKept(marks, keep)
    /\ \A k \in Kinds : \A i \in DOMAIN m.defs[k] :
          DefMarked(m.defs[k][i], marks) /\ (m.defs[k][i].pub => i \in keep[k])
    /\ \A i \in DOMAIN m.functions : CallableMarked(m.functions[i], marks)
    /\ \A i \in DOMAIN m.impls : CallableMarked(m.impls[i], marks)
    /\ \A i \in DOMAIN m.lets : LetMarked(m.lets[i], marks)

\* The items of n, each from the item of m that it was.
ComesFrom(m, n, keep, impls) ==
    /\ \A k \in Kinds : LET K == keep[k] IN
          /\ DOMAIN n.defs[k] = 1..Cardinality(K)
          /\ \A i \in K : /\ Rank(K, i) \in DOMAIN n.defs[k]
                          /\ n.defs[k][Rank(K, i)] = MovedDef(m.defs[k][i], keep, impls)
          /\ \A a \in DOMAIN n.defs[k] : \E i \in K : Rank(K, i) = a
    /\ DOMAIN n.impls = 1..Cardinality(impls)
    /\ \A i \in impls : /\ Rank(impls, i) \in DOMAIN n.impls
                        /\ n.impls[Rank(impls, i)] = MovedImpl(m.impls[i], keep, impls)
    /\ \A a \in DOMAIN n.impls : \E i \in impls : Rank(impls, i) = a

LEMMA MovedComesFrom ==
  ASSUME NEW m \in Module, NEW n, NEW keep, NEW impls, IsMoved(m, n, keep, impls),
         NEW marks, CanStay(m, keep, impls, marks)
  PROVE  ComesFrom(m, n, keep, impls)
<1>1. ASSUME NEW k \in Kinds
      PROVE  LET K == keep[k] IN
             /\ DOMAIN n.defs[k] = 1..Cardinality(K)
             /\ \A i \in K : /\ Rank(K, i) \in DOMAIN n.defs[k]
                             /\ n.defs[k][Rank(K, i)] = MovedDef(m.defs[k][i], keep, impls)
             /\ \A a \in DOMAIN n.defs[k] : \E i \in K : Rank(K, i) = a
  <2> DEFINE K == keep[k]
             N == Len(m.defs[k])
             s == m.defs[k]
             c == Kept(s, K)
  <2>1. N \in Nat /\ K \in SUBSET (1..N)
    BY ModuleParts DEF CanStay
  <2>2. n.defs[k] = [i \in DOMAIN c |-> MovedDef(c[i], keep, impls)]
    BY DEF IsMoved
  <2> HIDE DEF N, K
  <2>3. IsPacked(s, K, c)
    BY <2>1, KeptIsPacked
  <2> HIDE DEF c, s
  <2>4. /\ DOMAIN n.defs[k] = 1..Cardinality(K)
        /\ \A i \in K : /\ Rank(K, i) \in DOMAIN n.defs[k]
                        /\ n.defs[k][Rank(K, i)] = MovedDef(s[i], keep, impls)
        /\ \A a \in DOMAIN n.defs[k] : \E i \in K : Rank(K, i) = a
    BY <2>2, <2>3 DEF IsPacked
  <2>5. QED
    BY <2>4 DEF K, s
<1>2. /\ DOMAIN n.impls = 1..Cardinality(impls)
      /\ \A i \in impls : /\ Rank(impls, i) \in DOMAIN n.impls
                          /\ n.impls[Rank(impls, i)] = MovedImpl(m.impls[i], keep, impls)
      /\ \A a \in DOMAIN n.impls : \E i \in impls : Rank(impls, i) = a
  <2> DEFINE N == Len(m.impls)
             s == m.impls
             c == Kept(s, impls)
  <2>1. N \in Nat /\ impls \in SUBSET (1..N)
    BY ModuleParts DEF CanStay
  <2>2. n.impls = [i \in DOMAIN c |-> MovedImpl(c[i], keep, impls)]
    BY DEF IsMoved
  <2> HIDE DEF N
  <2>3. IsPacked(s, impls, c)
    BY <2>1, KeptIsPacked
  <2> HIDE DEF c, s
  <2>4. /\ DOMAIN n.impls = 1..Cardinality(impls)
        /\ \A i \in impls : /\ Rank(impls, i) \in DOMAIN n.impls
                            /\ n.impls[Rank(impls, i)] = MovedImpl(s[i], keep, impls)
        /\ \A a \in DOMAIN n.impls : \E i \in impls : Rank(impls, i) = a
    BY <2>2, <2>3 DEF IsPacked
  <2>5. QED
    BY <2>4 DEF s
<1>3. QED
  BY <1>1, <1>2 DEF ComesFrom

LEMMA MovedWas ==
  ASSUME NEW keep, NEW impls
  PROVE  /\ \A d \in Def : MovedDef(d, keep, impls).was = d.was
         /\ \A i \in Impl : MovedImpl(i, keep, impls).was = i.was
         /\ \A l \in LetDef : MovedLet(l, keep, impls).was = l.was
<1>1. ASSUME NEW d \in Def PROVE MovedDef(d, keep, impls).was = d.was
  BY MovedDefShape
<1>2. ASSUME NEW i \in Impl PROVE MovedImpl(i, keep, impls).was = i.was
  <2> DEFINE r == remap_function(i, keep)
             q == remap_impl(i, keep)
  <2>1. r.was = i.was
    BY DEF remap_function, Impl
  <2>2. q.was = r.was
    BY DEF remap_impl
  <2> HIDE DEF q, r
  <2>3. CallsOfFunction(q, impls).was = q.was
    BY DEF CallsOfFunction
  <2>4. QED
    BY <2>1, <2>2, <2>3 DEF MovedImpl, q
<1>3. ASSUME NEW l \in LetDef PROVE MovedLet(l, keep, impls).was = l.was
  BY MovedLetShape
<1>4. QED
  BY <1>1, <1>2, <1>3

LEMMA MovedPlaces ==
  ASSUME NEW m \in Module, NEW n, NEW keep, NEW impls, IsMoved(m, n, keep, impls),
         NEW marks, CanStay(m, keep, impls, marks)
  PROVE  Removed(m, n, keep, impls)
<1>1. ComesFrom(m, n, keep, impls)
  BY MovedComesFrom
<1>2. ASSUME NEW k \in Kinds, NEW i \in keep[k]
      PROVE  /\ Rank(keep[k], i) \in DOMAIN n.defs[k]
             /\ n.defs[k][Rank(keep[k], i)].was = m.defs[k][i].was
  <2>1. /\ Rank(keep[k], i) \in DOMAIN n.defs[k]
        /\ n.defs[k][Rank(keep[k], i)] = MovedDef(m.defs[k][i], keep, impls)
    BY <1>1 DEF ComesFrom
  <2>2. m.defs[k][i] \in Def
    BY ModuleParts DEF CanStay
  <2>3. QED
    BY <2>1, <2>2, MovedWas
<1>3. ASSUME NEW i \in impls
      PROVE  /\ Rank(impls, i) \in DOMAIN n.impls
             /\ n.impls[Rank(impls, i)].was = m.impls[i].was
  <2>1. /\ Rank(impls, i) \in DOMAIN n.impls
        /\ n.impls[Rank(impls, i)] = MovedImpl(m.impls[i], keep, impls)
    BY <1>1 DEF ComesFrom
  <2>2. m.impls[i] \in Impl
    BY ModuleParts DEF CanStay
  <2>3. QED
    BY <2>1, <2>2, MovedWas
<1>4. SamePlaces(m.lets, n.lets)
  <2>1. n.lets = [i \in DOMAIN m.lets |-> MovedLet(m.lets[i], keep, impls)]
    BY DEF IsMoved
  <2>2. ASSUME NEW i \in DOMAIN m.lets PROVE n.lets[i].was = m.lets[i].was
    <3>1. m.lets[i] \in LetDef /\ n.lets[i] = MovedLet(m.lets[i], keep, impls)
      BY <2>1, ModuleParts
    <3>2. QED
      BY <3>1, MovedWas
  <2>3. DOMAIN n.lets = DOMAIN m.lets
    BY <2>1
  <2>4. QED
    BY <2>2, <2>3 DEF SamePlaces
<1>5. QED
  BY <1>2, <1>3, <1>4 DEF Removed, CanStay

LEMMA MovedDefs ==
  ASSUME NEW src \in Module, NEW m, ModuleIn(m, src), NEW n, NEW keep, NEW impls,
         IsMoved(m, n, keep, impls), NEW marks, CanStay(m, keep, impls, marks),
         NEW k \in Kinds
  PROVE  /\ n.defs[k] \in Seq(Def) /\ Len(n.defs[k]) = Cardinality(keep[k])
         /\ InOrder(n.defs[k], src.defs[k])
         /\ \A a \in DOMAIN n.defs[k] : DefIn(n, src, k, n.defs[k][a])
<1> DEFINE K == keep[k]
           N == Len(m.defs[k])
           s == m.defs[k]
           t == n.defs[k]
           q == src.defs[k]
<1>1. m \in Module /\ Removed(m, n, keep, impls) /\ ComesFrom(m, n, keep, impls)
  BY MovedPlaces, MovedComesFrom DEF ModuleIn
<1>2. N \in Nat /\ DOMAIN s = 1..N /\ K \in SUBSET (1..N) /\ MarksAreKept(marks, keep)
  BY <1>1, ModuleParts DEF CanStay
<1>3. /\ DOMAIN t = 1..Cardinality(K)
      /\ \A i \in K : Rank(K, i) \in DOMAIN t /\ t[Rank(K, i)] = MovedDef(s[i], keep, impls)
      /\ \A a \in DOMAIN t : \E i \in K : Rank(K, i) = a
  BY <1>1 DEF ComesFrom
<1>4. ASSUME NEW i \in K
      PROVE  DefIn(n, src, k, MovedDef(s[i], keep, impls)) /\ MovedDef(s[i], keep, impls).was = s[i].was
  <2>1. DefIn(m, src, k, s[i]) /\ DefMarked(s[i], marks)
    BY <1>2 DEF ModuleIn, CanStay
  <2> HIDE DEF s, K
  <2>2. QED
    BY <1>1, <1>2, <2>1, DefMoves
<1>5. InOrder(s, q)
  BY DEF ModuleIn
<1>6. t = [a \in 1..Cardinality(K) |-> t[a]]
  <2>1. n.defs[k] = [i \in DOMAIN Kept(m.defs[k], keep[k]) |->
                        MovedDef(Kept(m.defs[k], keep[k])[i], keep, impls)]
    BY DEF IsMoved
  <2>2. t = [a \in DOMAIN t |-> t[a]]
    BY <2>1
  <2>3. QED
    BY <1>3, <2>2
<1> HIDE DEF K, N, s, t, q
<1>7. ASSUME NEW a \in 1..Cardinality(K) PROVE DefIn(n, src, k, t[a]) /\ t[a] \in Def
  <2>1. PICK i \in K : Rank(K, i) = a
    BY <1>3
  <2>2. DefIn(n, src, k, t[a])
    BY <1>3, <1>4, <2>1
  <2>3. QED
    BY <2>2 DEF DefIn
<1>8. Cardinality(K) \in Nat
  BY <1>2, PositionsAreFinite
<1>9. t \in Seq(Def) /\ Len(t) = Cardinality(K)
  BY <1>6, <1>7, <1>8, SeqBy
<1>10. InOrder(t, q)
  <2>1. \A i \in K : Rank(K, i) \in DOMAIN t /\ t[Rank(K, i)].was = s[i].was
    BY <1>3, <1>4
  <2>2. QED
    BY <1>2, <1>3, <1>5, <2>1, RankedInOrder
<1>11. QED
  BY <1>3, <1>7, <1>9, <1>10 DEF t, K, q

LEMMA MovedImpls ==
  ASSUME NEW src \in Module, NEW m, ModuleIn(m, src), NEW n, NEW keep, NEW impls,
         IsMoved(m, n, keep, impls), NEW marks, CanStay(m, keep, impls, marks)
  PROVE  /\ n.impls \in Seq(Impl)
         /\ InOrder(n.impls, src.impls)
         /\ \A a \in DOMAIN n.impls : ImplIn(n, src, n.impls[a])
<1> DEFINE N == Len(m.impls)
           s == m.impls
           t == n.impls
<1>1. m \in Module /\ Removed(m, n, keep, impls) /\ ComesFrom(m, n, keep, impls)
  BY MovedPlaces, MovedComesFrom DEF ModuleIn
<1>2. N \in Nat /\ DOMAIN s = 1..N /\ impls \in SUBSET (1..N) /\ MarksAreKept(marks, keep)
  BY <1>1, ModuleParts DEF CanStay
<1>3. /\ DOMAIN t = 1..Cardinality(impls)
      /\ \A i \in impls : /\ Rank(impls, i) \in DOMAIN t
                          /\ t[Rank(impls, i)] = MovedImpl(s[i], keep, impls)
      /\ \A a \in DOMAIN t : \E i \in impls : Rank(impls, i) = a
  BY <1>1 DEF ComesFrom
<1>4. ASSUME NEW i \in impls
      PROVE  ImplIn(n, src, MovedImpl(s[i], keep, impls)) /\ MovedImpl(s[i], keep, impls).was = s[i].was
  <2>1. /\ ImplIn(m, src, s[i]) /\ CallableMarked(s[i], marks)
        /\ AreKept(s[i].target, keep) /\ AreKept(OfBounds(s[i].trait), keep)
    BY <1>2 DEF ModuleIn, CanStay
  <2> HIDE DEF s
  <2>2. QED
    BY <1>1, <1>2, <2>1, ImplMoves
<1>5. InOrder(s, src.impls)
  BY DEF ModuleIn
<1>6. t = [a \in 1..Cardinality(impls) |-> t[a]]
  <2>1. n.impls = [i \in DOMAIN Kept(m.impls, impls) |->
                        MovedImpl(Kept(m.impls, impls)[i], keep, impls)]
    BY DEF IsMoved
  <2>2. t = [a \in DOMAIN t |-> t[a]]
    BY <2>1
  <2>3. QED
    BY <1>3, <2>2
<1> HIDE DEF N, s, t
<1>7. ASSUME NEW a \in 1..Cardinality(impls) PROVE ImplIn(n, src, t[a]) /\ t[a] \in Impl
  <2>1. PICK i \in impls : Rank(impls, i) = a
    BY <1>3
  <2>2. ImplIn(n, src, t[a])
    BY <1>3, <1>4, <2>1
  <2>3. QED
    BY <2>2 DEF ImplIn
<1>8. Cardinality(impls) \in Nat
  BY <1>2, PositionsAreFinite
<1>9. t \in Seq(Impl)
  BY <1>6, <1>7, <1>8, SeqBy
<1>10. InOrder(t, src.impls)
  <2>1. \A i \in impls : Rank(impls, i) \in DOMAIN t /\ t[Rank(impls, i)].was = s[i].was
    BY <1>3, <1>4
  <2>2. QED
    BY <1>2, <1>3, <1>5, <2>1, RankedInOrder
<1>11. QED
  BY <1>3, <1>7, <1>9, <1>10 DEF t

LEMMA MovedFunctions ==
  ASSUME NEW src \in Module, NEW m, ModuleIn(m, src), NEW n, NEW keep, NEW impls,
         IsMoved(m, n, keep, impls), NEW marks, CanStay(m, keep, impls, marks)
  PROVE  n.functions \in Seq(Function) /\ FunctionsIn(n, src)
<1> DEFINE N == Len(m.functions)
           t == n.functions
<1>1. m \in Module /\ Removed(m, n, keep, impls) /\ MarksAreKept(marks, keep)
  BY MovedPlaces DEF ModuleIn, CanStay
<1>2. N \in Nat /\ DOMAIN m.functions = 1..N /\ N = Len(src.functions)
  BY <1>1, ModuleParts DEF ModuleIn, FunctionsIn
<1>3. t = [i \in 1..N |-> MovedFunction(m.functions[i], keep, impls)]
  BY <1>2 DEF IsMoved
<1>4. ASSUME NEW i \in 1..N
      PROVE  t[i] \in Function /\ CallableIn(n, src, t[i], src.functions[i])
  <2>1. /\ m.functions[i] \in Function
        /\ CallableIn(m, src, m.functions[i], src.functions[i])
        /\ CallableMarked(m.functions[i], marks)
    BY <1>1, <1>2, ModuleParts DEF ModuleIn, FunctionsIn, CanStay
  <2>2. t[i] = MovedFunction(m.functions[i], keep, impls)
    BY <1>3
  <2> HIDE DEF t
  <2>3. QED
    BY <1>1, <2>1, <2>2, FunctionMoves
<1>5. t = [i \in 1..N |-> t[i]]
  BY <1>3
<1> HIDE DEF t, N
<1>6. t \in Seq(Function) /\ Len(t) = N /\ DOMAIN t = 1..N
  BY <1>2, <1>4, <1>5, SeqBy
<1>7. QED
  BY <1>2, <1>4, <1>6 DEF t, FunctionsIn

LEMMA MovedLets ==
  ASSUME NEW src \in Module, NEW m, ModuleIn(m, src), NEW n, NEW keep, NEW impls,
         IsMoved(m, n, keep, impls), NEW marks, CanStay(m, keep, impls, marks)
  PROVE  /\ n.lets \in Seq(LetDef) /\ InOrder(n.lets, src.lets)
         /\ \A i \in DOMAIN n.lets : LetIn(n, src, n.lets[i])
         /\ LetsStay(m, src, "remove") => LetsStay(n, src, "remove")
<1> DEFINE N == Len(m.lets)
           t == n.lets
<1>1. m \in Module /\ Removed(m, n, keep, impls) /\ MarksAreKept(marks, keep)
  BY MovedPlaces DEF ModuleIn, CanStay
<1>2. N \in Nat /\ DOMAIN m.lets = 1..N /\ InOrder(m.lets, src.lets)
  BY <1>1, ModuleParts DEF ModuleIn
<1>3. t = [i \in 1..N |-> MovedLet(m.lets[i], keep, impls)]
  BY <1>2 DEF IsMoved
<1>4. ASSUME NEW i \in 1..N
      PROVE  /\ LetIn(n, src, t[i]) /\ t[i] \in LetDef
             /\ t[i].was = m.lets[i].was /\ t[i].pub = m.lets[i].pub
             /\ Effective(m.lets[i].value) => Effective(t[i].value)
  <2>1. LetIn(m, src, m.lets[i]) /\ LetMarked(m.lets[i], marks)
    BY <1>2 DEF ModuleIn, CanStay
  <2>2. t[i] = MovedLet(m.lets[i], keep, impls)
    BY <1>3
  <2> HIDE DEF t
  <2>3. /\ LetIn(n, src, t[i]) /\ t[i].was = m.lets[i].was /\ t[i].pub = m.lets[i].pub
        /\ Effective(m.lets[i].value) => Effective(t[i].value)
    BY <1>1, <2>1, <2>2, LetMoves
  <2>4. QED
    BY <2>3 DEF LetIn
<1>5. t = [i \in 1..N |-> t[i]]
  BY <1>3
<1> HIDE DEF t, N
<1>6. t \in Seq(LetDef) /\ DOMAIN t = 1..N
  BY <1>2, <1>4, <1>5, SeqBy
<1>7. InOrder(t, src.lets)
  <2>1. SamePlaces(m.lets, t)
    BY <1>2, <1>4, <1>6 DEF SamePlaces
  <2>2. QED
    BY <1>2, <2>1, SamePlacesInOrder
<1>8. ASSUME LetsStay(m, src, "remove") PROVE LetsStay(n, src, "remove")
  <2> SUFFICES ASSUME NEW i \in DOMAIN src.lets, src.lets[i].pub \/ Certain(src.lets[i].value)
               PROVE  \E j \in DOMAIN n.lets :
                         /\ n.lets[j].was = i
                         /\ n.lets[j].pub \/ Effective(n.lets[j].value)
    BY DEF LetsStay
  <2>1. PICK j \in DOMAIN m.lets : /\ m.lets[j].was = i
                                   /\ m.lets[j].pub \/ Effective(m.lets[j].value)
    BY <1>8 DEF LetsStay
  <2>2. QED
    BY <1>2, <1>4, <1>6, <2>1 DEF t
<1>9. QED
  BY <1>4, <1>6, <1>7, <1>8 DEF t

LEMMA MovedModule ==
  ASSUME NEW src \in Module, NEW m, ModuleIn(m, src), NEW n, NEW keep, NEW impls,
         IsMoved(m, n, keep, impls), NEW marks, CanStay(m, keep, impls, marks)
  PROVE  /\ ModuleIn(n, src)
         /\ \A k \in Kinds : Len(n.defs[k]) = Cardinality(keep[k])
         /\ LetsStay(m, src, "remove") => LetsStay(n, src, "remove")
<1>1. ASSUME NEW k \in Kinds
      PROVE  /\ n.defs[k] \in Seq(Def) /\ Len(n.defs[k]) = Cardinality(keep[k])
             /\ InOrder(n.defs[k], src.defs[k])
             /\ \A a \in DOMAIN n.defs[k] : DefIn(n, src, k, n.defs[k][a])
  BY MovedDefs
<1>2. /\ n.impls \in Seq(Impl) /\ InOrder(n.impls, src.impls)
      /\ \A a \in DOMAIN n.impls : ImplIn(n, src, n.impls[a])
  BY MovedImpls
<1>3. n.functions \in Seq(Function) /\ FunctionsIn(n, src)
  BY MovedFunctions
<1>4. /\ n.lets \in Seq(LetDef) /\ InOrder(n.lets, src.lets)
      /\ \A i \in DOMAIN n.lets : LetIn(n, src, n.lets[i])
      /\ LetsStay(m, src, "remove") => LetsStay(n, src, "remove")
  BY MovedLets
<1>5. n \in Module
  <2>1. /\ n = [defs |-> n.defs, impls |-> n.impls, functions |-> n.functions, lets |-> n.lets]
        /\ n.defs = [k \in Kinds |-> n.defs[k]]
    BY DEF IsMoved
  <2>2. n.defs \in [Kinds -> Seq(Def)]
    BY <1>1, <2>1
  <2>3. QED
    BY <1>2, <1>3, <1>4, <2>1, <2>2 DEF Module
<1>6. QED
  BY <1>1, <1>2, <1>3, <1>4, <1>5 DEF ModuleIn

\* A definition that n still holds is one that was kept.
LEMMA HeldIsKept ==
  ASSUME NEW src \in Module, NEW m, ModuleIn(m, src), NEW n, NEW keep, NEW impls,
         IsMoved(m, n, keep, impls), NEW marks, CanStay(m, keep, impls, marks),
         NEW t \in Ref, RefOK(m, t), Holds(n.defs[t.kind], t.means)
  PROVE  t.id \in keep[t.kind]
<1> DEFINE k == t.kind
           K == keep[k]
<1>1. /\ m \in Module /\ Removed(m, n, keep, impls) /\ ComesFrom(m, n, keep, impls)
      /\ k \in Kinds
  BY MovedPlaces, MovedComesFrom DEF ModuleIn, Ref
<1>2. PICK a \in DOMAIN n.defs[k] : n.defs[k][a].was = t.means
  BY DEF Holds
<1>3. PICK i \in K : Rank(K, i) = a
  BY <1>1, <1>2 DEF ComesFrom
<1>4. /\ i \in DOMAIN m.defs[k] /\ m.defs[k][i].was = t.means
      /\ Len(m.defs[k]) \in Nat /\ DOMAIN m.defs[k] = 1..Len(m.defs[k])
  BY <1>1, <1>2, <1>3, ModuleParts DEF Removed
<1>5. Names(m.defs[k], t.id, t.means) /\ Names(m.defs[k], i, t.means)
  BY <1>4 DEF RefOK, Names
<1>6. InOrder(m.defs[k], src.defs[k]) /\ DOMAIN src.defs[k] \subseteq Nat
  <2>1. Len(src.defs[k]) \in Nat /\ DOMAIN src.defs[k] = 1..Len(src.defs[k])
    BY <1>1, ModuleParts
  <2>2. QED
    BY <1>1, <2>1 DEF ModuleIn
<1> DEFINE p == m.defs[k]
           q == src.defs[k]
<1> HIDE DEF p, q, k, K
<1>7. t.id = i
  BY <1>4, <1>5, <1>6, NamesOne DEF p, q
<1>8. QED
  BY <1>3, <1>7 DEF K, k

LEMMA NothingNeededMoves ==
  ASSUME NEW src \in Module, NEW m, ModuleIn(m, src), NEW n, NEW keep, NEW impls,
         IsMoved(m, n, keep, impls), NEW marks, CanStay(m, keep, impls, marks),
         PublicStay(m, src), ImplsStay(m, src)
  PROVE  PublicStay(n, src) /\ ImplsStay(n, src)
<1>1. m \in Module /\ Removed(m, n, keep, impls)
  BY MovedPlaces DEF ModuleIn
<1>2. ASSUME NEW k \in Kinds, NEW i \in DOMAIN src.defs[k], src.defs[k][i].pub
      PROVE  Holds(n.defs[k], i)
  <2>1. PICK p \in DOMAIN m.defs[k] : m.defs[k][p].was = i
    BY <1>2 DEF PublicStay, Holds
  <2>2. m.defs[k][p].pub
    <3>1. DefIn(m, src, k, m.defs[k][p])
      BY DEF ModuleIn
    <3>2. QED
      BY <1>2, <2>1, <3>1 DEF DefIn
  <2>3. p \in keep[k]
    BY <2>2 DEF CanStay
  <2>4. QED
    BY <1>1, <2>1, <2>3 DEF Removed, Holds
<1>3. ASSUME NEW i \in DOMAIN src.impls,
             \A t \in src.impls[i].target : Holds(n.defs[t.kind], t.means)
      PROVE  Holds(n.impls, i)
  <2>1. ASSUME NEW t \in src.impls[i].target PROVE Holds(m.defs[t.kind], t.means)
    <3> DEFINE k == t.kind
    <3>1. k \in Kinds
      <4>1. src.impls[i] \in Impl
        BY ModuleParts
      <4>2. QED
        BY <4>1 DEF Impl, Ref
    <3>2. PICK a \in DOMAIN n.defs[k] : n.defs[k][a].was = t.means
      BY <1>3 DEF Holds
    <3>3. PICK j \in keep[k] : Rank(keep[k], j) = a
      BY <3>1, <3>2, MovedComesFrom, <1>1 DEF ComesFrom
    <3>4. j \in DOMAIN m.defs[k] /\ m.defs[k][j].was = t.means
      BY <1>1, <3>1, <3>2, <3>3, ModuleParts DEF Removed
    <3>5. QED
      BY <3>4 DEF Holds
  <2>2. PICK p \in DOMAIN m.impls : m.impls[p].was = i
    BY <2>1 DEF ImplsStay, Holds
  <2>3. ImplIn(m, src, m.impls[p])
    BY DEF ModuleIn
  <2> DEFINE imp == m.impls[p]
  <2>4. /\ Meant(imp.target) = Meant(src.impls[i].target)
        /\ imp.target \in SUBSET Ref /\ \A t \in imp.target : RefOK(m, t)
    BY <2>2, <2>3 DEF ImplIn, Impl
  <2> HIDE DEF imp
  <2>5. ASSUME NEW t \in imp.target PROVE t.id \in keep[t.kind]
    <3>1. <<t.kind, t.means>> \in Meant(src.impls[i].target)
      BY <2>4 DEF Meant
    <3>2. PICK r \in src.impls[i].target : <<t.kind, t.means>> = <<r.kind, r.means>>
      BY <3>1 DEF Meant
    <3>3. Holds(n.defs[t.kind], t.means)
      BY <1>3, <3>2
    <3>4. t \in Ref /\ RefOK(m, t)
      BY <2>4
    <3>5. QED
      BY <3>3, <3>4, HeldIsKept
  <2>6. p \in impls
    BY <2>5 DEF CanStay, AreKept, imp
  <2>7. QED
    BY <1>1, <2>2, <2>6 DEF Removed, Holds
<1>4. QED
  BY <1>2, <1>3 DEF PublicStay, ImplsStay

-----------------------------------------------------------------------------
(* One round: what the analysis has marked stays.                          *)

LEMMA RoundKeeps ==
  ASSUME NEW src, ModuleIn(ir, src), used = Analyzed,
         NEW keep, keep = build_remap, NEW impls, impls = build_impl_index_remap(keep)
  PROVE  /\ CanStay(ir, keep, impls, BaseMarks)
         /\ IsMoved(ir, remove_unused_definitions, keep, impls)
<1>1. ir \in Module
  BY DEF ModuleIn
<1>2. ASSUME NEW k \in Kinds
      PROVE  /\ keep[k] \in SUBSET (1..Len(ir.defs[k]))
             /\ keep[k] = {i \in DOMAIN ir.defs[k] : <<k, i>> \in Analyzed}
  <2>1. keep[k] = {i \in DOMAIN ir.defs[k] : <<k, i>> \in Analyzed}
    BY DEF build_remap
  <2>2. DOMAIN ir.defs[k] = 1..Len(ir.defs[k])
    BY <1>1, ModuleParts
  <2>3. QED
    BY <2>1, <2>2
<1>3. impls = {i \in DOMAIN ir.impls : AreKept(ir.impls[i].target, keep)}
  BY DEF build_impl_index_remap, AreKept
<1>4. impls \in SUBSET (1..Len(ir.impls))
  <2>1. DOMAIN ir.impls = 1..Len(ir.impls)
    BY <1>1, ModuleParts
  <2>2. QED
    BY <1>3, <2>1
<1>5. MarksAreKept(Analyzed, keep)
  <2>1. ASSUME NEW p \in Analyzed PROVE p[2] \in keep[p[1]]
    <3>1. p \in Places(ir)
      BY AnalyzedMarks
    <3>2. p[1] \in Kinds /\ p[2] \in DOMAIN ir.defs[p[1]] /\ p = <<p[1], p[2]>>
      BY <3>1 DEF Places
    <3>3. <<p[1], p[2]>> \in Analyzed
      BY <3>2
    <3>4. QED
      BY <1>2, <3>2, <3>3
  <2>2. QED
    BY <2>1 DEF MarksAreKept
<1>6. MarksAreKept(BaseMarks, keep)
  <2>1. BaseMarks \subseteq Analyzed
    BY AnalyzedMarks
  <2>2. QED
    BY <1>5, <2>1 DEF MarksAreKept
<1>7. ASSUME NEW i \in impls PROVE AreKept(OfBounds(ir.impls[i].trait), keep)
  <2>1. i \in DOMAIN ir.impls /\ AreKept(ir.impls[i].target, keep)
    BY <1>3
  <2>2. ASSUME NEW t \in ir.impls[i].target PROVE Mark(t) \in BaseMarks
    <3>1. ImplIn(ir, src, ir.impls[i])
      BY <2>1 DEF ModuleIn
    <3>2. t.kind # "trait" /\ t \in Ref
      BY <3>1 DEF ImplIn, Impl
    <3>3. t.id \in keep[t.kind] /\ t.kind \in Kinds
      BY <2>1, <3>2 DEF AreKept, Ref
    <3>4. Mark(t) \in Analyzed
      BY <1>2, <3>3 DEF Mark
    <3>5. Mark(t)[1] # "trait"
      BY <3>2 DEF Mark
    <3>6. QED
      BY <3>4, <3>5, AnalyzedMarks
  <2>3. AllIn(OfBounds(ir.impls[i].trait), Analyzed)
    BY <2>1, <2>2, AnalyzedMarks
  <2>4. QED
    BY <1>5, <2>3, MarkedIsKept
<1>8. ASSUME NEW k \in Kinds, NEW i \in DOMAIN ir.defs[k]
      PROVE  /\ DefMarked(ir.defs[k][i], BaseMarks)
             /\ ir.defs[k][i].pub => i \in keep[k]
  <2>1. /\ DefMarked(ir.defs[k][i], BaseMarks)
        /\ ir.defs[k][i].pub => <<k, i>> \in BaseMarks
    BY BaseMarksItems
  <2>2. <<k, i>> \in BaseMarks => i \in keep[k]
    BY <1>6 DEF MarksAreKept
  <2>3. QED
    BY <2>1, <2>2
<1>9. CanStay(ir, keep, impls, BaseMarks)
  BY <1>2, <1>3, <1>4, <1>6, <1>7, <1>8, BaseMarksItems DEF CanStay
<1>10. IsMoved(ir, remove_unused_definitions, keep, impls)
  <2> DEFINE left == [ir EXCEPT !.defs = [k \in Kinds |-> Kept(ir.defs[k], keep[k])],
                                !.impls = Kept(ir.impls, impls)]
             x == remap_module(left, keep)
             n == apply_impl_index_remap(x, impls)
  <2>1. remove_unused_definitions = n
    BY DEF remove_unused_definitions
  <2> HIDE DEF n, x, left
  <2>2. IsMoved(ir, n, keep, impls)
    BY <1>1, RemovalMoves DEF n, x, left
  <2>3. QED
    BY <2>1, <2>2
<1>11. QED
  BY <1>9, <1>10

-----------------------------------------------------------------------------
(* A round that removes nothing changes nothing. *)

AllKept(m, keep, impls) ==
    /\ \A k \in Kinds : keep[k] = 1..Len(m.defs[k])
    /\ impls = 1..Len(m.impls)

LEMMA SameRefs ==
  ASSUME NEW m \in Module, NEW keep, NEW impls, AllKept(m, keep, impls),
         NEW refs \in SUBSET Ref, \A r \in refs : RefOK(m, r)
  PROVE  remap_types(refs, keep) = refs /\ AreKept(refs, keep)
<1>1. ASSUME NEW r \in refs PROVE remap_type(r, keep) = r /\ r.id \in keep[r.kind]
  <2> DEFINE k == r.kind
             N == Len(m.defs[k])
  <2>1. r \in Ref /\ k \in Kinds /\ r.id \in DOMAIN m.defs[k]
    BY DEF Ref, RefOK, Names
  <2>2. N \in Nat /\ keep[k] = 1..N /\ r.id \in 1..N
    BY <2>1, ModuleParts DEF AllKept
  <2> HIDE DEF N
  <2>3. Rank(1..N, r.id) = r.id
    BY <2>2, RankOfAll
  <2>4. remap_type(r, keep) = [r EXCEPT !.id = r.id]
    BY <2>2, <2>3 DEF remap_type
  <2>5. QED
    BY <2>1, <2>2, <2>4 DEF Ref
<1>2. QED
  BY <1>1 DEF remap_types, AreKept

LEMMA SameBounds ==
  ASSUME NEW m \in Module, NEW keep, NEW impls, AllKept(m, keep, impls),
         NEW bounds \in SUBSET Bound, BoundsIn(m, bounds)
  PROVE  /\ retain_trait_ref(bounds, keep) = bounds
         /\ \A b \in bounds : b.trait.id \in keep["trait"]
         /\ {remap_bound(b, keep) : b \in bounds} = bounds
<1>1. ASSUME NEW b \in bounds PROVE b.trait.id \in keep["trait"] /\ remap_bound(b, keep) = b
  <2>1. b \in Bound /\ b.trait \in Ref /\ b.args = {} /\ b.trait.kind = "trait" /\ RefOK(m, b.trait)
    BY DEF Bound, BoundsIn
  <2>2. {b.trait} \in SUBSET Ref /\ \A r \in {b.trait} : RefOK(m, r)
    BY <2>1
  <2>3. remap_types({b.trait}, keep) = {b.trait} /\ AreKept({b.trait}, keep)
    BY <2>2, SameRefs
  <2>4. remap_type(b.trait, keep) = b.trait /\ b.trait.id \in keep["trait"]
    BY <2>1, <2>3 DEF remap_types, AreKept
  <2>5. remap_types(b.args, keep) = {}
    BY <2>1 DEF remap_types
  <2>6. remap_bound(b, keep) = [trait |-> b.trait, args |-> b.args]
    BY <2>1, <2>4, <2>5 DEF remap_bound
  <2>7. b = [trait |-> b.trait, args |-> b.args]
    BY <2>1 DEF Bound
  <2>8. QED
    BY <2>4, <2>6, <2>7
<1>2. QED
  BY <1>1 DEF retain_trait_ref

\* A block whose branches are what they were is what it was.
LEMMA SameBranches ==
  ASSUME NEW e \in Block, NEW f, NEW B,
         \A i \in DOMAIN e :
            B[i] = [j \in DOMAIN e[i].value.branches |-> e[i].value.branches[j]],
         f = [i \in DOMAIN e |-> [e[i] EXCEPT !.value.branches = B[i]]]
  PROVE  f = e
<1>1. ASSUME NEW i \in DOMAIN e PROVE f[i] = e[i]
  <2> DEFINE s == e[i]
             v == s.value
             bs == v.branches
  <2>1. s \in Statement /\ v \in Expr /\ bs \in Seq(Branch)
    BY BranchesOfBlock
  <2>2. f[i] = [s EXCEPT !.value.branches = B[i]]
    OBVIOUS
  <2>3. B[i] = [j \in DOMAIN bs |-> bs[j]]
    OBVIOUS
  <2> HIDE DEF bs
  <2>4. B[i] = bs
    BY <2>1, <2>3
  <2>5. v = [test |-> v.test, branches |-> bs]
    BY <2>1 DEF Expr, bs
  <2>6. s = [form |-> s.form, name |-> s.name, value |-> v]
    BY <2>1 DEF Statement
  <2> HIDE DEF v
  <2>7. [v EXCEPT !.branches = bs] = v
    BY <2>5
  <2>8. f[i] = [s EXCEPT !.value = [v EXCEPT !.branches = bs]]
    BY <2>2, <2>4 DEF v
  <2> HIDE DEF s
  <2>9. f[i] = s
    BY <2>6, <2>7, <2>8
  <2>10. QED
    BY <2>9 DEF s
<1>2. e = [i \in DOMAIN e |-> e[i]]
  BY DEF Block
<1>3. QED
  BY <1>1, <1>2

LEMMA SameBlock ==
  ASSUME NEW src, NEW m \in Module, NEW keep, NEW impls, AllKept(m, keep, impls),
         NEW e, BlockIn(m, src, e)
  PROVE  remap_expr(e, keep) = e /\ rewrite_static_impl_ids(e, impls) = e
<1>1. e \in Block
  BY DEF BlockIn
<1>2. ASSUME NEW i \in DOMAIN e, NEW j \in DOMAIN e[i].value.branches
      PROVE  /\ TypeBranch(e[i].value.branches[j], keep) = e[i].value.branches[j]
             /\ CallBranch(e[i].value.branches[j], impls) = e[i].value.branches[j]
  <2> DEFINE b == e[i].value.branches[j]
  <2>1. b \in Branch
    BY <1>1, BranchesOfBlock
  <2>2. BranchIn(m, src, b)
    BY DEF BlockIn
  <2> HIDE DEF b
  <2>3. remap_types(b.types, keep) = b.types
    <3>1. b.types \in SUBSET Ref /\ \A r \in b.types : RefOK(m, r)
      BY <2>1, <2>2 DEF Branch, BranchIn
    <3>2. QED
      BY <3>1, SameRefs
  <2>4. ASSUME NEW c \in b.calls PROVE MovedCall(c, impls) = c
    <3>1. c \in Call /\ c.id \in DOMAIN m.impls
      BY <2>1, <2>2 DEF Branch, BranchIn, CallOK, Names
    <3> DEFINE N == Len(m.impls)
    <3>2. N \in Nat /\ impls = 1..N /\ c.id \in 1..N
      BY <3>1, ModuleParts DEF AllKept
    <3> HIDE DEF N
    <3>3. Rank(1..N, c.id) = c.id
      BY <3>2, RankOfAll
    <3>4. MovedCall(c, impls) = [c EXCEPT !.id = c.id]
      BY <3>2, <3>3 DEF MovedCall
    <3>5. QED
      BY <3>1, <3>4 DEF Call
  <2>5. {MovedCall(c, impls) : c \in b.calls} = b.calls
    BY <2>4
  <2>6. b = [at |-> b.at, types |-> b.types, calls |-> b.calls, reads |-> b.reads,
             effect |-> b.effect]
    BY <2>1 DEF Branch
  <2>7. TypeBranch(b, keep) = [b EXCEPT !.types = b.types]
    BY <2>3 DEF TypeBranch
  <2>8. CallBranch(b, impls) = [b EXCEPT !.calls = b.calls]
    BY <2>5 DEF CallBranch
  <2>9. QED
    BY <2>6, <2>7, <2>8 DEF b
<1>3. remap_expr(e, keep) = e
  <2> DEFINE B == [i \in DOMAIN e |-> [j \in DOMAIN e[i].value.branches |->
                      TypeBranch(e[i].value.branches[j], keep)]]
  <2>1. remap_expr(e, keep) = [i \in DOMAIN e |-> [e[i] EXCEPT !.value.branches = B[i]]]
    BY DEF remap_expr, OnBranches, TypeBranch
  <2>2. ASSUME NEW i \in DOMAIN e
        PROVE  B[i] = [j \in DOMAIN e[i].value.branches |-> e[i].value.branches[j]]
    BY <1>2
  <2> HIDE DEF B
  <2>3. QED
    BY <1>1, <2>1, <2>2, SameBranches
<1>4. rewrite_static_impl_ids(e, impls) = e
  <2> DEFINE B == [i \in DOMAIN e |-> [j \in DOMAIN e[i].value.branches |->
                      CallBranch(e[i].value.branches[j], impls)]]
  <2>1. rewrite_static_impl_ids(e, impls) =
           [i \in DOMAIN e |-> [e[i] EXCEPT !.value.branches = B[i]]]
    BY DEF rewrite_static_impl_ids, OnBranches, CallBranch, MovedCall
  <2>2. ASSUME NEW i \in DOMAIN e
        PROVE  B[i] = [j \in DOMAIN e[i].value.branches |-> e[i].value.branches[j]]
    BY <1>2
  <2> HIDE DEF B
  <2>3. QED
    BY <1>1, <2>1, <2>2, SameBranches
<1>5. QED
  BY <1>3, <1>4

LEMMA SameItems ==
  ASSUME NEW src, NEW m, ModuleIn(m, src), NEW keep, NEW impls, AllKept(m, keep, impls)
  PROVE  /\ \A k \in Kinds : \A i \in DOMAIN m.defs[k] :
               MovedDef(m.defs[k][i], keep, impls) = m.defs[k][i]
         /\ \A i \in DOMAIN m.impls : MovedImpl(m.impls[i], keep, impls) = m.impls[i]
         /\ \A i \in DOMAIN m.functions :
               MovedFunction(m.functions[i], keep, impls) = m.functions[i]
         /\ \A i \in DOMAIN m.lets : MovedLet(m.lets[i], keep, impls) = m.lets[i]
<1>1. m \in Module
  BY DEF ModuleIn
<1>2. ASSUME NEW k \in Kinds, NEW i \in DOMAIN m.defs[k]
      PROVE  MovedDef(m.defs[k][i], keep, impls) = m.defs[k][i]
  <2> DEFINE d == m.defs[k][i]
  <2>1. DefIn(m, src, k, d)
    BY DEF ModuleIn
  <2> HIDE DEF d
  <2>2. /\ d \in Def /\ d.types \in SUBSET Ref /\ d.composed \in SUBSET Ref
        /\ d.bounds \in SUBSET Bound
    BY <2>1 DEF DefIn, Def
  <2>3. remap_types(d.types, keep) = d.types
    <3>1. \A r \in d.types : RefOK(m, r)
      BY <2>1 DEF DefIn
    <3>2. QED
      BY <1>1, <2>2, <3>1, SameRefs
  <2>4. retain_trait_id(d.composed, keep) = d.composed
    <3>1. \A r \in d.composed : RefOK(m, r) /\ r.kind = "trait"
      BY <2>1 DEF DefIn
    <3>2. remap_types(d.composed, keep) = d.composed /\ AreKept(d.composed, keep)
      BY <1>1, <2>2, <3>1, SameRefs
    <3>3. QED
      BY <3>1, <3>2, ComposedMove
  <2>5. retain_trait_ref(d.bounds, keep) = d.bounds
    <3>1. BoundsIn(m, d.bounds)
      BY <2>1 DEF DefIn
    <3>2. QED
      BY <1>1, <2>2, <3>1, SameBounds
  <2>6. rewrite_static_impl_ids(remap_expr(d.default, keep), impls) = d.default
    <3>1. BlockIn(m, src, d.default)
      BY <2>1 DEF DefIn
    <3>2. /\ remap_expr(d.default, keep) = d.default
          /\ rewrite_static_impl_ids(d.default, impls) = d.default
      BY <1>1, <3>1, SameBlock
    <3>3. QED
      BY <3>2
  <2>7. d = [was |-> d.was, pub |-> d.pub, types |-> d.types, bounds |-> d.bounds,
             composed |-> d.composed, default |-> d.default]
    BY <2>2 DEF Def
  <2>8. MovedDef(d, keep, impls) = d
    BY <2>2, <2>3, <2>4, <2>5, <2>6, <2>7, MovedDefShape
  <2>9. QED
    BY <2>8 DEF d
<1>3. ASSUME NEW f, NEW s, CallableIn(m, src, f, s), f.sig \in SUBSET Ref
      PROVE  /\ remap_types(f.sig, keep) = f.sig
             /\ rewrite_static_impl_ids(remap_expr(f.body, keep), impls) = f.body
             /\ remap_expr(f.default, keep) = f.default
  <2>1. \A r \in f.sig : RefOK(m, r)
    BY <1>3 DEF CallableIn
  <2>2. BlockIn(m, src, f.body) /\ BlockIn(m, src, f.default)
    BY <1>3 DEF CallableIn
  <2>3. remap_types(f.sig, keep) = f.sig
    BY <1>1, <1>3, <2>1, SameRefs
  <2>4. remap_expr(f.body, keep) = f.body /\ rewrite_static_impl_ids(f.body, impls) = f.body
    BY <1>1, <2>2, SameBlock
  <2>5. remap_expr(f.default, keep) = f.default
    BY <1>1, <2>2, SameBlock
  <2>6. QED
    BY <2>3, <2>4, <2>5
<1>4. ASSUME NEW i \in DOMAIN m.functions
      PROVE  MovedFunction(m.functions[i], keep, impls) = m.functions[i]
  <2> DEFINE f == m.functions[i]
  <2>1. f \in Function /\ CallableIn(m, src, f, src.functions[i])
    BY <1>1, ModuleParts DEF ModuleIn, FunctionsIn
  <2> HIDE DEF f
  <2>2. f.sig \in SUBSET Ref
    BY <2>1 DEF Function
  <2>3. /\ remap_types(f.sig, keep) = f.sig
        /\ rewrite_static_impl_ids(remap_expr(f.body, keep), impls) = f.body
        /\ remap_expr(f.default, keep) = f.default
    BY <1>3, <2>1, <2>2
  <2>4. f = [sig |-> f.sig, bounds |-> f.bounds, body |-> f.body, default |-> f.default]
    BY <2>1 DEF Function
  <2>5. MovedFunction(f, keep, impls) = f
    BY <2>1, <2>3, <2>4, MovedFunctionShape
  <2>6. QED
    BY <2>5 DEF f
<1>5. ASSUME NEW i \in DOMAIN m.impls
      PROVE  MovedImpl(m.impls[i], keep, impls) = m.impls[i]
  <2> DEFINE f == m.impls[i]
  <2>1. ImplIn(m, src, f)
    BY DEF ModuleIn
  <2> HIDE DEF f
  <2>2. /\ f \in Impl /\ f.sig \in SUBSET Ref /\ f.target \in SUBSET Ref
        /\ f.trait \in SUBSET Bound /\ CallableIn(m, src, f, src.impls[f.was])
    BY <2>1 DEF ImplIn, Impl
  <2>3. /\ remap_types(f.sig, keep) = f.sig
        /\ rewrite_static_impl_ids(remap_expr(f.body, keep), impls) = f.body
        /\ remap_expr(f.default, keep) = f.default
    BY <1>3, <2>2
  <2>4. remap_types(f.target, keep) = f.target
    <3>1. \A r \in f.target : RefOK(m, r)
      BY <2>1 DEF ImplIn
    <3>2. QED
      BY <1>1, <2>2, <3>1, SameRefs
  <2>5. /\ \A b \in f.trait : b.trait.id \in keep["trait"]
        /\ {remap_bound(b, keep) : b \in f.trait} = f.trait
    <3>1. BoundsIn(m, f.trait)
      BY <2>1 DEF ImplIn
    <3>2. QED
      BY <1>1, <2>2, <3>1, SameBounds
  <2>6. f = [was |-> f.was, target |-> f.target, trait |-> f.trait, sig |-> f.sig,
             bounds |-> f.bounds, body |-> f.body, default |-> f.default]
    BY <2>2 DEF Impl
  <2>7. MovedImpl(f, keep, impls) = f
    BY <2>2, <2>3, <2>4, <2>5, <2>6, MovedImplShape
  <2>8. QED
    BY <2>7 DEF f
<1>6. ASSUME NEW i \in DOMAIN m.lets
      PROVE  MovedLet(m.lets[i], keep, impls) = m.lets[i]
  <2> DEFINE l == m.lets[i]
  <2>1. LetIn(m, src, l)
    BY DEF ModuleIn
  <2> HIDE DEF l
  <2>2. l \in LetDef /\ l.type \in SUBSET Ref /\ BlockIn(m, src, l.value)
    BY <2>1 DEF LetIn, LetDef
  <2>3. remap_types(l.type, keep) = l.type
    <3>1. \A r \in l.type : RefOK(m, r)
      BY <2>1 DEF LetIn
    <3>2. QED
      BY <1>1, <2>2, <3>1, SameRefs
  <2>4. remap_expr(l.value, keep) = l.value /\ rewrite_static_impl_ids(l.value, impls) = l.value
    BY <1>1, <2>2, SameBlock
  <2>5. l = [was |-> l.was, pub |-> l.pub, name |-> l.name, type |-> l.type, value |-> l.value]
    BY <2>2 DEF LetDef
  <2>6. MovedLet(l, keep, impls) = l
    BY <2>2, <2>3, <2>4, <2>5, MovedLetShape
  <2>7. QED
    BY <2>6 DEF l
<1>7. QED
  BY <1>2, <1>4, <1>5, <1>6

LEMMA SameModule ==
  ASSUME NEW src, NEW m, ModuleIn(m, src), NEW keep, NEW impls, AllKept(m, keep, impls),
         NEW n, IsMoved(m, n, keep, impls)
  PROVE  n = m
<1>1. m \in Module
  BY DEF ModuleIn
<1>2. ASSUME NEW k \in Kinds PROVE n.defs[k] = m.defs[k]
  <2> DEFINE s == m.defs[k]
             c == Kept(s, keep[k])
  <2>1. s \in Seq(Def) /\ keep[k] = DOMAIN s
    BY <1>1, ModuleParts DEF AllKept
  <2>2. n.defs[k] = [i \in DOMAIN c |-> MovedDef(c[i], keep, impls)]
    BY DEF IsMoved
  <2>3. \A i \in DOMAIN s : MovedDef(s[i], keep, impls) = s[i]
    BY SameItems
  <2> HIDE DEF s
  <2>4. c = s
    BY <2>1, KeepAll
  <2>5. n.defs[k] = [i \in DOMAIN s |-> s[i]]
    BY <2>2, <2>3, <2>4
  <2>6. n.defs[k] = s
    BY <2>1, <2>5
  <2>7. QED
    BY <2>6 DEF s
<1>3. n.impls = m.impls
  <2> DEFINE s == m.impls
             c == Kept(s, impls)
  <2>1. s \in Seq(Impl) /\ impls = DOMAIN s
    BY <1>1, ModuleParts DEF AllKept
  <2>2. n.impls = [i \in DOMAIN c |-> MovedImpl(c[i], keep, impls)]
    BY DEF IsMoved
  <2>3. \A i \in DOMAIN s : MovedImpl(s[i], keep, impls) = s[i]
    BY SameItems
  <2> HIDE DEF s
  <2>4. c = s
    BY <2>1, KeepAll
  <2>5. n.impls = [i \in DOMAIN s |-> s[i]]
    BY <2>2, <2>3, <2>4
  <2>6. n.impls = s
    BY <2>1, <2>5
  <2>7. QED
    BY <2>6 DEF s
<1>4. n.functions = m.functions
  <2> DEFINE s == m.functions
  <2>1. n.functions = [i \in DOMAIN s |-> MovedFunction(s[i], keep, impls)]
    BY DEF IsMoved
  <2>2. \A i \in DOMAIN s : MovedFunction(s[i], keep, impls) = s[i]
    BY SameItems
  <2>3. s \in Seq(Function)
    BY <1>1, ModuleParts
  <2> HIDE DEF s
  <2>4. n.functions = s
    BY <2>1, <2>2, <2>3
  <2>5. QED
    BY <2>4 DEF s
<1>5. n.lets = m.lets
  <2> DEFINE s == m.lets
  <2>1. n.lets = [i \in DOMAIN s |-> MovedLet(s[i], keep, impls)]
    BY DEF IsMoved
  <2>2. \A i \in DOMAIN s : MovedLet(s[i], keep, impls) = s[i]
    BY SameItems
  <2>3. s \in Seq(LetDef)
    BY <1>1, ModuleParts
  <2> HIDE DEF s
  <2>4. n.lets = s
    BY <2>1, <2>2, <2>3
  <2>5. QED
    BY <2>4 DEF s
<1>6. n.defs = m.defs
  <2>1. n.defs = [k \in Kinds |-> n.defs[k]]
    BY DEF IsMoved
  <2>2. m.defs = [k \in Kinds |-> m.defs[k]]
    BY <1>1 DEF Module
  <2>3. QED
    BY <1>2, <2>1, <2>2
<1>7. n = [defs |-> n.defs, impls |-> n.impls, functions |-> n.functions, lets |-> n.lets]
  BY DEF IsMoved
<1>8. m = [defs |-> m.defs, impls |-> m.impls, functions |-> m.functions, lets |-> m.lets]
  BY <1>1 DEF Module
<1>9. QED
  BY <1>3, <1>4, <1>5, <1>6, <1>7, <1>8

-----------------------------------------------------------------------------
(* The number of definitions. *)

LEMMA RoundCounts ==
  ASSUME NEW src, NEW m, ModuleIn(m, src), NEW keep, NEW impls, NEW marks,
         CanStay(m, keep, impls, marks),
         NEW n, \A k \in Kinds : Len(n.defs[k]) = Cardinality(keep[k])
  PROVE  /\ \A k \in Kinds : /\ Len(m.defs[k]) \in Nat /\ Len(n.defs[k]) \in Nat
                             /\ Len(n.defs[k]) <= Len(m.defs[k])
         /\ TotalOf(m) \in Nat /\ TotalOf(n) \in Nat /\ TotalOf(n) <= TotalOf(m)
         /\ TotalOf(n) = TotalOf(m) => Count(n) = Count(m)
         /\ Count(n) = Count(m) => AllKept(m, keep, impls)
<1>1. m \in Module
  BY DEF ModuleIn
<1>2. ASSUME NEW k \in Kinds
      PROVE  /\ Len(m.defs[k]) \in Nat /\ Len(n.defs[k]) \in Nat
             /\ Len(n.defs[k]) <= Len(m.defs[k])
             /\ Len(n.defs[k]) = Len(m.defs[k]) => keep[k] = 1..Len(m.defs[k])
  <2> DEFINE N == Len(m.defs[k])
             K == keep[k]
  <2>1. N \in Nat /\ K \in SUBSET (1..N)
    BY <1>1, ModuleParts DEF CanStay
  <2> HIDE DEF N, K
  <2>2. IsFiniteSet(1..N) /\ Cardinality(1..N) = N
    BY <2>1, FS_Interval
  <2>3. /\ Cardinality(K) \in Nat /\ Cardinality(K) <= N
        /\ Cardinality(K) = N => K = 1..N
    BY <2>1, <2>2, FS_Subset, FS_CardinalityType
  <2>4. Len(n.defs[k]) = Cardinality(K)
    BY DEF K
  <2>5. QED
    BY <2>1, <2>3, <2>4 DEF N, K
<1>3. /\ TotalOf(m) \in Nat /\ TotalOf(n) \in Nat /\ TotalOf(n) <= TotalOf(m)
      /\ TotalOf(n) = TotalOf(m) => \A k \in Kinds : Len(n.defs[k]) = Len(m.defs[k])
  <2> DEFINE M(k) == Len(m.defs[k])
             L(k) == Len(n.defs[k])
  <2>1. /\ M("struct") \in Nat /\ L("struct") \in Nat /\ L("struct") <= M("struct")
        /\ M("trait") \in Nat /\ L("trait") \in Nat /\ L("trait") <= M("trait")
        /\ M("enum") \in Nat /\ L("enum") \in Nat /\ L("enum") <= M("enum")
    BY <1>2 DEF Kinds
  <2>2. /\ TotalOf(m) = M("struct") + M("trait") + M("enum")
        /\ TotalOf(n) = L("struct") + L("trait") + L("enum")
    BY DEF TotalOf
  <2> HIDE DEF M, L
  <2>3. /\ TotalOf(m) \in Nat /\ TotalOf(n) \in Nat /\ TotalOf(n) <= TotalOf(m)
        /\ TotalOf(n) = TotalOf(m) =>
              L("struct") = M("struct") /\ L("trait") = M("trait") /\ L("enum") = M("enum")
    BY <2>1, <2>2
  <2>4. QED
    BY <2>3 DEF Kinds, M, L
<1>4. (\A k \in Kinds : Len(n.defs[k]) = Len(m.defs[k])) <=> Count(n) = Count(m)
  <2>1. Count(n) = [k \in Kinds |-> Len(n.defs[k])] /\ Count(m) = [k \in Kinds |-> Len(m.defs[k])]
    BY DEF Count
  <2>2. QED
    BY <2>1
<1>5. ASSUME Count(n) = Count(m) PROVE AllKept(m, keep, impls)
  <2>1. ASSUME NEW k \in Kinds PROVE keep[k] = 1..Len(m.defs[k])
    BY <1>2, <1>4, <1>5
  <2>2. ASSUME NEW i \in DOMAIN m.impls PROVE i \in impls
    <3>1. ImplIn(m, src, m.impls[i])
      BY DEF ModuleIn
    <3>2. ASSUME NEW t \in m.impls[i].target PROVE t.id \in keep[t.kind]
      <4>1. t \in Ref /\ RefOK(m, t)
        BY <3>1 DEF ImplIn, Impl
      <4>2. t.kind \in Kinds /\ t.id \in DOMAIN m.defs[t.kind]
        BY <4>1 DEF Ref, RefOK, Names
      <4>3. DOMAIN m.defs[t.kind] = 1..Len(m.defs[t.kind])
        BY <1>1, <4>2, ModuleParts
      <4>4. QED
        BY <2>1, <4>2, <4>3
    <3>3. QED
      BY <3>2 DEF CanStay, AreKept
  <2>3. impls = 1..Len(m.impls)
    <3>1. DOMAIN m.impls = 1..Len(m.impls)
      BY <1>1, ModuleParts
    <3>2. QED
      BY <2>2, <3>1 DEF CanStay
  <2>4. QED
    BY <2>1, <2>3 DEF AllKept
<1>6. QED
  BY <1>2, <1>3, <1>4, <1>5

LEMMA SameMarks ==
  ASSUME ir' = ir
  PROVE  Analyzed' = Analyzed
<1>1. /\ mark_public_definitions' = mark_public_definitions
      /\ mark_used_in_functions' = mark_used_in_functions
  BY DEF mark_public_definitions, mark_used_in_functions
<1>2. mark_used_in_lets' = mark_used_in_lets
  BY DEF mark_used_in_lets
<1>3. mark_used_in_definitions' = mark_used_in_definitions
  BY DEF mark_used_in_definitions
<1>4. BaseMarks' = BaseMarks
  BY <1>1, <1>2, <1>3 DEF BaseMarks
<1>5. Analyzed' = (CHOOSE f : IsUpTo(BaseMarks, f))'[Len(ir.impls)]
  BY DEF Analyzed, BaseMarks, mark_used_in_impl_traits, IsUpTo
<1>6. Analyzed = (CHOOSE f : IsUpTo(BaseMarks, f))[Len(ir.impls)]
  BY DEF Analyzed, BaseMarks, mark_used_in_impl_traits, IsUpTo
<1>7. (CHOOSE f : IsUpTo(BaseMarks, f))' = (CHOOSE f : IsUpTo(BaseMarks, f))
  BY <1>4 DEF IsUpTo, mark_used_in_impl
<1>8. QED
  BY <1>5, <1>6, <1>7

LEMMA SameAnalysis ==
  ASSUME ir' = ir, AllMarked
  PROVE  AllMarked'
BY SameMarks DEF AllMarked

LEMMA SumOfThree ==
  ASSUME NEW a \in Nat, NEW b \in Nat, NEW c \in Nat
  PROVE  a + b + c \in Nat /\ (a + b + c = 0 => a = 0 /\ b = 0 /\ c = 0)
OBVIOUS

LEMMA TotalIsASum ==
  ASSUME NEW m, \A k \in Kinds : Len(m.defs[k]) \in Nat
  PROVE  /\ TotalOf(m) \in Nat
         /\ TotalOf(m) = 0 => \A k \in Kinds : Len(m.defs[k]) = 0
<1> DEFINE a == Len(m.defs["struct"])
           b == Len(m.defs["trait"])
           c == Len(m.defs["enum"])
<1>1. a \in Nat /\ b \in Nat /\ c \in Nat
  BY DEF Kinds
<1>2. TotalOf(m) = a + b + c
  BY DEF TotalOf
<1>3. a = 0 /\ b = 0 /\ c = 0 => \A k \in Kinds : Len(m.defs[k]) = 0
  BY DEF Kinds
<1> HIDE DEF a, b, c
<1>4. QED
  BY <1>1, <1>2, <1>3, SumOfThree

\* The last step but one: a round of removal.
LEMMA RemoveKeepsIInv ==
  ASSUME IInv, Remove
  PROVE  IInv'
<1> DEFINE keep == build_remap
           impls == build_impl_index_remap(keep)
           n == remove_unused_definitions
           marks == BaseMarks
<1>1. /\ pc = "remove" /\ ir' = n /\ rounds' = rounds - 1
      /\ pc' = IF Count(ir') = Count(ir) \/ rounds = 1 THEN "done" ELSE "mark"
      /\ source' = source /\ all' = all /\ used' = used
  BY DEF Remove
<1>2. /\ ModuleIn(ir, source) /\ used = Analyzed /\ source \in Modules /\ all \in BOOLEAN
      /\ PublicStay(ir, source) /\ ImplsStay(ir, source) /\ LetsStay(ir, source, "remove")
      /\ TotalOf(ir) <= TotalOf(source)
      /\ rounds \in Nat /\ rounds <= TotalOf(source) + 1 /\ rounds > TotalOf(ir)
  BY <1>1 DEF IInv
<1>3. source \in Module
  BY <1>2, ModulesAreTyped
<1>4. CanStay(ir, keep, impls, marks) /\ IsMoved(ir, n, keep, impls)
  BY <1>2, RoundKeeps
<1> HIDE DEF keep, impls, n, marks
<1>5. /\ ModuleIn(n, source) /\ \A k \in Kinds : Len(n.defs[k]) = Cardinality(keep[k])
      /\ LetsStay(n, source, "remove")
  BY <1>2, <1>3, <1>4, MovedModule
<1>6. PublicStay(n, source) /\ ImplsStay(n, source)
  BY <1>2, <1>3, <1>4, NothingNeededMoves
<1>7. /\ TotalOf(ir) \in Nat /\ TotalOf(n) \in Nat /\ TotalOf(n) <= TotalOf(ir)
      /\ TotalOf(n) = TotalOf(ir) => Count(n) = Count(ir)
      /\ Count(n) = Count(ir) => AllKept(ir, keep, impls)
      /\ \A k \in Kinds : Len(ir.defs[k]) \in Nat /\ Len(n.defs[k]) <= Len(ir.defs[k])
      /\ \A k \in Kinds : Len(n.defs[k]) \in Nat
  BY <1>2, <1>4, <1>5, RoundCounts
<1>8. TotalOf(source) \in Nat
  BY <1>3, ModuleParts, TotalIsASum
<1>9. pc' \in {"done", "mark"} /\ LetsStay(n, source, pc')
  <2>1. pc' \in {"done", "mark"}
    BY <1>1
  <2>2. QED
    BY <1>5, <2>1 DEF LetsStay
<1>10. rounds' \in Nat /\ rounds' <= TotalOf(source) + 1
  BY <1>1, <1>2, <1>7, <1>8
<1>11. pc' = "mark" => rounds' > TotalOf(ir')
  <2>1. pc' = "mark" => Count(n) # Count(ir)
    BY <1>1
  <2>2. QED
    BY <1>1, <1>2, <1>7, <2>1
<1>12. ASSUME pc' = "done" PROVE AllMarked'
  <2>1. CASE Count(n) = Count(ir)
    <3>1. AllKept(ir, keep, impls)
      BY <1>7, <2>1
    <3>2. n = ir
      BY <1>2, <1>4, <3>1, SameModule
    <3>3. AllMarked
      <4>1. ASSUME NEW k \in Kinds, NEW i \in DOMAIN ir.defs[k] PROVE <<k, i>> \in Analyzed
        <5>1. DOMAIN ir.defs[k] = 1..Len(ir.defs[k])
          BY <1>2, ModuleParts DEF ModuleIn
        <5>2. i \in keep[k]
          BY <3>1, <5>1 DEF AllKept
        <5>3. QED
          BY <1>2, <5>2 DEF keep, build_remap
      <4>2. QED
        BY <4>1 DEF AllMarked
    <3>4. QED
      BY <1>1, <3>2, <3>3, SameAnalysis
  <2>2. CASE rounds = 1
    <3>1. TotalOf(n) = 0
      BY <1>2, <1>7, <2>2
    <3>2. ASSUME NEW k \in Kinds PROVE DOMAIN n.defs[k] = {}
      <4>1. Len(n.defs[k]) = 0
        BY <1>7, <3>1, TotalIsASum
      <4>2. DOMAIN n.defs[k] = 1..Len(n.defs[k])
        BY <1>5, ModuleParts DEF ModuleIn
      <4>3. QED
        BY <4>1, <4>2
    <3>3. QED
      BY <1>1, <3>2 DEF AllMarked
  <2>3. QED
    BY <1>1, <1>12, <2>1, <2>2
<1>13. QED
  BY <1>1, <1>2, <1>5, <1>6, <1>7, <1>9, <1>10, <1>11, <1>12, <1>8 DEF IInv

-----------------------------------------------------------------------------
(* The module that the pass is given. *)

LEMMA RefsAre ==
  ASSUME NEW m
  PROVE  /\ \A e \in RootsOf(m) : TypesIn(e) \subseteq RefsOf(m)
         /\ \A k \in Kinds : \A i \in DOMAIN m.defs[k] :
               m.defs[k][i].types \cup m.defs[k][i].composed
                  \cup OfBounds(m.defs[k][i].bounds) \subseteq RefsOf(m)
         /\ \A i \in DOMAIN m.functions : m.functions[i].sig \subseteq RefsOf(m)
         /\ \A i \in DOMAIN m.impls :
               m.impls[i].sig \cup m.impls[i].target
                  \cup OfBounds(m.impls[i].trait) \subseteq RefsOf(m)
         /\ \A i \in DOMAIN m.lets : m.lets[i].type \subseteq RefsOf(m)
<1> DEFINE defs == UNION {Elements(m.defs[k]) : k \in Kinds}
           functions == Elements(m.functions) \cup Elements(m.impls)
           inRoots == UNION {TypesIn(e) : e \in RootsOf(m)}
           inDefs == UNION {d.types \cup d.composed \cup OfBounds(d.bounds) : d \in defs}
           inFunctions == UNION {f.sig \cup OfBounds(f.bounds) : f \in functions}
           inImpls == UNION {i.target \cup OfBounds(i.trait) : i \in Elements(m.impls)}
           inLets == UNION {l.type : l \in Elements(m.lets)}
<1>1. RefsOf(m) = inRoots \cup inDefs \cup inFunctions \cup inImpls \cup inLets
  BY DEF RefsOf
<1>2. ASSUME NEW e \in RootsOf(m) PROVE TypesIn(e) \subseteq inRoots
  OBVIOUS
<1>3. ASSUME NEW k \in Kinds, NEW i \in DOMAIN m.defs[k]
      PROVE  m.defs[k][i].types \cup m.defs[k][i].composed
                \cup OfBounds(m.defs[k][i].bounds) \subseteq inDefs
  <2>1. m.defs[k][i] \in defs
    BY DEF Elements
  <2> HIDE DEF defs
  <2>2. QED
    BY <2>1
<1>4. ASSUME NEW i \in DOMAIN m.functions PROVE m.functions[i].sig \subseteq inFunctions
  <2>1. m.functions[i] \in functions
    BY DEF Elements
  <2> HIDE DEF functions
  <2>2. QED
    BY <2>1
<1>5. ASSUME NEW i \in DOMAIN m.impls
      PROVE  /\ m.impls[i].sig \subseteq inFunctions
             /\ m.impls[i].target \cup OfBounds(m.impls[i].trait) \subseteq inImpls
  <2>1. m.impls[i] \in Elements(m.impls)
    BY DEF Elements
  <2>2. m.impls[i] \in functions
    BY <2>1
  <2> HIDE DEF functions
  <2>3. QED
    BY <2>1, <2>2
<1>6. ASSUME NEW i \in DOMAIN m.lets PROVE m.lets[i].type \subseteq inLets
  <2>1. m.lets[i] \in Elements(m.lets)
    BY DEF Elements
  <2>2. QED
    BY <2>1
<1> HIDE DEF inRoots, inDefs, inFunctions, inImpls, inLets
<1>7. QED
  BY <1>1, <1>2, <1>3, <1>4, <1>5, <1>6

LEMMA BranchesAre ==
  ASSUME NEW e, NEW i \in DOMAIN e, NEW j \in DOMAIN e[i].value.branches
  PROVE  /\ e[i].value.branches[j] \in Branches(e)
         /\ e[i].value.branches[j].types \subseteq TypesIn(e)
         /\ e[i].value.branches[j].calls \subseteq CallsIn(e)
         /\ e[i].value.branches[j].reads \subseteq ReadsIn(e)
<1> DEFINE b == e[i].value.branches[j]
<1>1. b \in Elements(e[i].value.branches)
  BY DEF Elements
<1>2. b \in Branches(e)
  BY <1>1 DEF Branches
<1> HIDE DEF b
<1>3. b.types \subseteq TypesIn(e) /\ b.calls \subseteq CallsIn(e) /\ b.reads \subseteq ReadsIn(e)
  BY <1>2 DEF TypesIn, CallsIn, ReadsIn
<1>4. QED
  BY <1>2, <1>3 DEF b

LEMMA RootIsIn ==
  ASSUME NEW m \in Module, IsResolved(m), IsMonomorphic(m),
         NEW e \in RootsOf(m), e \in Block
  PROVE  BlockIn(m, m, e)
<1> SUFFICES ASSUME NEW i \in DOMAIN e, NEW j \in DOMAIN e[i].value.branches
             PROVE  BranchIn(m, m, e[i].value.branches[j])
  BY DEF BlockIn
<1> DEFINE b == e[i].value.branches[j]
<1>1. /\ b \in Branches(e) /\ b.types \subseteq TypesIn(e)
      /\ b.calls \subseteq CallsIn(e) /\ b.reads \subseteq ReadsIn(e)
  BY BranchesAre
<1> HIDE DEF b
<1>2. \A r \in b.types : RefOK(m, r)
  <2>1. TypesIn(e) \subseteq RefsOf(m)
    BY RefsAre
  <2>2. QED
    BY <1>1, <2>1 DEF IsResolved, IdsAreRight
<1>3. ASSUME NEW c \in b.calls
      PROVE  CallOK(m, c) /\ Meant(m.impls[c.means].target) \subseteq Meant(b.types)
  <2>1. CallOK(m, c)
    BY <1>1 DEF IsResolved, IdsAreRight
  <2>2. c.means = c.id
    BY <2>1 DEF IsResolved, Numbered, CallOK, Names
  <2>3. m.impls[c.id].target \subseteq b.types
    BY <1>1 DEF IsMonomorphic
  <2>4. Meant(m.impls[c.id].target) \subseteq Meant(b.types)
    BY <2>3 DEF Meant
  <2>5. QED
    BY <2>1, <2>2, <2>4
<1>4. ASSUME NEW r \in b.reads PROVE ReadIn(m, m, r)
  <2>1. r \in Reads(m)
    BY <1>1 DEF Reads
  <2>2. QED
    BY <2>1 DEF IsResolved, IdsAreRight, ReadIn
<1>5. QED
  BY <1>2, <1>3, <1>4 DEF BranchIn, b

LEMMA NoCallsIsNothing ==
  ASSUME NEW e, CallsIn(e) = {}
  PROVE  CallsNothing(e)
<1>1. ASSUME NEW i \in DOMAIN e, NEW j \in DOMAIN e[i].value.branches
      PROVE  e[i].value.branches[j].calls = {}
  BY BranchesAre
<1>2. QED
  BY <1>1 DEF CallsNothing

LEMMA BoundsAtStart ==
  ASSUME NEW m, IsResolved(m), NEW bounds, BoundsAreClosed(bounds),
         OfBounds(bounds) \subseteq RefsOf(m)
  PROVE  BoundsIn(m, bounds)
<1>1. ASSUME NEW b \in bounds PROVE RefOK(m, b.trait)
  <2>1. b.trait \in OfBounds(bounds)
    BY DEF OfBounds
  <2>2. QED
    BY <2>1 DEF IsResolved, IdsAreRight
<1>2. QED
  BY <1>1 DEF BoundsIn, BoundsAreClosed

\* Items that are where they are are in order.
LEMMA NumberedInOrder ==
  ASSUME NEW items, Numbered(items)
  PROVE  InOrder(items, items)
BY DEF Numbered, InOrder

LEMMA CallableAtStart ==
  ASSUME NEW m \in Module, IsResolved(m), IsMonomorphic(m), DefaultsCallNothing(m),
         NEW f, f \in Elements(m.functions) \cup Elements(m.impls),
         f.sig \subseteq RefsOf(m), f.body \in RootsOf(m), f.default \in RootsOf(m),
         f.body \in Block, f.default \in Block
  PROVE  CallableIn(m, m, f, f)
<1>1. f.bounds = {} /\ CallsIn(f.default) = {}
  BY DEF IsMonomorphic, DefaultsCallNothing
<1>2. CallsNothing(f.default)
  BY <1>1, NoCallsIsNothing
<1>3. \A r \in f.sig : RefOK(m, r)
  BY DEF IsResolved, IdsAreRight
<1>4. QED
  BY <1>1, <1>2, <1>3, RootIsIn DEF CallableIn

LEMMA ModuleAtStart ==
  ASSUME NEW m \in Module, IsResolved(m), IsMonomorphic(m), DefaultsCallNothing(m)
  PROVE  /\ ModuleIn(m, m)
         /\ PublicStay(m, m) /\ ImplsStay(m, m) /\ LetsStay(m, m, "branches")
<1>1. /\ \A k \in Kinds : Numbered(m.defs[k])
      /\ Numbered(m.impls) /\ Numbered(m.lets)
  BY DEF IsResolved
<1>2. ASSUME NEW k \in Kinds, NEW i \in DOMAIN m.defs[k]
      PROVE  DefIn(m, m, k, m.defs[k][i])
  <2> DEFINE d == m.defs[k][i]
  <2>1. d \in Def /\ d.was = i
    BY <1>1, ModuleParts DEF Numbered
  <2>2. d.types \cup d.composed \cup OfBounds(d.bounds) \subseteq RefsOf(m)
    BY RefsAre
  <2>3. BoundsAreClosed(d.bounds) /\ \A r \in d.composed : r.kind = "trait"
    BY DEF IsMonomorphic, Elements
  <2>4. d.default \in RootsOf(m) /\ d.default \in Block
    BY RootsAre, ModuleBlocks
  <2>5. m.defs[k][d.was] = d
    BY <2>1
  <2> HIDE DEF d
  <2>6. BlockIn(m, m, d.default)
    BY <2>4, RootIsIn
  <2>7. BoundsIn(m, d.bounds)
    BY <2>2, <2>3, BoundsAtStart
  <2>8. \A r \in d.types \cup d.composed : RefOK(m, r)
    BY <2>2 DEF IsResolved, IdsAreRight
  <2>9. d.was \in DOMAIN m.defs[k]
    BY <2>1
  <2>10. DefIn(m, m, k, d)
    BY <2>1, <2>3, <2>5, <2>6, <2>7, <2>8, <2>9 DEF DefIn
  <2>11. QED
    BY <2>10 DEF d
<1>3. ASSUME NEW i \in DOMAIN m.impls PROVE ImplIn(m, m, m.impls[i])
  <2> DEFINE f == m.impls[i]
  <2>1. f \in Impl /\ f.was = i /\ m.impls[f.was] = f
    BY <1>1, ModuleParts DEF Numbered
  <2>2. f.sig \cup f.target \cup OfBounds(f.trait) \subseteq RefsOf(m)
    BY RefsAre
  <2>3. f \in Elements(m.impls)
    BY DEF Elements
  <2>4. /\ f.body \in RootsOf(m) /\ f.default \in RootsOf(m)
        /\ f.body \in Block /\ f.default \in Block
    BY RootsAre, ModuleBlocks
  <2> HIDE DEF f
  <2>5. CallableIn(m, m, f, f)
    BY <2>2, <2>3, <2>4, CallableAtStart
  <2>6. BoundsAreClosed(f.trait) /\ \A t \in f.target : t.kind # "trait"
    BY <2>3 DEF IsMonomorphic
  <2>7. BoundsIn(m, f.trait)
    BY <2>2, <2>6, BoundsAtStart
  <2>8. \A t \in f.target : RefOK(m, t)
    BY <2>2 DEF IsResolved, IdsAreRight
  <2>9. ImplIn(m, m, f)
    BY <2>1, <2>5, <2>6, <2>7, <2>8 DEF ImplIn
  <2>10. QED
    BY <2>9 DEF f
<1>4. FunctionsIn(m, m)
  <2>1. ASSUME NEW i \in DOMAIN m.functions
        PROVE  CallableIn(m, m, m.functions[i], m.functions[i])
    <3> DEFINE f == m.functions[i]
    <3>1. f.sig \subseteq RefsOf(m)
      BY RefsAre
    <3>2. f \in Elements(m.functions)
      BY DEF Elements
    <3>3. /\ f.body \in RootsOf(m) /\ f.default \in RootsOf(m)
          /\ f.body \in Block /\ f.default \in Block
      BY RootsAre, ModuleBlocks
    <3> HIDE DEF f
    <3>4. CallableIn(m, m, f, f)
      BY <3>1, <3>2, <3>3, CallableAtStart
    <3>5. QED
      BY <3>4 DEF f
  <2>2. QED
    BY <2>1 DEF FunctionsIn
<1>5. ASSUME NEW i \in DOMAIN m.lets PROVE LetIn(m, m, m.lets[i])
  <2> DEFINE l == m.lets[i]
  <2>1. l \in LetDef /\ l.was = i /\ m.lets[l.was] = l
    BY <1>1, ModuleParts DEF Numbered
  <2>2. l.type \subseteq RefsOf(m)
    BY RefsAre
  <2>3. l.value \in RootsOf(m) /\ l.value \in Block
    BY RootsAre, ModuleBlocks
  <2> HIDE DEF l
  <2>4. BlockIn(m, m, l.value)
    BY <2>3, RootIsIn
  <2>5. \A r \in l.type : RefOK(m, r)
    BY <2>2 DEF IsResolved, IdsAreRight
  <2>6. LetIn(m, m, l)
    BY <2>1, <2>4, <2>5 DEF LetIn
  <2>7. QED
    BY <2>6 DEF l
<1>6. ModuleIn(m, m)
  <2>1. /\ \A k \in Kinds : InOrder(m.defs[k], m.defs[k])
        /\ InOrder(m.impls, m.impls) /\ InOrder(m.lets, m.lets)
    BY <1>1, NumberedInOrder
  <2>2. QED
    BY <1>2, <1>3, <1>4, <1>5, <2>1 DEF ModuleIn
<1>7. PublicStay(m, m)
  BY <1>1 DEF PublicStay, Holds, Numbered
<1>8. ImplsStay(m, m)
  BY <1>1 DEF ImplsStay, Holds, Numbered
<1>9. LetsStay(m, m, "branches")
  BY <1>1 DEF LetsStay, Numbered
<1>10. QED
  BY <1>6, <1>7, <1>8, <1>9

\* What the theorems ask of the modules: no parameter default calls a method.
NoDefaultCalls == \A m \in Modules : DefaultsCallNothing(m)

LEMMA InitIInv ==
  ASSUME NoDefaultCalls, Init
  PROVE  IInv
<1>1. /\ pc = "branches" /\ all \in BOOLEAN /\ source \in Modules /\ ir = source
      /\ rounds = 0
  BY DEF Init
<1>2. /\ source \in Module /\ IsResolved(source) /\ IsMonomorphic(source)
      /\ DefaultsCallNothing(source)
  BY <1>1, ModulesAreTyped, ModulesAreResolved, ModulesAreMonomorphic DEF NoDefaultCalls
<1>3. /\ ModuleIn(source, source)
      /\ PublicStay(source, source) /\ ImplsStay(source, source)
      /\ LetsStay(source, source, "branches")
  BY <1>2, ModuleAtStart
<1>4. TotalOf(source) \in Nat
  BY <1>2, ModuleParts, TotalIsASum
<1>5. QED
  BY <1>1, <1>3, <1>4 DEF IInv

-----------------------------------------------------------------------------
(* The other steps. *)

LEMMA SameTotal ==
  ASSUME NEW m, NEW n, \A k \in Kinds : Len(n.defs[k]) = Len(m.defs[k])
  PROVE  TotalOf(n) = TotalOf(m)
BY DEF TotalOf, Kinds

LEMMA CollapseKeepsIInv ==
  ASSUME IInv, CollapseBranches
  PROVE  IInv'
<1>1. /\ pc = "branches" /\ pc' = "locals"
      /\ source' = source /\ all' = all /\ used' = used /\ rounds' = rounds
      /\ ir' = OnRoots(ir, eliminate_dead_code_expr, Same,
                       eliminate_dead_code_expr, eliminate_dead_code_expr)
  BY DEF CollapseBranches
<1>2. source \in Module /\ ModuleIn(ir, source)
  BY ModulesAreTyped DEF IInv
<1>3. /\ ModuleIn(ir', source) /\ \A k \in Kinds : Len(ir'.defs[k]) = Len(ir.defs[k])
      /\ PublicStay(ir, source) /\ ImplsStay(ir, source)
            => PublicStay(ir', source) /\ ImplsStay(ir', source)
      /\ LetsStay(ir, source, "branches") => LetsStay(ir', source, "locals")
  BY <1>1, <1>2, CollapsedModule
<1>4. TotalOf(ir') = TotalOf(ir)
  BY <1>3, SameTotal
<1>5. QED
  BY <1>1, <1>3, <1>4 DEF IInv

LEMMA LocalsKeepsIInv ==
  ASSUME IInv, RemoveLocals
  PROVE  IInv'
<1>1. /\ pc = "locals" /\ pc' = IF all THEN "lets" ELSE "done"
      /\ source' = source /\ all' = all /\ used' = used /\ rounds' = rounds
      /\ ir' = OnRoots(ir, remove_unused_locals, remove_unused_locals,
                       remove_unused_locals, remove_unused_locals)
  BY DEF RemoveLocals
<1>2. source \in Module /\ ModuleIn(ir, source)
  BY ModulesAreTyped DEF IInv
<1>3. /\ ModuleIn(ir', source) /\ \A k \in Kinds : Len(ir'.defs[k]) = Len(ir.defs[k])
      /\ PublicStay(ir, source) /\ ImplsStay(ir, source)
            => PublicStay(ir', source) /\ ImplsStay(ir', source)
      /\ \A part \in {"lets", "done"} :
            LetsStay(ir, source, "locals") => LetsStay(ir', source, part)
  BY <1>1, <1>2, LocalsModule
<1>4. TotalOf(ir') = TotalOf(ir)
  BY <1>3, SameTotal
<1>5. pc' \in {"lets", "done"} /\ (pc' = "done" => all = FALSE)
  BY <1>1 DEF IInv
<1>6. QED
  BY <1>1, <1>3, <1>4, <1>5 DEF IInv

LEMMA LetsKeepsIInv ==
  ASSUME IInv, RemoveUnreadLets
  PROVE  IInv'
<1>1. /\ pc = "lets" /\ pc' = pc
      /\ source' = source /\ all' = all /\ used' = used /\ rounds' = rounds
      /\ ir' = RemoveLets(ir, UnreadLets(ir))
  BY DEF RemoveUnreadLets
<1>2. source \in Module /\ ModuleIn(ir, source)
  BY ModulesAreTyped DEF IInv
<1>3. /\ ModuleIn(ir', source) /\ \A k \in Kinds : Len(ir'.defs[k]) = Len(ir.defs[k])
      /\ PublicStay(ir, source) /\ ImplsStay(ir, source)
            => PublicStay(ir', source) /\ ImplsStay(ir', source)
      /\ LetsStay(ir, source, "lets") => LetsStay(ir', source, "lets")
  BY <1>1, <1>2, LetsModule
<1>4. TotalOf(ir') = TotalOf(ir)
  BY <1>3, SameTotal
<1>5. QED
  BY <1>1, <1>3, <1>4 DEF IInv

LEMMA NoLetsKeepsIInv ==
  ASSUME IInv, NoUnreadLets
  PROVE  IInv'
<1>1. /\ pc = "lets" /\ pc' = "mark" /\ rounds' = TotalOf(ir) + 1
      /\ source' = source /\ all' = all /\ used' = used /\ ir' = ir
  BY DEF NoUnreadLets
<1>2. source \in Module /\ ir \in Module
  BY ModulesAreTyped DEF IInv, ModuleIn
<1>3. TotalOf(source) \in Nat /\ TotalOf(ir) \in Nat
  BY <1>2, ModuleParts, TotalIsASum
<1>4. rounds' \in Nat /\ rounds' <= TotalOf(source) + 1 /\ rounds' > TotalOf(ir)
  BY <1>1, <1>3 DEF IInv
<1>5. LetsStay(ir, source, "mark")
  BY <1>1 DEF IInv, LetsStay
<1>6. QED
  BY <1>1, <1>4, <1>5 DEF IInv

LEMMA AnalyzeKeepsIInv ==
  ASSUME IInv, Analyze
  PROVE  IInv'
<1>1. /\ pc = "mark" /\ pc' = "remove" /\ used' = Analyzed
      /\ source' = source /\ all' = all /\ rounds' = rounds /\ ir' = ir
  BY DEF Analyze
<1>2. LetsStay(ir, source, "remove")
  BY <1>1 DEF IInv, LetsStay
<1>3. Analyzed' = Analyzed
  BY <1>1, SameMarks
<1>4. QED
  BY <1>1, <1>2, <1>3 DEF IInv

LEMMA StutterKeepsIInv ==
  ASSUME IInv, UNCHANGED vars
  PROVE  IInv'
<1>1. /\ pc' = pc /\ used' = used /\ source' = source /\ all' = all
      /\ rounds' = rounds /\ ir' = ir
  BY DEF vars
<1>2. Analyzed' = Analyzed
  BY <1>1, SameMarks
<1>3. pc = "done" /\ all => AllMarked'
  BY <1>1, SameAnalysis DEF IInv
<1>4. QED
  BY <1>1, <1>2, <1>3 DEF IInv

LEMMA NextKeepsIInv ==
  ASSUME IInv, [Next]_vars
  PROVE  IInv'
<1>1. CASE CollapseBranches
  BY <1>1, CollapseKeepsIInv
<1>2. CASE RemoveLocals
  BY <1>2, LocalsKeepsIInv
<1>3. CASE RemoveUnreadLets
  BY <1>3, LetsKeepsIInv
<1>4. CASE NoUnreadLets
  BY <1>4, NoLetsKeepsIInv
<1>5. CASE Analyze
  BY <1>5, AnalyzeKeepsIInv
<1>6. CASE Remove
  BY <1>6, RemoveKeepsIInv
<1>7. CASE UNCHANGED vars
  BY <1>7, StutterKeepsIInv
<1>8. QED
  BY <1>1, <1>2, <1>3, <1>4, <1>5, <1>6, <1>7 DEF Next

LEMMA Invariance ==
  ASSUME NoDefaultCalls
  PROVE  Spec => []IInv
<1>1. Init => IInv
  BY InitIInv
<1>2. IInv /\ [Next]_vars => IInv'
  BY NextKeepsIInv
<1>3. QED
  BY <1>1, <1>2, PTL DEF Spec

-----------------------------------------------------------------------------
(* What the invariant says. *)

LEMMA RootsComeFrom ==
  ASSUME NEW m, NEW e \in RootsOf(m)
  PROVE  \/ \E f \in Elements(m.functions) \cup Elements(m.impls) : e = f.body \/ e = f.default
         \/ \E k \in Kinds : \E d \in Elements(m.defs[k]) : e = d.default
         \/ \E l \in Elements(m.lets) : e = l.value
BY DEF RootsOf

LEMMA RootsAreIn ==
  ASSUME NEW m, NEW src, ModuleIn(m, src), NEW e \in RootsOf(m)
  PROVE  BlockIn(m, src, e)
<1>1. CASE \E f \in Elements(m.functions) \cup Elements(m.impls) : e = f.body \/ e = f.default
  <2>1. PICK f \in Elements(m.functions) \cup Elements(m.impls) : e = f.body \/ e = f.default
    BY <1>1
  <2>2. \E s : CallableIn(m, src, f, s)
    <3>1. CASE f \in Elements(m.functions)
      BY <3>1 DEF Elements, ModuleIn, FunctionsIn
    <3>2. CASE f \in Elements(m.impls)
      BY <3>2 DEF Elements, ModuleIn, ImplIn
    <3>3. QED
      BY <3>1, <3>2
  <2>3. QED
    BY <2>1, <2>2 DEF CallableIn
<1>2. CASE \E k \in Kinds : \E d \in Elements(m.defs[k]) : e = d.default
  <2>1. PICK k \in Kinds : \E d \in Elements(m.defs[k]) : e = d.default
    BY <1>2
  <2>2. PICK d \in Elements(m.defs[k]) : e = d.default
    BY <2>1
  <2>3. DefIn(m, src, k, d)
    BY DEF Elements, ModuleIn
  <2>4. QED
    BY <2>2, <2>3 DEF DefIn
<1>3. CASE \E l \in Elements(m.lets) : e = l.value
  <2>1. PICK l \in Elements(m.lets) : e = l.value
    BY <1>3
  <2>2. LetIn(m, src, l)
    BY DEF Elements, ModuleIn
  <2>3. QED
    BY <2>1, <2>2 DEF LetIn
<1>4. QED
  BY <1>1, <1>2, <1>3, RootsComeFrom

\* A branch of a root is one of a statement.
LEMMA BranchesComeFrom ==
  ASSUME NEW m, NEW src, NEW e, BlockIn(m, src, e), NEW b \in Branches(e)
  PROVE  BranchIn(m, src, b)
<1>1. PICK i \in DOMAIN e : b \in Elements(e[i].value.branches)
  BY DEF Branches
<1>2. PICK j \in DOMAIN e[i].value.branches : b = e[i].value.branches[j]
  BY <1>1 DEF Elements
<1>3. QED
  BY <1>2 DEF BlockIn

LEMMA TypesAreRight ==
  ASSUME NEW m, NEW src, ModuleIn(m, src), NEW e \in RootsOf(m), NEW r \in TypesIn(e)
  PROVE  RefOK(m, r)
<1>1. PICK b \in Branches(e) : r \in b.types
  BY DEF TypesIn
<1>2. BranchIn(m, src, b)
  BY RootsAreIn, BranchesComeFrom
<1>3. QED
  BY <1>1, <1>2 DEF BranchIn

LEMMA BoundsAreRight ==
  ASSUME NEW m, NEW bounds, BoundsIn(m, bounds), NEW r \in OfBounds(bounds)
  PROVE  RefOK(m, r)
BY DEF BoundsIn, OfBounds

LEMMA RefsAreRight ==
  ASSUME NEW m, NEW src, ModuleIn(m, src), NEW r \in RefsOf(m)
  PROVE  RefOK(m, r)
<1> DEFINE defs == UNION {Elements(m.defs[k]) : k \in Kinds}
           functions == Elements(m.functions) \cup Elements(m.impls)
           inRoots == UNION {TypesIn(e) : e \in RootsOf(m)}
           inDefs == UNION {d.types \cup d.composed \cup OfBounds(d.bounds) : d \in defs}
           inFunctions == UNION {f.sig \cup OfBounds(f.bounds) : f \in functions}
           inImpls == UNION {i.target \cup OfBounds(i.trait) : i \in Elements(m.impls)}
           inLets == UNION {l.type : l \in Elements(m.lets)}
<1>1. r \in inRoots \cup inDefs \cup inFunctions \cup inImpls \cup inLets
  BY DEF RefsOf
<1>2. CASE r \in inRoots
  BY <1>2, TypesAreRight
<1>3. CASE r \in inDefs
  <2>1. PICK d \in defs : r \in d.types \cup d.composed \cup OfBounds(d.bounds)
    BY <1>3
  <2>2. PICK k \in Kinds : DefIn(m, src, k, d)
    BY DEF Elements, ModuleIn
  <2>3. /\ \A t \in d.types : RefOK(m, t)
        /\ \A t \in d.composed : RefOK(m, t)
        /\ BoundsIn(m, d.bounds)
    BY <2>2 DEF DefIn
  <2>4. QED
    BY <2>1, <2>3, BoundsAreRight
<1>4. CASE r \in inFunctions
  <2>1. PICK f \in functions : r \in f.sig \cup OfBounds(f.bounds)
    BY <1>4
  <2>2. \E s : CallableIn(m, src, f, s)
    <3>1. CASE f \in Elements(m.functions)
      BY <3>1 DEF Elements, ModuleIn, FunctionsIn
    <3>2. CASE f \in Elements(m.impls)
      BY <3>2 DEF Elements, ModuleIn, ImplIn
    <3>3. QED
      BY <3>1, <3>2
  <2>3. (\A t \in f.sig : RefOK(m, t)) /\ f.bounds = {}
    BY <2>2 DEF CallableIn
  <2>4. OfBounds({}) = {}
    BY DEF OfBounds
  <2>5. QED
    BY <2>1, <2>3, <2>4
<1>5. CASE r \in inImpls
  <2>1. PICK i \in Elements(m.impls) : r \in i.target \cup OfBounds(i.trait)
    BY <1>5
  <2>2. ImplIn(m, src, i)
    BY DEF Elements, ModuleIn
  <2>3. (\A t \in i.target : RefOK(m, t)) /\ BoundsIn(m, i.trait)
    BY <2>2 DEF ImplIn
  <2>4. QED
    BY <2>1, <2>3, BoundsAreRight
<1>6. CASE r \in inLets
  <2>1. PICK l \in Elements(m.lets) : r \in l.type
    BY <1>6
  <2>2. LetIn(m, src, l)
    BY DEF Elements, ModuleIn
  <2>3. QED
    BY <2>1, <2>2 DEF LetIn
<1> HIDE DEF inRoots, inDefs, inFunctions, inImpls, inLets
<1>7. QED
  BY <1>1, <1>2, <1>3, <1>4, <1>5, <1>6

LEMMA IdsStayRight ==
  ASSUME IInv
  PROVE  EveryIdIsRewritten
<1>1. ModuleIn(ir, source)
  BY DEF IInv
<1>2. ASSUME NEW r \in RefsOf(ir) PROVE RefOK(ir, r)
  BY <1>1, RefsAreRight
<1>3. ASSUME NEW e \in RootsOf(ir), NEW c \in CallsIn(e) PROVE CallOK(ir, c)
  <2>1. PICK b \in Branches(e) : c \in b.calls
    BY DEF CallsIn
  <2>2. BranchIn(ir, source, b)
    BY <1>1, RootsAreIn, BranchesComeFrom
  <2>3. QED
    BY <2>1, <2>2 DEF BranchIn
<1>4. ASSUME NEW r \in Reads(ir) PROVE ReadOK(ir, r)
  <2>1. PICK e \in RootsOf(ir) : r \in ReadsIn(e)
    BY DEF Reads
  <2>2. PICK b \in Branches(e) : r \in b.reads
    BY <2>1 DEF ReadsIn
  <2>3. BranchIn(ir, source, b)
    BY <1>1, RootsAreIn, BranchesComeFrom
  <2>4. QED
    BY <2>2, <2>3 DEF BranchIn, ReadIn
<1>5. QED
  BY <1>2, <1>3, <1>4 DEF EveryIdIsRewritten, IdsAreRight

LEMMA EachIsCounted ==
  ASSUME NEW m, \A k \in Kinds : Len(m.defs[k]) \in Nat, NEW k \in Kinds
  PROVE  Len(m.defs[k]) <= TotalOf(m)
<1> DEFINE a == Len(m.defs["struct"])
           b == Len(m.defs["trait"])
           c == Len(m.defs["enum"])
<1>1. a \in Nat /\ b \in Nat /\ c \in Nat
  BY DEF Kinds
<1>2. TotalOf(m) = a + b + c
  BY DEF TotalOf
<1>3. Len(m.defs[k]) \in {a, b, c}
  BY DEF Kinds
<1> HIDE DEF a, b, c
<1>4. QED
  BY <1>1, <1>2, <1>3

LEMMA StateIsTyped ==
  ASSUME IInv
  PROVE  TypeOK
<1>1. ModuleIn(ir, source) /\ ir \in Module /\ source \in Module
  BY ModulesAreTyped DEF IInv, ModuleIn
<1>2. /\ \A k \in Kinds : InOrder(ir.defs[k], source.defs[k])
      /\ InOrder(ir.impls, source.impls) /\ InOrder(ir.lets, source.lets)
  BY <1>1 DEF ModuleIn
<1>3. pc = "remove" => used \subseteq {<<k, i>> : k \in Kinds, i \in 1..TotalOf(ir)}
  <2> SUFFICES ASSUME pc = "remove", NEW p \in used
               PROVE  p \in {<<k, i>> : k \in Kinds, i \in 1..TotalOf(ir)}
    OBVIOUS
  <2>1. used = Analyzed /\ Analyzed \subseteq Places(ir)
    BY <1>1, AnalyzedMarks DEF IInv
  <2>2. p[1] \in Kinds /\ p[2] \in DOMAIN ir.defs[p[1]] /\ p = <<p[1], p[2]>>
    BY <2>1 DEF Places
  <2>3. \A k \in Kinds : Len(ir.defs[k]) \in Nat /\ DOMAIN ir.defs[k] = 1..Len(ir.defs[k])
    BY <1>1, ModuleParts
  <2>4. TotalOf(ir) \in Nat /\ Len(ir.defs[p[1]]) <= TotalOf(ir)
    BY <2>2, <2>3, TotalIsASum, EachIsCounted
  <2>5. p[2] \in 1..TotalOf(ir)
    <3> DEFINE n == Len(ir.defs[p[1]])
               t == TotalOf(ir)
    <3>1. n \in Nat /\ t \in Nat /\ n <= t /\ p[2] \in 1..n
      BY <2>2, <2>3, <2>4
    <3> HIDE DEF n, t
    <3>2. p[2] \in 1..t
      BY <3>1
    <3>3. QED
      BY <3>2 DEF t
  <2>6. QED
    BY <2>2, <2>5
<1>4. rounds \in 0..TotalOf(source) + 1
  <2>1. TotalOf(source) \in Nat
    BY <1>1, ModuleParts, TotalIsASum
  <2>2. QED
    BY <2>1 DEF IInv
<1>5. QED
  BY <1>2, <1>3, <1>4 DEF TypeOK, IInv

LEMMA ContentsStay ==
  ASSUME IInv
  PROVE  ContentsAreKept
<1>1. ModuleIn(ir, source)
  BY DEF IInv
<1>2. ASSUME NEW k \in Kinds, NEW d \in Elements(ir.defs[k]) PROVE DefIn(ir, source, k, d)
  BY <1>1 DEF Elements, ModuleIn
<1>3. ASSUME NEW i \in Elements(ir.impls) PROVE ImplIn(ir, source, i)
  BY <1>1 DEF Elements, ModuleIn
<1>4. ASSUME NEW f, NEW s, CallableIn(ir, source, f, s) PROVE SameSignature(f, s)
  BY <1>4 DEF CallableIn, SameSignature
<1>5. ASSUME NEW k \in Kinds, NEW d \in Elements(ir.defs[k])
      PROVE  /\ Meant(d.types) = Meant(source.defs[k][d.was].types)
             /\ Meant(d.composed) = Meant(source.defs[k][d.was].composed)
             /\ MeantBy(d.bounds) = MeantBy(source.defs[k][d.was].bounds)
  BY <1>2 DEF DefIn
<1>6. ASSUME NEW i \in Elements(ir.impls)
      PROVE  /\ SameSignature(i, source.impls[i.was])
             /\ MeantBy(i.trait) = MeantBy(source.impls[i.was].trait)
  BY <1>3, <1>4 DEF ImplIn
<1>7. ASSUME NEW n \in DOMAIN ir.functions
      PROVE  SameSignature(ir.functions[n], source.functions[n])
  BY <1>1, <1>4 DEF ModuleIn, FunctionsIn
<1>8. QED
  BY <1>5, <1>6, <1>7 DEF ContentsAreKept

LEMMA SurvivorsAre ==
  ASSUME NEW k \in Kinds, NEW was
  PROVE  Holds(ir.defs[k], was) <=> was \in Survivors(k)
BY DEF Holds, Survivors, Elements

LEMMA NeededStays ==
  ASSUME IInv
  PROVE  NothingNeededGoes
<1>1. /\ ModuleIn(ir, source) /\ source \in Module
      /\ PublicStay(ir, source) /\ ImplsStay(ir, source) /\ LetsStay(ir, source, pc)
  BY ModulesAreTyped DEF IInv
<1>2. ASSUME NEW k \in Kinds, NEW i \in DOMAIN source.defs[k], source.defs[k][i].pub
      PROVE  i \in Survivors(k)
  <2>1. Holds(ir.defs[k], i)
    BY <1>1, <1>2 DEF PublicStay
  <2>2. QED
    BY <2>1, SurvivorsAre
<1>3. Len(ir.functions) = Len(source.functions)
  BY <1>1 DEF ModuleIn, FunctionsIn
<1>4. ASSUME NEW i \in DOMAIN source.lets,
             source.lets[i].pub \/ \E s \in Elements(source.lets[i].value) :
                                      s.value.test = "none" /\ ~effect_free(s.value)
      PROVE  i \in {l.was : l \in Elements(ir.lets)}
  <2>1. source.lets[i].pub \/ Certain(source.lets[i].value)
    BY <1>4 DEF Elements, Certain
  <2>2. PICK j \in DOMAIN ir.lets : ir.lets[j].was = i
    BY <1>1, <2>1 DEF LetsStay
  <2>3. QED
    BY <2>2 DEF Elements
<1>5. ASSUME NEW i \in DOMAIN source.impls, NEW t \in source.impls[i].target
      PROVE  t.kind \in Kinds
  <2>1. source.impls[i] \in Impl
    BY <1>1, ModuleParts
  <2>2. QED
    BY <2>1 DEF Impl, Ref
<1>6. ASSUME NEW i \in DOMAIN source.impls,
             \A t \in source.impls[i].target : t.means \in Survivors(t.kind)
      PROVE  i \in {m.was : m \in Elements(ir.impls)}
  <2>1. \A t \in source.impls[i].target : Holds(ir.defs[t.kind], t.means)
    BY <1>5, <1>6, SurvivorsAre
  <2>2. Holds(ir.impls, i)
    BY <1>1, <2>1 DEF ImplsStay
  <2>3. QED
    BY <2>2 DEF Holds, Elements
<1>7. ASSUME NEW i \in DOMAIN source.impls, i \in {m.was : m \in Elements(ir.impls)},
             NEW t \in source.impls[i].target
      PROVE  t.means \in Survivors(t.kind)
  <2>1. PICK m \in Elements(ir.impls) : m.was = i
    BY <1>7
  <2>2. ImplIn(ir, source, m)
    BY <1>1 DEF Elements, ModuleIn
  <2>3. <<t.kind, t.means>> \in Meant(m.target)
    BY <2>1, <2>2 DEF ImplIn, Meant
  <2>4. PICK r \in m.target : <<t.kind, t.means>> = <<r.kind, r.means>>
    BY <2>3 DEF Meant
  <2>5. Names(ir.defs[t.kind], r.id, t.means)
    BY <2>2, <2>4 DEF ImplIn, RefOK
  <2>6. Holds(ir.defs[t.kind], t.means)
    BY <2>5 DEF Names, Holds
  <2>7. QED
    BY <1>5, <2>6, SurvivorsAre
<1>8. QED
  BY <1>2, <1>3, <1>4, <1>6, <1>7 DEF NothingNeededGoes

LEMMA NothingUnusedStays ==
  ASSUME IInv
  PROVE  NoUnusedDefinitionStays
BY DEF IInv, AllMarked, NoUnusedDefinitionStays

-----------------------------------------------------------------------------
(* What a block does, statement by statement.                              *)

IsRun(e, open, f) ==
  f = [i \in 0..Len(e) |-> IF i = 0 THEN AtFirst(e) ELSE Execute(e[i], open, f[i - 1])]

\* The run of a block, as far as statement m.
RunsTo(e, open, m, f) ==
    /\ f = [i \in 0..m |-> f[i]]
    /\ f[0] = AtFirst(e)
    /\ \A i \in 1..m : f[i] = Execute(e[i], open, f[i - 1])

LEMMA RunExists ==
  ASSUME NEW e \in Block, NEW open
  PROVE  \E f : IsRun(e, open, f)
<1>1. Len(e) \in Nat
  BY DEF Block
<1> DEFINE P == {m \in Nat : \E f : RunsTo(e, open, m, f)}
<1>2. 0 \in P
  <2> DEFINE g == [i \in 0..0 |-> AtFirst(e)]
  <2>1. RunsTo(e, open, 0, g)
    BY DEF RunsTo
  <2>2. QED
    BY <2>1
<1>3. ASSUME NEW m \in Nat, m \in P PROVE m + 1 \in P
  <2>1. PICK f : RunsTo(e, open, m, f)
    BY <1>3
  <2> DEFINE next == Execute(e[m + 1], open, f[m])
             g == [i \in 0..(m + 1) |-> IF i = m + 1 THEN next ELSE f[i]]
  <2> HIDE DEF next
  <2>2. g = [i \in 0..(m + 1) |-> g[i]]
    OBVIOUS
  <2>3. g[0] = AtFirst(e)
    BY <2>1 DEF RunsTo
  <2>4. ASSUME NEW i \in 1..(m + 1) PROVE g[i] = Execute(e[i], open, g[i - 1])
    <3>1. CASE i = m + 1
      <4>1. g[i] = next /\ g[i - 1] = f[m] /\ i = m + 1
        BY <3>1
      <4>2. QED
        BY <4>1 DEF next
    <3>2. CASE i # m + 1
      <4>1. i \in 1..m /\ g[i] = f[i] /\ g[i - 1] = f[i - 1]
        BY <3>2
      <4> HIDE DEF g
      <4>2. QED
        BY <2>1, <4>1 DEF RunsTo
    <3>3. QED
      BY <3>1, <3>2
  <2> HIDE DEF g
  <2>5. RunsTo(e, open, m + 1, g)
    BY <2>2, <2>3, <2>4 DEF RunsTo
  <2>6. QED
    BY <2>5
<1> HIDE DEF P
<1>4. Nat \subseteq P
  BY <1>2, <1>3, EveryNumber
<1>5. PICK f : RunsTo(e, open, Len(e), f)
  BY <1>1, <1>4 DEF P
<1>6. ASSUME NEW i \in 0..Len(e)
      PROVE  f[i] = IF i = 0 THEN AtFirst(e) ELSE Execute(e[i], open, f[i - 1])
  <2>1. i = 0 \/ i \in 1..Len(e)
    BY <1>1
  <2>2. QED
    BY <1>5, <2>1 DEF RunsTo
<1>7. f = [i \in 0..Len(e) |-> IF i = 0 THEN AtFirst(e) ELSE Execute(e[i], open, f[i - 1])]
  <2>1. f = [i \in 0..Len(e) |-> f[i]]
    BY <1>5 DEF RunsTo
  <2>2. QED
    BY <1>6, <2>1
<1>8. QED
  BY <1>7 DEF IsRun

LEMMA OutcomeIs ==
  ASSUME NEW e \in Block, NEW open
  PROVE  \E f : /\ RunsTo(e, open, Len(e), f)
                /\ Outcome(e, open) = [effects |-> f[Len(e)].effects, value |-> f[Len(e)].value]
<1> DEFINE f == CHOOSE f : IsRun(e, open, f)
<1>1. IsRun(e, open, f)
  BY RunExists
<1>2. Outcome(e, open) = [effects |-> f[Len(e)].effects, value |-> f[Len(e)].value]
  BY DEF Outcome, IsRun
<1> HIDE DEF f
<1>3. Len(e) \in Nat
  BY DEF Block
<1>4. f = [i \in 0..Len(e) |-> IF i = 0 THEN AtFirst(e) ELSE Execute(e[i], open, f[i - 1])]
  BY <1>1 DEF IsRun
<1>5. f[0] = AtFirst(e)
  BY <1>3, <1>4
<1>6. \A i \in 1..Len(e) : f[i] = Execute(e[i], open, f[i - 1])
  <2>1. \A i \in 1..Len(e) : i \in 0..Len(e) /\ i # 0
    BY <1>3
  <2>2. QED
    BY <1>4, <2>1
<1>7. f = [i \in 0..Len(e) |-> f[i]]
  BY <1>4
<1>8. RunsTo(e, open, Len(e), f)
  BY <1>5, <1>6, <1>7 DEF RunsTo
<1>9. QED
  BY <1>2, <1>8

\* The same branches are taken: the same positions, effects and names read.
NamesRead(b) == {r.name : r \in b.reads}
TakenAlike(t, u) ==
    \/ t = {} /\ u = {}
    \/ \E b, c : /\ t = {b} /\ u = {c}
                 /\ b.at = c.at /\ b.effect = c.effect /\ NamesRead(b) = NamesRead(c)

LEMMA ReadsAre ==
  ASSUME NEW b, NEW g
  PROVE  {<<r.name, g[r.name]>> : r \in b.reads} = {<<n, g[n]>> : n \in NamesRead(b)}
BY DEF NamesRead

LEMMA ValuesAgree ==
  ASSUME NEW t, NEW u, TakenAlike(t, u), NEW g, NEW h,
         \A b \in t : \A n \in NamesRead(b) : g[n] = h[n]
  PROVE  /\ ValueOf(t, g) = ValueOf(u, h)
         /\ (\E b \in t : b.effect) <=> (\E c \in u : c.effect)
<1>1. CASE t = {} /\ u = {}
  BY <1>1 DEF ValueOf
<1>2. CASE t # {} \/ u # {}
  <2>1. PICK b, c : /\ t = {b} /\ u = {c}
                    /\ b.at = c.at /\ b.effect = c.effect /\ NamesRead(b) = NamesRead(c)
    BY <1>2 DEF TakenAlike
  <2>2. (CHOOSE x \in t : TRUE) = b /\ (CHOOSE x \in u : TRUE) = c
    BY <2>1
  <2>3. /\ ValueOf(t, g) = [at |-> b.at, from |-> {<<r.name, g[r.name]>> : r \in b.reads}]
        /\ ValueOf(u, h) = [at |-> c.at, from |-> {<<r.name, h[r.name]>> : r \in c.reads}]
    BY <2>1, <2>2 DEF ValueOf
  <2>4. {<<n, g[n]>> : n \in NamesRead(b)} = {<<n, h[n]>> : n \in NamesRead(c)}
    BY <2>1
  <2>5. ValueOf(t, g) = ValueOf(u, h)
    <3>1. {<<r.name, g[r.name]>> : r \in b.reads} = {<<n, g[n]>> : n \in NamesRead(b)}
      BY ReadsAre
    <3>2. {<<r.name, h[r.name]>> : r \in c.reads} = {<<n, h[n]>> : n \in NamesRead(c)}
      BY ReadsAre
    <3>3. {<<r.name, g[r.name]>> : r \in b.reads} = {<<r.name, h[r.name]>> : r \in c.reads}
      BY <2>4, <3>1, <3>2
    <3>4. QED
      BY <2>1, <2>3, <3>3
  <2>6. QED
    BY <2>1, <2>5
<1>3. QED
  BY <1>1, <1>2

\* A branch that is taken is one of the statement's.
LEMMA TakenIsABranch ==
  ASSUME NEW v, NEW open, NEW b \in Taken(v, open)
  PROVE  \E j \in DOMAIN v.branches : b = v.branches[j]
BY DEF Taken

LEMMA TakenIsOfBlock ==
  ASSUME NEW e, NEW i \in DOMAIN e, NEW open, NEW b \in Taken(e[i].value, open)
  PROVE  b \in Elements(e[i].value.branches) /\ NamesRead(b) \subseteq NamesOf(e)
<1>1. b \in Elements(e[i].value.branches)
  BY TakenIsABranch DEF Elements
<1>2. b \in Branches(e)
  BY <1>1 DEF Branches
<1>3. b.reads \subseteq ReadsIn(e)
  BY <1>2 DEF ReadsIn
<1>4. QED
  BY <1>1, <1>3 DEF NamesRead, NamesOf

\* What a block knows between two statements, compared on some names.
Agree(names, g, h) == \A n \in names : g[n] = h[n]

\* Blocks that take the same branches, statement by statement.
Alike(e, f) ==
    /\ Len(f) = Len(e)
    /\ NamesOf(f) \subseteq NamesOf(e)
    /\ \A i \in DOMAIN e :
          /\ f[i].form = e[i].form /\ f[i].name = e[i].name
          /\ \A open \in BOOLEAN : TakenAlike(Taken(f[i].value, open), Taken(e[i].value, open))

\* The values stay those of the names in the block.
LEMMA KnownNames ==
  ASSUME NEW e \in Block, NEW open, NEW f, RunsTo(e, open, Len(e), f), NEW i \in 0..Len(e)
  PROVE  DOMAIN f[i].env = NamesOf(e)
<1>1. Len(e) \in Nat
  BY DEF Block
<1> DEFINE P == {n \in Nat : n <= Len(e) => DOMAIN f[n].env = NamesOf(e)}
<1>2. 0 \in P
  BY DEF RunsTo, AtFirst
<1>3. ASSUME NEW n \in Nat, n \in P PROVE n + 1 \in P
  <2> SUFFICES ASSUME n + 1 <= Len(e) PROVE DOMAIN f[n + 1].env = NamesOf(e)
    OBVIOUS
  <2>1. DOMAIN f[n].env = NamesOf(e) /\ n + 1 \in 1..Len(e) /\ (n + 1) - 1 = n
    BY <1>1, <1>3
  <2>2. f[n + 1] = Execute(e[n + 1], open, f[n])
    BY <2>1 DEF RunsTo
  <2>3. DOMAIN Execute(e[n + 1], open, f[n]).env = DOMAIN f[n].env
    BY DEF Execute
  <2>4. QED
    BY <2>1, <2>2, <2>3
<1> HIDE DEF P
<1>4. i \in P
  <2>1. Nat \subseteq P
    BY <1>2, <1>3, EveryNumber
  <2>2. QED
    BY <1>1, <2>1
<1>5. QED
  BY <1>1, <1>4 DEF P

\* One statement of each of two blocks.
Matched(s, z, open, names, a, b) ==
    /\ s.form = z.form /\ s.name = z.name
    /\ TakenAlike(Taken(s.value, open), Taken(z.value, open))
    /\ Agree(names, a.env, b.env) /\ a.effects = b.effects
    /\ names \cup {s.name} \subseteq DOMAIN a.env
    /\ names \cup {s.name} \subseteq DOMAIN b.env
    /\ \A c \in Taken(s.value, open) : NamesRead(c) \subseteq names

Known(s, names) == IF s.form = "do" THEN names ELSE names \cup {s.name}

LEMMA StatementsAgree ==
  ASSUME NEW s, NEW z, NEW open, NEW names, NEW a, NEW b, Matched(s, z, open, names, a, b)
  PROVE  /\ Agree(Known(s, names), Execute(s, open, a).env, Execute(z, open, b).env)
         /\ Execute(s, open, a).effects = Execute(z, open, b).effects
         /\ Execute(s, open, a).value = Execute(z, open, b).value
<1> DEFINE t == Taken(s.value, open)
           u == Taken(z.value, open)
           v == ValueOf(t, a.env)
           w == ValueOf(u, b.env)
<1>1. v = w /\ ((\E c \in t : c.effect) <=> (\E c \in u : c.effect))
  <2> DEFINE g == a.env
             h == b.env
  <2>1. TakenAlike(t, u) /\ \A c \in t : \A n \in NamesRead(c) : g[n] = h[n]
    BY DEF Agree, Matched
  <2> HIDE DEF t, u, g, h
  <2>2. ValueOf(t, g) = ValueOf(u, h) /\ ((\E c \in t : c.effect) <=> (\E c \in u : c.effect))
    BY <2>1, ValuesAgree
  <2>3. QED
    BY <2>2 DEF g, h
<1>2. /\ Execute(s, open, a) =
           [env |-> IF s.form = "do" THEN a.env ELSE [a.env EXCEPT ![s.name] = v],
            effects |-> IF \E c \in t : c.effect THEN Append(a.effects, v) ELSE a.effects,
            value |-> v]
      /\ Execute(z, open, b) =
           [env |-> IF z.form = "do" THEN b.env ELSE [b.env EXCEPT ![z.name] = w],
            effects |-> IF \E c \in u : c.effect THEN Append(b.effects, w) ELSE b.effects,
            value |-> w]
  BY DEF Execute
<1> HIDE DEF t, u, v, w
<1>3. /\ Execute(s, open, a).value = v /\ Execute(z, open, b).value = w
      /\ Execute(s, open, a).effects =
           IF \E c \in t : c.effect THEN Append(a.effects, v) ELSE a.effects
      /\ Execute(z, open, b).effects =
           IF \E c \in u : c.effect THEN Append(b.effects, w) ELSE b.effects
      /\ Execute(s, open, a).env = IF s.form = "do" THEN a.env ELSE [a.env EXCEPT ![s.name] = v]
      /\ Execute(z, open, b).env = IF z.form = "do" THEN b.env ELSE [b.env EXCEPT ![z.name] = w]
  BY <1>2
<1>4. Agree(Known(s, names), Execute(s, open, a).env, Execute(z, open, b).env)
  BY <1>1, <1>3 DEF Agree, Matched, Known
<1>5. QED
  BY <1>1, <1>3, <1>4 DEF Matched

LEMMA AlikeDoTheSame ==
  ASSUME NEW e \in Block, NEW f \in Block, Alike(e, f)
  PROVE  SameOutcome(f, e)
<1> SUFFICES ASSUME NEW open \in BOOLEAN PROVE Outcome(f, open) = Outcome(e, open)
  BY DEF SameOutcome
<1> DEFINE N == Len(e)
<1>1. N \in Nat /\ Len(f) = N /\ DOMAIN e = 1..N /\ DOMAIN f = 1..N
  BY DEF Block, Alike
<1>2. PICK x : /\ RunsTo(e, open, Len(e), x)
               /\ Outcome(e, open) = [effects |-> x[Len(e)].effects, value |-> x[Len(e)].value]
  BY OutcomeIs
<1>3. PICK y : /\ RunsTo(f, open, Len(f), y)
               /\ Outcome(f, open) = [effects |-> y[Len(f)].effects, value |-> y[Len(f)].value]
  BY OutcomeIs
<1> DEFINE Agreed(n) == /\ Agree(NamesOf(f), y[n].env, x[n].env)
                      /\ y[n].effects = x[n].effects /\ y[n].value = x[n].value
           P == {n \in Nat : n <= N => Agreed(n)}
<1>4. 0 \in P
  <2>1. x[0] = AtFirst(e) /\ y[0] = AtFirst(f)
    BY <1>2, <1>3 DEF RunsTo
  <2>2. NamesOf(f) \subseteq NamesOf(e)
    BY DEF Alike
  <2>3. Agreed(0)
    BY <2>1, <2>2 DEF AtFirst, Agree
  <2> HIDE DEF Agreed
  <2>4. QED
    BY <2>3
<1>5. ASSUME NEW n \in Nat, n \in P PROVE n + 1 \in P
  <2> SUFFICES ASSUME n + 1 <= N PROVE Agreed(n + 1)
    <3> HIDE DEF Agreed
    <3>1. QED
      OBVIOUS
  <2>1. Agreed(n) /\ n \in 0..N /\ n + 1 \in 1..N /\ (n + 1) - 1 = n
    <3> HIDE DEF Agreed
    <3>1. QED
      BY <1>1, <1>5
  <2>2. x[n + 1] = Execute(e[n + 1], open, x[n]) /\ y[n + 1] = Execute(f[n + 1], open, y[n])
    BY <1>1, <1>2, <1>3, <2>1 DEF RunsTo
  <2>3. DOMAIN x[n].env = NamesOf(e) /\ DOMAIN y[n].env = NamesOf(f)
    BY <1>1, <1>2, <1>3, <2>1, KnownNames
  <2>4. /\ f[n + 1].form = e[n + 1].form /\ f[n + 1].name = e[n + 1].name
        /\ TakenAlike(Taken(f[n + 1].value, open), Taken(e[n + 1].value, open))
        /\ NamesOf(f) \subseteq NamesOf(e)
    BY <1>1, <2>1 DEF Alike
  <2>5. \A c \in Taken(f[n + 1].value, open) : NamesRead(c) \subseteq NamesOf(f)
    BY <1>1, <2>1, TakenIsOfBlock
  <2>6. /\ Agree(NamesOf(f), Execute(f[n + 1], open, y[n]).env, Execute(e[n + 1], open, x[n]).env)
        /\ Execute(f[n + 1], open, y[n]).effects = Execute(e[n + 1], open, x[n]).effects
        /\ Execute(f[n + 1], open, y[n]).value = Execute(e[n + 1], open, x[n]).value
    <3>1. f[n + 1].name \in NamesOf(f)
      BY <1>1, <2>1 DEF NamesOf
    <3>2. Matched(f[n + 1], e[n + 1], open, NamesOf(f), y[n], x[n])
      BY <2>1, <2>3, <2>4, <2>5, <3>1 DEF Matched
    <3>3. QED
      BY <3>2, StatementsAgree DEF Agree, Known
  <2>7. QED
    BY <2>2, <2>6
<1> HIDE DEF P
<1>6. N \in P
  <2>1. Nat \subseteq P
    BY <1>4, <1>5, EveryNumber
  <2>2. QED
    BY <1>1, <2>1
<1>7. Agreed(N)
  BY <1>1, <1>6 DEF P
<1>8. QED
  BY <1>1, <1>2, <1>3, <1>7

-----------------------------------------------------------------------------
(* The rewritings that keep what a block does.                             *)

LEMMA SameIsReflexive ==
  ASSUME NEW e
  PROVE  SameOutcome(e, e)
BY DEF SameOutcome

LEMMA SameIsTransitive ==
  ASSUME NEW e, NEW f, NEW g, SameOutcome(g, f), SameOutcome(f, e)
  PROVE  SameOutcome(g, e)
BY DEF SameOutcome

LEMMA NamesOfSmaller ==
  ASSUME NEW e, NEW f,
         \A n \in DOMAIN f : \E i \in DOMAIN e :
            /\ f[n].name = e[i].name
            /\ \A j \in DOMAIN f[n].value.branches : \E l \in DOMAIN e[i].value.branches :
                  NamesRead(f[n].value.branches[j]) = NamesRead(e[i].value.branches[l])
  PROVE  NamesOf(f) \subseteq NamesOf(e)
<1>1. ASSUME NEW i \in DOMAIN e, NEW l \in DOMAIN e[i].value.branches,
             NEW n \in NamesRead(e[i].value.branches[l])
      PROVE  n \in NamesOf(e)
  <2>1. PICK r \in e[i].value.branches[l].reads : n = r.name
    BY DEF NamesRead
  <2>2. e[i].value.branches[l] \in Branches(e)
    BY DEF Branches, Elements
  <2>3. r \in ReadsIn(e)
    BY <2>2 DEF ReadsIn
  <2>4. QED
    BY <2>1, <2>3 DEF NamesOf
<1>2. ASSUME NEW x \in {r.name : r \in ReadsIn(f)} PROVE x \in NamesOf(e)
  <2>1. PICK r \in ReadsIn(f) : x = r.name
    BY <1>2
  <2>2. PICK b \in Branches(f) : r \in b.reads
    BY DEF ReadsIn
  <2>3. PICK n \in DOMAIN f : b \in Elements(f[n].value.branches)
    BY DEF Branches
  <2>4. PICK j \in DOMAIN f[n].value.branches : b = f[n].value.branches[j]
    BY <2>3 DEF Elements
  <2>5. x \in NamesRead(f[n].value.branches[j])
    BY <2>1, <2>2, <2>4 DEF NamesRead
  <2>6. PICK i \in DOMAIN e : \E l \in DOMAIN e[i].value.branches :
           NamesRead(f[n].value.branches[j]) = NamesRead(e[i].value.branches[l])
    OBVIOUS
  <2>7. PICK l \in DOMAIN e[i].value.branches :
           NamesRead(f[n].value.branches[j]) = NamesRead(e[i].value.branches[l])
    BY <2>6
  <2>8. x \in NamesRead(e[i].value.branches[l])
    BY <2>5, <2>7
  <2>9. QED
    BY <1>1, <2>8
<1>3. ASSUME NEW n \in DOMAIN f PROVE f[n].name \in NamesOf(e)
  BY DEF NamesOf
<1>4. QED
  BY <1>2, <1>3 DEF NamesOf

\* A constant condition takes the branch that stays of it.
LEMMA CollapseTakes ==
  ASSUME NEW v \in Expr, NEW open \in BOOLEAN
  PROVE  /\ Taken(Collapse(v), open) = Taken(v, open)
         /\ \A b \in Taken(v, open) : {b} = Taken(v, open)
<1>1. v.branches \in Seq(Branch) /\ v.branches # <<>> /\ v.test \in {"none", "true", "false", "open"}
  BY DEF Expr
<1>2. Len(v.branches) \in Nat /\ Len(v.branches) >= 1 /\ DOMAIN v.branches = 1..Len(v.branches)
  BY <1>1, EmptySeq, LenProperties
<1>3. \A b \in Taken(v, open) : {b} = Taken(v, open)
  <2> DEFINE n == IF v.test \in {"none", "true"} \/ (v.test = "open" /\ open) THEN 1 ELSE 2
  <2>1. Taken(v, open) = {v.branches[j] : j \in DOMAIN v.branches \cap {n}}
    BY DEF Taken
  <2> HIDE DEF n
  <2>2. QED
    BY <2>1
<1>4. ASSUME NEW b PROVE Taken([test |-> "none", branches |-> <<b>>], open) = {b}
  <2> DEFINE w == [test |-> "none", branches |-> <<b>>]
  <2>1. w.test = "none" /\ w.branches = <<b>>
    OBVIOUS
  <2> HIDE DEF w
  <2>2. Taken(w, open) = {<<b>>[j] : j \in DOMAIN <<b>> \cap {1}}
    BY <2>1 DEF Taken
  <2>3. DOMAIN <<b>> = {1} /\ <<b>>[1] = b
    OBVIOUS
  <2>4. Taken(w, open) = {b}
    BY <2>2, <2>3
  <2>5. QED
    BY <2>4 DEF w
<1>5. CASE v.test = "true"
  <2>1. Collapse(v) = [test |-> "none", branches |-> <<v.branches[1]>>]
    BY <1>5 DEF Collapse
  <2>2. Taken(v, open) = {v.branches[1]}
    BY <1>2, <1>5 DEF Taken
  <2>3. QED
    BY <1>3, <1>4, <2>1, <2>2
<1>6. CASE v.test = "false" /\ Len(v.branches) = 2
  <2>1. Collapse(v) = [test |-> "none", branches |-> <<v.branches[2]>>]
    BY <1>6 DEF Collapse
  <2>2. Taken(v, open) = {v.branches[2]}
    <3>1. ~(v.test \in {"none", "true"} \/ (v.test = "open" /\ open)) /\ 2 \in DOMAIN v.branches
      BY <1>2, <1>6
    <3>2. Taken(v, open) = {v.branches[j] : j \in DOMAIN v.branches \cap {2}}
      BY <3>1 DEF Taken
    <3>3. QED
      BY <3>1, <3>2
  <2>3. QED
    BY <1>3, <1>4, <2>1, <2>2
<1>7. CASE ~(v.test = "true") /\ ~(v.test = "false" /\ Len(v.branches) = 2)
  <2>1. Collapse(v) = v
    BY <1>7 DEF Collapse
  <2>2. QED
    BY <1>3, <2>1
<1>8. QED
  BY <1>5, <1>6, <1>7

LEMMA SameTakenAlike ==
  ASSUME NEW t, \A b \in t : {b} = t
  PROVE  TakenAlike(t, t)
BY DEF TakenAlike

LEMMA CollapseKeepsOutcome ==
  ASSUME NEW e \in Block
  PROVE  /\ eliminate_dead_code_expr(e) \in Block
         /\ SameOutcome(eliminate_dead_code_expr(e), e)
<1> DEFINE f == eliminate_dead_code_expr(e)
<1>1. Len(e) \in Nat /\ DOMAIN e = 1..Len(e)
  BY DEF Block
<1>2. ASSUME NEW i \in DOMAIN e
      PROVE  /\ f[i] \in Statement /\ f[i].value = Collapse(e[i].value)
             /\ f[i].form = e[i].form /\ f[i].name = e[i].name
  <2>1. e[i] \in Statement /\ e[i].value \in Expr
    BY BranchesOfBlock
  <2>2. f[i] = [e[i] EXCEPT !.value = Collapse(@)]
    BY DEF eliminate_dead_code_expr
  <2>3. Collapse(e[i].value) \in Expr
    BY <2>1, CollapseShape
  <2> HIDE DEF f
  <2>4. QED
    BY <2>1, <2>2, <2>3 DEF Statement
<1>3. f = [i \in 1..Len(e) |-> f[i]]
  BY <1>1 DEF eliminate_dead_code_expr
<1> HIDE DEF f
<1>4. f \in Block /\ DOMAIN f = DOMAIN e /\ Len(f) = Len(e)
  BY <1>1, <1>2, <1>3, SeqBy DEF Block
<1>5. NamesOf(f) \subseteq NamesOf(e)
  <2>1. ASSUME NEW i \in DOMAIN f, NEW j \in DOMAIN f[i].value.branches
        PROVE  \E l \in DOMAIN e[i].value.branches : f[i].value.branches[j] = e[i].value.branches[l]
    BY <1>2, <1>4, BranchesOfBlock, CollapseShape
  <2>2. \A n \in DOMAIN f : \E i \in DOMAIN e :
            /\ f[n].name = e[i].name
            /\ \A j \in DOMAIN f[n].value.branches : \E l \in DOMAIN e[i].value.branches :
                  NamesRead(f[n].value.branches[j]) = NamesRead(e[i].value.branches[l])
    BY <1>2, <1>4, <2>1
  <2>3. QED
    BY <2>2, NamesOfSmaller
<1>6. ASSUME NEW i \in DOMAIN e, NEW open \in BOOLEAN
      PROVE  TakenAlike(Taken(f[i].value, open), Taken(e[i].value, open))
  <2>1. e[i].value \in Expr
    BY BranchesOfBlock
  <2>2. QED
    BY <1>2, <2>1, CollapseTakes, SameTakenAlike
<1>7. Alike(e, f)
  BY <1>2, <1>4, <1>5, <1>6 DEF Alike
<1>8. SameOutcome(f, e)
  BY <1>4, <1>7, AlikeDoTheSame
<1>9. QED
  BY <1>4, <1>8 DEF f

\* New branches that read the same names, in the same place.
LEMMA RebranchedKeepsOutcome ==
  ASSUME NEW e \in Block, NEW f, NEW B, IsRebranched(e, f, B),
         \A i \in DOMAIN e : \A j \in DOMAIN e[i].value.branches :
            /\ B[i][j].at = e[i].value.branches[j].at
            /\ B[i][j].effect = e[i].value.branches[j].effect
            /\ NamesRead(B[i][j]) = NamesRead(e[i].value.branches[j])
  PROVE  f \in Block /\ SameOutcome(f, e)
<1>1. /\ f \in Block /\ DOMAIN f = DOMAIN e
      /\ \A i \in DOMAIN e :
            /\ f[i].form = e[i].form /\ f[i].name = e[i].name
            /\ f[i].value.test = e[i].value.test
            /\ f[i].value.branches = B[i]
            /\ DOMAIN f[i].value.branches = DOMAIN e[i].value.branches
  BY RebranchedShape
<1>2. Len(f) = Len(e)
  <2>1. Len(e) \in Nat /\ DOMAIN e = 1..Len(e) /\ Len(f) \in Nat /\ DOMAIN f = 1..Len(f)
    BY <1>1 DEF Block
  <2>2. QED
    BY <1>1, <2>1
<1>3. NamesOf(f) \subseteq NamesOf(e)
  BY <1>1, NamesOfSmaller
<1>4. ASSUME NEW i \in DOMAIN e, NEW open \in BOOLEAN
      PROVE  TakenAlike(Taken(f[i].value, open), Taken(e[i].value, open))
  <2> DEFINE v == e[i].value
             w == f[i].value
             n == IF v.test \in {"none", "true"} \/ (v.test = "open" /\ open) THEN 1 ELSE 2
  <2>1. w.test = v.test /\ DOMAIN w.branches = DOMAIN v.branches
    BY <1>1
  <2>2. \A j \in DOMAIN v.branches :
           /\ w.branches[j].at = v.branches[j].at /\ w.branches[j].effect = v.branches[j].effect
           /\ NamesRead(w.branches[j]) = NamesRead(v.branches[j])
    BY <1>1
  <2>3. /\ Taken(v, open) = {v.branches[j] : j \in DOMAIN v.branches \cap {n}}
        /\ Taken(w, open) = {w.branches[j] : j \in DOMAIN w.branches \cap {n}}
    BY <2>1 DEF Taken
  <2> HIDE DEF v, w, n
  <2>4. CASE n \in DOMAIN v.branches
    <3>1. Taken(v, open) = {v.branches[n]} /\ Taken(w, open) = {w.branches[n]}
      BY <2>1, <2>3, <2>4
    <3>2. QED
      BY <2>2, <2>4, <3>1 DEF TakenAlike, v, w
  <2>5. CASE n \notin DOMAIN v.branches
    <3>1. Taken(v, open) = {} /\ Taken(w, open) = {}
      BY <2>1, <2>3, <2>5
    <3>2. QED
      BY <3>1 DEF TakenAlike, v, w
  <2>6. QED
    BY <2>4, <2>5
<1>5. Alike(e, f)
  BY <1>1, <1>2, <1>3, <1>4 DEF Alike
<1>6. QED
  BY <1>1, <1>5, AlikeDoTheSame

-----------------------------------------------------------------------------
(* The locals that are removed are never read.                             *)

LEMMA RankSteps ==
  ASSUME NEW N \in Nat, NEW keep \in SUBSET (1..N)
  PROVE  /\ Rank(keep, 0) = 0 /\ Rank(keep, N) = Cardinality(keep)
         /\ \A i \in 1..N : /\ i \in keep => Rank(keep, i) = Rank(keep, i - 1) + 1
                            /\ i \notin keep => Rank(keep, i) = Rank(keep, i - 1)
<1>1. \A j \in keep : j \in Int /\ 1 <= j /\ j <= N
  BY PositionsAreNumbers
<1>2. Rank(keep, 0) = 0
  <2>1. \A j \in keep : ~(j <= 0)
    BY <1>1
  <2>2. {j \in keep : j <= 0} = {}
    BY <2>1
  <2>3. QED
    BY <2>2, FS_EmptySet DEF Rank
<1>3. Rank(keep, N) = Cardinality(keep)
  <2>1. {j \in keep : j <= N} = keep
    BY <1>1
  <2>2. QED
    BY <2>1 DEF Rank
<1>4. ASSUME NEW i \in 1..N
      PROVE  /\ i \in keep => Rank(keep, i) = Rank(keep, i - 1) + 1
             /\ i \notin keep => Rank(keep, i) = Rank(keep, i - 1)
  <2> DEFINE S == {j \in keep : j <= i - 1}
             T == {j \in keep : j <= i}
  <2>1. Rank(keep, i) = Cardinality(T) /\ Rank(keep, i - 1) = Cardinality(S)
    BY DEF Rank
  <2>2. IsFiniteSet(S)
    BY PositionsAreFinite
  <2>3. i \notin S /\ (i \in keep => T = S \cup {i}) /\ (i \notin keep => T = S)
    <3>1. \A j \in keep : j <= i <=> (j <= i - 1 \/ j = i)
      BY <1>1
    <3>2. ~(i <= i - 1)
      OBVIOUS
    <3>3. QED
      BY <3>1, <3>2
  <2> HIDE DEF S, T
  <2>4. QED
    BY <2>1, <2>2, <2>3, FS_AddElement
<1>5. QED
  BY <1>2, <1>3, <1>4

\* What the walk knows in front of each statement.
KnowsWhatIsRead(e, keep, w) ==
    /\ keep \in SUBSET (1..Len(e))
    /\ w[Len(e) + 1].used = {}
    /\ \A i \in 1..Len(e) :
          /\ i \notin keep => /\ e[i].form = "let" /\ effect_free(e[i].value)
                              /\ e[i].name \notin w[i].used
                              /\ w[i + 1].used = w[i].used
          /\ i \in keep => /\ names_in(e[i].value) \subseteq w[i].used
                           /\ w[i + 1].used \subseteq
                                IF e[i].form = "do" THEN w[i].used ELSE w[i].used \cup {e[i].name}
          /\ e[i].form = "do" => i \in keep

LEMMA BeforeKnows ==
  ASSUME NEW e \in Block, NEW i \in DOMAIN e, NEW after \in Walk, i \notin after.keep
  PROVE  LET now == Before(e, i, after)
         IN  /\ i \notin now.keep => /\ e[i].form = "let" /\ effect_free(e[i].value)
                                     /\ e[i].name \notin now.used /\ now = after
             /\ i \in now.keep => /\ names_in(e[i].value) \subseteq now.used
                                  /\ after.used \subseteq
                                       IF e[i].form = "do" THEN now.used
                                       ELSE now.used \cup {e[i].name}
             /\ e[i].form = "do" => i \in now.keep
<1> DEFINE s == e[i]
           keep == after.keep \cup {i}
           needed == s.name \in after.used \/ ~effect_free(s.value)
           now == Before(e, i, after)
<1>1. s.form \in {"let", "assign", "do"}
  BY BranchesOfBlock DEF Statement
<1>2. now = CASE s.form = "let" /\ ~needed -> after
          [] s.form = "let" /\ needed ->
               [used |-> (after.used \ {s.name}) \cup names_in(s.value), keep |-> keep]
          [] s.form = "assign" ->
               [used |-> after.used \cup {s.name} \cup names_in(s.value), keep |-> keep]
          [] s.form = "do" ->
               [used |-> after.used \cup names_in(s.value), keep |-> keep]
  BY DEF Before
<1> HIDE DEF now
<1>3. CASE s.form = "let" /\ ~needed
  BY <1>2, <1>3 DEF now
<1>4. CASE s.form = "let" /\ needed
  <2>1. now = [used |-> (after.used \ {s.name}) \cup names_in(s.value), keep |-> keep]
    BY <1>2, <1>4
  <2> HIDE DEF s, keep, needed
  <2>2. /\ now.used = (after.used \ {s.name}) \cup names_in(s.value) /\ now.keep = keep
        /\ s.form # "do"
    BY <1>4, <2>1
  <2>3. QED
    BY <2>2 DEF now, s, keep
<1>5. CASE s.form = "assign"
  <2>1. now = [used |-> after.used \cup {s.name} \cup names_in(s.value), keep |-> keep]
    BY <1>2, <1>5
  <2> HIDE DEF s, keep, needed
  <2>2. /\ now.used = after.used \cup {s.name} \cup names_in(s.value) /\ now.keep = keep
        /\ s.form # "do"
    BY <1>5, <2>1
  <2>3. QED
    BY <2>2 DEF now, s, keep
<1>6. CASE s.form = "do"
  <2>1. now = [used |-> after.used \cup names_in(s.value), keep |-> keep]
    BY <1>2, <1>6
  <2> HIDE DEF s, keep, needed
  <2>2. now.used = after.used \cup names_in(s.value) /\ now.keep = keep
    BY <2>1
  <2>3. QED
    BY <1>6, <2>2 DEF now, s, keep
<1>7. QED
  BY <1>1, <1>3, <1>4, <1>5, <1>6

LEMMA WalkKnows ==
  ASSUME NEW e \in Block
  PROVE  \E w : KnowsWhatIsRead(e, WalkFromEnd(e).keep, w)
<1> DEFINE N == Len(e)
           f == CHOOSE f : IsWalk(e, f)
           keep == WalkFromEnd(e).keep
<1>1. N \in Nat /\ DOMAIN e = 1..N
  BY DEF Block
<1>2. IsWalk(e, f)
  BY WalkExists
<1>3. WalkFromEnd(e) = f[1]
  BY DEF WalkFromEnd, IsWalk
<1> HIDE DEF f
<1>4. /\ f[N + 1] = [used |-> {}, keep |-> {}]
      /\ \A i \in 1..N : f[i] = Before(e, i, f[i + 1])
  <2>1. f = [i \in 1..(N + 1) |->
               IF i > N THEN [used |-> {}, keep |-> {}] ELSE Before(e, i, f[i + 1])]
    BY <1>2 DEF IsWalk
  <2>2. N + 1 \in 1..(N + 1) /\ N + 1 > N
    BY <1>1
  <2>3. \A i \in 1..N : i \in 1..(N + 1) /\ ~(i > N)
    BY <1>1
  <2> HIDE DEF N
  <2>4. f[N + 1] = [used |-> {}, keep |-> {}]
    BY <2>1, <2>2
  <2>5. \A i \in 1..N : f[i] = Before(e, i, f[i + 1])
    BY <2>1, <2>3
  <2>6. QED
    BY <2>4, <2>5
<1>5. keep = f[1].keep
  BY <1>3
<1> HIDE DEF N, keep
\* n statements from the end: what is kept is the part of the end.
<1> DEFINE From(n) == /\ f[N + 1 - n] \in Walk
                      /\ f[N + 1 - n].keep \subseteq (N + 1 - n)..N
           P == {n \in Nat : n <= N => From(n)}
<1>6. 0 \in P
  <2>1. N + 1 - 0 = N + 1
    BY <1>1
  <2>2. [used |-> {}, keep |-> {}] \in Walk
    BY DEF Walk
  <2>3. From(0)
    BY <1>4, <2>1, <2>2
  <2> HIDE DEF From
  <2>4. QED
    BY <2>3
<1>7. ASSUME NEW n \in Nat, n \in P PROVE n + 1 \in P
  <2> SUFFICES ASSUME n + 1 <= N PROVE From(n + 1)
    <3> HIDE DEF From
    <3>1. QED
      OBVIOUS
  <2>1. From(n)
    <3> HIDE DEF From
    <3>1. QED
      BY <1>1, <1>7
  <2> DEFINE j == N + 1 - (n + 1)
             after == f[N + 1 - n]
  <2>2. j \in 1..N /\ j + 1 = N + 1 - n /\ j \in DOMAIN e
    BY <1>1
  <2>3. f[j] = Before(e, j, after)
    BY <1>4, <2>2
  <2>4. after \in Walk /\ after.keep \subseteq (j + 1)..N
    BY <2>1, <2>2
  <2> HIDE DEF after, j
  <2>5. f[j] \in Walk /\ (f[j].keep = after.keep \cup {j} \/ f[j] = after)
    BY <2>2, <2>3, <2>4, BeforeType
  <2>6. j..N = {j} \cup (j + 1)..N
    BY <1>1, <2>2
  <2>7. f[j] \in Walk /\ f[j].keep \subseteq j..N
    BY <2>4, <2>5, <2>6
  <2>8. QED
    BY <2>7 DEF j
<1>8. ASSUME NEW i \in 1..(N + 1) PROVE f[i] \in Walk /\ f[i].keep \subseteq i..N
  <2>1. N + 1 - i \in Nat /\ N + 1 - i <= N /\ N + 1 - (N + 1 - i) = i
    BY <1>1
  <2>2. N + 1 - i \in P
    <3> HIDE DEF P
    <3>1. Nat \subseteq P
      BY <1>6, <1>7, EveryNumber
    <3>2. QED
      BY <2>1, <3>1
  <2>3. From(N + 1 - i)
    BY <2>1, <2>2
  <2>4. QED
    BY <2>1, <2>3
<1> HIDE DEF P, From
<1>9. ASSUME NEW i \in 1..N
      PROVE  /\ i \in DOMAIN e /\ f[i + 1] \in Walk /\ i \notin f[i + 1].keep
             /\ f[i] = Before(e, i, f[i + 1])
             /\ f[i].keep = f[i + 1].keep \cup {i} \/ f[i].keep = f[i + 1].keep
  <2>1. i + 1 \in 1..(N + 1) /\ i \notin (i + 1)..N /\ i \in DOMAIN e
    BY <1>1
  <2>2. f[i + 1] \in Walk /\ i \notin f[i + 1].keep
    BY <1>8, <2>1
  <2>3. f[i] = Before(e, i, f[i + 1])
    BY <1>4
  <2>4. QED
    BY <2>1, <2>2, <2>3, BeforeType
\* A statement is kept from its own turn on, or never.
<1>10. ASSUME NEW i \in 1..N PROVE i \in keep <=> i \in f[i].keep
  <2> DEFINE Q == {n \in Nat : n < i => (i \in f[i - n].keep <=> i \in f[i].keep)}
  <2>1. 0 \in Q
    <3>1. i - 0 = i
      BY <1>1
    <3>2. QED
      BY <3>1
  <2>2. ASSUME NEW n \in Nat, n \in Q PROVE n + 1 \in Q
    <3> SUFFICES ASSUME n + 1 < i PROVE i \in f[i - (n + 1)].keep <=> i \in f[i].keep
      OBVIOUS
    <3> DEFINE j == i - (n + 1)
    <3>1. j \in 1..N /\ j + 1 = i - n /\ j # i
      BY <1>1
    <3>2. i \in f[j + 1].keep <=> i \in f[i].keep
      BY <1>1, <2>2, <3>1
    <3> HIDE DEF j
    <3>3. f[j].keep = f[j + 1].keep \cup {j} \/ f[j].keep = f[j + 1].keep
      BY <1>9, <3>1
    <3>4. i \in f[j].keep <=> i \in f[i].keep
      BY <3>1, <3>2, <3>3
    <3>5. QED
      BY <3>4 DEF j
  <2>3. i - 1 \in Nat /\ i - 1 < i /\ i - (i - 1) = 1
    BY <1>1
  <2>4. i - 1 \in Q
    <3> HIDE DEF Q
    <3>1. Nat \subseteq Q
      BY <2>1, <2>2, EveryNumber
    <3>2. QED
      BY <2>3, <3>1
  <2>5. QED
    BY <1>5, <2>3, <2>4
<1>11. ASSUME NEW i \in 1..N
       PROVE  /\ i \notin keep => /\ e[i].form = "let" /\ effect_free(e[i].value)
                                  /\ e[i].name \notin f[i].used
                                  /\ f[i + 1].used = f[i].used
              /\ i \in keep => /\ names_in(e[i].value) \subseteq f[i].used
                               /\ f[i + 1].used \subseteq
                                    IF e[i].form = "do" THEN f[i].used
                                    ELSE f[i].used \cup {e[i].name}
              /\ e[i].form = "do" => i \in keep
  <2> DEFINE after == f[i + 1]
             now == f[i]
  <2>1. i \in DOMAIN e /\ after \in Walk /\ i \notin after.keep /\ now = Before(e, i, after)
    BY <1>9
  <2> HIDE DEF after, now
  <2>2. /\ i \notin now.keep => /\ e[i].form = "let" /\ effect_free(e[i].value)
                                /\ e[i].name \notin now.used /\ now = after
        /\ i \in now.keep => /\ names_in(e[i].value) \subseteq now.used
                             /\ after.used \subseteq
                                  IF e[i].form = "do" THEN now.used
                                  ELSE now.used \cup {e[i].name}
        /\ e[i].form = "do" => i \in now.keep
    BY <2>1, BeforeKnows
  <2>3. i \in keep <=> i \in now.keep
    BY <1>10 DEF now
  <2>4. QED
    BY <2>2, <2>3 DEF after, now
<1>12. keep \in SUBSET (1..N)
  <2>1. f[1].keep \subseteq 1..N
    BY <1>1, <1>8
  <2>2. QED
    BY <1>5, <2>1
<1>13. f[N + 1].used = {}
  BY <1>4
<1>14. KnowsWhatIsRead(e, keep, f)
  BY <1>11, <1>12, <1>13 DEF KnowsWhatIsRead, N
<1>15. QED
  BY <1>14 DEF keep

LEMMA LocalsKeepOutcome ==
  ASSUME NEW e \in Block, e # <<>> => e[Len(e)].form = "do"
  PROVE  remove_unused_locals(e) \in Block /\ SameOutcome(remove_unused_locals(e), e)
<1> DEFINE N == Len(e)
           keep == WalkFromEnd(e).keep
           f == Kept(e, keep)
           R(i) == Rank(keep, i)
<1>1. N \in Nat /\ DOMAIN e = 1..N
  BY DEF Block
<1>2. remove_unused_locals(e) = f
  BY DEF remove_unused_locals
<1>3. PICK w : KnowsWhatIsRead(e, keep, w)
  BY WalkKnows
<1>4. keep \in SUBSET (1..N)
  BY <1>3 DEF KnowsWhatIsRead
<1> HIDE DEF keep
<1>5. f \in Block /\ Len(f) = Cardinality(keep) /\ DOMAIN f = 1..Cardinality(keep)
  <2>1. \A i \in keep : e[i] \in Statement
    BY <1>1, <1>4 DEF Block
  <2>2. QED
    BY <1>1, <1>4, <2>1, KeptType DEF Block
<1>6. \A i \in keep : R(i) \in DOMAIN f /\ f[R(i)] = e[i]
  BY <1>1, <1>4, KeptAt
<1>7. ASSUME NEW n \in DOMAIN f PROVE \E i \in keep : f[n] = e[i]
  <2>1. n \in 1..Cardinality(keep)
    BY <1>5
  <2>2. PICK i \in keep : Rank(keep, i) = n
    BY <1>1, <1>4, <2>1, RankOnto
  <2>3. QED
    BY <1>6, <2>2
<1>8. /\ R(0) = 0 /\ R(N) = Len(f)
      /\ \A i \in 1..N : /\ i \in keep => R(i) = R(i - 1) + 1
                         /\ i \notin keep => R(i) = R(i - 1)
      /\ \A i : R(i) \in 0..Len(f)
  <2>1. \A i : R(i) \in 0..Len(f)
    <3>1. ASSUME NEW i
          PROVE  R(i) \in Nat /\ Cardinality(keep) \in Nat /\ R(i) <= Cardinality(keep)
      BY <1>1, <1>4, PositionsAreFinite
    <3>2. QED
      BY <1>5, <3>1
  <2>2. QED
    BY <1>1, <1>4, <1>5, <2>1, RankSteps
<1> HIDE DEF f, R
<1>9. NamesOf(f) \subseteq NamesOf(e)
  <2>1. \A n \in DOMAIN f : \E i \in DOMAIN e : f[n] = e[i]
    BY <1>1, <1>4, <1>7
  <2>2. QED
    BY <2>1, NamesOfSmaller
<1>10. ASSUME NEW open \in BOOLEAN PROVE Outcome(f, open) = Outcome(e, open)
  <2>1. PICK x : /\ RunsTo(e, open, Len(e), x)
                 /\ Outcome(e, open) = [effects |-> x[Len(e)].effects, value |-> x[Len(e)].value]
    BY OutcomeIs
  <2>2. PICK y : /\ RunsTo(f, open, Len(f), y)
                 /\ Outcome(f, open) = [effects |-> y[Len(f)].effects, value |-> y[Len(f)].value]
    BY <1>5, OutcomeIs
  <2> DEFINE Needed(i) == w[i + 1].used \cap NamesOf(f)
             Agreed(i) == /\ Agree(Needed(i), y[R(i)].env, x[i].env)
                        /\ y[R(i)].effects = x[i].effects
             P == {i \in Nat : i <= N =>
                      /\ Agreed(i)
                      /\ i = 0 \/ i \in keep => y[R(i)].value = x[i].value}
  <2>3. 0 \in P
    <3>1. x[0] = AtFirst(e) /\ y[R(0)] = AtFirst(f)
      BY <1>8, <2>1, <2>2 DEF RunsTo
    <3>2. Agreed(0) /\ y[R(0)].value = x[0].value
      BY <1>9, <3>1 DEF AtFirst, Agree
    <3> HIDE DEF Agreed
    <3>3. QED
      BY <3>2
  <2>4. ASSUME NEW i \in Nat, i \in P PROVE i + 1 \in P
    <3> DEFINE j == i + 1
    <3> SUFFICES ASSUME j <= N
                 PROVE  Agreed(j) /\ (j \in keep => y[R(j)].value = x[j].value)
      <4>1. i + 1 \in Nat /\ i + 1 # 0
        BY <1>1
      <4> HIDE DEF Agreed
      <4>2. QED
        BY <4>1
    <3>1. Agreed(i) /\ i \in 0..N /\ j \in 1..N /\ j - 1 = i
      <4> HIDE DEF Agreed
      <4>1. QED
        BY <1>1, <2>4
    <3>2. /\ Agree(Needed(i), y[R(i)].env, x[i].env) /\ y[R(i)].effects = x[i].effects
          /\ Needed(i) = w[j].used \cap NamesOf(f)
          /\ Needed(j) = w[j + 1].used \cap NamesOf(f)
      BY <3>1
    <3> HIDE DEF j, Needed
    <3>3. x[j] = Execute(e[j], open, x[i])
      BY <2>1, <3>1 DEF RunsTo
    <3>4. DOMAIN x[i].env = NamesOf(e) /\ DOMAIN y[R(i)].env = NamesOf(f)
      <4>1. DOMAIN x[i].env = NamesOf(e)
        BY <2>1, <3>1, KnownNames
      <4>2. DOMAIN y[R(i)].env = NamesOf(f)
        BY <1>5, <1>8, <2>2, KnownNames
      <4>3. QED
        BY <4>1, <4>2
    <3>5. CASE j \notin keep
      <4>1. /\ R(j) = R(i) /\ effect_free(e[j].value) /\ e[j].name \notin w[j].used
            /\ w[j + 1].used = w[j].used
        BY <1>3, <1>8, <3>1, <3>5 DEF KnowsWhatIsRead
      <4>2. \A b \in Taken(e[j].value, open) : ~b.effect
        BY <1>1, <3>1, <4>1, TakenIsOfBlock DEF effect_free
      <4>3. x[j].effects = x[i].effects
        BY <3>3, <4>2 DEF Execute
      <4>4. \A n \in NamesOf(e) : n # e[j].name => x[j].env[n] = x[i].env[n]
        BY <3>3, <3>4 DEF Execute
      <4>5. Agree(Needed(j), y[R(j)].env, x[j].env)
        BY <1>9, <3>2, <4>1, <4>4 DEF Agree
      <4>6. QED
        BY <3>2, <3>5, <4>1, <4>3, <4>5
    <3>6. CASE j \in keep
      <4>1. /\ R(j) = R(i) + 1 /\ R(j) \in DOMAIN f /\ f[R(j)] = e[j]
            /\ names_in(e[j].value) \subseteq w[j].used
            /\ w[j + 1].used \subseteq IF e[j].form = "do" THEN w[j].used
                                       ELSE w[j].used \cup {e[j].name}
        BY <1>3, <1>6, <1>8, <3>1, <3>6 DEF KnowsWhatIsRead
      <4>2. y[R(j)] = Execute(e[j], open, y[R(i)])
        <5>1. R(j) \in 1..Len(f) /\ R(j) - 1 = R(i)
          BY <1>5, <1>8, <4>1
        <5>2. y[R(j)] = Execute(f[R(j)], open, y[R(j) - 1])
          BY <2>2, <5>1 DEF RunsTo
        <5>3. QED
          BY <4>1, <5>1, <5>2
      <4>3. e[j].name \in NamesOf(f) /\ j \in DOMAIN e /\ e[j].value \in Expr
        BY <1>1, <3>1, <4>1, BranchesOfBlock DEF NamesOf
      <4>4. \A c \in Taken(e[j].value, open) : NamesRead(c) \subseteq Needed(i)
        <5>1. ASSUME NEW c \in Taken(e[j].value, open) PROVE NamesRead(c) \subseteq Needed(i)
          <6>1. c \in Elements(e[j].value.branches)
            BY <4>3, TakenIsOfBlock
          <6>2. NamesRead(c) \subseteq names_in(e[j].value)
            BY <6>1 DEF NamesRead, names_in
          <6>3. c \in Taken(f[R(j)].value, open) /\ R(j) \in DOMAIN f
            BY <4>1
          <6>4. NamesRead(c) \subseteq NamesOf(f)
            BY <6>3, TakenIsOfBlock
          <6>5. QED
            BY <3>2, <4>1, <6>2, <6>4
        <5>2. QED
          BY <5>1
      <4>5. TakenAlike(Taken(e[j].value, open), Taken(e[j].value, open))
        BY <4>3, CollapseTakes, SameTakenAlike
      <4>6. Matched(e[j], e[j], open, Needed(i), y[R(i)], x[i])
        BY <1>9, <3>2, <3>4, <4>3, <4>4, <4>5 DEF Matched
      <4>7. /\ Agree(Known(e[j], Needed(i)), y[R(j)].env, x[j].env)
            /\ y[R(j)].effects = x[j].effects /\ y[R(j)].value = x[j].value
        <5> DEFINE z == e[j]
                   a == y[R(i)]
                   b == x[i]
                   names == Needed(i)
        <5>1. Matched(z, z, open, names, a, b)
          BY <4>6
        <5> HIDE DEF z, a, b, names
        <5>2. /\ Agree(Known(z, names), Execute(z, open, a).env, Execute(z, open, b).env)
              /\ Execute(z, open, a).effects = Execute(z, open, b).effects
              /\ Execute(z, open, a).value = Execute(z, open, b).value
          BY <5>1, StatementsAgree
        <5>3. y[R(j)] = Execute(z, open, a) /\ x[j] = Execute(z, open, b)
          BY <3>3, <4>2 DEF z, a, b
        <5>4. QED
          BY <5>2, <5>3 DEF z, names
      <4>8. Needed(j) \subseteq Known(e[j], Needed(i))
        BY <3>2, <4>1 DEF Known
      <4>9. Agree(Needed(j), y[R(j)].env, x[j].env)
        BY <4>7, <4>8 DEF Agree
      <4>10. QED
        BY <4>7, <4>9
    <3>7. QED
      BY <3>5, <3>6
  <2> HIDE DEF P
  <2>5. N \in P
    <3>1. Nat \subseteq P
      BY <2>3, <2>4, EveryNumber
    <3>2. QED
      BY <1>1, <3>1
  <2>6. N = 0 \/ N \in keep
    <3>1. N = 0 \/ (N \in 1..N /\ e # <<>>)
      BY <1>1
    <3>2. QED
      BY <1>3, <3>1 DEF KnowsWhatIsRead
  <2>7. y[R(N)].effects = x[N].effects /\ y[R(N)].value = x[N].value
    BY <1>1, <2>5, <2>6 DEF P
  <2>8. QED
    BY <1>8, <2>1, <2>2, <2>7
<1>11. QED
  BY <1>2, <1>5, <1>10 DEF SameOutcome

\* The rewritings of ids: of bindings, of types and of impls.
LEMMA LetIdsKeepOutcome ==
  ASSUME NEW e \in Block, NEW N \in Nat, NEW keep \in SUBSET (1..N)
  PROVE  remap_let_ids(e, keep) \in Block /\ SameOutcome(remap_let_ids(e, keep), e)
<1> DEFINE f == remap_let_ids(e, keep)
           B == [i \in DOMAIN e |-> [j \in DOMAIN e[i].value.branches |->
                    ReadBranch(e[i].value.branches[j], keep)]]
<1>1. ASSUME NEW b \in Branch
      PROVE  /\ ReadBranch(b, keep) \in Branch
             /\ ReadBranch(b, keep).at = b.at /\ ReadBranch(b, keep).effect = b.effect
             /\ NamesRead(ReadBranch(b, keep)) = NamesRead(b)
  <2> DEFINE c == ReadBranch(b, keep)
             reads == {MovedRead(r, keep) : r \in b.reads}
  <2>1. ASSUME NEW r \in b.reads
        PROVE  MovedRead(r, keep) \in Read /\ MovedRead(r, keep).name = r.name
    <3>1. r \in Read
      BY DEF Branch
    <3>2. Rank(keep, r.id) \in Nat
      BY PositionsAreFinite
    <3>3. QED
      BY <3>1, <3>2 DEF MovedRead, Read
  <2>2. reads \in SUBSET Read
    BY <2>1
  <2>3. {q.name : q \in reads} = {r.name : r \in b.reads}
    BY <2>1
  <2>4. c = [b EXCEPT !.reads = reads]
    BY DEF ReadBranch
  <2> HIDE DEF c, reads
  <2>5. c \in Branch /\ c.at = b.at /\ c.effect = b.effect /\ c.reads = reads
    BY <2>2, <2>4 DEF Branch
  <2>6. QED
    BY <2>3, <2>5 DEF c, NamesRead
<1>2. ASSUME NEW i \in DOMAIN e, NEW j \in DOMAIN e[i].value.branches
      PROVE  /\ B[i][j] \in Branch
             /\ B[i][j].at = e[i].value.branches[j].at
             /\ B[i][j].effect = e[i].value.branches[j].effect
             /\ NamesRead(B[i][j]) = NamesRead(e[i].value.branches[j])
  <2>1. e[i].value.branches[j] \in Branch
    BY BranchesOfBlock
  <2>2. QED
    BY <1>1, <2>1
<1>3. f = [i \in DOMAIN e |-> [e[i] EXCEPT !.value.branches = B[i]]]
  BY DEF remap_let_ids, OnBranches, ReadBranch, MovedRead
<1>4. \A i \in DOMAIN e : B[i] = [j \in DOMAIN e[i].value.branches |-> B[i][j]]
  OBVIOUS
<1> HIDE DEF f, B
<1>5. IsRebranched(e, f, B)
  BY <1>2, <1>3, <1>4 DEF IsRebranched
<1>6. f \in Block /\ SameOutcome(f, e)
  BY <1>2, <1>5, RebranchedKeepsOutcome
<1>7. QED
  BY <1>6 DEF f

\* The positions that a removal keeps.
ArePositions(m, keep, impls) ==
    /\ \A k \in Kinds : keep[k] \in SUBSET (1..Len(m.defs[k]))
    /\ impls \in SUBSET (1..Len(m.impls))

LEMMA TypesStayRefs ==
  ASSUME NEW m \in Module, NEW keep, NEW impls, ArePositions(m, keep, impls)
  PROVE  /\ \A r \in Ref : remap_type(r, keep) \in Ref
         /\ \A refs \in SUBSET Ref : /\ remap_types(refs, keep) \in SUBSET Ref
                                     /\ retain_trait_id(refs, keep) \in SUBSET Ref
         /\ \A b \in Bound : remap_bound(b, keep) \in Bound
         /\ \A bounds \in SUBSET Bound : retain_trait_ref(bounds, keep) \in SUBSET Bound
<1>1. ASSUME NEW r \in Ref PROVE remap_type(r, keep) \in Ref
  <2> DEFINE K == keep[r.kind]
             N == Len(m.defs[r.kind])
  <2>1. r.kind \in Kinds
    BY DEF Ref
  <2>2. N \in Nat /\ K \in SUBSET (1..N)
    BY <2>1, ModuleParts DEF ArePositions
  <2>3. remap_type(r, keep) = IF r.id \in K THEN [r EXCEPT !.id = Rank(K, r.id)] ELSE r
    BY DEF remap_type
  <2> HIDE DEF K, N
  <2>4. Rank(K, r.id) \in Nat
    BY <2>2, PositionsAreFinite
  <2>5. QED
    BY <2>3, <2>4 DEF Ref
<1>2. ASSUME NEW refs \in SUBSET Ref
      PROVE  remap_types(refs, keep) \in SUBSET Ref /\ retain_trait_id(refs, keep) \in SUBSET Ref
  <2>1. \A r \in refs : remap_type(r, keep) \in Ref
    BY <1>1
  <2>2. QED
    BY <2>1 DEF remap_types, retain_trait_id
<1>3. ASSUME NEW b \in Bound PROVE remap_bound(b, keep) \in Bound
  <2>1. b.trait \in Ref /\ b.args \in SUBSET Ref
    BY DEF Bound
  <2>2. remap_type(b.trait, keep) \in Ref /\ remap_types(b.args, keep) \in SUBSET Ref
    BY <1>1, <1>2, <2>1
  <2>3. QED
    BY <2>2 DEF remap_bound, Bound
<1>4. ASSUME NEW bounds \in SUBSET Bound PROVE retain_trait_ref(bounds, keep) \in SUBSET Bound
  BY <1>3 DEF retain_trait_ref
<1>5. QED
  BY <1>1, <1>2, <1>3, <1>4

LEMMA TypesKeepOutcome ==
  ASSUME NEW m \in Module, NEW keep, NEW impls, ArePositions(m, keep, impls), NEW e \in Block
  PROVE  remap_expr(e, keep) \in Block /\ SameOutcome(remap_expr(e, keep), e)
<1> DEFINE f == remap_expr(e, keep)
           B == [i \in DOMAIN e |-> [j \in DOMAIN e[i].value.branches |->
                    TypeBranch(e[i].value.branches[j], keep)]]
<1>1. ASSUME NEW b \in Branch
      PROVE  /\ TypeBranch(b, keep) \in Branch
             /\ TypeBranch(b, keep).at = b.at /\ TypeBranch(b, keep).effect = b.effect
             /\ NamesRead(TypeBranch(b, keep)) = NamesRead(b)
  <2> DEFINE types == remap_types(b.types, keep)
  <2>1. b.types \in SUBSET Ref
    BY DEF Branch
  <2>2. types \in SUBSET Ref
    BY <2>1, TypesStayRefs
  <2>3. TypeBranch(b, keep) = [b EXCEPT !.types = types]
    BY DEF TypeBranch
  <2> HIDE DEF types
  <2>4. QED
    BY <2>2, <2>3 DEF Branch, NamesRead
<1>2. ASSUME NEW i \in DOMAIN e, NEW j \in DOMAIN e[i].value.branches
      PROVE  /\ B[i][j] \in Branch
             /\ B[i][j].at = e[i].value.branches[j].at
             /\ B[i][j].effect = e[i].value.branches[j].effect
             /\ NamesRead(B[i][j]) = NamesRead(e[i].value.branches[j])
  <2>1. e[i].value.branches[j] \in Branch
    BY BranchesOfBlock
  <2>2. QED
    BY <1>1, <2>1
<1>3. f = [i \in DOMAIN e |-> [e[i] EXCEPT !.value.branches = B[i]]]
  BY DEF remap_expr, OnBranches, TypeBranch
<1>4. \A i \in DOMAIN e : B[i] = [j \in DOMAIN e[i].value.branches |-> B[i][j]]
  OBVIOUS
<1> HIDE DEF f, B
<1>5. IsRebranched(e, f, B)
  BY <1>2, <1>3, <1>4 DEF IsRebranched
<1>6. f \in Block /\ SameOutcome(f, e)
  BY <1>2, <1>5, RebranchedKeepsOutcome
<1>7. QED
  BY <1>6 DEF f

LEMMA CallsKeepOutcome ==
  ASSUME NEW e \in Block, NEW N \in Nat, NEW impls \in SUBSET (1..N)
  PROVE  rewrite_static_impl_ids(e, impls) \in Block
         /\ SameOutcome(rewrite_static_impl_ids(e, impls), e)
<1> DEFINE f == rewrite_static_impl_ids(e, impls)
           B == [i \in DOMAIN e |-> [j \in DOMAIN e[i].value.branches |->
                    CallBranch(e[i].value.branches[j], impls)]]
<1>1. ASSUME NEW b \in Branch
      PROVE  /\ CallBranch(b, impls) \in Branch
             /\ CallBranch(b, impls).at = b.at /\ CallBranch(b, impls).effect = b.effect
             /\ NamesRead(CallBranch(b, impls)) = NamesRead(b)
  <2> DEFINE calls == {MovedCall(c, impls) : c \in b.calls}
  <2>1. ASSUME NEW c \in b.calls PROVE MovedCall(c, impls) \in Call
    <3>1. c \in Call
      BY DEF Branch
    <3>2. Rank(impls, c.id) \in Nat
      BY PositionsAreFinite
    <3>3. QED
      BY <3>1, <3>2 DEF MovedCall, Call
  <2>2. calls \in SUBSET Call
    BY <2>1
  <2>3. CallBranch(b, impls) = [b EXCEPT !.calls = calls]
    BY DEF CallBranch
  <2> HIDE DEF calls
  <2>4. QED
    BY <2>2, <2>3 DEF Branch, NamesRead
<1>2. ASSUME NEW i \in DOMAIN e, NEW j \in DOMAIN e[i].value.branches
      PROVE  /\ B[i][j] \in Branch
             /\ B[i][j].at = e[i].value.branches[j].at
             /\ B[i][j].effect = e[i].value.branches[j].effect
             /\ NamesRead(B[i][j]) = NamesRead(e[i].value.branches[j])
  <2>1. e[i].value.branches[j] \in Branch
    BY BranchesOfBlock
  <2>2. QED
    BY <1>1, <2>1
<1>3. f = [i \in DOMAIN e |-> [e[i] EXCEPT !.value.branches = B[i]]]
  BY DEF rewrite_static_impl_ids, OnBranches, CallBranch, MovedCall
<1>4. \A i \in DOMAIN e : B[i] = [j \in DOMAIN e[i].value.branches |-> B[i][j]]
  OBVIOUS
<1> HIDE DEF f, B
<1>5. IsRebranched(e, f, B)
  BY <1>2, <1>3, <1>4 DEF IsRebranched
<1>6. f \in Block /\ SameOutcome(f, e)
  BY <1>2, <1>5, RebranchedKeepsOutcome
<1>7. QED
  BY <1>6 DEF f

LEMMA MovedKeepsOutcome ==
  ASSUME NEW m \in Module, NEW keep, NEW impls, ArePositions(m, keep, impls), NEW e \in Block
  PROVE  LET f == rewrite_static_impl_ids(remap_expr(e, keep), impls)
         IN  f \in Block /\ SameOutcome(f, e)
<1> DEFINE f == remap_expr(e, keep)
<1>1. f \in Block /\ SameOutcome(f, e)
  BY TypesKeepOutcome
<1>2. Len(m.impls) \in Nat /\ impls \in SUBSET (1..Len(m.impls))
  BY ModuleParts DEF ArePositions
<1> HIDE DEF f
<1>3. /\ rewrite_static_impl_ids(f, impls) \in Block
      /\ SameOutcome(rewrite_static_impl_ids(f, impls), f)
  BY <1>1, <1>2, CallsKeepOutcome
<1>4. SameOutcome(rewrite_static_impl_ids(f, impls), e)
  BY <1>1, <1>3, SameIsTransitive
<1>5. QED
  BY <1>3, <1>4 DEF f

-----------------------------------------------------------------------------
(* The inductive invariant: the roots do what those did that they come     *)
(* from, and until the locals are removed each block ends in its result.   *)

Behaves(m, src) ==
    /\ \A i \in DOMAIN m.functions :
          /\ SameOutcome(m.functions[i].body, src.functions[i].body)
          /\ SameOutcome(m.functions[i].default, src.functions[i].default)
    /\ \A i \in DOMAIN m.impls :
          SameOutcome(m.impls[i].body, src.impls[m.impls[i].was].body)
    /\ \A k \in Kinds : \A i \in DOMAIN m.defs[k] :
          SameOutcome(m.defs[k][i].default, src.defs[k][m.defs[k][i].was].default)
    /\ \A i \in DOMAIN m.lets :
          SameOutcome(m.lets[i].value, src.lets[m.lets[i].was].value)

EndsInResult(e) == e # <<>> => e[Len(e)].form = "do"

BInv ==
    /\ source \in Modules
    /\ ir \in Module
    /\ Behaves(ir, source)
    /\ pc \in {"branches", "locals"} => \A e \in RootsOf(ir) : EndsInResult(e)

\* Rewriting that keeps what each root does keeps what the module does.
LEMMA RewrittenBehaves ==
  ASSUME NEW m \in Module, NEW src, Behaves(m, src), NEW lets \in Seq(LetDef),
         \A i \in DOMAIN lets : \E j \in DOMAIN m.lets : lets[i] = m.lets[j],
         NEW n, NEW F, NEW P, Rewritten(m, n, lets, F, P),
         \A e \in RootsOf(m) : /\ F[e] \in Block /\ SameOutcome(F[e], e)
                               /\ P[e] \in Block /\ SameOutcome(P[e], e)
  PROVE  n \in Module /\ Behaves(n, src)
<1>1. /\ n.functions \in Seq(Function)
      /\ \A i \in DOMAIN n.functions :
            /\ SameOutcome(n.functions[i].body, src.functions[i].body)
            /\ SameOutcome(n.functions[i].default, src.functions[i].default)
  <2>1. Len(m.functions) \in Nat /\ DOMAIN m.functions = 1..Len(m.functions)
    BY ModuleParts
  <2>2. ASSUME NEW i \in DOMAIN m.functions
        PROVE  /\ n.functions[i] \in Function
               /\ SameOutcome(n.functions[i].body, src.functions[i].body)
               /\ SameOutcome(n.functions[i].default, src.functions[i].default)
    <3> DEFINE f == m.functions[i]
               g == n.functions[i]
    <3>1. f \in Function /\ f.body \in RootsOf(m) /\ f.default \in RootsOf(m)
      BY ModuleParts, RootsAre
    <3>2. g = OnFunction(f, F, P)
      BY DEF Rewritten
    <3>3. /\ SameOutcome(f.body, src.functions[i].body)
          /\ SameOutcome(f.default, src.functions[i].default)
      BY DEF Behaves
    <3> HIDE DEF f, g
    <3>4. /\ F[f.body] \in Block /\ SameOutcome(F[f.body], f.body)
          /\ P[f.default] \in Block /\ SameOutcome(P[f.default], f.default)
      BY <3>1
    <3>5. g \in Function /\ g.body = F[f.body] /\ g.default = P[f.default]
      BY <3>1, <3>2, <3>4 DEF OnFunction, Function
    <3>6. /\ SameOutcome(g.body, src.functions[i].body)
          /\ SameOutcome(g.default, src.functions[i].default)
      BY <3>3, <3>4, <3>5, SameIsTransitive
    <3>7. QED
      BY <3>5, <3>6 DEF g
  <2>3. n.functions = [i \in 1..Len(m.functions) |-> n.functions[i]]
    BY <2>1 DEF Rewritten
  <2>4. n.functions \in Seq(Function) /\ DOMAIN n.functions = DOMAIN m.functions
    BY <2>1, <2>2, <2>3, SeqBy
  <2>5. QED
    BY <2>2, <2>4
<1>2. /\ n.impls \in Seq(Impl)
      /\ \A i \in DOMAIN n.impls :
            SameOutcome(n.impls[i].body, src.impls[n.impls[i].was].body)
  <2>1. Len(m.impls) \in Nat /\ DOMAIN m.impls = 1..Len(m.impls)
    BY ModuleParts
  <2>2. ASSUME NEW i \in DOMAIN m.impls
        PROVE  /\ n.impls[i] \in Impl
               /\ SameOutcome(n.impls[i].body, src.impls[n.impls[i].was].body)
    <3> DEFINE f == m.impls[i]
               g == n.impls[i]
    <3>1. f \in Impl /\ f.body \in RootsOf(m) /\ f.default \in RootsOf(m)
      BY ModuleParts, RootsAre
    <3>2. g = OnFunction(f, F, P)
      BY DEF Rewritten
    <3>3. SameOutcome(f.body, src.impls[f.was].body)
      BY DEF Behaves
    <3> HIDE DEF f, g
    <3>4. /\ F[f.body] \in Block /\ SameOutcome(F[f.body], f.body)
          /\ P[f.default] \in Block
      BY <3>1
    <3>5. g \in Impl /\ g.body = F[f.body] /\ g.was = f.was
      BY <3>1, <3>2, <3>4 DEF OnFunction, Impl
    <3>6. SameOutcome(g.body, src.impls[g.was].body)
      BY <3>3, <3>4, <3>5, SameIsTransitive
    <3>7. QED
      BY <3>5, <3>6 DEF g
  <2>3. n.impls = [i \in 1..Len(m.impls) |-> n.impls[i]]
    BY <2>1 DEF Rewritten
  <2>4. n.impls \in Seq(Impl) /\ DOMAIN n.impls = DOMAIN m.impls
    BY <2>1, <2>2, <2>3, SeqBy
  <2>5. QED
    BY <2>2, <2>4
<1>3. ASSUME NEW k \in Kinds
      PROVE  /\ n.defs[k] \in Seq(Def)
             /\ \A i \in DOMAIN n.defs[k] :
                   SameOutcome(n.defs[k][i].default, src.defs[k][n.defs[k][i].was].default)
  <2>1. Len(m.defs[k]) \in Nat /\ DOMAIN m.defs[k] = 1..Len(m.defs[k])
    BY ModuleParts
  <2>2. ASSUME NEW i \in DOMAIN m.defs[k]
        PROVE  /\ n.defs[k][i] \in Def
               /\ SameOutcome(n.defs[k][i].default, src.defs[k][n.defs[k][i].was].default)
    <3> DEFINE d == m.defs[k][i]
               g == n.defs[k][i]
    <3>1. d \in Def /\ d.default \in RootsOf(m)
      BY ModuleParts, RootsAre
    <3>2. g = OnDef(d, F)
      <4>1. n.defs[k] = [x \in DOMAIN m.defs[k] |-> OnDef(m.defs[k][x], F)]
        BY DEF Rewritten
      <4>2. QED
        BY <4>1
    <3>3. SameOutcome(d.default, src.defs[k][d.was].default)
      BY DEF Behaves
    <3> HIDE DEF d, g
    <3>4. F[d.default] \in Block /\ SameOutcome(F[d.default], d.default)
      BY <3>1
    <3>5. g \in Def /\ g.default = F[d.default] /\ g.was = d.was
      BY <3>1, <3>2, <3>4 DEF OnDef, Def
    <3>6. SameOutcome(g.default, src.defs[k][g.was].default)
      BY <3>3, <3>4, <3>5, SameIsTransitive
    <3>7. QED
      BY <3>5, <3>6 DEF g
  <2>3. n.defs[k] = [i \in 1..Len(m.defs[k]) |-> n.defs[k][i]]
    BY <2>1 DEF Rewritten
  <2> DEFINE a == m.defs[k]
             b == n.defs[k]
  <2> HIDE DEF a, b
  <2>4. /\ Len(a) \in Nat /\ DOMAIN a = 1..Len(a) /\ b = [i \in 1..Len(a) |-> b[i]]
        /\ \A i \in 1..Len(a) : b[i] \in Def
    BY <2>1, <2>2, <2>3 DEF a, b
  <2>5. b \in Seq(Def) /\ DOMAIN b = 1..Len(a)
    BY <2>4, SeqBy
  <2>6. QED
    BY <2>1, <2>2, <2>5 DEF a, b
<1>4. /\ n.lets \in Seq(LetDef)
      /\ \A i \in DOMAIN n.lets :
            SameOutcome(n.lets[i].value, src.lets[n.lets[i].was].value)
  <2>1. Len(lets) \in Nat /\ DOMAIN lets = 1..Len(lets)
    OBVIOUS
  <2>2. ASSUME NEW i \in DOMAIN lets
        PROVE  /\ n.lets[i] \in LetDef
               /\ SameOutcome(n.lets[i].value, src.lets[n.lets[i].was].value)
    <3>1. PICK j \in DOMAIN m.lets : lets[i] = m.lets[j]
      OBVIOUS
    <3> DEFINE l == m.lets[j]
               g == n.lets[i]
    <3>2. l \in LetDef /\ l.value \in RootsOf(m)
      BY ModuleParts, RootsAre
    <3>3. g = OnLet(l, F)
      BY <3>1 DEF Rewritten
    <3>4. SameOutcome(l.value, src.lets[l.was].value)
      BY DEF Behaves
    <3> HIDE DEF l, g
    <3>5. F[l.value] \in Block /\ SameOutcome(F[l.value], l.value)
      BY <3>2
    <3>6. g \in LetDef /\ g.value = F[l.value] /\ g.was = l.was
      BY <3>2, <3>3, <3>5 DEF OnLet, LetDef
    <3>7. SameOutcome(g.value, src.lets[g.was].value)
      BY <3>4, <3>5, <3>6, SameIsTransitive
    <3>8. QED
      BY <3>6, <3>7 DEF g
  <2>3. n.lets = [i \in 1..Len(lets) |-> n.lets[i]]
    BY <2>1 DEF Rewritten
  <2>4. n.lets \in Seq(LetDef) /\ DOMAIN n.lets = DOMAIN lets
    BY <2>1, <2>2, <2>3, SeqBy
  <2>5. QED
    BY <2>2, <2>4
<1>5. n \in Module
  <2>1. /\ n = [defs |-> n.defs, impls |-> n.impls, functions |-> n.functions, lets |-> n.lets]
        /\ n.defs = [k \in Kinds |-> n.defs[k]]
    BY DEF Rewritten
  <2>2. n.defs \in [Kinds -> Seq(Def)]
    BY <1>3, <2>1
  <2>3. QED
    BY <1>1, <1>2, <1>4, <2>1, <2>2 DEF Module
<1>6. QED
  BY <1>1, <1>2, <1>3, <1>4, <1>5 DEF Behaves

\* The roots of a module are blocks.
LEMMA RootsAreBlocks ==
  ASSUME NEW m \in Module, NEW e \in RootsOf(m)
  PROVE  e \in Block
<1>1. CASE \E f \in Elements(m.functions) \cup Elements(m.impls) : e = f.body \/ e = f.default
  BY <1>1, ModuleBlocks DEF Elements
<1>2. CASE \E k \in Kinds : \E d \in Elements(m.defs[k]) : e = d.default
  BY <1>2, ModuleBlocks DEF Elements
<1>3. CASE \E l \in Elements(m.lets) : e = l.value
  BY <1>3, ModuleBlocks DEF Elements
<1>4. QED
  BY <1>1, <1>2, <1>3, RootsComeFrom

\* The roots of a module rewritten in place are its roots rewritten.
LEMMA RootsRewritten ==
  ASSUME NEW m \in Module, NEW n, NEW F, NEW P, Rewritten(m, n, m.lets, F, P),
         NEW g \in RootsOf(n)
  PROVE  \E e \in RootsOf(m) : g = F[e] \/ g = P[e]
<1>1. CASE \E f \in Elements(n.functions) \cup Elements(n.impls) : g = f.body \/ g = f.default
  <2>1. PICK f \in Elements(n.functions) \cup Elements(n.impls) : g = f.body \/ g = f.default
    BY <1>1
  <2>2. \E h : /\ h.body \in RootsOf(m) /\ h.default \in RootsOf(m)
               /\ f.body = F[h.body] /\ f.default = P[h.default]
    <3>1. CASE f \in Elements(n.functions)
      <4>1. PICK i \in DOMAIN m.functions : f = OnFunction(m.functions[i], F, P)
        BY <3>1 DEF Elements, Rewritten
      <4>2. m.functions[i] \in Function
        BY ModuleParts
      <4>3. f.body = F[m.functions[i].body] /\ f.default = P[m.functions[i].default]
        BY <4>1, <4>2 DEF OnFunction, Function
      <4>4. QED
        BY <4>3, RootsAre
    <3>2. CASE f \in Elements(n.impls)
      <4>1. PICK i \in DOMAIN m.impls : f = OnFunction(m.impls[i], F, P)
        BY <3>2 DEF Elements, Rewritten
      <4>2. m.impls[i] \in Impl
        BY ModuleParts
      <4>3. f.body = F[m.impls[i].body] /\ f.default = P[m.impls[i].default]
        BY <4>1, <4>2 DEF OnFunction, Impl
      <4>4. QED
        BY <4>3, RootsAre
    <3>3. QED
      BY <3>1, <3>2
  <2>3. QED
    BY <2>1, <2>2
<1>2. CASE \E k \in Kinds : \E d \in Elements(n.defs[k]) : g = d.default
  <2>1. PICK k \in Kinds : \E d \in Elements(n.defs[k]) : g = d.default
    BY <1>2
  <2> DEFINE a == n.defs[k]
             b == m.defs[k]
  <2>2. a = [i \in DOMAIN b |-> OnDef(b[i], F)]
    BY DEF Rewritten
  <2>3. \A i \in DOMAIN b : b[i] \in Def /\ b[i].default \in RootsOf(m)
    BY ModuleParts, RootsAre
  <2>4. \E d \in Elements(a) : g = d.default
    BY <2>1
  <2> HIDE DEF a, b
  <2>5. PICK i \in DOMAIN b : g = OnDef(b[i], F).default
    BY <2>2, <2>4 DEF Elements
  <2>6. g = F[b[i].default]
    BY <2>3, <2>5 DEF OnDef, Def
  <2>7. QED
    BY <2>3, <2>6
<1>3. CASE \E l \in Elements(n.lets) : g = l.value
  <2>1. PICK i \in DOMAIN m.lets : g = OnLet(m.lets[i], F).value
    BY <1>3 DEF Elements, Rewritten
  <2>2. m.lets[i] \in LetDef /\ m.lets[i].value \in RootsOf(m)
    BY ModuleParts, RootsAre
  <2>3. g = F[m.lets[i].value]
    BY <2>1, <2>2 DEF OnLet, LetDef
  <2>4. QED
    BY <2>2, <2>3
<1>4. QED
  BY <1>1, <1>2, <1>3, RootsComeFrom

LEMMA CollapseKeepsBInv ==
  ASSUME BInv, CollapseBranches
  PROVE  BInv'
<1> DEFINE F == [e \in Block |-> eliminate_dead_code_expr(e)]
           P == [e \in Block |-> e]
<1>1. /\ pc = "branches" /\ pc' = "locals" /\ source' = source
      /\ ir' = OnRoots(ir, eliminate_dead_code_expr, Same,
                       eliminate_dead_code_expr, eliminate_dead_code_expr)
  BY DEF CollapseBranches
<1>2. ir \in Module /\ Behaves(ir, source)
  BY DEF BInv
<1>3. ASSUME NEW e \in RootsOf(ir)
      PROVE  /\ F[e] \in Block /\ SameOutcome(F[e], e)
             /\ P[e] \in Block /\ SameOutcome(P[e], e)
             /\ EndsInResult(F[e]) /\ EndsInResult(P[e])
  <2>1. e \in Block
    BY <1>2, RootsAreBlocks
  <2>2. F[e] = eliminate_dead_code_expr(e) /\ P[e] = e
    BY <2>1
  <2>3. EndsInResult(e)
    BY <1>1 DEF BInv
  <2> HIDE DEF F, P
  <2>4. EndsInResult(eliminate_dead_code_expr(e))
    <3> DEFINE g == eliminate_dead_code_expr(e)
    <3>1. DOMAIN e = 1..Len(e) /\ Len(e) \in Nat /\ \A i \in DOMAIN e : e[i] \in Statement
      BY <2>1 DEF Block
    <3>2. /\ DOMAIN g = DOMAIN e
          /\ \A i \in DOMAIN e : g[i].form = e[i].form
      BY <3>1 DEF eliminate_dead_code_expr, Statement
    <3>3. g \in Block
      BY <2>1, CollapseKeepsOutcome
    <3> HIDE DEF g
    <3>4. Len(g) = Len(e) /\ (g # <<>> => e # <<>>)
      BY <3>1, <3>2, <3>3 DEF Block
    <3>5. ASSUME g # <<>> PROVE g[Len(g)].form = "do"
      <4>1. e # <<>> /\ Len(e) \in DOMAIN e
        BY <2>1, <3>1, <3>4, <3>5 DEF Block
      <4>2. QED
        BY <2>3, <3>2, <3>4, <4>1 DEF EndsInResult
    <3>6. QED
      BY <3>5 DEF EndsInResult, g
  <2>5. QED
    BY <2>1, <2>2, <2>3, <2>4, CollapseKeepsOutcome, SameIsReflexive
<1>4. Rewritten(ir, ir', ir.lets, F, P)
  BY <1>1, <1>2, CollapseRewrites
<1>5. ir.lets \in Seq(LetDef) /\ \A i \in DOMAIN ir.lets : \E j \in DOMAIN ir.lets : ir.lets[i] = ir.lets[j]
  BY <1>2, ModuleParts
<1> HIDE DEF F, P
<1>6. ir' \in Module /\ Behaves(ir', source)
  BY <1>2, <1>3, <1>4, <1>5, RewrittenBehaves
<1>7. \A e \in RootsOf(ir') : EndsInResult(e)
  BY <1>2, <1>3, <1>4, RootsRewritten
<1>8. QED
  BY <1>1, <1>6, <1>7 DEF BInv

LEMMA LocalsKeepsBInv ==
  ASSUME BInv, RemoveLocals
  PROVE  BInv'
<1> DEFINE F == [e \in Block |-> remove_unused_locals(e)]
           P == [e \in Block |-> remove_unused_locals(e)]
<1>1. /\ pc = "locals" /\ pc' \in {"lets", "done"} /\ source' = source
      /\ ir' = OnRoots(ir, remove_unused_locals, remove_unused_locals,
                       remove_unused_locals, remove_unused_locals)
  BY DEF RemoveLocals
<1>2. ir \in Module /\ Behaves(ir, source)
  BY DEF BInv
<1>3. ASSUME NEW e \in RootsOf(ir)
      PROVE  /\ F[e] \in Block /\ SameOutcome(F[e], e)
             /\ P[e] \in Block /\ SameOutcome(P[e], e)
  <2>1. e \in Block
    BY <1>2, RootsAreBlocks
  <2>2. EndsInResult(e)
    BY <1>1 DEF BInv
  <2>3. remove_unused_locals(e) \in Block /\ SameOutcome(remove_unused_locals(e), e)
    BY <2>1, <2>2, LocalsKeepOutcome DEF EndsInResult
  <2>4. QED
    BY <2>1, <2>3
<1>4. Rewritten(ir, ir', ir.lets, F, P)
  BY <1>1, <1>2, LocalsRewrite
<1>5. ir.lets \in Seq(LetDef) /\ \A i \in DOMAIN ir.lets : \E j \in DOMAIN ir.lets : ir.lets[i] = ir.lets[j]
  BY <1>2, ModuleParts
<1> HIDE DEF F, P
<1>6. ir' \in Module /\ Behaves(ir', source)
  BY <1>2, <1>3, <1>4, <1>5, RewrittenBehaves
<1>7. pc' \notin {"branches", "locals"}
  BY <1>1
<1>8. QED
  BY <1>1, <1>6, <1>7 DEF BInv

LEMMA LetsKeepsBInv ==
  ASSUME BInv, RemoveUnreadLets
  PROVE  BInv'
<1> DEFINE m == ir
           n == ir'
           keep == DOMAIN m.lets \ UnreadLets(m)
           lets == Kept(m.lets, keep)
           m1 == [m EXCEPT !.lets = lets]
           F == [e \in Block |-> remap_let_ids(e, keep)]
           N == Len(m.lets)
<1>1. pc = "lets" /\ pc' = pc /\ source' = source /\ n = RemoveLets(m, UnreadLets(m))
  BY DEF RemoveUnreadLets
<1>2. m \in Module /\ Behaves(m, source)
  BY DEF BInv
<1>3. DOMAIN m.lets = 1..N /\ N \in Nat /\ keep \in SUBSET (1..N)
  BY <1>2, ModuleParts
<1>4. m1 = [defs |-> m.defs, impls |-> m.impls, functions |-> m.functions, lets |-> lets]
  <2>1. m = [defs |-> m.defs, impls |-> m.impls, functions |-> m.functions, lets |-> m.lets]
    BY <1>2 DEF Module
  <2> HIDE DEF lets, m
  <2>2. QED
    BY <2>1
<1>5. /\ lets \in Seq(LetDef)
      /\ \A a \in DOMAIN lets : \E j \in DOMAIN m.lets : lets[a] = m.lets[j]
  <2>1. \A i \in keep : m.lets[i] \in LetDef
    BY <1>2, ModuleParts
  <2> HIDE DEF N
  <2>2. keep \subseteq DOMAIN m.lets
    OBVIOUS
  <2> HIDE DEF keep
  <2>3. lets \in Seq(LetDef) /\ DOMAIN lets = 1..Cardinality(keep)
    BY <1>3, <2>1, KeptType
  <2>4. ASSUME NEW a \in DOMAIN lets PROVE \E j \in keep : lets[a] = m.lets[j]
    <3> DEFINE s == m.lets
    <3>1. a \in 1..Cardinality(keep) /\ lets = Kept(s, keep)
      BY <2>3
    <3> HIDE DEF lets, s
    <3>2. PICK i \in keep : Rank(keep, i) = a
      BY <1>3, <3>1, RankOnto
    <3>3. lets[a] = s[i]
      BY <1>3, <3>1, <3>2, KeptAt
    <3>4. QED
      BY <3>3 DEF s
  <2>5. QED
    BY <2>2, <2>3, <2>4
<1>6. Rewritten(m, n, lets, F, F)
  <2> HIDE DEF lets, m, n
  <2>1. n = remap_roots(m1, keep)
    BY <1>1 DEF RemoveLets, lets
  <2>2. m1 \in Module
    BY <1>2, <1>4, <1>5 DEF Module
  <2>3. F = [e \in Block |-> remap_let_ids(e, keep)]
    OBVIOUS
  <2>4. /\ m1.defs = m.defs /\ m1.impls = m.impls /\ m1.functions = m.functions
        /\ m1.lets = lets
    BY <1>4
  <2> HIDE DEF keep, m1, F
  <2>5. Rewritten(m1, n, m1.lets, F, F)
    BY <2>1, <2>2, <2>3, MovedReads
  <2>6. QED
    BY <2>4, <2>5 DEF Rewritten
<1>7. ASSUME NEW e \in RootsOf(m) PROVE F[e] \in Block /\ SameOutcome(F[e], e)
  <2>1. e \in Block
    BY <1>2, RootsAreBlocks
  <2>2. F[e] = remap_let_ids(e, keep)
    BY <2>1
  <2> HIDE DEF keep, N, F
  <2>3. QED
    BY <1>3, <2>1, <2>2, LetIdsKeepOutcome
<1> HIDE DEF F, m, n, keep, lets, N, m1
<1>8. n \in Module /\ Behaves(n, source)
  BY <1>2, <1>5, <1>6, <1>7, RewrittenBehaves
<1>9. pc' \notin {"branches", "locals"}
  BY <1>1
<1>10. QED
  BY <1>1, <1>8, <1>9 DEF BInv, m, n

\* A removal: what an item becomes is an item of its kind, and does what it did.
LEMMA FunctionMovesWell ==
  ASSUME NEW m \in Module, NEW keep, NEW impls, ArePositions(m, keep, impls),
         NEW f \in Function, NEW g, g = MovedFunction(f, keep, impls)
  PROVE  g \in Function /\ SameOutcome(g.body, f.body) /\ SameOutcome(g.default, f.default)
<1> DEFINE body == rewrite_static_impl_ids(remap_expr(f.body, keep), impls)
           default == remap_expr(f.default, keep)
           sig == remap_types(f.sig, keep)
<1>1. f.sig \in SUBSET Ref /\ f.bounds \in SUBSET Bound /\ f.body \in Block /\ f.default \in Block
  BY DEF Function
<1>2. body \in Block /\ SameOutcome(body, f.body)
  BY <1>1, MovedKeepsOutcome
<1>3. default \in Block /\ SameOutcome(default, f.default)
  BY <1>1, TypesKeepOutcome
<1>4. sig \in SUBSET Ref
  BY <1>1, TypesStayRefs
<1>5. g = [sig |-> sig, bounds |-> f.bounds, body |-> body, default |-> default]
  BY MovedFunctionShape
<1> HIDE DEF body, default, sig
<1>6. QED
  BY <1>1, <1>2, <1>3, <1>4, <1>5 DEF Function

LEMMA ImplMovesWell ==
  ASSUME NEW m \in Module, NEW keep, NEW impls, ArePositions(m, keep, impls),
         NEW f \in Impl, NEW g, g = MovedImpl(f, keep, impls)
  PROVE  g \in Impl /\ SameOutcome(g.body, f.body) /\ g.was = f.was
<1> DEFINE body == rewrite_static_impl_ids(remap_expr(f.body, keep), impls)
           default == remap_expr(f.default, keep)
           sig == remap_types(f.sig, keep)
           target == remap_types(f.target, keep)
           trait == {IF b.trait.id \in keep["trait"] THEN remap_bound(b, keep) ELSE b :
                       b \in f.trait}
           r == remap_function(f, keep)
           q == remap_impl(f, keep)
<1>1. /\ f.sig \in SUBSET Ref /\ f.bounds \in SUBSET Bound /\ f.body \in Block
      /\ f.default \in Block /\ f.target \in SUBSET Ref /\ f.trait \in SUBSET Bound
      /\ f.was \in Nat
  BY DEF Impl
<1>2. body \in Block /\ SameOutcome(body, f.body)
  BY <1>1, MovedKeepsOutcome
<1>3. default \in Block
  BY <1>1, TypesKeepOutcome
<1>4. sig \in SUBSET Ref /\ target \in SUBSET Ref
  BY <1>1, TypesStayRefs
<1>5. trait \in SUBSET Bound
  <2>1. ASSUME NEW b \in f.trait
        PROVE  (IF b.trait.id \in keep["trait"] THEN remap_bound(b, keep) ELSE b) \in Bound
    <3>1. b \in Bound /\ remap_bound(b, keep) \in Bound
      BY <1>1, TypesStayRefs
    <3>2. QED
      BY <3>1
  <2>2. QED
    BY <2>1
<1>6. r = [was |-> f.was, target |-> f.target, trait |-> f.trait, sig |-> sig,
           bounds |-> f.bounds, body |-> remap_expr(f.body, keep), default |-> default]
  <2>1. f = [was |-> f.was, target |-> f.target, trait |-> f.trait, sig |-> f.sig,
             bounds |-> f.bounds, body |-> f.body, default |-> f.default]
    BY DEF Impl
  <2>2. r = [f EXCEPT !.sig = remap_types(f.sig, keep), !.body = remap_expr(f.body, keep),
                      !.default = remap_expr(f.default, keep)]
    BY DEF remap_function
  <2> HIDE DEF r
  <2>3. QED
    BY <2>1, <2>2
<1> HIDE DEF r
<1>7. q = [r EXCEPT !.target = remap_types(r.target, keep),
                    !.trait = {IF b.trait.id \in keep["trait"] THEN remap_bound(b, keep) ELSE b :
                                 b \in r.trait}]
  BY DEF remap_impl, r
<1> HIDE DEF q
<1>8. r.target = f.target /\ r.trait = f.trait
  BY <1>6
<1>9. q = [r EXCEPT !.target = target, !.trait = trait]
  BY <1>7, <1>8
<1> HIDE DEF target, trait, sig, default
<1>10. g = [q EXCEPT !.body = rewrite_static_impl_ids(q.body, impls), !.default = q.default]
  BY DEF MovedImpl, CallsOfFunction, Same, q
<1>11. g = [was |-> f.was, target |-> target, trait |-> trait, sig |-> sig,
            bounds |-> f.bounds, body |-> body, default |-> default]
  BY <1>6, <1>9, <1>10
<1> HIDE DEF body
<1>12. QED
  BY <1>1, <1>2, <1>3, <1>4, <1>5, <1>11 DEF Impl

LEMMA DefMovesWell ==
  ASSUME NEW m \in Module, NEW keep, NEW impls, ArePositions(m, keep, impls),
         NEW d \in Def, NEW g, g = MovedDef(d, keep, impls)
  PROVE  g \in Def /\ SameOutcome(g.default, d.default) /\ g.was = d.was
<1> DEFINE default == rewrite_static_impl_ids(remap_expr(d.default, keep), impls)
           types == remap_types(d.types, keep)
           bounds == retain_trait_ref(d.bounds, keep)
           composed == retain_trait_id(d.composed, keep)
<1>1. /\ d.types \in SUBSET Ref /\ d.bounds \in SUBSET Bound /\ d.composed \in SUBSET Ref
      /\ d.default \in Block /\ d.was \in Nat /\ d.pub \in BOOLEAN
  BY DEF Def
<1>2. default \in Block /\ SameOutcome(default, d.default)
  BY <1>1, MovedKeepsOutcome
<1>3. types \in SUBSET Ref /\ bounds \in SUBSET Bound /\ composed \in SUBSET Ref
  BY <1>1, TypesStayRefs
<1>4. g = [was |-> d.was, pub |-> d.pub, types |-> types, bounds |-> bounds,
           composed |-> composed, default |-> default]
  BY MovedDefShape
<1> HIDE DEF default, types, bounds, composed
<1>5. QED
  BY <1>1, <1>2, <1>3, <1>4 DEF Def

LEMMA LetMovesWell ==
  ASSUME NEW m \in Module, NEW keep, NEW impls, ArePositions(m, keep, impls),
         NEW l \in LetDef, NEW g, g = MovedLet(l, keep, impls)
  PROVE  g \in LetDef /\ SameOutcome(g.value, l.value) /\ g.was = l.was
<1> DEFINE value == rewrite_static_impl_ids(remap_expr(l.value, keep), impls)
           type == remap_types(l.type, keep)
<1>1. /\ l.type \in SUBSET Ref /\ l.value \in Block /\ l.was \in Nat /\ l.pub \in BOOLEAN
      /\ l.name \in STRING
  BY DEF LetDef
<1>2. value \in Block /\ SameOutcome(value, l.value)
  BY <1>1, MovedKeepsOutcome
<1>3. type \in SUBSET Ref
  BY <1>1, TypesStayRefs
<1>4. g = [was |-> l.was, pub |-> l.pub, name |-> l.name, type |-> type, value |-> value]
  BY MovedLetShape
<1> HIDE DEF value, type
<1>5. QED
  BY <1>1, <1>2, <1>3, <1>4 DEF LetDef

LEMMA MovedBehaves ==
  ASSUME NEW m \in Module, NEW src, Behaves(m, src),
         NEW n, NEW keep, NEW impls, IsMoved(m, n, keep, impls), ArePositions(m, keep, impls)
  PROVE  n \in Module /\ Behaves(n, src)
<1>1. /\ n.functions \in Seq(Function)
      /\ \A i \in DOMAIN n.functions :
            /\ SameOutcome(n.functions[i].body, src.functions[i].body)
            /\ SameOutcome(n.functions[i].default, src.functions[i].default)
  <2>1. Len(m.functions) \in Nat /\ DOMAIN m.functions = 1..Len(m.functions)
    BY ModuleParts
  <2>2. ASSUME NEW i \in DOMAIN m.functions
        PROVE  /\ n.functions[i] \in Function
               /\ SameOutcome(n.functions[i].body, src.functions[i].body)
               /\ SameOutcome(n.functions[i].default, src.functions[i].default)
    <3> DEFINE f == m.functions[i]
               g == n.functions[i]
    <3>1. f \in Function
      BY ModuleParts
    <3>2. g = MovedFunction(f, keep, impls)
      BY DEF IsMoved
    <3>3. /\ SameOutcome(f.body, src.functions[i].body)
          /\ SameOutcome(f.default, src.functions[i].default)
      BY DEF Behaves
    <3> HIDE DEF f, g
    <3>4. g \in Function /\ SameOutcome(g.body, f.body) /\ SameOutcome(g.default, f.default)
      BY <3>1, <3>2, FunctionMovesWell
    <3>5. /\ SameOutcome(g.body, src.functions[i].body)
          /\ SameOutcome(g.default, src.functions[i].default)
      BY <3>3, <3>4, SameIsTransitive
    <3>6. QED
      BY <3>4, <3>5 DEF g
  <2>3. n.functions = [i \in 1..Len(m.functions) |-> n.functions[i]]
    BY <2>1 DEF IsMoved
  <2>4. n.functions \in Seq(Function) /\ DOMAIN n.functions = DOMAIN m.functions
    BY <2>1, <2>2, <2>3, SeqBy
  <2>5. QED
    BY <2>2, <2>4
<1>2. /\ n.impls \in Seq(Impl)
      /\ \A i \in DOMAIN n.impls :
            SameOutcome(n.impls[i].body, src.impls[n.impls[i].was].body)
  <2> DEFINE N == Len(m.impls)
             c == Kept(m.impls, impls)
  <2>1. N \in Nat /\ impls \in SUBSET (1..N) /\ DOMAIN m.impls = 1..N
    BY ModuleParts DEF ArePositions
  <2>2. n.impls = [i \in DOMAIN c |-> MovedImpl(c[i], keep, impls)]
    BY DEF IsMoved
  <2>3. \A i \in impls : m.impls[i] \in Impl
    BY <2>1, ModuleParts
  <2> HIDE DEF N
  <2>4. DOMAIN c = 1..Cardinality(impls) /\ Cardinality(impls) \in Nat
    BY <2>1, PositionsAreFinite DEF Kept
  <2>5. ASSUME NEW a \in DOMAIN c
        PROVE  /\ n.impls[a] \in Impl
               /\ SameOutcome(n.impls[a].body, src.impls[n.impls[a].was].body)
    <3> DEFINE s == m.impls
    <3>1. a \in 1..Cardinality(impls) /\ c = Kept(s, impls)
      BY <2>4
    <3> HIDE DEF c, s
    <3>2. PICK i \in impls : c[a] = s[i]
      <4>1. PICK i \in impls : Rank(impls, i) = a
        BY <2>1, <3>1, RankOnto
      <4>2. c[a] = s[i]
        BY <2>1, <3>1, <4>1, KeptAt
      <4>3. QED
        BY <4>2
    <3> DEFINE f == s[i]
               g == n.impls[a]
    <3>3. f \in Impl /\ SameOutcome(f.body, src.impls[f.was].body)
      BY <2>1, <2>3 DEF Behaves, s
    <3>4. g = MovedImpl(f, keep, impls)
      BY <2>2, <3>2
    <3> HIDE DEF f, g
    <3>5. g \in Impl /\ SameOutcome(g.body, f.body) /\ g.was = f.was
      BY <3>3, <3>4, ImplMovesWell
    <3>6. SameOutcome(g.body, src.impls[g.was].body)
      BY <3>3, <3>5, SameIsTransitive
    <3>7. QED
      BY <3>5, <3>6 DEF g
  <2> HIDE DEF c
  <2> DEFINE C == Cardinality(impls)
             b == n.impls
  <2>6. b = [i \in 1..C |-> b[i]] /\ C \in Nat /\ \A i \in 1..C : b[i] \in Impl
    BY <2>2, <2>4, <2>5
  <2>7. \A i \in 1..C : SameOutcome(b[i].body, src.impls[b[i].was].body)
    BY <2>4, <2>5
  <2> HIDE DEF C, b
  <2>8. b \in Seq(Impl) /\ DOMAIN b = 1..C
    BY <2>6, SeqBy
  <2>9. QED
    BY <2>7, <2>8 DEF b
<1>3. ASSUME NEW k \in Kinds
      PROVE  /\ n.defs[k] \in Seq(Def)
             /\ \A i \in DOMAIN n.defs[k] :
                   SameOutcome(n.defs[k][i].default, src.defs[k][n.defs[k][i].was].default)
  <2> DEFINE s == m.defs[k]
             b == n.defs[k]
             K == keep[k]
             N == Len(s)
             c == Kept(s, K)
             z == src.defs[k]
             C == Cardinality(K)
  <2>1. N \in Nat /\ K \in SUBSET (1..N) /\ DOMAIN s = 1..N
    BY ModuleParts DEF ArePositions
  <2>2. b = [i \in DOMAIN c |-> MovedDef(c[i], keep, impls)]
    BY DEF IsMoved
  <2>3. \A i \in DOMAIN s : s[i] \in Def /\ SameOutcome(s[i].default, z[s[i].was].default)
    BY ModuleParts DEF Behaves
  <2> HIDE DEF N, K, s, b, z
  <2>4. DOMAIN c = 1..C /\ C \in Nat
    BY <2>1, PositionsAreFinite DEF Kept
  <2>5. ASSUME NEW a \in 1..C
        PROVE  b[a] \in Def /\ SameOutcome(b[a].default, z[b[a].was].default)
    <3>1. c = Kept(s, K)
      OBVIOUS
    <3> HIDE DEF c
    <3>2. PICK i \in K : c[a] = s[i]
      <4>1. PICK i \in K : Rank(K, i) = a
        BY <2>1, RankOnto
      <4>2. c[a] = s[i]
        BY <2>1, <3>1, <4>1, KeptAt
      <4>3. QED
        BY <4>2
    <3> DEFINE f == s[i]
               g == b[a]
    <3>3. f \in Def /\ SameOutcome(f.default, z[f.was].default)
      BY <2>1, <2>3
    <3>4. g = MovedDef(f, keep, impls)
      BY <2>2, <2>4, <3>2
    <3> HIDE DEF f, g
    <3>5. g \in Def /\ SameOutcome(g.default, f.default) /\ g.was = f.was
      BY <3>3, <3>4, DefMovesWell
    <3>6. SameOutcome(g.default, z[g.was].default)
      BY <3>3, <3>5, SameIsTransitive
    <3>7. QED
      BY <3>5, <3>6 DEF g
  <2> HIDE DEF c, C
  <2>6. b = [i \in 1..C |-> b[i]] /\ \A i \in 1..C : b[i] \in Def
    BY <2>2, <2>4, <2>5
  <2>7. b \in Seq(Def) /\ DOMAIN b = 1..C
    BY <2>4, <2>6, SeqBy
  <2>8. QED
    BY <2>5, <2>7 DEF b, z
<1>4. /\ n.lets \in Seq(LetDef)
      /\ \A i \in DOMAIN n.lets :
            SameOutcome(n.lets[i].value, src.lets[n.lets[i].was].value)
  <2>1. Len(m.lets) \in Nat /\ DOMAIN m.lets = 1..Len(m.lets)
    BY ModuleParts
  <2>2. ASSUME NEW i \in DOMAIN m.lets
        PROVE  /\ n.lets[i] \in LetDef
               /\ SameOutcome(n.lets[i].value, src.lets[n.lets[i].was].value)
    <3> DEFINE l == m.lets[i]
               g == n.lets[i]
    <3>1. l \in LetDef /\ SameOutcome(l.value, src.lets[l.was].value)
      BY ModuleParts DEF Behaves
    <3>2. g = MovedLet(l, keep, impls)
      BY DEF IsMoved
    <3> HIDE DEF l, g
    <3>3. g \in LetDef /\ SameOutcome(g.value, l.value) /\ g.was = l.was
      BY <3>1, <3>2, LetMovesWell
    <3>4. SameOutcome(g.value, src.lets[g.was].value)
      BY <3>1, <3>3, SameIsTransitive
    <3>5. QED
      BY <3>3, <3>4 DEF g
  <2>3. n.lets = [i \in 1..Len(m.lets) |-> n.lets[i]]
    BY <2>1 DEF IsMoved
  <2>4. n.lets \in Seq(LetDef) /\ DOMAIN n.lets = DOMAIN m.lets
    BY <2>1, <2>2, <2>3, SeqBy
  <2>5. QED
    BY <2>2, <2>4
<1>5. n \in Module
  <2>1. /\ n = [defs |-> n.defs, impls |-> n.impls, functions |-> n.functions, lets |-> n.lets]
        /\ n.defs = [k \in Kinds |-> n.defs[k]]
    BY DEF IsMoved
  <2>2. n.defs \in [Kinds -> Seq(Def)]
    BY <1>3, <2>1
  <2>3. QED
    BY <1>1, <1>2, <1>4, <2>1, <2>2 DEF Module
<1>6. QED
  BY <1>1, <1>2, <1>3, <1>4, <1>5 DEF Behaves

LEMMA RemoveKeepsBInv ==
  ASSUME BInv, Remove
  PROVE  BInv'
<1> DEFINE keep == build_remap
           impls == build_impl_index_remap(keep)
           left == [ir EXCEPT !.defs = [k \in Kinds |-> Kept(ir.defs[k], keep[k])],
                              !.impls = Kept(ir.impls, impls)]
           x == remap_module(left, keep)
<1>1. /\ pc = "remove" /\ pc' \in {"done", "mark"} /\ source' = source
      /\ ir' = remove_unused_definitions
  BY DEF Remove
<1>2. ir \in Module /\ Behaves(ir, source)
  BY DEF BInv
<1>3. ArePositions(ir, keep, impls)
  <2>1. ASSUME NEW k \in Kinds PROVE keep[k] \in SUBSET (1..Len(ir.defs[k]))
    BY <1>2, ModuleParts DEF build_remap
  <2> HIDE DEF keep
  <2>2. impls \in SUBSET (1..Len(ir.impls))
    BY <1>2, ModuleParts DEF build_impl_index_remap
  <2>3. QED
    BY <2>1, <2>2 DEF ArePositions
<1>4. ir' = apply_impl_index_remap(x, impls)
  BY <1>1 DEF remove_unused_definitions
<1> HIDE DEF keep, impls
<1>5. IsMoved(ir, ir', keep, impls)
  BY <1>2, <1>4, RemovalMoves
<1>6. ir' \in Module /\ Behaves(ir', source)
  BY <1>2, <1>3, <1>5, MovedBehaves
<1>7. pc' \notin {"branches", "locals"}
  BY <1>1
<1>8. QED
  BY <1>1, <1>6, <1>7 DEF BInv

LEMMA InitBInv ==
  ASSUME Init
  PROVE  BInv
<1>1. source \in Modules /\ ir = source /\ source \in Module
  BY ModulesAreTyped DEF Init
<1>2. /\ \A k \in Kinds : \A i \in DOMAIN source.defs[k] : source.defs[k][i].was = i
      /\ \A i \in DOMAIN source.impls : source.impls[i].was = i
      /\ \A i \in DOMAIN source.lets : source.lets[i].was = i
  BY <1>1, ModulesAreResolved DEF IsResolved, Numbered
<1>3. Behaves(ir, source)
  BY <1>1, <1>2, SameIsReflexive DEF Behaves
<1>4. \A e \in RootsOf(ir) : EndsInResult(e)
  BY <1>1, BlocksHaveResults DEF EndsInResult
<1>5. QED
  BY <1>1, <1>3, <1>4 DEF BInv

LEMMA NextKeepsBInv ==
  ASSUME BInv, [Next]_vars
  PROVE  BInv'
<1>1. CASE CollapseBranches
  BY <1>1, CollapseKeepsBInv
<1>2. CASE RemoveLocals
  BY <1>2, LocalsKeepsBInv
<1>3. CASE RemoveUnreadLets
  BY <1>3, LetsKeepsBInv
<1>4. CASE NoUnreadLets
  BY <1>4 DEF NoUnreadLets, BInv
<1>5. CASE Analyze
  BY <1>5 DEF Analyze, BInv
<1>6. CASE Remove
  BY <1>6, RemoveKeepsBInv
<1>7. CASE UNCHANGED vars
  BY <1>7 DEF vars, BInv
<1>8. QED
  BY <1>1, <1>2, <1>3, <1>4, <1>5, <1>6, <1>7 DEF Next

LEMMA BehavesIsSame ==
  ASSUME BInv
  PROVE  SameBehaviour
<1>1. "struct" \in Kinds
  BY DEF Kinds
<1>2. QED
  BY <1>1 DEF BInv, Behaves, SameBehaviour, Elements

-----------------------------------------------------------------------------
(* The theorems. *)

\* Through every part and every round of the pass, each id in the module names
\* what it named at the start, each part is where its order in the source puts
\* it, and a definition, an impl or a signature that stays has lost no bound,
\* trait or type: the marking reaches all that the rewriting has to find, and
\* no id is read against positions that a removal has moved.
THEOREM RewritingKeepsEveryMeaning ==
  ASSUME NoDefaultCalls
  PROVE  Spec => []IdsKeepTheirMeaning
<1>1. IInv => IdsKeepTheirMeaning
  BY StateIsTyped, IdsStayRight, ContentsStay DEF IdsKeepTheirMeaning
<1>2. QED
  BY <1>1, Invariance, PTL

\* The pass removes no public definition or binding, no function, no binding
\* whose value is certain to have an effect, and an impl exactly when a type
\* that it is for goes.
THEOREM RemovalKeepsWhatIsNeeded ==
  ASSUME NoDefaultCalls
  PROVE  Spec => []NothingNeededGoes
<1>1. IInv => NothingNeededGoes
  BY NeededStays
<1>2. QED
  BY <1>1, Invariance, PTL

\* The bound on the rounds is never what ends them: when the pass is done, one
\* more analysis would mark every definition that is left.
THEOREM RoundsLeaveNothingUnused ==
  ASSUME NoDefaultCalls
  PROVE  Spec => []NoUnusedDefinitionStays
<1>1. IInv => NoUnusedDefinitionStays
  BY NothingUnusedStays
<1>2. QED
  BY <1>1, Invariance, PTL

\* Whatever the open conditions give, every body, parameter default, field
\* default and binding value that stays has the effects it had in the source,
\* in the same order and of the same values, and the same result: collapsing a
\* branch takes the one that ran, a local that goes is read by nothing behind
\* it, and rewriting ids changes none of this (passes.md, "Dead code").
THEOREM BlocksDoWhatTheyDid == Spec => []SameBehaviour
<1>1. Init => BInv
  BY InitBInv
<1>2. BInv /\ [Next]_vars => BInv'
  BY NextKeepsBInv
<1>3. BInv => SameBehaviour
  BY BehavesIsSame
<1>4. QED
  BY <1>1, <1>2, <1>3, PTL DEF Spec

=============================================================================
