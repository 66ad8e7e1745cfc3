------------------------- MODULE LinkingTypesProofs -------------------------
(***************************************************************************)
(* Proofs about the ids and names that the linker rewrites: the id of a    *)
(* type means the struct that the source names, in the module that wrote   *)
(* it and in every copy (TypesKeepTheirMeaning); a finished module holds   *)
(* its items under hidden names only, and at no step do two items of a     *)
(* module share a name that should tell them apart (NamesStayUnique).      *)
(*                                                                         *)
(* The first invariant says what a finished module promises to its         *)
(* importers: every id is right, every name is hidden, and its own structs *)
(* are all there (Complete); and what the module under construction has of *)
(* that before its own definitions lower (Ready).  The second one says     *)
(* that each item, and the labels of each function, are those of a         *)
(* definition of the source (Lawful): so two items of one name would be    *)
(* two definitions that one path means.                                    *)
(***************************************************************************)
EXTENDS LinkingProofs

-----------------------------------------------------------------------------
(* Types through linking: the invariant. *)

\* Each origin of a struct is a definition of its module.
Defs(ir) ==
    \A i \in DOMAIN ir.origins["struct"] :
        LET o == ir.origins["struct"][i] IN o.ordinal \in DOMAIN OwnOf(o.module, "struct")

\* Id `id` means what the source names in that type of item i.
TypeIsRight(ir, k, i, j, id) ==
    LET d == DefAt(ir, k, i)
    IN  /\ id \in DOMAIN ir.items["struct"]
        /\ OriginAt(ir, "struct", id)
             \in TypesMeant(OriginOf(ir, k, i).module, ModOf(d), d.types[j])

TypesRight(ir) ==
    \A k \in Kinds : \A i \in OwnIndices(ir, k) : \A j \in DOMAIN ir.items[k][i].types :
        TypeIsRight(ir, k, i, j, ir.items[k][i].types[j])

\* The name of an item outside the module that defines or imports it.
HiddenName(ir, k, i) ==
    IF IsOwn(k, i)
    THEN [home |-> OriginOf(ir, k, i).module, mark |-> 0, path |-> DefAt(ir, k, i).path]
    ELSE Prelude[k][i].name

\* Those are the names of the items that have an origin.
Hide(ir, k, names) ==
    \A i \in 1..(PreludeCounts[k] + Len(ir.origins[k])) : names[i] = HiddenName(ir, k, i)

HasHiddenNames(ir) == \A k \in Named : Hide(ir, k, Names(ir, k))

\* All structs of module m are there.
Holds(ir, m) ==
    \A j \in DOMAIN OwnOf(m, "struct") :
        \E i \in DOMAIN ir.origins["struct"] :
            ir.origins["struct"][i] = [module |-> m, ordinal |-> j]

Good(ir) == Defs(ir) /\ TypesRight(ir)

\* The names while a module lowers: those of its imports are short.
HasShortNames(w) ==
    \A k \in Named : \A i \in DOMAIN w.ir.items[k] :
        w.ir.items[k][i].name
          = IF IsImported(w.mod, w.hidden[k][i]) THEN Plain(w.hidden[k][i].path)
            ELSE w.hidden[k][i]

\* What a finished module m promises to those that import it.
Complete(ir, m) == Good(ir) /\ HasHiddenNames(ir) /\ Holds(ir, m)
AllComplete == \A m \in DOMAIN linked : Complete(linked[m], m)

MInv ==
    /\ IsAnalyzed
    /\ AllComplete
    /\ phase \in {"link", "lower"} =>
          /\ Good(cur.ir)
          /\ \A m \in DepsOf(cur.mod) \ cur.deps : Holds(cur.ir, m)
    /\ phase = "link" => HasHiddenNames(cur.ir)
    /\ phase = "lower" => /\ cur.deps = {}
                          /\ \A k \in Named : Hide(cur.ir, k, cur.hidden[k])
                          /\ HasShortNames(cur)
    /\ phase = "finish" => Complete(FinishModule(cur), cur.mod)
    /\ phase \in {"rename", "resolve", "done"} => TypesRight(cur.ir)

-----------------------------------------------------------------------------
(* Types through link_into. *)

\* An id of `d`, translated, has its origin; and so has an id of `t`.
LEMMA MovedIdMeansTheSame ==
  ASSUME NEW t \in Ir, NEW d \in Ir, Once(t), Once(d), NEW k \in Kinds,
         NEW i \in DOMAIN d.items[k]
  PROVE  /\ IdTable(t, d, k)[i] \in DOMAIN LinkInto(t, d).items[k]
         /\ OriginAt(LinkInto(t, d), k, IdTable(t, d, k)[i]) = OriginAt(d, k, i)
         /\ IsOwn(k, IdTable(t, d, k)[i]) = IsOwn(k, i)
<1> DEFINE r == LinkInto(t, d)
           P == PreludeCounts[k]
           a == Len(t.origins[k])
           b == Cardinality(Fresh(t, d, k))
           n == IdTable(t, d, k)[i]
<1>1. /\ P \in Nat /\ a \in Nat /\ b \in Nat /\ Len(t.items[k]) = P + a
      /\ DOMAIN t.origins[k] = 1..a
      /\ Len(r.items[k]) = Len(t.items[k]) + b
      /\ \A j \in 1..a : r.origins[k][j] = t.origins[k][j]
  <2>1. P \in Nat /\ a \in Nat /\ DOMAIN t.origins[k] = 1..a /\ Len(t.items[k]) = P + a
    BY PreludeFacts, IrFacts DEF Once
  <2>2. /\ b \in Nat /\ Len(r.items[k]) = Len(t.items[k]) + b
        /\ \A j \in 1..a : r.origins[k][j] = t.origins[k][j]
    BY LinkIntoShape
  <2>3. QED
    BY <2>1, <2>2
<1>2. DOMAIN r.items[k] = 1..(P + a + b)
  <2>1. r \in Ir
    BY LinkIntoType
  <2>2. DOMAIN r.items[k] = 1..Len(r.items[k])
    BY <2>1, IrFacts
  <2> HIDE DEF r, P, a, b
  <2>3. QED
    BY <1>1, <2>2
<1>3. i \in Nat /\ i >= 1
  BY IrFacts
<1>4. CASE ~ IsOwn(k, i)
  <2>1. n = i
    BY <1>4 DEF IdTable
  <2>2. i <= P
    BY <1>1, <1>3, <1>4 DEF IsOwn
  <2>3. i \in 1..(P + a + b)
    BY <1>1, <1>3, <2>2
  <2> HIDE DEF n, r
  <2>4. QED
    BY <1>2, <1>4, <2>1, <2>3 DEF OriginAt, n, r
<1>5. CASE IsOwn(k, i) /\ IsFresh(t, d, k, i)
  <2> DEFINE keep == Fresh(t, d, k)
             m == Rank(keep, i)
  <2>1. i \in keep
    BY <1>5 DEF Fresh
  <2>2. n = P + a + m
    BY <1>1, <1>5 DEF IdTable
  <2>3. keep \in SUBSET (1..Len(d.items[k])) /\ Len(d.items[k]) \in Nat
    BY FreshFacts
  <2>4. m \in 1..b
    BY <2>1, <2>3, RankType
  <2>5. PICK j \in keep : Rank(keep, j) = m /\ r.origins[k][a + m] = OriginOf(d, k, j)
    BY <2>4, LinkIntoShape
  <2>6. j = i
    <3> HIDE DEF keep
    <3>1. Rank(keep, j) = Rank(keep, i)
      BY <2>5
    <3>2. QED
      BY <2>1, <2>3, <3>1, RankInjective
  <2>7. r.origins[k][a + m] = OriginOf(d, k, i)
    BY <2>5, <2>6
  <2> HIDE DEF n, r, keep, m, P, a, b
  <2>8. n \in 1..(P + a + b) /\ n > P /\ n - P = a + m
    <3>1. m \in Int /\ 1 <= m /\ m <= b
      BY <1>1, <2>4
    <3>2. QED
      BY <1>1, <2>2, <3>1
  <2>9. IsOwn(k, n)
    BY <2>8 DEF IsOwn, P
  <2>10. OriginOf(r, k, n) = OriginOf(d, k, i)
    BY <2>7, <2>8 DEF OriginOf, P
  <2>11. QED
    BY <1>2, <1>5, <2>8, <2>9, <2>10 DEF OriginAt, n, r
<1>6. CASE IsOwn(k, i) /\ ~ IsFresh(t, d, k, i)
  <2>1. PICK j \in DOMAIN t.origins[k] : /\ n = P + j
                                         /\ t.origins[k][j] = OriginOf(d, k, i)
    BY <1>6, FoundFacts
  <2>2. r.origins[k][j] = OriginOf(d, k, i)
    BY <1>1, <2>1
  <2> HIDE DEF n, r, a, b
  <2>3. n \in 1..(P + a + b) /\ n > P /\ n - P = j
    BY <1>1, <2>1
  <2>4. IsOwn(k, n)
    BY <2>3 DEF IsOwn
  <2>5. OriginOf(r, k, n) = OriginOf(d, k, i)
    BY <2>2, <2>3 DEF OriginOf
  <2>6. QED
    BY <1>2, <1>6, <2>3, <2>4, <2>5 DEF OriginAt, n, r
<1>7. QED
  BY <1>4, <1>5, <1>6

LEMMA KeptIdMeansTheSame ==
  ASSUME NEW t \in Ir, NEW d \in Ir, Once(t), Once(d), NEW k \in Kinds,
         NEW i \in DOMAIN t.items[k]
  PROVE  /\ i \in DOMAIN LinkInto(t, d).items[k]
         /\ OriginAt(LinkInto(t, d), k, i) = OriginAt(t, k, i)
         /\ LinkInto(t, d).items[k][i] = t.items[k][i]
<1> DEFINE r == LinkInto(t, d)
           P == PreludeCounts[k]
           a == Len(t.origins[k])
           b == Cardinality(Fresh(t, d, k))
<1>1. /\ P \in Nat /\ a \in Nat /\ b \in Nat /\ Len(t.items[k]) = P + a
      /\ DOMAIN t.items[k] = 1..Len(t.items[k])
      /\ Len(r.items[k]) = Len(t.items[k]) + b
      /\ \A j \in 1..a : r.origins[k][j] = t.origins[k][j]
      /\ \A j \in 1..Len(t.items[k]) : r.items[k][j] = t.items[k][j]
  <2>1. /\ P \in Nat /\ a \in Nat /\ Len(t.items[k]) = P + a
        /\ DOMAIN t.items[k] = 1..Len(t.items[k])
    BY PreludeFacts, IrFacts DEF Once
  <2>2. /\ b \in Nat /\ Len(r.items[k]) = Len(t.items[k]) + b
        /\ \A j \in 1..a : r.origins[k][j] = t.origins[k][j]
        /\ \A j \in 1..Len(t.items[k]) : r.items[k][j] = t.items[k][j]
    BY LinkIntoShape
  <2>3. QED
    BY <2>1, <2>2
<1>2. DOMAIN r.items[k] = 1..Len(r.items[k])
  <2>1. r \in Ir
    BY LinkIntoType
  <2> HIDE DEF r
  <2>2. QED
    BY <2>1, IrFacts
<1>3. i \in 1..(P + a)
  BY <1>1
<1> HIDE DEF r, a, b
<1>4. i \in DOMAIN r.items[k] /\ r.items[k][i] = t.items[k][i]
  <2>1. i \in 1..Len(t.items[k]) /\ i \in 1..Len(r.items[k])
    BY <1>1, <1>3
  <2>2. QED
    BY <1>1, <1>2, <2>1
<1>5. CASE ~ IsOwn(k, i)
  BY <1>4, <1>5 DEF OriginAt, r
<1>6. CASE IsOwn(k, i)
  <2>1. i - P \in 1..a
    BY <1>1, <1>3, <1>6 DEF IsOwn
  <2>2. OriginOf(r, k, i) = OriginOf(t, k, i)
    BY <1>1, <2>1 DEF OriginOf
  <2>3. QED
    BY <1>4, <1>6, <2>2 DEF OriginAt, r
<1>7. QED
  BY <1>5, <1>6

\* An item of the result is one of `t`, or the copy of one of `d`.
LEMMA LinkedItem ==
  ASSUME NEW t \in Ir, NEW d \in Ir, Once(t), Once(d), NEW k \in Kinds,
         NEW n \in OwnIndices(LinkInto(t, d), k)
  PROVE  \/ /\ n \in OwnIndices(t, k)
            /\ LinkInto(t, d).items[k][n] = t.items[k][n]
            /\ OriginOf(LinkInto(t, d), k, n) = OriginOf(t, k, n)
         \/ \E i \in OwnIndices(d, k) :
               /\ LinkInto(t, d).items[k][n] = Copy(t, d, k, i)
               /\ OriginOf(LinkInto(t, d), k, n) = OriginOf(d, k, i)
<1> DEFINE r == LinkInto(t, d)
           P == PreludeCounts[k]
           a == Len(t.origins[k])
           b == Cardinality(Fresh(t, d, k))
<1>1. /\ P \in Nat /\ a \in Nat /\ b \in Nat /\ Len(t.items[k]) = P + a
      /\ DOMAIN t.items[k] = 1..Len(t.items[k])
      /\ Len(r.items[k]) = Len(t.items[k]) + b
      /\ \A m \in 1..b : \E i \in Fresh(t, d, k) :
            /\ r.items[k][Len(t.items[k]) + m] = Copy(t, d, k, i)
            /\ r.origins[k][a + m] = OriginOf(d, k, i)
  BY PreludeFacts, IrFacts, LinkIntoShape DEF Once
<1>2. DOMAIN r.items[k] = 1..Len(r.items[k])
  <2>1. r \in Ir
    BY LinkIntoType
  <2> HIDE DEF r
  <2>2. QED
    BY <2>1, IrFacts
<1>3. IsOwn(k, n) /\ n \in DOMAIN r.items[k]
  BY DEF OwnIndices
<1>4. n \in 1..((P + a) + b)
  BY <1>1, <1>2, <1>3
<1>5. P + a \in Nat
  BY <1>1
<1>6. CASE n \in 1..(P + a)
  <2>1. n \in OwnIndices(t, k)
    BY <1>1, <1>3, <1>6 DEF OwnIndices
  <2>2. n \in DOMAIN t.items[k]
    BY <2>1 DEF OwnIndices
  <2>3. OriginAt(r, k, n) = OriginAt(t, k, n) /\ r.items[k][n] = t.items[k][n]
    BY <2>2, KeptIdMeansTheSame
  <2> HIDE DEF r
  <2>4. QED
    BY <1>3, <2>1, <2>3 DEF OriginAt, r
<1>7. CASE \E m \in 1..b : n = (P + a) + m
  <2>1. PICK m \in 1..b : n = (P + a) + m
    BY <1>7
  <2>2. PICK i \in Fresh(t, d, k) :
            /\ r.items[k][Len(t.items[k]) + m] = Copy(t, d, k, i)
            /\ r.origins[k][a + m] = OriginOf(d, k, i)
    BY <1>1
  <2>3. i \in OwnIndices(d, k)
    BY FreshFacts
  <2> HIDE DEF r, a, b
  <2>4. n - P = a + m
    BY <1>1, <2>1
  <2>5. QED
    BY <1>1, <2>1, <2>2, <2>3, <2>4 DEF OriginOf, r
<1>8. QED
  <2> HIDE DEF P, a, b
  <2>1. n \in 1..(P + a) \/ \E m \in 1..b : n = (P + a) + m
    BY <1>1, <1>4, <1>5, Split
  <2>2. QED
    BY <1>6, <1>7, <2>1

LEMMA CopyFields ==
  ASSUME NEW t \in Ir, NEW d \in Ir, Once(d), NEW k \in Kinds, NEW i \in DOMAIN d.items[k]
  PROVE  /\ Copy(t, d, k, i).name = d.items[k][i].name
         /\ DOMAIN Copy(t, d, k, i).types = DOMAIN d.items[k][i].types
         /\ \A j \in DOMAIN d.items[k][i].types :
               Copy(t, d, k, i).types[j]
                 = MapId(IdTable(t, d, "struct"), d.items[k][i].types[j])
<1>1. d.items[k][i] \in Item
  BY IrFacts
<1>2. QED
  BY <1>1 DEF Copy, Moved, Item

LEMMA LinkIntoTypesRight ==
  ASSUME NEW t \in Ir, NEW d \in Ir, Once(t), Once(d), TypesRight(t), TypesRight(d)
  PROVE  TypesRight(LinkInto(t, d))
<1> DEFINE r == LinkInto(t, d)
<1> SUFFICES ASSUME NEW k \in Kinds, NEW n \in OwnIndices(r, k),
                    NEW j \in DOMAIN r.items[k][n].types
             PROVE  TypeIsRight(r, k, n, j, r.items[k][n].types[j])
  BY DEF TypesRight
<1>1. CASE /\ n \in OwnIndices(t, k)
           /\ r.items[k][n] = t.items[k][n]
           /\ OriginOf(r, k, n) = OriginOf(t, k, n)
  <2> DEFINE id == t.items[k][n].types[j]
  <2>1. TypeIsRight(t, k, n, j, id)
    BY <1>1 DEF TypesRight
  <2>2. id \in DOMAIN t.items["struct"]
    BY <2>1 DEF TypeIsRight
  <2>3. id \in DOMAIN r.items["struct"] /\ OriginAt(r, "struct", id) = OriginAt(t, "struct", id)
    BY <2>2, KeptIdMeansTheSame, KindsAre
  <2>4. r.items[k][n].types[j] = id
    BY <1>1
  <2> HIDE DEF id, r
  <2>5. DefAt(r, k, n) = DefAt(t, k, n)
    BY <1>1 DEF DefAt
  <2>6. QED
    BY <1>1, <2>1, <2>3, <2>4, <2>5 DEF TypeIsRight
<1>2. ASSUME NEW i \in OwnIndices(d, k),
             r.items[k][n] = Copy(t, d, k, i), OriginOf(r, k, n) = OriginOf(d, k, i)
      PROVE  TypeIsRight(r, k, n, j, r.items[k][n].types[j])
  <2> DEFINE id == d.items[k][i].types[j]
             new == IdTable(t, d, "struct")[id]
  <2>1. i \in DOMAIN d.items[k]
    BY DEF OwnIndices
  <2>2. j \in DOMAIN d.items[k][i].types
    BY <1>2, <2>1, CopyFields
  <2>3. TypeIsRight(d, k, i, j, id)
    BY <2>2 DEF TypesRight
  <2>4. id \in DOMAIN d.items["struct"]
    BY <2>3 DEF TypeIsRight
  <2>5. /\ new \in DOMAIN r.items["struct"]
        /\ OriginAt(r, "struct", new) = OriginAt(d, "struct", id)
    BY <2>4, MovedIdMeansTheSame, KindsAre
  <2>6. id \in DOMAIN IdTable(t, d, "struct")
    BY <2>4, IdTableType, KindsAre
  <2>7. r.items[k][n].types[j] = new
    <3>1. Copy(t, d, k, i).types[j] = MapId(IdTable(t, d, "struct"), id)
      BY <2>1, <2>2, CopyFields
    <3> HIDE DEF id, r
    <3>2. QED
      BY <1>2, <2>6, <3>1 DEF MapId
  <2> HIDE DEF id, r, new
  <2>8. DefAt(r, k, n) = DefAt(d, k, i)
    BY <1>2 DEF DefAt
  <2>9. QED
    BY <1>2, <2>3, <2>5, <2>7, <2>8 DEF TypeIsRight
<1>3. QED
  BY <1>1, <1>2, LinkedItem

LEMMA LinkIntoDefs ==
  ASSUME NEW t \in Ir, NEW d \in Ir, Once(d), Defs(t), Defs(d)
  PROVE  Defs(LinkInto(t, d))
<1> DEFINE r == LinkInto(t, d)
           k == "struct"
<1> SUFFICES ASSUME NEW n \in DOMAIN r.origins[k]
             PROVE  r.origins[k][n].ordinal \in DOMAIN OwnOf(r.origins[k][n].module, k)
  BY DEF Defs
<1>1. CASE n \in DOMAIN t.origins[k] /\ r.origins[k][n] = t.origins[k][n]
  BY <1>1 DEF Defs
<1>2. ASSUME NEW i \in Fresh(t, d, k), r.origins[k][n] = OriginOf(d, k, i)
      PROVE  r.origins[k][n].ordinal \in DOMAIN OwnOf(r.origins[k][n].module, k)
  <2>1. i \in OwnIndices(d, k)
    BY FreshFacts, KindsAre
  <2>2. i - PreludeCounts[k] \in DOMAIN d.origins[k]
    BY <2>1, OwnFacts, KindsAre
  <2>3. QED
    BY <1>2, <2>2 DEF Defs, OriginOf
<1>3. QED
  BY <1>1, <1>2, LinkIntoOrigins, KindsAre

LEMMA LinkIntoHolds ==
  ASSUME NEW t \in Ir, NEW d \in Ir, Once(t), Once(d), NEW m, Holds(t, m) \/ Holds(d, m)
  PROVE  Holds(LinkInto(t, d), m)
<1> DEFINE r == LinkInto(t, d)
           k == "struct"
<1> SUFFICES ASSUME NEW j \in DOMAIN OwnOf(m, k)
             PROVE  \E i \in DOMAIN r.origins[k] :
                       r.origins[k][i] = [module |-> m, ordinal |-> j]
  BY DEF Holds
<1> DEFINE o == [module |-> m, ordinal |-> j]
<1>1. r \in Ir /\ Once(r)
  BY LinkIntoType, LinkIntoOnce
<1>2. ASSUME NEW n \in OwnIndices(r, k), OriginOf(r, k, n) = o
      PROVE  \E i \in DOMAIN r.origins[k] : r.origins[k][i] = o
  <2> HIDE DEF r
  <2>1. n - PreludeCounts[k] \in DOMAIN r.origins[k]
    BY <1>1, OwnFacts, KindsAre
  <2>2. r.origins[k][n - PreludeCounts[k]] = o
    BY <1>2 DEF OriginOf
  <2>3. QED
    BY <2>1, <2>2
<1>3. CASE Holds(t, m)
  <2>1. PICK i \in DOMAIN t.origins[k] : t.origins[k][i] = o
    BY <1>3 DEF Holds
  <2> DEFINE n == PreludeCounts[k] + i
  <2>2. n \in OwnIndices(t, k) /\ OriginOf(t, k, n) = o
    BY <2>1, OwnFacts, KindsAre
  <2> HIDE DEF n, o
  <2>3. n \in DOMAIN t.items[k] /\ IsOwn(k, n)
    BY <2>2 DEF OwnIndices
  <2>4. n \in DOMAIN r.items[k] /\ OriginAt(r, k, n) = OriginAt(t, k, n)
    BY <2>3, KeptIdMeansTheSame, KindsAre
  <2> HIDE DEF r
  <2>5. n \in OwnIndices(r, k) /\ OriginOf(r, k, n) = o
    BY <2>2, <2>3, <2>4 DEF OwnIndices, OriginAt
  <2>6. QED
    BY <1>2, <2>5 DEF o
<1>4. CASE Holds(d, m)
  <2>1. PICK i \in DOMAIN d.origins[k] : d.origins[k][i] = o
    BY <1>4 DEF Holds
  <2> DEFINE n == PreludeCounts[k] + i
             new == IdTable(t, d, k)[n]
  <2>2. n \in OwnIndices(d, k) /\ OriginOf(d, k, n) = o
    BY <2>1, OwnFacts, KindsAre
  <2> HIDE DEF n, o
  <2>3. n \in DOMAIN d.items[k] /\ IsOwn(k, n)
    BY <2>2 DEF OwnIndices
  <2>4. /\ new \in DOMAIN r.items[k] /\ OriginAt(r, k, new) = OriginAt(d, k, n)
        /\ IsOwn(k, new)
    BY <2>3, MovedIdMeansTheSame, KindsAre
  <2> HIDE DEF r, new
  <2>5. new \in OwnIndices(r, k) /\ OriginOf(r, k, new) = o
    BY <2>2, <2>3, <2>4 DEF OwnIndices, OriginAt
  <2>6. QED
    BY <1>2, <2>5 DEF o
<1>5. QED
  BY <1>3, <1>4

\* The items that have an origin, and those of the prelude.
LEMMA HiddenIs ==
  ASSUME NEW ir \in Ir, Once(ir), NEW k \in Kinds
  PROVE  /\ DOMAIN ir.items[k] = 1..(PreludeCounts[k] + Len(ir.origins[k]))
         /\ DOMAIN Names(ir, k) = DOMAIN ir.items[k]
         /\ \A i \in DOMAIN ir.items[k] : Names(ir, k)[i] = ir.items[k][i].name
         /\ Hide(ir, k, Names(ir, k)) <=>
               \A i \in DOMAIN ir.items[k] : ir.items[k][i].name = HiddenName(ir, k, i)
<1>1. DOMAIN ir.items[k] = 1..(PreludeCounts[k] + Len(ir.origins[k]))
  BY IrFacts DEF Once
<1>2. /\ DOMAIN Names(ir, k) = DOMAIN ir.items[k]
      /\ \A i \in DOMAIN ir.items[k] : Names(ir, k)[i] = ir.items[k][i].name
  BY DEF Names
<1>3. QED
  BY <1>1, <1>2 DEF Hide

LEMMA LinkIntoNames ==
  ASSUME NEW t \in Ir, NEW d \in Ir, Once(t), Once(d), HasHiddenNames(t), HasHiddenNames(d)
  PROVE  HasHiddenNames(LinkInto(t, d))
<1> DEFINE r == LinkInto(t, d)
<1> SUFFICES ASSUME NEW k \in Named PROVE Hide(r, k, Names(r, k))
  BY DEF HasHiddenNames
<1>1. k \in Kinds
  BY KindsAre
<1>2. r \in Ir /\ Once(r)
  BY LinkIntoType, LinkIntoOnce
<1>3. \A i \in DOMAIN t.items[k] : t.items[k][i].name = HiddenName(t, k, i)
  BY <1>1, HiddenIs DEF HasHiddenNames
<1>4. \A i \in DOMAIN d.items[k] : d.items[k][i].name = HiddenName(d, k, i)
  BY <1>1, HiddenIs DEF HasHiddenNames
<1>5. ASSUME NEW n \in DOMAIN r.items[k] PROVE r.items[k][n].name = HiddenName(r, k, n)
  <2>1. CASE ~ IsOwn(k, n)
    <3>1. n \in DOMAIN t.items[k]
      <4>1. DOMAIN t.items[k] = 1..(PreludeCounts[k] + Len(t.origins[k]))
        BY <1>1, HiddenIs
      <4>2. n \in Nat /\ n >= 1
        BY <1>1, <1>2, IrFacts
      <4>3. PreludeCounts[k] \in Nat /\ Len(t.origins[k]) \in Nat
        BY <1>1, PreludeFacts, IrFacts
      <4> HIDE DEF r
      <4>4. n <= PreludeCounts[k]
        BY <2>1, <4>2, <4>3 DEF IsOwn
      <4>5. QED
        BY <4>1, <4>2, <4>3, <4>4
    <3>2. r.items[k][n] = t.items[k][n]
      BY <1>1, <3>1, KeptIdMeansTheSame
    <3> HIDE DEF r
    <3>3. QED
      BY <1>3, <2>1, <3>1, <3>2 DEF HiddenName
  <2>2. CASE IsOwn(k, n)
    <3>1. n \in OwnIndices(r, k)
      BY <1>5, <2>2 DEF OwnIndices
    <3>2. CASE /\ n \in OwnIndices(t, k)
               /\ r.items[k][n] = t.items[k][n]
               /\ OriginOf(r, k, n) = OriginOf(t, k, n)
      <4> HIDE DEF r
      <4>1. n \in DOMAIN t.items[k]
        BY <3>2 DEF OwnIndices
      <4>2. QED
        BY <1>3, <3>2, <4>1 DEF HiddenName, DefAt
    <3>3. ASSUME NEW i \in OwnIndices(d, k), r.items[k][n] = Copy(t, d, k, i),
                 OriginOf(r, k, n) = OriginOf(d, k, i)
          PROVE  r.items[k][n].name = HiddenName(r, k, n)
      <4>1. i \in DOMAIN d.items[k] /\ IsOwn(k, i)
        BY DEF OwnIndices
      <4>2. r.items[k][n].name = HiddenName(d, k, i)
        BY <1>1, <1>4, <3>3, <4>1, CopyFields
      <4> HIDE DEF r
      <4>3. QED
        BY <2>2, <3>3, <4>1, <4>2 DEF HiddenName, DefAt
    <3>4. QED
      BY <1>1, <3>1, <3>2, <3>3, LinkedItem
  <2>3. QED
    BY <2>1, <2>2
<1> HIDE DEF r
<1>6. QED
  BY <1>1, <1>2, <1>5, HiddenIs

-----------------------------------------------------------------------------
(* Types through the steps that rewrite items in place. *)

KeepsTypes(ir, new) ==
    \A k \in Kinds : \A i \in DOMAIN ir.items[k] :
        new.items[k][i].types = ir.items[k][i].types

LEMMA SameOrigins ==
  ASSUME NEW ir \in Ir, NEW new, Rewritten(ir, new)
  PROVE  /\ \A k, i : OriginOf(new, k, i) = OriginOf(ir, k, i)
         /\ \A k, i : OriginAt(new, k, i) = OriginAt(ir, k, i)
         /\ \A k, i : DefAt(new, k, i) = DefAt(ir, k, i)
         /\ \A k \in Kinds : OwnIndices(new, k) = OwnIndices(ir, k)
         /\ Defs(ir) => Defs(new)
         /\ \A m : Holds(ir, m) => Holds(new, m)
<1>1. new.origins = ir.origins /\ \A k \in Kinds : DOMAIN new.items[k] = DOMAIN ir.items[k]
  BY RewrittenShape
<1>2. \A k, i : OriginOf(new, k, i) = OriginOf(ir, k, i)
  BY <1>1 DEF OriginOf
<1>3. \A k, i : OriginAt(new, k, i) = OriginAt(ir, k, i)
  BY <1>2 DEF OriginAt
<1>4. \A k, i : DefAt(new, k, i) = DefAt(ir, k, i)
  BY <1>2 DEF DefAt
<1>5. \A k \in Kinds : OwnIndices(new, k) = OwnIndices(ir, k)
  BY <1>1 DEF OwnIndices
<1>6. (Defs(ir) => Defs(new)) /\ \A m : Holds(ir, m) => Holds(new, m)
  BY <1>1 DEF Defs, Holds
<1>7. QED
  BY <1>2, <1>3, <1>4, <1>5, <1>6

LEMMA RewrittenTypes ==
  ASSUME NEW ir \in Ir, NEW new, Rewritten(ir, new), KeepsTypes(ir, new), TypesRight(ir)
  PROVE  TypesRight(new)
<1> SUFFICES ASSUME NEW k \in Kinds, NEW i \in OwnIndices(new, k),
                    NEW j \in DOMAIN new.items[k][i].types
             PROVE  TypeIsRight(new, k, i, j, new.items[k][i].types[j])
  BY DEF TypesRight
<1>1. i \in OwnIndices(ir, k) /\ i \in DOMAIN ir.items[k]
  BY SameOrigins DEF OwnIndices
<1>2. new.items[k][i].types = ir.items[k][i].types
  BY <1>1 DEF KeepsTypes
<1>3. TypeIsRight(ir, k, i, j, ir.items[k][i].types[j])
  BY <1>1, <1>2 DEF TypesRight
<1>4. DOMAIN new.items["struct"] = DOMAIN ir.items["struct"]
  BY RewrittenShape, KindsAre
<1>5. QED
  BY <1>2, <1>3, <1>4, SameOrigins DEF TypeIsRight

LEMMA AliasedKeepsTypes ==
  ASSUME NEW m, NEW ir \in Ir
  PROVE  KeepsTypes(ir, [ir EXCEPT !.items = Aliased(m, ir.items)])
<1> SUFFICES ASSUME NEW k \in Kinds, NEW i \in DOMAIN ir.items[k]
             PROVE  [ir EXCEPT !.items = Aliased(m, ir.items)].items[k][i].types
                      = ir.items[k][i].types
  BY DEF KeepsTypes
<1>1. ir.items[k][i] \in Item
  BY IrFacts
<1>2. [ir EXCEPT !.items = Aliased(m, ir.items)].items = Aliased(m, ir.items)
  BY DEF Ir
<1>3. Aliased(m, ir.items)[k][i] = AliasedItem(m, k, ir.items[k][i])
  BY DEF Aliased
<1>4. AliasedItem(m, k, ir.items[k][i]).types = ir.items[k][i].types
  BY <1>1 DEF AliasedItem, Item
<1>5. QED
  BY <1>2, <1>3, <1>4

LEMMA FinishEntryKeepsTypes ==
  ASSUME NEW ir \in Ir
  PROVE  KeepsTypes(ir, FinishEntry(ir))
<1> SUFFICES ASSUME NEW k \in Kinds, NEW i \in DOMAIN ir.items[k]
             PROVE  FinishEntry(ir).items[k][i].types = ir.items[k][i].types
  BY DEF KeepsTypes
<1>1. ir.items[k][i] \in Item
  BY IrFacts
<1>2. FinishEntry(ir).items[k][i] = RenamedItem(ir, ir.items[k][i])
  BY DEF FinishEntry, Ir
<1>3. RenamedItem(ir, ir.items[k][i]).types = ir.items[k][i].types
  BY <1>1 DEF RenamedItem, Item
<1>4. QED
  BY <1>2, <1>3

LEMMA ResolveKeepsTypes ==
  ASSUME NEW ir \in Ir
  PROVE  KeepsTypes(ir, ResolveReferences(ir))
<1> SUFFICES ASSUME NEW k \in Kinds, NEW i \in DOMAIN ir.items[k]
             PROVE  ResolveReferences(ir).items[k][i].types = ir.items[k][i].types
  BY DEF KeepsTypes
<1>1. ir.items[k][i] \in Item
  BY IrFacts
<1>2. ResolveReferences(ir).items[k][i] = ResolvedItem(ir, k, ir.items[k][i])
  BY DEF ResolveReferences, Ir
<1>3. ResolvedItem(ir, k, ir.items[k][i]).types = ir.items[k][i].types
  BY <1>1 DEF ResolvedItem, Item
<1>4. QED
  BY <1>2, <1>3

-----------------------------------------------------------------------------
(* Names and types while a module lowers. *)

\* A module at work: what it imports is there, under short names.
Ready(w) ==
    /\ w.ir \in Ir /\ Once(w.ir) /\ From(w.ir, Files) /\ Good(w.ir) /\ w.mod \in Modules
    /\ \A k \in Named : Hide(w.ir, k, w.hidden[k])
    /\ HasShortNames(w)
    /\ \A m \in DepsOf(w.mod) : Holds(w.ir, m)

StructNames(w) ==
    Names(w.ir, "struct")
    \o [j \in DOMAIN OwnOf(w.mod, "struct") |-> Plain(OwnOf(w.mod, "struct")[j].path)]

\* The origin that struct number `id` has once the module is finished.
OriginSoon(w, id) ==
    IF id \in DOMAIN w.ir.items["struct"] THEN OriginAt(w.ir, "struct", id)
    ELSE [module |-> w.mod, ordinal |-> id - Len(w.ir.items["struct"])]

LEMMA StructNamesFacts ==
  ASSUME prog \in Program, NEW w, w.ir \in Ir, w.mod \in Modules
  PROVE  LET c == Len(w.ir.items["struct"])
             n == Len(OwnOf(w.mod, "struct"))
         IN  /\ c \in Nat /\ n \in Nat /\ DOMAIN StructNames(w) = 1..(c + n)
             /\ DOMAIN w.ir.items["struct"] = 1..c
             /\ DOMAIN OwnOf(w.mod, "struct") = 1..n
             /\ \A i \in 1..c : StructNames(w)[i] = w.ir.items["struct"][i].name
             /\ \A j \in 1..n :
                   StructNames(w)[c + j] = Plain(OwnOf(w.mod, "struct")[j].path)
<1> DEFINE c == Len(w.ir.items["struct"])
           n == Len(OwnOf(w.mod, "struct"))
           first == Names(w.ir, "struct")
           second == [j \in DOMAIN OwnOf(w.mod, "struct") |->
                         Plain(OwnOf(w.mod, "struct")[j].path)]
           T == {first[i] : i \in 1..c} \cup {second[j] : j \in 1..n}
<1>1. c \in Nat /\ n \in Nat /\ DOMAIN w.ir.items["struct"] = 1..c
  BY IrFacts, OwnOfFacts, KindsAre
<1>2. DOMAIN OwnOf(w.mod, "struct") = 1..n
  BY OwnOfFacts, KindsAre
<1>3. /\ first = [i \in 1..c |-> first[i]]
      /\ \A i \in 1..c : first[i] = w.ir.items["struct"][i].name
  BY <1>1 DEF Names
<1>4. /\ second = [j \in 1..n |-> second[j]]
      /\ \A j \in 1..n : second[j] = Plain(OwnOf(w.mod, "struct")[j].path)
  BY <1>2
<1>5. (\A i \in 1..c : first[i] \in T) /\ (\A j \in 1..n : second[j] \in T)
  OBVIOUS
<1>6. StructNames(w) = first \o second
  BY DEF StructNames
<1> HIDE DEF first, second, c, n, T
<1>7. first \in Seq(T) /\ Len(first) = c
  BY <1>1, <1>3, <1>5, SeqBy
<1>8. second \in Seq(T) /\ Len(second) = n
  BY <1>1, <1>4, <1>5, SeqBy
<1>9. /\ DOMAIN (first \o second) = 1..(c + n)
      /\ \A i \in 1..c : (first \o second)[i] = first[i]
      /\ \A j \in 1..n : (first \o second)[c + j] = second[j]
  <2>1. first \in Seq(T) /\ second \in Seq(T)
    BY <1>7, <1>8
  <2>2. /\ DOMAIN (first \o second) = 1..(Len(first) + Len(second))
        /\ \A i \in 1..Len(first) : (first \o second)[i] = first[i]
        /\ \A j \in 1..Len(second) : (first \o second)[Len(first) + j] = second[j]
    BY <2>1, Joined
  <2>3. QED
    BY <1>7, <1>8, <2>2
<1>10. QED
  BY <1>1, <1>2, <1>3, <1>4, <1>6, <1>9 DEF c, n

\* An item that is there has the plain name of the path only when the path
\* means it at the top level of the file.
LEMMA ShortNameMeans ==
  ASSUME prog \in Program, NEW w, Ready(w), NEW q,
         NEW i \in DOMAIN w.ir.items["struct"], w.ir.items["struct"][i].name = Plain(q)
  PROVE  OriginAt(w.ir, "struct", i) \in AtTop(w.mod, "struct", q)
<1> DEFINE k == "struct"
           ir == w.ir
           o == OriginOf(ir, k, i)
<1>1. k \in Named /\ k \in Kinds
  BY KindsAre DEF Named
<1>2. ir \in Ir /\ Once(ir)
  BY DEF Ready
<1>3. w.hidden[k][i] = HiddenName(ir, k, i)
  <2>1. i \in 1..(PreludeCounts[k] + Len(ir.origins[k]))
    BY <1>1, <1>2, HiddenIs
  <2>2. QED
    BY <1>1, <2>1 DEF Ready, Hide
<1>4. ir.items[k][i].name = IF IsImported(w.mod, w.hidden[k][i])
                            THEN Plain(w.hidden[k][i].path) ELSE w.hidden[k][i]
  BY <1>1 DEF Ready, HasShortNames
<1>5. CASE ~ IsOwn(k, i)
  <2>1. w.hidden[k][i] = Prelude[k][i].name
    BY <1>3, <1>5 DEF HiddenName
  <2>2. i \in DOMAIN Prelude[k]
    <3>1. i \in Nat /\ i >= 1 /\ PreludeCounts[k] \in Nat
      BY <1>1, <1>2, IrFacts, PreludeFacts
    <3>2. i \in 1..Len(Prelude[k])
      BY <1>1, <1>5, <3>1, PreludeFacts DEF IsOwn
    <3>3. QED
      BY <1>1, <3>2, PreludeFacts, LenProperties
  <2>3. Prelude[k][i].name = Plain(q)
    BY <1>1, <1>4, <2>1, <2>2, PreludeIsOpen DEF IsImported, Plain
  <2>4. OriginAt(ir, k, i) = [module |-> PreludeModule, ordinal |-> i]
    BY <1>5 DEF OriginAt
  <2>5. QED
    BY <2>2, <2>3, <2>4 DEF AtTop
<1>6. CASE IsOwn(k, i)
  <2>1. i \in OwnIndices(ir, k)
    BY <1>6 DEF OwnIndices
  <2>2. i - PreludeCounts[k] \in DOMAIN ir.origins[k] /\ o \in Origin
    BY <1>1, <1>2, <2>1, OwnFacts
  <2>3. o.module \in Files /\ o.ordinal \in DOMAIN OwnOf(o.module, k)
    BY <1>1, <2>2 DEF Ready, From, Good, Defs, OriginOf
  <2>4. w.hidden[k][i]
          = [home |-> o.module, mark |-> 0, path |-> OwnOf(o.module, k)[o.ordinal].path]
    BY <1>3, <1>6 DEF HiddenName, DefAt
  <2>5. o.module # 0
    BY <2>3, FilesAreCounted DEF Files
  <2>6. IsImported(w.mod, w.hidden[k][i])
    <3>1. Plain(q).home = 0 /\ w.hidden[k][i].home # 0
      BY <2>4, <2>5 DEF Plain
    <3>2. QED
      BY <1>4, <3>1
  <2>7. Plain(w.hidden[k][i].path) = Plain(q)
    BY <1>4, <2>6
  <2>8. OwnOf(o.module, k)[o.ordinal].path = q
    BY <2>4, <2>7 DEF Plain
  <2>9. prog.imports[w.mod][Head(q)] = o.module
    BY <2>4, <2>6, <2>8 DEF IsImported
  <2>10. o = [module |-> o.module, ordinal |-> o.ordinal]
    BY <2>2 DEF Origin
  <2>11. o \in Defined(o.module, k, q)
    BY <2>3, <2>8, <2>10 DEF Defined
  <2>12. OriginAt(ir, k, i) = o
    BY <1>6 DEF OriginAt
  <2>13. QED
    BY <2>5, <2>9, <2>11, <2>12 DEF AtTop
<1>7. QED
  BY <1>5, <1>6

LEMMA NameMeans ==
  ASSUME prog \in Program, NEW w, Ready(w), NEW q,
         NEW i \in DOMAIN StructNames(w), StructNames(w)[i] = Plain(q)
  PROVE  OriginSoon(w, i) \in AtTop(w.mod, "struct", q)
<1> DEFINE c == Len(w.ir.items["struct"])
           n == Len(OwnOf(w.mod, "struct"))
<1>1. /\ c \in Nat /\ n \in Nat /\ i \in 1..(c + n)
      /\ DOMAIN w.ir.items["struct"] = 1..c
      /\ DOMAIN OwnOf(w.mod, "struct") = 1..n
      /\ \A j \in 1..c : StructNames(w)[j] = w.ir.items["struct"][j].name
      /\ \A j \in 1..n : StructNames(w)[c + j] = Plain(OwnOf(w.mod, "struct")[j].path)
  BY StructNamesFacts DEF Ready
<1> HIDE DEF c, n
<1>2. CASE i \in 1..c
  <2>1. i \in DOMAIN w.ir.items["struct"] /\ w.ir.items["struct"][i].name = Plain(q)
    BY <1>1, <1>2
  <2>2. QED
    BY <2>1, ShortNameMeans DEF OriginSoon
<1>3. ASSUME NEW j \in 1..n, i = c + j
      PROVE  OriginSoon(w, i) \in AtTop(w.mod, "struct", q)
  <2>1. i \notin DOMAIN w.ir.items["struct"] /\ i - c = j
    BY <1>1, <1>3
  <2>2. OriginSoon(w, i) = [module |-> w.mod, ordinal |-> j]
    BY <2>1 DEF OriginSoon, c
  <2>3. OwnOf(w.mod, "struct")[j].path = q
    <3>1. StructNames(w)[c + j] = Plain(OwnOf(w.mod, "struct")[j].path)
      BY <1>1
    <3>2. Plain(OwnOf(w.mod, "struct")[j].path) = Plain(q)
      BY <1>3, <3>1
    <3>3. QED
      BY <3>2 DEF Plain
  <2>4. QED
    BY <1>1, <2>2, <2>3 DEF AtTop, Defined
<1>4. QED
  BY <1>1, <1>2, <1>3, Split

\* What a path means at the top level is there, under that name.
LEMMA MeaningIsThere ==
  ASSUME prog \in Program, NEW w, Ready(w), NEW q \in Path,
         AtTop(w.mod, "struct", q) # {}
  PROVE  \E i \in DOMAIN StructNames(w) : StructNames(w)[i] = Plain(q)
<1> DEFINE k == "struct"
           ir == w.ir
           c == Len(w.ir.items["struct"])
           n == Len(OwnOf(w.mod, "struct"))
           f == prog.imports[w.mod][Head(q)]
<1>1. /\ c \in Nat /\ n \in Nat /\ DOMAIN StructNames(w) = 1..(c + n)
      /\ DOMAIN ir.items[k] = 1..c
      /\ DOMAIN OwnOf(w.mod, "struct") = 1..n
      /\ \A j \in 1..c : StructNames(w)[j] = ir.items[k][j].name
      /\ \A j \in 1..n : StructNames(w)[c + j] = Plain(OwnOf(w.mod, "struct")[j].path)
  BY StructNamesFacts DEF Ready
<1>2. k \in Named /\ k \in Kinds
  BY KindsAre DEF Named
<1>3. ir \in Ir /\ Once(ir)
  BY DEF Ready
<1>4. ASSUME NEW i \in DOMAIN ir.items[k], ir.items[k][i].name = Plain(q)
      PROVE  \E j \in DOMAIN StructNames(w) : StructNames(w)[j] = Plain(q)
  <2> HIDE DEF c, n, k, ir, f
  <2>1. i \in 1..c /\ i \in 1..(c + n)
    BY <1>1
  <2>2. QED
    BY <1>1, <1>4, <2>1
<1>5. ASSUME NEW i \in DOMAIN ir.items[k]
      PROVE  /\ w.hidden[k][i] = HiddenName(ir, k, i)
             /\ ir.items[k][i].name = IF IsImported(w.mod, w.hidden[k][i])
                                      THEN Plain(w.hidden[k][i].path) ELSE w.hidden[k][i]
  <2>1. i \in 1..(PreludeCounts[k] + Len(ir.origins[k]))
    BY <1>2, <1>3, HiddenIs
  <2>2. w.hidden[k][i] = HiddenName(ir, k, i)
    BY <1>2, <2>1 DEF Ready, Hide
  <2>3. QED
    BY <1>2, <2>2 DEF Ready, HasShortNames
<1>6. CASE Defined(w.mod, k, q) # {}
  <2>1. PICK j \in DOMAIN OwnOf(w.mod, k) : OwnOf(w.mod, k)[j].path = q
    BY <1>6 DEF Defined
  <2>2. j \in 1..n
    BY <1>1, <2>1
  <2>3. StructNames(w)[c + j] = Plain(q)
    BY <1>1, <2>1, <2>2
  <2> HIDE DEF c, n
  <2>4. c + j \in DOMAIN StructNames(w)
    BY <1>1, <2>2
  <2>5. QED
    BY <2>3, <2>4
<1>7. CASE f # 0 /\ Defined(f, k, q) # {}
  <2>1. PICK j \in DOMAIN OwnOf(f, k) : OwnOf(f, k)[j].path = q
    BY <1>7 DEF Defined
  <2>2. f \in DepsOf(w.mod)
    <3>1. Head(q) \in Segments
      BY HeadTailProperties DEF Path
    <3>2. prog.imports[w.mod] \in [Segments -> Modules]
      BY DEF Ready, Program
    <3>3. f \in Range(prog.imports[w.mod])
      BY <3>1, <3>2 DEF Range
    <3>4. QED
      BY <1>7, <3>3 DEF DepsOf
  <2>3. PICK i \in DOMAIN ir.origins[k] : ir.origins[k][i] = [module |-> f, ordinal |-> j]
    BY <2>1, <2>2 DEF Ready, Holds
  <2> DEFINE p == PreludeCounts[k] + i
  <2>4. p \in OwnIndices(ir, k) /\ OriginOf(ir, k, p) = [module |-> f, ordinal |-> j]
    BY <1>2, <1>3, <2>3, OwnFacts
  <2> HIDE DEF p, f, ir, k
  <2>5. p \in DOMAIN ir.items[k] /\ IsOwn(k, p)
    BY <2>4 DEF OwnIndices
  <2>6. HiddenName(ir, k, p) = [home |-> f, mark |-> 0, path |-> q]
    BY <2>1, <2>4, <2>5 DEF HiddenName, DefAt
  <2>7. w.hidden[k][p] = [home |-> f, mark |-> 0, path |-> q]
    BY <1>5, <2>5, <2>6
  <2>8. IsImported(w.mod, w.hidden[k][p])
    BY <1>7, <2>7 DEF IsImported, f
  <2>9. ir.items[k][p].name = Plain(q)
    BY <1>5, <2>5, <2>7, <2>8
  <2>10. QED
    BY <1>4, <2>5, <2>9
<1>8. CASE \E i \in DOMAIN Prelude[k] : Prelude[k][i].name = Plain(q)
  <2>1. PICK i \in DOMAIN Prelude[k] : Prelude[k][i].name = Plain(q)
    BY <1>8
  <2>2. i \in DOMAIN ir.items[k] /\ ~ IsOwn(k, i)
    <3>1. /\ PreludeCounts[k] \in Nat /\ Len(ir.origins[k]) \in Nat
          /\ DOMAIN ir.items[k] = 1..(PreludeCounts[k] + Len(ir.origins[k]))
      BY <1>2, <1>3, PreludeFacts, IrFacts, HiddenIs
    <3>2. i \in 1..PreludeCounts[k]
      BY <1>2, PreludeFacts, LenProperties
    <3> HIDE DEF ir, k
    <3>3. QED
      BY <3>1, <3>2 DEF IsOwn
  <2>3. w.hidden[k][i] = Plain(q)
    BY <1>5, <2>1, <2>2 DEF HiddenName
  <2>4. ~ IsImported(w.mod, w.hidden[k][i])
    BY <2>3 DEF IsImported, Plain
  <2>5. ir.items[k][i].name = Plain(q)
    BY <1>5, <2>2, <2>3, <2>4
  <2>6. QED
    BY <1>4, <2>2, <2>5
<1>9. QED
  BY <1>6, <1>7, <1>8 DEF AtTop

LEMMA FirstNamedMeans ==
  ASSUME prog \in Program, NEW w, Ready(w), NEW q \in Path
  PROVE  /\ FirstNamed(StructNames(w), Plain(q)) # 0 <=> AtTop(w.mod, "struct", q) # {}
         /\ FirstNamed(StructNames(w), Plain(q)) # 0 =>
               /\ FirstNamed(StructNames(w), Plain(q)) \in DOMAIN StructNames(w)
               /\ OriginSoon(w, FirstNamed(StructNames(w), Plain(q)))
                     \in AtTop(w.mod, "struct", q)
<1> DEFINE id == FirstNamed(StructNames(w), Plain(q))
           X == {i \in DOMAIN StructNames(w) : StructNames(w)[i] = Plain(q)}
<1>1. \E last \in Nat : DOMAIN StructNames(w) = 1..last
  <2> DEFINE c == Len(w.ir.items["struct"])
             n == Len(OwnOf(w.mod, "struct"))
  <2>1. c \in Nat /\ n \in Nat /\ DOMAIN StructNames(w) = 1..(c + n)
    BY StructNamesFacts DEF Ready
  <2> HIDE DEF c, n
  <2>2. c + n \in Nat
    BY <2>1
  <2>3. QED
    BY <2>1, <2>2
<1>2. PICK last \in Nat : DOMAIN StructNames(w) = 1..last
  BY <1>1
<1>3. id # 0 => id \in DOMAIN StructNames(w) /\ StructNames(w)[id] = Plain(q)
  BY <1>2, FirstNamedType
<1>4. id # 0 => OriginSoon(w, id) \in AtTop(w.mod, "struct", q)
  <2> HIDE DEF id
  <2>1. QED
    BY <1>3, NameMeans
<1>5. ASSUME AtTop(w.mod, "struct", q) # {} PROVE id # 0
  <2>1. X # {}
    BY <1>5, MeaningIsThere
  <2>2. X \in SUBSET Nat
    BY <1>2
  <2>3. Min(X) \in X
    BY <2>1, <2>2, LeastOf
  <2>4. id = Min(X)
    BY <2>1 DEF FirstNamed
  <2> HIDE DEF id
  <2>5. QED
    BY <1>2, <2>3, <2>4
<1>6. QED
  BY <1>3, <1>4, <1>5

\* The path of a type, inside the first n modules of the one it is written in.
LEMMA InnerPath ==
  ASSUME NEW mod \in Seq(Segments), NEW path \in Path, NEW n \in 0..Len(mod)
  PROVE  /\ SubSeq(mod, 1, n) \o path \in Path
         /\ n = 0 => SubSeq(mod, 1, n) \o path = path
<1> DEFINE s == SubSeq(mod, 1, n)
<1>1. path \in Seq(Segments) /\ path # <<>> /\ Len(mod) \in Nat
  BY LenProperties DEF Path
<1>2. s \in Seq(Segments) /\ (n = 0 => s = <<>>)
  <2>1. \A i \in 1..n : mod[i] \in Segments
    BY <1>1, ElementOfSeq
  <2>2. s = [i \in 1..n |-> mod[i]]
    BY <1>1
  <2>3. s = [i \in 1..n |-> s[i]] /\ \A i \in 1..n : s[i] \in Segments
    BY <2>1, <2>2
  <2> HIDE DEF s
  <2>4. s \in Seq(Segments) /\ Len(s) = n
    BY <2>3, SeqBy
  <2>5. QED
    BY <2>4, EmptySeq
<1> HIDE DEF s
<1>3. s \o path \in Seq(Segments) /\ Len(s \o path) = Len(s) + Len(path)
  BY <1>1, <1>2, ConcatProperties
<1>4. s \o path # <<>>
  <2>1. Len(path) # 0 /\ Len(path) \in Nat /\ Len(s) \in Nat
    BY <1>1, <1>2, EmptySeq, LenProperties
  <2>2. Len(s \o path) # 0
    BY <1>3, <2>1
  <2>3. QED
    BY <2>2, EmptySeq
<1>5. n = 0 => s \o path = path
  BY <1>1, <1>2
<1>6. QED
  BY <1>3, <1>4, <1>5 DEF Path, s

LEMMA TypeIdMeans ==
  ASSUME prog \in Program, IsAnalyzed, NEW w, Ready(w), NEW i \in DOMAIN prog.defs[w.mod],
         NEW d, d = prog.defs[w.mod][i], NEW j \in DOMAIN d.types
  PROVE  /\ TypeId(StructNames(w), ModOf(d), d.types[j]) \in DOMAIN StructNames(w)
         /\ OriginSoon(w, TypeId(StructNames(w), ModOf(d), d.types[j]))
               \in TypesMeant(w.mod, ModOf(d), d.types[j])
<1> DEFINE m == w.mod
           mod == ModOf(d)
           path == d.types[j]
           names == StructNames(w)
           Q(n) == SubSeq(mod, 1, n) \o path
           Id(n) == FirstNamed(names, Plain(Q(n)))
           found == {n \in 0..Len(mod) : Id(n) # 0}
           inner == {n \in 1..Len(mod) : Defined(m, "struct", Q(n)) # {}}
<1>1. m \in Modules /\ d \in Def
  BY DefsFacts DEF Ready
<1>2. path \in Path
  <2>1. d.types \in Seq(Path)
    BY <1>1 DEF Def
  <2>2. QED
    BY <2>1, LenProperties, ElementOfSeq
<1>3. mod \in Seq(Segments) /\ Len(mod) \in Nat
  <2>1. d.path \in Seq(Segments) /\ d.path # <<>>
    BY <1>1 DEF Def, Path
  <2>2. mod \in Seq(Segments)
    <3>1. Len(d.path) \in Nat /\ \A n \in 1..(Len(d.path) - 1) : d.path[n] \in Segments
      BY <2>1, LenProperties, ElementOfSeq
    <3>2. SubSeq(d.path, 1, Len(d.path) - 1) \in Seq(Segments)
      BY <3>1, SubSeqProperties
    <3>3. QED
      BY <3>2 DEF ModOf, Front
  <2>3. QED
    BY <2>2, LenProperties
<1>4. /\ TypesMeant(m, mod, path) # {}
      /\ \A n \in 1..Len(mod) : AtTop(m, "struct", Q(n)) = Defined(m, "struct", Q(n))
  <2>1. d \in Range(prog.defs[m]) /\ path \in Range(d.types)
    BY DEF Range
  <2>2. IsAccepted(m, mod, path)
    BY <1>1, <2>1 DEF IsAnalyzed
  <2>3. QED
    BY <2>2 DEF IsAccepted
<1>5. TypesMeant(m, mod, path) = IF inner # {} THEN Defined(m, "struct", Q(Max(inner)))
                                 ELSE AtTop(m, "struct", path)
  BY DEF TypesMeant
<1>6. TypeId(names, mod, path) = IF found = {} THEN 0 ELSE Id(Max(found))
  BY DEF TypeId
<1> HIDE DEF m, mod, path, names
<1>7. ASSUME NEW n \in 0..Len(mod)
      PROVE  /\ Id(n) # 0 <=> AtTop(m, "struct", Q(n)) # {}
             /\ Id(n) # 0 => /\ Id(n) \in DOMAIN names
                             /\ OriginSoon(w, Id(n)) \in AtTop(m, "struct", Q(n))
  <2>1. Q(n) \in Path
    BY <1>2, <1>3, InnerPath
  <2> HIDE DEF Q
  <2>2. QED
    BY <2>1, FirstNamedMeans DEF m, names
<1>8. Q(0) = path
  BY <1>2, <1>3, InnerPath
<1> HIDE DEF Q, Id
<1>9. /\ found \in SUBSET (0..Len(mod)) /\ inner \in SUBSET (0..Len(mod))
      /\ \A n \in 1..Len(mod) : n \in found <=> n \in inner
      /\ 0 \in found <=> AtTop(m, "struct", path) # {}
  <2>1. \A n \in 1..Len(mod) : n \in 0..Len(mod)
    BY <1>3
  <2>2. 0 \in 0..Len(mod)
    BY <1>3
  <2>3. QED
    BY <1>4, <1>7, <1>8, <2>1, <2>2
<1>10. ASSUME NEW n \in found, TypeId(names, mod, path) = Id(n),
              AtTop(m, "struct", Q(n)) = TypesMeant(m, mod, path)
       PROVE  /\ TypeId(names, mod, path) \in DOMAIN names
              /\ OriginSoon(w, TypeId(names, mod, path)) \in TypesMeant(m, mod, path)
  BY <1>7, <1>10
<1>11. CASE inner # {}
  <2>1. Max(inner) \in inner /\ \A n \in inner : n <= Max(inner)
    BY <1>3, <1>9, <1>11, GreatestOf
  <2>2. found # {}
    BY <1>9, <2>1
  <2>3. Max(found) \in found /\ \A n \in found : n <= Max(found)
    BY <1>3, <1>9, <2>2, GreatestOf
  <2> HIDE DEF found, inner
  <2>4. Max(found) = Max(inner)
    <3>1. Max(inner) \in 1..Len(mod)
      BY <2>1 DEF inner
    <3>2. Max(inner) \in found
      BY <1>9, <2>1, <3>1
    <3>3. Max(inner) <= Max(found)
      BY <2>3, <3>2
    <3>4. Max(found) \in 0..Len(mod)
      BY <1>9, <2>3
    <3>5. Max(found) \in 1..Len(mod)
      BY <1>3, <3>1, <3>3, <3>4
    <3>6. Max(found) <= Max(inner)
      BY <1>9, <2>1, <2>3, <3>5
    <3>7. QED
      BY <1>3, <3>1, <3>3, <3>5, <3>6
  <2>5. AtTop(m, "struct", Q(Max(found))) = TypesMeant(m, mod, path)
    <3>1. Max(found) \in 1..Len(mod)
      BY <2>1, <2>4 DEF inner
    <3>2. QED
      BY <1>4, <1>5, <1>11, <2>4, <3>1
  <2>6. TypeId(names, mod, path) = Id(Max(found))
    BY <1>6, <2>2
  <2>7. QED
    BY <1>10, <2>3, <2>5, <2>6 DEF m, mod, path, names
<1>12. CASE inner = {}
  <2>1. TypesMeant(m, mod, path) = AtTop(m, "struct", path)
    BY <1>5, <1>12
  <2>2. 0 \in found
    BY <1>4, <1>9, <2>1
  <2>3. Max(found) \in found
    BY <1>3, <1>9, <2>2, GreatestOf
  <2> HIDE DEF found, inner
  <2>4. Max(found) = 0
    <3>1. Max(found) \in 0..Len(mod)
      BY <1>9, <2>3
    <3>2. Max(found) \notin 1..Len(mod)
      BY <1>9, <1>12, <2>3
    <3>3. QED
      BY <1>3, <3>1, <3>2
  <2>5. TypeId(names, mod, path) = Id(Max(found))
    BY <1>6, <2>2
  <2>6. QED
    BY <1>8, <1>10, <2>1, <2>3, <2>4, <2>5 DEF m, mod, path, names
<1>13. QED
  BY <1>11, <1>12

-----------------------------------------------------------------------------
(* The program never changes, so neither does what its names mean. *)

LEMMA SameOwn ==
  ASSUME prog' = prog, NEW m, NEW k
  PROVE  OwnOf(m, k)' = OwnOf(m, k)
BY DEF OwnOf

LEMMA SameDefAt ==
  ASSUME prog' = prog, NEW ir, NEW k, NEW i
  PROVE  DefAt(ir, k, i)' = DefAt(ir, k, i)
BY SameOwn DEF DefAt

LEMMA SameTypesMeant ==
  ASSUME prog' = prog, NEW m, NEW mod, NEW path
  PROVE  TypesMeant(m, mod, path)' = TypesMeant(m, mod, path)
<1>1. \A f, q : Defined(f, "struct", q)' = Defined(f, "struct", q)
  BY SameOwn DEF Defined
<1>2. \A q : AtTop(m, "struct", q)' = AtTop(m, "struct", q)
  BY <1>1 DEF AtTop
<1>3. QED
  BY <1>1, <1>2 DEF TypesMeant

LEMMA SameTypesRight ==
  ASSUME prog' = prog, NEW ir
  PROVE  TypesRight(ir)' <=> TypesRight(ir)
<1>1. \A k, i, j, id : TypeIsRight(ir, k, i, j, id)' <=> TypeIsRight(ir, k, i, j, id)
  BY SameDefAt, SameTypesMeant DEF TypeIsRight
<1>2. QED
  BY <1>1 DEF TypesRight

LEMMA SameGood ==
  ASSUME prog' = prog, NEW ir
  PROVE  Good(ir)' <=> Good(ir)
BY SameOwn, SameTypesRight DEF Good, Defs

LEMMA SameHide ==
  ASSUME prog' = prog, NEW ir, NEW k, NEW names
  PROVE  Hide(ir, k, names)' <=> Hide(ir, k, names)
BY SameDefAt DEF Hide, HiddenName

LEMMA SameHiddenNames ==
  ASSUME prog' = prog, NEW ir
  PROVE  HasHiddenNames(ir)' <=> HasHiddenNames(ir)
BY SameHide DEF HasHiddenNames

LEMMA SameHolds ==
  ASSUME prog' = prog, NEW ir, NEW m
  PROVE  Holds(ir, m)' <=> Holds(ir, m)
BY SameOwn DEF Holds

LEMMA SameComplete ==
  ASSUME prog' = prog, NEW ir, NEW m
  PROVE  Complete(ir, m)' <=> Complete(ir, m)
BY SameGood, SameHiddenNames, SameHolds DEF Complete

LEMMA SameAllComplete ==
  ASSUME prog' = prog, linked' = linked, AllComplete
  PROVE  AllComplete'
BY SameComplete DEF AllComplete

LEMMA SameShortNames ==
  ASSUME prog' = prog, NEW w
  PROVE  HasShortNames(w)' <=> HasShortNames(w)
BY DEF HasShortNames, IsImported

LEMMA SameAnalyzed ==
  ASSUME prog' = prog, IsAnalyzed
  PROVE  IsAnalyzed'
<1>1. \A f, q : Defined(f, "struct", q)' = Defined(f, "struct", q)
  BY SameOwn DEF Defined
<1>2. \A m, q : AtTop(m, "struct", q)' = AtTop(m, "struct", q)
  BY <1>1 DEF AtTop
<1>3. \A m, mod, path : IsAccepted(m, mod, path)' <=> IsAccepted(m, mod, path)
  BY <1>1, <1>2, SameTypesMeant DEF IsAccepted
<1>4. QED
  BY <1>3 DEF IsAnalyzed

-----------------------------------------------------------------------------
(* Names and types through finish_module. *)

\* w is the work v after its own definitions have lowered.
Lowers(v, w) ==
    /\ Ready(v) /\ w \in Work /\ w.mod = v.mod /\ w.ir = LowerFile(v.mod, v.ir)
    /\ \A k \in Kinds : w.hidden[k] = v.hidden[k] /\ w.counts[k] = Len(v.ir.items[k])
    /\ \E mods : HalfDone(w, mods)

LEMMA FinishedFields ==
  ASSUME NEW w \in Work, NEW mods, HalfDone(w, mods), NEW k \in Kinds,
         NEW i \in 1..Len(w.ir.items[k])
  PROVE  /\ FinishModule(w).items[k][i].types = w.ir.items[k][i].types
         /\ FinishModule(w).items[k][i].name = FinalHome(w, k, i)
<1>1. w.ir \in Ir /\ w.ir.items[k][i] \in Item /\ i \in DOMAIN w.ir.items[k]
  BY WorkFacts, IrFacts
<1>2. FinishModule(w).items[k][i] = FinishedItem(w, k, i)
  BY <1>1 DEF FinishModule
<1>3. /\ FinishedItem(w, k, i).types = w.ir.items[k][i].types
      /\ FinishedItem(w, k, i).name = FinalHome(w, k, i)
  BY <1>1 DEF FinishedItem, Item
<1>4. QED
  BY <1>2, <1>3

\* The items that were linked come first, then the own ones.
Extends(fin, v, k) ==
    LET c == Len(v.ir.items[k])
        a == Len(v.ir.origins[k])
        n == Len(OwnOf(v.mod, k))
    IN  /\ c \in Nat /\ a \in Nat /\ n \in Nat /\ PreludeCounts[k] \in Nat
        /\ c = PreludeCounts[k] + a
        /\ DOMAIN v.ir.items[k] = 1..c /\ DOMAIN v.ir.origins[k] = 1..a
        /\ DOMAIN OwnOf(v.mod, k) = 1..n
        /\ DOMAIN fin.items[k] = 1..(c + n) /\ DOMAIN fin.origins[k] = 1..(a + n)
        /\ Len(fin.origins[k]) = a + n
        /\ \A i \in 1..a : fin.origins[k][i] = v.ir.origins[k][i]
        /\ \A j \in 1..n : fin.origins[k][a + j] = [module |-> v.mod, ordinal |-> j]

LEMMA FinishedShape ==
  ASSUME prog \in Program, NEW v, NEW w, Lowers(v, w), NEW k \in Kinds
  PROVE  Extends(FinishModule(w), v, k)
<1> DEFINE fin == FinishModule(w)
           low == LowerFile(v.mod, v.ir)
           c == Len(v.ir.items[k])
           a == Len(v.ir.origins[k])
           n == Len(OwnOf(v.mod, k))
<1>1. /\ w \in Work /\ w.ir = low /\ w.mod = v.mod /\ w.counts[k] = c
      /\ v.ir \in Ir /\ Once(v.ir) /\ v.mod \in Modules
  BY DEF Lowers, Ready
<1>2. /\ c \in Nat /\ a \in Nat /\ PreludeCounts[k] \in Nat /\ c = PreludeCounts[k] + a
      /\ DOMAIN v.ir.items[k] = 1..c /\ DOMAIN v.ir.origins[k] = 1..a
  BY <1>1, IrFacts, PreludeFacts DEF Once
<1>3. n \in Nat /\ DOMAIN OwnOf(v.mod, k) = 1..n
  BY <1>1, OwnOfFacts
<1>4. low \in Ir /\ low.origins = v.ir.origins /\ Len(low.items[k]) = c + n
  BY <1>1, LowerFileShape
<1>5. /\ fin \in Ir /\ Len(fin.items[k]) = Len(low.items[k])
      /\ Len(fin.origins[k]) = Len(low.origins[k]) + (Len(low.items[k]) - c)
      /\ \A i \in 1..Len(low.origins[k]) : fin.origins[k][i] = low.origins[k][i]
      /\ \A j \in 1..(Len(low.items[k]) - c) :
            fin.origins[k][Len(low.origins[k]) + j] = [module |-> w.mod, ordinal |-> j]
  <2>1. PICK mods : HalfDone(w, mods)
    BY DEF Lowers
  <2>2. /\ fin \in Ir /\ Len(fin.items[k]) = Len(w.ir.items[k])
        /\ Len(fin.origins[k]) = Len(w.ir.origins[k]) + (Len(w.ir.items[k]) - w.counts[k])
        /\ \A i \in 1..Len(w.ir.origins[k]) : fin.origins[k][i] = w.ir.origins[k][i]
        /\ \A j \in 1..(Len(w.ir.items[k]) - w.counts[k]) :
              fin.origins[k][Len(w.ir.origins[k]) + j] = [module |-> w.mod, ordinal |-> j]
    BY <1>1, <2>1, FinishModuleShape
  <2> HIDE DEF fin, low, c
  <2>3. QED
    BY <1>1, <2>2
<1>6. /\ DOMAIN fin.items[k] = 1..Len(fin.items[k])
      /\ DOMAIN fin.origins[k] = 1..Len(fin.origins[k])
  BY <1>5, IrFacts
<1> HIDE DEF fin, low, n
<1>7. Len(low.items[k]) - c = n /\ Len(low.origins[k]) = a
  <2> HIDE DEF c
  <2>1. Len(low.items[k]) - c = n
    BY <1>2, <1>3, <1>4
  <2>2. QED
    BY <1>4, <2>1
<1>8. /\ DOMAIN fin.items[k] = 1..(c + n) /\ DOMAIN fin.origins[k] = 1..(a + n)
      /\ Len(fin.origins[k]) = a + n
      /\ \A i \in 1..a : fin.origins[k][i] = v.ir.origins[k][i]
      /\ \A j \in 1..n : fin.origins[k][a + j] = [module |-> v.mod, ordinal |-> j]
  BY <1>1, <1>4, <1>5, <1>6, <1>7
<1>9. QED
  BY <1>2, <1>3, <1>8 DEF fin, n, Extends

\* The same in terms of ids: an item that was linked keeps its origin.
LEMMA FinishedOrigins ==
  ASSUME prog \in Program, NEW v, NEW w, Lowers(v, w), NEW k \in Kinds
  PROVE  LET fin == FinishModule(w)
             c == Len(v.ir.items[k])
         IN  /\ \A i \in DOMAIN v.ir.items[k] :
                   /\ i \in DOMAIN fin.items[k]
                   /\ OriginAt(fin, k, i) = OriginAt(v.ir, k, i)
             /\ \A j \in DOMAIN OwnOf(v.mod, k) :
                   /\ c + j \in DOMAIN fin.items[k] /\ IsOwn(k, c + j)
                   /\ OriginOf(fin, k, c + j) = [module |-> v.mod, ordinal |-> j]
<1> DEFINE fin == FinishModule(w)
           c == Len(v.ir.items[k])
           a == Len(v.ir.origins[k])
           n == Len(OwnOf(v.mod, k))
           P == PreludeCounts[k]
<1>1. /\ c \in Nat /\ a \in Nat /\ n \in Nat /\ P \in Nat /\ c = P + a
      /\ DOMAIN v.ir.items[k] = 1..c
      /\ DOMAIN OwnOf(v.mod, k) = 1..n
      /\ DOMAIN fin.items[k] = 1..(c + n)
      /\ \A i \in 1..a : fin.origins[k][i] = v.ir.origins[k][i]
      /\ \A j \in 1..n : fin.origins[k][a + j] = [module |-> v.mod, ordinal |-> j]
  <2>1. Extends(fin, v, k)
    BY FinishedShape
  <2> HIDE DEF fin
  <2>2. QED
    BY <2>1 DEF Extends
<1> HIDE DEF fin, c, a, n, P
<1>2. ASSUME NEW i \in DOMAIN v.ir.items[k]
      PROVE  i \in DOMAIN fin.items[k] /\ OriginAt(fin, k, i) = OriginAt(v.ir, k, i)
  <2>1. i \in 1..(c + n) /\ i \in 1..(P + a)
    BY <1>1
  <2>2. CASE ~ IsOwn(k, i)
    BY <1>1, <2>1, <2>2 DEF OriginAt
  <2>3. CASE IsOwn(k, i)
    <3>1. i - P \in 1..a
      BY <1>1, <2>1, <2>3 DEF IsOwn, P
    <3>2. OriginOf(fin, k, i) = OriginOf(v.ir, k, i)
      BY <1>1, <3>1 DEF OriginOf, P
    <3>3. QED
      BY <1>1, <2>1, <2>3, <3>2 DEF OriginAt
  <2>4. QED
    BY <2>2, <2>3
<1>3. ASSUME NEW j \in 1..n
      PROVE  /\ c + j \in DOMAIN fin.items[k] /\ IsOwn(k, c + j)
             /\ OriginOf(fin, k, c + j) = [module |-> v.mod, ordinal |-> j]
  <2>1. c + j \in 1..(c + n) /\ c + j > P /\ (c + j) - P = a + j
    BY <1>1
  <2>2. OriginOf(fin, k, c + j) = fin.origins[k][a + j]
    BY <2>1 DEF OriginOf, P
  <2>3. QED
    BY <1>1, <2>1, <2>2 DEF IsOwn, P
<1>4. QED
  BY <1>1, <1>2, <1>3 DEF fin, c

\* The types of an own item, as it lowers.
TypesOf(v, d) == [j \in DOMAIN d.types |-> TypeId(StructNames(v), ModOf(d), d.types[j])]

LEMMA FinishedItems ==
  ASSUME prog \in Program, NEW v, NEW w, Lowers(v, w), NEW k \in Kinds
  PROVE  /\ \A i \in DOMAIN v.ir.items[k] :
               /\ FinishModule(w).items[k][i].types = v.ir.items[k][i].types
               /\ k \in Named => FinishModule(w).items[k][i].name = v.hidden[k][i]
         /\ \A j \in DOMAIN OwnOf(v.mod, k) :
               /\ FinishModule(w).items[k][Len(v.ir.items[k]) + j].types
                     = TypesOf(v, OwnOf(v.mod, k)[j])
               /\ k \in Named =>
                     FinishModule(w).items[k][Len(v.ir.items[k]) + j].name
                       = [home |-> v.mod, mark |-> 0, path |-> OwnOf(v.mod, k)[j].path]
<1> DEFINE fin == FinishModule(w)
           low == LowerFile(v.mod, v.ir)
           c == Len(v.ir.items[k])
           n == Len(OwnOf(v.mod, k))
<1>1. /\ w \in Work /\ w.ir = low /\ w.mod = v.mod /\ w.counts[k] = c
      /\ w.hidden[k] = v.hidden[k] /\ v.ir \in Ir /\ v.mod \in Modules
  BY DEF Lowers, Ready
<1>2. /\ c \in Nat /\ n \in Nat /\ DOMAIN v.ir.items[k] = 1..c
      /\ DOMAIN OwnOf(v.mod, k) = 1..n
  BY <1>1, IrFacts, OwnOfFacts
<1>3. /\ Len(low.items[k]) = c + n
      /\ \A i \in 1..c : low.items[k][i] = v.ir.items[k][i]
      /\ \A j \in 1..n : low.items[k][c + j] = Lowered(v.mod, v.ir, OwnOf(v.mod, k)[j])
  BY <1>1, LowerFileShape
<1>4. PICK mods : HalfDone(w, mods)
  BY DEF Lowers
<1>5. \A i \in 1..Len(w.ir.items[k]) : /\ fin.items[k][i].types = w.ir.items[k][i].types
                                       /\ fin.items[k][i].name = FinalHome(w, k, i)
  BY <1>1, <1>4, FinishedFields
<1> HIDE DEF fin, low, n
<1>6. \A i \in 1..(c + n) : /\ fin.items[k][i].types = low.items[k][i].types
                            /\ fin.items[k][i].name = FinalHome(w, k, i)
  BY <1>1, <1>3, <1>5
<1>7. ASSUME NEW i \in 1..c
      PROVE  /\ fin.items[k][i].types = v.ir.items[k][i].types
             /\ k \in Named => fin.items[k][i].name = v.hidden[k][i]
  <2>1. i \in 1..(c + n) /\ ~ IsOwnOf(w, k, i)
    <3> HIDE DEF c
    <3>1. QED
      BY <1>1, <1>2 DEF IsOwnOf
  <2>2. QED
    BY <1>1, <1>3, <1>6, <2>1 DEF FinalHome
<1>8. ASSUME NEW j \in 1..n, NEW d, d = OwnOf(v.mod, k)[j]
      PROVE  /\ fin.items[k][c + j].types = TypesOf(v, d)
             /\ k \in Named => fin.items[k][c + j].name
                                 = [home |-> v.mod, mark |-> 0, path |-> d.path]
  <2>1. c + j \in 1..(c + n) /\ IsOwnOf(w, k, c + j)
    <3> HIDE DEF c
    <3>1. QED
      BY <1>1, <1>2 DEF IsOwnOf
  <2>2. low.items[k][c + j] = Lowered(v.mod, v.ir, d)
    BY <1>3, <1>8
  <2>3. /\ Lowered(v.mod, v.ir, d).name = Plain(d.path)
        /\ Lowered(v.mod, v.ir, d).types = TypesOf(v, d)
    BY DEF Lowered, TypesOf, StructNames
  <2>4. k \in Named => FinalHome(w, k, c + j) = [Plain(d.path) EXCEPT !.home = v.mod]
    BY <1>1, <2>1, <2>2, <2>3 DEF FinalHome
  <2>5. [Plain(d.path) EXCEPT !.home = v.mod]
          = [home |-> v.mod, mark |-> 0, path |-> d.path]
    BY DEF Plain
  <2> HIDE DEF c
  <2>6. QED
    BY <1>6, <2>1, <2>2, <2>3, <2>4, <2>5
<1>9. QED
  BY <1>2, <1>7, <1>8 DEF fin

\* What the names of the module mean while it lowers, their ids mean after.
LEMMA FinishedIds ==
  ASSUME prog \in Program, NEW v, NEW w, Lowers(v, w), NEW id \in DOMAIN StructNames(v)
  PROVE  /\ id \in DOMAIN FinishModule(w).items["struct"]
         /\ OriginAt(FinishModule(w), "struct", id) = OriginSoon(v, id)
<1> DEFINE fin == FinishModule(w)
           c == Len(v.ir.items["struct"])
           n == Len(OwnOf(v.mod, "struct"))
<1>1. /\ c \in Nat /\ n \in Nat /\ DOMAIN StructNames(v) = 1..(c + n)
      /\ DOMAIN v.ir.items["struct"] = 1..c
      /\ DOMAIN OwnOf(v.mod, "struct") = 1..n
  <2>1. v.ir \in Ir /\ v.mod \in Modules
    BY DEF Lowers, Ready
  <2>2. QED
    BY <2>1, StructNamesFacts
<1>2. /\ \A i \in DOMAIN v.ir.items["struct"] :
            /\ i \in DOMAIN fin.items["struct"]
            /\ OriginAt(fin, "struct", i) = OriginAt(v.ir, "struct", i)
      /\ \A j \in DOMAIN OwnOf(v.mod, "struct") :
            /\ c + j \in DOMAIN fin.items["struct"] /\ IsOwn("struct", c + j)
            /\ OriginOf(fin, "struct", c + j) = [module |-> v.mod, ordinal |-> j]
  BY KindsAre, FinishedOrigins
<1> HIDE DEF fin, c, n
<1>3. CASE id \in 1..c
  BY <1>1, <1>2, <1>3 DEF OriginSoon, fin
<1>4. ASSUME NEW j \in 1..n, id = c + j
      PROVE  id \in DOMAIN fin.items["struct"] /\ OriginAt(fin, "struct", id) = OriginSoon(v, id)
  <2>1. id \notin 1..c /\ id - c = j
    BY <1>1, <1>4
  <2>2. OriginSoon(v, id) = [module |-> v.mod, ordinal |-> j]
    BY <1>1, <2>1 DEF OriginSoon, c
  <2>3. QED
    BY <1>1, <1>2, <1>4, <2>2 DEF OriginAt
<1>5. id \in 1..c \/ \E j \in 1..n : id = c + j
  <2>1. c \in Nat /\ n \in Nat /\ id \in 1..(c + n)
    BY <1>1
  <2>2. QED
    BY <2>1, Split
<1>6. QED
  BY <1>3, <1>4, <1>5 DEF fin

\* A position in the finished module: an item that was linked, or an own one.
LEMMA FinishedPlaces ==
  ASSUME prog \in Program, NEW v, NEW w, Lowers(v, w), NEW k \in Kinds,
         NEW i \in DOMAIN FinishModule(w).items[k]
  PROVE  \/ i \in DOMAIN v.ir.items[k]
         \/ \E j \in DOMAIN OwnOf(v.mod, k) : i = Len(v.ir.items[k]) + j
<1> DEFINE c == Len(v.ir.items[k])
           n == Len(OwnOf(v.mod, k))
<1>1. Extends(FinishModule(w), v, k)
  BY FinishedShape
<1>2. /\ c \in Nat /\ n \in Nat /\ DOMAIN v.ir.items[k] = 1..c
      /\ DOMAIN OwnOf(v.mod, k) = 1..n /\ i \in 1..(c + n)
  BY <1>1 DEF Extends
<1> HIDE DEF c, n
<1>3. i \in 1..c \/ \E j \in 1..n : i = c + j
  BY <1>2, Split
<1>4. QED
  BY <1>2, <1>3 DEF c

LEMMA FinishedTypes ==
  ASSUME prog \in Program, IsAnalyzed, NEW v, NEW w, Lowers(v, w)
  PROVE  TypesRight(FinishModule(w))
<1> DEFINE fin == FinishModule(w)
<1> SUFFICES ASSUME NEW k \in Kinds, NEW i \in OwnIndices(fin, k),
                    NEW j \in DOMAIN fin.items[k][i].types
             PROVE  TypeIsRight(fin, k, i, j, fin.items[k][i].types[j])
  BY DEF TypesRight
<1>1. /\ Ready(v) /\ v.ir \in Ir /\ v.mod \in Modules /\ TypesRight(v.ir)
  BY DEF Lowers, Ready, Good
<1>2. i \in DOMAIN fin.items[k] /\ IsOwn(k, i)
  BY DEF OwnIndices
<1>3. CASE i \in DOMAIN v.ir.items[k]
  <2> DEFINE id == v.ir.items[k][i].types[j]
  <2>1. /\ fin.items[k][i].types = v.ir.items[k][i].types
        /\ OriginAt(fin, k, i) = OriginAt(v.ir, k, i)
    BY <1>3, FinishedItems, FinishedOrigins
  <2>2. TypeIsRight(v.ir, k, i, j, id)
    BY <1>1, <1>2, <1>3, <2>1 DEF TypesRight, OwnIndices
  <2>3. id \in DOMAIN v.ir.items["struct"]
    BY <2>2 DEF TypeIsRight
  <2>4. /\ id \in DOMAIN fin.items["struct"]
        /\ OriginAt(fin, "struct", id) = OriginAt(v.ir, "struct", id)
    BY <2>3, KindsAre, FinishedOrigins
  <2> HIDE DEF fin
  <2>5. OriginOf(fin, k, i) = OriginOf(v.ir, k, i)
    BY <1>2, <2>1 DEF OriginAt
  <2>6. DefAt(fin, k, i) = DefAt(v.ir, k, i)
    BY <2>5 DEF DefAt
  <2> HIDE DEF id
  <2>7. TypeIsRight(fin, k, i, j, id)
    BY <2>2, <2>4, <2>5, <2>6 DEF TypeIsRight
  <2>8. QED
    BY <2>1, <2>7 DEF id
<1>4. ASSUME NEW p \in DOMAIN OwnOf(v.mod, k), i = Len(v.ir.items[k]) + p
      PROVE  TypeIsRight(fin, k, i, j, fin.items[k][i].types[j])
  <2> DEFINE d == OwnOf(v.mod, k)[p]
             id == TypeId(StructNames(v), ModOf(d), d.types[j])
  <2>1. /\ fin.items[k][i].types = TypesOf(v, d)
        /\ OriginOf(fin, k, i) = [module |-> v.mod, ordinal |-> p]
    <3>1. fin.items[k][Len(v.ir.items[k]) + p].types = TypesOf(v, d)
      <4>1. \A q \in DOMAIN OwnOf(v.mod, k) :
               /\ FinishModule(w).items[k][Len(v.ir.items[k]) + q].types
                     = TypesOf(v, OwnOf(v.mod, k)[q])
               /\ k \in Named =>
                     FinishModule(w).items[k][Len(v.ir.items[k]) + q].name
                       = [home |-> v.mod, mark |-> 0, path |-> OwnOf(v.mod, k)[q].path]
        BY FinishedItems
      <4>2. QED
        BY <4>1
    <3>2. OriginOf(fin, k, Len(v.ir.items[k]) + p) = [module |-> v.mod, ordinal |-> p]
      BY FinishedOrigins
    <3> HIDE DEF fin
    <3>3. QED
      BY <1>4, <3>1, <3>2
  <2>3. j \in DOMAIN d.types /\ fin.items[k][i].types[j] = id
    BY <2>1 DEF TypesOf
  <2>4. PICK q \in DOMAIN prog.defs[v.mod] : d = prog.defs[v.mod][q]
    BY <1>1, OwnOfFacts
  <2> HIDE DEF d
  <2>5. /\ id \in DOMAIN StructNames(v)
        /\ OriginSoon(v, id) \in TypesMeant(v.mod, ModOf(d), d.types[j])
    BY <1>1, <2>3, <2>4, TypeIdMeans
  <2>6. id \in DOMAIN fin.items["struct"] /\ OriginAt(fin, "struct", id) = OriginSoon(v, id)
    <3> HIDE DEF id
    <3>1. QED
      BY <2>5, FinishedIds
  <2> HIDE DEF fin, id
  <2>7. DefAt(fin, k, i) = d
    BY <2>1 DEF DefAt, d
  <2>8. TypeIsRight(fin, k, i, j, id)
    BY <2>1, <2>5, <2>6, <2>7 DEF TypeIsRight
  <2>9. QED
    BY <2>3, <2>8
<1>5. QED
  BY <1>2, <1>3, <1>4, FinishedPlaces

LEMMA FinishedDefs ==
  ASSUME prog \in Program, NEW v, NEW w, Lowers(v, w)
  PROVE  Defs(FinishModule(w)) /\ Holds(FinishModule(w), v.mod)
<1> DEFINE fin == FinishModule(w)
           a == Len(v.ir.origins["struct"])
           n == Len(OwnOf(v.mod, "struct"))
<1>1. Extends(fin, v, "struct")
  BY KindsAre, FinishedShape
<1> HIDE DEF fin
<1>2. /\ a \in Nat /\ n \in Nat
      /\ DOMAIN v.ir.origins["struct"] = 1..a
      /\ DOMAIN OwnOf(v.mod, "struct") = 1..n /\ DOMAIN fin.origins["struct"] = 1..(a + n)
      /\ \A i \in 1..a : fin.origins["struct"][i] = v.ir.origins["struct"][i]
      /\ \A j \in 1..n :
            fin.origins["struct"][a + j] = [module |-> v.mod, ordinal |-> j]
  BY <1>1 DEF Extends
<1> HIDE DEF a, n
<1>3. Defs(fin)
  <2> SUFFICES ASSUME NEW i \in 1..(a + n)
               PROVE  fin.origins["struct"][i].ordinal
                        \in DOMAIN OwnOf(fin.origins["struct"][i].module, "struct")
    BY <1>2 DEF Defs
  <2>1. CASE i \in 1..a
    <3>1. Defs(v.ir)
      BY DEF Lowers, Ready, Good
    <3>2. QED
      BY <1>2, <2>1, <3>1 DEF Defs
  <2>2. CASE \E j \in 1..n : i = a + j
    <3>1. PICK j \in 1..n : i = a + j
      BY <2>2
    <3>2. fin.origins["struct"][i] = [module |-> v.mod, ordinal |-> j]
      BY <1>2, <3>1
    <3>3. QED
      BY <1>2, <3>2
  <2>3. i \in 1..a \/ \E j \in 1..n : i = a + j
    <3>1. a \in Nat /\ n \in Nat /\ i \in 1..(a + n)
      BY <1>2
    <3>2. QED
      BY <3>1, Split
  <2>4. QED
    BY <2>1, <2>2, <2>3
<1>4. Holds(fin, v.mod)
  <2> SUFFICES ASSUME NEW j \in 1..n
               PROVE  \E i \in DOMAIN fin.origins["struct"] :
                         fin.origins["struct"][i] = [module |-> v.mod, ordinal |-> j]
    BY <1>2 DEF Holds
  <2>1. a + j \in 1..(a + n)
    BY <1>2
  <2>2. QED
    BY <1>2, <2>1
<1>5. QED
  BY <1>3, <1>4 DEF fin

LEMMA FinishedNames ==
  ASSUME prog \in Program, NEW v, NEW w, Lowers(v, w)
  PROVE  HasHiddenNames(FinishModule(w))
<1> DEFINE fin == FinishModule(w)
<1> SUFFICES ASSUME NEW k \in Named PROVE Hide(fin, k, Names(fin, k))
  BY DEF HasHiddenNames
<1>1. k \in Kinds /\ v.ir \in Ir /\ Once(v.ir)
  BY KindsAre DEF Lowers, Ready
<1>2. Extends(fin, v, k)
  BY <1>1, FinishedShape
<1>3. ASSUME NEW i \in DOMAIN fin.items[k] PROVE fin.items[k][i].name = HiddenName(fin, k, i)
  <2>1. CASE i \in DOMAIN v.ir.items[k]
    <3>1. fin.items[k][i].name = v.hidden[k][i] /\ OriginAt(fin, k, i) = OriginAt(v.ir, k, i)
      BY <1>1, <2>1, FinishedItems, FinishedOrigins
    <3>2. v.hidden[k][i] = HiddenName(v.ir, k, i)
      <4>1. i \in 1..(PreludeCounts[k] + Len(v.ir.origins[k]))
        BY <1>1, <2>1, HiddenIs
      <4>2. QED
        BY <4>1 DEF Lowers, Ready, Hide
    <3> HIDE DEF fin
    <3>3. HiddenName(fin, k, i) = HiddenName(v.ir, k, i)
      BY <3>1 DEF HiddenName, DefAt, OriginAt
    <3>4. QED
      BY <3>1, <3>2, <3>3
  <2>2. ASSUME NEW j \in DOMAIN OwnOf(v.mod, k), i = Len(v.ir.items[k]) + j
        PROVE  fin.items[k][i].name = HiddenName(fin, k, i)
    <3> DEFINE d == OwnOf(v.mod, k)[j]
    <3>1. fin.items[k][i].name = [home |-> v.mod, mark |-> 0, path |-> d.path]
      BY <1>1, <2>2, FinishedItems
    <3>2. IsOwn(k, i) /\ OriginOf(fin, k, i) = [module |-> v.mod, ordinal |-> j]
      BY <1>1, <2>2, FinishedOrigins
    <3> HIDE DEF fin
    <3>3. DefAt(fin, k, i) = d
      BY <3>2 DEF DefAt
    <3>4. QED
      BY <3>1, <3>2, <3>3 DEF HiddenName
  <2>3. QED
    BY <1>1, <2>1, <2>2, FinishedPlaces
<1> HIDE DEF fin
<1>4. DOMAIN fin.items[k] = 1..(PreludeCounts[k] + Len(fin.origins[k]))
  <2> DEFINE c == Len(v.ir.items[k])
             a == Len(v.ir.origins[k])
             n == Len(OwnOf(v.mod, k))
  <2>1. /\ c \in Nat /\ a \in Nat /\ n \in Nat /\ PreludeCounts[k] \in Nat
        /\ c = PreludeCounts[k] + a
        /\ DOMAIN fin.items[k] = 1..(c + n)
    BY <1>2 DEF Extends
  <2>2. Len(fin.origins[k]) = a + n
    BY <1>2 DEF Extends
  <2> HIDE DEF a, n, c
  <2>3. QED
    BY <2>1, <2>2
<1>5. QED
  BY <1>3, <1>4 DEF Hide, Names

-----------------------------------------------------------------------------
(* Types and names through the steps. *)

LEMMA MeaningInit ==
  Init => MInv
<1> SUFFICES ASSUME Init PROVE MInv
  OBVIOUS
<1>1. DOMAIN linked = {} /\ phase = "idle" /\ IsAnalyzed
  BY DEF Init, NoneLinked
<1>2. QED
  BY <1>1 DEF MInv, AllComplete

LEMMA StartKeepsMeaning ==
  ASSUME IInv, MInv, NEW m \in Modules, Start(m)
  PROVE  MInv'
<1> DEFINE ir == [items   |-> [k \in Kinds |-> [i \in DOMAIN Prelude[k] |->
                                  [Prelude[k][i] EXCEPT !.file = 1]]],
                  origins |-> EmptyOrigins,
                  files   |-> <<m>>]
<1>1. /\ cur' = [NoWork EXCEPT !.mod = m, !.deps = DepsOf(m), !.ir = ir]
      /\ phase' = "link" /\ prog' = prog /\ linked' = linked
  BY DEF Start
<1>2. cur'.mod = m /\ cur'.deps = DepsOf(m) /\ cur'.ir = ir
  BY <1>1 DEF NoWork
<1>3. /\ ir.origins = EmptyOrigins
      /\ \A k \in Kinds : ir.items[k] = [i \in DOMAIN Prelude[k] |->
                                           [Prelude[k][i] EXCEPT !.file = 1]]
  OBVIOUS
<1>4. \A mods : Whole(ir, mods)
  <2>1. <<m>> \in Seq(Modules)
    OBVIOUS
  <2>2. QED
    BY <2>1, PreludeIr
<1> HIDE DEF ir
<1>5. ir \in Ir /\ Once(ir)
  BY <1>4 DEF Whole
<1>6. \A k \in Kinds : DOMAIN ir.origins[k] = {} /\ Len(ir.origins[k]) = 0
  BY <1>3, EmptySeq DEF EmptyOrigins
<1>7. \A k \in Kinds : OwnIndices(ir, k) = {}
  BY <1>5, <1>6, OwnFacts
<1>8. Good(ir)
  BY <1>6, <1>7, KindsAre DEF Good, Defs, TypesRight
<1>9. HasHiddenNames(ir)
  <2> SUFFICES ASSUME NEW k \in Named PROVE Hide(ir, k, Names(ir, k))
    BY DEF HasHiddenNames
  <2>1. k \in Kinds
    BY KindsAre
  <2>2. ASSUME NEW i \in DOMAIN ir.items[k] PROVE ir.items[k][i].name = HiddenName(ir, k, i)
    <3>1. i \notin OwnIndices(ir, k)
      BY <1>7, <2>1
    <3>2. ~ IsOwn(k, i)
      BY <3>1 DEF OwnIndices
    <3>3. i \in DOMAIN Prelude[k] /\ ir.items[k][i] = [Prelude[k][i] EXCEPT !.file = 1]
      BY <1>3, <2>1
    <3>4. Prelude[k][i] \in Item
      BY <2>1, <3>3, PreludeFacts, LenProperties, ElementOfSeq
    <3>5. ir.items[k][i].name = Prelude[k][i].name
      BY <3>3, <3>4 DEF Item
    <3>6. QED
      BY <3>2, <3>5 DEF HiddenName
  <2>3. QED
    BY <1>5, <2>1, <2>2, HiddenIs
<1>10. Good(cur.ir)' /\ HasHiddenNames(cur.ir)'
  BY <1>1, <1>2, <1>8, <1>9, SameGood, SameHiddenNames
<1>11. \A n \in (DepsOf(cur.mod) \ cur.deps)' : Holds(cur.ir, n)'
  BY <1>1, <1>2 DEF DepsOf
<1>12. IsAnalyzed'
  BY <1>1, SameAnalyzed DEF MInv
<1>13. AllComplete'
  BY <1>1, SameAllComplete DEF MInv
<1>14. QED
  BY <1>1, <1>10, <1>11, <1>12, <1>13 DEF MInv

LEMMA LinkDepKeepsMeaning ==
  ASSUME IInv, MInv, LinkDep
  PROVE  MInv'
<1> DEFINE f == Min(cur.deps)
           dep == linked[f]
           ir == cur.ir
           new == LinkInto(ir, dep)
<1>1. /\ phase = "link" /\ cur.deps # {} /\ phase' = "link"
      /\ cur' = [cur EXCEPT !.ir = new, !.deps = @ \ {f}]
      /\ prog' = prog /\ linked' = linked
  BY DEF LinkDep
<1>2. cur \in Work /\ cur.deps \subseteq DOMAIN linked /\ cur.deps \subseteq Files
  BY <1>1 DEF IInv, TypeOK, Work
<1>3. f \in cur.deps
  <2>1. cur.deps \in SUBSET Nat
    BY <1>2, FilesAreCounted DEF Files
  <2>2. QED
    BY <1>1, <2>1, LeastOf
<1>4. /\ ir \in Ir /\ Once(ir) /\ dep \in Ir /\ Once(dep)
  BY <1>1, <1>2, <1>3 DEF IInv, Whole
<1>5. /\ Good(ir) /\ HasHiddenNames(ir)
      /\ \A m \in DepsOf(cur.mod) \ cur.deps : Holds(ir, m)
  BY <1>1 DEF MInv
<1>6. Complete(dep, f)
  BY <1>2, <1>3 DEF MInv, AllComplete
<1> HIDE DEF f, dep
<1>7. cur'.ir = new /\ cur'.deps = cur.deps \ {f} /\ cur'.mod = cur.mod
  BY <1>1, <1>2 DEF Work
<1> HIDE DEF ir
<1>8. Good(new)
  BY <1>4, <1>5, <1>6, LinkIntoTypesRight, LinkIntoDefs DEF Complete, Good
<1>9. HasHiddenNames(new)
  BY <1>4, <1>5, <1>6, LinkIntoNames DEF Complete
<1>10. \A m \in DepsOf(cur.mod) \ (cur.deps \ {f}) : Holds(new, m)
  BY <1>4, <1>5, <1>6, LinkIntoHolds DEF Complete
<1> HIDE DEF new
<1>11. Good(cur.ir)' /\ HasHiddenNames(cur.ir)'
  BY <1>1, <1>7, <1>8, <1>9, SameGood, SameHiddenNames
<1>12. \A m \in (DepsOf(cur.mod) \ cur.deps)' : Holds(cur.ir, m)'
  <2>1. (DepsOf(cur.mod) \ cur.deps)' = DepsOf(cur.mod) \ (cur.deps \ {f})
    BY <1>1, <1>7 DEF DepsOf
  <2>2. QED
    BY <1>1, <1>7, <1>10, <2>1, SameHolds
<1>13. IsAnalyzed' /\ AllComplete'
  BY <1>1, SameAnalyzed, SameAllComplete DEF MInv
<1>14. QED
  BY <1>1, <1>11, <1>12, <1>13 DEF MInv

LEMMA AliasKeepsMeaning ==
  ASSUME IInv, MInv, AliasImports
  PROVE  MInv'
<1> DEFINE ir == cur.ir
           new == [ir EXCEPT !.items = Aliased(cur.mod, ir.items)]
           hidden == [k \in Kinds |-> Names(ir, k)]
<1>1. /\ phase = "link" /\ phase' = "lower" /\ prog' = prog /\ linked' = linked
      /\ cur.deps = {}
      /\ cur' = [cur EXCEPT !.counts = Lens(ir.items), !.hidden = hidden, !.ir = new]
  BY DEF AliasImports, IInv, TypeOK, Work
<1>2. cur \in Work /\ ir \in Ir /\ Once(ir)
  BY <1>1 DEF IInv, TypeOK, Whole
<1>3. /\ Good(ir) /\ HasHiddenNames(ir)
      /\ \A m \in DepsOf(cur.mod) \ cur.deps : Holds(ir, m)
  BY <1>1 DEF MInv
<1>4. cur'.ir = new /\ cur'.hidden = hidden /\ cur'.deps = {} /\ cur'.mod = cur.mod
  BY <1>1, <1>2 DEF Work
<1>5. Rewritten(ir, new) /\ KeepsTypes(ir, new)
  BY <1>2, AliasedShape, AliasedKeepsTypes
<1>6. \A k \in Kinds : \A i \in DOMAIN ir.items[k] :
         new.items[k][i] = AliasedItem(cur.mod, k, ir.items[k][i])
  <2>1. new.items = Aliased(cur.mod, ir.items)
    BY <1>2 DEF Ir
  <2>2. QED
    BY <2>1 DEF Aliased
<1> HIDE DEF ir, new
<1>7. Good(new)
  BY <1>2, <1>3, <1>5, RewrittenTypes, SameOrigins DEF Good
<1>8. \A m \in DepsOf(cur.mod) : Holds(new, m)
  BY <1>1, <1>2, <1>3, <1>5, SameOrigins
<1>9. \A k \in Named : Hide(new, k, hidden[k])
  <2> SUFFICES ASSUME NEW k \in Named PROVE Hide(new, k, hidden[k])
    OBVIOUS
  <2>1. hidden[k] = Names(ir, k)
    BY KindsAre
  <2>2. Hide(ir, k, Names(ir, k))
    BY <1>3 DEF HasHiddenNames
  <2>3. new.origins = ir.origins
    BY <1>2, <1>5, RewrittenShape
  <2> HIDE DEF hidden
  <2>4. QED
    BY <2>1, <2>2, <2>3 DEF Hide, HiddenName, DefAt, OriginOf
<1>10. \A k \in Named : \A i \in DOMAIN new.items[k] :
          new.items[k][i].name
            = IF IsImported(cur.mod, hidden[k][i]) THEN Plain(hidden[k][i].path)
              ELSE hidden[k][i]
  <2> SUFFICES ASSUME NEW k \in Named, NEW i \in DOMAIN new.items[k]
               PROVE  new.items[k][i].name
                        = IF IsImported(cur.mod, hidden[k][i])
                          THEN Plain(hidden[k][i].path) ELSE hidden[k][i]
    OBVIOUS
  <2>1. k \in Kinds
    BY KindsAre
  <2>2. i \in DOMAIN ir.items[k]
    BY <1>2, <1>5, <2>1, RewrittenShape
  <2>3. ir.items[k][i] \in Item
    BY <1>2, <2>1, <2>2, IrFacts
  <2>4. hidden[k][i] = ir.items[k][i].name
    BY <2>1, <2>2 DEF Names
  <2>5. new.items[k][i] = AliasedItem(cur.mod, k, ir.items[k][i])
    BY <1>6, <2>1, <2>2
  <2> HIDE DEF hidden
  <2>6. AliasedItem(cur.mod, k, ir.items[k][i]).name
          = IF IsImported(cur.mod, ir.items[k][i].name) THEN Plain(ir.items[k][i].name.path)
            ELSE ir.items[k][i].name
    BY <2>3 DEF AliasedItem, Item
  <2>7. QED
    BY <2>4, <2>5, <2>6
<1> HIDE DEF hidden
<1>11. HasShortNames(cur)'
  BY <1>1, <1>4, <1>10 DEF HasShortNames, IsImported
<1>12. \A k \in Named : Hide(cur.ir, k, cur.hidden[k])'
  BY <1>1, <1>4, <1>9, SameHide
<1>13. Good(cur.ir)' /\ \A m \in (DepsOf(cur.mod) \ cur.deps)' : Holds(cur.ir, m)'
  <2>1. Good(cur.ir)'
    BY <1>1, <1>4, <1>7, SameGood
  <2>2. (DepsOf(cur.mod) \ cur.deps)' = DepsOf(cur.mod)
    BY <1>1, <1>4 DEF DepsOf
  <2>3. QED
    BY <1>1, <1>4, <1>8, <2>1, <2>2, SameHolds
<1>14. IsAnalyzed' /\ AllComplete'
  BY <1>1, SameAnalyzed, SameAllComplete DEF MInv
<1>15. QED
  BY <1>1, <1>4, <1>11, <1>12, <1>13, <1>14 DEF MInv

LEMMA LowerOwnKeepsMeaning ==
  ASSUME IInv, IInv', MInv, LowerOwn
  PROVE  MInv'
<1> DEFINE new == LowerFile(cur.mod, cur.ir)
<1>1. /\ phase = "lower" /\ phase' = "finish" /\ prog' = prog /\ linked' = linked
      /\ cur' = [cur EXCEPT !.ir = new]
  BY DEF LowerOwn
<1>2. /\ cur \in Work /\ prog \in Program /\ Whole(cur.ir, DOMAIN linked)
      /\ DOMAIN linked \subseteq Files /\ cur.ir \in Ir /\ cur.mod \in Modules
      /\ \A k \in Kinds : cur.counts[k] = Len(cur.ir.items[k])
  BY <1>1 DEF IInv, TypeOK, Whole, Work
<1>3. Ready(cur)
  <2>1. Once(cur.ir) /\ From(cur.ir, Files)
    BY <1>2 DEF Whole, From
  <2>2. /\ Good(cur.ir) /\ HasShortNames(cur)
        /\ \A k \in Named : Hide(cur.ir, k, cur.hidden[k])
        /\ \A m \in DepsOf(cur.mod) : Holds(cur.ir, m)
    BY <1>1 DEF MInv
  <2>3. QED
    BY <1>2, <2>1, <2>2 DEF Ready
<1>4. /\ cur'.ir = new /\ cur'.mod = cur.mod
      /\ cur'.hidden = cur.hidden /\ cur'.counts = cur.counts
  BY <1>1, <1>2 DEF Work
<1>5. cur' \in Work /\ HalfDone(cur', DOMAIN linked')
  BY <1>1 DEF IInv, TypeOK
<1>6. Lowers(cur, cur')
  BY <1>2, <1>3, <1>4, <1>5 DEF Lowers
<1>7. Complete(FinishModule(cur'), cur.mod)
  <2>1. \A w : Lowers(cur, w) => Complete(FinishModule(w), cur.mod)
    BY <1>2, FinishedTypes, FinishedDefs, FinishedNames DEF Complete, Good, MInv
  <2>2. QED
    BY <1>6, <2>1
<1>8. Complete(FinishModule(cur), cur.mod)'
  BY <1>1, <1>4, <1>7, SameComplete
<1>9. IsAnalyzed' /\ AllComplete'
  BY <1>1, SameAnalyzed, SameAllComplete DEF MInv
<1>10. QED
  BY <1>1, <1>8, <1>9 DEF MInv

LEMMA FinishKeepsMeaning ==
  ASSUME IInv, MInv, Finish
  PROVE  MInv'
<1> DEFINE new == FinishModule(cur)
<1>1. /\ phase = "finish" /\ prog' = prog
      /\ IF cur.mod = Entry
         THEN cur' = [cur EXCEPT !.ir = new] /\ phase' = "rename" /\ linked' = linked
         ELSE /\ linked' = [m \in DOMAIN linked \cup {cur.mod} |->
                               IF m = cur.mod THEN new ELSE linked[m]]
              /\ cur' = NoWork /\ phase' = "idle"
  BY DEF Finish
<1>2. cur \in Work /\ cur.mod \notin DOMAIN linked
  BY <1>1 DEF IInv, TypeOK, StartsWithItself
<1>3. Complete(new, cur.mod) /\ AllComplete
  BY <1>1 DEF MInv
<1>4. IsAnalyzed'
  BY <1>1, SameAnalyzed DEF MInv
<1> HIDE DEF new
<1>5. CASE cur.mod = Entry
  <2>1. phase' = "rename" /\ cur'.ir = new /\ linked' = linked
    BY <1>1, <1>2, <1>5 DEF Work
  <2>2. TypesRight(cur.ir)'
    BY <1>1, <1>3, <2>1, SameTypesRight DEF Complete, Good
  <2>3. AllComplete'
    BY <1>1, <1>3, <2>1, SameAllComplete
  <2>4. QED
    BY <1>4, <2>1, <2>2, <2>3 DEF MInv
<1>6. CASE cur.mod # Entry
  <2>1. /\ phase' = "idle" /\ DOMAIN linked' = DOMAIN linked \cup {cur.mod}
        /\ linked'[cur.mod] = new
        /\ \A m \in DOMAIN linked : linked'[m] = linked[m]
    BY <1>1, <1>2, <1>6
  <2>2. \A m \in DOMAIN linked' : Complete(linked'[m], m)
    BY <1>3, <2>1 DEF AllComplete
  <2>3. AllComplete'
    BY <1>1, <2>2, SameComplete DEF AllComplete
  <2>4. QED
    BY <1>4, <2>1, <2>3 DEF MInv
<1>7. QED
  BY <1>5, <1>6

\* What comes after the entry module is finished leaves the types alone.
LEMMA RewriteKeepsMeaning ==
  ASSUME IInv, MInv, phase \in {"rename", "resolve"}, phase' \in {"resolve", "done"},
         prog' = prog, linked' = linked, NEW new, Rewritten(cur.ir, new),
         KeepsTypes(cur.ir, new), cur' = [cur EXCEPT !.ir = new]
  PROVE  MInv'
<1>1. cur \in Work /\ cur.ir \in Ir /\ TypesRight(cur.ir)
  BY DEF IInv, TypeOK, Work, MInv
<1>2. TypesRight(new)
  BY <1>1, RewrittenTypes
<1>3. cur'.ir = new
  BY <1>1 DEF Work
<1>4. TypesRight(cur.ir)'
  BY <1>2, <1>3, SameTypesRight
<1>5. IsAnalyzed' /\ AllComplete'
  BY SameAnalyzed, SameAllComplete DEF MInv
<1>6. QED
  BY <1>4, <1>5 DEF MInv

LEMMA RenameKeepsMeaning ==
  ASSUME IInv, MInv, Rename
  PROVE  MInv'
<1>1. /\ phase = "rename" /\ phase' = "resolve" /\ prog' = prog /\ linked' = linked
      /\ cur' = [cur EXCEPT !.ir = FinishEntry(cur.ir)]
  BY DEF Rename
<1>2. prog \in Program /\ cur.ir \in Ir
  BY <1>1 DEF IInv, TypeOK, Work
<1>3. Rewritten(cur.ir, FinishEntry(cur.ir)) /\ KeepsTypes(cur.ir, FinishEntry(cur.ir))
  BY <1>2, FinishEntryShape, FinishEntryKeepsTypes
<1>4. QED
  BY <1>1, <1>3, RewriteKeepsMeaning

LEMMA ResolveKeepsMeaning ==
  ASSUME IInv, MInv, Resolve
  PROVE  MInv'
<1>1. /\ phase = "resolve" /\ phase' = "done" /\ prog' = prog /\ linked' = linked
      /\ cur' = [cur EXCEPT !.ir = ResolveReferences(cur.ir)]
  BY DEF Resolve
<1>2. cur.ir \in Ir
  BY <1>1 DEF IInv, TypeOK, Work
<1>3. /\ Rewritten(cur.ir, ResolveReferences(cur.ir))
      /\ KeepsTypes(cur.ir, ResolveReferences(cur.ir))
  BY <1>2, ResolvedShape, ResolveKeepsTypes
<1>4. QED
  BY <1>1, <1>3, RewriteKeepsMeaning

LEMMA MeaningStep ==
  ASSUME IInv, IInv', MInv, [Next]_vars
  PROVE  MInv'
<1>1. CASE Next
  BY <1>1, StartKeepsMeaning, LinkDepKeepsMeaning, AliasKeepsMeaning, LowerOwnKeepsMeaning,
     FinishKeepsMeaning, RenameKeepsMeaning, ResolveKeepsMeaning DEF Next
<1>2. CASE UNCHANGED vars
  <2>1. prog' = prog /\ linked' = linked /\ cur' = cur /\ phase' = phase
    BY <1>2 DEF vars
  <2>2. IsAnalyzed' /\ AllComplete'
    BY <2>1, SameAnalyzed, SameAllComplete DEF MInv
  <2>3. /\ Good(cur.ir)' <=> Good(cur.ir)
        /\ HasHiddenNames(cur.ir)' <=> HasHiddenNames(cur.ir)
        /\ TypesRight(cur.ir)' <=> TypesRight(cur.ir)
        /\ HasShortNames(cur)' <=> HasShortNames(cur)
        /\ Complete(FinishModule(cur), cur.mod)' <=> Complete(FinishModule(cur), cur.mod)
    BY <2>1, SameGood, SameHiddenNames, SameTypesRight, SameShortNames, SameComplete
  <2>4. (\A k \in Named : Hide(cur.ir, k, cur.hidden[k]))'
          <=> \A k \in Named : Hide(cur.ir, k, cur.hidden[k])
    BY <2>1, SameHide
  <2>5. (\A m \in DepsOf(cur.mod) \ cur.deps : Holds(cur.ir, m))'
          <=> \A m \in DepsOf(cur.mod) \ cur.deps : Holds(cur.ir, m)
    BY <2>1, SameHolds DEF DepsOf
  <2>6. QED
    BY <2>1, <2>2, <2>3, <2>4, <2>5 DEF MInv
<1>3. QED
  BY <1>1, <1>2

LEMMA MeaningInvariant ==
  Spec => []MInv
<1>1. Init => MInv
  BY MeaningInit
<1>2. IInv /\ IInv' /\ MInv /\ [Next]_vars => MInv'
  BY MeaningStep
<1>3. QED
  BY <1>1, <1>2, LinkingInvariant, PTL DEF Spec

LEMMA MeaningFollows ==
  ASSUME IInv, MInv
  PROVE  TypesKeepTheirMeaning
<1>1. \A ir \in Irs : TypesRight(ir)
  BY DEF IInv, MInv, AllComplete, Complete, Good, Irs, TypeOK, Phases
<1>2. QED
  BY <1>1 DEF TypesKeepTheirMeaning, TypesRight, TypeIsRight

\* For every program that the analysis accepts, every prelude and every number
\* of files, in every order of the modules: an id of a type, in the module that
\* wrote it and in every copy of it, is the id of a struct that the source means
\* there; so an id table never points a copy at another module's struct.
\* (`scoped_type_name`, `IdMaps`, `link_into`, `finish_module`, `finish_entry`)
THEOREM LinkingTypesKeepTheirMeaning ==
  Spec => []TypesKeepTheirMeaning
<1>1. QED
  BY LinkingInvariant, MeaningInvariant, MeaningFollows, PTL

LEMMA LentFollows ==
  ASSUME IInv, MInv
  PROVE  ShortNamesAreLent
<1> SUFFICES ASSUME NEW m \in DOMAIN linked, NEW k \in Named,
                    NEW i \in OwnIndices(linked[m], k)
             PROVE  linked[m].items[k][i].name.home = OriginOf(linked[m], k, i).module
  BY DEF ShortNamesAreLent
<1> DEFINE ir == linked[m]
<1>1. ir \in Ir /\ Once(ir) /\ k \in Kinds
  BY KindsAre DEF IInv, Whole
<1>2. Hide(ir, k, Names(ir, k))
  BY DEF MInv, AllComplete, Complete, HasHiddenNames
<1> HIDE DEF ir
<1>3. i \in DOMAIN ir.items[k] /\ IsOwn(k, i)
  BY DEF OwnIndices, ir
<1>4. ir.items[k][i].name = HiddenName(ir, k, i)
  BY <1>1, <1>2, <1>3, HiddenIs
<1>5. HiddenName(ir, k, i).home = OriginOf(ir, k, i).module
  BY <1>3 DEF HiddenName
<1>6. QED
  BY <1>4, <1>5 DEF ir

\* And in every finished module each struct and function of a module file has
\* the hidden name of the module that defines it: a short name that an import
\* lends it is taken back. (`alias_imports`, `hide_own_name`, `finish_module`)
THEOREM LinkingShortNamesAreLent ==
  Spec => []ShortNamesAreLent
<1>1. QED
  BY LinkingInvariant, MeaningInvariant, LentFollows, PTL

-----------------------------------------------------------------------------
(* No name twice: the invariant. *)

\* Each item with an origin stands for a definition of its module, and each
\* function has the labels that it has in the source.
Lawful(ir) ==
    \A k \in Named : \A i \in DOMAIN ir.items[k] :
        /\ IsOwn(k, i) => OriginOf(ir, k, i).ordinal \in DOMAIN OwnOf(OriginOf(ir, k, i).module, k)
        /\ k = "function" => ir.items[k][i].sig = SigOf(k, OriginAt(ir, k, i))

\* Two items that nothing but their ids could tell apart.
Alike(ir, k, i, j) ==
    /\ ir.items[k][i].name = ir.items[k][j].name
    /\ k = "function" => ir.items[k][i].sig = ir.items[k][j].sig

NoneAlike(ir) ==
    \A k \in Named : \A i, j \in DOMAIN ir.items[k] : Alike(ir, k, i, j) => i = j

UInv ==
    /\ PathsAreClear
    /\ phase = "idle" => cur = NoWork
    /\ \A m \in DOMAIN linked : Lawful(linked[m])
    /\ phase \in {"link", "lower"} => Lawful(cur.ir)
    /\ phase = "finish" => NoneAlike(cur.ir) /\ Lawful(FinishModule(cur))
    /\ phase = "rename" => HasHiddenNames(cur.ir) /\ Lawful(cur.ir)
    /\ phase \in {"resolve", "done"} => NoneAlike(cur.ir)

-----------------------------------------------------------------------------
(* What a path means at the top level, it means once. *)

LEMMA ModulesAre ==
  /\ PreludeModule \notin Modules /\ Entry \in Modules /\ Files \subseteq Modules
  /\ Entry \notin Files /\ 0 \notin Files /\ Entry = 0
BY FilesAreCounted DEF PreludeModule, Modules, Entry, Files

LEMMA PreludePlaces ==
  ASSUME NEW ir \in Ir, NEW k \in Kinds, NEW i \in DOMAIN ir.items[k], ~ IsOwn(k, i)
  PROVE  /\ i \in DOMAIN Prelude[k]
         /\ OriginAt(ir, k, i) = [module |-> PreludeModule, ordinal |-> i]
<1>1. i \in Nat /\ i >= 1 /\ PreludeCounts[k] \in Nat
  BY IrFacts, PreludeFacts
<1>2. i \in 1..Len(Prelude[k])
  BY <1>1, PreludeFacts DEF IsOwn
<1>3. i \in DOMAIN Prelude[k]
  BY <1>2, PreludeFacts, LenProperties
<1>4. QED
  BY <1>3 DEF OriginAt

LEMMA OwnPlaces ==
  ASSUME NEW ir \in Ir, Once(ir), From(ir, Modules), NEW k \in Kinds,
         NEW i \in DOMAIN ir.items[k], IsOwn(k, i)
  PROVE  /\ OriginOf(ir, k, i) \in Origin /\ OriginOf(ir, k, i).module \in Modules
         /\ i - PreludeCounts[k] \in DOMAIN ir.origins[k]
         /\ OriginAt(ir, k, i) = OriginOf(ir, k, i)
<1>1. i \in OwnIndices(ir, k)
  BY DEF OwnIndices
<1>2. /\ OriginOf(ir, k, i) \in Origin
      /\ i - PreludeCounts[k] \in DOMAIN ir.origins[k]
  BY <1>1, OwnFacts
<1>3. QED
  BY <1>2 DEF OriginAt, OriginOf, From

\* An item has its origin for itself.
LEMMA OriginsDiffer ==
  ASSUME NEW ir \in Ir, Once(ir), From(ir, Modules), NEW k \in Kinds,
         NEW i \in DOMAIN ir.items[k], NEW j \in DOMAIN ir.items[k],
         OriginAt(ir, k, i) = OriginAt(ir, k, j)
  PROVE  i = j
<1>0. i \in Nat /\ j \in Nat /\ PreludeCounts[k] \in Nat
  BY IrFacts, PreludeFacts
<1>1. CASE ~ IsOwn(k, i) /\ ~ IsOwn(k, j)
  BY <1>1, PreludePlaces
<1>2. CASE ~ IsOwn(k, i) /\ IsOwn(k, j)
  <2>1. OriginAt(ir, k, i).module = PreludeModule /\ OriginAt(ir, k, j).module \in Modules
    BY <1>2, PreludePlaces, OwnPlaces
  <2>2. QED
    BY <2>1, ModulesAre
<1>3. CASE IsOwn(k, i) /\ ~ IsOwn(k, j)
  <2>1. OriginAt(ir, k, j).module = PreludeModule /\ OriginAt(ir, k, i).module \in Modules
    BY <1>3, PreludePlaces, OwnPlaces
  <2>2. QED
    BY <2>1, ModulesAre
<1>4. CASE IsOwn(k, i) /\ IsOwn(k, j)
  <2>1. /\ i - PreludeCounts[k] \in DOMAIN ir.origins[k]
        /\ j - PreludeCounts[k] \in DOMAIN ir.origins[k]
        /\ OriginOf(ir, k, i) = OriginOf(ir, k, j)
    BY <1>4, OwnPlaces
  <2>2. i - PreludeCounts[k] = j - PreludeCounts[k]
    BY <2>1 DEF Once, OriginOf
  <2>3. QED
    BY <1>0, <2>2
<1>5. QED
  BY <1>1, <1>2, <1>3, <1>4

LEMMA MeansOnce ==
  ASSUME NoClashes, NEW ir \in Ir, Once(ir), From(ir, Modules), Lawful(ir),
         NEW k \in Named, NEW i \in DOMAIN ir.items[k], NEW j \in DOMAIN ir.items[k],
         k = "function" => ir.items[k][i].sig = ir.items[k][j].sig,
         NEW m \in Modules, NEW path \in PathsOf(k),
         OriginAt(ir, k, i) \in AtTop(m, k, path), OriginAt(ir, k, j) \in AtTop(m, k, path)
  PROVE  i = j
<1> DEFINE o == OriginAt(ir, k, i)
           r == OriginAt(ir, k, j)
<1>1. k = "function" => SigOf(k, o) = SigOf(k, r)
  BY DEF Lawful
<1> HIDE DEF o, r
<1>2. o = r
  BY <1>1 DEF NoClashes, o, r
<1>3. QED
  BY <1>2, OriginsDiffer, KindsAre DEF o, r

\* The hidden name of an item: the module that has it, and a path that means it
\* there.
HiddenMeans(ir, k, i) ==
    LET h == HiddenName(ir, k, i)
    IN  /\ h.home \in Modules /\ h.mark = 0 /\ h.path \in PathsOf(k)
        /\ h = [home |-> h.home, mark |-> 0, path |-> h.path]
        /\ OriginAt(ir, k, i) \in AtTop(h.home, k, h.path)
        /\ IsOwn(k, i) => /\ h.home = OriginOf(ir, k, i).module
                          /\ OriginAt(ir, k, i) \in Defined(h.home, k, h.path)
        /\ ~ IsOwn(k, i) => h.home = 0 /\ Prelude[k][i].name = Plain(h.path)

LEMMA HiddenNamesMean ==
  ASSUME prog \in Program, NEW ir \in Ir, Once(ir), From(ir, Modules), Lawful(ir),
         NEW k \in Named, NEW i \in DOMAIN ir.items[k]
  PROVE  HiddenMeans(ir, k, i)
<1> DEFINE h == HiddenName(ir, k, i)
           o == OriginOf(ir, k, i)
<1>0. k \in Kinds
  BY KindsAre
<1>1. CASE IsOwn(k, i)
  <2>1. o \in Origin /\ o.module \in Modules /\ OriginAt(ir, k, i) = o
    BY <1>0, <1>1, OwnPlaces
  <2>2. o.ordinal \in DOMAIN OwnOf(o.module, k) /\ o = [module |-> o.module, ordinal |-> o.ordinal]
    BY <1>1, <2>1 DEF Lawful, Origin
  <2>3. h = [home |-> o.module, mark |-> 0, path |-> OwnOf(o.module, k)[o.ordinal].path]
    BY <1>1 DEF HiddenName, DefAt
  <2> DEFINE d == OwnOf(o.module, k)[o.ordinal]
  <2> HIDE DEF o
  <2>4. d.path \in PathsOf(k)
    <3>1. d \in Range(OwnOf(o.module, k))
      BY <2>2 DEF Range
    <3>2. QED
      BY <2>1, <3>1 DEF PathsOf
  <2>5. o \in Defined(o.module, k, d.path)
    BY <2>2 DEF Defined
  <2>6. o \in AtTop(o.module, k, d.path)
    BY <2>5 DEF AtTop
  <2> HIDE DEF d, h
  <2>7. h.home = o.module /\ h.mark = 0 /\ h.path = d.path
    BY <2>3 DEF d
  <2>8. QED
    BY <1>1, <2>1, <2>3, <2>4, <2>5, <2>6, <2>7 DEF HiddenMeans, h, o, d
<1>2. CASE ~ IsOwn(k, i)
  <2>1. i \in DOMAIN Prelude[k] /\ OriginAt(ir, k, i) = [module |-> PreludeModule, ordinal |-> i]
    BY <1>0, <1>2, PreludePlaces
  <2>2. h = Prelude[k][i].name /\ Prelude[k][i].name = Plain(Prelude[k][i].name.path)
    BY <1>2, <2>1, PreludeIsOpen DEF HiddenName
  <2> HIDE DEF h
  <2>3. h = Plain(h.path) /\ h = [home |-> 0, mark |-> 0, path |-> h.path]
    BY <2>2 DEF Plain
  <2>4. h.path \in PathsOf(k)
    BY <2>1, <2>2 DEF PathsOf
  <2>5. OriginAt(ir, k, i) \in AtTop(Entry, k, h.path)
    BY <2>1, <2>2, <2>3 DEF AtTop
  <2>6. h.home = 0 /\ h.mark = 0
    BY <2>3
  <2>7. QED
    BY <1>2, <2>2, <2>3, <2>4, <2>5, <2>6, ModulesAre DEF HiddenMeans, h
<1>3. QED
  BY <1>1, <1>2

\* Hidden names tell the items apart.
LEMMA HiddenApart ==
  ASSUME prog \in Program, NoClashes, NEW ir \in Ir, Once(ir), From(ir, Modules), Lawful(ir),
         NEW k \in Named, NEW i \in DOMAIN ir.items[k], NEW j \in DOMAIN ir.items[k],
         k = "function" => ir.items[k][i].sig = ir.items[k][j].sig,
         HiddenName(ir, k, i) = HiddenName(ir, k, j)
  PROVE  i = j
<1> DEFINE h == HiddenName(ir, k, i)
<1>1. HiddenMeans(ir, k, i) /\ HiddenMeans(ir, k, j)
  BY HiddenNamesMean
<1>2. h.home \in Modules /\ h.path \in PathsOf(k)
  BY <1>1 DEF HiddenMeans
<1>3. /\ OriginAt(ir, k, i) \in AtTop(h.home, k, h.path)
      /\ OriginAt(ir, k, j) \in AtTop(h.home, k, h.path)
  BY <1>1 DEF HiddenMeans
<1> HIDE DEF h
<1>4. QED
  BY <1>2, <1>3, MeansOnce

LEMMA HiddenNoneAlike ==
  ASSUME prog \in Program, NoClashes, NEW ir \in Ir, Once(ir), From(ir, Modules), Lawful(ir),
         HasHiddenNames(ir)
  PROVE  NoneAlike(ir)
<1> SUFFICES ASSUME NEW k \in Named, NEW i \in DOMAIN ir.items[k], NEW j \in DOMAIN ir.items[k],
                    Alike(ir, k, i, j)
             PROVE  i = j
  BY DEF NoneAlike
<1>1. Hide(ir, k, Names(ir, k)) /\ k \in Kinds
  BY KindsAre DEF HasHiddenNames
<1>2. /\ ir.items[k][i].name = HiddenName(ir, k, i)
      /\ ir.items[k][j].name = HiddenName(ir, k, j)
  BY <1>1, HiddenIs
<1>3. QED
  BY <1>2, HiddenApart DEF Alike

-----------------------------------------------------------------------------
(* No name twice while a module lowers. *)

\* What the names of a module rest on before its own definitions lower.
Lowering(w) ==
    /\ w.ir \in Ir /\ Once(w.ir) /\ From(w.ir, Files) /\ w.mod \in Modules /\ Lawful(w.ir)
    /\ \A k \in Named : Hide(w.ir, k, w.hidden[k])
    /\ HasShortNames(w)

\* A short name is one that the module's imports, or the prelude, give it.
LEMMA ShortNamesMean ==
  ASSUME prog \in Program, NEW w, Lowering(w), NEW k \in Named,
         NEW i \in DOMAIN w.ir.items[k]
  PROVE  LET name == w.ir.items[k][i].name
         IN  \/ name.home # 0 /\ name = HiddenName(w.ir, k, i)
             \/ /\ name = Plain(name.path) /\ name.path \in PathsOf(k)
                /\ OriginAt(w.ir, k, i) \in AtTop(w.mod, k, name.path)
<1> DEFINE name == w.ir.items[k][i].name
           h == HiddenName(w.ir, k, i)
<1>0. k \in Kinds /\ w.ir \in Ir /\ Once(w.ir) /\ From(w.ir, Modules) /\ Lawful(w.ir)
  BY KindsAre, ModulesAre DEF Lowering, From
<1>1. HiddenMeans(w.ir, k, i)
  BY <1>0, HiddenNamesMean
<1>2. w.hidden[k][i] = h
  <2>1. i \in 1..(PreludeCounts[k] + Len(w.ir.origins[k]))
    BY <1>0, HiddenIs
  <2>2. QED
    BY <2>1 DEF Lowering, Hide
<1>3. name = IF IsImported(w.mod, h) THEN Plain(h.path) ELSE h
  <2>1. w.ir.items[k][i].name = IF IsImported(w.mod, w.hidden[k][i])
                                THEN Plain(w.hidden[k][i].path) ELSE w.hidden[k][i]
    BY DEF Lowering, HasShortNames
  <2> HIDE DEF h
  <2>2. QED
    BY <1>2, <2>1
<1>4. CASE IsImported(w.mod, h)
  <2>1. h.home # 0 /\ prog.imports[w.mod][Head(h.path)] = h.home
    BY <1>4 DEF IsImported
  <2>2. IsOwn(k, i)
    BY <1>1, <2>1 DEF HiddenMeans
  <2>3. OriginAt(w.ir, k, i) \in Defined(h.home, k, h.path) /\ h.path \in PathsOf(k)
    BY <1>1, <2>2 DEF HiddenMeans
  <2> HIDE DEF h
  <2>4. OriginAt(w.ir, k, i) \in AtTop(w.mod, k, h.path)
    BY <2>1, <2>3 DEF AtTop
  <2>5. name = Plain(h.path)
    BY <1>3, <1>4
  <2> HIDE DEF name
  <2>6. name.path = h.path
    BY <2>5 DEF Plain
  <2>7. QED
    BY <2>3, <2>4, <2>5, <2>6 DEF name
<1>5. CASE ~ IsImported(w.mod, h) /\ h.home # 0
  BY <1>3, <1>5
<1>6. CASE h.home = 0
  <2>1. ~ IsImported(w.mod, h)
    BY <1>6 DEF IsImported
  <2>2. ~ IsOwn(k, i)
    <3>1. ASSUME IsOwn(k, i) PROVE FALSE
      <4>1. h.home = OriginOf(w.ir, k, i).module /\ i - PreludeCounts[k] \in DOMAIN w.ir.origins[k]
        BY <1>0, <1>1, <3>1, OwnPlaces DEF HiddenMeans
      <4>2. OriginOf(w.ir, k, i).module \in Files
        BY <1>0, <4>1 DEF Lowering, From, OriginOf
      <4>3. QED
        BY <1>6, <4>1, <4>2, ModulesAre
    <3>2. QED
      BY <3>1
  <2>3. Prelude[k][i].name = Plain(h.path) /\ h.path \in PathsOf(k)
    BY <1>1, <2>2 DEF HiddenMeans
  <2>4. i \in DOMAIN Prelude[k] /\ OriginAt(w.ir, k, i) = [module |-> PreludeModule, ordinal |-> i]
    BY <1>0, <2>2, PreludePlaces
  <2>5. h = Prelude[k][i].name
    BY <2>2 DEF HiddenName
  <2> HIDE DEF h
  <2>6. name = Plain(h.path)
    BY <1>3, <2>1, <2>3, <2>5
  <2> HIDE DEF name
  <2>7. name.path = h.path
    BY <2>6 DEF Plain
  <2>8. OriginAt(w.ir, k, i) \in AtTop(w.mod, k, h.path)
    BY <2>3, <2>4 DEF AtTop
  <2>9. QED
    BY <2>3, <2>6, <2>7, <2>8 DEF name
<1>7. QED
  BY <1>4, <1>5, <1>6

LEMMA ShortNoneAlike ==
  ASSUME prog \in Program, NoClashes, NEW w, Lowering(w)
  PROVE  NoneAlike(w.ir)
<1> SUFFICES ASSUME NEW k \in Named, NEW i \in DOMAIN w.ir.items[k],
                    NEW j \in DOMAIN w.ir.items[k], Alike(w.ir, k, i, j)
             PROVE  i = j
  BY DEF NoneAlike
<1> DEFINE name == w.ir.items[k][i].name
<1>0. w.ir \in Ir /\ Once(w.ir) /\ From(w.ir, Modules) /\ Lawful(w.ir) /\ w.mod \in Modules
  BY ModulesAre DEF Lowering, From
<1>1. name = w.ir.items[k][j].name
  BY DEF Alike
<1>2. CASE name.home # 0
  <2>1. name = HiddenName(w.ir, k, i) /\ name = HiddenName(w.ir, k, j)
    <3>1. \A p : Plain(p).home = 0
      BY DEF Plain
    <3>2. ASSUME NEW l \in DOMAIN w.ir.items[k], w.ir.items[k][l].name = name
          PROVE  name = HiddenName(w.ir, k, l)
      <4>1. \/ name = HiddenName(w.ir, k, l)
            \/ name = Plain(name.path)
        <5> HIDE DEF name
        <5>1. QED
          BY <3>2, ShortNamesMean
      <4> HIDE DEF name
      <4>2. QED
        BY <1>2, <3>1, <4>1
    <3>3. QED
      BY <1>1, <3>2
  <2>2. QED
    BY <1>0, <2>1, HiddenApart DEF Alike
<1>3. CASE name.home = 0
  <2>1. /\ name.path \in PathsOf(k)
        /\ OriginAt(w.ir, k, i) \in AtTop(w.mod, k, name.path)
        /\ OriginAt(w.ir, k, j) \in AtTop(w.mod, k, name.path)
    BY <1>1, <1>3, ShortNamesMean
  <2> HIDE DEF name
  <2>2. QED
    BY <1>0, <2>1, MeansOnce DEF Alike
<1>4. QED
  BY <1>2, <1>3

\* The own definitions, with their plain names, come behind.
LEMMA LoweredNoneAlike ==
  ASSUME prog \in Program, NoClashes, NEW w, Lowering(w), NEW mods,
         From(w.ir, mods), w.mod \notin mods
  PROVE  NoneAlike(LowerFile(w.mod, w.ir))
<1> DEFINE new == LowerFile(w.mod, w.ir)
<1> SUFFICES ASSUME NEW k \in Named, NEW i \in DOMAIN new.items[k],
                    NEW j \in DOMAIN new.items[k], Alike(new, k, i, j)
             PROVE  i = j
  BY DEF NoneAlike
<1> DEFINE c == Len(w.ir.items[k])
           own == OwnOf(w.mod, k)
           n == Len(own)
           name == new.items[k][i].name
           q == name.path
<1>0. /\ k \in Kinds /\ w.ir \in Ir /\ Once(w.ir) /\ From(w.ir, Modules) /\ Lawful(w.ir)
      /\ w.mod \in Modules
  BY KindsAre, ModulesAre DEF Lowering, From
<1>1. c \in Nat /\ n \in Nat /\ DOMAIN w.ir.items[k] = 1..c /\ DOMAIN own = 1..n
  BY <1>0, IrFacts, OwnOfFacts
<1>2. /\ DOMAIN new.items[k] = 1..(c + n)
      /\ \A l \in 1..c : new.items[k][l] = w.ir.items[k][l]
      /\ \A l \in 1..n : new.items[k][c + l] = Lowered(w.mod, w.ir, own[l])
  <2>1. /\ new \in Ir /\ Len(new.items[k]) = c + n
        /\ \A l \in 1..c : new.items[k][l] = w.ir.items[k][l]
        /\ \A l \in 1..n : new.items[k][c + l] = Lowered(w.mod, w.ir, own[l])
    BY <1>0, LowerFileShape
  <2> HIDE DEF new, c, n, own
  <2>2. QED
    BY <1>0, <2>1, IrFacts
<1>3. \A l \in 1..n : /\ new.items[k][c + l].name = Plain(own[l].path)
                      /\ new.items[k][c + l].sig = own[l].sig
  <2>1. \A d : /\ Lowered(w.mod, w.ir, d).name = Plain(d.path)
               /\ Lowered(w.mod, w.ir, d).sig = d.sig
    BY DEF Lowered
  <2> HIDE DEF c, n, own, new
  <2>2. QED
    BY <1>2, <2>1
<1>4. NoneAlike(w.ir)
  BY ShortNoneAlike
<1> DEFINE Soon(l) == IF l \in 1..c THEN OriginAt(w.ir, k, l)
                      ELSE [module |-> w.mod, ordinal |-> l - c]
           sig(l) == new.items[k][l].sig
<1> HIDE DEF c, n, own
<1>5. ASSUME NEW l \in 1..(c + n), new.items[k][l].name = name, name.home = 0
      PROVE  /\ q \in PathsOf(k) /\ Soon(l) \in AtTop(w.mod, k, q)
             /\ k = "function" => sig(l) = SigOf(k, Soon(l))
  <2>1. CASE l \in 1..c
    <3>1. w.ir.items[k][l].name = name /\ w.ir.items[k][l].sig = sig(l)
      BY <1>2, <1>5, <2>1
    <3>2. q \in PathsOf(k) /\ OriginAt(w.ir, k, l) \in AtTop(w.mod, k, q)
      <4> HIDE DEF new, name
      <4>1. QED
        BY <1>1, <1>5, <2>1, <3>1, ShortNamesMean DEF name
    <3>3. k = "function" => w.ir.items[k][l].sig = SigOf(k, OriginAt(w.ir, k, l))
      BY <1>0, <1>1, <2>1 DEF Lawful
    <3>4. Soon(l) = OriginAt(w.ir, k, l)
      BY <2>1
    <3> HIDE DEF Soon, sig, name, new
    <3>5. QED
      BY <3>1, <3>2, <3>3, <3>4
  <2>2. ASSUME NEW e \in 1..n, l = c + e
        PROVE  /\ q \in PathsOf(k) /\ Soon(l) \in AtTop(w.mod, k, q)
               /\ k = "function" => sig(l) = SigOf(k, Soon(l))
    <3>1. l \notin 1..c /\ l - c = e
      BY <1>1, <2>2
    <3>2. Soon(l) = [module |-> w.mod, ordinal |-> e]
      BY <3>1
    <3>3. name = Plain(own[e].path) /\ sig(l) = own[e].sig
      BY <1>3, <1>5, <2>2
    <3> HIDE DEF Soon, sig, name, new
    <3>4. q = own[e].path
      BY <3>3 DEF Plain
    <3>5. e \in DOMAIN OwnOf(w.mod, k) /\ own[e] = OwnOf(w.mod, k)[e]
      BY <1>1 DEF own
    <3>6. q \in PathsOf(k)
      <4>1. own[e] \in Range(OwnOf(w.mod, k))
        BY <3>5 DEF Range
      <4>2. QED
        BY <1>0, <3>4, <4>1 DEF PathsOf
    <3>7. Soon(l) \in AtTop(w.mod, k, q)
      BY <3>2, <3>4, <3>5 DEF AtTop, Defined
    <3>8. SigOf(k, Soon(l)) = own[e].sig
      <4>1. w.mod # PreludeModule
        BY <1>0, ModulesAre
      <4>2. QED
        BY <3>2, <3>5, <4>1 DEF SigOf
    <3>9. QED
      BY <3>3, <3>6, <3>7, <3>8
  <2>3. QED
    <3>1. l \in 1..c \/ \E e \in 1..n : l = c + e
      <4> HIDE DEF new, name
      <4>1. QED
        BY <1>1, Split
    <3>2. QED
      BY <2>1, <2>2, <3>1
<1>6. ASSUME NEW l \in 1..(c + n), new.items[k][l].name.home # 0
      PROVE  l \in 1..c
  <2> HIDE DEF new
  <2>1. \A e \in 1..n : new.items[k][c + e].name.home = 0
    <3>1. \A p : Plain(p).home = 0
      BY DEF Plain
    <3>2. QED
      BY <1>3, <3>1
  <2>2. l \in 1..c \/ \E e \in 1..n : l = c + e
    BY <1>1, Split
  <2>3. QED
    BY <1>6, <2>1, <2>2
<1>7. name = new.items[k][j].name /\ (k = "function" => sig(i) = sig(j))
  BY DEF Alike
<1>8. i \in 1..(c + n) /\ j \in 1..(c + n)
  BY <1>2
<1>9. CASE name.home # 0
  <2>1. i \in 1..c /\ j \in 1..c
    BY <1>6, <1>7, <1>8, <1>9
  <2>2. Alike(w.ir, k, i, j)
    BY <1>2, <1>7, <2>1 DEF Alike
  <2>3. QED
    BY <1>1, <1>4, <2>1, <2>2 DEF NoneAlike
<1>10. CASE name.home = 0
  <2>1. /\ q \in PathsOf(k) /\ Soon(i) \in AtTop(w.mod, k, q) /\ Soon(j) \in AtTop(w.mod, k, q)
        /\ k = "function" => SigOf(k, Soon(i)) = SigOf(k, Soon(j))
    <3>1. /\ q \in PathsOf(k) /\ Soon(i) \in AtTop(w.mod, k, q)
          /\ k = "function" => sig(i) = SigOf(k, Soon(i))
      BY <1>5, <1>8, <1>10
    <3>2. /\ Soon(j) \in AtTop(w.mod, k, q)
          /\ k = "function" => sig(j) = SigOf(k, Soon(j))
      <4>1. new.items[k][j].name = name
        BY <1>7
      <4> HIDE DEF Soon, sig, new, name
      <4>2. QED
        BY <1>5, <1>8, <1>10, <4>1
    <3> HIDE DEF Soon, sig, new, name
    <3>3. QED
      BY <1>7, <3>1, <3>2
  <2> HIDE DEF Soon, name, new
  <2>2. Soon(i) = Soon(j)
    BY <1>0, <2>1 DEF NoClashes
  <2>3. ASSUME NEW l \in 1..c PROVE Soon(l).module # w.mod
    <3>1. Soon(l) = OriginAt(w.ir, k, l) /\ l \in DOMAIN w.ir.items[k]
      BY <1>1 DEF Soon
    <3>2. CASE IsOwn(k, l)
      <4>1. OriginAt(w.ir, k, l) = OriginOf(w.ir, k, l) /\ OriginOf(w.ir, k, l).module \in mods
        BY <1>0, <3>1, <3>2, OwnPlaces DEF From, OriginOf
      <4>2. QED
        BY <3>1, <4>1
    <3>3. CASE ~ IsOwn(k, l)
      <4>1. OriginAt(w.ir, k, l).module = PreludeModule
        BY <1>0, <3>1, <3>3, PreludePlaces
      <4>2. QED
        BY <1>0, <3>1, <4>1, ModulesAre
    <3>4. QED
      BY <3>2, <3>3
  <2>4. ASSUME NEW l \in (1..(c + n)) \ (1..c)
        PROVE  Soon(l) = [module |-> w.mod, ordinal |-> l - c]
    BY DEF Soon
  <2>5. CASE i \in 1..c /\ j \in 1..c
    <3>1. Soon(i) = OriginAt(w.ir, k, i) /\ Soon(j) = OriginAt(w.ir, k, j)
      BY <2>5 DEF Soon
    <3>2. QED
      BY <1>0, <1>1, <2>2, <2>5, <3>1, OriginsDiffer
  <2>6. CASE i \notin 1..c /\ j \notin 1..c
    <3>1. i - c = j - c
      BY <1>8, <2>2, <2>4, <2>6
    <3>2. QED
      BY <1>1, <1>8, <3>1
  <2>7. CASE i \in 1..c /\ j \notin 1..c
    <3>1. Soon(j).module = w.mod
      BY <1>8, <2>4, <2>7
    <3>2. QED
      BY <2>2, <2>3, <2>7, <3>1
  <2>8. CASE i \notin 1..c /\ j \in 1..c
    <3>1. Soon(i).module = w.mod
      BY <1>8, <2>4, <2>8
    <3>2. QED
      BY <2>2, <2>3, <2>8, <3>1
  <2>9. QED
    BY <2>5, <2>6, <2>7, <2>8
<1>11. QED
  BY <1>9, <1>10

-----------------------------------------------------------------------------
(* No name twice in the end. *)

LEMMA JoinedPaths ==
  ASSUME NEW s \in Path, NEW p \in Path, NEW q \in Path
  PROVE  /\ s \o p \in Seq(Segments) /\ Len(s \o p) > 1 /\ Head(s \o p) = Head(s)
         /\ s \o p = s \o q => p = q
<1>1. /\ s \in Seq(Segments) /\ p \in Seq(Segments) /\ q \in Seq(Segments)
      /\ Len(s) \in Nat /\ Len(p) \in Nat /\ Len(q) \in Nat
      /\ Len(s) >= 1 /\ Len(p) >= 1
  BY LenProperties, EmptySeq DEF Path
<1>2. /\ s \o p \in Seq(Segments) /\ Len(s \o p) = Len(s) + Len(p) /\ Len(s \o q) = Len(s) + Len(q)
      /\ \A i \in 1..Len(s) : (s \o p)[i] = s[i]
      /\ \A i \in 1..Len(p) : (s \o p)[Len(s) + i] = p[i]
      /\ \A i \in 1..Len(q) : (s \o q)[Len(s) + i] = q[i]
  BY <1>1, Joined, ConcatProperties
<1>3. Head(s \o p) = (s \o p)[1] /\ Head(s) = s[1] /\ (s \o p)[1] = s[1]
  BY <1>1, <1>2
<1>4. ASSUME s \o p = s \o q PROVE p = q
  <2>1. Len(p) = Len(q)
    BY <1>1, <1>2, <1>4
  <2>2. \A i \in 1..Len(p) : p[i] = q[i]
    BY <1>2, <1>4, <2>1
  <2>3. QED
    BY <1>1, <2>1, <2>2, SeqEqual
<1>5. QED
  BY <1>1, <1>2, <1>3, <1>4

\* A hidden name of the module, of an item of that kind.
Hidden(ir, k, h) ==
    /\ h = [home |-> h.home, mark |-> 0, path |-> h.path] /\ h.path \in Seq(Segments)
    /\ \E i \in DOMAIN ir.items[k] : Names(ir, k)[i] = h
    /\ h.home # 0 => /\ h.home \in Files /\ h.path \in Path
                     /\ \E d \in Range(OwnOf(h.home, k)) : d.path = h.path

LEMMA HiddenNamesAre ==
  ASSUME prog \in Program, NEW ir \in Ir, Once(ir), From(ir, Modules), Lawful(ir),
         HasHiddenNames(ir), NEW k \in Named, NEW i \in DOMAIN ir.items[k]
  PROVE  /\ Hidden(ir, k, ir.items[k][i].name)
         /\ ir.items[k][i].name = HiddenName(ir, k, i)
<1> DEFINE h == ir.items[k][i].name
<1>1. k \in Kinds /\ Hide(ir, k, Names(ir, k))
  BY KindsAre DEF HasHiddenNames
<1>2. h = HiddenName(ir, k, i) /\ Names(ir, k)[i] = h
  BY <1>1, HiddenIs
<1>3. h \in Name
  BY <1>1, IrFacts DEF Item
<1>4. HiddenMeans(ir, k, i)
  BY HiddenNamesMean
<1>5. h = [home |-> h.home, mark |-> 0, path |-> h.path] /\ h.path \in Seq(Segments)
  BY <1>2, <1>3, <1>4 DEF HiddenMeans, Name
<1>6. ASSUME h.home # 0
      PROVE  /\ h.home \in Files /\ h.path \in Path
             /\ \E d \in Range(OwnOf(h.home, k)) : d.path = h.path
  <2>1. h.home \in Files
    BY <1>2, <1>4, <1>6 DEF HiddenMeans, Modules, Entry
  <2>2. OriginAt(ir, k, i) \in Defined(h.home, k, h.path)
    BY <1>2, <1>4, <1>6 DEF HiddenMeans
  <2>3. PICK j \in DOMAIN OwnOf(h.home, k) : OwnOf(h.home, k)[j].path = h.path
    BY <2>2 DEF Defined
  <2> HIDE DEF h
  <2>4. OwnOf(h.home, k)[j] \in Def /\ OwnOf(h.home, k)[j] \in Range(OwnOf(h.home, k))
    BY <1>1, <2>1, <2>3, ModulesAre, OwnOfFacts, ElementOfSeq DEF Range
  <2>5. QED
    BY <2>1, <2>3, <2>4 DEF Def
<1> HIDE DEF h
<1>7. QED
  BY <1>2, <1>5, <1>6 DEF Hidden, h

\* The id that a final name carries for the file.
MarkOf(ir, f) == IF IsMarked(ir, f) THEN f ELSE 0

LEMMA FinalNameIs ==
  ASSUME prog \in Program, NEW ir, NEW k, NEW h, Hidden(ir, k, h)
  PROVE  /\ h.home = 0 => FinalName(ir, h) = h
         /\ h.home # 0 =>
               /\ FinalName(ir, h).home = 0
               /\ FinalName(ir, h).mark = MarkOf(ir, h.home)
               /\ FinalName(ir, h).path = prog.logical[h.home] \o h.path
               /\ prog.logical[h.home] \in Path
<1>1. h.home = 0 => FinalName(ir, h) = h
  BY DEF FinalName
<1>2. ASSUME h.home # 0
      PROVE  /\ FinalName(ir, h).home = 0
             /\ FinalName(ir, h).mark = MarkOf(ir, h.home)
             /\ FinalName(ir, h).path = prog.logical[h.home] \o h.path
             /\ prog.logical[h.home] \in Path
  <2>1. FinalName(ir, h) = [home |-> 0, mark |-> MarkOf(ir, h.home),
                            path |-> prog.logical[h.home] \o h.path]
    BY <1>2 DEF FinalName, MarkOf
  <2>2. h.home \in Files /\ prog.logical \in [Files -> Path]
    BY <1>2 DEF Hidden, Program
  <2>3. prog.logical[h.home] \in Path
    BY <2>2
  <2> DEFINE new == FinalName(ir, h)
             mark == MarkOf(ir, h.home)
             path == prog.logical[h.home] \o h.path
  <2>4. new = [home |-> 0, mark |-> mark, path |-> path]
    BY <2>1
  <2> HIDE DEF new, mark, path
  <2>5. new.home = 0 /\ new.mark = mark /\ new.path = path
    BY <2>4
  <2>6. QED
    BY <2>3, <2>5 DEF new, mark, path
<1>3. QED
  BY <1>1, <1>2

\* A name of the entry module's own, or of the prelude, is no imported one.
LEMMA PlainApart ==
  ASSUME prog \in Program, NEW ir \in Ir, NEW k \in Named, NEW a, NEW b,
         Hidden(ir, k, a), Hidden(ir, k, b), a.home = 0, b.home # 0
  PROVE  FinalName(ir, a) # FinalName(ir, b)
<1> DEFINE path == prog.logical[b.home] \o b.path
<1> SUFFICES ASSUME FinalName(ir, a) = FinalName(ir, b) PROVE FALSE
  OBVIOUS
<1>1. a = FinalName(ir, b)
  <2>1. FinalName(ir, a) = a
    BY FinalNameIs
  <2>2. QED
    BY <2>1
<1>2. /\ FinalName(ir, b).mark = MarkOf(ir, b.home) /\ FinalName(ir, b).path = path
      /\ prog.logical[b.home] \in Path
  BY FinalNameIs
<1>3. a.path = path /\ ~ IsMarked(ir, b.home) /\ b.path \in Path
  <2>1. a.mark = 0 /\ b.path \in Path
    BY DEF Hidden
  <2>2. a.path = path /\ MarkOf(ir, b.home) = 0
    BY <1>1, <1>2, <2>1
  <2>3. QED
    BY <2>1, <2>2 DEF MarkOf
<1>4. Len(a.path) > 1 /\ Head(a.path) = Head(prog.logical[b.home])
  BY <1>2, <1>3, JoinedPaths
<1>5. a \in UNION {ToSet(Names(ir, n)) : n \in Named}
  <2>1. a \in ToSet(Names(ir, k))
    BY DEF Hidden, ToSet, Names
  <2>2. QED
    BY <2>1
<1>6. Head(a.path) \in TakenBySource(ir)
  BY <1>4, <1>5 DEF TakenBySource
<1>7. QED
  BY <1>3, <1>4, <1>6 DEF IsMarked

\* Of two files with one path, the later one has its id in its names.
LEMMA LaterIsMarked ==
  ASSUME NEW ir \in Ir, NEW k \in Named, NEW a, NEW b, Hidden(ir, k, a), Hidden(ir, k, b),
         a.home # 0, a.home < b.home, prog.logical[a.home] = prog.logical[b.home]
  PROVE  IsMarked(ir, b.home)
<1>1. PICK i \in DOMAIN ir.items[k] : Names(ir, k)[i] = a
  BY DEF Hidden
<1>2. a.home \in {Names(ir, k)[n].home : n \in DOMAIN ir.items[k]}
  BY <1>1
<1>3. a.home \in HiddenModules(ir)
  BY <1>2 DEF HiddenModules
<1>4. QED
  BY <1>3 DEF IsMarked

LEMMA FilesApart ==
  ASSUME prog \in Program, NoFileInAnother, NEW ir \in Ir, NEW k \in Named, NEW a, NEW b,
         Hidden(ir, k, a), Hidden(ir, k, b), a.home # 0, b.home # 0,
         FinalName(ir, a) = FinalName(ir, b)
  PROVE  a = b
<1> DEFINE f == a.home
           g == b.home
<1>1. /\ f \in Files /\ g \in Files /\ a.path \in Path /\ b.path \in Path
      /\ \E d \in Range(OwnOf(f, k)) : d.path = a.path
      /\ \E d \in Range(OwnOf(g, k)) : d.path = b.path
      /\ a = [home |-> f, mark |-> 0, path |-> a.path]
      /\ b = [home |-> g, mark |-> 0, path |-> b.path]
  BY DEF Hidden
<1>2. /\ MarkOf(ir, f) = MarkOf(ir, g)
      /\ prog.logical[f] \o a.path = prog.logical[g] \o b.path
      /\ prog.logical[f] \in Path /\ prog.logical[g] \in Path
  <2>1. /\ FinalName(ir, a).mark = MarkOf(ir, f) /\ prog.logical[f] \in Path
        /\ FinalName(ir, a).path = prog.logical[f] \o a.path
    BY FinalNameIs
  <2>2. /\ FinalName(ir, b).mark = MarkOf(ir, g) /\ prog.logical[g] \in Path
        /\ FinalName(ir, b).path = prog.logical[g] \o b.path
    BY FinalNameIs
  <2>3. QED
    BY <2>1, <2>2
<1> DEFINE p == a.path
           q == b.path
<1>3. CASE f = g
  <2>1. p = q
    <3> HIDE DEF f, g, p, q
    <3>1. QED
      BY <1>1, <1>2, <1>3, JoinedPaths DEF p, q
  <2>2. QED
    BY <1>1, <1>3, <2>1
<1>4. CASE f # g
  <2>1. ~ IsMarked(ir, f) /\ ~ IsMarked(ir, g)
    <3>1. f # 0 /\ g # 0
      OBVIOUS
    <3> HIDE DEF f, g
    <3>2. QED
      BY <1>2, <1>4, <3>1 DEF MarkOf
  <2>2. prog.logical[f] = prog.logical[g]
    <3> DEFINE path == prog.logical[f] \o a.path
    <3>1. path \in FinalPaths(f, k) /\ path \in FinalPaths(g, k)
      BY <1>1, <1>2 DEF FinalPaths
    <3> HIDE DEF path
    <3>2. QED
      BY <1>1, <3>1 DEF NoFileInAnother
  <2>3. f < g \/ g < f
    BY <1>1, <1>4, FilesAreCounted DEF Files
  <2>4. QED
    BY <2>1, <2>2, <2>3, LaterIsMarked
<1>5. QED
  BY <1>3, <1>4

LEMMA FinalNoneAlike ==
  ASSUME prog \in Program, PathsAreClear, NEW ir \in Ir, Once(ir), From(ir, Modules),
         Lawful(ir), HasHiddenNames(ir)
  PROVE  NoneAlike(FinishEntry(ir))
<1> DEFINE new == FinishEntry(ir)
<1>1. \A k \in Kinds : DOMAIN new.items[k] = DOMAIN ir.items[k]
  <2>1. Rewritten(ir, new)
    BY FinishEntryShape
  <2> HIDE DEF new
  <2>2. QED
    BY <2>1, RewrittenShape
<1>2. ASSUME NEW k \in Kinds, NEW i \in DOMAIN ir.items[k]
      PROVE  /\ new.items[k][i].name = FinalName(ir, ir.items[k][i].name)
             /\ new.items[k][i].sig = ir.items[k][i].sig
  <2>1. ir.items[k][i] \in Item
    BY IrFacts
  <2>2. new.items[k][i] = RenamedItem(ir, ir.items[k][i])
    BY DEF FinishEntry, Ir
  <2> HIDE DEF new
  <2>3. QED
    BY <2>1, <2>2 DEF RenamedItem, Item
<1> HIDE DEF new
<1> SUFFICES ASSUME NEW k \in Named, NEW i \in DOMAIN new.items[k], NEW j \in DOMAIN new.items[k],
                    Alike(new, k, i, j)
             PROVE  i = j
  BY DEF NoneAlike, new
<1> DEFINE a == ir.items[k][i].name
           b == ir.items[k][j].name
<1>3. k \in Kinds /\ i \in DOMAIN ir.items[k] /\ j \in DOMAIN ir.items[k]
  BY <1>1, KindsAre
<1>4. /\ Hidden(ir, k, a) /\ Hidden(ir, k, b)
      /\ a = HiddenName(ir, k, i) /\ b = HiddenName(ir, k, j)
  BY <1>3, HiddenNamesAre
<1>5. /\ FinalName(ir, a) = FinalName(ir, b)
      /\ k = "function" => ir.items[k][i].sig = ir.items[k][j].sig
  BY <1>2, <1>3 DEF Alike
<1> HIDE DEF a, b
<1>6. a = b
  <2>1. CASE a.home = 0 /\ b.home = 0
    <3>1. FinalName(ir, a) = a
      BY <1>4, <2>1, FinalNameIs
    <3>2. FinalName(ir, b) = b
      BY <1>4, <2>1, FinalNameIs
    <3>3. QED
      BY <1>5, <3>1, <3>2
  <2>2. CASE a.home = 0 /\ b.home # 0
    BY <1>4, <1>5, <2>2, PlainApart
  <2>3. CASE a.home # 0 /\ b.home = 0
    BY <1>4, <1>5, <2>3, PlainApart
  <2>4. CASE a.home # 0 /\ b.home # 0
    BY <1>4, <1>5, <2>4, FilesApart DEF PathsAreClear
  <2>5. QED
    BY <2>1, <2>2, <2>3, <2>4
<1>7. QED
  BY <1>3, <1>4, <1>5, <1>6, HiddenApart DEF PathsAreClear

-----------------------------------------------------------------------------
(* The origins and the labels of items stay right through every copy. *)

LEMMA LinkIntoLawful ==
  ASSUME NEW t \in Ir, NEW d \in Ir, Once(t), Once(d), Lawful(t), Lawful(d)
  PROVE  Lawful(LinkInto(t, d))
<1> DEFINE r == LinkInto(t, d)
           Fits(ir, k, i) ==
             /\ IsOwn(k, i) =>
                   OriginOf(ir, k, i).ordinal \in DOMAIN OwnOf(OriginOf(ir, k, i).module, k)
             /\ k = "function" => ir.items[k][i].sig = SigOf(k, OriginAt(ir, k, i))
<1>0. /\ \A k \in Named : \A i \in DOMAIN t.items[k] : Fits(t, k, i)
      /\ \A k \in Named : \A i \in DOMAIN d.items[k] : Fits(d, k, i)
  BY DEF Lawful
<1>01. (\A k \in Named : \A i \in DOMAIN r.items[k] : Fits(r, k, i)) => Lawful(r)
  <2> HIDE DEF r
  <2>1. QED
    BY DEF Lawful
<1>1. r \in Ir /\ Once(r)
  BY LinkIntoType, LinkIntoOnce
<1> SUFFICES ASSUME NEW k \in Named, NEW n \in DOMAIN r.items[k]
             PROVE  Fits(r, k, n)
  BY <1>01
<1>2. k \in Kinds
  BY KindsAre
<1>3. ASSUME NEW ir, NEW i, Fits(ir, k, i), IsOwn(k, n) <=> IsOwn(k, i),
             OriginAt(r, k, n) = OriginAt(ir, k, i), r.items[k][n].sig = ir.items[k][i].sig
      PROVE  Fits(r, k, n)
  <2> HIDE DEF r
  <2>1. IsOwn(k, n) => OriginOf(r, k, n) = OriginOf(ir, k, i)
    BY <1>3 DEF OriginAt
  <2>2. QED
    BY <1>3, <2>1
<1> HIDE DEF Fits
<1>4. CASE n \in DOMAIN t.items[k]
  <2>1. OriginAt(r, k, n) = OriginAt(t, k, n) /\ r.items[k][n] = t.items[k][n]
    BY <1>2, <1>4, KeptIdMeansTheSame
  <2>2. r.items[k][n].sig = t.items[k][n].sig
    BY <2>1
  <2> HIDE DEF r
  <2>3. QED
    BY <1>0, <1>3, <1>4, <2>1, <2>2
<1>5. CASE n \notin DOMAIN t.items[k]
  <2>1. IsOwn(k, n)
    <3>1. /\ DOMAIN t.items[k] = 1..(PreludeCounts[k] + Len(t.origins[k]))
          /\ PreludeCounts[k] \in Nat /\ Len(t.origins[k]) \in Nat
      BY <1>2, HiddenIs, PreludeFacts, IrFacts
    <3>2. n \in Nat /\ n >= 1
      BY <1>1, <1>2, IrFacts
    <3>3. QED
      BY <1>5, <3>1, <3>2 DEF IsOwn
  <2>2. n \in OwnIndices(r, k)
    BY <2>1 DEF OwnIndices
  <2>3. n \notin OwnIndices(t, k)
    BY <1>5 DEF OwnIndices
  <2>4. PICK i \in OwnIndices(d, k) :
              /\ r.items[k][n] = Copy(t, d, k, i)
              /\ OriginOf(r, k, n) = OriginOf(d, k, i)
    BY <1>2, <2>2, <2>3, LinkedItem
  <2>5. i \in DOMAIN d.items[k] /\ IsOwn(k, i)
    BY DEF OwnIndices
  <2>6. Copy(t, d, k, i).sig = d.items[k][i].sig
    <3>1. d.items[k][i] \in Item
      BY <1>2, <2>5, IrFacts
    <3>2. QED
      BY <3>1 DEF Copy, Moved, Item
  <2>7. r.items[k][n].sig = d.items[k][i].sig
    BY <2>4, <2>6
  <2> HIDE DEF r
  <2>8. OriginAt(r, k, n) = OriginAt(d, k, i)
    BY <2>1, <2>4, <2>5 DEF OriginAt
  <2>9. Fits(d, k, i)
    BY <1>0, <2>5
  <2>10. QED
    BY <1>3, <2>1, <2>5, <2>7, <2>8, <2>9
<1>6. QED
  BY <1>4, <1>5

LEMMA AliasedLawful ==
  ASSUME NEW m, NEW ir \in Ir, Lawful(ir)
  PROVE  Lawful([ir EXCEPT !.items = Aliased(m, ir.items)])
<1> DEFINE new == [ir EXCEPT !.items = Aliased(m, ir.items)]
<1>1. Rewritten(ir, new)
  BY AliasedShape
<1>2. ASSUME NEW k \in Kinds, NEW i \in DOMAIN ir.items[k]
      PROVE  new.items[k][i].sig = ir.items[k][i].sig
  <2>1. ir.items[k][i] \in Item
    BY IrFacts
  <2>2. new.items = Aliased(m, ir.items)
    BY DEF Ir
  <2>3. new.items[k][i] = AliasedItem(m, k, ir.items[k][i])
    BY <2>2 DEF Aliased
  <2>4. AliasedItem(m, k, ir.items[k][i]).sig = ir.items[k][i].sig
    BY <2>1 DEF AliasedItem, Item
  <2>5. QED
    BY <2>3, <2>4
<1> HIDE DEF new
<1>3. /\ \A k \in Kinds : DOMAIN new.items[k] = DOMAIN ir.items[k]
      /\ \A k, i : OriginOf(new, k, i) = OriginOf(ir, k, i)
      /\ \A k, i : OriginAt(new, k, i) = OriginAt(ir, k, i)
  BY <1>1, RewrittenShape, SameOrigins
<1>4. Lawful(new)
  BY <1>2, <1>3, KindsAre DEF Lawful
<1>5. QED
  BY <1>4 DEF new

LEMMA ResolvedNoneAlike ==
  ASSUME NEW ir \in Ir, NoneAlike(ir)
  PROVE  NoneAlike(ResolveReferences(ir))
<1> DEFINE new == ResolveReferences(ir)
<1>1. \A k \in Kinds : DOMAIN new.items[k] = DOMAIN ir.items[k]
  <2>1. Rewritten(ir, new)
    BY ResolvedShape
  <2> HIDE DEF new
  <2>2. QED
    BY <2>1, RewrittenShape
<1>2. ASSUME NEW k \in Kinds, NEW i \in DOMAIN ir.items[k]
      PROVE  /\ new.items[k][i].name = ir.items[k][i].name
             /\ new.items[k][i].sig = ir.items[k][i].sig
  <2>1. ir.items[k][i] \in Item
    BY IrFacts
  <2>2. new.items[k][i] = ResolvedItem(ir, k, ir.items[k][i])
    BY DEF ResolveReferences, Ir
  <2> HIDE DEF new
  <2>3. QED
    BY <2>1, <2>2 DEF ResolvedItem, Item
<1> HIDE DEF new
<1>3. NoneAlike(new)
  BY <1>1, <1>2, KindsAre DEF NoneAlike, Alike
<1>4. QED
  BY <1>3 DEF new

LEMMA FinishedSigs ==
  ASSUME prog \in Program, NEW v, NEW w, Lowers(v, w), NEW k \in Kinds
  PROVE  /\ \A i \in DOMAIN v.ir.items[k] :
               FinishModule(w).items[k][i].sig = v.ir.items[k][i].sig
         /\ \A j \in DOMAIN OwnOf(v.mod, k) :
               FinishModule(w).items[k][Len(v.ir.items[k]) + j].sig = OwnOf(v.mod, k)[j].sig
<1> DEFINE fin == FinishModule(w)
           low == LowerFile(v.mod, v.ir)
           c == Len(v.ir.items[k])
           n == Len(OwnOf(v.mod, k))
<1>1. /\ w \in Work /\ w.ir = low /\ w.ir \in Ir /\ v.ir \in Ir /\ v.mod \in Modules
  BY WorkFacts DEF Lowers, Ready
<1>2. /\ c \in Nat /\ n \in Nat /\ DOMAIN v.ir.items[k] = 1..c
      /\ DOMAIN OwnOf(v.mod, k) = 1..n
  BY <1>1, IrFacts, OwnOfFacts
<1>3. /\ Len(low.items[k]) = c + n
      /\ \A i \in 1..c : low.items[k][i] = v.ir.items[k][i]
      /\ \A j \in 1..n : low.items[k][c + j] = Lowered(v.mod, v.ir, OwnOf(v.mod, k)[j])
  BY <1>1, LowerFileShape
<1>4. ASSUME NEW i \in DOMAIN w.ir.items[k]
      PROVE  fin.items[k][i].sig = w.ir.items[k][i].sig
  <2>1. w.ir.items[k][i] \in Item
    BY <1>1, IrFacts
  <2>2. fin.items[k][i] = FinishedItem(w, k, i)
    BY DEF FinishModule
  <2>3. FinishedItem(w, k, i).sig = w.ir.items[k][i].sig
    BY <2>1 DEF FinishedItem, Item
  <2>4. QED
    BY <2>2, <2>3
<1>5. DOMAIN w.ir.items[k] = 1..(c + n)
  <2>1. DOMAIN w.ir.items[k] = 1..Len(w.ir.items[k])
    BY <1>1, IrFacts
  <2>2. QED
    BY <1>1, <1>3, <2>1
<1>6. \A d : Lowered(v.mod, v.ir, d).sig = d.sig
  BY DEF Lowered
<1> HIDE DEF fin, low, c, n
<1>7. ASSUME NEW i \in 1..c PROVE fin.items[k][i].sig = v.ir.items[k][i].sig
  <2>1. i \in 1..(c + n)
    BY <1>2
  <2>2. QED
    BY <1>1, <1>3, <1>4, <1>5, <2>1
<1>8. ASSUME NEW j \in 1..n PROVE fin.items[k][c + j].sig = OwnOf(v.mod, k)[j].sig
  <2>1. c + j \in 1..(c + n)
    BY <1>2
  <2>2. QED
    BY <1>1, <1>3, <1>4, <1>5, <1>6, <2>1
<1>9. QED
  BY <1>2, <1>7, <1>8 DEF fin, c

LEMMA FinishedLawful ==
  ASSUME prog \in Program, NEW v, NEW w, Lowers(v, w), Lawful(v.ir)
  PROVE  Lawful(FinishModule(w))
<1> DEFINE fin == FinishModule(w)
<1>1. ASSUME NEW k \in Named, NEW i \in DOMAIN fin.items[k]
      PROVE  /\ IsOwn(k, i) =>
                   OriginOf(fin, k, i).ordinal \in DOMAIN OwnOf(OriginOf(fin, k, i).module, k)
             /\ k = "function" => fin.items[k][i].sig = SigOf(k, OriginAt(fin, k, i))
  <2>0. k \in Kinds
    BY KindsAre
  <2>1. CASE i \in DOMAIN v.ir.items[k]
    <3>1. /\ fin.items[k][i].sig = v.ir.items[k][i].sig
          /\ OriginAt(fin, k, i) = OriginAt(v.ir, k, i)
      BY <2>0, <2>1, FinishedSigs, FinishedOrigins
    <3> HIDE DEF fin
    <3>2. IsOwn(k, i) => OriginOf(fin, k, i) = OriginOf(v.ir, k, i)
      BY <3>1 DEF OriginAt
    <3>3. QED
      BY <2>1, <3>1, <3>2 DEF Lawful
  <2>2. ASSUME NEW j \in DOMAIN OwnOf(v.mod, k), i = Len(v.ir.items[k]) + j
        PROVE  /\ IsOwn(k, i) => OriginOf(fin, k, i).ordinal
                                   \in DOMAIN OwnOf(OriginOf(fin, k, i).module, k)
               /\ k = "function" => fin.items[k][i].sig = SigOf(k, OriginAt(fin, k, i))
    <3>1. fin.items[k][i].sig = OwnOf(v.mod, k)[j].sig
      BY <2>0, <2>2, FinishedSigs
    <3>2. IsOwn(k, i) /\ OriginOf(fin, k, i) = [module |-> v.mod, ordinal |-> j]
      BY <2>0, <2>2, FinishedOrigins
    <3> HIDE DEF fin
    <3>3. OriginAt(fin, k, i) = [module |-> v.mod, ordinal |-> j]
      BY <3>2 DEF OriginAt
    <3>4. v.mod # PreludeModule
      BY ModulesAre DEF Lowers, Ready
    <3>5. SigOf(k, OriginAt(fin, k, i)) = OwnOf(v.mod, k)[j].sig
      BY <3>3, <3>4 DEF SigOf
    <3>6. QED
      BY <3>1, <3>2, <3>5
  <2>3. QED
    BY <2>0, <2>1, <2>2, FinishedPlaces
<1> HIDE DEF fin
<1>2. Lawful(fin)
  BY <1>1 DEF Lawful
<1>3. QED
  BY <1>2 DEF fin

-----------------------------------------------------------------------------
(* Names through the steps. *)

LEMMA SameNames ==
  ASSUME prog' = prog, NEW m, NEW k, NEW path
  PROVE  /\ AtTop(m, k, path)' = AtTop(m, k, path)
         /\ PathsOf(k)' = PathsOf(k)
<1>1. \A f, q : Defined(f, k, q)' = Defined(f, k, q)
  BY SameOwn DEF Defined
<1>2. QED
  BY <1>1, SameOwn DEF AtTop, PathsOf

LEMMA SameSigOf ==
  ASSUME prog' = prog, NEW k, NEW o
  PROVE  SigOf(k, o)' = SigOf(k, o)
BY SameOwn DEF SigOf

LEMMA SameClear ==
  ASSUME prog' = prog, PathsAreClear
  PROVE  PathsAreClear'
<1>1. NoClashes'
  BY SameNames, SameSigOf DEF PathsAreClear, NoClashes
<1>2. \A f, k : FinalPaths(f, k)' = FinalPaths(f, k)
  BY SameOwn DEF FinalPaths
<1>3. NoFileInAnother'
  BY <1>2 DEF PathsAreClear, NoFileInAnother
<1>4. QED
  BY <1>1, <1>3 DEF PathsAreClear

LEMMA SameLawful ==
  ASSUME prog' = prog, NEW ir
  PROVE  Lawful(ir)' <=> Lawful(ir)
BY SameOwn, SameSigOf DEF Lawful

\* Nothing but the prelude.
LEMMA PreludeLawful ==
  ASSUME NEW ir \in Ir, Once(ir), \A k \in Kinds : ir.origins[k] = <<>>,
         \A k \in Kinds : \A i \in DOMAIN Prelude[k] : ir.items[k][i].sig = Prelude[k][i].sig
  PROVE  Lawful(ir)
<1> SUFFICES ASSUME NEW k \in Named, NEW i \in DOMAIN ir.items[k]
             PROVE  ~ IsOwn(k, i) /\ ir.items[k][i].sig = SigOf(k, OriginAt(ir, k, i))
  BY DEF Lawful
<1>1. k \in Kinds
  BY KindsAre
<1>2. DOMAIN ir.origins[k] = {}
  BY <1>1, EmptySeq
<1>3. ~ IsOwn(k, i)
  BY <1>1, <1>2, OwnFacts DEF OwnIndices
<1>4. i \in DOMAIN Prelude[k] /\ OriginAt(ir, k, i) = [module |-> PreludeModule, ordinal |-> i]
  BY <1>1, <1>3, PreludePlaces
<1>5. QED
  BY <1>1, <1>3, <1>4 DEF SigOf

LEMMA PreludeNoneAlike ==
  ASSUME NoClashes
  PROVE  NoneAlike(EmptyIr)
<1> SUFFICES ASSUME NEW k \in Named, NEW i \in DOMAIN Prelude[k], NEW j \in DOMAIN Prelude[k],
                    Prelude[k][i].name = Prelude[k][j].name,
                    k = "function" => Prelude[k][i].sig = Prelude[k][j].sig
             PROVE  i = j
  BY KindsAre DEF NoneAlike, Alike, EmptyIr
<1> DEFINE path == Prelude[k][i].name.path
           At(n) == [module |-> PreludeModule, ordinal |-> n]
<1>1. path \in PathsOf(k)
  BY DEF PathsOf
<1>2. Prelude[k][i].name = Plain(path) /\ Prelude[k][j].name = Plain(path)
  BY PreludeIsOpen
<1> HIDE DEF path
<1>3. At(i) \in AtTop(Entry, k, path) /\ At(j) \in AtTop(Entry, k, path)
  BY <1>2 DEF AtTop
<1>4. SigOf(k, At(i)) = Prelude[k][i].sig /\ SigOf(k, At(j)) = Prelude[k][j].sig
  BY DEF SigOf
<1>5. k = "function" => SigOf(k, At(i)) = SigOf(k, At(j))
  BY <1>4
<1> HIDE DEF At
<1>6. At(i) = At(j)
  BY <1>1, <1>3, <1>5, ModulesAre DEF NoClashes
<1>7. QED
  BY <1>6 DEF At

LEMMA NamesInit ==
  Init /\ PathsAreClear => UInv
<1> SUFFICES ASSUME Init, PathsAreClear PROVE UInv
  OBVIOUS
<1>1. DOMAIN linked = {} /\ phase = "idle" /\ cur = NoWork
  BY DEF Init, NoneLinked
<1>2. QED
  BY <1>1 DEF UInv

LEMMA StartKeepsNames ==
  ASSUME IInv, UInv, NEW m \in Modules, Start(m)
  PROVE  UInv'
<1> DEFINE ir == [items   |-> [k \in Kinds |-> [i \in DOMAIN Prelude[k] |->
                                  [Prelude[k][i] EXCEPT !.file = 1]]],
                  origins |-> EmptyOrigins,
                  files   |-> <<m>>]
<1>1. /\ cur' = [NoWork EXCEPT !.mod = m, !.deps = DepsOf(m), !.ir = ir]
      /\ phase' = "link" /\ prog' = prog /\ linked' = linked
  BY DEF Start
<1>2. cur'.ir = ir
  BY <1>1 DEF NoWork
<1>3. ir \in Ir /\ Once(ir)
  <2>1. <<m>> \in Seq(Modules)
    OBVIOUS
  <2>2. \A mods : Whole(ir, mods)
    BY <2>1, PreludeIr
  <2> HIDE DEF ir
  <2>3. QED
    BY <2>2 DEF Whole
<1>4. \A k \in Kinds : ir.origins[k] = <<>>
  BY DEF EmptyOrigins
<1>5. ASSUME NEW k \in Kinds, NEW i \in DOMAIN Prelude[k]
      PROVE  ir.items[k][i].sig = Prelude[k][i].sig
  <2>1. Prelude[k][i] \in Item
    BY PreludeFacts, LenProperties, ElementOfSeq
  <2>2. ir.items[k][i] = [Prelude[k][i] EXCEPT !.file = 1]
    OBVIOUS
  <2> HIDE DEF ir
  <2>3. QED
    BY <2>1, <2>2 DEF Item
<1> HIDE DEF ir
<1>6. Lawful(ir)
  BY <1>3, <1>4, <1>5, PreludeLawful
<1>7. Lawful(cur.ir)'
  BY <1>1, <1>2, <1>6, SameLawful
<1>8. PathsAreClear' /\ \A n \in DOMAIN linked' : Lawful(linked[n])'
  BY <1>1, SameClear, SameLawful DEF UInv
<1>9. QED
  BY <1>1, <1>7, <1>8 DEF UInv

LEMMA LinkDepKeepsNames ==
  ASSUME IInv, UInv, LinkDep
  PROVE  UInv'
<1> DEFINE f == Min(cur.deps)
           dep == linked[f]
           new == LinkInto(cur.ir, dep)
<1>1. /\ phase = "link" /\ cur.deps # {} /\ phase' = "link"
      /\ cur' = [cur EXCEPT !.ir = new, !.deps = @ \ {f}]
      /\ prog' = prog /\ linked' = linked
  BY DEF LinkDep
<1>2. cur \in Work /\ cur.deps \subseteq DOMAIN linked /\ cur.deps \subseteq Files
  BY <1>1 DEF IInv, TypeOK, Work
<1>3. f \in DOMAIN linked
  <2>1. cur.deps \in SUBSET Nat
    BY <1>2, FilesAreCounted DEF Files
  <2>2. QED
    BY <1>1, <1>2, <2>1, LeastOf
<1>4. /\ cur.ir \in Ir /\ Once(cur.ir) /\ Lawful(cur.ir)
      /\ dep \in Ir /\ Once(dep) /\ Lawful(dep)
  BY <1>1, <1>3 DEF IInv, Whole, UInv
<1> HIDE DEF f, dep
<1>5. cur'.ir = new
  BY <1>1, <1>2 DEF Work
<1>6. Lawful(new)
  BY <1>4, LinkIntoLawful
<1> HIDE DEF new
<1>7. Lawful(cur.ir)'
  BY <1>1, <1>5, <1>6, SameLawful
<1>8. PathsAreClear' /\ \A n \in DOMAIN linked' : Lawful(linked[n])'
  BY <1>1, SameClear, SameLawful DEF UInv
<1>9. QED
  BY <1>1, <1>7, <1>8 DEF UInv

LEMMA AliasKeepsNames ==
  ASSUME IInv, UInv, AliasImports
  PROVE  UInv'
<1> DEFINE new == [cur.ir EXCEPT !.items = Aliased(cur.mod, cur.ir.items)]
<1>1. /\ phase = "link" /\ phase' = "lower" /\ prog' = prog /\ linked' = linked
      /\ cur' = [cur EXCEPT !.counts = Lens(cur.ir.items),
                            !.hidden = [k \in Kinds |-> Names(cur.ir, k)], !.ir = new]
  BY DEF AliasImports, IInv, TypeOK, Work
<1>2. cur \in Work /\ cur.ir \in Ir /\ Lawful(cur.ir)
  BY <1>1 DEF IInv, TypeOK, Work, UInv
<1>3. Lawful(new)
  BY <1>2, AliasedLawful
<1> HIDE DEF new
<1>4. cur'.ir = new
  BY <1>1, <1>2 DEF Work
<1>5. Lawful(cur.ir)'
  BY <1>1, <1>3, <1>4, SameLawful
<1>6. PathsAreClear' /\ \A n \in DOMAIN linked' : Lawful(linked[n])'
  BY <1>1, SameClear, SameLawful DEF UInv
<1>7. QED
  BY <1>1, <1>5, <1>6 DEF UInv

LEMMA WorkIsLowering ==
  ASSUME IInv, MInv, UInv, phase = "lower"
  PROVE  Lowering(cur)
<1>1. cur \in Work /\ Whole(cur.ir, DOMAIN linked) /\ DOMAIN linked \subseteq Files
  BY DEF IInv, TypeOK
<1>2. QED
  BY <1>1 DEF Lowering, Whole, From, Work, MInv, UInv

LEMMA LowerOwnKeepsNames ==
  ASSUME IInv, IInv', MInv, UInv, LowerOwn
  PROVE  UInv'
<1> DEFINE new == LowerFile(cur.mod, cur.ir)
<1>1. /\ phase = "lower" /\ phase' = "finish" /\ prog' = prog /\ linked' = linked
      /\ cur' = [cur EXCEPT !.ir = new]
  BY DEF LowerOwn
<1>2. /\ cur \in Work /\ prog \in Program /\ Whole(cur.ir, DOMAIN linked)
      /\ cur.mod \notin DOMAIN linked
      /\ \A k \in Kinds : cur.counts[k] = Len(cur.ir.items[k])
  BY <1>1 DEF IInv, TypeOK, StartsWithItself
<1>3. Lowering(cur)
  BY <1>1, WorkIsLowering
<1>4. NoneAlike(new)
  BY <1>2, <1>3, LoweredNoneAlike DEF UInv, PathsAreClear, Whole
<1>5. /\ cur'.ir = new /\ cur'.mod = cur.mod
      /\ cur'.hidden = cur.hidden /\ cur'.counts = cur.counts
  BY <1>1, <1>2 DEF Work
<1>6. Lowers(cur, cur')
  <2>1. Ready(cur)
    BY <1>1, <1>3 DEF Ready, Lowering, MInv
  <2>2. cur' \in Work /\ HalfDone(cur', DOMAIN linked')
    BY <1>1 DEF IInv, TypeOK
  <2>3. QED
    BY <1>2, <1>5, <2>1, <2>2 DEF Lowers
<1>7. Lawful(FinishModule(cur'))
  <2>1. \A w : Lowers(cur, w) => Lawful(FinishModule(w))
    BY <1>2, <1>3, FinishedLawful DEF Lowering
  <2>2. QED
    BY <1>6, <2>1
<1> HIDE DEF new
<1>8. NoneAlike(cur.ir)' /\ Lawful(FinishModule(cur))'
  BY <1>1, <1>4, <1>5, <1>7, SameLawful
<1>9. PathsAreClear' /\ \A n \in DOMAIN linked' : Lawful(linked[n])'
  BY <1>1, SameClear, SameLawful DEF UInv
<1>10. QED
  BY <1>1, <1>8, <1>9 DEF UInv

LEMMA FinishKeepsNames ==
  ASSUME IInv, MInv, UInv, Finish
  PROVE  UInv'
<1> DEFINE new == FinishModule(cur)
<1>1. /\ phase = "finish" /\ prog' = prog
      /\ IF cur.mod = Entry
         THEN cur' = [cur EXCEPT !.ir = new] /\ phase' = "rename" /\ linked' = linked
         ELSE /\ linked' = [m \in DOMAIN linked \cup {cur.mod} |->
                               IF m = cur.mod THEN new ELSE linked[m]]
              /\ cur' = NoWork /\ phase' = "idle"
  BY DEF Finish
<1>2. cur \in Work /\ cur.mod \notin DOMAIN linked
  BY <1>1 DEF IInv, TypeOK, StartsWithItself
<1>3. /\ Lawful(new) /\ \A m \in DOMAIN linked : Lawful(linked[m])
      /\ HasHiddenNames(new)
  BY <1>1 DEF UInv, MInv, Complete
<1>4. PathsAreClear'
  BY <1>1, SameClear DEF UInv
<1> HIDE DEF new
<1>5. CASE cur.mod = Entry
  <2>1. phase' = "rename" /\ cur'.ir = new /\ linked' = linked
    BY <1>1, <1>2, <1>5 DEF Work
  <2>2. HasHiddenNames(cur.ir)' /\ Lawful(cur.ir)'
    BY <1>1, <1>3, <2>1, SameHiddenNames, SameLawful
  <2>3. \A n \in DOMAIN linked' : Lawful(linked[n])'
    BY <1>1, <1>3, <2>1, SameLawful
  <2>4. QED
    BY <1>4, <2>1, <2>2, <2>3 DEF UInv
<1>6. CASE cur.mod # Entry
  <2>1. /\ phase' = "idle" /\ DOMAIN linked' = DOMAIN linked \cup {cur.mod}
        /\ linked'[cur.mod] = new /\ cur' = NoWork
        /\ \A m \in DOMAIN linked : linked'[m] = linked[m]
    BY <1>1, <1>2, <1>6
  <2>2. \A m \in DOMAIN linked' : Lawful(linked'[m])
    BY <1>3, <2>1
  <2>3. \A m \in DOMAIN linked' : Lawful(linked[m])'
    BY <1>1, <2>2, SameLawful
  <2>4. QED
    BY <1>4, <2>1, <2>3 DEF UInv
<1>7. QED
  BY <1>5, <1>6

LEMMA RenameKeepsNames ==
  ASSUME IInv, UInv, Rename
  PROVE  UInv'
<1> DEFINE new == FinishEntry(cur.ir)
<1>1. /\ phase = "rename" /\ phase' = "resolve" /\ prog' = prog /\ linked' = linked
      /\ cur' = [cur EXCEPT !.ir = new]
  BY DEF Rename
<1>2. prog \in Program /\ cur \in Work /\ Whole(cur.ir, Modules)
  BY <1>1 DEF IInv, TypeOK
<1>3. NoneAlike(new)
  BY <1>1, <1>2, FinalNoneAlike DEF UInv, Whole
<1> HIDE DEF new
<1>4. cur'.ir = new
  BY <1>1, <1>2 DEF Work
<1>5. PathsAreClear' /\ \A n \in DOMAIN linked' : Lawful(linked[n])'
  BY <1>1, SameClear, SameLawful DEF UInv
<1>6. QED
  BY <1>1, <1>3, <1>4, <1>5 DEF UInv

LEMMA ResolveKeepsNames ==
  ASSUME IInv, UInv, Resolve
  PROVE  UInv'
<1> DEFINE new == ResolveReferences(cur.ir)
<1>1. /\ phase = "resolve" /\ phase' = "done" /\ prog' = prog /\ linked' = linked
      /\ cur' = [cur EXCEPT !.ir = new]
  BY DEF Resolve
<1>2. cur \in Work /\ cur.ir \in Ir
  BY <1>1 DEF IInv, TypeOK, Work
<1>3. NoneAlike(new)
  BY <1>1, <1>2, ResolvedNoneAlike DEF UInv
<1> HIDE DEF new
<1>4. cur'.ir = new
  BY <1>1, <1>2 DEF Work
<1>5. PathsAreClear' /\ \A n \in DOMAIN linked' : Lawful(linked[n])'
  BY <1>1, SameClear, SameLawful DEF UInv
<1>6. QED
  BY <1>1, <1>3, <1>4, <1>5 DEF UInv

LEMMA NamesStep ==
  ASSUME IInv, IInv', MInv, UInv, [Next]_vars
  PROVE  UInv'
<1>1. CASE Next
  BY <1>1, StartKeepsNames, LinkDepKeepsNames, AliasKeepsNames, LowerOwnKeepsNames,
     FinishKeepsNames, RenameKeepsNames, ResolveKeepsNames DEF Next
<1>2. CASE UNCHANGED vars
  <2>1. prog' = prog /\ linked' = linked /\ cur' = cur /\ phase' = phase
    BY <1>2 DEF vars
  <2>2. PathsAreClear' /\ \A n \in DOMAIN linked' : Lawful(linked[n])'
    BY <2>1, SameClear, SameLawful DEF UInv
  <2>3. /\ Lawful(cur.ir)' <=> Lawful(cur.ir)
        /\ HasHiddenNames(cur.ir)' <=> HasHiddenNames(cur.ir)
        /\ Lawful(FinishModule(cur))' <=> Lawful(FinishModule(cur))
    BY <2>1, SameHiddenNames, SameLawful
  <2>4. NoneAlike(cur.ir)' <=> NoneAlike(cur.ir)
    BY <2>1
  <2>5. QED
    BY <2>1, <2>2, <2>3, <2>4 DEF UInv
<1>3. QED
  BY <1>1, <1>2

LEMMA NamesInvariant ==
  Spec /\ PathsAreClear => []UInv
<1>1. Init /\ PathsAreClear => UInv
  BY NamesInit
<1>2. IInv /\ IInv' /\ MInv /\ UInv /\ [Next]_vars => UInv'
  BY NamesStep
<1>3. QED
  BY <1>1, <1>2, LinkingInvariant, MeaningInvariant, PTL DEF Spec

LEMMA NoNameTwiceFollows ==
  ASSUME IInv, MInv, UInv
  PROVE  NoNameTwice
<1>0. NoClashes /\ prog \in Program
  BY DEF UInv, PathsAreClear, IInv, TypeOK
<1>1. ASSUME NEW m \in DOMAIN linked PROVE NoneAlike(linked[m])
  <2>1. Whole(linked[m], DOMAIN linked) /\ DOMAIN linked \subseteq Files
    BY DEF IInv, TypeOK
  <2>2. Lawful(linked[m]) /\ HasHiddenNames(linked[m])
    BY DEF UInv, MInv, AllComplete, Complete
  <2>3. From(linked[m], Modules)
    BY <2>1, ModulesAre DEF Whole, From
  <2>4. QED
    BY <1>0, <2>1, <2>2, <2>3, HiddenNoneAlike DEF Whole
<1>2. NoneAlike(cur.ir)
  <2>1. CASE phase = "idle"
    <3>1. cur.ir = EmptyIr
      BY <2>1 DEF UInv, NoWork
    <3>2. QED
      BY <1>0, <3>1, PreludeNoneAlike
  <2>2. CASE phase = "link"
    <3>1. Whole(cur.ir, DOMAIN linked) /\ DOMAIN linked \subseteq Files
      BY <2>2 DEF IInv, TypeOK
    <3>2. Lawful(cur.ir) /\ HasHiddenNames(cur.ir)
      BY <2>2 DEF UInv, MInv
    <3>3. From(cur.ir, Modules)
      BY <3>1, ModulesAre DEF Whole, From
    <3>4. QED
      BY <1>0, <3>1, <3>2, <3>3, HiddenNoneAlike DEF Whole
  <2>3. CASE phase = "lower"
    BY <1>0, <2>3, WorkIsLowering, ShortNoneAlike
  <2>4. CASE phase = "rename"
    <3>1. Whole(cur.ir, Modules) /\ Lawful(cur.ir) /\ HasHiddenNames(cur.ir)
      BY <2>4 DEF IInv, UInv
    <3>2. QED
      BY <1>0, <3>1, HiddenNoneAlike DEF Whole
  <2>5. CASE phase \in {"finish", "resolve", "done"}
    BY <2>5 DEF UInv
  <2>6. QED
    BY <2>1, <2>2, <2>3, <2>4, <2>5 DEF IInv, TypeOK, Phases
<1>3. \A ir \in Irs \cup {cur.ir} : NoneAlike(ir)
  BY <1>1, <1>2 DEF Irs
<1>4. QED
  BY <1>3 DEF NoNameTwice, NoneAlike, Alike

\* For every program whose paths are clear, every prelude and every number of
\* files, in every order of the modules and at every step: no two structs of a
\* module have one name, and two functions only as overloads; so the maps from
\* names to ids that `rebuild_indices` builds lose nothing.  The short names
\* that a module's imports get meet no private item of another file, and the
\* final names, with an id where two files share a path, meet no item at all.
\* (`alias_imports`, `finish_module`, `choose_prefixes`, `rename_prefixes`)
THEOREM LinkingNamesStayUnique ==
  Spec /\ PathsAreClear => []NamesStayUnique
<1>1. IInv /\ MInv /\ UInv => NamesStayUnique
  BY NoNameTwiceFollows, LentFollows DEF NamesStayUnique
<1>2. QED
  BY <1>1, LinkingInvariant, MeaningInvariant, NamesInvariant, PTL
=============================================================================
