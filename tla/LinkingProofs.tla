---------------------------- MODULE LinkingProofs ----------------------------
(***************************************************************************)
(* Proofs about the linker: every item of a module arrives once, along     *)
(* whatever imports lead to it, whole, and its span points to the file it  *)
(* was written in (CopiesAreExact).                                        *)
(***************************************************************************)
EXTENDS Linking, RankProofs

-----------------------------------------------------------------------------
(* The inductive invariant. *)

\* Each item once: origins are the items behind the prelude, all different.
Once(ir) ==
    \A k \in Kinds :
        /\ Len(ir.items[k]) = PreludeCounts[k] + Len(ir.origins[k])
        /\ \A i, j \in DOMAIN ir.origins[k] :
              ir.origins[k][i] = ir.origins[k][j] => i = j

\* Item i of the kind points to the file of its origin.
SpanIsRight(ir, k, i) ==
    /\ ir.items[k][i].file \in DOMAIN ir.files
    /\ ir.files[ir.items[k][i].file] = OriginOf(ir, k, i).module

Spans(ir) == \A k \in Kinds : \A i \in OwnIndices(ir, k) : SpanIsRight(ir, k, i)

From(ir, mods) ==
    \A k \in Kinds : \A i \in DOMAIN ir.origins[k] : ir.origins[k][i].module \in mods

\* An IR that holds items of these modules, each once and whole.
Whole(ir, mods) == ir \in Ir /\ Once(ir) /\ Spans(ir) /\ From(ir, mods)

\* The module under construction is the first of its files and not finished.
StartsWithItself ==
    /\ cur.mod \notin DOMAIN linked
    /\ cur.ir.files # <<>> /\ cur.ir.files[1] = cur.mod

\* Before `finish_module`: the imported items have their origins, and the own
\* ones stand behind them, in the module's own file, with ids that are there.
HalfDone(w, mods) ==
    /\ From(w.ir, mods)
    /\ \A k \in Kinds :
        /\ Len(w.hidden[k]) = w.counts[k]
        /\ w.counts[k] = PreludeCounts[k] + Len(w.ir.origins[k])
        /\ w.counts[k] <= Len(w.ir.items[k])
        /\ \A i, j \in DOMAIN w.ir.origins[k] :
              w.ir.origins[k][i] = w.ir.origins[k][j] => i = j
        /\ \A i \in 1..w.counts[k] : IsOwn(k, i) => SpanIsRight(w.ir, k, i)
        /\ \A i \in (w.counts[k] + 1)..Len(w.ir.items[k]) :
              /\ w.ir.items[k][i].file = 1
              /\ \A j \in DOMAIN w.ir.items[k][i].calls :
                    w.ir.items[k][i].calls[j].id \in 0..Len(w.ir.items["function"])

IInv ==
    /\ TypeOK
    /\ \A m \in DOMAIN linked : Whole(linked[m], DOMAIN linked)
    /\ phase \in {"link", "lower"} => Whole(cur.ir, DOMAIN linked)
    /\ phase \in {"link", "lower", "finish"} => StartsWithItself
    /\ phase = "link" => cur.deps \subseteq DOMAIN linked
    /\ phase = "lower" => \A k \in Kinds : /\ cur.counts[k] = Len(cur.ir.items[k])
                                           /\ Len(cur.hidden[k]) = cur.counts[k]
    /\ phase = "finish" => HalfDone(cur, DOMAIN linked)
    /\ phase \in {"rename", "resolve", "done"} => Whole(cur.ir, Modules)

-----------------------------------------------------------------------------
(* Sequences and sets of numbers. *)

LEMMA LeastOf ==
  ASSUME NEW X \in SUBSET Nat, X # {}
  PROVE  Min(X) \in X /\ \A j \in X : Min(X) <= j
<1>1. \E i \in X : \A j \in X : i <= j
  BY LeastNumber
<1>2. QED
  BY <1>1 DEF Min

LEMMA GreatestOf ==
  ASSUME NEW n \in Nat, NEW X \in SUBSET (0..n), X # {}
  PROVE  Max(X) \in X /\ \A j \in X : j <= Max(X)
<1>1. PICK i \in X : \A j \in X : j <= i
  BY GreatestNumber
<1>2. \A j \in X : j \in Int
  OBVIOUS
<1>3. \A j \in X : i >= j
  BY <1>1, <1>2
<1>4. Max(X) \in X /\ \A j \in X : Max(X) >= j
  BY <1>3 DEF Max
<1>5. QED
  BY <1>2, <1>4

LEMMA Joined ==
  ASSUME NEW T, NEW s \in Seq(T), NEW r \in Seq(T)
  PROVE  /\ s \o r \in Seq(T)
         /\ Len(s) \in Nat /\ Len(r) \in Nat /\ Len(s \o r) = Len(s) + Len(r)
         /\ DOMAIN s = 1..Len(s) /\ DOMAIN r = 1..Len(r)
         /\ DOMAIN (s \o r) = 1..(Len(s) + Len(r))
         /\ \A i \in 1..Len(s) : (s \o r)[i] = s[i]
         /\ \A i \in 1..Len(r) : (s \o r)[Len(s) + i] = r[i]
<1>1. /\ Len(s) \in Nat /\ Len(r) \in Nat
      /\ DOMAIN s = 1..Len(s) /\ DOMAIN r = 1..Len(r)
  BY LenProperties
<1>2. s \o r \in Seq(T) /\ Len(s \o r) = Len(s) + Len(r)
  BY ConcatProperties
<1>3. \A i \in 1..(Len(s) + Len(r)) :
          (s \o r)[i] = IF i <= Len(s) THEN s[i] ELSE r[i - Len(s)]
  BY ConcatProperties
<1>4. DOMAIN (s \o r) = 1..(Len(s) + Len(r))
  BY <1>2, LenProperties
<1>5. ASSUME NEW i \in 1..Len(s) PROVE (s \o r)[i] = s[i]
  <2>1. i \in 1..(Len(s) + Len(r)) /\ i <= Len(s)
    BY <1>1
  <2>2. QED
    BY <1>3, <2>1
<1>6. ASSUME NEW i \in 1..Len(r) PROVE (s \o r)[Len(s) + i] = r[i]
  <2>1. /\ Len(s) + i \in 1..(Len(s) + Len(r)) /\ ~ (Len(s) + i <= Len(s))
        /\ Len(s) + i - Len(s) = i
    BY <1>1
  <2>2. QED
    BY <1>3, <2>1
<1>7. QED
  BY <1>1, <1>2, <1>4, <1>5, <1>6

\* A position of two sequences joined is one of the first or of the second.
LEMMA Split ==
  ASSUME NEW a \in Nat, NEW b \in Nat, NEW i \in 1..(a + b)
  PROVE  \/ i \in 1..a
         \/ \E j \in 1..b : i = a + j
<1>1. CASE i <= a
  BY <1>1
<1>2. CASE ~ (i <= a)
  <2>1. i - a \in 1..b /\ i = a + (i - a)
    BY <1>2
  <2>2. QED
    BY <2>1
<1>3. QED
  BY <1>1, <1>2

-----------------------------------------------------------------------------
(* What an IR is. *)

LEMMA IrFacts ==
  ASSUME NEW ir \in Ir, NEW k \in Kinds
  PROVE  /\ ir.items[k] \in Seq(Item) /\ ir.origins[k] \in Seq(Origin)
         /\ ir.files \in Seq(Modules)
         /\ Len(ir.items[k]) \in Nat /\ DOMAIN ir.items[k] = 1..Len(ir.items[k])
         /\ Len(ir.origins[k]) \in Nat /\ DOMAIN ir.origins[k] = 1..Len(ir.origins[k])
         /\ Len(ir.files) \in Nat /\ DOMAIN ir.files = 1..Len(ir.files)
         /\ \A i \in DOMAIN ir.items[k] : ir.items[k][i] \in Item
         /\ \A i \in DOMAIN ir.origins[k] : ir.origins[k][i] \in Origin
         /\ \A i \in DOMAIN ir.files : ir.files[i] \in Modules
<1>1. /\ ir.items[k] \in Seq(Item) /\ ir.origins[k] \in Seq(Origin)
      /\ ir.files \in Seq(Modules)
  BY DEF Ir
<1>2. QED
  BY <1>1, LenProperties, ElementOfSeq

LEMMA PreludeFacts ==
  ASSUME NEW k \in Kinds
  PROVE  /\ PreludeCounts[k] \in Nat /\ PreludeCounts[k] = Len(Prelude[k])
         /\ Prelude[k] \in Seq(Item)
<1>1. Prelude[k] \in Seq(Item)
  BY PreludeIsTyped
<1>2. QED
  BY <1>1, LenProperties DEF PreludeCounts, Lens

LEMMA KindsAre ==
  /\ "struct" \in Kinds /\ "function" \in Kinds /\ "impl" \in Kinds
  /\ Named \subseteq Kinds
BY DEF Kinds, Named

\* Own items and their origins stand at the same places, behind the prelude.
LEMMA OwnFacts ==
  ASSUME NEW ir \in Ir, Once(ir), NEW k \in Kinds
  PROVE  /\ \A i \in OwnIndices(ir, k) :
               /\ i - PreludeCounts[k] \in DOMAIN ir.origins[k]
               /\ OriginOf(ir, k, i) \in Origin
               /\ i \in 1..Len(ir.items[k])
         /\ \A j \in DOMAIN ir.origins[k] :
               /\ PreludeCounts[k] + j \in OwnIndices(ir, k)
               /\ OriginOf(ir, k, PreludeCounts[k] + j) = ir.origins[k][j]
<1> DEFINE P == PreludeCounts[k]
           L == Len(ir.origins[k])
<1>1. /\ P \in Nat /\ L \in Nat /\ DOMAIN ir.items[k] = 1..(P + L)
      /\ DOMAIN ir.origins[k] = 1..L /\ Len(ir.items[k]) = P + L
  BY PreludeFacts, IrFacts DEF Once
<1> HIDE DEF P, L
<1>2. ASSUME NEW i \in 1..(P + L), i > P
      PROVE  i - P \in 1..L
  BY <1>1, <1>2
<1>3. ASSUME NEW i \in OwnIndices(ir, k)
      PROVE  /\ i - P \in DOMAIN ir.origins[k]
             /\ OriginOf(ir, k, i) \in Origin
             /\ i \in 1..Len(ir.items[k])
  <2>1. i \in 1..(P + L) /\ i > P
    BY <1>1, <1>3 DEF OwnIndices, IsOwn, P
  <2>2. i - P \in DOMAIN ir.origins[k]
    BY <1>1, <1>2, <2>1
  <2>3. OriginOf(ir, k, i) \in Origin
    BY <2>2, IrFacts DEF OriginOf, P
  <2>4. QED
    BY <1>1, <2>1, <2>2, <2>3
<1>4. ASSUME NEW j \in DOMAIN ir.origins[k]
      PROVE  /\ P + j \in OwnIndices(ir, k)
             /\ OriginOf(ir, k, P + j) = ir.origins[k][j]
  <2>1. P + j \in 1..(P + L) /\ P + j > P /\ P + j - P = j
    BY <1>1
  <2>2. QED
    BY <1>1, <2>1 DEF OwnIndices, IsOwn, OriginOf, P
<1>5. QED
  BY <1>3, <1>4 DEF P

-----------------------------------------------------------------------------
(* link_into. *)

LEMMA FreshFacts ==
  ASSUME NEW t, NEW d \in Ir, Once(d), NEW k \in Kinds
  PROVE  /\ Fresh(t, d, k) \in SUBSET (1..Len(d.items[k]))
         /\ Len(d.items[k]) \in Nat
         /\ \A i \in Fresh(t, d, k) :
               /\ i \in OwnIndices(d, k) /\ OriginOf(d, k, i) \in Origin
               /\ OriginOf(d, k, i) \notin ToSet(t.origins[k])
<1>1. DOMAIN d.items[k] = 1..Len(d.items[k]) /\ Len(d.items[k]) \in Nat
  BY IrFacts
<1>2. \A i \in Fresh(t, d, k) :
          i \in OwnIndices(d, k) /\ OriginOf(d, k, i) \notin ToSet(t.origins[k])
  BY DEF Fresh, IsFresh, OwnIndices
<1>3. QED
  BY <1>1, <1>2, OwnFacts DEF Fresh

\* An item that is there already is found by its origin.
LEMMA FoundFacts ==
  ASSUME NEW t \in Ir, NEW d, NEW k \in Kinds,
         NEW i \in DOMAIN d.items[k], IsOwn(k, i), ~ IsFresh(t, d, k, i)
  PROVE  \E j \in DOMAIN t.origins[k] :
            /\ IdTable(t, d, k)[i] = PreludeCounts[k] + j
            /\ t.origins[k][j] = OriginOf(d, k, i)
<1> DEFINE X == {n \in DOMAIN t.origins[k] : t.origins[k][n] = OriginOf(d, k, i)}
<1>1. Len(t.origins[k]) \in Nat /\ DOMAIN t.origins[k] = 1..Len(t.origins[k])
  BY IrFacts
<1>2. X # {}
  BY DEF IsFresh, ToSet
<1>3. X \in SUBSET (0..Len(t.origins[k]))
  BY <1>1
<1>4. Max(X) \in X
  BY <1>1, <1>2, <1>3, GreatestOf
<1>5. IdTable(t, d, k)[i] = PreludeCounts[k] + Max(X)
  BY DEF IdTable
<1>6. QED
  BY <1>4, <1>5

LEMMA IdTableType ==
  ASSUME NEW t \in Ir, NEW d \in Ir, Once(d), NEW k \in Kinds
  PROVE  /\ DOMAIN IdTable(t, d, k) = DOMAIN d.items[k]
         /\ \A i \in DOMAIN d.items[k] : IdTable(t, d, k)[i] \in Nat
<1>1. ASSUME NEW i \in DOMAIN d.items[k] PROVE IdTable(t, d, k)[i] \in Nat
  <2>1. i \in Nat /\ PreludeCounts[k] \in Nat /\ Len(t.items[k]) \in Nat
    BY IrFacts, PreludeFacts
  <2>2. CASE ~ IsOwn(k, i)
    BY <2>1, <2>2 DEF IdTable
  <2>3. CASE IsOwn(k, i) /\ IsFresh(t, d, k, i)
    <3>1. Rank(Fresh(t, d, k), i) \in Nat
      BY FreshFacts, PositionsAreFinite
    <3>2. IdTable(t, d, k)[i] = Len(t.items[k]) + Rank(Fresh(t, d, k), i)
      BY <2>3 DEF IdTable
    <3>3. QED
      BY <2>1, <3>1, <3>2
  <2>4. CASE IsOwn(k, i) /\ ~ IsFresh(t, d, k, i)
    <3>1. PICK j \in DOMAIN t.origins[k] : IdTable(t, d, k)[i] = PreludeCounts[k] + j
      BY <2>4, FoundFacts
    <3>2. j \in Nat
      BY IrFacts
    <3>3. QED
      BY <2>1, <3>1, <3>2
  <2>5. QED
    BY <2>2, <2>3, <2>4
<1>2. QED
  BY <1>1 DEF IdTable

\* The files of both, those of `t` first; every file of `d` is among them.
LEMMA FilesFacts ==
  ASSUME NEW t \in Ir, NEW d \in Ir
  PROVE  /\ FilesWith(t, d) \in Seq(Modules)
         /\ \A f \in DOMAIN t.files : f \in DOMAIN FilesWith(t, d)
                                      /\ FilesWith(t, d)[f] = t.files[f]
         /\ DOMAIN FileTable(t, d) = DOMAIN d.files
         /\ \A f \in DOMAIN d.files :
               /\ FileTable(t, d)[f] \in DOMAIN FilesWith(t, d)
               /\ FilesWith(t, d)[FileTable(t, d)[f]] = d.files[f]
               /\ FileTable(t, d)[f] \in Nat
<1> DEFINE keep == {f \in DOMAIN d.files : d.files[f] \notin ToSet(t.files)}
           new == Kept(d.files, keep)
<1>1. /\ d.files \in Seq(Modules) /\ t.files \in Seq(Modules)
      /\ Len(d.files) \in Nat /\ DOMAIN d.files = 1..Len(d.files)
      /\ \A f \in DOMAIN d.files : d.files[f] \in Modules
  BY IrFacts DEF Ir
<1>2. keep \in SUBSET (1..Len(d.files)) /\ \A f \in keep : d.files[f] \in Modules
  BY <1>1
<1>3. new \in Seq(Modules)
  BY <1>1, <1>2, KeptType
<1> HIDE DEF keep
<1>4. ASSUME NEW f \in keep PROVE \E n \in DOMAIN new : new[n] = d.files[f]
  <2>1. /\ Rank(keep, f) \in DOMAIN Kept(d.files, keep)
        /\ Kept(d.files, keep)[Rank(keep, f)] = d.files[f]
    BY <1>1, <1>2, KeptAt
  <2>2. QED
    BY <2>1
<1> HIDE DEF new
<1>5. FilesWith(t, d) = t.files \o new
  BY DEF FilesWith, keep, new
<1>6. /\ FilesWith(t, d) \in Seq(Modules)
      /\ DOMAIN FilesWith(t, d) = 1..(Len(t.files) + Len(new))
      /\ Len(t.files) \in Nat /\ Len(new) \in Nat
      /\ DOMAIN t.files = 1..Len(t.files) /\ DOMAIN new = 1..Len(new)
      /\ \A f \in DOMAIN t.files : FilesWith(t, d)[f] = t.files[f]
      /\ \A f \in DOMAIN new : FilesWith(t, d)[Len(t.files) + f] = new[f]
  BY <1>1, <1>3, <1>5, Joined
<1>7. \A f \in DOMAIN t.files : f \in DOMAIN FilesWith(t, d)
  BY <1>6
<1>8. ASSUME NEW f \in DOMAIN d.files
      PROVE  \E j \in DOMAIN FilesWith(t, d) : FilesWith(t, d)[j] = d.files[f]
  <2>1. CASE f \in keep
    <3>1. PICK n \in DOMAIN new : new[n] = d.files[f]
      BY <1>4, <2>1
    <3>2. Len(t.files) + n \in DOMAIN FilesWith(t, d)
      BY <1>6
    <3>3. QED
      BY <1>6, <3>1, <3>2
  <2>2. CASE f \notin keep
    <3>1. PICK n \in DOMAIN t.files : t.files[n] = d.files[f]
      BY <2>2 DEF keep, ToSet
    <3>2. QED
      BY <1>6, <1>7, <3>1
  <2>3. QED
    BY <2>1, <2>2
<1>9. ASSUME NEW f \in DOMAIN d.files
      PROVE  /\ FileTable(t, d)[f] \in DOMAIN FilesWith(t, d)
             /\ FilesWith(t, d)[FileTable(t, d)[f]] = d.files[f]
             /\ FileTable(t, d)[f] \in Nat
  <2> DEFINE X == {j \in DOMAIN FilesWith(t, d) : FilesWith(t, d)[j] = d.files[f]}
  <2>1. X \in SUBSET Nat
    BY <1>6
  <2>2. X # {}
    BY <1>8
  <2>3. Min(X) \in X
    BY <2>1, <2>2, LeastOf
  <2>4. FileTable(t, d)[f] = Min(X)
    BY DEF FileTable
  <2>5. QED
    BY <2>1, <2>3, <2>4
<1>10. DOMAIN FileTable(t, d) = DOMAIN d.files
  BY DEF FileTable
<1>11. QED
  BY <1>6, <1>7, <1>9, <1>10

LEMMA MapIdType ==
  ASSUME NEW table, \A i \in DOMAIN table : table[i] \in Nat, NEW id \in Nat
  PROVE  MapId(table, id) \in Nat
BY DEF MapId

LEMMA MovedType ==
  ASSUME NEW item \in Item, NEW structs, NEW functions, NEW files,
         \A i \in DOMAIN structs : structs[i] \in Nat,
         \A i \in DOMAIN functions : functions[i] \in Nat,
         \A i \in DOMAIN files : files[i] \in Nat
  PROVE  /\ Moved(item, structs, functions, files) \in Item
         /\ Moved(item, structs, functions, files).file = MapId(files, item.file)
<1> DEFINE types == [j \in DOMAIN item.types |-> MapId(structs, item.types[j])]
           calls == [j \in DOMAIN item.calls |-> MovedCall(item.calls[j], functions)]
<1>1. /\ item.types \in Seq(Nat) /\ item.calls \in Seq(IrCall)
      /\ item.name \in Name /\ item.sig \in Sigs /\ item.file \in Nat
  BY DEF Item
<1>2. /\ Len(item.types) \in Nat /\ DOMAIN item.types = 1..Len(item.types)
      /\ Len(item.calls) \in Nat /\ DOMAIN item.calls = 1..Len(item.calls)
  BY <1>1, LenProperties
<1>3. types \in Seq(Nat)
  <2>1. \A j \in 1..Len(item.types) : MapId(structs, item.types[j]) \in Nat
    BY <1>1, <1>2, ElementOfSeq, MapIdType
  <2>2. types = [j \in 1..Len(item.types) |-> MapId(structs, item.types[j])]
    BY <1>2
  <2> HIDE DEF types
  <2>3. types \in [1..Len(item.types) -> Nat]
    BY <2>1, <2>2
  <2>4. QED
    BY <1>2, <2>3
<1>4. calls \in Seq(IrCall)
  <2>1. ASSUME NEW j \in 1..Len(item.calls)
        PROVE  MovedCall(item.calls[j], functions) \in IrCall
    <3>1. item.calls[j] \in IrCall
      BY <1>1, ElementOfSeq
    <3>2. MapId(functions, item.calls[j].id) \in Nat
      BY <3>1, MapIdType DEF IrCall
    <3>3. QED
      BY <3>1, <3>2 DEF IrCall, MovedCall
  <2>2. calls = [j \in 1..Len(item.calls) |-> MovedCall(item.calls[j], functions)]
    BY <1>2
  <2> HIDE DEF calls
  <2>3. calls \in [1..Len(item.calls) -> IrCall]
    BY <2>1, <2>2
  <2>4. QED
    BY <1>2, <2>3
<1>5. /\ types = [j \in DOMAIN item.types |-> MapId(structs, item.types[j])]
      /\ calls = [j \in DOMAIN item.calls |-> MovedCall(item.calls[j], functions)]
  OBVIOUS
<1>6. MapId(files, item.file) \in Nat
  BY <1>1, MapIdType
<1> HIDE DEF types, calls
<1>7. Moved(item, structs, functions, files)
        = [item EXCEPT !.types = types, !.calls = calls, !.file = MapId(files, @)]
  BY <1>5 DEF Moved
<1>8. QED
  BY <1>3, <1>4, <1>6, <1>7 DEF Item

\* An item of `d` as `t` gets it.
Copy(t, d, k, i) ==
    Moved(d.items[k][i], IdTable(t, d, "struct"), IdTable(t, d, "function"),
          FileTable(t, d))

LEMMA CopyType ==
  ASSUME NEW t \in Ir, NEW d \in Ir, Once(d), NEW k \in Kinds, NEW i \in DOMAIN d.items[k]
  PROVE  /\ Copy(t, d, k, i) \in Item
         /\ Copy(t, d, k, i).file = MapId(FileTable(t, d), d.items[k][i].file)
<1>1. d.items[k][i] \in Item
  BY IrFacts
<1>2. /\ \A j \in DOMAIN IdTable(t, d, "struct") : IdTable(t, d, "struct")[j] \in Nat
      /\ \A j \in DOMAIN IdTable(t, d, "function") : IdTable(t, d, "function")[j] \in Nat
  BY IdTableType, KindsAre
<1>3. \A j \in DOMAIN FileTable(t, d) : FileTable(t, d)[j] \in Nat
  BY FilesFacts
<1>4. QED
  BY <1>1, <1>2, <1>3, MovedType DEF Copy

\* The items of `t` stay where they are; the fresh ones of `d` come behind
\* them in their order, each with its origin.
LEMMA LinkIntoShape ==
  ASSUME NEW t \in Ir, NEW d \in Ir, Once(d), NEW k \in Kinds
  PROVE  /\ Cardinality(Fresh(t, d, k)) \in Nat
         /\ LinkInto(t, d).items[k] \in Seq(Item)
         /\ Len(LinkInto(t, d).items[k]) = Len(t.items[k]) + Cardinality(Fresh(t, d, k))
         /\ LinkInto(t, d).origins[k] \in Seq(Origin)
         /\ Len(LinkInto(t, d).origins[k]) = Len(t.origins[k]) + Cardinality(Fresh(t, d, k))
         /\ \A i \in 1..Len(t.items[k]) : LinkInto(t, d).items[k][i] = t.items[k][i]
         /\ \A i \in 1..Len(t.origins[k]) : LinkInto(t, d).origins[k][i] = t.origins[k][i]
         /\ \A n \in 1..Cardinality(Fresh(t, d, k)) :
               \E i \in Fresh(t, d, k) :
                  /\ Rank(Fresh(t, d, k), i) = n
                  /\ LinkInto(t, d).items[k][Len(t.items[k]) + n] = Copy(t, d, k, i)
                  /\ LinkInto(t, d).origins[k][Len(t.origins[k]) + n] = OriginOf(d, k, i)
<1> DEFINE keep == Fresh(t, d, k)
           items == [i \in DOMAIN d.items[k] |-> Copy(t, d, k, i)]
           origins == [i \in keep |-> OriginOf(d, k, i)]
           N1 == Len(d.items[k])
<1>1. /\ LinkInto(t, d).items[k] = t.items[k] \o Kept(items, keep)
      /\ LinkInto(t, d).origins[k] = t.origins[k] \o Kept(origins, keep)
  BY DEF LinkInto, Copy
<1>2. N1 \in Nat /\ keep \in SUBSET (1..N1) /\ DOMAIN d.items[k] = 1..N1
  BY FreshFacts, IrFacts
<1>3. \A i \in keep : items[i] \in Item /\ items[i] = Copy(t, d, k, i)
  BY <1>2, CopyType
<1>4. \A i \in keep : origins[i] \in Origin /\ origins[i] = OriginOf(d, k, i)
  BY FreshFacts
<1> HIDE DEF items, origins, keep, N1
<1>5. /\ Kept(items, keep) \in Seq(Item) /\ Len(Kept(items, keep)) = Cardinality(keep)
      /\ DOMAIN Kept(items, keep) = 1..Cardinality(keep)
  BY <1>2, <1>3, KeptType
<1>6. /\ Kept(origins, keep) \in Seq(Origin) /\ Len(Kept(origins, keep)) = Cardinality(keep)
      /\ DOMAIN Kept(origins, keep) = 1..Cardinality(keep)
  BY <1>2, <1>4, KeptType
<1>7. t.items[k] \in Seq(Item) /\ t.origins[k] \in Seq(Origin)
  BY IrFacts
<1>8. /\ LinkInto(t, d).items[k] \in Seq(Item)
      /\ Len(LinkInto(t, d).items[k]) = Len(t.items[k]) + Cardinality(keep)
      /\ \A i \in 1..Len(t.items[k]) : LinkInto(t, d).items[k][i] = t.items[k][i]
      /\ \A i \in 1..Cardinality(keep) :
            LinkInto(t, d).items[k][Len(t.items[k]) + i] = Kept(items, keep)[i]
  <2> DEFINE s == t.items[k]
             r == Kept(items, keep)
             both == LinkInto(t, d).items[k]
  <2>0. s \in Seq(Item) /\ r \in Seq(Item)
    BY <1>5, <1>7
  <2>1. both = s \o r /\ Len(r) = Cardinality(keep)
    BY <1>1, <1>5, <1>7
  <2> HIDE DEF s, r, both
  <2>2. /\ s \o r \in Seq(Item) /\ Len(s \o r) = Len(s) + Len(r)
        /\ \A i \in 1..Len(s) : (s \o r)[i] = s[i]
        /\ \A i \in 1..Len(r) : (s \o r)[Len(s) + i] = r[i]
    BY <2>0, Joined
  <2>3. QED
    BY <2>1, <2>2 DEF s, r, both
<1>9. /\ LinkInto(t, d).origins[k] \in Seq(Origin)
      /\ Len(LinkInto(t, d).origins[k]) = Len(t.origins[k]) + Cardinality(keep)
      /\ \A i \in 1..Len(t.origins[k]) : LinkInto(t, d).origins[k][i] = t.origins[k][i]
      /\ \A i \in 1..Cardinality(keep) :
            LinkInto(t, d).origins[k][Len(t.origins[k]) + i] = Kept(origins, keep)[i]
  <2> DEFINE s == t.origins[k]
             r == Kept(origins, keep)
             both == LinkInto(t, d).origins[k]
  <2>0. s \in Seq(Origin) /\ r \in Seq(Origin)
    BY <1>6, <1>7
  <2>1. both = s \o r /\ Len(r) = Cardinality(keep)
    BY <1>1, <1>6, <1>7
  <2> HIDE DEF s, r, both
  <2>2. /\ s \o r \in Seq(Origin) /\ Len(s \o r) = Len(s) + Len(r)
        /\ \A i \in 1..Len(s) : (s \o r)[i] = s[i]
        /\ \A i \in 1..Len(r) : (s \o r)[Len(s) + i] = r[i]
    BY <2>0, Joined
  <2>3. QED
    BY <2>1, <2>2 DEF s, r, both
<1>10. ASSUME NEW n \in 1..Cardinality(keep)
       PROVE  \E i \in keep :
                 /\ Rank(keep, i) = n
                 /\ LinkInto(t, d).items[k][Len(t.items[k]) + n] = Copy(t, d, k, i)
                 /\ LinkInto(t, d).origins[k][Len(t.origins[k]) + n] = OriginOf(d, k, i)
  <2>1. PICK i \in keep : Rank(keep, i) = n
    BY <1>2, RankOnto
  <2>2. Kept(items, keep)[n] = items[i] /\ Kept(origins, keep)[n] = origins[i]
    BY <1>2, <2>1, KeptAt
  <2>3. QED
    BY <1>3, <1>4, <1>8, <1>9, <2>1, <2>2
<1>11. Cardinality(keep) \in Nat
  BY <1>2, PositionsAreFinite
<1>12. QED
  BY <1>8, <1>9, <1>10, <1>11 DEF keep

LEMMA LinkIntoType ==
  ASSUME NEW t \in Ir, NEW d \in Ir, Once(d)
  PROVE  /\ LinkInto(t, d) \in Ir
         /\ LinkInto(t, d).files = FilesWith(t, d)
<1> DEFINE r == LinkInto(t, d)
<1>1. /\ r = [items |-> r.items, origins |-> r.origins, files |-> r.files]
      /\ r.items = [k \in Kinds |-> r.items[k]]
      /\ r.origins = [k \in Kinds |-> r.origins[k]]
      /\ r.files = FilesWith(t, d)
  BY DEF LinkInto
<1> HIDE DEF r
<1>2. \A k \in Kinds : r.items[k] \in Seq(Item) /\ r.origins[k] \in Seq(Origin)
  BY LinkIntoShape DEF r
<1>3. r.items \in [Kinds -> Seq(Item)] /\ r.origins \in [Kinds -> Seq(Origin)]
  BY <1>1, <1>2
<1>4. r.files \in Seq(Modules)
  BY <1>1, FilesFacts
<1>5. r \in Ir
  BY <1>1, <1>3, <1>4 DEF Ir
<1>6. QED
  BY <1>1, <1>5 DEF r

\* A position of the linked origins is one of `t` or that of a fresh item.
LEMMA LinkIntoOrigins ==
  ASSUME NEW t \in Ir, NEW d \in Ir, Once(d), NEW k \in Kinds,
         NEW n \in DOMAIN LinkInto(t, d).origins[k]
  PROVE  \/ /\ n \in DOMAIN t.origins[k]
            /\ LinkInto(t, d).origins[k][n] = t.origins[k][n]
         \/ \E i \in Fresh(t, d, k) :
               /\ n = Len(t.origins[k]) + Rank(Fresh(t, d, k), i)
               /\ LinkInto(t, d).origins[k][n] = OriginOf(d, k, i)
<1> DEFINE a == Len(t.origins[k])
           b == Cardinality(Fresh(t, d, k))
<1>1. /\ a \in Nat /\ b \in Nat /\ DOMAIN t.origins[k] = 1..a
      /\ DOMAIN LinkInto(t, d).origins[k] = 1..(a + b)
  <2>1. LinkInto(t, d) \in Ir
    BY LinkIntoType
  <2>2. DOMAIN LinkInto(t, d).origins[k] = 1..Len(LinkInto(t, d).origins[k])
    BY <2>1, IrFacts
  <2>3. QED
    BY <2>2, IrFacts, LinkIntoShape
<1> HIDE DEF a, b
<1>2. n \in 1..a \/ \E m \in 1..b : n = a + m
  <2>1. n \in 1..(a + b)
    BY <1>1
  <2>2. QED
    BY <1>1, <2>1, Split
<1>3. CASE n \in 1..a
  BY <1>1, <1>3, LinkIntoShape DEF a
<1>4. CASE \E m \in 1..b : n = a + m
  <2>1. PICK m \in 1..b : n = a + m
    BY <1>4
  <2>2. PICK i \in Fresh(t, d, k) :
           /\ Rank(Fresh(t, d, k), i) = m
           /\ LinkInto(t, d).origins[k][a + m] = OriginOf(d, k, i)
    BY LinkIntoShape DEF a, b
  <2>3. QED
    BY <2>1, <2>2 DEF a
<1>5. QED
  BY <1>2, <1>3, <1>4

LEMMA LinkIntoOnce ==
  ASSUME NEW t \in Ir, NEW d \in Ir, Once(t), Once(d)
  PROVE  Once(LinkInto(t, d))
<1> SUFFICES ASSUME NEW k \in Kinds
             PROVE  /\ Len(LinkInto(t, d).items[k])
                         = PreludeCounts[k] + Len(LinkInto(t, d).origins[k])
                    /\ \A i, j \in DOMAIN LinkInto(t, d).origins[k] :
                          LinkInto(t, d).origins[k][i] = LinkInto(t, d).origins[k][j]
                          => i = j
  BY DEF Once
<1> DEFINE o == LinkInto(t, d).origins[k]
           keep == Fresh(t, d, k)
<1>1. Len(LinkInto(t, d).items[k]) = PreludeCounts[k] + Len(o)
  <2>1. Len(t.items[k]) = PreludeCounts[k] + Len(t.origins[k])
    BY DEF Once
  <2>2. PreludeCounts[k] \in Nat /\ Len(t.origins[k]) \in Nat
    BY PreludeFacts, IrFacts
  <2>3. /\ Cardinality(keep) \in Nat
        /\ Len(LinkInto(t, d).items[k]) = Len(t.items[k]) + Cardinality(keep)
        /\ Len(o) = Len(t.origins[k]) + Cardinality(keep)
    BY LinkIntoShape
  <2> HIDE DEF o, keep
  <2>4. QED
    BY <2>1, <2>2, <2>3
\* An origin of `t` and the one of a fresh item differ.
<1>2. ASSUME NEW n \in DOMAIN t.origins[k], NEW i \in keep
      PROVE  t.origins[k][n] # OriginOf(d, k, i)
  BY FreshFacts DEF ToSet
\* So do the origins of two items of `d`.
<1>3. ASSUME NEW i \in keep, NEW j \in keep, OriginOf(d, k, i) = OriginOf(d, k, j)
      PROVE  i = j
  <2>1. i \in OwnIndices(d, k) /\ j \in OwnIndices(d, k)
    BY FreshFacts
  <2>2. /\ i - PreludeCounts[k] \in DOMAIN d.origins[k]
        /\ j - PreludeCounts[k] \in DOMAIN d.origins[k]
        /\ i \in 1..Len(d.items[k]) /\ j \in 1..Len(d.items[k])
    BY <2>1, OwnFacts
  <2>3. i - PreludeCounts[k] = j - PreludeCounts[k]
    BY <1>3, <2>2 DEF Once, OriginOf
  <2>4. i \in Int /\ j \in Int /\ PreludeCounts[k] \in Nat
    BY <2>2, PreludeFacts
  <2>5. QED
    BY <2>3, <2>4
<1>4. ASSUME NEW i \in DOMAIN o, NEW j \in DOMAIN o, o[i] = o[j]
      PROVE  i = j
  <2> HIDE DEF keep
  <2>1. \/ i \in DOMAIN t.origins[k] /\ o[i] = t.origins[k][i]
        \/ \E x \in keep : i = Len(t.origins[k]) + Rank(keep, x) /\ o[i] = OriginOf(d, k, x)
    BY LinkIntoOrigins DEF keep
  <2>2. \/ j \in DOMAIN t.origins[k] /\ o[j] = t.origins[k][j]
        \/ \E y \in keep : j = Len(t.origins[k]) + Rank(keep, y) /\ o[j] = OriginOf(d, k, y)
    BY LinkIntoOrigins DEF keep
  <2> HIDE DEF o
  <2>3. \A x, y \in DOMAIN t.origins[k] : t.origins[k][x] = t.origins[k][y] => x = y
    BY DEF Once
  <2>4. QED
    BY <1>2, <1>3, <1>4, <2>1, <2>2, <2>3
<1>5. QED
  BY <1>1, <1>4

LEMMA LinkIntoFrom ==
  ASSUME NEW t \in Ir, NEW d \in Ir, Once(d), NEW mods, From(t, mods), From(d, mods)
  PROVE  From(LinkInto(t, d), mods)
<1> SUFFICES ASSUME NEW k \in Kinds, NEW n \in DOMAIN LinkInto(t, d).origins[k]
             PROVE  LinkInto(t, d).origins[k][n].module \in mods
  BY DEF From
<1>1. CASE /\ n \in DOMAIN t.origins[k]
           /\ LinkInto(t, d).origins[k][n] = t.origins[k][n]
  BY <1>1 DEF From
<1>2. ASSUME NEW i \in Fresh(t, d, k),
             LinkInto(t, d).origins[k][n] = OriginOf(d, k, i)
      PROVE  LinkInto(t, d).origins[k][n].module \in mods
  <2>1. i \in OwnIndices(d, k)
    BY FreshFacts
  <2>2. i - PreludeCounts[k] \in DOMAIN d.origins[k]
    BY <2>1, OwnFacts
  <2>3. QED
    BY <1>2, <2>2 DEF From, OriginOf
<1>3. QED
  BY <1>1, <1>2, LinkIntoOrigins

LEMMA LinkIntoSpans ==
  ASSUME NEW t \in Ir, NEW d \in Ir, Once(t), Once(d), Spans(t), Spans(d)
  PROVE  Spans(LinkInto(t, d))
<1> SUFFICES ASSUME NEW k \in Kinds, NEW n \in OwnIndices(LinkInto(t, d), k)
             PROVE  SpanIsRight(LinkInto(t, d), k, n)
  BY DEF Spans
<1> DEFINE r == LinkInto(t, d)
           P == PreludeCounts[k]
           a == Len(t.origins[k])
<1>1. r \in Ir /\ Once(r) /\ r.files = FilesWith(t, d)
  BY LinkIntoType, LinkIntoOnce
<1>2. P \in Nat /\ a \in Nat /\ Len(t.items[k]) = P + a
  BY PreludeFacts, IrFacts DEF Once
<1>3. /\ n - P \in DOMAIN r.origins[k] /\ OriginOf(r, k, n) = r.origins[k][n - P]
      /\ n \in 1..Len(r.items[k]) /\ n > P
  BY <1>1, OwnFacts DEF OriginOf, OwnIndices, IsOwn
<1>4. CASE /\ n - P \in DOMAIN t.origins[k]
           /\ r.origins[k][n - P] = t.origins[k][n - P]
  <2>1. n - P \in 1..a
    BY <1>4, IrFacts
  <2>2. n \in 1..(P + a)
    BY <1>2, <1>3, <2>1
  <2>3. n \in OwnIndices(t, k) /\ r.items[k][n] = t.items[k][n]
    <3>1. n \in 1..Len(t.items[k]) /\ DOMAIN t.items[k] = 1..Len(t.items[k])
      BY <1>2, <2>2, IrFacts
    <3>2. n \in OwnIndices(t, k)
      BY <1>3, <3>1 DEF OwnIndices, IsOwn
    <3>3. QED
      BY <3>1, <3>2, LinkIntoShape
  <2>4. SpanIsRight(t, k, n)
    BY <2>3 DEF Spans
  <2>5. OriginOf(t, k, n) = OriginOf(r, k, n)
    BY <1>3, <1>4 DEF OriginOf
  <2>6. \A f \in DOMAIN t.files : f \in DOMAIN r.files /\ r.files[f] = t.files[f]
    BY <1>1, FilesFacts
  <2> HIDE DEF r
  <2>7. QED
    BY <2>3, <2>4, <2>5, <2>6 DEF SpanIsRight, r
<1>5. ASSUME NEW i \in Fresh(t, d, k), n - P = a + Rank(Fresh(t, d, k), i),
             r.origins[k][n - P] = OriginOf(d, k, i)
      PROVE  SpanIsRight(r, k, n)
  <2> DEFINE m == Rank(Fresh(t, d, k), i)
  <2>1. m \in 1..Cardinality(Fresh(t, d, k))
    BY FreshFacts, RankType
  <2>2. n = Len(t.items[k]) + m
    <3>1. m \in Int /\ n \in Int /\ n - P = a + m
      BY <1>3, <1>5, <2>1
    <3> HIDE DEF m, P, a
    <3>2. QED
      BY <1>2, <3>1
  <2>3. PICK j \in Fresh(t, d, k) : /\ Rank(Fresh(t, d, k), j) = m
                                    /\ r.items[k][Len(t.items[k]) + m] = Copy(t, d, k, j)
    BY <2>1, LinkIntoShape
  <2>4. j = i
    <3>1. /\ Len(d.items[k]) \in Nat
          /\ Fresh(t, d, k) \in SUBSET (1..Len(d.items[k]))
      BY FreshFacts
    <3>2. Rank(Fresh(t, d, k), j) = Rank(Fresh(t, d, k), i)
      BY <2>3
    <3> HIDE DEF m
    <3>3. QED
      BY <3>1, <3>2, RankInjective
  <2>5. i \in OwnIndices(d, k) /\ i \in DOMAIN d.items[k] /\ SpanIsRight(d, k, i)
    BY FreshFacts DEF Spans, OwnIndices
  <2>6. r.items[k][n].file = FileTable(t, d)[d.items[k][i].file]
    <3>1. Copy(t, d, k, i).file = MapId(FileTable(t, d), d.items[k][i].file)
      BY <2>5, CopyType
    <3>2. d.items[k][i].file \in DOMAIN FileTable(t, d)
      BY <2>5, FilesFacts DEF SpanIsRight
    <3> HIDE DEF r, m
    <3>3. QED
      BY <2>2, <2>3, <2>4, <3>1, <3>2 DEF MapId
  <2>7. /\ FileTable(t, d)[d.items[k][i].file] \in DOMAIN r.files
        /\ r.files[FileTable(t, d)[d.items[k][i].file]] = d.files[d.items[k][i].file]
    <3>1. d.items[k][i].file \in DOMAIN d.files
      BY <2>5 DEF SpanIsRight
    <3>2. /\ FileTable(t, d)[d.items[k][i].file] \in DOMAIN FilesWith(t, d)
          /\ FilesWith(t, d)[FileTable(t, d)[d.items[k][i].file]]
               = d.files[d.items[k][i].file]
      BY <3>1, FilesFacts
    <3> HIDE DEF r, m, P, a
    <3>3. QED
      BY <1>1, <3>2
  <2> HIDE DEF r
  <2>8. QED
    BY <1>3, <1>5, <2>5, <2>6, <2>7 DEF SpanIsRight
<1>6. QED
  <2>1. \/ /\ n - P \in DOMAIN t.origins[k]
           /\ r.origins[k][n - P] = t.origins[k][n - P]
        \/ \E i \in Fresh(t, d, k) : /\ n - P = a + Rank(Fresh(t, d, k), i)
                                     /\ r.origins[k][n - P] = OriginOf(d, k, i)
    BY <1>3, LinkIntoOrigins
  <2>2. QED
    BY <1>4, <1>5, <2>1

\* Linking a whole module into a whole module gives a whole module, and the
\* files of the first stay where they are.
LEMMA LinkIntoWhole ==
  ASSUME NEW mods, NEW t, NEW d, Whole(t, mods), Whole(d, mods)
  PROVE  /\ Whole(LinkInto(t, d), mods)
         /\ \A f \in DOMAIN t.files : /\ f \in DOMAIN LinkInto(t, d).files
                                      /\ LinkInto(t, d).files[f] = t.files[f]
<1>1. t \in Ir /\ d \in Ir /\ Once(t) /\ Once(d)
  BY DEF Whole
<1>2. LinkInto(t, d) \in Ir /\ LinkInto(t, d).files = FilesWith(t, d)
  BY <1>1, LinkIntoType
<1>3. Once(LinkInto(t, d))
  BY <1>1, LinkIntoOnce
<1>4. Spans(LinkInto(t, d))
  BY <1>1, LinkIntoSpans DEF Whole
<1>5. From(LinkInto(t, d), mods)
  BY <1>1, LinkIntoFrom DEF Whole
<1>6. \A f \in DOMAIN t.files : /\ f \in DOMAIN LinkInto(t, d).files
                                /\ LinkInto(t, d).files[f] = t.files[f]
  BY <1>1, <1>2, FilesFacts
<1>7. QED
  BY <1>2, <1>3, <1>4, <1>5, <1>6 DEF Whole

-----------------------------------------------------------------------------
(* Items rewritten one by one. *)

\* An IR whose items are rewritten in place, each with its file kept.
Rewritten(ir, new) ==
    /\ new = [ir EXCEPT !.items = new.items]
    /\ new.items = [k \in Kinds |-> new.items[k]]
    /\ \A k \in Kinds : new.items[k] = [i \in DOMAIN ir.items[k] |-> new.items[k][i]]
    /\ \A k \in Kinds : \A i \in DOMAIN ir.items[k] :
          new.items[k][i] \in Item /\ new.items[k][i].file = ir.items[k][i].file

LEMMA RewrittenShape ==
  ASSUME NEW ir \in Ir, NEW new, Rewritten(ir, new)
  PROVE  /\ new \in Ir /\ new.origins = ir.origins /\ new.files = ir.files
         /\ \A k \in Kinds : /\ Len(new.items[k]) = Len(ir.items[k])
                             /\ DOMAIN new.items[k] = DOMAIN ir.items[k]
<1>1. ASSUME NEW k \in Kinds
      PROVE  /\ new.items[k] \in Seq(Item) /\ Len(new.items[k]) = Len(ir.items[k])
             /\ DOMAIN new.items[k] = DOMAIN ir.items[k]
  <2>1. Len(ir.items[k]) \in Nat /\ DOMAIN ir.items[k] = 1..Len(ir.items[k])
    BY IrFacts
  <2>2. /\ new.items[k] = [i \in 1..Len(ir.items[k]) |-> new.items[k][i]]
        /\ \A i \in 1..Len(ir.items[k]) : new.items[k][i] \in Item
    BY <2>1 DEF Rewritten
  <2>3. QED
    BY <2>1, <2>2, SeqBy
<1>2. new.items \in [Kinds -> Seq(Item)]
  BY <1>1 DEF Rewritten
<1>3. new.origins = ir.origins /\ new.files = ir.files /\ new \in Ir
  BY <1>2 DEF Rewritten, Ir
<1>4. QED
  BY <1>1, <1>3

LEMMA RewrittenWhole ==
  ASSUME NEW mods, NEW ir, Whole(ir, mods), NEW new, Rewritten(ir, new)
  PROVE  Whole(new, mods)
<1>1. ir \in Ir
  BY DEF Whole
<1>2. /\ new \in Ir /\ new.origins = ir.origins /\ new.files = ir.files
      /\ \A k \in Kinds : /\ Len(new.items[k]) = Len(ir.items[k])
                          /\ DOMAIN new.items[k] = DOMAIN ir.items[k]
  BY <1>1, RewrittenShape
<1>3. Once(new)
  BY <1>2 DEF Whole, Once
<1>4. From(new, mods)
  BY <1>2 DEF Whole, From
<1>5. ASSUME NEW k \in Kinds, NEW i \in OwnIndices(new, k)
      PROVE  SpanIsRight(new, k, i)
  <2>1. i \in OwnIndices(ir, k) /\ i \in DOMAIN ir.items[k]
    BY <1>2, <1>5 DEF OwnIndices
  <2>2. new.items[k][i].file = ir.items[k][i].file
    BY <2>1 DEF Rewritten
  <2>3. SpanIsRight(ir, k, i)
    BY <2>1 DEF Whole, Spans
  <2>4. OriginOf(new, k, i) = OriginOf(ir, k, i)
    BY <1>2 DEF OriginOf
  <2>5. QED
    BY <1>2, <2>2, <2>3, <2>4 DEF SpanIsRight
<1>6. QED
  BY <1>2, <1>3, <1>4, <1>5 DEF Whole, Spans

LEMMA AliasedItemType ==
  ASSUME NEW m, NEW k, NEW item \in Item
  PROVE  /\ AliasedItem(m, k, item) \in Item
         /\ AliasedItem(m, k, item).file = item.file
<1>1. Plain(item.name.path) \in Name
  BY DEF Item, Name, Plain, Modules, Entry
<1>2. QED
  BY <1>1 DEF AliasedItem, Item

LEMMA AliasedShape ==
  ASSUME NEW m, NEW ir \in Ir
  PROVE  Rewritten(ir, [ir EXCEPT !.items = Aliased(m, ir.items)])
<1> DEFINE new == [ir EXCEPT !.items = Aliased(m, ir.items)]
<1>1. new.items = Aliased(m, ir.items)
  BY DEF Ir
<1>2. new = [ir EXCEPT !.items = new.items]
  BY <1>1
<1> HIDE DEF new
<1>3. /\ new.items = [k \in Kinds |-> new.items[k]]
      /\ \A k \in Kinds : new.items[k] = [i \in DOMAIN ir.items[k] |-> new.items[k][i]]
      /\ \A k \in Kinds : \A i \in DOMAIN ir.items[k] :
            new.items[k][i] = AliasedItem(m, k, ir.items[k][i])
  BY <1>1 DEF Aliased
<1>4. \A k \in Kinds : \A i \in DOMAIN ir.items[k] : ir.items[k][i] \in Item
  BY IrFacts
<1>5. Rewritten(ir, new)
  BY <1>2, <1>3, <1>4, AliasedItemType DEF Rewritten
<1>6. QED
  BY <1>5 DEF new

LEMMA FinalNameType ==
  ASSUME prog \in Program, NEW ir, NEW name \in Name
  PROVE  FinalName(ir, name) \in Name
<1>1. CASE name.home = 0
  BY <1>1 DEF FinalName
<1>2. CASE name.home # 0
  <2>1. name.home \in Files /\ name.home \in Modules /\ 0 \in Modules
    BY <1>2 DEF Name, Modules, Entry
  <2>2. prog.logical[name.home] \in Seq(Segments) /\ name.path \in Seq(Segments)
    BY <2>1 DEF Program, Name, Path
  <2>3. prog.logical[name.home] \o name.path \in Seq(Segments)
    BY <2>2, ConcatProperties
  <2>4. QED
    BY <1>2, <2>1, <2>3 DEF FinalName, Name
<1>3. QED
  BY <1>1, <1>2

LEMMA RenamedItemType ==
  ASSUME prog \in Program, NEW ir, NEW item \in Item
  PROVE  RenamedItem(ir, item) \in Item /\ RenamedItem(ir, item).file = item.file
<1> DEFINE calls == [j \in DOMAIN item.calls |-> RenamedCall(ir, item.calls[j])]
<1>1. /\ item.calls \in Seq(IrCall) /\ Len(item.calls) \in Nat
      /\ DOMAIN item.calls = 1..Len(item.calls)
  BY LenProperties DEF Item
<1>2. ASSUME NEW j \in 1..Len(item.calls) PROVE calls[j] \in IrCall
  <2>1. item.calls[j] \in IrCall
    BY <1>1, ElementOfSeq
  <2>2. FinalName(ir, item.calls[j].path) \in Name
    BY <2>1, FinalNameType DEF IrCall
  <2>3. QED
    BY <1>1, <2>1, <2>2 DEF RenamedCall, IrCall
<1>3. calls = [j \in DOMAIN item.calls |-> RenamedCall(ir, item.calls[j])]
  OBVIOUS
<1>4. calls = [j \in 1..Len(item.calls) |-> calls[j]]
  BY <1>1
<1> HIDE DEF calls
<1>5. calls \in Seq(IrCall)
  BY <1>1, <1>2, <1>4, SeqBy
<1>6. FinalName(ir, item.name) \in Name
  BY FinalNameType DEF Item
<1>7. RenamedItem(ir, item) = [item EXCEPT !.name = FinalName(ir, @), !.calls = calls]
  BY <1>3 DEF RenamedItem
<1>8. QED
  BY <1>5, <1>6, <1>7 DEF Item

LEMMA FinishEntryShape ==
  ASSUME prog \in Program, NEW ir \in Ir
  PROVE  Rewritten(ir, FinishEntry(ir))
<1> DEFINE new == FinishEntry(ir)
           items == [k \in Kinds |-> [i \in DOMAIN ir.items[k] |-> RenamedItem(ir, ir.items[k][i])]]
<1>1. new = [ir EXCEPT !.items = items]
  BY DEF FinishEntry
<1>2. new.items = items
  BY <1>1 DEF Ir
<1>3. /\ items = [k \in Kinds |-> items[k]]
      /\ \A k \in Kinds : items[k] = [i \in DOMAIN ir.items[k] |-> items[k][i]]
      /\ \A k \in Kinds : \A i \in DOMAIN ir.items[k] :
            items[k][i] = RenamedItem(ir, ir.items[k][i])
  OBVIOUS
<1> HIDE DEF new, items
<1>4. \A k \in Kinds : \A i \in DOMAIN ir.items[k] : ir.items[k][i] \in Item
  BY IrFacts
<1>5. Rewritten(ir, new)
  BY <1>1, <1>2, <1>3, <1>4, RenamedItemType DEF Rewritten
<1>6. QED
  BY <1>5 DEF new

-----------------------------------------------------------------------------
(* The ids that names are bound to. *)

LEMMA FirstNamedType ==
  ASSUME NEW n \in Nat, NEW names, DOMAIN names = 1..n, NEW name
  PROVE  /\ FirstNamed(names, name) \in 0..n
         /\ FirstNamed(names, name) # 0 => /\ FirstNamed(names, name) \in DOMAIN names
                                           /\ names[FirstNamed(names, name)] = name
<1> DEFINE X == {i \in DOMAIN names : names[i] = name}
<1>1. CASE X = {}
  <2>1. FirstNamed(names, name) = 0
    BY <1>1 DEF FirstNamed
  <2>2. QED
    BY <2>1
<1>2. CASE X # {}
  <2>1. X \in SUBSET Nat
    OBVIOUS
  <2>2. Min(X) \in X
    BY <1>2, <2>1, LeastOf
  <2>3. FirstNamed(names, name) = Min(X)
    BY <1>2 DEF FirstNamed
  <2>4. FirstNamed(names, name) \in X
    BY <2>2, <2>3
  <2>5. QED
    BY <2>4
<1>3. QED
  BY <1>1, <1>2

LEMMA NamesFacts ==
  ASSUME NEW ir \in Ir, NEW k \in Kinds
  PROVE  DOMAIN Names(ir, k) = 1..Len(ir.items[k])
BY IrFacts DEF Names

LEMMA LateIdType ==
  ASSUME NEW ir \in Ir, NEW k, NEW item, NEW c
  PROVE  LateId(ir, k, item, c) \in Nat
<1>1. /\ Len(ir.items["function"]) \in Nat
      /\ DOMAIN Names(ir, "function") = 1..Len(ir.items["function"])
  BY IrFacts, NamesFacts, KindsAre
<1>2. \A name : FirstNamed(Names(ir, "function"), name) \in Nat
  BY <1>1, FirstNamedType
<1>3. QED
  BY <1>2 DEF LateId

LEMMA ResolvedItemType ==
  ASSUME NEW ir \in Ir, NEW k, NEW item \in Item
  PROVE  ResolvedItem(ir, k, item) \in Item /\ ResolvedItem(ir, k, item).file = item.file
<1> DEFINE calls == [j \in DOMAIN item.calls |-> ResolvedCall(ir, k, item, item.calls[j])]
<1>1. /\ item.calls \in Seq(IrCall) /\ Len(item.calls) \in Nat
      /\ DOMAIN item.calls = 1..Len(item.calls)
  BY LenProperties DEF Item
<1>2. ASSUME NEW j \in 1..Len(item.calls) PROVE calls[j] \in IrCall
  <2>1. item.calls[j] \in IrCall
    BY <1>1, ElementOfSeq
  <2>2. LateId(ir, k, item, item.calls[j]) \in Nat
    BY LateIdType
  <2>3. QED
    BY <1>1, <2>1, <2>2 DEF ResolvedCall, IrCall
<1>3. calls = [j \in DOMAIN item.calls |-> ResolvedCall(ir, k, item, item.calls[j])]
  OBVIOUS
<1>4. calls = [j \in 1..Len(item.calls) |-> calls[j]]
  BY <1>1
<1> HIDE DEF calls
<1>5. calls \in Seq(IrCall)
  BY <1>1, <1>2, <1>4, SeqBy
<1>6. ResolvedItem(ir, k, item) = [item EXCEPT !.calls = calls]
  BY <1>3 DEF ResolvedItem
<1>7. QED
  BY <1>5, <1>6 DEF Item

LEMMA ResolvedShape ==
  ASSUME NEW ir \in Ir
  PROVE  Rewritten(ir, ResolveReferences(ir))
<1> DEFINE new == ResolveReferences(ir)
           items == [k \in Kinds |-> [i \in DOMAIN ir.items[k] |->
                        ResolvedItem(ir, k, ir.items[k][i])]]
<1>1. new = [ir EXCEPT !.items = items]
  BY DEF ResolveReferences
<1>2. new.items = items
  BY <1>1 DEF Ir
<1>3. /\ items = [k \in Kinds |-> items[k]]
      /\ \A k \in Kinds : items[k] = [i \in DOMAIN ir.items[k] |-> items[k][i]]
      /\ \A k \in Kinds : \A i \in DOMAIN ir.items[k] :
            items[k][i] = ResolvedItem(ir, k, ir.items[k][i])
  OBVIOUS
<1> HIDE DEF new, items
<1>4. \A k \in Kinds : \A i \in DOMAIN ir.items[k] : ir.items[k][i] \in Item
  BY IrFacts
<1>5. Rewritten(ir, new)
  BY <1>1, <1>2, <1>3, <1>4, ResolvedItemType DEF Rewritten
<1>6. QED
  BY <1>5 DEF new

-----------------------------------------------------------------------------
(* Lowering. *)

LEMMA TypeIdType ==
  ASSUME NEW n \in Nat, NEW structs, DOMAIN structs = 1..n, NEW mod, NEW path
  PROVE  TypeId(structs, mod, path) \in Nat
<1>1. \A name : FirstNamed(structs, name) \in Nat
  BY FirstNamedType
<1>2. QED
  BY <1>1 DEF TypeId

LEMMA FindType ==
  ASSUME NEW n \in Nat, NEW funs, DOMAIN funs.names = 1..n, NEW mod, NEW path, NEW sig
  PROVE  /\ FindInScope(funs, mod, path) \in 0..n
         /\ FindOverload(funs, mod, path, sig) \in 0..n
<1>1. \A name : FirstNamed(funs.names, name) \in 0..n
  BY FirstNamedType
<1>2. FindInScope(funs, mod, path) \in 0..n
  BY <1>1 DEF FindInScope
<1> DEFINE at(name) == {i \in DOMAIN funs.names : funs.names[i] = name}
           candidates == IF at(Plain(mod \o path)) # {} THEN at(Plain(mod \o path))
                         ELSE at(Plain(path))
           fitting == {i \in candidates : funs.sigs[i] = sig}
<1>3. /\ candidates \in SUBSET (1..n)
      /\ fitting \in SUBSET candidates
  OBVIOUS
<1>4. FindOverload(funs, mod, path, sig)
        = IF Cardinality(candidates) = 1 THEN Min(candidates)
          ELSE IF fitting # {} THEN Min(fitting)
          ELSE FindInScope(funs, mod, path)
  BY DEF FindOverload
<1> HIDE DEF candidates, fitting
<1>5. ASSUME NEW X \in SUBSET (1..n), X # {} PROVE Min(X) \in 0..n
  <2>1. X \in SUBSET Nat
    OBVIOUS
  <2>2. Min(X) \in X
    BY <1>5, <2>1, LeastOf
  <2>3. Min(X) \in 1..n
    BY <2>2
  <2>4. \A i \in 1..n : i \in 0..n
    OBVIOUS
  <2>5. QED
    BY <2>3, <2>4
<1>6. ASSUME candidates = {} PROVE Cardinality(candidates) # 1
  <2>1. Cardinality({}) = 0
    BY FS_EmptySet
  <2>2. Cardinality(candidates) = 0
    BY <1>6, <2>1, Zenon
  <2>3. QED
    BY <2>2
<1>7. fitting \in SUBSET (1..n)
  BY <1>3
<1>8. QED
  BY <1>2, <1>3, <1>4, <1>5, <1>6, <1>7

LEMMA CallIdType ==
  ASSUME NEW n \in Nat, NEW funs, DOMAIN funs.names = 1..n, NEW mod, NEW c
  PROVE  CallId(funs, mod, c) \in 0..n
BY FirstNamedType, FindType DEF CallId

LEMMA KeptMembers ==
  ASSUME NEW T, NEW s \in Seq(T), NEW keep \in SUBSET (DOMAIN s)
  PROVE  /\ Kept(s, keep) \in Seq(T)
         /\ Len(Kept(s, keep)) = Cardinality(keep) /\ Cardinality(keep) \in Nat
         /\ DOMAIN Kept(s, keep) = 1..Cardinality(keep)
         /\ \A n \in DOMAIN Kept(s, keep) : \E i \in keep : Kept(s, keep)[n] = s[i]
<1>1. Len(s) \in Nat /\ DOMAIN s = 1..Len(s)
  BY LenProperties
<1>2. keep \in SUBSET (1..Len(s)) /\ \A i \in keep : s[i] \in T
  BY <1>1, ElementOfSeq
<1>3. /\ Kept(s, keep) \in Seq(T)
      /\ Len(Kept(s, keep)) = Cardinality(keep) /\ Cardinality(keep) \in Nat
      /\ DOMAIN Kept(s, keep) = 1..Cardinality(keep)
  BY <1>1, <1>2, KeptType, PositionsAreFinite
<1>4. ASSUME NEW n \in DOMAIN Kept(s, keep)
      PROVE  \E i \in keep : Kept(s, keep)[n] = s[i]
  <2>1. n \in 1..Cardinality(keep)
    BY <1>3
  <2>2. PICK i \in keep : Rank(keep, i) = n
    BY <1>1, <1>2, <2>1, RankOnto
  <2>3. Kept(s, keep)[Rank(keep, i)] = s[i]
    BY <1>1, <1>2, KeptAt
  <2>4. QED
    BY <2>2, <2>3
<1>5. QED
  BY <1>3, <1>4

LEMMA DefsFacts ==
  ASSUME prog \in Program, NEW m \in Modules
  PROVE  /\ prog.defs[m] \in Seq(Def) /\ Len(prog.defs[m]) \in Nat
         /\ DOMAIN prog.defs[m] = 1..Len(prog.defs[m])
         /\ \A i \in DOMAIN prog.defs[m] : prog.defs[m][i] \in Def
<1>1. prog.defs[m] \in Seq(Def)
  BY DEF Program
<1>2. QED
  BY <1>1, LenProperties, ElementOfSeq

FunctionsOf(defs) == {i \in DOMAIN defs : defs[i].kind = "function"}

LEMMA OwnOfFacts ==
  ASSUME prog \in Program, NEW m \in Modules, NEW k \in Kinds
  PROVE  /\ OwnOf(m, k) \in Seq(Def) /\ Len(OwnOf(m, k)) \in Nat
         /\ DOMAIN OwnOf(m, k) = 1..Len(OwnOf(m, k))
         /\ \A j \in DOMAIN OwnOf(m, k) :
               \E i \in DOMAIN prog.defs[m] : OwnOf(m, k)[j] = prog.defs[m][i]
         /\ k = "function" =>
               Len(OwnOf(m, k)) = Cardinality(FunctionsOf(prog.defs[m]))
<1> DEFINE defs == prog.defs[m]
           ofKind == {i \in DOMAIN defs : defs[i].kind = k}
           atTop == {i \in ofKind : ModOf(defs[i]) = <<>>}
           within == ofKind \ atTop
           inner == Kept(defs, within)
           outer == Kept(defs, atTop)
           whole == Kept(defs, ofKind)
<1>1. defs \in Seq(Def)
  BY DefsFacts
<1>2. /\ ofKind \in SUBSET DOMAIN defs /\ atTop \in SUBSET DOMAIN defs
      /\ within \in SUBSET DOMAIN defs
      /\ k = "function" => ofKind = FunctionsOf(defs)
  BY DEF FunctionsOf
<1>3. OwnOf(m, k) = IF k = "struct" THEN inner \o outer ELSE whole
  BY DEF OwnOf
<1> HIDE DEF ofKind, atTop, defs, within
<1>4. /\ inner \in Seq(Def) /\ DOMAIN inner = 1..Len(inner)
      /\ \A n \in DOMAIN inner : \E i \in DOMAIN defs : inner[n] = defs[i]
  <2>1. /\ inner \in Seq(Def)
        /\ \A n \in DOMAIN inner : \E i \in within : inner[n] = defs[i]
    BY <1>1, <1>2, KeptMembers
  <2>2. QED
    BY <1>2, <2>1, LenProperties
<1>5. /\ outer \in Seq(Def) /\ DOMAIN outer = 1..Len(outer)
      /\ \A n \in DOMAIN outer : \E i \in DOMAIN defs : outer[n] = defs[i]
  <2>1. /\ outer \in Seq(Def)
        /\ \A n \in DOMAIN outer : \E i \in atTop : outer[n] = defs[i]
    BY <1>1, <1>2, KeptMembers
  <2>2. QED
    BY <1>2, <2>1, LenProperties
<1>6. /\ whole \in Seq(Def) /\ DOMAIN whole = 1..Len(whole)
      /\ Len(whole) = Cardinality(ofKind)
      /\ \A n \in DOMAIN whole : \E i \in DOMAIN defs : whole[n] = defs[i]
  <2>1. /\ whole \in Seq(Def) /\ Len(whole) = Cardinality(ofKind)
        /\ \A n \in DOMAIN whole : \E i \in ofKind : whole[n] = defs[i]
    BY <1>1, <1>2, KeptMembers
  <2>2. QED
    BY <1>2, <2>1, LenProperties
<1> HIDE DEF inner, outer, whole
<1>7. CASE k = "struct"
  <2>1. OwnOf(m, k) = inner \o outer
    BY <1>3, <1>7
  <2>2. /\ inner \o outer \in Seq(Def)
        /\ Len(inner) \in Nat /\ Len(outer) \in Nat
        /\ DOMAIN (inner \o outer) = 1..(Len(inner) + Len(outer))
        /\ \A i \in 1..Len(inner) : (inner \o outer)[i] = inner[i]
        /\ \A i \in 1..Len(outer) : (inner \o outer)[Len(inner) + i] = outer[i]
    BY <1>4, <1>5, Joined
  <2>3. ASSUME NEW j \in DOMAIN (inner \o outer)
        PROVE  \E i \in DOMAIN defs : (inner \o outer)[j] = defs[i]
    <3>0. j \in 1..(Len(inner) + Len(outer))
      BY <2>2
    <3>1. j \in 1..Len(inner) \/ \E n \in 1..Len(outer) : j = Len(inner) + n
      BY <2>2, <3>0, Split
    <3>2. QED
      BY <1>4, <1>5, <2>2, <3>1
  <2>4. /\ Len(inner \o outer) \in Nat
        /\ DOMAIN (inner \o outer) = 1..Len(inner \o outer)
    BY <2>2, LenProperties
  <2>5. /\ OwnOf(m, k) \in Seq(Def) /\ Len(OwnOf(m, k)) \in Nat
        /\ DOMAIN OwnOf(m, k) = 1..Len(OwnOf(m, k))
        /\ \A j \in DOMAIN OwnOf(m, k) : \E i \in DOMAIN defs : OwnOf(m, k)[j] = defs[i]
    BY <2>1, <2>2, <2>3, <2>4
  <2>6. QED
    BY <1>7, <2>5 DEF defs
<1>8. CASE k # "struct"
  <2>1. OwnOf(m, k) = whole
    BY <1>3, <1>8
  <2>2. Len(whole) \in Nat
    BY <1>6, LenProperties
  <2>3. QED
    BY <1>2, <1>6, <2>1, <2>2 DEF defs
<1>9. QED
  BY <1>7, <1>8

LEMMA JoinedDomain ==
  ASSUME NEW a \in Nat, NEW b \in Nat, NEW f, NEW g,
         f = [i \in 1..a |-> f[i]], g = [i \in 1..b |-> g[i]]
  PROVE  DOMAIN (f \o g) = 1..(a + b)
<1> DEFINE T == {f[i] : i \in 1..a} \cup {g[i] : i \in 1..b}
<1>1. (\A i \in 1..a : f[i] \in T) /\ (\A i \in 1..b : g[i] \in T)
  OBVIOUS
<1> HIDE DEF T
<1>2. f \in Seq(T) /\ Len(f) = a
  BY <1>1, SeqBy
<1>3. g \in Seq(T) /\ Len(g) = b
  BY <1>1, SeqBy
<1>4. DOMAIN (f \o g) = 1..(Len(f) + Len(g))
  BY <1>2, <1>3, Joined
<1>5. QED
  BY <1>2, <1>3, <1>4

\* The functions that are there when definition number i lowers: no more than
\* there will be in the end.
LEMMA FunctionsBeforeFacts ==
  ASSUME prog \in Program, NEW m \in Modules, NEW ir \in Ir, NEW i \in DOMAIN prog.defs[m]
  PROVE  \E n \in 0..(Len(ir.items["function"]) + Len(OwnOf(m, "function"))) :
            DOMAIN FunctionsBefore(m, ir, i).names = 1..n
<1> DEFINE defs == prog.defs[m]
           before == {j \in 1..(i - 1) : defs[j].kind = "function"}
           own == Kept(defs, before)
           first == Names(ir, "function")
           second == [j \in DOMAIN own |-> Plain(own[j].path)]
           a == Len(ir.items["function"])
           b == Len(OwnOf(m, "function"))
<1>1. /\ defs \in Seq(Def) /\ Len(defs) \in Nat /\ DOMAIN defs = 1..Len(defs)
      /\ i \in 1..Len(defs)
  BY DefsFacts
<1>2. before \in SUBSET DOMAIN defs /\ before \in SUBSET FunctionsOf(defs)
  BY <1>1 DEF FunctionsOf
<1>3. FunctionsBefore(m, ir, i).names = first \o second
  BY DEF FunctionsBefore
<1>4. DOMAIN first = 1..a /\ a \in Nat
  BY NamesFacts, IrFacts, KindsAre
<1>5. b = Cardinality(FunctionsOf(defs)) /\ b \in Nat
  BY OwnOfFacts, KindsAre
<1> HIDE DEF before, defs
<1>6. DOMAIN own = 1..Cardinality(before) /\ Cardinality(before) \in Nat
  BY <1>1, <1>2, KeptMembers
<1>7. Cardinality(before) <= b
  <2>1. FunctionsOf(defs) \in SUBSET (1..Len(defs))
    BY <1>1 DEF FunctionsOf
  <2>2. IsFiniteSet(FunctionsOf(defs))
    BY <1>1, <2>1, PositionsAreFinite
  <2>3. QED
    BY <1>2, <1>5, <2>2, FS_Subset
<1> HIDE DEF own
<1>9. second = [j \in 1..Cardinality(before) |-> second[j]]
  BY <1>6
<1>10. first = [j \in 1..a |-> first[j]]
  <2>1. first = [j \in DOMAIN ir.items["function"] |-> first[j]]
    BY DEF Names
  <2>2. DOMAIN ir.items["function"] = 1..a
    BY IrFacts, KindsAre
  <2>3. QED
    BY <2>1, <2>2
<1> HIDE DEF first, second, a, b
<1>14. DOMAIN (first \o second) = 1..(a + Cardinality(before))
  BY <1>4, <1>6, <1>9, <1>10, JoinedDomain
<1>15. a + Cardinality(before) \in 0..(a + b)
  BY <1>4, <1>5, <1>6, <1>7
<1>16. QED
  BY <1>3, <1>14, <1>15 DEF a, b

LEMMA LoweredType ==
  ASSUME prog \in Program, NEW m \in Modules, NEW ir \in Ir, NEW d,
         \E i \in DOMAIN prog.defs[m] : d = prog.defs[m][i]
  PROVE  /\ Lowered(m, ir, d) \in Item
         /\ Lowered(m, ir, d).file = 1
         /\ \A j \in DOMAIN Lowered(m, ir, d).calls :
               Lowered(m, ir, d).calls[j].id
                 \in 0..(Len(ir.items["function"]) + Len(OwnOf(m, "function")))
<1> DEFINE first == Names(ir, "struct")
           second == [j \in DOMAIN OwnOf(m, "struct") |-> Plain(OwnOf(m, "struct")[j].path)]
           structs == first \o second
           at == CHOOSE i \in DOMAIN prog.defs[m] : prog.defs[m][i] = d
           funs == FunctionsBefore(m, ir, at)
           last == Len(ir.items["function"]) + Len(OwnOf(m, "function"))
           types == [j \in DOMAIN d.types |-> TypeId(structs, ModOf(d), d.types[j])]
           calls == [j \in DOMAIN d.calls |-> LoweredCall(funs, d, d.calls[j])]
<1>1. Lowered(m, ir, d) = [name |-> Plain(d.path), sig |-> d.sig, types |-> types,
                           calls |-> calls, file |-> 1]
  BY DEF Lowered
<1>2. d \in Def /\ at \in DOMAIN prog.defs[m]
  BY DefsFacts
<1>3. /\ d.path \in Seq(Segments) /\ d.sig \in Sigs
      /\ Len(d.types) \in Nat /\ DOMAIN d.types = 1..Len(d.types)
      /\ d.calls \in Seq(Call)
      /\ Len(d.calls) \in Nat /\ DOMAIN d.calls = 1..Len(d.calls)
  BY <1>2, LenProperties DEF Def, Path
<1>4. \E n \in Nat : DOMAIN structs = 1..n
  <2>1. /\ Len(ir.items["struct"]) \in Nat
        /\ first = [j \in 1..Len(ir.items["struct"]) |-> first[j]]
    <3>1. first = [j \in DOMAIN ir.items["struct"] |-> first[j]]
      BY DEF Names
    <3>2. QED
      BY <3>1, IrFacts, KindsAre
  <2>2. /\ Len(OwnOf(m, "struct")) \in Nat
        /\ DOMAIN OwnOf(m, "struct") = 1..Len(OwnOf(m, "struct"))
    BY OwnOfFacts, KindsAre
  <2>3. second = [j \in 1..Len(OwnOf(m, "struct")) |-> second[j]]
    BY <2>2
  <2> HIDE DEF first, second
  <2>4. DOMAIN structs = 1..(Len(ir.items["struct"]) + Len(OwnOf(m, "struct")))
    BY <2>1, <2>2, <2>3, JoinedDomain
  <2>5. QED
    BY <2>1, <2>2, <2>4
<1>5. PICK n \in 0..last : DOMAIN funs.names = 1..n
  BY <1>2, FunctionsBeforeFacts
<1>6. last \in Nat
  <2>1. Len(ir.items["function"]) \in Nat /\ Len(OwnOf(m, "function")) \in Nat
    BY IrFacts, OwnOfFacts, KindsAre
  <2>2. QED
    BY <2>1
<1>7. \A j \in 1..Len(d.types) : types[j] \in Nat
  <2> HIDE DEF structs
  <2>1. QED
    BY <1>3, <1>4, TypeIdType
<1>8. types = [j \in 1..Len(d.types) |-> types[j]]
  BY <1>3
<1>9. calls = [j \in 1..Len(d.calls) |-> calls[j]]
  BY <1>3
<1>10. ASSUME NEW j \in 1..Len(d.calls)
       PROVE  calls[j] \in IrCall /\ calls[j].id \in 0..last
  <2>1. d.calls[j] \in Call
    BY <1>3, ElementOfSeq
  <2>2. Plain(d.calls[j].path) \in Name /\ d.calls[j].sig \in Sigs
    BY <2>1 DEF Call, Path, Plain, Name, Modules, Entry
  <2>3. CallId(funs, ModOf(d), d.calls[j]) \in 0..n
    <3> HIDE DEF funs
    <3>1. n \in Nat
      BY <1>5, <1>6
    <3>2. QED
      BY <1>5, <3>1, CallIdType
  <2>4. calls[j] = LoweredCall(funs, d, d.calls[j])
    BY <1>3
  <2> HIDE DEF funs, calls, last
  <2>5. CallId(funs, ModOf(d), d.calls[j]) \in 0..last
    BY <1>5, <1>6, <2>3
  <2>6. QED
    BY <1>6, <2>2, <2>4, <2>5 DEF LoweredCall, IrCall
<1> HIDE DEF types, calls, last
<1>11. types \in Seq(Nat)
  BY <1>3, <1>7, <1>8, SeqBy
<1>12. calls \in Seq(IrCall) /\ DOMAIN calls = 1..Len(d.calls)
  BY <1>3, <1>9, <1>10, SeqBy
<1>13. Plain(d.path) \in Name
  BY <1>3 DEF Plain, Name, Modules, Entry
<1>14. QED
  BY <1>1, <1>3, <1>10, <1>11, <1>12, <1>13 DEF Item, last

\* Lowering leaves what is there and puts the own items behind it.
LEMMA LowerFileShape ==
  ASSUME prog \in Program, NEW m \in Modules, NEW ir \in Ir
  PROVE  /\ LowerFile(m, ir) \in Ir
         /\ LowerFile(m, ir).origins = ir.origins /\ LowerFile(m, ir).files = ir.files
         /\ \A k \in Kinds :
               /\ Len(LowerFile(m, ir).items[k]) = Len(ir.items[k]) + Len(OwnOf(m, k))
               /\ Len(OwnOf(m, k)) \in Nat
               /\ \A i \in 1..Len(ir.items[k]) : LowerFile(m, ir).items[k][i] = ir.items[k][i]
               /\ \A j \in 1..Len(OwnOf(m, k)) :
                     LowerFile(m, ir).items[k][Len(ir.items[k]) + j]
                       = Lowered(m, ir, OwnOf(m, k)[j])
<1> DEFINE own == [k \in Kinds |-> [j \in DOMAIN OwnOf(m, k) |-> Lowered(m, ir, OwnOf(m, k)[j])]]
           new == LowerFile(m, ir)
<1>1. new = [ir EXCEPT !.items = [k \in Kinds |-> ir.items[k] \o own[k]]]
  BY DEF LowerFile
<1>2. /\ new.items = [k \in Kinds |-> ir.items[k] \o own[k]]
      /\ new.origins = ir.origins /\ new.files = ir.files
  BY <1>1 DEF Ir
<1>3. ASSUME NEW k \in Kinds
      PROVE  /\ new.items[k] \in Seq(Item) /\ Len(OwnOf(m, k)) \in Nat
             /\ Len(new.items[k]) = Len(ir.items[k]) + Len(OwnOf(m, k))
             /\ \A i \in 1..Len(ir.items[k]) : new.items[k][i] = ir.items[k][i]
             /\ \A j \in 1..Len(OwnOf(m, k)) :
                   new.items[k][Len(ir.items[k]) + j] = Lowered(m, ir, OwnOf(m, k)[j])
  <2> DEFINE s == ir.items[k]
             r == own[k]
             n == Len(OwnOf(m, k))
  <2>1. /\ n \in Nat /\ DOMAIN OwnOf(m, k) = 1..n
        /\ \A j \in 1..n : \E i \in DOMAIN prog.defs[m] : OwnOf(m, k)[j] = prog.defs[m][i]
    BY OwnOfFacts
  <2>2. /\ r = [j \in 1..n |-> r[j]]
        /\ \A j \in 1..n : r[j] = Lowered(m, ir, OwnOf(m, k)[j])
    BY <2>1
  <2>3. \A j \in 1..n : r[j] \in Item
    BY <2>1, <2>2, LoweredType
  <2>4. new.items[k] = s \o r
    BY <1>2
  <2>5. s \in Seq(Item)
    BY IrFacts
  <2> HIDE DEF new, own, s, r, n
  <2>6. r \in Seq(Item) /\ Len(r) = n
    BY <2>1, <2>2, <2>3, SeqBy
  <2>7. /\ s \o r \in Seq(Item) /\ Len(s \o r) = Len(s) + Len(r)
        /\ \A i \in 1..Len(s) : (s \o r)[i] = s[i]
        /\ \A j \in 1..Len(r) : (s \o r)[Len(s) + j] = r[j]
    <3>1. r \in Seq(Item)
      BY <2>6
    <3>2. QED
      BY <2>5, <3>1, Joined
  <2>8. QED
    BY <2>1, <2>2, <2>4, <2>6, <2>7 DEF s, n
<1>4. new.items \in [Kinds -> Seq(Item)]
  <2>1. new.items = [k \in Kinds |-> new.items[k]]
    BY <1>2
  <2> HIDE DEF new
  <2>2. QED
    BY <1>3, <2>1
<1> HIDE DEF own
<1>5. new \in Ir
  <2> DEFINE items == [k \in Kinds |-> ir.items[k] \o own[k]]
  <2>1. new = [ir EXCEPT !.items = items] /\ items \in [Kinds -> Seq(Item)]
    BY <1>1, <1>2, <1>4
  <2> HIDE DEF new, items
  <2>2. QED
    BY <2>1 DEF Ir
<1>6. QED
  BY <1>2, <1>3, <1>5

-----------------------------------------------------------------------------
(* finish_module. *)

LEMMA WorkFacts ==
  ASSUME NEW w \in Work, NEW k \in Kinds
  PROVE  /\ w.ir \in Ir /\ w.mod \in Modules
         /\ w.counts[k] \in Nat /\ w.hidden[k] \in Seq(Name)
BY DEF Work

LEMMA FinalHomeType ==
  ASSUME NEW w \in Work, NEW mods, HalfDone(w, mods),
         NEW k \in Kinds, NEW i \in 1..Len(w.ir.items[k])
  PROVE  FinalHome(w, k, i) \in Name
<1>1. /\ w.ir \in Ir /\ w.mod \in Modules
      /\ w.counts[k] \in Nat /\ w.hidden[k] \in Seq(Name)
  BY WorkFacts
<1>2. w.ir.items[k][i].name \in Name
  BY <1>1, IrFacts DEF Item
<1>3. [w.ir.items[k][i].name EXCEPT !.home = w.mod] \in Name
  BY <1>1, <1>2 DEF Name
<1>4. ASSUME ~ IsOwnOf(w, k, i) PROVE w.hidden[k][i] \in Name
  <2>1. Len(w.hidden[k]) = w.counts[k]
    BY DEF HalfDone
  <2>2. Len(w.ir.items[k]) \in Nat
    BY <1>1, IrFacts
  <2>3. i \in 1..Len(w.hidden[k])
    BY <1>1, <1>4, <2>1, <2>2 DEF IsOwnOf
  <2>4. QED
    BY <1>1, <2>3, ElementOfSeq
<1>5. QED
  BY <1>2, <1>3, <1>4 DEF FinalHome

LEMMA RetargetedType ==
  ASSUME NEW w \in Work, NEW mods, HalfDone(w, mods), NEW k, NEW i,
         NEW c \in IrCall, c.id \in 0..Len(w.ir.items["function"])
  PROVE  Retargeted(w, k, i, c) \in IrCall
<1> DEFINE now(j) == [c EXCEPT !.path = FinalHome(w, "function", j)]
           last == Len(w.ir.items["function"])
<1>1. w.ir \in Ir /\ last \in Nat
  BY WorkFacts, IrFacts, KindsAre
<1>2. \A j \in 1..last : now(j) \in IrCall
  BY FinalHomeType, KindsAre DEF IrCall
<1>3. \A name : FirstNamed(Names(w.ir, "function"), name) # 0
                => FirstNamed(Names(w.ir, "function"), name) \in 1..last
  BY <1>1, NamesFacts, FirstNamedType, KindsAre
<1>4. c.id # 0 => c.id \in 1..last
  BY <1>1
<1> HIDE DEF now, last
<1>5. \A name : FirstNamed(Names(w.ir, "function"), name) # 0
                => now(FirstNamed(Names(w.ir, "function"), name)) \in IrCall
  BY <1>2, <1>3
<1>6. c.id # 0 => now(c.id) \in IrCall
  BY <1>2, <1>4
<1>7. QED
  BY <1>5, <1>6 DEF Retargeted, now

LEMMA FinishedItemType ==
  ASSUME NEW w \in Work, NEW mods, HalfDone(w, mods),
         NEW k \in Kinds, NEW i \in 1..Len(w.ir.items[k])
  PROVE  /\ FinishedItem(w, k, i) \in Item
         /\ FinishedItem(w, k, i).file = w.ir.items[k][i].file
<1> DEFINE item == w.ir.items[k][i]
           moved == [j \in DOMAIN item.calls |-> Retargeted(w, k, i, item.calls[j])]
           calls == IF IsOwnOf(w, k, i) THEN moved ELSE item.calls
<1>1. item \in Item /\ Len(w.ir.items[k]) \in Nat /\ w.counts[k] \in Nat
  BY WorkFacts, IrFacts
<1>2. /\ item.calls \in Seq(IrCall) /\ Len(item.calls) \in Nat
      /\ DOMAIN item.calls = 1..Len(item.calls)
  BY <1>1, LenProperties DEF Item
<1>3. ASSUME IsOwnOf(w, k, i) PROVE moved \in Seq(IrCall)
  <2>1. i \in (w.counts[k] + 1)..Len(w.ir.items[k])
    BY <1>1, <1>3 DEF IsOwnOf
  <2>2. ASSUME NEW j \in 1..Len(item.calls) PROVE moved[j] \in IrCall
    <3>1. item.calls[j] \in IrCall
      BY <1>2, ElementOfSeq
    <3>2. item.calls[j].id \in 0..Len(w.ir.items["function"])
      BY <1>2, <2>1 DEF HalfDone
    <3>3. Retargeted(w, k, i, item.calls[j]) \in IrCall
      BY <3>1, <3>2, RetargetedType
    <3>4. QED
      BY <1>2, <3>3
  <2>3. moved = [j \in 1..Len(item.calls) |-> moved[j]]
    BY <1>2
  <2> HIDE DEF moved
  <2>4. QED
    BY <1>2, <2>2, <2>3, SeqBy
<1>4. calls \in Seq(IrCall)
  BY <1>2, <1>3
<1>5. FinalHome(w, k, i) \in Name
  BY FinalHomeType
<1>6. moved = [j \in DOMAIN item.calls |-> Retargeted(w, k, i, item.calls[j])]
  OBVIOUS
<1> HIDE DEF moved
<1>7. FinishedItem(w, k, i) = [item EXCEPT !.name = FinalHome(w, k, i), !.calls = calls]
  BY <1>6 DEF FinishedItem
<1> HIDE DEF calls, item
<1>8. FinishedItem(w, k, i) \in Item /\ FinishedItem(w, k, i).file = item.file
  BY <1>1, <1>4, <1>5, <1>7 DEF Item
<1>9. QED
  BY <1>8 DEF item

\* The items stay in their places, and the own ones get their origins.
LEMMA FinishModuleShape ==
  ASSUME NEW w \in Work, NEW mods, HalfDone(w, mods)
  PROVE  /\ FinishModule(w) \in Ir
         /\ FinishModule(w).files = w.ir.files
         /\ \A k \in Kinds :
               /\ Len(FinishModule(w).items[k]) = Len(w.ir.items[k])
               /\ \A i \in 1..Len(w.ir.items[k]) :
                     FinishModule(w).items[k][i].file = w.ir.items[k][i].file
               /\ Len(FinishModule(w).origins[k])
                    = Len(w.ir.origins[k]) + (Len(w.ir.items[k]) - w.counts[k])
               /\ \A i \in 1..Len(w.ir.origins[k]) :
                     FinishModule(w).origins[k][i] = w.ir.origins[k][i]
               /\ \A j \in 1..(Len(w.ir.items[k]) - w.counts[k]) :
                     FinishModule(w).origins[k][Len(w.ir.origins[k]) + j]
                       = [module |-> w.mod, ordinal |-> j]
<1> DEFINE new == FinishModule(w)
           own == [k \in Kinds |-> [j \in 1..(Len(w.ir.items[k]) - w.counts[k]) |->
                                      [module |-> w.mod, ordinal |-> j]]]
<1>1. /\ new = [items |-> new.items, origins |-> new.origins, files |-> w.ir.files]
      /\ new.items = [k \in Kinds |-> [i \in DOMAIN w.ir.items[k] |-> FinishedItem(w, k, i)]]
      /\ new.origins = [k \in Kinds |-> w.ir.origins[k] \o own[k]]
  BY DEF FinishModule
<1>2. w.ir \in Ir /\ w.mod \in Modules
  BY WorkFacts, KindsAre
<1>3. ASSUME NEW k \in Kinds
      PROVE  /\ new.items[k] \in Seq(Item) /\ Len(new.items[k]) = Len(w.ir.items[k])
             /\ \A i \in 1..Len(w.ir.items[k]) :
                   new.items[k][i].file = w.ir.items[k][i].file
  <2> DEFINE s == new.items[k]
             n == Len(w.ir.items[k])
  <2>1. n \in Nat /\ DOMAIN w.ir.items[k] = 1..n
    BY <1>2, IrFacts
  <2>2. /\ s = [i \in 1..n |-> s[i]]
        /\ \A i \in 1..n : s[i] = FinishedItem(w, k, i)
    BY <1>1, <2>1
  <2>3. \A i \in 1..n : s[i] \in Item /\ s[i].file = w.ir.items[k][i].file
    BY <2>2, FinishedItemType
  <2> HIDE DEF s, n, new
  <2>4. s \in Seq(Item) /\ Len(s) = n
    BY <2>1, <2>2, <2>3, SeqBy
  <2>5. QED
    BY <2>3, <2>4 DEF s, n
<1>4. ASSUME NEW k \in Kinds
      PROVE  /\ new.origins[k] \in Seq(Origin)
             /\ Len(new.origins[k])
                  = Len(w.ir.origins[k]) + (Len(w.ir.items[k]) - w.counts[k])
             /\ \A i \in 1..Len(w.ir.origins[k]) :
                   new.origins[k][i] = w.ir.origins[k][i]
             /\ \A j \in 1..(Len(w.ir.items[k]) - w.counts[k]) :
                   new.origins[k][Len(w.ir.origins[k]) + j]
                     = [module |-> w.mod, ordinal |-> j]
  <2> DEFINE s == w.ir.origins[k]
             r == own[k]
             n == Len(w.ir.items[k]) - w.counts[k]
  <2>1. n \in Nat
    <3>1. Len(w.ir.items[k]) \in Nat /\ w.counts[k] \in Nat
      BY <1>2, IrFacts, WorkFacts
    <3>2. w.counts[k] <= Len(w.ir.items[k])
      BY DEF HalfDone
    <3>3. QED
      BY <3>1, <3>2
  <2>2. /\ r = [j \in 1..n |-> r[j]]
        /\ \A j \in 1..n : r[j] = [module |-> w.mod, ordinal |-> j]
    OBVIOUS
  <2> HIDE DEF r, n, own
  <2>3. \A j \in 1..n : r[j] \in Origin
    BY <1>2, <2>1, <2>2 DEF Origin
  <2>4. s \in Seq(Origin)
    BY <1>2, IrFacts
  <2>5. r \in Seq(Origin) /\ Len(r) = n
    BY <2>1, <2>2, <2>3, SeqBy
  <2>6. new.origins[k] = s \o r
    BY <1>1 DEF r
  <2> HIDE DEF s, new
  <2>7. /\ s \o r \in Seq(Origin) /\ Len(s \o r) = Len(s) + Len(r)
        /\ \A i \in 1..Len(s) : (s \o r)[i] = s[i]
        /\ \A j \in 1..Len(r) : (s \o r)[Len(s) + j] = r[j]
    <3>1. r \in Seq(Origin)
      BY <2>5
    <3>2. QED
      BY <2>4, <3>1, Joined
  <2>8. QED
    BY <2>2, <2>5, <2>6, <2>7 DEF s, n
<1>5. new.items \in [Kinds -> Seq(Item)] /\ new.origins \in [Kinds -> Seq(Origin)]
  <2>1. new.items = [k \in Kinds |-> new.items[k]]
    BY <1>1
  <2>2. new.origins = [k \in Kinds |-> new.origins[k]]
    BY <1>1
  <2> HIDE DEF new
  <2>3. QED
    BY <1>3, <1>4, <2>1, <2>2
<1>6. new \in Ir /\ new.files = w.ir.files
  <2>1. w.ir.files \in Seq(Modules)
    BY <1>2, IrFacts, KindsAre
  <2>2. new = [items |-> new.items, origins |-> new.origins, files |-> w.ir.files]
    BY <1>1
  <2> HIDE DEF new, own
  <2>3. new.files = w.ir.files
    BY <2>2
  <2>4. QED
    BY <1>5, <2>1, <2>2, <2>3 DEF Ir
<1>7. QED
  BY <1>3, <1>4, <1>6

LEMMA FinishModuleWhole ==
  ASSUME NEW w \in Work, NEW mods, HalfDone(w, mods), w.mod \notin mods,
         w.ir.files # <<>>, w.ir.files[1] = w.mod
  PROVE  Whole(FinishModule(w), mods \cup {w.mod})
<1> DEFINE new == FinishModule(w)
<1>1. w.ir \in Ir /\ w.mod \in Modules
  BY WorkFacts, KindsAre
<1>2. new \in Ir /\ new.files = w.ir.files
  BY FinishModuleShape
<1>3. ASSUME NEW k \in Kinds
      PROVE  /\ Len(new.items[k]) = PreludeCounts[k] + Len(new.origins[k])
             /\ \A i, j \in DOMAIN new.origins[k] :
                   new.origins[k][i] = new.origins[k][j] => i = j
             /\ \A i \in DOMAIN new.origins[k] : new.origins[k][i].module \in mods \cup {w.mod}
             /\ \A i \in OwnIndices(new, k) : SpanIsRight(new, k, i)
  <2> DEFINE o == w.ir.origins[k]
             a == Len(o)
             P == PreludeCounts[k]
             c == w.counts[k]
             last == Len(w.ir.items[k])
             all == new.origins[k]
  <2>1. /\ P \in Nat /\ a \in Nat /\ c \in Nat /\ last \in Nat /\ c = P + a /\ c <= last
        /\ DOMAIN o = 1..a /\ DOMAIN w.ir.items[k] = 1..last
    BY <1>1, PreludeFacts, IrFacts, WorkFacts DEF HalfDone
  <2>2. /\ Len(new.items[k]) = last
        /\ \A i \in 1..last : new.items[k][i].file = w.ir.items[k][i].file
        /\ Len(all) = a + (last - c)
        /\ \A i \in 1..a : all[i] = o[i]
        /\ \A j \in 1..(last - c) : all[a + j] = [module |-> w.mod, ordinal |-> j]
    BY FinishModuleShape
  <2>3. DOMAIN all = 1..(a + (last - c)) /\ DOMAIN new.items[k] = 1..last
    BY <1>2, <2>2, IrFacts
  <2>4. /\ \A i, j \in 1..a : o[i] = o[j] => i = j
        /\ \A i \in 1..a : o[i].module \in mods
    BY <2>1 DEF HalfDone, From
  <2>5. /\ \A i \in 1..c : i > P => SpanIsRight(w.ir, k, i)
        /\ \A i \in (c + 1)..last : w.ir.items[k][i].file = 1
    BY DEF HalfDone, IsOwn
  <2>6. \A i \in OwnIndices(new, k) : i \in 1..last /\ i > P
    BY <2>3 DEF OwnIndices, IsOwn
  <2>7. last - c \in Nat
    BY <2>1
  <2> HIDE DEF new, o, a, P, c, last, all
  <2>8. last = P + Len(all)
    BY <2>1, <2>2
  <2>9. \A i \in DOMAIN all : \/ i \in 1..a /\ all[i] = o[i]
                              \/ \E j \in 1..(last - c) : i = a + j
    <3>1. \A i \in 1..(a + (last - c)) : i \in 1..a \/ \E j \in 1..(last - c) : i = a + j
      BY <2>1, <2>7, Split
    <3>2. QED
      BY <2>2, <2>3, <3>1
  <2>10. ASSUME NEW i, NEW j \in 1..(last - c), i = a + j
         PROVE  all[i].module = w.mod /\ all[i].ordinal = j
    <3>1. all[i] = [module |-> w.mod, ordinal |-> j]
      BY <2>2, <2>10
    <3>2. QED
      BY <3>1
  <2>11. ASSUME NEW i \in DOMAIN all PROVE all[i].module \in mods \cup {w.mod}
    <3>1. CASE i \in 1..a /\ all[i] = o[i]
      BY <2>4, <3>1
    <3>2. CASE \E j \in 1..(last - c) : i = a + j
      BY <2>10, <3>2
    <3>3. QED
      BY <2>9, <3>1, <3>2
  <2>12. ASSUME NEW i \in DOMAIN all, NEW j \in DOMAIN all, all[i] = all[j]
         PROVE  i = j
    <3>1. CASE i \in 1..a /\ all[i] = o[i]
      <4>1. CASE j \in 1..a /\ all[j] = o[j]
        BY <2>4, <2>12, <3>1, <4>1
      <4>2. CASE \E n \in 1..(last - c) : j = a + n
        <5>1. all[j].module = w.mod
          BY <2>10, <4>2
        <5>2. all[i].module \in mods
          BY <2>4, <3>1
        <5>3. QED
          BY <2>12, <5>1, <5>2
      <4>3. QED
        BY <2>9, <4>1, <4>2
    <3>2. CASE \E n \in 1..(last - c) : i = a + n
      <4>1. CASE j \in 1..a /\ all[j] = o[j]
        <5>1. all[i].module = w.mod
          BY <2>10, <3>2
        <5>2. all[j].module \in mods
          BY <2>4, <4>1
        <5>3. QED
          BY <2>12, <5>1, <5>2
      <4>2. CASE \E n \in 1..(last - c) : j = a + n
        <5>1. PICK m \in 1..(last - c) : i = a + m
          BY <3>2
        <5>2. PICK n \in 1..(last - c) : j = a + n
          BY <4>2
        <5>3. all[i].ordinal = m /\ all[j].ordinal = n
          BY <2>10, <5>1, <5>2
        <5>4. QED
          BY <2>12, <5>1, <5>2, <5>3
      <4>3. QED
        BY <2>9, <4>1, <4>2
    <3>3. QED
      BY <2>9, <3>1, <3>2
  <2>13. ASSUME NEW i \in OwnIndices(new, k) PROVE SpanIsRight(new, k, i)
    <3>1. i \in 1..last /\ i > P
      BY <2>6
    <3>2. OriginOf(new, k, i) = all[i - P]
      BY DEF OriginOf, all, P
    <3>3. CASE i <= c
      <4>1. i \in 1..c /\ i - P \in 1..a
        BY <2>1, <3>1, <3>3
      <4>2. SpanIsRight(w.ir, k, i)
        BY <2>5, <3>1, <4>1
      <4>3. OriginOf(w.ir, k, i) = o[i - P]
        BY DEF OriginOf, o, P
      <4>4. all[i - P] = o[i - P]
        BY <2>2, <4>1
      <4>5. new.items[k][i].file = w.ir.items[k][i].file
        BY <2>2, <3>1
      <4>6. QED
        BY <1>2, <3>2, <4>2, <4>3, <4>4, <4>5 DEF SpanIsRight, new
    <3>4. CASE ~ (i <= c)
      <4>1. i \in (c + 1)..last /\ i - c \in 1..(last - c) /\ i - P = a + (i - c)
        BY <2>1, <3>1, <3>4
      <4>2. all[i - P] = [module |-> w.mod, ordinal |-> i - c]
        BY <2>2, <4>1
      <4>3. new.items[k][i].file = 1
        BY <2>2, <2>5, <3>1, <4>1
      <4>4. 1 \in DOMAIN w.ir.files
        <5>1. w.ir.files \in Seq(Modules)
          BY <1>1, IrFacts
        <5>2. QED
          BY <5>1, EmptySeq, LenProperties
      <4>5. new.files = w.ir.files
        BY <1>2 DEF new
      <4>6. QED
        BY <3>2, <4>2, <4>3, <4>4, <4>5 DEF SpanIsRight
    <3>5. QED
      BY <3>3, <3>4
  <2>14. QED
    BY <2>2, <2>8, <2>11, <2>12, <2>13 DEF P, all
<1> HIDE DEF new
<1>4. Once(new) /\ Spans(new) /\ From(new, mods \cup {w.mod})
  BY <1>3 DEF Once, Spans, From
<1>5. QED
  BY <1>2, <1>4 DEF Whole, new

-----------------------------------------------------------------------------
(* The steps. *)

LEMMA PreludeIr ==
  ASSUME NEW file \in Nat, NEW files \in Seq(Modules), NEW new,
         new = [items   |-> [k \in Kinds |-> [i \in DOMAIN Prelude[k] |->
                               [Prelude[k][i] EXCEPT !.file = file]]],
                origins |-> EmptyOrigins,
                files   |-> files]
  PROVE  \A mods : Whole(new, mods)
<1>1. /\ new = [items |-> new.items, origins |-> EmptyOrigins, files |-> files]
      /\ new.items = [k \in Kinds |-> new.items[k]]
      /\ \A k \in Kinds : new.items[k] = [i \in DOMAIN Prelude[k] |-> new.items[k][i]]
      /\ \A k \in Kinds : \A i \in DOMAIN Prelude[k] :
            new.items[k][i] = [Prelude[k][i] EXCEPT !.file = file]
  OBVIOUS
<1>2. new.origins = EmptyOrigins /\ new.files = files
  OBVIOUS
<1>3. ASSUME NEW k \in Kinds
      PROVE  new.items[k] \in Seq(Item) /\ Len(new.items[k]) = PreludeCounts[k]
  <2>1. /\ Prelude[k] \in Seq(Item) /\ PreludeCounts[k] \in Nat
        /\ PreludeCounts[k] = Len(Prelude[k]) /\ DOMAIN Prelude[k] = 1..PreludeCounts[k]
    BY PreludeFacts, LenProperties
  <2> DEFINE s == new.items[k]
             n == PreludeCounts[k]
  <2>2. /\ s = [i \in 1..n |-> s[i]]
        /\ \A i \in 1..n : s[i] = [Prelude[k][i] EXCEPT !.file = file]
    BY <1>1, <2>1
  <2> HIDE DEF s
  <2>3. ASSUME NEW i \in 1..n PROVE s[i] \in Item
    <3>1. Prelude[k][i] \in Item
      BY <2>1, ElementOfSeq
    <3>2. QED
      BY <2>2, <3>1 DEF Item
  <2> HIDE DEF n
  <2>4. s \in Seq(Item) /\ Len(s) = n
    BY <2>1, <2>2, <2>3, SeqBy DEF n
  <2>5. QED
    BY <2>4 DEF s, n
<1>4. new.items \in [Kinds -> Seq(Item)]
  BY <1>1, <1>3
<1>5. /\ EmptyOrigins \in [Kinds -> Seq(Origin)]
      /\ \A k \in Kinds : Len(EmptyOrigins[k]) = 0 /\ DOMAIN EmptyOrigins[k] = {}
  BY EmptySeq DEF EmptyOrigins
<1>6. new \in Ir
  BY <1>1, <1>4, <1>5 DEF Ir
<1>7. Once(new)
  BY <1>2, <1>3, <1>5, PreludeFacts DEF Once
<1>8. Spans(new)
  <2>1. \A k \in Kinds : OwnIndices(new, k) = {}
    <3>1. ASSUME NEW k \in Kinds, NEW i \in OwnIndices(new, k) PROVE FALSE
      <4>1. i - PreludeCounts[k] \in DOMAIN new.origins[k]
        BY <1>6, <1>7, OwnFacts
      <4>2. QED
        BY <1>2, <1>5, <4>1
    <3>2. QED
      BY <3>1
  <2>2. QED
    BY <2>1 DEF Spans
<1>9. \A mods : From(new, mods)
  BY <1>2, <1>5 DEF From
<1>10. QED
  BY <1>6, <1>7, <1>8, <1>9 DEF Whole

LEMMA NoWorkType ==
  NoWork \in Work
<1>1. /\ <<>> \in Seq(Modules) /\ <<>> \in Seq(Name) /\ Entry \in Modules
  BY EmptySeq DEF Modules
<1>2. PreludeCounts \in [Kinds -> Nat]
  BY PreludeFacts DEF PreludeCounts, Lens
<1>3. [k \in Kinds |-> <<>>] \in [Kinds -> Seq(Name)]
  BY <1>1
<1>4. EmptyOrigins \in [Kinds -> Seq(Origin)]
  BY EmptySeq DEF EmptyOrigins
<1>5. EmptyIr \in Ir
  BY <1>1, <1>4, PreludeIsTyped DEF EmptyIr, Ir
<1>6. QED
  BY <1>1, <1>2, <1>3, <1>5 DEF NoWork, Work

LEMMA InitInv ==
  Init => IInv
<1> SUFFICES ASSUME Init PROVE IInv
  OBVIOUS
<1>1. DOMAIN linked = {}
  BY DEF Init, NoneLinked
<1>2. prog \in Program /\ cur \in Work /\ phase = "idle"
  BY NoWorkType, ProgramsAreTyped DEF Init
<1>3. TypeOK
  BY <1>1, <1>2 DEF TypeOK, Phases
<1>4. QED
  BY <1>1, <1>2, <1>3 DEF IInv

LEMMA WholeGrows ==
  ASSUME NEW ir, NEW mods, NEW more, mods \subseteq more, Whole(ir, mods)
  PROVE  Whole(ir, more)
BY DEF Whole, From

LEMMA StartStep ==
  ASSUME IInv, NEW m \in Modules, Start(m)
  PROVE  IInv'
<1> DEFINE ir == [items   |-> [k \in Kinds |-> [i \in DOMAIN Prelude[k] |->
                                  [Prelude[k][i] EXCEPT !.file = 1]]],
                  origins |-> EmptyOrigins,
                  files   |-> <<m>>]
<1>1. /\ cur' = [NoWork EXCEPT !.mod = m, !.deps = DepsOf(m), !.ir = ir]
      /\ phase' = "link" /\ prog' = prog /\ linked' = linked
      /\ m \notin DOMAIN linked /\ DepsOf(m) \subseteq DOMAIN linked
  BY DEF Start
<1>2. <<m>> \in Seq(Modules) /\ <<m>> # <<>> /\ <<m>>[1] = m
  OBVIOUS
<1>3. \A mods : Whole(ir, mods)
  BY <1>2, PreludeIr
<1>4. ir \in Ir /\ ir.files = <<m>>
  <2>1. ir.files = <<m>>
    OBVIOUS
  <2> HIDE DEF ir
  <2>2. QED
    BY <1>3, <2>1 DEF Whole
<1> HIDE DEF ir
<1>5. DepsOf(m) \in SUBSET Files
  BY <1>1 DEF IInv, TypeOK
<1>6. /\ cur' \in Work /\ cur'.mod = m /\ cur'.deps = DepsOf(m) /\ cur'.ir = ir
  BY <1>1, <1>4, <1>5, NoWorkType DEF Work
<1>7. TypeOK'
  BY <1>1, <1>6 DEF IInv, TypeOK, Phases
<1>8. StartsWithItself'
  BY <1>1, <1>2, <1>4, <1>6 DEF StartsWithItself
<1>9. Whole(cur.ir, DOMAIN linked)'
  BY <1>3, <1>6
<1>10. \A n \in DOMAIN linked' : Whole(linked'[n], DOMAIN linked')
  BY <1>1 DEF IInv
<1>11. QED
  BY <1>1, <1>6, <1>7, <1>8, <1>9, <1>10 DEF IInv

LEMMA LinkDepStep ==
  ASSUME IInv, LinkDep
  PROVE  IInv'
<1> DEFINE dep == linked[Min(cur.deps)]
<1>1. /\ phase = "link" /\ cur.deps # {} /\ phase' = "link"
      /\ cur' = [cur EXCEPT !.ir = LinkInto(cur.ir, dep), !.deps = @ \ {Min(cur.deps)}]
      /\ prog' = prog /\ linked' = linked
  BY DEF LinkDep
<1>2. cur \in Work /\ cur.deps \subseteq DOMAIN linked /\ cur.deps \subseteq Files
  BY <1>1 DEF IInv, TypeOK, Work
<1>3. Min(cur.deps) \in cur.deps
  <2>1. cur.deps \in SUBSET Nat
    BY <1>2, FilesAreCounted DEF Files
  <2>2. QED
    BY <1>1, <2>1, LeastOf
<1>4. Whole(cur.ir, DOMAIN linked) /\ Whole(dep, DOMAIN linked)
  BY <1>1, <1>2, <1>3 DEF IInv
<1> HIDE DEF dep
<1>5. /\ Whole(LinkInto(cur.ir, dep), DOMAIN linked)
      /\ \A f \in DOMAIN cur.ir.files : /\ f \in DOMAIN LinkInto(cur.ir, dep).files
                                        /\ LinkInto(cur.ir, dep).files[f] = cur.ir.files[f]
  <2> DEFINE ir == cur.ir
             mods == DOMAIN linked
  <2>1. Whole(ir, mods)
    BY <1>4
  <2>4. Whole(dep, mods)
    BY <1>4
  <2> HIDE DEF ir, mods
  <2>2. /\ Whole(LinkInto(ir, dep), mods)
        /\ \A f \in DOMAIN ir.files : /\ f \in DOMAIN LinkInto(ir, dep).files
                                      /\ LinkInto(ir, dep).files[f] = ir.files[f]
    <3>1. \A m, t, d : Whole(t, m) /\ Whole(d, m) =>
             /\ Whole(LinkInto(t, d), m)
             /\ \A f \in DOMAIN t.files : /\ f \in DOMAIN LinkInto(t, d).files
                                          /\ LinkInto(t, d).files[f] = t.files[f]
      BY LinkIntoWhole
    <3>2. /\ Whole(LinkInto(ir, dep), mods)
      BY <2>1, <2>4, <3>1
    <3>3. \A f \in DOMAIN ir.files : /\ f \in DOMAIN LinkInto(ir, dep).files
                                     /\ LinkInto(ir, dep).files[f] = ir.files[f]
      BY <2>1, <2>4, <3>1
    <3>4. QED
      BY <3>2, <3>3
  <2>3. QED
    BY <2>2 DEF ir, mods
<1>6. /\ cur' \in Work /\ cur'.ir = LinkInto(cur.ir, dep) /\ cur'.mod = cur.mod
      /\ cur'.deps \subseteq cur.deps
  BY <1>1, <1>2, <1>5 DEF Work, Whole
<1>7. TypeOK'
  BY <1>1, <1>6 DEF IInv, TypeOK, Phases
<1>8. StartsWithItself'
  <2>1. StartsWithItself /\ cur.ir \in Ir /\ LinkInto(cur.ir, dep) \in Ir
    BY <1>1, <1>4, <1>5 DEF IInv, Whole
  <2>2. 1 \in DOMAIN cur.ir.files
    <3>1. cur.ir.files \in Seq(Modules) /\ cur.ir.files # <<>>
      BY <2>1 DEF StartsWithItself, Ir
    <3>2. QED
      BY <3>1, EmptySeq, LenProperties
  <2>3. /\ 1 \in DOMAIN LinkInto(cur.ir, dep).files
        /\ LinkInto(cur.ir, dep).files[1] = cur.ir.files[1]
    BY <1>5, <2>2
  <2>4. LinkInto(cur.ir, dep).files # <<>>
    <3>1. LinkInto(cur.ir, dep).files \in Seq(Modules)
      BY <2>1 DEF Ir
    <3>2. QED
      BY <2>3, <3>1
  <2>5. QED
    BY <1>1, <1>6, <2>1, <2>3, <2>4 DEF StartsWithItself
<1>9. QED
  BY <1>1, <1>2, <1>5, <1>6, <1>7, <1>8 DEF IInv

LEMMA AliasImportsStep ==
  ASSUME IInv, AliasImports
  PROVE  IInv'
<1> DEFINE ir == [cur.ir EXCEPT !.items = Aliased(cur.mod, cur.ir.items)]
           hidden == [k \in Kinds |-> Names(cur.ir, k)]
<1>1. /\ phase = "link" /\ phase' = "lower" /\ prog' = prog /\ linked' = linked
      /\ cur' = [cur EXCEPT !.counts = Lens(cur.ir.items), !.hidden = hidden, !.ir = ir]
  BY DEF AliasImports, IInv, TypeOK, Work
<1>2. cur \in Work /\ Whole(cur.ir, DOMAIN linked) /\ cur.ir \in Ir
  BY <1>1 DEF IInv, TypeOK, Whole
<1>3. Rewritten(cur.ir, ir)
  BY <1>2, AliasedShape
<1> HIDE DEF ir
<1>4. Whole(ir, DOMAIN linked)
  BY <1>2, <1>3, RewrittenWhole
<1>5. /\ ir \in Ir /\ ir.files = cur.ir.files
      /\ \A k \in Kinds : Len(ir.items[k]) = Len(cur.ir.items[k])
  BY <1>2, <1>3, RewrittenShape
<1>6. Lens(cur.ir.items) \in [Kinds -> Nat]
  BY <1>2, IrFacts DEF Lens
<1>7. \A k \in Kinds : Lens(cur.ir.items)[k] = Len(ir.items[k])
  BY <1>5 DEF Lens
<1>8. ASSUME NEW k \in Kinds
      PROVE  hidden[k] \in Seq(Name) /\ Len(hidden[k]) = Len(ir.items[k])
  <2> DEFINE s == hidden[k]
             n == Len(cur.ir.items[k])
  <2>1. /\ n \in Nat /\ DOMAIN cur.ir.items[k] = 1..n
        /\ \A i \in 1..n : cur.ir.items[k][i] \in Item
    BY <1>2, IrFacts
  <2>2. /\ s = [i \in 1..n |-> s[i]] /\ \A i \in 1..n : s[i] = cur.ir.items[k][i].name
    BY <2>1 DEF Names
  <2>3. \A i \in 1..n : s[i] \in Name
    BY <2>1, <2>2 DEF Item
  <2> HIDE DEF s, n
  <2>4. s \in Seq(Name) /\ Len(s) = n
    BY <2>1, <2>2, <2>3, SeqBy
  <2>5. QED
    BY <1>5, <2>4 DEF s, n
<1>9. hidden \in [Kinds -> Seq(Name)]
  BY <1>8
<1> HIDE DEF hidden
<1>10. /\ cur' \in Work /\ cur'.ir = ir /\ cur'.mod = cur.mod /\ cur'.deps = cur.deps
       /\ cur'.counts = Lens(cur.ir.items) /\ cur'.hidden = hidden
  BY <1>1, <1>2, <1>5, <1>6, <1>9 DEF Work
<1>11. TypeOK'
  BY <1>1, <1>10 DEF IInv, TypeOK, Phases
<1>12. StartsWithItself'
  <2>1. StartsWithItself
    BY <1>1 DEF IInv
  <2>2. QED
    BY <1>1, <1>5, <1>10, <2>1 DEF StartsWithItself
<1>13. \A k \in Kinds : /\ cur'.counts[k] = Len(cur'.ir.items[k])
                        /\ Len(cur'.hidden[k]) = cur'.counts[k]
  BY <1>7, <1>8, <1>10
<1>14. \A n \in DOMAIN linked' : Whole(linked'[n], DOMAIN linked')
  BY <1>1 DEF IInv
<1>15. QED
  BY <1>1, <1>4, <1>10, <1>11, <1>12, <1>13, <1>14 DEF IInv

LEMMA LowerOwnStep ==
  ASSUME IInv, LowerOwn
  PROVE  IInv'
<1> DEFINE ir == LowerFile(cur.mod, cur.ir)
<1>1. /\ phase = "lower" /\ phase' = "finish" /\ prog' = prog /\ linked' = linked
      /\ cur' = [cur EXCEPT !.ir = ir]
  BY DEF LowerOwn
<1>2. /\ cur \in Work /\ prog \in Program /\ Whole(cur.ir, DOMAIN linked)
      /\ cur.ir \in Ir /\ cur.mod \in Modules
  BY <1>1 DEF IInv, TypeOK, Whole, Work
<1>3. /\ ir \in Ir /\ ir.origins = cur.ir.origins /\ ir.files = cur.ir.files
      /\ \A k \in Kinds :
            /\ Len(ir.items[k]) = Len(cur.ir.items[k]) + Len(OwnOf(cur.mod, k))
            /\ Len(OwnOf(cur.mod, k)) \in Nat
            /\ \A i \in 1..Len(cur.ir.items[k]) : ir.items[k][i] = cur.ir.items[k][i]
            /\ \A j \in 1..Len(OwnOf(cur.mod, k)) :
                  ir.items[k][Len(cur.ir.items[k]) + j]
                    = Lowered(cur.mod, cur.ir, OwnOf(cur.mod, k)[j])
  BY <1>2, LowerFileShape
<1> HIDE DEF ir
<1>4. /\ cur' \in Work /\ cur'.ir = ir /\ cur'.mod = cur.mod
      /\ cur'.counts = cur.counts /\ cur'.hidden = cur.hidden
  BY <1>1, <1>2, <1>3 DEF Work
<1>5. TypeOK'
  BY <1>1, <1>4 DEF IInv, TypeOK, Phases
<1>6. StartsWithItself'
  <2>1. StartsWithItself
    BY <1>1 DEF IInv
  <2>2. QED
    BY <1>1, <1>3, <1>4, <2>1 DEF StartsWithItself
<1>7. From(ir, DOMAIN linked)
  BY <1>2, <1>3 DEF Whole, From
<1>8. ASSUME NEW k \in Kinds
      PROVE  /\ Len(cur.hidden[k]) = cur.counts[k]
             /\ cur.counts[k] = PreludeCounts[k] + Len(ir.origins[k])
             /\ cur.counts[k] <= Len(ir.items[k])
             /\ \A i, j \in DOMAIN ir.origins[k] :
                   ir.origins[k][i] = ir.origins[k][j] => i = j
             /\ \A i \in 1..cur.counts[k] : IsOwn(k, i) => SpanIsRight(ir, k, i)
             /\ \A i \in (cur.counts[k] + 1)..Len(ir.items[k]) :
                   /\ ir.items[k][i].file = 1
                   /\ \A j \in DOMAIN ir.items[k][i].calls :
                         ir.items[k][i].calls[j].id \in 0..Len(ir.items["function"])
  <2> DEFINE c == cur.counts[k]
             n == Len(OwnOf(cur.mod, k))
  <2>1. /\ c = Len(cur.ir.items[k]) /\ Len(cur.hidden[k]) = c
        /\ c \in Nat /\ n \in Nat /\ Len(ir.items[k]) = c + n
        /\ DOMAIN cur.ir.items[k] = 1..c
    <3>1. /\ cur.ir \in Ir
          /\ Len(cur.ir.items[k]) \in Nat
          /\ DOMAIN cur.ir.items[k] = 1..Len(cur.ir.items[k])
      BY <1>2, IrFacts
    <3>2. c = Len(cur.ir.items[k]) /\ Len(cur.hidden[k]) = c
      BY <1>1 DEF IInv
    <3>3. n \in Nat /\ Len(ir.items[k]) = Len(cur.ir.items[k]) + n
      BY <1>3
    <3> HIDE DEF c, n
    <3>4. QED
      BY <3>1, <3>2, <3>3
  <2>2. /\ c = PreludeCounts[k] + Len(ir.origins[k])
        /\ \A i, j \in DOMAIN ir.origins[k] :
              ir.origins[k][i] = ir.origins[k][j] => i = j
    BY <1>2, <1>3, <2>1 DEF Whole, Once
  <2>3. ASSUME NEW i \in 1..c, IsOwn(k, i) PROVE SpanIsRight(ir, k, i)
    <3>1. i \in OwnIndices(cur.ir, k)
      BY <2>1, <2>3 DEF OwnIndices
    <3>2. SpanIsRight(cur.ir, k, i)
      BY <1>2, <3>1 DEF Whole, Spans
    <3>3. ir.items[k][i] = cur.ir.items[k][i]
      BY <1>3, <2>1
    <3>4. OriginOf(ir, k, i) = OriginOf(cur.ir, k, i)
      BY <1>3 DEF OriginOf
    <3>5. QED
      BY <1>3, <3>2, <3>3, <3>4 DEF SpanIsRight
  <2>4. ASSUME NEW i \in (c + 1)..(c + n)
        PROVE  /\ ir.items[k][i].file = 1
               /\ \A j \in DOMAIN ir.items[k][i].calls :
                     ir.items[k][i].calls[j].id \in 0..Len(ir.items["function"])
    <3> DEFINE d == OwnOf(cur.mod, k)[i - c]
               item == Lowered(cur.mod, cur.ir, d)
    <3> HIDE DEF c, n
    <3>1. i - c \in 1..n /\ c + (i - c) = i
      <4>1. c \in Nat /\ n \in Nat
        BY <2>1
      <4>2. i \in Int /\ c + 1 <= i /\ i <= c + n
        BY <2>4, <4>1
      <4>3. QED
        BY <4>1, <4>2
    <3>2. ir.items[k][i] = item
      <4>1. \A j \in 1..n : ir.items[k][c + j] = Lowered(cur.mod, cur.ir, OwnOf(cur.mod, k)[j])
        BY <1>3, <2>1 DEF c, n
      <4>2. ir.items[k][c + (i - c)] = item
        BY <4>1, <3>1
      <4>3. QED
        BY <4>2, <3>1
    <3>3. \E j \in DOMAIN prog.defs[cur.mod] : d = prog.defs[cur.mod][j]
      BY <1>2, <3>1, OwnOfFacts DEF n
    <3> HIDE DEF d
    <3>4. /\ item.file = 1
          /\ \A j \in DOMAIN item.calls :
                item.calls[j].id
                  \in 0..(Len(cur.ir.items["function"]) + Len(OwnOf(cur.mod, "function")))
      BY <1>2, <3>3, LoweredType
    <3>5. Len(ir.items["function"])
            = Len(cur.ir.items["function"]) + Len(OwnOf(cur.mod, "function"))
      BY <1>3, KindsAre
    <3> HIDE DEF item
    <3>6. QED
      BY <3>2, <3>4, <3>5
  <2>5. c <= c + n
    <3>1. c \in Nat /\ n \in Nat
      BY <2>1
    <3> HIDE DEF c, n
    <3>2. QED
      BY <3>1
  <2>6. QED
    BY <2>1, <2>2, <2>3, <2>4, <2>5
<1>9. HalfDone(cur, DOMAIN linked)'
  BY <1>1, <1>4, <1>7, <1>8 DEF HalfDone
<1>10. \A n \in DOMAIN linked' : Whole(linked'[n], DOMAIN linked')
  BY <1>1 DEF IInv
<1>11. QED
  BY <1>1, <1>5, <1>6, <1>9, <1>10 DEF IInv

LEMMA FinishStep ==
  ASSUME IInv, Finish
  PROVE  IInv'
<1> DEFINE new == FinishModule(cur)
<1>1. /\ phase = "finish" /\ prog' = prog
      /\ IF cur.mod = Entry
         THEN cur' = [cur EXCEPT !.ir = new] /\ phase' = "rename" /\ linked' = linked
         ELSE /\ linked' = [m \in DOMAIN linked \cup {cur.mod} |->
                               IF m = cur.mod THEN new ELSE linked[m]]
              /\ cur' = NoWork /\ phase' = "idle"
  BY DEF Finish
<1>2. /\ cur \in Work /\ cur.mod \in Modules /\ HalfDone(cur, DOMAIN linked)
      /\ cur.mod \notin DOMAIN linked
      /\ cur.ir.files # <<>> /\ cur.ir.files[1] = cur.mod
  BY <1>1 DEF IInv, TypeOK, Work, StartsWithItself
<1>3. Whole(new, DOMAIN linked \cup {cur.mod})
  BY <1>2, FinishModuleWhole
<1> HIDE DEF new
<1>4. new \in Ir
  BY <1>3 DEF Whole
<1>5. CASE cur.mod = Entry
  <2>1. /\ cur' = [cur EXCEPT !.ir = new] /\ phase' = "rename" /\ linked' = linked
    BY <1>1, <1>5
  <2>2. cur' \in Work /\ cur'.ir = new
    BY <1>2, <1>4, <2>1 DEF Work
  <2>3. TypeOK'
    BY <1>1, <2>1, <2>2 DEF IInv, TypeOK, Phases
  <2>4. DOMAIN linked \cup {cur.mod} \subseteq Modules
    BY <1>2 DEF IInv, TypeOK, Modules
  <2>5. Whole(new, Modules)
    BY <1>3, <2>4, WholeGrows
  <2>6. \A n \in DOMAIN linked' : Whole(linked'[n], DOMAIN linked')
    BY <2>1 DEF IInv
  <2>7. QED
    BY <2>1, <2>2, <2>3, <2>5, <2>6 DEF IInv
<1>6. CASE cur.mod # Entry
  <2>1. /\ linked' = [m \in DOMAIN linked \cup {cur.mod} |->
                         IF m = cur.mod THEN new ELSE linked[m]]
        /\ cur' = NoWork /\ phase' = "idle"
    BY <1>1, <1>6
  <2>2. /\ DOMAIN linked' = DOMAIN linked \cup {cur.mod}
        /\ linked'[cur.mod] = new
        /\ \A n \in DOMAIN linked : linked'[n] = linked[n]
    BY <1>2, <2>1
  <2>3. cur.mod \in Files
    BY <1>2, <1>6 DEF Modules
  <2>4. \A n \in DOMAIN linked' : Whole(linked'[n], DOMAIN linked')
    <3>1. \A n \in DOMAIN linked : Whole(linked[n], DOMAIN linked)
      BY DEF IInv
    <3>2. DOMAIN linked \subseteq DOMAIN linked'
      BY <2>2
    <3>3. \A n \in DOMAIN linked : Whole(linked[n], DOMAIN linked')
      BY <3>1, <3>2, WholeGrows
    <3>4. QED
      BY <1>3, <2>2, <3>3
  <2>5. TypeOK'
    <3>1. \A n \in DOMAIN linked' : linked'[n] \in Ir
      BY <2>4 DEF Whole
    <3>2. DOMAIN linked' \subseteq Files
      BY <2>2, <2>3 DEF IInv, TypeOK
    <3>3. prog' \in Program /\ cur' \in Work /\ phase' \in Phases
      BY <1>1, <2>1, NoWorkType DEF IInv, TypeOK, Phases
    <3>4. QED
      BY <3>1, <3>2, <3>3 DEF TypeOK
  <2>6. QED
    BY <2>1, <2>4, <2>5 DEF IInv
<1>7. QED
  BY <1>5, <1>6

\* What comes after the entry module is finished rewrites items in place.
LEMMA RewriteStep ==
  ASSUME IInv, phase \in {"rename", "resolve"}, phase' \in {"resolve", "done"},
         prog' = prog, linked' = linked,
         NEW new, Rewritten(cur.ir, new), cur' = [cur EXCEPT !.ir = new]
  PROVE  IInv'
<1>1. cur \in Work /\ Whole(cur.ir, Modules)
  BY DEF IInv, TypeOK
<1>2. Whole(new, Modules) /\ new \in Ir
  BY <1>1, RewrittenWhole DEF Whole
<1>3. cur' \in Work /\ cur'.ir = new
  BY <1>1, <1>2 DEF Work
<1>4. TypeOK'
  BY <1>3 DEF IInv, TypeOK, Phases
<1>5. \A n \in DOMAIN linked' : Whole(linked'[n], DOMAIN linked')
  BY DEF IInv
<1>6. QED
  BY <1>2, <1>3, <1>4, <1>5 DEF IInv

LEMMA RenameStep ==
  ASSUME IInv, Rename
  PROVE  IInv'
<1>1. /\ phase = "rename" /\ phase' = "resolve" /\ prog' = prog /\ linked' = linked
      /\ cur' = [cur EXCEPT !.ir = FinishEntry(cur.ir)]
  BY DEF Rename
<1>2. prog \in Program /\ cur.ir \in Ir
  BY <1>1 DEF IInv, TypeOK, Work
<1>3. Rewritten(cur.ir, FinishEntry(cur.ir))
  BY <1>2, FinishEntryShape
<1>4. QED
  BY <1>1, <1>3, RewriteStep

LEMMA ResolveStep ==
  ASSUME IInv, Resolve
  PROVE  IInv'
<1>1. /\ phase = "resolve" /\ phase' = "done" /\ prog' = prog /\ linked' = linked
      /\ cur' = [cur EXCEPT !.ir = ResolveReferences(cur.ir)]
  BY DEF Resolve
<1>2. cur.ir \in Ir
  BY <1>1 DEF IInv, TypeOK, Work
<1>3. Rewritten(cur.ir, ResolveReferences(cur.ir))
  BY <1>2, ResolvedShape
<1>4. QED
  BY <1>1, <1>3, RewriteStep

LEMMA StepInv ==
  ASSUME IInv, [Next]_vars
  PROVE  IInv'
<1>1. CASE Next
  BY <1>1, StartStep, LinkDepStep, AliasImportsStep, LowerOwnStep, FinishStep,
     RenameStep, ResolveStep DEF Next
<1>2. CASE UNCHANGED vars
  <2>1. prog' = prog /\ linked' = linked /\ cur' = cur /\ phase' = phase
    BY <1>2 DEF vars
  <2>2. TypeOK' = TypeOK
    BY <2>1 DEF TypeOK
  <2>3. StartsWithItself' = StartsWithItself
    BY <2>1 DEF StartsWithItself
  <2>4. HalfDone(cur, DOMAIN linked)' = HalfDone(cur, DOMAIN linked)
    BY <2>1 DEF HalfDone
  <2>5. QED
    BY <2>1, <2>2, <2>3, <2>4 DEF IInv
<1>3. QED
  BY <1>1, <1>2

LEMMA LinkingInvariant ==
  Spec => []IInv
<1>1. QED
  BY InitInv, StepInv, PTL DEF Spec

LEMMA CopiesFollow ==
  ASSUME IInv
  PROVE  CopiesAreExact
<1>1. \A ir \in Irs : \E mods : Whole(ir, mods)
  BY DEF IInv, Irs, TypeOK, Phases
<1>2. EachItemOnce
  BY <1>1 DEF EachItemOnce, Whole, Once
<1>3. SpansKeepTheirFile
  BY <1>1 DEF SpansKeepTheirFile, Whole, Spans, SpanIsRight
<1>4. QED
  BY <1>2, <1>3 DEF CopiesAreExact, IInv

\* For every program, every prelude and every number of files, in every order
\* of the modules: each item of a module is there once, however many imports
\* lead to it, and each span points to the file that its item was written in.
\* (`link_into`, `alias_imports`, `finish_module`, `finish_entry`)
THEOREM LinkingCopiesAreExact ==
  Spec => []CopiesAreExact
<1>1. QED
  BY LinkingInvariant, CopiesFollow, PTL
=============================================================================
