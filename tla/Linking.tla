------------------------------ MODULE Linking ------------------------------
(***************************************************************************)
(* The linker (`ir/link`) and the calls that lowering leaves for it.       *)
(*                                                                         *)
(* Each module lowers on top of the modules it imports: the prelude first, *)
(* then `link_into` copies in every item of each imported module that is   *)
(* not there yet and translates its ids, then the imported items get their *)
(* short names, the module's own statements lower, and `finish_module`     *)
(* hides the names again.  `finish_entry` gives the items of the entry     *)
(* module the paths the source wrote, and `ResolveReferencesPass` binds    *)
(* the calls that are still without an id.                                 *)
(*                                                                         *)
(* Module i of the model is module id i - 1 of the code; the entry module, *)
(* `u32::MAX` in an origin, is 0.  A name is a record: the module whose    *)
(* hidden prefix it has (0 for none), the segments of its path, and the    *)
(* module whose `#id` its final path carries (0 for none).                 *)
(***************************************************************************)
EXTENDS Integers, Sequences, FiniteSets, SequencesExt, FiniteSetsExt, Ranks

CONSTANTS N,         \* the number of module files
          Segments,  \* what a path is made of
          Sigs,      \* the label sets of overloads
          Prelude,   \* the items of the prelude: an IR item list for each kind
          Programs   \* the programs to link

Files == 1..N
Entry == 0
Modules == Files \cup {Entry}
PreludeModule == -1

\* `Kind::ALL`, less enums and traits, which the linker treats as structs.
Kinds == {"struct", "impl", "function"}
Named == {"struct", "function"}

Name == [home : Modules, mark : Modules, path : Seq(Segments)]
Plain(path) == [home |-> 0, mark |-> 0, path |-> path]

\* A definition of the source: its path from the top of its file, the
\* structs it names and the functions it calls, as it writes them.
Path == Seq(Segments) \ {<<>>}
Call == [path : Path, sig : Sigs]
Def == [kind : Kinds, path : Path, sig : Sigs, types : Seq(Path), calls : Seq(Call)]
Program == [defs    : [Modules -> Seq(Def)],
            imports : [Modules -> [Segments -> Modules]],  \* 0: not imported
            logical : [Files -> Path]]

\* An item of the IR.  Id 0 is the call's `None`.
IrCall == [id : Nat, path : Name, sig : Sigs]
Item == [name : Name, sig : Sigs, types : Seq(Nat), calls : Seq(IrCall), file : Nat]
Origin == [module : Modules, ordinal : Nat]
Ir == [items : [Kinds -> Seq(Item)], origins : [Kinds -> Seq(Origin)],
       files : Seq(Modules)]

ASSUME FilesAreCounted == N \in Nat
ASSUME ProgramsAreTyped == Programs \subseteq Program
ASSUME PreludeIsTyped == Prelude \in [Kinds -> Seq(Item)]
\* The prelude is no imported file: its names have no hidden prefix and no id.
ASSUME PreludeIsOpen ==
    \A k \in Named : \A i \in DOMAIN Prelude[k] :
        Prelude[k][i].name = Plain(Prelude[k][i].name.path)

VARIABLES prog,    \* the program; never changes
          linked,  \* `ModuleLinks.linked`: the IR of each finished module
          cur,     \* the module that lowers now, or the finished entry module
          phase    \* what comes next for `cur`

vars == <<prog, linked, cur, phase>>

Phases == {"idle", "link", "lower", "finish", "rename", "resolve", "done"}

\* What `lower_linked` holds: the module, its IR, the modules to link yet,
\* the counts before its own items, and the hidden names of its imports.
Work == [mod : Modules, ir : Ir, deps : SUBSET Files, counts : [Kinds -> Nat],
         hidden : [Kinds -> Seq(Name)]]

Lens(items) == [k \in Kinds |-> Len(items[k])]
PreludeCounts == Lens(Prelude)

EmptyOrigins == [k \in Kinds |-> <<>>]
EmptyIr == [items |-> Prelude, origins |-> EmptyOrigins, files |-> <<>>]
NoWork == [mod |-> Entry, ir |-> EmptyIr, deps |-> {}, counts |-> PreludeCounts,
           hidden |-> [k \in Kinds |-> <<>>]]

Names(ir, k) == [i \in DOMAIN ir.items[k] |-> ir.items[k][i].name]
DepsOf(m) == Range(prog.imports[m]) \ {0}

-----------------------------------------------------------------------------
(* link_into: one imported module `dep` into the module `t`. *)

IsOwn(k, i) == i > PreludeCounts[k]
OriginOf(ir, k, i) == ir.origins[k][i - PreludeCounts[k]]

\* Mutant: an item is not looked up by its origin.
EveryItemIsFresh(t, dep, k, i) == IsOwn(k, i)
IsFresh(t, dep, k, i) == IsOwn(k, i) /\ OriginOf(dep, k, i) \notin ToSet(t.origins[k])

\* The indices of the items of `dep` that `t` does not hold.
Fresh(t, dep, k) == {i \in DOMAIN dep.items[k] : IsFresh(t, dep, k, i)}

\* Mutant: the table counts the items that are there already too.
IdTableWithoutGaps(t, dep, k) ==
    [i \in DOMAIN dep.items[k] |->
        IF ~IsOwn(k, i) THEN i
        ELSE IF IsFresh(t, dep, k, i) THEN Len(t.items[k]) + i - PreludeCounts[k]
        ELSE PreludeCounts[k]
             + Max({j \in DOMAIN t.origins[k] : t.origins[k][j] = OriginOf(dep, k, i)})]

\* The new id of each id of `dep`.
IdTable(t, dep, k) ==
    [i \in DOMAIN dep.items[k] |->
        IF ~IsOwn(k, i) THEN i
        ELSE IF IsFresh(t, dep, k, i)
        THEN Len(t.items[k]) + Rank(Fresh(t, dep, k), i)
        ELSE PreludeCounts[k]
             + Max({j \in DOMAIN t.origins[k] : t.origins[k][j] = OriginOf(dep, k, i)})]

\* `register_file` for each file of `dep`, and the new id of each file id.
FilesWith(t, dep) ==
    t.files \o Kept(dep.files, {f \in DOMAIN dep.files : dep.files[f] \notin ToSet(t.files)})

FileTable(t, dep) ==
    [f \in DOMAIN dep.files |->
        Min({j \in DOMAIN FilesWith(t, dep) : FilesWith(t, dep)[j] = dep.files[f]})]

\* An id outside the table stays as it is; so does file 0.
MapId(table, id) == IF id \in DOMAIN table THEN table[id] ELSE id

\* `IdMaps`: every id slot of an item, and its file, translated.
MovedCall(c, functions) == [c EXCEPT !.id = MapId(functions, @)]
Moved(item, structs, functions, files) ==
    [item EXCEPT
        !.types = [j \in DOMAIN @ |-> MapId(structs, @[j])],
        !.calls = [j \in DOMAIN @ |-> MovedCall(@[j], functions)],
        !.file = MapId(files, @)]

LinkInto(t, dep) ==
    LET structs == IdTable(t, dep, "struct")
        functions == IdTable(t, dep, "function")
        files == FileTable(t, dep)
        items(k) == [i \in DOMAIN dep.items[k] |->
                        Moved(dep.items[k][i], structs, functions, files)]
        origins(k) == [i \in Fresh(t, dep, k) |-> OriginOf(dep, k, i)]
    IN  [items   |-> [k \in Kinds |-> t.items[k] \o Kept(items(k), Fresh(t, dep, k))],
         origins |-> [k \in Kinds |-> t.origins[k] \o Kept(origins(k), Fresh(t, dep, k))],
         files   |-> FilesWith(t, dep)]

-----------------------------------------------------------------------------
(* alias_imports: each imported item gets its short name. *)

\* The item an import names, or one inside the inline module it names.
IsImported(m, name) ==
    /\ name.home # 0
    /\ prog.imports[m][Head(name.path)] = name.home

AliasedItem(m, k, item) ==
    IF k \in Named /\ IsImported(m, item.name)
    THEN [item EXCEPT !.name = Plain(@.path)] ELSE item

Aliased(m, items) ==
    [k \in Kinds |-> [i \in DOMAIN items[k] |-> AliasedItem(m, k, items[k][i])]]

-----------------------------------------------------------------------------
(* The lowering of the module's own definitions, as far as it binds names. *)

ModOf(d) == Front(d.path)

\* The own items in the order of their ids: the types of inline modules
\* register before the types of the file; the rest lowers in source order.
OwnOf(m, k) ==
    LET defs == prog.defs[m]
        ofKind == {i \in DOMAIN defs : defs[i].kind = k}
        atTop == {i \in ofKind : ModOf(defs[i]) = <<>>}
    IN  IF k = "struct" THEN Kept(defs, ofKind \ atTop) \o Kept(defs, atTop)
        ELSE Kept(defs, ofKind)

\* `function_names`: the first function of that name, 0 when there is none.
FirstNamed(names, name) ==
    IF \E i \in DOMAIN names : names[i] = name
    THEN Min({i \in DOMAIN names : names[i] = name}) ELSE 0

\* `scoped_type_name`: the innermost enclosing module that has the type.
TypeId(structs, mod, path) ==
    LET found == {n \in 0..Len(mod) :
                    FirstNamed(structs, Plain(SubSeq(mod, 1, n) \o path)) # 0}
    IN  IF found = {} THEN 0
        ELSE FirstNamed(structs, Plain(SubSeq(mod, 1, Max(found)) \o path))

\* `find_function_in_scope`
FindInScope(funs, mod, path) ==
    IF mod # <<>> /\ FirstNamed(funs.names, Plain(mod \o path)) # 0
    THEN FirstNamed(funs.names, Plain(mod \o path))
    ELSE FirstNamed(funs.names, Plain(path))

\* Mutant: the name alone decides.
FindFirst(funs, mod, path, sig) == FindInScope(funs, mod, path)

\* `find_overload_in_scope`: one candidate is taken as it is.  The choice that
\* the analyzer recorded and the rule of `overload::choose` are both `sig`.
FindOverload(funs, mod, path, sig) ==
    LET at(name) == {i \in DOMAIN funs.names : funs.names[i] = name}
        candidates == IF at(Plain(mod \o path)) # {} THEN at(Plain(mod \o path))
                      ELSE at(Plain(path))
        fitting == {i \in candidates : funs.sigs[i] = sig}
    IN  IF Cardinality(candidates) = 1 THEN Min(candidates)
        ELSE IF fitting # {} THEN Min(fitting)
        ELSE FindInScope(funs, mod, path)

\* `lower_function_invocation`: a qualified path is looked up as it is.
CallId(funs, mod, c) ==
    IF Len(c.path) > 1 /\ FirstNamed(funs.names, Plain(c.path)) # 0
    THEN FirstNamed(funs.names, Plain(c.path))
    ELSE FindOverload(funs, mod, <<Last(c.path)>>, c.sig)

\* The functions that the IR holds when definition number i lowers: the
\* ones after it in the file are not there yet.
FunctionsBefore(m, ir, i) ==
    LET own == Kept(prog.defs[m], {j \in 1..(i - 1) : prog.defs[m][j].kind = "function"})
    IN  [names |-> Names(ir, "function") \o [j \in DOMAIN own |-> Plain(own[j].path)],
         sigs  |-> [j \in DOMAIN ir.items["function"] |-> ir.items["function"][j].sig]
                   \o [j \in DOMAIN own |-> own[j].sig]]

LoweredCall(funs, d, c) ==
    [id |-> CallId(funs, ModOf(d), c), path |-> Plain(c.path), sig |-> c.sig]

Lowered(m, ir, d) ==
    LET structs == Names(ir, "struct")
                   \o [j \in DOMAIN OwnOf(m, "struct") |-> Plain(OwnOf(m, "struct")[j].path)]
        at == CHOOSE i \in DOMAIN prog.defs[m] : prog.defs[m][i] = d
        funs == FunctionsBefore(m, ir, at)
    IN  [name  |-> Plain(d.path),
         sig   |-> d.sig,
         types |-> [j \in DOMAIN d.types |-> TypeId(structs, ModOf(d), d.types[j])],
         calls |-> [j \in DOMAIN d.calls |-> LoweredCall(funs, d, d.calls[j])],
         file  |-> 1]

LowerFile(m, ir) ==
    [ir EXCEPT !.items = [k \in Kinds |->
        @[k] \o [j \in DOMAIN OwnOf(m, k) |-> Lowered(m, ir, OwnOf(m, k)[j])]]]

-----------------------------------------------------------------------------
(* finish_module: hidden names again, origins, and the paths of the calls. *)

IsOwnOf(w, k, i) == i > w.counts[k]

\* Mutant: own names stay as they are.
OwnNamesInTheOpen(w, k, i) ==
    IF k \notin Named \/ IsOwnOf(w, k, i) THEN w.ir.items[k][i].name ELSE w.hidden[k][i]

\* The name an item has after `hide_own_name` and the end of its alias.
FinalHome(w, k, i) ==
    IF k \notin Named THEN w.ir.items[k][i].name
    ELSE IF IsOwnOf(w, k, i) THEN [w.ir.items[k][i].name EXCEPT !.home = w.mod]
    ELSE w.hidden[k][i]

\* The scope in which `retarget_calls` looks a path up: the module of the
\* function's old name, but that of a struct's new name, and none in an impl.
CallScope(w, k, i) ==
    CASE k = "function" -> Plain(Front(w.ir.items[k][i].name.path))
      [] k = "struct"   -> [FinalHome(w, k, i) EXCEPT !.path = Front(@)]
      [] OTHER          -> Plain(<<>>)

\* `Calls::path_for`: by its id, or else by the name while lowering.
Retargeted(w, k, i, c) ==
    LET before == Names(w.ir, "function")
        now(j) == [c EXCEPT !.path = FinalHome(w, "function", j)]
        scope == CallScope(w, k, i)
        scoped == [scope EXCEPT !.path = @ \o c.path.path]
    IN  IF c.id # 0 THEN now(c.id)
        ELSE IF /\ scope # Plain(<<>>) /\ Len(c.path.path) = 1
                /\ FirstNamed(before, scoped) # 0
        THEN now(FirstNamed(before, scoped))
        ELSE IF FirstNamed(before, c.path) # 0 THEN now(FirstNamed(before, c.path))
        ELSE c

FinishedItem(w, k, i) ==
    [w.ir.items[k][i] EXCEPT
        !.name = FinalHome(w, k, i),
        !.calls = IF IsOwnOf(w, k, i)
                  THEN [j \in DOMAIN @ |-> Retargeted(w, k, i, @[j])] ELSE @]

FinishModule(w) ==
    [items   |-> [k \in Kinds |->
                    [i \in DOMAIN w.ir.items[k] |-> FinishedItem(w, k, i)]],
     origins |-> [k \in Kinds |-> w.ir.origins[k] \o
                    [j \in 1..(Len(w.ir.items[k]) - w.counts[k]) |->
                        [module |-> w.mod, ordinal |-> j]]],
     files   |-> w.ir.files]

-----------------------------------------------------------------------------
(* finish_entry: the final names; and the last binding of the calls. *)

HiddenModules(ir) ==
    (UNION {{Names(ir, k)[i].home : i \in DOMAIN ir.items[k]} : k \in Named}) \ {0}

\* The first segments of the qualified names that the entry defines itself.
TakenBySource(ir) ==
    {Head(n.path) : n \in {n \in UNION {ToSet(Names(ir, k)) : k \in Named} :
                              n.home = 0 /\ Len(n.path) > 1}}

\* `choose_prefixes`: a path that is taken gets the id of its module.
IsMarked(ir, id) ==
    \/ Head(prog.logical[id]) \in TakenBySource(ir)
    \/ \E j \in HiddenModules(ir) : j < id /\ prog.logical[j] = prog.logical[id]

FinalName(ir, name) ==
    IF name.home = 0 THEN name
    ELSE [home |-> 0, mark |-> IF IsMarked(ir, name.home) THEN name.home ELSE 0,
          path |-> prog.logical[name.home] \o name.path]

\* `rename_prefixes`, on the names of the items and on the calls.
RenamedCall(ir, c) == [c EXCEPT !.path = FinalName(ir, @)]
RenamedItem(ir, item) ==
    [item EXCEPT !.name = FinalName(ir, @),
                 !.calls = [j \in DOMAIN @ |-> RenamedCall(ir, @[j])]]

FinishEntry(ir) ==
    [ir EXCEPT !.items = [k \in Kinds |->
        [i \in DOMAIN @[k] |-> RenamedItem(ir, @[k][i])]]]

\* `resolve_function_call_id`, in the module of the item's final name; the
\* name of a method has no module.
LateId(ir, k, item, c) ==
    LET names == Names(ir, "function")
        scoped == [item.name EXCEPT !.path = Front(@) \o c.path.path]
    IN  IF /\ k # "impl" /\ Len(item.name.path) > 1 /\ Len(c.path.path) = 1
           /\ FirstNamed(names, scoped) # 0
        THEN FirstNamed(names, scoped)
        ELSE FirstNamed(names, c.path)

ResolvedCall(ir, k, item, c) ==
    IF c.id # 0 THEN c ELSE [c EXCEPT !.id = LateId(ir, k, item, c)]
ResolvedItem(ir, k, item) ==
    [item EXCEPT !.calls = [j \in DOMAIN @ |-> ResolvedCall(ir, k, item, @[j])]]

ResolveReferences(ir) ==
    [ir EXCEPT !.items = [k \in Kinds |->
        [i \in DOMAIN @[k] |-> ResolvedItem(ir, k, @[k][i])]]]

-----------------------------------------------------------------------------
(* What the source means: the definition that a path names. *)

OriginAt(ir, k, i) ==
    IF IsOwn(k, i) THEN OriginOf(ir, k, i)
    ELSE [module |-> PreludeModule, ordinal |-> i]

DefAt(ir, k, i) == OwnOf(OriginOf(ir, k, i).module, k)[OriginOf(ir, k, i).ordinal]

\* The definitions of module m with that path.
Defined(m, k, path) ==
    {[module |-> m, ordinal |-> j] :
        j \in {j \in DOMAIN OwnOf(m, k) : OwnOf(m, k)[j].path = path}}

AtTop(m, k, path) ==
    Defined(m, k, path)
    \cup (IF prog.imports[m][Head(path)] # 0
          THEN Defined(prog.imports[m][Head(path)], k, path) ELSE {})
    \cup {[module |-> PreludeModule, ordinal |-> i] :
            i \in {i \in DOMAIN Prelude[k] : Prelude[k][i].name = Plain(path)}}

\* A type: the innermost inline module that has one, then the top level.
TypesMeant(m, mod, path) ==
    LET inner == {n \in 1..Len(mod) : Defined(m, "struct", SubSeq(mod, 1, n) \o path) # {}}
    IN  IF inner # {} THEN Defined(m, "struct", SubSeq(mod, 1, Max(inner)) \o path)
        ELSE AtTop(m, "struct", path)

\* A call: the functions of its own inline module hide those of the top
\* level, and its labels pick the overload.
SigOf(k, o) == IF o.module = PreludeModule THEN Prelude[k][o.ordinal].sig
               ELSE OwnOf(o.module, k)[o.ordinal].sig
FunctionsMeant(m, mod, c) ==
    LET inner == IF mod # <<>> /\ Len(c.path) = 1
                 THEN Defined(m, "function", mod \o c.path) ELSE {}
    IN  {o \in (IF inner # {} THEN inner ELSE AtTop(m, "function", c.path)) :
            SigOf("function", o) = c.sig}

\* What the analysis has accepted when lowering starts: every type that is
\* written is there, and a path into an inline module of the file means the
\* file's own: an imported type or module of that name is a clash.  (A function
\* is none, so a file that imports one of that name, from a file that has such
\* a module too, is left out.)
IsAccepted(m, mod, path) ==
    /\ TypesMeant(m, mod, path) # {}
    /\ \A n \in 1..Len(mod) :
          AtTop(m, "struct", SubSeq(mod, 1, n) \o path)
            = Defined(m, "struct", SubSeq(mod, 1, n) \o path)

IsAnalyzed ==
    \A m \in Modules : \A d \in Range(prog.defs[m]) :
        \A path \in Range(d.types) : IsAccepted(m, ModOf(d), path)

\* What the names of a program rest on.  At the top level of each module a path
\* names one struct, and functions only as overloads.
PathsOf(k) == {Prelude[k][i].name.path : i \in DOMAIN Prelude[k]}
              \cup UNION {{d.path : d \in Range(OwnOf(m, k))} : m \in Modules}
NoClashes ==
    \A m \in Modules, k \in Named : \A path \in PathsOf(k) : \A o, r \in AtTop(m, k, path) :
        (k = "function" => SigOf(k, o) = SigOf(k, r)) => o = r

\* No file stands where another one has an inline module: `one::two` is not at
\* once the file `two` beside the file `one` and a module inside that one.
FinalPaths(f, k) == {prog.logical[f] \o d.path : d \in Range(OwnOf(f, k))}
NoFileInAnother ==
    \A f, g \in Files, k \in Named :
        prog.logical[f] # prog.logical[g] => FinalPaths(f, k) \cap FinalPaths(g, k) = {}

PathsAreClear == NoClashes /\ NoFileInAnother

-----------------------------------------------------------------------------
(* The steps of one compilation, module by module. *)

NoneLinked == <<>>

Init ==
    /\ prog \in Programs
    /\ IsAnalyzed
    /\ linked = NoneLinked
    /\ cur = NoWork
    /\ phase = "idle"

\* `ModuleLinks::lower` and the start of `lower_linked`: the prelude, whose
\* items take the file of the module.
Start(m) ==
    /\ phase = "idle"
    /\ m \notin DOMAIN linked
    /\ DepsOf(m) \subseteq DOMAIN linked
    /\ phase' = "link"
    /\ cur' = [NoWork EXCEPT
                 !.mod = m,
                 !.deps = DepsOf(m),
                 !.ir = [items   |-> [k \in Kinds |-> [i \in DOMAIN Prelude[k] |->
                                        [Prelude[k][i] EXCEPT !.file = 1]]],
                         origins |-> EmptyOrigins,
                         files   |-> <<m>>]]
    /\ UNCHANGED <<prog, linked>>

\* The imported modules come in by their ids.
LinkDep ==
    /\ phase = "link"
    /\ cur.deps # {}
    /\ cur' = [cur EXCEPT !.ir = LinkInto(cur.ir, linked[Min(cur.deps)]),
                          !.deps = @ \ {Min(cur.deps)}]
    /\ UNCHANGED <<prog, linked, phase>>

AliasImports ==
    /\ phase = "link"
    /\ cur.deps = {}
    /\ cur' = [cur EXCEPT !.counts = Lens(cur.ir.items),
                          !.hidden = [k \in Kinds |-> Names(cur.ir, k)],
                          !.ir.items = Aliased(cur.mod, cur.ir.items)]
    /\ phase' = "lower"
    /\ UNCHANGED <<prog, linked>>

LowerOwn ==
    /\ phase = "lower"
    /\ cur' = [cur EXCEPT !.ir = LowerFile(cur.mod, cur.ir)]
    /\ phase' = "finish"
    /\ UNCHANGED <<prog, linked>>

Finish ==
    /\ phase = "finish"
    /\ IF cur.mod = Entry
       THEN /\ cur' = [cur EXCEPT !.ir = FinishModule(cur)]
            /\ phase' = "rename"
            /\ UNCHANGED linked
       ELSE /\ linked' = [m \in DOMAIN linked \cup {cur.mod} |->
                             IF m = cur.mod THEN FinishModule(cur) ELSE linked[m]]
            /\ cur' = NoWork
            /\ phase' = "idle"
    /\ UNCHANGED prog

Rename ==
    /\ phase = "rename"
    /\ cur' = [cur EXCEPT !.ir = FinishEntry(cur.ir)]
    /\ phase' = "resolve"
    /\ UNCHANGED <<prog, linked>>

Resolve ==
    /\ phase = "resolve"
    /\ cur' = [cur EXCEPT !.ir = ResolveReferences(cur.ir)]
    /\ phase' = "done"
    /\ UNCHANGED <<prog, linked>>

Next ==
    \/ \E m \in Modules : Start(m)
    \/ LinkDep
    \/ AliasImports
    \/ LowerOwn
    \/ Finish
    \/ Rename
    \/ Resolve

Spec == Init /\ [][Next]_vars

-----------------------------------------------------------------------------
(* Properties. *)

TypeOK ==
    /\ prog \in Program
    /\ DOMAIN linked \subseteq Files
    /\ \A m \in DOMAIN linked : linked[m] \in Ir
    /\ cur \in Work
    /\ phase \in Phases

\* The modules whose items all have an origin: the finished ones, and the
\* one under construction but for its own items in the "finish" phase.
Irs == {linked[m] : m \in DOMAIN linked}
       \cup (IF phase \in {"idle", "finish"} THEN {} ELSE {cur.ir})
FinishedIrs == {linked[m] : m \in DOMAIN linked}
               \cup (IF phase \in {"rename", "resolve", "done"} THEN {cur.ir} ELSE {})

OwnIndices(ir, k) == {i \in DOMAIN ir.items[k] : IsOwn(k, i)}

\* Every item of a module arrives once, however many imports lead to it,
\* and its place among the origins is its place among the items.
\* (ir/link/mod.rs: "an item that two imports share arrives once")
EachItemOnce ==
    \A ir \in Irs : \A k \in Kinds :
        /\ Len(ir.items[k]) = PreludeCounts[k] + Len(ir.origins[k])
        /\ \A i, j \in DOMAIN ir.origins[k] :
              ir.origins[k][i] = ir.origins[k][j] => i = j

\* Every span of a copied item points to the file it was written in.
SpansKeepTheirFile ==
    \A ir \in Irs : \A k \in Kinds : \A i \in OwnIndices(ir, k) :
        LET f == ir.items[k][i].file
        IN  f \in DOMAIN ir.files /\ ir.files[f] = OriginOf(ir, k, i).module

\* Linking copies each item once, whole, from the file that defines it, along
\* whatever imports it arrives.
CopiesAreExact == TypeOK /\ EachItemOnce /\ SpansKeepTheirFile

\* Through every copy, an id of a type stays the id of the struct that the
\* source names at that place.
TypesKeepTheirMeaning ==
    \A ir \in Irs : \A k \in Kinds : \A i \in OwnIndices(ir, k) :
        \A j \in DOMAIN ir.items[k][i].types :
            LET d == DefAt(ir, k, i)
            IN  /\ ir.items[k][i].types[j] \in DOMAIN ir.items["struct"]
                /\ OriginAt(ir, "struct", ir.items[k][i].types[j])
                     \in TypesMeant(OriginOf(ir, k, i).module, ModOf(d), d.types[j])

\* A call that has an id calls the function that the source means: the one
\* of its own inline module first, the overload with its labels, and never
\* a function of the same name in another file.
IdsMeanTheirFunction ==
    \A ir \in Irs : \A k \in Kinds : \A i \in OwnIndices(ir, k) :
        \A j \in DOMAIN ir.items[k][i].calls :
            LET d == DefAt(ir, k, i)
                id == ir.items[k][i].calls[j].id
            IN  id # 0 =>
                  /\ id \in DOMAIN ir.items["function"]
                  /\ OriginAt(ir, "function", id)
                       \in FunctionsMeant(OriginOf(ir, k, i).module, ModOf(d), d.calls[j])

\* The path of a bound call is the name its function has in that module:
\* `resync_call_ids` and the final renaming go by the path.
CallsNameTheirFunction ==
    \A ir \in FinishedIrs : \A k \in Kinds : \A i \in OwnIndices(ir, k) :
        \A j \in DOMAIN ir.items[k][i].calls :
            LET c == ir.items[k][i].calls[j]
            IN  c.id # 0 => c.path = ir.items["function"][c.id].name

\* In the end every call has an id: the calls that come before their callee
\* in the file, in any module, find it after all.
EveryCallIsBound ==
    phase = "done" =>
        \A k \in Kinds : \A i \in OwnIndices(cur.ir, k) :
            \A j \in DOMAIN cur.ir.items[k][i].calls : cur.ir.items[k][i].calls[j].id # 0

\* A call keeps its meaning: whatever id it has, when it gets it, and by
\* which name it is found until then.
CallsKeepTheirMeaning ==
    IdsMeanTheirFunction /\ CallsNameTheirFunction /\ EveryCallIsBound

\* `rebuild_indices` asserts that no two structs share a name, and two
\* functions share one only as overloads: at every step, so the short names
\* of a module's imports meet no private item of another file, and the final
\* names no item at all.
NoNameTwice ==
    \A ir \in Irs \cup {cur.ir} : \A k \in Named : \A i, j \in DOMAIN ir.items[k] :
        (/\ ir.items[k][i].name = ir.items[k][j].name
         /\ (k = "function" => ir.items[k][i].sig = ir.items[k][j].sig)) => i = j

\* A short name is only lent: in a finished module every item of a module
\* file has the hidden name of the module that defines it.
ShortNamesAreLent ==
    \A m \in DOMAIN linked : \A k \in Named : \A i \in OwnIndices(linked[m], k) :
        linked[m].items[k][i].name.home = OriginOf(linked[m], k, i).module

NamesStayUnique == NoNameTwice /\ ShortNamesAreLent
=============================================================================
