--------------------------- MODULE ImportAnalysis ---------------------------
(***************************************************************************)
(* Pass 0 of the analyzer and what it drives: the `use` statements of the  *)
(* entry module are resolved in order; each file they name is parsed,      *)
(* analyzed by an analyzer of its own (which resolves its own `use`        *)
(* statements first) and lowered on top of the modules it imports.         *)
(*                                                                         *)
(* The recursion of `parse_and_analyze_module` is the variable `stack`:    *)
(* one frame for each analyzer that is running, the entry module first.    *)
(* The caches, the import graph and the module ids move from the importing *)
(* analyzer into the imported one and back, so they are shared variables.  *)
(***************************************************************************)
EXTENDS Symbols, FiniteSets

CONSTANTS Paths,     \* the module paths a `use` can write
          Programs   \* the programs to compile: a set of Program records

\* `file` is what the resolver answers for `path` in the importing file.
Use == [path : Paths, file : Files \cup {NoFile}, glob : BOOLEAN,
        names : SUBSET Names, pub : BOOLEAN]

\* A `use` of an item of an inline module; `ambiguous` when a module file
\* has the path too.  The analyzer never reads `pub`.
LocalUse == [name : Names, ambiguous : BOOLEAN, pub : BOOLEAN]

Program == [uses    : [Modules -> Seq(Use)],
            locals  : [Modules -> Seq(LocalUse)],
            own     : [Modules -> Seq(Symbol)],
            inner   : [Modules -> SUBSET Symbol],
            garbled : SUBSET Files,    \* files that do not lex or parse
            faulty  : SUBSET Modules]  \* modules the later passes refuse

ASSUME ProgramsAreTyped == Programs \subseteq Program

\* The home of an item is the module that writes it.
ASSUME ItemsAreAtHome ==
    \A p \in Programs, m \in Modules :
        /\ \A i \in DOMAIN p.own[m] : p.own[m][i].home = m
        /\ \A s \in p.inner[m] : s.home = m

VARIABLES prog,     \* the program under compilation; never changes
          stack,    \* the running analyzers, innermost last
          edges,    \* `import_graph`: the pairs <<importer, imported>>
          order,    \* `module_links.ids`: the file of id i is order[i + 1]
          logical,  \* `module_links.logical`: the path of each id
          cache,    \* `module_cache`: the table of each finished file
          linked,   \* `module_links.linked`: the items of its linked IR
          verdict,  \* "running", "ok" or "rejected"
          entry     \* the items of the entry module's IR once lowered

vars == <<prog, stack, edges, order, logical, cache, linked, verdict, entry>>

\* An error: the kind, the module whose analyzer found it, and the index
\* of the `use` it is about (0 when it is about no `use`).
ErrorKinds == {"ModuleNotFound", "CircularImport", "ParseError",
               "ImportRefused", "AmbiguousModulePath", "OwnError",
               "InternalError"}
ErrorRec == [kind : ErrorKinds, mod : Modules, use : Nat]

Frame == [file : Modules, next : Nat \ {0}, errs : SUBSET ErrorRec, table : Table]

NewFrame(m) == [file |-> m, next |-> 1, errs |-> {}, table |-> NewTable]

Top == stack[Len(stack)]
Below == SubSeq(stack, 1, Len(stack) - 1)
\* `module_links.depth`: 0 while the entry module is under analysis.
Depth == Len(stack) - 1

UsesOf(m) == prog.uses[m]
CurrentUse(fr) == UsesOf(fr.file)[fr.next]
HasUse(fr) == fr.next <= Len(UsesOf(fr.file))

Finished == DOMAIN cache
Error(kind, fr) == [kind |-> kind, mod |-> fr.file, use |-> fr.next]

\* `y` is reachable from `x` over the edges E: every set that holds `x` and
\* is closed under E holds `y`.  This is what `dfs_find_path` decides.
Closed(E, S) == \A e \in E : e[1] \in S => e[2] \in S
Reaches(E, x, y) == \A S \in SUBSET Modules : x \in S /\ Closed(E, S) => y \in S

\* Mutants: only direct back edges count; a repeated import counts; the
\* direction of the edges is lost.
WouldCycleDirect(from, to) == from = to \/ <<to, from>> \in edges
WouldCycleRepeat(from, to) == Reaches(edges, to, from) \/ <<from, to>> \in edges
WouldCycleUndirected(from, to) == Reaches(edges, to, from) \/ Reaches(edges, from, to)

\* `would_create_cycle`: a path leads from the imported module back.
WouldCycle(from, to) == Reaches(edges, to, from)

-----------------------------------------------------------------------------
(* Steps of `process_use_statement` on the innermost frame. *)

\* Mutants: the errors are dropped; the `use` is tried again.
RefuseSilently(fr, es) == [fr EXCEPT !.next = fr.next + 1]
RefuseAndRetry(fr, es) == [fr EXCEPT !.errs = @ \cup es]

\* The frame after a `use` that found the errors `es` and left this table.
Advance(fr, es, table) == [file |-> fr.file, next |-> fr.next + 1,
                           errs |-> fr.errs \cup es, table |-> table]

Refuse(fr, es) == Advance(fr, es, fr.table)

\* The frame after a `use` of a module whose table is `from`.
Bring(fr, from) ==
    LET u == CurrentUse(fr)
    IN  Advance(fr,
                IF Refused(fr.table, from, u) = {} THEN {}
                ELSE {Error("ImportRefused", fr)},
                ImportUse(fr.table, from, u, u.file))

SetTop(fr) == stack' = Append(Below, fr)

\* Mutant: the depth is never 0.
NeverInEntry == FALSE

\* `ModuleLinks::register`: the first `use` of a file gives it its id and
\* its path; a `use` in the entry module replaces the path.
Known(u) == \E i \in DOMAIN order : order[i] = u.file
InEntry == Depth = 0
Register(u) ==
    \/ /\ Known(u)
       /\ order' = order
       /\ logical' = [i \in DOMAIN logical |->
                        IF order[i] = u.file /\ InEntry THEN u.path ELSE logical[i]]
    \/ /\ ~Known(u)
       /\ order' = Append(order, u.file)
       /\ logical' = Append(logical, u.path)

\* The resolver finds no file.
UseMissing ==
    /\ verdict = "running" /\ HasUse(Top)
    /\ CurrentUse(Top).file = NoFile
    /\ SetTop(Refuse(Top, {Error("ModuleNotFound", Top)}))
    /\ UNCHANGED <<prog, edges, order, logical, cache, linked, verdict, entry>>

\* The new edge would close a cycle; the id is registered all the same.
UseCyclic ==
    /\ verdict = "running" /\ HasUse(Top)
    /\ LET u == CurrentUse(Top)
       IN  /\ u.file # NoFile
           /\ WouldCycle(Top.file, u.file)
           /\ Register(u)
    /\ SetTop(Refuse(Top, {Error("CircularImport", Top)}))
    /\ UNCHANGED <<prog, edges, cache, linked, verdict, entry>>

\* Everything before the cache lookup: the id and the import edge.
Admit(u) ==
    /\ u.file # NoFile
    /\ ~WouldCycle(Top.file, u.file)
    /\ Register(u)
    /\ edges' = edges \cup {<<Top.file, u.file>>}

\* `module_cache.get`.
Cached(u) == u.file \in Finished

\* The module is in the cache already.
UseCached ==
    /\ verdict = "running" /\ HasUse(Top)
    /\ LET u == CurrentUse(Top)
       IN  /\ Admit(u)
           /\ Cached(u)
           /\ SetTop(Bring(Top, cache[u.file]))
    /\ UNCHANGED <<prog, cache, linked, verdict, entry>>

\* The source does not lex or parse; no analyzer starts.
UseGarbled ==
    /\ verdict = "running" /\ HasUse(Top)
    /\ LET u == CurrentUse(Top)
       IN  /\ Admit(u)
           /\ ~Cached(u)
           /\ u.file \in prog.garbled
    /\ SetTop(Refuse(Top, {Error("ParseError", Top)}))
    /\ UNCHANGED <<prog, cache, linked, verdict, entry>>

\* A new analyzer starts on the imported file.
EnterModule ==
    /\ verdict = "running" /\ HasUse(Top)
    /\ LET u == CurrentUse(Top)
       IN  /\ Admit(u)
           /\ ~Cached(u)
           /\ u.file \notin prog.garbled
           /\ stack' = Append(stack, NewFrame(u.file))
    /\ UNCHANGED <<prog, cache, linked, verdict, entry>>

-----------------------------------------------------------------------------
(* The passes after pass 0, and the lowering. *)

\* Pass 1 defines the module's own items; `resolve_local_uses` then adds the
\* items that the first k uses of inline modules name, the ambiguous ones
\* left out.
OwnTable(fr) == DefineAll(fr.table, prog.own[fr.file])
LocalNames(m, k) ==
    {prog.locals[m][i].name : i \in {i \in 1..k : ~prog.locals[m][i].ambiguous}}
LocalTable(fr, k) ==
    AliasAll(OwnTable(fr), prog.inner[fr.file], LocalNames(fr.file, k))
FinalTable(fr) == LocalTable(fr, Len(prog.locals[fr.file]))

AmbiguousUse(fr) ==
    \E i \in DOMAIN prog.locals[fr.file] : prog.locals[fr.file][i].ambiguous
RefusedAlias(fr) ==
    \E i \in DOMAIN prog.locals[fr.file] :
        LET lu == prog.locals[fr.file][i]
        IN  /\ ~lu.ambiguous
            /\ AliasRefused(LocalTable(fr, i - 1), prog.inner[fr.file], lu.name)

\* Mutant: the errors of the later passes are dropped.
PassErrorsOfUses(fr) == fr.errs

\* The errors that the module ends with: those of its uses, and those of
\* the passes after them.
PassErrors(fr) ==
    fr.errs \cup
    {e \in [kind : {"AmbiguousModulePath", "OwnError"}, mod : {fr.file}, use : {0}] :
        IF e.kind = "AmbiguousModulePath"
        THEN AmbiguousUse(fr)
        ELSE \/ AnyClash(fr.table, prog.own[fr.file])
             \/ RefusedAlias(fr)
             \/ fr.file \in prog.faulty}

\* Mutant: the local names are not filtered out.
DepsUnfiltered(t) == {t.origin[n] : n \in Names}

\* `ModuleLinks::lower`: the modules that the imported names come from, and
\* the items of the linked IR.
Deps(t) == {t.origin[n] : n \in Names} \ {NoFile}
Missing(t) == Deps(t) \ DOMAIN linked
ItemsOf(m, t) ==
    {prog.own[m][i] : i \in DOMAIN prog.own[m]} \cup prog.inner[m]
        \cup UNION {linked[f] : f \in Deps(t)}

LowerErrors(fr) ==
    IF PassErrors(fr) # {} THEN PassErrors(fr)
    ELSE IF Missing(FinalTable(fr)) # {}
         THEN {[kind |-> "InternalError", mod |-> fr.file, use |-> 0]}
         ELSE {}

AtEnd == verdict = "running" /\ ~HasUse(Top)
Parent == stack[Len(stack) - 1]

\* Mutants: the errors of the imported module are dropped; the caches are not
\* handed back when the analysis fails.
FailModuleSilently ==
    /\ AtEnd /\ Depth > 0
    /\ LowerErrors(Top) # {}
    /\ stack' = Append(SubSeq(Below, 1, Len(Below) - 1), Refuse(Parent, {}))
    /\ UNCHANGED <<prog, edges, order, logical, cache, linked, verdict, entry>>
FailModuleLosesCaches ==
    /\ AtEnd /\ Depth > 0
    /\ LowerErrors(Top) # {}
    /\ stack' = Append(SubSeq(Below, 1, Len(Below) - 1),
                       Refuse(Parent, LowerErrors(Top)))
    /\ cache' = [f \in {} |-> NewTable] /\ linked' = [f \in {} |-> {}]
    /\ UNCHANGED <<prog, edges, order, logical, verdict, entry>>

\* The analysis of an imported module fails: the errors go to the importing
\* module, which goes on with its next `use`.  Nothing is cached.
FailModule ==
    /\ AtEnd /\ Depth > 0
    /\ LowerErrors(Top) # {}
    /\ stack' = Append(SubSeq(Below, 1, Len(Below) - 1),
                       Refuse(Parent, LowerErrors(Top)))
    /\ UNCHANGED <<prog, edges, order, logical, cache, linked, verdict, entry>>

\* The module lowers, is stored, and the waiting `use` brings in its names.
FinishModule ==
    /\ AtEnd /\ Depth > 0
    /\ LowerErrors(Top) = {}
    /\ LET f == Top.file
           t == FinalTable(Top)
       IN  /\ cache' = [g \in Finished \cup {f} |-> IF g = f THEN t ELSE cache[g]]
           /\ linked' = [g \in DOMAIN linked \cup {f} |->
                           IF g = f THEN ItemsOf(f, t) ELSE linked[g]]
           /\ stack' = Append(SubSeq(Below, 1, Len(Below) - 1), Bring(Parent, t))
    /\ UNCHANGED <<prog, edges, order, logical, verdict, entry>>

\* The entry module ends: its IR, or its errors.
FinishEntry ==
    /\ AtEnd /\ Depth = 0
    /\ LET errs == LowerErrors(Top)
           t == FinalTable(Top)
       IN  /\ verdict' = IF errs = {} THEN "ok" ELSE "rejected"
           /\ entry' = IF errs = {} THEN ItemsOf(Top.file, t) ELSE {}
           /\ stack' = <<[Top EXCEPT !.errs = errs, !.table = t]>>
    /\ UNCHANGED <<prog, edges, order, logical, cache, linked>>

-----------------------------------------------------------------------------

Init ==
    /\ prog \in Programs
    /\ stack = <<NewFrame(Root)>>
    /\ edges = {}
    /\ order = <<>> /\ logical = <<>>
    /\ cache = [f \in {} |-> NewTable]
    /\ linked = [f \in {} |-> {}]
    /\ verdict = "running"
    /\ entry = {}

Next ==
    \/ UseMissing \/ UseCyclic \/ UseCached \/ UseGarbled \/ EnterModule
    \/ FailModule \/ FinishModule \/ FinishEntry

\* The analyzer is sequential code that nothing blocks: it keeps stepping.
Spec == Init /\ [][Next]_vars /\ WF_vars(Next)

-----------------------------------------------------------------------------
(* Properties. *)

\* Every variable has its type.
TypeOK ==
    /\ prog \in Program
    /\ stack \in Seq(Frame) /\ stack # <<>>
    /\ edges \in SUBSET (Modules \X Files)
    /\ order \in Seq(Files)
    /\ logical \in Seq(Paths) /\ Len(logical) = Len(order)
    /\ DOMAIN cache \subseteq Files /\ cache \in [DOMAIN cache -> Table]
    /\ DOMAIN linked = DOMAIN cache
    /\ linked \in [DOMAIN cache -> SUBSET Symbol]
    /\ verdict \in {"running", "ok", "rejected"}
    /\ entry \in SUBSET Symbol

\* No file has two analyzers at once: the recursion of
\* `parse_and_analyze_module` never comes back to a file that is still
\* under analysis, so its depth is at most the number of files.
NoReentry ==
    \A i, j \in DOMAIN stack : stack[i].file = stack[j].file => i = j

\* The import graph that `add_import` builds stays without a cycle.
ImportGraphAcyclic == \A e \in edges : ~Reaches(edges, e[2], e[1])

\* A file that finished is never analyzed again: `module_cache` answers.
AnalyzedOnce == \A i \in DOMAIN stack : stack[i].file \notin Finished

\* The linker never meets an import that has no IR: the `InternalError` of
\* `missing` is unreachable, whatever fails and in whatever order.
NoInternalError ==
    \A i \in DOMAIN stack : \A e \in stack[i].errs : e.kind # "InternalError"

\* `register` gives a file one id, although failed modules are analyzed
\* again and cycles are refused only after the registration.
OneIdPerFile ==
    \A i, j \in DOMAIN order : order[i] = order[j] => i = j

\* Whatever fails and however a file is met again, it has at most one analyzer,
\* none once it finished, and one id.
EachFileOnce == NoReentry /\ AnalyzedOnce /\ OneIdPerFile

\* The graph of the `use` statements as they are written.
UseGraph ==
    {e \in Modules \X Files : \E i \in DOMAIN UsesOf(e[1]) :
                                  UsesOf(e[1])[i].file = e[2]}

\* The module m and its uses are without a fault of their own; G is the
\* graph of the uses.
Sound(G, m) ==
    /\ m \notin prog.garbled \cup prog.faulty
    /\ \A i \in DOMAIN UsesOf(m) : UsesOf(m)[i].file # NoFile
    /\ \A i \in DOMAIN prog.locals[m] : ~prog.locals[m][i].ambiguous
    /\ \A f \in Files : <<m, f>> \in G => ~Reaches(G, f, m)

SoundProgram ==
    LET G == UseGraph
    IN  \A m \in Modules : Reaches(G, Root, m) => Sound(G, m)

\* A program is accepted only when every module that the entry reaches is
\* sound: no failure deep in the import graph is lost in a cache or on the
\* way up the recursion.
AcceptedIsSound == verdict = "ok" => SoundProgram

\* And no failure is invented: the analyzer reports one only where a module
\* in reach is unsound, or where a name cannot be imported.
RejectedHasCause ==
    verdict = "rejected" =>
        \/ ~SoundProgram
        \/ \E e \in stack[1].errs :
              \/ e.kind = "ImportRefused"
              \/ e.kind = "OwnError" /\ e.mod \notin prog.faulty

\* A `CircularImport` is reported for a `use` only when the `use` lies on a
\* cycle of the source, in whatever order the files were visited before.
CyclesAreReal ==
    \A e \in stack[Len(stack)].errs :
        e.kind = "CircularImport" =>
            Reaches(UseGraph, UsesOf(e.mod)[e.use].file, e.mod)

\* The path of a module in the final names: the one that the entry module
\* wrote last, when it names the file itself.
EntryPathWins ==
    \A k \in 1..(stack[1].next - 1), i \in DOMAIN order :
        /\ UsesOf(Root)[k].file = order[i]
        /\ \A l \in (k + 1)..Len(UsesOf(Root)) : UsesOf(Root)[l].file # order[i]
        => logical[i] = UsesOf(Root)[k].path

\* What a file exports, read off the source alone: its own public items, and
\* what each `pub use` names that no earlier `use` of the file bound.  The
\* chains of re-exports are followed k steps.
Provides(exp, u) ==
    {s \in exp[u.file] : u.glob \/ s.name \in u.names}
ExportsOf(exp, f) ==
    LET Bound(i) == {s.name : s \in Provides(exp, UsesOf(f)[i])}
    IN  {s \in {prog.own[f][i] : i \in DOMAIN prog.own[f]} : s.pub}
        \cup UNION {{s \in Provides(exp, UsesOf(f)[i]) :
                        \A j \in 1..(i - 1) : s.name \notin Bound(j)} :
                     i \in {i \in DOMAIN UsesOf(f) : UsesOf(f)[i].pub}}
ExportsWithin[k \in 0..Cardinality(Files)] ==
    [f \in Files \cup {NoFile} |->
        IF k = 0 \/ f = NoFile THEN {} ELSE ExportsOf(ExportsWithin[k - 1], f)]

\* The names under which one table holds the items of two modules: a module
\* may define a function beside an imported one of the name, or a type beside
\* an imported function, and the table has one origin for the two.
MergedNames ==
    {n \in Names : \E f \in Finished : \E s, r \in Named(cache[f], n) : s.home # r.home}

\* No file brings in an item of an inline module of its own, and no file has
\* a function of its own beside a type of its own of the same name.
OneKindEach(p, f) ==
    \A i, j \in DOMAIN p.own[f] :
        p.own[f][i].name = p.own[f][j].name => (IsFn(p.own[f][i]) <=> IsFn(p.own[f][j]))
PlainFiles ==
    \A p \in Programs, f \in Files : p.locals[f] = <<>> /\ OneKindEach(p, f)

\* A cached table exports just what its source says: the cache, the order of
\* the imports and the re-export chains neither add nor hide a name that no
\* table merged.
ExportsMatchSource ==
    \A f \in Finished :
        {s \in UNION {Offered(cache[f], n) : n \in PublicNames(cache[f]) \ MergedNames} : s.pub}
            = {s \in ExportsWithin[Cardinality(Files)][f] : s.name \notin MergedNames}

\* Every imported item is an item of the module's linked IR, under the id of
\* the file that defines it, however long the chain of re-exports, unless some
\* table merged its name with another one.
ImportedItemsLinked ==
    \A f \in Finished : \A s \in cache[f].syms :
        s.name \notin MergedNames =>
            /\ s \in linked[f]
            /\ s.home # f => cache[f].origin[s.name] = s.home

\* What an analyzer finished stays as it is, and ids are only added.
FinishedIsStable ==
    [][ /\ \A f \in Finished : /\ f \in DOMAIN cache'
                               /\ cache'[f] = cache[f]
                               /\ linked'[f] = linked[f]
        /\ Len(order') >= Len(order)
        /\ SubSeq(order', 1, Len(order)) = order ]_vars

\* An error, once found, reaches the entry module's list.
AllErrors == UNION {stack[i].errs : i \in DOMAIN stack}
ErrorsAreKept == [][AllErrors \subseteq AllErrors']_vars

\* The compilation ends, whatever the files import.
Terminates == <>(verdict # "running")

\* The analyzer builds modules in the order of their dependencies.
Needs == [m \in Modules |-> {UsesOf(m)[i].file : i \in DOMAIN UsesOf(m)}]
Build == INSTANCE ModuleBuild WITH needs <- Needs, built <- Finished
BuildsInOrder == Build!Spec
=============================================================================
