# A verification development for the FormaLang compiler

This directory models parts of the FormaLang compiler (`src/src`, a Rust crate)
in TLA+, checks the models with TLC on small instances and proves theorems about
them with TLAPS. FormaLang's compiler is a library without threads or I/O loops.
What is hard in it is not concurrency but order: files import each other in any
shape and fail anywhere, names travel through chains of re-exports, several
lowered modules are copied into one, ids are positions that every removal moves,
generics are copied in rounds that feed each other, bindings are found by name
again after each pass that invents names, and the same choice among overloads is
made twice, in two parts of the program. The models are about these.

- [Inventory](#inventory): the parts of the compiler and what makes each correct
- [Plan](#plan): what is modelled and what could come next
- The modules against the code: [import analysis](#the-import-analysis),
  [circular definitions](#circular-definitions), [ownership and
  sequences](#ownership-and-sequences), [calls](#calls), [linker](#the-linker),
  [monomorphisation](#monomorphisation), [closures](#closures), [constant
  folding](#constant-folding), [dead code elimination](#dead-code-elimination)
- [Runs](#runs): what each run asks, its bounds, what it shows
- [Fairness, deadlock](#fairness-and-deadlock)
- [Proofs](#proofs)
- [Findings](#findings): where the code and its documentation disagree
- [What is not modelled](#what-is-not-modelled)

`PROJECT.json` lists the components, the runs, the map from each definition to
the lines it translates, one mutant for each checked property, the findings, the
hazards and the theorems. Paths below are relative to `src/src` unless they
begin with `docs` or `tests`.

## Inventory

A compilation goes through these parts in order.

| Part | State it keeps | Operations | What is hard, and what makes it correct |
| --- | --- | --- | --- |
| Lexer, parser (`lexer`, `parser`) | tokens, nesting score, recovery points | tokenize, score, parse, recover | a limit that must be refused before the parse; a pure function of the text |
| Import analysis (`semantic/imports.rs`, `import_graph.rs`, `module_links.rs`) | module cache, import graph, module ids and paths, linked IR of each file | one recursion per imported file; register, cache, refuse | failures inside the recursion, cycles, diamonds, files analysed again after a failure. No cycle gets in, nothing is lost, dependencies first |
| Symbol table (`semantic/symbol_table`) | one map for each kind, origins, re-exports | define, import a name / a glob / a module, alias, export | visibility through chains of `use` and `pub use`; the origin must be the file that defines |
| Type checking, inference (`semantic/inference`, `type_resolution`, `validation`) | scopes, inferred types, errors | a walk for each pass | agreement between the analyzer and lowering on types and overloads |
| Sequences, exclusivity, outer frames (`semantic/validation`) | state of each binding along a walk | branch, join, loop | every path must use a sequence once |
| Circular definitions (`semantic/circular.rs`, `type_graph.rs`) | a graph and a visited set | build, search | every cycle found, only cycles reported |
| Lowering (`ir/lower`) | the IR under construction, short names, scopes | register, lower, look up names | names bound while the callee is not lowered yet |
| Linker (`ir/link`) | origins, id tables, hidden names | copy, alias, hide, rename | every id means the same item after any number of copies |
| Reference resolution (`ir/resolve_refs`) | scopes | bind calls, locals, parameters | every reference bound to what the source means |
| Monomorphisation (`ir/monomorphise`) | worklist, instances, depth, id maps | collect, specialise, rewrite, compact | the worklist ends; nothing generic is left; ids after compaction |
| Closure conversion, defunctionalisation (`ir/closure_conv`, `ir/defunctionalise`) | captures, fresh names | lift, synthesise, rewrite | shadowed captures, fresh names |
| Dead code elimination (`ir/dce`) | marks, rounds, id maps | collapse, remove, mark, rewrite | every id rewritten, nothing needed removed, the rounds end |
| Constant folding (`ir/fold`) | none | fold | overflow: fold only what evaluates without a fault |
| Pipeline (`pipeline.rs`) | the list of passes | run | the order of the passes, each one's precondition |
| Editor queries, errors, reporting, command line | none | search, format, print | none: read-only, or text |

The parts call each other, and share what they hand over. The import analyzer
calls itself for each imported file and moves its caches in and out of the new
analyzer (`std::mem::take`). When a file has no error, it is lowered on top of
the linked IR of its imports, and the linker runs inside that lowering. The
entry module is last. Then a pipeline of passes takes the one module that is
left, each pass taking the module from the one before.

The list of hazards is in `PROJECT.json`, each with its line and with the
properties that would fail if it went wrong.

## Plan

The order of the models follows what the other parts rely on.

1. `Symbols`, `ImportAnalysis`, with the abstract `ModuleBuild`: how files are
   found, analysed, refused and cached, and which names reach whom. Checked, and
   proved to be type correct, acyclic, without re-entry, sound, to export what
   the source says, and to implement `ModuleBuild`.
2. `Linking`: what happens to the lowered modules. Checked, and proved to copy
   each item once, to keep the meaning of every type and to give no name twice.
3. `DeadCode`: the last pass before a backend, the one that removes. Checked,
   and proved to rewrite every id rightly, to keep what is needed, to leave
   nothing unused and to keep what every block does.
4. `Bodies` with `SequenceWalk` and `OwnershipWalk`, judged by `BodyRun`: the
   walks that decide who owns a value. Checked.
5. `Circular`: the search for cycles among types and among module lets. Checked,
   and proved to report only cycles and to miss none.
6. `Folding`, judged by an evaluation of its own. Checked.
7. `GenericTypes`, `Monomorphise`, judged by `MonoMeaning`. Checked.
8. `ClosureTrees`, `Closures`, judged by `ClosureMeaning`: the reference pass,
   closure conversion and defunctionalisation. Checked.
9. `CallForms`, `Calls`, judged by `CallMeaning`: one call from its check to its
   final form. Checked.

The models 4 and 6 to 9 have the same plan: one module is the code, another one
says what the source means without a look at the operators of the first (an
execution, an evaluation, a reading of the documentation), and the properties
compare the two. A pass has no abstract specification closer to it than that.

`ImportAnalysis`, `Linking`, `DeadCode`, `Circular` and `Calls` declare no
`RECURSIVE` operator and can be proved about. `Monomorphise`, `Closures` and
`Folding` are recursive on trees.

What could come next, in this order: for `Linking`, that calls keep their
meaning (`CallsKeepTheirMeaning`), over the lemmas of `LinkingTypesProofs` on
ids and names; for `Calls`, that `method_index` and the analyzer's choice agree
for every list of overloads that share no signature; a model of the rules for
where a sequence type may stand (`sequence_placement.rs`); type parameters in
`Calls`.

## The import analysis

`Symbols` is the table of one module (`semantic/symbol_table`), a record of
symbols, origins and re-exports. The per-kind maps of the code behave alike in
every operation except that functions overload, so a symbol is a function, with
a signature, or a "type". `ImportUse` is `import_use_items` (a name, several, or
a glob; plain or `pub`), `Clashes` the `define_*` family, `AliasAll` is
`alias_local`, the operation behind a `use` of the file's own inline module.

`ImportAnalysis` is what drives it. The recursion of `parse_and_analyze_module`
is the variable `stack`, one frame for each analyzer that is running.

| Variable | Code |
| --- | --- |
| `prog` | the source files: a record of uses, own items, inline items, and which files do not parse or do not pass |
| `stack` | the chain of `SemanticAnalyzer`s; a frame is its file, the next `use`, `errors`, `symbols` |
| `edges` | `import_graph` |
| `order`, `logical` | `module_links.ids` and `.logical` |
| `cache` | `module_cache` |
| `linked` | `module_links.linked` (the items only) |
| `verdict`, `entry` | the result of `analyze_and_classify` and the entry's IR |

| Action | Code |
| --- | --- |
| `UseMissing`, `UseCyclic`, `UseCached`, `UseGarbled`, `EnterModule` | `process_use_statement`: the resolver finds nothing; the edge closes a cycle; the cache answers; the file does not parse; a new analyzer starts |
| `FinishModule`, `FailModule` | the end of `parse_and_analyze_module`: cached and lowered, or its errors go to the importing analyzer |
| `FinishEntry` | the end of the entry module |

Passes 1 to 6 over one file are part of `FinishModule`, `FailModule` and
`FinishEntry`: they find an error (`faulty`, a clash of definitions, a refused
alias) or none. The errors are a set of (kind, module, use): the code's list
without order and text. `use a::b::c` is written as a path and the file that the
resolver answers for it; how the resolver searches directories is I/O. A module
that is garbled or fails is not cached, and is analysed again at its next `use`,
as in the code.

`ModuleBuild` is the promise: a file is built when all that it needs is, and the
entry module is accepted only when all that it needs is built. It knows no
stack, no cache, no order. The refinement mapping takes `needs` from the source
and `built` from the keys of `cache`; `BuildsInOrder == Build!Spec` is both a
property of a run and a theorem.

## Circular definitions

`Circular` is pass 5 of the analyzer (`semantic/circular.rs`,
`semantic/type_graph.rs`). `TypeGraph` and `LetGraph` build the two graphs from
a file: which mentions of a type count as held inline (not those behind an array
or a dictionary), and which lets a value reads through the functions that it
calls, with parameters hiding lets. Both graphs are searched alike: `Start`
begins at a key that was not visited, `CloseCycle`, `Descend` and `PassBy` are
the three cases of a neighbour (on the path, new, already visited), `Return`
pops, `EndPass` turns the cycles into errors and goes to the next graph. The
keys of a hash map and the members of a hash set come in any order, so the next
key and the next neighbour are chosen freely. `finished` is history: no action
reads it.

`Sized` and `Evaluable` say what the verdicts are about without graphs: the
types whose size is finite are the least set that holds each type as soon as it
holds all that the type holds inline, and the lets that can be evaluated
likewise, where a function may be called when it reads, through all it calls in
turn, lets of the set only (`Within`).

## Ownership and sequences

The two walks over a function body in `semantic/validation`: `SequenceWalk`
(`sequence_linear.rs`: a lazy sequence is used once on every path) and
`OwnershipWalk` (blocks, branches, loops, closures, calls: what is given to a
`sink`, which closures capture it, which two arguments of a call overlap).
`Bodies` has the tokens that both read: bindings, uses, assignments, calls and
scopes, in the order of the source, so that each token is one step. The walks
keep maps from names, as the code does, and a stack with what the code keeps on
its call stack. Both walk a body before `BodyRun` executes it: each time a
binding is made it is a cell of its own, branches go either way, loops make up
to `MaxPasses` passes, closures run when they are called. It is external to the
code: `docs/user/functions.md`, `control-flow.md` and `closures.md` say what a
program does. It records faults (a cell used after it was moved, a sequence
driven twice or dropped, two arguments that reach one place), and the properties
relate the verdict of the walks to the faults of every execution.

## Calls

`CallForms` has the rules that choose among overloads (`ir/overload.rs`,
`validation/invocation`, `validation/method_call/choice.rs`): which call fits
which list of parameters, the types of literals, the ranking, the index of a
method. `Calls` takes a file of functions, impl blocks and callers through the
compiler: `CheckSignatures`, then for each caller `TypeArguments` (a literal
takes the type of its parameter, if all candidates agree) and `CheckCall` (the
choice, its errors, the record in `overload_choices`), `FinishAnalysis`,
`LowerItem` for each item in order (a call looks its function up among those
lowered so far, fills defaults in and, when a default reads a parameter, wraps
the call in hidden lets), `ResolveReferences` (the calls that came before their
callee, and the index of a method again), `SubstituteDefaultsLate` (their
defaults). A value is a tag and the binding it reads.

`CallMeaning` reads `docs/user/functions.md`: which definitions a call suits,
which of them best, and what each parameter is bound to, with the defaults
evaluated over the parameters before them in the scope of the callee.

## The linker

`Linking` models `ir/link` and the part of `ir/lower` that binds names, since
the two work on each other's output. `Start(m)` begins the lowering of a module
with the prelude, `LinkDep` is one call of `link_into`, `AliasImports` gives the
imported items their short names, `LowerOwn` registers and lowers the module's
definitions, `Finish` is `finish_module` (hidden names, origins, retargeted
calls). For the entry module `Rename` is `finish_entry` and `Resolve` what
`ResolveReferencesPass` does to calls that have no id yet.

Abstractions:

- structs stand for structs, enums and traits, which the linker treats alike;
  module bindings, which move as functions do, are left out;
- a name is a record (hidden prefix, id mark, path) and never text; `@2::f` is
  `home = 2`;
- a body is the types it names and the calls it makes; overloads are told apart
  by one label set, which stands both for the analyzer's recorded choice and for
  `overload::choose`;
- lowering does not fail: a module that has an error is never lowered;
- a span is the number of its file.

`Ranks` is what linking and dead code elimination have in common: some positions
of a sequence stay (`Kept`) and close ranks (`Rank`). For the linker they are
the items of the imported module that are not there yet (`Fresh`): the id of a
new item is the length of the list so far plus its rank among them, which is the
counter of `link_into` without the counting.

Assumptions: the names of the prelude have no hidden prefix and no id
(`PreludeIsOpen`), and the programs are ones that the analysis accepts
(`IsAnalyzed`, a condition of `Init`; TLC drops none of the programs of the run
for it). Every type that is written exists, and a path into an inline module of
the file is not at the same time one into an imported item: `define_module`
refuses a module with the name of an imported type, trait, value or module
(`find_any`). It does not refuse one with the name of an imported function, so a
file that imports `shapes`, a function of a file that also has an inline module
`shapes`, and has such a module itself, is outside this assumption.

`PathsAreClear` is no assumption of the module but a hypothesis of one theorem
(`LinkingNamesStayUnique`). `NoClashes` says that at the top level of a module a
path means one struct, and functions only as overloads. The analysis refuses
anything else, except a function beside an imported one of its name and labels
(`semantic/symbol_table/insert.rs:262`). `NoFileInAnother` says that no file
stands where another one has an inline module; that the compiler does not check
(see [Findings](#findings)). The programs of the run `linking` fulfil both.

`TypesMeant` and `FunctionsMeant` say what a path of the source means, from the
source alone. The properties compare every id of every finished or unfinished
module with them, after any number of copies.

## Monomorphisation

`GenericTypes` has the types of the IR, substitution, unification and the lookup
of a copy. `Monomorphise` has the phases of the pass as actions, in the order of
`mod.rs`: collect the instantiations, copy one from the queue or refuse it,
rewrite every type, copy the impl blocks, collect and copy generic functions and
methods from their stack, the second round for the types that the copies bring
up, devirtualise, drop the templates, compact, give the calls their ids again,
look for what is left over. An error ends the pass (`Stop`).

A body is the sequence of its expressions, children first. Structs and enums are
one table, tuples and closure types one form, defaults are walked as bodies and
left out. `from`, on each definition, says what of the source it is a copy of;
the pass never reads it. `MonoMeaning` reads the source with type arguments
passed along: for each copy the closed types of its expressions and the function
that each call means.

`ImportAnalysis` hands lowered files to `Linking`, `Linking` one module to this
pass, and this pass the modules that `Closures` and `DeadCode` assume.

## Closures

`ClosureTrees` has expression trees and the lowering of closures: what a closure
captures (`CollectFreeRefs`), how it reads `self`. `Closures` goes on with the
passes: `ResolveBeforeConversion` gives each binding an id and each name its
binding, `ConvertLets`, `ConvertFunctions`, `ConvertMethods` and
`ConvertFieldDefaults` lift every closure out of its body, each to a function
with a struct for its captures, `AppendLifted`, `ResolveLifted`; then
`CollectShapes`, `Synthesise` (an enum and a dispatch function for each closure
type), `RewriteClosures`, `ResolveDispatch`. A name is a record: what is
written, the inline module and, for an invented one, its number.

`ClosureMeaning` evaluates the source with lexical scopes and the IR by binding
ids, as a backend does. Values are symbolic: a sum is a pair, so that no two
programs agree by accident.

Restrictions: a callee with defaults comes after its caller (a forward call of
it is in `Calls`); assignments stand in the block that declares; methods are
found by name; labels are ignored; the defaults of enum variants are left out.

## Constant folding

`Folding` folds the four places of a module one after the other (`FoldPlace`),
with every rule of `ir/fold`: pairs of literals of each type, unary operators,
conditionals, and the children of everything else. An integer type has the words
`Least[w] .. Greatest[w]`, a float type the multiples of `Step[w]` up to its
greatest, so overflow, division by zero, the least integer and a value that is
not finite happen with a handful of words. `Value` evaluates an expression for
an input and says where a backend decides (faults). Signed zero is left out.

## Dead code elimination

`DeadCode` is one run of `eliminate_dead_code` over one module; each action is a
part of that function, in its order. `CollapseBranches` replaces conditionals on
a literal, `RemoveLocals` walks each block from its end, `RemoveUnreadLets`
takes out one layer of private module bindings and repeats until `NoUnreadLets`;
then `Analyze` and `Remove` alternate until the counts stay or the rounds run
out. Without `remove_unused_structs` (`all`), the pass ends after the locals.

Ids are positions in both, from 1 here. The fields `was` (of an item) and
`means` (of a reference) are not the program's: they carry the original position
of an item and of what a reference names, and no action reads them. They let the
properties say that an id still names what it did.

Abstractions: a block is flat (a nested block is a block of its own); a
statement's value has one branch or those of an `if`, and what a condition reads
counts with the branches; a branch holds the types it names, its static calls,
its reads and whether it can have an effect or a fault; ids do not reach
`u32::MAX`. `Outcome` gives a block its meaning for `SameBehaviour`: its effects
in order, each with the values it is computed from, and its result, for either
outcome of a condition that the compiler does not know.

The module assumes four things of the modules it is given, and TLC evaluates
them on those of the runs. `ModulesAreTyped`: they are modules.
`ModulesAreResolved`: each item is where it is, each id means what it names, and
what reads a binding by its name has its name. `ModulesAreMonomorphic`, what
monomorphisation leaves: no bound has arguments, no function has bounds, impls
are of structs and enums, and what calls an impl names the type that the impl is
for ("already reached via the receiver's type", `ir/dce/reachability.rs:189`).
The entry points run monomorphisation first. Only an extern method keeps its
type parameters after it (`ir/types/functions.rs:47`); that one of them has a
constraint is left out, and the prelude's have none. Before monomorphisation,
bounds of generic functions are not followed. `BlocksHaveResults`: a block ends
in its result, which `IrExpr::Block` has next to its statements
(`ir/expr/mod.rs:470`).

Not assumed by the module, but by the run `dead_code` and by the theorems about
ids and about what stays, is that no parameter default calls a method
(`DefaultsCallNothing`): the code does not rewrite such a call (see
[Findings](#findings)).

## Runs

| Run | Module, configuration | Asks |
| --- | --- | --- |
| `imports_structure` | `MCImportStructure` | the structure of imports and failures |
| `imports_names` | `MCImportNames` | which names reach whom |
| `circular` | `MCCircular` | the verdicts on cycles of types and lets |
| `bodies` | `MCBodyChecks` | what the ownership walks let through |
| `calls` | `MCCalls` | the choice among overloads, twice, and the arguments |
| `linking` | `MCLinking` | ids, names and spans through linking |
| `monomorphise` | `MCMonomorphise` | types and calls of the copies |
| `closures` | `MCClosures` | answers before and after the closure passes |
| `folding` | `MCFolding` | what is folded, and what may not be |
| `dead_code` | `MCDeadCode` | the whole pass |
| `module_let_capture` | `MCClosureDivergences`, `MCModuleLetCapture.cfg` | a violation: see [Findings](#findings) |
| `lost_arguments` | `MCCallDivergences`, `MCLostArguments.cfg` | a violation: see [Findings](#findings) |

**`imports_structure`.** Three files and the entry module. Two files have up to
two `use`s of any file, themselves included; the third has at most one; the
entry has one or two. In every program at most one thing is wrong: one module is
garbled, faulty, has a missing import or an ambiguous path. The bounds contain
every shape in which the recursion matters: self-import, cycles of two and of
three entered anywhere, diamonds, a failed file met again over another path, a
failure below a cycle. Three files are the least for a cycle that is not entered
at its own edge; a second fault adds only a second error. It shows that nothing
is analysed twice at the same time or again after it finished and that ids are
unique (`EachFileOnce`), that an accepted program is sound everywhere in reach
(`AcceptedIsSound`) and a rejected one has a cause, that no error is lost on the
way up, that a reported cycle is a cycle of the source, that the path that the
entry module writes wins, that the analysis ends, and that it implements
`ModuleBuild`.

**`imports_names`.** A leaf, two files over it and the entry module: the chain
that re-exports need and the diamond that hides one behind another. Each `use`
is plain or `pub`, and names an item or everything; items are public or private;
the function has overloads of both visibilities. `ExportsMatchSource` computes
the exports of each file from the source alone, by following `pub use` as many
steps as there are files, and compares it with the cached table.
`ImportedItemsLinked` and `NoInternalError` say that lowering finds everything
that a table names. A file over the leaf may define a function or a type of a
name that it imports: the table then holds the items of two files under one
origin (see the list under [Findings](#findings)). Such names are `MergedNames`,
and `ExportsMatchSource` and `ImportedItemsLinked` speak of all others, in every
file, the ones next to a merged name included.

**`circular`.** Every graph of three types, whose mentions are plain, in an
optional, in a type argument or in an array, with or without a trait; and every
file of two lets and two functions that call each other, one of them overloaded,
with parameters that hide a let. All orders of the search are taken, so a
verdict that depends on the order of a hash map would be found. Three types are
the least for a cycle that is not entered at its own edge and for a node that
two paths reach. `TypeVerdictIsExact` and `LetVerdictIsExact` say that a cycle
is found exactly when some type has no finite size, or some let needs its own
value.

**`bodies`.** Nearly ten thousand bodies about one binding: every pair of
statements, and many triples, of reading, giving away (to a function, a method,
a closure), assigning, binding again, and each of these in a block, in a branch,
in a loop and in a closure. Loops run up to `MaxPasses = 2` times: the second
pass is the first that can use what the one before gave away, and a third meets
no new state, since a cell is only live or gone. `NoUseAfterSink` and
`SequencesRunOnce` say that an accepted body is safe on every path;
`RefusedForACause` that a body with one path, each name bound once, is refused
exactly when the execution has a fault.

**`calls`.** 10,058 files of a caller and one, two or three definitions of a
name from eleven lists of parameters, and sixteen lists of arguments. Functions
stand before, after and around the caller, so the index that the analyzer
recorded is used on lists that are lowered in part; methods stand before or
after it. `CallVerdictIsExact`: the analyzer takes the call exactly when one
definition suits it best. `TheBestFitIsCalled`: the call in the final IR names
that definition, although lowering and reference resolution choose again; for a
function exactly when lowering has reached it (`Reached`): it stands before the
call, or it is the first of its name. With one overload before the call and the
meant one behind it, the code calls the wrong one, which is under
[Findings](#findings). `ArgumentsReachTheirParameters`: in the calls lowering
reaches, each parameter has the value the call means, with defaults evaluated in
the scope of the callee, and the call of a function carries an argument for
every parameter, so a default that is not put in is seen. `MCCalls` leaves out
three classes of files, `MethodsAgree`, `ShapesAgree` and `DefaultsAgree`, in
which the code does something else on its own account; each is in the list under
[Findings](#findings).

**`linking`.** A diamond of three modules. The order of definitions, what is
imported, which file has the lower id (it depends on the `use` that comes first)
and the logical paths vary. Each module has a private `h`, so a mistaken name is
a mistaken meaning. Calls come before and after their callees, inside an inline
module too, and through overloads. The programs avoid three shapes that are
under [Findings](#findings): a path that begins with another path and an inline
module; a qualified call of an overloaded
function; and an inline module that shadows a top-level function by a later one.

**`monomorphise`.** A library of generic structs, traits with parameters, impls,
functions and methods that call each other, two of them with ever deeper types,
and 454 programs of one or two lets over it: instances, tuples and carriers as
type arguments, inside one another, and two impls of one generic trait whose
arguments are a primitive and an instance. `MaxDepth = 3` stands for the code's
32. It must be larger than two, since the two rounds of rewriting resolve two
stacked instances: with three, `Box<Box<Box<I32>>>` is within the limit and
beyond the rewriting, a `Box` of two tuples is at the limit and passes, and one
of three tuples is refused. Four and five boxes, and functions that ask for ever
deeper types, go beyond both. `MaxItems = 40` is what no program reaches.

`TypesKeepTheirMeaning` compares the type of every expression of every copy with
the source under the copy's type arguments, and says which prelude carriers are
copied: what a field of a written instance holds, and nothing else.
`CallsReachTheirCopies` compares each call's id, after compaction, with the copy
of what the source calls. `OneCopyEach` says that two types in use that mean the
same are equal, and that no function or method is copied twice for the same
types; a copy that nothing uses may be there twice. `VerdictIsExact` says when
the pass fails: with "deep" if a needed type is deeper than the limit, with an
internal error if needed instances are stacked higher than the rewriting goes
(three, or two that only a generic body spells out), and in no other case. Two
of these statements are not what the documents say: see "Seen while modelling".

**`closures`.** 93 programs: every small body that binds a captured name again
inside a closure (in a block, in a loop, in a closure of its own), and one
program for each way in which a closure travels (returned, curried, stored in a
field, passed twice to one function, never called, read through `self`) and for
each name of the source that looks like an invented one. `SameAnswer` is checked
before, between and after the two passes.

**`folding`.** 13,416 expressions: every operation on every pair of edge values
under a second operation, comparisons, logic and conditions. An `I32` has three
bits, an `I64` four, an `F32` the even numbers up to 4 and an `F64` the numbers
up to 6: the two widths differ, so a fold in the wrong width shows, and a few
words contain every edge (the least integer, negation of it, division by -1, the
first number past the width). `SameResult` says that the value, type and fault
of each expression stay for every input; `NothingIsLeft` that what can be folded
is.

**`dead_code`.** Two families. In the first, three structs, two traits, an enum
and three or four impls refer to each other in many ways, in two orders, with
one function that names and calls. In the second, a block of three or four
statements binds, shadows, assigns and tests two names, among three module
bindings that read each other by name or by id. Three definitions in a chain
need more than one round, an impl behind a removed one has its position moved
twice, and two names are enough for shadowing. `IdsKeepTheirMeaning` is the main
one: every id that is left names what it named, at its new position.

Each property has a mutant in `PROJECT.json`: a plausible slip in one mapped
definition (a dropped guard, a missed reset, an order reversed) under which the
run finds the property violated.

## Fairness and deadlock

`Terminates` (imports, dead code) and `SearchEnds` (cycles) are checked under
`WF_vars(Next)`. The code is one sequential call that never waits, so a step
that can be taken is taken; nothing stronger is assumed. For the search of
cycles no fairness among the neighbours is needed either: each is taken from a
set that only shrinks.

`MCMonomorphise`, `MCClosures` and `MCCalls` check for deadlock: the only state
that may last is the end, which has a step of its own (`Stop`), so a phase that
has no step would be reported. The other configurations say `CHECK_DEADLOCK
FALSE` because a compilation and a pass end; `Terminates` and `SearchEnds` show
that the end is the intended one.

## Proofs

`ImportAnalysisProofs` proves, for every finite or infinite set of files, every
set of programs over them and every order of their `use`s:

- `TypeCorrect`: `Spec => []TypeOK`;
- `GraphStaysAcyclic`: `Spec => []ImportGraphAcyclic`;
- `NoFileIsReentered`: `Spec => []NoReentry`, which bounds the depth of the
  recursion by the number of files;
- `FinishedStaysFinished`: `Spec => []AnalyzedOnce`, no analyzer runs on a
  finished file;
- `BuildsInDependencyOrder`: `Spec => BuildsInOrder`, the refinement of
  `ModuleBuild`.

The assumptions are the three that the modules declare: the entry module is not
one of the files (`RootIsNoFile`), the value for "no file" is none
(`NoFileIsNoFile`), and the programs are records of the right type
(`ProgramsAreTyped`). TLC evaluates them in the runs.

The inductive invariant is `IInv`: the types, and

- `Links`: the stack is a path of the import graph. Each analyzer waits for the
  file that its current `use` names, over an edge that is in the graph, so each
  frame reaches every frame above it. `NoReentry` is not inductive without it:
  that the new file is not on the stack follows because a file on the stack
  reaches the innermost one, and `UseCyclic` would have refused the edge;
- `Acyclic`: the graph has no cycle. With `Links` it gives `NoReentry`;
- `AnalyzedOnce`: a file on the stack is not in the cache. A file enters only
  when the cache does not hold it, and it could be cached while on the stack
  only by a second analyzer of the same file;
- `Provided`: every `use` behind a frame's position, as long as the frame has no
  error, names a cached file. This is what makes `FinishModule` a step of
  `BuildFile`.

`Reaches` is defined by closed sets (`y` is in every set that holds `x` and is
closed under the edges), not by paths. A proof that something is not reachable
then gives one set, and the lemma that a new edge closes no cycle
(`AcyclicExtended`) needs no induction: an intersection or a union of two closed
sets is closed.

`ImportSoundnessProofs` goes on from `IInv`, for the same constants:

- `AcceptedProgramsAreSound`: `Spec => []AcceptedIsSound`. The invariant is
  `SInv`: a frame without an error has an edge in the graph for each `use`
  behind it (`EdgesBehind`), and every finished file, and the entry module once
  accepted, is `Clean`: it has no fault of its own, all that it uses is
  finished, and its edges are in the graph. On acceptance the entry module and
  the finished files are then a set closed under the `use`s of the source, so
  every module in reach is in it and is clean; a cycle among them would be a
  cycle of the graph, which is acyclic;
- `NoErrorIsLost`: `Spec => ErrorsAreKept`. Each action is shown to be an
  `ErrorStep`: the errors of all frames together only grow, and what is new is
  found by that action. An analyzer that ends hands its list down, and one that
  ends without an error has none to lose;
- `ReportedCyclesAreReal`: `Spec => []CyclesAreReal`. By `CInv` the graph never
  holds an edge that is not a `use` of the source, so a path that the search
  finds is a path of the source;
- `EveryFileHasOneId` and `FinishedFilesStay`: `Spec => []OneIdPerFile` and
  `Spec => FinishedIsStable`. An analyzer that finishes is not in the cache
  (`AnalyzedOnce`), so it overwrites nothing;
- `FilesAreTakenOnce`: `Spec => []EachFileOnce`, what the run checks: the three
  facts `NoFileIsReentered`, `FinishedStaysFinished` and `EveryFileHasOneId`
  together;
- `ImportsAreNeverMissing`: `Spec => []NoInternalError`. By `OInv` the origin of
  every name in every table is a finished file, also when it came through the
  re-exports of others, so the lowering finds the module that it looks up.

`ImportNamesProofs` is about names, paths and verdicts, for the same constants:

- `RejectionsAreCaused`: `Spec => []RejectedHasCause`. By `BInv` every error of
  every analyzer has a cause in the source, in a module that the entry module
  reaches: a frame on the stack is in reach by `Links` and `CInv`, and an edge
  that the search refuses is a cycle of the source;
- `EntryNamesItsFiles`: `Spec => []EntryPathWins`. By `EInv` the path of a file
  is the one of the last `use` of the entry module that was registered and names
  it, whoever met the file first: an analyzer of another file registers a path
  only for a file that has none, and a file that the entry module named has one;
- `ImportedItemsAreLinked`: `Spec => []ImportedItemsLinked`. `TInv` says of
  every table, of finished files and of those on the stack, that each of its
  items is one of its own file or of a linked one, with the right origin for a
  name that no table merged, and that the items of the file of every origin are
  among the linked items. What `import_symbol` hands on through a re-export is
  then right one file further.

`ImportedItemsAreLinked` rests on one more assumption, `ItemsAreAtHome`: the
items that a program lists for a file carry the file as their home. That is how
the model writes down where an item was defined.

- `ExportsAreThoseOfTheSource`: `Spec => []ExportsMatchSource`, for finitely
  many files that are plain (`PlainFiles`): no file has a type of the name of a
  function of its own, or brings an item of an inline module out by a `use`.
  These are two shapes in which the code says something else on its own account
  (`semantic/symbol_table/mod.rs:163` and 334, under [Findings](#findings)); the
  programs of `imports_names` are plain, which TLC evaluates (`MCPlainFiles`).

`ExportsMatchSource` follows `pub use` in as many rounds as there are files, and
the code in as many recursions as the chain has. The invariant `NInv` has both
sides. `FramesBound`: an analyzer without an error has, of every name, what the
first `use` behind its position that offers the name brings, for the tables of
the cache. `Foreseen`: a finished file exports, of each name that no table
merged, what the source says after *any* number of rounds from the number of
finished files on. A file that finishes uses finished files only, so one round
more than theirs is enough for it, and the count of finished files grows by one.
A cycle of `pub use` would need a file that waits for itself; such a file never
finishes, and nothing is said of it.

`CircularProofs` proves about the search for cycles, for every set of files
whose types name types (`FilesAssumption`) and every order in which keys and
neighbours are taken:

- `TypeCorrect`: `Spec => []TypeOK`;
- `ReportsAreReal`: `Spec => []CyclesAreReal`;
- `AcceptedMeansOrdered`: `Spec => []AcceptedIsOrdered`. An order in which each
  name comes after all it depends on is the certificate that there is no cycle.

The inductive invariant is again called `IInv`. `AcceptedIsOrdered` speaks of
the end of the search, so it says nothing in the middle; `EndedIsOrdered` is the
same fact for the names that have returned, at any time. It is kept by `Return`
because of `TakenIsSettled`: while no cycle is found, a neighbour that an open
call has taken either returned or is the next call on the stack, and the top
call has no next one. That in turn needs `VisitedIsOpenOrEnded` (a neighbour
that `PassBy` skips is not on the stack, so it returned) and `StackIsWalk` (each
call is made for a neighbour of the one below), which is also what makes the
part of the stack that `CycleTo` cuts out a walk, for `CyclesAreReal`. The
errors that `EndPass` reports are these cycles.

Two more theorems say that the verdicts are the right ones, not of the graph but
of the file:

- `TypeVerdicts`: `Spec => []TypeVerdictIsExact`, a type pass without a cycle
  means that every type has a finite size, and one with a cycle that one has
  none;
- `LetVerdicts`: `Spec => []LetVerdictIsExact`, the same for the lets and the
  order of their evaluation, with every chain of calls in between.

`Sized` and `Evaluable` are least sets, so each direction gives one set and
needs no induction over rounds. Without a cycle, the order of
`AcceptedMeansOrdered` is well-founded, and the first name in it outside a
closed set cannot exist. With one, the names on the cycle are left out by a
closed set: the complement of the cycle. For lets, the functions in between are
`ReachedCalls`, a least set too, against `Within`, a greatest one
(`GraphOfPhase` says that the graph that is searched is the one of the file).

`RankProofs` has the lemmas on `Ranks`, for every set of positions: ranks of
kept positions are the numbers from one to how many there are (`RankType`,
`RankInjective`, `RankOnto`), in order (`RankOrder`), and the element at a new
position is the one that was at the old (`KeptAt`, `KeptFrom`). The induction
they need is over sets of numbers (`LeastNumber`, `EveryNumber`), from the
library's facts about finite sets.

`LinkingProofs` proves `LinkingCopiesAreExact`: `Spec => []CopiesAreExact`, for
every number of files, every prelude, every set of programs and every order of
the modules. The inductive invariant `IInv` says of each module:

- `Whole`, of every finished module and of the one at work until its own items
  come: it has as many items of each kind as the prelude and its origins
  together, no origin twice (`Once`), each item has a file of the table, the one
  of its origin (`Spans`), and the origins are finished modules (`From`);
- `StartsWithItself`: the module at work is the first of its own files and none
  of the finished ones. So no item that `finish_module` gives an origin to has
  that origin already, and file 1, which lowering writes into every span, is the
  right one;
- `HalfDone`, after `lower_file`: own items have no origin yet, and stand behind
  the ones that do.

The step that matters is `LinkDep` (`LinkIntoWhole`): the copies of `Fresh`
items come behind the others in the order of their ranks, so each gets the place
of its origin (`LinkIntoShape`), and an origin is in the target before or among
the fresh ones, never both (`LinkIntoOnce`). A diamond, where a module comes
over several imports, needs nothing more. The renaming of the entry module and
the late binding of calls rewrite names and calls only (`Rewritten`).

`LinkingTypesProofs` builds on it, for every program that the analysis accepts:

- `LinkingTypesKeepTheirMeaning`: `Spec => []TypesKeepTheirMeaning`;
- `LinkingShortNamesAreLent`: `Spec => []ShortNamesAreLent`, a finished module
  has hidden names only;
- `LinkingNamesStayUnique`: `Spec /\ PathsAreClear => []NamesStayUnique`, and in
  no module, finished or not, do two items share a name that should tell them
  apart.

`TypesKeepTheirMeaning` alone is not inductive: that a type of an own item gets
the right id depends on the names that the other items have while the module
lowers, and those depend on the names that finished modules give them. The
invariant `MInv` therefore has, next to `IInv`:

- `Complete`, of every finished module: each id is right (`TypesRight`), each
  origin is a definition (`Defs`), each item has the name under which the other
  modules know it (`HasHiddenNames`), and each struct of the module is there
  (`Holds`). Without `Holds` an importer could miss the struct that its path
  means, and bind the path further out;
- of the module at work: the same, but `Holds` for the imports that are linked
  already, and from `alias_imports` on the short names (`HasShortNames`) with
  the hidden ones on the side (`Hide`);
- after `lower_file`, `Complete` of what `finish_module` will make of it.

Two steps matter. In `LinkDep` a translated id has the origin that it had
(`MovedIdMeansTheSame`), in the three cases of `IdTable`: an id of the prelude,
a new item, an item that is there. In `LowerOwn` the name that a path is looked
up by is one of a struct that the path means at the top level (`NameMeans`), and
each of those has that name (`MeaningIsThere`): so the innermost module for
which `scoped_type_name` finds something is the innermost one that has it
(`TypeIdMeans`).

For names, the invariant `UInv` adds to `MInv` that every item is `Lawful`: its
origin is a definition of its module, and a function has that definition's
labels. It says so of finished modules, of the module at work, and of what
`finish_module` will make of it. Then two items of one name are two definitions
that one path means at the top level of one module, which `NoClashes` excludes
(`MeansOnce`). What that module is depends on the names of the moment:

- hidden names carry it (`HiddenApart`);
- short names, between `alias_imports` and `finish_module`, are those of the
  module at work: an imported item has one only if the source imports it, and
  any other item of its name is hidden (`ShortNamesMean`, `LoweredNoneAlike`);
- final names, after `finish_entry`, carry a prefix of the file. Of files with
  one path only the first goes without the mark of its id (`PlainApart`,
  `LaterIsMarked`); for files with different paths `NoFileInAnother` is what is
  needed (`FilesApart`), and the program `FileInAnother` of `MCLinking` shows
  that it is.

`DeadCodeProofs` proves the four invariants of dead code elimination, for every
set of modules that fulfils the assumptions above, of any size; the first three
provided that no parameter default calls a method (`NoDefaultCalls`):

- `RewritingKeepsEveryMeaning`: `Spec => []IdsKeepTheirMeaning`;
- `RemovalKeepsWhatIsNeeded`: `Spec => []NothingNeededGoes`;
- `RoundsLeaveNothingUnused`: `Spec => []NoUnusedDefinitionStays`;
- `BlocksDoWhatTheyDid`: `Spec => []SameBehaviour`.

The first three speak of the ids that are there; none of them is inductive. The
inductive invariant is `IInv`, with

- `ModuleIn`: every item of the module comes from one of the source, in order,
  is well formed (`DefIn`, `ImplIn`, `CallableIn`, `LetIn`, `BlockIn`), and what
  it refers to is right. It also keeps three things that no property mentions
  and that the next round needs: a call's branch names the types that its impl
  is for in the *source* (the analysis marks types and never calls, so this is
  what makes an impl stay as long as something calls it, `CallsAreKept`); an
  impl is for what it was for; a binding that is read by its name has the name
  of its origin, so it is not taken for unread;
- `PublicStay`, `ImplsStay`, `LetsStay`: what may not go, round by round. Before
  the branches of constant conditions are collapsed, what keeps a binding is a
  branch that is certain to be taken (`Certain`), and afterwards any effect
  (`Effective`);
- `rounds > TotalOf(ir)` while the rounds go on: each round that does not end
  the loop has removed a definition (`RoundCounts`), so when the bound is used
  up no definition is left, and nothing is unused;
- `used = Analyzed` between the analysis and the removal, and at the end
  `AllMarked`: a round that removes nothing leaves the module *as it was*, every
  rank being the position itself (`SameModule`), so the analysis it was judged
  by is also one of the result.

The step that matters is `Remove`. What the analysis marks is closed under
reference (`BaseMarksItems`), except that the traits of impls come from the one
walk in order (`mark_used_in_impl`). That walk adds only traits, and no impl is
for a trait, so whether an impl stays does not depend on it and the walk misses
none (`AnalyzedMarks`; it needs `IsMonomorphic`, and is wrong without it). Then
each kept item is at its rank, each id of one is its rank too (`RefMoves`,
`CallMoves`), and the bounds that are dropped are none.

`SameBehaviour` has an invariant of its own, `BInv`: each body, default and
binding value does what the one in the source does that it came from
(`Behaves`), and until the locals are removed each block ends in its result.
Three steps change blocks. Collapsing takes the branch that runs, under any
outcome of the open conditions (`CollapseKeepsOutcome`). Removing a local
compares two runs of different lengths, statement by statement: the walk from
the end knows of every name that is read behind a statement (`WalkKnows`), so
where the run of the short block has no value for a name, nothing that follows
asks for one (`LocalsKeepOutcome`). And rewriting ids changes no read and no
effect (`RebranchedKeepsOutcome`, `MovedBehaves`). Nothing of it needs what the
ids mean, so it holds with a method call in a default too.

`StepsExist` (in `RankProofs`) says that a function that is defined step by step
along the numbers exists, `WalkExists` and `UpToExists` that the recursive
functions of the model are such. The induction of these proofs is over sets of
numbers (`EveryNumber`), never over an operator.

Only checked, not proved: `Terminates` and `SearchEnds` (liveness is out of the
prover's reach); in `Linking`, what calls mean (`CallsKeepTheirMeaning`), which
does not hold for every program (see below) and would need the programs that are
left out as further assumptions; and everything about the bodies, `Calls`,
`Monomorphise`, `Closures` and `Folding`. Those modules walk trees with
`RECURSIVE` operators or fold the code's lists (`DefineAll`): what such a
definition computes for every input would need induction over data, which the
provers do not have for operators. Where the model has recursive functions along
a sequence instead, sets of numbers do, as above.

## Findings

Each is a run that TLC ends with a counterexample; `PROJECT.json` quotes the
line of the documentation.

| Run | The code | It is said |
| --- | --- | --- |
| `module_let_capture` | a closure's capture of a module let gets the id 0, the id of the first parameter, and the lifted function reads the let where it means the parameter (`ir/resolve_refs/expr.rs:226`) | a returned closure can capture a module `let` (`docs/user/closures.md:140`) |
| `lost_arguments` | a call with one positional and one labelled argument that leaves a default out is lowered without its arguments (`ir/lower/expr/literals_and_containers/invocation/function_call.rs:166`) | labels and positions may be mixed (`docs/user/functions.md:43`, 47) |

### Seen while modelling, without a run

What the models do here is what the code does; the runs take programs that avoid
it, or the properties are stated so that it is allowed. Each is a note for the
owners of the code. Where a document, a comment or a test says something else,
its place follows.

Imports and names:

- a plain `use` of an item of the file's own inline module leaves the item
  importable from the file (`semantic/symbol_table/mod.rs:334`;
  `docs/user/modules.md:113`);
- a function that is defined in a file that imports its name is merged with the
  imported ones as an overload (`semantic/symbol_table/insert.rs:262`;
  `tests/suite/mined_modules.rs:360`);
- a type may have the name of a function that is defined before it
  (`semantic/symbol_table/mod.rs:163`; `docs/user/structs.md:171`);
- the analyzer searches the cached tables for overloads in the order of a hash
  map (`semantic/validation/invocation/mod.rs:46`).

Linking:

- a file `one` with an inline module `two` and the file `one/two` lead to the
  same final names: `choose_prefixes` compares the paths of whole modules
  (`ir/link/names.rs:67`). "Two modules cannot share a path", says its line 32,
  and `rebuild_indices` asserts that struct names are unique
  (`ir/module/core.rs:253`). With `Programs <- FileInAnother` (in `MCLinking`)
  TLC finds `NamesStayUnique` violated once the entry module is renamed;
- a call by a qualified path takes the first overload
  (`ir/lower/expr/literals_and_containers/invocation/function_call.rs:43`;
  `docs/user/functions.md:330`);
- a call inside an inline module takes the function of the top level when the
  module's own comes later (`ir/lower/scope_lookup.rs:60`, against its line 67);
- calls in the impls of an inline module and in field defaults are looked up
  under the module of the type's new name or without a module
  (`ir/link/rename.rs:86`).

Ownership and sequences:

- a name that is bound again inside a block, by a loop, a closure or a match,
  forgets at the end of the block that the outer binding was given away
  (`semantic/validation/let_expr_and_block.rs:326`);
- an assignment in a block brings a binding back inside that block only;
- binding a sequence again in one scope drops the unread one; assigning to a
  sequence counts as reading it;
- names of loops, matches and closure parameters are not bound in the walk over
  sequences (`semantic/validation/sequence_linear.rs:40`);
- a closure without captures can be called after it was given away; the captures
  of a captured closure are not followed; a closure that drives an outer
  sequence may be called twice; the sink of an indexed element is not recorded;
  the `sink`s of methods and of closure values are not asked for an owner
  (`semantic/validation/method_call/mod.rs:366`, 413, 456;
  `docs/user/functions.md:221`).

Circular definitions:

- types in inline modules are not searched (`semantic/circular.rs:77`); lets
  that a method reads are not found;
- a local let, or a type parameter, that has the name of a module let or of a
  type counts as that one, so a cycle can be reported where there is none.

Calls:

- a call takes the only overload lowered so far (`ir/lower/scope_lookup.rs:76`),
  chooses among those lowered so far by labels and count when the recorded one
  is not among them, and takes the first of the name when there is none yet
  (`ir/resolve_refs/walkers.rs:26`), whatever the analyzer chose. "The compiler
  selects the right overload at each call site", says
  `docs/user/functions.md:330`. With `TheBestFitIsAlwaysCalled` (in
  `CallMeaning`) as the invariant of `MCCalls.cfg`, TLC finds such a file;
- methods compare types before labels
  (`semantic/validation/method_call/choice.rs:27`), and of two methods that fit
  alike the first is called in silence;
- a call of an overloaded function skips `validate_call_shape`, so a required
  parameter may be left without a value (`call_shape.rs:3`);
- an external label, next to a default that is left out, loses its argument;
- a call before its callee gets no default when it has labels, and its defaults
  are put in as they are, without hidden lets for the parameters that they read
  (`ir/resolve_refs/mod.rs:128`, 191);
- methods of one name in two impl blocks are all looked for in the first
  (`ir/lower/expr/literals_and_containers/invocation/dispatch.rs:155`);
- a default that reads a module let is resolved in the scope of the caller.

Monomorphisation:

- a method call in the default of a parameter keeps the old index of its impl
  (`ir/monomorphise/impl_index.rs:33`;
  `docs/developer/architecture/passes.md:208`), and one in a generic function
  the id of the generic impl (`ir/monomorphise/mod.rs:427` against
  `rewrite.rs:172`);
- a type with three levels of generic structs or enums ends in an internal error
  (`rewrite.rs:139`): inner types are rewritten before the outer one is looked
  up, the table has the types as they were written, and there are two rounds. So
  does one with two levels that only the body of a generic function or method
  spells out. `docs/user/generics.md:197` and
  `docs/developer/architecture/passes.md:64` refuse beyond 32 levels only. With
  `OnlyDeepTypesAreRefused` (in `MonoMeaning`) as the invariant of
  `MCMonomorphise.cfg`, TLC finds such a program. A type on two levels is copied
  twice, and one of the copies is not used;
- a prelude carrier in a field of an instance is copied: the first round does
  not filter what a copy brings up (`mod.rs:324`, against `mod.rs:18` and 264,
  `compact.rs:31` and `docs/developer/architecture/passes.md:58`: the carriers
  "stay generic"). `Box<[I32]>` turns `[I32]` into `Array__I32` in the whole
  module. With `CarriersStayGeneric` (in `MonoMeaning`) as the invariant, TLC
  finds it after the pass. The late round filters (`mod.rs:413`);
- in a generic body, a call without `<...>` binds the callee's type parameter to
  the caller's one of the same name (`function_call.rs:271` against
  `operators.rs:187`);
- the call of an overload can keep an old id after compaction
  (`call_ids.rs:78`); `impl Box<T>: Container<T>` keeps an old trait id; a call
  of `m::id` as `id` inside `m` is not specialised; calls in the impl clones of
  the second round are not either.

Closures and folding:

- a parameter or let named `__env`, and an inline module's function named
  `__call_Fn0`, take the place of the invented ones
  (`ir/defunctionalise/synthesis.rs:119`);
- the walk over a module skips the defaults of parameters and of enum variants
  (`ir/visitor.rs:106`), and folding skips those of parameters;
- the closure types in trait signatures are not rewritten;
- folding `if false {1} else {nil}` changes the type of the node.

Dead code elimination:

- a method call in the default of a parameter keeps the old position of its impl
  when an impl before it goes (`ir/dce/remap/impl_index.rs:33`;
  `docs/developer/architecture/passes.md:208`). No module of the run has such a
  call; with `Modules <- ModulesWithDefaultCalls` (in `MCDeadCode`) TLC finds
  `IdsKeepTheirMeaning` violated after the first round;
- a binding that only a removed impl reads stays (`ir/dce/mod.rs:366`;
  `docs/developer/architecture/passes.md:205`);
- the constraints of a generic function are neither marked nor rewritten; the
  traits of impls are marked in one walk, so that an earlier impl of a type that
  a later impl makes live keeps the old id of a generic trait's argument (both
  only before monomorphisation).

## What is not modelled

- The lexer, the grammar and recovery after an error: functions of the text. The
  limit on nesting (`parser/nesting.rs`) is a hazard without a property: its
  score and the depth of the parser are both functions of the token list, and a
  model of the one without the grammar of the other would say nothing.
- Type checking and inference (`semantic/inference`, `type_resolution`, the rest
  of `validation`): small rules over a syntax tree with little state. They
  appear where two parts must agree: `Calls` for overloads, `GenericTypes` for
  what lowering gives a generic call.
- Where a sequence type may stand (`sequence_placement.rs`).
- The monomorphisation of external modules: the linker leaves one module without
  external types, so a program that comes through the entry points never gets
  there.
- The loop of the pipeline, which runs its passes in order and stops at the
  first error: each pass is modelled from the modules that the one before
  leaves.
- Calls on type names, through trait bounds and with type parameters in `Calls`;
  they are in `Monomorphise`, without overloads.
- The editor queries, errors, reporting, the command line, the search for files:
  read-only, text or I/O.

`PROJECT.json` has a row for each part, and a note at each hazard that no
property covers.
