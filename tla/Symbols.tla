------------------------------ MODULE Symbols ------------------------------
(***************************************************************************)
(* The symbol table of one module: src/semantic/symbol_table.              *)
(*                                                                         *)
(* A table is a record of three parts:                                     *)
(*   syms       the symbols it holds, one record for each definition;      *)
(*   origin     for a name, the file it was imported from, or NoFile when  *)
(*              the name is local (`module_origins`);                      *)
(*   reexports  the names that a `pub use` exports again.                  *)
(*                                                                         *)
(* The per-kind maps of the source (structs, traits, enums, lets, modules) *)
(* behave alike in every operation below, so a symbol is either a function *)
(* (it has a signature, and functions overload) or one of those ("type").  *)
(***************************************************************************)
EXTENDS Naturals, Sequences

CONSTANTS Files,    \* the module files a `use` can name
          Root,     \* the entry module, "<root>" in the source
          Names,    \* the names of items
          Sigs,     \* the parameter signatures of functions
          NoSig,    \* the signature of a symbol that is no function
          NoFile    \* "no file": a local name, or a path no file matches

ASSUME RootIsNoFile == Root \notin Files
ASSUME NoFileIsNoFile == NoFile \notin Files \cup {Root}

Modules == Files \cup {Root}

\* One definition: where it was written, and whether inside an inline `mod`.
Symbol == [name : Names, sig : Sigs \cup {NoSig}, pub : BOOLEAN,
           home : Modules, inner : BOOLEAN]

Table == [syms : SUBSET Symbol,
          origin : [Names -> Files \cup {NoFile}],
          reexports : SUBSET Names]

NewTable == [syms |-> {}, origin |-> [n \in Names |-> NoFile], reexports |-> {}]

IsFn(s) == s.sig # NoSig

Named(t, n) == {s \in t.syms : s.name = n}

\* `get_symbol_kind(name).is_some()`: any kind, functions included.
Has(t, n) == Named(t, n) # {}

\* Mutant: a plain import leaves the module again.
ExportableAlways(t, n) == TRUE

\* `is_exportable`: a local name, or one that a `pub use` exports again.
Exportable(t, n) == t.origin[n] = NoFile \/ n \in t.reexports

\* A name counts as public when any of its definitions is.
Public(t, n) == \E s \in Named(t, n) : s.pub

\* `all_public_symbols`.
PublicNames(t) == {n \in Names : Public(t, n) /\ Exportable(t, n)}

-----------------------------------------------------------------------------
(* Definitions of the module itself. *)

\* `define_function` looks at every other kind, and at the overloads of the
\* name.  The other `define_*` ask `find_any`, which leaves functions out.
Clashes(t, d) ==
    \E s \in Named(t, d.name) :
        \/ ~IsFn(s)
        \/ IsFn(d) /\ s.sig = d.sig

\* The table with the first k definitions of the module in it.  A definition
\* that clashes is reported and left out, and a module with an error never
\* gives its table to anyone, so the table matters only when none clashes.
DefineFirst(t, defs, k) == [t EXCEPT !.syms = @ \cup {defs[i] : i \in 1..k}]
DefineAll(t, defs) == DefineFirst(t, defs, Len(defs))

\* Whether pass 1 reports a DuplicateDefinition: some definition clashes with
\* what the table holds when its turn comes.
AnyClash(t, defs) ==
    \E i \in DOMAIN defs : Clashes(DefineFirst(t, defs, i - 1), defs[i])

-----------------------------------------------------------------------------
(* Importing names from another table. *)

\* The definitions that `SymbolTable::import_symbol` takes for a name: it
\* asks for the functions of the name last.
Offered(from, n) ==
    LET types == {s \in Named(from, n) : ~IsFn(s)}
    IN  IF types # {} THEN types ELSE Named(from, n)

\* It refuses a name that is missing, private or not exportable.
Importable(from, n) == (\E s \in Offered(from, n) : s.pub) /\ Exportable(from, n)

\* The names that one `use` asks for: a glob asks only for names that the
\* table lacks.
Wanted(t, from, use) ==
    IF use.glob THEN {n \in PublicNames(from) : ~Has(t, n)} ELSE use.names

Brought(t, from, use) ==
    {n \in Wanted(t, from, use) : ~Has(t, n) /\ Importable(from, n)}

\* The names of a `use` that end in an error.
Refused(t, from, use) == Wanted(t, from, use) \ Brought(t, from, use)

\* Mutant: the re-exporting file counts as the origin.
OriginNearest(from, n, file) == file

\* A re-export keeps the file that defines the item as its origin.
OriginOf(from, n, file) ==
    IF from.origin[n] = NoFile THEN file ELSE from.origin[n]

\* `import_use_items`: only public overloads come along, and a `pub use`
\* marks each name it asks for, imported or not.
ImportUse(t, from, use, file) ==
    LET new == Brought(t, from, use)
    IN  [syms |-> t.syms \cup {s \in UNION {Offered(from, n) : n \in new} : s.pub},
         origin |-> [n \in Names |-> IF n \in new THEN OriginOf(from, n, file)
                                                  ELSE t.origin[n]],
         reexports |-> IF use.pub THEN t.reexports \cup Wanted(t, from, use)
                                  ELSE t.reexports]

\* `alias_local` for the names of several `use`s of the file's own inline
\* modules, whose items are `inner`.  An item keeps no origin, and the
\* visibility of the `use` is not recorded.
AliasAll(t, inner, names) ==
    [t EXCEPT !.syms = @ \cup {s \in inner : s.name \in names /\ s.pub}]

\* A name that the table has already, or that is no public item.
AliasRefused(t, inner, n) ==
    Has(t, n) \/ ~\E s \in inner : s.name = n /\ s.pub
=============================================================================
