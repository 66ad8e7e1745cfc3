------------------------------ MODULE Circular ------------------------------
(***************************************************************************)
(* Pass 5 of the semantic analyser: circular definitions.                  *)
(*                                                                         *)
(* The pass builds a graph of the types of the file, then one of its       *)
(* module lets, and searches each for cycles, depth first, from every      *)
(* key in the order of a hash map and over the neighbours in the order of  *)
(* a hash set (semantic/circular.rs, semantic/type_graph.rs).  Both orders *)
(* are arbitrary here.  One step is one turn of the recursive search: a    *)
(* call, a neighbour, or a return.                                         *)
(***************************************************************************)
EXTENDS Integers, Sequences, FiniteSets

CONSTANTS
  Files,        \* the files to analyse
  TypeNames,    \* the names of types
  LetNames      \* the names of module lets

(***************************************************************************)
(* A file has definitions, lets and functions.                             *)
(*   types     : a function from the types it defines to                   *)
(*     [kind, parents, mentions]: the parents of a trait, and every place  *)
(*     where the type of a field names a type, as [under, name]: the       *)
(*     wrappers around the name (outermost first) and the name;            *)
(*   lets      : a function from its lets to the places of their value     *)
(*     that read a let or call a function, as [reads, calls];              *)
(*   functions : a function from its functions to the overloads with a     *)
(*     body, each [params, reads, calls].                                  *)
(***************************************************************************)
Wrappers == {"optional", "tuple", "argument", "closure", "array", "dictionary"}

\* Mutant: the walk looks into arrays and dictionaries as well.
LooksIntoArrays(mentions) == {m.name : m \in mentions}

\* An array and a dictionary hold their elements out of line: the walk over
\* a field type stops there, and looks into every other wrapper.
AddTypeDependencies(mentions) ==
  {m.name : m \in {x \in mentions :
     \A i \in DOMAIN x.under : x.under[i] \notin {"array", "dictionary"}}}

\* A key of the graph is a name with a dependency: one without has no entry.
Entries(graph) == [n \in {k \in DOMAIN graph : graph[k] # {}} |-> graph[n]]

TypeGraph(f) ==
  Entries([t \in DOMAIN f.types |->
    (IF f.types[t].kind = "trait" THEN f.types[t].parents ELSE {})
      \cup AddTypeDependencies(f.types[t].mentions)])

\* What an expression refers to: the names the table of lets knows, and a
\* call node for each function it knows.
LetReferences(f, value) ==
  [reads |-> value.reads \cap DOMAIN f.lets,
   calls |-> value.calls \cap DOMAIN f.functions]

\* Mutant: a parameter hides nothing.
ParametersHideNothing(f, name) ==
  [reads |-> UNION {LetReferences(f, b).reads : b \in f.functions[name]},
   calls |-> UNION {LetReferences(f, b).calls : b \in f.functions[name]}]

\* A parameter hides a module let of its name; overloads share one node.
FunctionReferences(f, name) ==
  LET bodies == f.functions[name]
  IN  [reads |-> UNION {LetReferences(f, b).reads \ b.params : b \in bodies},
       calls |-> UNION {LetReferences(f, b).calls : b \in bodies}]

\* The call nodes reached from a set of them: the smallest set that holds
\* them and the calls of its own functions.
ClosedCalls(f, G) == \A g \in G : FunctionReferences(f, g).calls \subseteq G
ReachedCalls(f, calls) ==
  {g \in DOMAIN f.functions :
     \A G \in SUBSET DOMAIN f.functions :
       calls \subseteq G /\ ClosedCalls(f, G) => g \in G}

\* A call node stands for the lets that the call reads, at any depth.
ExpandCalls(f, refs) ==
  refs.reads \cup UNION {FunctionReferences(f, g).reads :
                           g \in ReachedCalls(f, refs.calls)}

LetGraph(f) ==
  Entries([l \in DOMAIN f.lets |->
             ExpandCalls(f, LetReferences(f, f.lets[l]))])

\* The types of a file name types, and it has lets of its names.
ASSUME FilesAssumption ==
  \A f \in Files :
    /\ DOMAIN f.types \subseteq TypeNames
    /\ DOMAIN f.lets \subseteq LetNames
    /\ \A t \in DOMAIN f.types :
         /\ f.types[t].parents \subseteq TypeNames
         /\ \A m \in f.types[t].mentions : m.name \in TypeNames

-----------------------------------------------------------------------------
VARIABLES
  file,       \* the file
  phase,      \* "types", "lets" or "done": the graph that is searched
  edges,      \* the graph
  visited,    \* the names a call of the search was made for
  path,       \* the open calls: the name and its neighbours still to look at
  finished,   \* the names whose call returned, in that order (history)
  cycles,     \* the cycles found in this graph
  errors      \* the errors of the file

vars == <<file, phase, edges, visited, path, finished, cycles, errors>>

Neighbours(n) == IF n \in DOMAIN edges THEN edges[n] ELSE {}

Init ==
  /\ file \in Files
  /\ phase = "types"
  /\ edges = TypeGraph(file)
  /\ visited = {} /\ path = <<>> /\ finished = <<>> /\ cycles = {} /\ errors = {}

\* A call of the search: it marks the name and puts it on the stack.
Enter(n, below) ==
  /\ visited' = visited \cup {n}
  /\ path' = Append(below, [node |-> n, left |-> Neighbours(n)])

Start ==
  /\ phase # "done" /\ path = <<>>
  /\ \E n \in DOMAIN edges \ visited : Enter(n, path)
  /\ UNCHANGED <<file, phase, edges, finished, cycles, errors>>

Top == path[Len(path)]
\* Mutant: only the top call is taken to be on the stack.
OnlyTop == {path[i].node : i \in {Len(path)}}
OnPath == {path[i].node : i \in DOMAIN path}

\* Mutant: the neighbour that was looked at is not taken.
NotTaken(m) == path

\* The open calls once the top one has taken a neighbour.
Taken(m) == [path EXCEPT ![Len(path)].left = @ \ {m}]

\* Mutant: the walk is not closed.
WalkNotClosed(m) ==
  LET start == CHOOSE i \in DOMAIN path : path[i].node = m
  IN  [i \in 1 .. Len(path) - start + 1 |-> path[start + i - 1].node]

\* The part of the stack from m to the top, closed by m again.
CycleTo(m) ==
  LET start == CHOOSE i \in DOMAIN path : path[i].node = m
  IN  Append([i \in 1 .. Len(path) - start + 1 |-> path[start + i - 1].node], m)

CloseCycle ==
  /\ path # <<>>
  /\ \E m \in Top.left \cap OnPath :
       /\ cycles' = cycles \cup {CycleTo(m)}
       /\ path' = Taken(m)
  /\ UNCHANGED <<file, phase, edges, visited, finished, errors>>

Descend ==
  /\ path # <<>>
  /\ \E m \in Top.left \ OnPath : m \notin visited /\ Enter(m, Taken(m))
  /\ UNCHANGED <<file, phase, edges, finished, cycles, errors>>

PassBy ==
  /\ path # <<>>
  /\ \E m \in Top.left \ OnPath : m \in visited /\ path' = Taken(m)
  /\ UNCHANGED <<file, phase, edges, visited, finished, cycles, errors>>

Return ==
  /\ path # <<>> /\ Top.left = {}
  /\ finished' = Append(finished, Top.node)
  /\ path' = SubSeq(path, 1, Len(path) - 1)
  /\ UNCHANGED <<file, phase, edges, visited, cycles, errors>>

PassOver == path = <<>> /\ DOMAIN edges \subseteq visited

\* The cycles of a graph become errors; the lets follow the types.
EndPass ==
  /\ phase # "done" /\ PassOver
  /\ errors' = errors \cup {[in |-> phase, cycle |-> c] : c \in cycles}
  /\ phase' = IF phase = "types" THEN "lets" ELSE "done"
  /\ edges' = IF phase = "types" THEN LetGraph(file) ELSE edges
  /\ visited' = {} /\ path' = <<>> /\ finished' = <<>> /\ cycles' = {}
  /\ UNCHANGED file

Next == Start \/ CloseCycle \/ Descend \/ PassBy \/ Return \/ EndPass

Spec == Init /\ [][Next]_vars /\ WF_vars(Next)

-----------------------------------------------------------------------------
Names == TypeNames \cup LetNames

\* Every state of the search is well formed.
TypeOK ==
  /\ file \in Files
  /\ phase \in {"types", "lets", "done"}
  /\ DOMAIN edges \subseteq Names
  /\ \A n \in DOMAIN edges : edges[n] \subseteq Names
  /\ visited \subseteq Names
  /\ path \in Seq([node : Names, left : SUBSET Names])
  /\ finished \in Seq(Names)
  /\ cycles \subseteq Seq(Names)

\* Every cycle the pass reports is one: a walk along the edges of the graph
\* that comes back to where it starts (circular.rs: the errors of 5.1, 5.2).
CyclesAreReal ==
  \A c \in cycles :
    /\ Len(c) > 1 /\ c[1] = c[Len(c)]
    /\ \A i \in 1 .. Len(c) - 1 : c[i + 1] \in Neighbours(c[i])

\* A graph in which no cycle was found is ordered: the search has returned
\* from every name after all the names it depends on (type_graph.rs,
\* find_cycles).  So a type can be laid out, and a let evaluated.
AcceptedIsOrdered ==
  PassOver /\ phase # "done" /\ cycles = {} =>
    \A n \in DOMAIN edges : \E i \in DOMAIN finished :
      /\ finished[i] = n
      /\ \A m \in edges[n] : \E j \in 1 .. i - 1 : finished[j] = m

-----------------------------------------------------------------------------
(***************************************************************************)
(* What the verdicts are about, from the file and not from the graphs.     *)
(***************************************************************************)

\* The types whose values a value of t holds inline.
HoldsInline(f, t) ==
  {m.name : m \in {x \in f.types[t].mentions :
                     {"array", "dictionary"} \cap {x.under[i] : i \in DOMAIN x.under} = {}}}
    \cup (IF f.types[t].kind = "trait" THEN f.types[t].parents ELSE {})

\* A type has a finite size when what its values hold inline has one: S are
\* the types known to have one, and SizedBy what follows from S.
SizedBy(f, S) ==
  {t \in DOMAIN f.types : \A u \in HoldsInline(f, t) : u \in DOMAIN f.types => u \in S}
Sized(f) ==
  {t \in DOMAIN f.types :
     \A S \in SUBSET DOMAIN f.types : SizedBy(f, S) \subseteq S => t \in S}

\* Every overload of g reads only S and calls only G.
Runs(f, g, S, G) ==
  \A b \in f.functions[g] :
    /\ (b.reads \cap DOMAIN f.lets) \ b.params \subseteq S
    /\ b.calls \cap DOMAIN f.functions \subseteq G

\* The largest set of functions that read nothing outside S: a function may
\* recurse, what counts is that it reads no other let.
Within(f, S) ==
  UNION {G \in SUBSET DOMAIN f.functions : \A g \in G : Runs(f, g, S, G)}

\* A let can be evaluated when every let read on the way can: by its value,
\* or by a function called on the way, where it is not a parameter.
EvaluableBy(f, S) ==
  {l \in DOMAIN f.lets :
     /\ f.lets[l].reads \cap DOMAIN f.lets \subseteq S
     /\ f.lets[l].calls \cap DOMAIN f.functions \subseteq Within(f, S)}
Evaluable(f) ==
  {l \in DOMAIN f.lets :
     \A S \in SUBSET DOMAIN f.lets : EvaluableBy(f, S) \subseteq S => l \in S}

\* The search finds a cycle among the types exactly when some type of the
\* file has no finite size, whatever the order of the maps (hazard: the
\* wrappers that break a cycle, a graph whose keys lack the leaves).
TypeVerdictIsExact ==
  phase = "types" /\ PassOver => (cycles = {} <=> Sized(file) = DOMAIN file.types)

\* The search finds a cycle among the lets exactly when some let needs its
\* own value, through any chain of lets and functions.
LetVerdictIsExact ==
  phase = "lets" /\ PassOver => (cycles = {} <=> Evaluable(file) = DOMAIN file.lets)

\* Both searches come to an end, on every graph.
SearchEnds == <>(phase = "done")
=============================================================================
