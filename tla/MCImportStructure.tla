------------------------- MODULE MCImportStructure -------------------------
(***************************************************************************)
(* The import structures over three files: two files have up to two `use`s *)
(* of any files (themselves too), the third has one at most, the entry     *)
(* module one or two, and at most one thing is wrong in the whole program. *)
(* Names are left out, so a module fails only for its structure.           *)
(***************************************************************************)
EXTENDS ImportAnalysis, TLC

CONSTANTS a, b, c, main, none, item

MCFiles == {a, b, c}
MCNames == {item}

\* A path is what the k-th `use` of the entry module writes for the file, or
\* what another module writes for it (k = 0).
MCPaths == (0..3) \X {a, b, c, none}

UseOf(k, f) == [path |-> <<k, f>>, file |-> f, glob |-> FALSE, names |-> {},
                pub |-> FALSE]

FileUses ==
    {<<>>} \cup {<<UseOf(0, f)>> : f \in MCFiles}
           \cup {<<UseOf(0, f), UseOf(0, g)>> : f, g \in MCFiles}

\* The files are interchangeable: the entry module names `a` first.
RootUses == {<<UseOf(1, a)>>, <<UseOf(1, a), UseOf(2, a)>>,
             <<UseOf(1, a), UseOf(2, b)>>}

Faults == [kind : {"garbled", "faulty", "missing", "ambiguous"}, mod : MCFiles]
            \cup [kind : {"faulty", "missing", "ambiguous"}, mod : {main}]
            \cup [kind : {"none"}, mod : {main}]

\* The program with those `use`s and that fault.  A module with a missing
\* import has it before its other `use`s.
ProgramOf(uses, fault) ==
    LET At(kind) == {m \in MCFiles \cup {main} : fault = [kind |-> kind, mod |-> m]}
    IN  [uses |-> [m \in DOMAIN uses |->
                     IF m \in At("missing")
                     THEN <<UseOf(IF m = main THEN 3 ELSE 0, none)>> \o uses[m]
                     ELSE uses[m]],
         locals |-> [m \in DOMAIN uses |->
                       IF m \in At("ambiguous")
                       THEN <<[name |-> item, ambiguous |-> TRUE, pub |-> FALSE]>>
                       ELSE <<>>],
         own |-> [m \in DOMAIN uses |-> <<>>],
         inner |-> [m \in DOMAIN uses |-> {}],
         garbled |-> At("garbled"),
         faulty |-> At("faulty")]

MCPrograms ==
    {ProgramOf((main :> r) @@ u, x) :
        r \in RootUses, u \in {v \in [MCFiles -> FileUses] : Len(v[c]) <= 1}, x \in Faults}
=============================================================================
