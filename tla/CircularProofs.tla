--------------------------- MODULE CircularProofs ---------------------------
(***************************************************************************)
(* For every set of files: the search for circular definitions stays well  *)
(* formed, every cycle it reports is one, a graph in which it finds none   *)
(* is ordered, and a file passes exactly when every type of it has a       *)
(* finite size and every let of it a value.                                *)
(***************************************************************************)
EXTENDS Circular, TLAPS, SequenceTheorems, WellFoundedInduction

Frame == [node : Names, left : SUBSET Names]
Ended == {finished[i] : i \in DOMAIN finished}

-----------------------------------------------------------------------------
(***************************************************************************)
(* The two graphs.                                                         *)
(***************************************************************************)

LEMMA TypeGraphType ==
  ASSUME NEW f \in Files
  PROVE  /\ DOMAIN TypeGraph(f) \subseteq Names
         /\ \A n \in DOMAIN TypeGraph(f) : TypeGraph(f)[n] \subseteq Names
<1> DEFINE Inline(t) ==
      (IF f.types[t].kind = "trait" THEN f.types[t].parents ELSE {})
        \cup AddTypeDependencies(f.types[t].mentions)
<1>1. ASSUME NEW t \in DOMAIN f.types PROVE Inline(t) \subseteq Names
  BY FilesAssumption DEF AddTypeDependencies, Names
<1>2. DOMAIN f.types \subseteq Names
  BY FilesAssumption DEF Names
<1>3. TypeGraph(f) = Entries([t \in DOMAIN f.types |-> Inline(t)])
  BY DEF TypeGraph
<1> HIDE DEF Inline
<1>4. QED
  BY <1>1, <1>2, <1>3 DEF Entries

LEMMA FunctionReferencesAreLets ==
  ASSUME NEW f, NEW g
  PROVE  FunctionReferences(f, g).reads \subseteq DOMAIN f.lets
  BY DEF FunctionReferences, LetReferences

LEMMA LetGraphType ==
  ASSUME NEW f \in Files
  PROVE  /\ DOMAIN LetGraph(f) \subseteq Names
         /\ \A n \in DOMAIN LetGraph(f) : LetGraph(f)[n] \subseteq Names
<1>1. ASSUME NEW l \in DOMAIN f.lets
      PROVE  ExpandCalls(f, LetReferences(f, f.lets[l])) \subseteq DOMAIN f.lets
  <2>1. LetReferences(f, f.lets[l]).reads \subseteq DOMAIN f.lets
    BY DEF LetReferences
  <2>2. QED
    BY <2>1, FunctionReferencesAreLets DEF ExpandCalls
<1>2. DOMAIN f.lets \subseteq Names
  BY FilesAssumption DEF Names
<1>3. QED
  BY <1>1, <1>2 DEF LetGraph, Entries

-----------------------------------------------------------------------------
(***************************************************************************)
(* The stack of open calls.                                                *)
(***************************************************************************)

LEMMA TakenStack ==
  ASSUME path \in Seq(Frame), path # <<>>, NEW m
  PROVE  /\ Taken(m) \in Seq(Frame) /\ Len(Taken(m)) = Len(path)
         /\ DOMAIN Taken(m) = DOMAIN path
         /\ \A i \in DOMAIN path : Taken(m)[i].node = path[i].node
         /\ \A i \in DOMAIN path : i # Len(path) => Taken(m)[i] = path[i]
         /\ Taken(m)[Len(path)].left = path[Len(path)].left \ {m}
<1> DEFINE top == [path[Len(path)] EXCEPT !.left = @ \ {m}]
<1>1. Len(path) \in DOMAIN path /\ path[Len(path)] \in Frame
  BY EmptySeq, LenProperties
<1>2. /\ top \in Frame /\ top.node = path[Len(path)].node
      /\ top.left = path[Len(path)].left \ {m}
  BY <1>1 DEF Frame
<1>3. Taken(m) = [path EXCEPT ![Len(path)] = top]
  BY DEF Taken
<1> HIDE DEF top
<1>4. QED
  BY <1>1, <1>2, <1>3, ExceptSeq

-----------------------------------------------------------------------------
(***************************************************************************)
(* The inductive invariant.  A name that was visited is on the stack or    *)
(* has returned; the stack is a walk; while no cycle is found, every       *)
(* neighbour an open call has taken has returned, or is the next call on   *)
(* the stack; and what has returned is ordered.                            *)
(***************************************************************************)
VisitedIsOpenOrEnded == visited = OnPath \cup Ended

StackIsWalk ==
  /\ \A k \in DOMAIN path : path[k].left \subseteq Neighbours(path[k].node)
  /\ \A k \in DOMAIN path : k < Len(path) =>
       path[k + 1].node \in Neighbours(path[k].node)

TakenIsSettled ==
  cycles = {} =>
    \A k \in DOMAIN path : \A m \in Neighbours(path[k].node) :
      \/ m \in path[k].left
      \/ m \in Ended
      \/ k < Len(path) /\ m = path[k + 1].node

EndedIsOrdered ==
  cycles = {} =>
    \A i \in DOMAIN finished : \A m \in Neighbours(finished[i]) :
      \E j \in 1 .. i - 1 : finished[j] = m

IInv == /\ TypeOK /\ VisitedIsOpenOrEnded /\ StackIsWalk
        /\ TakenIsSettled /\ EndedIsOrdered /\ CyclesAreReal

LEMMA InitInvariant == Init => IInv
  BY TypeGraphType, EmptySeq
  DEF Init, IInv, TypeOK, VisitedIsOpenOrEnded, StackIsWalk, TakenIsSettled,
      EndedIsOrdered, CyclesAreReal, OnPath, Ended, Neighbours
-----------------------------------------------------------------------------
(***************************************************************************)
(* A call of the search, from an empty stack or from a neighbour.          *)
(***************************************************************************)

LEMMA NeighboursType == TypeOK => \A n : Neighbours(n) \subseteq Names
  BY DEF TypeOK, Neighbours

\* What a new call on top of the stack `below` keeps.
LEMMA EnterStack ==
  ASSUME TypeOK, NEW n \in Names, NEW below \in Seq(Frame), Enter(n, below)
  PROVE  /\ path' \in Seq(Frame) /\ Len(path') = Len(below) + 1
         /\ DOMAIN path' = 1 .. Len(below) + 1
         /\ \A i \in 1 .. Len(below) : path'[i] = below[i]
         /\ path'[Len(below) + 1] = [node |-> n, left |-> Neighbours(n)]
         /\ visited' = visited \cup {n}
  BY NeighboursType, AppendProperties, LenProperties DEF Enter, Frame

LEMMA StartKeeps == IInv /\ Start => IInv'
<1> SUFFICES ASSUME IInv, Start PROVE IInv'
  OBVIOUS
<1>1. PICK n \in DOMAIN edges \ visited : Enter(n, path)
  BY DEF Start
<1>2. n \in Names /\ path \in Seq(Frame) /\ path = <<>> /\ Len(path) = 0 /\ TypeOK
  BY EmptySeq DEF IInv, TypeOK, Start, Frame
<1>3. /\ path' \in Seq(Frame) /\ DOMAIN path' = {1} /\ Len(path') = 1
      /\ path'[1] = [node |-> n, left |-> Neighbours(n)]
      /\ visited' = visited \cup {n}
  <2>1. /\ path' \in Seq(Frame) /\ Len(path') = Len(path) + 1
        /\ DOMAIN path' = 1 .. Len(path) + 1
        /\ path'[Len(path) + 1] = [node |-> n, left |-> Neighbours(n)]
        /\ visited' = visited \cup {n}
    BY <1>1, <1>2, EnterStack
  <2>2. Len(path) + 1 = 1
    BY <1>2
  <2>3. 1 .. 1 = {1}
    OBVIOUS
  <2>4. QED
    BY <2>1, <2>2, <2>3
<1>4. UNCHANGED <<file, phase, edges, finished, cycles, errors>>
  BY DEF Start
<1>5. \A x : Neighbours(x)' = Neighbours(x)
  BY <1>4 DEF Neighbours
<1>6. TypeOK'
  BY <1>2, <1>3, <1>4 DEF TypeOK, Frame
<1>7. VisitedIsOpenOrEnded'
  BY <1>2, <1>3, <1>4 DEF IInv, VisitedIsOpenOrEnded, OnPath, Ended
<1>8. StackIsWalk' /\ TakenIsSettled'
  BY <1>3, <1>5 DEF StackIsWalk, TakenIsSettled
<1>9. EndedIsOrdered' /\ CyclesAreReal'
  BY <1>4, <1>5 DEF IInv, EndedIsOrdered, CyclesAreReal
<1>10. QED
  BY <1>6, <1>7, <1>8, <1>9 DEF IInv

LEMMA DescendKeeps == IInv /\ Descend => IInv'
<1> SUFFICES ASSUME IInv, Descend PROVE IInv'
  OBVIOUS
<1>1. PICK m \in Top.left \ OnPath : m \notin visited /\ Enter(m, Taken(m))
  BY DEF Descend
<1>2. TypeOK /\ path \in Seq(Frame) /\ path # <<>>
      /\ UNCHANGED <<file, phase, edges, finished, cycles, errors>>
  BY DEF IInv, TypeOK, Descend, Frame
<1> DEFINE n == Len(path)
<1>3. n \in Nat \ {0} /\ DOMAIN path = 1 .. n /\ path[n] \in Frame
  BY <1>2, EmptySeq, LenProperties
<1>4. m \in Names /\ m \in path[n].left
  BY <1>1, <1>3 DEF Top, Frame
<1> DEFINE below == Taken(m)
<1>5. /\ below \in Seq(Frame) /\ Len(below) = n
      /\ \A i \in 1 .. n : below[i].node = path[i].node
      /\ \A i \in 1 .. n : i # n => below[i] = path[i]
      /\ below[n].left = path[n].left \ {m}
  BY <1>2, <1>3, TakenStack
<1> HIDE DEF below
<1>6. /\ path' \in Seq(Frame) /\ Len(path') = n + 1 /\ DOMAIN path' = 1 .. n + 1
      /\ \A i \in 1 .. n : path'[i] = below[i]
      /\ path'[n + 1] = [node |-> m, left |-> Neighbours(m)]
      /\ visited' = visited \cup {m}
  <2>1. Enter(m, below)
    BY <1>1 DEF below
  <2>2. QED
    BY <2>1, <1>2, <1>4, <1>5, EnterStack
<1> HIDE DEF n
<1>7. \A x : Neighbours(x)' = Neighbours(x)
  BY <1>2 DEF Neighbours
<1>8. \A i \in 1 .. n : path'[i].node = path[i].node
  BY <1>5, <1>6
<1>9. TypeOK'
  BY <1>2, <1>4, <1>6 DEF TypeOK, Frame
<1>10. VisitedIsOpenOrEnded'
  <2>1. OnPath' = OnPath \cup {m}
    <3>1. 1 .. n + 1 = (1 .. n) \cup {n + 1}
      BY <1>3
    <3>2. QED
      BY <3>1, <1>3, <1>6, <1>8 DEF OnPath
  <2>2. Ended' = Ended
    BY <1>2 DEF Ended
  <2>3. QED
    BY <2>1, <2>2, <1>6 DEF IInv, VisitedIsOpenOrEnded
<1>11. StackIsWalk'
  <2>1. ASSUME NEW k \in 1 .. n + 1
        PROVE  path'[k].left \subseteq Neighbours(path'[k].node)
    <3>1. CASE k = n + 1
      BY <3>1, <1>6
    <3>2. CASE k \in 1 .. n
      BY <3>2, <1>3, <1>5, <1>6 DEF IInv, StackIsWalk
    <3>3. QED
      BY <3>1, <3>2, <1>3
  <2>2. ASSUME NEW k \in 1 .. n + 1, k < n + 1
        PROVE  path'[k + 1].node \in Neighbours(path'[k].node)
    <3>1. CASE k = n
      BY <3>1, <1>3, <1>4, <1>6, <1>8 DEF IInv, StackIsWalk
    <3>2. CASE k \in 1 .. n - 1
      <4>1. k \in 1 .. n /\ k + 1 \in 1 .. n
        BY <3>2, <1>3
      <4>2. path[k + 1].node \in Neighbours(path[k].node)
        <5>1. StackIsWalk
          BY DEF IInv
        <5>2. k \in DOMAIN path /\ k < Len(path)
          BY <4>1, <3>2, <1>3 DEF n
        <5>3. QED
          BY <5>1, <5>2 DEF StackIsWalk
      <4>3. path'[k].node = path[k].node /\ path'[k + 1].node = path[k + 1].node
        BY <4>1, <1>8
      <4>4. QED
        BY <4>2, <4>3
    <3>3. QED
      BY <2>2, <3>1, <3>2, <1>3
  <2>3. QED
    BY <2>1, <2>2, <1>6, <1>7 DEF StackIsWalk
<1>12. TakenIsSettled'
  <2> SUFFICES ASSUME cycles = {}, NEW k \in 1 .. n + 1, NEW x \in Neighbours(path'[k].node)
               PROVE  \/ x \in path'[k].left \/ x \in Ended
                      \/ k < n + 1 /\ x = path'[k + 1].node
    BY <1>2, <1>6, <1>7 DEF TakenIsSettled, Ended
  <2>1. CASE k = n + 1
    BY <2>1, <1>6
  <2>2. CASE k = n
    <3>1. x \in Neighbours(path[n].node)
      BY <2>2, <1>3, <1>8
    <3>2. x \in path[n].left \/ x \in Ended
      BY <3>1, <1>3 DEF IInv, TakenIsSettled, n
    <3>3. path'[n].left = path[n].left \ {m} /\ path'[n + 1].node = m
      BY <1>3, <1>5, <1>6
    <3>4. QED
      BY <3>2, <3>3, <2>2, <1>3
  <2>3. CASE k \in 1 .. n - 1
    <3>1. k \in 1 .. n /\ k + 1 \in 1 .. n /\ k # n /\ k < n
      BY <2>3, <1>3
    <3>2. path'[k] = path[k] /\ path'[k + 1].node = path[k + 1].node
      BY <3>1, <1>5, <1>6, <1>8
    <3>3. QED
      BY <3>1, <3>2, <1>3 DEF IInv, TakenIsSettled, n
  <2>4. QED
    BY <2>1, <2>2, <2>3, <1>3
<1>13. EndedIsOrdered' /\ CyclesAreReal'
  BY <1>2, <1>7 DEF IInv, EndedIsOrdered, CyclesAreReal
<1>14. QED
  BY <1>9, <1>10, <1>11, <1>12, <1>13 DEF IInv
-----------------------------------------------------------------------------
(***************************************************************************)
(* A neighbour that is on the stack, or that was visited before.           *)
(***************************************************************************)

\* A neighbour taken off the top call keeps the stack a walk, and the rest
\* of the invariant when the neighbour has returned or a cycle is found.
LEMMA TakenKeeps ==
  ASSUME IInv, path # <<>>, NEW m \in Top.left, path' = Taken(m),
         UNCHANGED <<file, phase, edges, visited, finished, errors>>,
         (cycles' = cycles /\ m \in Ended) \/ cycles' # {},
         cycles' \subseteq Seq(Names), cycles' = {} => cycles = {}
  PROVE  /\ TypeOK' /\ VisitedIsOpenOrEnded' /\ StackIsWalk'
         /\ TakenIsSettled' /\ EndedIsOrdered'
<1> DEFINE n == Len(path)
<1>1. TypeOK /\ path \in Seq(Frame)
  BY DEF IInv, TypeOK, Frame
<1>2. n \in Nat \ {0} /\ DOMAIN path = 1 .. n /\ m \in path[n].left
  BY <1>1, EmptySeq, LenProperties DEF Top
<1>3. /\ path' \in Seq(Frame) /\ Len(path') = n /\ DOMAIN path' = 1 .. n
      /\ \A i \in 1 .. n : path'[i].node = path[i].node
      /\ \A i \in 1 .. n : i # n => path'[i] = path[i]
      /\ path'[n].left = path[n].left \ {m}
  BY <1>1, <1>2, TakenStack
<1>4. \A x : Neighbours(x)' = Neighbours(x)
  BY DEF Neighbours
<1>5. TypeOK'
  BY <1>1, <1>3 DEF TypeOK, Frame
<1>6. VisitedIsOpenOrEnded'
  <2>1. OnPath' = OnPath
    BY <1>2, <1>3 DEF OnPath
  <2>2. Ended' = Ended
    BY DEF Ended
  <2>3. QED
    BY <2>1, <2>2 DEF IInv, VisitedIsOpenOrEnded
<1>7. StackIsWalk'
  <2>1. ASSUME NEW k \in 1 .. n
        PROVE  path'[k].left \subseteq Neighbours(path'[k].node)
    <3>1. path[k].left \subseteq Neighbours(path[k].node)
      BY <1>2 DEF IInv, StackIsWalk
    <3>2. path'[k].left \subseteq path[k].left /\ path'[k].node = path[k].node
      BY <1>3
    <3>3. QED
      BY <3>1, <3>2
  <2>2. ASSUME NEW k \in 1 .. n, k < n
        PROVE  path'[k + 1].node \in Neighbours(path'[k].node)
    <3>1. k + 1 \in 1 .. n
      BY <2>2, <1>2
    <3>2. path[k + 1].node \in Neighbours(path[k].node)
      BY <2>2, <1>2 DEF IInv, StackIsWalk
    <3>3. path'[k].node = path[k].node /\ path'[k + 1].node = path[k + 1].node
      BY <3>1, <1>3
    <3>4. QED
      BY <3>2, <3>3
  <2>3. QED
    BY <2>1, <2>2, <1>3, <1>4 DEF StackIsWalk
<1>8. TakenIsSettled'
  <2> SUFFICES ASSUME cycles' = {}, NEW k \in 1 .. n, NEW x \in Neighbours(path'[k].node)
               PROVE  \/ x \in path'[k].left \/ x \in Ended
                      \/ k < n /\ x = path'[k + 1].node
    <3>1. Ended' = Ended
      BY DEF Ended
    <3>2. QED
      BY <3>1, <1>3, <1>4 DEF TakenIsSettled
  <2>1. m \in Ended /\ path'[k].node = path[k].node /\ cycles = {}
    BY <1>3
  <2>2. \/ x \in path[k].left \/ x \in Ended
        \/ k < n /\ x = path[k + 1].node
    BY <2>1, <1>2 DEF IInv, TakenIsSettled
  <2>3. x \in path[k].left => x \in path'[k].left \/ x = m
    BY <1>3
  <2>4. k < n => path'[k + 1].node = path[k + 1].node
    <3>1. k < n => k + 1 \in 1 .. n
      BY <1>2
    <3>2. QED
      BY <3>1, <1>3
  <2>5. QED
    BY <2>1, <2>2, <2>3, <2>4
<1>9. EndedIsOrdered'
  BY <1>4 DEF IInv, EndedIsOrdered
<1>10. QED
  BY <1>5, <1>6, <1>7, <1>8, <1>9

LEMMA PassByKeeps == IInv /\ PassBy => IInv'
<1> SUFFICES ASSUME IInv, PassBy PROVE IInv'
  OBVIOUS
<1>1. PICK m \in Top.left \ OnPath : m \in visited /\ path' = Taken(m)
  BY DEF PassBy
<1>2. path # <<>> /\ UNCHANGED <<file, phase, edges, visited, finished, cycles, errors>>
  BY DEF PassBy
<1>3. m \in Ended /\ cycles \subseteq Seq(Names)
  BY <1>1 DEF IInv, VisitedIsOpenOrEnded, TypeOK
<1>4. CyclesAreReal'
  BY <1>2 DEF IInv, CyclesAreReal, Neighbours
<1>5. QED
  BY <1>1, <1>2, <1>3, <1>4, TakenKeeps DEF IInv

\* The walk from a name on the stack to the top, closed by that name.
LEMMA CycleIsWalk ==
  ASSUME TypeOK, StackIsWalk, path # <<>>, NEW m \in Top.left \cap OnPath
  PROVE  /\ CycleTo(m) \in Seq(Names) /\ Len(CycleTo(m)) > 1
         /\ CycleTo(m)[1] = CycleTo(m)[Len(CycleTo(m))]
         /\ \A i \in 1 .. Len(CycleTo(m)) - 1 :
              CycleTo(m)[i + 1] \in Neighbours(CycleTo(m)[i])
<1> DEFINE n == Len(path)
<1> DEFINE start == CHOOSE i \in DOMAIN path : path[i].node = m
<1>1. n \in Nat \ {0} /\ DOMAIN path = 1 .. n /\ path \in Seq(Frame)
  BY EmptySeq, LenProperties DEF TypeOK, Frame
<1>2. start \in 1 .. n /\ path[start].node = m
  BY <1>1 DEF OnPath
<1>3. \A i \in 1 .. n : path[i].node \in Names
  <2>1. \A i \in 1 .. n : path[i] \in Frame
    BY <1>1, ElementOfSeq
  <2>2. QED
    BY <2>1 DEF Frame
<1>4. m \in Names
  BY <1>2, <1>3
<1> DEFINE size == n - start + 1
<1> DEFINE part == [i \in 1 .. size |-> path[start + i - 1].node]
<1>5. CycleTo(m) = Append(part, m)
  BY DEF CycleTo
<1> HIDE DEF start
<1>6. size \in Nat /\ size >= 1
  BY <1>1, <1>2
<1>7. \A i \in 1 .. size : start + i - 1 \in 1 .. n
  BY <1>1, <1>2
<1>8. /\ part \in Seq(Names) /\ Len(part) = size
      /\ \A i \in 1 .. size : part[i] = path[start + i - 1].node
  BY <1>3, <1>6, <1>7
<1>9. \A i \in 1 .. size - 1 : part[i + 1] \in Neighbours(part[i])
  <2> SUFFICES ASSUME NEW i \in 1 .. size - 1
               PROVE  part[i + 1] \in Neighbours(part[i])
    OBVIOUS
  <2> DEFINE k == start + i - 1
  <2>1. k \in 1 .. n /\ k < n /\ i \in 1 .. size /\ i + 1 \in 1 .. size
        /\ start + (i + 1) - 1 = k + 1
    BY <1>1, <1>2, <1>6
  <2>2. part[i] = path[k].node /\ part[i + 1] = path[k + 1].node
    BY <2>1, <1>8
  <2>3. path[k + 1].node \in Neighbours(path[k].node)
    BY <2>1, <1>1 DEF StackIsWalk
  <2>4. QED
    BY <2>2, <2>3
<1>10. part[1] = m
  <2>1. 1 \in 1 .. size /\ start + 1 - 1 = start
    BY <1>2, <1>6
  <2>2. QED
    BY <2>1, <1>2, <1>8
<1>11. m \in Neighbours(part[size])
  <2>1. size \in 1 .. size /\ start + size - 1 = n /\ n \in 1 .. n
    BY <1>1, <1>2, <1>6
  <2>2. part[size] = path[n].node
    BY <2>1, <1>8
  <2>3. m \in path[n].left /\ path[n].left \subseteq Neighbours(path[n].node)
    BY <2>1, <1>1 DEF StackIsWalk, Top
  <2>4. QED
    BY <2>2, <2>3
<1> HIDE DEF part, size
<1>12. /\ CycleTo(m) \in Seq(Names) /\ Len(CycleTo(m)) = size + 1
       /\ \A i \in 1 .. size : CycleTo(m)[i] = part[i]
       /\ CycleTo(m)[size + 1] = m
  BY <1>4, <1>5, <1>8, AppendProperties
<1>13. \A i \in 1 .. size : CycleTo(m)[i + 1] \in Neighbours(CycleTo(m)[i])
  <2> SUFFICES ASSUME NEW i \in 1 .. size
               PROVE  CycleTo(m)[i + 1] \in Neighbours(CycleTo(m)[i])
    OBVIOUS
  <2>1. CASE i = size
    BY <2>1, <1>11, <1>12
  <2>2. CASE i \in 1 .. size - 1
    <3>1. i + 1 \in 1 .. size
      BY <2>2, <1>6
    <3>2. QED
      BY <3>1, <2>2, <1>9, <1>12
  <2>3. QED
    BY <2>1, <2>2, <1>6
<1>14. Len(CycleTo(m)) > 1 /\ Len(CycleTo(m)) - 1 = size /\ 1 \in 1 .. size
  BY <1>6, <1>12
<1>15. QED
  BY <1>10, <1>12, <1>13, <1>14

LEMMA CloseCycleKeeps == IInv /\ CloseCycle => IInv'
<1> SUFFICES ASSUME IInv, CloseCycle PROVE IInv'
  OBVIOUS
<1>1. PICK m \in Top.left \cap OnPath :
        cycles' = cycles \cup {CycleTo(m)} /\ path' = Taken(m)
  BY DEF CloseCycle
<1>2. path # <<>> /\ UNCHANGED <<file, phase, edges, visited, finished, errors>>
  BY DEF CloseCycle
<1>3. /\ CycleTo(m) \in Seq(Names) /\ Len(CycleTo(m)) > 1
      /\ CycleTo(m)[1] = CycleTo(m)[Len(CycleTo(m))]
      /\ \A i \in 1 .. Len(CycleTo(m)) - 1 :
           CycleTo(m)[i + 1] \in Neighbours(CycleTo(m)[i])
  BY <1>1, <1>2, CycleIsWalk DEF IInv
<1>4. cycles' # {} /\ cycles' \subseteq Seq(Names)
  BY <1>1, <1>3 DEF IInv, TypeOK
<1>5. CyclesAreReal'
  BY <1>1, <1>2, <1>3 DEF IInv, CyclesAreReal, Neighbours
<1>6. QED
  BY <1>1, <1>2, <1>4, <1>5, TakenKeeps DEF IInv
-----------------------------------------------------------------------------
(***************************************************************************)
(* A return, and the end of a pass.                                        *)
(***************************************************************************)

LEMMA BelowOrLast ==
  \A n \in Nat \ {0} : /\ n = 1 \/ 1 <= n - 1
                       /\ \A k \in 1 .. n - 1 : k = n - 1 \/ k < n - 1
  OBVIOUS

LEMMA ReturnKeeps == IInv /\ Return => IInv'
<1> SUFFICES ASSUME IInv, Return PROVE IInv'
  OBVIOUS
<1> DEFINE n == Len(path)
<1> DEFINE e == Len(finished)
<1> DEFINE node == path[n].node
<1>1. /\ TypeOK /\ path \in Seq(Frame) /\ path # <<>> /\ path[n].left = {}
      /\ finished' = Append(finished, node)
      /\ path' = SubSeq(path, 1, n - 1)
      /\ UNCHANGED <<file, phase, edges, visited, cycles, errors>>
  BY DEF IInv, TypeOK, Return, Frame, Top
<1>2. n \in Nat \ {0} /\ DOMAIN path = 1 .. n /\ \A i \in 1 .. n : path[i] \in Frame
  BY <1>1, EmptySeq, LenProperties, ElementOfSeq
<1>3. node \in Names /\ finished \in Seq(Names)
  <2>1. path[n] \in Frame
    BY <1>2
  <2>2. QED
    BY <1>1, <2>1 DEF Frame, TypeOK
<1>4. /\ path' \in Seq(Frame) /\ Len(path') = n - 1 /\ DOMAIN path' = 1 .. n - 1
      /\ \A i \in 1 .. n - 1 : path'[i] = path[i]
  <2>1. \A i \in 1 .. n - 1 : path[i] \in Frame
    BY <1>2
  <2>2. /\ path' \in Seq(Frame) /\ Len(path') = IF 1 <= n - 1 THEN n - 1 - 1 + 1 ELSE 0
        /\ \A i \in 1 .. n - 1 - 1 + 1 : path'[i] = path[1 + i - 1]
    BY <2>1, <1>1, <1>2, SubSeqProperties
  <2>3. Len(path') = n - 1
    <3>1. CASE 1 <= n - 1
      BY <3>1, <2>2, <1>2
    <3>2. CASE n = 1
      BY <3>2, <2>2
    <3>3. n = 1 \/ 1 <= n - 1
      BY <1>2, BelowOrLast
    <3>4. QED
      BY ONLY <3>1, <3>2, <3>3
  <2>4. \A i \in 1 .. n - 1 : i \in 1 .. n - 1 - 1 + 1 /\ 1 + i - 1 = i
    BY <1>2
  <2>5. QED
    BY <2>2, <2>3, <2>4, LenProperties
<1>5. /\ finished' \in Seq(Names) /\ e \in Nat /\ DOMAIN finished = 1 .. e
      /\ Len(finished') = e + 1 /\ DOMAIN finished' = 1 .. e + 1
      /\ \A i \in 1 .. e : finished'[i] = finished[i]
      /\ finished'[e + 1] = node
  <2>1. /\ finished' \in Seq(Names) /\ Len(finished') = e + 1
        /\ \A i \in 1 .. e : finished'[i] = finished[i]
        /\ finished'[e + 1] = node
    BY <1>1, <1>3, AppendProperties
  <2>2. QED
    BY <2>1, <1>3, LenProperties
<1>6. \A x : Neighbours(x)' = Neighbours(x)
  BY <1>1 DEF Neighbours
<1>7. Ended' = Ended \cup {node}
  <2>1. 1 .. e + 1 = (1 .. e) \cup {e + 1}
    BY <1>5
  <2>2. QED
    BY <2>1, <1>5 DEF Ended
<1>8. OnPath = OnPath' \cup {node}
  <2>1. 1 .. n = (1 .. n - 1) \cup {n}
    BY <1>2
  <2>2. QED
    BY <2>1, <1>2, <1>4 DEF OnPath
<1>9. TypeOK'
  BY <1>1, <1>4, <1>5 DEF TypeOK, Frame
<1>10. VisitedIsOpenOrEnded'
  BY <1>1, <1>7, <1>8 DEF IInv, VisitedIsOpenOrEnded
<1>11. \A k \in 1 .. n - 1 : k \in 1 .. n /\ (k < n - 1 => k + 1 \in 1 .. n - 1) /\ k < n
  BY <1>2
<1>12. StackIsWalk'
  <2>1. ASSUME NEW k \in 1 .. n - 1
        PROVE  path'[k].left \subseteq Neighbours(path'[k].node)
    BY <1>2, <1>4, <1>11 DEF IInv, StackIsWalk
  <2>2. ASSUME NEW k \in 1 .. n - 1, k < n - 1
        PROVE  path'[k + 1].node \in Neighbours(path'[k].node)
    <3>1. path[k + 1].node \in Neighbours(path[k].node)
      BY <1>2, <1>11 DEF IInv, StackIsWalk
    <3>2. path'[k] = path[k] /\ path'[k + 1] = path[k + 1]
      BY <2>2, <1>4, <1>11
    <3>3. QED
      BY <3>1, <3>2
  <2>3. QED
    BY <2>1, <2>2, <1>4, <1>6 DEF StackIsWalk
<1>13. TakenIsSettled'
  <2> SUFFICES ASSUME cycles = {}, NEW k \in 1 .. n - 1, NEW x \in Neighbours(path[k].node)
               PROVE  \/ x \in path[k].left \/ x \in Ended \cup {node}
                      \/ k < n - 1 /\ x = path'[k + 1].node
    <3>1. \A k \in 1 .. n - 1 : path'[k] = path[k]
      BY <1>4
    <3>2. QED
      BY <3>1, <1>1, <1>4, <1>6, <1>7 DEF TakenIsSettled
  <2>1. \/ x \in path[k].left \/ x \in Ended
        \/ k < n /\ x = path[k + 1].node
    BY <1>2, <1>11 DEF IInv, TakenIsSettled
  <2>2. CASE k = n - 1
    <3>1. k + 1 = n
      BY <2>2, <1>2
    <3>2. QED
      BY <2>1, <3>1
  <2>3. CASE k < n - 1
    BY <2>1, <2>3, <1>4, <1>11
  <2>4. k = n - 1 \/ k < n - 1
    BY <1>2, BelowOrLast
  <2>5. QED
    BY ONLY <2>2, <2>3, <2>4
<1>14. EndedIsOrdered'
  <2> SUFFICES ASSUME cycles = {}, NEW i \in 1 .. e + 1, NEW m \in Neighbours(finished'[i])
               PROVE  \E j \in 1 .. i - 1 : finished'[j] = m
    BY <1>1, <1>5, <1>6 DEF EndedIsOrdered
  <2>1. CASE i = e + 1
    <3>1. m \in Neighbours(path[n].node)
      BY <2>1, <1>5
    <3>2. m \in Ended
      <4>1. n \in DOMAIN path /\ ~ (n < Len(path)) /\ path[n].left = {}
        BY <1>1, <1>2
      <4>2. QED
        BY <3>1, <4>1 DEF IInv, TakenIsSettled
    <3>3. PICK j \in 1 .. e : finished[j] = m
      BY <3>2, <1>5 DEF Ended
    <3>4. j \in 1 .. i - 1 /\ finished'[j] = m
      BY <3>3, <2>1, <1>5
    <3>5. QED
      BY <3>4
  <2>2. CASE i \in 1 .. e
    <3>1. m \in Neighbours(finished[i])
      BY <2>2, <1>5
    <3>2. PICK j \in 1 .. i - 1 : finished[j] = m
      BY <3>1, <2>2, <1>5 DEF IInv, EndedIsOrdered
    <3>3. j \in 1 .. e
      BY <2>2, <1>5
    <3>4. QED
      BY <3>2, <3>3, <1>5
  <2>3. QED
    BY <2>1, <2>2, <1>5
<1>15. CyclesAreReal'
  BY <1>1 DEF IInv, CyclesAreReal, Neighbours
<1>16. QED
  BY <1>9, <1>10, <1>12, <1>13, <1>14, <1>15 DEF IInv

LEMMA EndPassKeeps == IInv /\ EndPass => IInv'
<1> SUFFICES ASSUME IInv, EndPass PROVE IInv'
  OBVIOUS
<1>1. /\ file' = file /\ file \in Files /\ phase' \in {"lets", "done"}
      /\ edges' = (IF phase = "types" THEN LetGraph(file) ELSE edges)
      /\ visited' = {} /\ path' = <<>> /\ finished' = <<>> /\ cycles' = {}
  BY DEF IInv, TypeOK, EndPass
<1>2. DOMAIN edges' \subseteq Names /\ \A n \in DOMAIN edges' : edges'[n] \subseteq Names
  BY <1>1, LetGraphType DEF IInv, TypeOK
<1>3. TypeOK'
  BY <1>1, <1>2, EmptySeq DEF TypeOK
<1>4. QED
  BY <1>1, <1>3
  DEF IInv, VisitedIsOpenOrEnded, StackIsWalk, TakenIsSettled, EndedIsOrdered,
      CyclesAreReal, OnPath, Ended

LEMMA NextKeeps == IInv /\ [Next]_vars => IInv'
<1> SUFFICES ASSUME IInv, [Next]_vars PROVE IInv'
  OBVIOUS
<1>1. CASE Next
  BY <1>1, StartKeeps, CloseCycleKeeps, DescendKeeps, PassByKeeps, ReturnKeeps,
     EndPassKeeps DEF Next
<1>2. CASE UNCHANGED vars
  BY <1>2 DEF vars, IInv, TypeOK, VisitedIsOpenOrEnded, StackIsWalk, TakenIsSettled,
     EndedIsOrdered, CyclesAreReal, OnPath, Ended, Neighbours
<1>3. QED
  BY <1>1, <1>2

LEMMA Invariant == Spec => []IInv
  BY InitInvariant, NextKeeps, PTL DEF Spec

-----------------------------------------------------------------------------
\* The search stays well formed, for every set of files.
THEOREM TypeCorrect == Spec => []TypeOK
<1>1. IInv => TypeOK
  BY DEF IInv
<1>2. QED
  BY <1>1, Invariant, PTL

\* Every cycle reported for a graph is a closed walk of it, whatever the
\* files and the order of the search (circular.rs: errors of 5.1 and 5.2).
THEOREM ReportsAreReal == Spec => []CyclesAreReal
<1>1. IInv => CyclesAreReal
  BY DEF IInv
<1>2. QED
  BY <1>1, Invariant, PTL

\* A graph in which the search finds no cycle has none: the order in which
\* the calls returned puts every name after all it depends on, whatever the
\* files and the order of the search (type_graph.rs: find_cycles).
THEOREM AcceptedMeansOrdered == Spec => []AcceptedIsOrdered
<1>1. IInv => AcceptedIsOrdered
  <2> SUFFICES ASSUME IInv, PassOver, cycles = {}, NEW n \in DOMAIN edges
               PROVE  \E i \in DOMAIN finished :
                        /\ finished[i] = n
                        /\ \A m \in edges[n] : \E j \in 1 .. i - 1 : finished[j] = m
    BY DEF AcceptedIsOrdered
  <2>1. n \in visited /\ OnPath = {}
    BY DEF PassOver, OnPath
  <2>2. PICK i \in DOMAIN finished : finished[i] = n
    BY <2>1 DEF IInv, VisitedIsOpenOrEnded, Ended
  <2>3. Neighbours(n) = edges[n]
    BY DEF Neighbours
  <2>4. \A m \in edges[n] : \E j \in 1 .. i - 1 : finished[j] = m
    BY <2>2, <2>3 DEF IInv, EndedIsOrdered
  <2>5. QED
    BY <2>2, <2>4
<1>2. QED
  BY <1>1, Invariant, PTL

-----------------------------------------------------------------------------
(***************************************************************************)
(* The verdicts.  Both graphs are searched the same way, so the argument   *)
(* is about any set D of names that holds the keys of the graph: every set *)
(* that is closed under the graph is the whole of D exactly when there is  *)
(* no cycle.                                                               *)
(***************************************************************************)

\* A set S of names that holds each name all of whose neighbours it holds.
ClosedUnder(D, S) == \A t \in D : (\A u \in Neighbours(t) : u \in D => u \in S) => t \in S

LEMMA LeastIndex ==
  ASSUME NEW X \in SUBSET Nat, X # {}
  PROVE  \E i \in X : \A j \in X : ~ (j < i)
<1>1. \E x \in X : \A y \in X : ~ (<<y, x>> \in OpToRel(<, Nat))
  BY NatLessThanWellFounded, WFMin
<1>2. QED
  BY <1>1 DEF OpToRel

\* In a graph without a cycle, the first call to return from a name outside
\* of a closed set would have a neighbour outside of it that returned before.
LEMMA OrderedIsClosed ==
  ASSUME IInv, PassOver, cycles = {}, NEW D, NEW S \in SUBSET D, ClosedUnder(D, S)
  PROVE  S = D
<1> SUFFICES ASSUME S # D PROVE FALSE
  OBVIOUS
<1> DEFINE X == {i \in DOMAIN finished : finished[i] \in D \ S}
<1>1. DOMAIN finished \in SUBSET Nat
  BY LenProperties DEF IInv, TypeOK
<1>2. ASSUME NEW t \in D \ S
      PROVE  t \in Ended /\ \E u \in Neighbours(t) : u \in D \ S
  <2>1. PICK u \in Neighbours(t) : u \in D \ S
    BY DEF ClosedUnder
  <2>2. t \in DOMAIN edges
    BY <2>1 DEF Neighbours
  <2>3. t \in Ended
    BY <2>2 DEF PassOver, IInv, VisitedIsOpenOrEnded, OnPath
  <2>4. QED
    BY <2>1, <2>3
<1>3. X # {}
  BY <1>2 DEF Ended
<1>4. PICK i \in X : \A j \in X : ~ (j < i)
  BY <1>1, <1>3, LeastIndex
<1>5. PICK u \in Neighbours(finished[i]) : u \in D \ S
  BY <1>2
<1>6. PICK j \in 1 .. i - 1 : finished[j] = u
  BY <1>5 DEF IInv, EndedIsOrdered
<1>7. j \in DOMAIN finished /\ j < i
  BY <1>1, <1>6, LenProperties DEF IInv, TypeOK
<1>8. QED
  BY <1>4, <1>5, <1>6, <1>7

\* The names that are not on a cycle make a closed set.
LEMMA CycleIsOutside ==
  ASSUME IInv, NEW D, DOMAIN edges \subseteq D, cycles # {}
  PROVE  \E S \in SUBSET D : S # D /\ ClosedUnder(D, S)
<1>1. PICK c \in cycles : TRUE
  OBVIOUS
<1>2. /\ c \in Seq(Names) /\ Len(c) \in Nat /\ Len(c) > 1 /\ c[1] = c[Len(c)]
      /\ \A i \in 1 .. Len(c) - 1 : c[i + 1] \in Neighbours(c[i])
  BY <1>1, LenProperties DEF IInv, TypeOK, CyclesAreReal
<1> DEFINE On == {c[i] : i \in 1 .. Len(c) - 1}
           S == D \ On
<1>3. ASSUME NEW t \in On
      PROVE  t \in D /\ \E u \in Neighbours(t) : u \in On
  <2>1. PICK i \in 1 .. Len(c) - 1 : t = c[i]
    OBVIOUS
  <2>2. c[i + 1] \in Neighbours(t)
    BY <1>2, <2>1
  <2>3. t \in DOMAIN edges
    BY <2>2 DEF Neighbours
  <2>4. CASE i + 1 \in 1 .. Len(c) - 1
    BY <2>2, <2>3, <2>4
  <2>5. CASE i + 1 \notin 1 .. Len(c) - 1
    <3>1. c[i + 1] = c[1] /\ 1 \in 1 .. Len(c) - 1
      BY <1>2, <2>5
    <3>2. QED
      BY <2>2, <2>3, <3>1
  <2>6. QED
    BY <2>4, <2>5
<1>4. c[1] \in On
  BY <1>2
<1> HIDE DEF On
<1>5. S # D
  BY <1>3, <1>4
<1>6. ClosedUnder(D, S)
  BY <1>3 DEF ClosedUnder
<1>7. QED
  BY <1>5, <1>6

\* The graph is that of the file, as long as it is searched.
GraphOfPhase ==
  /\ phase = "types" => edges = TypeGraph(file)
  /\ phase = "lets" => edges = LetGraph(file)

LEMMA GraphIsOfPhase == Spec => []GraphOfPhase
<1>1. Init => GraphOfPhase
  BY DEF Init, GraphOfPhase
<1>2. GraphOfPhase /\ [Next]_vars => GraphOfPhase'
  BY DEF GraphOfPhase, Next, vars, Start, CloseCycle, Descend, PassBy, Return, EndPass
<1>3. QED
  BY <1>1, <1>2, PTL DEF Spec

\* What the graph of the types has for a type is what it holds inline.
LEMMA TypeNeighbours ==
  ASSUME edges = TypeGraph(file), NEW t \in DOMAIN file.types
  PROVE  Neighbours(t) = HoldsInline(file, t)
<1> DEFINE inline(u) == (IF file.types[u].kind = "trait" THEN file.types[u].parents ELSE {})
                          \cup AddTypeDependencies(file.types[u].mentions)
           graph == [u \in DOMAIN file.types |-> inline(u)]
<1>1. inline(t) = HoldsInline(file, t)
  BY DEF AddTypeDependencies, HoldsInline
<1>2. edges = [n \in {k \in DOMAIN graph : graph[k] # {}} |-> graph[n]]
  BY DEF TypeGraph, Entries
<1>3. graph[t] = inline(t) /\ DOMAIN graph = DOMAIN file.types
  OBVIOUS
<1> HIDE DEF graph, inline
<1>4. QED
  BY <1>1, <1>2, <1>3 DEF Neighbours

\* The search finds a cycle among the types exactly when some type has no
\* finite size, whatever the file and the order of the search
\* (circular.rs: detect_circular_type_dependencies).
THEOREM TypeVerdicts == Spec => []TypeVerdictIsExact
<1>1. IInv /\ GraphOfPhase => TypeVerdictIsExact
  <2> SUFFICES ASSUME IInv, GraphOfPhase, phase = "types", PassOver
               PROVE  cycles = {} <=> Sized(file) = DOMAIN file.types
    BY DEF TypeVerdictIsExact
  <2> DEFINE D == DOMAIN file.types
  <2>1. edges = TypeGraph(file)
    BY DEF GraphOfPhase
  <2>2. DOMAIN edges \subseteq D
    BY <2>1 DEF TypeGraph, Entries
  <2>3. ASSUME NEW S \in SUBSET D
        PROVE  ClosedUnder(D, S) <=> SizedBy(file, S) \subseteq S
    BY <2>1, TypeNeighbours DEF ClosedUnder, SizedBy
  <2>4. ASSUME cycles = {} PROVE Sized(file) = D
    <3>1. \A S \in SUBSET D : SizedBy(file, S) \subseteq S => S = D
      BY <2>3, <2>4, OrderedIsClosed
    <3>2. QED
      BY <3>1 DEF Sized
  <2>5. ASSUME cycles # {} PROVE Sized(file) # D
    <3>1. PICK S \in SUBSET D : S # D /\ ClosedUnder(D, S)
      BY <2>2, <2>5, CycleIsOutside
    <3>2. SizedBy(file, S) \subseteq S
      BY <2>3, <3>1
    <3>3. QED
      BY <3>1, <3>2 DEF Sized
  <2>6. QED
    BY <2>4, <2>5
<1>2. QED
  BY <1>1, Invariant, GraphIsOfPhase, PTL

\* What the graph of the lets has for a let: all that its value reads, and
\* all that the functions it reaches read.
LEMMA LetNeighbours ==
  ASSUME edges = LetGraph(file), NEW l \in DOMAIN file.lets
  PROVE  Neighbours(l) = ExpandCalls(file, LetReferences(file, file.lets[l]))
<1> DEFINE reads(k) == ExpandCalls(file, LetReferences(file, file.lets[k]))
           graph == [k \in DOMAIN file.lets |-> reads(k)]
<1>1. edges = [n \in {k \in DOMAIN graph : graph[k] # {}} |-> graph[n]]
  BY DEF LetGraph, Entries
<1>2. graph[l] = reads(l) /\ DOMAIN graph = DOMAIN file.lets
  OBVIOUS
<1> HIDE DEF graph, reads
<1>3. Neighbours(l) = reads(l)
  BY <1>1, <1>2 DEF Neighbours
<1>4. QED
  BY <1>3 DEF reads

\* A function reads only S and calls only G when its node in the graph does.
LEMMA RunsByReferences ==
  ASSUME NEW f, NEW g, NEW S, NEW G
  PROVE  Runs(f, g, S, G) <=> /\ FunctionReferences(f, g).reads \subseteq S
                              /\ FunctionReferences(f, g).calls \subseteq G
<1>1. /\ FunctionReferences(f, g).reads =
           UNION {LetReferences(f, b).reads \ b.params : b \in f.functions[g]}
      /\ FunctionReferences(f, g).calls =
           UNION {LetReferences(f, b).calls : b \in f.functions[g]}
  BY DEF FunctionReferences
<1>2. \A b : /\ LetReferences(f, b).reads = b.reads \cap DOMAIN f.lets
             /\ LetReferences(f, b).calls = b.calls \cap DOMAIN f.functions
  BY DEF LetReferences
<1>3. QED
  BY <1>1, <1>2 DEF Runs

\* The functions that calls reach are closed under calls.
LEMMA ReachedIsClosed ==
  ASSUME NEW f, NEW calls, calls \subseteq DOMAIN f.functions
  PROVE  /\ calls \subseteq ReachedCalls(f, calls)
         /\ ClosedCalls(f, ReachedCalls(f, calls))
<1>1. \A g : FunctionReferences(f, g).calls \subseteq DOMAIN f.functions
  BY DEF FunctionReferences, LetReferences
<1>2. QED
  BY <1>1 DEF ReachedCalls, ClosedCalls

\* The functions that read nothing outside of S are closed under calls.
LEMMA WithinIsClosed ==
  ASSUME NEW f, NEW S
  PROVE  /\ Within(f, S) \in SUBSET DOMAIN f.functions
         /\ ClosedCalls(f, Within(f, S))
         /\ \A g \in Within(f, S) : FunctionReferences(f, g).reads \subseteq S
<1>1. ASSUME NEW g \in Within(f, S)
      PROVE  /\ FunctionReferences(f, g).calls \subseteq Within(f, S)
             /\ FunctionReferences(f, g).reads \subseteq S
  <2>1. PICK G \in SUBSET DOMAIN f.functions : g \in G /\ \A h \in G : Runs(f, h, S, G)
    BY DEF Within
  <2>2. G \subseteq Within(f, S)
    BY <2>1 DEF Within
  <2>3. QED
    BY <2>1, <2>2, RunsByReferences
<1>2. QED
  BY <1>1 DEF Within, ClosedCalls

\* Following the calls and asking for a set of harmless functions agree.
LEMMA ExpandedReads ==
  ASSUME NEW f, NEW l \in DOMAIN f.lets, NEW S
  PROVE  ExpandCalls(f, LetReferences(f, f.lets[l])) \subseteq S <=> l \in EvaluableBy(f, S)
<1> DEFINE reads == f.lets[l].reads \cap DOMAIN f.lets
           calls == f.lets[l].calls \cap DOMAIN f.functions
           all == UNION {FunctionReferences(f, g).reads : g \in ReachedCalls(f, calls)}
<1>1. /\ ExpandCalls(f, LetReferences(f, f.lets[l])) = reads \cup all
      /\ l \in EvaluableBy(f, S) <=> reads \subseteq S /\ calls \subseteq Within(f, S)
  BY DEF ExpandCalls, LetReferences, EvaluableBy
<1>2. calls \subseteq DOMAIN f.functions
  OBVIOUS
<1> HIDE DEF calls, reads
<1>3. ASSUME all \subseteq S PROVE calls \subseteq Within(f, S)
  <2> DEFINE G == ReachedCalls(f, calls)
  <2>1. calls \subseteq G /\ ClosedCalls(f, G) /\ G \in SUBSET DOMAIN f.functions
    BY <1>2, ReachedIsClosed DEF ReachedCalls
  <2>2. \A g \in G : FunctionReferences(f, g).reads \subseteq S
    BY <1>3
  <2> HIDE DEF G
  <2>3. \A g \in G : Runs(f, g, S, G)
    BY <2>1, <2>2, RunsByReferences DEF ClosedCalls
  <2>4. QED
    BY <2>1, <2>3 DEF Within
<1>4. ASSUME calls \subseteq Within(f, S) PROVE all \subseteq S
  <2>1. ReachedCalls(f, calls) \subseteq Within(f, S)
    BY <1>4, WithinIsClosed DEF ReachedCalls
  <2>2. QED
    BY <2>1, WithinIsClosed
<1>5. QED
  BY <1>1, <1>3, <1>4

\* The search finds a cycle among the lets exactly when some let needs its
\* own value, through any chain of lets and functions, whatever the file and
\* the order of the search (circular.rs: detect_circular_let_dependencies).
THEOREM LetVerdicts == Spec => []LetVerdictIsExact
<1>1. IInv /\ GraphOfPhase => LetVerdictIsExact
  <2> SUFFICES ASSUME IInv, GraphOfPhase, phase = "lets", PassOver
               PROVE  cycles = {} <=> Evaluable(file) = DOMAIN file.lets
    BY DEF LetVerdictIsExact
  <2> DEFINE D == DOMAIN file.lets
  <2>1. edges = LetGraph(file)
    BY DEF GraphOfPhase
  <2>2. DOMAIN edges \subseteq D
    BY <2>1 DEF LetGraph, Entries
  <2>3. ASSUME NEW S \in SUBSET D
        PROVE  ClosedUnder(D, S) <=> EvaluableBy(file, S) \subseteq S
    <3>1. ASSUME NEW l \in D PROVE Neighbours(l) \subseteq D
      <4>1. LetReferences(file, file.lets[l]).reads \subseteq D
        BY DEF LetReferences
      <4>2. Neighbours(l) = ExpandCalls(file, LetReferences(file, file.lets[l]))
        BY <2>1, LetNeighbours
      <4>3. QED
        BY <4>1, <4>2, FunctionReferencesAreLets DEF ExpandCalls
    <3>2. \A l \in D : Neighbours(l) \subseteq S <=> l \in EvaluableBy(file, S)
      BY <2>1, LetNeighbours, ExpandedReads
    <3>3. EvaluableBy(file, S) \subseteq D
      BY DEF EvaluableBy
    <3>4. QED
      BY <3>1, <3>2, <3>3 DEF ClosedUnder
  <2>4. ASSUME cycles = {} PROVE Evaluable(file) = D
    <3>1. \A S \in SUBSET D : EvaluableBy(file, S) \subseteq S => S = D
      BY <2>3, <2>4, OrderedIsClosed
    <3>2. QED
      BY <3>1 DEF Evaluable
  <2>5. ASSUME cycles # {} PROVE Evaluable(file) # D
    <3>1. PICK S \in SUBSET D : S # D /\ ClosedUnder(D, S)
      BY <2>2, <2>5, CycleIsOutside
    <3>2. EvaluableBy(file, S) \subseteq S
      BY <2>3, <3>1
    <3>3. QED
      BY <3>1, <3>2 DEF Evaluable
  <2>6. QED
    BY <2>4, <2>5
<1>2. QED
  BY <1>1, Invariant, GraphIsOfPhase, PTL
=============================================================================
