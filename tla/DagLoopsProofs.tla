--------------------------- MODULE DagLoopsProofs ---------------------------
(***************************************************************************)
(* The loops of agentdag compute the sets of AgentDag, for runs of every   *)
(* size: what layers places and reports, and what Block blocks.            *)
(***************************************************************************)
EXTENDS DagLoops, FiniteSetTheorems, SequenceTheorems, WellFoundedInduction, TLAPS

-----------------------------------------------------------------------------
(* The layers of AgentDag, one from the other.                             *)

\* A number that lacks a property follows one that has it, or is the first.
LEMMA LeastWithout ==
    ASSUME NEW P, 0 \in P, \A k \in Nat : k \in P => k + 1 \in P
    PROVE  Nat \subseteq P
<1> SUFFICES ASSUME Nat \ P # {} PROVE FALSE
    OBVIOUS
<1>1. PICK k \in Nat \ P : \A j \in Nat \ P : ~(<<j, k>> \in OpToRel(<, Nat))
    BY NatLessThanWellFounded, WFMin
<1>2. \A j \in Nat \ P : ~(j < k)
    BY <1>1 DEF OpToRel
<1>3. k \in Nat /\ k \notin P /\ k # 0
    OBVIOUS
<1>4. k - 1 \in Nat /\ k - 1 < k /\ (k - 1) + 1 = k
    BY <1>3
<1>5. k - 1 \in P
    BY <1>2, <1>4
<1>6. QED
    BY <1>3, <1>4, <1>5

NextOf(nodes, es, before) == {n \in nodes : Deps(es, n) \subseteq before}
IsUpTo(nodes, es, k, f) == f = [j \in 0..k |-> IF j = 0 THEN {} ELSE NextOf(nodes, es, f[j - 1])]
UpTo(nodes, es, k) ==
    CHOOSE f : f = [j \in 0..k |-> IF j = 0 THEN {} ELSE {n \in nodes : Deps(es, n) \subseteq f[j - 1]}]

LEMMA UpToIs ==
    ASSUME NEW nodes, NEW es, NEW k \in Nat
    PROVE  IsUpTo(nodes, es, k, UpTo(nodes, es, k))
<1> DEFINE P == {j \in Nat : \E f : IsUpTo(nodes, es, j, f)}
<1>1. 0 \in P
    <2>1. IsUpTo(nodes, es, 0, [j \in 0..0 |-> {}])
        BY DEF IsUpTo
    <2>2. QED
        BY <2>1
<1>2. ASSUME NEW j \in Nat, j \in P PROVE j + 1 \in P
    <2>1. PICK f : IsUpTo(nodes, es, j, f)
        BY <1>2
    <2> DEFINE g == [q \in 0..(j + 1) |-> IF q = j + 1 THEN NextOf(nodes, es, f[j]) ELSE f[q]]
    <2>2. \A q \in 0..(j + 1) : g[q] = IF q = 0 THEN {} ELSE NextOf(nodes, es, g[q - 1])
        <3> TAKE q \in 0..(j + 1)
        <3>1. CASE q = j + 1
            BY <3>1
        <3>2. CASE q # j + 1
            <4>1. q \in 0..j /\ (q # 0 => q - 1 \in 0..(j + 1) /\ q - 1 # j + 1)
                BY <3>2
            <4>2. f[q] = IF q = 0 THEN {} ELSE NextOf(nodes, es, f[q - 1])
                BY <2>1, <4>1 DEF IsUpTo
            <4>3. QED
                BY <3>2, <4>1, <4>2
        <3>3. QED
            BY <3>1, <3>2
    <2>3. g = [q \in 0..(j + 1) |-> IF q = 0 THEN {} ELSE NextOf(nodes, es, g[q - 1])]
        BY <2>2
    <2> HIDE DEF g
    <2>4. IsUpTo(nodes, es, j + 1, g)
        BY <2>3 DEF IsUpTo
    <2>5. QED
        BY <2>4
<1> HIDE DEF P
<1>3. k \in P
    BY <1>1, <1>2, LeastWithout
<1>4. \E f : f = [j \in 0..k |-> IF j = 0 THEN {} ELSE {n \in nodes : Deps(es, n) \subseteq f[j - 1]}]
    BY <1>3 DEF P, IsUpTo, NextOf
<1>5. QED
    BY <1>4 DEF UpTo, IsUpTo, NextOf

\* Two that unroll the same recursion agree.
LEMMA UpToAgree ==
    ASSUME NEW nodes, NEW es, NEW k \in Nat, NEW m \in Nat, k <= m, NEW f, NEW g,
           IsUpTo(nodes, es, k, f), IsUpTo(nodes, es, m, g)
    PROVE  \A j \in 0..k : f[j] = g[j]
<1> DEFINE P == {j \in Nat : j <= k => f[j] = g[j]}
<1>1. 0 \in P
    BY DEF IsUpTo
<1>2. ASSUME NEW j \in Nat, j \in P PROVE j + 1 \in P
    <2>1. SUFFICES ASSUME j + 1 <= k PROVE f[j + 1] = g[j + 1]
        OBVIOUS
    <2>2. f[j] = g[j] /\ j + 1 \in 0..k /\ j + 1 \in 0..m /\ j + 1 # 0 /\ (j + 1) - 1 = j
        BY <1>2, <2>1
    <2>3. f[j + 1] = NextOf(nodes, es, f[j]) /\ g[j + 1] = NextOf(nodes, es, g[j])
        BY <2>2 DEF IsUpTo
    <2>4. QED
        BY <2>2, <2>3
<1> HIDE DEF P
<1>3. Nat \subseteq P
    BY <1>1, <1>2, LeastWithout
<1>4. QED
    BY <1>3 DEF P

LEMMA LayeredFacts ==
    ASSUME NEW nodes, NEW es
    PROVE  /\ Layered(nodes, es, 0) = {}
           /\ \A k \in Nat : Layered(nodes, es, k + 1) = NextOf(nodes, es, Layered(nodes, es, k))
<1>1. \A k \in Nat : Layered(nodes, es, k) = UpTo(nodes, es, k)[k]
    BY DEF Layered, UpTo
<1>2. UpTo(nodes, es, 0)[0] = {}
    BY UpToIs DEF IsUpTo
<1>3. ASSUME NEW k \in Nat PROVE UpTo(nodes, es, k + 1)[k + 1] = NextOf(nodes, es, UpTo(nodes, es, k)[k])
    <2>1. IsUpTo(nodes, es, k, UpTo(nodes, es, k)) /\ IsUpTo(nodes, es, k + 1, UpTo(nodes, es, k + 1))
        BY UpToIs
    <2>2. UpTo(nodes, es, k + 1)[k] = UpTo(nodes, es, k)[k]
        BY <2>1, UpToAgree
    <2>3. UpTo(nodes, es, k + 1)[k + 1] = NextOf(nodes, es, UpTo(nodes, es, k + 1)[k])
        BY <2>1 DEF IsUpTo
    <2>4. QED
        BY <2>2, <2>3
<1>4. QED
    BY <1>1, <1>2, <1>3

-----------------------------------------------------------------------------
(* The inductive invariant.                                                *)

\* The nodes in the layers so far.
Placed == UNION {out[j] : j \in 1..Len(out)}

DagTypes ==
    /\ edges \subseteq Nodes \X Nodes
    /\ pc \in {"layers", "cycle", "sweep", "done"}
    /\ out \in Seq(SUBSET Nodes) /\ cur \subseteq Nodes /\ indeg \in [Nodes -> Nat]
    /\ st \in [Nodes -> States] /\ bst \in [Nodes -> States]
    /\ i \in Nat \ {0} /\ more \in BOOLEAN

\* The counters: edges from nodes not placed yet, and the nodes placed.
Counters ==
    /\ \A n \in Nodes : indeg[n] = Cardinality(EdgesInto(n, Nodes \ Placed, edges))
    /\ Placed \cap cur = {} /\ Placed \cup cur = {n \in Nodes : indeg[n] = 0}
    /\ placed = Cardinality(Placed)

\* A set with a placed node has one without a dependency in the set.
NoCyclePlaced == \A S \in SUBSET Nodes : S \cap Placed # {} => {n \in S : Deps(edges, n) \cap S = {}} # {}

\* The layers are those of AgentDag, and each has a node of its own.
AreLayers ==
    /\ \A k \in 0..Len(out) : UNION {out[j] : j \in 1..k} = Layered(Nodes, edges, k)
    /\ \A k \in 0..(Len(out) - 1) : Layered(Nodes, edges, k) # Placed

LayersDone ==
    /\ pc # "layers" => cur = {}
    /\ pc = "cycle" => placed < Len(RunNodes)
    /\ pc \in {"sweep", "done"} => placed >= Len(RunNodes)

\* What is blocked is downstream of a stopped node; in a sweep without a
\* change no visited node has one before it.
Blocks ==
    /\ \A n \in Nodes : bst[n] # st[n] => bst[n] = "blocked" /\ n \in Blocked(Nodes, edges, st)
    /\ ~more => \A k \in 1..(i - 1) : k <= Len(RunNodes) => ~Stopped(RunNodes[k])
    /\ pc = "done" => ~more /\ i > Len(RunNodes)

DInv == DagTypes /\ Counters /\ NoCyclePlaced /\ AreLayers /\ LayersDone /\ Blocks

-----------------------------------------------------------------------------
(* Sets of nodes and of edges.                                             *)

LEMMA NodesFinite ==
    /\ IsFiniteSet(Nodes) /\ Cardinality(Nodes) = Len(RunNodes) /\ Len(RunNodes) \in Nat \ {0}
    /\ DOMAIN RunNodes = 1..Len(RunNodes)
<1>1. Len(RunNodes) \in Nat /\ DOMAIN RunNodes = 1..Len(RunNodes) /\ Len(RunNodes) # 0
    BY LoopsAssumption, LenProperties, EmptySeq
<1> DEFINE f == [k \in 1..Len(RunNodes) |-> RunNodes[k]]
<1>2. f \in Surjection(1..Len(RunNodes), Nodes)
    BY <1>1 DEF Surjection, Nodes
<1>3. IsFiniteSet(Nodes)
    BY <1>1, <1>2, FS_Interval, FS_Surjection
<1>4. QED
    BY <1>1, <1>3, LoopsAssumption

LEMMA EdgesIntoFacts ==
    ASSUME edges \subseteq Nodes \X Nodes, NEW n \in Nodes
    PROVE  /\ \A F : IsFiniteSet(EdgesInto(n, F, edges)) /\ Cardinality(EdgesInto(n, F, edges)) \in Nat
           /\ \A F : Cardinality(EdgesInto(n, F, edges)) = 0 <=> Deps(edges, n) \cap F = {}
           /\ \A F, G : F \cap G = {} =>
                  Cardinality(EdgesInto(n, F \cup G, edges))
                    = Cardinality(EdgesInto(n, F, edges)) + Cardinality(EdgesInto(n, G, edges))
<1>1. IsFiniteSet(edges)
    BY NodesFinite, FS_Product, FS_Subset
<1>2. ASSUME NEW F PROVE IsFiniteSet(EdgesInto(n, F, edges)) /\ Cardinality(EdgesInto(n, F, edges)) \in Nat
    <2>1. EdgesInto(n, F, edges) \in SUBSET edges
        BY DEF EdgesInto
    <2>2. QED
        BY <1>1, <2>1, FS_Subset, FS_CardinalityType
<1>3. ASSUME NEW F PROVE Cardinality(EdgesInto(n, F, edges)) = 0 <=> Deps(edges, n) \cap F = {}
    <2>1. Cardinality(EdgesInto(n, F, edges)) = 0 <=> EdgesInto(n, F, edges) = {}
        BY <1>2, FS_EmptySet
    <2>2. QED
        BY <2>1 DEF EdgesInto, Deps
<1>4. ASSUME NEW F, NEW G, F \cap G = {}
      PROVE  Cardinality(EdgesInto(n, F \cup G, edges))
               = Cardinality(EdgesInto(n, F, edges)) + Cardinality(EdgesInto(n, G, edges))
    <2> DEFINE A == EdgesInto(n, F, edges)
               B == EdgesInto(n, G, edges)
    <2>1. EdgesInto(n, F \cup G, edges) = A \cup B /\ A \cap B = {}
        BY <1>4 DEF EdgesInto
    <2>2. IsFiniteSet(A) /\ IsFiniteSet(B) /\ Cardinality(A) \in Nat /\ Cardinality(B) \in Nat
        BY <1>2
    <2> HIDE DEF A, B
    <2>3. Cardinality(A \cup B) = Cardinality(A) + Cardinality(B) - Cardinality(A \cap B)
        BY <2>2, FS_Union
    <2>4. Cardinality(A \cap B) = 0
        BY <2>1, FS_EmptySet
    <2>5. Cardinality(A \cup B) = Cardinality(A) + Cardinality(B)
        BY <2>2, <2>3, <2>4
    <2>6. QED
        BY <2>1, <2>5 DEF A, B
<1>5. QED
    BY <1>2, <1>3, <1>4

-----------------------------------------------------------------------------
(* The start.                                                              *)

LEMMA InitDag == ASSUME Init PROVE DInv
<1>1. edges \subseteq Nodes \X Nodes /\ out = <<>> /\ Placed = {}
    BY DEF Init, Placed
<1>2. indeg \in [Nodes -> Nat]
    BY <1>1, EdgesIntoFacts DEF Init
<1>3. DagTypes
    <2>1. st \in [Nodes -> States] /\ bst = st
        BY LoopsAssumption DEF Init
    <2>2. out \in Seq(SUBSET Nodes)
        BY <1>1, EmptySeq
    <2>3. cur \subseteq Nodes /\ pc = "layers" /\ i = 1 /\ more = FALSE
        BY DEF Init
    <2>4. i \in Nat \ {0}
        BY <2>3
    <2>5. more \in BOOLEAN
        BY <2>3
    <2>6. QED
        BY <1>1, <1>2, <2>1, <2>2, <2>3, <2>4, <2>5 DEF DagTypes
<1>4. Counters
    <2>1. Nodes \ Placed = Nodes
        BY <1>1
    <2>2. QED
        BY <1>1, <2>1, FS_EmptySet DEF Init, Counters
<1>5. NoCyclePlaced
    BY <1>1 DEF NoCyclePlaced
<1>6. AreLayers
    BY <1>1, LayeredFacts DEF AreLayers, Placed
<1>7. LayersDone /\ Blocks
    BY DEF Init, LayersDone, Blocks
<1>8. QED
    BY <1>3, <1>4, <1>5, <1>6, <1>7 DEF DInv

-----------------------------------------------------------------------------
(* A round of the layering.                                                *)

\* The layer to place has the nodes whose dependencies are all placed.
LEMMA PlacedNext ==
    ASSUME DInv
    PROVE  /\ \A n \in Nodes : n \in Placed \cup cur <=> Deps(edges, n) \subseteq Placed
           /\ Placed \subseteq Nodes
<1>1. edges \subseteq Nodes \X Nodes /\ \A n \in Nodes : Deps(edges, n) \subseteq Nodes
    BY DEF DInv, DagTypes, Deps
<1>2. ASSUME NEW n \in Nodes PROVE n \in Placed \cup cur <=> Deps(edges, n) \subseteq Placed
    <2>1. n \in Placed \cup cur <=> Cardinality(EdgesInto(n, Nodes \ Placed, edges)) = 0
        BY DEF DInv, Counters
    <2>2. n \in Placed \cup cur <=> Deps(edges, n) \cap (Nodes \ Placed) = {}
        BY <1>1, <2>1, EdgesIntoFacts
    <2>3. QED
        BY <1>1, <2>2
<1>3. Placed \subseteq Nodes
    BY DEF DInv, Counters
<1>4. QED
    BY <1>2, <1>3

LEMMA PlaceLayerKeeps == ASSUME DInv, PlaceLayer PROVE DInv'
<1> USE DEF DInv
<1>0. /\ pc = "layers" /\ cur # {} /\ out' = Append(out, cur) /\ placed' = placed + Cardinality(cur)
      /\ indeg' = Decremented /\ cur' = NextLayer
      /\ UNCHANGED <<edges, st, pc, i, more, bst>>
    BY DEF PlaceLayer
<1>1. /\ out \in Seq(SUBSET Nodes) /\ cur \in SUBSET Nodes /\ Len(out) \in Nat
      /\ out' \in Seq(SUBSET Nodes) /\ Len(out') = Len(out) + 1
      /\ \A j \in 1..Len(out) : out'[j] = out[j]
      /\ out'[Len(out) + 1] = cur
    BY <1>0, AppendProperties, LenProperties DEF DagTypes
<1>2. Placed' = Placed \cup cur /\ Placed \cap cur = {} /\ Placed \subseteq Nodes
    <2>1. \A j \in 1..(Len(out) + 1) : j \in 1..Len(out) \/ j = Len(out) + 1
        BY <1>1
    <2>2. 1..Len(out) \subseteq 1..(Len(out) + 1) /\ Len(out) + 1 \in 1..(Len(out) + 1)
        BY <1>1
    <2>3. {out'[j] : j \in 1..(Len(out) + 1)} = {out[j] : j \in 1..Len(out)} \cup {cur}
        BY <1>1, <2>1, <2>2
    <2>4. UNION {out'[j] : j \in 1..(Len(out) + 1)} = (UNION {out[j] : j \in 1..Len(out)}) \cup cur
        <3> DEFINE A == {out'[j] : j \in 1..(Len(out) + 1)}
                   B == {out[j] : j \in 1..Len(out)}
        <3>1. A = B \cup {cur}
            BY <2>3
        <3> HIDE DEF A, B
        <3>2. \A n : n \in UNION A <=> n \in (UNION B) \cup cur
            <4>1. \A C : C \in A <=> C \in B \/ C = cur
                BY <3>1
            <4>2. \A n : n \in UNION A <=> \E C \in A : n \in C
                OBVIOUS
            <4>3. \A n : n \in UNION B <=> \E C \in B : n \in C
                OBVIOUS
            <4>4. \A n : (\E C \in A : n \in C) <=> (\E C \in B : n \in C) \/ n \in cur
                BY <4>1
            <4>5. QED
                BY <4>2, <4>3, <4>4
        <3>3. QED
            BY <3>2 DEF A, B
    <2>5. QED
        BY <1>1, <2>4, PlacedNext DEF Placed, Counters
<1>3. ASSUME NEW n \in Nodes
      PROVE  /\ Cardinality(EdgesInto(n, Nodes \ Placed, edges)) = indeg[n] /\ indeg[n] \in Nat
             /\ Decremented[n] = Cardinality(EdgesInto(n, Nodes \ Placed', edges))
             /\ Decremented[n] \in Nat /\ (indeg[n] = 0 => Decremented[n] = 0)
    <2> DEFINE F == Nodes \ Placed'
    <2>1. Nodes \ Placed = F \cup cur /\ F \cap cur = {}
        BY <1>1, <1>2
    <2> HIDE DEF F
    <2>a. Cardinality(EdgesInto(n, F \cup cur, edges))
            = Cardinality(EdgesInto(n, F, edges)) + Cardinality(EdgesInto(n, cur, edges))
        BY <2>1, EdgesIntoFacts DEF DagTypes
    <2>2. Cardinality(EdgesInto(n, Nodes \ Placed, edges))
            = Cardinality(EdgesInto(n, Nodes \ Placed', edges)) + Cardinality(EdgesInto(n, cur, edges))
        BY <2>1, <2>a DEF F
    <2>3. /\ Cardinality(EdgesInto(n, Nodes \ Placed', edges)) \in Nat
          /\ Cardinality(EdgesInto(n, cur, edges)) \in Nat
        BY EdgesIntoFacts DEF DagTypes
    <2>4. indeg[n] = Cardinality(EdgesInto(n, Nodes \ Placed, edges)) /\ indeg[n] \in Nat
        BY DEF Counters, DagTypes
    <2>5. Decremented[n] = indeg[n] - Cardinality(EdgesInto(n, cur, edges))
        BY DEF Decremented
    <2>6. QED
        BY <2>2, <2>3, <2>4, <2>5
<1>4. Decremented \in [Nodes -> Nat]
    BY <1>3 DEF Decremented
<1>5. DagTypes'
    BY <1>0, <1>1, <1>4 DEF DagTypes, NextLayer
<1>6. Counters'
    <2>1. \A n \in Nodes : indeg'[n] = Cardinality(EdgesInto(n, Nodes \ Placed, edges)')
        BY <1>0, <1>3 DEF EdgesInto
    <2>2. Placed' = {n \in Nodes : indeg[n] = 0}
        BY <1>2 DEF Counters
    <2>3. Placed' \cap cur' = {}
        BY <1>0, <2>2 DEF NextLayer
    <2>4. Placed' \cup cur' = {n \in Nodes : indeg'[n] = 0}
        <3>1. \A n \in Nodes : indeg[n] = 0 \/ (Decremented[n] = 0 /\ indeg[n] > 0) <=> Decremented[n] = 0
            BY <1>3
        <3>2. cur' = {n \in Nodes : Decremented[n] = 0 /\ indeg[n] > 0}
            BY <1>0 DEF NextLayer
        <3>3. QED
            BY <1>0, <2>2, <3>1, <3>2
    <2>5. placed' = Cardinality(Placed')
        <3>1. IsFiniteSet(Placed) /\ IsFiniteSet(cur)
            BY <1>1, <1>2, NodesFinite, FS_Subset
        <3>2. Cardinality(Placed \cup cur) = Cardinality(Placed) + Cardinality(cur) - Cardinality(Placed \cap cur)
            BY <3>1, FS_Union
        <3>3. Cardinality(Placed) \in Nat /\ Cardinality(cur) \in Nat /\ Cardinality(Placed \cap cur) = 0
            BY <1>2, <3>1, FS_CardinalityType, FS_EmptySet
        <3>4. QED
            BY <1>0, <1>2, <3>2, <3>3 DEF Counters
    <2>6. QED
        BY <2>1, <2>3, <2>4, <2>5 DEF Counters, EdgesInto
<1>7. NoCyclePlaced'
    <2>1. SUFFICES ASSUME NEW S \in SUBSET Nodes, S \cap Placed' # {}
                   PROVE  {n \in S : Deps(edges, n) \cap S = {}} # {}
        BY <1>0 DEF NoCyclePlaced, Deps
    <2>2. CASE S \cap Placed # {}
        BY <2>2 DEF NoCyclePlaced
    <2>3. CASE S \cap Placed = {}
        <3>1. PICK n \in S : n \in cur
            BY <1>2, <2>1, <2>3
        <3>2. Deps(edges, n) \subseteq Placed
            BY <3>1, PlacedNext
        <3>3. QED
            BY <2>3, <3>1, <3>2
    <2>4. QED
        BY <2>2, <2>3
<1>8. AreLayers'
    <2>1. ASSUME NEW k \in 0..Len(out) PROVE UNION {out'[j] : j \in 1..k} = UNION {out[j] : j \in 1..k}
        BY <1>1
    <2>2. Layered(Nodes, edges, Len(out)) = Placed
        BY <1>1 DEF AreLayers, Placed
    <2>3. Layered(Nodes, edges, Len(out) + 1) = Placed'
        <3>1. Layered(Nodes, edges, Len(out) + 1) = NextOf(Nodes, edges, Placed)
            <4>1. Layered(Nodes, edges, Len(out) + 1) = NextOf(Nodes, edges, Layered(Nodes, edges, Len(out)))
                <5>1. \A k \in Nat : Layered(Nodes, edges, k + 1) = NextOf(Nodes, edges, Layered(Nodes, edges, k))
                    BY LayeredFacts
                <5>2. QED
                    BY <1>1, <5>1
            <4>2. QED
                BY <2>2, <4>1
        <3>2. NextOf(Nodes, edges, Placed) = Placed \cup cur
            BY <1>1, <1>2, PlacedNext DEF NextOf
        <3>3. QED
            BY <1>2, <3>1, <3>2
    <2>4. UNION {out'[j] : j \in 1..(Len(out) + 1)} = Layered(Nodes, edges, Len(out) + 1)
        BY <1>1, <2>3 DEF Placed
    <2>5. ASSUME NEW k \in 0..Len(out')
          PROVE  UNION {out'[j] : j \in 1..k} = Layered(Nodes, edges, k)
        <3>1. CASE k = Len(out) + 1
            BY <2>4, <3>1
        <3>2. CASE k # Len(out) + 1
            BY <1>1, <2>1, <3>2 DEF AreLayers
        <3>3. QED
            BY <3>1, <3>2
    <2>6. ASSUME NEW k \in 0..(Len(out') - 1) PROVE Layered(Nodes, edges, k) # Placed'
        <3>1. k \in 0..Len(out)
            BY <1>1
        <3>2. Layered(Nodes, edges, k) \subseteq Placed
            <4>1. Layered(Nodes, edges, k) = UNION {out[j] : j \in 1..k}
                BY <3>1 DEF AreLayers
            <4>2. QED
                BY <1>1, <3>1, <4>1 DEF Placed
        <3>3. QED
            BY <1>0, <1>2, <3>2
    <2>7. QED
        BY <1>0, <2>5, <2>6 DEF AreLayers
<1>9. LayersDone' /\ Blocks'
    BY <1>0 DEF LayersDone, Blocks, Stopped, Blocked, BlockClosed, Deps
<1>10. QED
    BY <1>5, <1>6, <1>7, <1>8, <1>9
-----------------------------------------------------------------------------
(* The end of the layering, and the sweeps.                                *)

\* When no layer is left to place: all nodes are placed, or the rest holds a cycle.
LEMMA NothingLeftToPlace ==
    ASSUME DInv, cur = {}
    PROVE  /\ placed < Len(RunNodes) => ~Acyclic(Nodes, edges)
           /\ placed >= Len(RunNodes) => Placed = Nodes /\ Acyclic(Nodes, edges)
<1> USE DEF DInv
<1>1. Placed \subseteq Nodes /\ placed = Cardinality(Placed) /\ \A n \in Nodes : n \in Placed <=> Deps(edges, n) \subseteq Placed
    BY PlacedNext DEF Counters
<1>2. ASSUME Placed # Nodes PROVE ~Acyclic(Nodes, edges)
    <2> DEFINE S == Nodes \ Placed
    <2>1. S \in SUBSET Nodes /\ S # {}
        BY <1>1, <1>2
    <2>2. \A n \in S : Deps(edges, n) \cap S # {}
        BY <1>1 DEF DagTypes, Deps
    <2> HIDE DEF S
    <2>3. {n \in S : Deps(edges, n) \cap S = {}} = {}
        BY <2>2
    <2>4. QED
        BY <2>1, <2>3 DEF Acyclic
<1>3. ASSUME Placed = Nodes PROVE Acyclic(Nodes, edges)
    BY <1>3 DEF Acyclic, NoCyclePlaced
<1>4. placed \in Nat /\ (Placed # Nodes => placed < Len(RunNodes))
    BY <1>1, NodesFinite, FS_Subset, FS_CardinalityType
<1>5. Placed = Nodes => placed = Len(RunNodes)
    BY <1>1, NodesFinite
<1>6. QED
    BY <1>2, <1>3, <1>4, <1>5, NodesFinite

LEMMA LayersEndKeeps == ASSUME DInv, LayersEnd PROVE DInv'
<1> USE DEF DInv
<1>1. /\ pc = "layers" /\ cur = {} /\ pc' \in {"cycle", "sweep"}
      /\ pc' = "cycle" => placed < Len(RunNodes)
      /\ pc' = "sweep" => ~(placed < Len(RunNodes))
      /\ UNCHANGED <<edges, st, indeg, cur, out, placed, i, more, bst>>
    BY DEF LayersEnd, CycleLeft
<1>2. Placed' = Placed
    BY <1>1 DEF Placed
<1>3. DagTypes'
    BY <1>1 DEF DagTypes
<1>4. Counters' /\ NoCyclePlaced'
    BY <1>1, <1>2 DEF Counters, NoCyclePlaced, EdgesInto, Deps
<1>5. AreLayers'
    BY <1>1, <1>2 DEF AreLayers
<1>6. placed \in Nat
    <2>1. IsFiniteSet(Placed) /\ placed = Cardinality(Placed)
        BY PlacedNext, NodesFinite, FS_Subset DEF Counters
    <2>2. QED
        BY <2>1, FS_CardinalityType
<1>7. LayersDone'
    BY <1>1, <1>6, NodesFinite DEF LayersDone
<1>8. Blocks'
    BY <1>1 DEF Blocks, Stopped, Blocked, BlockClosed, Deps
<1>9. QED
    BY <1>3, <1>4, <1>5, <1>7, <1>8

\* A visit of Block keeps what it has blocked downstream of a stopped node.
LEMMA VisitKeepsBlocks == ASSUME DInv, Visit PROVE Blocks' /\ DagTypes'
<1> USE DEF DInv
<1> DEFINE v == RunNodes[i]
<1>1. /\ pc = "sweep" /\ i <= Len(RunNodes) /\ i' = i + 1
      /\ bst' = IF Stopped(v) THEN [bst EXCEPT ![v] = "blocked"] ELSE bst
      /\ more' = (more \/ Stopped(v))
      /\ UNCHANGED <<edges, st, pc, indeg, cur, out, placed>>
    BY DEF Visit
<1>2. i \in Nat \ {0} /\ i \in DOMAIN RunNodes /\ v \in Nodes
    <2>1. i \in Nat \ {0}
        BY DEF DagTypes
    <2>2. i \in DOMAIN RunNodes
        BY <1>1, <2>1, NodesFinite
    <2>3. QED
        BY <2>1, <2>2 DEF Nodes
<1>3. bst \in [Nodes -> States] /\ st \in [Nodes -> States] /\ edges \subseteq Nodes \X Nodes
    BY DEF DagTypes
<1> HIDE DEF v
<1>4. ASSUME Stopped(v) PROVE v \in Blocked(Nodes, edges, st)
    <2>1. bst[v] = "pending" /\ st[v] = "pending"
        BY <1>2, <1>4 DEF Stopped, Blocks
    <2>2. PICK e \in edges : e[2] = v /\ bst[e[1]] \in StopStates
        BY <1>4 DEF Stopped, Deps
    <2>3. e[1] \in Nodes
        BY <1>3
    <2>4. st[e[1]] \in StopStates \/ e[1] \in Blocked(Nodes, edges, st)
        BY <2>2, <2>3 DEF Blocks
    <2>5. ASSUME NEW B \in SUBSET Nodes, BlockClosed(B, Nodes, edges, st) PROVE v \in B
        <3>1. st[e[1]] \in StopStates \/ e[1] \in B
            BY <2>4, <2>5 DEF Blocked
        <3>2. QED
            BY <1>2, <2>1, <2>2, <2>5, <3>1 DEF BlockClosed
    <2>6. QED
        BY <1>2, <2>1, <2>5 DEF Blocked
<1>5. bst' \in [Nodes -> States] /\ \A n \in Nodes : bst'[n] # bst[n] => n = v /\ Stopped(v) /\ bst'[n] = "blocked"
    BY <1>1, <1>2, <1>3 DEF States
<1>6. \A n \in Nodes : bst'[n] # st'[n] => bst'[n] = "blocked" /\ n \in Blocked(Nodes, edges, st)
    BY <1>1, <1>4, <1>5 DEF Blocks
<1>7. ASSUME ~more' PROVE \A k \in 1..(i' - 1) : k <= Len(RunNodes) => ~Stopped(RunNodes[k])'
    <2>1. ~more /\ ~Stopped(v) /\ bst' = bst
        BY <1>1, <1>7
    <2>2. \A k \in 1..(i' - 1) : k \in 1..(i - 1) \/ k = i
        BY <1>1, <1>2
    <2>3. \A k \in 1..(i' - 1) : k <= Len(RunNodes) => ~Stopped(RunNodes[k])
        BY <2>1, <2>2 DEF Blocks, v
    <2>4. QED
        BY <1>1, <2>1, <2>3 DEF Stopped, Deps
<1>8. Blocks'
    BY <1>1, <1>6, <1>7 DEF Blocks, Blocked, BlockClosed
<1>9. more' \in BOOLEAN
    BY <1>1
<1>10. i' \in Nat \ {0}
    BY <1>1, <1>2
<1>11. QED
    BY <1>1, <1>5, <1>8, <1>9, <1>10 DEF DagTypes

LEMMA SweepKeeps == ASSUME DInv, Visit \/ SweepAgain \/ SweepsEnd PROVE DInv'
<1>1. /\ pc = "sweep" /\ pc' \in {"sweep", "done"}
      /\ UNCHANGED <<edges, st, indeg, cur, out, placed>>
    BY DEF Visit, SweepAgain, SweepsEnd
<1>2. Placed' = Placed
    BY <1>1 DEF Placed
<1>3. Counters' /\ NoCyclePlaced'
    BY <1>1, <1>2 DEF DInv, Counters, NoCyclePlaced, EdgesInto, Deps
<1>4. AreLayers' /\ LayersDone'
    BY <1>1, <1>2 DEF DInv, AreLayers, LayersDone
<1>5. DagTypes' /\ Blocks'
    <2>1. CASE Visit
        BY <2>1, VisitKeepsBlocks
    <2>2. CASE SweepAgain
        <3>1. i' = 1 /\ more' = FALSE /\ bst' = bst /\ pc' = pc
            BY <2>2 DEF SweepAgain
        <3>2. i' \in Nat \ {0} /\ 1..(i' - 1) = {}
            BY <3>1
        <3>3. more' \in BOOLEAN
            BY <3>1
        <3>4. DagTypes'
            BY <1>1, <3>1, <3>2, <3>3 DEF DInv, DagTypes
        <3>5. Blocks'
            BY <1>1, <3>1, <3>2 DEF DInv, Blocks, Blocked, BlockClosed
        <3>6. QED
            BY <3>4, <3>5
    <2>3. CASE SweepsEnd
        <3>1. i > Len(RunNodes) /\ ~more /\ i' = i /\ more' = more /\ bst' = bst
            BY <2>3 DEF SweepsEnd
        <3>2. DagTypes'
            BY <1>1, <3>1 DEF DInv, DagTypes
        <3>3. Blocks'
            BY <1>1, <3>1 DEF DInv, Blocks, Stopped, Deps, Blocked, BlockClosed
        <3>4. QED
            BY <3>2, <3>3
    <2>4. QED
        BY <2>1, <2>2, <2>3
<1>6. QED
    BY <1>3, <1>4, <1>5 DEF DInv

LEMMA NextKeeps == ASSUME DInv, [Next]_vars PROVE DInv'
<1>1. CASE UNCHANGED vars
    <2>1. UNCHANGED <<edges, st, pc, indeg, cur, out, placed, i, more, bst>>
        BY <1>1 DEF vars
    <2>2. Placed' = Placed
        BY <2>1 DEF Placed
    <2>3. DagTypes' /\ LayersDone'
        BY <2>1 DEF DInv, DagTypes, LayersDone
    <2>4. Counters' /\ NoCyclePlaced' /\ AreLayers'
        BY <2>1, <2>2 DEF DInv, Counters, NoCyclePlaced, AreLayers, EdgesInto, Deps
    <2>5. Blocks'
        BY <2>1 DEF DInv, Blocks, Stopped, Blocked, BlockClosed, Deps
    <2>6. QED
        BY <2>3, <2>4, <2>5 DEF DInv
<1>2. CASE Next
    BY <1>1, <1>2, PlaceLayerKeeps, LayersEndKeeps, SweepKeeps DEF Next, Step, Returned
<1>3. QED
    BY <1>1, <1>2

\* The strengthening the three results below follow from: types, the counts
\* of edges and placed nodes, no cycle through a placed node, the layers as
\* AgentDag's, and what the sweeps have blocked (dag.go layers, Block).
THEOREM DagInvariant == Spec => []DInv
<1>1. Init => DInv
    BY InitDag
<1>2. DInv /\ [Next]_vars => DInv'
    BY NextKeeps
<1>3. QED
    BY <1>1, <1>2, PTL DEF Spec

-----------------------------------------------------------------------------
(* What the loops compute.                                                 *)

LEMMA LayersAreRight == ASSUME DInv PROVE LayersRight
<1> USE DEF DInv
<1>1. SUFFICES ASSUME pc \in {"sweep", "done"}, NEW k \in 1..Len(RunNodes)
               PROVE  Len(out) <= k <=> Layered(Nodes, edges, k) = Nodes
    BY DEF LayersRight, AreLayers
<1>2. Placed = Nodes /\ Len(out) \in Nat
    BY <1>1, NothingLeftToPlace, LenProperties DEF LayersDone, DagTypes
<1>3. CASE k < Len(out)
    <2>1. k \in 0..(Len(out) - 1)
        BY <1>1, <1>2, <1>3
    <2>2. QED
        BY <1>1, <1>2, <1>3, <2>1 DEF AreLayers
<1>4. CASE k >= Len(out)
    <2> DEFINE P == {j \in Nat : Layered(Nodes, edges, Len(out) + j) = Nodes}
    <2>1. 0 \in P
        <3>1. Len(out) \in 0..Len(out) /\ Len(out) + 0 = Len(out)
            BY <1>2
        <3>2. QED
            BY <1>2, <3>1 DEF AreLayers, Placed
    <2>2. ASSUME NEW j \in Nat, j \in P PROVE j + 1 \in P
        <3>1. \A m \in Nat : Layered(Nodes, edges, m + 1) = NextOf(Nodes, edges, Layered(Nodes, edges, m))
            BY LayeredFacts
        <3>2. Len(out) + j \in Nat /\ Len(out) + (j + 1) = (Len(out) + j) + 1
            BY <1>2
        <3>3. NextOf(Nodes, edges, Nodes) = Nodes
            BY DEF NextOf, Deps, DagTypes
        <3>4. QED
            BY <2>2, <3>1, <3>2, <3>3
    <2> HIDE DEF P
    <2>3. k - Len(out) \in P
        BY <1>1, <1>2, <1>4, <2>1, <2>2, LeastWithout
    <2>4. Len(out) + (k - Len(out)) = k
        BY <1>1, <1>2
    <2>5. QED
        BY <1>1, <1>4, <2>3, <2>4 DEF P
<1>5. QED
    BY <1>1, <1>2, <1>3, <1>4

\* layers places, round by round, the layers of AgentDag, and no fewer than
\* its count of them hold every node (dag.go layers, Validate's MaxLayers).
THEOREM LayersComputed == Spec => []LayersRight
<1>1. DInv => LayersRight
    BY LayersAreRight
<1>2. QED
    BY <1>1, DagInvariant, PTL

\* layers reports a cycle exactly when the edges form one (Normalize).
THEOREM CyclesFound == Spec => []CycleFound
<1>1. DInv => CycleFound
    <2>1. SUFFICES ASSUME DInv, pc # "layers" PROVE CycleFound
        BY DEF CycleFound
    <2>2. cur = {} /\ (pc = "cycle" => placed < Len(RunNodes))
                  /\ (pc \in {"sweep", "done"} => placed >= Len(RunNodes))
        BY <2>1 DEF DInv, LayersDone
    <2>3. QED
        BY <2>1, <2>2, NothingLeftToPlace DEF CycleFound
<1>2. QED
    BY <1>1, DagInvariant, PTL

\* The sweeps of Block end with exactly the pending nodes downstream of a
\* stopped one blocked, in whatever order they visit the nodes.
THEOREM BlockComputed == Spec => []BlockRight
<1>1. ASSUME DInv, pc = "done" PROVE bst = Block(Nodes, edges, st)
    <2>1. ~more /\ i > Len(RunNodes) /\ i \in Nat /\ edges \subseteq Nodes \X Nodes
          /\ st \in [Nodes -> States] /\ bst \in [Nodes -> States]
        BY <1>1 DEF DInv, Blocks, DagTypes
    <2>2. \A n \in Nodes : bst[n] # st[n] => bst[n] = "blocked" /\ n \in Blocked(Nodes, edges, st)
        BY <1>1 DEF DInv, Blocks
    <2>3. ASSUME NEW n \in Nodes PROVE ~Stopped(n)
        <3>1. PICK k \in 1..Len(RunNodes) : n = RunNodes[k]
            BY NodesFinite DEF Nodes
        <3>2. k \in 1..(i - 1) /\ k <= Len(RunNodes)
            BY <2>1, NodesFinite
        <3>3. QED
            BY <1>1, <2>1, <3>1, <3>2 DEF DInv, Blocks
    <2> DEFINE B == {n \in Nodes : bst[n] # st[n]}
    <2>4. BlockClosed(B, Nodes, edges, st)
        <3>1. SUFFICES ASSUME NEW e \in edges, st[e[2]] = "pending",
                              st[e[1]] \in StopStates \/ e[1] \in B, e[2] \notin B
                       PROVE  FALSE
            BY DEF BlockClosed
        <3>2. e[1] \in Nodes /\ e[2] \in Nodes /\ e[1] \in Deps(edges, e[2])
            BY <2>1 DEF Deps
        <3>3. bst[e[2]] = "pending"
            BY <3>1, <3>2
        <3>4. bst[e[1]] \in StopStates
            BY <2>2, <3>1, <3>2 DEF StopStates
        <3>5. QED
            BY <2>3, <3>2, <3>3, <3>4 DEF Stopped
    <2>5. B \in SUBSET Nodes
        OBVIOUS
    <2>6. \A n \in Nodes : n \in Blocked(Nodes, edges, st) <=> n \in B
        BY <2>2, <2>4, <2>5 DEF Blocked
    <2>7. \A n \in Nodes : bst[n] = IF n \in Blocked(Nodes, edges, st) THEN "blocked" ELSE st[n]
        BY <2>2, <2>6
    <2>8. DOMAIN st = Nodes
        BY <2>1
    <2>9. QED
        BY <2>1, <2>7, <2>8 DEF Block
<1>2. DInv => BlockRight
    BY <1>1 DEF BlockRight, DInv, Blocks
<1>3. QED
    BY <1>2, DagInvariant, PTL
=============================================================================
