------------------------ MODULE ImpactAnalysisProofs ------------------------
(***************************************************************************)
(* The impact analysis of whatever sources, catalog and diff: the search   *)
(* finds a shortest route to every terminal within reach, a persisted field*)
(* always has one, and a change without one is asked about.  The invariant *)
(* is the one of a breadth-first search; the recursive definition of what  *)
(* is within reach is first shown to be that of the walks of a length.     *)
(***************************************************************************)
EXTENDS ImpactAnalysis, TLAPS, FiniteSetTheorems, SequenceTheorems

(* Every non-empty set of numbers has a least one.                         *)
LEMMA LeastNumber ==
    ASSUME NEW S \in SUBSET Nat, S # {}
    PROVE  \E i \in S : \A j \in S : i <= j
<1> DEFINE R == OpToRel(<, Nat)
<1>1. IsWellFoundedOn(R, Nat) BY NatLessThanWellFounded
<1>2. \A i, j \in Nat : i < j => <<i, j>> \in R BY DEF OpToRel
<1> HIDE DEF R
<1>3. PICK i \in S : \A j \in S : ~(<<j, i>> \in R) BY <1>1, WFMin
<1>4. \A j \in S : ~(j < i) BY <1>2, <1>3
<1> QED BY <1>4

(* Induction over the numbers, for a set.                                  *)
LEMMA Inductive ==
    ASSUME NEW S, 0 \in S, \A k \in Nat : k \in S => k + 1 \in S
    PROVE  \A k \in Nat : k \in S
<1> SUFFICES ASSUME Nat \ S # {} PROVE FALSE OBVIOUS
<1>1. PICK i \in Nat \ S : \A j \in Nat \ S : i <= j BY LeastNumber
<1>2. i # 0 /\ i - 1 \in Nat /\ (i - 1) + 1 = i /\ ~(i <= i - 1) BY <1>1
<1> QED BY <1>1, <1>2

-----------------------------------------------------------------------------
(* The search seen without what it keeps: the nodes one step ahead of a    *)
(* node, and those that at most k steps reach.  Only the start is seen     *)
(* without a boundary crossed, since only what crosses one leads away.     *)
Ahead(g, s, n) ==
    {m \in g.nodes \ {s} :
        \E e \in g.edges :
            /\ (e.from = n /\ e.to = m) \/ (e.to = n /\ e.from = m)
            /\ e.kind \in Semantic \/ (n # s /\ e.kind \in Structural)}

At(n, s) == IF n = s THEN <<s, FALSE>> ELSE <<n, TRUE>>

Walks(g, s, k) ==
    {w \in [0..k -> g.nodes] :
        /\ w[0] = s
        /\ \A i \in 0..(k - 1) : w[i + 1] = w[i] \/ w[i + 1] \in Ahead(g, s, w[i])}
Near(g, s, k) == {n \in g.nodes : \E w \in Walks(g, s, k) : w[k] = n}

LEMMA NearStart ==
    ASSUME NEW g, NEW s \in g.nodes
    PROVE  Near(g, s, 0) = {s}
<1>1. [i \in 0..0 |-> s] \in Walks(g, s, 0) BY DEF Walks
<1>2. [i \in 0..0 |-> s][0] = s OBVIOUS
<1>3. \A w \in Walks(g, s, 0) : w[0] = s BY DEF Walks
<1> QED BY <1>1, <1>2, <1>3 DEF Near

LEMMA NearFurther ==
    ASSUME NEW g, NEW s \in g.nodes, NEW k \in Nat
    PROVE  Near(g, s, k + 1) = Near(g, s, k) \cup UNION {Ahead(g, s, n) : n \in Near(g, s, k)}
<1>1. ASSUME NEW m \in Near(g, s, k + 1)
      PROVE  m \in Near(g, s, k) \/ \E n \in Near(g, s, k) : m \in Ahead(g, s, n)
  <2>1. PICK w \in Walks(g, s, k + 1) : w[k + 1] = m BY <1>1 DEF Near
  <2> DEFINE v == [i \in 0..k |-> w[i]]
  <2>2. v \in Walks(g, s, k) /\ v[k] = w[k] /\ w[k] \in g.nodes
    <3>1. w \in [0..(k + 1) -> g.nodes] /\ w[0] = s BY <2>1 DEF Walks
    <3>2. \A i \in 0..k : w[i + 1] = w[i] \/ w[i + 1] \in Ahead(g, s, w[i])
      BY <2>1 DEF Walks
    <3>3. \A i \in 0..(k - 1) : i \in 0..k /\ i + 1 \in 0..k OBVIOUS
    <3> QED BY <3>1, <3>2, <3>3 DEF Walks
  <2>3. w[k] \in Near(g, s, k) BY <2>2 DEF Near
  <2>4. w[k + 1] = w[k] \/ w[k + 1] \in Ahead(g, s, w[k])
    BY <2>1 DEF Walks
  <2> QED BY <2>1, <2>3, <2>4
<1>2. ASSUME NEW n \in Near(g, s, k), NEW m \in g.nodes, m = n \/ m \in Ahead(g, s, n)
      PROVE  m \in Near(g, s, k + 1)
  <2>1. PICK w \in Walks(g, s, k) : w[k] = n BY DEF Near
  <2> DEFINE v == [i \in 0..(k + 1) |-> IF i = k + 1 THEN m ELSE w[i]]
  <2>2. w \in [0..k -> g.nodes] /\ w[0] = s BY DEF Walks
  <2>3. \A i \in 0..(k - 1) : w[i + 1] = w[i] \/ w[i + 1] \in Ahead(g, s, w[i]) BY DEF Walks
  <2>4. \A i \in 0..k : v[i] = w[i] BY <2>2
  <2>5. v[k + 1] = m OBVIOUS
  <2>6. v \in [0..(k + 1) -> g.nodes] BY <2>2
  <2> HIDE DEF v
  <2>7. ASSUME NEW i \in 0..k PROVE v[i + 1] = v[i] \/ v[i + 1] \in Ahead(g, s, v[i])
    <3>1. CASE i = k BY <1>2, <2>1, <2>4, <2>5, <3>1
    <3>2. CASE i # k
      <4>1. i \in 0..(k - 1) /\ i + 1 \in 0..k BY <3>2
      <4> QED BY <2>3, <2>4, <4>1
    <3> QED BY <3>1, <3>2
  <2>8. v \in Walks(g, s, k + 1)
    <3>1. v[0] = s /\ 0..((k + 1) - 1) = 0..k BY <2>2, <2>4
    <3> QED BY <2>6, <2>7, <3>1 DEF Walks
  <2> QED BY <2>5, <2>8 DEF Near
<1>3. Near(g, s, k) \subseteq g.nodes /\ \A n \in Near(g, s, k) : Ahead(g, s, n) \subseteq g.nodes
  BY DEF Near, Ahead
<1> QED BY <1>1, <1>2, <1>3

LEMMA NearGrows ==
    ASSUME NEW g, NEW s \in g.nodes
    PROVE  \A j, k \in Nat : j <= k => Near(g, s, j) \subseteq Near(g, s, k)
<1> DEFINE S == {k \in Nat : \A j \in Nat : j <= k => Near(g, s, j) \subseteq Near(g, s, k)}
<1>1. 0 \in S OBVIOUS
<1>2. ASSUME NEW k \in Nat, k \in S PROVE k + 1 \in S
  <2>1. Near(g, s, k) \subseteq Near(g, s, k + 1) BY NearFurther
  <2>2. \A j \in Nat : j <= k + 1 => j <= k \/ j = k + 1 OBVIOUS
  <2> QED BY <1>2, <2>1, <2>2
<1> HIDE DEF S
<1>3. \A k \in Nat : k \in S BY <1>1, <1>2, Inductive
<1> QED BY <1>3 DEF S

(* Of finitely many nodes, those that some number of steps reach, as many  *)
(* steps as there are nodes reach: a round that adds none is the last.     *)
LEMMA NearAll ==
    ASSUME NEW g, NEW s \in g.nodes, IsFiniteSet(g.nodes), NEW k \in Nat
    PROVE  Near(g, s, k) \subseteq Near(g, s, Cardinality(g.nodes))
<1> DEFINE N == Cardinality(g.nodes)
           Still(i) == Near(g, s, i + 1) = Near(g, s, i)
           Size(i) == Cardinality(Near(g, s, i))
<1>1. \A i \in Nat : IsFiniteSet(Near(g, s, i)) /\ Size(i) \in Nat /\ Size(i) <= N
  BY FS_Subset, FS_CardinalityType DEF Near
<1>2. N \in Nat BY FS_CardinalityType
<1>3. \A i \in Nat : ~Still(i) => Size(i + 1) >= Size(i) + 1
  <2> SUFFICES ASSUME NEW i \in Nat, ~Still(i) PROVE Size(i + 1) >= Size(i) + 1 OBVIOUS
  <2>1. i + 1 \in Nat /\ Near(g, s, i) \subseteq Near(g, s, i + 1) BY NearFurther
  <2>2. Size(i) <= Size(i + 1) /\ Size(i) # Size(i + 1)
    BY <1>1, <2>1, FS_Subset
  <2> QED BY <1>1, <2>1, <2>2
<1>4. \A i \in Nat : Still(i) => Still(i + 1)
  <2> SUFFICES ASSUME NEW i \in Nat, Still(i) PROVE Still(i + 1) OBVIOUS
  <2>1. Near(g, s, i + 1) = Near(g, s, i) \cup UNION {Ahead(g, s, n) : n \in Near(g, s, i)}
    BY NearFurther
  <2>2. Near(g, s, (i + 1) + 1)
          = Near(g, s, i + 1) \cup UNION {Ahead(g, s, n) : n \in Near(g, s, i + 1)}
    BY NearFurther
  <2> QED BY <2>1, <2>2
<1> HIDE DEF Still, Size, N
<1>5. \E i \in 0..N : Still(i)
  <2> SUFFICES ASSUME \A i \in 0..N : ~Still(i) PROVE FALSE OBVIOUS
  <2> DEFINE S == {i \in Nat : i <= N + 1 => Size(i) >= i}
  <2>1. 0 \in S BY <1>1
  <2>2. ASSUME NEW i \in Nat, i \in S PROVE i + 1 \in S
    <3> SUFFICES ASSUME i + 1 <= N + 1 PROVE Size(i + 1) >= i + 1 OBVIOUS
    <3>1. i \in 0..N /\ Size(i) >= i BY <1>2, <2>2
    <3>2. Size(i + 1) >= Size(i) + 1 BY <1>3, <3>1
    <3> QED BY <1>1, <3>1, <3>2
  <2> HIDE DEF S
  <2>3. N + 1 \in S BY <1>2, <2>1, <2>2, Inductive
  <2>4. Size(N + 1) >= N + 1 /\ Size(N + 1) <= N /\ Size(N + 1) \in Nat
    BY <1>1, <1>2, <2>3 DEF S
  <2> QED BY <1>2, <2>4
<1>6. PICK i \in 0..N : Still(i) BY <1>5
<1>7. i \in Nat /\ i <= N BY <1>2, <1>6
<1> DEFINE S == {j \in Nat : Still(i + j) /\ Near(g, s, i + j) = Near(g, s, i)}
<1>8. 0 \in S BY <1>6, <1>7
<1>9. ASSUME NEW j \in Nat, j \in S PROVE j + 1 \in S
  <2>1. Still((i + j) + 1) BY <1>4, <1>7, <1>9
  <2>2. Near(g, s, (i + j) + 1) = Near(g, s, i) BY <1>9 DEF Still
  <2>3. (i + j) + 1 = i + (j + 1) BY <1>7
  <2> QED BY <2>1, <2>2, <2>3
<1> HIDE DEF S
<1>10. \A j \in Nat : j \in S BY <1>8, <1>9, Inductive
<1>11. Near(g, s, i) \subseteq Near(g, s, N) BY <1>2, <1>7, NearGrows
<1>12. CASE k <= i
  <2>1. Near(g, s, k) \subseteq Near(g, s, i) BY <1>7, <1>12, NearGrows
  <2> QED BY <1>11, <2>1 DEF N
<1>13. CASE ~(k <= i)
  <2>1. k - i \in Nat /\ i + (k - i) = k BY <1>7, <1>13
  <2>2. Near(g, s, k) = Near(g, s, i) BY <1>10, <2>1 DEF S
  <2> QED BY <1>11, <2>2 DEF N
<1> QED BY <1>12, <1>13
-----------------------------------------------------------------------------
(* What the search keeps, in these terms.                                  *)
Closed(g) == \A e \in g.edges : {e.from, e.to} \subseteq g.nodes

LEMMA StepsAhead ==
    ASSUME Closed(graph), NEW n
    PROVE  Steps(At(n, start)[1], At(n, start)[2])
               = {<<m, TRUE>> : m \in Ahead(graph, start, n)}
<1> DEFINE c == At(n, start)[2]
           Taken(e) == /\ n \in {e.from, e.to}
                       /\ OtherEnd(e, n) # start
                       /\ e.kind \in Semantic \/ (c /\ e.kind \in Structural)
<1>1. At(n, start)[1] = n /\ c \in BOOLEAN /\ (c <=> n # start) BY DEF At
<1>2. Steps(n, c) = {<<OtherEnd(e, n), c \/ e.kind \in Semantic>> : e \in {f \in graph.edges : Taken(f)}}
  BY DEF Steps
<1>3. \A e \in graph.edges : Taken(e) => ((c \/ e.kind \in Semantic) = TRUE)
  BY <1>1
<1>4. Steps(n, c) = {<<OtherEnd(e, n), TRUE>> : e \in {f \in graph.edges : Taken(f)}}
  <2> HIDE DEF c
  <2> QED BY <1>2, <1>3
<1>5. \A m : m \in Ahead(graph, start, n) <=> \E e \in graph.edges : Taken(e) /\ OtherEnd(e, n) = m
  <2>1. ASSUME NEW m, NEW e \in graph.edges, Taken(e), OtherEnd(e, n) = m
        PROVE  m \in Ahead(graph, start, n)
    <3>1. (e.from = n /\ e.to = m) \/ (e.to = n /\ e.from = m) BY <2>1 DEF OtherEnd
    <3>2. m \in graph.nodes \ {start} BY <2>1, <3>1 DEF Closed
    <3>3. e.kind \in Semantic \/ (n # start /\ e.kind \in Structural) BY <1>1, <2>1
    <3> QED BY <3>1, <3>2, <3>3 DEF Ahead
  <2>2. ASSUME NEW m, m \in Ahead(graph, start, n)
        PROVE  \E e \in graph.edges : Taken(e) /\ OtherEnd(e, n) = m
    <3>1. m # start BY <2>2 DEF Ahead
    <3>2. PICK e \in graph.edges :
               /\ (e.from = n /\ e.to = m) \/ (e.to = n /\ e.from = m)
               /\ e.kind \in Semantic \/ (n # start /\ e.kind \in Structural)
      BY <2>2 DEF Ahead
    <3>3. OtherEnd(e, n) = m /\ n \in {e.from, e.to} BY <3>2 DEF OtherEnd
    <3>4. e.kind \in Semantic \/ (c /\ e.kind \in Structural) BY <1>1, <3>2
    <3> QED BY <3>1, <3>3, <3>4
  <2> QED BY <2>1, <2>2
<1> HIDE DEF Taken
<1>6. Steps(n, c) = {<<m, TRUE>> : m \in Ahead(graph, start, n)}
  <2> HIDE DEF c
  <2> QED BY <1>4, <1>5
<1> QED BY <1>1, <1>6

LEMMA AheadIsNoStart ==
    ASSUME NEW g, NEW s, NEW n
    PROVE  {<<m, TRUE>> : m \in Ahead(g, s, n)} = {At(m, s) : m \in Ahead(g, s, n)}
<1>1. \A m \in Ahead(g, s, n) : At(m, s) = <<m, TRUE>> BY DEF Ahead, At
<1> QED BY <1>1

(* The definition of Within is satisfied by what is near.                  *)
LEMMA WithinIsNear ==
    ASSUME Closed(graph), start \in graph.nodes
    PROVE  \A k \in Nat : Within[k] = {At(n, start) : n \in Near(graph, start, k)}
<1> DEFINE Seen(k) == {At(n, start) : n \in Near(graph, start, k)}
           W == [k \in Nat |-> Seen(k)]
           Further(X) == X \cup UNION {Steps(p[1], p[2]) : p \in X}
<1>1. Seen(0) = {<<start, FALSE>>} 
  <2>1. Near(graph, start, 0) = {start} /\ At(start, start) = <<start, FALSE>>
    BY NearStart DEF At
  <2>2. Seen(0) = {At(start, start)} BY Zenon, <2>1
  <2> QED BY <2>1, <2>2
<1>2. ASSUME NEW k \in Nat PROVE Seen(k + 1) = Further(Seen(k))
  <2>1. \A n : Steps(At(n, start)[1], At(n, start)[2]) = {At(m, start) : m \in Ahead(graph, start, n)}
    BY StepsAhead, AheadIsNoStart
  <2>2. Near(graph, start, k + 1) = Near(graph, start, k)
                                      \cup UNION {Ahead(graph, start, n) : n \in Near(graph, start, k)}
    BY NearFurther
  <2>3. ASSUME NEW p
        PROVE  p \in UNION {Steps(q[1], q[2]) : q \in Seen(k)}
                 <=> \E n \in Near(graph, start, k) : \E m \in Ahead(graph, start, n) : p = At(m, start)
    <3>1. p \in UNION {Steps(q[1], q[2]) : q \in Seen(k)}
            <=> \E n \in Near(graph, start, k) : p \in Steps(At(n, start)[1], At(n, start)[2])
      OBVIOUS
    <3> QED BY <2>1, <3>1
  <2>4. ASSUME NEW p
        PROVE  p \in Seen(k + 1) <=> p \in Seen(k) \/ p \in UNION {Steps(q[1], q[2]) : q \in Seen(k)}
    <3>1. p \in Seen(k + 1) <=> \/ p \in Seen(k)
                                 \/ \E n \in Near(graph, start, k) : \E m \in Ahead(graph, start, n) :
                                        p = At(m, start)
      BY <2>2
    <3> QED BY <2>3, <3>1
  <2> HIDE DEF Seen
  <2> QED BY <2>4
<1> HIDE DEF Seen, Further
<1>3. W = [k \in Nat |-> IF k = 0 THEN {<<start, FALSE>>} ELSE Further(W[k - 1])]
  <2> SUFFICES ASSUME NEW k \in Nat
               PROVE  W[k] = IF k = 0 THEN {<<start, FALSE>>} ELSE Further(W[k - 1])
    OBVIOUS
  <2>1. CASE k = 0 BY <1>1, <2>1
  <2>2. CASE k # 0
    <3>1. k - 1 \in Nat /\ (k - 1) + 1 = k BY <2>2
    <3>2. W[k] = Seen(k) /\ W[k - 1] = Seen(k - 1) BY <3>1
    <3>3. Seen(k) = Further(Seen(k - 1)) BY <1>2, <3>1
    <3> QED BY <2>2, <3>2, <3>3
  <2> QED BY <2>1, <2>2
<1> HIDE DEF W
<1>4. Within = [k \in Nat |-> IF k = 0 THEN {<<start, FALSE>>} ELSE Further(Within[k - 1])]
  <2> DEFINE Def(f) == f = [k \in Nat |-> IF k = 0 THEN {<<start, FALSE>>} ELSE Further(f[k - 1])]
  <2>1. \E f : Def(f) BY <1>3
  <2>2. Within = CHOOSE f : Def(f) BY Zenon DEF Within, Further
  <2> HIDE DEF Def
  <2>3. Def(Within) BY <2>1, <2>2
  <2> QED BY <2>3 DEF Def
<1> DEFINE S == {k \in Nat : Within[k] = Seen(k)}
<1>5. 0 \in S
  <2>1. Within[0] = {<<start, FALSE>>} BY <1>4
  <2> QED BY <1>1, <2>1
<1>6. ASSUME NEW k \in Nat, k \in S PROVE k + 1 \in S
  <2>1. k + 1 \in Nat /\ k + 1 # 0 /\ (k + 1) - 1 = k OBVIOUS
  <2>2. Within[k + 1] = Further(Within[k]) BY <1>4, <2>1
  <2> QED BY <1>2, <1>6, <2>2
<1> HIDE DEF S
<1>7. \A k \in Nat : k \in S BY <1>5, <1>6, Inductive
<1> QED BY <1>7 DEF S, Seen
-----------------------------------------------------------------------------
(* The invariant of the search.  The path of an entry is a shortest way to *)
(* it, the entries are in the order of their distance, no two of them more *)
(* than a step apart, and what was seen and is no longer in the queue has  *)
(* led to all that is ahead of it.                                         *)
Entries(g) == [at : g.nodes, crossed : BOOLEAN, path : Seq(g.nodes)]
Queued(q) == UNION {q[i] : i \in DOMAIN q}

Way(g, s, n, path) ==
    /\ path \in Seq(g.nodes) /\ path # <<>>
    /\ path[1] = s /\ path[Len(path)] = n
    /\ \A i \in 1..(Len(path) - 1) : path[i + 1] \in Ahead(g, s, path[i])
    /\ n \in Near(g, s, Len(path) - 1)
    /\ \A k \in Nat : k + 1 < Len(path) => n \notin Near(g, s, k)

InOrder(q) ==
    \A i, j \in DOMAIN q : \A x \in q[i], y \in q[j] :
        /\ i <= j => Len(x.path) <= Len(y.path)
        /\ Len(y.path) <= Len(x.path) + 1

Explored(g, s, n, sn, rt) ==
    /\ \A m \in Ahead(g, s, n) : At(m, s) \in sn
    /\ (n # s /\ Terminal(n)) => n \in DOMAIN rt

Searched(g, s, q, sn, rt) ==
    /\ q \in Seq(SUBSET Entries(g))
    /\ \A e \in Queued(q) : <<e.at, e.crossed>> = At(e.at, s) /\ Way(g, s, e.at, e.path)
    /\ InOrder(q)
    /\ sn \subseteq {At(n, s) : n \in g.nodes} /\ At(s, s) \in sn
    /\ \A n \in g.nodes :
          At(n, s) \in sn => Explored(g, s, n, sn, rt) \/ \E e \in Queued(q) : e.at = n
    /\ \A n \in DOMAIN rt : n \in g.nodes \ {s} /\ Terminal(n) /\ Way(g, s, n, rt[n])

(* When nothing in the queue is nearer than k steps, all that is within k  *)
(* steps was seen: breadth first misses nothing on its way out.            *)
LEMMA NearIsSeen ==
    ASSUME NEW g, NEW s \in g.nodes, NEW q, NEW sn, NEW rt, Searched(g, s, q, sn, rt),
           NEW k \in Nat, \A e \in Queued(q) : k < Len(e.path)
    PROVE  \A n \in Near(g, s, k) : At(n, s) \in sn
<1> DEFINE S == {j \in Nat : j <= k => \A n \in Near(g, s, j) : At(n, s) \in sn}
<1>1. 0 \in S
  <2>1. Near(g, s, 0) = {s} /\ At(s, s) \in sn BY NearStart DEF Searched
  <2> QED BY <2>1
<1>2. ASSUME NEW j \in Nat, j \in S PROVE j + 1 \in S
  <2> SUFFICES ASSUME j + 1 <= k PROVE \A n \in Near(g, s, j + 1) : At(n, s) \in sn OBVIOUS
  <2>1. \A n \in Near(g, s, j) : At(n, s) \in sn /\ n \in g.nodes BY <1>2 DEF Near
  <2>2. \A n \in Near(g, s, j) : Explored(g, s, n, sn, rt)
    <3> SUFFICES ASSUME NEW n \in Near(g, s, j), NEW e \in Queued(q), e.at = n PROVE FALSE
      BY <2>1 DEF Searched
    <3>1. Way(g, s, n, e.path) /\ j + 1 < Len(e.path)
      <4>1. Way(g, s, n, e.path) /\ k < Len(e.path) BY DEF Searched
      <4>2. Len(e.path) \in Nat BY <4>1 DEF Way
      <4> QED BY <4>1, <4>2
    <3> QED BY <3>1 DEF Way
  <2>3. Near(g, s, j + 1) = Near(g, s, j) \cup UNION {Ahead(g, s, n) : n \in Near(g, s, j)}
    BY NearFurther
  <2> QED BY <2>1, <2>2, <2>3 DEF Explored
<1> HIDE DEF S
<1>3. \A j \in Nat : j \in S BY <1>1, <1>2, Inductive
<1> QED BY <1>3 DEF S

(* The queue after a turn: one entry less, a batch more at its end.        *)
AfterTurn(E, q, h, F, t) ==
    /\ t \in Seq(SUBSET E)
    /\ Queued(q) \ {h} \subseteq Queued(t) /\ F \subseteq Queued(t)
    /\ \E off \in {0, 1} : \A i \in DOMAIN t :
          \/ i + off \in DOMAIN q /\ t[i] \subseteq q[i + off]
          \/ t[i] = F /\ \A j \in DOMAIN t : i <= j => t[j] = F

LEMMA QueueAfterTurn ==
    ASSUME NEW E, NEW q \in Seq(SUBSET E), q # <<>>, NEW h \in Head(q), NEW F \in SUBSET E,
           NEW t, t = Enqueue(Batch(F), Batch(Head(q) \ {h}) \o Tail(q))
    PROVE  AfterTurn(E, q, h, F, t)
<1> DEFINE H == Head(q) \ {h}
           r == Batch(H) \o Tail(q)
           off == IF H = {} THEN 1 ELSE 0
<1>1. Len(q) \in Nat \ {0} /\ DOMAIN q = 1..Len(q) /\ Head(q) = q[1] /\ q[1] \in SUBSET E
  BY EmptySeq, LenProperties
<1>2. /\ Tail(q) \in Seq(SUBSET E) /\ Len(Tail(q)) = Len(q) - 1
      /\ \A i \in 1..(Len(q) - 1) : Tail(q)[i] = q[i + 1]
  BY <1>1
<1>3. \A B \in SUBSET E :
        /\ Batch(B) \in Seq(SUBSET E)
        /\ Len(Batch(B)) = IF B = {} THEN 0 ELSE 1
        /\ B # {} => Batch(B)[1] = B
  <2> SUFFICES ASSUME NEW B \in SUBSET E
               PROVE  /\ Batch(B) \in Seq(SUBSET E)
                      /\ Len(Batch(B)) = IF B = {} THEN 0 ELSE 1
                      /\ B # {} => Batch(B)[1] = B
    OBVIOUS
  <2>1. CASE B = {}
    <3>1. Batch(B) = <<>> BY <2>1 DEF Batch
    <3> QED BY <2>1, <3>1, EmptySeq
  <2>2. CASE B # {}
    <3>1. Batch(B) = <<B>> BY <2>2 DEF Batch
    <3> QED BY <2>2, <3>1
  <2> QED BY <2>1, <2>2
<1>4. H \in SUBSET E /\ off \in {0, 1} /\ (off = 1 => H = {}) /\ H = q[1] \ {h} BY <1>1
<1>5. r \in Seq(SUBSET E) /\ Len(r) = Len(q) - off
  <2>1. Batch(H) \in Seq(SUBSET E) /\ Len(Batch(H)) = IF H = {} THEN 0 ELSE 1 BY <1>3, <1>4
  <2>4. Len(Batch(H)) = 1 - off BY <2>1
  <2>2. r \in Seq(SUBSET E) /\ Len(r) = Len(Batch(H)) + Len(Tail(q)) BY <1>2, <2>1, ConcatProperties
  <2> HIDE DEF r, H, off
  <2> QED BY <1>1, <1>2, <1>4, <2>2, <2>4
<1>6. \A i \in 1..Len(r) : r[i] = IF i + off = 1 THEN H ELSE q[i + off]
  <2> SUFFICES ASSUME NEW i \in 1..Len(r) PROVE r[i] = IF i + off = 1 THEN H ELSE q[i + off]
    OBVIOUS
  <2>1. CASE H = {}
    <3>1. off = 1 /\ Batch(H) = <<>> BY <2>1 DEF Batch
    <3>2. r = Tail(q) BY <1>2, <3>1, ConcatEmptySeq
    <3>3. i \in 1..(Len(q) - 1) /\ i + 1 # 1 BY <1>1, <1>5, <3>1
    <3> HIDE DEF r, off, H
    <3> QED BY <1>2, <3>1, <3>2, <3>3
  <2>2. CASE H # {}
    <3>1. off = 0 /\ Batch(H) \in Seq(SUBSET E) /\ Len(Batch(H)) = 1 /\ Batch(H)[1] = H
      BY <1>3, <1>4, <2>2
    <3>2. Len(r) = Len(q) BY <1>1, <1>5, <3>1
    <3>3. r[i] = IF i <= 1 THEN Batch(H)[i] ELSE Tail(q)[i - 1]
      BY <1>1, <1>2, <3>1, <3>2, ConcatProperties
    <3>4. i # 1 => i - 1 \in 1..(Len(q) - 1) /\ (i - 1) + 1 = i BY <1>1, <3>2
    <3> HIDE DEF r, off, H
    <3> QED BY <1>1, <1>2, <3>1, <3>2, <3>3, <3>4
  <2> QED BY <2>1, <2>2
<1>7. /\ t \in Seq(SUBSET E) /\ Len(t) = Len(r) + Len(Batch(F))
      /\ \A i \in 1..Len(t) : t[i] = IF i <= Len(r) THEN r[i] ELSE Batch(F)[i - Len(r)]
  <2>1. t = r \o Batch(F) BY DEF Enqueue
  <2>2. Batch(F) \in Seq(SUBSET E) BY <1>3
  <2> HIDE DEF r
  <2>3. /\ r \o Batch(F) \in Seq(SUBSET E) /\ Len(r \o Batch(F)) = Len(r) + Len(Batch(F))
        /\ \A i \in 1..(Len(r) + Len(Batch(F))) :
              (r \o Batch(F))[i] = IF i <= Len(r) THEN r[i] ELSE Batch(F)[i - Len(r)]
    BY <1>5, <2>2, ConcatProperties
  <2> QED BY <2>1, <2>3
<1> HIDE DEF off, H, r
<1>9. DOMAIN t = 1..Len(t) /\ Len(t) \in Nat /\ Len(r) \in Nat BY <1>5, <1>7, LenProperties
<1>10. \A i \in DOMAIN t : i > Len(r) => F # {} /\ i = Len(r) + 1 /\ t[i] = F
  <2> SUFFICES ASSUME NEW i \in DOMAIN t, i > Len(r) PROVE F # {} /\ i = Len(r) + 1 /\ t[i] = F
    OBVIOUS
  <2>1. F # {} /\ Len(Batch(F)) = 1 /\ Batch(F)[1] = F
    <3>1. Len(Batch(F)) # 0 BY <1>7, <1>9
    <3> QED BY <1>3, <3>1
  <2>2. i = Len(r) + 1 /\ i - Len(r) = 1
    <3>1. i \in 1..Len(t) /\ Len(t) = Len(r) + 1 BY <1>7, <1>9, <2>1
    <3>2. \A a, b \in Nat : a \in 1..(b + 1) /\ a > b => a = b + 1 /\ a - b = 1 OBVIOUS
    <3>3. i \in Nat BY <1>9
    <3> QED BY <1>9, <3>1, <3>2, <3>3
  <2>3. t[i] = Batch(F)[i - Len(r)]
    <3>1. i \in 1..Len(t) /\ ~(i <= Len(r)) BY <1>9
    <3> QED BY <1>7, <3>1
  <2> QED BY <2>1, <2>2, <2>3
<1>11. F \subseteq Queued(t)
  <2>1. CASE F = {} BY <2>1
  <2>2. CASE F # {}
    <3>1. Len(Batch(F)) = 1 /\ Batch(F)[1] = F BY <1>3, <2>2
    <3>2. Len(r) + 1 \in DOMAIN t /\ t[Len(r) + 1] = F
      <4>1. Len(t) = Len(r) + 1 /\ Len(r) + 1 \in 1..Len(t) /\ ~(Len(r) + 1 <= Len(r))
            /\ (Len(r) + 1) - Len(r) = 1
        BY <1>7, <1>9, <3>1
      <4> QED BY <1>7, <1>9, <3>1, <4>1
    <3> QED BY <3>2 DEF Queued
  <2> QED BY <2>1, <2>2
<1>12. ASSUME NEW e \in Queued(q), e # h PROVE e \in Queued(t)
  <2>1. PICK p \in DOMAIN q : e \in q[p] BY DEF Queued
  <2>2. p = 1 => off = 0 BY <1>4, <1>12, <2>1
  <2>3. p - off \in 1..Len(r) /\ (p - off) + off = p BY <1>1, <1>5, <1>4, <2>2
  <2>4. p - off \in DOMAIN t /\ t[p - off] = r[p - off]
    <3>1. Len(Batch(F)) \in Nat BY <1>3
    <3>2. Len(r) <= Len(t) BY <1>7, <1>9, <3>1
    <3>3. p - off \in 1..Len(t) /\ p - off <= Len(r) BY <1>9, <2>3, <3>2
    <3> QED BY <1>7, <1>9, <3>3
  <2>5. e \in r[p - off] BY <1>6, <1>4, <1>12, <2>1, <2>3
  <2> QED BY <2>4, <2>5 DEF Queued
<1>13. ASSUME NEW i \in DOMAIN t, i <= Len(r) PROVE i + off \in DOMAIN q /\ t[i] \subseteq q[i + off]
  <2>1. i \in 1..Len(r) /\ i + off \in DOMAIN q BY <1>1, <1>5, <1>4, <1>9, <1>13
  <2>2. t[i] = r[i] BY <1>7, <1>9, <1>13
  <2> QED BY <1>6, <1>4, <2>1, <2>2
<1>14. \A i \in DOMAIN t :
          \/ i + off \in DOMAIN q /\ t[i] \subseteq q[i + off]
          \/ t[i] = F /\ \A j \in DOMAIN t : i <= j => t[j] = F
  <2>1. ASSUME NEW i \in DOMAIN t, i > Len(r)
        PROVE  t[i] = F /\ \A j \in DOMAIN t : i <= j => t[j] = F
    <3>1. \A j \in DOMAIN t : i <= j => j > Len(r) BY <1>9, <2>1
    <3> QED BY <1>10, <2>1, <3>1
  <2>2. \A i \in DOMAIN t : i <= Len(r) \/ i > Len(r) BY <1>9
  <2> QED BY <1>13, <2>1, <2>2
<1> QED BY <1>4, <1>7, <1>11, <1>12, <1>14 DEF AfterTurn
(* A shortest way, continued to a node that is not as near, is one.        *)
LEMMA WayFurther ==
    ASSUME NEW g, NEW s \in g.nodes, NEW n, NEW path, Way(g, s, n, path),
           NEW m \in Ahead(g, s, n), m \notin Near(g, s, Len(path) - 1)
    PROVE  /\ Way(g, s, m, Append(path, m))
           /\ Len(Append(path, m)) = Len(path) + 1
<1> DEFINE d == Len(path)
           p == Append(path, m)
<1>1. /\ path \in Seq(g.nodes) /\ path # <<>> /\ path[1] = s /\ path[d] = n
      /\ n \in Near(g, s, d - 1) /\ m \in g.nodes
      /\ \A i \in 1..(d - 1) : path[i + 1] \in Ahead(g, s, path[i])
  BY DEF Way, Ahead
<1>2. d \in Nat /\ d # 0 /\ d - 1 \in Nat /\ (d - 1) + 1 = d BY <1>1, EmptySeq
<1>3. /\ p \in Seq(g.nodes) /\ Len(p) = d + 1 /\ p[d + 1] = m
      /\ \A i \in 1..d : p[i] = path[i]
  BY <1>1, AppendProperties
<1> HIDE DEF p, d
<1>4. p # <<>> /\ p[1] = s
  <2>1. 1 \in 1..d /\ Len(p) # 0 BY <1>2, <1>3
  <2> QED BY <1>1, <1>3, <2>1
<1>5. ASSUME NEW i \in 1..d PROVE p[i + 1] \in Ahead(g, s, p[i])
  <2>1. CASE i = d BY <1>1, <1>3, <2>1
  <2>2. CASE i # d
    <3>1. i \in 1..(d - 1) /\ i + 1 \in 1..d BY <1>2, <2>2
    <3> QED BY <1>1, <1>3, <3>1
  <2> QED BY <2>1, <2>2
<1>6. m \in Near(g, s, d)
  <2>1. Near(g, s, (d - 1) + 1) = Near(g, s, d - 1)
                                    \cup UNION {Ahead(g, s, x) : x \in Near(g, s, d - 1)}
    BY <1>2, NearFurther
  <2> QED BY <1>1, <1>2, <2>1
<1>7. ASSUME NEW k \in Nat, k + 1 < d + 1 PROVE m \notin Near(g, s, k)
  <2>1. k <= d - 1 BY <1>2, <1>7
  <2>2. Near(g, s, k) \subseteq Near(g, s, d - 1) BY <1>2, <2>1, NearGrows
  <2> QED BY <2>2 DEF d
<1>8. Len(p) - 1 = d BY <1>2, <1>3
<1>9. Way(g, s, m, p) BY <1>3, <1>4, <1>5, <1>6, <1>7, <1>8 DEF Way
<1> QED BY <1>3, <1>9 DEF p, d

(* What the turn of an entry adds to the queue and to the routes.          *)
FoundFrom(h, new) == {[at |-> m, crossed |-> TRUE, path |-> Append(h.path, m)] : m \in new}
WithRoute(s, h, rt) ==
    IF h.at # s /\ Terminal(h.at) /\ h.at \notin DOMAIN rt
    THEN [n \in DOMAIN rt \cup {h.at} |-> IF n = h.at THEN h.path ELSE rt[n]]
    ELSE rt

(* One turn: the nodes ahead that were not seen are one step further than  *)
(* the node whose turn it is, and no shorter way leads to them, since all  *)
(* that is as near as that node was seen before.                           *)
LEMMA TurnKeepsSearched ==
    ASSUME NEW g, NEW s \in g.nodes, NEW q, NEW sn, NEW rt, Searched(g, s, q, sn, rt),
           q # <<>>, NEW h \in Head(q),
           NEW new, new = {m \in Ahead(g, s, h.at) : At(m, s) \notin sn},
           NEW F, F = FoundFrom(h, new),
           NEW t, t = Enqueue(Batch(F), Batch(Head(q) \ {h}) \o Tail(q)),
           NEW sn2, sn2 = sn \cup {At(m, s) : m \in new},
           NEW rt2, rt2 = WithRoute(s, h, rt)
    PROVE  Searched(g, s, t, sn2, rt2)
<1> DEFINE d == Len(h.path)
<1>1. q \in Seq(SUBSET Entries(g)) /\ InOrder(q) BY DEF Searched
<1>2. Head(q) = q[1] /\ 1 \in DOMAIN q /\ DOMAIN q \subseteq Nat BY <1>1, EmptySeq, LenProperties
<1>3. h \in Queued(q) /\ h \in Entries(g) /\ h.at \in g.nodes
  BY <1>1, <1>2 DEF Queued, Entries
<1>4. Way(g, s, h.at, h.path) BY <1>3 DEF Searched
<1>5. d \in Nat /\ d # 0 /\ d - 1 \in Nat BY <1>4, EmptySeq DEF Way
<1>6. \A x \in Queued(q) : Len(x.path) \in Nat /\ d <= Len(x.path) /\ Len(x.path) <= d + 1
  <2> SUFFICES ASSUME NEW x \in Queued(q)
               PROVE  Len(x.path) \in Nat /\ d <= Len(x.path) /\ Len(x.path) <= d + 1
    OBVIOUS
  <2>1. PICK i \in DOMAIN q : x \in q[i] BY DEF Queued
  <2>2. Len(x.path) \in Nat
    <3>1. Way(g, s, x.at, x.path) BY DEF Searched
    <3> QED BY <3>1 DEF Way
  <2>3. 1 <= i BY <1>1, LenProperties
  <2> QED BY <1>1, <1>2, <2>1, <2>2, <2>3 DEF InOrder
<1>7. \A n \in Near(g, s, d - 1) : At(n, s) \in sn
  <2>1. \A x \in Queued(q) : d - 1 < Len(x.path) BY <1>5, <1>6
  <2> QED BY <1>5, <2>1, NearIsSeen
<1>8. ASSUME NEW m \in new
      PROVE  /\ m \in g.nodes /\ m # s /\ At(m, s) = <<m, TRUE>>
             /\ Len(Append(h.path, m)) = d + 1
             /\ Way(g, s, m, Append(h.path, m))
  <2>1. m \in g.nodes /\ m # s /\ m \in Ahead(g, s, h.at) /\ At(m, s) \notin sn
    BY <1>8 DEF Ahead
  <2>2. m \notin Near(g, s, d - 1) BY <1>7, <2>1
  <2>3. Way(g, s, m, Append(h.path, m)) /\ Len(Append(h.path, m)) = d + 1
    BY <1>4, <2>1, <2>2, WayFurther
  <2> QED BY <2>1, <2>3 DEF At
<1>9. /\ F \in SUBSET Entries(g)
      /\ \A e \in F : /\ <<e.at, e.crossed>> = At(e.at, s) /\ Way(g, s, e.at, e.path)
                      /\ Len(e.path) = d + 1
  <2> SUFFICES ASSUME NEW m \in new, NEW e,
                      e = [at |-> m, crossed |-> TRUE, path |-> Append(h.path, m)]
               PROVE  /\ e \in Entries(g) /\ Len(e.path) = d + 1
                      /\ <<e.at, e.crossed>> = At(e.at, s) /\ Way(g, s, e.at, e.path)
    BY DEF FoundFrom
  <2>1. e.at = m /\ e.crossed = TRUE /\ e.path = Append(h.path, m) OBVIOUS
  <2>2. Append(h.path, m) \in Seq(g.nodes) /\ m \in g.nodes BY <1>8 DEF Way
  <2> HIDE DEF d
  <2> QED BY <1>8, <2>1, <2>2 DEF Entries
<1>10. /\ t \in Seq(SUBSET Entries(g))
       /\ Queued(q) \ {h} \subseteq Queued(t) /\ F \subseteq Queued(t)
       /\ \E off \in {0, 1} : \A i \in DOMAIN t :
             \/ i + off \in DOMAIN q /\ t[i] \subseteq q[i + off]
             \/ t[i] = F /\ \A j \in DOMAIN t : i <= j => t[j] = F
  <2>1. F \in SUBSET Entries(g) /\ q \in Seq(SUBSET Entries(g)) BY <1>1, <1>9
  <2>2. AfterTurn(Entries(g), q, h, F, t) BY <2>1, QueueAfterTurn
  <2> QED BY Zenon, <2>2 DEF AfterTurn
<1>11. PICK off \in {0, 1} : \A i \in DOMAIN t :
          \/ i + off \in DOMAIN q /\ t[i] \subseteq q[i + off]
          \/ t[i] = F /\ \A j \in DOMAIN t : i <= j => t[j] = F
  BY <1>10
<1> HIDE DEF d
<1>12. \A i \in DOMAIN t : \A e \in t[i] : e \in F \/ e \in Queued(q)
  <2>1. \A i \in DOMAIN q : q[i] \subseteq Queued(q) BY DEF Queued
  <2> SUFFICES ASSUME NEW i \in DOMAIN t, NEW e \in t[i] PROVE e \in F \/ e \in Queued(q)
    BY Zenon
  <2>2. t[i] = F \/ (i + off \in DOMAIN q /\ t[i] \subseteq q[i + off]) BY <1>11
  <2> QED BY <2>1, <2>2
<1>13. \A e \in Queued(t) : <<e.at, e.crossed>> = At(e.at, s) /\ Way(g, s, e.at, e.path)
  <2>1. ASSUME NEW e \in Queued(t) PROVE e \in F \/ e \in Queued(q)
    <3>1. PICK i \in DOMAIN t : e \in t[i] BY Zenon DEF Queued
    <3> QED BY <1>12, <3>1
  <2> QED BY <1>9, <2>1 DEF Searched
<1>14. InOrder(t)
  <2> SUFFICES ASSUME NEW i \in DOMAIN t, NEW j \in DOMAIN t, NEW x \in t[i], NEW y \in t[j]
               PROVE  /\ i <= j => Len(x.path) <= Len(y.path)
                      /\ Len(y.path) <= Len(x.path) + 1
    BY DEF InOrder
  <2>1. i \in Nat /\ j \in Nat BY <1>10, LenProperties
  <2>2. /\ Len(x.path) \in Nat /\ d <= Len(x.path) /\ Len(x.path) <= d + 1
        /\ Len(y.path) \in Nat /\ d <= Len(y.path) /\ Len(y.path) <= d + 1
    <3>1. (x \in F \/ x \in Queued(q)) /\ (y \in F \/ y \in Queued(q)) BY <1>12
    <3>2. \A e \in F : Len(e.path) \in Nat /\ d <= Len(e.path) /\ Len(e.path) <= d + 1
      BY <1>5, <1>9
    <3> QED BY <1>6, <3>1, <3>2
  <2>3. Len(y.path) <= Len(x.path) + 1 BY <1>5, <2>2
  <2>4. CASE t[j] = F
    <3>1. Len(y.path) = d + 1 BY <1>9, <2>4
    <3> QED BY <2>2, <2>3, <3>1
  <2>5. CASE t[j] # F
    <3> SUFFICES ASSUME i <= j PROVE Len(x.path) <= Len(y.path) BY <2>3
    <3>1. t[i] # F \/ ~(i <= j) \/ i + off \in DOMAIN q BY <1>11, <2>5
    <3>2. i + off \in DOMAIN q /\ x \in q[i + off] /\ j + off \in DOMAIN q /\ y \in q[j + off]
      BY <1>11, <2>5
    <3>3. i + off <= j + off BY <2>1
    <3> QED BY <1>1, <3>2, <3>3 DEF InOrder
  <2> QED BY <2>4, <2>5
<1>15. sn2 \subseteq {At(n, s) : n \in g.nodes} /\ At(s, s) \in sn2
  BY <1>8 DEF Searched
<1>16. DOMAIN rt2 = DOMAIN rt \cup (IF h.at # s /\ Terminal(h.at) THEN {h.at} ELSE {})
  BY DEF WithRoute
<1>17. ASSUME NEW n \in g.nodes, At(n, s) \in sn2
       PROVE  Explored(g, s, n, sn2, rt2) \/ \E e \in Queued(t) : e.at = n
  <2>1. CASE n = h.at
    <3>1. \A m \in Ahead(g, s, n) : At(m, s) \in sn2 BY <2>1
    <3> QED BY <1>16, <2>1, <3>1 DEF Explored
  <2>2. CASE n # h.at /\ At(n, s) \in sn
    <3>1. CASE Explored(g, s, n, sn, rt)
      <4>1. Explored(g, s, n, sn2, rt2) BY <1>16, <3>1 DEF Explored
      <4> QED BY <4>1
    <3>2. CASE \E e \in Queued(q) : e.at = n
      <4>1. \E e \in Queued(q) \ {h} : e.at = n BY <2>2, <3>2
      <4> QED BY <1>10, <4>1
    <3> QED BY <2>2, <3>1, <3>2 DEF Searched
  <2>3. CASE At(n, s) \notin sn
    <3>1. PICK m \in new : At(n, s) = At(m, s) BY <1>17, <2>3
    <3>2. n = m BY <1>8, <3>1 DEF At
    <3>3. [at |-> m, crossed |-> TRUE, path |-> Append(h.path, m)] \in F
      BY <3>1 DEF FoundFrom
    <3> QED BY <1>10, <3>2, <3>3
  <2> QED BY <2>1, <2>2, <2>3
<1>18. \A n \in DOMAIN rt2 : n \in g.nodes \ {s} /\ Terminal(n) /\ Way(g, s, n, rt2[n])
  <2> SUFFICES ASSUME NEW n \in DOMAIN rt2
               PROVE  n \in g.nodes \ {s} /\ Terminal(n) /\ Way(g, s, n, rt2[n])
    OBVIOUS
  <2>1. CASE n \in DOMAIN rt
    <3>1. rt2[n] = rt[n] BY <2>1 DEF WithRoute
    <3> QED BY <2>1, <3>1 DEF Searched
  <2>2. CASE n \notin DOMAIN rt
    <3>1. n = h.at /\ h.at # s /\ Terminal(h.at) /\ rt2[n] = h.path
      BY <1>16, <2>2 DEF WithRoute
    <3> QED BY <1>3, <1>4, <3>1
  <2> QED BY <2>1, <2>2
<1> QED BY <1>10, <1>13, <1>14, <1>15, <1>17, <1>18 DEF Searched
(* A search begins at its start, with nothing behind it.                   *)
LEMMA SearchBegins ==
    ASSUME NEW g, NEW s \in g.nodes
    PROVE  Searched(g, s, <<{[at |-> s, crossed |-> FALSE, path |-> <<s>>]}>>, {<<s, FALSE>>}, <<>>)
<1> DEFINE e == [at |-> s, crossed |-> FALSE, path |-> <<s>>]
           q == <<{e}>>
<1>1. <<s>> \in Seq(g.nodes) /\ Len(<<s>>) = 1 /\ <<s>> # <<>> /\ <<s>>[1] = s
  <2>1. <<s>> \in Seq(g.nodes)
    <3>1. \A S : \A x \in S : <<x>> \in Seq(S) OBVIOUS
    <3> QED BY Zenon, <3>1
  <2>2. Len(<<s>>) = 1 OBVIOUS
  <2>3. <<s>> # <<>> OBVIOUS
  <2>4. <<s>>[1] = s OBVIOUS
  <2> QED BY <2>1, <2>2, <2>3, <2>4
<1>2. e \in Entries(g) /\ e.at = s /\ e.crossed = FALSE /\ e.path = <<s>> BY <1>1 DEF Entries
<1> HIDE DEF e
<1>3. q \in Seq(SUBSET Entries(g)) /\ DOMAIN q = {1} /\ q[1] = {e} BY <1>2
<1> HIDE DEF q
<1>4. Queued(q) = {e} BY <1>3 DEF Queued
<1>5. Way(g, s, s, <<s>>)
  <2>1. s \in Near(g, s, 0) BY NearStart
  <2>2. \A k \in Nat : ~(k + 1 < 1) OBVIOUS
  <2>3. 1..(1 - 1) = {} /\ 1 - 1 = 0 OBVIOUS
  <2> QED BY <1>1, <2>1, <2>2, <2>3 DEF Way
<1>6. At(s, s) = <<s, FALSE>> BY DEF At
<1>7. InOrder(q) BY <1>1, <1>2, <1>3 DEF InOrder
<1>8. \A n \in g.nodes : At(n, s) \in {<<s, FALSE>>} => n = s BY DEF At
<1>9. DOMAIN <<>> = {} OBVIOUS
<1>10. Searched(g, s, q, {<<s, FALSE>>}, <<>>)
  BY <1>2, <1>3, <1>4, <1>5, <1>6, <1>7, <1>8, <1>9 DEF Searched
<1> QED BY <1>10 DEF q, e

(* The turn of the model is the turn of the lemma.                         *)
LEMMA VisitKeepsSearched ==
    ASSUME Closed(graph), start \in graph.nodes, Searched(graph, start, queue, seen, routes), Visit
    PROVE  Searched(graph, start, queue', seen', routes')
<1>1. queue # <<>> BY DEF Visit
<1>2. PICK h \in Head(queue) :
         /\ queue' = Enqueue(Batch({[at |-> p[1], crossed |-> p[2], path |-> Append(h.path, p[1])] :
                                       p \in Unseen(h)}),
                             Batch(Head(queue) \ {h}) \o Tail(queue))
         /\ seen' = seen \cup Unseen(h)
         /\ routes' =
              IF h.crossed /\ h.at # start /\ Terminal(h.at) /\ h.at \notin DOMAIN routes
              THEN [n \in DOMAIN routes \cup {h.at} |-> IF n = h.at THEN h.path ELSE routes[n]]
              ELSE routes
  BY Zenon DEF Visit
<1>3. <<h.at, h.crossed>> = At(h.at, start)
  <2>1. h \in Queued(queue)
    <3>1. queue \in Seq(SUBSET Entries(graph)) BY DEF Searched
    <3>2. Head(queue) = queue[1] /\ 1 \in DOMAIN queue BY <1>1, <3>1, EmptySeq, LenProperties
    <3> QED BY <3>2 DEF Queued
  <2> QED BY <2>1 DEF Searched
<1>4. h.at = At(h.at, start)[1] /\ h.crossed = At(h.at, start)[2] /\ (h.at # start => h.crossed = TRUE)
  BY <1>3 DEF At
<1> DEFINE new == {m \in Ahead(graph, start, h.at) : At(m, start) \notin seen}
<1>5. Unseen(h) = {<<m, TRUE>> : m \in new}
  <2>1. Steps(h.at, h.crossed) = {<<m, TRUE>> : m \in Ahead(graph, start, h.at)}
    BY <1>4, StepsAhead
  <2>2. \A m \in Ahead(graph, start, h.at) : At(m, start) = <<m, TRUE>> BY DEF Ahead, At
  <2> QED BY <2>1, <2>2 DEF Unseen
<1>6. seen' = seen \cup {At(m, start) : m \in new}
  <2>1. \A m \in new : At(m, start) = <<m, TRUE>> BY DEF Ahead, At
  <2> QED BY <1>2, <1>5, <2>1
<1>7. {[at |-> p[1], crossed |-> p[2], path |-> Append(h.path, p[1])] : p \in Unseen(h)}
        = FoundFrom(h, new)
  <2> HIDE DEF new
  <2> DEFINE entry(p) == [at |-> p[1], crossed |-> p[2], path |-> Append(h.path, p[1])]
  <2>1. \A m : entry(<<m, TRUE>>) = [at |-> m, crossed |-> TRUE, path |-> Append(h.path, m)] OBVIOUS
  <2> HIDE DEF entry
  <2>2. {entry(p) : p \in Unseen(h)} = {entry(<<m, TRUE>>) : m \in new} BY <1>5
  <2>3. {entry(<<m, TRUE>>) : m \in new} = FoundFrom(h, new) BY <2>1 DEF FoundFrom
  <2> QED BY <2>2, <2>3 DEF entry
<1>8. queue' = Enqueue(Batch(FoundFrom(h, new)), Batch(Head(queue) \ {h}) \o Tail(queue))
  BY <1>2, <1>7
<1>9. routes' = WithRoute(start, h, routes) BY <1>2, <1>4 DEF WithRoute
<1> HIDE DEF new
<1>10. new = {m \in Ahead(graph, start, h.at) : At(m, start) \notin seen} BY DEF new
<1> QED BY <1>1, <1>6, <1>8, <1>9, <1>10, TurnKeepsSearched

-----------------------------------------------------------------------------
(* Every edge of the index is between nodes of it: of a declaration, since *)
(* it is of a file of one of the repositories; of an edge by hand, since   *)
(* its ends are made nodes.                                                *)
LEMMA IndexIsClosed ==
    ASSUME NEW s \in Sources
    PROVE  Closed(Index(s, Catalog))
<1> DEFINE N == Nodes(s, Catalog)
<1>1. \A f \in s.facts \cup s.contracts : f.repo \in s.repos
  BY SourcesAssumption DEF SourcesAssumption
<1>2. /\ \A r \in s.repos : Repository(r) \in N /\ Service(r) \in N
      /\ \A f \in s.facts : Symbol(f) \in N
      /\ \A f \in Persisted(s.facts) : Column(f) \in N
      /\ \A c \in s.contracts : ContractId(c) \in N
      /\ \A e \in s.manual : e.from \in N /\ e.to \in N
      /\ \A c \in GraphCapabilities(Catalog) :
            CapabilityId(c) \in N /\ OwnerId(c) \in N
            /\ \A i \in InvariantsOf(c, Catalog) : InvariantId(i) \in N
  <2> DEFINE Business(c) == {CapabilityId(c), OwnerId(c)}
                               \cup {InvariantId(i) : i \in InvariantsOf(c, Catalog)}
  <2>1. /\ \A r \in s.repos : Repository(r) \in N /\ Service(r) \in N
        /\ \A f \in s.facts : Symbol(f) \in N
        /\ \A f \in Persisted(s.facts) : Column(f) \in N
        /\ \A c \in s.contracts : ContractId(c) \in N
    BY DEF Nodes
  <2>2. \A e \in s.manual : e.from \in N /\ e.to \in N
    <3>1. UNION {{e.from, e.to} : e \in s.manual} \subseteq N BY Zenon DEF Nodes
    <3> HIDE DEF N
    <3> QED BY <3>1
  <2>3. ASSUME NEW c \in GraphCapabilities(Catalog) PROVE Business(c) \subseteq N
    <3>1. UNION {Business(x) : x \in GraphCapabilities(Catalog)} \subseteq N BY Zenon DEF Nodes
    <3> HIDE DEF N, Business
    <3> QED BY <3>1
  <2> HIDE DEF N
  <2> QED BY <2>1, <2>2, <2>3
<1> HIDE DEF N
<1>3. \A a, b, k : Link(a, b, k).from = a /\ Link(a, b, k).to = b BY DEF Link
<1>4. \A e \in DeclaredEdges(s) : e.from \in N /\ e.to \in N
  BY <1>1, <1>2, <1>3 DEF DeclaredEdges
<1>5. \A e \in PersistenceEdges(s.facts) : e.from \in N /\ e.to \in N
  <2>1. Persisted(s.facts) \subseteq s.facts BY DEF Persisted, Of
  <2> QED BY <1>1, <1>2, <1>3, <2>1 DEF PersistenceEdges
<1>6. \A e \in CallEdges(s.facts) : e.from \in N /\ e.to \in N
  <2>1. Of(s.facts, "method") \subseteq s.facts BY DEF Of
  <2>2. ASSUME NEW e \in CallEdges(s.facts)
        PROVE  \E m \in Of(s.facts, "method"), n \in Of(s.facts, "method") :
                  e = Link(Symbol(m), Symbol(n), "CALLS")
    BY DEF CallEdges
  <2> QED BY <1>2, <1>3, <2>1, <2>2
<1>7. ASSUME NEW c \in GraphCapabilities(Catalog)
      PROVE  \A e \in BusinessEdges(c, s, Catalog) : e.from \in N /\ e.to \in N
  BY <1>2, <1>3 DEF BusinessEdges
<1>8. \A e \in Index(s, Catalog).edges : e.from \in N /\ e.to \in N
  BY <1>2, <1>4, <1>5, <1>6, <1>7 DEF Index
<1>9. Index(s, Catalog).nodes = N BY DEF Index, N
<1> QED BY <1>8, <1>9 DEF Closed
-----------------------------------------------------------------------------
(* The inductive invariant.                                                *)
Kept(g, q, sn, rt) ==
    /\ \A i \in DOMAIN q : \A e \in q[i] : e.at \in g.nodes /\ e.crossed \in BOOLEAN
    /\ sn \subseteq g.nodes \X BOOLEAN
    /\ DOMAIN rt \subseteq {n \in g.nodes : Terminal(n)}

IInv ==
    /\ pc \in {"resolve", "search", "report", "done"}
    /\ sources \in Sources /\ graph = Index(sources, Catalog)
    /\ Kept(graph, queue, seen, routes)
    /\ pc = "resolve" => routes = <<>>
    /\ pc = "search" => start \in graph.nodes
    /\ pc = "report" => queue = <<>>
    /\ (pc \in {"search", "report"} /\ start \in graph.nodes) =>
          Searched(graph, start, queue, seen, routes)

LEMMA NothingKept == \A g : Kept(g, <<>>, {}, <<>>)
BY DEF Kept

LEMMA SearchedIsKept ==
    ASSUME NEW g, NEW s \in g.nodes, NEW q, NEW sn, NEW rt, Searched(g, s, q, sn, rt)
    PROVE  Kept(g, q, sn, rt)
<1>1. ASSUME NEW i \in DOMAIN q, NEW e \in q[i] PROVE e.at \in g.nodes /\ e.crossed \in BOOLEAN
  <2>1. q \in Seq(SUBSET Entries(g)) BY DEF Searched
  <2>2. q[i] \in SUBSET Entries(g)
    <3>1. i \in 1..Len(q) BY <2>1, LenProperties
    <3> QED BY <2>1, <3>1, ElementOfSeq
  <2> QED BY <2>2 DEF Entries
<1>2. \A n \in g.nodes : At(n, s) \in g.nodes \X BOOLEAN BY DEF At
<1>3. sn \subseteq g.nodes \X BOOLEAN BY <1>2 DEF Searched
<1>4. DOMAIN rt \subseteq {n \in g.nodes : Terminal(n)} BY DEF Searched
<1> QED BY <1>1, <1>3, <1>4 DEF Kept

LEMMA IInvImplies ==
    ASSUME IInv
    PROVE  TypeOK /\ Closed(graph) /\ IsFiniteSet(graph.nodes)
<1>1. Closed(graph) BY IndexIsClosed DEF IInv
<1>2. IsFiniteSet(graph.nodes) BY SourcesAssumption DEF IInv, SourcesAssumption
<1> QED BY <1>1, <1>2 DEF IInv, Kept, TypeOK, Closed

LEMMA ResolveKeeps ==
    ASSUME IInv, Resolve
    PROVE  IInv'
<1>1. /\ pc = "resolve" /\ graph' = graph /\ sources' = sources /\ routes' = routes /\ routes = <<>>
      /\ pc' = IF start' = NoArtifact THEN "done" ELSE IF start' \in graph.nodes THEN "search" ELSE "report"
      /\ queue' = IF pc' = "search"
                  THEN <<{[at |-> start', crossed |-> FALSE, path |-> <<start'>>]}>> ELSE <<>>
      /\ seen' = IF pc' = "search" THEN {<<start', FALSE>>} ELSE {}
  BY DEF Resolve, IInv
<1>2. CASE pc' = "search"
  <2>1. start' \in graph.nodes BY <1>1, <1>2
  <2>2. Searched(graph, start', queue', seen', routes') BY <1>1, <1>2, <2>1, SearchBegins
  <2>3. Kept(graph, queue', seen', routes') BY <2>1, <2>2, SearchedIsKept
  <2> QED BY <1>1, <1>2, <2>1, <2>2, <2>3 DEF IInv
<1>3. CASE pc' # "search"
  <2>1. /\ pc' \in {"done", "report"} /\ queue' = <<>>
        /\ ~(pc' \in {"search", "report"} /\ start' \in graph.nodes)
    BY <1>1, <1>3
  <2>2. Kept(graph, queue', seen', routes') BY <1>1, <1>3, NothingKept
  <2> QED BY <1>1, <2>1, <2>2 DEF IInv
<1> QED BY <1>2, <1>3

LEMMA IInvKept ==
    ASSUME IInv, [Next]_vars
    PROVE  IInv'
<1>1. CASE UNCHANGED vars BY <1>1 DEF vars, IInv
<1>2. CASE Resolve BY <1>2, ResolveKeeps
<1>3. CASE Visit
  <2>1. /\ pc = "search" /\ pc' = pc /\ graph' = graph /\ sources' = sources /\ start' = start
        /\ start \in graph.nodes /\ Searched(graph, start, queue, seen, routes)
    BY <1>3 DEF Visit, IInv
  <2>2. Searched(graph, start, queue', seen', routes')
    BY <1>3, <2>1, IInvImplies, VisitKeepsSearched
  <2>3. Kept(graph, queue', seen', routes') BY <2>1, <2>2, SearchedIsKept
  <2> QED BY <2>1, <2>2, <2>3 DEF IInv
<1>4. CASE Finish BY <1>4 DEF Finish, IInv
<1>5. CASE Report BY <1>5 DEF Report, IInv
<1> QED BY <1>1, <1>2, <1>3, <1>4, <1>5 DEF Next

LEMMA IInvHolds == Spec => []IInv
<1>1. Init => IInv BY NothingKept DEF Init, IInv
<1> QED BY <1>1, IInvKept, PTL DEF Spec

(* The edges of the graph are between its nodes, and the search stays in   *)
(* it, of whatever sources: none of its lookups can miss (analyzer.py).    *)
THEOREM TypeCorrect == Spec => []TypeOK
BY IInvHolds, IInvImplies, PTL

-----------------------------------------------------------------------------
(* What is not in an empty queue was explored: all that is near was seen,  *)
(* and what leads on from there.                                           *)
LEMMA SearchIsOver ==
    ASSUME IInv, pc = "report", start \in graph.nodes
    PROVE  /\ Searched(graph, start, queue, seen, routes)
           /\ \A n \in graph.nodes :
                 At(n, start) \in seen => Explored(graph, start, n, seen, routes)
           /\ \A k \in Nat : \A n \in Near(graph, start, k) : At(n, start) \in seen
<1>1. queue = <<>> /\ Searched(graph, start, queue, seen, routes) BY DEF IInv
<1>2. Queued(queue) = {} BY <1>1 DEF Queued
<1>3. \A k \in Nat : \A n \in Near(graph, start, k) : At(n, start) \in seen
  BY <1>1, <1>2, NearIsSeen
<1> QED BY <1>1, <1>2, <1>3 DEF Searched

(* A shortest way is a route of the graph that no shorter one replaces.    *)
LEMMA WayIsShortest ==
    ASSUME Closed(graph), start \in graph.nodes, NEW n, n # start, NEW path,
           Way(graph, start, n, path)
    PROVE  /\ IsRoute(path) /\ Last(path) = n
           /\ <<n, TRUE>> \notin Within[Len(path) - 2]
           /\ Len(path) - 1 \in Nat /\ n \in Near(graph, start, Len(path) - 1)
<1>1. /\ path \in Seq(graph.nodes) /\ path # <<>> /\ path[1] = start /\ path[Len(path)] = n
      /\ \A i \in 1..(Len(path) - 1) : path[i + 1] \in Ahead(graph, start, path[i])
      /\ n \in Near(graph, start, Len(path) - 1)
      /\ \A k \in Nat : k + 1 < Len(path) => n \notin Near(graph, start, k)
  BY DEF Way
<1>2. Len(path) \in Nat /\ Len(path) # 0 /\ Len(path) # 1
  <2>1. Len(path) \in Nat \ {0} BY <1>1, EmptySeq
  <2>2. Len(path) # 1 BY <1>1
  <2> QED BY <2>1, <2>2
<1>3. Len(path) - 1 \in Nat /\ Len(path) - 2 \in Nat /\ (Len(path) - 2) + 1 < Len(path)
  <2>1. \A k \in Nat : (k # 0 /\ k # 1) => k - 1 \in Nat /\ k - 2 \in Nat /\ (k - 2) + 1 < k OBVIOUS
  <2> QED BY Zenon, <1>2, <2>1
<1>4. IsRoute(path)
  <2> SUFFICES ASSUME NEW i \in 1..(Len(path) - 1)
               PROVE  \E e \in graph.edges :
                         /\ e.kind \in IF i = 1 THEN Semantic ELSE Semantic \cup Structural
                         /\ {e.from, e.to} = {path[i], path[i + 1]}
    BY <1>1 DEF IsRoute
  <2>1. PICK e \in graph.edges :
           /\ (e.from = path[i] /\ e.to = path[i + 1]) \/ (e.to = path[i] /\ e.from = path[i + 1])
           /\ e.kind \in Semantic \/ (path[i] # start /\ e.kind \in Structural)
    BY <1>1 DEF Ahead
  <2>2. e.kind \in IF i = 1 THEN Semantic ELSE Semantic \cup Structural BY <1>1, <2>1
  <2>3. {e.from, e.to} = {path[i], path[i + 1]} BY <2>1
  <2> QED BY <2>2, <2>3
<1>5. <<n, TRUE>> \notin Within[Len(path) - 2]
  <2>1. n \notin Near(graph, start, Len(path) - 2) BY <1>1, <1>3
  <2>2. Within[Len(path) - 2] = {At(m, start) : m \in Near(graph, start, Len(path) - 2)}
    BY <1>3, WithinIsNear
  <2>3. \A m : At(m, start) = <<n, TRUE>> => m = n BY DEF At
  <2> QED BY <2>1, <2>2, <2>3
<1> QED BY <1>1, <1>3, <1>4, <1>5 DEF Last

(* In any graph, with whatever cycles and parallel ways, and in whatever   *)
(* order a node's edges are taken, the search ends with a shortest route   *)
(* to every terminal within reach and with no other (ImpactAnalyzer).      *)
THEOREM SearchIsExact == Spec => []RoutesAreShortest
<1>1. ASSUME IInv PROVE RoutesAreShortest
  <2> SUFFICES ASSUME pc = "report", start \in graph.nodes
               PROVE  /\ DOMAIN routes = {n \in graph.nodes :
                             Terminal(n) /\ <<n, TRUE>> \in Within[Cardinality(graph.nodes)]}
                      /\ \A n \in DOMAIN routes :
                            /\ IsRoute(routes[n]) /\ Last(routes[n]) = n
                            /\ <<n, TRUE>> \notin Within[Len(routes[n]) - 2]
    BY DEF RoutesAreShortest
  <2> DEFINE N == Cardinality(graph.nodes)
  <2>1. Closed(graph) /\ IsFiniteSet(graph.nodes) /\ N \in Nat
    BY <1>1, IInvImplies, FS_CardinalityType
  <2>2. Within[N] = {At(n, start) : n \in Near(graph, start, N)} BY <2>1, WithinIsNear
  <2>3. \A n \in DOMAIN routes :
           n \in graph.nodes /\ n # start /\ Terminal(n) /\ Way(graph, start, n, routes[n])
    BY <1>1, SearchIsOver DEF Searched
  <2>4. \A n \in DOMAIN routes :
           /\ IsRoute(routes[n]) /\ Last(routes[n]) = n
           /\ <<n, TRUE>> \notin Within[Len(routes[n]) - 2]
           /\ Len(routes[n]) - 1 \in Nat /\ n \in Near(graph, start, Len(routes[n]) - 1)
    BY <2>1, <2>3, WayIsShortest
  <2> HIDE DEF N
  <2>5. ASSUME NEW n \in DOMAIN routes PROVE <<n, TRUE>> \in Within[N]
    <3>1. n \in Near(graph, start, N) BY <2>1, <2>4, NearAll DEF N
    <3>2. At(n, start) = <<n, TRUE>> BY <2>3 DEF At
    <3> QED BY <2>2, <3>1, <3>2
  <2>6. ASSUME NEW n \in graph.nodes, Terminal(n), <<n, TRUE>> \in Within[N]
        PROVE  n \in DOMAIN routes
    <3>1. PICK m \in Near(graph, start, N) : At(m, start) = <<n, TRUE>> BY <2>2, <2>6
    <3>2. m = n /\ n # start BY <3>1 DEF At
    <3>3. At(n, start) \in seen BY <1>1, <2>1, <3>1, <3>2, SearchIsOver
    <3>4. Explored(graph, start, n, seen, routes) BY <1>1, <2>6, <3>3, SearchIsOver
    <3> QED BY <2>6, <3>2, <3>4 DEF Explored
  <2> QED BY <2>3, <2>4, <2>5, <2>6 DEF N
<1> QED BY <1>1, IInvHolds, PTL
(* From a persisted field to its column, from there to the service of its  *)
(* repository, to a capability of it, to its owner and its invariants: all *)
(* of these are ahead of one another and none is the field.                *)
LEMMA BusinessIsAhead ==
    ASSUME NEW s \in Sources, NEW g, g = Index(s, Catalog),
           NEW f \in Persisted(s.facts), NEW c \in GraphCapabilities(Catalog),
           f.repo \in c.repositories
    PROVE  /\ Symbol(f) \in g.nodes
           /\ Column(f) \in Ahead(g, Symbol(f), Symbol(f))
           /\ Service(f.repo) \in Ahead(g, Symbol(f), Column(f))
           /\ CapabilityId(c) \in Ahead(g, Symbol(f), Service(f.repo))
           /\ OwnerId(c) \in Ahead(g, Symbol(f), CapabilityId(c))
           /\ \A i \in InvariantsOf(c, Catalog) :
                 InvariantId(i) \in Ahead(g, Symbol(f), CapabilityId(c))
<1> DEFINE x == Symbol(f)
<1>1. f \in s.facts /\ f.is = "field" BY DEF Persisted, Of
<1>2. f.repo \in s.repos BY <1>1, SourcesAssumption DEF SourcesAssumption
<1>3. x = <<"field", f.repo, f.owner, f.name>> BY <1>1 DEF Symbol
<1>4. /\ Column(f) # x /\ Service(f.repo) # x /\ CapabilityId(c) # x /\ OwnerId(c) # x
      /\ \A i : InvariantId(i) # x
  BY <1>3 DEF Column, Service, CapabilityId, OwnerId, InvariantId
<1>5. g.edges = DeclaredEdges(s) \cup PersistenceEdges(s.facts) \cup CallEdges(s.facts)
                  \cup s.manual \cup (UNION {BusinessEdges(k, s, Catalog) : k \in GraphCapabilities(Catalog)})
  BY DEF Index
<1>6. PersistenceEdges(s.facts) \subseteq g.edges /\ BusinessEdges(c, s, Catalog) \subseteq g.edges
  BY <1>5
<1>7. /\ Link(x, Column(f), "MAPS_TO") \in g.edges
      /\ Link(Column(f), Service(f.repo), "DEPLOYED_WITH") \in g.edges
      /\ Link(Service(f.repo), CapabilityId(c), "BELONGS_TO_CAPABILITY") \in g.edges
      /\ Link(CapabilityId(c), OwnerId(c), "OWNED_BY") \in g.edges
      /\ \A i \in InvariantsOf(c, Catalog) :
            Link(CapabilityId(c), InvariantId(i), "PROTECTED_BY") \in g.edges
  BY <1>2, <1>6 DEF PersistenceEdges, BusinessEdges
<1>8. Closed(g) BY IndexIsClosed
<1> HIDE DEF x
<1>9. ASSUME NEW a, NEW b, NEW kind, Link(a, b, kind) \in g.edges, b # x,
             kind \in Semantic \/ (a # x /\ kind \in Structural)
      PROVE  b \in Ahead(g, x, a)
  <2>1. Link(a, b, kind).from = a /\ Link(a, b, kind).to = b /\ Link(a, b, kind).kind = kind
    BY DEF Link
  <2>2. b \in g.nodes \ {x} BY <1>8, <1>9, <2>1 DEF Closed
  <2> QED BY <1>9, <2>1, <2>2 DEF Ahead
<1>10. /\ "MAPS_TO" \in Semantic
       /\ {"DEPLOYED_WITH", "BELONGS_TO_CAPABILITY", "OWNED_BY", "PROTECTED_BY"} \subseteq Structural
  BY DEF Semantic, Structural
<1>11. x \in g.nodes
  <2>1. Link(x, Column(f), "MAPS_TO").from = x BY DEF Link
  <2> QED BY <1>7, <1>8, <2>1 DEF Closed
<1>12. Column(f) \in Ahead(g, x, x) BY <1>4, <1>7, <1>9, <1>10
<1>13. Service(f.repo) \in Ahead(g, x, Column(f)) BY <1>4, <1>7, <1>9, <1>10
<1>14. CapabilityId(c) \in Ahead(g, x, Service(f.repo)) BY <1>4, <1>7, <1>9, <1>10
<1>15. OwnerId(c) \in Ahead(g, x, CapabilityId(c)) BY <1>4, <1>7, <1>9, <1>10
<1>16. \A i \in InvariantsOf(c, Catalog) : InvariantId(i) \in Ahead(g, x, CapabilityId(c))
  BY <1>4, <1>7, <1>9, <1>10
<1> QED BY <1>11, <1>12, <1>13, <1>14, <1>15, <1>16 DEF x

(* A change of a persisted field reaches the capability of its repository, *)
(* the owner and all the invariants, whatever else was indexed.            *)
THEOREM PersistedReachesBusiness == Spec => []PersistedIsBusiness
<1>1. ASSUME IInv PROVE PersistedIsBusiness
  <2> SUFFICES ASSUME pc = "report", NEW f \in Persisted(sources.facts),
                      NEW c \in GraphCapabilities(Catalog), start = Symbol(f), f.repo \in c.repositories
               PROVE  {CapabilityId(c), OwnerId(c)} \cup {InvariantId(i) : i \in InvariantsOf(c, Catalog)}
                          \subseteq DOMAIN routes
    BY DEF PersistedIsBusiness
  <2>1. sources \in Sources /\ graph = Index(sources, Catalog) BY <1>1 DEF IInv
  <2>2. /\ start \in graph.nodes
        /\ Column(f) \in Ahead(graph, start, start)
        /\ Service(f.repo) \in Ahead(graph, start, Column(f))
        /\ CapabilityId(c) \in Ahead(graph, start, Service(f.repo))
        /\ OwnerId(c) \in Ahead(graph, start, CapabilityId(c))
        /\ \A i \in InvariantsOf(c, Catalog) :
              InvariantId(i) \in Ahead(graph, start, CapabilityId(c))
    BY <2>1, BusinessIsAhead
  <2>3. /\ At(start, start) \in seen
        /\ \A n \in graph.nodes : At(n, start) \in seen => Explored(graph, start, n, seen, routes)
    BY <1>1, <2>2, SearchIsOver DEF Searched
  <2>4. ASSUME NEW n \in graph.nodes, At(n, start) \in seen, NEW m \in Ahead(graph, start, n)
        PROVE  /\ m \in graph.nodes /\ At(m, start) \in seen
               /\ Terminal(m) => m \in DOMAIN routes
    <3>1. m \in graph.nodes /\ m # start BY DEF Ahead
    <3>2. At(m, start) \in seen BY <2>3, <2>4 DEF Explored
    <3>3. Explored(graph, start, m, seen, routes) BY <2>3, <3>1, <3>2
    <3> QED BY <3>1, <3>2, <3>3 DEF Explored
  <2>5. Column(f) \in graph.nodes /\ At(Column(f), start) \in seen BY <2>2, <2>3, <2>4
  <2>6. Service(f.repo) \in graph.nodes /\ At(Service(f.repo), start) \in seen
    BY <2>2, <2>4, <2>5
  <2>7. /\ CapabilityId(c) \in graph.nodes /\ At(CapabilityId(c), start) \in seen
        /\ Terminal(CapabilityId(c)) => CapabilityId(c) \in DOMAIN routes
    BY <2>2, <2>4, <2>6
  <2>8. /\ Terminal(OwnerId(c)) => OwnerId(c) \in DOMAIN routes
        /\ \A i \in InvariantsOf(c, Catalog) :
              Terminal(InvariantId(i)) => InvariantId(i) \in DOMAIN routes
    BY <2>2, <2>4, <2>7
  <2>9. Terminal(CapabilityId(c)) /\ Terminal(OwnerId(c)) /\ \A i : Terminal(InvariantId(i))
    BY DEF Terminal, CapabilityId, OwnerId, InvariantId
  <2> QED BY <2>7, <2>8, <2>9
<1> QED BY <1>1, IInvHolds, PTL

-----------------------------------------------------------------------------
(* A single finding of the analysis asks for an approval; none and nobody  *)
(* asked asks for none.                                                    *)
LEMMA AskedIsAsked ==
    ASSUME NEW approvers, NEW in,
           in.findings = {Asked(approvers)}, in.known = TRUE, in.satisfied = FALSE
    PROVE  Decide(in) = "REQUIRE_APPROVAL"
<1>1. Asked(approvers).mode = "blocking" /\ Asked(approvers).unknown = TRUE
      /\ Asked(approvers).violated = FALSE
  BY DEF Asked
<1>2. Critical(in.findings) = {} BY <1>1 DEF Critical, Active
<1>3. Asked(approvers) \in Unknown(in.findings) BY <1>1 DEF Unknown, Active
<1> QED BY <1>2, <1>3 DEF Decide, UnknownBoundary

LEMMA NothingIsNotAsked ==
    ASSUME NEW in, in.findings = {}, in.owners = {}, in.known = TRUE
    PROVE  Decide(in) # "REQUIRE_APPROVAL"
<1>1. Active(in.findings) = {} BY DEF Active
<1>2. Critical(in.findings) = {} /\ Unknown(in.findings) = {} /\ Warned(in.findings) = {}
      /\ Public(in.findings) = {} /\ ~RiskReached(in.findings)
  BY <1>1 DEF Critical, Unknown, Warned, Public, RiskReached
<1>3. Cardinality(in.owners) = 0 BY FS_EmptySet
<1> QED BY <1>2, <1>3 DEF Decide, UnknownBoundary, SharedConcern

(* At most one capability is inferred.                                     *)
LEMMA OneIsInferred == Inferred = {} \/ \E c : Inferred = {c}
<1> DEFINE eligible == {c \in Catalog.capabilities :
                          /\ \E p \in Catalog.policies : p.capability = c.id
                          /\ \E t \in Catalog.tests : t.capability = c.id}
           best == {c \in eligible : Score(c) > 0 /\ \A d \in eligible : Score(d) <= Score(c)}
<1>1. Inferred = IF Cardinality(best) = 1 THEN best ELSE {} BY DEF Inferred
<1>2. best \subseteq Catalog.capabilities OBVIOUS
<1> HIDE DEF best
<1>3. IsFiniteSet(best) BY <1>2, CatalogAssumption, FS_Subset DEF CatalogAssumption
<1> QED BY <1>1, <1>3, FS_Singleton

(* A changed artifact without a way to the business is asked about, of the *)
(* owner of the capability when one is inferred (_impact_boundary).        *)
THEOREM DeadEndReachesAPerson == Spec => []DeadEndIsAsked
<1>1. Init => DeadEndIsAsked BY DEF Init, DeadEndIsAsked
<1>2. DeadEndIsAsked /\ [Next]_vars => DeadEndIsAsked'
  <2> SUFFICES ASSUME DeadEndIsAsked, [Next]_vars PROVE DeadEndIsAsked' OBVIOUS
  <2>1. CASE UNCHANGED vars
    BY <2>1 DEF vars, DeadEndIsAsked, Inferred, Score
  <2>2. CASE Resolve
    <3>1. pc' = "done" => start' = NoArtifact BY <2>2 DEF Resolve
    <3> QED BY <3>1 DEF DeadEndIsAsked
  <2>3. CASE Visit
    <3>1. pc' = "search" BY <2>3 DEF Visit
    <3> QED BY <3>1 DEF DeadEndIsAsked
  <2>4. CASE Finish
    <3>1. pc' = "report" BY <2>4 DEF Finish
    <3> QED BY <3>1 DEF DeadEndIsAsked
  <2>5. CASE Report
    <3>1. /\ routes' = routes /\ diff' = diff
          /\ outcome' = IF Inferred = {}
                        THEN [findings |-> {Asked({})}, tests |-> {}, owners |-> {}]
                        ELSE Reported(CHOOSE c \in Inferred : TRUE)
      BY <2>5 DEF Report
    <3>2. Inferred' = Inferred BY <3>1 DEF Inferred, Score
    <3> DEFINE in == [findings |-> outcome'.findings, owners |-> outcome'.owners,
                      tests |-> outcome'.tests # {}, passed |-> FALSE,
                      known |-> TRUE, satisfied |-> FALSE]
    <3>3. /\ in.findings = outcome'.findings /\ in.owners = outcome'.owners
          /\ in.known = TRUE /\ in.satisfied = FALSE
      OBVIOUS
    <3> HIDE DEF in
    <3>4. CASE Inferred = {}
      <4>1. outcome'.findings = {Asked({})} /\ outcome'.owners = {} BY <3>1, <3>4
      <4>2. Decide(in) = "REQUIRE_APPROVAL" BY <3>3, <4>1, AskedIsAsked
      <4>3. outcome'.owners = {c.owner : c \in Inferred} BY <3>4, <4>1
      <4> QED BY <3>2, <3>4, <4>2, <4>3 DEF DeadEndIsAsked, in
    <3>5. CASE Inferred # {}
      <4>1. PICK c : Inferred = {c} BY <3>5, OneIsInferred
      <4>2. (CHOOSE k \in Inferred : TRUE) = c BY <4>1
      <4>3. outcome' = Reported(c) BY <3>1, <3>5, <4>2
      <4>4. CASE DOMAIN routes = {}
        <5>1. outcome'.findings = {Asked({c.owner})} /\ outcome'.owners = {c.owner}
          BY <4>3, <4>4 DEF Reported
        <5>2. Decide(in) = "REQUIRE_APPROVAL" BY <3>3, <5>1, AskedIsAsked
        <5>3. outcome'.owners = {k.owner : k \in Inferred} BY <4>1, <5>1
        <5> QED BY <3>1, <3>2, <4>4, <5>2, <5>3 DEF DeadEndIsAsked, in
      <4>5. CASE DOMAIN routes # {}
        <5>1. outcome'.findings = {} /\ outcome'.owners = {} BY <4>3, <4>5 DEF Reported
        <5>2. Decide(in) # "REQUIRE_APPROVAL" BY <3>3, <5>1, NothingIsNotAsked
        <5> QED BY <3>1, <3>2, <3>5, <4>5, <5>2 DEF DeadEndIsAsked, in
      <4> QED BY <4>4, <4>5
    <3> QED BY <3>4, <3>5
  <2> QED BY <2>1, <2>2, <2>3, <2>4, <2>5 DEF Next
<1> QED BY <1>1, <1>2, PTL DEF Spec
=============================================================================
