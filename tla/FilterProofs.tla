---------------------------- MODULE FilterProofs ----------------------------
(***************************************************************************)
(* For every set of texts and every conversion of a text into labels: the  *)
(* trie answers like the list it was built from, and for real text like    *)
(* the rule its users know.                                                *)
(***************************************************************************)
EXTENDS FilterText, DomainNameProofs

\* The marked nodes are exactly the label paths of the accepted texts.
BlockedIsList == is_blocked = {LabelsOf(b) : b \in accepted}

\* The inductive invariant: NoOrphans is what lets the walk from the root
\* reach a marked node, BlockedIsList ties the marks to the list.
IInv == TypeOK /\ NoOrphans /\ BlockedIsList

\* A prefix of a sequence of labels is a sequence of labels of that length.
LEMMA PathType ==
  ASSUME NEW L \in Seq(Label), NEW i \in 0..Len(L)
  PROVE  Path(L, i) \in Seq(Label) /\ Len(Path(L, i)) = i
BY DEF Path

\* A shorter prefix of a prefix is that prefix of the whole.
LEMMA PathOfPath ==
  ASSUME NEW L \in Seq(Label), NEW i \in 0..Len(L), NEW j \in 0..i
  PROVE  Path(Path(L, i), j) = Path(L, j)
BY DEF Path

\* The prefix of full length is the sequence itself.
LEMMA WholePath ==
  ASSUME NEW L \in Seq(Label)
  PROVE  Path(L, Len(L)) = L
BY DEF Path

\* CreatePath adds prefixes of one label sequence and keeps the trie's types
\* and its reachability from the root.
LEMMA CreatePathKeepsShape ==
  ASSUME TypeOK, NoOrphans, NEW L \in Seq(Label), NEW k \in 0..Len(L),
         CreatePath(L, k)
  PROVE  /\ nodes' \subseteq Seq(Label)
         /\ nodes \subseteq nodes'
         /\ capacity' \in [nodes' -> Nat]
         /\ NoOrphans'
<1>1. nodes' = nodes \cup {Path(L, i) : i \in 0..k}
  BY DEF CreatePath
<1>2. nodes' \subseteq Seq(Label)
  <2>1. \A i \in 0..k : Path(L, i) \in Seq(Label)
    BY PathType
  <2>2. QED
    BY <1>1, <2>1 DEF TypeOK
<1>3. \A p \in nodes : capacity[p] \in Nat /\ GrownCapacity(p) \in Nat
  BY CapacityPositive DEF TypeOK, GrownCapacity
<1>4. capacity' \in [nodes' -> Nat]
  BY <1>3, CapacityPositive DEF CreatePath
<1>5. NoOrphans'
  <2> SUFFICES ASSUME NEW p \in nodes', NEW j \in 0..Len(p)
               PROVE  Path(p, j) \in nodes'
    BY DEF NoOrphans, Path
  <2>1. CASE p \in nodes
    BY <2>1, <1>1 DEF NoOrphans
  <2>2. CASE p \notin nodes
    <3>1. PICK i \in 0..k : p = Path(L, i)
      BY <2>2, <1>1
    <3>2. Len(p) = i
      BY <3>1, PathType
    <3>3. Path(p, j) = Path(L, j)
      BY <3>1, <3>2, PathOfPath
    <3>4. j \in 0..k
      BY <3>2
    <3>5. QED
      BY <3>3, <3>4, <1>1
  <2>3. QED
    BY <2>1, <2>2
<1>6. QED
  BY <1>1, <1>2, <1>4, <1>5

\* The inductive step, action by action.
LEMMA FilterStep == IInv /\ [Next]_vars => IInv'
<1> SUFFICES ASSUME IInv, [Next]_vars
             PROVE  IInv'
  OBVIOUS
<1> USE DEF IInv
<1>1. CASE filter_init
  <2>1. TypeOK'
    <3>1. CASE nodes' = {<< >>} /\ capacity' = [p \in nodes' |-> 0] /\ ret' = "ok"
      <4>1. capacity' \in [nodes' -> Nat]
        BY <3>1
      <4>2. nodes' \subseteq Seq(Label) /\ is_blocked' \subseteq nodes'
        BY <1>1, <3>1 DEF filter_init, TypeOK
      <4>3. QED
        BY <1>1, <3>1, <4>1, <4>2 DEF filter_init, TypeOK
    <3>2. CASE ret' = "fail" /\ UNCHANGED <<nodes, capacity>>
      BY <1>1, <3>2 DEF filter_init, TypeOK
    <3>3. QED
      BY <1>1, <3>1, <3>2 DEF filter_init
  <2>2. NoOrphans'
    <3>1. CASE nodes' = {<< >>}
      <4>1. Len(<< >>) = 0 /\ Path(<< >>, 0) = << >>
        BY DEF Path
      <4>2. QED
        BY <3>1, <4>1 DEF NoOrphans, Path
    <3>2. CASE UNCHANGED nodes
      BY <3>2 DEF NoOrphans, Path
    <3>3. QED
      BY <1>1, <3>1, <3>2 DEF filter_init
  <2>3. BlockedIsList'
    BY <1>1 DEF filter_init, BlockedIsList
  <2>4. QED
    BY <2>1, <2>2, <2>3
<1>2. CASE filter_free
  BY <1>2 DEF filter_free, TypeOK, NoOrphans, BlockedIsList
<1>3. ASSUME NEW d \in RawDomain, AddSucceeds(d)
      PROVE  IInv'
  <2> DEFINE L == LabelsOf(d)
  <2>1. L \in Seq(Label) /\ Len(L) \in 0..Len(L)
    BY LabelsType
  <2>2. CreatePath(L, Len(L))
    BY <1>3 DEF AddSucceeds
  <2>3. /\ nodes' \subseteq Seq(Label)
        /\ nodes \subseteq nodes'
        /\ capacity' \in [nodes' -> Nat]
        /\ NoOrphans'
    BY <2>1, <2>2, CreatePathKeepsShape
  <2>4. L \in nodes'
    BY <2>1, <2>2, WholePath DEF CreatePath
  <2>5. TypeOK'
    BY <1>3, <2>3, <2>4 DEF AddSucceeds, TypeOK
  <2>6. BlockedIsList'
    BY <1>3 DEF AddSucceeds, BlockedIsList
  <2>7. QED
    BY <2>3, <2>5, <2>6
<1>4. ASSUME NEW d \in RawDomain, AddRunsOutOfMemory(d)
      PROVE  IInv'
  <2> DEFINE L == LabelsOf(d)
  <2>1. L \in Seq(Label)
    BY LabelsType
  <2>2. PICK k \in 0..(Len(L) - 1) : CreatePath(L, k)
    BY <1>4 DEF AddRunsOutOfMemory
  <2>3. k \in 0..Len(L)
    BY <2>1
  <2>4. /\ nodes' \subseteq Seq(Label)
        /\ nodes \subseteq nodes'
        /\ capacity' \in [nodes' -> Nat]
        /\ NoOrphans'
    BY <2>1, <2>2, <2>3, CreatePathKeepsShape
  <2>5. QED
    BY <1>4, <2>4 DEF AddRunsOutOfMemory, TypeOK, BlockedIsList
<1>5. ASSUME NEW d \in RawDomain, AddRejected(d)
      PROVE  IInv'
  BY <1>5 DEF AddRejected, TypeOK, NoOrphans, BlockedIsList
<1>6. CASE UNCHANGED vars
  BY <1>6 DEF vars, TypeOK, NoOrphans, BlockedIsList
<1>7. QED
  BY <1>1, <1>2, <1>3, <1>4, <1>5, <1>6 DEF Next, filter_add_domain

\* The invariant holds of every reachable state.
THEOREM FilterInvariant == Spec => []IInv
<1>1. Init => IInv
  BY DEF Init, IInv, TypeOK, NoOrphans, BlockedIsList
<1>2. QED
  BY <1>1, FilterStep, PTL DEF Spec

\* Type correctness of the trie (filter_node_t and its counters).
THEOREM FilterTypeCorrect == Spec => []TypeOK
BY FilterInvariant, PTL DEF IInv

\* In a state of the invariant the walk and the list agree on every text.
LEMMA InvariantGivesLookup == IInv => LookupMatchesList
<1> SUFFICES ASSUME IInv, NEW d \in RawDomain
             PROVE  is_domain_blocked(d) <=> ListBlocks(d)
  BY DEF LookupMatchesList
<1> DEFINE L == LabelsOf(d)
<1>1. L \in Seq(Label)
  BY LabelsType
<1>2. \A i \in 1..Len(L) : Path(L, i) \in is_blocked
                           <=> \E b \in accepted : Path(L, i) = LabelsOf(b)
  BY DEF IInv, BlockedIsList
<1>3. ASSUME NEW i \in 1..Len(L), Path(L, i) \in is_blocked
      PROVE  \A j \in 0..i : Path(L, j) \in nodes
  <2>1. Path(L, i) \in nodes
    BY <1>3 DEF IInv, TypeOK
  <2>2. Len(Path(L, i)) = i
    BY <1>1, PathType
  <2>3. \A j \in 0..i : Path(Path(L, i), j) = Path(L, j)
    BY <1>1, PathOfPath
  <2>4. QED
    BY <2>1, <2>2, <2>3 DEF IInv, NoOrphans
<1>4. QED
  BY <1>2, <1>3 DEF is_domain_blocked, ListBlocks

\* is_domain_blocked gives, for every name, the answer of the list of accepted
\* domains, in every reachable state and whatever allocations failed.
THEOREM LookupCorrect == Spec => []LookupMatchesList
BY FilterInvariant, InvariantGivesLookup, PTL

\* No node is ever cut off from the root, so filter_node_free reaches all.
THEOREM NothingOrphaned == Spec => []NoOrphans
BY FilterInvariant, PTL DEF IInv

\* A failed insertion changes no answer and a successful one unblocks nothing.
THEOREM FailedAddHarmless == Spec => FailedAddChangesNoAnswer
<1>1. ASSUME IInv, IInv', [Next]_vars
      PROVE  [\A d \in RawDomain :
                /\ (nodes' # {} /\ is_domain_blocked(d)) => is_domain_blocked(d)'
                /\ ret' = "fail" => (is_domain_blocked(d)' => is_domain_blocked(d))]_vars
  <2>1. LookupMatchesList /\ LookupMatchesList'
    <3>1. LookupMatchesList
      BY <1>1, InvariantGivesLookup
    <3>2. LookupMatchesList'
      BY <1>1, InvariantGivesLookup, PTL
    <3>3. QED
      BY <3>1, <3>2
  <2>2. CASE Next
    <3>1. nodes' # {} => accepted \subseteq accepted'
      BY <2>2 DEF Next, filter_init, filter_free, filter_add_domain,
                  AddSucceeds, AddRunsOutOfMemory, AddRejected
    <3>2. ret' = "fail" => accepted' = accepted
      BY <2>2 DEF Next, filter_init, filter_free, filter_add_domain,
                  AddSucceeds, AddRunsOutOfMemory, AddRejected
    <3>3. \A d \in RawDomain : /\ is_domain_blocked(d) <=> ListBlocks(d)
                               /\ is_domain_blocked(d)' <=> ListBlocks(d)'
      BY <2>1 DEF LookupMatchesList
    <3>4. \A d \in RawDomain :
            /\ nodes' # {} /\ ListBlocks(d) => ListBlocks(d)'
            /\ ret' = "fail" /\ ListBlocks(d)' => ListBlocks(d)
      BY <3>1, <3>2 DEF ListBlocks, Path
    <3>5. QED
      BY <3>3, <3>4
  <2>3. QED
    BY <1>1, <2>2
<1>2. QED
  BY <1>1, FilterInvariant, PTL DEF Spec, FailedAddChangesNoAnswer

-----------------------------------------------------------------------------
\* The children arrays: finitely many nodes, none with more children than its
\* array holds.
FitInv == IsFiniteSet(nodes) /\ ChildrenFit

\* A walk adds at most one child below any node, the next prefix.
LEMMA OneNewChild ==
  ASSUME TypeOK, NEW L \in Seq(Label), NEW k \in 0..Len(L), CreatePath(L, k),
         NEW p \in nodes', p \in Seq(Label)
  PROVE  /\ ChildrenOf(p, nodes') \subseteq
               ChildrenOf(p, nodes) \cup {Path(L, Len(p) + 1)}
         /\ ~(\E i \in 1..k : Path(L, i) \notin nodes /\ Path(L, i - 1) = p)
               => ChildrenOf(p, nodes') = ChildrenOf(p, nodes)
<1>1. ASSUME NEW q \in ChildrenOf(p, nodes'), q \notin nodes
      PROVE  /\ q = Path(L, Len(p) + 1)
             /\ \E i \in 1..k : Path(L, i) \notin nodes /\ Path(L, i - 1) = p
  <2>1. Len(q) = Len(p) + 1 /\ Path(q, Len(p)) = p
    BY DEF ChildrenOf
  <2>2. PICK i \in 0..k : q = Path(L, i)
    BY <1>1 DEF ChildrenOf, CreatePath
  <2>3. i = Len(p) + 1
    BY <2>1, <2>2, PathType
  <2>4. Path(L, i - 1) = p
    <3>1. Len(p) \in 0..i /\ i \in 0..Len(L) /\ i - 1 = Len(p)
      BY <2>3
    <3>2. Path(Path(L, i), Len(p)) = Path(L, Len(p))
      BY <3>1, PathOfPath
    <3>3. QED
      BY <3>1, <3>2, <2>1, <2>2
  <2>5. QED
    BY <1>1, <2>2, <2>3, <2>4
<1>2. ChildrenOf(p, nodes) \subseteq ChildrenOf(p, nodes')
  BY DEF ChildrenOf, CreatePath
<1>3. \A q \in ChildrenOf(p, nodes') : q \in nodes => q \in ChildrenOf(p, nodes)
  BY DEF ChildrenOf
<1>4. QED
  BY <1>1, <1>2, <1>3

\* CreatePath keeps every node's children within its array.
LEMMA CreatePathFits ==
  ASSUME TypeOK, NoOrphans, FitInv, NEW L \in Seq(Label), NEW k \in 0..Len(L),
         CreatePath(L, k)
  PROVE  FitInv'
<1> DEFINE Kids(p)    == ChildrenOf(p, nodes)
           NewKids(p) == ChildrenOf(p, nodes')
           Gains(p)   == \E i \in 1..k : Path(L, i) \notin nodes /\ Path(L, i - 1) = p
<1>1. IsFiniteSet(nodes')
  <2>1. IsFiniteSet({Path(L, i) : i \in 0..k})
    <3>1. IsFiniteSet(0..k)
      BY FS_Interval
    <3> DEFINE f == [i \in 0..k |-> Path(L, i)]
    <3>2. f \in Surjection(0..k, {Path(L, i) : i \in 0..k})
      BY DEF Surjection
    <3>3. QED
      BY <3>1, <3>2, FS_Surjection
  <2>2. QED
    BY <2>1, FS_Union DEF FitInv, CreatePath
<1>2. \A p \in nodes : IsFiniteSet(Kids(p)) /\ Cardinality(Kids(p)) \in Nat
                       /\ Cardinality(Kids(p)) <= capacity[p] /\ capacity[p] \in Nat
  <2>1. \A p \in nodes : Kids(p) \subseteq nodes
    BY DEF ChildrenOf
  <2>2. \A p \in nodes : IsFiniteSet(Kids(p))
    BY <2>1, FS_Subset DEF FitInv
  <2>3. QED
    BY <2>2, FS_CardinalityType DEF FitInv, ChildrenFit, TypeOK
<1>3. ASSUME NEW p \in nodes'
      PROVE  Cardinality(NewKids(p)) <= capacity'[p]
  <2>0. p \in Seq(Label)
    BY CreatePathKeepsShape
  <2>1. /\ NewKids(p) \subseteq Kids(p) \cup {Path(L, Len(p) + 1)}
        /\ ~Gains(p) => NewKids(p) = Kids(p)
    BY <2>0, OneNewChild
  <2>2. CASE p \in nodes /\ ~Gains(p)
    <3>1. capacity'[p] = capacity[p]
      BY <2>2 DEF CreatePath
    <3>2. QED
      BY <2>1, <2>2, <3>1, <1>2
  <2>3. CASE p \in nodes /\ Gains(p)
    <3>1. capacity'[p] = GrownCapacity(p)
      BY <2>3 DEF CreatePath
    <3>2. Cardinality(Kids(p)) + 1 <= GrownCapacity(p)
      BY <2>3, <1>2, CapacityPositive DEF GrownCapacity
    <3>3. /\ IsFiniteSet(Kids(p) \cup {Path(L, Len(p) + 1)})
          /\ Cardinality(Kids(p) \cup {Path(L, Len(p) + 1)}) <= Cardinality(Kids(p)) + 1
      <4>1. IsFiniteSet(Kids(p)) /\ Cardinality(Kids(p)) \in Nat
        BY <2>3, <1>2
      <4> DEFINE K == Kids(p)  x == Path(L, Len(p) + 1)
      <4> HIDE DEF K, x
      <4>2. IsFiniteSet(K) /\ Cardinality(K) \in Nat
        BY <4>1 DEF K
      <4>3. /\ IsFiniteSet(K \cup {x})
            /\ Cardinality(K \cup {x}) = IF x \in K THEN Cardinality(K) ELSE Cardinality(K) + 1
        BY <4>2, FS_AddElement
      <4>4. Cardinality(K \cup {x}) <= Cardinality(K) + 1
        BY <4>2, <4>3
      <4>5. QED
        BY <4>3, <4>4 DEF K, x
    <3>4. /\ Cardinality(NewKids(p)) <= Cardinality(Kids(p) \cup {Path(L, Len(p) + 1)})
          /\ Cardinality(NewKids(p)) \in Nat
          /\ Cardinality(Kids(p) \cup {Path(L, Len(p) + 1)}) \in Nat
      BY <2>1, <3>3, FS_Subset, FS_CardinalityType
    <3>5. Cardinality(Kids(p)) \in Nat /\ GrownCapacity(p) \in Nat
      BY <2>3, <1>2, CapacityPositive DEF GrownCapacity
    <3>6. QED
      BY <3>1, <3>2, <3>3, <3>4, <3>5
  <2>4. CASE p \notin nodes
    <3>1. Kids(p) = {}
      <4> SUFFICES ASSUME NEW q \in nodes, Len(q) = Len(p) + 1, Path(q, Len(p)) = p
                   PROVE  FALSE
        BY DEF ChildrenOf
      <4>1. Len(p) \in 0..Len(q)
        BY <2>0
      <4>2. QED
        BY <4>1, <2>4 DEF NoOrphans
    <3>2. CASE p = Path(L, k)
      <4>1. ~Gains(p)
        <5> SUFFICES ASSUME NEW i \in 1..k, Path(L, i - 1) = p
                     PROVE  FALSE
          OBVIOUS
        <5>1. i - 1 \in 0..Len(L)
          OBVIOUS
        <5>2. Len(p) = i - 1
          BY <5>1, PathType
        <5>3. Len(p) = k
          BY <3>2, PathType
        <5>4. QED
          BY <5>2, <5>3
      <4>2. NewKids(p) = {}
        BY <4>1, <2>1, <3>1
      <4>3. capacity'[p] = 0
        BY <2>4, <3>2 DEF CreatePath
      <4>4. QED
        BY <4>2, <4>3, FS_EmptySet
    <3>3. CASE p # Path(L, k)
      <4>1. capacity'[p] = INITIAL_CHILDREN_CAPACITY
        BY <2>4, <3>3 DEF CreatePath
      <4>2. NewKids(p) \subseteq {Path(L, Len(p) + 1)}
        BY <2>1, <3>1
      <4>3. /\ IsFiniteSet({Path(L, Len(p) + 1)})
            /\ Cardinality({Path(L, Len(p) + 1)}) = 1
        BY FS_Singleton
      <4>4. Cardinality(NewKids(p)) <= 1 /\ Cardinality(NewKids(p)) \in Nat
        BY <4>2, <4>3, FS_Subset, FS_CardinalityType
      <4>5. QED
        BY <4>1, <4>4, CapacityPositive
    <3>4. QED
      BY <3>2, <3>3
  <2>5. QED
    BY <2>2, <2>3, <2>4
<1>4. QED
  BY <1>1, <1>3 DEF FitInv, ChildrenFit, ChildrenOf, Path

\* add_child never writes past the children array, for every first size and
\* every sequence of insertions and failures.
THEOREM ChildrenAlwaysFit == Spec => []ChildrenFit
<1>1. Init => FitInv
  BY FS_EmptySet DEF Init, FitInv, ChildrenFit
<1>2. IInv /\ FitInv /\ [Next]_vars => FitInv'
  <2> SUFFICES ASSUME IInv, FitInv, [Next]_vars
               PROVE  FitInv'
    OBVIOUS
  <2>1. CASE filter_init
    <3>1. CASE nodes' = {<< >>} /\ capacity' = [p \in nodes' |-> 0]
      <4>1. IsFiniteSet(nodes')
        BY <3>1, FS_Singleton
      <4>2. ChildrenOf(<< >>, nodes') = {}
        BY <3>1 DEF ChildrenOf
      <4>3. \A p \in nodes' : p = << >> /\ capacity'[p] = 0
        BY <3>1
      <4>4. ChildrenFit'
        <5> SUFFICES ASSUME NEW p \in nodes'
                     PROVE  Cardinality(ChildrenOf(p, nodes')) <= capacity'[p]
          BY DEF ChildrenFit, ChildrenOf, Path
        <5>1. Cardinality(ChildrenOf(p, nodes')) = 0
          BY <4>2, <4>3, FS_EmptySet
        <5>2. QED
          BY <4>3, <5>1
      <4>5. QED
        BY <4>1, <4>4 DEF FitInv
    <3>2. CASE UNCHANGED <<nodes, capacity>>
      BY <3>2 DEF FitInv, ChildrenFit, ChildrenOf, Path
    <3>3. QED
      BY <2>1, <3>1, <3>2 DEF filter_init
  <2>2. CASE filter_free
    BY <2>2, FS_EmptySet DEF filter_free, FitInv, ChildrenFit
  <2>3. ASSUME NEW d \in RawDomain, AddSucceeds(d) \/ AddRunsOutOfMemory(d)
        PROVE  FitInv'
    <3>1. LabelsOf(d) \in Seq(Label)
      BY LabelsType
    <3>2. PICK k \in 0..Len(LabelsOf(d)) : CreatePath(LabelsOf(d), k)
      BY <2>3, <3>1 DEF AddSucceeds, AddRunsOutOfMemory
    <3>3. QED
      BY <3>1, <3>2, CreatePathFits DEF IInv
  <2>4. ASSUME NEW d \in RawDomain, AddRejected(d)
        PROVE  FitInv'
    BY <2>4 DEF AddRejected, FitInv, ChildrenFit, ChildrenOf, Path
  <2>5. CASE UNCHANGED vars
    BY <2>5 DEF vars, FitInv, ChildrenFit, ChildrenOf, Path
  <2>6. QED
    BY <2>1, <2>2, <2>3, <2>4, <2>5 DEF Next, filter_add_domain
<1>3. QED
  BY <1>1, <1>2, FilterInvariant, PTL DEF Spec, FitInv

-----------------------------------------------------------------------------
(* The subdomain rule on text. *)

\* A listed text has labels: what does not normalise or split is refused.
ListedHaveLabels == \A b \in accepted : LabelsOf(b) # Failed

\* filter_add_domain accepts no text without labels.
LEMMA ListedHaveLabelsHolds == Spec => []ListedHaveLabels
<1>1. Init => ListedHaveLabels
  BY DEF Init, ListedHaveLabels
<1>2. ListedHaveLabels /\ [Next]_vars => ListedHaveLabels'
  BY DEF ListedHaveLabels, Next, filter_init, filter_free, filter_add_domain, AddSucceeds,
         AddRunsOutOfMemory, AddRejected, Failed, vars
<1>3. QED
  BY <1>1, <1>2, PTL DEF Spec

\* A text with labels is a name that splits into them.
LEMMA LabelsOfName ==
  ASSUME NEW C, \A c \in C : tolower(c) \in C, RawDomain \subseteq Seq(C),
         NEW d \in RawDomain, LabelsOf(d) # Failed
  PROVE  /\ NameOf[d] \in Seq(C)
         /\ split_domain_labels(NameOf[d]) # Failed
         /\ LabelsOf(d) = split_domain_labels(NameOf[d])
<1> DEFINE name == normalize_domain(d, DNS_MAX_NAME_LEN + 1)
<1>1. LabelsOf(d) = LabelsOfText(d) /\ NameOf[d] = name
  BY LabelsAreOfText DEF NameOf
<1>2. name # Failed /\ LabelsOf(d) = split_domain_labels(name)
  BY <1>1 DEF LabelsOfText
<1>3. d \in Seq(C) /\ DNS_MAX_NAME_LEN + 1 \in Nat
  BY NameLimits
<1>4. name \in Seq(C)
  BY <1>2, <1>3, NormalizedName
<1>5. QED
  BY <1>1, <1>2, <1>4

\* A text is blocked exactly when a listed name is equal to it or is its tail
\* after a dot, for every set of texts, every alphabet closed under tolower,
\* every limit on names and labels, and whatever insertions failed.
THEOREM SubdomainRuleHolds ==
  ASSUME NEW C, \A c \in C : tolower(c) \in C, RawDomain \subseteq Seq(C)
  PROVE  Spec => []SubdomainRule
<1>1. LookupMatchesList /\ ListedHaveLabels /\ TypeOK => SubdomainRule
  <2> SUFFICES ASSUME LookupMatchesList, ListedHaveLabels, TypeOK,
                      NEW d \in RawDomain, LabelsOf(d) # Failed
               PROVE  is_domain_blocked(d)
                        <=> \E b \in accepted : IsOrIsBelow(NameOf[d], NameOf[b])
    BY DEF SubdomainRule
  <2> DEFINE n == NameOf[d]
  <2>1. /\ n \in Seq(C) /\ split_domain_labels(n) # Failed
        /\ LabelsOf(d) = split_domain_labels(n)
    BY LabelsOfName
  <2> HIDE DEF n
  <2>2. ASSUME NEW b \in accepted
        PROVE  (\E i \in 1..Len(LabelsOf(d)) : Path(LabelsOf(d), i) = LabelsOf(b))
                 <=> IsOrIsBelow(n, NameOf[b])
    <3> DEFINE m == NameOf[b]
    <3>1. /\ m \in Seq(C) /\ split_domain_labels(m) # Failed
          /\ LabelsOf(b) = split_domain_labels(m)
      BY LabelsOfName DEF ListedHaveLabels, TypeOK
    <3> HIDE DEF m
    <3>2. (\E i \in 1..Len(split_domain_labels(n)) :
             SubSeq(split_domain_labels(n), 1, i) = split_domain_labels(m))
           <=> n = m \/ \E p \in DOMAIN n : n[p] = "." /\ m = SubSeq(n, p + 1, Len(n))
      BY <2>1, <3>1, NamesBelow
    <3>3. QED
      BY <2>1, <3>1, <3>2 DEF Path, IsOrIsBelow, m
  <2>3. is_domain_blocked(d) <=> ListBlocks(d)
    BY DEF LookupMatchesList
  <2>4. QED
    BY <2>2, <2>3 DEF ListBlocks, n
<1>2. QED
  BY <1>1, LookupCorrect, ListedHaveLabelsHolds, FilterTypeCorrect, PTL
=============================================================================
