------------------------------- MODULE Filter -------------------------------
(***************************************************************************)
(* The block list of filter.c: a trie keyed by labels, top-level domain    *)
(* first.  A node is identified by its path from the root, so the trie is  *)
(* the set of its nodes' paths; the root is the empty path and a NULL root *)
(* is the empty set.  find_child(Path(i), label) succeeds exactly when     *)
(* Path(i + 1) is a node.  Every allocation may fail, which makes          *)
(* filter_add_domain stop half way down a path.                            *)
(***************************************************************************)
EXTENDS Integers, Sequences, FiniteSets

CONSTANTS RawDomain,                  \* texts handed to the filter
          Label,                      \* labels that occur in them
          LabelsOf(_),                \* normalize_domain + split_domain_labels
          INITIAL_CHILDREN_CAPACITY   \* filter.c: first size of children[]

ASSUME LabelsType == \A d \in RawDomain : LabelsOf(d) \in Seq(Label)

ASSUME CapacityPositive == INITIAL_CHILDREN_CAPACITY \in Nat \ {0}

VARIABLES nodes,       \* paths of the nodes that exist
          is_blocked,  \* paths of the nodes whose is_blocked flag is set
          capacity,    \* children_capacity of every node
          accepted,    \* history: texts filter_add_domain returned 0 for
          ret          \* result of the last call: "ok" or "fail"

vars == <<nodes, is_blocked, capacity, accepted, ret>>

Path(labels, i) == SubSeq(labels, 1, i)

ChildrenOf(p, trie) == {q \in trie : Len(q) = Len(p) + 1 /\ Path(q, Len(p)) = p}

TypeOK ==
  /\ nodes \subseteq Seq(Label)
  /\ is_blocked \subseteq nodes
  /\ capacity \in [nodes -> Nat]
  /\ accepted \subseteq RawDomain
  /\ ret \in {"ok", "fail"}

-----------------------------------------------------------------------------
Init ==
  /\ nodes = {}
  /\ is_blocked = {}
  /\ capacity = [p \in {} |-> 0]
  /\ accepted = {}
  /\ ret = "ok"

\* filter_init, or the root load_filter_file creates.
filter_init ==
  /\ nodes = {}
  /\ \/ /\ nodes' = {<< >>}
        /\ capacity' = [p \in nodes' |-> 0]
        /\ ret' = "ok"
     \/ /\ ret' = "fail"
        /\ UNCHANGED <<nodes, capacity>>
  /\ UNCHANGED <<is_blocked, accepted>>

\* Mutant: the root is freed and its marks survive.
filter_free_KeepsMarks ==
  /\ nodes # {}
  /\ nodes' = {}
  /\ capacity' = [p \in {} |-> 0]
  /\ accepted' = {}
  /\ ret' = "ok"
  /\ UNCHANGED is_blocked

\* filter_free / filter_node_free on the root: every node is released.
filter_free ==
  /\ nodes # {}
  /\ nodes' = {}
  /\ is_blocked' = {}
  /\ capacity' = [p \in {} |-> 0]
  /\ accepted' = {}
  /\ ret' = "ok"

\* Mutant: the array grows one child too late.
GrownCapacity_Late(p) ==
  IF Cardinality(ChildrenOf(p, nodes)) > capacity[p]
  THEN IF capacity[p] = 0 THEN INITIAL_CHILDREN_CAPACITY ELSE 2 * capacity[p]
  ELSE capacity[p]

\* add_child: the array doubles, or gets its first size, when it is full.
GrownCapacity(p) ==
  IF Cardinality(ChildrenOf(p, nodes)) >= capacity[p]
  THEN IF capacity[p] = 0 THEN INITIAL_CHILDREN_CAPACITY ELSE 2 * capacity[p]
  ELSE capacity[p]

\* The trie after the walk created the missing nodes of the first k labels.
CreatePath(labels, k) ==
  /\ nodes' = nodes \cup {Path(labels, i) : i \in 0..k}
  /\ capacity' = [p \in nodes' |->
       IF p \in nodes
       THEN IF \E i \in 1..k : /\ Path(labels, i) \notin nodes
                               /\ Path(labels, i - 1) = p
            THEN GrownCapacity(p)
            ELSE capacity[p]
       ELSE IF p = Path(labels, k) THEN 0 ELSE INITIAL_CHILDREN_CAPACITY]

\* filter_add_domain returns 0: the path exists and its last node is marked.
AddSucceeds(d) ==
  LET labels == LabelsOf(d)
  IN  /\ nodes # {} /\ labels # << >>
      /\ CreatePath(labels, Len(labels))
      /\ is_blocked' = is_blocked \cup {labels}
      /\ accepted' = accepted \cup {d}
      /\ ret' = "ok"

\* Mutant: the node the walk stopped at is marked although the call fails.
AddRunsOutOfMemory_Marks(d) ==
  LET labels == LabelsOf(d)
  IN  /\ nodes # {} /\ labels # << >>
      /\ \E k \in 0..(Len(labels) - 1) :
           /\ Path(labels, k + 1) \notin nodes
           /\ CreatePath(labels, k)
           /\ is_blocked' = is_blocked \cup {Path(labels, k)}
      /\ UNCHANGED accepted
      /\ ret' = "fail"

\* Mutant: the node the walk stopped at is unlinked, with whatever is below it.
AddRunsOutOfMemory_Unlinks(d) ==
  LET labels == LabelsOf(d)
  IN  /\ nodes # {} /\ labels # << >>
      /\ \E k \in 1..(Len(labels) - 1) :
           /\ Path(labels, k + 1) \notin nodes
           /\ nodes' = nodes \ {Path(labels, k)}
           /\ is_blocked' = is_blocked \ {Path(labels, k)}
           /\ capacity' = [p \in nodes' |-> capacity[p]]
      /\ UNCHANGED accepted
      /\ ret' = "fail"

\* filter_add_domain returns -1 because the node of label k + 1, its label or
\* the parent's array could not be allocated; the nodes above it stay.
AddRunsOutOfMemory(d) ==
  LET labels == LabelsOf(d)
  IN  /\ nodes # {} /\ labels # << >>
      /\ \E k \in 0..(Len(labels) - 1) :
           /\ Path(labels, k + 1) \notin nodes
           /\ CreatePath(labels, k)
      /\ UNCHANGED <<is_blocked, accepted>>
      /\ ret' = "fail"

\* filter_add_domain returns -1 before it touches the trie: NULL root, a text
\* that does not normalise or split, or no memory for the label array.
AddRejected(d) ==
  /\ ret' = "fail"
  /\ UNCHANGED <<nodes, is_blocked, capacity, accepted>>

filter_add_domain(d) == AddSucceeds(d) \/ AddRunsOutOfMemory(d) \/ AddRejected(d)

Next ==
  \/ filter_init
  \/ filter_free
  \/ \E d \in RawDomain : filter_add_domain(d)

Spec == Init /\ [][Next]_vars

-----------------------------------------------------------------------------
\* Mutant: only the last node of the walk counts.
is_domain_blocked_Exact(d) == LabelsOf(d) # << >> /\ LabelsOf(d) \in is_blocked

\* The walk of is_domain_blocked: down the labels while the child exists,
\* stopping at the first blocked node.
is_domain_blocked(d) ==
  LET labels == LabelsOf(d)
  IN  \E i \in 1..Len(labels) :
        /\ \A j \in 0..i : Path(labels, j) \in nodes
        /\ Path(labels, i) \in is_blocked

\* count_stats_recursive over the children of the root.
filter_stats ==
  [total_domains |-> Cardinality(is_blocked),
   total_nodes   |-> Cardinality(nodes \ {<< >>}),
   max_depth     |-> CHOOSE n \in {0} \cup {Len(p) : p \in nodes} :
                       \A p \in nodes : Len(p) <= n]

-----------------------------------------------------------------------------
\* What the filter promises: a name is blocked exactly when it, or a domain
\* it lies below, was accepted into the list.
ListBlocks(d) ==
  \E b \in accepted : \E i \in 1..Len(LabelsOf(d)) : Path(LabelsOf(d), i) = LabelsOf(b)

\* Looking a name up in the trie (is_domain_blocked) gives the answer of the
\* list of accepted domains, whatever insertions failed half way before.
LookupMatchesList == \A d \in RawDomain : is_domain_blocked(d) <=> ListBlocks(d)

\* Every node is reachable from the root, so that filter_node_free's recursion
\* over children releases all of them.
NoOrphans == \A p \in nodes : \A i \in 0..Len(p) : Path(p, i) \in nodes

\* add_child never writes past the children array: no node has more children
\* than its array has places.
ChildrenFit ==
  \A p \in nodes : Cardinality(ChildrenOf(p, nodes)) <= capacity[p]

\* A failed filter_add_domain (ret = "fail") changes the answer for no name,
\* and a successful one never unblocks a name: the list only grows until it
\* is freed.
FailedAddChangesNoAnswer ==
  [][\A d \in RawDomain :
       /\ (nodes' # {} /\ is_domain_blocked(d)) => is_domain_blocked(d)'
       /\ ret' = "fail" => (is_domain_blocked(d)' => is_domain_blocked(d))]_vars
=============================================================================
