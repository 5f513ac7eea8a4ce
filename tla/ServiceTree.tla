------------------------------ MODULE ServiceTree ------------------------------
(***************************************************************************)
(* The service hierarchy (services/servicemanagement/src/hierarchy.rs) as  *)
(* operators on trees.  A tree maps the number of a node to its name, its  *)
(* priority and its children in order; 0 is the root.  The parent of a     *)
(* node is the one among whose children it is, since a node is added once; *)
(* a node that is removed goes with what is below it.                      *)
(* A path is the sequence of its parts.                                    *)
(***************************************************************************)
EXTENDS Integers, Sequences, FiniteSets, SequencesExt

Root == 0
NoNode == -1

Node(name, priority) == [name |-> name, priority |-> priority, children |-> <<>>]

NewTree == [n \in {Root} |-> Node("root", 0)]

\* The place of the first child of that name, 0 if there is none.
ChildIndex(tree, n, name) ==
  SelectInSeq(tree[n].children, LAMBDA c : tree[c].name = name)

find_child(tree, n, name) ==
  LET i == ChildIndex(tree, n, name)
  IN  IF i = 0 THEN NoNode ELSE tree[n].children[i]

\* A part that is the name of the current node is passed over.
NextOnPath(tree, n, part) ==
  IF n = NoNode \/ tree[n].name = part THEN n ELSE find_child(tree, n, part)

find_by_path(tree, path) ==
  LET current[i \in 0 .. Len(path)] ==
        IF i = 0 THEN Root ELSE NextOnPath(tree, current[i - 1], path[i])
  IN  current[Len(path)]

\* Mutant: before the children of the same priority.
InsertionPointEarly(tree, n, priority) ==
  LET i == SelectInSeq(tree[n].children, LAMBDA c : tree[c].priority <= priority)
  IN  IF i = 0 THEN Len(tree[n].children) + 1 ELSE i

\* Children are kept in descending order of priority.
InsertionPoint(tree, n, priority) ==
  LET i == SelectInSeq(tree[n].children, LAMBDA c : tree[c].priority < priority)
  IN  IF i = 0 THEN Len(tree[n].children) + 1 ELSE i

NewNode(tree) == CHOOSE id \in 0 .. Cardinality(DOMAIN tree) : id \notin DOMAIN tree

add_child(tree, n, node) ==
  LET id == NewNode(tree)
  IN  [k \in DOMAIN tree \cup {id} |->
         IF k = id THEN node
         ELSE IF k = n THEN [tree[n] EXCEPT !.children =
                               InsertAt(@, InsertionPoint(tree, n, node.priority), id)]
         ELSE tree[k]]

\* With a node, its children are in the set.
Closed(tree, S) == \A k \in S : Range(tree[k].children) \subseteq S

\* The node and all that is below it.
Subtree(tree, n) ==
  {k \in DOMAIN tree : \A S \in SUBSET DOMAIN tree : n \in S /\ Closed(tree, S) => k \in S}

\* remove_child: the first child of that name, if there is one.
remove_child(tree, n, name) ==
  LET i == ChildIndex(tree, n, name)
  IN  IF i = 0 THEN tree
      ELSE [k \in DOMAIN tree \ Subtree(tree, tree[n].children[i]) |->
              IF k = n THEN [tree[n] EXCEPT !.children = RemoveAt(@, i)] ELSE tree[k]]

\* A sibling of the same name comes first because of its priority.
Outranked(tree, n) ==
  \E p \in DOMAIN tree : \E s \in Range(tree[p].children) :
    /\ n \in Range(tree[p].children)
    /\ tree[s].name = tree[n].name /\ tree[s].priority > tree[n].priority

\* What rsplit_once leaves of a path: its last part goes, whatever it names.
parent_path(path) == IF Len(path) <= 1 THEN <<>> ELSE Front(path)

\* register: below the node at the parent path; an unknown one changes nothing.
register(tree, path, node) ==
  LET parent == find_by_path(tree, parent_path(path))
  IN  IF parent = NoNode THEN tree ELSE add_child(tree, parent, node)

create_container(tree, path, name) == register(tree, path, Node(name, 0))

\* Containers below the root, one after the other.
create_containers(tree, names) ==
  LET after[i \in 0 .. Len(names)] ==
        IF i = 0 THEN tree ELSE create_container(after[i - 1], <<"root">>, names[i])
  IN  after[Len(names)]

-----------------------------------------------------------------------------
(* What add_child and remove_child keep, of a tree and of the paths that its *)
(* nodes were placed at.                                                     *)

\* Those that register and create_container give, and that of the root.
NodeNames == STRING \cup {"root"}

TreeShape(tree) ==
  /\ DOMAIN tree \subseteq Nat /\ IsFiniteSet(DOMAIN tree) /\ Root \in DOMAIN tree
  /\ \A n \in DOMAIN tree :
       tree[n] \in [name : NodeNames, priority : Nat, children : Seq(DOMAIN tree \ {Root})]

OneParent(tree) ==
  /\ \A p, q \in DOMAIN tree : \A i \in DOMAIN tree[p].children, j \in DOMAIN tree[q].children :
       tree[p].children[i] = tree[q].children[j] => p = q /\ i = j
  /\ \A n \in DOMAIN tree \ {Root} : \E p \in DOMAIN tree : n \in Range(tree[p].children)

\* A node that has children was the first of its name when it got them, so that one
\* that is before it now came with a higher priority.
ByPriority(tree) ==
  \A p \in DOMAIN tree : \A j \in DOMAIN tree[p].children : \A i \in 1 .. j - 1 :
    LET a == tree[tree[p].children[i]]  b == tree[tree[p].children[j]]
    IN  /\ a.priority >= b.priority
        /\ a.name = b.name /\ b.children # <<>> => a.priority > b.priority

\* The first k parts of the path name nodes on the way from the root to p, though
\* not always the first ones of their names.
Route(tree, path, k, p) ==
  \E w \in [0 .. k -> DOMAIN tree] :
    /\ w[0] = Root /\ w[k] = p
    /\ \A i \in 1 .. k :
         IF tree[w[i - 1]].name = path[i] THEN w[i] = w[i - 1]
         ELSE w[i] \in Range(tree[w[i - 1]].children) /\ tree[w[i]].name = path[i]

PlacesLead(tree, placed) ==
  /\ DOMAIN placed = DOMAIN tree \ {Root}
  /\ \A p \in DOMAIN tree : \A n \in Range(tree[p].children) :
       /\ placed[n] \in Seq(STRING) \ {<<>>} /\ Last(placed[n]) = tree[n].name
       /\ Route(tree, placed[n], Len(placed[n]) - 1, p)

TreeInv(tree, placed) ==
  TreeShape(tree) /\ OneParent(tree) /\ ByPriority(tree) /\ PlacesLead(tree, placed)

=============================================================================
