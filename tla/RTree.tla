-------------------------------- MODULE RTree --------------------------------
(****************************************************************************)
(* index/r_tree.c: insertion with splits, and queries.  Nothing is deleted. *)
(* Boxes lie side by side in one direction, of equal width in the other, so *)
(* that a box is the set of the points from its least to its greatest, and  *)
(* its area their number less one.                                          *)
(*                                                                          *)
(* A node is a record: a leaf has items, with their boxes, and an inner     *)
(* node has children, with the boxes it believes them to have.  Each has a  *)
(* box of its own.  An allocation may fail at every step of an insertion.   *)
(****************************************************************************)
EXTENDS Integers, Sequences, SequencesExt, FiniteSets, FiniteSetsExt

CONSTANTS
    Boxes,        \* the boxes of items
    MaxChildren,  \* R_TREE_MAX_CHILDREN: 8
    MaxInserts    \* bound: insertions tried

RTreeAssumption ==
    /\ MaxChildren \in Nat /\ MaxChildren >= 2
    /\ \A b \in Boxes : b # {} /\ IsFiniteSet(b) /\ b \subseteq Int
    /\ MaxInserts \in Nat

VARIABLES
    root,
    height,
    itemCount,  \* item_count
    tried,      \* history: how many insertions were tried
    failed,     \* history: one of them failed
    present     \* history: those that succeeded, with their boxes

vars == <<root, height, itemCount, tried, failed, present>>

\* r_tree_bbox_extend: the least box with both; the empty one is the box of a new node.
Extended(a, b) ==
    IF a \cup b = {} THEN {} ELSE Min(a \cup b)..Max(a \cup b)

Area(box) == Cardinality(box) - 1

\* r_tree_bbox_intersects
Intersects(a, b) == a \cap b # {}

\* The box of a node, extended by those of its entries.
Hull(entries) == Extended({}, UNION {e.box : e \in ToSet(entries)})

Leaf(items) == [leaf |-> TRUE, box |-> Hull(items), entries |-> items]
Inner(children) == [leaf |-> FALSE, box |-> Hull(children), entries |-> children]
Child(node) == [node |-> node, box |-> node.box]

Init ==
    /\ root = Leaf(<<>>)
    /\ height = 1 /\ itemCount = 0
    /\ tried = 0 /\ failed = FALSE /\ present = {}

\* r_tree_choose_subtree: the first of the children whose boxes grow the least.
Chosen(entries, box) ==
    LET Growth(i) == Area(Extended(entries[i].box, box)) - Area(entries[i].box)
    IN  Min({i \in DOMAIN entries : \A j \in DOMAIN entries : Growth(i) <= Growth(j)})

Half == MaxChildren \div 2

\* Slip: the last entry that stays is moved, too.
MovedOneMore(entries) == SubSeq(entries, Half, Len(entries))

\* r_tree_split_node: what stays and what moves.
Kept(entries) == SubSeq(entries, 1, Half)
Moved(entries) == SubSeq(entries, Half + 1, Len(entries))

\* The outcomes of an insertion below a node: whether it succeeded, the node
\* after it, and the node split from it, if there is one.
Outcome(ok, node, split) == [ok |-> ok, node |-> node, split |-> split]

\* Into a leaf.  When the item cannot be allocated after the split, the half that
\* moved is destroyed.
InLeaf(node, item) ==
    IF Len(node.entries) < MaxChildren
      THEN {Outcome(TRUE, Leaf(Append(node.entries, item)), <<>>),
            Outcome(FALSE, node, <<>>)}
      ELSE {Outcome(TRUE, Leaf(Append(Kept(node.entries), item)),
                    <<Leaf(Moved(node.entries))>>),
            Outcome(FALSE, node, <<>>),
            Outcome(FALSE, Leaf(Kept(node.entries)), <<>>)}

\* What the inner node does with the outcome for its child i.  The box of the
\* child and its own are computed anew when the child was not split.  When it
\* was, they take in the new child only.
AfterChild(node, i, o) ==
    LET entries == [node.entries EXCEPT ![i].node = o.node]
        same == [node EXCEPT !.entries = entries]
        Added(to, more) ==
            [to EXCEPT !.entries = Append(@, Child(more)), !.box = Extended(@, more.box)]
    IN  IF ~o.ok THEN {Outcome(FALSE, same, <<>>)}
        ELSE IF o.split = <<>>
          THEN {Outcome(TRUE, Inner([entries EXCEPT ![i].box = o.node.box]), <<>>)}
        ELSE IF Len(entries) < MaxChildren
          THEN {Outcome(TRUE, Added(same, o.split[1]), <<>>)}
        ELSE {Outcome(TRUE, Added(Inner(Kept(entries)), o.split[1]), <<Inner(Moved(entries))>>),
              Outcome(FALSE, same, <<>>)}

\* The nodes from the root down to the leaf that a box comes to.
Way(box) ==
    LET w[d \in 0..(height - 1)] ==
          IF d = 0 THEN root
          ELSE LET above == w[d - 1]
               IN  IF above.leaf THEN above
                   ELSE above.entries[Chosen(above.entries, box)].node
    IN  w

\* r_tree_insert_recursive: the outcomes for the leaf, and then for each node above.
Inserted(item) ==
    LET way == Way(item.box)
        last == CHOOSE d \in DOMAIN way : way[d].leaf /\ \A e \in 0..(d - 1) : ~way[e].leaf
        back[u \in 0..last] ==
          IF u = 0 THEN InLeaf(way[last], item)
          ELSE LET node == way[last - u]
               IN  UNION {AfterChild(node, Chosen(node.entries, item.box), o) : o \in back[u - 1]}
    IN  back[last]

\* r_tree_insert.  A root that was split comes under a new one; when that cannot
\* be allocated, what was split off is destroyed.
Insert(box) ==
    /\ tried < MaxInserts
    /\ tried' = tried + 1
    /\ \E o \in Inserted([id |-> tried, box |-> box]) :
          \/ /\ o.ok
             /\ root' = IF o.split = <<>> THEN o.node
                        ELSE Inner(<<Child(o.node), Child(o.split[1])>>)
             /\ height' = height + Len(o.split)
             /\ itemCount' = itemCount + 1
             /\ present' = present \cup {[id |-> tried, box |-> box]}
             /\ UNCHANGED failed
          \/ /\ ~o.ok \/ o.split # <<>>
             /\ root' = o.node
             /\ failed' = TRUE
             /\ UNCHANGED <<height, itemCount, present>>

Next == \E box \in Boxes : Insert(box)

Spec == Init /\ [][Next]_vars

\* The nodes right below a node.
Below(node) == IF node.leaf THEN <<>> ELSE [i \in DOMAIN node.entries |-> node.entries[i].node]

\* r_tree_query_recursive: the items of the leaves that are reached through nodes
\* whose boxes meet the query's.
Query(box) ==
    LET Meets(nodes) == {n \in nodes : Intersects(n.box, box)}
        reached[d \in Nat] ==
          IF d = 0 THEN Meets({root}) ELSE Meets(UNION {ToSet(Below(n)) : n \in reached[d - 1]})
        leaves == {n \in UNION {reached[d] : d \in 0..height} : n.leaf}
    IN  {m \in UNION {ToSet(n.entries) : n \in leaves} : Intersects(m.box, box)}

-----------------------------------------------------------------------------
(* Properties.                                                              *)

\* The nodes at each depth, from left to right.
Level[d \in 0..(height - 1)] ==
    IF d = 0 THEN <<root>>
    ELSE LET above == Level[d - 1] IN FlattenSeq([i \in DOMAIN above |-> Below(above[i])])

\* The items of the lowest nodes.
Items ==
    LET lowest == Level[height - 1]
    IN  FlattenSeq([i \in DOMAIN lowest |-> lowest[i].entries])

\* No node is too full, every leaf is as deep as the tree is high, and no item is
\* there twice; if no allocation fails, exactly what was inserted is there and
\* counted, through all splits (r_tree.c:102-274, 362-396).
TreeSound ==
    /\ \A d \in 0..(height - 1) : \A node \in ToSet(Level[d]) :
          /\ node.leaf <=> d = height - 1
          /\ Len(node.entries) <= MaxChildren
          /\ ~node.leaf => Len(node.entries) > 0
    /\ LET items == Items
       IN  /\ \A i, j \in DOMAIN items : items[i].id = items[j].id => i = j
           /\ ~failed => ToSet(items) = present /\ itemCount = Len(items)

\* "查询点是否在空间范围内" (r_tree.c:398): a query has every item in its range.
\* Without failed allocations.
QueryComplete == ~failed => \A m \in present : m \in Query(m.box)
=============================================================================
