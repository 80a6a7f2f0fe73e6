----------------------------- MODULE Similarity -----------------------------
(***************************************************************************)
(* agfast similarity: two nodes of the graph, found by process name, are   *)
(* compared by the exact Jaccard quotient of their files and destinations  *)
(* and by the distance of two Odd Sketches, one bit toggled per item.      *)
(***************************************************************************)
EXTENDS EventLists

CONSTANTS
    Bits,    \* AGF_ODD_BITS
    Bit      \* value -> its bit

ASSUME BitAssumption == IsFiniteSet(Bits) /\ Bit \in [Text -> Bits]

-----------------------------------------------------------------------------
\* The node of that name that was added first, if there is one.
Found(name) ==
    { i \in DOMAIN order :
        /\ name # "" /\ node[order[i]].process = name
        /\ \A j \in DOMAIN order : node[order[j]].process = name => i <= j }

find_first_process_node(name) == order[CHOOSE i \in Found(name) : TRUE]

\* Mutant of odd_sketch_add: the bit is set and not toggled.
SetBit(sketch, value) == sketch \cup {Bit[value]}
odd_sketch_add(sketch, value) ==
    IF Bit[value] \in sketch THEN sketch \ {Bit[value]} ELSE sketch \cup {Bit[value]}

\* The files, then the destinations.
odd_sketch_from_node(p) ==
    FoldLeft(odd_sketch_add, {}, lists[p].files \o lists[p].destinations)

odd_sketch_hamming(s, t) == Cardinality((s \ t) \cup (t \ s))

\* The two counts of exact_jaccard_node_relations: a file is compared with
\* files only, and a destination with destinations.
inter(p, q) == Cardinality(ToSet(lists[p].files) \cap ToSet(lists[q].files))
             + Cardinality(ToSet(lists[p].destinations) \cap ToSet(lists[q].destinations))

uni(p, q) == Len(lists[p].files) + Len(lists[p].destinations)
           + Cardinality(ToSet(lists[q].files) \ ToSet(lists[p].files))
           + Cardinality(ToSet(lists[q].destinations) \ ToSet(lists[p].destinations))

\* What is printed of the nodes found.
Comparison(p, q) ==
    [ a |-> p, b |-> q, inter |-> inter(p, q), uni |-> uni(p, q),
      hamming |-> odd_sketch_hamming(odd_sketch_from_node(p), odd_sketch_from_node(q)) ]
=============================================================================
