-------------------------------- MODULE List --------------------------------
(***************************************************************************)
(* threads/list.cc: singly linked lists with a pointer to the first and to *)
(* the last element.  A list is a record [first, last, elem]; elem gives   *)
(* the element allocated at each node of a small heap, or NULL.            *)
(***************************************************************************)
EXTENDS Integers, Sequences, FiniteSets

CONSTANTS Nodes,   \* 1..n: where an element can be allocated
          NULL     \* no node, no element

EmptyList == [first |-> NULL, last |-> NULL, elem |-> [n \in Nodes |-> NULL]]

IsEmpty(l) == l.first = NULL

\* new ListElement(item, key): the node it gets, and the list with it allocated.
NewNode(l) == CHOOSE n \in Nodes : l.elem[n] = NULL /\ \A m \in 1..(n - 1) : l.elem[m] # NULL
ListElement(l, item, key) ==
  [l EXCEPT !.elem[NewNode(l)] = [item |-> item, key |-> key, next |-> NULL]]

\* The nodes from first along next, at most as many as there are.
Walk(l) ==
  LET nodes[k \in 0..Cardinality(Nodes)] ==
        IF k = 0 THEN <<>>
        ELSE LET seen == nodes[k - 1]
                 node == IF seen = <<>> THEN l.first ELSE l.elem[seen[Len(seen)]].next
             IN  IF node = NULL \/ Len(seen) < k - 1 THEN seen ELSE Append(seen, node)
  IN  nodes[Cardinality(Nodes)]

Items(l) == LET w == Walk(l) IN [i \in DOMAIN w |-> l.elem[w[i]].item]
Keys(l) == LET w == Walk(l) IN [i \in DOMAIN w |-> l.elem[w[i]].key]

AtEnd(l, e) ==
  IF IsEmpty(l) THEN [l EXCEPT !.first = e, !.last = e]
  ELSE [l EXCEPT !.elem[l.last].next = e, !.last = e]

AtFront(l, e) ==
  IF IsEmpty(l) THEN [l EXCEPT !.first = e, !.last = e]
  ELSE [l EXCEPT !.elem[e].next = l.first, !.first = e]

ListAppend(l, item) == AtEnd(ListElement(l, item, 0), NewNode(l))

\* The element of the list that a key goes behind: `for (ptr = first; ...)`.
Stops(l, key) == {i \in 1..(Len(Walk(l)) - 1) : key < l.elem[Walk(l)[i + 1]].key}
StopAt(l, key) == Walk(l)[CHOOSE i \in Stops(l, key) : \A j \in Stops(l, key) : i <= j]

SortedInsertMutLast(l, item, key) ==
  LET e == NewNode(l)
      new == ListElement(l, item, key)
  IN  IF IsEmpty(l) \/ key < l.elem[l.first].key THEN AtFront(new, e)
      ELSE IF Stops(l, key) # {}
      THEN [new EXCEPT !.elem[e].next = l.elem[StopAt(l, key)].next,
                       !.elem[StopAt(l, key)].next = e]
      ELSE [new EXCEPT !.elem[l.last].next = e]

\* In front of the first element with a larger key, else behind the last.
SortedInsert(l, item, key) ==
  LET e == NewNode(l)
      new == ListElement(l, item, key)
  IN  IF IsEmpty(l) \/ key < l.elem[l.first].key THEN AtFront(new, e)
      ELSE IF Stops(l, key) # {}
      THEN [new EXCEPT !.elem[e].next = l.elem[StopAt(l, key)].next,
                       !.elem[StopAt(l, key)].next = e]
      ELSE AtEnd(new, e)

\* SortedRemove of a list that is not empty: the item, its key and the rest.
SortedRemove(l) ==
  [item |-> l.elem[l.first].item,
   key |-> l.elem[l.first].key,
   list |-> IF l.first = l.last
            THEN [l EXCEPT !.first = NULL, !.last = NULL, !.elem[l.first] = NULL]
            ELSE [l EXCEPT !.first = l.elem[l.first].next, !.elem[l.first] = NULL]]

(***************************************************************************)
(* The pointers of a list agree: from first one reaches every allocated    *)
(* element, once, and last is where one ends.                              *)
(***************************************************************************)
WellFormed(l) ==
  LET w == Walk(l)
  IN  /\ (l.first = NULL) = (l.last = NULL)
      /\ l.first # NULL => l.last = w[Len(w)]
      /\ {w[i] : i \in DOMAIN w} = {n \in Nodes : l.elem[n] # NULL}
      /\ l.last # NULL => l.elem[l.last].next = NULL

Sorted(l) == LET k == Keys(l) IN \A i \in 2..Len(k) : k[i - 1] <= k[i]
=============================================================================
