----------------------------- MODULE LinkedList -----------------------------
(***************************************************************************)
(* The list of shared/linkedlist.c: doubly linked nodes, a cursor that     *)
(* belongs to the list, and a count.  listRemoveEntry does not mend the    *)
(* previous of the node after the one it removes.                          *)
(***************************************************************************)
EXTENDS Integers, Sequences, SequencesExt, FiniteSets

CONSTANTS
  Entries,  (* what is kept in the list                                    *)
  Nodes,    (* the addresses malloc can return                             *)
  Client    (* which entries the user of the list removes, see MayRemove   *)

NULL == 0

ASSUME NodesAssumption == Nodes \subseteq Nat \ {NULL} /\ IsFiniteSet(Nodes)
ASSUME ClientAssumption == Client \in {"fresh", "any"}

VARIABLES
  first, last, current, entries,  (* the list_s                            *)
  previous, next, entry,          (* the fields of the nodes               *)
  allocated,                      (* the nodes that are not free           *)
  order,    (* history: the nodes of the list, as its user thinks of them  *)
  stale,    (* history: the nodes whose predecessor has been removed       *)
  visited   (* history: how many entries the iteration under way has       *)
            (* returned; 0 when there is none                              *)

listVars == <<first, last, current, entries>>
nodeVars == <<previous, next, entry, allocated>>
vars == <<listVars, nodeVars, order, stale, visited>>

Pointers == Nodes \cup {NULL}

TypeOK ==
  /\ first \in Pointers /\ last \in Pointers /\ current \in Pointers
  /\ entries \in 0 .. Cardinality(Nodes)
  /\ previous \in [Nodes -> Pointers] /\ next \in [Nodes -> Pointers]
  /\ entry \in [Nodes -> Entries]
  /\ allocated \subseteq Nodes /\ stale \subseteq allocated
  /\ order \in Seq(Nodes)
  /\ visited \in 0 .. Cardinality(Nodes)

(* listInit; the memory that malloc returns holds anything.                *)
listInit ==
  /\ first = NULL /\ last = NULL /\ current = NULL /\ entries = 0
  /\ allocated = {} /\ order = << >> /\ stale = {} /\ visited = 0
  /\ previous = [n \in Nodes |-> NULL] /\ next = [n \in Nodes |-> NULL]
  /\ entry \in {[n \in Nodes |-> e] : e \in Entries}

-----------------------------------------------------------------------------
(* list->last after an addition, when only the first one moves it and as   *)
(* it is.                                                                  *)
LastAfterAddForgets(n) == IF first = NULL THEN n ELSE last

LastAfterAdd(n) == n

(* The previous of a new node, wrongly the first node and as it is.        *)
PreviousAfterAddFirst == first

PreviousAfterAdd == last

(* malloc may return a node that was freed.                                *)
listAddEntry(e) ==
  \E n \in Nodes \ allocated :
    /\ allocated' = allocated \cup {n}
    /\ entry' = [entry EXCEPT ![n] = e]
    /\ \/ /\ first = NULL
          /\ first' = n
          /\ previous' = [previous EXCEPT ![n] = NULL]
          /\ next' = [next EXCEPT ![n] = NULL]
       \/ /\ first # NULL
          /\ UNCHANGED first
          /\ previous' = [previous EXCEPT ![n] = PreviousAfterAdd]
          /\ next' = [next EXCEPT ![n] = NULL, ![last] = n]
    /\ last' = LastAfterAdd(n)
    /\ entries' = entries + 1
    /\ order' = Append(order, n)
    /\ UNCHANGED <<current, stale, visited>>

-----------------------------------------------------------------------------
(* Where the nodes lead to from the first one on.                          *)
chain[i \in 0 .. Cardinality(Nodes)] ==
  IF i = 0 THEN first
  ELSE IF chain[i - 1] = NULL THEN NULL ELSE next[chain[i - 1]]

(* The node where the loop of listRemoveEntry stops: the first one with    *)
(* the entry, or the last one.                                             *)
StopsAt(e, n) == n # NULL /\ (entry[n] = e \/ n = last)

Find(e) ==
  chain[CHOOSE i \in DOMAIN chain :
          StopsAt(e, chain[i]) /\ \A j \in 0 .. (i - 1) : ~StopsAt(e, chain[j])]

(***************************************************************************)
(* The previous of a node whose predecessor was removed is a dangling      *)
(* pointer, and removing that node follows it.  A fresh user never does.   *)
(***************************************************************************)
MayRemove(e) ==
  /\ first # NULL
  /\ Client = "fresh" => Find(e) \notin stale

Successors(n) ==
  {order[i + 1] : i \in {j \in 1 .. (Len(order) - 1) : order[j] = n}}

(* The cursor after node n was removed, left there and as it is.           *)
CursorStays(n, newFirst) == n

CursorAfterRemove(n, newFirst) == newFirst

(* When the entry is not there the cursor is left on the last node.        *)
listRemoveEntry(e) ==
  LET n == Find(e)
      p == previous[n]
  IN
  /\ MayRemove(e)
  /\ visited' = 0
  /\ \/ /\ entry[n] # e
        /\ current' = n
        /\ UNCHANGED <<first, last, entries, nodeVars, order, stale>>
     \/ /\ entry[n] = e
        /\ next' = IF p = NULL THEN next ELSE [next EXCEPT ![p] = next[n]]
        /\ last' = IF n = last THEN p ELSE last
        /\ first' = IF n = first THEN next'[n] ELSE first
        /\ current' = CursorAfterRemove(n, first')
        /\ entries' = entries - 1
        /\ allocated' = allocated \ {n}
        /\ order' = RemoveFirst(order, n)
        /\ stale' = (stale \cup Successors(n)) \ {n}
        /\ UNCHANGED <<previous, entry>>

-----------------------------------------------------------------------------
(* Both read through a pointer that must not be NULL.                      *)
listFirstEntry ==
  /\ first # NULL
  /\ current' = first
  /\ visited' = 1
  /\ UNCHANGED <<first, last, entries, nodeVars, order, stale>>

listNextEntry ==
  /\ current # NULL
  /\ current' = next[current]
  /\ visited' = IF visited = 0 \/ current' = NULL THEN 0 ELSE visited + 1
  /\ UNCHANGED <<first, last, entries, nodeVars, order, stale>>

listEntries == entries

Next ==
  \/ \E e \in Entries : listAddEntry(e) \/ listRemoveEntry(e)
  \/ listFirstEntry
  \/ listNextEntry

Spec == listInit /\ [][Next]_vars

-----------------------------------------------------------------------------
(***************************************************************************)
(* The pointers make up the list that its user thinks of: from first on,   *)
(* next leads through the entries in the order in which they were added to *)
(* last and then to NULL, listEntries counts them and none of them is      *)
(* freed, as long as nobody removes an entry whose predecessor was         *)
(* removed.                                                                *)
(***************************************************************************)
ListIsOrder ==
  /\ listEntries = Len(order)
  /\ allocated = {order[i] : i \in 1 .. Len(order)}
  /\ \A i \in DOMAIN chain : chain[i] = IF i < Len(order) THEN order[i + 1] ELSE NULL
  /\ last = IF order = << >> THEN NULL ELSE order[Len(order)]

(***************************************************************************)
(* The cursor never points to freed memory, and an iteration started with  *)
(* listFirstEntry returns every entry once and in order, entries added     *)
(* meanwhile included, unless listRemoveEntry, which moves the cursor even *)
(* when it removes nothing, comes in between.                              *)
(***************************************************************************)
CursorInOrder ==
  /\ current # NULL => current \in allocated
  /\ visited # 0 => current = order[visited]

(***************************************************************************)
(* What makes them inductive: the nodes of the list are different ones,    *)
(* next is right for all of them, and previous is right wherever no        *)
(* predecessor was removed.                                                *)
(***************************************************************************)
LinksInv ==
  /\ first = IF order = << >> THEN NULL ELSE order[1]
  /\ Cardinality(allocated) = entries /\ visited <= entries
  /\ \A i, j \in 1 .. Len(order) : order[i] = order[j] => i = j
  /\ \A i \in 1 .. Len(order) :
       /\ next[order[i]] = IF i < Len(order) THEN order[i + 1] ELSE NULL
       /\ order[i] \notin stale =>
            previous[order[i]] = IF i = 1 THEN NULL ELSE order[i - 1]

(* The state of the list is consistent, pointers, cursor and counts; this  *)
(* is the invariant that every operation of linkedlist.c keeps.            *)
ListInv == TypeOK /\ ListIsOrder /\ CursorInOrder /\ LinksInv
=============================================================================
