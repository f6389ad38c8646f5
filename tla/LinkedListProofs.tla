-------------------------- MODULE LinkedListProofs --------------------------
(***************************************************************************)
(* Proofs about LinkedList, for every set of entries and every finite set  *)
(* of nodes: as long as nobody removes an entry whose predecessor was      *)
(* removed, the pointers make up the list that its user thinks of, and the *)
(* cursor goes through it in order.                                        *)
(***************************************************************************)
EXTENDS LinkedList, SequenceLemmas, FiniteSetTheorems

(* The invariant without the chain, which follows from it.                 *)
Links ==
  /\ TypeOK /\ CursorInOrder /\ LinksInv
  /\ entries = Len(order)
  /\ allocated = {order[i] : i \in 1 .. Len(order)}
  /\ last = IF order = << >> THEN NULL ELSE order[Len(order)]

(* Nodes and their number; no node is NULL.                                *)
LEMMA NodeFacts ==
  /\ NULL \notin Nodes
  /\ IsFiniteSet(Nodes) /\ Cardinality(Nodes) \in Nat
  /\ Nodes \subseteq Nat
BY NodesAssumption, FS_CardinalityType DEF NULL

(* What the invariant says, piece by piece.                                *)
LEMMA LinksFacts ==
  ASSUME Links
  PROVE  /\ order \in Seq(Nodes) /\ Len(order) \in Nat
         /\ \A i \in 1 .. Len(order) : order[i] \in Nodes
         /\ order = << >> <=> Len(order) = 0
         /\ Len(order) <= Cardinality(Nodes)
         /\ first = IF Len(order) = 0 THEN NULL ELSE order[1]
         /\ last = IF Len(order) = 0 THEN NULL ELSE order[Len(order)]
         /\ \A i, j \in 1 .. Len(order) : order[i] = order[j] => i = j
         /\ \A i \in 1 .. Len(order) :
              next[order[i]] = IF i < Len(order) THEN order[i + 1] ELSE NULL
<1>1. order \in Seq(Nodes)
  BY DEF Links, TypeOK
<1>2. Len(order) \in Nat /\ (order = << >> <=> Len(order) = 0)
      /\ \A i \in 1 .. Len(order) : order[i] \in Nodes
  BY <1>1, EmptySeq
<1>3. Len(order) <= Cardinality(Nodes)
  BY NodeFacts DEF Links, TypeOK
<1> QED BY <1>1, <1>2, <1>3 DEF Links, LinksInv

-----------------------------------------------------------------------------
(* The chain.                                                              *)

(* What chain is for a first node f and pointers nx.                       *)
IsChain(c, f, nx) ==
  c = [i \in 0 .. Cardinality(Nodes) |->
         IF i = 0 THEN f ELSE IF c[i - 1] = NULL THEN NULL ELSE nx[c[i - 1]]]

(* The chain goes through the nodes of the list in order: such a function  *)
(* exists, and there is only one, since the first number at which two of   *)
(* them differed would follow one at which they agree.                     *)
LEMMA ChainIsOrder ==
  ASSUME Links
  PROVE  /\ DOMAIN chain = 0 .. Cardinality(Nodes)
         /\ \A i \in 0 .. Cardinality(Nodes) :
              chain[i] = IF i < Len(order) THEN order[i + 1] ELSE NULL
<1>1. PICK N \in Nat : N = Cardinality(Nodes)
  BY NodeFacts
<1>2. PICK L \in Nat : L = Len(order)
  BY LinksFacts
<1>3. L <= N
  BY <1>1, <1>2, LinksFacts
<1> DEFINE w == [i \in 0 .. N |-> IF i < L THEN order[i + 1] ELSE NULL]
<1>4. \A i \in 0 .. N : w[i] = IF i < L THEN order[i + 1] ELSE NULL
  OBVIOUS
<1>5. ASSUME NEW i \in 0 .. N
      PROVE  w[i] = IF i = 0 THEN first
                    ELSE IF w[i - 1] = NULL THEN NULL ELSE next[w[i - 1]]
  <2>1. CASE i = 0
    BY <2>1, <1>2, <1>4, LinksFacts
  <2>2. CASE i # 0 /\ i - 1 < L
    <3>1. i \in 1 .. Len(order) /\ i - 1 \in 0 .. N /\ (i - 1) + 1 = i
      BY <2>2, <1>2, <1>3
    <3>2. w[i - 1] = order[i]
      BY <2>2, <3>1, <1>4
    <3>3. order[i] # NULL /\ next[order[i]] = IF i < L THEN order[i + 1] ELSE NULL
      BY <3>1, <1>2, LinksFacts, NodeFacts
    <3>4. w[i] = IF i < L THEN order[i + 1] ELSE NULL
      BY <1>4
    <3> HIDE DEF w
    <3> QED BY <2>2, <3>2, <3>3, <3>4
  <2>3. CASE i # 0 /\ ~(i - 1 < L)
    <3>1. i - 1 \in 0 .. N /\ ~(i < L)
      BY <2>3, <1>2, <1>3
    <3>2. w[i - 1] = NULL /\ w[i] = NULL
      BY <2>3, <3>1, <1>4
    <3> HIDE DEF w
    <3> QED BY <2>3, <3>2
  <2> QED BY <2>1, <2>2, <2>3
<1>6. IsChain(w, first, next)
  <2> DEFINE v == [i \in 0 .. N |-> IF i = 0 THEN first
                     ELSE IF w[i - 1] = NULL THEN NULL ELSE next[w[i - 1]]]
  <2>1. \A i \in 0 .. N : w[i] = v[i]
    <3> HIDE DEF w
    <3> QED BY <1>5
  <2>2. w = v
    BY <2>1
  <2> HIDE DEF w
  <2> QED BY <2>2, <1>1 DEF IsChain
<1> HIDE DEF w
<1>7. IsChain(chain, first, next)
  <2>1. chain = CHOOSE c : IsChain(c, first, next)
    BY DEF chain, IsChain
  <2> QED BY <2>1, <1>6
<1>8. DOMAIN chain = 0 .. N
  BY <1>1, <1>7 DEF IsChain
<1>9. \A i \in 0 .. N : chain[i] =
        IF i = 0 THEN first ELSE IF chain[i - 1] = NULL THEN NULL ELSE next[chain[i - 1]]
  BY <1>1, <1>7 DEF IsChain
<1>10. \A i \in 0 .. N : chain[i] = w[i]
  <2> DEFINE T == {i \in 0 .. N : chain[i] # w[i]}
  <2>1. SUFFICES ASSUME T # {} PROVE FALSE
    OBVIOUS
  <2>2. T \subseteq Nat
    OBVIOUS
  <2>3. PICK i \in T : \A k \in T : i <= k
    <3> HIDE DEF T
    <3> QED BY <2>1, <2>2, LeastNumber
  <2>4. i \in 0 .. N /\ chain[i] # w[i]
    OBVIOUS
  <2>5. i # 0
    BY <2>4, <1>5, <1>9
  <2>6. i - 1 \in 0 .. N /\ i - 1 \notin T
    BY <2>3, <2>4, <2>5
  <2>7. chain[i - 1] = w[i - 1]
    BY <2>6
  <2> HIDE DEF T
  <2> QED BY <2>4, <2>5, <2>7, <1>5, <1>9
<1> QED BY <1>1, <1>2, <1>4, <1>8, <1>10

(* So the invariant gives what the user of the list relies on.             *)
LEMMA LinksGiveListInv == Links => ListInv
<1> SUFFICES ASSUME Links PROVE ListInv
  OBVIOUS
<1>1. ListIsOrder
  BY ChainIsOrder DEF Links, ListIsOrder, listEntries
<1> QED BY <1>1 DEF Links, ListInv

(* The loop of listRemoveEntry stops at a node of the list.                *)
LEMMA FindsNode ==
  ASSUME Links, first # NULL, NEW e
  PROVE  \E k \in 1 .. Len(order) : Find(e) = order[k]
<1>1. PICK N \in Nat : N = Cardinality(Nodes)
  BY NodeFacts
<1>2. PICK L \in Nat : L = Len(order)
  BY LinksFacts
<1>3. L <= N /\ L # 0
  BY <1>1, <1>2, LinksFacts
<1>4. /\ DOMAIN chain = 0 .. N
      /\ \A i \in 0 .. N : chain[i] = IF i < L THEN order[i + 1] ELSE NULL
  BY <1>1, <1>2, ChainIsOrder
<1> DEFINE T == {i \in 0 .. N : StopsAt(e, chain[i])}
           P(i) == StopsAt(e, chain[i]) /\ \A j \in 0 .. (i - 1) : ~StopsAt(e, chain[j])
<1>5. L - 1 \in T
  <2>1. L - 1 \in 0 .. N /\ L \in 1 .. L /\ (L - 1) + 1 = L
    BY <1>3
  <2>2. chain[L - 1] = order[L] /\ order[L] \in Nodes /\ last = order[L]
    BY <1>2, <1>3, <1>4, <2>1, LinksFacts
  <2> QED BY <2>1, <2>2, NodeFacts DEF StopsAt
<1>6. \E i \in DOMAIN chain : P(i)
  <2>1. T \subseteq Nat
    OBVIOUS
  <2>2. PICK i \in T : \A k \in T : i <= k
    <3> HIDE DEF T
    <3> QED BY <1>5, <2>1, LeastNumber
  <2>3. i \in 0 .. N /\ StopsAt(e, chain[i])
    OBVIOUS
  <2>4. ASSUME NEW j \in 0 .. (i - 1) PROVE ~StopsAt(e, chain[j])
    <3>1. j \in 0 .. N /\ j \notin T
      BY <2>2, <2>3
    <3> QED BY <3>1
  <2> QED BY <2>3, <2>4, <1>4
<1>7. PICK i \in 0 .. N : Find(e) = chain[i] /\ StopsAt(e, chain[i])
  <2> DEFINE c == CHOOSE i \in DOMAIN chain : P(i)
  <2>1. c \in DOMAIN chain /\ P(c)
    <3> HIDE DEF P
    <3> QED BY <1>6
  <2>2. Find(e) = chain[c]
    BY DEF Find
  <2> HIDE DEF c
  <2> QED BY <2>1, <2>2, <1>4
<1>8. i < L
  BY <1>4, <1>7 DEF StopsAt
<1>9. i + 1 \in 1 .. Len(order) /\ Find(e) = order[i + 1]
  BY <1>2, <1>4, <1>7, <1>8
<1> QED BY <1>9

-----------------------------------------------------------------------------
(* The operations.                                                         *)

(* RemoveFirst takes out the one position of an element that is there      *)
(* once.                                                                   *)
LEMMA RemoveFirstIsRemoveAt ==
  ASSUME NEW S, NEW s \in Seq(S), NEW k \in 1 .. Len(s),
         \A i \in 1 .. Len(s) : s[i] = s[k] => i = k
  PROVE  RemoveFirst(s, s[k]) = RemoveAt(s, k)
<1> DEFINE T == {i \in 1 .. Len(s) : s[i] = s[k]}
<1>1. RemoveFirst(s, s[k]) = RemoveAt(s, CHOOSE i \in T : \A j \in T : i <= j)
  BY DEF RemoveFirst, SelectInSeq, Min
<1>2. T = {k}
  OBVIOUS
<1>3. (CHOOSE i \in T : \A j \in T : i <= j) = k
  <2> HIDE DEF T
  <2>1. \E i \in T : \A j \in T : i <= j
    BY <1>2
  <2> QED BY <1>2, <2>1
<1> QED BY <1>1, <1>3

(* Pointers as listInit leaves them: there is no node.                     *)
LEMMA InitLinks == listInit => Links
<1> SUFFICES ASSUME listInit PROVE Links
  OBVIOUS
<1>1. order = << >> /\ Len(order) = 0 /\ order \in Seq(Nodes)
  BY DEF listInit
<1>2. first = NULL /\ last = NULL /\ current = NULL /\ entries = 0
      /\ allocated = {} /\ stale = {} /\ visited = 0
  BY DEF listInit
<1>3. TypeOK
  <2>1. previous \in [Nodes -> Pointers] /\ next \in [Nodes -> Pointers]
    BY DEF listInit, Pointers
  <2>2. entry \in [Nodes -> Entries]
    BY DEF listInit
  <2>3. 0 \in 0 .. Cardinality(Nodes)
    BY NodeFacts
  <2> QED BY <1>1, <1>2, <2>1, <2>2, <2>3 DEF TypeOK, Pointers
<1>4. CursorInOrder /\ LinksInv
  BY <1>1, <1>2, FS_EmptySet DEF CursorInOrder, LinksInv
<1> QED BY <1>1, <1>2, <1>3, <1>4 DEF Links

(* A new node comes behind the last one.                                   *)
LEMMA AddKeepsLinks ==
  ASSUME Links, NEW e \in Entries, listAddEntry(e)
  PROVE  Links'
<1>1. TypeOK /\ CursorInOrder /\ LinksInv
  BY DEF Links
<1>2. PICK L \in Nat : L = Len(order)
  BY LinksFacts
<1>3. PICK n \in Nodes \ allocated :
        /\ allocated' = allocated \cup {n}
        /\ entry' = [entry EXCEPT ![n] = e]
        /\ \/ /\ first = NULL /\ first' = n
              /\ previous' = [previous EXCEPT ![n] = NULL]
              /\ next' = [next EXCEPT ![n] = NULL]
           \/ /\ first # NULL /\ first' = first
              /\ previous' = [previous EXCEPT ![n] = last]
              /\ next' = [next EXCEPT ![n] = NULL, ![last] = n]
        /\ last' = n /\ entries' = entries + 1
        /\ order' = Append(order, n)
        /\ current' = current /\ stale' = stale /\ visited' = visited
  BY DEF listAddEntry, PreviousAfterAdd, LastAfterAdd
<1>4. /\ order' \in Seq(Nodes) /\ Len(order') = L + 1 /\ order'[L + 1] = n
      /\ \A i \in 1 .. L : order'[i] = order[i]
  <2>1. order \in Seq(Nodes) /\ n \in Nodes
    BY LinksFacts
  <2> QED BY <1>2, <1>3, <2>1, AppendProperties
<1>5. /\ entries = L /\ allocated = {order[i] : i \in 1 .. L}
      /\ first = IF L = 0 THEN NULL ELSE order[1]
      /\ last = IF L = 0 THEN NULL ELSE order[L]
      /\ \A i \in 1 .. L : order[i] \in Nodes /\ order[i] # n /\ order[i] # NULL
      /\ \A i, j \in 1 .. L : order[i] = order[j] => i = j
      /\ \A i \in 1 .. L : next[order[i]] = IF i < L THEN order[i + 1] ELSE NULL
      /\ \A i \in 1 .. L : order[i] \notin stale =>
           previous[order[i]] = IF i = 1 THEN NULL ELSE order[i - 1]
  BY <1>1, <1>2, LinksFacts, NodeFacts DEF Links, LinksInv
<1>6. previous \in [Nodes -> Pointers] /\ next \in [Nodes -> Pointers]
      /\ entry \in [Nodes -> Entries]
      /\ first \in Pointers /\ last \in Pointers /\ current \in Pointers
      /\ allocated \subseteq Nodes /\ stale \subseteq allocated
      /\ visited \in Nat /\ visited <= L
  BY <1>1, <1>5 DEF TypeOK, LinksInv
<1>7. n \in Nodes /\ n \in Pointers /\ NULL \in Pointers /\ n \notin stale
  BY <1>6 DEF Pointers
<1>8. /\ first' = IF L = 0 THEN n ELSE order[1]
      /\ previous' \in [Nodes -> Pointers] /\ next' \in [Nodes -> Pointers]
      /\ previous'[n] = IF L = 0 THEN NULL ELSE order[L]
      /\ \A i \in 1 .. L : previous'[order[i]] = previous[order[i]]
      /\ next'[n] = NULL
      /\ \A i \in 1 .. L : next'[order[i]] = IF i = L THEN n ELSE next[order[i]]
  <2>1. CASE L = 0
    <3>1. first = NULL
      BY <2>1, <1>5
    <3>2. first' = n /\ previous' = [previous EXCEPT ![n] = NULL]
          /\ next' = [next EXCEPT ![n] = NULL]
      BY <3>1, <1>3
    <3> QED BY <2>1, <3>2, <1>6, <1>7
  <2>2. CASE L # 0
    <3>1. first # NULL /\ first = order[1] /\ last = order[L] /\ last \in Nodes /\ last # n
      BY <2>2, <1>5
    <3>2. first' = first /\ previous' = [previous EXCEPT ![n] = last]
          /\ next' = [next EXCEPT ![n] = NULL, ![last] = n]
      BY <3>1, <1>3
    <3>3. /\ \A x \in Nodes : next'[x] = IF x = last THEN n ELSE IF x = n THEN NULL ELSE next[x]
          /\ next' \in [Nodes -> Pointers]
      BY <3>1, <3>2, <1>6, <1>7
    <3>4. /\ \A x \in Nodes : previous'[x] = IF x = n THEN last ELSE previous[x]
          /\ previous' \in [Nodes -> Pointers]
      BY <3>1, <3>2, <1>6, <1>7
    <3>5. \A i \in 1 .. L : next'[order[i]] = IF i = L THEN n ELSE next[order[i]]
      BY <2>2, <3>1, <3>3, <1>5
    <3>6. \A i \in 1 .. L : previous'[order[i]] = previous[order[i]]
      BY <3>4, <1>5
    <3>7. previous'[n] = order[L] /\ next'[n] = NULL
      BY <3>1, <3>3, <3>4, <1>7
    <3> QED BY <2>2, <3>1, <3>2, <3>3, <3>4, <3>5, <3>6, <3>7
  <2> QED BY <2>1, <2>2
<1>9. /\ IsFiniteSet(allocated') /\ Cardinality(allocated') = L + 1
      /\ allocated' \subseteq Nodes /\ L + 1 <= Cardinality(Nodes)
  <2>1. IsFiniteSet(allocated) /\ Cardinality(allocated) = L
    BY <1>1, <1>5, <1>6, NodeFacts, FS_Subset DEF LinksInv
  <2>2. IsFiniteSet(allocated') /\ Cardinality(allocated') = L + 1
    BY <1>3, <2>1, FS_AddElement
  <2>3. allocated' \in SUBSET Nodes
    BY <1>3, <1>6
  <2> QED BY <2>2, <2>3, NodeFacts, FS_Subset
<1>10. allocated' = {order'[i] : i \in 1 .. (L + 1)}
  BY <1>3, <1>4, <1>5
<1>11. TypeOK'
  <2>1. entry' \in [Nodes -> Entries]
    BY <1>3, <1>6
  <2>2. first' \in Pointers /\ last' \in Pointers /\ current' \in Pointers
    BY <1>3, <1>5, <1>6, <1>7, <1>8 DEF Pointers
  <2>3. entries' \in 0 .. Cardinality(Nodes) /\ visited' \in 0 .. Cardinality(Nodes)
    BY <1>3, <1>5, <1>6, <1>9, NodeFacts
  <2>4. stale' \subseteq allocated'
    BY <1>3, <1>6
  <2> QED BY <1>4, <1>8, <1>9, <2>1, <2>2, <2>3, <2>4 DEF TypeOK
<1>12. CursorInOrder'
  <2>1. current' # NULL => current' \in allocated'
    BY <1>1, <1>3 DEF CursorInOrder
  <2>2. visited' # 0 => current' = order'[visited']
    BY <1>1, <1>3, <1>4, <1>6 DEF CursorInOrder
  <2> QED BY <2>1, <2>2 DEF CursorInOrder
<1>13. LinksInv'
  <2>1. order' # << >> /\ first' = order'[1]
    BY <1>4, <1>8, EmptySeq
  <2>2. Cardinality(allocated') = entries' /\ visited' <= entries'
    BY <1>3, <1>5, <1>6, <1>9
  <2>3. \A i, j \in 1 .. (L + 1) : order'[i] = order'[j] => i = j
    BY <1>4, <1>5
  <2>4. ASSUME NEW i \in 1 .. (L + 1)
        PROVE  /\ next'[order'[i]] = IF i < L + 1 THEN order'[i + 1] ELSE NULL
               /\ order'[i] \notin stale' =>
                    previous'[order'[i]] = IF i = 1 THEN NULL ELSE order'[i - 1]
    <3>1. CASE i = L + 1
      <4>1. order'[i] = n /\ i - 1 = L
        BY <3>1, <1>4
      <4>2. L # 0 => order'[L] = order[L]
        BY <1>4
      <4> QED BY <3>1, <4>1, <4>2, <1>8
    <3>2. CASE i # L + 1
      <4>1. i \in 1 .. L /\ order'[i] = order[i] /\ i < L + 1
        BY <3>2, <1>4
      <4>2. order'[i + 1] = IF i = L THEN n ELSE order[i + 1]
        BY <4>1, <1>4
      <4>3. i # 1 => order'[i - 1] = order[i - 1]
        BY <4>1, <1>4
      <4>4. next'[order[i]] = IF i = L THEN n ELSE order[i + 1]
        BY <4>1, <1>5, <1>8
      <4>5. order[i] \notin stale =>
              previous'[order[i]] = IF i = 1 THEN NULL ELSE order[i - 1]
        BY <4>1, <1>5, <1>8
      <4> QED BY <4>1, <4>2, <4>3, <4>4, <4>5, <1>3
    <3> QED BY <3>1, <3>2
  <2> QED BY <1>4, <2>1, <2>2, <2>3, <2>4 DEF LinksInv
<1>14. last' = order'[Len(order')] /\ order' # << >> /\ entries' = Len(order')
  BY <1>3, <1>4, <1>5, EmptySeq
<1> QED BY <1>4, <1>10, <1>11, <1>12, <1>13, <1>14 DEF Links

(* Removing an entry takes its node out of the list, when the previous of  *)
(* the node is right: that is where the proof needs the fresh client.      *)
LEMMA RemoveKeepsLinks ==
  ASSUME Client = "fresh", Links, NEW e \in Entries, listRemoveEntry(e)
  PROVE  Links'
<1>1. TypeOK /\ CursorInOrder /\ LinksInv
  BY DEF Links
<1>2. PICK L \in Nat : L = Len(order)
  BY LinksFacts
<1>3. first # NULL /\ Find(e) \notin stale
  BY DEF listRemoveEntry, MayRemove
<1>4. PICK k \in 1 .. L : Find(e) = order[k]
  BY <1>2, <1>3, FindsNode
<1> DEFINE n == order[k]
           p == previous[n]
<1>5. /\ entries = L /\ allocated = {order[i] : i \in 1 .. L}
      /\ first = IF L = 0 THEN NULL ELSE order[1]
      /\ last = IF L = 0 THEN NULL ELSE order[L]
      /\ \A i \in 1 .. L : order[i] \in Nodes /\ order[i] # NULL
      /\ \A i, j \in 1 .. L : order[i] = order[j] => i = j
      /\ \A i \in 1 .. L : next[order[i]] = IF i < L THEN order[i + 1] ELSE NULL
      /\ \A i \in 1 .. L : order[i] \notin stale =>
           previous[order[i]] = IF i = 1 THEN NULL ELSE order[i - 1]
  BY <1>1, <1>2, LinksFacts, NodeFacts DEF Links, LinksInv
<1>6. previous \in [Nodes -> Pointers] /\ next \in [Nodes -> Pointers]
      /\ entry \in [Nodes -> Entries] /\ order \in Seq(Nodes)
      /\ first \in Pointers /\ last \in Pointers /\ current \in Pointers
      /\ allocated \subseteq Nodes /\ stale \subseteq allocated
      /\ entries \in 0 .. Cardinality(Nodes)
  BY <1>1 DEF TypeOK
<1>7. /\ visited' = 0
      /\ \/ /\ entry[n] # e /\ current' = n
            /\ UNCHANGED <<first, last, entries, nodeVars, order, stale>>
         \/ /\ next' = IF p = NULL THEN next ELSE [next EXCEPT ![p] = next[n]]
            /\ last' = IF n = last THEN p ELSE last
            /\ first' = IF n = first THEN next'[n] ELSE first
            /\ current' = first'
            /\ entries' = entries - 1
            /\ allocated' = allocated \ {n}
            /\ order' = RemoveFirst(order, n)
            /\ stale' = (stale \cup Successors(n)) \ {n}
            /\ UNCHANGED <<previous, entry>>
  BY <1>4 DEF listRemoveEntry, CursorAfterRemove
<1>8. n \in Nodes /\ n \in allocated /\ n # NULL
  BY <1>5
<1>9. CASE UNCHANGED <<first, last, entries, nodeVars, order, stale>> /\ current' = n
  <2>1. /\ first' = first /\ last' = last /\ entries' = entries /\ order' = order
        /\ stale' = stale /\ previous' = previous /\ next' = next /\ entry' = entry
        /\ allocated' = allocated /\ current' = n /\ visited' = 0
    BY <1>7, <1>9 DEF nodeVars
  <2>2. TypeOK'
    <3>1. current' \in Pointers /\ visited' \in 0 .. Cardinality(Nodes)
      BY <1>8, <2>1, NodeFacts DEF Pointers
    <3> QED BY <1>1, <2>1, <3>1 DEF TypeOK
  <2>3. CursorInOrder'
    BY <1>8, <2>1 DEF CursorInOrder
  <2>4. LinksInv'
    <3>1. visited' <= entries'
      BY <1>5, <2>1
    <3> QED BY <1>1, <2>1, <3>1 DEF LinksInv
  <2>5. /\ entries' = Len(order') /\ allocated' = {order'[i] : i \in 1 .. Len(order')}
        /\ last' = IF order' = << >> THEN NULL ELSE order'[Len(order')]
    BY <2>1 DEF Links
  <2> QED BY <2>2, <2>3, <2>4, <2>5 DEF Links
<1>10. CASE /\ next' = IF p = NULL THEN next ELSE [next EXCEPT ![p] = next[n]]
            /\ last' = IF n = last THEN p ELSE last
            /\ first' = IF n = first THEN next'[n] ELSE first
            /\ current' = first'
            /\ entries' = entries - 1
            /\ allocated' = allocated \ {n}
            /\ order' = RemoveFirst(order, n)
            /\ stale' = (stale \cup Successors(n)) \ {n}
            /\ UNCHANGED <<previous, entry>>
  <2>1. /\ order' \in Seq(Nodes) /\ Len(order') = L - 1
        /\ \A i \in 1 .. (L - 1) : order'[i] = IF i < k THEN order[i] ELSE order[i + 1]
    <3>1. order' = RemoveAt(order, k)
      <4>1. \A i \in 1 .. Len(order) : order[i] = order[k] => i = k
        BY <1>2, <1>5
      <4>2. RemoveFirst(order, order[k]) = RemoveAt(order, k)
        BY <1>2, <1>6, <4>1, RemoveFirstIsRemoveAt, ZenonT(60)
      <4> QED BY <1>10, <4>2
    <3>2. /\ RemoveAt(order, k) \in Seq(Nodes)
          /\ Len(RemoveAt(order, k)) = L - 1
          /\ \A i \in 1 .. (L - 1) :
               RemoveAt(order, k)[i] = IF i < k THEN order[i] ELSE order[i + 1]
      BY <1>2, <1>6, RemoveAtProperties
    <3> QED BY <3>1, <3>2, Zenon
  <2>2. p = IF k = 1 THEN NULL ELSE order[k - 1]
    BY <1>3, <1>4, <1>5
  <2>3. next[n] = IF k < L THEN order[k + 1] ELSE NULL
    BY <1>5
  <2>4. next' \in [Nodes -> Pointers]
        /\ \A i \in 1 .. L : next'[order[i]] = IF i = k - 1 THEN next[n] ELSE next[order[i]]
    <3>1. next[n] \in Pointers
      BY <1>6, <1>8
    <3>2. CASE k = 1
      BY <3>2, <2>2, <1>6, <1>10
    <3>3. CASE k # 1
      <4>1. k - 1 \in 1 .. L /\ p = order[k - 1] /\ p \in Nodes /\ p # NULL
        BY <3>3, <2>2, <1>5
      <4>2. next' = [next EXCEPT ![p] = next[n]]
        BY <4>1, <1>10
      <4>3. /\ next' \in [Nodes -> Pointers]
            /\ \A x \in Nodes : next'[x] = IF x = p THEN next[n] ELSE next[x]
        BY <4>1, <4>2, <3>1, <1>6
      <4>4. \A i \in 1 .. L : order[i] = p <=> i = k - 1
        BY <4>1, <1>5
      <4> QED BY <4>3, <4>4, <1>5
    <3> QED BY <3>2, <3>3
  <2>5. \A i \in 1 .. (L - 1) : order'[i] # n
    <3>1. ASSUME NEW i \in 1 .. (L - 1) PROVE order'[i] # n
      <4>1. CASE i < k
        BY <4>1, <2>1, <1>5
      <4>2. CASE ~(i < k)
        <5>1. i + 1 \in 1 .. L /\ i + 1 # k /\ order'[i] = order[i + 1]
          BY <4>2, <2>1
        <5> QED BY <5>1, <1>5
      <4> QED BY <4>1, <4>2
    <3> QED BY <3>1
  <2>6. allocated' = {order'[i] : i \in 1 .. (L - 1)}
    <3>1. ASSUME NEW x \in allocated' PROVE \E i \in 1 .. (L - 1) : x = order'[i]
      <4>1. PICK j \in 1 .. L : x = order[j] /\ j # k
        BY <1>5, <1>10
      <4>2. CASE j < k
        <5>1. j \in 1 .. (L - 1) /\ order'[j] = x
          BY <4>1, <4>2, <2>1
        <5> QED BY <5>1
      <4>3. CASE ~(j < k)
        <5>1. j - 1 \in 1 .. (L - 1) /\ ~(j - 1 < k) /\ (j - 1) + 1 = j
          BY <4>1, <4>3
        <5>2. order'[j - 1] = x
          BY <4>1, <5>1, <2>1
        <5> QED BY <5>1, <5>2
      <4> QED BY <4>2, <4>3
    <3>2. ASSUME NEW i \in 1 .. (L - 1) PROVE order'[i] \in allocated'
      <4>1. \E j \in 1 .. L : order'[i] = order[j]
        BY <2>1
      <4> QED BY <4>1, <2>5, <1>5, <1>10
    <3> QED BY <3>1, <3>2
  <2>7. /\ Cardinality(allocated') = L - 1 /\ allocated' \subseteq Nodes
    <3>1. IsFiniteSet(allocated) /\ Cardinality(allocated) = L
      BY <1>1, <1>5, <1>6, NodeFacts, FS_Subset DEF LinksInv
    <3> QED BY <1>6, <1>8, <1>10, <3>1, FS_RemoveElement
  <2>8. \A i \in 1 .. (L - 1) : order'[i] \in Nodes /\ order'[i] # NULL
    <3>1. ASSUME NEW i \in 1 .. (L - 1) PROVE \E j \in 1 .. L : order'[i] = order[j]
      <4>1. i \in 1 .. L /\ i + 1 \in 1 .. L
        OBVIOUS
      <4> QED BY <4>1, <2>1
    <3> QED BY <3>1, <1>5
  <2>9. /\ order' = << >> <=> L = 1
        /\ first' = IF L = 1 THEN NULL ELSE order'[1]
        /\ last' = IF L = 1 THEN NULL ELSE order'[L - 1]
    <3>1. order' = << >> <=> L = 1
      BY <2>1, EmptySeq
    <3>2. n = first <=> k = 1
      BY <1>5
    <3>3. n = last <=> k = L
      BY <1>5
    <3>4. first' = IF L = 1 THEN NULL ELSE order'[1]
      <4>1. CASE k = 1
        <5>1. first' = next[n]
          BY <4>1, <3>2, <1>10, <2>4, <1>5
        <5> QED BY <4>1, <5>1, <2>1, <2>3
      <4>2. CASE k # 1
        <5>1. L # 1 /\ L # 0 /\ 1 \in 1 .. (L - 1) /\ 1 < k
          BY <4>2
        <5>2. order'[1] = order[1]
          BY <5>1, <2>1
        <5>3. first' = first
          BY <4>2, <3>2, <1>10
        <5> QED BY <5>1, <5>2, <5>3, <1>5
      <4> QED BY <4>1, <4>2
    <3>5. last' = IF L = 1 THEN NULL ELSE order'[L - 1]
      <4>1. CASE k = L
        BY <4>1, <3>3, <1>10, <2>1, <2>2
      <4>2. CASE k # L
        <5>1. last' = order[L] /\ L # 1 /\ ~(L - 1 < k) /\ L - 1 \in 1 .. (L - 1)
              /\ (L - 1) + 1 = L
          BY <4>2, <3>3, <1>5, <1>10
        <5> QED BY <5>1, <2>1
      <4> QED BY <4>1, <4>2
    <3> QED BY <3>1, <3>4, <3>5
  <2>10. /\ stale' \subseteq allocated'
         /\ k < L => order[k + 1] \in stale'
    <3>1. ASSUME NEW x \in Successors(n) PROVE x \in allocated
      <4>1. PICK i \in 1 .. (L - 1) : x = order[i + 1]
        BY <1>2 DEF Successors
      <4>2. i + 1 \in 1 .. L
        OBVIOUS
      <4> QED BY <4>1, <4>2, <1>5
    <3>2. ASSUME k < L PROVE order[k + 1] \in Successors(n) /\ order[k + 1] # n
      <4>1. k \in 1 .. (Len(order) - 1)
        BY <3>2, <1>2
      <4>2. order[k + 1] \in Successors(n)
        BY <4>1 DEF Successors
      <4>3. k + 1 \in 1 .. L
        BY <3>2
      <4> QED BY <4>2, <4>3, <1>5
    <3> QED BY <3>1, <3>2, <1>6, <1>10
  <2>11. TypeOK'
    <3>1. first' \in Pointers /\ last' \in Pointers /\ current' \in Pointers
      BY <2>8, <2>9, <1>10 DEF Pointers
    <3>2. entries' \in 0 .. Cardinality(Nodes) /\ visited' \in 0 .. Cardinality(Nodes)
      BY <1>5, <1>6, <1>7, <1>10, NodeFacts
    <3>3. previous' \in [Nodes -> Pointers] /\ entry' \in [Nodes -> Entries]
      BY <1>6, <1>10
    <3> QED BY <2>1, <2>4, <2>7, <2>10, <3>1, <3>2, <3>3 DEF TypeOK
  <2>12. CursorInOrder'
    <3>1. current' # NULL => current' \in allocated'
      BY <2>6, <2>9, <1>10
    <3> QED BY <3>1, <1>7 DEF CursorInOrder
  <2>13. LinksInv'
    <3>1. first' = IF order' = << >> THEN NULL ELSE order'[1]
      BY <2>9
    <3>2. Cardinality(allocated') = entries' /\ visited' <= entries'
      BY <1>5, <1>7, <1>10, <2>7
    <3>3. ASSUME NEW i \in 1 .. (L - 1), NEW j \in 1 .. (L - 1), order'[i] = order'[j]
          PROVE  i = j
      <4> DEFINE old(h) == IF h < k THEN h ELSE h + 1
      <4>1. old(i) \in 1 .. L /\ old(j) \in 1 .. L
            /\ order'[i] = order[old(i)] /\ order'[j] = order[old(j)]
        BY <2>1
      <4>2. old(i) = old(j)
        <5> HIDE DEF old
        <5> QED BY <4>1, <3>3, <1>5
      <4> QED BY <4>2
    <3>4. ASSUME NEW i \in 1 .. (L - 1)
          PROVE  next'[order'[i]] = IF i < L - 1 THEN order'[i + 1] ELSE NULL
      <4>1. CASE i < k - 1
        <5>1. order'[i] = order[i] /\ order'[i + 1] = order[i + 1] /\ i < L - 1 /\ i < L
              /\ i \in 1 .. L
          BY <4>1, <2>1
        <5> QED BY <4>1, <5>1, <2>4, <1>5
      <4>2. CASE i = k - 1
        <5>1. order'[i] = order[i] /\ i \in 1 .. L /\ i + 1 = k
          BY <4>2, <2>1
        <5>2. next'[order'[i]] = next[n]
          BY <4>2, <5>1, <2>4
        <5>3. i < L - 1 => order'[i + 1] = order[k + 1]
          BY <5>1, <2>1
        <5> QED BY <5>1, <5>2, <5>3, <2>3
      <4>3. CASE i > k - 1
        <5>1. i + 1 \in 1 .. L /\ i + 1 # k - 1 /\ ~(i < k) /\ ~(i + 1 < k)
          BY <4>3
        <5>2. order'[i] = order[i + 1]
          BY <5>1, <2>1
        <5>3. next'[order[i + 1]] = IF i + 1 < L THEN order[(i + 1) + 1] ELSE NULL
          BY <5>1, <2>4, <1>5
        <5>4. i < L - 1 => order'[i + 1] = order[(i + 1) + 1]
          BY <5>1, <2>1
        <5> QED BY <5>2, <5>3, <5>4
      <4> QED BY <4>1, <4>2, <4>3
    <3>5. ASSUME NEW i \in 1 .. (L - 1), order'[i] \notin stale'
          PROVE  previous'[order'[i]] = IF i = 1 THEN NULL ELSE order'[i - 1]
      <4>0. order'[i] \notin stale
        BY <3>5, <2>5, <1>10
      <4>1. CASE i < k
        <5>1. order'[i] = order[i] /\ i \in 1 .. L
          BY <4>1, <2>1
        <5>2. i # 1 => order'[i - 1] = order[i - 1]
          BY <4>1, <2>1
        <5> QED BY <5>1, <5>2, <4>0, <1>5, <1>10
      <4>2. CASE i = k
        BY <4>2, <3>5, <2>1, <2>10
      <4>3. CASE i > k
        <5>1. order'[i] = order[i + 1] /\ i + 1 \in 1 .. L /\ i + 1 # 1 /\ (i + 1) - 1 = i
          BY <4>3, <2>1
        <5>2. i # 1 /\ i - 1 \in 1 .. (L - 1) /\ ~(i - 1 < k) /\ (i - 1) + 1 = i
          BY <4>3
        <5>3. order'[i - 1] = order[i]
          BY <5>2, <2>1
        <5>4. previous[order[i + 1]] = order[i]
          BY <5>1, <4>0, <1>5
        <5> QED BY <5>1, <5>2, <5>3, <5>4, <1>10
      <4> QED BY <4>1, <4>2, <4>3
    <3> QED BY <2>1, <3>1, <3>2, <3>3, <3>4, <3>5 DEF LinksInv
  <2>14. /\ entries' = Len(order') /\ allocated' = {order'[i] : i \in 1 .. Len(order')}
         /\ last' = IF order' = << >> THEN NULL ELSE order'[Len(order')]
    BY <1>5, <1>10, <2>1, <2>6, <2>9
  <2> QED BY <2>11, <2>12, <2>13, <2>14 DEF Links
<1> HIDE DEF n, p
<1> QED BY <1>7, <1>9, <1>10

(* Both functions of the iteration keep the cursor on the list.            *)
LEMMA CursorKeepsLinks ==
  ASSUME Links, listFirstEntry \/ listNextEntry
  PROVE  Links'
<1>1. TypeOK /\ CursorInOrder /\ LinksInv
  BY DEF Links
<1>2. PICK L \in Nat : L = Len(order)
  BY LinksFacts
<1>3. /\ first' = first /\ last' = last /\ entries' = entries /\ order' = order
      /\ stale' = stale /\ previous' = previous /\ next' = next /\ entry' = entry
      /\ allocated' = allocated
  BY DEF listFirstEntry, listNextEntry, nodeVars
<1>4. /\ entries = L /\ allocated = {order[i] : i \in 1 .. L}
      /\ first = IF L = 0 THEN NULL ELSE order[1]
      /\ \A i \in 1 .. L : order[i] \in Nodes /\ order[i] # NULL
      /\ \A i \in 1 .. L : next[order[i]] = IF i < L THEN order[i + 1] ELSE NULL
      /\ visited \in Nat /\ visited <= L /\ L <= Cardinality(Nodes)
  BY <1>1, <1>2, LinksFacts, NodeFacts DEF Links, LinksInv, TypeOK
<1>5. /\ current' # NULL => current' \in allocated
      /\ visited' \in 0 .. L
      /\ visited' # 0 => current' = order[visited']
  <2>1. CASE listFirstEntry
    <3>1. current' = order[1] /\ visited' = 1 /\ 1 \in 1 .. L
      BY <2>1, <1>4 DEF listFirstEntry
    <3> QED BY <3>1, <1>4
  <2>2. CASE listNextEntry
    <3>1. current # NULL /\ current' = next[current]
          /\ visited' = IF visited = 0 \/ current' = NULL THEN 0 ELSE visited + 1
      BY <2>2 DEF listNextEntry
    <3>2. PICK i \in 1 .. L : current = order[i] /\ (visited # 0 => i = visited)
      <4>1. CASE visited = 0
        BY <4>1, <3>1, <1>1, <1>4 DEF CursorInOrder
      <4>2. CASE visited # 0
        <5>1. visited \in 1 .. L /\ current = order[visited]
          BY <4>2, <1>1, <1>4 DEF CursorInOrder
        <5> QED BY <5>1
      <4> QED BY <4>1, <4>2
    <3>3. current' = IF i < L THEN order[i + 1] ELSE NULL
      BY <3>1, <3>2, <1>4
    <3>4. i < L => i + 1 \in 1 .. L
      OBVIOUS
    <3>5. current' # NULL => current' \in allocated
      BY <3>3, <3>4, <1>4
    <3>6. CASE visited = 0 \/ current' = NULL
      BY <3>1, <3>5, <3>6
    <3>7. CASE ~(visited = 0 \/ current' = NULL)
      <4>1. visited' = i + 1 /\ i < L /\ current' = order[i + 1]
        BY <3>1, <3>2, <3>3, <3>7
      <4> QED BY <3>4, <3>5, <4>1
    <3> QED BY <3>6, <3>7
  <2> QED BY <2>1, <2>2
<1>6. TypeOK'
  <2>1. current' \in Pointers
    BY <1>4, <1>5 DEF Pointers
  <2>2. visited' \in 0 .. Cardinality(Nodes)
    BY <1>4, <1>5, NodeFacts
  <2> QED BY <1>1, <1>3, <2>1, <2>2 DEF TypeOK
<1>7. CursorInOrder'
  BY <1>3, <1>5 DEF CursorInOrder
<1>8. LinksInv'
  <2>1. visited' <= entries'
    BY <1>3, <1>4, <1>5
  <2> QED BY <1>1, <1>3, <2>1 DEF LinksInv
<1>9. /\ entries' = Len(order') /\ allocated' = {order'[i] : i \in 1 .. Len(order')}
      /\ last' = IF order' = << >> THEN NULL ELSE order'[Len(order')]
  BY <1>3 DEF Links
<1> QED BY <1>6, <1>7, <1>8, <1>9 DEF Links

-----------------------------------------------------------------------------
(* Every operation keeps the list consistent, for a user who removes no    *)
(* entry whose predecessor was removed.                                    *)
THEOREM ListInvariant ==
  ASSUME Client = "fresh"
  PROVE  Spec => []ListInv
<1>1. listInit => Links
  BY InitLinks
<1>2. Links /\ [Next]_vars => Links'
  <2> SUFFICES ASSUME Links, [Next]_vars PROVE Links'
    OBVIOUS
  <2>1. ASSUME NEW e \in Entries, listAddEntry(e) PROVE Links'
    BY <2>1, AddKeepsLinks
  <2>2. ASSUME NEW e \in Entries, listRemoveEntry(e) PROVE Links'
    BY <2>2, RemoveKeepsLinks
  <2>3. CASE listFirstEntry \/ listNextEntry
    BY <2>3, CursorKeepsLinks
  <2>4. CASE UNCHANGED vars
    <3>1. /\ first' = first /\ last' = last /\ entries' = entries /\ order' = order
          /\ stale' = stale /\ previous' = previous /\ next' = next /\ entry' = entry
          /\ allocated' = allocated /\ current' = current /\ visited' = visited
      BY <2>4 DEF vars, listVars, nodeVars
    <3> QED BY <3>1 DEF Links, TypeOK, CursorInOrder, LinksInv
  <2> QED BY <2>1, <2>2, <2>3, <2>4 DEF Next
<1>3. Links => ListInv
  BY LinksGiveListInv
<1> QED BY <1>1, <1>2, <1>3, PTL DEF Spec

(* The pointers make up the list that its user thinks of.                  *)
THEOREM PointersAreTheList ==
  ASSUME Client = "fresh"
  PROVE  Spec => []ListIsOrder
<1>1. ListInv => ListIsOrder
  BY DEF ListInv
<1> QED BY <1>1, ListInvariant, PTL

(* The cursor is never left on a freed node, and an iteration returns the  *)
(* entries in order.                                                       *)
THEOREM CursorStaysInOrder ==
  ASSUME Client = "fresh"
  PROVE  Spec => []CursorInOrder
<1>1. ListInv => CursorInOrder
  BY DEF ListInv
<1> QED BY <1>1, ListInvariant, PTL
=============================================================================
