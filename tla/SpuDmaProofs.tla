---------------------------- MODULE SpuDmaProofs ----------------------------
(***************************************************************************)
(* Proofs about SpuDma, for every number of places, every set of tags, of  *)
(* masks and of addresses, and all bounds: no addition to the lock line is *)
(* lost, a place that the program has waited for holds what it must hold,  *)
(* and the order in which the MFC takes the commands never shows.          *)
(***************************************************************************)
EXTENDS SpuDma, SequenceLemmas

-----------------------------------------------------------------------------
(* Transfers.                                                              *)

Memories == [Locs -> Values]

(* A command touches places only.                                          *)
LEMMA TouchesPlaces ==
  ASSUME NEW c \in Commands
  PROVE  Source(c) \subseteq Locs /\ Target(c) \subseteq Locs
BY DEF Source, Target, Commands, Locs, Ls, Ea

(* After a command every place holds what some place held before, one that *)
(* the command reads when the command writes the place, and otherwise the  *)
(* place itself; which one does not depend on memory.                      *)
LEMMA TransferAt ==
  ASSUME NEW c \in Commands, NEW x \in Locs
  PROVE  \E y \in Locs :
           /\ x \in Target(c) => y \in Source(c)
           /\ x \notin Target(c) => y = x
           /\ \A m \in Memories : Transfer(m, c)[x] = m[y]
<1> DEFINE to(p) == IF c.op = "get" THEN Ls(p[1]) ELSE Ea(p[2])
           from(p) == IF c.op = "get" THEN Ea(p[2]) ELSE Ls(p[1])
<1>1. CASE x \notin Target(c)
  <2>1. \A m \in Memories : Transfer(m, c)[x] = m[x]
    BY <1>1 DEF Transfer
  <2> QED BY <1>1, <2>1
<1>2. CASE x \in Target(c)
  <2> DEFINE p == CHOOSE p \in c.pairs : x = to(p)
  <2>1. \E q \in c.pairs : x = to(q)
    BY <1>2 DEF Target
  <2>2. p \in c.pairs
    <3> HIDE DEF to
    <3> QED BY <2>1
  <2>3. from(p) \in Source(c)
    <3> HIDE DEF p
    <3> QED BY <2>2 DEF Source
  <2>4. from(p) \in Locs
    BY <2>3, TouchesPlaces
  <2>5. \A m \in Memories : Transfer(m, c)[x] = m[from(p)]
    BY <1>2 DEF Transfer
  <2> HIDE DEF p, from
  <2> QED BY <1>2, <2>3, <2>4, <2>5
<1> QED BY <1>1, <1>2

(* A command leaves a memory.                                              *)
LEMMA TransferType ==
  ASSUME NEW c \in Commands, NEW m \in Memories
  PROVE  Transfer(m, c) \in Memories
<1>1. ASSUME NEW x \in Locs PROVE Transfer(m, c)[x] \in Values
  BY TransferAt DEF Memories
<1>2. \E f : Transfer(m, c) = [x \in Locs |-> f[x]]
  <2>1. Transfer(m, c) = [x \in Locs |-> Transfer(m, c)[x]]
    BY DEF Transfer
  <2> QED BY <2>1
<1> QED BY <1>1, <1>2 DEF Memories

(* Two commands that do not conflict may be exchanged.                     *)
LEMMA TransfersCommute ==
  ASSUME NEW c \in Commands, NEW d \in Commands, NEW m \in Memories,
         ~Conflict(c, d)
  PROVE  Transfer(Transfer(m, c), d) = Transfer(Transfer(m, d), c)
<1>1. Transfer(m, c) \in Memories /\ Transfer(m, d) \in Memories
  BY TransferType
<1>2. /\ Transfer(Transfer(m, c), d) \in Memories
      /\ Transfer(Transfer(m, d), c) \in Memories
  BY <1>1, TransferType
<1>3. ASSUME NEW x \in Locs
      PROVE  Transfer(Transfer(m, c), d)[x] = Transfer(Transfer(m, d), c)[x]
  <2>1. PICK y \in Locs :
          /\ x \in Target(c) => y \in Source(c)
          /\ x \notin Target(c) => y = x
          /\ \A n \in Memories : Transfer(n, c)[x] = n[y]
    BY TransferAt
  <2>2. PICK z \in Locs :
          /\ x \in Target(d) => z \in Source(d)
          /\ x \notin Target(d) => z = x
          /\ \A n \in Memories : Transfer(n, d)[x] = n[z]
    BY TransferAt
  <2>3. Transfer(Transfer(m, c), d)[x] = Transfer(m, c)[z]
    BY <1>1, <2>2
  <2>4. Transfer(Transfer(m, d), c)[x] = Transfer(m, d)[y]
    BY <1>1, <2>1
  <2>5. CASE x \in Target(c)
    <3>1. x \notin Target(d) /\ y \notin Target(d)
      BY <2>1, <2>5 DEF Conflict
    <3>2. Transfer(m, d)[y] = m[y]
      BY <3>1, TransferAt
    <3> QED BY <2>1, <2>2, <2>3, <2>4, <3>1, <3>2
  <2>6. CASE x \notin Target(c)
    <3>1. z \notin Target(c)
      BY <2>2, <2>6 DEF Conflict
    <3>2. Transfer(m, c)[z] = m[z]
      BY <3>1, TransferAt
    <3> QED BY <2>1, <2>2, <2>3, <2>4, <2>6, <3>2
  <2> QED BY <2>5, <2>6
<1>4. ASSUME NEW f \in Memories, NEW g \in Memories,
             \A x \in Locs : f[x] = g[x]
      PROVE  f = g
  BY <1>4 DEF Memories
<1> QED BY <1>2, <1>3, <1>4

(* A command may be exchanged with a store to a place it does not touch.   *)
LEMMA StoreCommutes ==
  ASSUME NEW c \in Commands, NEW m \in Memories, NEW x \in Locs, NEW v \in Values,
         x \notin Source(c) \cup Target(c)
  PROVE  Transfer([m EXCEPT ![x] = v], c) = [Transfer(m, c) EXCEPT ![x] = v]
<1> DEFINE n == [m EXCEPT ![x] = v]
<1>1. n \in Memories /\ \A y \in Locs : n[y] = IF y = x THEN v ELSE m[y]
  BY DEF Memories
<1> HIDE DEF n
<1>2. Transfer(m, c) \in Memories /\ Transfer(n, c) \in Memories
  BY <1>1, TransferType
<1> DEFINE k == [Transfer(m, c) EXCEPT ![x] = v]
<1>3. /\ k \in Memories
      /\ \A y \in Locs : k[y] = IF y = x THEN v ELSE Transfer(m, c)[y]
  BY <1>2 DEF Memories
<1> HIDE DEF k
<1>4. ASSUME NEW y \in Locs PROVE Transfer(n, c)[y] = k[y]
  <2>1. PICK z \in Locs :
          /\ y \in Target(c) => z \in Source(c)
          /\ y \notin Target(c) => z = y
          /\ \A u \in Memories : Transfer(u, c)[y] = u[z]
    BY TransferAt
  <2>2. Transfer(n, c)[y] = n[z] /\ Transfer(m, c)[y] = m[z]
    BY <1>1, <2>1
  <2>3. z = x <=> y = x
    BY <2>1
  <2> QED BY <1>1, <1>3, <2>2, <2>3
<1>5. ASSUME NEW f \in Memories, NEW g \in Memories,
             \A y \in Locs : f[y] = g[y]
      PROVE  f = g
  BY <1>5 DEF Memories
<1>6. Transfer(n, c) = k
  BY <1>2, <1>3, <1>4, <1>5
<1> QED BY <1>6 DEF n, k

-----------------------------------------------------------------------------
(* The queue.                                                              *)

(* The commands of q, carried out in order, lead from memory m to w.       *)
Runs(q, h) ==
  /\ h \in [0 .. Len(q) -> Memories]
  /\ \A i \in 1 .. Len(q) : h[i] = Transfer(h[i - 1], q[i])

Replay(q, m, w) == \E h : Runs(q, h) /\ h[0] = m /\ h[Len(q)] = w

(* No commands lead from a memory to itself only.                          *)
LEMMA ReplayEmpty ==
  ASSUME NEW m \in Memories, NEW w
  PROVE  Replay(<< >>, m, w) <=> w = m
<1>1. Len(<< >>) = 0
  OBVIOUS
<1>2. ASSUME w = m PROVE Replay(<< >>, m, w)
  <2> DEFINE h == [i \in 0 .. 0 |-> m]
  <2>1. Runs(<< >>, h) /\ h[0] = m
    BY <1>1 DEF Runs
  <2> HIDE DEF h
  <2> QED BY <1>1, <1>2, <2>1 DEF Replay
<1>3. ASSUME Replay(<< >>, m, w) PROVE w = m
  BY <1>1, <1>3 DEF Replay
<1> QED BY <1>2, <1>3

(* A further command is carried out last.                                  *)
LEMMA ReplayAppend ==
  ASSUME NEW q \in Seq(Commands), NEW c \in Commands, NEW m, NEW w,
         Replay(q, m, w)
  PROVE  Replay(Append(q, c), m, Transfer(w, c))
<1>1. PICK n \in Nat : n = Len(q)
  OBVIOUS
<1>2. /\ Len(Append(q, c)) = n + 1 /\ Append(q, c)[n + 1] = c
      /\ \A i \in 1 .. n : Append(q, c)[i] = q[i]
  BY <1>1, AppendProperties
<1>3. PICK h : Runs(q, h) /\ h[0] = m /\ h[n] = w
  BY <1>1 DEF Replay
<1>4. /\ \A i \in 0 .. n : h[i] \in Memories
      /\ \A i \in 1 .. n : h[i] = Transfer(h[i - 1], q[i])
  BY <1>1, <1>3 DEF Runs
<1>5. w \in Memories /\ Transfer(w, c) \in Memories
  BY <1>1, <1>3, <1>4, TransferType
<1> DEFINE g == [i \in 0 .. (n + 1) |-> IF i = n + 1 THEN Transfer(w, c) ELSE h[i]]
<1>6. /\ g \in [0 .. (n + 1) -> Memories] /\ g[n + 1] = Transfer(w, c)
      /\ \A i \in 0 .. n : g[i] = h[i]
  BY <1>4, <1>5
<1> HIDE DEF g
<1>7. ASSUME NEW i \in 1 .. (n + 1)
      PROVE  g[i] = Transfer(g[i - 1], Append(q, c)[i])
  <2>1. CASE i = n + 1
    BY <2>1, <1>2, <1>3, <1>6
  <2>2. CASE i # n + 1
    <3>1. i \in 1 .. n /\ i - 1 \in 0 .. n
      BY <2>2
    <3> QED BY <3>1, <1>2, <1>4, <1>6
  <2> QED BY <2>1, <2>2
<1>8. Runs(Append(q, c), g)
  BY <1>2, <1>6, <1>7 DEF Runs
<1>9. g[0] = m /\ g[Len(Append(q, c))] = Transfer(w, c)
  BY <1>2, <1>3, <1>6
<1> QED BY <1>8, <1>9 DEF Replay

(* A command that conflicts with no earlier one may be carried out first.  *)
LEMMA ReplayRemove ==
  ASSUME NEW q \in Seq(Commands), NEW r \in 1 .. Len(q), NEW m, NEW w,
         Replay(q, m, w),
         \A i \in 1 .. (r - 1) : ~Conflict(q[i], q[r])
  PROVE  Replay(RemoveAt(q, r), Transfer(m, q[r]), w)
<1>1. PICK n \in Nat : n = Len(q)
  OBVIOUS
<1>2. PICK p \in Seq(Commands) : p = RemoveAt(q, r)
  BY RemoveAtProperties
<1>3. /\ Len(p) = n - 1
      /\ \A j \in 1 .. (n - 1) : p[j] = IF j < r THEN q[j] ELSE q[j + 1]
  BY <1>1, <1>2, RemoveAtProperties
<1>4. PICK h : Runs(q, h) /\ h[0] = m /\ h[n] = w
  BY <1>1 DEF Replay
<1>5. /\ \A i \in 0 .. n : h[i] \in Memories
      /\ \A i \in 1 .. n : h[i] = Transfer(h[i - 1], q[i])
  BY <1>1, <1>4 DEF Runs
<1>6. r \in 1 .. n /\ \A i \in 1 .. n : q[i] \in Commands
  BY <1>1
<1> DEFINE g == [i \in 0 .. (n - 1) |-> IF i < r THEN Transfer(h[i], q[r]) ELSE h[i + 1]]
<1>7. /\ \A i \in 0 .. (n - 1) : i < r => g[i] = Transfer(h[i], q[r])
      /\ \A i \in 0 .. (n - 1) : ~(i < r) => g[i] = h[i + 1]
  OBVIOUS
<1>8. g \in [0 .. (n - 1) -> Memories]
  <2>1. ASSUME NEW i \in 0 .. (n - 1)
        PROVE  (IF i < r THEN Transfer(h[i], q[r]) ELSE h[i + 1]) \in Memories
    <3>1. i \in 0 .. n /\ i + 1 \in 0 .. n
      OBVIOUS
    <3> QED BY <3>1, <1>5, <1>6, TransferType
  <2> QED BY <2>1
<1> HIDE DEF g
<1>9. ASSUME NEW i \in 1 .. (n - 1)
      PROVE  g[i] = Transfer(g[i - 1], p[i])
  <2>0. i \in 1 .. n /\ i - 1 \in 0 .. (n - 1) /\ i + 1 \in 1 .. n /\ i - 1 \in 0 .. n
    OBVIOUS
  <2>1. CASE i < r
    <3>1. i \in 1 .. (r - 1) /\ i - 1 < r
      BY <2>1, <1>6
    <3>2. Transfer(Transfer(h[i - 1], q[i]), q[r]) = Transfer(Transfer(h[i - 1], q[r]), q[i])
      BY <3>1, <2>0, <1>5, <1>6, TransfersCommute
    <3>3. g[i] = Transfer(h[i], q[r]) /\ g[i - 1] = Transfer(h[i - 1], q[r])
      BY <2>0, <2>1, <3>1, <1>7
    <3> QED BY <2>0, <2>1, <3>2, <3>3, <1>3, <1>5
  <2>2. CASE i = r
    <3>1. g[i - 1] = Transfer(h[i - 1], q[i])
      BY <2>0, <2>2, <1>6, <1>7
    <3>2. g[i - 1] = h[i] /\ g[i] = h[i + 1] /\ p[i] = q[i + 1]
      BY <2>0, <2>2, <3>1, <1>3, <1>5, <1>7
    <3>3. h[i + 1] = Transfer(h[i], q[i + 1])
      BY <2>0, <1>5
    <3> QED BY <3>2, <3>3
  <2>3. CASE i > r
    <3>1. ~(i < r) /\ ~(i - 1 < r)
      BY <2>3, <1>6
    <3>2. g[i] = h[i + 1] /\ p[i] = q[i + 1]
      <4>1. g[i] = h[i + 1]
        <5>1. i \in 0 .. (n - 1)
          BY <2>0
        <5> QED BY <5>1, <3>1, <1>7, Zenon
      <4>2. p[i] = q[i + 1]
        BY <3>1, <1>3, Zenon
      <4> QED BY <4>1, <4>2
    <3>3. g[i - 1] = h[i]
      <4>1. (i - 1) + 1 = i /\ i \in Int
        OBVIOUS
      <4>2. g[i - 1] = h[(i - 1) + 1]
        BY <2>0, <3>1, <1>7
      <4> QED BY <4>1, <4>2
    <3>4. h[i + 1] = Transfer(h[i], q[i + 1])
      BY <2>0, <1>5
    <3> QED BY <3>2, <3>3, <3>4
  <2> QED BY <2>1, <2>2, <2>3, <1>6
<1>10. Runs(p, g)
  BY <1>3, <1>8, <1>9 DEF Runs
<1>11. g[0] = Transfer(m, q[r])
  BY <1>4, <1>6, <1>7
<1>12. g[n - 1] = w
  <2>1. CASE r = n
    <3>1. g[n - 1] = Transfer(h[n - 1], q[n])
      BY <2>1, <1>6, <1>7
    <3> QED BY <2>1, <3>1, <1>4, <1>5, <1>6
  <2>2. CASE r # n
    BY <2>2, <1>4, <1>6, <1>7
  <2> QED BY <2>1, <2>2
<1> QED BY <1>2, <1>3, <1>10, <1>11, <1>12 DEF Replay

(* A store to a place that no command touches may come first or last.      *)
LEMMA ReplayStore ==
  ASSUME NEW q \in Seq(Commands), NEW m, NEW w, NEW x \in Locs, NEW v \in Values,
         Replay(q, m, w),
         \A i \in 1 .. Len(q) : x \notin Source(q[i]) \cup Target(q[i])
  PROVE  Replay(q, [m EXCEPT ![x] = v], [w EXCEPT ![x] = v])
<1>1. PICK n \in Nat : n = Len(q)
  OBVIOUS
<1>2. PICK h : Runs(q, h) /\ h[0] = m /\ h[n] = w
  BY <1>1 DEF Replay
<1>3. /\ \A i \in 0 .. n : h[i] \in Memories
      /\ \A i \in 1 .. n : h[i] = Transfer(h[i - 1], q[i])
  BY <1>1, <1>2 DEF Runs
<1> DEFINE g == [i \in 0 .. n |-> [h[i] EXCEPT ![x] = v]]
<1>4. g \in [0 .. n -> Memories]
  BY <1>3 DEF Memories
<1>5. \A i \in 0 .. n : g[i] = [h[i] EXCEPT ![x] = v]
  OBVIOUS
<1> HIDE DEF g
<1>6. ASSUME NEW i \in 1 .. n
      PROVE  g[i] = Transfer(g[i - 1], q[i])
  <2>1. i - 1 \in 0 .. n /\ i \in 0 .. n /\ q[i] \in Commands
    BY <1>1
  <2>2. Transfer([h[i - 1] EXCEPT ![x] = v], q[i])
          = [Transfer(h[i - 1], q[i]) EXCEPT ![x] = v]
    <3>1. h[i - 1] \in Memories /\ x \notin Source(q[i]) \cup Target(q[i])
      BY <2>1, <1>1, <1>3
    <3> QED BY <2>1, <3>1, StoreCommutes
  <2> QED BY <2>1, <2>2, <1>3, <1>5
<1>7. Runs(q, g)
  BY <1>1, <1>4, <1>6 DEF Runs
<1>8. g[0] = [m EXCEPT ![x] = v] /\ g[n] = [w EXCEPT ![x] = v]
  BY <1>2, <1>5
<1> QED BY <1>1, <1>7, <1>8 DEF Replay

(* A place that no command writes keeps what it holds: the argument looks  *)
(* at the first command after which it would not.                          *)
LEMMA ReplayUntouched ==
  ASSUME NEW q \in Seq(Commands), NEW m, NEW w, NEW x \in Locs,
         Replay(q, m, w),
         \A i \in 1 .. Len(q) : x \notin Target(q[i])
  PROVE  m[x] = w[x]
<1>1. PICK n \in Nat : n = Len(q)
  OBVIOUS
<1>2. PICK h : Runs(q, h) /\ h[0] = m /\ h[n] = w
  BY <1>1 DEF Replay
<1>3. /\ \A i \in 0 .. n : h[i] \in Memories
      /\ \A i \in 1 .. n : h[i] = Transfer(h[i - 1], q[i])
  BY <1>1, <1>2 DEF Runs
<1> DEFINE T == {i \in 0 .. n : h[i][x] # m[x]}
<1>4. SUFFICES ASSUME T # {} PROVE FALSE
  BY <1>2
<1>5. PICK i \in T : \A k \in T : i <= k
  <2>1. T \subseteq Nat
    OBVIOUS
  <2> QED BY <1>4, <2>1, LeastNumber
<1>6. i \in 1 .. n /\ i - 1 \in 0 .. n /\ h[i][x] # m[x] /\ i - 1 \notin T
  BY <1>2, <1>5
<1>7. h[i - 1][x] = m[x]
  BY <1>6
<1>8. q[i] \in Commands /\ x \notin Target(q[i]) /\ h[i - 1] \in Memories
  BY <1>1, <1>3, <1>6
<1>9. Transfer(h[i - 1], q[i])[x] = h[i - 1][x]
  BY <1>8, TransferAt
<1> QED BY <1>3, <1>6, <1>7, <1>9

-----------------------------------------------------------------------------
(* The calls of the program.                                               *)

(* The mask of a tag is a number that holds just the tag.                  *)
LEMMA MaskOfTag ==
  ASSUME NEW t \in Tags
  PROVE  uiMask(t) \in Nat /\ InMask(uiMask(t)) = {t}
<1>1. t \in TagNumbers
  BY TagsAssumption
<1>2. \A u \in TagNumbers : 2^t \in Nat /\ ((2^t \div 2^u) % 2 = 1 <=> t = u)
  BY <1>1, PowersAssumption
<1>3. 2^t \in Nat
  BY <1>1, <1>2
<1> HIDE DEF TagNumbers
<1> QED BY <1>1, <1>2, <1>3 DEF uiMask, InMask

(* The list of n elements is the one that the program means.               *)
LEMMA ElementsOfList ==
  ASSUME NEW n \in 1 .. Places
  PROVE  /\ Elements(n) = {<<i, i>> : i \in 0 .. (n - 1)}
         /\ Elements(n) \in SUBSET (Index \X Index)
<1>1. n \in Int /\ n <= Places /\ Places \in Int
  BY PlacesAssumption
<1>2. listBytes(n) \div ELEMENT_SIZE = n
  BY <1>1 DEF listBytes, ELEMENT_SIZE
<1>3. Elements(n) = {<<i, i>> : i \in 0 .. (n - 1)}
  BY <1>2 DEF Elements
<1>4. \A i \in 0 .. (n - 1) : i \in Index
  BY <1>1 DEF Index
<1> QED BY <1>3, <1>4

(* A call starts the transfer that the program means.                      *)
Starts(c) ==
  /\ Ask(c)
  /\ queue' = Append(queue, c)
  /\ UNCHANGED waiting \/ \E t \in Tags : Wait("any", uiMask(t), {t})

(* Every form of a single transfer does that.                              *)
LEMMA CallOneStarts ==
  ASSUME NEW b \in Index, NEW l \in Addresses, NEW t \in Tags, CallOne(b, l, t)
  PROVE  \E c \in Commands : Starts(c)
<1>1. {<<b, l>>} \in SUBSET (Index \X Index)
  BY AddressesAssumption DEF Index
<1>2. \A op \in {"get", "put"}, form \in Forms :
        Command(op, form, t, {<<b, l>>}) \in Commands
  BY <1>1 DEF Command, Commands
<1>3. \E op \in {"get", "put"}, form \in Forms :
        /\ Ask(Command(op, form, t, {<<b, l>>}))
        /\ queue' = Append(queue, Command(op, form, t, {<<b, l>>}))
        /\ UNCHANGED waiting \/ Wait("any", uiMask(t), {t})
  <2>1. "get" \in {"get", "put"} /\ "put" \in {"get", "put"}
        /\ "plain" \in Forms /\ "fence" \in Forms /\ "barrier" \in Forms
    BY DEF Forms
  <2> QED BY <2>1, ZenonT(60) DEF CallOne, dmaGet, dmaGetb, dmaGetf, dmaPut, dmaPutb, dmaPutf,
        atomicqPutuc, dmaGetnWait, dmaPutnWait, mfc
<1> QED BY <1>2, <1>3 DEF Starts

(* So does every form of a list transfer.                                  *)
LEMMA CallListStarts ==
  ASSUME NEW n \in 1 .. Places, NEW t \in Tags, CallList(n, t)
  PROVE  \E c \in Commands : Starts(c)
<1>1. PICK pairs \in SUBSET (Index \X Index) :
        pairs = Elements(n) /\ pairs = {<<i, i>> : i \in 0 .. (n - 1)}
  BY ElementsOfList
<1>2. \A op \in {"get", "put"}, form \in Forms :
        Command(op, form, t, pairs) \in Commands
  BY DEF Command, Commands
<1>3. \E op \in {"get", "put"}, form \in Forms :
        /\ Ask(Command(op, form, t, pairs))
        /\ queue' = Append(queue, Command(op, form, t, pairs))
        /\ UNCHANGED waiting
  <2>1. "get" \in {"get", "put"} /\ "put" \in {"get", "put"}
        /\ "plain" \in Forms /\ "fence" \in Forms /\ "barrier" \in Forms
    BY DEF Forms
  <2> QED BY <1>1, <2>1, ZenonT(60) DEF CallList, dmaGetl, dmaGetlb, dmaGetlf, dmaPutl,
        dmaPutlb, dmaPutlf, mfc
<1> QED BY <1>2, <1>3 DEF Starts

-----------------------------------------------------------------------------
(* The inductive invariant.                                                *)

(* The commands that are left, carried out in order, lead from memory as   *)
(* it is to memory as the program means it.                                *)
DmaInv ==
  /\ TypeOK /\ LockInv /\ QueueInv /\ WaitInv
  /\ Replay(queue, mem, want)

(* The invariant holds at first.                                           *)
LEMMA InitDmaInv == Init => DmaInv
<1> SUFFICES ASSUME Init PROVE DmaInv
  OBVIOUS
<1>1. mem \in Memories /\ want = mem
  BY DEF Init, Memories, Values
<1>2. Replay(queue, mem, want)
  BY <1>1, ReplayEmpty DEF Init
<1>3. queue \in Seq(Commands) /\ Len(queue) = 0 /\ asked = queue
  BY DEF Init
<1>4. TypeOK
  <2>1. unwaited \in [Locs -> SUBSET Tags]
    BY DEF Init
  <2>2. waiting.mode = "none" /\ waiting.mask = 0 /\ waiting.told = {}
    BY DEF Init, Idle
  <2>3. calls = 0 /\ lock = 0 /\ copy = 0 /\ adds = 0 /\ reserved = "none"
    BY DEF Init
  <2> QED BY <1>1, <1>3, <2>1, <2>2, <2>3, MaxCallsAssumption, MaxAddsAssumption
          DEF TypeOK, Memories
<1>5. LockInv
  BY DEF Init, LockInv, NoAdditionLost
<1>6. QueueInv
  BY <1>3 DEF QueueInv
<1>7. WaitInv
  BY DEF Init, WaitInv, Idle
<1> QED BY <1>2, <1>4, <1>5, <1>6, <1>7 DEF DmaInv

(* What the type invariant says of memory and of the queue.                *)
LEMMA DmaTypes ==
  ASSUME TypeOK
  PROVE  /\ queue \in Seq(Commands) /\ Len(queue) \in Nat
         /\ \A i \in 1 .. Len(queue) : queue[i] \in Commands
         /\ mem \in Memories /\ want \in Memories
         /\ unwaited \in [Locs -> SUBSET Tags]
BY DEF TypeOK, Memories

(* A call that starts a transfer keeps the invariant: the discipline of    *)
(* the program is what orders the new command behind those it conflicts    *)
(* with.                                                                   *)
LEMMA StartsKeepsDmaInv ==
  ASSUME DmaInv, NEW c \in Commands, Starts(c)
  PROVE  DmaInv'
<1>1. TypeOK /\ LockInv /\ QueueInv /\ WaitInv /\ Replay(queue, mem, want)
  BY DEF DmaInv
<1>2. PICK n \in Nat : n = Len(queue)
  BY <1>1, DmaTypes
<1>3. /\ queue' = Append(queue, c) /\ queue' \in Seq(Commands) /\ Len(queue') = n + 1
      /\ queue'[n + 1] = c /\ \A i \in 1 .. n : queue'[i] = queue[i]
  BY <1>1, <1>2, DmaTypes, AppendProperties DEF Starts
<1>4. asked' = queue'
  BY <1>1, <1>3 DEF QueueInv, Starts, Ask
<1>5. mem' = mem /\ want' = Transfer(want, c) /\ want' \in Memories
  BY <1>1, DmaTypes, TransferType DEF Starts, Ask
<1>6. lock' = lock /\ copy' = copy /\ reserved' = reserved /\ adds' = adds
  BY DEF Starts, Ask, lockVars
<1>7. calls < MaxCalls /\ calls' = calls + 1
  BY DEF Starts, Ask
<1>8. /\ unwaited' \in [Locs -> SUBSET Tags]
      /\ \A x \in Locs : unwaited[x] \subseteq unwaited'[x]
      /\ \A x \in Source(c) \cup Target(c) : c.tag \in unwaited'[x]
  <2>1. unwaited' = [x \in Locs |-> IF x \in Source(c) \cup Target(c)
                                      THEN unwaited[x] \cup {c.tag} ELSE unwaited[x]]
    BY DEF Starts, Ask
  <2>2. c.tag \in Tags
    BY DEF Commands
  <2>3. Source(c) \cup Target(c) \subseteq Locs
    BY TouchesPlaces
  <2> QED BY <1>1, <2>1, <2>2, <2>3, DmaTypes
<1>9. Replay(queue, mem, want)'
  <2>1. Replay(Append(queue, c), mem, Transfer(want, c))
    BY <1>1, DmaTypes, ReplayAppend
  <2> QED BY <2>1, <1>3, <1>5
<1>10. /\ waiting'.mode \in {"none", "all", "any"} /\ waiting'.mask \in Nat
       /\ waiting'.told \subseteq Tags
       /\ WaitInv'
  <2>1. CASE UNCHANGED waiting
    BY <1>1, <2>1 DEF TypeOK, WaitInv
  <2>2. ASSUME NEW t \in Tags, Wait("any", uiMask(t), {t})
        PROVE  /\ waiting'.mode \in {"none", "all", "any"} /\ waiting'.mask \in Nat
               /\ waiting'.told \subseteq Tags
               /\ WaitInv'
    <3>1. waiting' = [mode |-> "any", mask |-> uiMask(t), told |-> {t}]
      BY <2>2 DEF Wait
    <3>2. waiting'.mode = "any" /\ waiting'.mask = uiMask(t) /\ waiting'.told = {t}
      BY <3>1
    <3> QED BY <3>2, MaskOfTag DEF WaitInv
  <2> QED BY <2>1, <2>2 DEF Starts
<1>11. TypeOK'
  <2>1. calls' \in 0 .. MaxCalls /\ n + 1 <= calls'
    BY <1>1, <1>2, <1>7, MaxCallsAssumption DEF TypeOK
  <2>2. asked' \in Seq(Commands) /\ Len(asked') = Len(queue') /\ Len(queue') <= calls'
    BY <1>3, <1>4, <2>1
  <2>3. mem' \in [Locs -> Values] /\ want' \in [Locs -> Values]
    BY <1>1, <1>5 DEF TypeOK, Memories
  <2>4. lock' \in 0 .. MaxAdds /\ copy' \in 0 .. MaxAdds
        /\ reserved' \in {"none", "held", "lost"} /\ adds' \in 0 .. MaxAdds
    BY <1>1, <1>6 DEF TypeOK
  <2> QED BY <1>3, <1>8, <1>10, <2>1, <2>2, <2>3, <2>4 DEF TypeOK
<1>12. LockInv'
  BY <1>1, <1>6 DEF LockInv, NoAdditionLost
<1>13. QueueInv'
  <2>1. ASSUME NEW i \in 1 .. (n + 1), NEW j \in 1 .. (n + 1),
               i < j, Conflict(queue'[i], queue'[j])
        PROVE  Ordered(queue', i, j)
    <3>0. i \in 1 .. n /\ queue'[i] = queue[i]
      BY <2>1, <1>3
    <3>1. CASE j = n + 1
      <4>1. /\ queue[i].tag = c.tag
            /\ \/ c.form # "plain"
               \/ \E k \in i .. n : queue[k].form = "barrier" /\ queue[k].tag = c.tag
        <5>1. asked = queue
          BY <1>1 DEF QueueInv
        <5>2. i \in 1 .. Len(asked) /\ Conflict(asked[i], c)
          BY <1>2, <1>3, <2>1, <3>0, <3>1, <5>1
        <5> QED BY <1>2, <5>1, <5>2 DEF Starts, Ask
      <4>2. queue'[j] = c /\ j - 1 = n
        BY <1>3, <3>1
      <4>3. \A k \in i .. n : queue'[k] = queue[k]
        BY <1>3, <3>0
      <4> QED BY <3>0, <4>1, <4>2, <4>3 DEF Ordered
    <3>2. CASE j # n + 1
      <4>1. j \in 1 .. n /\ queue'[j] = queue[j]
        BY <3>2, <1>3
      <4>2. Ordered(queue, i, j)
        BY <1>1, <1>2, <2>1, <3>0, <4>1 DEF QueueInv
      <4>3. \A k \in i .. (j - 1) : queue'[k] = queue[k]
        BY <1>3, <3>0, <4>1
      <4> QED BY <3>0, <4>1, <4>2, <4>3 DEF Ordered
    <3> QED BY <3>1, <3>2
  <2>2. ASSUME NEW i \in 1 .. (n + 1), NEW x \in Source(queue'[i]) \cup Target(queue'[i])
        PROVE  queue'[i].tag \in unwaited'[x]
    <3>1. CASE i = n + 1
      BY <3>1, <1>3, <1>8
    <3>2. CASE i # n + 1
      <4>1. i \in 1 .. n /\ queue'[i] = queue[i]
        BY <3>2, <1>3
      <4>2. queue[i].tag \in unwaited[x]
        BY <4>1, <1>1, <1>2 DEF QueueInv
      <4>3. x \in Locs
        <5>1. queue[i] \in Commands
          BY <4>1, <1>1, <1>2, DmaTypes
        <5> QED BY <4>1, <5>1, TouchesPlaces
      <4> QED BY <4>1, <4>2, <4>3, <1>8
    <3> QED BY <3>1, <3>2
  <2> QED BY <1>3, <1>4, <2>1, <2>2 DEF QueueInv
<1> QED BY <1>9, <1>10, <1>11, <1>12, <1>13 DEF DmaInv

(* The MFC takes a command only when it conflicts with no earlier one.     *)
LEMMA TakenInOrder ==
  ASSUME TypeOK, QueueInv, NEW r \in 1 .. Len(queue), MfcCommand(r)
  PROVE  \A i \in 1 .. (r - 1) : ~Conflict(queue[i], queue[r])
<1> SUFFICES ASSUME NEW i \in 1 .. (r - 1), Conflict(queue[i], queue[r])
             PROVE  FALSE
  OBVIOUS
<1>1. PICK n \in Nat : n = Len(queue)
  BY DmaTypes
<1>2. i \in 1 .. Len(queue) /\ i < r
  BY <1>1
<1>3. Ordered(queue, i, r)
  BY <1>2 DEF QueueInv
<1>4. \A j \in 1 .. (r - 1) :
        queue[j].tag = queue[r].tag =>
          queue[r].form = "plain" /\ queue[j].form # "barrier"
  BY DEF MfcCommand
<1>5. PICK k \in i .. (r - 1) : queue[k].form = "barrier" /\ queue[k].tag = queue[r].tag
  BY <1>3, <1>4 DEF Ordered
<1>6. k \in 1 .. (r - 1)
  BY <1>1
<1> QED BY <1>4, <1>5, <1>6

(* So carrying it out keeps the invariant.  A barrier that keeps two other *)
(* commands in order is not taken before the first of them.                *)
LEMMA MfcCommandKeepsDmaInv ==
  ASSUME DmaInv, NEW r \in 1 .. Len(queue), MfcCommand(r)
  PROVE  DmaInv'
<1>1. TypeOK /\ LockInv /\ QueueInv /\ WaitInv /\ Replay(queue, mem, want)
  BY DEF DmaInv
<1>2. PICK n \in Nat : n = Len(queue)
  BY <1>1, DmaTypes
<1>3. /\ queue' = RemoveAt(queue, r) /\ queue' \in Seq(Commands) /\ Len(queue') = n - 1
      /\ \A i \in 1 .. (n - 1) : queue'[i] = IF i < r THEN queue[i] ELSE queue[i + 1]
  BY <1>1, <1>2, DmaTypes, RemoveAtProperties DEF MfcCommand
<1>4. asked' = queue'
  BY <1>1 DEF QueueInv, MfcCommand
<1>5. mem' = Transfer(mem, queue[r]) /\ mem' \in Memories
  BY <1>1, DmaTypes, TransferType DEF MfcCommand
<1>6. /\ want' = want /\ waiting' = waiting /\ calls' = calls /\ unwaited' = unwaited
      /\ lock' = lock /\ copy' = copy /\ reserved' = reserved /\ adds' = adds
  BY DEF MfcCommand, lockVars
<1>7. r \in 1 .. n
  BY <1>2
<1>8. Replay(queue, mem, want)'
  <2>1. Replay(RemoveAt(queue, r), Transfer(mem, queue[r]), want)
    BY <1>1, DmaTypes, TakenInOrder, ReplayRemove
  <2> QED BY <2>1, <1>3, <1>5, <1>6
<1>9. TypeOK'
  <2>1. asked' \in Seq(Commands) /\ Len(asked') = Len(queue') /\ Len(queue') <= calls'
    BY <1>1, <1>2, <1>3, <1>4, <1>6 DEF TypeOK
  <2>2. mem' \in [Locs -> Values]
    BY <1>5 DEF Memories
  <2> QED BY <1>1, <1>3, <1>6, <2>1, <2>2 DEF TypeOK
<1>10. LockInv'
  BY <1>1, <1>6 DEF LockInv, NoAdditionLost
<1>11. WaitInv'
  BY <1>1, <1>6 DEF WaitInv
<1>12. QueueInv'
  <2> DEFINE old(i) == IF i < r THEN i ELSE i + 1
  <2>1. ASSUME NEW i \in 1 .. (n - 1)
        PROVE  old(i) \in 1 .. n /\ queue'[i] = queue[old(i)] /\ old(i) # r
    BY <1>3, <1>7
  <2>2. ASSUME NEW i \in 1 .. (n - 1), NEW j \in 1 .. (n - 1),
               i < j, Conflict(queue'[i], queue'[j])
        PROVE  Ordered(queue', i, j)
    <3>1. old(i) < old(j)
      BY <2>2, <1>7
    <3>2. Ordered(queue, old(i), old(j))
      <4>1. Conflict(queue[old(i)], queue[old(j)])
        BY <2>1, <2>2
      <4>2. old(i) \in 1 .. n /\ old(j) \in 1 .. n
        BY <2>1
      <4> HIDE DEF old
      <4> QED BY <1>1, <1>2, <3>1, <4>1, <4>2 DEF QueueInv
    <3>3. queue'[i].tag = queue'[j].tag
      BY <2>1, <3>2 DEF Ordered
    <3>4. ASSUME queue'[j].form = "plain"
          PROVE  \E k \in i .. (j - 1) :
                   queue'[k].form = "barrier" /\ queue'[k].tag = queue'[j].tag
      <4>1. PICK k \in old(i) .. (old(j) - 1) :
              queue[k].form = "barrier" /\ queue[k].tag = queue[old(j)].tag
        <5>1. queue[old(j)].form = "plain"
          BY <2>1, <3>4
        <5> HIDE DEF old
        <5> QED BY <3>2, <5>1 DEF Ordered
      <4>2. k # r
        <5>1. SUFFICES ASSUME k = r PROVE FALSE
          OBVIOUS
        <5>2. old(i) = i /\ i \in 1 .. (r - 1)
          BY <5>1, <2>1, <1>7
        <5>3. queue[i].tag = queue[r].tag
          <6>1. queue'[i] = queue[old(i)] /\ queue'[j] = queue[old(j)]
            BY <2>1
          <6> HIDE DEF old
          <6> QED BY <3>3, <4>1, <5>1, <5>2, <6>1
        <5> QED BY <4>1, <5>1, <5>2, <5>3 DEF MfcCommand
      <4> DEFINE new == IF k < r THEN k ELSE k - 1
      <4>3. new \in i .. (j - 1) /\ new \in 1 .. (n - 1) /\ old(new) = k
        BY <4>2, <1>7
      <4>4. queue'[new] = queue[k]
        BY <4>3, <2>1
      <4>5. queue'[j].tag = queue[old(j)].tag
        BY <2>1
      <4> HIDE DEF new, old
      <4> QED BY <4>1, <4>3, <4>4, <4>5
    <3> QED BY <3>3, <3>4 DEF Ordered
  <2>3. ASSUME NEW i \in 1 .. (n - 1), NEW x \in Source(queue'[i]) \cup Target(queue'[i])
        PROVE  queue'[i].tag \in unwaited'[x]
    <3>1. old(i) \in 1 .. Len(queue) /\ queue'[i] = queue[old(i)]
      BY <2>1, <1>2
    <3> HIDE DEF old
    <3> QED BY <3>1, <1>1, <1>6 DEF QueueInv
  <2> QED BY <1>3, <1>4, <2>2, <2>3 DEF QueueInv
<1> QED BY <1>8, <1>9, <1>10, <1>11, <1>12 DEF DmaInv

(* A wait that begins keeps the invariant.                                 *)
LEMMA CallWaitKeepsDmaInv ==
  ASSUME DmaInv, CallWait
  PROVE  DmaInv'
<1>1. TypeOK /\ LockInv /\ QueueInv /\ WaitInv /\ Replay(queue, mem, want)
  BY DEF DmaInv
<1>2. /\ queue' = queue /\ mem' = mem /\ calls' = calls /\ asked' = asked
      /\ want' = want /\ unwaited' = unwaited
      /\ lock' = lock /\ copy' = copy /\ reserved' = reserved /\ adds' = adds
  BY DEF CallWait, lockVars
<1>3. \E mode \in {"all", "any"}, mask \in Nat, told \in SUBSET Tags :
        /\ waiting' = [mode |-> mode, mask |-> mask, told |-> told]
        /\ told = {} \/ (mode = "all" /\ told \subseteq InMask(mask))
  <2> DEFINE Begins ==
        \E mode \in {"all", "any"}, mask \in Nat, told \in SUBSET Tags :
          /\ waiting' = [mode |-> mode, mask |-> mask, told |-> told]
          /\ told = {} \/ (mode = "all" /\ told \subseteq InMask(mask))
  <2>1. ASSUME NEW t \in Tags, dmaWaitTag(t) PROVE Begins
    <3>1. waiting' = [mode |-> "all", mask |-> uiMask(t), told |-> {t}]
      BY <2>1 DEF dmaWaitTag, Wait
    <3>2. uiMask(t) \in Nat /\ {t} \in SUBSET Tags /\ {t} \subseteq InMask(uiMask(t))
      BY MaskOfTag
    <3> QED BY <3>1, <3>2
  <2>2. ASSUME NEW mask \in Masks, dmaWaitAll(mask) \/ dmaWaitAny(mask) PROVE Begins
    <3>1. mask \in Nat
      BY MasksAssumption
    <3>2. \/ waiting' = [mode |-> "all", mask |-> mask, told |-> InMask(mask) \cap Tags]
          \/ waiting' = [mode |-> "any", mask |-> mask, told |-> {}]
      BY <2>2 DEF dmaWaitAll, dmaWaitAny, Wait
    <3>3. InMask(mask) \cap Tags \in SUBSET Tags /\ {} \in SUBSET Tags
          /\ InMask(mask) \cap Tags \subseteq InMask(mask)
      OBVIOUS
    <3> QED BY <3>1, <3>2, <3>3
  <2> QED BY <2>1, <2>2 DEF CallWait
<1>4. /\ waiting'.mode \in {"none", "all", "any"} /\ waiting'.mask \in Nat
      /\ waiting'.told \subseteq Tags
      /\ WaitInv'
  BY <1>3 DEF WaitInv
<1>5. TypeOK'
  BY <1>1, <1>2, <1>4 DEF TypeOK
<1>6. LockInv' /\ QueueInv' /\ Replay(queue, mem, want)'
  BY <1>1, <1>2 DEF LockInv, NoAdditionLost, QueueInv, Ordered
<1> QED BY <1>4, <1>5, <1>6 DEF DmaInv

(* When the read of the tag status returns, the tags that the program      *)
(* takes for done have no command in the queue.                            *)
LEMMA TagStatusKeepsDmaInv ==
  ASSUME DmaInv, TagStatus
  PROVE  DmaInv'
<1>1. TypeOK /\ LockInv /\ QueueInv /\ WaitInv /\ Replay(queue, mem, want)
  BY DEF DmaInv
<1>2. /\ queue' = queue /\ mem' = mem /\ calls' = calls /\ asked' = asked
      /\ want' = want /\ waiting' = Idle
      /\ lock' = lock /\ copy' = copy /\ reserved' = reserved /\ adds' = adds
  BY DEF TagStatus, lockVars
<1>3. /\ unwaited' \in [Locs -> SUBSET Tags]
      /\ \A x \in Locs : unwaited'[x] = unwaited[x] \ waiting.told
  <2>1. unwaited' = [x \in Locs |-> unwaited[x] \ waiting.told]
    BY DEF TagStatus
  <2> QED BY <1>1, <2>1, DmaTypes
<1>4. \A t \in waiting.told : ~Outstanding(t)
  <2>1. \/ waiting.mode = "all" /\ \A t \in InMask(waiting.mask) : ~Outstanding(t)
        \/ waiting.mode = "any" /\ \E t \in InMask(waiting.mask) : ~Outstanding(t)
    BY DEF TagStatus
  <2> QED BY <1>1, <2>1 DEF WaitInv
<1>5. /\ waiting'.mode = "none" /\ waiting'.mask = 0 /\ waiting'.told = {}
  BY <1>2 DEF Idle
<1>6. TypeOK'
  BY <1>1, <1>2, <1>3, <1>5 DEF TypeOK
<1>7. LockInv' /\ WaitInv' /\ Replay(queue, mem, want)'
  BY <1>1, <1>2, <1>5 DEF LockInv, NoAdditionLost, WaitInv
<1>8. QueueInv'
  <2>1. ASSUME NEW i \in 1 .. Len(queue), NEW x \in Source(queue[i]) \cup Target(queue[i])
        PROVE  queue[i].tag \in unwaited'[x]
    <3>1. queue[i].tag \in unwaited[x]
      BY <1>1 DEF QueueInv
    <3>2. queue[i].tag \notin waiting.told
      BY <1>4 DEF Outstanding
    <3>3. x \in Locs
      BY <1>1, DmaTypes, TouchesPlaces
    <3> QED BY <1>3, <3>1, <3>2, <3>3
  <2> QED BY <1>1, <1>2, <2>1 DEF QueueInv, Ordered
<1> QED BY <1>6, <1>7, <1>8 DEF DmaInv

(* The program computes in a buffer that no command can touch.             *)
LEMMA ComputeKeepsDmaInv ==
  ASSUME DmaInv, NEW i \in Index, Compute(i)
  PROVE  DmaInv'
<1>1. TypeOK /\ LockInv /\ QueueInv /\ WaitInv /\ Replay(queue, mem, want)
  BY DEF DmaInv
<1>2. /\ queue' = queue /\ waiting' = waiting /\ calls' = calls /\ asked' = asked
      /\ unwaited' = unwaited
      /\ lock' = lock /\ copy' = copy /\ reserved' = reserved /\ adds' = adds
  BY DEF Compute, lockVars
<1>3. /\ mem' = [mem EXCEPT ![Ls(i)] = Computed]
      /\ want' = [want EXCEPT ![Ls(i)] = Computed]
      /\ unwaited[Ls(i)] = {}
  BY DEF Compute
<1>4. Ls(i) \in Locs /\ Computed \in Values
  BY DEF Ls, Locs, Values
<1>5. \A j \in 1 .. Len(queue) : Ls(i) \notin Source(queue[j]) \cup Target(queue[j])
  BY <1>1, <1>3 DEF QueueInv
<1>6. Replay(queue, mem, want)'
  <2>1. Replay(queue, [mem EXCEPT ![Ls(i)] = Computed], [want EXCEPT ![Ls(i)] = Computed])
    BY <1>1, <1>4, <1>5, DmaTypes, ReplayStore
  <2> QED BY <2>1, <1>2, <1>3
<1>7. mem' \in [Locs -> Values] /\ want' \in [Locs -> Values]
  BY <1>1, <1>3, <1>4 DEF TypeOK
<1>8. TypeOK'
  BY <1>1, <1>2, <1>7 DEF TypeOK
<1>9. LockInv' /\ WaitInv' /\ QueueInv'
  BY <1>1, <1>2 DEF LockInv, NoAdditionLost, WaitInv, QueueInv, Ordered
<1> QED BY <1>6, <1>8, <1>9 DEF DmaInv

(* The steps that change the lock line: the conditional store adds to the  *)
(* line as it was read only when nobody has stored meanwhile.              *)
LEMMA LockKeepsDmaInv ==
  ASSUME DmaInv, atomicGet \/ atomicPutc \/ atomicPutuc \/ OtherAdds
  PROVE  DmaInv'
<1>1. TypeOK /\ LockInv /\ QueueInv /\ WaitInv /\ Replay(queue, mem, want)
  BY DEF DmaInv
<1>2. /\ queue' = queue /\ mem' = mem /\ waiting' = waiting /\ calls' = calls
      /\ asked' = asked /\ want' = want /\ unwaited' = unwaited
  BY DEF atomicGet, atomicPutc, atomicPutuc, OtherAdds, dmaVars
<1>3. /\ lock' \in 0 .. MaxAdds /\ copy' \in 0 .. MaxAdds /\ adds' \in 0 .. MaxAdds
      /\ reserved' \in {"none", "held", "lost"}
      /\ LockInv'
  <2>1. /\ lock \in 0 .. MaxAdds /\ copy \in 0 .. MaxAdds /\ adds \in 0 .. MaxAdds
        /\ reserved \in {"none", "held", "lost"} /\ lock = adds
        /\ reserved = "held" => copy = lock /\ adds < MaxAdds
    BY <1>1 DEF TypeOK, LockInv, NoAdditionLost
  <2>2. CASE atomicGet
    BY <2>1, <2>2, MaxAddsAssumption DEF atomicGet, LockInv, NoAdditionLost
  <2>3. CASE atomicPutc
    BY <2>1, <2>3, MaxAddsAssumption
    DEF atomicPutc, PutcStatus, MFC_PUTLLC_STATUS, LockInv, NoAdditionLost
  <2>4. CASE atomicPutuc
    BY <2>1, <2>4, MaxAddsAssumption DEF atomicPutuc, LockInv, NoAdditionLost
  <2>5. CASE OtherAdds
    BY <2>1, <2>5, MaxAddsAssumption DEF OtherAdds, LockInv, NoAdditionLost
  <2> QED BY <2>2, <2>3, <2>4, <2>5
<1>4. TypeOK'
  BY <1>1, <1>2, <1>3 DEF TypeOK
<1>5. WaitInv' /\ QueueInv' /\ Replay(queue, mem, want)'
  BY <1>1, <1>2 DEF WaitInv, QueueInv, Ordered
<1> QED BY <1>3, <1>4, <1>5 DEF DmaInv

(* A step that changes nothing keeps the invariant.                        *)
LEMMA StutterKeepsDmaInv ==
  ASSUME DmaInv, UNCHANGED vars
  PROVE  DmaInv'
<1>1. /\ queue' = queue /\ mem' = mem /\ waiting' = waiting /\ calls' = calls
      /\ asked' = asked /\ want' = want /\ unwaited' = unwaited
      /\ lock' = lock /\ copy' = copy /\ reserved' = reserved /\ adds' = adds
  BY DEF vars, dmaVars, lockVars
<1> QED BY <1>1 DEF DmaInv, TypeOK, LockInv, NoAdditionLost, QueueInv, Ordered, WaitInv

(* The invariant is inductive: transfers, waits, the MFC, the computations *)
(* of the program and the users of the lock line, in any order.            *)
THEOREM DmaInvariant == Spec => []DmaInv
<1>1. Init => DmaInv
  BY InitDmaInv
<1>2. DmaInv /\ [Next]_vars => DmaInv'
  <2> SUFFICES ASSUME DmaInv, [Next]_vars PROVE DmaInv'
    OBVIOUS
  <2>1. ASSUME NEW b \in Index, NEW l \in Addresses, NEW t \in Tags, CallOne(b, l, t)
        PROVE  DmaInv'
    BY <2>1, CallOneStarts, StartsKeepsDmaInv
  <2>2. ASSUME NEW n \in 1 .. Places, NEW t \in Tags, CallList(n, t)
        PROVE  DmaInv'
    BY <2>2, CallListStarts, StartsKeepsDmaInv
  <2>3. CASE CallWait
    BY <2>3, CallWaitKeepsDmaInv
  <2>4. ASSUME NEW i \in Index, Compute(i) PROVE DmaInv'
    BY <2>4, ComputeKeepsDmaInv
  <2>5. CASE TagStatus
    BY <2>5, TagStatusKeepsDmaInv
  <2>6. ASSUME NEW i \in 1 .. Len(queue), MfcCommand(i) PROVE DmaInv'
    BY <2>6, MfcCommandKeepsDmaInv
  <2>7. CASE atomicGet \/ atomicPutc \/ atomicPutuc \/ OtherAdds
    BY <2>7, LockKeepsDmaInv
  <2>8. CASE UNCHANGED vars
    BY <2>8, StutterKeepsDmaInv
  <2> QED BY <2>1, <2>2, <2>3, <2>4, <2>5, <2>6, <2>7, <2>8 DEF Next, Calls
<1> QED BY <1>1, <1>2, PTL DEF Spec

-----------------------------------------------------------------------------
(* The variables stay within their types; in particular the bounds on the  *)
(* calls and on the additions are never passed.                            *)
THEOREM DmaTypeCorrect == Spec => []TypeOK
<1>1. DmaInv => TypeOK
  BY DEF DmaInv
<1> QED BY <1>1, DmaInvariant, PTL

(* atomicGet and atomicPutc lose no addition to the lock line, whoever     *)
(* adds in between.                                                        *)
THEOREM AdditionsKept == Spec => []NoAdditionLost
<1>1. DmaInv => NoAdditionLost
  BY DEF DmaInv, LockInv
<1> QED BY <1>1, DmaInvariant, PTL

(* A place that the program has waited for, by dmaWaitTag, dmaWaitAll,     *)
(* dmaGetnWait or dmaPutnWait, holds what it would hold had the calls been *)
(* carried out at once, and the MFC does not touch it any more.            *)
THEOREM WaitingIsEnough == Spec => []WaitedIsDone
<1>1. DmaInv => WaitedIsDone
  <2> SUFFICES ASSUME DmaInv, NEW x \in Locs, unwaited[x] = {}
               PROVE  /\ mem[x] = want[x]
                      /\ \A i \in 1 .. Len(queue) :
                           x \notin Source(queue[i]) \cup Target(queue[i])
    BY DEF WaitedIsDone
  <2>1. TypeOK /\ QueueInv /\ Replay(queue, mem, want)
    BY DEF DmaInv
  <2>2. \A i \in 1 .. Len(queue) : x \notin Source(queue[i]) \cup Target(queue[i])
    BY <2>1 DEF QueueInv
  <2>3. mem[x] = want[x]
    <3>1. \A i \in 1 .. Len(queue) : x \notin Target(queue[i])
      BY <2>2
    <3>2. queue \in Seq(Commands)
      BY <2>1, DmaTypes
    <3> DEFINE q == queue
    <3>3. q \in Seq(Commands) /\ Replay(q, mem, want)
          /\ \A i \in 1 .. Len(q) : x \notin Target(q[i])
      BY <2>1, <3>1, <3>2
    <3> HIDE DEF q
    <3> QED BY ONLY <3>3, ReplayUntouched, x \in Locs, Zenon
  <2> QED BY <2>2, <2>3
<1> QED BY <1>1, DmaInvariant, PTL

(* Whatever order the MFC takes the commands in, memory ends up as if      *)
(* every call had been carried out at once: the fences and barriers keep   *)
(* what conflicts in order, and the rest may be exchanged.                 *)
THEOREM OrderNeverShows == Spec => []AsIfInOrder
<1>1. DmaInv => AsIfInOrder
  <2> SUFFICES ASSUME DmaInv, queue = << >> PROVE mem = want
    BY DEF AsIfInOrder
  <2>1. mem \in Memories /\ Replay(<< >>, mem, want)
    BY DmaTypes DEF DmaInv
  <2> QED BY <2>1, ReplayEmpty
<1> QED BY <1>1, DmaInvariant, PTL
=============================================================================
