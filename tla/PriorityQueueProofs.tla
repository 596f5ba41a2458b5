------------------------ MODULE PriorityQueueProofs -------------------------
(***************************************************************************)
(* Proofs about the priority queue, for any pointers, keys, initial sizes  *)
(* and any behaviour of the invalid free.                                  *)
(***************************************************************************)
EXTENDS PriorityQueue, TLAPS

HP == INSTANCE HeapOpsProofs

\* Arithmetic of a node's parent.
LEMMA Parent ==
  ASSUME NEW i \in Nat, i > 1
  PROVE  i \div 2 \in Nat /\ 1 <= i \div 2 /\ i \div 2 < i
  OBVIOUS

\* Swapping two elements keeps the length and moves nothing else.
LEMMA Swapping ==
  ASSUME NEW q \in Seq(Items), NEW i \in 1..Len(q), NEW j \in 1..Len(q)
  PROVE  /\ H!Swapped(q, i, j) \in Seq(Items)
         /\ Len(H!Swapped(q, i, j)) = Len(q)
         /\ \A k \in 1..Len(q) :
              H!Swapped(q, i, j)[k] = IF k = j THEN q[i] ELSE IF k = i THEN q[j] ELSE q[k]
  BY DEF H!Swapped

-----------------------------------------------------------------------------
(* Types and bounds *)

IndexInv ==
  /\ pc = "up" => op = "push" /\ index \in 1..Len(node)
  /\ pc = "down" => index \in Nat \ {0}
  /\ pc \in {"down", "shrink", "aborted"} => op = "pop"

BoundsInv == TypeOK /\ IndexInv /\ NoOverrun

LEMMA BoundsInit == Init => BoundsInv
  BY QueueAssumption DEF Init, BoundsInv, TypeOK, IndexInv, NoOverrun

LEMMA BoundsNext == BoundsInv /\ [Next]_vars => BoundsInv'
<1> SUFFICES ASSUME BoundsInv, [Next]_vars PROVE BoundsInv'
  OBVIOUS
<1> USE DEF BoundsInv, TypeOK, IndexInv, NoOverrun
<1>1. ASSUME NEW x \in Items, Push(x) PROVE BoundsInv'
  BY <1>1 DEF Push, Full, Grown, Resize, Call
<1>2. ASSUME Up PROVE BoundsInv'
  <2>1. CASE node' = node
    BY <1>2, <2>1 DEF Up
  <2>2. CASE index > 1 /\ node' = Swap(index, index \div 2) /\ index' = index \div 2 /\ pc' = pc
    <3>1. index \div 2 \in 1..Len(node)
      BY <1>2, <2>2, Parent DEF Up
    <3>2. node' \in Seq(Items) /\ Len(node') = Len(node)
      BY <1>2, <2>2, <3>1, Swapping DEF Up, Swap
    <3> QED
      BY <1>2, <2>2, <3>1, <3>2 DEF Up
  <2> QED
    BY <1>2, <2>1, <2>2 DEF Up
<1>3. ASSUME Pop PROVE BoundsInv'
  <2>1. Len(node) \in 1..Len(node) /\ 1 \in 1..Len(node) /\ node[1] \in Items
    BY <1>3 DEF Pop
  <2>2. Swap(1, Len(node)) \in Seq(Items) /\ Len(Swap(1, Len(node))) = Len(node)
    BY <2>1, Swapping DEF Swap
  <2>3. /\ SubSeq(Swap(1, Len(node)), 1, Len(node) - 1) \in Seq(Items)
        /\ Len(SubSeq(Swap(1, Len(node)), 1, Len(node) - 1)) = Len(node) - 1
    BY <2>1, <2>2
  <2>4. TopRemoved \in Seq(Items) /\ Len(TopRemoved) = Len(node) - 1
    BY <2>3 DEF TopRemoved
  <2>5. /\ op' = "pop" /\ arg' = node[1] /\ before' = node /\ max_size' = max_size /\ slots' = slots
        /\ \/ pc' = "aborted" /\ node' = node /\ index' = index
           \/ pc' = "down" /\ node' = TopRemoved /\ index' = 1
    BY <1>3 DEF Pop, Call
  <2>6. node' \in Seq(Items) /\ Len(node') < max_size'
    BY <2>1, <2>4, <2>5
  <2> QED
    BY <2>1, <2>5, <2>6
<1>4. ASSUME Down PROVE BoundsInv'
  <2>1. CASE node' = node
    BY <1>4, <2>1 DEF Down, H!Child
  <2>2. CASE 2 * index <= Len(node) /\ node' = Swap(2 * index, index) /\ index' = 2 * index /\ pc' = pc
    <3>1. 2 * index \in 1..Len(node) /\ index \in 1..Len(node)
      BY <1>4, <2>2 DEF Down
    <3>2. node' \in Seq(Items) /\ Len(node') = Len(node)
      BY <2>2, <3>1, Swapping DEF Swap
    <3> QED
      BY <1>4, <2>2, <3>1, <3>2 DEF Down
  <2> QED
    BY <1>4, <2>1, <2>2 DEF Down, H!Child
<1>5. ASSUME Shrink PROVE BoundsInv'
  BY <1>5 DEF Shrink, Resize
<1>6. CASE UNCHANGED vars
  BY <1>6 DEF vars
<1> QED
  BY <1>1, <1>2, <1>3, <1>4, <1>5, <1>6 DEF Next

\* Type correctness and the bounds of index hold of every behaviour.
THEOREM Bounded == Spec => []BoundsInv
  BY BoundsInit, BoundsNext, PTL DEF Spec

\* The array is never overrun, whatever max_size it was created with.
THEOREM NeverOverruns == Spec => []NoOverrun
<1>1. BoundsInv => NoOverrun
  BY DEF BoundsInv
<1> QED
  BY <1>1, Bounded, PTL

-----------------------------------------------------------------------------
(* Pushes keep the order of the heap *)

\* The heap is ordered but for element i, which may be before its parent; the
\* children of i, which were its parent's grandchildren, are not.
OrderedBut(q, i) ==
  /\ \A k \in 2..Len(q) : k # i => ~ Before(q[k], q[k \div 2])
  /\ i > 1 => \A k \in 2..Len(q) : k \div 2 = i => ~ Before(q[k], q[i \div 2])

OrderInv ==
  op = "push" /\ HeapOrdered(before) =>
    /\ pc = "up" => OrderedBut(node, index)
    /\ pc = "idle" => HeapOrdered(node)

LEMMA OrderInit == Init => OrderInv
  BY DEF Init, OrderInv

\* A new last element has no children, and disturbs nobody else's parent.
LEMMA OrderPush ==
  ASSUME BoundsInv, NEW x \in Items, Push(x)
  PROVE  OrderInv'
<1> SUFFICES ASSUME HeapOrdered(before')
             PROVE  pc' = "up" /\ OrderedBut(node', index')
  BY DEF OrderInv, Push
<1>1. /\ pc' = "up" /\ index' = Len(node) + 1 /\ before' = node
      /\ node' = Append(node, x) /\ node \in Seq(Items)
  BY DEF Push, Call, BoundsInv, TypeOK
<1>2. /\ Len(node') = Len(node) + 1 /\ Len(node) \in Nat
      /\ \A k \in 1..Len(node) : node'[k] = node[k]
  BY <1>1
<1>3. ASSUME NEW k \in 2..Len(node'), k # Len(node) + 1
      PROVE  ~ Before(node'[k], node'[k \div 2])
  <2>1. k \in 2..Len(node) /\ k \div 2 \in 1..Len(node)
    BY <1>2, <1>3, Parent
  <2> QED
    BY <1>1, <1>2, <2>1 DEF HeapOrdered
<1>4. ASSUME NEW k \in 2..Len(node') PROVE k \div 2 # Len(node) + 1
  BY <1>2, Parent
<1> QED
  BY <1>1, <1>3, <1>4 DEF OrderedBut

\* Transitivity and asymmetry of the comparator, in the form the loop needs.
LEMMA BeforeOrder ==
  ASSUME NEW x \in Items, NEW y \in Items, NEW z \in Items
  PROVE  /\ Before(x, y) => ~ Before(y, x)
         /\ ~ Before(x, y) /\ Before(z, y) => ~ Before(x, z)
         /\ ~ Before(x, y) /\ ~ Before(y, z) => ~ Before(x, z)
  BY QueueAssumption DEF Before, H!Before

\* One turn of the loop of priority_queue_up moves the exception to the parent.
LEMMA OrderSwap ==
  ASSUME NEW q \in Seq(Items), NEW i \in 2..Len(q),
         OrderedBut(q, i), Before(q[i], q[i \div 2])
  PROVE  OrderedBut(H!Swapped(q, i, i \div 2), i \div 2)
<1> DEFINE p == i \div 2
           r == H!Swapped(q, i, p)
<1>1. /\ p \in 1..Len(q) /\ i \in 1..Len(q) /\ p < i /\ Len(q) \in Nat
      /\ \A k \in 1..Len(q) : q[k] \in Items
  BY Parent
<1>2. /\ Len(r) = Len(q)
      /\ \A k \in 1..Len(q) : r[k] = IF k = p THEN q[i] ELSE IF k = i THEN q[p] ELSE q[k]
  <2>1. PICK a \in 1..Len(q), b \in 1..Len(q) : a = i /\ b = p
    BY <1>1
  <2>3. r = H!Swapped(q, a, b)
    BY <2>1
  <2> HIDE DEF r, p
  <2>4. Len(H!Swapped(q, a, b)) = Len(q)
    BY Swapping
  <2>2. \A k \in 1..Len(q) :
           H!Swapped(q, a, b)[k] = IF k = b THEN q[a] ELSE IF k = a THEN q[b] ELSE q[k]
    BY Swapping
  <2> QED
    BY <2>1, <2>2, <2>3, <2>4
<1> HIDE DEF r
<1> HIDE DEF p
<1>3. ASSUME NEW k \in 2..Len(q), k # p PROVE ~ Before(r[k], r[k \div 2])
  <2>1. k \div 2 \in 1..Len(q) /\ k \div 2 < k /\ k \in 1..Len(q)
    BY <1>1, Parent
  <2>2. CASE k = i
    BY <1>1, <1>2, <2>1, <2>2, BeforeOrder DEF p
  <2>3. CASE k # i /\ k \div 2 = i
    <3>1. ~ Before(q[k], q[p])
      BY <2>3 DEF OrderedBut, p
    <3> QED
      BY <1>1, <1>2, <1>3, <2>1, <2>3, <3>1
  <2>4. CASE k # i /\ k \div 2 = p
    <3>1. ~ Before(q[k], q[p])
      BY <2>4 DEF OrderedBut
    <3>2. ~ Before(q[k], q[i])
      BY <1>1, <2>1, <3>1, BeforeOrder DEF p
    <3> QED
      BY <1>1, <1>2, <1>3, <2>1, <2>4, <3>2
  <2>5. CASE k # i /\ k \div 2 # i /\ k \div 2 # p
    <3>1. ~ Before(q[k], q[k \div 2])
      BY <2>5 DEF OrderedBut
    <3> QED
      BY <1>1, <1>2, <1>3, <2>1, <2>5, <3>1
  <2> QED
    BY <2>2, <2>3, <2>4, <2>5
<1>4. ASSUME p > 1, NEW k \in 2..Len(q), k \div 2 = p PROVE ~ Before(r[k], r[p \div 2])
  <2>1. p \div 2 \in 1..Len(q) /\ p \div 2 < p /\ k \in 1..Len(q) /\ p < k
    BY <1>1, <1>4, Parent
  <2>2. r[p \div 2] = q[p \div 2] /\ ~ Before(q[p], q[p \div 2])
    BY <1>1, <1>2, <1>4, <2>1 DEF OrderedBut
  <2>3. CASE k = i
    BY <1>1, <1>2, <2>1, <2>2, <2>3
  <2>4. CASE k # i
    <3>1. ~ Before(q[k], q[p]) /\ r[k] = q[k]
      BY <1>2, <1>4, <2>1, <2>4 DEF OrderedBut
    <3> QED
      BY <1>1, <2>1, <2>2, <3>1, BeforeOrder
  <2> QED
    BY <2>3, <2>4
<1> QED
  BY <1>1, <1>2, <1>3, <1>4 DEF OrderedBut, p, r

\* The loop ends when the exception is none.
LEMMA OrderStop ==
  ASSUME NEW q \in Seq(Items), NEW i \in 1..Len(q), OrderedBut(q, i),
         i = 1 \/ ~ Before(q[i], q[i \div 2])
  PROVE  HeapOrdered(q)
  BY DEF OrderedBut, HeapOrdered

LEMMA OrderNext == BoundsInv /\ OrderInv /\ [Next]_vars => OrderInv'
<1> SUFFICES ASSUME BoundsInv, OrderInv, [Next]_vars PROVE OrderInv'
  OBVIOUS
<1>1. ASSUME NEW x \in Items, Push(x) PROVE OrderInv'
  BY <1>1, OrderPush
<1>2. ASSUME Up PROVE OrderInv'
  <2>1. node \in Seq(Items) /\ index \in 1..Len(node) /\ op = "push" /\ pc = "up"
    BY <1>2 DEF Up, BoundsInv, TypeOK, IndexInv
  <2>2. CASE index > 1 /\ Before(node[index], node[index \div 2])
    <3>1. node' = H!Swapped(node, index, index \div 2) /\ index' = index \div 2 /\ pc' = "up"
      BY <1>2, <2>2 DEF Up, Swap
    <3>2. index \in 2..Len(node)
      BY <2>1, <2>2
    <3>3. op' = op /\ before' = before
      BY <1>2 DEF Up
    <3>4. OrderedBut(node, index) => OrderedBut(node', index')
      BY <2>1, <2>2, <3>1, <3>2, OrderSwap
    <3> QED
      BY <2>1, <3>1, <3>3, <3>4 DEF OrderInv, HeapOrdered
  <2>3. CASE ~ (index > 1 /\ Before(node[index], node[index \div 2]))
    <3>1. node' = node /\ pc' = "idle" /\ op' = op /\ before' = before
      BY <1>2, <2>3 DEF Up
    <3>2. index = 1 \/ ~ Before(node[index], node[index \div 2])
      BY <2>1, <2>3
    <3>3. OrderedBut(node, index) => HeapOrdered(node)
      BY <2>1, <3>2, OrderStop
    <3> QED
      BY <2>1, <3>1, <3>3 DEF OrderInv, HeapOrdered
  <2> QED
    BY <2>2, <2>3
<1>3. ASSUME Pop \/ Down \/ Shrink PROVE OrderInv'
  BY <1>3 DEF Pop, Down, Shrink, Call, OrderInv, BoundsInv, IndexInv
<1>4. CASE UNCHANGED vars
  BY <1>4 DEF vars, OrderInv, OrderedBut, HeapOrdered
<1> QED
  BY <1>1, <1>2, <1>3, <1>4 DEF Next

\* A push that starts from an ordered heap leaves one, at any size and with any
\* keys: only pop breaks the order.
THEOREM PushesKeepOrder == Spec => []PushKeepsOrder
<1>1. OrderInv => PushKeepsOrder
  BY DEF OrderInv, PushKeepsOrder
<1> QED
  BY <1>1, OrderInit, OrderNext, Bounded, PTL DEF Spec

-----------------------------------------------------------------------------
(* Calls conserve the elements *)

\* The lemmas are about the same operators.
LEMMA SameOps ==
  /\ \A q : HP!Elements(q) = Elements(q)
  /\ \A q, i, j : HP!Swapped(q, i, j) = H!Swapped(q, i, j)
  BY DEF HP!Elements, Elements, HP!Swapped, H!Swapped

Distinct(q) == \A i, j \in DOMAIN q : q[i] = q[j] => i = j

LEMMA SameDistinct == \A q : HP!Distinct(q) <=> Distinct(q)
  BY DEF HP!Distinct, Distinct

\* From its first line on, a call has the elements it ends with.
ConserveInv ==
  /\ Distinct(node)
  /\ op = "push" => Elements(node) = Elements(before) \cup {arg}
  /\ op = "pop" /\ pc # "aborted" => Elements(node) = Elements(before) \ {arg}

LEMMA ConserveSwap ==
  ASSUME BoundsInv, ConserveInv, NEW i \in 1..Len(node), NEW j \in 1..Len(node),
         node' = Swap(i, j), UNCHANGED <<op, arg, before>>,
         pc # "aborted" /\ pc' # "aborted"
  PROVE  ConserveInv'
<1>1. node \in Seq(Items)
  BY DEF BoundsInv, TypeOK
<1>2. PICK r : r = H!Swapped(node, i, j)
  OBVIOUS
<1>3. HP!Elements(r) = HP!Elements(node) /\ (HP!Distinct(node) => HP!Distinct(r))
  BY <1>1, <1>2, SameOps, HP!Exchange
<1>4. Elements(r) = Elements(node) /\ (Distinct(node) => Distinct(r)) /\ node' = r
  BY <1>2, <1>3, SameOps, SameDistinct DEF Swap
<1>5. Elements(node') = Elements(node) /\ (Distinct(node) => Distinct(node'))
  BY <1>4
<1>6. Distinct(node)'
  BY <1>5 DEF ConserveInv, Distinct
<1>7. Elements(node)' = Elements(node)
  BY <1>5 DEF Elements
<1>8. Elements(before)' = Elements(before)
  BY DEF Elements
<1> QED
  BY <1>6, <1>7, <1>8 DEF ConserveInv

LEMMA ConserveNext == BoundsInv /\ ConserveInv /\ [Next]_vars => ConserveInv'
<1> SUFFICES ASSUME BoundsInv, ConserveInv, [Next]_vars PROVE ConserveInv'
  OBVIOUS
<1>1. node \in Seq(Items) /\ index \in Nat
  BY DEF BoundsInv, TypeOK
<1>2. ASSUME NEW x \in Items, Push(x) PROVE ConserveInv'
  <2>1. PICK r : r = Append(node, x)
    OBVIOUS
  <2>2. Elements(r) = Elements(node) \cup {x} /\ Distinct(r)
    <3>1. x \notin HP!Elements(node) /\ HP!Distinct(node)
      BY <1>2, SameOps, SameDistinct DEF Push, ConserveInv
    <3>2. Append(node, x) \in Seq(Items) /\ HP!Elements(Append(node, x)) = HP!Elements(node) \cup {x}
          /\ HP!Distinct(Append(node, x))
      BY <1>1, <3>1, HP!Appended
    <3> QED
      BY <2>1, <3>2, SameOps, SameDistinct
  <2>3. node' = r /\ op' = "push" /\ arg' = x /\ before' = node
    BY <1>2, <2>1 DEF Push, Call
  <2>4. Elements(node') = Elements(before') \cup {arg'} /\ Distinct(node')
    BY <2>2, <2>3
  <2> QED
    BY <2>3, <2>4 DEF ConserveInv, Distinct, Elements
<1>3. ASSUME Pop PROVE ConserveInv'
  <2>1. op' = "pop" /\ arg' = node[1] /\ before' = node /\ node # <<>>
    BY <1>3 DEF Pop, Call
  <2>2. CASE pc' = "aborted" /\ node' = node
    BY <2>1, <2>2 DEF ConserveInv, Distinct
  <2>3. CASE node' = TopRemoved /\ pc' = "down"
    <3>1. PICK r : r = HP!TopAway(node)
      OBVIOUS
    <3>2. Elements(r) = Elements(node) \ {node[1]} /\ Distinct(r)
      <4>1. HP!Distinct(node)
        BY SameDistinct DEF ConserveInv
      <4>2. HP!Elements(r) = HP!Elements(node) \ {node[1]} /\ HP!Distinct(r)
        BY <1>1, <2>1, <3>1, <4>1, HP!TakenAway
      <4> QED
        BY <4>2, SameOps, SameDistinct
    <3>3. node' = r
      BY <2>3, <3>1, SameOps DEF TopRemoved, Swap, HP!TopAway
    <3>4. Elements(node') = Elements(before') \ {arg'} /\ Distinct(node')
      BY <2>1, <3>2, <3>3
    <3> QED
      BY <2>1, <2>3, <3>4 DEF ConserveInv, Distinct, Elements
  <2> QED
    BY <1>3, <2>2, <2>3 DEF Pop
<1>4. ASSUME UNCHANGED <<node, op, arg, before>>, pc # "aborted" PROVE ConserveInv'
  BY <1>4 DEF ConserveInv, Distinct, Elements
<1>5. ASSUME Up PROVE ConserveInv'
  <2>1. CASE UNCHANGED node
    BY <1>4, <1>5, <2>1 DEF Up
  <2>2. CASE index > 1 /\ node' = Swap(index, index \div 2) /\ pc' = pc
    <3>1. index \in 1..Len(node) /\ index \div 2 \in 1..Len(node)
      BY <1>1, <1>5, <2>2, Parent DEF Up, BoundsInv, IndexInv
    <3> QED
      BY <1>5, <2>2, <3>1, ConserveSwap DEF Up
  <2> QED
    BY <1>5, <2>1, <2>2 DEF Up
<1>6. ASSUME Down PROVE ConserveInv'
  <2>1. CASE UNCHANGED node
    BY <1>4, <1>6, <2>1 DEF Down
  <2>2. CASE 2 * index <= Len(node) /\ node' = Swap(2 * index, index) /\ pc' = pc
    <3>1. 2 * index \in 1..Len(node) /\ index \in 1..Len(node)
      BY <1>1, <1>6, <2>2 DEF Down, BoundsInv, IndexInv
    <3> QED
      BY <1>6, <2>2, <3>1, ConserveSwap DEF Down
  <2> QED
    BY <1>6, <2>1, <2>2 DEF Down, H!Child
<1>7. ASSUME Shrink PROVE ConserveInv'
  BY <1>4, <1>7 DEF Shrink
<1>8. CASE UNCHANGED vars
  BY <1>8 DEF vars, ConserveInv, Distinct, Elements
<1> QED
  BY <1>2, <1>3, <1>5, <1>6, <1>7, <1>8 DEF Next

\* Every push adds its pointer and every pop takes the one it says away, with any
\* keys, at any size and however the array was resized: the loops lose nothing.
THEOREM NothingIsLost == Spec => []CallsConserve
<1>1. Init => ConserveInv
  BY DEF Init, ConserveInv, Distinct
<1>2. ConserveInv => CallsConserve
  BY DEF ConserveInv, CallsConserve, Distinct
<1> QED
  BY <1>1, <1>2, ConserveNext, Bounded, PTL DEF Spec

-----------------------------------------------------------------------------
(* The loops compute the operators of HeapOps *)

\* The operators the lemmas are about are those of the run.
LEMMA SameCalls ==
  /\ \A q, x : H!Push(Key, q, x) = HP!Up(Key, Append(q, x), Len(q) + 1)
  /\ \A q : H!Pop(Key, q) = HP!Down(Key, HP!TopAway(q), 1)
<1>1. \A q, i : H!Up(Key, q, i) = HP!Up(Key, q, i)
  BY DEF H!Up, HP!Up, H!Before, HP!Before, H!Swapped, HP!Swapped
<1>2. \A q, i : H!Down(Key, q, i) = HP!Down(Key, q, i)
  BY DEF H!Down, HP!Down, H!Before, HP!Before, H!Swapped, HP!Swapped, H!Child, HP!Child
<1> QED
  BY <1>1, <1>2, SameOps DEF H!Push, H!Pop, HP!TopAway

\* The array a push or a pop begins its loop with.
Pushed == Append(before, arg)

Popped == HP!TopAway(before)

\* After m turns a run is where the loop is.
UpReached ==
  \E up :
    /\ HP!UpRun(Key, Pushed, Len(before) + 1, up)
    /\ H!Push(Key, before, arg) = up[Len(before) + 1][1]
    /\ \E m \in 0..Len(before) : up[m] = <<node, index>> /\ m + index <= Len(before) + 1

DownReached ==
  \E down :
    /\ HP!DownRun(Key, Popped, 1, down)
    /\ H!Pop(Key, before) = down[Len(Popped)][1]
    /\ \E m \in 0..Len(Popped) : down[m] = <<node, index>> /\ m < index /\ Len(node) = Len(Popped)

ReachInv ==
  /\ pc = "up" => UpReached
  /\ pc = "down" => DownReached
  /\ pc = "shrink" => node = H!Pop(Key, before)
  /\ MatchesHeapOps

\* The first turn of a push.
LEMMA ReachPush ==
  ASSUME BoundsInv, NEW x \in Items, Push(x)
  PROVE  ReachInv'
<1>1. PICK n, r : n = Len(node) + 1 /\ r = Append(node, x)
  OBVIOUS
<1>2. node \in Seq(Items) /\ n \in Nat /\ r \in Seq(Items) /\ n \in 1..Len(r) /\ n - 1 = Len(node)
  BY <1>1 DEF BoundsInv, TypeOK
<1>3. /\ before' = node /\ arg' = x /\ op' = "push" /\ pc' = "up" /\ node' = r /\ index' = n
  BY <1>1 DEF Push, Call
<1>4. PICK up : HP!UpRun(Key, r, n, up) /\ HP!Up(Key, r, n) = up[n][1]
  BY <1>2, HP!UpHasRun
<1>5. H!Push(Key, node, x) = up[n][1]
  BY <1>1, <1>4, SameCalls
<1>6. up[0] = <<r, n>>
  BY <1>4 DEF HP!UpRun
<1>7. 0 \in 0..Len(node) /\ 0 + n <= Len(node) + 1
  BY <1>1, <1>2
<1>8. UpReached'
  <2>1. (Len(before) + 1)' = n /\ Pushed' = r /\ Len(before') = Len(node)
    BY <1>1, <1>3 DEF Pushed
  <2>2. HP!UpRun(Key, Pushed', Len(before') + 1, up)
    BY <1>4, <2>1
  <2> QED
    BY <1>1, <1>3, <1>5, <1>6, <1>7, <2>2 DEF UpReached, Pushed
<1> QED
  BY <1>3, <1>8 DEF ReachInv, MatchesHeapOps

\* The first turn of a pop.
LEMMA ReachPop ==
  ASSUME BoundsInv, Pop
  PROVE  ReachInv'
<1>1. node \in Seq(Items) /\ node # <<>> /\ before' = node /\ op' = "pop"
  BY DEF BoundsInv, TypeOK, Pop, Call
<1>2. CASE pc' = "aborted"
  BY <1>2 DEF ReachInv, MatchesHeapOps
<1>3. CASE node' = TopRemoved /\ pc' = "down" /\ index' = 1
  <2>1. PICK r : r = HP!TopAway(node)
    OBVIOUS
  <2>2. r \in Seq(Items) /\ Len(r) \in Nat /\ node' = r /\ Popped' = r
    <3>1. r \in Seq(Items)
      BY <1>1, <2>1, HP!TakenAway
    <3>2. TopRemoved = r
      BY <2>1, SameOps DEF TopRemoved, Swap, HP!TopAway
    <3>3. Popped' = r
      BY <1>1, <2>1 DEF Popped, HP!TopAway, HP!Swapped
    <3> QED
      BY <1>3, <3>1, <3>2, <3>3
  <2>3. PICK down : HP!DownRun(Key, r, 1, down) /\ HP!Down(Key, r, 1) = down[Len(r)][1]
    <3>1. 1 \in Nat \ {0}
      OBVIOUS
    <3> QED
      BY <2>2, <3>1, HP!DownHasRun
  <2>4. H!Pop(Key, node) = down[Len(r)][1]
    BY <2>1, <2>3, SameCalls
  <2>5. down[0] = <<r, 1>> /\ 0 \in 0..Len(r) /\ 0 < 1
    BY <2>2, <2>3 DEF HP!DownRun
  <2>6. DownReached'
    <3>1. HP!DownRun(Key, Popped', 1, down)
      BY <2>2, <2>3
    <3> QED
      BY <1>1, <1>3, <2>2, <2>4, <2>5, <3>1 DEF DownReached
  <2> QED
    BY <1>3, <2>6 DEF ReachInv, MatchesHeapOps
<1> QED
  BY <1>2, <1>3 DEF Pop

\* A turn of the loop of priority_queue_up is the next of the run, and when the
\* loop ends the turns the run has left change nothing.
LEMMA ReachUp ==
  ASSUME BoundsInv, ReachInv, Up
  PROVE  ReachInv'
<1>1. /\ pc = "up" /\ op = "push" /\ index \in 1..Len(node) /\ node \in Seq(Items)
      /\ before \in Seq(Items) /\ UNCHANGED <<op, arg, before>>
  BY DEF Up, BoundsInv, TypeOK, IndexInv
<1>2. PICK n \in Nat \ {0} : n = Len(before) + 1 /\ n - 1 = Len(before)
  BY <1>1
<1>3. PICK up : /\ HP!UpRun(Key, Pushed, n, up)
                /\ H!Push(Key, before, arg) = up[n][1]
                /\ \E m \in 0..(n - 1) : up[m] = <<node, index>> /\ m + index <= n
  BY <1>1, <1>2 DEF ReachInv, UpReached
<1>4. PICK m \in 0..(n - 1) : up[m] = <<node, index>> /\ m + index <= n
  BY <1>3
<1>5. m \in Nat /\ index \in Nat
  BY <1>1
<1>6. \A i \in 1..n : up[i] = HP!UpTurn(Key, up[i - 1])
  BY <1>3 DEF HP!UpRun
<1>7. CASE index > 1 /\ Before(node[index], node[index \div 2])
  <2>1. node' = Swap(index, index \div 2) /\ index' = index \div 2 /\ pc' = "up"
    BY <1>7 DEF Up
  <2>2. HP!UpTurn(Key, <<node, index>>) = <<node', index'>>
    BY <1>7, <2>1, SameOps DEF HP!UpTurn, HP!Before, Before, H!Before, Swap
  <2>3. /\ index \div 2 \in Nat /\ m + 1 \in 0..(n - 1) /\ m + 1 \in 1..n /\ (m + 1) - 1 = m
        /\ (m + 1) + index \div 2 <= n
    BY <1>4, <1>5, <1>7, Parent
  <2>4. up[m + 1] = <<node', index'>>
    BY <1>4, <1>6, <2>2, <2>3
  <2>5. \E l \in 0..(n - 1) : up[l] = <<node', index'>> /\ l + index' <= n
    BY <2>1, <2>3, <2>4
  <2>6. UpReached'
    BY <1>1, <1>2, <1>3, <2>5 DEF UpReached, Pushed
  <2> QED
    BY <2>1, <2>6 DEF ReachInv, MatchesHeapOps
<1>8. CASE ~ (index > 1 /\ Before(node[index], node[index \div 2]))
  <2>1. node' = node /\ pc' = "idle"
    BY <1>8 DEF Up
  <2>2. HP!UpTurn(Key, <<node, index>>) = <<node, index>>
    BY <1>8 DEF HP!UpTurn, HP!Before, Before, H!Before
  <2>3. ASSUME NEW i \in (m + 1)..n, up[i - 1] \in {<<node, index>>}
        PROVE  up[i] \in {<<node, index>>}
    <3>1. i \in 1..n
      BY <1>5
    <3> QED
      BY <1>6, <2>2, <2>3, <3>1
  <2>4. \A i \in m..n : up[i] \in {<<node, index>>}
    <3>1. PICK S : S = {<<node, index>>}
      OBVIOUS
    <3>2. up[m] \in S /\ \A i \in (m + 1)..n : up[i - 1] \in S => up[i] \in S
      BY <1>4, <2>3, <3>1
    <3>3. \A i \in m..n : up[i] \in S
      BY <1>5, <3>2, HP!Stays
    <3> QED
      BY <3>1, <3>3
  <2>5. up[n] = <<node, index>>
    BY <1>5, <2>4
  <2>6. node' = H!Push(Key, before', arg')
    BY <1>1, <1>3, <2>1, <2>5
  <2> QED
    BY <1>1, <2>1, <2>6 DEF ReachInv, MatchesHeapOps
<1> QED
  BY <1>7, <1>8

\* The same for priority_queue_down.
LEMMA ReachDown ==
  ASSUME BoundsInv, ReachInv, Down
  PROVE  ReachInv'
<1>1. /\ pc = "down" /\ op = "pop" /\ index \in Nat \ {0} /\ node \in Seq(Items)
      /\ UNCHANGED <<op, arg, before>>
  BY DEF Down, BoundsInv, TypeOK, IndexInv
<1>2. PICK n : n = Len(Popped)
  OBVIOUS
<1>3. PICK down : /\ HP!DownRun(Key, Popped, 1, down)
                  /\ H!Pop(Key, before) = down[n][1]
                  /\ \E m \in 0..n : down[m] = <<node, index>> /\ m < index /\ Len(node) = n
  BY <1>1, <1>2 DEF ReachInv, DownReached
<1>4. PICK m \in 0..n : down[m] = <<node, index>> /\ m < index /\ Len(node) = n
  BY <1>3
<1>5. n \in Nat /\ m \in Nat
  BY <1>1, <1>4
<1>6. \A i \in 1..n : down[i] = HP!DownTurn(Key, down[i - 1])
  BY <1>2, <1>3 DEF HP!DownRun
<1>7. CASE 2 * index <= Len(node) /\ Before(node[2 * index], node[index])
  <2>1. node' = Swap(2 * index, index) /\ index' = 2 * index /\ pc' = "down"
    BY <1>7 DEF Down, H!Child
  <2>2. HP!DownTurn(Key, <<node, index>>) = <<node', index'>>
    BY <1>7, <2>1, SameOps DEF HP!DownTurn, HP!Child, HP!Before, Before, H!Before, Swap
  <2>3. /\ m + 1 \in 0..n /\ m + 1 \in 1..n /\ (m + 1) - 1 = m /\ m + 1 < 2 * index
    BY <1>1, <1>4, <1>5, <1>7
  <2>4. down[m + 1] = <<node', index'>>
    BY <1>4, <1>6, <2>2, <2>3
  <2>5. Len(node') = n
    <3>1. 2 * index \in 1..Len(node) /\ index \in 1..Len(node)
      BY <1>1, <1>7
    <3> QED
      BY <1>1, <1>4, <2>1, <3>1, Swapping DEF Swap
  <2>6. \E l \in 0..n : down[l] = <<node', index'>> /\ l < index' /\ Len(node') = n
    BY <2>1, <2>3, <2>4, <2>5
  <2>7. DownReached'
    <3>1. Popped' = Popped
      BY <1>1 DEF Popped, HP!TopAway, HP!Swapped
    <3> QED
      BY <1>1, <1>2, <1>3, <2>6, <3>1 DEF DownReached
  <2> QED
    BY <2>1, <2>7 DEF ReachInv, MatchesHeapOps
<1>8. CASE ~ (2 * index <= Len(node) /\ Before(node[2 * index], node[index]))
  <2>1. node' = node /\ pc' = "shrink"
    BY <1>8 DEF Down, H!Child
  <2>2. HP!DownTurn(Key, <<node, index>>) = <<node, index>>
    BY <1>8 DEF HP!DownTurn, HP!Child, HP!Before, Before, H!Before
  <2>3. ASSUME NEW i \in (m + 1)..n, down[i - 1] \in {<<node, index>>}
        PROVE  down[i] \in {<<node, index>>}
    <3>1. i \in 1..n
      BY <1>5
    <3> QED
      BY <1>6, <2>2, <2>3, <3>1
  <2>4. \A i \in m..n : down[i] \in {<<node, index>>}
    <3>1. PICK S : S = {<<node, index>>}
      OBVIOUS
    <3>2. down[m] \in S /\ \A i \in (m + 1)..n : down[i - 1] \in S => down[i] \in S
      BY <1>4, <2>3, <3>1
    <3>3. \A i \in m..n : down[i] \in S
      BY <1>5, <3>2, HP!Stays
    <3> QED
      BY <3>1, <3>3
  <2>5. down[n] = <<node, index>>
    BY <1>4, <1>5, <2>4
  <2>6. node' = H!Pop(Key, before')
    BY <1>1, <1>3, <2>1, <2>5
  <2> QED
    BY <2>1, <2>6 DEF ReachInv, MatchesHeapOps
<1> QED
  BY <1>7, <1>8

LEMMA ReachNext == BoundsInv /\ ReachInv /\ [Next]_vars => ReachInv'
<1> SUFFICES ASSUME BoundsInv, ReachInv, [Next]_vars PROVE ReachInv'
  OBVIOUS
<1>1. ASSUME Shrink PROVE ReachInv'
  <2>1. /\ op = "pop" /\ pc = "shrink" /\ pc' = "idle" /\ node' = node
        /\ op' = op /\ before' = before
    BY <1>1 DEF Shrink, BoundsInv, IndexInv
  <2>2. node' = H!Pop(Key, before')
    BY <2>1 DEF ReachInv
  <2> QED
    BY <2>1, <2>2 DEF ReachInv, MatchesHeapOps
<1>2. CASE UNCHANGED vars
  <2>1. /\ node' = node /\ pc' = pc /\ index' = index /\ op' = op /\ arg' = arg
        /\ before' = before
    BY <1>2 DEF vars
  <2>2. Popped' = Popped
    BY <2>1 DEF Popped, HP!TopAway, HP!Swapped
  <2> QED
    BY <2>1, <2>2 DEF ReachInv, UpReached, DownReached, Pushed, MatchesHeapOps
<1> QED
  BY <1>1, <1>2, ReachPush, ReachPop, ReachUp, ReachDown DEF Next

\* The loops of push and pop, turn by turn, end with what the operators of HeapOps
\* say, which is what the timers are modelled with.
THEOREM LoopsComputeHeapOps == Spec => []MatchesHeapOps
<1>1. Init => ReachInv
  BY DEF Init, ReachInv, MatchesHeapOps
<1>2. ReachInv => MatchesHeapOps
  BY DEF ReachInv
<1> QED
  BY <1>1, <1>2, ReachNext, Bounded, PTL DEF Spec
=============================================================================
