--------------------------- MODULE PriorityQueue ----------------------------
(***************************************************************************)
(* The array heap of src/core/sgx_priority_queue.c with its loops: a step  *)
(* is one turn of a loop, or the straight code before or after it.         *)
(* node[1..size] is a sequence, so size is its length; slots is how many   *)
(* pointers the memory behind node has room for, slot 0 being unused.      *)
(*                                                                         *)
(* Line 152, free(node + size), gives free an address inside the array,    *)
(* which is undefined.  FreeOutcomes says what the C library does with it: *)
(* glibc ends the process ("abort"); an allocator that takes no notice of  *)
(* addresses it did not hand out goes on ("ignore").                       *)
(***************************************************************************)
EXTENDS Naturals, Sequences

CONSTANTS Items,         \* the pointers that are pushed
          Key,           \* what the comparator reads behind each pointer
          InitSizes,     \* the values of max_size given to init
          FreeOutcomes,  \* what free does at line 152
          None           \* no pointer

ASSUME QueueAssumption ==
  /\ Key \in [Items -> Nat]
  /\ InitSizes \subseteq Nat \ {0}
  /\ FreeOutcomes \subseteq {"abort", "ignore"}
  /\ None \notin Items

VARIABLES
  node,      \* node[1] .. node[size]
  max_size,
  slots,     \* the number of pointers node has room for
  pc,        \* where the call in progress is
  index,     \* the local of priority_queue_up and priority_queue_down
  op,        \* history: the last call that changed the queue
  arg,       \* history: the pointer that call pushes or removes
  before     \* history: node at that call

vars == <<node, max_size, slots, pc, index, op, arg, before>>

H == INSTANCE HeapOps

\* The comparator, such as timer_cmp: a strict order on the keys.
Before(x, y) == H!Before(Key, x, y)

Elements(q) == {q[i] : i \in DOMAIN q}

Init ==
  /\ node = <<>>
  /\ max_size \in InitSizes
  /\ slots = max_size + 1
  /\ pc = "idle"
  /\ index = 0
  /\ op = "init"
  /\ arg = None
  /\ before = <<>>

Call(name, x) == op' = name /\ arg' = x /\ before' = node

\* priority_queue_resize, when malloc succeeds.
Resize(new_size) ==
  /\ new_size > Len(node)
  /\ max_size' = new_size
  /\ slots' = new_size

\* Bug: the factor the TODO of line 133 considers, which 1 does not grow by.
GrownByHalf == (3 * max_size) \div 2

Grown == 2 * max_size

Full == Len(node) + 1 = max_size

\* push, up to the loop of priority_queue_up; when the array is full and
\* cannot grow, push returns -1 and the queue is as it was.
Push(x) ==
  /\ pc = "idle"
  /\ x \notin Elements(node)
  /\ IF Full THEN Resize(Grown) ELSE UNCHANGED <<max_size, slots>>
  /\ Call("push", x)
  /\ node' = Append(node, x)
  /\ pc' = "up"
  /\ index' = Len(node) + 1

\* Bug: priority_queue_swap without temp.
SwapLoses(i, j) == [node EXCEPT ![i] = node[j]]

Swap(i, j) == H!Swapped(node, i, j)

\* Bug: `if' where line 52 has `while'.
UpOnce ==
  /\ pc = "up"
  /\ node' = IF index > 1 /\ Before(node[index], node[index \div 2])
             THEN Swap(index, index \div 2) ELSE node
  /\ pc' = "idle"
  /\ UNCHANGED <<max_size, slots, index, op, arg, before>>

\* A turn of the loop of priority_queue_up.
Up ==
  /\ pc = "up"
  /\ IF index > 1 /\ Before(node[index], node[index \div 2])
     THEN /\ node' = Swap(index, index \div 2)
          /\ index' = index \div 2
          /\ UNCHANGED pc
     ELSE /\ pc' = "idle"
          /\ UNCHANGED <<node, index>>
  /\ UNCHANGED <<max_size, slots, op, arg, before>>

\* Lines 151 and 153.
TopRemoved == SubSeq(Swap(1, Len(node)), 1, Len(node) - 1)

\* pop, up to the loop of priority_queue_down.
Pop ==
  /\ pc = "idle"
  /\ node # <<>>
  /\ Call("pop", node[1])
  /\ \E outcome \in FreeOutcomes :
       IF outcome = "abort"
       THEN pc' = "aborted" /\ UNCHANGED <<node, index>>
       ELSE /\ node' = TopRemoved
            /\ pc' = "down"
            /\ index' = 1
  /\ UNCHANGED <<max_size, slots>>

\* Bug: `if' where line 73 has `while'.
DownOnce ==
  /\ pc = "down"
  /\ node' = IF 2 * index <= Len(node) /\ Before(node[H!Child(node, index)], node[index])
             THEN Swap(H!Child(node, index), index) ELSE node
  /\ pc' = "shrink"
  /\ UNCHANGED <<max_size, slots, index, op, arg, before>>

\* A turn of the loop of priority_queue_down.
Down ==
  /\ pc = "down"
  /\ IF 2 * index <= Len(node) /\ Before(node[H!Child(node, index)], node[index])
     THEN /\ node' = Swap(H!Child(node, index), index)
          /\ index' = H!Child(node, index)
          /\ UNCHANGED pc
     ELSE /\ pc' = "shrink"
          /\ UNCHANGED <<node, index>>
  /\ UNCHANGED <<max_size, slots, op, arg, before>>

\* Lines 156-160; when malloc fails pop returns -1 with the element removed.
Shrink ==
  /\ pc = "shrink"
  /\ IF Len(node) > 0 /\ Len(node) <= (max_size - 1) \div 4
     THEN Resize(max_size \div 2) \/ UNCHANGED <<max_size, slots>>
     ELSE UNCHANGED <<max_size, slots>>
  /\ pc' = "idle"
  /\ UNCHANGED <<node, index, op, arg, before>>

Next ==
  \/ \E x \in Items : Push(x)
  \/ Up
  \/ Pop
  \/ Down
  \/ Shrink

Spec == Init /\ [][Next]_vars

-----------------------------------------------------------------------------
(* Properties *)

\* Every variable has its type.
TypeOK ==
  /\ node \in Seq(Items) /\ before \in Seq(Items)
  /\ max_size \in Nat \ {0}
  /\ slots \in Nat
  /\ pc \in {"idle", "up", "down", "shrink", "aborted"}
  /\ index \in Nat
  /\ op \in {"init", "push", "pop"}
  /\ arg \in Items \cup {None}

\* The array is never written past its end, though growing tests size + 1
\* against max_size with ==, and init and resize disagree on how much room
\* max_size stands for: there is always a free slot before the test.
NoOverrun == Len(node) < max_size /\ max_size <= slots

\* No element is before its parent.
HeapOrdered(q) == \A i \in 2..Len(q) : ~ Before(q[i], q[i \div 2])

\* A push that starts from an ordered heap leaves one.
PushKeepsOrder ==
  pc = "idle" /\ op = "push" /\ HeapOrdered(before) => HeapOrdered(node)

\* A call adds or removes the one pointer it should, and duplicates none.
CallsConserve ==
  pc = "idle" =>
    /\ \A i, j \in DOMAIN node : node[i] = node[j] => i = j
    /\ op = "push" => Elements(node) = Elements(before) \cup {arg}
    /\ op = "pop" => Elements(node) = Elements(before) \ {arg}

\* The loops compute the operators of HeapOps.
MatchesHeapOps ==
  pc = "idle" =>
    /\ op = "push" => node = H!Push(Key, before, arg)
    /\ op = "pop" => node = H!Pop(Key, before)

\* The program of sgx_priority_queue_test.c lines 19-41 (Luogu P3378) prints the
\* top as the smallest number that is in the queue, after any pushes and pops.
TopIsFirst ==
  pc = "idle" /\ node # <<>> => \A x \in Elements(node) : ~ Before(x, H!Top(node))
=============================================================================
