------------------------------ MODULE HeapOps -------------------------------
(***************************************************************************)
(* The priority queue of src/core/sgx_priority_queue.c as operators: what  *)
(* a call of push or pop makes of the elements node[1] .. node[size], here *)
(* a sequence.  The comparator given to init looks up a key behind each    *)
(* element; it is the function k here.  PriorityQueue shows that the loops *)
(* of the code compute these operators.                                    *)
(***************************************************************************)
EXTENDS Naturals, Sequences

\* The comparator: x belongs nearer to the top than y.
Before(k, x, y) == k[x] < k[y]

Top(q) == q[1]

Swapped(q, i, j) == [q EXCEPT ![i] = q[j], ![j] = q[i]]

\* Where the swap loop of priority_queue_up stops when it starts at i.
Up(k, q, i) ==
  LET up[n \in 0..i] ==
        IF n = 0 THEN <<q, i>>
        ELSE LET h == up[n - 1][1]
                 j == up[n - 1][2]
             IN  IF j > 1 /\ Before(k, h[j], h[j \div 2])
                 THEN <<Swapped(h, j, j \div 2), j \div 2>>
                 ELSE <<h, j>>
  IN  up[i][1]

\* The child priority_queue_down compares with: line 78 is an expression
\* without effect, so it is the left one, whatever the right one holds.
Child(q, i) == 2 * i

\* Where the swap loop of priority_queue_down stops when it starts at i.
Down(k, q, i) ==
  LET down[n \in 0..Len(q)] ==
        IF n = 0 THEN <<q, i>>
        ELSE LET h == down[n - 1][1]
                 j == down[n - 1][2]
             IN  IF 2 * j <= Len(h) /\ Before(k, h[Child(h, j)], h[j])
                 THEN <<Swapped(h, Child(h, j), j), Child(h, j)>>
                 ELSE <<h, j>>
  IN  down[Len(q)][1]

Push(k, q, x) == Up(k, Append(q, x), Len(q) + 1)

\* Bug: size is decremented before the swap, and the last element is lost.
PopLast(k, q) == SubSeq(q, 1, Len(q) - 1)

\* The last element takes the place of the top and sinks.
Pop(k, q) == Down(k, SubSeq(Swapped(q, 1, Len(q)), 1, Len(q) - 1), 1)
=============================================================================
