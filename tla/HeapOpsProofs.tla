--------------------------- MODULE HeapOpsProofs ----------------------------
(***************************************************************************)
(* Lemmas about push and pop of the priority queue, for any elements, any  *)
(* keys and any length: their loops exchange elements and lose none.       *)
(***************************************************************************)
EXTENDS HeapOps, WellFoundedInduction, TLAPS

-----------------------------------------------------------------------------
(* Iteration *)

\* A set of numbers that is not empty has a least element.
LEMMA Least ==
  ASSUME NEW S \in SUBSET Nat, S # {}
  PROVE  \E x \in S : \A y \in S : x <= y
<1>1. PICK x \in S : \A y \in S : ~ (<<y, x>> \in OpToRel(<, Nat))
  BY NatLessThanWellFounded, WFMin, Zenon
<1>2. \A y \in S : ~ (y < x)
  BY <1>1 DEF OpToRel
<1> QED
  BY <1>2

\* What is in a set when a loop begins, and whose turns do not leave it, stays.
LEMMA Stays ==
  ASSUME NEW a \in Nat, NEW b \in Nat, NEW S, NEW g,
         g[a] \in S, \A n \in (a + 1)..b : g[n - 1] \in S => g[n] \in S
  PROVE  \A n \in a..b : g[n] \in S
<1> SUFFICES ASSUME NEW c \in a..b, g[c] \notin S
             PROVE  FALSE
  OBVIOUS
<1> DEFINE Bad == {n \in a..b : g[n] \notin S}
<1>1. Bad \in SUBSET Nat /\ Bad # {}
  OBVIOUS
<1>2. PICK x \in Bad : \A y \in Bad : x <= y
  BY <1>1, Least
<1>3. x # a /\ x \in a..b
  BY <1>2
<1>4. x - 1 \in a..b /\ x \in (a + 1)..b
  BY <1>3
<1>5. x - 1 \notin Bad
  BY <1>2, <1>4
<1> QED
  BY <1>2, <1>4, <1>5

\* A run of a loop that begins with s and has the turns T, for m turns.
Run(S, T, s, m, f) ==
  f \in [0..m -> S] /\ f[0] = s /\ \A n \in 1..m : f[n] = T[f[n - 1]]

\* A loop whose turns stay in a set can be run for any number of turns.
LEMMA Runs ==
  ASSUME NEW S, NEW T, T \in [S -> S], NEW s \in S, NEW m \in Nat
  PROVE  \E f : Run(S, T, s, m, f)
<1> DEFINE Bad == {n \in Nat : ~ \E f : Run(S, T, s, n, f)}
<1> SUFFICES ASSUME Bad # {}
             PROVE  FALSE
  OBVIOUS
<1>1. Bad \in SUBSET Nat
  OBVIOUS
<1>2. PICK x \in Bad : \A y \in Bad : x <= y
  BY <1>1, Least
<1>3. CASE x = 0
  <2>1. Run(S, T, s, 0, [n \in 0..0 |-> s])
    BY DEF Run
  <2> QED
    BY <1>3, <2>1
<1>4. CASE x # 0
  <2>1. x \in Nat /\ x - 1 \in Nat /\ x - 1 \notin Bad
    <3> HIDE DEF Bad
    <3>1. x \in Nat /\ x - 1 \in Nat
      BY <1>1, <1>2, <1>4
    <3> QED
      BY <1>2, <3>1
  <2>2. PICK f \in [0..(x - 1) -> S] : Run(S, T, s, x - 1, f)
    BY <2>1 DEF Run
  <2> DEFINE g == [n \in 0..x |-> IF n = x THEN T[f[x - 1]] ELSE f[n]]
  <2>3. f[x - 1] \in S /\ T[f[x - 1]] \in S
    BY <2>1
  <2>4. g \in [0..x -> S]
    BY <2>1, <2>3
  <2>5. \A n \in 1..x : g[n] = T[g[n - 1]]
    <3>1. ASSUME NEW n \in 1..x PROVE g[n] = T[g[n - 1]]
      <4>1. n - 1 \in 0..x /\ n - 1 # x /\ g[n - 1] = f[n - 1]
        BY <2>1
      <4>2. CASE n = x
        BY <4>1, <4>2
      <4>3. CASE n # x
        <5>1. n \in 1..(x - 1) /\ g[n] = f[n]
          BY <2>1, <4>3
        <5> QED
          BY <2>2, <4>1, <5>1 DEF Run
      <4> QED
        BY <4>2, <4>3
    <3> QED
      BY <3>1
  <2>6. g[0] = s
    BY <1>4, <2>1, <2>2 DEF Run
  <2>7. Run(S, T, s, x, g)
    BY <2>4, <2>5, <2>6 DEF Run
  <2> QED
    BY <1>2, <2>7
<1> QED
  BY <1>3, <1>4

-----------------------------------------------------------------------------
(* The loops *)

Elements(q) == {q[i] : i \in DOMAIN q}

Distinct(q) == \A i, j \in DOMAIN q : q[i] = q[j] => i = j

\* What a turn of the loop of priority_queue_up makes of the array and the index.
UpTurn(k, t) ==
  IF t[2] > 1 /\ Before(k, t[1][t[2]], t[1][t[2] \div 2])
  THEN <<Swapped(t[1], t[2], t[2] \div 2), t[2] \div 2>>
  ELSE <<t[1], t[2]>>

\* And of the loop of priority_queue_down.
DownTurn(k, t) ==
  IF 2 * t[2] <= Len(t[1]) /\ Before(k, t[1][Child(t[1], t[2])], t[1][t[2]])
  THEN <<Swapped(t[1], Child(t[1], t[2]), t[2]), Child(t[1], t[2])>>
  ELSE <<t[1], t[2]>>

\* Arithmetic of a node's parent.
LEMMA Parent ==
  ASSUME NEW i \in Nat, i > 1
  PROVE  i \div 2 \in Nat /\ 1 <= i \div 2 /\ i \div 2 < i
  OBVIOUS

\* An exchange keeps the length and the elements, and makes none a duplicate.
LEMMA Exchange ==
  ASSUME NEW I, NEW q \in Seq(I), NEW i \in 1..Len(q), NEW j \in 1..Len(q)
  PROVE  /\ Swapped(q, i, j) \in Seq(I)
         /\ Len(Swapped(q, i, j)) = Len(q)
         /\ \A x \in 1..Len(q) :
              Swapped(q, i, j)[x] = IF x = j THEN q[i] ELSE IF x = i THEN q[j] ELSE q[x]
         /\ Elements(Swapped(q, i, j)) = Elements(q)
         /\ Distinct(q) => Distinct(Swapped(q, i, j))
<1> PICK r : r = Swapped(q, i, j)
  OBVIOUS
<1>1. /\ r \in Seq(I) /\ Len(r) = Len(q)
      /\ \A x \in 1..Len(q) : r[x] = IF x = j THEN q[i] ELSE IF x = i THEN q[j] ELSE q[x]
  BY DEF Swapped
<1>2. DOMAIN r = 1..Len(q) /\ DOMAIN q = 1..Len(q)
  BY <1>1
<1>3. Elements(r) \subseteq Elements(q)
  BY <1>1, <1>2 DEF Elements
<1>4. Elements(q) \subseteq Elements(r)
  <2>1. ASSUME NEW x \in 1..Len(q) PROVE \E y \in 1..Len(q) : r[y] = q[x]
    <3>1. CASE x = i
      BY <1>1, <3>1
    <3>2. CASE x = j
      BY <1>1, <3>2
    <3>3. CASE x # i /\ x # j
      BY <1>1, <3>3
    <3> QED
      BY <3>1, <3>2, <3>3
  <2> QED
    BY <1>2, <2>1 DEF Elements
<1>5. Distinct(q) => Distinct(r)
  BY <1>1, <1>2 DEF Distinct
<1> QED
  BY <1>1, <1>3, <1>4, <1>5

\* The run of the loop of priority_queue_up that starts at i.
UpRun(k, q, i, up) ==
  up[0] = <<q, i>> /\ \A n \in 1..i : up[n] = UpTurn(k, up[n - 1])

\* And of the loop of priority_queue_down.
DownRun(k, q, i, down) ==
  down[0] = <<q, i>> /\ \A n \in 1..Len(q) : down[n] = DownTurn(k, down[n - 1])

\* An array and an index of it.
Indexed(I) == {t \in Seq(I) \X Nat : t[2] \in 1..Len(t[1])}

LEMMA UpTurns ==
  ASSUME NEW I, NEW k, NEW t \in Indexed(I)
  PROVE  UpTurn(k, t) \in Indexed(I)
<1>1. PICK h \in Seq(I), j \in Nat : t = <<h, j>> /\ t[1] = h /\ t[2] = j /\ j \in 1..Len(h)
  <2>1. t \in Seq(I) \X Nat /\ t[2] \in 1..Len(t[1])
    BY DEF Indexed
  <2>2. PICK h \in Seq(I), j \in Nat : t = <<h, j>>
    BY <2>1
  <2>3. t[1] = h /\ t[2] = j
    BY <2>2
  <2> QED
    BY <2>1, <2>2, <2>3
<1>2. CASE j > 1 /\ Before(k, h[j], h[j \div 2])
  <2>1. j \div 2 \in 1..Len(h)
    BY <1>1, <1>2, Parent
  <2>2. Swapped(h, j, j \div 2) \in Seq(I) /\ Len(Swapped(h, j, j \div 2)) = Len(h)
    BY <1>1, <2>1, Exchange
  <2>3. UpTurn(k, t) = <<Swapped(h, j, j \div 2), j \div 2>>
    BY <1>1, <1>2 DEF UpTurn
  <2>4. j \div 2 \in Nat /\ j \div 2 \in 1..Len(Swapped(h, j, j \div 2))
    BY <2>1, <2>2
  <2> QED
    BY <2>2, <2>3, <2>4 DEF Indexed
<1>3. CASE ~ (j > 1 /\ Before(k, h[j], h[j \div 2]))
  BY <1>1, <1>3 DEF UpTurn
<1> QED
  BY <1>2, <1>3

LEMMA DownTurns ==
  ASSUME NEW I, NEW k, NEW t \in Seq(I) \X (Nat \ {0})
  PROVE  DownTurn(k, t) \in Seq(I) \X (Nat \ {0})
<1>1. PICK h \in Seq(I), j \in Nat \ {0} : t = <<h, j>> /\ t[1] = h /\ t[2] = j
  OBVIOUS
<1>2. CASE 2 * j <= Len(h) /\ Before(k, h[2 * j], h[j])
  <2>1. 2 * j \in 1..Len(h) /\ j \in 1..Len(h) /\ 2 * j \in Nat \ {0}
    BY <1>2
  <2>2. Swapped(h, 2 * j, j) \in Seq(I)
    BY <2>1, Exchange
  <2>3. DownTurn(k, t) = <<Swapped(h, 2 * j, j), 2 * j>>
    BY <1>1, <1>2 DEF DownTurn, Child
  <2> QED
    BY <2>1, <2>2, <2>3
<1>3. CASE ~ (2 * j <= Len(h) /\ Before(k, h[2 * j], h[j]))
  <2>1. DownTurn(k, t) = t
    BY <1>1, <1>3 DEF DownTurn, Child
  <2> QED
    BY <2>1
<1> QED
  BY <1>2, <1>3

\* Up is what such a run has made of the array after i turns.
LEMMA UpHasRun ==
  ASSUME NEW I, NEW k, NEW q \in Seq(I), NEW i \in 1..Len(q)
  PROVE  \E up : UpRun(k, q, i, up) /\ Up(k, q, i) = up[i][1]
<1> DEFINE T == [t \in Indexed(I) |-> UpTurn(k, t)]
           IsUp(f) == f = [n \in 0..i |-> IF n = 0 THEN <<q, i>> ELSE UpTurn(k, f[n - 1])]
<1>1. T \in [Indexed(I) -> Indexed(I)]
  BY UpTurns
<1>2. <<q, i>> \in Indexed(I) /\ i \in Nat
  BY DEF Indexed
<1>3. PICK f \in [0..i -> Indexed(I)] : f[0] = <<q, i>> /\ \A n \in 1..i : f[n] = T[f[n - 1]]
  <2>1. PICK A, U, s : A = Indexed(I) /\ U = T /\ s = <<q, i>>
    OBVIOUS
  <2> HIDE DEF T
  <2>2. U \in [A -> A] /\ s \in A
    BY <1>1, <1>2, <2>1
  <2>3. \E f : Run(A, U, s, i, f)
    BY <1>2, <2>2, Runs
  <2> QED
    BY <2>1, <2>3 DEF Run
<1>4. IsUp(f)
  <2>1. ASSUME NEW n \in 0..i, n # 0 PROVE f[n] = UpTurn(k, f[n - 1])
    <3>1. n \in 1..i /\ n - 1 \in 0..i
      BY <2>1
    <3>2. f[n] = T[f[n - 1]] /\ f[n - 1] \in Indexed(I)
      BY <1>3, <3>1
    <3> QED
      BY <3>2
  <2>2. f = [n \in 0..i |-> f[n]]
    BY <1>3
  <2> QED
    BY <1>3, <2>1, <2>2
<1>5. PICK up : up = CHOOSE g : IsUp(g)
  OBVIOUS
<1>6. IsUp(up)
  BY <1>4, <1>5
<1>7. Up(k, q, i) = up[i][1]
  BY <1>5 DEF Up, UpTurn
<1>8. UpRun(k, q, i, up)
  <2>1. 0 \in 0..i /\ \A n \in 1..i : n \in 0..i /\ n # 0
    BY <1>2
  <2>2. \A n \in 0..i : up[n] = IF n = 0 THEN <<q, i>> ELSE UpTurn(k, up[n - 1])
    BY <1>6
  <2> QED
    BY <2>1, <2>2 DEF UpRun
<1> QED
  BY <1>7, <1>8

LEMMA DownHasRun ==
  ASSUME NEW I, NEW k, NEW q \in Seq(I), NEW i \in Nat \ {0}
  PROVE  \E down : DownRun(k, q, i, down) /\ Down(k, q, i) = down[Len(q)][1]
<1> DEFINE S == Seq(I) \X (Nat \ {0})
           T == [t \in S |-> DownTurn(k, t)]
           IsDown(f) ==
             f = [n \in 0..Len(q) |-> IF n = 0 THEN <<q, i>> ELSE DownTurn(k, f[n - 1])]
<1>1. T \in [S -> S]
  BY DownTurns
<1>2. <<q, i>> \in S /\ Len(q) \in Nat
  OBVIOUS
<1>3. PICK f \in [0..Len(q) -> S] :
        f[0] = <<q, i>> /\ \A n \in 1..Len(q) : f[n] = T[f[n - 1]]
  <2>1. PICK U, s, m : U = T /\ s = <<q, i>> /\ m = Len(q)
    OBVIOUS
  <2> HIDE DEF T, S
  <2>2. U \in [S -> S] /\ s \in S /\ m \in Nat
    BY <1>1, <1>2, <2>1
  <2>3. \E f : Run(S, U, s, m, f)
    BY <2>2, Runs
  <2> QED
    BY <2>1, <2>3 DEF Run
<1>4. IsDown(f)
  <2>1. ASSUME NEW n \in 0..Len(q), n # 0 PROVE f[n] = DownTurn(k, f[n - 1])
    <3>1. n \in 1..Len(q) /\ n - 1 \in 0..Len(q)
      BY <2>1
    <3>2. f[n] = T[f[n - 1]] /\ f[n - 1] \in S
      BY <1>3, <3>1
    <3> QED
      BY <3>2
  <2>2. f = [n \in 0..Len(q) |-> f[n]]
    BY <1>3
  <2> QED
    BY <1>3, <2>1, <2>2
<1>5. PICK down : down = CHOOSE g : IsDown(g)
  OBVIOUS
<1>6. IsDown(down)
  BY <1>4, <1>5
<1>7. Down(k, q, i) = down[Len(q)][1]
  BY <1>5 DEF Down, DownTurn
<1>8. DownRun(k, q, i, down)
  <2>1. 0 \in 0..Len(q) /\ \A n \in 1..Len(q) : n \in 0..Len(q) /\ n # 0
    BY <1>2
  <2>2. \A n \in 0..Len(q) : down[n] = IF n = 0 THEN <<q, i>> ELSE DownTurn(k, down[n - 1])
    BY <1>6
  <2> QED
    BY <2>1, <2>2 DEF DownRun
<1> QED
  BY <1>7, <1>8

-----------------------------------------------------------------------------
(* What the loops keep *)

\* The arrays of a length and with the elements of q, and duplicates only if q has some.
Rearranged(I, q) ==
  {h \in Seq(I) : Len(h) = Len(q) /\ Elements(h) = Elements(q) /\ (Distinct(q) => Distinct(h))}

LEMMA UpKeeps ==
  ASSUME NEW I, NEW k, NEW q \in Seq(I), NEW i \in 1..Len(q)
  PROVE  Up(k, q, i) \in Rearranged(I, q)
<1> DEFINE S == {t \in Indexed(I) : t[1] \in Rearranged(I, q)}
<1>1. PICK up : UpRun(k, q, i, up) /\ Up(k, q, i) = up[i][1]
  BY UpHasRun
<1>2. up[0] \in S
  BY <1>1 DEF UpRun, Indexed, Rearranged
<1>3. ASSUME NEW t \in S PROVE UpTurn(k, t) \in S
  <2>1. PICK h \in Seq(I), j \in Nat : t = <<h, j>> /\ t[1] = h /\ t[2] = j /\ j \in 1..Len(h)
    <3>1. t \in Seq(I) \X Nat /\ t[2] \in 1..Len(t[1])
      BY DEF Indexed
    <3>2. PICK h \in Seq(I), j \in Nat : t = <<h, j>>
      BY <3>1
    <3>3. t[1] = h /\ t[2] = j
      BY <3>2
    <3> QED
      BY <3>1, <3>2, <3>3
  <2>2. CASE j > 1 /\ Before(k, h[j], h[j \div 2])
    <3>1. j \div 2 \in 1..Len(h)
      BY <2>1, <2>2, Parent
    <3>2. Swapped(h, j, j \div 2) \in Rearranged(I, q)
      BY <2>1, <3>1, Exchange DEF Rearranged
    <3>3. UpTurn(k, t)[1] = Swapped(h, j, j \div 2)
      BY <2>1, <2>2 DEF UpTurn
    <3> QED
      BY <3>2, <3>3, UpTurns
  <2>3. CASE ~ (j > 1 /\ Before(k, h[j], h[j \div 2]))
    BY <2>1, <2>3 DEF UpTurn
  <2> QED
    BY <2>2, <2>3
<1>4. \A n \in (0 + 1)..i : up[n - 1] \in S => up[n] \in S
  BY <1>1, <1>3 DEF UpRun
<1>5. \A n \in 0..i : up[n] \in S
  <2> HIDE DEF S
  <2>1. 0 \in Nat /\ i \in Nat
    OBVIOUS
  <2> QED
    BY <1>2, <1>4, <2>1, Stays
<1> QED
  BY <1>1, <1>5

LEMMA DownKeeps ==
  ASSUME NEW I, NEW k, NEW q \in Seq(I), NEW i \in Nat \ {0}
  PROVE  Down(k, q, i) \in Rearranged(I, q)
<1> DEFINE S == {t \in Seq(I) \X (Nat \ {0}) : t[1] \in Rearranged(I, q)}
<1>1. PICK down : DownRun(k, q, i, down) /\ Down(k, q, i) = down[Len(q)][1]
  BY DownHasRun
<1>2. down[0] \in S
  BY <1>1 DEF DownRun, Rearranged
<1>3. ASSUME NEW t \in S PROVE DownTurn(k, t) \in S
  <2>1. PICK h \in Seq(I), j \in Nat \ {0} : t = <<h, j>> /\ t[1] = h /\ t[2] = j
    OBVIOUS
  <2>2. CASE 2 * j <= Len(h) /\ Before(k, h[2 * j], h[j])
    <3>1. 2 * j \in 1..Len(h) /\ j \in 1..Len(h)
      BY <2>2
    <3>2. Swapped(h, 2 * j, j) \in Rearranged(I, q)
      BY <2>1, <3>1, Exchange DEF Rearranged
    <3>3. DownTurn(k, t)[1] = Swapped(h, 2 * j, j)
      BY <2>1, <2>2 DEF DownTurn, Child
    <3> QED
      BY <3>2, <3>3, DownTurns
  <2>3. CASE ~ (2 * j <= Len(h) /\ Before(k, h[2 * j], h[j]))
    BY <2>1, <2>3 DEF DownTurn, Child
  <2> QED
    BY <2>2, <2>3
<1>4. \A n \in (0 + 1)..Len(q) : down[n - 1] \in S => down[n] \in S
  BY <1>1, <1>3 DEF DownRun
<1>5. \A n \in 0..Len(q) : down[n] \in S
  <2> HIDE DEF S
  <2>1. 0 \in Nat /\ Len(q) \in Nat
    OBVIOUS
  <2> QED
    BY <1>2, <1>4, <2>1, Stays
<1> QED
  BY <1>1, <1>5

-----------------------------------------------------------------------------
(* The calls *)

\* What is appended is added, and nothing else.
LEMMA Appended ==
  ASSUME NEW I, NEW q \in Seq(I), NEW x \in I
  PROVE  /\ Append(q, x) \in Seq(I)
         /\ Len(Append(q, x)) = Len(q) + 1
         /\ Elements(Append(q, x)) = Elements(q) \cup {x}
         /\ Distinct(q) /\ x \notin Elements(q) => Distinct(Append(q, x))
<1>1. PICK n, r : n = Len(q) /\ r = Append(q, x)
  OBVIOUS
<1>2. /\ n \in Nat /\ r \in Seq(I) /\ Len(r) = n + 1 /\ r[n + 1] = x
      /\ \A i \in 1..n : r[i] = q[i]
      /\ DOMAIN q = 1..n
  BY <1>1
<1>3. DOMAIN r = 1..(n + 1)
  BY <1>2
<1>4. Elements(r) = Elements(q) \cup {x}
  <2>1. Elements(r) \subseteq Elements(q) \cup {x}
    BY <1>2, <1>3 DEF Elements
  <2>2. \A i \in 1..n : i \in 1..(n + 1)
    BY <1>2
  <2>3. n + 1 \in 1..(n + 1)
    BY <1>2
  <2>4. Elements(q) \cup {x} \subseteq Elements(r)
    BY <1>2, <1>3, <2>2, <2>3 DEF Elements
  <2> QED
    BY <2>1, <2>4
<1>5. Distinct(q) /\ x \notin Elements(q) => Distinct(r)
  <2> SUFFICES ASSUME Distinct(q), x \notin Elements(q),
                      NEW i \in 1..(n + 1), NEW j \in 1..(n + 1), r[i] = r[j]
               PROVE  i = j
    BY <1>3 DEF Distinct
  <2>1. \A y \in 1..(n + 1) : y \in 1..n \/ y = n + 1
    BY <1>2
  <2> QED
    BY <1>2, <2>1 DEF Distinct, Elements
<1> QED
  BY <1>1, <1>2, <1>4, <1>5

\* A push adds its element and nothing else.
LEMMA PushAdds ==
  ASSUME NEW I, NEW k, NEW q \in Seq(I), NEW x \in I
  PROVE  /\ Push(k, q, x) \in Seq(I)
         /\ Elements(Push(k, q, x)) = Elements(q) \cup {x}
         /\ Distinct(q) /\ x \notin Elements(q) => Distinct(Push(k, q, x))
<1>1. PICK r : r = Append(q, x)
  OBVIOUS
<1>2. /\ r \in Seq(I) /\ Elements(r) = Elements(q) \cup {x} /\ Len(r) = Len(q) + 1
      /\ (Distinct(q) /\ x \notin Elements(q) => Distinct(r))
  BY <1>1, Appended
<1>3. Push(k, q, x) = Up(k, r, Len(q) + 1) /\ Len(q) + 1 \in 1..Len(r)
  BY <1>1, <1>2 DEF Push
<1>4. Push(k, q, x) \in Rearranged(I, r)
  BY <1>2, <1>3, UpKeeps
<1> QED
  BY <1>2, <1>4 DEF Rearranged

\* What pop leaves when the last element has taken the place of the top.
TopAway(q) == SubSeq(Swapped(q, 1, Len(q)), 1, Len(q) - 1)

\* It is everything but the top.
LEMMA TakenAway ==
  ASSUME NEW I, NEW q \in Seq(I), q # <<>>
  PROVE  /\ TopAway(q) \in Seq(I)
         /\ Len(TopAway(q)) = Len(q) - 1
         /\ Distinct(q) =>
              Elements(TopAway(q)) = Elements(q) \ {q[1]} /\ Distinct(TopAway(q))
<1>1. PICK n, r : n = Len(q) /\ r = Swapped(q, 1, n)
  OBVIOUS
<1>2. n \in Nat \ {0} /\ 1 \in 1..n /\ n \in 1..n
  BY <1>1
<1>3. /\ r \in Seq(I) /\ Len(r) = n /\ Elements(r) = Elements(q)
      /\ (Distinct(q) => Distinct(r)) /\ r[n] = q[1]
  <2>1. 1 \in 1..Len(q) /\ Len(q) \in 1..Len(q) /\ r = Swapped(q, 1, Len(q))
    BY <1>1, <1>2
  <2>2. /\ r \in Seq(I) /\ Len(r) = Len(q) /\ Elements(r) = Elements(q)
        /\ (Distinct(q) => Distinct(r))
        /\ \A x \in 1..Len(q) :
             r[x] = IF x = Len(q) THEN q[1] ELSE IF x = 1 THEN q[Len(q)] ELSE q[x]
    <3>1. PICK a \in 1..Len(q), b \in 1..Len(q) : a = 1 /\ b = Len(q)
      BY <2>1
    <3>2. /\ Swapped(q, a, b) \in Seq(I) /\ Len(Swapped(q, a, b)) = Len(q)
          /\ Elements(Swapped(q, a, b)) = Elements(q)
          /\ (Distinct(q) => Distinct(Swapped(q, a, b)))
          /\ \A x \in 1..Len(q) :
               Swapped(q, a, b)[x] = IF x = b THEN q[a] ELSE IF x = a THEN q[b] ELSE q[x]
      BY Exchange
    <3>3. r = Swapped(q, a, b)
      BY <2>1, <3>1
    <3> QED
      BY <3>1, <3>2, <3>3
  <2> QED
    BY <1>1, <2>1, <2>2
<1>4. PICK s : s = SubSeq(r, 1, n - 1)
  OBVIOUS
<1>5. /\ s \in Seq(I) /\ Len(s) = n - 1
      /\ \A i \in 1..(n - 1) : s[i] = r[i]
  BY <1>2, <1>3, <1>4
<1>6. DOMAIN s = 1..(n - 1) /\ DOMAIN r = 1..n
  BY <1>3, <1>5
<1>7. \A i \in 1..n : i \in 1..(n - 1) \/ i = n
  BY <1>2
<1>8. \A i \in 1..(n - 1) : i \in 1..n /\ i # n
  BY <1>2
<1>9. ASSUME Distinct(r) PROVE Distinct(s)
  BY <1>3, <1>5, <1>6, <1>8, <1>9 DEF Distinct
<1>10. ASSUME Distinct(r) PROVE Elements(s) = Elements(q) \ {q[1]}
  <2>1. Elements(s) = Elements(r) \ {r[n]}
    <3>1. ASSUME NEW i \in 1..(n - 1) PROVE s[i] \in Elements(r) \ {r[n]}
      BY <1>2, <1>3, <1>5, <1>6, <1>8, <1>10 DEF Elements, Distinct
    <3>2. ASSUME NEW i \in 1..n, r[i] # r[n] PROVE r[i] \in Elements(s)
      <4>1. i \in 1..(n - 1)
        BY <1>7, <3>2
      <4> QED
        BY <1>5, <1>6, <4>1 DEF Elements
    <3> QED
      BY <1>6, <3>1, <3>2 DEF Elements
  <2> QED
    BY <1>3, <2>1
<1>11. TopAway(q) = s
  BY <1>1, <1>4 DEF TopAway
<1> QED
  BY <1>1, <1>3, <1>5, <1>9, <1>10, <1>11

\* A pop removes what was at the top and nothing else.
LEMMA PopRemoves ==
  ASSUME NEW I, NEW k, NEW q \in Seq(I), q # <<>>, Distinct(q)
  PROVE  /\ Pop(k, q) \in Seq(I)
         /\ Elements(Pop(k, q)) = Elements(q) \ {Top(q)}
         /\ Distinct(Pop(k, q))
<1>1. PICK s : s = TopAway(q)
  OBVIOUS
<1>2. s \in Seq(I) /\ Elements(s) = Elements(q) \ {q[1]} /\ Distinct(s)
  BY <1>1, TakenAway
<1>3. Pop(k, q) = Down(k, s, 1) /\ 1 \in Nat \ {0}
  BY <1>1 DEF Pop, TopAway
<1>4. Pop(k, q) \in Rearranged(I, s)
  BY <1>2, <1>3, DownKeeps
<1> QED
  BY <1>2, <1>4 DEF Rearranged, Top
=============================================================================
