---------------------------- MODULE FdLineProofs ----------------------------
(***************************************************************************)
(* Proofs about the lines of the mini server, for any requests, any size   *)
(* of the buffer and anything in it, and however the bytes come.           *)
(***************************************************************************)
EXTENDS FdLine, SequenceTheorems, TLAPS

HP == INSTANCE HeapOpsProofs

-----------------------------------------------------------------------------
(* Where the lines of a request are in its text *)

\* What a concatenation has where.
LEMMA Joined ==
  ASSUME NEW B, NEW s \in Seq(B), NEW t \in Seq(B)
  PROVE  /\ s \o t \in Seq(B) /\ Len(s \o t) = Len(s) + Len(t)
         /\ Len(s) \in Nat /\ Len(t) \in Nat
         /\ \A k \in 1..Len(s) : (s \o t)[k] = s[k]
         /\ \A k \in 1..Len(t) : (s \o t)[Len(s) + k] = t[k]
  OBVIOUS

\* The same when the second is a line end.
LEMMA JoinedEnd ==
  ASSUME NEW B, NEW s \in Seq(B), NEW t \in Seq(B)
  PROVE  Len(t) = 2 => /\ s \o t \in Seq(B) /\ Len(s \o t) = Len(s) + 2 /\ Len(s) \in Nat
                       /\ \A k \in 1..Len(s) : (s \o t)[k] = s[k]
                       /\ (s \o t)[Len(s) + 1] = t[1] /\ (s \o t)[Len(s) + 2] = t[2]
<1>1. PICK d : d = s \o t
  OBVIOUS
<1>2. /\ d \in Seq(B) /\ Len(d) = Len(s) + Len(t) /\ Len(s) \in Nat /\ Len(t) \in Nat
      /\ \A k \in 1..Len(s) : d[k] = s[k]
      /\ \A k \in 1..Len(t) : d[Len(s) + k] = t[k]
  BY <1>1, Joined
<1> QED
  BY <1>1, <1>2

\* What is left of a sequence when its first n + 1 elements are taken away.
LEMMA Dropped ==
  ASSUME NEW B, NEW l \in Seq(B), NEW n \in Nat, n + 1 < Len(l)
  PROVE  /\ SubSeq(l, n + 2, Len(l)) \in Seq(B)
         /\ Len(SubSeq(l, n + 2, Len(l))) = Len(l) - (n + 1)
         /\ \A k \in 1..(Len(l) - (n + 1)) : SubSeq(l, n + 2, Len(l))[k] = l[n + 1 + k]
<1>1. PICK r \in Nat : Len(l) = n + 1 + r
  <2>1. PICK t \in Nat : t = Len(l)
    OBVIOUS
  <2>2. t - (n + 1) \in Nat /\ t = n + 1 + (t - (n + 1))
    BY <2>1
  <2> QED
    BY <2>1, <2>2
<1>2. PICK g : g = [k \in 1..r |-> l[n + 1 + k]]
  OBVIOUS
<1>3. SubSeq(l, n + 2, Len(l)) = g
  <2>1. SubSeq(l, n + 2, n + 1 + r) = [k \in 1..((n + 1 + r) - (n + 2) + 1) |-> l[k + (n + 2) - 1]]
    OBVIOUS
  <2>2. (n + 1 + r) - (n + 2) + 1 = r /\ \A k \in 1..r : k + (n + 2) - 1 = n + 1 + k
    OBVIOUS
  <2> QED
    BY <1>1, <1>2, <2>1, <2>2
<1>4. g \in [1..r -> B]
  <2>1. \A k \in 1..r : n + 1 + k \in 1..Len(l)
    BY <1>1
  <2>2. \A i \in 1..Len(l) : l[i] \in B
    OBVIOUS
  <2> QED
    BY <1>2, <2>1, <2>2
<1>5. g \in Seq(B) /\ Len(g) = r
  BY <1>4
<1>6. Len(l) - (n + 1) = r
  BY <1>1
<1> QED
  BY <1>2, <1>3, <1>5, <1>6

Piecewise(s, f, n) ==
  f[1] = s[1] /\ \A i \in 2..n : f[i] = f[i - 1] \o s[i]

\* The recursive function of FlattenSeq exists, and each value of it extends the last.
LEMMA Flattened ==
  ASSUME NEW B, NEW s \in Seq(Seq(B)), s # <<>>
  PROVE  \E f \in [1..Len(s) -> Seq(B)] : Piecewise(s, f, Len(s)) /\ FlattenSeq(s) = f[Len(s)]
<1> DEFINE L == Len(s)
           Has(n) == \E f \in [1..n -> Seq(B)] : Piecewise(s, f, n)
           Bad == {n \in 1..L : ~ Has(n)}
<1>1. L \in Nat /\ L >= 1 /\ \A i \in 1..L : s[i] \in Seq(B)
  OBVIOUS
<1>2. Has(1)
  <2>1. [i \in 1..1 |-> s[1]] \in [1..1 -> Seq(B)] /\ Piecewise(s, [i \in 1..1 |-> s[1]], 1)
    BY <1>1 DEF Piecewise
  <2> QED
    BY <2>1
<1>3. ASSUME NEW n \in 2..L, Has(n - 1) PROVE Has(n)
  <2>1. PICK f \in [1..(n - 1) -> Seq(B)] : Piecewise(s, f, n - 1)
    BY <1>3
  <2> DEFINE g == [i \in 1..n |-> IF i = n THEN f[n - 1] \o s[n] ELSE f[i]]
  <2>2. n - 1 \in 1..(n - 1) /\ n \in 1..L /\ n \in Nat
    BY <1>1
  <2>3. f[n - 1] \in Seq(B) /\ s[n] \in Seq(B)
    BY <1>1, <2>2
  <2>4. f[n - 1] \o s[n] \in Seq(B)
    BY <2>3
  <2>5. g \in [1..n -> Seq(B)]
    BY <2>2, <2>4
  <2>6. g[1] = s[1]
    BY <2>1, <2>2 DEF Piecewise
  <2>7. ASSUME NEW i \in 2..n PROVE g[i] = g[i - 1] \o s[i]
    <3>1. i - 1 \in 1..n /\ i - 1 # n /\ g[i - 1] = f[i - 1] /\ i \in 1..n
      BY <2>2
    <3>2. CASE i = n
      BY <3>1, <3>2
    <3>3. CASE i # n
      <4>1. i \in 2..(n - 1) /\ g[i] = f[i]
        BY <2>2, <3>1, <3>3
      <4> QED
        BY <2>1, <3>1, <4>1 DEF Piecewise
    <3> QED
      BY <3>2, <3>3
  <2> QED
    BY <2>5, <2>6, <2>7 DEF Piecewise
<1>4. Bad = {}
  <2> SUFFICES ASSUME Bad # {} PROVE FALSE
    OBVIOUS
  <2> HIDE DEF Has
  <2>1. PICK x \in Bad : \A y \in Bad : x <= y
    <3>1. Bad \in SUBSET Nat
      OBVIOUS
    <3> QED
      BY <3>1, HP!Least
  <2>2. x # 1 /\ x \in 1..L
    BY <1>2, <2>1
  <2>3. x \in 2..L /\ x - 1 \in 1..L
    BY <1>1, <2>2
  <2>4. x - 1 \notin Bad
    BY <2>1, <2>3
  <2>5. Has(x - 1)
    BY <2>3, <2>4
  <2>6. Has(x)
    BY <1>3, <2>3, <2>5
  <2> QED
    BY <2>1, <2>6
<1>5. PICK f \in [1..L -> Seq(B)] : Piecewise(s, f, L)
  <2>1. L \in 1..L
    BY <1>1
  <2>2. L \notin Bad
    BY <1>4, Zenon
  <2> QED
    BY <2>1, <2>2, Zenon
<1> DEFINE Body(h) == [i \in 1..L |-> IF i = 1 THEN s[i] ELSE h[i - 1] \o s[i]]
           flat == CHOOSE h : h = Body(h)
<1>6. f = Body(f)
  <2>1. \A i \in 1..L : f[i] = Body(f)[i]
    <3>1. ASSUME NEW i \in 1..L PROVE f[i] = Body(f)[i]
      <4>1. CASE i = 1
        BY <1>5, <4>1 DEF Piecewise
      <4>2. CASE i # 1
        <5>1. i \in 2..L
          BY <1>1, <4>2
        <5> QED
          BY <1>5, <4>2, <5>1 DEF Piecewise
      <4> QED
        BY <4>1, <4>2
    <3> QED
      BY <3>1
  <2> QED
    BY <1>5, <2>1
<1>7. flat = Body(flat)
  <2> HIDE DEF Body
  <2> QED
    BY <1>6
<1>8. FlattenSeq(s) = flat[L]
  BY <1>1 DEF FlattenSeq
<1>9. Piecewise(s, flat, L)
  <2> HIDE DEF flat
  <2>1. 1 \in 1..L
    BY <1>1
  <2>2. flat[1] = s[1]
    BY <1>7, <2>1
  <2>3. ASSUME NEW i \in 2..L PROVE flat[i] = flat[i - 1] \o s[i]
    <3>1. i \in 1..L /\ i # 1
      BY <1>1
    <3> QED
      BY <1>7, <3>1
  <2> QED
    BY <2>2, <2>3 DEF Piecewise
<1>10. \A i \in 1..L : flat[i] \in Seq(B)
  <2> HIDE DEF flat
  <2>1. flat[1] \in Seq(B)
    BY <1>1, <1>9 DEF Piecewise
  <2>2. ASSUME NEW i \in (1 + 1)..L, flat[i - 1] \in Seq(B) PROVE flat[i] \in Seq(B)
    <3>1. i \in 2..L /\ i \in 1..L /\ s[i] \in Seq(B)
      BY <1>1
    <3>2. flat[i] = flat[i - 1] \o s[i]
      BY <1>9, <3>1 DEF Piecewise
    <3> QED
      BY <2>2, <3>1, <3>2
  <2> QED
    BY <1>1, <2>1, <2>2, HP!Stays
<1>11. flat \in [1..L -> Seq(B)]
  <2> HIDE DEF flat
  <2>1. DOMAIN flat = 1..L /\ flat = [i \in 1..L |-> flat[i]]
    BY <1>7
  <2> QED
    BY <1>10, <2>1
<1> QED
  BY <1>8, <1>9, <1>11

\* The lines of a request and the empty one that ends its headers.
Lines(a) == Append(a.lines, <<>>)

\* Where each line with its two bytes c ends in a text: the (n + 1)st is empty.
Ends(text, l, c, n, ends) ==
  /\ ends \in [0..(n + 1) -> Nat] /\ ends[0] = 0 /\ ends[n + 1] = Len(text)
  /\ \A i \in 1..(n + 1) :
       /\ ends[i] = ends[i - 1] + Len(l[i]) + 2
       /\ \A k \in 1..Len(l[i]) : text[ends[i - 1] + k] = l[i][k]
       /\ text[ends[i] - 1] = c[1] /\ text[ends[i]] = c[2]
       /\ i <= n => ends[i] < ends[n + 1]

LEMMA TextEnds ==
  ASSUME NEW B, NEW n \in Nat \ {0}, NEW l, l[n + 1] = <<>>, \A i \in 1..n : l[i] \in Seq(B),
         NEW c \in Seq(B), Len(c) = 2,
         NEW f \in [1..n -> Seq(B)], f[1] = l[1] \o c,
         \A i \in 2..n : f[i] = f[i - 1] \o (l[i] \o c)
  PROVE  f[n] \o c \in Seq(B) /\ \E ends : Ends(f[n] \o c, l, c, n, ends)
<1>1. \A i \in 1..n : f[i] \in Seq(B) /\ Len(f[i]) \in Nat
  OBVIOUS
<1>2. n \in 1..n /\ f[n] \in Seq(B) /\ Len(f[n]) \in Nat
  OBVIOUS
<1>3. \A i \in 1..n : /\ l[i] \o c \in Seq(B) /\ Len(l[i] \o c) = Len(l[i]) + 2
                      /\ Len(l[i]) \in Nat
                      /\ \A k \in 1..Len(l[i]) : (l[i] \o c)[k] = l[i][k]
                      /\ (l[i] \o c)[Len(l[i]) + 1] = c[1] /\ (l[i] \o c)[Len(l[i]) + 2] = c[2]
  <2> SUFFICES ASSUME NEW i \in 1..n
               PROVE  /\ l[i] \o c \in Seq(B) /\ Len(l[i] \o c) = Len(l[i]) + 2
                      /\ Len(l[i]) \in Nat
                      /\ \A k \in 1..Len(l[i]) : (l[i] \o c)[k] = l[i][k]
                      /\ (l[i] \o c)[Len(l[i]) + 1] = c[1] /\ (l[i] \o c)[Len(l[i]) + 2] = c[2]
    OBVIOUS
  <2>1. PICK s \in Seq(B) : s = l[i]
    OBVIOUS
  <2>2. /\ s \o c \in Seq(B) /\ Len(s \o c) = Len(s) + 2 /\ Len(s) \in Nat
        /\ \A k \in 1..Len(s) : (s \o c)[k] = s[k]
        /\ (s \o c)[Len(s) + 1] = c[1] /\ (s \o c)[Len(s) + 2] = c[2]
    BY JoinedEnd
  <2> QED
    BY <2>1, <2>2
<1>4. ASSUME NEW i \in 1..n
      PROVE  Len(f[i]) <= Len(f[n]) /\ \A k \in 1..Len(f[i]) : f[n][k] = f[i][k]
  <2> DEFINE S == {t \in Seq(B) : Len(f[i]) <= Len(t) /\ \A k \in 1..Len(f[i]) : t[k] = f[i][k]}
  <2>1. f[i] \in S
    BY <1>1
  <2>2. ASSUME NEW j \in (i + 1)..n, f[j - 1] \in S PROVE f[j] \in S
    <3>1. j \in 2..n /\ j \in 1..n
      OBVIOUS
    <3>2. f[j] = f[j - 1] \o (l[j] \o c) /\ l[j] \o c \in Seq(B)
      BY <1>3, <3>1
    <3>3. Len(f[i]) \in Nat
      BY <1>1
    <3>4. ASSUME NEW t \in S, NEW u \in Seq(B) PROVE t \o u \in S
      <4>1. t \in Seq(B) /\ Len(f[i]) <= Len(t) /\ \A k \in 1..Len(f[i]) : t[k] = f[i][k]
        OBVIOUS
      <4>2. /\ t \o u \in Seq(B) /\ Len(t \o u) = Len(t) + Len(u)
            /\ Len(t) \in Nat /\ Len(u) \in Nat
            /\ \A k \in 1..Len(t) : (t \o u)[k] = t[k]
        BY <4>1, Joined
      <4>3. \A k \in 1..Len(f[i]) : k \in 1..Len(t)
        BY <3>3, <4>1, <4>2
      <4> QED
        <5>1. \A k \in 1..Len(f[i]) : (t \o u)[k] = f[i][k]
          BY <4>1, <4>2, <4>3
        <5>2. Len(f[i]) <= Len(t \o u)
          BY <3>3, <4>1, <4>2
        <5> QED
          BY <4>2, <5>1, <5>2
    <3> HIDE DEF S
    <3> QED
      BY <2>2, <3>2, <3>4
  <2> HIDE DEF S
  <2>3. i \in Nat /\ n \in Nat /\ n \in i..n
    OBVIOUS
  <2>4. f[n] \in S
    BY <2>1, <2>2, <2>3, HP!Stays
  <2> QED
    BY <2>4 DEF S
<1>5. PICK text : text = f[n] \o c
  OBVIOUS
<1>6. /\ text \in Seq(B) /\ Len(text) = Len(f[n]) + 2
      /\ \A k \in 1..Len(f[n]) : text[k] = f[n][k]
      /\ text[Len(f[n]) + 1] = c[1] /\ text[Len(f[n]) + 2] = c[2]
  BY <1>2, <1>5, JoinedEnd
<1> DEFINE ends == [i \in 0..(n + 1) |-> IF i = 0 THEN 0 ELSE IF i = n + 1 THEN Len(text) ELSE Len(f[i])]
<1>7. ends \in [0..(n + 1) -> Nat] /\ ends[0] = 0 /\ ends[n + 1] = Len(text)
      /\ \A i \in 1..n : ends[i] = Len(f[i])
  BY <1>1, <1>6
<1> HIDE DEF ends
<1>8. ASSUME NEW i \in 1..n
      PROVE  /\ ends[i] = ends[i - 1] + Len(l[i]) + 2
             /\ ends[i - 1] \in Nat /\ ends[i] = Len(f[i])
             /\ \A k \in 1..Len(l[i]) : f[i][ends[i - 1] + k] = l[i][k]
             /\ f[i][ends[i] - 1] = c[1] /\ f[i][ends[i]] = c[2]
  <2>1. PICK lc : lc = l[i] \o c
    OBVIOUS
  <2>2. /\ lc \in Seq(B) /\ Len(lc) = Len(l[i]) + 2 /\ Len(l[i]) \in Nat
        /\ \A k \in 1..Len(l[i]) : lc[k] = l[i][k]
        /\ lc[Len(l[i]) + 1] = c[1] /\ lc[Len(l[i]) + 2] = c[2]
    BY <1>3, <2>1
  <2>3. ends[i] = Len(f[i])
    BY <1>7
  <2>4. CASE i = 1
    <3>1. f[i] = lc /\ ends[i - 1] = 0
      BY <1>7, <2>1, <2>4
    <3>2. PICK v \in Nat : v = Len(l[i])
      BY <2>2
    <3>3. ends[i] = v + 2 /\ ends[i] - 1 = v + 1 /\ ends[i - 1] = 0
      BY <2>2, <2>3, <3>1, <3>2
    <3>4. f[i][v + 1] = c[1] /\ f[i][v + 2] = c[2]
      BY <2>2, <3>1, <3>2
    <3>5. ASSUME NEW k \in 1..Len(l[i]) PROVE f[i][0 + k] = l[i][k]
      <4>1. 0 + k = k
        BY <3>2
      <4>2. lc[k] = l[i][k]
        BY <2>2
      <4> QED
        BY <3>1, <4>1, <4>2
    <3>6. v + 2 = 0 + v + 2
      OBVIOUS
    <3> QED
      BY <2>3, <3>2, <3>3, <3>4, <3>5, <3>6
  <2>5. CASE i # 1
    <3>1. i \in 2..n /\ i - 1 \in 1..n
      BY <2>5
    <3>2. PICK g \in Seq(B) : g = f[i - 1]
      BY <1>1, <3>1
    <3>3. f[i] = g \o lc /\ ends[i - 1] = Len(g) /\ Len(g) \in Nat
      <4>1. f[i] = g \o lc
        BY <2>1, <3>1, <3>2
      <4>2. ends[i - 1] = Len(g)
        BY <1>7, <3>1, <3>2
      <4> QED
        BY <4>1, <4>2
    <3>4. /\ Len(f[i]) = Len(g) + Len(lc)
          /\ \A k \in 1..Len(lc) : f[i][Len(g) + k] = lc[k]
      <4>1. Len(g \o lc) = Len(g) + Len(lc) /\ \A k \in 1..Len(lc) : (g \o lc)[Len(g) + k] = lc[k]
        <5>1. g \in Seq(B) /\ lc \in Seq(B)
          BY <2>2, <3>2
        <5> QED
          BY <5>1, Joined
      <4> QED
        BY <3>3, <4>1
    <3>5. ends[i] = Len(g) + (Len(l[i]) + 2) /\ ends[i] - 1 = Len(g) + (Len(l[i]) + 1)
      <4>1. PICK u \in Nat, v \in Nat : u = Len(g) /\ v = Len(l[i])
        BY <2>2, <3>3
      <4>2. ends[i] = u + (v + 2)
        BY <2>2, <2>3, <3>4, <4>1
      <4>3. ends[i] - 1 = u + (v + 1)
        BY <4>1, <4>2
      <4> QED
        BY <4>1, <4>2, <4>3
    <3>6. Len(l[i]) + 1 \in 1..Len(lc) /\ Len(l[i]) + 2 \in 1..Len(lc)
      <4>1. PICK v \in Nat : v = Len(l[i])
        BY <2>2
      <4>2. v + 1 \in 1..(v + 2) /\ v + 2 \in 1..(v + 2)
        OBVIOUS
      <4> QED
        BY <2>2, <4>1, <4>2
    <3>7. f[i][ends[i] - 1] = c[1] /\ f[i][ends[i]] = c[2]
      <4>1. f[i][Len(g) + (Len(l[i]) + 1)] = lc[Len(l[i]) + 1]
        BY <3>4, <3>6
      <4>2. f[i][Len(g) + (Len(l[i]) + 2)] = lc[Len(l[i]) + 2]
        BY <3>4, <3>6
      <4> QED
        BY <2>2, <3>5, <4>1, <4>2
    <3>8. \A k \in 1..Len(l[i]) : f[i][Len(g) + k] = l[i][k]
      <4>1. \A k \in 1..Len(l[i]) : k \in 1..Len(lc)
        BY <2>2
      <4> QED
        BY <2>2, <3>4, <4>1
    <3>9. ends[i] = ends[i - 1] + Len(l[i]) + 2
      <4>1. PICK u \in Nat, v \in Nat : u = Len(g) /\ v = Len(l[i])
        BY <2>2, <3>3
      <4>2. ends[i] = u + (v + 2) /\ ends[i - 1] = u
        BY <3>3, <3>5, <4>1
      <4> QED
        BY <4>1, <4>2
    <3>10. \A k \in 1..Len(l[i]) : f[i][ends[i - 1] + k] = l[i][k]
      BY <3>3, <3>8
    <3> QED
      BY <2>3, <3>3, <3>7, <3>9, <3>10
  <2> QED
    BY <2>4, <2>5
<1>9. ASSUME NEW i \in 1..n
      PROVE  /\ ends[i] = ends[i - 1] + Len(l[i]) + 2
             /\ \A k \in 1..Len(l[i]) : text[ends[i - 1] + k] = l[i][k]
             /\ text[ends[i] - 1] = c[1] /\ text[ends[i]] = c[2]
             /\ ends[i] < ends[n + 1]
  <2>1. \A k \in 1..Len(f[i]) : text[k] = f[i][k]
    BY <1>1, <1>2, <1>4, <1>6
  <2>2. PICK p \in Nat, m \in Nat : p = ends[i - 1] /\ m = Len(l[i]) /\ ends[i] = p + m + 2
    BY <1>3, <1>8
  <2>6. ends[i] = Len(f[i])
    BY <1>8
  <2>7. /\ \A k \in 1..m : p + k \in 1..(p + m + 2)
        /\ p + m + 2 \in 1..(p + m + 2) /\ (p + m + 2) - 1 \in 1..(p + m + 2)
    OBVIOUS
  <2>3. \A k \in 1..Len(l[i]) : ends[i - 1] + k \in 1..Len(f[i])
    BY <2>2, <2>6, <2>7
  <2>4. ends[i] \in 1..Len(f[i]) /\ ends[i] - 1 \in 1..Len(f[i])
    BY <2>2, <2>6, <2>7
  <2>5. ends[i] < ends[n + 1]
    <3>1. PICK u \in Nat, v \in Nat : u = Len(f[i]) /\ v = Len(f[n])
      BY <1>1, <1>2
    <3>2. u <= v
      BY <1>4, <3>1
    <3>3. ends[n + 1] = v + 2
      BY <1>6, <1>7, <3>1
    <3>4. ends[i] = u
      BY <2>6, <3>1
    <3> QED
      BY <3>1, <3>2, <3>3, <3>4
  <2> QED
    BY <1>8, <2>1, <2>3, <2>4, <2>5
<1>10. /\ ends[n + 1] = ends[n] + Len(l[n + 1]) + 2
       /\ text[ends[n + 1] - 1] = c[1] /\ text[ends[n + 1]] = c[2]
       /\ \A k \in 1..Len(l[n + 1]) : text[ends[n] + k] = l[n + 1][k]
  <2>1. Len(l[n + 1]) = 0 /\ ends[n] = Len(f[n]) /\ ends[n + 1] - 1 = Len(f[n]) + 1
    BY <1>2, <1>6, <1>7
  <2> QED
    BY <1>2, <1>6, <1>7, <2>1
<1>11. Ends(text, l, c, n, ends)
  <2>1. ASSUME NEW i \in 1..(n + 1)
        PROVE  /\ ends[i] = ends[i - 1] + Len(l[i]) + 2
               /\ \A k \in 1..Len(l[i]) : text[ends[i - 1] + k] = l[i][k]
               /\ text[ends[i] - 1] = c[1] /\ text[ends[i]] = c[2]
               /\ i <= n => ends[i] < ends[n + 1]
    <3>1. CASE i = n + 1
      <4>1. i - 1 = n /\ ~ (i <= n)
        BY <3>1
      <4> QED
        BY <1>10, <3>1, <4>1
    <3>2. CASE i # n + 1
      BY <1>9, <3>2
    <3> QED
      BY <3>1, <3>2
  <2> QED
    BY <1>7, <2>1 DEF Ends
<1> QED
  BY <1>5, <1>6, <1>11

\* ends has where the lines of a end in its text.
Layout(a, ends) == Ends(HeadOf(a), Lines(a), Crlf, Len(a.lines), ends)

LEMMA LinesOf ==
  ASSUME NEW a \in Requests
  PROVE  /\ a.lines \in Seq(Seq(Bytes)) /\ Len(a.lines) \in Nat \ {0}
         /\ \A i \in 1..Len(a.lines) :
              Lines(a)[i] = a.lines[i] /\ a.lines[i] \in Seq(Bytes) /\ a.lines[i] \in Seq(Bytes \ {"CR", "NUL"})
         /\ Lines(a)[Len(a.lines) + 1] = <<>>
         /\ Crlf \in Seq(Bytes) /\ Len(Crlf) = 2 /\ Crlf[1] = "CR" /\ Crlf[2] = "LF"
<1>1. /\ a.lines \in Seq(Seq(Bytes \ {"CR", "NUL"})) /\ a.lines # <<>>
      /\ "CR" \in Bytes /\ "LF" \in Bytes
  BY LineAssumption
<1>2. Seq(Bytes \ {"CR", "NUL"}) \subseteq Seq(Bytes)
  OBVIOUS
<1>3. a.lines \in Seq(Seq(Bytes)) /\ Len(a.lines) \in Nat \ {0}
  BY <1>1, <1>2
<1>4. \A i \in 1..Len(a.lines) : a.lines[i] \in Seq(Bytes \ {"CR", "NUL"}) /\ a.lines[i] \in Seq(Bytes)
  BY <1>1, <1>2
<1>5. \A i \in 1..Len(a.lines) : Lines(a)[i] = a.lines[i]
  BY <1>3 DEF Lines
<1>6. Lines(a)[Len(a.lines) + 1] = <<>>
  BY <1>3 DEF Lines
<1>7. Crlf \in Seq(Bytes) /\ Len(Crlf) = 2 /\ Crlf[1] = "CR" /\ Crlf[2] = "LF"
  BY <1>1 DEF Crlf
<1> QED
  BY <1>3, <1>4, <1>5, <1>6, <1>7

LEMMA Layouts == \A a \in Requests : HeadOf(a) \in Seq(Bytes) /\ \E ends : Layout(a, ends)
<1> SUFFICES ASSUME NEW a \in Requests PROVE HeadOf(a) \in Seq(Bytes) /\ \E ends : Layout(a, ends)
  OBVIOUS
<1>1. PICK n \in Nat \ {0} : n = Len(a.lines)
  BY LinesOf
<1>2. PICK s : s = [i \in DOMAIN a.lines |-> a.lines[i] \o Crlf]
  OBVIOUS
<1>3. a.lines \in Seq(Seq(Bytes)) /\ Crlf \in Seq(Bytes)
  BY LinesOf
<1>4. s \in Seq(Seq(Bytes)) /\ Len(s) = n /\ s # <<>> /\ \A i \in 1..n : s[i] = a.lines[i] \o Crlf
  <2>1. PICK ls \in Seq(Seq(Bytes)) : ls = a.lines
    BY <1>3
  <2>2. s = [i \in 1..n |-> ls[i] \o Crlf] /\ \A i \in 1..n : ls[i] \in Seq(Bytes)
    BY <1>1, <1>2, <2>1
  <2>3. \A i \in 1..n : ls[i] \o Crlf \in Seq(Bytes)
    BY <1>3, <2>2, Joined
  <2>4. s \in Seq(Seq(Bytes)) /\ Len(s) = n
    BY <2>2, <2>3
  <2> QED
    BY <2>1, <2>2, <2>4
<1>5. PICK f \in [1..n -> Seq(Bytes)] : Piecewise(s, f, n) /\ FlattenSeq(s) = f[n]
  BY <1>4, Flattened
<1>6. HeadOf(a) = f[n] \o Crlf
  BY <1>2, <1>5 DEF HeadOf
<1>7. PICK l : l = Lines(a)
  OBVIOUS
<1>8. l[n + 1] = <<>> /\ \A i \in 1..n : l[i] = a.lines[i] /\ l[i] \in Seq(Bytes)
  <2>1. Lines(a)[Len(a.lines) + 1] = <<>>
    BY LinesOf
  <2>2. \A i \in 1..Len(a.lines) : Lines(a)[i] = a.lines[i] /\ a.lines[i] \in Seq(Bytes)
    BY LinesOf
  <2>3. l[n + 1] = <<>>
    BY <1>1, <1>7, <2>1
  <2>4. ASSUME NEW i \in 1..n PROVE l[i] = a.lines[i] /\ l[i] \in Seq(Bytes)
    <3>1. i \in 1..Len(a.lines)
      BY <1>1
    <3>2. Lines(a)[i] = a.lines[i] /\ a.lines[i] \in Seq(Bytes)
      BY <2>2, <3>1
    <3> QED
      BY <1>7, <3>2
  <2> QED
    BY <2>3, <2>4
<1>9. f[1] = l[1] \o Crlf /\ \A i \in 2..n : f[i] = f[i - 1] \o (l[i] \o Crlf)
  <2>1. 1 \in 1..n /\ \A i \in 2..n : i \in 1..n
    OBVIOUS
  <2>2. f[1] = s[1] /\ \A i \in 2..n : f[i] = f[i - 1] \o s[i]
    BY <1>5 DEF Piecewise
  <2>3. \A i \in 1..n : s[i] = l[i] \o Crlf
    BY <1>4, <1>8
  <2> QED
    BY <2>1, <2>2, <2>3
<1>10. Len(Crlf) = 2
  BY LinesOf
<1>11. f[n] \o Crlf \in Seq(Bytes) /\ \E ends : Ends(f[n] \o Crlf, l, Crlf, n, ends)
  BY <1>3, <1>8, <1>9, <1>10, TextEnds
<1> QED
  BY <1>1, <1>6, <1>7, <1>11 DEF Layout

-----------------------------------------------------------------------------
(* Numbers *)

\* The room for a line in the buffer.
Room == sgx_size - 1

LEMMA Sizes == Room \in Nat \ {0} /\ sgx_size = Room + 1 /\ Len(Name) \in Nat /\ Len(Name) + 1 <= Room
<1>1. sgx_size \in Nat /\ Len(Name) + 1 < sgx_size /\ Len(Name) \in Nat
  BY LineAssumption
<1> QED
  BY <1>1 DEF Room

\* No multiple of r but zero lies between -r and r.
LEMMA NoMultiple ==
  ASSUME NEW r \in Nat \ {0}, NEW k \in Int, -r < r * k, r * k < r
  PROVE  k = 0
<1>1. CASE k >= 1
  <2>1. r * k >= r
    BY <1>1
  <2> QED
    BY <2>1
<1>2. CASE k <= -1
  <2>1. r * k <= -r
    BY <1>2
  <2> QED
    BY <2>1
<1> QED
  BY <1>1, <1>2

\* What comes less than r after a multiple of r leaves just that.
LEMMA Remainder ==
  ASSUME NEW r \in Nat \ {0}, NEW o \in Nat, o % r = 0, NEW t \in Nat, t < r
  PROVE  (o + t) % r = t
<1>1. PICK a \in Int : o = r * a
  <2>1. o \div r \in Int /\ o = r * (o \div r) + (o % r)
    OBVIOUS
  <2> QED
    BY <2>1
<1>2. PICK b \in Int, u \in 0..(r - 1) : o + t = r * b + u /\ (o + t) % r = u
  <2>1. (o + t) \div r \in Int /\ (o + t) % r \in 0..(r - 1) /\ o + t = r * ((o + t) \div r) + ((o + t) % r)
    OBVIOUS
  <2> QED
    BY <2>1
<1>3. r * (b - a) = t - u
  BY <1>1, <1>2
<1>4. b - a \in Int /\ -r < r * (b - a) /\ r * (b - a) < r
  BY <1>2, <1>3
<1>5. b - a = 0
  BY ONLY <1>4, r \in Nat \ {0}, NoMultiple
<1>6. r * (b - a) = 0
  BY <1>5
<1> QED
  BY <1>2, <1>3, <1>6

LEMMA NextMultiple ==
  ASSUME NEW r \in Nat \ {0}, NEW o \in Nat, o % r = 0
  PROVE  (o + r) % r = 0
<1>1. PICK a \in Int : o = r * a
  <2>1. o \div r \in Int /\ o = r * (o \div r) + (o % r)
    OBVIOUS
  <2> QED
    BY <2>1
<1>2. PICK b \in Int, u \in 0..(r - 1) : o + r = r * b + u /\ (o + r) % r = u
  <2>1. (o + r) \div r \in Int /\ (o + r) % r \in 0..(r - 1) /\ o + r = r * ((o + r) \div r) + ((o + r) % r)
    OBVIOUS
  <2> QED
    BY <2>1
<1>3. r * ((b - a) - 1) = -u
  BY <1>1, <1>2
<1>4. (b - a) - 1 \in Int /\ -r < r * ((b - a) - 1) /\ r * ((b - a) - 1) < r
  BY <1>2, <1>3
<1>5. (b - a) - 1 = 0
  BY ONLY <1>4, r \in Nat \ {0}, NoMultiple
<1>6. r * ((b - a) - 1) = 0
  BY <1>5
<1> QED
  BY <1>2, <1>3, <1>6

\* The least number of a set, as the community modules have it.
LEMMA LeastIs ==
  ASSUME NEW S \in SUBSET Nat, S # {}
  PROVE  Min(S) \in S /\ \A y \in S : Min(S) <= y
  BY HP!Least DEF Min

LEMMA MaxIs ==
  ASSUME NEW S \in SUBSET Nat, NEW x \in S, \A y \in S : x >= y
  PROVE  Max(S) = x
<1>1. Max(S) \in S /\ \A y \in S : Max(S) >= y
  BY DEF Max
<1>2. Max(S) \in Nat /\ x \in Nat /\ Max(S) >= x /\ x >= Max(S)
  BY <1>1
<1> QED
  BY <1>2

-----------------------------------------------------------------------------
(* The inductive invariant *)

\* Every variable has its type.
TypeOK ==
  /\ request \in Requests
  /\ arrived \in 0..Len(Text) /\ taken \in 0..arrived
  /\ closed \in BOOLEAN /\ first \in BOOLEAN
  /\ buf \in [0..Room -> Bytes] /\ tail \in 0..Room
  /\ pc \in {"read", "peek", "line", "refused", "body"}
  /\ pc = "peek" => tail < Room
  /\ contlen \in Seq(Digits) \cup {None}

\* The peer has sent all, or may still.
Whole == Sent \/ ~ closed

\* The lines before the i-th that give the length of the body, and what they make it.
LengthsTo(i) == {j \in Lengths : j < i}

LengthUpTo(i) ==
  IF LengthsTo(i) = {} THEN None
  ELSE LET line == request.lines[Max(LengthsTo(i))]
       IN  SubSeq(line, Len(Name) + 2, Len(line))

\* What LengthAsSent says of a request.
Plain ==
  /\ \A i \in DOMAIN request.lines : Len(request.lines[i]) < sgx_size - 1 /\ ~ EndsHeaders(i)
  /\ \A i \in Lengths : Usual(request.lines[i])

\* The call of sgx_get_fd_line that is on began o bytes into the i-th line: o is a
\* multiple of what fits in the buffer, in which the bytes after it are.
At(ends, i, o) ==
  /\ i \in 1..(Len(request.lines) + 1)
  /\ o \in Nat /\ o % Room = 0 /\ o + tail <= Len(Lines(request)[i])
  /\ \A x \in 0..(tail - 1) : buf[x] = Lines(request)[i][o + x + 1]
  /\ pc = "read" => taken = ends[i - 1] + o + tail
  /\ pc = "peek" => taken = ends[i] - 1 /\ o + tail = Len(Lines(request)[i])
  /\ pc = "line" =>
       \/ tail = Room /\ taken = ends[i - 1] + o + tail
       \/ tail < Room /\ taken = ends[i] /\ o + tail = Len(Lines(request)[i])
  /\ first <=> (i = 1 /\ o = 0)
  /\ \A j \in 1..(i - 1) : ~ EndsHeaders(j)
  /\ Plain => contlen = LengthUpTo(i)

\* The thread is at some such place until the headers end.
LineInv ==
  Whole /\ pc \in {"read", "peek", "line"} =>
    \A ends : Layout(request, ends) => \E i, o : At(ends, i, o)

IInv == TypeOK /\ LineInv /\ BodyFollows /\ LengthAsSent

-----------------------------------------------------------------------------
(* The steps *)

\* What the text of the request has, line by line.
LEMMA TextHas ==
  ASSUME request \in Requests, NEW ends, Layout(request, ends)
  PROVE  /\ Text \in Seq(Bytes) /\ Len(Text) \in Nat
         /\ ends[Len(request.lines) + 1] = Len(HeadOf(request)) /\ Len(HeadOf(request)) <= Len(Text)
         /\ ends[0] = 0
         /\ \A i \in 1..(Len(request.lines) + 1) :
              /\ ends[i - 1] \in Nat /\ ends[i] \in Nat /\ Len(Lines(request)[i]) \in Nat
              /\ ends[i] = ends[i - 1] + Len(Lines(request)[i]) + 2
              /\ ends[i] <= Len(Text)
              /\ \A k \in 1..Len(Lines(request)[i]) :
                   Text[ends[i - 1] + k] = Lines(request)[i][k] /\ Lines(request)[i][k] # "CR"
              /\ Text[ends[i] - 1] = "CR" /\ Text[ends[i]] = "LF"
              /\ i <= Len(request.lines) => ends[i] < ends[Len(request.lines) + 1]
<1>1. PICK n \in Nat \ {0} : n = Len(request.lines)
  BY LinesOf
<1>2. PICK l : l = Lines(request)
  OBVIOUS
<1>3. PICK head \in Seq(Bytes) : head = HeadOf(request)
  BY Layouts
<1>4. PICK body \in Seq(Bytes) : body = request.body
  BY LineAssumption
<1>5. Crlf[1] = "CR" /\ Crlf[2] = "LF"
  BY LinesOf
<1>6. Ends(head, l, Crlf, n, ends)
  BY <1>1, <1>2, <1>3 DEF Layout
<1>7. /\ Text \in Seq(Bytes) /\ Len(Text) = Len(head) + Len(body)
      /\ Len(head) \in Nat /\ Len(body) \in Nat
      /\ \A k \in 1..Len(head) : Text[k] = head[k]
  BY <1>3, <1>4, Joined DEF Text
<1>8. ASSUME NEW i \in 1..n PROVE l[i] \in Seq(Bytes \ {"CR", "NUL"})
  BY <1>1, <1>2, LinesOf
<1>9. l[n + 1] = <<>>
  BY <1>1, <1>2, LinesOf
<1>10. ASSUME NEW i \in 1..(n + 1)
       PROVE  Len(l[i]) \in Nat /\ \A k \in 1..Len(l[i]) : l[i][k] # "CR"
  <2>1. CASE i = n + 1
    BY <1>9, <2>1
  <2>2. CASE i # n + 1
    <3>1. l[i] \in Seq(Bytes \ {"CR", "NUL"})
      BY <1>8, <2>2
    <3> QED
      BY <3>1
  <2> QED
    BY <2>1, <2>2
<1>11. ends \in [0..(n + 1) -> Nat] /\ ends[0] = 0 /\ ends[n + 1] = Len(head)
  BY <1>6 DEF Ends
<1>12. ASSUME NEW i \in 1..(n + 1)
       PROVE  /\ ends[i - 1] \in Nat /\ ends[i] \in Nat /\ Len(l[i]) \in Nat
              /\ ends[i] = ends[i - 1] + Len(l[i]) + 2
              /\ ends[i] <= Len(Text)
              /\ \A k \in 1..Len(l[i]) : Text[ends[i - 1] + k] = l[i][k] /\ l[i][k] # "CR"
              /\ Text[ends[i] - 1] = "CR" /\ Text[ends[i]] = "LF"
              /\ i <= n => ends[i] < ends[n + 1]
  <2>1. /\ ends[i] = ends[i - 1] + Len(l[i]) + 2
        /\ \A k \in 1..Len(l[i]) : head[ends[i - 1] + k] = l[i][k]
        /\ head[ends[i] - 1] = Crlf[1] /\ head[ends[i]] = Crlf[2]
        /\ i <= n => ends[i] < ends[n + 1]
    BY <1>6 DEF Ends
  <2>2. ends[i - 1] \in Nat /\ ends[i] \in Nat
    BY <1>11
  <2>3. PICK p \in Nat, m \in Nat : p = ends[i - 1] /\ m = Len(l[i]) /\ ends[i] = p + m + 2
    BY <1>10, <2>1, <2>2
  <2>4. ends[i] <= Len(head)
    <3>1. CASE i = n + 1
      BY <1>11, <2>2, <3>1
    <3>2. CASE i # n + 1
      BY <1>11, <2>1, <2>2, <3>2
    <3> QED
      BY <3>1, <3>2
  <2>5. /\ \A k \in 1..m : p + k \in 1..Len(head)
        /\ p + m + 2 \in 1..Len(head) /\ (p + m + 2) - 1 \in 1..Len(head)
    <3>1. PICK h \in Nat : h = Len(head) /\ p + m + 2 <= h
      BY <1>7, <2>3, <2>4
    <3> QED
      BY <3>1
  <2>6. \A k \in 1..m : Text[p + k] = l[i][k] /\ l[i][k] # "CR"
    BY <1>7, <1>10, <2>1, <2>3, <2>5
  <2>7. Text[ends[i] - 1] = "CR" /\ Text[ends[i]] = "LF"
    BY <1>5, <1>7, <2>1, <2>3, <2>5
  <2>8. ends[i] <= Len(Text)
    BY <1>7, <2>2, <2>4
  <2> QED
    BY <2>1, <2>2, <2>3, <2>6, <2>7, <2>8
<1> QED
  BY <1>1, <1>2, <1>3, <1>7, <1>11, <1>12

\* atoi gives the digits that follow at once, up to the first byte that is none.
LEMMA NumberIs ==
  ASSUME NEW line \in [0..Room -> Bytes], NEW p \in 0..Room
  PROVE  /\ Number(line, p) \in Seq(Digits)
         /\ \A e \in p..Room :
              p < e /\ line[e] \notin Digits /\ (\A k \in p..(e - 1) : line[k] \in Digits)
                => /\ Len(Number(line, p)) = e - p
                   /\ \A i \in 1..(e - p) : Number(line, p)[i] = line[p + i - 1]
<1> DEFINE cells == p..Room
           Froms == {k \in cells : line[k] # "SP"} \cup {Room + 1}
           from == Min(Froms)
           Tos == {k \in cells : k >= from /\ line[k] \notin Digits} \cup {Room + 1}
           to == Min(Tos)
<1>1. Room \in Nat /\ sgx_size = Room + 1 /\ sgx_size - 1 = Room
  BY Sizes DEF Room
<1>2. Number(line, p) = [i \in 1..(to - from) |-> line[from + i - 1]]
  BY <1>1 DEF Number
<1>3. from \in Froms /\ \A y \in Froms : from <= y
  <2>1. Froms \in SUBSET Nat /\ Froms # {}
    BY <1>1
  <2> HIDE DEF Froms
  <2> QED
    BY <2>1, LeastIs
<1>4. from \in p..(Room + 1)
  BY <1>1, <1>3
<1> HIDE DEF from
<1>5. to \in Tos /\ \A y \in Tos : to <= y
  <2>1. Tos \in SUBSET Nat /\ Tos # {}
    BY <1>1
  <2> HIDE DEF Tos
  <2> QED
    BY <2>1, LeastIs
<1>6. to \in from..(Room + 1)
  BY <1>1, <1>4, <1>5
<1> HIDE DEF to
<1>7. ASSUME NEW k \in from..(to - 1) PROVE line[k] \in Digits
  <2>1. k \in cells /\ k >= from /\ ~ (to <= k)
    BY <1>1, <1>4, <1>6
  <2>2. k \notin Tos
    BY <1>5, <2>1
  <2> QED
    BY <2>1, <2>2
<1>8. to - from \in Nat /\ \A i \in 1..(to - from) : from + i - 1 \in from..(to - 1)
  BY <1>1, <1>4, <1>6
<1>9. Number(line, p) \in Seq(Digits)
  <2>1. \A i \in 1..(to - from) : line[from + i - 1] \in Digits
    BY <1>7, <1>8
  <2>2. PICK m \in Nat : m = to - from
    BY <1>8
  <2> QED
    BY <1>2, <2>1, <2>2
<1>10. ASSUME NEW e \in p..Room, p < e, line[e] \notin Digits,
              \A k \in p..(e - 1) : line[k] \in Digits
       PROVE  /\ Len(Number(line, p)) = e - p
              /\ \A i \in 1..(e - p) : Number(line, p)[i] = line[p + i - 1]
  <2>1. from = p
    <3>1. p \in p..(e - 1) /\ p \in cells /\ line[p] \in Digits
      BY <1>1, <1>10
    <3>2. line[p] # "SP"
      BY <3>1 DEF Digits
    <3>3. p \in Froms
      BY <3>1, <3>2
    <3> QED
      BY <1>1, <1>3, <1>4, <3>3
  <2>2. e \in Tos
    BY <1>1, <1>10, <2>1
  <2>3. to <= e
    BY <1>5, <2>2
  <2>4. ~ (to < e)
    <3> SUFFICES ASSUME to < e PROVE FALSE
      OBVIOUS
    <3>1. to \in p..(e - 1) /\ to # Room + 1
      BY <1>1, <1>6, <2>1
    <3>2. line[to] \in Digits
      BY <1>10, <3>1
    <3> QED
      BY <1>5, <3>1, <3>2
  <2>5. to = e
    BY <1>1, <1>6, <2>1, <2>3, <2>4
  <2>6. PICK m \in Nat : m = e - p /\ m = to - from
    BY <1>8, <2>1, <2>5
  <2> QED
    BY <1>2, <2>1, <2>6
<1> QED
  BY <1>9, <1>10

LEMMA TypesInit == Init => TypeOK
<1> SUFFICES ASSUME Init PROVE TypeOK
  OBVIOUS
<1>1. request \in Requests /\ Room \in Nat \ {0} /\ sgx_size - 1 = Room
  BY Sizes DEF Init, Room
<1>2. Text \in Seq(Bytes)
  BY <1>1, Layouts, TextHas
<1>3. Len(Text) \in Nat
  BY <1>2
<1>4. Garbage \subseteq Bytes
  BY LineAssumption
<1>5. buf \in [0..Room -> Bytes]
  BY <1>1, <1>4 DEF Init, Uninitialised
<1> QED
  BY <1>1, <1>3, <1>5 DEF Init, TypeOK

LEMMA TypesStep == TypeOK /\ [Next]_vars => TypeOK'
<1> SUFFICES ASSUME TypeOK, [Next]_vars PROVE TypeOK'
  OBVIOUS
<1> USE DEF TypeOK
<1>1. /\ Room \in Nat \ {0} /\ sgx_size - 1 = Room /\ Len(Name) \in Nat /\ Len(Name) + 1 \in 0..Room
      /\ Len(Name) \in 0..Room
  BY Sizes DEF Room
<1>2. Text \in Seq(Bytes) /\ Len(Text) \in Nat
  <2>1. Text \in Seq(Bytes)
    BY Layouts, TextHas
  <2> QED
    BY <2>1
<1>3. {"LF", "NUL"} \cup Garbage \subseteq Bytes
  BY LineAssumption
<1>4. Uninitialised \subseteq [0..Room -> Bytes]
  BY <1>1, <1>3 DEF Uninitialised
<1>5. request' = request => Text' = Text
  BY DEF Text
<1>6. ASSUME NEW c \in Bytes, Store(c), tail < Room
      PROVE  buf' \in [0..Room -> Bytes] /\ tail' \in 0..Room
  BY <1>1, <1>6 DEF Store
<1>7. CASE Send
  <2>1. arrived' \in (arrived + 1)..Len(Text)
    BY <1>7 DEF Send
  <2> QED
    BY <1>2, <1>5, <1>7, <2>1 DEF Send
<1>8. CASE CloseConn
  BY <1>5, <1>8 DEF CloseConn
<1>9. CASE Read
  <2>1. taken \in Nat /\ arrived \in Nat /\ taken < arrived /\ taken + 1 \in 1..Len(Text) /\ tail < Room
    BY <1>1, <1>2, <1>9 DEF Read, Ready
  <2>2. NextByte \in Bytes
    BY <1>2, <2>1 DEF NextByte
  <2>3. taken' \in 0..arrived
    BY <1>9, <2>1 DEF Read, Take
  <2>4. CASE NextByte = "CR"
    BY <1>5, <1>9, <2>1, <2>3, <2>4 DEF Read
  <2>5. CASE NextByte # "CR"
    <3>1. Store(NextByte) /\ pc' = pc
      BY <1>9, <2>5 DEF Read
    <3>2. buf' \in [0..Room -> Bytes] /\ tail' \in 0..Room
      BY <1>6, <2>1, <2>2, <3>1
    <3> QED
      BY <1>5, <1>9, <2>3, <3>1, <3>2 DEF Read
  <2> QED
    BY <2>4, <2>5
<1>10. CASE ReadStops
  BY <1>5, <1>10 DEF ReadStops
<1>11. CASE Peek
  <2>1. CASE Ready /\ NextByte = "LF"
    <3>1. taken' \in 0..arrived
      BY <1>2, <1>11, <2>1 DEF Peek, Ready, TakesLf, Take
    <3> QED
      BY <1>5, <1>11, <2>1, <3>1 DEF Peek
  <2>2. CASE ~ (Ready /\ NextByte = "LF")
    <3>1. Store("LF") /\ UNCHANGED taken /\ tail < Room
      BY <1>11, <2>2 DEF Peek
    <3>2. buf' \in [0..Room -> Bytes] /\ tail' \in 0..Room
      BY <1>3, <1>6, <3>1
    <3> QED
      BY <1>5, <1>11, <3>1, <3>2 DEF Peek
  <2> QED
    BY <2>1, <2>2
<1>12. CASE FirstLine
  <2>1. buf' \in [0..Room -> Bytes]
    BY <1>4, <1>12 DEF FirstLine
  <2> QED
    BY <1>1, <1>5, <1>12, <2>1 DEF FirstLine
<1>13. Line \in [0..Room -> Bytes]
  BY <1>1, <1>3 DEF Line
<1>14. CASE Header
  <2>1. PICK line : /\ line = [Line EXCEPT ![Len(Name)] = "NUL"]
                    /\ buf' = line
                    /\ contlen' = Number(line, ValueAt) \/ contlen' = contlen
    BY <1>14 DEF Header
  <2>2. line \in [0..Room -> Bytes]
    BY <1>1, <1>3, <1>13, <2>1
  <2>3. Number(line, ValueAt) \in Seq(Digits)
    BY <1>1, <2>2, NumberIs DEF ValueAt
  <2> QED
    BY <1>1, <1>5, <1>14, <2>1, <2>2, <2>3 DEF Header
<1>15. CASE HeadersDone
  BY <1>5, <1>13, <1>15 DEF HeadersDone
<1>16. CASE UNCHANGED vars
  BY <1>5, <1>16 DEF vars
<1> QED
  BY <1>7, <1>8, <1>9, <1>10, <1>11, <1>12, <1>14, <1>15, <1>16 DEF Next, Thread

\* Nothing is known of the length before the headers.
LEMMA NoLengthYet == LengthUpTo(1) = None /\ LengthUpTo(2) = None
<1>1. LengthsTo(1) = {} /\ LengthsTo(2) = {}
  BY DEF LengthsTo, Lengths
<1> QED
  BY <1>1 DEF LengthUpTo

LEMMA LineInit == Init => LineInv
<1> SUFFICES ASSUME Init, NEW ends, Layout(request, ends) PROVE At(ends, 1, 0)
  BY DEF LineInv
<1>1. request \in Requests
  BY DEF Init
<1>2. Room \in Nat \ {0} /\ Len(request.lines) \in Nat
  BY <1>1, Sizes, LinesOf
<1>3. 0 % Room = 0
  BY <1>2
<1>4. ends[0] = 0 /\ Len(Lines(request)[1]) \in Nat
  BY <1>1, <1>2, TextHas
<1>5. contlen = LengthUpTo(1)
  BY NoLengthYet DEF Init
<1> QED
  BY <1>2, <1>3, <1>4, <1>5 DEF At, Init

\* A line of which t bytes are left after a multiple of what fits.
LEMMA RestEnds ==
  ASSUME request \in Requests, NEW i \in 1..Len(request.lines), NEW o \in Nat, o % Room = 0,
         NEW t \in 0..Room, o + t = Len(request.lines[i])
  PROVE  /\ 0 < t /\ t < Room =>
              (EndsHeaders(i) <=> t = 1 /\ request.lines[i][o + 1] = "LF" /\ (i = 1 => o > 0))
         /\ t = 0 /\ o > 0 => EndsHeaders(i)
<1>1. Room \in Nat \ {0} /\ sgx_size - 1 = Room
  BY Sizes DEF Room
<1>2. PICK line \in Seq(Bytes) : line = request.lines[i]
  BY LinesOf
<1>3. EndsHeaders(i) <=> /\ line # <<>>
                         /\ \/ Len(line) % Room = 0
                            \/ Len(line) % Room = 1 /\ line[Len(line)] = "LF" /\ (i = 1 => Len(line) > 1)
  BY <1>1, <1>2 DEF EndsHeaders, Last
<1>4. line # <<>> <=> Len(line) > 0
  BY <1>2
<1>5. Len(line) = o + t /\ (t < Room => (o + t) % Room = t)
  <2>1. Len(line) = o + t /\ t \in Nat
    BY <1>1, <1>2
  <2>2. ASSUME t < Room PROVE (o + t) % Room = t
    BY <1>1, <2>1, <2>2, Remainder
  <2> QED
    BY <2>1, <2>2
<1> QED
  BY <1>1, <1>3, <1>4, <1>5, <1>2

\* Where the headers end, all was read or a line had ended them.
LEMMA WhereHeadersEnd ==
  ASSUME TypeOK, NEW ends, Layout(request, ends), NEW i, NEW o, At(ends, i, o),
         pc = "line", ~ first, ~ GoesOn
  PROVE  /\ taken = Len(HeadOf(request)) <=> \A j \in DOMAIN request.lines : ~ EndsHeaders(j)
         /\ Plain => i = Len(request.lines) + 1
<1>1. PICK n \in Nat \ {0} : n = Len(request.lines) /\ DOMAIN request.lines = 1..n
  BY LinesOf DEF TypeOK
<1>2. Room \in Nat \ {0} /\ sgx_size - 1 = Room
  BY Sizes DEF Room
<1>3. /\ request \in Requests /\ tail \in 0..Room /\ i \in 1..(n + 1) /\ o \in Nat /\ o % Room = 0
      /\ o + tail <= Len(Lines(request)[i])
      /\ \A x \in 0..(tail - 1) : buf[x] = Lines(request)[i][o + x + 1]
      /\ \/ tail = Room /\ taken = ends[i - 1] + o + tail
         \/ tail < Room /\ taken = ends[i] /\ o + tail = Len(Lines(request)[i])
      /\ ~ (i = 1 /\ o = 0)
      /\ \A j \in 1..(i - 1) : ~ EndsHeaders(j)
  BY <1>1 DEF At, TypeOK
<1>4. tail = 0 \/ (tail = 1 /\ buf[0] = "LF")
  BY <1>3 DEF GoesOn
<1>5. /\ ends[n + 1] = Len(HeadOf(request)) /\ ends[i - 1] \in Nat /\ ends[i] \in Nat
      /\ Len(Lines(request)[i]) \in Nat /\ ends[i] = ends[i - 1] + Len(Lines(request)[i]) + 2
      /\ i <= n => ends[i] < ends[n + 1] /\ ends[n + 1] \in Nat
  <2>1. /\ n + 1 \in 1..(Len(request.lines) + 1) /\ i \in 1..(Len(request.lines) + 1)
        /\ n + 1 = Len(request.lines) + 1 /\ request \in Requests
    BY <1>1, <1>3
  <2>2. ends[n + 1] \in Nat
    BY <2>1, TextHas
  <2>3. ends[n + 1] = Len(HeadOf(request))
    BY <2>1, TextHas
  <2>4. /\ ends[i - 1] \in Nat /\ ends[i] \in Nat
        /\ Len(Lines(request)[i]) \in Nat /\ ends[i] = ends[i - 1] + Len(Lines(request)[i]) + 2
        /\ i <= Len(request.lines) => ends[i] < ends[Len(request.lines) + 1]
    BY <2>1, TextHas
  <2> QED
    BY <1>1, <2>2, <2>3, <2>4
<1>6. CASE i = n + 1
  <2>1. Len(Lines(request)[i]) = 0
    BY <1>1, <1>3, <1>6, LinesOf
  <2>2. tail = 0 /\ taken = ends[n + 1]
    BY <1>2, <1>3, <1>6, <2>1
  <2> QED
    BY <1>1, <1>3, <1>5, <1>6, <2>2
<1>7. CASE i # n + 1
  <2>1. i \in 1..n
    BY <1>3, <1>7
  <2>2. PICK l \in Seq(Bytes) : l = Lines(request)[i] /\ l = request.lines[i]
    BY <1>1, <1>3, <2>1, LinesOf
  <2>3. taken <= ends[i] /\ taken \in Nat
    <3>1. PICK p \in Nat, m \in Nat : /\ p = ends[i - 1] /\ m = Len(Lines(request)[i])
                                      /\ ends[i] = p + m + 2
      BY <1>5
    <3>2. taken = p + o + tail \/ taken = p + m + 2
      BY <1>3, <3>1
    <3>3. o + tail <= m /\ o \in Nat /\ tail \in Nat
      BY <1>2, <1>3, <3>1
    <3>4. p + o + tail <= p + m + 2 /\ p + o + tail \in Nat /\ p + m + 2 \in Nat
      BY <3>3
    <3> QED
      BY <3>1, <3>2, <3>4
  <2>4. taken # ends[n + 1]
    BY <1>5, <2>1, <2>3
  <2>5. EndsHeaders(i)
    <3>1. CASE tail = 0
      <4>1. o = Len(l)
        BY <1>2, <1>3, <2>2, <3>1
      <4>2. CASE o = 0
        <5>1. l = <<>>
          <6>1. Len(l) = 0
            BY <4>1, <4>2
          <6> QED
            BY <6>1
        <5>2. i = 1
          <6>1. \A j \in 2..n : request.lines[j] # <<>>
            BY <1>1, <1>3, LineAssumption
          <6>2. i \notin 2..n
            BY <2>2, <5>1, <6>1
          <6> QED
            BY <2>1, <6>2
        <5> QED
          BY <1>3, <4>2, <5>2
      <4>3. CASE o > 0
        <5>1. o + 0 = Len(request.lines[i]) /\ 0 \in 0..Room
          BY <1>2, <1>3, <2>2, <4>1
        <5> QED
          BY <1>1, <1>3, <2>1, <4>3, <5>1, RestEnds
      <4> QED
        BY <1>3, <4>2, <4>3
    <3>2. CASE tail = 1 /\ buf[0] = "LF"
      <4>1. l[o + 1] = "LF"
        BY <1>3, <2>2, <3>2
      <4>2. CASE tail < Room
        <5>1. o + 1 = Len(request.lines[i]) /\ 1 \in 0..Room
          BY <1>2, <1>3, <2>2, <3>2, <4>2
        <5> QED
          BY <1>1, <1>3, <2>1, <2>2, <3>2, <4>1, <4>2, <5>1, RestEnds
      <4>3. CASE tail = Room
        <5>1. Room = 1 /\ sgx_size - 1 = 1
          BY <1>2, <3>2, <4>3
        <5>2. Len(l) \in Nat /\ Len(l) >= 1 /\ l # <<>>
          BY <1>3, <2>2, <3>2
        <5>3. Len(l) % (sgx_size - 1) = 0
          BY <5>1, <5>2
        <5> QED
          BY <2>2, <5>2, <5>3 DEF EndsHeaders
      <4> QED
        BY <1>3, <4>2, <4>3
    <3> QED
      BY <1>4, <3>1, <3>2
  <2>6. ~ Plain
    BY <1>1, <2>1, <2>5 DEF Plain
  <2> QED
    BY <1>1, <1>5, <2>1, <2>4, <2>5, <2>6
<1> QED
  BY <1>6, <1>7

\* What the loop over the headers keeps of a line that it has in one piece.
LEMMA HeaderLength ==
  ASSUME TypeOK, Plain, NEW i \in 2..Len(request.lines), contlen = LengthUpTo(i),
         tail = Len(request.lines[i]), tail < Room,
         \A x \in 0..(tail - 1) : buf[x] = request.lines[i][x + 1],
         NEW line, line = [Line EXCEPT ![Len(Name)] = "NUL"]
  PROVE  (IF \A k \in DOMAIN Name : line[k - 1] = Name[k] THEN Number(line, ValueAt) ELSE contlen)
           = LengthUpTo(i + 1)
<1>1. PICK N \in Nat : N = Len(Name) /\ N + 1 <= Room /\ DOMAIN Name = 1..N
  BY Sizes, LineAssumption
<1>2. PICK l \in Seq(Bytes) : l = request.lines[i] /\ Len(l) = tail /\ Len(l) \in Nat
  <2>1. request \in Requests
    BY DEF TypeOK
  <2>2. request.lines[i] \in Seq(Bytes)
    BY <2>1, LinesOf
  <2> QED
    BY <2>2
<1>3. Room \in Nat \ {0} /\ sgx_size - 1 = Room /\ i \in Nat
  BY Sizes DEF Room
<1>4. "NUL" \in Bytes /\ \A k \in 1..N : Name[k] # "NUL"
  BY <1>1, LineAssumption
<1>5. /\ line \in [0..Room -> Bytes] /\ line[N] = "NUL" /\ line[tail] = "NUL"
      /\ \A x \in 0..(tail - 1) : x # N => line[x] = l[x + 1]
  <2>1. PICK b \in [0..Room -> Bytes] : b = buf
    BY DEF TypeOK
  <2>2. tail \in 0..Room /\ N \in 0..Room /\ 0..(tail - 1) \subseteq 0..Room
    BY <1>1, <1>2, <1>3
  <2>3. line = [[b EXCEPT ![tail] = "NUL"] EXCEPT ![N] = "NUL"]
    BY <1>1, <2>1 DEF Line
  <2>4. line \in [0..Room -> Bytes] /\ line[N] = "NUL" /\ line[tail] = "NUL"
    <3>0. [b EXCEPT ![tail] = "NUL"] \in [0..Room -> Bytes]
      BY <1>4, <2>2
    <3>1. PICK c \in [0..Room -> Bytes] : c = [b EXCEPT ![tail] = "NUL"] /\ c[tail] = "NUL"
      BY <2>2, <3>0
    <3>2. line = [c EXCEPT ![N] = "NUL"]
      BY <2>3, <3>1
    <3> QED
      BY <1>4, <2>2, <3>1, <3>2
  <2>5. \A x \in 0..(tail - 1) : x \in 0..Room /\ x # tail /\ b[x] = l[x + 1]
    <3>1. ASSUME NEW x \in 0..(tail - 1) PROVE buf[x] = l[x + 1]
      BY <1>2
    <3>2. \A x \in 0..(tail - 1) : x \in 0..Room /\ x # tail
      BY <1>3, <2>2
    <3> QED
      BY <2>1, <3>1, <3>2
  <2>6. \A x \in 0..(tail - 1) : x # N => line[x] = l[x + 1]
    BY <2>3, <2>5
  <2> QED
    BY <2>4, <2>6
<1> DEFINE Named == \A k \in DOMAIN Name : line[k - 1] = Name[k]
<1>6. Named <=> IsPrefix(Name, l)
  <2>1. Name \in Seq(Bytes)
    BY LineAssumption
  <2>2. ASSUME N <= tail PROVE SubSeq(Name, 1, N) = SubSeq(l, 1, N) <=> \A k \in 1..N : Name[k] = l[k]
    BY <1>1, <1>2, <2>1, <2>2
  <2>3. IsPrefix(Name, l) <=> N <= tail /\ \A k \in 1..N : Name[k] = l[k]
    BY <1>1, <1>2, <2>2 DEF IsPrefix
  <2>4. ASSUME N <= tail PROVE Named <=> \A k \in 1..N : Name[k] = l[k]
    <3>1. \A k \in 1..N : line[k - 1] = l[k]
      <4>1. ASSUME NEW k \in 1..N PROVE line[k - 1] = l[k]
        <5>1. k - 1 \in 0..(tail - 1) /\ k - 1 # N /\ (k - 1) + 1 = k
          BY <1>1, <1>2, <2>4
        <5> QED
          BY <1>5, <5>1
      <4> QED
        BY <4>1
    <3> QED
      BY <1>1, <3>1
  <2>5. ASSUME N > tail PROVE ~ Named
    <3>1. tail + 1 \in 1..N /\ (tail + 1) - 1 = tail
      BY <1>1, <1>2, <2>5
    <3>2. line[(tail + 1) - 1] # Name[tail + 1]
      BY <1>4, <1>5, <3>1
    <3> QED
      BY <1>1, <3>1, <3>2
  <2> QED
    BY <1>1, <1>2, <2>3, <2>4, <2>5
<1>7. LengthsTo(i + 1) = LengthsTo(i) \cup (IF Named THEN {i} ELSE {})
  <2>1. Lengths \subseteq Nat /\ (i \in Lengths <=> Named)
    BY <1>2, <1>6 DEF Lengths
  <2> HIDE DEF Named
  <2>2. \A j \in Lengths : j < i + 1 <=> (j < i \/ j = i)
    BY <1>3, <2>1
  <2> QED
    BY <1>3, <2>1, <2>2 DEF LengthsTo
<1>8. CASE ~ Named
  <2>1. LengthUpTo(i + 1) = LengthUpTo(i)
    BY <1>7, <1>8 DEF LengthUpTo
  <2> QED
    BY <1>8, <2>1
<1>9. CASE Named
  <2>1. i \in LengthsTo(i + 1) /\ LengthsTo(i + 1) \in SUBSET Nat /\ \A j \in LengthsTo(i + 1) : i >= j
    BY <1>3, <1>7, <1>9 DEF LengthsTo, Lengths
  <2>2. Max(LengthsTo(i + 1)) = i
    <3> HIDE DEF Named
    <3> QED
      BY <2>1, MaxIs
  <2>3. LengthUpTo(i + 1) = SubSeq(l, N + 2, tail)
    BY <1>1, <1>2, <2>1, <2>2 DEF LengthUpTo
  <2>4. i \in Lengths
    BY <1>2, <1>6, <1>9 DEF Lengths
  <2>5. N + 1 < tail /\ ToSet(SubSeq(l, N + 2, tail)) \subseteq Digits
    BY <1>1, <1>2, <2>4 DEF Plain, Usual
  <2>6. /\ SubSeq(l, N + 2, tail) \in Seq(Bytes)
        /\ Len(SubSeq(l, N + 2, tail)) = tail - (N + 1)
        /\ \A k \in 1..(tail - (N + 1)) : SubSeq(l, N + 2, tail)[k] = l[N + 1 + k]
    <3>1. N + 1 < Len(l) /\ Len(l) = tail
      BY <1>2, <2>5
    <3> QED
      BY <1>1, <3>1, Dropped
  <2>7. ASSUME NEW x \in (N + 1)..(tail - 1) PROVE line[x] \in Digits
    <3>1. x - N \in 1..(tail - (N + 1)) /\ N + 1 + (x - N) = x + 1
      <4>1. tail \in Nat /\ N + 1 < tail
        BY <1>2, <2>5
      <4> QED
        BY <1>1, <4>1
    <3>2. PICK sub : sub = SubSeq(l, N + 2, tail)
      OBVIOUS
    <3>3. x - N \in DOMAIN sub /\ sub[x - N] = l[x + 1]
      BY <2>6, <3>1, <3>2
    <3>4. l[x + 1] \in Digits
      BY <2>5, <3>2, <3>3 DEF ToSet
    <3>5. line[x] = l[x + 1]
      <4>1. x \in 0..(tail - 1) /\ x # N
        BY <1>1, <1>2
      <4> QED
        BY <1>5, <4>1
    <3> QED
      BY <3>4, <3>5
  <2>8. /\ ValueAt = N + 1 /\ N + 1 \in 0..Room /\ tail \in (N + 1)..Room /\ N + 1 < tail
        /\ line[tail] \notin Digits
    BY <1>1, <1>2, <1>3, <1>5, <2>5 DEF ValueAt, Digits
  <2>9. /\ Number(line, ValueAt) \in Seq(Digits)
        /\ Len(Number(line, ValueAt)) = tail - (N + 1)
        /\ \A k \in 1..(tail - (N + 1)) : Number(line, ValueAt)[k] = line[N + 1 + k - 1]
    <3>1. line \in [0..Room -> Bytes] /\ ValueAt \in 0..Room
      BY <1>5, <2>8
    <3>2. tail \in ValueAt..Room /\ ValueAt < tail /\ \A k \in ValueAt..(tail - 1) : line[k] \in Digits
      BY <2>7, <2>8
    <3>3. /\ Number(line, ValueAt) \in Seq(Digits)
          /\ Len(Number(line, ValueAt)) = tail - ValueAt
          /\ \A k \in 1..(tail - ValueAt) : Number(line, ValueAt)[k] = line[ValueAt + k - 1]
      <4>1. PICK v \in 0..Room : v = ValueAt
        BY <3>1
      <4>2. PICK e \in v..Room : e = tail
        BY <3>2, <4>1
      <4>3. v < e /\ line[e] \notin Digits /\ \A k \in v..(e - 1) : line[k] \in Digits
        BY <2>8, <3>2, <4>1, <4>2
      <4>4. /\ Number(line, v) \in Seq(Digits) /\ Len(Number(line, v)) = e - v
            /\ \A k \in 1..(e - v) : Number(line, v)[k] = line[v + k - 1]
        <5>1. /\ Number(line, v) \in Seq(Digits)
              /\ \A d \in v..Room :
                   v < d /\ line[d] \notin Digits /\ (\A k \in v..(d - 1) : line[k] \in Digits)
                     => /\ Len(Number(line, v)) = d - v
                        /\ \A k \in 1..(d - v) : Number(line, v)[k] = line[v + k - 1]
          BY <3>1, NumberIs
        <5> QED
          BY <4>3, <5>1
      <4> QED
        BY <4>1, <4>2, <4>4
    <3> QED
      BY <2>8, <3>3
  <2>10. \A k \in 1..(tail - (N + 1)) : line[N + 1 + k - 1] = l[N + 1 + k]
    <3>1. ASSUME NEW k \in 1..(tail - (N + 1)) PROVE line[N + 1 + k - 1] = l[N + 1 + k]
      <4>1. N + 1 + k - 1 \in 0..(tail - 1) /\ N + 1 + k - 1 # N /\ (N + 1 + k - 1) + 1 = N + 1 + k
        BY <1>1, <1>2, <2>5
      <4> QED
        BY <1>5, <4>1
    <3> QED
      BY <3>1
  <2>11. Number(line, ValueAt) = SubSeq(l, N + 2, tail)
    <3>1. PICK s \in Seq(Bytes) : s = Number(line, ValueAt)
      <4>1. Digits \subseteq Bytes
        BY LineAssumption
      <4> QED
        BY <2>9, <4>1
    <3>2. PICK t \in Seq(Bytes) : t = SubSeq(l, N + 2, tail)
      BY <2>6
    <3>3. Len(s) = tail - (N + 1) /\ Len(t) = tail - (N + 1)
      BY <2>6, <2>9, <3>1, <3>2
    <3>4. \A k \in 1..(tail - (N + 1)) : s[k] = t[k]
      BY <2>6, <2>9, <2>10, <3>1, <3>2
    <3>5. s = t
      BY <3>3, <3>4, SeqEqual
    <3> QED
      BY <3>1, <3>2, <3>5
  <2> QED
    BY <1>9, <2>3, <2>11
<1> QED
  BY <1>8, <1>9

\* A request does not change, nor what is said of it.
LEMMA SameRequest ==
  ASSUME request' = request
  PROVE  /\ Plain' <=> Plain
         /\ \A i : LengthUpTo(i)' = LengthUpTo(i) /\ (EndsHeaders(i)' <=> EndsHeaders(i))
         /\ HeadOf(request)' = HeadOf(request) /\ Lines(request)' = Lines(request)
         /\ \A ends : Layout(request, ends)' <=> Layout(request, ends)
<1>1. \A i : EndsHeaders(i)' <=> EndsHeaders(i)
  BY DEF EndsHeaders
<1>2. Lengths' = Lengths
  BY DEF Lengths
<1>3. Plain' <=> Plain
  BY <1>1, <1>2 DEF Plain
<1>4. \A i : LengthUpTo(i)' = LengthUpTo(i)
  BY <1>2 DEF LengthUpTo, LengthsTo
<1>5. HeadOf(request)' = HeadOf(request) /\ Lines(request)' = Lines(request)
  OBVIOUS
<1>6. \A ends : Layout(request, ends)' <=> Layout(request, ends)
  OBVIOUS
<1> QED
  BY <1>1, <1>3, <1>4, <1>5, <1>6

\* A request that is whole after a step was so before.
LEMMA WholeBefore ==
  ASSUME [Next]_vars, Whole'
  PROVE  request' = request /\ Whole
<1>1. request' = request
  BY DEF Next, Send, CloseConn, Thread, Read, ReadStops, Peek, FirstLine, Header, HeadersDone, vars
<1>2. Text' = Text
  BY <1>1 DEF Text
<1>3. \/ ~ closed
      \/ UNCHANGED <<arrived, closed>>
  BY DEF Next, Send, CloseConn, Thread, Read, ReadStops, Peek, FirstLine, Header, HeadersDone, vars
<1> QED
  BY <1>1, <1>2, <1>3 DEF Whole, Sent

\* A step inside a call of sgx_get_fd_line.
LEMMA ReadingKeeps ==
  ASSUME TypeOK, TypeOK', Whole, NEW ends, Layout(request, ends), NEW i, NEW o, At(ends, i, o),
         Read \/ ReadStops \/ Peek
  PROVE  At(ends, i, o)'
<1> DEFINE n == Len(request.lines)
<1>1. request' = request /\ first' = first /\ contlen' = contlen /\ arrived' = arrived
  BY DEF Read, ReadStops, Peek
<1>2. Room \in Nat \ {0} /\ sgx_size - 1 = Room /\ tail \in 0..Room /\ request \in Requests
  BY Sizes DEF Room, TypeOK
<1>3. PICK l : l = Lines(request)[i] /\ l = Lines(request)'[i]
  BY <1>1
<1>4. /\ i \in 1..(n + 1) /\ o \in Nat /\ o % Room = 0 /\ o + tail <= Len(l)
      /\ \A x \in 0..(tail - 1) : buf[x] = l[o + x + 1]
      /\ pc = "read" => taken = ends[i - 1] + o + tail
      /\ pc = "peek" => taken = ends[i] - 1 /\ o + tail = Len(l)
  BY <1>3 DEF At
<1>5. PICK p \in Nat, m \in Nat : /\ p = ends[i - 1] /\ m = Len(l) /\ ends[i] = p + m + 2
                                  /\ p + m + 2 <= Len(Text)
                                  /\ \A k \in 1..m : Text[p + k] = l[k] /\ l[k] # "CR"
                                  /\ Text[(p + m + 2) - 1] = "CR" /\ Text[p + m + 2] = "LF"
                                  /\ Len(Text) \in Nat
  <2>1. request \in Requests /\ i \in 1..(Len(request.lines) + 1)
    BY <1>2, <1>4
  <2>2. /\ ends[i - 1] \in Nat /\ Len(Lines(request)[i]) \in Nat
        /\ ends[i] = ends[i - 1] + Len(Lines(request)[i]) + 2
        /\ ends[i] <= Len(Text) /\ Len(Text) \in Nat
    BY <2>1, TextHas
  <2>3. \A k \in 1..Len(Lines(request)[i]) :
          Text[ends[i - 1] + k] = Lines(request)[i][k] /\ Lines(request)[i][k] # "CR"
    BY <2>1, TextHas
  <2>4. Text[ends[i] - 1] = "CR" /\ Text[ends[i]] = "LF"
    BY <2>1, TextHas
  <2>5. PICK p \in Nat : p = ends[i - 1]
    BY <2>2
  <2>6. PICK m \in Nat : m = Len(l)
    BY <1>3, <2>2
  <2>7. ends[i] = p + m + 2
    BY <1>3, <2>2, <2>5, <2>6
  <2>8. \A k \in 1..m : Text[p + k] = l[k] /\ l[k] # "CR"
    BY <1>3, <2>3, <2>5, <2>6
  <2>9. /\ p + m + 2 <= Len(Text) /\ Len(Text) \in Nat
        /\ Text[(p + m + 2) - 1] = "CR" /\ Text[p + m + 2] = "LF"
    BY <2>2, <2>4, <2>7
  <2> QED
    BY <2>5, <2>6, <2>7, <2>8, <2>9
<1>6. /\ first <=> (i = 1 /\ o = 0)
      /\ \A j \in 1..(i - 1) : ~ EndsHeaders(j)
      /\ Plain => contlen = LengthUpTo(i)
  BY DEF At
<1> HIDE DEF n
<1>7. /\ first' <=> (i = 1 /\ o = 0)
      /\ \A j \in 1..(i - 1) : ~ EndsHeaders(j)'
      /\ Plain' => contlen' = LengthUpTo(i)'
  BY <1>1, <1>6, SameRequest
\* What remains to be shown of each step.
<1>8. ASSUME o + tail' <= m, \A x \in 0..(tail' - 1) : buf'[x] = l[o + x + 1],
             pc' = "read" => taken' = p + o + tail',
             pc' = "peek" => taken' = (p + m + 2) - 1 /\ o + tail' = m,
             pc' = "line" => \/ tail' = Room /\ taken' = p + o + tail'
                             \/ tail' < Room /\ taken' = p + m + 2 /\ o + tail' = m
      PROVE  At(ends, i, o)'
  <2>1. i \in 1..(Len(request'.lines) + 1) /\ Lines(request')[i] = l
    BY <1>1, <1>3, <1>4 DEF n
  <2> QED
    BY <1>4, <1>5, <1>7, <1>8, <2>1 DEF At
<1>9. pc \in {"read", "peek"} => taken < Len(Text)
  <2>1. o + tail <= m /\ tail \in Nat /\ o \in Nat
    BY <1>2, <1>4, <1>5
  <2>2. p + o + tail < p + m + 2 /\ (p + m + 2) - 1 < p + m + 2
    BY <2>1
  <2>3. pc \in {"read", "peek"} => taken = p + o + tail \/ taken = (p + m + 2) - 1
    BY <1>4, <1>5
  <2>4. p + o + tail \in Nat /\ (p + m + 2) - 1 \in Nat /\ p + m + 2 \in Nat
    BY <2>1
  <2>5. taken < p + m + 2 \/ ~ (pc \in {"read", "peek"})
    BY <2>2, <2>3
  <2>6. Len(Text) \in Nat /\ p + m + 2 <= Len(Text) /\ taken \in Nat
    BY <1>5 DEF TypeOK
  <2> QED
    BY <2>4, <2>5, <2>6
<1>10. pc \in {"read", "peek"} => ~ AtEnd
  BY <1>9 DEF AtEnd, Whole, Sent, TypeOK
<1>11. CASE Read
  <2>1. pc = "read" /\ tail < Room /\ taken' = taken + 1 /\ taken = p + o + tail
    BY <1>2, <1>4, <1>5, <1>11 DEF Read, Take
  <2>2. CASE o + tail = m
    <3>1. taken + 1 = (p + m + 2) - 1
      BY <1>2, <1>4, <2>1, <2>2
    <3>2. NextByte = "CR"
      BY <1>5, <3>1 DEF NextByte
    <3>3. pc' = "peek" /\ buf' = buf /\ tail' = tail
      BY <1>11, <3>2 DEF Read
    <3> QED
      BY <1>4, <1>5, <1>8, <2>1, <2>2, <3>1, <3>3
  <2>3. CASE o + tail # m
    <3>1. PICK k \in 1..m : k = o + tail + 1 /\ taken + 1 = p + k
      <4>1. o + tail <= m /\ tail \in Nat /\ o \in Nat /\ o + tail # m
        BY <1>2, <1>4, <1>5, <2>3
      <4>2. o + tail + 1 \in 1..m /\ p + o + tail + 1 = p + (o + tail + 1)
        BY <4>1
      <4> QED
        BY <2>1, <4>2
    <3>2. NextByte = l[k] /\ NextByte # "CR"
      BY <1>5, <3>1 DEF NextByte
    <3>3. pc' = "read" /\ buf' = [buf EXCEPT ![tail] = l[k]] /\ tail' = tail + 1
      BY <1>11, <2>1, <3>2 DEF Read, Store
    <3>4. \A x \in 0..(tail' - 1) : buf'[x] = l[o + x + 1]
      <4>1. ASSUME NEW x \in 0..(tail' - 1) PROVE buf'[x] = l[o + x + 1]
        <5>1. x \in 0..Room /\ DOMAIN buf = 0..Room
          BY <1>2, <2>1, <3>3 DEF TypeOK
        <5>2. CASE x = tail
          BY <3>1, <3>3, <5>1, <5>2
        <5>3. CASE x # tail
          <6>1. x \in 0..(tail - 1)
            BY <1>2, <3>3, <5>3
          <6> QED
            BY <1>4, <3>3, <5>1, <5>3, <6>1
        <5> QED
          BY <5>2, <5>3
      <4> QED
        BY <4>1
    <3>5. o + tail' <= m /\ taken' = p + o + tail'
      BY <1>2, <1>4, <2>1, <3>1, <3>3
    <3> QED
      BY <1>8, <3>3, <3>4, <3>5
  <2> QED
    BY <2>2, <2>3
<1>12. CASE ReadStops
  <2>1. pc = "read" /\ tail = Room /\ pc' = "line" /\ buf' = buf /\ tail' = tail /\ taken' = taken
    BY <1>2, <1>10, <1>12 DEF ReadStops
  <2> QED
    BY <1>4, <1>5, <1>8, <2>1
<1>13. CASE Peek
  <2>1. pc = "peek" /\ tail < Room /\ taken = (p + m + 2) - 1 /\ o + tail = m
    BY <1>4, <1>5, <1>13 DEF Peek, TypeOK
  <2>2. Ready /\ taken + 1 = p + m + 2
    BY <1>5, <1>10, <1>13, <2>1 DEF Peek
  <2>3. NextByte = "LF"
    BY <1>5, <2>2 DEF NextByte
  <2>4. taken' = taken + 1 /\ buf' = buf /\ tail' = tail /\ pc' = "line"
    BY <1>13, <2>2, <2>3 DEF Peek, TakesLf, Take
  <2> QED
    BY <1>4, <1>5, <1>8, <2>1, <2>2, <2>4
<1> QED
  BY <1>11, <1>12, <1>13

\* The next call of sgx_get_fd_line begins where the last one has ended.
LEMMA NextCall ==
  ASSUME TypeOK, request' = request, tail' = 0, pc' = "read", first' = FALSE,
         NEW ends, Layout(request, ends),
         NEW j \in 1..(Len(request.lines) + 1), NEW u \in Nat, u % Room = 0,
         u <= Len(Lines(request)[j]), taken' = ends[j - 1] + u, ~ (j = 1 /\ u = 0),
         \A k \in 1..(j - 1) : ~ EndsHeaders(k), Plain => contlen' = LengthUpTo(j)
  PROVE  At(ends, j, u)'
<1>1. ends[j - 1] \in Nat /\ Len(Lines(request)[j]) \in Nat
  BY TextHas DEF TypeOK
<1>2. /\ Plain' => contlen' = LengthUpTo(j)'
      /\ \A k \in 1..(j - 1) : ~ EndsHeaders(k)'
      /\ Lines(request)' = Lines(request)
  BY SameRequest
<1>3. u + tail' = u /\ taken' = ends[j - 1] + u + tail'
  BY <1>1
<1>4. \A x \in 0..(tail' - 1) : buf'[x] = Lines(request')[j][u + x + 1]
  OBVIOUS
<1> QED
  BY <1>2, <1>3, <1>4 DEF At

\* What the callers of sgx_get_fd_line have when it has returned.
LEMMA Returned ==
  ASSUME TypeOK, NEW ends, Layout(request, ends), NEW i, NEW o, At(ends, i, o), pc = "line", tail > 0
  PROVE  /\ i \in 1..Len(request.lines) /\ Len(request.lines) \in Nat
         /\ o \in Nat /\ o % Room = 0 /\ tail \in 1..Room
         /\ Lines(request)[i] = request.lines[i]
         /\ Len(request.lines[i]) \in Nat /\ o + tail <= Len(request.lines[i])
         /\ \A x \in 0..(tail - 1) : buf[x] = request.lines[i][o + x + 1]
         /\ ends[i - 1] \in Nat
         /\ \/ tail = Room /\ taken = ends[i - 1] + o + tail
            \/ tail < Room /\ taken = ends[i] /\ o + tail = Len(request.lines[i])
         /\ first <=> (i = 1 /\ o = 0)
         /\ \A j \in 1..(i - 1) : ~ EndsHeaders(j)
         /\ Plain => contlen = LengthUpTo(i)
<1>1. PICK n \in Nat \ {0} : n = Len(request.lines)
  BY LinesOf DEF TypeOK
<1>2. /\ request \in Requests /\ tail \in 1..Room /\ i \in 1..(n + 1) /\ o \in Nat /\ o % Room = 0
      /\ o + tail <= Len(Lines(request)[i])
  BY <1>1, Sizes DEF At, TypeOK
<1>3. i # n + 1
  <2>1. Len(Lines(request)[n + 1]) = 0
    BY <1>1, <1>2, LinesOf
  <2> QED
    BY <1>2, <2>1
<1>4. i \in 1..Len(request.lines) /\ Lines(request)[i] = request.lines[i]
  <2>1. i \in 1..n
    BY <1>2, <1>3
  <2>2. \A j \in 1..Len(request.lines) : Lines(request)[j] = request.lines[j]
    BY <1>2, LinesOf
  <2> QED
    BY <1>1, <2>1, <2>2
<1>5. ends[i - 1] \in Nat /\ Len(Lines(request)[i]) \in Nat
  BY <1>1, <1>2, TextHas
<1> QED
  BY <1>1, <1>2, <1>4, <1>5 DEF At

LEMMA FirstLineKeeps ==
  ASSUME TypeOK, NEW ends, Layout(request, ends), NEW i, NEW o, At(ends, i, o),
         FirstLine, pc' # "refused"
  PROVE  \E j, u : At(ends, j, u)'
<1>1. /\ pc = "line" /\ first /\ pc' = "read" /\ tail' = 0 /\ first' = FALSE /\ tail # 0
      /\ request' = request /\ taken' = taken /\ contlen' = contlen
  BY DEF FirstLine
<1>2. Room \in Nat \ {0} /\ tail > 0
  BY <1>1, Sizes DEF TypeOK
<1>3. i = 1 /\ o = 0 /\ request \in Requests
  BY <1>1, <1>2, Returned DEF TypeOK
<1>4. /\ 1 \in 1..Len(request.lines) /\ Len(request.lines) \in Nat /\ tail \in 1..Room
      /\ Lines(request)[1] = request.lines[1]
      /\ Len(request.lines[1]) \in Nat /\ tail <= Len(request.lines[1])
      /\ ends[0] \in Nat
      /\ \/ tail = Room /\ taken = ends[0] + tail
         \/ tail < Room /\ taken = ends[1] /\ tail = Len(request.lines[1])
      /\ Plain => contlen = LengthUpTo(1)
  <2>1. /\ 1 \in 1..Len(request.lines) /\ Len(request.lines) \in Nat /\ tail \in 1..Room
        /\ Lines(request)[1] = request.lines[1]
        /\ Len(request.lines[1]) \in Nat /\ 0 + tail <= Len(request.lines[1])
        /\ ends[1 - 1] \in Nat
        /\ \/ tail = Room /\ taken = ends[1 - 1] + 0 + tail
           \/ tail < Room /\ taken = ends[1] /\ 0 + tail = Len(request.lines[1])
        /\ Plain => contlen = LengthUpTo(1)
    <3>1. /\ i \in 1..Len(request.lines) /\ Len(request.lines) \in Nat
          /\ tail \in 1..Room
          /\ Lines(request)[i] = request.lines[i]
          /\ Len(request.lines[i]) \in Nat /\ o + tail <= Len(request.lines[i])
          /\ ends[i - 1] \in Nat
          /\ \/ tail = Room /\ taken = ends[i - 1] + o + tail
             \/ tail < Room /\ taken = ends[i] /\ o + tail = Len(request.lines[i])
          /\ Plain => contlen = LengthUpTo(i)
      BY <1>1, <1>2, Returned
    <3> QED
      BY <1>3, <3>1
  <2> QED
    BY <2>1
<1>5. CASE tail = Room
  <2>1. Room % Room = 0
    <3>1. 0 % Room = 0
      BY <1>2
    <3>2. (0 + Room) % Room = 0
      BY <1>2, <3>1, NextMultiple
    <3> QED
      BY <1>2, <3>2
  <2>2. taken' = ends[1 - 1] + Room
    BY <1>1, <1>2, <1>4, <1>5
  <2>3. PICK j \in 1..(Len(request.lines) + 1) : j = 1
    BY <1>4
  <2>4. Room <= Len(Lines(request)[j]) /\ taken' = ends[j - 1] + Room
    BY <1>4, <1>5, <2>2, <2>3
  <2>5. ~ (j = 1 /\ Room = 0) /\ \A k \in 1..(j - 1) : ~ EndsHeaders(k)
    BY <1>2, <2>3
  <2>6. Plain => contlen' = LengthUpTo(j)
    BY <1>1, <1>4, <2>3
  <2>7. At(ends, j, Room)'
    BY <1>1, <1>2, <2>1, <2>4, <2>5, <2>6, NextCall
  <2> QED
    BY <2>7
<1>6. CASE tail # Room
  <2>1. tail < Room /\ taken = ends[2 - 1] /\ tail = Len(request.lines[1])
    BY <1>2, <1>4, <1>6
  <2>2. 0 % Room = 0
    BY <1>2
  <2>3. ~ EndsHeaders(1)
    BY <1>2, <1>3, <1>4, <2>1, <2>2, RestEnds
  <2>4. Plain => contlen' = LengthUpTo(2)
    BY <1>1, <1>4, NoLengthYet
  <2>5. 2 \in 1..(Len(request.lines) + 1) /\ \A k \in 1..(2 - 1) : ~ EndsHeaders(k)
    BY <1>4, <2>3
  <2>6. ends[2 - 1] \in Nat /\ Len(Lines(request)[2]) \in Nat
    BY <1>3, <2>5, TextHas
  <2>7. taken' = ends[2 - 1] + 0 /\ 0 <= Len(Lines(request)[2])
    BY <1>1, <2>1, <2>6
  <2>8. PICK j \in 1..(Len(request.lines) + 1) : j = 2
    BY <2>5
  <2>9. /\ taken' = ends[j - 1] + 0 /\ 0 <= Len(Lines(request)[j]) /\ ~ (j = 1 /\ 0 = 0)
        /\ \A k \in 1..(j - 1) : ~ EndsHeaders(k)
        /\ Plain => contlen' = LengthUpTo(j)
    BY <2>4, <2>5, <2>7, <2>8
  <2>10. At(ends, j, 0)'
    BY <1>1, <2>2, <2>9, NextCall
  <2> QED
    BY <2>10
<1> QED
  BY <1>5, <1>6

LEMMA HeaderKeeps ==
  ASSUME TypeOK, NEW ends, Layout(request, ends), NEW i, NEW o, At(ends, i, o), Header
  PROVE  \E j, u : At(ends, j, u)'
<1>1. PICK line :
        /\ pc = "line" /\ ~ first /\ GoesOn /\ pc' = "read" /\ tail' = 0 /\ first' = FALSE
        /\ request' = request /\ taken' = taken
        /\ line = [Line EXCEPT ![Len(Name)] = "NUL"]
        /\ contlen' = IF \A k \in DOMAIN Name : line[k - 1] = Name[k]
                      THEN Number(line, ValueAt) ELSE contlen
  BY DEF Header, TypeOK
<1>2. Room \in Nat \ {0} /\ sgx_size - 1 = Room /\ tail > 0 /\ ~ (tail = 1 /\ buf[0] = "LF")
      /\ request \in Requests
  BY <1>1, Sizes DEF Room, GoesOn, TypeOK
<1>3. /\ i \in 1..Len(request.lines) /\ Len(request.lines) \in Nat
      /\ o \in Nat /\ o % Room = 0 /\ tail \in 1..Room
      /\ Lines(request)[i] = request.lines[i]
      /\ Len(request.lines[i]) \in Nat /\ o + tail <= Len(request.lines[i])
      /\ \A x \in 0..(tail - 1) : buf[x] = request.lines[i][o + x + 1]
      /\ ends[i - 1] \in Nat
      /\ \/ tail = Room /\ taken = ends[i - 1] + o + tail
         \/ tail < Room /\ taken = ends[i] /\ o + tail = Len(request.lines[i])
      /\ ~ (i = 1 /\ o = 0)
      /\ \A j \in 1..(i - 1) : ~ EndsHeaders(j)
      /\ Plain => contlen = LengthUpTo(i)
  BY <1>1, <1>2, Returned
<1>4. Plain => Len(request.lines[i]) < Room
  BY <1>2, <1>3 DEF Plain
<1>5. CASE tail = Room
  <2>1. ~ Plain
    BY <1>2, <1>3, <1>4, <1>5
  <2>2. (o + Room) % Room = 0
    BY <1>2, <1>3, NextMultiple
  <2>3. o + Room \in Nat /\ o + Room > 0 /\ taken' = ends[i - 1] + (o + Room)
    <3>1. PICK p \in Nat : p = ends[i - 1]
      BY <1>3
    <3>2. taken = p + o + Room
      BY <1>2, <1>3, <1>5, <3>1
    <3> QED
      BY <1>1, <1>2, <1>3, <3>1, <3>2
  <2>4. i \in 1..(Len(request.lines) + 1) /\ o + Room <= Len(Lines(request)[i])
    BY <1>3, <1>5
  <2>5. PICK u \in Nat : u = o + Room
    BY <2>3
  <2>6. u % Room = 0 /\ u <= Len(Lines(request)[i]) /\ taken' = ends[i - 1] + u /\ u # 0
    BY <2>2, <2>3, <2>4, <2>5
  <2>7. At(ends, i, u)'
    BY <1>1, <1>3, <2>1, <2>4, <2>6, NextCall
  <2> QED
    BY <2>7
<1>6. CASE tail # Room
  <2>1. tail < Room /\ taken = ends[i] /\ o + tail = Len(request.lines[i])
    BY <1>2, <1>3, <1>6
  <2>2. ~ EndsHeaders(i)
    <3>1. tail = 1 => request.lines[i][o + 1] # "LF"
      BY <1>2, <1>3
    <3>2. tail \in 0..Room /\ 0 < tail
      BY <1>2, <1>3
    <3>3. EndsHeaders(i) <=> tail = 1 /\ request.lines[i][o + 1] = "LF" /\ (i = 1 => o > 0)
      BY <1>2, <1>3, <2>1, <3>2, RestEnds
    <3> QED
      BY <3>1, <3>3
  <2>3. PICK j \in Nat : j = i + 1 /\ j \in 1..(Len(request.lines) + 1) /\ j - 1 = i /\ j # 1
    BY <1>3
  <2>4. \A k \in 1..(j - 1) : ~ EndsHeaders(k)
    BY <1>3, <2>2, <2>3
  <2>5. Plain => contlen' = LengthUpTo(j)
    <3> SUFFICES ASSUME Plain PROVE contlen' = LengthUpTo(j)
      OBVIOUS
    <3>1. o < Room
      BY <1>2, <1>3, <1>4, <2>1
    <3>2. o = 0
      <4>1. 0 % Room = 0
        BY <1>2
      <4>2. (0 + o) % Room = o
        BY <1>2, <1>3, <3>1, <4>1, Remainder
      <4> QED
        BY <1>3, <4>2
    <3>3. i \in 2..Len(request.lines) /\ tail = Len(request.lines[i])
      BY <1>3, <2>1, <3>2
    <3>4. \A x \in 0..(tail - 1) : buf[x] = request.lines[i][x + 1]
      BY <1>3, <3>2
    <3>5. contlen = LengthUpTo(i)
      BY <1>3
    <3>6. (IF \A k \in DOMAIN Name : line[k - 1] = Name[k] THEN Number(line, ValueAt) ELSE contlen)
            = LengthUpTo(i + 1)
      BY <1>1, <2>1, <3>3, <3>4, <3>5, HeaderLength
    <3> QED
      BY <1>1, <2>3, <3>6
  <2>6. 0 % Room = 0
    BY <1>2
  <2>7. ends[j - 1] \in Nat /\ Len(Lines(request)[j]) \in Nat
    BY <1>2, <2>3, TextHas
  <2>8. taken' = ends[j - 1] + 0 /\ 0 <= Len(Lines(request)[j])
    BY <1>1, <2>1, <2>3, <2>7
  <2>9. At(ends, j, 0)'
    BY <1>1, <2>3, <2>4, <2>5, <2>6, <2>8, NextCall
  <2> QED
    BY <2>9
<1> QED
  BY <1>5, <1>6

\* The peer's steps leave the thread where it is.
LEMMA PeerKeeps ==
  ASSUME NEW ends, NEW i, NEW o, At(ends, i, o),
         UNCHANGED <<request, taken, buf, tail, pc, first, contlen>>
  PROVE  At(ends, i, o)'
<1>1. /\ Plain' <=> Plain
      /\ LengthUpTo(i)' = LengthUpTo(i)
      /\ \A j : EndsHeaders(j)' <=> EndsHeaders(j)
      /\ Lines(request)' = Lines(request)
  BY SameRequest
<1> QED
  BY <1>1 DEF At

LEMMA LineStep == TypeOK /\ TypeOK' /\ LineInv /\ [Next]_vars => LineInv'
<1> SUFFICES ASSUME TypeOK, TypeOK', LineInv, [Next]_vars,
                    Whole', pc' \in {"read", "peek", "line"}, NEW ends, Layout(request, ends)'
             PROVE  (\E i, o : At(ends, i, o))'
  BY DEF LineInv
<1>1. request' = request /\ Whole
  BY WholeBefore
<1>2. Layout(request, ends)
  BY <1>1, SameRequest
<1>3. pc \in {"read", "peek", "line"}
  BY DEF Next, Send, CloseConn, Thread, Read, ReadStops, Peek, FirstLine, Header, HeadersDone, vars
<1>4. PICK i, o : At(ends, i, o)
  BY <1>1, <1>2, <1>3 DEF LineInv
<1>5. CASE Read \/ ReadStops \/ Peek
  <2>1. At(ends, i, o)'
    BY <1>1, <1>2, <1>4, <1>5, ReadingKeeps
  <2> QED
    BY <2>1
<1>6. CASE FirstLine
  BY <1>2, <1>4, <1>6, FirstLineKeeps
<1>7. CASE Header
  BY <1>2, <1>4, <1>7, HeaderKeeps
<1>8. CASE HeadersDone
  BY <1>8 DEF HeadersDone
<1>9. CASE Send \/ CloseConn \/ UNCHANGED vars
  <2>1. UNCHANGED <<request, taken, buf, tail, pc, first, contlen>>
    BY <1>9 DEF Send, CloseConn, vars
  <2>2. At(ends, i, o)'
    BY <1>4, <2>1, PeerKeeps
  <2> QED
    BY <2>2
<1> QED
  BY <1>5, <1>6, <1>7, <1>8, <1>9 DEF Next, Thread

\* After the headers no step changes what they gave, and HeadersDone ends them where
\* WhereHeadersEnd says.
LEMMA EndOfHeaders ==
  ASSUME TypeOK, LineInv, [Next]_vars, Whole', pc' = "body"
  PROVE  \/ pc = "body" /\ UNCHANGED <<request, taken, contlen>>
         \/ /\ UNCHANGED <<request, taken, contlen>>
            /\ taken = Len(HeadOf(request)) <=> \A i \in DOMAIN request.lines : ~ EndsHeaders(i)
            /\ Plain => contlen = LengthUpTo(Len(request.lines) + 1)
<1>1. request' = request /\ Whole
  BY WholeBefore
<1>2. CASE HeadersDone
  <2>1. pc = "line" /\ ~ first /\ ~ GoesOn /\ UNCHANGED <<request, taken, contlen>>
    BY <1>2 DEF HeadersDone
  <2>2. PICK ends : Layout(request, ends)
    BY Layouts DEF TypeOK
  <2>3. PICK i, o : At(ends, i, o)
    BY <1>1, <2>1, <2>2 DEF LineInv
  <2>4. /\ taken = Len(HeadOf(request)) <=> \A j \in DOMAIN request.lines : ~ EndsHeaders(j)
        /\ Plain => i = Len(request.lines) + 1
    BY <2>1, <2>2, <2>3, WhereHeadersEnd
  <2>5. Plain => contlen = LengthUpTo(i)
    BY <2>3 DEF At
  <2> QED
    BY <2>1, <2>4, <2>5
<1>3. CASE ~ HeadersDone
  BY <1>3 DEF Next, Send, CloseConn, Thread, Read, ReadStops, Peek, FirstLine, Header, vars
<1> QED
  BY <1>2, <1>3

LEMMA BodyStep ==
  TypeOK /\ LineInv /\ BodyFollows /\ [Next]_vars => BodyFollows'
<1> SUFFICES ASSUME TypeOK, LineInv, BodyFollows, [Next]_vars, Whole', pc' = "body"
             PROVE  taken' = Len(HeadOf(request)') <=>
                      \A i \in DOMAIN request'.lines : ~ EndsHeaders(i)'
  BY DEF BodyFollows, Whole
<1>1. request' = request /\ Whole
  BY WholeBefore
<1>2. /\ UNCHANGED <<request, taken>>
      /\ taken = Len(HeadOf(request)) <=> \A i \in DOMAIN request.lines : ~ EndsHeaders(i)
  BY <1>1, EndOfHeaders DEF BodyFollows, Whole
<1>3. /\ \A i : EndsHeaders(i)' <=> EndsHeaders(i)
      /\ HeadOf(request)' = HeadOf(request)
  BY <1>1, SameRequest
<1> QED
  BY <1>2, <1>3

\* What LengthAsSent says, in the words of the invariant.
LEMMA AsSentIs ==
  TypeOK =>
    (LengthAsSent <=>
       (pc = "body" /\ Whole /\ Plain => contlen = LengthUpTo(Len(request.lines) + 1)))
<1> SUFFICES ASSUME TypeOK
             PROVE  LengthAsSent <=>
                      (pc = "body" /\ Whole /\ Plain => contlen = LengthUpTo(Len(request.lines) + 1))
  OBVIOUS
<1>1. PICK n \in Nat : n = Len(request.lines)
  BY LinesOf DEF TypeOK
<1>2. LengthsTo(n + 1) = Lengths
  BY <1>1 DEF LengthsTo, Lengths
<1>3. LengthUpTo(n + 1) = IF Lengths = {} THEN None
                          ELSE LET line == request.lines[Max(Lengths)]
                               IN  SubSeq(line, Len(Name) + 2, Len(line))
  BY <1>2 DEF LengthUpTo
<1> QED
  BY <1>1, <1>3 DEF LengthAsSent, Whole, Plain

LEMMA LengthStep ==
  TypeOK /\ TypeOK' /\ LineInv /\ LengthAsSent /\ [Next]_vars => LengthAsSent'
<1> SUFFICES ASSUME TypeOK, TypeOK', LineInv, LengthAsSent, [Next]_vars PROVE LengthAsSent'
  OBVIOUS
<1>1. ASSUME Whole', Plain', pc' = "body"
      PROVE  contlen' = LengthUpTo(Len(request.lines) + 1)'
  <2>1. request' = request /\ Whole
    BY <1>1, WholeBefore
  <2>2. Plain /\ \A i : LengthUpTo(i)' = LengthUpTo(i)
    BY <1>1, <2>1, SameRequest
  <2>3. UNCHANGED contlen /\ contlen = LengthUpTo(Len(request.lines) + 1)
    BY <1>1, <2>1, <2>2, EndOfHeaders, AsSentIs
  <2> QED
    BY <2>1, <2>2, <2>3
<1>2. (TypeOK =>
         (LengthAsSent <=>
            (pc = "body" /\ Whole /\ Plain => contlen = LengthUpTo(Len(request.lines) + 1))))'
  BY AsSentIs, PTL
<1> QED
  BY <1>1, <1>2

LEMMA InitIInv == Init => IInv
<1>1. Init => BodyFollows /\ LengthAsSent
  BY DEF Init, BodyFollows, LengthAsSent
<1> QED
  BY <1>1, TypesInit, LineInit DEF IInv

LEMMA StepIInv == IInv /\ [Next]_vars => IInv'
<1> SUFFICES ASSUME IInv, [Next]_vars PROVE IInv'
  OBVIOUS
<1>1. TypeOK /\ LineInv /\ BodyFollows /\ LengthAsSent
  BY DEF IInv
<1>2. TypeOK'
  BY <1>1, TypesStep
<1>3. LineInv'
  BY <1>1, <1>2, LineStep
<1>4. BodyFollows' /\ LengthAsSent'
  BY <1>1, <1>2, BodyStep, LengthStep
<1> QED
  BY <1>2, <1>3, <1>4 DEF IInv

\* Every variable keeps its type: the bytes read stay within those that came, and the
\* line within the buffer.
THEOREM TypeCorrect == Spec => []TypeOK
<1>1. IInv => TypeOK
  BY DEF IInv
<1> QED
  BY <1>1, InitIInv, StepIInv, PTL DEF Spec

\* Whatever the request and however it comes, what the thread reads next when it takes
\* the headers to have ended is the body, if and only if no line before has left
\* nothing or a lone LF in the buffer (sgx_get_fd_line and line 288 of sgx_mini.c).
THEOREM BodyIsFound == Spec => []BodyFollows
<1>1. IInv => BodyFollows
  BY DEF IInv
<1> QED
  BY <1>1, InitIInv, StepIInv, PTL DEF Spec

\* For lines that fit and a Content-Length as line 291 has it, sgx_contlen is the
\* number that the last of them gives.
THEOREM LengthIsRead == Spec => []LengthAsSent
<1>1. IInv => LengthAsSent
  BY DEF IInv
<1> QED
  BY <1>1, InitIInv, StepIInv, PTL DEF Spec
=============================================================================
