--------------------------- MODULE HttpConnProofs ---------------------------
(***************************************************************************)
(* What the request buffer and the parsers on it guarantee, for every size *)
(* of the ring, every request and every way to cut it into reads.          *)
(*                                                                         *)
(* The first part is about the ring alone: its invariant, and the queue of *)
(* bytes it implements.  Then come the parsers: a call of one is a loop of *)
(* turns (Loops), of a well-formed request every place and byte is known   *)
(* (Where the pieces are), one turn on one byte goes from one known state  *)
(* to the next (byte by byte), and so does a call.  The connection puts    *)
(* the two together, and then come the handlers of the headers.  The       *)
(* other direction, what a request is that the parsers have accepted, is   *)
(* shown of any request, from an invariant of its own (AcceptInv).         *)
(***************************************************************************)
EXTENDS HttpConn, SequenceTheorems, WellFoundedInduction, TLAPS

HP == INSTANCE HeapOpsProofs

-----------------------------------------------------------------------------
(* Places in the ring *)

\* Division with remainder, for the naturals.
LEMMA Division ==
  ASSUME NEW i \in Nat
  PROVE  \E q \in Nat, r \in 0..(SGX_MAX_BUF - 1) :
           i = SGX_MAX_BUF * q + r /\ Place(i) = r
<1>1. /\ i \div SGX_MAX_BUF \in Nat
      /\ i % SGX_MAX_BUF \in 0..(SGX_MAX_BUF - 1)
      /\ i = SGX_MAX_BUF * (i \div SGX_MAX_BUF) + (i % SGX_MAX_BUF)
  BY BufferAssumption
<1> QED
  BY <1>1 DEF Place

\* A place is inside the ring.
LEMMA PlaceInRing ==
  ASSUME NEW i \in Nat
  PROVE  Place(i) \in 0..(SGX_MAX_BUF - 1)
  BY Division

\* No multiple of the size of the ring lies between its neighbours.
LEMMA NoMultiple ==
  ASSUME NEW k \in Int, NEW x \in Int, x = SGX_MAX_BUF * k,
         -SGX_MAX_BUF < x, x < SGX_MAX_BUF
  PROVE  x = 0
<1> DEFINE m == SGX_MAX_BUF
<1>1. m \in Nat \ {0}
  BY BufferAssumption
<1>2. x = m * k /\ -m < x /\ x < m
  OBVIOUS
<1> HIDE DEF m
<1>3. CASE k >= 1
  <2>1. m * k >= m
    BY <1>1, <1>3
  <2> QED
    BY <2>1, <1>1, <1>2
<1>4. CASE k <= -1
  <2>1. m * k <= -m
    BY <1>1, <1>4
  <2> QED
    BY <2>1, <1>1, <1>2
<1>5. CASE k = 0
  BY <1>1, <1>2, <1>5
<1> QED
  BY <1>3, <1>4, <1>5

\* Two indices that are less than the size of the ring apart have two places.
LEMMA PlacesDiffer ==
  ASSUME NEW i \in Nat, NEW j \in Nat, i < j, j < i + SGX_MAX_BUF
  PROVE  Place(i) # Place(j)
<1>1. PICK a \in Nat, r \in 0..(SGX_MAX_BUF - 1) :
        i = SGX_MAX_BUF * a + r /\ Place(i) = r
  BY Division
<1>2. PICK b \in Nat, s \in 0..(SGX_MAX_BUF - 1) :
        j = SGX_MAX_BUF * b + s /\ Place(j) = s
  BY Division
<1>3. SUFFICES ASSUME r = s PROVE FALSE
  BY <1>1, <1>2
<1>4. j - i = SGX_MAX_BUF * (b - a)
  BY <1>1, <1>2, <1>3, BufferAssumption
<1>5. b - a \in Int /\ j - i \in Int /\ -SGX_MAX_BUF < j - i /\ j - i < SGX_MAX_BUF
  BY BufferAssumption
<1>6. j - i = 0
  BY ONLY <1>4, <1>5, NoMultiple
<1> QED
  BY <1>6

\* Up to the end of the ring, places are as far apart as indices.
LEMMA PlacesFollow ==
  ASSUME NEW i \in Nat, NEW k \in Nat, Place(i) + k < SGX_MAX_BUF
  PROVE  Place(i + k) = Place(i) + k
<1>0. i + k \in Nat
  OBVIOUS
<1>1. PICK a \in Nat, r \in 0..(SGX_MAX_BUF - 1) :
        i = SGX_MAX_BUF * a + r /\ Place(i) = r
  BY Division
<1>2. PICK c \in Nat, s \in 0..(SGX_MAX_BUF - 1) :
        i + k = SGX_MAX_BUF * c + s /\ Place(i + k) = s
  BY <1>0, Division
<1>3. r + k - s = SGX_MAX_BUF * (c - a)
  BY <1>1, <1>2, BufferAssumption
<1>4. c - a \in Int /\ r + k - s \in Int
      /\ -SGX_MAX_BUF < r + k - s /\ r + k - s < SGX_MAX_BUF
  BY <1>1, BufferAssumption
<1>5. r + k - s = 0
  BY ONLY <1>3, <1>4, NoMultiple
<1> QED
  BY <1>1, <1>2, <1>5

-----------------------------------------------------------------------------
(***************************************************************************)
(* The inductive invariant.  WindowIntact alone is kept by every step only *)
(* because a read never reaches the places of unread bytes, which needs    *)
(* NoOverflow and the order of pos and last; and the last part remembers   *)
(* that nothing moves once the loop has given up.                          *)
(***************************************************************************)
GivenUp == finish # "none" => pc = "err"

IInv == TypeOK /\ NoOverflow /\ WindowIntact /\ GivenUp /\ FullOnlyWhenFull

\* The ring is empty at first.
LEMMA InitInv == Init => IInv
  BY BufferAssumption
  DEF Init, IInv, TypeOK, NoOverflow, WindowIntact, GivenUp, FullOnlyWhenFull

\* How much a read is asked for, and that it can be nothing only when the ring
\* is full, since there is always a place before the end of buf.
LEMMA Remaining ==
  ASSUME TypeOK, NoOverflow
  PROVE  /\ Place(last) \in 0..(SGX_MAX_BUF - 1)
         /\ remain_size \in Nat
         /\ remain_size <= SGX_MAX_BUF - (last - pos) - 1
         /\ remain_size <= SGX_MAX_BUF - Place(last)
         /\ remain_size = 0 => last - pos = SGX_MAX_BUF - 1
<1>1. Place(last) \in 0..(SGX_MAX_BUF - 1)
  BY PlaceInRing DEF TypeOK
<1> QED
  BY <1>1, BufferAssumption DEF TypeOK, NoOverflow, remain_size, SGX_MIN

\* The bytes a read stores are where the parser will look for them, and the
\* window's older bytes stay where they are.
LEMMA ReadKeepsWindow ==
  ASSUME TypeOK, NoOverflow, WindowIntact, NEW data \in Seq(Bytes), Read(data)
  PROVE  WindowIntact'
<1> DEFINE n == Len(data)
           plast == Place(last)
<1>1. /\ n \in Nat /\ n >= 1 /\ plast \in Nat
      /\ plast + n <= SGX_MAX_BUF
      /\ last' = last + n
      /\ last \in Nat /\ SGX_MAX_BUF \in Nat \ {0}
  <2>1. SGX_MAX_BUF \in Nat \ {0} /\ last \in Nat /\ last' = last + n /\ n \in 1..remain_size
    BY BufferAssumption DEF TypeOK, Read
  <2>2. plast \in Nat /\ remain_size \in Nat /\ remain_size <= SGX_MAX_BUF - plast
    BY Remaining
  <2> HIDE DEF n, plast
  <2> QED
    BY <2>1, <2>2
<1>2. Len(sent') = last'
  <2>1. /\ sent \in Seq(Bytes) /\ Len(sent) = last
        /\ sent' = sent \o data
    BY DEF TypeOK, WindowIntact, Read
  <2>2. Len(sent \o data) = Len(sent) + Len(data)
    BY <2>1, ConcatProperties
  <2> QED
    BY <1>1, <2>1, <2>2
<1>3. ASSUME NEW i \in 0..(last' - 1), i + SGX_MAX_BUF >= last'
      PROVE  buf'[Place(i)] = sent'[i + 1]
  <2>0. i \in Nat /\ i < last + n
    BY <1>1
  <2>1. Place(i) \in DOMAIN buf
    BY <2>0, PlaceInRing DEF TypeOK
  <2>2. buf'[Place(i)] = IF Place(i) \in plast..(plast + n - 1)
                         THEN data[Place(i) - plast + 1] ELSE buf[Place(i)]
    BY <2>1 DEF Read, Filled
  <2>3. CASE i >= last
    <3> DEFINE k == i - last
    <3>1. k \in Nat /\ k < n /\ last + k = i
      BY <1>1, <2>0, <2>3
    <3>2. Place(i) = plast + k
      BY <1>1, <3>1, PlacesFollow
    <3> HIDE DEF k, n, plast
    <3>3. buf'[Place(i)] = data[k + 1]
      <4>1. Place(i) \in plast..(plast + n - 1) /\ Place(i) - plast + 1 = k + 1
        BY <1>1, <3>1, <3>2
      <4> QED
        BY <2>2, <4>1
    <3>4. sent'[i + 1] = data[k + 1]
      <4>1. sent \in Seq(Bytes) /\ Len(sent) = last /\ sent' = sent \o data
        BY DEF TypeOK, WindowIntact, Read
      <4>2. (sent \o data)[Len(sent) + (k + 1)] = data[k + 1]
        <5>1. k + 1 \in 1..Len(data)
          BY <1>1, <3>1 DEF n
        <5> QED
          BY <4>1, <5>1, ConcatProperties
      <4>3. i + 1 = last + (k + 1)
        BY <1>1, <3>1
      <4> QED
        BY <4>1, <4>2, <4>3
    <3> QED
      BY <3>3, <3>4
  <2>4. CASE i < last
    <3>1. ASSUME Place(i) \in plast..(plast + n - 1)
          PROVE  FALSE
      <4>1. PICK k \in 0..(n - 1) : Place(i) = plast + k
        <5>1. Place(i) - plast \in 0..(n - 1)
              /\ Place(i) = plast + (Place(i) - plast)
          BY <1>1, <3>1
        <5> QED
          BY <5>1
      <4>2. k \in Nat /\ Place(last + k) = plast + k
        BY <1>1, PlacesFollow
      <4>3. last + k \in Nat /\ i < last + k /\ last + k < i + SGX_MAX_BUF
        BY <1>1, <1>3, <2>0, <2>4
      <4> QED
        BY <2>0, <4>1, <4>2, <4>3, PlacesDiffer
    <3>2. buf[Place(i)] = sent[i + 1]
      <4>1. i \in 0..(last - 1) /\ i + SGX_MAX_BUF >= last
        BY <1>1, <1>3, <2>0, <2>4
      <4> QED
        BY <4>1 DEF WindowIntact
    <3>3. sent'[i + 1] = sent[i + 1]
      BY <1>1, <2>0, <2>4 DEF TypeOK, WindowIntact, Read
    <3> QED
      BY <2>2, <3>1, <3>2, <3>3
  <2> QED
    BY <1>1, <2>0, <2>3, <2>4
<1> QED
  BY <1>2, <1>3 DEF WindowIntact

\* buf keeps its type when a read writes it.
LEMMA ReadKeepsType ==
  ASSUME TypeOK, NoOverflow, NEW data \in Seq(Bytes), Read(data)
  PROVE  TypeOK'
<1>1. /\ Len(data) \in Nat /\ Place(last) \in Nat
      /\ Place(last) + Len(data) <= SGX_MAX_BUF /\ SGX_MAX_BUF \in Nat
  BY Remaining, BufferAssumption DEF Read
<1>2. Filled(data) \in [0..(SGX_MAX_BUF - 1) -> Bytes \cup {None}]
  <2>1. DOMAIN buf = 0..(SGX_MAX_BUF - 1)
    BY DEF TypeOK
  <2>2. Place(last)..(Place(last) + Len(data) - 1) \subseteq DOMAIN buf
    BY <1>1, <2>1
  <2>3. \A k \in 1..Len(data) : data[k] \in Bytes
    OBVIOUS
  <2> QED
    BY <1>1, <2>1, <2>2, <2>3 DEF TypeOK, Filled
<1>3. sent \o data \in Seq(Bytes)
  BY DEF TypeOK
<1> QED
  BY <1>1, <1>2, <1>3 DEF TypeOK, Read

\* Every step keeps the invariant.
LEMMA NextInv == IInv /\ [Next]_vars => IInv'
<1> SUFFICES ASSUME IInv, [Next]_vars PROVE IInv'
  OBVIOUS
<1> USE DEF IInv
<1>1. CASE Run
  BY <1>1 DEF Run, TypeOK, NoOverflow, WindowIntact, GivenUp, FullOnlyWhenFull
<1>2. ASSUME NEW n \in 1..(MaxBytes - last), NEW data \in [1..n -> Bytes], Read(data)
      PROVE  IInv'
  <2>1. data \in Seq(Bytes)
    BY BufferAssumption DEF TypeOK
  <2>2. TypeOK'
    BY <1>2, <2>1, ReadKeepsType
  <2>3. WindowIntact'
    BY <1>2, <2>1, ReadKeepsWindow
  <2>4. NoOverflow'
    <3>1. Len(data) \in Nat /\ Len(data) <= SGX_MAX_BUF - (last - pos) - 1
      <4>1. remain_size \in Nat /\ remain_size <= SGX_MAX_BUF - (last - pos) - 1
        BY Remaining
      <4>2. Len(data) \in 1..remain_size
        BY <1>2 DEF Read
      <4>3. SGX_MAX_BUF \in Nat /\ last \in Nat /\ pos \in Nat
        BY BufferAssumption DEF TypeOK
      <4> QED
        BY <4>1, <4>2, <4>3
    <3> QED
      BY <1>2, <3>1, BufferAssumption DEF Read, TypeOK, NoOverflow
  <2>5. GivenUp' /\ FullOnlyWhenFull'
    BY <1>2 DEF Read, GivenUp, FullOnlyWhenFull
  <2> QED
    BY <2>2, <2>3, <2>4, <2>5
<1>3. CASE ReadAgain
  BY <1>3 DEF ReadAgain, TypeOK, NoOverflow, WindowIntact, GivenUp, FullOnlyWhenFull
<1>4. CASE ReadNothing
  <2>1. last - pos = SGX_MAX_BUF - 1
    BY <1>4, Remaining DEF ReadNothing
  <2> QED
    BY <1>4, <2>1
    DEF ReadNothing, Err, TypeOK, NoOverflow, WindowIntact, GivenUp, FullOnlyWhenFull
<1>5. CASE ReadEnd
  BY <1>5 DEF ReadEnd, Err, TypeOK, NoOverflow, WindowIntact, GivenUp, FullOnlyWhenFull
<1>6. CASE ReadFails
  BY <1>6 DEF ReadFails, Err, TypeOK, NoOverflow, WindowIntact, GivenUp, FullOnlyWhenFull
<1>7. ASSUME NEW n \in 0..(last - pos), Parse(n)
      PROVE  IInv'
  <2>1. pos' \in Nat /\ pos <= pos' /\ pos' <= last
    BY <1>7 DEF Parse, TypeOK, NoOverflow
  <2>2. finish = "none"
    BY <1>7 DEF Parse, GivenUp
  <2> QED
    BY <1>7, <2>1, <2>2, BufferAssumption
    DEF Parse, TypeOK, NoOverflow, WindowIntact, GivenUp, FullOnlyWhenFull
<1>8. CASE UNCHANGED vars
  BY <1>8 DEF vars, TypeOK, NoOverflow, WindowIntact, GivenUp, FullOnlyWhenFull
<1> QED
  BY <1>1, <1>2, <1>3, <1>4, <1>5, <1>6, <1>7, <1>8 DEF Next

\* The invariant holds in every state of every run of read loop and parsers.
THEOREM Invariant == Spec => []IInv
  BY InitInv, NextInv, PTL DEF Spec

\* Every variable keeps its type; in particular no read writes outside buf.
THEOREM TypeCorrect == Spec => []TypeOK
<1>1. IInv => TypeOK
  BY DEF IInv
<1> QED
  BY <1>1, Invariant, PTL

\* The overflow that lines 55 and 70 of http.c watch for cannot happen, whatever the
\* size of the buffer and however reads and parsing alternate.
THEOREM NeverOverflows == Spec => []NoOverflow
<1>1. IInv => NoOverflow
  BY DEF IInv
<1> QED
  BY <1>1, Invariant, PTL

\* A byte stays where http_parse.c points to it until SGX_MAX_BUF more have come.
THEOREM WindowIsIntact == Spec => []WindowIntact
<1>1. IInv => WindowIntact
  BY DEF IInv
<1> QED
  BY <1>1, Invariant, PTL

\* Line 58 of http.c mistakes a full buffer for a closed connection only when the
\* buffer really is full.
THEOREM ClosesOnlyWhenFull == Spec => []FullOnlyWhenFull
<1>1. IInv => FullOnlyWhenFull
  BY DEF IInv
<1> QED
  BY <1>1, Invariant, PTL

-----------------------------------------------------------------------------
(* The ring implements a queue of bytes *)

\* The unread bytes are the last ones the peer sent.
UnreadWasSent ==
  /\ Unread \in Seq(Bytes)
  /\ Len(Unread) = last - pos
  /\ \A i \in 1..(last - pos) : Unread[i] = sent[pos + i]

\* What has not been parsed is the end of what was sent.
LEMMA UnreadFromSent == IInv => UnreadWasSent
<1> SUFFICES ASSUME IInv PROVE UnreadWasSent
  OBVIOUS
<1>1. /\ pos \in Nat /\ last \in Nat /\ pos <= last /\ last < pos + SGX_MAX_BUF
      /\ SGX_MAX_BUF \in Nat
      /\ sent \in Seq(Bytes) /\ Len(sent) = last
  BY BufferAssumption DEF IInv, TypeOK, NoOverflow, WindowIntact
<1>2. ASSUME NEW i \in 1..(last - pos)
      PROVE  buf[Place(pos + i - 1)] = sent[pos + i] /\ sent[pos + i] \in Bytes
  <2> DEFINE j == pos + i - 1
  <2>1. j \in 0..(last - 1) /\ j + SGX_MAX_BUF >= last /\ j + 1 = pos + i
    BY <1>1
  <2>2. buf[Place(j)] = sent[j + 1]
    BY <2>1 DEF IInv, WindowIntact
  <2>3. sent[j + 1] \in Bytes
    BY <1>1, <2>1
  <2> QED
    BY <2>1, <2>2, <2>3
<1>3. last - pos \in Nat
  BY <1>1
<1>4. Unread \in [1..(last - pos) -> Bytes]
  BY <1>2 DEF Unread
<1>5. Unread \in Seq(Bytes) /\ Len(Unread) = last - pos
  BY <1>3, <1>4
<1>6. \A i \in 1..(last - pos) : Unread[i] = sent[pos + i]
  BY <1>2 DEF Unread
<1> QED
  BY <1>5, <1>6 DEF UnreadWasSent

\* A read puts its bytes behind the unread ones.
LEMMA ReadPuts ==
  ASSUME IInv, UnreadWasSent', NEW data \in Seq(Bytes), Read(data)
  PROVE  BF!Put
<1> DEFINE n == Len(data)
<1>1. /\ n \in Nat /\ n >= 1 /\ n <= SGX_MAX_BUF - 1 - (last - pos)
      /\ pos \in Nat /\ last \in Nat /\ pos <= last
      /\ last' = last + n /\ pos' = pos
      /\ sent' = sent \o data /\ sent \in Seq(Bytes) /\ Len(sent) = last
      /\ SGX_MAX_BUF \in Nat
  BY Remaining, BufferAssumption DEF IInv, TypeOK, NoOverflow, WindowIntact, Read
<1>2. UnreadWasSent
  BY UnreadFromSent
<1>3. /\ Unread \o data \in Seq(Bytes)
      /\ Len(Unread \o data) = last + n - pos
      /\ \A i \in 1..(last + n - pos) :
           (Unread \o data)[i] =
             IF i <= last - pos THEN Unread[i] ELSE data[i - (last - pos)]
  <2>1. Unread \in Seq(Bytes) /\ Len(Unread) = last - pos
    BY <1>2 DEF UnreadWasSent
  <2>2. Len(Unread) + Len(data) = last + n - pos
    BY <1>1, <2>1
  <2>3. /\ Unread \o data \in Seq(Bytes)
        /\ Len(Unread \o data) = Len(Unread) + Len(data)
        /\ \A i \in 1..(Len(Unread) + Len(data)) :
             (Unread \o data)[i] =
               IF i <= Len(Unread) THEN Unread[i] ELSE data[i - Len(Unread)]
    BY <2>1, ConcatProperties
  <2> QED
    BY <2>1, <2>2, <2>3
<1>4. /\ Unread' \in Seq(Bytes)
      /\ Len(Unread') = last + n - pos
      /\ \A i \in 1..(last + n - pos) : Unread'[i] = (sent \o data)[pos + i]
  BY <1>1 DEF UnreadWasSent
<1>5. ASSUME NEW i \in 1..(last + n - pos)
      PROVE  (sent \o data)[pos + i] = (Unread \o data)[i]
  <2>1. pos + i \in 1..(Len(sent) + Len(data))
    BY <1>1
  <2>2. (sent \o data)[pos + i] =
          IF pos + i <= Len(sent) THEN sent[pos + i] ELSE data[pos + i - Len(sent)]
    BY <1>1, <2>1, ConcatProperties
  <2>3. CASE i <= last - pos
    <3>1. pos + i <= Len(sent) /\ i \in 1..(last - pos)
      BY <1>1, <2>3
    <3>2. Unread[i] = sent[pos + i]
      BY <1>2, <3>1 DEF UnreadWasSent
    <3>3. (Unread \o data)[i] = Unread[i]
      BY <1>3, <2>3
    <3> QED
      BY <2>2, <3>1, <3>2, <3>3
  <2>4. CASE i > last - pos
    <3>1. pos + i - Len(sent) = i - (last - pos) /\ ~ (pos + i <= Len(sent))
          /\ ~ (i <= last - pos)
      BY <1>1, <2>4
    <3> QED
      BY <1>3, <2>2, <3>1
  <2>5. i <= last - pos \/ i > last - pos
    BY <1>1
  <2> QED
    BY ONLY <2>3, <2>4, <2>5
<1>6. Unread' = Unread \o data
  BY <1>3, <1>4, <1>5, SeqEqual
<1>7. data \in [1..n -> Bytes] /\ n \in 1..(SGX_MAX_BUF - 1 - Len(Unread))
  BY <1>1, <1>2 DEF UnreadWasSent
<1> QED
  BY <1>6, <1>7 DEF BF!Put

\* A parser takes bytes off the front of the unread ones.
LEMMA ParseTakes ==
  ASSUME IInv, UnreadWasSent', NEW n \in 0..(last - pos), Parse(n)
  PROVE  BF!Take
<1>1. /\ n \in Nat /\ n <= last - pos /\ pos \in Nat /\ last \in Nat /\ pos <= last
      /\ last' = last /\ pos' = pos + n /\ sent' = sent
  BY DEF IInv, TypeOK, NoOverflow, Parse
<1>2. UnreadWasSent
  BY UnreadFromSent
<1> DEFINE rest == SubSeq(Unread, n + 1, last - pos)
<1>3. /\ rest \in Seq(Bytes)
      /\ Len(rest) = last - pos - n
      /\ \A i \in 1..(last - pos - n) : rest[i] = Unread[n + i]
  <2>1. n + 1 \in Int /\ last - pos \in Int
        /\ \A i \in (n + 1)..(last - pos) : Unread[i] \in Bytes
    BY <1>1, <1>2 DEF UnreadWasSent
  <2>2. /\ rest \in Seq(Bytes)
        /\ Len(rest) = IF n + 1 <= last - pos THEN last - pos - (n + 1) + 1 ELSE 0
        /\ \A i \in 1..(last - pos - (n + 1) + 1) : rest[i] = Unread[n + 1 + i - 1]
    BY <2>1, SubSeqProperties
  <2>3. Len(rest) = last - pos - n /\ last - pos - (n + 1) + 1 = last - pos - n
    BY <1>1, <2>2
  <2>4. \A i \in 1..(last - pos - n) : n + 1 + i - 1 = n + i
    BY <1>1
  <2> QED
    BY <2>2, <2>3, <2>4
<1>4. /\ Unread' \in Seq(Bytes)
      /\ Len(Unread') = last - pos - n
      /\ \A i \in 1..(last - pos - n) : Unread'[i] = sent[pos + n + i]
  BY <1>1 DEF UnreadWasSent
<1>5. \A i \in 1..(last - pos - n) : Unread[n + i] = sent[pos + (n + i)]
  BY <1>1, <1>2 DEF UnreadWasSent
<1>6. \A i \in 1..(last - pos - n) : Unread'[i] = rest[i]
  BY <1>1, <1>3, <1>4, <1>5
<1>7. Unread' = rest
  BY <1>3, <1>4, <1>6, SeqEqual
<1>8. n \in 0..Len(Unread) /\ Len(Unread) = last - pos
  BY <1>1, <1>2 DEF UnreadWasSent
<1> QED
  BY <1>7, <1>8 DEF BF!Take

\* Every run of the read loop and the parsers is one of a queue of bytes, at most
\* one less than the ring has places: nothing the peer sent is lost, repeated or
\* changed on its way to http_parse.c.
THEOREM Implements == Spec => ImplementsByteFifo
<1>1. Init => BF!Init
  BY DEF Init, BF!Init, Unread
<1>2. IInv /\ UnreadWasSent' /\ [Next]_vars => [BF!Next]_Unread
  <2> SUFFICES ASSUME IInv, UnreadWasSent', [Next]_vars PROVE [BF!Next]_Unread
    OBVIOUS
  <2>1. CASE \/ Run \/ ReadAgain \/ ReadNothing \/ ReadEnd \/ ReadFails
             \/ UNCHANGED vars
    BY <2>1 DEF Run, ReadAgain, ReadNothing, ReadEnd, ReadFails, Err, vars, Unread
  <2>2. ASSUME NEW n \in 1..(MaxBytes - last), NEW data \in [1..n -> Bytes], Read(data)
        PROVE  BF!Next
    <3>1. data \in Seq(Bytes)
      BY BufferAssumption DEF IInv, TypeOK
    <3> QED
      BY <2>2, <3>1, ReadPuts DEF BF!Next
  <2>3. ASSUME NEW n \in 0..(last - pos), Parse(n)
        PROVE  BF!Next
    BY <2>3, ParseTakes DEF BF!Next
  <2> QED
    BY <2>1, <2>2, <2>3 DEF Next
<1> QED
  BY <1>1, <1>2, Invariant, UnreadFromSent, PTL DEF Spec, BF!Spec, ImplementsByteFifo

-----------------------------------------------------------------------------
(* Recursion *)

\* A set that 0 is in, and with each number the next, has all.
LEMMA Induct ==
  ASSUME NEW N \in Nat, NEW G, 0 \in G, \A n \in 1..N : n - 1 \in G => n \in G
  PROVE  \A n \in 0..N : n \in G
<1> SUFFICES ASSUME NEW c \in 0..N, c \notin G
             PROVE  FALSE
  OBVIOUS
<1> DEFINE Bad == {n \in 0..N : n \notin G}
<1>1. PICK x \in Bad : \A y \in Bad : x <= y
  <2>1. Bad \in SUBSET Nat /\ Bad # {}
    OBVIOUS
  <2> QED
    BY <2>1, HP!Least
<1>2. x # 0 /\ x \in 0..N
  BY <1>1
<1>3. x \in 1..N /\ x - 1 \in 0..N
  BY <1>2
<1>4. x - 1 \notin Bad
  BY <1>1, <1>3
<1> QED
  BY <1>1, <1>3, <1>4

\* G takes every n and every element of S to an element of S.
StaysIn(S, N, G) == \A n \in 1..N, x \in S : G[<<n, x>>] \in S

\* f begins with s, and each of its values is made from the one before by G.
Iterates(S, s, N, G, f) ==
  f \in [0..N -> S] /\ f[0] = s /\ \A n \in 1..N : f[n] = G[<<n, f[n - 1]>>]

\* There is such an f: it is made one value at a time.
LEMMA Iterated ==
  ASSUME NEW S, NEW s \in S, NEW N \in Nat, NEW G, StaysIn(S, N, G)
  PROVE  \E f : Iterates(S, s, N, G, f)
<1> DEFINE Upto(m, f) == f[0] = s /\ \A n \in 1..m : f[n] = G[<<n, f[n - 1]>>]
           Good == {m \in 0..N : \E f \in [0..m -> S] : Upto(m, f)}
<1>1. 0 \in Good
  <2> DEFINE f == [n \in 0..0 |-> s]
  <2>1. f \in [0..0 -> S]
    OBVIOUS
  <2>2. Upto(0, f)
    OBVIOUS
  <2> HIDE DEF f, Upto
  <2> QED
    BY <2>1, <2>2
<1>2. ASSUME NEW m \in 1..N, m - 1 \in Good PROVE m \in Good
  <2>1. PICK f \in [0..(m - 1) -> S] : Upto(m - 1, f)
    BY <1>2
  <2> DEFINE g == [n \in 0..m |-> IF n = m THEN G[<<m, f[m - 1]>>] ELSE f[n]]
  <2>2. m \in Nat /\ m - 1 \in 0..(m - 1) /\ f[m - 1] \in S
    OBVIOUS
  <2>3. G[<<m, f[m - 1]>>] \in S
    BY <2>2 DEF StaysIn
  <2>4. g \in [0..m -> S]
    BY <2>2, <2>3
  <2>5. ASSUME NEW n \in 1..m PROVE g[n] = G[<<n, g[n - 1]>>]
    <3>1. n - 1 \in 0..m /\ n - 1 # m /\ g[n - 1] = f[n - 1]
      BY <2>2
    <3>2. CASE n = m
      BY <3>1, <3>2
    <3>3. CASE n # m
      <4>1. n \in 1..(m - 1) /\ g[n] = f[n]
        BY <2>2, <3>3
      <4> QED
        BY <2>1, <3>1, <4>1
    <3> QED
      BY <3>2, <3>3
  <2>6. g[0] = s
    BY <2>1, <2>2
  <2>7. Upto(m, g)
    BY <2>5, <2>6
  <2> HIDE DEF g
  <2> QED
    BY <2>4, <2>7
<1>3. N \in Good
  <2> HIDE DEF Good
  <2> QED
    BY <1>1, <1>2, Induct
<1> QED
  BY <1>3 DEF Iterates

-----------------------------------------------------------------------------
(* Types *)

\* The states of the parser of the request line.
LineStates ==
  {"sw_start", "sw_method", "sw_spaces_before_uri", "sw_after_slash_in_uri", "sw_http",
   "sw_http_H", "sw_http_HT", "sw_http_HTT", "sw_http_HTTP", "sw_first_major_digit",
   "sw_major_digit", "sw_first_minor_digit", "sw_minor_digit", "sw_spaces_after_digit",
   "sw_almost_done"}

\* The states of the parser of the headers.
BodyStates ==
  {"sw_start", "sw_key", "sw_spaces_before_colon", "sw_spaces_after_colon", "sw_value",
   "sw_cr", "sw_crlf", "sw_crlfcr"}

\* What the parsers return.
Codes == {"SGX_AGAIN", "SGX_OK", "SGX_HTTP_PARSE_INVALID_METHOD",
          "SGX_HTTP_PARSE_INVALID_REQUEST", "SGX_HTTP_PARSE_INVALID_HEADER"}

\* A pointer into the ring, or none yet.
Places0 == Nat \cup {None}

\* What the method can be.
Methods ==
  MethodsLeft \cup {"SGX_HTTP_GET", "SGX_HTTP_POST", "SGX_HTTP_HEAD", "SGX_HTTP_UNKNOWN"}

\* A header on the list.
PlacesType ==
  [key_start : Places0, key_end : Places0, value_start : Places0, value_end : Places0]

\* What a request can be when a parser with these states has it.
FieldsType(states) ==
  [state : states, rc : Codes, pos : Nat,
   request_start : Places0, method_end : Places0, method : Methods,
   uri_start : Places0, uri_end : Places0, http_major : Int, http_minor : Int,
   request_end : Int \cup RequestEnds \cup {None},
   key_start : Places0, key_end : Places0, value_start : Places0, value_end : Places0,
   list : Seq(PlacesType)]

\* A new request has its type.
LEMMA NewTyped ==
  ASSUME NEW method \in MethodsLeft, NEW end \in RequestEnds
  PROVE  NewRequest(method, end) \in FieldsType(LineStates)
<1>1. <<>> \in Seq(PlacesType)
  OBVIOUS
<1> QED
  BY <1>1 DEF NewRequest, FieldsType, Places0, Methods, LineStates, Codes

\* A turn of a loop keeps the type of the request.
LEMMA LineByteTyped ==
  ASSUME NEW r \in FieldsType(LineStates), NEW b, NEW i \in Nat, NEW sh
  PROVE  LineByte(r, b, i, sh) \in FieldsType(LineStates)
<1> DEFINE p == Place(i)
           c == b[p]
<1>1. p \in Nat
  BY PlaceInRing
<1>2. Digit(c) \in Int
  BY DEF Digit
<1>3. Method(r, b, p) \in Methods
  BY DEF Method, FieldsType, Methods
<1> HIDE DEF p, c
<1>4. LineStart(r, p, c, sh) \in FieldsType(LineStates)
  <2>1. p \in Places0
    BY <1>1 DEF Places0
  <2>2. PICK q : q = [r EXCEPT !.request_start = p]
    OBVIOUS
  <2>3. q \in FieldsType(LineStates)
    BY <2>1, <2>2 DEF FieldsType
  <2>4. Return(q, "SGX_HTTP_PARSE_INVALID_METHOD") \in FieldsType(LineStates)
    BY <2>3 DEF Return, FieldsType, Codes
  <2>5. Goto(q, "sw_method") \in FieldsType(LineStates)
    BY <2>3 DEF Goto, FieldsType, LineStates
  <2> QED
    BY <2>2, <2>3, <2>4, <2>5 DEF LineStart
<1>5. LineMethod(r, b, p, c, sh) \in FieldsType(LineStates)
  <2>1. CASE c = "SP"
    <3>1. p \in Places0
      BY <1>1 DEF Places0
    <3>2. "sw_spaces_before_uri" \in LineStates
      BY DEF LineStates
    <3>3. [r EXCEPT !.method_end = p, !.method = Method(r, b, p), !.state = "sw_spaces_before_uri"]
            \in FieldsType(LineStates)
      BY <1>3, <3>1, <3>2 DEF FieldsType
    <3> QED
      BY <2>1, <3>3 DEF LineMethod
  <2>2. CASE c # "SP" /\ NotInMethod(c, sh)
    BY <2>2 DEF LineMethod, Return, FieldsType, Codes
  <2>3. CASE c # "SP" /\ ~ NotInMethod(c, sh)
    BY <2>3 DEF LineMethod
  <2> QED
    BY <2>1, <2>2, <2>3
<1>6. BeforeUri(r, p, c) \in FieldsType(LineStates)
  <2>1. p \in Places0
    BY <1>1 DEF Places0
  <2>2. "sw_after_slash_in_uri" \in LineStates
    BY DEF LineStates
  <2>3. [r EXCEPT !.uri_start = p, !.state = "sw_after_slash_in_uri"] \in FieldsType(LineStates)
    BY <2>1, <2>2 DEF FieldsType
  <2>4. Return(r, "SGX_HTTP_PARSE_INVALID_REQUEST") \in FieldsType(LineStates)
    BY DEF Return, FieldsType, Codes
  <2> QED
    BY <2>3, <2>4 DEF BeforeUri
<1>7. InUri(r, p, c) \in FieldsType(LineStates)
  <2>1. CASE c = "SP"
    <3>1. p \in Places0
      BY <1>1 DEF Places0
    <3>2. "sw_http" \in LineStates
      BY DEF LineStates
    <3>3. [r EXCEPT !.uri_end = p, !.state = "sw_http"] \in FieldsType(LineStates)
      BY <3>1, <3>2 DEF FieldsType
    <3> QED
      BY <2>1, <3>3 DEF InUri
  <2>2. CASE c # "SP"
    BY <2>2 DEF InUri
  <2> QED
    BY <2>1, <2>2
<1>8. ASSUME r.state \in DOMAIN HttpTable PROVE LineProtocol(r, c) \in FieldsType(LineStates)
  <2>1. HttpTable[r.state][2] \in LineStates
    BY <1>8 DEF HttpTable, LineStates
  <2> QED
    BY <2>1 DEF LineProtocol, Goto, Return, FieldsType, Codes
<1>9. LineAlmostDone(r, p, c) \in FieldsType(LineStates)
  <2>1. PICK x \in Int : x = p - 1
    BY <1>1
  <2>2. x \in Int \cup RequestEnds \cup {None}
    OBVIOUS
  <2>3. \A y \in Codes : [r EXCEPT !.request_end = x, !.rc = y] \in FieldsType(LineStates)
    BY <2>2 DEF FieldsType
  <2> QED
    BY <2>1, <2>3 DEF LineAlmostDone, Return, Codes
<1>10. LineVersion(r, c) \in FieldsType(LineStates)
  <2>1. LineVersion(r, c) \in
          {[r EXCEPT !.http_major = Digit(c), !.state = "sw_major_digit"],
           Goto(r, "sw_first_minor_digit"), [r EXCEPT !.http_major = MoreMajor(@)],
           [r EXCEPT !.http_minor = Digit(c), !.state = "sw_minor_digit"],
           [r EXCEPT !.http_minor = @ * 10 + Digit(c)],
           Return(r, "SGX_OK"), Goto(r, "sw_almost_done"), Goto(r, "sw_spaces_after_digit"),
           Return(r, "SGX_HTTP_PARSE_INVALID_REQUEST")}
    BY DEF LineVersion
  <2>2. /\ [r EXCEPT !.http_major = Digit(c), !.state = "sw_major_digit"] \in FieldsType(LineStates)
        /\ [r EXCEPT !.http_minor = Digit(c), !.state = "sw_minor_digit"] \in FieldsType(LineStates)
    BY <1>2 DEF FieldsType, LineStates
  <2>3. r.http_major \in Int /\ r.http_minor \in Int
    BY DEF FieldsType
  <2>4. MoreMajor(r.http_major) \in Int /\ r.http_minor * 10 + Digit(c) \in Int
    BY <1>2, <2>3 DEF MoreMajor
  <2>5. /\ [r EXCEPT !.http_major = MoreMajor(@)] \in FieldsType(LineStates)
        /\ [r EXCEPT !.http_minor = @ * 10 + Digit(c)] \in FieldsType(LineStates)
    BY <2>4 DEF FieldsType
  <2>6. \A x \in LineStates : Goto(r, x) \in FieldsType(LineStates)
    BY DEF Goto, FieldsType
  <2>7. \A x \in Codes : Return(r, x) \in FieldsType(LineStates)
    BY DEF Return, FieldsType
  <2> QED
    BY <2>1, <2>2, <2>5, <2>6, <2>7 DEF LineStates, Codes
<1> QED
  BY <1>4, <1>5, <1>6, <1>7, <1>8, <1>9, <1>10 DEF LineByte, p, c

\* So does one of the loop of the headers.
LEMMA BodyByteTyped ==
  ASSUME NEW r \in FieldsType(BodyStates), NEW b, NEW i \in Nat
  PROVE  BodyByte(r, b, i) \in FieldsType(BodyStates)
<1>1. Place(i) \in Nat
  BY PlaceInRing
<1>2. Save(r) \in FieldsType(BodyStates)
  <2>1. HeaderOf(r) \in PlacesType
    BY DEF HeaderOf, PlacesType, FieldsType
  <2>2. <<HeaderOf(r)>> \o r.list \in Seq(PlacesType)
    BY <2>1 DEF FieldsType
  <2> QED
    BY <2>2 DEF Save, FieldsType
<1>3. \A x \in BodyStates : Goto(r, x) \in FieldsType(BodyStates)
  BY DEF Goto, FieldsType
<1>4. \A x \in Codes : Return(r, x) \in FieldsType(BodyStates)
  BY DEF Return, FieldsType
<1>5. \A x \in BodyStates :
        /\ [r EXCEPT !.key_start = Place(i), !.state = x] \in FieldsType(BodyStates)
        /\ [r EXCEPT !.key_end = Place(i), !.state = x] \in FieldsType(BodyStates)
        /\ [r EXCEPT !.value_start = Place(i), !.state = x] \in FieldsType(BodyStates)
        /\ [r EXCEPT !.value_end = Place(i), !.state = x] \in FieldsType(BodyStates)
  BY <1>1 DEF FieldsType, Places0
<1>6. Goto(Save(r), "sw_crlf") \in FieldsType(BodyStates)
  <2> PICK q \in FieldsType(BodyStates) : q = Save(r)
    BY <1>2
  <2>1. Goto(q, "sw_crlf") \in FieldsType(BodyStates)
    BY DEF Goto, FieldsType, BodyStates
  <2> QED
    BY <2>1
<1>7. r.state \in BodyStates
  BY DEF FieldsType
<1> QED
  BY <1>3, <1>4, <1>5, <1>6, <1>7 DEF BodyByte, BodyStates, Codes

-----------------------------------------------------------------------------
(* Loops *)

\* What the nth turn of the loop of the request line makes of the request.
LineTurn(q, b, from, n, sh) ==
  IF q.rc = "SGX_AGAIN" THEN [LineByte(q, b, from + n - 1, sh) EXCEPT !.pos = from + n] ELSE q

\* The same of the loop of the headers.
BodyTurn(q, b, from, n) ==
  IF q.rc = "SGX_AGAIN" THEN [BodyByte(q, b, from + n - 1) EXCEPT !.pos = from + n] ELSE q

\* Lines 248-250, and what is stored.
LineReturn(r, q, from) ==
  Stored(r, [q EXCEPT !.request_end =
               IF q.rc = "SGX_OK" /\ q.request_end = None THEN Place(q.pos - 1) ELSE q.request_end],
         from)

\* f has what m turns of the loop of the request line make of r.
LineLoop(r, b, from, m, sh, f) ==
  /\ f \in [0..m -> FieldsType(LineStates)]
  /\ f[0] = [r EXCEPT !.rc = "SGX_AGAIN", !.pos = from]
  /\ \A n \in 1..m : f[n] = LineTurn(f[n - 1], b, from, n, sh)

\* The same of the headers.
BodyLoop(r, b, from, m, f) ==
  /\ f \in [0..m -> FieldsType(BodyStates)]
  /\ f[0] = [r EXCEPT !.rc = "SGX_AGAIN", !.pos = from]
  /\ \A n \in 1..m : f[n] = BodyTurn(f[n - 1], b, from, n)

\* A turn keeps the type of the request.
LEMMA LineTurnTyped ==
  ASSUME NEW r \in FieldsType(LineStates), NEW b, NEW from \in Nat, NEW n \in Nat, n >= 1, NEW sh
  PROVE  LineTurn(r, b, from, n, sh) \in FieldsType(LineStates)
<1>1. from + n - 1 \in Nat /\ from + n \in Nat
  OBVIOUS
<1>2. PICK q \in FieldsType(LineStates) : q = LineByte(r, b, from + n - 1, sh)
  BY <1>1, LineByteTyped
<1>3. [q EXCEPT !.pos = from + n] \in FieldsType(LineStates)
  BY <1>1 DEF FieldsType
<1> QED
  BY <1>2, <1>3 DEF LineTurn

\* So does one of the headers.
LEMMA BodyTurnTyped ==
  ASSUME NEW r \in FieldsType(BodyStates), NEW b, NEW from \in Nat, NEW n \in Nat, n >= 1
  PROVE  BodyTurn(r, b, from, n) \in FieldsType(BodyStates)
<1>1. from + n - 1 \in Nat /\ from + n \in Nat
  OBVIOUS
<1>2. PICK q \in FieldsType(BodyStates) : q = BodyByte(r, b, from + n - 1)
  BY <1>1, BodyByteTyped
<1>3. [q EXCEPT !.pos = from + n] \in FieldsType(BodyStates)
  BY <1>1 DEF FieldsType
<1> QED
  BY <1>2, <1>3 DEF BodyTurn

\* What a loop begins with has its type.
LEMMA StartTyped ==
  ASSUME NEW S, NEW r \in FieldsType(S), NEW from \in Nat
  PROVE  [r EXCEPT !.rc = "SGX_AGAIN", !.pos = from] \in FieldsType(S)
  BY DEF FieldsType, Codes

\* A call of the parser of the request line is a loop.
LEMMA LineCall ==
  ASSUME NEW r \in FieldsType(LineStates), NEW b, NEW from \in Nat, NEW to \in Nat, from <= to, NEW sh
  PROVE  \E f : /\ LineLoop(r, b, from, to - from, sh, f)
                /\ sgx_http_parse_request_line(r, b, from, to, sh) = LineReturn(r, f[to - from], from)
<1> DEFINE m == to - from
           T == FieldsType(LineStates)
           s == [r EXCEPT !.rc = "SGX_AGAIN", !.pos = from]
           G == [x \in (1..m) \X T |-> LineTurn(x[2], b, from, x[1], sh)]
           Body(h) == [n \in 0..m |->
             IF n = 0 THEN [r EXCEPT !.rc = "SGX_AGAIN", !.pos = from]
             ELSE IF h[n - 1].rc = "SGX_AGAIN"
                  THEN [LineByte(h[n - 1], b, from + n - 1, sh) EXCEPT !.pos = from + n]
                  ELSE h[n - 1]]
           loop == CHOOSE h : h = Body(h)
<1>1. m \in Nat
  OBVIOUS
<1>2. s \in T
  BY StartTyped
<1>3. \A n \in 1..m, x \in T : G[<<n, x>>] = LineTurn(x, b, from, n, sh)
  OBVIOUS
<1>4. PICK f \in [0..m -> T] : f[0] = s /\ \A n \in 1..m : f[n] = G[<<n, f[n - 1]>>]
  <2>1. ASSUME NEW n \in 1..m, NEW x \in T PROVE G[<<n, x>>] \in T
    <3>1. n \in Nat /\ n >= 1
      OBVIOUS
    <3> QED
      BY <1>3, <3>1, LineTurnTyped
  <2>2. StaysIn(T, m, G)
    BY <2>1 DEF StaysIn
  <2>3. PICK f : Iterates(T, s, m, G, f)
    <3> HIDE DEF m, T, s, G
    <3> QED
      BY <1>1, <1>2, <2>2, Iterated
  <2> QED
    BY <2>3 DEF Iterates
<1>5. \A n \in 1..m : f[n] = LineTurn(f[n - 1], b, from, n, sh)
  <2> HIDE DEF G, T
  <2>1. \A n \in 1..m : n - 1 \in 0..m
    BY <1>1
  <2> QED
    BY <1>3, <1>4, <2>1
<1>6. f = Body(f)
  <2> HIDE DEF G, T
  <2>1. \A n \in 1..m : n \in 0..m /\ n # 0
    BY <1>1
  <2>2. ASSUME NEW n \in 0..m PROVE f[n] = Body(f)[n]
    <3>1. CASE n = 0
      BY <1>4, <3>1
    <3>2. CASE n # 0
      <4>1. n \in 1..m
        BY <1>1, <3>2
      <4> QED
        BY <1>5, <3>2, <4>1 DEF LineTurn
    <3> QED
      BY <3>1, <3>2
  <2> HIDE DEF m
  <2> QED
    BY <1>4, <2>2
<1>7. loop = Body(loop)
  <2> HIDE DEF Body
  <2> QED
    BY <1>6
<1>8. loop[0] = s /\ \A n \in 1..m : loop[n] = LineTurn(loop[n - 1], b, from, n, sh)
  <2> HIDE DEF loop, T, G
  <2>1. 0 \in 0..m /\ \A n \in 1..m : n \in 0..m /\ n # 0
    BY <1>1
  <2> HIDE DEF m
  <2>2. loop[0] = s
    BY <1>7, <2>1
  <2>3. ASSUME NEW n \in 1..m PROVE loop[n] = LineTurn(loop[n - 1], b, from, n, sh)
    BY <1>7, <2>1 DEF LineTurn
  <2> QED
    BY <2>2, <2>3
<1>9. loop \in [0..m -> T]
  <2> HIDE DEF loop, G, Body
  <2>1. DOMAIN loop = 0..m
    BY <1>7 DEF Body
  <2>2. loop = [n \in 0..m |-> loop[n]]
    BY <1>7 DEF Body
  <2> DEFINE Good == {n \in 0..m : loop[n] \in T}
  <2>3. 0 \in Good
    BY <1>1, <1>2, <1>8
  <2>4. ASSUME NEW n \in 1..m, n - 1 \in Good PROVE n \in Good
    <3>1. loop[n] \in T
      BY <1>8, <2>4, LineTurnTyped
    <3> QED
      BY <3>1
  <2>5. \A n \in 0..m : n \in Good
    <3> HIDE DEF Good, T, m
    <3> QED
      BY <1>1, <2>3, <2>4, Induct
  <2> QED
    BY <2>2, <2>5
<1>10. LineLoop(r, b, from, m, sh, loop)
  BY <1>8, <1>9 DEF LineLoop
<1>11. sgx_http_parse_request_line(r, b, from, to, sh) = LineReturn(r, loop[m], from)
  BY DEF sgx_http_parse_request_line, Loop, LineReturn
<1> QED
  BY <1>10, <1>11

\* And so is a call of the parser of the headers.
LEMMA BodyCall ==
  ASSUME NEW r \in FieldsType(BodyStates), NEW b, NEW from \in Nat, NEW to \in Nat, from <= to
  PROVE  \E f : /\ BodyLoop(r, b, from, to - from, f)
                /\ sgx_http_parse_request_body(r, b, from, to) = Stored(r, f[to - from], from)
<1> DEFINE m == to - from
           T == FieldsType(BodyStates)
           s == [r EXCEPT !.rc = "SGX_AGAIN", !.pos = from]
           G == [x \in (1..m) \X T |-> BodyTurn(x[2], b, from, x[1])]
           Body(h) == [n \in 0..m |->
             IF n = 0 THEN [r EXCEPT !.rc = "SGX_AGAIN", !.pos = from]
             ELSE IF h[n - 1].rc = "SGX_AGAIN"
                  THEN [BodyByte(h[n - 1], b, from + n - 1) EXCEPT !.pos = from + n]
                  ELSE h[n - 1]]
           loop == CHOOSE h : h = Body(h)
<1>1. m \in Nat
  OBVIOUS
<1>2. s \in T
  BY StartTyped
<1>3. \A n \in 1..m, x \in T : G[<<n, x>>] = BodyTurn(x, b, from, n)
  OBVIOUS
<1>4. PICK f \in [0..m -> T] : f[0] = s /\ \A n \in 1..m : f[n] = G[<<n, f[n - 1]>>]
  <2>1. ASSUME NEW n \in 1..m, NEW x \in T PROVE G[<<n, x>>] \in T
    <3>1. n \in Nat /\ n >= 1
      OBVIOUS
    <3> QED
      BY <1>3, <3>1, BodyTurnTyped
  <2>2. StaysIn(T, m, G)
    BY <2>1 DEF StaysIn
  <2>3. PICK f : Iterates(T, s, m, G, f)
    <3> HIDE DEF m, T, s, G
    <3> QED
      BY <1>1, <1>2, <2>2, Iterated
  <2> QED
    BY <2>3 DEF Iterates
<1>5. \A n \in 1..m : f[n] = BodyTurn(f[n - 1], b, from, n)
  <2> HIDE DEF G, T
  <2>1. \A n \in 1..m : n - 1 \in 0..m
    BY <1>1
  <2> QED
    BY <1>3, <1>4, <2>1
<1>6. f = Body(f)
  <2> HIDE DEF G, T
  <2>1. \A n \in 1..m : n \in 0..m /\ n # 0
    BY <1>1
  <2>2. ASSUME NEW n \in 0..m PROVE f[n] = Body(f)[n]
    <3>1. CASE n = 0
      BY <1>4, <3>1
    <3>2. CASE n # 0
      <4>1. n \in 1..m
        BY <1>1, <3>2
      <4> QED
        BY <1>5, <3>2, <4>1 DEF BodyTurn
    <3> QED
      BY <3>1, <3>2
  <2> HIDE DEF m
  <2> QED
    BY <1>4, <2>2
<1>7. loop = Body(loop)
  <2> HIDE DEF Body
  <2> QED
    BY <1>6
<1>8. loop[0] = s /\ \A n \in 1..m : loop[n] = BodyTurn(loop[n - 1], b, from, n)
  <2> HIDE DEF loop, T, G
  <2>1. 0 \in 0..m /\ \A n \in 1..m : n \in 0..m /\ n # 0
    BY <1>1
  <2> HIDE DEF m
  <2>2. loop[0] = s
    BY <1>7, <2>1
  <2>3. ASSUME NEW n \in 1..m PROVE loop[n] = BodyTurn(loop[n - 1], b, from, n)
    BY <1>7, <2>1 DEF BodyTurn
  <2> QED
    BY <2>2, <2>3
<1>9. loop \in [0..m -> T]
  <2> HIDE DEF loop, G, Body
  <2>1. DOMAIN loop = 0..m
    BY <1>7 DEF Body
  <2>2. loop = [n \in 0..m |-> loop[n]]
    BY <1>7 DEF Body
  <2> DEFINE Good == {n \in 0..m : loop[n] \in T}
  <2>3. 0 \in Good
    BY <1>1, <1>2, <1>8
  <2>4. ASSUME NEW n \in 1..m, n - 1 \in Good PROVE n \in Good
    <3>1. loop[n] \in T
      BY <1>8, <2>4, BodyTurnTyped
    <3> QED
      BY <3>1
  <2>5. \A n \in 0..m : n \in Good
    <3> HIDE DEF Good, T, m
    <3> QED
      BY <1>1, <2>3, <2>4, Induct
  <2> QED
    BY <2>2, <2>5
<1>10. BodyLoop(r, b, from, m, loop)
  BY <1>8, <1>9 DEF BodyLoop
<1>11. sgx_http_parse_request_body(r, b, from, to) = Stored(r, loop[m], from)
  BY DEF sgx_http_parse_request_body, Loop
<1> QED
  BY <1>10, <1>11

\* What a call leaves, whatever it finds: it never goes beyond the bytes that are there.
LEMMA LineResult ==
  ASSUME NEW r \in FieldsType(LineStates), NEW b, NEW from \in Nat, NEW to \in Nat, from <= to, NEW sh,
         NEW q, q = sgx_http_parse_request_line(r, b, from, to, sh)
  PROVE  /\ q \in FieldsType(LineStates)
         /\ q.pos \in from..to
         /\ q.rc = "SGX_OK" => q.state = "sw_start"
<1>1. PICK f : /\ LineLoop(r, b, from, to - from, sh, f)
               /\ q = LineReturn(r, f[to - from], from)
  BY LineCall
<1> PICK m \in Nat : m = to - from
  OBVIOUS
<1>2. /\ f \in [0..m -> FieldsType(LineStates)]
      /\ f[0] = [r EXCEPT !.rc = "SGX_AGAIN", !.pos = from]
      /\ \A n \in 1..m : f[n] = LineTurn(f[n - 1], b, from, n, sh)
  BY <1>1 DEF LineLoop
<1> DEFINE Good == {n \in 0..m : f[n].pos \in from..(from + n)}
<1>3. 0 \in Good
  <2>1. [r EXCEPT !.rc = "SGX_AGAIN", !.pos = from].pos = from
    BY DEF FieldsType
  <2>2. f[0].pos = from
    BY <1>2, <2>1
  <2> QED
    BY <2>2
<1>4. ASSUME NEW n \in 1..m, n - 1 \in Good PROVE n \in Good
  <2>1. PICK g \in FieldsType(LineStates) : g = f[n - 1]
    <3>1. n - 1 \in 0..m
      OBVIOUS
    <3> QED
      BY <1>2, <3>1
  <2>2. f[n] = LineTurn(g, b, from, n, sh) /\ g.pos \in from..(from + n - 1)
    BY <1>2, <1>4, <2>1
  <2>3. CASE g.rc = "SGX_AGAIN"
    <3>1. from + n - 1 \in Nat
      OBVIOUS
    <3>2. PICK h \in FieldsType(LineStates) : h = LineByte(g, b, from + n - 1, sh)
      BY <3>1, LineByteTyped
    <3>3. [h EXCEPT !.pos = from + n].pos = from + n
      BY DEF FieldsType
    <3>4. f[n].pos = from + n
      BY <2>2, <2>3, <3>2, <3>3 DEF LineTurn
    <3> QED
      BY <3>4
  <2>4. CASE g.rc # "SGX_AGAIN"
    BY <2>2, <2>4 DEF LineTurn
  <2> QED
    BY <2>3, <2>4
<1>5. m \in Good
  <2> HIDE DEF Good
  <2> QED
    BY <1>3, <1>4, Induct
<1>6. PICK g \in FieldsType(LineStates) : g = f[m] /\ g.pos \in from..to
  BY <1>2, <1>5
<1>7. PICK e \in Int \cup RequestEnds \cup {None} :
        q = Stored(r, [g EXCEPT !.request_end = e], from)
  <2>1. Place(g.pos - 1) \in Int
    <3>1. g.pos - 1 \in Int
      BY <1>6
    <3> QED
      BY <3>1, BufferAssumption DEF Place
  <2>2. g.request_end \in Int \cup RequestEnds \cup {None}
    BY DEF FieldsType
  <2> QED
    BY <1>1, <1>6, <2>1, <2>2 DEF LineReturn
<1>8. PICK h \in FieldsType(LineStates) : h = [g EXCEPT !.request_end = e]
  BY DEF FieldsType
<1>9. h.pos \in from..to /\ h.rc = g.rc
  BY <1>6, <1>8 DEF FieldsType
<1>10. r.state \in LineStates
  BY DEF FieldsType
<1>11. CASE h.rc = "SGX_AGAIN"
  BY <1>7, <1>8, <1>9, <1>11 DEF Stored
<1>12. CASE h.rc = "SGX_OK"
  <2>1. q = [h EXCEPT !.state = "sw_start"]
    BY <1>7, <1>8, <1>12 DEF Stored
  <2> QED
    BY <1>9, <2>1 DEF FieldsType, LineStates
<1>13. CASE h.rc # "SGX_AGAIN" /\ h.rc # "SGX_OK"
  <2>1. q = [h EXCEPT !.state = r.state, !.pos = from]
    BY <1>7, <1>8, <1>13 DEF Stored
  <2>2. from \in from..to
    OBVIOUS
  <2> QED
    BY <1>9, <1>10, <1>13, <2>1, <2>2 DEF FieldsType
<1> QED
  BY <1>11, <1>12, <1>13

\* The same of the parser of the headers.
LEMMA BodyResult ==
  ASSUME NEW r \in FieldsType(BodyStates), NEW b, NEW from \in Nat, NEW to \in Nat, from <= to,
         NEW q, q = sgx_http_parse_request_body(r, b, from, to)
  PROVE  /\ q \in FieldsType(BodyStates)
         /\ q.pos \in from..to
         /\ q.rc = "SGX_OK" => q.state = "sw_start"
<1>1. PICK f : /\ BodyLoop(r, b, from, to - from, f)
               /\ q = Stored(r, f[to - from], from)
  BY BodyCall
<1> PICK m \in Nat : m = to - from
  OBVIOUS
<1>2. /\ f \in [0..m -> FieldsType(BodyStates)]
      /\ f[0] = [r EXCEPT !.rc = "SGX_AGAIN", !.pos = from]
      /\ \A n \in 1..m : f[n] = BodyTurn(f[n - 1], b, from, n)
  BY <1>1 DEF BodyLoop
<1> DEFINE Good == {n \in 0..m : f[n].pos \in from..(from + n)}
<1>3. 0 \in Good
  <2>1. [r EXCEPT !.rc = "SGX_AGAIN", !.pos = from].pos = from
    BY DEF FieldsType
  <2>2. f[0].pos = from
    BY <1>2, <2>1
  <2> QED
    BY <2>2
<1>4. ASSUME NEW n \in 1..m, n - 1 \in Good PROVE n \in Good
  <2>1. PICK g \in FieldsType(BodyStates) : g = f[n - 1]
    <3>1. n - 1 \in 0..m
      OBVIOUS
    <3> QED
      BY <1>2, <3>1
  <2>2. f[n] = BodyTurn(g, b, from, n) /\ g.pos \in from..(from + n - 1)
    BY <1>2, <1>4, <2>1
  <2>3. CASE g.rc = "SGX_AGAIN"
    <3>1. from + n - 1 \in Nat
      OBVIOUS
    <3>2. PICK h \in FieldsType(BodyStates) : h = BodyByte(g, b, from + n - 1)
      BY <3>1, BodyByteTyped
    <3>3. [h EXCEPT !.pos = from + n].pos = from + n
      BY DEF FieldsType
    <3>4. f[n].pos = from + n
      BY <2>2, <2>3, <3>2, <3>3 DEF BodyTurn
    <3> QED
      BY <3>4
  <2>4. CASE g.rc # "SGX_AGAIN"
    BY <2>2, <2>4 DEF BodyTurn
  <2> QED
    BY <2>3, <2>4
<1>5. m \in Good
  <2> HIDE DEF Good
  <2> QED
    BY <1>3, <1>4, Induct
<1>6. PICK g \in FieldsType(BodyStates) : g = f[m] /\ g.pos \in from..to
  BY <1>2, <1>5
<1>7. PICK h \in FieldsType(BodyStates) : h = g /\ q = Stored(r, h, from)
  BY <1>1, <1>6
<1>8. h.pos \in from..to /\ h.rc = g.rc
  BY <1>6, <1>7
<1>9. r.state \in BodyStates
  BY DEF FieldsType
<1>10. CASE h.rc = "SGX_AGAIN"
  BY <1>7, <1>8, <1>10 DEF Stored
<1>11. CASE h.rc = "SGX_OK"
  <2>1. q = [h EXCEPT !.state = "sw_start"]
    BY <1>7, <1>11 DEF Stored
  <2> QED
    BY <1>8, <2>1 DEF FieldsType, BodyStates
<1>12. CASE h.rc # "SGX_AGAIN" /\ h.rc # "SGX_OK"
  <2>1. q = [h EXCEPT !.state = r.state, !.pos = from]
    BY <1>7, <1>12 DEF Stored
  <2>2. from \in from..to
    OBVIOUS
  <2> QED
    BY <1>8, <1>9, <1>12, <2>1, <2>2 DEF FieldsType
<1> QED
  BY <1>10, <1>11, <1>12

-----------------------------------------------------------------------------
(* Where the pieces of a request are in its text *)

\* s is in t behind its first o bytes.
Has(t, o, s) == \A k \in 1..Len(s) : t[o + k] = s[k]

\* What a concatenation has where.
LEMMA Joined ==
  ASSUME NEW B, NEW s \in Seq(B), NEW t \in Seq(B)
  PROVE  /\ s \o t \in Seq(B) /\ Len(s \o t) = Len(s) + Len(t)
         /\ Len(s) \in Nat /\ Len(t) \in Nat
         /\ \A k \in 1..Len(s) : (s \o t)[k] = s[k]
         /\ \A k \in 1..Len(t) : (s \o t)[Len(s) + k] = t[k]
  OBVIOUS

\* Where two sequences are, one after the other.
LEMMA Split ==
  ASSUME NEW B, NEW s \in Seq(B), NEW u \in Seq(B), NEW t, NEW o \in Nat, Has(t, o, s \o u)
  PROVE  /\ Has(t, o, s) /\ Has(t, o + Len(s), u)
         /\ s \o u \in Seq(B) /\ Len(s \o u) = Len(s) + Len(u)
         /\ o + Len(s) \in Nat
<1>1. PICK d : d = s \o u
  OBVIOUS
<1>2. /\ d \in Seq(B) /\ Len(d) = Len(s) + Len(u)
      /\ Len(s) \in Nat /\ Len(u) \in Nat
      /\ \A k \in 1..Len(s) : d[k] = s[k]
      /\ \A k \in 1..Len(u) : d[Len(s) + k] = u[k]
  BY <1>1, Joined
<1>3. \A k \in 1..Len(d) : t[o + k] = d[k]
  BY <1>1 DEF Has
<1>4. Has(t, o, s)
  <2>1. \A k \in 1..Len(s) : k \in 1..Len(d)
    BY <1>2
  <2> QED
    BY <1>2, <1>3, <2>1 DEF Has
<1>5. Has(t, o + Len(s), u)
  <2>1. ASSUME NEW k \in 1..Len(u) PROVE t[(o + Len(s)) + k] = u[k]
    <3>1. Len(s) + k \in 1..Len(d) /\ (o + Len(s)) + k = o + (Len(s) + k)
      BY <1>2
    <3> QED
      BY <1>2, <1>3, <3>1
  <2> QED
    BY <2>1 DEF Has
<1> QED
  BY <1>1, <1>2, <1>4, <1>5

\* The text of a header is a sequence of bytes.
LEMMA HeaderTyped ==
  ASSUME NEW h \in HeaderType
  PROVE  Header(h) \in Seq(ByteClasses)
<1>1. /\ h.key \in Seq(ByteClasses) /\ h.colon \in Seq(ByteClasses)
      /\ h.value \in Seq(ByteClasses) /\ h.end \in Seq(ByteClasses)
  BY DEF HeaderType
<1> QED
  BY <1>1 DEF Header

\* The pieces of a request are sequences of bytes.
LEMMA RequestTyped ==
  ASSUME NEW a \in RequestType
  PROVE  /\ a.blank \in Seq(ByteClasses) /\ a.method \in Seq(ByteClasses)
         /\ a.gap \in Seq(ByteClasses) /\ a.uri \in Seq(ByteClasses)
         /\ a.proto \in Seq(ByteClasses) /\ a.major \in Seq(ByteClasses)
         /\ a.minor \in Seq(ByteClasses) /\ a.end \in Seq(ByteClasses)
         /\ a.headers \in Seq(HeaderType)
  BY DEF RequestType

\* The text of a request line is a sequence of bytes.
LEMMA LineTyped ==
  ASSUME NEW a \in RequestType
  PROVE  Line(a) \in Seq(ByteClasses)
<1> DEFINE S == Seq(ByteClasses)
<1>1. /\ a.blank \in S /\ a.method \in S /\ a.gap \in S /\ a.uri \in S /\ a.proto \in S
      /\ a.major \in S /\ a.minor \in S /\ a.end \in S
  BY RequestTyped
<1>2. <<"SP">> \in S /\ <<".">> \in S
  BY DEF ByteClasses, Below
<1>3. \A s, t \in S : s \o t \in S
  OBVIOUS
<1> HIDE DEF S
<1>4. a.blank \o a.method \o a.gap \o a.uri \in S
  BY <1>1, <1>3
<1>5. a.blank \o a.method \o a.gap \o a.uri \o <<"SP">> \o a.proto \in S
  BY <1>1, <1>2, <1>3, <1>4
<1>6. Line(a) \in S
  BY <1>1, <1>2, <1>3, <1>5 DEF Line
<1> QED
  BY <1>6 DEF S

\* The recursive function of UpTo exists.
LEMMA UpToIs ==
  ASSUME NEW a \in RequestType
  PROVE  /\ UpTo(a, 0) = Line(a)
         /\ \A j \in 1..Len(a.headers) : UpTo(a, j) = UpTo(a, j - 1) \o Header(a.headers[j])
         /\ \A j \in 0..Len(a.headers) : UpTo(a, j) \in Seq(ByteClasses)
<1> DEFINE m == Len(a.headers)
           T == Seq(ByteClasses)
           G == [x \in (1..m) \X T |-> x[2] \o Header(a.headers[x[1]])]
           Body(h) == [i \in 0..m |->
                         IF i = 0 THEN Line(a) ELSE h[i - 1] \o Header(a.headers[i])]
           upTo == CHOOSE h : h = Body(h)
<1>1. m \in Nat
  BY RequestTyped
<1>2. Line(a) \in T
  BY LineTyped
<1>3. ASSUME NEW n \in 1..m PROVE Header(a.headers[n]) \in T
  <2>1. a.headers[n] \in HeaderType
    BY RequestTyped
  <2> QED
    BY <2>1, HeaderTyped
<1>4. ASSUME NEW n \in 1..m, NEW x \in T
      PROVE  G[<<n, x>>] = x \o Header(a.headers[n]) /\ G[<<n, x>>] \in T
  <2>1. G[<<n, x>>] = x \o Header(a.headers[n])
    OBVIOUS
  <2>2. PICK h \in T : h = Header(a.headers[n])
    BY <1>3
  <2>3. x \o h \in T
    OBVIOUS
  <2> QED
    BY <2>1, <2>2, <2>3
<1>5. StaysIn(T, m, G)
  <2> HIDE DEF G, T
  <2> QED
    BY <1>4 DEF StaysIn
<1>6. PICK f : Iterates(T, Line(a), m, G, f)
  <2> HIDE DEF m, T, G
  <2> QED
    BY <1>1, <1>2, <1>5, Iterated
<1>7. f = Body(f)
  <2> HIDE DEF G, T
  <2>1. ASSUME NEW n \in 0..m PROVE f[n] = Body(f)[n]
    <3>1. CASE n = 0
      BY <1>6, <3>1 DEF Iterates
    <3>2. CASE n # 0
      <4>1. n \in 1..m /\ n - 1 \in 0..m
        BY <1>1, <3>2
      <4>2. f[n] = G[<<n, f[n - 1]>>] /\ f[n - 1] \in T
        BY <1>6, <4>1 DEF Iterates
      <4> QED
        BY <1>4, <3>2, <4>1, <4>2
    <3> QED
      BY <3>1, <3>2
  <2>2. f = [n \in 0..m |-> f[n]]
    BY <1>6 DEF Iterates
  <2> HIDE DEF m
  <2> QED
    BY <2>1, <2>2
<1>8. upTo = Body(upTo)
  <2> HIDE DEF Body
  <2> QED
    BY <1>7
<1>9. \A n \in 0..m : UpTo(a, n) = upTo[n]
  BY DEF UpTo
<1> HIDE DEF upTo
<1>10. UpTo(a, 0) = Line(a)
  <2>1. 0 \in 0..m
    BY <1>1
  <2> QED
    BY <1>8, <1>9, <2>1
<1>11. ASSUME NEW n \in 1..m PROVE UpTo(a, n) = UpTo(a, n - 1) \o Header(a.headers[n])
  <2>1. n \in 0..m /\ n # 0 /\ n - 1 \in 0..m
    BY <1>1
  <2>2. upTo[n] = upTo[n - 1] \o Header(a.headers[n])
    BY <1>8, <2>1
  <2> QED
    BY <1>9, <2>1, <2>2
<1>12. ASSUME NEW n \in 0..m PROVE UpTo(a, n) \in T
  <2> DEFINE Good == {k \in 0..m : UpTo(a, k) \in T}
  <2>1. 0 \in Good
    BY <1>1, <1>2, <1>10
  <2>2. ASSUME NEW k \in 1..m, k - 1 \in Good PROVE k \in Good
    <3>1. UpTo(a, k - 1) \in T /\ Header(a.headers[k]) \in T
      BY <1>3, <2>2
    <3>2. UpTo(a, k - 1) \o Header(a.headers[k]) \in T
      BY <3>1
    <3>3. UpTo(a, k) \in T
      BY <1>11, <3>2
    <3> QED
      BY <3>3
  <2>3. n \in Good
    <3> HIDE DEF Good, m
    <3> QED
      BY <1>1, <2>1, <2>2, Induct
  <2> QED
    BY <2>3
<1> QED
  BY <1>10, <1>11, <1>12

\* The byte with index i.
ByteAt(a, i) == Text(a)[i + 1]

\* Where the line, each header and the last two bytes are in the text.
LEMMA TextParts ==
  ASSUME NEW a \in RequestType
  PROVE  /\ Text(a) \in Seq(ByteClasses)
         /\ Has(Text(a), 0, Line(a))
         /\ HeaderAt(a, 1) = Len(Line(a))
         /\ \A j \in 1..(Len(a.headers) + 1) : HeaderAt(a, j) \in Nat /\ HeaderAt(a, j) >= Len(Line(a))
         /\ \A j \in 1..Len(a.headers) :
              /\ Has(Text(a), HeaderAt(a, j), Header(a.headers[j]))
              /\ HeaderAt(a, j + 1) = HeaderAt(a, j) + Len(Header(a.headers[j]))
              /\ HeaderAt(a, j + 1) <= HeaderAt(a, Len(a.headers) + 1)
         /\ Has(Text(a), HeaderAt(a, Len(a.headers) + 1), <<"CR", "LF">>)
         /\ Len(Text(a)) = HeaderAt(a, Len(a.headers) + 1) + 2
<1> PICK S : S = Seq(ByteClasses)
  OBVIOUS
<1> PICK n \in Nat : n = Len(a.headers)
  BY RequestTyped
<1> PICK t : t = Text(a)
  OBVIOUS
<1> DEFINE U(j) == UpTo(a, j)
           H(j) == Header(a.headers[j])
           crlf == <<"CR", "LF">>
<1>1. crlf \in Seq(ByteClasses) /\ Len(crlf) = 2
  <2>1. "CR" \in ByteClasses /\ "LF" \in ByteClasses
    BY DEF ByteClasses, Below, Ends
  <2> QED
    BY <2>1
<1>2. /\ U(0) = Line(a) /\ \A j \in 1..n : U(j) = U(j - 1) \o H(j)
      /\ \A j \in 0..n : U(j) \in Seq(ByteClasses)
      /\ \A j : HeaderAt(a, j) = Len(U(j - 1))
  BY UpToIs DEF HeaderAt
<1>3. ASSUME NEW j \in 1..n PROVE H(j) \in Seq(ByteClasses)
  <2>1. a.headers[j] \in HeaderType
    BY RequestTyped
  <2> QED
    BY <2>1, HeaderTyped
<1>4. t = U(n) \o crlf
  BY DEF Text
<1> HIDE DEF U, H, crlf
<1>5. U(n) \in Seq(ByteClasses) /\ Len(U(n)) \in Nat
  BY <1>2
<1>6. t \in Seq(ByteClasses) /\ Len(t) = Len(U(n)) + 2
  <2>1. Len(U(n) \o crlf) = Len(U(n)) + Len(crlf) /\ U(n) \o crlf \in Seq(ByteClasses)
    BY <1>1, <1>5, Joined
  <2> QED
    BY <1>1, <1>4, <2>1
<1>7. Has(t, 0, t)
  BY DEF Has
<1>8. Has(t, 0, U(n)) /\ Has(t, Len(U(n)), crlf)
  <2>1. Has(t, 0, U(n) \o crlf)
    BY <1>4, <1>7
  <2>2. Has(t, 0, U(n)) /\ Has(t, 0 + Len(U(n)), crlf)
    BY <1>1, <1>5, <2>1, Split
  <2>3. 0 + Len(U(n)) = Len(U(n))
    BY <1>5
  <2> QED
    BY <2>2, <2>3
<1>9. ASSUME NEW j \in 1..n, Has(t, 0, U(j))
      PROVE  Has(t, 0, U(j - 1)) /\ Has(t, Len(U(j - 1)), H(j))
  <2>1. U(j - 1) \in Seq(ByteClasses) /\ U(j) = U(j - 1) \o H(j)
    BY <1>2
  <2>2. Has(t, 0, U(j - 1)) /\ Has(t, 0 + Len(U(j - 1)), H(j))
    <3>1. Has(t, 0, U(j - 1) \o H(j))
      BY <1>9, <2>1
    <3> QED
      BY <1>3, <2>1, <3>1, Split
  <2>3. 0 + Len(U(j - 1)) = Len(U(j - 1))
    BY <2>1
  <2> QED
    BY <2>2, <2>3
<1>10. ASSUME NEW j \in 1..n PROVE Len(U(j)) = Len(U(j - 1)) + Len(H(j)) /\ Len(H(j)) \in Nat
                                   /\ Len(U(j - 1)) \in Nat
  <2>1. U(j - 1) \in Seq(ByteClasses) /\ U(j) = U(j - 1) \o H(j)
    BY <1>2
  <2> QED
    BY <1>3, <2>1, Joined
<1>11. \A j \in 0..n : Has(t, 0, U(j)) /\ Len(U(j)) <= Len(U(n))
  <2> DEFINE Good == {k \in 0..n : Has(t, 0, U(n - k)) /\ Len(U(n - k)) <= Len(U(n))}
  <2>1. 0 \in Good
    <3>1. n - 0 = n
      OBVIOUS
    <3> QED
      BY <1>5, <1>8, <3>1
  <2>2. ASSUME NEW k \in 1..n, k - 1 \in Good PROVE k \in Good
    <3>1. n - (k - 1) \in 1..n /\ (n - (k - 1)) - 1 = n - k
      OBVIOUS
    <3>2. Has(t, 0, U(n - k))
      BY <1>9, <2>2, <3>1
    <3>3. Len(U(n - k)) <= Len(U(n))
      <4>1. Len(U(n - (k - 1))) = Len(U(n - k)) + Len(H(n - (k - 1)))
            /\ Len(U(n - k)) \in Nat /\ Len(H(n - (k - 1))) \in Nat
        BY <1>10, <3>1
      <4>2. Len(U(n - (k - 1))) <= Len(U(n))
        BY <2>2
      <4> QED
        BY <1>5, <4>1, <4>2
    <3> QED
      BY <3>2, <3>3
  <2>3. \A k \in 0..n : k \in Good
    <3> HIDE DEF Good
    <3> QED
      BY <2>1, <2>2, Induct
  <2>4. ASSUME NEW j \in 0..n PROVE Has(t, 0, U(j)) /\ Len(U(j)) <= Len(U(n))
    <3>1. n - j \in 0..n /\ n - (n - j) = j
      OBVIOUS
    <3> QED
      BY <2>3, <3>1
  <2> QED
    BY <2>4
<1>12. \A j \in 0..n : Len(U(j)) >= Len(U(0))
  <2> DEFINE Good == {k \in 0..n : Len(U(k)) >= Len(U(0))}
  <2>1. Len(U(0)) \in Nat
    BY <1>2
  <2>2. 0 \in Good
    BY <2>1
  <2>3. ASSUME NEW k \in 1..n, k - 1 \in Good PROVE k \in Good
    <3>1. Len(U(k)) >= Len(U(0))
      BY <1>10, <2>1, <2>3
    <3> QED
      BY <3>1
  <2>4. \A k \in 0..n : k \in Good
    <3> HIDE DEF Good
    <3> QED
      BY <2>2, <2>3, Induct
  <2> QED
    BY <2>4
<1>13. Has(t, 0, Line(a)) /\ HeaderAt(a, 1) = Len(Line(a))
  <2>1. 0 \in 0..n /\ 1 - 1 = 0
    OBVIOUS
  <2> QED
    BY <1>2, <1>11, <2>1
<1>14. ASSUME NEW j \in 1..(n + 1)
       PROVE  HeaderAt(a, j) \in Nat /\ HeaderAt(a, j) >= Len(Line(a))
  <2>1. j - 1 \in 0..n
    OBVIOUS
  <2>2. HeaderAt(a, j) = Len(U(j - 1)) /\ U(j - 1) \in Seq(ByteClasses)
    BY <1>2, <2>1
  <2> QED
    BY <1>2, <1>12, <2>1, <2>2
<1>15. HeaderAt(a, n + 1) = Len(U(n))
  <2>1. (n + 1) - 1 = n
    OBVIOUS
  <2> QED
    BY <1>2, <2>1
<1>16. ASSUME NEW j \in 1..n
       PROVE  /\ Has(t, HeaderAt(a, j), H(j))
              /\ HeaderAt(a, j + 1) = HeaderAt(a, j) + Len(H(j))
              /\ HeaderAt(a, j + 1) <= HeaderAt(a, n + 1)
  <2>1. j \in 0..n /\ (j + 1) - 1 = j
    OBVIOUS
  <2>2. HeaderAt(a, j) = Len(U(j - 1)) /\ HeaderAt(a, j + 1) = Len(U(j))
    BY <1>2, <2>1
  <2> QED
    BY <1>9, <1>10, <1>11, <1>15, <2>1, <2>2
<1> QED
  BY <1>6, <1>8, <1>13, <1>14, <1>15, <1>16 DEF H, crlf

\* Where the pieces of the request line begin and end.
MethodEnd(a) == MethodAt(a) + Len(a.method)
UriEnd(a) == UriAt(a) + Len(a.uri)
MajorAt(a) == UriEnd(a) + 6
MajorEnd(a) == MajorAt(a) + Len(a.major)
MinorAt(a) == MajorEnd(a) + 1
MinorEnd(a) == MinorAt(a) + Len(a.minor)

\* Where the pieces of a request line are.
LEMMA LineParts ==
  ASSUME NEW a \in RequestType, Len(a.proto) = 5
  PROVE  /\ MethodAt(a) \in Nat /\ UriAt(a) \in Nat
         /\ UriAt(a) = MethodEnd(a) + Len(a.gap)
         /\ Len(Line(a)) = MinorEnd(a) + Len(a.end)
         /\ Has(Text(a), 0, a.blank)
         /\ Has(Text(a), MethodAt(a), a.method)
         /\ Has(Text(a), MethodEnd(a), a.gap)
         /\ Has(Text(a), UriAt(a), a.uri)
         /\ Has(Text(a), UriEnd(a), <<"SP">>)
         /\ Has(Text(a), UriEnd(a) + 1, a.proto)
         /\ Has(Text(a), MajorAt(a), a.major)
         /\ Has(Text(a), MajorEnd(a), <<".">>)
         /\ Has(Text(a), MinorAt(a), a.minor)
         /\ Has(Text(a), MinorEnd(a), a.end)
<1> PICK t : t = Text(a)
  OBVIOUS
<1> DEFINE B == Seq(ByteClasses)
           b1 == a.blank \o a.method
           b2 == b1 \o a.gap
           b3 == b2 \o a.uri
           b4 == b3 \o <<"SP">>
           b5 == b4 \o a.proto
           b6 == b5 \o a.major
           b7 == b6 \o <<".">>
           b8 == b7 \o a.minor
<1>1. /\ a.blank \in B /\ a.method \in B /\ a.gap \in B /\ a.uri \in B /\ a.proto \in B
      /\ a.major \in B /\ a.minor \in B /\ a.end \in B
  BY RequestTyped
<1>2. <<"SP">> \in B /\ <<".">> \in B /\ Len(<<"SP">>) = 1 /\ Len(<<".">>) = 1
  BY DEF ByteClasses, Below
<1>3. \A s, u \in B : s \o u \in B /\ Len(s \o u) = Len(s) + Len(u) /\ Len(s) \in Nat /\ Len(u) \in Nat
  OBVIOUS
<1>4. Line(a) = b8 \o a.end
  BY DEF Line
<1>5. \A s, u \in B : Has(t, 0, s \o u) => Has(t, 0, s) /\ Has(t, Len(s), u)
  <2>1. ASSUME NEW s \in B, NEW u \in B, Has(t, 0, s \o u)
        PROVE  Has(t, 0, s) /\ Has(t, Len(s), u)
    <3>1. Has(t, 0, s) /\ Has(t, 0 + Len(s), u)
      BY <2>1, Split
    <3>2. 0 + Len(s) = Len(s)
      OBVIOUS
    <3> QED
      BY <3>1, <3>2
  <2> QED
    BY <2>1
<1> HIDE DEF B
<1>6. b1 \in B /\ Len(b1) = Len(a.blank) + Len(a.method)
  BY <1>1, <1>3
<1> HIDE DEF b1
<1>7. b2 \in B /\ Len(b2) = Len(b1) + Len(a.gap)
  BY <1>1, <1>3, <1>6
<1> HIDE DEF b2
<1>8. b3 \in B /\ Len(b3) = Len(b2) + Len(a.uri)
  BY <1>1, <1>3, <1>7
<1> HIDE DEF b3
<1>9. b4 \in B /\ Len(b4) = Len(b3) + 1
  BY <1>2, <1>3, <1>8
<1> HIDE DEF b4
<1>10. b5 \in B /\ Len(b5) = Len(b4) + 5
  BY <1>1, <1>3, <1>9
<1> HIDE DEF b5
<1>11. b6 \in B /\ Len(b6) = Len(b5) + Len(a.major)
  BY <1>1, <1>3, <1>10
<1> HIDE DEF b6
<1>12. b7 \in B /\ Len(b7) = Len(b6) + 1
  BY <1>2, <1>3, <1>11
<1> HIDE DEF b7
<1>13. b8 \in B /\ Len(b8) = Len(b7) + Len(a.minor)
  BY <1>1, <1>3, <1>12
<1> HIDE DEF b8
<1>14. Len(Line(a)) = Len(b8) + Len(a.end)
  BY <1>1, <1>3, <1>4, <1>13
<1>15. /\ Len(a.blank) \in Nat /\ Len(a.method) \in Nat /\ Len(a.gap) \in Nat /\ Len(a.uri) \in Nat
       /\ Len(a.major) \in Nat /\ Len(a.minor) \in Nat /\ Len(a.end) \in Nat
  BY <1>1, <1>3
<1>16. /\ Len(a.blank) = MethodAt(a) /\ Len(b1) = MethodEnd(a) /\ Len(b2) = UriAt(a)
       /\ Len(b3) = UriEnd(a) /\ Len(b4) = UriEnd(a) + 1 /\ Len(b5) = MajorAt(a)
       /\ Len(b6) = MajorEnd(a) /\ Len(b7) = MinorAt(a) /\ Len(b8) = MinorEnd(a)
       /\ UriAt(a) = MethodEnd(a) + Len(a.gap) /\ MethodAt(a) \in Nat /\ UriAt(a) \in Nat
  <2>1. /\ Len(a.blank) = MethodAt(a) /\ Len(b1) = MethodEnd(a) /\ MethodAt(a) \in Nat
        /\ MethodEnd(a) \in Nat
    <3>1. PICK x \in Nat, y \in Nat : x = Len(a.blank) /\ y = Len(a.method)
      BY <1>15
    <3>2. MethodAt(a) = x /\ MethodEnd(a) = x + y /\ Len(b1) = x + y
      BY <1>6, <3>1 DEF MethodAt, MethodEnd
    <3>3. x + y \in Nat
      OBVIOUS
    <3>4. Len(b1) = MethodEnd(a)
      BY <3>2
    <3>5. Len(a.blank) = MethodAt(a)
      BY <3>1, <3>2
    <3>6. MethodAt(a) \in Nat
      BY <3>2
    <3>7. MethodEnd(a) \in Nat
      BY <3>2, <3>3
    <3> QED
      BY <3>4, <3>5, <3>6, <3>7
  <2>2. UriAt(a) = MethodEnd(a) + Len(a.gap) /\ UriAt(a) \in Nat /\ Len(b2) = UriAt(a)
    BY <1>7, <1>15, <2>1 DEF UriAt, MethodEnd
  <2>3. Len(b3) = UriEnd(a) /\ UriEnd(a) \in Nat
    BY <1>8, <1>15, <2>2 DEF UriEnd
  <2>4. Len(b4) = UriEnd(a) + 1 /\ Len(b5) = MajorAt(a) /\ MajorAt(a) \in Nat
    BY <1>9, <1>10, <2>3 DEF MajorAt
  <2>5. Len(b6) = MajorEnd(a) /\ MajorEnd(a) \in Nat
    BY <1>11, <1>15, <2>4 DEF MajorEnd
  <2>6. Len(b7) = MinorAt(a) /\ MinorAt(a) \in Nat
    BY <1>12, <2>5 DEF MinorAt
  <2>7. Len(b8) = MinorEnd(a)
    BY <1>13, <2>6 DEF MinorEnd
  <2> QED
    BY <2>1, <2>2, <2>3, <2>4, <2>5, <2>6, <2>7
<1>17. Has(t, 0, b8 \o a.end)
  BY <1>4, TextParts
<1>18. Has(t, 0, b8) /\ Has(t, Len(b8), a.end)
  BY <1>1, <1>5, <1>13, <1>17
<1>19. Has(t, 0, b7) /\ Has(t, Len(b7), a.minor)
  BY <1>1, <1>5, <1>12, <1>18 DEF b8
<1>20. Has(t, 0, b6) /\ Has(t, Len(b6), <<".">>)
  BY <1>2, <1>5, <1>11, <1>19 DEF b7
<1>21. Has(t, 0, b5) /\ Has(t, Len(b5), a.major)
  BY <1>1, <1>5, <1>10, <1>20 DEF b6
<1>22. Has(t, 0, b4) /\ Has(t, Len(b4), a.proto)
  BY <1>1, <1>5, <1>9, <1>21 DEF b5
<1>23. Has(t, 0, b3) /\ Has(t, Len(b3), <<"SP">>)
  BY <1>2, <1>5, <1>8, <1>22 DEF b4
<1>24. Has(t, 0, b2) /\ Has(t, Len(b2), a.uri)
  BY <1>1, <1>5, <1>7, <1>23 DEF b3
<1>25. Has(t, 0, b1) /\ Has(t, Len(b1), a.gap)
  BY <1>1, <1>5, <1>6, <1>24 DEF b2
<1>26. Has(t, 0, a.blank) /\ Has(t, Len(a.blank), a.method)
  BY <1>1, <1>5, <1>25 DEF b1
<1> QED
  BY <1>14, <1>16, <1>18, <1>19, <1>20, <1>21, <1>22, <1>23, <1>24, <1>25, <1>26

\* What the bytes of a piece are.
LEMMA InPiece ==
  ASSUME NEW B, NEW s \in Seq(B), NEW a, NEW o \in Nat, Has(Text(a), o, s),
         NEW i \in o..(o + Len(s) - 1)
  PROVE  /\ ByteAt(a, i) = s[i - o + 1]
         /\ ByteAt(a, i) \in BytesOf(s)
<1>1. Len(s) \in Nat /\ DOMAIN s = 1..Len(s)
  OBVIOUS
<1>2. i - o + 1 \in 1..Len(s) /\ o + (i - o + 1) = i + 1
  BY <1>1
<1>3. Text(a)[i + 1] = s[i - o + 1]
  BY <1>2 DEF Has
<1> QED
  BY <1>1, <1>2, <1>3 DEF ByteAt, BytesOf

\* Where the pieces of a well-formed request line lie, and which bytes they have.
LinePlaces(a) ==
  /\ MethodAt(a) \in Nat /\ MethodEnd(a) \in Nat /\ UriAt(a) \in Nat /\ UriEnd(a) \in Nat
  /\ MajorAt(a) \in Nat /\ MajorEnd(a) \in Nat /\ MinorAt(a) \in Nat /\ MinorEnd(a) \in Nat
  /\ Len(Line(a)) \in Nat
  /\ MethodAt(a) < MethodEnd(a) /\ MethodEnd(a) < UriAt(a) /\ UriAt(a) < UriEnd(a)
  /\ MajorAt(a) = UriEnd(a) + 6 /\ MajorAt(a) < MajorEnd(a)
  /\ MinorAt(a) = MajorEnd(a) + 1 /\ MinorAt(a) < MinorEnd(a) /\ MinorEnd(a) < Len(Line(a))
  /\ Len(a.method) = MethodEnd(a) - MethodAt(a)
  /\ Len(a.major) = MajorEnd(a) - MajorAt(a) /\ Len(a.minor) = MinorEnd(a) - MinorAt(a)

\* Which bytes the pieces have.
LineBytes(a) ==
  /\ \A i \in 0..(MethodAt(a) - 1) : ByteAt(a, i) \in Ends
  /\ \A i \in MethodAt(a)..(MethodEnd(a) - 1) :
       /\ ByteAt(a, i) \in MethodBytes(FALSE) /\ ByteAt(a, i) \in BytesOf(a.method)
       /\ ByteAt(a, i) = a.method[i - MethodAt(a) + 1]
  /\ \A i \in MethodEnd(a)..(UriAt(a) - 1) : ByteAt(a, i) = "SP"
  /\ ByteAt(a, UriAt(a)) = "/"
  /\ \A i \in UriAt(a)..(UriEnd(a) - 1) : ByteAt(a, i) # "SP"
  /\ ByteAt(a, UriEnd(a)) = "SP"
  /\ ByteAt(a, UriEnd(a) + 1) = "H" /\ ByteAt(a, UriEnd(a) + 2) = "T"
  /\ ByteAt(a, UriEnd(a) + 3) = "T" /\ ByteAt(a, UriEnd(a) + 4) = "P"
  /\ ByteAt(a, UriEnd(a) + 5) = "/"
  /\ ByteAt(a, MajorAt(a)) = a.major[1] /\ ByteAt(a, MajorAt(a)) # "0"
  /\ \A i \in MajorAt(a)..(MajorEnd(a) - 1) : ByteAt(a, i) \in Digits
  /\ ByteAt(a, MajorEnd(a)) = "."
  /\ ByteAt(a, MinorAt(a)) = a.minor[1]
  /\ \A i \in MinorAt(a)..(MinorEnd(a) - 1) : ByteAt(a, i) \in Digits

\* The bytes of the end of the line.
EndBytes(a) ==
  \A i \in MinorEnd(a)..(Len(Line(a)) - 1) :
    \/ ByteAt(a, i) = "LF" /\ i = Len(Line(a)) - 1
    \/ ByteAt(a, i) = "CR" /\ i = Len(Line(a)) - 2
    \/ ByteAt(a, i) = "SP" /\ i < Len(Line(a)) - 1

\* What Blanks is made of.
LEMMA BlanksAre ==
  ASSUME NEW n \in Nat, NEW B, "SP" \in B
  PROVE  Blanks(n) \in Seq(B) /\ Len(Blanks(n)) = n /\ \A k \in 1..n : Blanks(n)[k] = "SP"
<1>1. Blanks(n) \in [1..n -> B] /\ \A k \in 1..n : Blanks(n)[k] = "SP"
  BY DEF Blanks
<1> QED
  BY <1>1

\* The bytes of the protocol are bytes.
LEMMA BytesInClass ==
  /\ {"SP", "LF", "CR", ":", "H", "T", "P", "/"} \subseteq ByteClasses
  /\ <<"LF">> \in Seq(ByteClasses) /\ <<"CR", "LF">> \in Seq(ByteClasses) /\ <<":">> \in Seq(ByteClasses)
<1>1. {"SP", "LF", "CR", ":", "H", "T", "P", "/"} \subseteq ByteClasses
  BY DEF ByteClasses, Below, Ends, Letters
<1> QED
  BY <1>1

\* The two forms that the end of a line has.
LEMMA EndIs ==
  ASSUME NEW s \in Seq(ByteClasses), IsEnd(s)
  PROVE  \E n \in Nat :
           /\ Len(s) = n + 1 \/ Len(s) = n + 2
           /\ \A k \in 1..n : s[k] = "SP"
           /\ Len(s) = n + 1 => s[n + 1] = "LF"
           /\ Len(s) = n + 2 => s[n + 1] = "CR" /\ s[n + 2] = "LF"
<1>1. PICK n \in 0..Len(s) : s = Blanks(n) \o <<"LF">> \/ s = Blanks(n) \o <<"CR", "LF">>
  BY DEF IsEnd
<1>2. n \in Nat
  OBVIOUS
<1>3. PICK b \in Seq(ByteClasses) : b = Blanks(n) /\ Len(b) = n /\ \A k \in 1..n : b[k] = "SP"
  BY <1>2, BlanksAre, BytesInClass
<1>4. CASE s = Blanks(n) \o <<"LF">>
  <2>1. PICK e \in Seq(ByteClasses) : e = <<"LF">> /\ Len(e) = 1 /\ e[1] = "LF"
    BY BytesInClass
  <2>2. s = b \o e
    BY <1>3, <1>4, <2>1
  <2>3. Len(s) = n + 1 /\ \A k \in 1..n : s[k] = b[k]
    BY <1>3, <2>1, <2>2, Joined
  <2>4. s[n + 1] = "LF"
    <3>1. 1 \in 1..Len(e)
      BY <2>1
    <3> QED
      BY <1>3, <2>1, <2>2, <3>1, Joined
  <2>5. n + 1 # n + 2
    BY <1>2
  <2> QED
    BY <1>2, <1>3, <2>3, <2>4, <2>5
<1>5. CASE s = Blanks(n) \o <<"CR", "LF">>
  <2>1. PICK e \in Seq(ByteClasses) : e = <<"CR", "LF">> /\ Len(e) = 2 /\ e[1] = "CR" /\ e[2] = "LF"
    BY BytesInClass
  <2>2. s = b \o e
    BY <1>3, <1>5, <2>1
  <2>3. Len(s) = n + 2 /\ \A k \in 1..n : s[k] = b[k]
    BY <1>3, <2>1, <2>2, Joined
  <2>4. s[n + 1] = "CR" /\ s[n + 2] = "LF"
    <3>1. 1 \in 1..Len(e) /\ 2 \in 1..Len(e)
      BY <2>1
    <3> QED
      BY <1>3, <2>1, <2>2, <3>1, Joined
  <2>5. n + 1 # n + 2
    BY <1>2
  <2> QED
    BY <1>2, <1>3, <2>3, <2>4, <2>5
<1> QED
  BY <1>1, <1>4, <1>5

\* The name of the protocol, byte by byte.
LEMMA ProtoIs ==
  ASSUME NEW a, WellFormedLine(a)
  PROVE  /\ Len(a.proto) = 5
         /\ a.proto[1] = "H" /\ a.proto[2] = "T" /\ a.proto[3] = "T" /\ a.proto[4] = "P"
         /\ a.proto[5] = "/"
<1>1. a.proto = <<"H", "T", "T", "P", "/">>
  BY DEF WellFormedLine
<1> QED
  BY <1>1

\* A well-formed request line has its pieces in their order.
LEMMA LinePlaced ==
  ASSUME NEW a \in RequestType, WellFormedLine(a)
  PROVE  LinePlaces(a)
<1>1. /\ a.blank \in Seq(ByteClasses) /\ a.method \in Seq(ByteClasses)
      /\ a.gap \in Seq(ByteClasses) /\ a.uri \in Seq(ByteClasses)
      /\ a.proto \in Seq(ByteClasses) /\ a.major \in Seq(ByteClasses)
      /\ a.minor \in Seq(ByteClasses) /\ a.end \in Seq(ByteClasses)
  BY RequestTyped
<1>2. /\ a.method # <<>> /\ a.gap # <<>> /\ a.uri # <<>> /\ a.major # <<>> /\ a.minor # <<>>
  BY DEF WellFormedLine, IsNumber
<1>3. ASSUME NEW s \in Seq(ByteClasses), s # <<>>
      PROVE  \E n \in Nat \ {0} : n = Len(s)
  BY <1>3
<1>4. PICK le \in Nat \ {0} : le = Len(a.end)
  <2>1. PICK n \in Nat : Len(a.end) = n + 1 \/ Len(a.end) = n + 2
    BY <1>1, EndIs DEF WellFormedLine
  <2>2. n + 1 \in Nat \ {0} /\ n + 2 \in Nat \ {0}
    OBVIOUS
  <2> QED
    BY <2>1, <2>2
<1>5. Len(a.proto) = 5
  BY ProtoIs
<1>6. PICK lm \in Nat \ {0} : lm = Len(a.method)
  BY <1>1, <1>2, <1>3
<1>7. PICK lg \in Nat \ {0} : lg = Len(a.gap)
  BY <1>1, <1>2, <1>3
<1>8. PICK lu \in Nat \ {0} : lu = Len(a.uri)
  BY <1>1, <1>2, <1>3
<1>9. PICK lj \in Nat \ {0} : lj = Len(a.major)
  BY <1>1, <1>2, <1>3
<1>10. PICK ln \in Nat \ {0} : ln = Len(a.minor)
  BY <1>1, <1>2, <1>3
<1>11. PICK m \in Nat : m = MethodAt(a)
  BY <1>5, LineParts
<1>12. PICK me \in Nat : me = m + lm
  OBVIOUS
<1>13. PICK u \in Nat : u = me + lg
  OBVIOUS
<1>14. PICK ue \in Nat : ue = u + lu
  OBVIOUS
<1>15. PICK j \in Nat : j = ue + 6
  OBVIOUS
<1>16. PICK je \in Nat : je = j + lj
  OBVIOUS
<1>17. PICK n \in Nat : n = je + 1
  OBVIOUS
<1>18. PICK ne \in Nat : ne = n + ln
  OBVIOUS
<1>19. PICK l \in Nat : l = ne + le
  OBVIOUS
<1>20. MethodEnd(a) = me
  BY <1>6, <1>11, <1>12 DEF MethodEnd
<1>21. UriAt(a) = u
  BY <1>5, <1>7, <1>13, <1>20, LineParts
<1>22. UriEnd(a) = ue
  BY <1>8, <1>14, <1>21 DEF UriEnd
<1>23. MajorAt(a) = j
  BY <1>15, <1>22 DEF MajorAt
<1>24. MajorEnd(a) = je
  BY <1>9, <1>16, <1>23 DEF MajorEnd
<1>25. MinorAt(a) = n
  BY <1>17, <1>24 DEF MinorAt
<1>26. MinorEnd(a) = ne
  BY <1>10, <1>18, <1>25 DEF MinorEnd
<1>27. Len(Line(a)) = l
  BY <1>4, <1>5, <1>19, <1>26, LineParts
<1>28. /\ m < me /\ me < u /\ u < ue /\ j < je /\ n < ne /\ ne < l
       /\ lm = me - m /\ lj = je - j /\ ln = ne - n
  BY <1>12, <1>13, <1>14, <1>16, <1>18, <1>19
<1> QED
  BY <1>6, <1>9, <1>10, <1>11, <1>15, <1>17, <1>20, <1>21, <1>22, <1>23, <1>24, <1>25, <1>26,
     <1>27, <1>28
  DEF LinePlaces

\* It has the bytes it should.
LEMMA LineBytesAre ==
  ASSUME NEW a \in RequestType, WellFormedLine(a)
  PROVE  LineBytes(a)
<1>1. LinePlaces(a)
  BY LinePlaced
<1>2. /\ a.blank \in Seq(ByteClasses) /\ a.method \in Seq(ByteClasses)
      /\ a.gap \in Seq(ByteClasses) /\ a.uri \in Seq(ByteClasses)
      /\ a.proto \in Seq(ByteClasses) /\ a.major \in Seq(ByteClasses)
      /\ a.minor \in Seq(ByteClasses) /\ a.end \in Seq(ByteClasses)
  BY RequestTyped
<1>3. Len(a.proto) = 5
  BY ProtoIs
<1>4. ASSUME NEW i \in 0..(MethodAt(a) - 1) PROVE ByteAt(a, i) \in Ends
  <2>1. Has(Text(a), 0, a.blank)
    BY <1>3, LineParts
  <2>2. i \in 0..(0 + Len(a.blank) - 1)
    BY <1>2 DEF MethodAt
  <2>3. ByteAt(a, i) \in BytesOf(a.blank)
    BY <1>2, <2>1, <2>2, InPiece
  <2> QED
    BY <2>3 DEF WellFormedLine
<1>5. ASSUME NEW i \in MethodAt(a)..(MethodEnd(a) - 1)
      PROVE  /\ ByteAt(a, i) \in MethodBytes(FALSE) /\ ByteAt(a, i) \in BytesOf(a.method)
             /\ ByteAt(a, i) = a.method[i - MethodAt(a) + 1]
  <2>1. Has(Text(a), MethodAt(a), a.method) /\ MethodAt(a) \in Nat
    BY <1>3, LineParts
  <2>2. i \in MethodAt(a)..(MethodAt(a) + Len(a.method) - 1)
    <3>1. MethodEnd(a) = MethodAt(a) + Len(a.method)
      BY DEF MethodEnd
    <3> QED
      BY <2>1, <3>1
  <2>3. ByteAt(a, i) \in BytesOf(a.method) /\ ByteAt(a, i) = a.method[i - MethodAt(a) + 1]
    BY <1>2, <2>1, <2>2, InPiece
  <2> QED
    BY <2>3 DEF WellFormedLine
<1>6. ASSUME NEW i \in MethodEnd(a)..(UriAt(a) - 1) PROVE ByteAt(a, i) = "SP"
  <2>1. Has(Text(a), MethodEnd(a), a.gap) /\ MethodEnd(a) \in Nat /\ UriAt(a) = MethodEnd(a) + Len(a.gap)
    BY <1>1, <1>3, LineParts DEF LinePlaces
  <2>2. i \in MethodEnd(a)..(MethodEnd(a) + Len(a.gap) - 1)
    BY <2>1
  <2>3. ByteAt(a, i) \in BytesOf(a.gap)
    BY <1>2, <2>1, <2>2, InPiece
  <2> QED
    BY <2>3 DEF WellFormedLine
<1>7. ASSUME NEW i \in UriAt(a)..(UriEnd(a) - 1)
      PROVE  ByteAt(a, i) # "SP" /\ ByteAt(a, i) = a.uri[i - UriAt(a) + 1]
  <2>1. Has(Text(a), UriAt(a), a.uri) /\ UriAt(a) \in Nat
    BY <1>3, LineParts
  <2>2. i \in UriAt(a)..(UriAt(a) + Len(a.uri) - 1)
    <3>1. UriEnd(a) = UriAt(a) + Len(a.uri)
      BY DEF UriEnd
    <3> QED
      BY <2>1, <3>1
  <2>3. ByteAt(a, i) \in BytesOf(a.uri) /\ ByteAt(a, i) = a.uri[i - UriAt(a) + 1]
    BY <1>2, <2>1, <2>2, InPiece
  <2> QED
    BY <2>3 DEF WellFormedLine
<1>8. ByteAt(a, UriAt(a)) = "/"
  <2>1. PICK u, v \in Nat : u = UriAt(a) /\ v = UriEnd(a)
    BY <1>1 DEF LinePlaces
  <2>2. u \in UriAt(a)..(UriEnd(a) - 1)
    <3>1. UriAt(a) < UriEnd(a)
      BY <1>1 DEF LinePlaces
    <3>2. u < v
      BY <2>1, <3>1
    <3>3. u \in u..(v - 1)
      BY <3>2
    <3> QED
      BY <2>1, <3>3
  <2>3. u - u + 1 = 1
    OBVIOUS
  <2>4. ByteAt(a, u) = a.uri[1]
    BY <1>7, <2>1, <2>2, <2>3
  <2>5. a.uri # <<>> /\ Head(a.uri) = "/"
    BY DEF WellFormedLine
  <2>6. Head(a.uri) = a.uri[1]
    BY <1>2, <2>5
  <2> QED
    BY <2>1, <2>4, <2>5, <2>6
<1>9. ByteAt(a, UriEnd(a)) = "SP"
  <2>1. Has(Text(a), UriEnd(a), <<"SP">>)
    BY <1>3, LineParts
  <2>2. Text(a)[UriEnd(a) + 1] = "SP"
    <3>1. <<"SP">>[1] = "SP" /\ 1 \in 1..Len(<<"SP">>)
      OBVIOUS
    <3> QED
      BY <2>1, <3>1 DEF Has
  <2> QED
    BY <2>2 DEF ByteAt
<1>10. ASSUME NEW k \in 1..5 PROVE ByteAt(a, UriEnd(a) + k) = a.proto[k]
  <2>1. Has(Text(a), UriEnd(a) + 1, a.proto) /\ UriEnd(a) \in Nat
    BY <1>1, <1>3, LineParts DEF LinePlaces
  <2>2. Text(a)[(UriEnd(a) + 1) + k] = a.proto[k]
    BY <1>3, <2>1 DEF Has
  <2>3. (UriEnd(a) + 1) + k = (UriEnd(a) + k) + 1
    BY <2>1
  <2> QED
    BY <2>2, <2>3 DEF ByteAt
<1>11. ASSUME NEW i \in MajorAt(a)..(MajorEnd(a) - 1)
       PROVE  ByteAt(a, i) \in Digits /\ ByteAt(a, i) = a.major[i - MajorAt(a) + 1]
  <2>1. Has(Text(a), MajorAt(a), a.major) /\ MajorAt(a) \in Nat
    BY <1>1, <1>3, LineParts DEF LinePlaces
  <2>2. i \in MajorAt(a)..(MajorAt(a) + Len(a.major) - 1)
    <3>1. MajorEnd(a) = MajorAt(a) + Len(a.major)
      BY DEF MajorEnd
    <3> QED
      BY <2>1, <3>1
  <2>3. ByteAt(a, i) \in BytesOf(a.major) /\ ByteAt(a, i) = a.major[i - MajorAt(a) + 1]
    BY <1>2, <2>1, <2>2, InPiece
  <2> QED
    BY <2>3 DEF WellFormedLine, IsNumber
<1>12. ByteAt(a, MajorAt(a)) = a.major[1] /\ ByteAt(a, MajorAt(a)) # "0"
  <2>1. PICK u, v \in Nat : u = MajorAt(a) /\ v = MajorEnd(a)
    BY <1>1 DEF LinePlaces
  <2>2. u \in MajorAt(a)..(MajorEnd(a) - 1)
    <3>1. MajorAt(a) < MajorEnd(a)
      BY <1>1 DEF LinePlaces
    <3>2. u < v
      BY <2>1, <3>1
    <3>3. u \in u..(v - 1)
      BY <3>2
    <3> QED
      BY <2>1, <3>3
  <2>3. u - u + 1 = 1
    OBVIOUS
  <2>4. ByteAt(a, u) = a.major[1]
    BY <1>11, <2>1, <2>2, <2>3
  <2>5. a.major # <<>> /\ Head(a.major) # "0"
    BY DEF WellFormedLine, IsNumber
  <2>6. Head(a.major) = a.major[1]
    BY <1>2, <2>5
  <2> QED
    BY <2>1, <2>4, <2>5, <2>6
<1>13. ByteAt(a, MajorEnd(a)) = "."
  <2>1. Has(Text(a), MajorEnd(a), <<".">>)
    BY <1>3, LineParts
  <2>2. Text(a)[MajorEnd(a) + 1] = "."
    <3>1. <<".">>[1] = "." /\ 1 \in 1..Len(<<".">>)
      OBVIOUS
    <3> QED
      BY <2>1, <3>1 DEF Has
  <2> QED
    BY <2>2 DEF ByteAt
<1>14. ASSUME NEW i \in MinorAt(a)..(MinorEnd(a) - 1)
       PROVE  ByteAt(a, i) \in Digits /\ ByteAt(a, i) = a.minor[i - MinorAt(a) + 1]
  <2>1. Has(Text(a), MinorAt(a), a.minor) /\ MinorAt(a) \in Nat
    BY <1>1, <1>3, LineParts DEF LinePlaces
  <2>2. i \in MinorAt(a)..(MinorAt(a) + Len(a.minor) - 1)
    <3>1. MinorEnd(a) = MinorAt(a) + Len(a.minor)
      BY DEF MinorEnd
    <3> QED
      BY <2>1, <3>1
  <2>3. ByteAt(a, i) \in BytesOf(a.minor) /\ ByteAt(a, i) = a.minor[i - MinorAt(a) + 1]
    BY <1>2, <2>1, <2>2, InPiece
  <2> QED
    BY <2>3 DEF WellFormedLine, IsNumber
<1>15. ByteAt(a, MinorAt(a)) = a.minor[1]
  <2>1. PICK u, v \in Nat : u = MinorAt(a) /\ v = MinorEnd(a)
    BY <1>1 DEF LinePlaces
  <2>2. u \in MinorAt(a)..(MinorEnd(a) - 1)
    <3>1. MinorAt(a) < MinorEnd(a)
      BY <1>1 DEF LinePlaces
    <3>2. u < v
      BY <2>1, <3>1
    <3>3. u \in u..(v - 1)
      BY <3>2
    <3> QED
      BY <2>1, <3>3
  <2>3. u - u + 1 = 1
    OBVIOUS
  <2> QED
    BY <1>14, <2>1, <2>2, <2>3
<1>16. /\ ByteAt(a, UriEnd(a) + 1) = "H" /\ ByteAt(a, UriEnd(a) + 2) = "T"
       /\ ByteAt(a, UriEnd(a) + 3) = "T" /\ ByteAt(a, UriEnd(a) + 4) = "P"
       /\ ByteAt(a, UriEnd(a) + 5) = "/"
  <2>1. 1 \in 1..5 /\ 2 \in 1..5 /\ 3 \in 1..5 /\ 4 \in 1..5 /\ 5 \in 1..5
    OBVIOUS
  <2> QED
    BY <1>10, <2>1, ProtoIs
<1> QED
  BY <1>4, <1>5, <1>6, <1>7, <1>8, <1>9, <1>11, <1>12, <1>13, <1>14, <1>15, <1>16 DEF LineBytes

\* And so has the end of the line.
LEMMA EndBytesAre ==
  ASSUME NEW a \in RequestType, WellFormedLine(a)
  PROVE  EndBytes(a)
<1>1. a.end \in Seq(ByteClasses)
  BY RequestTyped
<1>2. PICK n \in Nat :
        /\ Len(a.end) = n + 1 \/ Len(a.end) = n + 2
        /\ \A k \in 1..n : a.end[k] = "SP"
        /\ Len(a.end) = n + 1 => a.end[n + 1] = "LF"
        /\ Len(a.end) = n + 2 => a.end[n + 1] = "CR" /\ a.end[n + 2] = "LF"
  BY <1>1, EndIs DEF WellFormedLine
<1>3. PICK o \in Nat : o = MinorEnd(a)
  BY LinePlaced DEF LinePlaces
<1>4. Has(Text(a), o, a.end) /\ Len(Line(a)) = o + Len(a.end)
  BY <1>3, ProtoIs, LineParts
<1>5. PICK l \in Nat : l = Len(a.end)
  BY <1>1
<1>6. ASSUME NEW i \in o..(o + l - 1)
      PROVE  \/ ByteAt(a, i) = "LF" /\ i = o + l - 1
             \/ ByteAt(a, i) = "CR" /\ i = o + l - 2
             \/ ByteAt(a, i) = "SP" /\ i < o + l - 1
  <2>1. PICK k \in 1..l : i - o + 1 = k /\ i = o + k - 1
    <3>1. i - o + 1 \in 1..l /\ i = o + (i - o + 1) - 1
      OBVIOUS
    <3> QED
      BY <3>1
  <2>2. ByteAt(a, i) = a.end[k]
    BY <1>1, <1>4, <1>5, <2>1, InPiece
  <2>3. k \in 1..n \/ k = n + 1 \/ (k = n + 2 /\ l = n + 2)
    BY <1>2, <1>5
  <2>4. CASE k \in 1..n
    BY <1>2, <1>5, <2>1, <2>2, <2>4
  <2>5. CASE k = n + 1
    BY <1>2, <1>5, <2>1, <2>2, <2>5
  <2>6. CASE k = n + 2 /\ l = n + 2
    BY <1>2, <1>5, <2>1, <2>2, <2>6
  <2> QED
    BY <2>3, <2>4, <2>5, <2>6
<1>7. Len(Line(a)) = o + l
  BY <1>4, <1>5
<1> QED
  BY <1>3, <1>6, <1>7 DEF EndBytes

-----------------------------------------------------------------------------
(* A well-formed request line, byte by byte *)

\* The state of the parser of the request line when it has parsed i bytes of a
\* well-formed one and is not at its end.
LineState(a, s, i) ==
  \/ s = "sw_start" /\ i <= MethodAt(a)
  \/ s = "sw_method" /\ MethodAt(a) < i /\ i <= MethodEnd(a)
  \/ s = "sw_spaces_before_uri" /\ MethodEnd(a) < i /\ i <= UriAt(a)
  \/ s = "sw_after_slash_in_uri" /\ UriAt(a) < i /\ i <= UriEnd(a)
  \/ s = "sw_http" /\ i = UriEnd(a) + 1
  \/ s = "sw_http_H" /\ i = UriEnd(a) + 2
  \/ s = "sw_http_HT" /\ i = UriEnd(a) + 3
  \/ s = "sw_http_HTT" /\ i = UriEnd(a) + 4
  \/ s = "sw_http_HTTP" /\ i = UriEnd(a) + 5
  \/ s = "sw_first_major_digit" /\ i = MajorAt(a)
  \/ s = "sw_major_digit" /\ MajorAt(a) < i /\ i <= MajorEnd(a)
  \/ s = "sw_first_minor_digit" /\ i = MinorAt(a)
  \/ s = "sw_minor_digit" /\ MinorAt(a) < i /\ i <= MinorEnd(a)
  \/ s = "sw_spaces_after_digit" /\ MinorEnd(a) < i /\ i < Len(Line(a))
  \/ s = "sw_almost_done" /\ i = Len(Line(a)) - 1

\* What it has learnt by then.
LineLearnt(a, r, i) ==
  /\ i > MethodAt(a) => r.request_start = Place(MethodAt(a))
  /\ i > UriAt(a) => r.uri_start = Place(UriAt(a))
  /\ i > UriEnd(a) => r.uri_end = Place(UriEnd(a))
  /\ i > MajorAt(a) /\ Len(a.major) = 1 => r.http_major = Digit(a.major[1])
  /\ i > MinorAt(a) /\ Len(a.minor) = 1 => r.http_minor = Digit(a.minor[1])

\* q has learnt what r has.
SameLearnt(r, q) ==
  /\ q.request_start = r.request_start /\ q.uri_start = r.uri_start /\ q.uri_end = r.uri_end
  /\ q.http_major = r.http_major /\ q.http_minor = r.http_minor

\* What the loop can have come to after i bytes: the state for that place, the end
\* of the line, or a method it refuses because the shift is not zero and one of its
\* bytes is no underscore.
LineReached(a, q, i, sh) ==
  \/ q.rc = "SGX_AGAIN" /\ i < Len(Line(a)) /\ LineState(a, q.state, i) /\ LineLearnt(a, q, i)
  \/ q.rc = "SGX_OK" /\ i = Len(Line(a)) /\ LineLearnt(a, q, i)
  \/ q.rc = "SGX_HTTP_PARSE_INVALID_METHOD" /\ sh /\ BytesOf(a.method) # {"_"}

\* Nothing more is learnt between the beginnings of the pieces.
LEMMA NothingLearnt ==
  ASSUME NEW a, LinePlaces(a), NEW i \in Nat, NEW r, NEW q, LineLearnt(a, r, i), SameLearnt(r, q),
         i \notin {MethodAt(a), UriAt(a), UriEnd(a), MajorAt(a), MinorAt(a)}
  PROVE  LineLearnt(a, q, i + 1)
<1>1. ASSUME NEW x \in Nat, i # x, i + 1 > x PROVE i > x
  BY <1>1
<1>2. MethodAt(a) \in Nat /\ UriAt(a) \in Nat /\ UriEnd(a) \in Nat /\ MajorAt(a) \in Nat /\ MinorAt(a) \in Nat
  BY DEF LinePlaces
<1>3. /\ i + 1 > MethodAt(a) => i > MethodAt(a)
      /\ i + 1 > UriAt(a) => i > UriAt(a)
      /\ i + 1 > UriEnd(a) => i > UriEnd(a)
      /\ i + 1 > MajorAt(a) => i > MajorAt(a)
      /\ i + 1 > MinorAt(a) => i > MinorAt(a)
  BY <1>1, <1>2
<1> HIDE <1>1, <1>2
<1> QED
  BY <1>3 DEF LineLearnt, SameLearnt

\* Names for the places of a request line.
LineAt(a, m, me, u, ue, j, je, n, ne, l) ==
  /\ m = MethodAt(a) /\ me = MethodEnd(a) /\ u = UriAt(a) /\ ue = UriEnd(a)
  /\ j = MajorAt(a) /\ je = MajorEnd(a) /\ n = MinorAt(a) /\ ne = MinorEnd(a)
  /\ l = Len(Line(a))

\* The order they are in.
InOrder(m, me, u, ue, j, je, n, ne, l) ==
  m < me /\ me < u /\ u < ue /\ j = ue + 6 /\ j < je /\ n = je + 1 /\ n < ne /\ ne < l

\* There are such numbers.
LEMMA LineOrder ==
  ASSUME NEW a, LinePlaces(a)
  PROVE  \E m, me, u, ue, j, je, n, ne, l \in Nat :
           LineAt(a, m, me, u, ue, j, je, n, ne, l) /\ InOrder(m, me, u, ue, j, je, n, ne, l)
<1>1. LineAt(a, MethodAt(a), MethodEnd(a), UriAt(a), UriEnd(a), MajorAt(a), MajorEnd(a),
             MinorAt(a), MinorEnd(a), Len(Line(a)))
  BY DEF LineAt
<1>2. InOrder(MethodAt(a), MethodEnd(a), UriAt(a), UriEnd(a), MajorAt(a), MajorEnd(a),
              MinorAt(a), MinorEnd(a), Len(Line(a)))
  BY DEF InOrder, LinePlaces
<1>3. /\ MethodAt(a) \in Nat /\ MethodEnd(a) \in Nat /\ UriAt(a) \in Nat /\ UriEnd(a) \in Nat
      /\ MajorAt(a) \in Nat /\ MajorEnd(a) \in Nat /\ MinorAt(a) \in Nat /\ MinorEnd(a) \in Nat
      /\ Len(Line(a)) \in Nat
  BY DEF LinePlaces
<1> QED
  BY <1>1, <1>2, <1>3

\* Which part of the loop's switch is taken.
LEMMA LineByteIs ==
  ASSUME NEW r, NEW b, NEW i, NEW sh, NEW c, c = b[Place(i)]
  PROVE  /\ r.state = "sw_start" => LineByte(r, b, i, sh) = LineStart(r, Place(i), c, sh)
         /\ r.state = "sw_method" => LineByte(r, b, i, sh) = LineMethod(r, b, Place(i), c, sh)
         /\ r.state = "sw_spaces_before_uri" => LineByte(r, b, i, sh) = BeforeUri(r, Place(i), c)
         /\ r.state = "sw_after_slash_in_uri" => LineByte(r, b, i, sh) = InUri(r, Place(i), c)
         /\ r.state \in {"sw_http", "sw_http_H", "sw_http_HT", "sw_http_HTT", "sw_http_HTTP"} =>
              LineByte(r, b, i, sh) = LineProtocol(r, c)
         /\ r.state = "sw_almost_done" => LineByte(r, b, i, sh) = LineAlmostDone(r, Place(i), c)
         /\ r.state \in {"sw_first_major_digit", "sw_major_digit", "sw_first_minor_digit",
                         "sw_minor_digit", "sw_spaces_after_digit"} =>
              LineByte(r, b, i, sh) = LineVersion(r, c)
<1>1. DOMAIN HttpTable = {"sw_http", "sw_http_H", "sw_http_HT", "sw_http_HTT", "sw_http_HTTP"}
  BY DEF HttpTable
<1>2. r.state = "sw_start" => LineByte(r, b, i, sh) = LineStart(r, Place(i), c, sh)
  BY <1>1 DEF LineByte
<1>3. r.state = "sw_method" => LineByte(r, b, i, sh) = LineMethod(r, b, Place(i), c, sh)
  BY <1>1 DEF LineByte
<1>4. r.state = "sw_spaces_before_uri" => LineByte(r, b, i, sh) = BeforeUri(r, Place(i), c)
  BY <1>1 DEF LineByte
<1>5. r.state = "sw_after_slash_in_uri" => LineByte(r, b, i, sh) = InUri(r, Place(i), c)
  BY <1>1 DEF LineByte
<1>6. r.state \in DOMAIN HttpTable => LineByte(r, b, i, sh) = LineProtocol(r, c)
  BY <1>1 DEF LineByte
<1>7. r.state = "sw_almost_done" => LineByte(r, b, i, sh) = LineAlmostDone(r, Place(i), c)
  BY <1>1 DEF LineByte
<1>8. r.state \in {"sw_first_major_digit", "sw_major_digit", "sw_first_minor_digit",
                   "sw_minor_digit", "sw_spaces_after_digit"} =>
        LineByte(r, b, i, sh) = LineVersion(r, c)
  BY <1>1 DEF LineByte
<1> QED
  BY <1>1, <1>2, <1>3, <1>4, <1>5, <1>6, <1>7, <1>8

\* A byte before the method, or the first one of it.
LEMMA InStart ==
  ASSUME NEW a, LinePlaces(a), LineBytes(a),
         NEW r \in FieldsType(LineStates), NEW b, NEW i \in Nat, NEW sh \in BOOLEAN,
         b[Place(i)] = ByteAt(a, i), r.rc = "SGX_AGAIN", LineLearnt(a, r, i),
         r.state = "sw_start", i <= MethodAt(a)
  PROVE  LineReached(a, LineByte(r, b, i, sh), i + 1, sh)
<1>1. PICK m, me, u, ue, j, je, n, ne, l \in Nat :
        LineAt(a, m, me, u, ue, j, je, n, ne, l) /\ InOrder(m, me, u, ue, j, je, n, ne, l)
  BY LineOrder
<1>2. m < me /\ me < u /\ u < ue /\ j = ue + 6 /\ j < je /\ n = je + 1 /\ n < ne /\ ne < l
  BY <1>1 DEF InOrder
<1>3. /\ m = MethodAt(a) /\ me = MethodEnd(a) /\ u = UriAt(a) /\ ue = UriEnd(a)
      /\ j = MajorAt(a) /\ je = MajorEnd(a) /\ n = MinorAt(a) /\ ne = MinorEnd(a)
      /\ l = Len(Line(a))
  BY <1>1 DEF LineAt
<1>4. PICK c : c = ByteAt(a, i)
  OBVIOUS
<1>5. PICK q : q = [r EXCEPT !.request_start = Place(i)]
  OBVIOUS
<1>6. LineByte(r, b, i, sh) = LineStart(r, Place(i), c, sh)
  BY <1>4, LineByteIs
<1>7. i + 1 < l /\ i + 1 <= u /\ i + 1 <= ue /\ i + 1 <= j /\ i + 1 <= n
  <2>1. i <= m
    BY <1>3
  <2> QED
    BY <1>2, <2>1
<1>8. ASSUME NEW x, x = q \/ x = Goto(q, "sw_method"), i < m \/ x.request_start = Place(m)
      PROVE  LineLearnt(a, x, i + 1)
  <2>1. i + 1 > m => x.request_start = Place(m)
    BY <1>8
  <2>2. ~ (i + 1 > u) /\ ~ (i + 1 > ue) /\ ~ (i + 1 > j) /\ ~ (i + 1 > n)
    BY <1>7
  <2> QED
    BY <1>3, <2>1, <2>2 DEF LineLearnt
<1>9. CASE i < m
  <2>1. c \in Ends
    <3>1. i \in 0..(MethodAt(a) - 1)
      BY <1>3, <1>9
    <3> QED
      BY <1>4, <3>1 DEF LineBytes
  <2>2. LineByte(r, b, i, sh) = q
    BY <1>5, <1>6, <2>1 DEF LineStart
  <2>3. q.rc = "SGX_AGAIN" /\ q.state = "sw_start"
    BY <1>5 DEF FieldsType
  <2>4. i + 1 <= MethodAt(a) /\ i + 1 < Len(Line(a))
    BY <1>3, <1>7, <1>9
  <2>5. LineState(a, q.state, i + 1)
    BY <2>3, <2>4 DEF LineState
  <2> QED
    BY <1>8, <1>9, <2>2, <2>3, <2>4, <2>5 DEF LineReached
<1>10. CASE i = m
  <2>1. c \in MethodBytes(FALSE) /\ c \in BytesOf(a.method)
    <3>1. i \in MethodAt(a)..(MethodEnd(a) - 1)
      <4>1. i \in m..(me - 1)
        BY <1>2, <1>10
      <4> QED
        BY <1>3, <4>1
    <3> QED
      BY <1>4, <3>1 DEF LineBytes
  <2>2. c \notin Ends
    BY <2>1 DEF MethodBytes, Letters, Ends
  <2>3. CASE NotInMethod(c, sh)
    <3>1. LineByte(r, b, i, sh) = Return(q, "SGX_HTTP_PARSE_INVALID_METHOD")
      BY <1>5, <1>6, <2>2, <2>3 DEF LineStart
    <3>2. Return(q, "SGX_HTTP_PARSE_INVALID_METHOD").rc = "SGX_HTTP_PARSE_INVALID_METHOD"
      BY <1>5 DEF FieldsType, Return
    <3>3. sh /\ BytesOf(a.method) # {"_"}
      <4>1. c \notin Below
        BY <2>1 DEF MethodBytes, Letters, Below, Digits, Ends
      <4>2. sh /\ c # "_"
        BY <2>3, <4>1 DEF NotInMethod
      <4> QED
        BY <2>1, <4>2
    <3> QED
      BY <3>1, <3>2, <3>3 DEF LineReached
  <2>4. CASE ~ NotInMethod(c, sh)
    <3>1. PICK x : x = Goto(q, "sw_method")
      OBVIOUS
    <3>2. LineByte(r, b, i, sh) = x
      BY <1>5, <1>6, <2>2, <2>4, <3>1 DEF LineStart
    <3>3. x.rc = "SGX_AGAIN" /\ x.state = "sw_method" /\ x.request_start = Place(m)
      BY <1>5, <1>10, <3>1 DEF FieldsType, Goto
    <3>4. MethodAt(a) < i + 1 /\ i + 1 <= MethodEnd(a) /\ i + 1 < Len(Line(a))
      <4>1. m < i + 1 /\ i + 1 <= me /\ i + 1 < l
        BY <1>2, <1>7, <1>10
      <4> QED
        BY <1>3, <4>1
    <3>5. LineState(a, x.state, i + 1)
      BY <3>3, <3>4 DEF LineState
    <3> QED
      BY <1>8, <3>1, <3>2, <3>3, <3>4, <3>5 DEF LineReached
  <2> QED
    BY <2>3, <2>4
<1> QED
  BY <1>3, <1>9, <1>10

\* A byte of the method, or the blank behind it.
LEMMA InMethod ==
  ASSUME NEW a, LinePlaces(a), LineBytes(a),
         NEW r \in FieldsType(LineStates), NEW b, NEW i \in Nat, NEW sh \in BOOLEAN,
         b[Place(i)] = ByteAt(a, i), r.rc = "SGX_AGAIN", LineLearnt(a, r, i),
         r.state = "sw_method", MethodAt(a) < i, i <= MethodEnd(a)
  PROVE  LineReached(a, LineByte(r, b, i, sh), i + 1, sh)
<1>1. PICK m, me, u, ue, j, je, n, ne, l \in Nat :
        LineAt(a, m, me, u, ue, j, je, n, ne, l) /\ InOrder(m, me, u, ue, j, je, n, ne, l)
  BY LineOrder
<1>2. m < me /\ me < u /\ u < ue /\ j = ue + 6 /\ j < je /\ n = je + 1 /\ n < ne /\ ne < l
  BY <1>1 DEF InOrder
<1>3. /\ m = MethodAt(a) /\ me = MethodEnd(a) /\ u = UriAt(a) /\ ue = UriEnd(a)
      /\ j = MajorAt(a) /\ je = MajorEnd(a) /\ n = MinorAt(a) /\ ne = MinorEnd(a)
      /\ l = Len(Line(a))
  BY <1>1 DEF LineAt
<1>4. m < i /\ i <= me
  BY <1>3
<1>5. PICK c : c = ByteAt(a, i)
  OBVIOUS
<1>6. LineByte(r, b, i, sh) = LineMethod(r, b, Place(i), c, sh)
  BY <1>5, LineByteIs
<1>7. i # m /\ i # u /\ i # ue /\ i # j /\ i # n /\ i + 1 < l
  BY <1>2, <1>4
<1>8. i \notin {MethodAt(a), UriAt(a), UriEnd(a), MajorAt(a), MinorAt(a)} /\ i + 1 < Len(Line(a))
  BY <1>3, <1>7
<1>9. CASE i < me
  <2>1. c \in MethodBytes(FALSE) /\ c \in BytesOf(a.method)
    <3>1. i \in MethodAt(a)..(MethodEnd(a) - 1)
      <4>1. i \in m..(me - 1)
        BY <1>2, <1>4, <1>9
      <4> QED
        BY <1>3, <4>1
    <3> QED
      BY <1>5, <3>1 DEF LineBytes
  <2>2. c # "SP"
    BY <2>1 DEF MethodBytes, Letters
  <2>3. CASE NotInMethod(c, sh)
    <3>1. LineByte(r, b, i, sh) = Return(r, "SGX_HTTP_PARSE_INVALID_METHOD")
      BY <1>6, <2>2, <2>3 DEF LineMethod
    <3>2. Return(r, "SGX_HTTP_PARSE_INVALID_METHOD").rc = "SGX_HTTP_PARSE_INVALID_METHOD"
      BY DEF FieldsType, Return
    <3>3. sh /\ BytesOf(a.method) # {"_"}
      <4>1. c \notin Below
        BY <2>1 DEF MethodBytes, Letters, Below, Digits, Ends
      <4>2. sh /\ c # "_"
        BY <2>3, <4>1 DEF NotInMethod
      <4> QED
        BY <2>1, <4>2
    <3> QED
      BY <3>1, <3>2, <3>3 DEF LineReached
  <2>4. CASE ~ NotInMethod(c, sh)
    <3>1. LineByte(r, b, i, sh) = r
      BY <1>6, <2>2, <2>4 DEF LineMethod
    <3>2. MethodAt(a) < i + 1 /\ i + 1 <= MethodEnd(a)
      <4>1. m < i + 1 /\ i + 1 <= me
        BY <1>2, <1>4, <1>9
      <4> QED
        BY <1>3, <4>1
    <3>3. LineState(a, r.state, i + 1)
      BY <3>2 DEF LineState
    <3>4. LineLearnt(a, r, i + 1)
      <4>1. SameLearnt(r, r)
        BY DEF SameLearnt
      <4> QED
        BY <1>8, <4>1, NothingLearnt
    <3> QED
      BY <1>8, <3>1, <3>3, <3>4 DEF LineReached
  <2> QED
    BY <2>3, <2>4
<1>10. CASE i = me
  <2>1. c = "SP"
    <3>1. i \in MethodEnd(a)..(UriAt(a) - 1)
      <4>1. i \in me..(u - 1)
        BY <1>2, <1>10
      <4> QED
        BY <1>3, <4>1
    <3> QED
      BY <1>5, <3>1 DEF LineBytes
  <2>2. PICK q : q = [r EXCEPT !.method_end = Place(i), !.method = Method(r, b, Place(i)),
                               !.state = "sw_spaces_before_uri"]
    OBVIOUS
  <2>3. LineByte(r, b, i, sh) = q
    BY <1>6, <2>1, <2>2 DEF LineMethod
  <2>4. q.rc = "SGX_AGAIN" /\ q.state = "sw_spaces_before_uri" /\ SameLearnt(r, q)
    BY <2>2 DEF FieldsType, SameLearnt
  <2>5. MethodEnd(a) < i + 1 /\ i + 1 <= UriAt(a)
    <3>1. me < i + 1 /\ i + 1 <= u
      BY <1>2, <1>10
    <3> QED
      BY <1>3, <3>1
  <2>6. LineState(a, q.state, i + 1)
    BY <2>4, <2>5 DEF LineState
  <2>7. LineLearnt(a, q, i + 1)
    BY <1>8, <2>4, NothingLearnt
  <2> QED
    BY <1>8, <2>3, <2>4, <2>6, <2>7 DEF LineReached
<1> QED
  BY <1>3, <1>9, <1>10

\* A blank before the URI, or its first byte.
LEMMA InGap ==
  ASSUME NEW a, LinePlaces(a), LineBytes(a),
         NEW r \in FieldsType(LineStates), NEW b, NEW i \in Nat, NEW sh \in BOOLEAN,
         b[Place(i)] = ByteAt(a, i), r.rc = "SGX_AGAIN", LineLearnt(a, r, i),
         r.state = "sw_spaces_before_uri", MethodEnd(a) < i, i <= UriAt(a)
  PROVE  LineReached(a, LineByte(r, b, i, sh), i + 1, sh)
<1>1. PICK m, me, u, ue, j, je, n, ne, l \in Nat :
        LineAt(a, m, me, u, ue, j, je, n, ne, l) /\ InOrder(m, me, u, ue, j, je, n, ne, l)
  BY LineOrder
<1>2. m < me /\ me < u /\ u < ue /\ j = ue + 6 /\ j < je /\ n = je + 1 /\ n < ne /\ ne < l
  BY <1>1 DEF InOrder
<1>3. /\ m = MethodAt(a) /\ me = MethodEnd(a) /\ u = UriAt(a) /\ ue = UriEnd(a)
      /\ j = MajorAt(a) /\ je = MajorEnd(a) /\ n = MinorAt(a) /\ ne = MinorEnd(a)
      /\ l = Len(Line(a))
  BY <1>1 DEF LineAt
<1>4. me < i /\ i <= u
  BY <1>3
<1>5. PICK c : c = ByteAt(a, i)
  OBVIOUS
<1>6. LineByte(r, b, i, sh) = BeforeUri(r, Place(i), c)
  BY <1>5, LineByteIs
<1>7. i + 1 < Len(Line(a))
  <2>1. i + 1 < l
    BY <1>2, <1>4
  <2> QED
    BY <1>3, <2>1
<1>8. CASE i < u
  <2>1. c = "SP"
    <3>1. i \in MethodEnd(a)..(UriAt(a) - 1)
      <4>1. i \in me..(u - 1)
        BY <1>2, <1>4, <1>8
      <4> QED
        BY <1>3, <4>1
    <3> QED
      BY <1>5, <3>1 DEF LineBytes
  <2>2. LineByte(r, b, i, sh) = r
    BY <1>6, <2>1 DEF BeforeUri
  <2>3. MethodEnd(a) < i + 1 /\ i + 1 <= UriAt(a)
    <3>1. me < i + 1 /\ i + 1 <= u
      BY <1>2, <1>4, <1>8
    <3> QED
      BY <1>3, <3>1
  <2>4. LineState(a, r.state, i + 1)
    BY <2>3 DEF LineState
  <2>5. LineLearnt(a, r, i + 1)
    <3>1. i # m /\ i # u /\ i # ue /\ i # j /\ i # n
      <4>1. me < i
        BY <1>3
      <4> QED
        BY <1>2, <1>8, <4>1
    <3>2. i \notin {MethodAt(a), UriAt(a), UriEnd(a), MajorAt(a), MinorAt(a)}
      BY <1>3, <3>1
    <3>3. SameLearnt(r, r)
      BY DEF SameLearnt
    <3> QED
      BY <3>2, <3>3, NothingLearnt
  <2> QED
    BY <1>7, <2>2, <2>4, <2>5 DEF LineReached
<1>9. CASE i = u
  <2>1. c = "/"
    BY <1>3, <1>5, <1>9 DEF LineBytes
  <2>2. PICK q : q = [r EXCEPT !.uri_start = Place(i), !.state = "sw_after_slash_in_uri"]
    OBVIOUS
  <2>3. LineByte(r, b, i, sh) = q
    BY <1>6, <2>1, <2>2 DEF BeforeUri
  <2>4. /\ q.rc = "SGX_AGAIN" /\ q.state = "sw_after_slash_in_uri"
        /\ q.request_start = r.request_start /\ q.uri_start = Place(i)
    BY <2>2 DEF FieldsType
  <2>5. UriAt(a) < i + 1 /\ i + 1 <= UriEnd(a)
    <3>1. u < i + 1 /\ i + 1 <= ue
      BY <1>2, <1>9
    <3> QED
      BY <1>3, <3>1
  <2>6. LineState(a, q.state, i + 1)
    BY <2>4, <2>5 DEF LineState
  <2>7. LineLearnt(a, q, i + 1)
    <3>1. q.request_start = Place(m)
      <4>1. i > MethodAt(a)
        <5>1. i > m
          BY <1>2, <1>9
        <5> QED
          BY <1>3, <5>1
      <4> QED
        BY <1>3, <2>4, <4>1 DEF LineLearnt
    <3>2. q.uri_start = Place(u)
      BY <1>9, <2>4
    <3>3. ~ (i + 1 > ue) /\ ~ (i + 1 > j) /\ ~ (i + 1 > n)
      BY <1>2, <1>9
    <3> QED
      BY <1>3, <3>1, <3>2, <3>3 DEF LineLearnt
  <2> QED
    BY <1>7, <2>3, <2>4, <2>6, <2>7 DEF LineReached
<1> QED
  BY <1>3, <1>8, <1>9

\* A byte of the URI, or the blank behind it.
LEMMA AtUri ==
  ASSUME NEW a, LinePlaces(a), LineBytes(a),
         NEW r \in FieldsType(LineStates), NEW b, NEW i \in Nat, NEW sh \in BOOLEAN,
         b[Place(i)] = ByteAt(a, i), r.rc = "SGX_AGAIN", LineLearnt(a, r, i),
         r.state = "sw_after_slash_in_uri", UriAt(a) < i, i <= UriEnd(a)
  PROVE  LineReached(a, LineByte(r, b, i, sh), i + 1, sh)
<1>1. PICK m, me, u, ue, j, je, n, ne, l \in Nat :
        LineAt(a, m, me, u, ue, j, je, n, ne, l) /\ InOrder(m, me, u, ue, j, je, n, ne, l)
  BY LineOrder
<1>2. m < me /\ me < u /\ u < ue /\ j = ue + 6 /\ j < je /\ n = je + 1 /\ n < ne /\ ne < l
  BY <1>1 DEF InOrder
<1>3. /\ m = MethodAt(a) /\ me = MethodEnd(a) /\ u = UriAt(a) /\ ue = UriEnd(a)
      /\ j = MajorAt(a) /\ je = MajorEnd(a) /\ n = MinorAt(a) /\ ne = MinorEnd(a)
      /\ l = Len(Line(a))
  BY <1>1 DEF LineAt
<1>4. u < i /\ i <= ue
  BY <1>3
<1>5. PICK c : c = ByteAt(a, i)
  OBVIOUS
<1>6. LineByte(r, b, i, sh) = InUri(r, Place(i), c)
  BY <1>5, LineByteIs
<1>7. i + 1 < Len(Line(a))
  <2>1. i + 1 < l
    BY <1>2, <1>4
  <2> QED
    BY <1>3, <2>1
<1>8. CASE i < ue
  <2>1. c # "SP"
    <3>1. i \in UriAt(a)..(UriEnd(a) - 1)
      <4>1. i \in u..(ue - 1)
        BY <1>2, <1>4, <1>8
      <4> QED
        BY <1>3, <4>1
    <3> QED
      BY <1>5, <3>1 DEF LineBytes
  <2>2. LineByte(r, b, i, sh) = r
    BY <1>6, <2>1 DEF InUri
  <2>3. UriAt(a) < i + 1 /\ i + 1 <= UriEnd(a)
    <3>1. u < i + 1 /\ i + 1 <= ue
      BY <1>2, <1>4, <1>8
    <3> QED
      BY <1>3, <3>1
  <2>4. LineState(a, r.state, i + 1)
    BY <2>3 DEF LineState
  <2>5. LineLearnt(a, r, i + 1)
    <3>1. i # m /\ i # u /\ i # ue /\ i # j /\ i # n
      <4>1. u < i
        BY <1>3
      <4> QED
        BY <1>2, <1>8, <4>1
    <3>2. i \notin {MethodAt(a), UriAt(a), UriEnd(a), MajorAt(a), MinorAt(a)}
      BY <1>3, <3>1
    <3>3. SameLearnt(r, r)
      BY DEF SameLearnt
    <3> QED
      BY <3>2, <3>3, NothingLearnt
  <2> QED
    BY <1>7, <2>2, <2>4, <2>5 DEF LineReached
<1>9. CASE i = ue
  <2>1. c = "SP"
    BY <1>3, <1>5, <1>9 DEF LineBytes
  <2>2. PICK q : q = [r EXCEPT !.uri_end = Place(i), !.state = "sw_http"]
    OBVIOUS
  <2>3. LineByte(r, b, i, sh) = q
    BY <1>6, <2>1, <2>2 DEF InUri
  <2>4. /\ q.rc = "SGX_AGAIN" /\ q.state = "sw_http"
        /\ q.request_start = r.request_start /\ q.uri_start = r.uri_start /\ q.uri_end = Place(i)
    BY <2>2 DEF FieldsType
  <2>5. i + 1 = UriEnd(a) + 1
    BY <1>3, <1>9
  <2>6. LineState(a, q.state, i + 1)
    BY <2>4, <2>5 DEF LineState
  <2>7. LineLearnt(a, q, i + 1)
    <3>1. q.request_start = Place(m) /\ q.uri_start = Place(u)
      <4>1. i > MethodAt(a) /\ i > UriAt(a)
        <5>1. i > m /\ i > u
          BY <1>2, <1>9
        <5> QED
          BY <1>3, <5>1
      <4> QED
        BY <1>3, <2>4, <4>1 DEF LineLearnt
    <3>2. q.uri_end = Place(ue)
      BY <1>9, <2>4
    <3>3. ~ (i + 1 > j) /\ ~ (i + 1 > n)
      BY <1>2, <1>9
    <3> QED
      BY <1>3, <3>1, <3>2, <3>3 DEF LineLearnt
  <2> QED
    BY <1>7, <2>3, <2>4, <2>6, <2>7 DEF LineReached
<1> QED
  BY <1>3, <1>8, <1>9

\* LineLearnt with another request, when some of what it says is as before.
LEMMA StillLearnt ==
  ASSUME NEW a, LinePlaces(a), NEW i \in Nat, NEW r, NEW q, LineLearnt(a, r, i), i > UriEnd(a),
         q.request_start = r.request_start, q.uri_start = r.uri_start, q.uri_end = r.uri_end,
         i + 1 > MajorAt(a) /\ Len(a.major) = 1 => q.http_major = Digit(a.major[1]),
         i + 1 > MinorAt(a) /\ Len(a.minor) = 1 => q.http_minor = Digit(a.minor[1])
  PROVE  LineLearnt(a, q, i + 1)
<1>1. PICK m, me, u, ue, j, je, n, ne, l \in Nat :
        LineAt(a, m, me, u, ue, j, je, n, ne, l) /\ InOrder(m, me, u, ue, j, je, n, ne, l)
  BY LineOrder
<1>2. m = MethodAt(a) /\ u = UriAt(a) /\ ue = UriEnd(a)
  BY <1>1 DEF LineAt
<1>3. m < me /\ me < u /\ u < ue
  BY <1>1 DEF InOrder
<1>4. i > ue
  BY <1>2
<1>5. i > m /\ i > u
  BY <1>3, <1>4
<1>6. i > MethodAt(a) /\ i > UriAt(a) /\ i > UriEnd(a)
  BY <1>2, <1>4, <1>5
<1> QED
  BY <1>6 DEF LineLearnt

\* A byte of the name of the protocol takes the parser to the next state.
LEMMA ProtocolByte ==
  ASSUME NEW r \in FieldsType(LineStates), NEW s, NEW c, r.rc = "SGX_AGAIN",
         \/ r.state = "sw_http" /\ c = "H" /\ s = "sw_http_H"
         \/ r.state = "sw_http_H" /\ c = "T" /\ s = "sw_http_HT"
         \/ r.state = "sw_http_HT" /\ c = "T" /\ s = "sw_http_HTT"
         \/ r.state = "sw_http_HTT" /\ c = "P" /\ s = "sw_http_HTTP"
         \/ r.state = "sw_http_HTTP" /\ c = "/" /\ s = "sw_first_major_digit"
  PROVE  LineProtocol(r, c) = Goto(r, s)
<1>1. /\ HttpTable.sw_http[1] = "H" /\ HttpTable.sw_http_H[1] = "T" /\ HttpTable.sw_http_HT[1] = "T"
      /\ HttpTable.sw_http_HTT[1] = "P" /\ HttpTable.sw_http_HTTP[1] = "/"
      /\ HttpTable.sw_http[2] = "sw_http_H" /\ HttpTable.sw_http_H[2] = "sw_http_HT"
      /\ HttpTable.sw_http_HT[2] = "sw_http_HTT" /\ HttpTable.sw_http_HTT[2] = "sw_http_HTTP"
      /\ HttpTable.sw_http_HTTP[2] = "sw_first_major_digit"
  BY DEF HttpTable
<1>2. c = HttpTable[r.state][1] /\ s = HttpTable[r.state][2]
  BY <1>1
<1>3. c # "SP"
  OBVIOUS
<1> QED
  BY <1>2, <1>3 DEF LineProtocol

\* A byte of the name of the protocol.
LEMMA AtProtocol ==
  ASSUME NEW a, LinePlaces(a), LineBytes(a),
         NEW r \in FieldsType(LineStates), NEW b, NEW i \in Nat, NEW sh \in BOOLEAN,
         b[Place(i)] = ByteAt(a, i), r.rc = "SGX_AGAIN", LineLearnt(a, r, i),
         i > UriEnd(a), i < MajorAt(a), LineState(a, r.state, i)
  PROVE  LineReached(a, LineByte(r, b, i, sh), i + 1, sh)
<1>1. PICK m, me, u, ue, j, je, n, ne, l \in Nat :
        LineAt(a, m, me, u, ue, j, je, n, ne, l) /\ InOrder(m, me, u, ue, j, je, n, ne, l)
  BY LineOrder
<1>2. m < me /\ me < u /\ u < ue /\ j = ue + 6 /\ j < je /\ n = je + 1 /\ n < ne /\ ne < l
  BY <1>1 DEF InOrder
<1>3. /\ m = MethodAt(a) /\ me = MethodEnd(a) /\ u = UriAt(a) /\ ue = UriEnd(a)
      /\ j = MajorAt(a) /\ je = MajorEnd(a) /\ n = MinorAt(a) /\ ne = MinorEnd(a)
      /\ l = Len(Line(a))
  BY <1>1 DEF LineAt
<1>4. PICK c : c = ByteAt(a, i)
  OBVIOUS
<1>5. i \in {ue + 1, ue + 2, ue + 3, ue + 4, ue + 5}
  <2>1. ue < i /\ i < j
    BY <1>3
  <2> QED
    BY <1>2, <2>1
<1>6. PICK s :
        /\ i + 1 < l /\ LineState(a, s, i + 1)
        /\ \/ r.state = "sw_http" /\ c = "H" /\ s = "sw_http_H"
           \/ r.state = "sw_http_H" /\ c = "T" /\ s = "sw_http_HT"
           \/ r.state = "sw_http_HT" /\ c = "T" /\ s = "sw_http_HTT"
           \/ r.state = "sw_http_HTT" /\ c = "P" /\ s = "sw_http_HTTP"
           \/ r.state = "sw_http_HTTP" /\ c = "/" /\ s = "sw_first_major_digit"
  <2>1. CASE i = ue + 1
    <3>1. r.state = "sw_http"
      <4>1. m < i /\ me < i /\ u < i /\ ue < i /\ i < j /\ i < je /\ i < n /\ i < ne /\ i < l - 1
        BY <1>2, <2>1
      <4>2. i # ue + 2 /\ i # ue + 3 /\ i # ue + 4 /\ i # ue + 5
        BY <2>1
      <4>3. ~ (i <= m) /\ ~ (i <= me) /\ ~ (i <= u) /\ ~ (i <= ue) /\ i # j /\ ~ (j < i) /\ i # n
            /\ ~ (n < i) /\ ~ (ne < i) /\ i # l - 1
        BY <4>1
      <4> QED
        BY <1>3, <4>2, <4>3 DEF LineState
    <3>2. c = "H"
      BY <1>3, <1>4, <2>1 DEF LineBytes
    <3>3. i + 1 < l /\ i + 1 = ue + 2
      BY <1>2, <2>1
    <3>4. LineState(a, "sw_http_H", i + 1)
      BY <1>3, <3>3 DEF LineState
    <3> QED
      BY <3>1, <3>2, <3>3, <3>4
  <2>2. CASE i = ue + 2
    <3>1. r.state = "sw_http_H"
      <4>1. m < i /\ me < i /\ u < i /\ ue < i /\ i < j /\ i < je /\ i < n /\ i < ne /\ i < l - 1
        BY <1>2, <2>2
      <4>2. i # ue + 1 /\ i # ue + 3 /\ i # ue + 4 /\ i # ue + 5
        BY <2>2
      <4>3. ~ (i <= m) /\ ~ (i <= me) /\ ~ (i <= u) /\ ~ (i <= ue) /\ i # j /\ ~ (j < i) /\ i # n
            /\ ~ (n < i) /\ ~ (ne < i) /\ i # l - 1
        BY <4>1
      <4> QED
        BY <1>3, <4>2, <4>3 DEF LineState
    <3>2. c = "T"
      BY <1>3, <1>4, <2>2 DEF LineBytes
    <3>3. i + 1 < l /\ i + 1 = ue + 3
      BY <1>2, <2>2
    <3>4. LineState(a, "sw_http_HT", i + 1)
      BY <1>3, <3>3 DEF LineState
    <3> QED
      BY <3>1, <3>2, <3>3, <3>4
  <2>3. CASE i = ue + 3
    <3>1. r.state = "sw_http_HT"
      <4>1. m < i /\ me < i /\ u < i /\ ue < i /\ i < j /\ i < je /\ i < n /\ i < ne /\ i < l - 1
        BY <1>2, <2>3
      <4>2. i # ue + 1 /\ i # ue + 2 /\ i # ue + 4 /\ i # ue + 5
        BY <2>3
      <4>3. ~ (i <= m) /\ ~ (i <= me) /\ ~ (i <= u) /\ ~ (i <= ue) /\ i # j /\ ~ (j < i) /\ i # n
            /\ ~ (n < i) /\ ~ (ne < i) /\ i # l - 1
        BY <4>1
      <4> QED
        BY <1>3, <4>2, <4>3 DEF LineState
    <3>2. c = "T"
      BY <1>3, <1>4, <2>3 DEF LineBytes
    <3>3. i + 1 < l /\ i + 1 = ue + 4
      BY <1>2, <2>3
    <3>4. LineState(a, "sw_http_HTT", i + 1)
      BY <1>3, <3>3 DEF LineState
    <3> QED
      BY <3>1, <3>2, <3>3, <3>4
  <2>4. CASE i = ue + 4
    <3>1. r.state = "sw_http_HTT"
      <4>1. m < i /\ me < i /\ u < i /\ ue < i /\ i < j /\ i < je /\ i < n /\ i < ne /\ i < l - 1
        BY <1>2, <2>4
      <4>2. i # ue + 1 /\ i # ue + 2 /\ i # ue + 3 /\ i # ue + 5
        BY <2>4
      <4>3. ~ (i <= m) /\ ~ (i <= me) /\ ~ (i <= u) /\ ~ (i <= ue) /\ i # j /\ ~ (j < i) /\ i # n
            /\ ~ (n < i) /\ ~ (ne < i) /\ i # l - 1
        BY <4>1
      <4> QED
        BY <1>3, <4>2, <4>3 DEF LineState
    <3>2. c = "P"
      BY <1>3, <1>4, <2>4 DEF LineBytes
    <3>3. i + 1 < l /\ i + 1 = ue + 5
      BY <1>2, <2>4
    <3>4. LineState(a, "sw_http_HTTP", i + 1)
      BY <1>3, <3>3 DEF LineState
    <3> QED
      BY <3>1, <3>2, <3>3, <3>4
  <2>5. CASE i = ue + 5
    <3>1. r.state = "sw_http_HTTP"
      <4>1. m < i /\ me < i /\ u < i /\ ue < i /\ i < j /\ i < je /\ i < n /\ i < ne /\ i < l - 1
        BY <1>2, <2>5
      <4>2. i # ue + 1 /\ i # ue + 2 /\ i # ue + 3 /\ i # ue + 4
        BY <2>5
      <4>3. ~ (i <= m) /\ ~ (i <= me) /\ ~ (i <= u) /\ ~ (i <= ue) /\ i # j /\ ~ (j < i) /\ i # n
            /\ ~ (n < i) /\ ~ (ne < i) /\ i # l - 1
        BY <4>1
      <4> QED
        BY <1>3, <4>2, <4>3 DEF LineState
    <3>2. c = "/"
      BY <1>3, <1>4, <2>5 DEF LineBytes
    <3>3. i + 1 < l /\ i + 1 = j
      BY <1>2, <2>5
    <3>4. LineState(a, "sw_first_major_digit", i + 1)
      BY <1>3, <3>3 DEF LineState
    <3> QED
      BY <3>1, <3>2, <3>3, <3>4
  <2> QED
    BY <1>5, <2>1, <2>2, <2>3, <2>4, <2>5
<1>7. PICK q : q = Goto(r, s)
  OBVIOUS
<1>8. LineByte(r, b, i, sh) = q
  <2>1. LineByte(r, b, i, sh) = LineProtocol(r, c)
    BY <1>4, <1>6, LineByteIs
  <2> QED
    BY <1>6, <1>7, <2>1, ProtocolByte
<1>9. q.rc = "SGX_AGAIN" /\ q.state = s /\ SameLearnt(r, q)
  BY <1>7 DEF FieldsType, Goto, SameLearnt
<1>10. LineLearnt(a, q, i + 1)
  <2>1. i # m /\ i # u /\ i # ue /\ i # j /\ i # n
    BY <1>2, <1>5
  <2>2. i \notin {MethodAt(a), UriAt(a), UriEnd(a), MajorAt(a), MinorAt(a)}
    BY <1>3, <2>1
  <2> QED
    BY <1>9, <2>2, NothingLearnt
<1>11. i + 1 < Len(Line(a))
  BY <1>3, <1>6
<1> QED
  BY <1>6, <1>8, <1>9, <1>10, <1>11 DEF LineReached

\* The first digit of the major version.
LEMMA AtMajor ==
  ASSUME NEW a, LinePlaces(a), LineBytes(a),
         NEW r \in FieldsType(LineStates), NEW b, NEW i \in Nat, NEW sh \in BOOLEAN,
         b[Place(i)] = ByteAt(a, i), r.rc = "SGX_AGAIN", LineLearnt(a, r, i),
         r.state = "sw_first_major_digit", i = MajorAt(a)
  PROVE  LineReached(a, LineByte(r, b, i, sh), i + 1, sh)
<1>1. PICK m, me, u, ue, j, je, n, ne, l \in Nat :
        LineAt(a, m, me, u, ue, j, je, n, ne, l) /\ InOrder(m, me, u, ue, j, je, n, ne, l)
  BY LineOrder
<1>2. m < me /\ me < u /\ u < ue /\ j = ue + 6 /\ j < je /\ n = je + 1 /\ n < ne /\ ne < l
  BY <1>1 DEF InOrder
<1>3. /\ m = MethodAt(a) /\ me = MethodEnd(a) /\ u = UriAt(a) /\ ue = UriEnd(a)
      /\ j = MajorAt(a) /\ je = MajorEnd(a) /\ n = MinorAt(a) /\ ne = MinorEnd(a)
      /\ l = Len(Line(a))
  BY <1>1 DEF LineAt
<1>4. PICK c : c = ByteAt(a, i)
  OBVIOUS
<1>5. LineByte(r, b, i, sh) = LineVersion(r, c)
  BY <1>4, LineByteIs
<1>6. c \in Digits \ {"0"} /\ c = a.major[1]
  <2>1. i \in MajorAt(a)..(MajorEnd(a) - 1)
    <3>1. i = j
      BY <1>3
    <3>2. i \in j..(je - 1)
      BY <1>2, <3>1
    <3> QED
      BY <1>3, <3>2
  <2> QED
    BY <1>4, <2>1 DEF LineBytes
<1>7. PICK q : q = [r EXCEPT !.http_major = Digit(c), !.state = "sw_major_digit"]
  OBVIOUS
<1>8. LineByte(r, b, i, sh) = q
  BY <1>5, <1>6, <1>7 DEF LineVersion
<1>9. /\ q.rc = "SGX_AGAIN" /\ q.state = "sw_major_digit" /\ q.http_major = Digit(c)
      /\ q.request_start = r.request_start /\ q.uri_start = r.uri_start /\ q.uri_end = r.uri_end
  BY <1>7 DEF FieldsType
<1>10. i > ue /\ ~ (i + 1 > n) /\ i + 1 < l /\ j < i + 1 /\ i + 1 <= je
  <2>1. i = j
    BY <1>3
  <2> QED
    BY <1>2, <2>1
<1>11. i > UriEnd(a) /\ ~ (i + 1 > MinorAt(a)) /\ i + 1 < Len(Line(a))
      /\ MajorAt(a) < i + 1 /\ i + 1 <= MajorEnd(a)
  BY <1>3, <1>10
<1>12. LineState(a, q.state, i + 1)
  BY <1>9, <1>11 DEF LineState
<1>13. LineLearnt(a, q, i + 1)
  BY <1>6, <1>9, <1>11, StillLearnt
<1> QED
  BY <1>8, <1>9, <1>11, <1>12, <1>13 DEF LineReached

\* Another one, or the dot.
LEMMA InMajor ==
  ASSUME NEW a, LinePlaces(a), LineBytes(a),
         NEW r \in FieldsType(LineStates), NEW b, NEW i \in Nat, NEW sh \in BOOLEAN,
         b[Place(i)] = ByteAt(a, i), r.rc = "SGX_AGAIN", LineLearnt(a, r, i),
         r.state = "sw_major_digit", MajorAt(a) < i, i <= MajorEnd(a)
  PROVE  LineReached(a, LineByte(r, b, i, sh), i + 1, sh)
<1>1. PICK m, me, u, ue, j, je, n, ne, l \in Nat :
        LineAt(a, m, me, u, ue, j, je, n, ne, l) /\ InOrder(m, me, u, ue, j, je, n, ne, l)
  BY LineOrder
<1>2. m < me /\ me < u /\ u < ue /\ j = ue + 6 /\ j < je /\ n = je + 1 /\ n < ne /\ ne < l
  BY <1>1 DEF InOrder
<1>3. /\ m = MethodAt(a) /\ me = MethodEnd(a) /\ u = UriAt(a) /\ ue = UriEnd(a)
      /\ j = MajorAt(a) /\ je = MajorEnd(a) /\ n = MinorAt(a) /\ ne = MinorEnd(a)
      /\ l = Len(Line(a))
  BY <1>1 DEF LineAt
<1>4. PICK c : c = ByteAt(a, i)
  OBVIOUS
<1>5. LineByte(r, b, i, sh) = LineVersion(r, c)
  BY <1>4, LineByteIs
<1>6. j < i /\ i <= je
  BY <1>3
<1>7. i > ue /\ ~ (i + 1 > n) /\ i + 1 < l /\ j < i + 1
  BY <1>2, <1>6
<1>8. i > UriEnd(a) /\ ~ (i + 1 > MinorAt(a)) /\ i + 1 < Len(Line(a)) /\ MajorAt(a) < i + 1
  BY <1>3, <1>7
<1>9. CASE i < je
  <2>1. c \in Digits
    <3>1. i \in MajorAt(a)..(MajorEnd(a) - 1)
      <4>1. i \in j..(je - 1)
        BY <1>2, <1>6, <1>9
      <4> QED
        BY <1>3, <4>1
    <3> QED
      BY <1>4, <3>1 DEF LineBytes
  <2>2. c # "."
    BY <2>1 DEF Digits
  <2>3. PICK q : q = [r EXCEPT !.http_major = MoreMajor(@)]
    OBVIOUS
  <2>4. LineByte(r, b, i, sh) = q
    BY <1>5, <2>1, <2>2, <2>3 DEF LineVersion
  <2>5. /\ q.rc = "SGX_AGAIN" /\ q.state = "sw_major_digit"
        /\ q.request_start = r.request_start /\ q.uri_start = r.uri_start /\ q.uri_end = r.uri_end
    BY <2>3 DEF FieldsType
  <2>6. i + 1 <= MajorEnd(a)
    BY <1>3, <1>9
  <2>7. LineState(a, q.state, i + 1)
    BY <1>8, <2>5, <2>6 DEF LineState
  <2>8. Len(a.major) # 1
    <3>1. Len(a.major) = je - j
      BY <1>3 DEF LinePlaces
    <3>2. je - j > 1
      BY <1>6, <1>9
    <3> QED
      BY <3>1, <3>2
  <2>9. LineLearnt(a, q, i + 1)
    BY <1>8, <2>5, <2>8, StillLearnt
  <2> QED
    BY <1>8, <2>4, <2>5, <2>7, <2>9 DEF LineReached
<1>10. CASE i = je
  <2>1. c = "."
    BY <1>3, <1>4, <1>10 DEF LineBytes
  <2>2. PICK q : q = Goto(r, "sw_first_minor_digit")
    OBVIOUS
  <2>3. LineByte(r, b, i, sh) = q
    <3>1. c \notin Digits
      BY <2>1 DEF Digits
    <3> QED
      BY <1>5, <2>1, <2>2, <3>1 DEF LineVersion
  <2>4. q.rc = "SGX_AGAIN" /\ q.state = "sw_first_minor_digit" /\ SameLearnt(r, q)
    BY <2>2 DEF FieldsType, Goto, SameLearnt
  <2>5. i + 1 = MinorAt(a)
    <3>1. i + 1 = n
      BY <1>2, <1>10
    <3> QED
      BY <1>3, <3>1
  <2>6. LineState(a, q.state, i + 1)
    BY <2>4, <2>5 DEF LineState
  <2>7. LineLearnt(a, q, i + 1)
    <3>1. i # m /\ i # u /\ i # ue /\ i # j /\ i # n
      BY <1>2, <1>6
    <3>2. i \notin {MethodAt(a), UriAt(a), UriEnd(a), MajorAt(a), MinorAt(a)}
      BY <1>3, <3>1
    <3> QED
      BY <2>4, <3>2, NothingLearnt
  <2> QED
    BY <1>8, <2>3, <2>4, <2>6, <2>7 DEF LineReached
<1> QED
  BY <1>6, <1>9, <1>10

\* The first digit of the minor version.
LEMMA AtMinor ==
  ASSUME NEW a, LinePlaces(a), LineBytes(a),
         NEW r \in FieldsType(LineStates), NEW b, NEW i \in Nat, NEW sh \in BOOLEAN,
         b[Place(i)] = ByteAt(a, i), r.rc = "SGX_AGAIN", LineLearnt(a, r, i),
         r.state = "sw_first_minor_digit", i = MinorAt(a)
  PROVE  LineReached(a, LineByte(r, b, i, sh), i + 1, sh)
<1>1. PICK m, me, u, ue, j, je, n, ne, l \in Nat :
        LineAt(a, m, me, u, ue, j, je, n, ne, l) /\ InOrder(m, me, u, ue, j, je, n, ne, l)
  BY LineOrder
<1>2. m < me /\ me < u /\ u < ue /\ j = ue + 6 /\ j < je /\ n = je + 1 /\ n < ne /\ ne < l
  BY <1>1 DEF InOrder
<1>3. /\ m = MethodAt(a) /\ me = MethodEnd(a) /\ u = UriAt(a) /\ ue = UriEnd(a)
      /\ j = MajorAt(a) /\ je = MajorEnd(a) /\ n = MinorAt(a) /\ ne = MinorEnd(a)
      /\ l = Len(Line(a))
  BY <1>1 DEF LineAt
<1>4. PICK c : c = ByteAt(a, i)
  OBVIOUS
<1>5. LineByte(r, b, i, sh) = LineVersion(r, c)
  BY <1>4, LineByteIs
<1>6. c \in Digits /\ c = a.minor[1]
  <2>1. i \in MinorAt(a)..(MinorEnd(a) - 1)
    <3>1. i = n
      BY <1>3
    <3>2. n \in n..(ne - 1)
      BY <1>2
    <3> QED
      BY <1>3, <3>1, <3>2
  <2> QED
    BY <1>4, <2>1 DEF LineBytes
<1>7. PICK q : q = [r EXCEPT !.http_minor = Digit(c), !.state = "sw_minor_digit"]
  OBVIOUS
<1>8. LineByte(r, b, i, sh) = q
  BY <1>5, <1>6, <1>7 DEF LineVersion
<1>9. /\ q.rc = "SGX_AGAIN" /\ q.state = "sw_minor_digit" /\ q.http_minor = Digit(c)
      /\ q.request_start = r.request_start /\ q.uri_start = r.uri_start /\ q.uri_end = r.uri_end
      /\ q.http_major = r.http_major
  BY <1>7 DEF FieldsType
<1>10. i > ue /\ i > j /\ i + 1 < l /\ n < i + 1 /\ i + 1 <= ne
  <2>1. i = n
    BY <1>3
  <2> QED
    BY <1>2, <2>1
<1>11. i > UriEnd(a) /\ i > MajorAt(a) /\ i + 1 < Len(Line(a))
      /\ MinorAt(a) < i + 1 /\ i + 1 <= MinorEnd(a)
  BY <1>3, <1>10
<1>12. LineState(a, q.state, i + 1)
  BY <1>9, <1>11 DEF LineState
<1>13. Len(a.major) = 1 => q.http_major = Digit(a.major[1])
  BY <1>9, <1>11 DEF LineLearnt
<1>14. LineLearnt(a, q, i + 1)
  BY <1>6, <1>9, <1>11, <1>13, StillLearnt
<1> QED
  BY <1>8, <1>9, <1>11, <1>12, <1>14 DEF LineReached

\* What the last byte of a request line does.
LEMMA LineEnds ==
  ASSUME NEW a, LinePlaces(a), NEW i \in Nat, i = Len(Line(a)) - 1, NEW r \in FieldsType(LineStates),
         LineLearnt(a, r, i), NEW q, SameLearnt(r, q), q.rc = "SGX_OK", NEW sh, MinorEnd(a) <= i
  PROVE  LineReached(a, q, i + 1, sh)
<1>1. PICK m, me, u, ue, j, je, n, ne, l \in Nat :
        LineAt(a, m, me, u, ue, j, je, n, ne, l) /\ InOrder(m, me, u, ue, j, je, n, ne, l)
  BY LineOrder
<1>2. m < me /\ me < u /\ u < ue /\ j = ue + 6 /\ j < je /\ n = je + 1 /\ n < ne /\ ne < l
  BY <1>1 DEF InOrder
<1>3. /\ m = MethodAt(a) /\ me = MethodEnd(a) /\ u = UriAt(a) /\ ue = UriEnd(a)
      /\ j = MajorAt(a) /\ je = MajorEnd(a) /\ n = MinorAt(a) /\ ne = MinorEnd(a)
      /\ l = Len(Line(a))
  BY <1>1 DEF LineAt
<1>4. ne <= i
  BY <1>3
<1>5. i # m /\ i # u /\ i # ue /\ i # j /\ i # n
  BY <1>2, <1>4
<1>6. i \notin {MethodAt(a), UriAt(a), UriEnd(a), MajorAt(a), MinorAt(a)}
  BY <1>3, <1>5
<1>7. LineLearnt(a, q, i + 1)
  BY <1>6, NothingLearnt
<1>8. i + 1 = Len(Line(a))
  BY <1>3
<1> QED
  BY <1>7, <1>8 DEF LineReached

\* Another one, or the first byte of the end of the line.
LEMMA InMinor ==
  ASSUME NEW a, LinePlaces(a), LineBytes(a),
         NEW r \in FieldsType(LineStates), NEW b, NEW i \in Nat, NEW sh \in BOOLEAN,
         b[Place(i)] = ByteAt(a, i), r.rc = "SGX_AGAIN", LineLearnt(a, r, i),
         r.state = "sw_minor_digit", MinorAt(a) < i, i < MinorEnd(a)
  PROVE  LineReached(a, LineByte(r, b, i, sh), i + 1, sh)
<1>1. PICK m, me, u, ue, j, je, n, ne, l \in Nat :
        LineAt(a, m, me, u, ue, j, je, n, ne, l) /\ InOrder(m, me, u, ue, j, je, n, ne, l)
  BY LineOrder
<1>2. m < me /\ me < u /\ u < ue /\ j = ue + 6 /\ j < je /\ n = je + 1 /\ n < ne /\ ne < l
  BY <1>1 DEF InOrder
<1>3. /\ m = MethodAt(a) /\ me = MethodEnd(a) /\ u = UriAt(a) /\ ue = UriEnd(a)
      /\ j = MajorAt(a) /\ je = MajorEnd(a) /\ n = MinorAt(a) /\ ne = MinorEnd(a)
      /\ l = Len(Line(a))
  BY <1>1 DEF LineAt
<1>4. PICK c : c = ByteAt(a, i)
  OBVIOUS
<1>5. LineByte(r, b, i, sh) = LineVersion(r, c)
  BY <1>4, LineByteIs
<1>6. n < i /\ i < ne
  BY <1>3
<1>7. i > ue /\ i > j /\ i + 1 < l /\ n < i + 1 /\ i + 1 <= ne /\ i + 1 > n
  BY <1>2, <1>6
<1>8. i > UriEnd(a) /\ i > MajorAt(a) /\ i + 1 < Len(Line(a)) /\ MinorAt(a) < i + 1 /\ i + 1 <= MinorEnd(a)
  BY <1>3, <1>7
<1>9. c \in Digits
  <2>1. i \in MinorAt(a)..(MinorEnd(a) - 1)
    <3>1. i \in n..(ne - 1)
      BY <1>6
    <3> QED
      BY <1>3, <3>1
  <2> QED
    BY <1>4, <2>1 DEF LineBytes
<1>10. PICK q : q = [r EXCEPT !.http_minor = @ * 10 + Digit(c)]
  OBVIOUS
<1>11. LineByte(r, b, i, sh) = q
  <2>1. c \notin {"LF", "CR", "SP", "."}
    BY <1>9 DEF Digits
  <2>2. LineVersion(r, c) = [r EXCEPT !.http_minor = @ * 10 + Digit(c)]
    BY <1>9, <2>1 DEF LineVersion
  <2> QED
    BY <1>5, <1>10, <2>2
<1>12. /\ q.rc = "SGX_AGAIN" /\ q.state = "sw_minor_digit" /\ q.http_major = r.http_major
       /\ q.request_start = r.request_start /\ q.uri_start = r.uri_start /\ q.uri_end = r.uri_end
  BY <1>10 DEF FieldsType
<1>13. LineState(a, q.state, i + 1)
  BY <1>8, <1>12 DEF LineState
<1>14. Len(a.minor) # 1
  <2>1. Len(a.minor) = ne - n
    BY <1>3 DEF LinePlaces
  <2>2. ne - n > 1
    BY <1>6
  <2> QED
    BY <2>1, <2>2
<1>15. Len(a.major) = 1 => q.http_major = Digit(a.major[1])
  BY <1>8, <1>12 DEF LineLearnt
<1>16. LineLearnt(a, q, i + 1)
  BY <1>8, <1>12, <1>14, <1>15, StillLearnt
<1> QED
  BY <1>8, <1>11, <1>12, <1>13, <1>16 DEF LineReached

\* A byte of the end of the line.
LEMMA InEnd ==
  ASSUME NEW a, LinePlaces(a), LineBytes(a), EndBytes(a),
         NEW r \in FieldsType(LineStates), NEW b, NEW i \in Nat, NEW sh \in BOOLEAN,
         b[Place(i)] = ByteAt(a, i), r.rc = "SGX_AGAIN", LineLearnt(a, r, i),
         r.state \in {"sw_minor_digit", "sw_spaces_after_digit"}, MinorEnd(a) <= i, i < Len(Line(a))
  PROVE  LineReached(a, LineByte(r, b, i, sh), i + 1, sh)
<1>1. PICK m, me, u, ue, j, je, n, ne, l \in Nat :
        LineAt(a, m, me, u, ue, j, je, n, ne, l) /\ InOrder(m, me, u, ue, j, je, n, ne, l)
  BY LineOrder
<1>2. m < me /\ me < u /\ u < ue /\ j = ue + 6 /\ j < je /\ n = je + 1 /\ n < ne /\ ne < l
  BY <1>1 DEF InOrder
<1>3. /\ m = MethodAt(a) /\ me = MethodEnd(a) /\ u = UriAt(a) /\ ue = UriEnd(a)
      /\ j = MajorAt(a) /\ je = MajorEnd(a) /\ n = MinorAt(a) /\ ne = MinorEnd(a)
      /\ l = Len(Line(a))
  BY <1>1 DEF LineAt
<1>4. PICK c : c = ByteAt(a, i)
  OBVIOUS
<1>5. LineByte(r, b, i, sh) = LineVersion(r, c)
  BY <1>4, LineByteIs
<1>6. ne <= i /\ i < l
  BY <1>3
<1>7. \/ c = "LF" /\ i = Len(Line(a)) - 1
      \/ c = "CR" /\ i = Len(Line(a)) - 2
      \/ c = "SP" /\ i < Len(Line(a)) - 1
  <2>1. i \in MinorEnd(a)..(Len(Line(a)) - 1)
    BY <1>3, <1>6
  <2> QED
    BY <1>4, <2>1 DEF EndBytes
<1>8. ASSUME NEW s, NEW q, q = Goto(r, s), LineState(a, s, i + 1), i + 1 < l
      PROVE  LineReached(a, q, i + 1, sh)
  <2>1. q.rc = "SGX_AGAIN" /\ q.state = s /\ SameLearnt(r, q)
    BY <1>8 DEF FieldsType, Goto, SameLearnt
  <2>2. i # m /\ i # u /\ i # ue /\ i # j /\ i # n
    BY <1>2, <1>6
  <2>3. i \notin {MethodAt(a), UriAt(a), UriEnd(a), MajorAt(a), MinorAt(a)}
    BY <1>3, <2>2
  <2>4. LineLearnt(a, q, i + 1)
    BY <2>1, <2>3, NothingLearnt
  <2>5. i + 1 < Len(Line(a))
    BY <1>3, <1>8
  <2> QED
    BY <1>8, <2>1, <2>4, <2>5 DEF LineReached
<1>9. CASE c = "LF" /\ i = Len(Line(a)) - 1
  <2>1. PICK q : q = Return(r, "SGX_OK")
    OBVIOUS
  <2>2. LineByte(r, b, i, sh) = q
    <3>1. c \notin Digits /\ c # "."
      BY <1>9 DEF Digits
    <3> QED
      BY <1>5, <1>9, <2>1, <3>1 DEF LineVersion
  <2>3. q.rc = "SGX_OK" /\ SameLearnt(r, q)
    BY <2>1 DEF FieldsType, Return, SameLearnt
  <2> QED
    BY <1>9, <2>2, <2>3, LineEnds
<1>10. CASE c = "CR" /\ i = Len(Line(a)) - 2
  <2>1. LineByte(r, b, i, sh) = Goto(r, "sw_almost_done")
    <3>1. c \notin Digits /\ c # "."
      BY <1>10 DEF Digits
    <3> QED
      BY <1>5, <1>10, <3>1 DEF LineVersion
  <2>2. i = l - 2
    BY <1>3, <1>10
  <2>3. i + 1 = l - 1 /\ i + 1 < l
    BY <2>2
  <2>4. LineState(a, "sw_almost_done", i + 1)
    BY <1>3, <2>3 DEF LineState
  <2> QED
    BY <1>8, <2>1, <2>3, <2>4
<1>11. CASE c = "SP" /\ i < Len(Line(a)) - 1
  <2>1. LineByte(r, b, i, sh) = Goto(r, "sw_spaces_after_digit")
    <3>1. c \notin Digits /\ c # "."
      BY <1>11 DEF Digits
    <3> QED
      BY <1>5, <1>11, <3>1 DEF LineVersion
  <2>2. i < l - 1
    BY <1>3, <1>11
  <2>3. ne < i + 1 /\ i + 1 < l
    BY <1>6, <2>2
  <2>4. LineState(a, "sw_spaces_after_digit", i + 1)
    BY <1>3, <2>3 DEF LineState
  <2> QED
    BY <1>8, <2>1, <2>3, <2>4
<1> QED
  BY <1>7, <1>9, <1>10, <1>11

\* The LF behind a CR.
LEMMA AtLast ==
  ASSUME NEW a, LinePlaces(a), LineBytes(a), EndBytes(a),
         NEW r \in FieldsType(LineStates), NEW b, NEW i \in Nat, NEW sh \in BOOLEAN,
         b[Place(i)] = ByteAt(a, i), r.rc = "SGX_AGAIN", LineLearnt(a, r, i),
         r.state = "sw_almost_done", MinorEnd(a) <= i, i = Len(Line(a)) - 1
  PROVE  LineReached(a, LineByte(r, b, i, sh), i + 1, sh)
<1>1. PICK m, me, u, ue, j, je, n, ne, l \in Nat :
        LineAt(a, m, me, u, ue, j, je, n, ne, l) /\ InOrder(m, me, u, ue, j, je, n, ne, l)
  BY LineOrder
<1>2. m < me /\ me < u /\ u < ue /\ j = ue + 6 /\ j < je /\ n = je + 1 /\ n < ne /\ ne < l
  BY <1>1 DEF InOrder
<1>3. /\ m = MethodAt(a) /\ me = MethodEnd(a) /\ u = UriAt(a) /\ ue = UriEnd(a)
      /\ j = MajorAt(a) /\ je = MajorEnd(a) /\ n = MinorAt(a) /\ ne = MinorEnd(a)
      /\ l = Len(Line(a))
  BY <1>1 DEF LineAt
<1>4. PICK c : c = ByteAt(a, i)
  OBVIOUS
<1>5. LineByte(r, b, i, sh) = LineAlmostDone(r, Place(i), c)
  BY <1>4, LineByteIs
<1>6. c = "LF"
  <2>1. i \in MinorEnd(a)..(Len(Line(a)) - 1)
    BY <1>3
  <2>2. i # Len(Line(a)) - 2 /\ ~ (i < Len(Line(a)) - 1)
    <3>1. i = l - 1
      BY <1>3
    <3>2. i # l - 2 /\ ~ (i < l - 1)
      BY <3>1
    <3> QED
      BY <1>3, <3>2
  <2> QED
    BY <1>4, <2>1, <2>2 DEF EndBytes
<1>7. PICK q : q = Return([r EXCEPT !.request_end = Place(i) - 1], "SGX_OK")
  OBVIOUS
<1>8. LineByte(r, b, i, sh) = q
  BY <1>5, <1>6, <1>7 DEF LineAlmostDone
<1>9. q.rc = "SGX_OK" /\ SameLearnt(r, q)
  BY <1>7 DEF FieldsType, Return, SameLearnt
<1> QED
  BY <1>8, <1>9, LineEnds

\* One byte of a well-formed request line.
LEMMA LineStep ==
  ASSUME NEW a \in RequestType, WellFormedLine(a),
         NEW r \in FieldsType(LineStates), NEW b, NEW i \in Nat, NEW sh \in BOOLEAN,
         b[Place(i)] = ByteAt(a, i), LineReached(a, r, i, sh), r.rc = "SGX_AGAIN"
  PROVE  LineReached(a, LineByte(r, b, i, sh), i + 1, sh)
<1>1. LinePlaces(a) /\ LineBytes(a) /\ EndBytes(a)
  BY LinePlaced, LineBytesAre, EndBytesAre
<1>2. i < Len(Line(a)) /\ LineState(a, r.state, i) /\ LineLearnt(a, r, i)
  BY DEF LineReached
<1>3. PICK m, me, u, ue, j, je, n, ne, l \in Nat :
        LineAt(a, m, me, u, ue, j, je, n, ne, l) /\ InOrder(m, me, u, ue, j, je, n, ne, l)
  BY <1>1, LineOrder
<1>4. m < me /\ me < u /\ u < ue /\ j = ue + 6 /\ j < je /\ n = je + 1 /\ n < ne /\ ne < l
  BY <1>3 DEF InOrder
<1>5. /\ m = MethodAt(a) /\ me = MethodEnd(a) /\ u = UriAt(a) /\ ue = UriEnd(a)
      /\ j = MajorAt(a) /\ je = MajorEnd(a) /\ n = MinorAt(a) /\ ne = MinorEnd(a)
      /\ l = Len(Line(a))
  BY <1>3 DEF LineAt
<1>6. CASE r.state = "sw_start" /\ i <= MethodAt(a)
  BY <1>1, <1>2, <1>6, InStart
<1>7. CASE r.state = "sw_method" /\ MethodAt(a) < i /\ i <= MethodEnd(a)
  BY <1>1, <1>2, <1>7, InMethod
<1>8. CASE r.state = "sw_spaces_before_uri" /\ MethodEnd(a) < i /\ i <= UriAt(a)
  BY <1>1, <1>2, <1>8, InGap
<1>9. CASE r.state = "sw_after_slash_in_uri" /\ UriAt(a) < i /\ i <= UriEnd(a)
  BY <1>1, <1>2, <1>9, AtUri
<1>10. CASE i \in {UriEnd(a) + 1, UriEnd(a) + 2, UriEnd(a) + 3, UriEnd(a) + 4, UriEnd(a) + 5}
  <2>1. i \in {ue + 1, ue + 2, ue + 3, ue + 4, ue + 5}
    BY <1>4, <1>5, <1>10
  <2>2. j = ue + 6
    BY <1>4, <1>5
  <2>3. i > ue /\ i < j
    BY <2>1, <2>2
  <2>4. i > UriEnd(a) /\ i < MajorAt(a)
    BY <1>4, <1>5, <2>3
  <2> QED
    BY <1>1, <1>2, <2>4, AtProtocol
<1>11. CASE r.state = "sw_first_major_digit" /\ i = MajorAt(a)
  BY <1>1, <1>2, <1>11, AtMajor
<1>12. CASE r.state = "sw_major_digit" /\ MajorAt(a) < i /\ i <= MajorEnd(a)
  BY <1>1, <1>2, <1>12, InMajor
<1>13. CASE r.state = "sw_first_minor_digit" /\ i = MinorAt(a)
  BY <1>1, <1>2, <1>13, AtMinor
<1>14. CASE r.state = "sw_minor_digit" /\ MinorAt(a) < i /\ i <= MinorEnd(a)
  <2>1. i < MinorEnd(a) \/ MinorEnd(a) <= i
    BY <1>4, <1>5
  <2>2. CASE i < MinorEnd(a)
    BY <1>1, <1>2, <1>14, <2>2, InMinor
  <2>3. CASE MinorEnd(a) <= i
    BY <1>1, <1>2, <1>14, <2>3, InEnd
  <2> QED
    BY <2>1, <2>2, <2>3
<1>15. CASE r.state = "sw_spaces_after_digit" /\ MinorEnd(a) < i /\ i < Len(Line(a))
  <2>1. MinorEnd(a) <= i
    BY <1>4, <1>5, <1>15
  <2> QED
    BY <1>1, <1>2, <1>15, <2>1, InEnd
<1>16. CASE r.state = "sw_almost_done" /\ i = Len(Line(a)) - 1
  <2>1. MinorEnd(a) <= i
    BY <1>4, <1>5, <1>16
  <2> QED
    BY <1>1, <1>2, <1>16, <2>1, AtLast
<1> QED
  BY <1>2, <1>6, <1>7, <1>8, <1>9, <1>10, <1>11, <1>12, <1>13, <1>14, <1>15, <1>16 DEF LineState

\* The ring holds the last bytes of the first n of the request.
Holds(b, a, n) ==
  \A k \in 0..(n - 1) : k + SGX_MAX_BUF >= n => b[Place(k)] = ByteAt(a, k)

\* What the parser of the request line takes the method for.
MethodIs(a, method) ==
  /\ \A x \in DOMAIN Names : a.method = Names[x] => method = x
  /\ Len(a.method) \notin {3, 4} => method = "SGX_HTTP_UNKNOWN"
  /\ Len(a.method) \in {3, 4} /\ (\A x \in DOMAIN Names : a.method # Names[x]) =>
       method \in MethodsLeft

\* MethodRecognised of a request of which i bytes have been parsed and n read.
Recognised(a, r, i, n) ==
  Place(MethodAt(a)) + Len(a.method) < SGX_MAX_BUF /\ n <= MethodAt(a) + SGX_MAX_BUF =>
    /\ i <= MethodEnd(a) => r.method \in MethodsLeft
    /\ i > MethodEnd(a) => MethodIs(a, r.method)

\* The methods with a name.
NamesAre == DOMAIN Names = {"SGX_HTTP_GET", "SGX_HTTP_POST", "SGX_HTTP_HEAD"}
            /\ Names["SGX_HTTP_GET"] = <<"G", "E", "T">>
            /\ Names["SGX_HTTP_POST"] = <<"P", "O", "S", "T">>
            /\ Names["SGX_HTTP_HEAD"] = <<"H", "E", "A", "D">>

\* Names has these, and no other.
LEMMA TheNames == NamesAre
<1>1. DOMAIN Names = {"SGX_HTTP_GET", "SGX_HTTP_POST", "SGX_HTTP_HEAD"}
  BY DEF Names
<1>2. Names["SGX_HTTP_GET"] = <<"G", "E", "T">>
  BY DEF Names
<1>3. Names["SGX_HTTP_POST"] = <<"P", "O", "S", "T">>
  BY DEF Names
<1>4. Names["SGX_HTTP_HEAD"] = <<"H", "E", "A", "D">>
  BY DEF Names
<1> QED
  BY <1>1, <1>2, <1>3, <1>4 DEF NamesAre

\* A method in one piece is compared with the right four bytes.
LEMMA MethodFound ==
  ASSUME NEW a \in RequestType, LinePlaces(a), LineBytes(a), NEW b, NEW n \in Nat, Holds(b, a, n),
         MethodEnd(a) < n, n <= MethodAt(a) + SGX_MAX_BUF,
         Place(MethodAt(a)) + Len(a.method) < SGX_MAX_BUF,
         NEW r, r.method \in MethodsLeft, r.request_start = Place(MethodAt(a)),
         NEW v, v = Method(r, b, Place(MethodEnd(a)))
  PROVE  MethodIs(a, v)
<1>1. PICK m, me, u, ue, j, je, nn, ne, l \in Nat :
        LineAt(a, m, me, u, ue, j, je, nn, ne, l) /\ InOrder(m, me, u, ue, j, je, nn, ne, l)
  BY LineOrder
<1>2. m < me /\ me < u /\ u < ue /\ j = ue + 6 /\ j < je /\ nn = je + 1 /\ nn < ne /\ ne < l
  BY <1>1 DEF InOrder
<1>3. /\ m = MethodAt(a) /\ me = MethodEnd(a) /\ u = UriAt(a) /\ ue = UriEnd(a)
      /\ j = MajorAt(a) /\ je = MajorEnd(a) /\ nn = MinorAt(a) /\ ne = MinorEnd(a)
      /\ l = Len(Line(a))
  BY <1>1 DEF LineAt
<1>4. PICK k \in Nat \ {0} : k = me - m
  BY <1>2
<1>5. Len(a.method) = k
  BY <1>3, <1>4 DEF LinePlaces
<1>6. PICK s \in Nat : s = Place(m)
  BY PlaceInRing
<1>7. s + k < SGX_MAX_BUF
  BY <1>3, <1>5, <1>6
<1>8. SGX_MAX_BUF \in Nat
  BY BufferAssumption
<1>9. ASSUME NEW h \in 0..k PROVE Place(m + h) = s + h
  <2>1. h \in Nat /\ s + h < SGX_MAX_BUF
    BY <1>7, <1>8
  <2> QED
    BY <1>6, <2>1, PlacesFollow
<1>10. ASSUME NEW h \in 0..k PROVE b[s + h] = ByteAt(a, m + h)
  <2>1. me < n /\ n <= m + SGX_MAX_BUF
    BY <1>3
  <2>2. m + h \in 0..(n - 1) /\ (m + h) + SGX_MAX_BUF >= n
    BY <1>4, <1>8, <2>1
  <2>3. b[Place(m + h)] = ByteAt(a, m + h)
    BY <2>2 DEF Holds
  <2> QED
    BY <1>9, <2>3
<1>11. ASSUME NEW h \in 1..k PROVE b[s + h - 1] = a.method[h]
  <2>1. h - 1 \in 0..k /\ s + (h - 1) = s + h - 1
    OBVIOUS
  <2>2. PICK y \in Nat : y = m + (h - 1)
    BY <2>1
  <2>3. y \in m..(me - 1) /\ y - m + 1 = h
    BY <1>4, <2>2
  <2>4. y \in MethodAt(a)..(MethodEnd(a) - 1) /\ y - MethodAt(a) + 1 = h
    BY <1>3, <2>3
  <2>5. ByteAt(a, y) = a.method[h]
    BY <2>4 DEF LineBytes
  <2> QED
    BY <1>10, <2>1, <2>2, <2>5
<1>12. b[s + k] = "SP"
  <2>1. ByteAt(a, me) = "SP"
    <3>1. me \in me..(u - 1)
      BY <1>2
    <3>2. me \in MethodEnd(a)..(UriAt(a) - 1)
      BY <1>3, <3>1
    <3> QED
      BY <3>2 DEF LineBytes
  <2>2. k \in 0..k /\ m + k = me
    BY <1>4
  <2> QED
    BY <1>10, <2>1, <2>2
<1>13. Place(me) - s = k /\ r.request_start = s
  <2>1. k \in 0..k /\ m + k = me
    BY <1>4
  <2>2. Place(me) = s + k
    BY <1>9, <2>1
  <2>3. s + k - s = k
    OBVIOUS
  <2> QED
    BY <1>3, <1>6, <2>2, <2>3
<1>14. a.method \in Seq(ByteClasses)
  BY RequestTyped
<1>16. v = Method(r, b, Place(me))
  BY <1>3
<1>17. CASE k = 3
  <2>1. b[s] = a.method[1] /\ b[s + 1] = a.method[2] /\ b[s + 2] = a.method[3] /\ b[s + 3] = "SP"
    <3>1. 1 \in 1..k /\ 2 \in 1..k /\ 3 \in 1..k
      BY <1>17
    <3>2. s + 1 - 1 = s /\ s + 2 - 1 = s + 1 /\ s + 3 - 1 = s + 2
      OBVIOUS
    <3> QED
      BY <1>11, <1>12, <1>17, <3>1, <3>2
  <2>2. Word(b, s) = <<b[s], b[s + 1], b[s + 2], b[s + 3]>>
    <3>1. s + 1 - 1 = s /\ s + 2 - 1 = s + 1 /\ s + 3 - 1 = s + 2 /\ s + 4 - 1 = s + 3
      OBVIOUS
    <3> QED
      BY <3>1 DEF Word
  <2>3. Word(b, s) = <<"G", "E", "T", "SP">> <=>
          a.method[1] = "G" /\ a.method[2] = "E" /\ a.method[3] = "T"
    BY <2>1, <2>2
  <2>4. a.method = <<"G", "E", "T">> <=>
          a.method[1] = "G" /\ a.method[2] = "E" /\ a.method[3] = "T"
    BY <1>5, <1>14, <1>17
  <2>5. v = IF Word(b, s) = <<"G", "E", "T", "SP">> THEN "SGX_HTTP_GET" ELSE r.method
    BY <1>13, <1>16, <1>17 DEF Method
  <2>6. a.method # <<"P", "O", "S", "T">> /\ a.method # <<"H", "E", "A", "D">>
    <3>1. Len(<<"P", "O", "S", "T">>) = 4 /\ Len(<<"H", "E", "A", "D">>) = 4
      OBVIOUS
    <3> QED
      BY <1>5, <1>17, <3>1
  <2>7. a.method = <<"G", "E", "T">> => v = "SGX_HTTP_GET"
    BY <2>3, <2>4, <2>5
  <2>8. a.method # <<"G", "E", "T">> => v \in MethodsLeft
    BY <2>3, <2>4, <2>5
  <2> QED
    BY <1>5, <1>17, <2>6, <2>7, <2>8, TheNames DEF NamesAre, MethodIs
<1>18. CASE k = 4
  <2>1. b[s] = a.method[1] /\ b[s + 1] = a.method[2] /\ b[s + 2] = a.method[3] /\ b[s + 3] = a.method[4]
    <3>1. 1 \in 1..k /\ 2 \in 1..k /\ 3 \in 1..k /\ 4 \in 1..k
      BY <1>18
    <3>2. s + 1 - 1 = s /\ s + 2 - 1 = s + 1 /\ s + 3 - 1 = s + 2 /\ s + 4 - 1 = s + 3
      OBVIOUS
    <3> QED
      BY <1>11, <3>1, <3>2
  <2>2. Word(b, s) = <<b[s], b[s + 1], b[s + 2], b[s + 3]>>
    <3>1. s + 1 - 1 = s /\ s + 2 - 1 = s + 1 /\ s + 3 - 1 = s + 2 /\ s + 4 - 1 = s + 3
      OBVIOUS
    <3> QED
      BY <3>1 DEF Word
  <2>3. a.method = <<a.method[1], a.method[2], a.method[3], a.method[4]>>
    BY <1>5, <1>14, <1>18
  <2>4. Word(b, s) = a.method
    BY <2>1, <2>2, <2>3
  <2>5. v = IF a.method = <<"P", "O", "S", "T">> THEN "SGX_HTTP_POST"
            ELSE IF a.method = <<"H", "E", "A", "D">> THEN "SGX_HTTP_HEAD" ELSE r.method
    <3>1. PICK w : w = Word(b, s)
      OBVIOUS
    <3>2. PICK p : p = Place(me) /\ p - s = 4 /\ p - s # 3
      BY <1>13, <1>18
    <3>3. v = IF w = <<"P", "O", "S", "T">> THEN "SGX_HTTP_POST"
              ELSE IF w = <<"H", "E", "A", "D">> THEN "SGX_HTTP_HEAD" ELSE r.method
      BY <1>13, <1>16, <3>1, <3>2 DEF Method
    <3> QED
      BY <2>4, <3>1, <3>3
  <2>6. a.method # <<"G", "E", "T">>
    <3>1. Len(<<"G", "E", "T">>) = 3
      OBVIOUS
    <3> QED
      BY <1>5, <1>18, <3>1
  <2>7. <<"P", "O", "S", "T">> # <<"H", "E", "A", "D">>
    OBVIOUS
  <2> QED
    BY <1>5, <1>18, <2>5, <2>6, <2>7, TheNames DEF NamesAre, MethodIs
<1>19. CASE k # 3 /\ k # 4
  <2>1. v = "SGX_HTTP_UNKNOWN"
    BY <1>13, <1>16, <1>19 DEF Method
  <2>2. \A x \in DOMAIN Names : Len(Names[x]) \in {3, 4}
    <3>1. Len(<<"G", "E", "T">>) = 3 /\ Len(<<"P", "O", "S", "T">>) = 4 /\ Len(<<"H", "E", "A", "D">>) = 4
      OBVIOUS
    <3> QED
      BY <3>1, TheNames DEF NamesAre
  <2>3. \A x \in DOMAIN Names : a.method # Names[x]
    BY <1>5, <1>19, <2>2
  <2> QED
    BY <1>5, <1>19, <2>1, <2>3, TheNames DEF NamesAre, MethodIs
<1> QED
  BY <1>17, <1>18, <1>19

\* A turn of the loop leaves the list, and what it does to the method.
LEMMA LineByteKeeps ==
  ASSUME NEW r \in FieldsType(LineStates), NEW b, NEW i \in Nat, NEW sh,
         NEW q, q = LineByte(r, b, i, sh)
  PROVE  /\ q.list = r.list
         /\ q.method = IF r.state = "sw_method" /\ b[Place(i)] = "SP"
                       THEN Method(r, b, Place(i)) ELSE r.method
<1> DEFINE p == Place(i)
           c == b[p]
           Keeps(x) == x.list = r.list /\ x.method = r.method
<1>1. r.state \in LineStates
  BY DEF FieldsType
<1>2. Keeps(LineStart(r, p, c, sh))
  BY DEF LineStart, Goto, Return, FieldsType
<1>3. c # "SP" => Keeps(LineMethod(r, b, p, c, sh))
  BY DEF LineMethod, Return, FieldsType
<1>4. c = "SP" =>
        /\ LineMethod(r, b, p, c, sh).list = r.list
        /\ LineMethod(r, b, p, c, sh).method = Method(r, b, p)
  BY DEF LineMethod, FieldsType
<1>5. Keeps(BeforeUri(r, p, c)) /\ Keeps(InUri(r, p, c)) /\ Keeps(LineAlmostDone(r, p, c))
  BY DEF BeforeUri, InUri, LineAlmostDone, Return, FieldsType
<1>6. Keeps(LineProtocol(r, c))
  BY DEF LineProtocol, Goto, Return, FieldsType
<1>7. Keeps(LineVersion(r, c))
  BY DEF LineVersion, Goto, Return, FieldsType
<1> HIDE DEF p, c
<1>8. CASE r.state = "sw_method"
  <2>1. q = LineMethod(r, b, p, c, sh)
    BY <1>8, LineByteIs DEF p, c
  <2> QED
    BY <1>3, <1>4, <1>8, <2>1 DEF p, c
<1>9. CASE r.state # "sw_method"
  <2>1. q \in {LineStart(r, p, c, sh), BeforeUri(r, p, c), InUri(r, p, c), LineProtocol(r, c),
               LineAlmostDone(r, p, c), LineVersion(r, c)}
    BY <1>1, <1>9, LineByteIs DEF p, c, LineStates
  <2> QED
    BY <1>2, <1>5, <1>6, <1>7, <1>9, <2>1
<1> QED
  BY <1>8, <1>9

\* What one byte leaves true of the method.
LEMMA MethodStep ==
  ASSUME NEW a \in RequestType, WellFormedLine(a),
         NEW r \in FieldsType(LineStates), NEW b, NEW i \in Nat, NEW n \in Nat, i < n, NEW sh \in BOOLEAN,
         b[Place(i)] = ByteAt(a, i), Holds(b, a, n), LineReached(a, r, i, sh), r.rc = "SGX_AGAIN",
         Recognised(a, r, i, n), NEW q, q = LineByte(r, b, i, sh)
  PROVE  Recognised(a, q, i + 1, n)
<1> SUFFICES ASSUME Place(MethodAt(a)) + Len(a.method) < SGX_MAX_BUF, n <= MethodAt(a) + SGX_MAX_BUF
             PROVE  /\ i + 1 <= MethodEnd(a) => q.method \in MethodsLeft
                    /\ i + 1 > MethodEnd(a) => MethodIs(a, q.method)
  BY DEF Recognised
<1>1. LinePlaces(a) /\ LineBytes(a)
  BY LinePlaced, LineBytesAre
<1>2. LineState(a, r.state, i) /\ LineLearnt(a, r, i)
  BY DEF LineReached
<1>3. PICK m, me, u, ue, j, je, nn, ne, l \in Nat :
        LineAt(a, m, me, u, ue, j, je, nn, ne, l) /\ InOrder(m, me, u, ue, j, je, nn, ne, l)
  BY <1>1, LineOrder
<1>4. m < me /\ me < u /\ u < ue /\ j = ue + 6 /\ j < je /\ nn = je + 1 /\ nn < ne /\ ne < l
  BY <1>3 DEF InOrder
<1>5. /\ m = MethodAt(a) /\ me = MethodEnd(a) /\ u = UriAt(a) /\ ue = UriEnd(a)
      /\ j = MajorAt(a) /\ je = MajorEnd(a) /\ nn = MinorAt(a) /\ ne = MinorEnd(a)
      /\ l = Len(Line(a))
  BY <1>3 DEF LineAt
<1>6. q.method = IF r.state = "sw_method" /\ b[Place(i)] = "SP"
                 THEN Method(r, b, Place(i)) ELSE r.method
  BY LineByteKeeps
<1>7. r.state = "sw_method" => MethodAt(a) < i /\ i <= MethodEnd(a)
  BY <1>2 DEF LineState
<1>8. CASE i < me
  <2>1. q.method = r.method
    <3>1. r.state = "sw_method" => i \in MethodAt(a)..(MethodEnd(a) - 1)
      <4>1. m < i => i \in m..(me - 1)
        BY <1>8
      <4> QED
        BY <1>5, <1>7, <4>1
    <3>2. r.state = "sw_method" => ByteAt(a, i) \in MethodBytes(FALSE)
      BY <1>1, <3>1 DEF LineBytes
    <3>3. r.state = "sw_method" => ByteAt(a, i) # "SP"
      BY <3>2 DEF MethodBytes, Letters
    <3> QED
      BY <1>6, <3>3
  <2>2. i <= MethodEnd(a) /\ ~ (i + 1 > MethodEnd(a))
    <3>1. i <= me /\ ~ (i + 1 > me)
      BY <1>8
    <3> QED
      BY <1>5, <3>1
  <2> QED
    BY <2>1, <2>2 DEF Recognised
<1>9. CASE i = me
  <2>1. r.state = "sw_method"
    <3>1. ~ (i <= m) /\ ~ (me < i) /\ ~ (u < i) /\ i # ue + 1 /\ i # ue + 2 /\ i # ue + 3
          /\ i # ue + 4 /\ i # ue + 5 /\ i # j /\ ~ (j < i) /\ i # nn /\ ~ (nn < i) /\ ~ (ne < i)
          /\ i # l - 1
      BY <1>4, <1>9
    <3> QED
      BY <1>2, <1>5, <3>1 DEF LineState
  <2>2. b[Place(i)] = "SP"
    <3>1. me \in me..(u - 1)
      BY <1>4
    <3>2. i \in MethodEnd(a)..(UriAt(a) - 1)
      BY <1>5, <1>9, <3>1
    <3> QED
      BY <1>1, <3>2 DEF LineBytes
  <2>3. q.method = Method(r, b, Place(MethodEnd(a)))
    BY <1>5, <1>6, <1>9, <2>1, <2>2
  <2>4. r.request_start = Place(MethodAt(a))
    <3>1. i > MethodAt(a)
      <4>1. i > m
        BY <1>4, <1>9
      <4> QED
        BY <1>5, <4>1
    <3> QED
      BY <1>2, <3>1 DEF LineLearnt
  <2>5. r.method \in MethodsLeft /\ MethodEnd(a) < n /\ ~ (i + 1 <= MethodEnd(a))
    <3>1. i <= MethodEnd(a)
      BY <1>5, <1>9
    <3>2. r.method \in MethodsLeft
      BY <3>1 DEF Recognised
    <3>3. me < n /\ ~ (i + 1 <= me)
      BY <1>9
    <3> QED
      BY <1>5, <3>2, <3>3
  <2>6. MethodIs(a, q.method)
    BY <1>1, <2>3, <2>4, <2>5, MethodFound
  <2> QED
    BY <2>5, <2>6
<1>10. CASE i > me
  <2>1. i > MethodEnd(a) /\ ~ (i + 1 <= MethodEnd(a)) /\ ~ (i <= MethodEnd(a))
    <3>1. i > me /\ ~ (i + 1 <= me) /\ ~ (i <= me)
      BY <1>10
    <3> QED
      BY <1>5, <3>1
  <2>2. q.method = r.method
    BY <1>6, <1>7, <2>1
  <2>3. MethodIs(a, r.method)
    BY <2>1 DEF Recognised
  <2> QED
    BY <2>1, <2>2, <2>3
<1> QED
  BY <1>8, <1>9, <1>10

-----------------------------------------------------------------------------
(* A call of the parser of the request line *)

\* Where the parser of a well-formed request line is when it has parsed i bytes of n.
LineGood(a, q, i, n, sh) ==
  /\ LineReached(a, q, i, sh)
  /\ q.rc # "SGX_HTTP_PARSE_INVALID_METHOD" => Recognised(a, q, i, n)
  /\ q.list = <<>>

\* One byte of a well-formed request line, with what the method is.
LEMMA LineGoodStep ==
  ASSUME NEW a \in RequestType, WellFormedLine(a),
         NEW r \in FieldsType(LineStates), NEW b, NEW i \in Nat, NEW n \in Nat, i < n, NEW sh \in BOOLEAN,
         b[Place(i)] = ByteAt(a, i), Holds(b, a, n), LineGood(a, r, i, n, sh), r.rc = "SGX_AGAIN"
  PROVE  LineGood(a, LineByte(r, b, i, sh), i + 1, n, sh)
<1> PICK q : q = LineByte(r, b, i, sh)
  OBVIOUS
<1>1. LineReached(a, r, i, sh) /\ Recognised(a, r, i, n) /\ r.list = <<>>
  BY DEF LineGood
<1>2. LineReached(a, q, i + 1, sh)
  BY <1>1, LineStep
<1>3. Recognised(a, q, i + 1, n)
  BY <1>1, MethodStep
<1>4. q.list = <<>>
  BY <1>1, LineByteKeeps
<1> QED
  BY <1>2, <1>3, <1>4 DEF LineGood

\* What is stored in pos is of no interest to the parser.
LEMMA LineGoodPos ==
  ASSUME NEW r \in FieldsType(LineStates), NEW p, NEW a, NEW i, NEW n, NEW sh, LineGood(a, r, i, n, sh)
  PROVE  LineGood(a, [r EXCEPT !.pos = p], i, n, sh)
<1> PICK q : q = [r EXCEPT !.pos = p]
  OBVIOUS
<1>1. /\ q.rc = r.rc /\ q.state = r.state /\ q.list = r.list /\ q.method = r.method
      /\ q.request_start = r.request_start /\ q.uri_start = r.uri_start /\ q.uri_end = r.uri_end
      /\ q.http_major = r.http_major /\ q.http_minor = r.http_minor
  BY DEF FieldsType
<1>2. LineLearnt(a, r, i) => LineLearnt(a, q, i)
  BY <1>1 DEF LineLearnt
<1>3. LineReached(a, q, i, sh)
  BY <1>1, <1>2 DEF LineGood, LineReached
<1>4. Recognised(a, r, i, n) => Recognised(a, q, i, n)
  BY <1>1 DEF Recognised
<1> QED
  BY <1>1, <1>3, <1>4 DEF LineGood

\* What the call returns is what the loop came to.
LEMMA LineReturns ==
  ASSUME NEW r, NEW g \in FieldsType(LineStates), NEW from, NEW q, q = LineReturn(r, g, from)
  PROVE  /\ g.rc = "SGX_AGAIN" => q = g
         /\ g.rc = "SGX_OK" =>
              /\ q.rc = g.rc /\ q.pos = g.pos /\ q.list = g.list /\ q.method = g.method
              /\ SameLearnt(g, q)
         /\ g.rc \notin {"SGX_AGAIN", "SGX_OK"} => q.rc = g.rc /\ q.pos = from
<1>1. CASE g.rc = "SGX_AGAIN"
  <2>1. [g EXCEPT !.request_end = g.request_end] = g
    BY DEF FieldsType
  <2>2. q = Stored(r, g, from)
    BY <1>1, <2>1 DEF LineReturn
  <2> QED
    BY <1>1, <2>2 DEF Stored
<1>2. CASE g.rc # "SGX_AGAIN"
  <2>1. PICK e : q = Stored(r, [g EXCEPT !.request_end = e], from)
    BY DEF LineReturn
  <2>2. PICK h : h = [g EXCEPT !.request_end = e] /\ h.rc = g.rc
    <3>1. [g EXCEPT !.request_end = e].rc = g.rc
      BY DEF FieldsType
    <3> QED
      BY <3>1
  <2>3. CASE g.rc = "SGX_OK"
    <3>1. q = [h EXCEPT !.state = "sw_start"]
      BY <2>1, <2>2, <2>3 DEF Stored
    <3>2. q = [g EXCEPT !.request_end = e, !.state = "sw_start"]
      BY <2>2, <3>1
    <3>3. q.rc = g.rc /\ q.pos = g.pos /\ q.list = g.list /\ q.method = g.method /\ SameLearnt(g, q)
      BY <3>2 DEF FieldsType, SameLearnt
    <3> QED
      BY <2>3, <3>3
  <2>4. CASE g.rc # "SGX_OK"
    <3>1. q = [h EXCEPT !.state = r.state, !.pos = from]
      BY <1>2, <2>1, <2>2, <2>4 DEF Stored
    <3>2. q = [g EXCEPT !.request_end = e, !.state = r.state, !.pos = from]
      BY <2>2, <3>1
    <3>3. q.rc = g.rc /\ q.pos = from
      BY <3>2 DEF FieldsType
    <3> QED
      BY <1>2, <2>4, <3>3
  <2> QED
    BY <2>3, <2>4
<1> QED
  BY <1>1, <1>2

\* What a call leaves of a well-formed request line.
LineLeft(a, q, from, to, sh) ==
  \/ q.rc = "SGX_AGAIN" /\ q.pos = to /\ LineGood(a, q, to, to, sh)
  \/ /\ q.rc = "SGX_OK" /\ q.pos = Len(Line(a)) /\ LineLearnt(a, q, q.pos)
     /\ Recognised(a, q, q.pos, to) /\ q.list = <<>>
  \/ /\ q.rc = "SGX_HTTP_PARSE_INVALID_METHOD" /\ sh /\ BytesOf(a.method) # {"_"}
     /\ q.pos = from /\ q.pos < Len(Line(a))

\* A call goes on to the end of what is there, or of the line, unless the shift of
\* line 55 or 91 has it refuse the method.
LEMMA LineOutcome ==
  ASSUME NEW a \in RequestType, WellFormedLine(a),
         NEW r \in FieldsType(LineStates), NEW b, NEW from \in Nat, NEW to \in Nat, from <= to,
         NEW sh \in BOOLEAN, Holds(b, a, to), to < from + SGX_MAX_BUF,
         LineGood(a, r, from, to, sh), r.rc = "SGX_AGAIN",
         NEW q, q = sgx_http_parse_request_line(r, b, from, to, sh)
  PROVE  LineLeft(a, q, from, to, sh)
<1>1. PICK f : /\ LineLoop(r, b, from, to - from, sh, f)
               /\ q = LineReturn(r, f[to - from], from)
  BY LineCall
<1>2. PICK m \in Nat : m = to - from
  OBVIOUS
<1>3. /\ f \in [0..m -> FieldsType(LineStates)]
      /\ f[0] = [r EXCEPT !.rc = "SGX_AGAIN", !.pos = from]
      /\ \A k \in 1..m : f[k] = LineTurn(f[k - 1], b, from, k, sh)
  BY <1>1, <1>2 DEF LineLoop
<1> DEFINE Good == {k \in 0..m : /\ LineGood(a, f[k], f[k].pos, to, sh)
                                 /\ f[k].rc = "SGX_AGAIN" => f[k].pos = from + k}
<1>4. 0 \in Good
  <2>1. f[0] = [r EXCEPT !.pos = from]
    <3>1. [r EXCEPT !.rc = "SGX_AGAIN"] = r
      BY DEF FieldsType
    <3>2. [r EXCEPT !.rc = "SGX_AGAIN", !.pos = from] = [[r EXCEPT !.rc = "SGX_AGAIN"] EXCEPT !.pos = from]
      BY DEF FieldsType
    <3> QED
      BY <1>3, <3>1, <3>2
  <2>2. f[0].pos = from
    BY <2>1 DEF FieldsType
  <2>3. LineGood(a, f[0], from, to, sh)
    BY <2>1, LineGoodPos
  <2> QED
    BY <2>2, <2>3
<1>5. ASSUME NEW k \in 1..m, k - 1 \in Good PROVE k \in Good
  <2>1. PICK g \in FieldsType(LineStates) : g = f[k - 1]
    <3>1. k - 1 \in 0..m
      OBVIOUS
    <3> QED
      BY <1>3, <3>1
  <2>2. /\ f[k] = LineTurn(g, b, from, k, sh) /\ LineGood(a, g, g.pos, to, sh)
        /\ g.rc = "SGX_AGAIN" => g.pos = from + (k - 1)
    BY <1>3, <1>5, <2>1
  <2>3. CASE g.rc = "SGX_AGAIN"
    <3>1. PICK i \in Nat : i = from + (k - 1)
      OBVIOUS
    <3>2. i < to /\ i + 1 = from + k /\ from + k - 1 = i /\ i >= from
      BY <1>2, <3>1
    <3>3. b[Place(i)] = ByteAt(a, i)
      <4>1. i \in 0..(to - 1) /\ i + SGX_MAX_BUF >= to
        BY <3>2, BufferAssumption
      <4> QED
        BY <4>1 DEF Holds
    <3>4. PICK h \in FieldsType(LineStates) : h = LineByte(g, b, i, sh)
      BY LineByteTyped
    <3>5. LineGood(a, h, i + 1, to, sh)
      BY <2>2, <2>3, <3>1, <3>2, <3>3, <3>4, LineGoodStep
    <3>6. f[k] = [h EXCEPT !.pos = i + 1]
      BY <2>2, <2>3, <3>2, <3>4 DEF LineTurn
    <3>7. LineGood(a, f[k], i + 1, to, sh)
      BY <3>5, <3>6, LineGoodPos
    <3>8. f[k].pos = i + 1
      BY <3>6 DEF FieldsType
    <3> QED
      BY <3>2, <3>7, <3>8
  <2>4. CASE g.rc # "SGX_AGAIN"
    BY <2>1, <2>2, <2>4 DEF LineTurn
  <2> QED
    BY <2>3, <2>4
<1>6. m \in Good
  <2> HIDE DEF Good
  <2> QED
    BY <1>4, <1>5, Induct
<1>7. PICK g \in FieldsType(LineStates) : g = f[m]
  BY <1>3
<1>8. LineGood(a, g, g.pos, to, sh) /\ (g.rc = "SGX_AGAIN" => g.pos = to)
  BY <1>2, <1>6, <1>7
<1>9. q = LineReturn(r, g, from)
  BY <1>1, <1>2, <1>7
<1>10. LineReached(a, g, g.pos, sh)
  BY <1>8 DEF LineGood
<1>11. CASE g.rc = "SGX_AGAIN"
  <2>1. q = g
    BY <1>9, <1>11, LineReturns
  <2>2. q.rc = "SGX_AGAIN" /\ q.pos = to /\ LineGood(a, q, to, to, sh)
    BY <1>8, <1>11, <2>1
  <2> QED
    BY <2>2 DEF LineLeft
<1>12. CASE g.rc = "SGX_OK"
  <2>1. q.rc = g.rc /\ q.pos = g.pos /\ q.list = g.list /\ q.method = g.method /\ SameLearnt(g, q)
    BY <1>9, <1>12, LineReturns
  <2>2. g.pos = Len(Line(a)) /\ LineLearnt(a, g, g.pos)
    BY <1>10, <1>12 DEF LineReached
  <2>3. Recognised(a, g, g.pos, to) /\ g.list = <<>>
    BY <1>8, <1>12 DEF LineGood
  <2>4. LineLearnt(a, q, g.pos)
    BY <2>1, <2>2 DEF LineLearnt, SameLearnt
  <2>5. Recognised(a, q, g.pos, to)
    BY <2>1, <2>3 DEF Recognised
  <2> QED
    BY <1>12, <2>1, <2>2, <2>3, <2>4, <2>5 DEF LineLeft
<1>13. CASE g.rc \notin {"SGX_AGAIN", "SGX_OK"}
  <2>1. q.rc = g.rc /\ q.pos = from
    BY <1>9, <1>13, LineReturns
  <2>2. g.rc = "SGX_HTTP_PARSE_INVALID_METHOD" /\ sh /\ BytesOf(a.method) # {"_"}
    BY <1>10, <1>13 DEF LineReached
  <2>3. from < Len(Line(a))
    BY DEF LineGood, LineReached
  <2> QED
    BY <2>1, <2>2, <2>3 DEF LineLeft
<1> QED
  BY <1>11, <1>12, <1>13

-----------------------------------------------------------------------------
(* Where the pieces of a header are *)

\* Where the key of header j ends.
KeyEnd(a, j) == HeaderAt(a, j) + Len(a.headers[j].key)

\* How many blanks are before the colon.
Before(h) ==
  CHOOSE m \in 0..Len(h.colon) : \E n \in 0..Len(h.colon) : h.colon = Blanks(m) \o <<":">> \o Blanks(n)

\* Where its colon is, and where its value ends.
ColonAt(a, j) == KeyEnd(a, j) + Before(a.headers[j])
ValueEndAt(a, j) == ValueAt(a, j) + Len(a.headers[j].value)

\* Where the pieces of a well-formed header lie, and which bytes they have.
HeaderPlaces(a, j) ==
  /\ HeaderAt(a, j) \in Nat /\ KeyEnd(a, j) \in Nat /\ ColonAt(a, j) \in Nat /\ ValueAt(a, j) \in Nat
  /\ ValueEndAt(a, j) \in Nat /\ HeaderAt(a, j + 1) \in Nat
  /\ HeaderAt(a, j) < KeyEnd(a, j) /\ KeyEnd(a, j) <= ColonAt(a, j) /\ ColonAt(a, j) < ValueAt(a, j)
  /\ ValueAt(a, j) < ValueEndAt(a, j)
  /\ \/ j \in Kept(a) /\ HeaderAt(a, j + 1) = ValueEndAt(a, j) + 2
     \/ j \notin Kept(a) /\ HeaderAt(a, j + 1) = ValueEndAt(a, j) + 1

\* Which bytes the pieces have.
HeaderBytes(a, j) ==
  /\ \A i \in HeaderAt(a, j)..(KeyEnd(a, j) - 1) : ByteAt(a, i) \in Letters
  /\ \A i \in KeyEnd(a, j)..(ColonAt(a, j) - 1) : ByteAt(a, i) = "SP"
  /\ ByteAt(a, ColonAt(a, j)) = ":"
  /\ \A i \in (ColonAt(a, j) + 1)..(ValueAt(a, j) - 1) : ByteAt(a, i) = "SP"
  /\ \A i \in ValueAt(a, j)..(ValueEndAt(a, j) - 1) : ByteAt(a, i) \in Letters
  /\ j \in Kept(a) => ByteAt(a, ValueEndAt(a, j)) = "CR" /\ ByteAt(a, ValueEndAt(a, j) + 1) = "LF"
  /\ j \notin Kept(a) => ByteAt(a, ValueEndAt(a, j)) = "LF"

\* What separates a key from its value.
LEMMA ColonIs ==
  ASSUME NEW h \in HeaderType, WellFormedHeader(h)
  PROVE  \E m, n \in Nat :
           /\ m = Before(h) /\ Len(h.colon) = m + 1 + n
           /\ \A k \in 1..m : h.colon[k] = "SP"
           /\ h.colon[m + 1] = ":"
           /\ \A k \in 1..n : h.colon[m + 1 + k] = "SP"
<1>1. PICK m \in 0..Len(h.colon) :
        m = Before(h) /\ \E n \in 0..Len(h.colon) : h.colon = Blanks(m) \o <<":">> \o Blanks(n)
  BY DEF WellFormedHeader, Before
<1>2. PICK n \in 0..Len(h.colon) : h.colon = Blanks(m) \o <<":">> \o Blanks(n)
  BY <1>1
<1>3. m \in Nat /\ n \in Nat
  OBVIOUS
<1>4. PICK x \in Seq(ByteClasses) : x = Blanks(m) /\ Len(x) = m /\ \A k \in 1..m : x[k] = "SP"
  BY <1>3, BlanksAre, BytesInClass
<1>5. PICK y \in Seq(ByteClasses) : y = Blanks(n) /\ Len(y) = n /\ \A k \in 1..n : y[k] = "SP"
  BY <1>3, BlanksAre, BytesInClass
<1>6. PICK c \in Seq(ByteClasses) : c = <<":">> /\ Len(c) = 1 /\ c[1] = ":"
  BY BytesInClass
<1>7. PICK z \in Seq(ByteClasses) :
        /\ z = x \o c /\ Len(z) = m + 1
        /\ \A k \in 1..m : z[k] = x[k]
        /\ z[m + 1] = c[1]
  <2>1. PICK z \in Seq(ByteClasses) : z = x \o c
    BY <1>4, <1>6, Joined
  <2>2. Len(z) = m + 1 /\ \A k \in 1..m : z[k] = x[k]
    BY <1>4, <1>6, <2>1, Joined
  <2>3. z[m + 1] = c[1]
    <3>1. 1 \in 1..Len(c)
      BY <1>6
    <3>2. \A k \in 1..Len(c) : (x \o c)[Len(x) + k] = c[k]
      BY <1>4, <1>6, Joined
    <3>3. (x \o c)[Len(x) + 1] = c[1]
      BY <3>1, <3>2
    <3> QED
      BY <1>4, <2>1, <3>3
  <2> QED
    BY <2>1, <2>2, <2>3
<1>8. h.colon = z \o y
  BY <1>2, <1>4, <1>5, <1>6, <1>7
<1>9. /\ Len(h.colon) = (m + 1) + n
      /\ \A k \in 1..(m + 1) : h.colon[k] = z[k]
      /\ \A k \in 1..n : h.colon[(m + 1) + k] = y[k]
  <2>1. PICK l \in Nat : l = m + 1 /\ Len(z) = l
    BY <1>3, <1>7
  <2>2. Len(h.colon) = l + n
    <3>1. Len(z \o y) = Len(z) + Len(y)
      BY <1>5, <1>7, Joined
    <3> QED
      BY <1>5, <1>8, <2>1, <3>1
  <2>3. \A k \in 1..l : h.colon[k] = z[k]
    BY <1>5, <1>8, <2>1, Joined
  <2>4. Len(h.colon) = l + n /\ \A k \in 1..l : h.colon[k] = z[k]
    BY <2>2, <2>3
  <2>5. \A k \in 1..n : h.colon[l + k] = y[k]
    BY <1>5, <1>8, <2>1, Joined
  <2> QED
    BY <2>1, <2>4, <2>5
<1>10. \A k \in 1..m : h.colon[k] = "SP"
  BY <1>3, <1>4, <1>7, <1>9
<1>11. h.colon[m + 1] = ":"
  <2>1. m + 1 \in 1..(m + 1)
    BY <1>3
  <2> QED
    BY <1>6, <1>7, <1>9, <2>1
<1>12. \A k \in 1..n : h.colon[m + 1 + k] = "SP"
  BY <1>5, <1>9
<1> QED
  BY <1>1, <1>3, <1>9, <1>10, <1>11, <1>12

\* Where the four pieces of a header are.
LEMMA HeaderParts ==
  ASSUME NEW a \in RequestType, NEW j \in 1..Len(a.headers)
  PROVE  /\ HeaderAt(a, j) \in Nat /\ KeyEnd(a, j) \in Nat /\ ValueAt(a, j) \in Nat /\ ValueEndAt(a, j) \in Nat
         /\ ValueAt(a, j) = KeyEnd(a, j) + Len(a.headers[j].colon)
         /\ HeaderAt(a, j + 1) = ValueEndAt(a, j) + Len(a.headers[j].end)
         /\ Has(Text(a), HeaderAt(a, j), a.headers[j].key)
         /\ Has(Text(a), KeyEnd(a, j), a.headers[j].colon)
         /\ Has(Text(a), ValueAt(a, j), a.headers[j].value)
         /\ Has(Text(a), ValueEndAt(a, j), a.headers[j].end)
         /\ a.headers[j] \in HeaderType
<1>1. PICK h \in HeaderType : h = a.headers[j]
  BY RequestTyped
<1>2. PICK t : t = Text(a)
  OBVIOUS
<1> DEFINE B == Seq(ByteClasses)
           b1 == h.key \o h.colon
           b2 == b1 \o h.value
<1>3. h.key \in B /\ h.colon \in B /\ h.value \in B /\ h.end \in B
  BY DEF HeaderType
<1>4. Header(h) = b2 \o h.end
  BY DEF Header
<1>5. \A s, u \in B : s \o u \in B /\ Len(s \o u) = Len(s) + Len(u) /\ Len(s) \in Nat /\ Len(u) \in Nat
  OBVIOUS
<1>6. PICK s \in Nat : s = HeaderAt(a, j)
  <2>1. j \in 1..(Len(a.headers) + 1)
    BY RequestTyped
  <2> QED
    BY <2>1, TextParts
<1>7. Has(t, s, Header(h)) /\ HeaderAt(a, j + 1) = s + Len(Header(h))
  BY <1>1, <1>2, <1>6, TextParts
<1> HIDE DEF B
<1>8. b1 \in B /\ Len(b1) = Len(h.key) + Len(h.colon)
  BY <1>3, <1>5
<1> HIDE DEF b1
<1>9. b2 \in B /\ Len(b2) = Len(b1) + Len(h.value)
  BY <1>3, <1>5, <1>8
<1> HIDE DEF b2
<1>10. Len(Header(h)) = Len(b2) + Len(h.end)
  BY <1>3, <1>4, <1>5, <1>9
<1>11. Has(t, s, b2) /\ Has(t, s + Len(b2), h.end)
  <2>1. Has(t, s, b2 \o h.end)
    BY <1>4, <1>7
  <2> QED
    BY <1>3, <1>9, <2>1, Split DEF B
<1>12. Has(t, s, b1) /\ Has(t, s + Len(b1), h.value)
  <2>1. Has(t, s, b1 \o h.value)
    BY <1>11 DEF b2
  <2> QED
    BY <1>3, <1>8, <2>1, Split DEF B
<1>13. Has(t, s, h.key) /\ Has(t, s + Len(h.key), h.colon)
  <2>1. Has(t, s, h.key \o h.colon)
    BY <1>12 DEF b1
  <2> QED
    BY <1>3, <2>1, Split DEF B
<1>14. PICK lk, lc, lv, le \in Nat :
         lk = Len(h.key) /\ lc = Len(h.colon) /\ lv = Len(h.value) /\ le = Len(h.end)
  BY <1>3, <1>5
<1>15. KeyEnd(a, j) = s + lk
  BY <1>1, <1>6, <1>14 DEF KeyEnd
<1>16. ValueAt(a, j) = s + lk + lc
  BY <1>1, <1>6, <1>14 DEF ValueAt
<1>17. ValueEndAt(a, j) = s + lk + lc + lv
  BY <1>1, <1>14, <1>16 DEF ValueEndAt
<1>18. s + Len(h.key) = s + lk /\ s + Len(b1) = s + lk + lc /\ s + Len(b2) = s + lk + lc + lv
       /\ s + Len(Header(h)) = s + lk + lc + lv + le
  <2>1. Len(b1) = lk + lc
    BY <1>8, <1>14
  <2>2. Len(b2) = lk + lc + lv
    BY <1>9, <1>14, <2>1
  <2>3. Len(Header(h)) = lk + lc + lv + le
    BY <1>10, <1>14, <2>2
  <2>4. s + (lk + lc) = s + lk + lc /\ s + (lk + lc + lv) = s + lk + lc + lv
        /\ s + (lk + lc + lv + le) = s + lk + lc + lv + le
    OBVIOUS
  <2> QED
    BY <1>14, <2>1, <2>2, <2>3, <2>4
<1>19. s + lk \in Nat /\ s + lk + lc \in Nat /\ s + lk + lc + lv \in Nat
  OBVIOUS
<1> QED
  BY <1>1, <1>2, <1>6, <1>7, <1>11, <1>12, <1>13, <1>14, <1>15, <1>16, <1>17, <1>18, <1>19

\* A header is kept when it ends with CR LF.
LEMMA HeaderEnd ==
  ASSUME NEW a \in RequestType, NEW j \in 1..Len(a.headers), WellFormedHeader(a.headers[j])
  PROVE  \/ /\ j \in Kept(a) /\ Len(a.headers[j].end) = 2
            /\ a.headers[j].end[1] = "CR" /\ a.headers[j].end[2] = "LF"
         \/ /\ j \notin Kept(a) /\ Len(a.headers[j].end) = 1
            /\ a.headers[j].end[1] = "LF"
<1>1. PICK e : e = a.headers[j].end
  OBVIOUS
<1>2. j \in DOMAIN a.headers
  BY RequestTyped
<1>3. j \in Kept(a) <=> e = <<"CR", "LF">>
  BY <1>1, <1>2 DEF Kept
<1>4. e = <<"LF">> \/ e = <<"CR", "LF">>
  BY <1>1 DEF WellFormedHeader
<1>5. <<"LF">> # <<"CR", "LF">>
  OBVIOUS
<1>6. CASE e = <<"LF">>
  BY <1>1, <1>3, <1>5, <1>6
<1>7. CASE e = <<"CR", "LF">>
  BY <1>1, <1>3, <1>7
<1> QED
  BY <1>4, <1>6, <1>7

\* A well-formed header has its pieces in their order.
LEMMA HeaderPlaced ==
  ASSUME NEW a \in RequestType, NEW j \in 1..Len(a.headers), WellFormedHeader(a.headers[j])
  PROVE  HeaderPlaces(a, j)
<1>1. PICK h \in HeaderType : h = a.headers[j] /\ WellFormedHeader(h)
  BY HeaderParts
<1>2. PICK s, ke, va, ve \in Nat :
        s = HeaderAt(a, j) /\ ke = KeyEnd(a, j) /\ va = ValueAt(a, j) /\ ve = ValueEndAt(a, j)
  BY HeaderParts
<1>3. PICK m, n \in Nat : m = Before(h) /\ Len(h.colon) = m + 1 + n
  BY <1>1, ColonIs
<1>4. \E k \in Nat \ {0} : k = Len(h.key)
  <2>1. h.key \in Seq(ByteClasses) /\ h.key # <<>>
    BY <1>1 DEF HeaderType, WellFormedHeader
  <2> QED
    BY <2>1
<1>5. \E k \in Nat \ {0} : k = Len(h.value)
  <2>1. h.value \in Seq(ByteClasses) /\ h.value # <<>>
    BY <1>1 DEF HeaderType, WellFormedHeader
  <2> QED
    BY <2>1
<1>6. s < ke
  BY <1>1, <1>2, <1>4 DEF KeyEnd
<1>7. va < ve
  BY <1>1, <1>2, <1>5 DEF ValueEndAt
<1>8. va = ke + (m + 1 + n)
  BY <1>1, <1>2, <1>3, HeaderParts
<1>9. ColonAt(a, j) = ke + m
  BY <1>1, <1>2, <1>3 DEF ColonAt
<1>10. ke + m \in Nat /\ ke <= ke + m /\ ke + m < va
  BY <1>8
<1>11. \/ j \in Kept(a) /\ HeaderAt(a, j + 1) = ve + 2
       \/ j \notin Kept(a) /\ HeaderAt(a, j + 1) = ve + 1
  BY <1>2, HeaderEnd, HeaderParts
<1>12. HeaderAt(a, j + 1) \in Nat
  BY <1>11
<1> QED
  BY <1>2, <1>6, <1>7, <1>9, <1>10, <1>11, <1>12 DEF HeaderPlaces

\* It has the bytes it should.
LEMMA HeaderBytesAre ==
  ASSUME NEW a \in RequestType, NEW j \in 1..Len(a.headers), WellFormedHeader(a.headers[j])
  PROVE  HeaderBytes(a, j)
<1>1. PICK h \in HeaderType : h = a.headers[j] /\ WellFormedHeader(h)
  BY HeaderParts
<1>2. PICK s, ke, va, ve \in Nat :
        s = HeaderAt(a, j) /\ ke = KeyEnd(a, j) /\ va = ValueAt(a, j) /\ ve = ValueEndAt(a, j)
  BY HeaderParts
<1>3. h.key \in Seq(ByteClasses) /\ h.colon \in Seq(ByteClasses)
      /\ h.value \in Seq(ByteClasses) /\ h.end \in Seq(ByteClasses)
  BY DEF HeaderType
<1>4. /\ Has(Text(a), s, h.key) /\ Has(Text(a), ke, h.colon)
      /\ Has(Text(a), va, h.value) /\ Has(Text(a), ve, h.end)
      /\ va = ke + Len(h.colon)
  BY <1>1, <1>2, HeaderParts
<1>5. PICK m, n \in Nat :
        /\ m = Before(h) /\ Len(h.colon) = m + 1 + n
        /\ \A k \in 1..m : h.colon[k] = "SP"
        /\ h.colon[m + 1] = ":"
        /\ \A k \in 1..n : h.colon[m + 1 + k] = "SP"
  BY <1>1, ColonIs
<1>6. ColonAt(a, j) = ke + m /\ va = ke + m + 1 + n
  BY <1>1, <1>2, <1>4, <1>5 DEF ColonAt
<1>7. ke = s + Len(h.key) /\ ve = va + Len(h.value)
  BY <1>1, <1>2 DEF KeyEnd, ValueEndAt
<1>8. ASSUME NEW i \in s..(ke - 1) PROVE ByteAt(a, i) \in Letters
  <2>1. ByteAt(a, i) \in BytesOf(h.key)
    BY <1>3, <1>4, <1>7, InPiece
  <2> QED
    BY <1>1, <2>1 DEF WellFormedHeader
<1>9. ASSUME NEW i \in va..(ve - 1) PROVE ByteAt(a, i) \in Letters
  <2>1. i \in va..(va + Len(h.value) - 1)
    BY <1>7
  <2>2. ByteAt(a, i) \in BytesOf(h.value)
    BY <1>3, <1>4, <2>1, InPiece
  <2> QED
    BY <1>1, <2>2 DEF WellFormedHeader
<1>10. ASSUME NEW k \in 1..(m + 1 + n), NEW i \in Nat, i = ke + k - 1
       PROVE  ByteAt(a, i) = h.colon[k]
  <2>1. PICK l \in Nat : l = m + 1 + n
    OBVIOUS
  <2>2. i \in ke..(ke + l - 1) /\ i - ke + 1 = k
    BY <1>10, <2>1
  <2>3. Len(h.colon) = l
    BY <1>5, <2>1
  <2> QED
    BY <1>3, <1>4, <2>2, <2>3, InPiece
<1>11. ASSUME NEW i \in ke..(ke + m - 1) PROVE ByteAt(a, i) = "SP"
  <2>1. PICK k \in 1..m : k = i - ke + 1
    OBVIOUS
  <2>2. k \in 1..(m + 1 + n) /\ i \in Nat /\ i = ke + k - 1
    BY <2>1
  <2>3. ByteAt(a, i) = h.colon[k]
    BY <1>10, <2>2
  <2> QED
    BY <1>5, <2>1, <2>3
<1>12. ByteAt(a, ke + m) = ":"
  <2>1. m + 1 \in 1..(m + 1 + n) /\ ke + m \in Nat /\ ke + m = ke + (m + 1) - 1
    OBVIOUS
  <2>2. ByteAt(a, ke + m) = h.colon[m + 1]
    BY <1>10, <2>1
  <2> QED
    BY <1>5, <2>2
<1>13. ASSUME NEW i \in (ke + m + 1)..(va - 1) PROVE ByteAt(a, i) = "SP"
  <2>1. PICK k \in 1..n : i = ke + m + k
    <3>1. i - ke - m \in 1..n /\ i = ke + m + (i - ke - m)
      BY <1>6
    <3> QED
      BY <3>1
  <2>2. m + 1 + k \in 1..(m + 1 + n) /\ i \in Nat /\ i = ke + (m + 1 + k) - 1
    BY <2>1
  <2>3. ByteAt(a, i) = h.colon[m + 1 + k]
    BY <1>10, <2>2
  <2> QED
    BY <1>5, <2>1, <2>3
<1>14. ASSUME NEW k \in 1..Len(h.end) PROVE ByteAt(a, ve + (k - 1)) = h.end[k]
  <2>1. Text(a)[ve + k] = h.end[k]
    BY <1>4 DEF Has
  <2>2. (ve + (k - 1)) + 1 = ve + k
    OBVIOUS
  <2> QED
    BY <2>1, <2>2 DEF ByteAt
<1>15. j \in Kept(a) => ByteAt(a, ve) = "CR" /\ ByteAt(a, ve + 1) = "LF"
  <2> SUFFICES ASSUME j \in Kept(a) PROVE ByteAt(a, ve) = "CR" /\ ByteAt(a, ve + 1) = "LF"
    OBVIOUS
  <2>1. Len(h.end) = 2 /\ h.end[1] = "CR" /\ h.end[2] = "LF"
    BY <1>1, HeaderEnd
  <2>2. 1 \in 1..Len(h.end) /\ 2 \in 1..Len(h.end) /\ ve + (1 - 1) = ve /\ ve + (2 - 1) = ve + 1
    BY <2>1
  <2> QED
    BY <1>14, <2>1, <2>2
<1>16. j \notin Kept(a) => ByteAt(a, ve) = "LF"
  <2> SUFFICES ASSUME j \notin Kept(a) PROVE ByteAt(a, ve) = "LF"
    OBVIOUS
  <2>1. Len(h.end) = 1 /\ h.end[1] = "LF"
    BY <1>1, HeaderEnd
  <2>2. 1 \in 1..Len(h.end) /\ ve + (1 - 1) = ve
    BY <2>1
  <2> QED
    BY <1>14, <2>1, <2>2
<1>17. \A i \in (ColonAt(a, j) + 1)..(ValueAt(a, j) - 1) : ByteAt(a, i) = "SP"
  BY <1>2, <1>6, <1>13
<1>18. \A i \in KeyEnd(a, j)..(ColonAt(a, j) - 1) : ByteAt(a, i) = "SP"
  BY <1>2, <1>6, <1>11
<1>19. ByteAt(a, ColonAt(a, j)) = ":"
  BY <1>6, <1>12
<1> QED
  BY <1>2, <1>8, <1>9, <1>15, <1>16, <1>17, <1>18, <1>19 DEF HeaderBytes

\* What is saved of a header are pointers into the ring.
LEMMA PlacesTyped ==
  ASSUME NEW a \in RequestType, NEW n \in 1..Len(a.headers)
  PROVE  Places(a, n) \in PlacesType
<1>1. PICK s, ke, va, ve \in Nat :
        s = HeaderAt(a, n) /\ ke = KeyEnd(a, n) /\ va = ValueAt(a, n) /\ ve = ValueEndAt(a, n)
  BY HeaderParts
<1>2. Place(s) \in Places0 /\ Place(ke) \in Places0 /\ Place(va) \in Places0 /\ Place(ve) \in Places0
  <2>1. \A x \in Nat : Place(x) \in Places0
    BY PlaceInRing DEF Places0
  <2> QED
    BY <2>1
<1> QED
  BY <1>1, <1>2 DEF Places, PlacesType, KeyEnd, ValueEndAt

\* The recursive function of SavedUpTo exists.
LEMMA SavedUpToIs ==
  ASSUME NEW a \in RequestType
  PROVE  /\ SavedUpTo(a, 0) = <<>>
         /\ \A j \in 1..Len(a.headers) :
              SavedUpTo(a, j) = IF j \in Kept(a) THEN <<Places(a, j)>> \o SavedUpTo(a, j - 1)
                                                 ELSE SavedUpTo(a, j - 1)
<1> DEFINE m == Len(a.headers)
           T == Seq(PlacesType)
           E(n, x) == IF n \in Kept(a) THEN <<Places(a, n)>> \o x ELSE x
           G == [x \in (1..m) \X T |-> E(x[1], x[2])]
           Body(h) == [i \in 0..m |->
                         IF i = 0 THEN <<>>
                         ELSE IF i \in Kept(a) THEN <<Places(a, i)>> \o h[i - 1] ELSE h[i - 1]]
           upTo == CHOOSE h : h = Body(h)
<1>1. m \in Nat
  BY RequestTyped
<1>2. <<>> \in T
  OBVIOUS
<1>3. ASSUME NEW n \in 1..m PROVE Places(a, n) \in PlacesType
  BY PlacesTyped
<1>4. ASSUME NEW n \in 1..m, NEW x \in T
      PROVE  G[<<n, x>>] = E(n, x) /\ G[<<n, x>>] \in T
  <2>1. G[<<n, x>>] = E(n, x)
    OBVIOUS
  <2>2. PICK h \in PlacesType : h = Places(a, n)
    BY <1>3
  <2>3. <<h>> \o x \in T
    OBVIOUS
  <2> QED
    BY <2>1, <2>2, <2>3
<1>5. StaysIn(T, m, G)
  <2> HIDE DEF G, T
  <2> QED
    BY <1>4 DEF StaysIn
<1>6. PICK f : Iterates(T, <<>>, m, G, f)
  <2> HIDE DEF m, T, G
  <2> QED
    BY <1>1, <1>2, <1>5, Iterated
<1>7. f = Body(f)
  <2> HIDE DEF G, T
  <2>1. ASSUME NEW n \in 0..m PROVE f[n] = Body(f)[n]
    <3>1. CASE n = 0
      BY <1>6, <3>1 DEF Iterates
    <3>2. CASE n # 0
      <4>1. n \in 1..m /\ n - 1 \in 0..m
        BY <1>1, <3>2
      <4>2. f[n] = G[<<n, f[n - 1]>>] /\ f[n - 1] \in T
        BY <1>6, <4>1 DEF Iterates
      <4> QED
        BY <1>4, <3>2, <4>1, <4>2
    <3> QED
      BY <3>1, <3>2
  <2>2. f = [n \in 0..m |-> f[n]]
    BY <1>6 DEF Iterates
  <2> HIDE DEF m
  <2> QED
    BY <2>1, <2>2
<1>8. upTo = Body(upTo)
  <2> HIDE DEF Body
  <2> QED
    BY <1>7
<1>9. \A n \in 0..m : SavedUpTo(a, n) = upTo[n]
  BY DEF SavedUpTo
<1> HIDE DEF upTo
<1>10. SavedUpTo(a, 0) = <<>>
  <2>1. 0 \in 0..m
    BY <1>1
  <2> QED
    BY <1>8, <1>9, <2>1
<1>11. ASSUME NEW n \in 1..m
       PROVE SavedUpTo(a, n) = IF n \in Kept(a) THEN <<Places(a, n)>> \o SavedUpTo(a, n - 1)
                                                ELSE SavedUpTo(a, n - 1)
  <2>1. n \in 0..m /\ n # 0 /\ n - 1 \in 0..m
    BY <1>1
  <2>2. upTo[n] = IF n \in Kept(a) THEN <<Places(a, n)>> \o upTo[n - 1] ELSE upTo[n - 1]
    BY <1>8, <2>1
  <2> QED
    BY <1>9, <2>1, <2>2
<1> QED
  BY <1>10, <1>11

-----------------------------------------------------------------------------
(* A header, byte by byte *)

\* The state of the parser of the headers inside header j.
HeaderState(a, j, s, i) ==
  \/ s = (IF j = 1 THEN "sw_start" ELSE "sw_crlf") /\ i = HeaderAt(a, j)
  \/ s = "sw_key" /\ HeaderAt(a, j) < i /\ i <= KeyEnd(a, j)
  \/ s = "sw_spaces_before_colon" /\ KeyEnd(a, j) < i /\ i <= ColonAt(a, j)
  \/ s = "sw_spaces_after_colon" /\ ColonAt(a, j) < i /\ i <= ValueAt(a, j)
  \/ s = "sw_value" /\ ValueAt(a, j) < i /\ i <= ValueEndAt(a, j)
  \/ s = "sw_cr" /\ j \in Kept(a) /\ i = ValueEndAt(a, j) + 1

\* What it has learnt of it.
HeaderLearnt(a, j, r, i) ==
  /\ i > HeaderAt(a, j) => r.key_start = Place(HeaderAt(a, j))
  /\ i > KeyEnd(a, j) => r.key_end = Place(KeyEnd(a, j))
  /\ i > ValueAt(a, j) => r.value_start = Place(ValueAt(a, j))
  /\ i > ValueEndAt(a, j) => r.value_end = Place(ValueEndAt(a, j))

\* The parser is inside header j, with those before it on the list.
InHeader(a, j, r, i) ==
  /\ HeaderAt(a, j) <= i /\ i < HeaderAt(a, j + 1)
  /\ HeaderState(a, j, r.state, i) /\ HeaderLearnt(a, j, r, i)
  /\ r.list = SavedUpTo(a, j - 1)

\* Header j has been parsed.
PastHeader(a, j, r, i) ==
  i = HeaderAt(a, j + 1) /\ r.state = "sw_crlf" /\ r.list = SavedUpTo(a, j)

\* q has what r has of the header.
SameHeader(r, q) ==
  /\ q.key_start = r.key_start /\ q.key_end = r.key_end
  /\ q.value_start = r.value_start /\ q.value_end = r.value_end
  /\ q.list = r.list

\* The order of the places, with a name for each.
LEMMA HeaderOrder ==
  ASSUME NEW a, NEW j, HeaderPlaces(a, j)
  PROVE  \E s, ke, c, v, ve, e \in Nat :
           /\ s = HeaderAt(a, j) /\ ke = KeyEnd(a, j) /\ c = ColonAt(a, j) /\ v = ValueAt(a, j)
           /\ ve = ValueEndAt(a, j) /\ e = HeaderAt(a, j + 1)
           /\ s < ke /\ ke <= c /\ c < v /\ v < ve
           /\ (j \in Kept(a) /\ e = ve + 2) \/ (j \notin Kept(a) /\ e = ve + 1)
  BY DEF HeaderPlaces

\* What the loop notes at byte p, going to state t.
KeyFrom(r, p, t) == [r EXCEPT !.key_start = p, !.state = t]
KeyTo(r, p, t) == [r EXCEPT !.key_end = p, !.state = t]
ValueFrom(r, p, t) == [r EXCEPT !.value_start = p, !.state = t]
ValueTo(r, p, t) == [r EXCEPT !.value_end = p, !.state = t]

\* Which part of the loop's switch is taken.
LEMMA KeyBegins ==
  ASSUME NEW r, NEW b, NEW i, NEW c, c = b[Place(i)], r.state \in {"sw_start", "sw_crlf"}, c \notin Ends
  PROVE  BodyByte(r, b, i) = KeyFrom(r, Place(i), "sw_key")
<1>1. c # "CR"
  BY DEF Ends
<1>2. CASE r.state = "sw_start"
  BY <1>2 DEF BodyByte, KeyFrom
<1>3. CASE r.state = "sw_crlf"
  BY <1>1, <1>3 DEF BodyByte, KeyFrom
<1> QED
  BY <1>2, <1>3

LEMMA KeyGoesOn ==
  ASSUME NEW r, NEW b, NEW i, NEW c, c = b[Place(i)], r.state = "sw_key", c # "SP", c # ":"
  PROVE  BodyByte(r, b, i) = r
  BY DEF BodyByte

LEMMA KeyEndsBlank ==
  ASSUME NEW r, NEW b, NEW i, NEW c, c = b[Place(i)], r.state = "sw_key", c = "SP"
  PROVE  BodyByte(r, b, i) = KeyTo(r, Place(i), "sw_spaces_before_colon")
  BY DEF BodyByte, KeyTo

LEMMA KeyEndsColon ==
  ASSUME NEW r, NEW b, NEW i, NEW c, c = b[Place(i)], r.state = "sw_key", c = ":"
  PROVE  BodyByte(r, b, i) = KeyTo(r, Place(i), "sw_spaces_after_colon")
  BY DEF BodyByte, KeyTo

LEMMA BlankBefore ==
  ASSUME NEW r, NEW b, NEW i, NEW c, c = b[Place(i)], r.state = "sw_spaces_before_colon", c = "SP"
  PROVE  BodyByte(r, b, i) = r
  BY DEF BodyByte

LEMMA ColonFound ==
  ASSUME NEW r, NEW b, NEW i, NEW c, c = b[Place(i)], r.state = "sw_spaces_before_colon", c = ":"
  PROVE  BodyByte(r, b, i) = Goto(r, "sw_spaces_after_colon")
  BY DEF BodyByte

LEMMA BlankAfter ==
  ASSUME NEW r, NEW b, NEW i, NEW c, c = b[Place(i)], r.state = "sw_spaces_after_colon", c = "SP"
  PROVE  BodyByte(r, b, i) = r
  BY DEF BodyByte

LEMMA ValueBegins ==
  ASSUME NEW r, NEW b, NEW i, NEW c, c = b[Place(i)], r.state = "sw_spaces_after_colon", c # "SP"
  PROVE  BodyByte(r, b, i) = ValueFrom(r, Place(i), "sw_value")
  BY DEF BodyByte, ValueFrom

LEMMA ValueGoesOn ==
  ASSUME NEW r, NEW b, NEW i, NEW c, c = b[Place(i)], r.state = "sw_value", c # "CR", c # "LF"
  PROVE  BodyByte(r, b, i) = r
  BY DEF BodyByte

LEMMA ValueEndsCr ==
  ASSUME NEW r, NEW b, NEW i, NEW c, c = b[Place(i)], r.state = "sw_value", c = "CR"
  PROVE  BodyByte(r, b, i) = ValueTo(r, Place(i), "sw_cr")
  BY DEF BodyByte, ValueTo

LEMMA ValueEndsLf ==
  ASSUME NEW r, NEW b, NEW i, NEW c, c = b[Place(i)], r.state = "sw_value", c = "LF"
  PROVE  BodyByte(r, b, i) = ValueTo(r, Place(i), "sw_crlf")
  BY DEF BodyByte, ValueTo

LEMMA HeaderKept ==
  ASSUME NEW r, NEW b, NEW i, NEW c, c = b[Place(i)], r.state = "sw_cr", c = "LF"
  PROVE  BodyByte(r, b, i) = Goto(Save(r), "sw_crlf")
  BY DEF BodyByte

LEMMA BlankLine ==
  ASSUME NEW r, NEW b, NEW i, NEW c, c = b[Place(i)], r.state = "sw_start", c \in Ends
  PROVE  BodyByte(r, b, i) = r
  BY DEF BodyByte

LEMMA LastCr ==
  ASSUME NEW r, NEW b, NEW i, NEW c, c = b[Place(i)], r.state = "sw_crlf", c = "CR"
  PROVE  BodyByte(r, b, i) = Goto(r, "sw_crlfcr")
  BY DEF BodyByte

LEMMA LastLf ==
  ASSUME NEW r, NEW b, NEW i, NEW c, c = b[Place(i)], r.state = "sw_crlfcr", c = "LF"
  PROVE  BodyByte(r, b, i) = Return(r, "SGX_OK")
  BY DEF BodyByte

\* The parser has come to a byte of header j, or through it.
HeaderReached(a, j, q, i) ==
  q.rc = "SGX_AGAIN" /\ (InHeader(a, j, q, i) \/ PastHeader(a, j, q, i))

\* Nothing more is learnt between the beginnings and ends of key and value.
LEMMA NothingNew ==
  ASSUME NEW a, NEW j, HeaderPlaces(a, j), NEW i \in Nat, NEW r, NEW q, HeaderLearnt(a, j, r, i),
         SameHeader(r, q), i \notin {HeaderAt(a, j), KeyEnd(a, j), ValueAt(a, j), ValueEndAt(a, j)}
  PROVE  HeaderLearnt(a, j, q, i + 1)
<1>1. ASSUME NEW x \in Nat, i # x, i + 1 > x PROVE i > x
  BY <1>1
<1>2. HeaderAt(a, j) \in Nat /\ KeyEnd(a, j) \in Nat /\ ValueAt(a, j) \in Nat /\ ValueEndAt(a, j) \in Nat
  BY DEF HeaderPlaces
<1>3. /\ i + 1 > HeaderAt(a, j) => i > HeaderAt(a, j)
      /\ i + 1 > KeyEnd(a, j) => i > KeyEnd(a, j)
      /\ i + 1 > ValueAt(a, j) => i > ValueAt(a, j)
      /\ i + 1 > ValueEndAt(a, j) => i > ValueEndAt(a, j)
  BY <1>1, <1>2
<1> HIDE <1>1, <1>2
<1> QED
  BY <1>3 DEF HeaderLearnt, SameHeader

\* The first byte of a header.
LEMMA AtKey ==
  ASSUME NEW a, NEW j, HeaderPlaces(a, j), HeaderBytes(a, j),
         NEW r \in FieldsType(BodyStates), NEW b, NEW i \in Nat,
         b[Place(i)] = ByteAt(a, i), r.rc = "SGX_AGAIN", HeaderLearnt(a, j, r, i),
         r.list = SavedUpTo(a, j - 1),
         r.state = (IF j = 1 THEN "sw_start" ELSE "sw_crlf"), i = HeaderAt(a, j)
  PROVE  HeaderReached(a, j, BodyByte(r, b, i), i + 1)
<1>1. PICK s, ke, c, v, ve, e \in Nat :
        /\ s = HeaderAt(a, j) /\ ke = KeyEnd(a, j) /\ c = ColonAt(a, j) /\ v = ValueAt(a, j)
        /\ ve = ValueEndAt(a, j) /\ e = HeaderAt(a, j + 1)
        /\ s < ke /\ ke <= c /\ c < v /\ v < ve
        /\ (j \in Kept(a) /\ e = ve + 2) \/ (j \notin Kept(a) /\ e = ve + 1)
  BY HeaderOrder
<1>2. s < ke /\ ke <= c /\ c < v /\ v < ve /\ (e = ve + 2 \/ e = ve + 1)
  BY <1>1
<1>3. PICK x : x = ByteAt(a, i)
  OBVIOUS
<1>4. x = b[Place(i)]
  BY <1>3
<1>5. x \notin {"CR", "LF"}
  <2>1. i \in HeaderAt(a, j)..(KeyEnd(a, j) - 1)
    <3>1. i = s /\ s \in s..(ke - 1)
      BY <1>2, <1>1
    <3> QED
      BY <1>1, <3>1
  <2>2. x \in Letters
    BY <1>3, <2>1 DEF HeaderBytes
  <2> QED
    BY <2>2 DEF Letters
<1>6. PICK q : q = KeyFrom(r, Place(i), "sw_key")
  OBVIOUS
<1>7. BodyByte(r, b, i) = q
  <2>1. r.state \in {"sw_start", "sw_crlf"}
    OBVIOUS
  <2>2. x \notin Ends
    BY <1>5 DEF Ends
  <2>3. BodyByte(r, b, i) = KeyFrom(r, Place(i), "sw_key")
    BY <1>4, <2>1, <2>2, KeyBegins
  <2> QED
    BY <1>6, <2>3
<1>8. q.rc = "SGX_AGAIN" /\ q.state = "sw_key" /\ q.key_start = Place(i) /\ q.list = r.list
  BY <1>6 DEF FieldsType, KeyFrom, KeyTo, ValueFrom, ValueTo
<1>9. i = s /\ s < i + 1 /\ i + 1 <= ke /\ i + 1 < e /\ s <= i + 1 /\ ~ (i + 1 > ke) /\ ~ (i + 1 > v)
      /\ ~ (i + 1 > ve)
  BY <1>2, <1>1
<1>10. HeaderState(a, j, q.state, i + 1)
  BY <1>1, <1>8, <1>9 DEF HeaderState
<1>11. HeaderLearnt(a, j, q, i + 1)
  BY <1>1, <1>8, <1>9 DEF HeaderLearnt
<1>12. InHeader(a, j, q, i + 1)
  BY <1>1, <1>8, <1>9, <1>10, <1>11 DEF InHeader
<1> QED
  BY <1>7, <1>8, <1>12 DEF HeaderReached

\* A turn that learns nothing.
LEMMA HeaderStays ==
  ASSUME NEW a, NEW j, HeaderPlaces(a, j), NEW r, NEW i \in Nat, HeaderLearnt(a, j, r, i),
         NEW q, SameHeader(r, q), q.rc = "SGX_AGAIN", r.list = SavedUpTo(a, j - 1),
         HeaderAt(a, j) < i, i + 1 < HeaderAt(a, j + 1),
         i # KeyEnd(a, j), i # ValueAt(a, j), i # ValueEndAt(a, j), HeaderState(a, j, q.state, i + 1)
  PROVE  HeaderReached(a, j, q, i + 1)
<1>1. PICK s \in Nat : s = HeaderAt(a, j)
  BY DEF HeaderPlaces
<1>2. i # s /\ s <= i + 1
  BY <1>1
<1>3. i \notin {HeaderAt(a, j), KeyEnd(a, j), ValueAt(a, j), ValueEndAt(a, j)}
  BY <1>1, <1>2
<1>4. HeaderLearnt(a, j, q, i + 1)
  BY <1>3, NothingNew
<1>5. InHeader(a, j, q, i + 1)
  BY <1>1, <1>2, <1>4 DEF InHeader, SameHeader
<1> QED
  BY <1>5 DEF HeaderReached

\* A byte of the key, or the one behind it.
LEMMA InKey ==
  ASSUME NEW a, NEW j, HeaderPlaces(a, j), HeaderBytes(a, j),
         NEW r \in FieldsType(BodyStates), NEW b, NEW i \in Nat,
         b[Place(i)] = ByteAt(a, i), r.rc = "SGX_AGAIN", HeaderLearnt(a, j, r, i),
         r.list = SavedUpTo(a, j - 1),
         r.state = "sw_key", HeaderAt(a, j) < i, i <= KeyEnd(a, j)
  PROVE  HeaderReached(a, j, BodyByte(r, b, i), i + 1)
<1>1. PICK s, ke, c, v, ve, e \in Nat :
        /\ s = HeaderAt(a, j) /\ ke = KeyEnd(a, j) /\ c = ColonAt(a, j) /\ v = ValueAt(a, j)
        /\ ve = ValueEndAt(a, j) /\ e = HeaderAt(a, j + 1)
        /\ s < ke /\ ke <= c /\ c < v /\ v < ve
        /\ (j \in Kept(a) /\ e = ve + 2) \/ (j \notin Kept(a) /\ e = ve + 1)
  BY HeaderOrder
<1>2. s < ke /\ ke <= c /\ c < v /\ v < ve /\ (e = ve + 2 \/ e = ve + 1)
  BY <1>1
<1>3. PICK x : x = ByteAt(a, i)
  OBVIOUS
<1>4. x = b[Place(i)]
  BY <1>3
<1>5. s < i /\ i <= ke
  BY <1>1
<1>6. SameHeader(r, r)
  BY DEF SameHeader
<1>7. CASE i < ke
  <2>1. x \in Letters
    <3>1. i \in HeaderAt(a, j)..(KeyEnd(a, j) - 1)
      BY <1>1, <1>5, <1>7
    <3> QED
      BY <1>3, <3>1 DEF HeaderBytes
  <2>2. x # "SP" /\ x # ":"
    BY <2>1 DEF Letters
  <2>3. BodyByte(r, b, i) = r
    BY <1>4, <2>2, KeyGoesOn
  <2>4. s < i + 1 /\ i + 1 <= ke /\ i + 1 < e /\ i # ke /\ i # v /\ i # ve
    BY <1>2, <1>5, <1>7
  <2>5. HeaderState(a, j, r.state, i + 1)
    BY <1>1, <2>4 DEF HeaderState
  <2> QED
    BY <1>1, <1>5, <1>6, <2>3, <2>4, <2>5, HeaderStays
<1>8. CASE i = ke
  <2>1. PICK t :
          /\ BodyByte(r, b, i) = KeyTo(r, Place(i), t)
          /\ HeaderState(a, j, t, i + 1)
    <3>1. CASE i < c
      <4>1. x = "SP"
        <5>1. i \in KeyEnd(a, j)..(ColonAt(a, j) - 1)
          BY <1>1, <1>8, <3>1
        <5> QED
          BY <1>3, <5>1 DEF HeaderBytes
      <4>2. BodyByte(r, b, i) = KeyTo(r, Place(i), "sw_spaces_before_colon")
        BY <1>4, <4>1, KeyEndsBlank
      <4>3. ke < i + 1 /\ i + 1 <= c
        BY <1>8, <3>1
      <4>4. HeaderState(a, j, "sw_spaces_before_colon", i + 1)
        BY <1>1, <4>3 DEF HeaderState
      <4> QED
        BY <4>2, <4>4
    <3>2. CASE i = c
      <4>1. x = ":"
        BY <1>1, <1>3, <3>2 DEF HeaderBytes
      <4>2. BodyByte(r, b, i) = KeyTo(r, Place(i), "sw_spaces_after_colon")
        BY <1>4, <4>1, KeyEndsColon
      <4>3. c < i + 1 /\ i + 1 <= v
        BY <1>2, <3>2
      <4>4. HeaderState(a, j, "sw_spaces_after_colon", i + 1)
        BY <1>1, <4>3 DEF HeaderState
      <4> QED
        BY <4>2, <4>4
    <3>3. i < c \/ i = c
      BY <1>2, <1>8
    <3> QED
      BY <3>1, <3>2, <3>3
  <2>2. PICK q : q = KeyTo(r, Place(i), t)
    OBVIOUS
  <2>3. /\ q.rc = "SGX_AGAIN" /\ q.state = t /\ q.key_start = r.key_start /\ q.key_end = Place(i)
        /\ q.list = r.list
    BY <2>2 DEF FieldsType, KeyFrom, KeyTo, ValueFrom, ValueTo
  <2>4. s <= i + 1 /\ i + 1 < e /\ ~ (i + 1 > v) /\ ~ (i + 1 > ve)
    BY <1>2, <1>8
  <2>5. HeaderLearnt(a, j, q, i + 1)
    <3>1. q.key_start = Place(s)
      BY <1>1, <2>3 DEF HeaderLearnt
    <3> QED
      BY <1>1, <1>8, <2>3, <2>4, <3>1 DEF HeaderLearnt
  <2>6. InHeader(a, j, q, i + 1)
    BY <1>1, <2>1, <2>3, <2>4, <2>5 DEF InHeader
  <2> QED
    BY <2>1, <2>2, <2>3, <2>6 DEF HeaderReached
<1> QED
  BY <1>5, <1>7, <1>8

\* A blank before the colon, or the colon.
LEMMA BeforeColon ==
  ASSUME NEW a, NEW j, HeaderPlaces(a, j), HeaderBytes(a, j),
         NEW r \in FieldsType(BodyStates), NEW b, NEW i \in Nat,
         b[Place(i)] = ByteAt(a, i), r.rc = "SGX_AGAIN", HeaderLearnt(a, j, r, i),
         r.list = SavedUpTo(a, j - 1),
         r.state = "sw_spaces_before_colon", KeyEnd(a, j) < i, i <= ColonAt(a, j)
  PROVE  HeaderReached(a, j, BodyByte(r, b, i), i + 1)
<1>1. PICK s, ke, c, v, ve, e \in Nat :
        /\ s = HeaderAt(a, j) /\ ke = KeyEnd(a, j) /\ c = ColonAt(a, j) /\ v = ValueAt(a, j)
        /\ ve = ValueEndAt(a, j) /\ e = HeaderAt(a, j + 1)
        /\ s < ke /\ ke <= c /\ c < v /\ v < ve
        /\ (j \in Kept(a) /\ e = ve + 2) \/ (j \notin Kept(a) /\ e = ve + 1)
  BY HeaderOrder
<1>2. s < ke /\ ke <= c /\ c < v /\ v < ve /\ (e = ve + 2 \/ e = ve + 1)
  BY <1>1
<1>3. PICK x : x = ByteAt(a, i)
  OBVIOUS
<1>4. x = b[Place(i)]
  BY <1>3
<1>5. ke < i /\ i <= c
  BY <1>1
<1>6. s < i /\ i + 1 < e /\ i # ke /\ i # v /\ i # ve
  BY <1>2, <1>5
<1>7. CASE i < c
  <2>1. x = "SP"
    <3>1. i \in KeyEnd(a, j)..(ColonAt(a, j) - 1)
      BY <1>1, <1>5, <1>7
    <3> QED
      BY <1>3, <3>1 DEF HeaderBytes
  <2>2. BodyByte(r, b, i) = r
    BY <1>4, <2>1, BlankBefore
  <2>3. ke < i + 1 /\ i + 1 <= c
    BY <1>5, <1>7
  <2>4. HeaderState(a, j, r.state, i + 1)
    BY <1>1, <2>3 DEF HeaderState
  <2>5. SameHeader(r, r)
    BY DEF SameHeader
  <2> QED
    BY <1>1, <1>6, <2>2, <2>4, <2>5, HeaderStays
<1>8. CASE i = c
  <2>1. x = ":"
    BY <1>1, <1>3, <1>8 DEF HeaderBytes
  <2>2. PICK q : q = Goto(r, "sw_spaces_after_colon")
    OBVIOUS
  <2>3. BodyByte(r, b, i) = q
    BY <1>4, <2>1, <2>2, ColonFound
  <2>4. q.rc = "SGX_AGAIN" /\ q.state = "sw_spaces_after_colon" /\ SameHeader(r, q)
    BY <2>2 DEF FieldsType, KeyFrom, KeyTo, ValueFrom, ValueTo, Goto, SameHeader
  <2>5. c < i + 1 /\ i + 1 <= v
    BY <1>2, <1>8
  <2>6. HeaderState(a, j, q.state, i + 1)
    BY <1>1, <2>4, <2>5 DEF HeaderState
  <2> QED
    BY <1>1, <1>6, <2>3, <2>4, <2>6, HeaderStays
<1> QED
  BY <1>5, <1>7, <1>8

\* A blank behind the colon, or the first byte of the value.
LEMMA AfterColon ==
  ASSUME NEW a, NEW j, HeaderPlaces(a, j), HeaderBytes(a, j),
         NEW r \in FieldsType(BodyStates), NEW b, NEW i \in Nat,
         b[Place(i)] = ByteAt(a, i), r.rc = "SGX_AGAIN", HeaderLearnt(a, j, r, i),
         r.list = SavedUpTo(a, j - 1),
         r.state = "sw_spaces_after_colon", ColonAt(a, j) < i, i <= ValueAt(a, j)
  PROVE  HeaderReached(a, j, BodyByte(r, b, i), i + 1)
<1>1. PICK s, ke, c, v, ve, e \in Nat :
        /\ s = HeaderAt(a, j) /\ ke = KeyEnd(a, j) /\ c = ColonAt(a, j) /\ v = ValueAt(a, j)
        /\ ve = ValueEndAt(a, j) /\ e = HeaderAt(a, j + 1)
        /\ s < ke /\ ke <= c /\ c < v /\ v < ve
        /\ (j \in Kept(a) /\ e = ve + 2) \/ (j \notin Kept(a) /\ e = ve + 1)
  BY HeaderOrder
<1>2. s < ke /\ ke <= c /\ c < v /\ v < ve /\ (e = ve + 2 \/ e = ve + 1)
  BY <1>1
<1>3. PICK x : x = ByteAt(a, i)
  OBVIOUS
<1>4. x = b[Place(i)]
  BY <1>3
<1>5. c < i /\ i <= v
  BY <1>1
<1>6. s < i /\ ke < i /\ i + 1 < e /\ i # ke /\ i # ve /\ s <= i + 1 /\ ~ (i + 1 > ve)
  BY <1>2, <1>5
<1>7. CASE i < v
  <2>1. x = "SP"
    <3>1. i \in (ColonAt(a, j) + 1)..(ValueAt(a, j) - 1)
      BY <1>1, <1>5, <1>7
    <3> QED
      BY <1>3, <3>1 DEF HeaderBytes
  <2>2. BodyByte(r, b, i) = r
    BY <1>4, <2>1, BlankAfter
  <2>3. c < i + 1 /\ i + 1 <= v /\ i # v
    BY <1>5, <1>7
  <2>4. HeaderState(a, j, r.state, i + 1)
    BY <1>1, <2>3 DEF HeaderState
  <2>5. SameHeader(r, r)
    BY DEF SameHeader
  <2> QED
    BY <1>1, <1>6, <2>2, <2>3, <2>4, <2>5, HeaderStays
<1>8. CASE i = v
  <2>1. x # "SP"
    <3>1. i \in ValueAt(a, j)..(ValueEndAt(a, j) - 1)
      <4>1. i \in v..(ve - 1)
        BY <1>2, <1>8
      <4> QED
        BY <1>1, <4>1
    <3>2. x \in Letters
      BY <1>3, <3>1 DEF HeaderBytes
    <3> QED
      BY <3>2 DEF Letters
  <2>2. PICK q : q = ValueFrom(r, Place(i), "sw_value")
    OBVIOUS
  <2>3. BodyByte(r, b, i) = q
    BY <1>4, <2>1, <2>2, ValueBegins
  <2>4. /\ q.rc = "SGX_AGAIN" /\ q.state = "sw_value" /\ q.key_start = r.key_start
        /\ q.key_end = r.key_end /\ q.value_start = Place(i) /\ q.list = r.list
    BY <2>2 DEF FieldsType, KeyFrom, KeyTo, ValueFrom, ValueTo
  <2>5. v < i + 1 /\ i + 1 <= ve
    BY <1>2, <1>8
  <2>6. HeaderState(a, j, q.state, i + 1)
    BY <1>1, <2>4, <2>5 DEF HeaderState
  <2>7. HeaderLearnt(a, j, q, i + 1)
    <3>1. q.key_start = Place(s) /\ q.key_end = Place(ke)
      BY <1>1, <1>6, <2>4 DEF HeaderLearnt
    <3> QED
      BY <1>1, <1>6, <1>8, <2>4, <3>1 DEF HeaderLearnt
  <2>8. InHeader(a, j, q, i + 1)
    BY <1>1, <1>6, <2>4, <2>6, <2>7 DEF InHeader
  <2> QED
    BY <2>3, <2>4, <2>8 DEF HeaderReached
<1> QED
  BY <1>5, <1>7, <1>8

\* A byte of the value, or the one behind it.
LEMMA InValue ==
  ASSUME NEW a, NEW j, HeaderPlaces(a, j), HeaderBytes(a, j),
         SavedUpTo(a, j) = IF j \in Kept(a) THEN <<Places(a, j)>> \o SavedUpTo(a, j - 1)
                                            ELSE SavedUpTo(a, j - 1),
         NEW r \in FieldsType(BodyStates), NEW b, NEW i \in Nat,
         b[Place(i)] = ByteAt(a, i), r.rc = "SGX_AGAIN", HeaderLearnt(a, j, r, i),
         r.list = SavedUpTo(a, j - 1),
         r.state = "sw_value", ValueAt(a, j) < i, i <= ValueEndAt(a, j)
  PROVE  HeaderReached(a, j, BodyByte(r, b, i), i + 1)
<1>1. PICK s, ke, c, v, ve, e \in Nat :
        /\ s = HeaderAt(a, j) /\ ke = KeyEnd(a, j) /\ c = ColonAt(a, j) /\ v = ValueAt(a, j)
        /\ ve = ValueEndAt(a, j) /\ e = HeaderAt(a, j + 1)
        /\ s < ke /\ ke <= c /\ c < v /\ v < ve
        /\ (j \in Kept(a) /\ e = ve + 2) \/ (j \notin Kept(a) /\ e = ve + 1)
  BY HeaderOrder
<1>2. s < ke /\ ke <= c /\ c < v /\ v < ve /\ (e = ve + 2 \/ e = ve + 1)
  BY <1>1
<1>3. PICK x : x = ByteAt(a, i)
  OBVIOUS
<1>4. x = b[Place(i)]
  BY <1>3
<1>5. v < i /\ i <= ve
  BY <1>1
<1>6. s < i /\ ke < i /\ i # ke /\ i # v /\ s <= i + 1
  BY <1>2, <1>5
<1>7. CASE i < ve
  <2>1. x \in Letters
    <3>1. i \in ValueAt(a, j)..(ValueEndAt(a, j) - 1)
      BY <1>1, <1>5, <1>7
    <3> QED
      BY <1>3, <3>1 DEF HeaderBytes
  <2>2. x # "CR" /\ x # "LF"
    BY <2>1 DEF Letters
  <2>3. BodyByte(r, b, i) = r
    BY <1>4, <2>2, ValueGoesOn
  <2>4. v < i + 1 /\ i + 1 <= ve /\ i + 1 < e /\ i # ve
    BY <1>2, <1>5, <1>7
  <2>5. HeaderState(a, j, r.state, i + 1)
    BY <1>1, <2>4 DEF HeaderState
  <2>6. SameHeader(r, r)
    BY DEF SameHeader
  <2> QED
    BY <1>1, <1>6, <2>3, <2>4, <2>5, <2>6, HeaderStays
<1>8. CASE i = ve /\ j \in Kept(a)
  <2>1. x = "CR"
    BY <1>1, <1>3, <1>8 DEF HeaderBytes
  <2>2. PICK q : q = ValueTo(r, Place(i), "sw_cr")
    OBVIOUS
  <2>3. BodyByte(r, b, i) = q
    BY <1>4, <2>1, <2>2, ValueEndsCr
  <2>4. /\ q.rc = "SGX_AGAIN" /\ q.state = "sw_cr" /\ q.key_start = r.key_start
        /\ q.key_end = r.key_end /\ q.value_start = r.value_start /\ q.value_end = Place(i)
        /\ q.list = r.list
    BY <2>2 DEF FieldsType, KeyFrom, KeyTo, ValueFrom, ValueTo
  <2>5. e = ve + 2
    BY <1>1, <1>8
  <2>6. i + 1 = ve + 1 /\ i + 1 < e
    BY <1>8, <2>5
  <2>7. HeaderState(a, j, q.state, i + 1)
    BY <1>1, <1>8, <2>4, <2>6 DEF HeaderState
  <2>8. HeaderLearnt(a, j, q, i + 1)
    <3>1. q.key_start = Place(s) /\ q.key_end = Place(ke) /\ q.value_start = Place(v)
      BY <1>1, <1>5, <1>6, <2>4 DEF HeaderLearnt
    <3> QED
      BY <1>1, <1>8, <2>4, <3>1 DEF HeaderLearnt
  <2>9. InHeader(a, j, q, i + 1)
    BY <1>1, <1>6, <2>4, <2>6, <2>7, <2>8 DEF InHeader
  <2> QED
    BY <2>3, <2>4, <2>9 DEF HeaderReached
<1>9. CASE i = ve /\ j \notin Kept(a)
  <2>1. x = "LF"
    BY <1>1, <1>3, <1>9 DEF HeaderBytes
  <2>2. PICK q : q = ValueTo(r, Place(i), "sw_crlf")
    OBVIOUS
  <2>3. BodyByte(r, b, i) = q
    BY <1>4, <2>1, <2>2, ValueEndsLf
  <2>4. q.rc = "SGX_AGAIN" /\ q.state = "sw_crlf" /\ q.list = r.list
    BY <2>2 DEF FieldsType, KeyFrom, KeyTo, ValueFrom, ValueTo
  <2>5. i + 1 = HeaderAt(a, j + 1)
    BY <1>1, <1>9
  <2>6. PastHeader(a, j, q, i + 1)
    BY <1>9, <2>4, <2>5 DEF PastHeader
  <2> QED
    BY <2>3, <2>4, <2>6 DEF HeaderReached
<1> QED
  BY <1>5, <1>7, <1>8, <1>9

\* The LF behind the CR of a header, which is saved.
LEMMA AtCr ==
  ASSUME NEW a, NEW j, HeaderPlaces(a, j), HeaderBytes(a, j),
         SavedUpTo(a, j) = IF j \in Kept(a) THEN <<Places(a, j)>> \o SavedUpTo(a, j - 1)
                                            ELSE SavedUpTo(a, j - 1),
         NEW r \in FieldsType(BodyStates), NEW b, NEW i \in Nat,
         b[Place(i)] = ByteAt(a, i), r.rc = "SGX_AGAIN", HeaderLearnt(a, j, r, i),
         r.list = SavedUpTo(a, j - 1),
         r.state = "sw_cr", j \in Kept(a), i = ValueEndAt(a, j) + 1
  PROVE  HeaderReached(a, j, BodyByte(r, b, i), i + 1)
<1>1. PICK s, ke, c, v, ve, e \in Nat :
        /\ s = HeaderAt(a, j) /\ ke = KeyEnd(a, j) /\ c = ColonAt(a, j) /\ v = ValueAt(a, j)
        /\ ve = ValueEndAt(a, j) /\ e = HeaderAt(a, j + 1)
        /\ s < ke /\ ke <= c /\ c < v /\ v < ve
        /\ (j \in Kept(a) /\ e = ve + 2) \/ (j \notin Kept(a) /\ e = ve + 1)
  BY HeaderOrder
<1>2. s < ke /\ ke <= c /\ c < v /\ v < ve /\ (e = ve + 2 \/ e = ve + 1)
  BY <1>1
<1>3. PICK x : x = ByteAt(a, i)
  OBVIOUS
<1>4. x = b[Place(i)]
  BY <1>3
<1>5. x = "LF"
  BY <1>3 DEF HeaderBytes
<1>6. BodyByte(r, b, i) = Goto(Save(r), "sw_crlf")
  BY <1>4, <1>5, HeaderKept
<1>7. PICK q : q = [r EXCEPT !.list = <<HeaderOf(r)>> \o r.list, !.state = "sw_crlf"]
  OBVIOUS
<1>8. Goto(Save(r), "sw_crlf") = q
  BY <1>7 DEF Goto, Save, FieldsType
<1>9. q.rc = "SGX_AGAIN" /\ q.state = "sw_crlf" /\ q.list = <<HeaderOf(r)>> \o r.list
  BY <1>7 DEF FieldsType, KeyFrom, KeyTo, ValueFrom, ValueTo
<1>10. HeaderOf(r) = Places(a, j)
  <2>1. i > s /\ i > ke /\ i > v /\ i > ve
    BY <1>2, <1>1
  <2>2. i > HeaderAt(a, j) /\ i > KeyEnd(a, j) /\ i > ValueAt(a, j) /\ i > ValueEndAt(a, j)
    BY <1>1, <2>1
  <2>3. r.key_start = Place(HeaderAt(a, j)) /\ r.key_end = Place(KeyEnd(a, j))
        /\ r.value_start = Place(ValueAt(a, j)) /\ r.value_end = Place(ValueEndAt(a, j))
    BY <2>2 DEF HeaderLearnt
  <2> QED
    BY <2>3 DEF HeaderOf, Places, KeyEnd, ValueEndAt
<1>11. i + 1 = HeaderAt(a, j + 1)
  <2>1. i = ve + 1 /\ e = ve + 2
    BY <1>1
  <2>2. i + 1 = e
    BY <2>1
  <2> QED
    BY <1>1, <2>2
<1>12. PastHeader(a, j, q, i + 1)
  BY <1>9, <1>10, <1>11 DEF PastHeader
<1> QED
  BY <1>6, <1>8, <1>9, <1>12 DEF HeaderReached

\* One byte of a header.
LEMMA HeaderStep ==
  ASSUME NEW a, NEW j, HeaderPlaces(a, j), HeaderBytes(a, j),
         SavedUpTo(a, j) = IF j \in Kept(a) THEN <<Places(a, j)>> \o SavedUpTo(a, j - 1)
                                            ELSE SavedUpTo(a, j - 1),
         NEW r \in FieldsType(BodyStates), NEW b, NEW i \in Nat,
         b[Place(i)] = ByteAt(a, i), r.rc = "SGX_AGAIN", InHeader(a, j, r, i)
  PROVE  HeaderReached(a, j, BodyByte(r, b, i), i + 1)
<1>1. HeaderState(a, j, r.state, i) /\ HeaderLearnt(a, j, r, i) /\ r.list = SavedUpTo(a, j - 1)
  BY DEF InHeader
<1>2. CASE r.state = (IF j = 1 THEN "sw_start" ELSE "sw_crlf") /\ i = HeaderAt(a, j)
  BY <1>1, <1>2, AtKey
<1>3. CASE r.state = "sw_key" /\ HeaderAt(a, j) < i /\ i <= KeyEnd(a, j)
  BY <1>1, <1>3, InKey
<1>4. CASE r.state = "sw_spaces_before_colon" /\ KeyEnd(a, j) < i /\ i <= ColonAt(a, j)
  BY <1>1, <1>4, BeforeColon
<1>5. CASE r.state = "sw_spaces_after_colon" /\ ColonAt(a, j) < i /\ i <= ValueAt(a, j)
  BY <1>1, <1>5, AfterColon
<1>6. CASE r.state = "sw_value" /\ ValueAt(a, j) < i /\ i <= ValueEndAt(a, j)
  BY <1>1, <1>6, InValue
<1>7. CASE r.state = "sw_cr" /\ j \in Kept(a) /\ i = ValueEndAt(a, j) + 1
  BY <1>1, <1>7, AtCr
<1> QED
  BY <1>1, <1>2, <1>3, <1>4, <1>5, <1>6, <1>7 DEF HeaderState

-----------------------------------------------------------------------------
(* The headers, byte by byte *)

\* Where the two bytes behind the last header are.
BodyEnd(a) == HeaderAt(a, Len(a.headers) + 1)

\* Where the parser of the headers is after i bytes of a well-formed request: in a
\* header, or behind the last one, with all that is to be saved on the list.
BodyAt(a, r, i) ==
  \/ \E j \in 1..Len(a.headers) : InHeader(a, j, r, i)
  \/ Len(a.headers) # 0 /\ r.state = "sw_crlf" /\ i = BodyEnd(a) /\ r.list = Saved(a)
  \/ Len(a.headers) # 0 /\ r.state = "sw_crlfcr" /\ i = BodyEnd(a) + 1 /\ r.list = Saved(a)
  \/ /\ Len(a.headers) = 0 /\ r.state = "sw_start" /\ r.list = Saved(a)
     /\ BodyEnd(a) <= i /\ i <= BodyEnd(a) + 2

\* What the loop can have come to after i bytes.
BodyReached(a, q, i) ==
  \/ q.rc = "SGX_AGAIN" /\ BodyAt(a, q, i)
  \/ q.rc = "SGX_OK" /\ i = Len(Text(a)) /\ q.list = Saved(a)

\* Every header is well formed.
HeadersWellFormed(a) == \A j \in 1..Len(a.headers) : WellFormedHeader(a.headers[j])

\* The last two bytes of a request.
LEMMA BodyEnds ==
  ASSUME NEW a \in RequestType
  PROVE  /\ BodyEnd(a) \in Nat /\ Len(Line(a)) <= BodyEnd(a)
         /\ Len(Text(a)) = BodyEnd(a) + 2
         /\ ByteAt(a, BodyEnd(a)) = "CR" /\ ByteAt(a, BodyEnd(a) + 1) = "LF"
<1>1. PICK m \in Nat : m = Len(a.headers)
  BY RequestTyped
<1>2. m + 1 \in 1..(m + 1)
  BY <1>1
<1>3. HeaderAt(a, m + 1) \in Nat /\ HeaderAt(a, m + 1) >= Len(Line(a))
  BY <1>1, <1>2, TextParts
<1>4. PICK e \in Nat : e = HeaderAt(a, m + 1)
  BY <1>3
<1>5. Has(Text(a), e, <<"CR", "LF">>) /\ Len(Text(a)) = e + 2
  BY <1>1, <1>4, TextParts
<1>6. PICK s \in Seq(ByteClasses) :
        s = <<"CR", "LF">> /\ Len(s) = 2 /\ s[1] = "CR" /\ s[2] = "LF"
  BY BytesInClass
<1>7. 1 \in 1..Len(s) /\ 2 \in 1..Len(s)
  BY <1>6
<1>8. Text(a)[e + 1] = "CR" /\ Text(a)[e + 2] = "LF"
  BY <1>5, <1>6, <1>7 DEF Has
<1>9. e + 1 + 1 = e + 2
  OBVIOUS
<1>10. Len(Line(a)) <= e
  <2>1. Line(a) \in Seq(ByteClasses)
    BY LineTyped
  <2>2. Len(Line(a)) \in Nat
    BY <2>1
  <2> QED
    BY <1>3, <1>4, <2>2
<1> QED
  BY <1>1, <1>4, <1>5, <1>8, <1>9, <1>10 DEF BodyEnd, ByteAt

\* Behind a header is the next, or the end.
LEMMA AfterHeader ==
  ASSUME NEW a \in RequestType, HeadersWellFormed(a), NEW j \in 1..Len(a.headers),
         NEW r, NEW i, PastHeader(a, j, r, i)
  PROVE  BodyAt(a, r, i)
<1>1. PICK m \in Nat : m = Len(a.headers)
  BY RequestTyped
<1>2. i = HeaderAt(a, j + 1) /\ r.state = "sw_crlf" /\ r.list = SavedUpTo(a, j)
  BY DEF PastHeader
<1>3. CASE j = m
  <2>1. m # 0
    BY <1>1, <1>3
  <2> QED
    BY <1>1, <1>2, <1>3, <2>1 DEF BodyAt, BodyEnd, Saved
<1>4. CASE j # m
  <2>1. PICK k \in 1..m : k = j + 1 /\ k # 1 /\ k - 1 = j
    BY <1>1, <1>4
  <2>2. HeaderPlaces(a, k)
    BY <1>1, HeaderPlaced DEF HeadersWellFormed
  <2>3. PICK s, ke, c, v, ve, e \in Nat :
          /\ s = HeaderAt(a, k) /\ ke = KeyEnd(a, k) /\ c = ColonAt(a, k) /\ v = ValueAt(a, k)
          /\ ve = ValueEndAt(a, k) /\ e = HeaderAt(a, k + 1)
          /\ s < ke /\ ke <= c /\ c < v /\ v < ve
          /\ (k \in Kept(a) /\ e = ve + 2) \/ (k \notin Kept(a) /\ e = ve + 1)
    BY <2>2, HeaderOrder
  <2>4. s < ke /\ ke <= c /\ c < v /\ v < ve /\ (e = ve + 2 \/ e = ve + 1)
    BY <2>3
  <2>5. i = s /\ s < e /\ s <= s /\ ~ (s > s) /\ ~ (s > ke) /\ ~ (s > v) /\ ~ (s > ve)
    <3>1. i = s
      BY <1>2, <2>1, <2>3
    <3>2. s < e /\ s <= s /\ ~ (s > s) /\ ~ (s > ke) /\ ~ (s > v) /\ ~ (s > ve)
      BY <2>4
    <3> QED
      BY <3>1, <3>2
  <2>6. HeaderState(a, k, r.state, i)
    BY <1>2, <2>1, <2>3, <2>5 DEF HeaderState
  <2>7. HeaderLearnt(a, k, r, i)
    BY <2>3, <2>5 DEF HeaderLearnt
  <2>8. r.list = SavedUpTo(a, k - 1)
    BY <1>2, <2>1
  <2>9. InHeader(a, k, r, i)
    BY <2>3, <2>5, <2>6, <2>7, <2>8 DEF InHeader
  <2> QED
    BY <1>1, <2>9 DEF BodyAt
<1> QED
  BY <1>3, <1>4

\* Where the parser of the request line leaves off.
LEMMA BodyBegins ==
  ASSUME NEW a \in RequestType, HeadersWellFormed(a),
         NEW r, NEW i, i = Len(Line(a)), r.state = "sw_start", r.list = <<>>
  PROVE  BodyAt(a, r, i)
<1>1. PICK m \in Nat : m = Len(a.headers)
  BY RequestTyped
<1>2. HeaderAt(a, 1) = i
  BY TextParts
<1>3. SavedUpTo(a, 0) = <<>>
  BY SavedUpToIs
<1>4. CASE m = 0
  <2>1. m + 1 = 1
    BY <1>4
  <2>2. BodyEnd(a) = i /\ BodyEnd(a) \in Nat
    BY <1>1, <1>2, <2>1, BodyEnds DEF BodyEnd
  <2>3. BodyEnd(a) <= i /\ i <= BodyEnd(a) + 2
    BY <2>2
  <2> QED
    BY <1>1, <1>3, <1>4, <2>3 DEF BodyAt, Saved
<1>5. CASE m # 0
  <2>1. 1 \in 1..m /\ 1 - 1 = 0
    BY <1>5
  <2>2. HeaderPlaces(a, 1)
    BY <1>1, <2>1, HeaderPlaced DEF HeadersWellFormed
  <2>3. PICK s, ke, c, v, ve, e \in Nat :
          /\ s = HeaderAt(a, 1) /\ ke = KeyEnd(a, 1) /\ c = ColonAt(a, 1) /\ v = ValueAt(a, 1)
          /\ ve = ValueEndAt(a, 1) /\ e = HeaderAt(a, 1 + 1)
          /\ s < ke /\ ke <= c /\ c < v /\ v < ve
          /\ (1 \in Kept(a) /\ e = ve + 2) \/ (1 \notin Kept(a) /\ e = ve + 1)
    BY <2>2, HeaderOrder
  <2>4. s < ke /\ ke <= c /\ c < v /\ v < ve /\ (e = ve + 2 \/ e = ve + 1)
    BY <2>3
  <2>5. i = s /\ s < e /\ s <= s /\ ~ (s > s) /\ ~ (s > ke) /\ ~ (s > v) /\ ~ (s > ve)
    BY <1>2, <2>3, <2>4
  <2>6. HeaderState(a, 1, r.state, i)
    BY <2>3, <2>5 DEF HeaderState
  <2>7. HeaderLearnt(a, 1, r, i)
    BY <2>3, <2>5 DEF HeaderLearnt
  <2>8. r.list = SavedUpTo(a, 1 - 1)
    BY <1>3, <2>1
  <2>9. InHeader(a, 1, r, i)
    BY <2>3, <2>5, <2>6, <2>7, <2>8 DEF InHeader
  <2> QED
    BY <1>1, <2>1, <2>9 DEF BodyAt
<1> QED
  BY <1>4, <1>5

\* One byte of the headers of a well-formed request.
LEMMA BodyStep ==
  ASSUME NEW a \in RequestType, HeadersWellFormed(a),
         NEW r \in FieldsType(BodyStates), NEW b, NEW i \in Nat, i < Len(Text(a)),
         b[Place(i)] = ByteAt(a, i), r.rc = "SGX_AGAIN", BodyAt(a, r, i)
  PROVE  BodyReached(a, BodyByte(r, b, i), i + 1)
<1>1. PICK q : q = BodyByte(r, b, i)
  OBVIOUS
<1>2. PICK e \in Nat : /\ e = BodyEnd(a) /\ Len(Text(a)) = e + 2
                       /\ ByteAt(a, e) = "CR" /\ ByteAt(a, e + 1) = "LF"
  BY BodyEnds
<1>3. PICK x : x = b[Place(i)] /\ x = ByteAt(a, i)
  OBVIOUS
<1>4. ASSUME NEW j \in 1..Len(a.headers), InHeader(a, j, r, i)
      PROVE  BodyReached(a, q, i + 1)
  <2>1. HeaderPlaces(a, j) /\ HeaderBytes(a, j)
    BY HeaderPlaced, HeaderBytesAre DEF HeadersWellFormed
  <2>2. SavedUpTo(a, j) = IF j \in Kept(a) THEN <<Places(a, j)>> \o SavedUpTo(a, j - 1)
                                           ELSE SavedUpTo(a, j - 1)
    BY SavedUpToIs
  <2>3. HeaderReached(a, j, q, i + 1)
    BY <1>1, <1>4, <2>1, <2>2, HeaderStep
  <2>4. CASE InHeader(a, j, q, i + 1)
    BY <2>3, <2>4 DEF HeaderReached, BodyReached, BodyAt
  <2>5. CASE PastHeader(a, j, q, i + 1)
    BY <2>3, <2>5, AfterHeader DEF HeaderReached, BodyReached
  <2> QED
    BY <2>3, <2>4, <2>5 DEF HeaderReached
<1>5. ASSUME Len(a.headers) # 0, r.state = "sw_crlf", i = e, r.list = Saved(a)
      PROVE  BodyReached(a, q, i + 1)
  <2>1. x = "CR"
    BY <1>2, <1>3, <1>5
  <2>2. q = Goto(r, "sw_crlfcr")
    BY <1>1, <1>3, <1>5, <2>1, LastCr
  <2>3. q.rc = "SGX_AGAIN" /\ q.state = "sw_crlfcr" /\ q.list = r.list
    BY <2>2 DEF Goto, FieldsType
  <2> QED
    BY <1>2, <1>5, <2>3 DEF BodyReached, BodyAt
<1>6. ASSUME Len(a.headers) # 0, r.state = "sw_crlfcr", i = e + 1, r.list = Saved(a)
      PROVE  BodyReached(a, q, i + 1)
  <2>1. x = "LF"
    BY <1>2, <1>3, <1>6
  <2>2. q = Return(r, "SGX_OK")
    BY <1>1, <1>3, <1>6, <2>1, LastLf
  <2>3. q.rc = "SGX_OK" /\ q.list = r.list
    BY <2>2 DEF Return, FieldsType
  <2>4. i + 1 = Len(Text(a))
    BY <1>2, <1>6
  <2> QED
    BY <1>6, <2>3, <2>4 DEF BodyReached
<1>7. ASSUME Len(a.headers) = 0, r.state = "sw_start", e <= i, i <= e + 2, r.list = Saved(a)
      PROVE  BodyReached(a, q, i + 1)
  <2>1. i = e \/ i = e + 1
    BY <1>2, <1>7
  <2>2. x \in Ends
    BY <1>2, <1>3, <2>1 DEF Ends
  <2>3. q = r
    BY <1>1, <1>3, <1>7, <2>2, BlankLine
  <2>4. e <= i + 1 /\ i + 1 <= e + 2
    BY <2>1
  <2> QED
    BY <1>2, <1>7, <2>3, <2>4 DEF BodyReached, BodyAt
<1> QED
  BY <1>1, <1>2, <1>4, <1>5, <1>6, <1>7 DEF BodyAt

\* What the parser of the headers leaves alone.
LineKept(r, q) == SameLearnt(r, q) /\ q.method = r.method

\* A turn of the loop of the headers leaves what the request line gave.
LEMMA BodyByteKeeps ==
  ASSUME NEW r \in FieldsType(BodyStates), NEW b, NEW i
  PROVE  LineKept(r, BodyByte(r, b, i))
<1> DEFINE p == Place(i)
<1>1. r.state \in BodyStates
  BY DEF FieldsType
<1>2. LineKept(r, r)
  BY DEF LineKept, SameLearnt
<1>3. \A s : LineKept(r, Goto(r, s)) /\ LineKept(r, Return(r, s))
  BY DEF LineKept, SameLearnt, Goto, Return, FieldsType
<1>4. \A s : /\ LineKept(r, [r EXCEPT !.key_start = p, !.state = s])
             /\ LineKept(r, [r EXCEPT !.key_end = p, !.state = s])
             /\ LineKept(r, [r EXCEPT !.value_start = p, !.state = s])
             /\ LineKept(r, [r EXCEPT !.value_end = p, !.state = s])
  BY DEF LineKept, SameLearnt, FieldsType
<1>5. LineKept(r, Goto(Save(r), "sw_crlf"))
  BY DEF LineKept, SameLearnt, Goto, Save, FieldsType
<1> HIDE DEF p
<1> QED
  BY <1>1, <1>2, <1>3, <1>4, <1>5 DEF BodyByte, BodyStates, p

\* What is stored in pos and rc is of no interest to it.
LEMMA BodyAtPos ==
  ASSUME NEW S, NEW r \in FieldsType(S), NEW a, NEW i, NEW q, BodyAt(a, r, i),
         \/ \E p : q = [r EXCEPT !.pos = p]
         \/ \E p, c : q = [r EXCEPT !.rc = c, !.pos = p]
  PROVE  BodyAt(a, q, i) /\ LineKept(r, q)
<1>1. /\ q.state = r.state /\ q.list = r.list
      /\ q.key_start = r.key_start /\ q.key_end = r.key_end
      /\ q.value_start = r.value_start /\ q.value_end = r.value_end
  BY DEF FieldsType
<1>2. LineKept(r, q)
  BY DEF FieldsType, LineKept, SameLearnt
<1>3. ASSUME NEW j, InHeader(a, j, r, i) PROVE InHeader(a, j, q, i)
  BY <1>1, <1>3 DEF InHeader, HeaderLearnt
<1> QED
  BY <1>1, <1>2, <1>3 DEF BodyAt

\* A call goes on to the end of what is there, or of the request.
LEMMA BodyOutcome ==
  ASSUME NEW a \in RequestType, HeadersWellFormed(a),
         NEW r \in FieldsType(BodyStates), NEW b, NEW from \in Nat, NEW to \in Nat, from <= to,
         to <= Len(Text(a)), Holds(b, a, to), to < from + SGX_MAX_BUF, BodyAt(a, r, from),
         NEW q, q = sgx_http_parse_request_body(r, b, from, to)
  PROVE  /\ LineKept(r, q)
         /\ \/ q.rc = "SGX_AGAIN" /\ q.pos = to /\ BodyAt(a, q, to)
            \/ q.rc = "SGX_OK" /\ q.pos = Len(Text(a)) /\ q.list = Saved(a)
<1>1. PICK f : /\ BodyLoop(r, b, from, to - from, f)
               /\ q = Stored(r, f[to - from], from)
  BY BodyCall
<1>2. PICK m \in Nat : m = to - from
  OBVIOUS
<1>3. /\ f \in [0..m -> FieldsType(BodyStates)]
      /\ f[0] = [r EXCEPT !.rc = "SGX_AGAIN", !.pos = from]
      /\ \A k \in 1..m : f[k] = BodyTurn(f[k - 1], b, from, k)
  BY <1>1, <1>2 DEF BodyLoop
<1> DEFINE Good == {k \in 0..m : /\ BodyReached(a, f[k], f[k].pos) /\ LineKept(r, f[k])
                                 /\ f[k].rc = "SGX_AGAIN" => f[k].pos = from + k}
<1>4. 0 \in Good
  <2>1. PICK g : g = f[0] /\ g = [r EXCEPT !.rc = "SGX_AGAIN", !.pos = from]
    BY <1>3
  <2>2. BodyAt(a, g, from) /\ LineKept(r, g)
    BY <2>1, BodyAtPos
  <2>3. g.rc = "SGX_AGAIN" /\ g.pos = from
    BY <2>1 DEF FieldsType
  <2>4. BodyReached(a, g, g.pos)
    BY <2>2, <2>3 DEF BodyReached
  <2>5. from = from + 0 /\ 0 \in 0..m
    OBVIOUS
  <2> QED
    BY <2>1, <2>2, <2>3, <2>4, <2>5
<1>5. ASSUME NEW k \in 1..m, k - 1 \in Good PROVE k \in Good
  <2>1. PICK g \in FieldsType(BodyStates) : g = f[k - 1]
    <3>1. k - 1 \in 0..m
      OBVIOUS
    <3> QED
      BY <1>3, <3>1
  <2>2. /\ f[k] = BodyTurn(g, b, from, k) /\ BodyReached(a, g, g.pos) /\ LineKept(r, g)
        /\ g.rc = "SGX_AGAIN" => g.pos = from + (k - 1)
    BY <1>3, <1>5, <2>1
  <2>3. CASE g.rc = "SGX_AGAIN"
    <3>1. PICK i \in Nat : i = from + (k - 1)
      OBVIOUS
    <3>2. i < to /\ i + 1 = from + k /\ from + k - 1 = i /\ i >= from
      BY <1>2, <3>1
    <3>3. b[Place(i)] = ByteAt(a, i)
      <4>1. i \in 0..(to - 1) /\ i + SGX_MAX_BUF >= to
        BY <3>2, BufferAssumption
      <4> QED
        BY <4>1 DEF Holds
    <3>4. i < Len(Text(a))
      <4>1. Len(Text(a)) \in Nat
        BY BodyEnds
      <4> QED
        BY <3>2, <4>1
    <3>5. BodyAt(a, g, i)
      BY <2>2, <2>3, <3>1 DEF BodyReached
    <3>6. PICK h \in FieldsType(BodyStates) : h = BodyByte(g, b, i)
      BY BodyByteTyped
    <3>7. BodyReached(a, h, i + 1)
      BY <2>3, <3>3, <3>4, <3>5, <3>6, BodyStep
    <3>8. LineKept(g, h)
      BY <3>6, BodyByteKeeps
    <3>9. PICK y \in FieldsType(BodyStates) : y = [h EXCEPT !.pos = i + 1] /\ y = f[k]
      <4>1. f[k] = [h EXCEPT !.pos = i + 1]
        BY <2>2, <2>3, <3>2, <3>6 DEF BodyTurn
      <4>2. k \in 0..m
        OBVIOUS
      <4> QED
        BY <1>3, <4>1, <4>2
    <3>10. y.pos = i + 1 /\ y.rc = h.rc /\ y.list = h.list
      BY <3>9 DEF FieldsType
    <3>11. BodyAt(a, h, i + 1) => BodyAt(a, y, i + 1)
      BY <3>9, BodyAtPos
    <3>12. LineKept(h, y)
      BY <3>9 DEF FieldsType, LineKept, SameLearnt
    <3>13. BodyReached(a, y, y.pos)
      BY <3>7, <3>10, <3>11 DEF BodyReached
    <3>14. LineKept(r, y)
      BY <2>2, <3>8, <3>12 DEF LineKept, SameLearnt
    <3>15. y.pos = from + k /\ k \in 0..m
      BY <3>2, <3>10
    <3> QED
      BY <3>9, <3>13, <3>14, <3>15
  <2>4. CASE g.rc # "SGX_AGAIN"
    BY <2>1, <2>2, <2>4 DEF BodyTurn
  <2> QED
    BY <2>3, <2>4
<1>6. m \in Good
  <2> HIDE DEF Good
  <2> QED
    BY <1>4, <1>5, Induct
<1>7. PICK g \in FieldsType(BodyStates) : g = f[m]
  BY <1>3
<1>8. BodyReached(a, g, g.pos) /\ LineKept(r, g) /\ (g.rc = "SGX_AGAIN" => g.pos = to)
  BY <1>2, <1>6, <1>7
<1>9. q = Stored(r, g, from)
  BY <1>1, <1>2, <1>7
<1>10. CASE g.rc = "SGX_AGAIN"
  <2>1. q = g
    BY <1>9, <1>10 DEF Stored
  <2> QED
    BY <1>8, <1>10, <2>1 DEF BodyReached
<1>11. CASE g.rc = "SGX_OK"
  <2>1. q = [g EXCEPT !.state = "sw_start"]
    BY <1>9, <1>11 DEF Stored
  <2>2. q.rc = g.rc /\ q.pos = g.pos /\ q.list = g.list /\ LineKept(g, q)
    BY <2>1 DEF FieldsType, LineKept, SameLearnt
  <2>3. LineKept(r, q)
    BY <1>8, <2>2 DEF LineKept, SameLearnt
  <2> QED
    BY <1>8, <1>11, <2>2, <2>3 DEF BodyReached
<1> QED
  BY <1>8, <1>10, <1>11 DEF BodyReached

-----------------------------------------------------------------------------
(* The connection *)

\* Every variable of the connection has its type.
ConnType ==
  /\ asked \in Requests
  /\ shifted \in BOOLEAN
  /\ phase \in {"line", "headers", "refused"} \cup Complete
  /\ phase = "line" => request \in FieldsType(LineStates)
  /\ phase = "headers" => request \in FieldsType(BodyStates)

\* What has been sent is the beginning of the request.
SentIsText ==
  /\ last <= Len(Text(asked))
  /\ \A k \in 1..last : sent[k] = Text(asked)[k]

\* How far the parsers are with a well-formed request.
Progress ==
  /\ phase = "line" => request.rc = "SGX_AGAIN" /\ LineGood(asked, request, pos, last, shifted)
  /\ phase \in {"headers", "done"} =>
       /\ LineLearnt(asked, request, Len(Line(asked)))
       /\ Recognised(asked, request, Len(Line(asked)), last)
  /\ phase = "headers" => BodyAt(asked, request, pos)
  /\ phase = "done" => request.list = Saved(asked) /\ pos = Len(Text(asked))
  /\ phase = "refused" =>
       shifted /\ BytesOf(asked.method) # {"_"} /\ pos < Len(Line(asked))

(***************************************************************************)
(* The invariant of the connection.  Progress says, of a well-formed       *)
(* request, for the number of bytes parsed which state the parser is in,   *)
(* which pointers it has stored and what is on the list; it is kept        *)
(* because the ring still has each unparsed byte (IInv), and that is the   *)
(* byte of the text (SentIsText).                                          *)
(***************************************************************************)
ConnInv == IInv /\ ConnType /\ SentIsText /\ (WellFormed(asked) => Progress)

\* A well-formed request has a well-formed line and well-formed headers.
LEMMA Wellformedness ==
  ASSUME NEW a \in RequestType, WellFormed(a)
  PROVE  WellFormedLine(a) /\ HeadersWellFormed(a)
<1>1. DOMAIN a.headers = 1..Len(a.headers)
  BY RequestTyped
<1> QED
  BY <1>1 DEF WellFormed, HeadersWellFormed

\* The text of a request is a sequence of bytes, not longer than the bound.
LEMMA TextFacts ==
  ASSUME NEW a \in Requests
  PROVE  /\ a \in RequestType /\ Text(a) \in Seq(Bytes)
         /\ Len(Text(a)) \in Nat /\ Len(Text(a)) <= MaxBytes
<1>1. a \in RequestType /\ Len(Text(a)) <= MaxBytes /\ ByteClasses \subseteq Bytes
  BY ConnAssumption
<1>2. Text(a) \in Seq(ByteClasses)
  BY <1>1, TextParts
<1>3. Text(a) \in Seq(Bytes) /\ Len(Text(a)) \in Nat
  BY <1>1, <1>2
<1> QED
  BY <1>1, <1>3

\* The parser of the request line is at the first byte.
LEMMA ConnInitInv == ConnInit => ConnInv
<1> SUFFICES ASSUME ConnInit PROVE ConnInv
  OBVIOUS
<1>1. IInv
  BY InitInv DEF ConnInit
<1>2. PICK method \in MethodsLeft, end \in RequestEnds : request = NewRequest(method, end)
  BY DEF ConnInit
<1>3. request \in FieldsType(LineStates)
  BY <1>2, NewTyped
<1>4. ConnType
  BY <1>3, ConnAssumption DEF ConnInit, ConnType
<1>5. last = 0 /\ pos = 0 /\ phase = "line" /\ asked \in Requests
  BY DEF ConnInit, Init
<1>6. SentIsText
  BY <1>5, TextFacts DEF SentIsText
<1>7. ASSUME WellFormed(asked) PROVE Progress
  <2>1. asked \in RequestType /\ WellFormedLine(asked)
    BY <1>5, <1>7, TextFacts, Wellformedness
  <2>2. LinePlaces(asked)
    BY <2>1, LinePlaced
  <2>3. PICK m, me, u, ue, j, je, n, ne, l \in Nat :
          LineAt(asked, m, me, u, ue, j, je, n, ne, l) /\ InOrder(m, me, u, ue, j, je, n, ne, l)
    BY <2>2, LineOrder
  <2>4. m < me /\ me < u /\ u < ue /\ j = ue + 6 /\ j < je /\ n = je + 1 /\ n < ne /\ ne < l
    BY <2>3 DEF InOrder
  <2>5. /\ m = MethodAt(asked) /\ me = MethodEnd(asked) /\ u = UriAt(asked) /\ ue = UriEnd(asked)
        /\ j = MajorAt(asked) /\ je = MajorEnd(asked) /\ n = MinorAt(asked) /\ ne = MinorEnd(asked)
        /\ l = Len(Line(asked))
    BY <2>3 DEF LineAt
  <2>6. /\ 0 <= m /\ 0 <= me /\ 0 < l
        /\ ~ (0 > m) /\ ~ (0 > me) /\ ~ (0 > u) /\ ~ (0 > ue) /\ ~ (0 > j) /\ ~ (0 > n)
    BY <2>4
  <2>7. /\ request.rc = "SGX_AGAIN" /\ request.state = "sw_start" /\ request.list = <<>>
        /\ request.method \in MethodsLeft
    BY <1>2 DEF NewRequest
  <2>8. LineLearnt(asked, request, 0)
    BY <2>4, <2>5, <2>6 DEF LineLearnt
  <2>9. LineState(asked, request.state, 0)
    BY <2>4, <2>5, <2>6, <2>7 DEF LineState
  <2>10. LineReached(asked, request, 0, shifted)
    BY <2>4, <2>5, <2>6, <2>7, <2>8, <2>9 DEF LineReached
  <2>11. Recognised(asked, request, 0, 0)
    BY <2>4, <2>5, <2>6, <2>7 DEF Recognised
  <2>12. LineGood(asked, request, 0, 0, shifted)
    BY <2>7, <2>10, <2>11 DEF LineGood
  <2> QED
    BY <1>5, <2>7, <2>12 DEF Progress
<1> QED
  BY <1>1, <1>4, <1>6, <1>7 DEF ConnInv

\* What a read returns are bytes.
LEMMA BytesRead ==
  ASSUME ConnType, last \in Nat, NEW n \in 1..(Len(Text(asked)) - last),
         NEW data, data = SubSeq(Text(asked), last + 1, last + n)
  PROVE  /\ n \in 1..(MaxBytes - last) /\ data \in [1..n -> Bytes]
         /\ \A k \in 1..n : data[k] = Text(asked)[last + k]
<1>1. asked \in Requests
  BY DEF ConnType
<1>2. PICK t \in Seq(Bytes) : t = Text(asked) /\ Len(t) \in Nat /\ Len(t) <= MaxBytes
  BY <1>1, TextFacts
<1>3. n \in Nat /\ last + n <= Len(t) /\ last + n <= MaxBytes
  BY <1>2, BufferAssumption
<1>4. n \in 1..(MaxBytes - last)
  BY <1>3, BufferAssumption
<1>5. data = SubSeq(t, last + 1, last + n)
  BY <1>2
<1>6. \A k \in (last + 1)..(last + n) : t[k] \in Bytes
  <2>1. \A k \in (last + 1)..(last + n) : k \in 1..Len(t)
    BY <1>2, <1>3
  <2> QED
    BY <2>1
<1>7. /\ data \in Seq(Bytes)
      /\ Len(data) = IF last + 1 <= last + n THEN last + n - (last + 1) + 1 ELSE 0
      /\ \A k \in 1..(last + n - (last + 1) + 1) : data[k] = t[last + 1 + k - 1]
  BY <1>3, <1>5, <1>6, SubSeqProperties
<1>8. Len(data) = n /\ last + n - (last + 1) + 1 = n
  BY <1>3, <1>7
<1>9. ASSUME NEW k \in 1..n PROVE data[k] = t[last + k]
  <2>1. k \in 1..(last + n - (last + 1) + 1) /\ last + 1 + k - 1 = last + k
    BY <1>8
  <2>2. data[k] = t[last + 1 + k - 1]
    BY <1>7, <2>1
  <2> QED
    BY <2>1, <2>2
<1>10. data \in [1..n -> Bytes]
  <2>1. PICK d \in Seq(Bytes) : d = data
    BY <1>7
  <2>2. d \in [1..Len(d) -> Bytes]
    OBVIOUS
  <2> QED
    BY <1>8, <2>1, <2>2
<1> QED
  BY <1>2, <1>4, <1>9, <1>10

\* Every step is one of the ring, or leaves it alone.
LEMMA ConnStep ==
  ASSUME IInv, ConnType, [ConnNext]_connVars
  PROVE  [Next]_vars
<1>1. pos \in Nat /\ last \in Nat /\ pos <= last
  BY DEF IInv, TypeOK, NoOverflow
<1>2. CASE Readable
  BY <1>2 DEF Readable, ReadStep, Next
<1>3. ASSUME NEW n \in 1..(Len(Text(asked)) - last), Receive(n)
      PROVE  Next
  <2>1. PICK data : data = SubSeq(Text(asked), last + 1, last + n)
    OBVIOUS
  <2>2. n \in 1..(MaxBytes - last) /\ data \in [1..n -> Bytes]
    BY <1>1, <2>1, BytesRead
  <2>3. Read(data)
    BY <1>3, <2>1 DEF Receive, ReadStep
  <2> QED
    BY <2>2, <2>3 DEF Next
<1>4. CASE Received
  BY <1>4 DEF Received, ReadStep, Next
<1>5. CASE ReadStops
  BY <1>5 DEF ReadStops, ReadStep, Next
<1>6. ASSUME NEW r, NEW next, r.pos \in pos..last, Parsed(r, next)
      PROVE  Next
  <2>1. PICK n \in 0..(last - pos) : r.pos = pos + n
    <3>1. r.pos - pos \in 0..(last - pos) /\ r.pos = pos + (r.pos - pos)
      BY <1>1, <1>6
    <3> QED
      BY <3>1
  <2>2. Parse(n)
    BY <1>6, <2>1 DEF Parsed, Parse
  <2> QED
    BY <2>2 DEF Next
<1>7. CASE ParseLine
  <2>1. PICK r : /\ r = sgx_http_parse_request_line(request, buf, pos, last, shifted)
                 /\ Parsed(r, "headers") /\ phase = "line"
    BY <1>7 DEF ParseLine
  <2>2. r.pos \in pos..last
    BY <1>1, <2>1, LineResult DEF ConnType
  <2> QED
    BY <1>6, <2>1, <2>2
<1>8. CASE ParseHeaders
  <2>1. PICK r : /\ r = sgx_http_parse_request_body(request, buf, pos, last)
                 /\ Parsed(r, "done") /\ phase = "headers"
    BY <1>8 DEF ParseHeaders
  <2>2. r.pos \in pos..last
    BY <1>1, <2>1, BodyResult DEF ConnType
  <2> QED
    BY <1>6, <2>1, <2>2
<1>9. CASE HandleHeader
  BY <1>9 DEF HandleHeader
<1>10. CASE UNCHANGED connVars
  BY <1>10 DEF connVars
<1> QED
  BY <1>2, <1>3, <1>4, <1>5, <1>7, <1>8, <1>9, <1>10 DEF ConnNext

\* The ring holds what the parsers should find.
LEMMA RingHolds ==
  ASSUME IInv, SentIsText
  PROVE  Holds(buf, asked, last)
<1> SUFFICES ASSUME NEW k \in 0..(last - 1), k + SGX_MAX_BUF >= last
             PROVE  buf[Place(k)] = ByteAt(asked, k)
  BY DEF Holds
<1>1. last \in Nat
  BY DEF IInv, TypeOK
<1>2. buf[Place(k)] = sent[k + 1]
  BY DEF IInv, WindowIntact
<1>3. k + 1 \in 1..last
  BY <1>1
<1>4. sent[k + 1] = Text(asked)[k + 1]
  BY <1>3 DEF SentIsText
<1> QED
  BY <1>2, <1>4 DEF ByteAt

\* What more bytes in the ring leave true.
LEMMA MoreIsRead ==
  ASSUME NEW a, MethodAt(a) \in Nat, NEW r, NEW i, NEW m \in Nat, NEW n \in Nat, m <= n,
         Recognised(a, r, i, m)
  PROVE  Recognised(a, r, i, n)
<1>1. n <= MethodAt(a) + SGX_MAX_BUF => m <= MethodAt(a) + SGX_MAX_BUF
  BY BufferAssumption
<1> QED
  BY <1>1 DEF Recognised

\* A read leaves the parsers where they are.
LEMMA ReadingGoesOn ==
  ASSUME asked \in RequestType, last \in Nat, last' \in Nat, last <= last', pos' = pos, phase' = phase,
         request' = request, asked' = asked, shifted' = shifted, Progress
  PROVE  Progress'
<1>1. MethodAt(asked) \in Nat
  BY RequestTyped DEF MethodAt
<1>2. \A i : Recognised(asked, request, i, last) => Recognised(asked, request, i, last')
  BY <1>1, MoreIsRead
<1>3. LineGood(asked, request, pos, last, shifted) => LineGood(asked, request, pos, last', shifted)
  BY <1>2 DEF LineGood
<1> QED
  BY <1>2, <1>3 DEF Progress

\* A call of the parser of the request line.
LEMMA LineProgress ==
  ASSUME IInv, ConnType, SentIsText, Progress, WellFormed(asked),
         NEW r, r = sgx_http_parse_request_line(request, buf, pos, last, shifted),
         phase = "line", Parsed(r, "headers")
  PROVE  Progress'
<1>1. /\ pos \in Nat /\ last \in Nat /\ pos <= last /\ last < pos + SGX_MAX_BUF
      /\ SGX_MAX_BUF \in Nat
  BY BufferAssumption DEF IInv, TypeOK, NoOverflow
<1>2. asked \in RequestType /\ WellFormedLine(asked) /\ HeadersWellFormed(asked)
  BY TextFacts, Wellformedness DEF ConnType
<1>3. /\ request \in FieldsType(LineStates) /\ shifted \in BOOLEAN
      /\ request.rc = "SGX_AGAIN" /\ LineGood(asked, request, pos, last, shifted)
  BY DEF ConnType, Progress
<1>4. Holds(buf, asked, last)
  BY RingHolds
<1>5. \/ r.rc = "SGX_AGAIN" /\ r.pos = last /\ LineGood(asked, r, last, last, shifted)
      \/ /\ r.rc = "SGX_OK" /\ r.pos = Len(Line(asked)) /\ LineLearnt(asked, r, r.pos)
         /\ Recognised(asked, r, r.pos, last) /\ r.list = <<>>
      \/ /\ r.rc = "SGX_HTTP_PARSE_INVALID_METHOD" /\ shifted /\ BytesOf(asked.method) # {"_"}
         /\ r.pos = pos /\ r.pos < Len(Line(asked))
  <2>1. LineLeft(asked, r, pos, last, shifted)
    BY <1>1, <1>2, <1>3, <1>4, LineOutcome
  <2> QED
    BY <2>1 DEF LineLeft
<1>6. r.rc = "SGX_OK" => r.state = "sw_start"
  BY <1>1, <1>3, LineResult
<1>7. /\ pos' = r.pos /\ request' = r /\ last' = last /\ asked' = asked /\ shifted' = shifted
      /\ phase' = CASE r.rc = "SGX_AGAIN" -> phase
                    [] r.rc = "SGX_OK" -> "headers"
                    [] OTHER -> "refused"
  BY DEF Parsed
<1>8. CASE r.rc = "SGX_AGAIN"
  <2>1. phase' = "line"
    BY <1>7, <1>8
  <2>2. r.pos = last /\ LineGood(asked, r, last, last, shifted)
    BY <1>5, <1>8
  <2> QED
    BY <1>7, <1>8, <2>1, <2>2 DEF Progress
<1>9. CASE r.rc = "SGX_OK"
  <2>1. phase' = "headers"
    BY <1>7, <1>9
  <2>2. /\ r.pos = Len(Line(asked)) /\ LineLearnt(asked, r, r.pos)
        /\ Recognised(asked, r, r.pos, last) /\ r.list = <<>>
    BY <1>5, <1>9
  <2>3. BodyAt(asked, r, r.pos)
    BY <1>2, <1>6, <1>9, <2>2, BodyBegins
  <2> QED
    BY <1>7, <2>1, <2>2, <2>3 DEF Progress
<1>10. CASE r.rc \notin {"SGX_AGAIN", "SGX_OK"}
  <2>1. phase' = "refused"
    BY <1>7, <1>10
  <2>2. shifted /\ BytesOf(asked.method) # {"_"} /\ r.pos < Len(Line(asked))
    BY <1>5, <1>10
  <2> QED
    BY <1>7, <2>1, <2>2 DEF Progress
<1> QED
  BY <1>8, <1>9, <1>10

\* A call of the parser of the headers.
LEMMA BodyProgress ==
  ASSUME IInv, ConnType, SentIsText, Progress, WellFormed(asked),
         NEW r, r = sgx_http_parse_request_body(request, buf, pos, last),
         phase = "headers", Parsed(r, "done")
  PROVE  Progress'
<1>1. /\ pos \in Nat /\ last \in Nat /\ pos <= last /\ last < pos + SGX_MAX_BUF
      /\ last <= Len(Text(asked))
  BY BufferAssumption DEF IInv, TypeOK, NoOverflow, SentIsText
<1>2. asked \in RequestType /\ HeadersWellFormed(asked)
  BY TextFacts, Wellformedness DEF ConnType
<1>3. /\ request \in FieldsType(BodyStates) /\ BodyAt(asked, request, pos)
      /\ LineLearnt(asked, request, Len(Line(asked)))
      /\ Recognised(asked, request, Len(Line(asked)), last)
  BY DEF ConnType, Progress
<1>4. Holds(buf, asked, last)
  BY RingHolds
<1>5. /\ LineKept(request, r)
      /\ \/ r.rc = "SGX_AGAIN" /\ r.pos = last /\ BodyAt(asked, r, last)
         \/ r.rc = "SGX_OK" /\ r.pos = Len(Text(asked)) /\ r.list = Saved(asked)
  BY <1>1, <1>2, <1>3, <1>4, BodyOutcome
<1>6. LineLearnt(asked, r, Len(Line(asked))) /\ Recognised(asked, r, Len(Line(asked)), last)
  BY <1>3, <1>5 DEF LineKept, SameLearnt, LineLearnt, Recognised
<1>7. /\ pos' = r.pos /\ request' = r /\ last' = last /\ asked' = asked /\ shifted' = shifted
      /\ phase' = CASE r.rc = "SGX_AGAIN" -> phase
                    [] r.rc = "SGX_OK" -> "done"
                    [] OTHER -> "refused"
  BY DEF Parsed
<1>8. CASE r.rc = "SGX_AGAIN"
  <2>1. phase' = "headers"
    BY <1>7, <1>8
  <2>2. r.pos = last /\ BodyAt(asked, r, last)
    BY <1>5, <1>8
  <2> QED
    BY <1>6, <1>7, <2>1, <2>2 DEF Progress
<1>9. CASE r.rc = "SGX_OK"
  <2>1. phase' = "done"
    BY <1>7, <1>9
  <2>2. r.list = Saved(asked) /\ r.pos = Len(Text(asked))
    BY <1>5, <1>9
  <2> QED
    BY <1>6, <1>7, <2>1, <2>2 DEF Progress
<1> QED
  BY <1>5, <1>8, <1>9

\* What a call of a parser leaves has the right type for the next one.
LEMMA ParsedType ==
  ASSUME ConnType, pos \in Nat, last \in Nat, pos <= last, ParseLine \/ ParseHeaders
  PROVE  ConnType'
<1>1. CASE ParseLine
  <2>1. PICK r : /\ r = sgx_http_parse_request_line(request, buf, pos, last, shifted)
                 /\ Parsed(r, "headers") /\ phase = "line"
    BY <1>1 DEF ParseLine
  <2>2. r \in FieldsType(LineStates) /\ (r.rc = "SGX_OK" => r.state = "sw_start")
    BY <2>1, LineResult DEF ConnType
  <2>3. r.state = "sw_start" => r \in FieldsType(BodyStates)
    BY <2>2 DEF FieldsType, BodyStates
  <2>4. request' = r /\ asked' = asked /\ shifted' = shifted
        /\ phase' = CASE r.rc = "SGX_AGAIN" -> "line"
                      [] r.rc = "SGX_OK" -> "headers"
                      [] OTHER -> "refused"
    BY <2>1 DEF Parsed
  <2>5. phase' = "line" \/ (phase' = "headers" /\ r.state = "sw_start") \/ phase' = "refused"
    BY <2>2, <2>4
  <2> QED
    BY <2>2, <2>3, <2>4, <2>5 DEF ConnType
<1>2. CASE ParseHeaders
  <2>1. PICK r : /\ r = sgx_http_parse_request_body(request, buf, pos, last)
                 /\ Parsed(r, "done") /\ phase = "headers"
    BY <1>2 DEF ParseHeaders
  <2>2. r \in FieldsType(BodyStates)
    BY <2>1, BodyResult DEF ConnType
  <2>3. request' = r /\ asked' = asked /\ shifted' = shifted
        /\ phase' = CASE r.rc = "SGX_AGAIN" -> "headers"
                      [] r.rc = "SGX_OK" -> "done"
                      [] OTHER -> "refused"
    BY <2>1 DEF Parsed
  <2>4. phase' \in {"headers", "done", "refused"}
    BY <2>3
  <2> QED
    BY <2>2, <2>3, <2>4 DEF ConnType, Complete
<1> QED
  BY <1>1, <1>2

\* Every step of the connection keeps its invariant.
LEMMA ConnNextInv == ConnInv /\ [ConnNext]_connVars => ConnInv'
<1> SUFFICES ASSUME ConnInv, [ConnNext]_connVars PROVE ConnInv'
  OBVIOUS
<1>1. IInv /\ ConnType /\ SentIsText /\ (WellFormed(asked) => Progress)
  BY DEF ConnInv
<1>2. IInv'
  BY <1>1, ConnStep, NextInv
<1>3. /\ pos \in Nat /\ last \in Nat /\ pos <= last /\ sent \in Seq(Bytes) /\ Len(sent) = last
      /\ asked \in RequestType
  BY <1>1, TextFacts DEF IInv, TypeOK, NoOverflow, WindowIntact, ConnType
<1>4. ASSUME UNCHANGED <<request, phase, asked, shifted, pos, last, sent>>
      PROVE  ConnInv'
  <2>1. ConnType'
    BY <1>1, <1>4 DEF ConnType
  <2>2. SentIsText'
    BY <1>1, <1>4 DEF SentIsText
  <2>3. Progress => Progress'
    BY <1>3, <1>4, ReadingGoesOn
  <2> QED
    BY <1>1, <1>2, <1>4, <2>1, <2>2, <2>3 DEF ConnInv
<1>5. CASE Readable
  BY <1>4, <1>5 DEF Readable, ReadStep, Run
<1>6. ASSUME NEW n \in 1..(Len(Text(asked)) - last), Receive(n)
      PROVE  ConnInv'
  <2>1. PICK data : data = SubSeq(Text(asked), last + 1, last + n)
    OBVIOUS
  <2>2. /\ data \in [1..n -> Bytes]
        /\ \A k \in 1..n : data[k] = Text(asked)[last + k]
    BY <1>1, <1>3, <2>1, BytesRead
  <2>3. n \in Nat /\ \A k \in 1..n : data[k] = Text(asked)[last + k]
    BY <2>2
  <2>4. data \in Seq(Bytes) /\ Len(data) = n
    BY <2>3, <2>2
  <2>5. /\ last' = last + n /\ sent' = sent \o data /\ pos' = pos
        /\ UNCHANGED <<request, phase, asked, shifted>>
    BY <1>6, <2>1, <2>4 DEF Receive, ReadStep, Read
  <2>6. ConnType'
    BY <1>1, <2>5 DEF ConnType
  <2>7. SentIsText'
    <3>1. last + n <= Len(Text(asked))
      <4>1. Len(Text(asked)) \in Nat
        BY <1>1, TextFacts DEF ConnType
      <4> QED
        BY <1>3, <4>1
    <3>2. ASSUME NEW k \in 1..(last + n) PROVE (sent \o data)[k] = Text(asked)[k]
      <4>1. CASE k <= last
        <5>1. k \in 1..Len(sent)
          BY <1>3, <4>1
        <5>2. (sent \o data)[k] = sent[k]
          BY <1>3, <2>4, <5>1, Joined
        <5> QED
          BY <1>1, <1>3, <5>1, <5>2 DEF SentIsText
      <4>2. CASE k > last
        <5>1. PICK h \in 1..n : k = last + h
          <6>1. k - last \in 1..n /\ k = last + (k - last)
            BY <1>3, <2>3, <4>2
          <6> QED
            BY <6>1
        <5>2. (sent \o data)[Len(sent) + h] = data[h]
          <6>1. h \in 1..Len(data)
            BY <2>4
          <6> QED
            BY <1>3, <2>4, <6>1, Joined
        <5> QED
          BY <1>3, <2>3, <5>1, <5>2
      <4>3. k <= last \/ k > last
        BY <1>3, <2>3
      <4> QED
        BY <4>1, <4>2, <4>3
    <3> QED
      BY <2>5, <3>1, <3>2 DEF SentIsText
  <2>8. Progress => Progress'
    <3>1. last' \in Nat /\ last <= last'
      BY <1>3, <2>3, <2>5
    <3> QED
      BY <1>3, <2>5, <3>1, ReadingGoesOn
  <2> QED
    BY <1>1, <1>2, <2>5, <2>6, <2>7, <2>8 DEF ConnInv
<1>7. CASE Received
  BY <1>4, <1>7 DEF Received, ReadStep, ReadAgain
<1>8. CASE ReadStops
  BY <1>4, <1>8 DEF ReadStops, ReadStep, ReadNothing, ReadEnd, ReadFails, Err
<1>9. CASE ParseLine \/ ParseHeaders
  <2>1. ConnType'
    BY <1>1, <1>3, <1>9, ParsedType
  <2>2. UNCHANGED <<last, sent, asked>>
    BY <1>9 DEF ParseLine, ParseHeaders, Parsed
  <2>3. SentIsText'
    BY <1>1, <2>2 DEF SentIsText
  <2>4. ASSUME WellFormed(asked) PROVE Progress'
    <3>1. CASE ParseLine
      BY <1>1, <2>4, <3>1, LineProgress DEF ParseLine
    <3>2. CASE ParseHeaders
      BY <1>1, <2>4, <3>2, BodyProgress DEF ParseHeaders
    <3> QED
      BY <1>9, <3>1, <3>2
  <2> QED
    BY <1>2, <2>1, <2>2, <2>3, <2>4 DEF ConnInv
<1>10. CASE HandleHeader
  <2>1. phase' \in {"handling", "wild"} /\ UNCHANGED <<vars, asked, shifted>>
    BY <1>10 DEF HandleHeader
  <2>2. ConnType'
    BY <1>1, <2>1 DEF ConnType, Complete
  <2>3. SentIsText'
    BY <1>1, <2>1 DEF SentIsText, vars
  <2>4. Progress'
    BY <2>1 DEF Progress
  <2> QED
    BY <1>2, <2>2, <2>3, <2>4 DEF ConnInv
<1>11. CASE UNCHANGED connVars
  BY <1>4, <1>11 DEF connVars, vars
<1> QED
  BY <1>5, <1>6, <1>7, <1>8, <1>9, <1>10, <1>11 DEF ConnNext

\* The invariant of the connection.
THEOREM ConnInvariant == ConnSpec => []ConnInv
  BY ConnInitInv, ConnNextInv, PTL DEF ConnSpec

\* With the parsers of http_parse.c in the place of any that stay within what is
\* there, the connection is still a run of the ring: each call takes a part of the
\* unread bytes and never goes beyond request->last.
THEOREM ParsersStayInTheRing == ConnSpec => Spec
<1>1. ConnInit => Init
  BY DEF ConnInit
<1>2. ConnInv /\ [ConnNext]_connVars => [Next]_vars
  BY ConnStep DEF ConnInv
<1> QED
  BY <1>1, <1>2, ConnInvariant, PTL DEF ConnSpec, Spec

\* Whatever the sizes of the pieces it is read in and of the ring: of a well-formed
\* request the parsers hand on the URI, the version and the kept headers that were sent.
THEOREM ParsesWhatWasSent == ConnSpec => [](WellFormed(asked) => ParsedAsSent)
<1>1. ASSUME ConnInv, WellFormed(asked) PROVE ParsedAsSent
  <2>1. asked \in RequestType /\ WellFormedLine(asked) /\ Progress
    BY <1>1, TextFacts, Wellformedness DEF ConnInv, ConnType
  <2>2. LinePlaces(asked)
    BY <2>1, LinePlaced
  <2>3. PICK m, me, u, ue, j, je, n, ne, l \in Nat :
          LineAt(asked, m, me, u, ue, j, je, n, ne, l) /\ InOrder(m, me, u, ue, j, je, n, ne, l)
    BY <2>2, LineOrder
  <2>4. m < me /\ me < u /\ u < ue /\ j = ue + 6 /\ j < je /\ n = je + 1 /\ n < ne /\ ne < l
    BY <2>3 DEF InOrder
  <2>5. /\ m = MethodAt(asked) /\ me = MethodEnd(asked) /\ u = UriAt(asked) /\ ue = UriEnd(asked)
        /\ j = MajorAt(asked) /\ je = MajorEnd(asked) /\ n = MinorAt(asked) /\ ne = MinorEnd(asked)
        /\ l = Len(Line(asked))
    BY <2>3 DEF LineAt
  <2>6. l > u /\ l > ue /\ l > j /\ l > n
    BY <2>4
  <2>7. ASSUME phase \in {"headers", "done"}
        PROVE  /\ request.uri_start = Place(UriAt(asked))
               /\ request.uri_end = Place(UriEnd(asked))
               /\ Len(asked.major) = 1 => request.http_major = Digit(asked.major[1])
               /\ Len(asked.minor) = 1 => request.http_minor = Digit(asked.minor[1])
    <3>1. LineLearnt(asked, request, l)
      BY <2>1, <2>4, <2>5, <2>7 DEF Progress
    <3> QED
      BY <2>4, <2>5, <2>6, <3>1 DEF LineLearnt
  <2> QED
    BY <2>1, <2>7 DEF ParsedAsSent, Progress, UriEnd
<1>2. ConnInv => (WellFormed(asked) => ParsedAsSent)
  BY <1>1
<1> QED
  BY <1>2, ConnInvariant, PTL

\* The method of a well-formed request is recognised by its four bytes, if they lie
\* in one piece and no read has gone round the ring to them.
THEOREM MethodsAreRecognised == ConnSpec => [](WellFormed(asked) => MethodRecognised)
<1>1. ASSUME ConnInv, WellFormed(asked) PROVE MethodRecognised
  <2>1. asked \in RequestType /\ WellFormedLine(asked) /\ Progress
    BY <1>1, TextFacts, Wellformedness DEF ConnInv, ConnType
  <2>2. LinePlaces(asked)
    BY <2>1, LinePlaced
  <2>3. PICK m, me, u, ue, j, je, n, ne, l \in Nat :
          LineAt(asked, m, me, u, ue, j, je, n, ne, l) /\ InOrder(m, me, u, ue, j, je, n, ne, l)
    BY <2>2, LineOrder
  <2>4. m < me /\ me < u /\ u < ue /\ j = ue + 6 /\ j < je /\ n = je + 1 /\ n < ne /\ ne < l
    BY <2>3 DEF InOrder
  <2>5. /\ m = MethodAt(asked) /\ me = MethodEnd(asked) /\ u = UriAt(asked) /\ ue = UriEnd(asked)
        /\ j = MajorAt(asked) /\ je = MajorEnd(asked) /\ n = MinorAt(asked) /\ ne = MinorEnd(asked)
        /\ l = Len(Line(asked))
    BY <2>3 DEF LineAt
  <2>6. l > me
    BY <2>4
  <2>7. phase \in {"headers", "done"} => Recognised(asked, request, l, last)
    BY <2>1, <2>4, <2>5 DEF Progress
  <2>8. phase \in {"headers", "done"} /\ MethodInOnePiece /\ last <= MethodAt(asked) + SGX_MAX_BUF =>
          MethodIs(asked, request.method)
    BY <2>5, <2>6, <2>7 DEF MethodInOnePiece, Recognised
  <2> QED
    BY <2>8 DEF MethodRecognised, MethodIs
<1>2. ConnInv => (WellFormed(asked) => MethodRecognised)
  BY <1>1
<1> QED
  BY <1>2, ConnInvariant, PTL

\* Neither parser waits for more than was sent, except that of the headers when a
\* request has none.
THEOREM ParsingEnds == ConnSpec => []EndsWithTheText
<1>1. ASSUME ConnInv, pos = Len(Text(asked)), WellFormed(asked), asked.headers # <<>>
      PROVE  phase \in Complete
  <2>1. asked \in RequestType /\ Progress /\ asked \in Requests
    BY <1>1, TextFacts DEF ConnInv, ConnType
  <2>2. PICK e, l \in Nat : /\ e = BodyEnd(asked) /\ l = Len(Line(asked)) /\ l <= e
                            /\ Len(Text(asked)) = e + 2
    <3>1. Line(asked) \in Seq(ByteClasses)
      BY <2>1, LineTyped
    <3>2. Len(Line(asked)) \in Nat
      BY <3>1
    <3> QED
      BY <2>1, <3>2, BodyEnds
  <2>3. PICK m \in Nat : m = Len(asked.headers) /\ m # 0
    <3>1. asked.headers \in Seq(HeaderType)
      BY <2>1, RequestTyped
    <3> QED
      BY <1>1, <3>1
  <2>4. pos = e + 2
    BY <1>1, <2>2
  <2>5. phase # "refused"
    <3>1. ~ (pos < l)
      BY <2>2, <2>4
    <3> QED
      BY <2>1, <2>2, <3>1 DEF Progress
  <2>6. phase # "line"
    <3>1. ~ (pos < l)
      BY <2>2, <2>4
    <3>2. phase = "line" => pos < l
      BY <2>1, <2>2 DEF Progress, LineGood, LineReached
    <3> QED
      BY <3>1, <3>2
  <2>7. ASSUME phase = "headers" PROVE FALSE
    <3>1. BodyAt(asked, request, pos)
      BY <2>1, <2>7 DEF Progress
    <3>2. ASSUME NEW j \in 1..m, InHeader(asked, j, request, pos)
          PROVE  FALSE
      <4>1. PICK h \in Nat : h = HeaderAt(asked, j + 1) /\ h <= e
        <5>1. j + 1 \in 1..(m + 1)
          BY <2>3
        <5> QED
          BY <2>1, <2>2, <2>3, <5>1, TextParts DEF BodyEnd
      <4>2. pos < h
        BY <3>2, <4>1 DEF InHeader
      <4> QED
        BY <2>4, <4>1, <4>2
    <3>3. pos # e /\ pos # e + 1
      BY <2>4
    <3> QED
      BY <2>2, <2>3, <3>1, <3>2, <3>3 DEF BodyAt
  <2> QED
    BY <1>1, <2>5, <2>6, <2>7 DEF ConnInv, ConnType
<1>2. ConnInv => EndsWithTheText
  BY <1>1 DEF EndsWithTheText
<1> QED
  BY <1>2, ConnInvariant, PTL

-----------------------------------------------------------------------------
(* What the parsers accept, of any request *)

\* The bytes after the m-th go on as they did.
LEMMA AllInMore ==
  ASSUME NEW t, NEW m \in Nat, NEW i \in Nat, NEW B, AllIn(t, m, i, B), t[i + 1] \in B
  PROVE  AllIn(t, m, i + 1, B)
<1>1. \A k \in (m + 1)..(i + 1) : k \in (m + 1)..i \/ k = i + 1
  OBVIOUS
<1> QED
  BY <1>1 DEF AllIn

\* One byte.
LEMMA AllInOne ==
  ASSUME NEW t, NEW i \in Nat, NEW B, t[i + 1] \in B
  PROVE  AllIn(t, i, i + 1, B) /\ i \in 0..(i + 1 - 1)
<1>1. \A k \in (i + 1)..(i + 1) : k = i + 1
  OBVIOUS
<1> QED
  BY <1>1 DEF AllIn

\* No byte.
LEMMA AllInNone ==
  ASSUME NEW t, NEW i \in Nat, NEW B
  PROVE  AllIn(t, i, i, B)
BY DEF AllIn

\* What one more byte makes of the beginning of a request line.
LEMMA ToMethod ==
  ASSUME NEW t, NEW i \in Nat, NEW sh, t[i + 1] \in MethodBytes(sh)
  PROVE  AllIn(t, 0, i, Ends) \/ MethodTo(t, i, sh) => MethodTo(t, i + 1, sh)
<1>1. ASSUME AllIn(t, 0, i, Ends) PROVE MethodTo(t, i + 1, sh)
  BY <1>1, AllInOne DEF MethodTo
<1>2. ASSUME MethodTo(t, i, sh) PROVE MethodTo(t, i + 1, sh)
  <2>1. PICK m \in 0..(i - 1) : AllIn(t, m, i, MethodBytes(sh)) /\ AllIn(t, 0, m, Ends)
    BY <1>2 DEF MethodTo
  <2>2. m \in 0..(i + 1 - 1) /\ AllIn(t, m, i + 1, MethodBytes(sh))
    BY <2>1, AllInMore
  <2> QED
    BY <2>1, <2>2 DEF MethodTo
<1> QED
  BY <1>1, <1>2

\* The blanks behind the method.
LEMMA ToGap ==
  ASSUME NEW t, NEW i \in Nat, NEW sh, t[i + 1] = "SP"
  PROVE  MethodTo(t, i, sh) \/ GapTo(t, i, sh) => GapTo(t, i + 1, sh)
<1>0. t[i + 1] \in {"SP"}
  OBVIOUS
<1>1. ASSUME MethodTo(t, i, sh) PROVE GapTo(t, i + 1, sh)
  BY <1>0, <1>1, AllInOne DEF GapTo
<1>2. ASSUME GapTo(t, i, sh) PROVE GapTo(t, i + 1, sh)
  <2>1. PICK m \in 0..(i - 1) : AllIn(t, m, i, {"SP"}) /\ MethodTo(t, m, sh)
    BY <1>2 DEF GapTo
  <2>2. m \in 0..(i + 1 - 1) /\ AllIn(t, m, i + 1, {"SP"})
    BY <1>0, <2>1, AllInMore
  <2> QED
    BY <2>1, <2>2 DEF GapTo
<1> QED
  BY <1>1, <1>2

\* The URI.
LEMMA ToUri ==
  ASSUME NEW t, NEW i \in Nat, NEW sh, t[i + 1] \in ByteClasses \ {"SP"}
  PROVE  (t[i + 1] = "/" /\ GapTo(t, i, sh)) \/ UriTo(t, i, sh) => UriTo(t, i + 1, sh)
<1>1. ASSUME t[i + 1] = "/", GapTo(t, i, sh) PROVE UriTo(t, i + 1, sh)
  BY <1>1, AllInOne DEF UriTo
<1>2. ASSUME UriTo(t, i, sh) PROVE UriTo(t, i + 1, sh)
  <2>1. PICK m \in 0..(i - 1) :
          t[m + 1] = "/" /\ AllIn(t, m, i, ByteClasses \ {"SP"}) /\ GapTo(t, m, sh)
    BY <1>2 DEF UriTo
  <2>2. m \in 0..(i + 1 - 1) /\ AllIn(t, m, i + 1, ByteClasses \ {"SP"})
    BY <2>1, AllInMore
  <2> QED
    BY <2>1, <2>2 DEF UriTo
<1> QED
  BY <1>1, <1>2

\* The blanks behind it.
LEMMA ToSpace ==
  ASSUME NEW t, NEW i \in Nat, NEW sh, t[i + 1] = "SP"
  PROVE  UriTo(t, i, sh) \/ SpaceTo(t, i, sh) => SpaceTo(t, i + 1, sh)
<1>0. t[i + 1] \in {"SP"}
  OBVIOUS
<1>1. ASSUME UriTo(t, i, sh) PROVE SpaceTo(t, i + 1, sh)
  BY <1>0, <1>1, AllInOne DEF SpaceTo
<1>2. ASSUME SpaceTo(t, i, sh) PROVE SpaceTo(t, i + 1, sh)
  <2>1. PICK m \in 0..(i - 1) : AllIn(t, m, i, {"SP"}) /\ UriTo(t, m, sh)
    BY <1>2 DEF SpaceTo
  <2>2. m \in 0..(i + 1 - 1) /\ AllIn(t, m, i + 1, {"SP"})
    BY <1>0, <2>1, AllInMore
  <2> QED
    BY <2>1, <2>2 DEF SpaceTo
<1> QED
  BY <1>1, <1>2

\* One more of the bytes of HTTP/.
LEMMA ToProtoByte ==
  ASSUME NEW t, NEW i \in Nat, NEW sh, NEW k \in 0..4, NEW n \in 1..5, n = k + 1,
         t[i + 1] = <<"H", "T", "T", "P", "/">>[n],
         k = 0 => SpaceTo(t, i, sh), k > 0 => ProtoTo(t, i, k, sh)
  PROVE  ProtoTo(t, i + 1, n, sh)
<1> DEFINE P == <<"H", "T", "T", "P", "/">>
<1>1. n <= i + 1 /\ i + 1 - n = i - k
  BY DEF ProtoTo
<1>2. SpaceTo(t, i - k, sh)
  <2>1. CASE k = 0
    <3>1. i - k = i
      BY <2>1
    <3> QED
      BY <2>1, <3>1
  <2>2. CASE k > 0
    BY <2>2 DEF ProtoTo
  <2> QED
    BY <2>1, <2>2
<1>3. ASSUME NEW j \in 1..n PROVE t[i + 1 - n + j] = P[j]
  <2>1. CASE j = n
    <3>1. i + 1 - n + j = i + 1
      BY <2>1
    <3> QED
      BY <2>1, <3>1
  <2>2. CASE j # n
    <3>1. j \in 1..k /\ i + 1 - n + j = i - k + j /\ k > 0
      BY <2>2
    <3>2. t[i - k + j] = P[j]
      BY <3>1 DEF ProtoTo
    <3> QED
      BY <3>1, <3>2
  <2> QED
    BY <2>1, <2>2
<1>4. SpaceTo(t, i + 1 - n, sh)
  BY <1>1, <1>2
<1> QED
  BY <1>1, <1>3, <1>4 DEF ProtoTo

\* The bytes of HTTP/.
LEMMA ToProto ==
  ASSUME NEW t, NEW i \in Nat, NEW sh
  PROVE  /\ t[i + 1] = "H" /\ SpaceTo(t, i, sh) => ProtoTo(t, i + 1, 1, sh)
         /\ t[i + 1] = "T" /\ ProtoTo(t, i, 1, sh) => ProtoTo(t, i + 1, 2, sh)
         /\ t[i + 1] = "T" /\ ProtoTo(t, i, 2, sh) => ProtoTo(t, i + 1, 3, sh)
         /\ t[i + 1] = "P" /\ ProtoTo(t, i, 3, sh) => ProtoTo(t, i + 1, 4, sh)
         /\ t[i + 1] = "/" /\ ProtoTo(t, i, 4, sh) => ProtoTo(t, i + 1, 5, sh)
<1> DEFINE P == <<"H", "T", "T", "P", "/">>
<1>1. P[1] = "H" /\ P[2] = "T" /\ P[3] = "T" /\ P[4] = "P" /\ P[5] = "/"
  OBVIOUS
<1> HIDE DEF P
<1>2. ASSUME NEW k \in 1..4, NEW n \in 1..5, n = k + 1, t[i + 1] = P[n], ProtoTo(t, i, k, sh)
      PROVE  ProtoTo(t, i + 1, n, sh)
  <2>1. k \in 0..4 /\ k # 0
    OBVIOUS
  <2> QED
    BY <1>2, <2>1, ToProtoByte DEF P
<1>3. ASSUME NEW k \in 0..4, NEW n \in 1..5, k = 0, n = k + 1, t[i + 1] = P[n], SpaceTo(t, i, sh)
      PROVE  ProtoTo(t, i + 1, n, sh)
  BY <1>3, ToProtoByte DEF P
<1>4. t[i + 1] = "H" /\ SpaceTo(t, i, sh) => ProtoTo(t, i + 1, 1, sh)
  BY <1>1, <1>3
<1>5. t[i + 1] = "T" /\ ProtoTo(t, i, 1, sh) => ProtoTo(t, i + 1, 2, sh)
  BY <1>1, <1>2
<1>6. t[i + 1] = "T" /\ ProtoTo(t, i, 2, sh) => ProtoTo(t, i + 1, 3, sh)
  BY <1>1, <1>2
<1>7. t[i + 1] = "P" /\ ProtoTo(t, i, 3, sh) => ProtoTo(t, i + 1, 4, sh)
  BY <1>1, <1>2
<1>8. t[i + 1] = "/" /\ ProtoTo(t, i, 4, sh) => ProtoTo(t, i + 1, 5, sh)
  BY <1>1, <1>2
<1> QED
  BY <1>4, <1>5, <1>6, <1>7, <1>8

\* The digits of the major version.
LEMMA ToMajor ==
  ASSUME NEW t, NEW i \in Nat, NEW sh, t[i + 1] \in Digits
  PROVE  (t[i + 1] # "0" /\ ProtoTo(t, i, 5, sh)) \/ MajorTo(t, i, sh) => MajorTo(t, i + 1, sh)
<1>1. ASSUME t[i + 1] # "0", ProtoTo(t, i, 5, sh) PROVE MajorTo(t, i + 1, sh)
  BY <1>1, AllInOne DEF MajorTo
<1>2. ASSUME MajorTo(t, i, sh) PROVE MajorTo(t, i + 1, sh)
  <2>1. PICK m \in 0..(i - 1) : t[m + 1] # "0" /\ AllIn(t, m, i, Digits) /\ ProtoTo(t, m, 5, sh)
    BY <1>2 DEF MajorTo
  <2>2. m \in 0..(i + 1 - 1) /\ AllIn(t, m, i + 1, Digits)
    BY <2>1, AllInMore
  <2> QED
    BY <2>1, <2>2 DEF MajorTo
<1> QED
  BY <1>1, <1>2

\* The dot, and the CR at the end.
LEMMA ToNext ==
  ASSUME NEW t, NEW i \in Nat, NEW sh
  PROVE  /\ t[i + 1] = "." /\ MajorTo(t, i, sh) => DotTo(t, i + 1, sh)
         /\ t[i + 1] = "CR" /\ BlanksTo(t, i, sh) => CrTo(t, i + 1, sh)
         /\ t[i + 1] = "LF" /\ (BlanksTo(t, i, sh) \/ CrTo(t, i, sh)) => LineTo(t, i + 1, sh)
<1>1. PICK n \in Nat : n = i + 1 /\ n >= 1 /\ n - 1 = i
  OBVIOUS
<1>2. t[n] = "." /\ MajorTo(t, n - 1, sh) => DotTo(t, n, sh)
  BY <1>1 DEF DotTo
<1>3. t[n] = "CR" /\ BlanksTo(t, n - 1, sh) => CrTo(t, n, sh)
  BY <1>1 DEF CrTo
<1>4. t[n] = "LF" /\ (BlanksTo(t, n - 1, sh) \/ CrTo(t, n - 1, sh)) => LineTo(t, n, sh)
  BY <1>1 DEF LineTo
<1> QED
  BY <1>1, <1>2, <1>3, <1>4

\* The digits of the minor version.
LEMMA ToMinor ==
  ASSUME NEW t, NEW i \in Nat, NEW sh, t[i + 1] \in Digits
  PROVE  DotTo(t, i, sh) \/ MinorTo(t, i, sh) => MinorTo(t, i + 1, sh)
<1>1. ASSUME DotTo(t, i, sh) PROVE MinorTo(t, i + 1, sh)
  BY <1>1, AllInOne DEF MinorTo
<1>2. ASSUME MinorTo(t, i, sh) PROVE MinorTo(t, i + 1, sh)
  <2>1. PICK m \in 0..(i - 1) : AllIn(t, m, i, Digits) /\ DotTo(t, m, sh)
    BY <1>2 DEF MinorTo
  <2>2. m \in 0..(i + 1 - 1) /\ AllIn(t, m, i + 1, Digits)
    BY <2>1, AllInMore
  <2> QED
    BY <2>1, <2>2 DEF MinorTo
<1> QED
  BY <1>1, <1>2

\* The blanks behind it, of which there need not be any.
LEMMA ToBlanks ==
  ASSUME NEW t, NEW i \in Nat, NEW sh
  PROVE  /\ MinorTo(t, i, sh) => BlanksTo(t, i, sh)
         /\ t[i + 1] = "SP" /\ BlanksTo(t, i, sh) => BlanksTo(t, i + 1, sh)
<1>1. ASSUME MinorTo(t, i, sh) PROVE BlanksTo(t, i, sh)
  <2>1. i \in 0..i /\ AllIn(t, i, i, {"SP"})
    BY AllInNone
  <2> QED
    BY <1>1, <2>1 DEF BlanksTo
<1>2. ASSUME t[i + 1] = "SP", BlanksTo(t, i, sh) PROVE BlanksTo(t, i + 1, sh)
  <2>1. PICK m \in 0..i : AllIn(t, m, i, {"SP"}) /\ MinorTo(t, m, sh)
    BY <1>2 DEF BlanksTo
  <2>2. t[i + 1] \in {"SP"}
    BY <1>2
  <2>3. m \in 0..(i + 1) /\ AllIn(t, m, i + 1, {"SP"})
    BY <2>1, <2>2, AllInMore
  <2> QED
    BY <2>1, <2>3 DEF BlanksTo
<1> QED
  BY <1>1, <1>2

\* What the first n bytes are when the parser of the request line is in state s.
LineSoFar(t, s, n, sh) ==
  /\ s = "sw_start" => AllIn(t, 0, n, Ends)
  /\ s = "sw_method" => MethodTo(t, n, sh)
  /\ s = "sw_spaces_before_uri" => GapTo(t, n, sh)
  /\ s = "sw_after_slash_in_uri" => UriTo(t, n, sh)
  /\ s = "sw_http" => SpaceTo(t, n, sh)
  /\ s = "sw_http_H" => ProtoTo(t, n, 1, sh)
  /\ s = "sw_http_HT" => ProtoTo(t, n, 2, sh)
  /\ s = "sw_http_HTT" => ProtoTo(t, n, 3, sh)
  /\ s = "sw_http_HTTP" => ProtoTo(t, n, 4, sh)
  /\ s = "sw_first_major_digit" => ProtoTo(t, n, 5, sh)
  /\ s = "sw_major_digit" => MajorTo(t, n, sh)
  /\ s = "sw_first_minor_digit" => DotTo(t, n, sh)
  /\ s = "sw_minor_digit" => MinorTo(t, n, sh)
  /\ s = "sw_spaces_after_digit" => BlanksTo(t, n, sh)
  /\ s = "sw_almost_done" => CrTo(t, n, sh)

\* What the loop has found when it has parsed n bytes.
LineFound(t, q, n, sh) ==
  /\ q.rc = "SGX_AGAIN" => LineSoFar(t, q.state, n, sh)
  /\ q.rc = "SGX_OK" => LineTo(t, n, sh)

\* An error is no claim about the bytes.
LEMMA ErrorFound ==
  ASSUME NEW r \in FieldsType(LineStates), NEW t, NEW n, NEW sh, NEW code,
         code \notin {"SGX_AGAIN", "SGX_OK"}
  PROVE  LineFound(t, Return(r, code), n, sh)
BY DEF LineFound, Return, FieldsType

\* A new state, with what it says of the bytes.
LEMMA StateFound ==
  ASSUME NEW t, NEW n, NEW sh, NEW q, q.rc = "SGX_AGAIN", LineSoFar(t, q.state, n, sh)
  PROVE  LineFound(t, q, n, sh)
BY DEF LineFound

\* A byte before the method, or of it.
LEMMA StartFound ==
  ASSUME NEW r \in FieldsType(LineStates), NEW t, NEW i \in Nat, NEW sh \in BOOLEAN, NEW c \in ByteClasses,
         c = t[i + 1], r.rc = "SGX_AGAIN", NEW p
  PROVE  /\ AllIn(t, 0, i, Ends) /\ r.state = "sw_start" => LineFound(t, LineStart(r, p, c, sh), i + 1, sh)
         /\ MethodTo(t, i, sh) /\ r.state = "sw_method" =>
              \A b : LineFound(t, LineMethod(r, b, p, c, sh), i + 1, sh)
<1>1. c \notin {"SP"} \cup Ends /\ ~ NotInMethod(c, sh) => c \in MethodBytes(sh)
  BY DEF NotInMethod, ByteClasses, MethodBytes, Below
<1>2. ASSUME AllIn(t, 0, i, Ends), r.state = "sw_start"
      PROVE  LineFound(t, LineStart(r, p, c, sh), i + 1, sh)
  <2>1. PICK q : q = [r EXCEPT !.request_start = p] /\ q.rc = r.rc /\ q.state = r.state
    <3>1. [r EXCEPT !.request_start = p].rc = r.rc /\ [r EXCEPT !.request_start = p].state = r.state
      BY DEF FieldsType
    <3> QED
      BY <3>1
  <2>2. CASE c \in Ends
    <3>1. AllIn(t, 0, i + 1, Ends)
      BY <1>2, <2>2, AllInMore
    <3>2. LineSoFar(t, q.state, i + 1, sh)
      BY <1>2, <2>1, <3>1 DEF LineSoFar
    <3>3. LineFound(t, q, i + 1, sh)
      BY <2>1, <3>2, StateFound
    <3> QED
      BY <2>1, <2>2, <3>3 DEF LineStart
  <2>3. CASE c \notin Ends /\ NotInMethod(c, sh)
    <3>1. PICK x : x = LineStart(r, p, c, sh) /\ x.rc = "SGX_HTTP_PARSE_INVALID_METHOD"
      <4>1. LineStart(r, p, c, sh) = [r EXCEPT !.request_start = p, !.rc = "SGX_HTTP_PARSE_INVALID_METHOD"]
        BY <2>3 DEF LineStart, Return
      <4>2. [r EXCEPT !.request_start = p, !.rc = "SGX_HTTP_PARSE_INVALID_METHOD"].rc
              = "SGX_HTTP_PARSE_INVALID_METHOD"
        BY DEF FieldsType
      <4> QED
        BY <4>1, <4>2
    <3> QED
      BY <3>1 DEF LineFound
  <2>4. CASE c \notin Ends /\ ~ NotInMethod(c, sh)
    <3>1. PICK x : x = LineStart(r, p, c, sh) /\ x.rc = "SGX_AGAIN" /\ x.state = "sw_method"
      <4>1. LineStart(r, p, c, sh) = [r EXCEPT !.request_start = p, !.state = "sw_method"]
        BY <2>4 DEF LineStart, Goto
      <4>2. LineStart(r, p, c, sh).rc = "SGX_AGAIN" /\ LineStart(r, p, c, sh).state = "sw_method"
        BY <4>1 DEF FieldsType
      <4> QED
        BY <4>2
    <3>2. c # "SP"
      BY <2>4 DEF NotInMethod, Below
    <3>3. MethodTo(t, i + 1, sh)
      BY <1>1, <1>2, <2>4, <3>2, ToMethod
    <3>4. LineSoFar(t, x.state, i + 1, sh)
      BY <3>1, <3>3 DEF LineSoFar
    <3> QED
      BY <3>1, <3>4, StateFound
  <2> QED
    BY <2>2, <2>3, <2>4
<1>3. ASSUME MethodTo(t, i, sh), r.state = "sw_method", NEW b
      PROVE  LineFound(t, LineMethod(r, b, p, c, sh), i + 1, sh)
  <2>1. CASE c = "SP"
    <3>1. PICK x : x = LineMethod(r, b, p, c, sh) /\ x.rc = "SGX_AGAIN" /\ x.state = "sw_spaces_before_uri"
      <4>1. PICK m : m = Method(r, b, p)
        OBVIOUS
      <4>2. LineMethod(r, b, p, c, sh) =
              [r EXCEPT !.method_end = p, !.method = m, !.state = "sw_spaces_before_uri"]
        BY <2>1, <4>1 DEF LineMethod
      <4>3. LineMethod(r, b, p, c, sh).rc = "SGX_AGAIN" /\ LineMethod(r, b, p, c, sh).state = "sw_spaces_before_uri"
        BY <4>2 DEF FieldsType
      <4> QED
        BY <4>3
    <3>2. GapTo(t, i + 1, sh)
      BY <1>3, <2>1, ToGap
    <3>3. LineSoFar(t, x.state, i + 1, sh)
      BY <3>1, <3>2 DEF LineSoFar
    <3> QED
      BY <3>1, <3>3, StateFound
  <2>2. CASE c # "SP" /\ NotInMethod(c, sh)
    <3>1. LineFound(t, Return(r, "SGX_HTTP_PARSE_INVALID_METHOD"), i + 1, sh)
      BY ErrorFound
    <3> QED
      BY <2>2, <3>1 DEF LineMethod
  <2>3. CASE c # "SP" /\ ~ NotInMethod(c, sh)
    <3>1. c \notin Ends
      BY <2>3 DEF NotInMethod, Below, Ends
    <3>2. MethodTo(t, i + 1, sh)
      BY <1>1, <1>3, <2>3, <3>1, ToMethod
    <3>3. LineSoFar(t, r.state, i + 1, sh)
      BY <1>3, <3>2 DEF LineSoFar
    <3>4. LineFound(t, r, i + 1, sh)
      BY <3>3, StateFound
    <3> QED
      BY <2>3, <3>4 DEF LineMethod
  <2> QED
    BY <2>1, <2>2, <2>3
<1> QED
  BY <1>2, <1>3

\* A byte up to the URI, or of it.
LEMMA UriFound ==
  ASSUME NEW r \in FieldsType(LineStates), NEW t, NEW i \in Nat, NEW sh \in BOOLEAN, NEW c \in ByteClasses,
         c = t[i + 1], r.rc = "SGX_AGAIN", NEW p
  PROVE  /\ GapTo(t, i, sh) /\ r.state = "sw_spaces_before_uri" => LineFound(t, BeforeUri(r, p, c), i + 1, sh)
         /\ UriTo(t, i, sh) /\ r.state = "sw_after_slash_in_uri" => LineFound(t, InUri(r, p, c), i + 1, sh)
<1>1. ASSUME GapTo(t, i, sh), r.state = "sw_spaces_before_uri"
      PROVE  LineFound(t, BeforeUri(r, p, c), i + 1, sh)
  <2>1. CASE c = "/"
    <3>1. PICK x : x = BeforeUri(r, p, c) /\ x.rc = "SGX_AGAIN" /\ x.state = "sw_after_slash_in_uri"
      <4>1. BeforeUri(r, p, c) = [r EXCEPT !.uri_start = p, !.state = "sw_after_slash_in_uri"]
        BY <2>1 DEF BeforeUri
      <4>2. BeforeUri(r, p, c).rc = "SGX_AGAIN" /\ BeforeUri(r, p, c).state = "sw_after_slash_in_uri"
        BY <4>1 DEF FieldsType
      <4> QED
        BY <4>2
    <3>2. UriTo(t, i + 1, sh)
      <4>1. t[i + 1] \in ByteClasses \ {"SP"}
        BY <2>1
      <4> QED
        BY <1>1, <2>1, <4>1, ToUri
    <3>3. LineSoFar(t, x.state, i + 1, sh)
      BY <3>1, <3>2 DEF LineSoFar
    <3> QED
      BY <3>1, <3>3, StateFound
  <2>2. CASE c = "SP"
    <3>1. GapTo(t, i + 1, sh)
      BY <1>1, <2>2, ToGap
    <3>2. LineSoFar(t, r.state, i + 1, sh)
      BY <1>1, <3>1 DEF LineSoFar
    <3>3. LineFound(t, r, i + 1, sh)
      BY <3>2, StateFound
    <3> QED
      BY <2>2, <3>3 DEF BeforeUri
  <2>3. CASE c \notin {"/", "SP"}
    <3>1. LineFound(t, Return(r, "SGX_HTTP_PARSE_INVALID_REQUEST"), i + 1, sh)
      BY ErrorFound
    <3> QED
      BY <2>3, <3>1 DEF BeforeUri
  <2> QED
    BY <2>1, <2>2, <2>3
<1>2. ASSUME UriTo(t, i, sh), r.state = "sw_after_slash_in_uri"
      PROVE  LineFound(t, InUri(r, p, c), i + 1, sh)
  <2>1. CASE c = "SP"
    <3>1. PICK x : x = InUri(r, p, c) /\ x.rc = "SGX_AGAIN" /\ x.state = "sw_http"
      <4>1. InUri(r, p, c) = [r EXCEPT !.uri_end = p, !.state = "sw_http"]
        BY <2>1 DEF InUri
      <4>2. InUri(r, p, c).rc = "SGX_AGAIN" /\ InUri(r, p, c).state = "sw_http"
        BY <4>1 DEF FieldsType
      <4> QED
        BY <4>2
    <3>2. SpaceTo(t, i + 1, sh)
      BY <1>2, <2>1, ToSpace
    <3>3. LineSoFar(t, x.state, i + 1, sh)
      BY <3>1, <3>2 DEF LineSoFar
    <3> QED
      BY <3>1, <3>3, StateFound
  <2>2. CASE c # "SP"
    <3>1. UriTo(t, i + 1, sh)
      <4>1. t[i + 1] \in ByteClasses \ {"SP"}
        BY <2>2
      <4> QED
        BY <1>2, <4>1, ToUri
    <3>2. LineSoFar(t, r.state, i + 1, sh)
      BY <1>2, <3>1 DEF LineSoFar
    <3>3. LineFound(t, r, i + 1, sh)
      BY <3>2, StateFound
    <3> QED
      BY <2>2, <3>3 DEF InUri
  <2> QED
    BY <2>1, <2>2
<1> QED
  BY <1>1, <1>2

\* When the state changes to s, what s says is found.
LEMMA GotoFound ==
  ASSUME NEW r \in FieldsType(LineStates), NEW t, NEW n, NEW sh, NEW s, r.rc = "SGX_AGAIN",
         LineSoFar(t, s, n, sh)
  PROVE  LineFound(t, Goto(r, s), n, sh)
<1>1. PICK x : x = Goto(r, s) /\ x.rc = "SGX_AGAIN" /\ x.state = s
  <2>1. Goto(r, s) = [r EXCEPT !.state = s]
    BY DEF Goto
  <2> QED
    BY <2>1 DEF FieldsType
<1> QED
  BY <1>1, StateFound

\* A byte of HTTP/.
LEMMA ProtocolFound ==
  ASSUME NEW r \in FieldsType(LineStates), NEW t, NEW i \in Nat, NEW sh \in BOOLEAN, NEW c \in ByteClasses,
         c = t[i + 1], r.rc = "SGX_AGAIN", LineSoFar(t, r.state, i, sh),
         r.state \in {"sw_http", "sw_http_H", "sw_http_HT", "sw_http_HTT", "sw_http_HTTP"}
  PROVE  LineFound(t, LineProtocol(r, c), i + 1, sh)
<1>1. ASSUME NEW s, NEW d, d # "SP", HttpTable[r.state][1] = d, HttpTable[r.state][2] = s,
             c = d => LineSoFar(t, s, i + 1, sh)
      PROVE  LineFound(t, LineProtocol(r, c), i + 1, sh)
  <2>1. CASE c = d
    <3>1. LineFound(t, Goto(r, s), i + 1, sh)
      BY <1>1, <2>1, GotoFound
    <3>2. c = HttpTable[r.state][1]
      BY <1>1, <2>1
    <3>3. LineProtocol(r, c) = Goto(r, HttpTable[r.state][2])
      BY <1>1, <2>1, <3>2 DEF LineProtocol
    <3> QED
      BY <1>1, <3>1, <3>3
  <2>2. CASE c # d /\ r.state = "sw_http" /\ c = "SP"
    <3>1. SpaceTo(t, i + 1, sh)
      BY <2>2, ToSpace DEF LineSoFar
    <3>2. LineSoFar(t, r.state, i + 1, sh)
      BY <2>2, <3>1 DEF LineSoFar
    <3>3. LineFound(t, r, i + 1, sh)
      BY <3>2, StateFound
    <3> QED
      BY <1>1, <2>2, <3>3 DEF LineProtocol
  <2>3. CASE c # d /\ ~ (r.state = "sw_http" /\ c = "SP")
    <3>1. LineFound(t, Return(r, "SGX_HTTP_PARSE_INVALID_REQUEST"), i + 1, sh)
      BY ErrorFound
    <3> QED
      BY <1>1, <2>3, <3>1 DEF LineProtocol
  <2> QED
    BY <2>1, <2>2, <2>3
<1>2. CASE r.state = "sw_http"
  <2>1. HttpTable[r.state][1] = "H" /\ HttpTable[r.state][2] = "sw_http_H"
    BY <1>2 DEF HttpTable
  <2>2. ASSUME c = "H" PROVE LineSoFar(t, "sw_http_H", i + 1, sh)
    <3>1. SpaceTo(t, i, sh)
      BY <1>2 DEF LineSoFar
    <3>2. ProtoTo(t, i + 1, 1, sh)
      BY <2>2, <3>1, ToProto
    <3> QED
      BY <3>2 DEF LineSoFar
  <2> QED
    BY <1>1, <2>1, <2>2
<1>3. CASE r.state = "sw_http_H"
  <2>1. HttpTable[r.state][1] = "T" /\ HttpTable[r.state][2] = "sw_http_HT"
    BY <1>3 DEF HttpTable
  <2>2. ASSUME c = "T" PROVE LineSoFar(t, "sw_http_HT", i + 1, sh)
    <3>1. ProtoTo(t, i, 1, sh)
      BY <1>3 DEF LineSoFar
    <3>2. ProtoTo(t, i + 1, 2, sh)
      BY <2>2, <3>1, ToProto
    <3> QED
      BY <3>2 DEF LineSoFar
  <2> QED
    BY <1>1, <2>1, <2>2
<1>4. CASE r.state = "sw_http_HT"
  <2>1. HttpTable[r.state][1] = "T" /\ HttpTable[r.state][2] = "sw_http_HTT"
    BY <1>4 DEF HttpTable
  <2>2. ASSUME c = "T" PROVE LineSoFar(t, "sw_http_HTT", i + 1, sh)
    <3>1. ProtoTo(t, i, 2, sh)
      BY <1>4 DEF LineSoFar
    <3>2. ProtoTo(t, i + 1, 3, sh)
      BY <2>2, <3>1, ToProto
    <3> QED
      BY <3>2 DEF LineSoFar
  <2> QED
    BY <1>1, <2>1, <2>2
<1>5. CASE r.state = "sw_http_HTT"
  <2>1. HttpTable[r.state][1] = "P" /\ HttpTable[r.state][2] = "sw_http_HTTP"
    BY <1>5 DEF HttpTable
  <2>2. ASSUME c = "P" PROVE LineSoFar(t, "sw_http_HTTP", i + 1, sh)
    <3>1. ProtoTo(t, i, 3, sh)
      BY <1>5 DEF LineSoFar
    <3>2. ProtoTo(t, i + 1, 4, sh)
      BY <2>2, <3>1, ToProto
    <3> QED
      BY <3>2 DEF LineSoFar
  <2> QED
    BY <1>1, <2>1, <2>2
<1>6. CASE r.state = "sw_http_HTTP"
  <2>1. HttpTable[r.state][1] = "/" /\ HttpTable[r.state][2] = "sw_first_major_digit"
    BY <1>6 DEF HttpTable
  <2>2. ASSUME c = "/" PROVE LineSoFar(t, "sw_first_major_digit", i + 1, sh)
    <3>1. ProtoTo(t, i, 4, sh)
      BY <1>6 DEF LineSoFar
    <3>2. ProtoTo(t, i + 1, 5, sh)
      BY <2>2, <3>1, ToProto
    <3> QED
      BY <3>2 DEF LineSoFar
  <2> QED
    BY <1>1, <2>1, <2>2
<1> QED
  BY <1>2, <1>3, <1>4, <1>5, <1>6

\* A byte of the version or behind it.
LEMMA VersionFound ==
  ASSUME NEW r \in FieldsType(LineStates), NEW t, NEW i \in Nat, NEW sh \in BOOLEAN, NEW c \in ByteClasses,
         c = t[i + 1], r.rc = "SGX_AGAIN", LineSoFar(t, r.state, i, sh),
         r.state \in {"sw_first_major_digit", "sw_major_digit", "sw_first_minor_digit",
                      "sw_minor_digit", "sw_spaces_after_digit"}
  PROVE  LineFound(t, LineVersion(r, c), i + 1, sh)
<1> PICK q : q = LineVersion(r, c)
  OBVIOUS
<1>1. CASE r.state = "sw_first_major_digit" /\ c \in Digits \ {"0"}
  <2>1. q = [r EXCEPT !.http_major = Digit(c), !.state = "sw_major_digit"]
    BY <1>1 DEF LineVersion
  <2>2. q.rc = "SGX_AGAIN" /\ q.state = "sw_major_digit"
    BY <2>1 DEF FieldsType
  <2>3. MajorTo(t, i + 1, sh)
    BY <1>1, ToMajor DEF LineSoFar
  <2>4. LineSoFar(t, q.state, i + 1, sh)
    BY <2>2, <2>3 DEF LineSoFar
  <2> QED
    BY <2>2, <2>4, StateFound
<1>2. CASE r.state = "sw_major_digit" /\ c = "."
  <2>1. q = Goto(r, "sw_first_minor_digit")
    BY <1>2 DEF LineVersion, Digits
  <2>2. DotTo(t, i + 1, sh)
    BY <1>2, ToNext DEF LineSoFar
  <2>3. LineSoFar(t, "sw_first_minor_digit", i + 1, sh)
    BY <2>2 DEF LineSoFar
  <2> QED
    BY <2>1, <2>3, GotoFound
<1>3. CASE r.state = "sw_major_digit" /\ c \in Digits
  <2>1. q = [r EXCEPT !.http_major = MoreMajor(@)]
    BY <1>3 DEF LineVersion, Digits
  <2>2. q.rc = "SGX_AGAIN" /\ q.state = "sw_major_digit"
    BY <1>3, <2>1 DEF FieldsType
  <2>3. MajorTo(t, i + 1, sh)
    BY <1>3, ToMajor DEF LineSoFar
  <2>4. LineSoFar(t, q.state, i + 1, sh)
    BY <2>2, <2>3 DEF LineSoFar
  <2> QED
    BY <2>2, <2>4, StateFound
<1>4. CASE r.state \in {"sw_first_minor_digit", "sw_minor_digit"} /\ c \in Digits
  <2>1. q.rc = "SGX_AGAIN" /\ q.state = "sw_minor_digit"
    <3>1. CASE r.state = "sw_first_minor_digit"
      <4>1. q = [r EXCEPT !.http_minor = Digit(c), !.state = "sw_minor_digit"]
        BY <1>4, <3>1 DEF LineVersion
      <4> QED
        BY <4>1 DEF FieldsType
    <3>2. CASE r.state = "sw_minor_digit"
      <4>1. q = [r EXCEPT !.http_minor = @ * 10 + Digit(c)]
        BY <1>4, <3>2 DEF LineVersion, Digits
      <4> QED
        BY <3>2, <4>1 DEF FieldsType
    <3> QED
      BY <1>4, <3>1, <3>2
  <2>2. MinorTo(t, i + 1, sh)
    BY <1>4, ToMinor DEF LineSoFar
  <2>3. LineSoFar(t, q.state, i + 1, sh)
    BY <2>1, <2>2 DEF LineSoFar
  <2> QED
    BY <2>1, <2>3, StateFound
<1>5. CASE r.state \in {"sw_minor_digit", "sw_spaces_after_digit"} /\ c \in {"LF", "CR", "SP"}
  <2>1. BlanksTo(t, i, sh)
    BY <1>5, ToBlanks DEF LineSoFar
  <2>2. CASE c = "LF"
    <3>1. q = Return(r, "SGX_OK")
      BY <1>5, <2>2 DEF LineVersion, Digits
    <3>2. q.rc = "SGX_OK"
      BY <3>1 DEF Return, FieldsType
    <3>3. LineTo(t, i + 1, sh)
      BY <2>1, <2>2, ToNext
    <3> QED
      BY <3>2, <3>3 DEF LineFound
  <2>3. CASE c = "CR"
    <3>1. q = Goto(r, "sw_almost_done")
      BY <1>5, <2>3 DEF LineVersion, Digits
    <3>2. CrTo(t, i + 1, sh)
      BY <2>1, <2>3, ToNext
    <3>3. LineSoFar(t, "sw_almost_done", i + 1, sh)
      BY <3>2 DEF LineSoFar
    <3> QED
      BY <3>1, <3>3, GotoFound
  <2>4. CASE c = "SP"
    <3>1. q = Goto(r, "sw_spaces_after_digit")
      BY <1>5, <2>4 DEF LineVersion, Digits
    <3>2. BlanksTo(t, i + 1, sh)
      BY <2>1, <2>4, ToBlanks
    <3>3. LineSoFar(t, "sw_spaces_after_digit", i + 1, sh)
      BY <3>2 DEF LineSoFar
    <3> QED
      BY <3>1, <3>3, GotoFound
  <2> QED
    BY <1>5, <2>2, <2>3, <2>4
<1>6. CASE /\ ~ (r.state = "sw_first_major_digit" /\ c \in Digits \ {"0"})
           /\ ~ (r.state = "sw_major_digit" /\ c = ".")
           /\ ~ (r.state = "sw_major_digit" /\ c \in Digits)
           /\ ~ (r.state \in {"sw_first_minor_digit", "sw_minor_digit"} /\ c \in Digits)
           /\ ~ (r.state \in {"sw_minor_digit", "sw_spaces_after_digit"} /\ c \in {"LF", "CR", "SP"})
  <2>1. q = Return(r, "SGX_HTTP_PARSE_INVALID_REQUEST")
    BY <1>6 DEF LineVersion
  <2> QED
    BY <2>1, ErrorFound
<1> QED
  BY <1>1, <1>2, <1>3, <1>4, <1>5, <1>6

\* A turn of the loop, on any byte.
LEMMA LineByteFound ==
  ASSUME NEW r \in FieldsType(LineStates), NEW b, NEW t, NEW i \in Nat, NEW sh \in BOOLEAN,
         b[Place(i)] = t[i + 1], t[i + 1] \in ByteClasses,
         r.rc = "SGX_AGAIN", LineSoFar(t, r.state, i, sh)
  PROVE  LineFound(t, LineByte(r, b, i, sh), i + 1, sh)
<1>1. PICK c \in ByteClasses : c = b[Place(i)] /\ c = t[i + 1]
  OBVIOUS
<1>2. PICK p : p = Place(i)
  OBVIOUS
<1>3. CASE r.state = "sw_start"
  <2>1. LineFound(t, LineStart(r, p, c, sh), i + 1, sh)
    BY <1>1, <1>3, StartFound DEF LineSoFar
  <2> QED
    BY <1>1, <1>2, <1>3, <2>1, LineByteIs
<1>4. CASE r.state = "sw_method"
  <2>1. LineFound(t, LineMethod(r, b, p, c, sh), i + 1, sh)
    BY <1>1, <1>4, StartFound DEF LineSoFar
  <2> QED
    BY <1>1, <1>2, <1>4, <2>1, LineByteIs
<1>5. CASE r.state = "sw_spaces_before_uri"
  <2>1. LineFound(t, BeforeUri(r, p, c), i + 1, sh)
    BY <1>1, <1>5, UriFound DEF LineSoFar
  <2> QED
    BY <1>1, <1>2, <1>5, <2>1, LineByteIs
<1>6. CASE r.state = "sw_after_slash_in_uri"
  <2>1. LineFound(t, InUri(r, p, c), i + 1, sh)
    BY <1>1, <1>6, UriFound DEF LineSoFar
  <2> QED
    BY <1>1, <1>2, <1>6, <2>1, LineByteIs
<1>7. CASE r.state \in {"sw_http", "sw_http_H", "sw_http_HT", "sw_http_HTT", "sw_http_HTTP"}
  <2>1. LineFound(t, LineProtocol(r, c), i + 1, sh)
    BY <1>1, <1>7, ProtocolFound
  <2> QED
    BY <1>1, <1>7, <2>1, LineByteIs
<1>8. CASE r.state \in {"sw_first_major_digit", "sw_major_digit", "sw_first_minor_digit",
                        "sw_minor_digit", "sw_spaces_after_digit"}
  <2>1. LineFound(t, LineVersion(r, c), i + 1, sh)
    BY <1>1, <1>8, VersionFound
  <2> QED
    BY <1>1, <1>8, <2>1, LineByteIs
<1>9. CASE r.state = "sw_almost_done"
  <2>1. PICK x : x = LineAlmostDone(r, p, c)
                 /\ x.rc = IF c = "LF" THEN "SGX_OK" ELSE "SGX_HTTP_PARSE_INVALID_REQUEST"
    <3>1. PICK k : k = IF c = "LF" THEN "SGX_OK" ELSE "SGX_HTTP_PARSE_INVALID_REQUEST"
      OBVIOUS
    <3>2. LineAlmostDone(r, p, c) = [r EXCEPT !.request_end = p - 1, !.rc = k]
      BY <3>1 DEF LineAlmostDone, Return
    <3>3. LineAlmostDone(r, p, c).rc = k
      BY <3>2 DEF FieldsType
    <3> QED
      BY <3>1, <3>3
  <2>2. c = "LF" => LineTo(t, i + 1, sh)
    BY <1>1, <1>9, ToNext DEF LineSoFar
  <2>3. LineFound(t, x, i + 1, sh)
    BY <2>1, <2>2 DEF LineFound
  <2> QED
    BY <1>1, <1>2, <1>9, <2>1, <2>3, LineByteIs
<1>10. r.state \in LineStates
  BY DEF FieldsType
<1> QED
  BY <1>3, <1>4, <1>5, <1>6, <1>7, <1>8, <1>9, <1>10 DEF LineStates

\* A call of the parser, on any request line.
LEMMA LineCallFound ==
  ASSUME NEW a \in RequestType, NEW r \in FieldsType(LineStates), NEW b, NEW from \in Nat, NEW to \in Nat,
         from <= to, to <= Len(Text(a)), NEW sh \in BOOLEAN, Holds(b, a, to), to < from + SGX_MAX_BUF,
         LineSoFar(Text(a), r.state, from, sh),
         NEW q, q = sgx_http_parse_request_line(r, b, from, to, sh)
  PROVE  LineFound(Text(a), q, q.pos, sh)
<1>1. PICK f : /\ LineLoop(r, b, from, to - from, sh, f)
               /\ q = LineReturn(r, f[to - from], from)
  BY LineCall
<1>2. PICK m \in Nat : m = to - from
  OBVIOUS
<1>3. /\ f \in [0..m -> FieldsType(LineStates)]
      /\ f[0] = [r EXCEPT !.rc = "SGX_AGAIN", !.pos = from]
      /\ \A k \in 1..m : f[k] = LineTurn(f[k - 1], b, from, k, sh)
  BY <1>1, <1>2 DEF LineLoop
<1>4. PICK t \in Seq(ByteClasses) : t = Text(a)
  BY TextParts
<1> DEFINE Good == {k \in 0..m : /\ LineFound(t, f[k], f[k].pos, sh)
                                 /\ f[k].rc = "SGX_AGAIN" => f[k].pos = from + k}
<1>5. 0 \in Good
  <2>1. PICK g : g = f[0] /\ g = [r EXCEPT !.rc = "SGX_AGAIN", !.pos = from]
    BY <1>3
  <2>2. g.rc = "SGX_AGAIN" /\ g.pos = from /\ g.state = r.state
    BY <2>1 DEF FieldsType
  <2>3. LineFound(t, g, from, sh)
    BY <1>4, <2>2, StateFound
  <2>4. f[0].pos = from + 0
    BY <2>1, <2>2
  <2>5. LineFound(t, f[0], f[0].pos, sh)
    BY <2>1, <2>2, <2>3
  <2> QED
    BY <2>4, <2>5
<1>6. ASSUME NEW k \in 1..m, k - 1 \in Good PROVE k \in Good
  <2>1. PICK g \in FieldsType(LineStates) : g = f[k - 1]
    <3>1. k - 1 \in 0..m
      OBVIOUS
    <3> QED
      BY <1>3, <3>1
  <2>2. /\ f[k] = LineTurn(g, b, from, k, sh) /\ LineFound(t, g, g.pos, sh)
        /\ g.rc = "SGX_AGAIN" => g.pos = from + (k - 1)
    BY <1>3, <1>6, <2>1
  <2>3. CASE g.rc = "SGX_AGAIN"
    <3>1. PICK i \in Nat : i = from + (k - 1)
      OBVIOUS
    <3>2. i < to /\ i + 1 = from + k /\ from + k - 1 = i /\ i >= from
      BY <1>2, <3>1
    <3>3. b[Place(i)] = t[i + 1]
      <4>1. i \in 0..(to - 1) /\ i + SGX_MAX_BUF >= to
        BY <3>2, BufferAssumption
      <4> QED
        BY <1>4, <4>1 DEF Holds, ByteAt
    <3>4. t[i + 1] \in ByteClasses
      <4>1. i + 1 \in 1..Len(t)
        BY <1>4, <3>2
      <4> QED
        BY <4>1
    <3>5. PICK h \in FieldsType(LineStates) : h = LineByte(g, b, i, sh)
      BY LineByteTyped
    <3>6. LineSoFar(t, g.state, i, sh)
      BY <2>2, <2>3, <3>1 DEF LineFound
    <3>7. LineFound(t, h, i + 1, sh)
      BY <2>3, <3>3, <3>4, <3>5, <3>6, LineByteFound
    <3>8. PICK x : x = f[k] /\ x = [h EXCEPT !.pos = i + 1]
      BY <2>2, <2>3, <3>2, <3>5 DEF LineTurn
    <3>9. x.rc = h.rc /\ x.state = h.state /\ x.pos = i + 1
      BY <3>8 DEF FieldsType
    <3>10. LineFound(t, x, i + 1, sh)
      BY <3>7, <3>9 DEF LineFound
    <3>11. LineFound(t, f[k], f[k].pos, sh)
      BY <3>8, <3>9, <3>10
    <3>12. f[k].pos = from + k
      BY <3>2, <3>8, <3>9
    <3> QED
      BY <3>11, <3>12
  <2>4. CASE g.rc # "SGX_AGAIN"
    BY <2>1, <2>2, <2>4 DEF LineTurn
  <2> QED
    BY <2>3, <2>4
<1>7. m \in Good
  <2>1. PICK G : G = Good
    OBVIOUS
  <2> HIDE DEF Good
  <2>2. 0 \in G /\ \A k \in 1..m : k - 1 \in G => k \in G
    BY <1>5, <1>6, <2>1
  <2>3. m \in Nat /\ m \in 0..m
    OBVIOUS
  <2>4. \A k \in 0..m : k \in G
    BY ONLY <2>2, <2>3, Induct
  <2> QED
    BY <2>1, <2>3, <2>4
<1>8. PICK g \in FieldsType(LineStates) : g = f[m]
  BY <1>3
<1>9. LineFound(t, g, g.pos, sh)
  BY <1>7, <1>8
<1>10. q = LineReturn(r, g, from)
  BY <1>1, <1>2, <1>8
<1>11. CASE g.rc = "SGX_AGAIN"
  <2>1. q = g
    BY <1>10, <1>11, LineReturns
  <2> QED
    BY <1>4, <1>9, <2>1
<1>12. CASE g.rc # "SGX_AGAIN"
  <2>1. q.rc = g.rc /\ (g.rc = "SGX_OK" => q.pos = g.pos)
    <3>1. CASE g.rc = "SGX_OK"
      BY <1>10, <3>1, LineReturns
    <3>2. CASE g.rc # "SGX_OK"
      <4>1. g.rc \notin {"SGX_AGAIN", "SGX_OK"}
        BY <1>12, <3>2
      <4> QED
        BY <1>10, <3>2, <4>1, LineReturns
    <3> QED
      BY <3>1, <3>2
  <2> QED
    BY <1>4, <1>9, <1>12, <2>1 DEF LineFound
<1> QED
  BY <1>11, <1>12

-----------------------------------------------------------------------------
\* An empty line that ends with CR LF, after the end of another.
EmptyLine(t, n) == n >= 3 /\ t[n - 2] = "LF" /\ t[n - 1] = "CR" /\ t[n] = "LF"

\* What the last bytes are when the parser of the headers is in state s.
HeadersSoFar(t, s, n) ==
  /\ s = "sw_crlf" => n >= 1 /\ t[n] = "LF"
  /\ s = "sw_crlfcr" => n >= 2 /\ t[n - 1] = "LF" /\ t[n] = "CR"

\* What its loop has found when n bytes have been parsed.
HeadersFound(t, q, n) ==
  /\ q.rc = "SGX_AGAIN" => HeadersSoFar(t, q.state, n)
  /\ q.rc = "SGX_OK" => EmptyLine(t, n)

\* What a turn of the loop can make of the state and the code.
LEMMA BodyTurns ==
  ASSUME NEW r \in FieldsType(BodyStates), r.rc = "SGX_AGAIN", NEW b, NEW i \in Nat,
         NEW q, q = BodyByte(r, b, i), NEW c, c = b[Place(i)]
  PROVE  /\ q.rc = "SGX_AGAIN" /\ q.state = "sw_crlf" => c = "LF"
         /\ q.rc = "SGX_AGAIN" /\ q.state = "sw_crlfcr" => r.state = "sw_crlf" /\ c = "CR"
         /\ q.rc = "SGX_OK" => r.state = "sw_crlfcr" /\ c = "LF"
<1>1. r.state \in BodyStates
  BY DEF FieldsType
<1>2. CASE r.state = "sw_start"
  <2>1. q = r \/ q = [r EXCEPT !.key_start = Place(i), !.state = "sw_key"]
    BY <1>2 DEF BodyByte
  <2> QED
    BY <1>2, <2>1 DEF FieldsType
<1>3. CASE r.state = "sw_key"
  <2>1. \/ q = [r EXCEPT !.key_end = Place(i), !.state = "sw_spaces_before_colon"]
        \/ q = [r EXCEPT !.key_end = Place(i), !.state = "sw_spaces_after_colon"]
        \/ q = r
    BY <1>3 DEF BodyByte
  <2> QED
    BY <1>3, <2>1 DEF FieldsType
<1>4. CASE r.state = "sw_spaces_before_colon"
  <2>1. \/ q = r
        \/ q = [r EXCEPT !.state = "sw_spaces_after_colon"]
        \/ q = [r EXCEPT !.rc = "SGX_HTTP_PARSE_INVALID_HEADER"]
    BY <1>4 DEF BodyByte, Goto, Return
  <2> QED
    BY <1>4, <2>1 DEF FieldsType
<1>5. CASE r.state = "sw_spaces_after_colon"
  <2>1. q = r \/ q = [r EXCEPT !.value_start = Place(i), !.state = "sw_value"]
    BY <1>5 DEF BodyByte
  <2> QED
    BY <1>5, <2>1 DEF FieldsType
<1>6. CASE r.state = "sw_value"
  <2>1. \/ q = [r EXCEPT !.value_end = Place(i), !.state = "sw_cr"]
        \/ c = "LF" /\ q = [r EXCEPT !.value_end = Place(i), !.state = "sw_crlf"]
        \/ q = r
    BY <1>6 DEF BodyByte
  <2> QED
    BY <1>6, <2>1 DEF FieldsType
<1>7. CASE r.state = "sw_cr"
  <2>1. \/ c = "LF" /\ q = Goto(Save(r), "sw_crlf")
        \/ q = [r EXCEPT !.rc = "SGX_HTTP_PARSE_INVALID_HEADER"]
    BY <1>7 DEF BodyByte, Return
  <2>2. Goto(Save(r), "sw_crlf").state = "sw_crlf" /\ Goto(Save(r), "sw_crlf").rc = "SGX_AGAIN"
    BY DEF Goto, Save, FieldsType
  <2> QED
    BY <1>7, <2>1, <2>2 DEF FieldsType
<1>8. CASE r.state = "sw_crlf"
  <2>1. \/ c = "CR" /\ q = [r EXCEPT !.state = "sw_crlfcr"]
        \/ q = [r EXCEPT !.key_start = Place(i), !.state = "sw_key"]
    BY <1>8 DEF BodyByte, Goto
  <2> QED
    BY <1>8, <2>1 DEF FieldsType
<1>9. CASE r.state = "sw_crlfcr"
  <2>1. \/ c = "LF" /\ q = [r EXCEPT !.rc = "SGX_OK"]
        \/ q = [r EXCEPT !.rc = "SGX_HTTP_PARSE_INVALID_HEADER"]
    BY <1>9 DEF BodyByte, Return
  <2> QED
    BY <1>9, <2>1 DEF FieldsType
<1> QED
  BY <1>1, <1>2, <1>3, <1>4, <1>5, <1>6, <1>7, <1>8, <1>9 DEF BodyStates

\* A turn of the loop, on any byte.
LEMMA BodyByteFound ==
  ASSUME NEW r \in FieldsType(BodyStates), r.rc = "SGX_AGAIN", NEW b, NEW t, NEW i \in Nat,
         b[Place(i)] = t[i + 1], HeadersSoFar(t, r.state, i), NEW q, q = BodyByte(r, b, i)
  PROVE  HeadersFound(t, q, i + 1)
<1>1. PICK c : c = b[Place(i)] /\ c = t[i + 1]
  OBVIOUS
<1>2. /\ q.rc = "SGX_AGAIN" /\ q.state = "sw_crlf" => c = "LF"
      /\ q.rc = "SGX_AGAIN" /\ q.state = "sw_crlfcr" => r.state = "sw_crlf" /\ c = "CR"
      /\ q.rc = "SGX_OK" => r.state = "sw_crlfcr" /\ c = "LF"
  BY <1>1, BodyTurns
<1>3. PICK n \in Nat : n = i + 1 /\ n >= 1 /\ n - 1 = i /\ n - 2 = i - 1
  OBVIOUS
<1>4. r.state = "sw_crlf" => n >= 2 /\ t[n - 1] = "LF"
  BY <1>3 DEF HeadersSoFar
<1>5. r.state = "sw_crlfcr" => n >= 3 /\ t[n - 2] = "LF" /\ t[n - 1] = "CR"
  BY <1>3 DEF HeadersSoFar
<1>6. HeadersFound(t, q, n)
  BY <1>1, <1>2, <1>3, <1>4, <1>5 DEF HeadersFound, HeadersSoFar, EmptyLine
<1> QED
  BY <1>3, <1>6

\* A call of the parser of the headers, on any of them.
LEMMA BodyCallFound ==
  ASSUME NEW a \in RequestType, NEW r \in FieldsType(BodyStates), NEW b, NEW from \in Nat, NEW to \in Nat,
         from <= to, Holds(b, a, to), to < from + SGX_MAX_BUF, HeadersSoFar(Text(a), r.state, from),
         NEW q, q = sgx_http_parse_request_body(r, b, from, to)
  PROVE  HeadersFound(Text(a), q, q.pos)
<1>1. PICK f : /\ BodyLoop(r, b, from, to - from, f)
               /\ q = Stored(r, f[to - from], from)
  BY BodyCall
<1>2. PICK m \in Nat : m = to - from
  OBVIOUS
<1>3. /\ f \in [0..m -> FieldsType(BodyStates)]
      /\ f[0] = [r EXCEPT !.rc = "SGX_AGAIN", !.pos = from]
      /\ \A k \in 1..m : f[k] = BodyTurn(f[k - 1], b, from, k)
  BY <1>1, <1>2 DEF BodyLoop
<1>4. PICK t : t = Text(a)
  OBVIOUS
<1> DEFINE Good == {k \in 0..m : /\ HeadersFound(t, f[k], f[k].pos)
                                 /\ f[k].rc = "SGX_AGAIN" => f[k].pos = from + k}
<1>5. 0 \in Good
  <2>1. PICK g : g = f[0] /\ g = [r EXCEPT !.rc = "SGX_AGAIN", !.pos = from]
    BY <1>3
  <2>2. g.rc = "SGX_AGAIN" /\ g.pos = from /\ g.state = r.state
    BY <2>1 DEF FieldsType
  <2>3. HeadersFound(t, g, from)
    BY <1>4, <2>2 DEF HeadersFound
  <2>4. f[0].pos = from + 0
    BY <2>1, <2>2
  <2>5. HeadersFound(t, f[0], f[0].pos)
    BY <2>1, <2>2, <2>3
  <2> QED
    BY <2>4, <2>5
<1>6. ASSUME NEW k \in 1..m, k - 1 \in Good PROVE k \in Good
  <2>1. PICK g \in FieldsType(BodyStates) : g = f[k - 1]
    <3>1. k - 1 \in 0..m
      OBVIOUS
    <3> QED
      BY <1>3, <3>1
  <2>2. /\ f[k] = BodyTurn(g, b, from, k) /\ HeadersFound(t, g, g.pos)
        /\ g.rc = "SGX_AGAIN" => g.pos = from + (k - 1)
    BY <1>3, <1>6, <2>1
  <2>3. CASE g.rc = "SGX_AGAIN"
    <3>1. PICK i \in Nat : i = from + (k - 1)
      OBVIOUS
    <3>2. i < to /\ i + 1 = from + k /\ from + k - 1 = i /\ i >= from
      BY <1>2, <3>1
    <3>3. b[Place(i)] = t[i + 1]
      <4>1. i \in 0..(to - 1) /\ i + SGX_MAX_BUF >= to
        BY <3>2, BufferAssumption
      <4> QED
        BY <1>4, <4>1 DEF Holds, ByteAt
    <3>4. PICK h \in FieldsType(BodyStates) : h = BodyByte(g, b, i)
      BY BodyByteTyped
    <3>5. HeadersSoFar(t, g.state, i)
      BY <2>2, <2>3, <3>1 DEF HeadersFound
    <3>6. HeadersFound(t, h, i + 1)
      BY <2>3, <3>3, <3>4, <3>5, BodyByteFound
    <3>7. PICK x : x = f[k] /\ x = [h EXCEPT !.pos = i + 1]
      BY <2>2, <2>3, <3>2, <3>4 DEF BodyTurn
    <3>8. x.rc = h.rc /\ x.state = h.state /\ x.pos = i + 1
      BY <3>7 DEF FieldsType
    <3>9. HeadersFound(t, x, i + 1)
      BY <3>6, <3>8 DEF HeadersFound
    <3>10. HeadersFound(t, f[k], f[k].pos)
      BY <3>7, <3>8, <3>9
    <3>11. f[k].pos = from + k
      BY <3>2, <3>7, <3>8
    <3> QED
      BY <3>10, <3>11
  <2>4. CASE g.rc # "SGX_AGAIN"
    BY <2>1, <2>2, <2>4 DEF BodyTurn
  <2> QED
    BY <2>3, <2>4
<1>7. m \in Good
  <2> HIDE DEF Good
  <2> QED
    BY <1>5, <1>6, Induct
<1>8. PICK g \in FieldsType(BodyStates) : g = f[m]
  BY <1>3
<1>9. HeadersFound(t, g, g.pos)
  BY <1>7, <1>8
<1>10. q = Stored(r, g, from)
  BY <1>1, <1>2, <1>8
<1>11. CASE g.rc = "SGX_AGAIN"
  <2>1. q = g
    BY <1>10, <1>11 DEF Stored
  <2> QED
    BY <1>4, <1>9, <2>1
<1>12. CASE g.rc = "SGX_OK"
  <2>1. q = [g EXCEPT !.state = "sw_start"]
    BY <1>10, <1>12 DEF Stored
  <2>2. q.rc = "SGX_OK" /\ q.pos = g.pos
    BY <1>12, <2>1 DEF FieldsType
  <2> QED
    BY <1>4, <1>9, <1>12, <2>2 DEF HeadersFound
<1>13. CASE g.rc \notin {"SGX_AGAIN", "SGX_OK"}
  <2>1. q = [g EXCEPT !.state = r.state, !.pos = from]
    BY <1>10, <1>13 DEF Stored
  <2>2. q.rc = g.rc
    BY <2>1 DEF FieldsType
  <2> QED
    BY <1>13, <2>2 DEF HeadersFound
<1> QED
  BY <1>11, <1>12, <1>13

(***************************************************************************)
(* The invariant for what is accepted: what the bytes parsed so far are,   *)
(* in each state of the two parsers, and what they were when the parsers   *)
(* returned SGX_OK.                                                        *)
(***************************************************************************)
AcceptInv ==
  /\ phase = "line" => LineSoFar(Text(asked), request.state, pos, shifted)
  /\ phase = "headers" => HeadersSoFar(Text(asked), request.state, pos)
  /\ phase \in {"headers"} \cup Complete => \E n \in 0..pos : LineTo(Text(asked), n, shifted)
  /\ phase \in Complete => EmptyLine(Text(asked), pos)

\* Nothing has been parsed at first.
LEMMA AcceptInitInv == ConnInit => AcceptInv
<1> SUFFICES ASSUME ConnInit PROVE AcceptInv
  OBVIOUS
<1>1. pos = 0 /\ phase = "line" /\ request.state = "sw_start"
  BY DEF ConnInit, Init, NewRequest
<1>2. AllIn(Text(asked), 0, 0, Ends)
  BY AllInNone
<1>3. LineSoFar(Text(asked), request.state, pos, shifted)
  BY <1>1, <1>2 DEF LineSoFar
<1> QED
  BY <1>1, <1>3 DEF AcceptInv, Complete

\* What a call of a parser needs of the ring.
LEMMA ForParsing ==
  ASSUME ConnInv
  PROVE  /\ pos \in Nat /\ last \in Nat /\ pos <= last /\ last < pos + SGX_MAX_BUF
         /\ asked \in RequestType /\ last <= Len(Text(asked)) /\ Holds(buf, asked, last)
         /\ shifted \in BOOLEAN
<1>1. IInv /\ ConnType /\ SentIsText
  BY DEF ConnInv
<1>2. pos \in Nat /\ last \in Nat /\ pos <= last /\ last < pos + SGX_MAX_BUF
  BY <1>1, BufferAssumption DEF IInv, TypeOK, NoOverflow
<1>3. asked \in RequestType /\ shifted \in BOOLEAN
  BY <1>1, TextFacts DEF ConnType
<1>4. Holds(buf, asked, last)
  BY <1>1, RingHolds
<1> QED
  BY <1>1, <1>2, <1>3, <1>4 DEF SentIsText

\* Every step keeps it.
LEMMA AcceptNextInv ==
  ASSUME ConnInv, AcceptInv, [ConnNext]_connVars
  PROVE  AcceptInv'
<1>1. ASSUME UNCHANGED <<pos, phase, request, asked, shifted>>
      PROVE  AcceptInv'
  BY <1>1 DEF AcceptInv
<1>2. CASE Readable
  BY <1>1, <1>2 DEF Readable, ReadStep, Run
<1>3. ASSUME NEW n \in 1..(Len(Text(asked)) - last), Receive(n)
      PROVE  AcceptInv'
  BY <1>1, <1>3 DEF Receive, ReadStep, Read
<1>4. CASE Received
  BY <1>1, <1>4 DEF Received, ReadStep, ReadAgain
<1>5. CASE ReadStops
  BY <1>1, <1>5 DEF ReadStops, ReadStep, ReadNothing, ReadEnd, ReadFails, Err
<1>6. CASE ParseLine
  <2>1. PICK r : /\ r = sgx_http_parse_request_line(request, buf, pos, last, shifted)
                 /\ Parsed(r, "headers") /\ phase = "line"
    BY <1>6 DEF ParseLine
  <2>2. request \in FieldsType(LineStates)
    BY <2>1 DEF ConnInv, ConnType
  <2>3. LineFound(Text(asked), r, r.pos, shifted)
    BY <2>1, <2>2, ForParsing, LineCallFound DEF AcceptInv
  <2>4. r.pos \in Nat /\ (r.rc = "SGX_OK" => r.state = "sw_start")
    <3>1. r \in FieldsType(LineStates) /\ (r.rc = "SGX_OK" => r.state = "sw_start")
      BY <2>1, <2>2, ForParsing, LineResult
    <3> QED
      BY <3>1 DEF FieldsType
  <2>5. /\ pos' = r.pos /\ request' = r /\ asked' = asked /\ shifted' = shifted
        /\ phase' = CASE r.rc = "SGX_AGAIN" -> "line" [] r.rc = "SGX_OK" -> "headers" [] OTHER -> "refused"
    BY <2>1 DEF Parsed
  <2>6. CASE r.rc = "SGX_AGAIN"
    <3>1. phase' = "line" /\ LineSoFar(Text(asked), r.state, r.pos, shifted)
      BY <2>3, <2>5, <2>6 DEF LineFound
    <3> QED
      BY <2>5, <3>1 DEF AcceptInv, Complete
  <2>7. CASE r.rc = "SGX_OK"
    <3>1. phase' = "headers" /\ LineTo(Text(asked), r.pos, shifted)
      BY <2>3, <2>5, <2>7 DEF LineFound
    <3>2. HeadersSoFar(Text(asked), r.state, r.pos)
      BY <2>4, <2>7 DEF HeadersSoFar
    <3>3. \E n \in 0..r.pos : LineTo(Text(asked), n, shifted)
      <4>1. r.pos \in 0..r.pos
        BY <2>4
      <4> QED
        BY <3>1, <4>1
    <3> QED
      BY <2>5, <3>1, <3>2, <3>3 DEF AcceptInv, Complete
  <2>8. CASE r.rc \notin {"SGX_AGAIN", "SGX_OK"}
    <3>1. phase' = "refused"
      BY <2>5, <2>8
    <3> QED
      BY <3>1 DEF AcceptInv, Complete
  <2> QED
    BY <2>6, <2>7, <2>8
<1>7. CASE ParseHeaders
  <2>1. PICK r : /\ r = sgx_http_parse_request_body(request, buf, pos, last)
                 /\ Parsed(r, "done") /\ phase = "headers"
    BY <1>7 DEF ParseHeaders
  <2>2. request \in FieldsType(BodyStates)
    BY <2>1 DEF ConnInv, ConnType
  <2>3. HeadersFound(Text(asked), r, r.pos)
    BY <2>1, <2>2, ForParsing, BodyCallFound DEF AcceptInv
  <2>4. pos \in Nat /\ r.pos \in pos..last
    BY <2>1, <2>2, ForParsing, BodyResult
  <2>5. /\ pos' = r.pos /\ request' = r /\ asked' = asked /\ shifted' = shifted
        /\ phase' = CASE r.rc = "SGX_AGAIN" -> "headers" [] r.rc = "SGX_OK" -> "done" [] OTHER -> "refused"
    BY <2>1 DEF Parsed
  <2>6. \E n \in 0..r.pos : LineTo(Text(asked), n, shifted)
    <3>1. PICK n \in 0..pos : LineTo(Text(asked), n, shifted)
      BY <2>1 DEF AcceptInv
    <3>2. n \in 0..r.pos
      BY <2>4, ForParsing
    <3> QED
      BY <3>1, <3>2
  <2>7. CASE r.rc = "SGX_AGAIN"
    <3>1. phase' = "headers" /\ HeadersSoFar(Text(asked), r.state, r.pos)
      BY <2>3, <2>5, <2>7 DEF HeadersFound
    <3> QED
      BY <2>5, <2>6, <3>1 DEF AcceptInv, Complete
  <2>8. CASE r.rc = "SGX_OK"
    <3>1. phase' = "done" /\ EmptyLine(Text(asked), r.pos)
      BY <2>3, <2>5, <2>8 DEF HeadersFound
    <3> QED
      BY <2>5, <2>6, <3>1 DEF AcceptInv
  <2>9. CASE r.rc \notin {"SGX_AGAIN", "SGX_OK"}
    <3>1. phase' = "refused"
      BY <2>5, <2>9
    <3> QED
      BY <3>1 DEF AcceptInv, Complete
  <2> QED
    BY <2>7, <2>8, <2>9
<1>8. CASE HandleHeader
  <2>1. /\ phase \in Complete /\ phase' \in Complete \ {"done"}
        /\ pos' = pos /\ asked' = asked /\ shifted' = shifted
    BY <1>8 DEF HandleHeader, Complete, vars
  <2>2. phase' # "line" /\ phase' # "headers"
    BY <2>1 DEF Complete
  <2> QED
    BY <2>1, <2>2 DEF AcceptInv
<1>9. CASE UNCHANGED connVars
  BY <1>1, <1>9 DEF connVars, vars
<1> QED
  BY <1>2, <1>3, <1>4, <1>5, <1>6, <1>7, <1>8, <1>9 DEF ConnNext

\* No well-formed request is refused, except for its method by a build where the shift
\* of lines 55 and 91 of http_parse.c is not zero; and of any request, well formed or
\* not, what is taken for a request line is one, and what is taken for the end of the
\* headers an empty line.
THEOREM WellFormedIsAccepted == ConnSpec => []AcceptsWellFormed
<1>1. ASSUME ConnInv, AcceptInv PROVE AcceptsWellFormed
  <2>1. phase = "refused" /\ WellFormed(asked) => shifted /\ BytesOf(asked.method) # {"_"}
    BY <1>1 DEF ConnInv, Progress
  <2>2. ASSUME phase \in Complete
        PROVE  pos >= 3 /\ SubSeq(Text(asked), pos - 2, pos) = <<"LF", "CR", "LF">>
    <3>1. PICK t : t = Text(asked)
      OBVIOUS
    <3>2. PICK n \in Nat : n = pos /\ n >= 3 /\ t[n - 2] = "LF" /\ t[n - 1] = "CR" /\ t[n] = "LF"
      BY <1>1, <2>2, <3>1, ForParsing DEF AcceptInv, EmptyLine
    <3>3. SubSeq(t, n - 2, n) = [k \in 1..3 |-> t[n - 2 + k - 1]]
      <4>1. n - (n - 2) + 1 = 3
        OBVIOUS
      <4> QED
        BY <4>1
    <3>4. n - 2 + 1 - 1 = n - 2 /\ n - 2 + 2 - 1 = n - 1 /\ n - 2 + 3 - 1 = n
      OBVIOUS
    <3>5. [k \in 1..3 |-> t[n - 2 + k - 1]] = <<"LF", "CR", "LF">>
      BY <3>2, <3>4
    <3> QED
      BY <3>1, <3>2, <3>3, <3>5
  <2> QED
    BY <1>1, <2>1, <2>2 DEF AcceptsWellFormed, AcceptInv
<1>2. ConnInv /\ AcceptInv => AcceptsWellFormed
  BY <1>1
<1>3. ConnInit => AcceptInv
  BY AcceptInitInv
<1>4. ConnInv /\ AcceptInv /\ [ConnNext]_connVars => AcceptInv'
  BY AcceptNextInv
<1> QED
  BY <1>2, <1>3, <1>4, ConnInvariant, PTL DEF ConnSpec

-----------------------------------------------------------------------------
(* The headers that are in their places, and what the handlers make of them *)

\* s is the beginning of t, byte by byte.
Begins(s, t) == Len(s) <= Len(t) /\ \A k \in 1..Len(s) : s[k] = t[k]

\* This is what the community modules call a prefix.
LEMMA BeginsIsPrefix ==
  ASSUME NEW B, NEW s \in Seq(B), NEW C, NEW t \in Seq(C)
  PROVE  Begins(s, t) <=> IsPrefix(s, t)
<1>1. PICK n \in Nat : n = Len(s)
  OBVIOUS
<1>2. SubSeq(s, 1, n) = [k \in 1..n |-> s[k]]
  BY <1>1
<1>3. ASSUME n <= Len(t) PROVE SubSeq(t, 1, n) = [k \in 1..n |-> t[k]]
  BY <1>3
<1>4. ASSUME n <= Len(t)
      PROVE  SubSeq(s, 1, n) = SubSeq(t, 1, n) <=> \A k \in 1..n : s[k] = t[k]
  BY <1>2, <1>3, <1>4
<1> QED
  BY <1>1, <1>4 DEF Begins, IsPrefix

\* A piece shorter than the ring that ends behind the place where it begins does not
\* go round its end.
LEMMA InOnePiece ==
  ASSUME NEW s \in Nat, NEW n \in Nat, n < SGX_MAX_BUF, Place(s) < Place(s + n)
  PROVE  Place(s + n) = Place(s) + n /\ Place(s) + n < SGX_MAX_BUF
<1>1. s + n \in Nat
  OBVIOUS
<1>2. PICK a \in Nat, r \in 0..(SGX_MAX_BUF - 1) :
        s = SGX_MAX_BUF * a + r /\ Place(s) = r
  BY Division
<1>3. PICK c \in Nat, h \in 0..(SGX_MAX_BUF - 1) :
        s + n = SGX_MAX_BUF * c + h /\ Place(s + n) = h
  BY <1>1, Division
<1>4. r + n - h = SGX_MAX_BUF * (c - a)
  BY <1>2, <1>3, BufferAssumption
<1>5. r < h
  BY <1>2, <1>3
<1>6. c - a \in Int /\ r + n - h \in Int
      /\ -SGX_MAX_BUF < r + n - h /\ r + n - h < SGX_MAX_BUF
  BY <1>5, BufferAssumption
<1>7. r + n - h = 0
  BY ONLY <1>4, <1>6, NoMultiple
<1>8. h = r + n /\ h < SGX_MAX_BUF
  BY <1>7, BufferAssumption
<1> QED
  BY <1>2, <1>3, <1>8

\* Such a piece can be read in the ring, where it has not been overwritten.
LEMMA PieceInRing ==
  ASSUME NEW a, NEW b, NEW l \in Nat, Holds(b, a, l),
         NEW t \in Seq(ByteClasses), NEW s \in Nat, Has(Text(a), s, t),
         s + Len(t) <= l, l <= s + SGX_MAX_BUF, Len(t) < SGX_MAX_BUF, Place(s) < Place(s + Len(t))
  PROVE  /\ Place(s) \in Nat /\ Place(s + Len(t)) = Place(s) + Len(t)
         /\ Place(s) + Len(t) < SGX_MAX_BUF
         /\ \A k \in 1..Len(t) : b[Place(s) + k - 1] = t[k]
<1>1. PICK n \in Nat : n = Len(t)
  OBVIOUS
<1>2. PICK p \in Nat : p = Place(s)
  BY PlaceInRing
<1>3. Place(s + n) = p + n /\ p + n < SGX_MAX_BUF
  BY <1>1, <1>2, InOnePiece
<1>4. ASSUME NEW k \in 1..n PROVE b[p + k - 1] = t[k]
  <2>1. PICK h \in Nat : h = k - 1 /\ h < n
    OBVIOUS
  <2>2. Place(s + h) = p + h
    <3>1. p + h < SGX_MAX_BUF
      BY <1>3, <2>1, BufferAssumption
    <3> QED
      BY <1>2, <3>1, PlacesFollow
  <2>3. s + h \in 0..(l - 1) /\ s + h + SGX_MAX_BUF >= l
    BY <1>1, <2>1, BufferAssumption
  <2>4. b[Place(s + h)] = ByteAt(a, s + h)
    BY <2>3 DEF Holds
  <2>5. s + h + 1 = s + k /\ p + k - 1 = p + h
    BY <2>1
  <2>6. Text(a)[s + k] = t[k]
    BY <1>1 DEF Has
  <2> QED
    BY <2>2, <2>4, <2>5, <2>6 DEF ByteAt
<1> QED
  BY <1>1, <1>2, <1>3, <1>4

\* The bytes of t are in b from p on.
InRing(b, p, t) ==
  p + Len(t) < SGX_MAX_BUF /\ \A k \in 1..Len(t) : b[p + k - 1] = t[k]

\* What comparing with it can be.
LEMMA PieceCompared ==
  ASSUME NEW b, NEW p \in Nat, NEW t \in Seq(ByteClasses), InRing(b, p, t), NEW end, end = p + Len(t),
         NEW text
  PROVE  Compared(b, p, end, text) = {Begins(t, text)}
<1>1. PICK n \in Nat : n = Len(t)
  OBVIOUS
<1>2. p <= p + n /\ p + n - p = n
  OBVIOUS
<1>3. \A k \in 1..n : p + k - 1 < SGX_MAX_BUF
  BY <1>1, BufferAssumption DEF InRing
<1>4. Agrees(b, p, n, text) = Begins(t, text)
  BY <1>1, <1>3 DEF Agrees, Begins, InRing
<1> QED
  BY <1>1, <1>2, <1>4 DEF Compared

\* What the comparisons make of a header that is read as it was sent.
ReadAs(h, g) ==
  /\ \A text : Compared(buf, h.key_start, h.key_end, text) = {Begins(g.key, text)}
  /\ \A text : Compared(buf, h.value_start, h.value_end, text) = {Begins(g.value, text)}

\* A kept header in its place.
LEMMA HeaderInPlace ==
  ASSUME NEW j \in Kept(asked), IInv, SentIsText, asked \in RequestType, WellFormed(asked),
         last = Len(Text(asked)), InPlace(j), NEW h, h = Places(asked, j)
  PROVE  ReadAs(h, asked.headers[j])
<1>1. j \in 1..Len(asked.headers) /\ HeadersWellFormed(asked)
  BY RequestTyped, Wellformedness DEF Kept
<1>2. PICK g \in HeaderType : g = asked.headers[j]
  BY <1>1, RequestTyped
<1>3. g.key \in Seq(ByteClasses) /\ g.value \in Seq(ByteClasses)
  BY DEF HeaderType
<1>4. HeaderPlaces(asked, j)
  BY <1>1, HeaderPlaced DEF HeadersWellFormed
<1>5. PICK s, ke, c, v, ve, e \in Nat :
           /\ s = HeaderAt(asked, j) /\ ke = KeyEnd(asked, j) /\ c = ColonAt(asked, j) /\ v = ValueAt(asked, j)
           /\ ve = ValueEndAt(asked, j) /\ e = HeaderAt(asked, j + 1)
           /\ s < ke /\ ke <= c /\ c < v /\ v < ve
           /\ (j \in Kept(asked) /\ e = ve + 2) \/ (j \notin Kept(asked) /\ e = ve + 1)
  BY <1>4, HeaderOrder
<1>6. s < ke /\ ke <= c /\ c < v /\ v < ve /\ e = ve + 2
  BY <1>5
<1>7. PICK l \in Nat : l = last /\ e <= l
  <2>1. HeaderAt(asked, j + 1) <= BodyEnd(asked)
    BY <1>1, TextParts DEF BodyEnd
  <2>2. PICK d \in Nat : d = BodyEnd(asked) /\ Len(Text(asked)) = d + 2
    BY BodyEnds
  <2>3. e <= d + 2
    BY <1>5, <2>1, <2>2
  <2> QED
    BY <2>2, <2>3
<1>8. l <= s + SGX_MAX_BUF /\ Place(s) < Place(ke) /\ Place(v) < Place(ve)
      /\ h.key_start = Place(s) /\ h.key_end = Place(ke)
      /\ h.value_start = Place(v) /\ h.value_end = Place(ve)
  <2>1. /\ h.key_start = Place(s) /\ h.key_end = Place(ke)
        /\ h.value_start = Place(v) /\ h.value_end = Place(ve)
    BY <1>5 DEF Places, KeyEnd, ValueEndAt
  <2>2. /\ h.key_start < h.key_end /\ h.value_start < h.value_end
        /\ last <= HeaderAt(asked, j) + SGX_MAX_BUF
    BY DEF InPlace
  <2> QED
    BY <1>5, <1>7, <2>1, <2>2
<1>9. PICK m, n \in Nat : m = Len(g.key) /\ n = Len(g.value) /\ ke = s + m /\ ve = v + n
  <2>1. Len(g.key) \in Nat /\ Len(g.value) \in Nat
    BY <1>3
  <2>2. ke = s + Len(g.key) /\ ve = v + Len(g.value)
    BY <1>2, <1>5 DEF KeyEnd, ValueEndAt
  <2> QED
    BY <2>1, <2>2
<1>10. Has(Text(asked), s, g.key) /\ Has(Text(asked), v, g.value)
  BY <1>1, <1>2, <1>5, HeaderParts
<1>11. Holds(buf, asked, l)
  BY <1>7, RingHolds
<1>12. /\ s + m <= l /\ m < SGX_MAX_BUF
       /\ v + n <= l /\ l <= v + SGX_MAX_BUF /\ n < SGX_MAX_BUF
  <2>1. PICK x \in Nat : x = SGX_MAX_BUF
    BY BufferAssumption
  <2>2. l <= s + x
    BY <1>8, <2>1
  <2>3. e <= l
    BY <1>7
  <2>4. s + m < l /\ v + n < l /\ s < v
    <3>1. ke = s + m /\ ve = v + n
      BY <1>9
    <3> QED
      BY <1>6, <2>3, <3>1
  <2>5. m < x /\ n < x /\ l <= v + x
    BY <2>2, <2>4
  <2> QED
    BY <2>1, <2>4, <2>5
<1>13. /\ s + Len(g.key) <= l /\ Len(g.key) < SGX_MAX_BUF /\ Place(s) < Place(s + Len(g.key))
       /\ v + Len(g.value) <= l /\ Len(g.value) < SGX_MAX_BUF /\ Place(v) < Place(v + Len(g.value))
       /\ l <= s + SGX_MAX_BUF /\ l <= v + SGX_MAX_BUF
       /\ h.key_start = Place(s) /\ h.key_end = Place(s + Len(g.key))
       /\ h.value_start = Place(v) /\ h.value_end = Place(v + Len(g.value))
  BY <1>8, <1>9, <1>12
<1>14. /\ Place(s) \in Nat /\ Place(s + Len(g.key)) = Place(s) + Len(g.key)
       /\ Place(s) + Len(g.key) < SGX_MAX_BUF
       /\ \A k \in 1..Len(g.key) : buf[Place(s) + k - 1] = g.key[k]
  <2>1. PICK t \in Seq(ByteClasses) : t = g.key
    BY <1>3
  <2>2. /\ Has(Text(asked), s, t) /\ s + Len(t) <= l /\ l <= s + SGX_MAX_BUF
        /\ Len(t) < SGX_MAX_BUF /\ Place(s) < Place(s + Len(t))
    BY <1>10, <1>13, <2>1
  <2> QED
    BY <1>11, <2>1, <2>2, PieceInRing
<1>15. /\ Place(v) \in Nat /\ Place(v + Len(g.value)) = Place(v) + Len(g.value)
       /\ Place(v) + Len(g.value) < SGX_MAX_BUF
       /\ \A k \in 1..Len(g.value) : buf[Place(v) + k - 1] = g.value[k]
  <2>1. PICK t \in Seq(ByteClasses) : t = g.value
    BY <1>3
  <2>2. /\ Has(Text(asked), v, t) /\ v + Len(t) <= l /\ l <= v + SGX_MAX_BUF
        /\ Len(t) < SGX_MAX_BUF /\ Place(v) < Place(v + Len(t))
    BY <1>10, <1>13, <2>1
  <2> QED
    BY <1>11, <2>1, <2>2, PieceInRing
<1>16. ASSUME NEW text PROVE Compared(buf, h.key_start, h.key_end, text) = {Begins(g.key, text)}
  <2>1. PICK p \in Nat, t \in Seq(ByteClasses) : p = Place(s) /\ t = g.key
    BY <1>3, <1>14
  <2>2. InRing(buf, p, t)
    BY <1>14, <2>1 DEF InRing
  <2>3. PICK end : end = p + Len(t)
    OBVIOUS
  <2>4. Compared(buf, p, end, text) = {Begins(t, text)}
    BY <2>2, <2>3, PieceCompared
  <2> QED
    BY <1>14, <1>13, <2>1, <2>3, <2>4
<1>17. ASSUME NEW text PROVE Compared(buf, h.value_start, h.value_end, text) = {Begins(g.value, text)}
  <2>1. PICK p \in Nat, t \in Seq(ByteClasses) : p = Place(v) /\ t = g.value
    BY <1>3, <1>15
  <2>2. InRing(buf, p, t)
    BY <1>15, <2>1 DEF InRing
  <2>3. PICK end : end = p + Len(t)
    OBVIOUS
  <2>4. Compared(buf, p, end, text) = {Begins(t, text)}
    BY <2>2, <2>3, PieceCompared
  <2> QED
    BY <1>15, <1>13, <2>1, <2>3, <2>4
<1> QED
  BY <1>2, <1>16, <1>17 DEF ReadAs

-----------------------------------------------------------------------------
\* What the handlers set.
OutType == [keep_alive : {0, 1}, modified : {0, 1}]

\* What a handler has set stays; keep_alive is set only by the one of Connection, and
\* modified reset only by the one of If-Modified-Since, for a date.
LEMMA HandledKeeps ==
  ASSUME NEW x \in OutType, NEW b, NEW h, NEW o \in Handled(b, h, x)
  PROVE  /\ o \in OutType
         /\ x.keep_alive = 1 => o.keep_alive = 1
         /\ x.modified = 0 => o.modified = 0
         /\ o.keep_alive = 1 =>
              \/ x.keep_alive = 1
              \/ /\ TRUE \in Compared(b, h.key_start, h.key_end, Connection)
                 /\ TRUE \in Compared(b, h.value_start, h.value_end, KeepAlive)
         /\ o.modified = 0 =>
              \/ x.modified = 0
              \/ /\ TRUE \in Compared(b, h.key_start, h.key_end, IfModifiedSince)
                 /\ \E text \in Dates : Agrees(b, h.value_start, Len(text), text)
<1>1. CASE o = x
  BY <1>1
<1>2. CASE /\ o \in process_connection(b, h, x)
           /\ TRUE \in Compared(b, h.key_start, h.key_end, Connection)
  <2>1. PICK same \in Compared(b, h.value_start, h.value_end, KeepAlive) :
          o = IF same THEN [x EXCEPT !.keep_alive = 1] ELSE x
    BY <1>2 DEF process_connection, ValueEnd
  <2>2. CASE same
    <3>1. o = [x EXCEPT !.keep_alive = 1]
      BY <2>1, <2>2
    <3>2. o \in OutType /\ o.keep_alive = 1 /\ o.modified = x.modified
      BY <3>1 DEF OutType
    <3>3. same = TRUE
      <4>1. same \in BOOLEAN
        BY <2>1 DEF Compared, Agrees
      <4> QED
        BY <2>2, <4>1
    <3> QED
      BY <1>2, <2>1, <3>2, <3>3
  <2>3. CASE ~ same
    BY <1>1, <2>1, <2>3
  <2> QED
    BY <2>2, <2>3
<1>3. CASE /\ o \in process_if_modified_since(b, h, x)
           /\ TRUE \in Compared(b, h.key_start, h.key_end, IfModifiedSince)
  <2>1. PICK taken \in Scanned(b, h.value_start), same \in BOOLEAN :
          o = IF taken /\ same THEN [x EXCEPT !.modified = 0] ELSE x
    BY <1>3 DEF process_if_modified_since
  <2>2. CASE taken /\ same
    <3>1. o = [x EXCEPT !.modified = 0]
      BY <2>1, <2>2
    <3>2. o \in OutType /\ o.keep_alive = x.keep_alive /\ o.modified = 0
      BY <3>1 DEF OutType
    <3>3. \E text \in Dates : Agrees(b, h.value_start, Len(text), text)
      <4>1. taken \in BOOLEAN
        BY <2>1 DEF Scanned
      <4>2. TRUE \in Scanned(b, h.value_start)
        BY <2>1, <2>2, <4>1
      <4> QED
        BY <4>2 DEF Scanned
    <3> QED
      BY <1>3, <3>2, <3>3
  <2>3. CASE ~ (taken /\ same)
    BY <1>1, <2>1, <2>3
  <2> QED
    BY <2>2, <2>3
<1> QED
  BY <1>1, <1>2, <1>3 DEF Handled

\* A key that is Connection, with a value that is keep-alive, sets keep_alive.
LEMMA ConnectionHandled ==
  ASSUME NEW x \in OutType, NEW b, NEW h, NEW o \in Handled(b, h, x),
         Compared(b, h.key_start, h.key_end, Host) = {FALSE},
         Compared(b, h.key_start, h.key_end, Connection) = {TRUE},
         Compared(b, h.value_start, h.value_end, KeepAlive) = {TRUE}
  PROVE  o.keep_alive = 1
<1>1. o \in process_connection(b, h, x)
  BY DEF Handled
<1>2. o = [x EXCEPT !.keep_alive = 1]
  BY <1>1 DEF process_connection, ValueEnd
<1> QED
  BY <1>2 DEF OutType

\* The first header on the list, and the rest of it.
LEMMA SavedHead ==
  ASSUME NEW a \in RequestType, NEW n \in 0..Len(a.headers)
  PROVE  /\ SavedUpTo(a, n) = <<>> => \A i \in Kept(a) : i > n
         /\ SavedUpTo(a, n) # <<>> =>
              \E k \in Kept(a) :
                /\ k \in 1..n
                /\ Head(SavedUpTo(a, n)) = Places(a, k) /\ Tail(SavedUpTo(a, n)) = SavedUpTo(a, k - 1)
                /\ \A i \in Kept(a) : i >= k => i = k \/ i > n
<1>1. PICK m \in Nat : m = Len(a.headers) /\ DOMAIN a.headers = 1..m
  BY RequestTyped
<1>2. Kept(a) \subseteq 1..m
  BY <1>1 DEF Kept
<1> DEFINE S(i) == SavedUpTo(a, i)
           First(i, k) == /\ k \in 1..i /\ Head(S(i)) = Places(a, k) /\ Tail(S(i)) = S(k - 1)
                          /\ \A y \in Kept(a) : y >= k => y = k \/ y > i
           Good == {i \in 0..m : /\ S(i) \in Seq(PlacesType)
                                 /\ S(i) = <<>> => \A y \in Kept(a) : y > i
                                 /\ S(i) # <<>> => \E k \in Kept(a) : First(i, k)}
<1>3. /\ S(0) = <<>>
      /\ \A i \in 1..m : S(i) = IF i \in Kept(a) THEN <<Places(a, i)>> \o S(i - 1) ELSE S(i - 1)
  BY <1>1, SavedUpToIs
<1>4. 0 \in Good
  <2>1. S(0) \in Seq(PlacesType)
    <3>1. <<>> \in Seq(PlacesType)
      OBVIOUS
    <3> QED
      BY <1>3, <3>1
  <2>2. \A y \in Kept(a) : y > 0
    BY <1>2
  <2> QED
    BY <1>3, <2>1, <2>2
<1>5. ASSUME NEW i \in 1..m, i - 1 \in Good PROVE i \in Good
  <2>1. PICK t \in Seq(PlacesType) : t = S(i - 1)
    BY <1>5
  <2>2. CASE i \in Kept(a)
    <3>1. PICK p \in PlacesType : p = Places(a, i)
      BY <1>1, PlacesTyped
    <3>2. S(i) = <<p>> \o t
      BY <1>3, <2>1, <2>2, <3>1
    <3>3. <<p>> \o t \in Seq(PlacesType) /\ <<p>> \o t # <<>> /\ Head(<<p>> \o t) = p /\ Tail(<<p>> \o t) = t
      OBVIOUS
    <3>4. \A y \in Kept(a) : y >= i => y = i \/ y > i
      BY <1>2
    <3>5. i \in 1..i
      OBVIOUS
    <3>6. First(i, i)
      BY <2>1, <3>1, <3>2, <3>3, <3>4, <3>5
    <3> HIDE DEF First, S
    <3> QED
      BY <2>2, <3>2, <3>3, <3>6
  <2>3. CASE i \notin Kept(a)
    <3>1. S(i) = S(i - 1)
      BY <1>3, <2>3
    <3>2. \A y \in Kept(a) : y > i - 1 => y > i
      BY <1>2, <2>3
    <3>3. S(i) = <<>> => \A y \in Kept(a) : y > i
      BY <1>5, <3>1, <3>2
    <3>4. ASSUME NEW k \in Kept(a), First(i - 1, k) PROVE First(i, k)
      <4>1. k \in 1..i
        BY <3>4
      <4>2. \A y \in Kept(a) : y >= k => y = k \/ y > i
        BY <3>2, <3>4
      <4> QED
        BY <3>1, <3>4, <4>1, <4>2
    <3>5. S(i - 1) # <<>> => \E k \in Kept(a) : First(i - 1, k)
      BY <1>5
    <3> HIDE DEF First, S
    <3> QED
      BY <2>1, <3>1, <3>3, <3>4, <3>5
  <2> QED
    BY <2>2, <2>3
<1>6. n \in Good
  <2> HIDE DEF Good
  <2> QED
    BY <1>1, <1>4, <1>5, Induct
<1> QED
  BY <1>6

\* A header is kept whose key and value are where those of Connection and keep-alive
\* begin.
SomeAsks ==
  \E i \in Kept(asked) :
    IsPrefix(asked.headers[i].key, Connection) /\ IsPrefix(asked.headers[i].value, KeepAlive)

\* A header is kept whose key is where If-Modified-Since begins, with a date.
SomeDated ==
  \E i \in Kept(asked) : IsPrefix(asked.headers[i].key, IfModifiedSince) /\ Dated(i)

\* The headers behind the n-th have been handled.
HandledDownTo(n) ==
  /\ "list" \in DOMAIN request /\ request.list = SavedUpTo(asked, n)
  /\ \A i \in Kept(asked) : i > n /\ AsksToKeepAlive(i) => out.keep_alive = 1
  /\ (\A i \in Kept(asked) : InPlace(i)) /\ out.keep_alive = 1 => SomeAsks
  /\ (\A i \in Kept(asked) : InPlace(i)) /\ out.modified = 0 => SomeDated

(***************************************************************************)
(* What is added for the handlers: nothing is read once a request is       *)
(* complete, all of it was there, and the list is what is left of that     *)
(* which the parser made.                                                  *)
(***************************************************************************)
HandleInv ==
  /\ out \in OutType
  /\ phase \in Complete => pc = "idle"
  /\ phase \in {"line", "headers"} => out = NewOut
  /\ WellFormed(asked) /\ phase \in {"done", "handling"} =>
       last = Len(Text(asked)) /\ \E n \in 0..Len(asked.headers) : HandledDownTo(n)

\* A header that has been handled is one that the handlers understood.
LEMMA HeaderHandled ==
  ASSUME IInv, SentIsText, asked \in RequestType, WellFormed(asked), last = Len(Text(asked)),
         out \in OutType, NEW k \in Kept(asked), NEW h, h = Places(asked, k),
         NEW o \in Handled(buf, h, out)
  PROVE  /\ o \in OutType
         /\ out.keep_alive = 1 => o.keep_alive = 1
         /\ out.modified = 0 => o.modified = 0
         /\ AsksToKeepAlive(k) => o.keep_alive = 1
         /\ InPlace(k) /\ o.keep_alive = 1 => out.keep_alive = 1 \/ SomeAsks
         /\ InPlace(k) /\ o.modified = 0 => out.modified = 0 \/ SomeDated
<1> DEFINE Key(text) == Compared(buf, h.key_start, h.key_end, text)
           Value(text) == Compared(buf, h.value_start, h.value_end, text)
<1>1. PICK g \in HeaderType : g = asked.headers[k]
  BY RequestTyped DEF Kept
<1>2. g.key \in Seq(ByteClasses) /\ g.value \in Seq(ByteClasses)
  BY DEF HeaderType
<1>3. /\ Host \in Seq(Bytes) /\ Connection \in Seq(Bytes) /\ IfModifiedSince \in Seq(Bytes)
      /\ KeepAlive \in Seq(Bytes)
      /\ ~ IsPrefix(Connection, Host)
  BY NamesAssumption
<1>4. \A s \in Seq(Bytes) : Begins(s, s)
  BY DEF Begins
<1>5. ~ Begins(Connection, Host)
  BY <1>3, BeginsIsPrefix
<1>6. ASSUME InPlace(k)
      PROVE  /\ \A text : Key(text) = {Begins(g.key, text)}
             /\ \A text : Value(text) = {Begins(g.value, text)}
  <2>1. SentIsText /\ asked \in RequestType /\ WellFormed(asked) /\ last = Len(Text(asked)) /\ InPlace(k)
    BY <1>6
  <2>2. ReadAs(h, asked.headers[k])
    BY <2>1, HeaderInPlace
  <2> QED
    BY <1>1, <2>2 DEF ReadAs
<1>7. ASSUME AsksToKeepAlive(k) PROVE o.keep_alive = 1
  <2>1. InPlace(k) /\ g.key = Connection /\ g.value = KeepAlive
    BY <1>1, <1>7 DEF AsksToKeepAlive
  <2>2. Key(Host) = {FALSE}
    <3>1. Key(Host) = {Begins(Connection, Host)}
      BY <1>6, <2>1
    <3>2. Begins(Connection, Host) = FALSE
      BY <1>5 DEF Begins
    <3> QED
      BY <3>1, <3>2
  <2>3. Key(Connection) = {TRUE}
    <3>1. Key(Connection) = {Begins(Connection, Connection)}
      BY <1>6, <2>1
    <3>2. Begins(Connection, Connection) = TRUE
      BY <1>3 DEF Begins
    <3> QED
      BY <3>1, <3>2
  <2>4. Value(KeepAlive) = {TRUE}
    <3>1. Value(KeepAlive) = {Begins(KeepAlive, KeepAlive)}
      BY <1>6, <2>1
    <3>2. Begins(KeepAlive, KeepAlive) = TRUE
      BY <1>3 DEF Begins
    <3> QED
      BY <3>1, <3>2
  <2> QED
    BY <2>2, <2>3, <2>4, ConnectionHandled
<1>8. ASSUME InPlace(k), o.modified = 0, out.modified # 0 PROVE SomeDated
  <2>1. /\ TRUE \in Key(IfModifiedSince)
        /\ \E text \in Dates : Agrees(buf, h.value_start, Len(text), text)
    BY <1>8, HandledKeeps
  <2>2. Begins(g.key, IfModifiedSince)
    <3>1. TRUE \in {Begins(g.key, IfModifiedSince)}
      BY <1>6, <1>8, <2>1
    <3> QED
      BY <3>1
  <2>3. IsPrefix(g.key, IfModifiedSince)
    BY <1>2, <1>3, <2>2, BeginsIsPrefix
  <2>4. Dated(k)
    <3>1. h.value_start = Place(ValueAt(asked, k))
      BY DEF Places
    <3> QED
      BY <2>1, <3>1 DEF Dated
  <2> QED
    BY <1>1, <2>3, <2>4 DEF SomeDated
<1>9. ASSUME InPlace(k), o.keep_alive = 1, out.keep_alive # 1 PROVE SomeAsks
  <2>1. TRUE \in Key(Connection) /\ TRUE \in Value(KeepAlive)
    BY <1>9, HandledKeeps
  <2>2. Begins(g.key, Connection) /\ Begins(g.value, KeepAlive)
    <3>1. TRUE \in {Begins(g.key, Connection)} /\ TRUE \in {Begins(g.value, KeepAlive)}
      BY <1>6, <1>9, <2>1
    <3> QED
      BY <3>1
  <2>3. IsPrefix(g.key, Connection) /\ IsPrefix(g.value, KeepAlive)
    BY <1>2, <1>3, <2>2, BeginsIsPrefix
  <2> QED
    BY <1>1, <2>3 DEF SomeAsks
<1>10. /\ o \in OutType
       /\ out.keep_alive = 1 => o.keep_alive = 1
       /\ out.modified = 0 => o.modified = 0
  BY HandledKeeps
<1> QED
  BY <1>7, <1>8, <1>9, <1>10

\* Nothing has been handled at first.
LEMMA HandleInitInv == ConnInit => HandleInv
  BY DEF ConnInit, HandleInv, NewOut, OutType, Complete

\* When the parser of the headers is through, none has been handled.
LEMMA NoneHandled ==
  ASSUME asked' \in RequestType, "list" \in DOMAIN request', request'.list = Saved(asked'), out' = NewOut
  PROVE  (\E n \in 0..Len(asked.headers) : HandledDownTo(n))'
<1>1. PICK m \in Nat : m = Len(asked'.headers) /\ DOMAIN asked'.headers = 1..m
  BY RequestTyped
<1>2. \A i \in Kept(asked') : ~ (i > m)
  BY <1>1 DEF Kept
<1>3. out'.keep_alive # 1 /\ out'.modified # 0
  BY DEF NewOut
<1>4. HandledDownTo(m)'
  BY <1>1, <1>2, <1>3 DEF HandledDownTo, Saved
<1> QED
  BY <1>1, <1>4

\* One header is handled.
LEMMA OneHandled ==
  ASSUME IInv, SentIsText, asked \in RequestType, WellFormed(asked), last = Len(Text(asked)),
         out \in OutType, NEW n \in 0..Len(asked.headers), HandledDownTo(n), HandleHeader
  PROVE  \E k \in 0..Len(asked.headers) : HandledDownTo(k)'
<1>1. PICK m \in Nat : m = Len(asked.headers) /\ DOMAIN asked.headers = 1..m
  BY RequestTyped
<1>2. SavedUpTo(asked, n) # <<>> /\ request.list = SavedUpTo(asked, n)
  BY DEF HandledDownTo, HandleHeader
<1>3. PICK k \in Kept(asked) :
        /\ k \in 1..n
        /\ Head(SavedUpTo(asked, n)) = Places(asked, k)
        /\ Tail(SavedUpTo(asked, n)) = SavedUpTo(asked, k - 1)
        /\ \A i \in Kept(asked) : i >= k => i = k \/ i > n
  BY <1>2, SavedHead
<1>4. /\ out' \in Handled(buf, Head(request.list), out)
      /\ request' = [request EXCEPT !.list = Tail(@)]
      /\ asked' = asked /\ last' = last /\ buf' = buf
  BY DEF HandleHeader, vars
<1>5. PICK h : h = Places(asked, k) /\ h = Head(request.list)
  BY <1>2, <1>3
<1>6. PICK o : o = out' /\ o \in Handled(buf, h, out)
  BY <1>4, <1>5
<1>7. /\ out.keep_alive = 1 => o.keep_alive = 1
      /\ out.modified = 0 => o.modified = 0
      /\ AsksToKeepAlive(k) => o.keep_alive = 1
      /\ InPlace(k) /\ o.keep_alive = 1 => out.keep_alive = 1 \/ SomeAsks
      /\ InPlace(k) /\ o.modified = 0 => out.modified = 0 \/ SomeDated
  BY <1>5, <1>6, HeaderHandled
<1>8. "list" \in DOMAIN request' /\ request'.list = SavedUpTo(asked, k - 1)
  <2>1. "list" \in DOMAIN request
    BY DEF HandledDownTo
  <2> QED
    BY <1>2, <1>3, <1>4, <2>1
<1>9. ASSUME NEW i \in Kept(asked), i > k - 1 PROVE i = k \/ i > n
  <2>1. i >= k
    BY <1>1, <1>3, <1>9 DEF Kept
  <2> QED
    BY <1>3, <2>1
<1>10. ASSUME NEW i \in Kept(asked), i > k - 1, AsksToKeepAlive(i)
       PROVE  o.keep_alive = 1
  BY <1>7, <1>9, <1>10 DEF HandledDownTo
<1>11. ASSUME \A i \in Kept(asked) : InPlace(i), o.modified = 0
       PROVE  SomeDated
  BY <1>7, <1>11 DEF HandledDownTo
<1>12. ASSUME \A i \in Kept(asked) : InPlace(i), o.keep_alive = 1
       PROVE  SomeAsks
  BY <1>7, <1>12 DEF HandledDownTo
<1>13. /\ \A i : InPlace(i)' <=> InPlace(i)
       /\ \A i : AsksToKeepAlive(i)' <=> AsksToKeepAlive(i)
       /\ SomeAsks' <=> SomeAsks
       /\ SomeDated' <=> SomeDated
  BY <1>4 DEF InPlace, AsksToKeepAlive, SomeAsks, SomeDated, Dated
<1>14. HandledDownTo(k - 1)'
  BY <1>4, <1>6, <1>8, <1>10, <1>11, <1>12, <1>13 DEF HandledDownTo
<1>15. k - 1 \in 0..m
  BY <1>1, <1>3
<1> QED
  BY <1>1, <1>14, <1>15

\* When a parser returns, a request that is complete is all that was sent.
LEMMA ParsedHandleInv ==
  ASSUME ConnInv, ConnInv', HandleInv, ParseLine \/ ParseHeaders
  PROVE  HandleInv'
<1>1. /\ pc = "idle" /\ pc' = pc /\ out' = out /\ out \in OutType /\ out = NewOut
      /\ asked' = asked /\ last' = last
  BY DEF HandleInv, ParseLine, ParseHeaders, Parsed
<1>2. CASE ParseLine
  <2>1. PICK rc : phase' = CASE rc = "SGX_AGAIN" -> "line" [] rc = "SGX_OK" -> "headers" [] OTHER -> "refused"
    BY <1>2 DEF ParseLine, Parsed
  <2>2. phase' \in {"line", "headers", "refused"}
    BY <2>1
  <2> QED
    BY <1>1, <2>2 DEF HandleInv, Complete
<1>3. CASE ParseHeaders
  <2>1. PICK r : /\ r = sgx_http_parse_request_body(request, buf, pos, last)
                 /\ request' = r /\ phase = "headers"
                 /\ phase' = CASE r.rc = "SGX_AGAIN" -> "headers"
                               [] r.rc = "SGX_OK" -> "done"
                               [] OTHER -> "refused"
    BY <1>3 DEF ParseHeaders, Parsed
  <2>2. "list" \in DOMAIN request'
    <3>1. r \in FieldsType(BodyStates)
      BY <2>1, BodyResult DEF ConnInv, ConnType, IInv, TypeOK, NoOverflow
    <3> QED
      BY <2>1, <3>1 DEF FieldsType
  <2>3. phase' \in {"headers", "done", "refused"}
    BY <2>1
  <2>4. ASSUME WellFormed(asked), phase' = "done"
        PROVE  last' = Len(Text(asked)) /\ (\E n \in 0..Len(asked.headers) : HandledDownTo(n))'
    <3>1. Progress'
      BY <1>1, <2>4 DEF ConnInv
    <3>2. request'.list = Saved(asked) /\ pos' = Len(Text(asked))
      BY <1>1, <2>4, <3>1 DEF Progress
    <3>3. last' = Len(Text(asked))
      <4>1. pos' \in Nat /\ last' \in Nat /\ pos' <= last' /\ last' <= Len(Text(asked))
        BY <1>1 DEF ConnInv, IInv, TypeOK, NoOverflow, SentIsText
      <4> QED
        BY <3>2, <4>1
    <3>4. asked' \in RequestType /\ request'.list = Saved(asked') /\ out' = NewOut
      BY <1>1, <3>2, TextFacts DEF ConnInv, ConnType
    <3>5. (\E n \in 0..Len(asked.headers) : HandledDownTo(n))'
      BY <2>2, <3>4, NoneHandled
    <3> QED
      BY <3>3, <3>5
  <2>5. WellFormed(asked)' <=> WellFormed(asked)
    BY <1>1
  <2>6. phase' \in {"done", "handling"} => phase' = "done"
    BY <2>3
  <2>7. (WellFormed(asked) /\ phase \in {"done", "handling"} =>
           last = Len(Text(asked)) /\ \E n \in 0..Len(asked.headers) : HandledDownTo(n))'
    BY <1>1, <2>4, <2>5, <2>6
  <2>8. /\ (phase \in Complete => pc = "idle")' /\ (out \in OutType)'
        /\ (phase \in {"line", "headers"} => out = NewOut)'
    BY <1>1
  <2> QED
    BY <2>7, <2>8 DEF HandleInv
<1> QED
  BY <1>2, <1>3

\* Every step of the connection keeps HandleInv.
LEMMA HandleNextInv ==
  ASSUME ConnInv, ConnInv', HandleInv, [ConnNext]_connVars
  PROVE  HandleInv'
<1>1. ASSUME phase \notin Complete, UNCHANGED <<phase, out>>
      PROVE  HandleInv'
  BY <1>1 DEF HandleInv, Complete
<1>2. pc = "read" => phase \notin Complete
  BY DEF HandleInv
<1>3. CASE Readable
  BY <1>1, <1>3 DEF Readable, ReadStep, Complete
<1>4. ASSUME NEW n \in 1..(Len(Text(asked)) - last), Receive(n)
      PROVE  HandleInv'
  BY <1>1, <1>2, <1>4 DEF Receive, ReadStep, Read
<1>5. CASE Received
  BY <1>1, <1>2, <1>5 DEF Received, ReadStep, ReadAgain
<1>6. CASE ReadStops
  BY <1>1, <1>2, <1>6 DEF ReadStops, ReadStep, ReadNothing, ReadEnd, ReadFails, Err
<1>7. CASE ParseLine \/ ParseHeaders
  BY <1>7, ParsedHandleInv
<1>8. CASE HandleHeader
  <2>1. /\ phase \in {"done", "handling"} /\ phase' \in {"handling", "wild"}
        /\ out' \in Handled(buf, Head(request.list), out)
        /\ UNCHANGED <<vars, asked, shifted>>
    BY <1>8 DEF HandleHeader
  <2>2. out \in OutType /\ pc = "idle"
    BY <2>1 DEF HandleInv, Complete
  <2>3. out' \in OutType
    BY <2>1, <2>2, HandledKeeps
  <2>4. pc' = "idle" /\ last' = last /\ asked' = asked
    BY <2>1, <2>2 DEF vars
  <2>5. ASSUME WellFormed(asked)
        PROVE  last' = Len(Text(asked)) /\ (\E n \in 0..Len(asked.headers) : HandledDownTo(n))'
    <3>1. last = Len(Text(asked))
      BY <2>1, <2>5 DEF HandleInv
    <3>2. PICK n \in 0..Len(asked.headers) : HandledDownTo(n)
      BY <2>1, <2>5 DEF HandleInv
    <3>3. IInv /\ SentIsText /\ asked \in RequestType
      BY TextFacts DEF ConnInv, ConnType
    <3>4. \E k \in 0..Len(asked.headers) : HandledDownTo(k)'
      BY <1>8, <2>2, <2>5, <3>1, <3>2, <3>3, OneHandled
    <3> QED
      BY <2>4, <3>1, <3>4
  <2>6. WellFormed(asked)' <=> WellFormed(asked)
    BY <2>4
  <2>7. (WellFormed(asked) /\ phase \in {"done", "handling"} =>
           last = Len(Text(asked)) /\ \E n \in 0..Len(asked.headers) : HandledDownTo(n))'
    BY <2>4, <2>5, <2>6
  <2>8. /\ (phase \in Complete => pc = "idle")' /\ (out \in OutType)'
        /\ (phase \in {"line", "headers"} => out = NewOut)'
    BY <2>1, <2>3, <2>4
  <2> QED
    BY <2>7, <2>8 DEF HandleInv
<1>9. CASE UNCHANGED connVars
  <2>1. UNCHANGED <<request, phase, out, asked, pc, last>>
    BY <1>9 DEF connVars, vars
  <2>2. \A n : HandledDownTo(n)' <=> HandledDownTo(n)
    BY <1>9 DEF HandledDownTo, AsksToKeepAlive, SomeAsks, SomeDated, Dated, InPlace, connVars, vars
  <2> QED
    BY <2>1, <2>2 DEF HandleInv
<1> QED
  BY <1>3, <1>4, <1>5, <1>6, <1>7, <1>8, <1>9 DEF ConnNext

\* Once all headers of a well-formed request are handled, a `Connection: keep-alive'
\* that is still in its place in the ring has been found, keep_alive is not set by
\* anything else, and modified reset only for a date of If-Modified-Since.
THEOREM HandlesWhatWasSent == ConnSpec => [](WellFormed(asked) => HandledAsSent)
<1>1. ConnInit => HandleInv
  BY HandleInitInv
<1>2. ConnInv /\ ConnInv' /\ HandleInv /\ [ConnNext]_connVars => HandleInv'
  BY HandleNextInv
<1>3. ASSUME ConnInv, HandleInv, WellFormed(asked), phase = "handling", request.list = <<>>
      PROVE  /\ (\E i \in DOMAIN asked.headers : AsksToKeepAlive(i)) => out.keep_alive = 1
             /\ (\A i \in Kept(asked) : InPlace(i)) /\ out.keep_alive = 1 => SomeAsks
             /\ (\A i \in Kept(asked) : InPlace(i)) /\ out.modified = 0 => SomeDated
  <2>1. PICK n \in 0..Len(asked.headers) : HandledDownTo(n)
    BY <1>3 DEF HandleInv
  <2>2. asked \in RequestType
    BY <1>3, TextFacts DEF ConnInv, ConnType
  <2>3. \A i \in Kept(asked) : i > n
    BY <1>3, <2>1, <2>2, SavedHead DEF HandledDownTo
  <2>4. \A i : AsksToKeepAlive(i) => i \in Kept(asked)
    BY DEF AsksToKeepAlive, InPlace
  <2> QED
    BY <2>1, <2>3, <2>4 DEF HandledDownTo
<1>4. ConnInv /\ HandleInv => (WellFormed(asked) => HandledAsSent)
  BY <1>3 DEF HandledAsSent, SomeAsks, SomeDated
<1> QED
  BY <1>1, <1>2, <1>4, ConnInvariant, PTL DEF ConnSpec
=============================================================================
