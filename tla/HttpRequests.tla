---------------------------- MODULE HttpRequests ----------------------------
(***************************************************************************)
(* The reference for HttpParse: requests put together from their pieces,   *)
(* when such a request is well formed, and where its pieces lie in the     *)
(* bytes that are sent.  A piece is a sequence of bytes; a header is a     *)
(* record of its key, what separates it from its value, the value and the  *)
(* end of its line.                                                        *)
(***************************************************************************)
EXTENDS HttpParse, SequencesExt

HeaderType ==
  [key : Seq(ByteClasses), colon : Seq(ByteClasses),
   value : Seq(ByteClasses), end : Seq(ByteClasses)]

RequestType ==
  [blank : Seq(ByteClasses), method : Seq(ByteClasses), gap : Seq(ByteClasses),
   uri : Seq(ByteClasses), proto : Seq(ByteClasses), major : Seq(ByteClasses),
   minor : Seq(ByteClasses), end : Seq(ByteClasses), headers : Seq(HeaderType)]

Line(a) ==
  a.blank \o a.method \o a.gap \o a.uri \o <<"SP">> \o a.proto
    \o a.major \o <<".">> \o a.minor \o a.end

Header(h) == h.key \o h.colon \o h.value \o h.end

\* The bytes up to the end of header n.
UpTo(a, n) ==
  LET upTo[i \in 0..Len(a.headers)] ==
        IF i = 0 THEN Line(a) ELSE upTo[i - 1] \o Header(a.headers[i])
  IN  upTo[n]

\* All the bytes of the request.
Text(a) == UpTo(a, Len(a.headers)) \o <<"CR", "LF">>

BytesOf(s) == {s[i] : i \in DOMAIN s}

IsNumber(s) == s # <<>> /\ BytesOf(s) \subseteq Digits

Blanks(n) == [i \in 1..n |-> "SP"]

\* The ends of a request line, after any blanks.
IsEnd(s) ==
  \E n \in 0..Len(s) : s \in {Blanks(n) \o <<"LF">>, Blanks(n) \o <<"CR", "LF">>}

\* What the method of a request is made of: `_', and in a build where the shift of
\* lines 55 and 91 is zero all bytes from `A' on.
MethodBytes(shifted) == IF shifted THEN {"_"} ELSE Letters \cup {"_", "~"}

WellFormedLine(a) ==
  /\ BytesOf(a.blank) \subseteq Ends
  /\ a.method # <<>> /\ BytesOf(a.method) \subseteq MethodBytes(FALSE)
  /\ a.gap # <<>> /\ BytesOf(a.gap) = {"SP"}
  /\ a.uri # <<>> /\ Head(a.uri) = "/" /\ "SP" \notin BytesOf(a.uri)
  /\ a.proto = <<"H", "T", "T", "P", "/">>
  /\ IsNumber(a.major) /\ Head(a.major) # "0"
  /\ IsNumber(a.minor)
  /\ IsEnd(a.end)

WellFormedHeader(h) ==
  /\ h.key # <<>> /\ BytesOf(h.key) \subseteq Letters
  /\ \E m, n \in 0..Len(h.colon) : h.colon = Blanks(m) \o <<":">> \o Blanks(n)
  /\ h.value # <<>> /\ BytesOf(h.value) \subseteq Letters
  /\ h.end \in {<<"LF">>, <<"CR", "LF">>}

WellFormed(a) ==
  /\ WellFormedLine(a)
  /\ \A i \in DOMAIN a.headers : WellFormedHeader(a.headers[i])

(***************************************************************************)
(* The request lines there are, whatever pieces the bytes t were put       *)
(* together from: each operator says how the first n bytes can end.        *)
(***************************************************************************)
AllIn(t, m, n, bytes) == \A k \in (m + 1)..n : t[k] \in bytes

MethodTo(t, n, shifted) ==
  \E m \in 0..(n - 1) : AllIn(t, m, n, MethodBytes(shifted)) /\ AllIn(t, 0, m, Ends)

GapTo(t, n, shifted) ==
  \E m \in 0..(n - 1) : AllIn(t, m, n, {"SP"}) /\ MethodTo(t, m, shifted)

UriTo(t, n, shifted) ==
  \E m \in 0..(n - 1) :
    t[m + 1] = "/" /\ AllIn(t, m, n, ByteClasses \ {"SP"}) /\ GapTo(t, m, shifted)

SpaceTo(t, n, shifted) ==
  \E m \in 0..(n - 1) : AllIn(t, m, n, {"SP"}) /\ UriTo(t, m, shifted)

\* With the first k bytes of HTTP/ last.
ProtoTo(t, n, k, shifted) ==
  /\ k <= n
  /\ \A j \in 1..k : t[n - k + j] = <<"H", "T", "T", "P", "/">>[j]
  /\ SpaceTo(t, n - k, shifted)

MajorTo(t, n, shifted) ==
  \E m \in 0..(n - 1) :
    t[m + 1] # "0" /\ AllIn(t, m, n, Digits) /\ ProtoTo(t, m, 5, shifted)

DotTo(t, n, shifted) == n >= 1 /\ t[n] = "." /\ MajorTo(t, n - 1, shifted)

MinorTo(t, n, shifted) ==
  \E m \in 0..(n - 1) : AllIn(t, m, n, Digits) /\ DotTo(t, m, shifted)

BlanksTo(t, n, shifted) ==
  \E m \in 0..n : AllIn(t, m, n, {"SP"}) /\ MinorTo(t, m, shifted)

CrTo(t, n, shifted) == n >= 1 /\ t[n] = "CR" /\ BlanksTo(t, n - 1, shifted)

LineTo(t, n, shifted) ==
  n >= 1 /\ t[n] = "LF" /\ (BlanksTo(t, n - 1, shifted) \/ CrTo(t, n - 1, shifted))

\* The headers that are kept: those whose line ends with CR LF.
Kept(a) == {i \in DOMAIN a.headers : a.headers[i].end = <<"CR", "LF">>}

MethodAt(a) == Len(a.blank)

UriAt(a) == MethodAt(a) + Len(a.method) + Len(a.gap)

HeaderAt(a, i) == Len(UpTo(a, i - 1))

ValueAt(a, i) == HeaderAt(a, i) + Len(a.headers[i].key) + Len(a.headers[i].colon)

\* What the parser should save of header i.
Places(a, i) ==
  [key_start   |-> Place(HeaderAt(a, i)),
   key_end     |-> Place(HeaderAt(a, i) + Len(a.headers[i].key)),
   value_start |-> Place(ValueAt(a, i)),
   value_end   |-> Place(ValueAt(a, i) + Len(a.headers[i].value))]

\* What is saved of the first n headers: the last one first, as list_add at the
\* head leaves them.
SavedUpTo(a, n) ==
  LET upTo[i \in 0..Len(a.headers)] ==
        IF i = 0 THEN <<>>
        ELSE IF i \in Kept(a) THEN <<Places(a, i)>> \o upTo[i - 1]
        ELSE upTo[i - 1]
  IN  upTo[n]

Saved(a) == SavedUpTo(a, Len(a.headers))
=============================================================================
