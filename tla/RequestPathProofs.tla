------------------------- MODULE RequestPathProofs -------------------------
(***************************************************************************)
(* Proofs about RequestPath, for any headers, any configuration of the     *)
(* methods and any error messages.  The first part says what the readers   *)
(* of a bearer token make of a header: all of them look for the same       *)
(* prefix, although two search for a blank and one compares the prefix.    *)
(* The second says that a client reads back what the proxy encodes.  The   *)
(* third proves PathInv, that the server has what is configured and that   *)
(* an answer is what the methods or a reader said of the request.          *)
(***************************************************************************)
EXTENDS RequestPath, SequenceTheorems, LeastNumber

-----------------------------------------------------------------------------
(* Headers                                                                 *)

\* What headers are made of; the literals are named for the provers.
Symbols == STRING \cup {"Bearer", Space, "absent"}

AllHeaders == Headers \cup {NoHeader}
Rest(h) == SubSeq(h, 3, Len(h))

\* A header with a token, possibly an empty one.
HasBearer(h) == h # NoHeader /\ ToStr(h) /\ StartsWithBearer(h)

\* A sequence over a set is one over a larger set.
LEMMA SeqMonotone ==
    ASSUME NEW S, NEW T, S \subseteq T, NEW s \in Seq(S)
    PROVE  s \in Seq(T)
<1>1. Len(s) \in Nat /\ s \in [1 .. Len(s) -> S]
  BY LenProperties
<1>2. s \in [1 .. Len(s) -> T]
  BY <1>1
<1> QED
  BY <1>1, <1>2

\* A header is a sequence of symbols, and so is what follows its prefix.
LEMMA HeaderType ==
    ASSUME NEW h \in AllHeaders
    PROVE  /\ h \in Seq(Symbols) /\ Len(h) \in Nat /\ DOMAIN h = 1 .. Len(h)
           /\ \A i \in 1 .. Len(h) : h[i] \in Symbols
           /\ Rest(h) \in Seq(Symbols)
           /\ Len(Rest(h)) = IF 3 <= Len(h) THEN Len(h) - 2 ELSE 0
           /\ \A i \in 1 .. Len(h) - 2 : Rest(h)[i] = h[i + 2]
<1>1. NoHeader \in Seq(Symbols)
  <2>1. "absent" \in Symbols
    BY DEF Symbols
  <2> QED
    BY <2>1 DEF NoHeader
<1>2. h \in Seq(Symbols)
  <2>1. STRING \subseteq Symbols
    BY DEF Symbols
  <2>2. Headers \subseteq Seq(Symbols)
    BY <2>1, SeqMonotone, AuthorizationAssumption
  <2> QED
    BY <1>1, <2>2 DEF AllHeaders
<1>3. Len(h) \in Nat /\ DOMAIN h = 1 .. Len(h) /\ \A i \in 1 .. Len(h) : h[i] \in Symbols
  BY <1>2, LenProperties, ElementOfSeq
<1>4. \A i \in 3 .. Len(h) : h[i] \in Symbols
  BY <1>3
<1>5. /\ SubSeq(h, 3, Len(h)) \in Seq(Symbols)
      /\ Len(SubSeq(h, 3, Len(h))) = IF 3 <= Len(h) THEN Len(h) - 3 + 1 ELSE 0
      /\ \A i \in 1 .. Len(h) - 3 + 1 : SubSeq(h, 3, Len(h))[i] = h[3 + i - 1]
  BY <1>3, <1>4, SubSeqProperties
<1> QED
  BY <1>2, <1>3, <1>5 DEF Rest

\* A header that starts with Bearer and a blank is these two and the rest.
LEMMA BearerSplit ==
    ASSUME NEW h \in AllHeaders
    PROVE  StartsWithBearer(h) <=> h = <<"Bearer", Space>> \o Rest(h)
<1> DEFINE p == <<"Bearer", Space>>
           j == p \o Rest(h)
<1>1. p \in Seq(Symbols) /\ Len(p) = 2 /\ p[1] = "Bearer" /\ p[2] = Space
  BY DEF Symbols
<1> HIDE DEF p
<1>2. /\ j \in Seq(Symbols) /\ Len(j) = 2 + Len(Rest(h))
      /\ \A i \in 1 .. 2 + Len(Rest(h)) : j[i] = IF i <= 2 THEN p[i] ELSE Rest(h)[i - 2]
  <2>1. Rest(h) \in Seq(Symbols)
    BY HeaderType
  <2>2. /\ p \o Rest(h) \in Seq(Symbols)
        /\ Len(p \o Rest(h)) = Len(p) + Len(Rest(h))
        /\ \A i \in 1 .. Len(p) + Len(Rest(h)) :
               (p \o Rest(h))[i] = IF i <= Len(p) THEN p[i] ELSE Rest(h)[i - Len(p)]
    BY <1>1, <2>1, ConcatProperties
  <2> QED
    BY <1>1, <2>2
<1> HIDE DEF j
<1>3. ASSUME h = j
      PROVE  StartsWithBearer(h)
  BY <1>1, <1>2, <1>3, HeaderType DEF StartsWithBearer
<1>4. ASSUME StartsWithBearer(h)
      PROVE  h = j
  <2>1. Len(h) = Len(j)
    BY <1>2, <1>4, HeaderType DEF StartsWithBearer
  <2>2. ASSUME NEW i \in 1 .. Len(h)
        PROVE  h[i] = j[i]
    <3>1. CASE i <= 2
      BY <1>1, <1>2, <1>4, <2>1, <3>1, HeaderType DEF StartsWithBearer
    <3>2. CASE i > 2
      <4>1. i - 2 \in 1 .. Len(h) - 2 /\ Rest(h)[i - 2] = h[i]
        BY <3>2, HeaderType
      <4> QED
        BY <1>2, <2>1, <3>2, <4>1, HeaderType
    <3> QED
      BY <3>1, <3>2, HeaderType
  <2> QED
    BY <1>2, <2>1, <2>2, HeaderType, SeqEqual
<1> QED
  BY <1>3, <1>4 DEF j, p

\* What the grammar calls the token of a header is there exactly if the header
\* has the prefix.
LEMMA GrammarOfBearer ==
    ASSUME NEW h \in AllHeaders
    PROVE  TokenOf(h, Rest(h)) <=> HasBearer(h)
BY BearerSplit DEF TokenOf, HasBearer

\* The place of the first blank.
LEMMA FirstBlankAt ==
    ASSUME NEW h \in AllHeaders, FirstBlank(h) # 0
    PROVE  /\ FirstBlank(h) \in 1 .. Len(h) /\ h[FirstBlank(h)] = Space
           /\ \A i \in 1 .. Len(h) : h[i] = Space => FirstBlank(h) <= i
<1> DEFINE blanks == {i \in DOMAIN h : h[i] = Space}
<1>1. blanks # {}
  BY DEF FirstBlank
<1>2. blanks \subseteq Nat /\ DOMAIN h = 1 .. Len(h)
  BY HeaderType
<1>3. \E i \in blanks : \A k \in blanks : i <= k
  <2> HIDE DEF blanks
  <2> QED
    BY <1>1, <1>2, LeastOf
<1>4. FirstBlank(h) = CHOOSE i \in blanks : \A k \in blanks : i <= k
  BY <1>1 DEF FirstBlank
<1>5. FirstBlank(h) \in blanks /\ \A k \in blanks : FirstBlank(h) <= k
  <2> HIDE DEF blanks
  <2> QED
    BY <1>3, <1>4
<1> QED
  BY <1>2, <1>5

\* split_once finds the scheme exactly in the headers that have the prefix, and
\* leaves the same rest: the first blank is then the second symbol.
LEMMA SplitFindsBearer ==
    ASSUME NEW h \in AllHeaders
    PROVE  /\ FirstBlank(h) # 0 /\ SplitOnce(h)[1] = <<"Bearer">> <=> StartsWithBearer(h)
           /\ StartsWithBearer(h) => SplitOnce(h)[2] = Rest(h)
<1>1. SplitOnce(h)[1] = SubSeq(h, 1, FirstBlank(h) - 1)
  BY DEF SplitOnce
<1>2. SplitOnce(h)[2] = SubSeq(h, FirstBlank(h) + 1, Len(h))
  BY DEF SplitOnce
<1>3. ASSUME FirstBlank(h) # 0, SplitOnce(h)[1] = <<"Bearer">>
      PROVE  StartsWithBearer(h)
  <2>1. FirstBlank(h) \in 1 .. Len(h) /\ h[FirstBlank(h)] = Space
    BY <1>3, FirstBlankAt
  <2>2. \A i \in 1 .. FirstBlank(h) - 1 : h[i] \in Symbols
    BY <2>1, HeaderType, ElementOfSeq
  <2>3. /\ Len(SubSeq(h, 1, FirstBlank(h) - 1)) =
               IF 1 <= FirstBlank(h) - 1 THEN FirstBlank(h) - 1 - 1 + 1 ELSE 0
        /\ \A i \in 1 .. FirstBlank(h) - 1 - 1 + 1 :
               SubSeq(h, 1, FirstBlank(h) - 1)[i] = h[1 + i - 1]
    BY <2>1, <2>2, HeaderType, SubSeqProperties
  <2>4. Len(SubSeq(h, 1, FirstBlank(h) - 1)) = 1 /\ SubSeq(h, 1, FirstBlank(h) - 1)[1] = "Bearer"
    <3>1. Len(<<"Bearer">>) = 1 /\ <<"Bearer">>[1] = "Bearer"
      OBVIOUS
    <3>2. SubSeq(h, 1, FirstBlank(h) - 1) = <<"Bearer">>
      BY <1>1, <1>3
    <3> QED
      BY <3>1, <3>2
  <2>5. FirstBlank(h) = 2
    BY <2>1, <2>3, <2>4, HeaderType
  <2>6. h[1] = "Bearer"
    BY <2>3, <2>4, <2>5
  <2> QED
    BY <2>1, <2>5, <2>6, HeaderType DEF StartsWithBearer
<1>4. ASSUME StartsWithBearer(h)
      PROVE  FirstBlank(h) = 2
  <2>1. 1 \in 1 .. Len(h) /\ 2 \in 1 .. Len(h) /\ h[2] = Space /\ h[1] # Space
    <3>1. Len(h) >= 2 /\ h[1] = "Bearer" /\ h[2] = Space
      BY <1>4 DEF StartsWithBearer
    <3>2. h[1] # Space
      BY <3>1 DEF Space
    <3>3. Len(h) \in Nat
      BY HeaderType
    <3> QED
      BY <3>1, <3>2, <3>3
  <2>2. FirstBlank(h) # 0
    <3> DEFINE blanks == {i \in DOMAIN h : h[i] = Space}
    <3>1. 2 \in blanks /\ blanks \subseteq Nat \ {0}
      BY <2>1, HeaderType
    <3>2. FirstBlank(h) = CHOOSE i \in blanks : \A k \in blanks : i <= k
      BY <3>1 DEF FirstBlank
    <3> HIDE DEF blanks
    <3>3. \E i \in blanks : \A k \in blanks : i <= k
      BY <3>1, LeastOf
    <3> QED
      BY <3>1, <3>2, <3>3
  <2> QED
    BY <2>1, <2>2, FirstBlankAt, HeaderType
<1>5. ASSUME StartsWithBearer(h)
      PROVE  SplitOnce(h)[1] = <<"Bearer">>
  <2>1. Len(h) >= 2 /\ h[1] = "Bearer"
    BY <1>5 DEF StartsWithBearer
  <2>2. /\ SubSeq(h, 1, 1) \in Seq(Symbols) /\ Len(SubSeq(h, 1, 1)) = 1
        /\ SubSeq(h, 1, 1)[1] = h[1]
    <3>1. \A i \in 1 .. 1 : h[i] \in Symbols
      BY <2>1, HeaderType, ElementOfSeq
    <3> QED
      BY <3>1, SubSeqProperties
  <2>3. SubSeq(h, 1, 1) = <<"Bearer">>
    <3>1. /\ <<"Bearer">> \in Seq(Symbols) /\ Len(<<"Bearer">>) = 1
          /\ <<"Bearer">>[1] = "Bearer"
      BY DEF Symbols
    <3>2. \A i \in 1 .. 1 : SubSeq(h, 1, 1)[i] = <<"Bearer">>[i]
      BY <2>1, <2>2, <3>1
    <3> HIDE DEF Symbols
    <3> QED
      BY <2>2, <3>1, <3>2, SeqEqual
  <2> QED
    BY <1>1, <1>4, <1>5, <2>3
<1>6. ASSUME StartsWithBearer(h)
      PROVE  SplitOnce(h)[2] = Rest(h)
  BY <1>2, <1>4, <1>6 DEF Rest
<1> QED
  BY <1>3, <1>4, <1>5, <1>6

-----------------------------------------------------------------------------
(* The readers                                                             *)

\* The parts of an answer.
LEMMA AnswerParts ==
    /\ \A status : Refused(status).status = status
    /\ \A id : Admitted(id).status = "ok" /\ Admitted(id).as = id
    /\ Pending.status = "pending"
BY DEF Refused, Admitted, Pending

\* TokenAuth admits the headers with a token, and reads the whole of it.
LEMMA TokenReads ==
    ASSUME NEW h \in AllHeaders
    PROVE  \/ HasBearer(h) /\ TokenBearer(h) = Admitted(Rest(h))
           \/ ~ HasBearer(h) /\ TokenBearer(h) \in {Refused("400"), Refused("401")}
<1>1. CASE h = NoHeader \/ ~ ToStr(h)
  BY <1>1 DEF TokenBearer, HasBearer
<1>2. CASE h # NoHeader /\ ToStr(h)
  <2>1. CASE StartsWithBearer(h)
    BY <1>2, <2>1, SplitFindsBearer DEF TokenBearer, HasBearer
  <2>2. CASE ~ StartsWithBearer(h)
    <3>1. ~ (FirstBlank(h) # 0 /\ SplitOnce(h)[1] = <<"Bearer">>)
      BY <2>2, SplitFindsBearer
    <3> QED
      BY <1>2, <2>2, <3>1 DEF TokenBearer, HasBearer
  <2> QED
    BY <2>1, <2>2
<1> QED
  BY <1>1, <1>2

\* So does the proxy, but for an empty token, and its refusals are errors that
\* mean UNAUTHENTICATED.
LEMMA ProxyReads ==
    ASSUME NEW h \in AllHeaders
    PROVE  \/ HasBearer(h) /\ Rest(h) # <<>> /\ ProxyBearer(h) = Admitted(Rest(h))
           \/ /\ ~ HasBearer(h) \/ Rest(h) = <<>>
              /\ \E e \in Unauthenticated : ProxyBearer(h) = Refused(e)
<1>1. {"MissingAuthorizationHeader", "InvalidAuthorizationHeader",
       "InvalidAuthorizationScheme"} \subseteq Unauthenticated
  BY DEF Unauthenticated
<1>2. CASE h = NoHeader \/ ~ ToStr(h)
  BY <1>1, <1>2 DEF ProxyBearer, HasBearer
<1>3. CASE h # NoHeader /\ ToStr(h)
  <2>1. CASE StartsWithBearer(h)
    <3>1. FirstBlank(h) # 0 /\ SplitOnce(h)[1] = <<"Bearer">> /\ SplitOnce(h)[2] = Rest(h)
      BY <2>1, SplitFindsBearer
    <3> QED
      BY <1>1, <1>3, <2>1, <3>1 DEF ProxyBearer, HasBearer
  <2>2. CASE ~ StartsWithBearer(h)
    <3>1. ~ (FirstBlank(h) # 0 /\ SplitOnce(h)[1] = <<"Bearer">>)
      BY <2>2, SplitFindsBearer
    <3> QED
      BY <1>1, <1>3, <2>2, <3>1 DEF ProxyBearer, HasBearer
  <2> QED
    BY <2>1, <2>2
<1> QED
  BY <1>2, <1>3

\* A method that reads a JWT names the subject its key stands for only if the
\* header is Bearer and the one token that the key accepts.
LEMMA SubjectReads ==
    ASSUME NEW h \in AllHeaders, NEW key, Subject(key, UserBearer(h)) \notin {"none", "error"}
    PROVE  Subject(key, UserBearer(h)) = key /\ TokenOf(h, <<key>>)
<1>1. HasBearer(h)
  BY DEF UserBearer, Subject, HasBearer
<1>2. UserBearer(h) = <<"token", Rest(h)>>
  BY <1>1 DEF UserBearer, HasBearer, Rest
<1>3. Subject(key, UserBearer(h)) = IF Rest(h) = <<key>> THEN key ELSE "error"
  BY <1>2 DEF Subject
<1>4. Rest(h) = <<key>>
  BY <1>3
<1> QED
  BY <1>1, <1>3, <1>4, GrammarOfBearer

-----------------------------------------------------------------------------
(* Messages                                                                *)

Byte == 0 .. 255
Printable == 32 .. 126

\* What a client reads of s from i on, if f is what it reads from later places.
ReadAt(s, f, i) ==
    IF i > Len(s) THEN <<>>
    ELSE IF s[i] = Percent /\ i + 2 <= Len(s)
         THEN <<16 * HexValue(s[i + 1]) + HexValue(s[i + 2])>> \o f[i + 3]
         ELSE <<s[i]>> \o f[i + 1]

ReadsFrom(s, first, f) == f = [i \in first .. Len(s) + 3 |-> ReadAt(s, f, i)]

\* The client's recursion has a solution from every place of the header on: a
\* last place without one would get one from the place after it.
LEMMA ReaderExists ==
    ASSUME NEW s, Len(s) \in Nat
    PROVE  \E f : ReadsFrom(s, 1, f)
<1> DEFINE last == Len(s) + 3
           Lacking == {k \in 0 .. last - 1 : ~ \E f : ReadsFrom(s, last - k, f)}
<1>1. ASSUME Lacking # {}
      PROVE  FALSE
  <2>1. PICK k \in Lacking : \A n \in Lacking : k <= n
    <3>1. Lacking \subseteq Nat
      OBVIOUS
    <3> HIDE DEF Lacking
    <3> QED
      BY <1>1, <3>1, LeastOf
  <2>2. k \in 0 .. last - 1 /\ ~ \E f : ReadsFrom(s, last - k, f)
    BY <2>1
  <2>3. CASE k = 0
    <3> DEFINE f == [i \in {last} |-> <<>>]
    <3>1. last .. Len(s) + 3 = {last}
      OBVIOUS
    <3>2. f = [i \in last .. Len(s) + 3 |-> ReadAt(s, f, i)]
      BY <3>1 DEF ReadAt
    <3>3. ReadsFrom(s, last - 0, f)
      BY <3>2 DEF ReadsFrom
    <3> QED
      BY <2>2, <2>3, <3>3
  <2>4. CASE k > 0
    <3> DEFINE first == last - k
    <3>1. PICK f : ReadsFrom(s, first + 1, f)
      <4>1. k - 1 \in 0 .. last - 1 /\ k - 1 \notin Lacking /\ last - (k - 1) = first + 1
        <5>1. k - 1 \in 0 .. last - 1 /\ ~ (k <= k - 1) /\ last - (k - 1) = first + 1
          BY <2>2, <2>4
        <5> HIDE DEF Lacking
        <5> QED
          BY <2>1, <5>1
      <4> QED
        BY <4>1
    <3> DEFINE g == [i \in first .. last |-> IF i = first THEN ReadAt(s, f, i) ELSE f[i]]
    <3>2. first \in 1 .. last /\ first + 1 \in Nat
      BY <2>2
    <3>3. ASSUME NEW i \in first .. last
          PROVE  g[i] = ReadAt(s, g, i)
      <4>1. g[i] = ReadAt(s, f, i)
        <5>1. CASE i = first
          BY <5>1
        <5>2. CASE i # first
          <6>1. i \in first + 1 .. last /\ g[i] = f[i]
            BY <3>2, <5>2
          <6> QED
            BY <3>1, <6>1 DEF ReadsFrom
        <5> QED
          BY <5>1, <5>2
      <4>2. ASSUME NEW n \in {1, 3}, i <= Len(s)
            PROVE  g[i + n] = f[i + n]
        <5>1. i + n \in first .. last /\ i + n # first
          BY <3>2, <4>2
        <5> QED
          BY <5>1
      <4> HIDE DEF g, first
      <4> QED
        BY <3>2, <4>1, <4>2 DEF ReadAt
    <3>4. ReadsFrom(s, first, g)
      <4> HIDE DEF first
      <4> QED
        BY <3>3 DEF ReadsFrom
    <3> QED
      BY <2>2, <3>4
  <2> QED
    BY <2>2, <2>3, <2>4
<1>2. last - 1 \in 0 .. last - 1 /\ last - (last - 1) = 1
  OBVIOUS
<1>3. last - 1 \notin Lacking
  <2> HIDE DEF Lacking
  <2> QED
    BY <1>1
<1> QED
  BY <1>2, <1>3

\* So ReadMessage is the first value of a solution.
LEMMA MessageRead ==
    ASSUME NEW s, Len(s) \in Nat
    PROVE  \E f : /\ ReadMessage(s) = f[1]
                  /\ \A i \in 1 .. Len(s) + 3 : f[i] = ReadAt(s, f, i)
<1> DEFINE Solves(f) == f = [i \in 1 .. Len(s) + 3 |-> ReadAt(s, f, i)]
           g == CHOOSE f : Solves(f)
<1>1. \E f : Solves(f)
  BY ReaderExists DEF ReadsFrom
<1>2. Solves(g)
  <2> HIDE DEF Solves
  <2> QED
    BY <1>1
<1>3. ReadMessage(s) = g[1]
  BY DEF ReadMessage, ReadAt
<1> HIDE DEF g
<1> QED
  BY <1>2, <1>3

\* The digits of a byte.
LEMMA HexRead ==
    ASSUME NEW b \in Byte
    PROVE  /\ HexDigit(b \div 16) \in Printable /\ HexDigit(b % 16) \in Printable
           /\ 16 * HexValue(HexDigit(b \div 16)) + HexValue(HexDigit(b % 16)) = b
<1>1. b \div 16 \in 0 .. 15 /\ b % 16 \in 0 .. 15 /\ 16 * (b \div 16) + (b % 16) = b
  BY DEF Byte
<1>2. ASSUME NEW d \in 0 .. 15
      PROVE  HexDigit(d) \in Printable /\ HexValue(HexDigit(d)) = d
  BY DEF HexDigit, HexValue, Printable
<1> HIDE DEF Byte
<1> QED
  BY <1>1, <1>2

\* s is the encoding of the first n bytes of m: p[j] is where the j-th begins.
EncodedAt(s, p, b, after) ==
    IF Blank <= b /\ b <= Tilde /\ b # Percent
    THEN after = p + 1 /\ s[p] = b
    ELSE /\ after = p + 3 /\ s[p] = Percent
         /\ s[p + 1] = HexDigit(b \div 16) /\ s[p + 2] = HexDigit(b % 16)

Begins(s, m, n, p) ==
    /\ p \in [1 .. n + 1 -> Nat]
    /\ p[1] = 1 /\ p[n + 1] = Len(s) + 1
    /\ \A j \in 1 .. n : /\ p[j] >= 1 /\ p[j + 1] <= Len(s) + 1
                         /\ EncodedAt(s, p[j], m[j], p[j + 1])

\* A client that is at the beginning of a byte reads that byte and goes on at
\* the beginning of the next.
LEMMA ByteRead ==
    ASSUME NEW s, Len(s) \in Nat, NEW f, NEW b \in Byte, NEW i \in Nat, NEW j \in Nat,
           i >= 1, j <= Len(s) + 1, EncodedAt(s, i, b, j)
    PROVE  ReadAt(s, f, i) = <<b>> \o f[j]
<1>1. CASE Blank <= b /\ b <= Tilde /\ b # Percent
  BY <1>1 DEF EncodedAt, ReadAt, Byte
<1>2. CASE ~ (Blank <= b /\ b <= Tilde /\ b # Percent)
  <2>1. /\ j = i + 3 /\ s[i] = Percent
        /\ s[i + 1] = HexDigit(b \div 16) /\ s[i + 2] = HexDigit(b % 16)
    BY <1>2 DEF EncodedAt
  <2>2. ~ (i > Len(s)) /\ i + 2 <= Len(s)
    BY <2>1
  <2>3. ReadAt(s, f, i) = <<16 * HexValue(s[i + 1]) + HexValue(s[i + 2])>> \o f[i + 3]
    BY <2>1, <2>2 DEF ReadAt
  <2> QED
    BY <2>1, <2>3, HexRead
<1> QED
  BY <1>1, <1>2

\* A suffix is its first element and the next suffix.
LEMMA SuffixStep ==
    ASSUME NEW S, NEW m \in Seq(S), NEW j \in 1 .. Len(m)
    PROVE  <<m[j]>> \o SubSeq(m, j + 1, Len(m)) = SubSeq(m, j, Len(m))
<1> DEFINE n == Len(m)
           t == SubSeq(m, j + 1, n)
           u == SubSeq(m, j, n)
           h == <<m[j]>>
<1>1. n \in Nat /\ j \in Nat /\ j >= 1 /\ j <= n /\ \A i \in 1 .. n : m[i] \in S
  BY ElementOfSeq, LenProperties
<1>2. \A i \in j + 1 .. n : m[i] \in S
  BY <1>1
<1>3. \A i \in j .. n : m[i] \in S
  BY <1>1
<1>4. t \in Seq(S) /\ Len(t) = n - j /\ \A i \in 1 .. n - j : t[i] = m[j + i]
  <2>1. /\ t \in Seq(S)
        /\ Len(t) = IF j + 1 <= n THEN n - (j + 1) + 1 ELSE 0
        /\ \A i \in 1 .. n - (j + 1) + 1 : t[i] = m[j + 1 + i - 1]
    BY <1>1, <1>2, SubSeqProperties
  <2> QED
    BY <1>1, <2>1
<1>5. u \in Seq(S) /\ Len(u) = n - j + 1 /\ \A i \in 1 .. n - j + 1 : u[i] = m[j + i - 1]
  <2>1. /\ u \in Seq(S)
        /\ Len(u) = IF j <= n THEN n - j + 1 ELSE 0
        /\ \A i \in 1 .. n - j + 1 : u[i] = m[j + i - 1]
    BY <1>1, <1>3, SubSeqProperties
  <2> QED
    BY <1>1, <2>1
<1>6. h \in Seq(S) /\ Len(h) = 1 /\ h[1] = m[j]
  BY <1>1
<1> HIDE DEF t, u, h, n
<1>7. /\ h \o t \in Seq(S) /\ Len(h \o t) = n - j + 1
      /\ \A i \in 1 .. n - j + 1 : (h \o t)[i] = IF i <= 1 THEN h[i] ELSE t[i - 1]
  <2>1. /\ h \o t \in Seq(S) /\ Len(h \o t) = Len(h) + Len(t)
        /\ \A i \in 1 .. Len(h) + Len(t) :
               (h \o t)[i] = IF i <= Len(h) THEN h[i] ELSE t[i - Len(h)]
    BY <1>4, <1>6, ConcatProperties
  <2> QED
    BY <1>1, <1>4, <1>6, <2>1
<1>8. ASSUME NEW i \in 1 .. n - j + 1
      PROVE  (h \o t)[i] = u[i]
  <2>1. CASE i = 1
    BY <1>1, <1>5, <1>6, <1>7, <2>1
  <2>2. CASE i # 1
    <3>1. i - 1 \in 1 .. n - j /\ j + (i - 1) = j + i - 1
      BY <1>1, <2>2
    <3>2. t[i - 1] = m[j + i - 1]
      BY <1>4, <3>1
    <3> QED
      BY <1>1, <1>5, <1>7, <2>2, <3>2
  <2> QED
    BY <2>1, <2>2
<1>9. h \o t = u
  BY <1>5, <1>7, <1>8, SeqEqual
<1> QED
  BY <1>9 DEF h, t, u, n

\* The client reads what was encoded: from the beginning of the j-th byte on it
\* reads the bytes from the j-th on, the last place first.
LEMMA DecodesEncoded ==
    ASSUME NEW m \in Seq(Byte), NEW s, Len(s) \in Nat, NEW p, Begins(s, m, Len(m), p)
    PROVE  ReadMessage(s) = m
<1> DEFINE n == Len(m)
<1>1. n \in Nat /\ \A j \in 1 .. n : m[j] \in Byte
  BY ElementOfSeq, LenProperties
<1>2. /\ \A j \in 1 .. n + 1 : p[j] \in Nat
      /\ p[1] = 1 /\ p[n + 1] = Len(s) + 1
      /\ \A j \in 1 .. n : /\ p[j] >= 1 /\ p[j + 1] <= Len(s) + 1
                           /\ EncodedAt(s, p[j], m[j], p[j + 1])
  BY DEF Begins
<1>3. PICK f : /\ ReadMessage(s) = f[1]
               /\ \A i \in 1 .. Len(s) + 3 : f[i] = ReadAt(s, f, i)
  BY MessageRead
<1> DEFINE Wrong == {k \in 0 .. n : f[p[n + 1 - k]] # SubSeq(m, n + 1 - k, n)}
<1>4. ASSUME Wrong # {}
      PROVE  FALSE
  <2>1. PICK k \in Wrong : \A l \in Wrong : k <= l
    <3>1. Wrong \subseteq Nat
      BY <1>1
    <3> HIDE DEF Wrong
    <3> QED
      BY <1>4, <3>1, LeastOf
  <2>2. k \in 0 .. n /\ f[p[n + 1 - k]] # SubSeq(m, n + 1 - k, n)
    BY <2>1
  <2>3. CASE k = 0
    <3>1. Len(s) + 1 \in 1 .. Len(s) + 3 /\ Len(s) + 1 > Len(s)
      OBVIOUS
    <3>2. f[Len(s) + 1] = <<>>
      BY <1>3, <3>1 DEF ReadAt
    <3>3. SubSeq(m, n + 1, n) = <<>>
      <4>1. \A i \in n + 1 .. n : m[i] \in Byte
        BY <1>1
      <4>2. SubSeq(m, n + 1, n) \in Seq(Byte) /\ Len(SubSeq(m, n + 1, n)) = 0
        BY <1>1, <4>1, SubSeqProperties
      <4> QED
        BY <4>2, EmptySeq
    <3>4. n + 1 - k = n + 1
      BY <1>1, <2>3
    <3> QED
      BY <1>2, <2>2, <3>2, <3>3, <3>4
  <2>4. CASE k > 0
    <3> DEFINE j == n + 1 - k
    <3>1. j \in 1 .. n /\ j + 1 \in 1 .. n + 1 /\ j \in 1 .. n + 1
      BY <1>1, <2>2, <2>4
    <3>2. f[p[j + 1]] = SubSeq(m, j + 1, n)
      <4>1. k - 1 \in 0 .. n /\ ~ (k <= k - 1) /\ n + 1 - (k - 1) = j + 1
        BY <1>1, <2>2, <2>4
      <4>2. k - 1 \notin Wrong
        <5> HIDE DEF Wrong
        <5> QED
          BY <2>1, <4>1
      <4> QED
        BY <4>1, <4>2
    <3>3. /\ p[j] \in Nat /\ p[j + 1] \in Nat /\ p[j] >= 1 /\ p[j + 1] <= Len(s) + 1
          /\ EncodedAt(s, p[j], m[j], p[j + 1]) /\ m[j] \in Byte
      BY <1>1, <1>2, <3>1
    <3>4. ReadAt(s, f, p[j]) = <<m[j]>> \o f[p[j + 1]]
      BY <3>3, ByteRead
    <3>5. p[j] \in 1 .. Len(s) + 3
      <4>1. p[j] <= p[j + 1]
        BY <3>3 DEF EncodedAt
      <4> QED
        BY <3>3, <4>1
    <3>6. f[p[j]] = SubSeq(m, j, n)
      BY <1>3, <3>1, <3>2, <3>4, <3>5, SuffixStep
    <3> QED
      BY <2>2, <3>6
  <2> QED
    BY <2>2, <2>3, <2>4
<1>5. f[p[1]] = SubSeq(m, 1, n)
  <2>1. n \in 0 .. n /\ n + 1 - n = 1
    BY <1>1
  <2>2. n \notin Wrong
    <3> HIDE DEF Wrong
    <3> QED
      BY <1>4
  <2> QED
    BY <2>1, <2>2
<1>6. SubSeq(m, 1, n) = m
  BY SubSeqFull
<1> QED
  BY <1>2, <1>3, <1>5, <1>6

\* A byte is encoded as printable bytes.
LEMMA EncodeByteType ==
    ASSUME NEW b \in Byte
    PROVE  /\ EncodeByte(b) \in Seq(Printable)
           /\ Len(EncodeByte(b)) = IF Blank <= b /\ b <= Tilde /\ b # Percent THEN 1 ELSE 3
           /\ EncodedAt(EncodeByte(b), 1, b, Len(EncodeByte(b)) + 1)
<1>1. CASE Blank <= b /\ b <= Tilde /\ b # Percent
  <2>1. b \in Printable /\ EncodeByte(b) = <<b>>
    BY <1>1 DEF EncodeByte, Printable, Blank, Tilde, Byte
  <2> QED
    BY <1>1, <2>1 DEF EncodedAt
<1>2. CASE ~ (Blank <= b /\ b <= Tilde /\ b # Percent)
  <2> DEFINE x == HexDigit(b \div 16)
             y == HexDigit(b % 16)
  <2>1. Percent \in Printable /\ x \in Printable /\ y \in Printable
    BY HexRead DEF Percent, Printable
  <2>2. EncodeByte(b) = <<Percent, x, y>>
    BY <1>2 DEF EncodeByte
  <2>3. EncodedAt(EncodeByte(b), 1, b, 4) <=>
            /\ EncodeByte(b)[1] = Percent /\ EncodeByte(b)[2] = x /\ EncodeByte(b)[3] = y
    BY <1>2 DEF EncodedAt
  <2> HIDE DEF x, y
  <2>4. Len(EncodeByte(b)) = 3 /\ EncodeByte(b) \in Seq(Printable)
    BY <2>1, <2>2
  <2> QED
    BY <1>2, <2>2, <2>3, <2>4
<1> QED
  BY <1>1, <1>2

\* Where the bytes of an encoding begin does not change when one is appended.
LEMMA BeginsAppend ==
    ASSUME NEW m \in Seq(Byte), NEW n \in Nat, n < Len(m), NEW s \in Seq(Printable),
           NEW p, Begins(s, m, n, p)
    PROVE  LET t == s \o EncodeByte(m[n + 1])
           IN  t \in Seq(Printable) /\ \E q : Begins(t, m, n + 1, q)
<1> DEFINE b == m[n + 1]
           e == EncodeByte(b)
           t == s \o e
           q == [j \in 1 .. n + 2 |-> IF j <= n + 1 THEN p[j] ELSE Len(t) + 1]
<1>1. b \in Byte /\ Len(m) \in Nat /\ Len(s) \in Nat
  <2>1. Len(m) \in Nat /\ n + 1 \in 1 .. Len(m)
    BY LenProperties
  <2> QED
    BY <2>1, ElementOfSeq, LenProperties
<1> HIDE DEF b
<1>2. /\ e \in Seq(Printable) /\ Len(e) \in {1, 3} /\ EncodedAt(e, 1, b, Len(e) + 1)
      /\ Len(e) = IF Blank <= b /\ b <= Tilde /\ b # Percent THEN 1 ELSE 3
  BY <1>1, EncodeByteType
<1> HIDE DEF e
<1>3. /\ t \in Seq(Printable) /\ Len(t) = Len(s) + Len(e)
      /\ \A i \in 1 .. Len(s) : t[i] = s[i]
      /\ \A i \in 1 .. Len(e) : t[Len(s) + i] = e[i]
  <2>1. /\ t \in Seq(Printable) /\ Len(t) = Len(s) + Len(e)
        /\ \A i \in 1 .. Len(s) + Len(e) : t[i] = IF i <= Len(s) THEN s[i] ELSE e[i - Len(s)]
    BY <1>2, ConcatProperties
  <2>2. ASSUME NEW i \in 1 .. Len(e)
        PROVE  t[Len(s) + i] = e[i]
    <3>1. Len(s) + i \in 1 .. Len(s) + Len(e) /\ ~ (Len(s) + i <= Len(s))
          /\ Len(s) + i - Len(s) = i
      BY <1>1, <1>2
    <3> QED
      BY <2>1, <3>1
  <2>3. \A i \in 1 .. Len(s) : t[i] = s[i]
    BY <1>1, <1>2, <2>1
  <2> QED
    BY <2>1, <2>2, <2>3
<1> HIDE DEF t
<1>4. /\ \A j \in 1 .. n + 1 : p[j] \in Nat
      /\ p[1] = 1 /\ p[n + 1] = Len(s) + 1
      /\ \A j \in 1 .. n : /\ p[j] >= 1 /\ p[j + 1] <= Len(s) + 1
                           /\ EncodedAt(s, p[j], m[j], p[j + 1])
  BY DEF Begins
<1>5. /\ q \in [1 .. n + 2 -> Nat] /\ q[n + 2] = Len(t) + 1
      /\ \A j \in 1 .. n + 1 : q[j] = p[j]
  BY <1>1, <1>2, <1>3, <1>4
<1> HIDE DEF q
<1>6. ASSUME NEW j \in 1 .. n + 1
      PROVE  q[j] >= 1 /\ q[j + 1] <= Len(t) + 1 /\ EncodedAt(t, q[j], m[j], q[j + 1])
  <2>1. CASE j <= n
    <3>1. /\ p[j] \in Nat /\ p[j + 1] \in Nat /\ p[j] >= 1 /\ p[j + 1] <= Len(s) + 1
          /\ EncodedAt(s, p[j], m[j], p[j + 1]) /\ q[j] = p[j] /\ q[j + 1] = p[j + 1]
      BY <1>4, <1>5, <2>1
    <3>2. EncodedAt(t, p[j], m[j], p[j + 1])
      <4>1. \A i \in Nat : i >= 1 /\ i < p[j + 1] => t[i] = s[i]
        BY <1>1, <1>3, <3>1
      <4>2. CASE Blank <= m[j] /\ m[j] <= Tilde /\ m[j] # Percent
        BY <3>1, <4>1, <4>2 DEF EncodedAt
      <4>3. CASE ~ (Blank <= m[j] /\ m[j] <= Tilde /\ m[j] # Percent)
        <5>1. /\ p[j + 1] = p[j] + 3 /\ s[p[j]] = Percent
              /\ s[p[j] + 1] = HexDigit(m[j] \div 16) /\ s[p[j] + 2] = HexDigit(m[j] % 16)
          BY <3>1, <4>3 DEF EncodedAt
        <5>2. ASSUME NEW i \in 0 .. 2
              PROVE  t[p[j] + i] = s[p[j] + i]
          <6>1. p[j] \in Nat /\ p[j] >= 1 /\ p[j + 1] = p[j] + 3
            BY <3>1, <5>1
          <6>2. p[j] + i \in Nat /\ p[j] + i >= 1 /\ p[j] + i < p[j + 1]
            BY <6>1
          <6> QED
            BY <4>1, <6>2
        <5>3. t[p[j] + 0] = s[p[j] + 0] /\ t[p[j] + 1] = s[p[j] + 1] /\ t[p[j] + 2] = s[p[j] + 2]
          BY <5>2
        <5> QED
          BY <3>1, <4>3, <5>1, <5>3 DEF EncodedAt
      <4> QED
        BY <4>2, <4>3
    <3>3. Len(s) + 1 <= Len(t) + 1
      BY <1>1, <1>2, <1>3
    <3> QED
      BY <1>1, <1>2, <1>3, <3>1, <3>2
  <2>2. CASE j = n + 1
    <3>1. q[j] = Len(s) + 1 /\ q[j + 1] = Len(s) + Len(e) + 1 /\ m[j] = b
      BY <1>3, <1>4, <1>5, <2>2 DEF b
    <3>2. EncodedAt(t, Len(s) + 1, b, Len(s) + Len(e) + 1)
      <4>1. CASE Blank <= b /\ b <= Tilde /\ b # Percent
        <5>1. Len(e) = 1 /\ e[1] = b /\ t[Len(s) + 1] = e[1]
          BY <1>2, <1>3, <4>1 DEF EncodedAt
        <5> QED
          BY <1>1, <4>1, <5>1 DEF EncodedAt
      <4>2. CASE ~ (Blank <= b /\ b <= Tilde /\ b # Percent)
        <5>1. /\ Len(e) = 3
              /\ e[1] = Percent /\ e[2] = HexDigit(b \div 16) /\ e[3] = HexDigit(b % 16)
          BY <1>2, <4>2 DEF EncodedAt
        <5>2. /\ t[Len(s) + 1] = e[1] /\ t[Len(s) + 1 + 1] = e[2] /\ t[Len(s) + 1 + 2] = e[3]
              /\ Len(s) + Len(e) + 1 = Len(s) + 1 + 3
          BY <1>1, <1>3, <5>1
        <5> QED
          BY <4>2, <5>1, <5>2 DEF EncodedAt
      <4> QED
        BY <4>1, <4>2
    <3> QED
      BY <1>1, <1>2, <1>3, <3>1, <3>2
  <2> QED
    BY <2>1, <2>2
<1>7. Begins(t, m, n + 1, q)
  <2>1. n + 1 + 1 = n + 2 /\ 1 \in 1 .. n + 1
    OBVIOUS
  <2> QED
    BY <1>4, <1>5, <1>6, <2>1 DEF Begins
<1> QED
  BY <1>3, <1>7 DEF t, e, b

-----------------------------------------------------------------------------
(* The invariant                                                           *)

MethodNames == {"current_user", "remote_user", "jwt", "jwks"}
Yields(i) == AuthorizeUser(methods[i], request) \notin {"none", "error"}

TypeOK ==
    /\ auth_configs \in AuthConfigs
    /\ boot \in {"booting", "serving", "panicked"}
    /\ methods \in Seq(MethodNames)
    /\ route \in {"none", "user", "token", "proxy"}
    /\ request \in Requests
    /\ next \in Nat \ {0}

\* from_config has made the methods of the entries before `next`, and a server
\* that serves has made all of them.
Enabled ==
    /\ boot # "serving" => route = "none"
    /\ boot = "booting" /\ auth_configs # NotConfigured =>
           /\ next <= Len(auth_configs) + 1 /\ Len(methods) = next - 1
           /\ \A i \in 1 .. next - 1 : /\ Creates(auth_configs[i])
                                       /\ methods[i] = auth_configs[i].name
    /\ EnabledAsConfigured

\* No method before `next` knows the user, and the answer is what the next one
\* says, or that there is none.
Tried ==
    /\ boot = "serving" /\ route # "user" => next = 1
    /\ route = "user" =>
           /\ next <= Len(methods) + 1
           /\ \A i \in 1 .. next - 1 : ~ Yields(i)
           /\ \/ answer = Pending
              \/ next > Len(methods) /\ answer = Refused("401")
              \/ /\ next <= Len(methods) /\ Yields(next)
                 /\ answer = Admitted(<<AuthorizeUser(methods[next], request)>>)

\* The other answers are what the reader of the route says of the header.
Read ==
    /\ route = "none" => answer = Pending
    /\ route = "token" => answer \in {Pending, TokenBearer(request.auth)}
    /\ route = "proxy" => answer \in {Pending, ProxyBearer(request.auth)}

\* An error of the proxy is its refusal, or comes from behind it.
Failed ==
    /\ error # "none" =>
           /\ route = "proxy" /\ answer # Pending
           /\ \/ answer.status # "ok" /\ error = answer.status
              \/ answer.status = "ok" /\ error \in DispatchErrors
    /\ reply # <<>> => error # "none" /\ reply[1] = GrpcStatus(error)

PathInv == TypeOK /\ Enabled /\ Tried /\ Read /\ Failed

\* An entry whose method can be created has the name of a method.
LEMMA CreatedName ==
    ASSUME NEW c, Creates(c)
    PROVE  c.name \in MethodNames
BY DEF Creates, MethodNames

\* The configuration is a list.
LEMMA ConfigType ==
    ASSUME TypeOK, auth_configs # NotConfigured
    PROVE  Len(auth_configs) \in Nat /\ DOMAIN auth_configs = 1 .. Len(auth_configs)
<1>1. auth_configs \in Seq(AuthConfig)
  BY AuthorizationAssumption DEF TypeOK
<1> QED
  BY <1>1, LenProperties

\* So are the methods.
LEMMA MethodsType ==
    ASSUME TypeOK
    PROVE  /\ Len(methods) \in Nat /\ DOMAIN methods = 1 .. Len(methods)
           /\ \A i \in 1 .. Len(methods) : methods[i] \in MethodNames
BY LenProperties, ElementOfSeq DEF TypeOK

\* Start-up keeps PathInv.
LEMMA BootStep ==
    ASSUME PathInv, EnableMethod \/ Serve, UNCHANGED grpcVars
    PROVE  PathInv'
<1> USE DEF PathInv
<1>1. boot = "booting" /\ route = "none" /\ answer = Pending /\ error = "none" /\ reply = <<>>
  BY DEF EnableMethod, Serve, TypeOK, Enabled, Read, Failed
<1>2. UNCHANGED <<auth_configs, route, request, answer, error, reply>>
  BY DEF EnableMethod, Serve, grpcVars
<1>3. Read' /\ Failed'
  BY <1>1, <1>2 DEF Read, Failed
<1>4. CASE EnableMethod
  <2> DEFINE c == auth_configs[next]
  <2>1. /\ auth_configs # NotConfigured /\ next <= Len(auth_configs) /\ next \in Nat \ {0}
        /\ methods \in Seq(MethodNames) /\ Len(methods) = next - 1
        /\ Len(auth_configs) \in Nat
    BY <1>1, <1>4, ConfigType DEF EnableMethod, Enabled, TypeOK
  <2>2. CASE Creates(c) /\ methods' = Append(methods, c.name) /\ next' = next + 1 /\ boot' = boot
    <3>1. c.name \in MethodNames
      BY <2>2, CreatedName
    <3>2. /\ methods' \in Seq(MethodNames) /\ Len(methods') = Len(methods) + 1
          /\ \A i \in 1 .. Len(methods) : methods'[i] = methods[i]
          /\ methods'[Len(methods) + 1] = c.name
      BY <2>1, <2>2, <3>1, AppendProperties
    <3>3. \A i \in 1 .. next' - 1 : Creates(auth_configs[i]) /\ methods'[i] = auth_configs[i].name
      <4> SUFFICES ASSUME NEW i \in 1 .. next
                   PROVE  Creates(auth_configs[i]) /\ methods'[i] = auth_configs[i].name
        BY <2>1, <2>2
      <4>1. CASE i = next
        BY <2>1, <2>2, <3>2, <4>1
      <4>2. CASE i \in 1 .. next - 1
        BY <1>1, <2>1, <3>2, <4>2 DEF Enabled
      <4> QED
        BY <2>1, <4>1, <4>2
    <3>4. TypeOK'
      BY <1>2, <2>1, <2>2, <3>2 DEF TypeOK
    <3>5. Enabled'
      BY <1>1, <1>2, <2>1, <2>2, <3>2, <3>3 DEF Enabled, EnabledAsConfigured
    <3>6. Tried'
      BY <1>1, <1>2, <2>2 DEF Tried
    <3> QED
      BY <1>3, <3>4, <3>5, <3>6
  <2>3. CASE boot' = "panicked" /\ UNCHANGED <<methods, next>>
    <3>1. TypeOK'
      BY <1>2, <2>3 DEF TypeOK
    <3>2. Enabled'
      BY <1>1, <1>2, <2>3 DEF Enabled, EnabledAsConfigured
    <3>3. Tried'
      BY <1>1, <1>2, <2>3 DEF Tried
    <3> QED
      BY <1>3, <3>1, <3>2, <3>3
  <2> QED
    BY <1>4, <2>2, <2>3 DEF EnableMethod
<1>5. CASE Serve
  <2>1. boot' = "serving" /\ next' = 1
    BY <1>5 DEF Serve
  <2>2. Tried'
    BY <1>1, <1>2, <2>1 DEF Tried
  <2>3. CASE auth_configs = NotConfigured /\ methods' = <<"current_user">>
    <3>1. methods' \in Seq(MethodNames)
      BY <2>3 DEF MethodNames
    <3>2. TypeOK'
      BY <1>2, <2>1, <3>1 DEF TypeOK
    <3>3. Enabled'
      BY <1>2, <2>1, <2>3 DEF Enabled, EnabledAsConfigured
    <3> QED
      BY <1>3, <2>2, <3>2, <3>3
  <2>4. CASE auth_configs # NotConfigured /\ next > Len(auth_configs) /\ methods' = methods
    <3>1. TypeOK'
      BY <1>2, <2>1, <2>4 DEF TypeOK
    <3>2. /\ Len(auth_configs) \in Nat /\ DOMAIN auth_configs = 1 .. Len(auth_configs)
          /\ next = Len(auth_configs) + 1 /\ Len(methods) = Len(auth_configs)
          /\ \A i \in 1 .. Len(auth_configs) :
                 Creates(auth_configs[i]) /\ methods[i] = auth_configs[i].name
      BY <1>1, <2>4, ConfigType DEF Enabled, TypeOK
    <3>3. methods \in [1 .. Len(auth_configs) -> MethodNames]
      BY <3>2, LenProperties DEF TypeOK
    <3>4. methods = [i \in DOMAIN auth_configs |-> auth_configs[i].name]
      BY <3>2, <3>3
    <3>5. EnabledAsConfigured'
      BY <1>2, <2>4, <3>2, <3>4 DEF EnabledAsConfigured
    <3>6. Enabled'
      BY <2>1, <3>5 DEF Enabled
    <3> QED
      BY <1>3, <2>2, <3>1, <3>6
  <2> QED
    BY <1>5, <2>3, <2>4 DEF Serve
<1> QED
  BY <1>4, <1>5

\* After start-up a step leaves the configuration and the methods alone.
LEMMA EnabledStays ==
    ASSUME PathInv, boot = "serving", UNCHANGED <<auth_configs, boot, methods>>
    PROVE  Enabled'
BY DEF PathInv, Enabled, EnabledAsConfigured

\* The steps of a request through UserAuth, TokenAuth or the proxy's reader
\* keep PathInv: before it is answered there is no error to report.
LEMMA RequestStep ==
    ASSUME PathInv, UNCHANGED grpcVars,
           \/ \E to \in {"user", "token", "proxy"}, r \in Requests : Receive(to, r)
           \/ TryMethod \/ NoUser \/ TokenAuthorize \/ ProxyAuthorize
    PROVE  PathInv'
<1>1. boot = "serving" /\ answer = Pending /\ error = "none" /\ reply = <<>>
  BY DEF PathInv, TypeOK, Enabled, Read, Failed, Receive, TryMethod, NoUser, TokenAuthorize,
         ProxyAuthorize
<1>2. UNCHANGED <<auth_configs, boot, methods, error, reply>>
  BY DEF Receive, TryMethod, NoUser, TokenAuthorize, ProxyAuthorize, grpcVars
<1>3. Enabled' /\ Failed'
  BY <1>1, <1>2, EnabledStays DEF Failed
<1>4. methods \in Seq(MethodNames) /\ Len(methods) \in Nat /\ next \in Nat \ {0}
  BY MethodsType DEF PathInv, TypeOK
<1> USE DEF PathInv
<1>5. ASSUME NEW to \in {"user", "token", "proxy"}, NEW r \in Requests, Receive(to, r)
      PROVE  PathInv'
  <2>1. next = 1 /\ next' = 1 /\ answer' = Pending /\ route' = to /\ request' = r
    BY <1>1, <1>5 DEF Receive, Tried
  <2>2. TypeOK'
    BY <1>2, <2>1 DEF TypeOK
  <2>3. Tried'
    BY <1>2, <1>4, <2>1 DEF Tried
  <2>4. Read'
    BY <2>1 DEF Read
  <2> QED
    BY <1>3, <2>2, <2>3, <2>4
<1>6. CASE TryMethod
  <2>1. route = "user" /\ next <= Len(methods) /\ UNCHANGED <<route, request>>
    BY <1>6 DEF TryMethod
  <2>2. Read'
    BY <2>1 DEF Read
  <2>3. CASE ~ Yields(next) /\ next' = next + 1 /\ answer' = answer
    <3>1. TypeOK'
      BY <1>2, <1>4, <2>1, <2>3 DEF TypeOK
    <3>2. \A i \in 1 .. next' - 1 : ~ Yields(i)'
      BY <1>2, <1>4, <2>1, <2>3 DEF Tried, Yields
    <3>3. Tried'
      BY <1>1, <1>2, <1>4, <2>1, <2>3, <3>2 DEF Tried
    <3> QED
      BY <1>3, <2>2, <3>1, <3>3
  <2>4. CASE /\ Yields(next) /\ next' = next
             /\ answer' = Admitted(<<AuthorizeUser(methods[next], request)>>)
    <3>1. TypeOK'
      BY <1>2, <2>1, <2>4 DEF TypeOK
    <3>2. Tried'
      BY <1>2, <1>4, <2>1, <2>4 DEF Tried, Yields
    <3> QED
      BY <1>3, <2>2, <3>1, <3>2
  <2> QED
    BY <1>6, <2>3, <2>4 DEF TryMethod, Yields
<1>7. CASE NoUser
  <2>1. /\ route = "user" /\ next > Len(methods) /\ answer' = Refused("401")
        /\ UNCHANGED <<route, request, next>>
    BY <1>7 DEF NoUser
  <2>2. TypeOK' /\ Read'
    BY <1>2, <2>1 DEF TypeOK, Read
  <2>3. Tried'
    BY <1>2, <1>4, <2>1 DEF Tried, Yields
  <2> QED
    BY <1>3, <2>2, <2>3
<1>8. CASE TokenAuthorize
  <2>1. /\ route = "token" /\ answer' = TokenBearer(request.auth)
        /\ UNCHANGED <<route, request, next>>
    BY <1>8 DEF TokenAuthorize
  <2>2. TypeOK' /\ Read' /\ Tried'
    BY <1>2, <2>1 DEF TypeOK, Read, Tried
  <2> QED
    BY <1>3, <2>2
<1>9. CASE ProxyAuthorize
  <2>1. /\ route = "proxy" /\ answer' = ProxyBearer(request.auth)
        /\ UNCHANGED <<route, request, next>>
    BY <1>9 DEF ProxyAuthorize
  <2>2. TypeOK' /\ Read' /\ Tried'
    BY <1>2, <2>1 DEF TypeOK, Read, Tried
  <2> QED
    BY <1>3, <2>2
<1> QED
  BY <1>5, <1>6, <1>7, <1>8, <1>9

\* What GrpcMessage does leaves the request and its answer alone.
LEMMA ReplyStep ==
    ASSUME PathInv, UNCHANGED authVars, Failed'
    PROVE  PathInv'
BY DEF PathInv, authVars, TypeOK, Enabled, EnabledAsConfigured, Tried, Yields, Read

\* PathInv is an invariant, for every header, configuration and message.
THEOREM PathInvariant == Spec => []PathInv
<1>1. Init => PathInv
  <2> SUFFICES ASSUME Init
               PROVE  PathInv
    OBVIOUS
  <2>1. request \in Requests
    BY DEF Init, AuthInit, NoRequest, Requests
  <2>2. methods \in Seq(MethodNames) /\ Len(methods) = 0
    BY DEF Init, AuthInit
  <2>3. TypeOK
    BY <2>1, <2>2 DEF Init, AuthInit, TypeOK
  <2>4. Enabled
    BY <2>2, <2>3, ConfigType DEF Init, AuthInit, Enabled, EnabledAsConfigured
  <2>5. Tried /\ Read /\ Failed
    BY DEF Init, AuthInit, GrpcInit, Tried, Read, Failed
  <2> QED
    BY <2>3, <2>4, <2>5 DEF PathInv
<1>2. PathInv /\ [Next]_vars => PathInv'
  <2> SUFFICES ASSUME PathInv, [Next]_vars
               PROVE  PathInv'
    OBVIOUS
  <2>1. CASE AuthNext /\ UNCHANGED grpcVars
    BY <2>1, BootStep, RequestStep DEF AuthNext
  <2>2. CASE ProxyFails
    <3>1. \/ answer.status # "ok" /\ error' = answer.status
          \/ answer.status = "ok" /\ error' \in DispatchErrors
      BY <2>2 DEF ProxyFails, ProxyError
    <3>2. route = "proxy" /\ answer # Pending /\ reply' = reply /\ error = "none"
      BY <2>2 DEF ProxyFails, ProxyError
    <3>3. UNCHANGED <<route, answer, authVars>>
      BY <2>2 DEF ProxyFails, authVars
    <3>4. Failed'
      BY <3>1, <3>2, <3>3 DEF PathInv, Failed
    <3> QED
      BY <3>3, <3>4, ReplyStep
  <2>3. CASE (Encode \/ Respond) /\ UNCHANGED authVars
    <3>1. Failed'
      BY <2>3 DEF PathInv, Failed, Encode, Respond, authVars
    <3> QED
      BY <2>3, <3>1, ReplyStep
  <2>4. CASE UNCHANGED vars
    <3>1. UNCHANGED authVars /\ Failed'
      BY <2>4 DEF PathInv, Failed, vars, authVars, grpcVars
    <3> QED
      BY <3>1, ReplyStep
  <2> QED
    BY <2>1, <2>2, <2>3, <2>4 DEF Next
<1> QED
  BY <1>1, <1>2, PTL DEF Spec

\* What was encoded so far is printable and reads as the bytes up to pos, and a
\* reply carries the encoding of the whole message.
Encoding ==
    /\ message \in Seq(Byte) /\ pos \in 0 .. Len(message)
    /\ encoded \in Seq(Printable)
    /\ \E p : Begins(encoded, message, pos, p)
    /\ error = "none" => message = <<>> /\ reply = <<>>
    /\ reply # <<>> => pos = Len(message) /\ reply[2] = encoded

\* Encoding is an invariant; that a refusal names an error is PathInv's part.
LEMMA EncodingInvariant == Spec => []Encoding
<1>1. Init => Encoding
  <2> SUFFICES ASSUME Init
               PROVE  Encoding
    OBVIOUS
  <2>1. /\ message = <<>> /\ pos = 0 /\ encoded = <<>> /\ reply = <<>>
    BY DEF Init, GrpcInit
  <2>2. /\ message \in Seq(Byte) /\ encoded \in Seq(Printable)
        /\ Len(message) = 0 /\ Len(encoded) = 0
    BY <2>1
  <2>3. Begins(encoded, message, 0, [j \in 1 .. 1 |-> 1])
    BY <2>2 DEF Begins
  <2> QED
    BY <2>1, <2>2, <2>3 DEF Encoding
<1>2. PathInv /\ Encoding /\ [Next]_vars => Encoding'
  <2> SUFFICES ASSUME PathInv, Encoding, [Next]_vars
               PROVE  Encoding'
    OBVIOUS
  <2>1. CASE UNCHANGED grpcVars
    BY <2>1 DEF grpcVars, Encoding
  <2>2. ASSUME NEW e, ProxyError(e), e # "none"
        PROVE  Encoding'
    <3>1. /\ error = "none" /\ error' = e /\ message' \in Messages
          /\ pos' = pos /\ encoded' = encoded /\ reply' = reply
      BY <2>2 DEF ProxyError
    <3>2. message' \in Seq(Byte) /\ Len(message') \in Nat
      BY <3>1, MessageAssumption, LenProperties DEF Byte
    <3>3. message = <<>> /\ pos = 0 /\ reply = <<>> /\ encoded \in Seq(Printable)
      BY <3>1 DEF Encoding
    <3>4. \E p : Begins(encoded, message', 0, p)
      BY <3>3 DEF Encoding, Begins
    <3> QED
      BY <2>2, <3>1, <3>2, <3>3, <3>4 DEF Encoding
  <2>3. CASE Encode
    <3>1. /\ pos \in Nat /\ pos < Len(message) /\ message \in Seq(Byte) /\ Len(message) \in Nat
          /\ encoded \in Seq(Printable)
      BY <2>3, LenProperties DEF Encode, Encoding
    <3>2. PICK p : Begins(encoded, message, pos, p)
      BY DEF Encoding
    <3>3. /\ encoded' \in Seq(Printable)
          /\ \E q : Begins(encoded', message, pos + 1, q)
      BY <2>3, <3>1, <3>2, BeginsAppend DEF Encode
    <3> QED
      BY <2>3, <3>1, <3>3 DEF Encode, Encoding
  <2>4. CASE Respond
    <3>1. ValidHeader(encoded)
      <4>1. \A i \in DOMAIN encoded : encoded[i] \in Printable
        BY LenProperties, ElementOfSeq DEF Encoding
      <4> QED
        BY <4>1 DEF ValidHeader, Printable
    <3>2. reply' = <<GrpcStatus(error), encoded>>
      BY <2>4, <3>1 DEF Respond
    <3> HIDE DEF GrpcStatus
    <3> QED
      BY <2>4, <3>2 DEF Respond, Encoding
  <2>5. CASE ProxyFails
    <3>1. "none" \notin DispatchErrors /\ "none" \notin Unauthenticated
      BY DEF DispatchErrors, Error, Unauthenticated, NotReady, Over, Faulty
    <3>2. route = "proxy" /\ answer # Pending /\ request.auth \in AllHeaders
      BY <2>5 DEF ProxyFails, PathInv, TypeOK, Requests, AllHeaders
    <3>3. answer = ProxyBearer(request.auth)
      BY <3>2 DEF PathInv, Read
    <3>4. answer.status = "ok" \/ answer.status \in Unauthenticated
      BY <3>2, <3>3, ProxyReads, AnswerParts
    <3> QED
      BY <2>2, <2>5, <3>1, <3>4 DEF ProxyFails
  <2> QED
    BY <2>1, <2>3, <2>4, <2>5 DEF Next, vars
<1> QED
  BY <1>1, <1>2, PathInvariant, PTL DEF Spec

-----------------------------------------------------------------------------
(* The properties                                                          *)

\* A server that serves has every method that is configured, in that order.
THEOREM EnabledAsConfiguredAlways == Spec => []EnabledAsConfigured
<1>1. PathInv => EnabledAsConfigured
  BY DEF PathInv, Enabled
<1> QED
  BY <1>1, PathInvariant, PTL

\* A user is who the first method that succeeds says, whatever fails before it,
\* and nobody gets in if none succeeds.
THEOREM UserByFirstSuccessAlways == Spec => []UserByFirstSuccess
<1>1. PathInv => UserByFirstSuccess
  <2> SUFFICES ASSUME PathInv, route = "user", answer # Pending
               PROVE  UserByFirstSuccess
    BY DEF UserByFirstSuccess
  <2> DEFINE yields == {i \in DOMAIN methods : Yields(i)}
  <2>1. /\ next \in Nat \ {0} /\ Len(methods) \in Nat /\ DOMAIN methods = 1 .. Len(methods)
        /\ \A i \in 1 .. next - 1 : ~ Yields(i)
    BY MethodsType DEF PathInv, TypeOK, Tried
  <2>2. CASE next > Len(methods) /\ answer = Refused("401")
    <3>1. yields = {}
      BY <2>1, <2>2
    <3> QED
      BY <2>2, <3>1 DEF UserByFirstSuccess, Yields
  <2>3. CASE /\ next <= Len(methods) /\ Yields(next)
             /\ answer = Admitted(<<AuthorizeUser(methods[next], request)>>)
    <3>1. next \in yields /\ \A j \in yields : next <= j
      BY <2>1, <2>3
    <3> QED
      BY <2>3, <3>1 DEF UserByFirstSuccess, Yields
  <2> QED
    BY <2>2, <2>3 DEF PathInv, Tried
<1> QED
  BY <1>1, PathInvariant, PTL

\* The subject of a JWT is believed only if the header holds that token.
THEOREM SubjectNeedsTokenAlways == Spec => []SubjectNeedsToken
<1>1. PathInv => SubjectNeedsToken
  <2> SUFFICES ASSUME PathInv, route = "user", answer # Pending,
                      NEW key \in {"pem", "jwk"}, answer.as = <<key>>
               PROVE  TokenOf(request.auth, <<key>>)
    BY DEF SubjectNeedsToken
  <2> DEFINE user == AuthorizeUser(methods[next], request)
  <2>1. Refused("401").as # <<key>>
    BY DEF Refused
  <2>2. next \in 1 .. Len(methods) /\ Yields(next) /\ answer = Admitted(<<user>>)
    BY <2>1, MethodsType DEF PathInv, TypeOK, Tried
  <2>3. user = key
    <3>1. <<user>> = <<key>>
      BY <2>2, AnswerParts
    <3> QED
      BY <3>1
  <2>4. methods[next] \in MethodNames /\ user \notin {"none", "error"}
    BY <2>2, MethodsType DEF PathInv, Yields
  <2>5. /\ request.whoami \in {"server", "error"} /\ request.remote \in {"none", "alice", NonAscii}
        /\ request.auth \in AllHeaders
    BY DEF PathInv, TypeOK, Requests, AllHeaders
  <2>6. CASE methods[next] \in {"current_user", "remote_user"}
    BY <2>3, <2>5, <2>6 DEF AuthorizeUser, CurrentUser, RemoteUser, NonAscii
  <2>7. CASE methods[next] = "jwt"
    <3>1. user = Subject("pem", UserBearer(request.auth))
      BY <2>7 DEF AuthorizeUser, JWT
    <3> QED
      BY <2>3, <2>4, <2>5, <3>1, SubjectReads
  <2>8. CASE methods[next] = "jwks"
    <3>1. user = Subject("jwk", UserBearer(request.auth))
      BY <2>8 DEF AuthorizeUser, JWKS
    <3> QED
      BY <2>3, <2>4, <2>5, <3>1, SubjectReads
  <2> QED
    BY <2>4, <2>6, <2>7, <2>8 DEF MethodNames
<1> QED
  BY <1>1, PathInvariant, PTL

\* The callback routes and the proxy read the same token out of every header.
THEOREM TokenReadersAgreeAlways == Spec => []TokenReadersAgree
<1>1. PathInv => TokenReadersAgree
  <2> SUFFICES ASSUME PathInv, route \in {"token", "proxy"}, answer # Pending
               PROVE  TokenReadersAgree
    BY DEF TokenReadersAgree
  <2> DEFINE h == request.auth
  <2>1. h \in AllHeaders
    BY DEF PathInv, TypeOK, Requests, AllHeaders
  <2>2. TokenOf(h, Rest(h)) <=> HasBearer(h)
    BY <2>1, GrammarOfBearer
  <2>3. CASE HasBearer(h) /\ answer = Admitted(Rest(h))
    BY <2>2, <2>3, AnswerParts DEF TokenReadersAgree
  <2>4. CASE ~ HasBearer(h) /\ answer.status # "ok"
    BY <2>2, <2>4 DEF TokenReadersAgree, Rest
  <2>5. CASE route = "proxy" /\ Rest(h) = <<>> /\ answer.status # "ok"
    BY <2>5 DEF TokenReadersAgree, Rest
  <2>6. "ok" \notin Unauthenticated
    BY DEF Unauthenticated
  <2>7. CASE route = "token"
    BY <2>1, <2>3, <2>4, <2>7, TokenReads, AnswerParts DEF PathInv, Read
  <2>8. CASE route = "proxy"
    BY <2>1, <2>3, <2>4, <2>5, <2>6, <2>8, ProxyReads, AnswerParts DEF PathInv, Read
  <2> QED
    BY <2>7, <2>8
<1> QED
  BY <1>1, PathInvariant, PTL

\* A gRPC client is told UNAUTHENTICATED exactly when its header holds no token:
\* no error behind the reader has that status, and every refusal of it has.
THEOREM UnauthenticatedIffNoTokenAlways == Spec => []UnauthenticatedIffNoToken
<1>1. PathInv => UnauthenticatedIffNoToken
  <2> SUFFICES ASSUME PathInv, reply # <<>>
               PROVE  reply[1] = 16 <=> (Rest(request.auth) = <<>>
                                            \/ ~ TokenOf(request.auth, Rest(request.auth)))
    BY DEF UnauthenticatedIffNoToken, Rest
  <2> DEFINE h == request.auth
  <2>1. h \in AllHeaders
    BY DEF PathInv, TypeOK, Requests, AllHeaders
  <2>2. TokenOf(h, Rest(h)) <=> HasBearer(h)
    BY <2>1, GrammarOfBearer
  <2>3. /\ answer = ProxyBearer(h) /\ reply[1] = GrpcStatus(error)
        /\ \/ answer.status # "ok" /\ error = answer.status
           \/ answer.status = "ok" /\ error \in DispatchErrors
    BY DEF PathInv, Failed, Read
  <2>4. CASE HasBearer(h) /\ Rest(h) # <<>> /\ answer = Admitted(Rest(h))
    <3>1. error \in DispatchErrors
      BY <2>3, <2>4, AnswerParts
    <3>2. GrpcStatus(error) # 16
      BY <3>1 DEF DispatchErrors, Error, Unauthenticated, NotReady, Over, Faulty, GrpcStatus
    <3> QED
      BY <2>2, <2>3, <2>4, <3>2
  <2>5. ASSUME ~ HasBearer(h) \/ Rest(h) = <<>>,
               NEW e \in Unauthenticated, answer = Refused(e)
        PROVE  reply[1] = 16 /\ (Rest(h) = <<>> \/ ~ TokenOf(h, Rest(h)))
    <3>1. e # "ok"
      BY DEF Unauthenticated
    <3>2. error = e
      BY <2>3, <2>5, <3>1, AnswerParts
    <3>3. GrpcStatus(e) = 16
      BY DEF GrpcStatus, Unauthenticated, NotReady, Over, Faulty
    <3> QED
      BY <2>2, <2>3, <2>5, <3>2, <3>3
  <2> QED
    BY <2>1, <2>3, <2>4, <2>5, ProxyReads
<1> QED
  BY <1>1, PathInvariant, PTL

\* A client reads the message of an error byte for byte, whatever bytes it has
\* and however long it is: the header is printable, so that it is never
\* replaced by the fallback, and no byte of the message is read as an escape.
THEOREM ClientReadsMessageAlways == Spec => []ClientReadsMessage
<1>1. Encoding => ClientReadsMessage
  BY DecodesEncoded, LenProperties DEF Encoding, ClientReadsMessage
<1> QED
  BY <1>1, EncodingInvariant, PTL
=============================================================================
