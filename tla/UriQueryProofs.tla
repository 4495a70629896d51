---------------------------- MODULE UriQueryProofs ----------------------------
(***************************************************************************)
(* Proofs about modules UrlDecode and UriQuery, for URIs of every length:  *)
(* no index leaves what it indexes, what is validly encoded is decoded to  *)
(* the bytes it denotes, and a query means what its parts mean.            *)
(*                                                                         *)
(* The inductive invariant of the decoding says that the bytes so far      *)
(* belong to the leading positions so far, and that the next position is a *)
(* leading one. That of the parser and the loop says that the pairs so far *)
(* are those of the first parts, and that the map has the first value of   *)
(* each key so far.                                                        *)
(***************************************************************************)
EXTENDS UriQuery, Least, FiniteSetTheorems, TLAPS

Byte == 0 .. 255

\* The characters have one-byte codes, the digits four-bit values.
LEMMA CodeTyped ==
  /\ \A c \in UriChar : Code[c] \in Byte
  /\ \A c \in Digits : Digit[c] \in 0 .. 15 /\ c \in UriChar
  /\ "%" \notin Digits /\ "+" \notin Digits /\ "-" \notin Digits
<1>1. Digits = {"0", "2", "4", "6", "f", "F"}
  BY DEF Digits, Digit
<1>2. UriChar = Digits \cup {"+", "-", "x", "%", "g", "?", "&", "="}
  BY DEF UriChar, Code, Digits
<1>3. \A c \in Digits : Digit[c] \in 0 .. 15
  BY <1>1 DEF Digit
<1>4. \A c \in UriChar : Code[c] \in Byte
  <2>1. UriChar = {"0", "2", "4", "6", "f", "F", "+", "-", "x", "%", "g", "?", "&", "="}
    BY <1>1, <1>2
  <2>2. ASSUME NEW c \in UriChar
        PROVE  Code[c] \in {48, 50, 52, 54, 102, 70, 43, 45, 120, 37, 103, 63, 38, 61}
    BY <2>1, <2>2 DEF Code, UriChar
  <2>3. {48, 50, 52, 54, 102, 70, 43, 45, 120, 37, 103, 63, 38, 61} \subseteq Byte
    BY DEF Byte
  <2> QED BY <2>2, <2>3
<1> QED BY <1>1, <1>2, <1>3, <1>4

-----------------------------------------------------------------------------
(* One escape.                                                              *)

\* The two characters of an escape that fits.
LEMMA EscapedIs ==
  ASSUME DecodeTypeOK, EscapeFits
  PROVE  /\ Len(Escaped) = 2
         /\ Escaped[1] = in[i + 2] /\ Escaped[2] = in[i + 3] /\ Head(Escaped) = in[i + 2]
<1>0. i \in Nat /\ in \in Seq(UriChar) /\ Len(in) \in Nat /\ i + 3 <= Len(in)
  BY DEF DecodeTypeOK, EscapeFits
<1>1. Escaped = SubSeq(in, i + 2, i + 3)
  BY <1>0 DEF Escaped
<1>2. /\ SubSeq(in, i + 2, i + 3) \in Seq(UriChar)
      /\ Len(SubSeq(in, i + 2, i + 3)) = (i + 3) - (i + 2) + 1
      /\ \A k \in 1 .. 2 : SubSeq(in, i + 2, i + 3)[k] = in[i + 2 + k - 1]
  BY <1>0
<1>3. Len(Escaped) = 2 /\ Escaped \in Seq(UriChar)
  BY <1>0, <1>1, <1>2
<1>4. Escaped[1] = in[i + 2 + 1 - 1] /\ Escaped[2] = in[i + 2 + 2 - 1]
  <2>1. 1 \in 1 .. 2 /\ 2 \in 1 .. 2
    OBVIOUS
  <2> QED BY <1>1, <1>2, <2>1, Zenon
<1>5. i + 2 + 1 - 1 = i + 2 /\ i + 2 + 2 - 1 = i + 3
  BY <1>0
<1>6. Head(Escaped) = Escaped[1]
  BY <1>3
<1> QED BY <1>3, <1>4, <1>5, <1>6

\* In a validly encoded URI the two characters after a "%" are digits.
LEMMA ValidAt ==
  ASSUME DecodeTypeOK, Valid, i + 1 \in DOMAIN in, in[i + 1] = "%"
  PROVE  i + 3 \in DOMAIN in /\ in[i + 2] \in Digits /\ in[i + 3] \in Digits
<1>1. i \in Nat
  BY DEF DecodeTypeOK
<1>2. (i + 1) + 2 \in DOMAIN in /\ in[(i + 1) + 1] \in Digits /\ in[(i + 1) + 2] \in Digits
  BY Zenon DEF Valid
<1>3. (i + 1) + 2 = i + 3 /\ (i + 1) + 1 = i + 2
  BY <1>1
<1> QED BY <1>2, <1>3

\* What an accepted escape adds is a byte; for two digits it is the byte that
\* they denote.
LEMMA EscapeByte ==
  ASSUME DecodeTypeOK, AtEscape, EscapeFits, Extracts(Escaped)
  PROVE  /\ ToByte(Extracted(Escaped)) \in Byte
         /\ Valid => ToByte(Extracted(Escaped)) = Denoted(i + 1)
<1> DEFINE s == Escaped
<1>0. i \in Nat /\ in \in Seq(UriChar) /\ Len(in) \in Nat /\ i + 3 <= Len(in)
  BY DEF DecodeTypeOK, EscapeFits
<1>1. Len(s) = 2 /\ s[1] = in[i + 2] /\ s[2] = in[i + 3]
  BY <1>0, EscapedIs DEF EscapeFits
<1>2. Head(s) = s[1]
  BY <1>0, <1>1 DEF Escaped
<1>3. s[1] \in Digits \/ (s[1] \in {"+", "-"} /\ s[2] \in Digits)
  BY <1>1, <1>2 DEF Extracts
<1>4. Extracted(s) \in Int
  BY <1>1, <1>3, CodeTyped DEF Extracted
<1>5. ToByte(Extracted(s)) \in Byte
  BY <1>4 DEF ToByte, Byte
<1>6. ASSUME Valid PROVE ToByte(Extracted(s)) = Denoted(i + 1)
  <2>1. i + 1 \in DOMAIN in /\ in[i + 1] = "%"
    BY <1>0 DEF AtEscape, Inside
  <2>2. s[1] \in Digits /\ s[2] \in Digits
    BY <1>1, <1>6, <2>1, ValidAt
  <2>3. Extracted(s) = 16 * Digit[s[1]] + Digit[s[2]]
    BY <1>1, <2>2, CodeTyped DEF Extracted
  <2>4. Denoted(i + 1) = 16 * Digit[s[1]] + Digit[s[2]]
    BY <1>0, <1>1, <2>1 DEF Denoted
  <2>5. 16 * Digit[s[1]] + Digit[s[2]] \in 0 .. 255
    BY <2>2, CodeTyped
  <2>6. \A n \in 0 .. 255 : n % 256 = n
    OBVIOUS
  <2> QED BY <2>3, <2>4, <2>5, <2>6 DEF ToByte
<1> QED BY <1>5, <1>6

\* A decoded byte is a byte, and the index stays within the URI.
LEMMA DecodeTyped == ASSUME DecodeTypeOK, url_decode PROVE DecodeTypeOK'
<1>0. i \in Nat /\ in \in Seq(UriChar) /\ Len(in) \in Nat /\ out \in Seq(Byte)
  BY DEF DecodeTypeOK, Byte
<1>1. CASE Escape
  <2>1. ToByte(Extracted(Escaped)) \in Byte
    BY <1>1, EscapeByte DEF Escape
  <2>2. i' \in 0 .. Len(in)
    BY <1>0, <1>1 DEF Escape, EscapeFits
  <2> QED BY <1>0, <1>1, <2>1, <2>2 DEF Escape, DecodeTypeOK, Byte
<1>2. CASE BadEscape \/ Return
  BY <1>2 DEF BadEscape, Return, DecodeTypeOK
<1>3. CASE Plain
  <2>1. in[i + 1] \in UriChar /\ i' \in 0 .. Len(in)
    BY <1>0, <1>3 DEF Plain, Inside
  <2>2. Code[in[i + 1]] \in Byte /\ Space \in Byte
    BY <2>1, CodeTyped, SMTT(30) DEF Space, Byte
  <2> QED BY <1>0, <1>3, <2>1, <2>2 DEF Plain, DecodeTypeOK, Byte
<1> QED BY <1>1, <1>2, <1>3 DEF url_decode

-----------------------------------------------------------------------------
(* The decoding of what is validly encoded.                                 *)

\* How many bytes the first n characters give.
Counted(n) == Cardinality(Leading \cap 1 .. n)

DecodedSoFar ==
  Valid =>
    /\ verdict # "false"
    /\ verdict = "true" => i = Len(in)
    /\ Len(out) = Counted(i)
    /\ \A k \in Leading \cap 1 .. i : out[Counted(k)] = Denoted(k)
    /\ i < Len(in) => i + 1 \in Leading

\* Counting is what it should be.
LEMMA CountedProperties ==
  ASSUME NEW n \in Nat
  PROVE  /\ IsFiniteSet(Leading \cap 1 .. n)
         /\ Counted(n) \in Nat
         /\ \A k \in Leading \cap 1 .. n : Counted(k) \in 1 .. Counted(n)
<1>1. ASSUME NEW k \in Int PROVE IsFiniteSet(Leading \cap 1 .. k)
  <2>1. 1 \in Int /\ k \in Int
    OBVIOUS
  <2>2. IsFiniteSet(1 .. k)
    BY <2>1, FS_Interval
  <2>3. Leading \cap 1 .. k \subseteq 1 .. k
    OBVIOUS
  <2> QED BY <2>2, <2>3, FS_Subset
<1>2. ASSUME NEW k \in Leading \cap 1 .. n PROVE Counted(k) \in 1 .. Counted(n)
  <2>1. k \in Int /\ Leading \cap 1 .. k \subseteq Leading \cap 1 .. n
    OBVIOUS
  <2>2. Counted(k) <= Counted(n)
    BY <1>1, <2>1, FS_Subset DEF Counted
  <2>3. Leading \cap 1 .. k # {}
    BY <2>1
  <2>4. Counted(k) \in Nat /\ Counted(k) # 0
    BY <1>1, <2>1, <2>3, FS_CardinalityType, FS_EmptySet DEF Counted
  <2>5. Counted(n) \in Nat
    BY <1>1, FS_CardinalityType DEF Counted
  <2> QED BY <2>2, <2>4, <2>5
<1>3. n \in Int
  OBVIOUS
<1> QED BY <1>1, <1>2, <1>3, FS_CardinalityType DEF Counted

\* One byte for the next position, and on to the next leading one.
LEMMA ByteAdded ==
  ASSUME DecodeTypeOK, DecodedSoFar, Valid, Inside, NEW j \in i + 1 .. Len(in),
         Leading \cap (i + 2) .. j = {}, j < Len(in) => j + 1 \in Leading,
         i' = j, out' = Append(out, Denoted(i + 1)), UNCHANGED <<in, verdict>>
  PROVE  DecodedSoFar'
<1>0. i \in Nat /\ Len(in) \in Nat /\ out \in Seq(Byte) /\ i < Len(in) /\ j \in Nat
  BY DEF DecodeTypeOK, Byte, Inside
<1>1. i + 1 \in Leading /\ Len(out) = Counted(i)
  BY <1>0 DEF DecodedSoFar
<1>2. Leading' = Leading /\ (\A k : Denoted(k)' = Denoted(k)) /\ (\A n : Counted(n)' = Counted(n))
  BY DEF Leading, Denoted, Counted, IsAt
<1>3. \A n \in i + 1 .. j : Counted(n) = Counted(i) + 1
  <2> SUFFICES ASSUME NEW n \in i + 1 .. j PROVE Counted(n) = Counted(i) + 1
    OBVIOUS
  <2>1. Leading \cap 1 .. n = (Leading \cap 1 .. i) \cup {i + 1}
    BY <1>0, <1>1
  <2>2. i + 1 \notin Leading \cap 1 .. i
    BY <1>0
  <2> QED BY <1>0, <2>1, <2>2, CountedProperties, FS_AddElement, ZenonT(30) DEF Counted
<1>4. Len(out') = Counted(j) /\ out'[Counted(i + 1)] = Denoted(i + 1)
  BY <1>0, <1>1, <1>3, CountedProperties
<1>5. ASSUME NEW k \in Leading \cap 1 .. j PROVE out'[Counted(k)] = Denoted(k)
  <2>1. CASE k \in 1 .. i
    <3>1. Counted(k) \in 1 .. Len(out) /\ out[Counted(k)] = Denoted(k)
      BY <1>0, <1>1, <1>5, <2>1, CountedProperties DEF DecodedSoFar
    <3> QED BY <1>0, <3>1
  <2>2. CASE k = i + 1
    BY <1>4, <2>2
  <2>3. k \in 1 .. i \/ k = i + 1 \/ k \in (i + 2) .. j
    BY <1>0, <1>5
  <2>4. k \notin (i + 2) .. j
    BY <1>5
  <2> QED BY <2>1, <2>2, <2>3, <2>4
<1> QED
  BY <1>0, <1>2, <1>4, <1>5 DEF DecodedSoFar, Inside

\* Every step of the decoding keeps up with the reference.
LEMMA DecodedStep ==
  ASSUME DecodeTypeOK, DecodedSoFar, url_decode PROVE DecodedSoFar'
<1>0. i \in Nat /\ in \in Seq(UriChar) /\ Len(in) \in Nat /\ i <= Len(in)
  BY DEF DecodeTypeOK
<1>a. UNCHANGED in
  BY DEF url_decode, Escape, BadEscape, Plain, Return
<1>b. SUFFICES ASSUME Valid PROVE DecodedSoFar'
  BY <1>a DEF DecodedSoFar, Valid
<1>1. CASE Escape
  <2>1. i + 3 <= Len(in) /\ in[i + 1] = "%" /\ i + 1 \in DOMAIN in
    BY <1>0, <1>1 DEF Escape, EscapeFits, AtEscape, Inside
  <2>2. in[i + 2] \in Digits /\ in[i + 3] \in Digits
    BY <1>b, <2>1, ValidAt
  <2>3. Leading \cap (i + 2) .. (i + 3) = {}
    BY <1>0, <2>1 DEF Leading, IsAt
  <2>4. i + 3 < Len(in) => i + 4 \in Leading
    BY <1>0, <2>2, CodeTyped DEF Leading, IsAt
  <2>5. out' = Append(out, Denoted(i + 1)) /\ i' = i + 3 /\ UNCHANGED <<in, verdict>>
    BY <1>1, <1>b, EscapeByte DEF Escape
  <2>6. Inside /\ i + 3 \in i + 1 .. Len(in)
    BY <1>0, <1>1, <2>1 DEF Escape, AtEscape
  <2> QED BY <1>0, <1>b, <2>3, <2>4, <2>5, <2>6, ByteAdded
<1>2. CASE BadEscape
  <2>1. i + 1 \in DOMAIN in /\ in[i + 1] = "%"
    BY <1>0, <1>2 DEF BadEscape, AtEscape, Inside
  <2>2. /\ i + 3 \in DOMAIN in
        /\ in[i + 2] \in Digits /\ in[i + 3] \in Digits
    BY <1>b, <2>1, ValidAt
  <2>3. EscapeFits
    BY <1>0, <2>2 DEF EscapeFits
  <2>4. Len(Escaped) = 2 /\ Head(Escaped) = in[i + 2] /\ Escaped[1] = in[i + 2]
        /\ Escaped[2] = in[i + 3]
    BY <2>3, EscapedIs
  <2>5. Escaped # <<"0", "x">>
    BY <2>2, <2>4 DEF Digits, Digit
  <2>6. Extracts(Escaped)
    BY <2>2, <2>4, <2>5 DEF Extracts
  <2> QED BY <1>2, <2>3, <2>6 DEF BadEscape
<1>3. CASE Plain
  <2>1. i + 1 \in DOMAIN in /\ in[i + 1] # "%" /\ Inside /\ in[i + 1] \in UriChar
    BY <1>0, <1>3 DEF Plain, AtEscape, Inside
  <2>2. i + 1 \in Leading
    BY <1>b, <2>1 DEF DecodedSoFar, Inside
  <2>3. i + 1 < Len(in) => i + 2 \in Leading
    BY <1>0, <2>1, <2>2 DEF Leading, IsAt
  <2>4. out' = Append(out, Denoted(i + 1)) /\ i' = i + 1 /\ UNCHANGED <<in, verdict>>
    BY <1>3, <2>1 DEF Plain, Denoted
  <2>5. Leading \cap (i + 2) .. (i + 1) = {}
    BY <1>0
  <2>6. i + 1 \in i + 1 .. Len(in)
    BY <1>0, <2>1 DEF Inside
  <2> QED BY <1>0, <1>b, <2>1, <2>3, <2>4, <2>5, <2>6, ByteAdded
<1>4. CASE Return
  <2>1. UNCHANGED <<in, i, out>> /\ verdict' = "true" /\ i = Len(in)
    BY <1>0, <1>4 DEF Return
  <2>2. Leading' = Leading /\ (\A k : Denoted(k)' = Denoted(k)) /\ (\A n : Counted(n)' = Counted(n))
    BY <2>1 DEF Leading, Denoted, Counted, IsAt
  <2> QED BY <1>b, <2>1, <2>2 DEF DecodedSoFar
<1> QED BY <1>1, <1>2, <1>3, <1>4 DEF url_decode

DecodeIInv == DecodeTypeOK /\ DecodedSoFar

\* Nothing has been decoded yet.
LEMMA DecodeInitial == ASSUME DecodeInit PROVE DecodeIInv
<1>1. DecodeTypeOK
  <2>1. in \in Seq(UriChar)
    BY UrlDecodeAssumption DEF DecodeInit
  <2> QED BY <2>1 DEF DecodeInit, DecodeTypeOK
<1>2. Len(in) \in Nat /\ i = 0 /\ out = <<>> /\ verdict = "none"
  BY <1>1 DEF DecodeInit, DecodeTypeOK
<1>3. Leading \cap 1 .. 0 = {} /\ Counted(0) = 0
  BY FS_EmptySet DEF Counted
<1>4. i < Len(in) => i + 1 \in Leading
  BY <1>1, <1>2 DEF Leading, IsAt, DecodeTypeOK
<1> QED BY <1>1, <1>2, <1>3, <1>4 DEF DecodeIInv, DecodedSoFar

\* The decoding keeps its invariant.
LEMMA DecodeInductive ==
  ASSUME DecodeIInv, url_decode \/ UNCHANGED decode_vars PROVE DecodeIInv'
<1>1. CASE url_decode
  BY <1>1, DecodeTyped, DecodedStep DEF DecodeIInv
<1>2. CASE UNCHANGED decode_vars
  <2>1. UNCHANGED <<in, i, out, verdict>>
    BY <1>2 DEF decode_vars
  <2>2. /\ Leading' = Leading /\ (\A k : Denoted(k)' = Denoted(k))
        /\ (\A n : Counted(n)' = Counted(n))
    BY <2>1 DEF Leading, Denoted, Counted, IsAt
  <2> QED BY <2>1, <2>2 DEF DecodeIInv, DecodeTypeOK, DecodedSoFar, Valid
<1> QED BY <1>1, <1>2

\* At the end every leading position is one of those so far.
LEMMA DecodedAtEnd == ASSUME DecodeIInv PROVE DecodesValid
<1> SUFFICES ASSUME verdict # "none", Valid
    PROVE  /\ verdict = "true"
           /\ Len(out) = Cardinality(Leading)
           /\ \A k \in Leading : out[Cardinality(Leading \cap 1 .. k)] = Denoted(k)
  BY DEF DecodesValid
<1>1. verdict = "true" /\ i = Len(in)
  BY DEF DecodeIInv, DecodeTypeOK, DecodedSoFar
<1>2. Leading \cap 1 .. i = Leading
  BY <1>1 DEF DecodeIInv, DecodeTypeOK, Leading
<1>3. Len(out) = Counted(i) /\ \A k \in Leading \cap 1 .. i : out[Counted(k)] = Denoted(k)
  BY DEF DecodeIInv, DecodedSoFar
<1> QED BY <1>1, <1>2, <1>3 DEF Counted

\* A URI in which every "%" is followed by two digits is accepted and decoded
\* byte for byte (request_handler.cpp:306-343), however long it is.
THEOREM ValidIsDecoded == Spec => []DecodesValid
<1>1. Init => DecodeIInv
  BY DecodeInitial DEF Init
<1>2. DecodeIInv /\ [Next]_vars => DecodeIInv'
  <2> SUFFICES ASSUME DecodeIInv, [Next]_vars PROVE DecodeIInv'
    OBVIOUS
  <2>1. url_decode \/ UNCHANGED decode_vars
    BY DEF Next, vars, Decode, Split, FirstPair, NextPair, Pair, StopParsing, Insert,
           Constructed, Done
  <2> QED BY <2>1, DecodeInductive
<1>3. DecodeIInv => DecodesValid
  BY DecodedAtEnd
<1> QED BY <1>1, <1>2, <1>3, PTL DEF Spec

-----------------------------------------------------------------------------
(* The grammar and the map.                                                 *)

\* A run ends within the query or at its end, and what it runs over is of S.
LEMMA RunEnds ==
  ASSUME query \in Seq(Byte), NEW S, NEW k \in 1 .. Len(query) + 1
  PROVE  /\ EndOf(k, S) \in k .. Len(query) + 1
         /\ \A p \in k .. EndOf(k, S) - 1 : query[p] \in S
<1> DEFINE T == {e \in k .. Len(query) + 1 : ~Has(e, S)}
<1>0. Len(query) \in Nat /\ DOMAIN query = 1 .. Len(query)
  OBVIOUS
<1>1. Len(query) + 1 \in T /\ T \subseteq Nat
  BY <1>0 DEF Has
<1>2. EndOf(k, S) = Min(T)
  BY DEF EndOf
<1> HIDE DEF T
<1>3. EndOf(k, S) \in T /\ \A y \in T : EndOf(k, S) <= y
  BY <1>1, <1>2, MinIsLeast
<1> USE DEF T
<1>4. EndOf(k, S) \in k .. Len(query) + 1
  BY <1>3
<1>5. ASSUME NEW p \in k .. EndOf(k, S) - 1 PROVE query[p] \in S
  <2>1. p \in k .. Len(query) + 1 /\ ~(EndOf(k, S) <= p)
    BY <1>0, <1>4
  <2>2. Has(p, S)
    BY <1>3, <2>1
  <2> QED BY <2>2 DEF Has
<1> QED BY <1>4, <1>5

\* A part of a sequence is a sequence of what the part consists of.
LEMMA PartTyped ==
  ASSUME NEW s \in Seq(Byte), NEW S, NEW a \in Nat \ {0}, NEW b \in Nat, b <= Len(s),
         \A p \in a .. b : s[p] \in S
  PROVE  SubSeq(s, a, b) \in Seq(S)
<1>1. CASE a <= b
  <2>1. SubSeq(s, a, b) \in Seq(Byte) /\ Len(SubSeq(s, a, b)) = b - a + 1
    BY <1>1
  <2>2. ASSUME NEW n \in 1 .. b - a + 1 PROVE SubSeq(s, a, b)[n] \in S
    <3>1. SubSeq(s, a, b)[n] = s[a + n - 1]
      BY <1>1
    <3>2. a + n - 1 \in a .. b
      OBVIOUS
    <3> QED BY <3>1, <3>2
  <2> QED BY <2>1, <2>2
<1>2. CASE b < a
  BY <1>2
<1> QED BY <1>1, <1>2

\* A pair lies within the query, its key and its value consist of what the
\* rules allow.
LEMMA PairTyped ==
  ASSUME query \in Seq(Byte), NEW k \in 1 .. Len(query)
  PROVE  /\ ValueEnd(k) \in 1 .. Len(query) + 1
         /\ pair(k) \in [key : Seq(KeyByte), assigned : BOOLEAN, value : Seq(ValueByte)]
<1>0. Len(query) \in Nat /\ DOMAIN query = 1 .. Len(query)
  OBVIOUS
<1>1. /\ KeyEnd(k) \in k .. Len(query) + 1
      /\ \A p \in k .. KeyEnd(k) - 1 : query[p] \in KeyByte
  BY <1>0, RunEnds DEF KeyEnd
<1>2. SubSeq(query, k, KeyEnd(k) - 1) \in Seq(KeyByte)
  BY <1>0, <1>1, PartTyped
<1>3. /\ ValueEnd(k) \in 1 .. Len(query) + 1 /\ KeyEnd(k) <= ValueEnd(k)
      /\ \A p \in KeyEnd(k) + 1 .. ValueEnd(k) - 1 : query[p] \in ValueByte
  <2>1. CASE Has(KeyEnd(k), {Equals})
    <3>1. KeyEnd(k) + 1 \in 1 .. Len(query) + 1
      BY <1>0, <1>1, <2>1 DEF Has
    <3>2. ValueEnd(k) = EndOf(KeyEnd(k) + 1, ValueByte)
      BY <2>1 DEF ValueEnd
    <3> QED BY <1>0, <1>1, <3>1, <3>2, RunEnds
  <2>2. CASE ~Has(KeyEnd(k), {Equals})
    BY <1>0, <1>1, <2>2 DEF ValueEnd
  <2> QED BY <2>1, <2>2
<1>4. SubSeq(query, KeyEnd(k) + 1, ValueEnd(k) - 1) \in Seq(ValueByte)
  BY <1>0, <1>1, <1>3, PartTyped
<1>5. Has(KeyEnd(k), {Equals}) \in BOOLEAN
  BY DEF Has
<1> QED BY <1>2, <1>3, <1>4, <1>5 DEF pair

\* An element of a sequence is of the kind the sequence consists of.
LEMMA ElementTyped == ASSUME NEW S, NEW s \in Seq(S), NEW n \in 1 .. Len(s) PROVE s[n] \in S
OBVIOUS

\* What to_lower makes of a key has no upper-case letter.
LEMMA LowerCase == ASSUME NEW s \in Seq(KeyByte) PROVE to_lower_copy(s) \in Seq(KeyByte \ Upper)
<1>1. ASSUME NEW b \in KeyByte
      PROVE  (IF b \in Upper THEN b + 32 ELSE b) \in KeyByte \ Upper
  BY DEF KeyByte, KeyStart, Upper
<1>2. \A n \in 1 .. Len(s) : s[n] \in KeyByte
  OBVIOUS
<1> QED BY <1>1, <1>2 DEF to_lower_copy

-----------------------------------------------------------------------------
(* Type correctness.                                                        *)

\* The initial state is well-typed.
LEMMA InitTyped == ASSUME Init PROVE TypeOK
<1>1. DecodeTypeOK
  BY DecodeInitial DEF Init, DecodeIInv
<1> QED BY <1>1 DEF Init, TypeOK

\* One step per action.
LEMMA NextTyped == ASSUME TypeOK, [Next]_vars PROVE TypeOK'
<1>0. /\ query \in Seq(Byte) /\ Len(query) \in Nat /\ begin \in 1 .. Len(query) + 1
      /\ it \in 0 .. Len(m) /\ Len(m) \in Nat
      /\ m \in Seq([key : Seq(KeyByte), assigned : BOOLEAN, value : Seq(ValueByte)])
  BY DEF TypeOK, Byte
<1>1. CASE Decode
  <2>1. DecodeTypeOK'
    BY <1>1, DecodeTyped DEF Decode, TypeOK
  <2>2. stage' \in {"decode", "split", "done"}
    BY <1>1, <2>1 DEF Decode, DecodeTypeOK
  <2> QED BY <1>1, <2>1, <2>2 DEF Decode, query_vars, TypeOK
<1>2. CASE Split
  <2> DEFINE marks == {k \in DOMAIN out : out[k] = Question}
  <2>1. out \in Seq(Byte) /\ Len(out) \in Nat
    BY DEF TypeOK, DecodeTypeOK, Byte
  <2>2. query' \in Seq(Byte)
    <3>1. CASE marks = {}
      BY <1>2, <3>1 DEF Split
    <3>2. CASE marks # {}
      <4>1. marks \subseteq Nat /\ marks \subseteq 1 .. Len(out)
        BY <2>1
      <4>2. Min(marks) \in marks
        BY <3>2, <4>1, MinIsLeast
      <4>3. Min(marks) + 1 \in Nat \ {0}
        BY <4>1, <4>2
      <4>4. query' = SubSeq(out, Min(marks) + 1, Len(out))
        BY <1>2, <3>2 DEF Split
      <4>5. \A p \in Min(marks) + 1 .. Len(out) : out[p] \in Byte
        BY <2>1, <4>3
      <4> QED BY <2>1, <4>3, <4>4, <4>5, PartTyped
    <3> QED BY <3>1, <3>2
  <2>3. stage' \in {"done", "parse"} /\ UNCHANGED <<decode_vars, m, it, params_>>
    BY <1>2 DEF Split
  <2>4. 1 \in 1 .. Len(query') + 1
    BY <2>2
  <2>5. begin' = 1 /\ m \in Seq([key : Seq(KeyByte), assigned : BOOLEAN, value : Seq(ValueByte)])
    BY <1>0, <1>2 DEF Split
  <2> QED
    BY <2>2, <2>3, <2>4, <2>5 DEF TypeOK, DecodeTypeOK, decode_vars, Byte
<1>3. ASSUME NEW k \in {begin, begin + 1}, Pair(k) PROVE TypeOK'
  <2>1. k \in 1 .. Len(query)
    BY <1>0, <1>3 DEF Pair, Has
  <2>2. begin' \in 1 .. Len(query) + 1
    BY <1>0, <1>3, <2>1, PairTyped DEF Pair
  <2>3. /\ m' \in Seq([key : Seq(KeyByte), assigned : BOOLEAN, value : Seq(ValueByte)])
        /\ Len(m') = Len(m) + 1
    BY <1>0, <1>3, <2>1, PairTyped DEF Pair
  <2>4. UNCHANGED <<decode_vars, stage, query, it, params_>>
    BY <1>3 DEF Pair
  <2> QED BY <1>0, <2>2, <2>3, <2>4, SMTT(30) DEF TypeOK, DecodeTypeOK, decode_vars
<1>4. CASE FirstPair \/ NextPair
  BY <1>3, <1>4 DEF FirstPair, NextPair
<1>5. CASE StopParsing
  BY <1>5 DEF StopParsing, TypeOK, DecodeTypeOK, decode_vars, query_vars
<1>6. CASE Insert
  <2> DEFINE key == to_lower_copy(m[it + 1].key)
  <2>1. it + 1 \in 1 .. Len(m) /\ it' \in 0 .. Len(m)
    BY <1>0, <1>6 DEF Insert
  <2>2. m[it + 1].key \in Seq(KeyByte)
    <3>1. m[it + 1] \in [key : Seq(KeyByte), assigned : BOOLEAN, value : Seq(ValueByte)]
      BY <1>0, <2>1, ElementTyped
    <3> QED BY <3>1
  <2>3. key \in Seq(KeyByte \ Upper)
    BY <2>2, LowerCase
  <2>4. DOMAIN params_' \subseteq DOMAIN params_ \cup {key}
    BY <1>6 DEF Insert, insert
  <2>5. UNCHANGED <<decode_vars, stage, query, begin, m>>
    BY <1>6 DEF Insert
  <2> QED BY <1>0, <2>1, <2>3, <2>4, <2>5 DEF TypeOK, DecodeTypeOK, decode_vars
<1>7. CASE Constructed
  BY <1>7 DEF Constructed, TypeOK, DecodeTypeOK, decode_vars, query_vars
<1>8. CASE Done \/ UNCHANGED vars
  BY <1>8 DEF Done, vars, TypeOK, DecodeTypeOK, decode_vars, query_vars
<1> QED BY <1>1, <1>2, <1>4, <1>5, <1>6, <1>7, <1>8 DEF Next

\* The indices and iterators of the decoding, of the grammar and of the loop
\* over the pairs (request_handler.cpp:306-343, uri_grammer.hpp:42-45,
\* uri_parser.cpp:50-62) stay within what they read, whatever the URI.
THEOREM TypeCorrect == Spec => []TypeOK
<1>1. Init => TypeOK
  BY InitTyped
<1>2. TypeOK /\ [Next]_vars => TypeOK'
  BY NextTyped
<1> QED BY <1>1, <1>2, PTL DEF Spec

-----------------------------------------------------------------------------
(* One part of a query.                                                     *)

\* Where a run ends there is nothing of S.
LEMMA RunStops ==
  ASSUME query \in Seq(Byte), NEW S, NEW k \in 1 .. Len(query) + 1
  PROVE  ~Has(EndOf(k, S), S)
<1> DEFINE T == {e \in k .. Len(query) + 1 : ~Has(e, S)}
<1>0. Len(query) \in Nat /\ DOMAIN query = 1 .. Len(query)
  OBVIOUS
<1>1. Len(query) + 1 \in T /\ T \subseteq Nat
  BY <1>0 DEF Has
<1>2. EndOf(k, S) = Min(T)
  BY DEF EndOf
<1> HIDE DEF T
<1>3. EndOf(k, S) \in T
  BY <1>1, <1>2, MinIsLeast
<1> QED BY <1>3 DEF T

\* No delimiter is of a key or of a value.
LEMMA Delimiters ==
  /\ Ampersand \notin KeyByte /\ Ampersand \notin ValueByte /\ Ampersand # Equals
  /\ Equals \notin KeyByte /\ KeyStart \subseteq KeyByte
BY CodeTyped DEF Ampersand, Equals, KeyByte, KeyStart, Upper, ValueByte, Code

\* What the grammar reads of a part, by the position after its key and the one
\* after its value.
PairAt(a, n, v) ==
  /\ n \in a + 1 .. Len(query) + 1 /\ v \in n .. Len(query) + 1
  /\ query[a] \in KeyStart /\ \A p \in a .. n - 1 : query[p] \in KeyByte
  /\ n <= Len(query) => query[n] \notin KeyByte
  /\ IF n <= Len(query) /\ query[n] = Equals
     THEN /\ n < v /\ \A p \in n + 1 .. v - 1 : query[p] \in ValueByte
          /\ v <= Len(query) => query[v] \notin ValueByte
     ELSE v = n

\* The two runs of a pair end where the grammar goes on.
LEMMA PairIsAt ==
  ASSUME query \in Seq(Byte), NEW a \in 1 .. Len(query), Has(a, KeyStart)
  PROVE  PairAt(a, KeyEnd(a), ValueEnd(a))
<1>0. Len(query) \in Nat /\ DOMAIN query = 1 .. Len(query) /\ a \in Nat
  OBVIOUS
<1> DEFINE n == KeyEnd(a)
           v == ValueEnd(a)
<1>1. n \in a .. Len(query) + 1 /\ (\A p \in a .. n - 1 : query[p] \in KeyByte) /\ ~Has(n, KeyByte)
  BY <1>0, RunEnds, RunStops DEF KeyEnd
<1>2. query[a] \in KeyStart /\ query[a] \in KeyByte
  BY Delimiters DEF Has
<1>3. n # a
  BY <1>0, <1>1, <1>2 DEF Has
<1> HIDE DEF n
<1>4. n \in a + 1 .. Len(query) + 1
  BY <1>0, <1>1, <1>3
<1>5. n <= Len(query) => query[n] \notin KeyByte
  BY <1>0, <1>1, <1>4 DEF Has
<1>6. CASE n <= Len(query) /\ query[n] = Equals
  <2>1. n + 1 \in 1 .. Len(query) + 1 /\ Has(n, {Equals})
    BY <1>0, <1>4, <1>6 DEF Has
  <2>2. v = EndOf(n + 1, ValueByte)
    BY <2>1 DEF ValueEnd, n
  <2>3. /\ v \in n + 1 .. Len(query) + 1
        /\ \A p \in n + 1 .. v - 1 : query[p] \in ValueByte
        /\ ~Has(v, ValueByte)
    BY <2>1, <2>2, RunEnds, RunStops
  <2> HIDE DEF v
  <2>4. v \in n .. Len(query) + 1 /\ n < v /\ (v <= Len(query) => query[v] \notin ValueByte)
    BY <1>0, <1>4, <2>3 DEF Has
  <2> QED BY <1>1, <1>2, <1>4, <1>5, <1>6, <2>3, <2>4 DEF PairAt, n, v
<1>7. CASE ~(n <= Len(query) /\ query[n] = Equals)
  <2>1. v = n
    BY <1>0, <1>7 DEF ValueEnd, Has, n
  <2>2. v \in n .. Len(query) + 1
    BY <1>0, <1>4, <2>1
  <2> QED BY <1>1, <1>2, <1>4, <1>5, <1>7, <2>1, <2>2 DEF PairAt, n, v
<1> QED BY <1>6, <1>7

\* Nothing longer than what the grammar reads is a pair, and that is one with
\* that key only.
LEMMA PairIsLongest ==
  ASSUME query \in Seq(Byte), NEW a \in 1 .. Len(query), NEW n, NEW v, PairAt(a, n, v)
  PROVE  /\ Conforms(a, n - 1, v - 1)
         /\ \A e \in a .. Len(query) : \A k \in a .. e : Conforms(a, k, e) => e <= v - 1
         /\ \A k \in a .. v - 1 : Conforms(a, k, v - 1) => k = n - 1
<1>0. Len(query) \in Nat /\ a \in Nat /\ n \in Nat /\ v \in Nat /\ a < n /\ n <= v /\ v <= Len(query) + 1
  BY DEF PairAt
<1>1. Conforms(a, n - 1, v - 1)
  <2>1. n - 1 \in a .. v - 1 /\ (n - 1) + 1 = n /\ (n - 1) + 2 = n + 1
    BY <1>0
  <2>2. n - 1 < v - 1 => query[n] = Equals
    BY <1>0 DEF PairAt
  <2>3. \A p \in n + 1 .. v - 1 : query[p] \in ValueByte
    <3>1. v = n => n + 1 .. v - 1 = {}
      BY <1>0
    <3> QED BY <3>1 DEF PairAt
  <2>4. query[a] \in KeyStart /\ \A p \in a .. n - 1 : query[p] \in KeyByte
    BY DEF PairAt
  <2> QED BY <2>1, <2>2, <2>3, <2>4 DEF Conforms
<1>2. ASSUME NEW e \in a .. Len(query), NEW k \in a .. e, Conforms(a, k, e)
      PROVE  k <= n - 1 /\ (k < e => k = n - 1 /\ query[n] = Equals)
  <2>1. /\ \A p \in a .. k : query[p] \in KeyByte
        /\ k < e => query[k + 1] = Equals
    BY <1>2 DEF Conforms
  <2>2. k <= n - 1
    <3> SUFFICES ASSUME n <= k PROVE FALSE
      BY <1>0
    <3>1. n \in a .. k /\ n <= Len(query)
      BY <1>0
    <3> QED BY <2>1, <3>1 DEF PairAt
  <2>3. ASSUME k < e PROVE k = n - 1 /\ query[n] = Equals
    <3>1. query[k + 1] = Equals
      BY <2>1, <2>3
    <3>2. k + 1 \notin a .. n - 1
      BY <3>1, Delimiters DEF PairAt
    <3>3. k + 1 = n
      BY <1>0, <2>2, <3>2
    <3>4. k = n - 1
      BY <1>0, <3>3
    <3> QED BY <3>1, <3>3, <3>4
  <2> QED BY <2>2, <2>3
<1>3. ASSUME NEW e \in a .. Len(query), NEW k \in a .. e, Conforms(a, k, e) PROVE e <= v - 1
  <2>1. CASE ~(k < e)
    BY <1>0, <1>2, <1>3, <2>1
  <2>2. CASE k < e
    <3>1. k = n - 1 /\ query[n] = Equals /\ n <= Len(query)
      BY <1>0, <1>2, <1>3, <2>2
    <3>2. \A p \in n + 1 .. e : query[p] \in ValueByte
      <4>1. k + 2 = n + 1
        BY <1>0, <3>1
      <4> QED BY <1>3, <4>1 DEF Conforms
    <3>3. n < v /\ (v <= Len(query) => query[v] \notin ValueByte)
      BY <3>1 DEF PairAt
    <3> SUFFICES ASSUME v <= e PROVE FALSE
      BY <1>0
    <3>4. v \in n + 1 .. e /\ v <= Len(query)
      BY <1>0, <3>3
    <3> QED BY <3>2, <3>3, <3>4
  <2> QED BY <2>1, <2>2
<1>4. ASSUME NEW k \in a .. v - 1, Conforms(a, k, v - 1) PROVE k = n - 1
  <2>1. v - 1 \in a .. Len(query)
    BY <1>0
  <2>2. k <= n - 1 /\ (k < v - 1 => k = n - 1)
    BY <1>2, <1>4, <2>1
  <2> QED BY <1>0, <2>2
<1> QED BY <1>1, <1>3, <1>4

\* There is no ampersand in a part, and one after it if anything is.
LEMMA PartEnds ==
  ASSUME query \in Seq(Byte), NEW a \in 1 .. Len(query) + 1
  PROVE  /\ PartEnd(a) \in a - 1 .. Len(query)
         /\ \A p \in a .. PartEnd(a) : query[p] # Ampersand
         /\ \A e \in a - 1 .. Len(query) :
              (\A p \in a .. e : query[p] # Ampersand) => e <= PartEnd(a)
<1> DEFINE U == {e \in a - 1 .. Len(query) : \A p \in a .. e : query[p] # Ampersand}
           N == Len(query)
           T == {x \in 0 .. N : N - x \in U}
<1>0. N \in Nat /\ a \in Nat
  OBVIOUS
<1>1. a - 1 \in U
  BY <1>0
<1>2. T \subseteq Nat /\ T # {} /\ U \subseteq Int /\ U \subseteq 0 .. N
  <2>1. N - (a - 1) \in T
    BY <1>0, <1>1
  <2>2. U \subseteq Int /\ U \subseteq 0 .. N
    BY <1>0
  <2> HIDE DEF U
  <2>3. T \subseteq Nat
    OBVIOUS
  <2> QED BY <2>1, <2>2, <2>3
<1>3. Min(T) \in T /\ \A y \in T : Min(T) <= y
  BY <1>2, MinIsLeast
<1>4. N - Min(T) \in U /\ \A e \in U : e <= N - Min(T)
  <2>1. N - Min(T) \in U /\ Min(T) \in 0 .. N
    BY <1>3
  <2>2. ASSUME NEW e \in U PROVE e <= N - Min(T)
    <3>1. e \in 0 .. N /\ N - (N - e) = e
      BY <1>0, <1>2
    <3>2. N - e \in T
      BY <1>0, <3>1
    <3>3. Min(T) <= N - e
      BY <1>3, <3>2
    <3> HIDE DEF T, U
    <3> QED BY <1>0, <2>1, <3>1, <3>3
  <2> QED BY <2>1, <2>2
<1>5. Max(U) = N - Min(T)
  <2> HIDE DEF U, T
  <2> QED BY <1>2, <1>4, MaxIs
<1>6. PartEnd(a) = N - Min(T)
  BY <1>5 DEF PartEnd
<1> QED BY <1>4, <1>6

\* Of a part that begins like a pair the reference reads what the grammar reads.
LEMMA PartRead ==
  ASSUME query \in Seq(Byte), NEW a \in 1 .. Len(query), NEW n, NEW v, PairAt(a, n, v)
  PROVE  /\ Ends(a) # {} /\ ReadTo(a) = v - 1 /\ KeyTo(a) = n - 1
         /\ \A p \in a .. v - 1 : query[p] # Ampersand
         /\ v - 1 <= PartEnd(a)
         /\ IsPair(a, PartEnd(a)) => PartEnd(a) = v - 1
<1>0. Len(query) \in Nat /\ a \in Nat /\ n \in Nat /\ v \in Nat /\ a < n /\ n <= v /\ v <= Len(query) + 1
  BY DEF PairAt
<1>1. /\ Conforms(a, n - 1, v - 1)
      /\ \A e \in a .. Len(query) : \A k \in a .. e : Conforms(a, k, e) => e <= v - 1
      /\ \A k \in a .. v - 1 : Conforms(a, k, v - 1) => k = n - 1
  BY PairIsLongest
<1>2. \A p \in a .. v - 1 : query[p] # Ampersand
  <2> SUFFICES ASSUME NEW p \in a .. v - 1 PROVE query[p] # Ampersand
    OBVIOUS
  <2>1. CASE p \in a .. n - 1
    BY <2>1, Delimiters DEF PairAt
  <2>2. CASE p = n
    <3>1. n < v /\ n <= Len(query)
      BY <1>0, <2>2
    <3> QED BY <1>0, <2>2, <3>1, Delimiters DEF PairAt
  <2>3. CASE p \in n + 1 .. v - 1
    <3>1. n # v
      BY <1>0, <2>3
    <3> QED BY <2>3, <3>1, Delimiters DEF PairAt
  <2> QED BY <1>0, <2>1, <2>2, <2>3
<1>3. /\ PartEnd(a) \in a - 1 .. Len(query) /\ v - 1 <= PartEnd(a)
  <2>1. a \in 1 .. Len(query) + 1 /\ v - 1 \in a - 1 .. Len(query)
    BY <1>0
  <2> QED BY <1>2, <2>1, PartEnds
<1>4. v - 1 \in Ends(a) /\ \A e \in Ends(a) : e <= v - 1
  <2>1. v - 1 \in a .. PartEnd(a) /\ n - 1 \in a .. v - 1
    BY <1>0, <1>3
  <2>2. IsPair(a, v - 1)
    BY <1>1, <2>1 DEF IsPair
  <2>3. ASSUME NEW e \in Ends(a) PROVE e <= v - 1
    <3>1. e \in a .. Len(query) /\ IsPair(a, e)
      BY <1>0, <1>3 DEF Ends
    <3> QED BY <1>1, <3>1 DEF IsPair
  <2> QED BY <2>1, <2>2, <2>3 DEF Ends
<1>5. ReadTo(a) = v - 1
  <2>1. Ends(a) \subseteq Int
    BY <1>0, <1>3 DEF Ends
  <2> QED BY <1>4, <2>1, MaxIs DEF ReadTo
<1>6. KeyTo(a) = n - 1
  <2>1. n - 1 \in a .. v - 1
    BY <1>0
  <2>2. KeyTo(a) \in a .. v - 1 /\ Conforms(a, KeyTo(a), v - 1)
    BY <1>1, <1>5, <2>1 DEF KeyTo
  <2> QED BY <1>1, <2>2
<1>7. ASSUME IsPair(a, PartEnd(a)) PROVE PartEnd(a) = v - 1
  <2>1. PartEnd(a) \in a .. Len(query)
    BY <1>0, <1>3
  <2>2. PartEnd(a) <= v - 1
    BY <1>1, <1>7, <2>1 DEF IsPair
  <2> QED BY <1>0, <1>3, <2>2
<1> QED BY <1>2, <1>3, <1>4, <1>5, <1>6, <1>7

\* Of a part that begins otherwise nothing is read.
LEMMA NothingRead ==
  ASSUME query \in Seq(Byte), NEW a \in 1 .. Len(query) + 1, ~Has(a, KeyStart)
  PROVE  Ends(a) = {} /\ ~IsPair(a, PartEnd(a))
<1>0. Len(query) \in Nat /\ DOMAIN query = 1 .. Len(query) /\ PartEnd(a) \in a - 1 .. Len(query)
  BY PartEnds
<1>1. ASSUME NEW e \in a - 1 .. Len(query) PROVE ~IsPair(a, e)
  <2> SUFFICES ASSUME NEW k \in a .. e, Conforms(a, k, e) PROVE FALSE
    BY DEF IsPair
  <2>1. a \in DOMAIN query
    BY <1>0
  <2> QED BY <2>1 DEF Conforms, Has
<1>2. ASSUME NEW e \in Ends(a) PROVE FALSE
  <2>1. e \in a - 1 .. Len(query)
    BY <1>0 DEF Ends
  <2> QED BY <1>1, <2>1 DEF Ends
<1> QED BY <1>0, <1>1, <1>2

-----------------------------------------------------------------------------
(* The invariant of the parser and of the loop over the pairs.              *)

\* The pairs so far are those of the first parts, st gives where these begin, and
\* all but the last one conform.
Starts(st) ==
  /\ \A j \in 1 .. Len(m) : st[j] \in Begins /\ Has(st[j], KeyStart) /\ m[j] = pair(st[j])
  /\ \A i_, j \in 1 .. Len(m) : i_ < j => st[i_] < st[j]
  /\ \A j \in 1 .. Len(m) : j < Len(m) => IsPair(st[j], PartEnd(st[j]))
  /\ \A a \in Begins : Len(m) > 0 /\ a <= st[Len(m)] => \E j \in 1 .. Len(m) : a = st[j]
  /\ begin = IF Len(m) = 0 THEN 1 ELSE ValueEnd(st[Len(m)])

ParsedSoFar == \E st \in [1 .. Len(m) -> 1 .. Len(query)] : Starts(st)

\* No further pair follows those parsed.
Stopped ==
  IF m = <<>> THEN ~Has(begin, KeyStart)
  ELSE ~(Has(begin, {Ampersand}) /\ Has(begin + 1, KeyStart))

Given(n) == {j \in 1 .. n : m[j].assigned}
KeyOf(j) == to_lower_copy(m[j].key)
ValueOf(j) == to_lower_copy(m[j].value)

\* The map has the keys of the pairs so far, each with its first value.
InsertedSoFar ==
  /\ params_ = [key \in {KeyOf(j) : j \in Given(it)} |-> params_[key]]
  /\ \A j \in Given(it) :
       (\A k \in Given(it) : k < j => KeyOf(k) # KeyOf(j)) => params_[KeyOf(j)] = ValueOf(j)

Stages ==
  /\ stage \in {"decode", "split"} => m = <<>>
  /\ stage \in {"decode", "split", "parse"} => it = 0
  /\ stage = "insert" \/ (stage = "done" /\ verdict = "true") => Stopped
  /\ stage = "done" /\ verdict = "true" => it = Len(m)

QInv == TypeOK /\ ParsedSoFar /\ InsertedSoFar /\ Stages

\* Nothing has been parsed or inserted yet.
LEMMA InitQInv == ASSUME Init PROVE QInv
<1>1. TypeOK
  BY InitTyped
<1>2. m = <<>> /\ Len(m) = 0 /\ 1 .. Len(m) = {} /\ begin = 1 /\ it = 0 /\ params_ = <<>>
  BY DEF Init
<1>3. ParsedSoFar
  <2> DEFINE st == [j \in 1 .. Len(m) |-> 1]
  <2>1. st \in [1 .. Len(m) -> 1 .. Len(query)]
    BY <1>2
  <2>2. Starts(st)
    BY <1>2 DEF Starts
  <2> QED BY <2>1, <2>2 DEF ParsedSoFar
<1>4. InsertedSoFar
  <2>1. Given(it) = {}
    BY <1>2 DEF Given
  <2> QED BY <1>2, <2>1 DEF InsertedSoFar
<1>5. Stages
  BY <1>2 DEF Init, Stages
<1> QED BY <1>1, <1>3, <1>4, <1>5 DEF QInv

\* What is said of a query stays true while the query stays.
LEMMA SameQuery ==
  ASSUME query' = query
  PROVE  /\ Begins' = Begins
         /\ \A k, S : Has(k, S)' <=> Has(k, S)
         /\ \A k : pair(k)' = pair(k) /\ ValueEnd(k)' = ValueEnd(k) /\ PartEnd(k)' = PartEnd(k)
         /\ \A a, e : IsPair(a, e)' <=> IsPair(a, e)
<1>1. \A k, S : Has(k, S)' <=> Has(k, S)
  BY DEF Has
<1>2. \A k, S : EndOf(k, S)' = EndOf(k, S)
  BY <1>1 DEF EndOf
<1>3. \A k : KeyEnd(k)' = KeyEnd(k)
  BY <1>2 DEF KeyEnd
<1>4. \A k : ValueEnd(k)' = ValueEnd(k)
  BY <1>1, <1>2, <1>3 DEF ValueEnd
<1>5. \A k : pair(k)' = pair(k)
  BY <1>1, <1>3, <1>4 DEF pair
<1>6. \A k : PartEnd(k)' = PartEnd(k)
  BY DEF PartEnd
<1>7. \A a, e : IsPair(a, e)' <=> IsPair(a, e)
  BY DEF IsPair, Conforms
<1>8. Begins' = Begins
  BY DEF Begins
<1> QED BY <1>1, <1>4, <1>5, <1>6, <1>7, <1>8

\* Each part of the invariant stays true while its variables stay.
LEMMA SameParsed == ASSUME ParsedSoFar, UNCHANGED <<query, m, begin>> PROVE ParsedSoFar'
<1>1. PICK st \in [1 .. Len(m) -> 1 .. Len(query)] : Starts(st)
  BY DEF ParsedSoFar
<1>2. Starts(st)'
  BY <1>1, SameQuery DEF Starts
<1> QED BY <1>1, <1>2 DEF ParsedSoFar

\* Nor does the map change by itself.
LEMMA SameInserted == ASSUME InsertedSoFar, UNCHANGED <<m, it, params_>> PROVE InsertedSoFar'
BY DEF InsertedSoFar, Given, KeyOf, ValueOf

\* Where the parser has stopped it stays stopped.
LEMMA SameStopped == ASSUME Stopped, UNCHANGED <<query, m, begin>> PROVE Stopped'
BY DEF Stopped, Has

\* A part of the query begins where a pair may.
LEMMA PartsBegin ==
  ASSUME query \in Seq(Byte), NEW a \in Begins
  PROVE  /\ a \in 1 .. Len(query) + 1
         /\ a = 1 \/ (a - 1 \in 1 .. Len(query) /\ query[a - 1] = Ampersand)
BY DEF Begins

\* A pair that is parsed belongs to the next part, and the one before it was read
\* to the end of its own.
LEMMA PairParsed ==
  ASSUME TypeOK, ParsedSoFar, NEW k \in {begin, begin + 1}, Pair(k),
         IF m = <<>> THEN k = begin ELSE Has(begin, {Ampersand}) /\ k = begin + 1
  PROVE  ParsedSoFar'
<1>0. /\ query \in Seq(Byte) /\ Len(query) \in Nat /\ DOMAIN query = 1 .. Len(query)
      /\ begin \in 1 .. Len(query) + 1 /\ Len(m) \in Nat
      /\ (m = <<>> <=> Len(m) = 0)
      /\ m \in Seq([key : Seq(KeyByte), assigned : BOOLEAN, value : Seq(ValueByte)])
  BY DEF TypeOK, Byte
<1>1. PICK st \in [1 .. Len(m) -> 1 .. Len(query)] : Starts(st)
  BY DEF ParsedSoFar
<1>2. Has(k, KeyStart) /\ k \in 1 .. Len(query) /\ query' = query /\ begin' = ValueEnd(k)
  BY <1>0 DEF Pair, Has
<1>a. PICK L \in Nat : L = Len(m)
  BY <1>0
<1>b. PICK new : new = [j \in 1 .. L + 1 |-> IF j = L + 1 THEN k ELSE st[j]]
  OBVIOUS
<1>3. /\ Len(m') = L + 1 /\ m'[L + 1] = pair(k) /\ \A j \in 1 .. L : m'[j] = m[j]
  <2>1. pair(k) \in [key : Seq(KeyByte), assigned : BOOLEAN, value : Seq(ValueByte)]
    BY <1>0, <1>2, PairTyped
  <2>2. m' = Append(m, pair(k))
    BY DEF Pair
  <2> QED BY <1>0, <1>a, <2>1, <2>2
<1>4. /\ new \in [1 .. L + 1 -> 1 .. Len(query)] /\ new[L + 1] = k
      /\ \A j \in 1 .. L : new[j] = st[j]
  BY <1>0, <1>1, <1>2, <1>a, <1>b
\* The part before, if there is one, and that no part begins in between.
<1>5. /\ k \in Begins
      /\ \A j \in 1 .. L : st[j] < k
      /\ L > 0 => IsPair(st[L], PartEnd(st[L]))
      /\ \A a \in Begins : a <= k => a = k \/ (L > 0 /\ a <= st[L])
  <2>1. CASE L = 0
    <3>1. k = 1
      BY <1>0, <1>a, <1>1, <2>1 DEF Starts
    <3>2. \A a \in Begins : a <= k => a = k
      BY <1>0, <1>a, <3>1, PartsBegin
    <3> QED BY <1>0, <1>a, <2>1, <3>1, <3>2 DEF Begins
  <2>2. CASE L > 0
    <3> DEFINE a0 == st[L]
               v == ValueEnd(a0)
    <3>1. L \in 1 .. L /\ a0 \in 1 .. Len(query) /\ Has(a0, KeyStart) /\ begin = v /\ a0 \in Begins
      BY <1>0, <1>a, <1>1, <2>2 DEF Starts
    <3>2. k = v + 1 /\ v \in 1 .. Len(query) /\ query[v] = Ampersand
      BY <1>0, <1>a, <2>2, <3>1 DEF Has
    <3>3. PairAt(a0, KeyEnd(a0), v)
      BY <1>0, <1>a, <3>1, PairIsAt
    <3> HIDE DEF v, a0
    <3>4. /\ \A p \in a0 .. v - 1 : query[p] # Ampersand
          /\ v - 1 <= PartEnd(a0)
          /\ Ends(a0) # {} /\ ReadTo(a0) = v - 1
          /\ Conforms(a0, KeyEnd(a0) - 1, v - 1)
      BY <1>0, <1>a, <3>1, <3>3, PartRead, PairIsLongest
    <3>5. a0 <= v - 1 /\ KeyEnd(a0) - 1 \in a0 .. v - 1
      BY <3>3, <1>0, <3>1, <3>2 DEF PairAt
    <3>6. PartEnd(a0) = v - 1
      <4>1. PartEnd(a0) \in a0 - 1 .. Len(query) /\ \A p \in a0 .. PartEnd(a0) : query[p] # Ampersand
        <5>1. a0 \in 1 .. Len(query) + 1
          BY <1>0, <3>1
        <5> QED BY <1>0, <5>1, PartEnds
      <4>2. v \notin a0 .. PartEnd(a0)
        BY <3>2, <4>1
      <4>3. v - 1 <= PartEnd(a0) /\ a0 <= v
        BY <1>0, <1>a, <3>1, <3>2, <3>4, <3>5
      <4>4. PartEnd(a0) \in Int /\ a0 \in Int /\ v \in Int
        BY <1>0, <1>a, <3>1, <3>2, <4>1
      <4> QED BY <4>2, <4>3, <4>4
    <3>7. IsPair(a0, PartEnd(a0))
      BY <3>4, <3>5, <3>6 DEF IsPair
    <3>8. k \in Begins
      BY <1>0, <1>a, <3>2 DEF Begins
    <3>9. ASSUME NEW a \in Begins, a <= k PROVE a = k \/ a <= a0
      <4> SUFFICES ASSUME a < k, a0 < a PROVE FALSE
        BY <1>0, <1>a, <1>2, <3>1, <3>9, PartsBegin
      <4>1. a # 1 /\ a \in 1 .. Len(query) + 1
        BY <1>0, <1>a, <3>1, PartsBegin
      <4>2. query[a - 1] = Ampersand
        BY <1>0, <1>a, <4>1, PartsBegin
      <4>3. a - 1 \in a0 .. v - 1
        BY <1>0, <1>a, <3>1, <3>2, <4>1
      <4> QED BY <3>4, <4>2, <4>3
    <3>10. \A j \in 1 .. L : st[j] <= a0 /\ st[j] \in Nat
      <4> SUFFICES ASSUME NEW j \in 1 .. L PROVE st[j] <= a0 /\ st[j] \in Nat
        OBVIOUS
      <4>1. st[j] \in 1 .. Len(query)
        BY <1>a, <1>1
      <4>2. j = L \/ j < L
        BY <1>0, <1>a
      <4>3. j < L => st[j] < st[L]
        BY <1>a, <1>1, <3>1 DEF Starts
      <4> QED BY <1>0, <1>a, <4>1, <4>2, <4>3, <3>1 DEF a0
    <3>11. \A j \in 1 .. L : st[j] < k
      BY <1>0, <1>a, <3>1, <3>2, <3>5, <3>10
    <3> QED BY <2>2, <3>7, <3>8, <3>9, <3>11 DEF a0
  <2> QED BY <1>0, <1>a, <2>1, <2>2
<1>6. \A j \in 1 .. L + 1 : new[j] \in Begins /\ Has(new[j], KeyStart) /\ m'[j] = pair(new[j])
  <2>1. \A j \in 1 .. L : st[j] \in Begins /\ Has(st[j], KeyStart) /\ m[j] = pair(st[j])
    BY <1>a, <1>1 DEF Starts
  <2>2. \A j \in 1 .. L + 1 : j \in 1 .. L \/ j = L + 1
    BY <1>a
  <2> QED BY <1>2, <1>3, <1>4, <1>5, <2>1, <2>2
<1>7. \A i_, j \in 1 .. L + 1 : i_ < j => new[i_] < new[j]
  <2> SUFFICES ASSUME NEW i_ \in 1 .. L + 1, NEW j \in 1 .. L + 1, i_ < j PROVE new[i_] < new[j]
    OBVIOUS
  <2>1. i_ \in 1 .. L
    BY <1>a
  <2>2. CASE j = L + 1
    BY <1>4, <1>5, <2>1, <2>2
  <2>3. CASE j \in 1 .. L
    <3>1. st[i_] < st[j]
      BY <1>a, <1>1, <2>1, <2>3 DEF Starts
    <3> QED BY <1>4, <2>1, <2>3, <3>1
  <2>4. j \in 1 .. L \/ j = L + 1
    BY <1>a
  <2> QED BY <2>2, <2>3, <2>4
<1>8. \A j \in 1 .. L + 1 : j < L + 1 => IsPair(new[j], PartEnd(new[j]))
  <2> SUFFICES ASSUME NEW j \in 1 .. L + 1, j < L + 1 PROVE IsPair(new[j], PartEnd(new[j]))
    OBVIOUS
  <2>1. j \in 1 .. L /\ (j < L \/ (j = L /\ L > 0))
    BY <1>a
  <2>2. j < L => IsPair(st[j], PartEnd(st[j]))
    BY <1>a, <1>1, <2>1 DEF Starts
  <2> QED BY <1>4, <1>5, <2>1, <2>2
<1>9. \A a \in Begins : a <= new[L + 1] => \E j \in 1 .. L + 1 : a = new[j]
  <2> SUFFICES ASSUME NEW a \in Begins, a <= k PROVE \E j \in 1 .. L + 1 : a = new[j]
    BY <1>4
  <2>1. CASE a = k
    BY <1>0, <1>4, <2>1
  <2>2. CASE L > 0 /\ a <= st[L]
    <3>1. PICK j \in 1 .. L : a = st[j]
      BY <1>a, <1>1, <2>2 DEF Starts
    <3>2. j \in 1 .. L + 1
      BY <1>a
    <3> QED BY <1>4, <3>1, <3>2
  <2> QED BY <1>5, <2>1, <2>2
<1>10. Starts(new)'
  <2>1. Len(m') = L + 1 /\ L + 1 # 0 /\ begin' = ValueEnd(new[L + 1])
    BY <1>0, <1>2, <1>3, <1>4
  <2>2. /\ Begins' = Begins
        /\ \A x, S : Has(x, S)' <=> Has(x, S)
        /\ \A x : pair(x)' = pair(x) /\ ValueEnd(x)' = ValueEnd(x) /\ PartEnd(x)' = PartEnd(x)
        /\ \A a, e : IsPair(a, e)' <=> IsPair(a, e)
    BY <1>2, SameQuery
  <2>3. 1 .. Len(m') = 1 .. L + 1
    BY <2>1
  <2>4. \A j \in 1 .. Len(m') : new[j] \in Begins' /\ Has(new[j], KeyStart)' /\ m'[j] = pair(new[j])'
    BY <1>6, <2>2, <2>3
  <2>5. \A i_, j \in 1 .. Len(m') : i_ < j => new[i_] < new[j]
    BY <1>7, <2>3
  <2>6. \A j \in 1 .. Len(m') : j < Len(m') => IsPair(new[j], PartEnd(new[j]))'
    BY <1>8, <2>1, <2>2, <2>3
  <2>7. \A a \in Begins' : Len(m') > 0 /\ a <= new[Len(m')] => \E j \in 1 .. Len(m') : a = new[j]
    BY <1>9, <2>1, <2>2, <2>3
  <2>8. begin' = IF Len(m') = 0 THEN 1 ELSE ValueEnd(new[Len(m)])'
    BY <2>1, <2>2, Zenon
  <2> QED BY <2>4, <2>5, <2>6, <2>7, <2>8 DEF Starts
<1>11. new \in [1 .. Len(m') -> 1 .. Len(query')]
  BY <1>2, <1>3, <1>4
<1> QED BY <1>10, <1>11 DEF ParsedSoFar

\* Before the loop nothing is inserted.
LEMMA NothingGiven == Given(0) = {}
BY DEF Given

\* The loop inserts what the next pair gives, unless an earlier one gave it.
LEMMA PairInserted ==
  ASSUME TypeOK, InsertedSoFar, Insert
  PROVE  InsertedSoFar'
<1>0. /\ Len(m) \in Nat /\ it \in Nat /\ it < Len(m) /\ m' = m /\ it' = it + 1
  BY DEF TypeOK, Insert
<1>1. PICK n \in Nat : n = it + 1
  BY <1>0
<1>2. PICK D : D = {KeyOf(j) : j \in Given(it)}
  OBVIOUS
<1>3. /\ (\A j : KeyOf(j)' = KeyOf(j) /\ ValueOf(j)' = ValueOf(j))
      /\ \A x : Given(x)' = Given(x)
  BY <1>0 DEF KeyOf, ValueOf, Given
<1>4. /\ DOMAIN params_ = D
      /\ \A j \in Given(it) : KeyOf(j) \in D
      /\ \A key \in D : \E j \in Given(it) : key = KeyOf(j)
  BY <1>2 DEF InsertedSoFar
<1>5. CASE ~m[n].assigned
  <2>1. Given(n) = Given(it)
    BY <1>0, <1>1, <1>5 DEF Given
  <2>2. params_' = params_
    BY <1>1, <1>5 DEF Insert
  <2> QED BY <1>0, <1>1, <1>3, <2>1, <2>2 DEF InsertedSoFar
<1>6. CASE m[n].assigned
  <2>1. Given(n) = Given(it) \cup {n} /\ \A j \in Given(it) : j < n /\ j \in Nat
    BY <1>0, <1>1, <1>6 DEF Given
  <2>2. params_' = insert(params_, KeyOf(n), ValueOf(n))
    BY <1>1, <1>6 DEF Insert, KeyOf, ValueOf
  <2>3. params_' = [key \in D \cup {KeyOf(n)} |-> IF key \in D THEN params_[key] ELSE ValueOf(n)]
    BY <1>4, <2>2 DEF insert
  <2>4. {KeyOf(j) : j \in Given(n)} = D \cup {KeyOf(n)}
    BY <1>2, <2>1
  <2>5. params_' = [key \in {KeyOf(j) : j \in Given(n)} |-> params_'[key]]
    BY <2>3, <2>4
  <2>6. ASSUME NEW j \in Given(n), \A k \in Given(n) : k < j => KeyOf(k) # KeyOf(j)
        PROVE  params_'[KeyOf(j)] = ValueOf(j)
    <3>1. CASE j \in Given(it)
      <4>1. params_[KeyOf(j)] = ValueOf(j)
        BY <2>1, <2>6, <3>1 DEF InsertedSoFar
      <4>2. KeyOf(j) \in D
        BY <1>4, <3>1
      <4> QED BY <2>3, <4>1, <4>2
    <3>2. CASE j = n
      <4>1. KeyOf(n) \notin D
        BY <1>4, <2>1, <2>6, <3>2
      <4> QED BY <2>3, <3>2, <4>1
    <3> QED BY <2>1, <2>6, <3>1, <3>2
  <2> QED BY <1>0, <1>1, <1>3, <2>5, <2>6 DEF InsertedSoFar
<1> QED BY <1>5, <1>6

\* One step per action.
LEMMA NextQInv == ASSUME QInv, [Next]_vars PROVE QInv'
<1>0. TypeOK /\ ParsedSoFar /\ InsertedSoFar /\ Stages /\ TypeOK'
  BY NextTyped DEF QInv
<1>a. Len(m) \in Nat /\ (m = <<>> <=> Len(m) = 0) /\ it \in 0 .. Len(m)
  BY <1>0 DEF TypeOK
<1>1. CASE Decode
  <2>1. UNCHANGED <<query, begin, m, it, params_>> /\ stage = "decode"
    BY <1>1 DEF Decode, query_vars
  <2>2. verdict' \in {"none", "true", "false"}
    BY <1>0 DEF TypeOK, DecodeTypeOK
  <2>3. stage' \in {"decode", "split"} \/ (stage' = "done" /\ verdict' = "false")
    BY <1>1, <2>2 DEF Decode
  <2>4. m' = <<>> /\ it' = 0
    BY <1>0, <2>1 DEF Stages
  <2>5. Stages'
    BY <2>3, <2>4 DEF Stages
  <2> QED BY <1>0, <2>1, <2>5, SameParsed, SameInserted DEF QInv
<1>2. CASE Split
  <2>1. /\ UNCHANGED <<m, it, params_, verdict>> /\ m = <<>> /\ it = 0 /\ begin' = 1
        /\ stage' = IF query' = <<>> THEN "done" ELSE "parse"
    BY <1>0, <1>2 DEF Split, Stages, decode_vars
  <2>2. ParsedSoFar'
    <3>1. PICK st : st = [j \in 1 .. 0 |-> 1]
      OBVIOUS
    <3>2. Len(m') = 0 /\ 1 .. Len(m') = {}
      BY <1>a, <2>1
    <3>3. st \in [1 .. Len(m') -> 1 .. Len(query')]
      BY <3>1, <3>2
    <3>4. Starts(st)'
      BY <2>1, <3>2 DEF Starts
    <3> QED BY <3>3, <3>4 DEF ParsedSoFar
  <2>3. stage' = "done" => Stopped'
    BY <2>1 DEF Stopped, Has
  <2>4. stage' \in {"done", "parse"} /\ it' = Len(m')
    BY <1>a, <2>1
  <2>5. Stages'
    BY <2>1, <2>3, <2>4 DEF Stages
  <2> QED BY <1>0, <2>1, <2>2, <2>5, SameInserted DEF QInv
<1>3. CASE FirstPair \/ NextPair
  <2>1. /\ stage = "parse" /\ UNCHANGED <<stage, it, params_>>
    BY <1>3 DEF FirstPair, NextPair, Pair
  <2>2. ParsedSoFar'
    <3>1. CASE FirstPair
      BY <1>0, <3>1, PairParsed DEF FirstPair
    <3>2. CASE NextPair
      BY <1>0, <3>2, PairParsed DEF NextPair
    <3> QED BY <1>3, <3>1, <3>2
  <2>3. it = 0
    BY <1>0, <2>1 DEF Stages
  <2>4. Given(it) = {} /\ Given(it)' = {}
    BY <2>1, <2>3 DEF Given
  <2>5. InsertedSoFar'
    <3>1. params_ = [key \in {} |-> params_[key]]
      BY <1>0, <2>4 DEF InsertedSoFar
    <3> QED BY <2>1, <2>4, <3>1 DEF InsertedSoFar
  <2>6. Stages'
    BY <2>1, <2>3 DEF Stages
  <2> QED BY <1>0, <2>2, <2>5, <2>6 DEF QInv
<1>4. CASE StopParsing
  <2>1. UNCHANGED <<query, begin, m, it, params_, verdict>> /\ stage = "parse"
    BY <1>4 DEF StopParsing, decode_vars, query_vars
  <2>2. Stopped
    BY <1>4 DEF StopParsing, Stopped
  <2>3. it = 0 /\ (stage' = "insert" \/ (stage' = "done" /\ m = <<>>))
    BY <1>0, <1>4, <2>1 DEF StopParsing, Stages
  <2>4. Stopped'
    BY <2>1, <2>2, SameStopped
  <2>5. Stages'
    BY <1>a, <2>1, <2>3, <2>4 DEF Stages
  <2> QED BY <1>0, <2>1, <2>5, SameParsed, SameInserted DEF QInv
<1>5. CASE Insert
  <2>1. UNCHANGED <<query, begin, m, verdict, stage>> /\ stage = "insert"
    BY <1>5 DEF Insert, decode_vars
  <2>2. InsertedSoFar'
    BY <1>0, <1>5, PairInserted
  <2>3. Stopped'
    BY <1>0, <2>1, SameStopped DEF Stages
  <2>4. Stages'
    BY <2>1, <2>3 DEF Stages
  <2> QED BY <1>0, <2>1, <2>2, <2>4, SameParsed DEF QInv
<1>6. CASE Constructed
  <2>1. UNCHANGED <<query, begin, m, it, params_, verdict>> /\ stage = "insert" /\ stage' = "done"
    BY <1>6 DEF Constructed, decode_vars, query_vars
  <2>2. Stopped'
    BY <1>0, <2>1, SameStopped DEF Stages
  <2>3. it' = Len(m')
    BY <1>6, <2>1 DEF Constructed
  <2>4. Stages'
    BY <2>1, <2>2, <2>3 DEF Stages
  <2> QED BY <1>0, <2>1, <2>4, SameParsed, SameInserted DEF QInv
<1>7. CASE Done \/ UNCHANGED vars
  <2>1. UNCHANGED <<query, begin, m, it, params_, verdict, stage>>
    BY <1>7 DEF Done, vars, decode_vars, query_vars
  <2>2. Stopped => Stopped'
    BY <2>1, SameStopped
  <2>3. Stages'
    BY <1>0, <2>1, <2>2 DEF Stages
  <2> QED BY <1>0, <2>1, <2>3, SameParsed, SameInserted DEF QInv
<1> QED BY <1>1, <1>2, <1>3, <1>4, <1>5, <1>6, <1>7 DEF Next

-----------------------------------------------------------------------------
(* What is read is what is written.                                         *)

\* The reference says of a part what the grammar's pair says of it.
LEMMA PartOfPair ==
  ASSUME query \in Seq(Byte), NEW a \in 1 .. Len(query), Has(a, KeyStart)
  PROVE  /\ Ends(a) # {}
         /\ pair(a).assigned <=> KeyTo(a) < ReadTo(a)
         /\ to_lower_copy(pair(a).key) = Key(a)
         /\ to_lower_copy(pair(a).value) = Value(a)
<1> DEFINE n == KeyEnd(a)
           v == ValueEnd(a)
<1>1. PairAt(a, n, v)
  BY PairIsAt
<1>2. Ends(a) # {} /\ ReadTo(a) = v - 1 /\ KeyTo(a) = n - 1
  <2> HIDE DEF n, v
  <2> QED BY <1>1, PartRead
<1>3. n \in Nat /\ v \in Nat /\ n <= v /\ n >= 1 /\ Len(query) \in Nat
  <2> HIDE DEF n, v
  <2> QED BY <1>1 DEF PairAt
<1>4. pair(a).assigned <=> n < v
  <2>1. pair(a).assigned <=> n <= Len(query) /\ query[n] = Equals
    <3>1. pair(a).assigned = Has(n, {Equals})
      BY DEF pair
    <3> HIDE DEF n
    <3>2. n \in DOMAIN query <=> n <= Len(query)
      BY <1>3
    <3> QED BY <3>1, <3>2 DEF Has
  <2> HIDE DEF n, v
  <2>2. n <= Len(query) /\ query[n] = Equals <=> n < v
    BY <1>1, <1>3 DEF PairAt
  <2> QED BY <2>1, <2>2
<1>5. pair(a).key = SubSeq(query, a, n - 1) /\ pair(a).value = SubSeq(query, n + 1, v - 1)
  BY DEF pair
<1> HIDE DEF n, v
<1>6. (n - 1) + 2 = n + 1 /\ (n < v <=> n - 1 < v - 1)
  BY <1>3
<1> QED BY <1>2, <1>4, <1>5, <1>6 DEF Key, Value

\* Behind the last pair there is none that the reference reads either.
LEMMA NoneBehind ==
  ASSUME TypeOK, Stopped, NEW st \in [1 .. Len(m) -> 1 .. Len(query)], Starts(st),
         NEW a \in Begins, IsRead(a), Ends(a) # {}
  PROVE  Len(m) > 0 /\ a <= st[Len(m)]
<1>0. /\ query \in Seq(Byte) /\ Len(query) \in Nat /\ Len(m) \in Nat
      /\ (m = <<>> <=> Len(m) = 0) /\ DOMAIN query = 1 .. Len(query)
  BY DEF TypeOK, Byte
<1>1. a \in 1 .. Len(query) + 1
  BY <1>0, PartsBegin
\* A place before a part that is read, or at it, begins a pair.
<1>2. ASSUME NEW b \in Begins, b <= a PROVE Has(b, KeyStart)
  <2>1. b \in 1 .. Len(query) + 1
    BY <1>0, PartsBegin
  <2> SUFFICES ASSUME ~Has(b, KeyStart) PROVE FALSE
    OBVIOUS
  <2>2. Ends(b) = {} /\ ~IsPair(b, PartEnd(b))
    BY <1>0, <2>1, NothingRead
  <2>3. b = a \/ b < a
    BY <1>1, <1>2, <2>1
  <2> QED BY <2>2, <2>3 DEF IsRead
<1>3. CASE Len(m) = 0
  <2>1. begin = 1 /\ 1 \in Begins /\ 1 <= a
    BY <1>1, <1>3 DEF Starts, Begins
  <2> QED BY <1>0, <1>2, <1>3, <2>1 DEF Stopped
<1>4. CASE Len(m) > 0
  <2>1. PICK a0 \in 1 .. Len(query) : a0 = st[Len(m)]
    <3>1. Len(m) \in 1 .. Len(m)
      BY <1>0, <1>4
    <3> QED BY <3>1
  <2>2. a0 \in Begins /\ Has(a0, KeyStart) /\ begin = ValueEnd(a0)
    BY <1>0, <1>4, <2>1 DEF Starts
  <2> SUFFICES ASSUME a0 < a PROVE FALSE
    BY <1>1, <1>4, <2>1
  <2>3. PICK v : v = ValueEnd(a0)
    OBVIOUS
  <2>4. PairAt(a0, KeyEnd(a0), v)
    BY <1>0, <2>2, <2>3, PairIsAt
  <2>5. v \in Nat /\ a0 < v /\ v <= Len(query) + 1
    BY <1>0, <2>4 DEF PairAt
  <2>6. IsPair(a0, PartEnd(a0))
    BY <2>2 DEF IsRead
  <2>7. PartEnd(a0) = v - 1 /\ \A p \in a0 .. v - 1 : query[p] # Ampersand
    BY <1>0, <2>4, <2>6, PartRead
  <2>8. a - 1 \in 1 .. Len(query) /\ query[a - 1] = Ampersand
    <3>1. a # 1
      BY <1>1
    <3> QED BY <1>0, <3>1, PartsBegin
  <2>9. v <= a - 1
    <3>1. a - 1 \notin a0 .. v - 1
      BY <2>7, <2>8
    <3> QED BY <1>1, <2>5, <3>1
  <2>10. v \in 1 .. Len(query)
    BY <1>0, <1>1, <2>5, <2>9
  <2>11. query[v] = Ampersand
    <3> SUFFICES ASSUME query[v] # Ampersand PROVE FALSE
      OBVIOUS
    <3>1. \A p \in a0 .. v : query[p] # Ampersand
      <4>1. \A p \in a0 .. v : p \in a0 .. v - 1 \/ p = v
        BY <2>5
      <4> QED BY <2>7, <4>1
    <3>2. a0 \in 1 .. Len(query) + 1 /\ v \in a0 - 1 .. Len(query)
      BY <1>0, <2>5, <2>10
    <3>3. v <= PartEnd(a0)
      BY <1>0, <3>1, <3>2, PartEnds
    <3> QED BY <2>5, <2>7, <3>3
  <2>12. v + 1 \in Begins /\ v + 1 <= a
    <3>1. v + 1 \in Begins
      BY <1>0, <2>10, <2>11 DEF Begins
    <3> QED BY <1>1, <2>5, <2>9, <3>1
  <2>13. Has(v + 1, KeyStart) /\ Has(v, {Ampersand})
    BY <1>0, <1>2, <2>10, <2>11, <2>12 DEF Has
  <2> QED BY <1>0, <1>4, <2>2, <2>3, <2>13 DEF Stopped
<1> QED BY <1>0, <1>3, <1>4

\* Once the loop has ended, the map is what the parts mean.
LEMMA WrittenAtEnd == ASSUME QInv, stage = "done", verdict = "true" PROVE params_ = Meaning
<1>0. /\ TypeOK /\ InsertedSoFar /\ Stopped /\ it = Len(m)
      /\ query \in Seq(Byte) /\ Len(query) \in Nat /\ Len(m) \in Nat
  BY DEF QInv, Stages, TypeOK, Byte
<1>1. PICK st \in [1 .. Len(m) -> 1 .. Len(query)] : Starts(st)
  BY DEF QInv, ParsedSoFar
<1>2. PICK L \in Nat : L = Len(m)
  BY <1>0
\* A pair and its part say the same.
<1>3. ASSUME NEW j \in 1 .. L
      PROVE  /\ st[j] \in Begins /\ st[j] \in Nat
             /\ Ends(st[j]) # {}
             /\ m[j].assigned <=> KeyTo(st[j]) < ReadTo(st[j])
             /\ KeyOf(j) = Key(st[j])
             /\ ValueOf(j) = Value(st[j])
  <2>1. st[j] \in 1 .. Len(query)
    BY <1>1, <1>2
  <2>2. st[j] \in Begins /\ Has(st[j], KeyStart) /\ m[j] = pair(st[j])
    BY <1>1, <1>2 DEF Starts
  <2>3. /\ Ends(st[j]) # {}
        /\ pair(st[j]).assigned <=> KeyTo(st[j]) < ReadTo(st[j])
        /\ to_lower_copy(pair(st[j]).key) = Key(st[j])
        /\ to_lower_copy(pair(st[j]).value) = Value(st[j])
    BY <1>0, <2>1, <2>2, PartOfPair
  <2> QED BY <2>1, <2>2, <2>3 DEF KeyOf, ValueOf
<1>4. \A x, y \in 1 .. L : x < y => st[x] < st[y]
  BY <1>1, <1>2 DEF Starts
<1>5. ASSUME NEW j \in 1 .. L PROVE IsRead(st[j])
  <2> SUFFICES ASSUME NEW b \in Begins, b < st[j] PROVE IsPair(b, PartEnd(b))
    BY DEF IsRead
  <2>1. L \in 1 .. L /\ L > 0 /\ st[L] \in Nat /\ st[j] \in Nat /\ b \in Nat
    BY <1>0, <1>2, <1>3, PartsBegin
  <2>2. st[j] <= st[L]
    <3>1. j = L \/ j < L
      BY <1>2
    <3>2. j < L => st[j] < st[L]
      BY <1>4, <2>1
    <3> QED BY <2>1, <3>1, <3>2
  <2>3. b <= st[L]
    BY <2>1, <2>2
  <2>4. PICK x \in 1 .. L : b = st[x]
    BY <1>1, <1>2, <2>1, <2>3 DEF Starts
  <2>5. x < L
    <3>1. st[x] # st[L]
      BY <2>1, <2>2, <2>4
    <3> QED BY <1>2, <3>1
  <2> QED BY <1>1, <1>2, <2>4, <2>5 DEF Starts
<1>6. \A j \in Given(L) : j \in 1 .. L /\ st[j] \in Giving
  BY <1>3, <1>5 DEF Given, Giving
<1>7. ASSUME NEW a \in Giving PROVE \E j \in Given(L) : a = st[j]
  <2>1. a \in Begins /\ IsRead(a) /\ Ends(a) # {} /\ KeyTo(a) < ReadTo(a)
    BY DEF Giving
  <2>2. Len(m) > 0 /\ a <= st[Len(m)]
    BY <1>0, <1>1, <2>1, NoneBehind
  <2>3. PICK j \in 1 .. L : a = st[j]
    BY <1>1, <1>2, <2>1, <2>2 DEF Starts
  <2>4. m[j].assigned
    BY <1>3, <2>1, <2>3
  <2> QED BY <2>3, <2>4 DEF Given
<1>8. {KeyOf(j) : j \in Given(L)} = {Key(a) : a \in Giving}
  <2>1. ASSUME NEW j \in Given(L) PROVE KeyOf(j) \in {Key(a) : a \in Giving}
    BY <1>3, <1>6
  <2>2. ASSUME NEW a \in Giving PROVE Key(a) \in {KeyOf(j) : j \in Given(L)}
    BY <1>3, <1>6, <1>7
  <2> QED BY <2>1, <2>2
\* The first pair for a key belongs to the first part that gives it a value.
<1>9. ASSUME NEW key \in {KeyOf(j) : j \in Given(L)}
      PROVE  params_[key] = Value(Min({a \in Giving : Key(a) = key}))
  <2> DEFINE J == {j \in Given(L) : KeyOf(j) = key}
             S == {a \in Giving : Key(a) = key}
  <2>1. J \subseteq Nat /\ J # {}
    BY <1>6
  <2>2. PICK j \in J : \A y \in J : j <= y
    <3> HIDE DEF J
    <3> QED BY <2>1, MinIsLeast
  <2>3. j \in Given(L) /\ KeyOf(j) = key /\ j \in 1 .. L
    BY <1>6, <2>2
  <2>4. st[j] \in S
    BY <1>3, <1>6, <2>3
  <2>5. ASSUME NEW a \in S PROVE st[j] <= a
    <3>1. PICK x \in Given(L) : a = st[x]
      BY <1>7
    <3>2. x \in J /\ x \in 1 .. L
      BY <1>3, <1>6, <3>1
    <3>3. j <= x
      BY <2>2, <3>2
    <3>4. j < x => st[j] < st[x]
      BY <1>4, <2>3, <3>2
    <3>5. st[j] \in Nat /\ st[x] \in Nat
      BY <1>3, <2>3, <3>2
    <3>6. j = x \/ j < x
      BY <2>3, <3>2, <3>3
    <3> QED BY <3>1, <3>4, <3>5, <3>6
  <2>6. S \subseteq Int
    <3>1. ASSUME NEW a \in S PROVE a \in Int
      BY <1>0, PartsBegin DEF Giving
    <3> QED BY <3>1
  <2>7. Min(S) = st[j]
    <3> HIDE DEF S
    <3> QED BY <2>4, <2>5, <2>6, MinIs
  <2>8. \A k \in Given(L) : k < j => KeyOf(k) # KeyOf(j)
    <3> SUFFICES ASSUME NEW k \in Given(L), k < j, KeyOf(k) = KeyOf(j) PROVE FALSE
      OBVIOUS
    <3>1. k \in J /\ k \in 1 .. L
      BY <1>6, <2>3
    <3>2. j <= k
      BY <2>2, <3>1
    <3> QED BY <2>3, <3>1, <3>2
  <2>9. params_[KeyOf(j)] = ValueOf(j)
    BY <1>0, <1>2, <2>3, <2>8 DEF InsertedSoFar
  <2> QED BY <1>3, <2>3, <2>7, <2>9
<1>10. params_ = [key \in {KeyOf(j) : j \in Given(L)} |-> params_[key]]
  BY <1>0, <1>2 DEF InsertedSoFar
<1> QED BY <1>8, <1>9, <1>10 DEF Meaning

\* Whatever the URI, the parameters of wms_query are what the parts between the
\* ampersands say, each read by itself and of those for one key the first, up to
\* the first that does not conform (uri_grammer.hpp:42-45, uri_parser.cpp:33-64).
THEOREM QueryIsReadAsWritten == Spec => []ReadAsWritten
<1>1. Init => QInv
  BY InitQInv
<1>2. QInv /\ [Next]_vars => QInv'
  BY NextQInv
<1>3. QInv => ReadAsWritten
  BY WrittenAtEnd DEF ReadAsWritten
<1> QED BY <1>1, <1>2, <1>3, PTL DEF Spec

=============================================================================
