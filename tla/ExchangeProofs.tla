--------------------------- MODULE ExchangeProofs ---------------------------
(***************************************************************************)
(* That a connection implements Exchange: the state machine of the parser, *)
(* fed through reads of any length, finds the first request that the       *)
(* grammar finds, reads it as the grammar does, and refuses only what no   *)
(* further byte can make a request. For every input and every buffer.      *)
(*                                                                         *)
(* The invariant gives each state of the parser the shape of what has been *)
(* consumed of the current line, and says that the request so far is the   *)
(* meaning of the bytes so far: what the grammar says of a position never  *)
(* depends on what comes after it.                                         *)
(***************************************************************************)
EXTENDS ConnectionProofs, MeaningProofs, Least

\* The method, then the URI, up to the space after it.
MethodTo(s, x) == s[x] = "SP" /\ Word(s, 1, x - 1, Token)
UriTo(s, x, y) == MethodTo(s, x) /\ x < y /\ s[y] = "SP" /\ Text(s, x + 1, y - 1, UriChar)

RequestLineStates == {"method_start", "method", "uri"}
VersionStates == {"http_version_h", "http_version_t_1", "http_version_t_2",
                  "http_version_p", "http_version_slash", "http_version_major_start",
                  "http_version_major", "http_version_minor_start",
                  "http_version_minor", "expecting_newline_1"}
HeaderStates == {"header_line_start", "header_lws", "header_name",
                 "space_before_header_value", "header_value",
                 "expecting_newline_2", "expecting_newline_3"}

\* What the first n characters of s look like in state q, within request lines.
RequestShape(q, s, n) ==
  /\ q = "method_start" => n = 0
  /\ q = "method" => Word(s, 1, n, Token)
  /\ q = "uri" => \E x \in 1 .. n : MethodTo(s, x) /\ Text(s, x + 1, n, UriChar)

\* The first letters of "HTTP/" after y.
Letters(s, y, k) ==
  /\ k >= 1 => s[y + 1] = "H"
  /\ k >= 2 => s[y + 2] = "T"
  /\ k >= 3 => s[y + 3] = "T"
  /\ k >= 4 => s[y + 4] = "P"
  /\ k >= 5 => s[y + 5] = "/"

\* After the URI, which ends before y, k letters of the version.
VersionTo(s, n, k) ==
  \E x \in 1 .. n, y \in 1 .. n : UriTo(s, x, y) /\ n = y + k /\ Letters(s, y, k)

VersionShape(q, s, n) ==
  /\ q = "http_version_h" => VersionTo(s, n, 0)
  /\ q = "http_version_t_1" => VersionTo(s, n, 1)
  /\ q = "http_version_t_2" => VersionTo(s, n, 2)
  /\ q = "http_version_p" => VersionTo(s, n, 3)
  /\ q = "http_version_slash" => VersionTo(s, n, 4)
  /\ q = "http_version_major_start" => VersionTo(s, n, 5)
  /\ q = "http_version_major" =>
       \E x \in 1 .. n, y \in 1 .. n :
         UriTo(s, x, y) /\ Letters(s, y, 5) /\ Word(s, y + 6, n, IsDigit)
  /\ q = "http_version_minor_start" =>
       \E x \in 1 .. n, y \in 1 .. n :
         /\ UriTo(s, x, y) /\ Letters(s, y, 5)
         /\ Word(s, y + 6, n - 1, IsDigit) /\ s[n] = "."
  /\ q = "http_version_minor" => RequestLine(s, 1, n + 1)
  /\ q = "expecting_newline_1" => RequestLine(s, 1, n) /\ s[n] = "CR"

\* What the current line, from a to n, looks like in the states of the headers.
HeaderShape(q, s, a, n) ==
  /\ q = "header_line_start" => n = a - 1
  /\ q = "header_lws" => Word(s, a, n, Blank) /\ Heads(s, a - 1) # {}
  /\ q = "header_name" => Word(s, a, n, Token)
  /\ q = "space_before_header_value" => Word(s, a, n - 1, Token) /\ s[n] = ":"
  /\ q = "header_value" =>
       GoodLine(s, a, n + 1) /\ \E i \in a .. n : s[i] \notin Blank
  /\ q = "expecting_newline_2" => GoodLine(s, a, n) /\ s[n] = "CR"
  /\ q = "expecting_newline_3" => n = a /\ s[n] = "CR"

Shape(q, s, a, n) ==
  \/ q \in RequestLineStates /\ a = 1 /\ RequestShape(q, s, n)
  \/ q \in VersionStates /\ a = 1 /\ VersionShape(q, s, n)
  \/ q \in HeaderStates /\ a > 1 /\ HeaderShape(q, s, a, n)

\* Between two characters: good lines, and a current one that starts at a.
Reached(q, s, a, n) ==
  InLine(s, a, n + 1) /\ GoodLines(s, a) /\ Shape(q, s, a, n)

\* The parser has read what is there; it has refused what never ends.
AsTheGrammarReads ==
  /\ result = "more" => \E a \in 1 .. consumed + 1 : Reached(state_, input, a, consumed)
  /\ result = "yes" => Ends(input, consumed)
  /\ result = "no" => \A m \in 1 .. Len(input) : ~Ends(input, m)
  /\ result # "no" => req = Meaning(input, consumed)

\* A read is started only when everything received has been parsed.
ReadsWhenParsed == op = "read" => result = "more" /\ consumed = received

EInv == CInv /\ AsTheGrammarReads /\ ReadsWhenParsed

-----------------------------------------------------------------------------
(* Lines.                                                                   *)

\* A character that is no LF does not end the current line.
LEMMA SameLine ==
  ASSUME NEW s \in Seq(Char), NEW n \in Nat, NEW a \in 1 .. n + 1,
         InLine(s, a, n + 1), s[n + 1] # "LF"
  PROVE  InLine(s, a, n + 2)
<1>1. ASSUME NEW k \in a + 1 .. n + 2 PROVE ~StartAt(s, k)
  <2>1. CASE k = n + 2
    BY <2>1 DEF StartAt, BreakAt
  <2>2. CASE k \in a + 1 .. n + 1
    BY <2>2 DEF InLine
  <2> QED BY <2>1, <2>2
<1> QED BY <1>1 DEF InLine

\* A break does, and adds the line to the good ones if it is good.
LEMMA NextLine ==
  ASSUME NEW s \in Seq(Char), NEW n \in Nat, NEW a \in 1 .. n,
         InLine(s, a, n + 1), BreakAt(s, n), GoodLines(s, a), GoodLine(s, a, n)
  PROVE  InLine(s, n + 2, n + 2) /\ GoodLines(s, n + 2)
<1>1. StartAt(s, n + 2)
  BY DEF StartAt
<1>2. ASSUME NEW c \in 1 .. n + 1, NEW d \in 1 .. n + 1, Line(s, c, d)
      PROVE  GoodLine(s, c, d)
  <2>1. StartAt(s, c) /\ c <= d /\ BreakAt(s, d) /\ StartAt(s, d + 2)
    BY <1>2 DEF Line, StartAt
  <2>2. CASE d < a
    BY <1>2, <2>1, <2>2 DEF GoodLines
  <2>3. CASE d >= a
    <3>1. d = n
      <4>1. d + 2 \notin a + 1 .. n + 1
        BY <2>1 DEF InLine
      <4>2. d # n + 1
        BY <2>1 DEF BreakAt
      <4> QED BY <2>3, <4>1, <4>2
    <3>2. c <= a
      <4>1. c \notin a + 1 .. n + 1
        BY <2>1 DEF InLine
      <4> QED BY <2>1, <3>1, <4>1
    <3>3. ~(c < a)
      <4> SUFFICES ASSUME c < a PROVE FALSE
        OBVIOUS
      <4>1. BreakAt(s, a - 2)
        BY DEF InLine, StartAt
      <4>2. c # a - 1
        BY <2>1, <4>1 DEF StartAt, BreakAt
      <4>3. a - 2 \in c .. d - 1
        BY <2>1, <3>1, <4>2
      <4> QED BY <1>2, <4>1, <4>3 DEF Line
    <3> QED BY <3>1, <3>2, <3>3
  <2> QED BY <2>2, <2>3
<1> QED BY <1>1, <1>2 DEF InLine, GoodLines

\* Good lines before the current one: no request has ended so far.
LEMMA NotYet ==
  ASSUME NEW s \in Seq(Char), NEW n \in Nat, NEW a \in 1 .. n + 1,
         InLine(s, a, n + 1), GoodLines(s, a), NEW m \in 1 .. n, Ends(s, m)
  PROVE  FALSE
<1>1. BreakAt(s, m - 1) /\ BreakAt(s, m - 3) /\ m >= 4
  BY DEF Ends, BreakAt
<1>2. StartAt(s, m + 1) /\ StartAt(s, m - 1)
  BY <1>1 DEF StartAt
<1>3. m + 1 <= a
  <2>1. m + 1 \notin a + 1 .. n + 1
    BY <1>2 DEF InLine
  <2> QED BY <2>1
<1>4. Line(s, m - 1, m - 1)
  BY <1>1, <1>2 DEF Line
<1>5. GoodLine(s, m - 1, m - 1)
  BY <1>1, <1>3, <1>4 DEF GoodLines
<1> QED BY <1>1, <1>5 DEF GoodLine, HeaderLine, FoldLine

\* What ends later goes on with the current line: it is the empty one at the
\* end, or a good one.
LEMMA CurrentLine ==
  ASSUME NEW s \in Seq(Char), NEW n \in Nat, NEW a \in 1 .. n + 1,
         InLine(s, a, n + 1), NEW m \in n + 1 .. Len(s), Ends(s, m)
  PROVE  \/ a = m - 1 /\ a > 1 /\ s[a] = "CR" /\ s[a + 1] = "LF"
         \/ \E b \in n .. Len(s) - 1 : a <= b /\ BreakAt(s, b) /\ GoodLine(s, a, b)
<1> DEFINE T == {b \in Nat : a <= b /\ BreakAt(s, b)}
<1>1. BreakAt(s, m - 1) /\ BreakAt(s, m - 3) /\ m >= 4 /\ GoodLines(s, m - 1)
  BY DEF Ends, BreakAt
<1>2. a # m /\ a # m - 2
  BY <1>1 DEF InLine, StartAt, BreakAt
<1>3. a <= m - 1 /\ m - 1 \in T
  BY <1>1, <1>2
<1>4. PICK b \in T : \A i \in T : b <= i
  <2>1. T \subseteq Nat /\ T # {}
    BY <1>3
  <2> HIDE DEF T
  <2> QED BY <2>1, MinIsLeast
<1>5. a <= b /\ BreakAt(s, b) /\ b <= m - 1 /\ b \in Nat
  BY <1>3, <1>4
<1>6. Line(s, a, b)
  <2>1. ASSUME NEW i \in a .. b - 1 PROVE ~BreakAt(s, i)
    <3>1. i \in Nat /\ a <= i /\ i < b
      BY <1>5
    <3> QED BY <1>4, <1>5, <3>1
  <2> QED BY <1>5, <2>1 DEF Line, InLine
<1>7. b >= n
  <2>1. StartAt(s, b + 2)
    BY <1>5 DEF StartAt
  <2>2. b + 2 \notin a + 1 .. n + 1
    BY <2>1 DEF InLine
  <2> QED BY <1>5, <2>2
<1>8. CASE b = m - 1
  <2>1. m - 3 \notin T
    BY <1>1, <1>4, <1>8
  <2>2. a = m - 1
    BY <1>1, <1>2, <1>3, <2>1
  <2> QED BY <1>1, <2>2 DEF BreakAt
<1>9. CASE b < m - 1
  <2>1. GoodLine(s, a, b)
    BY <1>1, <1>5, <1>6, <1>9 DEF GoodLines
  <2> QED BY <1>5, <1>7, <2>1 DEF BreakAt
<1> QED BY <1>5, <1>8, <1>9

-----------------------------------------------------------------------------
(* One rule of the table takes the parser from a shape to a shape.          *)

\* The states of a part of the table have the shapes of that part.
LEMMA ShapeOf ==
  ASSUME NEW q, NEW s, NEW a, NEW n
  PROVE  /\ q \in RequestLineStates => (Shape(q, s, a, n) <=> a = 1 /\ RequestShape(q, s, n))
         /\ q \in VersionStates => (Shape(q, s, a, n) <=> a = 1 /\ VersionShape(q, s, n))
         /\ q \in HeaderStates => (Shape(q, s, a, n) <=> a > 1 /\ HeaderShape(q, s, a, n))
         /\ q = "uri_start" => ~Shape(q, s, a, n)
BY DEF Shape, RequestLineStates, VersionStates, HeaderStates

\* Text goes on, character by character.
LEMMA TextOn ==
  ASSUME NEW s, NEW chars, NEW x \in Int, NEW n \in Int, Text(s, x, n, chars),
         s[n + 1] \in chars
  PROVE  Text(s, x, n + 1, chars)
BY DEF Text

\* A rule leads from the shape of its state to that of the state it goes to: for
\* the method and the URI, for the version, and for the header lines.
LEMMA RequestLineStep ==
  ASSUME NEW s \in Seq(Char), NEW n \in 0 .. Len(s) - 1, NEW a \in 1 .. n + 1,
         NEW r \in RequestLineRules, Shape(r.from, s, a, n), s[n + 1] \in r.chars
  PROVE  Shape(r.to, s, a, n + 1)
<1> USE DEF R
<1>1. CASE r = R("method_start", Token, "method", "method")
  <2>1. a = 1 /\ n = 0
    BY <1>1, ShapeOf DEF RequestLineStates, RequestShape
  <2>2. Word(s, 1, n + 1, Token)
    BY <1>1, <2>1 DEF Word, Text
  <2> QED BY <1>1, <2>1, <2>2, ShapeOf DEF RequestLineStates, RequestShape
<1>2. CASE r = R("method", {"SP"}, "uri", "nothing")
  <2>1. a = 1 /\ Word(s, 1, n, Token) /\ s[n + 1] = "SP"
    BY <1>2, ShapeOf DEF RequestLineStates, RequestShape
  <2>2. MethodTo(s, n + 1) /\ Text(s, n + 2, n + 1, UriChar)
    BY <2>1 DEF MethodTo, Word, Text
  <2> QED BY <1>2, <2>1, <2>2, ShapeOf DEF RequestLineStates, RequestShape
<1>3. CASE r = R("method", Token, "method", "method")
  <2>1. a = 1 /\ Word(s, 1, n, Token)
    BY <1>3, ShapeOf DEF RequestLineStates, RequestShape
  <2>2. Word(s, 1, n + 1, Token)
    BY <1>3, <2>1 DEF Word, Text
  <2> QED BY <1>3, <2>1, <2>2, ShapeOf DEF RequestLineStates, RequestShape
<1>4. CASE r = R("uri_start", Char \ IsCtl, "uri", "uri")
  BY <1>4, ShapeOf
<1>5. CASE r = R("uri", {"SP"}, "http_version_h", "nothing")
  <2>1. a = 1 /\ s[n + 1] = "SP"
    BY <1>5, ShapeOf DEF RequestLineStates
  <2>2. PICK x \in 1 .. n : MethodTo(s, x) /\ Text(s, x + 1, n, UriChar)
    BY <1>5, ShapeOf DEF RequestLineStates, RequestShape
  <2>3. UriTo(s, x, n + 1)
    BY <2>1, <2>2 DEF UriTo
  <2>4. VersionTo(s, n + 1, 0)
    BY <2>3 DEF VersionTo, Letters
  <2> QED BY <1>5, <2>1, <2>4, ShapeOf DEF VersionStates, VersionShape
<1>6. CASE r = R("uri", Char \ (IsCtl \cup {"SP"}), "uri", "uri")
  <2>1. PICK x \in 1 .. n : a = 1 /\ MethodTo(s, x) /\ Text(s, x + 1, n, UriChar)
    BY <1>6, ShapeOf DEF RequestLineStates, RequestShape
  <2>2. Text(s, x + 1, n + 1, UriChar)
    BY <1>6, <2>1, TextOn DEF UriChar
  <2> QED BY <1>6, <2>1, <2>2, ShapeOf DEF RequestLineStates, RequestShape
<1> QED BY <1>1, <1>2, <1>3, <1>4, <1>5, <1>6 DEF RequestLineRules

\* The next letter of the version.
LEMMA LetterOn ==
  ASSUME NEW s \in Seq(Char), NEW n \in 0 .. Len(s) - 1, NEW k \in 0 .. 4,
         VersionTo(s, n, k), k = 0 => s[n + 1] = "H", k = 1 => s[n + 1] = "T",
         k = 2 => s[n + 1] = "T", k = 3 => s[n + 1] = "P", k = 4 => s[n + 1] = "/"
  PROVE  VersionTo(s, n + 1, k + 1)
<1>1. PICK x \in 1 .. n, y \in 1 .. n : UriTo(s, x, y) /\ n = y + k /\ Letters(s, y, k)
  BY DEF VersionTo
<1>2. Letters(s, y, k + 1)
  BY <1>1 DEF Letters
<1> QED BY <1>1, <1>2 DEF VersionTo

\* The same of the version.
LEMMA VersionStep ==
  ASSUME NEW s \in Seq(Char), NEW n \in 0 .. Len(s) - 1, NEW a \in 1 .. n + 1,
         NEW r \in VersionRules, r.chars # {"LF"}, Shape(r.from, s, a, n),
         s[n + 1] \in r.chars
  PROVE  Shape(r.to, s, a, n + 1)
<1> USE DEF R
<1>0. r.from \in VersionStates /\ r.to \in VersionStates
  BY DEF VersionRules, VersionStates
<1>1. a = 1 /\ VersionShape(r.from, s, n)
  BY <1>0, ShapeOf
<1> SUFFICES VersionShape(r.to, s, n + 1)
  BY <1>0, <1>1, ShapeOf
<1> USE <1>1 DEF VersionShape
<1>2. CASE r = R("http_version_h", {"H"}, "http_version_t_1", "nothing")
  BY <1>2, LetterOn
<1>3. CASE r = R("http_version_t_1", {"T"}, "http_version_t_2", "nothing")
  BY <1>3, LetterOn
<1>4. CASE r = R("http_version_t_2", {"T"}, "http_version_p", "nothing")
  BY <1>4, LetterOn
<1>5. CASE r = R("http_version_p", {"P"}, "http_version_slash", "nothing")
  BY <1>5, LetterOn
<1>6. CASE r = R("http_version_slash", {"/"}, "http_version_major_start", "nothing")
  BY <1>6, LetterOn
<1>7. CASE r = R("http_version_major_start", IsDigit, "http_version_major", "nothing")
  <2>1. PICK x \in 1 .. n, y \in 1 .. n : UriTo(s, x, y) /\ n = y + 5 /\ Letters(s, y, 5)
    BY <1>7 DEF VersionTo
  <2>2. Word(s, y + 6, n + 1, IsDigit)
    BY <1>7, <2>1 DEF Word, Text
  <2> QED BY <1>7, <2>1, <2>2
<1>8. CASE r = R("http_version_major", {"."}, "http_version_minor_start", "nothing")
  <2>1. PICK x \in 1 .. n, y \in 1 .. n :
          UriTo(s, x, y) /\ Letters(s, y, 5) /\ Word(s, y + 6, n, IsDigit)
    BY <1>8
  <2> QED BY <1>8, <2>1
<1>9. CASE r = R("http_version_major", IsDigit, "http_version_major", "nothing")
  <2>1. PICK x \in 1 .. n, y \in 1 .. n :
          UriTo(s, x, y) /\ Letters(s, y, 5) /\ Word(s, y + 6, n, IsDigit)
    BY <1>9
  <2>2. Word(s, y + 6, n + 1, IsDigit)
    BY <1>9, <2>1, TextOn DEF Word
  <2> QED BY <1>9, <2>1, <2>2
<1>10. CASE r = R("http_version_minor_start", IsDigit, "http_version_minor", "nothing")
  <2>1. PICK x \in 1 .. n, y \in 1 .. n :
          /\ UriTo(s, x, y) /\ Letters(s, y, 5)
          /\ Word(s, y + 6, n - 1, IsDigit) /\ s[n] = "."
    BY <1>10
  <2>2. Word(s, n + 1, n + 1, IsDigit)
    BY <1>10 DEF Word, Text
  <2>3. HttpVersion(s, y, n + 2)
    BY <2>1, <2>2 DEF HttpVersion, Letters, Word
  <2>4. RequestLine(s, 1, n + 2)
    BY <2>1, <2>3 DEF RequestLine, UriTo, MethodTo
  <2> QED BY <1>10, <2>4
<1>11. CASE r = R("http_version_minor", {"CR"}, "expecting_newline_1", "nothing")
  BY <1>11
<1>12. CASE r = R("http_version_minor", IsDigit, "http_version_minor", "nothing")
  <2>1. PICK x \in 1 .. n, y \in 1 .. n :
          /\ s[x] = "SP" /\ s[y] = "SP" /\ Word(s, 1, x - 1, Token)
          /\ x < y /\ Text(s, x + 1, y - 1, UriChar) /\ HttpVersion(s, y, n + 1)
    BY <1>12 DEF RequestLine
  <2>2. HttpVersion(s, y, n + 2)
    <3>1. PICK dot \in y + 6 .. (n + 1) - 1 :
            /\ s[dot] = "." /\ Word(s, y + 6, dot - 1, IsDigit)
            /\ Word(s, dot + 1, (n + 1) - 1, IsDigit)
      BY <2>1 DEF HttpVersion
    <3>2. Word(s, dot + 1, n + 1, IsDigit)
      BY <1>12, <3>1, TextOn DEF Word
    <3> QED BY <2>1, <3>1, <3>2 DEF HttpVersion
  <2>3. RequestLine(s, 1, n + 2)
    <3>1. x \in 1 .. (n + 2) - 1 /\ y \in 1 .. (n + 2) - 1
      OBVIOUS
    <3> QED BY <2>1, <2>2, <3>1, Zenon DEF RequestLine
  <2> QED BY <1>12, <2>3
<1> QED
  BY <1>2, <1>3, <1>4, <1>5, <1>6, <1>7, <1>8, <1>9, <1>10, <1>11, <1>12 DEF VersionRules

\* A line that may end here may go on with a character of a value.
LEMMA GoodLineOn ==
  ASSUME NEW s \in Seq(Char), NEW n \in Nat, NEW a \in 2 .. n + 1,
         GoodLine(s, a, n + 1), s[n + 1] \in ValueChar
  PROVE  GoodLine(s, a, n + 2)
<1>1. CASE HeaderLine(s, a, n + 1)
  <2>1. PICK colon \in a .. (n + 1) - 2 :
          /\ s[colon] = ":" /\ s[colon + 1] = "SP"
          /\ Word(s, a, colon - 1, Token)
          /\ Text(s, colon + 2, (n + 1) - 1, ValueChar)
    BY <1>1 DEF HeaderLine
  <2>2. Text(s, colon + 2, (n + 2) - 1, ValueChar)
    BY <2>1 DEF Text
  <2>3. HeaderLine(s, a, n + 2)
    BY <2>1, <2>2 DEF HeaderLine
  <2> QED BY <2>3 DEF GoodLine
<1>2. CASE FoldLine(s, a, n + 1) /\ Heads(s, a - 1) # {}
  <2>1. PICK i \in a .. (n + 1) - 1 :
          Text(s, a, i, Blank) /\ Text(s, i + 1, (n + 1) - 1, ValueChar)
    BY <1>2 DEF FoldLine
  <2>2. Text(s, i + 1, (n + 2) - 1, ValueChar)
    BY <2>1 DEF Text
  <2>3. FoldLine(s, a, n + 2)
    BY <2>1, <2>2 DEF FoldLine
  <2> QED BY <1>2, <2>3 DEF GoodLine
<1> QED BY <1>1, <1>2 DEF GoodLine

\* A blank line is the beginning of a continuation.
LEMMA BlankLine ==
  ASSUME NEW s, NEW a \in Int, NEW n \in Int, Word(s, a, n, Blank)
  PROVE  FoldLine(s, a, n + 1)
<1>1. n \in a .. (n + 1) - 1 /\ Text(s, a, n, Blank)
  BY DEF Word
<1>2. Text(s, n + 1, (n + 1) - 1, ValueChar)
  BY DEF Text
<1> QED BY <1>1, <1>2 DEF FoldLine

\* The same of the header lines.
LEMMA HeaderStep ==
  ASSUME NEW s \in Seq(Char), NEW n \in 0 .. Len(s) - 1, NEW a \in 1 .. n + 1,
         NEW headers, headers # <<>> => Heads(s, n) # {},
         NEW r \in HeaderRules(headers), r.chars # {"LF"}, Shape(r.from, s, a, n),
         s[n + 1] \in r.chars
  PROVE  Shape(r.to, s, a, n + 1)
<1> USE DEF R
<1>0. r.from \in HeaderStates /\ r.to \in HeaderStates
  BY DEF HeaderRules, FoldRules, HeaderStates
<1>1. a > 1 /\ HeaderShape(r.from, s, a, n)
  BY <1>0, ShapeOf
<1> SUFFICES HeaderShape(r.to, s, a, n + 1)
  BY <1>0, <1>1, ShapeOf
<1> USE <1>1 DEF HeaderShape
<1>2. CASE headers # <<>> /\ r = R("header_line_start", {"SP", "HT"}, "header_lws", "nothing")
  BY <1>2 DEF Word, Text, Blank
<1>3. CASE r = R("header_line_start", {"CR"}, "expecting_newline_3", "nothing")
  BY <1>3
<1>4. CASE r = R("header_line_start", Token, "header_name", "header")
  BY <1>4 DEF Word, Text
<1>5. CASE r = R("header_lws", {"CR"}, "expecting_newline_2", "nothing")
  <2>1. FoldLine(s, a, n + 1)
    BY <1>5, BlankLine
  <2> QED BY <1>5, <2>1 DEF GoodLine
<1>6. CASE r = R("header_lws", {"SP", "HT"}, "header_lws", "nothing")
  BY <1>6 DEF Word, Text, Blank
<1>7. CASE r = R("header_lws", Char \ (IsCtl \cup {"SP"}), "header_value", "value")
  <2>1. FoldLine(s, a, n + 1)
    BY <1>7, BlankLine
  <2>2. s[n + 1] \in ValueChar /\ s[n + 1] \notin Blank
    BY <1>7 DEF ValueChar, Blank, IsCtl
  <2>3. GoodLine(s, a, n + 2)
    BY <1>7, <2>1, <2>2, GoodLineOn DEF GoodLine
  <2> QED BY <1>7, <2>2, <2>3
<1>8. CASE r = R("header_name", {":"}, "space_before_header_value", "nothing")
  BY <1>8
<1>9. CASE r = R("header_name", Token, "header_name", "name")
  BY <1>9 DEF Word, Text
<1>10. CASE r = R("space_before_header_value", {"SP"}, "header_value", "nothing")
  <2>1. HeaderLine(s, a, n + 2)
    BY <1>10 DEF HeaderLine, Word, Text
  <2>2. n \in a .. n + 1 /\ s[n] \notin Blank
    BY <1>10 DEF Word, Blank
  <2> QED BY <1>10, <2>1, <2>2 DEF GoodLine
<1>11. CASE r = R("header_value", {"CR"}, "expecting_newline_2", "nothing")
  BY <1>11
<1>12. CASE r = R("header_value", Char \ IsCtl, "header_value", "value")
  <2>1. GoodLine(s, a, n + 2)
    BY <1>12, GoodLineOn DEF ValueChar
  <2> QED BY <1>12, <2>1
<1> QED
  BY <1>2, <1>3, <1>4, <1>5, <1>6, <1>7, <1>8, <1>9, <1>10, <1>11, <1>12
     DEF HeaderRules, FoldRules

\* Where a LF leads, and that no other rule takes one.
LEMMA LineFeeds ==
  ASSUME NEW headers, NEW r \in Rules(headers)
  PROVE  \/ r.chars = {"LF"} /\ r.from \in {"expecting_newline_1", "expecting_newline_2"}
            /\ r.to = "header_line_start"
         \/ r.chars # {"LF"} /\ "LF" \notin r.chars
<1> USE DEF R, Token, IsChar, IsCtl, IsTspecial, IsDigit, Char
<1>1. CASE r \in RequestLineRules
  BY <1>1 DEF RequestLineRules
<1>2. CASE r \in VersionRules
  BY <1>2 DEF VersionRules
<1>3. CASE r \in HeaderRules(headers)
  BY <1>3 DEF HeaderRules, FoldRules
<1> QED BY <1>1, <1>2, <1>3 DEF Rules

\* A good line is not empty.
LEMMA NotEmpty ==
  ASSUME NEW s, NEW a \in Int, NEW b \in Int, GoodLine(s, a, b)
  PROVE  a < b
<1>1. CASE RequestLine(s, a, b)
  BY <1>1 DEF RequestLine
<1>2. CASE HeaderLine(s, a, b)
  <2>1. PICK colon \in a .. b - 2 : s[colon] = ":"
    BY <1>2 DEF HeaderLine
  <2> QED BY <2>1
<1>3. CASE FoldLine(s, a, b)
  <2>1. PICK i \in a .. b - 1 : Text(s, a, i, Blank)
    BY <1>3 DEF FoldLine
  <2> QED BY <2>1
<1> QED BY <1>1, <1>2, <1>3 DEF GoodLine

\* Character by character the parser follows the grammar.
LEMMA ReachedStep ==
  ASSUME NEW s \in Seq(Char), NEW n \in 0 .. Len(s) - 1, NEW a \in 1 .. n + 1,
         NEW headers, headers # <<>> => Heads(s, n) # {},
         NEW r \in Rules(headers), Reached(r.from, s, a, n), s[n + 1] \in r.chars
  PROVE  \E b \in 1 .. n + 2 : Reached(r.to, s, b, n + 1)
<1>1. InLine(s, a, n + 1) /\ GoodLines(s, a) /\ Shape(r.from, s, a, n)
  BY DEF Reached
<1>2. CASE r.chars = {"LF"}
  <2>1. /\ r.from \in {"expecting_newline_1", "expecting_newline_2"}
        /\ r.to = "header_line_start" /\ s[n + 1] = "LF"
    BY <1>2, LineFeeds
  <2>2. GoodLine(s, a, n) /\ s[n] = "CR" /\ a <= n
    <3>1. CASE r.from = "expecting_newline_1"
      <4>1. a = 1 /\ RequestLine(s, a, n) /\ s[n] = "CR"
        BY <1>1, <3>1, ShapeOf DEF VersionStates, VersionShape
      <4>2. GoodLine(s, a, n)
        BY <4>1 DEF GoodLine
      <4> QED BY <4>1, <4>2, NotEmpty
    <3>2. CASE r.from = "expecting_newline_2"
      <4>1. a > 1 /\ GoodLine(s, a, n) /\ s[n] = "CR"
        BY <1>1, <3>2, ShapeOf DEF HeaderStates, HeaderShape
      <4> QED BY <4>1, NotEmpty
    <3> QED BY <2>1, <3>1, <3>2
  <2>3. InLine(s, n + 2, n + 2) /\ GoodLines(s, n + 2)
    BY <1>1, <2>1, <2>2, NextLine DEF BreakAt
  <2>4. Shape(r.to, s, n + 2, n + 1)
    BY <2>1, ShapeOf DEF HeaderStates, HeaderShape
  <2>5. Reached(r.to, s, n + 2, n + 1)
    BY <2>3, <2>4 DEF Reached
  <2> QED BY <2>5
<1>3. CASE r.chars # {"LF"}
  <2>1. s[n + 1] # "LF"
    BY <1>3, LineFeeds
  <2>2. InLine(s, a, n + 2)
    BY <1>1, <2>1, SameLine
  <2>3. Shape(r.to, s, a, n + 1)
    BY <1>1, <1>3, RequestLineStep, VersionStep, HeaderStep DEF Rules
  <2>4. Reached(r.to, s, a, n + 1)
    BY <1>1, <2>2, <2>3 DEF Reached
  <2> QED BY <2>4
<1> QED BY <1>2, <1>3

\* The LF after an empty line ends a request.
LEMMA EndOfRequest ==
  ASSUME NEW s \in Seq(Char), NEW n \in 0 .. Len(s) - 1, NEW a \in 1 .. n + 1,
         Reached("expecting_newline_3", s, a, n), s[n + 1] = "LF"
  PROVE  Ends(s, n + 1)
<1>1. a > 1 /\ n = a /\ s[n] = "CR"
  BY ShapeOf DEF Reached, HeaderStates, HeaderShape
<1>2. BreakAt(s, a - 2) /\ GoodLines(s, a)
  BY <1>1 DEF Reached, InLine, StartAt
<1>3. BreakAt(s, n)
  BY <1>1 DEF BreakAt
<1> QED BY <1>1, <1>2, <1>3 DEF Ends

-----------------------------------------------------------------------------
(* What goes on to the end of a request is accepted.                        *)

Takes(rules, q, c) == \E r \in rules : r.from = q /\ c \in r.chars

\* There is no CR in a good line.
LEMMA NoReturn ==
  ASSUME NEW s, NEW a \in Int, NEW b \in Int, GoodLine(s, a, b), NEW p \in a .. b - 1
  PROVE  s[p] # "CR"
<1> USE DEF Token, IsChar, IsCtl, IsTspecial, IsDigit, UriChar, ValueChar, Blank, Text, Word
<1>1. CASE RequestLine(s, a, b)
  <2>1. PICK x \in a .. b - 1, y \in a .. b - 1 :
          /\ s[x] = "SP" /\ s[y] = "SP" /\ Word(s, a, x - 1, Token)
          /\ x < y /\ Text(s, x + 1, y - 1, UriChar) /\ HttpVersion(s, y, b)
    BY <1>1 DEF RequestLine
  <2>2. PICK dot \in y + 6 .. b - 1 :
          /\ s[y + 1] = "H" /\ s[y + 2] = "T" /\ s[y + 3] = "T" /\ s[y + 4] = "P"
          /\ s[y + 5] = "/" /\ s[dot] = "."
          /\ Word(s, y + 6, dot - 1, IsDigit) /\ Word(s, dot + 1, b - 1, IsDigit)
    BY <2>1 DEF HttpVersion
  <2>3. CASE p <= y
    BY <2>1, <2>3
  <2>4. CASE p > y
    BY <2>2, <2>4
  <2> QED BY <2>3, <2>4
<1>2. CASE HeaderLine(s, a, b)
  <2>1. PICK colon \in a .. b - 2 :
          /\ s[colon] = ":" /\ s[colon + 1] = "SP"
          /\ Word(s, a, colon - 1, Token) /\ Text(s, colon + 2, b - 1, ValueChar)
    BY <1>2 DEF HeaderLine
  <2> QED BY <2>1
<1>3. CASE FoldLine(s, a, b)
  <2>1. PICK i \in a .. b - 1 : Text(s, a, i, Blank) /\ Text(s, i + 1, b - 1, ValueChar)
    BY <1>3 DEF FoldLine
  <2> QED BY <2>1
<1> QED BY <1>1, <1>2, <1>3 DEF GoodLine

\* A line has one method and one URI.
LEMMA OneMethod ==
  ASSUME NEW s, NEW x \in Nat \ {0}, NEW z \in Nat \ {0}, MethodTo(s, x), MethodTo(s, z)
  PROVE  x = z
BY DEF MethodTo, Word, Text, Token, IsTspecial

\* A line has one URI at most.
LEMMA OneUri ==
  ASSUME NEW s, NEW x \in Nat \ {0}, NEW z \in Nat \ {0}, NEW y \in Nat, NEW t \in Nat,
         UriTo(s, x, y), UriTo(s, z, t)
  PROVE  x = z /\ y = t
<1>1. x = z
  BY OneMethod DEF UriTo
<1> QED BY <1>1 DEF UriTo, Text, UriChar

\* A request line, in the words of the parser's states.
LEMMA RequestLineParts ==
  ASSUME NEW s, NEW b \in Int, RequestLine(s, 1, b)
  PROVE  \E x, y \in 1 .. b - 1, dot \in 1 .. b - 1 :
           /\ UriTo(s, x, y) /\ Letters(s, y, 5)
           /\ dot \in y + 6 .. b - 1 /\ s[dot] = "."
           /\ Word(s, y + 6, dot - 1, IsDigit) /\ Word(s, dot + 1, b - 1, IsDigit)
<1>1. PICK x \in 1 .. b - 1, y \in 1 .. b - 1 :
        /\ s[x] = "SP" /\ s[y] = "SP" /\ Word(s, 1, x - 1, Token)
        /\ x < y /\ Text(s, x + 1, y - 1, UriChar) /\ HttpVersion(s, y, b)
  BY DEF RequestLine
<1>2. PICK dot \in y + 6 .. b - 1 :
        /\ s[y + 1] = "H" /\ s[y + 2] = "T" /\ s[y + 3] = "T" /\ s[y + 4] = "P"
        /\ s[y + 5] = "/" /\ s[dot] = "."
        /\ Word(s, y + 6, dot - 1, IsDigit) /\ Word(s, dot + 1, b - 1, IsDigit)
  BY <1>1 DEF HttpVersion
<1>3. UriTo(s, x, y) /\ Letters(s, y, 5)
  BY <1>1, <1>2 DEF UriTo, MethodTo, Letters
<1>4. dot \in 1 .. b - 1
  BY <1>1, <1>2
<1> QED BY <1>1, <1>2, <1>3, <1>4

\* What the grammar goes on with, some rule of the state takes: no request is
\* refused. Of the method and the URI, of the version, and of the header lines.
LEMMA RequestLineGoesOn ==
  ASSUME NEW s \in Seq(Char), NEW n \in 0 .. Len(s) - 1, NEW q \in RequestLineStates,
         RequestShape(q, s, n), NEW b \in n .. Len(s) - 1, RequestLine(s, 1, b)
  PROVE  Takes(RequestLineRules, q, s[n + 1])
<1> USE DEF Takes, RequestLineRules, R
<1>1. PICK x \in 1 .. b - 1, y \in 1 .. b - 1 : UriTo(s, x, y)
  BY RequestLineParts
<1>2. s[x] = "SP" /\ Word(s, 1, x - 1, Token) /\ x < y
      /\ s[y] = "SP" /\ Text(s, x + 1, y - 1, UriChar)
  BY <1>1 DEF UriTo, MethodTo
<1>3. CASE q = "method_start"
  <2>1. s[n + 1] \in Token
    BY <1>2, <1>3 DEF RequestShape, Word, Text
  <2> QED BY <1>3, <2>1
<1>4. CASE q = "method"
  <2>1. x > n
    BY <1>2, <1>4 DEF RequestShape, Word, Text, Token, IsTspecial
  <2>2. s[n + 1] = "SP" \/ s[n + 1] \in Token
    BY <1>2, <2>1 DEF Word, Text
  <2> QED BY <1>4, <2>2
<1>5. CASE q = "uri"
  <2>1. PICK z \in 1 .. n : MethodTo(s, z) /\ Text(s, z + 1, n, UriChar)
    BY <1>5 DEF RequestShape
  <2>2. z = x
    BY <1>1, <2>1, OneMethod DEF UriTo
  <2>3. y > n
    BY <1>2, <2>1, <2>2 DEF Text, UriChar
  <2>4. s[n + 1] = "SP" \/ s[n + 1] \in UriChar
    BY <1>2, <2>1, <2>2, <2>3 DEF Text
  <2> QED BY <1>5, <2>4 DEF UriChar
<1> QED BY <1>3, <1>4, <1>5 DEF RequestLineStates

\* The same of the version.
LEMMA VersionGoesOn ==
  ASSUME NEW s \in Seq(Char), NEW n \in 0 .. Len(s) - 1, NEW q \in VersionStates,
         VersionShape(q, s, n), NEW b \in n .. Len(s) - 1, BreakAt(s, b),
         RequestLine(s, 1, b)
  PROVE  Takes(VersionRules, q, s[n + 1])
<1> USE DEF Takes, VersionRules, R
<1>1. PICK x \in 1 .. b - 1, y \in 1 .. b - 1, dot \in 1 .. b - 1 :
        /\ UriTo(s, x, y) /\ Letters(s, y, 5)
        /\ dot \in y + 6 .. b - 1 /\ s[dot] = "."
        /\ Word(s, y + 6, dot - 1, IsDigit) /\ Word(s, dot + 1, b - 1, IsDigit)
  BY RequestLineParts
<1>2. ASSUME NEW z \in Nat, NEW t \in Nat, z \in 1 .. n, UriTo(s, z, t) PROVE t = y
  BY <1>1, <1>2, OneUri
<1>3. s[y + 1] = "H" /\ s[y + 2] = "T" /\ s[y + 3] = "T" /\ s[y + 4] = "P" /\ s[y + 5] = "/"
  BY <1>1 DEF Letters
<1>4. ASSUME NEW k \in 0 .. 5, VersionTo(s, n, k) PROVE n = y + k
  <2>1. PICK z \in 1 .. n, t \in 1 .. n : UriTo(s, z, t) /\ n = t + k
    BY <1>4 DEF VersionTo
  <2> QED BY <1>2, <2>1
<1>5. CASE q = "http_version_h"
  BY <1>3, <1>4, <1>5 DEF VersionShape
<1>6. CASE q = "http_version_t_1"
  BY <1>3, <1>4, <1>6 DEF VersionShape
<1>7. CASE q = "http_version_t_2"
  BY <1>3, <1>4, <1>7 DEF VersionShape
<1>8. CASE q = "http_version_p"
  BY <1>3, <1>4, <1>8 DEF VersionShape
<1>9. CASE q = "http_version_slash"
  BY <1>3, <1>4, <1>9 DEF VersionShape
<1>10. CASE q = "http_version_major_start"
  <2>1. n = y + 5
    BY <1>4, <1>10 DEF VersionShape
  <2>2. s[n + 1] \in IsDigit
    BY <1>1, <2>1 DEF Word, Text
  <2> QED BY <1>10, <2>2
<1>11. CASE q = "http_version_major"
  <2>1. PICK z \in 1 .. n, t \in 1 .. n : UriTo(s, z, t) /\ Word(s, t + 6, n, IsDigit)
    BY <1>11 DEF VersionShape
  <2>2. y + 6 <= n /\ Text(s, y + 6, n, IsDigit)
    BY <1>2, <2>1 DEF Word
  <2>3. dot > n
    BY <1>1, <2>2 DEF Text, IsDigit
  <2>4. s[n + 1] = "." \/ s[n + 1] \in IsDigit
    BY <1>1, <2>2, <2>3 DEF Word, Text
  <2> QED BY <1>11, <2>4
<1>12. CASE q = "http_version_minor_start"
  <2>1. PICK z \in 1 .. n, t \in 1 .. n :
          UriTo(s, z, t) /\ Word(s, t + 6, n - 1, IsDigit) /\ s[n] = "."
    BY <1>12 DEF VersionShape
  <2>2. y + 6 <= n - 1 /\ Text(s, y + 6, n - 1, IsDigit)
    BY <1>2, <2>1 DEF Word
  <2>3. dot = n
    BY <1>1, <2>1, <2>2 DEF Word, Text, IsDigit
  <2>4. s[n + 1] \in IsDigit
    BY <1>1, <2>3 DEF Word, Text
  <2> QED BY <1>12, <2>4
<1>13. CASE q = "http_version_minor"
  <2>1. PICK z \in 1 .. (n + 1) - 1, t \in 1 .. (n + 1) - 1, d \in 1 .. (n + 1) - 1 :
          /\ UriTo(s, z, t) /\ Letters(s, t, 5)
          /\ d \in t + 6 .. (n + 1) - 1 /\ s[d] = "."
          /\ Word(s, t + 6, d - 1, IsDigit) /\ Word(s, d + 1, (n + 1) - 1, IsDigit)
    BY <1>13, RequestLineParts, SMTT(30) DEF VersionShape
  <2>2. d \in y + 6 .. n /\ Word(s, y + 6, d - 1, IsDigit) /\ Word(s, d + 1, n, IsDigit)
    BY <1>2, <2>1
  <2>3. d = dot
    BY <1>1, <2>1, <2>2 DEF Word, Text, IsDigit
  <2>4. b > n
    BY <2>2 DEF BreakAt, Word, Text, IsDigit
  <2>5. s[n + 1] = "CR" \/ s[n + 1] \in IsDigit
    BY <1>1, <2>2, <2>3, <2>4 DEF BreakAt, Word, Text
  <2> QED BY <1>13, <2>5
<1>14. CASE q = "expecting_newline_1"
  <2>1. n \notin 1 .. b - 1
    BY <1>14, NoReturn DEF VersionShape, GoodLine
  <2>2. b = n
    BY <1>14, <2>1, NotEmpty DEF VersionShape, GoodLine
  <2> QED BY <1>14, <2>2 DEF BreakAt
<1> QED
  BY <1>5, <1>6, <1>7, <1>8, <1>9, <1>10, <1>11, <1>12, <1>13, <1>14 DEF VersionStates

\* What the table takes in each state of the headers.
LEMMA HeaderTakes ==
  ASSUME NEW headers, NEW c \in Char
  PROVE  /\ c \in {"CR"} \cup Token => Takes(HeaderRules(headers), "header_line_start", c)
         /\ headers # <<>> /\ c \in Blank =>
              Takes(HeaderRules(headers), "header_line_start", c)
         /\ c \in {"CR"} \cup Blank \cup ValueChar =>
              Takes(HeaderRules(headers), "header_lws", c)
         /\ c \in {":"} \cup Token => Takes(HeaderRules(headers), "header_name", c)
         /\ c = "SP" => Takes(HeaderRules(headers), "space_before_header_value", c)
         /\ c \in {"CR"} \cup ValueChar => Takes(HeaderRules(headers), "header_value", c)
         /\ c = "LF" => Takes(HeaderRules(headers), "expecting_newline_2", c)
<1> DEFINE Has(from, chars) ==
      \E to, push : R(from, chars, to, push) \in HeaderRules(headers)
<1>1. /\ Has("header_line_start", {"CR"}) /\ Has("header_line_start", Token)
      /\ Has("header_lws", {"CR"}) /\ Has("header_lws", {"SP", "HT"})
      /\ Has("header_lws", Char \ (IsCtl \cup {"SP"}))
  BY DEF HeaderRules
<1>2. headers # <<>> => Has("header_line_start", {"SP", "HT"})
  BY DEF HeaderRules, FoldRules
<1>3. /\ Has("header_name", {":"}) /\ Has("header_name", Token)
      /\ Has("space_before_header_value", {"SP"}) /\ Has("header_value", {"CR"})
      /\ Has("header_value", Char \ IsCtl) /\ Has("expecting_newline_2", {"LF"})
  BY DEF HeaderRules
<1>4. ASSUME NEW from, NEW chars, Has(from, chars), c \in chars
      PROVE  Takes(HeaderRules(headers), from, c)
  BY <1>4 DEF Takes, R
<1> HIDE DEF Has
<1> QED BY <1>1, <1>2, <1>3, <1>4 DEF Blank, ValueChar

\* The same of the header lines.
LEMMA HeaderGoesOn ==
  ASSUME NEW s \in Seq(Char), NEW n \in 0 .. Len(s) - 1, NEW a \in 2 .. n + 1,
         NEW headers, headers = <<>> => Heads(s, n) = {},
         NEW q \in HeaderStates, HeaderShape(q, s, a, n),
         NEW b \in n .. Len(s) - 1, a <= b, BreakAt(s, b), GoodLine(s, a, b)
  PROVE  Takes(HeaderRules(headers), q, s[n + 1])
<1>0. s[b] = "CR" /\ s[b + 1] = "LF" /\ s[n + 1] \in Char
  BY DEF BreakAt
<1>1. \/ \E colon \in a .. b - 2 :
           /\ s[colon] = ":" /\ s[colon + 1] = "SP" /\ s[a] \in Token
           /\ Word(s, a, colon - 1, Token) /\ Text(s, colon + 2, b - 1, ValueChar)
      \/ /\ Heads(s, a - 1) # {} /\ s[a] \in Blank
         /\ \E i \in a .. b - 1 : Text(s, a, i, Blank) /\ Text(s, i + 1, b - 1, ValueChar)
  <2>1. CASE HeaderLine(s, a, b)
    BY <2>1 DEF HeaderLine, Word, Text
  <2>2. CASE Heads(s, a - 1) # {} /\ FoldLine(s, a, b)
    <3>1. PICK i \in a .. b - 1 : Text(s, a, i, Blank) /\ Text(s, i + 1, b - 1, ValueChar)
      BY <2>2 DEF FoldLine
    <3>2. s[a] \in Blank
      BY <3>1 DEF Text
    <3> QED BY <2>2, <3>1, <3>2
  <2> QED BY <2>1, <2>2 DEF GoodLine
<1>2. CASE q = "header_line_start"
  <2>1. n + 1 = a
    BY <1>2 DEF HeaderShape
  <2>2. CASE s[a] \in Token
    BY <1>0, <1>2, <2>1, <2>2, HeaderTakes
  <2>3. CASE Heads(s, a - 1) # {} /\ s[a] \in Blank
    <3>1. Heads(s, n) # {}
      BY <2>1, <2>3
    <3> QED BY <1>0, <1>2, <2>1, <2>3, <3>1, HeaderTakes
  <2> QED BY <1>1, <2>2, <2>3
<1>3. CASE q = "header_lws"
  <2>1. a <= n /\ Text(s, a, n, Blank)
    BY <1>3 DEF HeaderShape, Word
  <2>2. b > n
    BY <1>0, <2>1 DEF Text, Blank
  <2>3. s[a] \in Blank /\ s[a] \notin Token
    BY <2>1 DEF Text, Blank, Token, IsTspecial
  <2>4. s[n + 1] \in {"CR"} \cup Blank \cup ValueChar
    BY <1>0, <1>1, <2>2, <2>3 DEF Text
  <2> QED BY <1>0, <1>3, <2>4, HeaderTakes
<1>4. CASE q = "header_name"
  <2>1. a <= n /\ Text(s, a, n, Token)
    BY <1>4 DEF HeaderShape, Word
  <2>2. s[a] \notin Blank
    BY <2>1 DEF Text, Blank, Token, IsTspecial
  <2>3. PICK colon \in a .. b - 2 : s[colon] = ":" /\ Text(s, a, colon - 1, Token)
    BY <1>1, <2>2 DEF Word
  <2>4. colon > n
    BY <2>1, <2>3 DEF Text, Token, IsTspecial
  <2>5. s[n + 1] = ":" \/ s[n + 1] \in Token
    BY <2>1, <2>3, <2>4 DEF Text
  <2> QED BY <1>0, <1>4, <2>5, HeaderTakes
<1>5. CASE q = "space_before_header_value"
  <2>1. a <= n - 1 /\ Text(s, a, n - 1, Token) /\ s[n] = ":"
    BY <1>5 DEF HeaderShape, Word
  <2>2. s[a] \notin Blank
    BY <2>1 DEF Text, Blank, Token, IsTspecial
  <2>3. PICK colon \in a .. b - 2 :
          s[colon] = ":" /\ s[colon + 1] = "SP" /\ Text(s, a, colon - 1, Token)
    BY <1>1, <2>2 DEF Word
  <2>4. colon = n
    BY <2>1, <2>3 DEF Text, Token, IsTspecial
  <2> QED BY <1>0, <1>5, <2>3, <2>4, HeaderTakes
<1>6. CASE q = "header_value"
  <2>1. GoodLine(s, a, n + 1) /\ \E i \in a .. n : s[i] \notin Blank
    BY <1>6 DEF HeaderShape
  <2>2. b > n
    <3>1. a <= n
      BY <2>1, NotEmpty
    <3>2. s[n] # "CR"
      BY <2>1, <3>1, NoReturn
    <3> QED BY <1>0, <3>2
  <2>3. CASE b = n + 1
    BY <1>0, <1>6, <2>3, HeaderTakes
  <2>4. CASE b > n + 1
    <3>1. CASE HeaderLine(s, a, n + 1)
      <4>1. PICK c \in a .. (n + 1) - 2 : s[c] = ":" /\ Word(s, a, c - 1, Token)
        BY <3>1 DEF HeaderLine
      <4>2. s[a] \notin Blank
        BY <4>1 DEF Word, Text, Blank, Token, IsTspecial
      <4>3. PICK colon \in a .. b - 2 :
              /\ s[colon] = ":" /\ Word(s, a, colon - 1, Token)
              /\ Text(s, colon + 2, b - 1, ValueChar)
        BY <1>1, <4>2
      <4>4. c = colon
        BY <4>1, <4>3 DEF Word, Text, Token, IsTspecial
      <4>5. s[n + 1] \in ValueChar
        BY <2>4, <4>1, <4>3, <4>4 DEF Text
      <4> QED BY <1>0, <1>6, <4>5, HeaderTakes
    <3>2. CASE FoldLine(s, a, n + 1)
      <4>1. PICK c \in a .. (n + 1) - 1 : Text(s, a, c, Blank)
        BY <3>2 DEF FoldLine
      <4>2. s[a] \in Blank /\ s[a] \notin Token
        BY <4>1 DEF Text, Blank, Token, IsTspecial
      <4>3. PICK i \in a .. b - 1 : Text(s, a, i, Blank) /\ Text(s, i + 1, b - 1, ValueChar)
        BY <1>1, <4>2
      <4>4. i <= n
        BY <2>1, <4>3 DEF Text
      <4>5. s[n + 1] \in ValueChar
        BY <2>4, <4>3, <4>4 DEF Text
      <4> QED BY <1>0, <1>6, <4>5, HeaderTakes
    <3> QED BY <2>1, <3>1, <3>2 DEF GoodLine
  <2> QED BY <2>2, <2>3, <2>4
<1>7. CASE q = "expecting_newline_2"
  <2>1. GoodLine(s, a, n) /\ s[n] = "CR"
    BY <1>7 DEF HeaderShape
  <2>2. n \notin a .. b - 1
    BY <2>1, NoReturn
  <2>3. b = n
    BY <2>1, <2>2, NotEmpty
  <2> QED BY <1>0, <1>7, <2>3, HeaderTakes
<1>8. CASE q = "expecting_newline_3"
  <2>1. n = a /\ s[a] = "CR"
    BY <1>8 DEF HeaderShape
  <2>2. a < b
    BY NotEmpty
  <2>3. FALSE
    BY <2>1, <2>2, NoReturn
  <2> QED BY <2>3
<1> QED
  BY <1>2, <1>3, <1>4, <1>5, <1>6, <1>7, <1>8 DEF HeaderStates

\* The parser refuses no character on the way to the end of a request.
LEMMA GoesOn ==
  ASSUME NEW s \in Seq(Char), NEW n \in 0 .. Len(s) - 1, NEW a \in 1 .. n + 1,
         NEW headers, headers = <<>> => Heads(s, n) = {},
         NEW q, Reached(q, s, a, n), NEW m \in n + 1 .. Len(s), Ends(s, m)
  PROVE  \/ q = "expecting_newline_3" /\ s[n + 1] = "LF"
         \/ Takes(Rules(headers), q, s[n + 1])
<1>1. ASSUME NEW rules \in {RequestLineRules, VersionRules, HeaderRules(headers)},
             Takes(rules, q, s[n + 1])
      PROVE  Takes(Rules(headers), q, s[n + 1])
  BY <1>1 DEF Takes, Rules
<1>2. InLine(s, a, n + 1) /\ Shape(q, s, a, n)
  BY DEF Reached
<1>3. CASE a = m - 1 /\ a > 1 /\ s[a] = "CR" /\ s[a + 1] = "LF"
  <2>1. q \in HeaderStates /\ HeaderShape(q, s, a, n)
    BY <1>2, <1>3 DEF Shape
  <2>2. n = a - 1 \/ n = a
    BY <1>3
  <2>3. CASE n = a - 1
    <3>1. q = "header_line_start"
      BY <2>1, <2>3, NotEmpty DEF HeaderStates, HeaderShape, Word
    <3>2. Takes(HeaderRules(headers), q, s[n + 1])
      BY <1>3, <2>3, <3>1, HeaderTakes
    <3> QED BY <1>1, <3>2
  <2>4. CASE n = a
    <3>1. s[a] \notin Blank /\ s[a] \notin Token
      BY <1>3 DEF Blank, Token, IsCtl
    <3>2. q # "header_value"
      <4> SUFFICES ASSUME GoodLine(s, a, n + 1) PROVE FALSE
        BY <2>1 DEF HeaderShape
      <4> QED BY <1>3, <2>4, NoReturn
    <3>3. q = "expecting_newline_3"
      BY <2>1, <2>4, <3>1, <3>2, NotEmpty DEF HeaderStates, HeaderShape, Word, Text
    <3> QED BY <1>3, <2>4, <3>3
  <2> QED BY <2>2, <2>3, <2>4
<1>4. CASE \E b \in n .. Len(s) - 1 : a <= b /\ BreakAt(s, b) /\ GoodLine(s, a, b)
  <2>1. PICK b \in n .. Len(s) - 1 : a <= b /\ BreakAt(s, b) /\ GoodLine(s, a, b)
    BY <1>4
  <2>2. CASE q \in RequestLineStates /\ a = 1 /\ RequestShape(q, s, n)
    <3>1. Takes(RequestLineRules, q, s[n + 1])
      BY <2>1, <2>2, RequestLineGoesOn DEF GoodLine
    <3> QED BY <1>1, <3>1
  <2>3. CASE q \in VersionStates /\ a = 1 /\ VersionShape(q, s, n)
    <3>1. Takes(VersionRules, q, s[n + 1])
      BY <2>1, <2>3, VersionGoesOn DEF GoodLine
    <3> QED BY <1>1, <3>1
  <2>4. CASE q \in HeaderStates /\ a > 1 /\ HeaderShape(q, s, a, n)
    <3>1. Takes(HeaderRules(headers), q, s[n + 1])
      BY <2>1, <2>4, HeaderGoesOn
    <3> QED BY <1>1, <3>1
  <2> QED BY <1>2, <2>2, <2>3, <2>4 DEF Shape
<1> QED BY <1>2, <1>3, <1>4, CurrentLine

-----------------------------------------------------------------------------
(* What the parser pushes is what the grammar reads.                        *)

\* To which part of the request the grammar adds the n-th character of s.
Belongs(s, n, part) ==
  /\ n \in MethodAt(s, n) <=> part = "method"
  /\ n \in UriAt(s, n) <=> part = "uri"
  /\ HeadAt(s, n) <=> part = "header"
  /\ (\E h \in Heads(s, n - 1) : n \in NameAt(s, h, n)) <=> part = "name"
  /\ (\E h \in Heads(s, n - 1) : n \in ValueAt(s, h, n)) <=> part = "value"

\* A header is its name and its value.
LEMMA HeaderIs ==
  ASSUME NEW h \in Header, NEW x
  PROVE  /\ [h EXCEPT !.name = x] = [name |-> x, value |-> h.value]
         /\ [h EXCEPT !.value = x] = [name |-> h.name, value |-> x]
<1>1. h = [name |-> h.name, value |-> h.value]
  BY DEF Header
<1> QED BY <1>1

\* What headers.back() gets.
LEMMA PushName ==
  ASSUME NEW rq \in Request, NEW c \in Char, rq.headers # <<>>
  PROVE  LET last == Len(rq.headers)
             h == rq.headers[last]
         IN  Push(rq, "name", c) =
               [method |-> rq.method, uri |-> rq.uri,
                headers |-> [rq.headers EXCEPT ![last] =
                               [name |-> Append(h.name, c), value |-> h.value]]]
<1> DEFINE last == Len(rq.headers)
           h == rq.headers[last]
           new == [h EXCEPT !.name = Append(h.name, c)]
<1>1. last \in 1 .. Len(rq.headers) /\ h \in Header
  BY DEF Request
<1>2. Push(rq, "name", c) = [rq EXCEPT !.headers = [rq.headers EXCEPT ![last] = new]]
  BY DEF Push
<1>3. new = [name |-> Append(h.name, c), value |-> h.value]
  BY <1>1, HeaderIs
<1>4. rq = [method |-> rq.method, uri |-> rq.uri, headers |-> rq.headers]
  BY DEF Request
<1> HIDE DEF new, h
<1> QED BY <1>2, <1>3, <1>4 DEF h

\* What push_back does to the value of the last header.
LEMMA PushValue ==
  ASSUME NEW rq \in Request, NEW c \in Char, rq.headers # <<>>
  PROVE  LET last == Len(rq.headers)
             h == rq.headers[last]
         IN  Push(rq, "value", c) =
               [method |-> rq.method, uri |-> rq.uri,
                headers |-> [rq.headers EXCEPT ![last] =
                               [name |-> h.name, value |-> Append(h.value, c)]]]
<1> DEFINE last == Len(rq.headers)
           h == rq.headers[last]
           new == [h EXCEPT !.value = Append(h.value, c)]
<1>1. last \in 1 .. Len(rq.headers) /\ h \in Header
  BY DEF Request
<1>2. Push(rq, "value", c) = [rq EXCEPT !.headers = [rq.headers EXCEPT ![last] = new]]
  BY DEF Push
<1>3. new = [name |-> h.name, value |-> Append(h.value, c)]
  BY <1>1, HeaderIs
<1>4. rq = [method |-> rq.method, uri |-> rq.uri, headers |-> rq.headers]
  BY DEF Request
<1> HIDE DEF new, h
<1> QED BY <1>2, <1>3, <1>4 DEF h

\* To add a character to the part it belongs to is to go on with the meaning.
LEMMA PushesMeaning ==
  ASSUME NEW s \in Seq(Char), NEW n \in 1 .. Len(s), NEW part \in Part,
         Belongs(s, n, part), part = "header" => s[n] # ":",
         Meaning(s, n - 1) \in Request
  PROVE  Push(Meaning(s, n - 1), part, s[n]) = Meaning(s, n)
<1> DEFINE H == Heads(s, n - 1)
           C == Cardinality(H)
           old == Meaning(s, n - 1)
           new == Meaning(s, n)
<1>0. n - 1 \in Nat /\ n \in Nat /\ n = (n - 1) + 1 /\ H \subseteq 1 .. n - 1
  BY DEF Heads
<1>1. Positions(H) /\ C \in Nat
  BY <1>0, PositionsTo, RankTyped
<1>2. /\ old.headers = [k \in 1 .. C |-> HeaderAt(s, Nth(H, k), n - 1)]
      /\ Len(old.headers) = C /\ old.headers \in Seq(Header)
      /\ old.method = Read(s, MethodAt(s, n - 1)) /\ old.uri = Read(s, UriAt(s, n - 1))
      /\ old = [method |-> old.method, uri |-> old.uri, headers |-> old.headers]
  BY <1>1 DEF Meaning, Request
<1>3. /\ new.method = IF part = "method" THEN Append(old.method, s[n]) ELSE old.method
      /\ new.uri = IF part = "uri" THEN Append(old.uri, s[n]) ELSE old.uri
      /\ new = [method |-> new.method, uri |-> new.uri, headers |-> new.headers]
  BY <1>2, MethodGrows, UriGrows DEF Meaning, Belongs
<1>4. CASE part # "header"
  <2>1. ~HeadAt(s, n)
    BY <1>4 DEF Belongs
  <2>2. Heads(s, n) = H
    BY <2>1 DEF Heads
  <2>3. new.headers = [k \in 1 .. C |-> HeaderAt(s, Nth(H, k), n)]
    BY <2>2 DEF Meaning
  <2> HIDE DEF old, new
  <2>4. CASE part \notin {"name", "value"}
    <3>1. new.headers = old.headers
      <4> SUFFICES ASSUME NEW k \in 1 .. C
                   PROVE  HeaderAt(s, Nth(H, k), n) = HeaderAt(s, Nth(H, k), n - 1)
        BY <1>2, <2>3
      <4>1. Nth(H, k) \in H /\ Nth(H, k) \in 1 .. n
        BY HeadersGrow
      <4>2. n \notin NameAt(s, Nth(H, k), n) /\ n \notin ValueAt(s, Nth(H, k), n)
        BY <2>4, <4>1 DEF Belongs
      <4> QED BY <4>1, <4>2, HeaderGrows
    <3>2. CASE part = "nothing"
      BY <1>2, <1>3, <3>1, <3>2 DEF Push, old, new
    <3>3. CASE part = "method"
      <4>1. Push(old, part, s[n]) = [old EXCEPT !.method = Append(old.method, s[n])]
        BY <3>3 DEF Push
      <4> QED BY <1>2, <1>3, <3>1, <3>3, <4>1 DEF old, new
    <3>4. CASE part = "uri"
      <4>1. Push(old, part, s[n]) = [old EXCEPT !.uri = Append(old.uri, s[n])]
        BY <3>4 DEF Push
      <4> QED BY <1>2, <1>3, <3>1, <3>4, <4>1 DEF old, new
    <3> QED BY <1>4, <2>4, <3>2, <3>3, <3>4 DEF Part
  <2>5. CASE part = "name"
    <3>1. PICK g \in H : n \in NameAt(s, g, n)
      BY <2>5 DEF Belongs
    <3>2. g = Nth(H, C) /\ C \in 1 .. C
      <4>1. C # 0
        BY <1>1, <3>1, FS_EmptySet DEF Positions
      <4> QED BY <1>1, <3>1, <4>1, OnlyLastGrows
    <3>3. n \notin ValueAt(s, g, n) /\ g \in 1 .. n
      BY <1>0, <2>5, <3>1 DEF Belongs
    <3>4. HeaderAt(s, g, n) = [name |-> Append(HeaderAt(s, g, n - 1).name, s[n]),
                             value |-> HeaderAt(s, g, n - 1).value]
      BY <3>1, <3>3, HeaderGrows
    <3>5. \A k \in 1 .. C : k # C => HeaderAt(s, Nth(H, k), n) = HeaderAt(s, Nth(H, k), n - 1)
      BY HeadersGrow
    <3> HIDE DEF C, H
    <3>6. new.headers = [old.headers EXCEPT ![C] = HeaderAt(s, g, n)]
      BY <1>2, <2>3, <3>2, <3>5, SMTT(30)
    <3>7. old.headers[C] = HeaderAt(s, g, n - 1) /\ old.headers[C] \in Header
      BY <1>2, <3>2
    <3>8. Push(old, part, s[n]) =
            [method |-> old.method, uri |-> old.uri,
             headers |-> [old.headers EXCEPT ![C] = [name |-> Append(old.headers[C].name, s[n]),
                           value |-> old.headers[C].value]]]
      <4>1. old \in Request /\ s[n] \in Char /\ old.headers # <<>>
        BY <1>2, <3>2 DEF old
      <4> QED BY <1>2, <2>5, <4>1, PushName
    <3>9. Push(old, part, s[n]) = [method |-> old.method, uri |-> old.uri, headers |-> new.headers]
      BY <3>4, <3>6, <3>7, <3>8
    <3> QED BY <1>3, <2>5, <3>9 DEF old, new
  <2>6. CASE part = "value"
    <3>1. PICK g \in H : n \in ValueAt(s, g, n)
      BY <2>6 DEF Belongs
    <3>2. g = Nth(H, C) /\ C \in 1 .. C
      <4>1. C # 0
        BY <1>1, <3>1, FS_EmptySet DEF Positions
      <4> QED BY <1>1, <3>1, <4>1, OnlyLastGrows
    <3>3. n \notin NameAt(s, g, n) /\ g \in 1 .. n
      BY <1>0, <2>6, <3>1 DEF Belongs
    <3>4. HeaderAt(s, g, n) = [name |-> HeaderAt(s, g, n - 1).name,
                             value |-> Append(HeaderAt(s, g, n - 1).value, s[n])]
      BY <3>1, <3>3, HeaderGrows
    <3>5. \A k \in 1 .. C : k # C => HeaderAt(s, Nth(H, k), n) = HeaderAt(s, Nth(H, k), n - 1)
      BY HeadersGrow
    <3> HIDE DEF C, H
    <3>6. new.headers = [old.headers EXCEPT ![C] = HeaderAt(s, g, n)]
      BY <1>2, <2>3, <3>2, <3>5, SMTT(30)
    <3>7. old.headers[C] = HeaderAt(s, g, n - 1) /\ old.headers[C] \in Header
      BY <1>2, <3>2
    <3>8. Push(old, part, s[n]) =
            [method |-> old.method, uri |-> old.uri,
             headers |-> [old.headers EXCEPT ![C] = [name |-> old.headers[C].name,
                           value |-> Append(old.headers[C].value, s[n])]]]
      <4>1. old \in Request /\ s[n] \in Char /\ old.headers # <<>>
        BY <1>2, <3>2 DEF old
      <4> QED BY <1>2, <2>6, <4>1, PushValue
    <3>9. Push(old, part, s[n]) = [method |-> old.method, uri |-> old.uri, headers |-> new.headers]
      BY <3>4, <3>6, <3>7, <3>8
    <3> QED BY <1>3, <2>6, <3>9 DEF old, new
  <2> QED BY <2>4, <2>5, <2>6
<1>5. CASE part = "header"
  <2>1. HeadAt(s, n) /\ s[n] # ":" /\ s[n] \in Char
    BY <1>5 DEF Belongs
  <2>2. Heads(s, n) = H \cup {n}
    BY <2>1 DEF Heads
  <2>3. Cardinality(H \cup {n}) = C + 1 /\ Nth(H \cup {n}, C + 1) = n
        /\ \A k \in 1 .. C : Nth(H \cup {n}, k) = Nth(H, k)
    <3>1. \A p \in H : p < n
      BY <1>0
    <3> QED BY <1>0, <1>1, <3>1, NthOn
  <2>4. ASSUME NEW k \in 1 .. C
        PROVE  HeaderAt(s, Nth(H, k), n) = HeaderAt(s, Nth(H, k), n - 1)
    <3>1. Nth(H, k) \in H /\ Nth(H, k) \in 1 .. n
      BY HeadersGrow
    <3>2. n \notin NameAt(s, Nth(H, k), n) /\ n \notin ValueAt(s, Nth(H, k), n)
      BY <1>5, <3>1 DEF Belongs
    <3> QED BY <3>1, <3>2, HeaderGrows
  <2> DEFINE e == [name |-> <<s[n]>>, value |-> <<>>]
  <2>5. HeaderAt(s, n, n) = e /\ e \in Header
    BY <2>1, NewHeader DEF Header
  <2>6. new.headers = [k \in 1 .. C + 1 |-> IF k = C + 1 THEN e ELSE old.headers[k]]
    <3>1. new.headers = [k \in 1 .. C + 1 |-> HeaderAt(s, Nth(H \cup {n}, k), n)]
      BY <2>2, <2>3 DEF Meaning
    <3> HIDE DEF e, new, old, H, C
    <3>2. ASSUME NEW k \in 1 .. C + 1
          PROVE  HeaderAt(s, Nth(H \cup {n}, k), n) = IF k = C + 1 THEN e ELSE old.headers[k]
      <4>1. CASE k = C + 1
        BY <2>3, <2>5, <4>1
      <4>2. CASE k \in 1 .. C
        <5>1. old.headers[k] = HeaderAt(s, Nth(H, k), n - 1)
          BY <1>2, <4>2
        <5>2. Nth(H \cup {n}, k) = Nth(H, k)
          BY <2>3, <4>2
        <5>3. k # C + 1
          BY <1>1, <4>2
        <5> QED BY <2>4, <4>2, <5>1, <5>2, <5>3
      <4> QED BY <1>1, <4>1, <4>2
    <3> QED BY <3>1, <3>2
  <2> HIDE DEF e, new, old, H, C
  <2>7. new.headers = Append(old.headers, e)
    BY <1>1, <1>2, <2>5, <2>6
  <2> QED BY <1>2, <1>3, <1>5, <2>7 DEF Push, e, old, new
<1> QED BY <1>4, <1>5

\* Nothing after the second space belongs to the method or to the URI.
LEMMA TwoSpaces ==
  ASSUME NEW s, NEW n \in Nat, NEW x \in 1 .. n, NEW y \in 1 .. n, x # y,
         s[x] = "SP", s[y] = "SP"
  PROVE  n + 1 \notin MethodAt(s, n + 1) /\ n + 1 \notin UriAt(s, n + 1)
<1>1. x \in Spaces(s, n + 1) /\ y \in Spaces(s, n + 1)
  BY DEF Spaces
<1> QED BY <1>1 DEF MethodAt, UriAt

\* The first of several good lines has two spaces.
LEMMA FirstLine ==
  ASSUME NEW s \in Seq(Char), NEW a \in Nat, a > 1, StartAt(s, a), GoodLines(s, a)
  PROVE  \E x \in 1 .. a - 1, y \in 1 .. a - 1 : x # y /\ s[x] = "SP" /\ s[y] = "SP"
<1> DEFINE T == {b \in Nat : BreakAt(s, b)}
<1>1. a - 2 \in T
  BY DEF StartAt, BreakAt
<1>2. PICK b \in T : \A i \in T : b <= i
  <2>1. T \subseteq Nat /\ T # {}
    BY <1>1
  <2> HIDE DEF T
  <2> QED BY <2>1, MinIsLeast
<1>3. b \in 1 .. a - 2 /\ BreakAt(s, b)
  BY <1>1, <1>2 DEF BreakAt
<1>4. Line(s, 1, b)
  <2>1. ASSUME NEW i \in 1 .. b - 1 PROVE ~BreakAt(s, i)
    <3>1. i \in Nat /\ i < b
      BY <1>3
    <3> QED BY <1>2, <1>3, <3>1
  <2> QED BY <1>3, <2>1 DEF Line, StartAt
<1>5. RequestLine(s, 1, b)
  BY <1>3, <1>4 DEF GoodLines, GoodLine
<1>6. PICK x \in 1 .. b - 1, y \in 1 .. b - 1 : s[x] = "SP" /\ s[y] = "SP" /\ x < y
  BY <1>5 DEF RequestLine
<1>7. x \in 1 .. a - 1 /\ y \in 1 .. a - 1 /\ x # y
  BY <1>3, <1>6
<1> QED BY <1>6, <1>7

\* There are no headers in the first line.
LEMMA NoHeads ==
  ASSUME NEW s, NEW n \in Nat, InLine(s, 1, n + 1)
  PROVE  ~HeadAt(s, n + 1) /\ Heads(s, n) = {} /\ Heads(s, (n + 1) - 1) = {}
<1>1. ASSUME NEW h \in 1 .. n + 1 PROVE ~HeadAt(s, h)
  BY DEF InLine, HeadAt
<1>2. Heads(s, n) = {} /\ ~HeadAt(s, n + 1) /\ (n + 1) - 1 = n
  BY <1>1 DEF Heads
<1> QED BY <1>2

\* A rule adds the character to the part that the grammar says it belongs to.
LEMMA RequestLineBelongs ==
  ASSUME NEW s \in Seq(Char), NEW n \in 0 .. Len(s) - 1, InLine(s, 1, n + 1),
         NEW r \in RequestLineRules, RequestShape(r.from, s, n), s[n + 1] \in r.chars,
         r.from # "uri_start"
  PROVE  Belongs(s, n + 1, r.push)
<1> USE DEF R
<1>0. n \in Nat
  OBVIOUS
<1>1. ~HeadAt(s, n + 1) /\ Heads(s, (n + 1) - 1) = {}
  BY <1>0, NoHeads
<1>2. n + 1 \in MethodAt(s, n + 1) <=> Spaces(s, n + 1) = {}
  BY DEF MethodAt
<1>3. n + 1 \in UriAt(s, n + 1) <=>
        s[n + 1] # "SP" /\ \E x \in 1 .. n + 1 : Spaces(s, n + 1) = {x}
  BY DEF UriAt
<1> USE DEF Belongs
<1>4. ASSUME Word(s, 1, n, Token) \/ n = 0, s[n + 1] \in Token
      PROVE  Spaces(s, n + 1) = {}
  BY <1>4 DEF Spaces, Word, Text, Token, IsTspecial
<1>5. CASE r = R("method_start", Token, "method", "method")
  <2>1. Spaces(s, n + 1) = {}
    BY <1>4, <1>5 DEF RequestShape
  <2> QED BY <1>1, <1>2, <1>3, <1>5, <2>1
<1>6. CASE r = R("method", {"SP"}, "uri", "nothing")
  <2>1. n + 1 \in Spaces(s, n + 1) /\ s[n + 1] = "SP"
    BY <1>6 DEF Spaces
  <2> QED BY <1>1, <1>2, <1>3, <1>6, <2>1
<1>7. CASE r = R("method", Token, "method", "method")
  <2>1. Spaces(s, n + 1) = {}
    BY <1>4, <1>7 DEF RequestShape
  <2> QED BY <1>1, <1>2, <1>3, <1>7, <2>1
<1>8. CASE r = R("uri", {"SP"}, "http_version_h", "nothing")
  <2>1. n + 1 \in Spaces(s, n + 1) /\ s[n + 1] = "SP"
    BY <1>8 DEF Spaces
  <2> QED BY <1>1, <1>2, <1>3, <1>8, <2>1
<1>9. CASE r = R("uri", Char \ (IsCtl \cup {"SP"}), "uri", "uri")
  <2>1. PICK x \in 1 .. n : MethodTo(s, x) /\ Text(s, x + 1, n, UriChar)
    BY <1>9 DEF RequestShape
  <2>2. \A q \in 1 .. n + 1 : s[q] = "SP" <=> q = x
    BY <1>9, <2>1 DEF MethodTo, Word, Text, Token, IsTspecial, UriChar
  <2>3. Spaces(s, n + 1) = {x} /\ s[n + 1] # "SP"
    BY <1>9, <2>2 DEF Spaces
  <2>4. n + 1 \in UriAt(s, n + 1)
    <3>1. x \in 1 .. n + 1
      OBVIOUS
    <3> QED BY <1>3, <2>3, <3>1
  <2>5. n + 1 \notin MethodAt(s, n + 1)
    BY <1>2, <2>3
  <2> QED BY <1>1, <1>9, <2>4, <2>5
<1> QED BY <1>5, <1>6, <1>7, <1>8, <1>9 DEF RequestLineRules

\* The same of the version, of which nothing is kept.
LEMMA VersionBelongs ==
  ASSUME NEW s \in Seq(Char), NEW n \in 0 .. Len(s) - 1, InLine(s, 1, n + 1),
         NEW r \in VersionRules, VersionShape(r.from, s, n)
  PROVE  Belongs(s, n + 1, r.push)
<1>1. r.push = "nothing" /\ r.from \in VersionStates
  BY DEF VersionRules, R, VersionStates
<1>2. \E x \in 1 .. n, y \in 1 .. n : x # y /\ s[x] = "SP" /\ s[y] = "SP"
  <2>1. ASSUME NEW x \in 1 .. n, NEW y \in 1 .. n, UriTo(s, x, y)
        PROVE  x # y /\ s[x] = "SP" /\ s[y] = "SP"
    BY <2>1 DEF UriTo, MethodTo
  <2>2. CASE r.from \in {"http_version_minor", "expecting_newline_1"}
    <3>1. ASSUME NEW b \in {n, n + 1}, RequestLine(s, 1, b)
          PROVE  \E x \in 1 .. n, y \in 1 .. n : UriTo(s, x, y)
      <4>1. PICK x \in 1 .. b - 1, y \in 1 .. b - 1 : UriTo(s, x, y)
        BY <3>1, RequestLineParts
      <4> QED BY <3>1, <4>1
    <3>2. \E x \in 1 .. n, y \in 1 .. n : UriTo(s, x, y)
      BY <2>2, <3>1 DEF VersionShape
    <3> QED BY <2>1, <3>2
  <2>3. CASE r.from \notin {"http_version_minor", "expecting_newline_1"}
    <3>1. \E x \in 1 .. n, y \in 1 .. n : UriTo(s, x, y)
      BY <1>1, <2>3 DEF VersionShape, VersionTo, VersionStates
    <3> QED BY <2>1, <3>1
  <2> QED BY <2>2, <2>3
<1>3. n + 1 \notin MethodAt(s, n + 1) /\ n + 1 \notin UriAt(s, n + 1)
  BY <1>2, TwoSpaces
<1>4. ~HeadAt(s, n + 1) /\ Heads(s, (n + 1) - 1) = {}
  <2>1. n \in Nat
    OBVIOUS
  <2> QED BY <2>1, NoHeads
<1> QED BY <1>1, <1>3, <1>4 DEF Belongs

\* A position is in one line only.
LEMMA OneLine ==
  ASSUME NEW s, NEW p \in Nat, NEW a \in 1 .. p, InLine(s, a, p), NEW h \in 1 .. p,
         InLine(s, h, p)
  PROVE  h = a
BY DEF InLine

\* What is text, given the line.
LEMMA TextInLine ==
  ASSUME NEW s, NEW p \in Nat, NEW a \in 1 .. p, InLine(s, a, p)
  PROVE  IsText(s, p) <=>
           /\ s[p] \notin {"CR", "LF"}
           /\ IF s[a] \in Blank THEN \E q \in a .. p : s[q] \notin Blank
                                ELSE \E q \in a .. p - 2 : s[q] = ":"
BY OneLine DEF IsText

\* To which part of a header the grammar adds a position, given the line.
LEMMA BelongsInLine ==
  ASSUME NEW s, NEW n \in Nat, NEW a \in 2 .. n + 1, InLine(s, a, n + 1)
  PROVE  /\ HeadAt(s, n + 1) <=> n + 1 = a /\ s[a] \notin Blank \cup {"CR"}
         /\ (\E h \in Heads(s, n) : n + 1 \in NameAt(s, h, n + 1)) <=>
              a <= n /\ s[a] \notin Blank \cup {"CR"} /\ \A q \in a .. n + 1 : s[q] # ":"
         /\ (\E h \in Heads(s, n) : n + 1 \in ValueAt(s, h, n + 1)) <=>
              Heads(s, n) # {} /\ IsText(s, n + 1) /\ ~HeadAt(s, n + 1)
<1>1. HeadAt(s, n + 1) <=> n + 1 = a /\ s[a] \notin Blank \cup {"CR"}
  <2>1. StartAt(s, n + 1) <=> n + 1 = a
    BY DEF InLine
  <2> QED BY <2>1 DEF HeadAt
<1>2. ASSUME NEW h \in Heads(s, n), n + 1 \in NameAt(s, h, n + 1)
      PROVE  a <= n /\ s[a] \notin Blank \cup {"CR"} /\ \A q \in a .. n + 1 : s[q] # ":"
  <2>1. h \in 1 .. n /\ HeadAt(s, h)
    BY DEF Heads
  <2>2. InLine(s, h, n + 1) /\ \A q \in h .. n + 1 : s[q] # ":"
    BY <1>2 DEF NameAt
  <2>3. h = a
    BY <2>1, <2>2, OneLine
  <2> QED BY <2>1, <2>2, <2>3 DEF HeadAt
<1>3. ASSUME a <= n, s[a] \notin Blank \cup {"CR"}, \A q \in a .. n + 1 : s[q] # ":"
      PROVE  \E h \in Heads(s, n) : n + 1 \in NameAt(s, h, n + 1)
  <2>1. a \in Heads(s, n)
    BY <1>3 DEF Heads, HeadAt, InLine
  <2>2. n + 1 \in NameAt(s, a, n + 1)
    BY <1>3 DEF NameAt
  <2> QED BY <2>1, <2>2
<1>4. ASSUME NEW h \in Heads(s, n), n + 1 \in ValueAt(s, h, n + 1)
      PROVE  Heads(s, n) # {} /\ IsText(s, n + 1) /\ ~HeadAt(s, n + 1)
  BY <1>4 DEF ValueAt, Heads
<1>5. ASSUME Heads(s, n) # {}, IsText(s, n + 1), ~HeadAt(s, n + 1)
      PROVE  \E h \in Heads(s, n) : n + 1 \in ValueAt(s, h, n + 1)
  <2> DEFINE m == Nth(Heads(s, n), Cardinality(Heads(s, n)))
  <2>1. Heads(s, n) \subseteq 1 .. n
    BY DEF Heads
  <2>2. Positions(Heads(s, n))
    BY <2>1, PositionsTo
  <2>3. m \in Heads(s, n) /\ \A h \in Heads(s, n) : h <= m
    BY <1>5, <2>2, LastIsGreatest
  <2> HIDE DEF m
  <2>4. ASSUME NEW h \in m + 1 .. n + 1 PROVE ~HeadAt(s, h)
    <3>1. CASE h = n + 1
      BY <1>5, <3>1
    <3>2. CASE h \in 1 .. n
      BY <2>1, <2>3, <3>2 DEF Heads
    <3> QED BY <2>1, <2>3, <3>1, <3>2
  <2>5. n + 1 \in ValueAt(s, m, n + 1)
    BY <1>5, <2>1, <2>3, <2>4 DEF ValueAt
  <2> QED BY <2>3, <2>5
<1> QED BY <1>1, <1>2, <1>3, <1>4, <1>5

\* The same of the header lines.
LEMMA HeaderBelongs ==
  ASSUME NEW s \in Seq(Char), NEW n \in 0 .. Len(s) - 1, NEW a \in 2 .. n + 1,
         InLine(s, a, n + 1), GoodLines(s, a),
         NEW headers, NEW r \in HeaderRules(headers), HeaderShape(r.from, s, a, n),
         s[n + 1] \in r.chars
  PROVE  Belongs(s, n + 1, r.push)
<1> DEFINE named == a <= n /\ s[a] \notin Blank \cup {"CR"} /\ \A q \in a .. n + 1 : s[q] # ":"
           valued == Heads(s, n) # {} /\ IsText(s, n + 1) /\ ~HeadAt(s, n + 1)
<1>0. n \in Nat /\ (n + 1) - 1 = n /\ StartAt(s, a)
  BY DEF InLine
<1>1. /\ HeadAt(s, n + 1) <=> n + 1 = a /\ s[a] \notin Blank \cup {"CR"}
      /\ (\E h \in Heads(s, n) : n + 1 \in NameAt(s, h, n + 1)) <=> named
      /\ (\E h \in Heads(s, n) : n + 1 \in ValueAt(s, h, n + 1)) <=> valued
  BY <1>0, BelongsInLine
<1>2. n + 1 \notin MethodAt(s, n + 1) /\ n + 1 \notin UriAt(s, n + 1)
  <2>1. PICK x \in 1 .. a - 1, y \in 1 .. a - 1 : x # y /\ s[x] = "SP" /\ s[y] = "SP"
    BY <1>0, FirstLine
  <2> QED BY <1>0, <2>1, TwoSpaces
<1>3. IsText(s, n + 1) <=>
        /\ s[n + 1] \notin {"CR", "LF"}
        /\ IF s[a] \in Blank THEN \E q \in a .. n + 1 : s[q] \notin Blank
                             ELSE \E q \in a .. (n + 1) - 2 : s[q] = ":"
  BY <1>0, TextInLine
<1> SUFFICES /\ r.push \notin {"method", "uri"}
             /\ HeadAt(s, n + 1) <=> r.push = "header"
             /\ named <=> r.push = "name"
             /\ valued <=> r.push = "value"
  BY <1>0, <1>1, <1>2 DEF Belongs
<1>a. ASSUME s[a] \in Token PROVE s[a] \notin Blank \cup {"CR"}
  BY <1>a DEF Token, Blank, IsCtl, IsTspecial
<1>b. ASSUME GoodLine(s, a, n) \/ GoodLine(s, a, n + 1)
      PROVE  ~named /\ ~HeadAt(s, n + 1) /\ a <= n
  <2>1. PICK b \in {n, n + 1} : GoodLine(s, a, b)
    BY <1>b
  <2>2. a < b
    BY <1>0, <2>1, NotEmpty
  <2>3. CASE HeaderLine(s, a, b)
    BY <1>1, <2>2, <2>3 DEF HeaderLine
  <2>4. CASE FoldLine(s, a, b)
    BY <1>1, <2>2, <2>4 DEF FoldLine, Text
  <2> QED BY <2>1, <2>3, <2>4 DEF GoodLine
<1> USE DEF R
<1>4. CASE r.from = "header_line_start"
  <2>1. n + 1 = a /\ ~IsText(s, n + 1)
    BY <1>3, <1>4 DEF HeaderShape
  <2>2. (r.push = "nothing" /\ r.chars \in {{"CR"}, {"SP", "HT"}})
        \/ (r.push = "header" /\ r.chars = Token)
    BY <1>4 DEF HeaderRules, FoldRules
  <2> QED BY <1>1, <1>a, <2>1, <2>2 DEF Blank
<1>5. CASE r.from = "header_lws"
  <2>1. a <= n /\ Text(s, a, n, Blank) /\ Heads(s, n) # {} /\ s[a] \in Blank
    BY <1>5 DEF HeaderShape, Word, Text, Heads
  <2>2. ~named /\ ~HeadAt(s, n + 1)
    BY <1>1, <2>1
  <2>3. IsText(s, n + 1) <=> s[n + 1] \notin {"CR", "LF"} \cup Blank
    BY <1>3, <2>1 DEF Text
  <2>4. \/ r.push = "nothing" /\ r.chars \in {{"CR"}, {"SP", "HT"}}
        \/ r.push = "value" /\ r.chars = Char \ (IsCtl \cup {"SP"})
    BY <1>5 DEF HeaderRules, FoldRules
  <2> QED BY <2>1, <2>2, <2>3, <2>4 DEF Blank, IsCtl
<1>6. CASE r.from = "header_name"
  <2>1. a <= n /\ Text(s, a, n, Token) /\ s[a] \in Token
    BY <1>6 DEF HeaderShape, Word, Text
  <2>2. \A q \in a .. n : s[q] # ":"
    BY <2>1 DEF Text, Token, IsTspecial
  <2>3. ~IsText(s, n + 1) /\ ~HeadAt(s, n + 1)
    BY <1>1, <1>3, <1>a, <2>1, <2>2
  <2>4. named <=> s[n + 1] # ":"
    BY <1>a, <2>1, <2>2
  <2>5. \/ r.push = "nothing" /\ r.chars = {":"}
        \/ r.push = "name" /\ r.chars = Token
    BY <1>6 DEF HeaderRules, FoldRules
  <2> QED BY <2>3, <2>4, <2>5 DEF Token, IsTspecial
<1>7. CASE r.from = "space_before_header_value"
  <2>1. a <= n - 1 /\ Text(s, a, n - 1, Token) /\ s[a] \in Token /\ s[n] = ":"
    BY <1>7 DEF HeaderShape, Word, Text
  <2>2. \A q \in a .. n - 1 : s[q] # ":"
    BY <2>1 DEF Text, Token, IsTspecial
  <2>3. ~IsText(s, n + 1) /\ ~HeadAt(s, n + 1) /\ ~named
    BY <1>1, <1>3, <1>a, <2>1, <2>2
  <2>4. r.push = "nothing"
    BY <1>7 DEF HeaderRules, FoldRules
  <2> QED BY <2>3, <2>4
<1>8. CASE r.from = "header_value"
  <2>1. GoodLine(s, a, n + 1) /\ \E i \in a .. n : s[i] \notin Blank
    BY <1>8 DEF HeaderShape
  <2>2. ~named /\ ~HeadAt(s, n + 1) /\ a <= n
    BY <1>b, <2>1
  <2>3. /\ Heads(s, n) # {}
        /\ IF s[a] \in Blank THEN \E q \in a .. n + 1 : s[q] \notin Blank
                             ELSE \E q \in a .. (n + 1) - 2 : s[q] = ":"
    <3>1. CASE HeaderLine(s, a, n + 1)
      <4>1. PICK c \in a .. (n + 1) - 2 : s[c] = ":" /\ Word(s, a, c - 1, Token)
        BY <3>1 DEF HeaderLine
      <4>2. s[a] \in Token
        BY <4>1 DEF Word, Text
      <4>3. a \in Heads(s, n)
        BY <1>0, <1>a, <2>2, <4>2 DEF Heads, HeadAt
      <4> QED BY <1>a, <4>1, <4>2, <4>3
    <3>2. CASE FoldLine(s, a, n + 1) /\ Heads(s, a - 1) # {}
      <4>1. s[a] \in Blank
        BY <3>2, <2>2 DEF FoldLine, Text
      <4>2. Heads(s, n) # {}
        BY <3>2, <2>2 DEF Heads
      <4> QED BY <2>1, <4>1, <4>2
    <3> QED BY <2>1, <3>1, <3>2 DEF GoodLine
  <2>4. \/ r.push = "nothing" /\ r.chars = {"CR"}
        \/ r.push = "value" /\ r.chars = Char \ IsCtl
    BY <1>8 DEF HeaderRules, FoldRules
  <2> QED BY <1>3, <2>2, <2>3, <2>4 DEF IsCtl
<1>9. CASE r.from = "expecting_newline_2"
  <2>1. ~named /\ ~HeadAt(s, n + 1)
    BY <1>9, <1>b DEF HeaderShape
  <2>2. r.push = "nothing" /\ r.chars = {"LF"}
    BY <1>9 DEF HeaderRules, FoldRules
  <2> QED BY <1>3, <2>1, <2>2
<1> QED
  BY <1>4, <1>5, <1>6, <1>7, <1>8, <1>9 DEF HeaderRules, FoldRules

\* The same of every rule.
LEMMA RuleBelongs ==
  ASSUME NEW s \in Seq(Char), NEW n \in 0 .. Len(s) - 1, NEW a \in 1 .. n + 1,
         NEW headers, NEW r \in Rules(headers), Reached(r.from, s, a, n),
         s[n + 1] \in r.chars
  PROVE  Belongs(s, n + 1, r.push) /\ (r.push = "header" => s[n + 1] # ":")
<1>1. InLine(s, a, n + 1) /\ GoodLines(s, a) /\ Shape(r.from, s, a, n)
  BY DEF Reached
<1>2. CASE r \in RequestLineRules
  <2>1. r.from \in RequestLineStates \cup {"uri_start"} /\ r.push # "header"
    BY <1>2 DEF RequestLineRules, R, RequestLineStates
  <2>2. a = 1 /\ RequestShape(r.from, s, n) /\ r.from # "uri_start"
    BY <1>1, <2>1, ShapeOf
  <2> QED BY <1>1, <1>2, <2>1, <2>2, RequestLineBelongs
<1>3. CASE r \in VersionRules
  <2>1. r.from \in VersionStates /\ r.push # "header"
    BY <1>3 DEF VersionRules, R, VersionStates
  <2>2. a = 1 /\ VersionShape(r.from, s, n)
    BY <1>1, <2>1, ShapeOf
  <2> QED BY <1>1, <1>3, <2>1, <2>2, VersionBelongs
<1>4. CASE r \in HeaderRules(headers)
  <2>1. r.from \in HeaderStates /\ (r.push = "header" => r.chars = Token)
    BY <1>4 DEF HeaderRules, FoldRules, R, HeaderStates
  <2>2. a \in 2 .. n + 1 /\ HeaderShape(r.from, s, a, n)
    BY <1>1, <2>1, ShapeOf
  <2>3. Belongs(s, n + 1, r.push)
    BY <1>1, <1>4, <2>2, HeaderBelongs
  <2> QED BY <2>1, <2>3 DEF Token, IsTspecial
<1> QED BY <1>2, <1>3, <1>4 DEF Rules

\* The LF at the end of a request is no part of it.
LEMMA EndBelongs ==
  ASSUME NEW s \in Seq(Char), NEW n \in 0 .. Len(s) - 1, NEW a \in 1 .. n + 1,
         Reached("expecting_newline_3", s, a, n), s[n + 1] = "LF"
  PROVE  Belongs(s, n + 1, "nothing")
<1>1. a > 1 /\ n = a /\ s[a] = "CR"
  BY ShapeOf DEF Reached, HeaderStates, HeaderShape
<1>2. n \in Nat /\ (n + 1) - 1 = n /\ InLine(s, a, n + 1) /\ StartAt(s, a) /\ GoodLines(s, a)
  BY DEF Reached, InLine
<1>3. n + 1 \notin MethodAt(s, n + 1) /\ n + 1 \notin UriAt(s, n + 1)
  <2>1. PICK x \in 1 .. a - 1, y \in 1 .. a - 1 : x # y /\ s[x] = "SP" /\ s[y] = "SP"
    BY <1>1, <1>2, FirstLine
  <2> QED BY <1>2, <2>1, TwoSpaces
<1>4. ~IsText(s, n + 1)
  BY DEF IsText
<1>5. /\ ~HeadAt(s, n + 1)
      /\ ~\E h \in Heads(s, n) : n + 1 \in NameAt(s, h, n + 1)
      /\ ~\E h \in Heads(s, n) : n + 1 \in ValueAt(s, h, n + 1)
  <2>1. a \in 2 .. n + 1 /\ n + 1 # a /\ s[a] \in Blank \cup {"CR"}
    BY <1>1, <1>2
  <2>2. HeadAt(s, n + 1) <=> n + 1 = a /\ s[a] \notin Blank \cup {"CR"}
    BY <1>2, <2>1, BelongsInLine
  <2>3. ~\E h \in Heads(s, n) : n + 1 \in NameAt(s, h, n + 1)
    BY <1>2, <2>1, BelongsInLine
  <2>4. ~\E h \in Heads(s, n) : n + 1 \in ValueAt(s, h, n + 1)
    BY <1>2, <1>4, <2>1, BelongsInLine
  <2> QED BY <2>1, <2>2, <2>3, <2>4
<1> QED BY <1>2, <1>3, <1>5 DEF Belongs

\* There are headers in a request if there are in the bytes.
LEMMA HeadersThere ==
  ASSUME NEW s, NEW n \in Nat
  PROVE  Meaning(s, n).headers = <<>> <=> Heads(s, n) = {}
<1>1. Heads(s, n) \subseteq 1 .. n
  BY DEF Heads
<1>2. Positions(Heads(s, n))
  BY <1>1, PositionsTo
<1>3. /\ Cardinality(Heads(s, n)) \in Nat
      /\ Cardinality(Heads(s, n)) = 0 <=> Heads(s, n) = {}
  BY <1>2, RankTyped, FS_EmptySet DEF Positions
<1>4. CASE Heads(s, n) = {}
  BY <1>3, <1>4 DEF Meaning
<1>5. CASE Heads(s, n) # {}
  <2> DEFINE C == Cardinality(Heads(s, n))
             f == [k \in 1 .. C |-> HeaderAt(s, Nth(Heads(s, n), k), n)]
  <2>1. 1 \in DOMAIN f
    BY <1>3, <1>5
  <2>2. 1 \notin DOMAIN <<>>
    OBVIOUS
  <2>3. f # <<>>
    <3> HIDE DEF f
    <3> QED BY <2>1, <2>2
  <2> QED BY <1>5, <2>3 DEF Meaning
<1> QED BY <1>4, <1>5

-----------------------------------------------------------------------------
(* The invariant.                                                           *)

\* Nothing has been consumed yet.
LEMMA InitEInv == Init => EInv
<1> SUFFICES ASSUME Init PROVE EInv
  OBVIOUS
<1>1. CInv
  BY InitCInv
<1>2. input \in Seq(Char)
  BY <1>1, ConnectionAssumption DEF CInv, TypeOK
<1>3. Reached("method_start", input, 1, 0)
  <2>1. InLine(input, 1, 0 + 1) /\ GoodLines(input, 1)
    BY DEF InLine, StartAt, GoodLines
  <2>2. Shape("method_start", input, 1, 0)
    BY ShapeOf DEF RequestLineStates, RequestShape
  <2> QED BY <2>1, <2>2 DEF Reached
<1>4. Meaning(input, 0) = EmptyRequest
  <2>1. MethodAt(input, 0) = {} /\ UriAt(input, 0) = {} /\ Heads(input, 0) = {}
    BY DEF MethodAt, UriAt, Heads
  <2>2. Meaning(input, 0).headers = <<>>
    BY <2>1, HeadersThere
  <2>3. Meaning(input, 0) = [method |-> <<>>, uri |-> <<>>, headers |-> Meaning(input, 0).headers]
    BY <2>1, ReadNothing DEF Meaning
  <2> QED BY <2>2, <2>3 DEF EmptyRequest
<1>5. AsTheGrammarReads
  <2>1. consumed = 0 /\ result = "more" /\ state_ = "method_start" /\ req = EmptyRequest
    BY DEF Init, ParserInit
  <2>2. 1 \in 1 .. consumed + 1
    BY <2>1
  <2> QED BY <1>3, <1>4, <2>1, <2>2 DEF AsTheGrammarReads
<1>6. ReadsWhenParsed
  BY DEF ReadsWhenParsed, Init, ParserInit
<1> QED BY <1>1, <1>5, <1>6 DEF EInv

\* A character parsed.
LEMMA ParseStep ==
  ASSUME EInv, Parse
  PROVE  AsTheGrammarReads' /\ ReadsWhenParsed'
<1> DEFINE s == input
           n == consumed
           c == input[consumed + 1]
<1>1. /\ s \in Seq(Char) /\ n \in 0 .. Len(s) - 1 /\ n \in Nat
      /\ s' = s /\ n' = n + 1 /\ result = "more" /\ req \in Request /\ c \in Char
      /\ op' = op /\ op = "none"
  BY ConnectionAssumption DEF EInv, CInv, TypeOK, ParserTypeOK, Parse, AnsweredAtTheEnd
<1>2. PICK a \in 1 .. n + 1 : Reached(state_, s, a, n)
  BY <1>1 DEF EInv, AsTheGrammarReads
<1>3. req = Meaning(s, n)
  BY <1>1 DEF EInv, AsTheGrammarReads
<1>4. req.headers = <<>> <=> Heads(s, n) = {}
  BY <1>1, <1>3, HeadersThere
<1>5. n + 1 \in 1 .. Len(s) /\ (n + 1) - 1 = n
  BY <1>1
<1>6. ReadsWhenParsed'
  BY <1>1 DEF ReadsWhenParsed
<1>7. CASE Accepts(c)
  <2>1. PICK r \in Rules(req.headers) :
          Applies(r, c) /\ state_' = r.to /\ req' = Push(req, r.push, c) /\ result' = result
    BY <1>7 DEF Accepts
  <2>2. r.from = state_ /\ c \in r.chars /\ GoodRule(r, req.headers)
    BY <2>1, RulesGood DEF Applies
  <2>3. PICK b \in 1 .. n + 2 : Reached(state_', s, b, n + 1)
    BY <1>1, <1>2, <1>4, <2>1, <2>2, ReachedStep
  <2>4. Belongs(s, n + 1, r.push) /\ (r.push = "header" => c # ":")
    BY <1>1, <1>2, <2>2, RuleBelongs
  <2>5. req' = Meaning(s, n + 1)
    BY <1>1, <1>3, <1>5, <2>1, <2>2, <2>4, PushesMeaning DEF GoodRule
  <2> QED BY <1>1, <1>6, <2>1, <2>3, <2>5 DEF AsTheGrammarReads
<1>8. CASE Completes(c)
  <2>1. /\ state_ = "expecting_newline_3" /\ c = "LF" /\ result' = "yes" /\ req' = req
    BY <1>8 DEF Completes
  <2>2. Ends(s, n + 1) /\ Belongs(s, n + 1, "nothing")
    BY <1>1, <1>2, <2>1, EndOfRequest, EndBelongs
  <2>3. Push(req, "nothing", c) = Meaning(s, n + 1)
    BY <1>1, <1>3, <1>5, <2>2, PushesMeaning DEF Part
  <2>4. req' = Meaning(s, n + 1)
    BY <2>1, <2>3 DEF Push
  <2> QED BY <1>1, <1>6, <2>1, <2>2, <2>4 DEF AsTheGrammarReads
<1>9. CASE Refuses(c)
  <2>1. /\ ~(state_ = "expecting_newline_3" /\ c = "LF")
        /\ ~Takes(Rules(req.headers), state_, c)
        /\ result' = "no"
    BY <1>9 DEF Refuses, Applies, Takes
  <2>2. ASSUME NEW m \in 1 .. Len(s), Ends(s, m) PROVE FALSE
    <3>1. InLine(s, a, n + 1) /\ GoodLines(s, a)
      BY <1>2 DEF Reached
    <3>2. CASE m \in 1 .. n
      BY <1>1, <2>2, <3>1, <3>2, NotYet
    <3>3. CASE m \in n + 1 .. Len(s)
      BY <1>1, <1>2, <1>4, <2>1, <2>2, <3>3, GoesOn
    <3> QED BY <1>1, <3>2, <3>3
  <2> QED BY <1>1, <1>6, <2>1, <2>2 DEF AsTheGrammarReads
<1> QED BY <1>7, <1>8, <1>9 DEF Parse, consume

\* Only Parse touches what the invariant is about, and only ReadAgain reads.
LEMMA StepEInv == ASSUME EInv, [Next]_vars PROVE EInv'
<1>1. CInv'
  BY StepCInv DEF EInv
<1>2. ASSUME UNCHANGED <<parser_vars, input, consumed>> PROVE AsTheGrammarReads'
  BY <1>2 DEF EInv, AsTheGrammarReads, parser_vars
<1>3. CASE Parse
  BY <1>1, <1>3, ParseStep DEF EInv
<1>4. CASE HandleRead \/ HandleReadError \/ HandleRequest \/ RefuseRequest \/ HandleWrite
  <2>1. UNCHANGED <<parser_vars, input, consumed>> /\ op' # "read"
    BY <1>4 DEF HandleRead, HandleReadError, HandleRequest, RefuseRequest, HandleWrite, Starts
  <2> QED BY <1>1, <1>2, <2>1 DEF EInv, ReadsWhenParsed
<1>5. CASE ReadAgain
  <2>1. /\ UNCHANGED <<parser_vars, input, consumed, received>>
        /\ result = "more" /\ consumed = received
    BY <1>5 DEF ReadAgain, Starts
  <2> QED BY <1>1, <1>2, <2>1 DEF EInv, ReadsWhenParsed, parser_vars
<1>6. CASE UNCHANGED vars
  BY <1>1, <1>2, <1>6 DEF vars, parser_vars, EInv, ReadsWhenParsed
<1> QED BY <1>3, <1>4, <1>5, <1>6 DEF Next, Gone

\* What the parser has read is what the grammar reads, in every reachable state.
LEMMA InductiveE == Spec => []EInv
BY InitEInv, StepEInv, PTL DEF Spec

-----------------------------------------------------------------------------
(* The theorems.                                                            *)

\* The grammar of Exchange is the one of this module: what a request looks like.
LEMMA SameEnds == \A s, n : Ideal!Ends(s, n) <=> Ends(s, n)
BY DEF Ideal!Ends, Ends, Ideal!GoodLines, GoodLines, Ideal!GoodLine, GoodLine,
       Ideal!FoldLine, FoldLine, Ideal!HeaderLine, HeaderLine,
       Ideal!RequestLine, RequestLine, Ideal!HttpVersion, HttpVersion,
       Ideal!Line, Line, Ideal!Heads, Heads, Ideal!HeadAt, HeadAt,
       Ideal!StartAt, StartAt, Ideal!BreakAt, BreakAt, Ideal!Word, Word, Ideal!Text, Text,
       Ideal!Blank, Blank, Ideal!UriChar, UriChar, Ideal!ValueChar, ValueChar,
       Ideal!Token, Token, Ideal!IsDigit, IsDigit, Ideal!Char, Char, Ideal!IsChar, IsChar,
       Ideal!IsCtl, IsCtl, Ideal!IsTspecial, IsTspecial

\* And what it says.
LEMMA SameMeaning == \A s, n : Ideal!Meaning(s, n) = Meaning(s, n)
<1>0. \A S : Ideal!Cardinality(S) = Cardinality(S)
  BY DEF Ideal!Cardinality, Cardinality
<1>1. \A s, a : Ideal!StartAt(s, a) <=> StartAt(s, a)
  BY DEF Ideal!StartAt, StartAt, Ideal!BreakAt, BreakAt
<1>2. \A s, a : Ideal!HeadAt(s, a) <=> HeadAt(s, a)
  BY <1>1 DEF Ideal!HeadAt, HeadAt, Ideal!Blank, Blank
<1>3. \A s, a, p : Ideal!InLine(s, a, p) <=> InLine(s, a, p)
  BY <1>1 DEF Ideal!InLine, InLine
<1>4. \A s, p : Ideal!IsText(s, p) <=> IsText(s, p)
  BY <1>3 DEF Ideal!IsText, IsText, Ideal!Blank, Blank
<1>5. \A s, n : Ideal!Heads(s, n) = Heads(s, n)
  BY <1>2 DEF Ideal!Heads, Heads
<1>6. \A s, p : Ideal!Spaces(s, p) = Spaces(s, p)
  BY DEF Ideal!Spaces, Spaces
<1>7. \A s, n : Ideal!MethodAt(s, n) = MethodAt(s, n) /\ Ideal!UriAt(s, n) = UriAt(s, n)
  BY <1>6 DEF Ideal!MethodAt, MethodAt, Ideal!UriAt, UriAt
<1>8. \A s, a, n : Ideal!NameAt(s, a, n) = NameAt(s, a, n)
  BY <1>3 DEF Ideal!NameAt, NameAt
<1>9. \A s, a, n : Ideal!ValueAt(s, a, n) = ValueAt(s, a, n)
  BY <1>2, <1>4 DEF Ideal!ValueAt, ValueAt
<1>10. \A P, p : Ideal!Rank(P, p) = Rank(P, p)
  BY <1>0 DEF Ideal!Rank, Rank
<1>11. \A P, k : Ideal!Nth(P, k) = Nth(P, k)
  <2> SUFFICES ASSUME NEW P, NEW k PROVE Ideal!Nth(P, k) = Nth(P, k)
    OBVIOUS
  <2>1. {p \in P : Ideal!Rank(P, p) = k} = {p \in P : Rank(P, p) = k}
    BY <1>10
  <2> QED BY <2>1 DEF Ideal!Nth, Nth, Ideal!The, The
<1>12. \A s, P : Ideal!Read(s, P) = Read(s, P)
  BY <1>0, <1>11 DEF Ideal!Read, Read
<1>13. \A s, a, n : Ideal!HeaderAt(s, a, n) = HeaderAt(s, a, n)
  BY <1>8, <1>9, <1>12 DEF Ideal!HeaderAt, HeaderAt
<1> QED
  BY <1>0, <1>5, <1>7, <1>11, <1>12, <1>13 DEF Ideal!Meaning, Meaning

\* No request ends before the end of what has been consumed without being seen.
LEMMA NoneYet ==
  ASSUME EInv, result = "more"
  PROVE  \A m \in 1 .. consumed : ~Ends(input, m)
<1>1. input \in Seq(Char) /\ consumed \in Nat
  BY ConnectionAssumption DEF EInv, CInv, TypeOK
<1>2. PICK a \in 1 .. consumed + 1 : Reached(state_, input, a, consumed)
  BY DEF EInv, AsTheGrammarReads
<1> QED BY <1>1, <1>2, NotYet DEF Reached

\* The server never waits for more bytes when a request has arrived: whenever a
\* read is outstanding, none of the bytes received ends a request, wherever the
\* reads cut them.
THEOREM NeverWaits == Spec => []NeverWaitsInVain
<1>1. EInv => NeverWaitsInVain
  <2> SUFFICES ASSUME EInv, op = "read" PROVE Ideal!RequestEnds(received) = {}
    BY DEF NeverWaitsInVain
  <2>1. result = "more" /\ consumed = received
    BY DEF EInv, ReadsWhenParsed
  <2>2. \A m \in 1 .. received : ~Ideal!Ends(input, m)
    BY <2>1, NoneYet, SameEnds
  <2> QED BY <2>2 DEF Ideal!RequestEnds
<1> QED BY InductiveE, <1>1, PTL

\* Every step of a connection is a step of Exchange or leaves it as it is.
LEMMA StepExchange ==
  ASSUME EInv, [Next]_vars
  PROVE  [Ideal!ExchangeNext]_(Ideal!exchange_vars)
<1> USE DEF Ideal!ExchangeNext, Ideal!exchange_vars
<1>0. /\ input \in Seq(Char) /\ received \in 0 .. Len(input) /\ consumed \in 0 .. received
      /\ reply_ \in {"none", "bad_request", "handled"}
      /\ reply_ # "none" => op # "read" /\ ~parsing
      /\ parsing => op = "none"
  BY ConnectionAssumption DEF EInv, CInv, TypeOK, AnsweredAtTheEnd
<1>1. CASE HandleRead
  <2>1. received' \in received + 1 .. Len(input)
    BY <1>0, <1>1, ConnectionAssumption DEF HandleRead
  <2> QED BY <1>0, <1>1, <2>1 DEF HandleRead, Ideal!Receive, Destroyed, parser_vars
<1>2. CASE HandleReadError
  BY <1>0, <1>2 DEF HandleReadError, Ideal!Close, Destroyed, parser_vars
<1>3. CASE Parse
  BY <1>0, <1>3 DEF Parse, Destroyed
<1>4. CASE ReadAgain
  BY <1>0, <1>4 DEF ReadAgain, Starts, Destroyed, parser_vars
<1>5. CASE HandleRequest
  <2>1. /\ Ends(input, consumed) /\ req = Meaning(input, consumed)
    BY <1>5 DEF HandleRequest, EInv, AsTheGrammarReads
  <2>2. consumed \in 1 .. received
    BY <1>0, <2>1 DEF Ends, BreakAt
  <2>3. consumed \in Ideal!RequestEnds(received) /\ req = Ideal!Meaning(input, consumed)
    BY <2>1, <2>2, SameEnds, SameMeaning DEF Ideal!RequestEnds
  <2> QED
    BY <1>0, <1>5, <2>3 DEF HandleRequest, Starts, Ideal!AnswerRequest, Destroyed, parser_vars
<1>6. CASE RefuseRequest
  <2>1. \A m \in 1 .. Len(input) : ~Ideal!Ends(input, m)
    BY <1>6, SameEnds DEF RefuseRequest, EInv, AsTheGrammarReads
  <2>2. Ideal!RequestEnds(Len(input)) = {}
    BY <2>1 DEF Ideal!RequestEnds
  <2> QED
    BY <1>0, <1>6, <2>2 DEF RefuseRequest, Starts, Ideal!AnswerBadRequest, Destroyed, parser_vars
<1>7. CASE HandleWrite
  BY <1>0, <1>7 DEF HandleWrite, Ideal!Close, Destroyed, parser_vars
<1>8. CASE UNCHANGED vars
  BY <1>8 DEF vars, parser_vars, Destroyed
<1> QED BY <1>1, <1>2, <1>3, <1>4, <1>5, <1>6, <1>7, <1>8 DEF Next, Gone

\* A connection implements Exchange, for every input, every size of the buffer
\* and every way to cut the input into reads: it answers once, the first request
\* in the input, read as the grammar reads it, and it refuses only an input that
\* has no request.
THEOREM ImplementsExchange == Spec => ExchangeSpec
<1>1. Init => Ideal!ExchangeInit
  BY DEF Init, Ideal!ExchangeInit, Ideal!NoRequest, EmptyRequest, Destroyed
<1>2. EInv /\ [Next]_vars => [Ideal!ExchangeNext]_(Ideal!exchange_vars)
  BY StepExchange
<1> QED BY InductiveE, <1>1, <1>2, PTL DEF Spec, ExchangeSpec, Ideal!ExchangeSpec

=============================================================================
