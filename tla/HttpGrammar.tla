---------------------------- MODULE HttpGrammar ----------------------------
(***************************************************************************)
(* A reference definition, independent of the state machine, of what a     *)
(* request looks like and of what is read from it: lines that end in CR    *)
(* LF, the first one a request line, the last one empty, the others header *)
(* lines or continuations of a header line. Everything is said of the      *)
(* positions of a sequence s of characters, and of what lies between two   *)
(* positions, so that it says the same of s and of what comes after it.    *)
(***************************************************************************)
EXTENDS HttpChar, Integers, FiniteSets, Sequences

Blank == {"SP", "HT"}
UriChar == Char \ (IsCtl \cup {"SP"})
ValueChar == Char \ IsCtl

\* All that lies from x to y is of chars; and it is not nothing.
Text(s, x, y, chars) == \A i \in x .. y : s[i] \in chars
Word(s, x, y, chars) == x <= y /\ Text(s, x, y, chars)

-----------------------------------------------------------------------------
(* What a request looks like.                                               *)

BreakAt(s, i) == i \in 1 .. Len(s) - 1 /\ s[i] = "CR" /\ s[i + 1] = "LF"
StartAt(s, a) == a = 1 \/ BreakAt(s, a - 2)

\* A line that starts at a and whose break is at b.
Line(s, a, b) ==
  /\ StartAt(s, a)
  /\ a <= b /\ BreakAt(s, b)
  /\ \A i \in a .. b - 1 : ~BreakAt(s, i)

HttpVersion(s, x, b) ==
  /\ s[x + 1] = "H" /\ s[x + 2] = "T" /\ s[x + 3] = "T" /\ s[x + 4] = "P"
  /\ s[x + 5] = "/"
  /\ \E dot \in x + 6 .. b - 1 :
       /\ s[dot] = "."
       /\ Word(s, x + 6, dot - 1, IsDigit)
       /\ Word(s, dot + 1, b - 1, IsDigit)

\* A method, a URI, which may be empty, and a version, with a space between.
RequestLine(s, a, b) ==
  \E x, y \in a .. b - 1 :
    /\ s[x] = "SP" /\ s[y] = "SP"
    /\ Word(s, a, x - 1, Token)
    /\ x < y /\ Text(s, x + 1, y - 1, UriChar)
    /\ HttpVersion(s, y, b)

\* A name, a colon, exactly one space that is not part of the value, a value.
HeaderLine(s, a, b) ==
  \E colon \in a .. b - 2 :
    /\ s[colon] = ":" /\ s[colon + 1] = "SP"
    /\ Word(s, a, colon - 1, Token)
    /\ Text(s, colon + 2, b - 1, ValueChar)

\* Leading space, and more of the value.
FoldLine(s, a, b) ==
  \E i \in a .. b - 1 : Text(s, a, i, Blank) /\ Text(s, i + 1, b - 1, ValueChar)

\* Where a header begins.
HeadAt(s, a) == a > 1 /\ StartAt(s, a) /\ s[a] \notin Blank \cup {"CR"}
Heads(s, n) == {a \in 1 .. n : HeadAt(s, a)}

GoodLine(s, a, b) ==
  IF a = 1 THEN RequestLine(s, a, b)
  ELSE HeaderLine(s, a, b) \/ (FoldLine(s, a, b) /\ Heads(s, a - 1) # {})

GoodLines(s, n) == \A a, b \in 1 .. n - 1 : Line(s, a, b) => GoodLine(s, a, b)

\* A request from the start of s to n: good lines, and after them an empty one.
Ends(s, n) == BreakAt(s, n - 3) /\ BreakAt(s, n - 1) /\ GoodLines(s, n - 1)

-----------------------------------------------------------------------------
(* What a request says: each part of it consists of the characters at some  *)
(* positions, in their order.                                               *)

The(S) == CHOOSE x \in S : TRUE

\* How many of P there are up to p, and the k-th of them.
Rank(P, p) == Cardinality({q \in P : q <= p})
Nth(P, k) == The({p \in P : Rank(P, p) = k})

Read(s, P) == [k \in 1 .. Cardinality(P) |-> s[Nth(P, k)]]

Spaces(s, p) == {q \in 1 .. p : s[q] = "SP"}

\* The method is before the first space, the URI between the first two.
MethodAt(s, n) == {p \in 1 .. n : Spaces(s, p) = {}}
UriAt(s, n) == {p \in 1 .. n : s[p] # "SP" /\ \E x \in 1 .. p : Spaces(s, p) = {x}}

\* Position p is in the line that starts at a.
InLine(s, a, p) == StartAt(s, a) /\ a <= p /\ \A k \in a + 1 .. p : ~StartAt(s, k)

\* A name is what comes before the first colon of its line.
NameAt(s, a, n) == {p \in a .. n : InLine(s, a, p) /\ \A q \in a .. p : s[q] # ":"}

\* Text is what follows a colon and a space, or the space a line begins with.
IsText(s, p) ==
  /\ s[p] \notin {"CR", "LF"}
  /\ \E a \in 1 .. p :
       /\ InLine(s, a, p)
       /\ IF s[a] \in Blank THEN \E q \in a .. p : s[q] \notin Blank
                            ELSE \E q \in a .. p - 2 : s[q] = ":"

\* A value is all the text before the next header begins.
ValueAt(s, a, n) ==
  {p \in a .. n : IsText(s, p) /\ \A h \in a + 1 .. p : ~HeadAt(s, h)}

HeaderAt(s, a, n) ==
  [name |-> Read(s, NameAt(s, a, n)), value |-> Read(s, ValueAt(s, a, n))]

Meaning(s, n) ==
  [method |-> Read(s, MethodAt(s, n)),
   uri |-> Read(s, UriAt(s, n)),
   headers |-> [k \in 1 .. Cardinality(Heads(s, n)) |->
                  HeaderAt(s, Nth(Heads(s, n), k), n)]]

=============================================================================
