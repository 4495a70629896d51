----------------------------- MODULE UrlDecode -----------------------------
(***************************************************************************)
(* request_handler::url_decode (src/request_handler.cpp): its loop over a  *)
(* URI, one step per character or escape. The two characters of an escape  *)
(* are read by operator>> with std::hex, which takes an optional sign and  *)
(* as many digits as it finds, and is content with one.                    *)
(*                                                                         *)
(* The module is a library of actions: module UriQuery goes on with what   *)
(* has been decoded.                                                       *)
(***************************************************************************)
EXTENDS Integers, Sequences, FiniteSets

CONSTANT Uris         \* bound: the URIs tried

\* The characters: hexadecimal digits, two signs, the "x" of a prefix, the
\* escape, a letter that is none of these and the delimiters of a query. Each
\* has its code in ASCII.
Digit == [c \in {"0", "2", "4", "6", "f", "F"} |->
            CASE c = "0" -> 0 [] c = "2" -> 2 [] c = "4" -> 4 [] c = "6" -> 6
              [] OTHER -> 15]
Code == [c \in DOMAIN Digit \cup {"+", "-", "x", "%", "g", "?", "&", "="} |->
           CASE c = "0" -> 48 [] c = "2" -> 50 [] c = "4" -> 52 [] c = "6" -> 54
             [] c = "f" -> 102 [] c = "F" -> 70 [] c = "+" -> 43 [] c = "-" -> 45
             [] c = "x" -> 120 [] c = "%" -> 37 [] c = "g" -> 103
             [] c = "?" -> 63 [] c = "&" -> 38 [] c = "=" -> 61]
Space == 32
Digits == DOMAIN Digit
UriChar == DOMAIN Code

ASSUME UrlDecodeAssumption == Uris \subseteq Seq(UriChar)

VARIABLES
  in,        \* the URI
  i,         \* loop index, from 0
  out,       \* the bytes decoded so far
  verdict    \* "none" inside the loop, then what is returned: "true", "false"

decode_vars == <<in, i, out, verdict>>

DecodeInit ==
  /\ in \in Uris
  /\ i = 0
  /\ out = <<>>
  /\ verdict = "none"

Inside == verdict = "none" /\ i < Len(in)
AtEscape == Inside /\ in[i + 1] = "%"

-----------------------------------------------------------------------------
(* is >> std::hex >> value, the stream holding one or two characters.       *)

\* in.substr(i + 1, 2), which is shorter at the end of the URI.
Escaped == SubSeq(in, i + 2, IF i + 3 <= Len(in) THEN i + 3 ELSE Len(in))

\* The stream extracts a number: a digit comes first, or a sign and a digit.
\* "0x" is a prefix without digits.
Extracts(s) ==
  /\ s # <<"0", "x">>
  /\ \/ Head(s) \in Digits
     \/ Head(s) \in {"+", "-"} /\ Len(s) = 2 /\ s[2] \in Digits

\* Which number: two digits, a sign and a digit, or a digit alone.
Extracted(s) ==
  CASE s[1] = "-" -> -Digit[s[2]]
    [] s[1] = "+" -> Digit[s[2]]
    [] Len(s) = 2 /\ s[1] \in Digits /\ s[2] \in Digits -> 16 * Digit[s[1]] + Digit[s[2]]
    [] OTHER -> Digit[s[1]]

ToByte(value) == value % 256     \* static_cast<char>

EscapeFits_OffByOne == i + 2 <= Len(in)

EscapeFits == i + 3 <= Len(in)

-----------------------------------------------------------------------------
Escape_KeepsIndex ==
  /\ AtEscape /\ EscapeFits
  /\ Extracts(Escaped)
  /\ out' = Append(out, ToByte(Extracted(Escaped)))
  /\ i' = i + 1
  /\ UNCHANGED <<in, verdict>>

Escape ==
  /\ AtEscape /\ EscapeFits
  /\ Extracts(Escaped)
  /\ out' = Append(out, ToByte(Extracted(Escaped)))
  /\ i' = i + 3
  /\ UNCHANGED <<in, verdict>>

BadEscape ==
  /\ AtEscape
  /\ EscapeFits => ~Extracts(Escaped)
  /\ verdict' = "false"
  /\ UNCHANGED <<in, i, out>>

Plain ==
  /\ Inside /\ ~AtEscape
  /\ out' = Append(out, IF in[i + 1] = "+" THEN Space ELSE Code[in[i + 1]])
  /\ i' = i + 1
  /\ UNCHANGED <<in, verdict>>

Return ==
  /\ verdict = "none" /\ i >= Len(in)
  /\ verdict' = "true"
  /\ UNCHANGED <<in, i, out>>

url_decode == Escape \/ BadEscape \/ Plain \/ Return

-----------------------------------------------------------------------------
\* The index stays inside the URI or at its end: no escape is taken from
\* beyond it.
DecodeTypeOK ==
  /\ in \in Seq(UriChar)
  /\ i \in 0 .. Len(in)
  /\ out \in Seq(0 .. 255)
  /\ verdict \in {"none", "true", "false"}

-----------------------------------------------------------------------------
(* The reference: percent encoding as a set of positions, not as a loop.    *)

IsAt(k, c) == k \in DOMAIN in /\ in[k] = c

\* Every "%" is followed by two hexadecimal digits.
Valid ==
  \A k \in DOMAIN in : in[k] = "%" =>
    k + 2 \in DOMAIN in /\ in[k + 1] \in Digits /\ in[k + 2] \in Digits

\* Positions that give a byte: all but the two digits of an escape.
Leading == {k \in DOMAIN in : ~IsAt(k - 1, "%") /\ ~IsAt(k - 2, "%")}

Denoted(k) ==
  CASE in[k] = "%" -> 16 * Digit[in[k + 1]] + Digit[in[k + 2]]
    [] in[k] = "+" -> Space
    [] OTHER -> Code[in[k]]

\* What is validly encoded is accepted and decoded to the bytes it denotes,
\* one for each leading position and in their order, an escape next to another,
\* to a "+" or to the end of the URI included.
DecodesValid ==
  verdict # "none" /\ Valid =>
    /\ verdict = "true"
    /\ Len(out) = Cardinality(Leading)
    /\ \A k \in Leading : out[Cardinality(Leading \cap 1 .. k)] = Denoted(k)

\* request_handler.hpp:73 promises: "Returns false if the encoding was
\* invalid".
RefusesInvalid == verdict = "true" => Valid

=============================================================================
