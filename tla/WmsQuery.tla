------------------------------ MODULE WmsQuery ------------------------------
(***************************************************************************)
(* wms_query (src/uri_parser.cpp) and the grammar it parses with           *)
(* (src/uri_grammer.hpp), parse_bbox_from_string (src/map_utils.hpp) and   *)
(* type_to_extension (src/mime_types.cpp).                                 *)
(*                                                                         *)
(* A query is the sequence of the parts between its "&"s. A part has a     *)
(* key, says whether "=" follows it, and has a value: the sequence of its  *)
(* comma-separated tokens. "stops" marks a part at whose end, or at whose  *)
(* key, the grammar meets a character it has no place for: qi::parse       *)
(* succeeds with what it has until then and the rest is never looked at.   *)
(***************************************************************************)
EXTENDS Integers, Sequences, FiniteSets, FiniteSetsExt

CONSTANT UnsignedBits    \* width of unsigned, 32 in the builds

Part == [key : STRING, assigned : BOOLEAN, value : Seq(STRING), stops : BOOLEAN]

\* to_lower_copy; tokens without an upper-case form stand for themselves.
to_lower(token) == IF token = "B" THEN "b" ELSE token
Lowered(value) == [i \in DOMAIN value |-> to_lower(value[i])]

\* The numbers among the tokens. atoi gives 0 for what is no number, and its
\* int becomes an unsigned modulo 2^UnsignedBits.
Numerals == [token \in {"0", "1", "2", "3", "-1"} |->
               CASE token = "0" -> 0 [] token = "1" -> 1 [] token = "2" -> 2
                 [] token = "3" -> 3 [] token = "-1" -> -1]
IsNumber(token) == token \in DOMAIN Numerals
atoi(value) ==
  IF value # <<>> /\ IsNumber(value[1]) THEN Numerals[value[1]] ELSE 0
ToUnsigned(n) == n % 2^UnsignedBits

-----------------------------------------------------------------------------
(* The constructor: keys to values. A key without "=" is left out, and of a *)
(* repeated key the first value stays.                                      *)

Parsed(query) ==
  {i \in DOMAIN query : \A j \in 1 .. i - 1 : ~query[j].stops}

params_KeepsLast(query) ==
  LET set == {i \in Parsed(query) : query[i].assigned}
      Last(k) == Max({i \in set : query[i].key = k})
  IN  [k \in {query[i].key : i \in set} |-> Lowered(query[Last(k)].value)]

params_(query) ==
  LET set == {i \in Parsed(query) : query[i].assigned}
      First(k) == Min({i \in set : query[i].key = k})
  IN  [k \in {query[i].key : i \in set} |-> Lowered(query[First(k)].value)]

Has(params, key) == key \in DOMAIN params

\* A value as the one string it is in the code. A list has commas in it and is
\* in no table, whichever list it is.
SomeList == "image/jpeg,x"
Text(value) ==
  IF value = <<>> THEN "" ELSE IF Len(value) = 1 THEN value[1] ELSE SomeList

-----------------------------------------------------------------------------
(* The values.                                                              *)

\* The loop of parse_bbox_from_string: the coordinates it has converted when
\* it leaves the loop, at a token that is no number, at the fourth or at the
\* end. Empty tokens are dropped by the tokenizer.
BboxTokens(value) == SelectSeq(value, LAMBDA t : t # "")

coordinates(tokens) ==
  LET leaves == {i \in 0 .. 4 : i >= Len(tokens) \/ i = 4 \/ ~IsNumber(tokens[i + 1])}
  IN  [k \in 1 .. Min(leaves) |-> Numerals[tokens[k]]]

parse_bbox(value) == Len(coordinates(BboxTokens(value))) = 4

\* Envelope::init orders the corners.
Envelope(x0, y0, x1, y1) ==
  [minx |-> Min({x0, x1}), miny |-> Min({y0, y1}),
   maxx |-> Max({x0, x1}), maxy |-> Max({y0, y1})]

bbox(value) ==
  LET d == coordinates(BboxTokens(value)) IN Envelope(d[1], d[2], d[3], d[4])

All == "__all__"

parse_layer_string(value) == {value[i] : i \in DOMAIN value} \ {""}

r_mappings == [mime \in {"image/png", "image/png8", "image/jpeg", "image/jpg"} |->
                 CASE mime = "image/png" -> "png" [] mime = "image/png8" -> "png8"
                   [] OTHER -> "jpeg"]

type_to_extension_Echoes(mime) ==
  IF mime \in DOMAIN r_mappings THEN r_mappings[mime] ELSE mime

type_to_extension(mime) ==
  IF mime \in DOMAIN r_mappings THEN r_mappings[mime] ELSE "png"

=============================================================================
