------------------------------- MODULE UriQuery -------------------------------
(***************************************************************************)
(* From a URI to the parameters of a wms_query, character by character:    *)
(* request_handler::handle_request decodes the whole URI, takes what       *)
(* follows the first "?" and hands it to the constructor of wms_query      *)
(* (src/uri_parser.cpp), which parses it with the grammar of               *)
(* src/uri_grammer.hpp and inserts the pairs into a map one by one.        *)
(*                                                                         *)
(* Everything after the decoding is about bytes: an escaped delimiter      *)
(* delimits like any other.                                                *)
(***************************************************************************)
EXTENDS UrlDecode, FiniteSetsExt

VARIABLES
  stage,     \* "decode", "split", "parse", "insert", then "done"
  query,     \* the bytes after the first "?"
  begin,     \* where qi::parse has come to in the query, from 1
  m,         \* the pairs parsed so far
  it,        \* how many of them the loop has looked at
  params_    \* the map, from keys to values

query_vars == <<query, begin, m, it, params_>>
vars == <<decode_vars, stage, query_vars>>

Init ==
  /\ DecodeInit
  /\ stage = "decode"
  /\ query = <<>>
  /\ begin = 1
  /\ m = <<>>
  /\ it = 0
  /\ params_ = <<>>

Question == 63
Ampersand == 38
Equals == 61

\* What char_ stands for in the rules key and value.
Upper == 65 .. 90
KeyStart == Upper \cup 97 .. 122 \cup {95}
KeyByte == KeyStart \cup 48 .. 57
ValueByte == KeyByte \cup {Code["-"]} \cup {44, 46, 47, 58}

-----------------------------------------------------------------------------
(* The grammar. Its repetitions are greedy and never give anything back.    *)

Has(k, S) == k \in DOMAIN query /\ query[k] \in S

\* Where a run of bytes from S that begins at k ends: the position after it.
EndOf(k, S) == Min({e \in k .. Len(query) + 1 : ~Has(e, S)})

KeyEnd(k) == EndOf(k, KeyByte)

ValueEnd(k) ==
  IF Has(KeyEnd(k), {Equals}) THEN EndOf(KeyEnd(k) + 1, ValueByte) ELSE KeyEnd(k)

\* pair, at k. "=" without a value assigns the empty string.
pair(k) ==
  [key |-> SubSeq(query, k, KeyEnd(k) - 1),
   assigned |-> Has(KeyEnd(k), {Equals}),
   value |-> SubSeq(query, KeyEnd(k) + 1, ValueEnd(k) - 1)]

-----------------------------------------------------------------------------
Decode ==
  /\ stage = "decode"
  /\ url_decode
  /\ stage' = CASE verdict' = "none" -> "decode"
                [] verdict' = "true" -> "split"
                [] verdict' = "false" -> "done"
  /\ UNCHANGED query_vars

\* An empty query is answered without a wms_query.
Split ==
  /\ stage = "split"
  /\ LET marks == {k \in DOMAIN out : out[k] = Question}
     IN  query' = IF marks = {} THEN <<>> ELSE SubSeq(out, Min(marks) + 1, Len(out))
  /\ stage' = IF query' = <<>> THEN "done" ELSE "parse"
  /\ begin' = 1
  /\ UNCHANGED <<decode_vars, m, it, params_>>

Pair(k) ==
  /\ Has(k, KeyStart)
  /\ m' = Append(m, pair(k))
  /\ begin' = ValueEnd(k)
  /\ UNCHANGED <<decode_vars, stage, query, it, params_>>

FirstPair == stage = "parse" /\ m = <<>> /\ Pair(begin)

NextPair == stage = "parse" /\ m # <<>> /\ Has(begin, {Ampersand}) /\ Pair(begin + 1)

\* qi::parse fails if there is no first pair, and otherwise succeeds with the
\* pairs it has, whatever follows them.
StopParsing ==
  /\ stage = "parse"
  /\ IF m = <<>> THEN ~Has(begin, KeyStart)
     ELSE ~(Has(begin, {Ampersand}) /\ Has(begin + 1, KeyStart))
  /\ stage' = IF m = <<>> THEN "done" ELSE "insert"
  /\ UNCHANGED <<decode_vars, query_vars>>

to_lower_copy(bytes) ==
  [n \in DOMAIN bytes |-> IF bytes[n] \in Upper THEN bytes[n] + 32 ELSE bytes[n]]

\* std::map::insert leaves a key that is there alone.
insert_Overwrites(map, key, value) ==
  [k \in DOMAIN map \cup {key} |-> IF k = key THEN value ELSE map[k]]

insert(map, key, value) ==
  [k \in DOMAIN map \cup {key} |-> IF k \in DOMAIN map THEN map[k] ELSE value]

\* One pair; without a value it gives nothing.
Insert ==
  /\ stage = "insert"
  /\ it < Len(m)
  /\ LET p == m[it + 1]
     IN  params_' = IF p.assigned
                    THEN insert(params_, to_lower_copy(p.key), to_lower_copy(p.value))
                    ELSE params_
  /\ it' = it + 1
  /\ UNCHANGED <<decode_vars, stage, query, begin, m>>

Constructed ==
  /\ stage = "insert"
  /\ it = Len(m)
  /\ stage' = "done"
  /\ UNCHANGED <<decode_vars, query_vars>>

Done == stage = "done" /\ UNCHANGED vars

Next ==
  \/ Decode \/ Split
  \/ FirstPair \/ NextPair \/ StopParsing
  \/ Insert \/ Constructed
  \/ Done

Spec == Init /\ [][Next]_vars

-----------------------------------------------------------------------------
\* Neither the decoding nor the grammar leaves what it reads: the index and the
\* iterators stay within the URI, the query and the pairs.
TypeOK ==
  /\ DecodeTypeOK
  /\ stage \in {"decode", "split", "parse", "insert", "done"}
  /\ query \in Seq(0 .. 255)
  /\ begin \in 1 .. Len(query) + 1
  /\ m \in Seq([key : Seq(KeyByte), assigned : BOOLEAN, value : Seq(ValueByte)])
  /\ it \in 0 .. Len(m)
  /\ DOMAIN params_ \subseteq Seq(KeyByte \ Upper)

-----------------------------------------------------------------------------
(* The reference: what the parts between the ampersands say, each read by   *)
(* itself, as module WmsQuery reads them.                                   *)

\* What lies from a to e conforms to the grammar of a pair; its key ends at k.
Conforms(a, k, e) ==
  /\ k \in a .. e
  /\ query[a] \in KeyStart /\ \A p \in a .. k : query[p] \in KeyByte
  /\ k < e => query[k + 1] = Equals
  /\ \A p \in k + 2 .. e : query[p] \in ValueByte

IsPair(a, e) == \E k \in a .. e : Conforms(a, k, e)

\* Where a part begins, and where the part that begins there ends.
Begins == {1} \cup {k + 1 : k \in {j \in DOMAIN query : query[j] = Ampersand}}

PartEnd(a) == Max({e \in a - 1 .. Len(query) : \A p \in a .. e : query[p] # Ampersand})

\* What is read of a part is the longest text at its front that conforms: it may
\* end in these places, it does end at ReadTo, and its key at KeyTo.
Ends(a) == {e \in a .. PartEnd(a) : IsPair(a, e)}
ReadTo(a) == Max(Ends(a))
KeyTo(a) == CHOOSE k \in a .. ReadTo(a) : Conforms(a, k, ReadTo(a))

\* The first part that does not conform is the last one that is read.
IsRead(a) == \A b \in Begins : b < a => IsPair(b, PartEnd(b))

\* The parts that give a value, an empty one perhaps, to a key.
Giving == {a \in Begins : IsRead(a) /\ Ends(a) # {} /\ KeyTo(a) < ReadTo(a)}

Key(a) == to_lower_copy(SubSeq(query, a, KeyTo(a)))
Value(a) == to_lower_copy(SubSeq(query, KeyTo(a) + 2, ReadTo(a)))

\* The values that parts give to keys: of those for the same key the first.
Meaning ==
  [key \in {Key(a) : a \in Giving} |-> Value(Min({a \in Giving : Key(a) = key}))]

\* A query means what its parts mean, whatever stands next to what: an empty
\* value, a key without value, a repeated key, two ampersands, an escaped
\* delimiter or a byte that has no place, which cuts off everything after it.
ReadAsWritten == stage = "done" /\ verdict = "true" => params_ = Meaning

=============================================================================
