------------------------------ MODULE MCUriQuery ------------------------------
(***************************************************************************)
(* URIs for module UriQuery: all short ones over the characters that the   *)
(* decoding tells apart, and all queries of a few words over those that    *)
(* the grammar does.                                                       *)
(***************************************************************************)
EXTENDS UriQuery, SequencesExt

CONSTANTS
  MaxLength,    \* bound: characters of a URI
  MaxWords      \* bound: words of a query

DecodeChars == {"0", "4", "f", "+", "-", "x", "%", "g"}
Words == {<<"f", "=">>, <<"F">>, <<"0">>, <<"-">>, <<"+">>, <<"=">>, <<"&">>,
          <<"%", "2", "6">>, <<"?">>}

ChosenUris ==
  BoundedSeq(DecodeChars, MaxLength)
  \cup {<<"?">> \o FlattenSeq(s) : s \in BoundedSeq(Words, MaxWords)}
=============================================================================
