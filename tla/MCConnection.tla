---------------------------- MODULE MCConnection ----------------------------
(***************************************************************************)
(* Inputs for module Connection: a request line, up to two lines after it, *)
(* and an end, chosen so that every rule of the parser's table applies to  *)
(* some of them and every state refuses some character. Well-formed        *)
(* requests, near misses, and bytes after the end are all among them.      *)
(***************************************************************************)
EXTENDS Connection

Break == <<"CR", "LF">>
Http == <<"SP", "H", "T", "T", "P", "/">>

GoodRequestLines == {
  <<"T", "SP", "/">> \o Http \o <<"digit", ".", "digit">> \o Break,
  \* an empty URI
  <<"token", "digit", "SP">> \o Http \o <<"digit", "digit", ".", "digit", "digit">> \o Break }

BadRequestLines == {
  <<"SP", "SP">> \o Http \o <<"digit", ".", "digit">> \o Break,
  <<"T", ":", "SP", "/">> \o Http \o <<"digit", ".", "digit">> \o Break,
  <<"high", "SP", "/">> \o Http \o <<"digit", ".", "digit">> \o Break,
  <<"T", "SP", "/", "HT">> \o Http \o <<"digit", ".", "digit">> \o Break,
  <<"T", "SP", "high", "SP">> \o Http \o <<"digit", ".", "digit">> \o Break,
  <<"T", "SP", "other", "SP", "H", "T", "P">> \o Break,
  <<"T", "SP", "/", "SP", "H", "T", "T", "T", "/">> \o Break,
  <<"T", "SP", "/">> \o Http \o <<".", "digit">> \o Break,
  <<"T", "SP", "/">> \o Http \o <<"digit", ".">> \o Break,
  <<"T", "SP", "/">> \o Http \o <<"digit", "digit">> \o Break,
  <<"T", "SP", "/">> \o Http \o <<"digit", ".", "digit", "LF">>,
  <<"T", "SP", "/">> \o Http \o <<"digit", ".", "digit", "CR", "CR">>,
  <<"T", "SP", "/">> \o Break }

HeaderLines == {
  <<"H", ":", "SP">> \o Break,
  <<"H", "T", ":", "SP", ":", "high", "SP">> \o Break,
  <<"SP", "HT", "token">> \o Break,       \* continues the line before
  <<"HT">> \o Break,
  <<"H", ":", "token">> \o Break,         \* no space after the colon
  <<"H", ":", "SP", "HT">> \o Break,
  <<"SP", "ctl">> \o Break,
  <<":", "SP">> \o Break,
  <<"H", "SP">> \o Break,
  <<"H", ":", "SP", "CR", "CR">> }

Ends == { Break, Break \o <<"T", "SP">>, <<"CR", "T">>, <<>> }

ChosenInput ==
  { line \o header \o end :
      line \in GoodRequestLines, header \in HeaderLines \cup {<<>>}, end \in Ends }
  \cup { line \o first \o second \o Break :
      line \in GoodRequestLines, first \in HeaderLines, second \in HeaderLines }
  \cup { line \o Break : line \in BadRequestLines }

=============================================================================
