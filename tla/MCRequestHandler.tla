-------------------------- MODULE MCRequestHandler --------------------------
(***************************************************************************)
(* Queries for module RequestHandler: one that renders, and its variants   *)
(* with up to two parts replaced, left out, repeated or cut short.         *)
(***************************************************************************)
EXTENDS RequestHandler, SequencesExt

P(key, value) == [key |-> key, assigned |-> TRUE, value |-> value, stops |-> FALSE]
Bare(key) == [key |-> key, assigned |-> FALSE, value |-> <<>>, stops |-> FALSE]
Cut(key, value) == [key |-> key, assigned |-> TRUE, value |-> value, stops |-> TRUE]
Broken == [key |-> "", assigned |-> FALSE, value |-> <<>>, stops |-> TRUE]

BaseQuery == <<P("bbox", <<"0", "1", "2", "3">>), P("width", <<"2">>),
               P("height", <<"3">>), P("layers", <<All>>), P("srs", <<"srs1">>),
               P("format", <<"image/jpeg">>)>>

Variants == {
  P("bbox", <<"2", "", "3", "0", "-1", "word">>), P("bbox", <<"0", "word", "2", "3">>),
  P("bbox", <<"0", "1", "2">>), P("bbox", <<>>), Bare("bbox"),
  P("width", <<"0">>), P("width", <<>>), P("width", <<"-1">>), Bare("width"),
  P("height", <<"0">>), P("height", <<"word">>), P("height", <<"1">>),
  P("layers", <<"a">>), P("layers", <<"a", "", "b">>), P("layers", <<"B", "c">>),
  P("layers", <<>>), Cut("layers", <<"c">>),
  P("srs", <<"srs2">>), Bare("srs"), Cut("srs", <<"srs2">>),
  P("format", <<"image/gif">>), P("format", <<>>), P("format", <<"image/jpg">>),
  P("format", <<"image/png8">>), P("format", <<"image/jpeg", "x">>), Bare("format"),
  Broken }

Replaced(q, i, part) == [q EXCEPT ![i] = part]
Same == {Replaced(BaseQuery, i, part) : i \in DOMAIN BaseQuery,
                                       part \in Variants}

\* Variants in the place of their own key, after it, and instead of the srs.
ChosenQueries ==
  {<<>>, BaseQuery}
  \cup {q \in Same : \A i \in DOMAIN q : q[i].key \in {BaseQuery[i].key, ""}}
  \cup {Append(BaseQuery, part) : part \in Variants}
  \cup {Replaced(Replaced(BaseQuery, 4, P("layers", <<"a">>)), 5, part) : part \in Variants}

ChosenExtent == Envelope(0, 0, 2, 3)
=============================================================================
