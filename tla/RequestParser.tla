--------------------------- MODULE RequestParser ---------------------------
(***************************************************************************)
(* request_parser (src/request_parser.cpp): a state machine that is fed    *)
(* one character at a time and fills in the request as it goes. Its switch *)
(* is written as a table: a rule (from, chars, to, push) says that in      *)
(* state `from` a character of `chars` leads to state `to` and is added to *)
(* the part `push` of the request. Where no rule applies the character is  *)
(* refused. Version numbers are not recorded: nothing ever reads them.     *)
(***************************************************************************)
EXTENDS HttpChar, Naturals, Sequences

VARIABLES
  state_,     \* state of the parser
  req,        \* the request read so far
  result      \* of the last call: "more" (indeterminate), "yes" or "no"

parser_vars == <<state_, req, result>>

State == {"method_start", "method", "uri_start", "uri", "http_version_h",
          "http_version_t_1", "http_version_t_2", "http_version_p",
          "http_version_slash", "http_version_major_start",
          "http_version_major", "http_version_minor_start",
          "http_version_minor", "expecting_newline_1", "header_line_start",
          "header_lws", "header_name", "space_before_header_value",
          "header_value", "expecting_newline_2", "expecting_newline_3"}

Header == [name : Seq(Char), value : Seq(Char)]
Request == [method : Seq(Char), uri : Seq(Char), headers : Seq(Header)]

EmptyRequest == [method |-> <<>>, uri |-> <<>>, headers |-> <<>>]

ParserInit ==
  /\ state_ = "method_start"
  /\ req = EmptyRequest
  /\ result = "more"

-----------------------------------------------------------------------------
(* The table.                                                               *)

R(from, chars, to, push) == [from |-> from, chars |-> chars, to |-> to, push |-> push]

RequestLineRules == {
  R("method_start", Token, "method", "method"),
  R("method", {"SP"}, "uri", "nothing"),
  R("method", Token, "method", "method"),
  R("uri_start", Char \ IsCtl, "uri", "uri"),
  R("uri", {"SP"}, "http_version_h", "nothing"),
  R("uri", Char \ (IsCtl \cup {"SP"}), "uri", "uri") }

VersionRules == {
  R("http_version_h", {"H"}, "http_version_t_1", "nothing"),
  R("http_version_t_1", {"T"}, "http_version_t_2", "nothing"),
  R("http_version_t_2", {"T"}, "http_version_p", "nothing"),
  R("http_version_p", {"P"}, "http_version_slash", "nothing"),
  R("http_version_slash", {"/"}, "http_version_major_start", "nothing"),
  R("http_version_major_start", IsDigit, "http_version_major", "nothing"),
  R("http_version_major", {"."}, "http_version_minor_start", "nothing"),
  R("http_version_major", IsDigit, "http_version_major", "nothing"),
  R("http_version_minor_start", IsDigit, "http_version_minor", "nothing"),
  R("http_version_minor", {"CR"}, "expecting_newline_1", "nothing"),
  R("http_version_minor", IsDigit, "http_version_minor", "nothing"),
  R("expecting_newline_1", {"LF"}, "header_line_start", "nothing") }

\* A header line may continue the one before, if there is one.
FoldRules_Always(headers) ==
  {R("header_line_start", {"SP", "HT"}, "header_lws", "nothing")}

FoldRules(headers) ==
  IF headers = <<>> THEN {}
  ELSE {R("header_line_start", {"SP", "HT"}, "header_lws", "nothing")}

HeaderRules_LwsDrops(headers) == FoldRules(headers) \cup {
  R("header_line_start", {"CR"}, "expecting_newline_3", "nothing"),
  R("header_line_start", Token, "header_name", "header"),
  R("header_lws", {"CR"}, "expecting_newline_2", "nothing"),
  R("header_lws", {"SP", "HT"}, "header_lws", "nothing"),
  R("header_lws", Char \ (IsCtl \cup {"SP"}), "header_value", "nothing"),
  R("header_name", {":"}, "space_before_header_value", "nothing"),
  R("header_name", Token, "header_name", "name"),
  R("space_before_header_value", {"SP"}, "header_value", "nothing"),
  R("header_value", {"CR"}, "expecting_newline_2", "nothing"),
  R("header_value", Char \ IsCtl, "header_value", "value"),
  R("expecting_newline_2", {"LF"}, "header_line_start", "nothing") }

HeaderRules(headers) == FoldRules(headers) \cup {
  R("header_line_start", {"CR"}, "expecting_newline_3", "nothing"),
  R("header_line_start", Token, "header_name", "header"),
  R("header_lws", {"CR"}, "expecting_newline_2", "nothing"),
  R("header_lws", {"SP", "HT"}, "header_lws", "nothing"),
  R("header_lws", Char \ (IsCtl \cup {"SP"}), "header_value", "value"),
  R("header_name", {":"}, "space_before_header_value", "nothing"),
  R("header_name", Token, "header_name", "name"),
  R("space_before_header_value", {"SP"}, "header_value", "nothing"),
  R("header_value", {"CR"}, "expecting_newline_2", "nothing"),
  R("header_value", Char \ IsCtl, "header_value", "value"),
  R("expecting_newline_2", {"LF"}, "header_line_start", "nothing") }

Rules(headers) == RequestLineRules \cup VersionRules \cup HeaderRules(headers)

-----------------------------------------------------------------------------
(* consume.                                                                 *)

\* headers.back() is the last header there is; without one it is undefined.
Push(rq, part, c) ==
  LET last == Len(rq.headers)
  IN  CASE part = "nothing" -> rq
        [] part = "method" -> [rq EXCEPT !.method = Append(@, c)]
        [] part = "uri" -> [rq EXCEPT !.uri = Append(@, c)]
        [] part = "header" -> [rq EXCEPT !.headers =
                                 Append(@, [name |-> <<c>>, value |-> <<>>])]
        [] part = "name" -> [rq EXCEPT !.headers[last].name = Append(@, c)]
        [] part = "value" -> [rq EXCEPT !.headers[last].value = Append(@, c)]

Applies(r, c) == r.from = state_ /\ c \in r.chars

Accepts(c) ==
  \E r \in Rules(req.headers) :
    /\ Applies(r, c)
    /\ state_' = r.to
    /\ req' = Push(req, r.push, c)
    /\ UNCHANGED result

Completes_Waits(c) ==
  /\ state_ = "expecting_newline_3"
  /\ c = "LF"
  /\ UNCHANGED parser_vars

Completes(c) ==
  /\ state_ = "expecting_newline_3"
  /\ c = "LF"
  /\ result' = "yes"
  /\ UNCHANGED <<state_, req>>

Refuses(c) ==
  /\ ~(state_ = "expecting_newline_3" /\ c = "LF")
  /\ \A r \in Rules(req.headers) : ~Applies(r, c)
  /\ result' = "no"
  /\ UNCHANGED <<state_, req>>

consume(c) == Accepts(c) \/ Completes(c) \/ Refuses(c)

-----------------------------------------------------------------------------
(* Properties of the parser, whatever it is fed.                            *)

ParserTypeOK ==
  /\ state_ \in State
  /\ req \in Request
  /\ result \in {"more", "yes", "no"}

\* The states in which consume calls headers.back(), or is about to.
UsesLastHeader == {"header_lws", "header_name", "space_before_header_value",
                   "header_value"}

\* headers.back() is never called on an empty vector.
BackIsDefined == state_ \in UsesLastHeader => req.headers # <<>>

=============================================================================
