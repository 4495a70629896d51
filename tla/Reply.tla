-------------------------------- MODULE Reply --------------------------------
(***************************************************************************)
(* reply (src/reply.cpp): a status, headers and content, the stock replies *)
(* and the buffers a reply is sent from. Text is a sequence of tokens, and *)
(* a length counts tokens.                                                 *)
(***************************************************************************)
EXTENDS Integers, Sequences

\* status_type, and the words of each status.
StatusStrings == {
  <<200, "200 OK">>, <<201, "201 Created">>, <<202, "202 Accepted">>,
  <<204, "204 No Content">>, <<300, "300 Multiple Choices">>,
  <<301, "301 Moved Permanently">>, <<302, "302 Moved Temporarily">>,
  <<304, "304 Not Modified">>, <<400, "400 Bad Request">>,
  <<401, "401 Unauthorized">>, <<403, "403 Forbidden">>, <<404, "404 Not Found">>,
  <<500, "500 Internal Server Error">>, <<501, "501 Not Implemented">>,
  <<502, "502 Bad Gateway">>, <<503, "503 Service Unavailable">>}

Status == [status \in {s[1] : s \in StatusStrings} |->
             (CHOOSE s \in StatusStrings : s[1] = status)[2]]

Ok == 200
BadRequest == 400
InternalServerError == 500

Known(status) == IF status \in DOMAIN Status THEN status ELSE InternalServerError

\* The page of a status has its words as a heading, except for that of 204.
Page(status) ==
  IF status = Ok THEN <<>>
  ELSE IF status = 204 THEN <<"<html>", "204 Content", "</html>">>
  ELSE <<"<html>", Status[Known(status)], "</html>">>

Crlf == "crlf"
Header(name, value) == [name |-> name, value |-> value]

\* lexical_cast of a length, for the lengths that occur here.
Decimal(n) == <<"0", "1", "2", "3", "4", "5">>[n + 1]
ContentLength(content) == Header("Content-Length", Decimal(Len(content)))

-----------------------------------------------------------------------------
(* reply::to_buffers, what async_write puts on the wire.                    *)

HeaderLine(h) == <<h.name, ": ", h.value, Crlf>>

HeaderLines(headers) ==
  [i \in 1 .. 4 * Len(headers) |->
     HeaderLine(headers[(i - 1) \div 4 + 1])[((i - 1) % 4) + 1]]

to_buffers_NoBlankLine(rep) ==
  <<"HTTP/1.0", Status[Known(rep.status)], Crlf>> \o HeaderLines(rep.headers)
    \o rep.content

to_buffers(rep) ==
  <<"HTTP/1.0", Status[Known(rep.status)], Crlf>> \o HeaderLines(rep.headers)
    \o <<Crlf>> \o rep.content

-----------------------------------------------------------------------------
(* The replies made here.                                                   *)

TextHtml == Header("Content-Type", "text/html")

stock_reply(status) ==
  [status |-> status, content |-> Page(status),
   headers |-> <<ContentLength(Page(status)), TextHtml>>]

\* The length is taken before the content is there.
reply_html_EmptyLength(html) ==
  [status |-> Ok, content |-> html, headers |-> <<ContentLength(<<>>), TextHtml>>]

reply_html(html) ==
  [status |-> Ok, content |-> html, headers |-> <<ContentLength(html), TextHtml>>]

-----------------------------------------------------------------------------
(* The client, which knows HTTP and nothing of this server: the headers end *)
(* at the first empty line, and Content-Length says how much follows it.    *)

EmptyLines(wire) == {i \in 4 .. Len(wire) : wire[i - 1] = Crlf /\ wire[i] = Crlf}

Framed(wire, rep) ==
  \E e \in EmptyLines(wire) :
    /\ \A i \in EmptyLines(wire) : e <= i
    /\ wire[2] = Status[rep.status]
    /\ \E i \in 4 .. e : wire[i] = "Content-Type"
    /\ \E i \in 4 .. e - 3 :
         /\ wire[i] = "Content-Length"
         /\ wire[i + 2] = Decimal(Len(wire) - e)
    /\ rep.content = [i \in 1 .. Len(wire) - e |-> wire[e + i]]

=============================================================================
