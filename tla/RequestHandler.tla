--------------------------- MODULE RequestHandler ---------------------------
(***************************************************************************)
(* request_handler::handle_request (src/request_handler.cpp) for requests  *)
(* that reach the same map one after the other, as they do on one thread   *)
(* (module Server says why no other is in between). The map keeps from one *)
(* request to the next whatever was set in it. Its settings stand for the  *)
(* arguments of the calls; what mapnik makes of them is not modelled.      *)
(***************************************************************************)
EXTENDS WmsQuery, Reply, TLC

CONSTANTS
  Queries,       \* bound: the decoded queries clients send, <<>> if there is none
  LayerNames,    \* the names of the map's layers
  MaxExtent      \* the max_extent of config.json

\* Without a name a layer cannot be asked for. The grammar has no place for a
\* line end in a value: in module UriQuery one consists of ValueByte.
ASSUME HandlerAssumption ==
  /\ Queries \subseteq Seq(Part)
  /\ \A q \in Queries : \A i \in DOMAIN q :
       \A k \in DOMAIN q[i].value : q[i].value[k] # Crlf
  /\ "" \notin LayerNames

VARIABLES
  map_,          \* the settings of the map
  query,         \* the query of the last request
  reply          \* the reply to it

vars == <<map_, query, reply>>

\* rep as connection constructs it, before anything is assigned to it.
NoReply == [status |-> 0, headers |-> <<>>, content |-> <<>>]

Init ==
  /\ map_ = [srs |-> <<"stylesheet">>, active |-> LayerNames,
             size |-> <<1, 1>>, extent |-> Envelope(0, 0, 1, 1)]
  /\ query = <<>>
  /\ reply = NoReply

-----------------------------------------------------------------------------
(* The checks, in the code's order: the first that fails decides the reply. *)

Width(p) == ToUnsigned(atoi(p["width"]))
Height(p) == ToUnsigned(atoi(p["height"]))

ZeroSize(p) == Width(p) <= 0 \/ Height(p) <= 0

\* The message that a query is refused with, <<>> if it is not. The two about
\* the size give the values: get_height is not called when get_width fails.
Refusal(q) ==
  LET p == params_(q)
      w == ToString(IF Has(p, "width") THEN Width(p) ELSE 0)
      h == ToString(IF Has(p, "width") /\ Has(p, "height") THEN Height(p) ELSE 0)
  IN  IF q = <<>> THEN <<"Ready to accept Query">>
      ELSE IF ~Has(p, "bbox") THEN <<"missing bbox">>
      ELSE IF ~parse_bbox(p["bbox"]) THEN <<"failed to parse bbox">>
      ELSE IF ~(Has(p, "width") /\ Has(p, "height")) THEN <<"missing width or height", w, h>>
      ELSE IF ZeroSize(p) THEN <<"width and height must be > 0", w, h>>
      ELSE IF ~Has(p, "layers") THEN <<"missing layers">>
      ELSE IF ~Has(p, "srs") THEN <<"missing srs">>
      ELSE <<>>

\* url_decode (module UrlDecode) refuses the URI.
RefuseEncoding ==
  /\ reply' = stock_reply(BadRequest)
  /\ query' = <<>>
  /\ UNCHANGED map_

Refuse(q) ==
  /\ Refusal(q) # <<>>
  /\ reply' = reply_html(Refusal(q))
  /\ query' = q
  /\ UNCHANGED map_

-----------------------------------------------------------------------------
(* Rendering: every setting that depends on the request is written anew.    *)

active_KeepsActive(p) ==
  IF p["layers"] = <<All>> THEN LayerNames
  ELSE map_.active \cup (LayerNames \cap parse_layer_string(p["layers"]))

active_Unfiltered(p) ==
  IF p["layers"] = <<All>> THEN LayerNames
  ELSE parse_layer_string(p["layers"])

\* set_active on every layer of the map.
active(p) ==
  IF p["layers"] = <<All>> THEN LayerNames
  ELSE LayerNames \cap parse_layer_string(p["layers"])

Settings_KeepsSize(p) ==
  [srs |-> p["srs"], active |-> active(p),
   size |-> map_.size, extent |-> bbox(p["bbox"])]

Settings(p) ==
  [srs |-> p["srs"], active |-> active(p),
   size |-> <<Width(p), Height(p)>>, extent |-> bbox(p["bbox"])]

\* A "format" without value, or with commas, is a MIME type like any other.
Mime_FirstToken(p) ==
  IF Has(p, "format") /\ p["format"] # <<>> THEN p["format"][1] ELSE "image/png"

Mime(p) == IF Has(p, "format") THEN Text(p["format"]) ELSE "image/png"

\* mapnik's encoders, and what save_to_string does with any other name. An
\* image is any bytes, what looks like the end of the headers included.
Encoded == [png |-> <<"PNG", Crlf, Crlf, "IHDR">>,
            png8 |-> <<"PNG", Crlf, Crlf, "IHDR", "PLTE">>,
            jpeg |-> <<"SOI">>]
ImageWriterException == <<"ImageWriterException">>

save_to_string(encoder) ==
  IF encoder \in DOMAIN Encoded THEN Encoded[encoder] ELSE ImageWriterException

image_reply(mime) ==
  LET content == save_to_string(type_to_extension(mime))
  IN  [status |-> Ok, content |-> content,
       headers |-> <<Header("Content-Type", mime), Header("Server", "PaleoServer"),
                     ContentLength(content)>>]

Render(q) ==
  LET p == params_(q)
  IN  /\ Refusal(q) = <<>>
      /\ map_' = Settings(p)
      /\ reply' = image_reply(Mime(p))
      /\ query' = q

handle_request(q) == Refuse(q) \/ Render(q)

Next == RefuseEncoding \/ \E q \in Queries : handle_request(q)

Spec == Init /\ [][Next]_vars

-----------------------------------------------------------------------------
TypeOK ==
  /\ map_.active \subseteq LayerNames
  /\ query \in Queries \cup {<<>>}
  /\ reply.status \in {0, Ok, BadRequest}

\* The reply carries an image.
Drawn == \E e \in DOMAIN Encoded : reply.content = Encoded[e]

\* What WMS asks for with a key: the first value given to it in the part of
\* the query that conforms to the grammar.
FirstGiven(q, key) ==
  {i \in DOMAIN q :
     /\ q[i].key = key /\ q[i].assigned
     /\ \A j \in DOMAIN q : j < i =>
          ~q[j].stops /\ ~(q[j].key = key /\ q[j].assigned)}
Asked(q, key) == Lowered(q[CHOOSE i \in FirstGiven(q, key) : TRUE].value)

\* An image, rendered from the map as it is then, shows what its own request
\* asked for, whatever the requests before it set in the map: the layers it
\* names and no others, in its srs, size and extent. Names are compared as the
\* code compares them, those of the query in lower case (uri_parser.cpp:59).
DrawnAsAsked ==
  Drawn =>
    /\ map_.srs = Asked(query, "srs")
    /\ map_.size = <<ToUnsigned(atoi(Asked(query, "width"))),
                     ToUnsigned(atoi(Asked(query, "height")))>>
    /\ \A name \in LayerNames :
         name \in map_.active <=>
           \/ Asked(query, "layers") = <<All>>
           \/ \E i \in DOMAIN Asked(query, "layers") : Asked(query, "layers")[i] = name
    /\ LET box == BboxTokens(Asked(query, "bbox"))
       IN  /\ \A k \in 1 .. 4 : IsNumber(box[k])
           /\ {map_.extent.minx, map_.extent.maxx} = {Numerals[box[1]], Numerals[box[3]]}
           /\ {map_.extent.miny, map_.extent.maxy} = {Numerals[box[2]], Numerals[box[4]]}
    /\ map_.extent.minx <= map_.extent.maxx /\ map_.extent.miny <= map_.extent.maxy

\* An image has the encoding of the format asked for, by the whole value and
\* not a part of it, if that is one of the server's, and is a PNG otherwise.
\* Never is it what save_to_string throws on any other name.
EncodedAsAsked ==
  /\ reply.content # ImageWriterException
  /\ Drawn =>
       LET format == IF FirstGiven(query, "format") = {} THEN <<"image/png">>
                     ELSE Asked(query, "format")
       IN  /\ reply.content = Encoded.jpeg <=> format \in {<<"image/jpeg">>, <<"image/jpg">>}
           /\ reply.content = Encoded.png8 <=> format = <<"image/png8">>

\* What a client takes off the wire, trusting the headers, is the reply: its
\* status and type, and of the content every token and not one more, although
\* the three kinds of reply set their headers in three places and in two orders,
\* and an image may hold what looks like the end of the headers.
FramedForClient ==
  /\ reply # NoReply => Framed(to_buffers(reply), reply)
  /\ \A status \in DOMAIN Status : Framed(to_buffers(stock_reply(status)), stock_reply(status))

\* request_handler.cpp:186 tells the client that "width and height must be > 0".
SizeAskedIsPositive ==
  Drawn => atoi(Asked(query, "width")) > 0 /\ atoi(Asked(query, "height")) > 0

\* config.json:27: max_extent is there to "limit all requests to given extent".
WithinMaxExtent ==
  Drawn =>
    /\ map_.extent.minx >= MaxExtent.minx /\ map_.extent.maxx <= MaxExtent.maxx
    /\ map_.extent.miny >= MaxExtent.miny /\ map_.extent.maxy <= MaxExtent.maxy

=============================================================================
