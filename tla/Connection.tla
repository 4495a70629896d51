----------------------------- MODULE Connection -----------------------------
(***************************************************************************)
(* One connection (src/connection.cpp) with its parser, from start() to    *)
(* its destruction: what the client sends arrives in pieces of any length, *)
(* a read or a write can fail at any time, and handle_request is one step  *)
(* (module Server has its accesses to the map).                            *)
(***************************************************************************)
EXTENDS RequestParser, Integers

CONSTANTS
  Input,        \* the byte sequences a client may send
  BufferSize    \* size of buffer_, 8192 in the code

ASSUME ConnectionAssumption ==
  /\ Input \subseteq Seq(Char)
  /\ BufferSize \in Nat \ {0}

VARIABLES
  input,        \* the bytes of this client
  received,     \* how many of them completed reads have delivered
  consumed,     \* how many of them the parser has consumed
  op,           \* the outstanding operation: "read", "write" or "none"
  parsing,      \* handle_read is inside parse()
  reply_,       \* "none", the stock reply "bad_request", or "handled"
  socket        \* "open", or "shut" down in both directions

vars == <<parser_vars, input, received, consumed, op, parsing, reply_, socket>>

\* start(): the first read.
Init ==
  /\ ParserInit
  /\ input \in Input
  /\ received = 0
  /\ consumed = 0
  /\ op = "read"
  /\ parsing = FALSE
  /\ reply_ = "none"
  /\ socket = "open"

-----------------------------------------------------------------------------
(* connection::handle_read.                                                 *)

HandleRead_ResetsParser ==
  /\ op = "read"
  /\ \E n \in 1 .. BufferSize :
       /\ received + n <= Len(input)
       /\ received' = received + n
  /\ op' = "none"
  /\ parsing' = TRUE
  /\ state_' = "method_start"
  /\ UNCHANGED <<req, result, input, consumed, reply_, socket>>

\* The read delivered bytes: into parse() with them.
HandleRead ==
  /\ op = "read"
  /\ \E n \in 1 .. BufferSize :
       /\ received + n <= Len(input)
       /\ received' = received + n
  /\ op' = "none"
  /\ parsing' = TRUE
  /\ UNCHANGED <<parser_vars, input, consumed, reply_, socket>>

\* The client has gone, or the read failed: nothing is started.
HandleReadError ==
  /\ op = "read"
  /\ op' = "none"
  /\ UNCHANGED <<parser_vars, input, received, consumed, parsing, reply_, socket>>

Parse_WholeBuffer ==
  /\ parsing
  /\ result = "more"
  /\ consumed < Len(input)
  /\ consume(input[consumed + 1])
  /\ consumed' = consumed + 1
  /\ UNCHANGED <<input, received, op, parsing, reply_, socket>>

\* The loop of request_parser::parse, over what this read delivered.
Parse ==
  /\ parsing
  /\ result = "more"
  /\ consumed < received
  /\ consume(input[consumed + 1])
  /\ consumed' = consumed + 1
  /\ UNCHANGED <<input, received, op, parsing, reply_, socket>>

\* handle_read's three ways out of parse(): each starts one operation.
Starts(operation) ==
  /\ op' = operation
  /\ parsing' = FALSE
  /\ UNCHANGED <<parser_vars, input, received, consumed, socket>>

ReadAgain_UnlessRefused ==
  /\ parsing
  /\ result # "no"
  /\ consumed = received
  /\ Starts("read")
  /\ UNCHANGED reply_

ReadAgain ==
  /\ parsing
  /\ result = "more"
  /\ consumed = received
  /\ Starts("read")
  /\ UNCHANGED reply_

HandleRequest ==
  /\ parsing
  /\ result = "yes"
  /\ reply_' = "handled"
  /\ Starts("write")

RefuseRequest ==
  /\ parsing
  /\ result = "no"
  /\ reply_' = "bad_request"
  /\ Starts("write")

-----------------------------------------------------------------------------
(* connection::handle_write. Whether the write succeeds or fails, nothing   *)
(* is started and the connection goes away.                                 *)

HandleWrite_ReadsOn ==
  /\ op = "write"
  /\ op' = "read"
  /\ UNCHANGED <<parser_vars, input, received, consumed, parsing, reply_, socket>>

HandleWrite ==
  /\ op = "write"
  /\ op' = "none"
  /\ socket' \in {"open", "shut"}
  /\ UNCHANGED <<parser_vars, input, received, consumed, parsing, reply_>>

\* No operation holds a reference to the connection any more: it is destroyed.
Destroyed == op = "none" /\ ~parsing

Gone == Destroyed /\ UNCHANGED vars

Next ==
  \/ HandleRead \/ HandleReadError
  \/ Parse
  \/ ReadAgain \/ HandleRequest \/ RefuseRequest
  \/ HandleWrite
  \/ Gone

Spec == Init /\ [][Next]_vars

\* The thread runs what it can, the client sends all it has to send, and it
\* takes the reply or breaks the connection. That a read fails is not assumed.
FairSpec ==
  /\ Spec
  /\ WF_vars(HandleRead)
  /\ WF_vars(Parse)
  /\ WF_vars(ReadAgain \/ HandleRequest \/ RefuseRequest)
  /\ WF_vars(HandleWrite)

-----------------------------------------------------------------------------
TypeOK ==
  /\ ParserTypeOK
  /\ input \in Input
  /\ received \in 0 .. Len(input)
  /\ consumed \in 0 .. received
  /\ op \in {"read", "write", "none"}
  /\ parsing \in BOOLEAN
  /\ reply_ \in {"none", "bad_request", "handled"}
  /\ socket \in {"open", "shut"}

\* async_write sends from the reply's own strings (reply::to_buffers): from the
\* moment the write is started, neither the reply nor what it answers changes,
\* and no byte is read any more.
ReplyStaysPut ==
  [][reply_ # "none" => UNCHANGED <<reply_, req, received, consumed>>]_vars

\* An answered connection does not read, and a handler that is parsing has no
\* operation outstanding.
AnsweredAtTheEnd ==
  /\ reply_ # "none" => op # "read" /\ ~parsing
  /\ parsing => op = "none"

-----------------------------------------------------------------------------
(* Refinement and the properties that need the grammar.                     *)

Ideal == INSTANCE Exchange
           WITH answer <- reply_,
                asked <- IF reply_ = "handled" THEN req ELSE EmptyRequest,
                open <- ~Destroyed

\* However the reads cut the bytes into pieces, a connection answers at most
\* once, on exactly the first request in what it received, read as the grammar
\* reads it, and with bad_request only a client that sends no such request.
ExchangeSpec == Ideal!ExchangeSpec

Phase ==
  [c \in {1} |-> IF parsing THEN "busy" ELSE IF op = "none" THEN "gone" ELSE op]

Life == INSTANCE ConnectionLife WITH Conn <- {1}, phase <- Phase

\* Byte by byte a connection lives the life that module Server gives it.
LifeSpec == Life!LifeSpec

\* A read is outstanding only while no complete request has arrived: the server
\* never waits for bytes that a client with an answer due will not send.
NeverWaitsInVain == op = "read" => Ideal!RequestEnds(received) = {}

\* A client that sends a request is answered, whatever it sends after it,
\* unless a read fails.
RequestAnswered ==
  Ideal!RequestEnds(Len(input)) # {} ~> (reply_ = "handled" \/ Destroyed)

=============================================================================
