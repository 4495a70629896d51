------------------------------ MODULE Exchange ------------------------------
(***************************************************************************)
(* What a connection promises its client: however the bytes arrive, one    *)
(* answer at most, given on the first request in them, as the grammar and  *)
(* not the arrival of the bytes says, and nothing after that answer.       *)
(***************************************************************************)
EXTENDS HttpGrammar

VARIABLES
  input,      \* the bytes of the client
  received,   \* how many of them have arrived
  answer,     \* "none", "bad_request", or "handled"
  asked,      \* the request that was handled
  open        \* the server still holds the connection

exchange_vars == <<input, received, answer, asked, open>>

NoRequest == [method |-> <<>>, uri |-> <<>>, headers |-> <<>>]

\* Where the first request ends, if among the first n bytes one ends.
RequestEnds(n) == {i \in 1 .. n : Ends(input, i)}

ExchangeInit ==
  /\ received = 0
  /\ answer = "none"
  /\ asked = NoRequest
  /\ open = TRUE

Receive ==
  /\ open /\ answer = "none"
  /\ received' \in received + 1 .. Len(input)
  /\ UNCHANGED <<input, answer, asked, open>>

AnswerRequest ==
  /\ open /\ answer = "none"
  /\ answer' = "handled"
  /\ \E i \in RequestEnds(received) : asked' = Meaning(input, i)
  /\ UNCHANGED <<input, received, open>>

\* Only a client that has no complete request to send is told so.
AnswerBadRequest ==
  /\ open /\ answer = "none"
  /\ RequestEnds(Len(input)) = {}
  /\ answer' = "bad_request"
  /\ UNCHANGED <<input, received, asked, open>>

Close == open /\ open' = FALSE /\ UNCHANGED <<input, received, answer, asked>>

ExchangeNext == Receive \/ AnswerRequest \/ AnswerBadRequest \/ Close

ExchangeSpec == ExchangeInit /\ [][ExchangeNext]_exchange_vars
=============================================================================
