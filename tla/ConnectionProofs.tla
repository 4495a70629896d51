-------------------------- MODULE ConnectionProofs --------------------------
(***************************************************************************)
(* Proofs about module Connection and its parser, for every set of inputs  *)
(* and every size of the buffer. What the table of rules contributes is    *)
(* stated first, a table at a time; the rest uses the tables no more.      *)
(***************************************************************************)
EXTENDS Connection, TLAPS

Part == {"nothing", "method", "uri", "header", "name", "value"}

\* A rule that is well typed and keeps headers.back() defined: it adds to the
\* last header only where there is one, and leads to a state that uses the
\* last header only from such a state, by adding one, or if there is one.
GoodRule(r, headers) ==
  /\ r.to \in State
  /\ r.push \in Part
  /\ r.push \in {"name", "value"} => r.from \in UsesLastHeader
  /\ r.to \in UsesLastHeader =>
       r.from \in UsesLastHeader \/ r.push = "header" \/ headers # <<>>

\* The rules for the request line are good: none touches a header.
LEMMA RequestLineRulesGood == \A h : \A r \in RequestLineRules : GoodRule(r, h)
BY DEF RequestLineRules, R, GoodRule, State, Part, UsesLastHeader

\* The rules for the HTTP version are good: none touches a header.
LEMMA VersionRulesGood == \A h : \A r \in VersionRules : GoodRule(r, h)
BY DEF VersionRules, R, GoodRule, State, Part, UsesLastHeader

\* The rules for the headers are good, whatever headers there are: a line is
\* continued only if there is one.
LEMMA HeaderRulesGood == \A h : \A r \in HeaderRules(h) : GoodRule(r, h)
BY DEF HeaderRules, FoldRules, R, GoodRule, State, Part, UsesLastHeader

\* The whole table of consume is good.
LEMMA RulesGood == \A h : \A r \in Rules(h) : GoodRule(r, h)
BY RequestLineRulesGood, VersionRulesGood, HeaderRulesGood DEF Rules

-----------------------------------------------------------------------------
(* What is pushed.                                                          *)

\* What consume adds to a request leaves it one, if the header it may be added
\* to exists.
LEMMA PushTyped ==
  ASSUME NEW rq \in Request, NEW c \in Char, NEW part \in Part,
         part \in {"name", "value"} => rq.headers # <<>>
  PROVE  Push(rq, part, c) \in Request
<1> DEFINE last == Len(rq.headers)
<1>0. rq.headers \in Seq(Header) /\ rq.method \in Seq(Char) /\ rq.uri \in Seq(Char)
  BY DEF Request
<1>1. CASE part = "nothing"
  BY <1>1 DEF Push
<1>2. CASE part = "method"
  <2>1. Append(rq.method, c) \in Seq(Char)
    BY <1>0
  <2> QED BY <1>2, <2>1 DEF Push, Request
<1>3. CASE part = "uri"
  <2>1. Append(rq.uri, c) \in Seq(Char)
    BY <1>0
  <2> QED BY <1>3, <2>1 DEF Push, Request
<1>4. CASE part = "header"
  <2>1. [name |-> <<c>>, value |-> <<>>] \in Header
    BY DEF Header
  <2>2. Append(rq.headers, [name |-> <<c>>, value |-> <<>>]) \in Seq(Header)
    BY <1>0, <2>1
  <2> QED BY <1>4, <2>2 DEF Push, Request
<1>5. CASE part \in {"name", "value"}
  <2>1. last \in 1 .. Len(rq.headers)
    BY <1>0, <1>5
  <2> DEFINE h == rq.headers[last]
  <2>2. h \in Header
    BY <1>0, <2>1
  <2>3. CASE part = "name"
    <3> DEFINE new == [h EXCEPT !.name = Append(h.name, c)]
    <3>1. Append(h.name, c) \in Seq(Char)
      BY <2>2 DEF Header
    <3>2. new \in Header
      BY <2>2, <3>1 DEF Header
    <3>3. [rq.headers EXCEPT ![last] = new] \in Seq(Header)
      BY <1>0, <2>1, <3>2
    <3>4. Push(rq, part, c) = [rq EXCEPT !.headers = [rq.headers EXCEPT ![last] = new]]
      BY <2>3 DEF Push
    <3> QED BY <3>3, <3>4 DEF Request
  <2>4. CASE part = "value"
    <3> DEFINE new == [h EXCEPT !.value = Append(h.value, c)]
    <3>1. Append(h.value, c) \in Seq(Char)
      BY <2>2 DEF Header
    <3>2. new \in Header
      BY <2>2, <3>1 DEF Header
    <3>3. [rq.headers EXCEPT ![last] = new] \in Seq(Header)
      BY <1>0, <2>1, <3>2
    <3>4. Push(rq, part, c) = [rq EXCEPT !.headers = [rq.headers EXCEPT ![last] = new]]
      BY <2>4 DEF Push
    <3> QED BY <3>3, <3>4 DEF Request
  <2> QED BY <1>5, <2>3, <2>4
<1> QED BY <1>1, <1>2, <1>3, <1>4, <1>5 DEF Part

\* A header, once there, stays.
LEMMA PushKeepsHeaders ==
  ASSUME NEW rq \in Request, NEW c \in Char, NEW part \in Part,
         part \in {"name", "value"} => rq.headers # <<>>,
         rq.headers # <<>> \/ part = "header"
  PROVE  Push(rq, part, c).headers # <<>>
<1> DEFINE last == Len(rq.headers)
<1>0. rq.headers \in Seq(Header)
  BY DEF Request
<1>1. CASE part \in {"nothing", "method", "uri"}
  BY <1>1 DEF Push, Request
<1>2. CASE part = "header"
  BY <1>0, <1>2 DEF Push, Request
<1>3. CASE part \in {"name", "value"}
  <2>1. last \in 1 .. Len(rq.headers)
    BY <1>0, <1>3
  <2>2. Push(rq, part, c).headers = [rq.headers EXCEPT ![last] = Push(rq, part, c).headers[last]]
    BY <1>0, <1>3, <2>1 DEF Push, Request
  <2> QED BY <1>0, <2>1, <2>2
<1> QED BY <1>1, <1>2, <1>3 DEF Part

-----------------------------------------------------------------------------
(* One character.                                                           *)

\* A character consumed keeps the parser's types and headers.back() defined.
LEMMA ConsumeStep ==
  ASSUME ParserTypeOK, BackIsDefined, NEW c \in Char, consume(c)
  PROVE  ParserTypeOK' /\ BackIsDefined'
<1>1. CASE Accepts(c)
  <2>1. PICK r \in Rules(req.headers) :
          Applies(r, c) /\ state_' = r.to /\ req' = Push(req, r.push, c)
    BY <1>1 DEF Accepts
  <2>2. GoodRule(r, req.headers) /\ r.from = state_
    BY <2>1, RulesGood DEF Applies
  <2>3. r.push \in {"name", "value"} => req.headers # <<>>
    BY <2>2 DEF GoodRule, BackIsDefined
  <2>4. req' \in Request
    BY <2>1, <2>2, <2>3, PushTyped DEF GoodRule, ParserTypeOK
  <2>5. state_' \in UsesLastHeader => req'.headers # <<>>
    <3> SUFFICES ASSUME r.to \in UsesLastHeader PROVE req'.headers # <<>>
      BY <2>1
    <3>1. req.headers # <<>> \/ r.push = "header"
      BY <2>2 DEF GoodRule, BackIsDefined
    <3>2. Push(req, r.push, c).headers # <<>>
      BY <2>2, <2>3, <3>1, PushKeepsHeaders DEF GoodRule, ParserTypeOK
    <3> QED BY <2>1, <3>2
  <2> QED
    BY <1>1, <2>1, <2>2, <2>4, <2>5
       DEF Accepts, GoodRule, ParserTypeOK, BackIsDefined
<1>2. CASE Completes(c) \/ Refuses(c)
  BY <1>2 DEF Completes, Refuses, ParserTypeOK, BackIsDefined
<1> QED BY <1>1, <1>2 DEF consume

-----------------------------------------------------------------------------
(* The inductive invariant.                                                 *)

CInv == TypeOK /\ BackIsDefined /\ AnsweredAtTheEnd

\* The invariant holds when start() has been called.
LEMMA InitCInv == Init => CInv
<1> SUFFICES ASSUME Init PROVE CInv
  OBVIOUS
<1>1. ParserTypeOK /\ BackIsDefined
  BY DEF Init, ParserInit, EmptyRequest, ParserTypeOK, BackIsDefined, State,
         Request, Header, UsesLastHeader
<1>2. Len(input) \in Nat
  BY ConnectionAssumption DEF Init
<1>3. TypeOK
  <2>1. received \in 0 .. Len(input) /\ consumed \in 0 .. received
    BY <1>2 DEF Init
  <2> QED BY <1>1, <2>1 DEF Init, TypeOK
<1> QED BY <1>1, <1>3 DEF Init, CInv, AnsweredAtTheEnd

\* Every handler and every character parsed keeps the invariant.
LEMMA StepCInv == ASSUME CInv, [Next]_vars PROVE CInv'
<1> USE DEF CInv
<1>0. Len(input) \in Nat /\ \A i \in 1 .. Len(input) : input[i] \in Char
  BY ConnectionAssumption DEF TypeOK
<1>a. ASSUME UNCHANGED parser_vars PROVE ParserTypeOK' /\ BackIsDefined'
  BY <1>a DEF TypeOK, ParserTypeOK, BackIsDefined, parser_vars
<1>1. CASE HandleRead
  BY <1>0, <1>1, <1>a, ConnectionAssumption DEF HandleRead, TypeOK, AnsweredAtTheEnd
<1>2. CASE HandleReadError
  BY <1>2, <1>a DEF HandleReadError, TypeOK, AnsweredAtTheEnd
<1>3. CASE Parse
  <2>1. input[consumed + 1] \in Char /\ consumed' \in 0 .. received'
    BY <1>0, <1>3 DEF Parse, TypeOK
  <2>2. ParserTypeOK' /\ BackIsDefined'
    BY <1>3, <2>1, ConsumeStep DEF Parse, TypeOK
  <2> QED BY <1>3, <2>1, <2>2 DEF Parse, TypeOK, AnsweredAtTheEnd
<1>4. CASE ReadAgain
  <2>1. reply_ = "none"
    BY <1>4 DEF ReadAgain, AnsweredAtTheEnd
  <2> QED BY <1>4, <1>a, <2>1 DEF ReadAgain, Starts, TypeOK, AnsweredAtTheEnd
<1>5. CASE HandleRequest \/ RefuseRequest
  BY <1>5, <1>a DEF HandleRequest, RefuseRequest, Starts, TypeOK, AnsweredAtTheEnd
<1>6. CASE HandleWrite
  BY <1>6, <1>a DEF HandleWrite, TypeOK, AnsweredAtTheEnd
<1>7. CASE UNCHANGED vars
  BY <1>7, <1>a DEF vars, TypeOK, AnsweredAtTheEnd
<1> QED BY <1>1, <1>2, <1>3, <1>4, <1>5, <1>6, <1>7 DEF Next, Gone

\* The invariant of a connection holds in every reachable state.
LEMMA Inductive == Spec => []CInv
BY InitCInv, StepCInv, PTL DEF Spec

-----------------------------------------------------------------------------
(* The theorems.                                                            *)

\* Type correctness: the parser never consumes more than was received.
THEOREM TypeCorrect == Spec => []TypeOK
BY Inductive, PTL DEF CInv

\* No request, however it is cut into reads, makes the parser call back() on an
\* empty vector of headers.
THEOREM BackIsAlwaysDefined == Spec => []BackIsDefined
BY Inductive, PTL DEF CInv

\* A reply that is being written is left alone, and so is the request.
THEOREM RepliesStayPut == Spec => ReplyStaysPut
<1>1. ASSUME CInv, [Next]_vars, reply_ # "none"
      PROVE  UNCHANGED <<reply_, req, received, consumed>>
  BY <1>1 DEF CInv, AnsweredAtTheEnd, Next, HandleRead, HandleReadError, Parse,
              ReadAgain, HandleRequest, RefuseRequest, HandleWrite, Gone,
              parser_vars, vars
<1>2. CInv /\ [Next]_vars =>
        [reply_ # "none" => UNCHANGED <<reply_, req, received, consumed>>]_vars
  BY <1>1
<1> QED BY Inductive, <1>2, PTL DEF Spec, ReplyStaysPut

\* Byte by byte a connection implements ConnectionLife: it is parsing only while
\* nothing is outstanding, so each handler takes it one phase on.
THEOREM ImplementsLife == Spec => LifeSpec
<1>1. Init => Life!LifeInit
  BY DEF Init, Phase, Life!LifeInit
<1>2. ASSUME CInv, [Next]_vars PROVE [Life!LifeNext]_Phase
  <2> USE <1>2 DEF Phase, Life!LifeNext, Life!Follow
  <2>1. CASE HandleRead \/ HandleReadError \/ Parse
    BY <2>1 DEF CInv, AnsweredAtTheEnd, HandleRead, HandleReadError, Parse
  <2>2. CASE ReadAgain \/ HandleRequest \/ RefuseRequest
    BY <2>2 DEF ReadAgain, HandleRequest, RefuseRequest, Starts
  <2>3. CASE HandleWrite
    BY <2>3 DEF CInv, AnsweredAtTheEnd, HandleWrite
  <2>4. CASE UNCHANGED vars
    BY <2>4 DEF vars
  <2> QED BY <2>1, <2>2, <2>3, <2>4 DEF Next, Gone
<1> QED BY Inductive, <1>1, <1>2, PTL DEF Spec, LifeSpec, Life!LifeSpec

=============================================================================
