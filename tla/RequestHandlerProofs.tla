------------------------ MODULE RequestHandlerProofs ------------------------
(***************************************************************************)
(* Proofs about module RequestHandler, for every set of queries, every map *)
(* and every width of unsigned. Rendering writes every setting anew, so    *)
(* the properties need no history: what remains to be shown is that the    *)
(* map of the constructor and the loops over tokens compute what the       *)
(* properties ask for, and that no text of a refusal passes for an image.  *)
(* On the wire no header holds a line end, so that the first empty line is *)
(* the end of the headers.                                                 *)
(***************************************************************************)
EXTENDS RequestHandler, Least, TLAPS

-----------------------------------------------------------------------------
(* wms_query.                                                               *)

\* The constructor gives a key the value that WMS asks for with it.
LEMMA ParamIsGiven ==
  ASSUME NEW q \in Seq(Part), NEW key, Has(params_(q), key)
  PROVE  Asked(q, key) = params_(q)[key]
<1> DEFINE n == Len(q)
           K == {i \in 1 .. n : q[i].key = key /\ q[i].assigned}
           S == {i \in 1 .. n : q[i].stops}
           set == {i \in Parsed(q) : q[i].assigned}
           found == {i \in 1 .. n : i \in K /\ \A j \in 1 .. i - 1 : j \notin S}
           at == {i \in 1 .. n : i \in K /\ \A j \in 1 .. n : j < i => j \notin S /\ j \notin K}
<1>0. n \in Nat /\ DOMAIN q = 1 .. n
  OBVIOUS
<1> HIDE DEF n
<1>1. {i \in set : q[i].key = key} = found
  <2>1. \A i \in 1 .. n : \A j \in 1 .. i - 1 : j \in 1 .. n
    BY <1>0
  <2> QED BY <1>0, <2>1, Zenon DEF Parsed
<1>2. key \in {q[i].key : i \in set}
  BY Zenon DEF Has, params_
<1>3. \E i \in 1 .. n : i \in K /\ \A j \in 1 .. i - 1 : j \notin S
  BY <1>1, <1>2, Zenon
<1>5. params_(q)[key] = Lowered(q[Min(found)].value)
  BY <1>1, <1>2, Zenon DEF params_
<1>6. FirstGiven(q, key) = at
  BY <1>0, Zenon DEF FirstGiven
<1>7. Asked(q, key) = Lowered(q[CHOOSE i \in at : TRUE].value)
  BY <1>6, Zenon DEF Asked
<1>4. at = {Min(found)}
  <2>0. \A i \in 1 .. n : i \in found <=> i \in K /\ \A j \in 1 .. i - 1 : j \notin S
    OBVIOUS
  <2>1. \A i \in 1 .. n : i \in at <=>
          i \in K /\ \A j \in 1 .. n : j < i => j \notin S /\ j \notin K
    OBVIOUS
  <2>2. found \subseteq 1 .. n /\ found # {} /\ at \subseteq 1 .. n
    BY <1>3
  <2> HIDE DEF K, S, found, at
  <2>3. Min(found) \in found /\ \A i \in found : Min(found) <= i
    <3>1. found \subseteq Nat
      BY <1>0, <2>2
    <3> QED BY <2>2, <3>1, MinIsLeast, Zenon
  <2>4. PICK least \in found : least = Min(found) /\ \A i \in found : least <= i
    BY <2>3
  <2>5. least \in 1 .. n /\ least \in K /\ \A j \in 1 .. least - 1 : j \notin S
    BY <2>0, <2>2
  <2>6. least \in at
    <3> SUFFICES ASSUME NEW j \in 1 .. n, j < least PROVE j \notin S /\ j \notin K
      BY <2>1, <2>5
    <3>1. j \in 1 .. least - 1 /\ j \notin found
      BY <1>0, <2>4, <2>5
    <3>2. \A k \in 1 .. j - 1 : k \in 1 .. least - 1
      BY <1>0, <2>5, <3>1
    <3> QED BY <2>0, <2>5, <3>1, <3>2
  <2>7. ASSUME NEW i \in at PROVE i = least
    <3>1. i \in 1 .. n /\ \A j \in 1 .. i - 1 : j \in 1 .. n /\ j < i
      BY <1>0, <2>2
    <3>2. i \in found
      BY <2>0, <2>1, <3>1
    <3>3. least <= i /\ ~(least < i)
      BY <2>1, <2>4, <2>5, <3>1, <3>2
    <3> QED BY <1>0, <2>5, <3>1, <3>3
  <2> QED BY <2>4, <2>6, <2>7
<1>8. (CHOOSE i \in at : TRUE) = Min(found)
  BY <1>4, Zenon
<1> QED BY <1>5, <1>7, <1>8, Zenon

\* A key that the constructor has no value for is not given.
LEMMA AbsentIsNotGiven ==
  ASSUME NEW q \in Seq(Part), NEW key, ~Has(params_(q), key)
  PROVE  FirstGiven(q, key) = {}
<1>1. SUFFICES ASSUME NEW i \in FirstGiven(q, key) PROVE FALSE
  OBVIOUS
<1>2. /\ i \in DOMAIN q /\ q[i].key = key /\ q[i].assigned
      /\ \A j \in DOMAIN q : j < i => ~q[j].stops
  BY <1>1 DEF FirstGiven
<1>3. \A j \in 1 .. i - 1 : j \in DOMAIN q /\ j < i
  BY <1>2
<1>4. i \in {j \in Parsed(q) : q[j].assigned}
  BY <1>2, <1>3 DEF Parsed
<1>5. key \in {q[j].key : j \in {k \in Parsed(q) : q[k].assigned}}
  BY <1>2, <1>4
<1> QED BY <1>5, Zenon DEF Has, params_

\* A key that is given has a place where it is given first.
LEMMA PresentIsGiven ==
  ASSUME NEW q \in Seq(Part), NEW key, Has(params_(q), key)
  PROVE  FirstGiven(q, key) # {}
<1> DEFINE given == {i \in 1 .. Len(q) : q[i].key = key /\ q[i].assigned
                                      /\ \A j \in 1 .. i - 1 : ~q[j].stops}
<1>1. key \in {q[j].key : j \in {k \in Parsed(q) : q[k].assigned}}
  BY Zenon DEF Has, params_
<1>2. given # {} /\ given \subseteq Nat
  BY <1>1 DEF Parsed
<1>3. PICK first \in given : \A i \in given : first <= i
  BY <1>2, MinIsLeast
<1>4. ASSUME NEW j \in DOMAIN q, j < first
      PROVE  ~q[j].stops /\ ~(q[j].key = key /\ q[j].assigned)
  <2>1. j \in 1 .. first - 1 /\ j \notin given /\ j \in 1 .. Len(q)
    BY <1>2, <1>3, <1>4
  <2>2. \A k \in 1 .. j - 1 : k \in 1 .. first - 1
    BY <1>2, <2>1
  <2> QED BY <1>3, <2>1, <2>2
<1>5. first \in FirstGiven(q, key)
  BY <1>3, <1>4 DEF FirstGiven
<1> QED BY <1>5

\* A value of the map is a sequence of tokens, none of them a line end if none
\* of the query's is.
LEMMA ValueIsTokens ==
  ASSUME NEW q \in Queries, NEW key, Has(params_(q), key)
  PROVE  \E U : params_(q)[key] \in Seq(U) /\ Crlf \notin U
<1> DEFINE set == {i \in Parsed(q) : q[i].assigned /\ q[i].key = key}
           value == q[Min(set)].value
<1>0. q \in Seq(Part) /\ Len(q) \in Nat /\ DOMAIN q = 1 .. Len(q)
  <2>1. q \in Seq(Part)
    BY HandlerAssumption
  <2> QED BY <2>1
<1>1. {i \in {j \in Parsed(q) : q[j].assigned} : q[i].key = key} = set
  OBVIOUS
<1>2. key \in {q[i].key : i \in {j \in Parsed(q) : q[j].assigned}}
  BY Zenon DEF Has, params_
<1>3. params_(q)[key] = Lowered(value)
  BY <1>1, <1>2, Zenon DEF params_
<1>4. set # {} /\ set \subseteq Nat /\ set \subseteq DOMAIN q
  BY <1>0, <1>2 DEF Parsed
<1> HIDE DEF set
<1>5. Min(set) \in DOMAIN q
  BY <1>4, MinIsLeast
<1>6. value \in Seq(STRING) /\ \A k \in DOMAIN value : value[k] # Crlf
  <2>1. q[Min(set)] \in Part
    BY <1>0, <1>5
  <2> QED BY <1>5, <2>1, HandlerAssumption DEF Part
<1> HIDE DEF value
<1>7. PICK n, w : n \in Nat /\ n = Len(value) /\ w = Lowered(value)
  BY <1>6
<1> DEFINE U == {to_lower(value[k]) : k \in 1 .. n}
<1>8. w = [k \in 1 .. n |-> to_lower(value[k])]
  BY <1>6, <1>7 DEF Lowered
<1>9. w \in Seq(U)
  BY <1>7, <1>8
<1>10. \A k \in 1 .. n : to_lower(value[k]) # Crlf
  <2>1. \A k \in 1 .. n : value[k] # Crlf
    BY <1>6, <1>7
  <2> QED BY <2>1 DEF to_lower, Crlf
<1>11. Crlf \notin U
  BY <1>10
<1> QED BY <1>3, <1>7, <1>9, <1>11, Zenon

\* The text of a value is a type only if the value is that type alone.
LEMMA TextIsToken ==
  ASSUME NEW U, NEW value \in Seq(U), NEW mime, mime \in DOMAIN r_mappings
  PROVE  Text(value) = mime <=> value = <<mime>>
<1>1. mime # "" /\ mime # SomeList
  BY DEF r_mappings, SomeList
<1>2. CASE value = <<>>
  BY <1>1, <1>2 DEF Text
<1>3. CASE Len(value) = 1
  <2>1. value = <<value[1]>> /\ value # <<>>
    BY <1>3
  <2> QED BY <1>3, <2>1 DEF Text
<1>4. CASE value # <<>> /\ Len(value) # 1
  <2>1. value # <<mime>>
    BY <1>4
  <2> QED BY <1>1, <1>4, <2>1 DEF Text
<1> QED BY <1>2, <1>3, <1>4

\* The coordinates of a bounding box that parses are four numbers.
LEMMA FourCoordinates ==
  ASSUME NEW value, parse_bbox(value)
  PROVE  LET t == BboxTokens(value)
         IN  /\ \A k \in 1 .. 4 : IsNumber(t[k])
             /\ coordinates(t) = [k \in 1 .. 4 |-> Numerals[t[k]]]
<1> DEFINE t == BboxTokens(value)
           leaves == {i \in 0 .. 4 : i >= Len(t) \/ i = 4 \/ ~IsNumber(t[i + 1])}
<1>1. 4 \in leaves /\ leaves \subseteq Nat
  OBVIOUS
<1>2. Min(leaves) \in leaves /\ \A i \in leaves : Min(leaves) <= i
  BY <1>1, MinIsLeast
<1>3. coordinates(t) = [k \in 1 .. Min(leaves) |-> Numerals[t[k]]]
  BY DEF coordinates
<1>4. Min(leaves) \in 0 .. 4
  BY <1>2
<1> HIDE DEF t
<1>5. Min(leaves) = 4
  <2>1. Len(coordinates(t)) = 4
    BY DEF parse_bbox, t
  <2> QED BY <1>3, <1>4, <2>1
<1>6. ASSUME NEW k \in 1 .. 4 PROVE IsNumber(t[k])
  <2>1. k - 1 \in 0 .. 4 /\ k - 1 \notin leaves /\ (k - 1) + 1 = k
    BY <1>2, <1>5
  <2>2. IsNumber(t[(k - 1) + 1])
    BY <2>1
  <2> QED BY <2>1, <2>2
<1> QED BY <1>3, <1>5, <1>6 DEF t

\* Envelope::init puts two numbers of a dimension in order.
LEMMA TwoInOrder ==
  ASSUME NEW a \in Int, NEW b \in Int
  PROVE  {Min({a, b}), Max({a, b})} = {a, b} /\ Min({a, b}) <= Max({a, b})
<1>1. CASE a <= b
  <2>1. Min({a, b}) = a /\ Max({a, b}) = b
    BY <1>1 DEF Min, Max
  <2> QED BY <1>1, <2>1
<1>2. CASE b <= a
  <2>1. Min({a, b}) = b /\ Max({a, b}) = a
    BY <1>2 DEF Min, Max
  <2> QED BY <1>2, <2>1
<1> QED BY <1>1, <1>2

-----------------------------------------------------------------------------
(* The replies.                                                             *)

\* Every image begins like one, and nothing else does.
ImageStart == {"PNG", "SOI"}

\* Every encoder gives something that starts like an image.
LEMMA ImagesStart == \A e \in DOMAIN Encoded : Encoded[e] # <<>> /\ Encoded[e][1] \in ImageStart
BY DEF Encoded, ImageStart

\* No text of a refusal does.
LEMMA RefusalIsNoImage ==
  ASSUME NEW q, Refusal(q) # <<>> PROVE Refusal(q)[1] \notin ImageStart
BY DEF Refusal, ImageStart

\* Nor does the page of a bad request.
LEMMA StockIsNoImage ==
  Page(BadRequest)[1] \notin ImageStart /\ Page(BadRequest) # ImageWriterException
BY DEF Page, Ok, BadRequest, ImageStart, ImageWriterException

\* Whatever the MIME type, its extension is one that save_to_string has.
LEMMA ExtensionHasEncoder == \A mime : type_to_extension(mime) \in DOMAIN Encoded
BY DEF type_to_extension, r_mappings, Encoded

\* Which MIME types have an encoding other than PNG.
LEMMA ExtensionIs ==
  ASSUME NEW mime
  PROVE  /\ type_to_extension(mime) = "jpeg" <=> mime \in {"image/jpeg", "image/jpg"}
         /\ type_to_extension(mime) = "png8" <=> mime = "image/png8"
BY DEF type_to_extension, r_mappings

\* What the encoders give can be told apart.
LEMMA EncodedDiffers ==
  ASSUME NEW e \in DOMAIN Encoded
  PROVE  /\ Encoded[e] = Encoded.jpeg <=> e = "jpeg"
         /\ Encoded[e] = Encoded.png8 <=> e = "png8"
         /\ Encoded[e] # ImageWriterException
BY DEF Encoded, ImageWriterException

-----------------------------------------------------------------------------
(* What is on the wire.                                                     *)

\* The statuses that handle_request sets have words of their own.
LEMMA StatusesKnown == Ok \in DOMAIN Status /\ BadRequest \in DOMAIN Status
<1>1. <<Ok, "200 OK">> \in StatusStrings /\ <<BadRequest, "400 Bad Request">> \in StatusStrings
  BY DEF StatusStrings, Ok, BadRequest
<1>2. DOMAIN Status = {s[1] : s \in StatusStrings}
  BY DEF Status
<1>3. <<Ok, "200 OK">>[1] = Ok /\ <<BadRequest, "400 Bad Request">>[1] = BadRequest
  OBVIOUS
<1> QED BY <1>1, <1>2, <1>3, Zenon

\* A header line is four tokens, of which only the last is a line end.
LEMMA LinesAt ==
  ASSUME NEW headers, Len(headers) \in Nat, NEW j \in 1 .. Len(headers)
  PROVE  LET n == 4 * (j - 1)
         IN  /\ HeaderLines(headers)[n + 1] = headers[j].name
             /\ HeaderLines(headers)[n + 2] = ": "
             /\ HeaderLines(headers)[n + 3] = headers[j].value
             /\ HeaderLines(headers)[n + 4] = Crlf
<1> DEFINE n == 4 * (j - 1)
<1>1. ASSUME NEW k \in 1 .. 4 PROVE HeaderLines(headers)[n + k] = HeaderLine(headers[j])[k]
  <2>1. n + k \in 1 .. 4 * Len(headers)
    OBVIOUS
  <2>2. (n + k - 1) \div 4 + 1 = j /\ ((n + k - 1) % 4) + 1 = k
    OBVIOUS
  <2> QED BY <2>1, <2>2 DEF HeaderLines
<1>2. /\ HeaderLine(headers[j])[1] = headers[j].name
      /\ HeaderLine(headers[j])[2] = ": "
      /\ HeaderLine(headers[j])[3] = headers[j].value
      /\ HeaderLine(headers[j])[4] = Crlf
  BY DEF HeaderLine
<1>3. /\ HeaderLines(headers)[n + 1] = HeaderLine(headers[j])[1]
      /\ HeaderLines(headers)[n + 2] = HeaderLine(headers[j])[2]
      /\ HeaderLines(headers)[n + 3] = HeaderLine(headers[j])[3]
      /\ HeaderLines(headers)[n + 4] = HeaderLine(headers[j])[4]
  BY <1>1
<1> QED BY <1>2, <1>3

\* A function from 1 .. n is a sequence, and what follows a sequence follows it.
LEMMA OfFunction ==
  ASSUME NEW U, NEW n \in Nat, NEW f, f = [k \in 1 .. n |-> f[k]], \A k \in 1 .. n : f[k] \in U
  PROVE  f \in Seq(U) /\ Len(f) = n
<1>1. f \in [1 .. n -> U]
  BY Zenon
<1> QED BY <1>1

\* An element of a sequence is of the kind the sequence consists of.
LEMMA ElementOf == ASSUME NEW U, NEW s \in Seq(U), NEW n \in 1 .. Len(s) PROVE s[n] \in U
OBVIOUS

\* One sequence after another, and four of them.
LEMMA Followed ==
  ASSUME NEW U, NEW s \in Seq(U), NEW t \in Seq(U), NEW w, w = s \o t
  PROVE  /\ w \in Seq(U) /\ Len(w) = Len(s) + Len(t)
         /\ \A n \in 1 .. Len(s) : w[n] = s[n]
         /\ \A n \in 1 .. Len(t) : w[Len(s) + n] = t[n]
<1>1. s \o t \in Seq(U) /\ Len(s \o t) = Len(s) + Len(t)
  OBVIOUS
<1>2. \A n \in 1 .. Len(s) : (s \o t)[n] = s[n]
  OBVIOUS
<1>3. ASSUME NEW n \in 1 .. Len(t) PROVE (s \o t)[Len(s) + n] = t[n]
  OBVIOUS
<1> QED BY <1>1, <1>2, <1>3

\* The parts of a reply: status line, headers, empty line, content.
LEMMA FourInARow ==
  ASSUME NEW U, NEW a \in Seq(U), NEW b \in Seq(U), NEW c \in Seq(U), NEW d \in Seq(U),
         NEW s, s = a \o b \o c \o d
  PROVE  /\ Len(s) = Len(a) + Len(b) + Len(c) + Len(d)
         /\ \A n \in 1 .. Len(a) : s[n] = a[n]
         /\ \A n \in 1 .. Len(b) : s[Len(a) + n] = b[n]
         /\ \A n \in 1 .. Len(c) : s[Len(a) + Len(b) + n] = c[n]
         /\ \A n \in 1 .. Len(d) : s[Len(a) + Len(b) + Len(c) + n] = d[n]
<1>0. Len(a) \in Nat /\ Len(b) \in Nat /\ Len(c) \in Nat /\ Len(d) \in Nat
  OBVIOUS
<1>1. PICK ab : ab = a \o b
  OBVIOUS
<1>2. PICK abc : abc = ab \o c
  OBVIOUS
<1>3. s = abc \o d
  BY <1>1, <1>2, Zenon
<1>4. /\ ab \in Seq(U) /\ Len(ab) = Len(a) + Len(b)
      /\ \A n \in 1 .. Len(a) : ab[n] = a[n]
      /\ \A n \in 1 .. Len(b) : ab[Len(a) + n] = b[n]
  BY <1>1, Followed, SMTT(30)
<1>5. /\ abc \in Seq(U) /\ Len(abc) = Len(ab) + Len(c)
      /\ \A n \in 1 .. Len(ab) : abc[n] = ab[n]
      /\ \A n \in 1 .. Len(c) : abc[Len(ab) + n] = c[n]
  <2>1. ab \in Seq(U)
    BY <1>4
  <2> QED BY <1>2, <2>1, Followed
<1>6. /\ Len(s) = Len(abc) + Len(d)
      /\ \A n \in 1 .. Len(abc) : s[n] = abc[n]
      /\ \A n \in 1 .. Len(d) : s[Len(abc) + n] = d[n]
  <2>1. abc \in Seq(U)
    BY <1>5
  <2> QED BY <1>3, <2>1, Followed
<1>7. \A n \in 1 .. Len(a) : s[n] = a[n]
  BY <1>0, <1>4, <1>5, <1>6
<1>8. ASSUME NEW n \in 1 .. Len(b) PROVE s[Len(a) + n] = b[n]
  <2>1. Len(a) + n \in 1 .. Len(ab) /\ Len(a) + n \in 1 .. Len(abc)
    BY <1>0, <1>4, <1>5
  <2> QED BY <1>4, <1>5, <1>6, <2>1
<1>9. ASSUME NEW n \in 1 .. Len(c) PROVE s[Len(ab) + n] = c[n]
  <2>1. Len(ab) + n \in 1 .. Len(abc)
    BY <1>0, <1>4, <1>5
  <2> QED BY <1>5, <1>6, <2>1
<1> QED BY <1>4, <1>5, <1>6, <1>7, <1>8, <1>9

\* What comes where on the wire.
LEMMA WireIs ==
  ASSUME NEW rep, NEW T,
         rep.status \in DOMAIN Status, Len(rep.headers) \in Nat, rep.content \in Seq(T)
  PROVE  LET h == Len(rep.headers)
             L == Len(rep.content)
             e == 4 + 4 * h
             wire == to_buffers(rep)
         IN  /\ Len(wire) = e + L
             /\ wire[2] = Status[rep.status] /\ wire[3] = Crlf /\ wire[e] = Crlf
             /\ \A n \in 1 .. 4 * h : wire[3 + n] = HeaderLines(rep.headers)[n]
             /\ \A k \in 1 .. L : wire[e + k] = rep.content[k]
<1> DEFINE h == Len(rep.headers)
           L == Len(rep.content)
           e == 4 + 4 * h
           wire == to_buffers(rep)
<1>0. h \in Nat /\ L \in Nat
  OBVIOUS
<1> HIDE DEF h, L
<1> DEFINE hl == HeaderLines(rep.headers)
           head == <<"HTTP/1.0", Status[Known(rep.status)], Crlf>>
           U == {"HTTP/1.0", Status[Known(rep.status)], Crlf} \cup {hl[n] : n \in 1 .. 4 * h} \cup T
<1>1. hl = [n \in 1 .. 4 * h |-> hl[n]]
  BY <1>0 DEF HeaderLines, h
<1> HIDE DEF hl
<1>2. hl \in Seq(U) /\ Len(hl) = 4 * h
  <2>1. \A n \in 1 .. 4 * h : hl[n] \in U
    OBVIOUS
  <2>2. 4 * h \in Nat
    BY <1>0
  <2> HIDE DEF U
  <2> QED BY <1>1, <2>1, <2>2, OfFunction
<1>3. head \in Seq(U) /\ <<Crlf>> \in Seq(U) /\ rep.content \in Seq(U)
  OBVIOUS
<1>4. Len(head) = 3 /\ head[2] = Status[Known(rep.status)] /\ head[3] = Crlf
  OBVIOUS
<1>5. Len(<<Crlf>>) = 1 /\ <<Crlf>>[1] = Crlf
  OBVIOUS
<1>6. Known(rep.status) = rep.status
  BY DEF Known
<1>7. wire = head \o hl \o <<Crlf>> \o rep.content
  BY DEF to_buffers, hl
<1> HIDE DEF head, U, wire
<1>8. PICK first \in Seq(U), lines \in Seq(U), blank \in Seq(U), content \in Seq(U) :
        first = head /\ lines = hl /\ blank = <<Crlf>> /\ content = rep.content
  BY <1>2, <1>3, Zenon
<1>9. PICK w : w = first \o lines \o blank \o content
  OBVIOUS
<1>10. /\ Len(w) = 3 + 4 * h + 1 + L
       /\ \A n \in 1 .. 3 : w[n] = head[n]
       /\ \A n \in 1 .. 4 * h : w[3 + n] = hl[n]
       /\ \A n \in 1 .. 1 : w[3 + 4 * h + n] = blank[n]
       /\ \A n \in 1 .. L : w[3 + 4 * h + 1 + n] = rep.content[n]
  <2>1. /\ Len(w) = Len(first) + Len(lines) + Len(blank) + Len(content)
        /\ \A n \in 1 .. Len(first) : w[n] = first[n]
        /\ \A n \in 1 .. Len(lines) : w[Len(first) + n] = lines[n]
        /\ \A n \in 1 .. Len(blank) : w[Len(first) + Len(lines) + n] = blank[n]
        /\ \A n \in 1 .. Len(content) :
             w[Len(first) + Len(lines) + Len(blank) + n] = content[n]
    BY <1>9, FourInARow, SMTT(30)
  <2>2. Len(first) = 3 /\ Len(lines) = 4 * h /\ Len(blank) = 1 /\ Len(content) = L
    BY <1>2, <1>4, <1>5, <1>8 DEF L
  <2> QED BY <1>8, <2>1, <2>2, ZenonT(30)
<1>11. w[2] = Status[rep.status] /\ w[3] = Crlf /\ w[e] = Crlf
  <2>1. 2 \in 1 .. 3 /\ 3 \in 1 .. 3 /\ 1 \in 1 .. 1 /\ 3 + 4 * h + 1 = e
    BY <1>0
  <2> QED BY <1>4, <1>5, <1>6, <1>8, <1>10, <2>1
<1>12. Len(w) = e + L /\ \A k \in 1 .. L : w[e + k] = rep.content[k]
  <2>1. 3 + 4 * h + 1 + L = e + L /\ \A k \in 1 .. L : 3 + 4 * h + 1 + k = e + k
    BY <1>0
  <2> HIDE DEF e
  <2> QED BY <1>10, <2>1
<1>13. wire = w
  BY <1>7, <1>8, <1>9
<1>14. \A n \in 1 .. 4 * h : w[3 + n] = HeaderLines(rep.headers)[n]
  BY <1>10 DEF hl
<1> HIDE DEF e
<1>15. /\ Len(wire) = e + L
       /\ wire[2] = Status[rep.status] /\ wire[3] = Crlf /\ wire[e] = Crlf
       /\ \A n \in 1 .. 4 * h : wire[3 + n] = HeaderLines(rep.headers)[n]
       /\ \A k \in 1 .. L : wire[e + k] = rep.content[k]
  BY <1>11, <1>12, <1>13, <1>14, Zenon
<1> QED BY <1>15, Zenon DEF e, wire, L, h

\* A reply is taken off the wire as it is if its status is known, no header
\* holds a line end, one of them is the type and one the length of its content.
LEMMA FramedIf ==
  ASSUME NEW rep, NEW T, NEW N, NEW V,
         rep.status \in DOMAIN Status, rep.content \in Seq(T),
         rep.headers \in Seq([name : N, value : V]), Crlf \notin N, Crlf \notin V,
         \E j \in 1 .. Len(rep.headers) : rep.headers[j].name = "Content-Type",
         \E j \in 1 .. Len(rep.headers) : rep.headers[j] = ContentLength(rep.content)
  PROVE  Framed(to_buffers(rep), rep)
<1> DEFINE h == Len(rep.headers)
           L == Len(rep.content)
           e == 4 + 4 * h
           wire == to_buffers(rep)
<1>0. h \in Nat /\ L \in Nat /\ rep.content = [k \in 1 .. L |-> rep.content[k]]
  OBVIOUS
<1> HIDE DEF h, L
<1>1. /\ Len(wire) = e + L
      /\ wire[2] = Status[rep.status] /\ wire[3] = Crlf /\ wire[e] = Crlf
      /\ \A n \in 1 .. 4 * h : wire[3 + n] = HeaderLines(rep.headers)[n]
      /\ \A k \in 1 .. L : wire[e + k] = rep.content[k]
  BY <1>0, WireIs DEF h, L
<1>2. ASSUME NEW j \in 1 .. h
      PROVE  /\ wire[4 * j] = rep.headers[j].name
             /\ wire[4 * j + 1] = ": "
             /\ wire[4 * j + 2] = rep.headers[j].value
             /\ wire[4 * j + 3] = Crlf
  <2> DEFINE n == 4 * (j - 1)
  <2>1. /\ n + 1 \in 1 .. 4 * h /\ n + 2 \in 1 .. 4 * h /\ n + 3 \in 1 .. 4 * h /\ n + 4 \in 1 .. 4 * h
        /\ 3 + (n + 1) = 4 * j /\ 3 + (n + 2) = 4 * j + 1 /\ 3 + (n + 3) = 4 * j + 2
        /\ 3 + (n + 4) = 4 * j + 3
    <3>1. n \in Nat /\ n + 4 <= 4 * h /\ n = 4 * j - 4 /\ 4 * h \in Nat /\ 4 * j \in Nat
      BY <1>0
    <3>2. PICK x \in Nat, y \in Nat, z \in Nat : x = n /\ y = 4 * j /\ z = 4 * h
      BY <3>1, Zenon
    <3>3. x + 4 <= z /\ x = y - 4
      BY <3>1, <3>2, Zenon
    <3>4. /\ x + 1 \in 1 .. z /\ x + 2 \in 1 .. z /\ x + 3 \in 1 .. z /\ x + 4 \in 1 .. z
          /\ 3 + (x + 1) = y /\ 3 + (x + 2) = y + 1 /\ 3 + (x + 3) = y + 2 /\ 3 + (x + 4) = y + 3
      BY <3>3
    <3> QED BY <3>2, <3>4, Zenon
  <2>2. /\ HeaderLines(rep.headers)[n + 1] = rep.headers[j].name
        /\ HeaderLines(rep.headers)[n + 2] = ": "
        /\ HeaderLines(rep.headers)[n + 3] = rep.headers[j].value
        /\ HeaderLines(rep.headers)[n + 4] = Crlf
    BY <1>0, LinesAt DEF h
  <2> HIDE DEF n, wire
  <2>3. \A k \in {n + 1, n + 2, n + 3, n + 4} : wire[3 + k] = HeaderLines(rep.headers)[k]
    BY <1>1, <2>1
  <2> QED BY <2>1, <2>2, <2>3
<1>3. \A j \in 1 .. h : rep.headers[j].name # Crlf /\ rep.headers[j].value # Crlf
  <2>1. \A j \in 1 .. h : rep.headers[j] \in [name : N, value : V]
    BY Zenon, ElementOf DEF h
  <2> QED BY <2>1
<1> HIDE DEF wire
<1>4. ASSUME NEW i \in 4 .. Len(wire), wire[i - 1] = Crlf, wire[i] = Crlf PROVE e <= i
  <2> SUFFICES ASSUME i < e PROVE FALSE
    BY <1>0, <1>1
  <2>1. PICK j \in 1 .. h : i \in 4 * j .. 4 * j + 3
    <3>1. i \div 4 \in 1 .. h /\ i \in 4 * (i \div 4) .. 4 * (i \div 4) + 3
      BY <1>0
    <3> QED BY <3>1
  <2>2. i = 4 * j \/ i = 4 * j + 1 \/ i = 4 * j + 2 \/ (i = 4 * j + 3 /\ i - 1 = 4 * j + 2)
    BY <1>0, <2>1
  <2>3. /\ wire[4 * j] # Crlf /\ wire[4 * j + 1] # Crlf /\ wire[4 * j + 2] # Crlf
    BY <1>2, <1>3 DEF Crlf
  <2> QED BY <1>4, <2>2, <2>3
<1>5. e \in EmptyLines(wire)
  <2>1. e - 1 = 3 \/ (h \in 1 .. h /\ e - 1 = 4 * h + 3)
    BY <1>0
  <2>2. wire[e - 1] = Crlf
    BY <1>1, <1>2, <2>1, ZenonT(30)
  <2> QED BY <1>0, <1>1, <2>2 DEF EmptyLines
<1>6. \E i \in 4 .. e : wire[i] = "Content-Type"
  <2>1. PICK j \in 1 .. h : rep.headers[j].name = "Content-Type"
    BY DEF h
  <2>2. 4 * j \in 4 .. e
    BY <1>0
  <2> QED BY <1>2, <2>1, <2>2
<1>7. \E i \in 4 .. e - 3 : wire[i] = "Content-Length" /\ wire[i + 2] = Decimal(Len(wire) - e)
  <2>1. PICK j \in 1 .. h : rep.headers[j] = ContentLength(rep.content)
    BY DEF h
  <2>2. rep.headers[j].name = "Content-Length" /\ rep.headers[j].value = Decimal(L)
    BY <2>1 DEF ContentLength, Header, L
  <2>3. 4 * j \in 4 .. e - 3 /\ Len(wire) - e = L
    BY <1>0, <1>1
  <2> QED BY <1>2, <2>2, <2>3
<1>8. rep.content = [i \in 1 .. Len(wire) - e |-> wire[e + i]]
  <2>1. Len(wire) - e = L
    BY <1>0, <1>1
  <2> QED BY <1>0, <1>1, <2>1
<1>9. \A i \in EmptyLines(wire) : e <= i
  BY <1>4 DEF EmptyLines
<1>10. wire[2] = Status[rep.status]
  BY <1>1
<1> HIDE DEF e
<1> QED BY <1>5, <1>6, <1>7, <1>8, <1>9, <1>10 DEF Framed, wire

-----------------------------------------------------------------------------
(* The steps.                                                               *)

HIInv == TypeOK /\ EncodedAsAsked /\ DrawnAsAsked

\* The invariant, step by step.
LEMMA InitHolds == ASSUME Init PROVE HIInv
<1>1. TypeOK
  BY DEF Init, TypeOK, NoReply, Ok, BadRequest
<1>2. reply.content = <<>>
  BY DEF Init, NoReply
<1>4. ~Drawn
  BY <1>2, ImagesStart DEF Drawn
<1>3. EncodedAsAsked
  BY <1>2, <1>4 DEF EncodedAsAsked, ImageWriterException
<1> QED BY <1>1, <1>3, <1>4 DEF HIInv, DrawnAsAsked

\* A reply that begins like no image leaves the invariant to the type.
LEMMA UndrawnHolds ==
  ASSUME TypeOK', reply'.content[1] \notin ImageStart, reply'.content # ImageWriterException
  PROVE  HIInv'
<1>1. ~Drawn'
  BY ImagesStart DEF Drawn, Encoded
<1> QED BY <1>1 DEF HIInv, DrawnAsAsked, EncodedAsAsked

\* A request that is refused changes nothing of the map.
LEMMA RefuseHolds == ASSUME HIInv, NEW q \in Queries, Refuse(q) PROVE HIInv'
<1>1. TypeOK'
  BY DEF HIInv, TypeOK, Refuse, reply_html
<1>2. reply'.content = Refusal(q)
  BY DEF Refuse, reply_html
<1>3. Refusal(q) # <<>> /\ Refusal(q)[1] \notin ImageStart
  BY RefusalIsNoImage DEF Refuse
<1>4. Refusal(q) # ImageWriterException
  BY <1>3 DEF Refusal, ImageWriterException
<1> QED BY <1>1, <1>2, <1>3, <1>4, UndrawnHolds

\* Nor does one that cannot be decoded.
LEMMA RefuseEncodingHolds == ASSUME HIInv, RefuseEncoding PROVE HIInv'
<1>1. TypeOK'
  BY DEF HIInv, TypeOK, RefuseEncoding, stock_reply
<1>2. reply'.content = Page(BadRequest)
  BY DEF RefuseEncoding, stock_reply
<1> QED BY <1>1, <1>2, StockIsNoImage, UndrawnHolds

\* What is set in the map before an image is rendered is what is asked for.
LEMMA RenderHolds == ASSUME HIInv, NEW q \in Queries, Render(q) PROVE HIInv'
<1> DEFINE p == params_(q)
<1>0. q \in Seq(Part) /\ query' = q /\ map_' = Settings(p) /\ Refusal(q) = <<>>
  BY HandlerAssumption DEF Render
<1>1. /\ Has(p, "bbox") /\ parse_bbox(p["bbox"])
      /\ Has(p, "width") /\ Has(p, "height")
      /\ Has(p, "layers") /\ Has(p, "srs")
  BY <1>0 DEF Refusal
<1>2. TypeOK'
  <2>1. map_'.active \subseteq LayerNames
    BY <1>0 DEF Settings, active
  <2>2. reply'.status = Ok
    BY DEF Render, image_reply
  <2> QED BY <1>0, <2>1, <2>2 DEF TypeOK
<1>4. \A key : Has(p, key) => Asked(query', key) = p[key]
  <2> SUFFICES ASSUME NEW key, Has(p, key) PROVE Asked(query', key) = p[key]
    OBVIOUS
  <2> QED BY <1>0, ParamIsGiven
<1>3. EncodedAsAsked'
  <2> DEFINE format == IF FirstGiven(q, "format") = {} THEN <<"image/png">>
                       ELSE Asked(q, "format")
  <2>1. PICK e : e = type_to_extension(Mime(p))
    OBVIOUS
  <2>2. e \in DOMAIN Encoded /\ reply'.content = Encoded[e]
    BY <2>1, ExtensionHasEncoder DEF Render, image_reply, save_to_string
  <2>3. (\E U : format \in Seq(U)) /\ Mime(p) = Text(format)
    <3>1. CASE Has(p, "format")
      <4>1. format = p["format"]
        BY <1>0, <1>4, <3>1, PresentIsGiven
      <4> QED BY <3>1, <4>1, ValueIsTokens DEF Mime
    <3>2. CASE ~Has(p, "format")
      <4>1. format = <<"image/png">>
        BY <1>0, <3>2, AbsentIsNotGiven
      <4>2. Text(<<"image/png">>) = "image/png" /\ <<"image/png">> \in Seq({"image/png"})
        BY DEF Text
      <4> QED BY <3>2, <4>1, <4>2, Zenon DEF Mime
    <3> QED BY <3>1, <3>2
  <2> HIDE DEF format
  <2>4. /\ Mime(p) \in {"image/jpeg", "image/jpg"} <=> format \in {<<"image/jpeg">>, <<"image/jpg">>}
        /\ Mime(p) = "image/png8" <=> format = <<"image/png8">>
    <3>1. \A mime \in {"image/jpeg", "image/jpg", "image/png8"} : mime \in DOMAIN r_mappings
      BY DEF r_mappings
    <3> QED BY <2>3, <3>1, TextIsToken
  <2>5. /\ reply'.content = Encoded.jpeg <=> format \in {<<"image/jpeg">>, <<"image/jpg">>}
        /\ reply'.content = Encoded.png8 <=> format = <<"image/png8">>
        /\ reply'.content # ImageWriterException
    BY <2>1, <2>2, <2>4, ExtensionIs, EncodedDiffers
  <2> QED BY <1>0, <2>5, Zenon DEF EncodedAsAsked, format
<1>5. map_'.srs = Asked(query', "srs")
  BY <1>0, <1>1, <1>4 DEF Settings
<1>11. map_'.size = <<ToUnsigned(atoi(Asked(query', "width"))),
                      ToUnsigned(atoi(Asked(query', "height")))>>
  BY <1>0, <1>1, <1>4 DEF Settings, Width, Height
<1>6. ASSUME NEW name \in LayerNames
      PROVE  name \in map_'.active <=>
               \/ Asked(query', "layers") = <<All>>
               \/ \E i \in DOMAIN Asked(query', "layers") : Asked(query', "layers")[i] = name
  <2>1. Asked(query', "layers") = p["layers"] /\ map_'.active = active(p)
    BY <1>0, <1>1, <1>4 DEF Settings
  <2>2. name # ""
    BY HandlerAssumption
  <2>3. name \in active(p) <=> \/ p["layers"] = <<All>>
                              \/ \E i \in DOMAIN p["layers"] : p["layers"][i] = name
    BY <2>2 DEF active, parse_layer_string
  <2> QED BY <2>1, <2>3
<1> DEFINE t == BboxTokens(p["bbox"])
<1>7. (\A k \in 1 .. 4 : IsNumber(t[k])) /\ coordinates(t) = [k \in 1 .. 4 |-> Numerals[t[k]]]
  BY <1>1, FourCoordinates
<1>8. map_'.extent = Envelope(Numerals[t[1]], Numerals[t[2]], Numerals[t[3]], Numerals[t[4]])
  BY <1>0, <1>7 DEF Settings, bbox
<1>9. \A k \in 1 .. 4 : Numerals[t[k]] \in Int
  BY <1>7 DEF IsNumber, Numerals
<1>10. DrawnAsAsked'
  <2>1. /\ {map_'.extent.minx, map_'.extent.maxx} = {Numerals[t[1]], Numerals[t[3]]}
        /\ {map_'.extent.miny, map_'.extent.maxy} = {Numerals[t[2]], Numerals[t[4]]}
        /\ map_'.extent.minx <= map_'.extent.maxx /\ map_'.extent.miny <= map_'.extent.maxy
    <3>1. Numerals[t[1]] \in Int /\ Numerals[t[2]] \in Int
          /\ Numerals[t[3]] \in Int /\ Numerals[t[4]] \in Int
      BY <1>9
    <3> HIDE DEF t
    <3>2. PICK x0 \in Int, y0 \in Int, x1 \in Int, y1 \in Int :
            /\ x0 = Numerals[t[1]] /\ y0 = Numerals[t[2]]
            /\ x1 = Numerals[t[3]] /\ y1 = Numerals[t[4]]
      BY <3>1
    <3>3. map_'.extent = Envelope(x0, y0, x1, y1)
      BY <1>8, <3>2
    <3>4. /\ map_'.extent.minx = Min({x0, x1}) /\ map_'.extent.maxx = Max({x0, x1})
          /\ map_'.extent.miny = Min({y0, y1}) /\ map_'.extent.maxy = Max({y0, y1})
      BY <3>3 DEF Envelope
    <3>5. /\ {Min({x0, x1}), Max({x0, x1})} = {x0, x1} /\ Min({x0, x1}) <= Max({x0, x1})
          /\ {Min({y0, y1}), Max({y0, y1})} = {y0, y1} /\ Min({y0, y1}) <= Max({y0, y1})
      BY TwoInOrder
    <3> QED BY <3>2, <3>4, <3>5
  <2>2. Asked(query', "bbox") = p["bbox"]
    BY <1>1, <1>4
  <2> QED BY <1>5, <1>6, <1>7, <1>11, <2>1, <2>2, Zenon DEF DrawnAsAsked
<1> QED BY <1>2, <1>3, <1>10 DEF HIInv

\* The invariant holds for ever.
LEMMA HoldsAlways == Spec => []HIInv
<1>1. Init => HIInv
  BY InitHolds
<1>2. HIInv /\ [Next]_vars => HIInv'
  <2> SUFFICES ASSUME HIInv, [Next]_vars PROVE HIInv'
    OBVIOUS
  <2>1. CASE RefuseEncoding
    BY <2>1, RefuseEncodingHolds
  <2>2. ASSUME NEW q \in Queries, handle_request(q) PROVE HIInv'
    BY <2>2, RefuseHolds, RenderHolds DEF handle_request
  <2>3. CASE UNCHANGED vars
    BY <2>3 DEF vars, HIInv, TypeOK, EncodedAsAsked, DrawnAsAsked, Drawn
  <2> QED BY <2>1, <2>2, <2>3 DEF Next
<1> QED BY <1>1, <1>2, PTL DEF Spec

\* A layer that is active is one of the map, and a reply has a status that
\* handle_request sets (request_handler.cpp:99-187, 211-231, 295).
THEOREM TypeCorrect == Spec => []TypeOK
<1>1. HIInv => TypeOK
  BY DEF HIInv
<1> QED BY <1>1, HoldsAlways, PTL

\* Every image has the encoding of the format its query asks for, or is a PNG;
\* no client names a format that save_to_string would throw on
\* (request_handler.cpp:289-296, mime_types.cpp:59-70).
THEOREM FormatIsAsAsked == Spec => []EncodedAsAsked
<1>1. HIInv => EncodedAsAsked
  BY DEF HIInv
<1> QED BY <1>1, HoldsAlways, PTL

\* An image shows the layers, srs, size and extent of its own request, for
\* every sequence of requests to one map (request_handler.cpp:151-256).
THEOREM ImageIsAsAsked == Spec => []DrawnAsAsked
<1>1. HIInv => DrawnAsAsked
  BY DEF HIInv
<1> QED BY <1>1, HoldsAlways, PTL

-----------------------------------------------------------------------------
(* What the client takes off the wire.                                      *)

\* The lengths that occur here are written without a line end.
LEMMA DecimalIsText == \A n \in 0 .. 5 : Decimal(n) # Crlf
BY DEF Decimal, Crlf

\* The two orders of the headers.
LEMMA LengthThenType ==
  ASSUME NEW status \in DOMAIN Status, NEW T, NEW content \in Seq(T), Len(content) \in 0 .. 5
  PROVE  LET rep == [status |-> status, content |-> content,
                     headers |-> <<ContentLength(content), TextHtml>>]
         IN  Framed(to_buffers(rep), rep)
<1> DEFINE headers == <<ContentLength(content), TextHtml>>
           rep == [status |-> status, content |-> content, headers |-> headers]
           N == {"Content-Length", "Content-Type"}
           V == {Decimal(Len(content)), "text/html"}
<1>1. headers \in Seq([name : N, value : V]) /\ Len(headers) = 2
  BY DEF ContentLength, TextHtml, Header
<1>2. Crlf \notin N /\ Crlf \notin V
  BY DecimalIsText DEF Crlf
<1>3. headers[1] = ContentLength(content) /\ headers[2].name = "Content-Type"
  BY DEF TextHtml, Header
<1>4. rep.status = status /\ rep.content = content /\ rep.headers = headers
  OBVIOUS
<1> HIDE DEF rep, headers, N, V
<1>5. 1 \in 1 .. Len(headers) /\ 2 \in 1 .. Len(headers)
  BY <1>1
<1>6. \E j \in 1 .. Len(headers) : headers[j] = ContentLength(content)
  BY <1>3, <1>5
<1>7. \E j \in 1 .. Len(headers) : headers[j].name = "Content-Type"
  BY <1>3, <1>5
<1>8. Framed(to_buffers(rep), rep)
  BY <1>1, <1>2, <1>4, <1>6, <1>7, FramedIf, Zenon
<1> QED BY <1>8 DEF rep, headers

\* A reply with the three headers of an image is framed.
LEMMA TypeThenLength ==
  ASSUME NEW mime, mime # Crlf, NEW T, NEW content \in Seq(T), Len(content) \in 0 .. 5
  PROVE  LET rep == [status |-> Ok, content |-> content,
                     headers |-> <<Header("Content-Type", mime), Header("Server", "PaleoServer"),
                                   ContentLength(content)>>]
         IN  Framed(to_buffers(rep), rep)
<1> DEFINE headers == <<Header("Content-Type", mime), Header("Server", "PaleoServer"),
                        ContentLength(content)>>
           rep == [status |-> Ok, content |-> content, headers |-> headers]
           N == {"Content-Length", "Content-Type", "Server"}
           V == {Decimal(Len(content)), mime, "PaleoServer"}
<1>1. headers \in Seq([name : N, value : V]) /\ Len(headers) = 3
  BY DEF ContentLength, Header
<1>2. Crlf \notin N /\ Crlf \notin V
  BY DecimalIsText DEF Crlf
<1>3. headers[3] = ContentLength(content) /\ headers[1].name = "Content-Type"
  BY DEF Header
<1>4. rep.status = Ok /\ rep.content = content /\ rep.headers = headers
  OBVIOUS
<1> HIDE DEF rep, headers, N, V
<1>5. 1 \in 1 .. Len(headers) /\ 3 \in 1 .. Len(headers)
  BY <1>1
<1>6. \E j \in 1 .. Len(headers) : headers[j] = ContentLength(content)
  BY <1>3, <1>5
<1>7. \E j \in 1 .. Len(headers) : headers[j].name = "Content-Type"
  BY <1>3, <1>5
<1>8. Framed(to_buffers(rep), rep)
  BY <1>1, <1>2, <1>4, <1>6, <1>7, FramedIf, StatusesKnown, Zenon
<1> QED BY <1>8 DEF rep, headers

\* Every stock reply is framed.
LEMMA StockFramed ==
  ASSUME NEW status \in DOMAIN Status PROVE Framed(to_buffers(stock_reply(status)), stock_reply(status))
<1>0. PICK words : words = Status[Known(status)]
  OBVIOUS
<1> DEFINE T == {"<html>", "</html>", "204 Content", words}
<1>1. \/ Page(status) = <<>> \/ Page(status) = <<"<html>", "204 Content", "</html>">>
      \/ Page(status) = <<"<html>", words, "</html>">>
  BY <1>0 DEF Page
<1>2. Page(status) \in Seq(T) /\ Len(Page(status)) \in 0 .. 5
  <2>1. CASE Page(status) = <<>>
    BY <2>1
  <2>2. CASE Page(status) = <<"<html>", "204 Content", "</html>">>
    <3>1. "<html>" \in T /\ "204 Content" \in T /\ "</html>" \in T
      OBVIOUS
    <3> HIDE DEF T
    <3>2. PICK x \in T, y \in T, z \in T : Page(status) = <<x, y, z>>
      BY <2>2, <3>1, Zenon
    <3> QED BY <3>2
  <2>3. CASE Page(status) = <<"<html>", words, "</html>">>
    BY <2>3
  <2> QED BY <1>1, <2>1, <2>2, <2>3
<1> HIDE DEF T
<1> QED BY <1>2, LengthThenType DEF stock_reply

\* The message of a refusal is a short text.
LEMMA RefusalIsText ==
  ASSUME NEW q PROVE \E T : Refusal(q) \in Seq(T) /\ Len(Refusal(q)) \in 0 .. 5
<1> DEFINE p == params_(q)
           w == ToString(IF Has(p, "width") THEN Width(p) ELSE 0)
           h == ToString(IF Has(p, "width") /\ Has(p, "height") THEN Height(p) ELSE 0)
           T == {"Ready to accept Query", "missing bbox", "failed to parse bbox",
                 "missing width or height", w, h, "width and height must be > 0",
                 "missing layers", "missing srs"}
<1>1. \/ Refusal(q) = <<>>
      \/ \E x \in T : Refusal(q) = <<x>>
      \/ \E x \in T : Refusal(q) = <<x, w, h>>
  BY DEF Refusal
<1>2. w \in T /\ h \in T
  OBVIOUS
<1> HIDE DEF w, h, T
<1>3. Refusal(q) \in Seq(T) /\ Len(Refusal(q)) \in 0 .. 5
  <2>1. CASE Refusal(q) = <<>>
    BY <2>1
  <2>2. CASE \E x \in T : Refusal(q) = <<x>>
    BY <2>2
  <2>3. CASE \E x \in T : Refusal(q) = <<x, w, h>>
    BY <1>2, <2>3
  <2> QED BY <1>1, <2>1, <2>2, <2>3
<1> QED BY <1>3, Zenon

\* The MIME type of a reply, the value of the query or a constant, holds no
\* line end.
LEMMA MimeIsText ==
  ASSUME NEW q \in Queries PROVE Mime(params_(q)) # Crlf
<1> DEFINE p == params_(q)
<1>1. CASE ~Has(p, "format")
  BY <1>1 DEF Mime, Crlf
<1>2. CASE Has(p, "format")
  <2>1. PICK U : p["format"] \in Seq(U) /\ Crlf \notin U
    BY <1>2, ValueIsTokens
  <2>2. Text(p["format"]) # Crlf
    BY <2>1 DEF Text, SomeList, Crlf
  <2> QED BY <1>2, <2>2 DEF Mime
<1> QED BY <1>1, <1>2

\* Every image is framed, whatever empty lines its bytes look like.
LEMMA ImageFramed ==
  ASSUME NEW mime, mime # Crlf PROVE Framed(to_buffers(image_reply(mime)), image_reply(mime))
<1> DEFINE content == save_to_string(type_to_extension(mime))
           T == {"PNG", Crlf, "IHDR", "PLTE", "SOI"}
<1>1. content \in Seq(T) /\ Len(content) \in 0 .. 5
  <2>1. content \in {Encoded[e] : e \in DOMAIN Encoded}
    BY ExtensionHasEncoder DEF save_to_string
  <2> HIDE DEF content
  <2>2. \/ content = <<"PNG", Crlf, Crlf, "IHDR">>
        \/ content = <<"PNG", Crlf, Crlf, "IHDR", "PLTE">>
        \/ content = <<"SOI">>
    BY <2>1 DEF Encoded
  <2>3. CASE content = <<"PNG", Crlf, Crlf, "IHDR">>
    BY <2>3
  <2>4. CASE content = <<"PNG", Crlf, Crlf, "IHDR", "PLTE">>
    BY <2>4
  <2>5. CASE content = <<"SOI">>
    BY <2>5
  <2> QED BY <2>2, <2>3, <2>4, <2>5
<1> HIDE DEF T
<1> QED BY <1>1, TypeThenLength DEF image_reply

\* What a client takes off the wire, trusting Content-Length and the first empty
\* line, is the reply: every page and every image, whatever is asked for
\* (reply.cpp:103-118, 242-266, request_handler.cpp:295-303).
THEOREM ClientReadsReply == Spec => []FramedForClient
<1>1. Init => FramedForClient
  BY StockFramed DEF Init, FramedForClient
<1>2. FramedForClient /\ [Next]_vars => FramedForClient'
  <2> SUFFICES ASSUME FramedForClient, [Next]_vars
               PROVE  reply' # NoReply => Framed(to_buffers(reply'), reply')
    BY StockFramed DEF FramedForClient
  <2>1. CASE RefuseEncoding
    BY <2>1, StockFramed, StatusesKnown DEF RefuseEncoding
  <2>2. ASSUME NEW q \in Queries, Refuse(q) PROVE Framed(to_buffers(reply'), reply')
    <3>1. PICK T : Refusal(q) \in Seq(T) /\ Len(Refusal(q)) \in 0 .. 5
      BY RefusalIsText
    <3>2. Framed(to_buffers(reply_html(Refusal(q))), reply_html(Refusal(q)))
      BY <3>1, LengthThenType, StatusesKnown DEF reply_html
    <3> QED BY <2>2, <3>2 DEF Refuse
  <2>3. ASSUME NEW q \in Queries, Render(q) PROVE Framed(to_buffers(reply'), reply')
    BY <2>3, MimeIsText, ImageFramed DEF Render
  <2>4. CASE UNCHANGED vars
    BY <2>4 DEF vars, FramedForClient
  <2> QED BY <2>1, <2>2, <2>3, <2>4 DEF Next, handle_request
<1> QED BY <1>1, <1>2, PTL DEF Spec

=============================================================================
