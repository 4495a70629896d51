---------------------------- MODULE MeaningProofs ----------------------------
(***************************************************************************)
(* How the meaning of a request grows with its characters: the grammar     *)
(* says of position n + 1 to which part of the request it belongs, and     *)
(* Meaning(s, n + 1) is Meaning(s, n) with that character added there.     *)
(***************************************************************************)
EXTENDS HttpGrammar, FiniteSetTheorems, TLAPS

-----------------------------------------------------------------------------
(* The k-th of a set of positions.                                          *)

\* A finite set of positions.
Positions(P) == IsFiniteSet(P) /\ P \subseteq Nat

\* Some of the positions up to n.
LEMMA PositionsTo ==
  ASSUME NEW n \in Nat, NEW P, P \subseteq 1 .. n
  PROVE  Positions(P)
<1>1. IsFiniteSet(1 .. n)
  BY FS_Interval
<1>2. P \in SUBSET (1 .. n) /\ P \subseteq Nat
  OBVIOUS
<1>3. IsFiniteSet(P)
  BY <1>1, <1>2, FS_Subset
<1> QED BY <1>2, <1>3 DEF Positions

\* The rank of a position is at most the number of positions.
LEMMA RankTyped ==
  ASSUME NEW P, Positions(P)
  PROVE  Cardinality(P) \in Nat /\ \A p : Rank(P, p) \in 0 .. Cardinality(P)
<1>1. IsFiniteSet(P) /\ Cardinality(P) \in Nat
  BY FS_CardinalityType DEF Positions
<1>2. ASSUME NEW p PROVE Rank(P, p) \in 0 .. Cardinality(P)
  <2> DEFINE Q == {q \in P : q <= p}
  <2>1. Q \in SUBSET P
    OBVIOUS
  <2>2. IsFiniteSet(Q) /\ Cardinality(Q) <= Cardinality(P)
    BY <1>1, <2>1, FS_Subset
  <2>3. Cardinality(Q) \in Nat
    BY <2>2, FS_CardinalityType
  <2> QED BY <1>1, <2>2, <2>3 DEF Rank
<1> QED BY <1>1, <1>2

\* Of two positions the greater one has the greater rank.
LEMMA RankGrows ==
  ASSUME NEW P, Positions(P), NEW p \in P, NEW q \in P, p < q
  PROVE  Rank(P, p) < Rank(P, q)
<1> DEFINE A == {r \in P : r <= p}
           B == {r \in P : r <= q}
<1>0. P \subseteq Nat
  BY DEF Positions
<1>1. B \in SUBSET P /\ A \in SUBSET B
  <2>1. \A r \in P : r <= p => r <= q
    BY <1>0
  <2> QED BY <2>1
<1>2. q \in B /\ q \notin A
  BY DEF Positions
<1>3. IsFiniteSet(B)
  BY <1>1, FS_Subset DEF Positions
<1>4. Cardinality(A) <= Cardinality(B) /\ Cardinality(A) # Cardinality(B)
  <2> HIDE DEF A, B
  <2> QED BY <1>1, <1>2, <1>3, FS_Subset
<1>5. Rank(P, p) \in Int /\ Rank(P, q) \in Int
  BY RankTyped
<1> QED BY <1>4, <1>5 DEF Rank

\* Every rank is that of one position, Nth.
LEMMA NthThere ==
  ASSUME NEW P, Positions(P), NEW k \in 1 .. Cardinality(P)
  PROVE  Nth(P, k) \in P /\ Rank(P, Nth(P, k)) = k
<1> DEFINE C == Cardinality(P)
           f == [p \in P |-> Rank(P, p)]
<1>1. IsFiniteSet(P) /\ C \in Nat
  BY RankTyped DEF Positions
<1>2. f \in [P -> 1 .. C]
  <2> SUFFICES ASSUME NEW p \in P PROVE Rank(P, p) \in 1 .. C
    OBVIOUS
  <2> DEFINE Q == {q \in P : q <= p}
  <2>1. p \in Q /\ Q \in SUBSET P
    BY DEF Positions
  <2>2. IsFiniteSet(Q)
    BY <1>1, <2>1, FS_Subset
  <2>3. Cardinality(Q) # 0
    <3> HIDE DEF Q
    <3> QED BY <2>1, <2>2, FS_EmptySet
  <2>4. Rank(P, p) \in 0 .. C
    BY RankTyped
  <2> QED BY <1>1, <2>3, <2>4 DEF Rank
<1>3. \A p, q \in P : f[p] = f[q] => p = q
  <2> SUFFICES ASSUME NEW p \in P, NEW q \in P, Rank(P, p) = Rank(P, q), p # q PROVE FALSE
    OBVIOUS
  <2>1. p < q \/ q < p
    BY DEF Positions
  <2>2. Rank(P, p) \in Int /\ Rank(P, q) \in Int
    BY RankTyped
  <2> QED BY <2>1, <2>2, RankGrows
<1>4. f \in Injection(P, 1 .. C)
  BY <1>2, <1>3 DEF Injection, IsInjective
<1>5. IsFiniteSet(1 .. C) /\ Cardinality(1 .. C) = C
  BY <1>1, FS_Interval
<1>6. f \in Surjection(P, 1 .. C)
  BY <1>4, <1>5, FS_Injection
<1>7. \E p \in P : Rank(P, p) = k
  BY <1>6 DEF Surjection
<1> QED BY <1>7 DEF Nth, The

\* The last of the positions is the greatest.
LEMMA LastIsGreatest ==
  ASSUME NEW P, Positions(P), P # {}
  PROVE  /\ Cardinality(P) \in Nat \ {0}
         /\ Nth(P, Cardinality(P)) \in P
         /\ \A p \in P : p <= Nth(P, Cardinality(P))
<1> DEFINE C == Cardinality(P)
           m == Nth(P, C)
           Q == {q \in P : q <= m}
<1>1. IsFiniteSet(P) /\ C \in Nat /\ C # 0
  BY RankTyped, FS_EmptySet DEF Positions
<1>2. m \in P /\ Rank(P, m) = C
  BY <1>1, NthThere
<1>3. Q = P
  <2>1. Q \in SUBSET P /\ Cardinality(Q) = Cardinality(P)
    BY <1>2 DEF Rank
  <2> HIDE DEF Q
  <2> QED BY <1>1, <2>1, FS_Subset
<1> QED BY <1>1, <1>2, <1>3

\* One more position, after all the others, is the last one and changes no other.
LEMMA NthOn ==
  ASSUME NEW P, Positions(P), NEW n \in Nat, \A p \in P : p < n
  PROVE  /\ Cardinality(P \cup {n}) = Cardinality(P) + 1
         /\ \A k \in 1 .. Cardinality(P) : Nth(P \cup {n}, k) = Nth(P, k)
         /\ Nth(P \cup {n}, Cardinality(P) + 1) = n
<1> DEFINE C == Cardinality(P)
           Q == P \cup {n}
<1>0. C \in Nat
  BY RankTyped
<1>1. IsFiniteSet(P) /\ C \in Nat /\ n \notin P /\ P \subseteq Nat
  BY <1>0 DEF Positions
<1>2. Cardinality(Q) = C + 1
  BY <1>1, FS_AddElement
<1>3. ASSUME NEW p \in P PROVE Rank(Q, p) = Rank(P, p)
  <2>1. p < n /\ p \in Nat
    BY <1>1
  <2>2. {q \in Q : q <= p} = {q \in P : q <= p}
    BY <2>1
  <2> QED BY <2>2 DEF Rank
<1>4. Rank(Q, n) = C + 1
  <2>1. \A q \in Q : q <= n
    BY <1>1
  <2>2. {q \in Q : q <= n} = Q
    BY <2>1
  <2> QED BY <1>2, <2>2 DEF Rank
<1>5. ASSUME NEW k \in 1 .. C PROVE Nth(Q, k) = Nth(P, k)
  <2>1. Rank(Q, n) # k
    BY <1>1, <1>4
  <2>2. \A p : p \in Q /\ Rank(Q, p) = k <=> p \in P /\ Rank(P, p) = k
    BY <1>3, <2>1
  <2>3. {p \in Q : Rank(Q, p) = k} = {p \in P : Rank(P, p) = k}
    BY <2>2
  <2> QED BY <2>3 DEF Nth
<1>6. Nth(Q, C + 1) = n
  <2>1. \A p \in P : Rank(P, p) # C + 1
    BY <1>1, RankTyped
  <2>2. {p \in Q : Rank(Q, p) = C + 1} = {n}
    BY <1>3, <1>4, <2>1
  <2> QED BY <2>2 DEF Nth, The
<1> QED BY <1>2, <1>5, <1>6

\* What is read at one more position is appended.
LEMMA ReadOn ==
  ASSUME NEW s \in Seq(Char), NEW P, P \subseteq 1 .. Len(s), NEW n \in 1 .. Len(s),
         \A p \in P : p < n
  PROVE  Read(s, P \cup {n}) = Append(Read(s, P), s[n])
<1> DEFINE C == Cardinality(P)
           Q == P \cup {n}
<1>a. Len(s) \in Nat /\ n \in Nat
  OBVIOUS
<1>0. Positions(P)
  BY <1>a, PositionsTo
<1>b. C \in Nat
  BY <1>0, RankTyped
<1>1. /\ Cardinality(Q) = C + 1 /\ Nth(Q, C + 1) = n
      /\ \A k \in 1 .. C : Nth(Q, k) = Nth(P, k)
  BY <1>0, <1>a, NthOn
<1>2. ASSUME NEW k \in 1 .. C PROVE s[Nth(P, k)] \in Char
  <2>1. Nth(P, k) \in P
    BY <1>0, NthThere
  <2>2. Nth(P, k) \in 1 .. Len(s)
    BY <2>1
  <2> QED BY <2>2
<1>3. Read(s, P) = [k \in 1 .. C |-> s[Nth(P, k)]]
  BY DEF Read
<1>4. Read(s, Q) = [k \in 1 .. C + 1 |-> s[Nth(Q, k)]]
  BY <1>1 DEF Read
<1> HIDE DEF C, Q
<1>5. Read(s, P) \in Seq(Char) /\ Len(Read(s, P)) = C
  BY <1>b, <1>2, <1>3
<1>6. Append(Read(s, P), s[n]) =
        [k \in 1 .. C + 1 |-> IF k = C + 1 THEN s[n] ELSE Read(s, P)[k]]
  BY <1>b, <1>5
<1>7. ASSUME NEW k \in 1 .. C + 1
      PROVE  s[Nth(Q, k)] = IF k = C + 1 THEN s[n] ELSE Read(s, P)[k]
  BY <1>b, <1>1, <1>3
<1> QED BY <1>4, <1>6, <1>7 DEF Q

\* Nowhere there is nothing to read.
LEMMA ReadNothing == \A s : Read(s, {}) = <<>>
BY FS_EmptySet DEF Read

-----------------------------------------------------------------------------
(* One more character.                                                      *)

\* Q is P, with position n or without it.
LEMMA ReadGrows ==
  ASSUME NEW s \in Seq(Char), NEW n \in 1 .. Len(s), NEW P, P \subseteq 1 .. n - 1,
         NEW Q, Q \subseteq 1 .. n, \A p \in 1 .. n - 1 : p \in Q <=> p \in P
  PROVE  Read(s, Q) = IF n \in Q THEN Append(Read(s, P), s[n]) ELSE Read(s, P)
<1>0. \A p \in Q : p # n => p \in 1 .. n - 1
  OBVIOUS
<1>1. CASE n \in Q
  <2>1. \A p : p \in Q <=> p \in P \/ p = n
    BY <1>0, <1>1
  <2>2. P \subseteq 1 .. Len(s) /\ \A p \in P : p < n
    OBVIOUS
  <2>3. Read(s, P \cup {n}) = Append(Read(s, P), s[n])
    BY <2>2, ReadOn
  <2>4. Q = P \cup {n}
    BY <2>1
  <2> QED BY <1>1, <2>3, <2>4
<1>2. CASE n \notin Q
  <2>1. \A p : p \in Q <=> p \in P
    BY <1>0, <1>2
  <2>2. Q = P
    BY <2>1
  <2> QED BY <1>2, <2>2
<1> QED BY <1>1, <1>2

\* What position n adds to the method, to the URI, and to a name or a value.
LEMMA MethodGrows ==
  ASSUME NEW s \in Seq(Char), NEW n \in 1 .. Len(s)
  PROVE  Read(s, MethodAt(s, n)) =
           IF n \in MethodAt(s, n) THEN Append(Read(s, MethodAt(s, n - 1)), s[n])
                                   ELSE Read(s, MethodAt(s, n - 1))
<1>1. /\ MethodAt(s, n - 1) \subseteq 1 .. n - 1 /\ MethodAt(s, n) \subseteq 1 .. n
      /\ \A p \in 1 .. n - 1 : p \in MethodAt(s, n) <=> p \in MethodAt(s, n - 1)
  BY DEF MethodAt
<1> QED BY <1>1, ReadGrows

\* What it adds to the URI.
LEMMA UriGrows ==
  ASSUME NEW s \in Seq(Char), NEW n \in 1 .. Len(s)
  PROVE  Read(s, UriAt(s, n)) =
           IF n \in UriAt(s, n) THEN Append(Read(s, UriAt(s, n - 1)), s[n])
                                ELSE Read(s, UriAt(s, n - 1))
<1>1. /\ UriAt(s, n - 1) \subseteq 1 .. n - 1 /\ UriAt(s, n) \subseteq 1 .. n
      /\ \A p \in 1 .. n - 1 : p \in UriAt(s, n) <=> p \in UriAt(s, n - 1)
  BY DEF UriAt
<1> QED BY <1>1, ReadGrows

\* What it adds to the name of a header.
LEMMA NameGrows ==
  ASSUME NEW s \in Seq(Char), NEW n \in 1 .. Len(s), NEW h \in 1 .. n
  PROVE  Read(s, NameAt(s, h, n)) =
           IF n \in NameAt(s, h, n) THEN Append(Read(s, NameAt(s, h, n - 1)), s[n])
                                    ELSE Read(s, NameAt(s, h, n - 1))
<1>1. /\ NameAt(s, h, n - 1) \subseteq 1 .. n - 1 /\ NameAt(s, h, n) \subseteq 1 .. n
      /\ \A p \in 1 .. n - 1 : p \in NameAt(s, h, n) <=> p \in NameAt(s, h, n - 1)
  BY DEF NameAt
<1> QED BY <1>1, ReadGrows

\* What it adds to the value of a header.
LEMMA ValueGrows ==
  ASSUME NEW s \in Seq(Char), NEW n \in 1 .. Len(s), NEW h \in 1 .. n
  PROVE  Read(s, ValueAt(s, h, n)) =
           IF n \in ValueAt(s, h, n) THEN Append(Read(s, ValueAt(s, h, n - 1)), s[n])
                                     ELSE Read(s, ValueAt(s, h, n - 1))
<1>1. /\ ValueAt(s, h, n - 1) \subseteq 1 .. n - 1 /\ ValueAt(s, h, n) \subseteq 1 .. n
      /\ \A p \in 1 .. n - 1 : p \in ValueAt(s, h, n) <=> p \in ValueAt(s, h, n - 1)
  BY DEF ValueAt
<1> QED BY <1>1, ReadGrows

\* Only the last header grows.
LEMMA OnlyLastGrows ==
  ASSUME NEW s, NEW n \in Nat \ {0}, NEW h \in Heads(s, n - 1),
         n \in NameAt(s, h, n) \/ n \in ValueAt(s, h, n)
  PROVE  h = Nth(Heads(s, n - 1), Cardinality(Heads(s, n - 1)))
<1> DEFINE H == Heads(s, n - 1)
           m == Nth(H, Cardinality(H))
<1>1. H \subseteq 1 .. n - 1 /\ \A g \in H : HeadAt(s, g) /\ StartAt(s, g)
  BY DEF Heads, HeadAt
<1>2. m \in H /\ \A g \in H : g <= m
  <2>1. n - 1 \in Nat /\ H # {}
    OBVIOUS
  <2>2. Positions(H)
    BY <1>1, <2>1, PositionsTo
  <2> HIDE DEF H
  <2> QED BY <2>1, <2>2, LastIsGreatest
<1>3. m \notin h + 1 .. n
  BY <1>1, <1>2 DEF NameAt, ValueAt, InLine
<1> HIDE DEF m
<1> QED BY <1>1, <1>2, <1>3 DEF m

\* A header grows in its name or in its value, or not at all.
LEMMA HeaderGrows ==
  ASSUME NEW s \in Seq(Char), NEW n \in 1 .. Len(s), NEW h \in 1 .. n
  PROVE  /\ n \notin NameAt(s, h, n) /\ n \notin ValueAt(s, h, n) =>
              HeaderAt(s, h, n) = HeaderAt(s, h, n - 1)
         /\ n \in NameAt(s, h, n) /\ n \notin ValueAt(s, h, n) =>
              HeaderAt(s, h, n) = [name |-> Append(HeaderAt(s, h, n - 1).name, s[n]),
                                   value |-> HeaderAt(s, h, n - 1).value]
         /\ n \notin NameAt(s, h, n) /\ n \in ValueAt(s, h, n) =>
              HeaderAt(s, h, n) = [name |-> HeaderAt(s, h, n - 1).name,
                                   value |-> Append(HeaderAt(s, h, n - 1).value, s[n])]
<1>1. Read(s, NameAt(s, h, n)) =
        IF n \in NameAt(s, h, n) THEN Append(Read(s, NameAt(s, h, n - 1)), s[n])
                                 ELSE Read(s, NameAt(s, h, n - 1))
  BY NameGrows
<1>2. Read(s, ValueAt(s, h, n)) =
        IF n \in ValueAt(s, h, n) THEN Append(Read(s, ValueAt(s, h, n - 1)), s[n])
                                  ELSE Read(s, ValueAt(s, h, n - 1))
  BY ValueGrows
<1>3. CASE n \notin NameAt(s, h, n) /\ n \notin ValueAt(s, h, n)
  BY <1>1, <1>2, <1>3 DEF HeaderAt
<1>4. CASE n \in NameAt(s, h, n) /\ n \notin ValueAt(s, h, n)
  BY <1>1, <1>2, <1>4 DEF HeaderAt
<1>5. CASE n \notin NameAt(s, h, n) /\ n \in ValueAt(s, h, n)
  BY <1>1, <1>2, <1>5 DEF HeaderAt
<1> QED BY <1>3, <1>4, <1>5

\* Of the headers only the last one grows.
LEMMA HeadersGrow ==
  ASSUME NEW s \in Seq(Char), NEW n \in 1 .. Len(s),
         NEW k \in 1 .. Cardinality(Heads(s, n - 1))
  PROVE  LET H == Heads(s, n - 1)
             h == Nth(H, k)
         IN  /\ h \in H /\ h \in 1 .. n
             /\ k # Cardinality(H) => HeaderAt(s, h, n) = HeaderAt(s, h, n - 1)
<1> DEFINE H == Heads(s, n - 1)
           C == Cardinality(H)
           h == Nth(H, k)
<1>1. H \subseteq 1 .. n - 1 /\ n - 1 \in Nat
  BY DEF Heads
<1>2. Positions(H)
  BY <1>1, PositionsTo
<1>3. h \in H /\ Rank(H, h) = k /\ C \in Nat
  BY <1>2, NthThere, RankTyped
<1>4. h \in 1 .. n
  BY <1>1, <1>3
<1>5. k # C => n \notin NameAt(s, h, n) /\ n \notin ValueAt(s, h, n)
  <2> SUFFICES ASSUME n \in NameAt(s, h, n) \/ n \in ValueAt(s, h, n) PROVE k = C
    OBVIOUS
  <2>1. h = Nth(H, C)
    <3> HIDE DEF h
    <3> QED BY <1>3, OnlyLastGrows
  <2>2. C \in 1 .. C
    BY <1>3
  <2>3. Rank(H, Nth(H, C)) = C
    BY <1>2, <2>2, NthThere
  <2> QED BY <1>3, <2>1, <2>3
<1> HIDE DEF h, C
<1>6. k # C => HeaderAt(s, h, n) = HeaderAt(s, h, n - 1)
  BY <1>4, <1>5, HeaderGrows
<1> QED BY <1>3, <1>4, <1>6 DEF h, C

\* A header begins with a name of one character and without a value.
LEMMA NewHeader ==
  ASSUME NEW s \in Seq(Char), NEW n \in 1 .. Len(s), HeadAt(s, n), s[n] # ":"
  PROVE  HeaderAt(s, n, n) = [name |-> <<s[n]>>, value |-> <<>>]
<1>1. StartAt(s, n) /\ s[n] \notin Blank
  BY DEF HeadAt
<1>2. NameAt(s, n, n) = {n}
  <2>1. InLine(s, n, n)
    BY <1>1 DEF InLine
  <2> QED BY <2>1 DEF NameAt
<1>3. ValueAt(s, n, n) = {}
  <2> SUFFICES ASSUME IsText(s, n) PROVE FALSE
    BY DEF ValueAt
  <2>1. PICK a \in 1 .. n :
          /\ InLine(s, a, n)
          /\ IF s[a] \in Blank THEN \E q \in a .. n : s[q] \notin Blank
                               ELSE \E q \in a .. n - 2 : s[q] = ":"
    BY DEF IsText
  <2>2. a = n
    BY <1>1, <2>1 DEF InLine
  <2> QED BY <1>1, <2>1, <2>2
<1>4. Read(s, {n}) = <<s[n]>>
  <2>1. Read(s, {} \cup {n}) = Append(Read(s, {}), s[n])
    BY ReadOn
  <2>2. {} \cup {n} = {n}
    OBVIOUS
  <2>3. Append(<<>>, s[n]) = <<s[n]>>
    OBVIOUS
  <2> QED BY <2>1, <2>2, <2>3, ReadNothing
<1> QED BY <1>2, <1>3, <1>4, ReadNothing DEF HeaderAt

=============================================================================
