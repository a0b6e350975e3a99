---------------------------- MODULE InterpProofs ----------------------------
(***************************************************************************)
(* Proofs about the pure parts that read texts: what ${...} expands to and   *)
(* what a name means in layered environments, for texts of any length and    *)
(* environments of any size.  The lexer is a function that calls itself; it  *)
(* is unrolled by LeastNatural, backwards from the end of the text.  Last:   *)
(* texts over some characters stay texts over them.                         *)
(***************************************************************************)
EXTENDS PlanProofs, SequenceTheorems
-----------------------------------------------------------------------------
(* The lexer: a scan from every position, each made of those after it.      *)
Associative(E) == \A p, q, r \in Seq(E) : (p \o q) \o r = p \o (q \o r)
\* Of three texts end to end it does not matter which two are joined first.
LEMMA Associates ==
    ASSUME NEW E
    PROVE  Associative(E)
<1>. SUFFICES ASSUME NEW p \in Seq(E), NEW q \in Seq(E), NEW r \in Seq(E)
              PROVE  (p \o q) \o r = p \o (q \o r)
  BY DEF Associative
<1>. QED BY ConcatAssociative

\* Where a literal ends, and what stands there.
LEMMA LiteralEnds ==
    ASSUME NEW input, Len(input) \in Nat, NEW i \in 1..(Len(input) + 1)
    PROVE  LET end == LiteralEnd(input, i)
           IN  /\ end \in i..(Len(input) + 1)
               /\ end <= Len(input) => /\ end < Len(input) /\ input[end] = "$"
                                       /\ input[end + 1] \in {"$", "{"}
               /\ \A j \in i..(Len(input) - 1) :
                     input[j] = "$" /\ input[j + 1] \in {"$", "{"} => end <= j
<1>. DEFINE S == {j \in i..(Len(input) - 1) : input[j] = "$" /\ input[j + 1] \in {"$", "{"}}
                    \cup {Len(input) + 1}
<1>1. S \subseteq Nat /\ S # {}
  <2>1. \A j \in i..(Len(input) - 1) : j \in Nat OBVIOUS
  <2>2. Len(input) + 1 \in Nat OBVIOUS
  <2>. QED BY <2>1, <2>2
<1>2. LiteralEnd(input, i) = Min(S) BY DEF LiteralEnd
<1>3. Min(S) \in S /\ \A y \in S : Min(S) <= y
  <2>. HIDE DEF S
  <2>. QED BY <1>1, MinIsLeast
<1>. DEFINE end == LiteralEnd(input, i)
<1>4. /\ end \in i..(Len(input) + 1)
      /\ end <= Len(input) => /\ end < Len(input) /\ input[end] = "$"
                              /\ input[end + 1] \in {"$", "{"}
  <2>1. end \in S BY <1>2, <1>3
  <2>. DEFINE Opens(j) == input[j] = "$" /\ input[j + 1] \in {"$", "{"}
  <2>2. end = Len(input) + 1 \/ (end \in i..(Len(input) - 1) /\ Opens(end))
    BY <2>1
  <2>. HIDE DEF end, Opens
  <2>3. end \in i..(Len(input) + 1) /\ (end <= Len(input) => end < Len(input) /\ Opens(end))
    BY <2>2
  <2>. QED BY <2>3 DEF Opens
<1>5. \A j \in i..(Len(input) - 1) :
         input[j] = "$" /\ input[j + 1] \in {"$", "{"} => end <= j
  BY <1>2, <1>3
<1>. QED BY <1>4, <1>5

\* What the token at j is: an escape, or what stands between the braces.
Close(input, j) == SelectInSubSeq(input, j + 2, Len(input), LAMBDA b : b = "}")
Inner(input, j) == SubSeq(input, j + 2, Close(input, j) - 1)
\* What stands between the braces is one token, or not.
LEMMA TokenAtReads ==
    ASSUME NEW input, NEW j
    PROVE  TokenAt(input, j) =
             IF input[j + 1] = "$" THEN Ok([token |-> Escape, next |-> j + 2])
             ELSE IF Close(input, j) = 0 THEN Err("Unterminated")
             ELSE IF ParseExpansion(Inner(input, j)).ok
                  THEN Ok([token |-> ParseExpansion(Inner(input, j)).val,
                           next |-> Close(input, j) + 1])
                  ELSE ParseExpansion(Inner(input, j))
<1>. DEFINE c == Close(input, j)
            found(close, token) == Ok([token |-> token, next |-> close + 1])
            parsed(close) == AndThen(ParseExpansion(SubSeq(input, j + 2, close - 1)),
                                     LAMBDA token : found(close, token))
            closed(close) == IF close = 0 THEN Err("Unterminated") ELSE parsed(close)
<1>1. TokenAt(input, j) = IF input[j + 1] = "$" THEN Ok([token |-> Escape, next |-> j + 2])
                          ELSE With(c, LAMBDA close : closed(close))
  BY Zenon DEF TokenAt, Close
<1>2. With(c, LAMBDA close : closed(close)) = closed(c)
  <2>. HIDE DEF closed, c
  <2>. QED BY DEF With
<1>3. parsed(c) = IF ParseExpansion(Inner(input, j)).ok
                  THEN found(c, ParseExpansion(Inner(input, j)).val)
                  ELSE ParseExpansion(Inner(input, j))
  <2>1. parsed(c) = AndThen(ParseExpansion(Inner(input, j)), LAMBDA token : found(c, token))
    BY Zenon DEF Inner
  <2>. HIDE DEF found, c
  <2>. QED BY <2>1 DEF AndThen, With
<1>. QED BY <1>1, <1>2, <1>3, Zenon

\* The braces close at the first } after them, if there is one.
LEMMA ClosesAt ==
    ASSUME NEW input, Len(input) \in Nat, NEW j \in Nat
    PROVE  LET c == Close(input, j) S == {i \in (j + 2)..Len(input) : input[i] = "}"}
           IN  /\ S = {} => c = 0
               /\ S # {} => /\ c \in (j + 2)..Len(input) /\ input[c] = "}"
                            /\ \A i \in S : c <= i
<1>. DEFINE S == {i \in (j + 2)..Len(input) : input[i] = "}"}
<1>1. Close(input, j) = IF S # {} THEN Min(S) ELSE 0 BY DEF Close, SelectInSubSeq
<1>2. S \subseteq Nat /\ (S # {} => Min(S) \in S /\ \A y \in S : Min(S) <= y)
  <2>1. S \subseteq Nat
    <3>1. \A i \in (j + 2)..Len(input) : i \in Nat OBVIOUS
    <3>. QED BY <3>1
  <2>. HIDE DEF S
  <2>. QED BY <2>1, MinIsLeast
<1>3. Min(S) \in S => Min(S) \in (j + 2)..Len(input) /\ input[Min(S)] = "}" OBVIOUS
<1>. HIDE DEF S
<1>4. Close(input, j) = IF S # {} THEN Min(S) ELSE 0 BY <1>1
<1>5. /\ S = {} => Close(input, j) = 0
      /\ S # {} => /\ Close(input, j) \in (j + 2)..Len(input) /\ input[Close(input, j)] = "}"
                   /\ \A i \in S : Close(input, j) <= i
  BY <1>2, <1>3, <1>4, Zenon
<1>. QED BY <1>5 DEF S

\* A token ends after it begins, and where the text does at the latest.
LEMMA NextIsLater ==
    ASSUME NEW input, Len(input) \in Nat, NEW j \in 1..(Len(input) - 1), TokenAt(input, j).ok
    PROVE  TokenAt(input, j).val.next \in (j + 2)..(Len(input) + 1)
<1>. DEFINE p == ParseExpansion(Inner(input, j))  c == Close(input, j)
<1>1. j \in Nat OBVIOUS
<1>2. c = 0 \/ c \in (j + 2)..Len(input) BY <1>1, ClosesAt
<1>. HIDE DEF p, c
<1>3. TokenAt(input, j) = IF input[j + 1] = "$" THEN Ok([token |-> Escape, next |-> j + 2])
             ELSE IF c = 0 THEN Err("Unterminated")
             ELSE IF p.ok THEN Ok([token |-> p.val, next |-> c + 1]) ELSE p
  BY TokenAtReads, Zenon DEF p, c
<1>4. CASE input[j + 1] = "$"
  BY <1>3, <1>4 DEF Ok
<1>5. CASE input[j + 1] # "$"
  <2>1. c # 0 /\ p.ok BY <1>3, <1>5 DEF Err
  <2>2. TokenAt(input, j).val.next = c + 1 BY <2>1, <1>3, <1>5 DEF Ok
  <2>. QED BY <2>1, <2>2, <1>2
<1>. QED BY <1>4, <1>5

\* The token at j and the others; and before them a literal.
LEMMA TokensRead ==
    ASSUME NEW input, NEW scan
    PROVE  /\ \A j : LET t == TokenAt(input, j)  ts == scan[t.val.next]
                     IN  TokensAt(input, j, scan) =
                           IF j > Len(input) THEN Ok(<<>>)
                           ELSE IF ~t.ok THEN t
                           ELSE IF ts.ok THEN Ok(<<t.val.token>> \o ts.val) ELSE ts
           /\ \A i : LET end == LiteralEnd(input, i)  ts == TokensAt(input, end, scan)
                     IN  TokensFrom(input, i, scan) =
                           IF ts.ok THEN Ok(Flush(input, i, end) \o ts.val) ELSE ts
<1>1. ASSUME NEW j
      PROVE  LET t == TokenAt(input, j)  ts == scan[t.val.next]
             IN  TokensAt(input, j, scan) =
                   IF j > Len(input) THEN Ok(<<>>)
                   ELSE IF ~t.ok THEN t
                   ELSE IF ts.ok THEN Ok(<<t.val.token>> \o ts.val) ELSE ts
  <2>. DEFINE t == TokenAt(input, j)
              whole(token, ts) == Ok(<<token>> \o ts)
              rest(u) == AndThen(scan[u.next], LAMBDA ts : whole(u.token, ts))
  <2>1. TokensAt(input, j, scan) = IF j > Len(input) THEN Ok(<<>>)
                                   ELSE AndThen(t, LAMBDA u : rest(u))
    BY Zenon DEF TokensAt
  <2>2. AndThen(t, LAMBDA u : rest(u)) = IF t.ok THEN rest(t.val) ELSE t
    <3>. HIDE DEF t, rest
    <3>. QED BY DEF AndThen, With
  <2>3. \A u : rest(u) = IF scan[u.next].ok THEN whole(u.token, scan[u.next].val)
                         ELSE scan[u.next]
    <3>. HIDE DEF whole
    <3>. QED BY DEF AndThen, With
  <2>4. rest(t.val) = IF scan[t.val.next].ok THEN whole(t.val.token, scan[t.val.next].val)
                      ELSE scan[t.val.next]
    <3>. HIDE DEF rest, t, whole
    <3>. QED BY <2>3, Zenon
  <2>. HIDE DEF rest, t
  <2>5. TokensAt(input, j, scan) =
                 IF j > Len(input) THEN Ok(<<>>)
                 ELSE IF ~t.ok THEN t
                 ELSE IF scan[t.val.next].ok THEN whole(t.val.token, scan[t.val.next].val)
                 ELSE scan[t.val.next]
    <3>. HIDE DEF whole
    <3>. QED BY <2>1, <2>2, <2>4, Zenon
  <2>. QED BY <2>5, Zenon DEF t
<1>2. ASSUME NEW i
      PROVE  LET end == LiteralEnd(input, i)  ts == TokensAt(input, end, scan)
             IN  TokensFrom(input, i, scan) =
                   IF ts.ok THEN Ok(Flush(input, i, end) \o ts.val) ELSE ts
  <2>. DEFINE end == LiteralEnd(input, i)  r == TokensAt(input, end, scan)
              whole(ts) == Ok(Flush(input, i, end) \o ts)
  <2>1. TokensFrom(input, i, scan) = AndThen(r, LAMBDA ts : whole(ts)) BY Zenon DEF TokensFrom
  <2>2. AndThen(r, LAMBDA ts : whole(ts)) = IF r.ok THEN whole(r.val) ELSE r
    <3>. HIDE DEF r, whole
    <3>. QED BY DEF AndThen, With
  <2>. QED BY <2>1, <2>2, Zenon
<1>. QED BY <1>1, <1>2, Zenon

\* They depend on what comes after i only.
LEMMA TokensAhead ==
    ASSUME NEW input, Len(input) \in Nat, NEW i \in 1..(Len(input) + 1), NEW g, NEW h,
           \A k \in (i + 1)..(Len(input) + 1) : g[k] = h[k]
    PROVE  TokensFrom(input, i, g) = TokensFrom(input, i, h)
<1>. DEFINE end == LiteralEnd(input, i)  t == TokenAt(input, end)
<1>1. end \in Int /\ (end > Len(input) \/ end \in i..(Len(input) - 1))
  <2>1. end \in i..(Len(input) + 1) /\ (end <= Len(input) => end < Len(input))
    BY LiteralEnds, Zenon
  <2>. HIDE DEF end
  <2>. QED BY <2>1
<1>2. end <= Len(input) /\ t.ok => t.val.next \in (i + 1)..(Len(input) + 1)
  <2>. SUFFICES ASSUME end <= Len(input), t.ok
                PROVE  t.val.next \in (i + 1)..(Len(input) + 1)
    OBVIOUS
  <2>1. end \in 1..(Len(input) - 1) /\ end >= i
    <3>. HIDE DEF end
    <3>. QED BY <1>1
  <2>. HIDE DEF end
  <2>2. t.val.next \in (end + 2)..(Len(input) + 1) BY <2>1, NextIsLater
  <2>. HIDE DEF t
  <2>. QED BY <2>1, <2>2
<1>. HIDE DEF end, t
<1>3. end <= Len(input) /\ t.ok => g[t.val.next] = h[t.val.next] BY <1>2
<1>4. \A f : TokensAt(input, end, f) =
                 IF end > Len(input) THEN Ok(<<>>)
                 ELSE IF ~t.ok THEN t
                 ELSE IF f[t.val.next].ok THEN Ok(<<t.val.token>> \o f[t.val.next].val)
                 ELSE f[t.val.next]
  <2>. SUFFICES ASSUME NEW f
                PROVE  TokensAt(input, end, f) =
                         IF end > Len(input) THEN Ok(<<>>)
                         ELSE IF ~t.ok THEN t
                         ELSE IF f[t.val.next].ok
                              THEN Ok(<<t.val.token>> \o f[t.val.next].val)
                         ELSE f[t.val.next]
    BY Zenon
  <2>1. \A j : TokensAt(input, j, f) =
                 IF j > Len(input) THEN Ok(<<>>)
                 ELSE IF ~TokenAt(input, j).ok THEN TokenAt(input, j)
                 ELSE IF f[TokenAt(input, j).val.next].ok
                      THEN Ok(<<TokenAt(input, j).val.token>>
                                \o f[TokenAt(input, j).val.next].val)
                 ELSE f[TokenAt(input, j).val.next]
    BY TokensRead, ZenonT(60)
  <2>. QED BY <2>1, Zenon DEF t
<1>5. TokensAt(input, end, g) = TokensAt(input, end, h)
  <2>1. CASE end > Len(input) BY <1>4, <2>1, Zenon
  <2>2. CASE ~(end > Len(input)) /\ ~t.ok BY <1>4, <2>2, Zenon
  <2>3. CASE ~(end > Len(input)) /\ t.ok
    <3>. DEFINE Whole(ts) == IF ts.ok THEN Ok(<<t.val.token>> \o ts.val) ELSE ts
    <3>1. \A f : TokensAt(input, end, f) = Whole(f[t.val.next]) BY <1>4, <2>3, Zenon
    <3>2. g[t.val.next] = h[t.val.next] BY <1>1, <1>3, <2>3
    <3>. HIDE DEF Whole
    <3>. QED BY <3>1, <3>2, Zenon
  <2>. QED BY <2>1, <2>2, <2>3
<1>6. \A f : TokensFrom(input, i, f) = IF TokensAt(input, end, f).ok
                                       THEN Ok(Flush(input, i, end) \o TokensAt(input, end, f).val)
                                       ELSE TokensAt(input, end, f)
  BY TokensRead, Zenon DEF end
<1>. QED BY <1>5, <1>6, Zenon

\* The lexer's answer is made of a scan from every position.
Scanned(input, scan) ==
    \A i \in 1..(Len(input) + 1) : scan[i] = TokensFrom(input, i, scan)
\* So that there is one scan that is the lexer's.
LEMMA LexScans ==
    ASSUME NEW input, Len(input) \in Nat
    PROVE  \E scan : Scanned(input, scan) /\ Lex(input) = scan[1]
<1>. DEFINE n == Len(input)
            Eqn(f) == f = [i \in 1..(n + 1) |-> TokensFrom(input, i, f)]
            Goes(g, m) == \A i \in (n + 2 - m)..(n + 1) : g[i] = TokensFrom(input, i, g)
            c == CHOOSE f : Eqn(f)
<1>. HIDE DEF n
<1>0. n \in Nat BY DEF n
<1>1. \A m \in 0..(n + 1) :
         \E g : DOMAIN g = 1..(n + 1) /\ g = [i \in 1..(n + 1) |-> g[i]] /\ Goes(g, m)
  <2>. DEFINE Has(m) == \E g : /\ DOMAIN g = 1..(n + 1) /\ g = [i \in 1..(n + 1) |-> g[i]]
                               /\ Goes(g, m)
              B == {m \in 0..(n + 1) : ~Has(m)}
  <2>1. SUFFICES ASSUME B # {} PROVE FALSE OBVIOUS
  <2>2. B \subseteq Nat BY <1>0
  <2>3. PICK m \in B : \A k \in B : m <= k
    <3>. HIDE DEF B
    <3>. QED BY <2>1, <2>2, LeastNatural
  <2>4. CASE m = 0
    <3>. DEFINE g == [i \in 1..(n + 1) |-> 0]
    <3>1. DOMAIN g = 1..(n + 1) /\ g = [i \in 1..(n + 1) |-> g[i]] OBVIOUS
    <3>2. Goes(g, 0)
      <4>1. \A i : i \notin (n + 2 - 0)..(n + 1) BY <1>0
      <4>. QED BY <4>1
    <3>3. Has(0) BY <3>1, <3>2
    <3>. HIDE DEF Has
    <3>. QED BY <3>3, <2>4, <2>3
  <2>5. CASE m # 0
    <3>1. m \in 1..(n + 1) /\ m - 1 \in 0..(n + 1) /\ ~(m <= m - 1) BY <2>3, <2>5, <1>0
    <3>2. Has(m - 1)
      <4>. HIDE DEF Has
      <4>. QED BY <3>1, <2>3
    <3>3. PICK g : /\ DOMAIN g = 1..(n + 1) /\ g = [i \in 1..(n + 1) |-> g[i]]
                   /\ Goes(g, m - 1)
      BY <3>2
    <3>. DEFINE p == n + 2 - m
                h == [i \in 1..(n + 1) |-> IF i = p THEN TokensFrom(input, p, g) ELSE g[i]]
    <3>4. p \in 1..(n + 1) BY <3>1, <1>0
    <3>5. DOMAIN h = 1..(n + 1) /\ h = [i \in 1..(n + 1) |-> h[i]] OBVIOUS
    <3>6. ASSUME NEW i \in (n + 2 - m)..(n + 1) PROVE h[i] = TokensFrom(input, i, h)
      <4>0. i \in 1..(n + 1) /\ i >= p BY <3>1, <3>4, <1>0
      <4>1. \A k \in (i + 1)..(n + 1) : g[k] = h[k]
        <5>1. \A k \in (i + 1)..(n + 1) : k \in 1..(n + 1) /\ k # p BY <4>0, <3>4
        <5>. HIDE DEF p
        <5>. QED BY <5>1
      <4>. HIDE DEF h, p
      <4>2. TokensFrom(input, i, g) = TokensFrom(input, i, h) BY <4>0, <4>1, TokensAhead DEF n
      <4>3. CASE i = p BY <4>2, <4>3, <4>0 DEF h
      <4>4. CASE i # p
        <5>1. h[i] = g[i] BY <4>4, <4>0 DEF h
        <5>2. i \in (n + 2 - (m - 1))..(n + 1) BY <4>0, <4>4, <3>1, <1>0 DEF p
        <5>3. g[i] = TokensFrom(input, i, g) BY <5>2, <3>3
        <5>. QED BY <5>1, <5>3, <4>2
      <4>. QED BY <4>3, <4>4
    <3>. HIDE DEF h, p
    <3>7. Has(m) BY <3>5, <3>6
    <3>. HIDE DEF Has
    <3>. QED BY <3>7, <2>3
  <2>. QED BY <2>4, <2>5
<1>2. \E f : Eqn(f)
  <2>1. n + 1 \in 0..(n + 1) /\ (n + 2 - (n + 1)) = 1 BY <1>0
  <2>2. PICK g : DOMAIN g = 1..(n + 1) /\ g = [i \in 1..(n + 1) |-> g[i]] /\ Goes(g, n + 1)
    BY <1>1, <2>1
  <2>3. \A i \in 1..(n + 1) : g[i] = TokensFrom(input, i, g) BY <2>1, <2>2
  <2>4. Eqn(g) BY <2>2, <2>3
  <2>. QED BY <2>4
<1>3. Eqn(c) BY <1>2
<1>4. Lex(input) = c[1] BY Zenon DEF Lex, n
<1>. HIDE DEF c
<1>5. \A i \in 1..(n + 1) : c[i] = TokensFrom(input, i, c) BY <1>3
<1>6. Scanned(input, c) BY <1>5 DEF Scanned, n
<1>. QED BY <1>4, <1>6

-----------------------------------------------------------------------------
(* What tokens say, and what a text says from a position on.                *)
\* The first piece can be taken off.
LEMMA FlattenCons ==
    ASSUME NEW E, NEW x \in Seq(E), NEW seqs \in Seq(Seq(E))
    PROVE  /\ <<x>> \o seqs \in Seq(Seq(E))
           /\ FlattenSeq(<<x>> \o seqs) = x \o FlattenSeq(seqs) /\ FlattenSeq(seqs) \in Seq(E)
<1>0. Associative(E) BY Associates
<1>. DEFINE S == Seq(E)  n == Len(seqs)  more == <<x>> \o seqs
<1>1. x \in S /\ seqs \in Seq(S) /\ n \in Nat OBVIOUS
<1>2. /\ more \in Seq(S) /\ Len(more) = n + 1 /\ more[1] = x
      /\ \A i \in 1..n : more[i + 1] = seqs[i] /\ seqs[i] \in S
  <2>. HIDE DEF S
  <2>1. <<x>> \in Seq(S) /\ Len(<<x>>) = 1 /\ <<x>>[1] = x BY <1>1
  <2>2. /\ more \in Seq(S) /\ Len(more) = Len(<<x>>) + Len(seqs)
        /\ \A i \in 1..Len(<<x>>) + Len(seqs) :
              more[i] = IF i <= Len(<<x>>) THEN <<x>>[i] ELSE seqs[i - Len(<<x>>)]
    <3>1. <<x>> \in Seq(S) /\ seqs \in Seq(S) BY <1>1, <2>1
    <3>2. more \in Seq(S) BY <3>1, ConcatProperties, Zenon
    <3>3. Len(more) = Len(<<x>>) + Len(seqs) BY <3>1, ConcatProperties, Zenon
    <3>4. ASSUME NEW i \in 1..Len(<<x>>) + Len(seqs)
          PROVE  more[i] = IF i <= Len(<<x>>) THEN <<x>>[i] ELSE seqs[i - Len(<<x>>)]
      BY <3>1, ConcatProperties, Zenon
    <3>. QED BY <3>2, <3>3, <3>4, Zenon
  <2>. HIDE DEF more
  <2>3. Len(more) = n + 1 /\ more[1] = x BY <1>1, <2>1, <2>2
  <2>4. ASSUME NEW i \in 1..n PROVE more[i + 1] = seqs[i] /\ seqs[i] \in S
    <3>1. i + 1 \in 1..(1 + n) /\ ~(i + 1 <= 1) /\ (i + 1) - 1 = i BY <1>1
    <3>2. more[i + 1] = seqs[(i + 1) - 1] BY <2>1, <2>2, <3>1
    <3>. QED BY <1>1, <3>1, <3>2
  <2>. QED BY <2>2, <2>3, <2>4
<1>3. PICK f \in [Nat -> S] : Appends(seqs, f) /\ FlattenSeq(seqs) = f[n]
  BY FlattenAppends
<1>4. PICK g \in [Nat -> S] : Appends(more, g) /\ FlattenSeq(more) = g[n + 1]
  <2>1. \E g \in [Nat -> S] : Appends(more, g) /\ FlattenSeq(more) = g[Len(more)]
    BY <1>2, FlattenAppends
  <2>. QED BY <1>2, <2>1
<1>. HIDE DEF n, more
<1>5. f[0] = <<>> /\ \A i \in 1..n : f[i] = f[i - 1] \o seqs[i] BY <1>3 DEF Appends, n
<1>6. g[0] = <<>> /\ \A i \in 1..(n + 1) : g[i] = g[i - 1] \o more[i]
  BY <1>4, <1>2 DEF Appends
<1>7. \A i \in 0..n : g[i + 1] = x \o f[i]
  <2>. DEFINE B == {i \in 0..n : g[i + 1] # x \o f[i]}
  <2>1. SUFFICES ASSUME B # {} PROVE FALSE OBVIOUS
  <2>2. B \subseteq Nat BY <1>1
  <2>3. PICK i \in B : \A k \in B : i <= k
    <3>. HIDE DEF B
    <3>. QED BY <2>1, <2>2, LeastNatural
  <2>4. CASE i = 0
    <3>1. g[1] = g[0] \o more[1]
      <4>1. 1 \in 1..(n + 1) /\ 1 - 1 = 0 BY <1>1
      <4>2. g[1] = g[1 - 1] \o more[1] BY <1>6, <4>1
      <4>. QED BY <4>1, <4>2
    <3>2. <<>> \o x = x /\ x \o <<>> = x BY ConcatEmptySeq
    <3>. QED BY <2>3, <2>4, <1>5, <1>6, <1>2, <3>1, <3>2, 0 + 1 = 1
  <2>5. CASE i # 0
    <3>1. i \in 1..n /\ i - 1 \in 0..n /\ ~(i <= i - 1) /\ i - 1 \in Nat /\ (i - 1) + 1 = i
          /\ i + 1 \in 1..(n + 1) /\ (i + 1) - 1 = i
      BY <2>3, <2>5, <1>1
    <3>2. g[i] = x \o f[i - 1] BY <2>3, <3>1
    <3>3. g[i + 1] = g[i] \o seqs[i]
      <4>1. g[i + 1] = g[(i + 1) - 1] \o more[i + 1] BY <1>6, <3>1
      <4>. QED BY <4>1, <3>1, <1>2
    <3>4. f[i] = f[i - 1] \o seqs[i] BY <1>5, <3>1
    <3>5. f[i - 1] \in Seq(E) /\ seqs[i] \in Seq(E) BY <1>2, <1>3, <3>1
    <3>6. (x \o f[i - 1]) \o seqs[i] = x \o (f[i - 1] \o seqs[i])
      <4>. DEFINE a == f[i - 1]  b == seqs[i]
      <4>1. a \in Seq(E) /\ b \in Seq(E) /\ x \in Seq(E) BY <3>5
      <4>. HIDE DEF a, b
      <4>2. (x \o a) \o b = x \o (a \o b) BY <4>1, <1>0, Zenon DEF Associative
      <4>. QED BY <4>2 DEF a, b
    <3>. QED BY <3>2, <3>3, <3>4, <3>6, <2>3
  <2>. QED BY <2>4, <2>5
<1>8. g[n + 1] = x \o f[n]
  <2>1. n \in 0..n BY <1>1
  <2>. QED BY <2>1, <1>7
<1>9. f[n] \in Seq(E) BY <1>1, <1>3
<1>. QED BY <1>2, <1>3, <1>4, <1>8, <1>9 DEF more

\* What tokens say in an environment: the texts of their pieces end to end.
Yields(ts, env, E, text) ==
    /\ \E T : ts \in Seq(T)
    /\ \A k \in DOMAIN ts : Piece(ts[k], env).ok /\ Piece(ts[k], env).val \in Seq(E)
    /\ FlattenSeq([k \in DOMAIN ts |-> Piece(ts[k], env).val]) = text

\* No tokens say nothing.
LEMMA YieldsNothing ==
    ASSUME NEW env, NEW E
    PROVE  Yields(<<>>, env, E, <<>>)
<1>. DEFINE none == [k \in DOMAIN <<>> |-> Piece(<<>>[k], env).val]
<1>1. <<>> \in Seq({}) /\ DOMAIN <<>> = {} OBVIOUS
<1>2. none = <<>> OBVIOUS
<1>3. FlattenSeq(none) = <<>> BY <1>2 DEF FlattenSeq
<1>. QED BY <1>1, <1>3 DEF Yields

\* A token before them says its piece first.
LEMMA YieldsMore ==
    ASSUME NEW ts, NEW env, NEW E, NEW text, Yields(ts, env, E, text), NEW t,
           Piece(t, env).ok, Piece(t, env).val \in Seq(E)
    PROVE  /\ Yields(<<t>> \o ts, env, E, Piece(t, env).val \o text) /\ text \in Seq(E)
           /\ \E T : ts \in Seq(T) /\ <<t>> \o ts \in Seq(T)
<1>. DEFINE Val(k) == Piece(k, env).val
            F(q) == [k \in DOMAIN q |-> Val(q[k])]
            more == <<t>> \o ts
<1>1. PICK T0 : ts \in Seq(T0) BY DEF Yields
<1>. DEFINE T == T0 \cup {t}
<1>2. t \in T /\ ts \in Seq(T)
  <2>1. t \in T /\ T0 \subseteq T OBVIOUS
  <2>. HIDE DEF T
  <2>2. Seq(T0) \subseteq Seq(T) BY <2>1, SeqMonotonic
  <2>. QED BY <1>1, <2>1, <2>2
<1>3. /\ more \in Seq(T) /\ Len(more) = Len(ts) + 1 /\ more[1] = t /\ Len(ts) \in Nat
      /\ \A i \in 1..Len(ts) : more[i + 1] = ts[i]
      /\ DOMAIN ts = 1..Len(ts) /\ DOMAIN more = 1..(Len(ts) + 1)
  <2>. HIDE DEF T
  <2>1. <<t>> \in Seq(T) /\ Len(<<t>>) = 1 /\ <<t>>[1] = t BY <1>2
  <2>2. /\ more \in Seq(T) /\ Len(more) = Len(<<t>>) + Len(ts)
        /\ \A i \in 1..Len(<<t>>) + Len(ts) :
              more[i] = IF i <= Len(<<t>>) THEN <<t>>[i] ELSE ts[i - Len(<<t>>)]
    <3>1. <<t>> \in Seq(T) /\ ts \in Seq(T) BY <1>2, <2>1
    <3>2. more \in Seq(T) BY <3>1, ConcatProperties, Zenon
    <3>3. Len(more) = Len(<<t>>) + Len(ts) BY <3>1, ConcatProperties, Zenon
    <3>4. ASSUME NEW i \in 1..Len(<<t>>) + Len(ts)
          PROVE  more[i] = IF i <= Len(<<t>>) THEN <<t>>[i] ELSE ts[i - Len(<<t>>)]
      BY <3>1, ConcatProperties, Zenon
    <3>. QED BY <3>2, <3>3, <3>4, Zenon
  <2>. HIDE DEF more
  <2>3. Len(more) = Len(ts) + 1 /\ more[1] = t /\ Len(ts) \in Nat BY <1>2, <2>1, <2>2
  <2>4. ASSUME NEW i \in 1..Len(ts) PROVE more[i + 1] = ts[i]
    <3>1. i + 1 \in 1..(1 + Len(ts)) /\ ~(i + 1 <= 1) /\ (i + 1) - 1 = i BY <2>3
    <3>2. more[i + 1] = ts[(i + 1) - 1] BY <2>1, <2>2, <3>1
    <3>. QED BY <3>1, <3>2
  <2>. QED BY <1>2, <2>2, <2>3, <2>4
<1>. HIDE DEF T, more
<1>4. \A k \in DOMAIN ts : Piece(ts[k], env).ok /\ Val(ts[k]) \in Seq(E) BY DEF Yields
<1>. DEFINE n == Len(ts)
<1>. HIDE DEF n
<1>5. \A k \in 1..(n + 1) : k = 1 \/ (k - 1 \in 1..n /\ more[k] = ts[k - 1])
  <2>. SUFFICES ASSUME NEW k \in 1..(n + 1), k # 1
                PROVE  k - 1 \in 1..n /\ more[k] = ts[k - 1]
    OBVIOUS
  <2>1. k - 1 \in 1..n /\ (k - 1) + 1 = k BY <1>3 DEF n
  <2>. QED BY <1>3, <2>1 DEF n
<1>6. \A k \in DOMAIN more : Piece(more[k], env).ok /\ Val(more[k]) \in Seq(E)
  <2>. HIDE DEF Val
  <2>1. Val(t) \in Seq(E) BY DEF Val
  <2>. QED BY <1>3, <1>4, <1>5, <2>1 DEF n
<1>. HIDE DEF Val
<1>7. F(ts) \in Seq(Seq(E)) 
  <2>1. F(ts) \in [1..n -> Seq(E)] BY <1>3, <1>4 DEF n
  <2>. QED BY <2>1, <1>3 DEF n
<1>8. Val(t) \in Seq(E) BY DEF Val
<1>9. F(more) = <<Val(t)>> \o F(ts)
  <2>. DEFINE S == Seq(E)  a == <<Val(t)>>  b == F(ts)  c == a \o b
  <2>1. b \in Seq(S) /\ a \in Seq(S) /\ Len(a) = 1 /\ a[1] = Val(t) BY <1>7, <1>8
  <2>2. Len(b) = n /\ \A k \in 1..n : b[k] = Val(ts[k])
    <3>1. n \in Nat /\ DOMAIN ts = 1..n BY <1>3 DEF n
    <3>2. b = [k \in 1..n |-> Val(ts[k])] BY <3>1
    <3>3. DOMAIN b = 1..n /\ \A k \in 1..n : b[k] = Val(ts[k]) BY <3>2, Zenon
    <3>. HIDE DEF b
    <3>4. b \in Seq(S) => Len(b) \in Nat /\ DOMAIN b = 1..Len(b) OBVIOUS
    <3>5. Len(b) = n BY <2>1, <3>1, <3>3, <3>4
    <3>. QED BY <3>3, <3>5
  <2>. HIDE DEF a, b, S
  <2>3. /\ c \in Seq(S) /\ Len(c) = Len(a) + Len(b)
        /\ \A i \in 1..Len(a) + Len(b) : c[i] = IF i <= Len(a) THEN a[i] ELSE b[i - Len(a)]
    <3>1. a \in Seq(S) /\ b \in Seq(S) BY <2>1
    <3>2. c \in Seq(S) BY <3>1, ConcatProperties, Zenon
    <3>3. Len(c) = Len(a) + Len(b) BY <3>1, ConcatProperties, Zenon
    <3>4. ASSUME NEW i \in 1..Len(a) + Len(b)
          PROVE  c[i] = IF i <= Len(a) THEN a[i] ELSE b[i - Len(a)]
      BY <3>1, ConcatProperties, Zenon
    <3>. QED BY <3>2, <3>3, <3>4, Zenon
  <2>. HIDE DEF c
  <2>4. n \in Nat /\ DOMAIN more = 1..(n + 1) /\ more[1] = t BY <1>3 DEF n
  <2>5. DOMAIN c = 1..(n + 1) /\ c = [k \in 1..(n + 1) |-> c[k]]
    <3>1. Len(c) = n + 1 BY <2>1, <2>2, <2>3, <2>4
    <3>. QED BY <3>1, <2>3
  <2>6. \A k \in 1..(n + 1) : c[k] = Val(more[k])
    <3>. SUFFICES ASSUME NEW k \in 1..(n + 1) PROVE c[k] = Val(more[k]) OBVIOUS
    <3>1. k \in 1..(Len(a) + Len(b)) BY <2>1, <2>2, <2>4
    <3>2. CASE k = 1 BY <2>1, <2>3, <2>4, <3>1, <3>2
    <3>3. CASE k # 1
      <4>1. ~(k <= 1) /\ k - 1 \in 1..n /\ more[k] = ts[k - 1] BY <1>5, <3>3, <2>4
      <4>2. c[k] = b[k - 1] BY <2>1, <2>3, <3>1, <4>1
      <4>. QED BY <2>2, <4>1, <4>2
    <3>. QED BY <3>2, <3>3
  <2>7. F(more) = c BY <2>4, <2>5, <2>6
  <2>. QED BY <2>7 DEF a, b, c
<1>10. FlattenSeq(F(ts)) = text BY Zenon DEF Yields, Val
<1>. DEFINE q == F(ts)  v == Val(t)
<1>11. q \in Seq(Seq(E)) /\ v \in Seq(E) BY <1>7, <1>8
<1>. HIDE DEF q, v
<1>12. FlattenSeq(<<v>> \o q) = v \o FlattenSeq(q) /\ FlattenSeq(q) \in Seq(E)
  BY <1>11, FlattenCons
<1>13. FlattenSeq(F(more)) = Val(t) \o text /\ text \in Seq(E) BY <1>9, <1>10, <1>12 DEF q, v
<1>14. Yields(more, env, E, Val(t) \o text)
  <2>1. \E X : more \in Seq(X) BY <1>3
  <2>. QED BY <2>1, <1>6, <1>13, Zenon DEF Yields, Val
<1>. QED BY <1>2, <1>3, <1>13, <1>14 DEF more, Val

\* The expander answers what the tokens say.
LEMMA ExpandYields ==
    ASSUME NEW input, NEW env, NEW ts, Lex(input) = Ok(ts), NEW E, NEW text,
           Yields(ts, env, E, text)
    PROVE  Expand(input, env) = Ok(text)
<1>. DEFINE rs == [i \in DOMAIN ts |-> Piece(ts[i], env)]
            vals == [i \in DOMAIN ts |-> Piece(ts[i], env).val]
            flat(texts) == Ok(FlattenSeq(texts))
            pieces(q) == AndThen(Collect([i \in DOMAIN q |-> Piece(q[i], env)]),
                                 LAMBDA texts : flat(texts))
<1>1. Expand(input, env) = AndThen(Lex(input), LAMBDA q : pieces(q)) BY Zenon DEF Expand
<1>2. Expand(input, env) = pieces(ts)
  <2>. HIDE DEF pieces
  <2>. QED BY <1>1 DEF AndThen, With, Ok
<1>3. Collect(rs) = Ok(vals)
  <2>. DEFINE C(r) == IF \A i \in DOMAIN r : r[i].ok THEN Ok([i \in DOMAIN r |-> r[i].val])
                      ELSE r[SelectInSeq(r, LAMBDA u : ~u.ok)]
  <2>1. Collect(rs) = With(rs, LAMBDA r : C(r)) BY Zenon DEF Collect
  <2>2. With(rs, LAMBDA r : C(r)) = C(rs)
    <3>. HIDE DEF C, rs
    <3>. QED BY DEF With
  <2>3. \A i \in DOMAIN rs : rs[i].ok BY DEF Yields
  <2>4. C(rs) = Ok([i \in DOMAIN rs |-> rs[i].val])
    <3>. HIDE DEF rs
    <3>. QED BY <2>3, Zenon
  <2>5. [i \in DOMAIN rs |-> rs[i].val] = vals OBVIOUS
  <2>. QED BY <2>1, <2>2, <2>4, <2>5, Zenon
<1>4. pieces(ts) = AndThen(Collect(rs), LAMBDA texts : flat(texts)) OBVIOUS
<1>5. pieces(ts) = flat(vals)
  <2>. HIDE DEF flat, rs, vals, pieces
  <2>. QED BY <1>3, <1>4 DEF AndThen, With, Ok
<1>6. FlattenSeq(vals) = text BY Zenon DEF Yields
<1>. QED BY <1>2, <1>5, <1>6, Zenon

\* $$ or ${ begins at i.
Opens(input, i) == i < Len(input) /\ input[i] = "$" /\ input[i + 1] \in {"$", "{"}
\* A literal ends where something opens; before that it goes on.
LEMMA EndMoves ==
    ASSUME NEW input, Len(input) \in Nat
    PROVE  /\ LiteralEnd(input, Len(input) + 1) = Len(input) + 1
           /\ \A i \in 1..Len(input) :
                 /\ Opens(input, i) => LiteralEnd(input, i) = i
                 /\ ~Opens(input, i) => LiteralEnd(input, i) = LiteralEnd(input, i + 1)
<1>. DEFINE n == Len(input)  E(i) == LiteralEnd(input, i)
<1>1. \A i \in 1..(n + 1) : /\ E(i) \in i..(n + 1)
                            /\ E(i) <= n => Opens(input, E(i))
                            /\ \A j \in i..n : Opens(input, j) => E(i) <= j
  <2>. SUFFICES ASSUME NEW i \in 1..(n + 1)
                PROVE  /\ E(i) \in i..(n + 1)
                       /\ E(i) <= n => Opens(input, E(i))
                       /\ \A j \in i..n : Opens(input, j) => E(i) <= j
    OBVIOUS
  <2>1. /\ E(i) \in i..(n + 1)
        /\ E(i) <= n => /\ E(i) < n /\ input[E(i)] = "$" /\ input[E(i) + 1] \in {"$", "{"}
        /\ \A j \in i..(n - 1) :
              input[j] = "$" /\ input[j + 1] \in {"$", "{"} => E(i) <= j
    BY LiteralEnds, Zenon
  <2>2. \A j \in i..n : Opens(input, j) =>
           j \in i..(n - 1) /\ input[j] = "$" /\ input[j + 1] \in {"$", "{"}
    <3>. SUFFICES ASSUME NEW j \in i..n, Opens(input, j)
                  PROVE  j \in i..(n - 1) /\ input[j] = "$" /\ input[j + 1] \in {"$", "{"}
      OBVIOUS
    <3>1. j < n /\ input[j] = "$" /\ input[j + 1] \in {"$", "{"} BY Zenon DEF Opens
    <3>2. n \in Nat /\ i \in 1..(n + 1) /\ j \in i..n OBVIOUS
    <3>3. j < n BY <3>1, Zenon
    <3>. HIDE DEF n
    <3>4. j \in i..(n - 1) BY <3>2, <3>3
    <3>. QED BY <3>1, <3>4, Zenon
  <2>. HIDE DEF E
  <2>3. E(i) <= n => Opens(input, E(i)) BY <2>1, Zenon DEF Opens
  <2>4. \A j \in i..n : Opens(input, j) => E(i) <= j BY <2>1, <2>2, Zenon
  <2>. QED BY <2>1, <2>3, <2>4
<1>. HIDE DEF n, E
<1>0. n \in Nat BY DEF n
<1>2. E(n + 1) = n + 1
  <2>1. n + 1 \in 1..(n + 1) BY <1>0
  <2>2. E(n + 1) \in (n + 1)..(n + 1) BY <1>1, <2>1
  <2>. QED BY <2>2, <1>0
<1>3. ASSUME NEW i \in 1..n, Opens(input, i) PROVE E(i) = i
  <2>1. i \in 1..(n + 1) /\ i \in i..n BY <1>0
  <2>2. E(i) \in i..(n + 1) /\ E(i) <= i BY <1>1, <1>3, <2>1
  <2>. QED BY <2>2, <1>0
<1>4. ASSUME NEW i \in 1..n, ~Opens(input, i) PROVE E(i) = E(i + 1)
  <2>1. i \in 1..(n + 1) /\ i + 1 \in 1..(n + 1) BY <1>0
  <2>. DEFINE a == E(i)  b == E(i + 1)
  <2>2. /\ a \in i..(n + 1) /\ (a <= n => Opens(input, a))
        /\ b \in (i + 1)..(n + 1) /\ (b <= n => Opens(input, b))
    BY <1>1, <2>1
  <2>3. /\ \A j \in i..n : Opens(input, j) => a <= j
        /\ \A j \in (i + 1)..n : Opens(input, j) => b <= j
    BY <1>1, <2>1
  <2>. HIDE DEF a, b
  <2>4. a # i BY <1>4, <2>2, <1>0
  <2>5. b <= a
    <3>1. CASE a <= n
      <4>1. a \in (i + 1)..n BY <2>2, <2>4, <3>1, <1>0
      <4>. QED BY <4>1, <2>2, <2>3, <3>1
    <3>2. CASE ~(a <= n) BY <2>2, <3>2, <1>0
    <3>. QED BY <3>1, <3>2
  <2>6. a <= b
    <3>1. CASE b <= n
      <4>1. b \in i..n BY <2>2, <3>1, <1>0
      <4>. QED BY <4>1, <2>2, <2>3, <3>1
    <3>2. CASE ~(b <= n) BY <2>2, <3>2, <1>0
    <3>. QED BY <3>1, <3>2
  <2>7. a = b BY <2>2, <2>5, <2>6, <1>0
  <2>. QED BY <2>7 DEF a, b
<1>. QED BY <1>2, <1>3, <1>4 DEF n, E

\* From i on the tokens say text.
Reads(input, scan, i, env, E, text) ==
    LET end == LiteralEnd(input, i)  r == TokensAt(input, end, scan)
    IN  /\ input \in Seq(E) /\ Scanned(input, scan) /\ i \in 1..(Len(input) + 1) /\ r.ok
        /\ \E more : Yields(r.val, env, E, more) /\ more \in Seq(E)
                     /\ text = SubSeq(input, i, end - 1) \o more
\* From i on they are tokens, but one of them has nothing to say.
Stops(input, scan, i, env) ==
    LET r == TokensAt(input, LiteralEnd(input, i), scan)
    IN  /\ Scanned(input, scan) /\ i \in 1..(Len(input) + 1) /\ r.ok
        /\ \E T : r.val \in Seq(T)
        /\ \E k \in DOMAIN r.val : ~Piece(r.val[k], env).ok

\* At its end a text says nothing more.
LEMMA ReadsEnd ==
    ASSUME NEW E, NEW input \in Seq(E), NEW scan, Scanned(input, scan), NEW env
    PROVE  Reads(input, scan, Len(input) + 1, env, E, <<>>)
<1>. DEFINE n == Len(input)  end == LiteralEnd(input, n + 1)  r == TokensAt(input, end, scan)
<1>1. n \in Nat OBVIOUS
<1>2. end = n + 1 BY <1>1, EndMoves
<1>3. r = Ok(<<>>)
  <2>1. end > Len(input) BY <1>1, <1>2
  <2>. HIDE DEF end
  <2>. QED BY <2>1 DEF TokensAt
<1>4. Yields(<<>>, env, E, <<>>) /\ <<>> \in Seq(E) BY YieldsNothing
<1>5. SubSeq(input, n + 1, n) = <<>> BY <1>1
<1>6. SubSeq(input, n + 1, end - 1) = <<>> BY <1>1, <1>2, <1>5
<1>7. <<>> = <<>> \o <<>> OBVIOUS
<1>8. n + 1 \in 1..(n + 1) BY <1>1
<1>. HIDE DEF end, r
<1>9. r.ok /\ r.val = <<>> BY <1>3 DEF Ok
<1>. QED BY <1>4, <1>6, <1>7, <1>8, <1>9 DEF Reads, r, end, n

\* A character that opens nothing says itself.
LEMMA ReadsLiteral ==
    ASSUME NEW input, NEW scan, NEW i \in 1..Len(input), NEW env, NEW E, NEW text,
           Reads(input, scan, i + 1, env, E, text), ~Opens(input, i)
    PROVE  Reads(input, scan, i, env, E, <<input[i]>> \o text)
<1>. DEFINE n == Len(input)  end == LiteralEnd(input, i)  r == TokensAt(input, end, scan)
<1>1. input \in Seq(E) /\ Scanned(input, scan) /\ i + 1 \in 1..(n + 1) BY DEF Reads
<1>2. n \in Nat BY <1>1
<1>3. end = LiteralEnd(input, i + 1) BY <1>2, EndMoves
<1>4. end \in (i + 1)..(n + 1)
  <2>1. LiteralEnd(input, i + 1) \in (i + 1)..(n + 1) BY <1>1, <1>2, LiteralEnds, Zenon
  <2>. QED BY <2>1, <1>3
<1>. HIDE DEF end
<1>5. PICK more : /\ r.ok /\ Yields(r.val, env, E, more) /\ more \in Seq(E)
                  /\ text = SubSeq(input, i + 1, end - 1) \o more
  BY <1>3 DEF Reads
<1>6. SubSeq(input, i, end - 1) = <<input[i]>> \o SubSeq(input, i + 1, end - 1)
  <2>. DEFINE e == end - 1
  <2>1. e \in i..n BY <1>2, <1>4
  <2>. HIDE DEF e
  <2>2. input \in Seq(E) /\ i \in 1..Len(input) /\ e \in i..Len(input) BY <1>1, <2>1
  <2>3. SubSeq(input, i, e) = <<input[i]>> \o SubSeq(input, i + 1, e)
    BY <2>2, SubSeqRecursiveFirst
  <2>. QED BY <2>3 DEF e
<1>. DEFINE mid == SubSeq(input, i + 1, end - 1)
<1>7. <<input[i]>> \in Seq(E) /\ mid \in Seq(E)
  <2>1. input[i] \in E BY <1>1
  <2>2. \A j \in (i + 1)..(end - 1) : input[j] \in E BY <1>1, <1>2, <1>4
  <2>. QED BY <2>1, <2>2, <1>2, <1>4, SubSeqProperties, <1>1
<1>8. Associative(E) BY Associates
<1>. HIDE DEF mid, r
<1>9. SubSeq(input, i, end - 1) \o more = <<input[i]>> \o text
  <2>1. SubSeq(input, i, end - 1) = <<input[i]>> \o mid /\ text = mid \o more
    BY <1>5, <1>6 DEF mid
  <2>2. (<<input[i]>> \o mid) \o more = <<input[i]>> \o (mid \o more)
    BY <1>5, <1>7, <1>8, Zenon DEF Associative
  <2>. QED BY <2>1, <2>2, Zenon
<1>10. i \in 1..(n + 1) BY <1>2
<1>. QED BY <1>1, <1>5, <1>9, <1>10, Zenon DEF Reads, r, end, n

\* A token without anything to say is still there from one character earlier on.
LEMMA StopsLater ==
    ASSUME NEW input, Len(input) \in Nat, NEW scan, NEW i \in 1..Len(input), NEW env,
           Stops(input, scan, i + 1, env), ~Opens(input, i)
    PROVE  Stops(input, scan, i, env)
<1>1. LiteralEnd(input, i) = LiteralEnd(input, i + 1) /\ i \in 1..(Len(input) + 1)
  BY EndMoves
<1>. QED BY <1>1, Zenon DEF Stops

\* Then the scan from there is of tokens that say it.
LEMMA ReadsScan ==
    ASSUME NEW input, NEW scan, NEW i, NEW env, NEW E, NEW text,
           Reads(input, scan, i, env, E, text)
    PROVE  /\ \E ts : scan[i] = Ok(ts) /\ Yields(ts, env, E, text)
           /\ text \in Seq(E)
<1>. DEFINE n == Len(input)  end == LiteralEnd(input, i)  r == TokensAt(input, end, scan)
<1>1. input \in Seq(E) /\ Scanned(input, scan) /\ i \in 1..(n + 1) /\ r.ok BY Zenon DEF Reads
<1>2. n \in Nat BY <1>1
<1>3. PICK more : /\ Yields(r.val, env, E, more) /\ more \in Seq(E)
                  /\ text = SubSeq(input, i, end - 1) \o more
  BY Zenon DEF Reads
<1>4. scan[i] = TokensFrom(input, i, scan) BY <1>1, Zenon DEF Scanned, n
<1>5. end \in i..(n + 1) BY <1>1, <1>2, LiteralEnds, Zenon
<1>. DEFINE lit == SubSeq(input, i, end - 1)
            flush == Flush(input, i, end)
<1>6. (flush = <<>> /\ lit = <<>>) \/ flush = <<Literal(lit)>>
  <2>. HIDE DEF end
  <2>1. CASE i < end BY <2>1 DEF Flush
  <2>2. CASE ~(i < end)
    <3>1. flush = <<>> BY <2>2 DEF Flush
    <3>2. end = i /\ end - 1 < i /\ end - 1 \in Int /\ i \in Int BY <2>2, <1>1, <1>2, <1>5
    <3>3. lit = <<>> BY <3>2, SubSeqEmpty
    <3>. QED BY <3>1, <3>3
  <2>. QED BY <2>1, <2>2
<1>7. lit \in Seq(E)
  <2>. HIDE DEF end
  <2>1. \A j \in i..(end - 1) : input[j] \in E BY <1>1, <1>2, <1>5
  <2>2. i \in Int /\ end - 1 \in Int BY <1>1, <1>5, <1>2
  <2>. QED BY <2>1, <2>2, SubSeqProperties
<1>8. scan[i] = Ok(flush \o r.val)
  <2>1. scan[i] = IF r.ok THEN Ok(flush \o r.val) ELSE r BY <1>4, TokensRead, Zenon
  <2>. QED BY <1>1, <2>1, Zenon
<1>. HIDE DEF end, lit, flush, r
<1>9. Yields(flush \o r.val, env, E, text) /\ text \in Seq(E)
  <2>. DEFINE p == Literal(lit)
  <2>1. CASE flush = <<>> /\ lit = <<>>
    <3>1. PICK T : r.val \in Seq(T) BY <1>3, Zenon DEF Yields
    <3>2. <<>> \o r.val = r.val /\ <<>> \o more = more BY <3>1, <1>3, ConcatEmptySeq
    <3>. QED BY <1>3, <2>1, <3>2, Zenon DEF lit
  <2>2. CASE flush = <<p>>
    <3>1. Piece(p, env) = Ok(lit)
      <4>1. p.kind = "literal" /\ p.text = lit BY DEF Literal, Token
      <4>. HIDE DEF p
      <4>. QED BY <4>1 DEF Piece
    <3>2. Piece(p, env).ok /\ Piece(p, env).val = lit BY <3>1 DEF Ok
    <3>. HIDE DEF p
    <3>3. Yields(<<p>> \o r.val, env, E, lit \o more) BY <1>3, <1>7, <3>2, YieldsMore
    <3>4. lit \o more \in Seq(E) BY <1>3, <1>7
    <3>. QED BY <1>3, <2>2, <3>3, <3>4, Zenon DEF lit
  <2>. QED BY <1>6, <2>1, <2>2
<1>. QED BY <1>8, <1>9

\* The scan from a position holds the token that has nothing to say.
LEMMA StopsScan ==
    ASSUME NEW input, NEW scan, NEW i, NEW env, Stops(input, scan, i, env), Len(input) \in Nat
    PROVE  \E ts : /\ scan[i] = Ok(ts) /\ \E T : ts \in Seq(T)
                   /\ \E k \in DOMAIN ts : ~Piece(ts[k], env).ok
<1>. DEFINE end == LiteralEnd(input, i)  r == TokensAt(input, end, scan)
            flush == Flush(input, i, end)  p == Literal(SubSeq(input, i, end - 1))
<1>1. Scanned(input, scan) /\ i \in 1..(Len(input) + 1) /\ r.ok BY Zenon DEF Stops
<1>2. PICK T : r.val \in Seq(T) BY Zenon DEF Stops
<1>3. PICK k \in DOMAIN r.val : ~Piece(r.val[k], env).ok BY Zenon DEF Stops
<1>4. scan[i] = TokensFrom(input, i, scan) BY <1>1, Zenon DEF Scanned
<1>5. scan[i] = Ok(flush \o r.val)
  <2>1. scan[i] = IF r.ok THEN Ok(flush \o r.val) ELSE r BY <1>4, TokensRead, Zenon
  <2>. QED BY <1>1, <2>1, Zenon
<1>6. flush = <<>> \/ flush = <<p>> BY DEF Flush
<1>. DEFINE X == T \cup {p}
<1>. HIDE DEF p, r, flush
<1>7. r.val \in Seq(X) /\ flush \in Seq(X) /\ Len(flush) \in Nat
  <2>1. T \subseteq X /\ p \in X OBVIOUS
  <2>. HIDE DEF X
  <2>2. r.val \in Seq(X) BY <1>2, <2>1, SeqMonotonic
  <2>3. <<>> \in Seq(X) /\ <<p>> \in Seq(X) BY <2>1
  <2>4. flush \in Seq(X) BY <1>6, <2>3, Zenon
  <2>. QED BY <2>2, <2>4
<1>. HIDE DEF X
<1>8. /\ flush \o r.val \in Seq(X) /\ Len(flush) + k \in DOMAIN (flush \o r.val)
      /\ (flush \o r.val)[Len(flush) + k] = r.val[k]
  <2>. DEFINE a == flush  b == r.val  m == Len(flush)
  <2>1. a \in Seq(X) /\ b \in Seq(X) /\ k \in 1..Len(b) /\ Len(a) = m /\ m \in Nat BY <1>3, <1>7
  <2>. HIDE DEF a, b, m
  <2>2. a \o b \in Seq(X) /\ m + k \in DOMAIN (a \o b) /\ (a \o b)[m + k] = b[k] BY <2>1
  <2>. QED BY <2>2 DEF a, b, m
<1>9. \E j \in DOMAIN (flush \o r.val) : ~Piece((flush \o r.val)[j], env).ok BY <1>3, <1>8, Zenon
<1>. QED BY <1>5, <1>8, <1>9

\* A token says its piece and what comes after it.
LEMMA ReadsToken ==
    ASSUME NEW input, NEW scan, NEW i \in 1..Len(input), Opens(input, i), NEW tok, NEW next,
           TokenAt(input, i) = Ok([token |-> tok, next |-> next]), NEW env, NEW E, NEW text,
           Reads(input, scan, next, env, E, text)
    PROVE  /\ Piece(tok, env).ok /\ Piece(tok, env).val \in Seq(E) =>
                 Reads(input, scan, i, env, E, Piece(tok, env).val \o text)
           /\ ~Piece(tok, env).ok => Stops(input, scan, i, env)
<1>. DEFINE n == Len(input)  here == TokensAt(input, i, scan)
<1>1. input \in Seq(E) /\ Scanned(input, scan) /\ next \in 1..(n + 1) BY Zenon DEF Reads
<1>2. n \in Nat BY <1>1
<1>3. PICK all : scan[next] = Ok(all) /\ Yields(all, env, E, text) /\ text \in Seq(E)
  BY ReadsScan
<1>4. here = Ok(<<tok>> \o all)
  <2>. DEFINE t == TokenAt(input, i)  ts == scan[t.val.next]
  <2>1. here = IF i > Len(input) THEN Ok(<<>>)
               ELSE IF ~t.ok THEN t
               ELSE IF ts.ok THEN Ok(<<t.val.token>> \o ts.val) ELSE ts
    BY TokensRead, Zenon
  <2>2. t.ok /\ t.val.next = next /\ t.val.token = tok BY DEF Ok
  <2>3. ts.ok /\ ts.val = all BY <1>3, <2>2 DEF Ok
  <2>4. ~(i > Len(input)) BY <1>2
  <2>. HIDE DEF t, ts
  <2>. QED BY <2>1, <2>2, <2>3, <2>4, Zenon
<1>5. here.ok /\ here.val = <<tok>> \o all
  <2>. HIDE DEF here
  <2>. QED BY <1>4 DEF Ok
<1>6. LiteralEnd(input, i) = i /\ i \in 1..(n + 1) BY <1>2, EndMoves
<1>. HIDE DEF here
<1>7. ASSUME Piece(tok, env).ok, Piece(tok, env).val \in Seq(E)
       PROVE  Reads(input, scan, i, env, E, Piece(tok, env).val \o text)
  <2>. DEFINE v == Piece(tok, env).val
  <2>1. Yields(<<tok>> \o all, env, E, v \o text) BY <1>3, <1>7, YieldsMore
  <2>. HIDE DEF v
  <2>2. v \in Seq(E) BY <1>7 DEF v
  <2>3. v \o text \in Seq(E) BY <1>3, <2>2
  <2>4. SubSeq(input, i, i - 1) = <<>>
    <3>1. i \in Int /\ i - 1 \in Int /\ i - 1 < i BY <1>2
    <3>. QED BY <3>1, SubSeqEmpty
  <2>5. v \o text = SubSeq(input, i, i - 1) \o (v \o text) BY <2>3, <2>4, ConcatEmptySeq
  <2>6. Yields(here.val, env, E, v \o text) BY <2>1, <1>5, Zenon
  <2>. DEFINE vt == v \o text
  <2>7. /\ Yields(here.val, env, E, vt) /\ vt \in Seq(E)
        /\ vt = SubSeq(input, i, i - 1) \o vt
    BY <2>3, <2>5, <2>6
  <2>. HIDE DEF vt
  <2>8. Reads(input, scan, i, env, E, vt)
    BY <1>1, <1>5, <1>6, <2>7, Zenon DEF Reads, here, n
  <2>. QED BY <2>8 DEF vt, v
<1>8. ASSUME ~Piece(tok, env).ok PROVE Stops(input, scan, i, env)
  <2>1. PICK T0 : all \in Seq(T0) BY <1>3, Zenon DEF Yields
  <2>2. <<tok>> \o all \in Seq(T0 \cup {tok})
    <3>. DEFINE T == T0 \cup {tok}
    <3>1. T0 \subseteq T /\ <<tok>> \in Seq(T) OBVIOUS
    <3>. HIDE DEF T
    <3>2. all \in Seq(T) BY <2>1, <3>1, SeqMonotonic
    <3>3. <<tok>> \o all \in Seq(T) BY <3>1, <3>2
    <3>. QED BY <3>3 DEF T
  <2>3. 1 \in DOMAIN (<<tok>> \o all) /\ (<<tok>> \o all)[1] = tok BY <2>1
  <2>4. \E k \in DOMAIN here.val : ~Piece(here.val[k], env).ok BY <1>5, <1>8, <2>3, Zenon
  <2>5. \E T : here.val \in Seq(T) BY <1>5, <2>2, Zenon
  <2>. QED BY <1>1, <1>5, <1>6, <2>4, <2>5, Zenon DEF Stops, here, n
<1>. QED BY <1>7, <1>8

\* What the text says from its beginning on is what it expands to.
LEMMA ReadsAll ==
    ASSUME NEW input, NEW scan, Lex(input) = scan[1], NEW env
    PROVE  /\ \A E, text : Reads(input, scan, 1, env, E, text) => Expand(input, env) = Ok(text)
           /\ Stops(input, scan, 1, env) /\ Len(input) \in Nat => ~Expand(input, env).ok
<1>1. ASSUME NEW E, NEW text, Reads(input, scan, 1, env, E, text)
      PROVE  Expand(input, env) = Ok(text)
  <2>1. PICK ts : scan[1] = Ok(ts) /\ Yields(ts, env, E, text) BY <1>1, ReadsScan
  <2>. QED BY <2>1, ExpandYields
<1>2. ASSUME Stops(input, scan, 1, env), Len(input) \in Nat
      PROVE  ~Expand(input, env).ok
  <2>1. PICK ts : /\ scan[1] = Ok(ts) /\ \E T : ts \in Seq(T)
                  /\ \E k \in DOMAIN ts : ~Piece(ts[k], env).ok
    BY <1>2, StopsScan
  <2>. DEFINE rs == [i \in DOMAIN ts |-> Piece(ts[i], env)]
              flat(texts) == Ok(FlattenSeq(texts))
              pieces(q) == AndThen(Collect([i \in DOMAIN q |-> Piece(q[i], env)]),
                                   LAMBDA texts : flat(texts))
  <2>2. Expand(input, env) = AndThen(Lex(input), LAMBDA q : pieces(q)) BY Zenon DEF Expand
  <2>3. Expand(input, env) = pieces(ts)
    <3>1. Lex(input).ok /\ Lex(input).val = ts BY <2>1 DEF Ok
    <3>. HIDE DEF pieces
    <3>. QED BY <2>2, <3>1 DEF AndThen, With
  <2>. DEFINE bad == SelectInSeq(rs, LAMBDA u : ~u.ok)
  <2>4. bad \in DOMAIN rs /\ ~rs[bad].ok
    <3>1. DOMAIN ts = 1..Len(ts) /\ Len(ts) \in Nat BY <2>1
    <3>2. DOMAIN rs = 1..Len(ts) /\ Len(rs) = Len(ts) BY <3>1
    <3>. DEFINE I == {i \in 1..Len(rs) : ~rs[i].ok}
    <3>3. I # {} /\ I \subseteq Nat
      <4>1. \E k \in 1..Len(rs) : ~rs[k].ok BY <2>1, <3>1, <3>2
      <4>. HIDE DEF rs
      <4>. QED BY <4>1, <3>1, <3>2
    <3>4. bad = Min(I)
      <4>1. bad = IF I # {} THEN Min(I) ELSE 0 BY Zenon DEF SelectInSeq
      <4>. QED BY <4>1, <3>3, Zenon
    <3>. HIDE DEF bad, I, rs
    <3>5. bad \in I BY <3>3, <3>4, MinIsLeast
    <3>. QED BY <3>2, <3>5 DEF I
  <2>5. Collect(rs) = rs[bad]
    <3>. DEFINE C(r) == IF \A i \in DOMAIN r : r[i].ok THEN Ok([i \in DOMAIN r |-> r[i].val])
                        ELSE r[SelectInSeq(r, LAMBDA u : ~u.ok)]
    <3>1. Collect(rs) = With(rs, LAMBDA r : C(r)) BY Zenon DEF Collect
    <3>2. With(rs, LAMBDA r : C(r)) = C(rs)
      <4>. HIDE DEF C, rs
      <4>. QED BY DEF With
    <3>3. C(rs) = rs[bad]
      <4>. HIDE DEF rs
      <4>. QED BY <2>4, Zenon
    <3>. QED BY <3>1, <3>2, <3>3, Zenon
  <2>6. pieces(ts) = AndThen(Collect(rs), LAMBDA texts : flat(texts)) OBVIOUS
  <2>7. pieces(ts) = rs[bad]
    <3>. HIDE DEF flat, rs, bad, pieces
    <3>. QED BY <2>4, <2>5, <2>6 DEF AndThen, With
  <2>. HIDE DEF pieces, rs, bad
  <2>. QED BY <2>3, <2>4, <2>7
<1>. QED BY <1>1, <1>2

-----------------------------------------------------------------------------
(* Doubled dollars, and references.                                         *)
\* Characters that open nothing say themselves.
LEMMA ReadsPlain ==
    ASSUME NEW E, NEW input \in Seq(E), NEW scan, NEW env,
           NEW k \in 1..(Len(input) + 1), NEW i \in 1..k, \A j \in i..(k - 1) : ~Opens(input, j)
    PROVE  /\ \A text : Reads(input, scan, k, env, E, text) =>
                          Reads(input, scan, i, env, E, SubSeq(input, i, k - 1) \o text)
           /\ Stops(input, scan, k, env) => Stops(input, scan, i, env)
<1>. DEFINE n == Len(input)
            R(p, text) == Reads(input, scan, p, env, E, text)
            S(p) == Stops(input, scan, p, env)
            Sub(p) == SubSeq(input, p, k - 1)
<1>0. n \in Nat /\ k \in 1..(n + 1) /\ i \in 1..k OBVIOUS
<1>1. \A p \in i..(k - 1) : \A text :
         /\ R(p + 1, text) => R(p, <<input[p]>> \o text)
         /\ S(p + 1) => S(p)
  <2>. SUFFICES ASSUME NEW p \in i..(k - 1), NEW text
                PROVE  /\ R(p + 1, text) => R(p, <<input[p]>> \o text)
                       /\ S(p + 1) => S(p)
    OBVIOUS
  <2>1. p \in 1..Len(input) /\ ~Opens(input, p) BY <1>0
  <2>. QED BY <2>1, ReadsLiteral, StopsLater
<1>2. \A p \in i..k : p # k => Sub(p) = <<input[p]>> \o Sub(p + 1)
  <2>. SUFFICES ASSUME NEW p \in i..k, p # k PROVE Sub(p) = <<input[p]>> \o Sub(p + 1)
    OBVIOUS
  <2>. DEFINE e == k - 1
  <2>1. p \in 1..Len(input) /\ e \in p..Len(input) BY <1>0
  <2>. HIDE DEF e
  <2>2. SubSeq(input, p, e) = <<input[p]>> \o SubSeq(input, p + 1, e)
    BY <2>1, SubSeqRecursiveFirst
  <2>. QED BY <2>2 DEF e
<1>3. \A p \in i..k : Sub(p) \in Seq(E)
  <2>. SUFFICES ASSUME NEW p \in i..k PROVE Sub(p) \in Seq(E) OBVIOUS
  <2>1. \A j \in p..(k - 1) : input[j] \in E BY <1>0
  <2>2. p \in Int /\ k - 1 \in Int BY <1>0
  <2>. QED BY <2>1, <2>2, SubSeqProperties
<1>4. Sub(k) = <<>>
  <2>1. k \in Int /\ k - 1 \in Int /\ k - 1 < k BY <1>0
  <2>. QED BY <2>1, SubSeqEmpty
<1>5. Associative(E) BY Associates
<1>6. \A p \in i..k : <<input[p]>> \in Seq(E) \/ p = k
  <2>. SUFFICES ASSUME NEW p \in i..k, p # k PROVE <<input[p]>> \in Seq(E)
    OBVIOUS
  <2>1. p \in 1..Len(input) BY <1>0
  <2>2. input[p] \in E BY <2>1
  <2>. QED BY <2>2
<1>. HIDE DEF n, R, S, Sub
<1>7. ASSUME NEW text, R(k, text) PROVE R(i, Sub(i) \o text)
  <2>0. text \in Seq(E) BY <1>7, ReadsScan DEF R
  <2>. DEFINE B == {m \in 0..(k - i) : ~R(k - m, Sub(k - m) \o text)}
  <2>1. B = {}
    <3>1. SUFFICES ASSUME B # {} PROVE FALSE OBVIOUS
    <3>2. B \subseteq Nat BY <1>0
    <3>3. PICK m \in B : \A l \in B : m <= l
      <4>. HIDE DEF B
      <4>. QED BY <3>1, <3>2, LeastNatural
    <3>4. m # 0
      <4>1. ASSUME m = 0 PROVE FALSE
        <5>1. k - 0 = k BY <1>0
        <5>2. ~R(k, Sub(k) \o text) BY <3>3, <4>1, <5>1
        <5>3. Sub(k) \o text = text BY <1>4, <2>0, ConcatEmptySeq
        <5>. QED BY <1>7, <5>2, <5>3
      <4>. QED BY <4>1
    <3>. DEFINE p == k - m
    <3>5. /\ m - 1 \in 0..(k - i) /\ ~(m <= m - 1) /\ p \in i..(k - 1) /\ p \in i..k /\ p # k
          /\ k - (m - 1) = p + 1 /\ p + 1 \in i..k
      BY <1>0, <3>3, <3>4
    <3>6. R(k - (m - 1), Sub(k - (m - 1)) \o text)
      <4>1. m - 1 \notin B BY <3>3, <3>5
      <4>. QED BY <3>5, <4>1
    <3>7. ~R(p, Sub(p) \o text) BY <3>3
    <3>. HIDE DEF p, B
    <3>8. R(p + 1, Sub(p + 1) \o text) BY <3>5, <3>6
    <3>9. R(p, <<input[p]>> \o (Sub(p + 1) \o text)) BY <1>1, <3>5, <3>8
    <3>10. (<<input[p]>> \o Sub(p + 1)) \o text = <<input[p]>> \o (Sub(p + 1) \o text)
      <4>1. <<input[p]>> \in Seq(E) BY <1>6, <3>5
      <4>2. Sub(p + 1) \in Seq(E) BY <1>3, <3>5
      <4>. QED BY <1>5, <2>0, <4>1, <4>2, Zenon DEF Associative
    <3>11. Sub(p) \o text = <<input[p]>> \o (Sub(p + 1) \o text)
      <4>1. Sub(p) = <<input[p]>> \o Sub(p + 1) BY <1>2, <3>5
      <4>. QED BY <4>1, <3>10, Zenon
    <3>. QED BY <3>7, <3>9, <3>11, Zenon
  <2>2. k - i \in 0..(k - i) /\ k - (k - i) = i BY <1>0
  <2>3. k - i \notin B BY <2>1
  <2>. QED BY <2>2, <2>3
<1>8. ASSUME S(k) PROVE S(i)
  <2>. DEFINE B == {m \in 0..(k - i) : ~S(k - m)}
  <2>1. B = {}
    <3>1. SUFFICES ASSUME B # {} PROVE FALSE OBVIOUS
    <3>2. B \subseteq Nat BY <1>0
    <3>3. PICK m \in B : \A l \in B : m <= l
      <4>. HIDE DEF B
      <4>. QED BY <3>1, <3>2, LeastNatural
    <3>4. m # 0 BY <1>0, <1>8, <3>3
    <3>5. /\ m - 1 \in 0..(k - i) /\ ~(m <= m - 1) /\ k - m \in i..(k - 1)
          /\ k - (m - 1) = (k - m) + 1
      BY <1>0, <3>3, <3>4
    <3>6. S(k - (m - 1)) BY <3>3, <3>5
    <3>7. S(k - m) BY <1>1, <3>5, <3>6
    <3>. QED BY <3>3, <3>7
  <2>2. k - i \in 0..(k - i) /\ k - (k - i) = i BY <1>0
  <2>3. k - i \notin B BY <2>1
  <2>. QED BY <2>2, <2>3
<1>. QED BY <1>7, <1>8 DEF R, S, Sub

\* lex (lexer.rs) and expand (expander.rs): a text whose dollars are doubled comes
\* out as it was written, whatever its length and characters.
THEOREM DoubledExpands ==
    ASSUME NEW E, NEW t \in Seq(E), NEW env
    PROVE  Expand(Doubled(t), env) = Ok(t)
<1>. DEFINE m == Len(t)
            pieces == [i \in DOMAIN t |-> IF t[i] = "$" THEN <<"$", "$">> ELSE <<t[i]>>]
            input == Doubled(t)
<1>1. m \in Nat /\ DOMAIN t = 1..m /\ \A k \in 1..m : t[k] \in E OBVIOUS
<1>2. pieces \in Seq(Seq(E)) /\ Len(pieces) = m
  <2>. DEFINE S == Seq(E)
  <2>1. \A k \in 1..m : pieces[k] \in S
    <3>. SUFFICES ASSUME NEW k \in 1..m PROVE pieces[k] \in S OBVIOUS
    <3>1. t[k] \in E BY <1>1
    <3>2. <<t[k]>> \in Seq(E) /\ <<t[k], t[k]>> \in Seq(E) BY <3>1
    <3>. QED BY <3>2, <1>1
  <2>2. pieces \in [1..m -> S] 
    <3>1. DOMAIN pieces = 1..m /\ pieces = [i \in 1..m |-> pieces[i]] BY <1>1
    <3>. HIDE DEF pieces, S
    <3>. QED BY <2>1, <3>1
  <2>. HIDE DEF S, pieces
  <2>3. pieces \in Seq(S) /\ Len(pieces) = m BY <1>1, <2>2
  <2>. QED BY <2>3 DEF S
<1>3. input = FlattenSeq(pieces) BY Zenon DEF Doubled
<1>4. \A k \in 1..m : pieces[k] = IF t[k] = "$" THEN <<"$", "$">> ELSE <<t[k]>> BY <1>1
<1>. HIDE DEF pieces, input
<1>5. input \in Seq(E) BY <1>2, <1>3, FlattenOffsets
<1>6. PICK off : /\ Offsets(pieces, off) /\ Len(input) = off[m]
                 /\ \A k \in 1..m : \A j \in 1..Len(pieces[k]) :
                       input[off[k - 1] + j] = pieces[k][j]
  <2>1. \E off : /\ Offsets(pieces, off) /\ Len(FlattenSeq(pieces)) = off[Len(pieces)]
                 /\ \A k \in 1..Len(pieces) : \A j \in 1..Len(pieces[k]) :
                       FlattenSeq(pieces)[off[k - 1] + j] = pieces[k][j]
    BY <1>2, FlattenOffsets
  <2>. HIDE DEF m
  <2>. QED BY <1>2, <1>3, <2>1
<1>. HIDE DEF m
<1>7. /\ off \in [0..m -> Nat] /\ off[0] = 0
      /\ \A k \in 1..m : off[k] = off[k - 1] + Len(pieces[k])
  BY <1>2, <1>6 DEF Offsets
<1>8. \A a, b \in 0..m : a <= b => off[a] <= off[b]
  <2>1. ASSUME NEW k \in 1..m PROVE off[k - 1] <= off[k]
    <3>. DEFINE a == off[k - 1]  l == Len(pieces[k])
    <3>1. k - 1 \in 0..m /\ k \in 0..m BY <1>1
    <3>0. Len(pieces[k]) \in Nat
      <4>. DEFINE S == Seq(E)
      <4>1. pieces \in Seq(S) /\ k \in 1..Len(pieces) BY <1>2
      <4>. HIDE DEF S
      <4>2. pieces[k] \in S BY <4>1, ElementOfSeq
      <4>. QED BY <4>2 DEF S
    <3>2. a \in Nat /\ l \in Nat /\ off[k] = a + l BY <3>0, <3>1, <1>7
    <3>. HIDE DEF a, l
    <3>3. a <= off[k] BY <3>2
    <3>. QED BY <3>3 DEF a
  <2>. QED BY <1>1, <1>7, <2>1, NeverFalls
<1>9. PICK scan : Scanned(input, scan) /\ Lex(input) = scan[1] BY <1>5, LexScans
<1>. DEFINE Done(k) == Reads(input, scan, off[k] + 1, env, E, SubSeq(t, k + 1, m))
<1>10. Done(m)
  <2>1. SubSeq(t, m + 1, m) = <<>> 
    <3>1. m + 1 \in Int /\ m \in Int /\ m < m + 1 BY <1>1
    <3>. QED BY <3>1, SubSeqEmpty
  <2>2. Reads(input, scan, Len(input) + 1, env, E, <<>>) BY <1>5, <1>9, ReadsEnd
  <2>. QED BY <1>6, <2>1, <2>2, Zenon
<1>11. ASSUME NEW k \in 1..m, Done(k) PROVE Done(k - 1)
  <2>. DEFINE i == off[k - 1] + 1  text == SubSeq(t, k + 1, m)
  <2>1. /\ k - 1 \in 0..m /\ k \in 0..m /\ m \in 0..m /\ k <= m /\ (k - 1) + 1 = k
        /\ off[k] \in Nat /\ off[k - 1] \in Nat /\ off[m] \in Nat
    BY <1>1, <1>7
  <2>2. off[k] <= off[m] BY <1>8, <2>1
  <2>3. SubSeq(t, k, m) = <<t[k]>> \o text
    <3>1. k \in 1..Len(t) /\ m \in k..Len(t) BY <1>1, <2>1 DEF m
    <3>. QED BY <3>1, SubSeqRecursiveFirst
  <2>4. Reads(input, scan, off[k] + 1, env, E, text) BY <1>11
  <2>5. Reads(input, scan, i, env, E, <<t[k]>> \o text)
    <3>1. CASE t[k] = "$"
      <4>1. pieces[k] = <<"$", "$">> BY <1>4, <3>1
      <4>2. Len(pieces[k]) = 2 /\ pieces[k][1] = "$" /\ pieces[k][2] = "$" BY <4>1
      <4>3. off[k] = off[k - 1] + 2 BY <1>7, <4>2
      <4>4. i \in 1..Len(input) /\ i < Len(input) /\ i + 1 = off[k - 1] + 2 /\ i + 2 = off[k] + 1
        BY <1>6, <2>1, <2>2, <4>3
      <4>5. input[i] = "$" /\ input[i + 1] = "$"
        <5>1. 1 \in 1..Len(pieces[k]) /\ 2 \in 1..Len(pieces[k]) BY <4>2
        <5>2. input[off[k - 1] + 1] = "$" /\ input[off[k - 1] + 2] = "$"
          BY <1>6, <4>2, <5>1
        <5>. QED BY <5>2, <4>4
      <4>. HIDE DEF i, text
      <4>6. Opens(input, i) BY <4>4, <4>5 DEF Opens
      <4>7. TokenAt(input, i) = Ok([token |-> Escape, next |-> i + 2])
        BY <4>5, TokenAtReads, Zenon
      <4>8. Piece(Escape, env) = Ok(<<"$">>)
        <5>1. Escape.kind = "literal" /\ Escape.text = <<"$">> BY DEF Escape, Literal, Token
        <5>. QED BY <5>1 DEF Piece
      <4>9. Piece(Escape, env).ok /\ Piece(Escape, env).val = <<"$">> BY <4>8 DEF Ok
      <4>10. <<"$">> \in Seq(E)
        <5>1. "$" \in E BY <1>1, <3>1
        <5>. QED BY <5>1
      <4>11. Reads(input, scan, i + 2, env, E, text) BY <2>4, <4>4
      <4>12. Reads(input, scan, i, env, E, Piece(Escape, env).val \o text)
        BY <4>4, <4>6, <4>7, <4>9, <4>10, <4>11, ReadsToken
      <4>. QED BY <3>1, <4>9, <4>12
    <3>2. CASE t[k] # "$"
      <4>1. pieces[k] = <<t[k]>> BY <1>4, <3>2
      <4>2. Len(pieces[k]) = 1 /\ pieces[k][1] = t[k] BY <4>1
      <4>3. off[k] = off[k - 1] + 1 BY <1>7, <4>2
      <4>4. i \in 1..Len(input) /\ i + 1 = off[k] + 1 BY <1>6, <2>1, <2>2, <4>3
      <4>5. input[i] = t[k]
        <5>1. 1 \in 1..Len(pieces[k]) BY <4>2
        <5>. QED BY <1>6, <4>2, <5>1
      <4>. HIDE DEF i, text
      <4>6. ~Opens(input, i) BY <3>2, <4>5 DEF Opens
      <4>7. Reads(input, scan, i + 1, env, E, text) BY <2>4, <4>4
      <4>8. Reads(input, scan, i, env, E, <<input[i]>> \o text) BY <4>4, <4>6, <4>7, ReadsLiteral
      <4>. QED BY <4>5, <4>8
    <3>. QED BY <3>1, <3>2
  <2>. QED BY <2>1, <2>3, <2>5
<1>. HIDE DEF Done
<1>12. Done(0)
  <2>. DEFINE B == {k \in 0..m : ~Done(m - k)}
  <2>1. B = {}
    <3>1. SUFFICES ASSUME B # {} PROVE FALSE OBVIOUS
    <3>2. B \subseteq Nat BY <1>1
    <3>3. PICK k \in B : \A l \in B : k <= l
      <4>. HIDE DEF B
      <4>. QED BY <3>1, <3>2, LeastNatural
    <3>4. k # 0 BY <1>1, <1>10, <3>3
    <3>5. /\ k - 1 \in 0..m /\ ~(k <= k - 1) /\ m - (k - 1) \in 1..m
          /\ (m - (k - 1)) - 1 = m - k
      BY <1>1, <3>3, <3>4
    <3>6. Done(m - (k - 1)) BY <3>3, <3>5
    <3>7. Done(m - k) BY <1>11, <3>5, <3>6
    <3>. QED BY <3>3, <3>7
  <2>2. m \in 0..m /\ m - m = 0 BY <1>1
  <2>3. m \notin B BY <2>1
  <2>. QED BY <2>2, <2>3
<1>13. Reads(input, scan, 1, env, E, t)
  <2>1. off[0] + 1 = 1 /\ 0 + 1 = 1 BY <1>7
  <2>2. SubSeq(t, 1, m) = t BY SubSeqFull DEF m
  <2>. QED BY <1>12, <2>1, <2>2 DEF Done
<1>. QED BY <1>9, <1>13, ReadsAll DEF input

\* The braces, by name.
LBrace == "{"
RBrace == "}"
\* Where the parts of a text with one reference stand.
Placed(input, t, inner, u) ==
    LET a == Len(t)  b == Len(t) + Len(inner) + 3
    IN  /\ Len(input) = b + Len(u)
        /\ \A i \in 1..a : input[i] = t[i]
        /\ input[a + 1] = "$" /\ input[a + 2] = LBrace /\ input[b] = RBrace
        /\ \A i \in 1..Len(inner) : input[a + 2 + i] = inner[i]
        /\ \A i \in 1..Len(u) : input[b + i] = u[i]
\* A text around a reference is made of these parts.
LEMMA RefPlaced ==
    ASSUME NEW E, "$" \in E, LBrace \in E, RBrace \in E, NEW t \in Seq(E), NEW u \in Seq(E),
           NEW name \in Seq(E), NEW modifier \in Seq(E)
    PROVE  /\ t \o Ref(name, modifier) \o u \in Seq(E)
           /\ Placed(t \o Ref(name, modifier) \o u, t, name \o modifier, u)
<1>. DEFINE inner == name \o modifier  open == <<"$", LBrace>>  close == <<RBrace>>
            ref == Ref(name, modifier)  left == t \o ref  input == left \o u
<1>1. open \in Seq(E) /\ close \in Seq(E) /\ inner \in Seq(E) OBVIOUS
<1>2. Associative(E) BY Associates
<1>3. ref = open \o (inner \o close)
  <2>1. ref = ((open \o name) \o modifier) \o close BY Zenon DEF Ref, LBrace, RBrace
  <2>2. open \o name \in Seq(E) BY <1>1
  <2>. HIDE DEF inner, open, close, ref
  <2>3. ((open \o name) \o modifier) \o close = (open \o name) \o (modifier \o close)
    BY <1>1, <1>2, <2>2, Zenon DEF Associative
  <2>4. modifier \o close \in Seq(E) BY <1>1
  <2>5. (open \o name) \o (modifier \o close) = open \o (name \o (modifier \o close))
    <3>. DEFINE s == modifier \o close
    <3>1. s \in Seq(E) BY <2>4
    <3>. HIDE DEF s
    <3>2. (open \o name) \o s = open \o (name \o s)
      <4>1. name \in Seq(E) /\ open \in Seq(E) BY <1>1
      <4>. QED BY <3>1, <4>1, <1>2, ZenonT(60) DEF Associative
    <3>. QED BY <3>2 DEF s
  <2>6. (name \o modifier) \o close = name \o (modifier \o close)
    BY <1>1, <1>2, ZenonT(60) DEF Associative
  <2>. QED BY <2>1, <2>3, <2>5, <2>6, ZenonT(60) DEF inner
<1>4. Len(open) = 2 /\ open[1] = "$" /\ open[2] = LBrace /\ Len(close) = 1 /\ close[1] = RBrace
  OBVIOUS
<1>. HIDE DEF inner, open, close, ref
<1>5. \A p, q \in Seq(E) : /\ p \o q \in Seq(E) /\ Len(p \o q) = Len(p) + Len(q)
                           /\ Len(p) \in Nat /\ Len(q) \in Nat
                           /\ \A i \in 1..Len(p) : (p \o q)[i] = p[i]
                           /\ \A i \in 1..Len(q) : (p \o q)[Len(p) + i] = q[i]
  OBVIOUS
<1>6. /\ inner \o close \in Seq(E) /\ Len(inner \o close) = Len(inner) + 1 /\ Len(inner) \in Nat
      /\ \A i \in 1..Len(inner) : (inner \o close)[i] = inner[i]
      /\ (inner \o close)[Len(inner) + 1] = RBrace
  <2>1. /\ inner \o close \in Seq(E) /\ Len(inner \o close) = Len(inner) + Len(close)
        /\ Len(inner) \in Nat
        /\ \A i \in 1..Len(inner) : (inner \o close)[i] = inner[i]
        /\ \A i \in 1..Len(close) : (inner \o close)[Len(inner) + i] = close[i]
    BY <1>1, <1>5, Zenon
  <2>2. 1 \in 1..Len(close) BY <1>4
  <2>. QED BY <1>4, <2>1, <2>2
<1>. DEFINE l == Len(inner)  a == Len(t)  v == Len(u)
<1>7. /\ ref \in Seq(E) /\ Len(ref) = l + 3
      /\ ref[1] = "$" /\ ref[2] = LBrace /\ ref[l + 3] = RBrace
      /\ \A i \in 1..l : ref[2 + i] = inner[i]
  <2>. DEFINE q == inner \o close
  <2>1. /\ q \in Seq(E) /\ Len(q) = l + 1 /\ l \in Nat /\ q[l + 1] = RBrace
        /\ \A i \in 1..l : q[i] = inner[i]
    BY <1>6
  <2>. HIDE DEF q, l
  <2>2. /\ open \o q \in Seq(E) /\ Len(open \o q) = 2 + (l + 1)
        /\ (open \o q)[1] = "$" /\ (open \o q)[2] = LBrace
        /\ \A i \in 1..(l + 1) : (open \o q)[2 + i] = q[i]
    <3>1. /\ open \o q \in Seq(E) /\ Len(open \o q) = Len(open) + Len(q)
          /\ \A i \in 1..Len(open) : (open \o q)[i] = open[i]
          /\ \A i \in 1..Len(q) : (open \o q)[Len(open) + i] = q[i]
      BY <1>1, <1>5, <2>1, Zenon
    <3>2. 1 \in 1..Len(open) /\ 2 \in 1..Len(open) BY <1>4
    <3>. QED BY <1>4, <2>1, <3>1, <3>2
  <2>3. ref = open \o q BY <1>3 DEF q
  <2>4. l + 1 \in 1..(l + 1) /\ 2 + (l + 1) = l + 3 /\ \A i \in 1..l : i \in 1..(l + 1)
    BY <2>1
  <2>. QED BY <2>1, <2>2, <2>3, <2>4
<1>8. a \in Nat /\ v \in Nat /\ l \in Nat BY <1>1
<1>. HIDE DEF l, a, v
<1>9. /\ left \in Seq(E) /\ Len(left) = a + (l + 3)
      /\ \A i \in 1..a : left[i] = t[i]
      /\ \A i \in 1..(l + 3) : left[a + i] = ref[i]
  <2>1. /\ t \o ref \in Seq(E) /\ Len(t \o ref) = Len(t) + Len(ref)
        /\ \A i \in 1..Len(t) : (t \o ref)[i] = t[i]
        /\ \A i \in 1..Len(ref) : (t \o ref)[Len(t) + i] = ref[i]
    BY <1>5, <1>7, Zenon
  <2>. QED BY <1>7, <2>1 DEF a
<1>. HIDE DEF left
<1>10. /\ input \in Seq(E) /\ Len(input) = (a + (l + 3)) + v
       /\ \A i \in 1..(a + (l + 3)) : input[i] = left[i]
       /\ \A i \in 1..v : input[(a + (l + 3)) + i] = u[i]
  <2>1. /\ left \o u \in Seq(E) /\ Len(left \o u) = Len(left) + Len(u)
        /\ \A i \in 1..Len(left) : (left \o u)[i] = left[i]
        /\ \A i \in 1..Len(u) : (left \o u)[Len(left) + i] = u[i]
    BY <1>5, <1>9, Zenon
  <2>. QED BY <1>9, <2>1 DEF v
<1>. HIDE DEF input
<1>. DEFINE b == a + l + 3
<1>11. b = a + (l + 3) /\ b \in Nat BY <1>8
<1>12. \A i \in 1..(l + 3) : input[a + i] = ref[i]
  <2>. SUFFICES ASSUME NEW i \in 1..(l + 3) PROVE input[a + i] = ref[i] OBVIOUS
  <2>1. a + i \in 1..(a + (l + 3)) BY <1>8
  <2>. QED BY <1>9, <1>10, <2>1
<1>13. Len(input) = b + v /\ \A i \in 1..v : input[b + i] = u[i] BY <1>10, <1>11
<1>14. \A i \in 1..a : input[i] = t[i]
  <2>1. \A i \in 1..a : i \in 1..(a + (l + 3)) BY <1>8
  <2>. QED BY <1>9, <1>10, <2>1
<1>15. input[a + 1] = "$" /\ input[a + 2] = LBrace /\ input[b] = RBrace
  <2>1. 1 \in 1..(l + 3) /\ 2 \in 1..(l + 3) /\ l + 3 \in 1..(l + 3) BY <1>8
  <2>. HIDE DEF b
  <2>. QED BY <1>7, <1>11, <1>12, <2>1
<1>16. \A i \in 1..l : input[a + 2 + i] = inner[i]
  <2>. SUFFICES ASSUME NEW i \in 1..l PROVE input[a + 2 + i] = inner[i] OBVIOUS
  <2>1. 2 + i \in 1..(l + 3) /\ a + (2 + i) = a + 2 + i BY <1>8
  <2>. QED BY <1>7, <1>12, <2>1
<1>17. Placed(input, t, inner, u)
  BY <1>13, <1>14, <1>15, <1>16, Zenon DEF Placed, a, b, l, v
<1>. QED BY <1>10, <1>17 DEF input, left, ref, inner

\* A reference is replaced by what its token says, and the text around it stays.
LEMMA RefReads ==
    ASSUME NEW E, "$" \in E, LBrace \in E, RBrace \in E,
           NEW t \in Seq(E \ {"$"}), NEW u \in Seq(E \ {"$"}),
           NEW name \in Seq(E \ {RBrace}), NEW modifier \in Seq(E \ {RBrace}), NEW env, NEW tok,
           ParseExpansion(name \o modifier) = Ok(tok)
    PROVE  LET input == t \o Ref(name, modifier) \o u
           IN  /\ Piece(tok, env).ok /\ Piece(tok, env).val \in Seq(E) =>
                     Expand(input, env) = Ok(t \o Piece(tok, env).val \o u)
               /\ ~Piece(tok, env).ok => ~Expand(input, env).ok
<1>. DEFINE input == t \o Ref(name, modifier) \o u  inner == name \o modifier
            a == Len(t)  l == Len(inner)  v == Len(u)  b == a + l + 3  n == Len(input)
            val == Piece(tok, env).val
<1>1. t \in Seq(E) /\ u \in Seq(E) /\ name \in Seq(E) /\ modifier \in Seq(E) 
  <2>1. E \ {"$"} \subseteq E /\ E \ {RBrace} \subseteq E OBVIOUS
  <2>. QED BY <2>1, SeqMonotonic
<1>2. inner \in Seq(E \ {RBrace}) /\ inner \in Seq(E)
  <2>. DEFINE F == E \ {RBrace}
  <2>1. name \in Seq(F) /\ modifier \in Seq(F) OBVIOUS
  <2>. HIDE DEF F
  <2>2. inner \in Seq(F) BY <2>1
  <2>. QED BY <2>2, <1>1 DEF F
<1>3. input \in Seq(E) /\ Placed(input, t, inner, u) BY <1>1, RefPlaced
<1>4. a \in Nat /\ l \in Nat /\ v \in Nat /\ n \in Nat BY <1>1, <1>2, <1>3
<1>5. /\ \A i \in 1..a : t[i] # "$" /\ t[i] \in E
      /\ \A i \in 1..v : u[i] # "$" /\ u[i] \in E
      /\ \A i \in 1..l : inner[i] # RBrace /\ inner[i] \in E
  <2>1. \A i \in 1..a : t[i] \in E \ {"$"} OBVIOUS
  <2>2. \A i \in 1..v : u[i] \in E \ {"$"} OBVIOUS
  <2>. HIDE DEF inner
  <2>3. \A i \in 1..l : inner[i] \in E \ {RBrace} BY <1>2
  <2>. QED BY <2>1, <2>2, <2>3
<1>. HIDE DEF input, inner
<1>6. /\ n = b + v
      /\ \A i \in 1..a : input[i] = t[i]
      /\ input[a + 1] = "$" /\ input[a + 2] = LBrace /\ input[b] = RBrace
      /\ \A i \in 1..l : input[a + 2 + i] = inner[i]
      /\ \A i \in 1..v : input[b + i] = u[i]
  BY <1>3, Zenon DEF Placed
<1>. HIDE DEF a, l, v, n
<1>7. b \in Nat /\ a + 1 \in 1..n /\ a + 1 < n /\ b \in (a + 3)..n BY <1>4, <1>6
<1>8. \A i \in 1..a : ~Opens(input, i) BY <1>5, <1>6 DEF Opens
<1>9. \A i \in (b + 1)..n : ~Opens(input, i)
  <2>. SUFFICES ASSUME NEW i \in (b + 1)..n PROVE ~Opens(input, i) OBVIOUS
  <2>1. i - b \in 1..v /\ b + (i - b) = i BY <1>4, <1>6, <1>7
  <2>. HIDE DEF b
  <2>2. input[i] = u[i - b] BY <1>6, <2>1
  <2>. QED BY <1>5, <2>1, <2>2 DEF Opens
<1>10. Opens(input, a + 1)
  <2>1. (a + 1) + 1 = a + 2 BY <1>4
  <2>2. a + 1 < Len(input) /\ input[a + 1] = "$" /\ input[(a + 1) + 1] \in {"$", LBrace}
    BY <1>6, <1>7, <2>1 DEF n
  <2>. QED BY <2>2, Zenon DEF Opens, LBrace
<1>11. Close(input, a + 1) = b
  <2>. DEFINE S == {i \in ((a + 1) + 2)..Len(input) : input[i] = RBrace}  c == Close(input, a + 1)
  <2>1. a + 1 \in Nat /\ Len(input) \in Nat BY <1>4 DEF n
  <2>2. S # {} => c \in ((a + 1) + 2)..Len(input) /\ input[c] = RBrace /\ \A i \in S : c <= i
    BY <2>1, ClosesAt, Zenon DEF RBrace
  <2>3. b \in S 
    <3>1. b \in ((a + 1) + 2)..Len(input) BY <1>4, <1>7 DEF n
    <3>. HIDE DEF b
    <3>. QED BY <1>6, <3>1
  <2>. HIDE DEF S, c, b
  <2>4. c \in (a + 3)..n /\ input[c] = RBrace /\ c <= b
    <3>1. (a + 1) + 2 = a + 3 BY <1>4
    <3>. QED BY <2>2, <2>3, <3>1 DEF n
  <2>5. c \notin (a + 3)..(b - 1)
    <3>1. SUFFICES ASSUME c \in (a + 3)..(b - 1) PROVE FALSE OBVIOUS
    <3>. DEFINE i == c - (a + 2)
    <3>2. i \in 1..l /\ a + 2 + i = c BY <1>4, <3>1 DEF b
    <3>. HIDE DEF i
    <3>3. input[c] = inner[i] BY <1>6, <3>2
    <3>. QED BY <1>5, <2>4, <3>2, <3>3
  <2>6. c = b BY <1>4, <1>7, <2>4, <2>5
  <2>. QED BY <2>6 DEF c
<1>12. Inner(input, a + 1) = inner
  <2>. DEFINE lo == a + 3  hi == b - 1  s == SubSeq(input, lo, hi)
  <2>1. Inner(input, a + 1) = SubSeq(input, (a + 1) + 2, b - 1) BY <1>11, Zenon DEF Inner
  <2>2. (a + 1) + 2 = lo BY <1>4
  <2>3. lo \in Int /\ hi \in Int /\ \A i \in lo..hi : input[i] \in E
    <3>1. \A i \in lo..hi : i \in 1..n BY <1>4, <1>7
    <3>2. \A i \in 1..n : input[i] \in E BY <1>3 DEF n
    <3>3. lo \in Int /\ hi \in Int BY <1>4
    <3>. HIDE DEF lo, hi
    <3>. QED BY <3>1, <3>2, <3>3
  <2>4. hi - lo + 1 = l /\ (lo <= hi \/ l = 0) /\ \A i \in 1..l : lo + i - 1 = a + 2 + i
    BY <1>4
  <2>5. s \in Seq(E) /\ Len(s) = (IF lo <= hi THEN hi - lo + 1 ELSE 0)
        /\ \A i \in 1..(hi - lo + 1) : s[i] = input[lo + i - 1]
    <3>. HIDE DEF lo, hi
    <3>. QED BY <2>3, SubSeqProperties
  <2>6. Len(s) = l
    <3>1. lo <= hi => hi - lo + 1 = l BY <2>4
    <3>2. ~(lo <= hi) => l = 0 BY <2>4
    <3>. HIDE DEF lo, hi, s
    <3>. QED BY <2>5, <3>1, <3>2
  <2>7. \A i \in 1..l : s[i] = inner[i]
    <3>. SUFFICES ASSUME NEW i \in 1..l PROVE s[i] = inner[i] OBVIOUS
    <3>1. i \in 1..(hi - lo + 1) /\ lo + i - 1 = a + 2 + i BY <2>4
    <3>. HIDE DEF lo, hi, s
    <3>. QED BY <1>6, <2>5, <3>1
  <2>. HIDE DEF s, lo, hi
  <2>8. s = inner BY <1>2, <2>5, <2>6, <2>7, SeqEqual DEF l
  <2>. QED BY <2>1, <2>2, <2>8, Zenon DEF s, hi
<1>13. TokenAt(input, a + 1) = Ok([token |-> tok, next |-> b + 1])
  <2>. DEFINE p == ParseExpansion(Inner(input, a + 1))  c == Close(input, a + 1)
  <2>1. (a + 1) + 1 = a + 2 BY <1>4
  <2>2. input[(a + 1) + 1] # "$"
    <3>1. input[a + 2] = LBrace /\ LBrace # "$" BY <1>6, Zenon DEF LBrace
    <3>. QED BY <2>1, <3>1
  <2>3. p = Ok(tok) BY <1>12, Zenon DEF inner
  <2>4. c = b /\ b # 0 BY <1>4, <1>11
  <2>. HIDE DEF p, c, b
  <2>5. TokenAt(input, a + 1) =
             IF input[(a + 1) + 1] = "$" THEN Ok([token |-> Escape, next |-> (a + 1) + 2])
             ELSE IF c = 0 THEN Err("Unterminated")
             ELSE IF p.ok THEN Ok([token |-> p.val, next |-> c + 1]) ELSE p
    BY TokenAtReads, Zenon DEF p, c
  <2>6. p.ok /\ p.val = tok BY <2>3 DEF Ok
  <2>. QED BY <2>2, <2>4, <2>5, <2>6, Zenon
<1>14. PICK scan : Scanned(input, scan) /\ Lex(input) = scan[1] BY <1>4, LexScans DEF n
<1>15. Reads(input, scan, b + 1, env, E, u)
  <2>. DEFINE s == SubSeq(input, b + 1, n)
  <2>1. Reads(input, scan, n + 1, env, E, <<>>) BY <1>3, <1>14, ReadsEnd DEF n
  <2>2. Reads(input, scan, b + 1, env, E, SubSeq(input, b + 1, (n + 1) - 1) \o <<>>)
    <3>. DEFINE k == n + 1  i == b + 1
    <3>1. k \in 1..(Len(input) + 1) /\ i \in 1..k BY <1>4, <1>7 DEF n
    <3>2. \A j \in i..(k - 1) : ~Opens(input, j)
      <4>1. k - 1 = n BY <1>4
      <4>. QED BY <1>9, <4>1
    <3>3. Reads(input, scan, k, env, E, <<>>) BY <2>1
    <3>. HIDE DEF k, i
    <3>4. Reads(input, scan, i, env, E, SubSeq(input, i, k - 1) \o <<>>)
      BY <1>3, <3>1, <3>2, <3>3, ReadsPlain
    <3>. QED BY <3>4 DEF k, i
  <2>3. (n + 1) - 1 = n BY <1>4
  <2>4. s \in Seq(E) /\ Len(s) = v /\ \A i \in 1..v : s[i] = u[i]
    <3>. DEFINE lo == b + 1
    <3>1. lo \in Int /\ n \in Int /\ \A i \in lo..n : input[i] \in E
      <4>1. \A i \in lo..n : i \in 1..n BY <1>7
      <4>2. \A i \in 1..n : input[i] \in E BY <1>3 DEF n
      <4>3. lo \in Int /\ n \in Int BY <1>4
      <4>. HIDE DEF lo
      <4>. QED BY <4>1, <4>2, <4>3
    <3>2. n - lo + 1 = v /\ (lo <= n \/ v = 0) /\ \A i \in 1..v : lo + i - 1 = b + i
      BY <1>4, <1>6
    <3>. HIDE DEF lo
    <3>3. SubSeq(input, lo, n) \in Seq(E)
          /\ Len(SubSeq(input, lo, n)) = (IF lo <= n THEN n - lo + 1 ELSE 0)
          /\ \A i \in 1..(n - lo + 1) : SubSeq(input, lo, n)[i] = input[lo + i - 1]
      BY <3>1, SubSeqProperties
    <3>. DEFINE r == SubSeq(input, lo, n)
    <3>. HIDE DEF b, r
    <3>4. r \in Seq(E) /\ Len(r) = v /\ \A i \in 1..v : r[i] = u[i]
      <4>1. Len(r) = v BY <1>4, <3>1, <3>2, <3>3 DEF r
      <4>2. \A i \in 1..v : r[i] = u[i] BY <1>6, <3>2, <3>3 DEF r
      <4>. QED BY <3>3, <4>1, <4>2 DEF r
    <3>. QED BY <3>4 DEF r, lo
  <2>. HIDE DEF s, b
  <2>5. s = u BY <1>1, <2>4, SeqEqual DEF v
  <2>6. u \o <<>> = u BY <1>1, ConcatEmptySeq
  <2>. QED BY <2>2, <2>3, <2>5, <2>6 DEF s
<1>. HIDE DEF b
<1>16. /\ Piece(tok, env).ok /\ val \in Seq(E) => Reads(input, scan, a + 1, env, E, val \o u)
       /\ ~Piece(tok, env).ok => Stops(input, scan, a + 1, env)
  <2>. DEFINE i == a + 1  next == b + 1
  <2>1. i \in 1..Len(input) /\ Opens(input, i)
        /\ TokenAt(input, i) = Ok([token |-> tok, next |-> next])
        /\ Reads(input, scan, next, env, E, u)
    BY <1>7, <1>10, <1>13, <1>15 DEF n
  <2>. HIDE DEF i, next
  <2>2. /\ Piece(tok, env).ok /\ Piece(tok, env).val \in Seq(E) =>
              Reads(input, scan, i, env, E, Piece(tok, env).val \o u)
        /\ ~Piece(tok, env).ok => Stops(input, scan, i, env)
    BY <2>1, ReadsToken
  <2>. QED BY <2>2 DEF i
<1>17. SubSeq(input, 1, a) = t
  <2>1. \A i \in 1..a : input[i] \in E BY <1>5, <1>6
  <2>. DEFINE s == SubSeq(input, 1, a)
  <2>2. 1 \in Int /\ a \in Int BY <1>4
  <2>3. s \in Seq(E) /\ Len(s) = (IF 1 <= a THEN a - 1 + 1 ELSE 0)
        /\ \A i \in 1..(a - 1 + 1) : s[i] = input[1 + i - 1]
    BY <2>1, <2>2, SubSeqProperties
  <2>. HIDE DEF s
  <2>4. Len(s) = a BY <1>4, <2>3
  <2>5. \A i \in 1..a : s[i] = t[i]
    <3>. SUFFICES ASSUME NEW i \in 1..a PROVE s[i] = t[i] OBVIOUS
    <3>1. i \in 1..(a - 1 + 1) /\ 1 + i - 1 = i BY <1>4
    <3>. QED BY <1>6, <2>3, <3>1
  <2>6. s = t BY <1>1, <2>3, <2>4, <2>5, SeqEqual DEF a
  <2>. QED BY <2>6 DEF s
<1>18. /\ \A text : Reads(input, scan, a + 1, env, E, text) =>
                      Reads(input, scan, 1, env, E, t \o text)
       /\ Stops(input, scan, a + 1, env) => Stops(input, scan, 1, env)
  <2>. DEFINE k == a + 1
  <2>1. k \in 1..(Len(input) + 1) /\ 1 \in 1..k /\ k - 1 = a BY <1>4, <1>7 DEF n
  <2>. HIDE DEF k
  <2>2. \A j \in 1..(k - 1) : ~Opens(input, j) BY <1>8, <2>1
  <2>3. /\ \A text : Reads(input, scan, k, env, E, text) =>
                      Reads(input, scan, 1, env, E, SubSeq(input, 1, k - 1) \o text)
        /\ Stops(input, scan, k, env) => Stops(input, scan, 1, env)
    BY <1>3, <2>1, <2>2, ReadsPlain
  <2>. QED BY <1>17, <2>1, <2>3 DEF k
<1>19. ASSUME Piece(tok, env).ok, val \in Seq(E) PROVE Expand(input, env) = Ok(t \o val \o u)
  <2>. HIDE DEF val
  <2>1. Reads(input, scan, 1, env, E, t \o (val \o u)) BY <1>16, <1>18, <1>19
  <2>2. Associative(E) BY Associates
  <2>3. (t \o val) \o u = t \o (val \o u) BY <1>1, <1>19, <2>2, Zenon DEF Associative
  <2>4. Expand(input, env) = Ok(t \o (val \o u)) BY <1>14, <2>1, ReadsAll
  <2>. QED BY <2>3, <2>4, Zenon
<1>20. ASSUME ~Piece(tok, env).ok PROVE ~Expand(input, env).ok
  <2>1. Stops(input, scan, 1, env) BY <1>16, <1>18, <1>20
  <2>2. Len(input) \in Nat BY <1>4 DEF n
  <2>. QED BY <1>14, <2>1, <2>2, ReadsAll
<1>. QED BY <1>19, <1>20 DEF input

\* Of two texts written one after the other each can be cut out again.
LEMMA ConcatParts ==
    ASSUME NEW E, NEW s \in Seq(E), NEW t \in Seq(E)
    PROVE  /\ SubSeq(s \o t, 1, Len(s)) = s
           /\ Tail2(s \o t, Len(s) + 1) = t
<1>. DEFINE a == Len(s)  b == Len(t)  q == s \o t
<1>1. a \in Nat /\ b \in Nat OBVIOUS
<1>2. /\ q \in Seq(E) /\ Len(q) = a + b
      /\ \A i \in 1..a : q[i] = s[i]
      /\ \A i \in 1..b : q[a + i] = t[i]
  OBVIOUS
<1>. HIDE DEF q, a, b
<1>3. \A i \in 1..(a + b) : q[i] \in E BY <1>2
<1>4. SubSeq(q, 1, a) = s
  <2>. DEFINE c == SubSeq(q, 1, a)
  <2>1. 1 \in Int /\ a \in Int /\ \A i \in 1..a : q[i] \in E BY <1>1, <1>3
  <2>2. /\ c \in Seq(E) /\ Len(c) = (IF 1 <= a THEN a - 1 + 1 ELSE 0)
        /\ \A i \in 1..(a - 1 + 1) : c[i] = q[1 + i - 1]
    BY <2>1, SubSeqProperties
  <2>. HIDE DEF c
  <2>3. Len(c) = a BY <1>1, <2>2
  <2>4. \A i \in 1..a : c[i] = s[i]
    <3>. SUFFICES ASSUME NEW i \in 1..a PROVE c[i] = s[i] OBVIOUS
    <3>1. i \in 1..(a - 1 + 1) /\ 1 + i - 1 = i BY <1>1
    <3>. QED BY <1>2, <2>2, <3>1
  <2>5. c = s BY <2>2, <2>3, <2>4, SeqEqual DEF a
  <2>. QED BY <2>5 DEF c
<1>5. SubSeq(q, a + 1, a + b) = t
  <2>. DEFINE lo == a + 1  hi == a + b  c == SubSeq(q, lo, hi)
  <2>1. lo \in Int /\ hi \in Int /\ \A i \in lo..hi : q[i] \in E
    <3>1. \A i \in lo..hi : i \in 1..(a + b) BY <1>1
    <3>2. lo \in Int /\ hi \in Int BY <1>1
    <3>. HIDE DEF lo
    <3>. QED BY <1>3, <3>1, <3>2
  <2>2. hi - lo + 1 = b /\ (lo <= hi \/ b = 0) /\ \A i \in 1..b : lo + i - 1 = a + i
    BY <1>1
  <2>. HIDE DEF lo, hi
  <2>3. /\ c \in Seq(E) /\ Len(c) = (IF lo <= hi THEN hi - lo + 1 ELSE 0)
        /\ \A i \in 1..(hi - lo + 1) : c[i] = q[lo + i - 1]
    BY <2>1, SubSeqProperties
  <2>. HIDE DEF c
  <2>4. Len(c) = b BY <2>1, <2>2, <2>3
  <2>5. \A i \in 1..b : c[i] = t[i] BY <1>2, <2>2, <2>3
  <2>6. c = t BY <2>3, <2>4, <2>5, SeqEqual DEF b
  <2>. QED BY <2>6 DEF c, lo, hi
<1>. QED BY <1>2, <1>4, <1>5 DEF Tail2, q, a

\* What ends a name, and what is one.
LEMMA NamesEnd ==
    ~IsNameChar(RBrace) /\ ~IsNameChar(":") /\ ~IsNameChar("-") /\ IsNameChar("_")
<1>1. RBrace \in Marks /\ ":" \in Marks /\ "-" \in Marks BY Zenon DEF Marks, RBrace
<1>2. \A b \in Marks : b \notin NameChars BY NameCharsAssumption, Zenon
<1>3. RBrace # "_" BY Zenon DEF RBrace
<1>. QED BY <1>1, <1>2, <1>3, Zenon DEF IsNameChar

\* A name ends where something begins that no name holds.
LEMMA NameIsRead ==
    ASSUME NEW E, NEW name \in Seq(E), NEW rest \in Seq(E), RBrace \in E,
           \A i \in 1..Len(name) : IsNameChar(name[i]),
           rest # <<>> => ~IsNameChar(rest[1])
    PROVE  ParseExpansion(name \o rest) = AsToken(name, rest)
<1>. DEFINE inner == name \o rest  q == Append(inner, RBrace)  a == Len(name)
            stop == SelectInSeq(q, LAMBDA b : ~IsNameChar(b))
            f(k) == AsToken(SubSeq(inner, 1, k - 1), Tail2(inner, k))
            I == {i \in 1..Len(q) : ~IsNameChar(q[i])}
<1>1. ParseExpansion(inner) = With(stop, LAMBDA k : f(k)) BY Zenon DEF ParseExpansion, RBrace
<1>2. With(stop, LAMBDA k : f(k)) = f(stop)
  <2>. HIDE DEF f, stop
  <2>. QED BY DEF With
<1>3. stop = IF I # {} THEN Min(I) ELSE 0 BY Zenon DEF SelectInSeq
<1>4. /\ a \in Nat /\ inner \in Seq(E) /\ Len(inner) = a + Len(rest)
      /\ \A i \in 1..a : inner[i] = name[i]
      /\ \A i \in 1..Len(rest) : inner[a + i] = rest[i]
  OBVIOUS
<1>5. Len(q) = Len(inner) + 1 /\ q[Len(inner) + 1] = RBrace
      /\ \A i \in 1..Len(inner) : q[i] = inner[i]
  <2>. HIDE DEF inner
  <2>. QED BY <1>4
<1>. HIDE DEF inner, q
<1>6. a + 1 \in I
  <2>1. CASE rest = <<>>
    <3>1. Len(inner) = a BY <1>4, <2>1
    <3>2. a + 1 \in 1..Len(q) /\ q[a + 1] = RBrace BY <1>4, <1>5, <3>1
    <3>3. ~IsNameChar(q[a + 1]) BY <3>2, NamesEnd, Zenon
    <3>. QED BY <3>2, <3>3
  <2>2. CASE rest # <<>>
    <3>1. Len(rest) \in Nat \ {0} BY <2>2, EmptySeq
    <3>. DEFINE l == Len(rest)
    <3>2. l \in Nat \ {0} BY <3>1
    <3>. HIDE DEF l
    <3>3. inner[a + 1] = rest[1] /\ a + 1 \in 1..Len(inner) BY <1>4, <3>2 DEF l
    <3>. QED BY <1>4, <1>5, <2>2, <3>3
  <2>. QED BY <2>1, <2>2
<1>7. \A i \in I : ~(i <= a)
  <2>. SUFFICES ASSUME NEW i \in I, i <= a PROVE FALSE OBVIOUS
  <2>1. i \in 1..a BY <1>4
  <2>2. a <= Len(inner) BY <1>4
  <2>3. q[i] = name[i] BY <1>4, <1>5, <2>1, <2>2
  <2>. QED BY <2>1, <2>3
<1>8. I \subseteq Nat OBVIOUS
<1>. HIDE DEF I, stop
<1>9. stop = a + 1
  <2>1. stop \in I /\ \A y \in I : stop <= y BY <1>3, <1>6, <1>8, MinIsLeast
  <2>. QED BY <1>4, <1>6, <1>7, <1>8, <2>1
<1>10. SubSeq(inner, 1, a) = name /\ Tail2(inner, a + 1) = rest BY ConcatParts DEF inner, a
<1>11. stop - 1 = a BY <1>4, <1>9
<1>12. f(stop) = AsToken(name, rest) BY <1>9, <1>10, <1>11, Zenon
<1>. HIDE DEF f
<1>. QED BY <1>1, <1>2, <1>12, Zenon DEF inner

\* A name alone, and a name with a default.
LEMMA PlainToken ==
    ASSUME NEW name, name # <<>>
    PROVE  AsToken(name, <<>>) = Ok(Token("plain", name, FALSE, <<>>))
<1>1. ASSUME NEW rest, rest = <<>>
      PROVE  AsToken(name, rest) = Ok(Token("plain", name, FALSE, <<>>))
  <2>1. ASSUME NEW m \in Modifiers PROVE ~IsPrefix(m.mark, rest)
    <3>1. Len(m.mark) \in {1, 2}
      <4>1. m.mark \in {<<":", "-">>, <<"-">>, <<":", "?">>, <<"?">>} BY DEF Modifiers
      <4>. QED BY <4>1
    <3>2. Len(rest) = 0 BY <1>1
    <3>3. ~(Len(m.mark) <= Len(rest))
      <4>. DEFINE l == Len(m.mark)  k == Len(rest)
      <4>1. l = 1 \/ l = 2 BY <3>1
      <4>2. k = 0 BY <3>2
      <4>. HIDE DEF l, k
      <4>3. ~(l <= k) BY <4>1, <4>2
      <4>. QED BY <4>3 DEF l, k
    <3>. QED BY <3>3, Zenon DEF IsPrefix
  <2>. QED BY <1>1, <2>1 DEF AsToken
<1>. QED BY <1>1

\* What it is for a mark to begin a text.
LEMMA MarkBegins ==
    ASSUME NEW E, NEW s \in Seq(E)
    PROVE  /\ \A x \in E : IsPrefix(<<x>>, s) <=> Len(s) >= 1 /\ s[1] = x
           /\ \A x, y \in E : IsPrefix(<<x, y>>, s) <=> Len(s) >= 2 /\ s[1] = x /\ s[2] = y
<1>1. ASSUME NEW w \in Seq(E)
      PROVE  IsPrefix(w, s) <=> Len(w) <= Len(s) /\ \A i \in 1..Len(w) : s[i] = w[i]
  <2>. DEFINE k == Len(w)  n == Len(s)  c == SubSeq(s, 1, k)
  <2>1. IsPrefix(w, s) <=> k <= n /\ w = c BY SubSeqFull DEF IsPrefix
  <2>2. SUFFICES ASSUME k <= n PROVE w = c <=> \A i \in 1..k : s[i] = w[i]
    <3>. HIDE DEF k, n, c
    <3>. QED BY <2>1 DEF k, n
  <2>3. k \in Nat /\ n \in Nat OBVIOUS
  <2>4. \A i \in 1..k : s[i] \in E
    <3>1. \A i \in 1..n : s[i] \in E OBVIOUS
    <3>2. \A i \in 1..k : i \in 1..n BY <2>2, <2>3
    <3>. QED BY <3>1, <3>2
  <2>. HIDE DEF k, n
  <2>5. 1 \in Int /\ k \in Int BY <2>3
  <2>6. /\ c \in Seq(E) /\ Len(c) = (IF 1 <= k THEN k - 1 + 1 ELSE 0)
        /\ \A i \in 1..(k - 1 + 1) : c[i] = s[1 + i - 1]
    BY <2>4, <2>5, SubSeqProperties
  <2>. HIDE DEF c
  <2>7. Len(c) = k BY <2>3, <2>6
  <2>8. \A i \in 1..k : c[i] = s[i]
    <3>. SUFFICES ASSUME NEW i \in 1..k PROVE c[i] = s[i] OBVIOUS
    <3>1. i \in 1..(k - 1 + 1) /\ 1 + i - 1 = i BY <2>3
    <3>. QED BY <2>6, <3>1
  <2>9. (\A i \in 1..k : s[i] = w[i]) => w = c BY <2>6, <2>7, <2>8, SeqEqual DEF k
  <2>. QED BY <2>8, <2>9
<1>2. ASSUME NEW x \in E PROVE IsPrefix(<<x>>, s) <=> Len(s) >= 1 /\ s[1] = x
  <2>. DEFINE w == <<x>>
  <2>1. w \in Seq(E) /\ Len(w) = 1 /\ w[1] = x /\ Len(s) \in Nat OBVIOUS
  <2>. HIDE DEF w
  <2>2. IsPrefix(w, s) <=> Len(w) <= Len(s) /\ \A i \in 1..Len(w) : s[i] = w[i] BY <1>1, <2>1
  <2>3. \A i \in 1..1 : i = 1 OBVIOUS
  <2>4. IsPrefix(w, s) <=> Len(s) >= 1 /\ s[1] = x BY <2>1, <2>2, <2>3
  <2>. QED BY <2>4 DEF w
<1>3. ASSUME NEW x \in E, NEW y \in E
      PROVE  IsPrefix(<<x, y>>, s) <=> Len(s) >= 2 /\ s[1] = x /\ s[2] = y
  <2>. DEFINE w == <<x, y>>
  <2>1. w \in Seq(E) /\ Len(w) = 2 /\ w[1] = x /\ w[2] = y /\ Len(s) \in Nat OBVIOUS
  <2>. HIDE DEF w
  <2>2. IsPrefix(w, s) <=> Len(w) <= Len(s) /\ \A i \in 1..Len(w) : s[i] = w[i] BY <1>1, <2>1
  <2>3. \A i \in 1..2 : i = 1 \/ i = 2 OBVIOUS
  <2>4. IsPrefix(w, s) <=> Len(s) >= 2 /\ s[1] = x /\ s[2] = y BY <2>1, <2>2, <2>3
  <2>. QED BY <2>4 DEF w
<1>. QED BY <1>2, <1>3

Default(colon, d) == (IF colon THEN <<":">> ELSE <<>>) \o <<"-">> \o d
\* A name with a default after it is read as one, the default being all the rest.
LEMMA DefaultToken ==
    ASSUME NEW E, ":" \in E, "-" \in E, NEW name, name # <<>>, NEW colon \in BOOLEAN,
           NEW d \in Seq(E)
    PROVE  /\ Default(colon, d) \in Seq(E) /\ Default(colon, d) # <<>>
           /\ ~IsNameChar(Default(colon, d)[1])
           /\ AsToken(name, Default(colon, d)) = Ok(Token("default", name, colon, d))
<1>. DEFINE mark == IF colon THEN <<":", "-">> ELSE <<"-">>
            modifier == Default(colon, d)
            the == [mark |-> mark, kind |-> "default", colon |-> colon]
<1>1. modifier = mark \o d BY DEF Default
<1>2. mark \in Seq(E) OBVIOUS
<1>3. /\ colon => Len(mark) = 2 /\ mark[1] = ":" /\ mark[2] = "-"
      /\ ~colon => Len(mark) = 1 /\ mark[1] = "-"
  OBVIOUS
<1>. HIDE DEF mark, modifier
<1>4. /\ modifier \in Seq(E) /\ Len(modifier) >= Len(mark) /\ Len(modifier) \in Nat
      /\ \A i \in 1..Len(mark) : modifier[i] = mark[i]
  BY <1>1, <1>2
<1>5. /\ colon => Len(modifier) >= 2 /\ modifier[1] = ":" /\ modifier[2] = "-"
      /\ ~colon => Len(modifier) >= 1 /\ modifier[1] = "-"
  <2>1. CASE colon
    <3>0. Len(mark) = 2 BY <1>3, <2>1, Zenon
    <3>1. 1 \in 1..Len(mark) /\ 2 \in 1..Len(mark) BY <3>0
    <3>. QED BY <1>3, <1>4, <2>1, <3>1
  <2>2. CASE ~colon
    <3>1. 1 \in 1..Len(mark) BY <1>3, <2>2
    <3>. QED BY <1>3, <1>4, <2>2, <3>1
  <2>. QED BY <2>1, <2>2
<1>6. modifier # <<>> /\ ~IsNameChar(modifier[1])
  <2>1. modifier # <<>> BY <1>4, <1>5
  <2>2. modifier[1] = ":" \/ modifier[1] = "-" BY <1>5
  <2>. QED BY <2>1, <2>2, NamesEnd
<1>7. the \in Modifiers
  <2>1. CASE colon BY <2>1 DEF mark, Modifiers
  <2>2. CASE ~colon BY <2>2 DEF mark, Modifiers
  <2>. QED BY <2>1, <2>2
<1>8. \A x, y \in {":", "-", "?"} :
         /\ IsPrefix(<<x>>, modifier) <=> Len(modifier) >= 1 /\ modifier[1] = x
         /\ IsPrefix(<<x, y>>, modifier) <=>
               Len(modifier) >= 2 /\ modifier[1] = x /\ modifier[2] = y
  <2>. DEFINE F == E \cup {"?"}
  <2>1. E \subseteq F /\ ":" \in F /\ "-" \in F /\ "?" \in F OBVIOUS
  <2>. HIDE DEF F
  <2>2. modifier \in Seq(F) BY <1>4, <2>1, SeqMonotonic
  <2>3. /\ \A x \in F : IsPrefix(<<x>>, modifier) <=> Len(modifier) >= 1 /\ modifier[1] = x
        /\ \A x, y \in F : IsPrefix(<<x, y>>, modifier) <=>
                            Len(modifier) >= 2 /\ modifier[1] = x /\ modifier[2] = y
    BY <2>2, MarkBegins, Zenon
  <2>4. \A x \in {":", "-", "?"} : x \in F BY <2>1
  <2>. QED BY <2>3, <2>4, Zenon
<1>9. IsPrefix(the.mark, modifier)
  <2>1. the.mark = mark OBVIOUS
  <2>2. CASE colon
    <3>1. mark = <<":", "-">> BY <2>2 DEF mark
    <3>. QED BY <1>5, <1>8, <2>1, <2>2, <3>1
  <2>3. CASE ~colon
    <3>1. mark = <<"-">> BY <2>3 DEF mark
    <3>. QED BY <1>5, <1>8, <2>1, <2>3, <3>1
  <2>. QED BY <2>2, <2>3
<1>10. ASSUME NEW m \in Modifiers, IsPrefix(m.mark, modifier) PROVE m = the
  <2>1. PICK x \in Modifiers : x = m OBVIOUS
  <2>2. CASE m = [mark |-> <<":", "-">>, kind |-> "default", colon |-> TRUE]
    <3>1. modifier[1] = ":" BY <1>8, <1>10, <2>2
    <3>2. colon BY <1>5, <3>1
    <3>. QED BY <2>2, <3>2 DEF mark
  <2>3. CASE m = [mark |-> <<"-">>, kind |-> "default", colon |-> FALSE]
    <3>1. modifier[1] = "-" BY <1>8, <1>10, <2>3
    <3>2. ~colon BY <1>5, <3>1
    <3>. QED BY <2>3, <3>2 DEF mark
  <2>4. CASE m.mark = <<":", "?">>
    <3>1. modifier[1] = ":" /\ modifier[2] = "?" BY <1>8, <1>10, <2>4
    <3>. QED BY <1>5, <3>1
  <2>5. CASE m.mark = <<"?">>
    <3>1. modifier[1] = "?" BY <1>8, <1>10, <2>5
    <3>. QED BY <1>5, <3>1
  <2>6. \/ m = [mark |-> <<":", "-">>, kind |-> "default", colon |-> TRUE]
        \/ m = [mark |-> <<"-">>, kind |-> "default", colon |-> FALSE]
        \/ m.mark = <<":", "?">> \/ m.mark = <<"?">>
    BY DEF Modifiers
  <2>. QED BY <2>2, <2>3, <2>4, <2>5, <2>6
<1>. DEFINE c == CHOOSE m \in Modifiers : IsPrefix(m.mark, modifier)
<1>11. c = the
  <2>. HIDE DEF the
  <2>1. c \in Modifiers /\ IsPrefix(c.mark, modifier) BY <1>7, <1>9, Zenon
  <2>. QED BY <1>10, <2>1, Zenon
<1>12. AsToken(name, modifier) = Ok(Modified(name, modifier, c))
  <2>1. \E m \in Modifiers : IsPrefix(m.mark, modifier) BY <1>7, <1>9, Zenon
  <2>. HIDE DEF c
  <2>2. AsToken(name, modifier) =
            Ok(Modified(name, modifier, CHOOSE m \in Modifiers : IsPrefix(m.mark, modifier)))
    BY <1>6, <2>1 DEF AsToken
  <2>. QED BY <2>2 DEF c
<1>13. Tail2(modifier, Len(mark) + 1) = d BY <1>1, <1>2, ConcatParts
<1>14. Modified(name, modifier, the) = Token("default", name, colon, d)
  <2>1. the.kind = "default" /\ the.colon = colon /\ the.mark = mark OBVIOUS
  <2>. HIDE DEF the
  <2>. QED BY <1>13, <2>1, Zenon DEF Modified
<1>. HIDE DEF c, the
<1>15. AsToken(name, modifier) = Ok(Token("default", name, colon, d))
  BY <1>11, <1>12, <1>14, Zenon
<1>. QED BY <1>4, <1>6, <1>15, Zenon DEF modifier

\* expand (expander.rs): the text around a reference stays as it is; the reference
\* becomes the value of its name or, when that is not there, its default, and is an
\* error without one.  Value and default are copied, never expanded again.
THEOREM ReferenceExpands ==
    ASSUME NEW E, "$" \in E, LBrace \in E, RBrace \in E, ":" \in E, "-" \in E,
           NEW t \in Seq(E \ {"$"}), NEW u \in Seq(E \ {"$"}), NEW name \in Seq(E), name # <<>>,
           \A i \in 1..Len(name) : IsNameChar(name[i]), NEW colon \in BOOLEAN,
           NEW d \in Seq(E \ {RBrace}), NEW env, name \in DOMAIN env => env[name] \in Seq(E)
    PROVE  LET there == name \in DOMAIN env /\ (colon => env[name] # <<>>)
               value == IF there THEN env[name] ELSE d
           IN  /\ Expand(t \o Ref(name, Default(colon, d)) \o u, env) = Ok(t \o value \o u)
               /\ name \in DOMAIN env =>
                     Expand(t \o Ref(name, <<>>) \o u, env) = Ok(t \o env[name] \o u)
               /\ name \notin DOMAIN env => ~Expand(t \o Ref(name, <<>>) \o u, env).ok
<1>. DEFINE F == E \ {RBrace}  modifier == Default(colon, d)
            there == name \in DOMAIN env /\ (colon => env[name] # <<>>)
            value == IF there THEN env[name] ELSE d
            full == Token("default", name, colon, d)
            bare == Token("plain", name, FALSE, <<>>)
<1>1. ":" \in F /\ "-" \in F /\ F \subseteq E
  <2>1. ":" # RBrace /\ "-" # RBrace BY Zenon DEF RBrace
  <2>. QED BY <2>1
<1>2. name \in Seq(F)
  <2>1. \A i \in 1..Len(name) : name[i] \in F
    <3>. SUFFICES ASSUME NEW i \in 1..Len(name) PROVE name[i] \in F OBVIOUS
    <3>1. name[i] \in E OBVIOUS
    <3>2. name[i] # RBrace BY NamesEnd
    <3>. QED BY <3>1, <3>2
  <2>2. DOMAIN name = 1..Len(name) /\ name = [i \in DOMAIN name |-> name[i]]
    OBVIOUS
  <2>. HIDE DEF F
  <2>3. name \in [DOMAIN name -> F] BY <2>1, <2>2
  <2>. QED BY <2>3, IsSequence
<1>3. d \in Seq(F) /\ <<>> \in Seq(F) OBVIOUS
<1>. HIDE DEF F
<1>4. d \in Seq(E) /\ name \in Seq(E) /\ <<>> \in Seq(E) BY <1>1, <1>3, SeqMonotonic
<1>5. /\ modifier \in Seq(F) /\ modifier # <<>> /\ ~IsNameChar(modifier[1])
      /\ AsToken(name, modifier) = Ok(full)
  BY <1>1, <1>3, DefaultToken DEF full
<1>. HIDE DEF modifier, full, bare
<1>6. ParseExpansion(name \o modifier) = Ok(full)
  <2>1. modifier \in Seq(E) BY <1>1, <1>5, SeqMonotonic
  <2>2. ParseExpansion(name \o modifier) = AsToken(name, modifier) BY <1>5, <2>1, NameIsRead
  <2>. QED BY <1>5, <2>2
<1>7. ParseExpansion(name \o <<>>) = Ok(bare)
  <2>1. ParseExpansion(name \o <<>>) = AsToken(name, <<>>) BY <1>4, NameIsRead
  <2>2. AsToken(name, <<>>) = Ok(bare) BY PlainToken DEF bare
  <2>. QED BY <2>1, <2>2
<1>8. Piece(full, env).ok /\ Piece(full, env).val = value
  <2>1. /\ full.kind = "default" /\ full.name = name /\ full.colon = colon /\ full.text = d
        /\ full.kind # "literal"
    BY DEF full, Token
  <2>2. Piece(full, env) = Ok(value)
    <3>1. CASE there
      <4>1. Piece(full, env) = Ok(env[name]) BY <2>1, <3>1 DEF Piece
      <4>. QED BY <3>1, <4>1
    <3>2. CASE ~there
      <4>1. Piece(full, env) = Ok(d) BY <2>1, <3>2 DEF Piece
      <4>. QED BY <3>2, <4>1
    <3>. QED BY <3>1, <3>2
  <2>. HIDE DEF value
  <2>. QED BY <2>2 DEF Ok
<1>9. /\ name \in DOMAIN env => Piece(bare, env).ok /\ Piece(bare, env).val = env[name]
      /\ name \notin DOMAIN env => ~Piece(bare, env).ok
  <2>1. bare.kind = "plain" /\ bare.name = name /\ bare.colon = FALSE /\ bare.kind # "literal"
    BY DEF bare, Token
  <2>2. CASE name \in DOMAIN env
    <3>1. Piece(bare, env) = Ok(env[name]) BY <2>1, <2>2 DEF Piece
    <3>. QED BY <2>2, <3>1 DEF Ok
  <2>3. CASE name \notin DOMAIN env
    <3>1. Piece(bare, env) = Err("Undefined") BY <2>1, <2>3 DEF Piece
    <3>. QED BY <2>3, <3>1 DEF Err
  <2>. QED BY <2>2, <2>3
<1>10. value \in Seq(E) BY <1>4
<1>11. /\ "$" \in E /\ LBrace \in E /\ RBrace \in E /\ t \in Seq(E \ {"$"}) /\ u \in Seq(E \ {"$"})
       /\ name \in Seq(E \ {RBrace}) /\ modifier \in Seq(E \ {RBrace})
       /\ <<>> \in Seq(E \ {RBrace})
  BY <1>2, <1>3, <1>5 DEF F
<1>. HIDE DEF value
<1>12. Expand(t \o Ref(name, modifier) \o u, env) = Ok(t \o value \o u)
  <2>1. Piece(full, env).val \in Seq(E) BY <1>8, <1>10, Zenon
  <2>2. Piece(full, env).ok /\ Piece(full, env).val \in Seq(E) =>
          Expand(t \o Ref(name, modifier) \o u, env) = Ok(t \o Piece(full, env).val \o u)
    <3>1. /\ "$" \in E /\ LBrace \in E /\ RBrace \in E /\ t \in Seq(E \ {"$"})
          /\ u \in Seq(E \ {"$"}) /\ name \in Seq(E \ {RBrace})
          /\ modifier \in Seq(E \ {RBrace}) /\ ParseExpansion(name \o modifier) = Ok(full)
      BY <1>6, <1>11, Zenon
    <3>. QED BY <3>1, RefReads
  <2>. QED BY <1>8, <2>1, <2>2, Zenon
<1>13. /\ name \in DOMAIN env => Expand(t \o Ref(name, <<>>) \o u, env) = Ok(t \o env[name] \o u)
       /\ name \notin DOMAIN env => ~Expand(t \o Ref(name, <<>>) \o u, env).ok
  <2>1. /\ Piece(bare, env).ok /\ Piece(bare, env).val \in Seq(E) =>
              Expand(t \o Ref(name, <<>>) \o u, env) = Ok(t \o Piece(bare, env).val \o u)
        /\ ~Piece(bare, env).ok => ~Expand(t \o Ref(name, <<>>) \o u, env).ok
    BY <1>7, <1>11, RefReads, Zenon
  <2>2. name \in DOMAIN env => env[name] \in Seq(E) OBVIOUS
  <2>. QED BY <1>9, <2>1, <2>2, Zenon
<1>. QED BY <1>12, <1>13, Zenon DEF modifier, value

\* The lengths the law bounds its texts by are numbers.
LEMMA SmallNumbers == 2 \in Nat /\ 4 \in Nat
OBVIOUS

\* The short texts are texts.
LEMMA ShortTexts ==
    ASSUME NEW chars, NEW n \in Nat
    PROVE  Short(chars, n) \subseteq Seq(chars)
<1>1. ASSUME NEW k \in 0..n, NEW t \in [1..k -> chars] PROVE t \in Seq(chars) OBVIOUS
<1>. QED BY <1>1 DEF Short

\* The same for a name of one character.
Exact(x, t, colon, d, env) ==
    LET modifier == Default(colon, d)
        set == <<x>> \in DOMAIN env
        value == IF set /\ (colon => env[<<x>>] # <<>>) THEN env[<<x>>] ELSE d
    IN  /\ Expand(t \o Ref(<<x>>, modifier) \o t, env) = Ok(t \o value \o t)
        /\ Expand(t \o Ref(<<x>>, <<>>) \o t, env).ok <=> set
\* It holds whatever the text, the default and the environment are.
LEMMA LetterExpands ==
    ASSUME NEW E, "$" \in E, LBrace \in E, RBrace \in E, ":" \in E, "-" \in E,
           NEW x \in E, IsNameChar(x), NEW t \in Seq(E \ {"$"}), NEW colon \in BOOLEAN,
           NEW d \in Seq(E \ {RBrace}), NEW env, <<x>> \in DOMAIN env => env[<<x>>] \in Seq(E)
    PROVE  Exact(x, t, colon, d, env)
<1>. DEFINE name == <<x>>
            there == name \in DOMAIN env /\ (colon => env[name] # <<>>)
            value == IF there THEN env[name] ELSE d
<1>1. name \in Seq(E) /\ name # <<>> /\ \A i \in 1..Len(name) : IsNameChar(name[i])
  <2>1. name \in Seq(E) /\ name # <<>> /\ Len(name) = 1 /\ name[1] = x OBVIOUS
  <2>. HIDE DEF name
  <2>2. \A i \in 1..Len(name) : i = 1 BY <2>1
  <2>. QED BY <2>1, <2>2
<1>2. name \in DOMAIN env => env[name] \in Seq(E) OBVIOUS
<1>. HIDE DEF name
<1>3. /\ Expand(t \o Ref(name, Default(colon, d)) \o t, env) = Ok(t \o value \o t)
      /\ name \in DOMAIN env => Expand(t \o Ref(name, <<>>) \o t, env) = Ok(t \o env[name] \o t)
      /\ name \notin DOMAIN env => ~Expand(t \o Ref(name, <<>>) \o t, env).ok
  <2>1. /\ "$" \in E /\ LBrace \in E /\ RBrace \in E /\ ":" \in E /\ "-" \in E
        /\ t \in Seq(E \ {"$"}) /\ name \in Seq(E) /\ name # <<>>
        /\ \A i \in 1..Len(name) : IsNameChar(name[i])
        /\ colon \in BOOLEAN /\ d \in Seq(E \ {RBrace})
        /\ name \in DOMAIN env => env[name] \in Seq(E)
    BY <1>1, <1>2, Zenon
  <2>. QED BY <2>1, ReferenceExpands
<1>4. \A v : Ok(v).ok BY DEF Ok
<1>5. /\ Expand(t \o Ref(name, Default(colon, d)) \o t, env) = Ok(t \o value \o t)
      /\ Expand(t \o Ref(name, <<>>) \o t, env).ok <=> name \in DOMAIN env
  BY <1>3, <1>4, Zenon
<1>. QED BY <1>5, Zenon DEF Exact, name

\* The values the law gives a name are texts.
LEMMA ValuesAre ==
    ASSUME NEW E, ":" \in E, "$" \in E, NEW x \in E
    PROVE  <<>> \in Seq(E) /\ <<":">> \in Seq(E) /\ <<"$", x>> \in Seq(E)
OBVIOUS

\* Expansion (lexer.rs, expander.rs) is exact: of every short text over the marks
\* that matter to the lexer, doubled dollars come out single and a reference becomes
\* its value or its default, with nothing lost or expanded again.
THEOREM ExpandLawHolds == Spec => []ExpandLaw
<1>. DEFINE E == {"$", LBrace, RBrace, "_", ":", "-"}
<1>1. ASSUME NEW t \in Short({"$", "{", "_", "}"}, 4), NEW env
      PROVE  Expand(Doubled(t), env) = Ok(t)
  <2>1. \A n \in Nat : Short({"$", "{", "_", "}"}, n) \subseteq Seq({"$", "{", "_", "}"})
    BY ShortTexts, Zenon
  <2>2. t \in Seq({"$", "{", "_", "}"}) BY <2>1, SmallNumbers, Zenon
  <2>. QED BY <2>2, DoubledExpands, Zenon
<1>2. ASSUME NEW t \in Short({"{", "}", "_"}, 2), NEW d \in Short({"-", "_", "$"}, 2)
      PROVE  t \in Seq(E \ {"$"}) /\ d \in Seq(E \ {RBrace})
  <2>1. {"{", "}", "_"} \subseteq E \ {"$"} /\ {"-", "_", "$"} \subseteq E \ {RBrace}
    BY Zenon DEF LBrace, RBrace
  <2>2. t \in Seq({"{", "}", "_"}) /\ d \in Seq({"-", "_", "$"})
    BY ShortTexts, SmallNumbers, Zenon
  <2>. HIDE DEF E
  <2>. QED BY <2>1, <2>2, SeqMonotonic, Zenon
<1>3. /\ "$" \in E /\ LBrace \in E /\ RBrace \in E /\ ":" \in E /\ "-" \in E /\ "_" \in E
  BY Zenon
<1>. HIDE DEF E
<1>4. ASSUME NEW t \in Short({"{", "}", "_"}, 2), NEW d \in Short({"-", "_", "$"}, 2),
             NEW colon \in BOOLEAN, NEW env \in Envs
      PROVE  Exact("_", t, colon, d, env)
  <2>1. t \in Seq(E \ {"$"}) /\ d \in Seq(E \ {RBrace}) BY <1>2, Zenon
  <2>2. <<"_">> \in DOMAIN env => env[<<"_">>] \in Seq(E)
    BY <1>3, ValuesAre, Zenon DEF Envs
  <2>3. IsNameChar("_") BY NamesEnd
  <2>. QED BY <2>1, <2>2, <2>3, <1>3, LetterExpands, Zenon
<1>5. ExpandLaw BY <1>1, <1>4, Zenon DEF ExpandLaw, Exact, Default
<1>. QED BY <1>5, PTL

-----------------------------------------------------------------------------
(* Environments: a line, a file, and files under files.                     *)
\* The blank, by name.
Blank == " "

\* Trimming takes nothing from a text that neither begins nor ends with a blank.
LEMMA TrimKeeps ==
    ASSUME NEW E, NEW s \in Seq(E), s # <<>>, s[Len(s)] # Blank
    PROVE  TrimEnd(s) = s /\ (s[1] # Blank => Trim(s) = s)
<1>. DEFINE n == Len(s)  I == {i \in 1..Len(s) : s[i] # Blank}
            last == SelectLastInSeq(s, LAMBDA b : b # " ")
            first == SelectInSeq(s, LAMBDA b : b # " ")
<1>1. n \in Nat \ {0} BY EmptySeq
<1>2. /\ last = (IF I # {} THEN Max(I) ELSE 0)
      /\ first = (IF I # {} THEN Min(I) ELSE 0)
  BY Zenon DEF SelectLastInSeq, SelectInSeq, Blank
<1>3. n \in I /\ I \subseteq 1..n BY <1>1
<1>4. SubSeq(s, 1, n) = s BY SubSeqFull
<1>. HIDE DEF n, I, last, first
<1>5. last = n
  <2>1. \A y \in I : n >= y BY <1>1, <1>3
  <2>2. Max(I) \in I /\ \A y \in I : Max(I) >= y BY <1>3, <2>1 DEF Max
  <2>3. Max(I) = n
    <3>. DEFINE m == Max(I)
    <3>1. m \in 1..n /\ m >= n BY <1>3, <2>2
    <3>. HIDE DEF m
    <3>2. m = n BY <1>1, <3>1
    <3>. QED BY <3>2 DEF m
  <2>. QED BY <1>2, <1>3, <2>3
<1>6. TrimEnd(s) = s BY <1>4, <1>5, Zenon DEF TrimEnd, last
<1>7. ASSUME s[1] # Blank PROVE Trim(s) = s
  <2>1. first = 1
    <3>1. 1 \in I BY <1>1, <1>7 DEF I, n
    <3>2. I \subseteq Nat BY <1>3
    <3>3. Min(I) \in I /\ \A y \in I : Min(I) <= y BY <3>1, <3>2, MinIsLeast
    <3>4. Min(I) = 1
      <4>. DEFINE m == Min(I)
      <4>1. m \in 1..n /\ m <= 1 BY <1>3, <3>1, <3>3
      <4>. HIDE DEF m
      <4>2. m = 1 BY <1>1, <4>1
      <4>. QED BY <4>2 DEF m
    <3>. QED BY <1>2, <3>1, <3>4
  <2>. DEFINE f(k) == IF k = 0 THEN <<>> ELSE TrimEnd(Tail2(s, k))
  <2>2. Trim(s) = With(first, LAMBDA k : f(k)) BY Zenon DEF Trim, first
  <2>3. With(first, LAMBDA k : f(k)) = f(first)
    <3>. HIDE DEF f
    <3>. QED BY DEF With
  <2>4. f(1) = TrimEnd(Tail2(s, 1)) OBVIOUS
  <2>5. Tail2(s, 1) = s BY <1>4, Zenon DEF Tail2, n
  <2>. HIDE DEF f
  <2>. QED BY <1>6, <2>1, <2>2, <2>3, <2>4, <2>5, Zenon
<1>. QED BY <1>6, <1>7

\* The results of one.
LEMMA CollectOne ==
    ASSUME NEW r, r.ok
    PROVE  Collect(<<r>>) = Ok(<<r.val>>)
<1>. DEFINE C(q) == IF \A i \in DOMAIN q : q[i].ok THEN Ok([i \in DOMAIN q |-> q[i].val])
                    ELSE q[SelectInSeq(q, LAMBDA u : ~u.ok)]
<1>1. Collect(<<r>>) = With(<<r>>, LAMBDA q : C(q)) BY Zenon DEF Collect
<1>2. With(<<r>>, LAMBDA q : C(q)) = C(<<r>>)
  <2>. HIDE DEF C
  <2>. QED BY DEF With
<1>3. C(<<r>>) = Ok([i \in DOMAIN <<r>> |-> <<r>>[i].val])
  <2>1. \A i \in DOMAIN <<r>> : <<r>>[i].ok OBVIOUS
  <2>. QED BY <2>1, Zenon
<1>4. [i \in DOMAIN <<r>> |-> <<r>>[i].val] = <<r.val>> OBVIOUS
<1>. QED BY <1>1, <1>2, <1>3, <1>4, Zenon

\* The places of one element, and one piece.
LEMMA OnePlace ==
    ASSUME NEW x
    PROVE  AtPlaces(<<x>>, {1}) = <<x>>
<1>1. 1 \in Nat /\ IsFiniteSet({1}) /\ Cardinality({1}) = 1 BY FS_Singleton
<1>2. InOrder({1}) \in Seq({1}) /\ Len(InOrder({1})) = 1 BY <1>1, InOrderEnumerates
<1>3. InOrder({1}) = <<1>> BY <1>2
<1>4. AtPlaces(<<x>>, {1}) = [i \in DOMAIN <<1>> |-> <<x>>[<<1>>[i]]]
  BY <1>3, Zenon DEF AtPlaces, ForEach
<1>5. [i \in DOMAIN <<1>> |-> <<x>>[<<1>>[i]]] = <<x>> OBVIOUS
<1>. QED BY <1>4, <1>5
\* One piece is the whole.
LEMMA FlattenOne ==
    ASSUME NEW E, NEW q \in Seq(E)
    PROVE  FlattenSeq(<<q>>) = q
<1>. DEFINE S == Seq(E)
<1>1. q \in S OBVIOUS
<1>. HIDE DEF S
<1>2. <<q>> \in Seq(S) /\ <<>> \in Seq(S) /\ <<q>> \o <<>> = <<q>> BY <1>1
<1>3. FlattenSeq(<<>>) = <<>>
  <2>1. PICK f : Appends(<<>>, f) /\ FlattenSeq(<<>>) = f[Len(<<>>)]
    BY <1>2, FlattenAppends DEF S
  <2>. QED BY <2>1 DEF Appends
<1>4. FlattenSeq(<<q>> \o <<>>) = q \o FlattenSeq(<<>>) BY <1>2, FlattenCons DEF S
<1>5. q \o <<>> = q BY ConcatEmptySeq
<1>. QED BY <1>2, <1>3, <1>4, <1>5, Zenon

\* A line of a file says what stands after its first =, without its quotes.
LEMMA LineMeans ==
    ASSUME NEW E, "=" \in E, NEW key \in Seq(E), NEW value \in Seq(E),
           key # <<>>, key[1] # Blank, key[1] # "#", key[Len(key)] # Blank,
           \A i \in 1..Len(key) : key[i] # "=", value # <<>>, value[Len(value)] # Blank
    PROVE  ParseEnvStr(<<(key \o <<"=">>) \o value>>) = Ok(<< <<key, StripQuotes(value)>> >>)
<1>. DEFINE a == Len(key)  v == Len(value)  left == key \o <<"=">>  line == left \o value
<1>1. a \in Nat \ {0} /\ v \in Nat \ {0} BY EmptySeq
<1>2. /\ left \in Seq(E) /\ Len(left) = a + 1 /\ left[a + 1] = "="
      /\ \A i \in 1..a : left[i] = key[i]
  OBVIOUS
<1>. HIDE DEF left
<1>3. /\ line \in Seq(E) /\ Len(line) = a + 1 + v
      /\ \A i \in 1..(a + 1) : line[i] = left[i]
      /\ \A i \in 1..v : line[a + 1 + i] = value[i]
  BY <1>2
<1>. HIDE DEF line
<1>4. line[1] # Blank /\ line[1] # "#" /\ line # <<>> /\ line[Len(line)] # Blank
  <2>. HIDE DEF a, v
  <2>1. 1 \in 1..a /\ 1 \in 1..(a + 1) /\ v \in 1..v BY <1>1
  <2>2. line[1] = key[1] BY <1>2, <1>3, <2>1
  <2>3. line[a + 1 + v] = value[v] BY <1>3, <2>1
  <2>4. line # <<>> BY <1>1, <1>3
  <2>. QED BY <1>3, <2>2, <2>3, <2>4 DEF v
<1>5. Trim(line) = line BY <1>3, <1>4, TrimKeeps
<1>6. line[a + 1] = "=" /\ \A i \in 1..a : line[i] # "="
  <2>. HIDE DEF a, v
  <2>1. a + 1 \in 1..(a + 1) /\ \A i \in 1..a : i \in 1..(a + 1) BY <1>1
  <2>2. \A i \in 1..a : key[i] # "=" BY DEF a
  <2>. QED BY <1>2, <1>3, <2>1, <2>2
<1>7. Assigns(line)
  <2>. HIDE DEF a, v
  <2>1. a + 1 \in 1..Len(line) BY <1>1, <1>3
  <2>2. Contains(line, "=") BY <1>6, <2>1, Zenon DEF Contains
  <2>. QED BY <1>4, <2>2, Zenon DEF Assigns
<1>8. SelectInSeq(line, LAMBDA b : b = "=") = a + 1
  <2>. DEFINE I == {i \in 1..Len(line) : line[i] = "="}
  <2>. HIDE DEF a, v
  <2>1. a + 1 \in I /\ I \subseteq Nat BY <1>1, <1>3, <1>6
  <2>2. \A i \in I : ~(i <= a)
    <3>1. \A i \in I : i <= a => i \in 1..a BY <1>1
    <3>. QED BY <3>1, <1>6
  <2>3. SelectInSeq(line, LAMBDA b : b = "=") = IF I # {} THEN Min(I) ELSE 0
    BY Zenon DEF SelectInSeq
  <2>. HIDE DEF I
  <2>4. Min(I) \in I /\ \A y \in I : Min(I) <= y BY <2>1, MinIsLeast
  <2>5. Min(I) = a + 1
    <3>. DEFINE m == Min(I)
    <3>1. m \in Nat /\ m <= a + 1 /\ ~(m <= a) BY <2>1, <2>2, <2>4
    <3>. HIDE DEF m
    <3>2. m = a + 1 BY <1>1, <3>1
    <3>. QED BY <3>2 DEF m
  <2>. QED BY <2>1, <2>3, <2>5
<1>9. SubSeq(line, 1, a) = key /\ Tail2(line, (a + 1) + 1) = value
  <2>1. Tail2(line, Len(left) + 1) = value BY <1>2, ConcatParts DEF line
  <2>2. SubSeq(line, 1, a) = key
    <3>. DEFINE rest == <<"=">> \o value
    <3>0. Associative(E) BY Associates
    <3>1. rest \in Seq(E) /\ <<"=">> \in Seq(E) OBVIOUS
    <3>2. line = key \o rest BY <3>0, <3>1, Zenon DEF line, left, Associative
    <3>. HIDE DEF rest
    <3>. QED BY <3>1, <3>2, ConcatParts
  <2>. QED BY <1>2, <2>1, <2>2
<1>10. KeyValue(line, a + 1) = Ok(<<key, StripQuotes(value)>>)
  <2>. DEFINE f(k) == IF k = <<>> THEN Err("EnvFile")
                      ELSE Ok(<<k, StripQuotes(Tail2(line, (a + 1) + 1))>>)
  <2>1. KeyValue(line, a + 1) = With(Trim(SubSeq(line, 1, (a + 1) - 1)), LAMBDA k : f(k))
    BY Zenon DEF KeyValue
  <2>2. Trim(SubSeq(line, 1, (a + 1) - 1)) = key
    <3>1. (a + 1) - 1 = a BY <1>1
    <3>2. Trim(key) = key BY TrimKeeps
    <3>. QED BY <1>9, <3>1, <3>2
  <2>3. With(key, LAMBDA k : f(k)) = f(key)
    <3>. HIDE DEF f
    <3>. QED BY DEF With
  <2>4. f(key) = Ok(<<key, StripQuotes(value)>>) BY <1>9
  <2>. HIDE DEF f
  <2>. QED BY <2>1, <2>2, <2>3, <2>4, Zenon
<1>. DEFINE eq(q) == SelectInSeq(q, LAMBDA b : b = "=")
            kv(kept) == Collect([i \in DOMAIN kept |-> KeyValue(kept[i], eq(kept[i]))])
            places(trimmed) == {i \in DOMAIN trimmed : Assigns(trimmed[i])}
            parse(trimmed) == With(AtPlaces(trimmed, places(trimmed)), LAMBDA kept : kv(kept))
            lines == <<line>>
<1>11. ParseEnvStr(lines) = With([i \in DOMAIN lines |-> Trim(lines[i])],
                                 LAMBDA trimmed : parse(trimmed))
  BY Zenon DEF ParseEnvStr
<1>. HIDE DEF a, v
<1>12. [i \in DOMAIN lines |-> Trim(lines[i])] = <<line>> BY <1>5
<1>13. With(<<line>>, LAMBDA trimmed : parse(trimmed)) = parse(<<line>>)
  <2>. HIDE DEF parse
  <2>. QED BY DEF With
<1>14. AtPlaces(<<line>>, places(<<line>>)) = <<line>>
  <2>1. places(<<line>>) = {1} BY <1>7
  <2>. HIDE DEF places
  <2>. QED BY <2>1, OnePlace
<1>15. parse(<<line>>) = kv(<<line>>)
  <2>1. parse(<<line>>) = With(<<line>>, LAMBDA kept : kv(kept)) BY <1>14, Zenon
  <2>2. With(<<line>>, LAMBDA kept : kv(kept)) = kv(<<line>>)
    <3>. HIDE DEF kv
    <3>. QED BY DEF With
  <2>. QED BY <2>1, <2>2, Zenon
<1>16. kv(<<line>>) = Ok(<< <<key, StripQuotes(value)>> >>)
  <2>. DEFINE r == Ok(<<key, StripQuotes(value)>>)
  <2>1. KeyValue(line, eq(line)) = r BY <1>8, <1>10, Zenon
  <2>2. r.ok /\ r.val = <<key, StripQuotes(value)>> BY DEF Ok
  <2>. HIDE DEF eq, r
  <2>3. [i \in DOMAIN <<line>> |-> KeyValue(<<line>>[i], eq(<<line>>[i]))] = <<r>>
    BY <2>1
  <2>4. kv(<<line>>) = Collect(<<r>>) BY <2>3, Zenon
  <2>5. Collect(<<r>>) = Ok(<<r.val>>) BY <2>2, CollectOne
  <2>. QED BY <2>2, <2>4, <2>5, Zenon
<1>. HIDE DEF parse, kv
<1>17. ParseEnvStr(<<line>>) = Ok(<< <<key, StripQuotes(value)>> >>)
  BY <1>11, <1>12, <1>13, <1>15, <1>16, Zenon
<1>. QED BY <1>17 DEF line, left

\* The double quote, by name.
DQuote == "\""

\* What quotes stand around is what they leave.
LEMMA QuotesGo ==
    ASSUME NEW E, NEW b \in E, NEW v \in Seq(E)
    PROVE  LET w == <<b>> \o v \o <<b>>
           IN  /\ w \in Seq(E) /\ Len(w) = Len(v) + 2 /\ w[1] = b /\ w[Len(w)] = b
               /\ SubSeq(w, 2, Len(w) - 1) = v
<1>. DEFINE a == Len(v)  left == <<b>> \o v  w == left \o <<b>>
<1>1. /\ a \in Nat /\ left \in Seq(E) /\ Len(left) = a + 1 /\ left[1] = b
      /\ \A i \in 1..a : left[i + 1] = v[i]
  OBVIOUS
<1>. HIDE DEF left
<1>2. /\ w \in Seq(E) /\ Len(w) = a + 2 /\ w[a + 2] = b
      /\ \A i \in 1..(a + 1) : w[i] = left[i]
  BY <1>1
<1>. HIDE DEF w, a
<1>3. w[1] = b
  <2>1. 1 \in 1..(a + 1) BY <1>1
  <2>. QED BY <1>1, <1>2, <2>1
<1>4. \A i \in 1..a : w[i + 1] = v[i]
  <2>1. \A i \in 1..a : i + 1 \in 1..(a + 1) BY <1>1
  <2>. QED BY <1>1, <1>2, <2>1
<1>5. SubSeq(w, 2, a + 1) = v
  <2>. DEFINE c == SubSeq(w, 2, a + 1)
  <2>1. \A i \in 2..(a + 1) : w[i] \in E
    <3>1. \A i \in 2..(a + 1) : i \in 1..Len(w) BY <1>1, <1>2
    <3>. QED BY <1>2, <3>1
  <2>2. 2 \in Int /\ a + 1 \in Int BY <1>1
  <2>3. /\ c \in Seq(E) /\ Len(c) = (IF 2 <= a + 1 THEN (a + 1) - 2 + 1 ELSE 0)
        /\ \A i \in 1..((a + 1) - 2 + 1) : c[i] = w[2 + i - 1]
    BY <2>1, <2>2, SubSeqProperties
  <2>. HIDE DEF c
  <2>4. Len(c) = a BY <1>1, <2>3
  <2>5. \A i \in 1..a : c[i] = v[i]
    <3>. SUFFICES ASSUME NEW i \in 1..a PROVE c[i] = v[i] OBVIOUS
    <3>1. i \in 1..((a + 1) - 2 + 1) /\ 2 + i - 1 = i + 1 BY <1>1
    <3>. QED BY <1>4, <2>3, <3>1
  <2>6. c = v BY <2>3, <2>4, <2>5, SeqEqual DEF a
  <2>. QED BY <2>6 DEF c
<1>6. Len(w) - 1 = a + 1 BY <1>1, <1>2
<1>. QED BY <1>2, <1>3, <1>5, <1>6 DEF w, left, a

\* A text with quotes around it is long enough to be unquoted.
LEMMA LongEnough ==
    ASSUME NEW E, NEW v \in Seq(E), NEW w \in Seq(E), Len(w) = Len(v) + 2
    PROVE  Len(w) >= 2 /\ w # <<>>
OBVIOUS

\* Without quotes around it a value stays as it is, with quotes it loses them.
LEMMA Unquotes ==
    ASSUME NEW E, "'" \in E, NEW v \in Seq(E), v # <<>>, v[Len(v)] # Blank, v[1] # "'",
           v[1] # DQuote, NEW q \in {<<>>, <<"'">>}
    PROVE  LET w == q \o v \o q
           IN  /\ w \in Seq(E) /\ w # <<>> /\ w[Len(w)] # Blank /\ StripQuotes(w) = v
               /\ v = IF w[1] = "'" THEN SubSeq(w, 2, Len(w) - 1) ELSE w
<1>. DEFINE w == q \o v \o q
<1>1. ASSUME NEW s \in Seq(E), s # <<>>, s[Len(s)] # Blank
      PROVE  StripQuotes(s) = IF Len(s) >= 2 /\ s[1] = s[Len(s)] /\ s[1] \in {"'", DQuote}
                              THEN SubSeq(s, 2, Len(s) - 1) ELSE s
  <2>. DEFINE f(t) == IF Len(t) >= 2 /\ t[1] = t[Len(t)] /\ t[1] \in {"'", DQuote}
                      THEN SubSeq(t, 2, Len(t) - 1) ELSE t
  <2>1. StripQuotes(s) = With(TrimEnd(s), LAMBDA t : f(t)) BY Zenon DEF StripQuotes, DQuote
  <2>2. TrimEnd(s) = s BY <1>1, TrimKeeps, Zenon
  <2>3. With(s, LAMBDA t : f(t)) = f(s)
    <3>. HIDE DEF f
    <3>. QED BY Zenon DEF With
  <2>. QED BY <2>1, <2>2, <2>3, Zenon
<1>2. CASE q = <<>>
  <2>1. <<>> \o v = v /\ v \o <<>> = v BY ConcatEmptySeq, Zenon
  <2>2. w = v BY <1>2, <2>1, Zenon
  <2>3. v[1] \notin {"'", DQuote} BY Zenon
  <2>4. StripQuotes(v) = v BY <1>1, <2>3, Zenon
  <2>. HIDE DEF w
  <2>. QED BY <2>2, <2>4, Zenon DEF w
<1>3. CASE q = <<"'">>
  <2>1. /\ w \in Seq(E) /\ Len(w) = Len(v) + 2 /\ w[1] = "'" /\ w[Len(w)] = "'"
        /\ SubSeq(w, 2, Len(w) - 1) = v
    <3>. DEFINE x == <<"'">> \o v \o <<"'">>
    <3>1. /\ x \in Seq(E) /\ Len(x) = Len(v) + 2 /\ x[1] = "'" /\ x[Len(x)] = "'"
          /\ SubSeq(x, 2, Len(x) - 1) = v
      BY QuotesGo
    <3>2. w = x BY <1>3, Zenon
    <3>. HIDE DEF w, x
    <3>. QED BY <3>1, <3>2, Zenon
  <2>2. Len(w) >= 2 /\ w # <<>> BY <2>1, LongEnough, Zenon
  <2>3. "'" # Blank BY Zenon DEF Blank
  <2>. HIDE DEF w
  <2>4. StripQuotes(w) = v
    <3>1. w[Len(w)] # Blank BY <2>1, <2>3, Zenon
    <3>2. w[1] = w[Len(w)] /\ w[1] \in {"'", DQuote} BY <2>1, Zenon
    <3>. QED BY <1>1, <2>1, <2>2, <3>1, <3>2, Zenon
  <2>. QED BY <2>1, <2>2, <2>3, <2>4, Zenon DEF w
<1>. QED BY <1>2, <1>3, Zenon

\* The parts of a line that assigns.
LEMMA LineParts ==
    ASSUME NEW E, NEW x \in E, NEW y \in E, NEW z \in E
    PROVE  <<>> \in Seq(E) /\ <<x>> \in Seq(E) /\ <<x, y>> \in Seq(E)
OBVIOUS
\* A pair of characters, one after the other.
LEMMA InTwo ==
    ASSUME NEW E, NEW x \in E, NEW y \in E
    PROVE  <<x, y>> = <<x>> \o <<y>>
<1>. DEFINE a == <<x>>  b == <<y>>  p == <<x, y>>  q == a \o b
<1>1. /\ a \in Seq(E) /\ Len(a) = 1 /\ a[1] = x /\ b \in Seq(E) /\ Len(b) = 1 /\ b[1] = y
      /\ p \in Seq(E) /\ Len(p) = 2 /\ p[1] = x /\ p[2] = y
  OBVIOUS
<1>. HIDE DEF a, b, p
<1>2. q \in Seq(E) /\ Len(q) = 2 /\ q[1] = x /\ q[2] = y
  <2>1. /\ q \in Seq(E) /\ Len(q) = Len(a) + Len(b)
        /\ \A i \in 1..Len(a) + Len(b) : q[i] = IF i <= Len(a) THEN a[i] ELSE b[i - Len(a)]
    <3>1. a \in Seq(E) /\ b \in Seq(E) BY <1>1
    <3>2. q \in Seq(E) BY <3>1, ConcatProperties, Zenon
    <3>3. Len(q) = Len(a) + Len(b) BY <3>1, ConcatProperties, Zenon
    <3>4. ASSUME NEW i \in 1..Len(a) + Len(b)
          PROVE  q[i] = IF i <= Len(a) THEN a[i] ELSE b[i - Len(a)]
      BY <3>1, ConcatProperties, Zenon
    <3>. QED BY <3>2, <3>3, <3>4, Zenon
  <2>2. 1 \in 1..2 /\ 2 \in 1..2 /\ 1 <= 1 /\ ~(2 <= 1) /\ 2 - 1 = 1 OBVIOUS
  <2>. HIDE DEF q
  <2>. QED BY <1>1, <2>1, <2>2
<1>. HIDE DEF q
<1>3. \A i \in 1..2 : i = 1 \/ i = 2 OBVIOUS
<1>4. p = q BY <1>1, <1>2, <1>3, SeqEqual
<1>. QED BY <1>4 DEF p, q, a, b
\* Four pieces of a line, grouped anew.
LEMMA InFour ==
    ASSUME NEW E, NEW p \in Seq(E), NEW q \in Seq(E), NEW v \in Seq(E)
    PROVE  ((p \o q) \o v) \o q = p \o ((q \o v) \o q)
<1>1. \A a, b, c \in Seq(E) : (a \o b) \o c = a \o (b \o c) OBVIOUS
<1>2. q \o v \in Seq(E) /\ v \o q \in Seq(E) /\ p \o q \in Seq(E) OBVIOUS
<1>3. ((p \o q) \o v) \o q = (p \o q) \o (v \o q) BY <1>1, <1>2, Zenon
<1>4. (p \o q) \o (v \o q) = p \o (q \o (v \o q)) BY <1>1, <1>2, Zenon
<1>5. (q \o v) \o q = q \o (v \o q) BY <1>1, <1>2, Zenon
<1>. QED BY <1>3, <1>4, <1>5, Zenon
\* What stands after the first two characters.
LEMMA AfterTwo ==
    ASSUME NEW E, NEW x \in E, NEW y \in E, NEW w \in Seq(E)
    PROVE  Tail2(<<x, y>> \o w, 3) = w
<1>1. <<x, y>> \in Seq(E) /\ Len(<<x, y>>) = 2 /\ 2 + 1 = 3 OBVIOUS
<1>. DEFINE p == <<x, y>>
<1>2. p \in Seq(E) /\ Len(p) + 1 = 3 BY <1>1
<1>. HIDE DEF p
<1>3. Tail2(p \o w, Len(p) + 1) = w BY <1>2, ConcatParts
<1>. QED BY <1>2, <1>3 DEF p
\* LineMeans for a key of one character.
LEMMA LineOfLetter ==
    ASSUME NEW E, "=" \in E, NEW x \in E, x # Blank, x # "#", x # "=",
           NEW w \in Seq(E), w # <<>>, w[Len(w)] # Blank
    PROVE  ParseEnvStr(<<(<<x>> \o <<"=">>) \o w>>) = Ok(<< <<<<x>>, StripQuotes(w)>> >>)
<1>. DEFINE key == <<x>>
<1>1. key \in Seq(E) /\ key # <<>> /\ Len(key) = 1 /\ key[1] = x OBVIOUS
<1>. HIDE DEF key
<1>2. key[Len(key)] # Blank /\ \A i \in 1..Len(key) : key[i] # "="
  <2>1. \A i \in 1..Len(key) : i = 1 BY <1>1
  <2>. QED BY <1>1, <2>1
<1>3. ParseEnvStr(<<(key \o <<"=">>) \o w>>) = Ok(<< <<key, StripQuotes(w)>> >>)
  BY <1>1, <1>2, LineMeans
<1>. QED BY <1>3 DEF key

\* A line that assigns v to the name x, quoted or not, gives x the value v.
LEMMA AssignedMeans ==
    ASSUME NEW E, "=" \in E, "'" \in E, NEW x \in E, x # Blank, x # "#", x # "=",
           NEW v \in Seq(E), v # <<>>, v[Len(v)] # Blank, v[1] # "'", v[1] # DQuote,
           NEW q \in {<<>>, <<"'">>}
    PROVE  LET line == <<x, "=">> \o q \o v \o q  t == Tail2(line, 3)
           IN  /\ ParseEnvStr(<<line>>) = Ok(<< <<<<x>>, v>> >>)
               /\ v = IF t[1] = "'" THEN SubSeq(t, 2, Len(t) - 1) ELSE t
<1>. DEFINE w == q \o v \o q  line == <<x, "=">> \o q \o v \o q
<1>1. /\ w \in Seq(E) /\ w # <<>> /\ w[Len(w)] # Blank /\ StripQuotes(w) = v
      /\ v = IF w[1] = "'" THEN SubSeq(w, 2, Len(w) - 1) ELSE w
  BY Unquotes, Zenon
<1>2. line = <<x, "=">> \o w
  <2>1. q \in Seq(E) /\ v \in Seq(E) /\ <<x, "=">> \in Seq(E)
    BY LineParts, Zenon
  <2>. QED BY <2>1, InFour
<1>3. <<x, "=">> = <<x>> \o <<"=">> BY InTwo, Zenon
<1>. HIDE DEF w, line
<1>4. ParseEnvStr(<<(<<x>> \o <<"=">>) \o w>>) = Ok(<< <<<<x>>, StripQuotes(w)>> >>)
  BY <1>1, LineOfLetter, Zenon
<1>5. Tail2(line, 3) = w BY <1>1, <1>2, AfterTwo, LineParts, Zenon
<1>6. ParseEnvStr(<<line>>) = Ok(<< <<<<x>>, v>> >>) BY <1>1, <1>2, <1>3, <1>4, Zenon
<1>. QED BY <1>1, <1>5, <1>6, Zenon DEF line

\* What the files say comes under what is known: or they cannot be read.
LEMMA FilesLayer ==
    ASSUME NEW env, NEW files
    PROVE  LET loaded == Collect([i \in DOMAIN files |-> LoadEnvFile(files[i])])
           IN  WithEnvFiles(env, files) =
                 IF loaded.ok THEN Ok(Layer(env, FirstWins(FlattenSeq(loaded.val)))) ELSE loaded
<1>. DEFINE c == Collect([i \in DOMAIN files |-> LoadEnvFile(files[i])])
            f(loaded) == Ok(Layer(env, FirstWins(FlattenSeq(loaded))))
<1>1. WithEnvFiles(env, files) = AndThen(c, LAMBDA loaded : f(loaded)) BY Zenon DEF WithEnvFiles
<1>2. AndThen(c, LAMBDA loaded : f(loaded)) = IF c.ok THEN f(c.val) ELSE c
  <2>. HIDE DEF f, c
  <2>. QED BY DEF AndThen, With
<1>. QED BY <1>1, <1>2, Zenon

\* A layer keeps what is above it, and adds the names of what is under it.
LEMMA LayerKeeps ==
    ASSUME NEW over, NEW under
    PROVE  /\ DOMAIN Layer(over, under) = DOMAIN over \cup DOMAIN under
           /\ \A k \in DOMAIN over : Layer(over, under)[k] = over[k]
           /\ \A k \in DOMAIN under \ DOMAIN over : Layer(over, under)[k] = under[k]
BY DEF Layer

\* The two layers of files, each of which may be missing.
LEMMA EnvBuilt ==
    ASSUME NEW process, NEW dotEnv, NEW extra
    PROVE  LET base == IF dotEnv = <<>> THEN Ok(process) ELSE WithEnvFiles(process, <<dotEnv>>)
           IN  BuildEnv(process, dotEnv, extra) =
                 IF ~base.ok THEN base
                 ELSE IF extra = <<>> THEN Ok(base.val) ELSE WithEnvFiles(base.val, extra)
<1>. DEFINE base == IF dotEnv = <<>> THEN Ok(process) ELSE WithEnvFiles(process, <<dotEnv>>)
            f(env) == IF extra = <<>> THEN Ok(env) ELSE WithEnvFiles(env, extra)
<1>1. BuildEnv(process, dotEnv, extra) = AndThen(base, LAMBDA env : f(env)) BY Zenon DEF BuildEnv
<1>2. AndThen(base, LAMBDA env : f(env)) = IF base.ok THEN f(base.val) ELSE base
  <2>. HIDE DEF f, base
  <2>. QED BY DEF AndThen, With
<1>. QED BY <1>1, <1>2, Zenon

\* build_env (load.rs) and with_env_files (env.rs): whatever the files say, the
\* variables of the process keep their values.
THEOREM ProcessWins ==
    ASSUME NEW process, NEW dotEnv, NEW extra, BuildEnv(process, dotEnv, extra).ok
    PROVE  LET env == BuildEnv(process, dotEnv, extra).val
           IN  \A k \in DOMAIN process : k \in DOMAIN env /\ env[k] = process[k]
<1>. DEFINE Keeps(r, env) == r.ok => \A k \in DOMAIN env : k \in DOMAIN r.val /\ r.val[k] = env[k]
            base == IF dotEnv = <<>> THEN Ok(process) ELSE WithEnvFiles(process, <<dotEnv>>)
            all == BuildEnv(process, dotEnv, extra)
<1>1. \A env : Keeps(Ok(env), env) BY DEF Ok
<1>2. ASSUME NEW env, NEW files PROVE Keeps(WithEnvFiles(env, files), env)
  <2>. DEFINE c == Collect([i \in DOMAIN files |-> LoadEnvFile(files[i])])
              under == FirstWins(FlattenSeq(c.val))  w == WithEnvFiles(env, files)
  <2>1. w = IF c.ok THEN Ok(Layer(env, under)) ELSE c BY FilesLayer, Zenon
  <2>. HIDE DEF w, c, under
  <2>2. w.ok => w.val = Layer(env, under) BY <2>1 DEF Ok
  <2>3. \A k \in DOMAIN env :
           k \in DOMAIN Layer(env, under) /\ Layer(env, under)[k] = env[k]
    <3>1. /\ DOMAIN Layer(env, under) = DOMAIN env \cup DOMAIN under
          /\ \A k \in DOMAIN env : Layer(env, under)[k] = env[k]
      BY LayerKeeps, Zenon
    <3>. QED BY <3>1
  <2>. QED BY <2>2, <2>3 DEF w
<1>3. Keeps(base, process)
  <2>. HIDE DEF Keeps
  <2>. QED BY <1>1, <1>2
<1>4. all = IF ~base.ok THEN base
            ELSE IF extra = <<>> THEN Ok(base.val) ELSE WithEnvFiles(base.val, extra)
  BY EnvBuilt, Zenon
<1>5. base.ok /\ Keeps(all, base.val)
  <2>1. all.ok OBVIOUS
  <2>. HIDE DEF Keeps, all, base
  <2>. QED BY <1>1, <1>2, <1>4, <2>1
<1>6. all.ok OBVIOUS
<1>. HIDE DEF base, all
<1>7. \A k \in DOMAIN process : k \in DOMAIN base.val /\ base.val[k] = process[k] BY <1>3, <1>5
<1>8. \A k \in DOMAIN base.val : k \in DOMAIN all.val /\ all.val[k] = base.val[k] BY <1>5, <1>6
<1>9. \A k \in DOMAIN process : k \in DOMAIN all.val /\ all.val[k] = process[k] BY <1>7, <1>8
<1>. QED BY <1>9 DEF all

\* The first of one pair.
LEMMA FirstOfOne ==
    ASSUME NEW n, NEW v
    PROVE  FirstWins(<< <<n, v>> >>) = [k \in {n} |-> v]
<1>. DEFINE p == <<n, v>>  pairs == <<p>>
            at(k) == SelectInSeq(pairs, LAMBDA q : q[1] = k)
<1>1. p[1] = n /\ p[2] = v OBVIOUS
<1>. HIDE DEF p
<1>2. Len(pairs) = 1 /\ DOMAIN pairs = {1} /\ pairs[1] = p OBVIOUS
<1>. HIDE DEF pairs
<1>3. {pairs[i][1] : i \in DOMAIN pairs} = {n} BY <1>1, <1>2
<1>4. at(n) = 1
  <2>. DEFINE I == {i \in 1..Len(pairs) : pairs[i][1] = n}
  <2>1. at(n) = IF I # {} THEN Min(I) ELSE 0 BY Zenon DEF SelectInSeq
  <2>2. I = {1} BY <1>1, <1>2
  <2>. HIDE DEF I, at
  <2>3. I \subseteq Nat /\ I # {} BY <2>2
  <2>4. Min(I) \in I BY <2>3, MinIsLeast
  <2>. QED BY <2>1, <2>2, <2>3, <2>4
<1>5. FirstWins(pairs) = [k \in {pairs[i][1] : i \in DOMAIN pairs} |-> pairs[at(k)][2]]
  BY Zenon DEF FirstWins
<1>. HIDE DEF at
<1>6. \A k \in {n} : pairs[at(k)][2] = v BY <1>1, <1>2, <1>4
<1>7. FirstWins(pairs) = [k \in {n} |-> v] BY <1>3, <1>5, <1>6
<1>. QED BY <1>7 DEF pairs, p

\* A source that gives a name its value, or says nothing.
Gives(source, n, v) ==
    \A env : WithEnvFiles(env, <<source>>) = Ok(Layer(env, [k \in {n} |-> v]))
\* A file of one line gives the name of that line the value of that line.
LEMMA FileGives ==
    ASSUME NEW lines, NEW n, NEW v, ParseEnvStr(lines) = Ok(<< <<n, v>> >>)
    PROVE  Gives(<<lines>>, n, v)
<1>. DEFINE pairs == << <<n, v>> >>  source == <<lines>>  files == <<source>>
<1>1. ASSUME NEW env PROVE WithEnvFiles(env, files) = Ok(Layer(env, [k \in {n} |-> v]))
  <2>. DEFINE c == Collect([i \in DOMAIN files |-> LoadEnvFile(files[i])])
  <2>1. LoadEnvFile(source) = Ok(pairs)
    <3>1. source # <<>> /\ source[1] = lines OBVIOUS
    <3>. HIDE DEF source
    <3>. QED BY <3>1, Zenon DEF LoadEnvFile
  <2>. HIDE DEF source
  <2>2. [i \in DOMAIN files |-> LoadEnvFile(files[i])] = <<Ok(pairs)>> BY <2>1
  <2>. HIDE DEF files
  <2>3. Ok(pairs).ok /\ Ok(pairs).val = pairs BY DEF Ok
  <2>. HIDE DEF pairs
  <2>4. c = Ok(<<pairs>>) BY <2>2, <2>3, CollectOne
  <2>5. FlattenSeq(<<pairs>>) = pairs
    <3>1. pairs \in Seq({<<n, v>>}) BY DEF pairs
    <3>. QED BY <3>1, FlattenOne
  <2>6. FirstWins(pairs) = [k \in {n} |-> v] BY FirstOfOne DEF pairs
  <2>7. WithEnvFiles(env, files) =
          IF c.ok THEN Ok(Layer(env, FirstWins(FlattenSeq(c.val)))) ELSE c
    BY FilesLayer, Zenon
  <2>. HIDE DEF c
  <2>8. c.ok /\ c.val = <<pairs>> BY <2>4 DEF Ok
  <2>. QED BY <2>5, <2>6, <2>7, <2>8, Zenon
<1>. QED BY <1>1, Zenon DEF Gives

\* The first source that gives a name says what it means.
Means(own, dot, extra, n, v, w) ==
    Get(BuildEnv(own, dot, IF extra = <<>> THEN <<>> ELSE <<extra>>).val, n) =
      CASE n \in DOMAIN own -> <<own[n]>>
        [] n \notin DOMAIN own /\ dot # <<>> -> <<v>>
        [] n \notin DOMAIN own /\ ~(dot # <<>>) /\ extra # <<>> -> <<w>>
        [] OTHER -> <<>>
\* That is so whatever the sources say.
LEMMA FirstSourceMeans ==
    ASSUME NEW own, NEW dot, NEW extra, NEW n, NEW v, NEW w,
           dot = <<>> \/ Gives(dot, n, v), extra = <<>> \/ Gives(extra, n, w)
    PROVE  Means(own, dot, extra, n, v, w)
<1>. DEFINE files == IF extra = <<>> THEN <<>> ELSE <<extra>>
            base == IF dot = <<>> THEN Ok(own) ELSE WithEnvFiles(own, <<dot>>)
            env == IF dot = <<>> THEN own ELSE Layer(own, [k \in {n} |-> v])
            top == IF extra = <<>> THEN env ELSE Layer(env, [k \in {n} |-> w])
            b == BuildEnv(own, dot, files)
<1>1. base = Ok(env) BY Zenon DEF Gives
<1>2. b = IF ~base.ok THEN base
          ELSE IF files = <<>> THEN Ok(base.val) ELSE WithEnvFiles(base.val, files)
  BY EnvBuilt, Zenon
<1>3. base.ok /\ base.val = env
  <2>. HIDE DEF base, env
  <2>. QED BY <1>1 DEF Ok
<1>4. b = Ok(top)
  <2>1. CASE extra = <<>>
    <3>1. files = <<>> /\ top = env BY <2>1
    <3>. HIDE DEF b, base, files, top, env
    <3>. QED BY <1>2, <1>3, <3>1
  <2>2. CASE extra # <<>>
    <3>1. files = <<extra>> /\ files # <<>> /\ top = Layer(env, [k \in {n} |-> w]) BY <2>2
    <3>2. \A e : WithEnvFiles(e, <<extra>>) = Ok(Layer(e, [k \in {n} |-> w]))
      BY <2>2, Zenon DEF Gives
    <3>. HIDE DEF b, base, files, top, env
    <3>. QED BY <1>2, <1>3, <3>1, <3>2, Zenon
  <2>. QED BY <2>1, <2>2
<1>5. b.val = top
  <2>. HIDE DEF b, top
  <2>. QED BY <1>4 DEF Ok
<1>6. \A e, x : LET l == Layer(e, [k \in {n} |-> x])
                IN  n \in DOMAIN l /\ l[n] = IF n \in DOMAIN e THEN e[n] ELSE x
  BY DEF Layer
<1>7. /\ n \in DOMAIN top <=> n \in DOMAIN own \/ dot # <<>> \/ extra # <<>>
      /\ n \in DOMAIN top =>
            top[n] = IF n \in DOMAIN own THEN own[n] ELSE IF dot # <<>> THEN v ELSE w
  <2>1. /\ n \in DOMAIN env <=> n \in DOMAIN own \/ dot # <<>>
        /\ n \in DOMAIN env => env[n] = IF n \in DOMAIN own THEN own[n] ELSE v
    BY <1>6
  <2>. HIDE DEF env
  <2>2. /\ extra = <<>> => top = env
        /\ extra # <<>> => top = Layer(env, [k \in {n} |-> w])
    OBVIOUS
  <2>. HIDE DEF top
  <2>. QED BY <1>6, <2>1, <2>2
<1>8. Get(top, n) = IF n \in DOMAIN top THEN <<top[n]>> ELSE <<>> BY Zenon DEF Get
<1>. HIDE DEF b, top
<1>9. Get(b.val, n) = CASE n \in DOMAIN own -> <<own[n]>>
               [] n \notin DOMAIN own /\ dot # <<>> -> <<v>>
               [] n \notin DOMAIN own /\ ~(dot # <<>>) /\ extra # <<>> -> <<w>>
               [] OTHER -> <<>>
  BY <1>5, <1>7, <1>8
<1>. QED BY <1>9, Zenon DEF Means, b, files

\* What an explicit override names has the value it says.
LEMMA OverrideWins ==
    ASSUME NEW env, NEW n, NEW v
    PROVE  Get(WithOverrides(env, << <<n, v>> >>), n) = <<v>>
<1>1. WithOverrides(env, << <<n, v>> >>) = Layer([k \in {n} |-> v], env)
  BY FirstOfOne, Zenon DEF WithOverrides
<1>. DEFINE l == Layer([k \in {n} |-> v], env)
<1>2. n \in DOMAIN l /\ l[n] = v BY DEF Layer
<1>. HIDE DEF l
<1>3. Get(l, n) = <<v>> BY <1>2, Zenon DEF Get
<1>. QED BY <1>1, <1>3 DEF l

\* The first line of the file of a source with one line.
LEMMA OneOfOne ==
    ASSUME NEW x
    PROVE  << <<x>> >>[1][1] = x
OBVIOUS

\* The values the law writes, and the characters around them.
LEMMA ValuesWritten ==
    ASSUME NEW E, ":" \in E, "?" \in E, Blank \in E
    PROVE  \A v \in {<<":">>, <<Blank, "?">>} :
              /\ v \in Seq(E) /\ v # <<>> /\ v[1] \in {":", Blank} /\ v[Len(v)] \in {":", "?"}
<1>1. \A x \in E : <<x>> \in Seq(E) /\ <<x>> # <<>> /\ <<x>>[1] = x /\ <<x>>[Len(<<x>>)] = x
  OBVIOUS
<1>2. \A x, y \in E : /\ <<x, y>> \in Seq(E) /\ <<x, y>> # <<>> /\ <<x, y>>[1] = x
                      /\ <<x, y>>[Len(<<x, y>>)] = y
  OBVIOUS
<1>3. /\ <<":">> \in Seq(E) /\ <<":">> # <<>> /\ <<":">>[1] = ":" /\ <<":">>[Len(<<":">>)] = ":"
  BY <1>1, Zenon
<1>. DEFINE w == <<Blank, "?">>
<1>4. w \in Seq(E) /\ w # <<>> /\ w[1] = Blank /\ w[Len(w)] = "?" BY <1>2, Zenon
<1>. HIDE DEF w
<1>5. \A v \in {<<":">>, w} :
         /\ v \in Seq(E) /\ v # <<>> /\ v[1] \in {":", Blank} /\ v[Len(v)] \in {":", "?"}
  BY <1>3, <1>4, Zenon
<1>. QED BY <1>5 DEF w

\* build_env (load.rs) and parse_env_str (env.rs): no file changes a variable of
\* the process, a name has the value that one of .env and an --env-file gives it
\* if any does, a quoted value keeps its blanks and loses its quotes, and an
\* explicit override beats them all.
THEOREM EnvLawHolds == Spec => []EnvLaw
<1>. DEFINE E == {"=", "'", "_", ":", "?", Blank}  n == <<"_">>
<1>1. /\ "=" \in E /\ "'" \in E /\ "_" \in E /\ ":" \in E /\ "?" \in E /\ Blank \in E
      /\ "_" # Blank /\ "_" # "#" /\ "_" # "=" /\ ":" # Blank /\ "?" # Blank /\ ":" # "'"
      /\ ":" # DQuote /\ Blank # "'" /\ Blank # DQuote
  BY Zenon DEF Blank, DQuote
<1>. HIDE DEF E
<1>2. ASSUME NEW v \in Values
      PROVE  /\ v \in Seq(E) /\ v # <<>> /\ v[Len(v)] # Blank
             /\ v[1] # "'" /\ v[1] # DQuote
  BY <1>1, ValuesWritten, Zenon DEF Values, Blank
<1>3. ASSUME NEW v \in Values, NEW q \in {<<>>, <<"'">>}
      PROVE  /\ ParseEnvStr(<<Assign(v, q)>>) = Ok(<< <<n, v>> >>)
             /\ v = LET t == Tail2(Assign(v, q), 3)
                    IN  IF t[1] = "'" THEN SubSeq(t, 2, Len(t) - 1) ELSE t
  BY <1>1, <1>2, AssignedMeans, Zenon DEF Assign
<1>4. \A source \in Sources : source = <<>> \/ \E v \in Values, q \in {<<>>, <<"'">>} :
                                                 source = << <<Assign(v, q)>> >>
  BY DEF Sources
<1>5. \A source \in Sources : source = <<>> \/ Gives(source, n, Meant(source))
  <2>. SUFFICES ASSUME NEW source \in Sources, source # <<>>
                PROVE  Gives(source, n, Meant(source))
    BY Zenon
  <2>1. PICK v \in Values, q \in {<<>>, <<"'">>} : source = << <<Assign(v, q)>> >>
    BY <1>4, Zenon
  <2>2. source[1][1] = Assign(v, q) BY <2>1, OneOfOne, Zenon
  <2>3. Meant(source) = v BY <1>3, <2>1, <2>2, Zenon DEF Meant
  <2>. QED BY <1>3, <2>1, <2>3, FileGives, Zenon
<1>. DEFINE Value(own, dot, extra) == Get(BuildEnv(own, dot, Given(extra)).val, n)
<1>6. ASSUME NEW own, NEW dot \in Sources, NEW extra \in Sources
      PROVE  Sourced(Value(own, dot, extra), own, dot, extra)
  <2>. DEFINE value == Value(own, dot, extra)
              said == {<<Meant(source)>> : source \in {dot, extra} \ {<<>>}}
  <2>. HIDE DEF n
  <2>1. Means(own, dot, extra, n, Meant(dot), Meant(extra)) BY <1>5, FirstSourceMeans
  <2>2. value = CASE n \in DOMAIN own -> << own[n] >>
                  [] n \notin DOMAIN own /\ dot # <<>> -> <<Meant(dot)>>
                  [] n \notin DOMAIN own /\ ~(dot # <<>>) /\ extra # <<>> -> <<Meant(extra)>>
                  [] OTHER -> <<>>
    BY <2>1, Zenon DEF Means, Given
  <2>3. /\ dot # <<>> => <<Meant(dot)>> \in said
        /\ extra # <<>> => <<Meant(extra)>> \in said
        /\ dot = <<>> /\ extra = <<>> => said = {}
    OBVIOUS
  <2>. HIDE DEF value, said
  <2>4. value \in IF n \in DOMAIN own THEN {<< own[n] >>}
                  ELSE IF said = {} THEN {<<>>} ELSE said
    BY <2>2, <2>3
  <2>. QED BY <2>4, Zenon DEF value, said, Sourced, n
<1>7. \A env : Get(WithOverrides(env, << <<n, <<"?">> >> >>), n) = << <<"?">> >>
  <2>. HIDE DEF n
  <2>. QED BY OverrideWins
<1>8. EnvLaw BY <1>6, <1>7, Zenon DEF EnvLaw
<1>. QED BY <1>8, PTL
-----------------------------------------------------------------------------
(* Every text stays one: what is read, expanded or cut out of texts.         *)
\* The characters of the model, and that a text is a sequence of them.
Chars == NameChars \cup Marks \cup Words
LEMMA TextIs == Text = Seq(Chars)
BY Zenon DEF Text, Chars
LEMMA DollarIsChar == "$" \in Chars
BY Zenon DEF Chars, Marks

\* A cut of a text is one.
LEMMA Cuts ==
    ASSUME NEW E, NEW s \in Seq(E), NEW lo \in Nat \ {0}, NEW hi \in Int, hi <= Len(s)
    PROVE  SubSeq(s, lo, hi) \in Seq(E)
<1>. DEFINE n == Len(s)
<1>1. n \in Nat /\ \A i \in 1..n : s[i] \in E OBVIOUS
<1>2. lo \in Int /\ hi \in Int /\ hi <= n OBVIOUS
<1>. HIDE DEF n
<1>3. \A i \in lo..hi : i \in 1..n BY <1>1, <1>2
<1>4. \A i \in lo..hi : s[i] \in E BY <1>1, <1>3
<1>. QED BY <1>2, <1>4, SubSeqProperties

\* Results in sequence are all well, if they are well together.
LEMMA CollectAll ==
    ASSUME NEW rs, Len(rs) \in Nat, DOMAIN rs = 1..Len(rs), Collect(rs).ok
    PROVE  /\ \A i \in DOMAIN rs : rs[i].ok
           /\ Collect(rs) = Ok([i \in DOMAIN rs |-> rs[i].val])
           /\ Collect(rs).val = [i \in DOMAIN rs |-> rs[i].val]
<1>. DEFINE I == {i \in 1..Len(rs) : ~rs[i].ok}
            k == SelectInSeq(rs, LAMBDA u : ~u.ok)
            C(r) == IF \A i \in DOMAIN r : r[i].ok THEN Ok([i \in DOMAIN r |-> r[i].val])
                    ELSE r[SelectInSeq(r, LAMBDA u : ~u.ok)]
<1>1. Collect(rs) = C(rs)
  <2>1. Collect(rs) = With(rs, LAMBDA r : C(r)) BY Zenon DEF Collect
  <2>2. With(rs, LAMBDA r : C(r)) = C(rs)
    <3>. HIDE DEF C
    <3>. QED BY DEF With
  <2>. QED BY <2>1, <2>2, Zenon
<1>2. k = IF I # {} THEN Min(I) ELSE 0 BY Zenon DEF SelectInSeq
<1>3. I \subseteq 1..Len(rs) OBVIOUS
<1>4. C(rs) = IF \A i \in DOMAIN rs : rs[i].ok THEN Ok([i \in DOMAIN rs |-> rs[i].val])
              ELSE rs[k]
  BY Zenon
<1>. HIDE DEF C, k
<1>5. (k = 0 <=> I = {}) /\ (k # 0 => k \in I)
  <2>. DEFINE n == Len(rs)
  <2>. HIDE DEF I, n
  <2>1. n \in Nat /\ I \subseteq 1..n BY <1>3 DEF n
  <2>. QED BY <1>2, <2>1, FirstPlace
<1>6. \A i \in DOMAIN rs : rs[i].ok
  <2>. SUFFICES ASSUME I # {} PROVE FALSE OBVIOUS
  <2>1. k \in I BY <1>5
  <2>2. ~rs[k].ok /\ k \in DOMAIN rs BY <2>1
  <2>. HIDE DEF I
  <2>3. Collect(rs) = rs[k] BY <1>1, <1>4, <2>2, Zenon
  <2>. QED BY <2>2, <2>3, Zenon
<1>7. Collect(rs) = Ok([i \in DOMAIN rs |-> rs[i].val]) BY <1>1, <1>4, <1>6, Zenon
<1>8. \A v : Ok(v).val = v BY DEF Ok
<1>. QED BY <1>6, <1>7, <1>8, Zenon

\* The tokens of texts over E.
Kinds == {"literal", "plain", "default", "required"}
Tokens(E) == [kind : Kinds, name : Seq(E), colon : BOOLEAN, text : Seq(E)]

\* A token made of texts is one.
LEMMA TokenTyped ==
    ASSUME NEW E, NEW kind \in Kinds, NEW name \in Seq(E), NEW colon \in BOOLEAN,
           NEW text \in Seq(E)
    PROVE  Token(kind, name, colon, text) \in Tokens(E)
BY DEF Token, Tokens

\* What the table of modifiers holds.
LEMMA MarkLengths ==
    \A m \in Modifiers : Len(m.mark) \in 1..2 /\ m.kind \in Kinds /\ m.colon \in BOOLEAN
<1>. SUFFICES ASSUME NEW m \in Modifiers
              PROVE  Len(m.mark) \in 1..2 /\ m.kind \in Kinds /\ m.colon \in BOOLEAN
  OBVIOUS
<1>1. m.mark \in {<<":", "-">>, <<"-">>, <<":", "?">>, <<"?">>} BY DEF Modifiers
<1>2. Len(m.mark) \in 1..2
  <2>1. Len(m.mark) \in {1, 2} BY <1>1
  <2>2. \A l \in {1, 2} : l \in 1..2 OBVIOUS
  <2>. QED BY <2>1, <2>2, Zenon
<1>3. m.kind \in Kinds BY DEF Modifiers, Kinds
<1>4. m.colon \in BOOLEAN
  <2>1. \A a, b, c : [mark |-> a, kind |-> b, colon |-> c].colon = c OBVIOUS
  <2>2. \E a, b : \E c \in BOOLEAN : m = [mark |-> a, kind |-> b, colon |-> c]
    BY Zenon DEF Modifiers
  <2>3. PICK a, b : \E c \in BOOLEAN : m = [mark |-> a, kind |-> b, colon |-> c] BY <2>2
  <2>4. PICK c \in BOOLEAN : m = [mark |-> a, kind |-> b, colon |-> c] BY <2>3
  <2>. QED BY <2>4
<1>. QED BY <1>2, <1>3, <1>4, Zenon

\* A name and what follows it give a token over the same characters.
LEMMA AsTokenTyped ==
    ASSUME NEW E, NEW name \in Seq(E), NEW rest \in Seq(E), AsToken(name, rest).ok
    PROVE  AsToken(name, rest).val \in Tokens(E)
<1>. DEFINE fits(m) == IsPrefix(m.mark, rest)
            m == CHOOSE m \in Modifiers : fits(m)
<1>0. ~Err("NotAName").ok /\ ~Err("UnknownModifier").ok BY DEF Err
<1>1. \A v : Ok(v).val = v BY DEF Ok
<1>2. CASE name = <<>>
  <2>1. AsToken(name, rest) = Err("NotAName") BY <1>2 DEF AsToken
  <2>. QED BY <1>0, <2>1, Zenon
<1>3. CASE name # <<>> /\ rest = <<>>
  <2>1. ASSUME NEW q \in Modifiers PROVE ~IsPrefix(q.mark, rest)
    <3>1. Len(q.mark) \in 1..2 BY MarkLengths
    <3>2. Len(rest) = 0 BY <1>3
    <3>3. ~(Len(q.mark) <= Len(rest))
      <4>. DEFINE l == Len(q.mark)  k == Len(rest)
      <4>. HIDE DEF l, k
      <4>1. l \in 1..2 /\ k = 0 BY <3>1, <3>2 DEF l, k
      <4>2. ~(l <= k) BY <4>1
      <4>. QED BY <4>2 DEF l, k
    <3>. QED BY <3>3, Zenon DEF IsPrefix
  <2>2. AsToken(name, rest) = Ok(Token("plain", name, FALSE, <<>>))
    BY <1>3, <2>1 DEF AsToken
  <2>3. "plain" \in Kinds /\ <<>> \in Seq(E) BY DEF Kinds
  <2>4. Token("plain", name, FALSE, <<>>) \in Tokens(E) BY <2>3, TokenTyped
  <2>. QED BY <1>1, <2>2, <2>4, Zenon
<1>4. CASE name # <<>> /\ rest # <<>> /\ \E q \in Modifiers : fits(q)
  <2>1. AsToken(name, rest) = Ok(Modified(name, rest, m))
    BY <1>4, Zenon DEF AsToken
  <2>2. m \in Modifiers /\ fits(m)
    <3>. HIDE DEF fits
    <3>. QED BY <1>4, Zenon
  <2>. HIDE DEF m
  <2>3. Len(m.mark) \in 1..2 /\ m.kind \in Kinds /\ m.colon \in BOOLEAN BY <2>2, MarkLengths
  <2>4. Len(m.mark) <= Len(rest) BY <2>2, Zenon DEF IsPrefix
  <2>5. Tail2(rest, Len(m.mark) + 1) \in Seq(E)
    <3>. DEFINE lo == Len(m.mark) + 1  hi == Len(rest)
    <3>1. lo \in Nat \ {0} /\ hi \in Int /\ hi <= Len(rest) BY <2>3
    <3>. HIDE DEF lo, hi
    <3>2. SubSeq(rest, lo, hi) \in Seq(E) BY <3>1, Cuts
    <3>. QED BY <3>2, Zenon DEF Tail2, lo, hi
  <2>6. Modified(name, rest, m) \in Tokens(E) BY <2>3, <2>5, TokenTyped, Zenon DEF Modified
  <2>. QED BY <1>1, <2>1, <2>6, Zenon
<1>5. CASE name # <<>> /\ rest # <<>> /\ ~(\E q \in Modifiers : fits(q))
  <2>1. AsToken(name, rest) = Err("UnknownModifier") BY <1>5, Zenon DEF AsToken
  <2>. QED BY <1>0, <2>1, Zenon
<1>. QED BY <1>2, <1>3, <1>4, <1>5, Zenon

\* And so does what stands between braces.
LEMMA ParsedTyped ==
    ASSUME NEW E, NEW inner \in Seq(E), ParseExpansion(inner).ok
    PROVE  ParseExpansion(inner).val \in Tokens(E)
<1>. DEFINE q == Append(inner, RBrace)
            stop == SelectInSeq(q, LAMBDA b : ~IsNameChar(b))
            f(k) == AsToken(SubSeq(inner, 1, k - 1), Tail2(inner, k))
            I == {i \in 1..Len(q) : ~IsNameChar(q[i])}
            n == Len(inner)
<1>1. ParseExpansion(inner) = With(stop, LAMBDA k : f(k)) BY Zenon DEF ParseExpansion, RBrace
<1>2. With(stop, LAMBDA k : f(k)) = f(stop)
  <2>. HIDE DEF f, stop
  <2>. QED BY DEF With
<1>3. stop = IF I # {} THEN Min(I) ELSE 0 BY Zenon DEF SelectInSeq
<1>4. n \in Nat /\ Len(q) = n + 1 /\ q[n + 1] = RBrace OBVIOUS
<1>5. n + 1 \in I
  <2>1. ~IsNameChar(q[n + 1]) BY <1>4, NamesEnd, Zenon
  <2>2. n + 1 \in 1..Len(q) BY <1>4
  <2>. HIDE DEF q, n
  <2>. QED BY <2>1, <2>2
<1>6. I \subseteq 1..(n + 1) BY <1>4
<1>. HIDE DEF q, I, stop
<1>7. stop \in 1..(n + 1)
  <2>1. n + 1 \in Nat BY <1>4
  <2>. QED BY <1>3, <1>5, <1>6, <2>1, FirstPlace
<1>8. SubSeq(inner, 1, stop - 1) \in Seq(E)
  <2>1. stop - 1 \in Int /\ stop - 1 <= n /\ 1 \in Nat \ {0} BY <1>4, <1>7
  <2>. QED BY <2>1, Cuts
<1>9. Tail2(inner, stop) \in Seq(E)
  <2>1. stop \in Nat \ {0} /\ n \in Int /\ n <= Len(inner) BY <1>4, <1>7
  <2>2. SubSeq(inner, stop, n) \in Seq(E) BY <2>1, Cuts
  <2>. QED BY <2>2, Zenon DEF Tail2
<1>. DEFINE name == SubSeq(inner, 1, stop - 1)  rest == Tail2(inner, stop)
<1>10. ParseExpansion(inner) = AsToken(name, rest) BY <1>1, <1>2, Zenon
<1>11. name \in Seq(E) /\ rest \in Seq(E) BY <1>8, <1>9
<1>. HIDE DEF name, rest
<1>. QED BY <1>10, <1>11, AsTokenTyped

\* The token that begins at a dollar is one over the characters of the text.
LEMMA TokenAtTyped ==
    ASSUME NEW E, "$" \in E, NEW input \in Seq(E), NEW j \in 1..(Len(input) - 1),
           TokenAt(input, j).ok
    PROVE  TokenAt(input, j).val.token \in Tokens(E)
<1>. DEFINE p == ParseExpansion(Inner(input, j))  c == Close(input, j)
<1>1. j \in Nat /\ Len(input) \in Nat OBVIOUS
<1>2. c = 0 \/ c \in (j + 2)..Len(input) BY <1>1, ClosesAt
<1>3. TokenAt(input, j) = IF input[j + 1] = "$" THEN Ok([token |-> Escape, next |-> j + 2])
             ELSE IF c = 0 THEN Err("Unterminated")
             ELSE IF p.ok THEN Ok([token |-> p.val, next |-> c + 1]) ELSE p
  BY TokenAtReads, Zenon
<1>4. \A a, b : Ok([token |-> a, next |-> b]).val.token = a BY DEF Ok
<1>5. ~Err("Unterminated").ok BY DEF Err
<1>6. CASE input[j + 1] = "$"
  <2>1. <<>> \in Seq(E) /\ <<"$">> \in Seq(E) /\ "literal" \in Kinds BY DEF Kinds
  <2>2. Escape \in Tokens(E) BY <2>1, TokenTyped, Zenon DEF Escape, Literal
  <2>. HIDE DEF p, c
  <2>. QED BY <1>3, <1>4, <1>6, <2>2, Zenon
<1>7. CASE input[j + 1] # "$"
  <2>1. c # 0 /\ p.ok /\ TokenAt(input, j) = Ok([token |-> p.val, next |-> c + 1])
    <3>. HIDE DEF p, c
    <3>. QED BY <1>3, <1>5, <1>7, Zenon
  <2>2. Inner(input, j) \in Seq(E)
    <3>. DEFINE lo == j + 2  hi == c - 1
    <3>1. lo \in Nat \ {0} /\ hi \in Int /\ hi <= Len(input)
      <4>. HIDE DEF c
      <4>. QED BY <1>1, <1>2, <2>1
    <3>. HIDE DEF lo, hi
    <3>2. SubSeq(input, lo, hi) \in Seq(E) BY <3>1, Cuts
    <3>. QED BY <3>2, Zenon DEF Inner, lo, hi
  <2>3. p.val \in Tokens(E) BY <2>1, <2>2, ParsedTyped
  <2>. HIDE DEF p, c
  <2>. QED BY <1>4, <2>1, <2>3, Zenon
<1>. QED BY <1>6, <1>7

\* A scan of a text over E answers tokens over E, from every position.
LEMMA ScanTyped ==
    ASSUME NEW E, "$" \in E, NEW input \in Seq(E), NEW scan, Scanned(input, scan)
    PROVE  \A i \in 1..(Len(input) + 1) : scan[i].ok => scan[i].val \in Seq(Tokens(E))
<1>. DEFINE n == Len(input)  T == Tokens(E)
            Typed_(i) == scan[i].ok => scan[i].val \in Seq(T)
            B == {m \in 0..n : ~Typed_(n + 1 - m)}
<1>0. n \in Nat OBVIOUS
<1>1. SUFFICES ASSUME B # {} PROVE FALSE
  <2>. SUFFICES ASSUME B = {}, NEW i \in 1..(n + 1) PROVE Typed_(i) OBVIOUS
  <2>. DEFINE m == n + 1 - i
  <2>1. m \in 0..n /\ n + 1 - m = i BY <1>0
  <2>. HIDE DEF m, Typed_
  <2>. QED BY <2>1
<1>2. B \subseteq Nat BY <1>0
<1>3. PICK m \in B : \A k \in B : m <= k
  <2>. HIDE DEF B
  <2>. QED BY <1>1, <1>2, LeastNatural
<1>. DEFINE i == n + 1 - m
<1>4. m \in 0..n /\ i \in 1..(n + 1) /\ ~Typed_(i) BY <1>0, <1>3
<1>5. ASSUME NEW k \in (i + 1)..(n + 1) PROVE Typed_(k)
  <2>1. (n + 1 - k) \in 0..n /\ ~(m <= n + 1 - k) /\ n + 1 - (n + 1 - k) = k BY <1>0, <1>4
  <2>. DEFINE l == n + 1 - k
  <2>2. l \in 0..n /\ ~(m <= l) /\ n + 1 - l = k BY <2>1
  <2>. HIDE DEF l, Typed_
  <2>3. l \notin B BY <1>3, <2>2
  <2>. QED BY <2>2, <2>3
<1>. HIDE DEF i, B
<1>. DEFINE end == LiteralEnd(input, i)  t == TokenAt(input, end)  ts == TokensAt(input, end, scan)
<1>6. end \in i..(n + 1) /\ (end <= n => end < n)
  <2>. HIDE DEF Typed_
  <2>1. Len(input) \in Nat /\ i \in 1..(Len(input) + 1) BY <1>4
  <2>. QED BY <2>1, LiteralEnds, Zenon
<1>7. scan[i] = TokensFrom(input, i, scan)
  <2>. HIDE DEF Typed_
  <2>1. \A k \in 1..(n + 1) : scan[k] = TokensFrom(input, k, scan) BY DEF Scanned
  <2>2. i \in 1..(n + 1) BY <1>4
  <2>. QED BY <2>1, <2>2, Zenon
<1>8. scan[i] = IF ts.ok THEN Ok(Flush(input, i, end) \o ts.val) ELSE ts
  BY <1>7, TokensRead, Zenon
<1>9. ts = IF end > n THEN Ok(<<>>) ELSE IF ~t.ok THEN t
           ELSE IF scan[t.val.next].ok THEN Ok(<<t.val.token>> \o scan[t.val.next].val)
           ELSE scan[t.val.next]
  BY TokensRead, Zenon
<1>10. \A v : Ok(v).ok /\ Ok(v).val = v BY DEF Ok
<1>11. Flush(input, i, end) \in Seq(T)
  <2>. HIDE DEF end
  <2>1. i \in Nat \ {0} /\ end - 1 \in Int /\ end - 1 <= Len(input) BY <1>0, <1>4, <1>6
  <2>. DEFINE hi == end - 1
  <2>. HIDE DEF hi
  <2>2. SubSeq(input, i, hi) \in Seq(E) BY <2>1, Cuts DEF hi
  <2>3. <<>> \in Seq(E) /\ "literal" \in Kinds BY DEF Kinds
  <2>4. Literal(SubSeq(input, i, hi)) \in T BY <2>2, <2>3, TokenTyped, Zenon DEF Literal
  <2>. HIDE DEF T
  <2>. DEFINE lit == Literal(SubSeq(input, i, hi))
  <2>5. lit \in T BY <2>4
  <2>. HIDE DEF lit
  <2>6. <<lit>> \in Seq(T) /\ <<>> \in Seq(T) BY <2>5
  <2>. QED BY <2>6, Zenon DEF Flush, lit, hi
<1>12. ASSUME ts.ok PROVE ts.val \in Seq(T)
  <2>1. CASE end > n
    <3>1. <<>> \in Seq(T) OBVIOUS
    <3>. HIDE DEF ts, t, end, T
    <3>. QED BY <1>9, <1>10, <2>1, <3>1, Zenon
  <2>2. CASE ~(end > n)
    <3>1. end \in 1..(n - 1) /\ end >= i
      <4>. HIDE DEF end
      <4>. QED BY <1>0, <1>4, <1>6, <2>2
    <3>2. t.ok
      <4>. HIDE DEF ts, t, end, T
      <4>. QED BY <1>9, <1>12, <2>2, Zenon
    <3>3. t.val.token \in T /\ t.val.next \in (end + 2)..(n + 1)
      <4>. HIDE DEF end, T
      <4>1. t.val.token \in T BY <3>1, <3>2, TokenAtTyped DEF T
      <4>2. t.val.next \in (end + 2)..(n + 1) BY <3>1, <3>2, <1>0, NextIsLater
      <4>. QED BY <4>1, <4>2
    <3>. HIDE DEF ts, t, end, T
    <3>. DEFINE x == t.val.next  tok == t.val.token
    <3>4. x \in (i + 1)..(n + 1) BY <1>0, <1>4, <3>1, <3>3
    <3>5. tok \in T BY <3>3
    <3>6. ts = IF scan[x].ok THEN Ok(<<tok>> \o scan[x].val) ELSE scan[x]
      BY <1>9, <2>2, <3>2, Zenon
    <3>. HIDE DEF x, tok
    <3>7. scan[x].ok BY <3>6, <1>12, Zenon
    <3>8. scan[x].val \in Seq(T) BY <1>5, <3>4, <3>7
    <3>9. <<tok>> \o scan[x].val \in Seq(T)
      <4>. DEFINE v == scan[x].val
      <4>1. v \in Seq(T) BY <3>8
      <4>. HIDE DEF v
      <4>2. <<tok>> \o v \in Seq(T) BY <4>1, <3>5
      <4>. QED BY <4>2 DEF v
    <3>. QED BY <1>10, <3>6, <3>7, <3>9, Zenon
  <2>. QED BY <2>1, <2>2
<1>. HIDE DEF ts, t, end, T
<1>13. scan[i].ok => scan[i].val \in Seq(T)
  <2>. SUFFICES ASSUME scan[i].ok PROVE scan[i].val \in Seq(T) OBVIOUS
  <2>1. ts.ok BY <1>8, Zenon
  <2>. DEFINE a == Flush(input, i, end)  b == ts.val
  <2>2. scan[i].val = a \o b BY <1>8, <1>10, <2>1, Zenon
  <2>3. a \in Seq(T) /\ b \in Seq(T) BY <1>11, <1>12, <2>1
  <2>. HIDE DEF a, b
  <2>4. a \o b \in Seq(T) BY <2>3
  <2>. QED BY <2>2, <2>4
<1>. QED BY <1>4, <1>13

\* And so are all tokens of a text.
LEMMA LexTyped ==
    ASSUME NEW E, "$" \in E, NEW input \in Seq(E), Lex(input).ok
    PROVE  Lex(input).val \in Seq(Tokens(E))
<1>1. Len(input) \in Nat OBVIOUS
<1>2. PICK scan : Scanned(input, scan) /\ Lex(input) = scan[1] BY <1>1, LexScans
<1>3. 1 \in 1..(Len(input) + 1) BY <1>1
<1>4. scan[1].ok => scan[1].val \in Seq(Tokens(E)) BY <1>2, <1>3, ScanTyped
<1>. QED BY <1>2, <1>4

\* What a token stands for is a text when the values of the environment are.
LEMMA PieceTyped ==
    ASSUME NEW E, NEW token \in Tokens(E), NEW env, \A k \in DOMAIN env : env[k] \in Seq(E),
           Piece(token, env).ok
    PROVE  Piece(token, env).val \in Seq(E)
<1>. DEFINE there == token.name \in DOMAIN env /\ (token.colon => env[token.name] # <<>>)
<1>1. token.kind \in Kinds /\ token.text \in Seq(E) BY DEF Tokens
<1>2. \A v : Ok(v).val = v BY DEF Ok
<1>3. ~Err("MissingRequired").ok /\ ~Err("Undefined").ok BY DEF Err
<1>4. CASE token.kind = "literal"
  <2>1. Piece(token, env) = Ok(token.text) BY <1>4 DEF Piece
  <2>. QED BY <1>1, <1>2, <2>1, Zenon
<1>5. CASE token.kind # "literal" /\ there
  <2>1. Piece(token, env) = Ok(env[token.name])
    <3>. HIDE DEF there
    <3>. QED BY <1>5 DEF Piece, there
  <2>2. env[token.name] \in Seq(E) BY <1>5
  <2>. QED BY <1>2, <2>1, <2>2, Zenon
<1>6. CASE token.kind = "default" /\ ~there
  <2>1. Piece(token, env) = Ok(token.text) BY <1>6 DEF Piece
  <2>. QED BY <1>1, <1>2, <2>1, Zenon
<1>7. CASE token.kind = "required" /\ ~there
  <2>1. Piece(token, env) = Err("MissingRequired") BY <1>7 DEF Piece
  <2>. QED BY <1>3, <2>1, Zenon
<1>8. CASE token.kind = "plain" /\ ~there
  <2>1. Piece(token, env) = Err("Undefined") BY <1>8 DEF Piece
  <2>. QED BY <1>3, <2>1, Zenon
<1>9. there \/ token.kind \in {"literal", "default", "required", "plain"} BY <1>1 DEF Kinds
<1>. QED BY <1>4, <1>5, <1>6, <1>7, <1>8, <1>9, Zenon

\* The expander: what it answers is a text when the values are.
LEMMA ExpandTyped ==
    ASSUME NEW E, "$" \in E, NEW input \in Seq(E), NEW env,
           \A k \in DOMAIN env : env[k] \in Seq(E), Expand(input, env).ok
    PROVE  Expand(input, env).val \in Seq(E)
<1>. DEFINE ts == Lex(input).val  rs == [i \in DOMAIN ts |-> Piece(ts[i], env)]
            flat(texts) == Ok(FlattenSeq(texts))
            pieces(q) == AndThen(Collect([i \in DOMAIN q |-> Piece(q[i], env)]),
                                 LAMBDA texts : flat(texts))
            T == Tokens(E)
<1>1. Expand(input, env) = IF Lex(input).ok THEN pieces(ts) ELSE Lex(input)
  <2>1. Expand(input, env) = AndThen(Lex(input), LAMBDA q : pieces(q)) BY Zenon DEF Expand
  <2>2. AndThen(Lex(input), LAMBDA q : pieces(q))
          = IF Lex(input).ok THEN pieces(Lex(input).val) ELSE Lex(input)
    <3>. HIDE DEF pieces
    <3>. QED BY DEF AndThen, With
  <2>. QED BY <2>1, <2>2, Zenon
<1>2. pieces(ts) = IF Collect(rs).ok THEN flat(Collect(rs).val) ELSE Collect(rs)
  <2>1. pieces(ts) = AndThen(Collect(rs), LAMBDA texts : flat(texts)) OBVIOUS
  <2>. HIDE DEF flat, rs, pieces
  <2>. QED BY <2>1 DEF AndThen, With
<1>. HIDE DEF pieces
<1>3. Lex(input).ok /\ pieces(ts).ok BY <1>1, Zenon
<1>4. ts \in Seq(T) BY <1>3, LexTyped
<1>5. Collect(rs).ok BY <1>2, <1>3, Zenon
<1>. HIDE DEF ts, T
<1>6. DOMAIN rs = 1..Len(ts) /\ Len(rs) = Len(ts) /\ Len(ts) \in Nat
      /\ \A i \in 1..Len(ts) : ts[i] \in T /\ rs[i] = Piece(ts[i], env)
  BY <1>4
<1>. HIDE DEF rs
<1>7. /\ \A i \in DOMAIN rs : rs[i].ok
      /\ Collect(rs).val = [i \in DOMAIN rs |-> rs[i].val]
  BY <1>5, <1>6, CollectAll
<1>8. \A i \in 1..Len(ts) : rs[i].val \in Seq(E)
  BY <1>6, <1>7, PieceTyped DEF T
<1>. DEFINE S == Seq(E)  texts == [i \in 1..Len(ts) |-> rs[i].val]  n == Len(ts)
<1>9. texts \in Seq(S)
  <2>1. n \in Nat /\ \A i \in 1..n : rs[i].val \in S BY <1>6, <1>8
  <2>. HIDE DEF S, n
  <2>2. [i \in 1..n |-> rs[i].val] \in Seq(S) BY <2>1
  <2>. QED BY <2>2 DEF n
<1>. HIDE DEF texts
<1>10. FlattenSeq(texts) \in Seq(E)
  <2>1. <<>> \in Seq(E) OBVIOUS
  <2>. QED BY <1>9, <2>1, FlattenCons
<1>11. Expand(input, env) = Ok(FlattenSeq(texts))
  <2>1. Collect(rs).val = texts BY <1>6, <1>7, Zenon DEF texts
  <2>. QED BY <1>1, <1>2, <1>3, <1>5, <2>1, Zenon
<1>12. \A v : Ok(v).val = v BY DEF Ok
<1>. QED BY <1>10, <1>11, <1>12, Zenon

-----------------------------------------------------------------------------
(* And so is an environment of texts.                                       *)
\* The last of some places, or none.
LEMMA LastPlace ==
    ASSUME NEW n \in Nat, NEW I, I \subseteq 1..n, NEW k, k = IF I # {} THEN Max(I) ELSE 0
    PROVE  k \in 0..n
<1>1. CASE I = {}
  <2>1. k = 0 BY <1>1, Zenon
  <2>. QED BY <2>1
<1>2. CASE I # {}
  <2>. DEFINE S == {n - i : i \in I}
  <2>1. S \subseteq Nat OBVIOUS
  <2>2. S # {} BY <1>2
  <2>3. PICK m \in S : \A l \in S : m <= l
    <3>. HIDE DEF S
    <3>. QED BY <2>1, <2>2, LeastNatural
  <2>4. PICK x \in I : m = n - x BY <2>3
  <2>5. \A y \in I : x >= y
    <3>. SUFFICES ASSUME NEW y \in I PROVE x >= y OBVIOUS
    <3>1. n - y \in S OBVIOUS
    <3>2. m <= n - y BY <2>3, <3>1
    <3>3. x \in 1..n /\ y \in 1..n OBVIOUS
    <3>. HIDE DEF S
    <3>. QED BY <2>4, <3>2, <3>3
  <2>6. Max(I) \in I BY <2>5, Zenon DEF Max
  <2>7. k \in 1..n BY <1>2, <2>6, Zenon
  <2>. QED BY <2>7
<1>. QED BY <1>1, <1>2

\* Trimming a text leaves one.
LEMMA TrimEndTyped ==
    ASSUME NEW E, NEW t \in Seq(E)
    PROVE  TrimEnd(t) \in Seq(E)
<1>. DEFINE I == {i \in 1..Len(t) : t[i] # Blank}
            k == SelectLastInSeq(t, LAMBDA b : b # Blank)  n == Len(t)
<1>1. k = IF I # {} THEN Max(I) ELSE 0 BY Zenon DEF SelectLastInSeq
<1>2. n \in Nat /\ I \subseteq 1..n OBVIOUS
<1>3. TrimEnd(t) = SubSeq(t, 1, k) BY Zenon DEF TrimEnd, Blank
<1>. HIDE DEF I, k
<1>4. k \in 0..n
  <2>. HIDE DEF n
  <2>. QED BY <1>1, <1>2, LastPlace
<1>5. 1 \in Nat \ {0} /\ k \in Int /\ k <= Len(t) BY <1>2, <1>4
<1>6. SubSeq(t, 1, k) \in Seq(E) BY <1>5, Cuts
<1>. QED BY <1>3, <1>6, Zenon

LEMMA TrimTyped ==
    ASSUME NEW E, NEW t \in Seq(E)
    PROVE  Trim(t) \in Seq(E)
<1>. DEFINE I == {i \in 1..Len(t) : t[i] # Blank}
            k == SelectInSeq(t, LAMBDA b : b # Blank)  n == Len(t)
            f(first) == IF first = 0 THEN <<>> ELSE TrimEnd(Tail2(t, first))
<1>1. k = IF I # {} THEN Min(I) ELSE 0 BY Zenon DEF SelectInSeq
<1>2. n \in Nat /\ I \subseteq 1..n OBVIOUS
<1>3. Trim(t) = With(k, LAMBDA first : f(first)) BY Zenon DEF Trim, Blank
<1>. HIDE DEF I, k
<1>4. With(k, LAMBDA first : f(first)) = f(k)
  <2>. HIDE DEF f
  <2>. QED BY DEF With
<1>5. k \in 0..n
  <2>. HIDE DEF n
  <2>. QED BY <1>1, <1>2, FirstPlace
<1>6. f(k) \in Seq(E)
  <2>1. CASE k = 0
    <3>1. f(k) = <<>> BY <2>1
    <3>2. <<>> \in Seq(E) OBVIOUS
    <3>. QED BY <3>1, <3>2, Zenon
  <2>2. CASE k # 0
    <3>1. k \in Nat \ {0} /\ Len(t) \in Int /\ Len(t) <= Len(t) BY <1>2, <1>5, <2>2
    <3>2. SubSeq(t, k, Len(t)) \in Seq(E) BY <3>1, Cuts
    <3>3. Tail2(t, k) \in Seq(E) BY <3>2, Zenon DEF Tail2
    <3>. DEFINE q == Tail2(t, k)
    <3>4. q \in Seq(E) BY <3>3
    <3>5. f(k) = TrimEnd(q) BY <2>2, Zenon
    <3>. HIDE DEF q, f
    <3>6. TrimEnd(q) \in Seq(E) BY <3>4, TrimEndTyped
    <3>. QED BY <3>5, <3>6, Zenon
  <2>. QED BY <2>1, <2>2
<1>. QED BY <1>3, <1>4, <1>6, Zenon

\* Quotes that are taken off leave one.
LEMMA QuotesTyped ==
    ASSUME NEW E, NEW s \in Seq(E)
    PROVE  StripQuotes(s) \in Seq(E)
<1>. DEFINE t == TrimEnd(s)
            quoted(u) == Len(u) >= 2 /\ u[1] = u[Len(u)] /\ u[1] \in {"'", DQuote}
            f(u) == IF quoted(u) THEN SubSeq(u, 2, Len(u) - 1) ELSE u
<1>1. StripQuotes(s) = With(t, LAMBDA u : f(u)) BY Zenon DEF StripQuotes, DQuote
<1>2. With(t, LAMBDA u : f(u)) = f(t)
  <2>. HIDE DEF f, t
  <2>. QED BY DEF With
<1>3. t \in Seq(E) BY TrimEndTyped
<1>. HIDE DEF t
<1>4. SubSeq(t, 2, Len(t) - 1) \in Seq(E)
  <2>. DEFINE hi == Len(t) - 1
  <2>1. 2 \in Nat \ {0} /\ hi \in Int /\ hi <= Len(t) BY <1>3
  <2>. HIDE DEF hi
  <2>2. SubSeq(t, 2, hi) \in Seq(E) BY <1>3, <2>1, Cuts
  <2>. QED BY <2>2, Zenon DEF hi
<1>. HIDE DEF quoted
<1>5. f(t) = SubSeq(t, 2, Len(t) - 1) \/ f(t) = t BY Zenon
<1>. HIDE DEF f
<1>. QED BY <1>1, <1>2, <1>3, <1>4, <1>5, Zenon

\* A line answers a name and a value.
LEMMA KeyValueTyped ==
    ASSUME NEW E, NEW line \in Seq(E), NEW eq \in 0..Len(line), KeyValue(line, eq).ok
    PROVE  KeyValue(line, eq).val \in Seq(E) \X Seq(E)
<1>. DEFINE n == Len(line)  hi == eq - 1  lo == eq + 1
            key == Trim(SubSeq(line, 1, hi))  value == StripQuotes(Tail2(line, lo))
            f(k) == IF k = <<>> THEN Err("EnvFile") ELSE Ok(<<k, value>>)
<1>1. n \in Nat OBVIOUS
<1>2. /\ 1 \in Nat \ {0} /\ hi \in Int /\ hi <= Len(line)
      /\ lo \in Nat \ {0} /\ n \in Int /\ n <= Len(line)
  BY <1>1
<1>3. KeyValue(line, eq) = With(key, LAMBDA k : f(k)) BY Zenon DEF KeyValue
<1>. HIDE DEF hi, lo, n
<1>4. SubSeq(line, 1, hi) \in Seq(E) /\ SubSeq(line, lo, n) \in Seq(E)
  <2>1. SubSeq(line, 1, hi) \in Seq(E) BY <1>2, Cuts
  <2>2. SubSeq(line, lo, n) \in Seq(E) BY <1>2, Cuts
  <2>. QED BY <2>1, <2>2
<1>5. key \in Seq(E)
  <2>. DEFINE q == SubSeq(line, 1, hi)
  <2>1. q \in Seq(E) BY <1>4
  <2>. HIDE DEF q
  <2>2. Trim(q) \in Seq(E) BY <2>1, TrimTyped
  <2>. QED BY <2>2, Zenon DEF q
<1>6. value \in Seq(E)
  <2>. DEFINE q == Tail2(line, lo)
  <2>1. q \in Seq(E) BY <1>4, Zenon DEF Tail2, n
  <2>. HIDE DEF q
  <2>2. StripQuotes(q) \in Seq(E) BY <2>1, QuotesTyped
  <2>. QED BY <2>2, Zenon DEF q
<1>. HIDE DEF key, value
<1>7. With(key, LAMBDA k : f(k)) = f(key)
  <2>. HIDE DEF f
  <2>. QED BY DEF With
<1>8. \A v : Ok(v).val = v BY DEF Ok
<1>9. ~Err("EnvFile").ok BY DEF Err
<1>10. KeyValue(line, eq) = Ok(<<key, value>>) BY <1>3, <1>7, <1>9, Zenon
<1>11. <<key, value>> \in Seq(E) \X Seq(E) BY <1>5, <1>6
<1>. QED BY <1>8, <1>10, <1>11, Zenon

\* The pairs a file says.
LEMMA EnvStrTyped ==
    ASSUME NEW E, NEW lines \in Seq(Seq(E)), ParseEnvStr(lines).ok
    PROVE  ParseEnvStr(lines).val \in Seq(Seq(E) \X Seq(E))
<1>. DEFINE S == Seq(E)  P == Seq(E) \X Seq(E)
            trimmed == [i \in DOMAIN lines |-> Trim(lines[i])]
            I == {i \in DOMAIN trimmed : Assigns(trimmed[i])}
            kept == AtPlaces(trimmed, I)
            eq(l) == SelectInSeq(l, LAMBDA b : b = "=")
            g(k) == Collect([i \in DOMAIN k |-> KeyValue(k[i], eq(k[i]))])
            f(tr) == With(AtPlaces(tr, {i \in DOMAIN tr : Assigns(tr[i])}), LAMBDA k : g(k))
            rs == [i \in DOMAIN kept |-> KeyValue(kept[i], eq(kept[i]))]
<1>1. ParseEnvStr(lines) = With(trimmed, LAMBDA tr : f(tr)) BY Zenon DEF ParseEnvStr
<1>2. With(trimmed, LAMBDA tr : f(tr)) = f(trimmed)
  <2>. HIDE DEF f, trimmed
  <2>. QED BY DEF With
<1>3. f(trimmed) = With(kept, LAMBDA k : g(k)) BY Zenon
<1>4. With(kept, LAMBDA k : g(k)) = g(kept)
  <2>. HIDE DEF g, kept
  <2>. QED BY DEF With
<1>5. g(kept) = Collect(rs) BY Zenon
<1>6. ParseEnvStr(lines) = Collect(rs)
  <2>. HIDE DEF f, g, kept, trimmed, rs, I
  <2>. QED BY <1>1, <1>2, <1>3, <1>4, <1>5, Zenon
<1>7. trimmed \in Seq(S)
  <2>. DEFINE n == Len(lines)
  <2>1. n \in Nat /\ DOMAIN lines = 1..n /\ \A i \in 1..n : lines[i] \in Seq(E) OBVIOUS
  <2>. HIDE DEF n
  <2>2. \A i \in 1..n : Trim(lines[i]) \in S BY <2>1, TrimTyped
  <2>. HIDE DEF S
  <2>3. [i \in 1..n |-> Trim(lines[i])] \in Seq(S) BY <2>1, <2>2
  <2>. QED BY <2>1, <2>3
<1>8. I \subseteq DOMAIN trimmed OBVIOUS
<1>. HIDE DEF trimmed, I, g, f
<1>9. kept \in Seq(S) 
  <2>1. I \in SUBSET DOMAIN trimmed BY <1>8
  <2>. QED BY <1>7, <2>1, AtPlacesPicks
<1>. HIDE DEF kept
<1>. DEFINE n == Len(kept)
<1>10. n \in Nat /\ DOMAIN kept = 1..n /\ \A i \in 1..n : kept[i] \in Seq(E) BY <1>9
<1>. HIDE DEF n
<1>11. ASSUME NEW l \in Seq(E) PROVE eq(l) \in 0..Len(l)
  <2>. DEFINE m == Len(l)  J == {i \in 1..Len(l) : l[i] = "="}
  <2>1. eq(l) = IF J # {} THEN Min(J) ELSE 0 BY Zenon DEF SelectInSeq
  <2>2. m \in Nat /\ J \subseteq 1..m OBVIOUS
  <2>. HIDE DEF eq, J, m
  <2>3. eq(l) \in 0..m BY <2>1, <2>2, FirstPlace
  <2>. QED BY <2>3 DEF m
<1>. HIDE DEF eq
<1>12. DOMAIN rs = 1..n /\ Len(rs) = n /\ \A i \in 1..n : rs[i] = KeyValue(kept[i], eq(kept[i]))
  BY <1>10
<1>. HIDE DEF rs
<1>13. /\ \A i \in DOMAIN rs : rs[i].ok
       /\ Collect(rs).val = [i \in DOMAIN rs |-> rs[i].val]
  BY <1>6, <1>10, <1>12, CollectAll
<1>14. \A i \in 1..n : rs[i].val \in P
  <2>. SUFFICES ASSUME NEW i \in 1..n PROVE rs[i].val \in P OBVIOUS
  <2>. DEFINE l == kept[i]  e == eq(kept[i])
  <2>1. l \in Seq(E) BY <1>10
  <2>2. e \in 0..Len(l) BY <2>1, <1>11
  <2>3. rs[i] = KeyValue(l, e) /\ rs[i].ok BY <1>12, <1>13
  <2>. HIDE DEF l, e
  <2>. QED BY <2>1, <2>2, <2>3, KeyValueTyped
<1>. HIDE DEF P
<1>15. [i \in 1..n |-> rs[i].val] \in Seq(P) BY <1>10, <1>14
<1>16. Collect(rs).val = [i \in 1..n |-> rs[i].val] BY <1>12, <1>13, Zenon
<1>. QED BY <1>6, <1>15, <1>16 DEF P

\* The function of first pairs takes its values from them.
LEMMA FirstWinsTyped ==
    ASSUME NEW A, NEW B, NEW pairs \in Seq(A \X B)
    PROVE  \A k \in DOMAIN FirstWins(pairs) : FirstWins(pairs)[k] \in B
<1>. DEFINE at(k) == SelectInSeq(pairs, LAMBDA q : q[1] = k)  n == Len(pairs)
            D == {pairs[i][1] : i \in DOMAIN pairs}
<1>1. FirstWins(pairs) = [k \in D |-> pairs[at(k)][2]] BY Zenon DEF FirstWins
<1>2. n \in Nat /\ DOMAIN pairs = 1..n /\ \A i \in 1..n : pairs[i] \in A \X B OBVIOUS
<1>3. \A i \in 1..n : pairs[i][2] \in B BY <1>2
<1>4. ASSUME NEW k \in D PROVE at(k) \in 1..n
  <2>. DEFINE J == {i \in 1..Len(pairs) : pairs[i][1] = k}
  <2>1. at(k) = IF J # {} THEN Min(J) ELSE 0 BY Zenon DEF SelectInSeq
  <2>2. J \subseteq 1..n /\ J # {} BY <1>2
  <2>. HIDE DEF at, J, n
  <2>. QED BY <1>2, <2>1, <2>2, FirstPlace
<1>. HIDE DEF at, n
<1>5. \A k \in D : pairs[at(k)][2] \in B BY <1>3, <1>4
<1>. HIDE DEF D
<1>. QED BY <1>1, <1>5

\* What the files of a layer say.
LEMMA FilesTyped ==
    ASSUME NEW E, NEW files, NEW n \in Nat, DOMAIN files = 1..n, Len(files) = n,
           \A i \in 1..n : files[i] # <<>> => files[i][1] \in Seq(Seq(E)),
           NEW env, \A k \in DOMAIN env : env[k] \in Seq(E), WithEnvFiles(env, files).ok
    PROVE  \A k \in DOMAIN WithEnvFiles(env, files).val : WithEnvFiles(env, files).val[k] \in Seq(E)
<1>. DEFINE P == Seq(E) \X Seq(E)  rs == [i \in DOMAIN files |-> LoadEnvFile(files[i])]
            loaded == Collect(rs)  under == FirstWins(FlattenSeq(loaded.val))
            w == WithEnvFiles(env, files)
<1>1. w = IF loaded.ok THEN Ok(Layer(env, under)) ELSE loaded BY FilesLayer, Zenon
<1>2. \A v : Ok(v).val = v BY DEF Ok
<1>3. DOMAIN rs = 1..n /\ Len(rs) = n /\ \A i \in 1..n : rs[i] = LoadEnvFile(files[i]) OBVIOUS
<1>4. w.ok OBVIOUS
<1>. HIDE DEF rs, w
<1>5. loaded.ok /\ w = Ok(Layer(env, under))
  <2>. HIDE DEF loaded, under
  <2>. QED BY <1>1, <1>4, Zenon
<1>6. /\ \A i \in DOMAIN rs : rs[i].ok
      /\ loaded.val = [i \in DOMAIN rs |-> rs[i].val]
  BY <1>3, <1>5, CollectAll
<1>7. \A i \in 1..n : rs[i].val \in Seq(P)
  <2>. SUFFICES ASSUME NEW i \in 1..n PROVE rs[i].val \in Seq(P) OBVIOUS
  <2>1. rs[i] = LoadEnvFile(files[i]) /\ rs[i].ok BY <1>3, <1>6
  <2>2. ~Err("EnvFile").ok BY DEF Err
  <2>3. files[i] # <<>> /\ rs[i] = ParseEnvStr(files[i][1])
    BY <2>1, <2>2, Zenon DEF LoadEnvFile
  <2>. DEFINE l == files[i][1]
  <2>4. l \in Seq(Seq(E)) BY <2>3
  <2>5. ParseEnvStr(l).ok BY <2>1, <2>3
  <2>. HIDE DEF l
  <2>6. ParseEnvStr(l).val \in Seq(P) BY <2>4, <2>5, EnvStrTyped
  <2>. QED BY <2>3, <2>6, Zenon DEF l
<1>. HIDE DEF loaded
<1>8. FlattenSeq(loaded.val) \in Seq(P)
  <2>. DEFINE S == Seq(P)
  <2>1. \A i \in 1..n : rs[i].val \in S BY <1>7
  <2>. HIDE DEF S
  <2>2. [i \in 1..n |-> rs[i].val] \in Seq(S) BY <2>1
  <2>3. loaded.val \in Seq(S) BY <1>3, <1>6, <2>2, Zenon
  <2>. DEFINE v == loaded.val
  <2>4. v \in Seq(Seq(P)) BY <2>3 DEF S
  <2>. HIDE DEF v, P
  <2>5. <<>> \in Seq(P) OBVIOUS
  <2>6. FlattenSeq(v) \in Seq(P) BY <2>4, <2>5, FlattenCons
  <2>. QED BY <2>6 DEF v
<1>9. \A k \in DOMAIN under : under[k] \in Seq(E)
  <2>. DEFINE pairs == FlattenSeq(loaded.val)
  <2>1. pairs \in Seq(Seq(E) \X Seq(E)) BY <1>8
  <2>. HIDE DEF pairs
  <2>2. \A k \in DOMAIN FirstWins(pairs) : FirstWins(pairs)[k] \in Seq(E)
    BY <2>1, FirstWinsTyped
  <2>. QED BY <2>2, Zenon DEF pairs
<1>. HIDE DEF under
<1>. DEFINE all == Layer(env, under)
<1>10. /\ DOMAIN all = DOMAIN env \cup DOMAIN under
       /\ \A k \in DOMAIN env : all[k] = env[k]
       /\ \A k \in DOMAIN under \ DOMAIN env : all[k] = under[k]
  BY LayerKeeps
<1>. HIDE DEF all
<1>11. \A k \in DOMAIN all : all[k] \in Seq(E) BY <1>9, <1>10
<1>12. w.val = all BY <1>2, <1>5, Zenon DEF all
<1>. QED BY <1>11, <1>12, Zenon DEF w

\* Whatever the sources, an environment of texts is built of texts.
LEMMA EnvTyped ==
    ASSUME NEW E, NEW process, \A k \in DOMAIN process : process[k] \in Seq(E),
           NEW dotEnv \in Option(Seq(Seq(E))), NEW extra \in Seq(Option(Seq(Seq(E)))),
           BuildEnv(process, dotEnv, extra).ok
    PROVE  \A k \in DOMAIN BuildEnv(process, dotEnv, extra).val :
              BuildEnv(process, dotEnv, extra).val[k] \in Seq(E)
<1>. DEFINE all == BuildEnv(process, dotEnv, extra)
            base == IF dotEnv = <<>> THEN Ok(process) ELSE WithEnvFiles(process, <<dotEnv>>)
<1>1. all = IF ~base.ok THEN base
            ELSE IF extra = <<>> THEN Ok(base.val) ELSE WithEnvFiles(base.val, extra)
  BY EnvBuilt, Zenon
<1>2. \A v : Ok(v).val = v BY DEF Ok
<1>3. all.ok OBVIOUS
<1>4. \A S : \A o \in Option(S) : o # <<>> => o[1] \in S
  <2>. SUFFICES ASSUME NEW S, NEW o \in Option(S), o # <<>> PROVE o[1] \in S OBVIOUS
  <2>1. o \in Seq(S) BY DEF Option
  <2>. QED BY <2>1, EmptySeq
<1>5. base.ok
  <2>. HIDE DEF base, all
  <2>. QED BY <1>1, <1>3, Zenon
<1>6. \A k \in DOMAIN base.val : base.val[k] \in Seq(E)
  <2>1. CASE dotEnv = <<>>
    <3>1. base = Ok(process) BY <2>1
    <3>2. base.val = process BY <1>2, <3>1, Zenon
    <3>. HIDE DEF base
    <3>. QED BY <3>2
  <2>2. CASE dotEnv # <<>>
    <3>. DEFINE files == <<dotEnv>>
    <3>1. 1 \in Nat /\ DOMAIN files = 1..1 /\ Len(files) = 1 /\ \A i \in 1..1 : files[i] = dotEnv
      OBVIOUS
    <3>2. dotEnv[1] \in Seq(Seq(E)) BY <1>4, <2>2
    <3>3. base = WithEnvFiles(process, files) BY <2>2, Zenon
    <3>. HIDE DEF files, base
    <3>4. \A i \in 1..1 : files[i] # <<>> => files[i][1] \in Seq(Seq(E)) BY <3>1, <3>2
    <3>5. WithEnvFiles(process, files).ok BY <1>5, <3>3
    <3>6. \A k \in DOMAIN WithEnvFiles(process, files).val :
             WithEnvFiles(process, files).val[k] \in Seq(E)
      BY <3>1, <3>4, <3>5, FilesTyped
    <3>. QED BY <3>3, <3>6
  <2>. QED BY <2>1, <2>2
<1>. DEFINE env == base.val
<1>7. all = IF extra = <<>> THEN Ok(env) ELSE WithEnvFiles(env, extra)
  <2>. HIDE DEF base, all
  <2>. QED BY <1>1, <1>5, Zenon
<1>8. \A k \in DOMAIN env : env[k] \in Seq(E) BY <1>6
<1>. HIDE DEF env, base, all
<1>9. CASE extra = <<>>
  <2>1. all.val = env BY <1>2, <1>7, <1>9, Zenon
  <2>2. \A k \in DOMAIN all.val : all.val[k] \in Seq(E) BY <1>8, <2>1
  <2>. QED BY <2>2, Zenon DEF all
<1>10. CASE extra # <<>>
  <2>. DEFINE n == Len(extra)  O == Option(Seq(Seq(E)))
  <2>1. \A i \in DOMAIN extra : extra[i] \in O OBVIOUS
  <2>2. n \in Nat /\ DOMAIN extra = 1..n OBVIOUS
  <2>3. \A i \in 1..n : extra[i] # <<>> => extra[i][1] \in Seq(Seq(E)) BY <1>4, <2>1, <2>2
  <2>4. WithEnvFiles(env, extra).ok /\ all = WithEnvFiles(env, extra) BY <1>3, <1>7, <1>10, Zenon
  <2>5. Len(extra) = n OBVIOUS
  <2>. HIDE DEF n, O
  <2>6. \A k \in DOMAIN WithEnvFiles(env, extra).val : WithEnvFiles(env, extra).val[k] \in Seq(E)
    BY <1>8, <2>2, <2>3, <2>4, <2>5, FilesTyped
  <2>7. \A k \in DOMAIN all.val : all.val[k] \in Seq(E) BY <2>4, <2>6, Zenon
  <2>. QED BY <2>7, Zenon DEF all
<1>. QED BY <1>9, <1>10
=============================================================================
