-------------------------- MODULE Tokenizer_proofs --------------------------
(***************************************************************************)
(* Theorems of Tokenizer, for all texts and all characters that            *)
(* CharactersAssumption tells apart.                                       *)
(*                                                                         *)
(* The invariant compares what the states have made of a line up to pos    *)
(* with what its tokens are, said without states: those that start at or   *)
(* before pos.                                                             *)
(***************************************************************************)
EXTENDS Tokenizer, Lemmas

(* The tokens of a line that start in its first p characters. *)
TokensUpTo(l, p) ==
    LET starts == InOrder({i \in 1..p : StartsToken(l, i)})
    IN [k \in DOMAIN starts |-> SubSeq(l, starts[k], TokenEnd(l, starts[k]))]

(* What comes of the first k lines. *)
LinesTokens(t, k) == FlattenSeq([j \in 1..k |-> Append(TokensOf(Code(t[j])), EOL)])

(* Nothing is wrong with the first p characters, none of them is in a        *)
(* comment, and what follows is not in a string.                            *)
Clean(l, p) == \A i \in 1..p : ~Offends(l, i)
Between(l, p) == p < CommentAt(l) /\ Clean(l, p) /\ ~InString(l, p + 1)

(* No word goes on at p. *)
Ready(l, p) ==
    /\ Between(l, p)
    /\ IsWordChar(l, p) => p = Len(l) \/ l[p + 1] \in EndsWord

(* In the word, or in the string, that starts at s. *)
InWord(l, p, s) ==
    /\ s \in 1..(p + 1) /\ s < CommentAt(l) /\ Between(l, p)
    /\ l[s] \in WordChars /\ StartsToken(l, s)
    /\ \A j \in s..p : IsWordChar(l, j)
InQuotes(l, p, s) ==
    /\ s \in 1..p /\ p < CommentAt(l) /\ Clean(l, p)
    /\ l[s] = Quote /\ ~InString(l, s)
    /\ \A j \in (s + 1)..p : l[j] # Quote
    /\ \A j \in (s + 1)..(p + 1) : InString(l, j)

(* The inductive invariant, a part for each group of states.                *)
PlaceInv ==
    /\ text \in Texts /\ lines \in 0..Len(text) /\ state \in States
    /\ pos \in Nat /\ (lines > 0 => pos <= Len(line))
    /\ state \notin {"READ", "DONE"} => lines > 0
    /\ lineno = IF state \in {"READ", "DONE", "END_LINE"} THEN lines ELSE lines - 1
    /\ state \in {"READ", "START_LINE", "END_LINE", "DONE"} => tokbuf = << >>
OutsideInv ==
    /\ state = "READ" => tokens = LinesTokens(text, lines)
    /\ state = "DONE" => tokens = LinesTokens(text, lines) \o << EOF >>
    /\ state = "END_LINE" =>
         /\ Offenders(line) = {}
         /\ tokens = LinesTokens(text, lines - 1) \o TokensOf(Code(line))
    /\ state = "THROWN" => Clean(line, pos) /\ Offends(line, pos + 1)
InsideInv ==
    /\ state \in {"START_LINE", "START_TOKEN"} =>
         /\ Ready(line, pos)
         /\ tokens = LinesTokens(text, lines - 1) \o TokensUpTo(Code(line), pos)
    /\ state = "TOKEN" =>
         \E s \in 1..(pos + 1) :
           /\ InWord(line, pos, s) /\ tokbuf = SubSeq(line, s, pos)
           /\ tokens = LinesTokens(text, lines - 1) \o TokensUpTo(Code(line), s - 1)
    /\ state = "STRING_TOKEN" =>
         \E s \in 1..pos :
           /\ InQuotes(line, pos, s) /\ tokbuf = SubSeq(line, s, pos)
           /\ tokens = LinesTokens(text, lines - 1) \o TokensUpTo(Code(line), s - 1)
    /\ state = "END_TOKEN" =>
         /\ Ready(line, pos)
         /\ Append(tokens, tokbuf) = LinesTokens(text, lines - 1) \o TokensUpTo(Code(line), pos)
TokensInv == PlaceInv /\ OutsideInv /\ InsideInv

-----------------------------------------------------------------------------
(* Strings and comments of a line *)

LEMMA CharacterFacts ==
  /\ Symbols = EndsWord \cup {Open} /\ Open \notin EndsWord
  /\ Symbols \cap {Space, Semicolon, Quote} = {}
  /\ WordChars \cap (Symbols \cup {Space, Semicolon, Quote}) = {}
<1>1. Open \notin {Comma, Close}
  BY Zenon DEF Open, Close, Comma
<1>2. {Open, Close, Comma} \cap {Space, Semicolon, Quote} = {}
  BY Zenon DEF Open, Close, Comma, Space, Semicolon, Quote
<1> QED BY <1>1, <1>2, CharactersAssumption DEF Symbols, EndsWord

LEMMA InStringNext ==
  ASSUME NEW l
  PROVE  /\ ~InString(l, 1)
         /\ \A i \in Nat \ {0} : \A j \in Nat :
              j = i + 1 => (InString(l, j) <=> (InString(l, i) <=> l[i] # Quote))
<1> DEFINE Q(i) == {j \in 1..(i - 1) : l[j] = Quote}
<1>1. Quotes(l, 1) = 0
  <2>1. Q(1) = {}
    OBVIOUS
  <2> QED BY <2>1, FS_EmptySet DEF Quotes
<1>2. \A i \in Nat : IsFiniteSet(Q(i)) /\ Quotes(l, i) \in Nat
  <2> SUFFICES ASSUME NEW i \in Nat PROVE IsFiniteSet(Q(i)) /\ Quotes(l, i) \in Nat
    OBVIOUS
  <2>1. 1 \in Int /\ i - 1 \in Int
    OBVIOUS
  <2>2. IsFiniteSet(1..(i - 1))
    BY <2>1, FS_Interval
  <2>3. IsFiniteSet(Q(i))
    BY <2>2, FS_Subset
  <2> QED BY <2>3, FS_CardinalityType DEF Quotes
<1>3. ASSUME NEW i \in Nat \ {0}, NEW j \in Nat, j = i + 1
      PROVE  InString(l, j) <=> (InString(l, i) <=> l[i] # Quote)
  <2>1. /\ \A k \in 1..(j - 1) : k = i \/ k \in 1..(i - 1)
        /\ \A k \in 1..(i - 1) : k \in 1..(j - 1) /\ k # i
        /\ i \in 1..(j - 1)
    BY <1>3
  <2>2. CASE l[i] = Quote
    <3>1. Q(j) = Q(i) \cup {i} /\ i \notin Q(i)
      BY <2>1, <2>2
    <3>2. Cardinality(Q(i) \cup {i}) = Cardinality(Q(i)) + 1
      BY <1>2, <3>1, FS_AddElement
    <3>3. Quotes(l, j) = Quotes(l, i) + 1
      BY <3>1, <3>2 DEF Quotes
    <3>4. PICK x \in Nat : x = Quotes(l, i) /\ x + 1 = Quotes(l, j)
      BY <1>2, <3>3
    <3>5. (x + 1) % 2 = 1 <=> ~(x % 2 = 1)
      OBVIOUS
    <3> QED BY <2>2, <3>4, <3>5 DEF InString
  <2>3. CASE l[i] # Quote
    <3>1. Q(j) = Q(i)
      BY <2>1, <2>3
    <3>2. Quotes(l, j) = Quotes(l, i)
      BY <3>1 DEF Quotes
    <3> QED BY <2>3, <3>2 DEF InString
  <2> QED BY <2>2, <2>3
<1>4. ~InString(l, 1)
  BY <1>1 DEF InString
<1> HIDE DEF Q
<1> QED BY <1>3, <1>4

(* The comment begins at the first semicolon that is in no string, and      *)
(* after the line if there is none.                                         *)
LEMMA CommentAtIs ==
  ASSUME NEW C, NEW l \in Seq(C), NEW n \in Nat, n = Len(l)
  PROVE  \E m \in 1..(n + 1) :
           /\ m = CommentAt(l)
           /\ \A i \in 1..n : i < m => l[i] # Semicolon \/ InString(l, i)
           /\ m <= n => l[m] = Semicolon /\ ~InString(l, m)
<1>1. PICK e \in Nat : e = n + 1
  OBVIOUS
<1>2. PICK S : S = {i \in 1..n : l[i] = Semicolon /\ ~InString(l, i)} \cup {e}
  OBVIOUS
<1>3. DOMAIN l = 1..n
  BY LenProperties
<1>4. /\ e \in S /\ \A i \in S : i = e \/ (i \in 1..n /\ l[i] = Semicolon /\ ~InString(l, i))
      /\ \A i \in 1..n : l[i] = Semicolon /\ ~InString(l, i) => i \in S
  BY <1>2
<1>5. \A i \in S : i \in 1..e
  BY <1>1, <1>4
<1>6. PICK x \in S : \A y \in S : x <= y
  <2>1. S \subseteq Nat /\ S # {}
    BY <1>4, <1>5
  <2> QED BY <2>1, LeastNat
<1>7. CommentAt(l) = x
  <2>1. CommentAt(l) = Min(S)
    BY <1>1, <1>2, <1>3 DEF CommentAt
  <2>2. S \subseteq Nat
    BY <1>5
  <2> QED BY <1>6, <2>1, <2>2, MinIs
<1>8. PICK m \in 1..e : m = x
  BY <1>5, <1>6
<1>9. ASSUME NEW i \in 1..n, i < m PROVE l[i] # Semicolon \/ InString(l, i)
  <2>1. i \notin S
    BY <1>6, <1>8, <1>9
  <2> QED BY <1>4, <2>1
<1>10. m <= n => l[m] = Semicolon /\ ~InString(l, m)
  <2>1. m <= n => m # e
    BY <1>1
  <2> QED BY <1>4, <1>8, <2>1
<1> QED BY <1>1, <1>7, <1>8, <1>9, <1>10

(* The code of a line is its characters before the comment, and these are    *)
(* in strings and words as they are in the line.                            *)
LineFacts(l, n, c, m) ==
  /\ n \in Nat /\ m \in Nat /\ m <= n /\ Len(l) = n /\ Len(c) = m
  /\ DOMAIN l = 1..n /\ DOMAIN c = 1..m /\ CommentAt(l) = m + 1
  /\ \A i \in 1..m : c[i] = l[i] /\ (l[i] # Semicolon \/ InString(l, i))
  /\ \A i \in Nat : i = m + 1 /\ i <= n => l[i] = Semicolon /\ ~InString(l, i)
  /\ ~InString(l, 1)
  /\ \A i \in Nat \ {0} : \A j \in Nat :
       j = i + 1 => (InString(l, j) <=> (InString(l, i) <=> l[i] # Quote))
  /\ \A i \in 0..(m + 1) : IsWordChar(c, i) <=> IsWordChar(l, i)
  /\ \A i \in 1..m : StartsToken(c, i) <=> StartsToken(l, i)

LEMMA LineIs ==
  ASSUME NEW C, NEW l \in Seq(C)
  PROVE  /\ Code(l) \in Seq(C)
         /\ \E n, m \in Nat : LineFacts(l, n, Code(l), m)
<1>0. PICK n \in Nat : n = Len(l) /\ DOMAIN l = 1..n /\ \A i \in 1..n : l[i] \in C
  BY LenProperties
<1>1. PICK e \in 1..(n + 1) :
        /\ e = CommentAt(l)
        /\ \A i \in 1..n : i < e => l[i] # Semicolon \/ InString(l, i)
        /\ e <= n => l[e] = Semicolon /\ ~InString(l, e)
  BY <1>0, CommentAtIs
<1>2. PICK m \in Nat : m = e - 1 /\ e = m + 1 /\ m <= n
  OBVIOUS
<1>3. PICK c : c = Code(l) /\ c = SubSeq(l, 1, m)
  BY <1>1, <1>2 DEF Code
<1>4. c \in Seq(C) /\ Len(c) = m /\ \A i \in 1..m : c[i] = l[i]
  <2>1. 1 \in Int /\ m \in Int /\ \A i \in 1..m : l[i] \in C
    BY <1>0, <1>2
  <2>2. /\ c \in Seq(C) /\ Len(c) = (IF 1 <= m THEN m - 1 + 1 ELSE 0)
        /\ \A i \in 1..(m - 1 + 1) : c[i] = l[1 + i - 1]
    BY <1>3, <2>1, SubSeqProperties
  <2> QED BY <2>2
<1>5. DOMAIN c = 1..m
  BY <1>4, LenProperties
<1>6. \A i \in 1..(m + 1) : InString(c, i) <=> InString(l, i)
  <2> SUFFICES ASSUME NEW i \in 1..(m + 1) PROVE InString(c, i) <=> InString(l, i)
    OBVIOUS
  <2>1. {j \in 1..(i - 1) : c[j] = Quote} = {j \in 1..(i - 1) : l[j] = Quote}
    <3>1. \A j \in 1..(i - 1) : j \in 1..m
      OBVIOUS
    <3>2. \A j \in 1..(i - 1) : c[j] = l[j]
      BY <1>4, <3>1
    <3> QED BY <3>2
  <2> QED BY <2>1 DEF InString, Quotes
<1>7. \A i \in 0..(m + 1) : IsWordChar(c, i) <=> IsWordChar(l, i)
  <2> SUFFICES ASSUME NEW i \in 0..(m + 1) PROVE IsWordChar(c, i) <=> IsWordChar(l, i)
    OBVIOUS
  <2>1. CASE i \in 1..m
    <3>1. i \in 1..n /\ i \in 1..(m + 1)
      BY <1>2, <2>1
    <3>2. c[i] = l[i] /\ (InString(c, i) <=> InString(l, i))
      BY <1>4, <1>6, <2>1, <3>1
    <3>3. i \in DOMAIN c /\ i \in DOMAIN l
      BY <1>0, <1>5, <2>1, <3>1
    <3> QED BY <3>2, <3>3, Zenon DEF IsWordChar
  <2>2. CASE i = 0
    BY <1>0, <1>5, <2>2 DEF IsWordChar
  <2>3. CASE i = m + 1
    <3>1. ~IsWordChar(c, i)
      BY <1>5, <2>3 DEF IsWordChar
    <3>2. ~IsWordChar(l, i)
      <4>1. CASE e <= n
        BY <1>1, <1>2, <2>3, <4>1, CharacterFacts DEF IsWordChar
      <4>2. CASE ~(e <= n)
        BY <1>0, <1>2, <2>3, <4>2 DEF IsWordChar
      <4> QED BY <4>1, <4>2
    <3> QED BY <3>1, <3>2
  <2> QED BY <2>1, <2>2, <2>3
<1>8. \A i \in 1..m : StartsToken(c, i) <=> StartsToken(l, i)
  <2> SUFFICES ASSUME NEW i \in 1..m PROVE StartsToken(c, i) <=> StartsToken(l, i)
    OBVIOUS
  <2>1. i \in 1..(m + 1) /\ i - 1 \in 0..(m + 1)
    OBVIOUS
  <2>2. c[i] = l[i] /\ (InString(c, i) <=> InString(l, i))
    BY <1>4, <1>6, <2>1
  <2>3. PICK k \in 0..(m + 1) : k = i - 1
    BY <2>1
  <2>4. IsWordChar(c, k) <=> IsWordChar(l, k)
    BY <1>7
  <2> QED BY <2>2, <2>3, <2>4 DEF StartsToken
<1>9. \A i \in 1..m : c[i] = l[i] /\ (l[i] # Semicolon \/ InString(l, i))
  BY <1>1, <1>2, <1>4
<1>10. \A i \in Nat : i = m + 1 /\ i <= n => l[i] = Semicolon /\ ~InString(l, i)
  BY <1>1, <1>2
<1>11. LineFacts(l, n, c, m)
  <2>1. CommentAt(l) = m + 1
    BY <1>1, <1>2
  <2> QED BY <1>0, <1>2, <1>4, <1>5, <1>7, <1>8, <1>9, <1>10, <2>1, InStringNext DEF LineFacts
<1> QED BY <1>3, <1>4, <1>11
-----------------------------------------------------------------------------
(* The tokens of the code of a line *)

LEMMA TokenEndSymbol ==
  ASSUME NEW c, NEW s, c[s] \in Symbols
  PROVE  TokenEnd(c, s) = s
<1>1. c[s] # Quote /\ c[s] \notin WordChars
  BY CharacterFacts
<1> QED BY <1>1 DEF TokenEnd

LEMMA TokenEndQuote ==
  ASSUME NEW c, NEW m \in Nat, Len(c) = m, NEW s \in Nat, NEW e \in 1..m,
         c[s] = Quote, s < e, c[e] = Quote, \A j \in 1..m : s < j /\ j < e => c[j] # Quote
  PROVE  TokenEnd(c, s) = e
<1>1. PICK S : S = {j \in (s + 1)..Len(c) : c[j] = Quote} \cup {Len(c)}
  OBVIOUS
<1>2. c[s] \notin Symbols /\ c[s] \notin WordChars
  BY CharacterFacts
<1>3. TokenEnd(c, s) = Min(S)
  BY <1>1, <1>2 DEF TokenEnd
<1>4. S \subseteq Nat /\ e \in S /\ \A j \in S : e <= j
  BY <1>1
<1> QED BY <1>3, <1>4, MinIs

LEMMA TokenEndWord ==
  ASSUME NEW c, NEW m \in Nat, Len(c) = m, NEW s \in Nat, NEW e \in 1..m, NEW q \in Nat,
         q = e + 1, c[s] \in WordChars, s <= e, ~IsWordChar(c, q),
         \A j \in 1..m : s < j /\ j <= e => IsWordChar(c, j)
  PROVE  TokenEnd(c, s) = e
<1>1. PICK S : S = {j \in s..Len(c) : ~IsWordChar(c, j + 1)}
  OBVIOUS
<1>2. c[s] \notin Symbols /\ c[s] # Quote
  BY CharacterFacts
<1>3. TokenEnd(c, s) = Min(S)
  BY <1>1, <1>2 DEF TokenEnd
<1>4. S \subseteq Nat /\ e \in S
  BY <1>1
<1>5. ASSUME NEW j \in S, j < e PROVE FALSE
  <2>1. PICK k \in Nat : k = j + 1 /\ j \in s..m
    BY <1>1
  <2>2. k \in 1..m /\ s < k /\ k <= e
    BY <1>5, <2>1
  <2>3. ~IsWordChar(c, k)
    BY <1>1, <2>1
  <2> QED BY <2>2, <2>3
<1>6. \A j \in S : e <= j
  BY <1>4, <1>5
<1> QED BY <1>3, <1>4, <1>6, MinIs

(* A token ends inside of the code. *)
LEMMA TokenEndType ==
  ASSUME NEW c, NEW m \in Nat, Len(c) = m, DOMAIN c = 1..m,
         NEW s \in 1..m, StartsToken(c, s)
  PROVE  TokenEnd(c, s) \in 1..m
<1>1. CASE c[s] \in Symbols
  BY <1>1, TokenEndSymbol
<1>2. CASE c[s] = Quote
  <2>1. PICK S : S = {j \in (s + 1)..Len(c) : c[j] = Quote} \cup {Len(c)}
    OBVIOUS
  <2>2. TokenEnd(c, s) = Min(S)
    BY <1>2, <2>1, CharacterFacts DEF TokenEnd
  <2>3. S \subseteq 1..m /\ S # {} /\ S \subseteq Nat
    BY <2>1
  <2>4. PICK e \in S : \A j \in S : e <= j
    BY <2>3, LeastNat
  <2> QED BY <2>2, <2>3, <2>4, MinIs
<1>3. CASE c[s] \in WordChars
  <2>1. PICK S : S = {j \in s..Len(c) : ~IsWordChar(c, j + 1)}
    OBVIOUS
  <2>2. TokenEnd(c, s) = Min(S)
    BY <1>3, <2>1, CharacterFacts DEF TokenEnd
  <2>3. m \in S
    <3>1. ~IsWordChar(c, m + 1)
      BY DEF IsWordChar
    <3> QED BY <2>1, <3>1
  <2>4. S \subseteq 1..m /\ S # {} /\ S \subseteq Nat
    <3>1. \A j \in S : j \in 1..m
      BY <2>1
    <3> QED BY <2>3, <3>1
  <2>5. PICK e \in S : \A j \in S : e <= j
    BY <2>4, LeastNat
  <2> QED BY <2>2, <2>4, <2>5, MinIs
<1> QED BY <1>1, <1>2, <1>3 DEF StartsToken

LEMMA TokensUpToNone == ASSUME NEW c PROVE TokensUpTo(c, 0) = << >>
<1>1. {i \in 1..0 : StartsToken(c, i)} = {}
  OBVIOUS
<1>2. PICK starts : starts = InOrder({i \in 1..0 : StartsToken(c, i)})
  OBVIOUS
<1>3. starts = << >>
  BY <1>1, <1>2, InOrderEmpty
<1>4. TokensUpTo(c, 0) = [k \in DOMAIN starts |-> SubSeq(c, starts[k], TokenEnd(c, starts[k]))]
  BY <1>2 DEF TokensUpTo
<1> QED BY <1>3, <1>4

LEMMA TokensUpToSame ==
  ASSUME NEW c, NEW p \in Nat, NEW q \in Nat, p <= q,
         \A i \in 1..q : p < i => ~StartsToken(c, i)
  PROVE  TokensUpTo(c, q) = TokensUpTo(c, p)
<1>1. {i \in 1..q : StartsToken(c, i)} = {i \in 1..p : StartsToken(c, i)}
  <2>1. \A i \in 1..q : i \in 1..p \/ p < i
    OBVIOUS
  <2>2. \A i \in 1..p : i \in 1..q
    OBVIOUS
  <2> QED BY <2>1, <2>2
<1> QED BY <1>1 DEF TokensUpTo

LEMMA TokensUpToAdd ==
  ASSUME NEW c, NEW p \in Nat, NEW q \in Nat, NEW s \in Nat, p < s, s <= q,
         StartsToken(c, s), \A i \in 1..q : p < i /\ i # s => ~StartsToken(c, i)
  PROVE  TokensUpTo(c, q) = Append(TokensUpTo(c, p), SubSeq(c, s, TokenEnd(c, s)))
<1>1. PICK S : S = {i \in 1..p : StartsToken(c, i)} /\ S \subseteq 1..p
  OBVIOUS
<1>2. {i \in 1..q : StartsToken(c, i)} = S \cup {s}
  <2>1. \A i \in 1..q : i \in 1..p \/ p < i
    OBVIOUS
  <2>2. (\A i \in 1..p : i \in 1..q) /\ s \in 1..q
    OBVIOUS
  <2> QED BY <1>1, <2>1, <2>2
<1>3. PICK o : o = InOrder(S)
  OBVIOUS
<1>4. PICK k \in Nat : k = Len(o) /\ DOMAIN o = 1..k /\ o \in Seq(S)
  BY <1>1, <1>3, InOrderType, LenProperties
<1>5. PICK r : r = Append(o, s) /\ InOrder(S \cup {s}) = r
  BY <1>1, <1>3, InOrderAdd
<1>6. PICK kk \in Nat : kk = k + 1 /\ DOMAIN r = 1..kk /\ r[kk] = s /\ \A i \in 1..k : r[i] = o[i]
  BY <1>4, <1>5, AppendProperties
<1> DEFINE Token(i) == SubSeq(c, i, TokenEnd(c, i))
           old == [i \in 1..k |-> Token(o[i])]
           new == [i \in 1..kk |-> Token(r[i])]
<1>7. TokensUpTo(c, p) = old
  BY <1>1, <1>3, <1>4, Zenon DEF TokensUpTo
<1>8. TokensUpTo(c, q) = new
  BY <1>2, <1>5, <1>6, Zenon DEF TokensUpTo
<1>9. new = [i \in 1..(k + 1) |-> IF i \in 1..k THEN old[i] ELSE Token(s)]
  <2>1. \A i \in 1..kk : Token(r[i]) = IF i \in 1..k THEN old[i] ELSE Token(s)
    <3> SUFFICES ASSUME NEW i \in 1..kk
                 PROVE  Token(r[i]) = IF i \in 1..k THEN old[i] ELSE Token(s)
      OBVIOUS
    <3>1. CASE i \in 1..k
      <4>1. old[i] = Token(o[i])
        BY <3>1, Zenon
      <4> QED BY <1>6, <3>1, <4>1, Zenon
    <3>2. CASE i \notin 1..k
      <4>1. i = kk
        BY <1>6, <3>2
      <4> QED BY <1>6, <3>2, <4>1, Zenon
    <3> QED BY <3>1, <3>2
  <2>2. new = [i \in 1..kk |-> IF i \in 1..k THEN old[i] ELSE Token(s)]
    <3> HIDE DEF old
    <3> QED BY <2>1, Zenon
  <2> QED BY <1>6, <2>2, Zenon
<1>10. old = [i \in 1..k |-> old[i]]
  OBVIOUS
<1>11. PICK x : x = Token(s)
  OBVIOUS
<1> HIDE DEF old
<1>12. Append(old, x) = [i \in 1..(k + 1) |-> IF i \in 1..k THEN old[i] ELSE x]
  BY <1>10, AppendIs
<1> QED BY <1>7, <1>8, <1>9, <1>11, <1>12, Zenon

LEMMA TokensUpToType ==
  ASSUME NEW C, NEW c \in Seq(C), NEW m \in Nat, Len(c) = m, NEW p \in 0..m
  PROVE  TokensUpTo(c, p) \in Seq(Seq(C))
<1>1. PICK S : S = {i \in 1..p : StartsToken(c, i)} /\ S \subseteq 1..p
  OBVIOUS
<1>2. PICK o : o = InOrder(S)
  OBVIOUS
<1>3. PICK k \in Nat : DOMAIN o = 1..k /\ \A i \in 1..k : o[i] \in S
  <2>1. p \in Nat
    OBVIOUS
  <2> QED BY <1>1, <1>2, <2>1, InOrderType, LenProperties
<1> DEFINE Token(i) == SubSeq(c, i, TokenEnd(c, i))
<1>4. TokensUpTo(c, p) = [i \in 1..k |-> Token(o[i])]
  BY <1>1, <1>2, <1>3, Zenon DEF TokensUpTo
<1>5. PICK B : B = Seq(C)
  OBVIOUS
<1>6. \A s \in S : Token(s) \in B
  <2> SUFFICES ASSUME NEW s \in S PROVE Token(s) \in B
    OBVIOUS
  <2>1. s \in 1..m /\ StartsToken(c, s) /\ DOMAIN c = 1..m /\ \A i \in 1..m : c[i] \in C
    BY <1>1, LenProperties
  <2>2. PICK e \in 1..m : e = TokenEnd(c, s)
    BY <2>1, TokenEndType
  <2>3. s \in Int /\ e \in Int /\ \A i \in s..e : c[i] \in C
    BY <2>1
  <2>4. SubSeq(c, s, e) \in Seq(C)
    BY <2>3, SubSeqProperties
  <2> QED BY <1>5, <2>2, <2>4
<1>7. \A i \in 1..k : Token(o[i]) \in B
  BY <1>3, <1>6
<1> HIDE DEF Token
<1>8. [i \in 1..k |-> Token(o[i])] \in Seq(B)
  BY <1>7
<1> QED BY <1>4, <1>5, <1>8

LEMMA TokensOfIs ==
  ASSUME NEW c, NEW m \in Nat, DOMAIN c = 1..m
  PROVE  TokensOf(c) = TokensUpTo(c, m)
BY DEF TokensOf, TokensUpTo
-----------------------------------------------------------------------------
(* What a turn of the loop makes of a character, outside of words *)

LEMMA LineBegins ==
  ASSUME NEW l, NEW n, NEW c, NEW m, LineFacts(l, n, c, m)
  PROVE  Ready(l, 0) /\ TokensUpTo(c, 0) = << >>
<1>1. 0 < CommentAt(l) /\ ~InString(l, 0 + 1) /\ ~IsWordChar(l, 0)
  BY DEF LineFacts, IsWordChar
<1>2. Clean(l, 0)
  BY DEF Clean
<1> QED BY <1>1, <1>2, TokensUpToNone DEF Ready, Between

(* The character after p is no comment's. *)
LEMMA CommentIsLater ==
  ASSUME NEW l, NEW n, NEW c, NEW m, LineFacts(l, n, c, m), NEW p \in Nat, NEW q \in Nat,
         q = p + 1, p < CommentAt(l), q <= n, l[q] # Semicolon \/ InString(l, q)
  PROVE  q <= m /\ q < CommentAt(l)
<1>1. m \in Nat /\ CommentAt(l) = m + 1
  BY DEF LineFacts
<1>2. q # m + 1
  BY DEF LineFacts
<1> QED BY <1>1, <1>2

LEMMA SpaceSkipped ==
  ASSUME NEW l, NEW n, NEW c, NEW m, LineFacts(l, n, c, m), NEW p \in Nat, NEW q \in Nat,
         q = p + 1, Between(l, p), q <= n, l[q] = Space
  PROVE  Ready(l, q) /\ TokensUpTo(c, q) = TokensUpTo(c, p)
<1>1. /\ Space # Semicolon /\ Space # Quote /\ Space # Open
      /\ Space \notin WordChars /\ Space \notin Symbols
  <2>1. Space # Semicolon /\ Space # Quote /\ Space # Open
    BY Zenon DEF Space, Semicolon, Quote, Open
  <2> QED BY <2>1, CharacterFacts
<1>2. ~InString(l, q) /\ Clean(l, p) /\ p < CommentAt(l)
  BY DEF Between
<1>3. q <= m /\ q < CommentAt(l)
  BY <1>1, <1>2, CommentIsLater
<1>4. ~Offends(l, q)
  BY <1>1, <1>2 DEF Offends, LineFacts
<1>5. Clean(l, q)
  BY <1>2, <1>4 DEF Clean
<1>6. ~InString(l, q + 1)
  BY <1>1, <1>2 DEF LineFacts
<1>7. ~IsWordChar(l, q)
  BY <1>1 DEF IsWordChar
<1>8. ~StartsToken(l, q)
  BY <1>1, <1>2 DEF StartsToken
<1>9. \A i \in 1..q : p < i => ~StartsToken(c, i)
  <2>1. ~StartsToken(c, q)
    BY <1>3, <1>8 DEF LineFacts
  <2>2. \A i \in 1..q : p < i => i = q
    OBVIOUS
  <2> QED BY <2>1, <2>2
<1>10. TokensUpTo(c, q) = TokensUpTo(c, p)
  BY <1>9, TokensUpToSame
<1> QED BY <1>3, <1>5, <1>6, <1>7, <1>10 DEF Ready, Between

LEMMA LineEnds ==
  ASSUME NEW l, NEW n, NEW c, NEW m, LineFacts(l, n, c, m), NEW p \in Nat, NEW q \in Nat,
         q = p + 1, Ready(l, p), p <= n, p = n \/ l[q] = Semicolon
  PROVE  Offenders(l) = {} /\ TokensOf(c) = TokensUpTo(c, p)
<1>1. n \in Nat /\ m \in Nat /\ m <= n /\ CommentAt(l) = m + 1 /\ Len(l) = n
  BY DEF LineFacts
<1>2. p <= m /\ Clean(l, p) /\ ~InString(l, q)
  BY <1>1 DEF Ready, Between
<1>3. p = m
  <2>1. CASE p = n
    BY <1>1, <1>2, <2>1
  <2>2. CASE p # n /\ l[q] = Semicolon
    <3>1. q <= n /\ ~(q <= m)
      BY <1>1, <1>2, <2>2 DEF LineFacts
    <3> QED BY <1>2, <3>1, <1>1
  <2> QED BY <2>1, <2>2
<1>4. ~Offends(l, q)
  <2>1. CASE p = n
    BY <1>1, <1>2, <2>1 DEF Offends, LineFacts
  <2>2. CASE p # n /\ l[q] = Semicolon
    <3>1. Semicolon \notin EndsWord
      BY CharacterFacts
    <3>2. q - 1 = p /\ q # n + 1 /\ p # Len(l)
      BY <1>1, <2>2
    <3>4. ~IsWordChar(l, q - 1)
      BY <2>2, <3>1, <3>2 DEF Ready
    <3>3. Semicolon \notin {Quote, Open}
      BY Zenon DEF Semicolon, Quote, Open
    <3> QED BY <1>1, <1>2, <2>2, <3>2, <3>3, <3>4 DEF Offends
  <2> QED BY <2>1, <2>2
<1>5. \A i \in 1..(n + 1) : ~Offends(l, i)
  <2> SUFFICES ASSUME NEW i \in 1..(n + 1) PROVE ~Offends(l, i)
    OBVIOUS
  <2>1. CASE i \in 1..p
    BY <1>2, <2>1 DEF Clean
  <2>2. CASE i = q
    BY <1>4, <2>2
  <2>3. CASE i > q
    BY <1>1, <1>3, <2>3 DEF Offends
  <2> QED BY <2>1, <2>2, <2>3
<1>6. Offenders(l) = {}
  BY <1>1, <1>5 DEF Offenders
<1>7. DOMAIN c = 1..m
  BY DEF LineFacts
<1> QED BY <1>1, <1>3, <1>6, <1>7, TokensOfIs

LEMMA WordBegins ==
  ASSUME NEW C, NEW l \in Seq(C), NEW n, NEW c, NEW m, LineFacts(l, n, c, m),
         NEW p \in Nat, NEW q \in Nat, q = p + 1, Ready(l, p), q <= n, l[q] \in WordChars
  PROVE  InWord(l, p, q) /\ SubSeq(l, q, p) = << >>
<1>1. l[q] # Semicolon /\ l[q] \notin EndsWord
  BY CharacterFacts
<1>2. Between(l, p) /\ p < CommentAt(l) /\ ~InString(l, q)
  BY DEF Ready, Between
<1>3. q < CommentAt(l)
  BY <1>1, <1>2, CommentIsLater
<1>4. p # n
  BY DEF LineFacts
<1>5. ~IsWordChar(l, p) /\ q - 1 = p
  BY <1>1, <1>4 DEF Ready, LineFacts
<1>6. StartsToken(l, q)
  BY <1>2, <1>5 DEF StartsToken
<1>7. SubSeq(l, q, p) = << >>
  <2>1. q \in Int /\ p \in Int /\ p < q
    OBVIOUS
  <2> QED BY <2>1, SubSeqEmpty
<1> QED BY <1>2, <1>3, <1>6, <1>7 DEF InWord

LEMMA StringBegins ==
  ASSUME NEW C, NEW l \in Seq(C), NEW n, NEW c, NEW m, LineFacts(l, n, c, m),
         NEW p \in Nat, NEW q \in Nat, q = p + 1, Ready(l, p), q <= n, l[q] = Quote
  PROVE  InQuotes(l, q, q) /\ SubSeq(l, q, q) = << l[q] >>
<1>1. /\ Quote # Semicolon /\ Quote \notin EndsWord /\ Quote \notin WordChars
      /\ Quote \notin Symbols
  <2>1. Quote # Semicolon
    BY Zenon DEF Quote, Semicolon
  <2> QED BY <2>1, CharacterFacts
<1>2. Clean(l, p) /\ p < CommentAt(l) /\ ~InString(l, q)
  BY DEF Ready, Between
<1>3. q < CommentAt(l)
  BY <1>1, <1>2, CommentIsLater
<1>4. ~IsWordChar(l, p) /\ q - 1 = p /\ q # n + 1 /\ p # n
  BY <1>1 DEF Ready, LineFacts
<1>5. ~Offends(l, q)
  BY <1>2, <1>4 DEF Offends, LineFacts
<1>6. Clean(l, q)
  BY <1>2, <1>5 DEF Clean
<1>7. InString(l, q + 1)
  BY <1>2 DEF LineFacts
<1>8. SubSeq(l, q, q) = << l[q] >>
  BY SubSeqOne
<1> QED BY <1>2, <1>3, <1>6, <1>7, <1>8 DEF InQuotes

LEMMA SymbolTaken ==
  ASSUME NEW C, NEW l \in Seq(C), NEW n, NEW c, NEW m, LineFacts(l, n, c, m),
         NEW p \in Nat, NEW q \in Nat, q = p + 1, Ready(l, p), q <= n, l[q] \in Symbols
  PROVE  Ready(l, q) /\ TokensUpTo(c, q) = Append(TokensUpTo(c, p), << l[q] >>)
<1>1. /\ l[q] # Semicolon /\ l[q] # Quote /\ l[q] \notin WordChars
      /\ l[q] = Open => l[q] \notin EndsWord
  BY CharacterFacts
<1>2. Clean(l, p) /\ p < CommentAt(l) /\ ~InString(l, q)
  BY DEF Ready, Between
<1>3. q <= m /\ q < CommentAt(l)
  BY <1>1, <1>2, CommentIsLater
<1>4. (l[q] = Open => ~IsWordChar(l, p)) /\ q - 1 = p /\ q # n + 1 /\ p # n
  BY <1>1 DEF Ready, LineFacts
<1>5. ~Offends(l, q)
  BY <1>1, <1>2, <1>4 DEF Offends, LineFacts
<1>6. Clean(l, q)
  BY <1>2, <1>5 DEF Clean
<1>7. ~InString(l, q + 1)
  BY <1>1, <1>2 DEF LineFacts
<1>8. ~IsWordChar(l, q)
  BY <1>1 DEF IsWordChar
<1>9. StartsToken(l, q)
  BY <1>2 DEF StartsToken
<1>10. StartsToken(c, q) /\ c[q] = l[q]
  BY <1>3, <1>9 DEF LineFacts
<1>11. TokenEnd(c, q) = q
  BY <1>10, TokenEndSymbol
<1>12. SubSeq(c, q, q) = << l[q] >>
  <2>1. SubSeq(c, q, q) = << c[q] >>
    BY SubSeqOne
  <2> QED BY <1>10, <2>1
<1>13. TokensUpTo(c, q) = Append(TokensUpTo(c, p), SubSeq(c, q, TokenEnd(c, q)))
  <2>1. \A i \in 1..q : p < i /\ i # q => ~StartsToken(c, i)
    OBVIOUS
  <2>2. p < q /\ q <= q
    OBVIOUS
  <2> QED BY <1>10, <2>1, <2>2, TokensUpToAdd
<1> QED BY <1>3, <1>6, <1>7, <1>8, <1>11, <1>12, <1>13 DEF Ready, Between

(* A character that begins nothing is an error. *)
LEMMA OtherOffends ==
  ASSUME NEW l, NEW n, NEW c, NEW m, LineFacts(l, n, c, m), NEW p \in Nat, NEW q \in Nat,
         q = p + 1, Ready(l, p), q <= n,
         l[q] \notin {Semicolon, Space, Quote} \cup WordChars \cup Symbols
  PROVE  Clean(l, p) /\ Offends(l, q)
<1>1. Clean(l, p) /\ p < CommentAt(l) /\ ~InString(l, q)
  BY DEF Ready, Between
<1>2. q <= CommentAt(l) /\ q \in DOMAIN l
  BY <1>1 DEF LineFacts
<1> QED BY <1>1, <1>2 DEF Offends
-----------------------------------------------------------------------------
(* What a turn of the loop makes of a character, inside of words and strings *)

LEMMA WordGoesOn ==
  ASSUME NEW l, NEW n, NEW c, NEW m, LineFacts(l, n, c, m), NEW p \in Nat, NEW q \in Nat,
         q = p + 1, NEW s, InWord(l, p, s), q <= n, l[q] \in WordChars
  PROVE  InWord(l, q, s) /\ s \in 1..q
<1>1. l[q] # Semicolon /\ l[q] # Quote /\ l[q] # Open
  BY CharacterFacts DEF Symbols
<1>2. Clean(l, p) /\ p < CommentAt(l) /\ ~InString(l, q)
  BY DEF InWord, Between
<1>3. q < CommentAt(l)
  BY <1>1, <1>2, CommentIsLater
<1>4. ~Offends(l, q)
  BY <1>1, <1>2 DEF Offends, LineFacts
<1>5. Clean(l, q)
  BY <1>2, <1>4 DEF Clean
<1>6. ~InString(l, q + 1)
  BY <1>1, <1>2 DEF LineFacts
<1>7. IsWordChar(l, q)
  BY <1>2 DEF IsWordChar, LineFacts
<1>8. s \in 1..q /\ s \in 1..(q + 1) /\ \A j \in s..q : j \in s..p \/ j = q
  BY DEF InWord
<1>9. \A j \in s..q : IsWordChar(l, j)
  BY <1>7, <1>8 DEF InWord
<1> QED BY <1>3, <1>5, <1>6, <1>8, <1>9 DEF InWord, Between

(* The first character of a word is one that goes on in it. *)
LEMMA WordHasBegun ==
  ASSUME NEW l, NEW n, NEW c, NEW m, LineFacts(l, n, c, m), NEW p \in Nat, NEW q \in Nat,
         q = p + 1, NEW s, InWord(l, p, s), p = n \/ l[q] \notin WordChars
  PROVE  s \in 1..p /\ IsWordChar(l, p)
<1>1. s \in 1..(p + 1) /\ l[s] \in WordChars /\ s < CommentAt(l)
  BY DEF InWord
<1>2. CommentAt(l) = m + 1 /\ m \in Nat /\ n \in Nat /\ m <= n
  BY DEF LineFacts
<1>3. s # q
  BY <1>1, <1>2
<1>4. s \in 1..p /\ p \in s..p
  BY <1>1, <1>3
<1> QED BY <1>4 DEF InWord

LEMMA WordEnds ==
  ASSUME NEW l, NEW n, NEW c, NEW m, LineFacts(l, n, c, m), NEW p \in Nat, NEW q \in Nat,
         q = p + 1, NEW s \in Nat, NEW b \in Nat, s = b + 1, InWord(l, p, s),
         p = n \/ l[q] \notin WordChars
  PROVE  TokensUpTo(c, p) = Append(TokensUpTo(c, b), SubSeq(l, s, p))
<1>1. s \in 1..p /\ s \in Nat
  BY WordHasBegun
<1>2. PICK r \in Nat : r = s - 1 /\ s = r + 1
  BY <1>1
<1>3. n \in Nat /\ m \in Nat /\ CommentAt(l) = m + 1 /\ Len(c) = m
  BY DEF LineFacts
<1>4. p \in 1..m /\ q \in 0..(m + 1)
  BY <1>1, <1>3 DEF InWord, Between
<1>5. \A j \in s..p : IsWordChar(l, j)
  BY DEF InWord
<1>6. ~IsWordChar(l, q)
  BY DEF IsWordChar, LineFacts
<1>7. ~IsWordChar(c, q)
  BY <1>4, <1>6 DEF LineFacts
<1>8. \A j \in 1..m : s < j /\ j <= p => IsWordChar(c, j)
  <2> SUFFICES ASSUME NEW j \in 1..m, s < j, j <= p PROVE IsWordChar(c, j)
    OBVIOUS
  <2>1. IsWordChar(l, j) /\ j \in 0..(m + 1)
    BY <1>1, <1>3, <1>5
  <2> QED BY <2>1 DEF LineFacts
<1>9. s \in 1..m
  BY <1>1, <1>3, <1>4
<1>10. StartsToken(c, s) /\ c[s] \in WordChars
  BY <1>9 DEF InWord, LineFacts
<1>11. TokenEnd(c, s) = p
  <2>1. s <= p
    BY <1>1
  <2> QED BY <1>1, <1>3, <1>4, <1>7, <1>8, <1>10, <2>1, TokenEndWord
<1>12. \A i \in 1..p : r < i /\ i # s => ~StartsToken(c, i)
  <2> SUFFICES ASSUME NEW i \in 1..p, r < i, i # s PROVE ~StartsToken(c, i)
    OBVIOUS
  <2>1. PICK k \in Nat : k = i - 1 /\ k \in s..p /\ i \in s..p /\ i \in 1..m
    BY <1>1, <1>2, <1>3, <1>4
  <2>2. IsWordChar(l, k) /\ IsWordChar(l, i)
    BY <1>5, <2>1
  <2>3. l[i] \notin Symbols \cup {Quote}
    BY <2>2, CharacterFacts DEF IsWordChar
  <2>4. ~StartsToken(l, i)
    BY <2>1, <2>2, <2>3 DEF StartsToken
  <2> QED BY <2>1, <2>4 DEF LineFacts
<1>13. TokensUpTo(c, p) = Append(TokensUpTo(c, r), SubSeq(c, s, TokenEnd(c, s)))
  <2>1. r < s /\ s <= p
    BY <1>1, <1>2
  <2> QED BY <1>1, <1>10, <1>12, <2>1, TokensUpToAdd
<1>14. SubSeq(c, s, p) = SubSeq(l, s, p)
  <2>1. \A i \in s..p : i \in 1..m
    BY <1>1, <1>3, <1>4
  <2>2. \A i \in 1..m : c[i] = l[i]
    BY DEF LineFacts
  <2>3. s \in Int /\ p \in Int /\ \A i \in s..p : c[i] = l[i]
    BY <1>1, <2>1, <2>2
  <2> QED BY <2>3, SubSeqSame
<1> QED BY <1>2, <1>11, <1>13, <1>14

(* A word is run into something that may not follow it. *)
LEMMA WordOffends ==
  ASSUME NEW l, NEW n, NEW c, NEW m, LineFacts(l, n, c, m), NEW p \in Nat, NEW q \in Nat,
         q = p + 1, NEW s, InWord(l, p, s), q <= n,
         l[q] \notin {Space} \cup EndsWord \cup WordChars
  PROVE  Clean(l, p) /\ Offends(l, q)
<1>1. IsWordChar(l, p) /\ q - 1 = p
  BY WordHasBegun
<1>2. Clean(l, p) /\ p < CommentAt(l) /\ ~InString(l, q)
  BY DEF InWord, Between
<1>3. q <= CommentAt(l) /\ q \in DOMAIN l
  BY <1>2 DEF LineFacts
<1>4. l[q] \in Symbols => l[q] = Open
  BY CharacterFacts
<1>5. \/ l[q] \notin {Space, Semicolon, Quote} \cup Symbols \cup WordChars
      \/ l[q] \in {Semicolon, Quote, Open}
  BY <1>4
<1> QED BY <1>1, <1>2, <1>3, <1>5 DEF Offends

LEMMA StringGoesOn ==
  ASSUME NEW l, NEW n, NEW c, NEW m, LineFacts(l, n, c, m), NEW p \in Nat, NEW q \in Nat,
         q = p + 1, NEW s, InQuotes(l, p, s), q <= n
  PROVE  /\ q <= m /\ q < CommentAt(l) /\ Clean(l, q) /\ s \in 1..q /\ InString(l, q)
         /\ InString(l, q + 1) <=> l[q] # Quote
<1>1. s \in 1..p /\ Clean(l, p) /\ p < CommentAt(l)
  BY DEF InQuotes
<1>2. InString(l, q)
  <2>1. q \in (s + 1)..(p + 1)
    BY <1>1
  <2> QED BY <2>1 DEF InQuotes
<1>3. q <= m /\ q < CommentAt(l)
  BY <1>1, <1>2, CommentIsLater
<1>4. ~Offends(l, q)
  BY <1>2 DEF Offends, LineFacts
<1>5. Clean(l, q)
  BY <1>1, <1>4 DEF Clean
<1>6. InString(l, q + 1) <=> l[q] # Quote
  BY <1>2 DEF LineFacts
<1> QED BY <1>1, <1>2, <1>3, <1>5, <1>6

LEMMA StringStays ==
  ASSUME NEW l, NEW n, NEW c, NEW m, LineFacts(l, n, c, m), NEW p \in Nat, NEW q \in Nat,
         q = p + 1, NEW s, InQuotes(l, p, s), q <= n, l[q] # Quote
  PROVE  InQuotes(l, q, s)
<1>1. q < CommentAt(l) /\ Clean(l, q) /\ s \in 1..q /\ InString(l, q + 1)
  BY StringGoesOn
<1>2. s \in 1..p
  BY DEF InQuotes
<1>3. \A j \in (s + 1)..q : j \in (s + 1)..p \/ j = q
  BY <1>2
<1>4. \A j \in (s + 1)..q : l[j] # Quote
  BY <1>3 DEF InQuotes
<1>5. \A j \in (s + 1)..(q + 1) : j \in (s + 1)..(p + 1) \/ j = q + 1
  BY <1>2
<1>6. \A j \in (s + 1)..(q + 1) : InString(l, j)
  BY <1>1, <1>5 DEF InQuotes
<1> QED BY <1>1, <1>4, <1>6 DEF InQuotes

LEMMA StringEnds ==
  ASSUME NEW l, NEW n, NEW c, NEW m, LineFacts(l, n, c, m), NEW p \in Nat, NEW q \in Nat,
         q = p + 1, NEW s \in Nat, NEW b \in Nat, s = b + 1, InQuotes(l, p, s),
         q <= n, l[q] = Quote
  PROVE  /\ Ready(l, q)
         /\ TokensUpTo(c, q) = Append(TokensUpTo(c, b), SubSeq(l, s, q))
<1>1. /\ q <= m /\ q < CommentAt(l) /\ Clean(l, q) /\ s \in 1..q /\ InString(l, q)
      /\ ~InString(l, q + 1)
  BY StringGoesOn
<1>2. ~IsWordChar(l, q)
  BY <1>1 DEF IsWordChar
<1>3. s \in 1..p /\ s \in Nat /\ l[s] = Quote /\ ~InString(l, s)
  BY DEF InQuotes
<1>4. PICK r \in Nat : r = s - 1 /\ s = r + 1
  BY <1>3
<1>5. m \in Nat /\ Len(c) = m
  BY DEF LineFacts
<1>6. \A j \in 1..m : s < j /\ j < q => c[j] # Quote
  <2>1. \A j \in 1..m : s < j /\ j < q => j \in (s + 1)..p
    BY <1>3, <1>5
  <2> QED BY <2>1 DEF InQuotes, LineFacts
<1>7. q \in 1..m /\ s \in 1..m /\ s < q
  BY <1>1, <1>3, <1>5
<1>8. StartsToken(l, s)
  BY <1>3 DEF StartsToken
<1>9. StartsToken(c, s) /\ c[s] = Quote /\ c[q] = Quote
  BY <1>3, <1>7, <1>8 DEF LineFacts
<1>10. TokenEnd(c, s) = q
  BY <1>3, <1>5, <1>6, <1>7, <1>9, TokenEndQuote
<1>11. \A i \in 1..q : r < i /\ i # s => ~StartsToken(c, i)
  <2> SUFFICES ASSUME NEW i \in 1..q, r < i, i # s PROVE ~StartsToken(c, i)
    OBVIOUS
  <2>1. i \in (s + 1)..(p + 1) /\ i \in 1..m
    BY <1>3, <1>4, <1>5, <1>7
  <2>2. ~StartsToken(l, i)
    BY <2>1 DEF InQuotes, StartsToken
  <2> QED BY <2>1, <2>2 DEF LineFacts
<1>12. TokensUpTo(c, q) = Append(TokensUpTo(c, r), SubSeq(c, s, TokenEnd(c, s)))
  <2>1. r < s /\ s <= q
    BY <1>4, <1>7
  <2> QED BY <1>3, <1>9, <1>11, <2>1, TokensUpToAdd, SMTT(30)
<1>13. SubSeq(c, s, q) = SubSeq(l, s, q)
  <2>1. \A i \in s..q : i \in 1..m
    BY <1>3, <1>5, <1>7
  <2>2. \A i \in 1..m : c[i] = l[i]
    BY DEF LineFacts
  <2>3. s \in Int /\ q \in Int /\ \A i \in s..q : c[i] = l[i]
    BY <1>3, <2>1, <2>2
  <2> QED BY <2>3, SubSeqSame
<1>14. Ready(l, q)
  BY <1>1, <1>2 DEF Ready, Between
<1> QED BY <1>4, <1>10, <1>12, <1>13, <1>14

(* A line that ends inside of a string. *)
LEMMA StringOffends ==
  ASSUME NEW l, NEW n, NEW c, NEW m, LineFacts(l, n, c, m), NEW p \in Nat, NEW q \in Nat,
         q = p + 1, NEW s, InQuotes(l, p, s), p = n
  PROVE  Clean(l, p) /\ Offends(l, q)
<1>1. s \in 1..p /\ Clean(l, p) /\ p < CommentAt(l)
  BY DEF InQuotes
<1>2. q \in (s + 1)..(p + 1)
  BY <1>1
<1>3. InString(l, q)
  BY <1>2 DEF InQuotes
<1> QED BY <1>1, <1>3 DEF Offends, LineFacts
-----------------------------------------------------------------------------
(* The lines of a text, and what comes of them *)

TextFacts(t) ==
  /\ Len(t) \in Nat /\ LinesTokens(t, 0) = << >>
  /\ \A k \in 0..Len(t) : LinesTokens(t, k) \o << >> = LinesTokens(t, k)
  /\ \A k \in 1..Len(t) :
       /\ t[k] \in Seq(Range(t[k]))
       /\ \E n, m \in Nat : LineFacts(t[k], n, Code(t[k]), m)
  /\ \A k \in 1..Len(t) : \A j \in Nat : j = k - 1 =>
       /\ LinesTokens(t, k) = Append(LinesTokens(t, j) \o TokensOf(Code(t[k])), EOL)
       /\ \A p \in 0..Len(Code(t[k])) : \A e :
            Append(LinesTokens(t, j) \o TokensUpTo(Code(t[k]), p), e)
              = LinesTokens(t, j) \o Append(TokensUpTo(Code(t[k]), p), e)

LEMMA TextIs ==
  ASSUME NEW t \in Texts
  PROVE  TextFacts(t)
<1>1. PICK N \in Nat : N = Len(t) /\ DOMAIN t = 1..N
  BY TextsAssumption, LenProperties
<1>2. \A k \in 1..N : t[k] \in Seq(Range(t[k]))
  BY <1>1, TextsAssumption
<1>3. PICK C : C = (UNION {Range(t[k]) : k \in 1..N}) \cup {"EOL"}
  OBVIOUS
<1>4. \A k \in 1..N : t[k] \in Seq(C)
  <2> SUFFICES ASSUME NEW k \in 1..N PROVE t[k] \in Seq(C)
    OBVIOUS
  <2>1. PICK R : R = Range(t[k]) /\ R \subseteq C
    BY <1>3
  <2>2. t[k] \in Seq(R)
    BY <1>2, <2>1
  <2> QED BY <2>1, <2>2, SeqMonotone
<1>5. EOL \in Seq(C)
  BY <1>3 DEF EOL
<1>6. PICK B : B = Seq(C)
  OBVIOUS
<1> DEFINE Line(k) == Append(TokensOf(Code(t[k])), EOL)
           Lines(k) == [j \in 1..k |-> Line(j)]
<1>7. \A k \in 1..N : \A p \in 0..Len(Code(t[k])) : TokensUpTo(Code(t[k]), p) \in Seq(B)
  <2> SUFFICES ASSUME NEW k \in 1..N, NEW p \in 0..Len(Code(t[k]))
               PROVE  TokensUpTo(Code(t[k]), p) \in Seq(B)
    OBVIOUS
  <2>1. PICK l \in Seq(C) : l = t[k]
    BY <1>4
  <2>2. PICK c \in Seq(C) : c = Code(l)
    BY LineIs
  <2>3. PICK m \in Nat : m = Len(c)
    BY LenProperties
  <2>4. TokensUpTo(c, p) \in Seq(Seq(C))
    BY <2>1, <2>2, <2>3, TokensUpToType
  <2> QED BY <1>6, <2>1, <2>2, <2>4
<1>8. \A k \in 1..N : Line(k) \in Seq(B)
  <2> SUFFICES ASSUME NEW k \in 1..N PROVE Line(k) \in Seq(B)
    OBVIOUS
  <2>1. PICK l \in Seq(C) : l = t[k]
    BY <1>4
  <2>2. PICK c \in Seq(C) : c = Code(l)
    BY LineIs
  <2>3. PICK m \in Nat : m = Len(c) /\ DOMAIN c = 1..m
    BY LenProperties
  <2>4. TokensOf(c) = TokensUpTo(c, m)
    BY <2>3, TokensOfIs
  <2>5. TokensUpTo(c, m) \in Seq(B)
    BY <1>7, <2>1, <2>2, <2>3
  <2>6. Append(TokensOf(c), EOL) \in Seq(B)
    BY <1>5, <1>6, <2>4, <2>5, AppendProperties
  <2> QED BY <2>1, <2>2, <2>6
<1>9. ASSUME NEW k \in 0..N
      PROVE  /\ Lines(k) \in Seq(Seq(B)) /\ LinesTokens(t, k) = FlattenSeq(Lines(k))
             /\ LinesTokens(t, k) \in Seq(B)
  <2>1. PICK S : S = Seq(B)
    OBVIOUS
  <2>2. \A j \in 1..k : Line(j) \in S
    BY <1>8, <2>1
  <2>3. Lines(k) \in Seq(S)
    <3> HIDE DEF Line
    <3> QED BY <2>2
  <2>4. LinesTokens(t, k) = FlattenSeq(Lines(k))
    BY DEF LinesTokens
  <2> HIDE DEF Lines
  <2>5. FlattenSeq(Lines(k)) \in Seq(B)
    BY <2>1, <2>3, FlattenSeqType
  <2> QED BY <2>1, <2>3, <2>4, <2>5
<1>10. LinesTokens(t, 0) = << >>
  <2>1. Lines(0) = << >>
    OBVIOUS
  <2>2. FlattenSeq(<< >>) = << >>
    BY DEF FlattenSeq
  <2>3. 0 \in 0..N
    OBVIOUS
  <2>4. LinesTokens(t, 0) = FlattenSeq(Lines(0))
    BY <1>9, <2>3
  <2> HIDE DEF Lines
  <2> QED BY <2>1, <2>2, <2>4
<1>11. ASSUME NEW k \in 1..N, NEW j \in Nat, j = k - 1
       PROVE  /\ LinesTokens(t, k) = Append(LinesTokens(t, j) \o TokensOf(Code(t[k])), EOL)
              /\ \A p \in 0..Len(Code(t[k])) : \A e :
                   Append(LinesTokens(t, j) \o TokensUpTo(Code(t[k]), p), e)
                     = LinesTokens(t, j) \o Append(TokensUpTo(Code(t[k]), p), e)
  <2>1. k = j + 1 /\ j \in 0..N /\ k \in 0..N
    BY <1>11
  <2>2. PICK a \in Seq(B) : a = LinesTokens(t, j)
    BY <1>9, <2>1
  <2>3. ASSUME NEW p \in 0..Len(Code(t[k])), NEW e
        PROVE  Append(LinesTokens(t, j) \o TokensUpTo(Code(t[k]), p), e)
                 = LinesTokens(t, j) \o Append(TokensUpTo(Code(t[k]), p), e)
    <3>1. PICK u \in Seq(B) : u = TokensUpTo(Code(t[k]), p)
      BY <1>7
    <3>2. Append(a \o u, e) = a \o Append(u, e)
      BY AppendToConcat, SMTT(30)
    <3> QED BY <2>2, <3>1, <3>2
  <2>5. Lines(k) = Append(Lines(j), Line(k))
    <3>1. Lines(j) = [i \in 1..j |-> Lines(j)[i]] /\ \A i \in 1..j : Lines(j)[i] = Line(i)
      <4> HIDE DEF Line
      <4> QED OBVIOUS
    <3>2. PICK x : x = Line(k)
      OBVIOUS
    <3> HIDE DEF Line, Lines
    <3>3. Append(Lines(j), x) = [i \in 1..(j + 1) |-> IF i \in 1..j THEN Lines(j)[i] ELSE x]
      BY <3>1, AppendIs
    <3>4. \A i \in 1..(j + 1) : (IF i \in 1..j THEN Lines(j)[i] ELSE x) = Line(i)
      <4>1. \A i \in 1..(j + 1) : i \in 1..j \/ i = k
        BY <2>1
      <4> QED BY <3>1, <3>2, <4>1
    <3>5. Append(Lines(j), x) = [i \in 1..(j + 1) |-> Line(i)]
      BY <3>3, <3>4
    <3> QED BY <2>1, <3>2, <3>5 DEF Lines
  <2>6. LinesTokens(t, k) = Append(LinesTokens(t, j) \o TokensOf(Code(t[k])), EOL)
    <3>0. PICK c \in Seq(C) : c = Code(t[k])
      <4>1. PICK l \in Seq(C) : l = t[k]
        BY <1>4
      <4>2. Code(l) \in Seq(C)
        BY LineIs
      <4> QED BY <4>1, <4>2
    <3>1. PICK m \in Nat : c = Code(t[k]) /\ m = Len(c) /\ DOMAIN c = 1..m
      BY <3>0, LenProperties
    <3>2. TokensOf(c) = TokensUpTo(c, m) /\ m \in 0..Len(c)
      BY <3>1, TokensOfIs
    <3>3. Append(a \o TokensOf(c), EOL) = a \o Append(TokensOf(c), EOL)
      BY <2>2, <2>3, <3>1, <3>2
    <3>4. PICK ss, e : ss = Lines(j) /\ e = Line(k)
      OBVIOUS
    <3>5. ss \in Seq(Seq(B)) /\ FlattenSeq(ss) = a /\ Append(ss, e) = Lines(k)
      BY <1>9, <2>1, <2>2, <2>5, <3>4
    <3>6. e \in Seq(B) /\ e = Append(TokensOf(c), EOL)
      BY <1>8, <3>1, <3>4
    <3>7. FlattenSeq(Append(ss, e)) = FlattenSeq(ss) \o e
      BY <3>5, <3>6, FlattenSeqAppend
    <3>8. LinesTokens(t, k) = FlattenSeq(Lines(k))
      BY <1>9, <2>1
    <3> QED BY <2>2, <3>1, <3>3, <3>5, <3>6, <3>7, <3>8
  <2> QED BY <2>3, <2>6
<1>12. \A k \in 1..N : \E n, m \in Nat : LineFacts(t[k], n, Code(t[k]), m)
  BY <1>4, LineIs
<1>13. \A k \in 0..N : LinesTokens(t, k) \o << >> = LinesTokens(t, k)
  BY <1>9, ConcatEmptySeq
<1> HIDE DEF Line, Lines
<1> QED BY <1>1, <1>2, <1>10, <1>11, <1>12, <1>13 DEF TextFacts
-----------------------------------------------------------------------------
(* The invariant, action by action *)

(* Inside of a line there are the facts about it and its text.              *)
LEMMA InLine ==
  ASSUME PlaceInv, lines > 0
  PROVE  /\ TextFacts(text) /\ line \in Seq(Range(line))
         /\ \E n, m \in Nat : /\ LineFacts(line, n, Code(line), m)
                              /\ n = Len(line) /\ m = Len(Code(line))
<1>0. TextFacts(text) /\ lines \in 0..Len(text)
  BY TextIs DEF PlaceInv
<1>1. TextFacts(text) /\ lines \in 1..Len(text)
  <2>1. PICK N \in Nat : N = Len(text)
    BY <1>0 DEF TextFacts
  <2> QED BY <1>0, <2>1
<1>2. line \in Seq(Range(line)) /\ \E n, m \in Nat : LineFacts(line, n, Code(line), m)
  BY <1>1 DEF TextFacts, line
<1> QED BY <1>1, <1>2 DEF LineFacts

LEMMA ConcatInLine ==
  ASSUME PlaceInv, lines > 0, NEW p \in 0..Len(Code(line)), NEW e, NEW A,
         A = LinesTokens(text, lines - 1)
  PROVE  Append(A \o TokensUpTo(Code(line), p), e) = A \o Append(TokensUpTo(Code(line), p), e)
<1>1. TextFacts(text) /\ lines \in 0..Len(text)
  BY TextIs DEF PlaceInv
<1>2. PICK N \in Nat : N = Len(text)
  BY <1>1 DEF TextFacts
<1>3. PICK k \in 1..N : k = lines /\ line = text[k]
  BY <1>1, <1>2 DEF line
<1>4. PICK j \in Nat : j = k - 1
  OBVIOUS
<1>5. \A b \in 0..Len(Code(text[k])) : \A x :
        Append(LinesTokens(text, j) \o TokensUpTo(Code(text[k]), b), x)
          = LinesTokens(text, j) \o Append(TokensUpTo(Code(text[k]), b), x)
  BY <1>1, <1>2, <1>4 DEF TextFacts
<1> QED BY <1>3, <1>4, <1>5

LEMMA StartLineKeepsInv ==
  ASSUME TokensInv, StartLine
  PROVE  TokensInv'
<1>1. PlaceInv /\ InsideInv /\ OutsideInv /\ state = "START_LINE" /\ lines > 0 /\ lines \in Nat
  BY DEF TokensInv, StartLine, PlaceInv
<1>2. PICK n, m \in Nat : LineFacts(line, n, Code(line), m) /\ n = Len(line)
  BY <1>1, InLine
<1>3. PICK l, c : l = line /\ c = Code(l)
  OBVIOUS
<1>4. PICK p, q \in Nat : p = pos /\ q = p + 1 /\ p <= n
  BY <1>1, <1>2 DEF PlaceInv
<1>5. LineFacts(l, n, c, m) /\ Ready(l, p) /\ tokbuf = << >>
  BY <1>1, <1>2, <1>3, <1>4 DEF InsideInv, PlaceInv
<1>6. PICK A : A = LinesTokens(text, lines - 1) /\ tokens = A \o TokensUpTo(c, p)
  BY <1>1, <1>3, <1>4 DEF InsideInv
<1>7. text' = text /\ lines' = lines /\ tokens' = tokens /\ tokbuf' = tokbuf
  BY DEF StartLine, LineIsOver, Keep, GoTo, Skip
<1>8. line' = l
  BY <1>3, <1>7 DEF line
<1>9. CASE AtEnd /\ LineIsOver /\ Keep
  <2>1. p = n /\ state' = "END_LINE" /\ lineno' = lineno + 1 /\ pos' = p
    BY <1>2, <1>4, <1>9 DEF AtEnd, LineIsOver, Keep
  <2>2. Offenders(l) = {} /\ TokensOf(c) = TokensUpTo(c, p)
    BY <1>4, <1>5, <2>1, LineEnds
  <2>3. PlaceInv'
    BY <1>1, <1>2, <1>3, <1>4, <1>5, <1>7, <1>8, <2>1 DEF PlaceInv, States
  <2>4. OutsideInv'
    BY <1>3, <1>6, <1>7, <1>8, <2>1, <2>2 DEF OutsideInv
  <2>5. InsideInv'
    BY <2>1 DEF InsideInv
  <2> QED BY <2>3, <2>4, <2>5 DEF TokensInv
<1>10. CASE At({Space}) /\ GoTo("START_LINE") /\ Skip
  <2>1. q <= n /\ l[q] = Space /\ pos' = q /\ state' = "START_LINE" /\ lineno' = lineno
    BY <1>2, <1>3, <1>4, <1>10 DEF At, AtEnd, GoTo, Skip
  <2>2. Ready(l, q) /\ TokensUpTo(c, q) = TokensUpTo(c, p)
    BY <1>4, <1>5, <2>1, SpaceSkipped DEF Ready
  <2>3. PlaceInv'
    BY <1>1, <1>2, <1>3, <1>4, <1>5, <1>7, <1>8, <2>1 DEF PlaceInv, States
  <2>4. OutsideInv'
    BY <2>1 DEF OutsideInv
  <2>5. InsideInv'
    BY <1>3, <1>6, <1>7, <1>8, <2>1, <2>2 DEF InsideInv
  <2> QED BY <2>3, <2>4, <2>5 DEF TokensInv
<1>11. CASE GoTo("START_TOKEN") /\ Keep
  <2>1. pos' = p /\ state' = "START_TOKEN" /\ lineno' = lineno
    BY <1>4, <1>11 DEF GoTo, Keep
  <2>3. PlaceInv'
    BY <1>1, <1>2, <1>3, <1>4, <1>5, <1>7, <1>8, <2>1 DEF PlaceInv, States
  <2>4. OutsideInv'
    BY <2>1 DEF OutsideInv
  <2>5. InsideInv'
    BY <1>3, <1>5, <1>6, <1>7, <1>8, <2>1 DEF InsideInv
  <2> QED BY <2>3, <2>4, <2>5 DEF TokensInv
<1> QED BY <1>9, <1>10, <1>11 DEF StartLine
LEMMA StartTokenKeepsInv ==
  ASSUME TokensInv, StartToken
  PROVE  TokensInv'
<1>1. PlaceInv /\ InsideInv /\ OutsideInv /\ state = "START_TOKEN" /\ lines > 0 /\ lines \in Nat
  BY DEF TokensInv, StartToken, PlaceInv
<1>2. PICK n, m \in Nat : LineFacts(line, n, Code(line), m) /\ n = Len(line)
  BY <1>1, InLine
<1>3. PICK l, c : l = line /\ c = Code(l) /\ l \in Seq(Range(l))
  BY <1>1, InLine
<1>4. PICK p, q \in Nat : p = pos /\ q = p + 1 /\ p <= n
  BY <1>1, <1>2 DEF PlaceInv
<1>5. LineFacts(l, n, c, m) /\ Ready(l, p) /\ m = Len(c)
  <2>1. LineFacts(l, n, c, m) /\ Ready(l, p)
    BY <1>1, <1>2, <1>3, <1>4 DEF InsideInv
  <2> QED BY <2>1 DEF LineFacts
<1>6. PICK A : A = LinesTokens(text, lines - 1) /\ tokens = A \o TokensUpTo(c, p)
  BY <1>1, <1>3, <1>4 DEF InsideInv
<1>7. text' = text /\ lines' = lines /\ tokens' = tokens
  BY DEF StartToken, LineIsOver, GoTo
<1>8. line' = l
  BY <1>3, <1>7 DEF line
<1>9. CASE (AtEnd \/ At({Semicolon})) /\ LineIsOver /\ Cleared /\ UNCHANGED pos
  <2>1. /\ state' = "END_LINE" /\ lineno' = lineno + 1 /\ pos' = p /\ tokbuf' = << >>
        /\ p = n \/ l[q] = Semicolon
    BY <1>2, <1>3, <1>4, <1>9 DEF AtEnd, At, LineIsOver, Cleared
  <2>2. Offenders(l) = {} /\ TokensOf(c) = TokensUpTo(c, p)
    BY <1>4, <1>5, <2>1, LineEnds
  <2>3. PlaceInv'
    BY <1>1, <1>2, <1>3, <1>4, <1>7, <1>8, <2>1 DEF PlaceInv, States
  <2>4. OutsideInv'
    BY <1>3, <1>6, <1>7, <1>8, <2>1, <2>2 DEF OutsideInv
  <2>5. InsideInv'
    BY <2>1 DEF InsideInv
  <2> QED BY <2>3, <2>4, <2>5 DEF TokensInv
<1>10. CASE At({Space}) /\ GoTo("START_TOKEN") /\ Cleared /\ pos' = pos + 1
  <2>1. q <= n /\ l[q] = Space /\ pos' = q /\ state' = "START_TOKEN" /\ lineno' = lineno
    BY <1>2, <1>3, <1>4, <1>10 DEF At, AtEnd, GoTo
  <2>2. Ready(l, q) /\ TokensUpTo(c, q) = TokensUpTo(c, p)
    BY <1>4, <1>5, <2>1, SpaceSkipped DEF Ready
  <2>3. PlaceInv'
    BY <1>1, <1>2, <1>3, <1>4, <1>7, <1>8, <2>1 DEF PlaceInv, States
  <2>4. OutsideInv'
    BY <2>1 DEF OutsideInv
  <2>5. InsideInv'
    BY <1>3, <1>6, <1>7, <1>8, <2>1, <2>2 DEF InsideInv
  <2> QED BY <2>3, <2>4, <2>5 DEF TokensInv
<1>11. CASE At(WordChars) /\ GoTo("TOKEN") /\ Cleared /\ UNCHANGED pos
  <2>1. /\ q <= n /\ l[q] \in WordChars /\ pos' = p /\ state' = "TOKEN" /\ lineno' = lineno
        /\ tokbuf' = << >>
    BY <1>2, <1>3, <1>4, <1>11 DEF At, AtEnd, GoTo, Cleared
  <2>2. InWord(l, p, q) /\ SubSeq(l, q, p) = << >>
    BY <1>3, <1>4, <1>5, <2>1, WordBegins
  <2>3. PlaceInv'
    BY <1>1, <1>2, <1>3, <1>4, <1>7, <1>8, <2>1 DEF PlaceInv, States
  <2>4. OutsideInv'
    BY <2>1 DEF OutsideInv
  <2>5. q \in 1..(pos' + 1) /\ q - 1 = p
    BY <1>4, <2>1
  <2>6. \E s \in 1..(pos' + 1) :
          /\ InWord(line', pos', s) /\ tokbuf' = SubSeq(line', s, pos')
          /\ tokens' = LinesTokens(text', lines' - 1) \o TokensUpTo(Code(line'), s - 1)
    BY <1>3, <1>6, <1>7, <1>8, <2>1, <2>2, <2>5
  <2>7. InsideInv'
    BY <2>1, <2>6 DEF InsideInv
  <2> QED BY <2>3, <2>4, <2>7 DEF TokensInv
<1>12. CASE At({Quote}) /\ GoTo("STRING_TOKEN")
            /\ tokbuf' = << line[pos + 1] >> /\ pos' = pos + 1
  <2>1. /\ q <= n /\ l[q] = Quote /\ pos' = q /\ state' = "STRING_TOKEN" /\ lineno' = lineno
        /\ tokbuf' = << l[q] >>
    BY <1>2, <1>3, <1>4, <1>12 DEF At, AtEnd, GoTo
  <2>2. InQuotes(l, q, q) /\ SubSeq(l, q, q) = << l[q] >>
    BY <1>3, <1>4, <1>5, <2>1, StringBegins
  <2>3. PlaceInv'
    BY <1>1, <1>2, <1>3, <1>4, <1>7, <1>8, <2>1 DEF PlaceInv, States
  <2>4. OutsideInv'
    BY <2>1 DEF OutsideInv
  <2>5. q \in 1..pos' /\ q - 1 = p
    BY <1>4, <2>1
  <2>6. \E s \in 1..pos' :
          /\ InQuotes(line', pos', s) /\ tokbuf' = SubSeq(line', s, pos')
          /\ tokens' = LinesTokens(text', lines' - 1) \o TokensUpTo(Code(line'), s - 1)
    BY <1>3, <1>6, <1>7, <1>8, <2>1, <2>2, <2>5
  <2>7. InsideInv'
    BY <2>1, <2>6 DEF InsideInv
  <2> QED BY <2>3, <2>4, <2>7 DEF TokensInv
<1>13. CASE At(Symbols) /\ GoTo("END_TOKEN")
            /\ tokbuf' = << line[pos + 1] >> /\ pos' = pos + 1
  <2>1. /\ q <= n /\ l[q] \in Symbols /\ pos' = q /\ state' = "END_TOKEN" /\ lineno' = lineno
        /\ tokbuf' = << l[q] >>
    BY <1>2, <1>3, <1>4, <1>13 DEF At, AtEnd, GoTo
  <2>2. Ready(l, q) /\ TokensUpTo(c, q) = Append(TokensUpTo(c, p), << l[q] >>)
    BY <1>3, <1>4, <1>5, <2>1, SymbolTaken
  <2>3. PlaceInv'
    BY <1>1, <1>2, <1>3, <1>4, <1>7, <1>8, <2>1 DEF PlaceInv, States
  <2>4. OutsideInv'
    BY <2>1 DEF OutsideInv
  <2>5. PICK e : e = << l[q] >>
    OBVIOUS
  <2>6. p \in 0..Len(c)
    BY <1>4, <1>5 DEF Ready, Between, LineFacts
  <2>7. Append(A \o TokensUpTo(c, p), e) = A \o Append(TokensUpTo(c, p), e)
    BY <1>1, <1>3, <1>6, <2>6, ConcatInLine
  <2>8. InsideInv'
    BY <1>3, <1>6, <1>7, <1>8, <2>1, <2>2, <2>5, <2>7 DEF InsideInv
  <2> QED BY <2>3, <2>4, <2>8 DEF TokensInv
<1>14. CASE ~AtEnd /\ ~At({Semicolon, Space, Quote} \cup WordChars \cup Symbols)
            /\ GoTo("THROWN") /\ Cleared /\ UNCHANGED pos
  <2>1. /\ q <= n /\ l[q] \notin {Semicolon, Space, Quote} \cup WordChars \cup Symbols
        /\ pos' = p /\ state' = "THROWN" /\ lineno' = lineno
    BY <1>2, <1>3, <1>4, <1>14 DEF At, AtEnd, GoTo
  <2>2. Clean(l, p) /\ Offends(l, q)
    BY <1>4, <1>5, <2>1, OtherOffends
  <2>3. PlaceInv'
    BY <1>1, <1>2, <1>3, <1>4, <1>7, <1>8, <2>1 DEF PlaceInv, States
  <2>4. OutsideInv'
    BY <1>4, <1>8, <2>1, <2>2 DEF OutsideInv
  <2>5. InsideInv'
    BY <2>1 DEF InsideInv
  <2> QED BY <2>3, <2>4, <2>5 DEF TokensInv
<1> QED BY <1>9, <1>10, <1>11, <1>12, <1>13, <1>14 DEF StartToken
LEMMA StringTokenKeepsInv ==
  ASSUME TokensInv, StringToken
  PROVE  TokensInv'
<1>1. PlaceInv /\ InsideInv /\ OutsideInv /\ state = "STRING_TOKEN" /\ lines > 0 /\ lines \in Nat
  BY DEF TokensInv, StringToken, PlaceInv
<1>2. PICK n, m \in Nat : LineFacts(line, n, Code(line), m) /\ n = Len(line)
  BY <1>1, InLine
<1>3. PICK l, c : l = line /\ c = Code(l) /\ l \in Seq(Range(l))
  BY <1>1, InLine
<1>4. PICK p, q \in Nat : p = pos /\ q = p + 1 /\ p <= n
  BY <1>1, <1>2 DEF PlaceInv
<1>5. LineFacts(l, n, c, m) /\ m = Len(c)
  BY <1>2, <1>3 DEF LineFacts
<1>6. PICK A : A = LinesTokens(text, lines - 1)
  OBVIOUS
<1>7. PICK s \in 1..p : /\ InQuotes(l, p, s) /\ tokbuf = SubSeq(l, s, p)
                        /\ tokens = A \o TokensUpTo(c, s - 1)
  BY <1>1, <1>3, <1>4, <1>6 DEF InsideInv
<1>8. text' = text /\ lines' = lines /\ tokens' = tokens /\ lineno' = lineno
  BY DEF StringToken, GoTo, Throw
<1>9. line' = l
  BY <1>3, <1>8 DEF line
<1>10. CASE AtEnd /\ Throw
  <2>1. p = n /\ pos' = p /\ state' = "THROWN"
    BY <1>2, <1>4, <1>10 DEF AtEnd, Throw, GoTo, Keep
  <2>2. Clean(l, p) /\ Offends(l, q)
    BY <1>4, <1>5, <1>7, <2>1, StringOffends
  <2>3. PlaceInv'
    BY <1>1, <1>2, <1>3, <1>4, <1>8, <1>9, <2>1 DEF PlaceInv, States
  <2>4. OutsideInv'
    BY <1>4, <1>9, <2>1, <2>2 DEF OutsideInv
  <2>5. InsideInv'
    BY <2>1 DEF InsideInv
  <2> QED BY <2>3, <2>4, <2>5 DEF TokensInv
<1>11. ASSUME q <= n, tokbuf' = Append(tokbuf, l[q])
       PROVE  tokbuf' = SubSeq(l, s, q) /\ s \in Nat
  <2>1. q <= Len(l) /\ s \in Nat /\ 1 <= s /\ s <= q
    BY <1>2, <1>3, <1>4, <1>11
  <2>2. SubSeq(l, s, q) = Append(SubSeq(l, s, p), l[q])
    BY <1>3, <1>4, <2>1, SubSeqNext
  <2> QED BY <1>7, <1>11, <2>1, <2>2
<1>12. CASE At({Quote}) /\ GoTo("END_TOKEN") /\ Store
  <2>1. q <= n /\ l[q] = Quote /\ pos' = q /\ state' = "END_TOKEN" /\ tokbuf' = Append(tokbuf, l[q])
    BY <1>2, <1>3, <1>4, <1>12 DEF At, AtEnd, GoTo, Store
  <2>2. PICK e : e = SubSeq(l, s, q)
    OBVIOUS
  <2>3. PICK b \in Nat : s = b + 1 /\ b = s - 1 /\ s \in Nat
    BY <1>4, <1>7
  <2>4. Ready(l, q) /\ TokensUpTo(c, q) = Append(TokensUpTo(c, b), SubSeq(l, s, q))
    BY <1>4, <1>5, <1>7, <2>1, <2>3, StringEnds
  <2>5. b \in 0..Len(c)
    <3>1. CommentAt(l) = m + 1 /\ p < CommentAt(l)
      BY <1>5, <1>7 DEF LineFacts, InQuotes
    <3> QED BY <1>5, <2>3, <3>1
  <2>6. Append(A \o TokensUpTo(c, b), e) = A \o Append(TokensUpTo(c, b), e)
    BY <1>1, <1>3, <1>6, <2>5, ConcatInLine
  <2>7. tokbuf' = e
    BY <1>11, <2>1, <2>2
  <2>8. Append(tokens', tokbuf') = A \o TokensUpTo(c, q)
    BY <1>7, <1>8, <2>2, <2>3, <2>4, <2>6, <2>7
  <2>9. PlaceInv'
    BY <1>1, <1>2, <1>3, <1>4, <1>8, <1>9, <2>1 DEF PlaceInv, States
  <2>10. OutsideInv'
    BY <2>1 DEF OutsideInv
  <2>11. InsideInv'
    BY <1>3, <1>6, <1>8, <1>9, <2>1, <2>4, <2>8 DEF InsideInv
  <2> QED BY <2>9, <2>10, <2>11 DEF TokensInv
<1>13. CASE ~AtEnd /\ ~At({Quote}) /\ GoTo("STRING_TOKEN") /\ Store
  <2>1. /\ q <= n /\ l[q] # Quote /\ pos' = q /\ state' = "STRING_TOKEN"
        /\ tokbuf' = Append(tokbuf, l[q])
    BY <1>2, <1>3, <1>4, <1>13 DEF At, AtEnd, GoTo, Store
  <2>2. InQuotes(l, q, s)
    BY <1>4, <1>5, <1>7, <2>1, StringStays
  <2>3. PlaceInv'
    BY <1>1, <1>2, <1>3, <1>4, <1>8, <1>9, <2>1 DEF PlaceInv, States
  <2>4. OutsideInv'
    BY <2>1 DEF OutsideInv
  <2>5. s \in 1..pos' /\ tokbuf' = SubSeq(l, s, q)
    BY <1>4, <1>11, <2>1
  <2>6. \E s_1 \in 1..pos' :
          /\ InQuotes(line', pos', s_1) /\ tokbuf' = SubSeq(line', s_1, pos')
          /\ tokens' = LinesTokens(text', lines' - 1) \o TokensUpTo(Code(line'), s_1 - 1)
    BY <1>3, <1>6, <1>7, <1>8, <1>9, <2>1, <2>2, <2>5
  <2>7. InsideInv'
    BY <2>1, <2>6 DEF InsideInv
  <2> QED BY <2>3, <2>4, <2>7 DEF TokensInv
<1> QED BY <1>10, <1>12, <1>13 DEF StringToken

LEMMA InTokenKeepsInv ==
  ASSUME TokensInv, InToken
  PROVE  TokensInv'
<1>1. PlaceInv /\ InsideInv /\ OutsideInv /\ state = "TOKEN" /\ lines > 0 /\ lines \in Nat
  BY DEF TokensInv, InToken, PlaceInv
<1>2. PICK n, m \in Nat : LineFacts(line, n, Code(line), m) /\ n = Len(line)
  BY <1>1, InLine
<1>3. PICK l, c : l = line /\ c = Code(l) /\ l \in Seq(Range(l))
  BY <1>1, InLine
<1>4. PICK p, q \in Nat : p = pos /\ q = p + 1 /\ p <= n
  BY <1>1, <1>2 DEF PlaceInv
<1>5. LineFacts(l, n, c, m) /\ m = Len(c)
  BY <1>2, <1>3 DEF LineFacts
<1>6. PICK A : A = LinesTokens(text, lines - 1)
  OBVIOUS
<1>7. PICK s \in 1..q : /\ InWord(l, p, s) /\ tokbuf = SubSeq(l, s, p)
                        /\ tokens = A \o TokensUpTo(c, s - 1)
  BY <1>1, <1>3, <1>4, <1>6 DEF InsideInv
<1>8. text' = text /\ lines' = lines /\ tokens' = tokens /\ lineno' = lineno
  BY DEF InToken, GoTo, Throw
<1>9. line' = l
  BY <1>3, <1>8 DEF line
<1>10. Between(l, p)
  BY <1>7 DEF InWord
(* The word is over: what it adds to the tokens.                            *)
<1>11. ASSUME p = n \/ l[q] \notin WordChars
       PROVE  Append(tokens, tokbuf) = A \o TokensUpTo(c, p)
  <2>1. PICK e : e = SubSeq(l, s, p)
    OBVIOUS
  <2>2. PICK b \in Nat : s = b + 1 /\ b = s - 1 /\ s \in Nat
    BY <1>4, <1>7
  <2>3. TokensUpTo(c, p) = Append(TokensUpTo(c, b), SubSeq(l, s, p))
    BY <1>4, <1>5, <1>7, <1>11, <2>2, WordEnds
  <2>4. b \in 0..Len(c)
    <3>1. CommentAt(l) = m + 1 /\ s < CommentAt(l)
      BY <1>5, <1>7 DEF LineFacts, InWord
    <3> QED BY <1>5, <2>2, <3>1
  <2>5. Append(A \o TokensUpTo(c, b), e) = A \o Append(TokensUpTo(c, b), e)
    BY <1>1, <1>3, <1>6, <2>4, ConcatInLine
  <2> QED BY <1>7, <2>1, <2>2, <2>3, <2>5
<1>12. CASE (AtEnd \/ At(EndsWord)) /\ GoTo("END_TOKEN") /\ Keep
  <2>1. /\ p = n \/ (p # n /\ l[q] \in EndsWord)
        /\ pos' = p /\ state' = "END_TOKEN" /\ tokbuf' = tokbuf
    BY <1>2, <1>3, <1>4, <1>12 DEF At, AtEnd, GoTo, Keep
  <2>2. p = n \/ l[q] \notin WordChars
    BY <2>1, CharacterFacts
  <2>3. Append(tokens, tokbuf) = A \o TokensUpTo(c, p)
    BY <1>11, <2>2
  <2>4. Ready(l, p)
    BY <1>2, <1>3, <1>4, <1>10, <2>1 DEF Ready
  <2>5. PlaceInv'
    BY <1>1, <1>2, <1>3, <1>4, <1>8, <1>9, <2>1 DEF PlaceInv, States
  <2>6. OutsideInv'
    BY <2>1 DEF OutsideInv
  <2>7. InsideInv'
    BY <1>3, <1>6, <1>8, <1>9, <2>1, <2>3, <2>4 DEF InsideInv
  <2> QED BY <2>5, <2>6, <2>7 DEF TokensInv
<1>13. CASE At({Space}) /\ GoTo("END_TOKEN") /\ Skip
  <2>1. q <= n /\ l[q] = Space /\ pos' = q /\ state' = "END_TOKEN" /\ tokbuf' = tokbuf
    BY <1>2, <1>3, <1>4, <1>13 DEF At, AtEnd, GoTo, Skip
  <2>2. l[q] \notin WordChars
    BY <2>1, CharacterFacts
  <2>3. Append(tokens, tokbuf) = A \o TokensUpTo(c, p)
    BY <1>11, <2>2
  <2>4. Ready(l, q) /\ TokensUpTo(c, q) = TokensUpTo(c, p)
    BY <1>4, <1>5, <1>10, <2>1, SpaceSkipped
  <2>5. PlaceInv'
    BY <1>1, <1>2, <1>3, <1>4, <1>8, <1>9, <2>1 DEF PlaceInv, States
  <2>6. OutsideInv'
    BY <2>1 DEF OutsideInv
  <2>7. InsideInv'
    BY <1>3, <1>6, <1>8, <1>9, <2>1, <2>3, <2>4 DEF InsideInv
  <2> QED BY <2>5, <2>6, <2>7 DEF TokensInv
<1>14. CASE At(WordChars) /\ GoTo("TOKEN") /\ Store
  <2>1. /\ q <= n /\ l[q] \in WordChars /\ pos' = q /\ state' = "TOKEN"
        /\ tokbuf' = Append(tokbuf, l[q])
    BY <1>2, <1>3, <1>4, <1>14 DEF At, AtEnd, GoTo, Store
  <2>2. InWord(l, q, s)
    BY <1>4, <1>5, <1>7, <2>1, WordGoesOn
  <2>3. tokbuf' = SubSeq(l, s, q)
    <3>1. q <= Len(l) /\ s \in Nat /\ 1 <= s /\ s <= q
      BY <1>2, <1>3, <1>4, <2>1
    <3>2. SubSeq(l, s, q) = Append(SubSeq(l, s, p), l[q])
      BY <1>3, <1>4, <3>1, SubSeqNext
    <3> QED BY <1>7, <2>1, <3>2
  <2>4. PlaceInv'
    BY <1>1, <1>2, <1>3, <1>4, <1>8, <1>9, <2>1 DEF PlaceInv, States
  <2>5. OutsideInv'
    BY <2>1 DEF OutsideInv
  <2>6. s \in 1..(pos' + 1)
    BY <1>4, <2>1
  <2>7. \E s_1 \in 1..(pos' + 1) :
          /\ InWord(line', pos', s_1) /\ tokbuf' = SubSeq(line', s_1, pos')
          /\ tokens' = LinesTokens(text', lines' - 1) \o TokensUpTo(Code(line'), s_1 - 1)
    BY <1>3, <1>6, <1>7, <1>8, <1>9, <2>1, <2>2, <2>3, <2>6
  <2>8. InsideInv'
    BY <2>1, <2>7 DEF InsideInv
  <2> QED BY <2>4, <2>5, <2>8 DEF TokensInv
<1>15. CASE ~AtEnd /\ ~At({Space} \cup EndsWord \cup WordChars) /\ Throw
  <2>1. /\ q <= n /\ l[q] \notin {Space} \cup EndsWord \cup WordChars
        /\ pos' = p /\ state' = "THROWN"
    BY <1>2, <1>3, <1>4, <1>15 DEF At, AtEnd, Throw, GoTo, Keep
  <2>2. Clean(l, p) /\ Offends(l, q)
    BY <1>4, <1>5, <1>7, <2>1, WordOffends
  <2>3. PlaceInv'
    BY <1>1, <1>2, <1>3, <1>4, <1>8, <1>9, <2>1 DEF PlaceInv, States
  <2>4. OutsideInv'
    BY <1>4, <1>9, <2>1, <2>2 DEF OutsideInv
  <2>5. InsideInv'
    BY <2>1 DEF InsideInv
  <2> QED BY <2>3, <2>4, <2>5 DEF TokensInv
<1> QED BY <1>12, <1>13, <1>14, <1>15 DEF InToken

LEMMA EndTokenKeepsInv ==
  ASSUME TokensInv, EndToken
  PROVE  TokensInv'
<1>1. PlaceInv /\ InsideInv /\ state = "END_TOKEN"
  BY DEF TokensInv, EndToken
<1>2. /\ tokens' = Append(tokens, tokbuf) /\ tokbuf' = << >> /\ state' = "START_TOKEN"
      /\ text' = text /\ lines' = lines /\ pos' = pos /\ lineno' = lineno
  BY DEF EndToken
<1>3. line' = line
  BY <1>2 DEF line
<1>4. PlaceInv'
  BY <1>1, <1>2, <1>3 DEF PlaceInv, States
<1>5. OutsideInv'
  BY <1>2 DEF OutsideInv
<1>6. InsideInv'
  BY <1>1, <1>2, <1>3 DEF InsideInv
<1> QED BY <1>4, <1>5, <1>6 DEF TokensInv

LEMMA EndLineKeepsInv ==
  ASSUME TokensInv, EndLine
  PROVE  TokensInv'
<1>1. PlaceInv /\ OutsideInv /\ state = "END_LINE" /\ lines > 0
  BY DEF TokensInv, EndLine, PlaceInv
<1>2. /\ tokens' = Append(tokens, EOL) /\ state' = "READ"
      /\ text' = text /\ lines' = lines /\ pos' = pos /\ tokbuf' = tokbuf /\ lineno' = lineno
  BY DEF EndLine
<1>3. line' = line
  BY <1>2 DEF line
<1>4. PlaceInv'
  BY <1>1, <1>2, <1>3 DEF PlaceInv, States
<1>5. LinesTokens(text, lines) = Append(LinesTokens(text, lines - 1) \o TokensOf(Code(line)), EOL)
  <2>1. TextFacts(text) /\ lines \in 0..Len(text)
    BY <1>1, TextIs DEF PlaceInv
  <2>2. PICK N \in Nat : N = Len(text)
    BY <2>1 DEF TextFacts
  <2>3. PICK k \in 1..N : k = lines /\ line = text[k]
    BY <1>1, <2>1, <2>2 DEF line
  <2>4. PICK j \in Nat : j = k - 1
    OBVIOUS
  <2>5. LinesTokens(text, k) = Append(LinesTokens(text, j) \o TokensOf(Code(text[k])), EOL)
    BY <2>1, <2>2, <2>4 DEF TextFacts
  <2> QED BY <2>3, <2>4, <2>5
<1>6. tokens' = LinesTokens(text, lines)
  BY <1>1, <1>2, <1>5 DEF OutsideInv
<1>7. OutsideInv'
  BY <1>2, <1>6 DEF OutsideInv
<1>8. InsideInv'
  BY <1>2 DEF InsideInv
<1> QED BY <1>4, <1>7, <1>8 DEF TokensInv

LEMMA GetLineKeepsInv ==
  ASSUME TokensInv, GetLine
  PROVE  TokensInv'
<1>1. PlaceInv /\ OutsideInv /\ state = "READ" /\ lines < Len(text)
  BY DEF TokensInv, GetLine
<1>2. /\ lines' = lines + 1 /\ state' = "START_LINE" /\ pos' = 0
      /\ text' = text /\ tokbuf' = tokbuf /\ tokens' = tokens /\ lineno' = lineno
  BY DEF GetLine
<1>3. TextFacts(text) /\ lines \in 0..Len(text)
  BY <1>1, TextIs DEF PlaceInv
<1>4. PICK N \in Nat : N = Len(text)
  BY <1>3 DEF TextFacts
<1>5. PICK j \in Nat, k \in 1..N : j = lines /\ k = lines' /\ j = k - 1
  BY <1>1, <1>2, <1>3, <1>4
<1>6. PICK l, c : l = text[k] /\ c = Code(l)
  OBVIOUS
<1>7. line' = l
  BY <1>2, <1>5, <1>6 DEF line
<1>8. PICK n, m \in Nat : LineFacts(l, n, c, m) /\ n = Len(l) /\ m = Len(c)
  <2>1. \E n, m \in Nat : LineFacts(l, n, c, m)
    BY <1>3, <1>4, <1>6 DEF TextFacts
  <2> QED BY <2>1 DEF LineFacts
<1>9. Ready(l, 0) /\ TokensUpTo(c, 0) = << >>
  BY <1>8, LineBegins
<1>10. tokens = LinesTokens(text, j)
  BY <1>1, <1>5 DEF OutsideInv
<1>11. LinesTokens(text, j) \o << >> = LinesTokens(text, j)
  BY <1>3, <1>4, <1>5 DEF TextFacts
<1>12. PlaceInv'
  BY <1>1, <1>2, <1>3, <1>4, <1>5, <1>7, <1>8 DEF PlaceInv, States
<1>13. OutsideInv'
  BY <1>2 DEF OutsideInv
<1>14. tokens' = LinesTokens(text', lines' - 1) \o TokensUpTo(Code(line'), pos')
  BY <1>2, <1>5, <1>6, <1>7, <1>9, <1>10, <1>11
<1>15. InsideInv'
  BY <1>2, <1>7, <1>9, <1>14 DEF InsideInv
<1> QED BY <1>12, <1>13, <1>15 DEF TokensInv

LEMMA EndOfInputKeepsInv ==
  ASSUME TokensInv, EndOfInput
  PROVE  TokensInv'
<1>1. PlaceInv /\ OutsideInv /\ state = "READ"
  BY DEF TokensInv, EndOfInput
<1>2. /\ tokens' = Append(tokens, EOF) /\ state' = "DONE"
      /\ text' = text /\ lines' = lines /\ pos' = pos /\ tokbuf' = tokbuf /\ lineno' = lineno
  BY DEF EndOfInput
<1>3. line' = line
  BY <1>2 DEF line
<1>4. PlaceInv'
  BY <1>1, <1>2, <1>3 DEF PlaceInv, States
<1>5. tokens' = LinesTokens(text, lines) \o << EOF >>
  <2>1. PICK A : A = LinesTokens(text, lines) /\ tokens = A
    BY <1>1 DEF OutsideInv
  <2> QED BY <1>2, <2>1
<1>6. OutsideInv'
  BY <1>2, <1>5 DEF OutsideInv
<1>7. InsideInv'
  BY <1>2 DEF InsideInv
<1> QED BY <1>4, <1>6, <1>7 DEF TokensInv

LEMMA TokensInvInit == Init => TokensInv
<1> SUFFICES ASSUME Init PROVE TokensInv
  OBVIOUS
<1>1. /\ text \in Texts /\ lines = 0 /\ state = "READ" /\ pos = 0
      /\ tokbuf = << >> /\ tokens = << >> /\ lineno = 0
  BY DEF Init
<1>2. Len(text) \in Nat /\ LinesTokens(text, 0) = << >>
  BY <1>1, TextIs DEF TextFacts
<1>3. PlaceInv
  BY <1>1, <1>2 DEF PlaceInv, States
<1>4. OutsideInv
  BY <1>1, <1>2 DEF OutsideInv
<1>5. InsideInv
  BY <1>1 DEF InsideInv
<1> QED BY <1>3, <1>4, <1>5 DEF TokensInv

LEMMA TokensInvNext == TokensInv /\ [Next]_vars => TokensInv'
<1> SUFFICES ASSUME TokensInv, [Next]_vars PROVE TokensInv'
  OBVIOUS
<1>1. CASE GetLine
  BY <1>1, GetLineKeepsInv
<1>2. CASE EndOfInput
  BY <1>2, EndOfInputKeepsInv
<1>3. CASE StartLine
  BY <1>3, StartLineKeepsInv
<1>4. CASE StartToken
  BY <1>4, StartTokenKeepsInv
<1>5. CASE StringToken
  BY <1>5, StringTokenKeepsInv
<1>6. CASE InToken
  BY <1>6, InTokenKeepsInv
<1>7. CASE EndToken
  BY <1>7, EndTokenKeepsInv
<1>8. CASE EndLine
  BY <1>8, EndLineKeepsInv
<1>9. CASE UNCHANGED vars
  <2>1. /\ text' = text /\ lines' = lines /\ state' = state /\ pos' = pos
        /\ tokbuf' = tokbuf /\ tokens' = tokens /\ lineno' = lineno
    BY <1>9 DEF vars
  <2>2. line' = line
    BY <2>1 DEF line
  <2>3. PlaceInv'
    BY <2>1, <2>2 DEF TokensInv, PlaceInv
  <2>4. OutsideInv'
    BY <2>1, <2>2 DEF TokensInv, OutsideInv
  <2>5. InsideInv'
    BY <2>1, <2>2 DEF TokensInv, InsideInv
  <2> QED BY <2>3, <2>4, <2>5 DEF TokensInv
<1> QED BY <1>1, <1>2, <1>3, <1>4, <1>5, <1>6, <1>7, <1>8, <1>9 DEF Next

LEMMA TokensInvCorrect == Spec => []TokensInv
BY TokensInvInit, TokensInvNext, PTL DEF Spec

-----------------------------------------------------------------------------

(* The loop stays inside of its line and its text, and a token is begun with *)
(* an empty buffer (tokenizer.cpp:34-139).                                  *)
THEOREM TokenizerTypeCorrect == Spec => []TokenizerTypeOK
<1>1. TokensInv => TokenizerTypeOK
  <2> SUFFICES ASSUME TokensInv PROVE TokenizerTypeOK
    OBVIOUS
  <2>1. TextFacts(text)
    BY TextIs DEF TokensInv, PlaceInv
  <2>2. PICK N \in Nat : N = Len(text)
    BY <2>1 DEF TextFacts
  <2>3. lineno \in 0..N
    BY <2>2 DEF TokensInv, PlaceInv
  <2> QED BY <2>2, <2>3 DEF TokensInv, PlaceInv, TokenizerTypeOK
<1> QED BY <1>1, TokensInvCorrect, PTL

LEMMA TokensTrueInv == TokensInv => TokensTrue
<1> SUFFICES ASSUME TokensInv, state \in {"READ", "DONE"}
             PROVE  tokens = LinesTokens(text, lines)
                               \o (IF state = "DONE" THEN << EOF >> ELSE << >>)
  BY DEF TokensTrue, LinesTokens
<1>1. CASE state = "DONE"
  BY <1>1 DEF TokensInv, OutsideInv
<1>2. CASE state = "READ"
  <2>1. tokens = LinesTokens(text, lines) /\ TextFacts(text) /\ lines \in 0..Len(text)
    BY <1>2, TextIs DEF TokensInv, OutsideInv, PlaceInv
  <2>2. LinesTokens(text, lines) \o << >> = LinesTokens(text, lines)
    BY <2>1 DEF TextFacts
  <2> QED BY <1>2, <2>1, <2>2
<1> QED BY <1>1, <1>2

(* The token list is that of the lines, one after the other, whatever the   *)
(* lines hold: the machine never loses, joins, splits or moves a token      *)
(* (tokenizer.cpp:34-139).                                                  *)
THEOREM TokensTrueCorrect == Spec => []TokensTrue
BY TokensTrueInv, TokensInvCorrect, PTL

LEMMA ErrorsTrueInv == TokensInv => ErrorsTrue
<1> SUFFICES ASSUME TokensInv PROVE ErrorsTrue
  OBVIOUS
<1>1. ASSUME state = "END_LINE" PROVE lineno = lines /\ Offenders(line) = {}
  BY <1>1 DEF TokensInv, PlaceInv, OutsideInv
<1>2. ASSUME state = "THROWN"
      PROVE  lineno = lines - 1 /\ Offends(line, pos + 1) /\ pos + 1 = Min(Offenders(line))
  <2>1. /\ PlaceInv /\ lines > 0 /\ lineno = lines - 1
        /\ Clean(line, pos) /\ Offends(line, pos + 1) /\ pos \in Nat /\ pos <= Len(line)
    BY <1>2 DEF TokensInv, PlaceInv, OutsideInv
  <2>2. PICK n \in Nat : n = Len(line)
    BY <2>1, InLine
  <2>0. PICK l : l = line
    OBVIOUS
  <2>3. PICK p, q \in Nat : l = line /\ p = pos /\ q = pos + 1 /\ q = p + 1
    BY <2>0, <2>1
  <2>4. PICK S : S = Offenders(l)
    OBVIOUS
  <2>5. S \subseteq Nat /\ q \in S
    BY <2>1, <2>2, <2>3, <2>4 DEF Offenders
  <2>6. \A i \in S : q <= i
    <3> SUFFICES ASSUME NEW i \in S, i <= p PROVE FALSE
      BY <2>3, <2>5
    <3>1. i \in 1..p /\ Offends(l, i)
      BY <2>4 DEF Offenders
    <3> QED BY <2>1, <2>3, <3>1 DEF Clean
  <2>7. Min(S) = q
    BY <2>5, <2>6, MinIs
  <2> QED BY <2>1, <2>3, <2>4, <2>7
<1> QED BY <1>1, <1>2 DEF ErrorsTrue

(* A line is given up at its first wrong character and nowhere else, and a   *)
(* line that ends has none (tokenizer.cpp:82-91, 120-124).                  *)
THEOREM ErrorsTrueCorrect == Spec => []ErrorsTrue
BY ErrorsTrueInv, TokensInvCorrect, PTL

=============================================================================
