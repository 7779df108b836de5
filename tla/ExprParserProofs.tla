-------------------------- MODULE ExprParserProofs --------------------------
(* Theorems about the expression parser and its token stream, for every text *)
(* and both modes: what the stream keeps in order, that statements advance,  *)
(* that the operator stack builds trees with the layers of bin_layers, that  *)
(* an expression ends only where nothing can continue it, and that no token  *)
(* or comment is dropped or taken twice.                                     *)
(*                                                                           *)
(* The invariants: SInv of the stream and the call stack, AInv of the number *)
(* of statements, PInv of the trees and operator stacks of all frames, TInv  *)
(* of the token at the cursor behind an expression, NInv of the row of nodes *)
(* that all frames hold: it spells the tokens read.                          *)
EXTENDS ExprParser, WellFoundedInduction, SequenceTheorems, TLAPS

\* A set of numbers that has 0 and every successor has all numbers.
LEMMA NatSet ==
  ASSUME NEW S \in SUBSET Nat, 0 \in S, \A n \in S : n + 1 \in S
  PROVE  \A n \in Nat : n \in S
  <1> DEFINE T == Nat \ S
  <1>1. SUFFICES ASSUME T # {} PROVE FALSE
    OBVIOUS
  <1>2. PICK x \in T : \A y \in T : ~(<<y, x>> \in OpToRel(<, Nat))
    BY <1>1, WFMin, NatLessThanWellFounded
  <1>3. \A y \in T : ~(y < x)
    BY <1>2 DEF OpToRel
  <1>4. x # 0 /\ x - 1 \in Nat /\ x - 1 < x /\ (x - 1) + 1 = x
    OBVIOUS
  <1> QED BY <1>3, <1>4

\* A set of numbers has a least one.
LEMMA Least ==
  ASSUME NEW T \in SUBSET Nat, T # {}
  PROVE  \E x \in T : \A y \in T : x <= y
  <1>1. PICK x \in T : \A y \in T : ~(<<y, x>> \in OpToRel(<, Nat))
    BY WFMin, NatLessThanWellFounded
  <1>2. \A y \in T : ~(y < x)
    BY <1>1 DEF OpToRel
  <1> QED BY <1>2

-----------------------------------------------------------------------------
(* The lexer makes one token of one lexeme or more. *)

Tags == {"space", "line", "indent", "comment", "ident", "punct", "regex_literal", "partial_regex_literal"}
Texts == Lexemes \cup {NoText}
Tokens ==
  {tok \in [tag : Tags, text : Texts, from : Nat, to : Nat] :
     /\ tok.tag \in Blank => tok.text \in {Space, Line, Hash}
     /\ tok.tag = "punct" => tok.text \notin {Word, NoText}}

LEMMA TokenIs ==
  ASSUME NEW tag \in Tags, NEW text \in Texts, NEW i \in Nat, NEW j \in Nat,
         tag \in Blank => text \in {Space, Line, Hash},
         tag = "punct" => text \notin {Word, NoText}
  PROVE  /\ Token(tag, text, i, j) \in Tokens
         /\ Token(tag, text, i, j).from = i /\ Token(tag, text, i, j).to = j
         /\ Token(tag, text, i, j).tag = tag /\ Token(tag, text, i, j).text = text
  BY DEF Token, Tokens

LEMMA LineEndIs ==
  ASSUME NEW input \in Seq(Lexemes), NEW i \in 1 .. Len(input), input[i] # Line
  PROVE  LineEnd(input, i) \in i .. Len(input)
  <1> DEFINE Ends == {j \in i .. Len(input) : j = Len(input) \/ input[j + 1] = Line}
  <1>0. Len(input) \in Nat
    OBVIOUS
  <1>1. Len(input) \in Ends /\ Ends \in SUBSET Nat
    BY <1>0
  <1>2. PICK j \in Ends : \A l \in Ends : j <= l
    BY <1>1, Least
  <1> DEFINE Before == {l \in i .. j : input[l] = Line}
  <1>3. Before = {}
    <2>1. ASSUME NEW l \in Before PROVE FALSE
      <3>1. l # i /\ l - 1 \in i .. Len(input) /\ (l - 1) + 1 = l
        BY <1>0, <2>1
      <3>2. l - 1 \in Ends
        BY <2>1, <3>1
      <3>3. j <= l - 1
        BY <1>2, <3>2
      <3>4. l <= j /\ l \in Nat /\ j \in Nat
        BY <1>0, <2>1
      <3> QED BY <3>3, <3>4
    <2> QED BY <2>1
  <1>4. \E l \in i .. Len(input) : /\ l = Len(input) \/ input[l + 1] = Line
                                   /\ \A k \in i .. l : input[k] # Line
    BY <1>2, <1>3
  <1> QED BY <1>4 DEF LineEnd

LEMMA ParseOneIs ==
  ASSUME NEW input \in Seq(Lexemes), NEW i \in 1 .. Len(input), NEW regexMode
  PROVE  /\ ParseOne(input, i, regexMode) \in Tokens
         /\ ParseOne(input, i, regexMode).from = i
         /\ ParseOne(input, i, regexMode).to \in i .. Len(input)
  <1>0. /\ Len(input) \in Nat /\ i \in Nat /\ i <= Len(input)
        /\ NoText \in Texts /\ input[i] \in Texts
    <2>1. input[i] \in Lexemes
      OBVIOUS
    <2>2. input[i] \in Texts
      BY <2>1, Zenon DEF Texts
    <2>3. NoText \in Texts
      BY DEF Texts
    <2> QED BY <2>2, <2>3
  <1>a. /\ "regex_literal" \in Tags /\ "partial_regex_literal" \in Tags
        /\ "regex_literal" \notin Blank /\ "partial_regex_literal" \notin Blank
    BY DEF Tags, Blank
  <1>1. CASE regexMode /\ input[i] = "/"
    <2>1. LineEnd(input, i) \in i .. Len(input)
      BY <1>1, LineEndIs DEF Line
    <2>a. LineEnd(input, i) \in Nat /\ i \in Nat
      BY <1>0, <2>1
    <2> DEFINE closing == {j \in i + 2 .. LineEnd(input, i) : input[j] = "/"}
    <2>2. CASE closing = {}
      <3>1. ParseOne(input, i, regexMode)
              = Token("partial_regex_literal", NoText, i, LineEnd(input, i))
        BY <1>1, <2>2 DEF ParseOne, Regex
      <3> QED BY <1>0, <2>1, <3>1, <1>a, TokenIs
    <2>3. CASE closing # {}
      <3>1. closing \in SUBSET Nat
        BY <2>a
      <3>2. \E j \in closing : \A k \in closing : j <= k
        BY <2>3, <3>1, Least
      <3> DEFINE c == CHOOSE j \in closing : \A k \in closing : j <= k
      <3>3. c \in closing
        BY <3>2
      <3>4. Regex(input, i) = Token("regex_literal", NoText, i, c)
        BY <2>3 DEF Regex
      <3>5. c \in i .. Len(input) /\ c \in Nat
        BY <1>0, <2>1, <2>a, <3>3
      <3>6. ParseOne(input, i, regexMode) = Token("regex_literal", NoText, i, c)
        BY <1>1, <3>4 DEF ParseOne
      <3> HIDE DEF c
      <3> QED BY <1>0, <3>5, <3>6, <1>a, TokenIs
    <2> QED BY <2>2, <2>3
  <1>2. CASE ~(regexMode /\ input[i] = "/")
    <2>1. ParseOne(input, i, regexMode) = Token(TagOf(input, i), input[i], i, i)
      BY <1>2 DEF ParseOne
    <2>2. TagOf(input, i) \in Tags
      BY DEF TagOf, Tags
    <2>3. TagOf(input, i) \in Blank => input[i] \in {Space, Line, Hash}
      BY DEF TagOf, Blank
    <2>4. TagOf(input, i) = "punct" => input[i] \notin {Word, NoText}
      <3>1. input[i] \in Lexemes /\ NoText \notin Lexemes
        BY SourcesAssumption
      <3>2. input[i] = Word => TagOf(input, i) = "ident"
        BY DEF TagOf, Word, Space, Line, Hash
      <3> QED BY <3>1, <3>2
    <2> QED BY <1>0, <2>1, <2>2, <2>3, <2>4, TokenIs
  <1> QED BY <1>1, <1>2

-----------------------------------------------------------------------------
(* The stream: `begin', the cursor and the place of the last recovery are in *)
(* the list, and lexing only adds to its end.                                *)

Streams ==
  [input : Seq(Lexemes), tokens : Seq(Tokens), begin : Nat, cur : Nat, lastSkip : Nat,
   prevSkip : Nat, regexMode : BOOLEAN, comments : Seq(Nat)]

StreamOK(t) ==
  /\ t \in Streams
  /\ Lexed(t) \in Nat /\ Len(t.tokens) <= Lexed(t) /\ Lexed(t) <= Len(t.input)
  /\ t.begin \in 1 .. End(t) /\ t.cur \in t.begin .. End(t)
  /\ t.prevSkip # None => t.prevSkip \in t.begin .. t.cur

SkipOK(t) ==
  t.lastSkip # None =>
    /\ t.lastSkip \in t.begin .. t.cur - 1
    /\ t.prevSkip # None => t.prevSkip <= t.lastSkip

\* The token at the cursor has been lexed, or there is none.
Parsed(t) == t.cur # End(t) \/ Lexed(t) = Len(t.input)

\* u is t after some lexing and moves of the cursor.
Later(t, u) ==
  /\ u.input = t.input /\ u.begin = t.begin /\ u.prevSkip = t.prevSkip
  /\ u.regexMode = t.regexMode
  /\ Len(t.tokens) <= Len(u.tokens)
  /\ \A i \in 1 .. Len(t.tokens) : u.tokens[i] = t.tokens[i]

LEMMA StreamTypes ==
  ASSUME NEW t, StreamOK(t)
  PROVE  /\ t.tokens \in Seq(Tokens) /\ t.input \in Seq(Lexemes) /\ t.comments \in Seq(Nat)
         /\ Len(t.tokens) \in Nat /\ Len(t.input) \in Nat /\ End(t) = Len(t.tokens) + 1
         /\ t.begin \in Nat /\ t.cur \in Nat /\ t.lastSkip \in Nat /\ t.prevSkip \in Nat
         /\ t.regexMode \in BOOLEAN
         /\ 1 <= t.begin /\ t.begin <= t.cur /\ t.cur <= Len(t.tokens) + 1
  BY DEF StreamOK, Streams, End

LEMMA LaterTrans ==
  ASSUME NEW t, NEW u, NEW v, StreamOK(t), StreamOK(u), StreamOK(v), Later(t, u), Later(u, v)
  PROVE  Later(t, v)
  <1>1. Len(t.tokens) \in Nat /\ Len(u.tokens) \in Nat /\ Len(v.tokens) \in Nat
    BY StreamTypes
  <1>2. ASSUME NEW i \in 1 .. Len(t.tokens) PROVE v.tokens[i] = t.tokens[i]
    <2>1. i \in 1 .. Len(u.tokens)
      BY <1>1 DEF Later
    <2> QED BY <2>1 DEF Later
  <1> QED BY <1>1, <1>2 DEF Later

LEMMA MaybeParseSame ==
  ASSUME NEW t, Parsed(t)
  PROVE  MaybeParse(t) = t
  BY DEF Parsed, MaybeParse

\* One token is lexed.
LEMMA MaybeParseMore ==
  ASSUME NEW t, StreamOK(t), ~Parsed(t)
  PROVE  /\ StreamOK(MaybeParse(t)) /\ Later(t, MaybeParse(t)) /\ Parsed(MaybeParse(t))
         /\ MaybeParse(t).cur = t.cur /\ MaybeParse(t).lastSkip = t.lastSkip
         /\ t.cur <= Len(MaybeParse(t).tokens)
  <1> DEFINE tok == ParseOne(t.input, Lexed(t) + 1, t.regexMode)
             com == IF tok.tag = "comment" THEN Append(t.comments, tok.from) ELSE t.comments
             u   == MaybeParse(t)
  <1>0. /\ t.tokens \in Seq(Tokens) /\ t.input \in Seq(Lexemes) /\ t.comments \in Seq(Nat)
        /\ t.cur \in Nat /\ t.cur = Len(t.tokens) + 1
    BY StreamTypes DEF Parsed
  <1>1. /\ tok \in Tokens /\ tok.from = Lexed(t) + 1 /\ tok.to \in Nat
        /\ tok.to >= Lexed(t) + 1 /\ tok.to <= Len(t.input)
    <2>1. Lexed(t) + 1 \in 1 .. Len(t.input)
      BY <1>0 DEF StreamOK, Parsed
    <2>2. /\ tok \in Tokens /\ tok.from = Lexed(t) + 1
          /\ tok.to \in Lexed(t) + 1 .. Len(t.input)
      BY <1>0, <2>1, ParseOneIs
    <2> QED BY <1>0, <2>1, <2>2 DEF Tokens
  <1>2. u = [t EXCEPT !.tokens = Append(@, tok), !.comments = com]
    BY DEF MaybeParse, Parsed
  <1>3. com \in Seq(Nat)
    BY <1>0, <1>1 DEF Tokens
  <1> HIDE DEF com, tok
  <1>4. /\ Append(t.tokens, tok) \in Seq(Tokens) /\ Len(Append(t.tokens, tok)) = Len(t.tokens) + 1
        /\ \A i \in 1 .. Len(t.tokens) : Append(t.tokens, tok)[i] = t.tokens[i]
        /\ Append(t.tokens, tok)[Len(t.tokens) + 1] = tok
    BY <1>0, <1>1
  <1>5. /\ u \in Streams /\ u.tokens = Append(t.tokens, tok) /\ u.input = t.input
        /\ u.begin = t.begin /\ u.cur = t.cur /\ u.lastSkip = t.lastSkip
        /\ u.prevSkip = t.prevSkip /\ u.regexMode = t.regexMode
    BY <1>2, <1>3, <1>4 DEF StreamOK, Streams
  <1> HIDE DEF u
  <1>6. Lexed(u) = tok.to
    <2>1. u.tokens # <<>> /\ Last(u.tokens) = tok
      BY <1>0, <1>4, <1>5 DEF Last
    <2> QED BY <2>1 DEF Lexed
  <1>7. StreamOK(u)
    BY <1>0, <1>1, <1>4, <1>5, <1>6 DEF StreamOK, End
  <1>8. Later(t, u)
    BY <1>0, <1>4, <1>5 DEF Later
  <1>9. Parsed(u) /\ t.cur <= Len(u.tokens)
    BY <1>0, <1>4, <1>5 DEF Parsed, End
  <1> QED BY <1>5, <1>7, <1>8, <1>9 DEF u

LEMMA MaybeParseIs ==
  ASSUME NEW t, StreamOK(t)
  PROVE  /\ StreamOK(MaybeParse(t)) /\ Later(t, MaybeParse(t)) /\ Parsed(MaybeParse(t))
         /\ MaybeParse(t).cur = t.cur /\ MaybeParse(t).lastSkip = t.lastSkip
         /\ Eos(MaybeParse(t)) <=> Eos(t)
         /\ Cur(MaybeParse(t)) = Cur(t)
         /\ ~Eos(t) => /\ t.cur <= Len(MaybeParse(t).tokens)
                       /\ Cur(t) = MaybeParse(t).tokens[t.cur] /\ Cur(t) \in Tokens
  <1>1. CASE Parsed(t)
    <2>1. MaybeParse(t) = t
      BY <1>1, MaybeParseSame
    <2>2. Later(t, t)
      BY StreamTypes DEF Later
    <2>3. ~Eos(t) => t.cur <= Len(t.tokens)
      BY <1>1, StreamTypes DEF Eos, Parsed
    <2>4. ~Eos(t) => t.tokens[t.cur] \in Tokens
      BY <2>3, StreamTypes
    <2> QED BY <1>1, <2>1, <2>2, <2>3, <2>4 DEF Cur
  <1>2. CASE ~Parsed(t)
    <2> DEFINE u == MaybeParse(t)
    <2>1. /\ StreamOK(u) /\ Later(t, u) /\ Parsed(u) /\ u.cur = t.cur
          /\ u.lastSkip = t.lastSkip /\ t.cur <= Len(u.tokens)
      BY <1>2, MaybeParseMore
    <2>2. ~Eos(t) /\ ~Eos(u)
      BY <1>2, <2>1, StreamTypes DEF Parsed, Eos
    <2>3. MaybeParse(u) = u
      BY <2>1, MaybeParseSame
    <2>4. u.tokens[t.cur] \in Tokens
      BY <2>1, StreamTypes
    <2> QED BY <2>1, <2>2, <2>3, <2>4 DEF Cur
  <1> QED BY <1>1, <1>2

-----------------------------------------------------------------------------
(* consume, skip_tag and the recovery. *)

\* The rank of a stream: where it stands, or where the last skip began.  No
\* operation of the parser goes back behind it.
Rank(t) == IF t.lastSkip # None THEN t.lastSkip ELSE t.cur

\* u is t after reading on.
ReadOn(t, u) == StreamOK(u) /\ Later(t, u) /\ t.cur <= u.cur

LEMMA ReadOnTrans ==
  ASSUME NEW t, NEW u, NEW v, StreamOK(t), ReadOn(t, u), ReadOn(u, v)
  PROVE  ReadOn(t, v)
  BY LaterTrans, StreamTypes DEF ReadOn

LEMMA ConsumeIs ==
  ASSUME NEW t, StreamOK(t), ~Eos(t)
  PROVE  /\ ReadOn(t, Consume(t)) /\ Consume(t).cur = t.cur + 1 /\ Consume(t).lastSkip = None
         /\ Cur(t) \in Tokens /\ Consume(t).tokens[t.cur] = Cur(t)
         /\ t.cur <= Len(Consume(t).tokens)
  <1> DEFINE m == MaybeParse(t)
             u == Consume(t)
  <1>1. /\ StreamOK(m) /\ Later(t, m) /\ m.cur = t.cur /\ m.cur <= Len(m.tokens)
        /\ Cur(t) = m.tokens[m.cur] /\ Cur(t) \in Tokens
    BY MaybeParseIs
  <1>2. u = [m EXCEPT !.cur = @ + 1, !.lastSkip = None]
    BY DEF Consume
  <1> HIDE DEF m
  <1>3. /\ u \in Streams /\ u.cur = m.cur + 1 /\ u.lastSkip = None /\ u.tokens = m.tokens
        /\ u.input = m.input /\ u.begin = m.begin /\ u.prevSkip = m.prevSkip
        /\ u.regexMode = m.regexMode
    <2>1. m \in Streams /\ m.cur + 1 \in Nat /\ 0 \in Nat
      BY <1>1, StreamTypes DEF StreamOK
    <2> QED BY <1>2, <2>1 DEF Streams, None
  <1> HIDE DEF u
  <1>4. StreamOK(u)
    <2>1. /\ Lexed(m) \in Nat /\ Len(m.tokens) <= Lexed(m) /\ Lexed(m) <= Len(m.input)
          /\ m.prevSkip # None => m.prevSkip \in m.begin .. m.cur
      BY <1>1 DEF StreamOK
    <2>2. End(u) = Len(m.tokens) + 1 /\ Lexed(u) = Lexed(m)
      BY <1>3 DEF End, Lexed
    <2>3. /\ m.begin \in Nat /\ m.cur \in Nat /\ Len(m.tokens) \in Nat /\ m.prevSkip \in Nat
          /\ 1 <= m.begin /\ m.begin <= m.cur /\ m.cur <= Len(m.tokens)
      BY <1>1, StreamTypes
    <2>4. u.begin \in 1 .. End(u) /\ u.cur \in u.begin .. End(u)
      BY <1>3, <2>2, <2>3
    <2>5. u.prevSkip # None => u.prevSkip \in u.begin .. u.cur
      BY <1>3, <2>1, <2>3
    <2> QED BY <1>3, <2>1, <2>2, <2>4, <2>5 DEF StreamOK
  <1>5. Later(t, u)
    BY <1>1, <1>3 DEF Later
  <1> QED BY <1>1, <1>3, <1>4, <1>5, StreamTypes DEF u, ReadOn

\* One round of the loop of skip_tag, and the list of the first m rounds.
Round(t, tags) == IF ExpectTag(t, tags) THEN Consume(t) ELSE t

Rounds(g, t, tags, m) == g = [k \in 0 .. m |-> IF k = 0 THEN t ELSE Round(g[k - 1], tags)]

LEMMA RoundsSome ==
  ASSUME NEW t, NEW tags
  PROVE  \A m \in Nat : \E g : Rounds(g, t, tags, m)
  <1> DEFINE P == {m \in Nat : \E g : Rounds(g, t, tags, m)}
  <1>1. 0 \in P
    <2>1. Rounds([k \in 0 .. 0 |-> t], t, tags, 0)
      BY DEF Rounds
    <2> QED BY <2>1
  <1>2. ASSUME NEW m \in P PROVE m + 1 \in P
    <2>1. PICK g : Rounds(g, t, tags, m)
      OBVIOUS
    <2> DEFINE h == [k \in 0 .. m + 1 |-> IF k = m + 1 THEN Round(g[m], tags) ELSE g[k]]
    <2>2. \A k \in 0 .. m : h[k] = g[k]
      OBVIOUS
    <2>3. \A k \in 0 .. m : g[k] = IF k = 0 THEN t ELSE Round(g[k - 1], tags)
      BY <2>1 DEF Rounds
    <2>4. ASSUME NEW k \in 0 .. m + 1
          PROVE  h[k] = IF k = 0 THEN t ELSE Round(h[k - 1], tags)
      <3>1. CASE k = m + 1
        <4>1. h[k] = Round(g[m], tags) /\ k - 1 = m /\ k # 0
          BY <3>1
        <4> QED BY <4>1, <2>2
      <3>2. CASE k # m + 1
        <4>1. k \in 0 .. m /\ (k # 0 => k - 1 \in 0 .. m)
          BY <3>2
        <4> QED BY <4>1, <2>2, <2>3
      <3> QED BY <3>1, <3>2
    <2>5. Rounds(h, t, tags, m + 1)
      BY <2>4, Zenon DEF Rounds
    <2> QED BY <2>5
  <1> HIDE DEF P
  <1>3. \A m \in Nat : m \in P
    <2>1. P \in SUBSET Nat
      BY DEF P
    <2> QED BY <1>1, <1>2, <2>1, NatSet
  <1> QED BY <1>3 DEF P

LEMMA RoundsSame ==
  ASSUME NEW t, NEW tags, NEW g, NEW h, NEW m \in Nat, NEW l \in Nat,
         Rounds(g, t, tags, m), Rounds(h, t, tags, l)
  PROVE  \A k \in Nat : k <= m /\ k <= l => g[k] = h[k]
  <1> DEFINE P == {k \in Nat : k <= m /\ k <= l => g[k] = h[k]}
  <1>1. 0 \in P
    BY DEF Rounds
  <1>2. ASSUME NEW k \in P PROVE k + 1 \in P
    <2>1. SUFFICES ASSUME k + 1 <= m, k + 1 <= l PROVE g[k + 1] = h[k + 1]
      OBVIOUS
    <2>2. g[k] = h[k]
      BY <2>1
    <2>3. g[k + 1] = Round(g[k], tags)
      BY <2>1 DEF Rounds
    <2>4. h[k + 1] = Round(h[k], tags)
      BY <2>1 DEF Rounds
    <2> QED BY <2>2, <2>3, <2>4
  <1> HIDE DEF P
  <1>3. \A k \in Nat : k \in P
    <2>1. P \in SUBSET Nat
      BY DEF P
    <2> QED BY <1>1, <1>2, <2>1, NatSet
  <1> QED BY <1>3 DEF P

\* The loop of skip_tag is one round after the other.
LEMMA SkipWhileLoop ==
  ASSUME NEW t, NEW tags
  PROVE  \E after : /\ SkipWhile(t, tags) = MaybeParse(after[Len(t.input)])
                    /\ after[0] = t
                    /\ \A k \in Nat : after[k + 1] = Round(after[k], tags)
  <1> DEFINE G(m) == CHOOSE g : Rounds(g, t, tags, m)
             F == [k \in Nat |-> G(k)[k]]
             IsIt(f) == f = [k \in Nat |-> IF k = 0 THEN t
                                           ELSE LET u == f[k - 1]
                                                IN  IF ExpectTag(u, tags) THEN Consume(u) ELSE u]
             after == CHOOSE f : IsIt(f)
  <1>1. \A m \in Nat : Rounds(G(m), t, tags, m)
    BY RoundsSome
  <1> HIDE DEF G
  <1>2. \A m \in Nat : G(m + 1)[m] = G(m)[m]
    BY <1>1, RoundsSame
  <1>3. IsIt(F)
    <2>1. ASSUME NEW k \in Nat PROVE F[k] = IF k = 0 THEN t ELSE Round(F[k - 1], tags)
      <3>1. G(k)[k] = IF k = 0 THEN t ELSE Round(G(k)[k - 1], tags)
        <4>1. Rounds(G(k), t, tags, k)
          BY <1>1
        <4> QED BY <4>1 DEF Rounds
      <3>2. k # 0 => k - 1 \in Nat /\ G(k)[k - 1] = G(k - 1)[k - 1]
        <4>1. k # 0 => k - 1 \in Nat /\ (k - 1) + 1 = k
          OBVIOUS
        <4> QED BY <4>1, <1>2
      <3> QED BY <3>1, <3>2
    <2>2. \A k \in Nat : F[k] = IF k = 0 THEN t ELSE LET u == F[k - 1]
                                                     IN  IF ExpectTag(u, tags) THEN Consume(u) ELSE u
      BY <2>1, Zenon DEF Round
    <2> HIDE DEF Round
    <2>3. F = [k \in Nat |-> F[k]]
      OBVIOUS
    <2> HIDE DEF F
    <2> QED BY <2>2, <2>3, Zenon
  <1>4. SkipWhile(t, tags) = MaybeParse(after[Len(t.input)])
    BY Zenon DEF SkipWhile
  <1>5. IsIt(after)
    <2> HIDE DEF IsIt
    <2> QED BY <1>3, Zenon
  <1> HIDE DEF after
  <1>6. \A k \in Nat : after[k] = IF k = 0 THEN t ELSE Round(after[k - 1], tags)
    BY <1>5, Zenon DEF Round
  <1>7. after[0] = t
    BY <1>6
  <1>8. \A k \in Nat : after[k + 1] = Round(after[k], tags)
    <2>1. \A k \in Nat : k + 1 \in Nat /\ k + 1 # 0 /\ (k + 1) - 1 = k
      OBVIOUS
    <2> QED BY <2>1, <1>6
  <1> QED BY <1>4, <1>7, <1>8

LEMMA RoundIs ==
  ASSUME NEW t, StreamOK(t), NEW tags
  PROVE  /\ ReadOn(t, Round(t, tags))
         /\ ExpectTag(t, tags) => /\ Round(t, tags).cur = t.cur + 1
                                  /\ Round(t, tags).lastSkip = None
                                  /\ t.cur <= Len(Round(t, tags).tokens)
                                  /\ Round(t, tags).tokens[t.cur].tag \in tags
         /\ ~ExpectTag(t, tags) => Round(t, tags) = t
  <1>1. CASE ExpectTag(t, tags)
    <2>1. ~Eos(t) /\ Cur(t).tag \in tags
      BY <1>1 DEF ExpectTag
    <2>2. Round(t, tags) = Consume(t)
      BY <1>1 DEF Round
    <2> QED BY <1>1, <2>1, <2>2, ConsumeIs
  <1>2. CASE ~ExpectTag(t, tags)
    <2>1. Round(t, tags) = t
      BY <1>2 DEF Round
    <2>2. ReadOn(t, t)
      BY StreamTypes DEF ReadOn, Later
    <2> QED BY <1>2, <2>1, <2>2
  <1> QED BY <1>1, <1>2

\* The loop has gone from t to u.
Skips(t, u, tags) ==
  /\ ReadOn(t, u)
  /\ u.cur = t.cur => u = t
  /\ u.cur # t.cur => u.lastSkip = None
  /\ \A i \in Nat : t.cur <= i /\ i < u.cur => u.tokens[i].tag \in tags

LEMMA SkipsRound ==
  ASSUME NEW t, NEW u, NEW tags, StreamOK(t), Skips(t, u, tags)
  PROVE  Skips(t, Round(u, tags), tags)
  <1>1. CASE ~ExpectTag(u, tags)
    BY <1>1, RoundIs DEF Skips, ReadOn
  <1>2. CASE ExpectTag(u, tags)
    <2> DEFINE v == Round(u, tags)
    <2>0. ReadOn(t, u) /\ StreamOK(u) /\ t.cur <= u.cur
      BY DEF Skips, ReadOn
    <2>1. /\ ReadOn(u, v) /\ v.cur = u.cur + 1 /\ v.lastSkip = None
          /\ u.cur <= Len(v.tokens) /\ v.tokens[u.cur].tag \in tags
      BY <1>2, <2>0, RoundIs
    <2> HIDE DEF v
    <2>2. ReadOn(t, v)
      BY <2>0, <2>1, ReadOnTrans
    <2>3. \A i \in 1 .. Len(u.tokens) : v.tokens[i] = u.tokens[i]
      BY <2>1 DEF ReadOn, Later
    <2>4. t.cur \in Nat /\ u.cur \in Nat /\ 1 <= t.cur /\ u.cur <= Len(u.tokens) + 1 /\ Len(u.tokens) \in Nat
      BY <2>0, StreamTypes
    <2>5. ASSUME NEW i \in Nat, t.cur <= i, i < v.cur PROVE v.tokens[i].tag \in tags
      <3>1. CASE i = u.cur
        BY <2>1, <3>1
      <3>2. CASE i < u.cur
        <4>1. u.tokens[i].tag \in tags
          BY <2>5, <3>2 DEF Skips
        <4>2. i \in 1 .. Len(u.tokens)
          BY <2>4, <2>5, <3>2
        <4> QED BY <2>3, <4>1, <4>2
      <3> QED BY <2>1, <2>4, <2>5, <3>1, <3>2
    <2>6. v.cur # t.cur
      BY <2>1, <2>4, <2>0
    <2> QED BY <2>1, <2>2, <2>5, <2>6 DEF Skips, v
  <1> QED BY <1>1, <1>2

\* The loop stops before the end of the text or at it.
LEMMA SkipWhileIs ==
  ASSUME NEW t, NEW tags, StreamOK(t)
  PROVE  LET u == SkipWhile(t, tags)
         IN  /\ ReadOn(t, u) /\ Parsed(u)
             /\ u.lastSkip = IF u.cur = t.cur THEN t.lastSkip ELSE None
             /\ \A i \in Nat : t.cur <= i /\ i < u.cur => u.tokens[i].tag \in tags
             /\ ~ExpectTag(u, tags)
  <1>1. PICK after : /\ SkipWhile(t, tags) = MaybeParse(after[Len(t.input)])
                     /\ after[0] = t
                     /\ \A k \in Nat : after[k + 1] = Round(after[k], tags)
    BY SkipWhileLoop
  <1>2. /\ t.cur \in Nat /\ 1 <= t.cur /\ Len(t.input) \in Nat
    BY StreamTypes
  <1> DEFINE Good(k) == /\ Skips(t, after[k], tags)
                        /\ ExpectTag(after[k], tags) => after[k].cur >= t.cur + k
             P == {k \in Nat : Good(k)}
  <1>3. 0 \in P
    <2>1. Skips(t, t, tags)
      BY StreamTypes DEF Skips, ReadOn, Later
    <2>2. t.cur >= t.cur + 0
      BY <1>2
    <2> QED BY <1>1, <2>1, <2>2
  <1>4. ASSUME NEW k \in P PROVE k + 1 \in P
    <2>1. Skips(t, after[k + 1], tags)
      BY <1>1, SkipsRound
    <2>2. ASSUME ExpectTag(after[k + 1], tags) PROVE after[k + 1].cur >= t.cur + (k + 1)
      <3>0. after[k + 1] = Round(after[k], tags)
        BY <1>1
      <3>1. ExpectTag(after[k], tags)
        BY <2>2, <3>0 DEF Round
      <3>2. StreamOK(after[k])
        BY DEF Skips, ReadOn
      <3>3. after[k + 1].cur = after[k].cur + 1
        BY <3>0, <3>1, <3>2, RoundIs
      <3>4. after[k].cur \in Nat
        BY <3>2, StreamTypes
      <3> QED BY <1>2, <3>1, <3>3, <3>4
    <2> QED BY <2>1, <2>2
  <1> HIDE DEF P
  <1>5. \A k \in Nat : k \in P
    <2>1. P \in SUBSET Nat
      BY DEF P
    <2> QED BY <1>3, <1>4, <2>1, NatSet
  <1> DEFINE l == after[Len(t.input)]
             u == SkipWhile(t, tags)
  <1>6. Skips(t, l, tags) /\ (ExpectTag(l, tags) => l.cur >= t.cur + Len(t.input)) /\ u = MaybeParse(l)
    BY <1>1, <1>2, <1>5 DEF P
  <1> HIDE DEF l, u
  <1>7. ReadOn(t, l) /\ StreamOK(l) /\ l.input = t.input
    BY <1>6 DEF Skips, ReadOn, Later
  <1>8. ~ExpectTag(l, tags)
    <2>1. SUFFICES ASSUME ExpectTag(l, tags) PROVE Eos(l)
      BY DEF ExpectTag
    <2>2. l.cur >= 1 + Len(t.input) /\ l.cur \in Nat /\ l.cur <= Len(l.tokens) + 1
          /\ Len(l.tokens) \in Nat
      BY <1>2, <1>6, <1>7, <2>1, StreamTypes
    <2>3. Len(l.tokens) <= Lexed(l) /\ Lexed(l) <= Len(t.input) /\ Lexed(l) \in Nat
      BY <1>7 DEF StreamOK
    <2>4. l.cur = Len(l.tokens) + 1 /\ Lexed(l) = Len(l.input)
      BY <1>2, <1>7, <2>2, <2>3
    <2> QED BY <2>4 DEF Eos, End
  <1>9. /\ StreamOK(u) /\ Later(l, u) /\ Parsed(u) /\ u.cur = l.cur /\ u.lastSkip = l.lastSkip
        /\ Eos(u) <=> Eos(l)
        /\ Cur(u) = Cur(l)
    BY <1>6, <1>7, MaybeParseIs
  <1>10. ~ExpectTag(u, tags)
    BY <1>8, <1>9 DEF ExpectTag
  <1>11. /\ l.cur \in Nat /\ u.cur \in Nat /\ l.cur <= Len(l.tokens) + 1 /\ Len(l.tokens) \in Nat
    BY <1>7, <1>9, StreamTypes
  <1>12. ReadOn(l, u)
    BY <1>9, <1>11 DEF ReadOn
  <1>13. ReadOn(t, u)
    BY <1>7, <1>12, ReadOnTrans
  <1>14. \A i \in Nat : t.cur <= i /\ i < u.cur => u.tokens[i].tag \in tags
    <2>1. TAKE i \in Nat
    <2>2. HAVE t.cur <= i /\ i < u.cur
    <2>3. l.tokens[i].tag \in tags
      BY <1>6, <1>9, <2>2 DEF Skips
    <2>4. i \in 1 .. Len(l.tokens)
      BY <1>2, <1>9, <1>11, <2>2
    <2> QED BY <1>9, <2>3, <2>4 DEF Later
  <1>15. u.lastSkip = IF u.cur = t.cur THEN t.lastSkip ELSE None
    BY <1>6, <1>9 DEF Skips
  <1> QED BY <1>9, <1>10, <1>13, <1>14, <1>15 DEF u

\* skip_tag: the rank is where the skip began, and the cursor does not move if
\* it stands at a token of another tag.
LEMMA SkipTagIs ==
  ASSUME NEW t, NEW tags, StreamOK(t)
  PROVE  LET u == SkipTag(t, tags)
         IN  /\ ReadOn(t, u) /\ Parsed(u) /\ SkipOK(u) /\ Rank(u) = t.cur
             /\ \A i \in Nat : t.cur <= i /\ i < u.cur => u.tokens[i].tag \in tags
             /\ ~ExpectTag(u, tags)
  <1> DEFINE m == MaybeParse(t)
             w == SkipWhile(m, tags)
             u == SkipTag(t, tags)
  <1>1. /\ StreamOK(m) /\ Later(t, m) /\ m.cur = t.cur
    BY MaybeParseIs
  <1>2. /\ ReadOn(m, w) /\ Parsed(w)
        /\ \A i \in Nat : m.cur <= i /\ i < w.cur => w.tokens[i].tag \in tags
        /\ ~ExpectTag(w, tags)
    BY <1>1, SkipWhileIs
  <1>3. u = [w EXCEPT !.lastSkip = IF w.cur # m.cur THEN m.cur ELSE None]
    BY DEF SkipTag
  <1> HIDE DEF m, w, u
  <1>4. t.cur \in Nat /\ 1 <= t.cur /\ w.cur \in Nat /\ t.cur <= w.cur /\ StreamOK(w)
    BY <1>1, <1>2, StreamTypes DEF ReadOn
  <1> DEFINE sk == IF w.cur # m.cur THEN m.cur ELSE None
  <1>5. sk \in Nat
    BY <1>1, <1>4 DEF None
  <1>6. /\ u \in Streams /\ u.cur = w.cur /\ u.lastSkip = sk /\ u.tokens = w.tokens
        /\ u.input = w.input /\ u.begin = w.begin /\ u.prevSkip = w.prevSkip
        /\ u.regexMode = w.regexMode
    <2>1. w \in Streams
      BY <1>4 DEF StreamOK
    <2> HIDE DEF sk
    <2> QED BY <1>3, <1>5, <2>1 DEF Streams, sk
  <1> HIDE DEF sk
  <1>7. StreamOK(u)
    BY <1>4, <1>6 DEF StreamOK, End, Lexed
  <1>8. ReadOn(t, m)
    BY <1>1, <1>4 DEF ReadOn
  <1>9. ReadOn(t, w)
    BY <1>2, <1>8, ReadOnTrans
  <1>10. ReadOn(t, u)
    BY <1>6, <1>7, <1>9 DEF ReadOn, Later
  <1>11. Parsed(u) /\ ~ExpectTag(u, tags)
    <2>1. Parsed(u)
      BY <1>2, <1>6 DEF Parsed, End, Lexed
    <2>2. MaybeParse(u) = u /\ MaybeParse(w) = w
      BY <1>2, <2>1, MaybeParseSame
    <2> QED BY <1>2, <1>6, <2>1, <2>2 DEF ExpectTag, Eos, End, Lexed, Cur
  <1>12. SkipOK(u) /\ Rank(u) = t.cur
    <2>1. CASE w.cur = m.cur
      <3>1. u.lastSkip = None
        BY <1>6, <2>1 DEF sk
      <3> QED BY <1>1, <1>6, <2>1, <3>1 DEF SkipOK, Rank
    <2>2. CASE w.cur # m.cur
      <3>1. u.lastSkip = t.cur /\ u.lastSkip # None
        BY <1>1, <1>4, <1>6, <2>2 DEF sk, None
      <3>2. t.cur < u.cur
        BY <1>1, <1>4, <1>6, <2>2
      <3>3. u.begin = t.begin /\ u.prevSkip = t.prevSkip
        BY <1>10 DEF ReadOn, Later
      <3>4. t.begin \in Nat /\ t.begin <= t.cur
        BY StreamTypes
      <3>5. t.prevSkip # None => t.prevSkip <= t.cur
        BY <1>4, <3>4 DEF StreamOK
      <3>6. u.cur \in Nat
        BY <1>4, <1>6
      <3>7. u.lastSkip \in u.begin .. u.cur - 1
        BY <1>4, <3>1, <3>2, <3>3, <3>4, <3>6
      <3> QED BY <3>1, <3>3, <3>5, <3>7 DEF SkipOK, Rank
    <2> QED BY <2>1, <2>2
  <1>13. \A i \in Nat : t.cur <= i /\ i < u.cur => u.tokens[i].tag \in tags
    BY <1>1, <1>2, <1>6
  <1> QED BY <1>10, <1>11, <1>12, <1>13 DEF u

-----------------------------------------------------------------------------
(* What a step of the parser does to the stream. *)

\* u is t after operations that recover nothing: they keep the iterators in the
\* list and never lower the rank.
On(t, u) == StreamOK(u) /\ SkipOK(u) /\ u.prevSkip = t.prevSkip /\ Rank(t) <= Rank(u)

\* After shrink the last skip may have begun before the list.
RankOK(t) == t.lastSkip # None => t.lastSkip < t.cur

LEMMA RankType ==
  ASSUME NEW t, StreamOK(t)
  PROVE  Rank(t) \in Nat /\ (RankOK(t) => 1 <= Rank(t) /\ Rank(t) <= t.cur)
  BY StreamTypes DEF Rank, RankOK, None

LEMMA SkipRank ==
  ASSUME NEW t, StreamOK(t), SkipOK(t)
  PROVE  RankOK(t)
  BY StreamTypes DEF SkipOK, RankOK

LEMMA OnTrans ==
  ASSUME NEW t, NEW u, NEW v, StreamOK(t), On(t, u), On(u, v)
  PROVE  On(t, v)
  BY RankType DEF On

LEMMA OnMaybeParse ==
  ASSUME NEW t, StreamOK(t), SkipOK(t)
  PROVE  On(t, MaybeParse(t))
  <1>1. /\ StreamOK(MaybeParse(t)) /\ Later(t, MaybeParse(t))
        /\ MaybeParse(t).cur = t.cur /\ MaybeParse(t).lastSkip = t.lastSkip
    BY MaybeParseIs
  <1>2. SkipOK(MaybeParse(t))
    BY <1>1 DEF SkipOK, Later
  <1>3. Rank(MaybeParse(t)) = Rank(t) /\ Rank(t) \in Nat
    BY <1>1, RankType DEF Rank
  <1> QED BY <1>1, <1>2, <1>3 DEF On, Later

LEMMA OnSkipTag ==
  ASSUME NEW t, NEW tags, StreamOK(t), RankOK(t)
  PROVE  On(t, SkipTag(t, tags))
  BY SkipTagIs, RankType DEF On, ReadOn, Later

LEMMA OnSkips ==
  ASSUME NEW t, StreamOK(t), RankOK(t)
  PROVE  On(t, SkipSpace(t)) /\ On(t, SkipWhite(t)) /\ On(t, SkipLine(t)) /\ On(t, SkipSpaceComment(t))
  BY OnSkipTag DEF SkipSpace, SkipWhite, SkipLine, SkipSpaceComment

LEMMA OnConsume ==
  ASSUME NEW t, StreamOK(t), SkipOK(t)
  PROVE  On(t, Consume(t)) /\ (~Eos(t) => Rank(t) < Rank(Consume(t)))
  <1>1. CASE Eos(t)
    BY <1>1, OnMaybeParse DEF Consume
  <1>2. CASE ~Eos(t)
    <2>1. ReadOn(t, Consume(t)) /\ Consume(t).cur = t.cur + 1 /\ Consume(t).lastSkip = None
      BY <1>2, ConsumeIs
    <2>2. Rank(Consume(t)) = t.cur + 1
      BY <2>1 DEF Rank
    <2>3. Rank(t) <= t.cur /\ Rank(t) \in Nat /\ t.cur \in Nat
      BY SkipRank, RankType, StreamTypes
    <2>4. SkipOK(Consume(t))
      BY <2>1 DEF SkipOK
    <2> QED BY <2>1, <2>2, <2>3, <2>4 DEF On, ReadOn, Later
  <1> QED BY <1>1, <1>2

LEMMA OnSet ==
  ASSUME NEW t, StreamOK(t), SkipOK(t)
  PROVE  /\ \A on \in BOOLEAN : On(t, SetRegexMode(t, on))
         /\ On(t, ClearComments(t))
  <1>1. t \in Streams /\ Rank(t) \in Nat
    BY RankType DEF StreamOK
  <1>2. ASSUME NEW on \in BOOLEAN PROVE On(t, SetRegexMode(t, on))
    <2> DEFINE u == SetRegexMode(t, on)
    <2>1. /\ u \in Streams /\ u.cur = t.cur /\ u.lastSkip = t.lastSkip /\ u.tokens = t.tokens
          /\ u.input = t.input /\ u.begin = t.begin /\ u.prevSkip = t.prevSkip
      BY <1>1 DEF SetRegexMode, Streams
    <2> HIDE DEF u
    <2>2. StreamOK(u) /\ SkipOK(u)
      BY <2>1 DEF StreamOK, SkipOK, End, Lexed
    <2>3. Rank(u) = Rank(t)
      BY <2>1 DEF Rank
    <2> QED BY <1>1, <2>1, <2>2, <2>3 DEF On, u
  <1>3. On(t, ClearComments(t))
    <2> DEFINE u == ClearComments(t)
    <2>0. <<>> \in Seq(Nat)
      OBVIOUS
    <2>1. /\ u \in Streams /\ u.cur = t.cur /\ u.lastSkip = t.lastSkip /\ u.tokens = t.tokens
          /\ u.input = t.input /\ u.begin = t.begin /\ u.prevSkip = t.prevSkip
      BY <1>1, <2>0 DEF ClearComments, Streams
    <2> HIDE DEF u
    <2>2. StreamOK(u) /\ SkipOK(u)
      BY <2>1 DEF StreamOK, SkipOK, End, Lexed
    <2>3. Rank(u) = Rank(t)
      BY <2>1 DEF Rank
    <2> QED BY <1>1, <2>1, <2>2, <2>3 DEF On, u
  <1> QED BY <1>2, <1>3

\* Twice the rank, and one more for a recovery there: a recovery raises it.
Score(t) == 2 * (Rank(t) - 1) + (IF t.prevSkip = Rank(t) THEN 1 ELSE 0)

LEMMA ScoreOn ==
  ASSUME NEW t, NEW u, StreamOK(t), RankOK(t), On(t, u)
  PROVE  /\ Score(t) \in Int /\ Score(u) \in Int /\ Score(t) <= Score(u)
         /\ Rank(t) < Rank(u) => Score(t) < Score(u)
  <1>1. Rank(t) \in Nat /\ Rank(u) \in Nat /\ Rank(t) <= Rank(u) /\ u.prevSkip = t.prevSkip
    BY RankType DEF On
  <1>2. CASE Rank(u) = Rank(t)
    BY <1>1, <1>2 DEF Score
  <1>3. CASE Rank(u) # Rank(t)
    <2>1. Rank(u) - 1 >= Rank(t)
      BY <1>1, <1>3
    <2>2. 2 * (Rank(u) - 1) >= 2 * (Rank(t) - 1) + 2
      BY <1>1, <2>1
    <2> QED BY <1>1, <2>1, <2>2 DEF Score
  <1> QED BY <1>2, <1>3

LEMMA RecoverIs ==
  ASSUME NEW t, StreamOK(t), SkipOK(t), ~CannotRecover(t)
  PROVE  /\ StreamOK(Recover(t)) /\ SkipOK(Recover(t)) /\ Rank(t) <= Rank(Recover(t))
         /\ Score(t) \in Int /\ Score(Recover(t)) \in Int /\ Score(t) < Score(Recover(t))
  <1> DEFINE b == IF t.lastSkip # None THEN [t EXCEPT !.cur = t.lastSkip, !.lastSkip = None] ELSE t
             r == Returned(t)
             u == Recover(t)
  <1>0. /\ t.begin \in Nat /\ t.cur \in Nat /\ t.lastSkip \in Nat /\ t.prevSkip \in Nat /\ t \in Streams
        /\ 1 <= t.begin /\ t.begin <= t.cur /\ t.cur <= Len(t.tokens) + 1 /\ Len(t.tokens) \in Nat
    BY StreamTypes DEF StreamOK
  <1>1. /\ StreamOK(b) /\ SkipOK(b) /\ b.prevSkip = t.prevSkip /\ Rank(b) = Rank(t)
        /\ b.lastSkip = None /\ b.cur = Rank(t)
    <2>1. CASE t.lastSkip = None
      BY <2>1 DEF Rank, SkipOK
    <2>2. CASE t.lastSkip # None
      <3>1. /\ b \in Streams /\ b.cur = t.lastSkip /\ b.lastSkip = None /\ b.tokens = t.tokens
            /\ b.input = t.input /\ b.begin = t.begin /\ b.prevSkip = t.prevSkip
        BY <1>0, <2>2 DEF Streams, None
      <3>2. /\ t.begin <= t.lastSkip /\ t.lastSkip < t.cur
            /\ t.prevSkip # None => t.prevSkip <= t.lastSkip
        BY <1>0, <2>2 DEF SkipOK
      <3> HIDE DEF b
      <3>3. StreamOK(b)
        BY <1>0, <3>1, <3>2 DEF StreamOK, End, Lexed
      <3>4. SkipOK(b)
        BY <3>1 DEF SkipOK
      <3> QED BY <2>2, <3>1, <3>3, <3>4 DEF Rank
    <2> QED BY <2>1, <2>2
  <1>2. r = MaybeParse(b)
    BY DEF Returned
  <1> HIDE DEF b
  <1>3. /\ StreamOK(r) /\ SkipOK(r) /\ r.prevSkip = t.prevSkip /\ Rank(r) = Rank(t)
        /\ r.lastSkip = None /\ r.cur = Rank(t)
    <2>1. On(b, r)
      BY <1>1, <1>2, OnMaybeParse
    <2>2. r.cur = b.cur /\ r.lastSkip = b.lastSkip
      BY <1>1, <1>2, MaybeParseIs
    <2> QED BY <1>1, <2>1, <2>2 DEF On, Rank
  <1>a. Rank(t) \in Nat /\ 1 <= Rank(t)
    BY SkipRank, RankType
  <1>4. CASE r.cur = r.prevSkip
    <2>1. u = Consume(r)
      BY <1>4 DEF Recover
    <2>2. ~Eos(r)
      BY <1>4 DEF CannotRecover, ExpectTag
    <2>3. On(r, u) /\ Rank(r) < Rank(u)
      BY <1>3, <2>1, <2>2, OnConsume
    <2>4. RankOK(r)
      BY <1>3, SkipRank
    <2>5. Score(r) \in Int /\ Score(u) \in Int /\ Score(r) < Score(u)
      BY <1>3, <2>3, <2>4, ScoreOn
    <2>6. Score(r) = Score(t)
      BY <1>3 DEF Score
    <2> QED BY <1>3, <2>3, <2>5, <2>6 DEF On
  <1>5. CASE r.cur # r.prevSkip
    <2>1. u = [r EXCEPT !.prevSkip = r.cur]
      BY <1>5 DEF Recover
    <2>2. r \in Streams /\ r.cur \in Nat
      BY <1>3, StreamTypes DEF StreamOK
    <2> HIDE DEF r
    <2>3. /\ u \in Streams /\ u.cur = r.cur /\ u.lastSkip = r.lastSkip /\ u.tokens = r.tokens
          /\ u.input = r.input /\ u.begin = r.begin /\ u.prevSkip = r.cur
      BY <2>1, <2>2 DEF Streams
    <2> HIDE DEF u
    <2>4. r.begin \in Nat /\ 1 <= r.begin /\ r.begin <= r.cur
      BY <1>3, StreamTypes
    <2>5. StreamOK(u) /\ SkipOK(u)
      BY <1>3, <2>2, <2>3, <2>4 DEF StreamOK, SkipOK, End, Lexed
    <2>6. Rank(u) = Rank(t) /\ u.prevSkip = Rank(t) /\ t.prevSkip # Rank(t)
      BY <1>3, <1>5, <2>3 DEF Rank
    <2>7. Score(u) = 2 * (Rank(t) - 1) + 1 /\ Score(t) = 2 * (Rank(t) - 1) + 0
      BY <2>6 DEF Score
    <2> QED BY <1>a, <2>5, <2>6, <2>7 DEF u
  <1> QED BY <1>4, <1>5

\* shrink moves the begin of the list only.
LEMMA ShrinkIs ==
  ASSUME NEW t, StreamOK(t), RankOK(t)
  PROVE  /\ StreamOK(Shrink(t)) /\ RankOK(Shrink(t)) /\ Rank(Shrink(t)) = Rank(t)
         /\ Shrink(t).prevSkip = t.prevSkip /\ Score(Shrink(t)) = Score(t)
  <1> DEFINE u == Shrink(t)
  <1>0. /\ t.begin \in Nat /\ t.cur \in Nat /\ t.prevSkip \in Nat /\ t \in Streams
        /\ 1 <= t.begin /\ t.begin <= t.cur /\ t.cur <= Len(t.tokens) + 1 /\ Len(t.tokens) \in Nat
    BY StreamTypes DEF StreamOK
  <1>1. /\ u \in Streams /\ u.cur = t.cur /\ u.lastSkip = t.lastSkip /\ u.tokens = t.tokens
        /\ u.input = t.input /\ u.prevSkip = t.prevSkip
        /\ u.begin = IF t.prevSkip # None THEN t.prevSkip ELSE t.cur
    BY <1>0 DEF Shrink, Streams
  <1> HIDE DEF u
  <1>2. t.prevSkip # None => t.begin <= t.prevSkip /\ t.prevSkip <= t.cur
    BY <1>0 DEF StreamOK
  <1>3. StreamOK(u)
    BY <1>0, <1>1, <1>2 DEF StreamOK, End, Lexed
  <1>4. RankOK(u) /\ Rank(u) = Rank(t)
    BY <1>1 DEF RankOK, Rank
  <1> QED BY <1>1, <1>3, <1>4 DEF u, Score

\* skip_tag stays at a token of another tag.
LEMMA SkipStays ==
  ASSUME NEW t, NEW tags, StreamOK(t), ~ExpectTag(t, tags)
  PROVE  SkipTag(t, tags) = [MaybeParse(t) EXCEPT !.lastSkip = None]
  <1> DEFINE m == MaybeParse(t)
  <1>1. StreamOK(m) /\ MaybeParse(m) = m /\ ~ExpectTag(m, tags)
    BY MaybeParseIs, MaybeParseSame DEF ExpectTag
  <1> HIDE DEF m
  <1>2. PICK after : /\ SkipWhile(m, tags) = MaybeParse(after[Len(m.input)])
                     /\ after[0] = m
                     /\ \A k \in Nat : after[k + 1] = Round(after[k], tags)
    BY SkipWhileLoop
  <1> DEFINE P == {k \in Nat : after[k] = m}
  <1>3. 0 \in P
    BY <1>2
  <1>6. ASSUME NEW k \in P PROVE k + 1 \in P
    <2>1. after[k + 1] = Round(m, tags) /\ k + 1 \in Nat
      <3>1. k \in Nat /\ after[k] = m
        OBVIOUS
      <3>2. after[k + 1] = Round(after[k], tags)
        BY <1>2, <3>1, Zenon
      <3>3. k + 1 \in Nat
        BY <3>1
      <3> QED BY <3>1, <3>2, <3>3, Zenon
    <2>2. Round(m, tags) = m
      BY <1>1 DEF Round
    <2> QED BY <2>1, <2>2
  <1> HIDE DEF P
  <1>4. \A k \in Nat : k \in P
    <2>1. P \in SUBSET Nat
      BY DEF P
    <2> QED BY <1>3, <1>6, <2>1, NatSet
  <1>5. SkipWhile(m, tags) = m
    BY <1>1, <1>2, <1>4, StreamTypes DEF P
  <1> QED BY <1>5 DEF SkipTag, m

\* The cursor is at none of the texts, nor at a blank; what comes is lexed.
NotAt(t, texts) ==
  /\ StreamOK(t) /\ Parsed(t)
  /\ ~Eos(t) => Cur(t).tag # "space" /\ Cur(t).text \notin texts

\* The text at the cursor of a stream that skips blanks from t.
LEMMA SkipSpaceStays ==
  ASSUME NEW t, NEW texts, NotAt(t, texts)
  PROVE  LET u == SkipSpace(t)
         IN  /\ NotAt(u, texts) /\ u.tokens = t.tokens /\ u.cur = t.cur
             /\ (Eos(u) <=> Eos(t)) /\ Cur(u) = Cur(t)
  <1> DEFINE u == SkipSpace(t)
  <1>1. ~ExpectTag(t, {"space"}) /\ MaybeParse(t) = t
    BY MaybeParseSame DEF ExpectTag, NotAt
  <1>2. u = [t EXCEPT !.lastSkip = None]
    BY <1>1, SkipStays DEF SkipSpace, NotAt
  <1>3. StreamOK(u)
    BY SkipTagIs DEF NotAt, SkipSpace, ReadOn
  <1>4. u.tokens = t.tokens /\ u.cur = t.cur /\ u.input = t.input
    BY <1>2 DEF NotAt, StreamOK, Streams
  <1> HIDE DEF u
  <1>5. Parsed(u) /\ (Eos(u) <=> Eos(t))
    BY <1>4 DEF Parsed, NotAt, Eos, End, Lexed
  <1>6. Cur(u) = Cur(t)
    BY <1>1, <1>4, <1>5, MaybeParseSame DEF Cur
  <1> QED BY <1>3, <1>4, <1>5, <1>6 DEF NotAt, u

\* After skip_space the cursor is at no blank.
LEMMA SkipSpaceNotAt ==
  ASSUME NEW t, StreamOK(t), NEW texts, ~(~Eos(SkipSpace(t)) /\ Cur(SkipSpace(t)).text \in texts)
  PROVE  NotAt(SkipSpace(t), texts)
  <1>1. LET u == SkipSpace(t) IN ReadOn(t, u) /\ Parsed(u) /\ ~ExpectTag(u, {"space"})
    BY SkipTagIs DEF SkipSpace
  <1> QED BY <1>1 DEF NotAt, ReadOn, ExpectTag

LEMMA SetRegexModeStays ==
  ASSUME NEW t, NEW texts, NEW on \in BOOLEAN, NotAt(t, texts)
  PROVE  LET u == SetRegexMode(t, on)
         IN  NotAt(u, texts) /\ u.tokens = t.tokens /\ u.cur = t.cur /\ (Eos(u) <=> Eos(t)) /\ Cur(u) = Cur(t)
  <1> DEFINE u == SetRegexMode(t, on)
  <1>1. /\ u \in Streams /\ u.cur = t.cur /\ u.lastSkip = t.lastSkip /\ u.tokens = t.tokens
        /\ u.input = t.input /\ u.begin = t.begin /\ u.prevSkip = t.prevSkip
    BY DEF SetRegexMode, Streams, StreamOK, NotAt
  <1> HIDE DEF u
  <1>3. StreamOK(u)
    BY <1>1 DEF StreamOK, End, Lexed, NotAt
  <1>5. Parsed(u) /\ (Eos(u) <=> Eos(t))
    BY <1>1 DEF Parsed, NotAt, Eos, End, Lexed
  <1>6. Cur(u) = Cur(t)
    BY <1>1, <1>5, MaybeParseSame DEF Cur, NotAt
  <1> QED BY <1>1, <1>3, <1>5, <1>6 DEF NotAt, u

-----------------------------------------------------------------------------
(* The call stack: parse calls parse_expr, which calls parse_unary, which    *)
(* calls parse_post, which calls parse_expr for what is in brackets.         *)

IsFrame(f) ==
  f \in [fn : {f.fn}, pc : {f.pc}, depth : {f.depth}, ops : {f.ops}, expr : {f.expr}, ret : {f.ret}]

\* f waits for g.
Waits(f, g) ==
  \/ f.fn = "parse" /\ f.pc = "statement" /\ g.fn = "expr"
  \/ f.fn = "expr" /\ f.pc \in {"first", "low", "right"} /\ g.fn = "unary"
  \/ f.fn = "unary" /\ f.pc = "target" /\ g.fn = "post"
  \/ f.fn = "post" /\ f.pc \in {"paren", "call", "index"} /\ g.fn = "expr"

Shape(c) ==
  /\ c \in Seq(ToSet(c)) /\ c # <<>>
  /\ \A i \in 1 .. Len(c) : IsFrame(c[i])
  /\ c[1].fn = "parse"
  /\ \A i \in 1 .. Len(c) - 1 : Waits(c[i], c[i + 1])

LEMMA SeqIs ==
  ASSUME NEW c
  PROVE  /\ \A F : c \in Seq(F) => c \in Seq(ToSet(c))
         /\ c \in Seq(ToSet(c)) /\ c # <<>> => Len(c) \in Nat /\ Len(c) >= 1 /\ Last(c) = c[Len(c)]
  <1>1. ASSUME NEW F, c \in Seq(F) PROVE c \in Seq(ToSet(c))
    <2>1. /\ Len(c) \in Nat /\ DOMAIN c = 1 .. Len(c) /\ c = [i \in 1 .. Len(c) |-> c[i]]
      BY <1>1
    <2>2. \A i \in 1 .. Len(c) : c[i] \in ToSet(c)
      BY <2>1 DEF ToSet
    <2>3. c \in [1 .. Len(c) -> ToSet(c)]
      BY <2>1, <2>2
    <2> QED BY <2>1, <2>3, SeqDef
  <1>2. ASSUME c \in Seq(ToSet(c)), c # <<>> PROVE Len(c) \in Nat /\ Len(c) >= 1 /\ Last(c) = c[Len(c)]
    <2>1. Len(c) \in Nat /\ Len(c) # 0
      BY <1>2, EmptySeq
    <2> QED BY <2>1 DEF Last
  <1> QED BY <1>1, <1>2

\* All but the last.
LEMMA FrontIs ==
  ASSUME NEW c, c \in Seq(ToSet(c)), c # <<>>
  PROVE  /\ Front(c) \in Seq(ToSet(c)) /\ Len(Front(c)) = Len(c) - 1
         /\ \A i \in 1 .. Len(c) - 1 : Front(c)[i] = c[i]
  <1>1. Len(c) \in Nat /\ Len(c) >= 1
    BY SeqIs
  <1> DEFINE S == ToSet(c)
  <1> HIDE DEF S
  <1>2. c \in Seq(S)
    BY DEF S
  <1>3. \A i \in 1 .. Len(c) - 1 : c[i] \in S
    BY <1>1, <1>2
  <1>4. /\ SubSeq(c, 1, Len(c) - 1) \in Seq(S) /\ Len(SubSeq(c, 1, Len(c) - 1)) = Len(c) - 1
        /\ \A i \in 1 .. Len(c) - 1 : SubSeq(c, 1, Len(c) - 1)[i] = c[i]
    <2>1. 1 \in Int /\ Len(c) - 1 \in Int
      BY <1>1
    <2>2. /\ SubSeq(c, 1, Len(c) - 1) \in Seq(S)
          /\ Len(SubSeq(c, 1, Len(c) - 1)) = IF 1 <= Len(c) - 1 THEN (Len(c) - 1) - 1 + 1 ELSE 0
          /\ \A i \in 1 .. (Len(c) - 1) - 1 + 1 : SubSeq(c, 1, Len(c) - 1)[i] = c[1 + i - 1]
      BY <1>3, <2>1, SubSeqProperties
    <2>3. /\ (Len(c) - 1) - 1 + 1 = Len(c) - 1
          /\ \A i \in 1 .. Len(c) - 1 : 1 + i - 1 = i
      BY <1>1
    <2>4. \A n \in Nat : n >= 1 => (IF 1 <= n - 1 THEN (n - 1) - 1 + 1 ELSE 0) = n - 1
      OBVIOUS
    <2>5. Len(SubSeq(c, 1, Len(c) - 1)) = Len(c) - 1
      BY <1>1, <2>2, <2>4, Zenon
    <2> QED BY <2>2, <2>3, <2>5
  <1> QED BY <1>4 DEF Front, S

LEMMA GoesOnIs ==
  ASSUME NEW c, Shape(c), NEW f, IsFrame(f), f.fn = Last(c).fn
  PROVE  LET d == Append(Front(c), f)
         IN  /\ Shape(d) /\ Len(d) = Len(c) /\ Last(d) = f /\ d[Len(c)] = f
             /\ \A i \in 1 .. Len(c) - 1 : d[i] = c[i]
  <1> DEFINE d == Append(Front(c), f)
             F == ToSet(c) \cup {f}
  <1>1. Len(c) \in Nat /\ Len(c) >= 1 /\ Last(c) = c[Len(c)]
    BY SeqIs DEF Shape
  <1>2. /\ Front(c) \in Seq(ToSet(c)) /\ Len(Front(c)) = Len(c) - 1
        /\ \A i \in 1 .. Len(c) - 1 : Front(c)[i] = c[i]
    BY FrontIs DEF Shape
  <1>3. Front(c) \in Seq(F) /\ f \in F
    BY <1>2, SeqMonotonic
  <1> HIDE DEF F
  <1>4. /\ d \in Seq(F) /\ Len(d) = Len(c) /\ d[Len(c)] = f
        /\ \A i \in 1 .. Len(c) - 1 : d[i] = Front(c)[i]
    BY <1>1, <1>2, <1>3
  <1> HIDE DEF d
  <1>5. d \in Seq(ToSet(d)) /\ d # <<>>
    BY <1>1, <1>4, SeqIs
  <1>6. Last(d) = f
    BY <1>4, <1>5, SeqIs
  <1>7. \A i \in 1 .. Len(c) - 1 : d[i] = c[i]
    BY <1>2, <1>4
  <1>8. \A i \in 1 .. Len(d) : IsFrame(d[i])
    BY <1>1, <1>4, <1>7 DEF Shape
  <1>9. d[1].fn = "parse"
    <2>1. CASE Len(c) = 1
      BY <1>1, <1>4, <2>1 DEF Shape
    <2>2. CASE Len(c) # 1
      <3>0. \A n \in Nat : n >= 1 /\ n # 1 => 1 \in 1 .. n - 1
        OBVIOUS
      <3>1. 1 \in 1 .. Len(c) - 1
        BY <1>1, <2>2, <3>0, Zenon
      <3> QED BY <1>7, <3>1 DEF Shape
    <2> QED BY <2>1, <2>2
  <1>10. ASSUME NEW i \in 1 .. Len(d) - 1 PROVE Waits(d[i], d[i + 1])
    <2>1. Waits(c[i], c[i + 1]) /\ d[i] = c[i]
      BY <1>4, <1>7 DEF Shape
    <2>2. CASE i + 1 = Len(c)
      <3>1. d[i + 1] = f /\ c[i + 1] = Last(c)
        BY <1>1, <1>4, <2>2
      <3> QED BY <2>1, <3>1 DEF Waits
    <2>3. CASE i + 1 # Len(c)
      BY <1>1, <1>4, <1>7, <2>1, <2>3
    <2> QED BY <2>2, <2>3
  <1> QED BY <1>4, <1>5, <1>6, <1>7, <1>8, <1>9, <1>10 DEF Shape, d

LEMMA CallIs ==
  ASSUME NEW c, Shape(c), NEW f, IsFrame(f), f.fn = Last(c).fn, NEW g, IsFrame(g), Waits(f, g)
  PROVE  LET d == Front(c) \o <<f, g>>
         IN  /\ Shape(d) /\ Len(d) = Len(c) + 1 /\ Last(d) = g /\ d[Len(c)] = f /\ d[Len(c) + 1] = g
             /\ \A i \in 1 .. Len(c) - 1 : d[i] = c[i]
  <1> DEFINE b == Append(Front(c), f)
             d == Front(c) \o <<f, g>>
             F == ToSet(b) \cup {f, g} \cup ToSet(c)
  <1>1. /\ Shape(b) /\ Len(b) = Len(c) /\ Last(b) = f /\ b[Len(c)] = f
        /\ \A i \in 1 .. Len(c) - 1 : b[i] = c[i]
    BY GoesOnIs
  <1>2. b \in Seq(F) /\ Front(c) \in Seq(F) /\ f \in F /\ g \in F
    <2>1. Front(c) \in Seq(ToSet(c)) /\ b \in Seq(ToSet(b))
      BY <1>1, FrontIs DEF Shape
    <2> HIDE DEF b
    <2> QED BY <2>1, SeqMonotonic
  <1>3. Len(c) \in Nat /\ Len(c) >= 1
    BY SeqIs DEF Shape
  <1>a. Len(Front(c)) = Len(c) - 1
    BY FrontIs DEF Shape
  <1> HIDE DEF F
  <1>4. d = Append(b, g)
    BY <1>2
  <1> HIDE DEF b, d
  <1>5. /\ d \in Seq(F) /\ Len(d) = Len(c) + 1 /\ d[Len(c) + 1] = g
        /\ \A i \in 1 .. Len(c) : d[i] = b[i]
    BY <1>1, <1>2, <1>3, <1>4
  <1>6. d \in Seq(ToSet(d)) /\ d # <<>> /\ Last(d) = g
    <2>1. d # <<>>
      BY <1>3, <1>5
    <2> QED BY <1>5, <2>1, SeqIs
  <1>7. d[Len(c)] = f /\ \A i \in 1 .. Len(c) - 1 : d[i] = c[i]
    BY <1>1, <1>3, <1>5
  <1>8. \A i \in 1 .. Len(d) : IsFrame(d[i])
    <2>1. TAKE i \in 1 .. Len(d)
    <2>2. i = Len(c) + 1 \/ i \in 1 .. Len(c)
      BY <1>3, <1>5
    <2> QED BY <1>1, <1>5, <2>2 DEF Shape
  <1>9. d[1].fn = "parse"
    BY <1>1, <1>3, <1>5 DEF Shape
  <1>10. ASSUME NEW i \in 1 .. Len(d) - 1 PROVE Waits(d[i], d[i + 1])
    <2>1. CASE i = Len(c)
      BY <1>5, <1>7, <2>1
    <2>2. CASE i # Len(c)
      <3>1. i \in 1 .. Len(b) - 1 /\ d[i] = b[i] /\ d[i + 1] = b[i + 1]
        BY <1>1, <1>3, <1>5, <2>2
      <3> QED BY <1>1, <3>1 DEF Shape
    <2> QED BY <2>1, <2>2
  <1> QED BY <1>5, <1>6, <1>7, <1>8, <1>9, <1>10 DEF Shape, d

\* The callers in c with the result of the call.
Resumed(c, node) == Append(Front(Front(c)), [Last(Front(c)) EXCEPT !.ret = node])

LEMMA ReturnIs ==
  ASSUME NEW c, Shape(c), Last(c).fn # "parse", NEW node
  PROVE  LET f == c[Len(c) - 1]
             d == Resumed(c, node)
         IN  /\ Shape(d) /\ Len(c) >= 2 /\ Len(d) = Len(c) - 1 /\ Waits(f, Last(c))
             /\ IsFrame(f) /\ IsFrame(Last(d))
             /\ Last(d) = [f EXCEPT !.ret = node] /\ d[Len(c) - 1] = [f EXCEPT !.ret = node]
             /\ \A i \in 1 .. Len(c) - 2 : d[i] = c[i]
  <1> DEFINE b == Front(c)
             f == c[Len(c) - 1]
             d == Resumed(c, node)
  <1>1. Len(c) \in Nat /\ Len(c) >= 2
    <2>1. Len(c) \in Nat /\ Len(c) >= 1 /\ Last(c) = c[Len(c)]
      BY SeqIs DEF Shape
    <2> QED BY <2>1 DEF Shape
  <1>2. b \in Seq(ToSet(c)) /\ Len(b) = Len(c) - 1 /\ \A i \in 1 .. Len(c) - 1 : b[i] = c[i]
    BY FrontIs DEF Shape
  <1> HIDE DEF b
  <1>3. b \in Seq(ToSet(b)) /\ b # <<>> /\ Last(b) = f
    <2>1. b # <<>>
      BY <1>1, <1>2
    <2>2. b \in Seq(ToSet(b))
      BY <1>2, SeqIs
    <2> QED BY <1>1, <1>2, <2>1, <2>2, SeqIs
  <1>4. Shape(b)
    <2>1. \A i \in 1 .. Len(b) : IsFrame(b[i])
      BY <1>1, <1>2 DEF Shape
    <2>2. b[1].fn = "parse"
      BY <1>1, <1>2 DEF Shape
    <2>3. \A i \in 1 .. Len(b) - 1 : Waits(b[i], b[i + 1])
      BY <1>1, <1>2 DEF Shape
    <2> QED BY <1>3, <2>1, <2>2, <2>3 DEF Shape
  <1>5. IsFrame(f) /\ Waits(f, Last(c))
    <2>1. Last(c) = c[Len(c)]
      BY SeqIs DEF Shape
    <2>2. Waits(c[Len(c) - 1], c[(Len(c) - 1) + 1])
      BY <1>1 DEF Shape
    <2>3. (Len(c) - 1) + 1 = Len(c)
      BY <1>1
    <2> QED BY <1>1, <2>1, <2>2, <2>3 DEF Shape
  <1> DEFINE r == [f EXCEPT !.ret = node]
  <1>6. IsFrame(r) /\ r.fn = f.fn
    BY <1>5 DEF IsFrame
  <1>7. d = Append(Front(b), r)
    BY <1>3 DEF b, Resumed
  <1> HIDE DEF r, d, f
  <1>8. /\ Shape(d) /\ Len(d) = Len(b) /\ Last(d) = r /\ d[Len(b)] = r
        /\ \A i \in 1 .. Len(b) - 1 : d[i] = b[i]
    BY <1>3, <1>4, <1>6, <1>7, GoesOnIs
  <1>9. \A i \in 1 .. Len(c) - 2 : d[i] = c[i]
    BY <1>1, <1>2, <1>8
  <1> QED BY <1>1, <1>2, <1>5, <1>6, <1>8, <1>9 DEF d, f, r

-----------------------------------------------------------------------------
(* The invariant of the stream and of the call stack. *)

SInv ==
  /\ StreamOK(s) /\ RankOK(s)
  /\ At("parse", "shrunk") \/ SkipOK(s)
  /\ Shape(calls)
  /\ status \in {"run", "done", "error", "type"}
  /\ tolerant \in BOOLEAN
  /\ prog \in Seq(ToSet(prog))

\* What a step keeps of the stream.
Fair(t, u) == StreamOK(u) /\ RankOK(u) /\ Rank(t) <= Rank(u) /\ Score(t) <= Score(u)

SStep ==
  /\ Fair(s, s')
  /\ At("parse", "shrunk")' \/ SkipOK(s')
  /\ ~tolerant => s'.prevSkip = s.prevSkip
  /\ Shape(calls')
  /\ tolerant' = tolerant

LEMMA OnFair ==
  ASSUME NEW t, NEW u, StreamOK(t), RankOK(t), On(t, u)
  PROVE  Fair(t, u) /\ SkipOK(u) /\ u.prevSkip = t.prevSkip
  BY ScoreOn, SkipRank DEF On, Fair

LEMMA OnSelf ==
  ASSUME NEW t, StreamOK(t), SkipOK(t)
  PROVE  On(t, t)
  BY RankType DEF On

LEMMA FairSelf ==
  ASSUME NEW t, StreamOK(t), RankOK(t)
  PROVE  Fair(t, t)
  <1>1. Rank(t) \in Nat
    BY RankType
  <1>2. Score(t) \in Int
    BY <1>1 DEF Score
  <1> QED BY <1>1, <1>2 DEF Fair

\* One more operation.
LEMMA OnMore ==
  ASSUME NEW t, NEW u, StreamOK(t), On(t, u)
  PROVE  /\ On(t, MaybeParse(u)) /\ On(t, Consume(u)) /\ On(t, SkipSpace(u)) /\ On(t, SkipWhite(u))
         /\ On(t, SkipLine(u)) /\ On(t, SkipSpaceComment(u)) /\ On(t, ClearComments(u))
         /\ \A on \in BOOLEAN : On(t, SetRegexMode(u, on))
         /\ (~Eos(u) => Rank(t) < Rank(Consume(u)))
  <1>1. StreamOK(u) /\ SkipOK(u) /\ RankOK(u)
    BY SkipRank DEF On
  <1>2. On(u, MaybeParse(u))
    BY <1>1, OnMaybeParse
  <1>3. On(u, Consume(u)) /\ (~Eos(u) => Rank(u) < Rank(Consume(u)))
    BY <1>1, OnConsume
  <1>4. On(u, SkipSpace(u)) /\ On(u, SkipWhite(u)) /\ On(u, SkipLine(u)) /\ On(u, SkipSpaceComment(u))
    BY <1>1, OnSkips
  <1>5. (\A on \in BOOLEAN : On(u, SetRegexMode(u, on))) /\ On(u, ClearComments(u))
    BY <1>1, OnSet
  <1>6. \A v : On(u, v) => On(t, v)
    BY OnTrans
  <1>7. ~Eos(u) => Rank(t) < Rank(Consume(u))
    <2>1. Rank(t) \in Nat /\ Rank(u) \in Nat /\ Rank(t) <= Rank(u) /\ StreamOK(Consume(u))
      BY <1>1, <1>3, RankType DEF On
    <2>2. Rank(Consume(u)) \in Nat
      BY <2>1, RankType
    <2> QED BY <1>3, <2>1, <2>2
  <1> QED BY <1>2, <1>3, <1>4, <1>5, <1>6, <1>7

LEMMA TopIs ==
  ASSUME Shape(calls)
  PROVE  IsFrame(Top) /\ Top = calls[Len(calls)] /\ Len(calls) \in Nat /\ Len(calls) >= 1
  <1>1. Len(calls) \in Nat /\ Len(calls) >= 1 /\ Top = calls[Len(calls)]
    BY SeqIs DEF Shape, Top
  <1> QED BY <1>1 DEF Shape

LEMMA FrameIs ==
  /\ \A fn : IsFrame(Frame(fn)) /\ Frame(fn).fn = fn
  /\ \A f : IsFrame(f) => /\ IsFrame(UpdateStack(f)) /\ UpdateStack(f).fn = f.fn
                          /\ UpdateStack(f).pc = f.pc /\ UpdateStack(f).depth = f.depth
                          /\ IsFrame(Popped(f)) /\ Popped(f).fn = f.fn
  <1>1. \A fn : IsFrame(Frame(fn)) /\ Frame(fn).fn = fn
    BY DEF IsFrame, Frame
  <1>3. ASSUME NEW f, IsFrame(f)
        PROVE  /\ IsFrame(UpdateStack(f)) /\ UpdateStack(f).fn = f.fn
               /\ UpdateStack(f).pc = f.pc /\ UpdateStack(f).depth = f.depth
    <2>1. CASE StackIsOnDepth(f) /\ f.depth \notin {CondLayer, AssignLayer}
      <3> DEFINE x == WithKid(Last(f.ops).expr, 2, f.expr)
                 y == Front(f.ops)
      <3>1. UpdateStack(f) = [f EXCEPT !.expr = x, !.ops = y]
        BY <2>1, <1>3 DEF UpdateStack, IsFrame
      <3> HIDE DEF x, y
      <3>2. LET g == [f EXCEPT !.expr = x, !.ops = y]
            IN  IsFrame(g) /\ g.fn = f.fn /\ g.pc = f.pc /\ g.depth = f.depth
        BY <1>3 DEF IsFrame
      <3> QED BY <3>1, <3>2
    <2>2. CASE ~(StackIsOnDepth(f) /\ f.depth \notin {CondLayer, AssignLayer})
      <3>1. UpdateStack(f) = f
        BY <2>2 DEF UpdateStack
      <3> QED BY <1>3, <3>1
    <2> QED BY <2>1, <2>2
  <1>4. ASSUME NEW f, IsFrame(f)
        PROVE  IsFrame(Popped(f)) /\ Popped(f).fn = f.fn
    <2> DEFINE x == WithKid(Last(f.ops).expr, Len(Last(f.ops).expr.kids), f.expr)
               y == Front(f.ops)
    <2>1. Popped(f) = [f EXCEPT !.expr = x, !.ops = y]
      BY <1>4 DEF Popped, IsFrame
    <2> HIDE DEF x, y
    <2>2. LET g == [f EXCEPT !.expr = x, !.ops = y] IN IsFrame(g) /\ g.fn = f.fn
      BY <1>4 DEF IsFrame
    <2> QED BY <2>1, <2>2
  <1> QED BY <1>1, <1>3, <1>4

\* How the call stack moves.
LEMMA GoesOnShape ==
  ASSUME Shape(calls), NEW f, GoesOn(f), IsFrame(f), f.fn = Top.fn
  PROVE  /\ Shape(calls') /\ Len(calls') = Len(calls) /\ Top' = f /\ calls'[Len(calls)] = f
         /\ \A i \in 1 .. Len(calls) - 1 : calls'[i] = calls[i]
  BY GoesOnIs DEF GoesOn, Top

LEMMA CallShape ==
  ASSUME Shape(calls), NEW f, NEW pc, NEW fn, Call(f, pc, fn), IsFrame(f), f.fn = Top.fn,
         Waits([f EXCEPT !.pc = pc], Frame(fn))
  PROVE  /\ Shape(calls') /\ Len(calls') = Len(calls) + 1 /\ Top' = Frame(fn)
         /\ calls'[Len(calls)] = [f EXCEPT !.pc = pc] /\ calls'[Len(calls) + 1] = Frame(fn)
         /\ \A i \in 1 .. Len(calls) - 1 : calls'[i] = calls[i]
  <1>1. IsFrame([f EXCEPT !.pc = pc]) /\ [f EXCEPT !.pc = pc].fn = Top.fn
    BY DEF IsFrame
  <1>2. IsFrame(Frame(fn))
    BY FrameIs
  <1> DEFINE h == [f EXCEPT !.pc = pc]
             g == Frame(fn)
  <1>3. calls' = Front(calls) \o <<h, g>>
    BY DEF Call
  <1> HIDE DEF h, g
  <1>4. Last(calls) = Top /\ IsFrame(h) /\ h.fn = Last(calls).fn /\ IsFrame(g) /\ Waits(h, g)
    BY <1>1, <1>2 DEF Top, h, g
  <1>5. Top' = Last(calls')
    BY DEF Top
  <1>6. LET d == Front(calls) \o <<h, g>>
        IN  /\ Shape(d) /\ Len(d) = Len(calls) + 1 /\ Last(d) = g /\ d[Len(calls)] = h
            /\ d[Len(calls) + 1] = g
            /\ \A i \in 1 .. Len(calls) - 1 : d[i] = calls[i]
    BY <1>4, CallIs
  <1> QED BY <1>3, <1>5, <1>6, Zenon DEF h, g

LEMMA ReturnShape ==
  ASSUME Shape(calls), NEW node, Return(node), Top.fn # "parse"
  PROVE  /\ Shape(calls') /\ Len(calls) >= 2 /\ Len(calls') = Len(calls) - 1
         /\ Waits(calls[Len(calls) - 1], Top) /\ IsFrame(calls[Len(calls) - 1])
         /\ Top' = [calls[Len(calls) - 1] EXCEPT !.ret = node]
         /\ calls'[Len(calls) - 1] = [calls[Len(calls) - 1] EXCEPT !.ret = node]
         /\ \A i \in 1 .. Len(calls) - 2 : calls'[i] = calls[i]
  <1>1. calls' = Resumed(calls, node)
    BY DEF Return, Resumed
  <1>2. Last(calls).fn # "parse" /\ Last(calls) = Top /\ Top' = Last(calls')
    BY DEF Top
  <1> DEFINE f == calls[Len(calls) - 1]
  <1>3. LET d == Resumed(calls, node)
        IN  /\ Shape(d) /\ Len(calls) >= 2 /\ Len(d) = Len(calls) - 1 /\ Waits(f, Last(calls))
            /\ IsFrame(f)
            /\ Last(d) = [f EXCEPT !.ret = node] /\ d[Len(calls) - 1] = [f EXCEPT !.ret = node]
            /\ \A i \in 1 .. Len(calls) - 2 : d[i] = calls[i]
    BY <1>2, ReturnIs
  <1> QED BY <1>1, <1>2, <1>3, Zenon

\* The run ends, and nothing moves.
LEMMA EndsStep ==
  ASSUME SInv, UNCHANGED <<s, tolerant, calls, prog>>, ~At("parse", "shrunk")
  PROVE  SStep
  BY FairSelf DEF SInv, SStep

\* A step that recovers nothing.
LEMMA OnStep ==
  ASSUME SInv, On(s, s'), Shape(calls'), tolerant' = tolerant
  PROVE  SStep
  BY OnFair DEF SInv, SStep

-----------------------------------------------------------------------------
(* The steps of parse, and what they do to the stream. *)

LEMMA ThrowStep ==
  ASSUME SInv, Throw, ~At("parse", "shrunk")
  PROVE  SStep
  BY EndsStep DEF Throw

LEMMA OnS ==
  ASSUME SInv, ~At("parse", "shrunk")
  PROVE  /\ StreamOK(s) /\ SkipOK(s) /\ RankOK(s) /\ On(s, s) /\ Shape(calls)
         /\ IsFrame(Top) /\ Top = calls[Len(calls)] /\ Len(calls) \in Nat /\ Len(calls) >= 1
  BY OnSelf, TopIs DEF SInv

LEMMA ParseStatementStep ==
  ASSUME SInv, ParseStatement
  PROVE  SStep
  <1>1. CASE ProgramEnds
    BY <1>1, EndsStep DEF ProgramEnds, At
  <1>2. CASE StatementBegins
    <2>1. ~At("parse", "shrunk") /\ Top.fn = "parse"
      BY <1>2 DEF StatementBegins, At
    <2>2. CASE InType
      BY <2>1, <2>2, EndsStep DEF InType
    <2>3. CASE s' = ClearComments(MaybeParse(s)) /\ Call(Top, "statement", "expr") /\ tolerant' = tolerant
      <3>1. On(s, MaybeParse(s))
        BY <2>1, OnS, OnMore
      <3>2. On(s, s')
        BY <2>1, <2>3, <3>1, OnS, OnMore
      <3>3. Waits([Top EXCEPT !.pc = "statement"], Frame("expr"))
        BY <2>1, OnS DEF Waits, Frame, IsFrame
      <3>4. Shape(calls')
        BY <2>1, <2>3, <3>3, OnS, CallShape
      <3> QED BY <2>3, <3>2, <3>4, OnStep
    <2> QED BY <1>2, <2>2, <2>3 DEF StatementBegins
  <1>3. CASE StatementEnds
    <2>1. ~At("parse", "shrunk") /\ Top.fn = "parse" /\ status = "run"
      BY <1>3 DEF StatementEnds, At
    <2>2. CASE InType
      BY <2>1, <2>2, EndsStep DEF InType
    <2> DEFINE f == [Top EXCEPT !.pc = "shrunk"]
    <2>3. ASSUME NEW t, t = s \/ t = SkipSpace(s), s' = Shrink(SkipLast(t)), GoesOn(f),
                 tolerant' = tolerant, status' = status
          PROVE  SStep
      <3>1. On(s, t)
        BY <2>1, <2>3, OnS, OnMore
      <3>2. On(s, SkipSpaceComment(t))
        BY <2>1, <3>1, OnS, OnMore
      <3>3. On(s, SkipLine(Consume(SkipSpaceComment(t))))
        <4>1. On(s, Consume(SkipSpaceComment(t)))
          BY <2>1, <3>2, OnS, OnMore
        <4> QED BY <2>1, <4>1, OnS, OnMore
      <3>4. On(s, SkipLast(t))
        BY <3>2, <3>3 DEF SkipLast
      <3> DEFINE u == SkipLast(t)
      <3> HIDE DEF u
      <3>5. StreamOK(u) /\ RankOK(u) /\ Fair(s, u) /\ u.prevSkip = s.prevSkip
        BY <2>1, <3>4, OnS, OnFair, SkipRank DEF On, u
      <3>6. /\ StreamOK(s') /\ RankOK(s') /\ Rank(s') = Rank(u) /\ s'.prevSkip = u.prevSkip
            /\ Score(s') = Score(u)
        BY <2>3, <3>5, ShrinkIs DEF u
      <3>7. Fair(s, s')
        BY <3>5, <3>6 DEF Fair
      <3>8. IsFrame(f) /\ f.fn = Top.fn /\ f.pc = "shrunk"
        BY <2>1, OnS DEF IsFrame
      <3>9. Shape(calls') /\ Top' = f
        BY <2>1, <2>3, <3>8, OnS, GoesOnShape
      <3>10. At("parse", "shrunk")'
        BY <2>1, <2>3, <3>8, <3>9 DEF At
      <3> QED BY <2>3, <3>5, <3>6, <3>7, <3>9, <3>10 DEF SStep
    <2> QED BY <1>3, <2>2, <2>3 DEF StatementEnds
  <1>4. CASE ProgramSkips
    <2>1. Top.fn = "parse" /\ s' = SkipWhite(s) /\ GoesOn([Top EXCEPT !.pc = "enter"]) /\ tolerant' = tolerant
      BY <1>4 DEF ProgramSkips, At, Keeps
    <2>2. StreamOK(s) /\ RankOK(s) /\ Shape(calls) /\ IsFrame(Top)
      BY TopIs DEF SInv
    <2>3. On(s, s')
      BY <2>1, <2>2, OnSkips
    <2>4. IsFrame([Top EXCEPT !.pc = "enter"]) /\ [Top EXCEPT !.pc = "enter"].fn = Top.fn
      BY <2>2 DEF IsFrame
    <2>5. Shape(calls')
      BY <2>1, <2>2, <2>4, GoesOnShape
    <2> QED BY <2>1, <2>3, <2>5, OnStep
  <1> QED BY <1>1, <1>2, <1>3, <1>4 DEF ParseStatement

LEMMA ExprBeginsStep ==
  ASSUME SInv, ExprBegins
  PROVE  SStep
  <1>1. ~At("parse", "shrunk") /\ Top.fn = "expr" /\ tolerant' = tolerant
    BY DEF ExprBegins, At, Keeps
  <1>2. On(s, MaybeParse(s)) /\ On(s, SetRegexMode(MaybeParse(s), FALSE))
    BY <1>1, OnS, OnMore
  <1>3. IsFrame([Top EXCEPT !.pc = "loop"]) /\ [Top EXCEPT !.pc = "loop"].fn = Top.fn
    BY <1>1, OnS DEF IsFrame
  <1>4. Waits([Top EXCEPT !.pc = "first"], Frame("unary"))
    BY <1>1, OnS DEF Waits, Frame, IsFrame
  <1>5. CASE AtRange(s)
    <2>1. s' = SetRegexMode(MaybeParse(s), FALSE) /\ GoesOn([Top EXCEPT !.pc = "loop"])
      BY <1>5 DEF ExprBegins
    <2> QED BY <1>1, <1>2, <1>3, <2>1, OnS, GoesOnShape, OnStep
  <1>6. CASE ~AtRange(s)
    <2>1. s' = MaybeParse(s) /\ Call(Top, "first", "unary")
      BY <1>6 DEF ExprBegins
    <2> QED BY <1>1, <1>2, <1>4, <2>1, OnS, CallShape, OnStep
  <1> QED BY <1>5, <1>6

LEMMA GetsOperandStep ==
  ASSUME SInv, GetsOperand
  PROVE  SStep
  <1>1. PICK pc \in {"first", "low", "right"} :
          /\ At("expr", pc)
          /\ s' = IF pc = "first" THEN SetRegexMode(s, FALSE) ELSE s
          /\ GoesOn([Top EXCEPT !.pc    = "loop",
                                !.depth = 1,
                                !.expr  = IF pc = "right" THEN WithKid(@, 2, Top.ret) ELSE Top.ret])
          /\ tolerant' = tolerant
    BY DEF GetsOperand, Keeps
  <1>2. ~At("parse", "shrunk") /\ Top.fn = "expr"
    BY <1>1 DEF At
  <1>3. On(s, SetRegexMode(s, FALSE)) /\ On(s, s)
    BY <1>2, OnS, OnMore
  <1> DEFINE e == IF pc = "right" THEN WithKid(Top.expr, 2, Top.ret) ELSE Top.ret
             f == [Top EXCEPT !.pc = "loop", !.depth = 1, !.expr = e]
  <1>4. GoesOn(f)
    BY <1>1
  <1> HIDE DEF e
  <1>5. IsFrame(f) /\ f.fn = Top.fn
    BY <1>2, OnS DEF IsFrame
  <1> QED BY <1>1, <1>2, <1>3, <1>4, <1>5, OnS, GoesOnShape, OnStep

LEMMA TakesThenStep ==
  ASSUME SInv, TakesThen
  PROVE  SStep
  <1>1. ~At("parse", "shrunk") /\ Top.fn = "expr"
    BY DEF TakesThen, At
  <1>2. CASE Throw
    BY <1>1, <1>2, ThrowStep
  <1> DEFINE f == [Top EXCEPT !.ops[Len(Top.ops)].expr = WithKid(@, 2, Top.expr)]
  <1>3. CASE s' = SkipWhite(Consume(SkipWhite(s))) /\ Call(f, "low", "unary") /\ Keeps
    <2>1. On(s, SkipWhite(s))
      BY <1>1, OnS, OnMore
    <2>2. On(s, Consume(SkipWhite(s)))
      BY <1>1, <2>1, OnS, OnMore
    <2>3. On(s, s')
      BY <1>1, <1>3, <2>2, OnS, OnMore
    <2> DEFINE o == [Top.ops EXCEPT ![Len(Top.ops)].expr = WithKid(@, 2, Top.expr)]
    <2>4. f = [Top EXCEPT !.ops = o]
      BY <1>1, OnS DEF IsFrame
    <2> HIDE DEF o
    <2>5. IsFrame(f) /\ f.fn = Top.fn
      BY <1>1, <2>4, OnS DEF IsFrame
    <2>6. Waits([f EXCEPT !.pc = "low"], Frame("unary"))
      BY <1>1, <2>5 DEF IsFrame, Waits, Frame
    <2> HIDE DEF f
    <2> QED BY <1>1, <1>3, <2>3, <2>5, <2>6, OnS, CallShape, OnStep DEF Keeps
  <1> QED BY <1>2, <1>3 DEF TakesThen

LEMMA TakesOperatorStep ==
  ASSUME SInv, TakesOperator
  PROVE  SStep
  <1>1. ~At("parse", "shrunk") /\ Top.fn = "expr"
    BY DEF TakesOperator, InLoop, At
  <1> DEFINE f  == UpdateStack(Top)
             t  == SkipSpace(s)
             op == Cur(t).text
             u  == SetRegexMode(Consume(t), TRUE)
             P(node) == [f EXCEPT !.ops = Append(@, [depth |-> f.depth, expr |-> node])]
  <1>2. IsFrame(f) /\ f.fn = "expr"
    BY <1>1, OnS, FrameIs
  <1>3. On(s, u)
    <2>1. On(s, t)
      BY <1>1, OnS, OnMore
    <2>2. On(s, Consume(t))
      BY <1>1, <2>1, OnS, OnMore
    <2> QED BY <1>1, <2>2, OnS, OnMore
  <1>4. CASE Throw
    BY <1>1, <1>4, ThrowStep
  <1>5. On(s, SkipWhite(u)) /\ On(s, SkipSpace(u))
    BY <1>1, <1>3, OnS, OnMore
  <1>6. On(s, SkipWhite(SkipSpace(u)))
    BY <1>1, <1>5, OnS, OnMore
  <1> HIDE DEF t, u, f, op
  <1>7. ASSUME NEW node, Call(P(node), "low", "unary"), On(s, s'), Keeps
        PROVE  SStep
    <2>1. IsFrame(P(node)) /\ P(node).fn = Top.fn
      BY <1>1, <1>2 DEF IsFrame
    <2>2. Waits([P(node) EXCEPT !.pc = "low"], Frame("unary"))
      BY <1>1, <2>1 DEF IsFrame, Waits, Frame
    <2> HIDE DEF P
    <2> QED BY <1>1, <1>7, <2>1, <2>2, OnS, CallShape, OnStep DEF Keeps
  <1>8. CASE s' = SkipSpace(u) /\ GoesOn([f EXCEPT !.expr = RangeOf(op, @)]) /\ Keeps
    <2>1. IsFrame([f EXCEPT !.expr = RangeOf(op, @)]) /\ [f EXCEPT !.expr = RangeOf(op, @)].fn = Top.fn
      BY <1>1, <1>2 DEF IsFrame
    <2> QED BY <1>1, <1>5, <1>8, <2>1, OnS, GoesOnShape, OnStep DEF Keeps
  <1>9. CASE s' = SkipWhite(u) /\ Call([f EXCEPT !.expr = Binary(op, @)], "right", "unary") /\ Keeps
    <2> DEFINE g == [f EXCEPT !.expr = Binary(op, @)]
    <2>1. IsFrame(g) /\ g.fn = Top.fn
      BY <1>1, <1>2 DEF IsFrame
    <2>2. Waits([g EXCEPT !.pc = "right"], Frame("unary"))
      BY <1>1, <2>1 DEF IsFrame, Waits, Frame
    <2> HIDE DEF g
    <2> QED BY <1>1, <1>5, <1>9, <2>1, <2>2, OnS, CallShape, OnStep DEF Keeps, g
  <1>10. \/ s' = SkipWhite(u) /\ Call(P(Cond(f.expr)), "low", "unary") /\ Keeps
         \/ Throw
         \/ s' = SkipWhite(SkipSpace(u)) /\ Call(P(RangeOf(op, f.expr)), "low", "unary") /\ Keeps
         \/ s' = SkipSpace(u) /\ GoesOn([f EXCEPT !.expr = RangeOf(op, @)]) /\ Keeps
         \/ s' = SkipWhite(u) /\ Call([f EXCEPT !.expr = Binary(op, @)], "right", "unary") /\ Keeps
         \/ s' = SkipWhite(u) /\ Call(P(Binary(op, f.expr)), "low", "unary") /\ Keeps
    BY DEF TakesOperator, f, t, u, op
  <1> HIDE DEF P
  <1> QED BY <1>4, <1>5, <1>6, <1>7, <1>8, <1>9, <1>10

LEMMA LeavesLayerStep ==
  ASSUME SInv, LeavesLayer
  PROVE  SStep
  <1>1. ~At("parse", "shrunk") /\ Top.fn = "expr" /\ s' = SkipSpace(s) /\ tolerant' = tolerant
    BY DEF LeavesLayer, InLoop, At, Keeps
  <1>2. On(s, s')
    BY <1>1, OnS, OnMore
  <1> DEFINE f == UpdateStack(Top)
  <1>3. IsFrame(f) /\ f.fn = "expr" /\ GoesOn([f EXCEPT !.pc = "pop"])
    BY <1>1, OnS, FrameIs DEF LeavesLayer
  <1> HIDE DEF f
  <1>4. IsFrame([f EXCEPT !.pc = "pop"]) /\ [f EXCEPT !.pc = "pop"].fn = Top.fn
    BY <1>1, <1>3 DEF IsFrame
  <1> QED BY <1>1, <1>2, <1>3, <1>4, OnS, GoesOnShape, OnStep

LEMMA PopsStackStep ==
  ASSUME SInv, PopsStack
  PROVE  SStep
  <1>1. ~At("parse", "shrunk") /\ Top.fn = "expr"
    BY DEF PopsStack, At
  <1>2. CASE Throw
    BY <1>1, <1>2, ThrowStep
  <1>3. CASE GoesOn(Popped(Top)) /\ UNCHANGED s /\ Keeps
    <2>1. IsFrame(Popped(Top)) /\ Popped(Top).fn = Top.fn
      BY <1>1, OnS, FrameIs
    <2> QED BY <1>1, <1>3, <2>1, OnS, GoesOnShape, OnStep DEF Keeps
  <1> QED BY <1>2, <1>3 DEF PopsStack

LEMMA GoesDeeperStep ==
  ASSUME SInv, GoesDeeper
  PROVE  SStep
  <1>1. /\ ~At("parse", "shrunk") /\ Top.fn = "expr" /\ s' = s /\ tolerant' = tolerant
        /\ GoesOn([Top EXCEPT !.pc = "loop", !.depth = Top.depth + 1])
    BY DEF GoesDeeper, At, Keeps
  <1> DEFINE f == [Top EXCEPT !.pc = "loop", !.depth = Top.depth + 1]
  <1>2. IsFrame(f) /\ f.fn = Top.fn
    BY <1>1, OnS DEF IsFrame
  <1> QED BY <1>1, <1>2, OnS, GoesOnShape, OnStep

LEMMA ExprReturnsStep ==
  ASSUME SInv, ExprReturns
  PROVE  SStep
  <1>1. /\ ~At("parse", "shrunk") /\ Top.fn = "expr" /\ s' = SetRegexMode(s, TRUE) /\ tolerant' = tolerant
        /\ Return(Top.expr)
    BY DEF ExprReturns, At, Keeps
  <1>2. On(s, s')
    BY <1>1, OnS, OnMore
  <1>3. Shape(calls')
    BY <1>1, OnS, ReturnShape
  <1> QED BY <1>1, <1>2, <1>3, OnStep

LEMMA ParseExprStep ==
  ASSUME SInv, ParseExpr
  PROVE  SStep
  BY ExprBeginsStep, GetsOperandStep, TakesThenStep, TakesOperatorStep, LeavesLayerStep,
     PopsStackStep, GoesDeeperStep, ExprReturnsStep DEF ParseExpr

LEMMA ParseUnaryStep ==
  ASSUME SInv, ParseUnary
  PROVE  SStep
  <1>1. /\ ~At("parse", "shrunk") /\ Top.fn = "unary" /\ tolerant' = tolerant
    BY DEF ParseUnary, UnaryBegins, TakesUnaryOp, TakesTarget, WrapsTarget, UnaryReturns, At, Keeps
  <1>2. CASE UnaryBegins
    <2>1. IsFrame([Top EXCEPT !.pc = "ops"]) /\ [Top EXCEPT !.pc = "ops"].fn = Top.fn
      BY <1>1, OnS DEF IsFrame
    <2>2. On(s, SkipSpace(s))
      BY <1>1, OnS, OnMore
    <2> QED BY <1>1, <1>2, <2>1, <2>2, OnS, GoesOnShape, OnStep DEF UnaryBegins
  <1>3. CASE TakesUnaryOp
    <2> DEFINE o == Append(Top.ops, Cur(s).text)
               f == [Top EXCEPT !.ops = o]
    <2>0. GoesOn(f) /\ s' = SkipWhite(Consume(s))
      BY <1>3 DEF TakesUnaryOp
    <2> HIDE DEF o
    <2>1. IsFrame(f) /\ f.fn = Top.fn
      BY <1>1, OnS DEF IsFrame
    <2>2. On(s, Consume(s))
      BY <1>1, OnS, OnMore
    <2>3. On(s, s')
      BY <1>1, <2>0, <2>2, OnS, OnMore
    <2> QED BY <1>1, <2>0, <2>1, <2>3, OnS, GoesOnShape, OnStep
  <1>4. CASE TakesTarget
    <2>1. Waits([Top EXCEPT !.pc = "target"], Frame("post"))
      BY <1>1, OnS DEF Waits, Frame, IsFrame
    <2>2. On(s, MaybeParse(s))
      BY <1>1, OnS, OnMore
    <2> QED BY <1>1, <1>4, <2>1, <2>2, OnS, CallShape, OnStep DEF TakesTarget
  <1>5. CASE WrapsTarget
    <2> DEFINE o == Front(Top.ops)
               r == Node("unary", Last(Top.ops), <<Top.ret>>)
               f == [Top EXCEPT !.ops = o, !.ret = r]
    <2>0. GoesOn(f) /\ s' = s
      BY <1>5 DEF WrapsTarget
    <2> HIDE DEF o, r
    <2>1. IsFrame(f) /\ f.fn = Top.fn
      BY <1>1, OnS DEF IsFrame
    <2> QED BY <1>1, <2>0, <2>1, OnS, GoesOnShape, OnStep
  <1>6. CASE UnaryReturns
    BY <1>1, <1>6, OnS, ReturnShape, OnStep DEF UnaryReturns
  <1> QED BY <1>2, <1>3, <1>4, <1>5, <1>6 DEF ParseUnary

\* A recovery, which the tolerant mode makes.
LEMMA RecoverStep ==
  ASSUME SInv, ~At("parse", "shrunk"), tolerant, NEW u, On(s, u), ~CannotRecover(u),
         s' = Recover(u) \/ s' = SetRegexMode(Recover(u), FALSE), Shape(calls'), tolerant' = tolerant
  PROVE  SStep /\ Score(s) < Score(s') /\ Rank(s) \in Nat /\ Score(s) \in Int /\ Score(s') \in Int
  <1> DEFINE v == Recover(u)
  <1>1. StreamOK(u) /\ SkipOK(u) /\ Fair(s, u)
    BY OnFair, OnS DEF On
  <1>2. /\ StreamOK(v) /\ SkipOK(v) /\ Rank(u) <= Rank(v)
        /\ Score(u) \in Int /\ Score(v) \in Int /\ Score(u) < Score(v)
    BY <1>1, RecoverIs
  <1>3. RankOK(v) /\ Rank(v) \in Nat /\ Rank(u) \in Nat /\ Rank(s) \in Nat
    BY <1>1, <1>2, SkipRank, RankType, OnS
  <1>4. On(v, v) /\ On(v, SetRegexMode(v, FALSE))
    BY <1>2, OnSelf, OnSet
  <1>5. On(v, s')
    BY <1>4
  <1> HIDE DEF v
  <1>6. Fair(v, s') /\ SkipOK(s')
    BY <1>2, <1>3, <1>5, OnFair
  <1>7. Rank(s') \in Nat /\ Score(s') \in Int /\ Score(s) \in Int
    <2>1. Rank(s') \in Nat
      BY <1>6, RankType DEF Fair
    <2>2. \A t : Rank(t) \in Nat => Score(t) \in Int
      BY DEF Score
    <2> QED BY <1>3, <2>1, <2>2
  <1>8. Rank(s) <= Rank(s') /\ Score(s) < Score(s')
    BY <1>1, <1>2, <1>3, <1>6, <1>7 DEF Fair
  <1>9. Fair(s, s')
    BY <1>6, <1>7, <1>8 DEF Fair
  <1> QED BY <1>3, <1>6, <1>7, <1>8, <1>9 DEF SStep

LEMMA OperandShape ==
  ASSUME SInv, ~At("parse", "shrunk"), NEW t, NEW node, Operand(t, node)
  PROVE  /\ Shape(calls') /\ tolerant' = tolerant /\ s' = SetRegexMode(t, FALSE)
         /\ Len(calls') = Len(calls) /\ Top' = [Top EXCEPT !.pc = "loop", !.expr = node]
         /\ \A i \in 1 .. Len(calls) - 1 : calls'[i] = calls[i]
  <1> DEFINE f == [Top EXCEPT !.pc = "loop", !.expr = node]
  <1>1. IsFrame(f) /\ f.fn = Top.fn
    BY OnS DEF IsFrame
  <1>2. GoesOn(f) /\ tolerant' = tolerant /\ s' = SetRegexMode(t, FALSE)
    BY DEF Operand, Keeps
  <1> HIDE DEF f
  <1>3. /\ Shape(calls') /\ Len(calls') = Len(calls) /\ Top' = f
        /\ \A i \in 1 .. Len(calls) - 1 : calls'[i] = calls[i]
    BY <1>1, <1>2, OnS, GoesOnShape
  <1> QED BY <1>2, <1>3 DEF f

LEMMA OperandStep ==
  ASSUME SInv, ~At("parse", "shrunk"), NEW t, On(s, t), NEW node, Operand(t, node)
  PROVE  SStep
  <1>1. On(s, SetRegexMode(t, FALSE))
    BY OnS, OnMore
  <1> QED BY <1>1, OperandShape, OnStep

LEMMA ParsePrimStep ==
  ASSUME SInv, ParsePrim
  PROVE  SStep
  <1>1. ~At("parse", "shrunk") /\ Top.fn = "post"
    BY DEF ParsePrim, At
  <1>2. On(s, s) /\ On(s, Consume(s))
    BY <1>1, OnS, OnMore
  <1>3. CASE Operand(Consume(s), Leaf(Cur(s)))
    BY <1>1, <1>2, <1>3, OperandStep
  <1>4. CASE s' = SkipWhite(Consume(s)) /\ Call(Top, "paren", "expr") /\ Keeps
    <2>1. On(s, s')
      BY <1>1, <1>2, <1>4, OnS, OnMore
    <2>2. Waits([Top EXCEPT !.pc = "paren"], Frame("expr"))
      BY <1>1, OnS DEF Waits, Frame, IsFrame
    <2> QED BY <1>1, <1>4, <2>1, <2>2, OnS, CallShape, OnStep DEF Keeps
  <1>5. CASE Throw
    BY <1>1, <1>5, ThrowStep
  <1>6. CASE tolerant /\ ~CannotRecover(s) /\ Operand(Recover(s), BadExpr)
    BY <1>1, <1>2, <1>6, OperandShape, RecoverStep
  <1> QED BY <1>3, <1>4, <1>5, <1>6 DEF ParsePrim

LEMMA ParenEndsStep ==
  ASSUME SInv, ParenEnds
  PROVE  SStep
  <1>1. ~At("parse", "shrunk") /\ Top.fn = "post"
    BY DEF ParenEnds, At
  <1>2. On(s, SkipWhite(s))
    BY <1>1, OnS, OnMore
  <1>3. On(s, Consume(SkipWhite(s)))
    BY <1>1, <1>2, OnS, OnMore
  <1>4. CASE Throw
    BY <1>1, <1>4, ThrowStep
  <1>5. CASE Operand(Consume(SkipWhite(s)), Node("paren", "(", <<Top.ret>>))
    BY <1>1, <1>3, <1>5, OperandStep
  <1> QED BY <1>4, <1>5 DEF ParenEnds

LEMMA CallBeginsStep ==
  ASSUME SInv, CallBegins
  PROVE  SStep
  <1> DEFINE u == SkipWhite(Consume(SkipSpace(s)))
  <1>1. ~At("parse", "shrunk") /\ Top.fn = "post" /\ tolerant' = tolerant
    BY DEF CallBegins, At, Keeps
  <1>2. On(s, u) /\ On(s, Consume(u))
    <2>1. On(s, SkipSpace(s))
      BY <1>1, OnS, OnMore
    <2>2. On(s, Consume(SkipSpace(s)))
      BY <1>1, <2>1, OnS, OnMore
    <2>3. On(s, u)
      BY <1>1, <2>2, OnS, OnMore
    <2> QED BY <1>1, <2>3, OnS, OnMore
  <1> DEFINE n == Node("call", "(", <<Top.expr>>)
             f == [Top EXCEPT !.expr = n]
  <1>3. \/ s' = Consume(u) /\ GoesOn(f)
        \/ s' = u /\ Call(Top, "call", "expr")
    BY DEF CallBegins
  <1> HIDE DEF u, n
  <1>4. IsFrame(f) /\ f.fn = Top.fn
    BY <1>1, OnS DEF IsFrame
  <1>5. Waits([Top EXCEPT !.pc = "call"], Frame("expr"))
    BY <1>1, OnS DEF Waits, Frame, IsFrame
  <1> HIDE DEF f
  <1>6. Shape(calls')
    BY <1>1, <1>3, <1>4, <1>5, OnS, GoesOnShape, CallShape
  <1> QED BY <1>1, <1>2, <1>3, <1>6, OnStep

LEMMA IndexBeginsStep ==
  ASSUME SInv, IndexBegins
  PROVE  SStep
  <1>1. /\ ~At("parse", "shrunk") /\ Top.fn = "post" /\ tolerant' = tolerant
        /\ s' = SkipWhite(Consume(SkipSpace(s))) /\ Call(Top, "index", "expr")
    BY DEF IndexBegins, At, Keeps
  <1>2. On(s, SkipSpace(s))
    BY <1>1, OnS, OnMore
  <1>3. On(s, Consume(SkipSpace(s)))
    BY <1>1, <1>2, OnS, OnMore
  <1>4. On(s, s')
    BY <1>1, <1>3, OnS, OnMore
  <1>5. Waits([Top EXCEPT !.pc = "index"], Frame("expr"))
    BY <1>1, OnS DEF Waits, Frame, IsFrame
  <1> QED BY <1>1, <1>4, <1>5, OnS, CallShape, OnStep

LEMMA BracketClosesStep ==
  ASSUME SInv, BracketCloses
  PROVE  SStep
  <1>1. PICK pc \in {"call", "index"} :
          /\ At("post", pc)
          /\ Must(SkipWhite(s), IF pc = "call" THEN ")" ELSE "]",
                  GoesOn([Top EXCEPT !.pc   = "loop",
                                     !.expr = Node(pc, IF pc = "call" THEN "(" ELSE "[", <<@, Top.ret>>)]))
    BY DEF BracketCloses
  <1>2. ~At("parse", "shrunk") /\ Top.fn = "post"
    BY <1>1 DEF At
  <1>3. On(s, SkipWhite(s))
    BY <1>2, OnS, OnMore
  <1>4. On(s, Consume(SkipWhite(s)))
    BY <1>2, <1>3, OnS, OnMore
  <1>5. CASE Throw
    BY <1>2, <1>5, ThrowStep
  <1> DEFINE n == Node(pc, IF pc = "call" THEN "(" ELSE "[", <<Top.expr, Top.ret>>)
             f == [Top EXCEPT !.pc = "loop", !.expr = n]
  <1>6. CASE s' = Consume(SkipWhite(s)) /\ GoesOn(f) /\ Keeps
    <2> HIDE DEF n
    <2>1. IsFrame(f) /\ f.fn = Top.fn
      BY <1>2, OnS DEF IsFrame
    <2> HIDE DEF f
    <2> QED BY <1>2, <1>4, <1>6, <2>1, OnS, GoesOnShape, OnStep DEF Keeps
  <1> QED BY <1>1, <1>5, <1>6 DEF Must

LEMMA AccessStep ==
  ASSUME SInv, Access
  PROVE  SStep
  <1> DEFINE u == SkipWhite(Consume(SkipSpace(s)))
             f(node) == [Top EXCEPT !.expr = Node("dot", ".", <<@, node>>)]
  <1>1. ~At("parse", "shrunk") /\ Top.fn = "post"
    BY DEF Access, At
  <1>2. On(s, u) /\ On(s, Consume(u))
    <2>1. On(s, SkipSpace(s))
      BY <1>1, OnS, OnMore
    <2>2. On(s, Consume(SkipSpace(s)))
      BY <1>1, <2>1, OnS, OnMore
    <2>3. On(s, u)
      BY <1>1, <2>2, OnS, OnMore
    <2> QED BY <1>1, <2>3, OnS, OnMore
  <1>3. \/ s' = Consume(u) /\ GoesOn(f(Leaf(Cur(u)))) /\ Keeps
        \/ Throw
        \/ tolerant /\ ~CannotRecover(u) /\ s' = Recover(u) /\ GoesOn(f(BadExpr)) /\ Keeps
    BY DEF Access
  <1> HIDE DEF u
  <1>4. ASSUME NEW node, GoesOn(f(node)) PROVE Shape(calls')
    <2> DEFINE n == Node("dot", ".", <<Top.expr, node>>)
    <2>0. GoesOn([Top EXCEPT !.expr = n])
      BY <1>4
    <2> HIDE DEF n
    <2>1. IsFrame([Top EXCEPT !.expr = n]) /\ [Top EXCEPT !.expr = n].fn = Top.fn
      BY <1>1, OnS DEF IsFrame
    <2> QED BY <1>1, <2>0, <2>1, OnS, GoesOnShape
  <1>5. CASE s' = Consume(u) /\ GoesOn(f(Leaf(Cur(u)))) /\ Keeps
    <2>1. Shape(calls')
      BY <1>4, <1>5
    <2> QED BY <1>2, <1>5, <2>1, OnStep DEF Keeps
  <1>6. CASE Throw
    BY <1>1, <1>6, ThrowStep
  <1>7. CASE tolerant /\ ~CannotRecover(u) /\ s' = Recover(u) /\ GoesOn(f(BadExpr)) /\ Keeps
    <2>1. Shape(calls')
      BY <1>4, <1>7
    <2> QED BY <1>1, <1>2, <1>7, <2>1, RecoverStep DEF Keeps
  <1> QED BY <1>3, <1>5, <1>6, <1>7

LEMMA PostReturnsStep ==
  ASSUME SInv, PostReturns
  PROVE  SStep
  <1>1. /\ ~At("parse", "shrunk") /\ Top.fn = "post" /\ tolerant' = tolerant
        /\ s' = SkipSpace(s) /\ Return(Top.expr)
    BY DEF PostReturns, At, Keeps
  <1>2. On(s, s')
    BY <1>1, OnS, OnMore
  <1> QED BY <1>1, <1>2, OnS, ReturnShape, OnStep

LEMMA ParsePostStep ==
  ASSUME SInv, ParsePost
  PROVE  SStep
  BY ParsePrimStep, ParenEndsStep, CallBeginsStep, IndexBeginsStep, BracketClosesStep, AccessStep,
     PostReturnsStep DEF ParsePost

\* The program grows by one or not at all.
LEMMA ProgStep ==
  ASSUME prog \in Seq(ToSet(prog)), [Next]_vars
  PROVE  /\ prog' \in Seq(ToSet(prog'))
         /\ Len(prog) \in Nat /\ Len(prog') \in Nat
         /\ StatementEnds \/ prog' = prog
         /\ Len(prog') = Len(prog) \/ Len(prog') = Len(prog) + 1
  <1>1. Len(prog) \in Nat
    OBVIOUS
  <1>2. CASE prog' = prog
    BY <1>1, <1>2
  <1>3. CASE StatementEnds
    <2>1. prog' = prog \/ prog' = Append(prog, Top.ret)
      BY <1>3 DEF StatementEnds, InType
    <2>2. CASE prog' = Append(prog, Top.ret)
      <3> DEFINE F == ToSet(prog) \cup {Top.ret}
      <3>1. prog \in Seq(F) /\ Top.ret \in F
        BY SeqMonotonic
      <3> HIDE DEF F
      <3>2. prog' \in Seq(F) /\ Len(prog') = Len(prog) + 1
        BY <2>2, <3>1
      <3> QED BY <1>1, <1>3, <3>2, SeqIs
    <2> QED BY <1>2, <2>1, <2>2
  <1>4. StatementEnds \/ prog' = prog
    BY DEF Next, vars, ParseStatement, ParseExpr, ParseUnary, ParsePost, Finished,
       ProgramEnds, StatementBegins, ProgramSkips, InType, Throw, Keeps, ExprBegins, GetsOperand,
       TakesThen, TakesOperator, LeavesLayer, PopsStack, GoesDeeper, ExprReturns, UnaryBegins,
       TakesUnaryOp, TakesTarget, WrapsTarget, UnaryReturns, ParsePrim, Operand, ParenEnds,
       CallBegins, IndexBegins, BracketCloses, Must, Access, PostReturns
  <1> QED BY <1>2, <1>3, <1>4

LEMMA StatusStep ==
  ASSUME status \in {"run", "done", "error", "type"}, [Next]_vars
  PROVE  status' \in {"run", "done", "error", "type"}
  BY DEF Next, vars, ParseStatement, ParseExpr, ParseUnary, ParsePost, Finished,
     ProgramEnds, StatementBegins, StatementEnds, ProgramSkips, InType, Throw, Keeps, ExprBegins,
     GetsOperand, TakesThen, TakesOperator, LeavesLayer, PopsStack, GoesDeeper, ExprReturns,
     UnaryBegins, TakesUnaryOp, TakesTarget, WrapsTarget, UnaryReturns, ParsePrim, Operand,
     ParenEnds, CallBegins, IndexBegins, BracketCloses, Must, Access, PostReturns

-----------------------------------------------------------------------------
(* The iterators of the stream stay in the list. *)

LEMMA NewStreamOn ==
  ASSUME NEW text \in Seq(Lexemes)
  PROVE  LET t == NewStream(text)
         IN  /\ StreamOK(t) /\ On(t, SkipLine(SetRegexMode(t, TRUE)))
             /\ t.prevSkip = None /\ Rank(t) = 1 /\ Score(t) = 0 /\ RankOK(t)
  <1> DEFINE t == NewStream(text)
  <1>1. /\ t.tokens = <<>> /\ t.input = text /\ t.begin = 1 /\ t.cur = 1 /\ t.lastSkip = None
        /\ t.prevSkip = None
    BY DEF NewStream
  <1>2. t \in Streams
    <2>1. <<>> \in Seq(Tokens) /\ <<>> \in Seq(Nat)
      OBVIOUS
    <2> QED BY <2>1 DEF NewStream, Streams, None
  <1> HIDE DEF t
  <1>3. Len(t.tokens) = 0 /\ Lexed(t) = 0 /\ Len(text) \in Nat
    BY <1>1 DEF Lexed
  <1>4. StreamOK(t)
    BY <1>1, <1>2, <1>3 DEF StreamOK, End, None
  <1>5. SkipOK(t) /\ RankOK(t) /\ Rank(t) = 1
    BY <1>1 DEF SkipOK, RankOK, Rank
  <1>6. Score(t) = 0
    BY <1>1, <1>5 DEF Score, None
  <1>7. On(t, t)
    BY <1>4, <1>5, OnSelf
  <1>8. On(t, SetRegexMode(t, TRUE))
    BY <1>4, <1>7, OnMore
  <1>9. On(t, SkipLine(SetRegexMode(t, TRUE)))
    BY <1>4, <1>8, OnMore
  <1> QED BY <1>1, <1>4, <1>5, <1>6, <1>9 DEF t

LEMMA InitS ==
  ASSUME Init
  PROVE  SInv
  <1>1. PICK text \in Sources : s = SkipLine(SetRegexMode(NewStream(text), TRUE))
    BY DEF Init
  <1>2. text \in Seq(Lexemes)
    BY SourcesAssumption
  <1>3. StreamOK(s) /\ SkipOK(s) /\ RankOK(s)
    BY <1>1, <1>2, NewStreamOn, SkipRank DEF On
  <1>4. Shape(calls)
    <2> DEFINE f == Frame("parse")
    <2>1. IsFrame(f) /\ f.fn = "parse"
      BY FrameIs
    <2> HIDE DEF f
    <2>2. calls = <<f>>
      BY DEF Init, f
    <2>3. calls \in Seq({f}) /\ Len(calls) = 1 /\ calls[1] = f /\ calls # <<>>
      BY <2>2
    <2>4. calls \in Seq(ToSet(calls))
      BY <2>3, SeqIs
    <2> QED BY <2>1, <2>3, <2>4 DEF Shape
  <1>5. prog \in Seq(ToSet(prog)) /\ tolerant \in BOOLEAN /\ status = "run"
    BY DEF Init
  <1> QED BY <1>3, <1>4, <1>5 DEF SInv

\* Every step keeps the stream and the call stack in order.
LEMMA NextS ==
  ASSUME SInv, [Next]_vars
  PROVE  SInv' /\ (SStep \/ UNCHANGED vars)
  <1>1. CASE UNCHANGED vars
    BY <1>1 DEF vars, SInv, At, Top
  <1>2. CASE Next /\ ~UNCHANGED vars
    <2>1. SStep
      BY <1>2, ParseStatementStep, ParseExprStep, ParseUnaryStep, ParsePostStep DEF Next, Finished
    <2>2. prog' \in Seq(ToSet(prog'))
      BY ProgStep DEF SInv
    <2>3. status' \in {"run", "done", "error", "type"}
      BY StatusStep DEF SInv
    <2> QED BY <2>1, <2>2, <2>3 DEF SInv, SStep, Fair
  <1> QED BY <1>1, <1>2

LEMMA IteratorsFromS ==
  ASSUME SInv
  PROVE  IteratorsInList
  <1>1. Len(calls) \in Nat /\ Len(calls) >= 1
    BY TopIs DEF SInv
  <1>2. s.begin \in Nat /\ s.cur \in Nat /\ End(s) \in Nat /\ 1 <= s.begin /\ s.begin <= s.cur
    BY StreamTypes DEF SInv
  <1>3. s.begin \in 1 .. End(s) /\ s.cur \in s.begin .. End(s)
    BY DEF SInv, StreamOK
  <1>4. s.prevSkip # None => s.prevSkip \in s.begin .. s.cur
    BY DEF SInv, StreamOK
  <1>5. s.lastSkip # None /\ ~At("parse", "shrunk") => s.lastSkip \in s.begin .. s.cur - 1
    BY DEF SInv, SkipOK
  <1> QED BY <1>1, <1>3, <1>4, <1>5 DEF IteratorsInList, SInv

LEMMA SpecS == Spec => []SInv
  <1>1. Init => SInv
    BY InitS
  <1>2. SInv /\ [Next]_vars => SInv'
    BY NextS
  <1> QED BY <1>1, <1>2, PTL DEF Spec

\* Every iterator that the stream keeps points into its list when it is used:
\* after any sequence of calls, recoveries and erasures, for every text.
THEOREM IteratorsKept == Spec => []IteratorsInList
  <1>1. SInv => IteratorsInList
    BY IteratorsFromS
  <1> QED BY <1>1, SpecS, PTL

-----------------------------------------------------------------------------
(* Statements advance.  A statement that has begun and not yet consumed a    *)
(* token is followed by a step that consumes one, recovers or throws.        *)

\* An expression that begins with the range operator at the cursor.
Gap(f) ==
  /\ f.pc \in {"loop", "pop"} /\ f.ops = <<>> /\ f.depth \in 1 .. RangeLayer
  /\ f.pc = "pop" => f.depth # RangeLayer
  /\ AtRange(s) /\ NotAt(s, {})

Fresh ==
  \/ Len(calls) = 2 /\ (calls[2] = Frame("expr") \/ Gap(calls[2]))
  \/ Len(calls) = 3 /\ calls[3].pc \in {"enter", "ops"}
  \/ Len(calls) = 4 /\ calls[4].pc = "enter"

\* The statement under way is one of the program's, or will be.
Pending == IF calls[1].pc = "statement" /\ ~Fresh THEN 1 ELSE 0

AInv ==
  /\ Len(prog) + Pending <= Score(s)
  /\ ~tolerant => s.prevSkip = None /\ Len(prog) + Pending <= Rank(s) - 1

Strict == Score(s) < Score(s') /\ Rank(s) < Rank(s')

LEMMA StrictOn ==
  ASSUME SInv, NEW v, StreamOK(v), RankOK(v), On(s, v), Rank(s) < Rank(v), On(v, s')
  PROVE  Strict
  <1>1. Score(s) \in Int /\ Score(v) \in Int /\ Score(s) < Score(v)
    BY ScoreOn DEF SInv
  <1>2. Score(v) <= Score(s') /\ Score(s') \in Int /\ Rank(v) <= Rank(s')
    BY ScoreOn DEF On
  <1>3. Rank(s) \in Nat /\ Rank(v) \in Nat /\ Rank(s') \in Nat
    BY RankType DEF SInv, On
  <1> QED BY <1>1, <1>2, <1>3 DEF Strict

LEMMA ConsumeOn ==
  ASSUME SInv, NEW t, On(s, t), ~Eos(t)
  PROVE  LET v == Consume(t)
         IN  StreamOK(v) /\ RankOK(v) /\ SkipOK(v) /\ On(s, v) /\ Rank(s) < Rank(v) /\ On(v, v)
  <1>1. On(s, Consume(t)) /\ Rank(s) < Rank(Consume(t))
    BY OnMore DEF SInv
  <1> QED BY <1>1, SkipRank, OnSelf DEF On

\* Who is on top of a fresh statement.
LEMMA FreshTop ==
  ASSUME SInv, Fresh
  PROVE  /\ ~At("parse", "shrunk") /\ IsFrame(Top) /\ calls[1].pc = "statement"
         /\ Len(calls) = 2 => Top = calls[2] /\ Top.fn = "expr"
         /\ Len(calls) = 3 => Top = calls[3] /\ Top.fn = "unary"
         /\ Len(calls) = 4 => Top = calls[4] /\ Top.fn = "post"
  <1>1. Shape(calls) /\ Top = calls[Len(calls)] /\ Len(calls) \in Nat /\ IsFrame(Top)
    BY TopIs DEF SInv
  <1>2. Len(calls) \in {2, 3, 4}
    BY DEF Fresh
  <1>3. Waits(calls[1], calls[2]) /\ calls[1].fn = "parse"
    <2>1. 1 \in 1 .. Len(calls) - 1 /\ 1 + 1 = 2
      BY <1>2
    <2> QED BY <1>1, <2>1 DEF Shape
  <1>4. calls[2].fn = "expr" /\ calls[1].pc = "statement"
    BY <1>3 DEF Waits
  <1>5. Len(calls) # 2 => calls[3].fn = "unary"
    <2>1. SUFFICES ASSUME Len(calls) # 2 PROVE calls[3].fn = "unary"
      OBVIOUS
    <2>2. 2 \in 1 .. Len(calls) - 1 /\ 2 + 1 = 3
      <3> DEFINE l == Len(calls)
      <3>1. l = 3 \/ l = 4
        BY <1>2, <2>1
      <3> HIDE DEF l
      <3>2. 2 \in 1 .. l - 1
        BY <3>1
      <3> QED BY <3>2 DEF l
    <2>3. Waits(calls[2], calls[3])
      BY <1>1, <2>2 DEF Shape
    <2> QED BY <1>4, <2>3 DEF Waits
  <1>6. Len(calls) = 4 => calls[4].fn = "post"
    <2>1. SUFFICES ASSUME Len(calls) = 4 PROVE calls[4].fn = "post"
      OBVIOUS
    <2>2. 3 \in 1 .. Len(calls) - 1 /\ 3 + 1 = 4
      BY <2>1
    <2>3. Waits(calls[3], calls[4])
      BY <1>1, <2>2 DEF Shape
    <2> QED BY <1>5, <2>1, <2>3 DEF Waits
  <1> QED BY <1>1, <1>2, <1>4, <1>5, <1>6 DEF At

LEMMA AtRangeIs ==
  /\ RangeLayer = 7 /\ BinLayerLen = 9 /\ BinLayers[7] = {"..", "..="}
  /\ \A t : AtRange(t) <=> ~Eos(t) /\ Cur(t).text \in {"..", "..="}
  <1>1. RangeLayer = 7 /\ BinLayerLen = 9 /\ BinLayers[7] = {"..", "..="}
    BY DEF RangeLayer, BinLayerLen, BinLayers
  <1> QED BY <1>1 DEF AtRange, Expect

\* An expression that begins at the range operator.
LEMMA GapBegins ==
  ASSUME SInv, ~At("parse", "shrunk"), AtRange(s)
  PROVE  LET u == SetRegexMode(MaybeParse(s), FALSE) IN AtRange(u) /\ NotAt(u, {})
  <1> DEFINE m == MaybeParse(s)
  <1>1. StreamOK(m) /\ Parsed(m) /\ (Eos(m) <=> Eos(s)) /\ Cur(m) = Cur(s) /\ (~Eos(s) => Cur(s) \in Tokens)
    BY MaybeParseIs DEF SInv
  <1>2. ~Eos(s) /\ Cur(s).text \in {"..", "..="}
    BY AtRangeIs
  <1>3. Cur(s).tag # "space"
    BY <1>1, <1>2 DEF Tokens, Blank, Space, Line, Hash
  <1>4. NotAt(m, {})
    BY <1>1, <1>3 DEF NotAt
  <1> HIDE DEF m
  <1>5. LET u == SetRegexMode(m, FALSE) IN NotAt(u, {}) /\ (Eos(u) <=> Eos(m)) /\ Cur(u) = Cur(m)
    BY <1>4, SetRegexModeStays
  <1> QED BY <1>1, <1>2, <1>5, AtRangeIs DEF m

LEMMA FreshStep ==
  ASSUME SInv, Fresh, Next
  PROVE  Fresh' \/ Strict \/ (tolerant /\ Score(s) < Score(s')) \/ UNCHANGED <<s, calls>>
  <1> USE FreshTop
  <1>0. StreamOK(s) /\ SkipOK(s) /\ RankOK(s) /\ On(s, s) /\ Shape(calls)
    BY OnS
  <1>1. CASE Len(calls) = 2 /\ calls[2] = Frame("expr")
    <2>1. Top.fn = "expr" /\ Top.pc = "enter" /\ Top = Frame("expr")
      BY <1>1 DEF Frame
    <2>2. ExprBegins \/ UNCHANGED <<s, calls>>
      BY <2>1 DEF Next, vars, ParseStatement, ParseExpr, ParseUnary, ParsePost, Finished, At, InLoop,
         ProgramEnds, StatementBegins, StatementEnds, ProgramSkips, GetsOperand, TakesThen,
         TakesOperator, LeavesLayer, PopsStack, GoesDeeper, ExprReturns, UnaryBegins, TakesUnaryOp,
         TakesTarget, WrapsTarget, UnaryReturns, ParsePrim, ParenEnds, CallBegins, IndexBegins,
         BracketCloses, Access, PostReturns
    <2>3. CASE ExprBegins /\ AtRange(s)
      <3>1. s' = SetRegexMode(MaybeParse(s), FALSE) /\ GoesOn([Top EXCEPT !.pc = "loop"])
        BY <2>3 DEF ExprBegins
      <3>2. IsFrame([Top EXCEPT !.pc = "loop"]) /\ [Top EXCEPT !.pc = "loop"].fn = Top.fn
        BY DEF IsFrame
      <3>3. Len(calls') = 2 /\ calls'[2] = [Top EXCEPT !.pc = "loop"]
        BY <1>0, <1>1, <3>1, <3>2, GoesOnShape
      <3>4. AtRange(s') /\ NotAt(s', {})
        BY <2>3, <3>1, GapBegins
      <3>5. Gap(calls[2])'
        <4>1. /\ [Top EXCEPT !.pc = "loop"].pc = "loop" /\ [Top EXCEPT !.pc = "loop"].ops = <<>>
              /\ [Top EXCEPT !.pc = "loop"].depth = 1
          BY <2>1 DEF Frame
        <4>2. 1 \in 1 .. RangeLayer
          BY AtRangeIs
        <4> QED BY <3>3, <3>4, <4>1, <4>2 DEF Gap
      <3> QED BY <3>3, <3>5 DEF Fresh
    <2>4. CASE ExprBegins /\ ~AtRange(s)
      <3>1. Call(Top, "first", "unary")
        BY <2>4 DEF ExprBegins
      <3>2. Waits([Top EXCEPT !.pc = "first"], Frame("unary"))
        BY <2>1 DEF Waits, Frame, IsFrame
      <3>3. Len(calls') = 3 /\ calls'[3] = Frame("unary")
        BY <1>0, <1>1, <3>1, <3>2, CallShape
      <3> QED BY <3>3 DEF Fresh, Frame
    <2> QED BY <2>2, <2>3, <2>4
  <1>2. CASE Len(calls) = 2 /\ Gap(calls[2])
    <2>0. Top.fn = "expr" /\ Gap(Top)
      BY <1>2
    <2>1. /\ Top.pc \in {"loop", "pop"} /\ Top.ops = <<>> /\ Top.depth \in 1 .. 7 /\ AtRange(s)
          /\ NotAt(s, {}) /\ ~StackIsOnDepth(Top) /\ UpdateStack(Top) = Top /\ ~WantsThen(Top)
          /\ ~Pops(Top)
      BY <2>0, AtRangeIs DEF Gap, StackIsOnDepth, UpdateStack, WantsThen, Pops
    <2>a. ~(Top.depth > BinLayerLen)
      BY <2>1, AtRangeIs
    <2>b. Top.fn = "expr" /\ (Top.pc = "loop" \/ Top.pc = "pop") /\ ~WantsThen(Top) /\ ~Pops(Top)
      BY <2>0, <2>1
    <2>2. TakesOperator \/ LeavesLayer \/ GoesDeeper \/ UNCHANGED <<s, calls>>
      BY <2>a, <2>b DEF Next, vars, ParseStatement, ParseExpr, ParseUnary, ParsePost, Finished, At, InLoop,
         ProgramEnds, StatementBegins, StatementEnds, ProgramSkips, ExprBegins, GetsOperand, TakesThen,
         PopsStack, ExprReturns, UnaryBegins, TakesUnaryOp,
         TakesTarget, WrapsTarget, UnaryReturns, ParsePrim, ParenEnds, CallBegins, IndexBegins,
         BracketCloses, Access, PostReturns
    <2> DEFINE t == SkipSpace(s)
    <2>3. /\ NotAt(t, {}) /\ t.cur = s.cur /\ ~Eos(t) /\ Cur(t) = Cur(s) /\ AtRange(t)
      BY <2>1, SkipSpaceStays, AtRangeIs
    <2>4. On(s, t)
      BY <1>0, OnMore
    <2>5. CASE TakesOperator
      <3> DEFINE v == Consume(t)
                 u == SetRegexMode(v, TRUE)
      <3>1. StreamOK(v) /\ RankOK(v) /\ SkipOK(v) /\ On(s, v) /\ Rank(s) < Rank(v) /\ On(v, v)
        BY <2>3, <2>4, ConsumeOn
      <3>2. On(v, u)
        BY <3>1, OnMore
      <3>3. On(v, SkipWhite(u)) /\ On(v, SkipSpace(u))
        BY <3>1, <3>2, OnMore
      <3>4. On(v, SkipWhite(SkipSpace(u)))
        BY <3>1, <3>3, OnMore
      <3>5. \/ s' = SkipWhite(u) \/ s' = SkipSpace(u) \/ s' = SkipWhite(SkipSpace(u))
            \/ UNCHANGED <<s, calls>>
        BY <2>5 DEF TakesOperator, Throw
      <3> HIDE DEF u, v
      <3> QED BY <3>1, <3>3, <3>4, <3>5, StrictOn
    <2>6. CASE LeavesLayer
      <3>1. s' = t /\ GoesOn([Top EXCEPT !.pc = "pop"]) /\ ~OpAt(t, Top.depth) /\ Top.pc = "loop"
        BY <2>1, <2>6 DEF LeavesLayer, InLoop, At
      <3>2. IsFrame([Top EXCEPT !.pc = "pop"]) /\ [Top EXCEPT !.pc = "pop"].fn = Top.fn
        BY DEF IsFrame
      <3>3. Len(calls') = 2 /\ calls'[2] = [Top EXCEPT !.pc = "pop"]
        BY <1>0, <1>2, <3>1, <3>2, GoesOnShape
      <3>4. Top.depth # 7
        BY <2>3, <3>1, AtRangeIs DEF OpAt
      <3>5. Gap(calls[2])'
        <4>1. /\ [Top EXCEPT !.pc = "pop"].pc = "pop" /\ [Top EXCEPT !.pc = "pop"].ops = <<>>
              /\ [Top EXCEPT !.pc = "pop"].depth = Top.depth
          BY <2>1 DEF IsFrame
        <4> HIDE DEF t
        <4> QED BY <2>1, <2>3, <3>1, <3>3, <3>4, <4>1, AtRangeIs DEF Gap
      <3> QED BY <3>3, <3>5 DEF Fresh
    <2>7. CASE GoesDeeper
      <3> DEFINE f == [Top EXCEPT !.pc = "loop", !.depth = Top.depth + 1]
      <3>1. s' = s /\ GoesOn(f) /\ Top.pc = "pop"
        BY <2>7 DEF GoesDeeper, At
      <3>2. IsFrame(f) /\ f.fn = Top.fn
        BY DEF IsFrame
      <3>3. Len(calls') = 2 /\ calls'[2] = f
        BY <1>0, <1>2, <3>1, <3>2, GoesOnShape
      <3>4. Top.depth + 1 \in 1 .. 7
        BY <2>0, <2>1, <3>1, AtRangeIs DEF Gap
      <3>5. Gap(calls[2])'
        <4>1. f.pc = "loop" /\ f.ops = <<>> /\ f.depth = Top.depth + 1
          BY <2>1 DEF IsFrame
        <4> HIDE DEF f
        <4> QED BY <2>1, <3>1, <3>3, <3>4, <4>1, AtRangeIs DEF Gap
      <3> QED BY <3>3, <3>5 DEF Fresh
    <2> QED BY <2>2, <2>5, <2>6, <2>7
  <1>3. CASE Len(calls) = 3 /\ calls[3].pc \in {"enter", "ops"}
    <2>1. Top.fn = "unary" /\ Top.pc \in {"enter", "ops"}
      BY <1>3
    <2>2. UnaryBegins \/ TakesUnaryOp \/ TakesTarget \/ UNCHANGED <<s, calls>>
      BY <2>1 DEF Next, vars, ParseStatement, ParseExpr, ParseUnary, ParsePost, Finished, At, InLoop,
         ProgramEnds, StatementBegins, StatementEnds, ProgramSkips, ExprBegins, GetsOperand, TakesThen,
         TakesOperator, LeavesLayer, PopsStack, GoesDeeper, ExprReturns, WrapsTarget, UnaryReturns,
         ParsePrim, ParenEnds, CallBegins, IndexBegins, BracketCloses, Access, PostReturns
    <2>3. CASE UnaryBegins
      <3> DEFINE f == [Top EXCEPT !.pc = "ops"]
      <3>1. GoesOn(f)
        BY <2>3 DEF UnaryBegins
      <3>2. IsFrame(f) /\ f.fn = Top.fn /\ f.pc = "ops"
        BY DEF IsFrame
      <3> HIDE DEF f
      <3>3. Len(calls') = 3 /\ calls'[3].pc = "ops"
        BY <1>0, <1>3, <3>1, <3>2, GoesOnShape
      <3> QED BY <3>3 DEF Fresh
    <2>4. CASE TakesUnaryOp
      <3> DEFINE v == Consume(s)
      <3>1. ~Eos(s) /\ s' = SkipWhite(v)
        BY <2>4 DEF TakesUnaryOp, AtUnaryOp
      <3>2. StreamOK(v) /\ RankOK(v) /\ SkipOK(v) /\ On(s, v) /\ Rank(s) < Rank(v) /\ On(v, v)
        BY <1>0, <3>1, ConsumeOn
      <3>3. On(v, s')
        BY <3>1, <3>2, OnMore
      <3> HIDE DEF v
      <3> QED BY <3>2, <3>3, StrictOn
    <2>5. CASE TakesTarget
      <3>1. Call(Top, "target", "post")
        BY <2>5 DEF TakesTarget
      <3>2. Waits([Top EXCEPT !.pc = "target"], Frame("post"))
        BY <2>1 DEF Waits, Frame, IsFrame
      <3>3. Len(calls') = 4 /\ calls'[4] = Frame("post")
        BY <1>0, <1>3, <3>1, <3>2, CallShape
      <3> QED BY <3>3 DEF Fresh, Frame
    <2> QED BY <2>2, <2>3, <2>4, <2>5
  <1>4. CASE Len(calls) = 4 /\ calls[4].pc = "enter"
    <2>1. Top.fn = "post" /\ Top.pc = "enter"
      BY <1>4
    <2>2. ParsePrim \/ UNCHANGED <<s, calls>>
      BY <2>1 DEF Next, vars, ParseStatement, ParseExpr, ParseUnary, ParsePost, Finished, At, InLoop,
         ProgramEnds, StatementBegins, StatementEnds, ProgramSkips, ExprBegins, GetsOperand, TakesThen,
         TakesOperator, LeavesLayer, PopsStack, GoesDeeper, ExprReturns, UnaryBegins, TakesUnaryOp,
         TakesTarget, WrapsTarget, UnaryReturns, ParenEnds, CallBegins, IndexBegins, BracketCloses,
         Access, PostReturns
    <2>3. CASE ParsePrim /\ (ExpectTag(s, {"ident", "regex_literal"}) \/ Expect(s, "("))
      <3> DEFINE v == Consume(s)
      <3>1. ~Eos(s)
        BY <2>3 DEF ExpectTag, Expect
      <3>2. StreamOK(v) /\ RankOK(v) /\ SkipOK(v) /\ On(s, v) /\ Rank(s) < Rank(v) /\ On(v, v)
        BY <1>0, <3>1, ConsumeOn
      <3>3. s' = SetRegexMode(v, FALSE) \/ s' = SkipWhite(v)
        BY <2>3 DEF ParsePrim, Operand
      <3>4. On(v, s')
        BY <3>2, <3>3, OnMore
      <3> HIDE DEF v
      <3> QED BY <3>2, <3>4, StrictOn
    <2>4. CASE ParsePrim /\ ~(ExpectTag(s, {"ident", "regex_literal"}) \/ Expect(s, "("))
      <3>1. \/ Throw
            \/ tolerant /\ ~CannotRecover(s) /\ Operand(Recover(s), BadExpr)
        BY <2>4 DEF ParsePrim
      <3>2. CASE tolerant /\ ~CannotRecover(s) /\ Operand(Recover(s), BadExpr)
        BY <1>0, <3>2, OperandShape, RecoverStep
      <3> QED BY <3>1, <3>2 DEF Throw
    <2> QED BY <2>2, <2>3, <2>4
  <1> QED BY <1>1, <1>2, <1>3, <1>4 DEF Fresh

LEMMA NotFreshTop ==
  ASSUME SInv, Len(calls) = 1 \/ calls[1].pc # "statement" \/ Top.fn = "parse"
  PROVE  Len(calls) = 1 /\ ~Fresh /\ Top = calls[1] /\ Top.fn = "parse"
  <1>1. Shape(calls) /\ Top = calls[Len(calls)] /\ Len(calls) \in Nat /\ Len(calls) >= 1
    BY TopIs DEF SInv
  <1>2. CASE Len(calls) # 1
    <2>1. 1 \in 1 .. Len(calls) - 1 /\ Len(calls) - 1 \in 1 .. Len(calls) - 1 /\ 1 + 1 = 2
          /\ (Len(calls) - 1) + 1 = Len(calls)
      BY <1>1, <1>2
    <2>2. Waits(calls[1], calls[2]) /\ calls[1].fn = "parse"
      BY <1>1, <2>1 DEF Shape
    <2>3. Waits(calls[Len(calls) - 1], calls[Len(calls)])
      BY <1>1, <2>1 DEF Shape
    <2>4. calls[1].pc = "statement"
      BY <2>2 DEF Waits
    <2>5. Top.fn # "parse"
      BY <1>1, <2>3 DEF Waits
    <2> QED BY <1>2, <2>4, <2>5
  <1>3. CASE Len(calls) = 1
    BY <1>1, <1>3 DEF Fresh, Shape
  <1> QED BY <1>2, <1>3

LEMMA NextA ==
  ASSUME SInv, AInv, [Next]_vars
  PROVE  AInv'
  <1>0. SInv' /\ (SStep \/ UNCHANGED vars) /\ Pending \in {0, 1} /\ Pending' \in {0, 1}
    BY NextS DEF Pending
  <1>1. /\ Len(prog) \in Nat /\ Len(prog') \in Nat
        /\ StatementEnds \/ prog' = prog
    BY ProgStep DEF SInv
  <1>2. /\ Score(s) \in Int /\ Score(s') \in Int /\ Rank(s) \in Nat /\ Rank(s') \in Nat
    <2>1. Rank(s) \in Nat /\ Rank(s') \in Nat
      BY <1>0, RankType DEF SInv
    <2>2. \A t : Rank(t) \in Nat => Score(t) \in Int
      BY DEF Score
    <2> QED BY <2>1, <2>2
  <1>3. CASE UNCHANGED vars
    <2>1. Pending' = Pending
      BY <1>3 DEF vars, Pending, Fresh, Gap
    <2> QED BY <1>3, <2>1 DEF vars, AInv
  <1>4. CASE SStep /\ Next
    <2>1. /\ Score(s) <= Score(s') /\ Rank(s) <= Rank(s') /\ tolerant' = tolerant
          /\ ~tolerant => s'.prevSkip = s.prevSkip
      BY <1>4 DEF SStep, Fair
    <2>2. ASSUME Len(prog') + Pending' <= Len(prog) + Pending PROVE AInv'
      BY <1>0, <1>1, <1>2, <2>1, <2>2 DEF AInv
    <2>3. CASE StatementEnds
      <3>1. Len(calls) = 1 /\ ~Fresh /\ Top = calls[1] /\ Top.fn = "parse" /\ Top.pc = "statement"
        BY <2>3, NotFreshTop DEF StatementEnds, At
      <3>2. Pending = 1
        BY <3>1 DEF Pending
      <3>3. CASE InType
        BY <1>0, <1>1, <2>2, <3>2, <3>3 DEF InType
      <3>4. CASE GoesOn([Top EXCEPT !.pc = "shrunk"])
        <4>1. IsFrame(Top) /\ Shape(calls)
          BY TopIs DEF SInv
        <4>2. IsFrame([Top EXCEPT !.pc = "shrunk"]) /\ [Top EXCEPT !.pc = "shrunk"].fn = Top.fn
              /\ [Top EXCEPT !.pc = "shrunk"].pc = "shrunk"
          BY <4>1 DEF IsFrame
        <4>3. calls'[1].pc = "shrunk"
          BY <3>1, <3>4, <4>1, <4>2, GoesOnShape
        <4>4. Pending' = 0
          BY <4>3 DEF Pending
        <4>5. Len(prog') <= Len(prog) + 1
          BY <1>1, ProgStep DEF SInv
        <4> QED BY <1>1, <2>2, <3>2, <4>4, <4>5
      <3> QED BY <2>3, <3>3, <3>4 DEF StatementEnds
    <2>4. CASE prog' = prog /\ Pending = 1
      BY <1>0, <1>1, <2>2, <2>4
    <2>5. CASE prog' = prog /\ Fresh
      <3>1. Pending = 0
        BY <2>5 DEF Pending
      <3>2. CASE Fresh'
        <4>1. Pending' = 0
          BY <3>2 DEF Pending
        <4> QED BY <1>1, <2>2, <2>5, <3>1, <4>1
      <3>3. CASE Score(s) < Score(s') /\ (tolerant \/ Rank(s) < Rank(s'))
        BY <1>0, <1>1, <1>2, <2>1, <2>5, <3>1, <3>3 DEF AInv
      <3>4. CASE UNCHANGED <<s, calls>>
        <4>1. Fresh'
          BY <2>5, <3>4 DEF Fresh, Gap
        <4> QED BY <3>2, <4>1
      <3> QED BY <1>4, <2>5, <3>2, <3>3, <3>4, FreshStep DEF Strict
    <2>6. CASE prog' = prog /\ calls[1].pc # "statement"
      <3>1. Len(calls) = 1 /\ Top = calls[1] /\ Top.fn = "parse" /\ Top.pc # "statement"
        BY <2>6, NotFreshTop
      <3>2. ProgramEnds \/ StatementBegins \/ ProgramSkips \/ UNCHANGED vars
        BY <1>4, <3>1 DEF Next, ParseStatement, ParseExpr, ParseUnary, ParsePost, Finished, At, InLoop,
           StatementEnds, ExprBegins, GetsOperand, TakesThen, TakesOperator, LeavesLayer, PopsStack,
           GoesDeeper, ExprReturns, UnaryBegins, TakesUnaryOp, TakesTarget, WrapsTarget, UnaryReturns,
           ParsePrim, ParenEnds, CallBegins, IndexBegins, BracketCloses, Access, PostReturns
      <3>a. IsFrame(Top) /\ Shape(calls)
        BY TopIs DEF SInv
      <3>3. CASE UNCHANGED calls
        <4>1. Pending' = 0
          BY <2>6, <3>3 DEF Pending
        <4> QED BY <1>0, <1>1, <2>2, <2>6, <4>1
      <3>4. CASE Call(Top, "statement", "expr")
        <4>1. Waits([Top EXCEPT !.pc = "statement"], Frame("expr"))
          BY <3>1, <3>a DEF Waits, Frame, IsFrame
        <4>2. Len(calls') = 2 /\ calls'[2] = Frame("expr")
          BY <3>1, <3>4, <3>a, <4>1, CallShape
        <4>3. Pending' = 0
          BY <4>2 DEF Pending, Fresh
        <4> QED BY <1>0, <1>1, <2>2, <2>6, <4>3
      <3>5. CASE GoesOn([Top EXCEPT !.pc = "enter"])
        <4>1. IsFrame([Top EXCEPT !.pc = "enter"]) /\ [Top EXCEPT !.pc = "enter"].fn = Top.fn
              /\ [Top EXCEPT !.pc = "enter"].pc = "enter"
          BY <3>a DEF IsFrame
        <4>2. calls'[1].pc = "enter"
          BY <3>1, <3>5, <3>a, <4>1, GoesOnShape
        <4>3. Pending' = 0
          BY <4>2 DEF Pending
        <4> QED BY <1>0, <1>1, <2>2, <2>6, <4>3
      <3> QED BY <3>2, <3>3, <3>4, <3>5 DEF ProgramEnds, StatementBegins, ProgramSkips, InType, vars
    <2> QED BY <1>1, <2>3, <2>4, <2>5, <2>6 DEF Pending
  <1> QED BY <1>0, <1>3, <1>4

LEMMA InitA ==
  ASSUME Init
  PROVE  AInv
  <1>1. PICK text \in Sources : s = SkipLine(SetRegexMode(NewStream(text), TRUE))
    BY DEF Init
  <1>2. text \in Seq(Lexemes)
    BY SourcesAssumption
  <1> DEFINE t == NewStream(text)
  <1>3. /\ StreamOK(t) /\ On(t, s) /\ t.prevSkip = None /\ Rank(t) = 1 /\ Score(t) = 0 /\ RankOK(t)
    BY <1>1, <1>2, NewStreamOn
  <1> HIDE DEF t
  <1>4. Score(s) >= 0 /\ Rank(s) >= 1 /\ s.prevSkip = None /\ Rank(s) \in Nat /\ Score(s) \in Int
    BY <1>3, ScoreOn, RankType DEF On
  <1>5. calls[1].pc = "enter" /\ Len(prog) = 0
    BY DEF Init, Frame
  <1>6. Pending = 0
    BY <1>5 DEF Pending
  <1> QED BY <1>4, <1>5, <1>6 DEF AInv

LEMMA AdvanceFromA ==
  ASSUME SInv, AInv
  PROVE  StatementsAdvance
  <1>1. /\ Rank(s) \in Nat /\ Rank(s) <= s.cur /\ 1 <= Rank(s) /\ s.cur \in Nat
    BY RankType, StreamTypes DEF SInv
  <1>2. Len(prog) \in Nat /\ Pending \in {0, 1}
    BY DEF SInv, Pending
  <1>3. Score(s) <= 2 * (s.cur - 1) + 1 /\ Score(s) \in Int
    BY <1>1 DEF Score
  <1> QED BY <1>1, <1>2, <1>3 DEF AInv, StatementsAdvance

LEMMA SpecA == Spec => [](SInv /\ AInv)
  <1>1. Init => SInv /\ AInv
    BY InitS, InitA
  <1>2. SInv /\ AInv /\ [Next]_vars => (SInv /\ AInv)'
    BY NextS, NextA
  <1> QED BY <1>1, <1>2, PTL DEF Spec

\* Error tolerance ends: the program has no more than two statements for each
\* token the parser is past, and in the strict mode fewer than tokens.
THEOREM StatementsConsume == Spec => []StatementsAdvance
  <1>1. SInv /\ AInv => StatementsAdvance
    BY AdvanceFromA
  <1> QED BY <1>1, SpecA, PTL

-----------------------------------------------------------------------------
(* The levels below a set of nodes, one after the other. *)

Kids(nodes) == UNION {ToSet(n.kids) : n \in nodes}

Levels(g, nodes, m) == g = [k \in 0 .. m |-> IF k = 0 THEN nodes ELSE Kids(g[k - 1])]

LEMMA LevelsSome ==
  ASSUME NEW nodes
  PROVE  \A m \in Nat : \E g : Levels(g, nodes, m)
  <1> DEFINE P == {m \in Nat : \E g : Levels(g, nodes, m)}
  <1>1. 0 \in P
    <2>1. Levels([k \in 0 .. 0 |-> nodes], nodes, 0)
      BY DEF Levels
    <2> QED BY <2>1
  <1>2. ASSUME NEW m \in P PROVE m + 1 \in P
    <2>1. PICK g : Levels(g, nodes, m)
      OBVIOUS
    <2> DEFINE h == [k \in 0 .. m + 1 |-> IF k = m + 1 THEN Kids(g[m]) ELSE g[k]]
    <2>2. \A k \in 0 .. m : h[k] = g[k]
      OBVIOUS
    <2>3. \A k \in 0 .. m : g[k] = IF k = 0 THEN nodes ELSE Kids(g[k - 1])
      BY <2>1 DEF Levels
    <2>4. ASSUME NEW k \in 0 .. m + 1
          PROVE  h[k] = IF k = 0 THEN nodes ELSE Kids(h[k - 1])
      <3>1. CASE k = m + 1
        <4>1. h[k] = Kids(g[m]) /\ k - 1 = m /\ k # 0
          BY <3>1
        <4> QED BY <4>1, <2>2
      <3>2. CASE k # m + 1
        <4>1. k \in 0 .. m /\ (k # 0 => k - 1 \in 0 .. m)
          BY <3>2
        <4> QED BY <4>1, <2>2, <2>3
      <3> QED BY <3>1, <3>2
    <2>5. Levels(h, nodes, m + 1)
      BY <2>4, Zenon DEF Levels
    <2> QED BY <2>5
  <1> HIDE DEF P
  <1>3. \A m \in Nat : m \in P
    <2>1. P \in SUBSET Nat
      BY DEF P
    <2> QED BY <1>1, <1>2, <2>1, NatSet
  <1> QED BY <1>3 DEF P

LEMMA LevelsSame ==
  ASSUME NEW nodes, NEW g, NEW h, NEW m \in Nat, NEW l \in Nat, Levels(g, nodes, m), Levels(h, nodes, l)
  PROVE  \A k \in Nat : k <= m /\ k <= l => g[k] = h[k]
  <1> DEFINE P == {k \in Nat : k <= m /\ k <= l => g[k] = h[k]}
  <1>1. 0 \in P
    BY DEF Levels
  <1>2. ASSUME NEW k \in P PROVE k + 1 \in P
    <2>1. SUFFICES ASSUME k + 1 <= m, k + 1 <= l PROVE g[k + 1] = h[k + 1]
      OBVIOUS
    <2>2. g[k] = h[k]
      BY <2>1
    <2>3. g[k + 1] = Kids(g[k])
      BY <2>1 DEF Levels
    <2>4. h[k + 1] = Kids(h[k])
      BY <2>1 DEF Levels
    <2> QED BY <2>2, <2>3, <2>4
  <1> HIDE DEF P
  <1>3. \A k \in Nat : k \in P
    <2>1. P \in SUBSET Nat
      BY DEF P
    <2> QED BY <1>1, <1>2, <2>1, NatSet
  <1> QED BY <1>3 DEF P

LEMMA BelowIs ==
  ASSUME NEW nodes
  PROVE  /\ Below(nodes)[0] = nodes
         /\ \A k \in Nat : Below(nodes)[k + 1] = Kids(Below(nodes)[k])
  <1> DEFINE G(m) == CHOOSE g : Levels(g, nodes, m)
             F == [k \in Nat |-> G(k)[k]]
             IsIt(f) == f = [k \in Nat |-> IF k = 0 THEN nodes ELSE UNION {ToSet(n.kids) : n \in f[k - 1]}]
             level == CHOOSE f : IsIt(f)
  <1>1. \A m \in Nat : Levels(G(m), nodes, m)
    BY LevelsSome
  <1> HIDE DEF G
  <1>2. \A m \in Nat : G(m + 1)[m] = G(m)[m]
    BY <1>1, LevelsSame
  <1>3. IsIt(F)
    <2>1. ASSUME NEW k \in Nat PROVE F[k] = IF k = 0 THEN nodes ELSE Kids(F[k - 1])
      <3>1. G(k)[k] = IF k = 0 THEN nodes ELSE Kids(G(k)[k - 1])
        <4>1. Levels(G(k), nodes, k)
          BY <1>1
        <4> QED BY <4>1 DEF Levels
      <3>2. k # 0 => k - 1 \in Nat /\ G(k)[k - 1] = G(k - 1)[k - 1]
        <4>1. k # 0 => k - 1 \in Nat /\ (k - 1) + 1 = k
          OBVIOUS
        <4> QED BY <4>1, <1>2
      <3> QED BY <3>1, <3>2
    <2>2. \A k \in Nat : F[k] = IF k = 0 THEN nodes ELSE UNION {ToSet(n.kids) : n \in F[k - 1]}
      BY <2>1, Zenon DEF Kids
    <2>3. F = [k \in Nat |-> F[k]]
      OBVIOUS
    <2> HIDE DEF F
    <2> QED BY <2>2, <2>3, Zenon
  <1>4. Below(nodes) = level
    BY Zenon DEF Below
  <1>5. IsIt(level)
    <2> HIDE DEF IsIt
    <2> QED BY <1>3, Zenon
  <1> HIDE DEF level
  <1>6. \A k \in Nat : level[k] = IF k = 0 THEN nodes ELSE Kids(level[k - 1])
    BY <1>5, Zenon DEF Kids
  <1>7. level[0] = nodes
    BY <1>6
  <1>8. \A k \in Nat : level[k + 1] = Kids(level[k])
    <2>1. \A k \in Nat : k + 1 \in Nat /\ k + 1 # 0 /\ (k + 1) - 1 = k
      OBVIOUS
    <2> QED BY <2>1, <1>6
  <1> QED BY <1>4, <1>7, <1>8

LEMMA KidsIs ==
  \A nodes, x : x \in Kids(nodes) <=> \E n \in nodes : x \in ToSet(n.kids)
  BY Zenon DEF Kids

\* The levels below a set are the levels below its members.
LEMMA BelowMembers ==
  ASSUME NEW nodes
  PROVE  \A k \in Nat : \A x : x \in Below(nodes)[k] <=> \E n \in nodes : x \in Below({n})[k]
  <1> DEFINE P == {k \in Nat : \A x : x \in Below(nodes)[k] <=> \E n \in nodes : x \in Below({n})[k]}
  <1>1. 0 \in P
    <2>1. Below(nodes)[0] = nodes /\ \A n : Below({n})[0] = {n}
      BY BelowIs
    <2>2. ASSUME NEW x PROVE x \in Below(nodes)[0] <=> \E n \in nodes : x \in Below({n})[0]
      <3>1. \A n : x \in Below({n})[0] <=> x = n
        BY <2>1
      <3>2. x \in Below(nodes)[0] <=> x \in nodes
        BY <2>1
      <3> QED BY <3>1, <3>2, Zenon
    <2> QED BY <2>2
  <1>2. ASSUME NEW k \in P PROVE k + 1 \in P
    <2>1. k \in Nat /\ k + 1 \in Nat
      OBVIOUS
    <2>2. \A x : x \in Below(nodes)[k] <=> \E n \in nodes : x \in Below({n})[k]
      OBVIOUS
    <2>3. Below(nodes)[k + 1] = Kids(Below(nodes)[k])
      BY <2>1, BelowIs
    <2>4. \A n : Below({n})[k + 1] = Kids(Below({n})[k])
      BY <2>1, BelowIs
    <2>5. ASSUME NEW x PROVE x \in Below(nodes)[k + 1] <=> \E n \in nodes : x \in Below({n})[k + 1]
      <3>1. x \in Below(nodes)[k + 1] <=> \E m \in Below(nodes)[k] : x \in ToSet(m.kids)
        BY <2>3, KidsIs
      <3>2. \A n : x \in Below({n})[k + 1] <=> \E m \in Below({n})[k] : x \in ToSet(m.kids)
        <4>1. TAKE n
        <4>2. Below({n})[k + 1] = Kids(Below({n})[k])
          BY <2>4
        <4> DEFINE S == Below({n})[k]
        <4>3. Below({n})[k + 1] = Kids(S)
          BY <4>2
        <4> HIDE DEF S
        <4>4. x \in Below({n})[k + 1] <=> \E m \in S : x \in ToSet(m.kids)
          BY <4>3, KidsIs
        <4> QED BY <4>4 DEF S
      <3> QED BY <2>2, <3>1, <3>2, Zenon
    <2> QED BY <2>1, <2>5
  <1> HIDE DEF P
  <1>3. \A k \in Nat : k \in P
    <2>1. P \in SUBSET Nat
      BY DEF P
    <2> QED BY <1>1, <1>2, <2>1, NatSet
  <1> QED BY <1>3 DEF P

\* The levels below the children come one sooner.
LEMMA BelowKids ==
  ASSUME NEW nodes
  PROVE  \A k \in Nat : Below(nodes)[k + 1] = Below(Kids(nodes))[k]
  <1> DEFINE P == {k \in Nat : Below(nodes)[k + 1] = Below(Kids(nodes))[k]}
  <1>1. 0 \in P
    <2>1. Below(nodes)[0 + 1] = Kids(Below(nodes)[0]) /\ Below(nodes)[0] = nodes
      BY BelowIs
    <2>2. Below(Kids(nodes))[0] = Kids(nodes)
      BY BelowIs
    <2> QED BY <2>1, <2>2
  <1>2. ASSUME NEW k \in P PROVE k + 1 \in P
    <2>1. k \in Nat /\ k + 1 \in Nat
      OBVIOUS
    <2>2. Below(nodes)[k + 1] = Below(Kids(nodes))[k]
      OBVIOUS
    <2>3. Below(nodes)[(k + 1) + 1] = Kids(Below(nodes)[k + 1])
      BY <2>1, BelowIs
    <2>4. Below(Kids(nodes))[k + 1] = Kids(Below(Kids(nodes))[k])
      BY <2>1, BelowIs
    <2> QED BY <2>1, <2>2, <2>3, <2>4
  <1> HIDE DEF P
  <1>3. \A k \in Nat : k \in P
    <2>1. P \in SUBSET Nat
      BY DEF P
    <2> QED BY <1>1, <1>2, <2>1, NatSet
  <1> QED BY <1>3 DEF P

\* A node and all that is below it have the layers of their operators.
Layered(n) == \A k \in Nat : \A m \in Below({n})[k] : WellLayered(m)

LEMMA LayeredIs ==
  ASSUME NEW n
  PROVE  Layered(n) <=> WellLayered(n) /\ \A m \in ToSet(n.kids) : Layered(m)
  <1>1. Below({n})[0] = {n}
    BY BelowIs
  <1>2. \A k \in Nat : \A x : x \in Below({n})[k + 1] <=> \E m \in ToSet(n.kids) : x \in Below({m})[k]
    <2>1. Kids({n}) = ToSet(n.kids)
      <3>1. \A x : x \in Kids({n}) <=> x \in ToSet(n.kids)
        BY KidsIs
      <3> QED BY <3>1
    <2>2. \A k \in Nat : Below({n})[k + 1] = Below(ToSet(n.kids))[k]
      BY <2>1, BelowKids
    <2>3. \A k \in Nat : \A x : x \in Below(ToSet(n.kids))[k] <=> \E m \in ToSet(n.kids) : x \in Below({m})[k]
      BY BelowMembers
    <2> QED BY <2>2, <2>3
  <1>3. ASSUME Layered(n) PROVE WellLayered(n) /\ \A m \in ToSet(n.kids) : Layered(m)
    <2>1. WellLayered(n)
      BY <1>1, <1>3 DEF Layered
    <2>2. ASSUME NEW m \in ToSet(n.kids), NEW k \in Nat, NEW l \in Below({m})[k] PROVE WellLayered(l)
      <3>1. l \in Below({n})[k + 1] /\ k + 1 \in Nat
        <4>1. k + 1 \in Nat
          OBVIOUS
        <4> QED BY <1>2, <2>2, <4>1, Zenon
      <3> QED BY <1>3, <3>1 DEF Layered
    <2> QED BY <2>1, <2>2 DEF Layered
  <1>4. ASSUME WellLayered(n), \A m \in ToSet(n.kids) : Layered(m) PROVE Layered(n)
    <2>1. ASSUME NEW k \in Nat, NEW l \in Below({n})[k] PROVE WellLayered(l)
      <3>1. CASE k = 0
        BY <1>1, <1>4, <2>1, <3>1
      <3>2. CASE k # 0
        <4>1. k - 1 \in Nat /\ (k - 1) + 1 = k
          BY <3>2
        <4>2. PICK m \in ToSet(n.kids) : l \in Below({m})[k - 1]
          <5>1. l \in Below({n})[(k - 1) + 1]
            BY <2>1, <4>1
          <5> QED BY <1>2, <4>1, <5>1
        <4> QED BY <1>4, <4>1, <4>2 DEF Layered
      <3> QED BY <3>1, <3>2
    <2> QED BY <2>1 DEF Layered
  <1> QED BY <1>3, <1>4

-----------------------------------------------------------------------------
(* Nodes and the layers of their operators. *)

LEMMA LayerIs ==
  ASSUME NEW text, NEW d \in 1 .. 9
  PROVE  text \in BinLayers[d] <=>
           \/ d = 1 /\ text \in {"*", "/"}
           \/ d = 2 /\ text \in {"+", "-"}
           \/ d = 3 /\ text = "=="
           \/ d = 4 /\ text = "&&"
           \/ d = 5 /\ text = "||"
           \/ d = 6 /\ text \in {"?", ":"}
           \/ d = 7 /\ text \in {"..", "..="}
           \/ d = 8 /\ text = "="
           \/ d = 9 /\ text = ","
  <1>1. CASE d = 1 BY <1>1 DEF BinLayers
  <1>2. CASE d = 2 BY <1>2 DEF BinLayers
  <1>3. CASE d = 3 BY <1>3 DEF BinLayers
  <1>4. CASE d = 4 BY <1>4 DEF BinLayers
  <1>5. CASE d = 5 BY <1>5 DEF BinLayers
  <1>6. CASE d = 6 BY <1>6 DEF BinLayers
  <1>7. CASE d = 7 BY <1>7 DEF BinLayers
  <1>8. CASE d = 8 BY <1>8 DEF BinLayers
  <1>9. CASE d = 9 BY <1>9 DEF BinLayers
  <1>0. d = 1 \/ d = 2 \/ d = 3 \/ d = 4 \/ d = 5 \/ d = 6 \/ d = 7 \/ d = 8 \/ d = 9
    OBVIOUS
  <1> QED BY <1>0, <1>1, <1>2, <1>3, <1>4, <1>5, <1>6, <1>7, <1>8, <1>9

\* No operator is in two layers.
LEMMA OneLayer ==
  ASSUME NEW text, NEW d \in 1 .. 9, NEW e \in 1 .. 9, text \in BinLayers[d], text \in BinLayers[e]
  PROVE  d = e
  <1> DEFINE In(l) == \/ l = 1 /\ text \in {"*", "/"}
                      \/ l = 2 /\ text \in {"+", "-"}
                      \/ l = 3 /\ text = "=="
                      \/ l = 4 /\ text = "&&"
                      \/ l = 5 /\ text = "||"
                      \/ l = 6 /\ text \in {"?", ":"}
                      \/ l = 7 /\ text \in {"..", "..="}
                      \/ l = 8 /\ text = "="
                      \/ l = 9 /\ text = ","
  <1>1. In(d) /\ In(e)
    BY LayerIs
  <1> DEFINE L == IF text \in {"*", "/"} THEN 1 ELSE IF text \in {"+", "-"} THEN 2
                  ELSE IF text = "==" THEN 3 ELSE IF text = "&&" THEN 4 ELSE IF text = "||" THEN 5
                  ELSE IF text \in {"?", ":"} THEN 6 ELSE IF text \in {"..", "..="} THEN 7
                  ELSE IF text = "=" THEN 8 ELSE 9
  <1>2. ASSUME NEW l, In(l) PROVE l = L
    BY <1>2
  <1> HIDE DEF In, L
  <1> QED BY <1>1, <1>2

\* Operators have a layer.
Proper(n) ==
  /\ n.kind = "range" => n.text \in BinLayers[RangeLayer]
  /\ n.kind = "binary" => \E d \in 1 .. BinLayerLen : n.text \in BinLayers[d]

LEMMA LayerOfIs ==
  ASSUME NEW n, Proper(n)
  PROVE  /\ LayerOf(n) \in 0 .. 9
         /\ \A d \in 1 .. 9 : n.kind \in {"binary", "range"} /\ n.text \in BinLayers[d] => LayerOf(n) = d
         /\ LayerOf(n) = CompareLayer => n.kind = "binary" /\ n.text \in BinLayers[CompareLayer]
  <1>0. BinLayerLen = 9 /\ RangeLayer = 7 /\ CondLayer = 6 /\ CompareLayer = 3
    BY AtRangeIs DEF CondLayer, CompareLayer
  <1>1. CASE n.kind \in {"binary", "range"}
    <2>1. \E d \in 1 .. 9 : n.text \in BinLayers[d]
      BY <1>0, <1>1 DEF Proper
    <2>2. LayerOf(n) = CHOOSE d \in 1 .. 9 : n.text \in BinLayers[d]
      BY <1>0, <1>1 DEF LayerOf
    <2>3. LayerOf(n) \in 1 .. 9 /\ n.text \in BinLayers[LayerOf(n)]
      BY <2>1, <2>2, Zenon
    <2>4. \A d \in 1 .. 9 : n.text \in BinLayers[d] => LayerOf(n) = d
      BY <2>3, OneLayer
    <2>5. ASSUME LayerOf(n) = CompareLayer PROVE n.kind = "binary" /\ n.text \in BinLayers[CompareLayer]
      <3>1. n.text \in BinLayers[3]
        BY <1>0, <2>3, <2>5
      <3>2. n.kind # "range"
        BY <1>0, <3>1, OneLayer DEF Proper
      <3> QED BY <1>0, <1>1, <3>1, <3>2
    <2>6. LayerOf(n) \in 0 .. 9
      BY <2>3
    <2> QED BY <2>4, <2>5, <2>6
  <1>2. CASE n.kind \notin {"binary", "range"}
    <2>1. LayerOf(n) = IF n.kind = "cond" THEN 6 ELSE 0
      BY <1>0, <1>2 DEF LayerOf
    <2> QED BY <1>0, <1>2, <2>1
  <1> QED BY <1>1, <1>2

\* A whole tree, and one that binds tighter than all operators.
Sound(n) == Layered(n) /\ Proper(n)
Tight(n) == Sound(n) /\ LayerOf(n) = 0

TwoKids(n)   == n = Node(n.kind, n.text, <<n.kids[1], n.kids[2]>>)
ThreeKids(n) == n = Node(n.kind, n.text, <<n.kids[1], n.kids[2], n.kids[3]>>)

LEMMA NodeIs ==
  /\ \A k, t, c : Node(k, t, c).kind = k /\ Node(k, t, c).text = t /\ Node(k, t, c).kids = c
  /\ \A k, t, a, b, c : /\ WithKid(Node(k, t, <<a, b>>), 2, c) = Node(k, t, <<a, c>>)
                        /\ ToSet(<<a>>) = {a} /\ ToSet(<<a, b>>) = {a, b} /\ ToSet(<<a, b, c>>) = {a, b, c}
  /\ \A k, t, a, b, c, d : /\ WithKid(Node(k, t, <<a, b, c>>), 2, d) = Node(k, t, <<a, d, c>>)
                           /\ WithKid(Node(k, t, <<a, b, c>>), 3, d) = Node(k, t, <<a, b, d>>)
  <1>1. \A k, t, c : Node(k, t, c).kind = k /\ Node(k, t, c).text = t /\ Node(k, t, c).kids = c
    BY DEF Node
  <1>2. \A a, b, c : ToSet(<<a>>) = {a} /\ ToSet(<<a, b>>) = {a, b} /\ ToSet(<<a, b, c>>) = {a, b, c}
    BY DEF ToSet
  <1>3. ASSUME NEW a, NEW b, NEW c, NEW d
        PROVE  /\ [<<a, b>> EXCEPT ![2] = c] = <<a, c>>
               /\ [<<a, b, c>> EXCEPT ![2] = d] = <<a, d, c>> /\ [<<a, b, c>> EXCEPT ![3] = d] = <<a, b, d>>
    OBVIOUS
  <1>4. ASSUME NEW k, NEW t, NEW x, NEW i, NEW e
        PROVE  WithKid(Node(k, t, x), i, e) = Node(k, t, [x EXCEPT ![i] = e])
    BY DEF WithKid, Node
  <1> QED BY <1>1, <1>2, <1>3, <1>4

\* How deep the left and the right operand of a layer may be.
LeftOf(d)  == IF d \in {CompareLayer, AssignLayer} THEN d - 1 ELSE d
RightOf(d) == IF d = AssignLayer THEN d ELSE d - 1

LEMMA LayerNumbers ==
  BinLayerLen = 9 /\ RangeLayer = 7 /\ CondLayer = 6 /\ CompareLayer = 3 /\ AssignLayer = 8
  BY AtRangeIs DEF CondLayer, CompareLayer, AssignLayer

LEMMA TightLeaf ==
  ASSUME NEW k \in {"none", "bad", "leaf"}, NEW t
  PROVE  Tight(Node(k, t, <<>>))
  <1> DEFINE n == Node(k, t, <<>>)
  <1>1. n.kind = k /\ n.kids = <<>>
    BY NodeIs
  <1> HIDE DEF n
  <1>2. WellLayered(n)
    BY <1>1 DEF WellLayered
  <1>3. ToSet(n.kids) = {}
    BY <1>1 DEF ToSet
  <1>4. Layered(n)
    BY <1>2, <1>3, LayeredIs
  <1>5. LayerOf(n) = 0 /\ Proper(n)
    BY <1>1 DEF LayerOf, Proper
  <1> QED BY <1>4, <1>5 DEF Tight, Sound, n

\* Brackets and members around operands.
LEMMA TightOne ==
  ASSUME NEW k, NEW t, NEW a, Layered(a),
         (k \in {"unary", "call"} /\ LayerOf(a) = 0) \/ (k = "paren" /\ LayerOf(a) \in 0 .. 9)
  PROVE  Tight(Node(k, t, <<a>>))
  <1> DEFINE n == Node(k, t, <<a>>)
  <1>1. n.kind = k /\ n.kids = <<a>> /\ ToSet(n.kids) = {a}
    BY NodeIs
  <1> HIDE DEF n
  <1>2. LayerOf(n) = 0 /\ Proper(n)
    BY <1>1 DEF LayerOf, Proper
  <1>3. DOMAIN n.kids = {1} /\ n.kids[1] = a
    BY <1>1
  <1>4. AcceptedLayers(n)[1] = IF k = "paren" THEN 9 ELSE 0
    BY <1>1, <1>2, <1>3, LayerNumbers DEF AcceptedLayers, KidLayers
  <1>5. WellLayered(n)
    BY <1>1, <1>3, <1>4 DEF WellLayered
  <1>6. Layered(n)
    BY <1>1, <1>5, LayeredIs
  <1> QED BY <1>2, <1>6 DEF Tight, Sound, n

LEMMA TightTwo ==
  ASSUME NEW k, NEW t, NEW a, NEW b, Layered(a), LayerOf(a) = 0, Layered(b),
         (k = "dot" /\ LayerOf(b) = 0) \/ (k \in {"call", "index"} /\ LayerOf(b) \in 0 .. 9)
  PROVE  Tight(Node(k, t, <<a, b>>))
  <1> DEFINE n == Node(k, t, <<a, b>>)
  <1>1. n.kind = k /\ n.kids = <<a, b>> /\ ToSet(n.kids) = {a, b}
    BY NodeIs
  <1> HIDE DEF n
  <1>2. LayerOf(n) = 0 /\ Proper(n)
    BY <1>1 DEF LayerOf, Proper
  <1>3. DOMAIN n.kids = {1, 2} /\ n.kids[1] = a /\ n.kids[2] = b
    BY <1>1
  <1>4. AcceptedLayers(n)[1] = 0 /\ AcceptedLayers(n)[2] = IF k = "dot" THEN 0 ELSE 9
    BY <1>1, <1>2, <1>3, LayerNumbers DEF AcceptedLayers, KidLayers
  <1>5. WellLayered(n)
    BY <1>1, <1>3, <1>4 DEF WellLayered
  <1>6. Layered(n)
    BY <1>1, <1>5, LayeredIs
  <1> QED BY <1>2, <1>6 DEF Tight, Sound, n

\* An operator with two operands.
LEMMA SoundTwo ==
  ASSUME NEW k \in {"binary", "range"}, NEW d \in 1 .. 9, d # CondLayer, NEW t, t \in BinLayers[d],
         k = "range" => d = RangeLayer, NEW a, NEW b
  PROVE  LET n == Node(k, t, <<a, b>>)
         IN  /\ LayerOf(n) = d /\ Proper(n)
             /\ Sound(n) <=> /\ Layered(a) /\ LayerOf(a) <= LeftOf(d)
                             /\ Layered(b) /\ LayerOf(b) <= RightOf(d)
  <1> DEFINE n == Node(k, t, <<a, b>>)
  <1>1. n.kind = k /\ n.text = t /\ n.kids = <<a, b>> /\ ToSet(n.kids) = {a, b}
    BY NodeIs
  <1> HIDE DEF n
  <1>2. Proper(n)
    BY <1>1, LayerNumbers DEF Proper
  <1>3. LayerOf(n) = d
    BY <1>1, <1>2, LayerOfIs
  <1>4. DOMAIN n.kids = {1, 2} /\ n.kids[1] = a /\ n.kids[2] = b
    BY <1>1
  <1>5. AcceptedLayers(n)[1] = LeftOf(d) /\ AcceptedLayers(n)[2] = RightOf(d)
    BY <1>3, LayerNumbers DEF AcceptedLayers, KidLayers, LeftOf, RightOf
  <1>6. WellLayered(n) <=> LayerOf(a) <= LeftOf(d) /\ LayerOf(b) <= RightOf(d)
    BY <1>4, <1>5 DEF WellLayered
  <1>7. Layered(n) <=> WellLayered(n) /\ Layered(a) /\ Layered(b)
    BY <1>1, LayeredIs
  <1> QED BY <1>2, <1>3, <1>6, <1>7 DEF Sound, n

LEMMA SoundThree ==
  ASSUME NEW t, NEW a, NEW b, NEW c
  PROVE  LET n == Node("cond", t, <<a, b, c>>)
         IN  /\ LayerOf(n) = CondLayer /\ Proper(n)
             /\ Sound(n) <=> /\ Layered(a) /\ LayerOf(a) <= 5 /\ Layered(b) /\ LayerOf(b) <= 5
                             /\ Layered(c) /\ LayerOf(c) <= 6
  <1> DEFINE n == Node("cond", t, <<a, b, c>>)
  <1>1. n.kind = "cond" /\ n.text = t /\ n.kids = <<a, b, c>> /\ ToSet(n.kids) = {a, b, c}
    BY NodeIs
  <1> HIDE DEF n
  <1>2. Proper(n)
    BY <1>1 DEF Proper
  <1>3. LayerOf(n) = CondLayer
    BY <1>1 DEF LayerOf
  <1>4. DOMAIN n.kids = {1, 2, 3} /\ n.kids[1] = a /\ n.kids[2] = b /\ n.kids[3] = c
    BY <1>1
  <1>5. AcceptedLayers(n)[1] = 5 /\ AcceptedLayers(n)[2] = 5 /\ AcceptedLayers(n)[3] = 6
    BY <1>3, LayerNumbers DEF AcceptedLayers, KidLayers
  <1>6. WellLayered(n) <=> LayerOf(a) <= 5 /\ LayerOf(b) <= 5 /\ LayerOf(c) <= 6
    BY <1>4, <1>5 DEF WellLayered
  <1>7. Layered(n) <=> WellLayered(n) /\ Layered(a) /\ Layered(b) /\ Layered(c)
    BY <1>1, LayeredIs
  <1> QED BY <1>2, <1>3, <1>6, <1>7 DEF Sound, n

-----------------------------------------------------------------------------
(* The frames of parse_expr: the operators on the stack get looser from the  *)
(* bottom to the top, and the expression so far binds tighter than they do.  *)

Entry(o) ==
  /\ o \in [depth : {o.depth}, expr : {o.expr}]
  /\ o.depth \in 2 .. 9 /\ Sound(o.expr)
  /\ IF o.depth = CondLayer THEN o.expr.kind = "cond" /\ ThreeKids(o.expr)
     ELSE /\ TwoKids(o.expr) /\ o.expr.kind \in {"binary", "range"} /\ o.expr.text \in BinLayers[o.depth]
          /\ o.expr.kind = "range" => o.depth = RangeLayer

RightAssoc(d) == d \in {CondLayer, AssignLayer}

Ordered(ops) ==
  /\ ops \in Seq(ToSet(ops))
  /\ \A i \in 1 .. Len(ops) : Entry(ops[i])
  /\ \A i \in 1 .. Len(ops) - 1 :
       ops[i + 1].depth < ops[i].depth \/ (ops[i + 1].depth = ops[i].depth /\ RightAssoc(ops[i].depth))

\* The layer d is below the stack.
Under(ops, d) == ops # <<>> => d < Last(ops).depth \/ (d = Last(ops).depth /\ RightAssoc(d))

AtLoop(f) ==
  /\ f.depth \in 1 .. 10 /\ Sound(f.expr)
  /\ f.ops # <<>> => f.depth <= Last(f.ops).depth
  /\ LayerOf(f.expr) <= IF f.depth \in {1, RangeLayer} /\ ~StackIsOnDepth(f) THEN f.depth ELSE f.depth - 1

AtPop(f) ==
  /\ f.depth \in 1 .. 9 /\ Sound(f.expr) /\ Under(f.ops, f.depth) /\ LayerOf(f.expr) <= f.depth

\* An operator of the tightest layer that wants its right operand.
AtRight(n) == TwoKids(n) /\ n.kind = "binary" /\ n.text \in BinLayers[1] /\ Sound(n)

FrameOK(f) ==
  /\ f.fn = "expr" =>
       /\ Ordered(f.ops)
       /\ f.pc = "enter" => f = Frame("expr")
       /\ f.pc = "loop"  => AtLoop(f)
       /\ f.pc = "pop"   => AtPop(f)
       /\ f.pc = "right" => AtRight(f.expr)
  /\ f.fn = "post" /\ f.pc \in {"loop", "call", "index"} => Tight(f.expr)

\* What the callee returned.
RetOK(f) ==
  /\ f.fn = "expr" /\ f.pc \in {"first", "low", "right"} => Tight(f.ret)
  /\ f.fn = "unary" /\ f.pc = "target" => Tight(f.ret)
  /\ f.fn = "post" /\ f.pc \in {"paren", "call", "index"} => Sound(f.ret)
  /\ f.fn = "parse" /\ f.pc = "statement" => Sound(f.ret)

Frames ==
  /\ \A i \in 1 .. Len(calls) : FrameOK(calls[i])
  /\ RetOK(Top)

PInv == Frames /\ \A i \in 1 .. Len(prog) : Sound(prog[i])

LEMMA OrderedEmpty == Ordered(<<>>)
  BY DEF Ordered

LEMMA OrderedFront ==
  ASSUME NEW ops, Ordered(ops), ops # <<>>
  PROVE  /\ Entry(Last(ops)) /\ Ordered(Front(ops)) /\ Len(ops) \in Nat /\ Len(ops) >= 1
         /\ Last(ops) = ops[Len(ops)]
         /\ Front(ops) # <<>> =>
              \/ Last(ops).depth < Last(Front(ops)).depth
              \/ Last(ops).depth = Last(Front(ops)).depth /\ RightAssoc(Last(ops).depth)
  <1> DEFINE b == Front(ops)
  <1>1. Len(ops) \in Nat /\ Len(ops) >= 1 /\ Last(ops) = ops[Len(ops)]
    BY SeqIs DEF Ordered
  <1>2. b \in Seq(ToSet(ops)) /\ Len(b) = Len(ops) - 1 /\ \A i \in 1 .. Len(ops) - 1 : b[i] = ops[i]
    BY FrontIs DEF Ordered
  <1> HIDE DEF b
  <1>3. b \in Seq(ToSet(b))
    BY <1>2, SeqIs
  <1>4. \A i \in 1 .. Len(b) : Entry(b[i])
    BY <1>1, <1>2 DEF Ordered
  <1>5. ASSUME NEW i \in 1 .. Len(b) - 1
        PROVE  b[i + 1].depth < b[i].depth \/ (b[i + 1].depth = b[i].depth /\ RightAssoc(b[i].depth))
    <2>1. i \in 1 .. Len(ops) - 1 /\ b[i] = ops[i] /\ b[i + 1] = ops[i + 1]
      BY <1>1, <1>2
    <2> QED BY <2>1 DEF Ordered
  <1>6. Ordered(b)
    BY <1>3, <1>4, <1>5 DEF Ordered
  <1>7. ASSUME b # <<>>
        PROVE  \/ Last(ops).depth < Last(b).depth
               \/ Last(ops).depth = Last(b).depth /\ RightAssoc(Last(ops).depth)
    <2>1. Last(b) = b[Len(b)] /\ Len(b) \in Nat /\ Len(b) >= 1
      BY <1>3, <1>7, SeqIs
    <2>2. Last(b) = ops[Len(ops) - 1] /\ Len(ops) - 1 \in 1 .. Len(ops) - 1 /\ (Len(ops) - 1) + 1 = Len(ops)
      BY <1>1, <1>2, <2>1
    <2> QED BY <1>1, <2>2 DEF Ordered
  <1>8. Entry(Last(ops))
    BY <1>1 DEF Ordered
  <1> QED BY <1>1, <1>6, <1>7, <1>8 DEF b

LEMMA OrderedAppend ==
  ASSUME NEW ops, Ordered(ops), NEW o, Entry(o), Under(ops, o.depth)
  PROVE  Ordered(Append(ops, o)) /\ Append(ops, o) # <<>> /\ Last(Append(ops, o)) = o
  <1> DEFINE c == Append(ops, o)
             F == ToSet(ops) \cup {o}
  <1>1. ops \in Seq(F) /\ o \in F /\ Len(ops) \in Nat
    <2>1. ops \in Seq(ToSet(ops))
      BY DEF Ordered
    <2>2. Len(ops) \in Nat
      BY <2>1
    <2> QED BY <2>1, <2>2, SeqMonotonic
  <1> HIDE DEF F
  <1>2. /\ c \in Seq(F) /\ Len(c) = Len(ops) + 1 /\ c[Len(ops) + 1] = o
        /\ \A i \in 1 .. Len(ops) : c[i] = ops[i]
    BY <1>1
  <1> HIDE DEF c
  <1>3. c # <<>>
    BY <1>1, <1>2
  <1>4. c \in Seq(ToSet(c)) /\ Last(c) = o
    BY <1>2, <1>3, SeqIs
  <1>5. ASSUME NEW i \in 1 .. Len(c) PROVE Entry(c[i])
    <2>1. i = Len(ops) + 1 \/ i \in 1 .. Len(ops)
      BY <1>1, <1>2
    <2> QED BY <1>2, <2>1 DEF Ordered
  <1>6. ASSUME NEW i \in 1 .. Len(c) - 1
        PROVE  c[i + 1].depth < c[i].depth \/ (c[i + 1].depth = c[i].depth /\ RightAssoc(c[i].depth))
    <2>1. CASE i = Len(ops)
      <3>1. ops # <<>> /\ Last(ops) = ops[i] /\ c[i] = ops[i] /\ c[i + 1] = o
        <4>1. ops # <<>>
          BY <1>1, <1>6, <2>1
        <4>2. Last(ops) = ops[i]
          BY <2>1 DEF Last
        <4> QED BY <1>1, <1>2, <1>6, <2>1, <4>1, <4>2
      <3> QED BY <3>1 DEF Under
    <2>2. CASE i # Len(ops)
      <3>1. i \in 1 .. Len(ops) - 1 /\ c[i] = ops[i] /\ c[i + 1] = ops[i + 1]
        BY <1>1, <1>2, <2>2
      <3> QED BY <3>1 DEF Ordered
    <2> QED BY <2>1, <2>2
  <1> QED BY <1>3, <1>4, <1>5, <1>6 DEF Ordered, c

\* The right operand of the operator on top.
LEMMA EntryTakes ==
  ASSUME NEW o, Entry(o), o.depth # CondLayer, NEW x, Layered(x), LayerOf(x) <= RightOf(o.depth)
  PROVE  LET n == WithKid(o.expr, 2, x) IN Sound(n) /\ LayerOf(n) = o.depth
  <1> DEFINE a == o.expr.kids[1]
             b == o.expr.kids[2]
             k == o.expr.kind
             t == o.expr.text
             d == o.depth
  <1>1. /\ o.expr = Node(k, t, <<a, b>>) /\ k \in {"binary", "range"} /\ t \in BinLayers[d]
        /\ d \in 1 .. 9 /\ d # CondLayer /\ (k = "range" => d = RangeLayer) /\ Sound(o.expr)
    BY DEF Entry, TwoKids
  <1> HIDE DEF a, b, k, t, d
  <1>2. Layered(a) /\ LayerOf(a) <= LeftOf(d)
    BY <1>1, SoundTwo
  <1>3. WithKid(o.expr, 2, x) = Node(k, t, <<a, x>>)
    BY <1>1, NodeIs
  <1>4. Layered(x) /\ LayerOf(x) <= RightOf(d)
    BY DEF d
  <1>5. LET n == Node(k, t, <<a, x>>) IN LayerOf(n) = d /\ Sound(n)
    BY <1>1, <1>2, <1>4, SoundTwo
  <1> QED BY <1>3, <1>5 DEF d

LEMMA CondTakes ==
  ASSUME NEW o, Entry(o), o.depth = CondLayer, NEW x, Layered(x)
  PROVE  /\ Len(o.expr.kids) = 3
         /\ LayerOf(x) <= 5 =>
              LET n == WithKid(o.expr, 2, x) IN Sound(n) /\ n.kind = "cond" /\ ThreeKids(n)
         /\ LayerOf(x) <= 6 =>
              LET n == WithKid(o.expr, 3, x) IN Sound(n) /\ LayerOf(n) = CondLayer
  <1> DEFINE a == o.expr.kids[1]
             b == o.expr.kids[2]
             c == o.expr.kids[3]
             t == o.expr.text
  <1>1. o.expr = Node("cond", t, <<a, b, c>>) /\ Sound(o.expr)
    BY DEF Entry, ThreeKids
  <1> HIDE DEF a, b, c, t
  <1>2. Layered(a) /\ LayerOf(a) <= 5 /\ Layered(b) /\ LayerOf(b) <= 5 /\ Layered(c) /\ LayerOf(c) <= 6
    BY <1>1, SoundThree
  <1>3. WithKid(o.expr, 2, x) = Node("cond", t, <<a, x, c>>) /\ WithKid(o.expr, 3, x) = Node("cond", t, <<a, b, x>>)
    BY <1>1, NodeIs
  <1>4. Len(o.expr.kids) = 3
    <2>1. o.expr.kids = <<a, b, c>>
      BY <1>1, NodeIs
    <2> QED BY <2>1
  <1>5. ASSUME LayerOf(x) <= 5
        PROVE  LET n == Node("cond", t, <<a, x, c>>) IN Sound(n) /\ n.kind = "cond" /\ ThreeKids(n)
    <2> DEFINE n == Node("cond", t, <<a, x, c>>)
    <2>1. Sound(n)
      BY <1>2, <1>5, SoundThree
    <2>2. n.kind = "cond" /\ n.text = t /\ n.kids = <<a, x, c>>
      BY NodeIs
    <2>3. n.kids[1] = a /\ n.kids[2] = x /\ n.kids[3] = c
      BY <2>2
    <2>4. n = Node(n.kind, n.text, <<n.kids[1], n.kids[2], n.kids[3]>>)
      BY <2>2, <2>3
    <2> QED BY <2>1, <2>2, <2>4 DEF ThreeKids
  <1>6. ASSUME LayerOf(x) <= 6
        PROVE  LET n == Node("cond", t, <<a, b, x>>) IN Sound(n) /\ LayerOf(n) = CondLayer
    BY <1>2, <1>6, SoundThree
  <1> QED BY <1>3, <1>4, <1>5, <1>6

\* What update_stack leaves.
LEMMA UpdateStackIs ==
  ASSUME NEW f, IsFrame(f), Ordered(f.ops), AtLoop(f), f.depth <= 9
  PROVE  LET g == UpdateStack(f)
         IN  /\ Ordered(g.ops) /\ Sound(g.expr) /\ Under(g.ops, f.depth)
             /\ LayerOf(g.expr) <= f.depth
             /\ RightAssoc(f.depth) => LayerOf(g.expr) <= f.depth - 1
  <1>0. f.depth \in 1 .. 9 /\ LayerOf(f.expr) \in 0 .. 9 /\ Sound(f.expr)
    <2>1. f.depth \in 1 .. 9 /\ Sound(f.expr)
      BY DEF AtLoop
    <2> QED BY <2>1, LayerOfIs DEF Sound
  <1>1. CASE StackIsOnDepth(f) /\ ~RightAssoc(f.depth)
    <2> DEFINE o == Last(f.ops)
               x == WithKid(o.expr, 2, f.expr)
               y == Front(f.ops)
    <2>1. UpdateStack(f) = [f EXCEPT !.expr = x, !.ops = y]
      BY <1>1 DEF UpdateStack, RightAssoc, IsFrame
    <2>2. UpdateStack(f).expr = x /\ UpdateStack(f).ops = y
      <3> HIDE DEF x, y
      <3> QED BY <2>1 DEF IsFrame
    <2>3. f.ops # <<>> /\ o.depth = f.depth
      BY <1>1 DEF StackIsOnDepth
    <2>4. /\ Entry(o) /\ Ordered(y)
          /\ y # <<>> => \/ o.depth < Last(y).depth
                         \/ o.depth = Last(y).depth /\ RightAssoc(o.depth)
      BY <2>3, OrderedFront
    <2>5. LayerOf(f.expr) <= f.depth - 1
      BY <1>1 DEF AtLoop
    <2>6. o.depth # CondLayer /\ RightOf(o.depth) = f.depth - 1
      BY <1>1, <2>3, LayerNumbers DEF RightAssoc, RightOf
    <2>7. Sound(x) /\ LayerOf(x) = f.depth
      BY <1>0, <2>3, <2>4, <2>5, <2>6, EntryTakes DEF Sound
    <2>8. Under(y, f.depth)
      BY <1>1, <2>3, <2>4 DEF Under
    <2> HIDE DEF x, y, o
    <2> QED BY <1>0, <1>1, <2>2, <2>4, <2>7, <2>8
  <1>2. CASE ~(StackIsOnDepth(f) /\ ~RightAssoc(f.depth))
    <2>1. UpdateStack(f) = f
      BY <1>2 DEF UpdateStack, RightAssoc
    <2>2. ASSUME f.ops # <<>>
          PROVE  f.depth < Last(f.ops).depth \/ (f.depth = Last(f.ops).depth /\ RightAssoc(f.depth))
      <3>1. Last(f.ops).depth \in 2 .. 9
        BY <2>2, OrderedFront DEF Entry
      <3> QED BY <1>0, <1>2, <2>2, <3>1 DEF AtLoop, StackIsOnDepth
    <2>3. LayerOf(f.expr) <= f.depth
      BY <1>0 DEF AtLoop
    <2>4. RightAssoc(f.depth) => LayerOf(f.expr) <= f.depth - 1
      BY <1>0, LayerNumbers DEF AtLoop, RightAssoc
    <2> QED BY <1>0, <2>1, <2>2, <2>3, <2>4 DEF Under
  <1> QED BY <1>1, <1>2

\* One operator leaves the stack, and the expression becomes its last child.
LEMMA PoppedIs ==
  ASSUME NEW f, IsFrame(f), f.fn = "expr", Ordered(f.ops), AtPop(f), f.pc = "pop", Pops(f)
  PROVE  FrameOK(Popped(f)) /\ Popped(f).pc = "pop"
  <1> DEFINE o == Last(f.ops)
             x == WithKid(o.expr, Len(o.expr.kids), f.expr)
             y == Front(f.ops)
             g == Popped(f)
  <1>1. g = [f EXCEPT !.expr = x, !.ops = y]
    BY DEF Popped, IsFrame
  <1>2. g.expr = x /\ g.ops = y /\ g.depth = f.depth /\ g.pc = "pop" /\ g.fn = "expr"
    <2> HIDE DEF x, y, g
    <2> QED BY <1>1 DEF IsFrame
  <1>3. f.ops # <<>> /\ o.depth = f.depth /\ f.depth \in {CondLayer, AssignLayer}
    BY DEF Pops, StackIsOnDepth
  <1>4. /\ Entry(o) /\ Ordered(y)
        /\ y # <<>> => \/ o.depth < Last(y).depth
                       \/ o.depth = Last(y).depth /\ RightAssoc(o.depth)
    BY <1>3, OrderedFront
  <1>5. /\ f.depth \in 1 .. 9 /\ Layered(f.expr) /\ LayerOf(f.expr) <= f.depth /\ LayerOf(f.expr) \in 0 .. 9
    BY LayerOfIs DEF AtPop, Sound
  <1>6. Sound(x) /\ LayerOf(x) = f.depth
    <2>1. CASE f.depth = CondLayer
      <3>1. Len(o.expr.kids) = 3 /\ LayerOf(f.expr) <= 6
        BY <1>3, <1>4, <1>5, <2>1, CondTakes, LayerNumbers
      <3> QED BY <1>3, <1>4, <1>5, <2>1, <3>1, CondTakes
    <2>2. CASE f.depth = AssignLayer
      <3>1. Len(o.expr.kids) = 2
        <4>1. TwoKids(o.expr)
          BY <1>3, <1>4, <2>2, LayerNumbers DEF Entry
        <4> DEFINE n == o.expr
                   a == n.kids[1]
                   b == n.kids[2]
                   k == n.kind
                   t == n.text
        <4>2. n = Node(k, t, <<a, b>>)
          BY <4>1 DEF TwoKids
        <4> HIDE DEF a, b, k, t
        <4>3. n.kids = <<a, b>>
          BY <4>2, NodeIs
        <4> HIDE DEF n
        <4>4. Len(n.kids) = 2
          BY <4>3
        <4> QED BY <4>4 DEF n
      <3>2. LayerOf(f.expr) <= RightOf(o.depth) /\ o.depth # CondLayer
        BY <1>3, <1>5, <2>2, LayerNumbers DEF RightOf
      <3> QED BY <1>3, <1>4, <1>5, <3>1, <3>2, EntryTakes
    <2> QED BY <1>3, <2>1, <2>2
  <1>7. Under(y, f.depth)
    BY <1>3, <1>4 DEF Under
  <1>8. AtPop(g)
    <2> HIDE DEF x, y, g
    <2> QED BY <1>2, <1>5, <1>6, <1>7 DEF AtPop
  <1> HIDE DEF x, y, g
  <1> QED BY <1>2, <1>4, <1>8 DEF FrameOK, g

-----------------------------------------------------------------------------
(* Every step keeps the frames in order. *)

\* What FrameOK looks at.
LEMMA FrameSame ==
  ASSUME NEW f, NEW g, FrameOK(f), g.fn = f.fn, g.pc = f.pc, g.depth = f.depth, g.ops = f.ops,
         g.expr = f.expr, f.pc # "enter"
  PROVE  FrameOK(g)
  BY DEF FrameOK, AtLoop, AtPop, StackIsOnDepth

LEMMA FrameBegins ==
  ASSUME NEW fn
  PROVE  FrameOK(Frame(fn)) /\ RetOK(Frame(fn))
  <1>1. /\ Frame(fn).fn = fn /\ Frame(fn).pc = "enter" /\ Frame(fn).ops = <<>>
    BY DEF Frame
  <1>2. FrameOK(Frame(fn))
    BY <1>1, OrderedEmpty DEF FrameOK
  <1>3. RetOK(Frame(fn))
    BY <1>1 DEF RetOK
  <1> QED BY <1>2, <1>3

LEMMA FramesTop ==
  ASSUME SInv, Frames
  PROVE  FrameOK(Top) /\ RetOK(Top)
  BY TopIs DEF SInv, Frames

LEMMA FramesSame ==
  ASSUME Frames, UNCHANGED calls
  PROVE  Frames'
  BY DEF Frames, Top

LEMMA FramesGoOn ==
  ASSUME SInv, Frames, NEW f, GoesOn(f), IsFrame(f), f.fn = Top.fn, FrameOK(f), RetOK(f)
  PROVE  Frames'
  <1>1. /\ Len(calls') = Len(calls) /\ Top' = f /\ calls'[Len(calls)] = f
        /\ \A i \in 1 .. Len(calls) - 1 : calls'[i] = calls[i]
    BY GoesOnShape DEF SInv
  <1>2. Len(calls) \in Nat
    BY TopIs DEF SInv
  <1>3. ASSUME NEW i \in 1 .. Len(calls') PROVE FrameOK(calls'[i])
    <2>1. CASE i = Len(calls)
      BY <1>1, <2>1
    <2>2. CASE i # Len(calls)
      <3>1. i \in 1 .. Len(calls) - 1 /\ i \in 1 .. Len(calls)
        BY <1>1, <1>2, <2>2
      <3> QED BY <1>1, <3>1 DEF Frames
    <2> QED BY <2>1, <2>2
  <1> QED BY <1>1, <1>3 DEF Frames

LEMMA FramesCall ==
  ASSUME SInv, Frames, NEW f, NEW pc, NEW fn, Call(f, pc, fn), IsFrame(f), f.fn = Top.fn,
         Waits([f EXCEPT !.pc = pc], Frame(fn)), FrameOK([f EXCEPT !.pc = pc])
  PROVE  Frames'
  <1> DEFINE g == [f EXCEPT !.pc = pc]
  <1>1. /\ Len(calls') = Len(calls) + 1 /\ Top' = Frame(fn) /\ calls'[Len(calls)] = g
        /\ calls'[Len(calls) + 1] = Frame(fn)
        /\ \A i \in 1 .. Len(calls) - 1 : calls'[i] = calls[i]
    BY CallShape DEF SInv
  <1>2. Len(calls) \in Nat
    BY TopIs DEF SInv
  <1>a. FrameOK(g)
    OBVIOUS
  <1> HIDE DEF g
  <1>3. ASSUME NEW i \in 1 .. Len(calls') PROVE FrameOK(calls'[i])
    <2>1. CASE i = Len(calls)
      BY <1>a, <1>1, <2>1
    <2>2. CASE i = Len(calls) + 1
      BY <1>1, <2>2, FrameBegins
    <2>3. CASE i # Len(calls) /\ i # Len(calls) + 1
      <3>1. i \in 1 .. Len(calls) - 1 /\ i \in 1 .. Len(calls)
        BY <1>1, <1>2, <2>3
      <3> QED BY <1>1, <3>1 DEF Frames
    <2> QED BY <2>1, <2>2, <2>3
  <1> QED BY <1>1, <1>3, FrameBegins DEF Frames

LEMMA FramesReturn ==
  ASSUME SInv, Frames, NEW node, Return(node), Top.fn # "parse",
         IF Top.fn = "expr" THEN Sound(node) ELSE Tight(node)
  PROVE  Frames'
  <1> DEFINE f == calls[Len(calls) - 1]
             g == [f EXCEPT !.ret = node]
  <1>1. /\ Len(calls) >= 2 /\ Len(calls') = Len(calls) - 1 /\ Waits(f, Top) /\ IsFrame(f)
        /\ Top' = g /\ calls'[Len(calls) - 1] = g
        /\ \A i \in 1 .. Len(calls) - 2 : calls'[i] = calls[i]
    BY ReturnShape DEF SInv
  <1>2. Len(calls) \in Nat
    BY TopIs DEF SInv
  <1>3. FrameOK(f)
    <2>1. Len(calls) - 1 \in 1 .. Len(calls)
      BY <1>1, <1>2
    <2> QED BY <2>1 DEF Frames
  <1> HIDE DEF f
  <1>4. /\ g.fn = f.fn /\ g.pc = f.pc /\ g.depth = f.depth /\ g.ops = f.ops /\ g.expr = f.expr
        /\ g.ret = node
    BY <1>1 DEF IsFrame
  <1> HIDE DEF g
  <1>5. FrameOK(g) /\ RetOK(g)
    <2>1. f.pc # "enter"
      BY <1>1 DEF Waits
    <2>2. FrameOK(g)
      BY <1>3, <1>4, <2>1, FrameSame
    <2>3. RetOK(g)
      BY <1>1, <1>4 DEF Waits, RetOK
    <2> QED BY <2>2, <2>3
  <1>6. ASSUME NEW i \in 1 .. Len(calls') PROVE FrameOK(calls'[i])
    <2>1. CASE i = Len(calls) - 1
      BY <1>1, <1>5, <2>1
    <2>2. CASE i # Len(calls) - 1
      <3>1. i \in 1 .. Len(calls) - 2 /\ i \in 1 .. Len(calls)
        BY <1>1, <1>2, <2>2
      <3> QED BY <1>1, <3>1 DEF Frames
    <2> QED BY <2>1, <2>2
  <1> QED BY <1>1, <1>5, <1>6 DEF Frames

LEMMA ParseStatementFrames ==
  ASSUME SInv, Frames, ParseStatement
  PROVE  Frames'
  <1>0. Top.fn = "parse" /\ IsFrame(Top)
    BY TopIs DEF ParseStatement, ProgramEnds, StatementBegins, StatementEnds, ProgramSkips, At, SInv
  <1>1. CASE UNCHANGED calls
    BY <1>1, FramesSame
  <1>2. ASSUME NEW pc \in {"shrunk", "enter"}, GoesOn([Top EXCEPT !.pc = pc])
        PROVE  Frames'
    <2> DEFINE f == [Top EXCEPT !.pc = pc]
    <2>1. IsFrame(f) /\ f.fn = "parse" /\ f.pc = pc
      BY <1>0 DEF IsFrame
    <2>2. FrameOK(f) /\ RetOK(f)
      <3> HIDE DEF f
      <3> QED BY <2>1 DEF FrameOK, RetOK
    <2> QED BY <1>0, <1>2, <2>1, <2>2, FramesGoOn
  <1>3. CASE Call(Top, "statement", "expr")
    <2> DEFINE f == [Top EXCEPT !.pc = "statement"]
    <2>1. IsFrame(f) /\ f.fn = "parse" /\ f.pc = "statement"
      BY <1>0 DEF IsFrame
    <2>2. Waits(f, Frame("expr"))
      <3> HIDE DEF f
      <3> QED BY <2>1 DEF Waits, Frame
    <2>3. FrameOK(f)
      <3> HIDE DEF f
      <3> QED BY <2>1 DEF FrameOK
    <2> QED BY <1>0, <1>3, <2>2, <2>3, FramesCall
  <1>4. \/ UNCHANGED calls \/ GoesOn([Top EXCEPT !.pc = "shrunk"]) \/ GoesOn([Top EXCEPT !.pc = "enter"])
        \/ Call(Top, "statement", "expr")
    BY DEF ParseStatement, ProgramEnds, StatementBegins, StatementEnds, ProgramSkips, InType
  <1> QED BY <1>1, <1>2, <1>3, <1>4

-----------------------------------------------------------------------------
(* parse_expr *)

\* The right operand of an operator of the tightest layer.
LEMMA RightTakes ==
  ASSUME NEW m, AtRight(m), NEW x, Tight(x)
  PROVE  LET n == WithKid(m, 2, x) IN Sound(n) /\ LayerOf(n) = 1
  <1> DEFINE a == m.kids[1]
             b == m.kids[2]
             t == m.text
  <1>1. m = Node("binary", t, <<a, b>>) /\ t \in BinLayers[1] /\ Sound(m)
    BY DEF AtRight, TwoKids
  <1> HIDE DEF a, b, t
  <1>2. 1 \in 1 .. 9 /\ 1 # CondLayer /\ RightOf(1) = 0 /\ LeftOf(1) = 1
    BY LayerNumbers DEF RightOf, LeftOf
  <1>3. Layered(a) /\ LayerOf(a) <= 1
    BY <1>1, <1>2, SoundTwo
  <1>4. WithKid(m, 2, x) = Node("binary", t, <<a, x>>)
    BY <1>1, NodeIs
  <1>5. Layered(x) /\ LayerOf(x) <= 0
    BY DEF Tight, Sound
  <1>6. LET n == Node("binary", t, <<a, x>>) IN Sound(n) /\ LayerOf(n) = 1
    BY <1>1, <1>2, <1>3, <1>5, SoundTwo
  <1> QED BY <1>4, <1>6

\* An operator that has its left operand only.
LEMMA LeftOnly ==
  ASSUME NEW k \in {"binary", "range"}, NEW d \in 1 .. 9, d # CondLayer, NEW t, t \in BinLayers[d],
         k = "range" => d = RangeLayer, NEW a, Layered(a), LayerOf(a) <= LeftOf(d)
  PROVE  LET n == Node(k, t, <<a, NoNode>>)
         IN  Sound(n) /\ LayerOf(n) = d /\ TwoKids(n) /\ n.kind = k /\ n.text = t
  <1> DEFINE n == Node(k, t, <<a, NoNode>>)
  <1>1. Layered(NoNode) /\ LayerOf(NoNode) <= RightOf(d)
    <2>1. Tight(NoNode)
      BY TightLeaf DEF NoNode
    <2>2. RightOf(d) >= 0
      BY LayerNumbers DEF RightOf
    <2> QED BY <2>1, <2>2 DEF Tight, Sound
  <1>2. Sound(n) /\ LayerOf(n) = d
    BY <1>1, SoundTwo
  <1>3. n.kind = k /\ n.text = t /\ n.kids = <<a, NoNode>>
    BY NodeIs
  <1>4. n = Node(k, t, <<a, NoNode>>)
    OBVIOUS
  <1> HIDE DEF n
  <1>5. n.kids[1] = a /\ n.kids[2] = NoNode
    BY <1>3
  <1>6. TwoKids(n)
    BY <1>3, <1>4, <1>5 DEF TwoKids
  <1> QED BY <1>2, <1>3, <1>6 DEF n

LEMMA CondOnly ==
  ASSUME NEW a, Layered(a), LayerOf(a) <= 5
  PROVE  LET n == Cond(a) IN Sound(n) /\ n.kind = "cond" /\ ThreeKids(n)
  <1> DEFINE n == Node("cond", "?", <<a, NoNode, NoNode>>)
  <1>1. Layered(NoNode) /\ LayerOf(NoNode) = 0
    BY TightLeaf DEF NoNode, Tight, Sound
  <1>2. Sound(n)
    BY <1>1, SoundThree
  <1>3. n.kind = "cond" /\ n.text = "?" /\ n.kids = <<a, NoNode, NoNode>>
    BY NodeIs
  <1>4. n = Node("cond", "?", <<a, NoNode, NoNode>>) /\ Cond(a) = n
    BY DEF Cond
  <1> HIDE DEF n
  <1>5. n.kids[1] = a /\ n.kids[2] = NoNode /\ n.kids[3] = NoNode
    BY <1>3
  <1>6. ThreeKids(n)
    BY <1>3, <1>4, <1>5 DEF ThreeKids
  <1> QED BY <1>2, <1>3, <1>4, <1>6

\* The operator on top of the stack is replaced.
LEMMA LastReplaced ==
  ASSUME NEW ops, ops \in Seq(ToSet(ops)), ops # <<>>, NEW o
  PROVE  [ops EXCEPT ![Len(ops)] = o] = Append(Front(ops), o)
  <1> DEFINE S == ToSet(ops) \cup {o}
             b == Front(ops)
  <1>1. Len(ops) \in Nat /\ Len(ops) >= 1
    BY SeqIs
  <1>2. b \in Seq(ToSet(ops)) /\ Len(b) = Len(ops) - 1 /\ \A i \in 1 .. Len(ops) - 1 : b[i] = ops[i]
    BY FrontIs
  <1>3. b \in Seq(S) /\ ops \in Seq(S) /\ o \in S
    BY <1>2, SeqMonotonic
  <1> HIDE DEF S, b
  <1> DEFINE c == [ops EXCEPT ![Len(ops)] = o]
             d == Append(b, o)
  <1>4. /\ c \in Seq(S) /\ Len(c) = Len(ops) /\ \A i \in 1 .. Len(ops) : c[i] = IF i = Len(ops) THEN o ELSE ops[i]
    BY <1>1, <1>3
  <1>5. /\ d \in Seq(S) /\ Len(d) = Len(ops) /\ \A i \in 1 .. Len(ops) : d[i] = IF i = Len(ops) THEN o ELSE b[i]
    BY <1>1, <1>2, <1>3
  <1> HIDE DEF c, d
  <1>6. \A i \in 1 .. Len(ops) : c[i] = d[i]
    BY <1>1, <1>2, <1>4, <1>5
  <1>7. c = d
    BY <1>4, <1>5, <1>6, SeqEqual
  <1> QED BY <1>7 DEF c, d, b

LEMMA ExprTop ==
  ASSUME SInv, Frames, Top.fn = "expr"
  PROVE  /\ IsFrame(Top) /\ Ordered(Top.ops) /\ FrameOK(Top) /\ RetOK(Top)
         /\ Top.pc = "loop" => AtLoop(Top)
         /\ Top.pc = "pop" => AtPop(Top)
  BY TopIs, FramesTop DEF SInv, FrameOK

LEMMA ExprBeginsFrames ==
  ASSUME SInv, Frames, ExprBegins
  PROVE  Frames'
  <1>1. Top.fn = "expr" /\ Top.pc = "enter"
    BY DEF ExprBegins, At
  <1>2. IsFrame(Top) /\ Top = Frame("expr")
    BY <1>1, ExprTop DEF FrameOK
  <1>3. Top.depth = 1 /\ Top.ops = <<>> /\ Top.expr = NoNode
    BY <1>2 DEF Frame
  <1>4. CASE GoesOn([Top EXCEPT !.pc = "loop"])
    <2> DEFINE f == [Top EXCEPT !.pc = "loop"]
    <2>1. /\ IsFrame(f) /\ f.fn = "expr" /\ f.pc = "loop" /\ f.depth = 1 /\ f.ops = <<>> /\ f.expr = NoNode
      BY <1>1, <1>2, <1>3 DEF IsFrame
    <2>2. Sound(NoNode) /\ LayerOf(NoNode) = 0
      BY TightLeaf DEF NoNode, Tight
    <2>3. AtLoop(f)
      <3> HIDE DEF f
      <3> QED BY <2>1, <2>2 DEF AtLoop
    <2>4. FrameOK(f) /\ RetOK(f)
      <3> HIDE DEF f
      <3> QED BY <2>1, <2>3, OrderedEmpty DEF FrameOK, RetOK
    <2> QED BY <1>1, <1>4, <2>1, <2>4, FramesGoOn
  <1>5. CASE Call(Top, "first", "unary")
    <2> DEFINE f == [Top EXCEPT !.pc = "first"]
    <2>1. IsFrame(f) /\ f.fn = "expr" /\ f.pc = "first" /\ f.ops = <<>>
      BY <1>1, <1>2, <1>3 DEF IsFrame
    <2>2. Waits(f, Frame("unary"))
      <3> HIDE DEF f
      <3> QED BY <2>1 DEF Waits, Frame
    <2>3. FrameOK(f)
      <3> HIDE DEF f
      <3> QED BY <2>1, OrderedEmpty DEF FrameOK
    <2> QED BY <1>2, <1>5, <2>2, <2>3, FramesCall
  <1> QED BY <1>4, <1>5 DEF ExprBegins

LEMMA GetsOperandFrames ==
  ASSUME SInv, Frames, GetsOperand
  PROVE  Frames'
  <1>1. PICK pc \in {"first", "low", "right"} :
          /\ At("expr", pc)
          /\ GoesOn([Top EXCEPT !.pc    = "loop",
                                !.depth = 1,
                                !.expr  = IF pc = "right" THEN WithKid(@, 2, Top.ret) ELSE Top.ret])
    BY DEF GetsOperand
  <1>2. Top.fn = "expr" /\ Top.pc = pc
    BY <1>1 DEF At
  <1>3. Tight(Top.ret) /\ Ordered(Top.ops) /\ IsFrame(Top) /\ (pc = "right" => AtRight(Top.expr))
    BY <1>2, ExprTop DEF RetOK, FrameOK
  <1> DEFINE e == IF pc = "right" THEN WithKid(Top.expr, 2, Top.ret) ELSE Top.ret
             f == [Top EXCEPT !.pc = "loop", !.depth = 1, !.expr = e]
  <1>4. GoesOn(f)
    BY <1>1
  <1>5. Sound(e) /\ LayerOf(e) <= 1
    <2>1. CASE pc = "right"
      <3> DEFINE n == WithKid(Top.expr, 2, Top.ret)
      <3>1. Sound(n) /\ LayerOf(n) = 1
        BY <1>3, <2>1, RightTakes
      <3> HIDE DEF n
      <3>2. e = n
        BY <2>1 DEF n
      <3> QED BY <3>1, <3>2
    <2>2. CASE pc # "right"
      <3>1. e = Top.ret
        BY <2>2
      <3> QED BY <1>3, <3>1 DEF Tight
    <2> QED BY <2>1, <2>2
  <1> HIDE DEF e
  <1>6. /\ IsFrame(f) /\ f.fn = "expr" /\ f.pc = "loop" /\ f.depth = 1 /\ f.ops = Top.ops /\ f.expr = e
    BY <1>2, <1>3 DEF IsFrame
  <1> HIDE DEF f
  <1>7. f.ops # <<>> => Last(f.ops).depth \in 2 .. 9
    BY <1>3, <1>6, OrderedFront DEF Entry
  <1>8. AtLoop(f)
    BY <1>5, <1>6, <1>7 DEF AtLoop, StackIsOnDepth
  <1>9. FrameOK(f) /\ RetOK(f)
    BY <1>3, <1>6, <1>8 DEF FrameOK, RetOK
  <1> QED BY <1>2, <1>4, <1>6, <1>9, FramesGoOn

LEMMA TakesThenFrames ==
  ASSUME SInv, Frames, TakesThen
  PROVE  Frames'
  <1>1. Top.fn = "expr" /\ Top.pc = "loop" /\ WantsThen(Top)
    BY DEF TakesThen, At
  <1>2. IsFrame(Top) /\ Ordered(Top.ops) /\ AtLoop(Top)
    BY <1>1, ExprTop
  <1>3. CASE Throw
    BY <1>3, FramesSame DEF Throw
  <1> DEFINE h == [Top EXCEPT !.ops[Len(Top.ops)].expr = WithKid(@, 2, Top.expr)]
  <1>4. CASE Call(h, "low", "unary")
    <2> DEFINE ops == Top.ops
               o   == Last(ops)
               x   == WithKid(o.expr, 2, Top.expr)
               p   == [o EXCEPT !.expr = x]
    <2>1. ops # <<>> /\ o.depth = Top.depth /\ o.expr.kind = "cond" /\ o = ops[Len(ops)]
      BY <1>1, <1>2, OrderedFront DEF WantsThen, StackIsOnDepth
    <2>2. /\ Entry(o) /\ Ordered(Front(ops)) /\ ops \in Seq(ToSet(ops))
          /\ Front(ops) # <<>> =>
               \/ o.depth < Last(Front(ops)).depth
               \/ o.depth = Last(Front(ops)).depth /\ RightAssoc(o.depth)
      BY <1>2, <2>1, OrderedFront DEF Ordered
    <2>3. o.depth = CondLayer
      BY <2>1, <2>2 DEF Entry
    <2>4. Layered(Top.expr) /\ LayerOf(Top.expr) <= 5
      BY <1>2, <2>1, <2>3, LayerNumbers DEF AtLoop, Sound
    <2>5. Sound(x) /\ x.kind = "cond" /\ ThreeKids(x)
      BY <2>2, <2>3, <2>4, CondTakes
    <2>6. p \in [depth : {p.depth}, expr : {p.expr}] /\ p.depth = CondLayer /\ p.expr = x
      <3>1. o \in [depth : {o.depth}, expr : {o.expr}]
        BY <2>2 DEF Entry
      <3> HIDE DEF x, o
      <3> QED BY <2>3, <3>1
    <2>7. h = [Top EXCEPT !.ops = [ops EXCEPT ![Len(ops)] = p]]
      BY <1>2, <2>1 DEF IsFrame
    <2> HIDE DEF x, p
    <2>8. Entry(p)
      <3>1. p.depth \in 2 .. 9
        BY <2>6, LayerNumbers
      <3> QED BY <2>5, <2>6, <3>1 DEF Entry
    <2>9. Under(Front(ops), p.depth)
      BY <2>2, <2>3, <2>6 DEF Under
    <2> DEFINE q == Append(Front(ops), p)
    <2>10. Ordered(q)
      BY <2>2, <2>8, <2>9, OrderedAppend
    <2>11. [ops EXCEPT ![Len(ops)] = p] = q
      BY <2>1, <2>2, LastReplaced
    <2> HIDE DEF q
    <2>12. h = [Top EXCEPT !.ops = q]
      BY <2>7, <2>11
    <2> HIDE DEF h, ops, o
    <2>13. IsFrame(h) /\ h.fn = "expr" /\ h.ops = q
      BY <1>1, <1>2, <2>12 DEF IsFrame
    <2> DEFINE f == [h EXCEPT !.pc = "low"]
    <2>14. f.fn = "expr" /\ f.pc = "low" /\ f.ops = q
      BY <2>13 DEF IsFrame
    <2>15. Waits(f, Frame("unary"))
      <3> HIDE DEF f
      <3> QED BY <2>14 DEF Waits, Frame
    <2>16. FrameOK(f)
      <3> HIDE DEF f
      <3> QED BY <2>10, <2>14 DEF FrameOK
    <2> QED BY <1>1, <1>4, <2>13, <2>15, <2>16, FramesCall
  <1> QED BY <1>3, <1>4 DEF TakesThen

\* An operator is pushed, and its operand parsed.
LEMMA PushFrames ==
  ASSUME SInv, Frames, Top.fn = "expr", NEW f, IsFrame(f), f.fn = "expr", Ordered(f.ops),
         f.depth \in 2 .. 9, Under(f.ops, f.depth), NEW node, Sound(node),
         IF f.depth = CondLayer THEN node.kind = "cond" /\ ThreeKids(node)
         ELSE /\ TwoKids(node) /\ node.kind \in {"binary", "range"} /\ node.text \in BinLayers[f.depth]
              /\ node.kind = "range" => f.depth = RangeLayer,
         Call([f EXCEPT !.ops = Append(@, [depth |-> f.depth, expr |-> node])], "low", "unary")
  PROVE  Frames'
  <1> DEFINE o == [depth |-> f.depth, expr |-> node]
             q == Append(f.ops, o)
             h == [f EXCEPT !.ops = q]
  <1>1. Call(h, "low", "unary")
    OBVIOUS
  <1>2. o \in [depth : {o.depth}, expr : {o.expr}] /\ o.depth = f.depth /\ o.expr = node
    OBVIOUS
  <1> HIDE DEF o
  <1>3. Entry(o)
    BY <1>2 DEF Entry
  <1>4. Ordered(q)
    BY <1>2, <1>3, OrderedAppend
  <1> HIDE DEF q
  <1>5. IsFrame(h) /\ h.fn = "expr" /\ h.ops = q
    BY DEF IsFrame
  <1> HIDE DEF h
  <1> DEFINE g == [h EXCEPT !.pc = "low"]
  <1>6. g.fn = "expr" /\ g.pc = "low" /\ g.ops = q
    BY <1>5 DEF IsFrame
  <1>7. Waits(g, Frame("unary"))
    <2> HIDE DEF g
    <2> QED BY <1>6 DEF Waits, Frame
  <1>8. FrameOK(g)
    <2> HIDE DEF g
    <2> QED BY <1>4, <1>6 DEF FrameOK
  <1> QED BY <1>1, <1>5, <1>7, <1>8, FramesCall

LEMMA TakesOperatorFrames ==
  ASSUME SInv, Frames, TakesOperator
  PROVE  Frames'
  <1>1. Top.fn = "expr" /\ Top.pc = "loop" /\ Top.depth <= 9
    BY LayerNumbers DEF TakesOperator, InLoop, At
  <1>2. IsFrame(Top) /\ Ordered(Top.ops) /\ AtLoop(Top)
    BY <1>1, ExprTop
  <1> DEFINE f  == UpdateStack(Top)
             t  == SkipSpace(s)
             op == Cur(t).text
             u  == SetRegexMode(Consume(t), TRUE)
             d  == Top.depth
             P(node) == [f EXCEPT !.ops = Append(@, [depth |-> f.depth, expr |-> node])]
  <1>3. IsFrame(f) /\ f.fn = "expr" /\ f.pc = "loop" /\ f.depth = d
    BY <1>1, <1>2, FrameIs
  <1>4. /\ Ordered(f.ops) /\ Sound(f.expr) /\ Under(f.ops, d) /\ LayerOf(f.expr) <= d
        /\ RightAssoc(d) => LayerOf(f.expr) <= d - 1
    BY <1>1, <1>2, UpdateStackIs
  <1>5. d \in 1 .. 9
    BY <1>1, <1>2 DEF AtLoop
  <1>6. op \in BinLayers[d]
    BY <1>3 DEF TakesOperator, OpAt
  <1>7. Layered(f.expr) /\ Proper(f.expr) /\ LayerOf(f.expr) \in 0 .. 9
    BY <1>4, LayerOfIs DEF Sound
  <1>8. \/ d = CondLayer /\ Call(P(Cond(f.expr)), "low", "unary")
        \/ Throw
        \/ d = RangeLayer /\ Call(P(RangeOf(op, f.expr)), "low", "unary")
        \/ d = RangeLayer /\ GoesOn([f EXCEPT !.expr = RangeOf(op, @)])
        \/ d = 1 /\ Call([f EXCEPT !.expr = Binary(op, @)], "right", "unary")
        \/ /\ d \notin {1, CondLayer, RangeLayer} /\ Call(P(Binary(op, f.expr)), "low", "unary")
           /\ ~(d = CompareLayer /\ f.expr.kind = "binary" /\ f.expr.text \in BinLayers[CompareLayer])
    <2>1. \A x \in {TRUE, FALSE} : x \/ ~x
      OBVIOUS
    <2> QED BY <1>3, LayerNumbers DEF TakesOperator, f, t, u, op
  <1> HIDE DEF f, t, op, u, d
  <1>9. CASE d = CondLayer /\ Call(P(Cond(f.expr)), "low", "unary")
    <2> DEFINE n == Cond(f.expr)
    <2>1. LayerOf(f.expr) <= 5
      BY <1>4, <1>9, LayerNumbers DEF RightAssoc
    <2>2. Sound(n) /\ n.kind = "cond" /\ ThreeKids(n)
      BY <1>7, <2>1, CondOnly
    <2> HIDE DEF n
    <2>3. f.depth \in 2 .. 9 /\ f.depth = CondLayer
      BY <1>3, <1>9, LayerNumbers
    <2>4. Call(P(n), "low", "unary")
      BY <1>9 DEF n
    <2> QED BY <1>1, <1>3, <1>4, <2>2, <2>3, <2>4, PushFrames
  <1>10. CASE Throw
    BY <1>10, FramesSame DEF Throw
  <1>11. ASSUME d = RangeLayer
         PROVE  LET n == RangeOf(op, f.expr)
                IN  Sound(n) /\ LayerOf(n) = 7 /\ TwoKids(n) /\ n.kind = "range" /\ n.text = op
    <2>1. LayerOf(f.expr) <= LeftOf(d) /\ d # CondLayer /\ d = 7
      BY <1>4, <1>11, LayerNumbers DEF LeftOf
    <2> QED BY <1>5, <1>6, <1>7, <1>11, <2>1, LeftOnly DEF RangeOf
  <1>12. CASE d = RangeLayer /\ Call(P(RangeOf(op, f.expr)), "low", "unary")
    <2> DEFINE n == RangeOf(op, f.expr)
    <2>1. Sound(n) /\ TwoKids(n) /\ n.kind = "range" /\ n.text \in BinLayers[d]
      BY <1>6, <1>11, <1>12
    <2> HIDE DEF n
    <2>3. f.depth \in 2 .. 9 /\ f.depth = RangeLayer /\ f.depth # CondLayer
      BY <1>3, <1>12, LayerNumbers
    <2>4. Call(P(n), "low", "unary")
      BY <1>12 DEF n
    <2> QED BY <1>1, <1>3, <1>4, <2>1, <2>3, <2>4, PushFrames
  <1>13. CASE d = RangeLayer /\ GoesOn([f EXCEPT !.expr = RangeOf(op, @)])
    <2> DEFINE n == RangeOf(op, f.expr)
               g == [f EXCEPT !.expr = n]
    <2>1. Sound(n) /\ LayerOf(n) = 7
      BY <1>11, <1>13
    <2>2. GoesOn(g)
      BY <1>3, <1>13 DEF IsFrame
    <2> HIDE DEF n
    <2>3. IsFrame(g) /\ g.fn = "expr" /\ g.pc = "loop" /\ g.depth = 7 /\ g.ops = f.ops /\ g.expr = n
      BY <1>3, <1>13, LayerNumbers DEF IsFrame
    <2> HIDE DEF g
    <2>4. g.ops # <<>> => Last(g.ops).depth \in 2 .. 9
      BY <1>4, <2>3, OrderedFront DEF Entry
    <2>5. g.ops # <<>> => 7 < Last(g.ops).depth
      BY <1>4, <1>13, <2>3, <2>4, LayerNumbers DEF Under, RightAssoc
    <2>6. AtLoop(g)
      BY <2>1, <2>3, <2>4, <2>5, LayerNumbers DEF AtLoop, StackIsOnDepth
    <2>7. FrameOK(g) /\ RetOK(g)
      BY <1>4, <2>3, <2>6 DEF FrameOK, RetOK
    <2> QED BY <1>1, <2>2, <2>3, <2>7, FramesGoOn
  <1>14. CASE d = 1 /\ Call([f EXCEPT !.expr = Binary(op, @)], "right", "unary")
    <2> DEFINE n == Binary(op, f.expr)
               g == [f EXCEPT !.expr = n]
               h == [g EXCEPT !.pc = "right"]
    <2>1. LayerOf(f.expr) <= LeftOf(d) /\ d # CondLayer
      BY <1>4, <1>14, LayerNumbers DEF LeftOf
    <2>2. Sound(n) /\ TwoKids(n) /\ n.kind = "binary" /\ n.text \in BinLayers[1]
      BY <1>5, <1>6, <1>7, <1>14, <2>1, LeftOnly DEF Binary
    <2>3. Call(g, "right", "unary")
      BY <1>3, <1>14 DEF IsFrame
    <2> HIDE DEF n
    <2>4. IsFrame(g) /\ g.fn = "expr" /\ g.ops = f.ops /\ g.expr = n
      BY <1>3 DEF IsFrame
    <2> HIDE DEF g
    <2>5. h.fn = "expr" /\ h.pc = "right" /\ h.ops = f.ops /\ h.expr = n
      BY <2>4 DEF IsFrame
    <2>6. Waits(h, Frame("unary"))
      <3> HIDE DEF h
      <3> QED BY <2>5 DEF Waits, Frame
    <2>7. FrameOK(h)
      <3> HIDE DEF h
      <3> QED BY <1>4, <2>2, <2>5 DEF FrameOK, AtRight
    <2> QED BY <1>1, <2>3, <2>4, <2>6, <2>7, FramesCall
  <1>15. CASE /\ d \notin {1, CondLayer, RangeLayer} /\ Call(P(Binary(op, f.expr)), "low", "unary")
              /\ ~(d = CompareLayer /\ f.expr.kind = "binary" /\ f.expr.text \in BinLayers[CompareLayer])
    <2> DEFINE n == Binary(op, f.expr)
    <2>1. LayerOf(f.expr) <= LeftOf(d)
      <3>1. CASE d = CompareLayer
        <4>1. LayerOf(f.expr) # CompareLayer
          BY <1>7, <1>15, <3>1, LayerOfIs
        <4> QED BY <1>4, <1>7, <3>1, <4>1, LayerNumbers DEF LeftOf
      <3>2. CASE d = AssignLayer
        BY <1>4, <3>2 DEF LeftOf, RightAssoc
      <3>3. CASE d \notin {CompareLayer, AssignLayer}
        BY <1>4, <3>3 DEF LeftOf
      <3> QED BY <3>1, <3>2, <3>3
    <2>2. Sound(n) /\ TwoKids(n) /\ n.kind = "binary" /\ n.text \in BinLayers[d]
      BY <1>5, <1>6, <1>7, <1>15, <2>1, LeftOnly DEF Binary
    <2> HIDE DEF n
    <2>3. f.depth \in 2 .. 9 /\ f.depth # CondLayer /\ f.depth = d
      BY <1>3, <1>5, <1>15
    <2>4. Call(P(n), "low", "unary")
      BY <1>15 DEF n
    <2> QED BY <1>1, <1>3, <1>4, <2>2, <2>3, <2>4, PushFrames
  <1> HIDE DEF P
  <1> QED BY <1>8, <1>9, <1>10, <1>12, <1>13, <1>14, <1>15

LEMMA LeavesLayerFrames ==
  ASSUME SInv, Frames, LeavesLayer
  PROVE  Frames'
  <1>1. Top.fn = "expr" /\ Top.pc = "loop" /\ Top.depth <= 9
    BY LayerNumbers DEF LeavesLayer, InLoop, At
  <1>2. IsFrame(Top) /\ Ordered(Top.ops) /\ AtLoop(Top)
    BY <1>1, ExprTop
  <1> DEFINE f == UpdateStack(Top)
             g == [f EXCEPT !.pc = "pop"]
  <1>3. IsFrame(f) /\ f.fn = "expr" /\ f.depth = Top.depth /\ GoesOn(g)
    BY <1>1, <1>2, FrameIs DEF LeavesLayer
  <1>4. Ordered(f.ops) /\ Sound(f.expr) /\ Under(f.ops, Top.depth) /\ LayerOf(f.expr) <= Top.depth
    BY <1>1, <1>2, UpdateStackIs
  <1> HIDE DEF f
  <1>5. /\ IsFrame(g) /\ g.fn = "expr" /\ g.pc = "pop" /\ g.depth = Top.depth /\ g.ops = f.ops
        /\ g.expr = f.expr
    BY <1>3 DEF IsFrame
  <1>6. GoesOn(g)
    BY <1>3
  <1> HIDE DEF g
  <1>7. AtPop(g)
    BY <1>1, <1>2, <1>4, <1>5 DEF AtLoop, AtPop
  <1>8. FrameOK(g) /\ RetOK(g)
    BY <1>4, <1>5, <1>7 DEF FrameOK, RetOK
  <1> QED BY <1>1, <1>5, <1>6, <1>8, FramesGoOn

LEMMA PopsStackFrames ==
  ASSUME SInv, Frames, PopsStack
  PROVE  Frames'
  <1>1. Top.fn = "expr" /\ Top.pc = "pop" /\ Pops(Top)
    BY DEF PopsStack, At
  <1>2. IsFrame(Top) /\ Ordered(Top.ops) /\ AtPop(Top)
    BY <1>1, ExprTop
  <1>3. CASE Throw
    BY <1>3, FramesSame DEF Throw
  <1>4. CASE GoesOn(Popped(Top))
    <2>1. IsFrame(Popped(Top)) /\ Popped(Top).fn = "expr"
      BY <1>1, <1>2, FrameIs
    <2>2. FrameOK(Popped(Top)) /\ Popped(Top).pc = "pop"
      BY <1>1, <1>2, PoppedIs
    <2>3. RetOK(Popped(Top))
      BY <2>1, <2>2 DEF RetOK
    <2> QED BY <1>1, <1>4, <2>1, <2>2, <2>3, FramesGoOn
  <1> QED BY <1>3, <1>4 DEF PopsStack

LEMMA GoesDeeperFrames ==
  ASSUME SInv, Frames, GoesDeeper
  PROVE  Frames'
  <1>1. Top.fn = "expr" /\ Top.pc = "pop" /\ ~Pops(Top)
    BY DEF GoesDeeper, At
  <1>2. IsFrame(Top) /\ Ordered(Top.ops) /\ AtPop(Top)
    BY <1>1, ExprTop
  <1> DEFINE f == [Top EXCEPT !.pc = "loop", !.depth = Top.depth + 1]
  <1>3. GoesOn(f)
    BY DEF GoesDeeper
  <1>4. /\ IsFrame(f) /\ f.fn = "expr" /\ f.pc = "loop" /\ f.depth = Top.depth + 1 /\ f.ops = Top.ops
        /\ f.expr = Top.expr
    BY <1>1, <1>2 DEF IsFrame
  <1> HIDE DEF f
  <1>5. f.ops # <<>> => Last(f.ops).depth \in 2 .. 9 /\ Top.depth < Last(f.ops).depth
    <2>1. f.ops # <<>> => Last(f.ops).depth \in 2 .. 9
      BY <1>2, <1>4, OrderedFront DEF Entry
    <2> QED BY <1>1, <1>2, <1>4, <2>1 DEF AtPop, Under, Pops, StackIsOnDepth, RightAssoc
  <1>6. LayerOf(f.expr) \in 0 .. 9
    BY <1>2, <1>4, LayerOfIs DEF AtPop, Sound
  <1>7. AtLoop(f)
    BY <1>2, <1>4, <1>5, <1>6 DEF AtPop, AtLoop
  <1>8. FrameOK(f) /\ RetOK(f)
    BY <1>2, <1>4, <1>7 DEF FrameOK, RetOK
  <1> QED BY <1>1, <1>3, <1>4, <1>8, FramesGoOn

LEMMA ExprReturnsFrames ==
  ASSUME SInv, Frames, ExprReturns
  PROVE  Frames'
  <1>1. Top.fn = "expr" /\ Top.pc = "loop" /\ Return(Top.expr)
    BY DEF ExprReturns, At
  <1>2. Sound(Top.expr)
    BY <1>1, ExprTop DEF AtLoop
  <1> QED BY <1>1, <1>2, FramesReturn

LEMMA ParseExprFrames ==
  ASSUME SInv, Frames, ParseExpr
  PROVE  Frames'
  BY ExprBeginsFrames, GetsOperandFrames, TakesThenFrames, TakesOperatorFrames, LeavesLayerFrames,
     PopsStackFrames, GoesDeeperFrames, ExprReturnsFrames DEF ParseExpr

-----------------------------------------------------------------------------
(* parse_unary, parse_prim and parse_post *)

LEMMA ParseUnaryFrames ==
  ASSUME SInv, Frames, ParseUnary
  PROVE  Frames'
  <1>1. Top.fn = "unary" /\ IsFrame(Top) /\ RetOK(Top) /\ FrameOK(Top)
    BY TopIs, FramesTop
       DEF ParseUnary, UnaryBegins, TakesUnaryOp, TakesTarget, WrapsTarget, UnaryReturns, At, SInv
  <1>2. ASSUME NEW pc \in {"ops", "target"}, NEW ops, NEW ret, pc = "target" => Tight(ret),
               GoesOn([Top EXCEPT !.pc = pc, !.ops = ops, !.ret = ret])
        PROVE  Frames'
    <2> DEFINE f == [Top EXCEPT !.pc = pc, !.ops = ops, !.ret = ret]
    <2>1. IsFrame(f) /\ f.fn = "unary" /\ f.pc = pc /\ f.ret = ret
      BY <1>1 DEF IsFrame
    <2>2. GoesOn(f)
      BY <1>2
    <2> HIDE DEF f
    <2>3. FrameOK(f) /\ RetOK(f)
      BY <1>2, <2>1 DEF FrameOK, RetOK
    <2> QED BY <1>1, <2>1, <2>2, <2>3, FramesGoOn
  <1>3. CASE UnaryBegins
    <2>1. [Top EXCEPT !.pc = "ops", !.ops = Top.ops, !.ret = Top.ret] = [Top EXCEPT !.pc = "ops"]
      BY <1>1 DEF IsFrame
    <2>2. GoesOn([Top EXCEPT !.pc = "ops"])
      BY <1>3 DEF UnaryBegins
    <2> QED BY <1>2, <2>1, <2>2
  <1>4. CASE TakesUnaryOp
    <2> DEFINE ops == Append(Top.ops, Cur(s).text)
    <2>1. GoesOn([Top EXCEPT !.ops = ops]) /\ Top.pc = "ops"
      BY <1>4 DEF TakesUnaryOp, At
    <2> HIDE DEF ops
    <2>2. [Top EXCEPT !.pc = "ops", !.ops = ops, !.ret = Top.ret] = [Top EXCEPT !.ops = ops]
      BY <1>1, <2>1 DEF IsFrame
    <2> QED BY <1>2, <2>1, <2>2
  <1>5. CASE TakesTarget
    <2> DEFINE f == [Top EXCEPT !.pc = "target"]
    <2>1. f.fn = "unary" /\ f.pc = "target"
      BY <1>1 DEF IsFrame
    <2>2. Waits(f, Frame("post")) /\ FrameOK(f)
      <3> HIDE DEF f
      <3> QED BY <2>1 DEF Waits, Frame, FrameOK
    <2>3. Call(Top, "target", "post")
      BY <1>5 DEF TakesTarget
    <2> QED BY <1>1, <2>2, <2>3, FramesCall
  <1>6. CASE WrapsTarget
    <2> DEFINE ops == Front(Top.ops)
               ret == Node("unary", Last(Top.ops), <<Top.ret>>)
    <2>1. GoesOn([Top EXCEPT !.ops = ops, !.ret = ret]) /\ Top.pc = "target"
      BY <1>1, <1>6 DEF WrapsTarget, At, IsFrame
    <2>2. Tight(ret)
      BY <1>1, <2>1, TightOne DEF RetOK, Tight, Sound
    <2> HIDE DEF ops, ret
    <2>3. [Top EXCEPT !.pc = "target", !.ops = ops, !.ret = ret] = [Top EXCEPT !.ops = ops, !.ret = ret]
      BY <1>1, <2>1 DEF IsFrame
    <2> QED BY <1>2, <2>1, <2>2, <2>3
  <1>7. CASE UnaryReturns
    <2>1. Tight(Top.ret) /\ Return(Top.ret)
      BY <1>1, <1>7 DEF UnaryReturns, At, RetOK
    <2> QED BY <1>1, <2>1, FramesReturn
  <1> QED BY <1>3, <1>4, <1>5, <1>6, <1>7 DEF ParseUnary

LEMMA ParsePostFrames ==
  ASSUME SInv, Frames, ParsePost
  PROVE  Frames'
  <1>1. Top.fn = "post" /\ IsFrame(Top) /\ RetOK(Top) /\ FrameOK(Top)
    BY TopIs, FramesTop
       DEF ParsePost, ParsePrim, ParenEnds, CallBegins, IndexBegins, BracketCloses, Access, PostReturns, At, SInv
  <1>2. CASE Throw
    BY <1>2, FramesSame DEF Throw
  <1>3. ASSUME NEW n, Tight(n),
               \/ GoesOn([Top EXCEPT !.pc = "loop", !.expr = n])
               \/ GoesOn([Top EXCEPT !.expr = n]) /\ Top.pc = "loop"
        PROVE  Frames'
    <2> DEFINE f == [Top EXCEPT !.pc = "loop", !.expr = n]
    <2>1. IsFrame(f) /\ f.fn = "post" /\ f.pc = "loop" /\ f.expr = n
      BY <1>1 DEF IsFrame
    <2>2. GoesOn(f)
      <3>1. Top.pc = "loop" => f = [Top EXCEPT !.expr = n]
        BY <1>1 DEF IsFrame
      <3> QED BY <1>3, <3>1
    <2> HIDE DEF f
    <2>3. FrameOK(f) /\ RetOK(f)
      BY <1>3, <2>1 DEF FrameOK, RetOK
    <2> QED BY <1>1, <2>1, <2>2, <2>3, FramesGoOn
  <1>4. ASSUME NEW pc \in {"paren", "call", "index"}, Call(Top, pc, "expr"), pc # "paren" => Tight(Top.expr)
        PROVE  Frames'
    <2> DEFINE f == [Top EXCEPT !.pc = pc]
    <2>1. f.fn = "post" /\ f.pc = pc /\ f.expr = Top.expr
      BY <1>1 DEF IsFrame
    <2>2. Waits(f, Frame("expr")) /\ FrameOK(f)
      <3> HIDE DEF f
      <3> QED BY <1>4, <2>1 DEF Waits, Frame, FrameOK
    <2> QED BY <1>1, <1>4, <2>2, FramesCall
  <1>5. Top.pc \in {"loop", "call", "index"} => Layered(Top.expr) /\ LayerOf(Top.expr) = 0 /\ Tight(Top.expr)
    BY <1>1 DEF FrameOK, Tight, Sound
  <1>6. Top.pc \in {"paren", "call", "index"} => Layered(Top.ret) /\ LayerOf(Top.ret) \in 0 .. 9
    BY <1>1, LayerOfIs DEF RetOK, Sound
  <1>7. CASE ParsePrim
    <2>1. Tight(Leaf(Cur(s))) /\ Tight(BadExpr)
      BY TightLeaf DEF Leaf, BadExpr
    <2>2. \/ GoesOn([Top EXCEPT !.pc = "loop", !.expr = Leaf(Cur(s))])
          \/ Call(Top, "paren", "expr") \/ Throw
          \/ GoesOn([Top EXCEPT !.pc = "loop", !.expr = BadExpr])
      BY <1>7 DEF ParsePrim, Operand
    <2> QED BY <1>2, <1>3, <1>4, <2>1, <2>2
  <1>8. CASE ParenEnds
    <2>1. Top.pc = "paren"
      BY <1>8 DEF ParenEnds, At
    <2>2. Tight(Node("paren", "(", <<Top.ret>>))
      BY <1>6, <2>1, TightOne
    <2>3. Throw \/ GoesOn([Top EXCEPT !.pc = "loop", !.expr = Node("paren", "(", <<Top.ret>>)])
      BY <1>8 DEF ParenEnds, Operand
    <2> QED BY <1>2, <1>3, <2>2, <2>3
  <1>9. CASE CallBegins
    <2>1. Top.pc = "loop"
      BY <1>9 DEF CallBegins, At
    <2>2. Tight(Node("call", "(", <<Top.expr>>))
      BY <1>5, <2>1, TightOne
    <2>3. \/ GoesOn([Top EXCEPT !.expr = Node("call", "(", <<Top.expr>>)])
          \/ Call(Top, "call", "expr")
      BY <1>1, <1>9 DEF CallBegins, IsFrame
    <2> QED BY <1>3, <1>4, <1>5, <2>1, <2>2, <2>3
  <1>10. CASE IndexBegins
    <2>1. Top.pc = "loop" /\ Call(Top, "index", "expr")
      BY <1>10 DEF IndexBegins, At
    <2> QED BY <1>4, <1>5, <2>1
  <1>11. CASE BracketCloses
    <2>1. PICK pc \in {"call", "index"} :
            /\ At("post", pc)
            /\ Must(SkipWhite(s), IF pc = "call" THEN ")" ELSE "]",
                    GoesOn([Top EXCEPT !.pc   = "loop",
                                       !.expr = Node(pc, IF pc = "call" THEN "(" ELSE "[", <<@, Top.ret>>)]))
      BY <1>11 DEF BracketCloses
    <2> DEFINE n == Node(pc, IF pc = "call" THEN "(" ELSE "[", <<Top.expr, Top.ret>>)
    <2>2. Top.pc = pc
      BY <2>1 DEF At
    <2>3. Tight(n)
      BY <1>5, <1>6, <2>2, TightTwo
    <2>4. Throw \/ GoesOn([Top EXCEPT !.pc = "loop", !.expr = n])
      BY <2>1 DEF Must
    <2> HIDE DEF n
    <2> QED BY <1>2, <1>3, <2>3, <2>4
  <1>12. CASE Access
    <2>1. Top.pc = "loop"
      BY <1>12 DEF Access, At
    <2> DEFINE u == SkipWhite(Consume(SkipSpace(s)))
               n(node) == Node("dot", ".", <<Top.expr, node>>)
    <2>2. \/ GoesOn([Top EXCEPT !.expr = n(Leaf(Cur(u)))])
          \/ Throw
          \/ GoesOn([Top EXCEPT !.expr = n(BadExpr)])
      BY <1>12 DEF Access
    <2> HIDE DEF u
    <2>3. Layered(Leaf(Cur(u))) /\ LayerOf(Leaf(Cur(u))) = 0 /\ Layered(BadExpr) /\ LayerOf(BadExpr) = 0
      BY TightLeaf DEF Leaf, BadExpr, Tight, Sound
    <2>4. Tight(n(Leaf(Cur(u)))) /\ Tight(n(BadExpr))
      BY <1>5, <2>1, <2>3, TightTwo
    <2> HIDE DEF n
    <2> QED BY <1>2, <1>3, <2>1, <2>2, <2>4
  <1>13. CASE PostReturns
    <2>1. Top.pc = "loop" /\ Return(Top.expr)
      BY <1>13 DEF PostReturns, At
    <2> QED BY <1>1, <1>5, <2>1, FramesReturn
  <1> QED BY <1>7, <1>8, <1>9, <1>10, <1>11, <1>12, <1>13 DEF ParsePost

LEMMA ProgSound ==
  ASSUME SInv, PInv, [Next]_vars
  PROVE  \A i \in 1 .. Len(prog') : Sound(prog'[i])
  <1>1. prog \in Seq(ToSet(prog)) /\ Len(prog) \in Nat
    BY DEF SInv
  <1>2. CASE prog' = prog
    BY <1>2 DEF PInv
  <1>3. CASE StatementEnds /\ prog' = Append(prog, Top.ret)
    <2>1. Sound(Top.ret)
      BY <1>3, FramesTop DEF StatementEnds, At, RetOK, PInv
    <2> DEFINE F == ToSet(prog) \cup {Top.ret}
    <2>2. prog \in Seq(F) /\ Top.ret \in F
      BY <1>1, SeqMonotonic
    <2> HIDE DEF F
    <2>3. /\ Len(prog') = Len(prog) + 1 /\ prog'[Len(prog) + 1] = Top.ret
          /\ \A i \in 1 .. Len(prog) : prog'[i] = prog[i]
      BY <1>1, <1>3, <2>2
    <2>4. ASSUME NEW i \in 1 .. Len(prog') PROVE Sound(prog'[i])
      <3>1. i = Len(prog) + 1 \/ i \in 1 .. Len(prog)
        BY <1>1, <2>3
      <3> QED BY <2>1, <2>3, <3>1 DEF PInv
    <2> QED BY <2>4
  <1>4. StatementEnds => prog' = prog \/ prog' = Append(prog, Top.ret)
    BY DEF StatementEnds, InType
  <1> QED BY <1>1, <1>2, <1>3, <1>4, ProgStep

LEMMA NextP ==
  ASSUME SInv, PInv, [Next]_vars
  PROVE  PInv'
  <1>1. CASE UNCHANGED vars
    BY <1>1, FramesSame DEF vars, PInv
  <1>2. CASE Next
    <2>1. Frames'
      BY <1>2, ParseStatementFrames, ParseExprFrames, ParseUnaryFrames, ParsePostFrames, FramesSame
         DEF Next, Finished, vars, PInv
    <2> QED BY <2>1, ProgSound DEF PInv
  <1> QED BY <1>1, <1>2

LEMMA InitP ==
  ASSUME Init
  PROVE  PInv
  <1>1. calls = <<Frame("parse")>> /\ prog = <<>>
    BY DEF Init
  <1>2. Len(calls) = 1 /\ calls[1] = Frame("parse") /\ Top = Frame("parse") /\ Len(prog) = 0
    BY <1>1 DEF Top, Last
  <1>3. \A i \in 1 .. Len(calls) : FrameOK(calls[i])
    BY <1>2, FrameBegins
  <1>4. Frames
    BY <1>2, <1>3, FrameBegins DEF Frames
  <1> QED BY <1>2, <1>4 DEF PInv

LEMMA PrecedenceFromP ==
  ASSUME SInv, PInv
  PROVE  PrecedenceKept
  <1>1. ASSUME NEW k \in 0 .. Len(s.tokens), NEW n \in Below(ToSet(prog))[k]
        PROVE  WellLayered(n)
    <2>1. k \in Nat
      BY StreamTypes DEF SInv
    <2>2. PICK m \in ToSet(prog) : n \in Below({m})[k]
      BY <2>1, <1>1, BelowMembers
    <2>3. PICK i \in 1 .. Len(prog) : m = prog[i]
      <3>1. prog \in Seq(ToSet(prog))
        BY DEF SInv
      <3>2. DOMAIN prog = 1 .. Len(prog)
        BY <3>1
      <3>3. \E i \in DOMAIN prog : m = prog[i]
        BY <2>2 DEF ToSet
      <3> QED BY <3>2, <3>3
    <2>4. Layered(m)
      BY <2>3 DEF PInv, Sound
    <2> QED BY <2>1, <2>2, <2>4 DEF Layered
  <1> QED BY <1>1 DEF PrecedenceKept

LEMMA SpecP == Spec => [](SInv /\ PInv)
  <1>1. Init => SInv /\ PInv
    BY InitS, InitP
  <1>2. SInv /\ PInv /\ [Next]_vars => (SInv /\ PInv)'
    BY NextS, NextP
  <1> QED BY <1>1, <1>2, PTL DEF Spec

\* Every tree that parse_expr builds with its operator stack has the
\* precedence and the associativity of bin_layers at every node, whatever
\* was popped by update_stack and post_update_stack on the way.
THEOREM OperatorsLayered == Spec => []PrecedenceKept
  <1>1. SInv /\ PInv => PrecedenceKept
    BY PrecedenceFromP
  <1> QED BY <1>1, SpecP, PTL

-----------------------------------------------------------------------------
(* An expression ends only where nothing can continue it: what may stand at  *)
(* the cursor when a function goes on or has returned.                       *)

\* The last token read, blanks aside, is a range operator.
Open(t) ==
  \E i \in 1 .. t.cur - 1 :
    /\ t.tokens[i].tag \notin Blank /\ t.tokens[i].text \in BinLayers[RangeLayer]
    /\ \A j \in 1 .. t.cur - 1 : t.tokens[j].tag \notin Blank => j <= i

Stops(t, texts) == Open(t) \/ NotAt(t, texts)

PostOps == {"(", ".", "["}

\* The operators that would have been taken up to a layer.
Taken(d) == (UNION {BinLayers[e] \ {":"} : e \in 1 .. d}) \cup PostOps

TInv ==
  /\ Top.fn = "expr" /\ Top.pc = "loop" => Stops(s, Taken(Top.depth - 1))
  /\ Top.fn = "expr" /\ Top.pc = "pop" => Stops(s, Taken(Top.depth))
  /\ Top.fn = "expr" /\ Top.pc \in {"first", "low", "right"} => NotAt(s, PostOps)
  /\ Top.fn = "unary" /\ Top.pc = "target" => NotAt(s, PostOps)
  /\ Top.fn = "parse" /\ Top.pc = "statement" => Stops(s, Taken(BinLayerLen))

LEMMA TakenIs ==
  /\ Taken(0) = PostOps /\ Taken(BinLayerLen) = Continues
  /\ \A d \in 1 .. 9 : Taken(d) = Taken(d - 1) \cup (BinLayers[d] \ {":"})
  <1>1. Taken(0) = PostOps
    <2>1. 1 .. 0 = {}
      OBVIOUS
    <2> QED BY <2>1, Zenon DEF Taken
  <1>2. Taken(BinLayerLen) = Continues
    <2>1. \A x : x \in UNION {BinLayers[e] \ {":"} : e \in 1 .. BinLayerLen}
                 <=> \E e \in 1 .. BinLayerLen : x \in BinLayers[e] /\ x # ":"
      OBVIOUS
    <2>2. \A x : x \in (UNION {BinLayers[e] : e \in 1 .. BinLayerLen}) \ {":"}
                 <=> \E e \in 1 .. BinLayerLen : x \in BinLayers[e] /\ x # ":"
      BY Zenon
    <2>3. UNION {BinLayers[e] \ {":"} : e \in 1 .. BinLayerLen}
            = (UNION {BinLayers[e] : e \in 1 .. BinLayerLen}) \ {":"}
      BY <2>1, <2>2, Zenon
    <2> QED BY <2>3, Zenon DEF Taken, Continues, PostOps
  <1>3. ASSUME NEW d \in 1 .. 9 PROVE Taken(d) = Taken(d - 1) \cup (BinLayers[d] \ {":"})
    <2>1. \A e : e \in 1 .. d <=> e \in 1 .. d - 1 \/ e = d
      OBVIOUS
    <2> QED BY <2>1, Zenon DEF Taken
  <1> QED BY <1>1, <1>2, <1>3

LEMMA OpenIs ==
  EndsOpen <=> Open(s)
  BY DEF EndsOpen, Open

\* Skipping blanks keeps the last token read.
LEMMA OpenSkips ==
  ASSUME NEW t, StreamOK(t), Open(t)
  PROVE  Open(SkipSpace(t))
  <1> DEFINE u == SkipSpace(t)
  <1>1. /\ ReadOn(t, u) /\ \A i \in Nat : t.cur <= i /\ i < u.cur => u.tokens[i].tag \in {"space"}
    BY SkipTagIs DEF SkipSpace
  <1> HIDE DEF u
  <1>2. t.cur \in Nat /\ u.cur \in Nat /\ t.cur <= u.cur /\ t.cur - 1 <= Len(t.tokens) /\ Len(t.tokens) \in Nat
    BY <1>1, StreamTypes DEF ReadOn, StreamOK
  <1>3. \A i \in 1 .. t.cur - 1 : u.tokens[i] = t.tokens[i]
    BY <1>1, <1>2 DEF ReadOn, Later
  <1>4. PICK i \in 1 .. t.cur - 1 :
          /\ t.tokens[i].tag \notin Blank /\ t.tokens[i].text \in BinLayers[RangeLayer]
          /\ \A j \in 1 .. t.cur - 1 : t.tokens[j].tag \notin Blank => j <= i
    BY DEF Open
  <1>5. i \in 1 .. u.cur - 1 /\ u.tokens[i] = t.tokens[i]
    BY <1>2, <1>3
  <1>6. ASSUME NEW j \in 1 .. u.cur - 1, u.tokens[j].tag \notin Blank PROVE j <= i
    <2>1. CASE j < t.cur
      <3>1. j \in 1 .. t.cur - 1
        BY <1>2, <2>1
      <3> QED BY <1>3, <1>4, <1>6, <3>1
    <2>2. CASE ~(j < t.cur)
      <3>1. u.tokens[j].tag = "space"
        BY <1>1, <1>2, <2>2
      <3> QED BY <1>6, <3>1 DEF Blank
    <2> QED BY <2>1, <2>2
  <1>7. Open(u)
    BY <1>4, <1>5, <1>6 DEF Open
  <1> QED BY <1>7 DEF u

\* A range operator that has just been read.
LEMMA OpenConsume ==
  ASSUME NEW t, StreamOK(t), ~Eos(t), Cur(t).text \in BinLayers[RangeLayer]
  PROVE  LET u == SetRegexMode(Consume(t), TRUE) IN StreamOK(u) /\ Open(u)
  <1> DEFINE v == Consume(t)
             u == SetRegexMode(v, TRUE)
  <1>1. /\ ReadOn(t, v) /\ v.cur = t.cur + 1 /\ v.tokens[t.cur] = Cur(t) /\ Cur(t) \in Tokens
    BY ConsumeIs
  <1>2. Cur(t).tag \notin Blank
    BY <1>1, AtRangeIs DEF Tokens, Space, Line, Hash
  <1>3. t.cur \in Nat /\ 1 <= t.cur
    BY StreamTypes
  <1> HIDE DEF v
  <1>4. u.tokens = v.tokens /\ u.cur = v.cur /\ StreamOK(u)
    <2>1. /\ u \in Streams /\ u.cur = v.cur /\ u.lastSkip = v.lastSkip /\ u.tokens = v.tokens
          /\ u.input = v.input /\ u.begin = v.begin /\ u.prevSkip = v.prevSkip
      BY <1>1 DEF SetRegexMode, Streams, StreamOK, ReadOn
    <2> HIDE DEF u
    <2> QED BY <1>1, <2>1 DEF StreamOK, End, Lexed, ReadOn
  <1> HIDE DEF u
  <1>5. t.cur \in 1 .. u.cur - 1 /\ u.tokens[t.cur] = Cur(t)
    BY <1>1, <1>3, <1>4
  <1>6. \A j \in 1 .. u.cur - 1 : j <= t.cur
    BY <1>1, <1>3, <1>4
  <1> QED BY <1>2, <1>4, <1>5, <1>6 DEF Open, u, v

LEMMA StopsSkips ==
  ASSUME NEW t, StreamOK(t), NEW texts, Stops(t, texts)
  PROVE  Stops(SkipSpace(t), texts)
  BY OpenSkips, SkipSpaceStays DEF Stops

LEMMA StopsSet ==
  ASSUME NEW t, NEW on \in BOOLEAN, NEW texts, StreamOK(t)
  PROVE  /\ Stops(t, texts) => Stops(SetRegexMode(t, on), texts)
         /\ NotAt(t, texts) => NotAt(SetRegexMode(t, on), texts)
  <1> DEFINE u == SetRegexMode(t, on)
  <1>1. u.tokens = t.tokens /\ u.cur = t.cur
    BY DEF SetRegexMode, StreamOK, Streams
  <1> HIDE DEF u
  <1>2. Open(t) => Open(u)
    BY <1>1 DEF Open
  <1>3. NotAt(t, texts) => NotAt(u, texts)
    BY SetRegexModeStays DEF u
  <1> QED BY <1>2, <1>3 DEF Stops, u

LEMMA CallTop ==
  ASSUME Shape(calls), NEW f, NEW pc, NEW fn, Call(f, pc, fn)
  PROVE  Top' = Frame(fn)
  <1> DEFINE g == [f EXCEPT !.pc = pc]
             h == Frame(fn)
             F == ToSet(calls) \cup {g, h}
             d == Front(calls) \o <<g, h>>
  <1>1. /\ Front(calls) \in Seq(ToSet(calls)) /\ Len(calls) \in Nat
        /\ Len(calls) >= 1 /\ Len(Front(calls)) = Len(calls) - 1
    BY FrontIs, SeqIs DEF Shape
  <1>2. Front(calls) \in Seq(F) /\ g \in F /\ h \in F
    BY <1>1, SeqMonotonic
  <1>3. Top' = Last(d)
    BY DEF Call, Top
  <1> HIDE DEF F, g, h
  <1>4. d \in Seq(F) /\ Len(d) = Len(calls) + 1 /\ d[Len(calls) + 1] = h
    BY <1>1, <1>2
  <1> HIDE DEF d
  <1>5. d \in Seq(ToSet(d)) /\ d # <<>>
    BY <1>1, <1>4, SeqIs
  <1> QED BY <1>3, <1>4, <1>5, SeqIs DEF h

\* A function begins with no claim on the cursor.
LEMMA CallStops ==
  ASSUME SInv, NEW f, NEW pc, NEW fn, Call(f, pc, fn)
  PROVE  TInv'
  <1>1. Top'.pc = "enter"
    BY CallTop DEF SInv, Frame
  <1> QED BY <1>1 DEF TInv

LEMMA GoesOnStops ==
  ASSUME SInv, NEW f, GoesOn(f), IsFrame(f), f.fn = Top.fn,
         f.fn = "expr" /\ f.pc = "loop" => Stops(s', Taken(f.depth - 1)),
         f.fn = "expr" /\ f.pc = "pop" => Stops(s', Taken(f.depth)),
         ~(f.fn = "expr" /\ f.pc \in {"first", "low", "right"}),
         f.fn = "unary" /\ f.pc = "target" => NotAt(s', PostOps),
         ~(f.fn = "parse" /\ f.pc = "statement")
  PROVE  TInv'
  <1>1. Top' = f
    BY GoesOnShape DEF SInv
  <1> QED BY <1>1 DEF TInv

LEMMA SameStops ==
  ASSUME TInv, UNCHANGED <<s, calls>>
  PROVE  TInv'
  BY DEF TInv, Top

LEMMA ReturnStops ==
  ASSUME SInv, NEW node, Return(node), Top.fn # "parse",
         Top.fn \in {"unary", "post"} => NotAt(s', PostOps),
         Top.fn = "expr" => Stops(s', Taken(BinLayerLen))
  PROVE  TInv'
  <1> DEFINE f == calls[Len(calls) - 1]
             g == [f EXCEPT !.ret = node]
  <1>1. Waits(f, Top) /\ IsFrame(f) /\ Top' = g
    BY ReturnShape DEF SInv
  <1> HIDE DEF f
  <1>2. g.fn = f.fn /\ g.pc = f.pc
    BY <1>1 DEF IsFrame
  <1> HIDE DEF g
  <1> QED BY <1>1, <1>2 DEF TInv, Waits

LEMMA ParseStatementStops ==
  ASSUME SInv, TInv, ParseStatement
  PROVE  TInv'
  <1>0. Top.fn = "parse" /\ IsFrame(Top)
    BY TopIs DEF ParseStatement, ProgramEnds, StatementBegins, StatementEnds, ProgramSkips, At, SInv
  <1>1. ASSUME NEW pc \in {"shrunk", "enter"}, GoesOn([Top EXCEPT !.pc = pc]) PROVE TInv'
    <2> DEFINE f == [Top EXCEPT !.pc = pc]
    <2>1. IsFrame(f) /\ f.fn = "parse" /\ f.pc = pc /\ GoesOn(f)
      BY <1>0, <1>1 DEF IsFrame
    <2> HIDE DEF f
    <2> QED BY <1>0, <2>1, GoesOnStops
  <1>2. \/ UNCHANGED <<s, calls>> \/ GoesOn([Top EXCEPT !.pc = "shrunk"]) \/ GoesOn([Top EXCEPT !.pc = "enter"])
        \/ Call(Top, "statement", "expr")
    BY DEF ParseStatement, ProgramEnds, StatementBegins, StatementEnds, ProgramSkips, InType
  <1> QED BY <1>1, <1>2, SameStops, CallStops

LEMMA ExprBeginsStops ==
  ASSUME SInv, PInv, TInv, ExprBegins
  PROVE  TInv'
  <1>1. Top.fn = "expr" /\ Top.pc = "enter" /\ ~At("parse", "shrunk")
    BY DEF ExprBegins, At
  <1>2. IsFrame(Top) /\ Top = Frame("expr")
    BY <1>1, ExprTop DEF FrameOK, PInv
  <1>3. CASE AtRange(s)
    <2>1. s' = SetRegexMode(MaybeParse(s), FALSE) /\ GoesOn([Top EXCEPT !.pc = "loop"])
      BY <1>3 DEF ExprBegins
    <2>2. AtRange(s') /\ NotAt(s', {})
      BY <1>1, <1>3, <2>1, GapBegins
    <2>3. Stops(s', Taken(0))
      BY <2>2, AtRangeIs, TakenIs DEF Stops, NotAt, PostOps
    <2> DEFINE f == [Top EXCEPT !.pc = "loop"]
    <2>4. IsFrame(f) /\ f.fn = "expr" /\ f.pc = "loop" /\ f.depth - 1 = 0 /\ GoesOn(f)
      BY <1>1, <1>2, <2>1 DEF IsFrame, Frame
    <2> HIDE DEF f
    <2> QED BY <1>1, <2>3, <2>4, GoesOnStops
  <1>4. CASE ~AtRange(s)
    BY <1>4, CallStops DEF ExprBegins
  <1> QED BY <1>3, <1>4

LEMMA GetsOperandStops ==
  ASSUME SInv, TInv, GetsOperand
  PROVE  TInv'
  <1>1. PICK pc \in {"first", "low", "right"} :
          /\ At("expr", pc)
          /\ s' = IF pc = "first" THEN SetRegexMode(s, FALSE) ELSE s
          /\ GoesOn([Top EXCEPT !.pc    = "loop",
                                !.depth = 1,
                                !.expr  = IF pc = "right" THEN WithKid(@, 2, Top.ret) ELSE Top.ret])
    BY DEF GetsOperand
  <1>2. Top.fn = "expr" /\ NotAt(s, PostOps) /\ IsFrame(Top) /\ StreamOK(s)
    BY <1>1, TopIs DEF At, TInv, SInv
  <1>3. NotAt(s', PostOps)
    BY <1>1, <1>2, StopsSet
  <1> DEFINE e == IF pc = "right" THEN WithKid(Top.expr, 2, Top.ret) ELSE Top.ret
             f == [Top EXCEPT !.pc = "loop", !.depth = 1, !.expr = e]
  <1>4. GoesOn(f)
    BY <1>1
  <1> HIDE DEF e
  <1>5. IsFrame(f) /\ f.fn = "expr" /\ f.pc = "loop" /\ f.depth = 1
    BY <1>2 DEF IsFrame
  <1> HIDE DEF f
  <1>6. f.depth - 1 = 0
    BY <1>5
  <1>7. Stops(s', Taken(f.depth - 1))
    BY <1>2, <1>3, <1>6, TakenIs DEF Stops
  <1> QED BY <1>2, <1>4, <1>5, <1>7, GoesOnStops

LEMMA TakesOperatorStops ==
  ASSUME SInv, TInv, TakesOperator
  PROVE  TInv'
  <1>1. Top.fn = "expr" /\ Top.pc = "loop" /\ IsFrame(Top) /\ StreamOK(s)
    BY TopIs DEF TakesOperator, InLoop, At, SInv
  <1> DEFINE f  == UpdateStack(Top)
             t  == SkipSpace(s)
             op == Cur(t).text
             u  == SetRegexMode(Consume(t), TRUE)
  <1>2. IsFrame(f) /\ f.fn = "expr" /\ f.pc = "loop"
    BY <1>1, FrameIs
  <1>3. CASE f.depth = RangeLayer /\ s' = SkipSpace(u) /\ GoesOn([f EXCEPT !.expr = RangeOf(op, @)])
    <2>1. StreamOK(t)
      BY <1>1, SkipTagIs DEF SkipSpace, ReadOn
    <2>2. ~Eos(t) /\ Cur(t).text \in BinLayers[RangeLayer]
      BY <1>3 DEF TakesOperator, OpAt
    <2>3. StreamOK(u) /\ Open(u)
      BY <2>1, <2>2, OpenConsume
    <2>4. \A texts : Stops(s', texts)
      BY <1>3, <2>3, OpenSkips DEF Stops
    <2> DEFINE n == RangeOf(op, f.expr)
               g == [f EXCEPT !.expr = n]
    <2>5. GoesOn(g)
      BY <1>2, <1>3 DEF IsFrame
    <2> HIDE DEF n, f
    <2>6. IsFrame(g) /\ g.fn = "expr" /\ g.pc = "loop"
      BY <1>2 DEF IsFrame
    <2> HIDE DEF g
    <2> QED BY <1>1, <2>4, <2>5, <2>6, GoesOnStops
  <1>4. \/ f.depth = RangeLayer /\ s' = SkipSpace(u) /\ GoesOn([f EXCEPT !.expr = RangeOf(op, @)])
        \/ Throw
        \/ \E g, pc, fn : Call(g, pc, fn)
    BY DEF TakesOperator
  <1> QED BY <1>3, <1>4, CallStops, SameStops DEF Throw

LEMMA LeavesLayerStops ==
  ASSUME SInv, PInv, TInv, LeavesLayer
  PROVE  TInv'
  <1>1. Top.fn = "expr" /\ Top.pc = "loop" /\ Top.depth <= 9 /\ s' = SkipSpace(s)
    BY LayerNumbers DEF LeavesLayer, InLoop, At
  <1>2. IsFrame(Top) /\ Top.depth \in 1 .. 9 /\ Stops(s, Taken(Top.depth - 1)) /\ StreamOK(s)
    BY <1>1, ExprTop DEF AtLoop, PInv, TInv, SInv
  <1> DEFINE f == UpdateStack(Top)
             g == [f EXCEPT !.pc = "pop"]
  <1>3. IsFrame(f) /\ f.fn = "expr" /\ f.depth = Top.depth /\ GoesOn(g) /\ ~OpAt(s', Top.depth)
    BY <1>1, <1>2, FrameIs DEF LeavesLayer
  <1>4. Stops(s', Taken(Top.depth - 1))
    BY <1>1, <1>2, StopsSkips
  <1>5. Stops(s', Taken(Top.depth))
    <2>1. Taken(Top.depth) = Taken(Top.depth - 1) \cup (BinLayers[Top.depth] \ {":"})
      BY <1>2, TakenIs
    <2> QED BY <1>3, <1>4, <2>1 DEF Stops, NotAt, OpAt
  <1> HIDE DEF f
  <1>6. IsFrame(g) /\ g.fn = "expr" /\ g.pc = "pop" /\ g.depth = Top.depth
    BY <1>3 DEF IsFrame
  <1>7. GoesOn(g)
    BY <1>3
  <1> HIDE DEF g
  <1> QED BY <1>1, <1>5, <1>6, <1>7, GoesOnStops

LEMMA ParseExprStops ==
  ASSUME SInv, PInv, TInv, ParseExpr
  PROVE  TInv'
  <1>1. CASE TakesThen
    BY <1>1, CallStops, SameStops DEF TakesThen, Throw
  <1>2. CASE PopsStack
    <2>1. Top.fn = "expr" /\ Top.pc = "pop" /\ IsFrame(Top) /\ Stops(s, Taken(Top.depth))
      BY <1>2, TopIs DEF PopsStack, At, SInv, TInv
    <2>2. CASE GoesOn(Popped(Top)) /\ UNCHANGED s
      <3> DEFINE x == WithKid(Last(Top.ops).expr, Len(Last(Top.ops).expr.kids), Top.expr)
                 y == Front(Top.ops)
                 g == [Top EXCEPT !.expr = x, !.ops = y]
      <3>1. Popped(Top) = g
        BY <2>1 DEF Popped, IsFrame
      <3> HIDE DEF x, y
      <3>2. IsFrame(g) /\ g.fn = "expr" /\ g.pc = "pop" /\ g.depth = Top.depth
        BY <2>1 DEF IsFrame
      <3>3. GoesOn(g)
        BY <2>2, <3>1
      <3> HIDE DEF g
      <3> QED BY <2>1, <2>2, <3>2, <3>3, GoesOnStops
    <2> QED BY <1>2, <2>2, SameStops DEF PopsStack, Throw
  <1>3. CASE GoesDeeper
    <2>1. Top.fn = "expr" /\ Top.pc = "pop" /\ IsFrame(Top) /\ Stops(s, Taken(Top.depth)) /\ UNCHANGED s
      BY <1>3, TopIs DEF GoesDeeper, At, SInv, TInv
    <2>2. Top.depth \in 1 .. 9
      BY <2>1, ExprTop DEF PInv, AtPop
    <2> DEFINE f == [Top EXCEPT !.pc = "loop", !.depth = Top.depth + 1]
    <2>3. GoesOn(f)
      BY <1>3 DEF GoesDeeper
    <2>4. IsFrame(f) /\ f.fn = "expr" /\ f.pc = "loop" /\ f.depth = Top.depth + 1
      BY <2>1, <2>2 DEF IsFrame
    <2> HIDE DEF f
    <2>5. f.depth - 1 = Top.depth
      BY <2>2, <2>4
    <2>6. Stops(s', Taken(f.depth - 1))
      BY <2>1, <2>5
    <2> QED BY <2>1, <2>3, <2>4, <2>6, GoesOnStops
  <1>4. CASE ExprReturns
    <2>1. /\ Top.fn = "expr" /\ Top.pc = "loop" /\ s' = SetRegexMode(s, TRUE) /\ Return(Top.expr)
          /\ Top.depth > 9 /\ StreamOK(s)
      BY <1>4, LayerNumbers DEF ExprReturns, At, SInv
    <2>2. Top.depth - 1 = BinLayerLen
      BY <2>1, ExprTop, LayerNumbers DEF PInv, AtLoop
    <2>3. Stops(s', Taken(BinLayerLen))
      BY <2>1, <2>2, StopsSet DEF TInv
    <2> QED BY <2>1, <2>3, ReturnStops
  <1> QED BY <1>1, <1>2, <1>3, <1>4, ExprBeginsStops, GetsOperandStops, TakesOperatorStops,
             LeavesLayerStops DEF ParseExpr

LEMMA ParseUnaryStops ==
  ASSUME SInv, TInv, ParseUnary
  PROVE  TInv'
  <1>1. Top.fn = "unary" /\ IsFrame(Top)
    BY TopIs DEF ParseUnary, UnaryBegins, TakesUnaryOp, TakesTarget, WrapsTarget, UnaryReturns, At, SInv
  <1>2. CASE UnaryBegins
    <2> DEFINE f == [Top EXCEPT !.pc = "ops"]
    <2>1. GoesOn(f) /\ IsFrame(f) /\ f.fn = "unary" /\ f.pc = "ops"
      BY <1>1, <1>2 DEF UnaryBegins, IsFrame
    <2> HIDE DEF f
    <2> QED BY <1>1, <2>1, GoesOnStops
  <1>3. CASE TakesUnaryOp
    <2> DEFINE ops == Append(Top.ops, Cur(s).text)
               f   == [Top EXCEPT !.ops = ops]
    <2>1. GoesOn(f) /\ Top.pc = "ops"
      BY <1>3 DEF TakesUnaryOp, At
    <2> HIDE DEF ops
    <2>2. IsFrame(f) /\ f.fn = "unary" /\ f.pc = "ops"
      BY <1>1, <2>1 DEF IsFrame
    <2> HIDE DEF f
    <2> QED BY <1>1, <2>1, <2>2, GoesOnStops
  <1>4. CASE TakesTarget
    BY <1>4, CallStops DEF TakesTarget
  <1>5. CASE WrapsTarget
    <2> DEFINE ops == Front(Top.ops)
               ret == Node("unary", Last(Top.ops), <<Top.ret>>)
               f   == [Top EXCEPT !.ops = ops, !.ret = ret]
    <2>1. GoesOn(f) /\ Top.pc = "target" /\ UNCHANGED s
      BY <1>1, <1>5 DEF WrapsTarget, At, IsFrame
    <2> HIDE DEF ops, ret
    <2>2. IsFrame(f) /\ f.fn = "unary" /\ f.pc = "target"
      BY <1>1, <2>1 DEF IsFrame
    <2> HIDE DEF f
    <2>3. NotAt(s', PostOps)
      BY <1>1, <2>1 DEF TInv
    <2> QED BY <1>1, <2>1, <2>2, <2>3, GoesOnStops
  <1>6. CASE UnaryReturns
    <2>1. Return(Top.ret) /\ UNCHANGED s /\ NotAt(s, PostOps)
      BY <1>1, <1>6 DEF UnaryReturns, At, TInv
    <2> QED BY <1>1, <2>1, ReturnStops
  <1> QED BY <1>2, <1>3, <1>4, <1>5, <1>6 DEF ParseUnary

LEMMA ParsePostStops ==
  ASSUME SInv, TInv, ParsePost
  PROVE  TInv'
  <1>1. Top.fn = "post" /\ IsFrame(Top) /\ StreamOK(s)
    BY TopIs
       DEF ParsePost, ParsePrim, ParenEnds, CallBegins, IndexBegins, BracketCloses, Access, PostReturns,
           At, SInv
  <1>2. CASE PostReturns
    <2>1. Return(Top.expr) /\ s' = SkipSpace(s)
      BY <1>2 DEF PostReturns
    <2>2. ~(~Eos(s') /\ Cur(s').text \in PostOps)
      BY <1>2, <2>1 DEF PostReturns, Expect, PostOps
    <2>3. NotAt(s', PostOps)
      BY <1>1, <2>1, <2>2, SkipSpaceNotAt
    <2> QED BY <1>1, <2>1, <2>3, ReturnStops
  <1>3. ASSUME NEW n, GoesOn([Top EXCEPT !.pc = "loop", !.expr = n]) \/ GoesOn([Top EXCEPT !.expr = n])
        PROVE  TInv'
    <2>1. PICK f : GoesOn(f) /\ (f = [Top EXCEPT !.pc = "loop", !.expr = n] \/ f = [Top EXCEPT !.expr = n])
      BY <1>3
    <2>2. IsFrame(f) /\ f.fn = "post"
      BY <1>1, <2>1 DEF IsFrame
    <2> QED BY <1>1, <2>1, <2>2, GoesOnStops
  <1>4. \/ PostReturns \/ Throw
        \/ \E n : GoesOn([Top EXCEPT !.pc = "loop", !.expr = n]) \/ GoesOn([Top EXCEPT !.expr = n])
        \/ \E f, pc, fn : Call(f, pc, fn)
    <2>1. CASE ParsePrim
      BY <2>1 DEF ParsePrim, Operand
    <2>2. CASE ParenEnds
      BY <2>2 DEF ParenEnds, Operand
    <2>3. CASE CallBegins
      BY <1>1, <2>3 DEF CallBegins, IsFrame
    <2>4. CASE IndexBegins
      BY <2>4 DEF IndexBegins
    <2>5. CASE BracketCloses
      <3>1. PICK pc \in {"call", "index"} :
              Must(SkipWhite(s), IF pc = "call" THEN ")" ELSE "]",
                   GoesOn([Top EXCEPT !.pc   = "loop",
                                      !.expr = Node(pc, IF pc = "call" THEN "(" ELSE "[", <<@, Top.ret>>)]))
        BY <2>5 DEF BracketCloses
      <3> DEFINE n == Node(pc, IF pc = "call" THEN "(" ELSE "[", <<Top.expr, Top.ret>>)
      <3>2. Throw \/ GoesOn([Top EXCEPT !.pc = "loop", !.expr = n])
        BY <3>1 DEF Must
      <3> QED BY <3>2
    <2>6. CASE Access
      <3> DEFINE n(node) == Node("dot", ".", <<Top.expr, node>>)
                 u == SkipWhite(Consume(SkipSpace(s)))
      <3>1. \/ GoesOn([Top EXCEPT !.expr = n(Leaf(Cur(u)))])
            \/ Throw
            \/ GoesOn([Top EXCEPT !.expr = n(BadExpr)])
        BY <2>6 DEF Access
      <3> HIDE DEF n, u
      <3> QED BY <3>1
    <2> QED BY <2>1, <2>2, <2>3, <2>4, <2>5, <2>6 DEF ParsePost
  <1> QED BY <1>2, <1>3, <1>4, CallStops, SameStops DEF Throw

LEMMA NextT ==
  ASSUME SInv, PInv, TInv, [Next]_vars
  PROVE  TInv'
  BY ParseStatementStops, ParseExprStops, ParseUnaryStops, ParsePostStops, SameStops
     DEF Next, Finished, vars

LEMMA InitT ==
  ASSUME Init
  PROVE  TInv
  <1>1. calls = <<Frame("parse")>>
    BY DEF Init
  <1>2. Top = Frame("parse")
    BY <1>1 DEF Top, Last
  <1>3. Top.pc = "enter"
    BY <1>2 DEF Frame
  <1> QED BY <1>3 DEF TInv

LEMMA TakesAllFromT ==
  ASSUME TInv
  PROVE  ExpressionTakesAll
  <1>1. ASSUME At("parse", "statement"), ~EndsOpen
        PROVE  LET t == SkipSpace(s) IN Eos(t) \/ Cur(t).text \notin Continues
    <2>1. NotAt(s, Continues)
      BY <1>1, OpenIs, TakenIs DEF At, TInv, Stops
    <2>2. NotAt(SkipSpace(s), Continues)
      BY <2>1, SkipSpaceStays
    <2> QED BY <2>2 DEF NotAt
  <1> QED BY <1>1 DEF ExpressionTakesAll

LEMMA SpecT == Spec => [](SInv /\ PInv /\ TInv)
  <1>1. Init => SInv /\ PInv /\ TInv
    BY InitS, InitP, InitT
  <1>2. SInv /\ PInv /\ TInv /\ [Next]_vars => (SInv /\ PInv /\ TInv)'
    BY NextS, NextP, NextT
  <1> QED BY <1>1, <1>2, PTL DEF Spec

\* parse_expr returns to a statement only at the end of the text or before a
\* token that cannot continue the expression, or behind a range without end:
\* no layer of the loop is left while its operator is at the cursor.
THEOREM ExpressionsWhole == Spec => []ExpressionTakesAll
  <1>1. SInv /\ PInv /\ TInv => ExpressionTakesAll
    BY TakesAllFromT
  <1> QED BY <1>1, SpecT, PTL

-----------------------------------------------------------------------------
(* Sequences of sequences, one after the other.                              *)

IsSeq(a) == a \in Seq(ToSet(a))

\* All elements are sequences.
SeqSeq(g) == IsSeq(g) /\ \A i \in 1 .. Len(g) : IsSeq(g[i])

LEMMA SeqLen ==
  ASSUME NEW a, IsSeq(a)
  PROVE  Len(a) \in Nat /\ DOMAIN a = 1 .. Len(a) /\ a = [i \in 1 .. Len(a) |-> a[i]]
  <1> DEFINE A == ToSet(a)
  <1> HIDE DEF A
  <1>1. a \in Seq(A)
    BY DEF IsSeq, A
  <1> QED BY <1>1

LEMMA SeqFun ==
  ASSUME NEW a, NEW n \in Nat, DOMAIN a = 1 .. n, a = [i \in 1 .. n |-> a[i]]
  PROVE  IsSeq(a) /\ Len(a) = n
  <1>1. \A i \in 1 .. n : a[i] \in ToSet(a)
    BY DEF ToSet
  <1> DEFINE A == ToSet(a)
  <1>2. \A i \in 1 .. n : a[i] \in A
    BY <1>1
  <1> HIDE DEF A
  <1>3. a \in [1 .. n -> A]
    BY <1>2
  <1>4. a \in Seq(A)
    BY <1>3, SeqDef
  <1>5. Len(a) = n
    BY <1>4, LenProperties
  <1> QED BY <1>4, <1>5 DEF IsSeq, A

LEMMA SeqSame ==
  ASSUME NEW a, NEW b, IsSeq(a), IsSeq(b), Len(a) = Len(b), \A i \in 1 .. Len(a) : a[i] = b[i]
  PROVE  a = b
  <1>1. a = [i \in 1 .. Len(a) |-> a[i]] /\ b = [i \in 1 .. Len(b) |-> b[i]]
    BY SeqLen
  <1> QED BY <1>1

LEMMA SeqTuples ==
  /\ IsSeq(<<>>) /\ Len(<<>>) = 0
  /\ \A x : IsSeq(<<x>>) /\ Len(<<x>>) = 1
  /\ \A x, y : IsSeq(<<x, y>>)
  /\ \A x, y, z : IsSeq(<<x, y, z>>)
  /\ \A x, y, z, u : IsSeq(<<x, y, z, u>>)
  /\ \A x, y, z, u, v : IsSeq(<<x, y, z, u, v>>)
  <1>1. \A S : <<>> \in Seq(S)
    OBVIOUS
  <1>2. \A x : <<x>> \in Seq({x})
    OBVIOUS
  <1>3. \A x, y : <<x, y>> \in Seq({x, y})
    OBVIOUS
  <1>4. \A x, y, z : <<x, y, z>> \in Seq({x, y, z})
    OBVIOUS
  <1>5. \A x, y, z, u : <<x, y, z, u>> \in Seq({x, y, z, u})
    OBVIOUS
  <1>6. \A x, y, z, u, v : <<x, y, z, u, v>> \in Seq({x, y, z, u, v})
    OBVIOUS
  <1>7. \A c, F : c \in Seq(F) => IsSeq(c)
    BY SeqIs DEF IsSeq
  <1> QED BY <1>1, <1>2, <1>3, <1>4, <1>5, <1>6, <1>7

LEMMA SeqCat ==
  ASSUME NEW a, NEW b, IsSeq(a), IsSeq(b)
  PROVE  /\ IsSeq(a \o b) /\ Len(a \o b) = Len(a) + Len(b)
         /\ \A i \in 1 .. Len(a) : (a \o b)[i] = a[i]
         /\ \A i \in 1 .. Len(b) : (a \o b)[Len(a) + i] = b[i]
         /\ a \o <<>> = a /\ <<>> \o a = a
  <1> DEFINE S == ToSet(a) \cup ToSet(b)
  <1>1. a \in Seq(S) /\ b \in Seq(S)
    BY SeqMonotonic DEF IsSeq
  <1> HIDE DEF S
  <1>2. a \o b \in Seq(S)
    BY <1>1
  <1>3. IsSeq(a \o b)
    BY <1>2, SeqIs DEF IsSeq
  <1>4. Len(a) \in Nat /\ Len(b) \in Nat /\ Len(a \o b) = Len(a) + Len(b)
    BY <1>1
  <1>5. \A i \in 1 .. Len(a) : (a \o b)[i] = a[i]
    BY <1>1
  <1>6. \A i \in 1 .. Len(b) : (a \o b)[Len(a) + i] = b[i]
    BY <1>1, <1>4
  <1>7. a \o <<>> = a /\ <<>> \o a = a
    BY <1>1
  <1> QED BY <1>3, <1>4, <1>5, <1>6, <1>7

LEMMA SeqAssoc ==
  ASSUME NEW a, NEW b, NEW c, IsSeq(a), IsSeq(b), IsSeq(c)
  PROVE  a \o (b \o c) = (a \o b) \o c
  <1> DEFINE S == ToSet(a) \cup ToSet(b) \cup ToSet(c)
  <1>1. a \in Seq(S) /\ b \in Seq(S) /\ c \in Seq(S)
    BY SeqMonotonic DEF IsSeq
  <1> HIDE DEF S
  <1> QED BY <1>1

LEMMA SeqSnoc ==
  ASSUME NEW a, NEW x, IsSeq(a)
  PROVE  /\ IsSeq(Append(a, x)) /\ Append(a, x) = a \o <<x>> /\ Len(Append(a, x)) = Len(a) + 1
         /\ Append(a, x)[Len(a) + 1] = x /\ \A i \in 1 .. Len(a) : Append(a, x)[i] = a[i]
  <1> DEFINE S == ToSet(a) \cup {x}
  <1>1. a \in Seq(S) /\ x \in S
    BY SeqMonotonic DEF IsSeq
  <1> HIDE DEF S
  <1>2. Append(a, x) \in Seq(S)
    BY <1>1
  <1>3. IsSeq(Append(a, x))
    BY <1>2, SeqIs DEF IsSeq
  <1>4. Len(a) \in Nat
    BY <1>1
  <1> QED BY <1>1, <1>3, <1>4

\* Append under a name that the provers do not interpret.
Longer(a, x) == Append(a, x)

LEMMA LongerIs ==
  ASSUME NEW a, NEW x, IsSeq(a)
  PROVE  /\ IsSeq(Longer(a, x)) /\ Len(Longer(a, x)) = Len(a) + 1 /\ Len(a) \in Nat
         /\ Longer(a, x)[Len(a) + 1] = x /\ \A i \in 1 .. Len(a) : Longer(a, x)[i] = a[i]
  <1> DEFINE S == ToSet(a) \cup {x}
  <1>1. a \in Seq(S) /\ x \in S
    BY SeqMonotonic DEF IsSeq
  <1> HIDE DEF S
  <1>2. Len(a) \in Nat
    BY <1>1
  <1>3. IsSeq(Longer(a, x))
    <2>1. Append(a, x) \in Seq(S)
      BY <1>1
    <2> QED BY <2>1, SeqIs DEF IsSeq, Longer
  <1>4. /\ Len(Append(a, x)) = Len(a) + 1 /\ Append(a, x)[Len(a) + 1] = x
        /\ \A i \in 1 .. Len(a) : Append(a, x)[i] = a[i]
    BY <1>1, <1>2
  <1> QED BY <1>2, <1>3, <1>4, Zenon DEF Longer

LEMMA SeqSplit ==
  ASSUME NEW a, IsSeq(a), a # <<>>
  PROVE  /\ IsSeq(Front(a)) /\ Len(Front(a)) = Len(a) - 1 /\ a = Append(Front(a), Last(a))
         /\ Len(a) \in Nat /\ Len(a) >= 1
  <1>1. Len(a) \in Nat /\ Len(a) >= 1 /\ Last(a) = a[Len(a)]
    BY SeqIs DEF IsSeq
  <1>2. /\ Front(a) \in Seq(ToSet(a)) /\ Len(Front(a)) = Len(a) - 1
        /\ \A i \in 1 .. Len(a) - 1 : Front(a)[i] = a[i]
    BY FrontIs DEF IsSeq
  <1>3. IsSeq(Front(a))
    BY <1>2, SeqIs DEF IsSeq
  <1> DEFINE f == Front(a)
             x == Last(a)
             b == Append(f, x)
  <1>4. IsSeq(f) /\ Len(f) = Len(a) - 1 /\ x = a[Len(a)] /\ \A i \in 1 .. Len(a) - 1 : f[i] = a[i]
    BY <1>1, <1>2, <1>3
  <1> HIDE DEF f, x
  <1>5. /\ IsSeq(b) /\ Len(b) = Len(f) + 1 /\ b[Len(f) + 1] = x
        /\ \A i \in 1 .. Len(f) : b[i] = f[i]
    <2>1. b = Longer(f, x)
      BY DEF Longer
    <2> HIDE DEF b
    <2> QED BY <1>4, <2>1, LongerIs
  <1> HIDE DEF b
  <1>6. \A i \in 1 .. Len(a) : a[i] = b[i]
    <2>1. TAKE i \in 1 .. Len(a)
    <2>2. CASE i = Len(a)
      BY <1>1, <1>4, <1>5, <2>2
    <2>3. CASE i # Len(a)
      BY <1>1, <1>4, <1>5, <2>3
    <2> QED BY <2>2, <2>3
  <1>7. Len(a) = Len(b)
    BY <1>1, <1>4, <1>5
  <1>8. a = b
    BY <1>5, <1>6, <1>7, SeqSame
  <1> QED BY <1>1, <1>2, <1>3, <1>8 DEF b, f, x

\* The lists so far, of the first m.
Flats(h, g, m) == h = [i \in 1 .. m |-> IF i = 1 THEN g[i] ELSE h[i - 1] \o g[i]]

LEMMA FlatsSome ==
  ASSUME NEW g
  PROVE  \A m \in Nat : \E h : Flats(h, g, m)
  <1> DEFINE P == {m \in Nat : \E h : Flats(h, g, m)}
  <1>1. 0 \in P
    <2>1. Flats([i \in 1 .. 0 |-> g[i]], g, 0)
      BY DEF Flats
    <2> QED BY <2>1
  <1>2. ASSUME NEW m \in P PROVE m + 1 \in P
    <2>1. PICK h : Flats(h, g, m)
      OBVIOUS
    <2> DEFINE x == IF m = 0 THEN g[1] ELSE h[m] \o g[m + 1]
               f == [i \in 1 .. m + 1 |-> IF i = m + 1 THEN x ELSE h[i]]
    <2>2. \A i \in 1 .. m : h[i] = IF i = 1 THEN g[i] ELSE h[i - 1] \o g[i]
      BY <2>1 DEF Flats
    <2>3. (\A i \in 1 .. m : f[i] = h[i]) /\ f[m + 1] = x
      <3> HIDE DEF x
      <3> QED OBVIOUS
    <2>4. ASSUME NEW i \in 1 .. m + 1
          PROVE  f[i] = IF i = 1 THEN g[i] ELSE f[i - 1] \o g[i]
      <3>1. CASE i = m + 1 /\ m = 0
        BY <2>3, <3>1
      <3>2. CASE i = m + 1 /\ m # 0
        <4>1. m \in 1 .. m /\ i - 1 = m /\ i # 1
          BY <3>2
        <4>2. f[m] = h[m] /\ f[i] = h[m] \o g[i]
          BY <2>3, <3>2, <4>1
        <4> QED BY <4>1, <4>2
      <3>3. CASE i # m + 1
        <4>1. i \in 1 .. m /\ (i # 1 => i - 1 \in 1 .. m)
          BY <3>3
        <4> HIDE DEF f
        <4> QED BY <4>1, <2>2, <2>3
      <3> QED BY <3>1, <3>2, <3>3
    <2>5. f = [i \in 1 .. m + 1 |-> f[i]]
      <3> HIDE DEF x
      <3> QED OBVIOUS
    <2> HIDE DEF f
    <2>6. Flats(f, g, m + 1)
      BY <2>4, <2>5, Zenon DEF Flats
    <2> QED BY <2>6
  <1> HIDE DEF P
  <1>3. \A m \in Nat : m \in P
    <2>1. P \in SUBSET Nat
      BY DEF P
    <2> QED BY <1>1, <1>2, <2>1, NatSet
  <1> QED BY <1>3 DEF P

LEMMA FlatsAt ==
  ASSUME NEW f, NEW g, NEW m, Flats(f, g, m), NEW i \in 1 .. m
  PROVE  f[i] = IF i = 1 THEN g[i] ELSE f[i - 1] \o g[i]
  <1>1. f = [j \in 1 .. m |-> IF j = 1 THEN g[j] ELSE f[j - 1] \o g[j]]
    BY DEF Flats
  <1> DEFINE F(j) == IF j = 1 THEN g[j] ELSE f[j - 1] \o g[j]
  <1>2. f = [j \in 1 .. m |-> F(j)]
    BY <1>1, Zenon
  <1> HIDE DEF F
  <1>3. f[i] = F(i)
    BY <1>2
  <1> QED BY <1>3, Zenon DEF F

LEMMA FlatsSame ==
  ASSUME NEW f, NEW g, NEW h, NEW l, NEW m \in Nat, NEW n \in Nat, m <= n,
         Flats(f, g, m), Flats(h, l, n), \A i \in 1 .. m : g[i] = l[i]
  PROVE  \A i \in 1 .. m : f[i] = h[i]
  <1> DEFINE P == {k \in Nat : k \in 1 .. m => f[k] = h[k]}
  <1>1. 0 \in P
    OBVIOUS
  <1>2. ASSUME NEW k \in P PROVE k + 1 \in P
    <2>1. SUFFICES ASSUME k + 1 \in 1 .. m PROVE f[k + 1] = h[k + 1]
      OBVIOUS
    <2>2. k + 1 \in 1 .. n /\ (k + 1) - 1 = k /\ g[k + 1] = l[k + 1]
      BY <2>1
    <2>3. f[k + 1] = IF k + 1 = 1 THEN g[k + 1] ELSE f[k] \o g[k + 1]
      <3>1. f[k + 1] = IF k + 1 = 1 THEN g[k + 1] ELSE f[(k + 1) - 1] \o g[k + 1]
        BY <2>1, FlatsAt
      <3> QED BY <2>2, <3>1, Zenon
    <2>4. h[k + 1] = IF k + 1 = 1 THEN l[k + 1] ELSE h[k] \o l[k + 1]
      <3>1. h[k + 1] = IF k + 1 = 1 THEN l[k + 1] ELSE h[(k + 1) - 1] \o l[k + 1]
        BY <2>2, FlatsAt
      <3> QED BY <2>2, <3>1, Zenon
    <2>5. k + 1 # 1 => k \in 1 .. m
      BY <2>1
    <2> QED BY <2>2, <2>3, <2>4, <2>5
  <1> HIDE DEF P
  <1>3. \A k \in Nat : k \in P
    <2>1. P \in SUBSET Nat
      BY DEF P
    <2> QED BY <1>1, <1>2, <2>1, NatSet
  <1> QED BY <1>3 DEF P

\* The last list, built from its parts so far.
LEMMA FlattenIs ==
  ASSUME NEW g, Len(g) \in Nat, Len(g) # 0
  PROVE  \E h : Flats(h, g, Len(g)) /\ FlattenSeq(g) = h[Len(g)]
  <1> DEFINE n == Len(g)
             h == CHOOSE f : Flats(f, g, n)
  <1>1. Flats(h, g, n)
    BY FlatsSome
  <1>2. FlattenSeq(g) = h[n]
    <2>1. FlattenSeq(g) = LET flatten[i \in 1 .. n] == IF i = 1 THEN g[i] ELSE flatten[i - 1] \o g[i]
                          IN  flatten[n]
      BY Zenon DEF FlattenSeq
    <2> QED BY <2>1, Zenon DEF Flats
  <1> QED BY <1>1, <1>2

LEMMA FlatSnoc ==
  ASSUME NEW g, NEW x, IsSeq(g), IsSeq(x)
  PROVE  FlattenSeq(<<>>) = <<>> /\ FlattenSeq(Append(g, x)) = FlattenSeq(g) \o x
  <1>0. FlattenSeq(<<>>) = <<>>
    BY SeqTuples DEF FlattenSeq
  <1> DEFINE l == Append(g, x)
             n == Len(g)
  <1>1. /\ IsSeq(l) /\ Len(l) = n + 1 /\ l[n + 1] = x /\ (\A i \in 1 .. n : l[i] = g[i])
        /\ n \in Nat
    <2>1. l = Longer(g, x)
      BY DEF Longer
    <2> HIDE DEF l
    <2> QED BY <2>1, LongerIs
  <1> HIDE DEF l, n
  <1>2. PICK h : Flats(h, l, n + 1) /\ FlattenSeq(l) = h[n + 1]
    BY <1>1, FlattenIs
  <1>3. CASE n = 0
    <2>1. h[n + 1] = x
      BY <1>1, <1>2, <1>3 DEF Flats
    <2>2. g = <<>>
      BY <1>3, EmptySeq DEF n, IsSeq
    <2>3. <<>> \o x = x
      BY SeqCat
    <2> QED BY <1>0, <1>2, <2>1, <2>2, <2>3 DEF l
  <1>4. CASE n # 0
    <2>1. PICK f : Flats(f, g, n) /\ FlattenSeq(g) = f[n]
      BY <1>1, <1>4, FlattenIs DEF n
    <2>2. n <= n + 1 /\ n + 1 \in Nat /\ n \in 1 .. n
      BY <1>1, <1>4
    <2>3. f[n] = h[n]
      BY <1>1, <1>2, <2>1, <2>2, FlatsSame
    <2>4. h[n + 1] = h[n] \o l[n + 1]
      <3>1. n + 1 \in 1 .. n + 1 /\ n + 1 # 1 /\ (n + 1) - 1 = n
        BY <1>1, <1>4
      <3>2. h[n + 1] = IF n + 1 = 1 THEN l[n + 1] ELSE h[(n + 1) - 1] \o l[n + 1]
        BY <1>2, <3>1 DEF Flats
      <3> QED BY <3>1, <3>2
    <2> QED BY <1>0, <1>1, <1>2, <2>1, <2>3, <2>4 DEF l
  <1> QED BY <1>3, <1>4

LEMMA FlatOne ==
  ASSUME NEW x, IsSeq(x)
  PROVE  FlattenSeq(<<x>>) = x
  <1>1. Append(<<>>, x) = <<x>>
    OBVIOUS
  <1>2. FlattenSeq(Append(<<>>, x)) = FlattenSeq(<<>>) \o x /\ FlattenSeq(<<>>) = <<>>
    BY FlatSnoc, SeqTuples
  <1>3. <<>> \o x = x
    BY SeqCat
  <1> QED BY <1>1, <1>2, <1>3

\* What follows is of sequences of sequences of the same kind.
LEMMA FlatSeq ==
  ASSUME NEW g, SeqSeq(g)
  PROVE  IsSeq(FlattenSeq(g))
  <1> DEFINE P == {n \in Nat : \A l : SeqSeq(l) /\ Len(l) = n => IsSeq(FlattenSeq(l))}
  <1>1. 0 \in P
    <2>1. ASSUME NEW l, SeqSeq(l), Len(l) = 0 PROVE IsSeq(FlattenSeq(l))
      <3>1. l = <<>>
        BY <2>1, EmptySeq DEF SeqSeq, IsSeq
      <3> QED BY <3>1, FlatSnoc, SeqTuples
    <2> QED BY <2>1
  <1>2. ASSUME NEW n \in P PROVE n + 1 \in P
    <2>1. ASSUME NEW l, SeqSeq(l), Len(l) = n + 1 PROVE IsSeq(FlattenSeq(l))
      <3>1. n \in Nat /\ l # <<>>
        BY <2>1, SeqTuples
      <3> DEFINE f == Front(l)
                 x == Last(l)
      <3>2. IsSeq(f) /\ Len(f) = n /\ l = Append(f, x)
        BY <2>1, <3>1, SeqSplit DEF SeqSeq
      <3> HIDE DEF f, x
      <3>3. x = l[n + 1] /\ \A i \in 1 .. n : f[i] = l[i]
        BY <3>2, SeqSnoc
      <3>4. IsSeq(x) /\ SeqSeq(f)
        BY <2>1, <3>1, <3>2, <3>3 DEF SeqSeq
      <3>5. IsSeq(FlattenSeq(f))
        BY <3>1, <3>2, <3>4
      <3>6. FlattenSeq(l) = FlattenSeq(f) \o x
        BY <3>2, <3>4, FlatSnoc
      <3> QED BY <3>4, <3>5, <3>6, SeqCat
    <2> QED BY <2>1
  <1> HIDE DEF P
  <1>3. \A n \in Nat : n \in P
    <2>1. P \in SUBSET Nat
      BY DEF P
    <2> QED BY <1>1, <1>2, <2>1, NatSet
  <1>4. Len(g) \in Nat
    BY SeqLen DEF SeqSeq
  <1> QED BY <1>3, <1>4 DEF P

LEMMA FlatCat ==
  ASSUME NEW g, NEW h, SeqSeq(g), SeqSeq(h)
  PROVE  SeqSeq(g \o h) /\ FlattenSeq(g \o h) = FlattenSeq(g) \o FlattenSeq(h)
  <1> DEFINE Q(l) == SeqSeq(g \o l) /\ FlattenSeq(g \o l) = FlattenSeq(g) \o FlattenSeq(l)
             P == {n \in Nat : \A l : SeqSeq(l) /\ Len(l) = n => Q(l)}
  <1>0. IsSeq(g) /\ IsSeq(FlattenSeq(g))
    BY FlatSeq DEF SeqSeq
  <1>1. 0 \in P
    <2>1. ASSUME NEW l, SeqSeq(l), Len(l) = 0 PROVE Q(l)
      <3>1. l = <<>>
        BY <2>1, EmptySeq DEF SeqSeq, IsSeq
      <3>2. FlattenSeq(l) = <<>>
        BY <1>0, <3>1, FlatSnoc, SeqTuples
      <3>3. g \o <<>> = g /\ FlattenSeq(g) \o <<>> = FlattenSeq(g)
        BY <1>0, SeqCat, SeqTuples
      <3> QED BY <3>1, <3>2, <3>3
    <2> HIDE DEF Q
    <2> QED BY <2>1
  <1>2. ASSUME NEW n \in P PROVE n + 1 \in P
    <2>1. ASSUME NEW l, SeqSeq(l), Len(l) = n + 1 PROVE Q(l)
      <3>1. n \in Nat /\ l # <<>>
        BY <2>1, SeqTuples
      <3> DEFINE f == Front(l)
                 x == Last(l)
      <3>2. IsSeq(f) /\ Len(f) = n /\ l = Append(f, x)
        BY <2>1, <3>1, SeqSplit DEF SeqSeq
      <3> HIDE DEF f, x
      <3>3. x = l[n + 1] /\ \A i \in 1 .. n : f[i] = l[i]
        BY <3>2, SeqSnoc
      <3>4. IsSeq(x) /\ SeqSeq(f)
        BY <2>1, <3>1, <3>2, <3>3 DEF SeqSeq
      <3>5. Q(f)
        BY <3>1, <3>2, <3>4
      <3>6. IsSeq(g \o f) /\ IsSeq(FlattenSeq(f)) /\ IsSeq(<<x>>)
        BY <3>4, <3>5, FlatSeq, SeqTuples DEF SeqSeq
      <3>7. g \o l = Append(g \o f, x)
        <4>1. l = f \o <<x>>
          BY <3>2, SeqSnoc
        <4>2. Append(g \o f, x) = (g \o f) \o <<x>>
          BY <3>6, SeqSnoc
        <4>3. g \o (f \o <<x>>) = (g \o f) \o <<x>>
          BY <1>0, <3>2, <3>6, SeqAssoc
        <4> QED BY <4>1, <4>2, <4>3
      <3>8. FlattenSeq(g \o l) = FlattenSeq(g \o f) \o x /\ FlattenSeq(l) = FlattenSeq(f) \o x
        BY <3>2, <3>4, <3>6, <3>7, FlatSnoc
      <3>9. FlattenSeq(g \o l) = FlattenSeq(g) \o FlattenSeq(l)
        <4> DEFINE a == FlattenSeq(g)
                   b == FlattenSeq(f)
        <4>1. IsSeq(a) /\ IsSeq(b) /\ IsSeq(x) /\ FlattenSeq(g \o f) = a \o b
          BY <1>0, <3>4, <3>5, <3>6, Zenon
        <4>2. FlattenSeq(g \o l) = (a \o b) \o x /\ FlattenSeq(l) = b \o x
          BY <3>8, <4>1, Zenon
        <4> HIDE DEF a, b
        <4>3. a \o (b \o x) = (a \o b) \o x
          BY <4>1, SeqAssoc
        <4> QED BY <4>2, <4>3, Zenon DEF a, b
      <3>10. SeqSeq(g \o l)
        <4> DEFINE gf == g \o f
        <4>1. IsSeq(gf) /\ SeqSeq(gf)
          BY <3>5, <3>6
        <4> HIDE DEF gf
        <4> DEFINE d == Append(gf, x)
        <4>2. d = Longer(gf, x)
          BY DEF Longer
        <4> HIDE DEF d
        <4>3. /\ IsSeq(d) /\ Len(d) = Len(gf) + 1 /\ Len(gf) \in Nat
              /\ d[Len(gf) + 1] = x /\ \A i \in 1 .. Len(gf) : d[i] = gf[i]
          BY <4>1, <4>2, LongerIs
        <4>4. \A i \in 1 .. Len(d) : i \in 1 .. Len(gf) \/ i = Len(gf) + 1
          BY <4>3
        <4>5. SeqSeq(d)
          BY <3>4, <4>1, <4>3, <4>4 DEF SeqSeq
        <4> QED BY <3>7, <4>5 DEF gf, d
      <3> QED BY <3>9, <3>10
    <2> HIDE DEF Q
    <2> QED BY <2>1
  <1> HIDE DEF P, Q
  <1>3. \A n \in Nat : n \in P
    <2>1. P \in SUBSET Nat
      BY DEF P
    <2> QED BY <1>1, <1>2, <2>1, NatSet
  <1>4. Len(h) \in Nat
    BY SeqLen DEF SeqSeq
  <1> QED BY <1>3, <1>4 DEF P, Q

\* The same of a and b in a row.
Cat(a, b) == a \o b

LEMMA CatIs ==
  ASSUME NEW a, NEW b, IsSeq(a), IsSeq(b)
  PROVE  /\ IsSeq(Cat(a, b)) /\ Len(Cat(a, b)) = Len(a) + Len(b)
         /\ Len(a) \in Nat /\ Len(b) \in Nat
         /\ \A i \in 1 .. Len(a) : Cat(a, b)[i] = a[i]
         /\ \A i \in 1 .. Len(b) : Cat(a, b)[Len(a) + i] = b[i]
         /\ Cat(a, <<>>) = a /\ Cat(<<>>, a) = a
  <1>1. Len(a) \in Nat /\ Len(b) \in Nat
    BY SeqLen
  <1>2. /\ IsSeq(Cat(a, b)) /\ Len(Cat(a, b)) = Len(a) + Len(b)
        /\ \A i \in 1 .. Len(a) : Cat(a, b)[i] = a[i]
        /\ \A i \in 1 .. Len(b) : Cat(a, b)[Len(a) + i] = b[i]
    BY SeqCat DEF Cat
  <1>3. Cat(a, <<>>) = a /\ Cat(<<>>, a) = a
    BY SeqCat DEF Cat
  <1> HIDE DEF IsSeq
  <1> QED BY <1>1, <1>2, <1>3

LEMMA CatAssoc ==
  ASSUME NEW a, NEW b, NEW c, IsSeq(a), IsSeq(b), IsSeq(c)
  PROVE  Cat(a, Cat(b, c)) = Cat(Cat(a, b), c)
  BY SeqAssoc DEF Cat

\* f has a sequence for each element of a.
ListsOf(f, a) ==
  DOMAIN f = DOMAIN a /\ f = [i \in DOMAIN a |-> f[i]] /\ \A i \in DOMAIN a : IsSeq(f[i])

LEMMA ListsSeq ==
  ASSUME NEW f, NEW a, IsSeq(a), ListsOf(f, a)
  PROVE  SeqSeq(f) /\ Len(f) = Len(a)
  <1>1. Len(a) \in Nat /\ DOMAIN a = 1 .. Len(a)
    BY SeqLen
  <1>2. IsSeq(f) /\ Len(f) = Len(a)
    BY <1>1, SeqFun DEF ListsOf
  <1> QED BY <1>1, <1>2 DEF SeqSeq, ListsOf

\* One element after the other, each replaced by a list.
LEMMA MapCat ==
  ASSUME NEW a, NEW b, IsSeq(a), IsSeq(b), NEW f, NEW g, NEW h,
         ListsOf(f, a), ListsOf(g, b), ListsOf(h, Cat(a, b)),
         \A i \in 1 .. Len(a) : h[i] = f[i],
         \A i \in 1 .. Len(b) : h[Len(a) + i] = g[i]
  PROVE  /\ FlattenSeq(h) = Cat(FlattenSeq(f), FlattenSeq(g))
         /\ IsSeq(FlattenSeq(f)) /\ IsSeq(FlattenSeq(g)) /\ IsSeq(FlattenSeq(h))
  <1>1. /\ Len(a) \in Nat /\ Len(b) \in Nat
        /\ IsSeq(Cat(a, b)) /\ Len(Cat(a, b)) = Len(a) + Len(b)
    BY CatIs
  <1>2. SeqSeq(f) /\ IsSeq(f) /\ Len(f) = Len(a)
    BY ListsSeq DEF SeqSeq
  <1>3. SeqSeq(g) /\ IsSeq(g) /\ Len(g) = Len(b)
    BY ListsSeq DEF SeqSeq
  <1>4. SeqSeq(h) /\ IsSeq(h) /\ Len(h) = Len(a) + Len(b)
    BY <1>1, ListsSeq DEF SeqSeq
  <1> DEFINE l == Cat(f, g)
  <1>5. /\ IsSeq(l) /\ Len(l) = Len(f) + Len(g)
        /\ \A i \in 1 .. Len(f) : l[i] = f[i]
        /\ \A i \in 1 .. Len(g) : l[Len(f) + i] = g[i]
    <2>1. IsSeq(f) /\ IsSeq(g)
      BY <1>2, <1>3
    <2>2. IsSeq(l) /\ Len(l) = Len(f) + Len(g)
      BY <2>1, CatIs
    <2>3. \A i \in 1 .. Len(f) : l[i] = f[i]
      BY <2>1, CatIs
    <2>4. \A i \in 1 .. Len(g) : l[Len(f) + i] = g[i]
      BY <2>1, CatIs
    <2> QED BY <2>2, <2>3, <2>4
  <1> HIDE DEF l
  <1>7. /\ IsSeq(l) /\ Len(l) = Len(h)
        /\ \A i \in 1 .. Len(a) : l[i] = f[i]
        /\ \A i \in 1 .. Len(b) : l[Len(a) + i] = g[i]
    BY <1>2, <1>3, <1>4, <1>5
  <1>8. \A i \in 1 .. Len(h) : h[i] = l[i]
    <2>1. TAKE i \in 1 .. Len(h)
    <2>2. CASE i <= Len(a)
      <3>1. i \in 1 .. Len(a)
        BY <1>1, <1>4, <2>2
      <3> QED BY <1>7, <3>1, Zenon
    <2>3. CASE ~(i <= Len(a))
      <3>1. i - Len(a) \in 1 .. Len(b) /\ Len(a) + (i - Len(a)) = i
        BY <1>1, <1>4, <2>3
      <3>2. h[Len(a) + (i - Len(a))] = l[Len(a) + (i - Len(a))]
        BY <1>7, <3>1
      <3> QED BY <3>1, <3>2
    <2> QED BY <2>2, <2>3
  <1>9. h = Cat(f, g)
    BY <1>4, <1>7, <1>8, SeqSame DEF l
  <1>10. SeqSeq(h) /\ FlattenSeq(h) = Cat(FlattenSeq(f), FlattenSeq(g))
    BY <1>2, <1>3, <1>4, <1>9, FlatCat DEF Cat
  <1> QED BY <1>2, <1>3, <1>4, <1>10, FlatSeq

-----------------------------------------------------------------------------
(* What a row of nodes, of tokens or of frames stands for is what its        *)
(* elements stand for, one after the other.                                  *)

LEMMA PartsSeq == \A n : IsSeq(Parts(n))
  BY SeqTuples DEF Parts

LEMMA PartsOfCat ==
  ASSUME NEW a, NEW b, IsSeq(a), IsSeq(b)
  PROVE  PartsOf(Cat(a, b)) = Cat(PartsOf(a), PartsOf(b)) /\ IsSeq(PartsOf(a)) /\ IsSeq(PartsOf(b))
  <1> DEFINE E(x) == Parts(x)
             L(c) == [i \in DOMAIN c |-> E(c[i])]
             c == Cat(a, b)
  <1>1. ASSUME NEW x PROVE IsSeq(E(x))
    BY PartsSeq
  <1>2. PartsOf(a) = FlattenSeq(L(a)) /\ PartsOf(b) = FlattenSeq(L(b)) /\ PartsOf(c) = FlattenSeq(L(c))
    BY DEF PartsOf
  <1> HIDE DEF E, c
  <1>3. ListsOf(L(a), a) /\ ListsOf(L(b), b) /\ ListsOf(L(c), c)
    BY <1>1 DEF ListsOf
  <1>4. /\ IsSeq(c) /\ Len(c) = Len(a) + Len(b) /\ Len(a) \in Nat /\ Len(b) \in Nat
        /\ \A i \in 1 .. Len(a) : c[i] = a[i]
        /\ \A i \in 1 .. Len(b) : c[Len(a) + i] = b[i]
    BY CatIs DEF c
  <1>5. DOMAIN a = 1 .. Len(a) /\ DOMAIN b = 1 .. Len(b) /\ DOMAIN c = 1 .. Len(a) + Len(b)
    BY <1>4, SeqLen
  <1>6. \A i \in 1 .. Len(a) : L(c)[i] = L(a)[i]
    BY <1>4, <1>5
  <1>7. \A i \in 1 .. Len(b) : L(c)[Len(a) + i] = L(b)[i]
    BY <1>4, <1>5
  <1> HIDE DEF L
  <1>8. ListsOf(L(c), Cat(a, b))
    BY <1>3 DEF c
  <1>9. /\ FlattenSeq(L(c)) = Cat(FlattenSeq(L(a)), FlattenSeq(L(b)))
        /\ IsSeq(FlattenSeq(L(a))) /\ IsSeq(FlattenSeq(L(b)))
    BY <1>3, <1>6, <1>7, <1>8, MapCat
  <1> QED BY <1>2, <1>9 DEF c

LEMMA PartsOfOne ==
  /\ PartsOf(<<>>) = <<>>
  /\ \A x : PartsOf(<<x>>) = (Parts(x)) /\ IsSeq(Parts(x))
  /\ \A a, x : IsSeq(a) => PartsOf(Append(a, x)) = Cat(PartsOf(a), Parts(x))
  <1> DEFINE E(x) == Parts(x)
             L(c) == [i \in DOMAIN c |-> E(c[i])]
  <1>1. \A x : IsSeq(E(x))
    BY PartsSeq
  <1>2. \A c : PartsOf(c) = FlattenSeq(L(c))
    BY DEF PartsOf
  <1> HIDE DEF E
  <1>3. PartsOf(<<>>) = <<>>
    <2>1. L(<<>>) = <<>>
      OBVIOUS
    <2> QED BY <1>2, <2>1, FlatSnoc, SeqTuples
  <1>4. ASSUME NEW x PROVE PartsOf(<<x>>) = E(x)
    <2>1. L(<<x>>) = <<E(x)>>
      OBVIOUS
    <2> QED BY <1>1, <1>2, <2>1, FlatOne
  <1>5. ASSUME NEW a, NEW x, IsSeq(a) PROVE PartsOf(Append(a, x)) = Cat(PartsOf(a), E(x))
    <2>1. Append(a, x) = Cat(a, <<x>>) /\ IsSeq(<<x>>)
      BY <1>5, SeqSnoc, SeqTuples DEF Cat
    <2> QED BY <1>4, <1>5, <2>1, PartsOfCat
  <1> QED BY <1>1, <1>3, <1>4, <1>5 DEF E

LEMMA WordsCat ==
  ASSUME NEW a, NEW b, IsSeq(a), IsSeq(b)
  PROVE  Words(Cat(a, b)) = Cat(Words(a), Words(b)) /\ IsSeq(Words(a)) /\ IsSeq(Words(b))
  <1> DEFINE E(x) == IF tolerant /\ x.text \notin {Word, NoText} THEN <<>> ELSE <<x.text>>
             L(c) == [i \in DOMAIN c |-> E(c[i])]
             c == Cat(a, b)
  <1>1. ASSUME NEW x PROVE IsSeq(E(x))
    BY SeqTuples
  <1>2. Words(a) = FlattenSeq(L(a)) /\ Words(b) = FlattenSeq(L(b)) /\ Words(c) = FlattenSeq(L(c))
    BY DEF Words
  <1> HIDE DEF E, c
  <1>3. ListsOf(L(a), a) /\ ListsOf(L(b), b) /\ ListsOf(L(c), c)
    BY <1>1 DEF ListsOf
  <1>4. /\ IsSeq(c) /\ Len(c) = Len(a) + Len(b) /\ Len(a) \in Nat /\ Len(b) \in Nat
        /\ \A i \in 1 .. Len(a) : c[i] = a[i]
        /\ \A i \in 1 .. Len(b) : c[Len(a) + i] = b[i]
    BY CatIs DEF c
  <1>5. DOMAIN a = 1 .. Len(a) /\ DOMAIN b = 1 .. Len(b) /\ DOMAIN c = 1 .. Len(a) + Len(b)
    BY <1>4, SeqLen
  <1>6. \A i \in 1 .. Len(a) : L(c)[i] = L(a)[i]
    BY <1>4, <1>5
  <1>7. \A i \in 1 .. Len(b) : L(c)[Len(a) + i] = L(b)[i]
    BY <1>4, <1>5
  <1> HIDE DEF L
  <1>8. ListsOf(L(c), Cat(a, b))
    BY <1>3 DEF c
  <1>9. /\ FlattenSeq(L(c)) = Cat(FlattenSeq(L(a)), FlattenSeq(L(b)))
        /\ IsSeq(FlattenSeq(L(a))) /\ IsSeq(FlattenSeq(L(b)))
    BY <1>3, <1>6, <1>7, <1>8, MapCat
  <1> QED BY <1>2, <1>9 DEF c

LEMMA WordsOne ==
  /\ Words(<<>>) = <<>>
  /\ \A x : /\ Words(<<x>>) = (IF tolerant /\ x.text \notin {Word, NoText} THEN <<>> ELSE <<x.text>>)
            /\ IsSeq(IF tolerant /\ x.text \notin {Word, NoText} THEN <<>> ELSE <<x.text>>)
  /\ \A a, x : IsSeq(a) =>
       Words(Append(a, x)) = Cat(Words(a), IF tolerant /\ x.text \notin {Word, NoText} THEN <<>> ELSE <<x.text>>)
  <1> DEFINE E(x) == IF tolerant /\ x.text \notin {Word, NoText} THEN <<>> ELSE <<x.text>>
             L(c) == [i \in DOMAIN c |-> E(c[i])]
  <1>1. \A x : IsSeq(E(x))
    BY SeqTuples
  <1>2. \A c : Words(c) = FlattenSeq(L(c))
    BY DEF Words
  <1> HIDE DEF E
  <1>3. Words(<<>>) = <<>>
    <2>1. L(<<>>) = <<>>
      OBVIOUS
    <2> QED BY <1>2, <2>1, FlatSnoc, SeqTuples
  <1>4. ASSUME NEW x PROVE Words(<<x>>) = E(x)
    <2>1. L(<<x>>) = <<E(x)>>
      OBVIOUS
    <2> QED BY <1>1, <1>2, <2>1, FlatOne
  <1>5. ASSUME NEW a, NEW x, IsSeq(a) PROVE Words(Append(a, x)) = Cat(Words(a), E(x))
    <2>1. Append(a, x) = Cat(a, <<x>>) /\ IsSeq(<<x>>)
      BY <1>5, SeqSnoc, SeqTuples DEF Cat
    <2> QED BY <1>4, <1>5, <2>1, WordsCat
  <1> QED BY <1>1, <1>3, <1>4, <1>5 DEF E

LEMMA NotBlankCat ==
  ASSUME NEW a, NEW b, IsSeq(a), IsSeq(b)
  PROVE  NotBlank(Cat(a, b)) = Cat(NotBlank(a), NotBlank(b)) /\ IsSeq(NotBlank(a)) /\ IsSeq(NotBlank(b))
  <1> DEFINE E(x) == IF x.tag \in Blank THEN <<>> ELSE <<x>>
             L(c) == [i \in DOMAIN c |-> E(c[i])]
             c == Cat(a, b)
  <1>1. ASSUME NEW x PROVE IsSeq(E(x))
    BY SeqTuples
  <1>2. NotBlank(a) = FlattenSeq(L(a)) /\ NotBlank(b) = FlattenSeq(L(b)) /\ NotBlank(c) = FlattenSeq(L(c))
    BY DEF NotBlank
  <1> HIDE DEF E, c
  <1>3. ListsOf(L(a), a) /\ ListsOf(L(b), b) /\ ListsOf(L(c), c)
    BY <1>1 DEF ListsOf
  <1>4. /\ IsSeq(c) /\ Len(c) = Len(a) + Len(b) /\ Len(a) \in Nat /\ Len(b) \in Nat
        /\ \A i \in 1 .. Len(a) : c[i] = a[i]
        /\ \A i \in 1 .. Len(b) : c[Len(a) + i] = b[i]
    BY CatIs DEF c
  <1>5. DOMAIN a = 1 .. Len(a) /\ DOMAIN b = 1 .. Len(b) /\ DOMAIN c = 1 .. Len(a) + Len(b)
    BY <1>4, SeqLen
  <1>6. \A i \in 1 .. Len(a) : L(c)[i] = L(a)[i]
    BY <1>4, <1>5
  <1>7. \A i \in 1 .. Len(b) : L(c)[Len(a) + i] = L(b)[i]
    BY <1>4, <1>5
  <1> HIDE DEF L
  <1>8. ListsOf(L(c), Cat(a, b))
    BY <1>3 DEF c
  <1>9. /\ FlattenSeq(L(c)) = Cat(FlattenSeq(L(a)), FlattenSeq(L(b)))
        /\ IsSeq(FlattenSeq(L(a))) /\ IsSeq(FlattenSeq(L(b)))
    BY <1>3, <1>6, <1>7, <1>8, MapCat
  <1> QED BY <1>2, <1>9 DEF c

LEMMA NotBlankOne ==
  /\ NotBlank(<<>>) = <<>>
  /\ \A x : /\ NotBlank(<<x>>) = (IF x.tag \in Blank THEN <<>> ELSE <<x>>)
            /\ IsSeq(IF x.tag \in Blank THEN <<>> ELSE <<x>>)
  /\ \A a, x : IsSeq(a) => NotBlank(Append(a, x)) = Cat(NotBlank(a), IF x.tag \in Blank THEN <<>> ELSE <<x>>)
  <1> DEFINE E(x) == IF x.tag \in Blank THEN <<>> ELSE <<x>>
             L(c) == [i \in DOMAIN c |-> E(c[i])]
  <1>1. \A x : IsSeq(E(x))
    BY SeqTuples
  <1>2. \A c : NotBlank(c) = FlattenSeq(L(c))
    BY DEF NotBlank
  <1> HIDE DEF E
  <1>3. NotBlank(<<>>) = <<>>
    <2>1. L(<<>>) = <<>>
      OBVIOUS
    <2> QED BY <1>2, <2>1, FlatSnoc, SeqTuples
  <1>4. ASSUME NEW x PROVE NotBlank(<<x>>) = E(x)
    <2>1. L(<<x>>) = <<E(x)>>
      OBVIOUS
    <2> QED BY <1>1, <1>2, <2>1, FlatOne
  <1>5. ASSUME NEW a, NEW x, IsSeq(a) PROVE NotBlank(Append(a, x)) = Cat(NotBlank(a), E(x))
    <2>1. Append(a, x) = Cat(a, <<x>>) /\ IsSeq(<<x>>)
      BY <1>5, SeqSnoc, SeqTuples DEF Cat
    <2> QED BY <1>4, <1>5, <2>1, NotBlankCat
  <1> QED BY <1>1, <1>3, <1>4, <1>5 DEF E

LEMMA CommentsInCat ==
  ASSUME NEW a, NEW b, IsSeq(a), IsSeq(b)
  PROVE  CommentsIn(Cat(a, b)) = Cat(CommentsIn(a), CommentsIn(b)) /\ IsSeq(CommentsIn(a)) /\ IsSeq(CommentsIn(b))
  <1> DEFINE E(x) == IF x.tag = "comment" THEN <<x.from>> ELSE <<>>
             L(c) == [i \in DOMAIN c |-> E(c[i])]
             c == Cat(a, b)
  <1>1. ASSUME NEW x PROVE IsSeq(E(x))
    BY SeqTuples
  <1>2. CommentsIn(a) = FlattenSeq(L(a)) /\ CommentsIn(b) = FlattenSeq(L(b)) /\ CommentsIn(c) = FlattenSeq(L(c))
    BY DEF CommentsIn
  <1> HIDE DEF E, c
  <1>3. ListsOf(L(a), a) /\ ListsOf(L(b), b) /\ ListsOf(L(c), c)
    BY <1>1 DEF ListsOf
  <1>4. /\ IsSeq(c) /\ Len(c) = Len(a) + Len(b) /\ Len(a) \in Nat /\ Len(b) \in Nat
        /\ \A i \in 1 .. Len(a) : c[i] = a[i]
        /\ \A i \in 1 .. Len(b) : c[Len(a) + i] = b[i]
    BY CatIs DEF c
  <1>5. DOMAIN a = 1 .. Len(a) /\ DOMAIN b = 1 .. Len(b) /\ DOMAIN c = 1 .. Len(a) + Len(b)
    BY <1>4, SeqLen
  <1>6. \A i \in 1 .. Len(a) : L(c)[i] = L(a)[i]
    BY <1>4, <1>5
  <1>7. \A i \in 1 .. Len(b) : L(c)[Len(a) + i] = L(b)[i]
    BY <1>4, <1>5
  <1> HIDE DEF L
  <1>8. ListsOf(L(c), Cat(a, b))
    BY <1>3 DEF c
  <1>9. /\ FlattenSeq(L(c)) = Cat(FlattenSeq(L(a)), FlattenSeq(L(b)))
        /\ IsSeq(FlattenSeq(L(a))) /\ IsSeq(FlattenSeq(L(b)))
    BY <1>3, <1>6, <1>7, <1>8, MapCat
  <1> QED BY <1>2, <1>9 DEF c

LEMMA CommentsInOne ==
  /\ CommentsIn(<<>>) = <<>>
  /\ \A x : /\ CommentsIn(<<x>>) = (IF x.tag = "comment" THEN <<x.from>> ELSE <<>>)
            /\ IsSeq(IF x.tag = "comment" THEN <<x.from>> ELSE <<>>)
  /\ \A a, x : IsSeq(a) =>
       CommentsIn(Append(a, x)) = Cat(CommentsIn(a), IF x.tag = "comment" THEN <<x.from>> ELSE <<>>)
  <1> DEFINE E(x) == IF x.tag = "comment" THEN <<x.from>> ELSE <<>>
             L(c) == [i \in DOMAIN c |-> E(c[i])]
  <1>1. \A x : IsSeq(E(x))
    BY SeqTuples
  <1>2. \A c : CommentsIn(c) = FlattenSeq(L(c))
    BY DEF CommentsIn
  <1> HIDE DEF E
  <1>3. CommentsIn(<<>>) = <<>>
    <2>1. L(<<>>) = <<>>
      OBVIOUS
    <2> QED BY <1>2, <2>1, FlatSnoc, SeqTuples
  <1>4. ASSUME NEW x PROVE CommentsIn(<<x>>) = E(x)
    <2>1. L(<<x>>) = <<E(x)>>
      OBVIOUS
    <2> QED BY <1>1, <1>2, <2>1, FlatOne
  <1>5. ASSUME NEW a, NEW x, IsSeq(a) PROVE CommentsIn(Append(a, x)) = Cat(CommentsIn(a), E(x))
    <2>1. Append(a, x) = Cat(a, <<x>>) /\ IsSeq(<<x>>)
      BY <1>5, SeqSnoc, SeqTuples DEF Cat
    <2> QED BY <1>4, <1>5, <2>1, CommentsInCat
  <1> QED BY <1>1, <1>3, <1>4, <1>5 DEF E

-----------------------------------------------------------------------------
(* Rows of nodes and what they unfold to.                                    *)

Unfolds(g, nodes, m) == g = [k \in 0 .. m |-> IF k = 0 THEN nodes ELSE PartsOf(g[k - 1])]

LEMMA UnfoldsSome ==
  ASSUME NEW nodes
  PROVE  \A m \in Nat : \E g : Unfolds(g, nodes, m)
  <1> DEFINE P == {m \in Nat : \E g : Unfolds(g, nodes, m)}
  <1>1. 0 \in P
    <2>1. Unfolds([k \in 0 .. 0 |-> nodes], nodes, 0)
      BY DEF Unfolds
    <2> QED BY <2>1
  <1>2. ASSUME NEW m \in P PROVE m + 1 \in P
    <2>1. PICK g : Unfolds(g, nodes, m)
      OBVIOUS
    <2> DEFINE h == [k \in 0 .. m + 1 |-> IF k = m + 1 THEN PartsOf(g[m]) ELSE g[k]]
    <2>2. \A k \in 0 .. m : h[k] = g[k]
      OBVIOUS
    <2>3. \A k \in 0 .. m : g[k] = IF k = 0 THEN nodes ELSE PartsOf(g[k - 1])
      BY <2>1 DEF Unfolds
    <2>4. ASSUME NEW k \in 0 .. m + 1
          PROVE  h[k] = IF k = 0 THEN nodes ELSE PartsOf(h[k - 1])
      <3>1. CASE k = m + 1
        <4>1. h[k] = PartsOf(g[m]) /\ k - 1 = m /\ k # 0
          BY <3>1
        <4> QED BY <4>1, <2>2
      <3>2. CASE k # m + 1
        <4>1. k \in 0 .. m /\ (k # 0 => k - 1 \in 0 .. m)
          BY <3>2
        <4> QED BY <4>1, <2>2, <2>3
      <3> QED BY <3>1, <3>2
    <2>5. Unfolds(h, nodes, m + 1)
      BY <2>4, Zenon DEF Unfolds
    <2> QED BY <2>5
  <1> HIDE DEF P
  <1>3. \A m \in Nat : m \in P
    <2>1. P \in SUBSET Nat
      BY DEF P
    <2> QED BY <1>1, <1>2, <2>1, NatSet
  <1> QED BY <1>3 DEF P

LEMMA UnfoldsSame ==
  ASSUME NEW nodes, NEW g, NEW h, NEW m \in Nat, NEW l \in Nat, Unfolds(g, nodes, m), Unfolds(h, nodes, l)
  PROVE  \A k \in Nat : k <= m /\ k <= l => g[k] = h[k]
  <1> DEFINE P == {k \in Nat : k <= m /\ k <= l => g[k] = h[k]}
  <1>1. 0 \in P
    BY DEF Unfolds
  <1>2. ASSUME NEW k \in P PROVE k + 1 \in P
    <2>1. SUFFICES ASSUME k + 1 <= m, k + 1 <= l PROVE g[k + 1] = h[k + 1]
      OBVIOUS
    <2>2. g[k] = h[k]
      BY <2>1
    <2>3. g[k + 1] = PartsOf(g[k])
      BY <2>1 DEF Unfolds
    <2>4. h[k + 1] = PartsOf(h[k])
      BY <2>1 DEF Unfolds
    <2> QED BY <2>2, <2>3, <2>4
  <1> HIDE DEF P
  <1>3. \A k \in Nat : k \in P
    <2>1. P \in SUBSET Nat
      BY DEF P
    <2> QED BY <1>1, <1>2, <2>1, NatSet
  <1> QED BY <1>3 DEF P

LEMMA UnfoldedIs ==
  ASSUME NEW nodes
  PROVE  /\ Unfolded(nodes)[0] = nodes
         /\ \A k \in Nat : Unfolded(nodes)[k + 1] = PartsOf(Unfolded(nodes)[k])
  <1> DEFINE G(m) == CHOOSE g : Unfolds(g, nodes, m)
             F == [k \in Nat |-> G(k)[k]]
             IsIt(f) == f = [k \in Nat |-> IF k = 0 THEN nodes ELSE PartsOf(f[k - 1])]
             row == CHOOSE f : IsIt(f)
  <1>1. \A m \in Nat : Unfolds(G(m), nodes, m)
    BY UnfoldsSome
  <1> HIDE DEF G
  <1>2. \A m \in Nat : G(m + 1)[m] = G(m)[m]
    BY <1>1, UnfoldsSame
  <1>3. IsIt(F)
    <2>1. ASSUME NEW k \in Nat PROVE F[k] = IF k = 0 THEN nodes ELSE PartsOf(F[k - 1])
      <3>1. G(k)[k] = IF k = 0 THEN nodes ELSE PartsOf(G(k)[k - 1])
        <4>1. Unfolds(G(k), nodes, k)
          BY <1>1
        <4> QED BY <4>1 DEF Unfolds
      <3>2. k # 0 => k - 1 \in Nat /\ G(k)[k - 1] = G(k - 1)[k - 1]
        <4>1. k # 0 => k - 1 \in Nat /\ (k - 1) + 1 = k
          OBVIOUS
        <4> QED BY <4>1, <1>2
      <3> QED BY <3>1, <3>2
    <2>2. \A k \in Nat : F[k] = IF k = 0 THEN nodes ELSE PartsOf(F[k - 1])
      BY <2>1
    <2>3. F = [k \in Nat |-> F[k]]
      OBVIOUS
    <2> HIDE DEF F
    <2> QED BY <2>2, <2>3, Zenon
  <1>4. Unfolded(nodes) = row
    BY Zenon DEF Unfolded
  <1>5. IsIt(row)
    <2> HIDE DEF IsIt
    <2> QED BY <1>3, Zenon
  <1> HIDE DEF row
  <1>6. \A k \in Nat : row[k] = IF k = 0 THEN nodes ELSE PartsOf(row[k - 1])
    BY <1>5, Zenon
  <1>7. row[0] = nodes
    BY <1>6
  <1>8. \A k \in Nat : row[k + 1] = PartsOf(row[k])
    <2>1. \A k \in Nat : k + 1 \in Nat /\ k + 1 # 0 /\ (k + 1) - 1 = k
      OBVIOUS
    <2> QED BY <2>1, <1>6
  <1> QED BY <1>4, <1>7, <1>8

\* Only leaves are left.
Leaves(r) == \A i \in DOMAIN r : r[i].kind = "leaf"

LEMMA LeavesCat ==
  ASSUME NEW a, NEW b, IsSeq(a), IsSeq(b)
  PROVE  Leaves(Cat(a, b)) <=> Leaves(a) /\ Leaves(b)
  <1> DEFINE c == Cat(a, b)
  <1>1. /\ IsSeq(c) /\ Len(c) = Len(a) + Len(b) /\ Len(a) \in Nat /\ Len(b) \in Nat
        /\ \A i \in 1 .. Len(a) : c[i] = a[i]
        /\ \A i \in 1 .. Len(b) : c[Len(a) + i] = b[i]
    BY CatIs
  <1> HIDE DEF c
  <1>2. DOMAIN a = 1 .. Len(a) /\ DOMAIN b = 1 .. Len(b) /\ DOMAIN c = 1 .. Len(a) + Len(b)
    BY <1>1, SeqLen
  <1>3. ASSUME Leaves(c) PROVE Leaves(a) /\ Leaves(b)
    <2>1. \A i \in 1 .. Len(a) : i \in 1 .. Len(a) + Len(b)
      BY <1>1
    <2>2. \A i \in 1 .. Len(b) : Len(a) + i \in 1 .. Len(a) + Len(b)
      BY <1>1
    <2>3. Leaves(a)
      BY <1>1, <1>2, <1>3, <2>1 DEF Leaves
    <2>4. \A i \in 1 .. Len(b) : c[Len(a) + i].kind = "leaf"
      BY <1>2, <1>3, <2>2 DEF Leaves
    <2>5. Leaves(b)
      BY <1>1, <1>2, <2>4 DEF Leaves
    <2> QED BY <2>3, <2>5
  <1>4. ASSUME Leaves(a), Leaves(b) PROVE Leaves(c)
    <2>1. ASSUME NEW i \in 1 .. Len(a) + Len(b) PROVE c[i].kind = "leaf"
      <3>1. CASE i <= Len(a)
        <4>1. i \in 1 .. Len(a)
          BY <1>1, <3>1
        <4> QED BY <1>1, <1>2, <1>4, <4>1 DEF Leaves
      <3>2. CASE ~(i <= Len(a))
        <4>1. i - Len(a) \in 1 .. Len(b) /\ Len(a) + (i - Len(a)) = i
          BY <1>1, <3>2
        <4>2. c[Len(a) + (i - Len(a))] = b[i - Len(a)]
          BY <1>1, <4>1
        <4>3. b[i - Len(a)].kind = "leaf"
          BY <1>2, <1>4, <4>1 DEF Leaves
        <4> QED BY <4>1, <4>2, <4>3
      <3> QED BY <3>1, <3>2
    <2> QED BY <1>2, <2>1 DEF Leaves
  <1> QED BY <1>3, <1>4 DEF c

\* Leaves stand for themselves.
LEMMA LeavesStay ==
  ASSUME NEW a, IsSeq(a), Leaves(a)
  PROVE  PartsOf(a) = a
  <1> DEFINE P == {n \in Nat : \A l : IsSeq(l) /\ Leaves(l) /\ Len(l) = n => PartsOf(l) = l}
  <1>1. 0 \in P
    <2>1. ASSUME NEW l, IsSeq(l), Len(l) = 0 PROVE PartsOf(l) = l
      <3>1. l = <<>>
        BY <2>1, EmptySeq DEF IsSeq
      <3> QED BY <3>1, PartsOfOne
    <2> QED BY <2>1
  <1>2. ASSUME NEW n \in P PROVE n + 1 \in P
    <2>1. ASSUME NEW l, IsSeq(l), Leaves(l), Len(l) = n + 1 PROVE PartsOf(l) = l
      <3>1. n \in Nat /\ l # <<>>
        BY <2>1, SeqTuples
      <3> DEFINE f == Front(l)
                 x == Last(l)
      <3>2. IsSeq(f) /\ Len(f) = n /\ l = Append(f, x)
        BY <2>1, <3>1, SeqSplit
      <3> HIDE DEF f, x
      <3>3. l = Cat(f, <<x>>) /\ IsSeq(<<x>>)
        BY <3>2, SeqSnoc, SeqTuples DEF Cat
      <3>4. Leaves(f) /\ Leaves(<<x>>)
        BY <2>1, <3>2, <3>3, LeavesCat
      <3>5. PartsOf(f) = f
        BY <3>1, <3>2, <3>4
      <3>6. x.kind = "leaf"
        BY <3>4 DEF Leaves
      <3>7. Parts(x) = <<x>>
        BY <3>6 DEF Parts
      <3>8. PartsOf(l) = Cat(PartsOf(f), Parts(x))
        BY <3>2, PartsOfOne
      <3> QED BY <3>3, <3>5, <3>7, <3>8
    <2> QED BY <2>1
  <1> HIDE DEF P
  <1>3. \A n \in Nat : n \in P
    <2>1. P \in SUBSET Nat
      BY DEF P
    <2> QED BY <1>1, <1>2, <2>1, NatSet
  <1>4. Len(a) \in Nat
    BY SeqLen
  <1> QED BY <1>3, <1>4 DEF P

LEMMA UnfoldedSeq ==
  ASSUME NEW a, IsSeq(a)
  PROVE  \A k \in Nat : IsSeq(Unfolded(a)[k])
  <1> DEFINE P == {k \in Nat : IsSeq(Unfolded(a)[k])}
  <1>1. 0 \in P
    BY UnfoldedIs
  <1>2. ASSUME NEW k \in P PROVE k + 1 \in P
    <2>1. Unfolded(a)[k + 1] = PartsOf(Unfolded(a)[k]) /\ k + 1 \in Nat
      BY UnfoldedIs
    <2>2. IsSeq(Unfolded(a)[k])
      OBVIOUS
    <2>3. IsSeq(PartsOf(Unfolded(a)[k]))
      BY <2>2, PartsOfCat
    <2> QED BY <2>1, <2>3
  <1> HIDE DEF P
  <1>3. \A k \in Nat : k \in P
    <2>1. P \in SUBSET Nat
      BY DEF P
    <2> QED BY <1>1, <1>2, <2>1, NatSet
  <1> QED BY <1>3 DEF P

LEMMA UnfoldedCat ==
  ASSUME NEW a, NEW b, IsSeq(a), IsSeq(b)
  PROVE  \A k \in Nat : Unfolded(Cat(a, b))[k] = Cat(Unfolded(a)[k], Unfolded(b)[k])
  <1> DEFINE P == {k \in Nat : Unfolded(Cat(a, b))[k] = Cat(Unfolded(a)[k], Unfolded(b)[k])}
  <1>1. 0 \in P
    BY UnfoldedIs
  <1>2. ASSUME NEW k \in P PROVE k + 1 \in P
    <2>1. /\ k + 1 \in Nat /\ Unfolded(a)[k + 1] = PartsOf(Unfolded(a)[k])
          /\ Unfolded(b)[k + 1] = PartsOf(Unfolded(b)[k])
          /\ Unfolded(Cat(a, b))[k + 1] = PartsOf(Unfolded(Cat(a, b))[k])
      BY UnfoldedIs
    <2>2. IsSeq(Unfolded(a)[k]) /\ IsSeq(Unfolded(b)[k])
      BY UnfoldedSeq
    <2>3. PartsOf(Cat(Unfolded(a)[k], Unfolded(b)[k])) = Cat(PartsOf(Unfolded(a)[k]), PartsOf(Unfolded(b)[k]))
      BY <2>2, PartsOfCat
    <2> QED BY <2>1, <2>3
  <1> HIDE DEF P
  <1>3. \A k \in Nat : k \in P
    <2>1. P \in SUBSET Nat
      BY DEF P
    <2> QED BY <1>1, <1>2, <2>1, NatSet
  <1> QED BY <1>3 DEF P

\* One level more, from the first or from the last.
LEMMA UnfoldedParts ==
  ASSUME NEW a
  PROVE  \A k \in Nat : Unfolded(PartsOf(a))[k] = Unfolded(a)[k + 1]
  <1> DEFINE P == {k \in Nat : Unfolded(PartsOf(a))[k] = Unfolded(a)[k + 1]}
  <1>1. 0 \in P
    BY UnfoldedIs
  <1>2. ASSUME NEW k \in P PROVE k + 1 \in P
    <2>1. /\ k + 1 \in Nat /\ Unfolded(PartsOf(a))[k + 1] = PartsOf(Unfolded(PartsOf(a))[k])
          /\ Unfolded(a)[(k + 1) + 1] = PartsOf(Unfolded(a)[k + 1])
      BY UnfoldedIs
    <2> QED BY <2>1
  <1> HIDE DEF P
  <1>3. \A k \in Nat : k \in P
    <2>1. P \in SUBSET Nat
      BY DEF P
    <2> QED BY <1>1, <1>2, <2>1, NatSet
  <1> QED BY <1>3 DEF P

\* A row of leaves unfolds to itself.
LEMMA UnfoldedStays ==
  ASSUME NEW a, IsSeq(a), NEW k \in Nat, Leaves(Unfolded(a)[k])
  PROVE  \A m \in Nat : m >= k => Unfolded(a)[m] = Unfolded(a)[k]
  <1> DEFINE P == {m \in Nat : m >= k => Unfolded(a)[m] = Unfolded(a)[k]}
  <1>1. 0 \in P
    OBVIOUS
  <1>2. ASSUME NEW m \in P PROVE m + 1 \in P
    <2>1. SUFFICES ASSUME m + 1 > k PROVE Unfolded(a)[m + 1] = Unfolded(a)[k]
      OBVIOUS
    <2>2. m \in Nat /\ m >= k
      BY <2>1
    <2>3. Unfolded(a)[m] = Unfolded(a)[k]
      BY <2>2
    <2>4. Unfolded(a)[m + 1] = PartsOf(Unfolded(a)[m])
      BY <2>2, UnfoldedIs
    <2>5. PartsOf(Unfolded(a)[k]) = Unfolded(a)[k]
      BY UnfoldedSeq, LeavesStay
    <2> QED BY <2>3, <2>4, <2>5
  <1> HIDE DEF P
  <1>3. \A m \in Nat : m \in P
    <2>1. P \in SUBSET Nat
      BY DEF P
    <2> QED BY <1>1, <1>2, <2>1, NatSet
  <1> QED BY <1>3 DEF P

\* The row a unfolds to the leaves r.
Final(a, r) == Leaves(r) /\ \E k \in Nat : Unfolded(a)[k] = r

LEMMA FinalCat ==
  ASSUME NEW a, NEW b, IsSeq(a), IsSeq(b), NEW r
  PROVE  Final(Cat(a, b), r) <=> \E x, y : Final(a, x) /\ Final(b, y) /\ r = Cat(x, y)
  <1>1. ASSUME Final(Cat(a, b), r) PROVE \E x, y : Final(a, x) /\ Final(b, y) /\ r = Cat(x, y)
    <2>1. PICK k \in Nat : Unfolded(Cat(a, b))[k] = r
      BY <1>1 DEF Final
    <2> DEFINE x == Unfolded(a)[k]
               y == Unfolded(b)[k]
    <2>2. r = Cat(x, y) /\ IsSeq(x) /\ IsSeq(y)
      BY <2>1, UnfoldedCat, UnfoldedSeq
    <2>3. Leaves(x) /\ Leaves(y)
      <3> HIDE DEF x, y
      <3> QED BY <1>1, <2>2, LeavesCat DEF Final
    <2>4. Final(a, x) /\ Final(b, y)
      BY <2>3 DEF Final
    <2> HIDE DEF x, y
    <2> QED BY <2>2, <2>4
  <1>2. ASSUME NEW x, NEW y, Final(a, x), Final(b, y), r = Cat(x, y) PROVE Final(Cat(a, b), r)
    <2>1. PICK k \in Nat : Unfolded(a)[k] = x
      BY <1>2 DEF Final
    <2>2. PICK l \in Nat : Unfolded(b)[l] = y
      BY <1>2 DEF Final
    <2>3. Leaves(x) /\ Leaves(y) /\ IsSeq(x) /\ IsSeq(y)
      BY <1>2, <2>1, <2>2, UnfoldedSeq DEF Final
    <2>4. \A m \in Nat : m >= k => Unfolded(a)[m] = x
      BY <2>1, <2>3, UnfoldedStays
    <2>5. \A m \in Nat : m >= l => Unfolded(b)[m] = y
      BY <2>2, <2>3, UnfoldedStays
    <2>6. PICK m \in Nat : m >= k /\ m >= l
      <3>1. k + l \in Nat /\ k + l >= k /\ k + l >= l
        OBVIOUS
      <3> QED BY <3>1
    <2>7. Unfolded(Cat(a, b))[m] = r
      BY <1>2, <2>4, <2>5, <2>6, UnfoldedCat
    <2>8. Leaves(r)
      BY <1>2, <2>3, LeavesCat
    <2> QED BY <2>7, <2>8 DEF Final
  <1> QED BY <1>1, <1>2

LEMMA FinalParts ==
  ASSUME NEW a, IsSeq(a), NEW r
  PROVE  Final(PartsOf(a), r) <=> Final(a, r)
  <1>1. ASSUME Final(PartsOf(a), r) PROVE Final(a, r)
    <2>1. PICK k \in Nat : Unfolded(PartsOf(a))[k] = r
      BY <1>1 DEF Final
    <2>2. k + 1 \in Nat /\ Unfolded(a)[k + 1] = r
      BY <2>1, UnfoldedParts
    <2> QED BY <1>1, <2>2 DEF Final
  <1>2. ASSUME Final(a, r) PROVE Final(PartsOf(a), r)
    <2>1. PICK k \in Nat : Unfolded(a)[k] = r
      BY <1>2 DEF Final
    <2>2. Unfolded(a)[k + 1] = r
      <3>1. k + 1 \in Nat /\ k + 1 >= k /\ Leaves(Unfolded(a)[k])
        BY <1>2, <2>1 DEF Final
      <3> QED BY <2>1, <3>1, UnfoldedStays
    <2>3. Unfolded(PartsOf(a))[k] = r
      BY <2>2, UnfoldedParts
    <2> QED BY <1>2, <2>3 DEF Final
  <1> QED BY <1>1, <1>2

LEMMA FinalLeaves ==
  ASSUME NEW a, IsSeq(a), Leaves(a), NEW r
  PROVE  Final(a, r) <=> r = a
  <1>1. Unfolded(a)[0] = a /\ 0 \in Nat
    BY UnfoldedIs
  <1>2. \A m \in Nat : m >= 0 => Unfolded(a)[m] = a
    <2>1. Leaves(Unfolded(a)[0])
      BY <1>1
    <2> QED BY <1>1, <2>1, UnfoldedStays
  <1>3. \A m \in Nat : Unfolded(a)[m] = a
    BY <1>2
  <1> QED BY <1>1, <1>3 DEF Final

\* Two rows that stand for the same.
Same(a, b) == IsSeq(a) /\ IsSeq(b) /\ \A r : Final(a, r) <=> Final(b, r)

LEMMA SameIs ==
  /\ \A a : IsSeq(a) => Same(a, a)
  /\ \A a, b : Same(a, b) => Same(b, a)
  /\ \A a, b, c : Same(a, b) /\ Same(b, c) => Same(a, c)
  <1>1. \A a : IsSeq(a) => Same(a, a)
    BY DEF Same
  <1>2. \A a, b : Same(a, b) => Same(b, a)
    BY DEF Same
  <1>3. \A a, b, c : Same(a, b) /\ Same(b, c) => Same(a, c)
    BY Zenon DEF Same
  <1> QED BY <1>1, <1>2, <1>3

LEMMA SameCat ==
  ASSUME NEW a, NEW b, NEW c, NEW d, Same(a, b), Same(c, d)
  PROVE  Same(Cat(a, c), Cat(b, d))
  <1>1. IsSeq(a) /\ IsSeq(b) /\ IsSeq(c) /\ IsSeq(d)
    BY DEF Same
  <1>2. IsSeq(Cat(a, c)) /\ IsSeq(Cat(b, d))
    BY <1>1, CatIs
  <1>3. ASSUME NEW r PROVE Final(Cat(a, c), r) <=> Final(Cat(b, d), r)
    <2>1. Final(Cat(a, c), r) <=> \E x, y : Final(a, x) /\ Final(c, y) /\ r = Cat(x, y)
      BY <1>1, FinalCat
    <2>2. Final(Cat(b, d), r) <=> \E x, y : Final(b, x) /\ Final(d, y) /\ r = Cat(x, y)
      BY <1>1, FinalCat
    <2>3. \A x : (Final(a, x) <=> Final(b, x)) /\ (Final(c, x) <=> Final(d, x))
      BY DEF Same
    <2> QED BY <2>1, <2>2, <2>3, Zenon
  <1> QED BY <1>2, <1>3 DEF Same

LEMMA SameParts == \A n : Same(<<n>>, Parts(n))
  <1>1. TAKE n
  <1>2. IsSeq(<<n>>) /\ PartsOf(<<n>>) = Parts(n) /\ IsSeq(Parts(n))
    BY SeqTuples, PartsOfOne
  <1>3. \A r : Final(PartsOf(<<n>>), r) <=> Final(<<n>>, r)
    BY <1>2, FinalParts
  <1> QED BY <1>2, <1>3 DEF Same

-----------------------------------------------------------------------------
(* What the parser has read, and the comments the lexer has met.             *)

LEMMA SubIs ==
  ASSUME NEW a, IsSeq(a), NEW m \in Nat, NEW n \in Nat, 1 <= m, m <= n + 1, n <= Len(a)
  PROVE  /\ IsSeq(SubSeq(a, m, n)) /\ Len(SubSeq(a, m, n)) = n - m + 1
         /\ \A i \in 1 .. n - m + 1 : SubSeq(a, m, n)[i] = a[m + i - 1]
  <1> DEFINE S == ToSet(a)
             b == SubSeq(a, m, n)
  <1>0. Len(a) \in Nat
    BY SeqLen
  <1>1. a \in Seq(S) /\ m \in Int /\ n \in Int
    BY DEF IsSeq
  <1> HIDE DEF S
  <1>2. \A i \in m .. n : a[i] \in S
    BY <1>0, <1>1
  <1>3. /\ b \in Seq(S) /\ Len(b) = IF m <= n THEN n - m + 1 ELSE 0
        /\ \A i \in 1 .. n - m + 1 : b[i] = a[m + i - 1]
    BY <1>1, <1>2, SubSeqProperties
  <1> HIDE DEF b
  <1>4. Len(b) = n - m + 1
    BY <1>3
  <1>5. IsSeq(b)
    BY <1>3, SeqIs DEF IsSeq
  <1> QED BY <1>3, <1>4, <1>5 DEF b

\* A beginning of a list, and how it goes on in another that agrees with it.
LEMMA SubMore ==
  ASSUME NEW a, NEW b, IsSeq(a), IsSeq(b), NEW m \in Nat, NEW n \in Nat, m <= n, m <= Len(a), n <= Len(b),
         \A i \in 1 .. m : a[i] = b[i]
  PROVE  SubSeq(b, 1, n) = Cat(SubSeq(a, 1, m), SubSeq(b, m + 1, n))
  <1> DEFINE x == SubSeq(a, 1, m)
             y == SubSeq(b, m + 1, n)
             z == SubSeq(b, 1, n)
  <1>1. IsSeq(x) /\ Len(x) = m /\ \A i \in 1 .. m : x[i] = a[i]
    <2>1. 1 <= m + 1 /\ m - 1 + 1 = m /\ \A i \in 1 .. m : 1 + i - 1 = i
      OBVIOUS
    <2> QED BY <2>1, SubIs
  <1>2. IsSeq(z) /\ Len(z) = n /\ \A i \in 1 .. n : z[i] = b[i]
    <2>1. 1 <= n + 1 /\ n - 1 + 1 = n /\ \A i \in 1 .. n : 1 + i - 1 = i
      OBVIOUS
    <2> QED BY <2>1, SubIs
  <1>3. IsSeq(y) /\ Len(y) = n - m /\ \A i \in 1 .. n - m : y[i] = b[m + i]
    <2>1. /\ m + 1 \in Nat /\ 1 <= m + 1 /\ m + 1 <= n + 1 /\ n - (m + 1) + 1 = n - m
          /\ \A i \in 1 .. n - m : (m + 1) + i - 1 = m + i
      OBVIOUS
    <2>2. /\ IsSeq(y) /\ Len(y) = n - (m + 1) + 1
          /\ \A i \in 1 .. n - (m + 1) + 1 : y[i] = b[(m + 1) + i - 1]
      BY <2>1, SubIs
    <2> QED BY <2>1, <2>2
  <1> HIDE DEF x, y, z
  <1> DEFINE c == Cat(x, y)
  <1>4. /\ IsSeq(c) /\ Len(c) = Len(x) + Len(y)
        /\ \A i \in 1 .. Len(x) : c[i] = x[i]
        /\ \A i \in 1 .. Len(y) : c[Len(x) + i] = y[i]
    <2>1. IsSeq(x) /\ IsSeq(y)
      BY <1>1, <1>3
    <2>2. IsSeq(c) /\ Len(c) = Len(x) + Len(y)
      BY <2>1, CatIs
    <2>3. \A i \in 1 .. Len(x) : c[i] = x[i]
      BY <2>1, CatIs
    <2>4. \A i \in 1 .. Len(y) : c[Len(x) + i] = y[i]
      BY <2>1, CatIs
    <2> QED BY <2>2, <2>3, <2>4
  <1> HIDE DEF c
  <1>5. Len(c) = n
    BY <1>1, <1>3, <1>4
  <1>6. \A i \in 1 .. n : z[i] = c[i]
    <2>1. TAKE i \in 1 .. n
    <2>2. CASE i <= m
      <3>1. i \in 1 .. m /\ i \in 1 .. Len(x)
        BY <1>1, <2>2
      <3> QED BY <1>1, <1>2, <1>4, <3>1
    <2>3. CASE ~(i <= m)
      <3>1. i - m \in 1 .. n - m /\ m + (i - m) = i
        BY <2>3
      <3>2. c[m + (i - m)] = y[i - m]
        BY <1>1, <1>3, <1>4, <3>1
      <3>3. y[i - m] = b[m + (i - m)]
        BY <1>3, <3>1
      <3> QED BY <1>2, <3>1, <3>2, <3>3
    <2> QED BY <2>2, <2>3
  <1>7. z = c
    BY <1>2, <1>4, <1>5, <1>6, SeqSame
  <1> QED BY <1>7 DEF c, x, y, z

LEMMA AllBlank ==
  ASSUME NEW a, IsSeq(a), \A i \in 1 .. Len(a) : a[i].tag \in Blank
  PROVE  NotBlank(a) = <<>>
  <1> DEFINE B(l) == \A i \in 1 .. Len(l) : l[i].tag \in Blank
             P == {n \in Nat : \A l : IsSeq(l) /\ B(l) /\ Len(l) = n => NotBlank(l) = <<>>}
  <1>1. 0 \in P
    <2>1. ASSUME NEW l, IsSeq(l), Len(l) = 0 PROVE NotBlank(l) = <<>>
      <3>1. l = <<>>
        BY <2>1, EmptySeq DEF IsSeq
      <3> QED BY <3>1, NotBlankOne
    <2> QED BY <2>1
  <1>2. ASSUME NEW n \in P PROVE n + 1 \in P
    <2>1. ASSUME NEW l, IsSeq(l), B(l), Len(l) = n + 1 PROVE NotBlank(l) = <<>>
      <3>1. n \in Nat /\ l # <<>>
        BY <2>1, SeqTuples
      <3> DEFINE f == Front(l)
                 x == Last(l)
      <3>2. IsSeq(f) /\ Len(f) = n /\ l = Append(f, x)
        BY <2>1, <3>1, SeqSplit
      <3> HIDE DEF f, x
      <3>3. x = l[n + 1] /\ \A i \in 1 .. n : f[i] = l[i]
        BY <3>2, SeqSnoc
      <3>4. x.tag \in Blank /\ B(f)
        <4>1. n + 1 \in 1 .. Len(l) /\ \A i \in 1 .. n : i \in 1 .. Len(l)
          BY <2>1, <3>1
        <4> QED BY <2>1, <3>2, <3>3, <4>1
      <3>5. NotBlank(f) = <<>>
        BY <3>1, <3>2, <3>4
      <3>6. NotBlank(l) = Cat(NotBlank(f), <<>>)
        BY <3>2, <3>4, NotBlankOne
      <3> QED BY <3>5, <3>6, CatIs, SeqTuples
    <2> QED BY <2>1
  <1> HIDE DEF P
  <1>3. \A n \in Nat : n \in P
    <2>1. P \in SUBSET Nat
      BY DEF P
    <2> QED BY <1>1, <1>2, <2>1, NatSet
  <1>4. Len(a) \in Nat
    BY SeqLen
  <1> QED BY <1>3, <1>4 DEF P

LEMMA TokensSeq ==
  ASSUME NEW t, StreamOK(t)
  PROVE  IsSeq(t.tokens) /\ IsSeq(t.comments) /\ IsSeq(Read(t)) /\ IsSeq(Words(Read(t)))
  <1>1. t.tokens \in Seq(Tokens) /\ t.comments \in Seq(Nat)
    BY StreamTypes
  <1>2. IsSeq(t.tokens) /\ IsSeq(t.comments)
    BY <1>1, SeqIs DEF IsSeq
  <1>3. IsSeq(SubSeq(t.tokens, 1, t.cur - 1))
    <2>1. /\ t.cur - 1 \in Nat /\ 1 <= (t.cur - 1) + 1 /\ t.cur - 1 <= Len(t.tokens)
      BY StreamTypes
    <2> QED BY <1>2, <2>1, SubIs
  <1>4. IsSeq(Read(t))
    BY <1>3, NotBlankCat DEF Read
  <1> QED BY <1>2, <1>4, WordsCat

\* t and u have the same tokens up to the cursor of t.
LEMMA ReadMore ==
  ASSUME NEW t, NEW u, StreamOK(t), StreamOK(u), t.cur <= u.cur, 
         \A i \in Nat : 1 <= i /\ i < t.cur => t.tokens[i] = u.tokens[i]
  PROVE  /\ (\A i \in Nat : t.cur <= i /\ i < u.cur => u.tokens[i].tag \in Blank) => Read(u) = Read(t)
         /\ u.cur = t.cur + 1 /\ u.tokens[t.cur].tag \notin Blank =>
              Read(u) = Cat(Read(t), <<u.tokens[t.cur]>>)
  <1> DEFINE m == t.cur - 1
             n == u.cur - 1
             y == SubSeq(u.tokens, m + 1, n)
  <1>1. /\ m \in Nat /\ n \in Nat /\ m <= n /\ m <= Len(t.tokens) /\ n <= Len(u.tokens)
        /\ 1 <= m + 1 /\ m + 1 = t.cur /\ m + 1 <= n + 1 /\ m + 1 \in Nat /\ n + 1 = u.cur
    <2>1. t.cur \in Nat /\ 1 <= t.cur /\ t.cur <= Len(t.tokens) + 1 /\ Len(t.tokens) \in Nat
      BY StreamTypes
    <2>2. u.cur \in Nat /\ 1 <= u.cur /\ u.cur <= Len(u.tokens) + 1 /\ Len(u.tokens) \in Nat
      BY StreamTypes
    <2> DEFINE a == t.cur
               b == u.cur
               j == Len(t.tokens)
               k == Len(u.tokens)
    <2>3. /\ a \in Nat /\ 1 <= a /\ a <= j + 1 /\ j \in Nat
          /\ b \in Nat /\ 1 <= b /\ b <= k + 1 /\ k \in Nat /\ a <= b
          /\ m = a - 1 /\ n = b - 1
      BY <2>1, <2>2
    <2> HIDE DEF a, b, j, k, m, n, y
    <2>4. /\ m \in Nat /\ n \in Nat /\ m <= n /\ m <= j /\ n <= k
          /\ 1 <= m + 1 /\ m + 1 = a /\ m + 1 <= n + 1 /\ m + 1 \in Nat /\ n + 1 = b
      BY <2>3
    <2> QED BY <2>4 DEF a, b, j, k
  <1>2. IsSeq(t.tokens) /\ IsSeq(u.tokens)
    BY TokensSeq
  <1>3. \A i \in 1 .. m : t.tokens[i] = u.tokens[i]
    BY <1>1
  <1> HIDE DEF m, n
  <1>4. SubSeq(u.tokens, 1, n) = Cat(SubSeq(t.tokens, 1, m), y)
    <2> DEFINE a == t.tokens
               b == u.tokens
    <2>1. IsSeq(a) /\ IsSeq(b) /\ m <= Len(a) /\ n <= Len(b) /\ \A i \in 1 .. m : a[i] = b[i]
      BY <1>1, <1>2, <1>3
    <2> HIDE DEF a, b
    <2>2. SubSeq(b, 1, n) = Cat(SubSeq(a, 1, m), SubSeq(b, m + 1, n))
      BY <1>1, <2>1, SubMore
    <2> QED BY <2>2 DEF a, b
  <1>5. /\ IsSeq(y) /\ Len(y) = n - (m + 1) + 1
        /\ \A i \in 1 .. n - (m + 1) + 1 : y[i] = u.tokens[(m + 1) + i - 1]
    BY <1>1, <1>2, SubIs
  <1>6. IsSeq(SubSeq(t.tokens, 1, m))
    <2>1. 1 <= m + 1 /\ 1 \in Nat
      BY <1>1
    <2> QED BY <1>1, <1>2, <2>1, SubIs
  <1> HIDE DEF y
  <1>7. Read(u) = Cat(Read(t), NotBlank(y)) /\ IsSeq(Read(t))
    BY <1>4, <1>5, <1>6, NotBlankCat DEF Read, m, n
  <1>8. ASSUME \A i \in Nat : t.cur <= i /\ i < u.cur => u.tokens[i].tag \in Blank
        PROVE  Read(u) = Read(t)
    <2>1. ASSUME NEW i \in 1 .. Len(y) PROVE y[i].tag \in Blank
      <3>1. (m + 1) + i - 1 \in Nat /\ t.cur <= (m + 1) + i - 1 /\ (m + 1) + i - 1 < u.cur
        BY <1>1, <1>5
      <3>2. y[i] = u.tokens[(m + 1) + i - 1]
        BY <1>5
      <3> QED BY <1>8, <3>1, <3>2
    <2>2. NotBlank(y) = <<>>
      BY <1>5, <2>1, AllBlank
    <2> QED BY <1>7, <2>2, CatIs
  <1>9. ASSUME u.cur = t.cur + 1, u.tokens[t.cur].tag \notin Blank
        PROVE  Read(u) = Cat(Read(t), <<u.tokens[t.cur]>>)
    <2>1. Len(y) = 1 /\ y[1] = u.tokens[t.cur]
      <3>1. n - (m + 1) + 1 = 1 /\ (m + 1) + 1 - 1 = t.cur
        BY <1>1, <1>9
      <3> QED BY <1>5, <3>1
    <2> DEFINE x == u.tokens[t.cur]
    <2>2. Len(y) = 1 /\ y[1] = x
      BY <2>1
    <2> HIDE DEF x
    <2>3. y = <<x>>
      <3>1. IsSeq(<<x>>) /\ Len(<<x>>) = 1 /\ <<x>>[1] = x
        BY SeqTuples
      <3>2. \A i \in 1 .. Len(y) : y[i] = <<x>>[i]
        BY <2>2, <3>1
      <3> QED BY <1>5, <2>2, <3>1, <3>2, SeqSame
    <2>4. NotBlank(y) = <<x>>
      BY <1>9, <2>3, NotBlankOne DEF x
    <2> QED BY <1>7, <2>4 DEF x
  <1> QED BY <1>8, <1>9

\* The comments that were not handed over are the last that were met.
Notes(t, c) == Cat(c, t.comments) = CommentsIn(t.tokens)

Com(t, u) == \A c : IsSeq(c) /\ Notes(t, c) => Notes(u, c)

LEMMA ComMaybeParse ==
  ASSUME NEW t, StreamOK(t)
  PROVE  Com(t, MaybeParse(t)) /\ Com(t, Consume(t))
  <1> DEFINE tok == ParseOne(t.input, Lexed(t) + 1, t.regexMode)
             com == IF tok.tag = "comment" THEN Append(t.comments, tok.from) ELSE t.comments
             u   == MaybeParse(t)
  <1>1. Com(t, u)
    <2>1. CASE Parsed(t)
      BY <2>1, MaybeParseSame DEF Com
    <2>2. CASE ~Parsed(t)
      <3>1. u = [t EXCEPT !.tokens = Append(@, tok), !.comments = com]
        BY <2>2 DEF MaybeParse, Parsed
      <3> HIDE DEF com, tok
      <3>2. u.tokens = Append(t.tokens, tok) /\ u.comments = com
        BY <3>1 DEF StreamOK, Streams
      <3> HIDE DEF u
      <3>3. IsSeq(t.tokens) /\ IsSeq(t.comments)
        BY TokensSeq
      <3>4. CommentsIn(u.tokens) = Cat(CommentsIn(t.tokens), IF tok.tag = "comment" THEN <<tok.from>> ELSE <<>>)
        BY <3>2, <3>3, CommentsInOne
      <3>5. IsSeq(CommentsIn(t.tokens))
        BY <3>3, CommentsInCat
      <3>6. ASSUME NEW c, IsSeq(c), Notes(t, c) PROVE Notes(u, c)
        <4>1. CASE tok.tag = "comment"
          <5> DEFINE x == tok.from
          <5>1. u.comments = Append(t.comments, x)
            BY <3>2, <4>1 DEF com
          <5>2. u.comments = Cat(t.comments, <<x>>) /\ IsSeq(<<x>>)
            BY <3>3, <5>1, SeqSnoc, SeqTuples DEF Cat
          <5>3. Cat(c, u.comments) = Cat(Cat(c, t.comments), <<x>>)
            BY <3>3, <3>6, <5>2, CatAssoc
          <5> QED BY <3>4, <3>6, <4>1, <5>3 DEF Notes
        <4>2. CASE tok.tag # "comment"
          <5>1. u.comments = t.comments
            BY <3>2, <4>2 DEF com
          <5>2. CommentsIn(u.tokens) = CommentsIn(t.tokens)
            BY <3>4, <3>5, <4>2, CatIs
          <5> QED BY <3>6, <5>1, <5>2 DEF Notes
        <4> QED BY <4>1, <4>2
      <3> QED BY <3>6 DEF Com, u
    <2> QED BY <2>1, <2>2
  <1> HIDE DEF u
  <1>2. Consume(t) = IF Eos(t) THEN u ELSE [u EXCEPT !.cur = @ + 1, !.lastSkip = None]
    BY DEF Consume, u
  <1>3. Consume(t).tokens = u.tokens /\ Consume(t).comments = u.comments
    <2>1. u \in Streams
      BY MaybeParseIs DEF StreamOK, u
    <2> QED BY <1>2, <2>1 DEF Streams
  <1>4. Com(t, Consume(t))
    BY <1>1, <1>3 DEF Com, Notes
  <1> QED BY <1>1, <1>4 DEF u

LEMMA ComTrans ==
  ASSUME NEW t, NEW u, NEW v, Com(t, u), Com(u, v)
  PROVE  Com(t, v)
  BY DEF Com

LEMMA ComSkipTag ==
  ASSUME NEW t, StreamOK(t), NEW tags
  PROVE  Com(t, SkipTag(t, tags))
  <1> DEFINE m == MaybeParse(t)
  <1>1. StreamOK(m) /\ Com(t, m)
    BY MaybeParseIs, ComMaybeParse
  <1>2. SkipTag(t, tags) = [SkipWhile(m, tags) EXCEPT !.lastSkip =
                              IF SkipWhile(m, tags).cur # m.cur THEN m.cur ELSE None]
    BY DEF SkipTag
  <1> HIDE DEF m
  <1>3. PICK after : /\ SkipWhile(m, tags) = MaybeParse(after[Len(m.input)])
                     /\ after[0] = m
                     /\ \A k \in Nat : after[k + 1] = Round(after[k], tags)
    BY SkipWhileLoop
  <1> DEFINE P == {k \in Nat : StreamOK(after[k]) /\ Com(m, after[k])}
  <1>4. 0 \in P
    BY <1>1, <1>3 DEF Com
  <1>5. ASSUME NEW k \in P PROVE k + 1 \in P
    <2>1. k \in Nat /\ StreamOK(after[k]) /\ Com(m, after[k])
      OBVIOUS
    <2>2. after[k + 1] = Round(after[k], tags)
      BY <1>3, <2>1
    <2>3. StreamOK(after[k + 1])
      BY <2>1, <2>2, RoundIs DEF ReadOn
    <2>4. Com(after[k], after[k + 1])
      <3>1. CASE ExpectTag(after[k], tags)
        BY <2>1, <2>2, <3>1, ComMaybeParse DEF Round
      <3>2. CASE ~ExpectTag(after[k], tags)
        BY <2>2, <3>2 DEF Round, Com
      <3> QED BY <3>1, <3>2
    <2>5. Com(m, after[k + 1])
      BY <2>1, <2>4, ComTrans
    <2> QED BY <2>1, <2>3, <2>5
  <1> HIDE DEF P
  <1>6. \A k \in Nat : k \in P
    <2>1. P \in SUBSET Nat
      BY DEF P
    <2> QED BY <1>4, <1>5, <2>1, NatSet
  <1>7. Len(m.input) \in Nat
    BY <1>1, StreamTypes
  <1> DEFINE l == after[Len(m.input)]
             w == SkipWhile(m, tags)
  <1>8. StreamOK(l) /\ Com(m, l)
    BY <1>6, <1>7 DEF P
  <1>9. w = MaybeParse(l)
    BY <1>3
  <1> HIDE DEF l, w
  <1>10. Com(l, w) /\ StreamOK(w)
    BY <1>8, <1>9, ComMaybeParse, MaybeParseIs
  <1>11. Com(t, w)
    BY <1>1, <1>8, <1>10, ComTrans
  <1>12. SkipTag(t, tags).tokens = w.tokens /\ SkipTag(t, tags).comments = w.comments
    BY <1>2, <1>10 DEF StreamOK, Streams, w
  <1> QED BY <1>11, <1>12 DEF Com, Notes

-----------------------------------------------------------------------------
(* What the operations of the stream read.                                   *)

\* The tokens that were skipped last are blank.
SkipBlank(t) ==
  t.lastSkip # None => \A i \in Nat : t.lastSkip <= i /\ i < t.cur => t.tokens[i].tag \in Blank

\* u is t after reading what the leaves w stand for.
Reads(t, u, w) ==
  /\ StreamOK(u) /\ SkipBlank(u) /\ IsSeq(w)
  /\ Words(Read(u)) = Cat(Words(Read(t)), Words(w))
  /\ Com(t, u)

LEMMA ReadsNothing ==
  ASSUME NEW t, NEW u, StreamOK(t), StreamOK(u), SkipBlank(u), Read(u) = Read(t), Com(t, u)
  PROVE  Reads(t, u, <<>>)
  <1>1. Words(<<>>) = <<>> /\ IsSeq(<<>>) /\ IsSeq(Words(Read(t)))
    BY WordsOne, SeqTuples, TokensSeq
  <1>2. Cat(Words(Read(t)), Words(<<>>)) = Words(Read(u))
    BY <1>1, CatIs
  <1> QED BY <1>1, <1>2 DEF Reads

LEMMA ReadsTrans ==
  ASSUME NEW t, NEW u, NEW v, NEW x, NEW y, StreamOK(t), Reads(t, u, x), Reads(u, v, y)
  PROVE  Reads(t, v, Cat(x, y))
  <1>1. IsSeq(x) /\ IsSeq(y) /\ IsSeq(Words(x)) /\ IsSeq(Words(y)) /\ IsSeq(Cat(x, y)) /\ IsSeq(Words(Read(t)))
    BY CatIs, WordsCat, TokensSeq DEF Reads
  <1>2. Words(Cat(x, y)) = Cat(Words(x), Words(y))
    BY <1>1, WordsCat
  <1>3. Words(Read(v)) = Cat(Cat(Words(Read(t)), Words(x)), Words(y))
    BY DEF Reads
  <1>4. Words(Read(v)) = Cat(Words(Read(t)), Words(Cat(x, y)))
    BY <1>1, <1>2, <1>3, CatAssoc
  <1>5. Com(t, v)
    BY ComTrans DEF Reads
  <1> QED BY <1>1, <1>4, <1>5 DEF Reads

LEMMA ReadsSelf ==
  ASSUME NEW t, StreamOK(t), SkipBlank(t)
  PROVE  Reads(t, t, <<>>)
  BY ReadsNothing DEF Com

LEMMA ReadsMaybeParse ==
  ASSUME NEW t, StreamOK(t), SkipBlank(t)
  PROVE  Reads(t, MaybeParse(t), <<>>)
  <1> DEFINE u == MaybeParse(t)
  <1>1. StreamOK(u) /\ Later(t, u) /\ u.cur = t.cur /\ u.lastSkip = t.lastSkip /\ Com(t, u)
    BY MaybeParseIs, ComMaybeParse
  <1> HIDE DEF u
  <1>2. t.cur \in Nat /\ u.cur \in Nat /\ t.lastSkip \in Nat /\ t.cur <= Len(t.tokens) + 1 /\ Len(t.tokens) \in Nat
    BY <1>1, StreamTypes
  <1>3. ASSUME NEW i \in Nat, 1 <= i, i < t.cur PROVE t.tokens[i] = u.tokens[i]
    <2>1. i \in 1 .. Len(t.tokens)
      BY <1>2, <1>3
    <2> QED BY <1>1, <2>1 DEF Later
  <1>4. Read(u) = Read(t)
    <2>1. \A i \in Nat : t.cur <= i /\ i < u.cur => u.tokens[i].tag \in Blank
      BY <1>1, <1>2
    <2>2. t.cur <= u.cur
      BY <1>1, <1>2
    <2> QED BY <1>1, <1>3, <2>1, <2>2, ReadMore
  <1>5. SkipBlank(u)
    BY <1>1, <1>2, <1>3 DEF SkipBlank, None
  <1> QED BY <1>1, <1>4, <1>5, ReadsNothing DEF u

LEMMA ReadsSkipTag ==
  ASSUME NEW t, StreamOK(t), NEW tags, tags \subseteq Blank
  PROVE  Reads(t, SkipTag(t, tags), <<>>)
  <1> DEFINE u == SkipTag(t, tags)
  <1>1. /\ ReadOn(t, u) /\ Rank(u) = t.cur /\ Com(t, u)
        /\ \A i \in Nat : t.cur <= i /\ i < u.cur => u.tokens[i].tag \in tags
    BY SkipTagIs, ComSkipTag
  <1> HIDE DEF u
  <1>2. StreamOK(u) /\ Later(t, u) /\ t.cur <= u.cur
    BY <1>1 DEF ReadOn
  <1>3. /\ t.cur \in Nat /\ u.cur \in Nat /\ t.cur <= Len(t.tokens) + 1 /\ Len(t.tokens) \in Nat
        /\ 1 <= t.cur /\ u.cur <= Len(u.tokens) + 1 /\ Len(u.tokens) \in Nat /\ u.tokens \in Seq(Tokens)
    BY <1>2, StreamTypes
  <1>4. ASSUME NEW i \in Nat, t.cur <= i, i < u.cur PROVE u.tokens[i].tag \in Blank
    BY <1>1, <1>4
  <1>5. ASSUME NEW i \in Nat, 1 <= i, i < t.cur PROVE t.tokens[i] = u.tokens[i]
    <2>1. i \in 1 .. Len(t.tokens)
      BY <1>3, <1>5
    <2> QED BY <1>2, <2>1 DEF Later
  <1>6. Read(u) = Read(t)
    BY <1>2, <1>4, <1>5, ReadMore
  <1>7. SkipBlank(u)
    BY <1>1, <1>4 DEF SkipBlank, Rank
  <1> QED BY <1>1, <1>2, <1>6, <1>7, ReadsNothing DEF u

LEMMA ReadsSkips ==
  ASSUME NEW t, StreamOK(t)
  PROVE  /\ Reads(t, SkipSpace(t), <<>>) /\ Reads(t, SkipSpaceComment(t), <<>>)
         /\ Reads(t, SkipLine(t), <<>>) /\ Reads(t, SkipWhite(t), <<>>)
  <1>1. /\ {"space"} \subseteq Blank /\ {"space", "comment"} \subseteq Blank
        /\ {"space", "line", "comment"} \subseteq Blank
        /\ {"space", "line", "indent", "comment"} \subseteq Blank
    BY DEF Blank
  <1> QED BY <1>1, ReadsSkipTag DEF SkipSpace, SkipSpaceComment, SkipLine, SkipWhite

LEMMA ReadsSet ==
  ASSUME NEW t, StreamOK(t), SkipBlank(t)
  PROVE  /\ \A on \in BOOLEAN : Reads(t, SetRegexMode(t, on), <<>>)
         /\ RankOK(t) => Reads(t, Shrink(t), <<>>)
  <1>1. ASSUME NEW u, StreamOK(u), u.cur = t.cur, u.lastSkip = t.lastSkip, u.tokens = t.tokens,
               u.comments = t.comments
        PROVE  Reads(t, u, <<>>)
    <2>1. Read(u) = Read(t) /\ Com(t, u) /\ SkipBlank(u)
      BY <1>1 DEF Read, Com, Notes, SkipBlank
    <2> QED BY <1>1, <2>1, ReadsNothing
  <1>2. ASSUME NEW on \in BOOLEAN PROVE Reads(t, SetRegexMode(t, on), <<>>)
    <2> DEFINE u == SetRegexMode(t, on)
    <2>1. /\ u \in Streams /\ u.cur = t.cur /\ u.lastSkip = t.lastSkip /\ u.tokens = t.tokens
          /\ u.input = t.input /\ u.begin = t.begin /\ u.prevSkip = t.prevSkip /\ u.comments = t.comments
      BY <1>2 DEF SetRegexMode, StreamOK, Streams
    <2> HIDE DEF u
    <2>2. StreamOK(u)
      BY <2>1 DEF StreamOK, End, Lexed
    <2> QED BY <1>1, <2>1, <2>2 DEF u
  <1>3. ASSUME RankOK(t) PROVE Reads(t, Shrink(t), <<>>)
    <2> DEFINE u == Shrink(t)
    <2>1. StreamOK(u)
      BY <1>3, ShrinkIs
    <2>2. u.cur = t.cur /\ u.lastSkip = t.lastSkip /\ u.tokens = t.tokens /\ u.comments = t.comments
      BY DEF Shrink, StreamOK, Streams
    <2> HIDE DEF u
    <2> QED BY <1>1, <2>1, <2>2 DEF u
  <1> QED BY <1>2, <1>3

\* A token.
LEMMA ReadsConsume ==
  ASSUME NEW t, StreamOK(t), ~Eos(t)
  PROVE  /\ Cur(t).tag \in Blank => Reads(t, Consume(t), <<>>)
         /\ Cur(t).tag \notin Blank => Reads(t, Consume(t), <<Tok(Cur(t).text)>>)
         /\ Cur(t).text \notin {Space, Line, Hash} => Cur(t).tag \notin Blank
         /\ tolerant /\ Cur(t).tag = "punct" => Reads(t, Consume(t), <<>>)
  <1> DEFINE u == Consume(t)
             x == Cur(t)
  <1>1. /\ ReadOn(t, u) /\ u.cur = t.cur + 1 /\ u.lastSkip = None
        /\ x \in Tokens /\ u.tokens[t.cur] = x /\ Com(t, u)
    BY ConsumeIs, ComMaybeParse
  <1> HIDE DEF u, x
  <1>2. StreamOK(u) /\ Later(t, u)
    BY <1>1 DEF ReadOn
  <1>3. t.cur \in Nat /\ u.cur \in Nat /\ t.cur <= Len(t.tokens) + 1 /\ Len(t.tokens) \in Nat /\ t.cur <= u.cur
    BY <1>1, <1>2, StreamTypes
  <1>4. ASSUME NEW i \in Nat, 1 <= i, i < t.cur PROVE t.tokens[i] = u.tokens[i]
    <2>1. i \in 1 .. Len(t.tokens)
      BY <1>3, <1>4
    <2> QED BY <1>2, <2>1 DEF Later
  <1>5. SkipBlank(u)
    BY <1>1 DEF SkipBlank
  <1>6. ASSUME x.tag \in Blank PROVE Reads(t, u, <<>>)
    <2>1. \A i \in Nat : t.cur <= i /\ i < u.cur => u.tokens[i].tag \in Blank
      <3>1. \A i \in Nat : t.cur <= i /\ i < u.cur => i = t.cur
        BY <1>1, <1>3
      <3> QED BY <1>1, <1>6, <3>1
    <2>2. Read(u) = Read(t)
      BY <1>2, <1>3, <1>4, <2>1, ReadMore
    <2> QED BY <1>1, <1>2, <1>5, <2>2, ReadsNothing
  <1>7. ASSUME x.tag \notin Blank
        PROVE  /\ Words(Read(u)) = Cat(Words(Read(t)), Words(<<x>>))
               /\ IsSeq(Words(Read(t)))
    <2>1. Read(u) = Cat(Read(t), <<x>>)
      BY <1>1, <1>2, <1>3, <1>4, <1>7, ReadMore
    <2>2. IsSeq(Read(t)) /\ IsSeq(<<x>>)
      BY TokensSeq, SeqTuples
    <2> QED BY <2>1, <2>2, WordsCat
  <1>8. ASSUME x.tag \notin Blank PROVE Reads(t, u, <<Tok(x.text)>>)
    <2>1. Tok(x.text).text = x.text
      BY NodeIs DEF Tok
    <2>2. Words(<<Tok(x.text)>>) = Words(<<x>>)
      BY <2>1, WordsOne
    <2>3. IsSeq(<<Tok(x.text)>>)
      BY SeqTuples
    <2> QED BY <1>1, <1>2, <1>5, <1>7, <1>8, <2>2, <2>3 DEF Reads
  <1>9. ASSUME x.text \notin {Space, Line, Hash} PROVE x.tag \notin Blank
    BY <1>1, <1>9 DEF Tokens
  <1>10. ASSUME tolerant, x.tag = "punct" PROVE Reads(t, u, <<>>)
    <2>1. x.text \notin {Word, NoText} /\ x.tag \notin Blank
      BY <1>1, <1>10 DEF Tokens, Blank
    <2>2. Words(<<x>>) = <<>> /\ Words(<<>>) = <<>> /\ IsSeq(<<>>)
      BY <1>10, <2>1, WordsOne, SeqTuples
    <2>3. Words(Read(u)) = Cat(Words(Read(t)), Words(<<>>))
      BY <1>7, <2>1, <2>2
    <2> QED BY <1>1, <1>2, <1>5, <2>2, <2>3 DEF Reads
  <1> QED BY <1>6, <1>8, <1>9, <1>10 DEF u, x

LEMMA ReadsRecover ==
  ASSUME NEW t, StreamOK(t), SkipOK(t), SkipBlank(t), ~CannotRecover(t), tolerant
  PROVE  Reads(t, Recover(t), <<>>)
  <1> DEFINE b == IF t.lastSkip # None THEN [t EXCEPT !.cur = t.lastSkip, !.lastSkip = None] ELSE t
             r == Returned(t)
             u == Recover(t)
  <1>0. /\ t.begin \in Nat /\ t.cur \in Nat /\ t.lastSkip \in Nat /\ t.prevSkip \in Nat /\ t \in Streams
        /\ 1 <= t.begin /\ t.begin <= t.cur /\ t.cur <= Len(t.tokens) + 1 /\ Len(t.tokens) \in Nat
    BY StreamTypes DEF StreamOK
  <1>1. Reads(t, b, <<>>)
    <2>1. CASE t.lastSkip = None
      BY <2>1, ReadsSelf
    <2>2. CASE t.lastSkip # None
      <3>1. /\ b \in Streams /\ b.cur = t.lastSkip /\ b.lastSkip = None /\ b.tokens = t.tokens
            /\ b.input = t.input /\ b.begin = t.begin /\ b.prevSkip = t.prevSkip /\ b.comments = t.comments
        BY <1>0, <2>2 DEF Streams, None
      <3>2. /\ t.begin <= t.lastSkip /\ t.lastSkip < t.cur
            /\ t.prevSkip # None => t.prevSkip <= t.lastSkip
        BY <1>0, <2>2 DEF SkipOK
      <3> HIDE DEF b
      <3>3. StreamOK(b)
        BY <1>0, <3>1, <3>2 DEF StreamOK, End, Lexed
      <3>4. SkipBlank(b) /\ Com(t, b)
        BY <3>1 DEF SkipBlank, Com, Notes
      <3>5. \A i \in Nat : b.cur <= i /\ i < t.cur => t.tokens[i].tag \in Blank
        BY <2>2, <3>1 DEF SkipBlank
      <3>6. b.cur <= t.cur /\ \A i \in Nat : 1 <= i /\ i < b.cur => b.tokens[i] = t.tokens[i]
        BY <1>0, <3>1, <3>2
      <3>7. Read(t) = Read(b)
        BY <3>3, <3>5, <3>6, ReadMore
      <3> QED BY <3>3, <3>4, <3>7, ReadsNothing
    <2> QED BY <2>1, <2>2
  <1>2. r = MaybeParse(b)
    BY DEF Returned
  <1> HIDE DEF b, r
  <1>3. Reads(b, r, <<>>)
    BY <1>1, <1>2, ReadsMaybeParse DEF Reads
  <1>4. Cat(<<>>, <<>>) = <<>>
    BY CatIs, SeqTuples
  <1>5. Reads(t, r, <<>>)
    BY <1>1, <1>3, <1>4, ReadsTrans
  <1>6. StreamOK(r) /\ SkipBlank(r)
    BY <1>5 DEF Reads
  <1>7. Reads(r, u, <<>>)
    <2>1. CASE r.cur = r.prevSkip
      <3>1. u = Consume(r) /\ ~Eos(r) /\ Cur(r).tag = "punct"
        BY <2>1 DEF Recover, CannotRecover, ExpectTag, r
      <3> QED BY <1>6, <3>1, ReadsConsume
    <2>2. CASE r.cur # r.prevSkip
      <3>1. u = [r EXCEPT !.prevSkip = r.cur]
        BY <2>2 DEF Recover, r
      <3>2. StreamOK(u)
        BY RecoverIs
      <3> HIDE DEF u
      <3>3. u.cur = r.cur /\ u.lastSkip = r.lastSkip /\ u.tokens = r.tokens /\ u.comments = r.comments
        BY <1>6, <3>1 DEF StreamOK, Streams
      <3>4. Read(u) = Read(r) /\ Com(r, u) /\ SkipBlank(u)
        BY <1>6, <3>3 DEF Read, Com, Notes, SkipBlank
      <3> QED BY <1>6, <3>2, <3>4, ReadsNothing
    <2> QED BY <2>1, <2>2
  <1> QED BY <1>4, <1>5, <1>7, ReadsTrans

\* One operation more.
LEMMA ReadsMore ==
  ASSUME NEW t, NEW u, NEW w, StreamOK(t), Reads(t, u, w)
  PROVE  /\ Reads(t, MaybeParse(u), w) /\ Reads(t, SkipSpace(u), w) /\ Reads(t, SkipWhite(u), w)
         /\ Reads(t, SkipLine(u), w) /\ Reads(t, SkipSpaceComment(u), w)
         /\ \A on \in BOOLEAN : Reads(t, SetRegexMode(u, on), w)
         /\ RankOK(u) => Reads(t, Shrink(u), w)
         /\ ~Eos(u) /\ Cur(u).tag \in Blank => Reads(t, Consume(u), w)
         /\ ~Eos(u) /\ Cur(u).tag \notin Blank => Reads(t, Consume(u), Cat(w, <<Tok(Cur(u).text)>>))
         /\ ~Eos(u) /\ Cur(u).text \notin {Space, Line, Hash} => Cur(u).tag \notin Blank
         /\ SkipOK(u) /\ ~CannotRecover(u) /\ tolerant => Reads(t, Recover(u), w)
  <1>1. StreamOK(u) /\ SkipBlank(u) /\ IsSeq(w)
    BY DEF Reads
  <1>2. Cat(w, <<>>) = w
    BY <1>1, CatIs
  <1>3. \A v : Reads(u, v, <<>>) => Reads(t, v, w)
    BY <1>2, ReadsTrans
  <1>4. \A v, y : Reads(u, v, y) => Reads(t, v, Cat(w, y))
    BY ReadsTrans
  <1>5. /\ Reads(u, SkipSpace(u), <<>>) /\ Reads(u, SkipSpaceComment(u), <<>>)
        /\ Reads(u, SkipLine(u), <<>>) /\ Reads(u, SkipWhite(u), <<>>)
    BY <1>1, ReadsSkips
  <1>6. Reads(u, MaybeParse(u), <<>>)
    BY <1>1, ReadsMaybeParse
  <1>7. /\ \A on \in BOOLEAN : Reads(u, SetRegexMode(u, on), <<>>)
        /\ RankOK(u) => Reads(u, Shrink(u), <<>>)
    BY <1>1, ReadsSet
  <1>8. ~Eos(u) => /\ Cur(u).tag \in Blank => Reads(u, Consume(u), <<>>)
                   /\ Cur(u).tag \notin Blank => Reads(u, Consume(u), <<Tok(Cur(u).text)>>)
                   /\ Cur(u).text \notin {Space, Line, Hash} => Cur(u).tag \notin Blank
    BY <1>1, ReadsConsume
  <1>9. SkipOK(u) /\ ~CannotRecover(u) /\ tolerant => Reads(u, Recover(u), <<>>)
    BY <1>1, ReadsRecover
  <1> HIDE DEF Reads
  <1> QED BY <1>3, <1>4, <1>5, <1>6, <1>7, <1>8, <1>9

-----------------------------------------------------------------------------
(* The row of nodes that stands for what was read: the program, then the     *)
(* parts that each active function holds, then what the last one returned.   *)

\* A conditional on the stack that has no `then' part yet.
Wants(o) == o.expr.kind = "cond" /\ o.expr.kids[2] = NoNode

OpRow(o)      == IF Wants(o) THEN <<o.expr.kids[1], Tok("?")>> ELSE <<o.expr>>
OpsRow(ops)   == FlattenSeq([i \in DOMAIN ops |-> OpRow(ops[i])])
UnaryRow(ops) == FlattenSeq([i \in DOMAIN ops |-> <<Tok(ops[i])>>])

FrameRow(f) ==
  CASE f.fn = "expr"  -> IF f.pc \in {"loop", "pop", "right"} THEN Append(OpsRow(f.ops), f.expr)
                         ELSE OpsRow(f.ops)
    [] f.fn = "unary" -> UnaryRow(f.ops)
    [] f.fn = "post"  -> CASE f.pc = "loop"  -> <<f.expr>>
                           [] f.pc = "paren" -> <<Tok("(")>>
                           [] f.pc = "call"  -> <<f.expr, Tok("(")>>
                           [] f.pc = "index" -> <<f.expr, Tok("[")>>
                           [] OTHER          -> <<>>
    [] OTHER          -> <<>>

CallsRow(c) == FlattenSeq([i \in DOMAIN c |-> FrameRow(c[i])])

\* The function has been returned to.
Waiting(f) ==
  \/ f.fn = "parse" /\ f.pc = "statement"
  \/ f.fn = "expr" /\ f.pc \in {"first", "low", "right"}
  \/ f.fn = "unary" /\ f.pc = "target"
  \/ f.fn = "post" /\ f.pc \in {"paren", "call", "index"}

FullRow(f) == IF Waiting(f) THEN Append(FrameRow(f), f.ret) ELSE FrameRow(f)

Row == Cat(prog, Cat(CallsRow(Front(calls)), FullRow(Top)))

LEMMA OpRowSeq == \A o : IsSeq(OpRow(o))
  BY SeqTuples DEF OpRow

LEMMA OpsRowCat ==
  ASSUME NEW a, NEW b, IsSeq(a), IsSeq(b)
  PROVE  OpsRow(Cat(a, b)) = Cat(OpsRow(a), OpsRow(b)) /\ IsSeq(OpsRow(a)) /\ IsSeq(OpsRow(b))
  <1> DEFINE E(x) == OpRow(x)
             L(c) == [i \in DOMAIN c |-> E(c[i])]
             c == Cat(a, b)
  <1>1. ASSUME NEW x PROVE IsSeq(E(x))
    BY OpRowSeq
  <1>2. OpsRow(a) = FlattenSeq(L(a)) /\ OpsRow(b) = FlattenSeq(L(b)) /\ OpsRow(c) = FlattenSeq(L(c))
    BY DEF OpsRow
  <1> HIDE DEF E, c
  <1>3. ListsOf(L(a), a) /\ ListsOf(L(b), b) /\ ListsOf(L(c), c)
    BY <1>1 DEF ListsOf
  <1>4. /\ IsSeq(c) /\ Len(c) = Len(a) + Len(b) /\ Len(a) \in Nat /\ Len(b) \in Nat
        /\ \A i \in 1 .. Len(a) : c[i] = a[i]
        /\ \A i \in 1 .. Len(b) : c[Len(a) + i] = b[i]
    BY CatIs DEF c
  <1>5. DOMAIN a = 1 .. Len(a) /\ DOMAIN b = 1 .. Len(b) /\ DOMAIN c = 1 .. Len(a) + Len(b)
    BY <1>4, SeqLen
  <1>6. \A i \in 1 .. Len(a) : L(c)[i] = L(a)[i]
    BY <1>4, <1>5
  <1>7. \A i \in 1 .. Len(b) : L(c)[Len(a) + i] = L(b)[i]
    BY <1>4, <1>5
  <1> HIDE DEF L
  <1>8. ListsOf(L(c), Cat(a, b))
    BY <1>3 DEF c
  <1>9. /\ FlattenSeq(L(c)) = Cat(FlattenSeq(L(a)), FlattenSeq(L(b)))
        /\ IsSeq(FlattenSeq(L(a))) /\ IsSeq(FlattenSeq(L(b)))
    BY <1>3, <1>6, <1>7, <1>8, MapCat
  <1> QED BY <1>2, <1>9 DEF c

LEMMA OpsRowOne ==
  /\ OpsRow(<<>>) = <<>>
  /\ \A x : OpsRow(<<x>>) = (OpRow(x)) /\ IsSeq(OpRow(x))
  /\ \A a, x : IsSeq(a) => OpsRow(Append(a, x)) = Cat(OpsRow(a), OpRow(x))
  <1> DEFINE E(x) == OpRow(x)
             L(c) == [i \in DOMAIN c |-> E(c[i])]
  <1>1. \A x : IsSeq(E(x))
    BY OpRowSeq
  <1>2. \A c : OpsRow(c) = FlattenSeq(L(c))
    BY DEF OpsRow
  <1> HIDE DEF E
  <1>3. OpsRow(<<>>) = <<>>
    <2>1. L(<<>>) = <<>>
      OBVIOUS
    <2> QED BY <1>2, <2>1, FlatSnoc, SeqTuples
  <1>4. ASSUME NEW x PROVE OpsRow(<<x>>) = E(x)
    <2>1. L(<<x>>) = <<E(x)>>
      OBVIOUS
    <2> QED BY <1>1, <1>2, <2>1, FlatOne
  <1>5. ASSUME NEW a, NEW x, IsSeq(a) PROVE OpsRow(Append(a, x)) = Cat(OpsRow(a), E(x))
    <2>1. Append(a, x) = Cat(a, <<x>>) /\ IsSeq(<<x>>)
      BY <1>5, SeqSnoc, SeqTuples DEF Cat
    <2> QED BY <1>4, <1>5, <2>1, OpsRowCat
  <1> QED BY <1>1, <1>3, <1>4, <1>5 DEF E

LEMMA UnaryRowCat ==
  ASSUME NEW a, NEW b, IsSeq(a), IsSeq(b)
  PROVE  UnaryRow(Cat(a, b)) = Cat(UnaryRow(a), UnaryRow(b)) /\ IsSeq(UnaryRow(a)) /\ IsSeq(UnaryRow(b))
  <1> DEFINE E(x) == <<Tok(x)>>
             L(c) == [i \in DOMAIN c |-> E(c[i])]
             c == Cat(a, b)
  <1>1. ASSUME NEW x PROVE IsSeq(E(x))
    BY SeqTuples
  <1>2. UnaryRow(a) = FlattenSeq(L(a)) /\ UnaryRow(b) = FlattenSeq(L(b)) /\ UnaryRow(c) = FlattenSeq(L(c))
    BY DEF UnaryRow
  <1> HIDE DEF E, c
  <1>3. ListsOf(L(a), a) /\ ListsOf(L(b), b) /\ ListsOf(L(c), c)
    BY <1>1 DEF ListsOf
  <1>4. /\ IsSeq(c) /\ Len(c) = Len(a) + Len(b) /\ Len(a) \in Nat /\ Len(b) \in Nat
        /\ \A i \in 1 .. Len(a) : c[i] = a[i]
        /\ \A i \in 1 .. Len(b) : c[Len(a) + i] = b[i]
    BY CatIs DEF c
  <1>5. DOMAIN a = 1 .. Len(a) /\ DOMAIN b = 1 .. Len(b) /\ DOMAIN c = 1 .. Len(a) + Len(b)
    BY <1>4, SeqLen
  <1>6. \A i \in 1 .. Len(a) : L(c)[i] = L(a)[i]
    BY <1>4, <1>5
  <1>7. \A i \in 1 .. Len(b) : L(c)[Len(a) + i] = L(b)[i]
    BY <1>4, <1>5
  <1> HIDE DEF L
  <1>8. ListsOf(L(c), Cat(a, b))
    BY <1>3 DEF c
  <1>9. /\ FlattenSeq(L(c)) = Cat(FlattenSeq(L(a)), FlattenSeq(L(b)))
        /\ IsSeq(FlattenSeq(L(a))) /\ IsSeq(FlattenSeq(L(b)))
    BY <1>3, <1>6, <1>7, <1>8, MapCat
  <1> QED BY <1>2, <1>9 DEF c

LEMMA UnaryRowOne ==
  /\ UnaryRow(<<>>) = <<>>
  /\ \A x : UnaryRow(<<x>>) = (<<Tok(x)>>) /\ IsSeq(<<Tok(x)>>)
  /\ \A a, x : IsSeq(a) => UnaryRow(Append(a, x)) = Cat(UnaryRow(a), <<Tok(x)>>)
  <1> DEFINE E(x) == <<Tok(x)>>
             L(c) == [i \in DOMAIN c |-> E(c[i])]
  <1>1. \A x : IsSeq(E(x))
    BY SeqTuples
  <1>2. \A c : UnaryRow(c) = FlattenSeq(L(c))
    BY DEF UnaryRow
  <1> HIDE DEF E
  <1>3. UnaryRow(<<>>) = <<>>
    <2>1. L(<<>>) = <<>>
      OBVIOUS
    <2> QED BY <1>2, <2>1, FlatSnoc, SeqTuples
  <1>4. ASSUME NEW x PROVE UnaryRow(<<x>>) = E(x)
    <2>1. L(<<x>>) = <<E(x)>>
      OBVIOUS
    <2> QED BY <1>1, <1>2, <2>1, FlatOne
  <1>5. ASSUME NEW a, NEW x, IsSeq(a) PROVE UnaryRow(Append(a, x)) = Cat(UnaryRow(a), E(x))
    <2>1. Append(a, x) = Cat(a, <<x>>) /\ IsSeq(<<x>>)
      BY <1>5, SeqSnoc, SeqTuples DEF Cat
    <2> QED BY <1>4, <1>5, <2>1, UnaryRowCat
  <1> QED BY <1>1, <1>3, <1>4, <1>5 DEF E

LEMMA FrameRowSeq ==
  ASSUME NEW f, IsSeq(f.ops)
  PROVE  IsSeq(FrameRow(f)) /\ IsSeq(FullRow(f))
  <1>1. IsSeq(OpsRow(f.ops)) /\ IsSeq(UnaryRow(f.ops))
    BY OpsRowCat, UnaryRowCat
  <1>2. IsSeq(Append(OpsRow(f.ops), f.expr))
    BY <1>1, SeqSnoc
  <1>3. IsSeq(FrameRow(f))
    <2>1. CASE f.fn = "expr"
      BY <1>1, <1>2, <2>1 DEF FrameRow
    <2>2. CASE f.fn = "unary"
      BY <1>1, <2>2 DEF FrameRow
    <2>3. CASE f.fn = "post"
      <3>1. FrameRow(f) = CASE f.pc = "loop"  -> <<f.expr>>
                           [] f.pc = "paren" -> <<Tok("(")>>
                           [] f.pc = "call"  -> <<f.expr, Tok("(")>>
                           [] f.pc = "index" -> <<f.expr, Tok("[")>>
                           [] OTHER          -> <<>>
        BY <2>3 DEF FrameRow
      <3> QED BY <3>1, SeqTuples
    <2>4. CASE f.fn \notin {"expr", "unary", "post"}
      BY <2>4, SeqTuples DEF FrameRow
    <2> QED BY <2>1, <2>2, <2>3, <2>4
  <1> QED BY <1>3, SeqSnoc DEF FullRow

\* The frames of c have sequences of operators.
OpsSeq(c) == IsSeq(c) /\ \A i \in 1 .. Len(c) : IsSeq(c[i].ops)

LEMMA CallsRowSnoc ==
  ASSUME NEW c, NEW f, OpsSeq(c), IsSeq(f.ops)
  PROVE  /\ CallsRow(Append(c, f)) = Cat(CallsRow(c), FrameRow(f)) /\ OpsSeq(Append(c, f))
         /\ IsSeq(CallsRow(c)) /\ IsSeq(CallsRow(Append(c, f)))
         /\ CallsRow(<<>>) = <<>>
  <1> DEFINE d == Append(c, f)
             x == FrameRow(f)
             g == [i \in DOMAIN c |-> FrameRow(c[i])]
             h == [i \in DOMAIN d |-> FrameRow(d[i])]
  <1>1. /\ IsSeq(c) /\ IsSeq(d) /\ Len(d) = Len(c) + 1 /\ d[Len(c) + 1] = f
        /\ \A i \in 1 .. Len(c) : d[i] = c[i]
    <2>1. d = Longer(c, f) /\ IsSeq(c)
      BY DEF Longer, OpsSeq
    <2> HIDE DEF d
    <2> QED BY <2>1, LongerIs
  <1>2. Len(c) \in Nat /\ DOMAIN c = 1 .. Len(c) /\ DOMAIN d = 1 .. Len(c) + 1
    BY <1>1, SeqLen
  <1>3. OpsSeq(d)
    <2>1. \A i \in 1 .. Len(d) : i = Len(c) + 1 \/ i \in 1 .. Len(c)
      BY <1>1, <1>2
    <2> HIDE DEF d
    <2> QED BY <1>1, <2>1 DEF OpsSeq
  <1> HIDE DEF d
  <1>4. ListsOf(g, c)
    BY <1>2, FrameRowSeq DEF ListsOf, OpsSeq
  <1>5. ListsOf(h, d)
    BY <1>1, <1>2, <1>3, FrameRowSeq DEF ListsOf, OpsSeq
  <1>6. SeqSeq(g) /\ SeqSeq(h) /\ Len(g) = Len(c) /\ Len(h) = Len(d)
    BY <1>1, <1>4, <1>5, ListsSeq
  <1>7. (\A i \in 1 .. Len(c) : h[i] = g[i]) /\ h[Len(c) + 1] = x
    BY <1>1, <1>2
  <1>8. CallsRow(c) = FlattenSeq(g) /\ CallsRow(d) = FlattenSeq(h) /\ IsSeq(x)
    BY FrameRowSeq DEF CallsRow
  <1> HIDE DEF g, h, x
  <1>9. h = Append(g, x)
    <2> DEFINE l == Append(g, x)
    <2>1. /\ IsSeq(l) /\ Len(l) = Len(g) + 1 /\ l[Len(g) + 1] = x
          /\ \A i \in 1 .. Len(g) : l[i] = g[i]
      <3>1. l = Longer(g, x) /\ IsSeq(g)
        BY <1>6 DEF Longer, SeqSeq
      <3> HIDE DEF l
      <3> QED BY <3>1, LongerIs
    <2> HIDE DEF l
    <2>2. \A i \in 1 .. Len(h) : h[i] = l[i]
      <3>1. \A i \in 1 .. Len(h) : i = Len(c) + 1 \/ i \in 1 .. Len(c)
        BY <1>1, <1>2, <1>6
      <3> QED BY <1>6, <1>7, <2>1, <3>1
    <2>3. h = l
      BY <1>1, <1>6, <2>1, <2>2, SeqSame DEF SeqSeq
    <2> QED BY <2>3 DEF l
  <1>10. FlattenSeq(h) = Cat(FlattenSeq(g), x)
    BY <1>6, <1>8, <1>9, FlatSnoc DEF SeqSeq, Cat
  <1>11. IsSeq(FlattenSeq(g)) /\ IsSeq(FlattenSeq(h))
    BY <1>6, FlatSeq
  <1>12. CallsRow(<<>>) = <<>>
    <2>1. [i \in DOMAIN <<>> |-> FrameRow(<<>>[i])] = <<>>
      OBVIOUS
    <2> QED BY <2>1, FlatSnoc, SeqTuples DEF CallsRow
  <1> QED BY <1>3, <1>8, <1>10, <1>11, <1>12 DEF d, x

LEMMA FrontAppend ==
  ASSUME NEW c, NEW f, IsSeq(c)
  PROVE  Front(Append(c, f)) = c
  <1> DEFINE d == Append(c, f)
             e == Front(d)
  <1>1. /\ IsSeq(d) /\ Len(d) = Len(c) + 1 /\ Len(c) \in Nat
        /\ \A i \in 1 .. Len(c) : d[i] = c[i]
    <2>1. d = Longer(c, f)
      BY DEF Longer
    <2> HIDE DEF d
    <2> QED BY <2>1, LongerIs
  <1>2. d # <<>>
    BY <1>1, SeqTuples
  <1> HIDE DEF d
  <1>3. IsSeq(e) /\ Len(e) = Len(d) - 1 /\ \A i \in 1 .. Len(d) - 1 : e[i] = d[i]
    BY <1>1, <1>2, SeqSplit, FrontIs DEF IsSeq
  <1> HIDE DEF e
  <1>4. Len(e) = Len(c) /\ \A i \in 1 .. Len(c) : e[i] = c[i]
    BY <1>1, <1>3
  <1>5. e = c
    BY <1>3, <1>4, SeqSame
  <1> QED BY <1>5 DEF e, d

-----------------------------------------------------------------------------
(* The invariant: the row spells what was read.                              *)

\* Operators on the stack wait for their last operand, and a conditional that
\* has another directly above it has its `then' part.
OpsTidy(ops) ==
  /\ \A i \in 1 .. Len(ops) : ops[i].expr.kids[IF ops[i].depth = CondLayer THEN 3 ELSE 2] = NoNode
  /\ \A i \in 1 .. Len(ops) - 1 :
       ops[i].depth = CondLayer /\ ops[i + 1].depth = CondLayer => ~Wants(ops[i])

Tidy(f) ==
  /\ IsSeq(f.ops)
  /\ f.fn = "expr" =>
       /\ OpsTidy(f.ops)
       /\ f.pc \in {"loop", "pop"} /\ f.ops # <<>> => f.expr.kind # "none"
       /\ f.pc = "pop" /\ StackIsOnDepth(f) => ~Wants(Last(f.ops))
       /\ f.pc = "right" => f.expr.kids[2] = NoNode
       /\ f.pc \in {"enter", "first"} => f.ops = <<>>
  /\ f.fn = "post" /\ f.pc \in {"loop", "call", "index"} => f.expr.kind # "none"

RetTidy(f) == f.fn \in {"expr", "unary"} /\ Waiting(f) => f.ret.kind # "none"

\* The row unfolds to leaves, and these are the words.
Spells(row, words) ==
  /\ \E r : Final(row, r)
  /\ \A r : Final(row, r) => Words(r) = words

NInv ==
  /\ \A i \in 1 .. Len(calls) : Tidy(calls[i])
  /\ RetTidy(Top)
  /\ Spells(Row, Words(Read(s)))
  /\ SkipBlank(s)
  /\ IsSeq(notes) /\ Notes(s, notes)
  /\ status = "done" => Top.fn = "parse" /\ Top.pc = "enter"

\* A step that reads what the leaves w stand for.
Wrote(w) ==
  /\ IsSeq(w) /\ Leaves(w) /\ SkipBlank(s')
  /\ Words(Read(s')) = Cat(Words(Read(s)), Words(w))
  /\ IsSeq(notes') /\ Notes(s', notes')
  /\ tolerant' = tolerant

LEMMA WroteReads ==
  ASSUME NInv, NEW w, Reads(s, s', w), Leaves(w), notes' = notes, tolerant' = tolerant
  PROVE  Wrote(w)
  BY DEF NInv, Wrote, Reads, Com

LEMMA CatUnder ==
  ASSUME NEW p, NEW q, NEW x, NEW y, NEW w, IsSeq(p), IsSeq(q), IsSeq(y), IsSeq(w), Same(x, Cat(y, w))
  PROVE  Same(Cat(p, Cat(q, x)), Cat(Cat(p, Cat(q, y)), w))
  <1>1. IsSeq(Cat(q, y)) /\ IsSeq(Cat(y, w)) /\ IsSeq(Cat(p, Cat(q, y)))
    BY CatIs
  <1>2. Cat(Cat(q, y), w) = Cat(q, Cat(y, w))
    BY CatAssoc
  <1>3. Cat(Cat(p, Cat(q, y)), w) = Cat(p, Cat(q, Cat(y, w)))
    BY <1>1, <1>2, CatAssoc
  <1>4. Same(p, p) /\ Same(q, q)
    BY SameIs
  <1>5. Same(Cat(q, x), Cat(q, Cat(y, w)))
    BY <1>4, SameCat
  <1>6. Same(Cat(p, Cat(q, x)), Cat(p, Cat(q, Cat(y, w))))
    BY <1>4, <1>5, SameCat
  <1> QED BY <1>3, <1>6

\* The row goes on with w.
LEMMA SpellsMore ==
  ASSUME NInv, NEW w, Wrote(w), IsSeq(Row), Same(Row', Cat(Row, w))
  PROVE  Spells(Row, Words(Read(s)))' /\ SkipBlank(s)' /\ (IsSeq(notes) /\ Notes(s, notes))'
  <1>1. tolerant' = tolerant /\ IsSeq(w) /\ Leaves(w)
    BY DEF Wrote
  <1>2. \A r : (Words(r))' = Words(r)
    BY <1>1 DEF Words
  <1>3. (Words(Read(s)))' = Words(Read(s'))
    BY <1>1 DEF Words
  <1>4. ASSUME NEW r, Final(Row', r) PROVE Words(r) = Words(Read(s'))
    <2>1. Final(Cat(Row, w), r)
      BY <1>4 DEF Same
    <2>2. PICK x, y : Final(Row, x) /\ Final(w, y) /\ r = Cat(x, y)
      BY <1>1, <2>1, FinalCat
    <2>3. y = w
      BY <1>1, <2>2, FinalLeaves
    <2>4. Words(x) = Words(Read(s))
      BY <2>2 DEF NInv, Spells
    <2>5. IsSeq(x)
      <3>1. PICK k \in Nat : Unfolded(Row)[k] = x
        BY <2>2 DEF Final
      <3> QED BY <3>1, UnfoldedSeq
    <2>6. Words(r) = Cat(Words(x), Words(w))
      BY <1>1, <2>2, <2>3, <2>5, WordsCat
    <2> QED BY <2>4, <2>6 DEF Wrote
  <1>5. \A r : Final(Row', r) => (Words(r))' = (Words(Read(s)))'
    BY <1>2, <1>3, <1>4
  <1>6. \E r : Final(Row', r)
    <2>1. PICK x : Final(Row, x)
      BY DEF NInv, Spells
    <2>2. Final(w, w)
      BY <1>1, FinalLeaves
    <2>3. Final(Cat(Row, w), Cat(x, w))
      BY <1>1, <2>1, <2>2, FinalCat
    <2> QED BY <2>3 DEF Same
  <1>7. Spells(Row, Words(Read(s)))'
    BY <1>5, <1>6 DEF Spells
  <1> QED BY <1>7 DEF Wrote

\* What the row is made of.
LEMMA SpineIs ==
  ASSUME Shape(calls), IsSeq(prog), \A i \in 1 .. Len(calls) : Tidy(calls[i])
  PROVE  /\ calls = Append(Front(calls), Top) /\ OpsSeq(Front(calls)) /\ IsSeq(CallsRow(Front(calls)))
         /\ IsSeq(FullRow(Top)) /\ IsSeq(FrameRow(Top)) /\ IsSeq(Row) /\ Tidy(Top) /\ IsSeq(Front(calls))
  <1>1. IsSeq(calls) /\ calls # <<>> /\ Top = calls[Len(calls)] /\ Len(calls) \in Nat /\ Len(calls) >= 1
    BY TopIs DEF Shape, IsSeq
  <1>2. /\ IsSeq(Front(calls)) /\ Len(Front(calls)) = Len(calls) - 1
        /\ calls = Append(Front(calls), Top)
    BY <1>1, SeqSplit DEF Top
  <1>3. \A i \in 1 .. Len(calls) - 1 : Front(calls)[i] = calls[i]
    BY <1>1, FrontIs DEF IsSeq
  <1>4. OpsSeq(Front(calls))
    <2>1. \A i \in 1 .. Len(calls) - 1 : IsSeq(calls[i].ops)
      <3>1. \A i \in 1 .. Len(calls) - 1 : i \in 1 .. Len(calls)
        BY <1>1
      <3> QED BY <3>1 DEF Tidy
    <2> QED BY <1>2, <1>3, <2>1 DEF OpsSeq
  <1>5. Tidy(Top)
    BY <1>1
  <1>6. IsSeq(Top.ops)
    BY <1>5 DEF Tidy
  <1>7. IsSeq(CallsRow(Front(calls)))
    BY <1>4, <1>6, CallsRowSnoc
  <1>8. IsSeq(FullRow(Top)) /\ IsSeq(FrameRow(Top))
    BY <1>6, FrameRowSeq
  <1>9. IsSeq(Row)
    BY <1>7, <1>8, CatIs DEF Row
  <1> QED BY <1>2, <1>4, <1>5, <1>7, <1>8, <1>9

LEMMA LastAppend ==
  ASSUME NEW c, NEW f, IsSeq(c)
  PROVE  Last(Append(c, f)) = f
  <1> DEFINE d == Append(c, f)
  <1>1. IsSeq(d) /\ Len(d) = Len(c) + 1 /\ d[Len(c) + 1] = f /\ Len(c) \in Nat
    <2>1. d = Longer(c, f)
      BY DEF Longer
    <2> HIDE DEF d
    <2> QED BY <2>1, LongerIs
  <1> HIDE DEF d
  <1>2. d # <<>>
    BY <1>1, SeqTuples
  <1>3. Last(d) = d[Len(d)]
    BY <1>1, <1>2, SeqIs DEF IsSeq
  <1> QED BY <1>1, <1>3 DEF d

LEMMA RowGoesOn ==
  ASSUME Shape(calls), IsSeq(prog), \A i \in 1 .. Len(calls) : Tidy(calls[i]),
         NEW g, GoesOn(g), prog' = prog, NEW w, IsSeq(w), Same(FullRow(g), Cat(FullRow(Top), w))
  PROVE  Same(Row', Cat(Row, w))
  <1> DEFINE b == Front(calls)
  <1>1. IsSeq(b) /\ IsSeq(CallsRow(b)) /\ IsSeq(FullRow(Top))
    BY SpineIs
  <1>2. calls' = Append(b, g)
    BY DEF GoesOn
  <1>3. Row' = Cat(prog', Cat(CallsRow(Front(calls')), FullRow(Last(calls'))))
    BY DEF Row, Top
  <1>4. Row = Cat(prog, Cat(CallsRow(b), FullRow(Top)))
    BY DEF Row
  <1> HIDE DEF b
  <1>5. Front(calls') = b /\ Last(calls') = g
    BY <1>1, <1>2, FrontAppend, LastAppend
  <1>6. Row' = Cat(prog, Cat(CallsRow(b), FullRow(g)))
    BY <1>3, <1>5
  <1> QED BY <1>1, <1>4, <1>6, CatUnder

LEMMA RowCall ==
  ASSUME Shape(calls), IsSeq(prog), \A i \in 1 .. Len(calls) : Tidy(calls[i]),
         NEW g, NEW pc, NEW fn \in {"expr", "unary", "post"}, Call(g, pc, fn), prog' = prog, NEW w, IsSeq(w),
         LET h == [g EXCEPT !.pc = pc] IN IsSeq(h.ops) /\ Same(FrameRow(h), Cat(FullRow(Top), w))
  PROVE  Same(Row', Cat(Row, w))
  <1> DEFINE b == Front(calls)
             h == [g EXCEPT !.pc = pc]
             e == Frame(fn)
             c == Append(b, h)
  <1>1. IsSeq(b) /\ OpsSeq(b) /\ IsSeq(CallsRow(b)) /\ IsSeq(FullRow(Top))
    BY SpineIs
  <1>2. calls' = b \o <<h, e>>
    BY DEF Call
  <1>3. Row' = Cat(prog', Cat(CallsRow(Front(calls')), FullRow(Last(calls'))))
    BY DEF Row, Top
  <1>4. Row = Cat(prog, Cat(CallsRow(b), FullRow(Top)))
    BY DEF Row
  <1>5. FullRow(e) = <<>>
    <2>1. e.fn = fn /\ e.pc = "enter" /\ e.ops = <<>>
      BY DEF Frame
    <2>2. OpsRow(<<>>) = <<>> /\ UnaryRow(<<>>) = <<>>
      BY OpsRowOne, UnaryRowOne
    <2> HIDE DEF e
    <2>3. ~Waiting(e)
      BY <2>1 DEF Waiting
    <2>4. FrameRow(e) = <<>>
      <3>1. CASE fn = "expr"
        BY <2>1, <2>2, <3>1 DEF FrameRow
      <3>2. CASE fn = "unary"
        BY <2>1, <2>2, <3>2 DEF FrameRow
      <3>3. CASE fn = "post"
        BY <2>1, <3>3 DEF FrameRow
      <3> QED BY <3>1, <3>2, <3>3
    <2> QED BY <2>3, <2>4 DEF FullRow
  <1>6. IsSeq(h.ops) /\ Same(FrameRow(h), Cat(FullRow(Top), w))
    OBVIOUS
  <1> HIDE DEF b, h, e
  <1>7. OpsSeq(c) /\ CallsRow(c) = Cat(CallsRow(b), FrameRow(h)) /\ IsSeq(c)
    BY <1>1, <1>6, CallsRowSnoc DEF OpsSeq
  <1>8. calls' = Append(c, e)
    <2>1. b \o <<h, e>> = Append(Append(b, h), e)
      <3>1. b \in Seq(ToSet(b))
        BY <1>1 DEF IsSeq
      <3> DEFINE F == ToSet(b) \cup {h, e}
      <3>2. b \in Seq(F) /\ h \in F /\ e \in F
        BY <3>1, SeqMonotonic
      <3> HIDE DEF F
      <3> QED BY <3>2
    <2> QED BY <1>2, <2>1
  <1> HIDE DEF c
  <1>9. Front(calls') = c /\ Last(calls') = e
    BY <1>7, <1>8, FrontAppend, LastAppend
  <1>10. Row' = Cat(prog, Cat(Cat(CallsRow(b), FrameRow(h)), <<>>))
    BY <1>3, <1>5, <1>7, <1>9
  <1>11. IsSeq(FrameRow(h))
    BY <1>6, FrameRowSeq
  <1>12. IsSeq(Cat(CallsRow(b), FrameRow(h)))
    BY <1>1, <1>11, CatIs
  <1>13. Cat(Cat(CallsRow(b), FrameRow(h)), <<>>) = Cat(CallsRow(b), FrameRow(h))
    BY <1>12, CatIs
  <1> QED BY <1>1, <1>4, <1>6, <1>10, <1>13, CatUnder

LEMMA RowReturn ==
  ASSUME Shape(calls), IsSeq(prog), \A i \in 1 .. Len(calls) : Tidy(calls[i]),
         NEW n, Return(n), Top.fn # "parse", prog' = prog, NEW w, IsSeq(w), Same(<<n>>, Cat(FullRow(Top), w))
  PROVE  Same(Row', Cat(Row, w))
  <1> DEFINE b == Front(calls)
             a == Front(b)
             f == Last(b)
             g == [f EXCEPT !.ret = n]
             x == FullRow(Top)
  <1>1. /\ IsSeq(b) /\ OpsSeq(b) /\ IsSeq(x)
        /\ calls = Append(b, Top)
    BY SpineIs
  <1>2. calls' = Append(a, g)
    BY DEF Return
  <1>3. Row' = Cat(prog', Cat(CallsRow(Front(calls')), FullRow(Last(calls'))))
    BY DEF Row, Top
  <1>4. Row = Cat(prog, Cat(CallsRow(b), x))
    BY DEF Row
  <1>5. Waits(f, Top) /\ IsFrame(f) /\ b # <<>> /\ IsSeq(f.ops)
    <2>1. /\ Waits(calls[Len(calls) - 1], Top) /\ IsFrame(calls[Len(calls) - 1]) /\ Len(calls) >= 2
      BY ReturnShape
    <2>2. calls # <<>> /\ IsSeq(calls) /\ Len(calls) \in Nat
      BY TopIs DEF Shape, IsSeq
    <2>3. Len(b) = Len(calls) - 1 /\ \A i \in 1 .. Len(calls) - 1 : b[i] = calls[i]
      BY <2>2, FrontIs DEF IsSeq
    <2> HIDE DEF b
    <2>4. b # <<>>
      BY <2>1, <2>2, <2>3, SeqTuples
    <2>5. Last(b) = b[Len(b)] /\ Len(b) \in Nat /\ Len(b) >= 1
      BY <1>1, <2>4, SeqIs DEF IsSeq
    <2>6. f = calls[Len(calls) - 1]
      <3>1. Len(calls) - 1 \in 1 .. Len(calls) - 1
        BY <2>1, <2>2
      <3> QED BY <2>3, <2>5, <3>1
    <2>7. IsSeq(f.ops)
      BY <1>1, <2>5 DEF OpsSeq
    <2> QED BY <2>1, <2>4, <2>6, <2>7
  <1>6. IsSeq(a) /\ b = Append(a, f) /\ Len(a) = Len(b) - 1 /\ Len(b) \in Nat
    BY <1>1, <1>5, SeqSplit
  <1> HIDE DEF a, b, f
  <1>7. OpsSeq(a)
    <2>1. \A i \in 1 .. Len(a) : b[i] = a[i]
      BY <1>6, SeqSnoc
    <2>2. \A i \in 1 .. Len(a) : i \in 1 .. Len(b)
      BY <1>6
    <2> QED BY <1>1, <1>6, <2>1, <2>2 DEF OpsSeq
  <1>8. CallsRow(b) = Cat(CallsRow(a), FrameRow(f)) /\ IsSeq(CallsRow(a)) /\ IsSeq(FrameRow(f))
    BY <1>5, <1>6, <1>7, CallsRowSnoc, FrameRowSeq
  <1>9. FullRow(g) = Append(FrameRow(f), n)
    <2>1. g.fn = f.fn /\ g.pc = f.pc /\ g.ops = f.ops /\ g.expr = f.expr /\ g.ret = n
      BY <1>5 DEF IsFrame
    <2> HIDE DEF g
    <2>2. FrameRow(g) = FrameRow(f)
      BY <2>1 DEF FrameRow
    <2>3. Waiting(g)
      BY <1>5, <2>1 DEF Waits, Waiting
    <2> QED BY <2>1, <2>2, <2>3 DEF FullRow
  <1> HIDE DEF g, x
  <1>10. Front(calls') = a /\ Last(calls') = g
    BY <1>2, <1>6, FrontAppend, LastAppend
  <1>11. Row' = Cat(prog, Cat(CallsRow(a), Append(FrameRow(f), n)))
    BY <1>3, <1>9, <1>10
  <1>12. Append(FrameRow(f), n) = Cat(FrameRow(f), <<n>>) /\ IsSeq(<<n>>)
    BY <1>8, SeqSnoc, SeqTuples DEF Cat
  <1>13. Cat(CallsRow(a), Cat(FrameRow(f), <<n>>)) = Cat(CallsRow(b), <<n>>)
    BY <1>8, <1>12, CatAssoc
  <1>14. Row' = Cat(prog, Cat(CallsRow(b), <<n>>)) /\ IsSeq(CallsRow(b))
    BY <1>8, <1>11, <1>12, <1>13, CatIs
  <1>15. Same(<<n>>, Cat(x, w))
    BY DEF x
  <1> QED BY <1>1, <1>4, <1>14, <1>15, CatUnder

-----------------------------------------------------------------------------
(* A function goes on, calls another or returns.                             *)

LEMMA TidySame ==
  ASSUME NEW f, NEW g, Tidy(f), g.fn = f.fn, g.pc = f.pc, g.ops = f.ops, g.expr = f.expr,
         g.depth = f.depth
  PROVE  Tidy(g)
  BY DEF Tidy, StackIsOnDepth

LEMMA TidyBegins ==
  ASSUME NEW fn
  PROVE  Tidy(Frame(fn)) /\ RetTidy(Frame(fn))
  <1> DEFINE f == Frame(fn)
  <1>1. f.fn = fn /\ f.pc = "enter" /\ f.ops = <<>>
    BY DEF Frame
  <1> HIDE DEF f
  <1>2. IsSeq(<<>>) /\ Len(<<>>) = 0
    BY SeqTuples
  <1>3. RetTidy(f)
    BY <1>1 DEF RetTidy, Waiting
  <1>4. Tidy(f)
    <2>1. 1 .. Len(f.ops) = {} /\ 1 .. Len(f.ops) - 1 = {}
      BY <1>1, <1>2
    <2> QED BY <1>1, <1>2, <2>1 DEF Tidy, OpsTidy
  <1> QED BY <1>3, <1>4 DEF f

LEMMA NGoesOn ==
  ASSUME SInv, NInv, NEW g, GoesOn(g), IsFrame(g), g.fn = Top.fn, Tidy(g), RetTidy(g), prog' = prog,
         status' # "done", NEW w, Wrote(w), Same(FullRow(g), Cat(FullRow(Top), w))
  PROVE  NInv'
  <1>1. Shape(calls) /\ IsSeq(prog) /\ (\A i \in 1 .. Len(calls) : Tidy(calls[i])) /\ IsSeq(w)
    BY DEF SInv, NInv, IsSeq, Wrote
  <1>2. IsSeq(Row) /\ Same(Row', Cat(Row, w))
    BY <1>1, SpineIs, RowGoesOn
  <1>3. Spells(Row, Words(Read(s)))' /\ SkipBlank(s)' /\ (IsSeq(notes) /\ Notes(s, notes))'
    BY <1>2, SpellsMore
  <1>4. /\ Len(calls') = Len(calls) /\ Top' = g /\ calls'[Len(calls)] = g
        /\ \A i \in 1 .. Len(calls) - 1 : calls'[i] = calls[i]
    BY <1>1, GoesOnShape
  <1>5. Len(calls) \in Nat
    BY <1>1, TopIs
  <1>6. ASSUME NEW i \in 1 .. Len(calls') PROVE Tidy(calls'[i])
    <2>1. CASE i = Len(calls)
      BY <1>4, <2>1
    <2>2. CASE i # Len(calls)
      <3>1. i \in 1 .. Len(calls) - 1 /\ i \in 1 .. Len(calls)
        BY <1>4, <1>5, <2>2
      <3> QED BY <1>1, <1>4, <3>1
    <2> QED BY <2>1, <2>2
  <1>7. RetTidy(Top')
    BY <1>4
  <1> QED BY <1>3, <1>6, <1>7 DEF NInv

LEMMA NCall ==
  ASSUME SInv, NInv, NEW f, NEW pc, NEW fn \in {"expr", "unary", "post"}, Call(f, pc, fn), IsFrame(f),
         f.fn = Top.fn, Waits([f EXCEPT !.pc = pc], Frame(fn)), Tidy([f EXCEPT !.pc = pc]), prog' = prog,
         status' # "done", NEW w, Wrote(w), Same(FrameRow([f EXCEPT !.pc = pc]), Cat(FullRow(Top), w))
  PROVE  NInv'
  <1> DEFINE g == [f EXCEPT !.pc = pc]
  <1>1. Shape(calls) /\ IsSeq(prog) /\ (\A i \in 1 .. Len(calls) : Tidy(calls[i])) /\ IsSeq(w)
    BY DEF SInv, NInv, IsSeq, Wrote
  <1>2. IsSeq(Row) /\ Same(Row', Cat(Row, w))
    <2>1. IsSeq(g.ops) /\ Same(FrameRow(g), Cat(FullRow(Top), w))
      BY DEF Tidy
    <2> QED BY <1>1, <2>1, SpineIs, RowCall
  <1>3. Spells(Row, Words(Read(s)))' /\ SkipBlank(s)' /\ (IsSeq(notes) /\ Notes(s, notes))'
    BY <1>2, SpellsMore
  <1>4. /\ Len(calls') = Len(calls) + 1 /\ Top' = Frame(fn) /\ calls'[Len(calls)] = g
        /\ calls'[Len(calls) + 1] = Frame(fn)
        /\ \A i \in 1 .. Len(calls) - 1 : calls'[i] = calls[i]
    BY <1>1, CallShape
  <1>5. Len(calls) \in Nat
    BY <1>1, TopIs
  <1>a. Tidy(g)
    OBVIOUS
  <1> HIDE DEF g
  <1>6. ASSUME NEW i \in 1 .. Len(calls') PROVE Tidy(calls'[i])
    <2>1. CASE i = Len(calls)
      BY <1>4, <1>a, <2>1
    <2>2. CASE i = Len(calls) + 1
      BY <1>4, <2>2, TidyBegins
    <2>3. CASE i # Len(calls) /\ i # Len(calls) + 1
      <3>1. i \in 1 .. Len(calls) - 1 /\ i \in 1 .. Len(calls)
        BY <1>4, <1>5, <2>3
      <3> QED BY <1>1, <1>4, <3>1
    <2> QED BY <2>1, <2>2, <2>3
  <1>7. RetTidy(Top')
    BY <1>4, TidyBegins
  <1> QED BY <1>3, <1>6, <1>7 DEF NInv

LEMMA NReturn ==
  ASSUME SInv, NInv, NEW n, Return(n), Top.fn # "parse", prog' = prog, status' # "done", NEW w, Wrote(w),
         Same(<<n>>, Cat(FullRow(Top), w)), Top.fn \in {"unary", "post"} => n.kind # "none"
  PROVE  NInv'
  <1> DEFINE f == calls[Len(calls) - 1]
             g == [f EXCEPT !.ret = n]
  <1>1. Shape(calls) /\ IsSeq(prog) /\ (\A i \in 1 .. Len(calls) : Tidy(calls[i])) /\ IsSeq(w)
    BY DEF SInv, NInv, IsSeq, Wrote
  <1>2. IsSeq(Row) /\ Same(Row', Cat(Row, w))
    BY <1>1, SpineIs, RowReturn
  <1>3. Spells(Row, Words(Read(s)))' /\ SkipBlank(s)' /\ (IsSeq(notes) /\ Notes(s, notes))'
    BY <1>2, SpellsMore
  <1>4. /\ Len(calls) >= 2 /\ Len(calls') = Len(calls) - 1 /\ Waits(f, Top) /\ IsFrame(f)
        /\ Top' = g /\ calls'[Len(calls) - 1] = g
        /\ \A i \in 1 .. Len(calls) - 2 : calls'[i] = calls[i]
    BY <1>1, ReturnShape
  <1>5. Len(calls) \in Nat
    BY <1>1, TopIs
  <1>6. Tidy(f)
    <2>1. Len(calls) - 1 \in 1 .. Len(calls)
      BY <1>4, <1>5
    <2> QED BY <1>1, <2>1
  <1> HIDE DEF f
  <1>7. g.fn = f.fn /\ g.pc = f.pc /\ g.ops = f.ops /\ g.expr = f.expr /\ g.depth = f.depth /\ g.ret = n
    BY <1>4 DEF IsFrame
  <1> HIDE DEF g
  <1>8. Tidy(g) /\ RetTidy(g)
    <2>1. Tidy(g)
      BY <1>6, <1>7, TidySame
    <2>2. RetTidy(g)
      BY <1>4, <1>7 DEF RetTidy, Waits
    <2> QED BY <2>1, <2>2
  <1>9. ASSUME NEW i \in 1 .. Len(calls') PROVE Tidy(calls'[i])
    <2>1. CASE i = Len(calls) - 1
      BY <1>4, <1>8, <2>1
    <2>2. CASE i # Len(calls) - 1
      <3>1. i \in 1 .. Len(calls) - 2 /\ i \in 1 .. Len(calls)
        BY <1>4, <1>5, <2>2
      <3> QED BY <1>1, <1>4, <3>1
    <2> QED BY <2>1, <2>2
  <1>10. RetTidy(Top')
    BY <1>4, <1>8
  <1> QED BY <1>3, <1>9, <1>10 DEF NInv

\* Only the status changes.
LEMMA NStays ==
  ASSUME NInv, UNCHANGED <<s, tolerant, calls, prog, notes>>, 
         status' = "done" => status = "done" \/ At("parse", "enter")
  PROVE  NInv'
  <1>1. Top' = Top /\ Row' = Row /\ (Words(Read(s)))' = Words(Read(s))
    BY DEF Top, Row, Words
  <1>2. \A r : (Words(r))' = Words(r)
    BY DEF Words
  <1>3. Spells(Row, Words(Read(s)))'
    BY <1>1, <1>2 DEF NInv, Spells
  <1>4. (status = "done" => Top.fn = "parse" /\ Top.pc = "enter")'
    BY <1>1 DEF NInv, At
  <1> QED BY <1>1, <1>3, <1>4 DEF NInv

-----------------------------------------------------------------------------
(* What nodes stand for, and the rows of the frames.                         *)

LEMMA CatSnoc ==
  ASSUME NEW a, NEW x, NEW z, IsSeq(a), IsSeq(z), Len(z) = Len(a) + 1, z[Len(a) + 1] = x,
         \A i \in 1 .. Len(a) : a[i] = z[i]
  PROVE  Cat(a, <<x>>) = z
  <1> DEFINE c == Append(a, x)
  <1>1. /\ IsSeq(c) /\ c = Cat(a, <<x>>) /\ Len(c) = Len(a) + 1 /\ c[Len(a) + 1] = x
        /\ \A i \in 1 .. Len(a) : c[i] = a[i]
    <2>1. c = Longer(a, x)
      BY DEF Longer
    <2>2. c = Cat(a, <<x>>)
      BY SeqSnoc DEF Cat
    <2> HIDE DEF c
    <2>3. /\ IsSeq(c) /\ Len(c) = Len(a) + 1 /\ c[Len(a) + 1] = x
          /\ \A i \in 1 .. Len(a) : c[i] = a[i]
      BY <2>1, LongerIs
    <2> QED BY <2>2, <2>3
  <1>2. Len(a) \in Nat
    BY SeqLen
  <1> HIDE DEF c
  <1>3. \A i \in 1 .. Len(c) : i \in 1 .. Len(a) \/ i = Len(a) + 1
    BY <1>1, <1>2
  <1>4. \A i \in 1 .. Len(c) : c[i] = z[i]
    BY <1>1, <1>3
  <1>5. c = z
    BY <1>1, <1>4, SeqSame
  <1> QED BY <1>1, <1>5

LEMMA CatTuples ==
  /\ \A a, b : Cat(<<a>>, <<b>>) = <<a, b>>
  /\ \A a, b, c : Cat(<<a, b>>, <<c>>) = <<a, b, c>> /\ Cat(<<a>>, <<b, c>>) = <<a, b, c>>
  /\ \A a, b, c, d : Cat(<<a, b, c>>, <<d>>) = <<a, b, c, d>> /\ Cat(<<a, b>>, <<c, d>>) = <<a, b, c, d>>
  /\ \A a, b, c, d, e : Cat(<<a, b, c, d>>, <<e>>) = <<a, b, c, d, e>>
  <1>1. ASSUME NEW a, NEW b PROVE Cat(<<a>>, <<b>>) = <<a, b>>
    <2> DEFINE y == <<a>>
               z == <<a, b>>
    <2>1. IsSeq(y) /\ IsSeq(z)
      BY SeqTuples
    <2>2. Len(y) = 1 /\ Len(z) = 2 /\ z[2] = b
      OBVIOUS
    <2>3. y[1] = z[1]
      OBVIOUS
    <2> HIDE DEF y, z
    <2>4. \A i \in 1 .. 1 : i = 1
      OBVIOUS
    <2>5. \A i \in 1 .. 1 : y[i] = z[i]
      BY <2>3, <2>4
    <2>6. Len(z) = Len(y) + 1 /\ Len(y) + 1 = 2
      BY <2>2
    <2>7. Cat(y, <<b>>) = z
      BY <2>1, <2>2, <2>5, <2>6, CatSnoc
    <2> QED BY <2>7 DEF y, z
  <1>2. ASSUME NEW a, NEW b, NEW c PROVE Cat(<<a, b>>, <<c>>) = <<a, b, c>>
    <2> DEFINE y == <<a, b>>
               z == <<a, b, c>>
    <2>1. IsSeq(y) /\ IsSeq(z)
      BY SeqTuples
    <2>2. Len(y) = 2 /\ Len(z) = 3 /\ z[3] = c
      OBVIOUS
    <2>3. y[1] = z[1] /\ y[2] = z[2]
      OBVIOUS
    <2> HIDE DEF y, z
    <2>4. \A i \in 1 .. 2 : i = 1 \/ i = 2
      OBVIOUS
    <2>5. \A i \in 1 .. 2 : y[i] = z[i]
      BY <2>3, <2>4
    <2>6. Len(z) = Len(y) + 1 /\ Len(y) + 1 = 3
      BY <2>2
    <2>7. Cat(y, <<c>>) = z
      BY <2>1, <2>2, <2>5, <2>6, CatSnoc
    <2> QED BY <2>7 DEF y, z
  <1>3. ASSUME NEW a, NEW b, NEW c, NEW d PROVE Cat(<<a, b, c>>, <<d>>) = <<a, b, c, d>>
    <2> DEFINE y == <<a, b, c>>
               z == <<a, b, c, d>>
    <2>1. IsSeq(y) /\ IsSeq(z)
      BY SeqTuples
    <2>2. Len(y) = 3 /\ Len(z) = 4 /\ z[4] = d
      OBVIOUS
    <2>3. y[1] = z[1] /\ y[2] = z[2] /\ y[3] = z[3]
      OBVIOUS
    <2> HIDE DEF y, z
    <2>4. \A i \in 1 .. 3 : i = 1 \/ i = 2 \/ i = 3
      OBVIOUS
    <2>5. \A i \in 1 .. 3 : y[i] = z[i]
      BY <2>3, <2>4
    <2>6. Len(z) = Len(y) + 1 /\ Len(y) + 1 = 4
      BY <2>2
    <2>7. Cat(y, <<d>>) = z
      BY <2>1, <2>2, <2>5, <2>6, CatSnoc
    <2> QED BY <2>7 DEF y, z
  <1>4. ASSUME NEW a, NEW b, NEW c, NEW d, NEW e PROVE Cat(<<a, b, c, d>>, <<e>>) = <<a, b, c, d, e>>
    <2> DEFINE y == <<a, b, c, d>>
               z == <<a, b, c, d, e>>
    <2>1. IsSeq(y) /\ IsSeq(z)
      BY SeqTuples
    <2>2. Len(y) = 4 /\ Len(z) = 5 /\ z[5] = e
      OBVIOUS
    <2>3. y[1] = z[1] /\ y[2] = z[2] /\ y[3] = z[3] /\ y[4] = z[4]
      OBVIOUS
    <2> HIDE DEF y, z
    <2>4. \A i \in 1 .. 4 : i = 1 \/ i = 2 \/ i = 3 \/ i = 4
      OBVIOUS
    <2>5. \A i \in 1 .. 4 : y[i] = z[i]
      BY <2>3, <2>4
    <2>6. Len(z) = Len(y) + 1 /\ Len(y) + 1 = 5
      BY <2>2
    <2>7. Cat(y, <<e>>) = z
      BY <2>1, <2>2, <2>5, <2>6, CatSnoc
    <2> QED BY <2>7 DEF y, z
  <1>5. ASSUME NEW a, NEW b, NEW c PROVE Cat(<<a>>, <<b, c>>) = <<a, b, c>>
    <2>1. IsSeq(<<a>>) /\ IsSeq(<<b>>) /\ IsSeq(<<c>>)
      BY SeqTuples
    <2>2. Cat(<<a>>, Cat(<<b>>, <<c>>)) = Cat(Cat(<<a>>, <<b>>), <<c>>)
      BY <2>1, CatAssoc
    <2> QED BY <1>1, <1>2, <2>2
  <1>6. ASSUME NEW a, NEW b, NEW c, NEW d PROVE Cat(<<a, b>>, <<c, d>>) = <<a, b, c, d>>
    <2>1. IsSeq(<<a, b>>) /\ IsSeq(<<c>>) /\ IsSeq(<<d>>)
      BY SeqTuples
    <2>2. Cat(<<a, b>>, Cat(<<c>>, <<d>>)) = Cat(Cat(<<a, b>>, <<c>>), <<d>>)
      BY <2>1, CatAssoc
    <2> QED BY <1>1, <1>2, <1>3, <2>2
  <1> QED BY <1>1, <1>2, <1>3, <1>4, <1>5, <1>6

LEMMA SameNothing == Same(<<NoNode>>, <<>>) /\ Same(<<BadExpr>>, <<>>)
  <1>1. Parts(NoNode) = <<>> /\ Parts(BadExpr) = <<>>
    BY NodeIs DEF Parts, NoNode, BadExpr
  <1> QED BY <1>1, SameParts

\* A missing child stands for nothing.
LEMMA SameDrops ==
  ASSUME NEW a, IsSeq(a)
  PROVE  Same(Cat(a, <<NoNode>>), a) /\ Same(Cat(a, <<BadExpr>>), a)
  <1>1. Same(a, a) /\ Cat(a, <<>>) = a
    BY SameIs, CatIs, SeqTuples
  <1> QED BY <1>1, SameNothing, SameCat

LEMMA SameBinary ==
  ASSUME NEW k \in {"binary", "range"}, NEW op, NEW a
  PROVE  /\ Same(<<Node(k, op, <<a, NoNode>>)>>, <<a, Tok(op)>>)
         /\ \A b : Same(<<Node(k, op, <<a, b>>)>>, <<Node(k, op, <<a, NoNode>>), b>>)
  <1> DEFINE N(b) == Node(k, op, <<a, b>>)
  <1>1. ASSUME NEW b PROVE Same(<<N(b)>>, <<a, Tok(op), b>>)
    <2>1. N(b).kind = k /\ N(b).text = op /\ N(b).kids = <<a, b>>
      BY NodeIs
    <2> HIDE DEF N
    <2>2. Parts(N(b)) = <<a, Tok(op), b>>
      BY <2>1 DEF Parts
    <2> QED BY <2>2, SameParts
  <1> HIDE DEF N
  <1>2. IsSeq(<<a, Tok(op)>>) /\ <<a, Tok(op), NoNode>> = Cat(<<a, Tok(op)>>, <<NoNode>>)
    BY CatTuples, SeqTuples
  <1>3. Same(<<N(NoNode)>>, <<a, Tok(op)>>)
    BY <1>1, <1>2, SameDrops, SameIs
  <1>4. ASSUME NEW b PROVE Same(<<N(b)>>, <<N(NoNode), b>>)
    <2>1. Same(<<b>>, <<b>>)
      BY SameIs, SeqTuples
    <2>2. Same(Cat(<<N(NoNode)>>, <<b>>), Cat(<<a, Tok(op)>>, <<b>>))
      BY <1>3, <2>1, SameCat
    <2>3. Same(<<N(NoNode), b>>, <<a, Tok(op), b>>)
      BY <2>2, CatTuples
    <2> QED BY <1>1, <2>3, SameIs
  <1> QED BY <1>3, <1>4 DEF N

LEMMA SameCond ==
  ASSUME NEW t, NEW c, NEW a
  PROVE  /\ Same(<<Node("cond", t, <<c, a, NoNode>>)>>, <<c, Tok("?"), a, Tok(":")>>)
         /\ \A b : Same(<<Node("cond", t, <<c, a, b>>)>>, <<Node("cond", t, <<c, a, NoNode>>), b>>)
  <1> DEFINE N(b) == Node("cond", t, <<c, a, b>>)
             r == <<c, Tok("?"), a, Tok(":")>>
  <1>1. ASSUME NEW b PROVE Same(<<N(b)>>, Cat(r, <<b>>))
    <2>1. N(b).kind = "cond" /\ N(b).kids = <<c, a, b>>
      BY NodeIs
    <2> HIDE DEF N
    <2>2. Parts(N(b)) = <<c, Tok("?"), a, Tok(":"), b>>
      BY <2>1 DEF Parts
    <2> QED BY <2>2, SameParts, CatTuples
  <1>2. IsSeq(r)
    BY SeqTuples
  <1> HIDE DEF N, r
  <1>3. Same(<<N(NoNode)>>, r)
    BY <1>1, <1>2, SameDrops, SameIs
  <1>4. ASSUME NEW b PROVE Same(<<N(b)>>, <<N(NoNode), b>>)
    <2>1. Same(<<b>>, <<b>>)
      BY SameIs, SeqTuples
    <2>2. Same(Cat(<<N(NoNode)>>, <<b>>), Cat(r, <<b>>))
      BY <1>3, <2>1, SameCat
    <2>3. Same(<<N(NoNode), b>>, Cat(r, <<b>>))
      BY <2>2, CatTuples
    <2> QED BY <1>1, <2>3, SameIs
  <1> QED BY <1>3, <1>4 DEF N, r

LEMMA SamePost ==
  /\ \A op, a : Same(<<Node("unary", op, <<a>>)>>, <<Tok(op), a>>)
  /\ \A a : Same(<<Node("paren", "(", <<a>>)>>, <<Tok("("), a, Tok(")")>>)
  /\ \A a, b : Same(<<Node("index", "[", <<a, b>>)>>, <<a, Tok("["), b, Tok("]")>>)
  /\ \A a : Same(<<Node("call", "(", <<a>>)>>, <<a, Tok("("), Tok(")")>>)
  /\ \A a, b : Same(<<Node("call", "(", <<a, b>>)>>, <<a, Tok("("), b, Tok(")")>>)
  /\ \A a, b : Same(<<Node("dot", ".", <<a, b>>)>>, <<a, Tok("."), b>>)
  <1>1. ASSUME NEW op, NEW a PROVE Same(<<Node("unary", op, <<a>>)>>, <<Tok(op), a>>)
    <2>1. Parts(Node("unary", op, <<a>>)) = <<Tok(op), a>>
      BY NodeIs DEF Parts
    <2> QED BY <2>1, SameParts
  <1>2. ASSUME NEW a PROVE Same(<<Node("paren", "(", <<a>>)>>, <<Tok("("), a, Tok(")")>>)
    <2>1. Parts(Node("paren", "(", <<a>>)) = <<Tok("("), a, Tok(")")>>
      BY NodeIs DEF Parts
    <2> QED BY <2>1, SameParts
  <1>3. ASSUME NEW a, NEW b PROVE Same(<<Node("index", "[", <<a, b>>)>>, <<a, Tok("["), b, Tok("]")>>)
    <2>1. Parts(Node("index", "[", <<a, b>>)) = <<a, Tok("["), b, Tok("]")>>
      BY NodeIs DEF Parts
    <2> QED BY <2>1, SameParts
  <1>4. ASSUME NEW a PROVE Same(<<Node("call", "(", <<a>>)>>, <<a, Tok("("), Tok(")")>>)
    <2>1. Parts(Node("call", "(", <<a>>)) = <<a, Tok("("), Tok(")")>>
      BY NodeIs DEF Parts
    <2> QED BY <2>1, SameParts
  <1>5. ASSUME NEW a, NEW b PROVE Same(<<Node("call", "(", <<a, b>>)>>, <<a, Tok("("), b, Tok(")")>>)
    <2>1. Parts(Node("call", "(", <<a, b>>)) = <<a, Tok("("), b, Tok(")")>>
      BY NodeIs DEF Parts
    <2> QED BY <2>1, SameParts
  <1>6. ASSUME NEW a, NEW b PROVE Same(<<Node("dot", ".", <<a, b>>)>>, <<a, Tok("."), b>>)
    <2>1. Parts(Node("dot", ".", <<a, b>>)) = <<a, Tok("."), b>>
      BY NodeIs DEF Parts
    <2> QED BY <2>1, SameParts
  <1> QED BY <1>1, <1>2, <1>3, <1>4, <1>5, <1>6

LEMMA RowOf ==
  ASSUME NEW f, IsSeq(f.ops)
  PROVE  LET a == OpsRow(f.ops)
             b == UnaryRow(f.ops)
         IN  /\ IsSeq(a) /\ IsSeq(b) /\ IsSeq(FrameRow(f)) /\ IsSeq(FullRow(f))
             /\ f.fn = "parse" => FullRow(f) = IF f.pc = "statement" THEN <<f.ret>> ELSE <<>>
             /\ f.fn = "parse" => FrameRow(f) = <<>>
             /\ f.fn = "expr" /\ f.pc = "enter" => FullRow(f) = a
             /\ f.fn = "expr" /\ f.pc \in {"loop", "pop"} => FullRow(f) = Cat(a, <<f.expr>>)
             /\ f.fn = "expr" /\ f.pc = "right" =>
                  FrameRow(f) = Cat(a, <<f.expr>>) /\ FullRow(f) = Cat(Cat(a, <<f.expr>>), <<f.ret>>)
             /\ f.fn = "expr" /\ f.pc \in {"first", "low"} =>
                  FrameRow(f) = a /\ FullRow(f) = Cat(a, <<f.ret>>)
             /\ f.fn = "unary" => FrameRow(f) = b
             /\ f.fn = "unary" => FullRow(f) = IF f.pc = "target" THEN Cat(b, <<f.ret>>) ELSE b
             /\ f.fn = "post" /\ f.pc = "enter" => FullRow(f) = <<>>
             /\ f.fn = "post" /\ f.pc = "loop" => FullRow(f) = <<f.expr>>
             /\ f.fn = "post" /\ f.pc = "paren" =>
                  FrameRow(f) = <<Tok("(")>> /\ FullRow(f) = <<Tok("("), f.ret>>
             /\ f.fn = "post" /\ f.pc = "call" =>
                  FrameRow(f) = <<f.expr, Tok("(")>> /\ FullRow(f) = <<f.expr, Tok("("), f.ret>>
             /\ f.fn = "post" /\ f.pc = "index" =>
                  FrameRow(f) = <<f.expr, Tok("[")>> /\ FullRow(f) = <<f.expr, Tok("["), f.ret>>
  <1> DEFINE a == OpsRow(f.ops)
             b == UnaryRow(f.ops)
  <1>1. IsSeq(a) /\ IsSeq(b) /\ IsSeq(FrameRow(f)) /\ IsSeq(FullRow(f))
    BY FrameRowSeq, OpsRowCat, UnaryRowCat
  <1>2. \A c, x : IsSeq(c) => Append(c, x) = Cat(c, <<x>>)
    BY SeqSnoc DEF Cat
  <1>3. \A x : Cat(<<>>, <<x>>) = <<x>>
    BY CatIs, SeqTuples
  <1>4. FullRow(f) = IF Waiting(f) THEN Cat(FrameRow(f), <<f.ret>>) ELSE FrameRow(f)
    BY <1>1, <1>2 DEF FullRow
  <1>5. CASE f.fn = "parse"
    <2>1. FrameRow(f) = <<>>
      BY <1>5 DEF FrameRow
    <2>2. FullRow(f) = IF f.pc = "statement" THEN <<f.ret>> ELSE <<>>
      BY <1>3, <1>4, <1>5, <2>1 DEF Waiting
    <2> QED BY <1>1, <1>5, <2>1, <2>2
  <1>6. CASE f.fn = "expr"
    <2>1. FrameRow(f) = IF f.pc \in {"loop", "pop", "right"} THEN Cat(a, <<f.expr>>) ELSE a
      BY <1>1, <1>2, <1>6 DEF FrameRow
    <2>2. Waiting(f) <=> f.pc \in {"first", "low", "right"}
      BY <1>6 DEF Waiting
    <2> HIDE DEF a, b
    <2> QED BY <1>1, <1>4, <1>6, <2>1, <2>2 DEF a, b
  <1>7. CASE f.fn = "unary"
    <2>1. FrameRow(f) = b
      BY <1>7 DEF FrameRow
    <2>2. FullRow(f) = IF f.pc = "target" THEN Cat(b, <<f.ret>>) ELSE b
      BY <1>4, <1>7, <2>1 DEF Waiting
    <2> QED BY <1>1, <1>7, <2>1, <2>2
  <1>8. CASE f.fn = "post"
    <2>1. Waiting(f) <=> f.pc \in {"paren", "call", "index"}
      BY <1>8 DEF Waiting
    <2>2. FrameRow(f) = CASE f.pc = "loop"  -> <<f.expr>>
                           [] f.pc = "paren" -> <<Tok("(")>>
                           [] f.pc = "call"  -> <<f.expr, Tok("(")>>
                           [] f.pc = "index" -> <<f.expr, Tok("[")>>
                           [] OTHER          -> <<>>
      BY <1>8 DEF FrameRow
    <2>3. f.pc = "enter" => FullRow(f) = <<>>
      BY <1>4, <2>1, <2>2
    <2>4. f.pc = "loop" => FullRow(f) = <<f.expr>>
      BY <1>4, <2>1, <2>2
    <2>5. f.pc = "paren" => FrameRow(f) = <<Tok("(")>> /\ FullRow(f) = <<Tok("("), f.ret>>
      BY <1>4, <2>1, <2>2, CatTuples
    <2>6. f.pc = "call" => FrameRow(f) = <<f.expr, Tok("(")>> /\ FullRow(f) = <<f.expr, Tok("("), f.ret>>
      BY <1>4, <2>1, <2>2, CatTuples
    <2>7. f.pc = "index" => FrameRow(f) = <<f.expr, Tok("[")>> /\ FullRow(f) = <<f.expr, Tok("["), f.ret>>
      BY <1>4, <2>1, <2>2, CatTuples
    <2> QED BY <1>1, <1>8, <2>3, <2>4, <2>5, <2>6, <2>7
  <1>9. CASE f.fn \notin {"parse", "expr", "unary", "post"}
    BY <1>1, <1>9
  <1> QED BY <1>5, <1>6, <1>7, <1>8, <1>9

-----------------------------------------------------------------------------
(* Every step reads what its row goes on with.                               *)

LEMMA TokLeaves ==
  /\ Leaves(<<>>)
  /\ \A x : Leaves(<<Tok(x)>>)
  /\ \A x, y : Leaves(<<Tok(x), Tok(y)>>)
  <1>1. \A x : Tok(x).kind = "leaf"
    BY NodeIs DEF Tok
  <1>2. ASSUME NEW x PROVE Leaves(<<Tok(x)>>)
    <2>1. \A i \in DOMAIN <<Tok(x)>> : i = 1
      OBVIOUS
    <2> QED BY <1>1, <2>1 DEF Leaves
  <1>3. ASSUME NEW x, NEW y PROVE Leaves(<<Tok(x), Tok(y)>>)
    <2>1. \A i \in DOMAIN <<Tok(x), Tok(y)>> : i = 1 \/ i = 2
      OBVIOUS
    <2> QED BY <1>1, <2>1 DEF Leaves
  <1>4. Leaves(<<>>)
    BY DEF Leaves
  <1> QED BY <1>2, <1>3, <1>4

LEMMA NTop ==
  ASSUME SInv, NInv
  PROVE  /\ Shape(calls) /\ IsFrame(Top) /\ IsSeq(Top.ops) /\ Tidy(Top) /\ RetTidy(Top) /\ IsSeq(prog)
         /\ StreamOK(s) /\ Reads(s, s, <<>>) /\ IsSeq(<<>>)
         /\ IsSeq(FullRow(Top)) /\ Same(FullRow(Top), Cat(FullRow(Top), <<>>))
  <1>1. /\ Shape(calls) /\ IsSeq(prog) /\ StreamOK(s) /\ SkipBlank(s) /\ RetTidy(Top)
        /\ \A i \in 1 .. Len(calls) : Tidy(calls[i])
    BY DEF SInv, NInv, IsSeq
  <1>2. IsFrame(Top) /\ Tidy(Top) /\ IsSeq(FullRow(Top))
    BY <1>1, TopIs, SpineIs
  <1>3. IsSeq(Top.ops)
    BY <1>2 DEF Tidy
  <1>4. Cat(FullRow(Top), <<>>) = FullRow(Top) /\ IsSeq(<<>>)
    BY <1>2, CatIs, SeqTuples
  <1> QED BY <1>1, <1>2, <1>3, <1>4, SameIs, ReadsSelf

\* Steps that read nothing, and those that read one token.
LEMMA NReads ==
  ASSUME SInv, NInv, notes' = notes, tolerant' = tolerant
  PROVE  /\ Reads(s, s', <<>>) => Wrote(<<>>)
         /\ \A x : Reads(s, s', <<Tok(x)>>) => Wrote(<<Tok(x)>>)
         /\ \A x, y : Reads(s, s', <<Tok(x), Tok(y)>>) => Wrote(<<Tok(x), Tok(y)>>)
  BY WroteReads, TokLeaves

\* After one token.
LEMMA ReadsToken ==
  ASSUME NEW t, NEW u, NEW w, StreamOK(t), Reads(t, u, w), ~Eos(u), Cur(u).tag \notin Blank
  PROVE  Reads(t, Consume(u), Cat(w, <<Tok(Cur(u).text)>>))
  BY ReadsMore

LEMMA NEnds ==
  ASSUME NInv, Throw \/ InType
  PROVE  NInv'
  BY NStays DEF Throw, InType

LEMMA ParseStatementN ==
  ASSUME SInv, NInv, ParseStatement
  PROVE  NInv'
  <1>0. /\ Shape(calls) /\ IsFrame(Top) /\ IsSeq(Top.ops) /\ IsSeq(prog)
        /\ StreamOK(s) /\ Reads(s, s, <<>>) /\ IsSeq(<<>>)
        /\ Same(FullRow(Top), Cat(FullRow(Top), <<>>))
    BY NTop
  <1>1. CASE ProgramEnds
    BY <1>1, NStays DEF ProgramEnds
  <1>2. CASE StatementBegins
    <2>1. CASE Expect(s, ":")
      BY <1>2, <2>1, NEnds DEF StatementBegins
    <2>2. CASE ~Expect(s, ":")
      <3> DEFINE m == MaybeParse(s)
                 f == [Top EXCEPT !.pc = "statement"]
      <3>1. /\ Top.fn = "parse" /\ Top.pc = "enter" /\ status' # "done" /\ prog' = prog /\ tolerant' = tolerant
            /\ notes' = notes \o m.comments /\ s' = ClearComments(m) /\ Call(Top, "statement", "expr")
        BY <1>2, <2>2 DEF StatementBegins, At
      <3>2. Reads(s, m, <<>>)
        BY <1>0, ReadsMore
      <3> HIDE DEF m
      <3>3. StreamOK(m) /\ SkipBlank(m) /\ IsSeq(m.comments) /\ Notes(m, notes) /\ IsSeq(notes)
        <4>1. StreamOK(m) /\ SkipBlank(m) /\ Com(s, m)
          BY <3>2 DEF Reads
        <4> QED BY <4>1, TokensSeq DEF NInv, Com
      <3>4. s'.comments = <<>> /\ s'.tokens = m.tokens /\ s'.cur = m.cur /\ s'.lastSkip = m.lastSkip
        BY <3>1, <3>3 DEF ClearComments, StreamOK, Streams
      <3>5. IsSeq(notes') /\ Notes(s', notes')
        <4>1. notes' = Cat(notes, m.comments)
          BY <3>1 DEF Cat
        <4>2. IsSeq(notes') /\ Cat(notes', <<>>) = notes'
          BY <3>3, <4>1, CatIs, <1>0
        <4> QED BY <3>3, <3>4, <4>1, <4>2 DEF Notes
      <3>6. Wrote(<<>>)
        <4>1. SkipBlank(s') /\ Read(s') = Read(m)
          BY <3>3, <3>4 DEF SkipBlank, Read
        <4> QED BY <1>0, <3>1, <3>2, <3>5, <4>1, TokLeaves DEF Wrote, Reads
      <3>7. f.fn = "parse" /\ f.pc = "statement" /\ f.ops = Top.ops
        BY <3>1, <1>0 DEF IsFrame
      <3> HIDE DEF f
      <3>8. Waits(f, Frame("expr")) /\ Tidy(f)
        BY <1>0, <3>7, FrameIs DEF Waits, Tidy
      <3>9. FrameRow(f) = <<>> /\ FullRow(Top) = <<>>
        BY <1>0, <3>1, <3>7, RowOf
      <3> QED BY <1>0, <3>1, <3>6, <3>8, <3>9, NCall DEF f
    <2> QED BY <2>1, <2>2
  <1>3. CASE StatementEnds
    <2> DEFINE isIdent == Top.ret.kind = "leaf" /\ Top.ret.text = Word
               t == IF isIdent THEN SkipSpace(s) ELSE s
    <2>1. CASE isIdent /\ Expect(t, ":")
      BY <1>3, <2>1, NEnds DEF StatementEnds
    <2>2. CASE ~(isIdent /\ Expect(t, ":"))
      <3> DEFINE u == SkipSpaceComment(t)
                 v == SkipLast(t)
                 g == [Top EXCEPT !.pc = "shrunk"]
      <3>1. /\ Top.fn = "parse" /\ Top.pc = "statement" /\ status' # "done" /\ notes' = notes /\ tolerant' = tolerant
            /\ prog' = Append(prog, Top.ret) /\ s' = Shrink(v) /\ GoesOn(g)
        BY <1>3, <2>2 DEF StatementEnds, At
      <3>2. ~At("parse", "shrunk") /\ On(s, s)
        <4>1. ~At("parse", "shrunk")
          BY <3>1 DEF At
        <4> QED BY <4>1, OnS
      <3>3. Reads(s, t, <<>>) /\ On(s, t)
        BY <1>0, <3>2, ReadsMore, OnMore
      <3> HIDE DEF t
      <3>4. Reads(s, u, <<>>) /\ On(s, u)
        BY <1>0, <3>3, ReadsMore, OnMore
      <3>5. v = IF ExpectTag(u, {"line"}) THEN SkipLine(Consume(u)) ELSE u
        BY DEF SkipLast
      <3> HIDE DEF u, v
      <3>6. Reads(s, v, <<>>) /\ On(s, v)
        <4>1. CASE ExpectTag(u, {"line"})
          <5>1. ~Eos(u) /\ Cur(u).tag \in Blank
            BY <4>1 DEF ExpectTag, Blank
          <5>2. Reads(s, Consume(u), <<>>) /\ On(s, Consume(u))
            BY <1>0, <3>4, <5>1, ReadsMore, OnMore
          <5> QED BY <1>0, <3>5, <4>1, <5>2, ReadsMore, OnMore
        <4> QED BY <3>4, <3>5, <4>1
      <3>7. RankOK(v)
        BY <3>6, SkipRank DEF On
      <3>8. Wrote(<<>>)
        BY <1>0, <3>1, <3>6, <3>7, ReadsMore, NReads
      <3>9. Len(calls) = 1
        BY <3>1, NotFreshTop
      <3>10. g.fn = "parse" /\ g.pc = "shrunk" /\ g.ops = Top.ops /\ IsFrame(g)
        BY <3>1, <1>0 DEF IsFrame
      <3> HIDE DEF g
      <3>11. Tidy(g) /\ RetTidy(g)
        BY <1>0, <3>10 DEF Tidy, RetTidy
      <3>12. /\ Len(calls') = 1 /\ Top' = g /\ calls'[1] = g /\ Shape(calls')
        BY <1>0, <3>1, <3>9, <3>10, GoesOnShape
      <3>13. Row' = Row
        <4>1. \A c : Shape(c) /\ Len(c) = 1 => Front(c) = <<>>
          <5> SUFFICES ASSUME NEW c, Shape(c), Len(c) = 1 PROVE Front(c) = <<>>
            OBVIOUS
          <5>1. IsSeq(Front(c)) /\ Len(Front(c)) = 0
            BY FrontIs DEF Shape, IsSeq
          <5> QED BY <5>1, SeqTuples, SeqSame
        <4>2. Front(calls) = <<>> /\ Front(calls') = <<>>
          BY <1>0, <3>9, <3>12, <4>1
        <4>3. CallsRow(<<>>) = <<>>
          <5>1. OpsSeq(<<>>)
            BY SeqTuples DEF OpsSeq
          <5> QED BY <1>0, <5>1, CallsRowSnoc
        <4>4. FullRow(Top) = <<Top.ret>> /\ FullRow(g) = <<>>
          BY <1>0, <3>1, <3>10, RowOf
        <4>5. Cat(<<>>, <<>>) = <<>> /\ Cat(<<>>, <<Top.ret>>) = <<Top.ret>>
          BY CatIs, SeqTuples
        <4>6. Row = Cat(prog, <<Top.ret>>)
          BY <4>2, <4>3, <4>4, <4>5 DEF Row
        <4>7. Row' = Cat(prog', Cat(CallsRow(Front(calls')), FullRow(Top')))
          BY DEF Row
        <4>8. Row' = Cat(prog', <<>>)
          BY <3>12, <4>2, <4>3, <4>4, <4>5, <4>7
        <4>9. IsSeq(prog') /\ prog' = Cat(prog, <<Top.ret>>)
          BY <1>0, <3>1, SeqSnoc DEF Cat
        <4> QED BY <4>6, <4>8, <4>9, CatIs, <1>0
      <3>14. IsSeq(Row) /\ Same(Row', Cat(Row, <<>>))
        <4>1. IsSeq(Row)
          BY <1>0, SpineIs DEF NInv
        <4> QED BY <1>0, <3>13, <4>1, CatIs, SameIs
      <3>15. Spells(Row, Words(Read(s)))' /\ SkipBlank(s)' /\ (IsSeq(notes) /\ Notes(s, notes))'
        BY <3>8, <3>14, SpellsMore
      <3>16. ASSUME NEW i \in 1 .. Len(calls') PROVE Tidy(calls'[i])
        <4>1. i = 1
          BY <3>12
        <4> QED BY <3>11, <3>12, <4>1
      <3>17. RetTidy(Top')
        BY <3>11, <3>12
      <3> QED BY <3>1, <3>15, <3>16, <3>17 DEF NInv
    <2> QED BY <2>1, <2>2
  <1>4. CASE ProgramSkips
    <2> DEFINE g == [Top EXCEPT !.pc = "enter"]
    <2>1. /\ Top.fn = "parse" /\ Top.pc = "shrunk" /\ status' # "done" /\ notes' = notes /\ tolerant' = tolerant
          /\ prog' = prog /\ s' = SkipWhite(s) /\ GoesOn(g)
      BY <1>4 DEF ProgramSkips, At, Keeps
    <2>2. Wrote(<<>>)
      BY <1>0, <2>1, ReadsMore, NReads
    <2>3. g.fn = "parse" /\ g.pc = "enter" /\ g.ops = Top.ops /\ IsFrame(g)
      BY <2>1, <1>0 DEF IsFrame
    <2> HIDE DEF g
    <2>4. Tidy(g) /\ RetTidy(g)
      BY <1>0, <2>3 DEF Tidy, RetTidy
    <2>5. FullRow(g) = FullRow(Top)
      <3>1. FullRow(g) = <<>>
        BY <1>0, <2>3, RowOf
      <3>2. FullRow(Top) = <<>>
        BY <1>0, <2>1, RowOf
      <3> QED BY <3>1, <3>2
    <2> QED BY <1>0, <2>1, <2>2, <2>3, <2>4, <2>5, NGoesOn
  <1> QED BY <1>1, <1>2, <1>3, <1>4 DEF ParseStatement

LEMMA ParseUnaryN ==
  ASSUME SInv, PInv, NInv, ParseUnary
  PROVE  NInv'
  <1>0. /\ Shape(calls) /\ IsFrame(Top) /\ IsSeq(Top.ops) /\ IsSeq(prog) /\ Tidy(Top) /\ RetTidy(Top)
        /\ StreamOK(s) /\ Reads(s, s, <<>>) /\ IsSeq(<<>>)
        /\ IsSeq(FullRow(Top)) /\ Same(FullRow(Top), Cat(FullRow(Top), <<>>))
    BY NTop
  <1>a. \A f : f.fn = "unary" /\ IsSeq(f.ops) => Tidy(f)
    BY DEF Tidy
  <1>b. /\ Top.fn = "unary" /\ status' # "done" /\ prog' = prog
        /\ notes' = notes /\ tolerant' = tolerant
    BY DEF ParseUnary, UnaryBegins, TakesUnaryOp, TakesTarget, WrapsTarget, UnaryReturns, At, Keeps
  <1>1. CASE UnaryBegins
    <2> DEFINE g == [Top EXCEPT !.pc = "ops"]
    <2>1. Top.pc = "enter" /\ s' = SkipSpace(s) /\ GoesOn(g)
      BY <1>1 DEF UnaryBegins, At
    <2>2. Wrote(<<>>)
      BY <1>0, <1>b, <2>1, ReadsMore, NReads
    <2>3. g.fn = "unary" /\ g.pc = "ops" /\ g.ops = Top.ops /\ IsFrame(g)
      BY <1>b, <1>0 DEF IsFrame
    <2> HIDE DEF g
    <2>4. FullRow(g) = FullRow(Top)
      <3>1. FullRow(g) = UnaryRow(g.ops)
        BY <1>0, <2>3, RowOf
      <3>2. FullRow(Top) = UnaryRow(Top.ops)
        BY <1>0, <1>b, <2>1, RowOf
      <3> QED BY <3>1, <3>2, <2>3
    <2>5. Tidy(g) /\ RetTidy(g)
      BY <1>0, <1>a, <2>3 DEF RetTidy, Waiting
    <2> QED BY <1>0, <1>b, <2>1, <2>2, <2>3, <2>4, <2>5, NGoesOn
  <1>2. CASE TakesUnaryOp
    <2> DEFINE op == Cur(s).text
               g == [Top EXCEPT !.ops = Append(@, op)]
    <2>1. Top.pc = "ops" /\ AtUnaryOp /\ s' = SkipWhite(Consume(s)) /\ GoesOn(g)
      BY <1>2 DEF TakesUnaryOp, At
    <2>2. ~Eos(s) /\ op \notin {Space, Line, Hash}
      BY <2>1 DEF AtUnaryOp, UnaryOps, Space, Line, Hash
    <2>3. Reads(s, Consume(s), <<Tok(op)>>)
      BY <1>0, <2>2, ReadsConsume
    <2>4. Wrote(<<Tok(op)>>)
      BY <1>0, <1>b, <2>1, <2>3, ReadsMore, NReads
    <2> HIDE DEF op
    <2>5. g.fn = "unary" /\ g.pc = "ops" /\ g.ops = Append(Top.ops, op) /\ IsFrame(g)
      BY <1>b, <1>0, <2>1 DEF IsFrame
    <2> HIDE DEF g
    <2>6. IsSeq(g.ops)
      <3>1. IsSeq(Top.ops)
        BY <1>0
      <3>2. IsSeq(Append(Top.ops, op))
        BY <3>1, SeqSnoc
      <3> QED BY <2>5, <3>2
    <2>7. Same(FullRow(g), Cat(FullRow(Top), <<Tok(op)>>))
      <3>1. FullRow(g) = UnaryRow(g.ops) /\ IsSeq(FullRow(g))
        BY <2>5, <2>6, RowOf
      <3>2. FullRow(Top) = UnaryRow(Top.ops)
        BY <1>0, <1>b, <2>1, RowOf
      <3>3. FullRow(g) = Cat(FullRow(Top), <<Tok(op)>>)
        BY <1>0, <2>5, <3>1, <3>2, UnaryRowOne
      <3> QED BY <3>1, <3>3, SameIs
    <2>8. Tidy(g) /\ RetTidy(g)
      BY <2>6, <1>a, <2>5 DEF RetTidy, Waiting
    <2> QED BY <1>0, <1>b, <2>1, <2>4, <2>5, <2>7, <2>8, NGoesOn
  <1>3. CASE TakesTarget
    <2> DEFINE g == [Top EXCEPT !.pc = "target"]
    <2>1. Top.pc = "ops" /\ s' = MaybeParse(s) /\ Call(Top, "target", "post")
      BY <1>3 DEF TakesTarget, At
    <2>2. Wrote(<<>>)
      BY <1>0, <1>b, <2>1, ReadsMore, NReads
    <2>3. g.fn = "unary" /\ g.pc = "target" /\ g.ops = Top.ops /\ IsFrame(g)
      BY <1>b, <1>0 DEF IsFrame
    <2> HIDE DEF g
    <2>4. FrameRow(g) = FullRow(Top)
      <3>1. FrameRow(g) = UnaryRow(g.ops)
        BY <1>0, <2>3, RowOf
      <3>2. FullRow(Top) = UnaryRow(Top.ops)
        BY <1>0, <1>b, <2>1, RowOf
      <3> QED BY <3>1, <3>2, <2>3
    <2>5. Tidy(g) /\ Waits(g, Frame("post"))
      BY <1>0, <1>a, <2>3, FrameIs DEF Waits
    <2>6. Same(FrameRow(g), Cat(FullRow(Top), <<>>))
      BY <1>0, <2>4
    <2> QED BY <1>0, <1>b, <2>1, <2>2, <2>5, <2>6, NCall DEF g
  <1>4. CASE WrapsTarget
    <2> DEFINE op == Last(Top.ops)
               r == Top.ret
               n == Node("unary", op, <<r>>)
               g == [Top EXCEPT !.ops = Front(@), !.ret = n]
    <2>1. /\ Top.pc = "target" /\ Top.ops # <<>> /\ s' = s
          /\ GoesOn([Top EXCEPT !.ops = Front(@), !.ret = Node("unary", Last(Top.ops), <<@>>)])
      BY <1>4 DEF WrapsTarget, At
    <2>a. [Top EXCEPT !.ops = Front(@), !.ret = Node("unary", Last(Top.ops), <<@>>)] = g
      OBVIOUS
    <2>b. GoesOn(g)
      BY <2>1, <2>a
    <2>2. Wrote(<<>>)
      BY <1>0, <1>b, <2>1, NReads
    <2>3. n.kind = "unary"
      BY NodeIs
    <2>4. IsSeq(Front(Top.ops)) /\ Top.ops = Append(Front(Top.ops), op)
      BY <1>0, <2>1, SeqSplit
    <2>5. Same(<<n>>, <<Tok(op), r>>)
      BY SamePost
    <2> HIDE DEF op, n, r
    <2>6. g.fn = "unary" /\ g.pc = "target" /\ g.ops = Front(Top.ops) /\ g.ret = n /\ IsFrame(g)
      BY <1>b, <1>0, <2>1 DEF IsFrame
    <2> HIDE DEF g
    <2>7. Same(FullRow(g), Cat(FullRow(Top), <<>>))
      <3> DEFINE a == UnaryRow(g.ops)
      <3>1. FullRow(g) = Cat(a, <<n>>) /\ IsSeq(a)
        BY <2>4, <2>6, RowOf
      <3>2. FullRow(Top) = Cat(UnaryRow(Top.ops), <<r>>)
        BY <1>0, <1>b, <2>1, RowOf DEF r
      <3>3. UnaryRow(Top.ops) = Cat(a, <<Tok(op)>>)
        BY <2>4, <2>6, UnaryRowOne
      <3> HIDE DEF a
      <3>4. IsSeq(<<Tok(op)>>) /\ IsSeq(<<r>>)
        BY SeqTuples
      <3>5. Cat(<<Tok(op)>>, <<r>>) = <<Tok(op), r>>
        BY CatTuples
      <3>6. FullRow(Top) = Cat(a, <<Tok(op), r>>)
        BY <3>1, <3>2, <3>3, <3>4, <3>5, CatAssoc
      <3>7. Same(Cat(a, <<n>>), Cat(a, <<Tok(op), r>>))
        BY <3>1, <2>5, SameIs, SameCat
      <3> QED BY <1>0, <3>1, <3>6, <3>7, SameIs
    <2>8. Tidy(g) /\ RetTidy(g)
      BY <2>3, <2>4, <2>6, <1>a DEF RetTidy
    <2> QED BY <1>0, <1>b, <2>b, <2>2, <2>6, <2>7, <2>8, NGoesOn
  <1>5. CASE UnaryReturns
    <2>1. Top.pc = "target" /\ Top.ops = <<>> /\ s' = s /\ Return(Top.ret)
      BY <1>5 DEF UnaryReturns, At
    <2>2. Wrote(<<>>)
      BY <1>0, <1>b, <2>1, NReads
    <2>3. FullRow(Top) = <<Top.ret>>
      <3>1. FullRow(Top) = Cat(UnaryRow(Top.ops), <<Top.ret>>)
        BY <1>0, <1>b, <2>1, RowOf
      <3>2. UnaryRow(<<>>) = <<>>
        BY UnaryRowOne
      <3>3. Cat(<<>>, <<Top.ret>>) = <<Top.ret>>
        BY CatIs, SeqTuples
      <3> QED BY <2>1, <3>1, <3>2, <3>3
    <2>4. Top.ret.kind # "none"
      BY <1>0, <1>b, <2>1 DEF RetTidy, Waiting
    <2>5. Same(<<Top.ret>>, Cat(FullRow(Top), <<>>))
      BY <1>0, <2>3
    <2>6. Top.fn # "parse"
      BY <1>b
    <2> QED BY <1>0, <1>b, <2>1, <2>2, <2>4, <2>5, <2>6, NReturn
  <1> QED BY <1>1, <1>2, <1>3, <1>4, <1>5 DEF ParseUnary

\* An operand has been parsed.
LEMMA NOperand ==
  ASSUME SInv, NInv, Top.fn = "post", status' # "done", NEW t, NEW node, Operand(t, node), node.kind # "none",
         NEW w, Reads(s, t, w), Leaves(w), Same(<<node>>, Cat(FullRow(Top), w))
  PROVE  NInv'
  <1> DEFINE g == [Top EXCEPT !.pc = "loop", !.expr = node]
  <1>0. IsFrame(Top) /\ IsSeq(Top.ops) /\ StreamOK(s)
    BY NTop
  <1>1. s' = SetRegexMode(t, FALSE) /\ GoesOn(g) /\ prog' = prog /\ notes' = notes /\ tolerant' = tolerant
    BY DEF Operand, Keeps
  <1>2. Reads(s, s', w)
    BY <1>0, <1>1, ReadsMore
  <1>3. Wrote(w)
    BY <1>1, <1>2, WroteReads
  <1>4. g.fn = "post" /\ g.pc = "loop" /\ g.ops = Top.ops /\ g.expr = node /\ IsFrame(g)
    BY <1>0 DEF IsFrame
  <1> HIDE DEF g
  <1>5. FullRow(g) = <<node>>
    BY <1>0, <1>4, RowOf
  <1>6. Tidy(g) /\ RetTidy(g)
    BY <1>0, <1>4 DEF Tidy, RetTidy
  <1> QED BY <1>1, <1>3, <1>4, <1>5, <1>6, NGoesOn

\* The loop of parse_post goes on with another operand.
LEMMA NPostLoop ==
  ASSUME SInv, NInv, Top.fn = "post", status' # "done", NEW node, GoesOn([Top EXCEPT !.pc = "loop", !.expr = node]),
         node.kind # "none", prog' = prog, NEW w, Wrote(w), Same(<<node>>, Cat(FullRow(Top), w))
  PROVE  NInv'
  <1> DEFINE g == [Top EXCEPT !.pc = "loop", !.expr = node]
  <1>0. IsFrame(Top) /\ IsSeq(Top.ops) /\ StreamOK(s)
    BY NTop
  <1>1. GoesOn(g)
    OBVIOUS
  <1>4. g.fn = "post" /\ g.pc = "loop" /\ g.ops = Top.ops /\ g.expr = node /\ IsFrame(g)
    BY <1>0 DEF IsFrame
  <1> HIDE DEF g
  <1>5. FullRow(g) = <<node>>
    BY <1>0, <1>4, RowOf
  <1>6. Tidy(g) /\ RetTidy(g)
    BY <1>0, <1>4 DEF Tidy, RetTidy
  <1> QED BY <1>1, <1>4, <1>5, <1>6, NGoesOn

\* parse_post calls parse_expr behind a bracket.
LEMMA NPostCall ==
  ASSUME SInv, NInv, Top.fn = "post", status' # "done", NEW pc \in {"paren", "call", "index"},
         Call(Top, pc, "expr"), prog' = prog, pc # "paren" => Top.pc = "loop", pc = "paren" => Top.pc = "enter",
         NEW w, Wrote(w), w = <<Tok(IF pc = "index" THEN "[" ELSE "(")>>
  PROVE  NInv'
  <1> DEFINE g == [Top EXCEPT !.pc = pc]
  <1>0. IsFrame(Top) /\ IsSeq(Top.ops) /\ StreamOK(s) /\ Tidy(Top)
    BY NTop
  <1>1. g.fn = "post" /\ g.pc = pc /\ g.ops = Top.ops /\ g.expr = Top.expr /\ IsFrame(g)
    BY <1>0 DEF IsFrame
  <1> HIDE DEF g
  <1>2. Tidy(g) /\ Waits(g, Frame("expr"))
    BY <1>0, <1>1, FrameIs DEF Tidy, Waits
  <1>3. FrameRow(g) = Cat(FullRow(Top), w)
    <2>1. CASE pc = "paren"
      <3>1. FrameRow(g) = <<Tok("(")>>
        BY <1>0, <1>1, <2>1, RowOf
      <3>2. FullRow(Top) = <<>>
        BY <1>0, <2>1, RowOf
      <3> QED BY <2>1, <3>1, <3>2, CatIs, SeqTuples
    <2>2. CASE pc = "call"
      <3>1. FrameRow(g) = <<Top.expr, Tok("(")>>
        BY <1>0, <1>1, <2>2, RowOf
      <3>2. FullRow(Top) = <<Top.expr>>
        BY <1>0, <2>2, RowOf
      <3> QED BY <2>2, <3>1, <3>2, CatTuples
    <2>3. CASE pc = "index"
      <3>1. FrameRow(g) = <<Top.expr, Tok("[")>>
        BY <1>0, <1>1, <2>3, RowOf
      <3>2. FullRow(Top) = <<Top.expr>>
        BY <1>0, <2>3, RowOf
      <3> QED BY <2>3, <3>1, <3>2, CatTuples
    <2> QED BY <2>1, <2>2, <2>3
  <1>4. Same(FrameRow(g), Cat(FullRow(Top), w))
    <2>1. IsSeq(FrameRow(g))
      BY <1>0, <1>1, RowOf
    <2> QED BY <1>3, <2>1, SameIs
  <1> QED BY <1>0, <1>2, <1>4, NCall DEF g

LEMMA PostTexts ==
  /\ "(" \notin {Space, Line, Hash} /\ ")" \notin {Space, Line, Hash} /\ "[" \notin {Space, Line, Hash}
  /\ "]" \notin {Space, Line, Hash} /\ "." \notin {Space, Line, Hash}
  BY DEF Space, Line, Hash

\* A token with a known text.
LEMMA ReadsText ==
  ASSUME NEW t, NEW u, NEW w, StreamOK(t), Reads(t, u, w), NEW text, Expect(u, text),
         text \notin {Space, Line, Hash}
  PROVE  Reads(t, Consume(u), Cat(w, <<Tok(text)>>))
  <1>1. ~Eos(u) /\ Cur(u).text = text
    BY DEF Expect
  <1> QED BY <1>1, ReadsMore

\* A leaf is its token.
LEMMA ReadsLeaf ==
  ASSUME NEW t, NEW u, NEW w, StreamOK(t), Reads(t, u, w), NEW tags, ExpectTag(u, tags),
         tags \subseteq {"ident", "regex_literal"}
  PROVE  /\ Reads(t, Consume(u), Cat(w, <<Leaf(Cur(u))>>)) /\ Leaf(Cur(u)) = Tok(Cur(u).text)
         /\ Leaf(Cur(u)).kind = "leaf"
  <1>1. ~Eos(u) /\ Cur(u).tag \notin Blank
    BY DEF ExpectTag, Blank
  <1>2. Leaf(Cur(u)) = Tok(Cur(u).text)
    BY DEF Leaf, Tok
  <1>3. Leaf(Cur(u)).kind = "leaf"
    BY NodeIs DEF Leaf
  <1> QED BY <1>1, <1>2, <1>3, ReadsMore

LEMMA ParsePrimN ==
  ASSUME SInv, NInv, ParsePrim
  PROVE  NInv'
  <1>0. /\ IsFrame(Top) /\ IsSeq(Top.ops) /\ StreamOK(s) /\ Reads(s, s, <<>>) /\ IsSeq(<<>>)
    BY NTop
  <1>1. Top.fn = "post" /\ Top.pc = "enter" /\ status = "run"
    BY DEF ParsePrim, At
  <1>2. FullRow(Top) = <<>>
    BY <1>0, <1>1, RowOf
  <1>3. \A w : IsSeq(w) => Cat(<<>>, w) = w
    BY CatIs, SeqTuples
  <1>a. \/ ExpectTag(s, {"ident", "regex_literal"}) /\ Operand(Consume(s), Leaf(Cur(s)))
        \/ Expect(s, "(") /\ s' = SkipWhite(Consume(s)) /\ Call(Top, "paren", "expr") /\ Keeps
        \/ Throw
        \/ tolerant /\ ~CannotRecover(s) /\ Operand(Recover(s), BadExpr)
    BY DEF ParsePrim
  <1>4. CASE ExpectTag(s, {"ident", "regex_literal"}) /\ Operand(Consume(s), Leaf(Cur(s)))
    <2> DEFINE n == Leaf(Cur(s))
    <2>1. Operand(Consume(s), n)
      BY <1>4
    <2>2. /\ Reads(s, Consume(s), Cat(<<>>, <<n>>)) /\ n = Tok(Cur(s).text) /\ n.kind = "leaf"
      BY <1>0, <1>4, ReadsLeaf
    <2> HIDE DEF n
    <2>3. IsSeq(<<n>>) /\ Leaves(<<n>>)
      BY <2>2, SeqTuples, TokLeaves
    <2>4. Cat(<<>>, <<n>>) = <<n>>
      BY <1>3, <2>3
    <2>5. Same(<<n>>, Cat(FullRow(Top), <<n>>))
      BY <1>2, <2>3, <2>4, SameIs
    <2>6. status' # "done" /\ n.kind # "none"
      BY <1>1, <2>1, <2>2 DEF Operand, Keeps
    <2> QED BY <1>1, <2>1, <2>2, <2>3, <2>4, <2>5, <2>6, NOperand
  <1>5. CASE Expect(s, "(") /\ s' = SkipWhite(Consume(s)) /\ Call(Top, "paren", "expr") /\ Keeps
    <2>1. s' = SkipWhite(Consume(s)) /\ Call(Top, "paren", "expr") /\ Keeps
      BY <1>5
    <2>2. Reads(s, Consume(s), Cat(<<>>, <<Tok("(")>>))
      BY <1>0, <1>5, PostTexts, ReadsText
    <2>3. Cat(<<>>, <<Tok("(")>>) = <<Tok("(")>>
      BY <1>3, SeqTuples
    <2>4. Wrote(<<Tok("(")>>)
      BY <1>0, <2>1, <2>2, <2>3, ReadsMore, NReads DEF Keeps
    <2>5. prog' = prog /\ status' # "done"
      BY <1>1, <2>1 DEF Keeps
    <2> QED BY <1>1, <2>1, <2>4, <2>5, NPostCall
  <1>6. CASE tolerant /\ ~CannotRecover(s) /\ Operand(Recover(s), BadExpr)
    <2>1. Operand(Recover(s), BadExpr)
      BY <1>6
    <2>2. SkipOK(s)
      BY <1>1 DEF SInv, At
    <2>3. Reads(s, Recover(s), <<>>)
      BY <1>0, <1>6, <2>2, ReadsMore
    <2>4. BadExpr.kind # "none" /\ status' # "done"
      BY <1>1, <2>1, NodeIs DEF BadExpr, Operand, Keeps
    <2>5. Same(<<BadExpr>>, Cat(FullRow(Top), <<>>))
      BY <1>0, <1>2, <1>3, SameNothing
    <2> QED BY <1>1, <2>1, <2>3, <2>4, <2>5, TokLeaves, NOperand
  <1>7. CASE Throw
    BY <1>7, NEnds
  <1> QED BY <1>a, <1>4, <1>5, <1>6, <1>7

LEMMA ParenEndsN ==
  ASSUME SInv, NInv, ParenEnds
  PROVE  NInv'
  <1> DEFINE t == SkipWhite(s)
             n == Node("paren", "(", <<Top.ret>>)
             x == Tok(")")
  <1>0. /\ IsFrame(Top) /\ IsSeq(Top.ops) /\ StreamOK(s) /\ Reads(s, s, <<>>) /\ IsSeq(<<>>)
    BY NTop
  <1>1. Top.fn = "post" /\ Top.pc = "paren" /\ status = "run"
    BY DEF ParenEnds, At
  <1>2. CASE Throw
    BY <1>2, NEnds
  <1>3. CASE Expect(t, ")") /\ Operand(Consume(t), n)
    <2>1. Reads(s, t, <<>>)
      BY <1>0, ReadsMore
    <2>2. Cat(<<>>, <<x>>) = <<x>>
      BY CatIs, SeqTuples
    <2>3. Reads(s, Consume(t), <<x>>)
      BY <1>0, <1>3, <2>1, <2>2, PostTexts, ReadsText
    <2>4. FullRow(Top) = <<Tok("("), Top.ret>>
      BY <1>0, <1>1, RowOf
    <2>5. Same(<<n>>, Cat(FullRow(Top), <<x>>))
      BY <2>4, SamePost, CatTuples
    <2>6. n.kind # "none" /\ status' # "done" /\ Leaves(<<x>>)
      BY <1>1, <1>3, NodeIs, TokLeaves DEF Operand, Keeps
    <2> HIDE DEF n, t, x
    <2> QED BY <1>1, <1>3, <2>3, <2>5, <2>6, NOperand
  <1> QED BY <1>2, <1>3 DEF ParenEnds

LEMMA CallBeginsN ==
  ASSUME SInv, NInv, CallBegins
  PROVE  NInv'
  <1> DEFINE t == SkipSpace(s)
             u == SkipWhite(Consume(t))
             n == Node("call", "(", <<Top.expr>>)
             x == Tok("(")
             y == Tok(")")
  <1>0. /\ IsFrame(Top) /\ IsSeq(Top.ops) /\ StreamOK(s) /\ Reads(s, s, <<>>) /\ IsSeq(<<>>)
    BY NTop
  <1>1. /\ Top.fn = "post" /\ Top.pc = "loop" /\ Expect(t, "(") /\ prog' = prog /\ status' # "done"
        /\ notes' = notes /\ tolerant' = tolerant
    BY DEF CallBegins, At, Keeps
  <1>2. Reads(s, t, <<>>)
    BY <1>0, ReadsMore
  <1>3. Cat(<<>>, <<x>>) = <<x>>
    BY CatIs, SeqTuples
  <1>4. Reads(s, Consume(t), <<x>>)
    BY <1>0, <1>1, <1>2, <1>3, PostTexts, ReadsText
  <1>5. Reads(s, u, <<x>>)
    BY <1>0, <1>4, ReadsMore
  <1>6. CASE Expect(u, ")") /\ s' = Consume(u) /\ GoesOn([Top EXCEPT !.expr = Node("call", "(", <<@>>)])
    <2>1. Cat(<<x>>, <<y>>) = <<x, y>>
      BY CatTuples
    <2>2. Reads(s, Consume(u), <<x, y>>)
      BY <1>0, <1>5, <1>6, <2>1, PostTexts, ReadsText
    <2>3. Wrote(<<x, y>>)
      BY <1>1, <1>6, <2>2, NReads
    <2>4. FullRow(Top) = <<Top.expr>>
      BY <1>0, <1>1, RowOf
    <2>5. Same(<<n>>, Cat(FullRow(Top), <<x, y>>))
      BY <2>4, SamePost, CatTuples
    <2>6. n.kind # "none"
      BY NodeIs
    <2>7. [Top EXCEPT !.expr = Node("call", "(", <<@>>)] = [Top EXCEPT !.pc = "loop", !.expr = n]
      BY <1>0, <1>1 DEF IsFrame
    <2>8. GoesOn([Top EXCEPT !.pc = "loop", !.expr = n])
      BY <1>6, <2>7
    <2> HIDE DEF n, t, u, x, y
    <2> QED BY <1>1, <2>3, <2>5, <2>6, <2>8, NPostLoop
  <1>7. CASE s' = u /\ Call(Top, "call", "expr")
    <2>1. Wrote(<<x>>)
      BY <1>1, <1>5, <1>7, NReads
    <2> HIDE DEF n, t, u, y
    <2> QED BY <1>1, <1>7, <2>1, NPostCall
  <1> QED BY <1>6, <1>7 DEF CallBegins

LEMMA IndexBeginsN ==
  ASSUME SInv, NInv, IndexBegins
  PROVE  NInv'
  <1> DEFINE t == SkipSpace(s)
             x == Tok("[")
  <1>0. /\ IsFrame(Top) /\ IsSeq(Top.ops) /\ StreamOK(s) /\ Reads(s, s, <<>>) /\ IsSeq(<<>>)
    BY NTop
  <1>1. /\ Top.fn = "post" /\ Top.pc = "loop" /\ Expect(t, "[") /\ prog' = prog /\ status' # "done"
        /\ notes' = notes /\ tolerant' = tolerant /\ s' = SkipWhite(Consume(t)) /\ Call(Top, "index", "expr")
    BY DEF IndexBegins, At, Keeps
  <1>2. Reads(s, t, <<>>)
    BY <1>0, ReadsMore
  <1>3. Cat(<<>>, <<x>>) = <<x>>
    BY CatIs, SeqTuples
  <1>4. Reads(s, Consume(t), <<x>>)
    BY <1>0, <1>1, <1>2, <1>3, PostTexts, ReadsText
  <1>5. Wrote(<<x>>)
    BY <1>0, <1>1, <1>4, ReadsMore, NReads
  <1> HIDE DEF t
  <1> QED BY <1>1, <1>5, NPostCall

LEMMA BracketClosesN ==
  ASSUME SInv, NInv, BracketCloses
  PROVE  NInv'
  <1>0. /\ IsFrame(Top) /\ IsSeq(Top.ops) /\ StreamOK(s) /\ Reads(s, s, <<>>) /\ IsSeq(<<>>)
    BY NTop
  <1> DEFINE t == SkipWhite(s)
             Text(pc) == IF pc = "call" THEN ")" ELSE "]"
             N(pc) == Node(pc, IF pc = "call" THEN "(" ELSE "[", <<Top.expr, Top.ret>>)
  <1>1. PICK pc \in {"call", "index"} :
          /\ At("post", pc)
          /\ Must(t, Text(pc), GoesOn([Top EXCEPT !.pc = "loop", !.expr = N(pc)]))
    BY DEF BracketCloses
  <1>2. Top.fn = "post" /\ Top.pc = pc /\ status = "run"
    BY <1>1 DEF At
  <1>3. CASE ~Expect(t, Text(pc))
    BY <1>1, <1>3, NEnds DEF Must
  <1>4. CASE Expect(t, Text(pc))
    <2> DEFINE x == Tok(Text(pc))
    <2>1. s' = Consume(t) /\ GoesOn([Top EXCEPT !.pc = "loop", !.expr = N(pc)]) /\ Keeps
      BY <1>1, <1>4 DEF Must
    <2>2. prog' = prog /\ status' # "done" /\ notes' = notes /\ tolerant' = tolerant
      BY <1>2, <2>1 DEF Keeps
    <2>3. Reads(s, t, <<>>)
      BY <1>0, ReadsMore
    <2>4. Cat(<<>>, <<x>>) = <<x>>
      BY CatIs, SeqTuples
    <2>5. Reads(s, Consume(t), <<x>>)
      BY <1>0, <1>4, <2>3, <2>4, PostTexts, ReadsText
    <2>6. Wrote(<<x>>)
      BY <2>1, <2>2, <2>5, NReads
    <2>7. Same(<<N(pc)>>, Cat(FullRow(Top), <<x>>))
      <3>1. CASE pc = "call"
        <4>1. FullRow(Top) = <<Top.expr, Tok("("), Top.ret>>
          BY <1>0, <1>2, <3>1, RowOf
        <4> QED BY <3>1, <4>1, SamePost, CatTuples
      <3>2. CASE pc = "index"
        <4>1. FullRow(Top) = <<Top.expr, Tok("["), Top.ret>>
          BY <1>0, <1>2, <3>2, RowOf
        <4> QED BY <3>2, <4>1, SamePost, CatTuples
      <3> QED BY <3>1, <3>2
    <2>8. N(pc).kind # "none"
      BY NodeIs
    <2> HIDE DEF N, t, x, Text
    <2> QED BY <1>2, <2>1, <2>2, <2>6, <2>7, <2>8, NPostLoop
  <1> QED BY <1>3, <1>4

LEMMA AccessN ==
  ASSUME SInv, NInv, Access
  PROVE  NInv'
  <1> DEFINE t == SkipSpace(s)
             u == SkipWhite(Consume(t))
             N(m) == Node("dot", ".", <<Top.expr, m>>)
             G(m) == GoesOn([Top EXCEPT !.expr = Node("dot", ".", <<@, m>>)])
             x == Tok(".")
  <1>0. /\ IsFrame(Top) /\ IsSeq(Top.ops) /\ StreamOK(s) /\ Reads(s, s, <<>>) /\ IsSeq(<<>>)
    BY NTop
  <1>1. /\ Top.fn = "post" /\ Top.pc = "loop" /\ Expect(t, ".") /\ status = "run"
    BY DEF Access, At
  <1>2. /\ Reads(s, t, <<>>) /\ On(s, t)
    <2>1. ~At("parse", "shrunk")
      BY <1>1 DEF At
    <2> QED BY <1>0, <2>1, OnS, ReadsMore, OnMore
  <1>3. Cat(<<>>, <<x>>) = <<x>>
    BY CatIs, SeqTuples
  <1>4. Reads(s, Consume(t), <<x>>) /\ On(s, Consume(t))
    BY <1>0, <1>1, <1>2, <1>3, PostTexts, ReadsText, OnMore
  <1>5. Reads(s, u, <<x>>) /\ On(s, u)
    BY <1>0, <1>4, ReadsMore, OnMore
  <1>6. FullRow(Top) = <<Top.expr>>
    BY <1>0, <1>1, RowOf
  <1>7. ASSUME NEW m PROVE /\ N(m).kind # "none"
                           /\ Same(<<N(m)>>, Cat(FullRow(Top), <<x, m>>))
                           /\ G(m) => GoesOn([Top EXCEPT !.pc = "loop", !.expr = N(m)])
    <2>1. N(m).kind # "none"
      BY NodeIs
    <2>2. Same(<<N(m)>>, Cat(FullRow(Top), <<x, m>>))
      BY <1>6, SamePost, CatTuples
    <2>3. [Top EXCEPT !.expr = Node("dot", ".", <<@, m>>)] = [Top EXCEPT !.pc = "loop", !.expr = N(m)]
      BY <1>0, <1>1 DEF IsFrame
    <2> QED BY <2>1, <2>2, <2>3
  <1>8. \/ ExpectTag(u, {"ident"}) /\ s' = Consume(u) /\ G(Leaf(Cur(u))) /\ Keeps
        \/ Throw
        \/ tolerant /\ ~CannotRecover(u) /\ s' = Recover(u) /\ G(BadExpr) /\ Keeps
    BY DEF Access
  <1>9. CASE Throw
    BY <1>9, NEnds
  <1>10. CASE ExpectTag(u, {"ident"}) /\ s' = Consume(u) /\ G(Leaf(Cur(u))) /\ Keeps
    <2> DEFINE m == Leaf(Cur(u))
    <2>1. prog' = prog /\ status' # "done" /\ notes' = notes /\ tolerant' = tolerant
      BY <1>1, <1>10 DEF Keeps
    <2>2. Reads(s, Consume(u), Cat(<<x>>, <<m>>)) /\ m = Tok(Cur(u).text)
      BY <1>0, <1>5, <1>10, ReadsLeaf
    <2>3. Cat(<<x>>, <<m>>) = <<x, m>>
      BY CatTuples
    <2>4. Wrote(<<x, m>>)
      BY <1>10, <2>1, <2>2, <2>3, NReads
    <2>5. GoesOn([Top EXCEPT !.pc = "loop", !.expr = N(m)])
      BY <1>7, <1>10
    <2> HIDE DEF m, N, x, t, u, G
    <2> QED BY <1>1, <1>7, <2>1, <2>4, <2>5, NPostLoop
  <1>11. CASE tolerant /\ ~CannotRecover(u) /\ s' = Recover(u) /\ G(BadExpr) /\ Keeps
    <2>1. prog' = prog /\ status' # "done" /\ notes' = notes /\ tolerant' = tolerant
      BY <1>1, <1>11 DEF Keeps
    <2>2. SkipOK(u)
      BY <1>5 DEF On
    <2>3. Reads(s, Recover(u), <<x>>)
      BY <1>0, <1>5, <1>11, <2>2, ReadsMore
    <2>4. Wrote(<<x>>)
      BY <1>11, <2>1, <2>3, NReads
    <2>5. GoesOn([Top EXCEPT !.pc = "loop", !.expr = N(BadExpr)])
      BY <1>7, <1>11
    <2>6. Same(<<N(BadExpr)>>, Cat(FullRow(Top), <<x>>))
      <3>1. Cat(FullRow(Top), <<x, BadExpr>>) = Cat(<<Top.expr, x>>, <<BadExpr>>)
        BY <1>6, CatTuples
      <3>2. IsSeq(<<Top.expr, x>>) /\ Cat(FullRow(Top), <<x>>) = <<Top.expr, x>>
        BY <1>6, CatTuples, SeqTuples
      <3> HIDE DEF N, x
      <3>3. Same(Cat(<<Top.expr, x>>, <<BadExpr>>), <<Top.expr, x>>)
        BY <3>2, SameDrops
      <3> QED BY <1>7, <3>1, <3>2, <3>3, SameIs
    <2> HIDE DEF N, x, t, u, G
    <2> QED BY <1>1, <1>7, <2>1, <2>4, <2>5, <2>6, NPostLoop
  <1> QED BY <1>8, <1>9, <1>10, <1>11

LEMMA PostReturnsN ==
  ASSUME SInv, NInv, PostReturns
  PROVE  NInv'
  <1>0. /\ IsFrame(Top) /\ IsSeq(Top.ops) /\ StreamOK(s) /\ Reads(s, s, <<>>) /\ IsSeq(<<>>)
        /\ Tidy(Top) /\ Same(FullRow(Top), Cat(FullRow(Top), <<>>))
    BY NTop
  <1>1. /\ Top.fn = "post" /\ Top.pc = "loop" /\ prog' = prog /\ status' # "done"
        /\ notes' = notes /\ tolerant' = tolerant /\ s' = SkipSpace(s) /\ Return(Top.expr)
    BY DEF PostReturns, At, Keeps
  <1>2. Wrote(<<>>)
    BY <1>0, <1>1, ReadsMore, NReads
  <1>3. FullRow(Top) = <<Top.expr>>
    BY <1>0, <1>1, RowOf
  <1>4. Same(<<Top.expr>>, Cat(FullRow(Top), <<>>))
    BY <1>0, <1>3
  <1>5. Top.expr.kind # "none"
    BY <1>0, <1>1 DEF Tidy
  <1> QED BY <1>1, <1>2, <1>4, <1>5, NReturn

LEMMA ParsePostN ==
  ASSUME SInv, NInv, ParsePost
  PROVE  NInv'
  BY ParsePrimN, ParenEndsN, CallBeginsN, IndexBeginsN, BracketClosesN, AccessN, PostReturnsN DEF ParsePost

-----------------------------------------------------------------------------
(* The operators on the stack of parse_expr.                                 *)

LEMMA OpsTidyLast ==
  ASSUME NEW ops, IsSeq(ops), OpsTidy(ops), ops # <<>>
  PROVE  LET o == Last(ops)
             b == Front(ops)
         IN  /\ o.expr.kids[IF o.depth = CondLayer THEN 3 ELSE 2] = NoNode
             /\ IsSeq(b) /\ OpsTidy(b) /\ ops = Append(b, o)
             /\ b # <<>> /\ Last(b).depth = CondLayer /\ o.depth = CondLayer => ~Wants(Last(b))
             /\ OpsRow(ops) = Cat(OpsRow(b), OpRow(o)) /\ IsSeq(OpsRow(b)) /\ IsSeq(OpRow(o))
  <1> DEFINE o == Last(ops)
             b == Front(ops)
  <1>1. /\ IsSeq(b) /\ Len(b) = Len(ops) - 1 /\ ops = Append(b, o) /\ Len(ops) \in Nat /\ Len(ops) >= 1
        /\ o = ops[Len(ops)] /\ \A i \in 1 .. Len(ops) - 1 : b[i] = ops[i]
    <2>1. IsSeq(b) /\ Len(b) = Len(ops) - 1 /\ ops = Append(b, o) /\ Len(ops) \in Nat /\ Len(ops) >= 1
      BY SeqSplit
    <2>2. o = ops[Len(ops)]
      BY SeqIs DEF IsSeq
    <2>3. \A i \in 1 .. Len(ops) - 1 : b[i] = ops[i]
      BY FrontIs DEF IsSeq
    <2> QED BY <2>1, <2>2, <2>3
  <1>2. Last(b) = b[Len(b)] \/ b = <<>>
    BY <1>1, SeqIs DEF IsSeq
  <1>3. b # <<>> => Len(b) >= 1
    BY <1>1, SeqSplit
  <1>4. OpsRow(ops) = Cat(OpsRow(b), OpRow(o)) /\ IsSeq(OpsRow(b)) /\ IsSeq(OpRow(o))
    <2>1. IsSeq(OpsRow(b))
      BY <1>1, OpsRowCat
    <2> QED BY <1>1, <2>1, OpsRowOne, OpRowSeq
  <1> HIDE DEF o, b
  <1>5. o.expr.kids[IF o.depth = CondLayer THEN 3 ELSE 2] = NoNode
    <2>1. Len(ops) \in 1 .. Len(ops)
      BY <1>1
    <2> QED BY <1>1, <2>1 DEF OpsTidy
  <1>6. OpsTidy(b)
    <2>1. \A i \in 1 .. Len(b) : i \in 1 .. Len(ops) /\ i \in 1 .. Len(ops) - 1
      BY <1>1
    <2>2. \A i \in 1 .. Len(b) - 1 : i \in 1 .. Len(ops) - 1 /\ i + 1 \in 1 .. Len(ops) - 1
      BY <1>1
    <2>3. \A i \in 1 .. Len(b) : b[i].expr.kids[IF b[i].depth = CondLayer THEN 3 ELSE 2] = NoNode
      BY <1>1, <2>1 DEF OpsTidy
    <2>4. \A i \in 1 .. Len(b) - 1 :
            b[i].depth = CondLayer /\ b[i + 1].depth = CondLayer => ~Wants(b[i])
      BY <1>1, <2>2 DEF OpsTidy
    <2> QED BY <2>3, <2>4 DEF OpsTidy
  <1>7. b # <<>> /\ Last(b).depth = CondLayer /\ o.depth = CondLayer => ~Wants(Last(b))
    <2> SUFFICES ASSUME b # <<>>, Last(b).depth = CondLayer, o.depth = CondLayer PROVE ~Wants(Last(b))
      OBVIOUS
    <2>1. Len(b) \in 1 .. Len(ops) - 1 /\ Len(b) + 1 = Len(ops)
      BY <1>1, <1>3
    <2>2. Last(b) = ops[Len(b)]
      BY <1>1, <1>2, <2>1
    <2> QED BY <1>1, <2>1, <2>2 DEF OpsTidy
  <1> QED BY <1>1, <1>4, <1>5, <1>6, <1>7 DEF o, b

LEMMA OpsTidyAppend ==
  ASSUME NEW ops, IsSeq(ops), OpsTidy(ops), NEW o,
         o.expr.kids[IF o.depth = CondLayer THEN 3 ELSE 2] = NoNode,
         ops # <<>> /\ Last(ops).depth = CondLayer /\ o.depth = CondLayer => ~Wants(Last(ops))
  PROVE  /\ IsSeq(Append(ops, o)) /\ OpsTidy(Append(ops, o))
         /\ OpsRow(Append(ops, o)) = Cat(OpsRow(ops), OpRow(o))
  <1> DEFINE c == Append(ops, o)
  <1>1. /\ IsSeq(c) /\ Len(c) = Len(ops) + 1 /\ c[Len(ops) + 1] = o /\ Len(ops) \in Nat
        /\ \A i \in 1 .. Len(ops) : c[i] = ops[i]
    <2>1. c = Longer(ops, o)
      BY DEF Longer
    <2> HIDE DEF c
    <2> QED BY <2>1, LongerIs
  <1>2. OpsRow(c) = Cat(OpsRow(ops), OpRow(o))
    BY OpsRowOne
  <1> HIDE DEF c
  <1>3. ASSUME NEW i \in 1 .. Len(c)
        PROVE  c[i].expr.kids[IF c[i].depth = CondLayer THEN 3 ELSE 2] = NoNode
    <2>1. CASE i = Len(ops) + 1
      BY <1>1, <2>1
    <2>2. CASE i # Len(ops) + 1
      <3>1. i \in 1 .. Len(ops)
        BY <1>1, <2>2
      <3> QED BY <1>1, <3>1 DEF OpsTidy
    <2> QED BY <2>1, <2>2
  <1>4. ASSUME NEW i \in 1 .. Len(c) - 1, c[i].depth = CondLayer, c[i + 1].depth = CondLayer
        PROVE  ~Wants(c[i])
    <2>1. i \in 1 .. Len(ops) /\ c[i] = ops[i]
      BY <1>1
    <2>2. CASE i = Len(ops)
      <3>1. ops # <<>> /\ Last(ops) = ops[Len(ops)]
        <4>1. ops # <<>>
          BY <2>1, SeqTuples
        <4> QED BY <4>1, SeqIs DEF IsSeq
      <3>2. c[i + 1] = o
        BY <1>1, <2>2
      <3> QED BY <1>4, <2>1, <2>2, <3>1, <3>2
    <2>3. CASE i # Len(ops)
      <3>1. i \in 1 .. Len(ops) - 1 /\ i + 1 \in 1 .. Len(ops)
        BY <1>1, <2>1, <2>3
      <3>2. c[i + 1] = ops[i + 1]
        BY <1>1, <3>1
      <3> QED BY <1>4, <2>1, <3>1, <3>2 DEF OpsTidy
    <2> QED BY <2>2, <2>3
  <1>5. OpsTidy(c)
    BY <1>3, <1>4 DEF OpsTidy
  <1> QED BY <1>1, <1>2, <1>5 DEF c

\* An operator gets an operand.
LEMMA EntryRow ==
  ASSUME NEW o, Entry(o), o.expr.kids[IF o.depth = CondLayer THEN 3 ELSE 2] = NoNode, NEW x
  PROVE  /\ o.depth # CondLayer =>
              LET n == WithKid(o.expr, 2, x)
              IN  /\ ~Wants(o) /\ Len(o.expr.kids) = 2 /\ n.kind # "none"
                  /\ Same(<<n>>, Cat(OpRow(o), <<x>>))
         /\ o.depth = CondLayer /\ ~Wants(o) =>
              LET n == WithKid(o.expr, 3, x)
              IN  /\ Len(o.expr.kids) = 3 /\ n.kind # "none"
                  /\ Same(<<n>>, Cat(OpRow(o), <<x>>))
         /\ o.depth = CondLayer /\ Wants(o) /\ x # NoNode =>
              LET p == [o EXCEPT !.expr = WithKid(@, 2, x)]
              IN  /\ ~Wants(p) /\ p.depth = CondLayer /\ p.expr.kids[3] = NoNode
                  /\ Same(OpRow(p), Cat(Cat(OpRow(o), <<x>>), <<Tok(":")>>))
  <1> DEFINE e == o.expr
             k == e.kind
             t == e.text
             a == e.kids[1]
             b == e.kids[2]
  <1>1. CASE o.depth # CondLayer
    <2>1. e = Node(k, t, <<a, NoNode>>) /\ k \in {"binary", "range"}
      BY <1>1 DEF Entry, TwoKids
    <2>2. WithKid(e, 2, x) = Node(k, t, <<a, x>>)
      <3> HIDE DEF e, k, t, a
      <3> QED BY <2>1, NodeIs
    <2>3. ~Wants(o) /\ OpRow(o) = <<e>>
      BY <2>1 DEF Wants, OpRow
    <2>4. Len(e.kids) = 2
      <3> HIDE DEF e, k, t, a
      <3>1. e.kids = <<a, NoNode>>
        BY <2>1, NodeIs
      <3> QED BY <3>1
    <2>5. WithKid(e, 2, x).kind # "none"
      <3> HIDE DEF e, k, t, a
      <3>1. WithKid(e, 2, x).kind = k
        BY <2>2, NodeIs
      <3> QED BY <2>1, <3>1
    <2>6. Same(<<WithKid(e, 2, x)>>, Cat(OpRow(o), <<x>>))
      <3> HIDE DEF e, k, t, a
      <3>1. Same(<<WithKid(e, 2, x)>>, <<e, x>>)
        BY <2>1, <2>2, SameBinary
      <3> QED BY <2>3, <3>1, CatTuples
    <2> QED BY <1>1, <2>3, <2>4, <2>5, <2>6
  <1>2. CASE o.depth = CondLayer
    <2>1. e = Node("cond", t, <<a, b, NoNode>>) /\ k = "cond"
      BY <1>2 DEF Entry, ThreeKids
    <2>2. /\ WithKid(e, 3, x) = Node("cond", t, <<a, b, x>>)
          /\ WithKid(e, 2, x) = Node("cond", t, <<a, x, NoNode>>)
      <3> HIDE DEF e, k, t, a, b
      <3> QED BY <2>1, NodeIs
    <2>3. Len(e.kids) = 3
      <3> HIDE DEF e, k, t, a, b
      <3>1. e.kids = <<a, b, NoNode>>
        BY <2>1, NodeIs
      <3> QED BY <3>1
    <2>4. CASE ~Wants(o)
      <3>1. OpRow(o) = <<e>>
        BY <2>4 DEF OpRow
      <3> HIDE DEF e, k, t, a, b
      <3>2. Same(<<WithKid(e, 3, x)>>, <<e, x>>)
        BY <2>1, <2>2, SameCond
      <3>3. Same(<<WithKid(e, 3, x)>>, Cat(OpRow(o), <<x>>))
        BY <3>1, <3>2, CatTuples
      <3>4. WithKid(e, 3, x).kind = "cond"
        BY <2>2, NodeIs
      <3> QED BY <1>2, <2>3, <2>4, <3>3, <3>4 DEF e
    <2>5. CASE Wants(o) /\ x # NoNode
      <3> DEFINE p == [o EXCEPT !.expr = WithKid(@, 2, x)]
                 n == WithKid(e, 2, x)
      <3>1. OpRow(o) = <<a, Tok("?")>>
        BY <2>5 DEF OpRow
      <3>2. p.expr = n /\ p.depth = CondLayer
        BY <1>2 DEF Entry
      <3>3. n.kids = <<a, x, NoNode>>
        <4> HIDE DEF e, t, a, b
        <4> QED BY <2>2, NodeIs
      <3>4. n.kids[2] = x /\ n.kids[3] = NoNode
        BY <3>3
      <3> HIDE DEF p, n
      <3>5. ~Wants(p) /\ p.expr.kids[3] = NoNode
        BY <2>5, <3>2, <3>4 DEF Wants
      <3>6. OpRow(p) = <<n>>
        BY <3>2, <3>5 DEF OpRow
      <3> HIDE DEF e, k, t, a, b
      <3>7. Same(<<n>>, <<a, Tok("?"), x, Tok(":")>>)
        BY <2>2, SameCond DEF n
      <3>8. Cat(Cat(OpRow(o), <<x>>), <<Tok(":")>>) = <<a, Tok("?"), x, Tok(":")>>
        BY <3>1, CatTuples
      <3>9. Same(OpRow(p), Cat(Cat(OpRow(o), <<x>>), <<Tok(":")>>))
        BY <3>6, <3>7, <3>8
      <3> QED BY <1>2, <2>5, <3>2, <3>5, <3>9 DEF p
    <2> QED BY <1>2, <2>4, <2>5
  <1> QED BY <1>1, <1>2

-----------------------------------------------------------------------------
(* Every step of parse_expr reads what its row goes on with.                 *)

LEMMA UpdateRow ==
  ASSUME NEW f, IsFrame(f), f.fn = "expr", f.pc = "loop", Ordered(f.ops), AtLoop(f), f.depth <= 9,
         Tidy(f), ~WantsThen(f)
  PROVE  LET g == UpdateStack(f)
         IN  /\ IsFrame(g) /\ g.fn = "expr" /\ g.pc = "loop" /\ g.depth = f.depth
             /\ IsSeq(g.ops) /\ OpsTidy(g.ops)
             /\ g.ops # <<>> => g.expr.kind # "none"
             /\ StackIsOnDepth(g) => ~Wants(Last(g.ops))
             /\ IsSeq(OpsRow(g.ops))
             /\ Same(Cat(OpsRow(g.ops), <<g.expr>>), Cat(OpsRow(f.ops), <<f.expr>>))
  <1> DEFINE g == UpdateStack(f)
             o == Last(f.ops)
             b == Front(f.ops)
  <1>1. IsFrame(g) /\ g.fn = "expr" /\ g.pc = "loop" /\ g.depth = f.depth
    BY FrameIs
  <1>2. IsSeq(f.ops) /\ OpsTidy(f.ops) /\ (f.ops # <<>> => f.expr.kind # "none")
    BY DEF Tidy
  <1>3. CASE StackIsOnDepth(f) /\ f.depth \notin {CondLayer, AssignLayer}
    <2>1. g.ops = b /\ g.expr = WithKid(o.expr, 2, f.expr)
      BY <1>3 DEF UpdateStack, IsFrame
    <2>2. f.ops # <<>> /\ o.depth = f.depth
      BY <1>3 DEF StackIsOnDepth
    <2>3. Entry(o)
      BY <2>2, OrderedFront
    <2>4. /\ o.expr.kids[IF o.depth = CondLayer THEN 3 ELSE 2] = NoNode
          /\ IsSeq(b) /\ OpsTidy(b)
          /\ OpsRow(f.ops) = Cat(OpsRow(b), OpRow(o)) /\ IsSeq(OpsRow(b)) /\ IsSeq(OpRow(o))
      BY <1>2, <2>2, OpsTidyLast
    <2>5. /\ g.expr.kind # "none"
          /\ Same(<<g.expr>>, Cat(OpRow(o), <<f.expr>>))
      <3>1. o.depth # CondLayer
        BY <1>3, <2>2
      <3> QED BY <2>1, <2>3, <2>4, <3>1, EntryRow
    <2>6. Under(g.ops, f.depth) /\ ~RightAssoc(f.depth)
      BY <1>3, UpdateStackIs DEF RightAssoc
    <2>7. ~StackIsOnDepth(g)
      <3>1. g.ops # <<>> => f.depth < Last(g.ops).depth
        BY <2>6 DEF Under
      <3>2. g.ops # <<>> => Last(g.ops).depth \in Nat
        <4>1. Ordered(g.ops)
          BY UpdateStackIs
        <4>2. g.ops # <<>> => Entry(Last(g.ops))
          BY <4>1, OrderedFront
        <4> QED BY <4>2 DEF Entry
      <3>3. f.depth \in Nat
        BY DEF AtLoop
      <3> HIDE DEF g
      <3> QED BY <1>1, <3>1, <3>2, <3>3 DEF StackIsOnDepth
    <2> HIDE DEF g, o, b
    <2>8. Same(Cat(OpsRow(g.ops), <<g.expr>>), Cat(OpsRow(f.ops), <<f.expr>>))
      <3>1. Same(OpsRow(b), OpsRow(b))
        BY <2>4, SameIs
      <3>2. Same(Cat(OpsRow(b), <<g.expr>>), Cat(OpsRow(b), Cat(OpRow(o), <<f.expr>>)))
        BY <2>5, <3>1, SameCat
      <3>3. Cat(OpsRow(b), Cat(OpRow(o), <<f.expr>>)) = Cat(OpsRow(f.ops), <<f.expr>>)
        BY <2>4, SeqTuples, CatAssoc
      <3> QED BY <2>1, <3>2, <3>3
    <2> QED BY <1>1, <2>1, <2>4, <2>5, <2>7, <2>8 DEF g
  <1>4. CASE ~(StackIsOnDepth(f) /\ f.depth \notin {CondLayer, AssignLayer})
    <2>1. g = f
      BY <1>4 DEF UpdateStack
    <2> HIDE DEF g
    <2>2. IsSeq(OpsRow(f.ops))
      BY <1>2, RowOf
    <2>3. IsSeq(Cat(OpsRow(f.ops), <<f.expr>>))
      BY <2>2, SeqTuples, CatIs
    <2>4. StackIsOnDepth(g) => ~Wants(Last(g.ops))
      BY <2>1 DEF WantsThen, Wants
    <2> QED BY <1>1, <1>2, <2>1, <2>2, <2>3, <2>4, SameIs DEF g
  <1> QED BY <1>3, <1>4

LEMMA NExprGoes ==
  ASSUME SInv, NInv, Top.fn = "expr", status' # "done", prog' = prog, NEW g, GoesOn(g), IsFrame(g),
         g.fn = "expr", g.pc \in {"loop", "pop"}, IsSeq(g.ops), OpsTidy(g.ops),
         g.ops # <<>> => g.expr.kind # "none",
         g.pc = "pop" /\ StackIsOnDepth(g) => ~Wants(Last(g.ops)),
         NEW w, Wrote(w), Same(Cat(OpsRow(g.ops), <<g.expr>>), Cat(FullRow(Top), w))
  PROVE  NInv'
  <1>1. Tidy(g) /\ RetTidy(g)
    BY DEF Tidy, RetTidy, Waiting
  <1>2. FullRow(g) = Cat(OpsRow(g.ops), <<g.expr>>)
    BY RowOf
  <1>3. Same(FullRow(g), Cat(FullRow(Top), w))
    BY <1>2
  <1> QED BY <1>1, <1>3, NGoesOn

LEMMA ExprBeginsN ==
  ASSUME SInv, PInv, NInv, ExprBegins
  PROVE  NInv'
  <1>0. /\ Shape(calls) /\ IsFrame(Top) /\ IsSeq(Top.ops) /\ IsSeq(prog) /\ Tidy(Top) /\ RetTidy(Top)
        /\ StreamOK(s) /\ Reads(s, s, <<>>) /\ IsSeq(<<>>)
        /\ IsSeq(FullRow(Top)) /\ Same(FullRow(Top), Cat(FullRow(Top), <<>>))
    BY NTop
  <1>1. /\ Top.fn = "expr" /\ Top.pc = "enter" /\ status' # "done" /\ prog' = prog /\ notes' = notes
        /\ tolerant' = tolerant
    BY DEF ExprBegins, At, Keeps
  <1>2. Top = Frame("expr")
    BY <1>1, FramesTop DEF PInv, FrameOK
  <1>3. Top.ops = <<>> /\ Top.expr = NoNode
    <2> DEFINE e == Frame("expr")
    <2>1. e.ops = <<>> /\ e.expr = NoNode
      BY DEF Frame
    <2> HIDE DEF e
    <2> QED BY <1>2, <2>1 DEF e
  <1>4. OpsRow(<<>>) = <<>> /\ OpsTidy(<<>>)
    <2>1. OpsTidy(<<>>)
      <3>1. 1 .. Len(<<>>) = {} /\ 1 .. Len(<<>>) - 1 = {}
        OBVIOUS
      <3> QED BY <3>1 DEF OpsTidy
    <2> QED BY <2>1, OpsRowOne
  <1>5. FullRow(Top) = <<>>
    <2>1. FullRow(Top) = OpsRow(Top.ops)
      BY <1>0, <1>1, RowOf
    <2> QED BY <1>3, <1>4, <2>1
  <1>6. CASE AtRange(s)
    <2> DEFINE g == [Top EXCEPT !.pc = "loop"]
    <2>1. s' = SetRegexMode(MaybeParse(s), FALSE) /\ GoesOn(g)
      BY <1>6 DEF ExprBegins
    <2>2. Wrote(<<>>)
      <3>1. Reads(s, MaybeParse(s), <<>>)
        BY <1>0, ReadsMore
      <3>2. Reads(s, s', <<>>)
        BY <1>0, <2>1, <3>1, ReadsMore
      <3> QED BY <1>1, <3>2, NReads
    <2>3. g.fn = "expr" /\ g.pc = "loop" /\ g.ops = <<>> /\ g.expr = NoNode /\ IsFrame(g)
      BY <1>0, <1>1, <1>3 DEF IsFrame
    <2> HIDE DEF g
    <2>4. Same(Cat(OpsRow(g.ops), <<g.expr>>), Cat(FullRow(Top), <<>>))
      <3>1. Cat(<<>>, <<NoNode>>) = <<NoNode>> /\ Cat(<<>>, <<>>) = <<>>
        BY CatIs, SeqTuples
      <3> QED BY <1>4, <1>5, <2>3, <3>1, SameNothing
    <2>5. IsSeq(g.ops) /\ OpsTidy(g.ops) /\ g.ops = <<>> /\ g.pc # "pop"
      BY <1>0, <1>4, <2>3
    <2> QED BY <1>1, <2>1, <2>2, <2>3, <2>4, <2>5, NExprGoes
  <1>7. CASE ~AtRange(s)
    <2> DEFINE g == [Top EXCEPT !.pc = "first"]
    <2>1. s' = MaybeParse(s) /\ Call(Top, "first", "unary")
      BY <1>7 DEF ExprBegins
    <2>2. Wrote(<<>>)
      BY <1>0, <1>1, <2>1, ReadsMore, NReads
    <2>3. g.fn = "expr" /\ g.pc = "first" /\ g.ops = <<>> /\ IsFrame(g)
      BY <1>0, <1>1, <1>3 DEF IsFrame
    <2> HIDE DEF g
    <2>4. Tidy(g) /\ Waits(g, Frame("unary"))
      BY <1>0, <1>4, <2>3, FrameIs DEF Tidy, Waits
    <2>5. Same(FrameRow(g), Cat(FullRow(Top), <<>>))
      <3>1. FrameRow(g) = OpsRow(g.ops)
        BY <1>0, <2>3, RowOf
      <3> QED BY <1>0, <1>4, <1>5, <2>3, <3>1
    <2> QED BY <1>0, <1>1, <2>1, <2>2, <2>4, <2>5, NCall DEF g
  <1> QED BY <1>6, <1>7

LEMMA GetsOperandN ==
  ASSUME SInv, PInv, NInv, GetsOperand
  PROVE  NInv'
  <1>0. /\ Shape(calls) /\ IsFrame(Top) /\ IsSeq(Top.ops) /\ IsSeq(prog) /\ Tidy(Top) /\ RetTidy(Top)
        /\ StreamOK(s) /\ Reads(s, s, <<>>) /\ IsSeq(<<>>)
        /\ IsSeq(FullRow(Top)) /\ Same(FullRow(Top), Cat(FullRow(Top), <<>>))
    BY NTop
  <1> DEFINE E(pc) == IF pc = "right" THEN WithKid(Top.expr, 2, Top.ret) ELSE Top.ret
             G(pc) == [Top EXCEPT !.pc = "loop", !.depth = 1, !.expr = E(pc)]
  <1>1. PICK pc \in {"first", "low", "right"} :
          /\ At("expr", pc)
          /\ s' = IF pc = "first" THEN SetRegexMode(s, FALSE) ELSE s
          /\ GoesOn(G(pc))
    BY DEF GetsOperand
  <1>2. /\ Top.fn = "expr" /\ Top.pc = pc /\ status' # "done" /\ prog' = prog /\ notes' = notes
        /\ tolerant' = tolerant
    BY <1>1 DEF GetsOperand, At, Keeps
  <1>3. Wrote(<<>>)
    BY <1>0, <1>1, <1>2, ReadsMore, NReads
  <1> DEFINE g == G(pc)
  <1>4. g.fn = "expr" /\ g.pc = "loop" /\ g.ops = Top.ops /\ g.expr = E(pc) /\ IsFrame(g)
    BY <1>0, <1>2 DEF IsFrame
  <1>5. GoesOn(g)
    BY <1>1
  <1>6. OpsTidy(Top.ops) /\ IsSeq(OpsRow(Top.ops)) /\ Top.ret.kind # "none"
    BY <1>0, <1>2, RowOf DEF Tidy, RetTidy, Waiting
  <1>7. g.expr.kind # "none" /\ Same(Cat(OpsRow(g.ops), <<g.expr>>), FullRow(Top))
    <2>1. CASE pc # "right"
      <3>1. g.expr = Top.ret
        BY <1>4, <2>1
      <3>2. FullRow(Top) = Cat(OpsRow(Top.ops), <<Top.ret>>)
        BY <1>0, <1>2, <2>1, RowOf
      <3> HIDE DEF g
      <3> QED BY <1>0, <1>4, <1>6, <3>1, <3>2, SameIs
    <2>2. CASE pc = "right"
      <3> DEFINE m == Top.expr
                 k == m.kind
                 t == m.text
                 a == m.kids[1]
      <3>1. AtRight(m) /\ m.kids[2] = NoNode
        BY <1>0, <1>2, <2>2, FramesTop DEF PInv, FrameOK, Tidy
      <3>2. m = Node("binary", t, <<a, NoNode>>)
        BY <3>1 DEF AtRight, TwoKids
      <3>3. g.expr = WithKid(m, 2, Top.ret)
        BY <1>4, <2>2
      <3> HIDE DEF m, t, a, g
      <3>4. g.expr = Node("binary", t, <<a, Top.ret>>)
        BY <3>2, <3>3, NodeIs
      <3>5. g.expr.kind = "binary"
        BY <3>4, NodeIs
      <3>6. Same(<<g.expr>>, <<m, Top.ret>>)
        BY <3>2, <3>4, SameBinary
      <3>7. FullRow(Top) = Cat(Cat(OpsRow(Top.ops), <<m>>), <<Top.ret>>)
        BY <1>0, <1>2, <2>2, RowOf DEF m
      <3>8. FullRow(Top) = Cat(OpsRow(Top.ops), <<m, Top.ret>>)
        <4>1. IsSeq(<<m>>) /\ IsSeq(<<Top.ret>>) /\ Cat(<<m>>, <<Top.ret>>) = <<m, Top.ret>>
          BY SeqTuples, CatTuples
        <4> QED BY <1>6, <3>7, <4>1, CatAssoc
      <3>9. Same(OpsRow(Top.ops), OpsRow(Top.ops))
        BY <1>6, SameIs
      <3>10. Same(Cat(OpsRow(Top.ops), <<g.expr>>), Cat(OpsRow(Top.ops), <<m, Top.ret>>))
        BY <3>6, <3>9, SameCat
      <3> QED BY <1>4, <3>5, <3>8, <3>10
    <2> QED BY <2>1, <2>2
  <1> HIDE DEF g
  <1>8. Same(Cat(OpsRow(g.ops), <<g.expr>>), Cat(FullRow(Top), <<>>))
    BY <1>0, <1>7, SameIs
  <1>9. IsSeq(g.ops) /\ OpsTidy(g.ops) /\ g.pc # "pop"
    BY <1>0, <1>4, <1>6
  <1> QED BY <1>2, <1>3, <1>4, <1>5, <1>7, <1>8, <1>9, NExprGoes

LEMMA TakesThenN ==
  ASSUME SInv, PInv, NInv, TakesThen
  PROVE  NInv'
  <1> DEFINE t == SkipWhite(s)
             x == Tok(":")
             o == Last(Top.ops)
             b == Front(Top.ops)
             e == Top.expr
             p == [o EXCEPT !.expr = WithKid(@, 2, e)]
             f == [Top EXCEPT !.ops[Len(Top.ops)].expr = WithKid(@, 2, Top.expr)]
             g == [f EXCEPT !.pc = "low"]
  <1>0. /\ Shape(calls) /\ IsFrame(Top) /\ IsSeq(Top.ops) /\ IsSeq(prog) /\ Tidy(Top)
        /\ StreamOK(s) /\ Reads(s, s, <<>>) /\ IsSeq(<<>>)
    BY NTop
  <1>1. CASE ~Expect(t, ":")
    BY <1>1, NEnds DEF TakesThen
  <1>2. CASE Expect(t, ":")
    <2>1. /\ Top.fn = "expr" /\ Top.pc = "loop" /\ status' # "done" /\ prog' = prog /\ notes' = notes
          /\ tolerant' = tolerant /\ s' = SkipWhite(Consume(t)) /\ Call(f, "low", "unary") /\ WantsThen(Top)
      BY <1>2 DEF TakesThen, At, Keeps
    <2>2. Wrote(<<x>>)
      <3>1. Reads(s, t, <<>>) /\ ":" \notin {Space, Line, Hash}
        BY <1>0, ReadsMore DEF Space, Line, Hash
      <3>2. Cat(<<>>, <<x>>) = <<x>>
        BY CatIs, SeqTuples
      <3>3. Reads(s, Consume(t), <<x>>)
        BY <1>0, <1>2, <3>1, <3>2, ReadsText
      <3> QED BY <1>0, <2>1, <3>3, ReadsMore, NReads
    <2>3. Top.ops # <<>> /\ Wants(o) /\ Ordered(Top.ops) /\ OpsTidy(Top.ops) /\ e.kind # "none"
      BY <1>0, <2>1, FramesTop DEF PInv, FrameOK, WantsThen, StackIsOnDepth, Wants, Tidy
    <2>4. Entry(o) /\ o.depth = CondLayer /\ o = Top.ops[Len(Top.ops)] /\ Len(Top.ops) \in Nat
          /\ Len(Top.ops) >= 1
      <3>1. Entry(o) /\ o = Top.ops[Len(Top.ops)] /\ Len(Top.ops) \in Nat /\ Len(Top.ops) >= 1
        BY <2>3, OrderedFront
      <3> HIDE DEF o
      <3> QED BY <2>3, <3>1 DEF Wants, Entry
    <2>5. f = [Top EXCEPT !.ops = Append(b, p)]
      <3>1. [Top.ops EXCEPT ![Len(Top.ops)].expr = WithKid(@, 2, e)] = [Top.ops EXCEPT ![Len(Top.ops)] = p]
        BY <1>0, <2>4 DEF IsSeq
      <3>2. [Top.ops EXCEPT ![Len(Top.ops)] = p] = Append(b, p)
        <4> DEFINE c == Top.ops
        <4>1. c \in Seq(ToSet(c)) /\ c # <<>>
          BY <1>0, <2>3 DEF IsSeq
        <4>2. b = Front(c)
          OBVIOUS
        <4> HIDE DEF b, c, p
        <4>3. [c EXCEPT ![Len(c)] = p] = Append(Front(c), p)
          BY <4>1, LastReplaced
        <4> QED BY <4>2, <4>3, Zenon DEF c
      <3>3. [Top EXCEPT !.ops[Len(Top.ops)].expr = WithKid(@, 2, Top.expr)]
              = [Top EXCEPT !.ops = [Top.ops EXCEPT ![Len(Top.ops)].expr = WithKid(@, 2, e)]]
        BY <1>0 DEF IsFrame
      <3> QED BY <3>1, <3>2, <3>3
    <2>6. e # NoNode
      BY <2>3, NodeIs DEF NoNode
    <2>7. /\ o.expr.kids[IF o.depth = CondLayer THEN 3 ELSE 2] = NoNode
          /\ IsSeq(b) /\ OpsTidy(b) /\ (b # <<>> /\ Last(b).depth = CondLayer => ~Wants(Last(b)))
          /\ OpsRow(Top.ops) = Cat(OpsRow(b), OpRow(o)) /\ IsSeq(OpsRow(b)) /\ IsSeq(OpRow(o))
      BY <1>0, <2>3, <2>4, OpsTidyLast
    <2>8. /\ ~Wants(p) /\ p.depth = CondLayer /\ p.expr.kids[3] = NoNode
          /\ Same(OpRow(p), Cat(Cat(OpRow(o), <<e>>), <<x>>))
      BY <2>3, <2>4, <2>6, <2>7, EntryRow
    <2> HIDE DEF o, b, e, p, f
    <2>9. IsSeq(Append(b, p)) /\ OpsTidy(Append(b, p)) /\ OpsRow(Append(b, p)) = Cat(OpsRow(b), OpRow(p))
      BY <2>7, <2>8, OpsTidyAppend
    <2>10. IsFrame(f) /\ f.fn = "expr" /\ g.fn = "expr" /\ g.pc = "low" /\ g.ops = Append(b, p) /\ IsFrame(g)
      BY <1>0, <2>1, <2>5 DEF IsFrame
    <2>11. Waits(g, Frame("unary")) /\ Tidy(g)
      <3> HIDE DEF g
      <3> QED BY <2>9, <2>10, FrameIs DEF Waits, Tidy
    <2>12. Same(FrameRow(g), Cat(FullRow(Top), <<x>>))
      <3> DEFINE B == OpsRow(b)
                 O == OpRow(o)
                 r == Cat(O, <<e>>)
      <3>1. FrameRow(g) = Cat(B, OpRow(p))
        <4> HIDE DEF g
        <4> QED BY <2>9, <2>10, RowOf
      <3>2. FullRow(Top) = Cat(Cat(B, O), <<e>>)
        BY <1>0, <2>1, <2>7, RowOf DEF e
      <3>3. IsSeq(<<e>>) /\ IsSeq(<<x>>) /\ IsSeq(B) /\ IsSeq(O) /\ IsSeq(r)
        BY <2>7, SeqTuples, CatIs
      <3>4. FullRow(Top) = Cat(B, r)
        BY <3>2, <3>3, CatAssoc
      <3>5. Cat(FullRow(Top), <<x>>) = Cat(B, Cat(r, <<x>>))
        <4> HIDE DEF B, r
        <4> QED BY <3>3, <3>4, CatAssoc
      <3>6. Same(B, B)
        BY <3>3, SameIs
      <3>7. Same(Cat(B, OpRow(p)), Cat(B, Cat(r, <<x>>)))
        <4> HIDE DEF B
        <4> QED BY <2>8, <3>6, SameCat
      <3> QED BY <3>1, <3>5, <3>7
    <2> QED BY <1>0, <2>1, <2>2, <2>10, <2>11, <2>12, NCall
  <1> QED BY <1>1, <1>2

\* What the loop of parse_expr begins with.
LEMMA NLoop ==
  ASSUME SInv, PInv, NInv, InLoop
  PROVE  LET f == UpdateStack(Top)
         IN  /\ Top.fn = "expr" /\ Top.pc = "loop" /\ Top.depth \in 1 .. 9 /\ status = "run"
             /\ IsFrame(f) /\ f.fn = "expr" /\ f.pc = "loop" /\ f.depth = Top.depth
             /\ IsSeq(f.ops) /\ OpsTidy(f.ops) /\ IsSeq(OpsRow(f.ops))
             /\ f.ops # <<>> => f.expr.kind # "none"
             /\ StackIsOnDepth(f) => ~Wants(Last(f.ops))
             /\ Same(Cat(OpsRow(f.ops), <<f.expr>>), FullRow(Top)) /\ IsSeq(FullRow(Top))
             /\ ~At("parse", "shrunk")
  <1>0. IsFrame(Top) /\ IsSeq(Top.ops) /\ Tidy(Top) /\ IsSeq(FullRow(Top))
    BY NTop
  <1>1. Top.fn = "expr" /\ Top.pc = "loop" /\ Top.depth <= 9 /\ status = "run" /\ ~WantsThen(Top)
    BY LayerNumbers DEF InLoop, At
  <1>2. Ordered(Top.ops) /\ AtLoop(Top)
    BY <1>1, FramesTop DEF PInv, FrameOK
  <1>3. Top.depth \in 1 .. 9
    BY <1>1, <1>2 DEF AtLoop
  <1>4. FullRow(Top) = Cat(OpsRow(Top.ops), <<Top.expr>>)
    BY <1>0, <1>1, RowOf
  <1>5. ~At("parse", "shrunk")
    BY <1>1 DEF At
  <1> QED BY <1>0, <1>1, <1>2, <1>3, <1>4, <1>5, UpdateRow

\* An operator is pushed.
LEMMA NPushes ==
  ASSUME SInv, NInv, Top.fn = "expr", status' # "done", prog' = prog, NEW f, IsFrame(f), f.fn = "expr",
         IsSeq(f.ops), OpsTidy(f.ops), IsSeq(OpsRow(f.ops)), IsSeq(FullRow(Top)),
         StackIsOnDepth(f) => ~Wants(Last(f.ops)),
         Same(Cat(OpsRow(f.ops), <<f.expr>>), FullRow(Top)), NEW node,
         node.kids[IF f.depth = CondLayer THEN 3 ELSE 2] = NoNode,
         Call([f EXCEPT !.ops = Append(@, [depth |-> f.depth, expr |-> node])], "low", "unary"),
         NEW op, Wrote(<<Tok(op)>>), Same(OpRow([depth |-> f.depth, expr |-> node]), <<f.expr, Tok(op)>>)
  PROVE  NInv'
  <1> DEFINE o == [depth |-> f.depth, expr |-> node]
             h == [f EXCEPT !.ops = Append(@, o)]
             g == [h EXCEPT !.pc = "low"]
             B == OpsRow(f.ops)
             x == Tok(op)
             e == f.expr
  <1>1. o.depth = f.depth /\ o.expr = node
    OBVIOUS
  <1>2. Call(h, "low", "unary") /\ Same(OpRow(o), <<e, x>>)
    OBVIOUS
  <1> HIDE DEF o
  <1>3. IsSeq(Append(f.ops, o)) /\ OpsTidy(Append(f.ops, o)) /\ OpsRow(Append(f.ops, o)) = Cat(B, OpRow(o))
    <2>1. f.ops # <<>> /\ Last(f.ops).depth = CondLayer /\ o.depth = CondLayer => ~Wants(Last(f.ops))
      BY <1>1 DEF StackIsOnDepth
    <2>2. o.expr.kids[IF o.depth = CondLayer THEN 3 ELSE 2] = NoNode
      BY <1>1
    <2> QED BY <2>1, <2>2, OpsTidyAppend
  <1>4. IsFrame(h) /\ h.fn = "expr" /\ g.fn = "expr" /\ g.pc = "low" /\ g.ops = Append(f.ops, o) /\ IsFrame(g)
    BY DEF IsFrame
  <1> HIDE DEF h
  <1>5. Tidy(g) /\ Waits(g, Frame("unary"))
    <2> HIDE DEF g
    <2> QED BY <1>3, <1>4, FrameIs DEF Waits, Tidy
  <1>6. FrameRow(g) = Cat(B, OpRow(o))
    <2> HIDE DEF g
    <2> QED BY <1>3, <1>4, RowOf
  <1>7. Same(Cat(B, OpRow(o)), Cat(FullRow(Top), <<x>>))
    <2>1. IsSeq(<<e>>) /\ IsSeq(<<x>>) /\ Cat(<<e>>, <<x>>) = <<e, x>>
      BY SeqTuples, CatTuples
    <2>2. Same(B, B) /\ Same(<<x>>, <<x>>)
      BY <2>1, SameIs
    <2>3. Same(Cat(B, <<e>>), FullRow(Top))
      OBVIOUS
    <2> HIDE DEF B, x, e
    <2>4. Same(Cat(B, OpRow(o)), Cat(B, <<e, x>>))
      BY <1>2, <2>2, SameCat
    <2>5. Cat(B, <<e, x>>) = Cat(Cat(B, <<e>>), <<x>>)
      <3>1. IsSeq(B)
        BY DEF B
      <3>2. IsSeq(<<e>>) /\ IsSeq(<<x>>)
        BY <2>1
      <3>3. Cat(B, Cat(<<e>>, <<x>>)) = Cat(Cat(B, <<e>>), <<x>>)
        BY <3>1, <3>2, CatAssoc
      <3> QED BY <2>1, <3>3
    <2>6. Same(Cat(Cat(B, <<e>>), <<x>>), Cat(FullRow(Top), <<x>>))
      BY <2>2, <2>3, SameCat
    <2> QED BY <2>4, <2>5, <2>6, SameIs
  <1>8. Same(FrameRow(g), Cat(FullRow(Top), <<Tok(op)>>))
    BY <1>6, <1>7
  <1> QED BY <1>2, <1>4, <1>5, <1>8, NCall

\* n is an operator of layer d that has a and lacks its other operand.
HalfBuilt(d, a, op, n) ==
  /\ n.kids[2] = NoNode /\ n.kind # "none" /\ Same(<<n>>, <<a, Tok(op)>>)
  /\ Same(OpRow([depth |-> d, expr |-> n]), <<a, Tok(op)>>)

LEMMA PushedRow ==
  ASSUME NEW d, NEW a, NEW op, d # CondLayer
  PROVE  \A k \in {"binary", "range"} : HalfBuilt(d, a, op, Node(k, op, <<a, NoNode>>))
  <1>1. ASSUME NEW k \in {"binary", "range"}
        PROVE  HalfBuilt(d, a, op, Node(k, op, <<a, NoNode>>))
    <2> DEFINE n == Node(k, op, <<a, NoNode>>)
               o == [depth |-> d, expr |-> n]
    <2>1. n.kind = k /\ n.kids = <<a, NoNode>>
      BY NodeIs
    <2>2. Same(<<n>>, <<a, Tok(op)>>)
      BY SameBinary
    <2>3. o.expr = n
      OBVIOUS
    <2> HIDE DEF n, o
    <2>4. OpRow(o) = <<n>>
      BY <2>1, <2>3 DEF OpRow, Wants
    <2>5. n.kids[2] = NoNode
      BY <2>1
    <2> QED BY <2>1, <2>2, <2>4, <2>5 DEF n, o, HalfBuilt
  <1> QED BY <1>1

LEMMA PushedCondRow ==
  ASSUME NEW a
  PROVE  /\ Cond(a).kids[3] = NoNode
         /\ Same(OpRow([depth |-> CondLayer, expr |-> Cond(a)]), <<a, Tok("?")>>)
  <1> DEFINE n == Cond(a)
             o == [depth |-> CondLayer, expr |-> n]
  <1>1. n.kind = "cond" /\ n.kids = <<a, NoNode, NoNode>>
    BY NodeIs DEF Cond
  <1>2. o.expr = n
    OBVIOUS
  <1> HIDE DEF n, o
  <1>3. n.kids[1] = a /\ n.kids[2] = NoNode /\ n.kids[3] = NoNode
    BY <1>1
  <1>4. OpRow(o) = <<a, Tok("?")>>
    BY <1>1, <1>2, <1>3 DEF OpRow, Wants
  <1>5. Same(OpRow(o), <<a, Tok("?")>>)
    BY <1>4, SeqTuples, SameIs
  <1> QED BY <1>3, <1>5 DEF n, o

LEMMA TakesOperatorN ==
  ASSUME SInv, PInv, NInv, TakesOperator
  PROVE  NInv'
  <1> DEFINE f  == UpdateStack(Top)
             t  == SkipSpace(s)
             op == Cur(t).text
             u  == SetRegexMode(Consume(t), TRUE)
             Pushes(node) == Call([f EXCEPT !.ops = Append(@, [depth |-> f.depth, expr |-> node])],
                                  "low", "unary")
             x == Tok(op)
  <1>0. StreamOK(s) /\ Reads(s, s, <<>>) /\ IsSeq(<<>>)
    BY NTop
  <1>1. InLoop /\ OpAt(t, f.depth)
    BY DEF TakesOperator
  <1>2. /\ Top.fn = "expr" /\ Top.pc = "loop" /\ Top.depth \in 1 .. 9 /\ status = "run"
        /\ IsFrame(f) /\ f.fn = "expr" /\ f.pc = "loop" /\ f.depth = Top.depth
        /\ IsSeq(f.ops) /\ OpsTidy(f.ops) /\ IsSeq(OpsRow(f.ops))
        /\ f.ops # <<>> => f.expr.kind # "none"
        /\ StackIsOnDepth(f) => ~Wants(Last(f.ops))
        /\ Same(Cat(OpsRow(f.ops), <<f.expr>>), FullRow(Top)) /\ IsSeq(FullRow(Top))
    BY <1>1, NLoop
  <1> HIDE DEF f
  <1>3. ~Eos(t) /\ op \in BinLayers[f.depth] \ {":"}
    BY <1>1 DEF OpAt
  <1>4. op \notin {Space, Line, Hash} /\ (f.depth = CondLayer => op = "?")
    <2>1. f.depth \in 1 .. 9
      BY <1>2
    <2>2. op \notin {Space, Line, Hash}
      BY <1>3, <2>1, LayerIs DEF Space, Line, Hash
    <2>3. \A text : text \in BinLayers[6] => text \in {"?", ":"}
      BY DEF BinLayers
    <2>4. f.depth = CondLayer => op = "?"
      BY <1>3, <2>3, LayerNumbers
    <2> QED BY <2>2, <2>4
  <1>5. Reads(s, u, <<x>>)
    <2>1. Reads(s, t, <<>>)
      BY <1>0, ReadsMore
    <2>2. Cat(<<>>, <<x>>) = <<x>>
      BY CatIs, SeqTuples
    <2>3. Reads(s, Consume(t), Cat(<<>>, <<x>>))
      BY <1>0, <1>3, <1>4, <2>1, ReadsMore
    <2>4. Reads(s, Consume(t), <<x>>)
      BY <2>2, <2>3
    <2> QED BY <1>0, <2>4, ReadsMore
  <1>6. /\ Reads(s, SkipWhite(u), <<x>>) /\ Reads(s, SkipSpace(u), <<x>>)
        /\ Reads(s, SkipWhite(SkipSpace(u)), <<x>>)
    <2>1. Reads(s, SkipSpace(u), <<x>>)
      BY <1>0, <1>5, ReadsMore
    <2> QED BY <1>0, <1>5, <2>1, ReadsMore
  <1>7. \/ Throw
        \/ f.depth = CondLayer /\ s' = SkipWhite(u) /\ Pushes(Cond(f.expr)) /\ Keeps
        \/ f.depth # CondLayer /\ s' = SkipWhite(SkipSpace(u)) /\ Pushes(RangeOf(op, f.expr)) /\ Keeps
        \/ f.depth # CondLayer /\ s' = SkipSpace(u) /\ GoesOn([f EXCEPT !.expr = RangeOf(op, @)]) /\ Keeps
        \/ /\ f.depth # CondLayer /\ s' = SkipWhite(u)
           /\ Call([f EXCEPT !.expr = Binary(op, @)], "right", "unary") /\ Keeps
        \/ f.depth # CondLayer /\ s' = SkipWhite(u) /\ Pushes(Binary(op, f.expr)) /\ Keeps
    <2>1. CASE f.depth = CondLayer
      BY <2>1, LayerNumbers DEF TakesOperator, f
    <2>2. CASE f.depth # CondLayer
      BY <2>2 DEF TakesOperator, f
    <2> QED BY <2>1, <2>2
  <1> HIDE DEF t, u, op
  <1>8. \A k \in {"binary", "range"} :
          f.depth # CondLayer =>
            LET n == Node(k, op, <<f.expr, NoNode>>)
            IN  /\ n.kids[2] = NoNode /\ n.kind # "none" /\ Same(<<n>>, <<f.expr, x>>)
                /\ Same(OpRow([depth |-> f.depth, expr |-> n]), <<f.expr, x>>)
    <2>1. f.depth # CondLayer =>
            \A k \in {"binary", "range"} :
              HalfBuilt(f.depth, f.expr, op, Node(k, op, <<f.expr, NoNode>>))
      BY PushedRow
    <2> QED BY <2>1, Zenon DEF HalfBuilt
  <1>9. f.depth = CondLayer => /\ Cond(f.expr).kids[3] = NoNode
                               /\ Same(OpRow([depth |-> f.depth, expr |-> Cond(f.expr)]), <<f.expr, x>>)
    <2>1. /\ Cond(f.expr).kids[3] = NoNode
          /\ Same(OpRow([depth |-> CondLayer, expr |-> Cond(f.expr)]), <<f.expr, Tok("?")>>)
      BY PushedCondRow
    <2>2. f.depth = CondLayer => x = Tok("?")
      BY <1>4
    <2> HIDE DEF x
    <2> QED BY <2>1, <2>2
  <1>10. ASSUME Keeps PROVE status' # "done" /\ prog' = prog /\ notes' = notes /\ tolerant' = tolerant
    BY <1>2, <1>10 DEF Keeps
  <1>11. ASSUME Keeps, s' \in {SkipWhite(u), SkipSpace(u), SkipWhite(SkipSpace(u))} PROVE Wrote(<<x>>)
    BY <1>6, <1>10, <1>11, NReads
  <1>12. CASE Throw
    BY <1>12, NEnds
  <1>13. CASE f.depth = CondLayer /\ s' = SkipWhite(u) /\ Pushes(Cond(f.expr)) /\ Keeps
    <2>1. Wrote(<<x>>)
      BY <1>11, <1>13
    <2> QED BY <1>2, <1>9, <1>10, <1>13, <2>1, NPushes
  <1>14. CASE f.depth # CondLayer /\ s' = SkipWhite(SkipSpace(u)) /\ Pushes(RangeOf(op, f.expr)) /\ Keeps
    <2>1. Wrote(<<x>>)
      BY <1>11, <1>14
    <2>2. RangeOf(op, f.expr) = Node("range", op, <<f.expr, NoNode>>)
      BY DEF RangeOf
    <2> QED BY <1>2, <1>8, <1>10, <1>14, <2>1, <2>2, NPushes
  <1>15. CASE f.depth # CondLayer /\ s' = SkipWhite(u) /\ Pushes(Binary(op, f.expr)) /\ Keeps
    <2>1. Wrote(<<x>>)
      BY <1>11, <1>15
    <2>2. Binary(op, f.expr) = Node("binary", op, <<f.expr, NoNode>>)
      BY DEF Binary
    <2> QED BY <1>2, <1>8, <1>10, <1>15, <2>1, <2>2, NPushes
  <1>16. ASSUME NEW n, Same(<<n>>, <<f.expr, x>>)
         PROVE  Same(Cat(OpsRow(f.ops), <<n>>), Cat(FullRow(Top), <<x>>))
    <2> DEFINE B == OpsRow(f.ops)
               e == f.expr
    <2>1. Same(Cat(B, <<e>>), FullRow(Top)) /\ IsSeq(B) /\ Same(<<n>>, <<e, x>>)
      BY <1>2, <1>16
    <2> HIDE DEF B, e, x
    <2>2. IsSeq(<<e>>) /\ IsSeq(<<x>>) /\ Cat(<<e>>, <<x>>) = <<e, x>>
      BY SeqTuples, CatTuples
    <2>3. Same(B, B) /\ Same(<<x>>, <<x>>)
      BY <2>1, <2>2, SameIs
    <2>4. Same(Cat(B, <<n>>), Cat(B, <<e, x>>))
      BY <2>1, <2>3, SameCat
    <2>5. Cat(B, Cat(<<e>>, <<x>>)) = Cat(Cat(B, <<e>>), <<x>>)
      BY <2>1, <2>2, CatAssoc
    <2>6. Same(Cat(Cat(B, <<e>>), <<x>>), Cat(FullRow(Top), <<x>>))
      BY <2>1, <2>3, SameCat
    <2> QED BY <2>2, <2>4, <2>5, <2>6, SameIs DEF B
  <1>17. CASE f.depth # CondLayer /\ s' = SkipSpace(u) /\ GoesOn([f EXCEPT !.expr = RangeOf(op, @)]) /\ Keeps
    <2> DEFINE n == RangeOf(op, f.expr)
               g == [f EXCEPT !.expr = n]
    <2>1. Wrote(<<x>>)
      BY <1>11, <1>17
    <2>2. n.kind # "none" /\ Same(<<n>>, <<f.expr, x>>)
      BY <1>8, <1>17 DEF RangeOf
    <2>3. GoesOn(g)
      BY <1>17
    <2> HIDE DEF n
    <2>4. g.fn = "expr" /\ g.pc = "loop" /\ g.ops = f.ops /\ g.expr = n /\ IsFrame(g)
      BY <1>2 DEF IsFrame
    <2> HIDE DEF g
    <2>5. Same(Cat(OpsRow(g.ops), <<g.expr>>), Cat(FullRow(Top), <<x>>))
      BY <1>16, <2>2, <2>4
    <2>6. IsSeq(g.ops) /\ OpsTidy(g.ops) /\ g.expr.kind # "none" /\ g.pc # "pop"
      BY <1>2, <2>2, <2>4
    <2> QED BY <1>2, <1>10, <1>17, <2>1, <2>3, <2>4, <2>5, <2>6, NExprGoes
  <1>18. CASE /\ f.depth # CondLayer /\ s' = SkipWhite(u)
              /\ Call([f EXCEPT !.expr = Binary(op, @)], "right", "unary") /\ Keeps
    <2> DEFINE n == Binary(op, f.expr)
               h == [f EXCEPT !.expr = n]
               g == [h EXCEPT !.pc = "right"]
    <2>1. Wrote(<<x>>)
      BY <1>11, <1>18
    <2>2. n.kids[2] = NoNode /\ Same(<<n>>, <<f.expr, x>>)
      BY <1>8, <1>18 DEF Binary
    <2>3. Call(h, "right", "unary")
      BY <1>18
    <2> HIDE DEF n
    <2>4. /\ h.fn = "expr" /\ IsFrame(h)
          /\ g.fn = "expr" /\ g.pc = "right" /\ g.ops = f.ops /\ g.expr = n /\ IsFrame(g)
      BY <1>2 DEF IsFrame
    <2> HIDE DEF h
    <2>5. Waits(g, Frame("unary")) /\ Tidy(g)
      <3> HIDE DEF g
      <3> QED BY <1>2, <2>2, <2>4, FrameIs DEF Waits, Tidy
    <2>6. Same(FrameRow(g), Cat(FullRow(Top), <<x>>))
      <3>1. FrameRow(g) = Cat(OpsRow(f.ops), <<n>>)
        <4> HIDE DEF g
        <4> QED BY <1>2, <2>4, RowOf
      <3> QED BY <1>16, <2>2, <3>1
    <2> QED BY <1>2, <1>10, <1>18, <2>1, <2>3, <2>4, <2>5, <2>6, NCall
  <1> QED BY <1>7, <1>12, <1>13, <1>14, <1>15, <1>17, <1>18

LEMMA LeavesLayerN ==
  ASSUME SInv, PInv, NInv, LeavesLayer
  PROVE  NInv'
  <1> DEFINE f == UpdateStack(Top)
             g == [f EXCEPT !.pc = "pop"]
  <1>0. StreamOK(s) /\ Reads(s, s, <<>>) /\ IsSeq(<<>>)
    BY NTop
  <1>1. /\ InLoop /\ s' = SkipSpace(s) /\ GoesOn(g) /\ prog' = prog /\ notes' = notes
        /\ tolerant' = tolerant /\ status' = status
    BY DEF LeavesLayer, Keeps
  <1>2. /\ Top.fn = "expr" /\ status = "run"
        /\ IsFrame(f) /\ f.fn = "expr" /\ IsSeq(f.ops) /\ OpsTidy(f.ops)
        /\ f.ops # <<>> => f.expr.kind # "none"
        /\ StackIsOnDepth(f) => ~Wants(Last(f.ops))
        /\ Same(Cat(OpsRow(f.ops), <<f.expr>>), FullRow(Top)) /\ IsSeq(FullRow(Top))
    BY <1>1, NLoop
  <1>3. Wrote(<<>>)
    BY <1>0, <1>1, ReadsMore, NReads
  <1> HIDE DEF f
  <1>4. g.fn = "expr" /\ g.pc = "pop" /\ g.ops = f.ops /\ g.expr = f.expr /\ g.depth = f.depth /\ IsFrame(g)
    BY <1>2 DEF IsFrame
  <1> HIDE DEF g
  <1>5. Cat(FullRow(Top), <<>>) = FullRow(Top)
    BY <1>2, CatIs, <1>0
  <1>6. StackIsOnDepth(g) => ~Wants(Last(g.ops))
    BY <1>2, <1>4 DEF StackIsOnDepth
  <1>7. Same(Cat(OpsRow(g.ops), <<g.expr>>), Cat(FullRow(Top), <<>>))
    BY <1>2, <1>4, <1>5
  <1>8. IsSeq(g.ops) /\ OpsTidy(g.ops) /\ (g.ops # <<>> => g.expr.kind # "none") /\ status' # "done"
    BY <1>1, <1>2, <1>4
  <1> QED BY <1>1, <1>2, <1>3, <1>4, <1>6, <1>7, <1>8, NExprGoes

LEMMA PopsStackN ==
  ASSUME SInv, PInv, NInv, PopsStack
  PROVE  NInv'
  <1> DEFINE o == Last(Top.ops)
             b == Front(Top.ops)
             e == Top.expr
             g == Popped(Top)
             n == WithKid(o.expr, Len(o.expr.kids), e)
  <1>0. /\ IsFrame(Top) /\ IsSeq(Top.ops) /\ Tidy(Top) /\ StreamOK(s) /\ Reads(s, s, <<>>) /\ IsSeq(<<>>)
        /\ IsSeq(FullRow(Top))
    BY NTop
  <1>1. CASE Throw
    BY <1>1, NEnds
  <1>2. CASE GoesOn(g) /\ UNCHANGED s /\ Keeps
    <2>1. /\ Top.fn = "expr" /\ Top.pc = "pop" /\ status' # "done" /\ prog' = prog /\ notes' = notes
          /\ tolerant' = tolerant /\ s' = s /\ Pops(Top)
      BY <1>2 DEF PopsStack, At, Keeps
    <2>2. Wrote(<<>>)
      BY <1>0, <2>1, NReads
    <2>3. /\ StackIsOnDepth(Top) /\ Top.depth \in {CondLayer, AssignLayer} /\ Top.ops # <<>>
          /\ o.depth = Top.depth /\ ~Wants(o) /\ OpsTidy(Top.ops)
      BY <1>0, <2>1 DEF Pops, StackIsOnDepth, Tidy
    <2>4. Ordered(Top.ops)
      BY <2>1, FramesTop DEF PInv, FrameOK
    <2>5. Entry(o) /\ (b # <<>> => Entry(Last(b)))
      <3>1. Entry(o) /\ Ordered(b)
        BY <2>3, <2>4, OrderedFront
      <3> QED BY <3>1, OrderedFront
    <2>6. /\ o.expr.kids[IF o.depth = CondLayer THEN 3 ELSE 2] = NoNode
          /\ IsSeq(b) /\ OpsTidy(b)
          /\ (b # <<>> /\ Last(b).depth = CondLayer /\ o.depth = CondLayer => ~Wants(Last(b)))
          /\ OpsRow(Top.ops) = Cat(OpsRow(b), OpRow(o)) /\ IsSeq(OpsRow(b)) /\ IsSeq(OpRow(o))
      BY <1>0, <2>3, OpsTidyLast
    <2>7. n.kind # "none" /\ Same(<<n>>, Cat(OpRow(o), <<e>>))
      <3> HIDE DEF o, e
      <3>1. CASE o.depth = CondLayer
        <4>1. Len(o.expr.kids) = 3
          BY <2>3, <2>5, <2>6, <3>1, EntryRow
        <4> QED BY <2>3, <2>5, <2>6, <3>1, <4>1, EntryRow
      <3>2. CASE o.depth # CondLayer
        <4>1. Len(o.expr.kids) = 2
          BY <2>3, <2>5, <2>6, <3>2, EntryRow
        <4> QED BY <2>3, <2>5, <2>6, <3>2, <4>1, EntryRow
      <3> QED BY <3>1, <3>2
    <2>8. /\ g.fn = "expr" /\ g.pc = "pop" /\ g.ops = b /\ g.expr = n /\ g.depth = Top.depth /\ IsFrame(g)
      BY <1>0, <2>1 DEF IsFrame, Popped
    <2>9. FullRow(Top) = Cat(OpsRow(Top.ops), <<e>>)
      BY <1>0, <2>1, RowOf
    <2> HIDE DEF g, n, o, b, e
    <2>10. Same(Cat(OpsRow(g.ops), <<g.expr>>), Cat(FullRow(Top), <<>>))
      <3>1. Same(OpsRow(b), OpsRow(b)) /\ IsSeq(<<e>>)
        BY <2>6, SameIs, SeqTuples
      <3>2. Same(Cat(OpsRow(b), <<n>>), Cat(OpsRow(b), Cat(OpRow(o), <<e>>)))
        BY <2>7, <3>1, SameCat
      <3>3. Cat(OpsRow(b), Cat(OpRow(o), <<e>>)) = FullRow(Top)
        BY <2>6, <2>9, <3>1, CatAssoc
      <3>4. Cat(FullRow(Top), <<>>) = FullRow(Top)
        BY <1>0, CatIs
      <3> QED BY <2>8, <3>2, <3>3, <3>4
    <2>11. StackIsOnDepth(g) => ~Wants(Last(g.ops))
      <3> SUFFICES ASSUME StackIsOnDepth(g) PROVE ~Wants(Last(g.ops))
        OBVIOUS
      <3>1. b # <<>> /\ Last(b).depth = o.depth
        BY <2>3, <2>8 DEF StackIsOnDepth
      <3>2. CASE o.depth = CondLayer
        BY <2>6, <2>8, <3>1, <3>2
      <3>3. CASE o.depth # CondLayer
        <4>1. Last(b).expr.kind # "cond"
          BY <2>5, <3>1, <3>3 DEF Entry
        <4> QED BY <2>8, <4>1 DEF Wants
      <3> QED BY <3>2, <3>3
    <2>12. IsSeq(g.ops) /\ OpsTidy(g.ops) /\ g.expr.kind # "none"
      BY <2>6, <2>7, <2>8
    <2> QED BY <1>2, <2>1, <2>2, <2>8, <2>10, <2>11, <2>12, NExprGoes
  <1> QED BY <1>1, <1>2 DEF PopsStack

LEMMA GoesDeeperN ==
  ASSUME SInv, PInv, NInv, GoesDeeper
  PROVE  NInv'
  <1> DEFINE g == [Top EXCEPT !.pc = "loop", !.depth = @ + 1]
  <1>0. /\ IsFrame(Top) /\ IsSeq(Top.ops) /\ Tidy(Top) /\ StreamOK(s) /\ Reads(s, s, <<>>) /\ IsSeq(<<>>)
        /\ IsSeq(FullRow(Top)) /\ Same(FullRow(Top), Cat(FullRow(Top), <<>>))
    BY NTop
  <1>1. /\ Top.fn = "expr" /\ Top.pc = "pop" /\ status' # "done" /\ prog' = prog /\ notes' = notes
        /\ tolerant' = tolerant /\ s' = s /\ GoesOn(g)
    BY DEF GoesDeeper, At, Keeps
  <1>2. Wrote(<<>>)
    BY <1>0, <1>1, NReads
  <1>3. g.fn = "expr" /\ g.pc = "loop" /\ g.ops = Top.ops /\ g.expr = Top.expr /\ IsFrame(g)
    BY <1>0, <1>1 DEF IsFrame
  <1> HIDE DEF g
  <1>4. FullRow(Top) = Cat(OpsRow(Top.ops), <<Top.expr>>)
    BY <1>0, <1>1, RowOf
  <1>5. Same(Cat(OpsRow(g.ops), <<g.expr>>), Cat(FullRow(Top), <<>>))
    BY <1>0, <1>3, <1>4
  <1>6. IsSeq(g.ops) /\ OpsTidy(g.ops) /\ (g.ops # <<>> => g.expr.kind # "none") /\ g.pc # "pop"
    BY <1>0, <1>1, <1>3 DEF Tidy
  <1> QED BY <1>1, <1>2, <1>3, <1>5, <1>6, NExprGoes

LEMMA ExprReturnsN ==
  ASSUME SInv, PInv, NInv, ExprReturns
  PROVE  NInv'
  <1>0. /\ IsFrame(Top) /\ IsSeq(Top.ops) /\ StreamOK(s) /\ Reads(s, s, <<>>) /\ IsSeq(<<>>)
        /\ IsSeq(FullRow(Top)) /\ Same(FullRow(Top), Cat(FullRow(Top), <<>>))
    BY NTop
  <1>1. /\ Top.fn = "expr" /\ Top.pc = "loop" /\ status' # "done" /\ prog' = prog /\ notes' = notes
        /\ tolerant' = tolerant /\ s' = SetRegexMode(s, TRUE) /\ Return(Top.expr) /\ Top.depth > 9
    BY LayerNumbers DEF ExprReturns, At, Keeps
  <1>2. Wrote(<<>>)
    BY <1>0, <1>1, ReadsMore, NReads
  <1>3. Top.ops = <<>>
    <2>1. Ordered(Top.ops) /\ AtLoop(Top)
      BY <1>1, FramesTop DEF PInv, FrameOK
    <2>2. Top.ops # <<>> => Last(Top.ops).depth \in 2 .. 9 /\ Top.depth <= Last(Top.ops).depth
      BY <2>1, OrderedFront DEF Entry, AtLoop
    <2>3. Top.depth \in 1 .. 10
      BY <2>1 DEF AtLoop
    <2> QED BY <1>1, <2>2, <2>3
  <1>4. FullRow(Top) = <<Top.expr>>
    <2>1. FullRow(Top) = Cat(OpsRow(Top.ops), <<Top.expr>>)
      BY <1>0, <1>1, RowOf
    <2>2. OpsRow(<<>>) = <<>> /\ Cat(<<>>, <<Top.expr>>) = <<Top.expr>>
      BY OpsRowOne, CatIs, SeqTuples
    <2> QED BY <1>3, <2>1, <2>2
  <1>5. Same(<<Top.expr>>, Cat(FullRow(Top), <<>>))
    BY <1>0, <1>4
  <1> QED BY <1>1, <1>2, <1>5, NReturn

LEMMA ParseExprN ==
  ASSUME SInv, PInv, NInv, ParseExpr
  PROVE  NInv'
  BY ExprBeginsN, GetsOperandN, TakesThenN, TakesOperatorN, LeavesLayerN, PopsStackN, GoesDeeperN,
     ExprReturnsN DEF ParseExpr

-----------------------------------------------------------------------------
(* Nothing that is read is dropped.                                          *)

LEMMA InitN ==
  ASSUME Init
  PROVE  NInv
  <1> DEFINE f == Frame("parse")
  <1>1. PICK text \in Sources : s = SkipLine(SetRegexMode(NewStream(text), TRUE))
    BY DEF Init
  <1>2. calls = <<f>> /\ prog = <<>> /\ notes = <<>> /\ status = "run"
    BY DEF Init
  <1>3. f.fn = "parse" /\ f.pc = "enter"
    BY DEF Frame
  <1>4. Tidy(f) /\ RetTidy(f)
    BY TidyBegins
  <1> HIDE DEF f
  <1>5. Len(calls) = 1 /\ calls[1] = f /\ Top = f
    BY <1>2 DEF Top, Last
  <1>6. \A i \in 1 .. Len(calls) : Tidy(calls[i])
    BY <1>4, <1>5
  <1>7. Row = <<>>
    <2>1. Front(calls) = <<>>
      BY <1>2 DEF Front
    <2>2. CallsRow(<<>>) = <<>>
      <3>1. OpsSeq(<<>>) /\ IsSeq(f.ops)
        BY <1>4, SeqTuples DEF OpsSeq, Tidy
      <3> QED BY <3>1, CallsRowSnoc
    <2>3. FullRow(f) = <<>>
      BY <1>3, <1>4, RowOf DEF Tidy
    <2>4. Cat(<<>>, <<>>) = <<>>
      BY SeqTuples, CatIs
    <2> QED BY <1>2, <1>5, <2>1, <2>2, <2>3, <2>4 DEF Row
  <1> DEFINE t == NewStream(text)
  <1>8. /\ t.tokens = <<>> /\ t.cur = 1 /\ t.lastSkip = None /\ t.comments = <<>>
    BY DEF NewStream
  <1>9. StreamOK(t)
    <2>1. text \in Seq(Lexemes)
      BY SourcesAssumption
    <2> QED BY <2>1, NewStreamOn
  <1> HIDE DEF t
  <1>10. Reads(t, s, <<>>)
    <2>1. Reads(t, t, <<>>)
      BY <1>8, <1>9, ReadsSelf DEF SkipBlank
    <2>2. Reads(t, SetRegexMode(t, TRUE), <<>>)
      BY <1>9, <2>1, ReadsMore
    <2>3. Reads(t, SkipLine(SetRegexMode(t, TRUE)), <<>>)
      BY <1>9, <2>2, ReadsMore
    <2> QED BY <1>1, <2>3 DEF t
  <1>11. Words(Read(t)) = <<>> /\ Words(<<>>) = <<>> /\ Cat(<<>>, <<>>) = <<>>
    <2>1. SubSeq(t.tokens, 1, t.cur - 1) = <<>>
      <3>1. IsSeq(<<>>) /\ IsSeq(SubSeq(<<>>, 1, 0)) /\ Len(SubSeq(<<>>, 1, 0)) = 0
        BY SeqTuples, SubIs
      <3>2. SubSeq(<<>>, 1, 0) = <<>>
        BY <3>1, SeqTuples, SeqSame
      <3> QED BY <1>8, <3>2
    <2> QED BY <2>1, NotBlankOne, WordsOne, SeqTuples, CatIs DEF Read
  <1>12. Words(Read(s)) = <<>>
    BY <1>10, <1>11 DEF Reads
  <1>13. Spells(Row, Words(Read(s)))
    <2>1. \A r : Final(<<>>, r) <=> r = <<>>
      BY SeqTuples, TokLeaves, FinalLeaves
    <2> QED BY <1>7, <1>11, <1>12, <2>1 DEF Spells
  <1>14. Notes(s, notes) /\ IsSeq(notes)
    <2>1. Notes(t, <<>>)
      BY <1>8, <1>11, CommentsInOne DEF Notes
    <2> QED BY <1>2, <1>10, <2>1, SeqTuples DEF Reads, Com
  <1>15. SkipBlank(s)
    BY <1>10 DEF Reads
  <1> QED BY <1>2, <1>4, <1>5, <1>6, <1>13, <1>14, <1>15 DEF NInv

LEMMA NextN ==
  ASSUME SInv, PInv, NInv, [Next]_vars
  PROVE  NInv'
  <1>1. CASE UNCHANGED vars
    BY <1>1, NStays DEF vars
  <1>2. CASE Next
    <2>1. Finished => NInv'
      BY <1>1 DEF Finished
    <2> QED BY <1>2, <2>1, ParseStatementN, ParseExprN, ParseUnaryN, ParsePostN DEF Next
  <1> QED BY <1>1, <1>2

\* Between statements the row is the program.
LEMMA RowIsProgram ==
  ASSUME SInv, NInv, At("parse", "enter") \/ status = "done"
  PROVE  Row = prog
  <1>1. Top.fn = "parse" /\ Top.pc = "enter"
    BY DEF NInv, At
  <1>2. /\ IsSeq(Top.ops) /\ IsSeq(prog) /\ calls = Append(Front(calls), Top) /\ IsSeq(Front(calls))
        /\ Len(calls) = 1 /\ OpsSeq(Front(calls))
    <2>1. Shape(calls) /\ \A i \in 1 .. Len(calls) : Tidy(calls[i])
      BY DEF SInv, NInv
    <2> QED BY <1>1, <2>1, NTop, NotFreshTop, SpineIs
  <1>3. Front(calls) = <<>>
    <2> DEFINE c == Front(calls)
    <2>1. IsSeq(c) /\ calls = Append(c, Top)
      BY <1>2
    <2> DEFINE d == Append(c, Top)
    <2> HIDE DEF c
    <2>2. Len(d) = Len(c) + 1 /\ Len(c) \in Nat
      <3>1. d = Longer(c, Top)
        BY DEF Longer
      <3> HIDE DEF d
      <3> QED BY <2>1, <3>1, LongerIs
    <2>3. Len(c) = 0
      BY <1>2, <2>1, <2>2
    <2> QED BY <2>1, <2>3, SeqTuples, SeqSame DEF c
  <1>4. CallsRow(Front(calls)) = <<>> /\ FullRow(Top) = <<>>
    <2>1. OpsSeq(<<>>) /\ IsSeq(Top.ops)
      BY <1>2, <1>3
    <2>2. CallsRow(<<>>) = <<>>
      BY <2>1, CallsRowSnoc
    <2> QED BY <1>1, <1>2, <1>3, <2>2, RowOf
  <1> QED BY <1>2, <1>4, SeqTuples, CatIs DEF Row

LEMMA DroppedFromN ==
  ASSUME SInv, NInv
  PROVE  NothingDropped
  <1>1. notes \o s.comments = CommentsIn(s.tokens)
    BY DEF NInv, Notes, Cat
  <1>2. ASSUME At("parse", "enter") \/ status = "done", NEW k \in 0 .. Len(s.tokens) + 1,
               \A i \in DOMAIN Unfolded(prog)[k] : Unfolded(prog)[k][i].kind = "leaf"
        PROVE  Words(Unfolded(prog)[k]) = Words(Read(s))
    <2>1. Row = prog
      BY <1>2, RowIsProgram
    <2>2. k \in Nat
      OBVIOUS
    <2>3. Final(prog, Unfolded(prog)[k])
      BY <1>2, <2>2 DEF Final, Leaves
    <2> QED BY <2>1, <2>3 DEF NInv, Spells
  <1> QED BY <1>1, <1>2 DEF NothingDropped

\* The program unfolds to leaves after some number of rounds, to the words read.
ProgramSpelled ==
  At("parse", "enter") \/ status = "done" =>
    \E k \in Nat : Leaves(Unfolded(prog)[k]) /\ Words(Unfolded(prog)[k]) = Words(Read(s))

LEMMA SpelledFromN ==
  ASSUME SInv, NInv
  PROVE  ProgramSpelled
  <1>1. ASSUME At("parse", "enter") \/ status = "done"
        PROVE  \E k \in Nat : Leaves(Unfolded(prog)[k]) /\ Words(Unfolded(prog)[k]) = Words(Read(s))
    <2>1. PICK r : Final(prog, r)
      BY <1>1, RowIsProgram DEF NInv, Spells
    <2>2. Words(r) = Words(Read(s))
      BY <1>1, <2>1, RowIsProgram DEF NInv, Spells
    <2> QED BY <2>1, <2>2 DEF Final
  <1> QED BY <1>1 DEF ProgramSpelled

LEMMA SpecN == Spec => [](SInv /\ PInv /\ NInv)
  <1>1. Init => SInv /\ PInv /\ NInv
    BY InitS, InitP, InitN
  <1>2. SInv /\ PInv /\ NInv /\ [Next]_vars => (SInv /\ PInv /\ NInv)'
    BY NextS, NextP, NextN
  <1> QED BY <1>1, <1>2, PTL DEF Spec

\* Whenever a statement is complete and at the end, the leaves of the program
\* are the tokens that were read, in their order: no operator of the stacks
\* loses its operand, and a recovery that goes back reads nothing twice.
\* Tolerance may only drop punctuation, and no comment is lost or repeated.
THEOREM TokensKept == Spec => []NothingDropped
  <1>1. SInv /\ PInv /\ NInv => NothingDropped
    BY DroppedFromN
  <1> QED BY <1>1, SpecN, PTL

\* The trees come to an end, so that TokensKept speaks of them all: between
\* statements and at the end some unfolding of the program has only leaves,
\* and they are the tokens read.
THEOREM ProgramComplete == Spec => []ProgramSpelled
  <1>1. SInv /\ PInv /\ NInv => ProgramSpelled
    BY SpelledFromN
  <1> QED BY <1>1, SpecN, PTL
=============================================================================
