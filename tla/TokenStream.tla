---------------------------- MODULE TokenStream ----------------------------
(* The parser's token stream (src/src/core/ast/stream.h, stream.cpp): a list *)
(* of tokens that is lexed lazily at its end, a cursor, the place where the  *)
(* last run of skipped tokens began, and the place of the last recovery.     *)
(*                                                                           *)
(* A Stream is a value and every method an operator from a Stream to the     *)
(* next, so that a parser step can call several of them.  Iterators of the   *)
(* std::list are positions in `tokens', which keeps the erased tokens too:   *)
(* the list is what begins at `begin', and end() is the position after it.   *)
(*                                                                           *)
(* The source text is a sequence of lexemes; the one place where the lexer   *)
(* depends on the parser is the slash, which begins a regular expression if  *)
(* and only if regex_mode is on when the token is first looked at.           *)
EXTENDS Naturals, Sequences, SequencesExt

Space == "_"      \* a run of blanks
Line  == "nl"     \* a line end
Hash  == "#"      \* a comment, which ends before the line end
Word  == "a"      \* an identifier

NoText == ""      \* of a regular expression, whose text nobody reads here

None == 0         \* std::nullopt of an iterator

-----------------------------------------------------------------------------
(* lexer.h, parse_one: the token that begins at lexeme i. *)

(* Blanks at the beginning of a line that holds more than a comment. *)
Indents(input, i) ==
  /\ i = 1 \/ input[i - 1] = Line
  /\ i < Len(input) /\ input[i + 1] \notin {Hash, Line}

TagOf(input, i) ==
  CASE input[i] = Space -> IF Indents(input, i) THEN "indent" ELSE "space"
    [] input[i] = Line  -> "line"
    [] input[i] = Hash  -> "comment"
    [] input[i] = Word  -> "ident"
    [] OTHER            -> "punct"

Token(tag, text, from, to) == [tag |-> tag, text |-> text, from |-> from, to |-> to]

(* The end of the line that lexeme i is on. *)
LineEnd(input, i) ==
  CHOOSE j \in i .. Len(input) :
    /\ j = Len(input) \/ input[j + 1] = Line
    /\ \A k \in i .. j : input[k] # Line

(* A regular expression runs to the next slash of the line, with something   *)
(* between; without one the rest of the line is a partial literal.           *)
Regex(input, i) ==
  LET closing == {j \in i + 2 .. LineEnd(input, i) : input[j] = "/"}
  IN  IF closing = {}
      THEN Token("partial_regex_literal", NoText, i, LineEnd(input, i))
      ELSE Token("regex_literal", NoText, i, CHOOSE j \in closing : \A k \in closing : j <= k)

ParseOne(input, i, regexMode) ==
  IF regexMode /\ input[i] = "/" THEN Regex(input, i)
  ELSE Token(TagOf(input, i), input[i], i, i)

-----------------------------------------------------------------------------
(* The fields of struct Stream. *)

NewStream(input) ==
  [input |-> input, tokens |-> <<>>, begin |-> 1, cur |-> 1,
   lastSkip |-> None, prevSkip |-> None, regexMode |-> FALSE, comments |-> <<>>]

End(s) == Len(s.tokens) + 1

(* The lexemes already lexed. *)
Lexed(s) == IF s.tokens = <<>> THEN 0 ELSE Last(s.tokens).to

MaybeParse(s) ==
  IF s.cur # End(s) \/ Lexed(s) = Len(s.input) THEN s
  ELSE LET t == ParseOne(s.input, Lexed(s) + 1, s.regexMode)
       IN  [s EXCEPT !.tokens = Append(@, t),
                     !.comments = IF t.tag = "comment" THEN Append(@, t.from) ELSE @]

(* eos, expect_token and peek_token look at the stream that MaybeParse gives. *)
Eos(s) == s.cur = End(s) /\ Lexed(s) = Len(s.input)

Cur(s) == MaybeParse(s).tokens[s.cur]

ExpectTag(s, tags) == ~Eos(s) /\ Cur(s).tag \in tags

Expect(s, text) == ~Eos(s) /\ Cur(s).text = text

Consume(s) ==
  IF Eos(s) THEN MaybeParse(s)
  ELSE [MaybeParse(s) EXCEPT !.cur = @ + 1, !.lastSkip = None]

(* Every round of the loop consumes a token, and a token is a lexeme or more.*)
SkipWhile(s, tags) ==
  LET after[k \in Nat] ==
        IF k = 0 THEN s
        ELSE LET t == after[k - 1] IN IF ExpectTag(t, tags) THEN Consume(t) ELSE t
  IN  MaybeParse(after[Len(s.input)])

SkipTag(s, tags) ==
  LET first == MaybeParse(s)
      last  == SkipWhile(first, tags)
  IN  [last EXCEPT !.lastSkip = IF last.cur # first.cur THEN first.cur ELSE None]

SkipSpace(s)        == SkipTag(s, {"space"})
SkipSpaceComment(s) == SkipTag(s, {"space", "comment"})
SkipLine(s)         == SkipTag(s, {"space", "line", "comment"})
SkipWhite(s)        == SkipTag(s, {"space", "line", "indent", "comment"})

(* Erases up to the cursor, recovery or not. *)
ShrinkMutant(s) == [s EXCEPT !.begin = s.cur]

(* shrink: erase what is before the last recovery or else before the cursor. *)
Shrink(s) == [s EXCEPT !.begin = IF s.prevSkip # None THEN s.prevSkip ELSE s.cur]

(* recover_to_prev_skip goes back to where the last skip began.  A second    *)
(* recovery at one place consumes a punctuation token or gives up.           *)
Returned(s) ==
  MaybeParse(IF s.lastSkip # None THEN [s EXCEPT !.cur = s.lastSkip, !.lastSkip = None] ELSE s)

CannotRecover(s) ==
  LET r == Returned(s) IN r.cur = r.prevSkip /\ ~ExpectTag(r, {"punct"})

(* A second recovery at one place consumes nothing. *)
RecoverMutant(s) == [Returned(s) EXCEPT !.prevSkip = Returned(s).cur]

Recover(s) ==
  LET r == Returned(s)
  IN  IF r.cur = r.prevSkip THEN Consume(r) ELSE [r EXCEPT !.prevSkip = r.cur]

SetRegexMode(s, on) == [s EXCEPT !.regexMode = on]

(* get_comments hands the comments over and forgets them. *)
ClearComments(s) == [s EXCEPT !.comments = <<>>]
=============================================================================
