----------------------------- MODULE ExprParser -----------------------------
(* The expression parser of src/src/core/ast/parse.cpp: parse_expr with its  *)
(* explicit stack of binary operators, parse_unary, parse_post, parse_prim,  *)
(* and the loop of parse() that runs it statement after statement on the     *)
(* token stream, in the strict and in the error-tolerant mode.               *)
(*                                                                           *)
(* `calls' is the C++ call stack, one frame for each parser function that is *)
(* active.  A step is the code between two calls of such functions, and for  *)
(* the loop of parse_expr one iteration.                                     *)
EXTENDS Integers, TokenStream

CONSTANT Sources    \* the texts, sequences of lexemes

Lexemes == UNION {ToSet(text) : text \in Sources}

\* A lexeme has at least one character.
ASSUME SourcesAssumption == Sources \subseteq Seq(Lexemes) /\ NoText \notin Lexemes

VARIABLES
  s,         \* the Stream
  tolerant,  \* ParserState.error_tolerant
  calls,     \* the active functions, innermost last
  prog,      \* Program.elements
  notes,     \* comments attached to the program
  status     \* "run", "done", "error" (thrown), "type" (a field type follows)

vars == <<s, tolerant, calls, prog, notes, status>>

-----------------------------------------------------------------------------
(* expr_layer.h: bin_layers from the tightest operators to the loosest, the  *)
(* layers of assignments and of "," reduced to one operator each.            *)

BinLayers == <<{"*", "/"}, {"+", "-"}, {"=="}, {"&&"}, {"||"}, {"?", ":"},
               {"..", "..="}, {"="}, {","}>>

BinLayerLen   == Len(BinLayers)
CompareLayer  == 3
CondLayer     == 6
RangeLayer    == 7
AssignLayer   == 8

UnaryOps == {"!", "-"}

(* The values of BinaryOp that is_range_op compares. *)
RangeExclusive == 22
RangeInclusive == 23

BinaryOpOf(text) == IF text = ".." THEN RangeExclusive ELSE RangeInclusive

IsRangeOp(op) == RangeInclusive <= op /\ op <= RangeExclusive

-----------------------------------------------------------------------------
(* AST nodes: a kind, the text of the operator or leaf, and the children. *)

Node(kind, text, kids) == [kind |-> kind, text |-> text, kids |-> kids]
NoNode  == Node("none", NoText, <<>>)
BadExpr == Node("bad", NoText, <<>>)
Leaf(t) == Node("leaf", t.text, <<>>)
Binary(op, l)  == Node("binary", op, <<l, NoNode>>)
RangeOf(op, l) == Node("range", op, <<l, NoNode>>)
Cond(c)        == Node("cond", "?", <<c, NoNode, NoNode>>)

WithKid(n, i, kid) == [n EXCEPT !.kids[i] = kid]

(* check_assignment accepts these on the left of "=": an identifier behind   *)
(* any number of indices and accesses, each of which has taken a token.      *)
IsFinallyIdent(n) ==
  LET base[k \in Nat] ==
        IF k = 0 THEN n
        ELSE LET m == base[k - 1] IN IF m.kind \in {"index", "dot"} THEN m.kids[1] ELSE m
      root == base[Len(s.tokens)]
  IN  root.kind = "leaf" /\ root.text = Word

-----------------------------------------------------------------------------
(* Frames of the call stack: `pc' is where the function waits or goes on,    *)
(* `ret' what the last callee returned.                                      *)

Frame(fn) == [fn |-> fn, pc |-> "enter", depth |-> 1, ops |-> <<>>, expr |-> NoNode, ret |-> NoNode]

Top == Last(calls)

At(fn, pc) == status = "run" /\ Top.fn = fn /\ Top.pc = pc

GoesOn(frame)      == calls' = Append(Front(calls), frame)
Call(frame, pc, fn) == calls' = Front(calls) \o <<[frame EXCEPT !.pc = pc], Frame(fn)>>
Return(node) ==
  calls' = LET callers == Front(calls)
           IN  Append(Front(callers), [Last(callers) EXCEPT !.ret = node])

Throw  == status' = "error" /\ UNCHANGED <<s, tolerant, calls, prog, notes>>
InType == status' = "type" /\ UNCHANGED <<s, tolerant, calls, prog, notes>>

Keeps == UNCHANGED <<tolerant, prog, notes, status>>

(* must_consume_token: t is the stream so far, then what follows. *)
Must(t, text, then) == IF Expect(t, text) THEN s' = Consume(t) /\ then /\ Keeps ELSE Throw

Init ==
  /\ \E text \in Sources : s = SkipLine(SetRegexMode(NewStream(text), TRUE))
  /\ tolerant \in BOOLEAN
  /\ calls = <<Frame("parse")>>
  /\ prog = <<>>
  /\ notes = <<>>
  /\ status = "run"

-----------------------------------------------------------------------------
(* parse and parse_statement.  Types are outside the model: a ":" that       *)
(* begins one ends the run with status "type".                               *)

ProgramEnds ==
  /\ At("parse", "enter")
  /\ Eos(s)
  /\ status' = "done"
  /\ UNCHANGED <<s, tolerant, calls, prog, notes>>

StatementBegins ==
  /\ At("parse", "enter")
  /\ ~Eos(s)
  /\ IF Expect(s, ":") THEN InType
     ELSE /\ notes' = notes \o MaybeParse(s).comments
          /\ s' = ClearComments(MaybeParse(s))
          /\ Call(Top, "statement", "expr")
          /\ UNCHANGED <<tolerant, prog, status>>

(* parse_field returns the expression, skip_last ends the line, and the loop *)
(* of parse() shrinks the stream.                                            *)
SkipLast(t) ==
  LET u == SkipSpaceComment(t)
  IN  IF ExpectTag(u, {"line"}) THEN SkipLine(Consume(u)) ELSE u

StatementEnds ==
  /\ At("parse", "statement")
  /\ LET isIdent == Top.ret.kind = "leaf" /\ Top.ret.text = Word
         t       == IF isIdent THEN SkipSpace(s) ELSE s
     IN  IF isIdent /\ Expect(t, ":") THEN InType
         ELSE /\ s' = Shrink(SkipLast(t))
              /\ prog' = Append(prog, Top.ret)
              /\ GoesOn([Top EXCEPT !.pc = "shrunk"])
              /\ UNCHANGED <<tolerant, notes, status>>

ProgramSkips ==
  /\ At("parse", "shrunk")
  /\ s' = SkipWhite(s)
  /\ GoesOn([Top EXCEPT !.pc = "enter"])
  /\ Keeps

-----------------------------------------------------------------------------
(* parse_expr *)

AtRange(t) == Expect(t, "..") \/ Expect(t, "..=")

ExprBegins ==
  /\ At("expr", "enter")
  /\ IF AtRange(s)
     THEN /\ s' = SetRegexMode(MaybeParse(s), FALSE)
          /\ GoesOn([Top EXCEPT !.pc = "loop"])
     ELSE /\ s' = MaybeParse(s)
          /\ Call(Top, "first", "unary")
  /\ Keeps

(* parse_low goes on at the layer of its operator. *)
GetsOperandMutant ==
  /\ \E pc \in {"first", "low", "right"} :
       /\ At("expr", pc)
       /\ s' = IF pc = "first" THEN SetRegexMode(s, FALSE) ELSE s
       /\ GoesOn([Top EXCEPT !.pc   = "loop",
                             !.expr = IF pc = "right" THEN WithKid(@, 2, Top.ret) ELSE Top.ret])
  /\ Keeps

(* parse_low returns its operand; the operand of the tightest layer becomes  *)
(* the right side of its operator at once.                                   *)
GetsOperand ==
  /\ \E pc \in {"first", "low", "right"} :
       /\ At("expr", pc)
       /\ s' = IF pc = "first" THEN SetRegexMode(s, FALSE) ELSE s
       /\ GoesOn([Top EXCEPT !.pc    = "loop",
                             !.depth = 1,
                             !.expr  = IF pc = "right" THEN WithKid(@, 2, Top.ret) ELSE Top.ret])
  /\ Keeps

StackIsOnDepth(f) == f.ops # <<>> /\ Last(f.ops).depth = f.depth

(* update_stack, when a conditional on the stack has no `then' part yet. *)
WantsThen(f) ==
  StackIsOnDepth(f) /\ Last(f.ops).expr.kind = "cond" /\ Last(f.ops).expr.kids[2] = NoNode

TakesThen ==
  /\ At("expr", "loop")
  /\ WantsThen(Top)
  /\ LET t == SkipWhite(s)
     IN  IF ~Expect(t, ":") THEN Throw
         ELSE /\ s' = SkipWhite(Consume(t))
              /\ Call([Top EXCEPT !.ops[Len(Top.ops)].expr = WithKid(@, 2, Top.expr)], "low", "unary")
              /\ Keeps

(* Assignments get their right side like other operators. *)
UpdateStackMutant(f) ==
  IF StackIsOnDepth(f) /\ f.depth # CondLayer
  THEN [f EXCEPT !.expr = WithKid(Last(f.ops).expr, 2, f.expr), !.ops = Front(@)]
  ELSE f

(* update_stack otherwise: a left-associative operator gets its right side. *)
UpdateStack(f) ==
  IF StackIsOnDepth(f) /\ f.depth \notin {CondLayer, AssignLayer}
  THEN [f EXCEPT !.expr = WithKid(Last(f.ops).expr, 2, f.expr), !.ops = Front(@)]
  ELSE f

InLoop == At("expr", "loop") /\ Top.depth <= BinLayerLen /\ ~WantsThen(Top)

(* The operator of this layer at the cursor, which consume_op would take.  A *)
(* ":" is taken by update_stack only.                                        *)
OpAt(t, depth) == ~Eos(t) /\ Cur(t).text \in BinLayers[depth] \ {":"}

AppearValidRangeEnd(t) ==
  ~Eos(t) /\ (Cur(t).text \in UnaryOps \/ Cur(t).tag = "ident")

TakesOperator ==
  /\ InLoop
  /\ LET f  == UpdateStack(Top)
         t  == SkipSpace(s)
         op == Cur(t).text
         u  == SetRegexMode(Consume(t), TRUE)
         Pushes(node) == Call([f EXCEPT !.ops = Append(@, [depth |-> f.depth, expr |-> node])],
                              "low", "unary")
     IN  /\ OpAt(t, f.depth)
         /\ CASE f.depth = CondLayer ->
                   s' = SkipWhite(u) /\ Pushes(Cond(f.expr)) /\ Keeps
              [] f.depth = CompareLayer /\ f.expr.kind = "binary" /\ f.expr.text \in BinLayers[CompareLayer] ->
                   Throw
              [] f.depth = RangeLayer /\ f.expr.kind = "range" /\ IsRangeOp(BinaryOpOf(f.expr.text)) ->
                   Throw
              [] f.depth = RangeLayer /\ AppearValidRangeEnd(SkipSpace(u)) ->
                   s' = SkipWhite(SkipSpace(u)) /\ Pushes(RangeOf(op, f.expr)) /\ Keeps
              [] f.depth = RangeLayer /\ ~AppearValidRangeEnd(SkipSpace(u)) ->
                   s' = SkipSpace(u) /\ GoesOn([f EXCEPT !.expr = RangeOf(op, @)]) /\ Keeps
              [] f.depth = 1 ->
                   s' = SkipWhite(u) /\ Call([f EXCEPT !.expr = Binary(op, @)], "right", "unary") /\ Keeps
              [] OTHER ->
                   s' = SkipWhite(u) /\ Pushes(Binary(op, f.expr)) /\ Keeps

LeavesLayer ==
  /\ InLoop
  /\ LET f == UpdateStack(Top)
     IN  /\ ~OpAt(SkipSpace(s), f.depth)
         /\ s' = SkipSpace(s)
         /\ GoesOn([f EXCEPT !.pc = "pop"])
  /\ Keeps

(* post_update_stack: conditionals and assignments are popped from the right,*)
(* each taking what was parsed so far as its last child.                     *)

(* The conditionals are left on the stack. *)
PopsMutant(f) == f.depth = AssignLayer /\ StackIsOnDepth(f)

Pops(f) == f.depth \in {CondLayer, AssignLayer} /\ StackIsOnDepth(f)

Popped(f) ==
  LET op == Last(f.ops).expr
  IN  [f EXCEPT !.expr = WithKid(op, Len(op.kids), @), !.ops = Front(@)]

(* check_assignment only notes its errors in the tolerant mode. *)
BadAssignment(f) == f.depth = AssignLayer /\ ~IsFinallyIdent(Last(f.ops).expr.kids[1])

PopsStack ==
  /\ At("expr", "pop")
  /\ Pops(Top)
  /\ IF BadAssignment(Top) /\ ~tolerant THEN Throw
     ELSE GoesOn(Popped(Top)) /\ UNCHANGED s /\ Keeps

GoesDeeper ==
  /\ At("expr", "pop")
  /\ ~Pops(Top)
  /\ GoesOn([Top EXCEPT !.pc = "loop", !.depth = @ + 1])
  /\ UNCHANGED s
  /\ Keeps

ExprReturns ==
  /\ At("expr", "loop")
  /\ Top.depth > BinLayerLen
  /\ s' = SetRegexMode(s, TRUE)
  /\ Return(Top.expr)
  /\ Keeps

-----------------------------------------------------------------------------
(* parse_unary *)

UnaryBegins ==
  /\ At("unary", "enter")
  /\ s' = SkipSpace(s)
  /\ GoesOn([Top EXCEPT !.pc = "ops"])
  /\ Keeps

AtUnaryOp == ~Eos(s) /\ Cur(s).text \in UnaryOps

TakesUnaryOp ==
  /\ At("unary", "ops")
  /\ AtUnaryOp
  /\ s' = SkipWhite(Consume(s))
  /\ GoesOn([Top EXCEPT !.ops = Append(@, Cur(s).text)])
  /\ Keeps

TakesTarget ==
  /\ At("unary", "ops")
  /\ ~AtUnaryOp
  /\ s' = MaybeParse(s)
  /\ Call(Top, "target", "post")
  /\ Keeps

WrapsTarget ==
  /\ At("unary", "target")
  /\ Top.ops # <<>>
  /\ GoesOn([Top EXCEPT !.ops = Front(@), !.ret = Node("unary", Last(Top.ops), <<@>>)])
  /\ UNCHANGED s
  /\ Keeps

UnaryReturns ==
  /\ At("unary", "target")
  /\ Top.ops = <<>>
  /\ Return(Top.ret)
  /\ UNCHANGED s
  /\ Keeps

-----------------------------------------------------------------------------
(* parse_prim and parse_post *)

(* parse_post turns regular expressions off when parse_prim has returned. *)
Operand(t, node) ==
  /\ s' = SetRegexMode(t, FALSE)
  /\ GoesOn([Top EXCEPT !.pc = "loop", !.expr = node])
  /\ Keeps

ParsePrim ==
  /\ At("post", "enter")
  /\ CASE ExpectTag(s, {"ident", "regex_literal"}) -> Operand(Consume(s), Leaf(Cur(s)))
       [] Expect(s, "(")                           -> /\ s' = SkipWhite(Consume(s))
                                                      /\ Call(Top, "paren", "expr")
                                                      /\ Keeps
       [] OTHER                                    -> IF ~tolerant \/ CannotRecover(s) THEN Throw
                                                      ELSE Operand(Recover(s), BadExpr)

ParenEnds ==
  /\ At("post", "paren")
  /\ LET t == SkipWhite(s)
     IN  IF Expect(t, ")") THEN Operand(Consume(t), Node("paren", "(", <<Top.ret>>)) ELSE Throw

(* parse_call and parse_index: an argument is parsed, then the bracket closed.*)
CallBegins ==
  /\ At("post", "loop")
  /\ LET t == SkipSpace(s)
         u == SkipWhite(Consume(t))
     IN  /\ Expect(t, "(")
         /\ IF Expect(u, ")")
            THEN s' = Consume(u) /\ GoesOn([Top EXCEPT !.expr = Node("call", "(", <<@>>)])
            ELSE s' = u /\ Call(Top, "call", "expr")
  /\ Keeps

IndexBegins ==
  /\ At("post", "loop")
  /\ Expect(SkipSpace(s), "[")
  /\ s' = SkipWhite(Consume(SkipSpace(s)))
  /\ Call(Top, "index", "expr")
  /\ Keeps

BracketCloses ==
  \E pc \in {"call", "index"} :
    /\ At("post", pc)
    /\ Must(SkipWhite(s), IF pc = "call" THEN ")" ELSE "]",
            GoesOn([Top EXCEPT !.pc   = "loop",
                               !.expr = Node(pc, IF pc = "call" THEN "(" ELSE "[", <<@, Top.ret>>)]))

(* parse_access: in the tolerant mode a missing member is a dummy. *)
Access ==
  /\ At("post", "loop")
  /\ LET t == SkipSpace(s)
         u == SkipWhite(Consume(t))
         Member(v, node) == s' = v /\ GoesOn([Top EXCEPT !.expr = Node("dot", ".", <<@, node>>)]) /\ Keeps
     IN  /\ Expect(t, ".")
         /\ CASE ExpectTag(u, {"ident"})       -> Member(Consume(u), Leaf(Cur(u)))
              [] ~ExpectTag(u, {"ident"})      -> IF ~tolerant \/ CannotRecover(u) THEN Throw
                                                  ELSE Member(Recover(u), BadExpr)

PostReturns ==
  /\ At("post", "loop")
  /\ LET t == SkipSpace(s)
     IN  /\ ~(Expect(t, "(") \/ Expect(t, ".") \/ Expect(t, "["))
         /\ s' = t
         /\ Return(Top.expr)
         /\ Keeps

-----------------------------------------------------------------------------
ParseStatement == ProgramEnds \/ StatementBegins \/ StatementEnds \/ ProgramSkips
ParseExpr      == ExprBegins \/ GetsOperand \/ TakesThen \/ TakesOperator \/ LeavesLayer \/ PopsStack \/ GoesDeeper
                    \/ ExprReturns
ParseUnary     == UnaryBegins \/ TakesUnaryOp \/ TakesTarget \/ WrapsTarget \/ UnaryReturns
ParsePost      == ParsePrim \/ ParenEnds \/ CallBegins \/ IndexBegins \/ BracketCloses \/ Access \/ PostReturns

Finished == status # "run" /\ UNCHANGED vars

Next == ParseStatement \/ ParseExpr \/ ParseUnary \/ ParsePost \/ Finished

Spec == Init /\ [][Next]_vars

-----------------------------------------------------------------------------
(* What a node stands for: its children and its own tokens, in order.        *)
Tok(text) == Node("leaf", text, <<>>)
Parts(n) ==
  CASE n.kind = "leaf"                      -> <<n>>
    [] n.kind = "unary"                     -> <<Tok(n.text), n.kids[1]>>
    [] n.kind \in {"binary", "range", "dot"} -> <<n.kids[1], Tok(n.text), n.kids[2]>>
    [] n.kind = "cond"                      -> <<n.kids[1], Tok("?"), n.kids[2], Tok(":"), n.kids[3]>>
    [] n.kind = "paren"                     -> <<Tok("("), n.kids[1], Tok(")")>>
    [] n.kind = "index"                     -> <<n.kids[1], Tok("["), n.kids[2], Tok("]")>>
    [] n.kind = "call" /\ Len(n.kids) = 1   -> <<n.kids[1], Tok("("), Tok(")")>>
    [] n.kind = "call" /\ Len(n.kids) # 1   -> <<n.kids[1], Tok("("), n.kids[2], Tok(")")>>
    [] OTHER                                -> <<>>

PartsOf(nodes) == FlattenSeq([i \in DOMAIN nodes |-> Parts(nodes[i])])

(* Nodes in a row, with all replaced by their parts k times. *)
Unfolded(nodes) ==
  LET row[k \in Nat] == IF k = 0 THEN nodes ELSE PartsOf(row[k - 1])
  IN  row

(* The texts of leaves or tokens.  Error tolerance may drop punctuation. *)
Words(row) ==
  FlattenSeq([i \in DOMAIN row |->
    IF tolerant /\ row[i].text \notin {Word, NoText} THEN <<>> ELSE <<row[i].text>>])

(* The nodes k levels below those of a set. *)
Below(nodes) ==
  LET level[k \in Nat] == IF k = 0 THEN nodes ELSE UNION {ToSet(n.kids) : n \in level[k - 1]}
  IN  level

Blank == {"space", "line", "indent", "comment"}

NotBlank(tokens) ==
  FlattenSeq([i \in DOMAIN tokens |-> IF tokens[i].tag \in Blank THEN <<>> ELSE <<tokens[i]>>])

(* What the parser has read. *)
Read(t) == NotBlank(SubSeq(t.tokens, 1, t.cur - 1))

CommentsIn(tokens) ==
  FlattenSeq([i \in DOMAIN tokens |-> IF tokens[i].tag = "comment" THEN <<tokens[i].from>> ELSE <<>>])

(* Every iterator the stream keeps points into the list when it may be used. *)
(* shrink leaves last_skip before the list; the skip_white that follows it   *)
(* in parse() is what makes that harmless.                                   *)
IteratorsInList ==
  /\ s.begin \in 1 .. End(s) /\ s.cur \in s.begin .. End(s)
  /\ s.prevSkip # None => s.prevSkip \in s.begin .. s.cur
  /\ s.lastSkip # None /\ ~At("parse", "shrunk") => s.lastSkip \in s.begin .. s.cur - 1
  /\ status \in {"run", "done", "error", "type"} /\ Len(calls) >= 1

(* The elements of the program stand for the tokens that were consumed: no   *)
(* operator left on a stack takes its operand with it, and going back in a   *)
(* recovery reads no token twice.  Error tolerance may only drop punctuation.*)
(* Every comment the lexer met is attached once, or waits to be.             *)
NothingDropped ==
  /\ notes \o s.comments = CommentsIn(s.tokens)
  /\ At("parse", "enter") \/ status = "done" =>
       \A k \in 0 .. Len(s.tokens) + 1 :
         LET row == Unfolded(prog)[k]
         IN  (\A i \in DOMAIN row : row[i].kind = "leaf") => Words(row) = Words(Read(s))

(* The layer of an operator; 0 for what binds tighter than all operators. *)
LayerOf(n) ==
  CASE n.kind \in {"binary", "range"} -> CHOOSE d \in 1 .. BinLayerLen : n.text \in BinLayers[d]
    [] n.kind = "cond"                -> CondLayer
    [] OTHER                          -> 0

(* How deep the operands of an operator may be in the language: all layers   *)
(* associate to the left except assignments and conditionals; comparisons    *)
(* and ranges do not associate (parse.cpp:1055, 1061).                       *)
KidLayers(n) ==
  LET d == LayerOf(n)
  IN  CASE d = 0            -> [i \in DOMAIN n.kids |-> IF n.kind \in {"paren", "call", "index"} /\ (n.kind = "paren" \/ i = 2)
                                                      THEN BinLayerLen ELSE 0]
        [] d = CondLayer    -> <<d - 1, d - 1, d>>
        [] d = AssignLayer  -> <<d - 1, d>>
        [] d \in {CompareLayer, RangeLayer} -> <<d - 1, d - 1>>
        [] OTHER            -> <<d, d - 1>>

(* What the parser accepts: as is_range_op is never true, the first operand  *)
(* of a range may be a range.                                                *)
AcceptedLayers(n) ==
  IF LayerOf(n) = RangeLayer THEN <<RangeLayer, RangeLayer - 1>> ELSE KidLayers(n)

WellLayered(n) == \A i \in DOMAIN n.kids : LayerOf(n.kids[i]) <= AcceptedLayers(n)[i]

(* Every tree the operator stack builds has the precedence and associativity *)
(* of bin_layers, at every level, except that ranges chain to the left.      *)
PrecedenceKept == \A k \in 0 .. Len(s.tokens) : \A n \in Below(ToSet(prog))[k] : WellLayered(n)

(* parse.cpp:1061, "this is like `a .. b .. c` but this language not support *)
(* it": no operand of a range is a range.                                    *)
RangesNotChained ==
  \A k \in 0 .. Len(s.tokens) : \A n \in Below(ToSet(prog))[k] :
    LayerOf(n) = RangeLayer =>
      \A i \in DOMAIN n.kids : LayerOf(n.kids[i]) <= KidLayers(n)[i]

(* A range without an end stops its expression. *)
EndsOpen ==
  LET read == {i \in 1 .. s.cur - 1 : s.tokens[i].tag \notin Blank}
  IN  \E i \in read : s.tokens[i].text \in BinLayers[RangeLayer] /\ \A j \in read : j <= i

(* What may follow an operand. *)
Continues == ((UNION {BinLayers[d] : d \in 1 .. BinLayerLen}) \ {":"}) \cup {"(", ".", "["}

(* An expression ends only before a token that cannot continue it. *)
ExpressionTakesAll ==
  At("parse", "statement") /\ ~EndsOpen =>
    LET t == SkipSpace(s) IN Eos(t) \/ Cur(t).text \notin Continues

(* Error tolerance ends: a statement that consumes nothing has recovered at  *)
(* a new place, so there are at most two statements for each token read.     *)
StatementsAdvance == Len(prog) <= 2 * (s.cur - 1) + 1 /\ (~tolerant => Len(prog) < s.cur)

IsRegex(t) == t.tag \in {"regex_literal", "partial_regex_literal"}

(* parse.cpp:773, "from here, regex literal is not allowed": after an operand*)
(* a slash is a division.  The argument of a call or an index ends with      *)
(* set_regex_mode(true), so the slash after the bracket is not.              *)
SlashAfterOperandDivides ==
  ~tolerant =>
    \A i \in 2 .. Len(s.tokens) :
      IsRegex(s.tokens[i]) => s.tokens[i - 1].text \notin {Word, ")", "]"} /\ ~IsRegex(s.tokens[i - 1])
=============================================================================
