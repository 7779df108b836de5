---------------------------- MODULE MCExprParser ----------------------------
(* Instances of ExprParser: texts of three kinds.                            *)
EXTENDS ExprParser

(* Lexemes that the lexer would read as one token are never neighbours. *)
Joins == {"=", "==", "..", ".", "*", "+", "/", "&&", "||"}

Separated(text) ==
  \A i \in 1 .. Len(text) - 1 :
    /\ ~(text[i] \in Joins /\ text[i + 1] \in Joins)
    /\ ~(text[i] = text[i + 1] /\ text[i] \in {Word, Space})
    /\ ~(text[i] = ":" /\ text[i + 1] \in {"=", "=="}) /\ ~(text[i] = "-" /\ text[i + 1] \in {"=", "=="})
    /\ text[i] = Hash => text[i + 1] = Line

(* Operands with n operators between them. *)
Chain(ops, n) ==
  {[i \in 1 .. 2 * n + 1 |-> IF i % 2 = 1 THEN Word ELSE f[i \div 2]] : f \in [1 .. n -> ops]}

(* Any lexemes, n of them. *)
Texts(lexemes, n) == {text \in [1 .. n -> lexemes] : Separated(text)}

Chains == Chain({"*", "+", "-", "==", "&&", "?", ":", "..", "=", ","}, 3)
            \cup Chain({"*", "?", ":", "..", "="}, 4)
            \cup Chain({"?", ":"}, 5)

Texts1 == Texts({Word, "-", "..", "(", ")"}, 4) \cup Texts({Word, "-", "*", "..", "[", "]"}, 4)
Texts2 == UNION {Texts({Word, Space, Line, Hash, ".", "(", ")"}, n) : n \in 1 .. 4}
Texts3 == Texts({Word, Space, Line, "."}, 6)

Bases  == {<<Word>>, <<Word, "(", ")">>, <<Word, "(", Word, ")">>, <<Word, "[", Word, "]">>, <<"(", Word, ")">>}
Quotients == {base \o <<"/", Word, "/", Word>> : base \in Bases} \cup Texts({Word, "/", Line, "="}, 5)

Slashes == Quotients \cup {base \o tail : base \in Bases, tail \in {<<"/", Word>>}}

(* Two ranges, or sums, in a row. *)
RangeChains == Chain({"..", "+"}, 2)

MCSources == Chains \cup Texts1 \cup Texts2 \cup Texts3 \cup Slashes
=============================================================================
