-------------------------- MODULE MCTypeAttribute --------------------------
(* Small programs: all reference graphs of three formats, and all formats of *)
(* up to three fields from a palette next to a fixed second format.          *)
EXTENDS TypeAttribute, TLC

Node(k, s, l) == [kind |-> k, sub |-> s, n |-> l, to |-> 0]
Bits(b)        == Node("int", <<>>, b)
Str(l)        == Node("str", <<>>, l)
Array(l, t)   == Node("array", <<t>>, l)
Struct(s)     == Node("struct", s, 0)
Cases(s)      == Node("union", [i \in DOMAIN s |-> Struct(s[i])], 0)
AllCases(s)   == [Cases(s) EXCEPT !.n = 1]
Enum(s)       == Node("enum", s, 0)
To(i)         == [Node("ref", <<>>, 0) EXCEPT !.to = i]

(* The table of a tree: a node is named by its path, a reference goes to the *)
(* format it names.                                                          *)
RECURSIVE Table(_, _)
Table(t, path) ==
  LET Child(i) == Append(path, i)
      node     == [kind |-> t.kind, n |-> t.n,
                   of |-> IF t.kind = "ref" THEN << <<t.to>> >> ELSE [i \in DOMAIN t.sub |-> Child(i)]]
  IN  FoldLeft(LAMBDA table, i : table @@ Table(t.sub[i], Child(i)), path :> node, [i \in DOMAIN t.sub |-> i])

Program(formats) == Table(Node("program", [i \in DOMAIN formats |-> Struct(formats[i])], 0), Root)

UpTo(S, k) == UNION {[1 .. l -> S] : l \in 0 .. k}

Graphs3 == {Program(f) : f \in [1 .. 3 -> UpTo({To(1), To(2), To(3)}, 2)]}

Palette == {Bits(8), Bits(4), Str(1), Array(2, Bits(4)), Array(None, Bits(8)), Array(None, Bits(4)),
            Array(None, To(1)), Enum(<<>>), To(2),
            AllCases(<< <<Bits(8)>>, <<Bits(8)>> >>), AllCases(<< <<Bits(4)>>, <<Bits(4)>> >>), AllCases(<< <<Bits(8)>>, <<Bits(4)>> >>),
            AllCases(<< <<Bits(4)>>, <<>> >>), Cases(<< <<Bits(4)>> >>),
            Cases(<< <<Array(None, Bits(8))>>, <<Bits(8)>> >>)}

Seconds == {<<Bits(4)>>, <<Bits(8), Array(None, Bits(8)), Str(1)>>, <<Bits(8), Array(None, To(1))>>}

Layouts == {Program(<<f, s>>) : f \in UpTo(Palette, 3), s \in Seconds}

MCPrograms == Graphs3 \cup Layouts
=============================================================================
