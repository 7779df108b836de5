--------------------------- MODULE TypeAttribute ---------------------------
(* The passes of src/src/core/middle/type_attribute.cpp over the types of a  *)
(* program: which structs are recursive, which types need no allocation, and *)
(* the bit size, alignment, offsets and follow of every struct's fields.     *)
(*                                                                           *)
(* A program is a table of type nodes.  The passes walk it depth first, meet *)
(* a node again through references and cycles, and write the attributes of a *)
(* node when they leave it, so what they compute depends on the order.       *)
(* Each pass is one step; the walk threads its state through a fold.         *)
(* Field arguments (peek, sub_range, explicit alignment) are left out, and   *)
(* the types of expressions: a UnionType, that of an identifier with a field *)
(* in each branch, is no field's type, so its marks concern no other type.   *)
EXTENDS Integers, Sequences, FiniteSets, SequencesExt

CONSTANT Programs   \* tables: type node -> [kind, of, n]

None == -1          \* std::nullopt of a size, and the length of a dynamic array

\* ast::BitAlignment: byte_aligned is 0, bit_1 .. bit_7 are 1 .. 7
NotTarget    == 8
NotDecidable == 9

VARIABLES
  program,     \* the table; program[Root] lists the formats
  recursive,   \* the structs marked recursive
  nonDynamic,  \* the types with non_dynamic_allocation
  attr,        \* type node -> its bit_size, bit_alignment and, for a struct, the
               \* fixed sizes at both ends
  fields,      \* struct -> attributes of its fields, in order
  phase        \* the pass that runs next

vars == <<program, recursive, nonDynamic, attr, fields, phase>>

Root == <<>>

Kind(n)   == program[n].kind
Of(n)     == program[n].of      \* element, base, branches or field types
Structs   == {n \in DOMAIN program : Kind(n) = "struct"}

NewField == [align |-> NotTarget, eventualAlign |-> NotTarget, follow |-> "unknown",
             eventualFollow |-> "unknown", offset |-> None, recent |-> 0,
             tailOffset |-> None, tailRecent |-> 0]

Init ==
  /\ program \in Programs
  /\ recursive = {}
  /\ nonDynamic = {}
  /\ attr = [n \in DOMAIN program |->
               [size   |-> IF Kind(n) = "int" THEN program[n].n ELSE None,
                align  |-> NotTarget, header |-> 0, tail |-> 0]]
  /\ fields = [n \in Structs |-> [i \in DOMAIN Of(n) |-> NewField]]
  /\ phase = "mark"

-----------------------------------------------------------------------------
(* mark_recursive_reference: a struct met again on the path that leads to it *)
(* is recursive.  `path' is the set typ.  A struct is traversed twice.       *)

\* Mutant: a struct is tracked before its fields are walked.
RECURSIVE MarkMutant(_, _)
MarkMutant(w, n) ==
  IF Kind(n) # "struct" THEN FoldLeft(MarkMutant, w, Of(n))
  ELSE IF n \in w.tracked \cup w.recursive THEN w
  ELSE FoldLeft(MarkMutant, [w EXCEPT !.tracked = @ \cup {n}], Of(n))

RECURSIVE Mark(_, _)
Mark(w, n) ==
  LET All(x) == FoldLeft(Mark, x, Of(n))
  IN  IF Kind(n) # "struct" THEN All(w)
      ELSE IF n \in w.tracked \cup w.recursive THEN w
      ELSE LET inside == All([w EXCEPT !.recursive = IF n \in w.path THEN @ \cup {n} ELSE @,
                                       !.path      = @ \cup {n}])
           IN  All([inside EXCEPT !.path = @ \ {n}, !.tracked = @ \cup {n}])

MarkRecursiveReference ==
  /\ phase = "mark"
  /\ recursive' = Mark([path |-> {}, tracked |-> {}, recursive |-> recursive], Root).recursive
  /\ phase' = "detect"
  /\ UNCHANGED <<program, nonDynamic, attr, fields>>

-----------------------------------------------------------------------------
(* detect_non_dynamic_type: judged when the walk leaves a type; a type that  *)
(* is still being walked counts as dynamic.                                  *)

\* Mutant: only the element of an array is looked at.
NeedsNoAllocationMutant(n, known) ==
  Kind(n) \in {"int", "str", "enum"} \/ (n \notin recursive /\ ToSet(Of(n)) \subseteq known)

NeedsNoAllocation(n, known) ==
  CASE Kind(n) = "struct"                  -> n \notin recursive /\ ToSet(Of(n)) \subseteq known
    [] Kind(n) = "array"                   -> program[n].n # None /\ ToSet(Of(n)) \subseteq known
    [] Kind(n) \in {"ref", "union", "program"} -> ToSet(Of(n)) \subseteq known
    [] Kind(n) \in {"int", "str", "enum"}  -> TRUE

RECURSIVE Detect(_, _)
Detect(w, n) ==
  IF n \in w.tracked THEN w
  ELSE LET inside == FoldLeft(Detect, [w EXCEPT !.tracked = @ \cup {n}], Of(n))
       IN  IF NeedsNoAllocation(n, inside.known) THEN [inside EXCEPT !.known = @ \cup {n}] ELSE inside

DetectNonDynamicType ==
  /\ phase = "detect"
  /\ nonDynamic' = Detect([tracked |-> {}, known |-> nonDynamic], Root).known
  /\ phase' = "first"
  /\ UNCHANGED <<program, recursive, attr, fields>>

-----------------------------------------------------------------------------
(* analyze_forward_bit_alignment_and_size: a fold over the fields of a       *)
(* struct.  `fs' are the fields so far, `prev' the last field that counts;   *)
(* a field whose type is not a target is passed over.                        *)

Plus(size, more) == IF size = None \/ more = None THEN None ELSE size + more

CalcAlignment(current, add) == (current + add) % 8

FollowOf(type, ty) == IF Kind(type) = "str" THEN "constant" ELSE IF ty.size # None THEN "fixed" ELSE "normal"

ForwardField(at, n, w, i) ==
  LET type  == Of(n)[i]
      ty    == at[type]
      align == IF NotDecidable \in {ty.align, w.align} THEN NotDecidable ELSE CalcAlignment(w.align, ty.align)
      fs    == IF w.prev = 0 THEN w.fs ELSE [w.fs EXCEPT ![w.prev].follow = FollowOf(type, ty)]
  IN  IF ty.align = NotTarget
      THEN [w EXCEPT !.fs[i].align = NotTarget, !.fs[i].eventualAlign = NotTarget]
      ELSE [fs     |-> [fs EXCEPT ![i].align = align, ![i].offset = w.size, ![i].recent = w.offset],
            prev   |-> i,
            align  |-> align,
            size   |-> Plus(w.size, ty.size),
            offset |-> IF ty.size = None THEN 0 ELSE w.offset + ty.size,
            header |-> IF ty.size = None /\ w.size \notin {None, 0} THEN w.size ELSE w.header]

\* Mutant: the bit size is not reset before the fields are added.
ForwardMutant(at, fs, n) ==
  LET w == FoldLeft(LAMBDA x, i : ForwardField(at, n, x, i),
                    [fs |-> fs, prev |-> 0, align |-> 0, size |-> IF at[n].size = None THEN 0 ELSE at[n].size,
                     offset |-> 0, header |-> at[n].header],
                    [i \in DOMAIN Of(n) |-> i])
  IN  [w EXCEPT !.fs = IF w.prev = 0 THEN @ ELSE [@ EXCEPT ![w.prev].follow = "end"]]

Forward(at, fs, n) ==
  LET w == FoldLeft(LAMBDA x, i : ForwardField(at, n, x, i),
                    [fs |-> fs, prev |-> 0, align |-> 0, size |-> 0, offset |-> 0, header |-> at[n].header],
                    [i \in DOMAIN Of(n) |-> i])
  IN  [w EXCEPT !.fs     = IF w.prev = 0 THEN @ ELSE [@ EXCEPT ![w.prev].follow = "end"],
                !.header = IF w.size # None THEN w.size ELSE @]

(* analyze_backward_size_and_follow: the same from the end. *)

\* Mutant: the offset is advanced before it is recorded.
BackwardFieldMutant(at, n, w, i) ==
  LET ty     == at[Of(n)[i]]
      follow == IF w.fs[i].follow = "fixed" THEN w.current ELSE w.fs[i].follow
      offset == IF ty.size = None THEN 0 ELSE w.offset + ty.size
  IN  IF w.fs[i].follow = "unknown" THEN w
      ELSE [w EXCEPT !.fs[i].eventualFollow = follow,
                     !.fs[i].tailOffset     = w.size,
                     !.fs[i].tailRecent     = offset,
                     !.current              = follow,
                     !.size                 = Plus(@, ty.size),
                     !.offset               = offset]

BackwardField(at, n, w, i) ==
  LET ty     == at[Of(n)[i]]
      f      == w.fs[i]
      follow == IF f.follow = "fixed" THEN w.current ELSE f.follow
      first  == w.eventual = None
  IN  IF f.follow = "unknown" THEN w
      ELSE [fs       |-> [w.fs EXCEPT ![i].eventualFollow = follow,
                                      ![i].eventualAlign  = IF first \/ f.align = 0 THEN f.align ELSE w.eventual,
                                      ![i].tailOffset     = w.size,
                                      ![i].tailRecent     = w.offset],
            current  |-> follow,
            eventual |-> IF first THEN f.align ELSE w.eventual,
            size     |-> Plus(w.size, ty.size),
            offset   |-> IF ty.size = None THEN 0 ELSE w.offset + ty.size,
            tail     |-> IF ty.size = None /\ w.size \notin {None, 0} THEN w.size ELSE w.tail]

Backward(at, fs, n) ==
  LET w == FoldLeft(LAMBDA x, i : BackwardField(at, n, x, i),
                    [fs |-> fs, current |-> "unknown", eventual |-> None, size |-> 0, offset |-> 0,
                     tail |-> at[n].tail],
                    [i \in DOMAIN Of(n) |-> Len(Of(n)) + 1 - i])
  IN  [w EXCEPT !.tail = IF w.size # None THEN w.size ELSE @]

-----------------------------------------------------------------------------
(* set_struct_union_bit_alignment: size and alignment that the branches      *)
(* agree on.  A size of 0 stands for "none yet".                             *)

\* Mutant: the size of the first branch stands for all.
UnionBranchMutant(at, w, b) ==
  IF w.stop \/ at[b].align = NotTarget THEN w
  ELSE [align |-> IF w.align = NotTarget THEN at[b].align ELSE w.align,
        size  |-> IF w.size = 0 THEN at[b].size ELSE w.size, stop |-> FALSE]

UnionBranch(at, w, b) ==
  LET br    == at[b]
      align == IF w.align = NotTarget THEN br.align ELSE w.align
      size  == IF w.size = 0 THEN br.size ELSE IF w.size # br.size THEN None ELSE w.size
  IN  IF w.stop \/ br.align = NotTarget THEN w
      ELSE IF \/ br.align = NotDecidable
              \/ align # br.align /\ br.size # 0
      THEN [align |-> NotDecidable, size |-> None, stop |-> TRUE]
      ELSE [align |-> align, size |-> size, stop |-> FALSE]

UnionOf(at, n) ==
  LET w == FoldLeft(LAMBDA x, b : UnionBranch(at, x, b), [align |-> NotTarget, size |-> 0, stop |-> FALSE], Of(n))
  IN  [at[n] EXCEPT !.align = w.align,
                    !.size  = IF program[n].n = 1 /\ w.size # None THEN w.size ELSE @]

ArrayOf(at, n) ==
  LET el   == at[Of(n)[1]]
      size == IF program[n].n # None /\ el.size # None THEN program[n].n * el.size ELSE None
  IN  [at[n] EXCEPT !.size  = size,
                    !.align = IF el.align \in {0, NotTarget, NotDecidable} THEN el.align
                              ELSE IF size # None THEN size % 8 ELSE NotDecidable]

(* What the walk writes when it leaves a type that is no struct. *)
Left(at, n, mode) ==
  CASE Kind(n) = "program" -> at[n]
    [] Kind(n) = "ref"   -> [at[n] EXCEPT !.size = at[Of(n)[1]].size, !.align = at[Of(n)[1]].align]
    [] Kind(n) = "array" -> ArrayOf(at, n)
    [] Kind(n) = "union" -> UnionOf(at, n)
    [] Kind(n) = "int"   -> IF mode = "first" THEN [at[n] EXCEPT !.align = at[n].size % 8] ELSE at[n]
    [] Kind(n) = "str"   -> IF mode = "first" THEN [at[n] EXCEPT !.align = 0, !.size = 8 * program[n].n] ELSE at[n]
    [] Kind(n) = "enum"  -> [at[n] EXCEPT !.align = IF Of(n) = <<>> THEN NotDecidable ELSE at[Of(n)[1]].align,
                                          !.size  = IF Of(n) = <<>> THEN None ELSE at[Of(n)[1]].size]

RECURSIVE Analyze(_, _, _)
Analyze(w, n, mode) ==
  IF n \in w.tracked THEN w
  ELSE LET inside == FoldLeft(LAMBDA x, m : Analyze(x, m, mode), [w EXCEPT !.tracked = @ \cup {n}], Of(n))
           forth  == Forward(inside.attr, inside.fields[n], n)
           back   == Backward(inside.attr, forth.fs, n)
       IN  IF Kind(n) = "struct"
           THEN [inside EXCEPT !.fields[n] = back.fs,
                               !.attr[n] = [size |-> forth.size, align |-> forth.align,
                                            header |-> forth.header, tail |-> back.tail]]
           ELSE [inside EXCEPT !.attr[n] = Left(inside.attr, n, mode)]

AnalyzeBitSizeAndAlignment(mode, next) ==
  /\ phase = mode
  /\ LET w == Analyze([tracked |-> {}, attr |-> attr, fields |-> fields], Root, mode)
     IN  attr' = w.attr /\ fields' = w.fields
  /\ phase' = next
  /\ UNCHANGED <<program, recursive, nonDynamic>>

FirstPass  == AnalyzeBitSizeAndAlignment("first", "second")
SecondPass == AnalyzeBitSizeAndAlignment("second", "done")

Finished == phase = "done" /\ UNCHANGED vars

Next == MarkRecursiveReference \/ DetectNonDynamicType \/ FirstPass \/ SecondPass \/ Finished

Spec == Init /\ [][Next]_vars

-----------------------------------------------------------------------------
(* What the passes should find, from the program alone. *)

(* The nodes a node reaches by at least one use, not going on from `avoided'. *)
RECURSIVE Grown(_, _)
Grown(S, avoided) ==
  LET more == S \cup UNION {ToSet(Of(m)) : m \in S \ avoided}
  IN  IF more = S THEN S ELSE Grown(more, avoided)

ReachedPast(n, avoided) == Grown(ToSet(Of(n)), avoided)
Reached(n) == ReachedPast(n, {})

OnCycle == {n \in Structs : n \in Reached(n)}

Sums(A, B) == {a + b : a \in A, b \in B}

(* The bit lengths a value of type n can have: lengths of dynamic arrays are *)
(* cut at two elements, and recursion after `depth' references.              *)
RECURSIVE Lengths(_, _)
Lengths(n, depth) ==
  LET Part(m)   == Lengths(m, depth)
      InARow(s) == FoldLeft(LAMBDA sum, m : Sums(sum, Part(m)), {0}, s)
      Times(k)  == InARow([i \in 1 .. k |-> Of(n)[1]])
  IN  CASE Kind(n) = "int"    -> {program[n].n}
        [] Kind(n) = "str"    -> {8 * program[n].n}
        [] Kind(n) = "enum"   -> IF Of(n) = <<>> THEN {4, 8} ELSE Part(Of(n)[1])
        [] Kind(n) = "ref"    -> IF depth = 0 THEN {} ELSE Lengths(Of(n)[1], depth - 1)
        [] Kind(n) = "array"  -> IF program[n].n # None THEN Times(program[n].n)
                                 ELSE UNION {Times(k) : k \in 0 .. 2}
        [] Kind(n) = "union"  -> UNION {Part(m) : m \in ToSet(Of(n))}
                                   \cup (IF program[n].n = 1 THEN {} ELSE {0})
        [] Kind(n) = "struct" -> InARow(Of(n))

Depth == 3

(* Lengths of the fields of struct n from the first to the last of a range. *)
Span(n, from, to) ==
  FoldLeft(LAMBDA sum, m : Sums(sum, Lengths(m, Depth)), {0}, SubSeq(Of(n), from, to))

-----------------------------------------------------------------------------
(* Every cycle of structs, whatever fields and arrays it goes through, holds *)
(* a struct marked recursive, and no struct outside a cycle is marked:       *)
(* generators break a cycle at the marked struct (type_attribute.cpp:20-55). *)
RecursiveMarks ==
  phase # "mark" =>
    /\ recursive \subseteq OnCycle
    /\ \A n \in OnCycle \ recursive : n \notin ReachedPast(n, recursive)

(* A type needs no allocation just if no dynamic array and no struct of a    *)
(* cycle can be reached from it (base.h:48-49), whatever the order in which  *)
(* the walk meets it.                                                        *)
NonDynamicExact ==
  phase \in {"first", "second", "done"} =>
    \A n \in Reached(Root) :
      n \in nonDynamic
        <=> \A m \in {n} \cup Reached(n) : m \notin OnCycle /\ ~(Kind(m) = "array" /\ program[m].n = None)

(* A size is the length of all values (base.h:55), and header and tail       *)
(* together never exceed the shortest one, which makes them a bound for a    *)
(* reader.  Two kinds of programs are left out, where the code has no answer *)
(* of its own: recursive formats, whose references keep the size their       *)
(* format had before the cycle was closed, and (in the run) unions with an   *)
(* empty first branch, which are given the size of the next branch, since a  *)
(* size of 0 stands for "none yet" (type_attribute.cpp:360).                 *)
SizeSound ==
  phase = "done" /\ OnCycle = {} =>
    /\ \A n \in Reached(Root) : attr[n].size # None => Lengths(n, Depth) \subseteq {attr[n].size}
    /\ \A n \in Structs \cap Reached(Root) :
         attr[n].size = None =>
           \A l \in Lengths(n, Depth) : attr[n].header + attr[n].tail <= l

(* A union that can be empty although some branch ends within a byte.        *)
MayBeEmpty(n) ==
  LET lengths == Lengths(n, Depth)
  IN  Kind(n) = "union" /\ 0 \in lengths /\ \E l \in lengths : l % 8 # 0

(* None is part of the first fields of struct n.                             *)
Steady(n, upto) ==
  \A i \in 1 .. upto : \A m \in {Of(n)[i]} \cup Reached(Of(n)[i]) : ~MayBeEmpty(m)

(* Offsets are distances all values agree on, alignment is where the field   *)
(* ends, and behind a field eventually followed by the end lie as many bits  *)
(* as tail_offset_recent says, which is what json2cpp2 leaves unread behind  *)
(* an array of unknown length (json2cpp2/generate.h:970).  Alignments are    *)
(* claimed only up to the first union that MayBeEmpty: the code lets a       *)
(* branch without bits, or a missing one, suit any alignment                 *)
(* (type_attribute.cpp:368-369), which is wrong within a byte.               *)
FieldsPlaced ==
  phase = "done" /\ OnCycle = {} =>
    \A n \in Structs \cap Reached(Root) : \A i \in DOMAIN Of(n) :
      LET f      == fields[n][i]
          before == Span(n, 1, i - 1)
          behind == Span(n, i + 1, Len(Of(n)))
      IN  /\ f.offset # None     => before \subseteq {f.offset}
          /\ f.tailOffset # None => behind \subseteq {f.tailOffset}
          /\ f.align \in 0 .. 7 /\ Steady(n, i) => \A l \in Span(n, 1, i) : l % 8 = f.align
          /\ f.eventualFollow = "end" => behind \subseteq {f.tailRecent}

(* Where no struct is recursive the second pass confirms the first one.      *)
SecondPassStable == [][phase = "second" /\ OnCycle = {} => UNCHANGED <<attr, fields>>]_vars
=============================================================================
