---------------------------- MODULE MCPlayground ----------------------------
(* Small instances of Playground for TLC.                                  *)
EXTENDS Playground

Ask(source, lang) == [source |-> source, lang |-> lang]
UpTo(n, asks) == UNION {[1..i -> asks] : i \in 1..n}

\* The two ways through makeArgs, with and without json2cpp2 after it, an
\* import to fetch, and a source that cannot be passed to a module.
MCRequests ==
    {Ask("plain", "cpp"), Ask("plain", "tokens"), Ask("plain", "json ast"),
     Ask("import", "json ast"), Ask("malformed", "cpp"), Ask("empty", "cpp")}

\* Two of any but the plain AST, which C++ code is made from; three that go
\* through both workers or fetch an import; four that end in src2json: as many
\* as it takes for a request to meet a trap.
MCScripts ==
    UpTo(2, MCRequests \ {Ask("plain", "json ast")})
        \cup UpTo(3, {Ask("plain", "cpp"), Ask("import", "json ast")})
        \cup UpTo(4, {Ask("plain", "tokens"), Ask("plain", "json ast")})

\* For the run that looks for a violation.
MCPlain == UpTo(2, {Ask("plain", "cpp")})
=============================================================================
