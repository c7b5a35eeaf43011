------------------------------ MODULE MCToolPath ------------------------------
(***************************************************************************)
(* Instances of ToolPath for TLC: every text up to MaxLength over the      *)
(* letters T and x and the three kinds of white space.                     *)
(***************************************************************************)
EXTENDS ToolPath

CONSTANT MaxLength

Letters == {"T", "x", SP, CR, LF}
Codes == [c \in Letters |-> CASE c = "T" -> 84 [] c = "x" -> 120
                              [] c = SP -> 32 [] c = CR -> 13 [] c = LF -> 10]
Uppers == [c \in Letters |-> IF c = "x" THEN <<"X">> ELSE <<c>>]

AllTexts == UNION {[1 .. n -> Letters] : n \in 0 .. MaxLength}
SomeQueries == {<<>>, <<"T">>, <<"T", "x">>, <<"T", SP>>, <<"T", LF>>}

Document(path, text) == [path |-> path, text |-> text]

RunTask(args) == [tool |-> "wasm.run_task", args |-> args]

\* Arguments beside the name of the task, as the worker reads them.
FlatArgs ==
    {[task |-> "grep", query |-> q, documents |-> <<Document("a", t)>>] :
        q \in Queries, t \in Texts}
      \cup {[task |-> "grep", documents |-> <<Document("a", t), None,
                                            Document(p, <<"T">>)>>] :
               t \in Texts, p \in {"a", "b"}}
      \cup {[task |-> k, text |-> t] : k \in {"tokenize", "embed", "transcode"},
                                       t \in Texts}
      \cup {[task |-> "sort"], [query |-> <<"T">>],
            [task |-> "grep", documents |-> None, timeout_ms |-> 1]}

Flat == {RunTask(args) : args \in FlatArgs}
          \cup {[tool |-> "parser.index", args |-> [text |-> <<>>]]}

\* Arguments in a field of their own, as the manifest declares them.
Nested ==
    {RunTask([task |-> "grep", args |-> [query |-> q,
                                         documents |-> <<Document("a", t)>>]]) :
        q \in Queries, t \in Texts}
=============================================================================
