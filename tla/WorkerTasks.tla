------------------------------ MODULE WorkerTasks ------------------------------
(***************************************************************************)
(* What the text tasks of the workers compute: runTask of wasm.worker.ts   *)
(* and runParserTask of parser.worker.ts (src/frontend/src/workers).       *)
(*                                                                         *)
(* A text is a sequence of characters, arguments are records: a field that *)
(* is not in the domain is undefined in the program.  Results keep the     *)
(* fields that somebody reads; a summary keeps its number.                 *)
(***************************************************************************)
EXTENDS Integers, SequencesExt

CONSTANTS
    CharCode,       \* charCodeAt: character -> number
    UpperCase,      \* toUpperCase: character -> text
    None            \* something that is neither an array nor a document

LF == "lf"
CR == "cr"
SP == "sp"
White == {LF, CR, SP}

TODO == <<"T">>     \* the default query
UNDEFINED == <<"u">> \* String.includes takes undefined for this word

-----------------------------------------------------------------------------
(* Strings.                                                                *)

\* args.name ?? default.
Arg(args, name, default) == IF name \in DOMAIN args THEN args[name] ELSE default

trim(text) ==
    LET solid == {i \in DOMAIN text : text[i] \notin White} IN
    IF solid = {} THEN <<>> ELSE SubSeq(text, Min(solid), Max(solid))

includes(line, word) ==
    \E i \in 0 .. Len(line) - Len(word) :
        SubSeq(line, i + 1, i + Len(word)) = word

\* The elements of a finite set of numbers, the smallest first.
Ascending(S) ==
    [n \in 1 .. Cardinality(S) |->
        CHOOSE x \in S : Cardinality({y \in S : y < x}) = n - 1]

\* The items that pass the test, in their order.
Select(seq, Test(_)) ==
    LET at == Ascending({i \in DOMAIN seq : Test(seq[i])})
    IN  [n \in DOMAIN at |-> seq[at[n]]]

\* Mutant of Breaks: a line feed right after another one ends no line.
BreaksFolded(text) ==
    {i \in DOMAIN text : text[i] = LF /\ (i = 1 \/ text[i - 1] # LF)}

\* The line feeds of a text.
Breaks(text) == {i \in DOMAIN text : text[i] = LF}

\* Where a line begins: at the start, or after a line feed.
LineBegin(text, n) == IF n = 1 THEN 1 ELSE Ascending(Breaks(text))[n - 1] + 1

\* Where it ends: before the next line feed, and before a carriage return that
\* stands right before that.
LineEnd(text, n) ==
    IF n > Cardinality(Breaks(text)) THEN Len(text)
    ELSE LET break == Ascending(Breaks(text))[n] IN
         IF break > LineBegin(text, n) /\ text[break - 1] = CR
         THEN break - 2 ELSE break - 1

\* text.split(/\r?\n/).
Lines(text) ==
    [n \in 1 .. Cardinality(Breaks(text)) + 1 |->
        SubSeq(text, LineBegin(text, n), LineEnd(text, n))]

\* text.trim().split(/\s+/), and [] for a text of nothing but white space.
Tokens(text) ==
    LET solid == {i \in DOMAIN text : text[i] \notin White}
        begins == Ascending({i \in solid : i - 1 \notin solid})
        ends == Ascending({i \in solid : i + 1 \notin solid})
    IN  [n \in DOMAIN begins |-> SubSeq(text, begins[n], ends[n])]

-----------------------------------------------------------------------------
(* wasm.worker.ts.                                                         *)

\* Items that are no documents are dropped, and so is what is no array.
normalizeDocuments(input) ==
    IF input = None THEN <<>> ELSE Select(input, LAMBDA item : item # None)

\* The lines of one document that have the query in them.
Matches(document, query) ==
    LET lines == Lines(document.text) IN
    Select([n \in DOMAIN lines |-> [path |-> document.path, line |-> n,
                                       text |-> trim(lines[n])]],
              LAMBDA match : includes(lines[match.line], query))

grepDocuments(args) ==
    LET query == Arg(args, "query", TODO)
        documents == normalizeDocuments(Arg(args, "documents", None))
        matches == FlattenSeq([d \in DOMAIN documents |->
                                 Matches(documents[d], query)])
    IN  [task |-> "grep", query |-> query, matches |-> matches,
         summary |-> Len(matches)]

tokenizeText(args) ==
    LET tokens == Tokens(Arg(args, "text", <<>>)) IN
    [task |-> "tokenize", tokens |-> tokens, count |-> Len(tokens)]

\* The first 16 characters, each with its position, modulo 17.
embedText(args) ==
    LET text == Arg(args, "text", <<>>)
        vector == [i \in 1 .. Min({16, Len(text)}) |->
                     (CharCode[text[i]] + i - 1) % 17]
    IN  [task |-> "embed", dimensions |-> Len(vector), vector |-> vector]

transcodeText(args) ==
    LET text == Arg(args, "text", <<>>) IN
    [task |-> "transcode", summary |-> Len(text),
     output |-> FlattenSeq([i \in DOMAIN text |-> UpperCase[text[i]]])]

WasmTasks == {"grep", "tokenize", "embed", "transcode"}

runTask(task, args) ==
    CASE task = "grep"      -> grepDocuments(args)
      [] task = "tokenize"  -> tokenizeText(args)
      [] task = "embed"     -> embedText(args)
      [] task = "transcode" -> transcodeText(args)

-----------------------------------------------------------------------------
(* parser.worker.ts.                                                       *)

runParserTask(task, args) ==
    LET text == Arg(args, "text", <<>>)
        lines == Lines(text)
        numbered == [n \in DOMAIN lines |-> [line |-> n, text |-> lines[n]]]
    IN  CASE task = "tokenize" -> [task |-> task, tokens |-> Tokens(text)]
          [] task = "parse"    -> [task |-> task, lines |-> numbered]
          [] task = "index"    -> [task |-> task, lines |->
                Select(numbered, LAMBDA entry :
                    includes(entry.text, Arg(args, "query", UNDEFINED)))]

-----------------------------------------------------------------------------
(* What the tasks promise, by positions in the text instead of lines.      *)

LineOf(text, i) == 1 + Cardinality({j \in 1 .. i - 1 : text[j] = LF})

\* Where the query is in the text.
Hits(text, query) ==
    {i \in 1 .. Len(text) - Len(query) + 1 :
        SubSeq(text, i, i + Len(query) - 1) = query}

\* Every line with a hit is a match, in order and under the number that an
\* editor gives it, and the text of a match holds the query.
MatchesAreHits(matches, document, query) ==
    LET hits == {LineOf(document.text, i) : i \in Hits(document.text, query)} IN
    /\ {matches[n].line : n \in DOMAIN matches} = hits
    /\ \A m, n \in DOMAIN matches : m < n => matches[m].line < matches[n].line
    /\ \A n \in DOMAIN matches :
          /\ matches[n].path = document.path
          /\ includes(matches[n].text, trim(query))
          /\ LF \notin Range(matches[n].text)
=============================================================================
