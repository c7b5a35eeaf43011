------------------------------- MODULE ToolPath -------------------------------
(***************************************************************************)
(* The way of one tool call through the parts that ChatService and         *)
(* BrowserSession leave open: the mock model plans it from the words of a  *)
(* prompt (src/backend/internal/chat/mockmodel.go), or a client of the     *)
(* broker asks for it; the router hands it to the server runner            *)
(* (mockbridge.go) or to the browser, whose registry (registry.ts) has an  *)
(* executor for it that posts a task to a worker; the result comes back    *)
(* and is put into words.                                                  *)
(*                                                                         *)
(* Each part has its own table of names and its own idea of the arguments  *)
(* and of a failure; nothing but the way of a call shows that they agree.  *)
(* What can go wrong on the way of its messages is in the other modules,   *)
(* what the OPFS tasks do in OpfsWorker.                                   *)
(***************************************************************************)
EXTENDS WorkerTasks

CONSTANTS
    Texts,          \* texts of documents
    Queries,        \* what is searched for
    Asked           \* calls, tool and args, that a client of the broker makes

Chars == DOMAIN CharCode

\* Whoever asks for a search gives texts: String(args.query) is one, and what
\* normalizeDocuments keeps has one.
ASSUME AskedAssumption ==
    /\ TODO \in Seq(Chars)
    /\ \A asked \in Asked :
          LET documents == Arg(asked.args, "documents", None) IN
          /\ Arg(asked.args, "query", TODO) \in Seq(Chars)
          /\ documents # None =>
                /\ documents \in Seq(Range(documents))
                /\ \A d \in Range(documents) : d = None \/ d.text \in Seq(Chars)

VARIABLES
    stage,          \* how far the call is
    tools,          \* the tools of the session, as the turn's snapshot has them
    call,           \* the call: tool and args
    job,            \* what the executor posts to its worker
    response,       \* what the worker task ends with
    result,         \* the tool result
    said            \* the text of the assistant

vars == <<stage, tools, call, job, response, result, said>>

Init ==
    /\ stage = "idle"
    /\ tools = {}
    /\ call = None
    /\ job = None
    /\ response = None
    /\ result = None
    /\ said = None

ok(output) == [ok |-> TRUE, output |-> output]
failed(code, reason) == [ok |-> FALSE, code |-> code, reason |-> reason]

-----------------------------------------------------------------------------
(* The tables.                                                             *)

\* DefaultToolManifests, in the order in which seedSession registers them.
DefaultToolManifests ==
    << [name |-> "conversation.summarize", execution |-> "server"],
       [name |-> "opfs.list_dir", execution |-> "client"],
       [name |-> "opfs.read_text", execution |-> "client"],
       [name |-> "opfs.write_text", execution |-> "client"],
       [name |-> "wasm.run_task", execution |-> "client"] >>

execution(tool) ==
    (CHOOSE m \in Range(DefaultToolManifests) : m.name = tool).execution

\* Mutant of Registry: the name under which the model knows the tool differs.
RegistryRenamed ==
    {"opfs.list_dir", "opfs.read_text", "opfs.write_text", "wasm.task"}

\* createDefaultToolRegistry.
Registry == {"opfs.list_dir", "opfs.read_text", "opfs.write_text", "wasm.run_task"}

OpfsTasks == {"list_dir", "read_text", "write_text"}

\* What planFromUserPrompt looks for, in its order.  A path is taken from the
\* prompt if there is one.
Rules(path) ==
    << [word |-> "summarize", tool |-> "conversation.summarize",
        args |-> [scope |-> "conversation"]],
       [word |-> "browse", tool |-> "opfs.list_dir",
        args |-> [path |-> IF path = None THEN "/" ELSE path, limit |-> 100]],
       [word |-> "search", tool |-> "wasm.run_task",
        args |-> [task |-> "grep", timeout_ms |-> 5000,
                  args |-> [root |-> "/project", query |-> TODO]]],
       [word |-> "read", tool |-> "opfs.read_text",
        args |-> [path |-> IF path = None THEN "/notes/today.md" ELSE path,
                  max_bytes |-> 200000]],
       [word |-> "write", tool |-> "opfs.write_text",
        args |-> [path |-> "/notes/output.md", text |-> "mock"]] >>

Words == {"summarize", "browse", "search", "read", "write"}

-----------------------------------------------------------------------------
(* The backend.                                                            *)

\* A turn begins with the first n tools of its session: runTurn's snapshot
\* may come before seedSession is done.
planFromUserPrompt(words, path, n) ==
    LET available == {DefaultToolManifests[i].name : i \in 1 .. n}
        rules == Rules(path)
        met == {i \in DOMAIN rules : rules[i].word \in words
                                       /\ rules[i].tool \in available}
    IN
    /\ stage = "idle"
    /\ tools' = available
    /\ IF met = {}
       THEN /\ stage' = "said"
            /\ said' = [kind |-> "no tool"]
            /\ UNCHANGED call
       ELSE /\ stage' = "called"
            /\ call' = [by |-> "model", tool |-> rules[Min(met)].tool,
                        args |-> rules[Min(met)].args]
            /\ UNCHANGED said
    /\ UNCHANGED <<job, response, result>>

\* RouteTool hands the call to the bridge, which brings it to the browser.
RouteToBrowser ==
    /\ stage = "called" /\ execution(call.tool) = "client"
    /\ stage' = "requested"
    /\ UNCHANGED <<tools, call, job, response, result, said>>

\* MockServerRunner.Run: a scope in the arguments replaces the summary.
RunOnServer ==
    /\ stage = "called" /\ execution(call.tool) = "server"
    /\ result' = IF call.tool = "conversation.summarize"
                 THEN ok([summary |-> Arg(call.args, "scope", "default")])
                 ELSE failed("UNKNOWN_SERVER_TOOL", call.tool)
    /\ stage' = "returned"
    /\ UNCHANGED <<tools, call, job, response, said>>

\* summarizeToolResult.
summarizeToolResult ==
    /\ stage = "returned" /\ call.by = "model"
    /\ said' =
         IF ~result.ok
         THEN [kind |-> "failed", tool |-> call.tool, what |-> result.reason]
         ELSE IF "summary" \in DOMAIN result.output
         THEN [kind |-> "summary", tool |-> call.tool,
               what |-> result.output.summary]
         ELSE IF "text" \in DOMAIN result.output /\ result.output.text # ""
         THEN [kind |-> "text", tool |-> call.tool, what |-> result.output.text]
         ELSE [kind |-> "completed", tool |-> call.tool]
    /\ stage' = "said"
    /\ UNCHANGED <<tools, call, job, response, result>>

-----------------------------------------------------------------------------
(* The browser.                                                            *)

\* A client of the broker, or a model that is no mock, asks for a tool.
Ask(tool, args) ==
    /\ stage = "idle"
    /\ call' = [by |-> "client", tool |-> tool, args |-> args]
    /\ stage' = "requested"
    /\ UNCHANGED <<tools, job, response, result, said>>

\* handleToolRequest finds no definition.
UnknownTool ==
    /\ stage = "requested" /\ call.tool \notin Registry
    /\ result' = failed("UNKNOWN_TOOL", call.tool)
    /\ stage' = "returned"
    /\ UNCHANGED <<tools, call, job, response, said>>

\* createOpfsListDirExecutor, ...ReadTextExecutor, ...WriteTextExecutor.
OpfsExecutor(tool, task) ==
    /\ stage = "requested" /\ call.tool = tool /\ tool \in Registry
    /\ job' = [worker |-> "opfs", task |-> task, args |-> call.args,
               timeout_ms |-> 10000]
    /\ stage' = "posted"
    /\ UNCHANGED <<tools, call, response, result, said>>

\* createWasmTaskExecutor: the arguments of the tool are those of the task.
WasmTaskExecutor ==
    /\ stage = "requested"
    /\ call.tool = "wasm.run_task" /\ call.tool \in Registry
    /\ job' = [worker |-> "wasm", task |-> Arg(call.args, "task", "unknown"),
               args |-> call.args,
               timeout_ms |-> Arg(call.args, "timeout_ms", 10000)]
    /\ stage' = "posted"
    /\ UNCHANGED <<tools, call, response, result, said>>

Responds(what) ==
    /\ stage = "posted"
    /\ response' = what
    /\ stage' = "ran"
    /\ UNCHANGED <<tools, call, job, result, said>>

\* The worker's message handler, and runTask.
WasmWorker ==
    /\ stage = "posted" /\ job.worker = "wasm"
    /\ Responds(IF job.task \in WasmTasks THEN ok(runTask(job.task, job.args))
                ELSE failed("WASM_ERROR", "unsupported"))

OpfsOutputs ==
    CASE job.task = "list_dir"   -> {[path |-> job.args.path, entries |-> e] :
                                       e \in {<<>>, <<"a">>}}
      [] job.task = "read_text"  -> {[path |-> job.args.path, text |-> t] :
                                       t \in {"", "text"}}
      [] job.task = "write_text" -> {[path |-> job.args.path]}
      [] OTHER                   -> {}

OpfsWorker ==
    /\ stage = "posted" /\ job.worker = "opfs"
    /\ \/ \E output \in OpfsOutputs : Responds(ok(output))
       \/ Responds(failed("OPFS_ERROR", IF job.task \in OpfsTasks
                                        THEN "file system" ELSE "unsupported"))

\* runWorkerTask: no workers, no such script, no answer in time.
WorkerFails ==
    \E code \in {"WORKER_UNAVAILABLE", "WORKER_ERROR", "TIMEOUT"} :
        Responds(failed(code, code))

\* Mutant of ToolResult: the executor does not look at ok.
ToolResultUnchecked ==
    /\ stage = "ran"
    /\ result' = ok(IF response.ok THEN response.output ELSE [none |-> None])
    /\ stage' = "returned"
    /\ UNCHANGED <<tools, call, job, response, said>>

\* An executor throws what is not ok, and the broker turns that into a result
\* of its own: the message stays, the code of the worker does not.
ToolResult ==
    /\ stage = "ran"
    /\ result' = IF response.ok THEN ok(response.output)
                 ELSE failed("TOOL_FAILED", response.reason)
    /\ stage' = "returned"
    /\ UNCHANGED <<tools, call, job, response, said>>

-----------------------------------------------------------------------------

Prompted ==
    \E words \in SUBSET Words, path \in {None, "/notes/plan.md"},
       n \in 0 .. Len(DefaultToolManifests) :
        planFromUserPrompt(words, path, n)

Executor ==
    \/ OpfsExecutor("opfs.list_dir", "list_dir")
    \/ OpfsExecutor("opfs.read_text", "read_text")
    \/ OpfsExecutor("opfs.write_text", "write_text")
    \/ WasmTaskExecutor

Next ==
    \/ Prompted
    \/ \E asked \in Asked : Ask(asked.tool, asked.args)
    \/ RunOnServer
    \/ RouteToBrowser
    \/ Executor
    \/ UnknownTool
    \/ WasmWorker
    \/ OpfsWorker
    \/ WorkerFails
    \/ ToolResult
    \/ summarizeToolResult

Spec == Init /\ [][Next]_vars

-----------------------------------------------------------------------------
(* Correctness.                                                            *)

\* A call that the model plans is one that the other parts know, under the
\* same name in the manifests, the registry and the worker: the model calls
\* only tools of its session, and no call ends as unknown or unsupported.
PlanIsServed ==
    call # None /\ call.by = "model" =>
        /\ call.tool \in tools
        /\ response # None /\ ~response.ok => response.reason # "unsupported"
        /\ result # None /\ ~result.ok
              => result.code \notin {"UNKNOWN_TOOL", "UNKNOWN_SERVER_TOOL"}

\* The assistant reports a failure exactly when the worker or the way to it
\* failed, with the reason it gave, and otherwise says what the worker put out.
ReplyTellsOutcome ==
    stage = "said" /\ response # None =>
        IF ~response.ok
        THEN said.kind = "failed" /\ said.what = response.reason
        ELSE /\ said.kind # "failed"
             /\ job.task = "grep"
                   => said.kind = "summary" /\ said.what = response.output.summary
             /\ job.task = "read_text" /\ response.output.text # ""
                   => said.kind = "text" /\ said.what = response.output.text

\* What was found in the document of a path.
Under(path, matches) == Select(matches, LAMBDA m : m.path = path)

\* A query without line breaks, and documents under paths of their own.
Searchable(query, documents) ==
    /\ Range(query) \cap {CR, LF} = {}
    /\ \A m, n \in DOMAIN documents :
          documents[m].path = documents[n].path => m = n

\* A search that the worker carries out finds every line with the query in
\* each document that it was given, and the parser worker finds the same.
GrepFindsEveryLine ==
    result # None /\ result.ok /\ job # None /\ job.task = "grep" =>
        LET documents == normalizeDocuments(Arg(job.args, "documents", None))
            found == result.output
            of(d) == Under(d.path, found.matches)
        IN
        /\ found.summary = Len(found.matches)
        /\ Searchable(found.query, documents) => \A d \in Range(documents) :
              /\ MatchesAreHits(of(d), d, found.query)
              /\ LET index == runParserTask("index",
                                 [text |-> d.text, query |-> found.query]).lines
                 IN  [n \in DOMAIN index |-> index[n].line]
                        = [n \in DOMAIN of(d) |-> of(d)[n].line]

\* What the manifest of wasm.run_task declares: the arguments of the task are
\* in a field of their own, args, and a search looks there for its query and
\* its documents.  The executor hands the worker what is around that field.
SchemaArgsReachTask ==
    result # None /\ result.ok /\ job # None /\ job.task = "grep"
       /\ "args" \in DOMAIN call.args =>
          \A d \in Range(normalizeDocuments(
                             Arg(call.args.args, "documents", None))) :
              MatchesAreHits(Under(d.path, result.output.matches), d,
                             Arg(call.args.args, "query", TODO))
=============================================================================
