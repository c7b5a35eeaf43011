---------------------------- MODULE ToolPathProofs ----------------------------
(***************************************************************************)
(* Theorems about ToolPath, for any texts, queries and calls asked for.    *)
(*                                                                         *)
(* PathInv says what is known of a call at each stage of its way; that the *)
(* tables of the parts agree, and that the assistant says what happened,   *)
(* follows from it.  That a search finds every line is a matter of the     *)
(* functions of WorkerTasks: a line is told by the line feeds before it,   *)
(* and these by Ascending, which lists a set of positions in order.        *)
(***************************************************************************)
EXTENDS ToolPath, FiniteSetTheorems, SequenceTheorems, TLAPS

-----------------------------------------------------------------------------
(* The invariant: what is known of a call at each stage of its way.        *)

\* What the mock model may plan.
ModelCalls ==
    {[by |-> "model", tool |-> Rules(path)[i].tool, args |-> Rules(path)[i].args] :
        i \in 1 .. 5, path \in {None, "/notes/plan.md"}}

ClientCalls ==
    {[by |-> "client", tool |-> asked.tool, args |-> asked.args] : asked \in Asked}

Planned == call \in ModelCalls /\ call.tool \in tools

Unposted == job = None /\ response = None /\ result = None

\* A job is what the executor of its tool makes of the arguments.
Posted ==
    /\ job.args = call.args
    /\ \/ /\ job.worker = "opfs"
          /\ <<call.tool, job.task>> \in {<<"opfs.list_dir", "list_dir">>,
                                          <<"opfs.read_text", "read_text">>,
                                          <<"opfs.write_text", "write_text">>}
       \/ /\ job.worker = "wasm"
          /\ call.tool = "wasm.run_task"
          /\ job.task = Arg(call.args, "task", "unknown")

Supported == job.task \in IF job.worker = "opfs" THEN OpfsTasks ELSE WasmTasks

\* A worker answers with what its task computes, or fails; it finds a task
\* unsupported only if it has none of the name.
Ran ==
    \/ /\ job.worker = "opfs"
       /\ \E output \in OpfsOutputs : response = ok(output)
    \/ /\ job.worker = "wasm" /\ job.task \in WasmTasks
       /\ response = ok(runTask(job.task, job.args))
    \/ /\ ~response.ok
       /\ response.reason = "unsupported" => ~Supported

\* The result of a call that no worker saw.
Aside ==
    /\ job = None /\ response = None
    /\ \/ result.ok
       \/ call \in ClientCalls

\* The result of a call that a worker saw.
Served ==
    /\ Posted /\ Ran
    /\ result = IF response.ok THEN ok(response.output)
                ELSE failed("TOOL_FAILED", response.reason)

\* The sentence about a worker's result.
Told ==
    response # None =>
    IF ~response.ok
    THEN said.kind = "failed" /\ said.what = response.reason
    ELSE /\ said.kind # "failed"
         /\ "summary" \in DOMAIN response.output
               => said.kind = "summary" /\ said.what = response.output.summary
         /\ "summary" \notin DOMAIN response.output
            /\ "text" \in DOMAIN response.output /\ response.output.text # ""
               => said.kind = "text" /\ said.what = response.output.text

PathInv ==
    \/ stage = "idle" /\ Unposted /\ call = None
    \/ stage = "called" /\ Unposted /\ Planned
    \/ /\ stage = "requested" /\ Unposted
       /\ call \in ClientCalls \/ (Planned /\ call.tool \in Registry)
    \/ /\ stage = "posted" /\ response = None /\ result = None
       /\ call \in ClientCalls \/ Planned
       /\ Posted
    \/ /\ stage = "ran" /\ result = None
       /\ call \in ClientCalls \/ Planned
       /\ Posted /\ Ran
    \/ /\ stage = "returned"
       /\ call \in ClientCalls \/ Planned
       /\ Aside \/ Served
    \/ stage = "said" /\ call = None /\ Unposted
    \/ /\ stage = "said" /\ Planned
       /\ Aside \/ Served
       /\ Told

-----------------------------------------------------------------------------
(* The tables.                                                             *)

\* The manifests, written out.
LEMMA Manifests ==
  /\ DOMAIN DefaultToolManifests = 1 .. 5
  /\ Range(DefaultToolManifests) =
        { [name |-> "conversation.summarize", execution |-> "server"],
          [name |-> "opfs.list_dir", execution |-> "client"],
          [name |-> "opfs.read_text", execution |-> "client"],
          [name |-> "opfs.write_text", execution |-> "client"],
          [name |-> "wasm.run_task", execution |-> "client"] }
  BY DEF DefaultToolManifests, Range

\* Where the tools of the manifests run.
LEMMA Execution ==
  /\ execution("conversation.summarize") = "server"
  /\ \A tool \in Registry : execution(tool) = "client"
<1> DEFINE entry(tool) == CHOOSE m \in Range(DefaultToolManifests) : m.name = tool
<1>1. \A m \in Range(DefaultToolManifests) : entry(m.name) = m
  <2> SUFFICES ASSUME NEW m \in Range(DefaultToolManifests)
               PROVE  entry(m.name) = m
    OBVIOUS
  <2>1. \A n \in Range(DefaultToolManifests) : n.name = m.name => n = m
    BY Manifests
  <2> QED BY <2>1
<1>2. \A m \in Range(DefaultToolManifests) : execution(m.name) = m.execution
  BY <1>1 DEF execution
<1>3. \A tool \in Registry : \E m \in Range(DefaultToolManifests) :
          m.name = tool /\ m.execution = "client"
  BY Manifests DEF Registry
<1>4. \E m \in Range(DefaultToolManifests) :
          m.name = "conversation.summarize" /\ m.execution = "server"
  BY Manifests
<1> QED BY <1>2, <1>3, <1>4

\* The model knows the tools of the manifests only, and calls each of them in
\* one way but for the path.
LEMMA RulesKnown ==
  ASSUME NEW path, NEW i \in 1 .. 5
  PROVE  /\ DOMAIN Rules(path) = 1 .. 5
         /\ Rules(path)[i].tool \in Registry \cup {"conversation.summarize"}
         /\ Rules(path)[i].tool = "wasm.run_task"
               => Rules(path)[i].args =
                     [task |-> "grep", timeout_ms |-> 5000,
                      args |-> [root |-> "/project", query |-> TODO]]
<1>1. i = 1 \/ i = 2 \/ i = 3 \/ i = 4 \/ i = 5
  OBVIOUS
<1> QED BY <1>1 DEF Rules, Registry

\* The same of a call that the model planned.
LEMMA ModelCallKnown ==
  ASSUME NEW c \in ModelCalls
  PROVE  /\ c.by = "model"
         /\ c.tool \in Registry \cup {"conversation.summarize"}
         /\ c.tool = "wasm.run_task"
               => c.args = [task |-> "grep", timeout_ms |-> 5000,
                            args |-> [root |-> "/project", query |-> TODO]]
  BY RulesKnown DEF ModelCalls

-----------------------------------------------------------------------------
(* The invariant, action by action.                                        *)

\* What an OPFS task may put out depends on the job alone.
LEMMA OutputsStay ==
  ASSUME job' = job
  PROVE  OpfsOutputs' = OpfsOutputs
  BY DEF OpfsOutputs

\* The model plans a call it finds in the session's tools, or none.
LEMMA PlanStep ==
  ASSUME PathInv, NEW words \in SUBSET Words,
         NEW path \in {None, "/notes/plan.md"},
         NEW n \in 0 .. Len(DefaultToolManifests),
         planFromUserPrompt(words, path, n)
  PROVE  PathInv'
<1> DEFINE met == {i \in DOMAIN Rules(path) : Rules(path)[i].word \in words
                       /\ Rules(path)[i].tool \in tools'}
<1>1. stage = "idle" /\ Unposted /\ call = None
  BY DEF PathInv, planFromUserPrompt
<1>2. Unposted'
  BY <1>1 DEF Unposted, planFromUserPrompt
<1>3. CASE met = {}
  <2>1. stage' = "said" /\ call' = call
    BY <1>3 DEF planFromUserPrompt
  <2> QED BY <1>1, <1>2, <2>1 DEF PathInv
<1>4. CASE met # {}
  <2>1. met \subseteq 1 .. 5
    BY RulesKnown
  <2>2. \E m \in met : \A k \in met : m <= k
    <3>1. \A k \in 1 .. 5 : k = 1 \/ k = 2 \/ k = 3 \/ k = 4 \/ k = 5
      OBVIOUS
    <3> QED BY <1>4, <2>1, <3>1
  <2>3. Min(met) \in met
    BY <2>2 DEF Min
  <2>4. /\ stage' = "called"
        /\ call' = [by |-> "model", tool |-> Rules(path)[Min(met)].tool,
                    args |-> Rules(path)[Min(met)].args]
    BY <1>4 DEF planFromUserPrompt
  <2>5. call' \in ModelCalls
    <3> DEFINE k == Min(met)
    <3>1. k \in 1 .. 5
      BY <2>1, <2>3
    <3>2. call' = [by |-> "model", tool |-> Rules(path)[k].tool,
                   args |-> Rules(path)[k].args]
      BY <2>4
    <3> HIDE DEF k
    <3> QED BY <3>1, <3>2 DEF ModelCalls
  <2>6. (call \in ModelCalls)'
    BY <2>5 DEF ModelCalls
  <2>7. call'.tool \in tools'
    BY <2>3, <2>4
  <2> QED BY <1>2, <2>4, <2>6, <2>7 DEF PathInv, Planned
<1> QED BY <1>3, <1>4

\* A client asks.
LEMMA AskStep ==
  ASSUME PathInv, NEW asked \in Asked, Ask(asked.tool, asked.args)
  PROVE  PathInv'
<1>1. Unposted'
  BY DEF PathInv, Ask, Unposted
<1>2. call' \in ClientCalls /\ stage' = "requested"
  BY DEF Ask, ClientCalls
<1> QED BY <1>1, <1>2 DEF PathInv, ClientCalls

\* The router sends a planned call to the browser, whose registry has it.
LEMMA RouteStep ==
  ASSUME PathInv, RouteToBrowser
  PROVE  PathInv'
<1>1. Unposted /\ Planned
  BY DEF PathInv, RouteToBrowser
<1>2. call.tool \in Registry
  BY <1>1, ModelCallKnown, Execution DEF RouteToBrowser, Planned
<1> QED BY <1>1, <1>2 DEF PathInv, RouteToBrowser, Unposted, Planned, ModelCalls

\* The server runner knows the one tool that comes to it.
LEMMA ServerStep ==
  ASSUME PathInv, RunOnServer
  PROVE  PathInv'
<1>1. Unposted /\ Planned
  BY DEF PathInv, RunOnServer
<1>2. call.tool = "conversation.summarize"
  BY <1>1, ModelCallKnown, Execution DEF RunOnServer, Planned
<1>3. result'.ok
  BY <1>2 DEF RunOnServer, ok
<1>4. Aside'
  BY <1>1, <1>3 DEF RunOnServer, Unposted, Aside
<1> QED BY <1>1, <1>4 DEF PathInv, RunOnServer, Planned, ModelCalls

\* Only a client's call ends as unknown.
LEMMA UnknownStep ==
  ASSUME PathInv, UnknownTool
  PROVE  PathInv'
<1>1. Unposted /\ call \in ClientCalls
  BY DEF PathInv, UnknownTool
<1> QED BY <1>1 DEF PathInv, UnknownTool, Unposted, Aside, ClientCalls

\* An executor posts a job for its own tool.
LEMMA ExecutorStep ==
  ASSUME PathInv, Executor
  PROVE  PathInv'
<1>1. /\ stage = "requested" /\ stage' = "posted" /\ Posted'
      /\ UNCHANGED <<tools, call, response, result>>
  BY DEF Executor, OpfsExecutor, WasmTaskExecutor, Posted, Arg
<1>2. Unposted /\ (call \in ClientCalls \/ Planned)
  BY <1>1 DEF PathInv
<1> QED BY <1>1, <1>2 DEF PathInv, Unposted, Planned, ModelCalls, ClientCalls

\* A worker answers, or fails.
LEMMA WorkerStep ==
  ASSUME PathInv, WasmWorker \/ OpfsWorker \/ WorkerFails
  PROVE  PathInv'
<1>1. /\ stage = "posted" /\ stage' = "ran"
      /\ UNCHANGED <<tools, call, job, result>>
  BY DEF WasmWorker, OpfsWorker, WorkerFails, Responds
<1>2. Posted /\ result = None /\ (call \in ClientCalls \/ Planned)
  BY <1>1 DEF PathInv
<1>3. Ran'
  <2>1. CASE WasmWorker
    BY <2>1, <1>1 DEF WasmWorker, Responds, Ran, Supported, failed, ok, OpfsTasks
  <2>2. CASE OpfsWorker
    <3>1. CASE \E output \in OpfsOutputs : Responds(ok(output))
      BY <3>1, <2>2, <1>1, OutputsStay DEF OpfsWorker, Responds, Ran
    <3>2. CASE Responds(failed("OPFS_ERROR", IF job.task \in OpfsTasks
                                             THEN "file system" ELSE "unsupported"))
      BY <3>2, <2>2, <1>1 DEF OpfsWorker, Responds, Ran, Supported, failed
    <3> QED BY <3>1, <3>2, <2>2 DEF OpfsWorker
  <2>3. CASE WorkerFails
    BY <2>3, <1>1 DEF WorkerFails, Responds, Ran, failed
  <2> QED BY <2>1, <2>2, <2>3
<1> QED BY <1>1, <1>2, <1>3 DEF PathInv, Posted, Planned, ModelCalls, ClientCalls

\* The answer becomes the result.
LEMMA ResultStep ==
  ASSUME PathInv, ToolResult
  PROVE  PathInv'
<1>1. /\ Posted /\ Ran /\ (call \in ClientCalls \/ Planned)
  BY DEF PathInv, ToolResult
<1>2. (call \in ClientCalls \/ Planned)' /\ stage' = "returned"
  BY <1>1 DEF ToolResult, Planned, ClientCalls, ModelCalls
<1>3. Posted' /\ Ran'
  BY <1>1 DEF ToolResult, Posted, Ran, Supported, OpfsOutputs
<1>4. Served'
  BY <1>3 DEF ToolResult, Served
<1> QED BY <1>2, <1>4 DEF PathInv

\* The result is put into words.
LEMMA SaidStep ==
  ASSUME PathInv, summarizeToolResult
  PROVE  PathInv'
<1>1. Planned /\ (Aside \/ Served)
  <2>1. stage = "returned" /\ call.by = "model"
    BY DEF summarizeToolResult
  <2>2. call \notin ClientCalls
    BY <2>1 DEF ClientCalls
  <2> QED BY <2>1, <2>2 DEF PathInv
<1>2. UNCHANGED <<tools, call, job, response, result>> /\ stage' = "said"
  BY DEF summarizeToolResult
<1>3. Planned' /\ (Aside \/ Served)'
  BY <1>1, <1>2, OutputsStay
     DEF Planned, ModelCalls, Aside, Served, ClientCalls, Posted, Ran, Supported
<1>4. Told'
  <2>1. CASE response = None
    BY <2>1, <1>2 DEF Told
  <2>2. CASE response # None /\ ~response.ok
    <3>1. ~result.ok /\ result.reason = response.reason
      BY <1>1, <2>2 DEF Aside, Served, failed
    <3> QED BY <1>2, <2>2, <3>1 DEF Told, summarizeToolResult
  <2>3. CASE response # None /\ response.ok
    <3>1. result.ok /\ result.output = response.output
      BY <1>1, <2>3 DEF Aside, Served, ok
    <3> QED BY <1>2, <2>3, <3>1 DEF Told, summarizeToolResult
  <2> QED BY <2>1, <2>2, <2>3
<1> QED BY <1>2, <1>3, <1>4 DEF PathInv

\* What is known of a call at each stage of its way, for every behaviour.
THEOREM PathInvariant == Spec => []PathInv
<1>1. Init => PathInv
  BY DEF Init, PathInv, Unposted
<1>2. PathInv /\ [Next]_vars => PathInv'
  <2> SUFFICES ASSUME PathInv, [Next]_vars PROVE PathInv'
    OBVIOUS
  <2>1. CASE Prompted
    BY <2>1, PlanStep DEF Prompted
  <2>2. CASE \E asked \in Asked : Ask(asked.tool, asked.args)
    BY <2>2, AskStep
  <2>3. CASE UNCHANGED vars
    <3> USE <2>3 DEF vars
    <3>1. Unposted' = Unposted /\ Planned' = Planned /\ Told' = Told
      BY DEF Unposted, Planned, ModelCalls, Told
    <3>2. Posted' = Posted
      BY DEF Posted
    <3>3. Ran' = Ran
      BY OutputsStay DEF Ran, Supported
    <3>4. Aside' = Aside /\ Served' = Served
      BY <3>2, <3>3 DEF Aside, Served, ClientCalls
    <3> QED BY <3>1, <3>2, <3>3, <3>4 DEF PathInv, ClientCalls
  <2> QED
    BY <2>1, <2>2, <2>3, RouteStep, ServerStep, UnknownStep, ExecutorStep,
       WorkerStep, ResultStep, SaidStep DEF Next
<1> QED BY <1>1, <1>2, PTL DEF Spec

\* Safety: a call the model plans is known under its name to the router, the
\* registry, the executor and the worker.
THEOREM PlansServed == Spec => []PlanIsServed
<1>1. PathInv => PlanIsServed
  <2> SUFFICES ASSUME PathInv, call # None, call.by = "model" PROVE PlanIsServed
    BY DEF PlanIsServed
  <2>1. call \notin ClientCalls
    BY DEF ClientCalls
  <2>2. Planned
    BY <2>1 DEF PathInv
  <2>3. Posted => Supported
    BY <2>2, ModelCallKnown
       DEF Planned, Posted, Supported, OpfsTasks, WasmTasks, Arg
  <2>4. Posted /\ Ran /\ ~response.ok => response.reason # "unsupported"
    BY <2>3 DEF Ran, ok
  <2>5. response # None /\ ~response.ok => response.reason # "unsupported"
    BY <2>1, <2>4 DEF PathInv, Unposted, Aside, Served
  <2>6. result # None /\ ~result.ok
          => result.code \notin {"UNKNOWN_TOOL", "UNKNOWN_SERVER_TOOL"}
    BY <2>1 DEF PathInv, Unposted, Aside, Served, ok, failed
  <2> QED BY <2>2, <2>5, <2>6 DEF PlanIsServed, Planned
<1> QED BY <1>1, PathInvariant, PTL

\* Safety: the assistant tells the outcome of the worker, whichever it is.
THEOREM RepliesTellOutcomes == Spec => []ReplyTellsOutcome
<1>1. PathInv => ReplyTellsOutcome
  <2> SUFFICES ASSUME PathInv, stage = "said", response # None
               PROVE  ReplyTellsOutcome
    BY DEF ReplyTellsOutcome
  <2>1. Served /\ Told
    BY DEF PathInv, Unposted, Aside
  <2>2. CASE ~response.ok
    BY <2>1, <2>2 DEF Told, ReplyTellsOutcome
  <2>3. CASE response.ok /\ job.task = "grep"
    <3>1. job.worker = "wasm" /\ response.output = grepDocuments(job.args)
      BY <2>1, <2>3 DEF Served, Posted, Ran, ok, runTask
    <3>2. "summary" \in DOMAIN response.output
      BY <3>1 DEF grepDocuments
    <3> QED BY <2>1, <2>3, <3>2 DEF Told, ReplyTellsOutcome
  <2>4. CASE response.ok /\ job.task = "read_text"
    <3>1. /\ "summary" \notin DOMAIN response.output
          /\ "text" \in DOMAIN response.output
      <4>1. job.worker = "opfs"
        BY <2>1, <2>4 DEF Served, Posted, Ran, WasmTasks
      <4>2. PICK output \in OpfsOutputs : response = ok(output)
        BY <2>1, <2>4, <4>1 DEF Served, Ran
      <4>3. PICK t \in {"", "text"} : output = [path |-> job.args.path, text |-> t]
        BY <2>4, <4>2 DEF OpfsOutputs
      <4> QED BY <4>2, <4>3 DEF ok
    <3> QED BY <2>1, <2>4, <3>1 DEF Told, ReplyTellsOutcome
  <2>5. CASE response.ok /\ job.task \notin {"grep", "read_text"}
    BY <2>1, <2>5 DEF Told, ReplyTellsOutcome
  <2> QED BY <2>2, <2>3, <2>4, <2>5
<1> QED BY <1>1, PathInvariant, PTL

-----------------------------------------------------------------------------
(* Sets of numbers in ascending order.                                     *)

\* The elements below a number.
Below(S, x) == {y \in S : y < x}

\* They are finitely many.
LEMMA BelowFinite ==
  ASSUME NEW S \in SUBSET Int, IsFiniteSet(S), NEW x
  PROVE  /\ IsFiniteSet(Below(S, x))
         /\ Cardinality(Below(S, x)) \in Nat
         /\ Cardinality(S) \in Nat
         /\ Cardinality(Below(S, x)) <= Cardinality(S)
<1>1. Below(S, x) \in SUBSET S
  BY DEF Below
<1> QED BY <1>1, FS_Subset, FS_CardinalityType

\* The number of elements below grows with every element.
LEMMA BelowGrows ==
  ASSUME NEW S \in SUBSET Int, IsFiniteSet(S), NEW x \in S, NEW y \in Int, x < y
  PROVE  Cardinality(Below(S, x)) + 1 <= Cardinality(Below(S, y))
<1>1. x \notin Below(S, x)
  BY DEF Below
<1>2. Below(S, x) \cup {x} \in SUBSET Below(S, y)
  <2>1. \A z \in S : z < x => z < y
    OBVIOUS
  <2> QED BY <2>1 DEF Below
<1>3. Cardinality(Below(S, x) \cup {x}) = Cardinality(Below(S, x)) + 1
  BY <1>1, BelowFinite, FS_AddElement
<1>4. Cardinality(Below(S, x) \cup {x}) <= Cardinality(Below(S, y))
  BY <1>2, BelowFinite, FS_Subset
<1> QED BY <1>3, <1>4

\* Every element has its own number of elements below it, and every number up
\* to the last occurs.
LEMMA Ranks ==
  ASSUME NEW S \in SUBSET Int, IsFiniteSet(S)
  PROVE  /\ \A x \in S : Cardinality(Below(S, x)) + 1 \in 1 .. Cardinality(S)
         /\ \A x, y \in S : Cardinality(Below(S, x)) = Cardinality(Below(S, y)) => x = y
         /\ \A n \in 1 .. Cardinality(S) :
               \E x \in S : Cardinality(Below(S, x)) = n - 1
<1> DEFINE N == Cardinality(S)
           rank == [x \in S |-> Cardinality(Below(S, x)) + 1]
<1>1. N \in Nat
  BY FS_CardinalityType
<1>2. \A x \in S : Cardinality(Below(S, x)) + 1 \in 1 .. N
  <2> SUFFICES ASSUME NEW x \in S PROVE Cardinality(Below(S, x)) + 1 \in 1 .. N
    OBVIOUS
  <2>1. Below(S, x) \in SUBSET S /\ Below(S, x) # S
    BY DEF Below
  <2>2. Cardinality(Below(S, x)) # N /\ Cardinality(Below(S, x)) <= N
    BY <2>1, FS_Subset
  <2> QED BY <2>2, <1>1, BelowFinite
<1>3. \A x, y \in S : Cardinality(Below(S, x)) = Cardinality(Below(S, y)) => x = y
  <2> SUFFICES ASSUME NEW x \in S, NEW y \in S, x < y
               PROVE  Cardinality(Below(S, x)) # Cardinality(Below(S, y))
    BY DEF Below
  <2> QED BY BelowGrows, BelowFinite
<1>4. rank \in Injection(S, 1 .. N)
  <2>1. \A x \in S : Cardinality(Below(S, x)) \in Nat
    BY BelowFinite
  <2>2. \A x, y \in S : rank[x] = rank[y] => x = y
    BY <2>1, <1>3
  <2> QED BY <1>2, <2>2 DEF Injection, IsInjective
<1>5. IsFiniteSet(1 .. N) /\ Cardinality(1 .. N) = N
  BY <1>1, FS_Interval
<1>6. rank \in Surjection(S, 1 .. N)
  BY <1>4, <1>5, FS_Injection
<1>7. \A n \in 1 .. N : \E x \in S : rank[x] = n
  BY <1>6 DEF Surjection
<1>8. \A n \in 1 .. N : \E x \in S : Cardinality(Below(S, x)) = n - 1
  <2> SUFFICES ASSUME NEW n \in 1 .. N
               PROVE  \E x \in S : Cardinality(Below(S, x)) = n - 1
    OBVIOUS
  <2>1. PICK x \in S : rank[x] = n
    BY <1>7
  <2> QED BY <2>1, BelowFinite
<1> QED BY <1>2, <1>3, <1>8

\* Ascending lists the elements of the set, each once, in their order.
LEMMA AscendingProperties ==
  ASSUME NEW S \in SUBSET Int, IsFiniteSet(S)
  PROVE  /\ Cardinality(S) \in Nat
         /\ Ascending(S) \in [1 .. Cardinality(S) -> S]
         /\ \A n \in 1 .. Cardinality(S) :
               Cardinality(Below(S, Ascending(S)[n])) = n - 1
         /\ \A m, n \in 1 .. Cardinality(S) :
               m < n => Ascending(S)[m] < Ascending(S)[n]
         /\ \A x \in S : \E n \in 1 .. Cardinality(S) : Ascending(S)[n] = x
<1> DEFINE N == Cardinality(S)
<1>1. N \in Nat
  BY FS_CardinalityType
<1>2. \A n \in 1 .. N : /\ Ascending(S)[n] \in S
                        /\ Cardinality(Below(S, Ascending(S)[n])) = n - 1
  <2> SUFFICES ASSUME NEW n \in 1 .. N
               PROVE  /\ Ascending(S)[n] \in S
                      /\ Cardinality(Below(S, Ascending(S)[n])) = n - 1
    OBVIOUS
  <2>1. \E x \in S : Cardinality(Below(S, x)) = n - 1
    BY Ranks
  <2>2. Ascending(S)[n] = CHOOSE x \in S : Cardinality(Below(S, x)) = n - 1
    BY DEF Ascending, Below
  <2> QED BY <2>1, <2>2
<1>3. Ascending(S) \in [1 .. N -> S]
  BY <1>2 DEF Ascending
<1>4. \A m, n \in 1 .. N : m < n => Ascending(S)[m] < Ascending(S)[n]
  <2> SUFFICES ASSUME NEW m \in 1 .. N, NEW n \in 1 .. N, m < n,
                      ~(Ascending(S)[m] < Ascending(S)[n])
               PROVE  FALSE
    OBVIOUS
  <2> DEFINE x == Ascending(S)[m]
             y == Ascending(S)[n]
  <2>1. x \in S /\ y \in S /\ Cardinality(Below(S, x)) = m - 1
        /\ Cardinality(Below(S, y)) = n - 1
    BY <1>2
  <2>a. ~(x < y) /\ x \in Int /\ y \in Int
    BY <2>1
  <2> HIDE DEF x, y
  <2>2. x = y \/ y < x
    BY <2>a
  <2>3. CASE x = y
    BY <2>1, <2>3, <1>1
  <2>4. CASE y < x
    <3>1. n - 1 + 1 <= m - 1
      BY <2>1, <2>4, BelowGrows
    <3> QED BY <3>1, <1>1
  <2> QED BY <2>2, <2>3, <2>4
<1>5. \A x \in S : \E n \in 1 .. N : Ascending(S)[n] = x
  <2> SUFFICES ASSUME NEW x \in S PROVE \E n \in 1 .. N : Ascending(S)[n] = x
    OBVIOUS
  <2> DEFINE n == Cardinality(Below(S, x)) + 1
  <2>1. n \in 1 .. N /\ n - 1 = Cardinality(Below(S, x))
    BY Ranks, BelowFinite
  <2> HIDE DEF n
  <2>2. /\ Ascending(S)[n] \in S
        /\ Cardinality(Below(S, Ascending(S)[n])) = Cardinality(Below(S, x))
    BY <2>1, <1>2
  <2>3. \A y \in S : Cardinality(Below(S, y)) = Cardinality(Below(S, x)) => y = x
    BY Ranks
  <2>4. Ascending(S)[n] = x
    BY <2>2, <2>3
  <2> QED BY <2>1, <2>4
<1> QED BY <1>1, <1>2, <1>3, <1>4, <1>5

\* A sequence of numbers that grows is the one that Ascending makes of them.
LEMMA AscendingUnique ==
  ASSUME NEW N \in Nat, NEW f \in [1 .. N -> Int],
         \A m, n \in 1 .. N : m < n => f[m] < f[n]
  PROVE  f = Ascending({f[n] : n \in 1 .. N})
<1> DEFINE S == {f[n] : n \in 1 .. N}
<1>1. IsFiniteSet(1 .. N) /\ Cardinality(1 .. N) = N
  BY FS_Interval
<1>2. f \in Bijection(1 .. N, S)
  <2>1. f \in [1 .. N -> S] /\ \A x \in S : \E n \in 1 .. N : f[n] = x
    OBVIOUS
  <2>2. \A m, n \in 1 .. N : f[m] = f[n] => m = n
    OBVIOUS
  <2> QED BY <2>1, <2>2 DEF Bijection, Injection, Surjection, IsInjective
<1>3. IsFiniteSet(S) /\ Cardinality(S) = N
  BY <1>1, <1>2, FS_Bijection DEF ExistsBijection
<1>4. \A n \in 1 .. N : Cardinality(Below(S, f[n])) = n - 1
  <2> SUFFICES ASSUME NEW n \in 1 .. N PROVE Cardinality(Below(S, f[n])) = n - 1
    OBVIOUS
  <2>1. Below(S, f[n]) = {f[m] : m \in 1 .. n - 1}
    <3>1. \A m \in 1 .. N : f[m] < f[n] <=> m < n
      OBVIOUS
    <3> QED BY <3>1 DEF Below
  <2>2. f \in [1 .. N -> Int] /\ [m \in 1 .. n - 1 |-> f[m]] \in Bijection(1 .. n - 1, Below(S, f[n]))
    <3> DEFINE g == [m \in 1 .. n - 1 |-> f[m]]
    <3>1. g \in [1 .. n - 1 -> Below(S, f[n])] /\ \A x \in Below(S, f[n]) : \E m \in 1 .. n - 1 : g[m] = x
      BY <2>1
    <3>2. \A i, m \in 1 .. n - 1 : g[i] = g[m] => i = m
      OBVIOUS
    <3> QED BY <3>1, <3>2 DEF Bijection, Injection, Surjection, IsInjective
  <2>3. IsFiniteSet(1 .. n - 1) /\ Cardinality(1 .. n - 1) = n - 1
    BY FS_Interval
  <2> QED BY <2>2, <2>3, FS_Bijection DEF ExistsBijection
<1>5. S \in SUBSET Int
  OBVIOUS
<1> HIDE DEF S
<1>6. \A n \in 1 .. N : f[n] \in S
  BY <1>2 DEF Bijection, Injection
<1>7. \A n \in 1 .. N : Ascending(S)[n] = f[n]
  <2> SUFFICES ASSUME NEW n \in 1 .. N PROVE Ascending(S)[n] = f[n]
    OBVIOUS
  <2>1. /\ Ascending(S)[n] \in S
        /\ Cardinality(Below(S, Ascending(S)[n])) = n - 1
    BY <1>3, <1>5, AscendingProperties
  <2>2. Cardinality(Below(S, f[n])) = n - 1 /\ f[n] \in S
    BY <1>4, <1>6
  <2>3. \A x, y \in S : Cardinality(Below(S, x)) = Cardinality(Below(S, y)) => x = y
    BY <1>3, <1>5, Ranks
  <2> QED BY <2>1, <2>2, <2>3
<1>8. Ascending(S) \in [1 .. N -> S]
  BY <1>3, <1>5, AscendingProperties
<1>9. f = Ascending(S)
  BY <1>7, <1>8
<1> QED BY <1>9 DEF S

-----------------------------------------------------------------------------
(* Lines.                                                                  *)

\* At least m elements are below a number exactly if the m-th is.
LEMMA BelowCounts ==
  ASSUME NEW S \in SUBSET Int, IsFiniteSet(S),
         NEW m \in 1 .. Cardinality(S), NEW i \in Int
  PROVE  Cardinality(Below(S, i)) >= m <=> Ascending(S)[m] < i
<1> DEFINE x == Ascending(S)[m]
<1>1. x \in S /\ Cardinality(Below(S, x)) = m - 1
  BY AscendingProperties
<1>2. Cardinality(S) \in Nat /\ m \in Int
  BY FS_CardinalityType
<1>3. Cardinality(Below(S, i)) \in Nat
  BY BelowFinite
<1> HIDE DEF x
<1>4. CASE x < i
  <2>1. m - 1 + 1 <= Cardinality(Below(S, i))
    BY <1>1, <1>4, BelowGrows
  <2> QED BY <2>1, <1>2, <1>3, <1>4 DEF x
<1>5. CASE ~(x < i)
  <2>1. \A y \in S : y < i => y < x
    BY <1>1, <1>5
  <2>2. Below(S, i) \in SUBSET Below(S, x)
    BY <2>1 DEF Below
  <2>3. Cardinality(Below(S, i)) <= m - 1
    BY <1>1, <2>2, FS_Subset, BelowFinite
  <2> QED BY <2>3, <1>2, <1>3, <1>5 DEF x
<1> QED BY <1>4, <1>5

\* The line feeds are positions of the text.
LEMMA BreaksFinite ==
  ASSUME NEW C, NEW text \in Seq(C)
  PROVE  /\ Len(text) \in Nat /\ DOMAIN text = 1 .. Len(text)
         /\ Breaks(text) \in SUBSET (1 .. Len(text))
         /\ Breaks(text) \in SUBSET Int
         /\ IsFiniteSet(Breaks(text))
         /\ Cardinality(Breaks(text)) \in Nat
<1>1. Len(text) \in Nat /\ DOMAIN text = 1 .. Len(text)
  BY LenProperties
<1>2. Breaks(text) \in SUBSET (1 .. Len(text))
  BY <1>1 DEF Breaks
<1>3. IsFiniteSet(Breaks(text))
  <2>1. IsFiniteSet(1 .. Len(text))
    BY <1>1, FS_Interval
  <2> QED BY <1>2, <2>1, FS_Subset
<1> QED BY <1>1, <1>2, <1>3, FS_CardinalityType

\* The line of a position is told by the line feeds around it.
LEMMA LineSpan ==
  ASSUME NEW C, NEW text \in Seq(C), NEW i \in 1 .. Len(text) + 1
  PROVE  LET at == Ascending(Breaks(text))
             last == Cardinality(Breaks(text)) + 1
         IN  /\ LineOf(text, i) \in 1 .. last
             /\ \A n \in 1 .. last :
                   LineOf(text, i) = n
                     <=> /\ n = 1 \/ at[n - 1] < i
                         /\ n = last \/ i <= at[n]
<1> DEFINE at == Ascending(Breaks(text))
           N == Cardinality(Breaks(text))
           k == Cardinality(Below(Breaks(text), i))
<1>1. N \in Nat /\ Len(text) \in Nat
  BY BreaksFinite
<1>2. {j \in 1 .. i - 1 : text[j] = LF} = Below(Breaks(text), i)
  BY BreaksFinite DEF Breaks, Below
<1>3. LineOf(text, i) = 1 + k /\ k \in Nat /\ k <= N
  BY <1>2, BreaksFinite, BelowFinite DEF LineOf
<1>4. \A m \in 1 .. N : k >= m <=> at[m] < i
  BY BreaksFinite, BelowCounts
<1>5. \A m \in 1 .. N : at[m] \in Int
  BY BreaksFinite, AscendingProperties
<1> HIDE DEF at, N, k
<1>6. ASSUME NEW n \in 1 .. N + 1
      PROVE  LineOf(text, i) = n <=> /\ n = 1 \/ at[n - 1] < i
                                     /\ n = N + 1 \/ i <= at[n]
  <2>1. LineOf(text, i) = n <=> k >= n - 1 /\ ~(k >= n)
    BY <1>1, <1>3
  <2>2. k >= n - 1 <=> (n = 1 \/ at[n - 1] < i)
    <3>1. CASE n = 1
      BY <3>1, <1>3
    <3>2. CASE n # 1
      <4>1. n - 1 \in 1 .. N
        BY <3>2, <1>1
      <4> QED BY <4>1, <3>2, <1>4
    <3> QED BY <3>1, <3>2
  <2>3. ~(k >= n) <=> (n = N + 1 \/ i <= at[n])
    <3>1. CASE n = N + 1
      BY <3>1, <1>1, <1>3
    <3>2. CASE n # N + 1
      <4>1. n \in 1 .. N
        BY <3>2, <1>1
      <4>2. i <= at[n] <=> ~(at[n] < i)
        BY <4>1, <1>5, <1>1
      <4> QED BY <4>1, <4>2, <3>2, <1>4
    <3> QED BY <3>1, <3>2
  <2> QED BY <2>1, <2>2, <2>3
<1>7. LineOf(text, i) \in 1 .. N + 1
  BY <1>1, <1>3
<1> QED BY <1>6, <1>7 DEF at, N

\* A line reaches from LineBegin to LineEnd: these positions are on it, there is
\* no line feed among them, and a stretch without breaks that begins on the line
\* ends on it.
LEMMA LineBounds ==
  ASSUME NEW C, NEW text \in Seq(C), NEW n \in 1 .. Cardinality(Breaks(text)) + 1
  PROVE  LET begin == LineBegin(text, n)
             end == LineEnd(text, n)
         IN  /\ begin \in 1 .. Len(text) + 1
             /\ end \in begin - 1 .. Len(text)
             /\ \A i \in begin .. end + 1 : LineOf(text, i) = n
             /\ \A i \in begin .. end : text[i] # LF
             /\ \A i \in 1 .. Len(text) + 1 : LineOf(text, i) = n => begin <= i
             /\ \A i, k \in 1 .. Len(text) :
                   /\ LineOf(text, i) = n /\ i <= k
                   /\ \A j \in i .. k : text[j] \notin {CR, LF}
                   => k <= end
<1> DEFINE at == Ascending(Breaks(text))
           N == Cardinality(Breaks(text))
           begin == LineBegin(text, n)
           end == LineEnd(text, n)
<1>1. N \in Nat /\ Len(text) \in Nat
  BY BreaksFinite
<1>2. \A m \in 1 .. N : at[m] \in 1 .. Len(text) /\ text[at[m]] = LF
  <2>1. \A m \in 1 .. N : at[m] \in Breaks(text)
    BY BreaksFinite, AscendingProperties
  <2>2. \A j \in Breaks(text) : j \in 1 .. Len(text) /\ text[j] = LF
    BY BreaksFinite DEF Breaks
  <2> QED BY <2>1, <2>2
<1>3. \A j \in 1 .. Len(text) : text[j] = LF => \E m \in 1 .. N : at[m] = j
  <2>1. \A j \in 1 .. Len(text) : text[j] = LF => j \in Breaks(text)
    BY BreaksFinite DEF Breaks
  <2>2. \A j \in Breaks(text) : \E m \in 1 .. N : at[m] = j
    BY BreaksFinite, AscendingProperties
  <2> QED BY <2>1, <2>2
<1>4. \A l, m \in 1 .. N : l < m => at[l] < at[m]
  BY BreaksFinite, AscendingProperties
<1>5. \A i \in 1 .. Len(text) + 1 :
          LineOf(text, i) = n <=> /\ n = 1 \/ at[n - 1] < i
                                  /\ n = N + 1 \/ i <= at[n]
  BY LineSpan
<1>6. begin = IF n = 1 THEN 1 ELSE at[n - 1] + 1
  BY DEF LineBegin
<1>7. end = IF n > N THEN Len(text)
            ELSE IF at[n] > begin /\ text[at[n] - 1] = CR
                 THEN at[n] - 2 ELSE at[n] - 1
  BY DEF LineEnd
<1> HIDE DEF at, N, begin, end
<1>8. n \in 1 .. N + 1
  BY DEF N
<1>9. begin \in 1 .. Len(text) + 1
  <2>1. CASE n = 1
    BY <2>1, <1>1, <1>6
  <2>2. CASE n # 1
    <3>1. n - 1 \in 1 .. N
      BY <2>2, <1>1, <1>8
    <3>2. at[n - 1] \in 1 .. Len(text)
      BY <3>1, <1>2
    <3> QED BY <3>2, <2>2, <1>1, <1>6
  <2> QED BY <2>1, <2>2
<1>10. n # N + 1 => n \in 1 .. N /\ at[n] \in 1 .. Len(text) /\ begin <= at[n]
  <2> SUFFICES ASSUME n # N + 1
               PROVE  n \in 1 .. N /\ at[n] \in 1 .. Len(text) /\ begin <= at[n]
    OBVIOUS
  <2>1. n \in 1 .. N
    BY <1>1, <1>8
  <2>2. at[n] \in 1 .. Len(text)
    BY <2>1, <1>2
  <2>3. CASE n = 1
    BY <2>1, <2>2, <2>3, <1>6
  <2>4. CASE n # 1
    <3>1. n - 1 \in 1 .. N /\ n - 1 < n
      BY <2>1, <2>4, <1>1
    <3>2. at[n - 1] < at[n] /\ at[n - 1] \in 1 .. Len(text)
      BY <2>1, <3>1, <1>2, <1>4
    <3> QED BY <2>1, <2>2, <2>4, <3>2, <1>6, <1>1
  <2> QED BY <2>3, <2>4
<1>11. n = N + 1 => end = Len(text)
  BY <1>1, <1>7
<1>12. n # N + 1 => /\ end \in begin - 1 .. at[n] - 1
                    /\ end = at[n] - 1 \/ (end = at[n] - 2 /\ text[at[n] - 1] = CR)
  <2> SUFFICES ASSUME n # N + 1
               PROVE  /\ end \in begin - 1 .. at[n] - 1
                      /\ end = at[n] - 1 \/ (end = at[n] - 2 /\ text[at[n] - 1] = CR)
    OBVIOUS
  <2>1. n \in 1 .. N /\ at[n] \in 1 .. Len(text) /\ begin <= at[n] /\ ~(n > N)
    BY <1>10, <1>1
  <2> QED BY <2>1, <1>1, <1>7, <1>9
<1>13. end \in begin - 1 .. Len(text)
  BY <1>1, <1>9, <1>10, <1>11, <1>12
<1>14. n # 1 => n - 1 \in 1 .. N /\ at[n - 1] \in 1 .. Len(text) /\ begin = at[n - 1] + 1
  BY <1>1, <1>2, <1>6, <1>8
<1>15. ASSUME NEW i \in begin .. end + 1 PROVE LineOf(text, i) = n
  <2>1. i \in 1 .. Len(text) + 1
    BY <1>1, <1>9, <1>13
  <2>2. n = 1 \/ at[n - 1] < i
    BY <1>1, <1>14, <2>1
  <2>3. n = N + 1 \/ i <= at[n]
    BY <1>1, <1>9, <1>10, <1>12, <2>1
  <2> QED BY <1>5, <2>1, <2>2, <2>3
<1>16. ASSUME NEW i \in begin .. end, text[i] = LF PROVE FALSE
  <2>1. i \in 1 .. Len(text)
    BY <1>1, <1>9, <1>13
  <2>2. PICK m \in 1 .. N : at[m] = i
    BY <1>3, <1>16, <2>1
  <2>3. m >= n
    <3>1. CASE n = 1
      BY <3>1, <1>1
    <3>2. CASE n # 1
      <4>1. n - 1 \in 1 .. N /\ at[n - 1] < at[m] /\ at[n - 1] \in Int
        BY <3>2, <1>14, <2>1, <2>2, <1>9
      <4>2. ~(m < n - 1) /\ m # n - 1
        BY <4>1, <1>2, <1>4
      <4> QED BY <4>1, <4>2, <1>1
    <3> QED BY <3>1, <3>2
  <2>4. m <= n - 1
    <3>1. CASE n = N + 1
      BY <3>1, <1>1
    <3>2. CASE n # N + 1
      <4>1. n \in 1 .. N /\ at[m] < at[n] /\ at[n] \in Int
        BY <3>2, <1>10, <1>12, <2>1, <2>2, <1>9
      <4>2. ~(n < m) /\ m # n
        BY <4>1, <1>2, <1>4
      <4> QED BY <4>1, <4>2, <1>1
    <3> QED BY <3>1, <3>2
  <2> QED BY <2>3, <2>4, <1>1, <1>8
<1>17. ASSUME NEW i \in 1 .. Len(text) + 1, LineOf(text, i) = n PROVE begin <= i
  <2>1. n = 1 \/ at[n - 1] < i
    BY <1>5, <1>17
  <2> QED BY <2>1, <1>1, <1>6, <1>14
<1>18. ASSUME NEW i \in 1 .. Len(text), NEW k \in 1 .. Len(text),
              LineOf(text, i) = n, i <= k,
              \A j \in i .. k : text[j] \notin {CR, LF}
       PROVE  k <= end
  <2>1. CASE n = N + 1
    BY <2>1, <1>1, <1>11
  <2>2. CASE n # N + 1
    <3>1. i \in 1 .. Len(text) + 1
      BY <1>1
    <3>2. i <= at[n] /\ at[n] \in 1 .. Len(text) /\ text[at[n]] = LF
      BY <1>2, <1>5, <1>10, <1>18, <2>2, <3>1
    <3>3. k < at[n]
      BY <1>1, <1>18, <3>2
    <3>4. end = at[n] - 2 /\ text[at[n] - 1] = CR => k # at[n] - 1
      BY <1>1, <1>18, <3>2
    <3> QED BY <1>1, <1>12, <2>2, <3>2, <3>3, <3>4
  <2> QED BY <2>1, <2>2
<1> QED BY <1>9, <1>13, <1>15, <1>16, <1>17, <1>18 DEF begin, end

-----------------------------------------------------------------------------
(* Searching in lines.                                                     *)

\* A line holds the letters of the text from its begin to its end.
LEMMA LineText ==
  ASSUME NEW C, NEW text \in Seq(C), NEW n \in 1 .. Cardinality(Breaks(text)) + 1
  PROVE  LET begin == LineBegin(text, n)
             end == LineEnd(text, n)
         IN  /\ DOMAIN Lines(text) = 1 .. Cardinality(Breaks(text)) + 1
             /\ Lines(text)[n] \in Seq(C)
             /\ Len(Lines(text)[n]) = end - begin + 1
             /\ \A i \in 1 .. end - begin + 1 :
                   Lines(text)[n][i] = text[begin + i - 1]
<1> DEFINE begin == LineBegin(text, n)
           end == LineEnd(text, n)
<1>1. Lines(text)[n] = SubSeq(text, begin, end)
      /\ DOMAIN Lines(text) = 1 .. Cardinality(Breaks(text)) + 1
  BY DEF Lines
<1>2. begin \in 1 .. Len(text) + 1 /\ end \in begin - 1 .. Len(text)
  BY LineBounds
<1>3. Len(text) \in Nat
  BY LenProperties
<1> HIDE DEF begin, end
<1>4. \A i \in begin .. end : text[i] \in C
  BY <1>2, <1>3, ElementOfSeq
<1>5. /\ SubSeq(text, begin, end) \in Seq(C)
      /\ Len(SubSeq(text, begin, end)) = IF begin <= end THEN end - begin + 1 ELSE 0
      /\ \A i \in 1 .. end - begin + 1 :
            SubSeq(text, begin, end)[i] = text[begin + i - 1]
  <2>1. begin \in Int /\ end \in Int
    BY <1>2, <1>3
  <2> QED BY <1>4, <2>1, SubSeqProperties
<1> QED BY <1>1, <1>2, <1>3, <1>5 DEF begin, end

\* A word is a piece of a text at a place where it agrees letter by letter.
LEMMA PieceIsWord ==
  ASSUME NEW C, NEW text \in Seq(C), NEW word \in Seq(C),
         NEW i \in 1 .. Len(text) - Len(word) + 1
  PROVE  SubSeq(text, i, i + Len(word) - 1) = word
           <=> \A j \in 1 .. Len(word) : text[i + j - 1] = word[j]
<1> DEFINE last == i + Len(word) - 1
           piece == SubSeq(text, i, last)
<1>1. Len(text) \in Nat /\ Len(word) \in Nat
  BY LenProperties
<1>2. \A j \in i .. last : text[j] \in C
  BY <1>1, ElementOfSeq
<1>3. /\ piece \in Seq(C)
      /\ Len(piece) = IF i <= last THEN last - i + 1 ELSE 0
      /\ \A j \in 1 .. last - i + 1 : piece[j] = text[i + j - 1]
  BY <1>1, <1>2, SubSeqProperties
<1>4. Len(piece) = Len(word) /\ last - i + 1 = Len(word)
  BY <1>1, <1>3
<1> HIDE DEF piece
<1>5. (\A j \in 1 .. Len(word) : piece[j] = word[j]) => piece = word
  BY <1>3, <1>4, SeqEqual
<1> QED BY <1>3, <1>4, <1>5 DEF piece

\* The same for includes.
Occurs(line, word) ==
    \E i \in 0 .. Len(line) - Len(word) :
        \A j \in 1 .. Len(word) : line[i + j] = word[j]

\* includes finds a word in a line just if it occurs at some index.
LEMMA IncludesAt ==
  ASSUME NEW C, NEW line \in Seq(C), NEW word \in Seq(C)
  PROVE  includes(line, word) <=> Occurs(line, word)
<1>1. Len(line) \in Nat /\ Len(word) \in Nat
  BY LenProperties
<1>2. ASSUME NEW i \in 0 .. Len(line) - Len(word)
      PROVE  SubSeq(line, i + 1, i + Len(word)) = word
               <=> \A j \in 1 .. Len(word) : line[i + j] = word[j]
  <2>1. i + 1 \in 1 .. Len(line) - Len(word) + 1
    BY <1>1
  <2>2. (i + 1) + Len(word) - 1 = i + Len(word)
    BY <1>1
  <2>3. \A j \in 1 .. Len(word) : (i + 1) + j - 1 = i + j
    BY <1>1
  <2>4. SubSeq(line, i + 1, (i + 1) + Len(word) - 1) = word
          <=> \A j \in 1 .. Len(word) : line[(i + 1) + j - 1] = word[j]
    BY <2>1, PieceIsWord
  <2> QED BY <2>2, <2>3, <2>4
<1> QED BY <1>2 DEF includes, Occurs

\* And for the places where a query is.
LEMMA HitAt ==
  ASSUME NEW C, NEW text \in Seq(C), NEW query \in Seq(C), NEW i
  PROVE  i \in Hits(text, query)
           <=> /\ i \in 1 .. Len(text) - Len(query) + 1
               /\ \A j \in 1 .. Len(query) : text[i + j - 1] = query[j]
<1>1. i \in Hits(text, query)
        <=> /\ i \in 1 .. Len(text) - Len(query) + 1
            /\ SubSeq(text, i, i + Len(query) - 1) = query
  BY DEF Hits
<1>2. ASSUME i \in 1 .. Len(text) - Len(query) + 1
      PROVE  SubSeq(text, i, i + Len(query) - 1) = query
               <=> \A j \in 1 .. Len(query) : text[i + j - 1] = query[j]
  BY <1>2, PieceIsWord
<1> QED BY <1>1, <1>2

\* A line has a query on one line in it exactly if the query is in the text at
\* a position on that line.
LEMMA LineHasHit ==
  ASSUME NEW C, NEW text \in Seq(C), NEW query \in Seq(C),
         Range(query) \cap {CR, LF} = {},
         NEW n \in 1 .. Cardinality(Breaks(text)) + 1
  PROVE  includes(Lines(text)[n], query)
           <=> \E i \in Hits(text, query) : LineOf(text, i) = n
<1> DEFINE begin == LineBegin(text, n)
           end == LineEnd(text, n)
           line == Lines(text)[n]
<1>1. Len(text) \in Nat /\ Len(query) \in Nat
  BY LenProperties
<1>2. /\ begin \in 1 .. Len(text) + 1
      /\ end \in begin - 1 .. Len(text)
      /\ \A i \in begin .. end + 1 : LineOf(text, i) = n
      /\ \A i \in 1 .. Len(text) + 1 : LineOf(text, i) = n => begin <= i
      /\ \A i, k \in 1 .. Len(text) :
            /\ LineOf(text, i) = n /\ i <= k
            /\ \A j \in i .. k : text[j] \notin {CR, LF}
            => k <= end
  BY LineBounds
<1>3. /\ line \in Seq(C)
      /\ Len(line) = end - begin + 1
      /\ \A i \in 1 .. end - begin + 1 : line[i] = text[begin + i - 1]
  BY LineText
<1>4. \A j \in 1 .. Len(query) : query[j] \notin {CR, LF}
  BY LenProperties DEF Range
<1>5. includes(line, query) <=> Occurs(line, query)
  BY <1>3, IncludesAt
<1> HIDE DEF begin, end, line
<1>6. ASSUME NEW i \in 0 .. Len(line) - Len(query),
             \A j \in 1 .. Len(query) : line[i + j] = query[j]
      PROVE  \E k \in Hits(text, query) : LineOf(text, k) = n
  <2> DEFINE k == begin + i
  <2>1. k \in 1 .. Len(text) - Len(query) + 1 /\ k \in begin .. end + 1
    BY <1>1, <1>2, <1>3
  <2>2. ASSUME NEW j \in 1 .. Len(query) PROVE text[k + j - 1] = query[j]
    <3>1. i + j \in 1 .. end - begin + 1 /\ begin + (i + j) - 1 = k + j - 1
      BY <1>1, <1>2, <1>3
    <3> QED BY <1>3, <1>6, <3>1
  <2>3. k \in Hits(text, query)
    BY <2>1, <2>2, HitAt
  <2> QED BY <1>2, <2>1, <2>3
<1>7. ASSUME NEW k \in Hits(text, query), LineOf(text, k) = n
      PROVE  \E i \in 0 .. Len(line) - Len(query) :
                \A j \in 1 .. Len(query) : line[i + j] = query[j]
  <2>1. /\ k \in 1 .. Len(text) - Len(query) + 1
        /\ \A j \in 1 .. Len(query) : text[k + j - 1] = query[j]
    BY HitAt
  <2>2. CASE Len(query) = 0
    <3>1. 0 \in 0 .. Len(line) - Len(query) /\ 1 .. Len(query) = {}
      BY <2>2, <1>1, <1>2, <1>3
    <3> QED BY <3>1
  <2>3. CASE Len(query) # 0
    <3> DEFINE last == k + Len(query) - 1
    <3>1. k \in 1 .. Len(text) /\ last \in 1 .. Len(text) /\ k <= last
          /\ k \in 1 .. Len(text) + 1
      BY <1>1, <2>1, <2>3
    <3>2. ASSUME NEW j \in k .. last PROVE text[j] \notin {CR, LF}
      <4>1. j - k + 1 \in 1 .. Len(query) /\ k + (j - k + 1) - 1 = j
        BY <1>1, <3>1
      <4> QED BY <1>4, <2>1, <4>1
    <3>3. begin <= k /\ last <= end
      BY <1>2, <1>7, <3>1, <3>2
    <3>4. k - begin \in 0 .. Len(line) - Len(query)
      BY <1>1, <1>2, <1>3, <3>1, <3>3
    <3>5. ASSUME NEW j \in 1 .. Len(query) PROVE line[(k - begin) + j] = query[j]
      <4>1. /\ (k - begin) + j \in 1 .. end - begin + 1
            /\ begin + ((k - begin) + j) - 1 = k + j - 1
        BY <1>1, <1>2, <3>1, <3>3
      <4> QED BY <1>3, <2>1, <4>1
    <3> QED BY <3>4, <3>5
  <2> QED BY <2>2, <2>3
<1>8. includes(line, query) <=> \E i \in Hits(text, query) : LineOf(text, i) = n
  BY <1>5, <1>6, <1>7 DEF Occurs
<1> QED BY <1>8 DEF line

-----------------------------------------------------------------------------
(* Trimming.                                                               *)

\* The letters that are no white space.
Solid(text) == {i \in DOMAIN text : text[i] \notin White}

\* The least and the greatest of a set of numbers.
LEMMA MinMax ==
  ASSUME NEW S \in SUBSET Int, IsFiniteSet(S), S # {}
  PROVE  /\ Min(S) \in S /\ \A x \in S : Min(S) <= x
         /\ Max(S) \in S /\ \A x \in S : Max(S) >= x
<1> DEFINE N == Cardinality(S)
           at == Ascending(S)
<1>1. N \in Nat /\ N # 0
  BY FS_CardinalityType, FS_EmptySet
<1>2. /\ at \in [1 .. N -> S]
      /\ \A m, n \in 1 .. N : m < n => at[m] < at[n]
      /\ \A x \in S : \E n \in 1 .. N : at[n] = x
  BY AscendingProperties
<1> HIDE DEF N, at
<1>3. 1 \in 1 .. N /\ N \in 1 .. N
  BY <1>1
<1>4. \A x \in S : at[1] <= x /\ at[N] >= x
  <2> SUFFICES ASSUME NEW x \in S PROVE at[1] <= x /\ at[N] >= x
    OBVIOUS
  <2>1. PICK n \in 1 .. N : at[n] = x
    BY <1>2
  <2>2. at[1] \in Int /\ at[N] \in Int /\ at[n] \in Int
    BY <1>2, <1>3
  <2>3. n = 1 \/ 1 < n
    BY <1>1
  <2>4. n = N \/ n < N
    BY <1>1
  <2> QED BY <1>2, <1>3, <2>1, <2>2, <2>3, <2>4
<1>5. at[1] \in S /\ at[N] \in S
  BY <1>2, <1>3
<1>6. Min(S) \in S /\ \A x \in S : Min(S) <= x
  BY <1>4, <1>5 DEF Min
<1>7. Max(S) \in S /\ \A x \in S : Max(S) >= x
  BY <1>4, <1>5 DEF Max
<1> QED BY <1>6, <1>7

\* trim keeps what is between the first and the last of them.
LEMMA TrimSpan ==
  ASSUME NEW C, NEW text \in Seq(C), Solid(text) # {}
  PROVE  LET first == Min(Solid(text))
             last == Max(Solid(text))
         IN  /\ trim(text) \in Seq(C)
             /\ first \in Solid(text) /\ last \in Solid(text)
             /\ first \in 1 .. Len(text) /\ last \in first .. Len(text)
             /\ \A i \in Solid(text) : first <= i /\ i <= last
             /\ Len(trim(text)) = last - first + 1
             /\ \A i \in 1 .. last - first + 1 : trim(text)[i] = text[first + i - 1]
<1> DEFINE first == Min(Solid(text))
           last == Max(Solid(text))
<1>1. Len(text) \in Nat /\ DOMAIN text = 1 .. Len(text)
  BY LenProperties
<1>2. Solid(text) \in SUBSET (1 .. Len(text))
  BY <1>1 DEF Solid
<1>3. IsFiniteSet(Solid(text)) /\ Solid(text) \in SUBSET Int
  <2>1. IsFiniteSet(1 .. Len(text))
    BY <1>1, FS_Interval
  <2> QED BY <1>2, <2>1, FS_Subset
<1>4. /\ first \in Solid(text) /\ last \in Solid(text)
      /\ \A i \in Solid(text) : first <= i /\ last >= i
  BY <1>3, MinMax
<1>5. trim(text) = SubSeq(text, first, last)
  BY DEF trim, Solid
<1> HIDE DEF first, last
<1>6. first \in 1 .. Len(text) /\ last \in first .. Len(text)
  BY <1>1, <1>2, <1>4
<1>7. \A i \in first .. last : text[i] \in C
  BY <1>1, <1>6, ElementOfSeq
<1>8. /\ trim(text) \in Seq(C)
      /\ Len(trim(text)) = IF first <= last THEN last - first + 1 ELSE 0
      /\ \A i \in 1 .. last - first + 1 : trim(text)[i] = text[first + i - 1]
  BY <1>1, <1>5, <1>6, <1>7, SubSeqProperties
<1>9. \A i \in Solid(text) : first <= i /\ i <= last
  BY <1>1, <1>2, <1>4, <1>6
<1>10. Len(trim(text)) = last - first + 1
  BY <1>1, <1>6, <1>8
<1> QED BY <1>4, <1>6, <1>8, <1>9, <1>10 DEF first, last

\* Without one, nothing is left.
LEMMA TrimEmpty ==
  ASSUME NEW text, Solid(text) = {}
  PROVE  trim(text) = <<>>
  BY DEF trim, Solid

\* What a line includes is there after both are trimmed.
LEMMA TrimKeepsWords ==
  ASSUME NEW C, NEW line \in Seq(C), NEW word \in Seq(C), includes(line, word)
  PROVE  includes(trim(line), trim(word))
<1>1. /\ Len(line) \in Nat /\ DOMAIN line = 1 .. Len(line)
      /\ Len(word) \in Nat /\ DOMAIN word = 1 .. Len(word)
  BY LenProperties
<1>a. Occurs(line, word)
  BY IncludesAt
<1>2. PICK i \in 0 .. Len(line) - Len(word) :
          \A j \in 1 .. Len(word) : line[i + j] = word[j]
  BY <1>a DEF Occurs
<1>3. ASSUME NEW j \in Solid(word) PROVE i + j \in Solid(line)
  <2>1. j \in 1 .. Len(word) /\ word[j] \notin White
    BY <1>1 DEF Solid
  <2>2. i + j \in 1 .. Len(line)
    BY <1>1, <2>1
  <2> QED BY <1>1, <1>2, <2>1, <2>2 DEF Solid
<1>4. trim(line) \in Seq(C)
  <2>1. CASE Solid(line) = {}
    BY <2>1, TrimEmpty, EmptySeq
  <2>2. CASE Solid(line) # {}
    BY <2>2, TrimSpan
  <2> QED BY <2>1, <2>2
<1>5. CASE Solid(word) = {}
  <2>1. trim(word) = <<>> /\ Len(<<>>) = 0 /\ <<>> \in Seq(C)
    BY <1>5, TrimEmpty, EmptySeq
  <2>2. Len(trim(line)) \in Nat
    BY <1>4, LenProperties
  <2>3. includes(trim(line), <<>>)
    <3>1. 0 \in 0 .. Len(trim(line)) - Len(<<>>)
      BY <2>1, <2>2
    <3>2. \A j \in 1 .. Len(<<>>) : trim(line)[0 + j] = <<>>[j]
      BY <2>1
    <3> QED BY <1>4, <2>1, <3>1, <3>2, IncludesAt DEF Occurs
  <2> QED BY <2>1, <2>3
<1>6. CASE Solid(word) # {}
  <2> DEFINE a == Min(Solid(word))
             z == Max(Solid(word))
             first == Min(Solid(line))
             last == Max(Solid(line))
  <2>1. /\ trim(word) \in Seq(C)
        /\ a \in Solid(word) /\ z \in Solid(word)
        /\ a \in 1 .. Len(word) /\ z \in a .. Len(word)
        /\ Len(trim(word)) = z - a + 1
        /\ \A j \in 1 .. z - a + 1 : trim(word)[j] = word[a + j - 1]
    BY <1>6, TrimSpan
  <2>2. Solid(line) # {}
    BY <1>3, <2>1
  <2>3. /\ first \in 1 .. Len(line) /\ last \in first .. Len(line)
        /\ \A k \in Solid(line) : first <= k /\ k <= last
        /\ Len(trim(line)) = last - first + 1
        /\ \A k \in 1 .. last - first + 1 : trim(line)[k] = line[first + k - 1]
    BY <2>2, TrimSpan
  <2>4. first <= i + a /\ i + z <= last
    BY <1>3, <2>1, <2>3
  <2> HIDE DEF a, z, first, last
  <2> DEFINE k == i + a - first
  <2>5. k \in 0 .. Len(trim(line)) - Len(trim(word))
    BY <1>1, <2>1, <2>3, <2>4
  <2>6. ASSUME NEW j \in 1 .. Len(trim(word))
        PROVE  trim(line)[k + j] = trim(word)[j]
    <3>1. /\ k + j \in 1 .. last - first + 1
          /\ first + (k + j) - 1 = i + (a + j - 1)
          /\ a + j - 1 \in 1 .. Len(word)
          /\ j \in 1 .. z - a + 1
      <4>1. /\ a \in Int /\ z \in Int /\ first \in Int /\ last \in Int /\ i \in Int
            /\ Len(trim(word)) = z - a + 1 /\ Len(word) \in Nat
            /\ 1 <= a /\ z <= Len(word)
        BY <1>1, <2>1, <2>3
      <4>2. j \in 1 .. z - a + 1 /\ a + j - 1 \in 1 .. Len(word)
        BY <4>1
      <4>3. k + j \in 1 .. last - first + 1
        BY <4>1, <2>4
      <4> QED BY <4>1, <4>2, <4>3
    <3>2. trim(line)[k + j] = line[i + (a + j - 1)]
      BY <2>3, <3>1
    <3>3. trim(word)[j] = word[a + j - 1]
      BY <2>1, <3>1
    <3> QED BY <1>2, <3>1, <3>2, <3>3
  <2> QED BY <1>4, <2>1, <2>5, <2>6, IncludesAt DEF Occurs
<1> QED BY <1>5, <1>6

\* trim adds no line feed.
LEMMA TrimNoBreaks ==
  ASSUME NEW C, NEW line \in Seq(C), \A i \in 1 .. Len(line) : line[i] # LF
  PROVE  LF \notin Range(trim(line))
<1>1. CASE Solid(line) = {}
  BY <1>1, TrimEmpty, EmptySeq DEF Range
<1>2. CASE Solid(line) # {}
  <2> DEFINE first == Min(Solid(line))
             last == Max(Solid(line))
  <2>1. /\ trim(line) \in Seq(C)
        /\ first \in 1 .. Len(line) /\ last \in first .. Len(line)
        /\ Len(trim(line)) = last - first + 1
        /\ \A i \in 1 .. last - first + 1 : trim(line)[i] = line[first + i - 1]
    BY <1>2, TrimSpan
  <2>2. DOMAIN trim(line) = 1 .. last - first + 1 /\ Len(line) \in Nat
    BY <2>1, LenProperties
  <2> HIDE DEF first, last
  <2>3. ASSUME NEW i \in 1 .. last - first + 1 PROVE trim(line)[i] # LF
    <3>1. first + i - 1 \in 1 .. Len(line)
      BY <2>1, <2>2
    <3> QED BY <2>1, <3>1
  <2> QED BY <2>2, <2>3 DEF Range
<1> QED BY <1>1, <1>2

-----------------------------------------------------------------------------
(* Selecting and joining.                                                  *)

\* Induction, as a fact about sets of numbers.
LEMMA SetInduction ==
  ASSUME NEW T \in SUBSET Nat, 0 \in T, \A n \in T : n + 1 \in T
  PROVE  T = Nat
<1> SUFFICES ASSUME Nat \ T # {} PROVE FALSE
  OBVIOUS
<1>1. PICK x \in Nat \ T : \A y \in Nat \ T : ~(<<y, x>> \in OpToRel(<, Nat))
  BY WFMin, NatLessThanWellFounded
<1>2. x # 0 /\ x - 1 \in Nat /\ x - 1 < x /\ (x - 1) + 1 = x
  OBVIOUS
<1>3. <<x - 1, x>> \in OpToRel(<, Nat)
  BY <1>2 DEF OpToRel
<1>4. x - 1 \in T
  BY <1>1, <1>2, <1>3
<1> QED BY <1>2, <1>4

\* What Ascending makes of positions.
LEMMA Positions ==
  ASSUME NEW N \in Nat, NEW K \in SUBSET (1 .. N)
  PROVE  /\ Cardinality(K) \in Nat
         /\ Ascending(K) \in [1 .. Cardinality(K) -> K]
         /\ DOMAIN Ascending(K) = 1 .. Cardinality(K)
         /\ \A n \in 1 .. Cardinality(K) : Ascending(K)[n] \in K
         /\ \A m, n \in 1 .. Cardinality(K) :
               m < n => Ascending(K)[m] < Ascending(K)[n]
         /\ \A x \in K : \E n \in 1 .. Cardinality(K) : Ascending(K)[n] = x
<1>1. IsFiniteSet(1 .. N)
  BY FS_Interval
<1>2. IsFiniteSet(K)
  BY <1>1, FS_Subset
<1>3. K \in SUBSET Int
  OBVIOUS
<1> QED BY <1>2, <1>3, AscendingProperties

\* f holds the sequences ss[1] to ss[n] one after the other.
Joins(f, ss, n) ==
    \E off \in [1 .. n -> Nat] :
        /\ \A d \in 1 .. n : \A i \in 1 .. Len(ss[d]) :
              off[d] + i \in 1 .. Len(f) /\ f[off[d] + i] = ss[d][i]
        /\ \A k \in 1 .. Len(f) : \E d \in 1 .. n : \E i \in 1 .. Len(ss[d]) :
              k = off[d] + i

\* One sequence is joined by itself.
LEMMA JoinOne ==
  ASSUME NEW R, NEW ss, ss[1] \in Seq(R)
  PROVE  Joins(ss[1], ss, 1)
<1> DEFINE off == [d \in 1 .. 1 |-> 0]
<1>1. Len(ss[1]) \in Nat
  BY LenProperties
<1>2. off \in [1 .. 1 -> Nat]
  OBVIOUS
<1>3. \A d \in 1 .. 1 : d = 1 /\ off[d] = 0
  OBVIOUS
<1>4. \A i \in 1 .. Len(ss[1]) : 0 + i = i
  BY <1>1
<1> HIDE DEF off
<1>5. \A d \in 1 .. 1 : \A i \in 1 .. Len(ss[d]) :
          off[d] + i \in 1 .. Len(ss[1]) /\ ss[1][off[d] + i] = ss[d][i]
  BY <1>3, <1>4
<1>6. \A k \in 1 .. Len(ss[1]) : \E d \in 1 .. 1 : \E i \in 1 .. Len(ss[d]) :
          k = off[d] + i
  <2>1. 1 \in 1 .. 1
    OBVIOUS
  <2> QED BY <1>3, <1>4, <2>1
<1> QED BY <1>2, <1>5, <1>6 DEF Joins

\* Another one is joined by appending it.
LEMMA JoinMore ==
  ASSUME NEW R, NEW n \in Nat, NEW ss, NEW f \in Seq(R), Joins(f, ss, n),
         \A d \in 1 .. n + 1 : ss[d] \in Seq(R)
  PROVE  Joins(f \o ss[n + 1], ss, n + 1)
<1> DEFINE last == ss[n + 1]
           g == f \o last
<1>1. n + 1 \in 1 .. n + 1 /\ last \in Seq(R)
  OBVIOUS
<1>2. /\ Len(f) \in Nat /\ Len(last) \in Nat /\ Len(g) = Len(f) + Len(last)
      /\ \A k \in 1 .. Len(f) + Len(last) :
            g[k] = IF k <= Len(f) THEN f[k] ELSE last[k - Len(f)]
  BY <1>1, ConcatProperties, LenProperties
<1>3. PICK off \in [1 .. n -> Nat] :
        /\ \A d \in 1 .. n : \A i \in 1 .. Len(ss[d]) :
              off[d] + i \in 1 .. Len(f) /\ f[off[d] + i] = ss[d][i]
        /\ \A k \in 1 .. Len(f) : \E d \in 1 .. n : \E i \in 1 .. Len(ss[d]) :
              k = off[d] + i
  BY DEF Joins
<1> HIDE DEF g, last
<1> DEFINE more == [d \in 1 .. n + 1 |-> IF d = n + 1 THEN Len(f) ELSE off[d]]
<1>4. more \in [1 .. n + 1 -> Nat]
  BY <1>2, <1>3
<1>5. more[n + 1] = Len(f) /\ \A d \in 1 .. n : more[d] = off[d]
  OBVIOUS
<1>6. \A d \in 1 .. n : d \in 1 .. n + 1
  OBVIOUS
<1> HIDE DEF more
<1>7. ASSUME NEW d \in 1 .. n + 1, NEW i \in 1 .. Len(ss[d])
      PROVE  more[d] + i \in 1 .. Len(g) /\ g[more[d] + i] = ss[d][i]
  <2>1. CASE d = n + 1
    <3>1. i \in 1 .. Len(last) /\ ss[d] = last /\ more[d] = Len(f)
      BY <2>1, <1>5 DEF last
    <3>2. /\ Len(f) + i \in 1 .. Len(f) + Len(last) /\ ~(Len(f) + i <= Len(f))
          /\ (Len(f) + i) - Len(f) = i
      BY <3>1, <1>2
    <3> QED BY <3>1, <3>2, <1>2
  <2>2. CASE d # n + 1
    <3>1. d \in 1 .. n /\ more[d] = off[d]
      BY <2>2, <1>5
    <3>2. off[d] + i \in 1 .. Len(f) /\ f[off[d] + i] = ss[d][i]
      BY <1>3, <3>1
    <3>3. off[d] + i \in 1 .. Len(f) + Len(last) /\ off[d] + i <= Len(f)
      BY <1>2, <3>2
    <3> QED BY <3>1, <3>2, <3>3, <1>2
  <2> QED BY <2>1, <2>2
<1>8. ASSUME NEW k \in 1 .. Len(g)
      PROVE  \E d \in 1 .. n + 1 : \E i \in 1 .. Len(ss[d]) : k = more[d] + i
  <2>1. CASE k <= Len(f)
    <3>1. k \in 1 .. Len(f)
      BY <2>1, <1>2
    <3>2. PICK d \in 1 .. n : \E i \in 1 .. Len(ss[d]) : k = off[d] + i
      BY <1>3, <3>1
    <3> QED BY <3>2, <1>5, <1>6
  <2>2. CASE ~(k <= Len(f))
    <3>1. k - Len(f) \in 1 .. Len(last) /\ k = Len(f) + (k - Len(f))
      BY <2>2, <1>2
    <3> QED BY <3>1, <1>1, <1>5 DEF last
  <2> QED BY <2>1, <2>2
<1>9. Joins(g, ss, n + 1)
  BY <1>4, <1>7, <1>8 DEF Joins
<1> QED BY <1>9 DEF g, last

\* FlattenSeq puts the sequences one after the other.
LEMMA FlattenJoins ==
  ASSUME NEW R, NEW N \in Nat, NEW ss \in [1 .. N -> Seq(R)]
  PROVE  FlattenSeq(ss) \in Seq(R) /\ Joins(FlattenSeq(ss), ss, N)
<1>1. ss \in Seq(Seq(R)) /\ Len(ss) = N
  BY SeqDef, LenProperties
<1>2. CASE N = 0
  <2>1. FlattenSeq(ss) = ss
    BY <1>1, <1>2 DEF FlattenSeq
  <2>2. ss \in [1 .. 0 -> R]
    BY <1>2
  <2>3. ss \in Seq(R)
    BY <2>2, SeqDef
  <2>4. Joins(ss, ss, 0)
    <3>1. ss \in [1 .. 0 -> Nat]
      BY <1>2
    <3>2. 1 .. 0 = {} /\ 1 .. Len(ss) = {}
      BY <1>1, <1>2
    <3> QED BY <3>1, <3>2 DEF Joins
  <2> QED BY <2>1, <2>3, <2>4, <1>2
<1>3. CASE N # 0
  <2> DEFINE Def(f, n) == \A i \in 1 .. n :
                            f[i] = IF i = 1 THEN ss[i] ELSE f[i - 1] \o ss[i]
             flatten == CHOOSE f : f = [i \in 1 .. Len(ss) |->
                                          IF i = 1 THEN ss[i] ELSE f[i - 1] \o ss[i]]
             T == {n \in Nat : \E f : f = [i \in 1 .. n |-> f[i]] /\ Def(f, n)}
  <2>1. 0 \in T
    <3> DEFINE f0 == [i \in 1 .. 0 |-> 0]
    <3>1. f0 = [i \in 1 .. 0 |-> f0[i]] /\ Def(f0, 0)
      OBVIOUS
    <3> QED BY <3>1
  <2>2. ASSUME NEW n \in T PROVE n + 1 \in T
    <3>1. PICK f : f = [i \in 1 .. n |-> f[i]] /\ Def(f, n)
      OBVIOUS
    <3> DEFINE next == IF n = 0 THEN ss[1] ELSE f[n] \o ss[n + 1]
               g == [i \in 1 .. n + 1 |-> IF i = n + 1 THEN next ELSE f[i]]
    <3>2. n \in Nat
      OBVIOUS
    <3>3. g[n + 1] = next /\ \A i \in 1 .. n : g[i] = f[i]
      <4> HIDE DEF next
      <4> QED BY <3>2
    <3>4. g = [i \in 1 .. n + 1 |-> g[i]]
      OBVIOUS
    <3> HIDE DEF g
    <3>5. ASSUME NEW i \in 1 .. n + 1
          PROVE  g[i] = IF i = 1 THEN ss[i] ELSE g[i - 1] \o ss[i]
      <4>1. CASE i = n + 1
        <5>1. CASE n = 0
          <6>1. i = 1 /\ next = ss[1]
            BY <4>1, <5>1
          <6> QED BY <4>1, <6>1, <3>3
        <5>2. CASE n # 0
          <6>1. i # 1 /\ i - 1 = n /\ n \in 1 .. n
            BY <4>1, <5>2, <3>2
          <6> QED BY <4>1, <5>2, <6>1, <3>3
        <5> QED BY <5>1, <5>2
      <4>2. CASE i # n + 1
        <5>1. i \in 1 .. n /\ (i # 1 => i - 1 \in 1 .. n)
          BY <4>2, <3>2
        <5> QED BY <5>1, <3>1, <3>3
      <4> QED BY <4>1, <4>2
    <3>6. Def(g, n + 1)
      BY <3>5
    <3>7. \E h : h = [i \in 1 .. n + 1 |-> h[i]] /\ Def(h, n + 1)
      <4> HIDE DEF Def
      <4> QED BY <3>4, <3>6
    <3>8. n + 1 \in Nat
      BY <3>2
    <3> HIDE DEF Def
    <3> QED BY <3>7, <3>8
  <2> HIDE DEF T
  <2>3. T = Nat
    <3>1. T \in SUBSET Nat
      BY DEF T
    <3> QED BY <3>1, <2>1, <2>2, SetInduction
  <2>4. PICK f : f = [i \in 1 .. N |-> f[i]] /\ Def(f, N)
    BY <2>3 DEF T
  <2>5. f = [i \in 1 .. Len(ss) |-> IF i = 1 THEN ss[i] ELSE f[i - 1] \o ss[i]]
    BY <1>1, <2>4
  <2>6. flatten = [i \in 1 .. Len(ss) |->
                     IF i = 1 THEN ss[i] ELSE flatten[i - 1] \o ss[i]]
    BY <2>5
  <2>7. FlattenSeq(ss) = flatten[Len(ss)]
    BY <1>1, <1>3 DEF FlattenSeq
  <2> HIDE DEF flatten
  <2> DEFINE U == {n \in Nat : n + 1 \in 1 .. N =>
                      /\ flatten[n + 1] \in Seq(R)
                      /\ Joins(flatten[n + 1], ss, n + 1)}
  <2>8. 0 \in U
    <3>1. 1 \in 1 .. N
      BY <1>3
    <3>2. flatten[1] = ss[1] /\ ss[1] \in Seq(R)
      BY <2>6, <3>1, <1>1
    <3>3. 0 + 1 = 1
      OBVIOUS
    <3> QED BY <3>2, <3>3, JoinOne
  <2>9. ASSUME NEW n \in U PROVE n + 1 \in U
    <3>1. n \in Nat
      OBVIOUS
    <3> SUFFICES ASSUME (n + 1) + 1 \in 1 .. N
                 PROVE  /\ flatten[(n + 1) + 1] \in Seq(R)
                        /\ Joins(flatten[(n + 1) + 1], ss, (n + 1) + 1)
      BY <3>1
    <3>2. n + 1 \in 1 .. N /\ n + 1 \in Nat /\ (n + 1) + 1 # 1
          /\ ((n + 1) + 1) - 1 = n + 1
      BY <3>1
    <3>3. flatten[n + 1] \in Seq(R) /\ Joins(flatten[n + 1], ss, n + 1)
      BY <3>2
    <3>4. flatten[(n + 1) + 1] = flatten[n + 1] \o ss[(n + 1) + 1]
      BY <2>6, <3>2, <1>1
    <3>5. \A d \in 1 .. (n + 1) + 1 : ss[d] \in Seq(R)
      BY <3>1
    <3>6. ss[(n + 1) + 1] \in Seq(R)
      OBVIOUS
    <3> QED BY <3>2, <3>3, <3>4, <3>5, <3>6, JoinMore, ConcatProperties
  <2> HIDE DEF U
  <2>10. U = Nat
    <3>1. U \in SUBSET Nat
      BY DEF U
    <3> QED BY <3>1, <2>8, <2>9, SetInduction
  <2>11. N - 1 \in U /\ (N - 1) + 1 = N /\ N \in 1 .. N
    BY <2>10, <1>3
  <2> QED BY <2>7, <2>11, <1>1 DEF U
<1> QED BY <1>2, <1>3

-----------------------------------------------------------------------------
(* What a search finds.                                                    *)

\* The lines that have the query in them.
HitLines(text, query) ==
    {n \in DOMAIN Lines(text) : includes(Lines(text)[n], query)}

\* They are numbers of lines.
LEMMA HitLinesBounded ==
  ASSUME NEW C, NEW text \in Seq(C), NEW query
  PROVE  \E N \in Nat : HitLines(text, query) \in SUBSET (1 .. N)
<1>1. Cardinality(Breaks(text)) + 1 \in Nat
  BY BreaksFinite
<1>2. DOMAIN Lines(text) = 1 .. Cardinality(Breaks(text)) + 1
  BY DEF Lines
<1> QED BY <1>1, <1>2 DEF HitLines

\* They are the lines of the positions at which the query is.
LEMMA HitLinesAreHits ==
  ASSUME NEW C, NEW text \in Seq(C), NEW query \in Seq(C),
         Range(query) \cap {CR, LF} = {}
  PROVE  HitLines(text, query) = {LineOf(text, i) : i \in Hits(text, query)}
<1> DEFINE last == Cardinality(Breaks(text)) + 1
<1>1. DOMAIN Lines(text) = 1 .. last
  BY DEF Lines
<1>2. ASSUME NEW i \in Hits(text, query) PROVE LineOf(text, i) \in 1 .. last
  <2>1. Len(text) \in Nat /\ Len(query) \in Nat
    BY LenProperties
  <2>2. i \in 1 .. Len(text) - Len(query) + 1
    BY HitAt
  <2>3. i \in 1 .. Len(text) + 1
    BY <2>1, <2>2
  <2> QED BY <2>3, LineSpan
<1>3. \A n \in 1 .. last : includes(Lines(text)[n], query)
                             <=> \E i \in Hits(text, query) : LineOf(text, i) = n
  BY LineHasHit
<1> HIDE DEF last
<1> QED BY <1>1, <1>2, <1>3 DEF HitLines

\* The matches of a document, one for each of these lines.
LEMMA MatchesOf ==
  ASSUME NEW C, NEW document, document.text \in Seq(C), NEW query
  PROVE  Matches(document, query) =
            [n \in 1 .. Cardinality(HitLines(document.text, query)) |->
               [path |-> document.path,
                line |-> Ascending(HitLines(document.text, query))[n],
                text |-> trim(Lines(document.text)
                                [Ascending(HitLines(document.text, query))[n]])]]
<1> DEFINE lines == Lines(document.text)
           all == [n \in DOMAIN lines |-> [path |-> document.path, line |-> n,
                                             text |-> trim(lines[n])]]
           K == HitLines(document.text, query)
           at == Ascending({i \in DOMAIN all : includes(lines[all[i].line], query)})
<1>1. Matches(document, query) = [n \in DOMAIN at |-> all[at[n]]]
  BY DEF Matches, Select
<1>2. {i \in DOMAIN all : includes(lines[all[i].line], query)} = K
  BY DEF HitLines
<1>3. DOMAIN at = 1 .. Cardinality(K) /\ at = Ascending(K)
  <2>1. at = Ascending(K)
    BY <1>2
  <2> QED BY <2>1 DEF Ascending
<1>4. \A n \in 1 .. Cardinality(K) : Ascending(K)[n] \in K
  BY HitLinesBounded, Positions
<1>5. \A n \in K : all[n] = [path |-> document.path, line |-> n,
                              text |-> trim(lines[n])]
  BY DEF HitLines
<1> HIDE DEF K, all, at, lines
<1>6. Matches(document, query) =
          [n \in 1 .. Cardinality(K) |->
             [path |-> document.path, line |-> Ascending(K)[n],
              text |-> trim(lines[Ascending(K)[n]])]]
  BY <1>1, <1>3, <1>4, <1>5
<1> QED BY <1>6 DEF K, lines

\* The index of the parser worker has the same lines.
LEMMA IndexOf ==
  ASSUME NEW C, NEW text \in Seq(C), NEW query \in Seq(C)
  PROVE  LET index == runParserTask("index", [text |-> text, query |-> query]).lines
         IN  [n \in DOMAIN index |-> index[n].line] = Ascending(HitLines(text, query))
<1> DEFINE lines == Lines(text)
           numbered == [n \in DOMAIN lines |-> [line |-> n, text |-> lines[n]]]
           K == HitLines(text, query)
           index == runParserTask("index", [text |-> text, query |-> query]).lines
           at == Ascending({i \in DOMAIN numbered : includes(numbered[i].text, query)})
<1>1. index = Select(numbered, LAMBDA entry : includes(entry.text, query))
  BY DEF runParserTask, Arg
<1>2. index = [n \in DOMAIN at |-> numbered[at[n]]]
  BY <1>1 DEF Select
<1>3. {i \in DOMAIN numbered : includes(numbered[i].text, query)} = K
  BY DEF HitLines
<1>4. at = Ascending(K) /\ DOMAIN at = 1 .. Cardinality(K)
  <2>1. at = Ascending(K)
    BY <1>3
  <2> QED BY <2>1 DEF Ascending
<1>5. \A n \in 1 .. Cardinality(K) : Ascending(K)[n] \in K
  BY HitLinesBounded, Positions
<1>6. \A n \in K : numbered[n].line = n
  BY DEF HitLines
<1>7. Ascending(K) = [n \in 1 .. Cardinality(K) |-> Ascending(K)[n]]
  <2>1. Ascending(K) \in [1 .. Cardinality(K) -> K]
    BY HitLinesBounded, Positions
  <2> HIDE DEF K
  <2> QED BY <2>1
<1> HIDE DEF index, K, numbered, at, lines
<1>8. [n \in DOMAIN index |-> index[n].line] = Ascending(K)
  <2>1. DOMAIN index = 1 .. Cardinality(K)
    BY <1>2, <1>4
  <2>2. \A n \in 1 .. Cardinality(K) : index[n].line = Ascending(K)[n]
    BY <1>2, <1>4, <1>5, <1>6
  <2> QED BY <2>1, <2>2, <1>7
<1> QED BY <1>8 DEF index, K

\* The matches of a document promise what a search does.
LEMMA MatchesFit ==
  ASSUME NEW C, NEW document, document.text \in Seq(C), NEW query \in Seq(C),
         Range(query) \cap {CR, LF} = {}
  PROVE  MatchesAreHits(Matches(document, query), document, query)
<1> DEFINE text == document.text
           K == HitLines(text, query)
           matches == Matches(document, query)
           hits == {LineOf(text, i) : i \in Hits(text, query)}
<1>1. K = hits
  BY HitLinesAreHits
<1>2. /\ Ascending(K) \in [1 .. Cardinality(K) -> K]
      /\ \A m, n \in 1 .. Cardinality(K) :
            m < n => Ascending(K)[m] < Ascending(K)[n]
      /\ \A x \in K : \E n \in 1 .. Cardinality(K) : Ascending(K)[n] = x
  <2>1. PICK N \in Nat : K \in SUBSET (1 .. N)
    BY HitLinesBounded
  <2> HIDE DEF K
  <2> QED BY <2>1, Positions
<1>3. /\ DOMAIN matches = 1 .. Cardinality(K)
      /\ \A n \in 1 .. Cardinality(K) :
            /\ matches[n].path = document.path
            /\ matches[n].line = Ascending(K)[n]
            /\ matches[n].text = trim(Lines(text)[Ascending(K)[n]])
  <2>1. matches = [n \in 1 .. Cardinality(K) |->
                     [path |-> document.path, line |-> Ascending(K)[n],
                      text |-> trim(Lines(text)[Ascending(K)[n]])]]
    BY MatchesOf
  <2> HIDE DEF matches, K, text
  <2> QED BY <2>1
<1>4. ASSUME NEW n \in K
      PROVE  /\ includes(trim(Lines(text)[n]), trim(query))
             /\ LF \notin Range(trim(Lines(text)[n]))
  <2>1. n \in 1 .. Cardinality(Breaks(text)) + 1 /\ includes(Lines(text)[n], query)
    BY DEF HitLines, Lines
  <2>2. Lines(text)[n] \in Seq(C)
    BY <2>1, LineText
  <2>3. \A i \in 1 .. Len(Lines(text)[n]) : Lines(text)[n][i] # LF
    <3> DEFINE begin == LineBegin(text, n)
               end == LineEnd(text, n)
    <3>1. /\ begin \in 1 .. Len(text) + 1 /\ end \in begin - 1 .. Len(text)
          /\ \A i \in begin .. end : text[i] # LF
      BY <2>1, LineBounds
    <3>2. /\ Len(Lines(text)[n]) = end - begin + 1
          /\ \A i \in 1 .. end - begin + 1 : Lines(text)[n][i] = text[begin + i - 1]
      BY <2>1, LineText
    <3>3. Len(text) \in Nat
      BY LenProperties
    <3> HIDE DEF begin, end, text
    <3>4. \A i \in 1 .. end - begin + 1 : begin + i - 1 \in begin .. end
      BY <3>1, <3>3
    <3> QED BY <3>1, <3>2, <3>4
  <2> HIDE DEF text
  <2> QED BY <2>1, <2>2, <2>3, TrimKeepsWords, TrimNoBreaks
<1> HIDE DEF K, matches, text
<1>5. {matches[n].line : n \in DOMAIN matches} = K
  BY <1>2, <1>3
<1>6. \A m, n \in DOMAIN matches : m < n => matches[m].line < matches[n].line
  BY <1>2, <1>3
<1>7. \A n \in DOMAIN matches :
          /\ matches[n].path = document.path
          /\ includes(matches[n].text, trim(query))
          /\ LF \notin Range(matches[n].text)
  BY <1>2, <1>3, <1>4
<1> HIDE DEF hits
<1>8. /\ {matches[n].line : n \in DOMAIN matches} = hits
      /\ \A m, n \in DOMAIN matches : m < n => matches[m].line < matches[n].line
  BY <1>1, <1>5, <1>6
<1> QED BY <1>7, <1>8 DEF MatchesAreHits, matches, hits, text

\* Documents with a text each, and all that is found in them.
Texted(documents, N) ==
    /\ N \in Nat /\ DOMAIN documents = 1 .. N
    /\ \A d \in 1 .. N : documents[d].text \in Seq(Chars)

Found(documents, query) ==
    FlattenSeq([d \in DOMAIN documents |-> Matches(documents[d], query)])

\* Of all that was found, the matches under a path are those of its document.
LEMMA FoundUnderPath ==
  ASSUME NEW N, NEW documents, Texted(documents, N),
         NEW query, Searchable(query, documents), NEW D \in 1 .. N
  PROVE  Under(documents[D].path, Found(documents, query))
            = Matches(documents[D], query)
<1> DEFINE C == Chars
<1>0. /\ N \in Nat /\ DOMAIN documents = 1 .. N
      /\ \A d \in 1 .. N : documents[d].text \in Seq(C)
      /\ \A d, e \in 1 .. N : documents[d].path = documents[e].path => d = e
  BY DEF Texted, Searchable
<1> HIDE DEF C
<1> DEFINE ss == [d \in 1 .. N |-> Matches(documents[d], query)]
           size(d) == Cardinality(HitLines(documents[d].text, query))
           R == UNION {{ss[d][i] : i \in 1 .. size(d)} : d \in 1 .. N}
           f == FlattenSeq(ss)
<1>1. ASSUME NEW d \in 1 .. N
      PROVE  /\ size(d) \in Nat
             /\ ss[d] = [i \in 1 .. size(d) |-> ss[d][i]]
             /\ ss[d] \in Seq(R) /\ Len(ss[d]) = size(d)
             /\ \A i \in 1 .. size(d) : ss[d][i].path = documents[d].path
  <2> DEFINE K == HitLines(documents[d].text, query)
  <2>1. size(d) \in Nat
    BY <1>0, HitLinesBounded, Positions
  <2>2. ss[d] = [i \in 1 .. size(d) |->
                   [path |-> documents[d].path, line |-> Ascending(K)[i],
                    text |-> trim(Lines(documents[d].text)[Ascending(K)[i]])]]
    <3>1. ss[d] = Matches(documents[d], query)
      OBVIOUS
    <3> HIDE DEF ss
    <3>2. PICK doc : doc = documents[d]
      OBVIOUS
    <3>3. doc.text \in Seq(C)
      BY <3>2, <1>0
    <3>4. Matches(doc, query) =
            [i \in 1 .. Cardinality(HitLines(doc.text, query)) |->
               [path |-> doc.path, line |-> Ascending(HitLines(doc.text, query))[i],
                text |-> trim(Lines(doc.text)
                                [Ascending(HitLines(doc.text, query))[i]])]]
      BY <3>3, MatchesOf
    <3> QED BY <3>1, <3>2, <3>4
  <2> HIDE DEF ss, size
  <2>3. ss[d] = [i \in 1 .. size(d) |-> ss[d][i]]
    BY <2>2
  <2>4. ASSUME NEW i \in 1 .. size(d) PROVE ss[d][i] \in R
    <3>1. {ss[d][j] : j \in 1 .. size(d)}
            \in {{ss[e][j] : j \in 1 .. size(e)} : e \in 1 .. N}
      OBVIOUS
    <3>2. ss[d][i] \in {ss[d][j] : j \in 1 .. size(d)}
      OBVIOUS
    <3> QED BY <3>1, <3>2
  <2> HIDE DEF R
  <2>5. ss[d] \in [1 .. size(d) -> R]
    BY <2>3, <2>4
  <2>6. ss[d] \in Seq(R) /\ Len(ss[d]) = size(d)
    BY <2>1, <2>5, SeqDef, LenProperties
  <2> QED BY <2>1, <2>2, <2>3, <2>6
<1> HIDE DEF size, R
<1>2. ss \in [1 .. N -> Seq(R)]
  BY <1>1
<1> HIDE DEF ss
<1>3. f \in Seq(R) /\ Joins(f, ss, N)
  BY <1>0, <1>2, FlattenJoins
<1>4. Len(f) \in Nat /\ DOMAIN f = 1 .. Len(f)
  BY <1>3, LenProperties
<1> HIDE DEF f
<1>5. PICK off \in [1 .. N -> Nat] :
        /\ \A d \in 1 .. N : \A i \in 1 .. Len(ss[d]) :
              off[d] + i \in 1 .. Len(f) /\ f[off[d] + i] = ss[d][i]
        /\ \A k \in 1 .. Len(f) : \E d \in 1 .. N : \E i \in 1 .. Len(ss[d]) :
              k = off[d] + i
  BY <1>3 DEF Joins
<1> DEFINE P == {k \in DOMAIN f : f[k].path = documents[D].path}
           place == [i \in 1 .. size(D) |-> off[D] + i]
<1>6. P = {place[i] : i \in 1 .. size(D)}
  <2>1. ASSUME NEW k \in P PROVE \E i \in 1 .. size(D) : k = place[i]
    <3>1. PICK d \in 1 .. N : \E i \in 1 .. Len(ss[d]) : k = off[d] + i
      BY <1>4, <1>5
    <3>2. PICK i \in 1 .. Len(ss[d]) : k = off[d] + i
      BY <3>1
    <3>3. f[k] = ss[d][i]
      BY <3>2, <1>5
    <3>4. ss[d][i].path = documents[d].path
      BY <1>1
    <3>5. d = D
      BY <3>3, <3>4, <1>0
    <3> QED BY <3>2, <3>5, <1>1
  <2>2. ASSUME NEW i \in 1 .. size(D) PROVE place[i] \in P
    <3>1. off[D] + i \in 1 .. Len(f) /\ f[off[D] + i] = ss[D][i]
      BY <1>1, <1>5
    <3>2. ss[D][i].path = documents[D].path
      BY <1>1
    <3> QED BY <3>1, <3>2, <1>4
  <2> HIDE DEF P, place
  <2> QED BY <2>1, <2>2
<1>7. Ascending(P) = place
  <2>1. size(D) \in Nat
    BY <1>1
  <2>2. off[D] \in Nat
    OBVIOUS
  <2>3. place \in [1 .. size(D) -> Int]
    BY <2>1, <2>2
  <2>4. \A m, n \in 1 .. size(D) : m < n => place[m] < place[n]
    BY <2>1, <2>2
  <2> HIDE DEF P, place
  <2> QED BY <2>1, <2>3, <2>4, <1>6, AscendingUnique
<1>8. Under(documents[D].path, f)
        = [n \in DOMAIN Ascending(P) |-> f[Ascending(P)[n]]]
  BY DEF Under, Select
<1>9. DOMAIN place = 1 .. size(D) /\ \A n \in 1 .. size(D) : f[place[n]] = ss[D][n]
  BY <1>1, <1>5
<1> HIDE DEF P, place
<1>10. [n \in DOMAIN Ascending(P) |-> f[Ascending(P)[n]]] = ss[D]
  BY <1>1, <1>7, <1>9
<1>11. Under(documents[D].path, f) = ss[D]
  BY <1>8, <1>10
<1>12. f = Found(documents, query) /\ ss[D] = Matches(documents[D], query)
  BY <1>0 DEF f, ss, Found
<1> QED BY <1>11, <1>12

\* What normalizeDocuments keeps of an array with texts in its documents.
LEMMA DocumentsKept ==
  ASSUME NEW input, input # None => /\ input \in Seq(Range(input))
                                    /\ \A d \in Range(input) :
                                          d = None \/ d.text \in Seq(Chars)
  PROVE  \E N : Texted(normalizeDocuments(input), N)
<1>1. CASE input = None
  <2>1. normalizeDocuments(input) = <<>>
    BY <1>1 DEF normalizeDocuments
  <2>2. DOMAIN normalizeDocuments(input) = 1 .. 0 /\ 1 .. 0 = {}
    BY <2>1
  <2> QED BY <2>2 DEF Texted
<1>2. CASE input # None
  <2> DEFINE K == {i \in DOMAIN input : input[i] # None}
  <2>1. normalizeDocuments(input) = [n \in DOMAIN Ascending(K) |-> input[Ascending(K)[n]]]
    BY <1>2 DEF normalizeDocuments, Select
  <2>2. Len(input) \in Nat /\ DOMAIN input = 1 .. Len(input)
    BY <1>2, LenProperties
  <2>3. K \in SUBSET (1 .. Len(input))
    BY <2>2
  <2>4. \A i \in K : input[i].text \in Seq(Chars)
    BY <1>2 DEF Range
  <2> HIDE DEF K
  <2>5. /\ Cardinality(K) \in Nat /\ DOMAIN Ascending(K) = 1 .. Cardinality(K)
        /\ \A n \in 1 .. Cardinality(K) : Ascending(K)[n] \in K
    BY <2>2, <2>3, Positions
  <2>6. Texted(normalizeDocuments(input), Cardinality(K))
    BY <2>1, <2>4, <2>5 DEF Texted
  <2> QED BY <2>6
<1> QED BY <1>1, <1>2

\* The way the property looks at what was found.
LEMMA FoundIsComplete ==
  ASSUME NEW N, NEW documents, Texted(documents, N),
         NEW query \in Seq(Chars), Searchable(query, documents),
         NEW d \in Range(documents)
  PROVE  LET of == Under(d.path, Found(documents, query))
             index == runParserTask("index", [text |-> d.text, query |-> query]).lines
         IN  /\ MatchesAreHits(of, d, query)
             /\ [n \in DOMAIN index |-> index[n].line] = [n \in DOMAIN of |-> of[n].line]
<1> DEFINE of == Under(d.path, Found(documents, query))
           K == HitLines(d.text, query)
           index == runParserTask("index", [text |-> d.text, query |-> query]).lines
<1>1. PICK D \in 1 .. N : documents[D] = d
  BY DEF Range, Texted
<1>2. d.text \in Seq(Chars)
  BY <1>1 DEF Texted
<1>3. Range(query) \cap {CR, LF} = {}
  BY DEF Searchable
<1>5. Under(documents[D].path, Found(documents, query)) = Matches(documents[D], query)
  BY FoundUnderPath
<1>6. of = Matches(d, query)
  BY <1>1, <1>5
<1>7. MatchesAreHits(Matches(d, query), d, query)
  BY <1>2, <1>3, MatchesFit
<1>8. [n \in DOMAIN index |-> index[n].line] = Ascending(K)
  BY <1>2, IndexOf
<1>9. Matches(d, query) = [n \in 1 .. Cardinality(K) |->
         [path |-> d.path, line |-> Ascending(K)[n],
          text |-> trim(Lines(d.text)[Ascending(K)[n]])]]
  BY <1>2, MatchesOf
<1>10. Ascending(K) = [n \in 1 .. Cardinality(K) |-> Ascending(K)[n]]
  <2>1. PICK L \in Nat : K \in SUBSET (1 .. L)
    BY <1>2, HitLinesBounded
  <2> HIDE DEF K
  <2>2. Ascending(K) \in [1 .. Cardinality(K) -> K]
    BY <2>1, Positions
  <2> QED BY <2>2
<1> HIDE DEF of, K, index
<1>11. [n \in DOMAIN of |-> of[n].line] = Ascending(K)
  BY <1>6, <1>9, <1>10
<1>12. /\ MatchesAreHits(of, d, query)
       /\ [n \in DOMAIN index |-> index[n].line] = [n \in DOMAIN of |-> of[n].line]
  BY <1>6, <1>7, <1>8, <1>11
<1> QED BY <1>12 DEF of, index

\* A job of a search came with a query and documents that are texts.
LEMMA SearchHasTexts ==
  ASSUME call \in ClientCalls \/ call \in ModelCalls,
         Posted, job.worker = "wasm"
  PROVE  LET input == Arg(job.args, "documents", None) IN
         /\ Arg(job.args, "query", TODO) \in Seq(Chars)
         /\ input # None => /\ input \in Seq(Range(input))
                            /\ \A d \in Range(input) :
                                  d = None \/ d.text \in Seq(Chars)
<1>1. job.args = call.args /\ call.tool = "wasm.run_task"
  BY DEF Posted
<1>2. CASE call \in ClientCalls
  <2>1. PICK asked \in Asked : call.args = asked.args
    BY <1>2 DEF ClientCalls
  <2> QED BY <1>1, <2>1, AskedAssumption
<1>3. CASE call \in ModelCalls
  <2>1. call.args = [task |-> "grep", timeout_ms |-> 5000,
                     args |-> [root |-> "/project", query |-> TODO]]
    BY <1>1, <1>3, ModelCallKnown
  <2>2. /\ Arg(job.args, "query", TODO) = TODO
        /\ Arg(job.args, "documents", None) = None
    BY <1>1, <2>1 DEF Arg
  <2> QED BY <2>2, AskedAssumption
<1> QED BY <1>2, <1>3

\* Safety: a search finds every line with the query in every document it was
\* given, numbered as an editor does and in order, and the index of the parser
\* worker has the same lines.
THEOREM SearchesFindEveryLine == Spec => []GrepFindsEveryLine
<1>1. PathInv => GrepFindsEveryLine
  <2> SUFFICES ASSUME PathInv, result # None, result.ok, job # None,
                      job.task = "grep"
               PROVE  GrepFindsEveryLine
    BY DEF GrepFindsEveryLine
  <2>1. Served /\ (call \in ClientCalls \/ call \in ModelCalls)
    BY DEF PathInv, Unposted, Aside, Planned
  <2>2. response.ok /\ result.output = response.output
    BY <2>1 DEF Served, ok, failed
  <2>3. job.worker = "wasm" /\ result.output = grepDocuments(job.args)
    BY <2>1, <2>2 DEF Served, Posted, Ran, ok, runTask
  <2> DEFINE input == Arg(job.args, "documents", None)
             query == Arg(job.args, "query", TODO)
             documents == normalizeDocuments(input)
             found == result.output
  <2>4. /\ found.query = query
        /\ found.matches = Found(documents, query)
        /\ found.summary = Len(found.matches)
    BY <2>3 DEF grepDocuments, Found
  <2>5. /\ query \in Seq(Chars)
        /\ input # None => /\ input \in Seq(Range(input))
                           /\ \A d \in Range(input) :
                                 d = None \/ d.text \in Seq(Chars)
    BY <2>1, <2>3, SearchHasTexts DEF Served
  <2>6. PICK N : Texted(documents, N)
    BY <2>5, DocumentsKept
  <2> DEFINE of(d) == Under(d.path, found.matches)
             index(d) == runParserTask("index",
                                 [text |-> d.text, query |-> found.query]).lines
  <2>7. ASSUME Searchable(found.query, documents), NEW d \in Range(documents)
        PROVE  /\ MatchesAreHits(of(d), d, found.query)
               /\ [n \in DOMAIN index(d) |-> index(d)[n].line]
                     = [n \in DOMAIN of(d) |-> of(d)[n].line]
    <3> HIDE DEF documents, query, found
    <3> QED BY <2>4, <2>5, <2>6, <2>7, FoundIsComplete
  <2> QED BY <2>4, <2>7 DEF GrepFindsEveryLine
<1> QED BY <1>1, PathInvariant, PTL
=============================================================================
