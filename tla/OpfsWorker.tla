------------------------------ MODULE OpfsWorker ------------------------------
(***************************************************************************)
(* Tasks on the origin-private file system (workers/opfs.worker.ts), each  *)
(* in a worker of its own that runWorkerTask starts, and that its timer or *)
(* the end of the page may terminate between any two awaits.               *)
(*                                                                         *)
(* All workers of all pages of the origin share one tree, which outlives   *)
(* them.  Every await is one action.  A path is the sequence of segments   *)
(* that splitPath yields, a text is the request that wrote it.             *)
(*                                                                         *)
(* The file system is external.  A file that is created is empty; a text   *)
(* written to a FileSystemWritableFileStream replaces the file as a whole  *)
(* when the stream is closed.  The commit of a close takes place outside   *)
(* of the worker and may come after the worker was terminated; any other   *)
(* step of a worker that is terminated was taken before or is not.         *)
(***************************************************************************)
EXTENDS Naturals, Sequences, FiniteSets

CONSTANTS
    Requests,       \* calls of runWorkerTask
    Task,           \* Task[r]: "list_dir", "read_text" or "write_text"
    Path,           \* Path[r]: the segments of args.path
    Limit,          \* Limit[r]: args.limit
    Names, MaxDepth,            \* bounds of the tree
    OldTrees,       \* what earlier pages may have left
    Absent, Dir, Empty, None

Nodes == UNION {[1 .. n -> Names] : n \in 1 .. MaxDepth}
Contents == Requests \cup {Empty}

ASSUME OpfsAssumption ==
    /\ Task \in [Requests -> {"list_dir", "read_text", "write_text"}]
    /\ Path \in [Requests -> Nodes \cup {<<>>}]
    /\ Limit \in [Requests -> Nat]
    /\ MaxDepth \in Nat
    /\ OldTrees \subseteq [Nodes -> {Absent, Dir, Empty}]
    /\ Absent \notin Contents /\ Dir \notin Contents /\ Empty \notin Requests
    /\ Absent # Dir
    /\ None # "ok"

VARIABLES
    entry,          \* entry[p]: what is at path p
    pc,             \* pc[r]: what the worker of r awaits
    depth,          \* depth[r]: how many segments are resolved
    found,          \* found[r]: names listed so far, or the content read
    present,        \* present[r]: the names there when the listing began
    closes,         \* streams whose close is to be committed
    response,       \* response[r]: what runWorkerTask resolved with
    before          \* before[r]: requests that were over when r began (history)

worker == <<pc, depth, found, present>>
page == <<response, before>>
vars == <<entry, worker, closes, page>>

Init ==
    /\ entry \in OldTrees
    /\ pc = [r \in Requests |-> "idle"]
    /\ depth = [r \in Requests |-> 0]
    /\ found = [r \in Requests |-> {}]
    /\ present = [r \in Requests |-> {}]
    /\ closes = {}
    /\ response = [r \in Requests |-> None]
    /\ before = [r \in Requests |-> {}]

Goto(r, place) == pc' = [pc EXCEPT ![r] = place]

\* The worker posts the error that a rejected await raised.
Fail(r) == Goto(r, "failed")

Running == {r \in Requests : pc[r] \notin {"idle", "over"}}

\* Requests that are answered, or whose page is gone, without a close under way.
Over == {r \in Requests \ closes : response[r] # None \/ pc[r] = "over"}

\* The segments that are directories: all of them for a listing, all but the
\* file name otherwise.
Folders(r) == IF Task[r] = "list_dir" THEN Len(Path[r]) ELSE Len(Path[r]) - 1

Prefix(r, n) == SubSeq(Path[r], 1, n)

\* The names in the directory that r lists.
Children(r) ==
    {name \in Names : Append(Path[r], name) \in Nodes
                        /\ entry[Append(Path[r], name)] # Absent}

-----------------------------------------------------------------------------
(* runWorkerTask starts a worker.                                          *)

\* getDirectory may be missing or reject; resolveFile throws when the path has
\* no file name.
Start(r) ==
    /\ pc[r] = "idle"
    /\ before' = [before EXCEPT ![r] = Over]
    /\ \/ Fail(r)
       \/ /\ Task[r] = "list_dir" \/ Path[r] # <<>>
          /\ Goto(r, "resolve")
    /\ UNCHANGED <<entry, depth, found, present, closes, response>>

-----------------------------------------------------------------------------
(* resolveDirectory and resolveFile.                                       *)

\* getDirectoryHandle(segment, {create: true}), for tasks that only read too.
ResolveDirectory(r) ==
    LET p == Prefix(r, depth[r] + 1) IN
    /\ pc[r] = "resolve"
    /\ depth[r] < Folders(r)
    /\ entry[p] \in {Absent, Dir}
    /\ entry' = [entry EXCEPT ![p] = Dir]
    /\ depth' = [depth EXCEPT ![r] = @ + 1]
    /\ UNCHANGED <<pc, found, present, closes, page>>

\* A file is in the way.
NotADirectory(r) ==
    /\ pc[r] = "resolve"
    /\ depth[r] < Folders(r)
    /\ entry[Prefix(r, depth[r] + 1)] \notin {Absent, Dir}
    /\ Fail(r)
    /\ UNCHANGED <<entry, depth, found, present, closes, page>>

Resolved(r) == pc[r] = "resolve" /\ depth[r] = Folders(r)

\* getFileHandle(fileName, {create}), create for write_text.
FileHandle(r) ==
    /\ Resolved(r)
    /\ Task[r] # "list_dir"
    /\ entry[Path[r]] # Dir
    /\ Task[r] = "write_text" \/ entry[Path[r]] # Absent
    /\ entry' = [entry EXCEPT ![Path[r]] = IF @ = Absent THEN Empty ELSE @]
    /\ Goto(r, "handle")
    /\ UNCHANGED <<depth, found, present, closes, page>>

\* A directory is there, or nothing and the task only reads.
NoFileHandle(r) ==
    /\ Resolved(r)
    /\ \/ Task[r] # "list_dir" /\ entry[Path[r]] = Dir
       \/ Task[r] = "read_text" /\ entry[Path[r]] = Absent
    /\ Fail(r)
    /\ UNCHANGED <<entry, depth, found, present, closes, page>>

-----------------------------------------------------------------------------
(* listDirectory.  An entry created meanwhile may be listed or not.        *)

ListBegin(r) ==
    /\ Resolved(r)
    /\ Task[r] = "list_dir"
    /\ Goto(r, "list")
    /\ present' = [present EXCEPT ![r] = Children(r)]
    /\ UNCHANGED <<entry, depth, found, closes, page>>

ListNext(r) ==
    /\ pc[r] = "list"
    /\ \E name \in Children(r) \ found[r] :
          found' = [found EXCEPT ![r] = @ \cup {name}]
    /\ Goto(r, IF Cardinality(found'[r]) >= Limit[r] THEN "done" ELSE "list")
    /\ UNCHANGED <<entry, depth, present, closes, page>>

ListEnd(r) ==
    /\ pc[r] = "list"
    /\ present[r] \subseteq found[r]
    /\ Goto(r, "done")
    /\ UNCHANGED <<entry, depth, found, present, closes, page>>

\* Mutant of truncated: true only for what exceeds the limit.
TruncatedBeyond(r) == Cardinality(found[r]) > Limit[r]

truncated(r) == Cardinality(found[r]) >= Limit[r]

-----------------------------------------------------------------------------
(* readTextFile.                                                           *)

\* getFile takes a snapshot of the file ...
GetFile(r) ==
    /\ pc[r] = "handle"
    /\ Task[r] = "read_text"
    /\ found' = [found EXCEPT ![r] = entry[Path[r]]]
    /\ Goto(r, "text")
    /\ UNCHANGED <<entry, depth, present, closes, page>>

\* ... which text() reads ...
ReadText(r) ==
    /\ pc[r] = "text"
    /\ Goto(r, "done")
    /\ UNCHANGED <<entry, depth, found, present, closes, page>>

\* ... unless the file has changed.
ReadFails(r) ==
    /\ pc[r] = "text"
    /\ entry[Path[r]] # found[r]
    /\ Fail(r)
    /\ UNCHANGED <<entry, depth, found, present, closes, page>>

-----------------------------------------------------------------------------
(* writeTextFile.                                                          *)

\* Mutant of CreateWritable: the file is emptied and written in place.
CreateWritableInPlace(r) ==
    /\ pc[r] = "handle"
    /\ Task[r] = "write_text"
    /\ entry' = [entry EXCEPT ![Path[r]] = Empty]
    /\ Goto(r, "writable")
    /\ UNCHANGED <<depth, found, present, closes, page>>

\* createWritable and write do not touch the file.
CreateWritable(r) ==
    /\ pc[r] = "handle"
    /\ Task[r] = "write_text"
    /\ Goto(r, "writable")
    /\ UNCHANGED <<entry, depth, found, present, closes, page>>

Write(r) ==
    /\ pc[r] = "writable"
    /\ Goto(r, "written")
    /\ UNCHANGED <<entry, depth, found, present, closes, page>>

\* close is called ...
Close(r) ==
    /\ pc[r] = "written"
    /\ closes' = closes \cup {r}
    /\ Goto(r, "closing")
    /\ UNCHANGED <<entry, depth, found, present, page>>

\* ... and committed, whether the worker is still there or not.
Commit(r) ==
    /\ r \in closes
    /\ entry' = [entry EXCEPT ![Path[r]] = r]
    /\ closes' = closes \ {r}
    /\ pc' = [pc EXCEPT ![r] = IF @ = "closing" THEN "done" ELSE @]
    /\ UNCHANGED <<depth, found, present, page>>

\* The quota is exceeded, at any step of the stream.
WriteFails(r) ==
    /\ pc[r] \in {"writable", "written", "closing"}
    /\ closes' = closes \ {r}
    /\ Fail(r)
    /\ UNCHANGED <<entry, depth, found, present, page>>

-----------------------------------------------------------------------------
(* The end of the worker.                                                  *)

Resolve(r, outcome) == response' = [response EXCEPT ![r] = outcome]

\* Mutant of Message: the worker's own word for the outcome is passed on.
MessagePassesOn(r) ==
    /\ pc[r] \in {"done", "failed"}
    /\ Goto(r, "over")
    /\ Resolve(r, pc[r])
    /\ UNCHANGED <<entry, depth, found, present, closes, before>>

\* onmessage: the worker is terminated and what it posted is the response.
Message(r) ==
    /\ pc[r] \in {"done", "failed"}
    /\ Goto(r, "over")
    /\ Resolve(r, IF pc[r] = "done" THEN "ok" ELSE "OPFS_ERROR")
    /\ UNCHANGED <<entry, depth, found, present, closes, before>>

\* Mutant of Timer: the worker is not terminated.
TimerOnly(r) ==
    /\ r \in Running
    /\ response[r] = None
    /\ Resolve(r, "TIMEOUT")
    /\ UNCHANGED <<entry, worker, closes, before>>

\* The timer terminates the worker, whatever it awaits or has posted.
Timer(r) ==
    /\ r \in Running
    /\ Goto(r, "over")
    /\ Resolve(r, "TIMEOUT")
    /\ UNCHANGED <<entry, depth, found, present, closes, before>>

\* The page is closed or reloaded, and all its workers go with it.
PageCloses ==
    /\ Running # {}
    /\ pc' = [r \in Requests |-> IF r \in Running THEN "over" ELSE pc[r]]
    /\ UNCHANGED <<entry, depth, found, present, closes, page>>

-----------------------------------------------------------------------------

runOpfsTask(r) ==
    \/ Start(r)
    \/ ResolveDirectory(r) \/ NotADirectory(r)
    \/ FileHandle(r) \/ NoFileHandle(r)
    \/ ListBegin(r) \/ ListNext(r) \/ ListEnd(r)
    \/ GetFile(r) \/ ReadText(r) \/ ReadFails(r)
    \/ CreateWritable(r) \/ Write(r) \/ Close(r) \/ Commit(r) \/ WriteFails(r)
    \/ Message(r) \/ Timer(r)

Next ==
    \/ \E r \in Requests : runOpfsTask(r)
    \/ PageCloses

Spec == Init /\ [][Next]_vars

-----------------------------------------------------------------------------
(* Correctness.                                                            *)

Places == {"idle", "resolve", "handle", "list", "text", "writable", "written",
           "closing", "done", "failed", "over"}

\* Type invariant.
TypeOK ==
    /\ entry \in [Nodes -> Contents \cup {Absent, Dir}]
    /\ pc \in [Requests -> Places]
    /\ depth \in [Requests -> 0 .. MaxDepth]
    /\ \A r \in Requests : found[r] \in IF Task[r] = "read_text"
                                           THEN Contents \cup {{}}
                                           ELSE SUBSET Names
    /\ present \in [Requests -> SUBSET Names]
    /\ closes \subseteq Requests
    /\ response \in [Requests -> {None, "ok", "OPFS_ERROR", "TIMEOUT"}]
    /\ before \in [Requests -> SUBSET Requests]

Wrote(r) == Task[r] = "write_text" /\ response[r] = "ok"

\* A write that was acknowledged is not undone by an older one: the file
\* holds its text or that of a write which was not over when it began,
\* however many writes timed out before or were cut off by a reload.
NewerWriteStays ==
    \A r \in Requests : Wrote(r) =>
        /\ entry[Path[r]] \in Requests
        /\ entry[Path[r]] \notin before[r]

\* A read that succeeds sees every write that was acknowledged before it
\* began: not the empty file that a creation leaves for a moment, nor a text
\* that such a write replaced.
ReadIsCurrent ==
    \A r, w \in Requests :
        /\ Task[r] = "read_text" /\ response[r] = "ok"
        /\ w \in before[r] /\ Wrote(w) /\ Path[w] = Path[r]
        => found[r] \in Requests \ before[w]

\* A listing that is not marked as truncated is complete.  One that is may
\* be complete all the same, when it has exactly as many entries as allowed.
ListingComplete ==
    \A r \in Requests :
        Task[r] = "list_dir" /\ response[r] = "ok" /\ ~truncated(r)
            => present[r] \subseteq found[r]

\* A text that was written is replaced by another text and never lost, even
\* when the write that replaces it is terminated half way.
TextsStay ==
    [][\A p \in Nodes : entry[p] \in Requests => entry'[p] \in Requests]_vars

\* Once runWorkerTask has resolved or its page is gone, a request changes
\* nothing any more, but for a close that was under way by then.
SettledIsQuiet ==
    [][\A p \in Nodes : entry'[p] # entry[p] =>
          \E r \in Requests :
              /\ \/ response[r] = None /\ r \in Running
                 \/ r \in closes
              /\ \E n \in 1 .. Len(Path[r]) : p = Prefix(r, n)]_vars
=============================================================================
