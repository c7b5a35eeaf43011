--------------------------- MODULE OpfsWorkerProofs ---------------------------
(***************************************************************************)
(* Proofs about OpfsWorker, for any number of requests, any paths, any     *)
(* tree of any depth and any earlier contents.                             *)
(***************************************************************************)
EXTENDS OpfsWorker, TLAPS

Writes == {r \in Requests : Task[r] = "write_text"}

\* The part of the types that the invariant needs.
TreeInv ==
    /\ entry \in [Nodes -> Contents \cup {Absent, Dir}]
    /\ pc \in [Requests -> Places]
    /\ depth \in [Requests -> Nat]
    /\ response \in [Requests -> {None, "ok", "OPFS_ERROR", "TIMEOUT"}]
    /\ before \in [Requests -> SUBSET Requests]

\* Where a worker can be tells what its task is and that it has a file name,
\* and a response that it is over.
PlaceInv ==
    \A r \in Requests :
        /\ response[r] # None => pc[r] = "over"
        /\ pc[r] \in {"writable", "written", "closing"} => r \in Writes
        /\ pc[r] = "list" => Task[r] = "list_dir"
        /\ pc[r] = "text" => Task[r] = "read_text"
        /\ pc[r] \notin {"idle", "failed", "over"} /\ Task[r] # "list_dir"
             => Path[r] \in Nodes

\* A stream is closed by a worker that waits for it or is over.
CloseInv ==
    /\ \A r \in closes :
          /\ r \in Writes /\ Path[r] \in Nodes
          /\ pc[r] \in {"closing", "over"}
    /\ \A r \in Requests : pc[r] = "closing" => r \in closes

\* What was over when a request began stays over.
BeforeInv ==
    \A r \in Requests : \A q \in before[r] : pc[q] = "over" /\ q \notin closes

\* The text of r or of a newer write is in the file.
Landed(r) ==
    /\ Path[r] \in Nodes
    /\ entry[Path[r]] \in Requests \ before[r]

\* So it is from the commit on, before anybody is told.
LandedInv ==
    \A r \in Writes : pc[r] = "done" \/ response[r] = "ok" => Landed(r)

WriteInv == TreeInv /\ PlaceInv /\ CloseInv /\ BeforeInv /\ LandedInv

\* The invariant holds initially ...
LEMMA WriteInit == Init => WriteInv
  BY OpfsAssumption
  DEF Init, WriteInv, TreeInv, PlaceInv, CloseInv, BeforeInv, LandedInv, Writes,
      Contents, Places

\* ... and every step of a worker, of its timer and of its page preserves it.
LEMMA WriteStep == WriteInv /\ [Next]_vars => WriteInv'
<1> SUFFICES ASSUME WriteInv, [Next]_vars PROVE WriteInv'
  OBVIOUS
<1> USE OpfsAssumption
    DEF WriteInv, TreeInv, PlaceInv, CloseInv, BeforeInv, LandedInv, Landed,
        Writes, Contents, Goto, Places, page
<1>1. ASSUME NEW r \in Requests, Start(r) PROVE WriteInv'
  <2>1. TreeInv'
    BY <1>1 DEF Start, Fail, Over
  <2>2. PlaceInv'
    BY <1>1 DEF Start, Fail, Over
  <2>3. CloseInv'
    BY <1>1 DEF Start, Fail, Over
  <2>4. BeforeInv'
    BY <1>1 DEF Start, Fail, Over
  <2>5. LandedInv'
    BY <1>1 DEF Start, Fail, Over
  <2> QED
    BY <2>1, <2>2, <2>3, <2>4, <2>5
<1>2. ASSUME NEW r \in Requests, ResolveDirectory(r) PROVE WriteInv'
  <2>1. TreeInv'
    <3>1. entry' \in [Nodes -> Contents \cup {Absent, Dir}]
      BY <1>2 DEF ResolveDirectory
    <3>2. depth' \in [Requests -> Nat]
      BY <1>2 DEF ResolveDirectory
    <3> QED
      BY <1>2, <3>1, <3>2 DEF ResolveDirectory
  <2>2. PlaceInv'
    BY <1>2 DEF ResolveDirectory
  <2>3. CloseInv'
    BY <1>2 DEF ResolveDirectory
  <2>4. BeforeInv'
    BY <1>2 DEF ResolveDirectory
  <2>5. LandedInv'
    BY <1>2 DEF ResolveDirectory
  <2> QED
    BY <2>1, <2>2, <2>3, <2>4, <2>5
<1>3. ASSUME NEW r \in Requests, NotADirectory(r) PROVE WriteInv'
  BY <1>3 DEF NotADirectory, Fail
<1>4. ASSUME NEW r \in Requests, FileHandle(r) PROVE WriteInv'
  <2>1. TreeInv'
    BY <1>4 DEF FileHandle, Resolved
  <2>2. PlaceInv'
    BY <1>4 DEF FileHandle, Resolved
  <2>3. CloseInv'
    BY <1>4 DEF FileHandle, Resolved
  <2>4. BeforeInv'
    BY <1>4 DEF FileHandle, Resolved
  <2>5. LandedInv'
    BY <1>4 DEF FileHandle, Resolved
  <2> QED
    BY <2>1, <2>2, <2>3, <2>4, <2>5
<1>5. ASSUME NEW r \in Requests, NoFileHandle(r) PROVE WriteInv'
  <2>1. pc[r] = "resolve" /\ Fail(r) /\ UNCHANGED <<entry, depth, closes, page>>
    BY <1>5 DEF NoFileHandle, Resolved
  <2> QED
    BY <2>1 DEF Fail
<1>6. ASSUME NEW r \in Requests, ListBegin(r) PROVE WriteInv'
  BY <1>6 DEF ListBegin, Resolved
<1>7. ASSUME NEW r \in Requests, ListNext(r) PROVE WriteInv'
  BY <1>7 DEF ListNext
<1>8. ASSUME NEW r \in Requests, ListEnd(r) PROVE WriteInv'
  BY <1>8 DEF ListEnd
<1>9. ASSUME NEW r \in Requests, GetFile(r) PROVE WriteInv'
  BY <1>9 DEF GetFile
<1>10. ASSUME NEW r \in Requests, ReadText(r) PROVE WriteInv'
  BY <1>10 DEF ReadText
<1>11. ASSUME NEW r \in Requests, ReadFails(r) PROVE WriteInv'
  BY <1>11 DEF ReadFails, Fail
<1>12. ASSUME NEW r \in Requests, CreateWritable(r) PROVE WriteInv'
  BY <1>12 DEF CreateWritable
<1>13. ASSUME NEW r \in Requests, Write(r) PROVE WriteInv'
  BY <1>13 DEF Write
<1>14. ASSUME NEW r \in Requests, Close(r) PROVE WriteInv'
  BY <1>14 DEF Close
<1>15. ASSUME NEW r \in Requests, Commit(r) PROVE WriteInv'
  BY <1>15 DEF Commit
<1>16. ASSUME NEW r \in Requests, WriteFails(r) PROVE WriteInv'
  BY <1>16 DEF WriteFails, Fail
<1>17. ASSUME NEW r \in Requests, Message(r) PROVE WriteInv'
  BY <1>17 DEF Message, Resolve
<1>18. ASSUME NEW r \in Requests, Timer(r) PROVE WriteInv'
  BY <1>18 DEF Timer, Resolve, Running
<1>19. CASE PageCloses
  BY <1>19 DEF PageCloses, Running
<1>20. CASE UNCHANGED vars
  BY <1>20 DEF vars, worker
<1> QED
  BY <1>1, <1>2, <1>3, <1>4, <1>5, <1>6, <1>7, <1>8, <1>9, <1>10, <1>11,
     <1>12, <1>13, <1>14, <1>15, <1>16, <1>17, <1>18, <1>19, <1>20
  DEF Next, runOpfsTask

\* An acknowledged write is never undone by one that was over when it began.
THEOREM AcknowledgedStays == Spec => []NewerWriteStays
<1>1. WriteInv => NewerWriteStays
  BY DEF WriteInv, LandedInv, Landed, Writes, NewerWriteStays, Wrote
<1> QED
  BY <1>1, WriteInit, WriteStep, PTL DEF Spec

\* A request that is over takes no step: nothing that is recorded of it
\* changes, but for its close.
LEMMA OverStays ==
    ASSUME WriteInv, [Next]_vars, NEW w \in Requests, pc[w] = "over"
    PROVE  /\ pc'[w] = "over" /\ response'[w] = response[w]
           /\ before'[w] = before[w]
  BY DEF WriteInv, TreeInv, Places, CloseInv,
      Next, runOpfsTask, vars, worker, page, Goto, Start, ResolveDirectory,
      NotADirectory, FileHandle, NoFileHandle, Resolved, ListBegin, ListNext,
      ListEnd, GetFile, ReadText, ReadFails, CreateWritable, Write, Close,
      Commit, WriteFails, Fail, Message, Timer, Resolve, PageCloses, Running

\* What was over when a request began is recorded once.
LEMMA BeforeKept ==
    ASSUME WriteInv, [Next]_vars, NEW r \in Requests, pc[r] # "idle"
    PROVE  before'[r] = before[r]
  BY DEF WriteInv, TreeInv, Next, runOpfsTask, vars, page, Start,
     ResolveDirectory, NotADirectory, FileHandle, NoFileHandle, ListBegin,
     ListNext, ListEnd, GetFile, ReadText, ReadFails, CreateWritable, Write,
     Close, Commit, WriteFails, Message, Timer, PageCloses

\* What a read holds, from the moment it has its file.
ReadInv ==
    /\ found = [r \in Requests |-> found[r]]
    /\ \A r, w \in Requests :
          /\ Task[r] = "read_text"
          /\ pc[r] \in {"text", "done"} \/ response[r] = "ok"
          /\ w \in before[r] /\ Wrote(w) /\ Path[w] = Path[r]
          => found[r] \in Requests \ before[w]

\* A read either is at getFile, or holds what it held.
LEMMA ReadHolds ==
    ASSUME WriteInv, ReadInv, [Next]_vars,
           NEW r \in Requests, Task[r] = "read_text",
           pc'[r] \in {"text", "done"} \/ response'[r] = "ok"
    PROVE  \/ GetFile(r)
           \/ /\ pc[r] \in {"text", "done"} \/ response[r] = "ok"
              /\ found'[r] = found[r]
  BY DEF WriteInv, TreeInv, PlaceInv, CloseInv, ReadInv, Places, Writes,
      Next, runOpfsTask, vars, worker, page, Goto, Start, ResolveDirectory,
      NotADirectory, FileHandle, NoFileHandle, Resolved, ListBegin, ListNext,
      ListEnd, GetFile, ReadText, ReadFails, CreateWritable, Write, Close,
      Commit, WriteFails, Fail, Message, Timer, Resolve, PageCloses, Running

\* An acknowledged write has landed, so a read that begins later finds it.
LEMMA ReadStep == WriteInv /\ ReadInv /\ [Next]_vars => ReadInv'
<1> SUFFICES ASSUME WriteInv, ReadInv, [Next]_vars PROVE ReadInv'
  OBVIOUS
<1>1. found' = [r \in Requests |-> found'[r]]
  BY DEF ReadInv, Next, runOpfsTask, vars, worker, Start, ResolveDirectory,
     NotADirectory, FileHandle, NoFileHandle, ListBegin, ListNext, ListEnd,
     GetFile, ReadText, ReadFails, CreateWritable, Write, Close, Commit,
     WriteFails, Message, Timer, PageCloses
<1>2. ASSUME NEW r \in Requests, NEW w \in Requests, Task[r] = "read_text",
             pc'[r] \in {"text", "done"} \/ response'[r] = "ok",
             w \in before'[r], Wrote(w)', Path[w] = Path[r]
      PROVE  found'[r] \in Requests \ before'[w]
  <2>1. before'[r] = before[r]
    <3>1. CASE GetFile(r)
      BY <3>1 DEF GetFile, page
    <3>2. CASE pc[r] = "over"
      BY <3>2, OverStays
    <3>3. CASE pc[r] \in {"text", "done"}
      BY <3>3, BeforeKept
    <3> QED
      BY <1>2, <3>1, <3>2, <3>3, ReadHolds, OpfsAssumption
      DEF WriteInv, PlaceInv
  <2>2. pc[w] = "over" /\ w \in before[r]
    BY <1>2, <2>1 DEF WriteInv, BeforeInv
  <2>3. before'[w] = before[w] /\ Wrote(w)
    BY <1>2, <2>2, OverStays DEF Wrote
  <2>4. CASE GetFile(r)
    <3>1. Landed(w)
      BY <2>3 DEF WriteInv, LandedInv, Writes, Wrote
    <3> QED
      BY <1>2, <2>3, <2>4, <3>1 DEF GetFile, Landed, ReadInv
  <2>5. CASE /\ pc[r] \in {"text", "done"} \/ response[r] = "ok"
             /\ found'[r] = found[r]
    BY <1>2, <2>2, <2>3, <2>5 DEF ReadInv
  <2> QED
    BY <1>2, <2>4, <2>5, ReadHolds
<1> QED
  BY <1>1, <1>2 DEF ReadInv

\* A read that succeeds sees what was acknowledged before it began.
THEOREM ReadsStayCurrent == Spec => []ReadIsCurrent
<1>1. Init => ReadInv
  BY OpfsAssumption DEF Init, ReadInv
<1>2. ReadInv => ReadIsCurrent
  BY DEF ReadInv, ReadIsCurrent
<1> QED
  BY <1>1, <1>2, WriteInit, WriteStep, ReadStep, PTL DEF Spec

\* The whole path is a prefix of itself.
LEMMA WholePath ==
    ASSUME NEW r \in Requests, Path[r] \in Nodes
    PROVE  /\ Len(Path[r]) \in Nat \ {0}
           /\ Path[r] = Prefix(r, Len(Path[r]))
<1>1. PICK n \in 1 .. MaxDepth : Path[r] \in [1 .. n -> Names]
  BY DEF Nodes
<1>2. n \in Nat \ {0} /\ Path[r] \in Seq(Names) /\ Len(Path[r]) = n
  BY <1>1, OpfsAssumption
<1> QED
  BY <1>2 DEF Prefix

\* A step changes one entry, on the path of a request that is under way.
LEMMA QuietStep ==
    ASSUME WriteInv, [Next]_vars, NEW p \in Nodes, entry'[p] # entry[p]
    PROVE  \E r \in Requests :
              /\ \/ response[r] = None /\ r \in Running
                 \/ r \in closes
              /\ \E n \in 1 .. Len(Path[r]) : p = Prefix(r, n)
<1>1. PICK r \in Requests :
          ResolveDirectory(r) \/ FileHandle(r) \/ Commit(r)
  BY DEF Next, runOpfsTask, vars, Start, NotADirectory, NoFileHandle,
     ListBegin, ListNext, ListEnd, GetFile, ReadText, ReadFails,
     CreateWritable, Write, Close, WriteFails, Message, Timer, PageCloses
<1>2. CASE ResolveDirectory(r)
  <2>1. p = Prefix(r, depth[r] + 1)
    BY <1>2 DEF ResolveDirectory, WriteInv, TreeInv
  <2>2. depth[r] + 1 \in 1 .. Len(Path[r])
    <3>1. Len(Path[r]) \in Nat
      BY WholePath, OpfsAssumption
    <3>2. depth[r] \in Nat /\ depth[r] < Len(Path[r])
      BY <1>2, <3>1 DEF ResolveDirectory, Folders, WriteInv, TreeInv
    <3> QED
      BY <3>1, <3>2
  <2>3. response[r] = None /\ r \in Running
    BY <1>2 DEF ResolveDirectory, Running, WriteInv, PlaceInv
  <2> QED
    BY <2>1, <2>2, <2>3
<1>3. CASE FileHandle(r)
  <2>1. p = Path[r] /\ Path[r] \in Nodes
    BY <1>3 DEF FileHandle, Resolved, WriteInv, TreeInv, PlaceInv
  <2>2. response[r] = None /\ r \in Running
    BY <1>3 DEF FileHandle, Resolved, Running, WriteInv, PlaceInv
  <2> QED
    BY <2>1, <2>2, WholePath
<1>4. CASE Commit(r)
  <2>1. p = Path[r] /\ r \in closes
    BY <1>4 DEF Commit, WriteInv, TreeInv
  <2> QED
    BY <2>1, WholePath
<1> QED
  BY <1>1, <1>2, <1>3, <1>4

\* A request that is answered, or whose page is gone, changes nothing but by
\* a close that was under way.
THEOREM SettledStaysQuiet == Spec => SettledIsQuiet
<1>1. WriteInv /\ [Next]_vars =>
         [\A p \in Nodes : entry'[p] # entry[p] =>
             \E r \in Requests :
                 /\ \/ response[r] = None /\ r \in Running
                    \/ r \in closes
                 /\ \E n \in 1 .. Len(Path[r]) : p = Prefix(r, n)]_vars
  BY QuietStep
<1> QED
  BY <1>1, WriteInit, WriteStep, PTL DEF Spec, SettledIsQuiet

-----------------------------------------------------------------------------
(* What becomes of files, and the types.                                   *)

\* An entry is replaced by a text, or no file was there.
LEMMA EntryStep ==
    ASSUME WriteInv, [Next]_vars, NEW p \in Nodes
    PROVE  \/ entry'[p] = entry[p]
           \/ entry'[p] \in Requests
           \/ entry[p] = Absent
<1>0. entry \in [Nodes -> Contents \cup {Absent, Dir}]
  BY DEF WriteInv, TreeInv
<1>1. ASSUME NEW r \in Requests, ResolveDirectory(r)
      PROVE  entry'[p] = entry[p] \/ entry[p] = Absent
  BY <1>0, <1>1 DEF ResolveDirectory
<1>2. ASSUME NEW r \in Requests, FileHandle(r)
      PROVE  entry'[p] = entry[p] \/ entry[p] = Absent
  BY <1>0, <1>2 DEF FileHandle
<1>3. ASSUME NEW r \in Requests, Commit(r)
      PROVE  entry'[p] = entry[p] \/ entry'[p] \in Requests
  BY <1>0, <1>3 DEF Commit
<1>4. ASSUME \A r \in Requests :
                ~ResolveDirectory(r) /\ ~FileHandle(r) /\ ~Commit(r)
      PROVE  entry' = entry
  BY <1>4
  DEF Next, runOpfsTask, vars, Start, NotADirectory, NoFileHandle, ListBegin,
      ListNext, ListEnd, GetFile, ReadText, ReadFails, CreateWritable, Write,
      Close, WriteFails, Message, Timer, PageCloses
<1> QED
  BY <1>1, <1>2, <1>3, <1>4

\* A text that was written is replaced by texts only.
THEOREM TextsNeverLost == Spec => TextsStay
<1>1. WriteInv /\ [Next]_vars =>
         [\A p \in Nodes : entry[p] \in Requests => entry'[p] \in Requests]_vars
  BY EntryStep, OpfsAssumption DEF Contents
<1> QED
  BY <1>1, WriteInit, WriteStep, PTL DEF Spec, TextsStay

\* A path fits into the tree.
LEMMA PathLength ==
    ASSUME NEW r \in Requests
    PROVE  Len(Path[r]) \in 0 .. MaxDepth
<1>1. CASE Path[r] = <<>>
  BY <1>1, OpfsAssumption
<1>2. CASE Path[r] \in Nodes
  <2>1. PICK n \in 1 .. MaxDepth : Path[r] \in [1 .. n -> Names]
    BY <1>2 DEF Nodes
  <2>2. Path[r] \in Seq(Names) /\ Len(Path[r]) = n
    BY <2>1, OpfsAssumption
  <2> QED
    BY <2>1, <2>2, OpfsAssumption
<1> QED
  BY <1>1, <1>2, OpfsAssumption

\* What a request has found so far is of its type, and a handle is one of a
\* file.
FoundInv ==
    /\ depth \in [Requests -> 0 .. MaxDepth]
    /\ present \in [Requests -> SUBSET Names]
    /\ found = [r \in Requests |-> found[r]]
    /\ \A r \in Requests :
          /\ found[r] \in IF Task[r] = "read_text" THEN Contents \cup {{}}
                                                 ELSE SUBSET Names
          /\ pc[r] = "handle" => Task[r] # "list_dir" /\ entry[Path[r]] \in Contents

\* A handle stays one of a file.
LEMMA HandleStays ==
    ASSUME WriteInv, FoundInv, [Next]_vars, NEW r \in Requests,
           pc'[r] = "handle", pc[r] = "handle"
    PROVE  entry'[Path[r]] \in Contents
<1>1. Path[r] \in Nodes /\ entry[Path[r]] \in Contents
  BY DEF WriteInv, PlaceInv, FoundInv
<1> QED
  BY <1>1, EntryStep, OpfsAssumption DEF Contents

\* No step makes a worker find what the tree did not hold.
LEMMA FoundStep == WriteInv /\ FoundInv /\ [Next]_vars => FoundInv'
<1> SUFFICES ASSUME WriteInv, FoundInv, [Next]_vars PROVE FoundInv'
  OBVIOUS
<1> USE OpfsAssumption
<1>0. /\ pc \in [Requests -> Places]
      /\ entry \in [Nodes -> Contents \cup {Absent, Dir}]
      /\ depth \in [Requests -> 0 .. MaxDepth]
      /\ present \in [Requests -> SUBSET Names]
      /\ found = [r \in Requests |-> found[r]]
  BY DEF WriteInv, TreeInv, FoundInv
<1>1. depth' \in [Requests -> 0 .. MaxDepth]
  <2>1. ASSUME NEW r \in Requests, ResolveDirectory(r)
        PROVE  depth[r] + 1 \in 0 .. MaxDepth
    <3>1. Len(Path[r]) \in 0 .. MaxDepth
      BY PathLength
    <3>2. depth[r] \in Nat /\ depth[r] < Folders(r)
      BY <1>0, <2>1 DEF ResolveDirectory
    <3> QED
      BY <3>1, <3>2 DEF Folders
  <2>2. ASSUME NEW r \in Requests, ResolveDirectory(r)
        PROVE  depth' \in [Requests -> 0 .. MaxDepth]
    BY <1>0, <2>1, <2>2 DEF ResolveDirectory
  <2>3. CASE depth' = depth
    BY <1>0, <2>3
  <2> QED
    BY <2>2, <2>3
    DEF Next, runOpfsTask, vars, worker, Start, NotADirectory, FileHandle,
        NoFileHandle, ListBegin, ListNext, ListEnd, GetFile, ReadText, ReadFails,
        CreateWritable, Write, Close, Commit, WriteFails, Message, Timer,
        PageCloses
<1>2. present' \in [Requests -> SUBSET Names]
  <2>1. ASSUME NEW r \in Requests, ListBegin(r)
        PROVE  present' \in [Requests -> SUBSET Names]
    BY <1>0, <2>1 DEF ListBegin, Children
  <2>2. CASE present' = present
    BY <1>0, <2>2
  <2> QED
    BY <2>1, <2>2
    DEF Next, runOpfsTask, vars, worker, Start, ResolveDirectory, NotADirectory,
        FileHandle, NoFileHandle, ListNext, ListEnd, GetFile, ReadText, ReadFails,
        CreateWritable, Write, Close, Commit, WriteFails, Message, Timer,
        PageCloses
<1>3. /\ found' = [r \in Requests |-> found'[r]]
      /\ \A r \in Requests :
            found'[r] \in IF Task[r] = "read_text" THEN Contents \cup {{}}
                                                  ELSE SUBSET Names
  <2>1. ASSUME NEW q \in Requests, ListNext(q)
        PROVE  /\ found' = [r \in Requests |-> found'[r]]
               /\ \A r \in Requests : r # q => found'[r] = found[r]
               /\ found'[q] \in SUBSET Names /\ Task[q] = "list_dir"
    <3>1. Task[q] = "list_dir"
      BY <2>1 DEF ListNext, WriteInv, PlaceInv
    <3>2. found[q] \in SUBSET Names
      BY <3>1 DEF FoundInv
    <3>3. PICK name \in Names : found' = [found EXCEPT ![q] = @ \cup {name}]
      BY <2>1 DEF ListNext, Children
    <3> QED
      BY <1>0, <3>1, <3>2, <3>3
  <2>2. ASSUME NEW q \in Requests, GetFile(q)
        PROVE  /\ found' = [r \in Requests |-> found'[r]]
               /\ \A r \in Requests : r # q => found'[r] = found[r]
               /\ found'[q] \in Contents /\ Task[q] = "read_text"
    BY <1>0, <2>2 DEF GetFile, FoundInv
  <2>3. CASE found' = found
    BY <1>0, <2>3 DEF FoundInv
  <2>4. ASSUME \A q \in Requests : ~ListNext(q) /\ ~GetFile(q)
        PROVE  found' = found
    BY <2>4
    DEF Next, runOpfsTask, vars, worker, Start, ResolveDirectory, NotADirectory,
        FileHandle, NoFileHandle, ListBegin, ListEnd, ReadText, ReadFails,
        CreateWritable, Write, Close, Commit, WriteFails, Message, Timer,
        PageCloses
  <2> QED
    BY <2>1, <2>2, <2>3, <2>4 DEF FoundInv
<1>4. ASSUME NEW r \in Requests, pc'[r] = "handle"
      PROVE  Task[r] # "list_dir" /\ entry'[Path[r]] \in Contents
  <2>1. FileHandle(r) \/ pc[r] = "handle"
    BY <1>0, <1>4
    DEF Places, Next, runOpfsTask, vars, worker, Goto, Fail, Start,
        ResolveDirectory, NotADirectory, FileHandle, NoFileHandle, ListBegin,
        ListNext, ListEnd, GetFile, ReadText, ReadFails, CreateWritable, Write,
        Close, Commit, WriteFails, Message, Timer, PageCloses, Running
  <2>2. CASE FileHandle(r)
    <3>1. Path[r] \in Nodes
      BY <2>2 DEF FileHandle, Resolved, WriteInv, PlaceInv
    <3> QED
      BY <1>0, <2>2, <3>1 DEF FileHandle, Contents
  <2>3. CASE pc[r] = "handle"
    BY <1>4, <2>3, HandleStays DEF FoundInv
  <2> QED
    BY <2>1, <2>2, <2>3
<1> QED
  BY <1>1, <1>2, <1>3, <1>4 DEF FoundInv

\* No worker has found anything initially.
LEMMA FoundInit == Init => FoundInv
  BY OpfsAssumption DEF Init, FoundInv, Contents

\* The state of tree, workers and page is always of the declared types.
THEOREM WorkersTyped == Spec => []TypeOK
<1>1. WriteInv /\ FoundInv => TypeOK
  BY DEF WriteInv, TreeInv, CloseInv, Writes, FoundInv, TypeOK
<1> QED
  BY <1>1, WriteInit, WriteStep, FoundInit, FoundStep, PTL DEF Spec

-----------------------------------------------------------------------------
(* Listings.                                                               *)

\* A listing ends with all that was there, or at its limit.
ListInv ==
    \A r \in Requests :
        Task[r] = "list_dir" /\ (pc[r] = "done" \/ response[r] = "ok") =>
            present[r] \subseteq found[r] \/ truncated(r)

\* One that has ended does not go on.
LEMMA ListStep == WriteInv /\ FoundInv /\ ListInv /\ [Next]_vars => ListInv'
<1> SUFFICES ASSUME WriteInv, FoundInv, ListInv, [Next]_vars,
                    NEW r \in Requests, Task[r] = "list_dir",
                    pc'[r] = "done" \/ response'[r] = "ok"
             PROVE  present'[r] \subseteq found'[r] \/ truncated(r)'
  BY DEF ListInv
<1>0. /\ pc \in [Requests -> Places]
      /\ response \in [Requests -> {None, "ok", "OPFS_ERROR", "TIMEOUT"}]
  BY DEF WriteInv, TreeInv
<1>1. CASE ListNext(r)
  <2>1. response[r] = None
    BY <1>1 DEF ListNext, WriteInv, PlaceInv
  <2>2. pc'[r] = "done"
    BY <1>0, <1>1, <2>1, OpfsAssumption DEF ListNext, page
  <2> QED
    BY <1>0, <1>1, <2>2 DEF ListNext, Goto, truncated
<1>2. CASE ListEnd(r)
  BY <1>2 DEF ListEnd
<1>3. CASE ~ListNext(r) /\ ~ListEnd(r)
  <2>1. /\ pc[r] # "text" /\ pc[r] # "closing"
        /\ response[r] # None => pc[r] = "over"
    BY <1>0 DEF WriteInv, PlaceInv, Writes
  <2>2. pc'[r] = "done" => pc[r] = "done"
    BY <1>0, <1>3, <2>1
    DEF Places, Next, runOpfsTask, vars, worker, page, Goto, Fail, Start,
        ResolveDirectory, NotADirectory, FileHandle, NoFileHandle, Resolved,
        ListBegin, ListNext, ListEnd, GetFile, ReadText, ReadFails,
        CreateWritable, Write, Close, Commit, WriteFails, Message, Timer,
        Resolve, PageCloses, Running
  <2>3. response'[r] = "ok" => pc[r] = "done" \/ response[r] = "ok"
    BY <1>0, <1>3, OpfsAssumption
    DEF Places, Next, runOpfsTask, vars, worker, page, Goto, Fail, Start,
        ResolveDirectory, NotADirectory, FileHandle, NoFileHandle, Resolved,
        ListBegin, ListNext, ListEnd, GetFile, ReadText, ReadFails,
        CreateWritable, Write, Close, Commit, WriteFails, Message, Timer,
        Resolve, PageCloses, Running
  <2>4. pc[r] \in {"done", "over"} => present'[r] = present[r] /\ found'[r] = found[r]
    BY <1>0
    DEF Places, Next, runOpfsTask, vars, worker, page, Goto, Fail, Start,
        ResolveDirectory, NotADirectory, FileHandle, NoFileHandle, Resolved,
        ListBegin, ListNext, ListEnd, GetFile, ReadText, ReadFails,
        CreateWritable, Write, Close, Commit, WriteFails, Message, Timer,
        Resolve, PageCloses, Running, FoundInv
  <2>5. response[r] = "ok" => pc[r] = "over"
    BY <2>1, OpfsAssumption
  <2> QED
    BY <2>2, <2>3, <2>4, <2>5 DEF ListInv, truncated
<1> QED
  BY <1>1, <1>2, <1>3

\* A listing that is not marked as truncated is complete.
THEOREM ListingsComplete == Spec => []ListingComplete
<1>1. Init => ListInv
  BY OpfsAssumption DEF Init, ListInv
<1>2. ListInv => ListingComplete
  BY DEF ListInv, ListingComplete
<1> QED
  BY <1>1, <1>2, WriteInit, WriteStep, FoundInit, FoundStep, ListStep, PTL
  DEF Spec
=============================================================================
