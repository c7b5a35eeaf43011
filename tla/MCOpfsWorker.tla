----------------------------- MODULE MCOpfsWorker -----------------------------
(***************************************************************************)
(* Instances of OpfsWorker for TLC: two writes and a read of one file, and *)
(* a listing of its directory.                                             *)
(***************************************************************************)
EXTENDS OpfsWorker, TLC

CONSTANTS w1, w2, r1, l1, notes, todo

Tasks == [r \in Requests |-> CASE r = r1 -> "read_text"
                               [] r = l1 -> "list_dir"
                               [] OTHER  -> "write_text"]

Paths == [r \in Requests |-> IF r = l1 THEN <<notes>> ELSE <<notes, todo>>]

\* The two writes differ in nothing but their texts.
Writes == Permutations({w1, w2})

LimitOne == [r \in Requests |-> 1]

\* Nothing; a directory with two files; a file where the directory should be.
Trees ==
    {[p \in Nodes |-> Absent],
     [p \in Nodes |-> CASE p = <<notes>> -> Dir
                        [] p \in {<<notes, todo>>, <<notes, notes>>} -> Empty
                        [] OTHER -> Absent],
     [p \in Nodes |-> IF p = <<notes>> THEN Empty ELSE Absent]}
=============================================================================
