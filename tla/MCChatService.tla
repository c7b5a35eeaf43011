---------------------------- MODULE MCChatService ----------------------------
(***************************************************************************)
(* Instances of ChatService for TLC.                                       *)
(***************************************************************************)
EXTENDS ChatService

CONSTANTS s1, t1, t2, summarize, list_dir

OneSession == [t \in Turns |-> s1]

\* A client tool and a server tool.
MixedPrompts == [t \in Turns |-> IF t = t1 THEN list_dir ELSE summarize]
=============================================================================
