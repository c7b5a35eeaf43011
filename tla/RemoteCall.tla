----------------------------- MODULE RemoteCall -----------------------------
(***************************************************************************)
(* What the backend's client bridge promises to the code that calls a tool *)
(* of a browser through it (the ClientBridge interface of router.go, as    *)
(* BrowserBridge implements it), with no queue, channel, lock or handler   *)
(* in sight.                                                               *)
(*                                                                         *)
(* A session is attached or it is not.  A call made while its session is   *)
(* attached is open until it is answered by a result that carries its own  *)
(* identifier or revoked because the session is detached; whichever comes  *)
(* first is final.  An answered call returns its answer, a revoked or a    *)
(* refused one returns Unavailable, and only a call whose caller gave it   *)
(* up may return Timeout.                                                  *)
(*                                                                         *)
(* The module is a specification of its own, not a translation of lines    *)
(* of the repository: BrowserBridge is checked and proved to implement it. *)
(***************************************************************************)
CONSTANTS
    Sessions,       \* chat sessions
    Calls,          \* tool calls, by identifier
    CallSession,    \* the session each call is made for
    Outputs,        \* what a browser may answer
    Unavailable,    \* the outcome CLIENT_UNAVAILABLE
    Timeout,        \* the outcome TIMEOUT
    None            \* no value yet

VARIABLES
    attached,       \* attached[s]: session s counts as having a browser
    phase,          \* phase[c]: where call c is
    value,          \* value[c]: the answer, then the outcome, of call c
    abandoned       \* the calls whose caller has given up

vars == <<attached, phase, value, abandoned>>

Phases == {"idle", "open", "answered", "revoked", "returned"}
Answers == [id : Calls, output : Outputs]

Init ==
    /\ attached = [s \in Sessions |-> FALSE]
    /\ phase = [c \in Calls |-> "idle"]
    /\ value = [c \in Calls |-> None]
    /\ abandoned = {}

-----------------------------------------------------------------------------

Attach(s) ==
    /\ attached' = [attached EXCEPT ![s] = TRUE]
    /\ UNCHANGED <<phase, value, abandoned>>

\* Detaching a session revokes, at once, every call of it that is open.
Detach(s) ==
    /\ attached' = [attached EXCEPT ![s] = FALSE]
    /\ phase' = [c \in Calls |-> IF CallSession[c] = s /\ phase[c] = "open"
                                 THEN "revoked" ELSE phase[c]]
    /\ UNCHANGED <<value, abandoned>>

Request(c) ==
    /\ phase[c] = "idle"
    /\ attached[CallSession[c]]
    /\ phase' = [phase EXCEPT ![c] = "open"]
    /\ UNCHANGED <<attached, value, abandoned>>

Return(c, outcome) ==
    /\ phase' = [phase EXCEPT ![c] = "returned"]
    /\ value' = [value EXCEPT ![c] = outcome]
    /\ UNCHANGED <<attached, abandoned>>

Refuse(c) ==
    /\ phase[c] = "idle"
    /\ ~attached[CallSession[c]]
    /\ Return(c, Unavailable)

Answer(c, answer) ==
    /\ phase[c] = "open"
    /\ answer.id = c
    /\ phase' = [phase EXCEPT ![c] = "answered"]
    /\ value' = [value EXCEPT ![c] = answer]
    /\ UNCHANGED <<attached, abandoned>>

ReturnAnswer(c) ==
    /\ phase[c] = "answered"
    /\ Return(c, value[c])

ReturnRevoked(c) ==
    /\ phase[c] = "revoked"
    /\ Return(c, Unavailable)

\* The calls of one turn share a context, so several may be given up at once.
Abandon(cs) ==
    /\ abandoned' = abandoned \cup cs
    /\ UNCHANGED <<attached, phase, value>>

ReturnAbandoned(c) ==
    /\ c \in abandoned
    /\ phase[c] \in {"open", "answered", "revoked"}
    /\ Return(c, Timeout)

Next ==
    \/ \E s \in Sessions : Attach(s) \/ Detach(s)
    \/ \E cs \in SUBSET Calls : Abandon(cs)
    \/ \E c \in Calls :
          \/ Request(c)
          \/ Refuse(c)
          \/ \E answer \in Answers : Answer(c, answer)
          \/ ReturnAnswer(c)
          \/ ReturnRevoked(c)
          \/ ReturnAbandoned(c)

Spec == Init /\ [][Next]_vars
=============================================================================
