--------------------------- MODULE CallLifecycle ---------------------------
(***************************************************************************)
(* What a connection promises the callers of Call, whatever the messages   *)
(* and goroutines behind it: a call is pending only while the connection   *)
(* is open or draining, it is resolved exactly once, and the connection    *)
(* closes for good, and only when no call is pending.                      *)
(***************************************************************************)
CONSTANT Calls
VARIABLES
    phase,      \* "open", "draining" (no new calls) or "closed"
    call        \* "idle", "pending", "answered" by the peer, or "failed"

lifecycleVars == <<phase, call>>

NonePending == \A c \in Calls : call[c] # "pending"

Init == phase = "open" /\ call = [c \in Calls |-> "idle"]

\* A draining connection may close in the step that resolves its last call.
MayClose == phase' = phase \/ (phase = "draining" /\ NonePending' /\ phase' = "closed")

Issue(c) ==
    /\ phase = "open" /\ call[c] = "idle"
    /\ call' = [call EXCEPT ![c] = "pending"]
    /\ UNCHANGED phase

\* The call fails before it is sent: bad parameters, or no longer open.
Refuse(c) ==
    /\ call[c] = "idle"
    /\ call' = [call EXCEPT ![c] = "failed"]
    /\ UNCHANGED phase

Resolve(c) ==
    /\ call[c] = "pending"
    /\ \E o \in {"answered", "failed"} : call' = [call EXCEPT ![c] = o]
    /\ MayClose

\* The peer is gone: every pending call fails at once.
Break ==
    /\ phase # "closed"
    /\ call' = [c \in Calls |-> IF call[c] = "pending" THEN "failed" ELSE call[c]]
    /\ phase' \in {"draining", "closed"}

Drain ==
    /\ phase = "open"
    /\ phase' = "draining" \/ (NonePending /\ phase' = "closed")
    /\ UNCHANGED call

Finish ==
    /\ phase = "draining" /\ NonePending
    /\ phase' = "closed"
    /\ UNCHANGED call

Next ==
    \/ \E c \in Calls : Issue(c) \/ Refuse(c) \/ Resolve(c)
    \/ Break \/ Drain \/ Finish

Spec == Init /\ [][Next]_lifecycleVars
=============================================================================
