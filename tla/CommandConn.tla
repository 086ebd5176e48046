---------------------------- MODULE CommandConn ----------------------------
(***************************************************************************)
(* The subprocess transport of acp/cmd.go: CommandTransport.Connect and    *)
(* pipeRWC.Close, which closes the subprocess's stdin, then waits, sends   *)
(* SIGTERM, waits, kills and waits again.                                  *)
(*                                                                         *)
(* Time is abstracted: each wait may time out before or after the result   *)
(* of cmd.Wait is there, and it may do so when both are ready.  The        *)
(* subprocess and os/exec are external: a subprocess exits by itself, or   *)
(* in answer to what it obeys; cmd.Wait first reaps it, which makes later  *)
(* signals fail, and then may have to wait for whoever still holds the     *)
(* subprocess's output before it returns.                                  *)
(*                                                                         *)
(* A subprocess exits of its own accord only when it has written its       *)
(* output, and the pipe to the connection is bounded.  Close runs under    *)
(* the lock of the connection (updateInFlight), so the reader blocks at    *)
(* its next message: while Close runs, the reader and ioConn's pump take   *)
(* at most Slack messages off the pipe.                                    *)
(***************************************************************************)
EXTENDS Naturals

CONSTANTS
    Obeys,      \* what may make the subprocess exit: "eof", "term", "kill", "self"
    Statuses,   \* the exit statuses of its own: "ok", "fail"
    Output,     \* the most messages the subprocess writes
    Capacity,   \* messages the pipe holds
    Slack       \* messages taken off the pipe while Close runs

ASSUME SubprocessAssumption ==
    /\ Obeys \subseteq {"eof", "term", "kill", "self"}
    /\ Statuses \subseteq {"ok", "fail"} /\ Statuses # {}
    /\ Output \in Nat /\ Capacity \in Nat /\ Slack \in Nat

VARIABLES
    pc,         \* where Close stands
    proc,       \* "absent", "running", "exited" (a zombie) or "reaped"
    status,     \* how the subprocess exited, or "none"
    told,       \* what it was told: a subset of {"eof", "term", "kill"}
    res,        \* the channel res: what cmd.Wait returned, or "none"
    result,     \* what Connect or Close returned
    unwritten,  \* messages the subprocess has yet to write
    pipe,       \* messages in the pipe
    taken       \* messages taken off the pipe since Close began

outputVars == <<unwritten, pipe, taken>>
vars == <<pc, proc, status, told, res, result, outputVars>>

\* Every variable stays in its type: Close only runs on a subprocess that was
\* started, and what cmd.Wait returned is the status the subprocess exited with.
TypeOK ==
    /\ pc \in {"connect", "open", "wait1", "term", "wait2", "kill", "wait3", "done"}
    /\ proc \in {"absent", "running", "exited", "reaped"}
    /\ status \in {"none"} \cup Statuses \cup {"signal"}
    /\ status = "none" <=> proc \in {"absent", "running"}
    /\ proc = "absent" => pc \in {"connect", "done"}
    /\ told \in SUBSET {"eof", "term", "kill"}
    /\ res \in {"none", status}
    /\ result \in {"none", "ok", "fail", "signal", "connect", "stdin", "finished",
                   "unresponsive"}
    /\ unwritten \in 0..Output /\ pipe \in 0..Capacity /\ taken \in 0..Slack

Init ==
    /\ pc = "connect" /\ proc = "absent" /\ status = "none"
    /\ told = {} /\ res = "none" /\ result = "none"
    /\ unwritten \in 0..Output /\ pipe = 0 /\ taken = 0

-----------------------------------------------------------------------------
(* CommandTransport.Connect *)

\* Seeded fault: the error of Start is not looked at.
ConnectAnyway ==
    /\ pc = "connect"
    /\ pc' = "open"
    /\ UNCHANGED <<proc, status, told, res, result, outputVars>>

\* There is no command, a pipe cannot be made, or the command does not start.
ConnectFail ==
    /\ pc = "connect"
    /\ result' = "connect" /\ pc' = "done"
    /\ UNCHANGED <<proc, status, told, res, outputVars>>

Connect ==
    /\ pc = "connect"
    /\ proc' = "running" /\ pc' = "open"
    /\ UNCHANGED <<status, told, res, result, outputVars>>

-----------------------------------------------------------------------------
(* pipeRWC.Close *)

\* stdin.Close fails: Close gives up before anything waits for the subprocess.
CloseStdinFail ==
    /\ pc = "open"
    /\ result' = "stdin" /\ pc' = "done"
    /\ UNCHANGED <<proc, status, told, res, outputVars>>

\* Seeded fault: stdin stays open.
TellNothing == told

TellEOF == told \cup {"eof"}

\* stdin is closed, and a goroutine runs cmd.Wait.
CloseStdin ==
    /\ pc = "open"
    /\ told' = TellEOF
    /\ pc' = "wait1"
    /\ UNCHANGED <<proc, status, res, result, outputVars>>

Waiting == pc \in {"wait1", "wait2", "wait3"}

\* A wait ends with the result of cmd.Wait.
WaitOk ==
    /\ Waiting /\ res # "none"
    /\ result' = res /\ pc' = "done"
    /\ UNCHANGED <<proc, status, told, res, outputVars>>

\* Seeded fault: the wait after Kill has no limit.
NoLastLimit == pc \in {"wait1", "wait2"}

MayTimeOut == Waiting

\* Seeded fault: the last timeout is reported as wait's nil error.
NilError == "ok"

LastTimeout == "unresponsive"

\* A wait times out.
WaitTimeout ==
    /\ MayTimeOut
    /\ pc' = CASE pc = "wait1" -> "term" [] pc = "wait2" -> "kill" [] OTHER -> "done"
    /\ result' = IF pc = "wait3" THEN LastTimeout ELSE result
    /\ UNCHANGED <<proc, status, told, res, outputVars>>

\* SIGTERM, which fails once the subprocess is reaped: there is no second wait.
Signal ==
    /\ pc = "term"
    /\ \/ proc # "reaped" /\ pc' = "wait2" /\ told' = told \cup {"term"}
       \/ proc = "reaped" /\ pc' = "kill" /\ UNCHANGED told
    /\ UNCHANGED <<proc, status, res, result, outputVars>>

\* os.ErrProcessDone
KillError == "finished"

Kill ==
    /\ pc = "kill"
    /\ \/ proc # "reaped" /\ pc' = "wait3" /\ told' = told \cup {"kill"} /\ UNCHANGED result
       \/ proc = "reaped" /\ pc' = "done" /\ result' = KillError /\ UNCHANGED told
    /\ UNCHANGED <<proc, status, res, outputVars>>

-----------------------------------------------------------------------------
(* The subprocess and os/exec *)

\* The subprocess exits, with a status of its own or because of a signal.
Exit ==
    /\ proc = "running"
    /\ \/ /\ Obeys \cap ({"self"} \cup (told \ {"kill"})) # {} /\ unwritten = 0
          /\ status' \in Statuses
       \/ /\ Obeys \cap (told \ {"eof"}) # {}
          /\ status' = "signal"
    /\ proc' = "exited"
    /\ UNCHANGED <<pc, told, res, result, outputVars>>

\* The subprocess writes a message to its stdout.
Write ==
    /\ proc = "running" /\ unwritten > 0 /\ pipe < Capacity
    /\ unwritten' = unwritten - 1 /\ pipe' = pipe + 1
    /\ UNCHANGED <<pc, proc, status, told, res, result, taken>>

\* The pump reads a message, for as long as the reader or the pump can hold it.
Take ==
    /\ pipe > 0
    /\ pipe' = pipe - 1
    /\ \/ pc = "open" /\ UNCHANGED taken
       \/ pc # "open" /\ taken < Slack /\ taken' = taken + 1
    /\ UNCHANGED <<pc, proc, status, told, res, result, unwritten>>

\* cmd.Wait reaps the subprocess ...
Reap ==
    /\ proc = "exited" /\ pc \notin {"connect", "open"} /\ result # "stdin"
    /\ proc' = "reaped"
    /\ UNCHANGED <<pc, status, told, res, result, outputVars>>

\* ... and returns its status, unless it hangs.
Report ==
    /\ proc = "reaped" /\ res = "none"
    /\ res' = status
    /\ UNCHANGED <<pc, proc, status, told, result, outputVars>>

-----------------------------------------------------------------------------
CloseStep == WaitOk \/ WaitTimeout \/ Signal \/ Kill

Rest == pc = "done" /\ UNCHANGED vars

Next ==
    \/ ConnectFail \/ Connect \/ CloseStdinFail \/ CloseStdin
    \/ CloseStep \/ Exit \/ Write \/ Take \/ Reap \/ Report \/ Rest

Spec == Init /\ [][Next]_vars

-----------------------------------------------------------------------------
(* Properties *)

\* Close never reports an exit that did not happen: a nil error, or the exit
\* status of the subprocess, means that it was reaped with that status; "process
\* already finished", that it was reaped before it could be killed, although the
\* status is lost then; and "unresponsive subprocess", that it was killed in vain.
ExitIsReal ==
    /\ result \in {"ok", "fail", "signal"} => proc = "reaped" /\ result = status
    /\ result = "finished" => proc = "reaped" /\ "kill" \notin told
    /\ result = "unresponsive" => "kill" \in told

\* Close goes on, and its timers fire; nothing is asked of the subprocess.
TimersFair == WF_vars(WaitOk \/ Signal \/ Kill) /\ WF_vars(WaitTimeout)

\* Close returns, even if the subprocess ignores SIGTERM or cannot be killed,
\* or somebody else holds its output.  (The connection's lock is held meanwhile.)
CloseReturns == TimersFair => (pc = "wait1" ~> pc = "done")

\* The subprocess writes its output and exits when told, nobody holds its output,
\* and its output is read as long as there is somebody to take it.  No timer
\* has to fire.
SubprocessFair ==
    /\ WF_vars(WaitOk \/ Signal \/ Kill)
    /\ WF_vars("eof" \in told /\ Exit) /\ WF_vars(Write) /\ WF_vars(Take)
    /\ WF_vars(Reap) /\ WF_vars(Report)

\* The pipe and the blocked reader have room for what is still to be written.
OutputFits == unwritten + pipe <= Capacity + (Slack - taken)

\* Closing stdin is enough for a subprocess that exits at the end of its input,
\* if its output fits: Close needs no timeout.
GentleClose ==
    SubprocessFair => (pc = "wait1" /\ "eof" \in Obeys /\ OutputFits ~> pc = "done")

\* The inductive invariant behind ExitIsReal: nothing runs before Connect, what
\* cmd.Wait reports is real, too, and Close kills last.
NotStarted == pc = "connect" => proc = "absent"
ReportIsReal == res # "none" => proc = "reaped" /\ res = status
KillIsLast ==
    /\ pc = "wait3" => "kill" \in told
    /\ "kill" \in told => pc \in {"wait3", "done"}

IInv == TypeOK /\ ExitIsReal /\ NotStarted /\ ReportIsReal /\ KillIsLast
=============================================================================
