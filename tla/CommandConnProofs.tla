------------------------- MODULE CommandConnProofs -------------------------
(***************************************************************************)
(* TLAPS proofs about the subprocess transport, for every subprocess, size *)
(* of its output and capacity of its pipe.                                 *)
(***************************************************************************)
EXTENDS CommandConn, TLAPS

-----------------------------------------------------------------------------
\* Every step keeps the types, and the subprocess's status with its exit.
LEMMA TypeStep == IInv /\ [Next]_vars => TypeOK'
<1> SUFFICES ASSUME TypeOK, NotStarted, ReportIsReal, [Next]_vars PROVE TypeOK'
    BY DEF IInv
<1> USE SubprocessAssumption DEF TypeOK, outputVars
<1>1. CASE ConnectFail \/ Connect \/ CloseStdinFail
  <2>1. CASE ConnectFail
    BY <2>1 DEF ConnectFail
  <2>2. CASE Connect
    BY <2>2 DEF Connect, NotStarted
  <2>3. CASE CloseStdinFail
    BY <2>3 DEF CloseStdinFail
  <2> QED BY <1>1, <2>1, <2>2, <2>3
<1>2. CASE CloseStdin
  BY <1>2 DEF CloseStdin, TellEOF
<1>3. CASE CloseStep
  <2>1. CASE WaitOk
    BY <1>3, <2>1 DEF WaitOk, Waiting
  <2>2. CASE WaitTimeout
    BY <1>3, <2>2 DEF WaitTimeout, MayTimeOut, Waiting, LastTimeout
  <2>3. CASE Signal
    BY <1>3, <2>3 DEF Signal
  <2>4. CASE Kill
    BY <1>3, <2>4 DEF Kill, KillError
  <2> QED BY <1>3, <2>1, <2>2, <2>3, <2>4 DEF CloseStep
<1>4. CASE Exit
  BY <1>4 DEF Exit, ReportIsReal
<1>5. CASE Write \/ Take
  <2>1. CASE Write
    <3>1. unwritten' \in 0..Output /\ pipe' \in 0..Capacity /\ taken' \in 0..Slack
      BY <2>1 DEF Write
    <3> QED BY <2>1, <3>1 DEF Write
  <2>2. CASE Take
    <3>1. unwritten' \in 0..Output /\ pipe' \in 0..Capacity /\ taken' \in 0..Slack
      BY <2>2 DEF Take
    <3> QED BY <2>2, <3>1 DEF Take
  <2> QED BY <1>5, <2>1, <2>2
<1>6. CASE Reap \/ Report
  BY <1>6 DEF Reap, Report
<1>7. CASE UNCHANGED vars
  BY <1>7 DEF vars
<1> QED BY <1>1, <1>2, <1>3, <1>4, <1>5, <1>6, <1>7 DEF Next, Rest

\* Every step keeps what cmd.Wait and Close report true of the subprocess.
LEMMA ReportStep == IInv /\ [Next]_vars => NotStarted' /\ ReportIsReal' /\ ExitIsReal' /\ KillIsLast'
<1> SUFFICES ASSUME TypeOK, NotStarted, ReportIsReal, ExitIsReal, KillIsLast, [Next]_vars
             PROVE  NotStarted' /\ ReportIsReal' /\ ExitIsReal' /\ KillIsLast'
    BY DEF IInv
<1> USE DEF TypeOK, NotStarted, ReportIsReal, ExitIsReal, KillIsLast, outputVars
<1>1. CASE ConnectFail \/ Connect \/ CloseStdinFail \/ CloseStdin
  <2>1. CASE ConnectFail
    BY <2>1 DEF ConnectFail
  <2>2. CASE Connect
    BY <2>2 DEF Connect
  <2>3. CASE CloseStdinFail
    BY <2>3 DEF CloseStdinFail
  <2>4. CASE CloseStdin
    BY <2>4 DEF CloseStdin, TellEOF
  <2> QED BY <1>1, <2>1, <2>2, <2>3, <2>4
<1>2. CASE CloseStep
  <2>1. CASE WaitOk
    BY SubprocessAssumption, <2>1 DEF WaitOk, Waiting
  <2>2. CASE WaitTimeout
    BY <2>2 DEF WaitTimeout, MayTimeOut, Waiting, LastTimeout
  <2>3. CASE Signal
    BY <2>3 DEF Signal
  <2>4. CASE Kill
    BY <2>4 DEF Kill, KillError
  <2> QED BY <1>2, <2>1, <2>2, <2>3, <2>4 DEF CloseStep
<1>3. CASE Exit
  BY <1>3 DEF Exit
<1>4. CASE Write \/ Take
  BY <1>4 DEF Write, Take
<1>5. CASE Reap \/ Report
  BY <1>5 DEF Reap, Report
<1>6. CASE UNCHANGED vars
  BY <1>6 DEF vars
<1> QED BY <1>1, <1>2, <1>3, <1>4, <1>5, <1>6 DEF Next, Rest

-----------------------------------------------------------------------------
\* What Close has learnt of the subprocess is true of it in every state.
THEOREM CommandInvariant == Spec => []IInv
<1>1. Init => IInv
  BY SubprocessAssumption DEF Init, IInv, TypeOK, NotStarted, ReportIsReal, ExitIsReal,
                              KillIsLast
<1>2. IInv /\ [Next]_vars => IInv'
  BY TypeStep, ReportStep DEF IInv
<1> QED BY <1>1, <1>2, PTL DEF Spec

\* Every variable stays in its type: Close runs on a subprocess that was started,
\* and cmd.Wait returns the status it exited with.
THEOREM TypeCorrect == Spec => []TypeOK
<1>1. IInv => TypeOK
  BY DEF IInv
<1> QED BY CommandInvariant, <1>1, PTL

\* Close never reports an exit that did not happen, whatever times out and
\* whatever the subprocess obeys.
THEOREM ExitsAreReal == Spec => []ExitIsReal
<1>1. IInv => ExitIsReal
  BY DEF IInv
<1> QED BY CommandInvariant, <1>1, PTL
=============================================================================
