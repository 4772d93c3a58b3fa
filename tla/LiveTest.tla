----------------------------- MODULE LiveTest -----------------------------
(***************************************************************************)
(* A live test made of the helpers of src/common: it notes the time or a   *)
(* baseline, runs a command on an instance with ssm_exec, and waits for    *)
(* what the command causes to appear in CloudWatch.  The repository's live *)
(* tests under tests/ run ssm_exec; none of them waits on CloudWatch yet,  *)
(* and cloudwatch.py:1-7 and :17-19 say how one goes.                      *)
(***************************************************************************)
EXTENDS SsmExec, CloudWatchWait

CONSTANTS
    Lead,          \* bound: how long the test may wait before it begins
    MaxSurprises   \* bound: how often the target changes or something happens
ASSUME BoundsAssumption == Lead \in Nat /\ MaxSurprises \in Nat

VARIABLE surprises

vars == <<clockVars, ssmVars, cwVars, surprises>>

Init == Start /\ SsmInit /\ CwInit /\ surprises = 0

\* Before and after the action the test and CloudWatch are on their own.
WaitToBegin == /\ wpc = "new" /\ now < Lead
               /\ now' = now + 1
               /\ UNCHANGED <<began, cwVars>>
Watch == /\ wpc # "act"
         /\ Test \/ CwTick \/ WaitToBegin
         /\ UNCHANGED <<ssmVars, surprises>>

Execute == /\ wpc = "act"
           /\ Exec \/ SsmTick
           /\ UNCHANGED <<cwVars, surprises>>

\* ssm_exec returns, and the wait begins; an exception of it is one of the test.
Return == outcome = "result" /\ BeginWait /\ SsmForgets /\ UNCHANGED surprises
Abort == /\ wpc = "act" /\ outcome \notin {"nothing", "result"}
         /\ Fails /\ SsmForgets
         /\ UNCHANGED surprises

Surprise == /\ surprises < MaxSurprises
            /\ surprises' = surprises + 1
            /\ \/ wpc = "act" /\ TargetChanges /\ UNCHANGED cwVars
               \/ Happens /\ UNCHANGED ssmVars

\* Nobody looks while ssm_exec runs: what is shown then may as well be shown after it.
Environment == /\ \/ wpc = "act" /\ (CommandMoves \/ Serve) /\ UNCHANGED cwVars
                  \/ wpc # "act" /\ (IsShown \/ Answer) /\ UNCHANGED ssmVars
               /\ UNCHANGED surprises

Over == wpc = "done" /\ UNCHANGED vars

Next == Watch \/ Execute \/ Return \/ Abort \/ Surprise \/ Environment \/ Over

Spec == Init /\ [][Next]_vars
=============================================================================
