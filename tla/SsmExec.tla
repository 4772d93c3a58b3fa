------------------------------ MODULE SsmExec ------------------------------
(***************************************************************************)
(* ssm_exec (src/common/ssm.py): sends a command to an instance, waits for *)
(* the instance to become ready whenever SSM refuses it, and polls the     *)
(* invocation, against three deadlines, while the instance and the command *)
(* change.  Every answer of AWS is what held at some moment of the call,   *)
(* and is acted upon later.                                                *)
(*                                                                         *)
(* A target is [ec2, ssm, accepts]: its EC2 state or "none", its ping      *)
(* status or "unmanaged", and whether send_command takes it.               *)
(***************************************************************************)
EXTENDS PollClock

CONSTANTS
    Targets,        \* what the instance may be like
    Endings,        \* how the command may end
    ReadyTimeout,   \* readiness_timeout
    Timeout,        \* timeout_seconds
    Grace,          \* the 30 s added to it
    Poll            \* poll_interval

Ec2States  == {"none", "pending", "running", "shutting-down", "terminated",
               "stopping", "stopped"}
SsmStates  == {"unmanaged", "Online", "ConnectionLost"}
ASSUME TargetsAssumption ==
    \A t \in Targets : t.ec2 \in Ec2States /\ t.ssm \in SsmStates /\ t.accepts \in BOOLEAN
ASSUME TimesAssumption == /\ ReadyTimeout \in Nat /\ Timeout \in Nat
                          /\ Grace \in Nat /\ Poll \in Nat \ {0}

Terminal == {"Success", "Failed", "TimedOut", "Cancelled"}
ASSUME EndingsAssumption == Endings \subseteq Terminal
InvalidEc2States == {"shutting-down", "terminated", "stopping", "stopped"}

VARIABLES
    target,        \* the instance
    command,       \* the command at SSM: none, hidden, InProgress or how it ended
    pc,            \* where ssm_exec is
    answer,        \* what AWS answers to the call under way, "nothing" if not yet
    instanceState, \* _describe_target_state: instance_state
    last,          \* is the state described only for the error message?
    sendDeadline,  \* send_deadline
    deadline,      \* deadline, of the readiness or of the invocation loop
    outcome,       \* "nothing" or how ssm_exec ended
    changed,       \* history: when the target changed last
    finished,      \* history: when the command ended
    ended          \* history: when ssm_exec ended

awsVars  == <<target, command, changed, finished>>
execVars == <<pc, answer, instanceState, last, sendDeadline, deadline, outcome, ended>>
ssmVars  == <<awsVars, execVars>>

Outcomes == {"nothing", "result", "error", "blocked", "not_ready", "never_accepted", "not_finished"}
Calling  == {"send", "ec2", "ssm", "invoke"}
Asleep   == {"ready_sleep", "invoke_sleep"}
Sending  == {"send", "ec2", "ssm", "ready_sleep"}
Invoking == {"invoke", "invoke_sleep"}

SsmInit == /\ target \in Targets
           /\ command = "none"
           /\ changed = now /\ finished = now /\ ended = now
           /\ pc = "idle" /\ answer = "nothing" /\ instanceState = "none" /\ last = FALSE
           /\ sendDeadline = now /\ deadline = now /\ outcome = "nothing"

-----------------------------------------------------------------------------
(* AWS.                                                                    *)

\* Boots, registers, loses its connection, is stopped: whatever the target does.
TargetChanges == /\ pc \notin {"idle", "done"}
                 /\ target' \in Targets \ {target}
                 /\ changed' = now
                 /\ UNCHANGED <<clockVars, execVars, command, finished>>

CommandMoves == /\ pc \notin {"idle", "done"}
                /\ \/ command = "hidden" /\ command' = "InProgress" /\ UNCHANGED finished
                   \/ command = "InProgress" /\ command' \in Endings /\ finished' = now
                /\ UNCHANGED <<clockVars, execVars, target, changed>>

\* The call under way is answered; any call may fail with an error nobody expects.
Answers(a) == answer = "nothing" /\ answer' \in {a, "error"}
                /\ UNCHANGED <<clockVars, pc, instanceState, last, sendDeadline,
                               deadline, outcome, ended, target, changed, finished>>

TakeCommand == /\ pc = "send" /\ target.accepts
               /\ Answers("sent")
               /\ command' \in IF answer' = "sent" THEN {"hidden"} ELSE {command, "hidden"}
RefuseCommand == /\ pc = "send" /\ ~target.accepts
                 /\ Answers("InvalidInstanceId") /\ UNCHANGED command
DescribeInstances == pc = "ec2" /\ Answers(target.ec2) /\ UNCHANGED command
DescribeInformation == pc = "ssm" /\ Answers(target.ssm) /\ UNCHANGED command
GetInvocation == pc = "invoke" /\ Answers(command) /\ UNCHANGED command

Serve == TakeCommand \/ RefuseCommand \/ DescribeInstances \/ DescribeInformation
           \/ GetInvocation

-----------------------------------------------------------------------------
(* ssm_exec.                                                               *)

Begin == /\ pc = "idle"
         /\ pc' = "send"
         /\ sendDeadline' = now + ReadyTimeout
         /\ Turn
         /\ UNCHANGED <<awsVars, answer, instanceState, last, deadline, outcome, ended>>

Goes(to) == pc' = to /\ answer' = "nothing" /\ Turn
              /\ UNCHANGED <<awsVars, sendDeadline, outcome, ended>>
Ends(how) == /\ pc' = "done" /\ outcome' = how /\ ended' = now
             /\ answer' = "nothing" /\ Turn
             /\ UNCHANGED <<awsVars, sendDeadline, deadline, instanceState, last>>

\* The call under way has returned to its caller, with an answer it handles or not.
Returned(where) == pc = where /\ Answered /\ answer \notin {"nothing", "error"}
Raises == pc \in Calling /\ Answered /\ answer = "error" /\ Ends("error")

Sent == /\ Returned("send") /\ answer = "sent"
        /\ deadline' = now + Timeout + Grace
        /\ Goes("invoke")
        /\ UNCHANGED <<instanceState, last>>

NeverTooLate == FALSE
TooLateToSend == now > sendDeadline

\* The target is described once more, for the error, or waited for.
Refused == /\ Returned("send") /\ answer = "InvalidInstanceId"
           /\ \/ TooLateToSend /\ last' = TRUE /\ UNCHANGED deadline
              \/ ~TooLateToSend /\ last' = FALSE /\ deadline' = now + ReadyTimeout
           /\ Goes("ec2")
           /\ UNCHANGED instanceState

DescribedInstance == /\ Returned("ec2")
                     /\ instanceState' = answer
                     /\ Goes("ssm")
                     /\ UNCHANGED <<last, deadline>>

GiveUpSending == Returned("ssm") /\ last /\ Ends("never_accepted")

\* _readiness_blocker and the test for readiness, of the two answers.
Blocked == \/ instanceState \in InvalidEc2States
           \/ instanceState = "none" /\ answer = "unmanaged"
TooLate == now > deadline
ReadyInTime == instanceState = "running" /\ answer = "Online" /\ ~TooLate
Ready == instanceState = "running" /\ answer = "Online"

CannotBecomeReady == Returned("ssm") /\ ~last /\ Blocked /\ Ends("blocked")
BecameReady == /\ Returned("ssm") /\ ~last /\ ~Blocked /\ Ready
               /\ Goes("send")
               /\ UNCHANGED <<instanceState, last, deadline>>

NotReady == /\ Returned("ssm") /\ ~last /\ ~Blocked /\ ~Ready
            /\ IF TooLate THEN Ends("not_ready")
               ELSE Goes("ready_sleep") /\ UNCHANGED <<instanceState, last, deadline>>

ResultIfInTime == answer \in Terminal /\ ~TooLate
Result == answer \in Terminal
Finished == Returned("invoke") /\ Result /\ Ends("result")

\* InvocationDoesNotExist is as good as a status that is not terminal.
Unfinished == /\ Returned("invoke") /\ ~Result
              /\ IF TooLate THEN Ends("not_finished")
                 ELSE Goes("invoke_sleep") /\ UNCHANGED <<instanceState, last, deadline>>

LookAgain == /\ pc = "ready_sleep"
             /\ now = began + Poll
             /\ Goes("ec2")
             /\ UNCHANGED <<instanceState, last, deadline>>
PollAgain == /\ pc = "invoke_sleep"
             /\ now = began + Poll
             /\ Goes("invoke")
             /\ UNCHANGED <<instanceState, last, deadline>>

SsmTick == /\ pc \in Calling \cup Asleep
           /\ Passes(IF pc \in Asleep THEN Poll ELSE MaxCall)
           /\ UNCHANGED ssmVars

\* Time passes, and others poll, before and after ssm_exec.
SsmElsewhere == /\ pc \in {"idle", "done"}
                /\ now' \in Nat /\ now' >= now /\ began' \in 0..now'
                /\ UNCHANGED ssmVars

\* Its caller has the outcome, and may call it again.
SsmForgets == /\ pc = "done"
              /\ pc' = "idle" /\ instanceState' = "none" /\ last' = FALSE
              /\ sendDeadline' = now /\ deadline' = now
              /\ outcome' = "nothing" /\ ended' = now
              /\ command' = "none" /\ changed' = now /\ finished' = now
              /\ Turn
              /\ UNCHANGED <<target, answer>>

-----------------------------------------------------------------------------
Aws  == TargetChanges \/ CommandMoves \/ Serve
Exec == \/ Begin \/ Raises \/ Sent \/ Refused \/ DescribedInstance \/ GiveUpSending
        \/ CannotBecomeReady \/ BecameReady \/ NotReady \/ Finished \/ Unfinished
        \/ LookAgain \/ PollAgain
SsmNext == Aws \/ Exec \/ SsmTick \/ SsmElsewhere \/ SsmForgets

SsmSpec == Start /\ SsmInit /\ [][SsmNext]_<<clockVars, ssmVars>>

-----------------------------------------------------------------------------
(* Properties                                                              *)

\* The variables stay in their domains.
SsmTypeOK ==
    /\ now \in Nat /\ began \in Nat /\ began <= now
    /\ target \in Targets
    /\ command \in {"none", "hidden", "InProgress"} \cup Terminal
    /\ pc \in {"idle", "done"} \cup Calling \cup Asleep
    /\ answer \in {"nothing", "error", "sent", "InvalidInstanceId", "hidden", "InProgress"}
                    \cup Terminal \cup Ec2States \cup SsmStates
    /\ instanceState \in Ec2States
    /\ last \in BOOLEAN
    /\ sendDeadline \in Nat /\ deadline \in Nat
    /\ outcome \in Outcomes
    /\ changed \in Nat /\ finished \in Nat /\ ended \in Nat

\* ssm_exec ends in time: sending may take twice the readiness timeout, as the wait
\* for readiness has a deadline of its own, and the command its timeout and grace,
\* each with one sleep and the calls that were under way.
EndsInTime ==
    /\ pc \in Sending => now <= sendDeadline + ReadyTimeout + Poll + 5 * MaxCall
    /\ pc \in Invoking => now <= sendDeadline + ReadyTimeout + Timeout + Grace
                                   + 2 * Poll + 4 * MaxCall

\* A target is given up only after the whole readiness timeout, and never one that has
\* been ready, or accepting, since before the last calls began.
ReadyTargetIsNotGivenUp ==
    /\ outcome \in {"not_ready", "never_accepted"} => ended > sendDeadline
    /\ outcome \in {"not_ready", "blocked"} =>
         ~(target.ec2 = "running" /\ target.ssm = "Online" /\ changed < ended - 2 * MaxCall)
    /\ outcome = "never_accepted" =>
         ~(target.accepts /\ changed < ended - 3 * MaxCall)

\* A command that ended before the deadline, less one call, is never reported as
\* unfinished, and one is reported as finished only if it is.
FinishedIsReturned ==
    /\ outcome = "not_finished" => command \notin Terminal \/ finished > deadline - MaxCall
    /\ outcome = "result" => command \in Terminal
    /\ outcome \in {"blocked", "not_ready", "never_accepted"} => command = "none"
=============================================================================
