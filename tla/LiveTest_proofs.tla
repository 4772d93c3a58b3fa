-------------------------- MODULE LiveTest_proofs --------------------------
(***************************************************************************)
(* Proofs about ssm_exec and the CloudWatch waits, for every timeout, poll *)
(* interval and length of a call.  Each helper is proved on its own, while *)
(* time passes elsewhere; the live test made of them is then shown to be   *)
(* a behaviour of both.                                                    *)
(***************************************************************************)
EXTENDS LiveTest, FiniteSetTheorems, TLAPS

-----------------------------------------------------------------------------
(* ssm_exec                                                                *)

NoNews == {"nothing", "error"}

\* What the call under way may answer.
AnswersFit ==
    /\ pc = "send" => answer \in {"nothing", "error", "sent", "InvalidInstanceId"}
    /\ pc = "ec2" => answer \in {"nothing", "error"} \cup Ec2States
    /\ pc = "ssm" => answer \in {"nothing", "error"} \cup SsmStates
    /\ pc = "invoke" => answer \in {"nothing", "error", "hidden", "InProgress"} \cup Terminal
    /\ pc \notin Calling => answer = "nothing"
    /\ pc = "send" /\ answer = "sent" => command # "none"
    /\ pc \in Invoking => command # "none"

\* How far each wait may have gone.
Readying == (pc \in {"ec2", "ssm"} /\ ~last) \/ pc = "ready_sleep"
WaitsInTime ==
    /\ pc \in Calling => now <= began + MaxCall
    /\ pc \in Asleep => now <= began + Poll
    /\ pc \in Sending => sendDeadline <= began + ReadyTimeout
    /\ pc = "send" => began <= sendDeadline + ReadyTimeout + Poll + 2 * MaxCall
    /\ Readying => sendDeadline <= deadline /\ deadline <= sendDeadline + ReadyTimeout
    /\ pc = "ec2" /\ ~last => began <= deadline + Poll
    /\ pc = "ssm" /\ ~last => began <= deadline + Poll + MaxCall
    /\ pc = "ready_sleep" => began <= deadline /\ ~last
    /\ pc = "ec2" /\ last => /\ sendDeadline < began
                             /\ began <= sendDeadline + ReadyTimeout + Poll + 3 * MaxCall
    /\ pc = "ssm" /\ last => /\ sendDeadline < began
                             /\ began <= sendDeadline + ReadyTimeout + Poll + 4 * MaxCall
    /\ pc \in Invoking => deadline <= sendDeadline + ReadyTimeout + Timeout + Grace
                                        + Poll + 3 * MaxCall
    /\ pc = "invoke" => began <= deadline + Poll
    /\ pc = "invoke_sleep" => began <= deadline

\* An answer is what held since the call began, unless the target has changed.
TargetAsAnswered ==
    /\ pc = "send" /\ answer = "InvalidInstanceId" => changed >= began \/ ~target.accepts
    /\ pc = "ec2" /\ last => changed >= began - MaxCall \/ ~target.accepts
    /\ pc = "ssm" /\ last => changed >= began - 2 * MaxCall \/ ~target.accepts
    /\ pc = "ec2" /\ answer \notin NoNews => changed >= began \/ target.ec2 = answer
    /\ pc = "ssm" => changed >= began - MaxCall \/ target.ec2 = instanceState
    /\ pc = "ssm" /\ answer \notin NoNews => changed >= began \/ target.ssm = answer

CommandAsAnswered ==
    /\ pc \in Sending \cup {"idle"} =>
         command = "none" \/ (pc = "send" /\ answer \in {"sent", "error"})
    /\ pc = "invoke" /\ answer \in Terminal => command \in Terminal
    /\ pc = "invoke" /\ answer \notin NoNews \cup Terminal =>
         command \notin Terminal \/ finished >= began

Undecided == pc # "done" => outcome = "nothing"

SsmTime == WaitsInTime /\ Undecided
SsmInv == /\ SsmTypeOK /\ AnswersFit /\ SsmTime
          /\ TargetAsAnswered /\ ReadyTargetIsNotGivenUp
          /\ CommandAsAnswered /\ FinishedIsReturned

USE DEF ssmVars, awsVars, execVars, clockVars, Calling, Asleep, Sending, Invoking

SsmDomains ==
    /\ now \in Nat /\ began \in Nat /\ began <= now
    /\ target \in Targets
    /\ command \in {"none", "hidden", "InProgress"} \cup Terminal
    /\ pc \in {"idle", "done"} \cup Calling \cup Asleep
    /\ sendDeadline \in Nat /\ deadline \in Nat
    /\ outcome \in Outcomes
    /\ changed \in Nat /\ finished \in Nat /\ ended \in Nat

LEMMA TypeIsDomains ==
  ASSUME AnswersFit, SsmDomains, instanceState \in Ec2States, last \in BOOLEAN
  PROVE  SsmTypeOK
  BY DEF AnswersFit, SsmDomains, SsmTypeOK

LEMMA SsmInits ==
  ASSUME Start, SsmInit
  PROVE  SsmInv
<1> USE CallAssumption, TimesAssumption DEF Start, SsmInit
<1>2. AnswersFit
  BY DEF AnswersFit
<1>3. SsmTime
  BY DEF SsmTime, WaitsInTime, Undecided, Readying
<1>4. TargetAsAnswered /\ ReadyTargetIsNotGivenUp
  BY DEF TargetAsAnswered, ReadyTargetIsNotGivenUp
<1>5. CommandAsAnswered /\ FinishedIsReturned
  BY DEF CommandAsAnswered, FinishedIsReturned
<1>6. SsmTypeOK
  <2>1. SsmDomains
    BY DEF SsmDomains, Outcomes
  <2>2. instanceState \in Ec2States /\ last \in BOOLEAN
    BY DEF Ec2States
  <2> QED
    BY <1>2, <2>1, <2>2, TypeIsDomains
<1> QED
  BY <1>2, <1>3, <1>4, <1>5, <1>6 DEF SsmInv

LEMMA SsmDomainsHold ==
  ASSUME SsmDomains, [SsmNext]_<<clockVars, ssmVars>>
  PROVE  SsmDomains'
<1> USE CallAssumption, TimesAssumption, EndingsAssumption
        DEF SsmDomains
<1>1. CASE UNCHANGED <<clockVars, ssmVars>>
  BY <1>1
<1>2. CASE TargetChanges
  BY <1>2 DEF TargetChanges
<1>3. CASE CommandMoves
  BY <1>3 DEF CommandMoves
<1>4. CASE TakeCommand
  BY <1>4 DEF TakeCommand, Answers
<1>5. CASE RefuseCommand
  BY <1>5 DEF RefuseCommand, Answers
<1>6. CASE DescribeInstances
  BY <1>6 DEF DescribeInstances, Answers
<1>7. CASE DescribeInformation
  BY <1>7 DEF DescribeInformation, Answers
<1>8. CASE GetInvocation
  BY <1>8 DEF GetInvocation, Answers
<1>9. CASE Begin
  BY <1>9 DEF Begin, Turn
<1>10. CASE Raises
  BY <1>10 DEF Raises, Goes, Ends, Returned, Turn, Answered, Outcomes
<1>11. CASE Sent
  BY <1>11 DEF Sent, Goes, Ends, Returned, Turn, Answered
<1>12. CASE Refused
  BY <1>12 DEF Refused, Goes, Ends, Returned, Turn, Answered
<1>13. CASE DescribedInstance
  BY <1>13 DEF DescribedInstance, Goes, Ends, Returned, Turn, Answered
<1>14. CASE GiveUpSending
  BY <1>14 DEF GiveUpSending, Goes, Ends, Returned, Turn, Answered, Outcomes
<1>15. CASE CannotBecomeReady
  BY <1>15 DEF CannotBecomeReady, Goes, Ends, Returned, Turn, Answered, Outcomes
<1>16. CASE BecameReady
  BY <1>16 DEF BecameReady, Goes, Ends, Returned, Turn, Answered
<1>17. CASE NotReady
  BY <1>17 DEF NotReady, Goes, Ends, Returned, Turn, Answered, Outcomes
<1>18. CASE Finished
  BY <1>18 DEF Finished, Goes, Ends, Returned, Turn, Answered, Outcomes
<1>19. CASE Unfinished
  BY <1>19 DEF Unfinished, Goes, Ends, Returned, Turn, Answered, Outcomes
<1>20. CASE LookAgain
  BY <1>20 DEF LookAgain, Goes, Ends, Returned, Turn, Answered
<1>21. CASE PollAgain
  BY <1>21 DEF PollAgain, Goes, Ends, Returned, Turn, Answered
<1>22. CASE SsmTick
  BY <1>22 DEF SsmTick, Passes
<1>23. CASE SsmElsewhere
  BY <1>23 DEF SsmElsewhere
<1>24. CASE SsmForgets
  BY <1>24 DEF SsmForgets, Turn, Outcomes
<1> QED
  BY <1>1, <1>2, <1>3, <1>4, <1>5, <1>6, <1>7, <1>8, <1>9, <1>10, <1>11, <1>12,
     <1>13, <1>14, <1>15, <1>16, <1>17, <1>18, <1>19, <1>20, <1>21, <1>22, <1>23, <1>24
     DEF SsmNext, Aws, Serve, Exec

LEMMA AnswersStayFit ==
  ASSUME AnswersFit, SsmDomains, [SsmNext]_<<clockVars, ssmVars>>
  PROVE  AnswersFit'
<1> USE TargetsAssumption, EndingsAssumption
        DEF AnswersFit, Terminal
<1>1. CASE UNCHANGED <<clockVars, ssmVars>>
  BY <1>1
<1>2. CASE TargetChanges
  BY <1>2 DEF TargetChanges
<1>3. CASE CommandMoves
  BY <1>3 DEF CommandMoves, SsmDomains
<1>4. CASE TakeCommand
  BY <1>4 DEF TakeCommand, Answers
<1>5. CASE RefuseCommand
  BY <1>5 DEF RefuseCommand, Answers
<1>6. CASE DescribeInstances
  BY <1>6 DEF DescribeInstances, Answers, SsmDomains
<1>7. CASE DescribeInformation
  BY <1>7 DEF DescribeInformation, Answers, SsmDomains
<1>8. CASE GetInvocation
  BY <1>8 DEF GetInvocation, Answers, SsmDomains
<1>9. CASE Begin
  BY <1>9 DEF Begin, Turn
<1>10. CASE Raises
  BY <1>10 DEF Raises, Goes, Ends, Returned, Turn, Answered
<1>11. CASE Sent
  BY <1>11 DEF Sent, Goes, Ends, Returned, Turn, Answered
<1>12. CASE Refused
  BY <1>12 DEF Refused, Goes, Ends, Returned, Turn, Answered
<1>13. CASE DescribedInstance
  BY <1>13 DEF DescribedInstance, Goes, Ends, Returned, Turn, Answered
<1>14. CASE GiveUpSending
  BY <1>14 DEF GiveUpSending, Goes, Ends, Returned, Turn, Answered
<1>15. CASE CannotBecomeReady
  BY <1>15 DEF CannotBecomeReady, Goes, Ends, Returned, Turn, Answered
<1>16. CASE BecameReady
  BY <1>16 DEF BecameReady, Goes, Ends, Returned, Turn, Answered
<1>17. CASE NotReady
  BY <1>17 DEF NotReady, Goes, Ends, Returned, Turn, Answered
<1>18. CASE Finished
  BY <1>18 DEF Finished, Goes, Ends, Returned, Turn, Answered
<1>19. CASE Unfinished
  BY <1>19 DEF Unfinished, Goes, Ends, Returned, Turn, Answered
<1>20. CASE LookAgain
  BY <1>20 DEF LookAgain, Goes, Ends, Returned, Turn, Answered
<1>21. CASE PollAgain
  BY <1>21 DEF PollAgain, Goes, Ends, Returned, Turn, Answered
<1>22. CASE SsmTick
  BY <1>22 DEF SsmTick, Passes
<1>23. CASE SsmElsewhere
  BY <1>23 DEF SsmElsewhere
<1>24. CASE SsmForgets
  BY <1>24 DEF SsmForgets, Turn
<1> QED
  BY <1>1, <1>2, <1>3, <1>4, <1>5, <1>6, <1>7, <1>8, <1>9, <1>10, <1>11, <1>12,
     <1>13, <1>14, <1>15, <1>16, <1>17, <1>18, <1>19, <1>20, <1>21, <1>22, <1>23, <1>24
     DEF SsmNext, Aws, Serve, Exec

LEMMA OthersStay ==
  ASSUME AnswersFit, SsmDomains, instanceState \in Ec2States, last \in BOOLEAN, [SsmNext]_<<clockVars, ssmVars>>
  PROVE  instanceState' \in Ec2States /\ last' \in BOOLEAN
<1> USE DEF AnswersFit
<1>1. CASE UNCHANGED <<clockVars, ssmVars>>
  BY <1>1
<1>2. CASE TargetChanges
  BY <1>2 DEF TargetChanges
<1>3. CASE CommandMoves
  BY <1>3 DEF CommandMoves
<1>4. CASE TakeCommand
  BY <1>4 DEF TakeCommand, Answers
<1>5. CASE RefuseCommand
  BY <1>5 DEF RefuseCommand, Answers
<1>6. CASE DescribeInstances
  BY <1>6 DEF DescribeInstances, Answers
<1>7. CASE DescribeInformation
  BY <1>7 DEF DescribeInformation, Answers
<1>8. CASE GetInvocation
  BY <1>8 DEF GetInvocation, Answers
<1>9. CASE Begin
  BY <1>9 DEF Begin, Turn
<1>10. CASE Raises
  BY <1>10 DEF Raises, Goes, Ends, Returned, Turn, Answered
<1>11. CASE Sent
  BY <1>11 DEF Sent, Goes, Ends, Returned, Turn, Answered
<1>12. CASE Refused
  <2>1. last' \in BOOLEAN
    BY <1>12 DEF Refused
  <2>2. instanceState' = instanceState
    BY <1>12 DEF Refused
  <2> QED
    BY <2>1, <2>2
<1>13. CASE DescribedInstance
  BY <1>13 DEF DescribedInstance, Goes, Ends, Returned, Turn, Answered
<1>14. CASE GiveUpSending
  BY <1>14 DEF GiveUpSending, Goes, Ends, Returned, Turn, Answered
<1>15. CASE CannotBecomeReady
  BY <1>15 DEF CannotBecomeReady, Goes, Ends, Returned, Turn, Answered
<1>16. CASE BecameReady
  BY <1>16 DEF BecameReady, Goes, Ends, Returned, Turn, Answered
<1>17. CASE NotReady
  BY <1>17 DEF NotReady, Goes, Ends, Returned, Turn, Answered
<1>18. CASE Finished
  BY <1>18 DEF Finished, Goes, Ends, Returned, Turn, Answered
<1>19. CASE Unfinished
  BY <1>19 DEF Unfinished, Goes, Ends, Returned, Turn, Answered
<1>20. CASE LookAgain
  BY <1>20 DEF LookAgain, Goes, Ends, Returned, Turn, Answered
<1>21. CASE PollAgain
  BY <1>21 DEF PollAgain, Goes, Ends, Returned, Turn, Answered
<1>22. CASE SsmTick
  BY <1>22 DEF SsmTick, Passes
<1>23. CASE SsmElsewhere
  BY <1>23 DEF SsmElsewhere
<1>24. CASE SsmForgets
  BY <1>24 DEF SsmForgets, Turn, Ec2States
<1> QED
  BY <1>1, <1>2, <1>3, <1>4, <1>5, <1>6, <1>7, <1>8, <1>9, <1>10, <1>11, <1>12,
     <1>13, <1>14, <1>15, <1>16, <1>17, <1>18, <1>19, <1>20, <1>21, <1>22, <1>23, <1>24
     DEF SsmNext, Aws, Serve, Exec

LEMMA SsmTimeHolds ==
  ASSUME SsmTypeOK, SsmTime, [SsmNext]_<<clockVars, ssmVars>>
  PROVE  SsmTime'
<1> USE CallAssumption, TimesAssumption
        DEF SsmTypeOK, SsmTime, WaitsInTime, Undecided, Readying
<1>1. CASE UNCHANGED <<clockVars, ssmVars>>
  BY <1>1
<1>2. CASE TargetChanges
  BY <1>2 DEF TargetChanges
<1>3. CASE CommandMoves
  BY <1>3 DEF CommandMoves
<1>4. CASE TakeCommand
  BY <1>4 DEF TakeCommand, Answers
<1>5. CASE RefuseCommand
  BY <1>5 DEF RefuseCommand, Answers
<1>6. CASE DescribeInstances
  BY <1>6 DEF DescribeInstances, Answers
<1>7. CASE DescribeInformation
  BY <1>7 DEF DescribeInformation, Answers
<1>8. CASE GetInvocation
  BY <1>8 DEF GetInvocation, Answers
<1>9. CASE Begin
  BY <1>9 DEF Begin, Turn
<1>10. CASE Raises
  BY <1>10 DEF Raises, Goes, Ends, Returned, Turn, Answered
<1>11. CASE Sent
  BY <1>11 DEF Sent, Goes, Ends, Returned, Turn, Answered
<1>12. CASE Refused
  BY <1>12 DEF Refused, Goes, Ends, Returned, Turn, Answered, TooLateToSend
<1>13. CASE DescribedInstance
  BY <1>13 DEF DescribedInstance, Goes, Ends, Returned, Turn, Answered
<1>14. CASE GiveUpSending
  BY <1>14 DEF GiveUpSending, Goes, Ends, Returned, Turn, Answered
<1>15. CASE CannotBecomeReady
  BY <1>15 DEF CannotBecomeReady, Goes, Ends, Returned, Turn, Answered
<1>16. CASE BecameReady
  BY <1>16 DEF BecameReady, Goes, Ends, Returned, Turn, Answered
<1>17. CASE NotReady
  BY <1>17 DEF NotReady, Goes, Ends, Returned, Turn, Answered, TooLate
<1>18. CASE Finished
  BY <1>18 DEF Finished, Goes, Ends, Returned, Turn, Answered
<1>19. CASE Unfinished
  BY <1>19 DEF Unfinished, Goes, Ends, Returned, Turn, Answered, TooLate
<1>20. CASE LookAgain
  BY <1>20 DEF LookAgain, Goes, Ends, Returned, Turn, Answered
<1>21. CASE PollAgain
  BY <1>21 DEF PollAgain, Goes, Ends, Returned, Turn, Answered
<1>22. CASE SsmTick
  BY <1>22 DEF SsmTick, Passes
<1>23. CASE SsmElsewhere
  BY <1>23 DEF SsmElsewhere
<1>24. CASE SsmForgets
  BY <1>24 DEF SsmForgets, Turn
<1> QED
  BY <1>1, <1>2, <1>3, <1>4, <1>5, <1>6, <1>7, <1>8, <1>9, <1>10, <1>11, <1>12,
     <1>13, <1>14, <1>15, <1>16, <1>17, <1>18, <1>19, <1>20, <1>21, <1>22, <1>23, <1>24
     DEF SsmNext, Aws, Serve, Exec

LEMMA TargetHolds ==
  ASSUME SsmTypeOK, AnswersFit, SsmTime, TargetAsAnswered, ReadyTargetIsNotGivenUp, [SsmNext]_<<clockVars, ssmVars>>
  PROVE  TargetAsAnswered' /\ ReadyTargetIsNotGivenUp'
<1> USE CallAssumption, TimesAssumption
        DEF SsmTypeOK, TargetAsAnswered, ReadyTargetIsNotGivenUp, SsmTime, WaitsInTime, Undecided, Readying, AnswersFit, NoNews
<1>1. CASE UNCHANGED <<clockVars, ssmVars>>
  BY <1>1
<1>2. CASE TargetChanges
  BY <1>2 DEF TargetChanges
<1>3. CASE CommandMoves
  BY <1>3 DEF CommandMoves
<1>4. CASE TakeCommand
  BY <1>4 DEF TakeCommand, Answers
<1>5. CASE RefuseCommand
  BY <1>5 DEF RefuseCommand, Answers
<1>6. CASE DescribeInstances
  BY <1>6 DEF DescribeInstances, Answers
<1>7. CASE DescribeInformation
  BY <1>7 DEF DescribeInformation, Answers
<1>8. CASE GetInvocation
  BY <1>8 DEF GetInvocation, Answers
<1>9. CASE Begin
  BY <1>9 DEF Begin, Turn
<1>10. CASE Raises
  BY <1>10 DEF Raises, Goes, Ends, Returned, Turn, Answered
<1>11. CASE Sent
  BY <1>11 DEF Sent, Goes, Ends, Returned, Turn, Answered
<1>12. CASE Refused
  BY <1>12 DEF Refused, Goes, Ends, Returned, Turn, Answered, TooLateToSend
<1>13. CASE DescribedInstance
  BY <1>13 DEF DescribedInstance, Goes, Ends, Returned, Turn, Answered
<1>14. CASE GiveUpSending
  BY <1>14 DEF GiveUpSending, Goes, Ends, Returned, Turn, Answered
<1>15. CASE CannotBecomeReady
  BY <1>15 DEF CannotBecomeReady, Goes, Ends, Returned, Turn, Answered, Blocked, InvalidEc2States
<1>16. CASE BecameReady
  BY <1>16 DEF BecameReady, Goes, Ends, Returned, Turn, Answered
<1>17. CASE NotReady
  BY <1>17 DEF NotReady, Goes, Ends, Returned, Turn, Answered, TooLate, Ready, Blocked
<1>18. CASE Finished
  BY <1>18 DEF Finished, Goes, Ends, Returned, Turn, Answered
<1>19. CASE Unfinished
  BY <1>19 DEF Unfinished, Goes, Ends, Returned, Turn, Answered
<1>20. CASE LookAgain
  BY <1>20 DEF LookAgain, Goes, Ends, Returned, Turn, Answered
<1>21. CASE PollAgain
  BY <1>21 DEF PollAgain, Goes, Ends, Returned, Turn, Answered
<1>22. CASE SsmTick
  BY <1>22 DEF SsmTick, Passes
<1>23. CASE SsmElsewhere
  BY <1>23 DEF SsmElsewhere
<1>24. CASE SsmForgets
  BY <1>24 DEF SsmForgets, Turn
<1> QED
  BY <1>1, <1>2, <1>3, <1>4, <1>5, <1>6, <1>7, <1>8, <1>9, <1>10, <1>11, <1>12,
     <1>13, <1>14, <1>15, <1>16, <1>17, <1>18, <1>19, <1>20, <1>21, <1>22, <1>23, <1>24
     DEF SsmNext, Aws, Serve, Exec

LEMMA CommandHolds ==
  ASSUME SsmTypeOK, AnswersFit, SsmTime, CommandAsAnswered, FinishedIsReturned, [SsmNext]_<<clockVars, ssmVars>>
  PROVE  CommandAsAnswered' /\ FinishedIsReturned'
<1> USE CallAssumption, TimesAssumption, EndingsAssumption
        DEF Terminal, SsmTypeOK, CommandAsAnswered, FinishedIsReturned, SsmTime, WaitsInTime, Undecided, AnswersFit, NoNews
<1>1. CASE UNCHANGED <<clockVars, ssmVars>>
  BY <1>1
<1>2. CASE TargetChanges
  BY <1>2 DEF TargetChanges
<1>3. CASE CommandMoves
  BY <1>3 DEF CommandMoves
<1>4. CASE TakeCommand
  BY <1>4 DEF TakeCommand, Answers
<1>5. CASE RefuseCommand
  BY <1>5 DEF RefuseCommand, Answers
<1>6. CASE DescribeInstances
  BY <1>6 DEF DescribeInstances, Answers
<1>7. CASE DescribeInformation
  BY <1>7 DEF DescribeInformation, Answers
<1>8. CASE GetInvocation
  BY <1>8 DEF GetInvocation, Answers
<1>9. CASE Begin
  BY <1>9 DEF Begin, Turn
<1>10. CASE Raises
  BY <1>10 DEF Raises, Goes, Ends, Returned, Turn, Answered
<1>11. CASE Sent
  BY <1>11 DEF Sent, Goes, Ends, Returned, Turn, Answered
<1>12. CASE Refused
  BY <1>12 DEF Refused, Goes, Ends, Returned, Turn, Answered
<1>13. CASE DescribedInstance
  BY <1>13 DEF DescribedInstance, Goes, Ends, Returned, Turn, Answered
<1>14. CASE GiveUpSending
  BY <1>14 DEF GiveUpSending, Goes, Ends, Returned, Turn, Answered
<1>15. CASE CannotBecomeReady
  BY <1>15 DEF CannotBecomeReady, Goes, Ends, Returned, Turn, Answered
<1>16. CASE BecameReady
  BY <1>16 DEF BecameReady, Goes, Ends, Returned, Turn, Answered
<1>17. CASE NotReady
  BY <1>17 DEF NotReady, Goes, Ends, Returned, Turn, Answered
<1>18. CASE Finished
  BY <1>18 DEF Finished, Goes, Ends, Returned, Turn, Answered, Result
<1>19. CASE Unfinished
  BY <1>19 DEF Unfinished, Goes, Ends, Returned, Turn, Answered, TooLate, Result
<1>20. CASE LookAgain
  BY <1>20 DEF LookAgain, Goes, Ends, Returned, Turn, Answered
<1>21. CASE PollAgain
  BY <1>21 DEF PollAgain, Goes, Ends, Returned, Turn, Answered
<1>22. CASE SsmTick
  BY <1>22 DEF SsmTick, Passes
<1>23. CASE SsmElsewhere
  BY <1>23 DEF SsmElsewhere
<1>24. CASE SsmForgets
  BY <1>24 DEF SsmForgets, Turn
<1> QED
  BY <1>1, <1>2, <1>3, <1>4, <1>5, <1>6, <1>7, <1>8, <1>9, <1>10, <1>11, <1>12,
     <1>13, <1>14, <1>15, <1>16, <1>17, <1>18, <1>19, <1>20, <1>21, <1>22, <1>23, <1>24
     DEF SsmNext, Aws, Serve, Exec

LEMMA SsmStep ==
  ASSUME SsmInv, [SsmNext]_<<clockVars, ssmVars>>
  PROVE  SsmInv'
<1>1. /\ SsmTypeOK /\ AnswersFit /\ SsmTime /\ TargetAsAnswered
      /\ ReadyTargetIsNotGivenUp /\ CommandAsAnswered /\ FinishedIsReturned
  BY DEF SsmInv
<1>2. SsmDomains /\ instanceState \in Ec2States /\ last \in BOOLEAN
  BY <1>1 DEF SsmTypeOK, SsmDomains
<1>3. AnswersFit' /\ SsmDomains'
  BY <1>1, <1>2, AnswersStayFit, SsmDomainsHold
<1>4. instanceState' \in Ec2States /\ last' \in BOOLEAN
  BY <1>1, <1>2, OthersStay
<1>5. SsmTypeOK'
  BY <1>3, <1>4, TypeIsDomains DEF AnswersFit, SsmDomains, SsmTypeOK
<1>6. SsmTime'
  BY <1>1, SsmTimeHolds
<1>7. TargetAsAnswered' /\ ReadyTargetIsNotGivenUp'
  BY <1>1, TargetHolds
<1>8. CommandAsAnswered' /\ FinishedIsReturned'
  BY <1>1, CommandHolds
<1> QED
  BY <1>3, <1>5, <1>6, <1>7, <1>8 DEF SsmInv

LEMMA SsmAlways == SsmSpec => []SsmInv
<1>1. Start /\ SsmInit => SsmInv
  BY SsmInits
<1>2. SsmInv /\ [SsmNext]_<<clockVars, ssmVars>> => SsmInv'
  BY SsmStep
<1> QED
  BY <1>1, <1>2, PTL DEF SsmSpec

\* The variables of ssm_exec stay in their domains, for every target and timeout.
THEOREM SsmTypeCorrect == SsmSpec => []SsmTypeOK
<1>1. SsmInv => SsmTypeOK
  BY DEF SsmInv
<1> QED
  BY <1>1, SsmAlways, PTL

LEMMA InTime ==
  ASSUME SsmInv
  PROVE  EndsInTime
  BY CallAssumption, TimesAssumption
     DEF SsmInv, SsmTypeOK, SsmTime, WaitsInTime, Readying, EndsInTime

-----------------------------------------------------------------------------
(* The CloudWatch waits                                                    *)

USE DEF cwVars, eventVars, waitVars

\* The datapoint of a time begins at that time or before it, and a later time has none
\* that begins earlier.
LEMMA Datapoints ==
  ASSUME NEW t \in Int
  PROVE  /\ Datapoint(t) \in Int /\ Datapoint(t) <= t
         /\ \A s \in Int : s <= t => Datapoint(s) <= Datapoint(t)
<1>1. t % Period \in 0..Period - 1
  BY WaitsAssumption
<1>2. ASSUME NEW s \in Int, s <= t PROVE s - (s % Period) <= t - (t % Period)
  BY <1>2, WaitsAssumption
<1> QED
  BY <1>1, <1>2, WaitsAssumption DEF Datapoint

SinceStart == {e \in shown : e.at >= IF kind = "log" THEN start ELSE Datapoint(start)}
ShownSince == {e \in shown : e.since >= start}
AtBaseline == {e \in shown : e.since < start /\ e.at >= Datapoint(start - Lookback)}
ShownBefore == {e \in shown : e.since < began /\ InWindow(e)}

CwClock ==
    /\ now \in Nat /\ began \in Nat /\ began <= now
    /\ start <= now
    /\ wpc = "baseline" => began = start
    /\ wpc \in {"look", "sleep"} => start <= began
    /\ wpc \in {"baseline", "look"} => now <= began + MaxCall
    /\ wpc = "look" => began <= wDeadline + WaitPoll
    /\ wpc = "sleep" => began <= wDeadline /\ now <= began + WaitPoll
    /\ wpc \notin {"baseline", "look", "done"} => sum = -1
    /\ wpc # "done" => verdict = "nothing"

\* What a sum counts, and what the baseline did.
SumIsOfShown ==
    wpc = "look" /\ sum # -1 =>
        /\ kind # "delta" => sum <= Cardinality(SinceStart)
        /\ kind = "delta" => sum <= baseline + Cardinality(ShownSince)
        /\ Cardinality(ShownBefore) <= sum

BaselineIsOfShown ==
    kind = "delta" =>
        /\ wpc = "baseline" /\ sum # -1 => Cardinality(AtBaseline) <= sum
        /\ wpc \in {"act", "look", "sleep"} /\ verdict = "nothing" =>
             Cardinality(AtBaseline) <= baseline

CwInv == /\ CwTypeOK /\ IsFiniteSet(shown) /\ CwClock
         /\ SumIsOfShown /\ BaselineIsOfShown
         /\ FoundIsNew /\ MissingWasNotShown

LEMMA Count ==
  ASSUME NEW T, IsFiniteSet(T), NEW S, S \subseteq T
  PROVE  /\ IsFiniteSet(S)
         /\ Cardinality(S) \in Nat /\ Cardinality(T) \in Nat
         /\ Cardinality(S) <= Cardinality(T)
  BY FS_Subset, FS_CardinalityType

LEMMA CountUnion ==
  ASSUME NEW S, IsFiniteSet(S), NEW T, IsFiniteSet(T), NEW U, U \subseteq S \cup T
  PROVE  Cardinality(U) <= Cardinality(S) + Cardinality(T)
<1>1. IsFiniteSet(S \cup T) /\ Cardinality(S \cup T) <= Cardinality(S) + Cardinality(T)
  <2>1. /\ IsFiniteSet(S \cup T)
        /\ Cardinality(S \cup T) = Cardinality(S) + Cardinality(T) - Cardinality(S \cap T)
    BY FS_Union
  <2>2. Cardinality(S) \in Nat /\ Cardinality(T) \in Nat /\ Cardinality(S \cap T) \in Nat
    BY Count, S \cap T \subseteq S
  <2> QED
    BY <2>1, <2>2
<1> QED
  BY <1>1, Count, FS_CardinalityType

LEMMA CwClockHolds ==
  ASSUME CwTypeOK, CwClock, [CwNext]_<<clockVars, cwVars>>
  PROVE  CwClock'
<1> USE CallAssumption, WaitsAssumption
        DEF CwTypeOK, CwClock
<1>1. CASE UNCHANGED <<clockVars, cwVars>>
  BY <1>1
<1>2. CASE Happens
  BY <1>2 DEF Happens
<1>3. CASE IsShown
  BY <1>3 DEF IsShown
<1>4. CASE Answer
  BY <1>4 DEF Answer
<1>5. CASE BeginTest
  BY <1>5 DEF BeginTest, Turn
<1>6. CASE TakeBaseline
  BY <1>6 DEF TakeBaseline, Turn, Answered
<1>7. CASE BeginWait
  BY <1>7 DEF BeginWait, Turn
<1>8. CASE Fails
  BY <1>8 DEF Fails, Stops, Turn
<1>9. CASE Found
  BY <1>9 DEF Found, Looked, Stops, Turn
<1>10. CASE GiveUp
  BY <1>10 DEF GiveUp, Looked, Stops, Turn
<1>11. CASE LookLater
  BY <1>11 DEF LookLater, Looked, Turn, TimeIsUp
<1>12. CASE AskAgain
  BY <1>12 DEF AskAgain, Turn
<1>13. CASE Act
  <2>1. now' \in Nat /\ now <= now' /\ began' \in Nat /\ began' <= now'
    BY <1>13 DEF Act
  <2>2. start' = start /\ start <= now /\ start \in Nat
    BY <1>13 DEF Act
  <2>3. start' <= now'
    BY <2>1, <2>2
  <2>4. /\ wpc' \in {"new", "act"} /\ sum' = -1 /\ verdict' = "nothing"
    BY <1>13 DEF Act
  <2> QED
    BY <2>1, <2>3, <2>4
<1>14. CASE CwTick
  BY <1>14 DEF CwTick, Passes
<1> QED
  BY <1>1, <1>2, <1>3, <1>4, <1>5, <1>6, <1>7, <1>8, <1>9,
     <1>10, <1>11, <1>12, <1>13, <1>14
     DEF CwNext, CloudWatch, Test

LEMMA CwFinite ==
  ASSUME IsFiniteSet(shown), [CwNext]_<<clockVars, cwVars>>
  PROVE  IsFiniteSet(shown')
<1> USE FS_AddElement
        DEF CwClock
<1>1. CASE UNCHANGED <<clockVars, cwVars>>
  BY <1>1
<1>2. CASE Happens
  BY <1>2 DEF Happens
<1>3. CASE IsShown
  BY <1>3 DEF IsShown
<1>4. CASE Answer
  BY <1>4 DEF Answer
<1>5. CASE BeginTest
  BY <1>5 DEF BeginTest, Turn
<1>6. CASE TakeBaseline
  BY <1>6 DEF TakeBaseline, Turn, Answered
<1>7. CASE BeginWait
  BY <1>7 DEF BeginWait, Turn
<1>8. CASE Fails
  BY <1>8 DEF Fails, Stops, Turn
<1>9. CASE Found
  BY <1>9 DEF Found, Looked, Stops, Turn
<1>10. CASE GiveUp
  BY <1>10 DEF GiveUp, Looked, Stops, Turn
<1>11. CASE LookLater
  BY <1>11 DEF LookLater, Looked, Turn, TimeIsUp
<1>12. CASE AskAgain
  BY <1>12 DEF AskAgain, Turn
<1>13. CASE Act
  BY <1>13 DEF Act
<1>14. CASE CwTick
  BY <1>14 DEF CwTick, Passes
<1> QED
  BY <1>1, <1>2, <1>3, <1>4, <1>5, <1>6, <1>7, <1>8, <1>9,
     <1>10, <1>11, <1>12, <1>13, <1>14
     DEF CwNext, CloudWatch, Test

LEMMA CwTypesHold ==
  ASSUME CwTypeOK, CwClock, IsFiniteSet(shown), IsFiniteSet(shown'), [CwNext]_<<clockVars, cwVars>>
  PROVE  CwTypeOK'
<1> USE CallAssumption, WaitsAssumption, FS_CardinalityType
        DEF CwTypeOK, CwClock
<1>1. CASE UNCHANGED <<clockVars, cwVars>>
  BY <1>1
<1>2. CASE Happens
  BY <1>2 DEF Happens
<1>3. CASE IsShown
  BY <1>3 DEF IsShown
<1>4. CASE Answer
  <2>1. Cardinality(Counted) \in Nat
    BY Count DEF Counted
  <2>2. sum' \in Nat
    BY <1>4, <2>1 DEF Answer
  <2> QED
    BY <1>4, <2>2 DEF Answer
<1>5. CASE BeginTest
  BY <1>5 DEF BeginTest, Turn
<1>6. CASE TakeBaseline
  BY <1>6 DEF TakeBaseline, Turn, Answered
<1>7. CASE BeginWait
  BY <1>7 DEF BeginWait, Turn
<1>8. CASE Fails
  BY <1>8 DEF Fails, Stops, Turn
<1>9. CASE Found
  BY <1>9 DEF Found, Looked, Stops, Turn
<1>10. CASE GiveUp
  BY <1>10 DEF GiveUp, Looked, Stops, Turn
<1>11. CASE LookLater
  BY <1>11 DEF LookLater, Looked, Turn, TimeIsUp
<1>12. CASE AskAgain
  BY <1>12 DEF AskAgain, Turn
<1>13. CASE Act
  <2>1. 0..now \subseteq 0..now' /\ now' \in Nat /\ began' \in Nat
    BY <1>13 DEF Act
  <2>2. hidden' \subseteq 0..now' /\ shown' \subseteq [at : 0..now', since : 0..now']
    BY <1>13, <2>1 DEF Act
  <2> QED
    BY <1>13, <2>1, <2>2 DEF Act
<1>14. CASE CwTick
  BY <1>14 DEF CwTick, Passes
<1> QED
  BY <1>1, <1>2, <1>3, <1>4, <1>5, <1>6, <1>7, <1>8, <1>9,
     <1>10, <1>11, <1>12, <1>13, <1>14
     DEF CwNext, CloudWatch, Test

\* Showing one more event takes nothing from what is counted, and adds nothing to what
\* was shown before.
LEMMA Shows ==
  ASSUME CwTypeOK, CwClock, IsFiniteSet(shown'), shown \subseteq shown',
         \A e \in shown' \ shown : e.since = now,
         UNCHANGED <<start, began, kind>>
  PROVE  /\ Cardinality(SinceStart) <= Cardinality(SinceStart')
         /\ Cardinality(ShownSince) <= Cardinality(ShownSince')
         /\ ShownBefore' = ShownBefore
         /\ AtBaseline' = AtBaseline
         /\ Cardinality(SinceStart) \in Nat /\ Cardinality(SinceStart') \in Nat
         /\ Cardinality(ShownSince) \in Nat /\ Cardinality(ShownSince') \in Nat
<1>1. SinceStart \subseteq SinceStart' /\ IsFiniteSet(SinceStart')
  <2>1. SinceStart' \subseteq shown'
    BY DEF SinceStart
  <2> QED
    BY <2>1, Count DEF SinceStart
<1>2. ShownSince \subseteq ShownSince' /\ IsFiniteSet(ShownSince')
  <2>1. ShownSince' \subseteq shown'
    BY DEF ShownSince
  <2> QED
    BY <2>1, Count DEF ShownSince
<1>3. ShownBefore' = ShownBefore
  <2>1. \A e : InWindow(e)' <=> InWindow(e)
    BY KindsAssumption DEF InWindow, Covers, Datapoint, CwTypeOK
  <2>2. \A e \in shown' \ shown : ~(e.since < began)
    BY DEF CwClock
  <2> QED
    BY <2>1, <2>2 DEF ShownBefore
<1>4. AtBaseline' = AtBaseline
  BY DEF AtBaseline, CwClock, CwTypeOK
<1> QED
  BY <1>1, <1>2, <1>3, <1>4, Count

LEMMA SumsAnswered ==
  ASSUME CwTypeOK, CwClock, IsFiniteSet(shown), BaselineIsOfShown, Answer
  PROVE  SumIsOfShown' /\ BaselineIsOfShown'
<1> USE WaitsAssumption
<1>1. /\ sum' = Cardinality(Counted) /\ sum' \in Nat
      /\ IsFiniteSet(Counted) /\ Counted \subseteq shown
  <2>1. Counted \subseteq shown
    BY DEF Counted
  <2> QED
    BY <2>1, Count DEF Answer
<1>2. /\ SinceStart' = SinceStart /\ ShownSince' = ShownSince
      /\ ShownBefore' = ShownBefore /\ AtBaseline' = AtBaseline
      /\ UNCHANGED <<wpc, kind, baseline, verdict>>
  BY DEF Answer, SinceStart, ShownSince, ShownBefore, AtBaseline, InWindow, Covers
<1>3. Cardinality(ShownBefore) <= sum'
  <2>1. ShownBefore \subseteq Counted
    BY DEF ShownBefore, Counted
  <2> QED
    BY <1>1, <2>1, Count
<1>4. kind # "delta" => sum' <= Cardinality(SinceStart)
  <2>1. kind # "delta" => Counted \subseteq SinceStart
    BY KindsAssumption DEF Counted, SinceStart, InWindow, Covers, CwTypeOK
  <2>2. SinceStart \subseteq shown
    BY DEF SinceStart
  <2> QED
    BY <1>1, <2>1, <2>2, Count
<1>5. CASE wpc = "baseline"
  <2>1. kind = "delta" => Cardinality(AtBaseline) <= sum'
    <3>1. ASSUME kind = "delta" PROVE AtBaseline \subseteq Counted
      <4>1. began = start
        BY <1>5 DEF CwClock
      <4> SUFFICES ASSUME NEW e \in AtBaseline PROVE e \in Counted
        OBVIOUS
      <4>2. e \in shown /\ e.at \in Int /\ e.at <= e.since /\ e.since \in Int
            /\ e.since < began /\ e.at >= Datapoint(began - Lookback)
        BY <4>1 DEF AtBaseline, CwTypeOK
      <4>3. Datapoint(e.at) \in Int /\ Datapoint(e.at) < began
        BY <4>2, Datapoints DEF CwClock
      <4> QED
        BY <3>1, <4>2, <4>3 DEF Counted, InWindow, Covers
    <3> QED
      BY <1>1, <3>1, Count
  <2> QED
    BY <1>2, <1>5, <2>1 DEF SumIsOfShown, BaselineIsOfShown
<1>6. CASE wpc = "look"
  <2>1. /\ IsFiniteSet(AtBaseline) /\ Cardinality(AtBaseline) \in Nat
        /\ IsFiniteSet(ShownSince) /\ Cardinality(ShownSince) \in Nat
    <3>1. AtBaseline \subseteq shown /\ ShownSince \subseteq shown
      BY DEF AtBaseline, ShownSince
    <3> QED
      BY <3>1, Count
  <2>2. kind = "delta" => sum' <= baseline + Cardinality(ShownSince)
    <3> SUFFICES ASSUME kind = "delta" PROVE sum' <= baseline + Cardinality(ShownSince)
      OBVIOUS
    <3>1. Counted \subseteq AtBaseline \cup ShownSince
      <4>1. start - Lookback \in Int /\ began - Lookback \in Int
            /\ start - Lookback <= began - Lookback
        BY <1>6 DEF CwClock, CwTypeOK
      <4>2. /\ Datapoint(start - Lookback) <= Datapoint(began - Lookback)
            /\ Datapoint(start - Lookback) \in Int /\ Datapoint(began - Lookback) \in Int
        BY <4>1, Datapoints
      <4> SUFFICES ASSUME NEW e \in Counted, e.since < start PROVE e \in AtBaseline
        BY DEF Counted, ShownSince, CwTypeOK
      <4>3. e \in shown /\ e.at \in Int /\ Datapoint(began - Lookback) <= e.at
        BY DEF Counted, InWindow, Covers, CwTypeOK
      <4> QED
        BY <4>2, <4>3 DEF AtBaseline
    <3>2. Cardinality(Counted) <= Cardinality(AtBaseline) + Cardinality(ShownSince)
      BY <2>1, <3>1, CountUnion
    <3>3. Cardinality(AtBaseline) <= baseline /\ baseline \in Nat
      BY <1>6 DEF BaselineIsOfShown, CwClock, CwTypeOK
    <3> QED
      BY <1>1, <2>1, <3>2, <3>3
  <2>3. SumIsOfShown'
    BY <1>1, <1>2, <1>3, <1>4, <2>2 DEF SumIsOfShown
  <2>4. BaselineIsOfShown'
    BY <1>2, <1>6 DEF BaselineIsOfShown
  <2> QED
    BY <2>3, <2>4
<1> QED
  BY <1>5, <1>6 DEF Answer

LEMMA SumsHold ==
  ASSUME CwTypeOK, CwClock, IsFiniteSet(shown), IsFiniteSet(shown'), CwTypeOK', CwClock',
         SumIsOfShown, BaselineIsOfShown, [CwNext]_<<clockVars, cwVars>>
  PROVE  SumIsOfShown' /\ BaselineIsOfShown'
<1>1. CASE Answer
  BY <1>1, SumsAnswered
<1>2. CASE IsShown
  <2>1. /\ shown \subseteq shown' /\ \A e \in shown' \ shown : e.since = now
        /\ UNCHANGED <<start, began, kind, wpc, sum, baseline, verdict>>
    BY <1>2 DEF IsShown
  <2>2. /\ Cardinality(SinceStart) <= Cardinality(SinceStart')
        /\ Cardinality(ShownSince) <= Cardinality(ShownSince')
        /\ ShownBefore' = ShownBefore
        /\ AtBaseline' = AtBaseline
        /\ Cardinality(SinceStart) \in Nat /\ Cardinality(SinceStart') \in Nat
        /\ Cardinality(ShownSince) \in Nat /\ Cardinality(ShownSince') \in Nat
    BY <2>1, Shows
  <2>3. baseline \in Nat /\ sum \in Nat \cup {-1}
    BY DEF CwTypeOK
  <2>4. SumIsOfShown'
    BY <2>1, <2>2, <2>3 DEF SumIsOfShown
  <2> QED
    BY <2>1, <2>2, <2>4 DEF BaselineIsOfShown
<1>3. CASE UNCHANGED <<clockVars, cwVars>> \/ Happens \/ CwTick
  <2>1. UNCHANGED <<shown, start, began, kind, wpc, sum, baseline, verdict>>
    BY <1>3 DEF Happens, CwTick, Passes
  <2>2. /\ SinceStart' = SinceStart /\ ShownSince' = ShownSince
        /\ ShownBefore' = ShownBefore /\ AtBaseline' = AtBaseline
    BY <2>1 DEF SinceStart, ShownSince, ShownBefore, AtBaseline, InWindow, Covers
  <2> QED
    BY <2>1, <2>2 DEF SumIsOfShown, BaselineIsOfShown
<1>4. CASE BeginTest \/ Fails \/ Found \/ GiveUp
  <2>1. \/ wpc' = "done"
        \/ wpc' = "baseline" /\ sum' = -1
        \/ wpc' = "act" /\ kind' # "delta"
    BY <1>4 DEF BeginTest, Fails, Found, GiveUp, Stops, CwClock
  <2> QED
    BY <2>1 DEF SumIsOfShown, BaselineIsOfShown
<1>5. CASE TakeBaseline
  <2>1. wpc = "baseline" /\ sum # -1 /\ wpc' = "act" /\ baseline' = sum
        /\ UNCHANGED <<shown, start, kind>>
    BY <1>5 DEF TakeBaseline
  <2>2. AtBaseline' = AtBaseline
    BY <2>1 DEF AtBaseline
  <2> QED
    BY <2>1, <2>2 DEF SumIsOfShown, BaselineIsOfShown
<1>6. CASE BeginWait \/ LookLater \/ AskAgain \/ Act
  <2>1. /\ sum' = -1
        /\ wpc' \in {"act", "look", "sleep"} =>
             wpc \in {"act", "look", "sleep"} /\ verdict = "nothing"
        /\ UNCHANGED <<shown, start, kind, baseline>>
    BY <1>6 DEF BeginWait, LookLater, AskAgain, Act, CwClock, Looked
  <2>2. AtBaseline' = AtBaseline
    BY <2>1 DEF AtBaseline
  <2> QED
    BY <2>1, <2>2 DEF SumIsOfShown, BaselineIsOfShown
<1> QED
  BY <1>1, <1>2, <1>3, <1>4, <1>5, <1>6 DEF CwNext, CloudWatch, Test

LEMMA FoundWasShown ==
  ASSUME CwTypeOK, IsFiniteSet(shown), SumIsOfShown, Found
  PROVE  FoundIsNew'
<1> USE WaitsAssumption, KindsAssumption
<1> DEFINE news == {e \in shown : New(e)}
<1>1. /\ wpc = "look" /\ sum # -1 /\ sum \in Nat /\ baseline \in Nat /\ Enough
      /\ UNCHANGED <<shown, kind, start>>
  BY DEF Found, Looked, Stops, CwTypeOK
<1>2. Cardinality(news) \in Nat
  BY Count
<1>3. CASE kind = "delta"
  <2>1. news = ShownSince
    BY <1>3 DEF New, ShownSince
  <2>2. sum <= baseline + Cardinality(news)
    BY <1>1, <1>3, <2>1 DEF SumIsOfShown
  <2>3. sum - baseline >= Minimum
    BY <1>1, <1>3 DEF Enough
  <2>4. Cardinality(news) >= Minimum
    BY <1>1, <1>2, <2>2, <2>3
  <2>5. {e \in shown' : New(e)'} = news
    BY <1>1, <1>3 DEF New
  <2> QED
    BY <1>1, <1>3, <2>4, <2>5 DEF FoundIsNew
<1>4. CASE kind # "delta"
  <2>1. news = SinceStart
    BY <1>4 DEF New, SinceStart, CwTypeOK
  <2>2. sum <= Cardinality(news)
    BY <1>1, <1>4, <2>1 DEF SumIsOfShown
  <2>3. sum >= (IF kind = "log" THEN 1 ELSE Minimum)
    BY <1>1, <1>4 DEF Enough, CwTypeOK
  <2>4. Cardinality(news) >= (IF kind = "log" THEN 1 ELSE Minimum)
    BY <1>1, <1>2, <2>2, <2>3
  <2>5. {e \in shown' : New(e)'} = news
    BY <1>1, <1>4 DEF New, Datapoint
  <2> QED
    BY <1>1, <2>4, <2>5 DEF FoundIsNew
<1> QED
  BY <1>3, <1>4

LEMMA MissingWasHidden ==
  ASSUME CwTypeOK, CwClock, IsFiniteSet(shown), SumIsOfShown, GiveUp
  PROVE  MissingWasNotShown'
<1> USE WaitsAssumption, KindsAssumption, CallAssumption
<1>1. /\ wpc = "look" /\ sum # -1 /\ sum \in Nat /\ baseline \in Nat /\ ~Enough
      /\ now > wDeadline /\ told' = now
      /\ UNCHANGED <<shown, kind, start, baseline, wDeadline>>
  BY DEF GiveUp, Looked, Stops, CwTypeOK, TimeIsUp
<1> DEFINE Early == {e \in shown : e.since <= wDeadline - MaxCall}
<1>2. \A e \in Early : e.since < began
  BY <1>1 DEF CwClock, CwTypeOK
<1>3. Cardinality(ShownBefore) <= sum /\ IsFiniteSet(ShownBefore)
  <2>1. ShownBefore \subseteq shown
    BY DEF ShownBefore
  <2> QED
    BY <1>1, <2>1, Count DEF SumIsOfShown
<1>4. CASE kind = "log"
  <2>1. Cardinality(ShownBefore) = 0
    BY <1>1, <1>3, <1>4, FS_CardinalityType DEF Enough
  <2>2. ShownBefore = {}
    BY <1>3, <2>1, FS_EmptySet
  <2>3. \A e \in Early : e.at < start
    BY <1>2, <1>4, <2>2 DEF ShownBefore, InWindow, CwTypeOK
  <2> QED
    BY <1>1, <1>4, <2>3 DEF MissingWasNotShown
<1>5. CASE kind = "sum"
  <2> DEFINE Those == {e \in Early : e.at >= Datapoint(start)}
  <2>1. Those \subseteq ShownBefore
    <3> SUFFICES ASSUME NEW e \in Those PROVE e \in ShownBefore
      OBVIOUS
    <3>1. /\ e \in shown /\ e.at \in Int /\ e.since \in Int /\ e.at <= e.since
          /\ e.since < began /\ e.at >= Datapoint(start)
      BY <1>2 DEF CwTypeOK
    <3>2. Datapoint(e.at) < began + Period
      BY <3>1, Datapoints DEF CwClock
    <3> QED
      BY <1>5, <3>1, <3>2 DEF ShownBefore, InWindow, Covers
  <2>2. Cardinality(Those) <= sum /\ Cardinality(Those) \in Nat
    BY <1>1, <1>3, <2>1, Count
  <2>3. Cardinality(Those) < Minimum
    BY <1>1, <1>5, <2>2 DEF Enough
  <2>4. Datapoint(start)' = Datapoint(start)
    BY <1>1 DEF Datapoint
  <2> QED
    BY <1>1, <1>5, <2>3, <2>4 DEF MissingWasNotShown
<1>6. CASE kind = "delta"
  <2> DEFINE Those == {e \in Early : e.at >= now - Lookback}
  <2>1. Those \subseteq ShownBefore
    <3> SUFFICES ASSUME NEW e \in Those PROVE e \in ShownBefore
      OBVIOUS
    <3>1. /\ e \in shown /\ e.at \in Int /\ e.since \in Int /\ e.at <= e.since
          /\ e.since < began /\ e.at >= now - Lookback
      BY <1>2 DEF CwTypeOK
    <3>2. began - Lookback \in Int /\ began - Lookback <= now - Lookback
      BY DEF CwClock, CwTypeOK
    <3>3. Datapoint(began - Lookback) \in Int /\ Datapoint(began - Lookback) <= e.at
      BY <3>1, <3>2, Datapoints DEF CwClock
    <3>4. Datapoint(e.at) < began
      BY <3>1, Datapoints DEF CwClock
    <3> QED
      BY <1>6, <3>1, <3>3, <3>4 DEF ShownBefore, InWindow, Covers
  <2>2. Cardinality(Those) <= sum /\ Cardinality(Those) \in Nat
    BY <1>1, <1>3, <2>1, Count
  <2>3. Cardinality(Those) < baseline + Minimum
    BY <1>1, <1>6, <2>2 DEF Enough
  <2> QED
    BY <1>1, <1>6, <2>3 DEF MissingWasNotShown
<1> QED
  BY <1>4, <1>5, <1>6 DEF CwTypeOK

LEMMA VerdictsHold ==
  ASSUME CwTypeOK, CwClock, IsFiniteSet(shown), SumIsOfShown, FoundIsNew, MissingWasNotShown,
         [CwNext]_<<clockVars, cwVars>>
  PROVE  FoundIsNew' /\ MissingWasNotShown'
<1>1. CASE Found
  <2>1. verdict' = "found"
    BY <1>1 DEF Found, Stops
  <2> QED
    BY <1>1, <2>1, FoundWasShown DEF MissingWasNotShown
<1>2. CASE GiveUp
  <2>1. verdict' = "missing"
    BY <1>2 DEF GiveUp, Stops
  <2> QED
    BY <1>2, <2>1, MissingWasHidden DEF FoundIsNew
<1>3. CASE UNCHANGED <<clockVars, cwVars>>
  BY <1>3 DEF FoundIsNew, MissingWasNotShown, New
<1>4. CASE CloudWatch \/ BeginTest \/ TakeBaseline \/ BeginWait \/ Fails \/ LookLater
             \/ AskAgain \/ Act \/ CwTick
  <2>1. verdict' \in {"nothing", "error"}
    BY <1>4 DEF CloudWatch, Happens, IsShown, Answer, BeginTest, TakeBaseline, BeginWait,
                Fails, Stops, LookLater, Looked, AskAgain, Act, CwTick, CwClock
  <2> QED
    BY <2>1 DEF FoundIsNew, MissingWasNotShown
<1> QED
  BY <1>1, <1>2, <1>3, <1>4 DEF CwNext, Test

LEMMA CwAlways == CwSpec => []CwInv
<1>1. ASSUME Start, CwInit PROVE CwInv
  <2> USE <1>1, FS_EmptySet, CallAssumption, WaitsAssumption DEF Start, CwInit
  <2>1. CwTypeOK /\ IsFiniteSet(shown) /\ CwClock
    BY DEF CwTypeOK, CwClock
  <2>2. SumIsOfShown /\ BaselineIsOfShown /\ FoundIsNew /\ MissingWasNotShown
    BY DEF SumIsOfShown, BaselineIsOfShown, FoundIsNew, MissingWasNotShown
  <2> QED
    BY <2>1, <2>2 DEF CwInv
<1>2. ASSUME CwInv, [CwNext]_<<clockVars, cwVars>> PROVE CwInv'
  <2>1. /\ CwTypeOK /\ IsFiniteSet(shown) /\ CwClock /\ SumIsOfShown /\ BaselineIsOfShown
        /\ FoundIsNew /\ MissingWasNotShown
    BY <1>2 DEF CwInv
  <2>2. CwClock' /\ IsFiniteSet(shown')
    BY <1>2, <2>1, CwClockHolds, CwFinite
  <2>3. CwTypeOK'
    BY <1>2, <2>1, <2>2, CwTypesHold
  <2>4. SumIsOfShown' /\ BaselineIsOfShown'
    BY <1>2, <2>1, <2>2, <2>3, SumsHold
  <2>5. FoundIsNew' /\ MissingWasNotShown'
    BY <1>2, <2>1, VerdictsHold
  <2> QED
    BY <2>2, <2>3, <2>4, <2>5 DEF CwInv
<1> QED
  BY <1>1, <1>2, PTL DEF CwSpec

\* The variables of the waits stay in their domains, for every timeout and window.
THEOREM CwTypeCorrect == CwSpec => []CwTypeOK
<1>1. CwInv => CwTypeOK
  BY DEF CwInv
<1> QED
  BY <1>1, CwAlways, PTL

-----------------------------------------------------------------------------
(* The live test                                                           *)

USE DEF vars

LiveInv == /\ now \in Nat /\ began \in Nat /\ began <= now
           /\ wpc # "act" => pc = "idle"

\* How each step of one helper looks to the other.
LEMMA ClockSteps ==
  ASSUME LiveInv, [Next]_vars
  PROVE  now' \in Nat /\ now <= now' /\ began' \in Nat /\ began' <= now'
<1> USE DEF LiveInv
<1>1. CASE Watch
  BY <1>1 DEF Watch, Test, BeginTest, TakeBaseline, BeginWait, Fails, Found, GiveUp, LookLater,
              AskAgain, Stops, Turn, CwTick, Passes, WaitToBegin
<1>2. CASE wpc = "act" /\ Exec
  BY <1>2 DEF Exec, Begin, Raises, Sent, Refused, DescribedInstance, GiveUpSending,
              CannotBecomeReady, BecameReady, NotReady, Finished, Unfinished, LookAgain,
              PollAgain, Goes, Ends, Turn
<1>3. CASE SsmTick
  BY <1>3 DEF SsmTick, Passes
<1>4. CASE Return \/ Abort
  BY <1>4 DEF Return, Abort, SsmForgets, Turn
<1>5. CASE Surprise
  BY <1>5 DEF Surprise, TargetChanges, Happens
<1>6. CASE Environment
  BY <1>6 DEF Environment, CommandMoves, Serve, TakeCommand, RefuseCommand, DescribeInstances,
              DescribeInformation, GetInvocation, Answers, IsShown, Answer
<1>7. CASE Over \/ UNCHANGED vars
  BY <1>7 DEF Over
<1> QED
  BY <1>1, <1>2, <1>3, <1>4, <1>5, <1>6, <1>7 DEF Next, Execute

LEMMA IdleBesideTheAction ==
  ASSUME LiveInv, [Next]_vars
  PROVE  LiveInv'
<1>1. wpc' # "act" => pc' = "idle"
  <2>1. CASE Watch
    BY <2>1 DEF Watch, LiveInv
  <2>2. CASE Execute
    BY <2>2 DEF Execute
  <2>3. CASE Return \/ Abort
    BY <2>3 DEF Return, Abort, SsmForgets
  <2>4. CASE Surprise
    BY <2>4 DEF Surprise, TargetChanges, Happens, LiveInv
  <2>5. CASE Environment
    BY <2>5 DEF Environment, IsShown, Answer, LiveInv
  <2>6. CASE Over \/ UNCHANGED vars
    BY <2>6 DEF Over, LiveInv
  <2> QED
    BY <2>1, <2>2, <2>3, <2>4, <2>5, <2>6 DEF Next
<1> QED
  BY <1>1, ClockSteps DEF LiveInv

LEMMA StepsOfBoth ==
  ASSUME LiveInv, [Next]_vars
  PROVE  [SsmNext]_<<clockVars, ssmVars>> /\ [CwNext]_<<clockVars, cwVars>>
<1>1. now' \in Nat /\ now <= now' /\ began' \in 0..now'
  BY ClockSteps
<1>2. CASE Watch
  <2>1. SsmElsewhere
    BY <1>1, <1>2 DEF Watch, LiveInv, SsmElsewhere
  <2>2. CwNext
    BY <1>1, <1>2 DEF Watch, CwNext, WaitToBegin, Act
  <2> QED
    BY <2>1, <2>2 DEF SsmNext
<1>3. CASE Execute
  <2>1. Act
    BY <1>1, <1>3 DEF Execute, Act
  <2> QED
    BY <1>3, <2>1 DEF Execute, SsmNext, CwNext
<1>4. CASE Return \/ Abort
  BY <1>4 DEF Return, Abort, SsmNext, CwNext, Test
<1>5. CASE Surprise
  BY <1>5 DEF Surprise, SsmNext, CwNext, Aws, CloudWatch, TargetChanges, Happens
<1>6. CASE Environment
  BY <1>6 DEF Environment, SsmNext, CwNext, Aws, CloudWatch, CommandMoves, Serve, TakeCommand,
              RefuseCommand, DescribeInstances, DescribeInformation, GetInvocation, Answers,
              IsShown, Answer
<1>7. CASE Over \/ UNCHANGED vars
  BY <1>7 DEF Over
<1> QED
  BY <1>2, <1>3, <1>4, <1>5, <1>6, <1>7 DEF Next

LEMMA Composition == Spec => SsmSpec /\ CwSpec
<1>1. Init => Start /\ SsmInit /\ CwInit /\ LiveInv
  BY DEF Init, Start, SsmInit, CwInit, LiveInv
<1>2. LiveInv /\ [Next]_vars => LiveInv'
  BY IdleBesideTheAction
<1>3. LiveInv /\ [Next]_vars =>
        [SsmNext]_<<clockVars, ssmVars>> /\ [CwNext]_<<clockVars, cwVars>>
  BY StepsOfBoth
<1> QED
  BY <1>1, <1>2, <1>3, PTL DEF Spec, SsmSpec, CwSpec

\* ssm_exec ends in time, also within a test, however its target behaves: sending takes
\* up to twice the readiness timeout (ssm.py:129, :82), the command its own and the grace.
THEOREM ExecEndsInTime == Spec => []EndsInTime
<1>1. SsmInv => EndsInTime
  BY InTime
<1> QED
  BY <1>1, SsmAlways, Composition, PTL

\* A target that is ready, or takes commands, since before the last calls is never given
\* up, nor any before its readiness timeout (ssm.py:97-108, :142-151).
THEOREM ReadyTargetsAreUsed == Spec => []ReadyTargetIsNotGivenUp
<1>1. SsmInv => ReadyTargetIsNotGivenUp
  BY DEF SsmInv
<1> QED
  BY <1>1, SsmAlways, Composition, PTL

\* A command that ended in time is returned (ssm.py:162-185).
THEOREM FinishedCommandsAreReturned == Spec => []FinishedIsReturned
<1>1. SsmInv => FinishedIsReturned
  BY DEF SsmInv
<1> QED
  BY <1>1, SsmAlways, Composition, PTL

\* Every wait ends soon after its deadline (cloudwatch.py:36-49, :138-156, :172-184).
THEOREM WaitsEndInTime == Spec => []WaitEndsInTime
<1>1. CwInv => WaitEndsInTime
  BY CallAssumption, WaitsAssumption DEF CwInv, CwClock, CwTypeOK, WaitEndsInTime
<1> QED
  BY <1>1, CwAlways, Composition, PTL

\* What a wait finds is new (cloudwatch.py:39, :139-148, :174-181).
THEOREM FoundEventsAreNew == Spec => []FoundIsNew
<1>1. CwInv => FoundIsNew
  BY DEF CwInv
<1> QED
  BY <1>1, CwAlways, Composition, PTL

\* What a wait misses was not shown in time, or has left the window that slides.
THEOREM MissedEventsWereNotShown == Spec => []MissingWasNotShown
<1>1. CwInv => MissingWasNotShown
  BY DEF CwInv
<1> QED
  BY <1>1, CwAlways, Composition, PTL
=============================================================================
