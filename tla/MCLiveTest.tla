---------------------------- MODULE MCLiveTest ----------------------------
(* An instance of LiveTest: a target that boots, that SSM calls online before *)
(* it takes commands, that is stopped.                                        *)
EXTENDS LiveTest

Target(ec2, ssm, accepts) == [ec2 |-> ec2, ssm |-> ssm, accepts |-> accepts]
MCTargets == {Target("pending", "unmanaged", FALSE), Target("running", "Online", FALSE),
              Target("running", "Online", TRUE), Target("stopping", "ConnectionLost", FALSE)}
MCEndings == {"Success"}
MCKinds == {"log", "sum", "delta"}
=============================================================================
