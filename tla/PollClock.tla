----------------------------- MODULE PollClock -----------------------------
(***************************************************************************)
(* The clock of the polling helpers in src/common: what time.monotonic()   *)
(* and time.sleep() do, and how long a call of the AWS API may take.  A    *)
(* helper is always inside one wait, a call or a sleep, that began at      *)
(* `began'.  A call takes 1..MaxCall units, the SDK's own retries and all  *)
(* the pages of a paginated call included.                                 *)
(***************************************************************************)
EXTENDS Integers

CONSTANT MaxCall
ASSUME CallAssumption == MaxCall \in Nat \ {0}

VARIABLES now, began
clockVars == <<now, began>>

Start == now = 0 /\ began = 0

\* The wait is over and the next one begins.
Turn == began' = now /\ UNCHANGED now
Passes(limit) == now < began + limit /\ now' = now + 1 /\ UNCHANGED began
Answered == now > began
=============================================================================
