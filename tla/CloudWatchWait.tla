-------------------------- MODULE CloudWatchWait --------------------------
(***************************************************************************)
(* The waits of src/common/cloudwatch.py, for one action of a live test:   *)
(* wait_for_log_event and wait_for_metric_sum look for what happened since *)
(* a start taken before the action, wait_for_metric_delta compares the sum *)
(* over a window that slides with the clock with a baseline taken, by      *)
(* metric_sum, before the action.  What happens is shown by CloudWatch     *)
(* later, and not in order.                                                *)
(*                                                                         *)
(* What is waited for are events, each at a time of its own: the matching  *)
(* log events, or the increments of the metric by one.                     *)
(***************************************************************************)
EXTENDS PollClock, FiniteSets

CONSTANTS
    Kinds,          \* the waits used, of log, sum and delta
    WaitTimeout,    \* timeout_seconds
    WaitPoll,       \* poll_interval
    Lookback,       \* lookback_seconds
    Minimum,        \* min_value, minimum_delta
    Period          \* length of a metric's datapoints: the minute

ASSUME KindsAssumption == Kinds \subseteq {"log", "sum", "delta"}
ASSUME WaitsAssumption == /\ WaitTimeout \in Nat /\ WaitPoll \in Nat \ {0}
                          /\ Lookback \in Nat /\ Minimum \in Nat \ {0}
                          /\ Period \in Nat \ {0}

VARIABLES
    hidden,        \* the times of the events CloudWatch does not show yet
    shown,         \* the events it shows: [at, since]
    kind,          \* which wait the test uses
    wpc,           \* where the test is
    start,         \* start_ms, start, or when the baseline was asked for
    baseline,      \* baseline
    sum,           \* what CloudWatch answers to the call under way, -1 if nothing yet
    wDeadline,     \* deadline
    verdict,       \* "nothing" or how the wait ended
    told           \* history: when it ended

eventVars == <<hidden, shown>>
waitVars  == <<kind, wpc, start, baseline, sum, wDeadline, verdict, told>>
cwVars    == <<eventVars, waitVars>>

CwInit == /\ hidden = {} /\ shown = {}
          /\ kind \in Kinds
          /\ wpc = "new"
          /\ start = now /\ baseline = 0
          /\ sum = -1 /\ wDeadline = now /\ verdict = "nothing" /\ told = now

-----------------------------------------------------------------------------
(* CloudWatch.                                                             *)

Happens == /\ wpc # "done"
           /\ now \notin hidden \cup {e.at : e \in shown}
           /\ hidden' = hidden \cup {now}
           /\ UNCHANGED <<clockVars, shown, waitVars>>

IsShown == /\ wpc # "done"
           /\ \E t \in hidden : /\ hidden' = hidden \ {t}
                                /\ shown' = shown \cup {[at |-> t, since |-> now]}
           /\ UNCHANGED <<clockVars, waitVars>>

\* get_metric_statistics adds up whole datapoints, each counting what happened within its
\* minute: those that begin before the end of the window, and the first of them is the
\* one the start of the window falls in.
Datapoint(t) == t - (t % Period)
Covers(from, to, e) == Datapoint(from) <= e.at /\ Datapoint(e.at) < to

\* The window of a call: a recent one ends when the call begins, and a sum since `start'
\* ends a minute later.  A log's events are compared with start_ms one by one.
InWindow(e) == CASE kind = "delta" -> Covers(began - Lookback, began, e)
                 [] kind = "sum"   -> Covers(start, began + Period, e)
                 [] kind = "log"   -> start <= e.at
Counted == {e \in shown : InWindow(e)}

\* A log group that does not exist is one without events.
Answer == /\ wpc \in {"baseline", "look"}
          /\ sum = -1
          /\ sum' = Cardinality(Counted)
          /\ UNCHANGED <<clockVars, eventVars, kind, wpc, start, baseline,
                         wDeadline, verdict, told>>

-----------------------------------------------------------------------------
(* The test.                                                               *)

\* now_ms() or the time for `start'; the baseline for a delta.
BeginTest == /\ wpc = "new"
             /\ wpc' = IF kind = "delta" THEN "baseline" ELSE "act"
             /\ start' = now
             /\ Turn
             /\ UNCHANGED <<eventVars, kind, baseline, sum, wDeadline, verdict, told>>

TakeBaseline == /\ wpc = "baseline" /\ Answered /\ sum # -1
                /\ baseline' = sum
                /\ sum' = -1
                /\ wpc' = "act"
                /\ Turn
                /\ UNCHANGED <<eventVars, kind, start, wDeadline, verdict, told>>

\* What the test does before it waits takes time, and uses the clock.
Act == /\ wpc \in {"new", "act"}
       /\ now' \in Nat /\ now' >= now /\ began' \in 0..now'
       /\ UNCHANGED cwVars

BeginWait == /\ wpc = "act"
             /\ wpc' = "look"
             /\ wDeadline' = now + WaitTimeout
             /\ Turn
             /\ UNCHANGED <<eventVars, kind, start, baseline, sum, verdict, told>>

Stops(why) == /\ wpc' = "done" /\ verdict' = why /\ told' = now
              /\ Turn
              /\ UNCHANGED <<eventVars, kind, start, baseline, sum, wDeadline>>

\* A call may fail with an error nobody expects, and so may the action.
Fails == /\ \/ wpc \in {"baseline", "look"} /\ Answered
            \/ wpc = "act"
         /\ Stops("error")

IgnoresBaseline == sum >= Minimum
Enough == CASE kind = "log"   -> sum >= 1
            [] kind = "sum"   -> sum >= Minimum
            [] kind = "delta" -> sum - baseline >= Minimum

Looked == wpc = "look" /\ Answered /\ sum # -1
Found == Looked /\ Enough /\ Stops("found")

\* None, False or a TimeoutError.
TimeIsUpIfNothing == now > wDeadline /\ sum = 0
TimeIsNearlyUp == now + WaitPoll > wDeadline
TimeIsUp == now > wDeadline
GiveUp == Looked /\ ~Enough /\ TimeIsUp /\ Stops("missing")

LookLater == /\ Looked /\ ~Enough /\ ~TimeIsUp
             /\ wpc' = "sleep"
             /\ sum' = -1
             /\ Turn
             /\ UNCHANGED <<eventVars, kind, start, baseline,
                            wDeadline, verdict, told>>

AskAgain == /\ wpc = "sleep"
             /\ now = began + WaitPoll
             /\ wpc' = "look"
             /\ Turn
             /\ UNCHANGED <<eventVars, kind, start, baseline, sum,
                            wDeadline, verdict, told>>

CwTick == /\ wpc \in {"baseline", "look", "sleep"}
          /\ Passes(IF wpc = "sleep" THEN WaitPoll ELSE MaxCall)
          /\ UNCHANGED cwVars

-----------------------------------------------------------------------------
CloudWatch == Happens \/ IsShown \/ Answer
Test == \/ BeginTest \/ TakeBaseline \/ BeginWait \/ Fails
        \/ Found \/ GiveUp \/ LookLater \/ AskAgain
CwNext == CloudWatch \/ Test \/ Act \/ CwTick

CwSpec == Start /\ CwInit /\ [][CwNext]_<<clockVars, cwVars>>

-----------------------------------------------------------------------------
(* Properties                                                              *)

\* The variables stay in their domains; nothing is shown before it happens.
CwTypeOK ==
    /\ hidden \in SUBSET (0..now)
    /\ shown \in SUBSET [at : 0..now, since : 0..now]
    /\ \A e \in shown : e.at <= e.since
    /\ kind \in Kinds
    /\ wpc \in {"new", "baseline", "act", "look", "sleep", "done"}
    /\ start \in Nat /\ baseline \in Nat
    /\ sum \in Nat \cup {-1}
    /\ wDeadline \in Nat
    /\ verdict \in {"nothing", "found", "missing", "error"}
    /\ told \in Nat

\* A wait ends one sleep and one call after its deadline at the latest.
WaitEndsInTime ==
    wpc \in {"look", "sleep"} => now <= wDeadline + WaitPoll + MaxCall

\* What a wait reports as found is new: a log event happened after the test began, the
\* increments of a sum in the minute it began in or later, and those of a delta were first
\* shown after it began, as its baseline is subtracted from a window that only moves forward.
New(e) == CASE kind = "log"   -> e.at >= start
            [] kind = "sum"   -> e.at >= Datapoint(start)
            [] kind = "delta" -> e.since >= start
FoundIsNew ==
    verdict = "found" =>
        Cardinality({e \in shown : New(e)}) >= (IF kind = "log" THEN 1 ELSE Minimum)

\* A wait gives up only if what it looks for was not shown a call before its deadline,
\* or, for a delta, is no longer in the window, which also loses what the baseline counts.
MissingWasNotShown ==
    verdict = "missing" =>
        /\ told > wDeadline
        /\ LET Before == {e \in shown : e.since <= wDeadline - MaxCall}
           IN  CASE kind = "log"   -> \A e \in Before : e.at < start
                 [] kind = "sum"   ->
                      Cardinality({e \in Before : e.at >= Datapoint(start)}) < Minimum
                 [] kind = "delta" ->
                      Cardinality({e \in Before : e.at >= told - Lookback})
                        < baseline + Minimum
=============================================================================
