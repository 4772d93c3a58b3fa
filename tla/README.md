# A verification project for aws-firewall-proxy

TLA+ modules that model the parts of aws-firewall-proxy with behaviour over
time, TLC configurations that check them on small instances, and theorems that
the TLA+ proof system checks for every instance. Paths below are relative to
`src/`.

    tlc -workers 2 -config PolicyRefresh_nominal.cfg MCPolicyRefresh
    tlapm PolicyRefresh_proofs.tla

## 1. The system

Workloads of a VPC send their TCP/443 and TCP/80 traffic through an nginx
(OpenResty) instance that does not trust the destination address the client
chose: it resolves the name in the TLS SNI or the HTTP Host header itself.
AWS Network Firewall behind it admits names only. Two Lambdas work beside the
data path.

| Component | State | Operations | Talks to |
|---|---|---|---|
| **Runtime-policy refresher** `packer/nginx-proxy/assets/scripts/refresh-proxy-runtime-policy.sh` with its timer and units, and the `user_data` of `terraform/nginx_proxy.tf` | four files on disk (allowlist, resolver, Lua policy, `current-policy.json`), the backups of a run | fetch, validate, compare, back up, install, `nginx -t`, revert, reload | AppConfig Agent (HTTP), nginx (files, signal), the Lua guard (file), systemd |
| **Ruleset-generator Lambda** `lambda/ruleset_generator/handler.py` | none of its own; one managed prefix list per FQDN in EC2 | resolve all FQDNs, then per list: describe, check capacity, read the pages, modify under a version | three resolvers, EC2, the schedule, the firewall (reads the lists) |
| **HTTP Host guard** `.../nginx/lua/check_http_host.lua` | none across connections | load policy, peek headers, parse, allowlist, resolve, compare, choose upstream | the Lua policy file, the nginx map, DNS |
| **SNI-spoofing detector Lambda** `lambda/sni_spoofing_detector/handler.py` | none; the metric | decode a batch, validate, resolve with CNAMEs, alert | CloudWatch Logs (at least once), DNS, CloudWatch |
| **nginx stream configuration** `.../nginx/conf/nginx.conf.template` | configuration of the running master | SNI passthrough, HTTP listener, observation log | all of the above |
| **original_dst module** `.../ngx_stream_original_dst_module.c` | none | one `getsockopt` | nginx |
| **SSM helper** `common/ssm.py`, **CloudWatch helpers** `common/cloudwatch.py` | deadlines | send, wait for readiness, poll | SSM, EC2, CloudWatch |
| **Benchmarks** `benchmark/*/run.py` | a scratch list, the changed Lambda configuration | change, measure, restore | Lambda, EC2, SSM |
| **Network Firewall rules** `terraform/firewall.tf`, `lambda_ruleset_generator.tf` | the rule strings, the prefix lists | admit or drop | prefix lists |
| Infrastructure, image build, log shipping | - | declarations | - |

### What is hard

* The refresher replaces four files one after the other while nginx may be
  starting, may read two of them on a reload, and the Lua guard reads a third
  at every connection. It decides whether there is anything to do from the
  fourth, so whatever fails after that one was written is not retried.
* A run may be killed at any command, the agent may be unreachable or answer
  nonsense, nginx may reject the rendered files, the instance may reboot.
* Lambda invocations overlap (schedule, manual invokes, asynchronous retries).
  The generator reads pages of a list that another invocation may be modifying
  and relies on EC2's `CurrentVersion`, publishes list by list and may die in
  between.
* The detector gets batches at least once, under one deadline for the whole
  batch.
* The guard takes its allowlist from the worker that accepted the connection and
  its resolvers and mode from a file it reads a moment later, then waits for the
  client and for DNS while both may be replaced.
* The two Lambdas parse DNS responses by hand and differently: one follows
  compression pointers, the other skips them.
* The helpers of the live tests act on answers that are old when they arrive,
  against deadlines they look at only between calls.

### What makes each component correct

* Refresher: between runs the four files belong to one policy that nginx
  accepts; nginx serves what is on disk; a good policy that stays deployed gets
  into effect and stays; a rejected one is withdrawn everywhere; a failure is
  repaired by the next policy.
* Generator: what EC2 accepts is exactly the difference to what the sender
  resolved; a list never holds a mixture; every invocation ends.
* Guard: a connection reaches only an address its allowed Host resolves to;
  in strict mode only if the client's address is among them; a genuine
  destination gets through whatever some resolvers fail to do; every connection
  is decided.
* Detector: an observation outside the resolved set raises an alert, whatever
  the other events of its batch do; a genuine one never does.
* DNS parsers of both Lambdas: they end, stay in the message, and take the same
  addresses from it.
* SSM helper: it ends in time; a ready target is not given up; a command that
  finished before the deadline is returned. CloudWatch waits: they end in time,
  report nothing old and miss nothing that was shown.
* Benchmarks: whatever fails, the configuration is restored.

`PROJECT.json` lists the hazards at their lines, with the properties that
cover them or the reason why none does yet.

## 2. The modules

| Module | What it is |
|---|---|
| `PolicyStore` | what the refresher promises: an instance that holds one policy and switches in one step to another that was offered and is acceptable |
| `PolicyRefresh` | one proxy instance: AppConfig, its agent, `user_data`, systemd, nginx, and the script, one action per command that changes something |
| `MCPolicyRefresh` | two good policies, one whose allowlist and one whose resolver nginx rejects |
| `PolicyRefresh_proofs` | theorems about `PolicyRefresh` |
| `PolicyWindow` | what the HTTP Host guard sees of the refresher: a policy file and workers that differ only while a window is open |
| `HttpGuard` | one HTTP connection through the guard, while `PolicyWindow` changes under it |
| `MCHttpGuard` | a strict, an audit and an unreadable policy, a reliable and an unreliable resolver |
| `HttpGuard_proofs` | theorems about `HttpGuard` |
| `PrefixLists` | what the generator promises: each list changes in one step from one result to another, list by list in order |
| `RulesetGenerator` | concurrent invocations of the generator and the EC2 side of its prefix lists |
| `MCRulesetGenerator` | two invocations, two FQDNs, four answers |
| `RulesetGenerator_proofs` | theorems about `RulesetGenerator` |
| `SniDetector` | one batch of observations through all its deliveries to the detector |
| `MCSniDetector` | batches of up to three events, zones with chains, loops and disagreeing resolvers |
| `SniDetector_proofs` | theorems about `SniDetector` |
| `DnsFormat` | the bytes of a DNS response as both parsers take them |
| `DnsWalk` | what a parser of such a response promises |
| `DnsMessage` | the two Lambdas' parsers over one response |
| `MCDnsMessage` | every short name out of labels, zeros and pointers, with records of each kind, whole and cut off |
| `DnsMessage_proofs` | theorems about `DnsMessage` |
| `PollClock` | the clock of the polling helpers |
| `SsmExec` | `ssm_exec`, its target and its command |
| `CloudWatchWait` | the three waits for log events and metrics |
| `LiveTest` | both composed to a live test |
| `MCLiveTest` | a target that boots, is online before it takes commands, is stopped |
| `LiveTest_proofs` | theorems about `SsmExec`, `CloudWatchWait` and `LiveTest` |

How they are composed: `PolicyRefresh` implements `PolicyStore` (what its
operators rely on) and `PolicyWindow` (what the guard relies on); `HttpGuard`
has `PolicyWindow`'s step as one of its own. `RulesetGenerator` implements
`PrefixLists` (what the firewall's rules rely on). `DnsMessage` runs both parsers over
one message and shows that each implements `DnsWalk`; that is why one resolution
of `RulesetGenerator` and one answer of `SniDetector` are sets of addresses.
`LiveTest` extends `SsmExec` and `CloudWatchWait`, which share `PollClock`.

### PolicyRefresh

A file's content is abstracted to its origin. `disk` maps each of the four
files to the policy it was rendered from, to `"bootstrap"` (what
`provision.sh:154-168` seeds), or to a remnant of an interrupted `install`:
`"gone"`, `"cut"` (nginx rejects it) or `"empty"` (nginx accepts it). `loaded`
is what the nginx master took from its two includes, `backup` what the run
copied, `cand` the policy it fetched.

| Script | Actions |
|---|---|
| :35-44 coordinates | guard `configured` of `BeginRun` |
| :158 `curl`, :174-179 | `FetchFails` |
| :159 `validate_policy_json` | `FetchInvalid` |
| :161-164 `cmp` | `FetchUnchanged`, `FetchChanged` |
| :120-123 `cp` | `TakeBackups`, `CopiesFail` |
| :125-130 `install` | `Install`, once per file |
| :132 `nginx -t` | `TestFiles` |
| :134-142 revert | `Revert`, `RevertLast` |
| :145-150 reload | `SkipReload`, `SendReload`, `ReloadFails` |
| :11 `set -e`, a kill, a full disk | `RunDies` |
| the instance goes down | `Reboot`, `RebootMidWrite` |

Around it: `Deploy` (AppConfig), `AgentPoll` (the agent's 45 s poll),
`WriteConfig` and `StartIsNoop` (`user_data`; its two `systemctl start` are the
waits in `userData`), `BeginStart`, `NginxReads`, `NginxUp` (a start of the
unit: it reads the files some time before systemd calls it active),
`HandleReload` (the master takes the signal later).

Three things can spoil a run. It may end at any command (`RunDies`), where an install
under way leaves a remnant. The script ignores a `cp` that fails, so that any of the
copies may be missing or cut (`CopiesFail`, each counted in `lostCopies`). And the
instance may go down: between runs, or in a run that has not touched the files or has
had them accepted (`Reboot`), and in the midst of one that writes
(`RebootMidWrite`), which is a death of the run as well and counts as one.

`StartOverlap` says whether a run may begin while nginx is starting. systemd
does not prevent it: `Before=nginx.service` orders two queued jobs, it does not
hold back a run once nginx's start is under way. With `TRUE` the hazard of the
skipped reload exists (run `together`); with `FALSE` the rest of the promises
hold (run `nominal`, theorem `ServesTheDisk`).

`Install` waits for `~reloading`: between the signal of one run and the first
install of a later run lie a fetch, a validation and three renderings, and the
master takes its signal long before. This is an assumption about time, and the
only one.

A policy stands for its document; that the three renderings of one document
belong together is what "rendered from" means here. Policies that differ only
in the fields of one file are not told apart from others.

### RulesetGenerator

`entries`, `version` and `busy` are EC2's side of the lists; the other
variables are, per invocation, the handler's local variables (`phase` and `at`
say where its two loops are). FQDN *i* owns list *i*. Addresses are numbers in
the order of `sorted()`.

| Handler | Actions |
|---|---|
| :19-42 resolution loop | `Resolve`, `ResolveFails` |
| :53-61 describe, capacity | `Describe`, `CapacityExceeded` |
| :174-186 paging | `ReadPage`, `ReadEmptyPage` |
| :151-171 difference and request | `KeepEntries`, `Modify`, `ModifyConflicts`, `AnswerLost` |
| Lambda timeout, API error | `Dies` |

`Settle` and the `busy` part of `VersionIsCurrent` are EC2's: what
`benchmark/lambda_bench/run.py:108-137` documents and waits for. `Resolve` puts
the answers of the three sources together: the platform's must have an address,
a public resolver's may be empty, as an error code counts as an empty answer
(:112); the result is cut to `MaxAddresses`. `Earlier` is an invocation that ended
well before the others begin; where there is one, the lists begin with what it
resolved. The FQDNS are distinct and each has its list, as
`terraform/lambda_ruleset_generator.tf` creates them; a missing list (:26-27)
fails in the same phase as a failing resolution and is part of `ResolveFails`.
When both removals and additions are empty the handler makes no request
(`KeepEntries`). `AnswerLost` is a request that EC2 accepted and whose answer did
not arrive: the SDK sends it again, as it is, it conflicts with itself, and the
invocation fails although its list is published. `ever` and `always` remember
what a list held at some time, or all the time, since an invocation described it;
they give the early return its property, `KeptWasThere`: it keeps only entries
that were there meanwhile and misses none that stayed. That is all it can
promise, as the pages carry no version.

`PrefixLists` is the same seen from the firewall: `held` are the lists, an
invocation comes by a result for every list at once (`Resolve`), and publishes it
list by list, each by one replacement (`Publish`). `ImplementsLists` maps `held` to
`entries`, `results` to `desired` once the pass is complete and `done` to
`published`; describing, the pages, a request that conflicts, a settling list, a
repeated request and an end are steps that change nothing there.

### PolicyWindow and HttpGuard

`onDisk` is the policy in `proxy_runtime_policy.lua`, `inWorkers` that of the
workers that accept connections. They may differ only while the window is open,
that is while a run, a reload or a start of nginx is under way; `PolicyRefresh` implements this where it promises anything of the kind:
without runs that overlap nginx's start, deaths, lost copies and failing reloads
(`ImplementsWindow`, theorem `WindowRefinement`). With any of those the file and
the workers may stay apart (run `together`), and then the guard's promise
`MixesOnlyDuringRefresh` falls with it; its other properties hold without the
window.

A policy of `HttpGuard` stands for all that is read from it: the hosts of the
allowlist map, the resolvers, `queries_per_host` and the mode. `Loads` is
`load_runtime_policy`; a file that is missing or is no Lua is a policy without
servers. A request is what `parse_http_request` tells apart: a proper request
line, CONNECT or not, its Host headers (`NoName` one that `normalize_host`
refuses) and the host of an absolute target.

| check_http_host.lua | Actions |
|---|---|
| nginx.conf.template:87-95 | `Accept` (fixes the worker's configuration, and `$original_dst`: an address or none) |
| :296-309 | `LoadFails`, `NoDestination`, `Load` |
| :202-218, :311-322 | `PeekFails`, `Refuse` |
| :326-330 | `Deny` |
| :169-188 the two loops | `BeginLookups`, `NextLookup` |
| :129-167 one query | `DepthExceeded`, `QueryFails`, `GetAnswer` |
| :332-340 | `NothingResolved` |
| :345-371 | `DropMismatch`, `Forward` |
| :287, :371-379 `xpcall` | `LuaRaises`, at the file `LoadFails` |
| the refresher, nginx | `Refresh` |

`Zone` gives for each resolver and name the answers it may give, any of them at
each query; a resolver that is not `Reliable` may fail at each query. `MaxDepth`
is `MAX_CNAME_DEPTH`: a name at that depth is looked up, one beyond it is not.
`Accept`, `Load`, `PeekFails` and each lookup are steps of their own, as the Lua
code yields between them (`peek`, the resolver's socket), and
the file is read some time after the worker was chosen. `missing_original_dst`
and `bad_original_dst` are one outcome, `NoDestination`; without the resolver
library, which the image installs, every connection would fail at :171.

### SniDetector

`phase` says where the handler is: at the loop over the events (`next`), at the
loop over the search's queue (`pop`), among the resolvers (`query`), at the
comparison (`verdict`), before `put_metric_data` (`publish`). `pending`,
`looking`, `asked`, `resolved` and `cnames` are the locals of
`resolve_a_records`; `printed` and `counted` remember over all deliveries what
each event caused.

| Handler | Actions |
|---|---|
| :28-39 `lambda_handler` | `Return`, and `Decide` at the end of each event |
| :59-68 malformed, :105-145 invalid | `SkipInvalid` |
| :148-152 | `BeginSearch` |
| :154-161 | `TakeName`, `SkipDeepName` |
| :164-170 one resolver | `GetAnswer`, `QueryFails`, `QueryTimesOut` |
| :172-178 | `Found`, `FollowCnames` |
| :73-78, :180 | `NothingFound`, `Matches` |
| :80-102, :288-298 | `PrintAlert`, `PublishMetric`, `AnswerLost`, `PublishFails` |
| the time limit (`terraform/sni_spoofing_detector.tf:87`) | `TimeRunsOut` |

`Deliver`, `Redeliver` and `Dies` are Lambda's and CloudWatch Logs': a failed
invocation is tried again, a handled batch may come again, a sandbox may end
(which stands also for a hanging `put_metric_data` and for the limit reached
outside a DNS timeout).

`zone` gives for each resolver and name the answers it may give, any of them at
each query: resolvers may disagree and rotate. `Reliable` are the resolvers
that always answer; the others may fail or time out at each query. The queue is
a set of pairs of name and depth, of which one with the least depth is taken;
the order the code gives names of one depth, by parent and then alphabetical,
is left open. With pairs of increasing depth a pair cannot come back after it
was taken, so `seen` removes nothing but duplicates, and the set does that.
Time is counted in DNS timeouts. `put_metric_data` is a call of the SDK, which repeats a
request whose answer was lost, or that met a passing error, up to `MaxSends` times in
all: with each loss (`AnswerLost`) the request may have counted, so one alert may count
more than once, and an alert whose publication "failed" may have counted too. The time
that the repetitions take is not part of `spent`. Messages are the objects nginx writes; one
that is valid JSON but no object is outside the model.

### DnsFormat, DnsWalk and DnsMessage

A message is a sequence of bytes. `DnsFormat` holds what both parsers take for
granted: where numbers, labels, pointers and records are. `Width` is 2 and
`AddressSize` 4 in the protocol; the model checker uses 1 and 1, so that short
messages hold whole records, and the proofs allow both widths. `DnsWalk` is the
abstract parser: it walks over the entries in order, takes the address of each
answer that has one, and may give up anywhere. `DnsMessage` is both concrete
ones, one iteration of a loop or one field of a record at a time:

| Detector :206-285 | Generator :108-141 | Actions |
|---|---|---|
| :207-218 | :109-115 | `ReadHeader`; `SkipHeader` |
| :255-283 `read_dns_name` | :135-141 `skip_dns_name` | `FollowPointer`, `ReadLabel`, `NameRaises`; `SkipLabel`, `SkipBehind` |
| :219-223 | :116-118 | `ReadQuestion`; `SkipQuestion` |
| :227-244 | :121-129 | `ReadAnswer`, `ReadCname`; `SkipAnswer` |
| :246 | :131 | `ReturnRead`; `ReturnSkipped` |

The detector checks every bound itself; the generator leaves that to Python: a
byte behind the end is an `IndexError`, a slice that is too short a `struct.error`
or an `OSError`. A name's text matters only where decoding it fails
(`LabelIsFine`: bytes below 128); the set of CNAMEs the detector returns is left
out, the reading of them is not. The refinement of the detector's walk holds its
place at the first pointer while pointers are followed, and behind the record while
its CNAME is read: steps in there stutter. An error code is the one difference
`AgreeOnRecords` leaves open: the detector raises, the generator returns nothing
(`:112`), and `RulesetGenerator` has that as a possible answer.

### PollClock, SsmExec, CloudWatchWait and LiveTest

Time is a number. A helper is always inside one wait, a call of AWS or a
`time.sleep`; a call takes 1 to `MaxCall` units, the SDK's retries and all pages
of a paginated call included. What a call answers is fixed at some moment while it
is under way (`answer`, `sum`), and is acted upon when it returns, so that it may
be old.

| ssm.py | Actions |
|---|---|
| :129-138 | `Begin`, `TakeCommand`, `RefuseCommand`, `Sent` |
| :139-159 | `Refused`, `Raises`, `GiveUpSending` |
| :27-54 `_describe_target_state` | `DescribeInstances`, `DescribedInstance`, `DescribeInformation` |
| :85-109 `_wait_for_target_ready` | `CannotBecomeReady`, `BecameReady`, `NotReady`, `LookAgain` |
| :163-185 | `GetInvocation`, `Finished`, `Unfinished`, `PollAgain` |

`TargetChanges` lets the instance do what it likes and `CommandMoves` moves the
command; a call that fails may still have sent the command, once. That the SDK
sends `send_command` twice is left out (see the hazards).

| cloudwatch.py | Actions |
|---|---|
| :17-19, :78-120 before the action | `BeginTest`, `TakeBaseline` |
| :34, :136, :170 | `BeginWait` |
| :36-45, :139-146, :173-180 | `Answer`, with the windows of `InWindow` |
| :42-43, :147-148, :174-181 | `Found` |
| :47-49, :150-156, :182-184 | `GiveUp`, `LookLater`, `AskAgain` |

What is waited for are events at times of their own; CloudWatch shows each some
time later, in any order. A log event found is one such event, a metric's sum is
their number. `get_metric_statistics` returns whole datapoints of `Period` (the minute
of :85 and of `period_seconds`), each with all that happened in its minute, and the
first is the one in which the window begins (`Datapoint`, `Covers`). A sum "since
start" (:169) therefore also counts what happened in the same minute before the
start, up to 59 s, and a test that waits for one event may be content with an earlier
one; `FoundIsNew` says for the sum what holds: nothing from before the minute of the
start is counted. Log events are compared with `start_ms` one by one.

`LiveTest` puts the two together as `cloudwatch.py:1-7` and `:17-19` describe a
live test: the time or a baseline is noted, a command runs, its trace is waited
for. The live tests of the repository (`tests/test_proxy_up.py`,
`test_proxy_runtime.py`, `test_workload_baseline.py`) run `ssm_exec`; none of them waits
on CloudWatch yet. While `ssm_exec` runs
nobody looks at CloudWatch, so what is shown then is shown after it.

## 3. The runs

| Run | Instance | Checks | Result |
|---|---|---|---|
| `nominal` | 4 policies, 2 deployments, 1 reboot, no overlap | `TypeOK`, `RestsOnOnePolicy`, `ServesWhatIsOnDisk`, `Converges`, `RejectedIsWithdrawn`, `ImplementsStore`, `ImplementsWindow` | hold |
| `faults` | 2 policies (1 good), 1 deployment, 1 reboot, 1 death, 1 lost copy, 1 failing reload, overlap | `AppliedRunIsWhole`, `NextPolicyRepairs` | hold |
| `bootstrap` | overlap, no faults | `NginxWaitsForPolicy` | violated |
| `together` | overlap, no faults | `FilesChangeTogether` | violated |
| `publish` | 2 invocations after an earlier one, 2 FQDNs, capacities 2 and 1 | `TypeOK`, `AcceptedIsExact`, `HoldsOnePass`, `KeptWasThere`, `ConflictHasWinner`, `PublishesInOrder`, `EveryInvocationEnds`, `ImplementsLists` | hold |
| `untouched` | 2 invocations on empty lists, capacities 2 and 1 | `UntouchedOnFailure` | violated |
| `latest` | 2 invocations on empty lists, capacities 2 | `LatestResultStays` | violated |
| `batch` | 3 batches, 6 zones, 2 resolvers (1 reliable), depth 1, 2 deliveries, 3 timeouts, 2 repeated requests | `TypeOK`, `GenuineIsNotReported`, `SpoofingIsReported`, `OncePerDelivery`, `EveryDeliveryEnds` | hold |
| `deadline` | 2 events, no reliable resolver, 3 deliveries, no deaths | `BatchIsHandled` | violated |
| `guard` | 3 policies, 4 names, 2 resolvers (1 reliable), depth 1 | `TypeOK`, `ForwardsToItsHost`, `SpoofedIsCaught`, `GenuineGetsThrough`, `MixesOnlyDuringRefresh`, `EveryConnectionEnds` | hold |
| `live` | calls of 1 or 2 units, timeouts of 1 and 2, 2 surprises, datapoints of 2 units, all three waits | `EndsInTime`, `ReadyTargetIsNotGivenUp`, `FinishedIsReturned`, `WaitEndsInTime`, `FoundIsNew`, `MissingWasNotShown` | hold |
| `dns` | some 3 700 messages, 2 jumps | `TypeOK`, `AgreeOnRecords`, `ReadingProgresses`, `ParsingEnds`, `ReaderWalks`, `SkipperWalks` | hold |

**Bounds.** In `nominal`, two deployments let a third policy arrive while the second is
being installed or reverted. With one reboot the first boot can be interrupted and
followed by a second boot on a disk in any state: `nominal` interrupts it anywhere
but among the writes (a death, which `nominal` does without, as do its properties),
`faults` there too. In `faults` one death suffices to leave every mixture of a policy
and what was there before, and each kind of remnant in each file; the good policy comes
after the bad one or before it, the reboot and the lost copy before the death, in it or
after it, and the run after them shows the repair. Longer histories of deaths are
left to `AppliedRunsAreWhole` and `RunsAreAllOrNothing`, which have no bound. In `publish` a list
holds up to two entries, so pages can be split and the list can change between
them, into one that reads like what it no longer holds and into one that leaves
the next page empty; the resolvers' answers together may be longer than
`MAX_ADDRESSES_PER_FQDN`; the second list is too small for some of them, so an
invocation can fail after its first list. Two invocations suffice for every
conflict, and the third, over before they begin, for lists that are not empty at
first; the theorems hold for any number.

In `batch` depth 1 puts the boundary of `MAX_CNAME_DEPTH` inside a chain of three names: an
address at depth 1 is found, one at depth 2 is not; the loop leads back to its
first name; the second delivery may follow a handled, a failed or a killed one; with
`MaxSends` of 2 a first request may have counted or not before the second does, fails
or is lost as well.
In `deadline` a delivery has room for three timeouts and the two events need
four, as 20 s have room for 13 of the 1.5 s timeouts: seven names that two
silent resolvers do not answer.

In `guard` a connection takes the worker's configuration and the file from any two
of the three policies, so every mixture occurs; the names hold a chain as long as
the depth allows, one that is one longer, a loop, and answers that rotate between
resolvers and queries; one policy asks each resolver twice. In `live` the two
surprises (`MaxSurprises`) are changes of the target or events, so that a target
may become ready and be lost again, an event may happen before and after the
baseline; the calls may take long enough to pass every deadline, and the lookback
of 6 is short enough for the baseline to leave the window; `Lead` lets the clock
differ from zero when the test begins, and with datapoints of 2 units windows begin and
end inside one and at its edge. In `dns` the names of the entry have up to
three bytes out of a label's length, a zero, and pointers into the header, to
themselves, to another pointer and out of range; there are addresses, CNAMEs,
addresses of another class and of a wrong length, a second entry behind each kind
of first one, and the messages are also cut off at every byte of their last
record. Two jumps put the limit inside a chain of three pointers.

`CHECK_DEADLOCK FALSE` is said for the generator, the detector and the parsers
because the bounded set of invocations or deliveries, or the message, comes to an
end. The refresher never stops; in `guard` policies go on changing after the
connection has ended, and in `live` the end of the test is a step that changes
nothing.

**Fairness.** In `PolicyRefresh`: the timer starts a run every 60 s (weak
fairness of `BeginRun`); a program that started makes progress, `RunDies`
and reboots aside (weak fairness of the script's steps and of nginx's); the agent polls
every 45 s (`AgentPoll`); systemd's start job for nginx waits for a run in
progress and runs between two of them, which needs strong fairness because
runs come again and again; and the local endpoint does not fail every single
time it is asked (strong fairness of `FetchAnswered`), without which no policy
could ever arrive. Nothing is assumed of `Deploy`, `Reboot`, `RebootMidWrite`, `RunDies`,
`CopiesFail`, `FetchFails`, `FetchInvalid` or `ReloadFails`. In `RulesetGenerator`: an
invocation in progress goes on (`Progress`), as each runs on its own and the
calls have timeouts; nothing is assumed of `Start`, `Dies` or `Settle`.
In `SniDetector`: an invocation goes on (weak fairness of `Search \/ Handle`: it
is one thread and each query has a timeout) and a failed one is tried again
(weak fairness of `Deliver`); nothing is assumed of `Redeliver` or `Dies`.
In `HttpGuard`: the handler goes on (weak fairness of `Handle`: nginx resumes it
when what it waits for is there, and each wait has a timeout); nothing is assumed
of `Accept`, `Refresh` or `LuaRaises`, so no connection ends only because Lua fails. In `DnsMessage`: each parser goes on (weak fairness, as
each is a loop of its own process). `LiveTest` has none: its `EndsInTime` and
`WaitEndsInTime` bound the time instead, which says more.

**What the violated properties say.**

* `NginxWaitsForPolicy` (provision.sh:154-155, script:8-10, nginx-proxy
  README:109): `systemctl enable nginx` (provision.sh:196) starts nginx at boot
  whatever the refresh unit does. Its seed allowlist denies every Host, and its
  seed resolver is the VPC's.
* `FilesChangeTogether` (script:3): see `StartOverlap` above. Later runs find
  `current-policy.json` up to date, so the state lasts until the next policy.
* `UntouchedOnFailure` (docs/lambda-ip-fallback-tasks.md:73, :43-44): the loop of
  `replace_prefix_list_entries` has no rollback.
* `LatestResultStays` (the same document, :72): the version is read after the
  resolution, so it protects the entries of a list, not the order of passes.
* `BatchIsHandled` (docs/override-async-alert-proxy.md:87, :89): each query is
  bounded, their sum over a batch is not. The limit ends the whole batch, the
  retries meet the same events in the same order, and the events behind them are
  never judged.

For four of them a theorem says how much is true all the same, and so what the cause
is: `TogetherUnlessOverlap`, `FailuresStopThere`, `LatestUnlessOverlap` and
`HandledInTime` (section 4).

## 4. The theorems

All are proved for every value of the constants under the named assumptions of
the modules (disjointness of names, natural numbers, finite sets).

`PolicyRefresh_proofs`:

| Theorem | Statement |
|---|---|
| `TypeCorrect` | `Spec => []TypeOK` |
| `AppliedRunsAreWhole` | `Spec => []AppliedRunIsWhole` |
| `RestsWhole` | `Spec => []RestsOnOnePolicy` (while `Intact`: no death, no lost copy so far) |
| `ServesTheDisk` | without overlap, `Spec => []ServesWhatIsOnDisk` |
| `Refinement` | without deaths and lost copies, `Spec => ImplementsStore` |
| `WindowRefinement` | without overlap, deaths, lost copies and failing reloads, `Spec => ImplementsWindow` |
| `RunsAreAllOrNothing` | a run that is not cut short leaves the files it found, takes its candidate back, or leaves all four files of its policy |
| `VerdictsAreOnThePolicy` | `phase = "revert"` only with a rejected policy, `"reload"` only with a good one |
| `TogetherUnlessOverlap` | without overlap, `Spec => [](NothingFailed => FilesChangeTogether)` |
| `InEffectStays` | a good policy that is `Settled` is `InEffect` for as long as it stays deployed |
| `ReloadSettles` | a run that sends the reload for the deployed policy has made it `Settled` |
| `RunsOnlyGetOn` | a run's every step is its end, a later phase or the next file |

Neither `AppliedRunIsWhole` nor `RestsOnOnePolicy` is inductive: what holds at
the reload depends on how far the install loop has come, and what holds after a
revert on what the backups were. `RunInv` says it for every phase: while a run
installs, the files before `file` are the candidate's and the others are the
backups; while it reverts, the files before `file` are the backups' again; and
as long as the instance is `Intact` the backups are whole. `ServeInv` adds what the master has loaded
relative to the disk and to the backups of the run in progress, which is where
`~StartOverlap` is used. The refinement maps `stored` to the backup while a run
has not passed `nginx -t` and to the disk otherwise, so that `Adopt` is the step
`TestFiles`; `OfferedHolds` gives that the candidate had been deployed.
`WindowRefinement` needs no invariant of its own: between runs `ServesWhatIsOnDisk`
and `RestsOnOnePolicy` make file and workers agree, and every step that makes them
differ leaves a run, a reload or a start under way.

`RunsAreAllOrNothing` is stronger than `RestsOnOnePolicy`: nothing is assumed about
what the run finds, so it also holds on what runs that died have left. `RevertInv`
follows the revert loop, with the one exception the code makes: a file without a
backup keeps the candidate's content (`TakenBack`), and a copy that failed is what a
file comes back as. That the verdict of `nginx -t` is
on the candidate alone rests on `RunInOrder`: at the test all four files are the
candidate's, whatever was there before.

`TogetherUnlessOverlap` is the other side of the run `together`: of overlaps, deaths,
lost copies and failing reloads at least one is needed, and overlaps are the one that no error
is logged for. `InEffectStays` and `ReloadSettles` are `Converges` without its
fairness: what has to happen is that a run fetches the policy and gets to its reload;
from then on reboots, failing fetches, deaths and overlaps change nothing, because
every later fetch finds the policy unchanged (`SettledStep`), and on the way a run
cannot turn back (`RunsOnlyGetOn`) nor reject a good policy.

`RulesetGenerator_proofs`:

| Theorem | Statement |
|---|---|
| `TypeCorrect` | `Spec => []TypeOK` |
| `AcceptedRequestsAreExact` | `Spec => []AcceptedIsExact` |
| `ListsHoldOnePass` | `Spec => []HoldsOnePass` |
| `KeptEntriesWereThere` | `Spec => []KeptWasThere` |
| `OrderedPublication` | `Spec => PublishesInOrder` |
| `ConflictsHaveWinners` | `Spec => []ConflictHasWinner` |
| `RepetitionsAreRefused` | `Spec => []RepetitionIsRefused`: a request sent again never takes effect again |
| `Refinement` | `Spec => ImplementsLists` |
| `LatestUnlessOverlap` | `Spec /\ []OneAtATime => []LatestResultStays` |
| `FailuresStopThere` | `Spec => []FailureStopsThere`: a failed resolution has touched no list, a failure at a list none behind it |
| `InvocationsOnlyGetOn` | `Spec => InvocationsGetOn`: every step of an invocation brings it nearer to its end |

`AcceptedRequestsAreExact` rests on `ReadInv`: as long as the list still has the
version an invocation saw, what it has read is exactly the part of the list up
to its token; a modification by anyone raises the version and frees the
invariant of its obligation. `PassInv` follows the resolution loop (which FQDNs
have a result, and that published lists lie before the current one), `ConflictInv`
relates versions to the lists others have published.

`Refinement` puts these together. A modification that is accepted leaves exactly the
desired entries, because `ReadInv` makes the differences exact for the version it
carries; it is the first one of its invocation to this list, because a repetition
carries the version from before (`LostInv`) and versions only rise; and the lists
come in order. Everything else an invocation or EC2 does is a stutter. Nothing is
assumed about how often the lists change under a reader, so the theorem says that the
page-wise reading is as good as an atomic one as far as the lists are concerned (what
an early return is founded on is `KeptWasThere`).

`LatestUnlessOverlap` needs `OneAtATime`: no two invocations are between the end of
their pass and their own end at the same time; resolutions may overlap. `SerialInv` says
then that the one that publishes has the latest pass and that the lists behind it hold
what it wants, and that the last to end well left the lists as it wanted them, unless
another has begun to publish. The Terraform provides nothing of the kind (the function
has no reserved concurrency), and the run `latest` shows what happens without.
`FailuresStopThere` is what is left of the two claims the run `untouched` refutes: the
order of lists is kept, so a failure leaves the lists before it replaced and those
behind it alone.

`InvocationsOnlyGetOn` is the half of `EveryInvocationEnds` that needs no fairness.
Stage, list, page token and `published` form a lexicographic measure that no step
lowers, not even an empty page or one of a list that grows between two pages; the
other half, that an invocation takes its steps, is `Progress`.

`SniDetector_proofs`:

| Theorem | Statement |
|---|---|
| `TypeCorrect` | `Spec => []TypeOK` |
| `AlertsOncePerDelivery` | `Spec => []OncePerDelivery` |
| `GenuineNeverReported` | `Spec => []GenuineIsNotReported` |
| `SpoofingAlwaysReported` | `Spec => []SpoofingIsReported` |
| `DeliveriesOnlyGetOn` | `Spec => DeliveryGetsOn`: every step of a delivery brings it nearer to its end |
| `HandledInTime` | with `EnoughTime`, `Spec => []BatchIsHandled` |

They hold for any batches, answers, number of resolvers, depth, time limit and
number of deliveries. `CountInv` says that events not yet judged have alerted in
earlier deliveries only, and that an event has counted at most once for each request
its alerts have made: `MaxSends` of them for an alert that is done with, and for the
one being published those sent so far. `SearchInv` says that a search stays within every set of
names closed under CNAMEs, so that what it has found comes from answers for that
set. `ReachInv` is the completeness of the breadth-first search: take any ranking
of the names by the number of CNAMEs a reliable resolver needs to get to addresses;
as long as nothing was found, some name from which addresses are still within
`MAX_CNAME_DEPTH` is queued, or is being looked up and the resolver has yet to be
asked or has answered with a name of lower rank. So an empty queue means there was
nothing to find (`NothingMissed`), and `ReportInv` carries that over the events the
loop has passed.

The measure of `DeliveriesOnlyGetOn` is the delivery, the event, the stage and, inside
a search, the queue in multiset order: taking a name away and queueing names one deeper
makes it smaller as long as the queue never spans more than two depths, which is
`LevelInv`, the level structure of a breadth-first search. So CNAMEs that lead back
cannot keep a search going, and no fairness is needed for that.

`HandledInTime` is the positive side of the run `deadline`. `EnoughTime` says that
every batch's `EventTimeouts`, one time-out of each unreliable resolver for each name at each
depth, fit in the limit, and that no sandbox dies; then the time limit never strikes,
whatever is asked. Answers and requests of the SDK take no time here, as in the model, so for the real
function the limit is to be read as what answers leave of it. The bound is coarse:
it lets every name come at every depth. The limit of 20 s has room for 13 time-outs of
1.5 s; with two resolvers and depth 5 the bound is 12 for a name without CNAMEs, so the
theorem covers one such event, and a larger batch or zone needs a longer limit. The
run `deadline` shows that this is not the bound's fault alone: some batches that are too
large for it do fail.

`HttpGuard_proofs`:

| Theorem | Statement |
|---|---|
| `TypeCorrect` | `Spec => []TypeOK` |
| `OnlyToTheHost` | `Spec => []ForwardsToItsHost` |
| `SpoofingCaught` | `Spec => []SpoofedIsCaught` |
| `GenuineServed` | `Spec => []GenuineGetsThrough` |
| `MixedOnlyInTheWindow` | `Spec => []MixesOnlyDuringRefresh` |
| `ConnectionsOnlyGetOn` | `Spec => ConnectionGetsOn`: every step of the handler goes forward, and a verdict is final |

For any zone, policies, requests and depth. `Chained` says that the name of a
lookup is where the current server leads from the host in `depth` CNAMEs, so what
is resolved is what some server tells (`Told`). `Found` is the converse: once a
reliable server has been asked, every address it always tells is in `resolved`;
within one lookup that rests on the chain being no longer than `MaxDepth`.
`Checked` and `Passed` carry what the early returns have established.
`Coherent` is `PolicyWindow`'s. `ConnectionsOnlyGetOn` needs only the types: server,
query and depth rise in this order, and each is bounded.

`DnsMessage_proofs`:

| Theorem | Statement |
|---|---|
| `TypeCorrect` | `Spec => []TypeOK` |
| `NoMessageIsReadForEver` | `Spec => ReadingProgresses` |
| `NoMessageIsSkippedForEver` | `Spec => SkippingProgresses`: the generator's parser moves on with every step |
| `DetectorImplementsWalk` | `Spec => ReaderWalks` |
| `GeneratorImplementsWalk` | `Spec => SkipperWalks` |
| `ParsersAgree` | `Spec => []AgreeOnRecords` |

For any set of messages, both widths and any number of jumps. `ParsersAgree` is
about two runs that never wait for each other, so no invariant relates their
offsets directly. Instead each is shown to be on the one path `DnsWalk` takes
through the message: a path is a sequence of positions (offset, entry and the addresses
so far), each the successor of the one before, and two paths of one message agree as far as both
go. Where both parsers have returned they have walked the same path, and what
each has taken is the set of addresses on it.

`LiveTest_proofs`:

| Theorem | Statement |
|---|---|
| `SsmTypeCorrect`, `CwTypeCorrect` | the types of `SsmExec` and `CloudWatchWait` |
| `ExecEndsInTime` | `Spec => []EndsInTime` |
| `ReadyTargetsAreUsed` | `Spec => []ReadyTargetIsNotGivenUp` |
| `FinishedCommandsAreReturned` | `Spec => []FinishedIsReturned` |
| `WaitsEndInTime` | `Spec => []WaitEndsInTime` |
| `FoundEventsAreNew` | `Spec => []FoundIsNew` |
| `MissedEventsWereNotShown` | `Spec => []MissingWasNotShown` |

For any targets and timeouts. The two components are proved apart, against the
clock and each other's absence (`SsmElsewhere`, `Act`), and `LiveTest`'s steps are
shown to be steps of both. `WaitsInTime` bounds the beginning of each call by the
deadline in force, which is where the second readiness timeout of `EndsInTime`
comes from: the wait for readiness that began just before `send_deadline` has a
deadline of its own. `TargetAsAnswered` says that an answer under way is true of
the target unless the target changed since the call began. For the waits the
invariant compares the events CloudWatch had shown when the call began with the
sum; for a delta the argument is that the window only moves forward, and so does the
first of its datapoints (`Datapoints`), so an event counted now and shown before the
baseline was counted in the baseline too.

**Only model-checked**: that something happens. `Converges`,
`RejectedIsWithdrawn`, `NextPolicyRepairs`, `EveryInvocationEnds`,
`EveryDeliveryEnds`, `EveryConnectionEnds` and `ParsingEnds` need fairness and
ENABLED, which the prover has no rules for, and induction over the measures. Their
safety halves, that no step goes back and what has been reached stays, are proved:
`InEffectStays`, `ReloadSettles`, `VerdictsAreOnThePolicy` and `RunsOnlyGetOn` for
the first three, `InvocationsOnlyGetOn`, `DeliveriesOnlyGetOn`, `ConnectionsOnlyGetOn`,
and `NoMessageIsReadForEver` with `NoMessageIsSkippedForEver` for the others. That the
measures are well founded is left to the reader: each is a tuple of numbers that
`TypeOK` bounds (a page token is an address, and `Answers` has finitely many), and for
the search a multiset of depths. Every safety property and
action property of the passing runs, and every refinement, is proved.

## 5. Not modelled

* **Benchmarks** (`benchmark/lambda_bench/run.py`, `workload_bench/run.py`):
  sequential scripts an operator runs and watches; a model would be their
  handlers written again. Two things to know of them: `set_timeout` (:418) stands
  outside the `try` that restores it, and the variables that are to point the
  Lambda at a scratch list (:414-415) are ones the handler no longer reads
  (`handler.py:21` reads `FQDN_PREFIX_LIST_IDS`), so that a benchmark works on the
  live lists.
* **Network Firewall rules**: strings for a firewall whose behaviour is not in the
  repository.
* **original_dst module**: one `getsockopt` and one bounded `ngx_sprintf`; its
  outcomes are inputs of `HttpGuard`.
* **The 8443 listener**: hands the SNI to `proxy_pass` and keeps no state.
* **Unpacking and validating a batch** in the detector: pure functions of one
  message; `SniDetector` has their outcomes.
* **`tf_outputs.py`, Terraform, Packer, log rotation, the CloudWatch agent**:
  declarations, and configuration of third-party programs.
* Of what is modelled: a second delivery of `send_command` by the SDK, an
  EC2 or a DNS service that breaks its own protocol, and a clock that jumps
  (`time.monotonic` does not; `now_ms` and `datetime.now` might).
* A modification of a prefix list that EC2 accepts and then ends as `-failed`
  (`benchmark/lambda_bench/run.py:130-131` knows the state): `Settle` has the good end
  only. Neither the handler nor a document says what the list holds afterwards, and the
  handler does not look.
* The time `put_metric_data` takes, with the SDK's repetitions: `HandledInTime` and the
  run `deadline` are about DNS timeouts. A call that hangs until the limit is `Dies`.

What the failures cost is as far as possible in the properties, and what is excluded
there is this. If only the copy of the Lua policy is lost and the candidate is rejected,
or if a run dies or the instance goes down after `current-policy.json` was written, the
files may be of two policies, or of one that is not in effect, while the cached document
is the deployed one: later runs find nothing to do, and `NextPolicyRepairs` begins with
a policy that differs from the cached one. If the instance goes down between the install
and the revert of a rejected policy, nginx fails to start at the next boot; the refresher
withdraws or replaces the files later, but only systemd or somebody starts nginx again.
`Converges` is checked without deaths for that reason.

Hazards no property covers are listed in `PROJECT.json` with the reason: the
mixed files a dead run leaves while AppConfig cannot be reached, the empty
answer an error code stands for, a command the SDK sends twice, and the
benchmark's clean-up.
