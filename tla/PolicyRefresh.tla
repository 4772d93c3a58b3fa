--------------------------- MODULE PolicyRefresh ---------------------------
(***************************************************************************)
(* The runtime-policy refresher of one proxy instance                      *)
(* (packer/nginx-proxy/assets/scripts/refresh-proxy-runtime-policy.sh),    *)
(* together with what it shares state with: the AppConfig Agent it asks,   *)
(* the nginx master that loads the files it writes, systemd that starts    *)
(* both, and the user_data script of the first boot.                       *)
(*                                                                         *)
(* A file's content is abstracted to its origin: the policy it was         *)
(* rendered from, the image's seed ("bootstrap"), or a remnant of an       *)
(* interrupted install: "gone" (unlinked, not yet created), "cut"          *)
(* (a truncated file nginx rejects) or "empty" (nginx accepts it).         *)
(***************************************************************************)
EXTENDS Naturals, FiniteSets

CONSTANTS
    Policies,           \* the policy documents AppConfig can deploy
    BadAllowlist,       \* those whose allowlist file nginx -t rejects
    BadResolver,        \* those whose resolver file nginx -t rejects
    StartOverlap,       \* may a run begin while nginx is starting?
    MaxDeploys,         \* bound: deployments after the first
    MaxReboots,         \* bound: instance reboots
    MaxDeaths,          \* bound: runs that die before their end
    MaxLostCopies,      \* bound: copies of a backup that fail
    MaxReloadFailures   \* bound: nginx -s reload commands that fail

Remnants == {"gone", "cut", "empty"}
Content  == Policies \cup Remnants \cup {"bootstrap"}

ASSUME PoliciesAssumption ==
    /\ Policies \cap (Remnants \cup {"bootstrap", "none"}) = {}
    /\ BadAllowlist \subseteq Policies
    /\ BadResolver \subseteq Policies
ASSUME BoundsAssumption ==
    /\ StartOverlap \in BOOLEAN
    /\ MaxDeploys \in Nat
    /\ MaxReboots \in Nat
    /\ MaxDeaths \in Nat
    /\ MaxLostCopies \in Nat
    /\ MaxReloadFailures \in Nat

\* http_host_allowlist.conf, proxy_resolver.conf, proxy_runtime_policy.lua and
\* current-policy.json, in the order apply_rendered_files writes them.
Files == {"allow", "resolver", "lua", "json"}
Rank  == [f \in Files |-> CASE f = "allow" -> 1
                            [] f = "resolver" -> 2
                            [] f = "lua" -> 3
                            [] f = "json" -> 4]
Following == [f \in Files |-> CASE f = "allow" -> "resolver"
                                [] f = "resolver" -> "lua"
                                [] f = "lua" -> "json"
                                [] f = "json" -> "allow"]

VARIABLES
    deployed,     \* the policy AppConfig currently deploys
    offered,      \* history: every policy deployed so far
    agent,        \* what the local AppConfig Agent answers, "none" at first
    configured,   \* has user_data written /etc/sysconfig/proxy-runtime-sync?
    userData,     \* "todo", "sync" (waits for a run), "start" or "done"
    disk,         \* the four files of the instance
    phase,        \* where the refresh run is
    file,         \* the file the run's install or revert loop is at
    cand,         \* the policy the run fetched, "none" between runs
    backup,       \* the copies the run took before it wrote
    nginx,        \* "down", "starting", "read", "up" or "failed"
    loaded,       \* the allowlist and resolver the master runs with
    reloading,    \* a reload signal is on its way to the master
    used          \* how much of each bound has been used

vars == <<deployed, offered, agent, configured, userData, disk, phase, file,
          cand, backup, nginx, loaded, reloading, used>>

appConfigVars == <<deployed, offered, agent>>
runVars       == <<phase, file, cand, backup>>
nginxVars     == <<nginx, loaded, reloading>>

Phases == {"idle", "fetch", "backup", "install", "test", "revert", "reload"}
Counters == {"deploys", "reboots", "deaths", "lostCopies", "reloadFailures"}

\* A run in one of these phases has touched the files, and has not had them accepted.
Writing == {"install", "test", "revert"}

BootFiles == [f \in Files |-> IF f = "json" THEN "gone" ELSE "bootstrap"]
NoConfig  == [f \in {"allow", "resolver"} |-> "none"]
NoBackup  == [f \in Files |-> "gone"]

\* The verdict of nginx on its two included files.
Accepts(files) ==
    /\ files["allow"] \notin BadAllowlist \cup {"gone", "cut"}
    /\ files["resolver"] \notin BadResolver \cup {"gone", "cut"}

ConfigOn(files) == [f \in {"allow", "resolver"} |-> files[f]]

Spend(counter, bound) == /\ used[counter] < bound
                         /\ used' = [used EXCEPT ![counter] = @ + 1]

Init == /\ deployed \in Policies
        /\ offered = {deployed}
        /\ agent = "none"
        /\ configured = FALSE
        /\ userData = "todo"
        /\ disk = BootFiles
        /\ phase = "idle"
        /\ file = "allow"
        /\ cand = "none"
        /\ backup = NoBackup
        /\ nginx = "down"
        /\ loaded = NoConfig
        /\ reloading = FALSE
        /\ used = [c \in Counters |-> 0]

-----------------------------------------------------------------------------
(* AppConfig and its agent: external, known by the answers curl gets.      *)

Deploy(p) == /\ p # deployed
             /\ Spend("deploys", MaxDeploys)
             /\ deployed' = p
             /\ offered' = offered \cup {p}
             /\ UNCHANGED <<agent, configured, userData, disk, runVars, nginxVars>>

\* The agent polls every 45 s once user_data gave it its region and profile.
AgentPoll == /\ configured
             /\ agent # deployed
             /\ agent' = deployed
             /\ UNCHANGED <<deployed, offered, configured, userData, disk,
                            runVars, nginxVars, used>>

-----------------------------------------------------------------------------
(* The first boot's user_data: write the coordinates, run the refresher,   *)
(* start nginx if that run succeeded (set -e).                             *)

WriteConfig == /\ userData = "todo"
               /\ configured' = TRUE
               /\ userData' = "sync"
               /\ UNCHANGED <<appConfigVars, disk, runVars, nginxVars, used>>

\* systemctl start nginx when it already runs, or is starting, does nothing.
StartIsNoop == /\ userData = "start"
               /\ nginx \in {"starting", "read", "up"}
               /\ userData' = "done"
               /\ UNCHANGED <<appConfigVars, configured, disk, runVars,
                              nginxVars, used>>

-----------------------------------------------------------------------------
(* nginx: started at every boot because the unit is enabled, and by        *)
(* user_data.  The refresh unit is ordered Before=nginx.service, so a      *)
(* start job waits for a run in progress and for nothing else.             *)

BeginStart == /\ \/ nginx = "down"
                 \/ nginx = "failed" /\ userData = "start"
              /\ phase = "idle"
              /\ nginx' = "starting"
              /\ userData' = IF userData = "start" THEN "done" ELSE userData
              /\ UNCHANGED <<appConfigVars, configured, disk, runVars, loaded,
                             reloading, used>>

\* ExecStartPre's nginx -t and the master's own reading of the files.
NginxReads == /\ nginx = "starting"
              /\ IF Accepts(disk)
                   THEN nginx' = "read" /\ loaded' = ConfigOn(disk)
                   ELSE nginx' = "failed" /\ UNCHANGED loaded
              /\ UNCHANGED <<appConfigVars, configured, userData, disk,
                             runVars, reloading, used>>

\* Only now does systemctl is-active answer yes.
NginxUp == /\ nginx = "read"
           /\ nginx' = "up"
           /\ UNCHANGED <<appConfigVars, configured, userData, disk, runVars,
                          loaded, reloading, used>>

\* The master takes the reload signal: it keeps its configuration when it
\* rejects the files it finds.
HandleReload == /\ reloading
                /\ reloading' = FALSE
                /\ loaded' = IF Accepts(disk) THEN ConfigOn(disk) ELSE loaded
                /\ UNCHANGED <<appConfigVars, configured, userData, disk,
                               runVars, nginx, used>>

-----------------------------------------------------------------------------
(* One run of refresh-proxy-runtime-policy.sh.  The unit is oneshot, so    *)
(* systemd never runs two at a time.                                       *)

\* The end of a run, and its end with an exit status user_data may be waiting for.
Ends == /\ phase' = "idle"
        /\ file' = "allow"
        /\ cand' = "none"
        /\ backup' = NoBackup
Finish(ok) == /\ Ends
              /\ userData' = IF userData # "sync" THEN userData
                             ELSE IF ok THEN "start" ELSE "done"

\* By the timer or by user_data.  A run without coordinates aborts before it
\* does anything, hence the guard.
BeginRun == /\ phase = "idle"
            /\ configured
            /\ StartOverlap \/ nginx \notin {"starting", "read"}
            /\ phase' = "fetch"
            /\ UNCHANGED <<appConfigVars, configured, userData, disk, file,
                           cand, backup, nginxVars, used>>

\* curl fails: the run succeeds if a policy was ever rendered.
FetchFails == /\ phase = "fetch"
              /\ Finish(disk["json"] # "gone")
              /\ UNCHANGED <<appConfigVars, configured, disk, nginxVars, used>>

\* The answer is not a policy: validate_policy_json ends the script.
FetchInvalid == /\ phase = "fetch"
                /\ agent # "none"
                /\ Finish(FALSE)
                /\ UNCHANGED <<appConfigVars, configured, disk, nginxVars, used>>

\* cmp of the answer with current-policy.json.
AnyPolicyIsCurrent == disk["json"] # "gone"
PolicyIsCurrent == disk["json"] = agent

FetchUnchanged == /\ phase = "fetch"
                  /\ agent # "none"
                  /\ PolicyIsCurrent
                  /\ Finish(TRUE)
                  /\ UNCHANGED <<appConfigVars, configured, disk, nginxVars, used>>

FetchChanged == /\ phase = "fetch"
                /\ agent # "none"
                /\ ~PolicyIsCurrent
                /\ cand' = agent
                /\ phase' = "backup"
                /\ UNCHANGED <<appConfigVars, configured, userData, disk, file,
                               backup, nginxVars, used>>

\* Rendering, then cp of each file that exists.
TakeBackups == /\ phase = "backup"
               /\ backup' = disk
               /\ phase' = "install"
               /\ UNCHANGED <<appConfigVars, configured, userData, disk, file,
                              cand, nginxVars, used>>

\* The script ignores a cp that fails, which leaves no copy or a part of one.
CopiesFail ==
    /\ phase = "backup"
    /\ \E lost \in SUBSET {f \in Files : disk[f] # "gone"}, remnant \in Remnants :
         /\ lost # {} /\ used["lostCopies"] + Cardinality(lost) <= MaxLostCopies
         /\ used' = [used EXCEPT !["lostCopies"] = @ + Cardinality(lost)]
         /\ backup' = [f \in Files |-> IF f \in lost THEN remnant ELSE disk[f]]
    /\ phase' = "install"
    /\ UNCHANGED <<appConfigVars, configured, userData, disk, file, cand, nginxVars>>

\* What the install loop leaves in file f, and what the revert loop does: a file
\* without a backup is left as it is, except current-policy.json, which is removed.
InstalledWithoutLua(f) == IF f = "lua" THEN disk[f] ELSE cand
Installed(f) == cand
RestoredWithoutLua(f) == IF f = "lua" THEN disk[f] ELSE backup[f]
Restored(f) == IF backup[f] # "gone" \/ f = "json" THEN backup[f] ELSE disk[f]

\* The next file of a loop, or the phase that follows the last one.
AdvanceWithoutReset(next) == IF file = "json" THEN phase' = next /\ file' = "end"
                                              ELSE UNCHANGED phase /\ file' = Following[file]
Advance(next) == IF file = "json" THEN phase' = next /\ file' = "allow"
                                  ELSE UNCHANGED phase /\ file' = Following[file]

\* One install command.  The master has taken an earlier run's signal by the time
\* this run has fetched, validated and rendered a policy.
Install == /\ phase = "install"
           /\ ~reloading
           /\ disk' = [disk EXCEPT ![file] = Installed(file)]
           /\ Advance("test")
           /\ UNCHANGED <<appConfigVars, configured, userData, cand, backup,
                          nginxVars, used>>

\* nginx -t looks at the two files nginx includes, not at the Lua policy.
TestSkipped == TRUE
TestPasses == Accepts(disk)

TestFiles == /\ phase = "test"
             /\ phase' = IF TestPasses THEN "reload" ELSE "revert"
             /\ UNCHANGED <<appConfigVars, configured, userData, disk, file,
                            cand, backup, nginxVars, used>>

Revert == /\ phase = "revert"
          /\ file # "json"
          /\ disk' = [disk EXCEPT ![file] = Restored(file)]
          /\ Advance("idle")
          /\ UNCHANGED <<appConfigVars, configured, userData, cand, backup,
                         nginxVars, used>>

RevertLast == /\ phase = "revert"
              /\ file = "json"
              /\ disk' = [disk EXCEPT !["json"] = Restored("json")]
              /\ Finish(FALSE)
              /\ UNCHANGED <<appConfigVars, configured, nginxVars, used>>

\* systemctl is-active --quiet nginx
NeverActive == FALSE
IsActive == nginx = "up"

SkipReload == /\ phase = "reload"
              /\ ~IsActive
              /\ Finish(TRUE)
              /\ UNCHANGED <<appConfigVars, configured, disk, nginxVars, used>>

SendReload == /\ phase = "reload"
              /\ IsActive
              /\ reloading' = TRUE
              /\ Finish(TRUE)
              /\ UNCHANGED <<appConfigVars, configured, disk, nginx, loaded, used>>

\* nginx -s reload exits non-zero, and so does the script (set -e).
ReloadFails == /\ phase = "reload"
               /\ IsActive
               /\ Spend("reloadFailures", MaxReloadFailures)
               /\ Finish(FALSE)
               /\ UNCHANGED <<appConfigVars, configured, disk, nginxVars>>

\* The run dies: it is killed, or one of its commands fails (a full disk) and
\* set -e ends it without a revert.  An install under way leaves a remnant.
MidInstall == \/ phase = "install"
              \/ phase = "revert" /\ backup[file] # "gone"

CutShort == \/ UNCHANGED disk
            \/ /\ MidInstall
               /\ \E remnant \in Remnants : disk' = [disk EXCEPT ![file] = remnant]

RunDies == /\ phase # "idle"
           /\ Spend("deaths", MaxDeaths)
           /\ CutShort
           /\ Finish(FALSE)
           /\ UNCHANGED <<appConfigVars, configured, nginxVars>>

\* The instance goes down, between runs or in any of their phases, and comes up again.
\* Only the disk survives; user_data runs again unless it has ended.
Restart == /\ Ends
           /\ agent' = "none"
           /\ nginx' = "down"
           /\ loaded' = NoConfig
           /\ reloading' = FALSE
           /\ userData' = IF userData = "done" THEN "done" ELSE "todo"
           /\ UNCHANGED <<deployed, offered, configured>>

Reboot == /\ phase \notin Writing
          /\ Spend("reboots", MaxReboots)
          /\ Restart
          /\ UNCHANGED disk

\* It ends a run that has begun to write, which counts as the run's death too.
RebootMidWrite == /\ phase \in Writing
                  /\ used["reboots"] < MaxReboots /\ used["deaths"] < MaxDeaths
                  /\ used' = [used EXCEPT !["reboots"] = @ + 1, !["deaths"] = @ + 1]
                  /\ Restart
                  /\ CutShort

-----------------------------------------------------------------------------
FetchAnswered == FetchUnchanged \/ FetchChanged
Fetch  == FetchAnswered \/ FetchFails \/ FetchInvalid
Backup == TakeBackups \/ CopiesFail
Write  == Backup \/ Install \/ TestFiles \/ Revert \/ RevertLast
Reload == SkipReload \/ SendReload \/ ReloadFails
Nginx  == BeginStart \/ NginxReads \/ NginxUp \/ HandleReload

Next == \/ \E p \in Policies : Deploy(p)
        \/ AgentPoll
        \/ WriteConfig
        \/ StartIsNoop
        \/ Nginx
        \/ BeginRun
        \/ Fetch
        \/ Write
        \/ Reload
        \/ RunDies
        \/ Reboot
        \/ RebootMidWrite

\* systemd restarts the run every 60 s and starts nginx at boot, in a gap between
\* runs if need be; a started program makes progress; the agent polls; and the
\* local endpoint does not fail every single time it is asked.
Fairness == /\ WF_vars(AgentPoll)
            /\ WF_vars(WriteConfig)
            /\ WF_vars(StartIsNoop)
            /\ SF_vars(BeginStart)
            /\ WF_vars(NginxReads)
            /\ WF_vars(NginxUp)
            /\ WF_vars(HandleReload)
            /\ WF_vars(BeginRun)
            /\ WF_vars(Fetch)
            /\ SF_vars(FetchAnswered)
            /\ WF_vars(Write)
            /\ WF_vars(Reload)

Spec == Init /\ [][Next]_vars
FairSpec == Spec /\ Fairness

-----------------------------------------------------------------------------
(* Properties                                                              *)

\* The variables stay in their domains.
TypeOK ==
    /\ deployed \in Policies
    /\ offered \in SUBSET Policies
    /\ agent \in Policies \cup {"none"}
    /\ configured \in BOOLEAN
    /\ userData \in {"todo", "sync", "start", "done"}
    /\ disk \in [Files -> Content]
    /\ phase \in Phases
    /\ file \in Files
    /\ cand \in IF phase \in {"idle", "fetch"} THEN {"none"} ELSE Policies
    /\ backup \in [Files -> Content]
    /\ nginx \in {"down", "starting", "read", "up", "failed"}
    /\ loaded \in [{"allow", "resolver"} -> Content \cup {"none"}]
    /\ reloading \in BOOLEAN
    /\ used \in [Counters -> Nat]

\* Four files that belong together: all of one policy nginx accepts, or the
\* image's seed, which has no current-policy.json.
Whole(files) ==
    /\ files["allow"] \in Policies \cup {"bootstrap"}
    /\ files["resolver"] = files["allow"]
    /\ files["lua"] = files["allow"]
    /\ files["json"] = IF files["allow"] = "bootstrap" THEN "gone" ELSE files["allow"]
    /\ Accepts(files)

\* No run was cut short while it wrote, or had the copies it took fail.
Intact == used["deaths"] = 0 /\ used["lostCopies"] = 0

\* Between runs the four files are those of one accepted policy, as long as every
\* run that wrote got to its end with its backups: a rejected candidate is taken back in
\* full, and an accepted one is installed in full (apply_rendered_files).
RestsOnOnePolicy == phase = "idle" /\ Intact => Whole(disk)

\* Between runs a running nginx serves the allowlist and the resolver that are on
\* disk, unless it has yet to take a reload signal, or a run was cut short, lost its
\* backups or could not send one (apply_rendered_files' is-active check and reload).
ServesWhatIsOnDisk ==
    /\ phase = "idle" /\ nginx = "up" /\ ~reloading
    /\ Intact /\ used["reloadFailures"] = 0
    => loaded = ConfigOn(disk)

\* A run that reaches the reload leaves four files of the policy it fetched, which
\* nginx accepted, whatever remnants earlier runs that died had left.
AppliedRunIsWhole ==
    phase = "reload" => Whole(disk) /\ disk["allow"] = cand

\* The instance as a PolicyStore: until nginx -t has passed, what it holds is what
\* the backups hold.
Committed == IF phase \in Writing THEN backup["allow"] ELSE disk["allow"]
Store == INSTANCE PolicyStore WITH
    Acceptable <- Policies \ (BadAllowlist \cup BadResolver),
    Initial <- "bootstrap",
    stored <- Committed

\* While nothing cuts a run short the refresher implements a store that switches atomically, to
\* accepted policies only.
ImplementsStore == Store!Spec

\* The instance as the HTTP Host guard sees it (PolicyWindow): its Lua policy and the
\* configuration of the workers, with the window open while a run, a reload or a start
\* of nginx is under way.
Window == INSTANCE PolicyWindow WITH
    Contents <- Content \cup {"none"},
    onDisk <- disk["lua"],
    inWorkers <- loaded["allow"],
    open <- ~(phase = "idle" /\ nginx = "up" /\ ~reloading)

\* Without failures the guard and the workers disagree only while the window is open.
ImplementsWindow == Window!Spec

Good(p) == p \in Policies \ (BadAllowlist \cup BadResolver)
InEffect(p) == /\ nginx = "up"
               /\ ~reloading
               /\ loaded = [f \in {"allow", "resolver"} |-> p]
               /\ disk["lua"] = p

\* A good policy that stays deployed ends up in effect in nginx and in the Lua
\* guard, and stays so.
Converges == \A p \in Policies :
    Good(p) /\ <>[](deployed = p) => <>[]InEffect(p)

\* The Lua guard reads its policy file at every request, so it may see a candidate
\* nginx -t is about to reject, but not for ever.
RejectedIsWithdrawn == \A p \in Policies :
    ~Good(p) => []<>(disk["lua"] # p)

\* Once nothing fails any more, a good policy that differs from the cached one
\* repairs the disk, whatever the failures before had left.
Calm == used["deaths"] = MaxDeaths
NextPolicyRepairs == \A p \in Policies :
    [](Good(p) /\ Calm /\ phase = "idle" /\ disk["json"] # p
         /\ [](deployed = p) => <>(Whole(disk) /\ disk["allow"] = p))

-----------------------------------------------------------------------------
(* What the repository's comments and documents say; the runs that check   *)
(* these find them violated.                                               *)

\* refresh-proxy-runtime-policy.sh:8-10, provision.sh:154-155: nginx does not start
\* with the bootstrap files of the image.
NginxWaitsForPolicy == nginx = "up" => loaded["allow"] # "bootstrap"

\* refresh-proxy-runtime-policy.sh:3: the three files change together.  Between
\* runs, with no reload on its way, the parts in effect are of one policy.
FilesChangeTogether ==
    phase = "idle" /\ nginx = "up" /\ ~reloading
        => /\ loaded["resolver"] = loaded["allow"]
           /\ disk["lua"] = loaded["allow"]
=============================================================================
