------------------------ MODULE PolicyRefresh_proofs ------------------------
(***************************************************************************)
(* Proofs about the runtime-policy refresher.  Nothing is assumed about    *)
(* the sets of policies or the bounds beyond the assumptions PolicyRefresh *)
(* names; a theorem that holds only without some fault says so in its      *)
(* ASSUME.                                                                 *)
(***************************************************************************)
EXTENDS PolicyRefresh, FiniteSetTheorems, TLAPS

(***************************************************************************)
(* Type correctness.                                                       *)
(***************************************************************************)

\* The end of a run leaves the run's variables and user_data's well typed.
LEMMA FinishTyped ==
    ASSUME TypeOK, NEW ok \in BOOLEAN, Finish(ok)
    PROVE  /\ phase' = "idle"
           /\ phase' \in Phases
           /\ file' \in Files
           /\ cand' = "none"
           /\ backup' \in [Files -> Content]
           /\ userData' \in {"todo", "sync", "start", "done"}
BY DEF TypeOK, Finish, Ends, NoBackup, Files, Phases, Content, Remnants

\* Spending on a counter leaves the counters well typed, the others unchanged.
LEMMA SpendTyped ==
    ASSUME TypeOK, NEW c \in Counters, NEW bound, Spend(c, bound)
    PROVE  /\ used' \in [Counters -> Nat]
           /\ used'[c] = used[c] + 1
           /\ \A d \in Counters \ {c} : used'[d] = used[d]
BY DEF TypeOK, Spend

\* Copies that fail are counted.
LEMMA LostTyped ==
    ASSUME TypeOK, CopiesFail
    PROVE  /\ used' \in [Counters -> Nat]
           /\ used'["lostCopies"] > 0
           /\ \A d \in Counters \ {"lostCopies"} : used'[d] = used[d]
           /\ used["lostCopies"] + 1 <= MaxLostCopies
           /\ backup' \in [Files -> Content]
<1>1. IsFiniteSet(Files)
  <2>1. Files = {"allow"} \cup {"resolver"} \cup {"lua"} \cup {"json"}
    BY DEF Files
  <2> QED BY <2>1, FS_Singleton, FS_Union
<1>2. PICK lost \in SUBSET {f \in Files : disk[f] # "gone"}, remnant \in Remnants :
         /\ lost # {} /\ used["lostCopies"] + Cardinality(lost) <= MaxLostCopies
         /\ used' = [used EXCEPT !["lostCopies"] = @ + Cardinality(lost)]
         /\ backup' = [f \in Files |-> IF f \in lost THEN remnant ELSE disk[f]]
  BY DEF CopiesFail
<1>3. Cardinality(lost) \in Nat /\ Cardinality(lost) # 0
  BY <1>1, <1>2, FS_Subset, FS_CardinalityType, FS_EmptySet
<1>4. used \in [Counters -> Nat] /\ "lostCopies" \in Counters
  BY DEF TypeOK, Counters
<1>5. backup' \in [Files -> Content]
  BY <1>2 DEF TypeOK, Content
<1> QED BY <1>2, <1>3, <1>4, <1>5, BoundsAssumption

\* What an install or a revert under way leaves are files too.
LEMMA CutShortTyped ==
    ASSUME TypeOK, CutShort
    PROVE  disk' \in [Files -> Content]
BY DEF TypeOK, CutShort, Content

\* A reboot leaves the run's variables and user_data's well typed.
LEMMA RestartTyped ==
    ASSUME TypeOK, Restart
    PROVE  /\ phase' = "idle" /\ phase' \in Phases
           /\ file' \in Files
           /\ cand' = "none" /\ agent' = "none"
           /\ backup' \in [Files -> Content]
           /\ userData' \in {"todo", "sync", "start", "done"}
           /\ loaded' \in [{"allow", "resolver"} -> Content \cup {"none"}]
           /\ nginx' = "down" /\ reloading' = FALSE
           /\ UNCHANGED <<deployed, offered, configured>>
BY DEF TypeOK, Restart, Ends, NoBackup, NoConfig, Files, Phases, Content, Remnants

\* Every state of the refresher is well typed.
THEOREM TypeCorrect == Spec => []TypeOK
<1>1. Init => TypeOK
  <2> SUFFICES ASSUME Init PROVE TypeOK
    OBVIOUS
  <2>1. disk \in [Files -> Content] /\ backup \in [Files -> Content]
    BY DEF Init, BootFiles, NoBackup, Content, Remnants, Files
  <2>2. /\ loaded \in [{"allow", "resolver"} -> Content \cup {"none"}]
        /\ used \in [Counters -> Nat]
    BY DEF Init, NoConfig, Counters
  <2>3. configured \in BOOLEAN /\ reloading \in BOOLEAN
    BY DEF Init
  <2> QED BY <2>1, <2>2, <2>3 DEF Init, TypeOK, Files, Phases
<1>2. TypeOK /\ [Next]_vars => TypeOK'
  <2> SUFFICES ASSUME TypeOK, [Next]_vars PROVE TypeOK'
    OBVIOUS
  <2>1. ASSUME NEW p \in Policies, Deploy(p) PROVE TypeOK'
    <3>1. used' \in [Counters -> Nat]
      BY <2>1, SpendTyped DEF Deploy, Counters
    <3> QED BY <2>1, <3>1 DEF TypeOK, Deploy, runVars, nginxVars
  <2>2. CASE AgentPoll \/ WriteConfig \/ StartIsNoop
    BY <2>2 DEF TypeOK, AgentPoll, WriteConfig, StartIsNoop, runVars, nginxVars,
                appConfigVars
  <2>3. CASE Nginx
    BY <2>3 DEF TypeOK, Nginx, BeginStart, NginxReads, NginxUp, HandleReload,
                ConfigOn, Files, runVars, nginxVars, appConfigVars
  <2>4. CASE BeginRun \/ Fetch
    BY <2>4 DEF TypeOK, BeginRun, Fetch, FetchAnswered, FetchUnchanged,
                FetchChanged, FetchFails, FetchInvalid, Finish, Ends, NoBackup, Files,
                Content, Remnants, Phases, nginxVars, appConfigVars
  <2>5. CASE Write
    <3>1. CASE TakeBackups
      BY <2>5, <3>1 DEF TypeOK, TakeBackups, Phases, nginxVars, appConfigVars
    <3>2. CASE Install
      BY <2>5, <3>2, PoliciesAssumption
      DEF TypeOK, Install, Installed, Advance, Following, Files, Content, Phases,
          nginxVars, appConfigVars
    <3>3. CASE TestFiles
      BY <2>5, <3>3 DEF TypeOK, TestFiles, Phases, nginxVars, appConfigVars
    <3>4. CASE Revert
      BY <2>5, <3>4
      DEF TypeOK, Revert, Restored, Advance, Following, Files, Content, Phases,
          nginxVars, appConfigVars
    <3>5. CASE RevertLast
      BY <2>5, <3>5
      DEF TypeOK, RevertLast, Restored, Finish, Ends, NoBackup, Files, Content, Remnants,
          Phases, nginxVars, appConfigVars
    <3>6. CASE CopiesFail
      BY <3>6, LostTyped DEF TypeOK, CopiesFail, Phases, nginxVars, appConfigVars
    <3> QED BY <2>5, <3>1, <3>2, <3>3, <3>4, <3>5, <3>6 DEF Write, Backup
  <2>6. CASE Reload
    <3>1. used' \in [Counters -> Nat]
      <4>1. CASE SkipReload \/ SendReload
        BY <4>1 DEF SkipReload, SendReload, TypeOK
      <4>2. CASE ReloadFails
        BY <4>2, SpendTyped DEF ReloadFails, Counters
      <4> QED BY <2>6, <4>1, <4>2 DEF Reload
    <3>2. \E ok \in BOOLEAN : Finish(ok)
      BY <2>6 DEF Reload, SkipReload, SendReload, ReloadFails
    <3> QED
      BY <2>6, <3>1, <3>2, FinishTyped
      DEF TypeOK, Reload, SkipReload, SendReload, ReloadFails, nginxVars, appConfigVars
  <2>7. CASE RunDies
    <3>1. used' \in [Counters -> Nat]
      BY <2>7, SpendTyped DEF RunDies, Counters
    <3>2. disk' \in [Files -> Content]
      BY <2>7, CutShortTyped DEF RunDies
    <3> QED
      BY <2>7, <3>1, <3>2, FinishTyped DEF TypeOK, RunDies, nginxVars, appConfigVars
  <2>8. CASE Reboot \/ RebootMidWrite
    <3>1. used' \in [Counters -> Nat]
      BY <2>8, SpendTyped DEF Reboot, RebootMidWrite, Counters, TypeOK
    <3>2. disk' \in [Files -> Content]
      BY <2>8, CutShortTyped DEF Reboot, RebootMidWrite, TypeOK
    <3> QED BY <2>8, <3>1, <3>2, RestartTyped DEF TypeOK, Reboot, RebootMidWrite
  <2>9. CASE UNCHANGED vars
    BY <2>9 DEF TypeOK, vars
  <2> QED BY <2>1, <2>2, <2>3, <2>4, <2>5, <2>6, <2>7, <2>8, <2>9 DEF Next
<1> QED BY <1>1, <1>2, PTL DEF Spec

(***************************************************************************)
(* What a run has written so far.  RunInOrder holds whatever dies;         *)
(* RunIsClean holds as long as none was cut short or lost its copies.      *)
(***************************************************************************)

\* The order of the files, as the proofs below use it.
LEMMA FileOrder ==
    /\ \A f \in Files, g \in Files \ {"json"} :
         Rank[f] < Rank[Following[g]] <=> Rank[f] < Rank[g] \/ f = g
    /\ \A f \in Files : Rank[f] < Rank["json"] \/ f = "json"
    /\ \A f \in Files : ~(Rank[f] < Rank["allow"])
    /\ \A f, g \in Files : Rank[f] < Rank[g] => f # g
    /\ \A g \in Files \ {"json"} : Following[g] \in Files
BY DEF Files, Rank, Following

RunInOrder ==
    /\ phase \notin {"install", "revert"} => file = "allow"
    /\ phase = "idle" => backup = NoBackup
    /\ phase = "install" => \A f \in Files : Rank[f] < Rank[file] => disk[f] = cand
    /\ phase \in {"test", "reload"} => \A f \in Files : disk[f] = cand
    /\ phase = "reload" => Accepts(disk)

RunIsClean ==
    /\ phase \in {"idle", "fetch", "backup"} => Whole(disk)
    /\ phase \in Writing => Whole(backup)
    /\ phase = "install" =>
         \A f \in Files : ~(Rank[f] < Rank[file]) => disk[f] = backup[f]
    /\ phase = "revert" =>
         \A f \in Files : disk[f] = IF Rank[f] < Rank[file] THEN backup[f] ELSE cand

RunInv == RunInOrder /\ (Intact => RunIsClean)

\* The image's seed files belong together.
LEMMA BootIsWhole == Whole(BootFiles)
BY PoliciesAssumption DEF Whole, Accepts, BootFiles, Files, Remnants

\* Four files of one accepted policy belong together.
LEMMA PolicyIsWhole ==
    ASSUME NEW p \in Policies, NEW files, \A f \in Files : files[f] = p, Accepts(files)
    PROVE  Whole(files)
BY PoliciesAssumption DEF Whole, Files, Remnants

\* Files that belong together all exist, except current-policy.json at first.
LEMMA WholeExists ==
    ASSUME NEW files, Whole(files)
    PROVE  \A f \in Files : files[f] # "gone" \/ f = "json"
BY PoliciesAssumption DEF Whole, Files, Remnants

\* Every step keeps the record of what the run has written.
LEMMA RunInvStep == TypeOK /\ TypeOK' /\ RunInv /\ [Next]_vars => RunInv'
<1> SUFFICES ASSUME TypeOK, TypeOK', RunInv, [Next]_vars PROVE RunInv'
  OBVIOUS
<1>1. ASSUME UNCHANGED <<disk, runVars>>,
             Intact' => Intact
      PROVE  RunInv'
  BY <1>1 DEF RunInv, RunInOrder, RunIsClean, Whole, Accepts, runVars, Writing
<1> USE DEF Writing, Ends
<1>2. ASSUME NEW p \in Policies, Deploy(p) PROVE RunInv'
  BY <1>1, <1>2, SpendTyped DEF Deploy, Counters, Intact
<1>3. CASE AgentPoll \/ WriteConfig \/ StartIsNoop \/ Nginx \/ UNCHANGED vars
  BY <1>1, <1>3 DEF AgentPoll, WriteConfig, StartIsNoop, Nginx, BeginStart, NginxReads,
                    NginxUp, HandleReload, vars, runVars, Intact
<1>4. CASE BeginRun
  BY <1>4 DEF Intact, RunInv, RunInOrder, RunIsClean, Whole, Accepts, BeginRun
<1>5. CASE FetchChanged
  BY <1>5 DEF Intact, RunInv, RunInOrder, RunIsClean, Whole, Accepts, FetchChanged
<1>6. CASE FetchUnchanged \/ FetchFails \/ FetchInvalid
  BY <1>6 DEF Intact, RunInv, RunInOrder, RunIsClean, Whole, Accepts, FetchUnchanged, FetchFails,
              FetchInvalid, Finish
<1>7. CASE TakeBackups
  BY <1>7, FileOrder DEF Intact, RunInv, RunInOrder, RunIsClean, Whole, Accepts, TakeBackups
<1>8. CASE Install
  <2>1. \A f \in Files : disk'[f] = IF f = file THEN cand ELSE disk[f]
    BY <1>8 DEF Install, Installed, TypeOK
  <2>2. CASE file = "json"
    BY <1>8, <2>1, <2>2, FileOrder
    DEF Intact, RunInv, RunInOrder, RunIsClean, Whole, Accepts, Install, Advance
  <2>3. CASE file # "json"
    BY <1>8, <2>1, <2>3, FileOrder
    DEF Intact, RunInv, RunInOrder, RunIsClean, Whole, Accepts, Install, Advance, TypeOK
  <2> QED BY <2>2, <2>3
<1>9. CASE TestFiles
  BY <1>9, FileOrder
  DEF Intact, RunInv, RunInOrder, RunIsClean, Whole, Accepts, TestFiles, TestPasses
<1>10. CASE Revert
  <2>1. Intact => Restored(file) = backup[file]
    BY <1>10, WholeExists DEF RunInv, RunIsClean, Restored, Revert, TypeOK
  <2>2. \A f \in Files : disk'[f] = IF f = file THEN Restored(file) ELSE disk[f]
    BY <1>10 DEF Revert, TypeOK
  <2> QED
    BY <1>10, <2>1, <2>2, FileOrder
    DEF Intact, RunInv, RunInOrder, RunIsClean, Whole, Accepts, Revert, Advance, TypeOK
<1>11. CASE RevertLast
  <2>1. Intact => \A f \in Files : disk'[f] = backup[f]
    BY <1>11, FileOrder DEF RunInv, RunIsClean, RevertLast, Restored, TypeOK
  <2> QED
    BY <1>11, <2>1
    DEF Intact, RunInv, RunInOrder, RunIsClean, Whole, Accepts, RevertLast, Finish, Files
<1>12. CASE Reload \/ (Reboot /\ phase = "reload")
  <2>1. Whole(disk)
    BY <1>12, PolicyIsWhole
    DEF Reload, SkipReload, SendReload, ReloadFails, RunInv, RunInOrder, TypeOK
  <2>2. UNCHANGED disk /\ Ends
    BY <1>12 DEF Reload, SkipReload, SendReload, ReloadFails, Finish, Reboot, Restart
  <2> QED
    BY <2>1, <2>2 DEF RunInv, RunInOrder, RunIsClean, Whole, Accepts
<1>13. CASE CopiesFail
  <2>1. ~Intact'
    BY <1>13, LostTyped DEF Intact
  <2> QED BY <1>13, <2>1, FileOrder DEF RunInv, RunInOrder, CopiesFail
<1>14. CASE RunDies \/ RebootMidWrite
  <2>1. RunDies => used'["deaths"] = used["deaths"] + 1
    BY SpendTyped DEF RunDies, Counters
  <2>2. RebootMidWrite => used'["deaths"] = used["deaths"] + 1
    BY DEF RebootMidWrite, TypeOK, Counters
  <2>3. used["deaths"] \in Nat
    BY DEF TypeOK, Counters
  <2>4. used'["deaths"] # 0
    BY <1>14, <2>1, <2>2, <2>3
  <2> QED
    BY <1>14, <2>4 DEF Intact, RunInv, RunInOrder, RunDies, RebootMidWrite, Finish, Restart
<1>15. CASE Reboot /\ phase # "reload"
  <2>1. UNCHANGED disk /\ Ends /\ phase \in {"idle", "fetch", "backup"}
    BY <1>15 DEF Reboot, Restart, TypeOK, Phases
  <2>2. Intact' => Intact
    BY <1>15, SpendTyped DEF Reboot, Counters, Intact
  <2> QED BY <2>1, <2>2 DEF RunInv, RunInOrder, RunIsClean, Whole, Accepts
<1> QED
  BY <1>2, <1>3, <1>4, <1>5, <1>6, <1>7, <1>8, <1>9, <1>10, <1>11, <1>12, <1>13, <1>14,
     <1>15 DEF Next, Fetch, FetchAnswered, Write, Backup

\* RunInv holds in every state.
LEMMA RunInvHolds == Spec => []RunInv
<1>1. Init => RunInv
  BY BootIsWhole DEF Init, RunInv, RunInOrder, RunIsClean, Writing
<1> QED BY <1>1, RunInvStep, TypeCorrect, PTL DEF Spec

\* Whatever died before, a run that reaches its reload has installed four files of
\* one policy that nginx accepted.
THEOREM AppliedRunsAreWhole == Spec => []AppliedRunIsWhole
<1>1. TypeOK /\ RunInv => AppliedRunIsWhole
  BY PolicyIsWhole DEF TypeOK, RunInv, RunInOrder, AppliedRunIsWhole, Files
<1> QED BY <1>1, TypeCorrect, RunInvHolds, PTL

\* As long as no run was cut short or lost its copies, the instance rests on the files of one accepted policy.
THEOREM RestsWhole == Spec => []RestsOnOnePolicy
<1>1. RunInv => RestsOnOnePolicy
  BY DEF RunInv, RunIsClean, RestsOnOnePolicy
<1> QED BY <1>1, RunInvHolds, PTL

(***************************************************************************)
(* What nginx serves, when no run begins while nginx is starting.          *)
(***************************************************************************)

NothingFailed == Intact /\ used["reloadFailures"] = 0

\* A starting nginx excludes a run.  A running one serves the files as they were
\* before the run in progress, or has a reload signal on its way, which it takes
\* before that run writes its first file.
ServeInv ==
    /\ nginx \in {"starting", "read"} => phase = "idle"
    /\ nginx = "read" => loaded = ConfigOn(disk)
    /\ reloading => /\ nginx = "up"
                    /\ \/ phase \in {"idle", "fetch", "backup"}
                       \/ phase = "install" /\ file = "allow"
    /\ nginx = "up" /\ ~reloading =>
         /\ phase \in {"idle", "fetch", "backup"} => loaded = ConfigOn(disk)
         /\ phase \in Writing => loaded = ConfigOn(backup)

\* Counters only grow.
LEMMA FailuresStay == TypeOK /\ [Next]_vars /\ ~NothingFailed => ~NothingFailed'
<1> SUFFICES ASSUME TypeOK, [Next]_vars, ~NothingFailed PROVE ~NothingFailed'
  OBVIOUS
<1>1. ASSUME UNCHANGED used PROVE ~NothingFailed'
  BY <1>1 DEF NothingFailed, Intact
<1>2. ASSUME NEW c \in Counters, NEW bound, Spend(c, bound) PROVE ~NothingFailed'
  BY <1>2, SpendTyped DEF NothingFailed, Intact, TypeOK, Counters
<1>3. ASSUME NEW p \in Policies, Deploy(p) PROVE ~NothingFailed'
  BY <1>2, <1>3 DEF Deploy, Counters
<1>4. CASE RunDies \/ Reboot \/ ReloadFails
  BY <1>2, <1>4 DEF RunDies, Reboot, ReloadFails, Counters
<1>5. CASE CopiesFail
  BY <1>5, LostTyped DEF NothingFailed, Intact
<1>6. CASE RebootMidWrite
  <2>1. used'["deaths"] = used["deaths"] + 1
    BY <1>6 DEF RebootMidWrite, TypeOK, Counters
  <2> QED BY <2>1 DEF NothingFailed, Intact, TypeOK, Counters
<1>7. CASE \/ AgentPoll \/ WriteConfig \/ StartIsNoop \/ Nginx \/ BeginRun \/ Fetch
           \/ (Write /\ ~CopiesFail) \/ SkipReload \/ SendReload \/ UNCHANGED vars
  BY <1>1, <1>7
  DEF AgentPoll, WriteConfig, StartIsNoop, Nginx, BeginStart, NginxReads, NginxUp,
      HandleReload, BeginRun, Fetch, FetchAnswered, FetchUnchanged, FetchChanged,
      FetchFails, FetchInvalid, Write, Backup, TakeBackups, Install, TestFiles, Revert,
      RevertLast, SkipReload, SendReload, vars
<1> QED BY <1>3, <1>4, <1>5, <1>6, <1>7 DEF Next, Reload

\* Every step in which nothing fails keeps ServeInv, if runs wait for nginx.
LEMMA ServeInvStep ==
    ASSUME ~StartOverlap, TypeOK, RunInv, RunInv', ServeInv, [Next]_vars,
           NothingFailed, NothingFailed'
    PROVE  ServeInv'
<1> USE DEF ServeInv, ConfigOn, Ends, Writing
<1>1. ASSUME UNCHANGED <<disk, phase, file, backup, nginxVars>> PROVE ServeInv'
  BY <1>1 DEF nginxVars
<1>2. ASSUME NEW p \in Policies, Deploy(p) PROVE ServeInv'
  BY <1>1, <1>2 DEF Deploy, runVars
<1>3. CASE AgentPoll \/ WriteConfig \/ StartIsNoop \/ UNCHANGED vars
  BY <1>1, <1>3 DEF AgentPoll, WriteConfig, StartIsNoop, vars, runVars, nginxVars
<1>4. CASE BeginStart \/ NginxReads \/ NginxUp
  BY <1>4 DEF BeginStart, NginxReads, NginxUp, runVars
<1>5. CASE HandleReload
  <2>1. phase \in {"idle", "fetch", "backup"} => Accepts(disk)
    BY DEF RunInv, RunIsClean, NothingFailed, Whole
  <2>2. phase = "install" => \A f \in Files : disk[f] = backup[f]
    BY <1>5, FileOrder DEF RunInv, RunIsClean, NothingFailed, HandleReload
  <2>3. phase = "install" => Accepts(disk)
    BY <2>2 DEF RunInv, RunIsClean, NothingFailed, Whole, Accepts, Files
  <2> QED BY <1>5, <2>1, <2>2, <2>3 DEF HandleReload, runVars, Files
<1>6. CASE BeginRun
  BY <1>6 DEF BeginRun, nginxVars
<1>7. CASE Fetch
  BY <1>7 DEF Fetch, FetchAnswered, FetchUnchanged, FetchChanged, FetchFails,
              FetchInvalid, Finish, nginxVars
<1>8. CASE TakeBackups
  BY <1>8 DEF TakeBackups, nginxVars, RunInv, RunInOrder
<1>9. CASE Install
  BY <1>9 DEF Install, Advance, nginxVars
<1>10. CASE TestFiles
  BY <1>10 DEF TestFiles, nginxVars
<1>11. CASE Revert
  BY <1>11 DEF Revert, Advance, nginxVars
<1>12. CASE RevertLast
  <2>1. disk'["allow"] = backup["allow"] /\ disk'["resolver"] = backup["resolver"]
    BY <1>12, FileOrder
    DEF RunInv, RunIsClean, NothingFailed, RevertLast, TypeOK, Files
  <2> QED BY <1>12, <2>1 DEF RevertLast, Finish, nginxVars
<1>13. CASE SkipReload \/ SendReload
  BY <1>13 DEF SkipReload, SendReload, IsActive, Finish, nginxVars
<1>14. ~(ReloadFails \/ RunDies \/ RebootMidWrite \/ CopiesFail)
  <2>1. ReloadFails => used'["reloadFailures"] = used["reloadFailures"] + 1
    BY SpendTyped DEF ReloadFails, Counters
  <2>2. RunDies \/ RebootMidWrite => used'["deaths"] = used["deaths"] + 1
    BY SpendTyped DEF RunDies, RebootMidWrite, Counters, TypeOK
  <2> QED BY <2>1, <2>2, LostTyped DEF NothingFailed, Intact, TypeOK, Counters
<1>15. CASE Reboot
  BY <1>15 DEF Reboot, Restart
<1> QED
  BY <1>2, <1>3, <1>4, <1>5, <1>6, <1>7, <1>8, <1>9, <1>10, <1>11, <1>12, <1>13, <1>14,
     <1>15 DEF Next, Nginx, Write, Backup, Reload

\* If no run begins while nginx is starting, then between runs nginx serves what is
\* on disk, for any number of deployments and reboots.
THEOREM ServesTheDisk == ASSUME ~StartOverlap PROVE Spec => []ServesWhatIsOnDisk
<1> DEFINE Inv == NothingFailed => ServeInv
<1>1. Init => Inv
  BY DEF Init, ServeInv
<1>2. TypeOK /\ RunInv /\ RunInv' /\ Inv /\ [Next]_vars => Inv'
  BY ServeInvStep, FailuresStay
<1>3. Inv => ServesWhatIsOnDisk
  BY DEF ServeInv, NothingFailed, ServesWhatIsOnDisk
<1> HIDE DEF Inv
<1> QED BY <1>1, <1>2, <1>3, TypeCorrect, RunInvHolds, PTL DEF Spec

(***************************************************************************)
(* The refinement of PolicyStore, when no run is cut short.                *)
(***************************************************************************)

\* Whatever the instance is about to install was deployed at some time.
OfferedInv == /\ deployed \in offered
              /\ agent \in offered \cup {"none"}
              /\ cand \in offered \cup {"none"}

LEMMA OfferedHolds == Spec => []OfferedInv
<1>1. Init => OfferedInv
  BY DEF Init, OfferedInv
<1>2. OfferedInv /\ [Next]_vars => OfferedInv'
  <2> SUFFICES ASSUME OfferedInv, [Next]_vars PROVE OfferedInv'
    OBVIOUS
  <2> USE DEF OfferedInv
  <2>1. ASSUME NEW p \in Policies, Deploy(p) PROVE OfferedInv'
    BY <2>1 DEF Deploy, runVars
  <2>2. CASE AgentPoll \/ Reboot \/ RebootMidWrite
    BY <2>2 DEF AgentPoll, Reboot, RebootMidWrite, Restart, Ends, runVars
  <2>3. CASE \/ WriteConfig \/ StartIsNoop \/ Nginx \/ BeginRun \/ Fetch \/ Write
             \/ Reload \/ RunDies \/ UNCHANGED vars
    BY <2>3
    DEF WriteConfig, StartIsNoop, Nginx, BeginStart, NginxReads, NginxUp, HandleReload,
        BeginRun, Fetch, FetchAnswered, FetchUnchanged, FetchChanged, FetchFails,
        FetchInvalid, Write, Backup, TakeBackups, CopiesFail, Install, TestFiles, Revert,
        RevertLast, Reload, SkipReload, SendReload, ReloadFails, RunDies, Finish, Ends,
        appConfigVars, runVars, vars
  <2> QED BY <2>1, <2>2, <2>3 DEF Next
<1> QED BY <1>1, <1>2, PTL DEF Spec

\* Bounds of zero faults are never spent from.
LEMMA StaysIntact ==
    ASSUME MaxDeaths = 0, MaxLostCopies = 0
    PROVE  Spec => []Intact
<1>1. Init => Intact
  BY DEF Init, Counters, Intact
<1>2. TypeOK /\ Intact /\ [Next]_vars => Intact'
  <2> SUFFICES ASSUME TypeOK, Intact, [Next]_vars PROVE Intact'
    OBVIOUS
  <2>1. ASSUME NEW p \in Policies, Deploy(p) PROVE Intact'
    BY <2>1, SpendTyped DEF Deploy, Counters, Intact
  <2>2. CASE Reboot \/ ReloadFails
    BY <2>2, SpendTyped DEF Reboot, ReloadFails, Counters, Intact
  <2>3. ~RunDies /\ ~RebootMidWrite
    BY DEF RunDies, RebootMidWrite, Spend, Intact
  <2>4. ~CopiesFail
    BY LostTyped DEF Intact
  <2>5. CASE \/ AgentPoll \/ WriteConfig \/ StartIsNoop \/ Nginx \/ BeginRun \/ Fetch
             \/ (Write /\ ~CopiesFail) \/ SkipReload \/ SendReload \/ UNCHANGED vars
    BY <2>5
    DEF AgentPoll, WriteConfig, StartIsNoop, Nginx, BeginStart, NginxReads, NginxUp,
        HandleReload, BeginRun, Fetch, FetchAnswered, FetchUnchanged, FetchChanged,
        FetchFails, FetchInvalid, Write, Backup, TakeBackups, Install, TestFiles, Revert,
        RevertLast, SkipReload, SendReload, vars, Intact
  <2> QED BY <2>1, <2>2, <2>3, <2>4, <2>5 DEF Next, Reload
<1> QED BY <1>1, <1>2, TypeCorrect, PTL DEF Spec

\* A step of the refresher is a step of the store: passing nginx -t adopts the
\* candidate, and every write before it is invisible.
LEMMA StepRefines ==
    ASSUME TypeOK, RunInv, OfferedInv, Intact, Intact',
           [Next]_vars
    PROVE  [Store!Next]_(Store!storeVars)
<1> USE DEF Committed, Writing, Ends, Store!storeVars
<1>1. ASSUME NEW p \in Policies, Deploy(p) PROVE Store!Next
  BY <1>1 DEF Deploy, runVars, Store!Next, Store!Publish
<1>2. CASE \/ AgentPoll \/ WriteConfig \/ StartIsNoop \/ Nginx \/ BeginRun \/ Fetch
           \/ Reload \/ Reboot \/ UNCHANGED vars
  BY <1>2
  DEF AgentPoll, WriteConfig, StartIsNoop, Nginx, BeginStart, NginxReads, NginxUp,
      HandleReload, BeginRun, Fetch, FetchAnswered, FetchUnchanged, FetchChanged,
      FetchFails, FetchInvalid, Reload, SkipReload, SendReload, ReloadFails, Reboot,
      Restart, Finish, runVars, appConfigVars, vars
<1>3. CASE TakeBackups \/ Install \/ Revert
  BY <1>3 DEF TakeBackups, Install, Revert, Advance, appConfigVars
<1>4. CASE TestFiles
  <2>1. CASE TestPasses
    <3>1. /\ Committed' = cand
          /\ cand \in offered \cap (Policies \ (BadAllowlist \cup BadResolver))
          /\ cand \in Policies
      <4>1. disk["allow"] = cand /\ disk["resolver"] = cand /\ cand \in Policies
        BY <1>4 DEF TestFiles, RunInv, RunInOrder, TypeOK, Files
      <4> QED
        BY <1>4, <2>1, <4>1, PoliciesAssumption
        DEF TestFiles, TestPasses, Accepts, OfferedInv
    <3> QED
      BY <1>4, <3>1 DEF TestFiles, appConfigVars, Store!Next, Store!Adopt
  <2>2. CASE ~TestPasses
    BY <1>4, <2>2 DEF TestFiles, appConfigVars
  <2> QED BY <2>1, <2>2
<1>5. CASE RevertLast
  <2>1. disk["allow"] = backup["allow"]
    BY <1>5, FileOrder DEF RevertLast, RunInv, RunIsClean, Files, Intact
  <2>2. disk'["allow"] = disk["allow"]
    BY <1>5 DEF RevertLast, TypeOK, Files
  <2> QED BY <1>5, <2>1, <2>2 DEF RevertLast, Finish, appConfigVars
<1>6. ~(RunDies \/ RebootMidWrite \/ CopiesFail)
  <2>1. RunDies \/ RebootMidWrite => used'["deaths"] = used["deaths"] + 1
    BY SpendTyped DEF RunDies, RebootMidWrite, Counters, TypeOK
  <2> QED BY <2>1, LostTyped DEF Intact
<1> QED BY <1>1, <1>2, <1>3, <1>4, <1>5, <1>6 DEF Next, Write, Backup

\* Where no run is cut short and no copy fails, the four-file, many-command refresher is a store whose policy
\* changes in one step, and only to accepted policies that were deployed.
THEOREM Refinement == ASSUME MaxDeaths = 0, MaxLostCopies = 0 PROVE Spec => ImplementsStore
<1>1. Init => Store!Init
  BY DEF Init, Store!Init, Committed, Writing, BootFiles, Files
<1>2. /\ TypeOK /\ RunInv /\ OfferedInv /\ Intact /\ Intact'
      /\ [Next]_vars
      => [Store!Next]_(Store!storeVars)
  BY StepRefines
<1>3. Spec => []Intact
  BY StaysIntact
<1> QED
  BY <1>1, <1>2, <1>3, TypeCorrect, RunInvHolds, OfferedHolds, PTL
  DEF Spec, ImplementsStore, Store!Spec

(***************************************************************************)
(* The window the HTTP Host guard sees.                                    *)
(***************************************************************************)

\* Nor is a bound of zero failing reloads.
LEMMA NothingFails ==
    ASSUME MaxDeaths = 0, MaxLostCopies = 0, MaxReloadFailures = 0
    PROVE  Spec => []NothingFailed
<1> DEFINE NoFailure == used["reloadFailures"] = 0
<1>1. Init => NoFailure
  BY DEF Init, Counters
<1>2. TypeOK /\ NoFailure /\ [Next]_vars => NoFailure'
  <2> SUFFICES ASSUME TypeOK, NoFailure, [Next]_vars PROVE NoFailure'
    OBVIOUS
  <2>1. ASSUME NEW p \in Policies, Deploy(p) PROVE NoFailure'
    BY <2>1, SpendTyped DEF Deploy, Counters
  <2>2. CASE Reboot \/ RunDies
    BY <2>2, SpendTyped DEF Reboot, RunDies, Counters
  <2>3. ~ReloadFails
    BY DEF ReloadFails, Spend
  <2>4. CASE CopiesFail
    BY <2>4, LostTyped DEF Counters
  <2>5. CASE RebootMidWrite
    BY <2>5 DEF RebootMidWrite, TypeOK, Counters
  <2>6. CASE \/ AgentPoll \/ WriteConfig \/ StartIsNoop \/ Nginx \/ BeginRun \/ Fetch
             \/ (Write /\ ~CopiesFail) \/ SkipReload \/ SendReload \/ UNCHANGED vars
    BY <2>6
    DEF AgentPoll, WriteConfig, StartIsNoop, Nginx, BeginStart, NginxReads, NginxUp,
        HandleReload, BeginRun, Fetch, FetchAnswered, FetchUnchanged, FetchChanged,
        FetchFails, FetchInvalid, Write, Backup, TakeBackups, Install, TestFiles, Revert,
        RevertLast, SkipReload, SendReload, vars
  <2> QED BY <2>1, <2>2, <2>3, <2>4, <2>5, <2>6 DEF Next, Reload
<1>3. Spec => []NoFailure
  <2> HIDE DEF NoFailure
  <2> QED BY <1>1, <1>2, TypeCorrect, PTL DEF Spec
<1> QED BY <1>3, StaysIntact, PTL DEF NothingFailed

Closed == phase = "idle" /\ nginx = "up" /\ ~reloading

\* What the mapped variables satisfy in every state.
ViewOK == /\ disk["lua"] \in Content \cup {"none"}
          /\ loaded["allow"] \in Content \cup {"none"}
          /\ Closed => disk["lua"] = loaded["allow"]

\* A step that neither begins nor ends with the window open touches neither the Lua
\* policy nor the workers.
LEMMA ClosedStep ==
    ASSUME TypeOK, [Next]_vars, Closed, Closed'
    PROVE  UNCHANGED <<disk, loaded>>
<1> USE DEF Closed
<1>1. ASSUME NEW p \in Policies, Deploy(p) PROVE UNCHANGED <<disk, loaded>>
  BY <1>1 DEF Deploy, nginxVars
<1>2. CASE AgentPoll \/ WriteConfig \/ StartIsNoop \/ BeginRun \/ UNCHANGED vars
  BY <1>2 DEF AgentPoll, WriteConfig, StartIsNoop, BeginRun, nginxVars, vars
<1>3. ~Nginx /\ ~Fetch /\ ~Write /\ ~Reload /\ ~RunDies
  BY DEF Nginx, BeginStart, NginxReads, NginxUp, HandleReload, Fetch, FetchAnswered,
         FetchUnchanged, FetchChanged, FetchFails, FetchInvalid, Write, Backup,
         TakeBackups, CopiesFail, Install, TestFiles, Revert, RevertLast, Reload,
         SkipReload, SendReload, ReloadFails, RunDies
<1>4. ~Reboot /\ ~RebootMidWrite
  BY DEF Reboot, RebootMidWrite, Restart
<1> QED BY <1>1, <1>2, <1>3, <1>4 DEF Next

\* Without faults and overlapping starts, the guard's view of the
\* refresher is the one HttpGuard is built on.
THEOREM WindowRefinement ==
    ASSUME ~StartOverlap, MaxDeaths = 0, MaxLostCopies = 0, MaxReloadFailures = 0
    PROVE  Spec => ImplementsWindow
<1>1. TypeOK /\ RestsOnOnePolicy /\ ServesWhatIsOnDisk /\ NothingFailed => ViewOK
  <2> SUFFICES ASSUME TypeOK, RestsOnOnePolicy, ServesWhatIsOnDisk, NothingFailed
               PROVE  ViewOK
    OBVIOUS
  <2>1. /\ disk["lua"] \in Content \cup {"none"}
        /\ loaded["allow"] \in Content \cup {"none"}
    BY DEF TypeOK, Files
  <2>2. Closed => Whole(disk) /\ loaded = ConfigOn(disk)
    BY DEF RestsOnOnePolicy, ServesWhatIsOnDisk, NothingFailed, Closed
  <2> QED BY <2>1, <2>2 DEF Whole, ConfigOn, ViewOK
<1>2. ViewOK /\ Init => Window!Init
  BY DEF Window!Init, Window!Coherent, ViewOK, Closed
<1>3. TypeOK /\ ViewOK' /\ [Next]_vars => [Window!Next]_(Window!windowVars)
  <2> SUFFICES ASSUME TypeOK, ViewOK', [Next]_vars
               PROVE  [Window!Next]_(Window!windowVars)
    OBVIOUS
  <2>1. CASE Closed /\ Closed'
    BY <2>1, ClosedStep DEF Window!windowVars, Closed
  <2>2. CASE ~(Closed /\ Closed')
    BY <2>2 DEF Window!Next, Window!Coherent, Closed, ViewOK
  <2> QED BY <2>1, <2>2
<1>4. Spec => [](RestsOnOnePolicy /\ ServesWhatIsOnDisk /\ NothingFailed)
  <2>1. Spec => []ServesWhatIsOnDisk
    BY ServesTheDisk
  <2>2. Spec => []NothingFailed
    BY NothingFails
  <2> QED BY <2>1, <2>2, RestsWhole, PTL
<1> QED
  BY <1>1, <1>2, <1>3, <1>4, TypeCorrect, PTL DEF Spec, ImplementsWindow, Window!Spec

(***************************************************************************)
(* A run takes everything or nothing, whatever earlier runs that died left. *)
(***************************************************************************)

\* What a rejected candidate leaves in file f: the copy the run took of it.  A file
\* without a copy keeps the candidate's, except current-policy.json.
TakenBack(f) == IF backup[f] # "gone" \/ f = "json" THEN backup[f] ELSE cand

\* The revert loop has got as far as `file'.
RevertInv == phase = "revert" =>
    \A f \in Files : disk[f] = IF Rank[f] < Rank[file] THEN TakenBack(f) ELSE cand

LEMMA RevertInvStep == TypeOK /\ RunInv /\ RevertInv /\ [Next]_vars => RevertInv'
<1> SUFFICES ASSUME TypeOK, RunInv, RevertInv, [Next]_vars PROVE RevertInv'
  OBVIOUS
<1>1. ASSUME UNCHANGED <<disk, runVars>> PROVE RevertInv'
  BY <1>1 DEF RevertInv, TakenBack, runVars
<1>2. ASSUME NEW p \in Policies, Deploy(p) PROVE RevertInv'
  BY <1>1, <1>2 DEF Deploy
<1>3. CASE AgentPoll \/ WriteConfig \/ StartIsNoop \/ Nginx \/ UNCHANGED vars
  BY <1>1, <1>3 DEF AgentPoll, WriteConfig, StartIsNoop, Nginx, BeginStart, NginxReads,
                    NginxUp, HandleReload, vars, runVars
<1>4. CASE \/ BeginRun \/ Fetch \/ Backup \/ Reload \/ RunDies \/ RevertLast
           \/ Reboot \/ RebootMidWrite
  BY <1>4
  DEF RevertInv, BeginRun, Fetch, FetchAnswered, FetchUnchanged, FetchChanged, FetchFails,
      FetchInvalid, Backup, TakeBackups, CopiesFail, Reload, SkipReload, SendReload,
      ReloadFails, RunDies, RevertLast, Reboot, RebootMidWrite, Restart, Finish, Ends
<1>5. CASE Install
  BY <1>5 DEF RevertInv, Install, Advance
<1>6. CASE TestFiles
  BY <1>6, FileOrder DEF RevertInv, TestFiles, RunInv, RunInOrder
<1>7. CASE Revert
  <2>1. \A f \in Files : disk'[f] = IF f = file THEN Restored(file) ELSE disk[f]
    BY <1>7 DEF Revert, TypeOK
  <2>2. Restored(file) = TakenBack(file)
    BY <1>7, FileOrder DEF RevertInv, Revert, Restored, TakenBack, TypeOK
  <2> QED
    BY <1>7, <2>1, <2>2, FileOrder DEF RevertInv, Revert, Advance, TakenBack, TypeOK
<1> QED
  BY <1>2, <1>3, <1>4, <1>5, <1>6, <1>7 DEF Next, Write

LEMMA RevertInvHolds == Spec => []RevertInv
<1>1. Init => RevertInv
  BY DEF Init, RevertInv
<1> QED BY <1>1, RevertInvStep, TypeCorrect, RunInvHolds, PTL DEF Spec

\* A run that is not cut short while it writes has installed nothing at all, has put back
\* the copies it took, or leaves all four files of the policy it fetched and nginx
\* accepted: apply_rendered_files takes everything or nothing, on whatever disk earlier
\* runs that died have left.
EndsAllOrNothing ==
    [][phase # "idle" /\ phase' = "idle" /\ used'["deaths"] = used["deaths"] =>
         \/ phase \in {"fetch", "backup"} /\ UNCHANGED disk
         \/ phase = "revert" /\ \A f \in Files : disk'[f] = TakenBack(f)
         \/ phase = "reload" /\ UNCHANGED disk /\ Whole(disk) /\ disk["allow"] = cand]_vars

\* Every run that is not cut short takes everything or nothing.
THEOREM RunsAreAllOrNothing == Spec => EndsAllOrNothing
<1>1. TypeOK /\ RevertInv /\ AppliedRunIsWhole /\ [Next]_vars =>
        [phase # "idle" /\ phase' = "idle" /\ used'["deaths"] = used["deaths"] =>
           \/ phase \in {"fetch", "backup"} /\ UNCHANGED disk
           \/ phase = "revert" /\ \A f \in Files : disk'[f] = TakenBack(f)
           \/ phase = "reload" /\ UNCHANGED disk /\ Whole(disk)
                /\ disk["allow"] = cand]_vars
  <2> SUFFICES ASSUME TypeOK, RevertInv, AppliedRunIsWhole, Next,
                      phase # "idle", phase' = "idle",
                      used'["deaths"] = used["deaths"]
               PROVE  \/ phase \in {"fetch", "backup"} /\ UNCHANGED disk
                      \/ phase = "revert" /\ \A f \in Files : disk'[f] = TakenBack(f)
                      \/ phase = "reload" /\ UNCHANGED disk /\ Whole(disk)
                           /\ disk["allow"] = cand
    OBVIOUS
  <2>1. ~\E p \in Policies : Deploy(p)
    BY DEF Deploy, runVars
  <2>2. ~(AgentPoll \/ WriteConfig \/ StartIsNoop \/ Nginx \/ BeginRun)
    BY DEF AgentPoll, WriteConfig, StartIsNoop, Nginx, BeginStart, NginxReads, NginxUp,
           HandleReload, BeginRun, runVars
  <2>3. CASE Fetch
    BY <2>3 DEF Fetch, FetchAnswered, FetchUnchanged, FetchChanged, FetchFails,
                FetchInvalid
  <2>4. ~(Backup \/ Install \/ TestFiles \/ Revert)
    BY DEF Backup, TakeBackups, CopiesFail, Install, TestFiles, Revert, Advance
  <2>5. CASE RevertLast
    <3>1. \A f \in Files : disk'[f] = IF f = "json" THEN Restored("json") ELSE disk[f]
      BY <2>5 DEF RevertLast, TypeOK
    <3> QED
      BY <2>5, <3>1, FileOrder DEF RevertLast, RevertInv, Restored, TakenBack
  <2>6. CASE Reload
    BY <2>6 DEF Reload, SkipReload, SendReload, ReloadFails, AppliedRunIsWhole
  <2>7. CASE Reboot
    BY <2>7 DEF Reboot, Writing, AppliedRunIsWhole, TypeOK, Phases
  <2>8. ~(RunDies \/ RebootMidWrite)
    <3> SUFFICES ASSUME RunDies \/ RebootMidWrite PROVE FALSE
      OBVIOUS
    <3>1. used'["deaths"] = used["deaths"] + 1
      BY SpendTyped DEF RunDies, RebootMidWrite, Counters, TypeOK
    <3> QED BY <3>1 DEF TypeOK, Counters
  <2> QED BY <2>1, <2>2, <2>3, <2>4, <2>5, <2>6, <2>7, <2>8 DEF Next, Write
<1> QED
  BY <1>1, TypeCorrect, RevertInvHolds, AppliedRunsAreWhole, PTL DEF Spec, EndsAllOrNothing

(***************************************************************************)
(* The three files change together, where runs wait for nginx.             *)
(***************************************************************************)

\* What the script says of itself in its line 3 is true as long as no run begins while
\* nginx is starting, none is cut short or loses its copies, and no reload fails: of the
\* states the run `together' finds, the overlap is the only cause.
THEOREM TogetherUnlessOverlap ==
    ASSUME ~StartOverlap
    PROVE  Spec => [](NothingFailed => FilesChangeTogether)
<1>1. TypeOK /\ RestsOnOnePolicy /\ ServesWhatIsOnDisk
        => (NothingFailed => FilesChangeTogether)
  BY DEF RestsOnOnePolicy, ServesWhatIsOnDisk, NothingFailed, FilesChangeTogether, Whole,
         ConfigOn
<1>2. Spec => []ServesWhatIsOnDisk
  BY ServesTheDisk
<1> QED BY <1>1, <1>2, TypeCorrect, RestsWhole, PTL

(***************************************************************************)
(* A policy in effect stays in effect.                                     *)
(***************************************************************************)

\* Policy p has arrived: it is what the four files hold, and what nginx runs with or is
\* about to read.
Settled(p) == /\ deployed = p /\ agent \in {p, "none"}
              /\ \A f \in Files : disk[f] = p
              /\ phase \in {"idle", "fetch"}
              /\ nginx # "failed"
              /\ nginx \in {"read", "up"} /\ ~reloading => loaded = ConfigOn(disk)

\* Only a new deployment unsettles a policy.
LEMMA SettledStep ==
    ASSUME NEW p \in Policies, Good(p), TypeOK, Settled(p), [Next]_vars, deployed' = p
    PROVE  Settled(p)'
<1> USE DEF Settled
<1>1. Accepts(disk)
  BY PoliciesAssumption DEF Accepts, Good, Files, Remnants
<1>2. disk["json"] = p /\ p # "gone" /\ p # "none"
  BY PoliciesAssumption DEF Files, Remnants
<1>3. ASSUME NEW q \in Policies, Deploy(q) PROVE FALSE
  BY <1>3 DEF Deploy
<1>4. CASE AgentPoll \/ WriteConfig \/ StartIsNoop \/ UNCHANGED vars
  BY <1>4 DEF AgentPoll, WriteConfig, StartIsNoop, appConfigVars, runVars, nginxVars, vars,
              ConfigOn
<1>5. CASE Nginx
  BY <1>5, <1>1 DEF Nginx, BeginStart, NginxReads, NginxUp, HandleReload, appConfigVars,
                    runVars, ConfigOn
<1>6. CASE BeginRun
  BY <1>6 DEF BeginRun, appConfigVars, nginxVars, ConfigOn
<1>7. CASE Fetch
  BY <1>7, <1>2
  DEF Fetch, FetchAnswered, FetchUnchanged, FetchChanged, FetchFails, FetchInvalid,
      PolicyIsCurrent, Finish, Ends, appConfigVars, nginxVars, ConfigOn
<1>8. ~Write /\ ~Reload
  BY DEF Write, Backup, TakeBackups, CopiesFail, Install, TestFiles, Revert,
         RevertLast, Reload, SkipReload, SendReload, ReloadFails
<1>9. CASE RunDies
  BY <1>9 DEF RunDies, CutShort, MidInstall, Finish, Ends, appConfigVars, nginxVars,
              ConfigOn
<1>10. CASE Reboot \/ RebootMidWrite
  BY <1>10 DEF Reboot, RebootMidWrite, Restart, Ends, Writing
<1> QED BY <1>3, <1>4, <1>5, <1>6, <1>7, <1>8, <1>9, <1>10 DEF Next

\* Once a good policy has arrived it stays: as long as it is deployed, nginx and the Lua
\* guard have it whenever nginx is up with no reload on its way, through reboots, fetches
\* that fail, runs that die and runs that overlap nginx's start.  This is the half of
\* Converges that needs no fairness.
THEOREM InEffectStays ==
    ASSUME NEW p \in Policies, Good(p)
    PROVE  Spec => [](Settled(p) /\ [](deployed = p)
                        => [](nginx = "up" /\ ~reloading => InEffect(p)))
<1>1. TypeOK /\ Settled(p) /\ [Next]_vars /\ (deployed = p)' => Settled(p)'
  BY SettledStep
<1>2. Settled(p) => (nginx = "up" /\ ~reloading => InEffect(p))
  BY DEF Settled, InEffect, ConfigOn, Files
<1> QED BY <1>1, <1>2, TypeCorrect, PTL DEF Spec

\* A run that ends by sending the reload has settled the policy it fetched, if that is
\* still the one deployed: apply_rendered_files and the unchanged comparison of the next
\* runs together.
THEOREM ReloadSettles ==
    Spec => [][phase = "reload" /\ SendReload /\ deployed = cand /\ agent \in {cand, "none"}
                 => Settled(deployed)']_vars
<1>1. /\ TypeOK /\ AppliedRunIsWhole
      => [phase = "reload" /\ SendReload /\ deployed = cand /\ agent \in {cand, "none"}
            => Settled(deployed)']_vars
  <2> SUFFICES ASSUME TypeOK, AppliedRunIsWhole, phase = "reload", SendReload,
                      deployed = cand, agent \in {cand, "none"}
               PROVE  Settled(deployed)'
    OBVIOUS
  <2>1. \A f \in Files : disk[f] = cand
    BY PoliciesAssumption DEF AppliedRunIsWhole, Whole, Files, TypeOK
  <2> QED
    BY <2>1 DEF SendReload, IsActive, Finish, Ends, Settled, appConfigVars
<1> QED BY <1>1, TypeCorrect, AppliedRunsAreWhole, PTL

(***************************************************************************)
(* What becomes of a run.                                                  *)
(***************************************************************************)

\* The fate of a run is that of the policy it fetched: what nginx -t found on the disk
\* is a verdict on the candidate, and neither a remnant of a run that died nor a file
\* of the policy before can get a good policy taken back or a bad one applied
\* (apply_rendered_files, nginx -t).
VerdictIsOnThePolicy == /\ phase = "revert" => ~Good(cand)
                        /\ phase = "reload" => Good(cand)

\* A good policy is never taken back, and a rejected one never reaches the reload.
THEOREM VerdictsAreOnThePolicy == Spec => []VerdictIsOnThePolicy
<1> DEFINE Rejected == phase = "revert" => ~Good(cand)
<1>1. Init => Rejected
  BY DEF Init
<1>2. TypeOK /\ RunInv /\ Rejected /\ [Next]_vars => Rejected'
  <2> SUFFICES ASSUME TypeOK, RunInv, Rejected, [Next]_vars, phase' = "revert"
               PROVE  ~Good(cand')
    BY DEF Good
  <2>1. CASE UNCHANGED runVars
    BY <2>1 DEF runVars, Good
  <2>2. CASE TestFiles
    <3>1. /\ disk["allow"] = cand /\ disk["resolver"] = cand
          /\ ~Accepts(disk) /\ cand \in Policies /\ cand' = cand
      BY <2>2, FileOrder DEF TestFiles, TestPasses, RunInv, RunInOrder, TypeOK, Files
    <3> QED BY <3>1, PoliciesAssumption DEF Accepts, Good, Remnants
  <2>3. CASE Revert
    BY <2>3 DEF Revert, Advance, Good
  <2>4. ASSUME NEW p \in Policies, Deploy(p) PROVE UNCHANGED runVars
    BY <2>4 DEF Deploy
  <2>5. CASE AgentPoll \/ WriteConfig \/ StartIsNoop \/ Nginx \/ UNCHANGED vars
    BY <2>1, <2>5 DEF AgentPoll, WriteConfig, StartIsNoop, Nginx, BeginStart, NginxReads,
                      NginxUp, HandleReload, vars, runVars
  <2>6. ~(\/ BeginRun \/ Fetch \/ Backup \/ Install \/ RevertLast \/ Reload \/ RunDies
          \/ Reboot \/ RebootMidWrite)
    BY DEF BeginRun, Fetch, FetchAnswered, FetchUnchanged, FetchChanged, FetchFails,
           FetchInvalid, Backup, TakeBackups, CopiesFail, Install, Advance, RevertLast,
           Reload, SkipReload, SendReload, ReloadFails, RunDies, Reboot, RebootMidWrite,
           Restart, Finish, Ends
  <2> QED BY <2>1, <2>2, <2>3, <2>4, <2>5, <2>6 DEF Next, Write
<1>3. TypeOK /\ AppliedRunIsWhole /\ Rejected => VerdictIsOnThePolicy
  BY DEF TypeOK, AppliedRunIsWhole, Whole, Accepts, Good, VerdictIsOnThePolicy
<1> QED
  BY <1>1, <1>2, <1>3, TypeCorrect, RunInvHolds, AppliedRunsAreWhole, PTL DEF Spec

\* The order of a run's phases; a run takes one of the two that come last.
PhaseRank == [p \in Phases |-> CASE p = "idle" -> 0 [] p = "fetch" -> 1
                                 [] p = "backup" -> 2 [] p = "install" -> 3
                                 [] p = "test" -> 4 [] OTHER -> 5]

\* Whatever happens to a run is its beginning, its end, a later phase that starts with
\* the first file, or the next file of a loop: no step of the script is taken twice, so a
\* run has at most twelve.
RunGetsOn ==
    [][~UNCHANGED runVars =>
         \/ phase = "idle" /\ phase' = "fetch"
         \/ phase # "idle" /\ phase' = "idle"
         \/ phase # "idle" /\ PhaseRank[phase] < PhaseRank[phase'] /\ file' = "allow"
         \/ phase \in {"install", "revert"} /\ phase' = phase
              /\ Rank[file] < Rank[file']]_vars

\* A run only gets on: the half of Converges, as far as the script goes, that needs no
\* fairness.
THEOREM RunsOnlyGetOn == Spec => RunGetsOn
<1> DEFINE GetsOn == ~UNCHANGED runVars =>
             \/ phase = "idle" /\ phase' = "fetch"
             \/ phase # "idle" /\ phase' = "idle"
             \/ phase # "idle" /\ PhaseRank[phase] < PhaseRank[phase'] /\ file' = "allow"
             \/ phase \in {"install", "revert"} /\ phase' = phase
                  /\ Rank[file] < Rank[file']
<1>1. TypeOK /\ RunInv /\ [Next]_vars => [GetsOn]_vars
  <2> SUFFICES ASSUME TypeOK, RunInv, Next, ~UNCHANGED runVars
               PROVE  \/ phase = "idle" /\ phase' = "fetch"
                      \/ phase # "idle" /\ phase' = "idle"
                      \/ phase # "idle" /\ PhaseRank[phase] < PhaseRank[phase']
                           /\ file' = "allow"
                      \/ phase \in {"install", "revert"} /\ phase' = phase
                           /\ Rank[file] < Rank[file']
    OBVIOUS
  <2>1. ASSUME NEW p \in Policies, Deploy(p) PROVE FALSE
    BY <2>1 DEF Deploy
  <2>2. ~(AgentPoll \/ WriteConfig \/ StartIsNoop \/ Nginx)
    BY DEF AgentPoll, WriteConfig, StartIsNoop, Nginx, BeginStart, NginxReads,
           NginxUp, HandleReload, runVars
  <2>3. CASE BeginRun \/ FetchFails \/ FetchInvalid \/ FetchUnchanged \/ RevertLast
               \/ Reload \/ RunDies
    BY <2>3 DEF BeginRun, FetchFails, FetchInvalid, FetchUnchanged, RevertLast, Reload,
                SkipReload, SendReload, ReloadFails, RunDies, Finish, Ends
  <2>4. CASE FetchChanged \/ Backup \/ TestFiles
    <3>1. phase \in {"fetch", "backup", "test"} => file = "allow"
      BY DEF RunInv, RunInOrder
    <3> QED
      BY <2>4, <3>1 DEF FetchChanged, Backup, TakeBackups, CopiesFail, TestFiles, PhaseRank,
                        Phases
  <2>5. CASE Install \/ Revert
    BY <2>5, FileOrder DEF Install, Revert, Advance, PhaseRank, Phases, TypeOK
  <2>6. CASE Reboot \/ RebootMidWrite
    <3>1. Ends /\ phase' = "idle"
      BY <2>6 DEF Reboot, RebootMidWrite, Restart, Ends
    <3>2. phase = "idle" => UNCHANGED runVars
      BY <3>1 DEF Ends, RunInv, RunInOrder, TypeOK, runVars
    <3> QED BY <3>1, <3>2
  <2> QED
    BY <2>1, <2>2, <2>3, <2>4, <2>5, <2>6 DEF Next, Fetch, FetchAnswered, Write
<1> QED
  BY <1>1, TypeCorrect, RunInvHolds, PTL DEF Spec, RunGetsOn
=============================================================================
