---------------------------- MODULE PolicyWindow ----------------------------
(***************************************************************************)
(* What the HTTP Host guard sees of the runtime-policy refresher: the      *)
(* Lua policy file on disk and the configuration the nginx workers run     *)
(* with.  They may differ, and either may change, while the window of a    *)
(* refresh, a reload or a start of nginx is open; they agree while it is   *)
(* closed.  PolicyRefresh is shown to implement this.                      *)
(***************************************************************************)
CONSTANT Contents      \* what either of them may hold

VARIABLES
    onDisk,            \* the content of proxy_runtime_policy.lua
    inWorkers,         \* the configuration new connections are accepted with
    open               \* is the window open?

windowVars == <<onDisk, inWorkers, open>>

Unchecked == TRUE
Coherent == open \/ onDisk = inWorkers

Init == /\ onDisk \in Contents
        /\ inWorkers \in Contents
        /\ open \in BOOLEAN
        /\ Coherent

Next == /\ onDisk' \in Contents
        /\ inWorkers' \in Contents
        /\ open' \in BOOLEAN
        /\ open \/ open'
        /\ Coherent'

Spec == Init /\ [][Next]_windowVars
=============================================================================
