---------------------------- MODULE UsageSnapshots ----------------------------
(***************************************************************************)
(* The scheduled publication of a closed day's usage (business_usage.main, *)
(* business_events.snapshot_page, daily_snapshot): page by page, tenants   *)
(* in the order of their ids, each page one transaction that holds the     *)
(* lock of every tenant it has looked at. A revision is written only when  *)
(* the quantity differs from the latest one's.                             *)
(***************************************************************************)
EXTENDS Integers, Sequences, FiniteSets

CONSTANTS
    UsageTenants,       \* tenant ids
    UsageRuns,          \* invocations of the scheduled job for the day
    UsagePage,          \* tenants of one page: 100 in the code
    UsageMax,           \* bound: usage of a tenant in that day
    UsageMaxFaults      \* bound: runs that die and are started again

ASSUME UsageAssumption ==
    /\ UsageTenants \subseteq Nat \ {0}
    /\ UsagePage \in Nat \ {0} /\ UsageMax \in Nat /\ UsageMaxFaults \in Nat

VARIABLES
    usage,          \* the day's accepted messages in the ledger, by tenant
    revisions,      \* the snapshots published for each tenant
    run,            \* the cursor of each run and its open page
    usageFaults     \* faults so far

usageVars == <<usage, revisions, run, usageFaults>>

\* after: the last tenant of the pages that are committed. page: the tenants
\* looked at since, which are locked; fresh: new quantities of some of them.
\* due: what the ledger said when the run began.
UsageRun == [after : UsageTenants \union {0}, page : SUBSET UsageTenants,
             fresh : [UsageTenants -> Nat], state : {"idle", "running", "done"},
             due : [UsageTenants -> Nat]]

None == [t \in UsageTenants |-> 0]
IdleRun == [after |-> 0, page |-> {}, fresh |-> None, state |-> "idle", due |-> None]

UsageInit ==
    /\ usage \in [UsageTenants -> 0..UsageMax]
    /\ revisions = [t \in UsageTenants |-> <<>>]
    /\ run = [r \in UsageRuns |-> IdleRun]
    /\ usageFaults = 0

\* A transaction that was open at midnight adds to the closed day.
UsageGrows(t) ==
    /\ usage[t] < UsageMax
    /\ usage' = [usage EXCEPT ![t] = @ + 1]
    /\ UNCHANGED <<revisions, run, usageFaults>>

RunBegins(r) ==
    /\ run[r].state = "idle"
    /\ run' = [run EXCEPT ![r].state = "running", ![r].due = usage]
    /\ UNCHANGED <<usage, revisions, usageFaults>>

\* A faulty variant: the tenant's row is not locked.
UnlockedAlways(t) == TRUE

Unlocked(t) == \A r \in UsageRuns : t \notin run[r].page

PageEnd(r) ==
    \/ Cardinality(run[r].page) = UsagePage
    \/ \A t \in UsageTenants : t <= run[r].after \/ t \in run[r].page

\* Whether a revision must be written; one of quantity 0 is the first only.
Changed(t) ==
    IF revisions[t] = <<>> THEN TRUE ELSE revisions[t][Len(revisions[t])] # usage[t]

\* The next tenant is locked, its ledger is summed and its latest revision read.
RunLooks(r) ==
    /\ run[r].state = "running" /\ ~PageEnd(r)
    /\ \E t \in UsageTenants \ run[r].page :
          /\ t > run[r].after /\ Unlocked(t)
          /\ \A d \in UsageTenants \ run[r].page : d > run[r].after => t <= d
          /\ run' = [run EXCEPT ![r].page = @ \union {t},
                                ![r].fresh[t] = IF Changed(t) THEN usage[t] + 1 ELSE 0]
    /\ UNCHANGED <<usage, revisions, usageFaults>>

LastOf(S) == CHOOSE t \in S : \A d \in S : d <= t

\* The page is committed; a page that is not full was the last one.
RunCommits(r) ==
    /\ run[r].state = "running" /\ PageEnd(r)
    /\ revisions' = [t \in UsageTenants |->
          IF t \in run[r].page /\ run[r].fresh[t] # 0
          THEN Append(revisions[t], run[r].fresh[t] - 1) ELSE revisions[t]]
    /\ run' = [run EXCEPT
          ![r].page = {}, ![r].fresh = None,
          ![r].state = IF Cardinality(run[r].page) = UsagePage THEN "running" ELSE "done",
          ![r].after = IF run[r].page = {} THEN @ ELSE LastOf(run[r].page)]
    /\ UNCHANGED <<usage, usageFaults>>

\* The run dies: its open page is lost, and it is started again from the front.
RunDies(r) ==
    /\ run[r].state = "running" /\ usageFaults < UsageMaxFaults
    /\ usageFaults' = usageFaults + 1
    /\ run' = [run EXCEPT ![r] = IdleRun]
    /\ UNCHANGED <<usage, revisions>>

UsageNext ==
    \/ \E t \in UsageTenants : UsageGrows(t)
    \/ \E r \in UsageRuns : RunBegins(r) \/ RunLooks(r) \/ RunCommits(r) \/ RunDies(r)

UsageSpec == UsageInit /\ [][UsageNext]_usageVars

-------------------------------------------------------------------------------
UsageTypeOK ==
    /\ usage \in [UsageTenants -> 0..UsageMax]
    /\ \A t \in UsageTenants : revisions[t] \in Seq(Nat)
    /\ run \in [UsageRuns -> UsageRun]
    /\ usageFaults \in 0..UsageMaxFaults

\* Runs that overlap or are replayed after a crash publish no quantity twice in
\* a row, and a run that has ended has brought every tenant up to what the
\* ledger said when it began ("Restarting/replaying a page reuses unchanged
\* daily snapshots").
SnapshotsAreCurrent ==
    /\ \A t \in UsageTenants : \A i \in 1..(Len(revisions[t]) - 1) :
          revisions[t][i] # revisions[t][i + 1]
    /\ \A r \in UsageRuns : run[r].state = "done" =>
          \A t \in UsageTenants :
             revisions[t] # <<>> /\ revisions[t][Len(revisions[t])] >= run[r].due[t]
===============================================================================
