---------------------------- MODULE JobScheduler ----------------------------
(***************************************************************************)
(* job_scheduler() of server/services/background.py and the endpoints that  *)
(* create, change and delete scheduled jobs.                                *)
(*                                                                          *)
(* A pass selects the enabled jobs, runs the due ones one after another, up *)
(* to 125 s each, and commits last_run for all of them at its end; then the *)
(* scheduler sleeps 60 s.  A fire is a moment of a job's cron expression.   *)
(* A job that has run is due when a fire lies after its last_run; one that  *)
(* has not, when a fire lies in the minute before the pass.  Of the fires   *)
(* of a job the model keeps whether there is one up to the moment when the  *)
(* last pass began (before) or one since (after).  A pass works with the    *)
(* rows as it read them, whatever is changed meanwhile.  Whether the node   *)
(* is connected is an input; a pass that cannot read or write the database  *)
(* is a fault.                                                              *)
(***************************************************************************)
EXTENDS Naturals

CONSTANTS
    Jobs,       \* identities of scheduled jobs
    Edited,     \* bound: jobs whose expression is changed
    NoJob,      \* no job
    MaxFailures \* bound: restarts and failed passes

ASSUME JobsAssumption == Edited \subseteq Jobs /\ NoJob \notin Jobs /\ MaxFailures \in Nat

VARIABLES
    mode,       \* mode[j]: "enabled" or "disabled" row, "absent" without one
    ran,        \* jobs whose last_run is set
    barren,     \* jobs with a valid expression that names no date at all
    before,     \* jobs with a fire from last_run to where the last pass began
    after,      \* jobs with a fire since the last pass began
    passing,    \* a pass is under way
    plan,       \* plan[j]: what the pass will do with j, as it was read
    running,    \* the job whose command it awaits
    handled,    \* jobs whose last_run it has updated, not committed
    fate,       \* history: fate[j]: what became of the fires in before
    edited,     \* history: jobs with a new expression since a pass began
    late,       \* history: late[j]: starts of j since it was disabled or deleted
    faults      \* restarts and failed passes so far

rowVars  == <<mode, ran>>
fireVars == <<barren, before, after>>
passVars == <<passing, plan, running, handled>>
jobVars == <<rowVars, fireVars, passVars, fate, edited, late, faults>>

-----------------------------------------------------------------------------
JobsType ==
    /\ mode \in [Jobs -> {"enabled", "disabled", "absent"}]
    /\ ran \subseteq Jobs
    /\ barren \subseteq Jobs /\ before \subseteq Jobs /\ after \subseteq Jobs
    /\ passing \in BOOLEAN
    /\ plan \in [Jobs -> {"none", "rest", "due", "raise"}]
    /\ running \in Jobs \cup {NoJob}
    /\ handled \subseteq Jobs
    /\ fate \in [Jobs -> {"owed", "started", "lost"}]
    /\ edited \subseteq Jobs
    /\ late \in [Jobs -> Nat]
    /\ faults \in 0..MaxFailures

JobsInit ==
    /\ mode = [j \in Jobs |-> "absent"]
    /\ ran = {} /\ barren = {} /\ before = {} /\ after = {}
    /\ passing = FALSE
    /\ plan = [j \in Jobs |-> "none"] /\ running = NoJob /\ handled = {}
    /\ fate = [j \in Jobs |-> "owed"]
    /\ edited = {}
    /\ late = [j \in Jobs |-> 0]
    /\ faults = 0

-----------------------------------------------------------------------------
(* The endpoints.                                                           *)

(* The cron expression is valid; a barren one is, too.  An identity is used *)
(* again when no pass refers to it.                                         *)
CreateJob(j) ==
    /\ mode[j] = "absent" /\ plan[j] = "none" /\ j \notin handled \cup {running}
    /\ barren' \in {barren \ {j}, barren \cup {j}}
    /\ \E m \in {"enabled", "disabled"} : mode' = [mode EXCEPT ![j] = m]
    /\ ran' = ran \ {j} /\ before' = before \ {j} /\ after' = after \ {j}
    /\ fate' = [fate EXCEPT ![j] = "owed"]
    /\ edited' = edited \ {j}
    /\ late' = [late EXCEPT ![j] = 0]
    /\ UNCHANGED <<passVars, faults>>

(* The UPDATE of an open pass locks the row.                                *)
RowFree(j) == mode[j] # "absent" /\ j \notin handled

EnableJob(j) ==
    /\ RowFree(j) /\ mode[j] = "disabled"
    /\ mode' = [mode EXCEPT ![j] = "enabled"]
    /\ late' = [late EXCEPT ![j] = 0]
    /\ UNCHANGED <<ran, fireVars, passVars, fate, edited, faults>>

DisableJob(j) ==
    /\ RowFree(j) /\ mode[j] = "enabled"
    /\ mode' = [mode EXCEPT ![j] = "disabled"]
    /\ UNCHANGED <<ran, fireVars, passVars, fate, edited, late, faults>>

DeleteJob(j) ==
    /\ RowFree(j)
    /\ mode' = [mode EXCEPT ![j] = "absent"]
    /\ UNCHANGED <<ran, fireVars, passVars, fate, edited, late, faults>>

(* A new expression has fires of its own, or none at all.                   *)
EditJob(j) ==
    /\ RowFree(j) /\ j \in Edited
    /\ \/ /\ barren' = barren \cup {j}
          /\ before' = before \ {j} /\ after' = after \ {j}
       \/ /\ barren' = barren \ {j}
          /\ before' \in {before \ {j}, before \cup ({j} \cap ran)}
          /\ after' \in {after \ {j}, after \cup {j}}
    /\ fate' = [fate EXCEPT ![j] = "owed"]
    /\ edited' = edited \cup {j}
    /\ UNCHANGED <<rowVars, passVars, late, faults>>

-----------------------------------------------------------------------------
(* job_scheduler().                                                         *)

(* Time passes a fire of j.                                                 *)
Fire(j) ==
    /\ mode[j] # "absent" /\ j \notin barren
    /\ after' = after \cup {j}
    /\ UNCHANGED <<rowVars, barren, before, passVars, fate, edited, late, faults>>

(* Mutant of Selected: every job is selected.                               *)
SelectedAll == {j \in Jobs : mode[j] # "absent"}

Selected == {j \in Jobs : mode[j] = "enabled"}

(* now is taken, and the enabled jobs are read once.                        *)
BeginPass ==
    /\ ~passing
    /\ passing' = TRUE
    /\ plan' = [j \in Jobs |-> IF j \notin Selected THEN "none"
                                ELSE IF j \in barren THEN "raise"
                                ELSE IF j \in before \cup after THEN "due" ELSE "rest"]
    /\ before' = before \cup after
    /\ after' = {}
    /\ fate' = [j \in Jobs |-> IF j \in after THEN "owed" ELSE fate[j]]
    /\ edited' = {}
    /\ UNCHANGED <<rowVars, barren, running, handled, late, faults>>

(* The pass looks at j, with no command under way.                          *)
LooksAt(j, what) == plan[j] = what /\ running = NoJob

Looked(j) == plan' = [plan EXCEPT ![j] = "none"]

NotDue(j) ==
    /\ LooksAt(j, "rest")
    /\ Looked(j)
    /\ UNCHANGED <<rowVars, fireVars, passing, running, handled, fate, edited, late, faults>>

(* The node is not connected: last_run is advanced all the same.            *)
Skip(j) ==
    /\ LooksAt(j, "due")
    /\ Looked(j)
    /\ handled' = handled \cup {j}
    /\ UNCHANGED <<rowVars, fireVars, passing, running, fate, edited, late, faults>>

(* execute_command() is called with the command read at the selection.      *)
Start(j) ==
    /\ LooksAt(j, "due")
    /\ Looked(j)
    /\ running' = j
    /\ fate' = [fate EXCEPT ![j] = "started"]
    /\ late' = [late EXCEPT ![j] = IF mode[j] = "enabled" THEN @ ELSE @ + 1]
    /\ UNCHANGED <<rowVars, fireVars, passing, handled, edited, faults>>

(* Mutant of Finish: last_run is not updated (after a failure, say).        *)
FinishUnmarked ==
    /\ running # NoJob
    /\ running' = NoJob
    /\ UNCHANGED <<rowVars, fireVars, passing, plan, handled, fate, edited, late, faults>>

(* Mutant of Finish: the job is forgotten before it is recorded.            *)
FinishSwapped ==
    /\ running # NoJob
    /\ running' = NoJob
    /\ handled' = handled \cup {running'}
    /\ UNCHANGED <<rowVars, fireVars, passing, plan, fate, edited, late, faults>>

(* A result, a timeout or a lost connection: last_run, last_exit_code and   *)
(* the audit row are written in any case.                                   *)
Finish ==
    /\ running # NoJob
    /\ running' = NoJob
    /\ handled' = handled \cup {running}
    /\ UNCHANGED <<rowVars, fireVars, passing, plan, fate, edited, late, faults>>

(* The pass ends with last_run set for the jobs in R.  It is the beginning  *)
(* of the pass, so that a later fire stays due; but a job without last_run  *)
(* is only looked at for the minute of sleep that follows.                  *)
EndPass(R, unserved) ==
    /\ passing' = FALSE /\ running' = NoJob /\ handled' = {}
    /\ plan' = [j \in Jobs |-> "none"]
    /\ ran' = R
    /\ before' = unserved \cap R
    /\ after' = after \cap R
    /\ UNCHANGED <<mode, barren, edited, late>>

(* Mutant of Commit: last_run is the end of the pass, not its beginning.    *)
CommitAtTheEnd ==
    /\ passing /\ running = NoJob /\ \A j \in Jobs : plan[j] = "none"
    /\ passing' = FALSE /\ handled' = {}
    /\ ran' = ran \cup {j \in handled : mode[j] # "absent"}
    /\ before' = (before \ handled) \cap ran'
    /\ after' = (after \ handled) \cap ran'
    /\ UNCHANGED <<mode, barren, plan, running, fate, edited, late, faults>>

Commit ==
    /\ passing /\ running = NoJob /\ \A j \in Jobs : plan[j] = "none"
    /\ EndPass(ran \cup {j \in handled : mode[j] # "absent"}, before \ handled)
    /\ UNCHANGED <<fate, faults>>

(* The transaction is gone, and with it every last_run of the pass.         *)
RollBack ==
    /\ EndPass(ran, before)
    /\ fate' = [j \in Jobs |-> IF fate[j] = "started" /\ j \in before
                               THEN "lost" ELSE fate[j]]

(* A database error ends the pass, or the server dies, asleep or not.       *)
FailOrRestart ==
    /\ faults < MaxFailures
    /\ faults' = faults + 1
    /\ RollBack

(* croniter raises when it looks for the next date of a barren expression;  *)
(* the pass knows no other handler than its own.                            *)
Raise(j) ==
    /\ LooksAt(j, "raise")
    /\ RollBack
    /\ UNCHANGED faults

-----------------------------------------------------------------------------
Look(j) == NotDue(j) \/ Skip(j) \/ Start(j) \/ Raise(j)

Operator(j) ==
    CreateJob(j) \/ EnableJob(j) \/ DisableJob(j) \/ EditJob(j) \/ DeleteJob(j)

JobsNext ==
    \/ \E j \in Jobs : Operator(j) \/ Fire(j) \/ Look(j)
    \/ BeginPass \/ Finish \/ Commit \/ FailOrRestart

JobsSpec == JobsInit /\ [][JobsNext]_jobVars

(* The scheduler sleeps and wakes for ever, a command ends by its timeout,  *)
(* and statements return or raise.                                          *)
FairSpec ==
    /\ JobsSpec
    /\ WF_jobVars(BeginPass)
    /\ \A j \in Jobs : WF_jobVars(Look(j))
    /\ WF_jobVars(Finish) /\ WF_jobVars(Commit)

-----------------------------------------------------------------------------
(* Properties.                                                              *)

Starts(j) == running # j /\ running' = j

(* A job is started a second time for the same fires only if the pass that  *)
(* started it before was rolled back (background.py:167-176).               *)
RepeatedOnlyAfterRollback ==
    [][\A j \in Jobs : Starts(j) => fate[j] # "started"]_jobVars

(* Disabled or deleted, a job starts at most once more: from the pass that  *)
(* had selected it before (background.py:129-134).                          *)
OnceMoreAtMost == \A j \in Jobs : late[j] <= 1

(* While a job stays enabled with its expression and no barren job is, and  *)
(* faults come to an end: a fire of a job that has run before is seen by a  *)
(* pass, also one that comes while other jobs keep the scheduler busy, and  *)
(* what a pass has seen is settled by that or a later commit.  A fire that  *)
(* a new expression brings while a pass is under way is waited for from the *)
(* next pass on, if the commit has not dropped it (background.py:138-170).  *)
Settled(j) ==
    /\ mode[j] = "enabled" /\ j \notin edited
    /\ \A b \in barren : mode[b] # "enabled"

FireIsServed ==
    \A j \in Jobs :
        /\ (j \in after \cap ran) ~> (j \in before \ after \/ ~Settled(j))
        /\ (j \in before) ~> (j \notin before \/ ~Settled(j))
=============================================================================
