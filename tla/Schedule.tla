------------------------------ MODULE Schedule ------------------------------
(***************************************************************************)
(* SiscoutScheduler (src/src/siscout) over the settings of SiscoutConfig-  *)
(* Service: the cron job of the synchronization, made anew on every change *)
(* of the copy.  What a run of the job does is SiscoutSync's.              *)
(*                                                                         *)
(* applySchedule awaits the stop of the old job, which waits for nothing   *)
(* outside the process: no reply is handled in between.                    *)
(***************************************************************************)
EXTENDS Settings

CONSTANT Crons

ASSUME ScheduleAssumption ==
    Values = [syncEnabled : BOOLEAN, syncCron : Crons]

VARIABLE jobs  \* the expressions of the cron jobs that are started

scheduleVars == <<settings, jobs>>

\* What the settings ask for.
Wanted(values) == IF values.syncEnabled THEN {values.syncCron} ELSE {}

\* Faulty variant: switched off, the job goes on.
ApplyIfEnabled(values) ==
    jobs' = IF values.syncEnabled THEN Wanted(values) ELSE jobs

\* applySchedule: the job there was is stopped in any case.
ApplySchedule(values) == jobs' = Wanted(values)

\* update and reset end with notify; the scheduler is the one subscriber.
Notify(r) ==
    /\ Receive(r)
    /\ ApplySchedule(cached')

\* onModuleInit.
Boot ==
    /\ EnsureLoaded
    /\ ApplySchedule(cached')

Stop ==
    /\ Restart
    /\ jobs' = {}

ScheduleInit ==
    /\ SettingsInit
    /\ jobs = {}

Serve(r) ==
    \/ (Write(r) \/ Lose(r)) /\ UNCHANGED jobs
    \/ Notify(r)

ScheduleNext ==
    \/ \E r \in Requests : (Update(r) \/ Reset(r)) /\ UNCHANGED jobs
    \/ \E r \in Requests : Serve(r)
    \/ Boot
    \/ Stop

\* A query is answered or throws, and the process comes back.
ScheduleFairness ==
    /\ WF_scheduleVars(\E r \in Requests : Serve(r))
    /\ WF_scheduleVars(Boot)

ScheduleSpec == ScheduleInit /\ [][ScheduleNext]_scheduleVars /\ ScheduleFairness

----------------------------------------------------------------------------
\* The settings and the jobs have their types.
ScheduleTypeOK ==
    /\ SettingsTypeOK
    /\ jobs \subseteq Crons

\* In the end the one job that runs, if any, is the one the stored settings ask
\* for, with no restart needed, unless the latest reply went astray.
ChangesTakeEffect ==
    <>[](loaded /\ (astray \/ jobs = Wanted(stored)))
=============================================================================
