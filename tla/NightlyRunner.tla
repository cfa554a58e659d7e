---------------------------- MODULE NightlyRunner ----------------------------
(***************************************************************************)
(* NightlyJobRunner.execute_pending_jobs: one provider after the other,    *)
(* one transaction per job, as long as the clock is in the time window.    *)
(* A run that an administrator forces does not look at it.  The clock       *)
(* counts whole hours of a day of DayLength hours; the system may be        *)
(* overloaded at any time.                                                 *)
(***************************************************************************)
EXTENDS Naturals, Sequences

CONSTANTS
  Jobs,
  Providers,     \* the sequence in which the providers are asked
  Rank,          \* the place of a job in the listing of its provider
  ProviderOf,
  Broken,        \* the jobs whose run_job raises an exception, every night
  DayLength, window_start, window_end,
  None           \* no job

ASSUME JobsAssumption ==
  /\ Len(Providers) \in Nat \ {0}
  /\ ProviderOf \in [Jobs -> {Providers[i] : i \in 1..Len(Providers)}]
  /\ Rank \in [Jobs -> Nat]
  /\ None \notin Jobs
\* The field descriptions of INightlyJobsSettings.
ASSUME WindowAssumption ==
  /\ DayLength \in Nat \ {0} /\ window_start \in 0..DayLength
  /\ window_end \in Nat /\ window_end > window_start

VARIABLES
  jobState,   \* "absent", "waiting", "done"
  provider,   \* the place of the provider being asked, 0 when no run is on
  listed,     \* what its iterator still holds
  running,    \* the job being run, or None
  begun,      \* the hour it was begun
  forced,     \* the run was started with --force
  queued,     \* the last job has put tasks into the queue of the process
  clock

vars == <<jobState, provider, listed, running, begun, forced, queued, clock>>
run == <<provider, listed, running, begun, forced, queued>>

Hours == 0..(DayLength - 1)

TypeOK ==
  /\ jobState \in [Jobs -> {"absent", "waiting", "done"}]
  /\ provider \in 0..Len(Providers)
  /\ listed \subseteq Jobs
  /\ running \in Jobs \cup {None}
  /\ begun \in Hours
  /\ forced \in BOOLEAN /\ queued \in BOOLEAN
  /\ clock \in Hours

\* Mutant: a window that reaches over midnight is not thought of.
check_in_time_windowMutant(now) == window_start <= now /\ now <= window_end
check_in_time_window(now) ==
  LET current_time == IF now < window_start THEN now + DayLength ELSE now
  IN  window_start <= current_time /\ current_time <= window_end

Waiting(i) == {j \in Jobs : jobState[j] = "waiting" /\ ProviderOf[j] = Providers[i]}

Init ==
  /\ jobState = [j \in Jobs |-> "absent"]
  /\ provider = 0 /\ listed = {} /\ running = None /\ begun = 0
  /\ forced = FALSE /\ queued = FALSE
  /\ clock \in Hours

Arrive(j) ==
  /\ jobState[j] = "absent"
  /\ jobState' = [jobState EXCEPT ![j] = "waiting"]
  /\ UNCHANGED <<run, clock>>

\* Only jobs take hours; listing them and going on to the next takes no time.
Tick ==
  /\ provider = 0 \/ running # None
  /\ clock' = (clock + 1) % DayLength
  /\ UNCHANGED <<jobState, run>>

\* interrupt_if_necessary finds nothing, as far as the clock goes.
MayGoOn == forced \/ check_in_time_window(clock)

\* The early check; then the first provider lists its jobs.
StartRun(force) ==
  /\ provider = 0 /\ (force \/ check_in_time_window(clock))
  /\ provider' = 1 /\ listed' = Waiting(1) /\ forced' = force
  /\ UNCHANGED <<jobState, running, begun, queued, clock>>

EndOfRun == provider' = 0 /\ listed' = {} /\ running' = None /\ queued' = FALSE

IsNext(j) == j \in listed /\ \A k \in listed : Rank[j] <= Rank[k]

BeginJob(j) ==
  /\ running = None /\ ~ queued /\ IsNext(j) /\ MayGoOn
  /\ running' = j /\ begun' = clock
  /\ UNCHANGED <<jobState, provider, listed, forced, queued, clock>>

\* Before a job, or in one that asks: its work is aborted and the run is over.
TimeWindowExceeded ==
  /\ listed # {} /\ ~ queued /\ ~ MayGoOn
  /\ EndOfRun
  /\ UNCHANGED <<jobState, begun, forced, clock>>

\* The same for the system load.
SystemLoadCritical ==
  /\ listed # {} /\ ~ queued /\ ~ forced
  /\ EndOfRun
  /\ UNCHANGED <<jobState, begun, forced, clock>>

\* The job is committed; what it has put into the queue is there from then on.
FinishJob ==
  /\ running # None /\ running \notin Broken
  /\ jobState' = [jobState EXCEPT ![running] = "done"]
  /\ listed' = listed \ {running} /\ running' = None
  /\ queued' \in BOOLEAN
  /\ UNCHANGED <<provider, begun, forced, clock>>

\* Any other exception leaves execute_pending_jobs, and the process ends.
JobFails ==
  /\ running \in Broken
  /\ EndOfRun
  /\ UNCHANGED <<jobState, begun, forced, clock>>

process_task_queue ==
  /\ queued /\ queued' = FALSE
  /\ UNCHANGED <<jobState, provider, listed, running, begun, forced, clock>>

\* A task is not answered with 200: the assertion ends the process, and the
\* queue, which is volatile, with it.
TaskFails ==
  /\ queued
  /\ EndOfRun
  /\ UNCHANGED <<jobState, begun, forced, clock>>

ProviderIsDone == provider # 0 /\ running = None /\ ~ queued /\ listed = {}

\* Mutant: only the first provider is asked.
NextProviderMissing ==
  /\ ProviderIsDone
  /\ provider' = 0
  /\ UNCHANGED <<jobState, listed, running, begun, forced, queued, clock>>
\* The listing is made when the runner gets to the provider.
NextProvider ==
  /\ ProviderIsDone
  /\ IF provider = Len(Providers) THEN provider' = 0 /\ UNCHANGED listed
     ELSE provider' = provider + 1 /\ listed' = Waiting(provider + 1)
  /\ UNCHANGED <<jobState, running, begun, forced, queued, clock>>

Next ==
  \/ Tick
  \/ \E force \in BOOLEAN : StartRun(force)
  \/ TimeWindowExceeded \/ SystemLoadCritical \/ FinishJob \/ JobFails
  \/ process_task_queue \/ TaskFails \/ NextProvider
  \/ \E j \in Jobs : Arrive(j) \/ BeginJob(j)

Spec == Init /\ [][Next]_vars

\* Time passes, the cron job starts runs in the window, the system is not
\* overloaded, and no job takes longer than the window, in every night.
FairSpec ==
  /\ Spec /\ WF_vars(Tick)
  /\ SF_vars(StartRun(FALSE)) /\ SF_vars(FinishJob) /\ WF_vars(JobFails)
  /\ WF_vars(running = None /\ TimeWindowExceeded) /\ WF_vars(process_task_queue)
  /\ WF_vars(NextProvider) /\ \A j \in Jobs : SF_vars(BeginJob(j))

-----------------------------------------------------------------------------
(* Properties.                                                             *)

\* The hours of the day the window covers, however often it is cut by midnight.
WindowHours == {h \in Hours : \E days \in 0..(1 + window_end) :
                  window_start <= h + days * DayLength /\ h + days * DayLength <= window_end}

(* No job is begun outside of the configured window, also when that        *)
(* reaches over midnight, but by force, and every hour of the window is    *)
(* used.                                                                   *)
BegunInWindow ==
  /\ running # None /\ ~ forced => begun \in WindowHours
  /\ \A h \in WindowHours : check_in_time_window(h)

(* Every job that can be done is done some night, whatever provider it     *)
(* has, and although a run may always be cut short, by the clock, the load *)
(* or a task of another job.                                               *)
EveryJobIsDone ==
  \A j \in Jobs \ Broken : jobState[j] = "waiting" ~> jobState[j] = "done"
=============================================================================
