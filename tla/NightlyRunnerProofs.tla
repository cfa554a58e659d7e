------------------------- MODULE NightlyRunnerProofs -------------------------
(***************************************************************************)
(* What holds of the runner for any jobs, providers, day and window.       *)
(* That every job is done is a matter of fairness and stays with TLC.      *)
(***************************************************************************)
EXTENDS NightlyRunner, TLAPS

(* The code compares the hour, or the hour of the next day when it is      *)
(* before the window begins; that is right for every window, also for one  *)
(* that ends beyond midnight or covers more than a day.                    *)
LEMMA WindowIsRight ==
  ASSUME NEW h \in Hours
  PROVE  check_in_time_window(h) <=> h \in WindowHours
<1> USE WindowAssumption DEF Hours
<1>1. ASSUME check_in_time_window(h) PROVE h \in WindowHours
  <2>1. CASE h < window_start
    <3>1. 1 \in 0..(1 + window_end) /\ 1 * DayLength = DayLength
      OBVIOUS
    <3>2. window_start <= h + 1 * DayLength /\ h + 1 * DayLength <= window_end
      BY <1>1, <2>1, <3>1 DEF check_in_time_window
    <3> QED BY <3>1, <3>2 DEF WindowHours
  <2>2. CASE ~ (h < window_start)
    <3>1. 0 \in 0..(1 + window_end) /\ 0 * DayLength = 0
      OBVIOUS
    <3>2. window_start <= h + 0 * DayLength /\ h + 0 * DayLength <= window_end
      BY <1>1, <2>2, <3>1 DEF check_in_time_window
    <3> QED BY <3>1, <3>2 DEF WindowHours
  <2> QED BY <2>1, <2>2
<1>2. ASSUME h \in WindowHours PROVE check_in_time_window(h)
  <2>1. PICK days \in 0..(1 + window_end) :
          window_start <= h + days * DayLength /\ h + days * DayLength <= window_end
    BY <1>2 DEF WindowHours
  <2>2. CASE days = 0
    <3>1. days * DayLength = 0
      BY <2>2
    <3> QED BY <2>1, <3>1 DEF check_in_time_window
  <2>3. CASE days # 0
    <3>1. days \in Nat /\ days >= 1 /\ DayLength \in Nat
      BY <2>3
    <3>2. PICK k \in Nat : days = k + 1
      <4>1. days - 1 \in Nat /\ days = (days - 1) + 1
        BY <3>1
      <4> QED BY <4>1
    <3>3. days * DayLength = k * DayLength + DayLength
      BY <3>2, Z3
    <3>4. k * DayLength \in Nat
      BY <3>2
    <3>5. h + DayLength <= window_end
      BY <2>1, <3>3, <3>4
    <3> QED BY <3>5 DEF check_in_time_window
  <2> QED BY <2>2, <2>3
<1> QED BY <1>1, <1>2

-----------------------------------------------------------------------------
\* A run lists jobs only while it is on, and runs one it has listed.
Runs ==
  /\ running # None => running \in listed
  /\ provider = 0 => listed = {}

Inv == TypeOK /\ Runs /\ BegunInWindow

(* Some hour is in the window, or no run begins. *)
LEMMA InitInv == Init => Inv
<1> SUFFICES ASSUME Init PROVE Inv
  OBVIOUS
<1>1. forced \in BOOLEAN /\ queued \in BOOLEAN
  BY DEF Init
<1>2. TypeOK
  <2>1. 0 \in Hours /\ 0 \in 0..Len(Providers)
    BY JobsAssumption, WindowAssumption DEF Hours
  <2> QED BY <1>1, <2>1, Zenon DEF Init, TypeOK
<1>3. Runs
  BY DEF Init, Runs
<1>4. BegunInWindow
  BY WindowIsRight DEF Init, BegunInWindow, WindowHours
<1> QED BY <1>2, <1>3, <1>4 DEF Inv

(* No step leaves the types: the next provider is asked for only while     *)
(* there is one.                                                           *)
LEMMA TypeStep == Inv /\ [Next]_vars => TypeOK'
<1> SUFFICES ASSUME Inv, [Next]_vars PROVE TypeOK'
  OBVIOUS
<1> USE JobsAssumption, WindowAssumption DEF Inv, TypeOK, Waiting
<1>1. CASE Tick
  <2>1. (clock + 1) % DayLength \in Hours
    BY DEF Hours
  <2> QED BY <1>1, <2>1 DEF Tick, run
<1>2. ASSUME NEW force \in BOOLEAN, StartRun(force) PROVE TypeOK'
  BY <1>2 DEF StartRun
<1>3. ASSUME EndOfRun, UNCHANGED <<jobState, begun, forced, clock>> PROVE TypeOK'
  <2>1. 0 \in 0..Len(Providers) /\ FALSE \in BOOLEAN
    OBVIOUS
  <2> QED BY <1>3, <2>1, Zenon DEF EndOfRun
<1>4. CASE FinishJob
  BY <1>4 DEF FinishJob
<1>5. CASE TimeWindowExceeded \/ SystemLoadCritical \/ TaskFails \/ JobFails
  BY <1>3, <1>5 DEF TimeWindowExceeded, SystemLoadCritical, TaskFails, JobFails
<1>6. CASE NextProvider
  <2>1. CASE provider = Len(Providers)
    BY <1>6, <2>1 DEF NextProvider, ProviderIsDone
  <2>2. CASE provider # Len(Providers)
    <3>1. provider + 1 \in 0..Len(Providers)
      BY <2>2
    <3> QED BY <1>6, <2>2, <3>1 DEF NextProvider, ProviderIsDone
  <2> QED BY <2>1, <2>2
<1>7. ASSUME NEW j \in Jobs, Arrive(j) PROVE TypeOK'
  BY <1>7 DEF Arrive, run
<1>8. ASSUME NEW j \in Jobs, BeginJob(j) PROVE TypeOK'
  BY <1>8 DEF BeginJob
<1>9. CASE process_task_queue
  BY <1>9 DEF process_task_queue
<1>10. CASE UNCHANGED vars
  BY <1>10 DEF vars
<1> QED BY <1>1, <1>2, <1>4, <1>5, <1>6, <1>7, <1>8, <1>9, <1>10 DEF Next

(* A job is begun where the runner is, and given up with the run. *)
LEMMA RunsStep == Inv /\ [Next]_vars => Runs'
<1> SUFFICES ASSUME Inv, [Next]_vars PROVE Runs'
  OBVIOUS
<1> USE JobsAssumption DEF Inv, TypeOK, Runs
<1>1. CASE Tick
  BY <1>1 DEF Tick, run
<1>2. ASSUME NEW force \in BOOLEAN, StartRun(force) PROVE Runs'
  BY <1>2 DEF StartRun
<1>3. CASE TimeWindowExceeded \/ SystemLoadCritical \/ JobFails \/ TaskFails
  BY <1>3 DEF TimeWindowExceeded, SystemLoadCritical, JobFails, TaskFails, EndOfRun
<1>4. CASE FinishJob
  BY <1>4 DEF FinishJob
<1>5. CASE NextProvider \/ process_task_queue
  BY <1>5 DEF NextProvider, ProviderIsDone, process_task_queue
<1>6. ASSUME NEW j \in Jobs, Arrive(j) PROVE Runs'
  BY <1>6 DEF Arrive, run
<1>7. ASSUME NEW j \in Jobs, BeginJob(j) PROVE Runs'
  BY <1>7 DEF BeginJob, IsNext
<1>8. CASE UNCHANGED vars
  BY <1>8 DEF vars
<1> QED BY <1>1, <1>2, <1>3, <1>4, <1>5, <1>6, <1>7, <1>8 DEF Next

(* What is running goes on from step to step with the hour it was begun,   *)
(* and with the run it was begun in.                                       *)
LEMMA WindowStep == Inv /\ [Next]_vars => BegunInWindow'
<1> SUFFICES ASSUME Inv, [Next]_vars, running' # None, ~ forced'
             PROVE  begun' \in WindowHours
  BY WindowIsRight DEF Inv, BegunInWindow, WindowHours
<1>1. CASE running' = running /\ begun' = begun /\ forced' = forced
  BY <1>1 DEF Inv, BegunInWindow
<1>2. ASSUME NEW j \in Jobs, BeginJob(j) PROVE begun' \in WindowHours
  BY <1>2, WindowIsRight DEF BeginJob, MayGoOn, Inv, TypeOK
<1>3. ASSUME NEW j \in Jobs, Arrive(j)
      PROVE  running' = running /\ begun' = begun /\ forced' = forced
  BY <1>3 DEF Arrive, run
<1>4. ASSUME NEW force \in BOOLEAN, StartRun(force) PROVE running' = None
  BY <1>4, JobsAssumption DEF StartRun, Inv, Runs, TypeOK
<1> QED BY <1>1, <1>2, <1>3, <1>4
        DEF Next, Tick, TimeWindowExceeded, SystemLoadCritical, FinishJob, JobFails,
            process_task_queue, TaskFails, NextProvider, EndOfRun, run, vars

(* Every reachable state satisfies the three of them. *)
LEMMA Invariance == Spec => []Inv
<1>1. Inv /\ [Next]_vars => Inv'
  BY TypeStep, RunsStep, WindowStep DEF Inv
<1> QED BY InitInv, <1>1, PTL DEF Spec

(* Types of the runner: it never asks for a provider there is not. *)
THEOREM Typing == Spec => []TypeOK
<1>1. Inv => TypeOK
  BY DEF Inv
<1> QED BY <1>1, Invariance, PTL

(* No job is begun outside of the window but by force, and every hour of   *)
(* it is used.                                                             *)
THEOREM BeginsInWindow == Spec => []BegunInWindow
<1>1. Inv => BegunInWindow
  BY DEF Inv
<1> QED BY <1>1, Invariance, PTL
=============================================================================
