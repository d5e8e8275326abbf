------------------------------- MODULE Process -------------------------------
(***************************************************************************)
(* Serve with the schedule of its hub.  The hub's Close stops it, perhaps  *)
(* beside a fire that waits for the lock, and long before the way out has  *)
(* stopped the work that may still call NotifyAt.                          *)
(***************************************************************************)
EXTENDS Serve, LiveSchedule

processVars == <<allVars, scheduleVars>>

ProcessInit == ServeInit /\ ScheduleInit

\* The hub's Close, whoever calls it first.
WithSchedule ==
    IF hubClosed' # hubClosed THEN StopSchedule ELSE UNCHANGED scheduleVars

\* A closed hub schedules nothing, and its late fires do nothing.
HubStep ==
    /\ main # "exited"
    /\ IF hubClosed THEN FireClosed ELSE ScheduleStep
    /\ UNCHANGED allVars

ProcessNext == (ServeNext /\ WithSchedule) \/ HubStep

ProcessSpec == ProcessInit /\ [][ProcessNext]_processVars

FairProcessSpec == ProcessSpec /\ ServeFairness

=============================================================================
