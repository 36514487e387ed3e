---------------------------- MODULE MC_Scheduler ----------------------------
(* Model checking of Scheduler: the kinds of schedules an instance has. *)
EXTENDS Scheduler

\* One sort for each way the tick or an event decides that a schedule is due
\* (a weekly one differs from a daily one by its calendar only).
MCSorts == {<<"reminder", "oneshot">>, <<"reminder", "daily">>, <<"reminder", "interval">>,
            <<"command", "daily">>, <<"command", "file-save">>}

\* A week is a calendar of its own.
Weekly == {<<"reminder", "weekly">>, <<"reminder", "oneshot">>}

=============================================================================
