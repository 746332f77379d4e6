-------------------------------- MODULE Fleet --------------------------------
(***************************************************************************)
(* What dispatch promises about one fleet of response units, whoever asks  *)
(* for what: a unit is out of service, available, or on exactly one job;   *)
(* a job runs through its stages in order; the status the control room     *)
(* sees is the stage of that job; and a unit is sent to an incident once.  *)
(***************************************************************************)
CONSTANTS Units, Incidents

VARIABLES duty,    \* the status shown for each unit
          job,     \* the job it is on: {} or {<<incident, stage>>}
          served   \* the incidents it has ever been sent to

fleet == <<duty, job, served>>

Stage == {"ASSIGNED", "ACKNOWLEDGED", "EN_ROUTE", "ON_SCENE"}

Shown == [s \in Stage |-> IF s \in {"ASSIGNED", "ACKNOWLEDGED"} THEN "DISPATCHED" ELSE s]

Follows == {<<"ASSIGNED", "ACKNOWLEDGED">>, <<"ASSIGNED", "EN_ROUTE">>,
            <<"ACKNOWLEDGED", "EN_ROUTE">>, <<"EN_ROUTE", "ON_SCENE">>}

Init ==
    /\ duty = [u \in Units |-> "NONE"]
    /\ job = [u \in Units |-> {}]
    /\ served = [u \in Units |-> {}]

\* Registered, put into service or taken out of it: never while on a job.
Administer(u, s) ==
    /\ job[u] = {}
    /\ duty' = [duty EXCEPT ![u] = s]
    /\ UNCHANGED <<job, served>>

Send(u, i) ==
    /\ duty[u] = "AVAILABLE" /\ job[u] = {} /\ i \notin served[u]
    /\ duty' = [duty EXCEPT ![u] = "DISPATCHED"]
    /\ job' = [job EXCEPT ![u] = {<<i, "ASSIGNED">>}]
    /\ served' = [served EXCEPT ![u] = @ \cup {i}]

Advance(u, i, s, t) ==
    /\ job[u] = {<<i, s>>} /\ <<s, t>> \in Follows
    /\ duty' = [duty EXCEPT ![u] = Shown[t]]
    /\ job' = [job EXCEPT ![u] = {<<i, t>>}]
    /\ UNCHANGED served

\* The job is completed or stood down: the unit is available again.
Release(u) ==
    /\ job[u] # {}
    /\ duty' = [duty EXCEPT ![u] = "AVAILABLE"]
    /\ job' = [job EXCEPT ![u] = {}]
    /\ UNCHANGED served

Next ==
    \E u \in Units :
        \/ \E s \in {"AVAILABLE", "OFFLINE"} : Administer(u, s)
        \/ \E i \in Incidents : Send(u, i)
        \/ \E i \in Incidents, s, t \in Stage : Advance(u, i, s, t)
        \/ Release(u)

Spec == Init /\ [][Next]_fleet
==============================================================================
