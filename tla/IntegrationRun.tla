---------------------------- MODULE IntegrationRun ----------------------------
(***************************************************************************)
(* Inbound integration runs and the employee import they share with CSV    *)
(* uploads.  A trigger carries an idempotency key.  It looks the key up,   *)
(* reserves a run row, imports the connector's batch, records success and  *)
(* emits webhook events, each in a transaction of its own; any error after *)
(* the reservation marks the run FAILED.  The import reads the existing    *)
(* employee numbers and inserts the others; the unique index on the number *)
(* refuses the whole insertion if one was taken in between.                *)
(*                                                                         *)
(* One integration is modelled, with its runs named by their keys.  All    *)
(* webhooks that listen to an event are told of it in one transaction, so  *)
(* told stands for their deliveries.                                       *)
(***************************************************************************)
EXTENDS Naturals, FiniteSets

CONSTANTS
    Keys,      \* idempotency keys
    Callers,   \* requests in flight
    Numbers,   \* employee numbers
    BatchOf,   \* the employee numbers the connector derives from a key
    File,      \* the origin of employees uploaded as CSV
    None

ASSUME IntegrationAssumption ==
    /\ BatchOf \in [Keys -> SUBSET Numbers]
    /\ File \notin Keys
    /\ None \notin Keys \cup {File}

VARIABLES
    status,  \* status of the run of each key; "NONE" where there is no row
    origin,  \* what created the employee of each number, or None
    told,    \* the events emitted about each run
    job,     \* what each request in flight is doing
    lost     \* keys whose worker stopped half-way (history only)

vars == <<status, origin, told, job, lost>>

RunStatus == {"NONE", "RUNNING", "SUCCEEDED", "FAILED"}
Events    == {"run.succeeded", "employee.imported", "run.failed"}
Idle      == [step |-> "idle"]

Job == {Idle}
       \cup [step : {"checked", "reserved", "reading", "imported", "recorded", "announced",
                     "failing", "failed"},
             for : Keys \cup {File}, batch : SUBSET Numbers, fresh : SUBSET Numbers]

IntTypeOK ==
    /\ status \in [Keys -> RunStatus]
    /\ origin \in [Numbers -> Keys \cup {File, None}]
    /\ told \in [Keys -> SUBSET Events]
    /\ job \in [Callers -> Job]
    /\ lost \subseteq Keys

Init ==
    /\ status = [k \in Keys |-> "NONE"]
    /\ origin = [n \in Numbers |-> None]
    /\ told = [k \in Keys |-> {}]
    /\ job = [c \in Callers |-> Idle]
    /\ lost = {}

Employees == {n \in Numbers : origin[n] # None}

Goto(c, step) == job' = [job EXCEPT ![c].step = step]
Finish(c)     == job' = [job EXCEPT ![c] = Idle]

-----------------------------------------------------------------------------
(* Triggering a run. *)

\* A key that has a run is answered with it, and nothing happens.
Trigger(c, k) ==
    /\ job[c] = Idle
    /\ status[k] = "NONE"
    /\ job' = [job EXCEPT ![c] = [step |-> "checked", for |-> k, batch |-> BatchOf[k],
                                  fresh |-> {}]]
    /\ UNCHANGED <<status, origin, told, lost>>

\* Faulty variant: the run row is inserted without a unique key.
NoUniqueKey(k) == TRUE

KeyIsFree(k) == status[k] = "NONE"

ReservedStatus == "RUNNING"

Reserve(c) ==
    /\ job[c].step = "checked"
    /\ KeyIsFree(job[c].for)
    /\ status' = [status EXCEPT ![job[c].for] = ReservedStatus]
    /\ Goto(c, "reserved")
    /\ UNCHANGED <<origin, told, lost>>

\* The loser of the race for the key returns the winner's run.
LoseRace(c) ==
    /\ job[c].step = "checked"
    /\ ~KeyIsFree(job[c].for)
    /\ Finish(c)
    /\ UNCHANGED <<status, origin, told, lost>>

-----------------------------------------------------------------------------
(* Importing, for a run or for an uploaded file. *)

Upload(c, batch) ==
    /\ job[c] = Idle
    /\ job' = [job EXCEPT ![c] = [step |-> "reserved", for |-> File, batch |-> batch,
                                  fresh |-> {}]]
    /\ UNCHANGED <<status, origin, told, lost>>

\* Rows whose number exists are reported and skipped.
ReadExisting(c) ==
    /\ job[c].step = "reserved"
    /\ job' = [job EXCEPT ![c].step = "reading", ![c].fresh = job[c].batch \ Employees]
    /\ UNCHANGED <<status, origin, told, lost>>

\* Faulty variant: employee numbers are not unique in the database.
NoUniqueNumber(ns) == TRUE

NumbersAreFree(ns) == ns \cap Employees = {}

\* An upload is over once its rows are in; a run goes on.
InsertFresh(c) ==
    /\ job[c].step = "reading"
    /\ NumbersAreFree(job[c].fresh)
    /\ origin' = [n \in Numbers |-> IF n \in job[c].fresh THEN job[c].for ELSE origin[n]]
    /\ IF job[c].for = File THEN Finish(c) ELSE Goto(c, "imported")
    /\ UNCHANGED <<status, told, lost>>

-----------------------------------------------------------------------------
(* Finishing a run. *)

RecordSuccess(c) ==
    /\ job[c].step = "imported"
    /\ status' = [status EXCEPT ![job[c].for] = "SUCCEEDED"]
    /\ Goto(c, "recorded")
    /\ UNCHANGED <<origin, told, lost>>

Tell(k, event) == told' = [told EXCEPT ![k] = @ \cup {event}]

EmitSucceeded(c) ==
    /\ job[c].step = "recorded"
    /\ Tell(job[c].for, "run.succeeded")
    /\ IF job[c].fresh = {} THEN Finish(c) ELSE Goto(c, "announced")
    /\ UNCHANGED <<status, origin, lost>>

EmitImported(c) ==
    /\ job[c].step = "announced"
    /\ Tell(job[c].for, "employee.imported")
    /\ Finish(c)
    /\ UNCHANGED <<status, origin, lost>>

\* Faulty variant: an error while importing is swallowed.
Swallowed(j) == [j EXCEPT !.step = "imported"]

\* Faulty variant: an error ends the request without a trace.
Unhandled(j) == Idle

\* The catch block marks the run as failed; an upload just reports the error.
Caught(j) == IF j.for = File THEN Idle ELSE [j EXCEPT !.step = "failing"]

\* Any statement after the reservation may fail, an insertion of taken numbers must.
Throw(c) ==
    /\ job[c].step \in {"reserved", "reading", "imported", "recorded", "announced"}
    /\ job' = [job EXCEPT ![c] = Caught(job[c])]
    /\ UNCHANGED <<status, origin, told, lost>>

MarkFailed(c) ==
    /\ job[c].step = "failing"
    /\ status' = [status EXCEPT ![job[c].for] = "FAILED"]
    /\ Goto(c, "failed")
    /\ UNCHANGED <<origin, told, lost>>

EmitFailed(c) ==
    /\ job[c].step = "failed"
    /\ Tell(job[c].for, "run.failed")
    /\ Finish(c)
    /\ UNCHANGED <<status, origin, lost>>

\* The process dies, or the handling of a failure fails itself: nobody takes the job over.
Stop(c) ==
    /\ job[c] # Idle
    /\ Finish(c)
    /\ lost' = lost \cup (IF job[c].step = "checked" THEN {} ELSE {job[c].for} \cap Keys)
    /\ UNCHANGED <<status, origin, told>>

-----------------------------------------------------------------------------
Work(c) ==
    \/ Reserve(c)
    \/ LoseRace(c)
    \/ ReadExisting(c)
    \/ InsertFresh(c)
    \/ RecordSuccess(c)
    \/ EmitSucceeded(c)
    \/ EmitImported(c)
    \/ Throw(c)
    \/ MarkFailed(c)
    \/ EmitFailed(c)
    \/ Stop(c)

Next ==
    \E c \in Callers :
        \/ \E k \in Keys : Trigger(c, k)
        \/ \E batch \in SUBSET Numbers : Upload(c, batch)
        \/ Work(c)

\* A request in flight goes on, one way or another; no request has to be made.
Spec == Init /\ [][Next]_vars /\ \A c \in Callers : WF_vars(Work(c))

-----------------------------------------------------------------------------
Working(c, k) == job[c].step \notin {"idle", "checked"} /\ job[c].for = k

\* However many requests carry a key at once, one of them works on its run
\* (IntegrationsService.triggerRun).
SingleWorker == \A k \in Keys : Cardinality({c \in Callers : Working(c, k)}) <= 1

\* "the same key never double-imports" (docs/adr/0004-integrations.md:67): an employee once
\* created is not created again, by the same key, another one or a file.
NoDoubleImport ==
    [][\A n \in Numbers : origin[n] # None => origin'[n] = origin[n]]_vars

\* Webhooks are told the truth: success only when the whole batch is on file, an import only if
\* the run created somebody, failure only of a run that is FAILED.
ToldTheTruth ==
    \A k \in Keys :
        /\ "run.succeeded" \in told[k] \/ status[k] = "SUCCEEDED" => BatchOf[k] \subseteq Employees
        /\ "employee.imported" \in told[k] => \E n \in BatchOf[k] : origin[n] = k
        /\ "run.failed" \in told[k] => status[k] = "FAILED"

\* A run does not stay RUNNING for ever, unless its worker stopped.
FinishesUnlessLost ==
    \A k \in Keys : status[k] = "RUNNING" ~> status[k] # "RUNNING" \/ k \in lost
=============================================================================
