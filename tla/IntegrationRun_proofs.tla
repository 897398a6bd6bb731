------------------------- MODULE IntegrationRun_proofs -------------------------
(***************************************************************************)
(* What IntegrationRun guarantees for every number of keys, requests and   *)
(* employees, whatever the connector's batches hold.                       *)
(***************************************************************************)
EXTENDS IntegrationRun, FiniteSetTheorems, TLAPS

-----------------------------------------------------------------------------
(* What is known of the request of each caller. *)

Steps == {"checked", "reserved", "reading", "imported", "recorded", "announced",
          "failing", "failed"}
AfterImport == {"imported", "recorded", "announced"}

\* The job of a request that is under way.
ActiveJob == [step : Steps, for : Keys \cup {File}, batch : SUBSET Numbers,
              fresh : SUBSET Numbers]

\* A request is idle or has a job with all its fields.
LEMMA JobKinds ==
    ASSUME IntTypeOK, NEW c \in Callers
    PROVE  /\ job[c].step = "idle" => job[c] = Idle
           /\ job[c].step # "idle" => job[c] \in ActiveJob
<1>1. job[c] \in Job
  BY DEF IntTypeOK
<1>2. Idle.step = "idle"
  BY DEF Idle
<1>3. \A j \in ActiveJob : j.step # "idle"
  BY DEF ActiveJob, Steps
<1> QED  BY <1>1, <1>2, <1>3 DEF Job, ActiveJob, Steps

\* What a request's next job leaves alone.
OthersStay(c) == \A d \in Callers : d # c => job'[d] = job[d]

\* A request takes up a new job.
LEMMA NextJob ==
    ASSUME IntTypeOK, NEW c \in Callers, NEW st \in Steps, NEW f \in Keys \cup {File},
           NEW b \in SUBSET Numbers, NEW n \in SUBSET Numbers,
           job' = [job EXCEPT ![c] = [step |-> st, for |-> f, batch |-> b, fresh |-> n]]
    PROVE  /\ job' \in [Callers -> Job]
           /\ job'[c].step = st /\ job'[c].for = f /\ job'[c].batch = b /\ job'[c].fresh = n
           /\ OthersStay(c)
BY DEF IntTypeOK, Job, OthersStay, Steps

\* A request goes on to another step of its job.
LEMMA GotoJob ==
    ASSUME IntTypeOK, NEW c \in Callers, NEW st \in Steps, job[c].step # "idle",
           job' = [job EXCEPT ![c].step = st]
    PROVE  /\ job' \in [Callers -> Job]
           /\ job'[c].step = st /\ job'[c].for = job[c].for
           /\ job'[c].batch = job[c].batch /\ job'[c].fresh = job[c].fresh
           /\ OthersStay(c)
<1>1. job[c] \in ActiveJob
  BY JobKinds
<1>2. job'[c] = [job[c] EXCEPT !.step = st]
  BY DEF IntTypeOK
<1>3. /\ job'[c] \in ActiveJob
      /\ job'[c].step = st /\ job'[c].for = job[c].for
      /\ job'[c].batch = job[c].batch /\ job'[c].fresh = job[c].fresh
  BY <1>1, <1>2 DEF ActiveJob
<1>4. ActiveJob \subseteq Job
  BY DEF ActiveJob, Job, Steps
<1> QED  BY <1>3, <1>4 DEF IntTypeOK, OthersStay

\* A request is over.
LEMMA FinishJob ==
    ASSUME IntTypeOK, NEW c \in Callers, Finish(c)
    PROVE  /\ job' \in [Callers -> Job]
           /\ job'[c].step = "idle"
           /\ OthersStay(c)
BY DEF IntTypeOK, Finish, Job, Idle, OthersStay

-----------------------------------------------------------------------------
(* The inductive invariant: what is known of each request's job, of each   *)
(* key, and that a key has one worker.                                     *)

GoodJob(c) ==
    /\ job[c].step \in {"checked", "failing", "failed"} \cup AfterImport => job[c].for \in Keys
    /\ (job[c].step # "idle" /\ job[c].for \in Keys) => job[c].batch = BatchOf[job[c].for]
    /\ \A k \in Keys : Working(c, k) => status[k] # "NONE"
    /\ job[c].step = "reading" => /\ job[c].fresh \subseteq job[c].batch
                                 /\ job[c].batch \subseteq Employees \cup job[c].fresh
    /\ job[c].step \in AfterImport => /\ job[c].batch \subseteq Employees
                                     /\ job[c].fresh \subseteq job[c].batch
                                     /\ \A n \in job[c].fresh : origin[n] = job[c].for
    /\ job[c].step = "announced" => job[c].fresh # {}
    /\ job[c].step = "failed" => status[job[c].for] = "FAILED"

GoodKey(k) ==
    /\ ("run.succeeded" \in told[k] \/ status[k] = "SUCCEEDED") => BatchOf[k] \subseteq Employees
    /\ "employee.imported" \in told[k] => \E n \in BatchOf[k] : origin[n] = k
    /\ "run.failed" \in told[k] => /\ status[k] = "FAILED"
                                  /\ \A c \in Callers : ~Working(c, k)

Alone == \A k \in Keys : \A c, d \in Callers : Working(c, k) /\ Working(d, k) => c = d

IInv ==
    /\ IntTypeOK
    /\ \A c \in Callers : GoodJob(c)
    /\ \A k \in Keys : GoodKey(k)
    /\ Alone

-----------------------------------------------------------------------------
(* A step of one request preserves the invariant, if the request and the   *)
(* keys it writes about are good afterwards: it only ever works on a key   *)
(* that was free or its own, and leaves existing employees alone.          *)

LEMMA StepPreserves ==
    ASSUME IInv, NEW c \in Callers, IntTypeOK', OthersStay(c), GoodJob(c)',
           \A k \in Keys : Working(c, k)' => Working(c, k) \/ status[k] = "NONE",
           \A k \in Keys : status'[k] # status[k] =>
                             status'[k] # "NONE" /\ (status[k] = "NONE" \/ Working(c, k)),
           \A n \in Numbers : origin[n] # None => origin'[n] = origin[n],
           \A k \in Keys : (told'[k] # told[k] \/ status'[k] # status[k]) => GoodKey(k)'
    PROVE  IInv'
<1>1. Employees \subseteq Employees'
  BY DEF Employees
<1>2. ASSUME NEW d \in Callers, d # c
      PROVE  job'[d] = job[d] /\ \A k \in Keys : Working(d, k)' <=> Working(d, k)
  BY <1>2 DEF OthersStay, Working
<1>3. \A d \in Callers, k \in Keys : Working(d, k) => status[k] # "NONE"
  BY DEF IInv, GoodJob
<1>4. Alone'
  BY <1>2, <1>3 DEF IInv, Alone
<1>5. ASSUME NEW d \in Callers PROVE GoodJob(d)'
  <2>1. CASE d = c
    BY <2>1
  <2>2. CASE d # c
    <3>1. job'[d] = job[d]
      BY <1>2, <2>2
    <3>2. \A k \in Keys : Working(d, k) => status'[k] = status[k]
      BY <1>3, <2>2 DEF IInv, Alone
    <3>3. job[d].step = "failed" => Working(d, job[d].for) /\ job[d].for \in Keys
      BY DEF Working, IInv, GoodJob
    <3>4. job[d].step # "idle" => job[d].fresh \in SUBSET Numbers
      BY JobKinds DEF IInv, ActiveJob
    <3>5. \A n \in Numbers : n \in Employees => origin'[n] = origin[n]
      BY DEF Employees
    <3>6. GoodJob(d)
      BY DEF IInv
    <3>7. job[d].step \in AfterImport => \A n \in job[d].fresh : origin'[n] = job[d].for
      BY <3>4, <3>5, <3>6 DEF GoodJob, AfterImport
    <3> QED  BY <1>1, <1>2, <2>2, <3>1, <3>2, <3>3, <3>6, <3>7 DEF GoodJob, AfterImport
  <2> QED  BY <2>1, <2>2
<1>6. ASSUME NEW k \in Keys PROVE GoodKey(k)'
  <2>1. CASE told'[k] # told[k] \/ status'[k] # status[k]
    BY <2>1
  <2>2. CASE told'[k] = told[k] /\ status'[k] = status[k]
    <3>1. GoodKey(k)
      BY DEF IInv
    <3>2. status[k] # "NONE" /\ (\A d \in Callers : ~Working(d, k)) =>
            \A d \in Callers : ~Working(d, k)'
      BY <1>2
    <3>3. \A n \in BatchOf[k] : origin[n] = k => origin'[n] = k
      BY IntegrationAssumption
    <3> QED  BY <1>1, <2>2, <3>1, <3>2, <3>3 DEF GoodKey
  <2> QED  BY <2>1, <2>2
<1> QED  BY <1>4, <1>5, <1>6 DEF IInv

\* At first nobody does anything and nothing is on file.
LEMMA InitIInv == Init => IInv
<1> SUFFICES ASSUME Init PROVE IInv
  OBVIOUS
<1>1. IntTypeOK
  BY DEF Init, IntTypeOK, RunStatus, Job
<1>2. \A c \in Callers : job[c].step = "idle"
  BY DEF Init, Idle
<1>3. \A c \in Callers, k \in Keys : ~Working(c, k)
  BY <1>2 DEF Working
<1>4. \A c \in Callers : GoodJob(c)
  BY <1>2, <1>3 DEF GoodJob, AfterImport
<1>5. \A k \in Keys : GoodKey(k)
  BY DEF Init, GoodKey
<1> QED  BY <1>1, <1>3, <1>4, <1>5 DEF IInv, Alone

-----------------------------------------------------------------------------
(* The actions, one by one. *)

\* Nothing about any run is recorded or announced.
LEMMA JobOnly ==
    ASSUME IInv, NEW c \in Callers, UNCHANGED <<status, origin, told>>, lost' \subseteq Keys,
           job' \in [Callers -> Job], OthersStay(c), GoodJob(c)',
           \A k \in Keys : Working(c, k)' => Working(c, k)
    PROVE  IInv'
<1>1. IntTypeOK'
  BY DEF IInv, IntTypeOK
<1> QED  BY <1>1, StepPreserves

LEMMA TriggerPreserves ==
    ASSUME IInv, NEW c \in Callers, NEW k \in Keys, Trigger(c, k) PROVE IInv'
<1>1. /\ IntTypeOK
      /\ BatchOf[k] \in SUBSET Numbers
      /\ {} \in SUBSET Numbers
      /\ "checked" \in Steps
      /\ job' = [job EXCEPT ![c] = [step |-> "checked", for |-> k, batch |-> BatchOf[k],
                                    fresh |-> {}]]
  BY IntegrationAssumption DEF IInv, Trigger, Steps
<1>2. /\ job' \in [Callers -> Job]
      /\ job'[c].step = "checked" /\ job'[c].for = k /\ job'[c].batch = BatchOf[k]
      /\ OthersStay(c)
  BY <1>1, NextJob
<1>3. \A l \in Keys : ~Working(c, l)'
  BY <1>2 DEF Working
<1>4. GoodJob(c)'
  BY <1>2, <1>3 DEF GoodJob, AfterImport
<1> QED  BY <1>2, <1>3, <1>4, JobOnly DEF Trigger, IInv, IntTypeOK

LEMMA UploadPreserves ==
    ASSUME IInv, NEW c \in Callers, NEW b \in SUBSET Numbers, Upload(c, b) PROVE IInv'
<1>1. /\ IntTypeOK
      /\ {} \in SUBSET Numbers
      /\ "reserved" \in Steps
      /\ job' = [job EXCEPT ![c] = [step |-> "reserved", for |-> File, batch |-> b,
                                    fresh |-> {}]]
  BY DEF IInv, Upload, Steps
<1>2. /\ job' \in [Callers -> Job]
      /\ job'[c].step = "reserved" /\ job'[c].for = File
      /\ OthersStay(c)
  BY <1>1, NextJob
<1>3. \A l \in Keys : ~Working(c, l)'
  BY <1>2, IntegrationAssumption DEF Working
<1>4. GoodJob(c)'
  BY <1>2, <1>3, IntegrationAssumption DEF GoodJob, AfterImport
<1> QED  BY <1>2, <1>3, <1>4, JobOnly DEF Upload, IInv, IntTypeOK

\* The requests that just end: losers of the race, and those whose process dies.
LEMMA FinishPreserves ==
    ASSUME IInv, NEW c \in Callers, Finish(c), UNCHANGED <<status, origin, told>>, lost' \subseteq Keys
    PROVE  IInv'
<1>1. /\ job' \in [Callers -> Job]
      /\ job'[c].step = "idle"
      /\ OthersStay(c)
  BY FinishJob DEF IInv
<1>2. \A l \in Keys : ~Working(c, l)'
  BY <1>1 DEF Working
<1>3. GoodJob(c)'
  BY <1>1, <1>2 DEF GoodJob, AfterImport
<1> QED  BY <1>1, <1>2, <1>3, JobOnly

\* What the job of a request at some step holds.
LEMMA JobFields ==
    ASSUME IInv, NEW c \in Callers, job[c].step # "idle"
    PROVE  /\ IntTypeOK
           /\ job[c].for \in Keys \cup {File}
           /\ job[c].batch \in SUBSET Numbers
           /\ job[c].fresh \in SUBSET Numbers
           /\ GoodJob(c)
BY JobKinds DEF IInv, ActiveJob

LEMMA ReservePreserves ==
    ASSUME IInv, NEW c \in Callers, Reserve(c) PROVE IInv'
<1> DEFINE k == job[c].for
<1>1. /\ IntTypeOK /\ GoodJob(c) /\ job[c].step = "checked" /\ k \in Keys
      /\ status[k] = "NONE" /\ status' = [status EXCEPT ![k] = "RUNNING"]
      /\ job' = [job EXCEPT ![c].step = "reserved"]
      /\ "reserved" \in Steps
      /\ UNCHANGED <<origin, told, lost>>
  BY JobFields DEF Reserve, KeyIsFree, ReservedStatus, Goto, GoodJob, Steps
<1>2. /\ job' \in [Callers -> Job]
      /\ job'[c].step = "reserved" /\ job'[c].for = k
      /\ job'[c].batch = job[c].batch
      /\ OthersStay(c)
  BY <1>1, GotoJob
<1>3. /\ status' \in [Keys -> RunStatus] /\ status'[k] = "RUNNING"
      /\ \A l \in Keys \ {k} : status'[l] = status[l]
  BY <1>1 DEF IntTypeOK, RunStatus
<1>4. IntTypeOK'
  BY <1>1, <1>2, <1>3 DEF IntTypeOK
<1>5. \A l \in Keys : Working(c, l)' => l = k
  BY <1>2 DEF Working
<1>6. GoodJob(c)'
  BY <1>1, <1>2, <1>3, <1>5 DEF GoodJob, AfterImport
<1>7. GoodKey(k)'
  <2>1. GoodKey(k)
    BY <1>1 DEF IInv
  <2> QED  BY <1>1, <1>3, <2>1 DEF GoodKey, Employees
<1> QED  BY <1>1, <1>2, <1>3, <1>4, <1>5, <1>6, <1>7, StepPreserves

LEMMA ReadExistingPreserves ==
    ASSUME IInv, NEW c \in Callers, ReadExisting(c) PROVE IInv'
<1>1. /\ IntTypeOK /\ GoodJob(c) /\ job[c].step = "reserved"
      /\ UNCHANGED <<status, origin, told, lost>>
  BY JobFields DEF ReadExisting
<1> DEFINE ns == job[c].batch \ Employees
<1>2. /\ job[c].for \in Keys \cup {File} /\ job[c].batch \in SUBSET Numbers
      /\ ns \in SUBSET Numbers
  BY <1>1, JobFields
<1>3. /\ job' \in [Callers -> Job]
      /\ job'[c].step = "reading" /\ job'[c].for = job[c].for
      /\ job'[c].batch = job[c].batch /\ job'[c].fresh = ns
      /\ OthersStay(c)
  <2>1. job[c] \in ActiveJob
    BY <1>1, JobKinds
  <2>2. job'[c] = [[job[c] EXCEPT !.step = "reading"] EXCEPT !.fresh = ns]
    BY <1>1, <2>1 DEF ReadExisting, IntTypeOK, ActiveJob
  <2>3. /\ job'[c] \in ActiveJob
        /\ job'[c].step = "reading" /\ job'[c].for = job[c].for
        /\ job'[c].batch = job[c].batch /\ job'[c].fresh = ns
    BY <1>2, <2>1, <2>2 DEF ActiveJob, Steps
  <2>4. ActiveJob \subseteq Job
    BY DEF ActiveJob, Job, Steps
  <2>5. job' = [job EXCEPT ![c] = job'[c]]
    BY <1>1 DEF ReadExisting, IntTypeOK
  <2> QED  BY <1>1, <2>3, <2>4, <2>5 DEF IntTypeOK, OthersStay
<1>4. \A l \in Keys : Working(c, l)' <=> Working(c, l)
  BY <1>1, <1>3 DEF Working
<1>5. GoodJob(c)'
  BY <1>1, <1>3, <1>4 DEF GoodJob, AfterImport, Employees
<1> QED  BY <1>1, <1>3, <1>4, <1>5, JobOnly DEF IntTypeOK

LEMMA InsertFreshPreserves ==
    ASSUME IInv, NEW c \in Callers, InsertFresh(c) PROVE IInv'
<1>1. /\ IntTypeOK /\ GoodJob(c) /\ job[c].step = "reading"
      /\ job[c].for \in Keys \cup {File}
      /\ job[c].batch \in SUBSET Numbers /\ job[c].fresh \in SUBSET Numbers
      /\ job[c].fresh \cap Employees = {}
      /\ UNCHANGED <<status, told, lost>>
  BY JobFields DEF InsertFresh, NumbersAreFree
<1>2. /\ origin' \in [Numbers -> Keys \cup {File, None}]
      /\ \A n \in job[c].fresh : origin'[n] = job[c].for
      /\ \A n \in Numbers : origin[n] # None => origin'[n] = origin[n]
  BY <1>1 DEF InsertFresh, IntTypeOK, Employees
<1>3. job[c].batch \subseteq Employees'
  <2>1. Employees \cup job[c].fresh \subseteq Employees'
    BY <1>1, <1>2, IntegrationAssumption DEF Employees
  <2> QED  BY <1>1, <2>1 DEF GoodJob
<1>4. CASE job[c].for = File
  <2>1. /\ job' \in [Callers -> Job] /\ job'[c].step = "idle" /\ OthersStay(c)
    BY <1>1, <1>4, FinishJob DEF InsertFresh
  <2>2. \A l \in Keys : ~Working(c, l)'
    BY <2>1 DEF Working
  <2>3. GoodJob(c)'
    BY <2>1, <2>2 DEF GoodJob, AfterImport
  <2>4. IntTypeOK'
    BY <1>1, <1>2, <2>1 DEF IntTypeOK
  <2> QED  BY <1>1, <1>2, <2>1, <2>2, <2>3, <2>4, StepPreserves
<1>5. CASE job[c].for # File
  <2>1. job' = [job EXCEPT ![c].step = "imported"] /\ "imported" \in Steps
    BY <1>5 DEF InsertFresh, Goto, Steps
  <2>2. /\ job' \in [Callers -> Job]
        /\ job'[c].step = "imported" /\ job'[c].for = job[c].for
        /\ job'[c].batch = job[c].batch /\ job'[c].fresh = job[c].fresh
        /\ OthersStay(c)
    BY <1>1, <2>1, GotoJob
  <2>3. \A l \in Keys : Working(c, l)' <=> Working(c, l)
    BY <1>1, <2>2 DEF Working
  <2>4. GoodJob(c)'
    BY <1>1, <1>2, <1>3, <1>5, <2>2, <2>3 DEF GoodJob, AfterImport
  <2>5. IntTypeOK'
    BY <1>1, <1>2, <2>2 DEF IntTypeOK
  <2> QED  BY <1>1, <1>2, <2>2, <2>3, <2>4, <2>5, StepPreserves
<1> QED  BY <1>4, <1>5

\* The status of a request's own key changes, and the request goes on.
LEMMA StatusStep ==
    ASSUME IInv, NEW c \in Callers, NEW st \in Steps, NEW new \in {"SUCCEEDED", "FAILED"},
           job[c].step \notin {"idle", "checked"}, job[c].for \in Keys,
           status' = [status EXCEPT ![job[c].for] = new],
           job' = [job EXCEPT ![c].step = st],
           st \in {"recorded", "failed"},
           new = "SUCCEEDED" => BatchOf[job[c].for] \subseteq Employees,
           st = "failed" <=> new = "FAILED",
           st = "recorded" => job[c].step = "imported",
           UNCHANGED <<origin, told, lost>>
    PROVE  IInv'
<1> DEFINE k == job[c].for
<1>1. IntTypeOK /\ GoodJob(c) /\ GoodKey(k) /\ job[c].step # "idle"
  BY DEF IInv
<1>2. /\ job' \in [Callers -> Job]
      /\ job'[c].step = st /\ job'[c].for = k
      /\ job'[c].batch = job[c].batch /\ job'[c].fresh = job[c].fresh
      /\ OthersStay(c)
  BY <1>1, GotoJob
<1>3. /\ status' \in [Keys -> RunStatus] /\ status'[k] = new
      /\ \A l \in Keys \ {k} : status'[l] = status[l]
  BY <1>1 DEF IntTypeOK, RunStatus
<1>4. IntTypeOK'
  BY <1>1, <1>2, <1>3 DEF IntTypeOK
<1>5. \A l \in Keys : Working(c, l)' <=> Working(c, l)
  BY <1>1, <1>2 DEF Working
<1>6. Working(c, k)
  BY DEF Working
<1>7. GoodJob(c)'
  BY <1>1, <1>2, <1>3, <1>5 DEF GoodJob, AfterImport, Employees
<1>8. GoodKey(k)'
  BY <1>1, <1>3, <1>6 DEF GoodKey, Employees
<1> QED  BY <1>2, <1>3, <1>4, <1>5, <1>6, <1>7, <1>8, StepPreserves

LEMMA RecordSuccessPreserves ==
    ASSUME IInv, NEW c \in Callers, RecordSuccess(c) PROVE IInv'
<1>1. /\ job[c].step = "imported" /\ GoodJob(c)
      /\ status' = [status EXCEPT ![job[c].for] = "SUCCEEDED"]
      /\ job' = [job EXCEPT ![c].step = "recorded"]
      /\ "recorded" \in Steps
      /\ UNCHANGED <<origin, told, lost>>
  BY DEF IInv, RecordSuccess, Goto, Steps
<1>2. job[c].for \in Keys /\ BatchOf[job[c].for] \subseteq Employees
  BY <1>1 DEF GoodJob, AfterImport
<1> QED  BY <1>1, <1>2, StatusStep

LEMMA MarkFailedPreserves ==
    ASSUME IInv, NEW c \in Callers, MarkFailed(c) PROVE IInv'
<1>1. /\ job[c].step = "failing" /\ GoodJob(c)
      /\ status' = [status EXCEPT ![job[c].for] = "FAILED"]
      /\ job' = [job EXCEPT ![c].step = "failed"]
      /\ "failed" \in Steps
      /\ UNCHANGED <<origin, told, lost>>
  BY DEF IInv, MarkFailed, Goto, Steps
<1>2. job[c].for \in Keys
  BY <1>1 DEF GoodJob
<1> QED  BY <1>1, <1>2, StatusStep

\* Telling the webhooks of a request's own run.
LEMMA TellStep ==
    ASSUME IInv, NEW c \in Callers, NEW event \in Events, job[c].step # "idle",
           job[c].for \in Keys, Tell(job[c].for, event),
           job' \in [Callers -> Job], OthersStay(c), GoodJob(c)',
           \A k \in Keys : Working(c, k)' => Working(c, k),
           event = "run.succeeded" => BatchOf[job[c].for] \subseteq Employees,
           event = "employee.imported" => \E n \in BatchOf[job[c].for] : origin[n] = job[c].for,
           event = "run.failed" => status[job[c].for] = "FAILED" /\ job'[c].step = "idle",
           job[c].step # "checked",
           UNCHANGED <<status, origin, lost>>
    PROVE  IInv'
<1>0. PICK k \in Keys : k = job[c].for
  OBVIOUS
<1>1. IntTypeOK /\ GoodKey(k)
  BY DEF IInv
<1>2. /\ told' \in [Keys -> SUBSET Events] /\ told'[k] = told[k] \cup {event}
      /\ \A l \in Keys \ {k} : told'[l] = told[l]
  BY <1>0, <1>1 DEF IntTypeOK, Tell
<1>3. IntTypeOK'
  BY <1>1, <1>2 DEF IntTypeOK
<1>4. Working(c, k)
  BY <1>0 DEF Working
<1>5. \A d \in Callers : d # c => job'[d] = job[d] /\ ~Working(d, k)
  BY <1>4 DEF IInv, Alone, OthersStay
<1>6. event = "run.failed" => \A d \in Callers : ~Working(d, k)'
  BY <1>0, <1>5 DEF Working
<1>7. "run.failed" \notin told[k]
  BY <1>1, <1>4 DEF GoodKey
<1>8. GoodKey(k)'
  BY <1>0, <1>1, <1>2, <1>6, <1>7 DEF GoodKey, Employees
<1> QED  BY <1>0, <1>2, <1>3, <1>8, StepPreserves

LEMMA EmitSucceededPreserves ==
    ASSUME IInv, NEW c \in Callers, EmitSucceeded(c) PROVE IInv'
<1>1. /\ job[c].step = "recorded" /\ GoodJob(c) /\ IntTypeOK
      /\ Tell(job[c].for, "run.succeeded") /\ "run.succeeded" \in Events
      /\ UNCHANGED <<status, origin, lost>>
  BY DEF IInv, EmitSucceeded, Events
<1>2. job[c].for \in Keys /\ BatchOf[job[c].for] \subseteq Employees
  BY <1>1 DEF GoodJob, AfterImport
<1>3. CASE job[c].fresh = {}
  <2>1. /\ job' \in [Callers -> Job] /\ job'[c].step = "idle" /\ OthersStay(c)
    BY <1>1, <1>3, FinishJob DEF EmitSucceeded
  <2>2. \A l \in Keys : ~Working(c, l)'
    BY <2>1 DEF Working
  <2>3. GoodJob(c)'
    BY <2>1, <2>2 DEF GoodJob, AfterImport
  <2> QED  BY <1>1, <1>2, <2>1, <2>2, <2>3, TellStep
<1>4. CASE job[c].fresh # {}
  <2>1. job' = [job EXCEPT ![c].step = "announced"] /\ "announced" \in Steps
    BY <1>4 DEF EmitSucceeded, Goto, Steps
  <2>2. /\ job' \in [Callers -> Job]
        /\ job'[c].step = "announced" /\ job'[c].for = job[c].for
        /\ job'[c].batch = job[c].batch /\ job'[c].fresh = job[c].fresh
        /\ OthersStay(c)
    BY <1>1, <2>1, GotoJob
  <2>3. \A l \in Keys : Working(c, l)' <=> Working(c, l)
    BY <1>1, <2>2 DEF Working
  <2>4. GoodJob(c)'
    BY <1>1, <1>4, <2>2, <2>3 DEF GoodJob, AfterImport, Employees
  <2> QED  BY <1>1, <1>2, <2>2, <2>3, <2>4, TellStep
<1> QED  BY <1>3, <1>4

\* The emissions that end a request.
LEMMA LastWord ==
    ASSUME IInv, NEW c \in Callers, Finish(c)
    PROVE  /\ job' \in [Callers -> Job] /\ job'[c].step = "idle" /\ OthersStay(c)
           /\ GoodJob(c)'
           /\ \A k \in Keys : ~Working(c, k)'
<1>1. /\ job' \in [Callers -> Job] /\ job'[c].step = "idle" /\ OthersStay(c)
  BY FinishJob DEF IInv
<1>2. \A l \in Keys : ~Working(c, l)'
  BY <1>1 DEF Working
<1> QED  BY <1>1, <1>2 DEF GoodJob, AfterImport

LEMMA EmitImportedPreserves ==
    ASSUME IInv, NEW c \in Callers, EmitImported(c) PROVE IInv'
<1>1. /\ job[c].step = "announced" /\ GoodJob(c) /\ Finish(c)
      /\ Tell(job[c].for, "employee.imported") /\ "employee.imported" \in Events
      /\ UNCHANGED <<status, origin, lost>>
  BY DEF IInv, EmitImported, Events
<1>2. /\ job[c].for \in Keys
      /\ \E n \in BatchOf[job[c].for] : origin[n] = job[c].for
  BY <1>1 DEF GoodJob, AfterImport
<1> QED  BY <1>1, <1>2, LastWord, TellStep

LEMMA EmitFailedPreserves ==
    ASSUME IInv, NEW c \in Callers, EmitFailed(c) PROVE IInv'
<1>1. /\ job[c].step = "failed" /\ GoodJob(c) /\ Finish(c)
      /\ Tell(job[c].for, "run.failed") /\ "run.failed" \in Events
      /\ UNCHANGED <<status, origin, lost>>
  BY DEF IInv, EmitFailed, Events
<1>2. job[c].for \in Keys /\ status[job[c].for] = "FAILED"
  BY <1>1 DEF GoodJob
<1> QED  BY <1>1, <1>2, LastWord, TellStep

LEMMA ThrowPreserves ==
    ASSUME IInv, NEW c \in Callers, Throw(c) PROVE IInv'
<1>1. /\ IntTypeOK /\ GoodJob(c) /\ job[c].step \notin {"idle", "checked"}
      /\ job[c].for \in Keys \cup {File} /\ job[c].step # "idle"
      /\ UNCHANGED <<status, origin, told, lost>> /\ lost' \subseteq Keys
  BY JobFields DEF Throw, IInv, IntTypeOK
<1>2. CASE job[c].for = File
  BY <1>1, <1>2, FinishPreserves DEF Throw, Caught, Finish
<1>3. CASE job[c].for # File
  <2>1. job' = [job EXCEPT ![c].step = "failing"] /\ "failing" \in Steps
    BY <1>3 DEF Throw, Caught, Steps
  <2>2. /\ job' \in [Callers -> Job]
        /\ job'[c].step = "failing" /\ job'[c].for = job[c].for
        /\ job'[c].batch = job[c].batch
        /\ OthersStay(c)
    BY <1>1, <2>1, GotoJob
  <2>3. \A l \in Keys : Working(c, l)' <=> Working(c, l)
    BY <1>1, <2>2 DEF Working
  <2>4. GoodJob(c)'
    BY <1>1, <1>3, <2>2, <2>3 DEF GoodJob, AfterImport
  <2> QED  BY <1>1, <2>2, <2>3, <2>4, JobOnly
<1> QED  BY <1>2, <1>3

\* Every step of any request, one by one.
LEMMA NextPreserves == IInv /\ [Next]_vars => IInv'
<1> SUFFICES ASSUME IInv, [Next]_vars PROVE IInv'
  OBVIOUS
<1>1. CASE UNCHANGED vars
  BY <1>1 DEF vars, IInv, IntTypeOK, GoodJob, GoodKey, Alone, Working, Employees
<1>2. CASE Next
  <2> SUFFICES ASSUME NEW c \in Callers,
                      \/ \E k \in Keys : Trigger(c, k)
                      \/ \E batch \in SUBSET Numbers : Upload(c, batch)
                      \/ Work(c)
               PROVE  IInv'
    BY <1>2 DEF Next
  <2>1. lost \subseteq Keys
    BY DEF IInv, IntTypeOK
  <2>2. CASE \E k \in Keys : Trigger(c, k)
    BY <2>2, TriggerPreserves
  <2>3. CASE \E batch \in SUBSET Numbers : Upload(c, batch)
    BY <2>3, UploadPreserves
  <2>4. CASE LoseRace(c) \/ Stop(c)
    BY <2>1, <2>4, FinishPreserves DEF LoseRace, Stop
  <2>5. CASE Work(c) /\ ~LoseRace(c) /\ ~Stop(c)
    BY <2>5, ReservePreserves, ReadExistingPreserves, InsertFreshPreserves,
       RecordSuccessPreserves, EmitSucceededPreserves, EmitImportedPreserves,
       ThrowPreserves, MarkFailedPreserves, EmitFailedPreserves DEF Work
  <2> QED  BY <2>2, <2>3, <2>4, <2>5
<1> QED  BY <1>1, <1>2

\* The invariant behind everything that follows: what is on file, what has been told, and who
\* is working on what (triggerRun and ImportService.importEmployees).
THEOREM Invariant == Spec => []IInv
BY InitIInv, NextPreserves, PTL DEF Spec

-----------------------------------------------------------------------------
(* What follows.                                                            *)

\* Requests, runs and employees keep the shape that the code gives them.
THEOREM IntTypeCorrect == Spec => []IntTypeOK
<1>1. IInv => IntTypeOK
  BY DEF IInv
<1> QED  BY <1>1, Invariant, PTL

\* However many requests carry however many keys at once, each run has one worker at most:
\* the reservation of the run row (IntegrationsService.triggerRun) elects it.
THEOREM OneWorker == Spec => []SingleWorker
<1>1. ASSUME Alone PROVE SingleWorker
  <2> SUFFICES ASSUME NEW k \in Keys
               PROVE  Cardinality({c \in Callers : Working(c, k)}) <= 1
    BY DEF SingleWorker
  <2> DEFINE W == {c \in Callers : Working(c, k)}
  <2>1. CASE W = {}
    BY <2>1, FS_EmptySet
  <2>2. CASE W # {}
    <3>1. PICK c \in W : TRUE
      BY <2>2
    <3>2. W = {c}
      BY <1>1, <3>1 DEF Alone
    <3> QED  BY <3>2, FS_Singleton
  <2> QED  BY <2>1, <2>2
<1>2. IInv => SingleWorker
  BY <1>1 DEF IInv
<1> QED  BY <1>2, Invariant, PTL

\* What the webhooks are told of a run is true of it, then and ever after
\* (IntegrationsService.triggerRun and WebhooksService.emit).
THEOREM Truthful == Spec => []ToldTheTruth
<1>1. IInv => ToldTheTruth
  BY DEF IInv, GoodKey, ToldTheTruth
<1> QED  BY <1>1, Invariant, PTL

\* An employee once on file is never created again: not by another key, not by the same
\* key again, not by an upload (docs/adr/0004-integrations.md:67).
THEOREM NobodyImportedTwice == Spec => NoDoubleImport
<1>1. ASSUME IInv, [Next]_vars
      PROVE  [\A n \in Numbers : origin[n] # None => origin'[n] = origin[n]]_vars
  <2>1. ASSUME NEW c \in Callers, InsertFresh(c), NEW n \in Numbers, origin[n] # None
        PROVE  origin'[n] = origin[n]
    <3>1. n \notin job[c].fresh
      BY <2>1 DEF InsertFresh, NumbersAreFree, Employees
    <3> QED  BY <2>1, <3>1 DEF InsertFresh
  <2>2. CASE \E c \in Callers : InsertFresh(c)
    BY <2>1, <2>2
  <2>3. CASE ~\E c \in Callers : InsertFresh(c)
    BY <1>1, <2>3 DEF Next, Work, vars, Trigger, Upload, Reserve, LoseRace, ReadExisting,
       RecordSuccess, EmitSucceeded, EmitImported, Throw, MarkFailed, EmitFailed, Stop
  <2> QED  BY <2>2, <2>3
<1> QED  BY <1>1, Invariant, PTL DEF Spec, NoDoubleImport
===============================================================================
