----------------------------- MODULE Disbursement -----------------------------
(***************************************************************************)
(* Publishing a run and the files it produces.  After the transaction of   *)
(* RunsService.publish has committed, the handler starts two independent   *)
(* jobs: the bank file and the payslips.  Each reads the lines in a        *)
(* transaction of its own, writes objects to S3 and upserts a row per      *)
(* object.  A job may stop at any await: a PDF or storage error rejects    *)
(* its promise, a crash of the task loses all of them.  No other code      *)
(* starts these jobs.                                                      *)
(***************************************************************************)
EXTENDS PayrollRun

VARIABLES
    task,     \* work the publish handlers still have to do
    lost,     \* tasks that failed (history only: the code keeps no such record)
    bank,     \* the lines in the bank file of a run: {} if there is none, else one set
    slips     \* the lines of which a payslip document exists, by run

outVars == <<task, lost, bank, slips>>
allVars == <<vars, outVars>>

Task == [do : {"readBank", "saveBank", "readSlips", "saveSlip"}, run : Periods,
         rows : SUBSET Line]

OutInit ==
    /\ Init
    /\ task = {}
    /\ lost = {}
    /\ bank = [p \in Periods |-> {}]
    /\ slips = [p \in Periods |-> {}]

-----------------------------------------------------------------------------
ToDo(what, p, rows) == [do |-> what, run |-> p, rows |-> rows]

\* The two jobs are started once the transaction has committed.
Publish(s) ==
    /\ PublishCommit(s)
    /\ task' = task \cup {ToDo("readBank", tx[s].run, {}), ToDo("readSlips", tx[s].run, {})}
    /\ UNCHANGED <<lost, bank, slips>>

\* Faulty variant: rows are selected by current group membership.
RowsOfMembers(p) == {l \in line[p] : member[l.emp] = GroupOf[p]}

FileRows(p) == line[p]

\* A job goes on with the tasks "next" after finishing k.
Continue(k, next) == task' = (task \ {k}) \cup next

ReadBank(k) ==
    /\ k.do = "readBank"
    /\ Continue(k, {ToDo("saveBank", k.run, FileRows(k.run))})
    /\ UNCHANGED <<vars, lost, bank, slips>>

\* The object key and the row are those of the run: a later file replaces it.
SaveBank(k) ==
    /\ k.do = "saveBank"
    /\ bank' = [bank EXCEPT ![k.run] = {k.rows}]
    /\ Continue(k, {})
    /\ UNCHANGED <<vars, lost, slips>>

\* One task per line, all started together.
ReadSlips(k) ==
    /\ k.do = "readSlips"
    /\ Continue(k, {ToDo("saveSlip", k.run, {l}) : l \in FileRows(k.run)})
    /\ UNCHANGED <<vars, lost, bank, slips>>

\* Key and row are those of the run and the employee.
SaveSlip(k) ==
    /\ k.do = "saveSlip"
    /\ slips' = [slips EXCEPT ![k.run] =
                    {l \in @ : \A m \in k.rows : l.emp # m.emp} \cup k.rows]
    /\ Continue(k, {})
    /\ UNCHANGED <<vars, lost, bank>>

\* Faulty variant: the first failure abandons every other task of the run.
StopAll(k) == {j \in task : j.run # k.run}

\* A failed statement, PDF or upload rejects this task's promise; the others go on.
StopOne(k) == task \ {k}

Fail(k) ==
    /\ task' = StopOne(k)
    /\ lost' = lost \cup {k}
    /\ UNCHANGED <<vars, bank, slips>>

\* The container is stopped: its jobs and open transactions are gone.
Crash ==
    /\ task # {}
    /\ task' = {}
    /\ lost' = lost \cup task
    /\ tx' = [s \in Sessions |-> Idle]
    /\ UNCHANGED <<runVars, claim, hrVars, bank, slips>>

TaskStep(k) == ReadBank(k) \/ SaveBank(k) \/ ReadSlips(k) \/ SaveSlip(k) \/ Fail(k)

OutNext ==
    \/ \E s \in Sessions : Publish(s)
    \/ \E p \in Periods : CreateRun(p) /\ UNCHANGED outVars
    \/ \E s \in Sessions : (RunStep(s) \/ ClaimStep(s)) /\ UNCHANGED outVars
    \/ InputStep /\ UNCHANGED outVars
    \/ \E k \in task : TaskStep(k)
    \/ Crash

\* The event loop resumes every promise that can go on: a task is not left alone
\* for ever, though how it ends is open.
OutSpec ==
    /\ OutInit
    /\ [][OutNext]_allVars
    /\ \A k \in Task : WF_allVars(k \in task /\ TaskStep(k))

-----------------------------------------------------------------------------
Employed(rows) == {l.emp : l \in rows}

\* Whatever fails on the way, a bank file lists exactly the lines of its run, a payslip
\* shows one of them, and the run was published (BankFileService.generate,
\* PayslipService.generateAll).
FilesShowTheRun ==
    \A p \in Periods :
        /\ bank[p] # {} => bank[p] = {line[p]} /\ p \in paid
        /\ slips[p] # {} => slips[p] \subseteq line[p] /\ p \in paid

\* The bank file of a published run is written in the end, unless its own job failed.
BankFileUnlessLost ==
    \A p \in Periods :
        p \in paid ~> \/ bank[p] # {}
                     \/ \E k \in lost : k.run = p /\ k.do \in {"readBank", "saveBank"}

\* "one bad PDF does not abort the others" (payslip.service.ts:86): every employee with a
\* line gets her payslip in the end, unless her own document or the read of the lines failed.
PayslipUnlessLost ==
    \A p \in Periods, e \in Employees :
        p \in paid /\ e \in Employed(line[p])
            ~> \/ e \in Employed(slips[p])
               \/ \E k \in lost : /\ k.run = p
                                 /\ \/ k.do = "readSlips"
                                    \/ k.do = "saveSlip" /\ e \in Employed(k.rows)

\* "safe to call on republish/retry" (bank-file.service.ts:63): a published run has
\* its bank file, or is getting it, or can still be published again.
BankFileRecoverable ==
    \A p \in Periods : run[p].publishedBy # None =>
        \/ bank[p] # {}
        \/ \E k \in task : k.run = p /\ k.do \in {"readBank", "saveBank"}
        \/ run[p].status = "APPROVED"
=============================================================================
