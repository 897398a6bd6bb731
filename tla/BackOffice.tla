----------------------------- MODULE BackOffice -----------------------------
(***************************************************************************)
(* The parts of the system around the payroll core: access to the API,     *)
(* accounts, web sessions, the kernels, pay calendars, insights and Assist.*)
(* None of them writes a row that another one of them reads, so a joint    *)
(* behaviour is a shuffle of one behaviour for each part, and a property   *)
(* of one part cannot be broken by a step of another: which part moves is  *)
(* chosen at the start, and the others stay where they start.              *)
(***************************************************************************)
EXTENDS Access, Accounts, WebSession, Kernels, PayPeriods, Insights, Assist

VARIABLE part

Parts == {"access", "accounts", "web", "kernels", "periods", "insights", "assist"}

backOfficeVars ==
  <<part, accessVars, accountVars, webVars, kernelVars, periodVars, insightVars, assistVars>>

\* Where the parts with a choice of initial states stand while another one moves.
AccessRests ==
  /\ caller = [kind |-> "anonymous", roles |-> {}]
  /\ request = 1 /\ answer = "none"

AccountsRest ==
  /\ tenant = "absent" /\ interrupted = FALSE
  /\ users = [e \in Emails |-> NoAccount]
  /\ providers = [p \in Providers |-> "none"]
  /\ scim = {} /\ links = {} /\ tokens = <<>>
  /\ access = {} /\ mfaPending = {}
  /\ online = {} /\ directory = {}
  /\ pending = [w \in Workers |-> Idle]

KernelsRest == kernel = "none" /\ question = <<>> /\ result = <<>>

BackOfficeInit ==
  /\ part \in Parts
  /\ IF part = "access" THEN AccessInit ELSE AccessRests
  /\ IF part = "accounts" THEN AccountsInit ELSE AccountsRest
  /\ IF part = "kernels" THEN KernelInit ELSE KernelsRest
  /\ WebInit
  /\ PeriodsInit
  /\ InsightsInit
  /\ AssistInit

AccessMoves ==
  /\ part = "access" /\ AccessNext
  /\ UNCHANGED <<part, accountVars, webVars, kernelVars, periodVars, insightVars, assistVars>>

AccountsMove ==
  /\ part = "accounts" /\ AccountsNext
  /\ UNCHANGED <<part, accessVars, webVars, kernelVars, periodVars, insightVars, assistVars>>

WebMoves ==
  /\ part = "web" /\ WebNext
  /\ UNCHANGED <<part, accessVars, accountVars, kernelVars, periodVars, insightVars, assistVars>>

KernelsMove ==
  /\ part = "kernels" /\ KernelNext
  /\ UNCHANGED <<part, accessVars, accountVars, webVars, periodVars, insightVars, assistVars>>

PeriodsMove ==
  /\ part = "periods" /\ PeriodsNext
  /\ UNCHANGED <<part, accessVars, accountVars, webVars, kernelVars, insightVars, assistVars>>

InsightsMove ==
  /\ part = "insights" /\ InsightsNext
  /\ UNCHANGED <<part, accessVars, accountVars, webVars, kernelVars, periodVars, assistVars>>

AssistMoves ==
  /\ part = "assist" /\ AssistNext
  /\ UNCHANGED <<part, accessVars, accountVars, webVars, kernelVars, periodVars, insightVars>>

BackOfficeNext ==
  AccessMoves \/ AccountsMove \/ WebMoves \/ KernelsMove \/ PeriodsMove \/ InsightsMove \/ AssistMoves

BackOfficeSpec == BackOfficeInit /\ [][BackOfficeNext]_backOfficeVars
=============================================================================
