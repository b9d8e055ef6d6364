-------------------------- MODULE AssessmentRecord --------------------------
(***************************************************************************)
(* The assessment aggregate: the value that is serialised into one row of  *)
(* the assessments table and that every handler reads, changes in memory   *)
(* and writes back whole.  This module has no state; it defines the value  *)
(* (AssessmentResponse, ScanJob and Repository of                          *)
(* domain/assessment/models.py) and the changes the service makes to it.   *)
(*                                                                         *)
(* Lists are keyed by the identifier of their entry, a uuid4 in the code:  *)
(* job[j] is the status of job j, or "none" when the list has no entry j.  *)
(* Names, timestamps and messages are left out.  local_path is assigned    *)
(* together with READY and never cleared, so repo[r] = "ready" also says   *)
(* that the local_path of r is set.  The findings of a scan are appended   *)
(* by one extend call: `findings` is the set of jobs whose results are in  *)
(* the list.                                                               *)
(***************************************************************************)

CONSTANTS
    Jobs,      \* identifiers of scan jobs
    Repos,     \* identifiers of ingested repositories
    External   \* a scan target that is no clone: a path, a URL, or none

ASSUME ExternalAssumption == External \notin Repos

AssessmentStatus == {"created", "analyzing", "completed", "failed"}
ScanStatus == {"none", "pending", "running", "completed", "failed"}
RepositoryIngestStatus == {"none", "pending", "cloning", "ready", "failed"}

Targets == Repos \cup {External}
Consent == {"given", "absent"}   \* target_authorization_confirmed of a request

Active == {"pending", "running"}
Terminal == {"completed", "failed"}

Assessment == [status     : AssessmentStatus,
               job        : [Jobs -> ScanStatus],
               target     : [Jobs -> Targets],
               authorized : SUBSET Jobs,
               findings   : SUBSET Jobs,
               repo       : [Repos -> RepositoryIngestStatus]]

NewAssessment == [status     |-> "created",
                  job        |-> [j \in Jobs |-> "none"],
                  target     |-> [j \in Jobs |-> External],
                  authorized |-> {},
                  findings   |-> {},
                  repo       |-> [r \in Repos |-> "none"]]

LocalPaths(b) == {r \in Repos : b.repo[r] = "ready"}

-----------------------------------------------------------------------------
(* Scan jobs. *)

\* start_analysis is called only in a status that it accepts, so its
\* InvalidAssessmentStateError is never raised by the service.
StartAnalysis(b) ==
    IF b.status \in {"created", "completed"}
    THEN [b EXCEPT !.status = "analyzing"]
    ELSE b

AppendJob(b, j, s, t, consent) ==
    [b EXCEPT !.job        = [@ EXCEPT ![j] = s],
              !.target     = [@ EXCEPT ![j] = t],
              !.authorized = IF consent = "given" THEN @ \cup {j} ELSE @]

SetJob(b, j, s) == [b EXCEPT !.job = [@ EXCEPT ![j] = s]]

\* Mutant: the branches in another order, so that one success hides failures.
ReconciledStatusSuccessFirst(job) ==
    IF \E j \in Jobs : job[j] \in Active THEN "analyzing"
    ELSE IF \E j \in Jobs : job[j] = "completed" THEN "completed"
    ELSE IF \E j \in Jobs : job[j] = "failed" THEN "failed"
    ELSE "created"

ReconciledStatus(job) ==
    IF \E j \in Jobs : job[j] \in Active THEN "analyzing"
    ELSE IF \E j \in Jobs : job[j] = "failed" THEN "failed"
    ELSE IF \E j \in Jobs : job[j] = "completed" THEN "completed"
    ELSE "created"

Reconcile(b) == [b EXCEPT !.status = ReconciledStatus(b.job)]

\* Mutant: the findings are extended whether or not the agent raised.
FinishJobWithPartialFindings(b, j, outcome) ==
    Reconcile([SetJob(b, j, outcome) EXCEPT !.findings = @ \cup {j}])

\* The end of a scan: a result extends the findings, an exception of the
\* agent only marks the job, and either way the status is recomputed.
FinishJob(b, j, outcome) ==
    LET recorded == [SetJob(b, j, outcome) EXCEPT
                        !.findings = IF outcome = "completed" THEN @ \cup {j} ELSE @]
    IN  Reconcile(recorded)

-----------------------------------------------------------------------------
(* Repositories. *)

SetRepo(b, r, s) == [b EXCEPT !.repo = [@ EXCEPT ![r] = s]]

-----------------------------------------------------------------------------
(* What a single assessment must look like whenever somebody reads it.     *)

\* The status is explained by the jobs listed beside it.  A Trivy job is
\* appended RUNNING without touching the status, so a running job alone
\* does not contradict CREATED, COMPLETED or FAILED.
StatusExplained(b) ==
    /\ b.status = "created"   => \A j \in Jobs : b.job[j] \in {"none", "running"}
    /\ b.status = "analyzing" => \E j \in Jobs : b.job[j] \in Active
    /\ b.status = "completed" => /\ \A j \in Jobs : b.job[j] \notin {"pending", "failed"}
                                 /\ \E j \in Jobs : b.job[j] = "completed"
    /\ b.status = "failed"    => \E j \in Jobs : b.job[j] = "failed"

\* The results of a job are present exactly when the job is COMPLETED.
FindingsExplained(b) == b.findings = {j \in Jobs : b.job[j] = "completed"}
=============================================================================
