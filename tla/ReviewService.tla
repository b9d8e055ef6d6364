---------------------------- MODULE ReviewService ----------------------------
(***************************************************************************)
(* The assessment service over its store: AssessmentService, the SQL       *)
(* repository behind it, the directory of git clones and the consent audit *)
(* log, driven by concurrent requests.                                     *)
(*                                                                         *)
(* The endpoints of api/routers/assessment.py are plain functions that the *)
(* framework runs on a pool of threads; each is a Worker here.  Every      *)
(* database call opens a transaction of its own, so a handler is a chain   *)
(* of actions, one per transaction (or per change of the clone directory), *)
(* and between two of them any other worker may run.  What a handler read  *)
(* stays in its `copy`, is changed there, and is written back whole by     *)
(* `save`, an upsert: the last writer wins, and a row deleted meanwhile is *)
(* inserted again.                                                         *)
(*                                                                         *)
(* A request that cannot proceed (404, 402, 409) and every read-only       *)
(* endpoint change nothing; rejections at the first step are the absence   *)
(* of a step.  The database serialises transactions; no transaction of     *)
(* this code spans two of its own calls.                                   *)
(***************************************************************************)
EXTENDS AssessmentRecord, Integers, FiniteSets

CONSTANTS
    Workers,          \* threads serving requests and their background tasks
    Assessments,      \* identifiers of assessments
    None,             \* no identifier
    MaxAssessments,   \* the plan's cap on assessments
    MaxScanJobs,      \* the plan's cap on scan jobs, over all assessments
    Serial,           \* TRUE: clients keep one request in flight per assessment
    Faults            \* TRUE: a request may die, or fail outside its handlers

ASSUME WorkersAssumption == IsFiniteSet(Workers)
ASSUME CapAssumption == /\ MaxAssessments \in Nat \ {0}
                        /\ MaxScanJobs \in Nat
ASSUME FlagAssumption == Serial \in BOOLEAN /\ Faults \in BOOLEAN
ASSUME NoneAssumption == None \notin Assessments \cup Jobs \cup Repos
ASSUME IdentifiersAssumption == Assessments \cap Repos = {}

VARIABLES
    stored,     \* ids with a row in the assessments table
    payload,    \* the payload column of each row
    disk,       \* repositories with a directory under SECURITY_REVIEW_REPO_WORKDIR
    audit,      \* <<assessment, job>> of the entries in consent_audit_log
    notified,   \* <<job, status>> of the webhooks that were delivered
    used,       \* identifiers drawn so far: uuid4 never repeats
    gone,       \* history: ids of assessments and repositories that were deleted
    pc,         \* where each worker is
    at,         \* the assessment it works on
    item,       \* the job or repository it works on
    copy        \* the assessment object it holds

store == <<stored, payload>>
local == <<pc, at, item, copy>>
vars == <<stored, payload, disk, audit, notified, used, gone, pc, at, item, copy>>

PC == {"idle", "insert", "delete_row", "save_removal", "cleanup",
       "save_new_repo", "reload_repo", "save_cloning", "begin_clone", "end_clone",
       "save_ingestion", "read_job", "record_consent", "save_new_job", "reload_job",
       "save_running", "save_trivy_job", "execute", "notify"}

Init ==
    /\ stored = {}
    /\ payload = [a \in Assessments |-> NewAssessment]
    /\ disk = {}
    /\ audit = {}
    /\ notified = {}
    /\ used = {}
    /\ gone = {}
    /\ pc = [w \in Workers |-> "idle"]
    /\ at = [w \in Workers |-> None]
    /\ item = [w \in Workers |-> None]
    /\ copy = [w \in Workers |-> NewAssessment]

-----------------------------------------------------------------------------
(* Requests and transactions. *)

\* With Serial, a client waits for one request on an assessment, background
\* ingestion included, before it sends the next.
Admits(a) == Serial => \A w \in Workers : at[w] # a

Begin(w, p, a, i, b) ==
    /\ pc[w] = "idle"
    /\ pc' = [pc EXCEPT ![w] = p]
    /\ at' = [at EXCEPT ![w] = a]
    /\ item' = [item EXCEPT ![w] = i]
    /\ copy' = [copy EXCEPT ![w] = b]

Goto(w, p, q) ==
    /\ pc[w] = p
    /\ pc' = [pc EXCEPT ![w] = q]
    /\ UNCHANGED <<at, item>>

Finish(w) ==
    /\ pc' = [pc EXCEPT ![w] = "idle"]
    /\ at' = [at EXCEPT ![w] = None]
    /\ item' = [item EXCEPT ![w] = None]
    /\ copy' = [copy EXCEPT ![w] = NewAssessment]

\* SqliteAssessmentRepository.save: insert, or replace the payload.
Save(a, b) ==
    /\ stored' = stored \cup {a}
    /\ payload' = [payload EXCEPT ![a] = b]

\* SqliteAssessmentRepository.delete: no error when the row is gone already.
Delete(a) ==
    /\ stored' = stored \ {a}
    /\ payload' = [payload EXCEPT ![a] = NewAssessment]

Draw(id) == id \notin used /\ used' = used \cup {id}

-----------------------------------------------------------------------------
(* POST /assessments *)

\* Mutant: the comparison lets the plan's last assessment be one too many.
EnforceAssessmentLimitInclusive(w, a) ==
    /\ Cardinality(stored) <= MaxAssessments
    /\ Draw(a)
    /\ Begin(w, "insert", a, None, NewAssessment)
    /\ UNCHANGED <<store, disk, audit, notified, gone>>

\* The count of rows is compared with the plan in one transaction.  The id
\* is drawn by the constructor that follows; nobody else can name it yet.
EnforceAssessmentLimit(w, a) ==
    /\ Cardinality(stored) < MaxAssessments
    /\ Draw(a)
    /\ Begin(w, "insert", a, None, NewAssessment)
    /\ UNCHANGED <<store, disk, audit, notified, gone>>

\* The row is inserted in another.
InsertAssessment(w) ==
    /\ pc[w] = "insert"
    /\ Save(at[w], copy[w])
    /\ Finish(w)
    /\ UNCHANGED <<disk, audit, notified, used, gone>>

-----------------------------------------------------------------------------
(* DELETE /assessments/{a} and DELETE /assessments/{a}/repositories/{r}     *)

ReadForDeletion(w, a) ==
    /\ a \in stored
    /\ Admits(a)
    /\ Begin(w, "delete_row", a, None, payload[a])
    /\ UNCHANGED <<store, disk, audit, notified, used, gone>>

DeleteRow(w) ==
    /\ Goto(w, "delete_row", "cleanup")
    /\ Delete(at[w])
    /\ gone' = gone \cup {at[w]}
    /\ UNCHANGED <<copy, disk, audit, notified, used>>

\* Mutant: the clone is removed before the row that refers to it is saved.
ReadForRemovalCleaningFirst(w, a, r) ==
    /\ a \in stored
    /\ payload[a].repo[r] # "none"
    /\ Admits(a)
    /\ Begin(w, "save_removal", a, r, payload[a])
    /\ disk' = disk \ {r}
    /\ UNCHANGED <<store, audit, notified, used, gone>>

ReadForRemoval(w, a, r) ==
    /\ a \in stored
    /\ payload[a].repo[r] # "none"
    /\ Admits(a)
    /\ Begin(w, "save_removal", a, r, payload[a])
    /\ UNCHANGED <<store, disk, audit, notified, used, gone>>

\* Mutant: the repository is not taken out of the list that is saved.
SaveRemovalUnchanged(w) ==
    /\ Goto(w, "save_removal", "cleanup")
    /\ Save(at[w], copy[w])
    /\ gone' = gone \cup {item[w]}
    /\ UNCHANGED <<copy, disk, audit, notified, used>>

SaveRemoval(w) ==
    /\ Goto(w, "save_removal", "cleanup")
    /\ Save(at[w], SetRepo(copy[w], item[w], "none"))
    /\ gone' = gone \cup {item[w]}
    /\ UNCHANGED <<copy, disk, audit, notified, used>>

\* Mutant: deleting an assessment forgets the clones of its repositories.
CleanupNamedClone(w) ==
    /\ pc[w] = "cleanup"
    /\ disk' = disk \ (LocalPaths(copy[w]) \cap {item[w]})
    /\ Finish(w)
    /\ UNCHANGED <<store, audit, notified, used, gone>>

\* _cleanup_repository_clone, for the repositories of the object that was
\* read: one without a local_path has nothing to remove.
CleanupClones(w) ==
    /\ pc[w] = "cleanup"
    /\ disk' = disk \ (IF item[w] = None THEN LocalPaths(copy[w])
                       ELSE LocalPaths(copy[w]) \cap {item[w]})
    /\ Finish(w)
    /\ UNCHANGED <<store, audit, notified, used, gone>>

-----------------------------------------------------------------------------
(* POST /assessments/{a}/repositories, then its background task            *)

ReadForIngestion(w, a, r) ==
    /\ a \in stored
    /\ Admits(a)
    /\ Draw(r)
    /\ Begin(w, "save_new_repo", a, r, SetRepo(payload[a], r, "pending"))
    /\ UNCHANGED <<store, disk, audit, notified, gone>>

\* The response leaves here; run_repository_ingestion follows.
SaveNewRepository(w) ==
    /\ Goto(w, "save_new_repo", "reload_repo")
    /\ Save(at[w], copy[w])
    /\ UNCHANGED <<copy, disk, audit, notified, used, gone>>

\* Mutant: the repository is announced READY before it is cloned.
ReloadRepositoryOptimistic(w) ==
    /\ pc[w] = "reload_repo"
    /\ IF at[w] \in stored /\ payload[at[w]].repo[item[w]] # "none"
       THEN /\ Goto(w, "reload_repo", "save_cloning")
            /\ copy' = [copy EXCEPT ![w] = SetRepo(payload[at[w]], item[w], "ready")]
       ELSE Finish(w)
    /\ UNCHANGED <<store, disk, audit, notified, used, gone>>

\* A KeyError of the background task is only logged.
ReloadRepository(w) ==
    /\ pc[w] = "reload_repo"
    /\ IF at[w] \in stored /\ payload[at[w]].repo[item[w]] # "none"
       THEN /\ Goto(w, "reload_repo", "save_cloning")
            /\ copy' = [copy EXCEPT ![w] = SetRepo(payload[at[w]], item[w], "cloning")]
       ELSE Finish(w)
    /\ UNCHANGED <<store, disk, audit, notified, used, gone>>

SaveCloning(w) ==
    /\ Goto(w, "save_cloning", "begin_clone")
    /\ Save(at[w], copy[w])
    /\ UNCHANGED <<copy, disk, audit, notified, used, gone>>

\* Nothing is written: the URL or the branch is rejected ("failed"), or git
\* cannot be started, an exception that skips both assignments ("cloning").
RefuseClone(w, outcome) ==
    /\ Goto(w, "begin_clone", "save_ingestion")
    /\ copy' = [copy EXCEPT ![w] = SetRepo(@, item[w], outcome)]
    /\ UNCHANGED <<store, disk, audit, notified, used, gone>>

\* git is writing into base_dir/<repository id>.
BeginClone(w) ==
    /\ Goto(w, "begin_clone", "end_clone")
    /\ disk' = disk \cup {item[w]}
    /\ UNCHANGED <<store, copy, audit, notified, used, gone>>

\* Mutant: a failure gets a status the domain does not have.
EndCloneUnlistedStatus(w, outcome) ==
    /\ outcome = "cloning" => Faults
    /\ Goto(w, "end_clone", "save_ingestion")
    /\ copy' = [copy EXCEPT ![w] =
                   SetRepo(@, item[w], IF outcome = "failed" THEN "timeout" ELSE outcome)]
    /\ disk' = IF outcome = "failed" THEN disk \ {item[w]} ELSE disk
    /\ UNCHANGED <<store, audit, notified, used, gone>>

\* "ready": cloned.  "failed": a timeout or an error of git, raised as
\* RepositoryIngestionError after the directory was removed.  "cloning": the
\* output of git does not decode, and status and directory stay as they are.
EndClone(w, outcome) ==
    /\ outcome = "cloning" => Faults
    /\ Goto(w, "end_clone", "save_ingestion")
    /\ copy' = [copy EXCEPT ![w] = SetRepo(@, item[w], outcome)]
    /\ disk' = IF outcome = "failed" THEN disk \ {item[w]} ELSE disk
    /\ UNCHANGED <<store, audit, notified, used, gone>>

SaveIngestion(w) ==
    /\ pc[w] = "save_ingestion"
    /\ Save(at[w], copy[w])
    /\ Finish(w)
    /\ UNCHANGED <<disk, audit, notified, used, gone>>

-----------------------------------------------------------------------------
(* POST /assessments/{a}/scan-jobs and .../trivy-scan-async: the job is    *)
(* created and then executed by the same request.                          *)

ScanJobsStored == {p \in stored \X Jobs : payload[p[1]].job[p[2]] # "none"}

EnforceScanJobLimit(w, a) ==
    /\ a \in used
    /\ Cardinality(ScanJobsStored) < MaxScanJobs
    /\ Admits(a)
    /\ Begin(w, "read_job", a, None, NewAssessment)
    /\ UNCHANGED <<store, disk, audit, notified, used, gone>>

\* Mutant: consent is not recorded.
ReadForScanJobUnaudited(w, j, t, consent) ==
    /\ pc[w] = "read_job"
    /\ at[w] \in stored
    /\ t \in Repos => payload[at[w]].repo[t] = "ready"
    /\ Draw(j)
    /\ pc' = [pc EXCEPT ![w] = "save_new_job"]
    /\ item' = [item EXCEPT ![w] = j]
    /\ copy' = [copy EXCEPT ![w] =
                   AppendJob(StartAnalysis(payload[at[w]]), j, "pending", t, consent)]
    /\ UNCHANGED <<store, disk, audit, notified, at, gone>>

\* Mutant: the repository need only exist.
ReadForScanJobOfAnyClone(w, j, t, consent) ==
    /\ pc[w] = "read_job"
    /\ at[w] \in stored
    /\ t \in Repos => payload[at[w]].repo[t] # "none"
    /\ Draw(j)
    /\ pc' = [pc EXCEPT ![w] = IF consent = "given" THEN "record_consent" ELSE "save_new_job"]
    /\ item' = [item EXCEPT ![w] = j]
    /\ copy' = [copy EXCEPT ![w] =
                   AppendJob(StartAnalysis(payload[at[w]]), j, "pending", t, consent)]
    /\ UNCHANGED <<store, disk, audit, notified, at, gone>>

\* The target is a repository that is READY, or else named by the request.
ReadForScanJob(w, j, t, consent) ==
    /\ pc[w] = "read_job"
    /\ at[w] \in stored
    /\ t \in Repos => payload[at[w]].repo[t] = "ready"
    /\ Draw(j)
    /\ pc' = [pc EXCEPT ![w] = IF consent = "given" THEN "record_consent" ELSE "save_new_job"]
    /\ item' = [item EXCEPT ![w] = j]
    /\ copy' = [copy EXCEPT ![w] =
                   AppendJob(StartAnalysis(payload[at[w]]), j, "pending", t, consent)]
    /\ UNCHANGED <<store, disk, audit, notified, at, gone>>

\* The assessment is gone, or the repository is unknown or not READY.
RejectScanJob(w) ==
    /\ pc[w] = "read_job"
    /\ Finish(w)
    /\ UNCHANGED <<store, disk, audit, notified, used, gone>>

\* Consent is on record before the job it allows exists.
RecordConsent(w) ==
    /\ Goto(w, "record_consent", "save_new_job")
    /\ audit' = audit \cup {<<at[w], item[w]>>}
    /\ UNCHANGED <<store, copy, disk, notified, used, gone>>

SaveNewJob(w) ==
    /\ Goto(w, "save_new_job", "reload_job")
    /\ Save(at[w], copy[w])
    /\ UNCHANGED <<copy, disk, audit, notified, used, gone>>

ReloadJob(w) ==
    /\ pc[w] = "reload_job"
    /\ IF at[w] \in stored /\ payload[at[w]].job[item[w]] # "none"
       THEN /\ Goto(w, "reload_job", "save_running")
            /\ copy' = [copy EXCEPT ![w] = SetJob(payload[at[w]], item[w], "running")]
       ELSE Finish(w)
    /\ UNCHANGED <<store, disk, audit, notified, used, gone>>

SaveRunning(w) ==
    /\ Goto(w, "save_running", "execute")
    /\ Save(at[w], copy[w])
    /\ UNCHANGED <<copy, disk, audit, notified, used, gone>>

\* Mutant: the object is saved before it is changed.
FinishScanSavingFirst(w, outcome) ==
    /\ Goto(w, "execute", "notify")
    /\ Save(at[w], copy[w])
    /\ copy' = [copy EXCEPT ![w] = FinishJob(@, item[w], outcome)]
    /\ UNCHANGED <<disk, audit, notified, used, gone>>

\* Mutant: an exception of the agent leaves the handler.
FinishScanUncaught(w, outcome) ==
    /\ pc[w] = "execute"
    /\ IF outcome = "completed"
       THEN /\ Goto(w, "execute", "notify")
            /\ Save(at[w], FinishJob(copy[w], item[w], outcome))
            /\ copy' = [copy EXCEPT ![w] = FinishJob(@, item[w], outcome)]
       ELSE Finish(w) /\ UNCHANGED store
    /\ UNCHANGED <<disk, audit, notified, used, gone>>

\* The agent runs, on the clone or elsewhere, and the object read before it
\* started is written back with the outcome.
FinishScan(w, outcome) ==
    LET b == FinishJob(copy[w], item[w], outcome)
    IN  /\ Goto(w, "execute", "notify")
        /\ Save(at[w], b)
        /\ copy' = [copy EXCEPT ![w] = b]
        /\ UNCHANGED <<disk, audit, notified, used, gone>>

\* Mutant: the status in the webhook's payload is a constant.
NotifyWebhookCompleted(w, delivered) ==
    /\ pc[w] = "notify"
    /\ notified' = IF delivered THEN notified \cup {<<item[w], "completed">>} ELSE notified
    /\ Finish(w)
    /\ UNCHANGED <<store, disk, audit, used, gone>>

\* Best effort, after the save: no URL, a refused URL or an HTTP error is
\* no delivery.
NotifyWebhook(w, delivered) ==
    /\ pc[w] = "notify"
    /\ notified' = IF delivered
                   THEN notified \cup {<<item[w], copy[w].job[item[w]]>>}
                   ELSE notified
    /\ Finish(w)
    /\ UNCHANGED <<store, disk, audit, used, gone>>

-----------------------------------------------------------------------------
(* POST /assessments/{a}/trivy-scan: no plan limit, no status change, and   *)
(* the object read here is the one written back after the scan.            *)

ReadForTrivyScan(w, a, j) ==
    /\ a \in stored
    /\ Admits(a)
    /\ Draw(j)
    /\ Begin(w, "save_trivy_job", a, j, AppendJob(payload[a], j, "running", External, "absent"))
    /\ UNCHANGED <<store, disk, audit, notified, gone>>

SaveTrivyJob(w) ==
    /\ Goto(w, "save_trivy_job", "execute")
    /\ Save(at[w], copy[w])
    /\ UNCHANGED <<copy, disk, audit, notified, used, gone>>

-----------------------------------------------------------------------------
\* An exception no handler catches (a locked or unreachable database), or
\* the death of the process: the request ends where it is, and nothing at
\* startup looks for what it left behind.
Abort(w) ==
    /\ Faults
    /\ pc[w] # "idle"
    /\ Finish(w)
    /\ UNCHANGED <<store, disk, audit, notified, used, gone>>

Request(w) ==
    \/ \E a \in Assessments :
          \/ EnforceAssessmentLimit(w, a)
          \/ ReadForDeletion(w, a)
          \/ EnforceScanJobLimit(w, a)
          \/ \E r \in Repos : ReadForRemoval(w, a, r) \/ ReadForIngestion(w, a, r)
          \/ \E j \in Jobs : ReadForTrivyScan(w, a, j)

Step(w) ==
    \/ InsertAssessment(w)
    \/ DeleteRow(w)
    \/ SaveRemoval(w)
    \/ CleanupClones(w)
    \/ SaveNewRepository(w)
    \/ ReloadRepository(w)
    \/ SaveCloning(w)
    \/ \E outcome \in {"failed", "cloning"} : RefuseClone(w, outcome)
    \/ BeginClone(w)
    \/ \E outcome \in {"ready", "failed", "cloning"} : EndClone(w, outcome)
    \/ SaveIngestion(w)
    \/ \E j \in Jobs, t \in Targets, consent \in Consent :
          ReadForScanJob(w, j, t, consent)
    \/ RejectScanJob(w)
    \/ RecordConsent(w)
    \/ SaveNewJob(w)
    \/ ReloadJob(w)
    \/ SaveRunning(w)
    \/ \E outcome \in Terminal : FinishScan(w, outcome)
    \/ \E delivered \in BOOLEAN : NotifyWebhook(w, delivered)
    \/ SaveTrivyJob(w)

Next == \E w \in Workers : Request(w) \/ Step(w) \/ Abort(w)

Spec == Init /\ [][Next]_vars

\* A thread that has a step to take takes it: agents and git run under
\* timeouts.  Clients owe nothing.
Fairness == \A w \in Workers : WF_vars(Step(w))

FairSpec == Spec /\ Fairness

-----------------------------------------------------------------------------
(* Type invariant. *)

\* Every variable has its type: ids come from their sets, rows and copies
\* hold assessments.
TypeOK ==
    /\ stored \subseteq Assessments
    /\ payload \in [Assessments -> Assessment]
    /\ disk \subseteq Repos
    /\ audit \subseteq Assessments \X Jobs
    /\ notified \subseteq Jobs \X ScanStatus
    /\ used \subseteq Assessments \cup Jobs \cup Repos
    /\ gone \subseteq Assessments \cup Repos
    /\ pc \in [Workers -> PC]
    /\ at \in [Workers -> Assessments \cup {None}]
    /\ item \in [Workers -> Jobs \cup Repos \cup {None}]
    /\ copy \in [Workers -> Assessment]

-----------------------------------------------------------------------------
(* Properties that hold under every interleaving, lost updates, resurrected *)
(* rows and requests that die included.                                     *)

\* A reader never sees an assessment whose status contradicts its jobs:
\* whichever stale object was written last, and whether or not its job was
\* ever finished, _reconcile_assessment_status or start_analysis ran on it.
StatusMatchesJobs == \A a \in stored : StatusExplained(payload[a])

\* The findings of a scan and its COMPLETED status are stored or lost
\* together: no reader sees one without the other.
FindingsMatchJobs == \A a \in stored : FindingsExplained(payload[a])

\* Active scanning has consent on record: the audit entry exists before the
\* authorised job is visible to anyone and before its agent runs, and it is
\* still there after the assessment was deleted or overwritten.
ConsentBeforeScan ==
    /\ \A a \in stored : \A j \in payload[a].authorized : <<a, j>> \in audit
    /\ \A w \in Workers :
          pc[w] = "execute" /\ item[w] \in copy[w].authorized => <<at[w], item[w]>> \in audit

\* The check of the plan's cap and the insertion are two transactions, and a
\* save can bring a deleted row back; still the cap is never exceeded by more
\* than one row per other thread.
OvershootBounded == Cardinality(stored) <= MaxAssessments - 1 + Cardinality(Workers)

-----------------------------------------------------------------------------
(* Properties that need one request at a time per assessment.              *)

\* When the request of a scan returns, its result is in the store, unless
\* the assessment was deleted: the endpoint "executes it before returning so
\* callers see the final findings immediately".
ScanVisibleOnReturn ==
    \A w \in Workers :
        pc[w] = "notify" /\ at[w] \in stored =>
            /\ payload[at[w]].job[item[w]] = copy[w].job[item[w]]
            /\ item[w] \in payload[at[w]].findings <=> item[w] \in copy[w].findings

\* The webhook is sent after the save, so what it told the receiver is what a
\* later reader of the job finds.
WebhookMatchesRecord ==
    \A m \in notified, a \in stored :
        payload[a].job[m[1]] \in {"none", m[2]}

\* What was deleted stays deleted, assessments and repositories alike.
DeletedStaysDeleted ==
    \A a \in stored : /\ a \notin gone
                      /\ \A r \in gone \cap Repos : payload[a].repo[r] = "none"

\* A READY repository has its clone on disk: the directory exists before the
\* status says so, and the status is gone before the directory is removed.  An
\* agent that scans an ingested repository finds the clone there.
ClonesOnDisk ==
    /\ \A a \in stored : LocalPaths(payload[a]) \subseteq disk
    /\ \A w \in Workers :
           pc[w] = "execute" /\ copy[w].target[item[w]] \in Repos
               => copy[w].target[item[w]] \in disk

\* While no request dies, a directory on disk belongs to a stored repository
\* that is READY or being cloned, or to a request that is about to remove it.
NoOrphanClone ==
    \A r \in disk :
        \/ \E a \in stored : payload[a].repo[r] \in {"ready", "cloning"}
        \/ \E w \in Workers : pc[w] = "cleanup" /\ r \in LocalPaths(copy[w])

Ledger == INSTANCE ReviewLedger WITH
              rows <- stored,
              job  <- [a \in Assessments |-> payload[a].job],
              repo <- [a \in Assessments |-> payload[a].repo]

\* One request at a time per assessment, interleaved with those on other
\* assessments and dying anywhere, loses no change and invents none: the
\* service implements the ledger.
ImplementsLedger == Ledger!Spec

\* While no request dies, a job that was accepted reaches COMPLETED or FAILED
\* or goes with its assessment: the agent's exceptions are caught, and the
\* thread that created the job executes it.
JobsFinish ==
    \A a \in Assessments, j \in Jobs :
        (a \in stored /\ payload[a].job[j] \in Active)
            ~> (a \notin stored \/ payload[a].job[j] \in Terminal)

=============================================================================
